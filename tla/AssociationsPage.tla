--------------------------- MODULE AssociationsPage ---------------------------
(***************************************************************************)
(* The page on which associations, aliases, canonical overrides and        *)
(* external services are managed.  It keeps a list of each: one of         *)
(* associations per dependency, loaded when the dependency is first        *)
(* expanded, and one each of all aliases, overrides and external services. *)
(* Lists are loaded again after an addition, external services excepted,   *)
(* and after a removal only lose the entry.  Loads of one list overlap,    *)
(* are read early and come late; no answer is ever dropped.                *)
(*                                                                         *)
(* The server takes a request and the page learns of it in one step.  The  *)
(* search and the fold of the service, which hide dependencies as the      *)
(* filter does, are one value of the filter; the editors of names, which   *)
(* keep their input while hidden, are not hidden.                          *)
(***************************************************************************)
EXTENDS Integers, FiniteSets

CONSTANTS
    PageDeps,        \* dependencies, each of another name
    LinkTargets,     \* services they may be associated with
    AliasNames,      \* names of dependencies
    RowIds,          \* bound: the ids that rows get, in this order
    ExternalNames,   \* name and description of an external service, as one
    CanonicalNames,
    OverrideTexts,   \* contact and impact, treated alike, as one
    OverrideTeams,   \* teams with overrides of their own
    StatusFilters,   \* the filters that are chosen
    MaxListLoads,    \* bound: loads in flight
    MaxPageCalls,    \* bound: other requests in flight
    Nothing          \* null: no form, no answer, no team

ASSUME PageConstants ==
    /\ "" \notin LinkTargets \cup CanonicalNames \cup OverrideTexts \cup ExternalNames
    /\ Nothing \notin PageDeps \cup AliasNames \cup CanonicalNames \cup OverrideTeams
    /\ PageDeps \cap {"aliases", "overrides", "external"} = {}
    /\ StatusFilters \subseteq {"all", "linked", "unlinked", "hidden"}
    /\ Nothing \notin RowIds /\ IsFiniteSet(RowIds) /\ RowIds \subseteq Nat
    /\ MaxListLoads \in Nat /\ MaxPageCalls \in Nat

Lists == PageDeps \cup {"aliases", "overrides", "external"}
AliasRow == [id : RowIds, alias : AliasNames, name : CanonicalNames]
OverrideRow == [name : CanonicalNames, team : OverrideTeams \cup {Nothing}, text : OverrideTexts]
ExternalRow == [id : RowIds, name : ExternalNames]
Entries(l) ==
    CASE l = "aliases" -> AliasRow
      [] l = "overrides" -> OverrideRow
      [] l = "external" -> ExternalRow
      [] OTHER -> LinkTargets
ASSUME NullIsNoList == \A l \in Lists : \A entries \in SUBSET Entries(l) : entries # Nothing

VARIABLES
    tables,   \* dependency_associations by dependency, dependency_aliases, ..._overrides,
              \* external services
    usedIds,  \* the ids that aliases and external services have had
    linkPage  \* ManageAssociations with its hooks, ExternalServicesManager

linkVars == <<tables, usedIds, linkPage>>

----------------------------------------------------------------------------
(* What every list has. *)

Loads == 1..MaxListLoads
\* "then": whether the save that had the list loaded waits for it.
Load(state, then) == [state |-> state, rows |-> {}, missed |-> FALSE, then |-> then]
NoLoad == Load("none", FALSE)
FreeSlots(p, l) == {i \in Loads : p.loads[l][i] = NoLoad}
LoadList(p, l, then) ==
    [p EXCEPT !.loads[l][CHOOSE i \in FreeSlots(p, l) : TRUE] = Load("asked", then)]

\* The panel of a dependency is there, with its buttons.
Passes(p, d) ==
    CASE p.filter = "all" -> TRUE
      [] p.filter = "hidden" -> FALSE
      [] p.filter = "linked" -> p.shown[d] # {}
      [] p.filter = "unlinked" -> p.shown[d] = {} \/ p.shown[d] = Nothing
InView(p, d) == d \in p.opened /\ p.shown[d] # Nothing /\ Passes(p, d)
\* The form that leaves the page loses its input; a request it sent goes on.
Unmounted(p) ==
    [p EXCEPT !.chosen = "",
              !.calls = {IF c.kind = "link" THEN [c EXCEPT !.mounted = FALSE] ELSE c : c \in @}]
Drawn(p) == IF p.adding # Nothing /\ InView(p, p.adding) THEN p ELSE Unmounted(p)
ToPage(p) == linkPage' = Drawn(p) /\ UNCHANGED <<tables, usedIds>>

\* As a bound, the same request is not in flight twice.
Send(p, call) ==
    /\ call \notin p.calls /\ Cardinality(p.calls) < MaxPageCalls
    /\ ToPage([p EXCEPT !.calls = @ \cup {call}])
Ended(p, call) == [p EXCEPT !.calls = @ \ {call}]
Waiting(kind) == \E c \in linkPage.calls : c.kind = kind

\* A list changes on the server: answers that were read before miss it, and so
\* does what is shown, unless the page changes that as well.
Changed(p, l, follows) ==
    [p EXCEPT !.loads[l] = [i \in Loads |-> [p.loads[l][i] EXCEPT !.missed = p.loads[l][i].state = "read"]],
              !.behind[l] = @ \/ ~follows]
\* The server has taken what p knows of; an addition has the list loaded again.
Taken(l, rows, p) == tables' = [tables EXCEPT ![l] = rows] /\ linkPage' = Drawn(p)
Added(l, rows, p, then) ==
    FreeSlots(p, l) # {} /\ Taken(l, rows, LoadList(Changed(p, l, FALSE), l, then))
Followed(l, rows, p, shown) == Taken(l, rows, [Changed(p, l, TRUE) EXCEPT !.shown[l] = shown])
Removed(l, rows, p, gone) == Followed(l, rows, p, p.shown[l] \ gone)
Elsewhere(l, rows) == rows # tables[l] /\ Taken(l, rows, Changed(linkPage, l, FALSE))
FreeIds == RowIds \ usedIds
NextId == CHOOSE i \in FreeIds : \A j \in FreeIds : i <= j
\* A request that is refused, or not answered.
CallFails(kinds) == \E c \in linkPage.calls : c.kind \in kinds /\ ToPage(Ended(linkPage, c))

\* GET of a list, and its answer; a load that failed leaves the list as it was.
ReadList(l, i) ==
    /\ linkPage.loads[l][i].state = "asked"
    /\ \/ ToPage([linkPage EXCEPT !.loads[l][i].state = "read", !.loads[l][i].rows = tables[l]])
       \/ ToPage([linkPage EXCEPT !.loads[l][i].state = "failed"])
WithAnswer(l, i) ==
    LET load == linkPage.loads[l][i]
        p == [linkPage EXCEPT !.loads[l][i] = NoLoad]
    IN  IF load.state = "failed" THEN p
        ELSE [p EXCEPT !.shown[l] = load.rows, !.behind[l] = load.missed]
Answered(l, i) == linkPage.loads[l][i].state \in {"read", "failed"}

----------------------------------------------------------------------------
(* Associations. *)

PageFree == linkPage.target = Nothing  \* the dialog is modal

\* Expanded again before the answer comes, it is asked again.
ToggleDependency(d) ==
    /\ PageFree /\ Passes(linkPage, d)
    /\ IF d \in linkPage.opened THEN ToPage([linkPage EXCEPT !.opened = @ \ {d}])
       ELSE LET p == [linkPage EXCEPT !.opened = @ \cup {d}]
            IN  IF linkPage.shown[d] # Nothing THEN ToPage(p)
                ELSE FreeSlots(p, d) # {} /\ ToPage(LoadList(p, d, FALSE))
SetStatusFilter ==
    PageFree /\ \E f \in StatusFilters \ {linkPage.filter} :
                   ToPage([linkPage EXCEPT !.filter = f])
GotLinks(d, i) == Answered(d, i) /\ ToPage(WithAnswer(d, i))

OpenLinkForm(d) ==
    /\ PageFree /\ InView(linkPage, d) /\ linkPage.adding # d
    /\ ToPage([Unmounted(linkPage) EXCEPT !.adding = d])
LinkFormFree == PageFree /\ linkPage.adding # Nothing /\ InView(linkPage, linkPage.adding)
CancelLinkForm == LinkFormFree /\ ToPage([linkPage EXCEPT !.adding = Nothing])
ChooseTarget ==
    /\ LinkFormFree
    /\ \E t \in LinkTargets \ {linkPage.chosen} : ToPage([linkPage EXCEPT !.chosen = t])
Creating == \E c \in linkPage.calls : c.kind = "link" /\ c.mounted
SubmitLink ==
    /\ LinkFormFree /\ linkPage.chosen # "" /\ ~Creating
    /\ Send(linkPage, [kind |-> "link", dep |-> linkPage.adding, target |-> linkPage.chosen,
                       mounted |-> TRUE])
\* createAssociation; handleAddSuccess closes whichever form is open.
CreateAssociation(call) ==
    /\ call.kind = "link" /\ call.target \notin tables[call.dep] /\ UNCHANGED usedIds
    /\ Added(call.dep, tables[call.dep] \cup {call.target},
             [Ended(linkPage, call) EXCEPT !.adding = Nothing], FALSE)

AskDeleteLink(d, t) ==
    /\ PageFree /\ InView(linkPage, d) /\ t \in linkPage.shown[d]
    /\ ToPage([linkPage EXCEPT !.target = <<d, t>>])
\* Cancel, and Escape also during the request.
CloseDeleteLink == ~PageFree /\ ToPage([linkPage EXCEPT !.target = Nothing])
ConfirmDeleteLink ==
    /\ ~PageFree /\ ~Waiting("unlink")
    /\ Send(linkPage, [kind |-> "unlink", dep |-> linkPage.target[1], target |-> linkPage.target[2]])
\* deleteAssociation; the dialog that is open now is closed.
DeleteAssociation(call) ==
    /\ call.kind = "unlink" /\ call.target \in tables[call.dep] /\ UNCHANGED usedIds
    /\ Removed(call.dep, tables[call.dep] \ {call.target},
               [Ended(linkPage, call) EXCEPT !.target = Nothing], {call.target})

\* Other clients, the manifest sync and the automatic associator.
LinkElsewhere ==
    /\ UNCHANGED usedIds
    /\ \E d \in PageDeps, links \in SUBSET LinkTargets : Elsewhere(d, links)

LinksNext ==
    \/ \E d \in PageDeps : \/ ToggleDependency(d) \/ OpenLinkForm(d)
                           \/ \E t \in LinkTargets : AskDeleteLink(d, t)
    \/ SetStatusFilter \/ CancelLinkForm \/ ChooseTarget \/ SubmitLink
    \/ CloseDeleteLink \/ ConfirmDeleteLink \/ LinkElsewhere
    \/ \E d \in PageDeps, i \in Loads : ReadList(d, i) \/ GotLinks(d, i)
    \/ \E c \in linkPage.calls : CreateAssociation(c) \/ DeleteAssociation(c)
    \/ CallFails({"link", "unlink"})

----------------------------------------------------------------------------
(* Aliases.  The form of one name is open at a time; its input is not     *)
(* disabled while a request of it is in flight.                           *)

OpenAliasForm(a) ==
    linkPage.aliasOf # a /\ ToPage([linkPage EXCEPT !.aliasOf = a, !.aliasInput = ""])
NoAliasForm(p) == [p EXCEPT !.aliasOf = Nothing, !.aliasInput = ""]
CancelAliasForm == linkPage.aliasOf # Nothing /\ ToPage(NoAliasForm(linkPage))
TypeCanonical ==
    /\ linkPage.aliasOf # Nothing
    /\ \E n \in (CanonicalNames \cup {""}) \ {linkPage.aliasInput} : ToPage([linkPage EXCEPT !.aliasInput = n])
SubmitAlias ==
    /\ linkPage.aliasOf # Nothing /\ linkPage.aliasInput # ""
    /\ Send(linkPage, [kind |-> "alias", alias |-> linkPage.aliasOf, name |-> linkPage.aliasInput])
\* createAlias.
NewAlias(id, alias, name) == [id |-> id, alias |-> alias, name |-> name]
MayAlias(alias) == FreeIds # {} /\ \A r \in tables["aliases"] : r.alias # alias
PostAlias(call) ==
    /\ call.kind = "alias" /\ MayAlias(call.alias) /\ usedIds' = usedIds \cup {NextId}
    /\ Added("aliases", tables["aliases"] \cup {NewAlias(NextId, call.alias, call.name)},
             Ended(linkPage, call), TRUE)
\* After the aliases the names are loaded, and only then a form is closed: the
\* one that is open.
GotAliases(i) ==
    /\ Answered("aliases", i)
    /\ ToPage([WithAnswer("aliases", i) EXCEPT
                  !.loads["aliases"][i] = IF linkPage.loads["aliases"][i].then THEN Load("names", TRUE)
                                          ELSE NoLoad])
GotNames(i) ==
    /\ linkPage.loads["aliases"][i].state = "names"
    /\ ToPage(NoAliasForm([linkPage EXCEPT !.loads["aliases"][i] = NoLoad]))
HandleAliasDelete ==
    \E r \in linkPage.shown["aliases"] : Send(linkPage, [kind |-> "unalias", id |-> r.id])
\* deleteAlias, by the id: an alias that was created anew is another one.
RemoveAlias(call) ==
    /\ call.kind = "unalias" /\ UNCHANGED usedIds
    /\ \E r \in tables["aliases"] :
          r.id = call.id /\ Removed("aliases", tables["aliases"] \ {r}, Ended(linkPage, call),
                                        {x \in linkPage.shown["aliases"] : x.id = r.id})

AliasElsewhere ==
    \/ \E a \in AliasNames, n \in CanonicalNames :
          /\ MayAlias(a) /\ usedIds' = usedIds \cup {NextId}
          /\ Elsewhere("aliases", tables["aliases"] \cup {NewAlias(NextId, a, n)})
    \/ /\ UNCHANGED usedIds
       /\ \E r \in tables["aliases"] :
             \/ Elsewhere("aliases", tables["aliases"] \ {r})
             \/ \E n \in CanonicalNames :
                   Elsewhere("aliases", (tables["aliases"] \ {r}) \cup {[r EXCEPT !.name = n]})

AliasesNext ==
    \/ \E a \in AliasNames : OpenAliasForm(a)
    \/ CancelAliasForm \/ TypeCanonical \/ SubmitAlias \/ HandleAliasDelete \/ AliasElsewhere
    \/ \E i \in Loads : ReadList("aliases", i) \/ GotAliases(i) \/ GotNames(i)
    \/ \E c \in linkPage.calls : PostAlias(c) \/ RemoveAlias(c)
    \/ CallFails({"alias", "unalias"})

----------------------------------------------------------------------------
(* Canonical overrides.  The list has the overrides of teams as well, and  *)
(* the first one of the name is taken for the canonical one.               *)

ShownOf(n) == {r \in linkPage.shown["overrides"] : r.name = n}
OpenOverrideEdit(n) ==
    /\ linkPage.overrideOf # n
    /\ \E text \in IF ShownOf(n) = {} THEN {""} ELSE {r.text : r \in ShownOf(n)} :
          ToPage([linkPage EXCEPT !.overrideOf = n, !.overrideInput = text])
NoOverrideForm(p) == [p EXCEPT !.overrideOf = Nothing, !.overrideInput = ""]
CancelOverrideEdit == linkPage.overrideOf # Nothing /\ ToPage(NoOverrideForm(linkPage))
TypeOverride ==
    /\ linkPage.overrideOf # Nothing
    /\ \E x \in (OverrideTexts \cup {""}) \ {linkPage.overrideInput} :
          ToPage([linkPage EXCEPT !.overrideInput = x])
\* isSavingOverride lasts until the list is loaded again.
SavingOverride == Waiting("save") \/ \E i \in Loads : linkPage.loads["overrides"][i].then
HandleOverrideSave ==
    /\ linkPage.overrideOf # Nothing /\ linkPage.overrideInput # "" /\ ~SavingOverride
    /\ Send(linkPage, [kind |-> "save", name |-> linkPage.overrideOf, text |-> linkPage.overrideInput])
\* upsertCanonicalOverride without a team.
Canonical(n) == {r \in tables["overrides"] : r.name = n /\ r.team = Nothing}
UpsertCanonicalOverride(call) ==
    /\ call.kind = "save" /\ UNCHANGED usedIds
    /\ Added("overrides", (tables["overrides"] \ Canonical(call.name))
                             \cup {[name |-> call.name, team |-> Nothing, text |-> call.text]},
             Ended(linkPage, call), TRUE)
GotOverrides(i) ==
    /\ Answered("overrides", i)
    /\ LET p == WithAnswer("overrides", i)
       IN  ToPage(IF linkPage.loads["overrides"][i].then THEN NoOverrideForm(p) ELSE p)
HandleOverrideClear ==
    /\ linkPage.overrideOf # Nothing /\ ShownOf(linkPage.overrideOf) # {} /\ ~Waiting("clear")
    /\ Send(linkPage, [kind |-> "clear", name |-> linkPage.overrideOf])
\* deleteCanonicalOverride deletes the canonical one, if there is one, and
\* removeOverride takes all of the name from the list.
DeleteCanonicalOverride(call) ==
    /\ call.kind = "clear" /\ Canonical(call.name) # {} /\ UNCHANGED usedIds
    /\ Removed("overrides", tables["overrides"] \ Canonical(call.name),
               NoOverrideForm(Ended(linkPage, call)), ShownOf(call.name))

OverrideElsewhere ==
    /\ UNCHANGED usedIds
    /\ \E n \in CanonicalNames, team \in OverrideTeams \cup {Nothing} :
          LET others == {r \in tables["overrides"] : r.name # n \/ r.team # team}
          IN  \/ Elsewhere("overrides", others)
              \/ \E x \in OverrideTexts :
                    Elsewhere("overrides", others \cup {[name |-> n, team |-> team, text |-> x]})

OverridesNext ==
    \/ \E n \in CanonicalNames : OpenOverrideEdit(n)
    \/ CancelOverrideEdit \/ TypeOverride \/ HandleOverrideSave \/ HandleOverrideClear
    \/ OverrideElsewhere
    \/ \E i \in Loads : ReadList("overrides", i) \/ GotOverrides(i)
    \/ \E c \in linkPage.calls : UpsertCanonicalOverride(c) \/ DeleteCanonicalOverride(c)
    \/ CallFails({"save", "clear"})

----------------------------------------------------------------------------
(* External services.  Nothing is shown before the only load of the list   *)
(* is answered; when it fails there are neither rows nor teams to choose,   *)
(* and nothing can be done.  Answers to additions and edits go into the    *)
(* list as they are.                                                       *)

GotExternal(i) == linkPage.loads["external"][i].state = "read" /\ ToPage(WithAnswer("external", i))
TypeNewName ==
    /\ linkPage.shown["external"] # Nothing
    /\ \E n \in (ExternalNames \cup {""}) \ {linkPage.newName} : ToPage([linkPage EXCEPT !.newName = n])
HandleCreate ==
    /\ linkPage.newName # "" /\ ~Waiting("create")
    /\ Send(linkPage, [kind |-> "create", name |-> linkPage.newName])
\* The form is emptied, whatever was typed since.
CreateExternalService(call) ==
    /\ call.kind = "create" /\ FreeIds # {} /\ usedIds' = usedIds \cup {NextId}
    /\ LET row == [id |-> NextId, name |-> call.name]
       IN  Followed("external", tables["external"] \cup {row},
                    [Ended(linkPage, call) EXCEPT !.newName = ""], linkPage.shown["external"] \cup {row})

\* The row that is edited may have been removed meanwhile.
Edited == {r \in linkPage.shown["external"] : r.id = linkPage.editing}
Editing == linkPage.shown["external"] # Nothing /\ Edited # {}
StartEdit ==
    /\ linkPage.shown["external"] # Nothing
    /\ \E r \in linkPage.shown["external"] \ Edited :
          ToPage([linkPage EXCEPT !.editing = r.id, !.editName = r.name])
NoEdit(p) == [p EXCEPT !.editing = Nothing, !.editName = ""]
CancelEdit == Editing /\ ToPage(NoEdit(linkPage))
TypeEditName ==
    /\ Editing
    /\ \E n \in (ExternalNames \cup {""}) \ {linkPage.editName} : ToPage([linkPage EXCEPT !.editName = n])
HandleUpdate ==
    /\ Editing /\ linkPage.editName # "" /\ ~Waiting("update")
    /\ Send(linkPage, [kind |-> "update", id |-> linkPage.editing, name |-> linkPage.editName])
\* Whichever row is edited now, its edit ends.
UpdateExternalService(call) ==
    /\ call.kind = "update" /\ UNCHANGED usedIds
    /\ \E r \in tables["external"] :
          /\ r.id = call.id
          /\ LET Renamed(rows) == {IF x.id = call.id THEN [x EXCEPT !.name = call.name] ELSE x : x \in rows}
             IN  Followed("external", Renamed(tables["external"]), NoEdit(Ended(linkPage, call)),
                          Renamed(linkPage.shown["external"]))
HandleDelete ==
    /\ linkPage.shown["external"] # Nothing
    /\ \E r \in linkPage.shown["external"] \ Edited : Send(linkPage, [kind |-> "delete", id |-> r.id])
DeleteExternalService(call) ==
    /\ call.kind = "delete" /\ UNCHANGED usedIds
    /\ \E r \in tables["external"] :
          r.id = call.id /\ Removed("external", tables["external"] \ {r}, Ended(linkPage, call),
                                        {x \in linkPage.shown["external"] : x.id = r.id})

ExternalElsewhere ==
    \/ \E n \in ExternalNames :
          /\ FreeIds # {} /\ usedIds' = usedIds \cup {NextId}
          /\ Elsewhere("external", tables["external"] \cup {[id |-> NextId, name |-> n]})
    \/ /\ UNCHANGED usedIds
       /\ \E r \in tables["external"] :
             \/ Elsewhere("external", tables["external"] \ {r})
             \/ \E n \in ExternalNames :
                   Elsewhere("external", (tables["external"] \ {r}) \cup {[r EXCEPT !.name = n]})

ExternalNext ==
    \/ TypeNewName \/ HandleCreate \/ StartEdit \/ CancelEdit \/ TypeEditName \/ HandleUpdate
    \/ HandleDelete \/ ExternalElsewhere
    \/ \E i \in Loads : ReadList("external", i) \/ GotExternal(i)
    \/ \E c \in linkPage.calls : \/ CreateExternalService(c) \/ UpdateExternalService(c)
                                  \/ DeleteExternalService(c)
    \/ CallFails({"create", "update", "delete"})

----------------------------------------------------------------------------
LinkPageInit ==
    /\ tables = [l \in Lists |-> {}] /\ usedIds = {}
    /\ linkPage =
          [shown |-> [l \in Lists |-> IF l \in {"aliases", "overrides"} THEN {} ELSE Nothing],
           behind |-> [l \in Lists |-> TRUE],
           loads |-> [l \in Lists |-> [i \in Loads |->
                        Load(IF l \notin PageDeps /\ i = 1 THEN "asked" ELSE "none", FALSE)]],
           calls |-> {}, opened |-> {}, filter |-> "all",
           adding |-> Nothing, chosen |-> "", target |-> Nothing,
           aliasOf |-> Nothing, aliasInput |-> "", overrideOf |-> Nothing, overrideInput |-> "",
           newName |-> "", editing |-> Nothing, editName |-> ""]

LinkPageSpec == LinkPageInit /\ [][LinksNext \/ AliasesNext \/ OverridesNext \/ ExternalNext]_linkVars

----------------------------------------------------------------------------
(* Tables and lists have rows of their type, a form has input only while it  *)
(* can be filled, and only a form that is there waits for its request        *)
(* (ManageAssociations.tsx, AssociationForm.tsx, ExternalServicesManager.tsx). *)
LinkPageTypeOK ==
    /\ \A l \in Lists : /\ tables[l] \subseteq Entries(l)
                        /\ linkPage.shown[l] = Nothing \/ linkPage.shown[l] \subseteq Entries(l)
    /\ \A r1, r2 \in tables["aliases"] : (r1.alias = r2.alias \/ r1.id = r2.id) => r1 = r2
    /\ \A r1, r2 \in tables["external"] : r1.id = r2.id => r1 = r2
    /\ \A l \in {"aliases", "external"} : \A r \in tables[l] : r.id \in usedIds
    /\ linkPage.editing = Nothing => linkPage.editName = ""
    /\ linkPage.adding \in PageDeps \cup {Nothing}
    /\ linkPage.chosen # "" \/ Creating => linkPage.adding # Nothing /\ InView(linkPage, linkPage.adding)
    /\ linkPage.aliasOf = Nothing => linkPage.aliasInput = ""
    /\ linkPage.overrideOf = Nothing => linkPage.overrideInput = ""

(* ListsShown: a list that is shown, and of which no load is in flight, is the *)
(* table, unless other clients changed that, or the last answer was read       *)
(* before a change, or the load after a save failed; of the overrides, the     *)
(* canonical ones are (hooks/useManageAssociations.ts, useAliases.ts,          *)
(* useCanonicalOverrides.ts, ExternalServicesManager.tsx).                     *)
Compared(l, rows) == IF l = "overrides" THEN {r \in rows : r.team = Nothing} ELSE rows
ListsShown ==
    \A l \in Lists :
       (/\ linkPage.shown[l] # Nothing /\ ~linkPage.behind[l]
        /\ \A i \in Loads : linkPage.loads[l][i].state \in {"none", "names"})
       => Compared(l, linkPage.shown[l]) = Compared(l, tables[l])
=============================================================================

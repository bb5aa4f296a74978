--------------------------- MODULE ManifestMetadata ---------------------------
(***************************************************************************)
(* What a manifest says beside its services: aliases, overrides of         *)
(* canonical names and associations of dependencies with services, written *)
(* by syncAliases, syncCanonicalOverrides and syncAssociations after the   *)
(* services of a sync; and the routes, the AutoAssociator and the polls    *)
(* that read and write the same tables.                                    *)
(*                                                                         *)
(* A dependency is a row of one service: its raw name never changes and    *)
(* its canonical name is what the aliases said when it was last reported.  *)
(***************************************************************************)
EXTENDS Integers, FiniteSets

CONSTANTS
    Teams,       \* teams with a manifest
    Deps,        \* rows of dependencies
    TeamOf,      \* the team of the service that reports a dependency
    RawName,     \* the name of a dependency: an alias or not
    Aliases,     \* names that may be declared aliases
    Canonicals,  \* canonical names
    Targets,     \* services a dependency may be linked to, never its own
    Suggests,    \* is a service named like this name?  The AutoAssociator asks
    Values,      \* contents of an override
    Manifests,   \* what the sections of manifests may say
    Removals,    \* the removal policies in use
    Manual,      \* NULL in manifest_team_id: an alias some user created
    None         \* no row, or NULL

\* The metadata of a manifest.  An association names the dependency by its
\* raw or by its canonical name.  An absent section is an empty one.
Manifest == [aliases : [Aliases -> Canonicals \cup {None}],
             overrides : [Canonicals -> Values \cup {None}],
             associations : SUBSET [dep : Deps, byRaw : BOOLEAN, target : Targets]]

\* Removal policies: TRUE is "remove", FALSE "keep".
Removal == [aliases : BOOLEAN, overrides : BOOLEAN, associations : BOOLEAN]

\* A row of dependency_associations is the set of the marks it has.
Marks == {"suggested", "dismissed", "managed"}

ASSUME MetadataConstants ==
    /\ Manifests \subseteq Manifest
    /\ Removals \subseteq Removal
    /\ TeamOf \in [Deps -> Teams]
    /\ RawName \in [Deps -> Aliases]
    /\ Suggests \in [Aliases \cup Canonicals -> SUBSET Targets]
    /\ Manual \notin Teams
    /\ None \notin Teams \cup {Manual} \cup Canonicals \cup Values \cup Marks

VARIABLES
    alias,     \* dependency_aliases: at most one row for each name
    canon,     \* the canonical name stored with a dependency
    override,  \* dependency_canonical_overrides of each team
    link       \* dependency_associations: the marks of each row

metaVars == <<alias, canon, override, link>>

NoAlias == [to |-> None, owner |-> None]
NoOverride == [value |-> None, managed |-> FALSE]
NoLink == {None}
Linked(d, t) == link[d][t] # NoLink

----------------------------------------------------------------------------
(* The sync, row by row.                                                   *)

\* syncAliases: a name that another team or a user has declared is reported as
\* a conflict and left alone.
AliasAfter(t, m, remove, n) ==
    IF m.aliases[n] # None
    THEN IF alias[n].owner \in {None, t} THEN [to |-> m.aliases[n], owner |-> t]
                                         ELSE alias[n]
    ELSE IF alias[n].owner = t /\ remove THEN NoAlias ELSE alias[n]
\* Mutant: overrides are compared whether or not a manifest manages them.
ManagedAlways(t, c) == override[t][c] # NoOverride
\* The overrides that findAll returns and the filter keeps.
Managed(t, c) == override[t][c].managed

\* syncCanonicalOverrides: the row is written as updated_by the user who
\* triggered the sync, or as 'system', which is no user: without a user the
\* foreign key refuses every row that would be written.
OverrideAfter(t, m, remove, byUser, c) ==
    IF m.overrides[c] # None
    THEN IF byUser THEN [value |-> m.overrides[c], managed |-> TRUE] ELSE override[t][c]
    ELSE IF Managed(t, c) /\ remove THEN NoOverride ELSE override[t][c]

\* The name the removal compares: canonical_name || name.
Effective(d) == IF canon[d] = None THEN RawName[d] ELSE canon[d]
EntryName(d, byRaw) == IF byRaw \/ canon[d] = None THEN RawName[d] ELSE canon[d]

\* Mutant: an adopted association is written anew.
AdoptedAnew(marks) == {"managed"}
\* An entry is found by either name; a new row has only the mark of the
\* manifest, an existing one keeps its other marks.
Adopted(marks) == IF marks = NoLink THEN {"managed"} ELSE marks \cup {"managed"}

\* syncAssociations: first all entries, then the removal of managed rows with
\* no entry under the effective name of their dependency.
LinkAfter(t, m, remove, d, s) ==
    LET entries == {a \in m.associations : a.dep = d /\ a.target = s}
        marks   == IF entries # {} THEN Adopted(link[d][s]) ELSE link[d][s]
        listed  == \E a \in entries : EntryName(d, a.byRaw) = Effective(d)
    IN  IF TeamOf[d] # t THEN link[d][s]
        ELSE IF remove /\ "managed" \in marks /\ ~listed THEN NoLink ELSE marks

\* The three parts of a sync: no part stops at a row that cannot be written.
SyncMetadata(t, m, removal, byUser) ==
    /\ alias' = [n \in Aliases |-> AliasAfter(t, m, removal.aliases, n)]
    /\ override' = [override EXCEPT ![t] =
          [c \in Canonicals |-> OverrideAfter(t, m, removal.overrides, byUser, c)]]
    /\ link' = [d \in Deps |-> [s \in Targets |->
          LinkAfter(t, m, removal.associations, d, s)]]
    /\ UNCHANGED canon

----------------------------------------------------------------------------
(* Polls and traces. *)

\* DependencyUpsertService: the canonical name is looked up at each report.
ReportDependency(d) ==
    /\ canon' = [canon EXCEPT ![d] = alias[RawName[d]].to]
    /\ UNCHANGED <<alias, override, link>>

\* AutoAssociator: by the name of the dependency, else by its canonical name,
\* stored or, if there is none, looked up.
Candidates(d) ==
    LET resolved == IF canon[d] # None THEN canon[d] ELSE alias[RawName[d]].to
    IN  IF Suggests[RawName[d]] # {} THEN Suggests[RawName[d]]
        ELSE IF resolved = None THEN {} ELSE Suggests[resolved]
Suggest(d, s) ==
    /\ s \in Candidates(d) /\ ~Linked(d, s)
    /\ link' = [link EXCEPT ![d][s] = {"suggested"}]
    /\ UNCHANGED <<alias, canon, override>>

----------------------------------------------------------------------------
(* The routes of users. *)

CreateAlias(n, c) ==
    /\ alias[n] = NoAlias
    /\ alias' = [alias EXCEPT ![n] = [to |-> c, owner |-> Manual]]
    /\ UNCHANGED <<canon, override, link>>

\* updateAlias keeps the owner: the next sync of that team changes it back.
UpdateAlias(n, c) ==
    /\ alias[n] # NoAlias /\ alias[n].to # c
    /\ alias' = [alias EXCEPT ![n].to = c]
    /\ UNCHANGED <<canon, override, link>>

DeleteAlias(n) ==
    /\ alias[n] # NoAlias
    /\ alias' = [alias EXCEPT ![n] = NoAlias]
    /\ UNCHANGED <<canon, override, link>>

\* upsertCanonicalOverride for a team: manifest_managed becomes 0.
UpsertOverride(t, c, v) ==
    /\ override' = [override EXCEPT ![t][c] = [value |-> v, managed |-> FALSE]]
    /\ UNCHANGED <<alias, canon, link>>

DeleteOverride(t, c) ==
    /\ override[t][c] # NoOverride
    /\ override' = [override EXCEPT ![t][c] = NoOverride]
    /\ UNCHANGED <<alias, canon, link>>

\* createAssociation answers 409 if there is a row, dismissed or not.
CreateLink(d, s) ==
    /\ ~Linked(d, s)
    /\ link' = [link EXCEPT ![d][s] = {}]
    /\ UNCHANGED <<alias, canon, override>>

ConfirmLink(d, s) ==
    /\ Linked(d, s)
    /\ link' = [link EXCEPT ![d][s] = @ \ {"suggested"}]
    /\ UNCHANGED <<alias, canon, override>>

DismissLink(d, s) ==
    /\ Linked(d, s)
    /\ link' = [link EXCEPT ![d][s] = @ \cup {"dismissed"}]
    /\ UNCHANGED <<alias, canon, override>>

DeleteLink(d, s) ==
    /\ Linked(d, s)
    /\ link' = [link EXCEPT ![d][s] = NoLink]
    /\ UNCHANGED <<alias, canon, override>>

----------------------------------------------------------------------------
MetaInit ==
    /\ alias = [n \in Aliases |-> NoAlias]
    /\ canon = [d \in Deps |-> None]
    /\ override = [t \in Teams |-> [c \in Canonicals |-> NoOverride]]
    /\ link = [d \in Deps |-> [s \in Targets |-> NoLink]]

MetaNext ==
    \/ \E t \in Teams, m \in Manifests, removal \in Removals, byUser \in BOOLEAN :
          SyncMetadata(t, m, removal, byUser)
    \/ \E d \in Deps : ReportDependency(d)
    \/ \E n \in Aliases, c \in Canonicals : CreateAlias(n, c) \/ UpdateAlias(n, c)
    \/ \E n \in Aliases : DeleteAlias(n)
    \/ \E t \in Teams, c \in Canonicals, v \in Values : UpsertOverride(t, c, v)
    \/ \E t \in Teams, c \in Canonicals : DeleteOverride(t, c)
    \/ \E d \in Deps, s \in Targets :
          \/ Suggest(d, s) \/ CreateLink(d, s) \/ ConfirmLink(d, s)
          \/ DismissLink(d, s) \/ DeleteLink(d, s)

MetaSpec == MetaInit /\ [][MetaNext]_metaVars

----------------------------------------------------------------------------
(* Properties. *)

MetaTypeOK ==
    /\ alias \in [Aliases -> [to : Canonicals \cup {None},
                              owner : Teams \cup {Manual, None}]]
    /\ canon \in [Deps -> Canonicals \cup {None}]
    /\ override \in [Teams -> [Canonicals ->
                        [value : Values \cup {None}, managed : BOOLEAN]]]
    /\ link \in [Deps -> [Targets -> {NoLink} \cup SUBSET Marks]]
    /\ \A n \in Aliases : alias[n].to = None <=> alias[n].owner = None

\* Whatever sync of a team comes next: it leaves alone the aliases of others,
\* the overrides that a user wrote and the manifest does not list, and the
\* associations that no manifest manages and this one does not name.
SyncKeepsForeign ==
    /\ \A t \in Teams, n \in Aliases : alias[n].owner \notin {t, None} =>
          \A m \in Manifests, r \in Removals : AliasAfter(t, m, r.aliases, n) = alias[n]
    /\ \A t \in Teams, c \in Canonicals :
          override[t][c] # NoOverride /\ ~override[t][c].managed =>
          \A m \in Manifests : m.overrides[c] = None =>
             \A r \in Removals, byUser \in BOOLEAN :
                OverrideAfter(t, m, r.overrides, byUser, c) = override[t][c]
    /\ \A d \in Deps, s \in Targets : Linked(d, s) /\ "managed" \notin link[d][s] =>
          \A m \in Manifests : (\A a \in m.associations : a.dep # d \/ a.target # s) =>
             \A t \in Teams, r \in Removals :
                LinkAfter(t, m, r.associations, d, s) = link[d][s]

\* Whatever sync comes next: the associations that its manifest lists by the
\* effective names of known dependencies exist afterwards and are managed,
\* although the same sync removes what is not listed.
ListedLinksStay == \A m \in Manifests : \A a \in m.associations :
    EntryName(a.dep, a.byRaw) = (IF canon[a.dep] = None THEN RawName[a.dep] ELSE canon[a.dep])
    => \A r \in Removals :
          "managed" \in LinkAfter(TeamOf[a.dep], m, r.associations, a.dep, a.target)

\* A sync takes from nobody but its own team, and what it lists it keeps
\* (ManifestSyncService.ts syncAliases, syncCanonicalOverrides, syncAssociations).
MetadataKept == SyncKeepsForeign /\ ListedLinksStay

\* An association that a user dismissed stays dismissed as long as its row
\* exists: neither the AutoAssociator nor the adoption by a manifest revives it.
DismissedNotRevived == [][\A d \in Deps, s \in Targets :
    "dismissed" \in link[d][s] => "dismissed" \in link'[d][s] \/ ~Linked(d, s)']_metaVars
=============================================================================

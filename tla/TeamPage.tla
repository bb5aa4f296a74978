------------------------------- MODULE TeamPage -------------------------------
(***************************************************************************)
(* A team and its members: the rows of teams and team_members, the routes  *)
(* that change them, the page of the team with its edit form, and the list *)
(* of teams with the form for a new one.  Only admins have the buttons.    *)
(*                                                                         *)
(* Every load of the page hides all of it until an answer comes, whichever *)
(* that is; loads overlap, are read early and come late.  As in the panels *)
(* of TeamAlerts, the server takes a request and the page learns of it in  *)
(* one step.                                                               *)
(***************************************************************************)
EXTENDS Integers, FiniteSets

CONSTANTS
    TeamNames,      \* names that are typed, and not blank
    TeamKeys,       \* keys that are typed, and pass the check of the form
    RefusedKeys,    \* of these, the ones with blanks around, which the server refuses
    KeyOfName,      \* deriveKey
    TeamTexts,      \* what is typed as description and contact, but ""
    OtherTeam,      \* the row of the other team, when there is one
    TeamPuts,       \* what other clients send for the team
    Users,
    MemberPuts,     \* the roles that other clients give, Nil for a removal
    MaxTeamLoads,   \* bound: loads in flight
    MaxTeamCalls,   \* bound: other requests in flight
    Nil             \* NULL

TeamRole == {"lead", "member"}

ASSUME TeamConstants ==
    /\ RefusedKeys \subseteq TeamKeys /\ "" \notin TeamTexts \cup TeamNames \cup Users
    /\ Nil \notin TeamTexts
    /\ TeamPuts \subseteq [name : TeamNames, key : TeamKeys, text : TeamTexts \cup {Nil}]
    /\ MemberPuts \subseteq TeamRole \cup {Nil}
    /\ KeyOfName \in [TeamNames -> TeamKeys]
    /\ MaxTeamLoads \in Nat \ {0} /\ MaxTeamCalls \in Nat \ {0}

\* Description and contact, two optional fields that are treated alike, are one.
TeamRow == [name : TeamNames, key : TeamKeys \ RefusedKeys, text : TeamTexts \cup {Nil}]
\* What is in a form, with the marks that the key was typed and a request is sent.
TeamFormState == [name : TeamNames \cup {""}, key : TeamKeys \cup {""},
                  text : TeamTexts \cup {""}, touched : BOOLEAN, busy : BOOLEAN]

ASSUME NilIsNoTeam == Nil \notin TeamRow \cup TeamFormState

VARIABLES
    teamRow,      \* the team of the page, or Nil
    otherRow,     \* another team, or Nil
    memberOf,     \* the role of each user in the team, or Nil
    teamPage,     \* TeamDetail with useTeamDetail
    memberPanel,  \* useTeamMembers
    teamsPage     \* TeamsList

teamRows == <<teamRow, otherRow, memberOf>>
teamVars == <<teamRows, teamPage, memberPanel, teamsPage>>

----------------------------------------------------------------------------
(* Routes and stores. *)

GetTeam == [row |-> teamRow, members |-> memberOf]

\* Names and keys are unique; "other" is the row they are compared with.
MayStore(sent, other) ==
    /\ sent.key \notin RefusedKeys
    /\ other # Nil => sent.name # other.name /\ sent.key # other.key

\* createTeam, and updateTeam with TeamStore.update: a field that was not sent
\* is NULL, and stays as it is.
TeamOf(sent) == [name |-> sent.name, key |-> sent.key, text |-> sent.text]
PutTeam(row, sent) == [TeamOf(sent) EXCEPT !.text = IF sent.text = Nil THEN row.text ELSE @]

----------------------------------------------------------------------------
(* TeamForm. *)

BlankTeam == [name |-> "", key |-> "", text |-> "", touched |-> FALSE, busy |-> FALSE]
FormOfTeam(row) ==
    [name |-> row.name, key |-> row.key, text |-> IF row.text = Nil THEN "" ELSE row.text,
     touched |-> TRUE, busy |-> FALSE]
\* handleNameChange: the key follows the name until it was typed.
WithName(f, n) == [f EXCEPT !.name = n, !.key = IF f.touched THEN @ ELSE KeyOfName[n]]
TypedInto(f) ==
    IF f.busy THEN {}
    ELSE {WithName(f, n) : n \in TeamNames}
         \cup {[f EXCEPT !.key = k, !.touched = TRUE] : k \in TeamKeys}
         \cup {[f EXCEPT !.text = x] : x \in TeamTexts \cup {""}}
\* validateForm; empty texts are not sent.
MaySubmit(f) == ~f.busy /\ f.name # "" /\ f.key # ""
SentByTeam(f) == [name |-> f.name, key |-> f.key, text |-> IF f.text = "" THEN Nil ELSE f.text]

----------------------------------------------------------------------------
(* The page of the team. *)

ToTeam(p) == teamPage' = p /\ UNCHANGED <<teamRows, memberPanel, teamsPage>>
Visible(p) == ~p.gone /\ ~p.loading /\ p.shown # Nil
\* A dialog keeps the rest of the page from being used.
PageFree == Visible(teamPage) /\ ~teamPage.editOpen /\ ~teamPage.deleteOpen
RoomForCall == Cardinality(teamPage.calls) + Cardinality(memberPanel.calls) < MaxTeamCalls

TeamLoads == 1..MaxTeamLoads
FreeLoads(p) == {i \in TeamLoads : p.loads[i].state = "none"}
RoomForLoad == FreeLoads(teamPage) # {}
TeamLoad(state) == [state |-> state, team |-> Nil]

\* The form that is on the page goes, and with it what was typed; a save that
\* it sent goes on.  "fresh": the last load had no other in flight, and nothing
\* has happened since that it could have missed.
Unmounted(p) ==
    [p EXCEPT !.form = Nil,
              !.calls = {IF c.kind = "save" THEN [c EXCEPT !.mounted = FALSE] ELSE c : c \in @}]
LoadTeam(p) ==
    [Unmounted(p) EXCEPT
        !.loads[CHOOSE i \in FreeLoads(p) : TRUE] = TeamLoad("asked"),
        !.loading = TRUE,
        !.fresh = FreeLoads(p) = TeamLoads]
Retry == ~teamPage.loading /\ teamPage.shown = Nil /\ RoomForLoad /\ ToTeam(LoadTeam(teamPage))

ReadTeam(i) ==
    /\ teamPage.loads[i].state = "asked"
    /\ \/ teamRow # Nil /\ ToTeam([teamPage EXCEPT !.loads[i] = [state |-> "read", team |-> GetTeam]])
       \/ ToTeam([teamPage EXCEPT !.loads[i] = TeamLoad("failed")])
\* A form whose dialog is still open is there again when the page is.
GotTeam(i) ==
    LET answer == teamPage.loads[i]
        p == [teamPage EXCEPT !.loads[i] = TeamLoad("none"), !.loading = FALSE,
                 !.shown = IF answer.state = "failed" THEN @ ELSE answer.team,
                 !.fresh = @ /\ answer.state # "failed"]
    IN  /\ answer.state \in {"read", "failed"}
        /\ ToTeam(IF p.editOpen /\ p.form = Nil THEN [p EXCEPT !.form = FormOfTeam(p.shown.row)]
                  ELSE p)

OpenEdit ==
    /\ PageFree
    /\ ToTeam([teamPage EXCEPT !.editOpen = TRUE, !.form = FormOfTeam(teamPage.shown.row)])
\* Cancel, and Escape also during a request.
CloseEdit ==
    Visible(teamPage) /\ teamPage.editOpen /\ ToTeam([Unmounted(teamPage) EXCEPT !.editOpen = FALSE])
FillTeamForm ==
    /\ Visible(teamPage) /\ teamPage.form # Nil
    /\ \E f \in TypedInto(teamPage.form) : ToTeam([teamPage EXCEPT !.form = f])
SubmitTeam ==
    /\ Visible(teamPage) /\ teamPage.form # Nil /\ MaySubmit(teamPage.form) /\ RoomForCall
    /\ ToTeam([teamPage EXCEPT !.form.busy = TRUE,
                  !.calls = @ \cup {[kind |-> "save", sent |-> SentByTeam(teamPage.form),
                                     mounted |-> TRUE]}])

\* handleEditSuccess closes the form that is open now; a failure is only told
\* to the form that sent the request.
SaveRefused(p, call) ==
    [p EXCEPT !.calls = @ \ {call}, !.form = IF call.mounted THEN [@ EXCEPT !.busy = FALSE] ELSE @]
SaveDone(p, call) == LoadTeam([p EXCEPT !.calls = @ \ {call}, !.editOpen = FALSE])
UpdateTeam(call) ==
    /\ call.kind = "save" /\ UNCHANGED <<otherRow, memberOf, memberPanel, teamsPage>>
    /\ IF teamRow # Nil /\ MayStore(call.sent, otherRow)
       THEN /\ RoomForLoad
            /\ teamRow' = PutTeam(teamRow, call.sent) /\ teamPage' = SaveDone(teamPage, call)
       ELSE UNCHANGED teamRow /\ teamPage' = SaveRefused(teamPage, call)

OpenDelete == PageFree /\ ToTeam([teamPage EXCEPT !.deleteOpen = TRUE])
CloseTeamDelete ==
    Visible(teamPage) /\ teamPage.deleteOpen /\ ToTeam([teamPage EXCEPT !.deleteOpen = FALSE])
Deleting == \E c \in teamPage.calls : c.kind = "delete"
ConfirmTeamDelete ==
    /\ Visible(teamPage) /\ teamPage.deleteOpen /\ ~Deleting /\ RoomForCall
    /\ ToTeam([teamPage EXCEPT !.calls = @ \cup {[kind |-> "delete"]}])
\* A team with services, which are not kept here, is not deleted.  Memberships go
\* with the team; the page is left.
DeleteRefused(p, call) == [p EXCEPT !.calls = @ \ {call}, !.deleteOpen = FALSE]
DeleteTeam(call) ==
    /\ call.kind = "delete" /\ UNCHANGED <<otherRow, memberPanel, teamsPage>>
    /\ \E hasServices \in BOOLEAN :
       IF teamRow # Nil /\ ~hasServices
       THEN /\ teamRow' = Nil /\ memberOf' = [u \in Users |-> Nil]
            /\ teamPage' = [DeleteRefused(teamPage, call) EXCEPT !.gone = TRUE]
       ELSE UNCHANGED <<teamRow, memberOf>> /\ teamPage' = DeleteRefused(teamPage, call)
TeamCallFails(call) ==
    ToTeam(IF call.kind = "save" THEN SaveRefused(teamPage, call)
           ELSE DeleteRefused(teamPage, call))

\* Other admins, and the other team.
TeamElsewhere ==
    /\ UNCHANGED <<memberPanel, teamsPage>>
    /\ teamPage' = [teamPage EXCEPT !.fresh = FALSE]
    /\ \/ /\ teamRow # Nil /\ UNCHANGED <<otherRow, memberOf>>
          /\ \E sent \in TeamPuts : MayStore(sent, otherRow) /\ teamRow' = PutTeam(teamRow, sent)
       \/ UNCHANGED otherRow /\ teamRow' = Nil /\ memberOf' = [u \in Users |-> Nil]
       \/ /\ UNCHANGED <<teamRow, memberOf>>
          /\ IF otherRow = Nil THEN MayStore(OtherTeam, teamRow) /\ otherRow' = OtherTeam
             ELSE otherRow' = Nil

TeamNext ==
    /\ ~teamPage.gone
    /\ \/ Retry \/ OpenEdit \/ CloseEdit \/ FillTeamForm \/ SubmitTeam
       \/ OpenDelete \/ CloseTeamDelete \/ ConfirmTeamDelete
       \/ \E i \in TeamLoads : ReadTeam(i) \/ GotTeam(i)
       \/ \E c \in teamPage.calls : UpdateTeam(c) \/ DeleteTeam(c) \/ TeamCallFails(c)
       \/ TeamElsewhere

----------------------------------------------------------------------------
(* The members of the team, on the same page. *)

ToPanel(p) == memberPanel' = p /\ UNCHANGED <<teamRows, teamPage, teamsPage>>
IsMember(u) == memberOf[u] # Nil
AvailableUsers == {u \in Users : teamPage.shown.members[u] = Nil}
Adding == \E c \in memberPanel.calls : c.kind = "add"
\* One id is kept of the users whose buttons are disabled.  As a bound, the same
\* request is not in flight twice.
StartMember(p, kind, u, role) ==
    LET call == [kind |-> kind, user |-> u, role |-> role]
    IN  RoomForCall /\ call \notin p.calls /\ ToPanel([p EXCEPT !.calls = @ \cup {call}])

ChooseMember ==
    /\ PageFree /\ ~Adding /\ AvailableUsers # {}
    /\ \E u \in AvailableUsers \cup {""} : ToPanel([memberPanel EXCEPT !.selectedUser = u])
\* The user that was chosen may since have become a member.  The role is chosen
\* beside the user, and only read here.
HandleAddMember ==
    /\ PageFree /\ ~Adding /\ AvailableUsers # {} /\ memberPanel.selectedUser # ""
    /\ \E role \in TeamRole : StartMember(memberPanel, "add", memberPanel.selectedUser, role)
Acts(u) == PageFree /\ teamPage.shown.members[u] # Nil /\ memberPanel.acting # u
HandleToggleRole(u) ==
    /\ Acts(u)
    /\ StartMember([memberPanel EXCEPT !.acting = u], "role", u,
                   IF teamPage.shown.members[u] = "lead" THEN "member" ELSE "lead")
HandleRemoveMember(u) ==
    Acts(u) /\ StartMember([memberPanel EXCEPT !.acting = u], "remove", u, Nil)

MemberRefused(p, call) ==
    [p EXCEPT !.calls = @ \ {call}, !.acting = IF call.kind = "add" THEN @ ELSE Nil]
MemberDone(p, call) ==
    IF call.kind = "add"
    THEN [MemberRefused(p, call) EXCEPT !.selectedUser = ""]
    ELSE MemberRefused(p, call)
\* addMember, updateMember, removeMember.
MayServe(call) == teamRow # Nil /\ IF call.kind = "add" THEN ~IsMember(call.user) ELSE IsMember(call.user)
ServeMember(call) ==
    /\ UNCHANGED <<teamRow, otherRow, teamsPage>>
    /\ IF MayServe(call)
       THEN /\ RoomForLoad
            /\ memberOf' = [memberOf EXCEPT ![call.user] = call.role]
            /\ memberPanel' = MemberDone(memberPanel, call) /\ teamPage' = LoadTeam(teamPage)
       ELSE memberPanel' = MemberRefused(memberPanel, call) /\ UNCHANGED <<memberOf, teamPage>>
MemberCallFails(call) == ToPanel(MemberRefused(memberPanel, call))

MemberElsewhere ==
    /\ teamRow # Nil /\ UNCHANGED <<teamRow, otherRow, memberPanel, teamsPage>>
    /\ \E u \in Users, r \in MemberPuts :
          r # memberOf[u] /\ memberOf' = [memberOf EXCEPT ![u] = r]
    /\ teamPage' = [teamPage EXCEPT !.fresh = FALSE]

MemberCalls ==
    ~teamPage.gone /\ \E c \in memberPanel.calls : ServeMember(c) \/ MemberCallFails(c)
MembersNext ==
    \/ \E u \in Users : HandleToggleRole(u) \/ HandleRemoveMember(u)
    \/ ChooseMember \/ HandleAddMember \/ MemberCalls \/ Retry
    \/ \E i \in TeamLoads : ReadTeam(i) \/ GotTeam(i)
    \/ MemberElsewhere

----------------------------------------------------------------------------
(* The list of the teams, of which the other team is looked at.  It has one  *)
(* load at a time, as it is hidden meanwhile.                                *)

ToList(p) == teamsPage' = p /\ UNCHANGED <<teamRows, teamPage, memberPanel>>
ListFree == teamsPage.load.state = "none"
LoadTeams(p) == [p EXCEPT !.load = TeamLoad("asked"), !.form = Nil]
RetryTeams == ListFree /\ teamsPage.failed /\ ToList(LoadTeams(teamsPage))
ReadTeams ==
    /\ teamsPage.load.state = "asked"
    /\ \/ ToList([teamsPage EXCEPT !.load = [state |-> "read", team |-> otherRow]])
       \/ ToList([teamsPage EXCEPT !.load = TeamLoad("failed")])
GotTeams ==
    LET answer == teamsPage.load
        failed == answer.state = "failed"
    IN  /\ answer.state \in {"read", "failed"}
        /\ ToList([teamsPage EXCEPT !.load = TeamLoad("none"), !.failed = failed,
                      !.shown = IF failed THEN @ ELSE answer.team])

\* The dialog can be closed during the request, and another one opened, which
\* the answer then closes.
OpenAdd == ListFree /\ ~teamsPage.failed /\ teamsPage.form = Nil
           /\ ToList([teamsPage EXCEPT !.form = BlankTeam])
CloseAdd == teamsPage.form # Nil
            /\ ToList([teamsPage EXCEPT !.form = Nil, !.mounted = FALSE])
FillNewTeam ==
    /\ teamsPage.form # Nil
    /\ \E f \in TypedInto(teamsPage.form) : ToList([teamsPage EXCEPT !.form = f])
\* As a bound, one team is created at a time.
SubmitNewTeam ==
    /\ teamsPage.form # Nil /\ MaySubmit(teamsPage.form) /\ teamsPage.sent = Nil
    /\ ToList([teamsPage EXCEPT !.form.busy = TRUE, !.sent = SentByTeam(teamsPage.form),
                                !.mounted = TRUE])
NewTeamRefused ==
    [teamsPage EXCEPT !.sent = Nil, !.mounted = FALSE,
                      !.form = IF teamsPage.mounted THEN [@ EXCEPT !.busy = FALSE] ELSE @]
CreateTeam ==
    /\ teamsPage.sent # Nil /\ UNCHANGED <<teamRow, memberOf, teamPage, memberPanel>>
    /\ IF MayStore(teamsPage.sent, teamRow) /\ MayStore(teamsPage.sent, otherRow)
       THEN /\ otherRow = Nil  \* bound: there is room for another row
            /\ otherRow' = TeamOf(teamsPage.sent)
            /\ teamsPage' = LoadTeams([teamsPage EXCEPT !.sent = Nil, !.mounted = FALSE])
       ELSE UNCHANGED otherRow /\ teamsPage' = NewTeamRefused
NewTeamFails == teamsPage.sent # Nil /\ ToList(NewTeamRefused)
OtherElsewhere ==
    /\ otherRow # Nil /\ otherRow' = Nil
    /\ UNCHANGED <<teamRow, memberOf, teamPage, memberPanel, teamsPage>>

TeamsNext ==
    \/ RetryTeams \/ ReadTeams \/ GotTeams
    \/ OpenAdd \/ CloseAdd \/ FillNewTeam \/ SubmitNewTeam
    \/ CreateTeam \/ NewTeamFails \/ OtherElsewhere

----------------------------------------------------------------------------
TeamsInit ==
    /\ teamRow \in TeamRow /\ otherRow = Nil
    /\ memberOf \in [Users -> TeamRole \cup {Nil}]
    /\ teamPage = [shown |-> Nil, loading |-> TRUE, fresh |-> TRUE, gone |-> FALSE,
                   loads |-> [i \in TeamLoads |-> TeamLoad(IF i = 1 THEN "asked" ELSE "none")],
                   editOpen |-> FALSE, form |-> Nil, deleteOpen |-> FALSE, calls |-> {}]
    /\ memberPanel = [selectedUser |-> "", acting |-> Nil, calls |-> {}]
    /\ teamsPage = [shown |-> Nil, load |-> TeamLoad("asked"), failed |-> FALSE,
                    form |-> Nil, sent |-> Nil, mounted |-> FALSE]

TeamsSpec == TeamsInit /\ [][TeamNext \/ MembersNext \/ TeamsNext]_teamVars

----------------------------------------------------------------------------
(* Every variable has its type, names and keys are unique, the page is hidden *)
(* or has its form exactly when its dialog is open, and a request that a form *)
(* waits for is in flight (TeamDetail.tsx, useTeamDetail.ts, TeamForm.tsx).   *)
TeamTypeOK ==
    /\ teamRow \in TeamRow \cup {Nil} /\ otherRow \in TeamRow \cup {OtherTeam, Nil}
    /\ teamRow # Nil => MayStore(teamRow, otherRow)
    /\ memberOf \in [Users -> TeamRole \cup {Nil}]
    /\ teamRow = Nil => \A u \in Users : ~IsMember(u)
    /\ Visible(teamPage) => (teamPage.editOpen <=> teamPage.form # Nil)
    /\ ~(teamPage.editOpen /\ teamPage.deleteOpen)
    /\ teamPage.form # Nil =>
          (teamPage.form.busy <=> \E c \in teamPage.calls : c.kind = "save" /\ c.mounted)
    /\ memberPanel.selectedUser \in Users \cup {""} /\ memberPanel.acting \in Users \cup {Nil}
    /\ teamsPage.form # Nil => (teamsPage.form.busy <=> teamsPage.mounted)

(* OwnChangesShown: once the loads have ended, the page shows the team and   *)
(* its members as they are, whatever was changed on it, unless other clients *)
(* changed them, the last load failed, or it overtook an earlier one         *)
(* (useTeamDetail.ts loadTeam, handleAddMember, handleToggleRole,            *)
(* handleRemoveMember; TeamDetail.tsx handleEditSuccess).                    *)
OwnChangesShown ==
    teamPage.fresh /\ ~teamPage.gone /\ FreeLoads(teamPage) = TeamLoads
    => teamPage.shown = GetTeam

\* The steps at which the server takes what a form that is still there has sent.
TeamTaken ==
    /\ \E c \in teamPage.calls :
          /\ c.kind = "save" /\ c.mounted
          /\ \A d \in teamPage'.calls : d.kind = "save" => d.sent # c.sent
    /\ ~teamPage'.editOpen /\ teamPage'.loading
TeamCreated == teamsPage.mounted /\ otherRow = Nil /\ otherRow' # Nil
Shows(f, row, old) ==
    /\ row.name = f.name /\ row.key = f.key
    /\ row.text = IF f.text # "" THEN f.text ELSE old

(* TeamSaved: the row has the name, the key and the texts that the form shows *)
(* when its request is taken, but a text that was emptied is kept             *)
(* (TeamForm.tsx handleSubmit, routes/teams/create.ts and update.ts).         *)
TeamSaved ==
    /\ TeamTaken => Shows(teamPage.form, teamRow', teamRow.text)
    /\ TeamCreated => Shows(teamsPage.form, otherRow', Nil)
=============================================================================

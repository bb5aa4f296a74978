------------------------------- MODULE Accounts -------------------------------
(***************************************************************************)
(* Users, sessions and teams: the OIDC and the local login (routes/auth,   *)
(* auth/localAuth), the middleware that admits a request (auth/middleware, *)
(* auth/authorizationService), and the routes that change users, teams and *)
(* their members (routes/users, routes/teams).                             *)
(*                                                                         *)
(* Only the OIDC callback awaits something (the provider, twice) before it *)
(* writes; every other handler is one step, from the middleware to the     *)
(* last write.                                                             *)
(***************************************************************************)
EXTENDS Integers, FiniteSets

CONSTANTS
    Users,      \* people; a user row is created at most once for each
    Sessions,   \* sessions of browsers
    TeamIds,    \* ids of teams; never used twice
    FirstLocal, \* ADMIN_EMAIL: the admin bootstrapped in the local mode
    Nobody      \* a session without userId

ASSUME AccountConstants ==
    /\ FirstLocal \in Users
    /\ Nobody \notin Users
    /\ TeamIds # {}

VARIABLES
    mode,      \* getAuthMode: "local" or "oidc"
    user,      \* users: status and role of each person
    member,    \* team_members: the role of each person in each team
    team,      \* teams: status, and whether services belong to it
    session,   \* the userId of each session
    login,     \* OIDC in each session: state issued, callback under way, for whom
    promoted   \* history: who was made an admin by an admin

accountVars == <<mode, user, member, team, session, login, promoted>>

NoLogin == [phase |-> "none", sub |-> Nobody, empty |-> FALSE]
Existing == {u \in Users : user[u].status # "none"}
Active(u) == user[u].status = "active"
ActiveAdmins == {u \in Users : Active(u) /\ user[u].role = "admin"}

----------------------------------------------------------------------------
(* requireAuth and the checks of AuthorizationService, for the user of a   *)
(* session at the time of the request.                                     *)

Authenticated(s) == session[s] # Nobody /\ Active(session[s])
Admin(s) == Authenticated(s) /\ user[session[s]].role = "admin"
TeamLead(s, t) ==
    Admin(s) \/ (Authenticated(s) /\ member[t][session[s]] = "lead")

\* Any request in the session of a user who is not active destroys it.
Refuse401(s) ==
    /\ session[s] # Nobody /\ ~Active(session[s])
    /\ session' = [session EXCEPT ![s] = Nobody]
    /\ login' = [login EXCEPT ![s] = NoLogin]
    /\ UNCHANGED <<mode, user, member, team, promoted>>

----------------------------------------------------------------------------
(* Logging in and out. *)

\* routes/auth/login; another attempt only replaces the state.
StartLogin(s) ==
    /\ mode = "oidc" /\ login[s].phase = "none"
    /\ login' = [login EXCEPT ![s] = [NoLogin EXCEPT !.phase = "issued"]]
    /\ UNCHANGED <<mode, user, member, team, session, promoted>>

\* The callback up to its awaits: the provider will say who it is.
StartCallback(s, u) ==
    /\ mode = "oidc" /\ login[s].phase = "issued"
    /\ login' = [login EXCEPT ![s] =
                    [phase |-> "awaiting", sub |-> u, empty |-> Existing = {}]]
    /\ UNCHANGED <<mode, user, member, team, session, promoted>>

\* Mutant: the users are counted before the awaits.
FirstUserStale(s) == login[s].empty
\* The users are counted after the awaits.
FirstUser(s) == Existing = {}

\* A new user is created; a user who is not active logs in as well.
EndCallback(s) ==
    LET u == login[s].sub
    IN  /\ login[s].phase = "awaiting"
        /\ user' = IF u \in Existing THEN user
                   ELSE [user EXCEPT ![u] =
                           [status |-> "active",
                            role |-> IF FirstUser(s) THEN "admin" ELSE "user"]]
        /\ session' = [session EXCEPT ![s] = u]
        /\ login' = [login EXCEPT ![s] = NoLogin]
        /\ UNCHANGED <<mode, member, team, promoted>>

\* The provider refuses, cannot be reached, or the e-mail is another user's:
\* the state stays in the session.
FailCallback(s) ==
    /\ login[s].phase = "awaiting"
    /\ login' = [login EXCEPT ![s] = [NoLogin EXCEPT !.phase = "issued"]]
    /\ UNCHANGED <<mode, user, member, team, session, promoted>>

\* localLogin with the right password.
LocalLogin(s, u) ==
    /\ mode = "local" /\ Active(u)
    /\ session' = [session EXCEPT ![s] = u]
    /\ UNCHANGED <<mode, user, member, team, login, promoted>>

Logout(s) ==
    /\ session[s] # Nobody
    /\ session' = [session EXCEPT ![s] = Nobody]
    /\ login' = [login EXCEPT ![s] = NoLogin]
    /\ UNCHANGED <<mode, user, member, team, promoted>>

----------------------------------------------------------------------------
(* Users, by an admin. *)

CreateUser(s, u, role) ==
    /\ Admin(s) /\ mode = "local" /\ u \notin Existing
    /\ user' = [user EXCEPT ![u] = [status |-> "active", role |-> role]]
    /\ promoted' = IF role = "admin" THEN promoted \cup {u} ELSE promoted
    /\ UNCHANGED <<mode, member, team, session, login>>

\* Mutant: admins who were deactivated count as well.
CountActiveAdminsAll(x) == Cardinality({u \in Users : user[u].role = "admin"})
\* countActiveAdmins, when x is to be deactivated or demoted.
CountActiveAdmins(x) == Cardinality(ActiveAdmins)

\* Sessions of the user stay, and are refused when they are used.
Deactivate(s, u) ==
    /\ Admin(s) /\ u \in Existing
    /\ user[u].role = "admin" /\ Active(u) => CountActiveAdmins(u) > 1
    /\ user' = [user EXCEPT ![u].status = "inactive"]
    /\ member' = [t \in TeamIds |-> [member[t] EXCEPT ![u] = "none"]]
    /\ UNCHANGED <<mode, team, session, login, promoted>>

Reactivate(s, u) ==
    /\ Admin(s) /\ user[u].status = "inactive"
    /\ user' = [user EXCEPT ![u].status = "active"]
    /\ UNCHANGED <<mode, member, team, session, login, promoted>>

UpdateRole(s, u, role) ==
    /\ Admin(s) /\ u \in Existing
    /\ user[u].role = "admin" /\ role = "user" => CountActiveAdmins(u) > 1
    /\ user' = [user EXCEPT ![u].role = role]
    /\ promoted' = IF role = "admin" THEN promoted \cup {u} ELSE promoted
    /\ UNCHANGED <<mode, member, team, session, login>>

----------------------------------------------------------------------------
(* Teams, by an admin; services of a team, by a lead. *)

CreateTeam(s, t) ==
    /\ Admin(s) /\ team[t].status = "none"
    /\ team' = [team EXCEPT ![t].status = "exists"]
    /\ UNCHANGED <<mode, user, member, session, login, promoted>>

\* Refused with services; the members go with the team (ON DELETE CASCADE).
DeleteTeam(s, t) ==
    /\ Admin(s) /\ team[t].status = "exists" /\ ~team[t].services
    /\ team' = [team EXCEPT ![t].status = "deleted"]
    /\ member' = [member EXCEPT ![t] = [u \in Users |-> "none"]]
    /\ UNCHANGED <<mode, user, session, login, promoted>>

MayUpdate(t, u) == team[t].status = "exists" /\ member[t][u] # "none"

\* addMember takes a user who is not active as well.
AddMember(s, t, u, role) ==
    /\ Admin(s) /\ team[t].status = "exists"
    /\ u \in Existing /\ member[t][u] = "none"
    /\ member' = [member EXCEPT ![t][u] = role]
    /\ UNCHANGED <<mode, user, team, session, login, promoted>>

UpdateMember(s, t, u, role) ==
    /\ Admin(s) /\ MayUpdate(t, u)
    /\ member' = [member EXCEPT ![t][u] = role]
    /\ UNCHANGED <<mode, user, team, session, login, promoted>>

RemoveMember(s, t, u) ==
    /\ Admin(s) /\ MayUpdate(t, u)
    /\ member' = [member EXCEPT ![t][u] = "none"]
    /\ UNCHANGED <<mode, user, team, session, login, promoted>>

\* The first service of a team is created, or the last one deleted.
ChangeServices(s, t) ==
    /\ TeamLead(s, t) /\ team[t].status = "exists"
    /\ team' = [team EXCEPT ![t].services = ~@]
    /\ UNCHANGED <<mode, user, member, session, login, promoted>>

----------------------------------------------------------------------------
NoUser == [status |-> "none", role |-> "user"]

\* bootstrapLocalAdmin creates the first admin before the server listens.
AccountInit ==
    /\ mode \in {"local", "oidc"}
    /\ user = [u \in Users |-> IF mode = "local" /\ u = FirstLocal
                               THEN [status |-> "active", role |-> "admin"] ELSE NoUser]
    /\ member = [t \in TeamIds |-> [u \in Users |-> "none"]]
    /\ team = [t \in TeamIds |-> [status |-> "none", services |-> FALSE]]
    /\ session = [s \in Sessions |-> Nobody]
    /\ login = [s \in Sessions |-> NoLogin]
    /\ promoted = {}

Roles == {"admin", "user"}
MemberRoles == {"lead", "member"}
AccountNext == \E s \in Sessions :
    \/ StartLogin(s) \/ EndCallback(s) \/ FailCallback(s) \/ Logout(s) \/ Refuse401(s)
    \/ \E u \in Users :
          \/ StartCallback(s, u) \/ LocalLogin(s, u)
          \/ Deactivate(s, u) \/ Reactivate(s, u)
          \/ \E role \in Roles : CreateUser(s, u, role) \/ UpdateRole(s, u, role)
    \/ \E t \in TeamIds :
          \/ CreateTeam(s, t) \/ DeleteTeam(s, t) \/ ChangeServices(s, t)
          \/ \E u \in Users :
                \/ RemoveMember(s, t, u)
                \/ \E role \in MemberRoles : AddMember(s, t, u, role) \/ UpdateMember(s, t, u, role)

AccountSpec == AccountInit /\ [][AccountNext]_accountVars

----------------------------------------------------------------------------
(* Properties. *)

AccountTypeOK ==
    /\ mode \in {"local", "oidc"}
    /\ user \in [Users -> [status : {"none", "active", "inactive"}, role : Roles]]
    /\ member \in [TeamIds -> [Users -> MemberRoles \cup {"none"}]]
    /\ team \in [TeamIds -> [status : {"none", "exists", "deleted"}, services : BOOLEAN]]
    /\ session \in [Sessions -> Users \cup {Nobody}]
    /\ login \in [Sessions -> [phase : {"none", "issued", "awaiting"},
                               sub : Users \cup {Nobody}, empty : BOOLEAN]]
    /\ promoted \subseteq Users

\* Once there is a user, some active user is an admin, whatever admins do to
\* each other and to themselves (the checks of deactivateUser and
\* updateUserRole count active admins in the same step).
AdminRemains == Existing # {} => ActiveAdmins # {}

\* At most one user is an admin whom no admin made one, however many first
\* logins are under way at once in an empty database.
OneBootstrapAdmin ==
    Cardinality({u \in Users : user[u].role = "admin"} \ promoted) <= 1
=============================================================================

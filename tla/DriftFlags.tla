------------------------------ MODULE DriftFlags ------------------------------
(***************************************************************************)
(* The life of drift flags, as the team that reviews them sees it.  There  *)
(* is a slot for each field of each service and one for the removal of     *)
(* each service; a slot holds at most one flag that is still open.         *)
(*                                                                         *)
(* A sync raises flags, renews them and resolves them; a user dismisses,   *)
(* reopens or accepts them.  What a dismissed flag promises is that the    *)
(* value somebody has looked at does not come up again by itself.          *)
(***************************************************************************)
CONSTANTS
    Slots,   \* what can drift
    Values,  \* the manifest's values a flag may carry
    NoFlag   \* "no open flag"

VARIABLE flag  \* the open flag of each slot

Flag == [status : {"pending", "dismissed"}, value : Values]
FlagTypeOK == flag \in [Slots -> Flag \cup {NoFlag}]

----------------------------------------------------------------------------
(* What may happen to one slot, from x to y. *)

Raised(x, y) == x = NoFlag /\ y \in Flag /\ y.status = "pending"
Renewed(x, y) ==
    /\ x \in Flag /\ y \in Flag
    /\ y.status = "pending"
    /\ x.status = "dismissed" => y.value # x.value
Settled(x, y) == x \in Flag /\ y = NoFlag
Dismissed(x, y) == x \in Flag /\ y = [x EXCEPT !.status = "dismissed"]
Reopened(x, y) ==
    x \in Flag /\ x.status = "dismissed" /\ y = [x EXCEPT !.status = "pending"]

----------------------------------------------------------------------------
(* One sync, or one request of a user, may touch several slots. *)

SyncStep == \A s \in Slots :
    \/ flag'[s] = flag[s]
    \/ Raised(flag[s], flag'[s])
    \/ Renewed(flag[s], flag'[s])
    \/ Settled(flag[s], flag'[s])

DismissStep == \A s \in Slots :
    flag'[s] = flag[s] \/ Dismissed(flag[s], flag'[s])

ReopenStep == \E s \in Slots :
    Reopened(flag[s], flag'[s]) /\ \A t \in Slots \ {s} : flag'[t] = flag[t]

SettleStep == \A s \in Slots :
    flag'[s] = flag[s] \/ Settled(flag[s], flag'[s])

FlagInit == flag = [s \in Slots |-> NoFlag]
FlagNext ==
    /\ flag' \in [Slots -> Flag \cup {NoFlag}]
    /\ SyncStep \/ DismissStep \/ ReopenStep \/ SettleStep
FlagSpec == FlagInit /\ [][FlagNext]_flag
=============================================================================

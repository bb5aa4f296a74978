------------------------------ MODULE DriftReview ------------------------------
(***************************************************************************)
(* The page on which a team reviews its drift flags: the state of          *)
(* useDriftFlags and DriftReview in one browser, against the routes of     *)
(* routes/drifts and the syncs and other users that change flags meanwhile.*)
(*                                                                         *)
(* A request reads or writes the database when the server handles it and   *)
(* is continued when its answer arrives.  Answers of list requests arrive  *)
(* in any order.  The dialog is modal, but Escape closes it at any time.   *)
(***************************************************************************)
EXTENDS Integers, Sequences, SequencesExt, FiniteSets

CONSTANTS
    FlagIds,     \* flags of the team
    FlagTypeOf,  \* drift_type: "field_change" or "service_removal"
    Filters,     \* what the list is filtered by: a type or all
    MaxBulk,     \* the flags a bulk request may name
    MaxFlying,   \* bound: requests in flight
    MaxElsewhere \* bound: changes by syncs and other users

Open == {"pending", "dismissed"}
\* "closed" is accepted or resolved, "absent" not raised yet.
FlagStatus == Open \cup {"closed", "absent"}
Types == {"field_change", "service_removal"}
AllTypes == "all"
Idle == "idle"

ASSUME ReviewConstants ==
    /\ FlagTypeOf \in [FlagIds -> Types]
    /\ AllTypes \in Filters /\ Filters \subseteq Types \cup {AllTypes}
    /\ MaxBulk \in Nat \ {0} /\ MaxFlying \in Nat \ {0} /\ MaxElsewhere \in Nat

VARIABLES
    flagStatus,  \* drift_flags.status
    elsewhere,   \* number of changes by syncs and other users
    page,        \* the hook's state: list, view, filter, isLoading, error
    ticked,      \* selectedIds
    dialog,      \* bulkConfirmType
    listing,     \* list requests in flight
    single,      \* the accept, dismiss or reopen of one flag in flight
    bulk,        \* the bulk request in flight, until its reload has ended
    seen         \* history: flags shown since the view was chosen

reviewVars ==
    <<flagStatus, elsewhere, page, ticked, dialog, listing, single, bulk, seen>>

Page == [list : SUBSET FlagIds, view : Open, filter : Filters,
         loading : BOOLEAN, failed : BOOLEAN]
\* "answer" is {} until the server has read the flags.
Listing == [view : Open, read : BOOLEAN, answer : SUBSET FlagIds, bulk : BOOLEAN]
NoBulk == [kind |-> Idle, flags |-> {}, view |-> "pending"]
NoSingle == [kind |-> Idle, flags |-> {}, view |-> "pending"]

Filtered(p) == {f \in p.list : p.filter = AllTypes \/ FlagTypeOf[f] = p.filter}
\* The cards are rendered unless the page loads or shows an error.
Shown(p) == IF p.loading \/ p.failed THEN {} ELSE Filtered(p)
Ready(p) == ~p.loading /\ ~p.failed /\ dialog = Idle

Request(view, ofBulk) == [view |-> view, read |-> FALSE, answer |-> {}, bulk |-> ofBulk]
Loading(p) == [p EXCEPT !.loading = TRUE, !.failed = FALSE]
Look(p) == page' = p /\ seen' = seen \cup Shown(p)

\* What a request does to the flags that are still open; others are refused.
Acted(kind, flags) == [f \in FlagIds |->
    IF f \in flags /\ flagStatus[f] \in Open
    THEN CASE kind = "accept" -> "closed" [] kind = "dismiss" -> "dismissed"
           [] kind = "reopen" -> "pending"
    ELSE flagStatus[f]]

----------------------------------------------------------------------------
(* Choices of the user. *)

\* A request that is done is followed by a reload, which takes its place.
Pending(request) == IF request.flags # {} THEN 1 ELSE 0
MaySend == Len(listing) + Pending(single) + Pending(bulk) < MaxFlying

\* setView clears the selection; loadFlags changes with the view and runs.
SetView(v) ==
    /\ dialog = Idle /\ page.view # v /\ MaySend
    /\ LET p == Loading([page EXCEPT !.view = v])
       IN  page' = p /\ seen' = Shown(p)
    /\ ticked' = {}
    /\ listing' = Append(listing, Request(v, FALSE))
    /\ UNCHANGED <<flagStatus, elsewhere, dialog, single, bulk>>

\* The toolbar with the filter is there while a flag is shown.
SetFilter(t) ==
    /\ Ready(page) /\ Shown(page) # {} /\ page.filter # t
    /\ Look([page EXCEPT !.filter = t])
    /\ UNCHANGED <<flagStatus, elsewhere, ticked, dialog, listing, single, bulk>>

\* handleSelectAll compares the numbers of flags, not the flags.
Selection(p) == Filtered(p)

Toggle(f) ==
    /\ Ready(page) /\ f \in Shown(page)
    /\ ticked' = (IF f \in ticked THEN ticked \ {f} ELSE ticked \cup {f})
    /\ UNCHANGED <<flagStatus, elsewhere, page, dialog, listing, single, bulk, seen>>

SelectAll ==
    /\ Ready(page) /\ Shown(page) # {}
    /\ ticked' = (IF Cardinality(ticked) = Cardinality(Filtered(page))
                  THEN {} ELSE Selection(page))
    /\ UNCHANGED <<flagStatus, elsewhere, page, dialog, listing, single, bulk, seen>>

\* One card: the reload that follows is the one of the view at the click.
Click(f, kind) ==
    /\ Ready(page) /\ f \in Shown(page) /\ single = NoSingle /\ MaySend
    /\ kind \in (IF page.view = "pending" THEN {"accept", "dismiss"} ELSE {"accept", "reopen"})
    /\ single' = [kind |-> kind, flags |-> {f}, view |-> page.view]
    /\ UNCHANGED <<flagStatus, elsewhere, page, ticked, dialog, listing, bulk, seen>>

\* Dismissed flags have no bulk dismiss.
OpenDialog(kind) ==
    /\ Ready(page) /\ Shown(page) # {} /\ ticked # {}
    /\ kind \in (IF page.view = "pending" THEN {"accept", "dismiss"} ELSE {"accept"})
    /\ dialog' = kind
    /\ UNCHANGED <<flagStatus, elsewhere, page, ticked, listing, single, bulk, seen>>

CloseDialog ==
    /\ dialog # Idle
    /\ dialog' = Idle
    /\ UNCHANGED <<flagStatus, elsewhere, page, ticked, listing, single, bulk, seen>>

\* handleBulkConfirm; the button is disabled while another one is in flight.
Confirm ==
    /\ dialog # Idle /\ bulk = NoBulk /\ ticked # {} /\ MaySend
    /\ bulk' = [kind |-> dialog, flags |-> ticked, view |-> page.view]
    /\ Look([page EXCEPT !.failed = FALSE])
    /\ UNCHANGED <<flagStatus, elsewhere, ticked, dialog, listing, single>>

ClearError ==
    /\ page.failed /\ dialog = Idle
    /\ Look([page EXCEPT !.failed = FALSE])
    /\ UNCHANGED <<flagStatus, elsewhere, ticked, dialog, listing, single, bulk>>

----------------------------------------------------------------------------
(* The server and its answers. *)

\* accept, dismiss and reopen of one flag: a refusal is shown, and no reload.
SingleDone ==
    /\ single # NoSingle
    /\ LET f == CHOOSE x \in single.flags : TRUE
           allowed == IF single.kind = "reopen" THEN {"dismissed"} ELSE Open
       IN  IF flagStatus[f] \in allowed
           THEN /\ flagStatus' = Acted(single.kind, {f})
                /\ listing' = Append(listing, Request(single.view, FALSE))
                /\ Look(Loading(page))
           ELSE /\ Look([page EXCEPT !.failed = TRUE])
                /\ UNCHANGED <<flagStatus, listing>>
    /\ single' = NoSingle
    /\ UNCHANGED <<elsewhere, ticked, dialog, bulk>>

\* More flags than allowed are refused as a whole; flags that are settled are
\* counted as failed, in an answer that is not an error.
BulkDone ==
    /\ bulk # NoBulk /\ bulk.flags # {}
    /\ IF Cardinality(bulk.flags) <= MaxBulk
       THEN /\ flagStatus' = Acted(bulk.kind, bulk.flags)
            /\ ticked' = {}
            /\ listing' = Append(listing, Request(bulk.view, TRUE))
            /\ bulk' = [bulk EXCEPT !.flags = {}]
            /\ Look(Loading(page))
            /\ UNCHANGED dialog
       ELSE /\ bulk' = NoBulk /\ dialog' = Idle
            /\ Look([page EXCEPT !.failed = TRUE])
            /\ UNCHANGED <<flagStatus, ticked, listing>>
    /\ UNCHANGED <<elsewhere, single>>

\* listDriftFlags.
ListRead(i) ==
    /\ ~listing[i].read
    /\ listing' = [listing EXCEPT ![i].read = TRUE,
                       ![i].answer = {f \in FlagIds : flagStatus[f] = listing[i].view}]
    /\ UNCHANGED <<flagStatus, elsewhere, page, ticked, dialog, single, bulk, seen>>

\* The last reload of a bulk request closes the dialog, whichever is open.
ListDone(i) ==
    /\ \/ /\ listing[i].read
          /\ Look([page EXCEPT !.list = listing[i].answer, !.loading = FALSE])
       \/ Look([page EXCEPT !.failed = TRUE, !.loading = FALSE])
    /\ bulk' = (IF listing[i].bulk THEN NoBulk ELSE bulk)
    /\ dialog' = (IF listing[i].bulk THEN Idle ELSE dialog)
    /\ listing' = RemoveAt(listing, i)
    /\ UNCHANGED <<flagStatus, elsewhere, ticked, single>>

\* A sync raises or resolves a flag, another user accepts one.
Elsewhere(f, status) ==
    /\ elsewhere < MaxElsewhere /\ elsewhere' = elsewhere + 1
    /\ \/ flagStatus[f] = "absent" /\ status = "pending"
       \/ flagStatus[f] \in Open /\ status = "closed"
    /\ flagStatus' = [flagStatus EXCEPT ![f] = status]
    /\ UNCHANGED <<page, ticked, dialog, listing, single, bulk, seen>>

----------------------------------------------------------------------------
ReviewInit ==
    /\ flagStatus \in [FlagIds -> {"pending", "absent"}] /\ elsewhere = 0
    /\ page = [list |-> {}, view |-> "pending", filter |-> AllTypes,
               loading |-> TRUE, failed |-> FALSE]
    /\ ticked = {} /\ dialog = Idle /\ single = NoSingle /\ bulk = NoBulk /\ seen = {}
    /\ listing = <<Request("pending", FALSE)>>

ReviewNext ==
    \/ \E v \in Open : SetView(v)
    \/ \E t \in Filters : SetFilter(t)
    \/ \E f \in FlagIds : Toggle(f)
    \/ SelectAll
    \/ \E f \in FlagIds, kind \in {"accept", "dismiss", "reopen"} : Click(f, kind)
    \/ \E kind \in {"accept", "dismiss"} : OpenDialog(kind)
    \/ CloseDialog \/ Confirm \/ ClearError \/ SingleDone \/ BulkDone
    \/ \E i \in DOMAIN listing : ListRead(i) \/ ListDone(i)
    \/ \E f \in FlagIds, status \in FlagStatus : Elsewhere(f, status)

ReviewSpec == ReviewInit /\ [][ReviewNext]_reviewVars

ReviewTypeOK ==
    /\ flagStatus \in [FlagIds -> FlagStatus] /\ elsewhere \in 0..MaxElsewhere
    /\ page \in Page /\ ticked \subseteq FlagIds /\ seen \subseteq FlagIds
    /\ dialog \in {Idle, "accept", "dismiss"}
    /\ Len(listing) <= MaxFlying /\ Range(listing) \subseteq Listing
    /\ \A request \in {single, bulk} :
          /\ request.kind \in {Idle, "accept", "dismiss", "reopen"}
          /\ request.flags \subseteq FlagIds /\ request.view \in Open

(* What a bulk request would accept or dismiss, the user has had on the screen *)
(* since choosing the view: neither the filter, a reload, a late answer nor    *)
(* the number shown in the dialog lets a flag nobody looked at into the        *)
(* selection (hooks/useDriftFlags.ts selectAll, setView).                      *)
SelectedWereShown == ticked \subseteq seen
=============================================================================

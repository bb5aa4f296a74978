------------------------------ MODULE Ingestion ------------------------------
(***************************************************************************)
(* Health reports of one service: DependencyUpsertService.upsert, the      *)
(* error and the poll histories with their deduplication, and the events   *)
(* for which the listeners of index.ts and of AlertService wait.  Reports  *)
(* come from polls, manual polls and OTLP pushes.                          *)
(*                                                                         *)
(* A poll of the loop stores its report when its response is there, but    *)
(* its events are emitted when the whole batch of polls has settled; a     *)
(* push and a manual poll emit at once.  Nothing here is a transaction.    *)
(***************************************************************************)
EXTENDS Integers, FiniteSets, Sequences, Functions

CONSTANTS
    Reported,     \* dependencies 1..n, in the order a response lists them
    Responses,    \* what the responses may say of the dependencies they list
    Errors,       \* error objects; one of them is the synthetic marker
    PollErrors,   \* messages of failed polls
    Unreported    \* no row, or NULL

ASSUME IngestionConstants ==
    /\ Reported # {} /\ IsFiniteSet(Reported) /\ Reported = 1..Cardinality(Reported)
    /\ \A report \in Responses :
          DOMAIN report \subseteq Reported /\ \A d \in DOMAIN report : report[d] \in Errors \cup {"up"}
    /\ "up" \notin Errors \cup PollErrors
    /\ Unreported \notin Errors \cup PollErrors \cup {"up", "down"}

VARIABLES
    health,    \* dependencies.healthy and error
    entry,     \* the last row of dependency_error_history, "up" for a recovery
    batch,     \* the result of the loop's poll while its batch is under way
    pollState, \* services.last_poll_success and last_poll_error
    pollEntry, \* the last row of service_poll_history, "up" for a recovery
    told,      \* status_change_events: what the listeners last heard
    excused,   \* history: dependencies with a lost or overtaken change
    gaps       \* history: whose last rows were not written, or were pruned

ingestVars == <<health, entry, batch, pollState, pollEntry, told, excused, gaps>>

Health == Errors \cup {"up"}
IsUp(h) == h = "up"
Heard(h) == IF h \in Errors THEN "down" ELSE h

\* The history of the polls, beside those of the dependencies.
Polls == 0

NoBatch == [phase |-> "none"]
Fetching == [phase |-> "fetching"]
Settled(result, changes) == [phase |-> "settled", result |-> result, changes |-> changes]

----------------------------------------------------------------------------
(* The recorders. *)

\* Mutant: an error after an error is never recorded.
RecordedFirst(last, now) ==
    IF IsUp(now) = (last \in {"up", Unreported}) THEN last ELSE now
\* ErrorHistoryRecorder and ServicePollHistoryRecorder: a recovery after an
\* error, an error after anything but itself.
Recorded(last, now) == IF IsUp(now) /\ last = Unreported THEN last ELSE now

----------------------------------------------------------------------------
(* upsert, dependency after dependency.  It may fail at one of them, before *)
(* or after its row is stored; then what was stored stays and the changes  *)
(* of all are forgotten.                                                   *)

NoFailure == [at |-> 0, stored |-> FALSE]
Failures(report) == {NoFailure} \cup [at : DOMAIN report, stored : BOOLEAN]
Stored(report, f) == {d \in DOMAIN report :
    f = NoFailure \/ d < f.at \/ (d = f.at /\ f.stored)}
Entered(report, f) == {d \in DOMAIN report : f = NoFailure \/ d < f.at}

\* healthChanged: never for a new row.
HealthChanged(report, d) ==
    health[d] # Unreported /\ IsUp(health[d]) # IsUp(report[d])

Changes(report, f) == {d \in Stored(report, f) : HealthChanged(report, d)}

StoreReport(report, f, polls) ==
    /\ health' = [d \in Reported |-> IF d \in Stored(report, f) THEN report[d] ELSE health[d]]
    /\ entry' = [d \in Reported |->
          IF d \in Entered(report, f) THEN Recorded(entry[d], report[d]) ELSE entry[d]]
    /\ gaps' = (gaps \ (Entered(report, f) \cup {Polls}))
                \cup (Stored(report, f) \ Entered(report, f)) \cup polls

\* The first report of a dependency tells the listeners nothing: what they
\* may assume of it is that report.
Baseline(report, f) == [d \in Reported |->
    IF d \in Stored(report, f) /\ health[d] = Unreported THEN Heard(report[d]) ELSE told[d]]

----------------------------------------------------------------------------
(* Polls of the loop. *)

StartPoll ==
    /\ batch = NoBatch
    /\ batch' = Fetching
    /\ UNCHANGED <<health, entry, pollState, pollEntry, told, excused, gaps>>

\* ServicePoller.poll: a failure in upsert is a failed poll without changes.
PollReports(report, f, err) ==
    /\ batch = Fetching
    /\ f \in Failures(report)
    /\ StoreReport(report, f, gaps \cap {Polls})
    /\ told' = Baseline(report, f)
    /\ batch' = IF f = NoFailure
                THEN Settled("up", Restrict(report, Changes(report, f)))
                ELSE Settled(err, << >>)
    /\ excused' = IF f = NoFailure THEN excused ELSE excused \cup Changes(report, f)
    /\ UNCHANGED <<pollState, pollEntry>>

PollFails(err) ==
    /\ batch = Fetching
    /\ batch' = Settled(err, << >>)
    /\ UNCHANGED <<health, entry, pollState, pollEntry, told, excused, gaps>>

\* The batch is processed up to the first listener that throws, a change d of
\* the report: that change and those after it are never heard of.
\* -1: the service was stopped meanwhile, or the result could not be stored;
\* 0: it was stored, but not recorded in the history.
Reaches == -1 .. Cardinality(Reported) + 1
ProcessBatch(upTo) ==
    LET emitted == {d \in DOMAIN batch.changes : d < upTo}
    IN  /\ batch.phase = "settled"
        /\ told' = [d \in Reported |-> IF d \in emitted THEN Heard(batch.changes[d]) ELSE told[d]]
        /\ excused' = (excused \cup DOMAIN batch.changes)
                      \ {d \in emitted : Heard(batch.changes[d]) = Heard(health[d])}
        /\ pollState' = IF upTo = -1 THEN pollState ELSE batch.result
        /\ pollEntry' = IF upTo <= 0 THEN pollEntry ELSE Recorded(pollEntry, batch.result)
        /\ gaps' = CASE upTo = -1 -> gaps
                     [] upTo = 0 -> gaps \cup {Polls}
                     [] OTHER -> gaps \ {Polls}
        /\ batch' = NoBatch
        /\ UNCHANGED <<health, entry>>

----------------------------------------------------------------------------
(* Reports whose events are emitted in the same step. *)

Announce(report, f, polls) ==
    /\ StoreReport(report, f, polls)
    /\ IF f = NoFailure
       THEN /\ told' = [d \in Reported |-> IF d \in Changes(report, f)
                           THEN Heard(report[d]) ELSE Baseline(report, f)[d]]
            /\ excused' = excused \ Changes(report, f)
       ELSE /\ told' = Baseline(report, f)
            /\ excused' = excused \cup Changes(report, f)

\* A push reaches a service whether or not it is polled; it counts as a
\* successful poll without being recorded as one.
Push(report, f) ==
    /\ f \in Failures(report)
    /\ Announce(report, f, IF f = NoFailure THEN {Polls} ELSE gaps \cap {Polls})
    /\ pollState' = IF f = NoFailure THEN "up" ELSE pollState
    /\ UNCHANGED <<batch, pollEntry>>

\* pollNow, when the loop has not locked the service.
PollNow(report, f, err) ==
    LET result == IF f = NoFailure THEN "up" ELSE err
    IN  /\ batch = NoBatch
        /\ f \in Failures(report)
        /\ Announce(report, f, {})
        /\ pollState' = result
        /\ pollEntry' = Recorded(pollEntry, result)
        /\ UNCHANGED batch

----------------------------------------------------------------------------
(* The end of the process forgets the events of a settled poll; retention  *)
(* prunes a history with its last row.                                     *)

Crash ==
    /\ batch # NoBatch
    /\ batch' = NoBatch
    /\ excused' = IF batch.phase = "settled" THEN excused \cup DOMAIN batch.changes ELSE excused
    /\ UNCHANGED <<health, entry, pollState, pollEntry, told, gaps>>

PruneErrors(d) ==
    /\ entry[d] # Unreported
    /\ entry' = [entry EXCEPT ![d] = Unreported]
    /\ gaps' = gaps \cup {d}
    /\ UNCHANGED <<health, batch, pollState, pollEntry, told, excused>>

PrunePolls ==
    /\ pollEntry # Unreported
    /\ pollEntry' = Unreported
    /\ gaps' = gaps \cup {Polls}
    /\ UNCHANGED <<health, entry, batch, pollState, told, excused>>

----------------------------------------------------------------------------
IngestInit ==
    /\ health = [d \in Reported |-> Unreported]
    /\ entry = [d \in Reported |-> Unreported]
    /\ batch = NoBatch
    /\ pollState = Unreported
    /\ pollEntry = Unreported
    /\ told = [d \in Reported |-> Unreported]
    /\ excused = {}
    /\ gaps = {}

IngestNext ==
    \/ StartPoll
    \/ \E report \in Responses : \E f \in Failures(report) :
          \/ Push(report, f)
          \/ \E err \in PollErrors : PollReports(report, f, err) \/ PollNow(report, f, err)
    \/ \E err \in PollErrors : PollFails(err)
    \/ \E upTo \in Reaches : ProcessBatch(upTo)
    \/ Crash \/ PrunePolls
    \/ \E d \in Reported : PruneErrors(d)

IngestSpec == IngestInit /\ [][IngestNext]_ingestVars

----------------------------------------------------------------------------
(* Properties. *)

IngestTypeOK ==
    /\ health \in [Reported -> Health \cup {Unreported}]
    /\ entry \in [Reported -> Health \cup {Unreported}]
    /\ pollState \in PollErrors \cup {"up", Unreported}
    /\ pollEntry \in PollErrors \cup {"up", Unreported}
    /\ told \in [Reported -> {"up", "down", Unreported}]
    /\ excused \subseteq Reported /\ gaps \subseteq Reported \cup {Polls}
    /\ batch.phase \in {"none", "fetching", "settled"}

\* With no poll settled, the listeners know of each dependency what the table
\* says of it, whichever way its reports came.  Only a dependency whose change
\* was forgotten (a write or a listener failed, the process ended) or overtaken
\* by a push is excused, until its next change.
EventsAgree == batch.phase # "settled" =>
    \A d \in Reported \ excused : told[d] = Heard(health[d])

\* The last row of the error history of each dependency tells its present
\* error, or its recovery, and the last row of the poll history tells the last
\* result, whatever went wrong before; only a result that could not be
\* recorded, a push, or retention leaves a gap, until the next result.
HistoryAgrees ==
    /\ \A d \in Reported \ gaps :
          entry[d] = health[d] \/ (entry[d] = Unreported /\ health[d] = "up")
    /\ Polls \notin gaps =>
          pollEntry = pollState \/ (pollEntry = Unreported /\ pollState = "up")

\* The listeners and the histories agree with the reports that were stored
\* (DependencyUpsertService.ts, ErrorHistoryRecorder.ts).
ReportsAreKept == EventsAgree /\ HistoryAgrees
=============================================================================

---------------------------- MODULE HealthPolling ----------------------------
(***************************************************************************)
(* The health polling scheduler (server/src/services/polling), with the    *)
(* routes and the manifest sync that start, restart and stop polling.      *)
(*                                                                         *)
(* Node runs one callback at a time, so the code between two awaits is one *)
(* action.  A loop tick starts a batch of polls and awaits all of them;    *)
(* the HTTP responses, manual polls, database edits and the shutdown       *)
(* interleave with the batches in flight.                                  *)
(*                                                                         *)
(* Time is counted in loop ticks (POLL_CYCLE_MS): every duration constant  *)
(* is a number of ticks, rounded up.                                       *)
(***************************************************************************)
EXTENDS Integers, FiniteSets

CONSTANTS
    Services,           \* ids of service rows; an id is never used twice
    NoService,          \* "no service", not an id
    Urls,               \* health endpoint URLs
    NoUrl,              \* "no URL", not a URL
    Hosts,              \* hostnames
    HostOf,             \* the hostname of each URL
    Rows,               \* the configurations a stored service row may have
    BatchIds,           \* bound: batches in flight at the same time
    ManualIds,          \* bound: manual polls in flight at the same time
    MaxPerHost,         \* POLL_MAX_CONCURRENT_PER_HOST
    FailureThreshold,   \* consecutive failures that open a circuit breaker
    Cooldown,           \* ticks a breaker stays open
    BaseDelay,          \* first backoff delay
    MaxDelay,           \* largest backoff delay
    DbReadsMayFail,     \* may the service list query of a tick throw?
    ManifestSetsFormat  \* may a manifest change health_endpoint_format?

Row == [status : {"inactive", "active"}, url : Urls, interval : Nat,
        fmt : {"pull", "otlp"}]

ASSUME PollingConstants ==
    /\ IsFiniteSet(Services) /\ NoService \notin Services
    /\ IsFiniteSet(BatchIds)
    /\ NoUrl \notin Urls
    /\ HostOf \in [Urls -> Hosts]
    /\ Rows \subseteq Row
    /\ MaxPerHost \in Nat \ {0}
    /\ FailureThreshold \in Nat \ {0}
    /\ Cooldown \in Nat \ {0}
    /\ BaseDelay \in Nat /\ MaxDelay \in Nat /\ BaseDelay <= MaxDelay
    /\ DbReadsMayFail \in BOOLEAN /\ ManifestSetsFormat \in BOOLEAN

VARIABLES
    db,            \* the services table
    svc,           \* per service: poll state, poller, breaker, backoff, cache
    activeCounts,  \* HostRateLimiter: occupied slots of each host
    inflight,      \* PollDeduplicator: whose poll of a URL is in flight
    batches,       \* per batch id: its members, what they await, the results
    manual,        \* per manual id: the pollNow call in flight
    loopTimer,     \* is the interval timer set?
    phase          \* the process: off, up, draining, cleared

vars == <<db, svc, activeCounts, inflight, batches, manual, loopTimer, phase>>

----------------------------------------------------------------------------
(* Rows of the services table. *)

Absent == [status |-> "absent", url |-> NoUrl, interval |-> 0, fmt |-> "pull"]
Deleted == [Absent EXCEPT !.status = "deleted"]
Exists(row) == row.status \in {"inactive", "active"}
\* startService and addServiceToPolling skip inactive and push-only services.
Pollable(row) == row.status = "active" /\ row.fmt # "otlp"

----------------------------------------------------------------------------
(* What the polling service remembers of one service: the ServicePollState *)
(* and poller (meaningful while tracked), the circuit breaker, the next    *)
(* backoff delay and the time its PollCache entry still has to live.       *)

ClosedBreaker == [state |-> "closed", failures |-> 0, since |-> 0]

Untracked == [tracked |-> FALSE, isPolling |-> FALSE, url |-> NoUrl,
              interval |-> 0, lastPolled |-> 0, breaker |-> ClosedBreaker,
              delay |-> BaseDelay, ttl |-> 0]

\* addService: the breaker, backoff and cache entry of the id, if there are
\* any, are kept.
Added(x, row) == [x EXCEPT !.tracked = TRUE, !.isPolling = FALSE,
                           !.url = row.url, !.interval = row.interval,
                           !.lastPolled = 0]

\* recordFailure; failures matter up to the threshold only.
Failed(b) ==
    LET n == IF b.failures < FailureThreshold THEN b.failures + 1
                                              ELSE FailureThreshold
    IN  [state |-> IF n = FailureThreshold THEN "open" ELSE b.state,
         failures |-> n, since |-> 0]

\* Mutant: no upper bound.
NextDelayUnbounded(d) == 2 * d
\* getNextDelay: min(base * 2^attempt, max), one step of the progression.
NextDelay(d) == IF 2 * d < MaxDelay THEN 2 * d ELSE MaxDelay

\* Mutant: a success closes the breaker but leaves the backoff alone.
RecordSuccessBreakerOnly(x) == [x EXCEPT !.breaker = ClosedBreaker]
RecordSuccess(x) == [x EXCEPT !.delay = BaseDelay, !.breaker = ClosedBreaker]
RecordFailure(x) == [x EXCEPT !.delay = NextDelay(@), !.breaker = Failed(@)]

\* One tick of time.
Elapsed(x) ==
    [x EXCEPT !.ttl = IF @ > 0 THEN @ - 1 ELSE 0,
              !.breaker.since = IF x.breaker.state = "open" /\ @ < Cooldown
                                THEN @ + 1 ELSE @]

----------------------------------------------------------------------------
(* One cycle of the loop, up to its await. *)

\* Mutant: a tracked service keeps the endpoint it was added with.
SyncedKeepsUrl(x, row) ==
    IF x.tracked \/ ~Pollable(row) THEN x ELSE Added(x, row)
\* syncServices, for one service.
Synced(x, row) ==
    IF row.status # "active"
    THEN IF x.tracked /\ ~x.isPolling THEN Untracked ELSE x
    ELSE IF ~x.tracked
         THEN IF Pollable(row) THEN Added(x, row) ELSE x
         ELSE [x EXCEPT !.url = row.url, !.interval = row.interval,
                        !.ttl = IF x.interval = row.interval THEN @ ELSE 0]

\* canAttempt, once the cooldown is over.
HalfOpened(b) == [state |-> "half-open", failures |-> b.failures, since |-> 0]
\* Mutant: the half-open breaker counts from zero.
AskedRearms(x) ==
    IF x.tracked /\ ~x.isPolling /\ x.breaker.state = "open"
       /\ x.breaker.since >= Cooldown
    THEN [x EXCEPT !.breaker = [ClosedBreaker EXCEPT !.state = "half-open"]]
    ELSE x
\* The side effects of asking a service's breaker whether it may be polled.
Asked(x) ==
    IF ~x.tracked \/ x.isPolling \/ x.breaker.state # "open" THEN x
    ELSE IF x.breaker.since >= Cooldown
         THEN [x EXCEPT !.breaker = HalfOpened(@)]
         ELSE [x EXCEPT !.ttl = Cooldown]

\* toPoll: neither locked nor open, and the cache entry has expired.
Due(x) == x.tracked /\ ~x.isPolling /\ x.breaker.state # "open" /\ x.ttl = 0

OnHost(w, S, h) == {s \in S : HostOf[w[s].url] = h}

\* Mutant: the free slots go to any services, not to the least recently polled.
EligibleUnordered(w, toPoll) ==
    {E \in SUBSET toPoll : \A h \in Hosts :
        Cardinality(OnHost(w, E, h)) =
            LET n == Cardinality(OnHost(w, toPoll, h))
                free == MaxPerHost - activeCounts[h]
            IN  IF n < free THEN n ELSE free}
\* The services that get a slot: on each host as many as it has free slots,
\* the least recently polled first.
Eligible(w, toPoll) ==
    {E \in SUBSET toPoll : \A h \in Hosts :
        LET due == OnHost(w, toPoll, h)
            won == OnHost(w, E, h)
            free == MaxPerHost - activeCounts[h]
        IN  /\ Cardinality(won) <= free
            /\ won # due => Cardinality(won) = free
            /\ \A s \in won, t \in due \ won : w[s].lastPolled <= w[t].lastPolled}

\* The first service of the batch that asks for a URL polls it, unless it is
\* being polled already.
Pollers(w, E) ==
    {o \in [Urls -> Services \cup {NoService}] : \A u \in Urls :
        LET S == {s \in E : w[s].url = u}
        IN  IF S = {} \/ inflight[u] # NoService THEN o[u] = inflight[u]
            ELSE /\ o[u] \in S
                 /\ \A s \in S : w[o[u]].lastPolled <= w[s].lastPolled}

NoMember == [url |-> NoUrl, poller |-> NoService, result |-> "none"]
In(b, s) == batches[b][s].result # "none"
Idle(b) == \A s \in Services : ~In(b, s)

\* Lock the eligible services and start their polls.
LaunchBatch(w, E) ==
    \E id \in BatchIds, o \in Pollers(w, E) :
        /\ Idle(id)
        /\ svc' = [s \in Services |-> [w[s] EXCEPT !.isPolling = @ \/ s \in E]]
        /\ activeCounts' = [h \in Hosts |->
                activeCounts[h] + Cardinality(OnHost(w, E, h))]
        /\ inflight' = o
        /\ batches' = [batches EXCEPT ![id] = [s \in Services |->
                IF s \in E
                THEN [url |-> w[s].url, poller |-> o[w[s].url], result |-> "pending"]
                ELSE @[s]]]

\* The service states once they are synced and their breakers are asked.
Surveyed(v, r) == [s \in Services |-> Asked(Synced(v[s], r[s]))]
ToPoll(w) == {s \in Services : Due(w[s])}

\* runPollCycle from the service states v with the rows r of the database.
RunPollCycle(v, r) ==
    LET w == Surveyed(v, r)
    IN  \E E \in Eligible(w, ToPoll(w)) :
            IF E = {} THEN svc' = w /\ UNCHANGED <<activeCounts, inflight, batches>>
                      ELSE LaunchBatch(w, E)

----------------------------------------------------------------------------
(* Callbacks run to completion, microtasks included: a batch whose polls   *)
(* have all settled is processed before anything else runs.                *)

Settled(b) == ~Idle(b) /\ \A s \in Services : batches[b][s].result # "pending"
Drained == \A b \in BatchIds : ~Settled(b)

DbOpen == phase \in {"up", "draining"}

\* The interval timer fires.
Tick ==
    /\ Drained /\ loopTimer
    /\ \E b \in BatchIds : Idle(b)
    /\ RunPollCycle([s \in Services |-> Elapsed(svc[s])], db)
    /\ UNCHANGED <<db, manual, loopTimer, phase>>

\* The timer fires and the query of the active services throws.
TickSyncFails ==
    /\ DbReadsMayFail
    /\ Drained /\ loopTimer
    /\ svc' = [s \in Services |-> Elapsed(svc[s])]
    /\ loopTimer' = FALSE
    /\ UNCHANGED <<db, activeCounts, inflight, batches, manual, phase>>

Awaiting(u, o) == \E b \in BatchIds, s \in Services :
    batches[b][s] = [url |-> u, poller |-> o, result |-> "pending"]

\* The poll of URL u by the poller of service o ends: the response is parsed
\* and o's dependencies are stored, or the request, the parsing or the store
\* fails.  Everybody who awaits the promise gets the result.  (A response
\* that lists no dependency succeeds even if o was deleted meanwhile.)
PollSettles(u, o, result) ==
    /\ Drained /\ Awaiting(u, o)
    /\ batches' = [b \in BatchIds |-> [s \in Services |->
            IF batches[b][s] = [url |-> u, poller |-> o, result |-> "pending"]
            THEN [batches[b][s] EXCEPT !.result = result] ELSE batches[b][s]]]
    /\ inflight' = [inflight EXCEPT ![u] = IF @ = o THEN NoService ELSE @]
    /\ UNCHANGED <<db, svc, activeCounts, manual, loopTimer, phase>>

\* Poll times, of which only the order matters, renumbered without gaps.
Renumbered(t) == [s \in Services |->
    Cardinality({t[r] : r \in Services} \cap (1 .. t[s]))]

\* Mutants: no result, or no failure, releases the lock.
ProcessedLocked(x, result) == [x EXCEPT !.ttl = x.interval]
ProcessedFailureLocked(x, result) ==
    IF result = "ok" THEN [RecordSuccess(x) EXCEPT !.isPolling = FALSE,
                                                  !.ttl = x.interval]
                     ELSE RecordFailure(x)
\* The loop's bookkeeping for one result.
Processed(x, result) ==
    LET y == [x EXCEPT !.isPolling = FALSE]
    IN  IF result = "ok"
        THEN [RecordSuccess(y) EXCEPT !.ttl = y.interval]
        ELSE [RecordFailure(y) EXCEPT
                !.ttl = IF y.interval > y.delay THEN y.interval ELSE y.delay]

\* Mutant: the slots of a service that was removed meanwhile are not released.
HoldersTracked(b, h) == {s \in Services : /\ In(b, s) /\ svc[s].tracked
                                         /\ HostOf[batches[b][s].url] = h}
\* acquiredHosts: the members of the batch that hold a slot of host h.
Holders(b, h) == {s \in Services : In(b, s) /\ HostOf[batches[b][s].url] = h}

\* runPollCycle after its await: release the host slots, then process the
\* results of the services that are still (or again) tracked.
BatchCompletes(b) ==
    /\ Settled(b)
    /\ LET members == {s \in Services : In(b, s)}
           done == {s \in members : svc[s].tracked}
           now == Cardinality(Services) + 1
           times == Renumbered([s \in Services |->
                        IF s \in done THEN now ELSE svc[s].lastPolled])
       IN  /\ activeCounts' = [h \in Hosts |->
                LET used == Cardinality(Holders(b, h))
                IN  IF activeCounts[h] > used THEN activeCounts[h] - used ELSE 0]
           /\ svc' = [s \in Services |->
                LET x == IF s \in done THEN Processed(svc[s], batches[b][s].result)
                                       ELSE svc[s]
                IN  [x EXCEPT !.lastPolled = times[s]]]
           /\ batches' = [batches EXCEPT ![b] = [s \in Services |-> NoMember]]
    /\ UNCHANGED <<db, inflight, manual, loopTimer, phase>>

----------------------------------------------------------------------------
(* POST /services/:id/poll and pollNow. *)

NoManual == [svc |-> NoService, hadState |-> FALSE]

ManualStart(m, s) ==
    /\ Drained /\ DbOpen /\ manual[m] = NoManual
    /\ db[s].status = "active"
    /\ ~(svc[s].tracked /\ svc[s].isPolling)
    /\ manual' = [manual EXCEPT ![m] =
            [svc |-> s, hadState |-> svc[s].tracked]]
    /\ svc' = [svc EXCEPT ![s].isPolling = svc[s].tracked]
    /\ UNCHANGED <<db, activeCounts, inflight, batches, loopTimer, phase>>

\* The rest of pollNow, its finally block included.  On a closed database
\* updatePollResult throws and only the lock is released.
ManualSettles(m, result) ==
    LET s == manual[m].svc
        x == IF result = "ok" THEN RecordSuccess(svc[s]) ELSE RecordFailure(svc[s])
        y == IF DbOpen THEN [x EXCEPT !.ttl = 0] ELSE svc[s]
    IN  /\ Drained /\ manual[m] # NoManual
        /\ svc' = [svc EXCEPT ![s] =
                [y EXCEPT !.isPolling = @ /\ ~manual[m].hadState]]
        /\ manual' = [manual EXCEPT ![m] = NoManual]
        /\ UNCHANGED <<db, activeCounts, inflight, batches, loopTimer, phase>>

----------------------------------------------------------------------------
(* Starting and stopping, as the routes and the manifest sync do it. *)

\* stopService, on the service states and on the loop.
Stopped(s) == [svc EXCEPT ![s] = IF @.tracked THEN Untracked ELSE @]
\* Mutant: stopping a service stops the loop.
LoopAfterStopStops(s) == loopTimer /\ ~svc[s].tracked
LoopAfterStop(s) ==
    loopTimer /\ (svc[s].tracked => \E t \in Services \ {s} : svc[t].tracked)

\* Mutant: services are started during a shutdown too.
StartServiceAlways(v, l, s, r) ==
    IF v[s].tracked \/ ~Pollable(r[s])
    THEN /\ loopTimer' = l /\ svc' = v
         /\ UNCHANGED <<activeCounts, inflight, batches>>
    ELSE loopTimer' = TRUE /\ RunPollCycle([v EXCEPT ![s] = Added(@, r[s])], r)
\* startService from the service states v, the loop l and the rows r: it runs
\* a cycle at once when it has to start the loop.
StartService(v, l, s, r) ==
    LET starts == phase = "up" /\ ~v[s].tracked /\ Pollable(r[s])
        w == [v EXCEPT ![s] = IF starts THEN Added(@, r[s]) ELSE @]
    IN  IF starts /\ ~l
        THEN loopTimer' = TRUE /\ RunPollCycle(w, r)
        ELSE /\ loopTimer' = l /\ svc' = w
             /\ UNCHANGED <<activeCounts, inflight, batches>>

RestartService(s, r) == StartService(Stopped(s), LoopAfterStop(s), s, r)

StopService(s) ==
    /\ svc' = Stopped(s) /\ loopTimer' = LoopAfterStop(s)
    /\ UNCHANGED <<activeCounts, inflight, batches>>

NoPollingChange == UNCHANGED <<svc, loopTimer, activeCounts, inflight, batches>>

CreateService(s, row) ==
    /\ Drained /\ DbOpen /\ db[s] = Absent /\ row.status = "active"
    /\ db' = [db EXCEPT ![s] = row]
    /\ StartService(svc, loopTimer, s, db')
    /\ UNCHANGED <<manual, phase>>

\* PUT /services/:id.  A request that names none of the polling fields
\* changes nothing the polling service uses.
UpdateService(s, row) ==
    /\ Drained /\ DbOpen /\ Exists(db[s])
    /\ db' = [db EXCEPT ![s] = row]
    /\ IF row.status = "active" THEN RestartService(s, db') ELSE StopService(s)
    /\ UNCHANGED <<manual, phase>>

\* DELETE /services/:id; the delete cascades to the dependencies.
DeleteService(s) ==
    /\ Drained /\ DbOpen /\ Exists(db[s])
    /\ db' = [db EXCEPT ![s] = Deleted]
    /\ StopService(s)
    /\ UNCHANGED <<manual, phase>>

\* A manifest sync updates the fields of a service and restarts its polling
\* when the endpoint or the interval changed; updatePolling swallows its own
\* errors, and the restart may then not happen.
ManifestUpdates(s, row) ==
    /\ Drained /\ DbOpen /\ Exists(db[s]) /\ row.status = db[s].status
    /\ ManifestSetsFormat \/ row.fmt = db[s].fmt
    /\ db' = [db EXCEPT ![s] = row]
    /\ \/ /\ row.url # db[s].url \/ row.interval # db[s].interval
          /\ RestartService(s, db')
       \/ NoPollingChange
    /\ UNCHANGED <<manual, phase>>

\* A manifest sync, or an accepted removal drift, deactivates a service.
ManifestDeactivates(s) ==
    /\ Drained /\ DbOpen /\ db[s].status = "active"
    /\ db' = [db EXCEPT ![s].status = "inactive"]
    /\ StopService(s) \/ NoPollingChange
    /\ UNCHANGED <<manual, phase>>

----------------------------------------------------------------------------
(* The process. *)

\* start(): startAll adds the pollable services and starts the loop, which
\* runs its first cycle at once.
Boot ==
    /\ phase = "off"
    /\ phase' = "up" /\ loopTimer' = TRUE
    /\ RunPollCycle([s \in Services |->
            IF Pollable(db[s]) THEN Added(svc[s], db[s]) ELSE svc[s]], db)
    /\ UNCHANGED <<db, manual>>

Shutdown ==
    /\ Drained /\ phase = "up"
    /\ phase' = "draining" /\ loopTimer' = FALSE
    /\ UNCHANGED <<db, svc, activeCounts, inflight, batches, manual>>

\* No poll is active any more, or the five seconds are over: the polling state
\* is cleared and the database closed.  Polls in flight are not cancelled.
ShutdownClears ==
    /\ Drained /\ phase = "draining"
    /\ phase' = "cleared"
    /\ svc' = [s \in Services |-> Untracked]
    /\ activeCounts' = [h \in Hosts |-> 0]
    /\ inflight' = [u \in Urls |-> NoService]
    /\ UNCHANGED <<db, batches, manual, loopTimer>>

\* process.exit, or a crash: only the database survives.
Exit ==
    /\ phase # "off"
    /\ phase' = "off" /\ loopTimer' = FALSE
    /\ svc' = [s \in Services |-> Untracked]
    /\ activeCounts' = [h \in Hosts |-> 0]
    /\ inflight' = [u \in Urls |-> NoService]
    /\ batches' = [b \in BatchIds |-> [s \in Services |-> NoMember]]
    /\ manual' = [m \in ManualIds |-> NoManual]
    /\ UNCHANGED db

Init ==
    /\ phase = "off" /\ loopTimer = FALSE
    /\ svc = [s \in Services |-> Untracked]
    /\ activeCounts = [h \in Hosts |-> 0]
    /\ inflight = [u \in Urls |-> NoService]
    /\ batches = [b \in BatchIds |-> [s \in Services |-> NoMember]]
    /\ manual = [m \in ManualIds |-> NoManual]
    /\ db \in [Services -> Rows \cup {Absent}]

----------------------------------------------------------------------------

\* What the program does of itself once it is up.
Loop ==
    \/ Tick
    \/ \E u \in Urls, o \in Services, r \in {"ok", "failed"} : PollSettles(u, o, r)
    \/ \E b \in BatchIds : BatchCompletes(b)

Manual ==
    \/ \E m \in ManualIds, s \in Services : ManualStart(m, s)
    \/ \E m \in ManualIds, r \in {"ok", "failed"} : ManualSettles(m, r)

Edit == \E s \in Services :
    \/ \E row \in Rows : \/ CreateService(s, row)
                         \/ UpdateService(s, row)
                         \/ ManifestUpdates(s, row)
    \/ DeleteService(s)
    \/ ManifestDeactivates(s)

Process == Boot \/ Shutdown \/ ShutdownClears \/ Exit

Next == Loop \/ TickSyncFails \/ Manual \/ Edit \/ Process

Spec == Init /\ [][Next]_vars

----------------------------------------------------------------------------
(* Properties. *)

Member == [url : Urls \cup {NoUrl}, poller : Services \cup {NoService},
           result : {"none", "pending", "ok", "failed"}]

StoredRow == Row \cup {Absent, Deleted}

BreakerState == [state : {"closed", "open", "half-open"},
                 failures : 0 .. FailureThreshold, since : 0 .. Cooldown]

PollingState ==
    [tracked : BOOLEAN, isPolling : BOOLEAN, url : Urls \cup {NoUrl},
     interval : Nat, lastPolled : Nat, breaker : BreakerState,
     delay : 0 .. MaxDelay, ttl : Nat]

TypeOK ==
    /\ db \in [Services -> StoredRow]
    /\ svc \in [Services -> PollingState]
    /\ activeCounts \in [Hosts -> Nat]
    /\ inflight \in [Urls -> Services \cup {NoService}]
    /\ batches \in [BatchIds -> [Services -> Member]]
    /\ manual \in [ManualIds -> [svc : Services \cup {NoService}, hadState : BOOLEAN]]
    /\ loopTimer \in BOOLEAN
    /\ phase \in {"off", "up", "draining", "cleared"}

\* The batch members that occupy a slot of host h.
Slots(h) == {x \in BatchIds \X Services :
                /\ In(x[1], x[2])
                /\ HostOf[batches[x[1]][x[2]].url] = h}

\* The limiter's counts are exact (HostRateLimiter.activeCounts): each polled
\* batch member holds one slot of the host it was polled at, whatever
\* restarts, edits and removals happen before it is released, so no slot
\* leaks and none is released twice; and no host is ever over its limit.
HostSlotsExact ==
    /\ phase # "cleared" => \A h \in Hosts : activeCounts[h] = Cardinality(Slots(h))
    /\ \A h \in Hosts : Cardinality(Slots(h)) <= MaxPerHost

\* A lock always has an owner that will release it: a locked service is a
\* member of a batch in flight, or a manual poll that took the lock is in
\* flight.  Otherwise the loop would skip the service for ever.
LockHasOwner == \A s \in Services : svc[s].isPolling =>
    \/ \E b \in BatchIds : In(b, s)
    \/ \E m \in ManualIds : manual[m].svc = s /\ manual[m].hadState

\* A breaker leaves the closed state, and the half-open state can return to
\* open at the first failed probe, only with the failure count at the
\* threshold: no path (manual polls, removals, late results) disarms it.
BreakerArmed == \A s \in Services :
    svc[s].breaker.state # "closed" <=> svc[s].breaker.failures = FailureThreshold

\* The loop polls s from this step on.
LoopPolls(s) == \E b \in BatchIds : ~In(b, s) /\ In(b, s)'

\* The loop begins a poll only of a service that is active and pull-based in
\* the database at that moment, at the endpoint the database holds, even when
\* the database changed without the polling service being told.
PollsFollowDatabase == [][\A s \in Services : LoopPolls(s) =>
    /\ db'[s].status = "active" /\ db'[s].fmt # "otlp"
    /\ \E b \in BatchIds : ~In(b, s) /\ batches'[b][s].url = db'[s].url]_vars

\* The timer is only cleared when nothing is left to poll, when the service
\* shuts down or when the database cannot be read: a stop or a restart of one
\* service never stops the polling of the others.
LoopStopsOnlyIdle ==
    [][loopTimer /\ ~loopTimer' => \/ \A s \in Services : ~svc'[s].tracked
                                  \/ phase' # "up"
                                  \/ TickSyncFails]_vars

\* Once the shutdown has begun, the loop begins no poll, although the routes
\* still serve requests that start, restart and stop services.
NoPollAfterShutdown == [][\A s \in Services : LoopPolls(s) => phase' = "up"]_vars

\* The backoff and the breaker of a service are two counters of the same
\* failures, kept apart and updated by the loop and by manual polls: they stay
\* in step, so the delay is the one the failure count calls for.
BackoffInStep == \A s \in Services :
    LET wanted == BaseDelay * 2 ^ svc[s].breaker.failures
    IN  svc[s].breaker.failures < FailureThreshold =>
            svc[s].delay = IF wanted < MaxDelay THEN wanted ELSE MaxDelay

\* startService: "OTLP services are push-only - never poll them".
NeverPollsOtlp == [][\A s \in Services : LoopPolls(s) => db'[s].fmt # "otlp"]_vars

\* 05-health-polling.md: a service that shares the promise of another one's
\* poll goes on to "Update DB: dependencies, latency, errors, service status":
\* whoever is recorded as polled successfully had its own poller, the only
\* one that stores its dependencies, run.
SuccessMeansStored == \A b \in BatchIds, s \in Services :
    batches[b][s].result = "ok" => batches[b][s].poller = s

----------------------------------------------------------------------------
(* Liveness.  Every poll ends (the request is aborted after ten seconds),  *)
(* the interval timer fires again and again, and a shutdown waits at most  *)
(* five seconds.  These events are strongly fair: the event loop keeps a   *)
(* due callback while the microtasks of a settled batch run, which in this *)
(* model disables it for a moment.                                         *)

Fairness ==
    /\ SF_vars(Tick)
    /\ \A u \in Urls, o \in Services :
            SF_vars(\E r \in {"ok", "failed"} : PollSettles(u, o, r))
    /\ \A b \in BatchIds : WF_vars(BatchCompletes(b))
    /\ \A m \in ManualIds : SF_vars(\E r \in {"ok", "failed"} : ManualSettles(m, r))
    /\ WF_vars(Boot) /\ SF_vars(ShutdownClears)

\* Nobody edits services, and the database can be read.
SteadySpec == Init /\ [][Loop \/ Manual \/ Process]_vars /\ Fairness

Busy(s) == (\E b \in BatchIds : In(b, s)) \/ \E m \in ManualIds : manual[m].svc = s

\* No service starves: while the process stays up, every tracked service is
\* polled again and again, through host limits, backoff, open breakers,
\* manual polls and failures (the sort by lastPolled prevents starvation).
NoStarvation == \A s \in Services : []<>(~svc[s].tracked \/ Busy(s))

\* Every lock is released.
LockReleased == \A s \in Services : svc[s].isPolling ~> ~svc[s].isPolling
=============================================================================

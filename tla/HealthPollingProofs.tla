------------------------- MODULE HealthPollingProofs -------------------------
(***************************************************************************)
(* Proofs about HealthPolling, for any number of services, URLs, hosts,    *)
(* batches and manual polls in flight, and any thresholds and delays.      *)
(*                                                                         *)
(* The argument has layers.  Every operator on the state of one service    *)
(* preserves SvcOK, whatever the actions around it do: that gives TypeOK   *)
(* and BreakerArmed.  On top of it, SlotInv relates the limiter to the     *)
(* batches and LocksOwned the locks to their owners: every step either     *)
(* leaves the batches and the slots alone, or launches or completes one    *)
(* batch.  PullInv relates what is tracked to the rows of the database.    *)
(***************************************************************************)
EXTENDS HealthPolling, FiniteSetTheorems, TLAPS

\* The delay that n failures call for.
DelayAfter(n) ==
    LET wanted == BaseDelay * 2 ^ n IN IF wanted < MaxDelay THEN wanted ELSE MaxDelay

\* What holds of the state of a service on its own.
SvcOK(x) ==
    /\ x \in PollingState
    /\ x.tracked => x.url \in Urls
    /\ x.isPolling => x.tracked
    /\ x.breaker.state # "closed" <=> x.breaker.failures = FailureThreshold
    /\ x.breaker.failures < FailureThreshold => x.delay = DelayAfter(x.breaker.failures)

SvcsOK(v) == /\ v \in [Services -> PollingState]
             /\ \A s \in Services : SvcOK(v[s])

\* A manual poll in flight is a poll of a service.
ManualsOK == \A m \in ManualIds : manual[m] # NoManual => manual[m].svc \in Services

\* The layer of the types: the timer runs only while the process is up.
TypeInv == TypeOK /\ SvcsOK(svc) /\ ManualsOK /\ (loopTimer => phase = "up")

----------------------------------------------------------------------------
(* Powers of two: a set with one more element has twice as many subsets. *)

\* The sets with the new element are as many as those without it.
LEMMA SubsetsDouble ==
    ASSUME NEW S, IsFiniteSet(S), NEW e, e \notin S
    PROVE  /\ Cardinality(SUBSET S) \in Nat
           /\ Cardinality(SUBSET (S \cup {e})) = 2 * Cardinality(SUBSET S)
  <1> DEFINE P == SUBSET S
             Q == {T \cup {e} : T \in P}
             f == [T \in P |-> T \cup {e}]
  <1>1. SUBSET (S \cup {e}) = P \cup Q
    <2>1. ASSUME NEW T \in SUBSET (S \cup {e}), e \in T
          PROVE  T \in Q
      <3>1. T \ {e} \in P /\ T = (T \ {e}) \cup {e}
        BY <2>1
      <3> QED
        BY <3>1
    <2> QED
      BY <2>1
  <1>2. P \cap Q = {}
    OBVIOUS
  <1>3. IsFiniteSet(P) /\ Cardinality(P) \in Nat
    BY FS_SUBSET, FS_CardinalityType
  <1>4. ExistsBijection(P, Q)
    <2>1. f \in [P -> Q]
      OBVIOUS
    <2>2. \A x, y \in P : f[x] = f[y] => x = y
      OBVIOUS
    <2>3. \A z \in Q : \E x \in P : f[x] = z
      OBVIOUS
    <2> HIDE DEF f, P, Q
    <2> QED
      BY <2>1, <2>2, <2>3
         DEF ExistsBijection, Bijection, Injection, Surjection, IsInjective
  <1> HIDE DEF P, Q
  <1>5. IsFiniteSet(Q) /\ Cardinality(Q) = Cardinality(P)
    BY <1>3, <1>4, FS_Bijection
  <1>6. Cardinality(P \cup Q) = Cardinality(P) + Cardinality(Q) - Cardinality(P \cap Q)
    BY <1>3, <1>5, FS_Union
  <1>7. Cardinality(P \cup Q) = 2 * Cardinality(P)
    <2>1. Cardinality(P \cap Q) = 0
      BY <1>2, FS_EmptySet
    <2> QED
      BY <1>3, <1>5, <1>6, <2>1
  <1> QED
    BY <1>1, <1>3, <1>7 DEF P

\* Each power of two is twice the one before.
LEMMA PowersDouble ==
    ASSUME NEW n \in Nat
    PROVE  2 ^ n \in Nat /\ 2 ^ (n + 1) = 2 * 2 ^ n
  <1>1. /\ IsFiniteSet(1 .. n) /\ Cardinality(1 .. n) = n
        /\ IsFiniteSet(1 .. (n + 1)) /\ Cardinality(1 .. (n + 1)) = n + 1
    BY FS_Interval
  <1>2. 1 .. (n + 1) = (1 .. n) \cup {n + 1} /\ n + 1 \notin 1 .. n
    OBVIOUS
  <1>3. /\ Cardinality(SUBSET (1 .. n)) = 2 ^ n
        /\ Cardinality(SUBSET (1 .. (n + 1))) = 2 ^ (n + 1)
    BY <1>1, FS_SUBSET
  <1>4. /\ Cardinality(SUBSET (1 .. n)) \in Nat
        /\ Cardinality(SUBSET ((1 .. n) \cup {n + 1})) = 2 * Cardinality(SUBSET (1 .. n))
    BY <1>1, <1>2, SubsetsDouble
  <1> QED
    BY <1>2, <1>3, <1>4

\* Without failures the delay is the base delay.
LEMMA DelayAtFirst == DelayAfter(0) = BaseDelay
  <1>1. 2 ^ 0 = 1
    OBVIOUS
  <1>2. BaseDelay * 1 = BaseDelay
    BY PollingConstants
  <1> QED
    BY <1>1, <1>2, PollingConstants DEF DelayAfter

\* One failure more is one step of the progression.
LEMMA DelayProgresses ==
    ASSUME NEW n \in Nat
    PROVE  NextDelay(DelayAfter(n)) = DelayAfter(n + 1)
  <1> DEFINE w == BaseDelay * 2 ^ n
  <1>1. w \in Nat
    BY PowersDouble, PollingConstants
  <1>2. BaseDelay * 2 ^ (n + 1) = 2 * w
    <2> DEFINE p == 2 ^ n
    <2>1. p \in Nat /\ 2 ^ (n + 1) = 2 * p
      BY PowersDouble
    <2> HIDE DEF p
    <2>2. BaseDelay * (2 * p) = 2 * (BaseDelay * p)
      BY <2>1, PollingConstants
    <2> QED
      BY <2>1, <2>2 DEF p
  <1>3. /\ DelayAfter(n) = IF w < MaxDelay THEN w ELSE MaxDelay
        /\ DelayAfter(n + 1) = IF 2 * w < MaxDelay THEN 2 * w ELSE MaxDelay
    BY <1>2 DEF DelayAfter
  <1> HIDE DEF w
  <1> QED
    BY <1>1, <1>3, PollingConstants DEF NextDelay

----------------------------------------------------------------------------
(* The operators on the state of one service. *)

\* A forgotten service (stopService, clear) is in order.
LEMMA UntrackedOK == SvcOK(Untracked) /\ ~Untracked.isPolling
  BY PollingConstants, DelayAtFirst
     DEF SvcOK, PollingState, BreakerState, Untracked, ClosedBreaker

\* addService keeps the breaker and the backoff, which stay in order.
LEMMA AddedOK ==
    ASSUME NEW x, SvcOK(x), NEW row \in Row
    PROVE  SvcOK(Added(x, row)) /\ Added(x, row).tracked
                                /\ ~Added(x, row).isPolling
  BY DEF SvcOK, PollingState, Added, Row

\* recordFailure and getNextDelay stay within the bounds, and the breaker is
\* open exactly at the threshold.
LEMMA RecordFailureOK ==
    ASSUME NEW x, SvcOK(x)
    PROVE  SvcOK(RecordFailure(x)) /\ RecordFailure(x).tracked = x.tracked
                                   /\ RecordFailure(x).isPolling = x.isPolling
  <1>1. NextDelay(x.delay) \in 0 .. MaxDelay
    BY PollingConstants DEF SvcOK, PollingState, NextDelay
  <1>2. /\ Failed(x.breaker) \in BreakerState
        /\ Failed(x.breaker).state # "closed"
                <=> Failed(x.breaker).failures = FailureThreshold
    BY PollingConstants DEF SvcOK, PollingState, BreakerState, Failed
  <1>3. Failed(x.breaker).failures < FailureThreshold =>
            NextDelay(x.delay) = DelayAfter(Failed(x.breaker).failures)
    <2> DEFINE n == x.breaker.failures
    <2>1. n \in Nat /\ FailureThreshold \in Nat
      BY PollingConstants DEF SvcOK, PollingState, BreakerState
    <2>2. /\ Failed(x.breaker).failures =
                (IF n < FailureThreshold THEN n + 1 ELSE FailureThreshold)
      BY DEF Failed
    <2>3. n < FailureThreshold => x.delay = DelayAfter(n)
      BY DEF SvcOK
    <2> HIDE DEF n
    <2> QED
      BY <2>1, <2>2, <2>3, DelayProgresses
  <1> QED
    BY <1>1, <1>2, <1>3 DEF SvcOK, PollingState, RecordFailure

\* recordSuccess closes the breaker and resets the backoff.
LEMMA RecordSuccessOK ==
    ASSUME NEW x, SvcOK(x)
    PROVE  SvcOK(RecordSuccess(x)) /\ RecordSuccess(x).tracked = x.tracked
                                   /\ RecordSuccess(x).isPolling = x.isPolling
  <1>1. /\ ClosedBreaker \in BreakerState /\ ClosedBreaker.state = "closed"
        /\ ClosedBreaker.failures # FailureThreshold
    BY PollingConstants DEF BreakerState, ClosedBreaker
  <1>2. BaseDelay \in 0 .. MaxDelay
    BY PollingConstants
  <1>3. BaseDelay = DelayAfter(ClosedBreaker.failures)
    BY DelayAtFirst DEF ClosedBreaker
  <1> QED
    BY <1>1, <1>2, <1>3 DEF SvcOK, PollingState, RecordSuccess

\* A tick of time changes neither the lock nor the breaker's state.
LEMMA ElapsedOK ==
    ASSUME NEW x, SvcOK(x)
    PROVE  SvcOK(Elapsed(x)) /\ Elapsed(x).isPolling = x.isPolling
  <1> DEFINE left == IF x.ttl > 0 THEN x.ttl - 1 ELSE 0
             age == IF x.breaker.state = "open" /\ x.breaker.since < Cooldown
                    THEN x.breaker.since + 1 ELSE x.breaker.since
             older == [x.breaker EXCEPT !.since = age]
  <1>1. Elapsed(x) = [x EXCEPT !.ttl = left, !.breaker = older]
    BY DEF Elapsed, SvcOK, PollingState
  <1>2. left \in Nat /\ age \in 0 .. Cooldown
    BY PollingConstants DEF SvcOK, PollingState, BreakerState
  <1> HIDE DEF left, age
  <1>3. /\ older \in BreakerState /\ older.state = x.breaker.state
        /\ older.failures = x.breaker.failures
    BY <1>2 DEF SvcOK, PollingState, BreakerState
  <1> HIDE DEF older
  <1> QED
    BY <1>1, <1>2, <1>3 DEF SvcOK, PollingState

\* syncServices adds, refreshes or removes a service; it never takes a lock.
LEMMA SyncedOK ==
    ASSUME NEW x, SvcOK(x), NEW row \in StoredRow
    PROVE  SvcOK(Synced(x, row)) /\ Synced(x, row).isPolling = x.isPolling
  <1>1. row.status = "active" => row \in Row
    BY DEF StoredRow, Absent, Deleted
  <1>2. CASE row.status # "active"
    BY <1>2, UntrackedOK DEF Synced, SvcOK, PollingState
  <1>3. CASE row.status = "active" /\ ~x.tracked
    BY <1>1, <1>3, AddedOK DEF Synced, SvcOK, PollingState
  <1>4. CASE row.status = "active" /\ x.tracked
    BY <1>1, <1>4 DEF Synced, SvcOK, PollingState, Row
  <1> QED
    BY <1>2, <1>3, <1>4

\* Asking a breaker may half-open it, which leaves its failure count alone.
LEMMA AskedOK ==
    ASSUME NEW x, SvcOK(x)
    PROVE  SvcOK(Asked(x)) /\ Asked(x).isPolling = x.isPolling
  <1> DEFINE half == HalfOpened(x.breaker)
  <1>1. x.breaker \in BreakerState
    BY DEF SvcOK, PollingState
  <1>2. /\ half \in BreakerState /\ half.state = "half-open"
        /\ half.failures = x.breaker.failures
    BY <1>1, PollingConstants DEF BreakerState, HalfOpened
  <1> HIDE DEF half
  <1>3. \/ Asked(x) = x
        \/ x.breaker.state = "open" /\ Asked(x) = [x EXCEPT !.breaker = half]
        \/ Asked(x) = [x EXCEPT !.ttl = Cooldown]
    BY DEF Asked, half
  <1> QED
    BY <1>2, <1>3, PollingConstants DEF SvcOK, PollingState

\* Processing a result releases the lock, whatever the result is.
LEMMA ProcessedOK ==
    ASSUME NEW x, SvcOK(x), NEW result
    PROVE  SvcOK(Processed(x, result)) /\ ~Processed(x, result).isPolling
  <1> DEFINE y == [x EXCEPT !.isPolling = FALSE]
  <1>1. SvcOK(y) /\ y.isPolling = FALSE
    BY DEF SvcOK, PollingState
  <1> HIDE DEF y
  <1>2. SvcOK(RecordSuccess(y)) /\ RecordSuccess(y).isPolling = FALSE
    BY <1>1, RecordSuccessOK
  <1>3. SvcOK(RecordFailure(y)) /\ RecordFailure(y).isPolling = FALSE
    BY <1>1, RecordFailureOK
  <1>4. Processed(x, result) =
            IF result = "ok"
            THEN [RecordSuccess(y) EXCEPT !.ttl = y.interval]
            ELSE [RecordFailure(y) EXCEPT
                    !.ttl = IF y.interval > y.delay THEN y.interval ELSE y.delay]
    BY DEF Processed, y
  <1>5. \A z, n : SvcOK(z) /\ n \in Nat =>
            /\ SvcOK([z EXCEPT !.ttl = n])
            /\ [z EXCEPT !.ttl = n].isPolling = z.isPolling
    BY DEF SvcOK, PollingState
  <1>6. y.interval \in Nat /\ y.delay \in Nat
    BY <1>1 DEF SvcOK, PollingState
  <1> QED
    BY <1>2, <1>3, <1>4, <1>5, <1>6

\* The survey of a cycle (sync, then ask the breakers) keeps the locks.
LEMMA SurveyedOK ==
    ASSUME NEW v, SvcsOK(v), NEW r \in [Services -> StoredRow]
    PROVE  /\ SvcsOK(Surveyed(v, r))
           /\ \A s \in Services : Surveyed(v, r)[s].isPolling = v[s].isPolling
  <1>1. \A s \in Services : SvcOK(Synced(v[s], r[s]))
                            /\ Synced(v[s], r[s]).isPolling = v[s].isPolling
    BY SyncedOK DEF SvcsOK
  <1>2. \A s \in Services :
            /\ SvcOK(Asked(Synced(v[s], r[s])))
            /\ Asked(Synced(v[s], r[s])).isPolling = Synced(v[s], r[s]).isPolling
    BY <1>1, AskedOK
  <1>3. \A x : SvcOK(x) => x \in PollingState
    BY DEF SvcOK
  <1> QED
    BY <1>1, <1>2, <1>3 DEF SvcsOK, Surveyed

----------------------------------------------------------------------------
(* A cycle of the loop, and what starts one. *)

\* What a step that may run a cycle leaves well typed.
PollingTypes ==
    /\ SvcsOK(svc)
    /\ activeCounts \in [Hosts -> Nat]
    /\ inflight \in [Urls -> Services \cup {NoService}]
    /\ batches \in [BatchIds -> [Services -> Member]]

\* A host's selected services are finitely many.
LEMMA OnHostFinite ==
    ASSUME NEW w, NEW E \in SUBSET Services, NEW h
    PROVE  OnHost(w, E, h) \in SUBSET Services /\ Cardinality(OnHost(w, E, h)) \in Nat
  <1>1. OnHost(w, E, h) \in SUBSET Services
    BY DEF OnHost
  <1> QED
    BY <1>1, FS_Subset, FS_CardinalityType, PollingConstants

\* Launching a batch locks only tracked services, whose URLs are known.
LEMMA LaunchTypes ==
    ASSUME TypeInv, NEW w, SvcsOK(w),
           NEW E \in SUBSET ToPoll(w), LaunchBatch(w, E)
    PROVE  PollingTypes'
  <1>1. PICK id \in BatchIds, o \in Pollers(w, E) :
            /\ svc' = [s \in Services |-> [w[s] EXCEPT !.isPolling = @ \/ s \in E]]
            /\ activeCounts' = [h \in Hosts |->
                    activeCounts[h] + Cardinality(OnHost(w, E, h))]
            /\ inflight' = o
            /\ batches' = [batches EXCEPT ![id] = [s \in Services |->
                    IF s \in E
                    THEN [url |-> w[s].url, poller |-> o[w[s].url],
                          result |-> "pending"]
                    ELSE @[s]]]
    BY DEF LaunchBatch
  <1>2. E \in SUBSET Services /\ \A s \in E : w[s].tracked /\ w[s].url \in Urls
    BY DEF ToPoll, Due, SvcsOK, SvcOK
  <1>3. SvcsOK(svc')
    <2>1. ASSUME NEW s \in Services
          PROVE  SvcOK([w[s] EXCEPT !.isPolling = @ \/ s \in E])
      <3>1. SvcOK(w[s]) /\ (s \in E => w[s].tracked)
        BY <1>2 DEF SvcsOK
      <3> QED
        BY <3>1 DEF SvcOK, PollingState
    <2> QED
      BY <1>1, <2>1 DEF SvcsOK, SvcOK
  <1>4. activeCounts' \in [Hosts -> Nat]
    <2>1. \A h \in Hosts : Cardinality(OnHost(w, E, h)) \in Nat
      BY <1>2, OnHostFinite
    <2> QED
      BY <1>1, <2>1 DEF TypeInv, TypeOK
  <1>5. o \in [Urls -> Services \cup {NoService}]
    BY DEF Pollers
  <1>6. batches' \in [BatchIds -> [Services -> Member]]
    <2>1. ASSUME NEW s \in E
          PROVE  [url |-> w[s].url, poller |-> o[w[s].url], result |-> "pending"]
                    \in Member
      BY <1>2, <1>5 DEF Member
    <2> QED
      BY <1>1, <2>1 DEF TypeInv, TypeOK
  <1> QED
    BY <1>1, <1>3, <1>4, <1>5, <1>6 DEF PollingTypes

LEMMA CycleTypes ==
    ASSUME TypeInv, NEW v, SvcsOK(v), NEW r \in [Services -> StoredRow],
           RunPollCycle(v, r)
    PROVE  PollingTypes'
  <1> DEFINE w == Surveyed(v, r)
  <1>1. SvcsOK(w)
    BY SurveyedOK
  <1>2. PICK E \in Eligible(w, ToPoll(w)) :
            IF E = {} THEN svc' = w /\ UNCHANGED <<activeCounts, inflight, batches>>
                      ELSE LaunchBatch(w, E)
    BY DEF RunPollCycle
  <1> HIDE DEF w
  <1>3. E \in SUBSET ToPoll(w)
    BY DEF Eligible
  <1>4. CASE E = {}
    BY <1>1, <1>2, <1>4 DEF PollingTypes, TypeInv, TypeOK
  <1>5. CASE E # {}
    BY <1>1, <1>2, <1>3, <1>5, LaunchTypes
  <1> QED
    BY <1>4, <1>5

\* startService sets the timer only while the process is up.
LEMMA StartServiceTypes ==
    ASSUME TypeInv, NEW v, SvcsOK(v), NEW l \in BOOLEAN, l => phase = "up",
           NEW s \in Services, NEW r \in [Services -> StoredRow],
           StartService(v, l, s, r)
    PROVE  PollingTypes' /\ loopTimer' \in BOOLEAN /\ (loopTimer' => phase = "up")
  <1> DEFINE starts == phase = "up" /\ ~v[s].tracked /\ Pollable(r[s])
             w == [v EXCEPT ![s] = IF starts THEN Added(@, r[s]) ELSE @]
  <1>1. starts => r[s] \in Row
    BY DEF Pollable, StoredRow, Absent, Deleted
  <1>2. SvcsOK(w)
    <2>1. starts => SvcOK(Added(v[s], r[s]))
      BY <1>1, AddedOK DEF SvcsOK
    <2> HIDE DEF starts
    <2> QED
      BY <2>1 DEF SvcsOK, SvcOK
  <1>3. CASE starts /\ ~l
    <2>1. loopTimer' = TRUE /\ RunPollCycle(w, r)
      BY <1>3 DEF StartService
    <2> HIDE DEF w
    <2> QED
      BY <1>2, <1>3, <2>1, CycleTypes
  <1>4. CASE ~(starts /\ ~l)
    <2>1. /\ loopTimer' = l /\ svc' = w
          /\ UNCHANGED <<activeCounts, inflight, batches>>
      BY <1>4 DEF StartService
    <2> HIDE DEF w
    <2> QED
      BY <1>2, <2>1 DEF PollingTypes, TypeInv, TypeOK
  <1> QED
    BY <1>3, <1>4

\* stopService forgets a service and never sets the timer.
LEMMA StoppedOK ==
    ASSUME TypeInv, NEW s \in Services
    PROVE  /\ SvcsOK(Stopped(s)) /\ LoopAfterStop(s) \in BOOLEAN
           /\ LoopAfterStop(s) => phase = "up"
  <1>1. SvcsOK(Stopped(s))
    BY UntrackedOK DEF Stopped, TypeInv, SvcsOK, SvcOK
  <1>2. LoopAfterStop(s) \in BOOLEAN /\ (LoopAfterStop(s) => phase = "up")
    BY DEF LoopAfterStop, TypeInv, TypeOK
  <1> QED
    BY <1>1, <1>2

LEMMA RestartServiceTypes ==
    ASSUME TypeInv, NEW s \in Services, NEW r \in [Services -> StoredRow],
           RestartService(s, r)
    PROVE  PollingTypes' /\ loopTimer' \in BOOLEAN /\ (loopTimer' => phase = "up")
  BY StoppedOK, StartServiceTypes DEF RestartService

LEMMA StopServiceTypes ==
    ASSUME TypeInv, NEW s \in Services, StopService(s)
    PROVE  PollingTypes' /\ loopTimer' \in BOOLEAN /\ (loopTimer' => phase = "up")
  BY StoppedOK DEF StopService, PollingTypes, TypeInv, TypeOK

----------------------------------------------------------------------------
(* The types are invariant. *)

\* Poll times are renumbered to natural numbers.
LEMMA RenumberedType ==
    ASSUME NEW t \in [Services -> Nat]
    PROVE  Renumbered(t) \in [Services -> Nat]
  <1>1. ASSUME NEW s \in Services
        PROVE  Cardinality({t[q] : q \in Services} \cap (1 .. t[s])) \in Nat
    <2> DEFINE times == {t[q] : q \in Services}
    <2> HIDE DEF times
    <2>1. IsFiniteSet(1 .. t[s])
      BY FS_Interval
    <2>2. IsFiniteSet(times \cap (1 .. t[s]))
      BY <2>1, FS_Intersection
    <2>3. Cardinality(times \cap (1 .. t[s])) \in Nat
      BY <2>2, FS_CardinalityType
    <2> QED
      BY <2>3 DEF times
  <1> QED
    BY <1>1 DEF Renumbered

\* A finished batch leaves every service in order.
LEMMA BatchCompletesTypes ==
    ASSUME TypeInv, NEW b \in BatchIds, BatchCompletes(b)
    PROVE  TypeInv'
  <1> DEFINE done == {s \in Services : In(b, s) /\ svc[s].tracked}
             now == Cardinality(Services) + 1
             polled == [s \in Services |->
                            IF s \in done THEN now ELSE svc[s].lastPolled]
             after(s) == IF s \in done THEN Processed(svc[s], batches[b][s].result)
                                       ELSE svc[s]
  <1>1. polled \in [Services -> Nat]
    BY FS_CardinalityType, PollingConstants DEF TypeInv, SvcsOK, PollingState
  <1>2. Renumbered(polled) \in [Services -> Nat]
    <2> HIDE DEF polled
    <2> QED
      BY <1>1, RenumberedType
  <1>3. ASSUME NEW s \in Services
        PROVE  SvcOK(after(s))
    BY ProcessedOK DEF TypeInv, SvcsOK
  <1>4. svc' = [s \in Services |->
                    [after(s) EXCEPT !.lastPolled = Renumbered(polled)[s]]]
    BY DEF BatchCompletes
  <1> HIDE DEF polled, after
  <1>5. SvcsOK(svc')
    <2>1. ASSUME NEW s \in Services
          PROVE  SvcOK([after(s) EXCEPT !.lastPolled = Renumbered(polled)[s]])
      <3>1. SvcOK(after(s)) /\ Renumbered(polled)[s] \in Nat
        BY <1>2, <1>3
      <3> QED
        BY <3>1 DEF SvcOK, PollingState
    <2> QED
      BY <1>4, <2>1 DEF SvcsOK, SvcOK
  <1>6. activeCounts' \in [Hosts -> Nat]
    <2>1. ASSUME NEW h \in Hosts
          PROVE  Cardinality(Holders(b, h)) \in Nat
      <3>1. Holders(b, h) \in SUBSET Services
        BY DEF Holders
      <3> QED
        BY <3>1, FS_Subset, FS_CardinalityType, PollingConstants
    <2>2. activeCounts' = [h \in Hosts |->
              IF activeCounts[h] > Cardinality(Holders(b, h))
              THEN activeCounts[h] - Cardinality(Holders(b, h)) ELSE 0]
      BY DEF BatchCompletes
    <2> QED
      BY <2>1, <2>2 DEF TypeInv, TypeOK
  <1>7. batches' \in [BatchIds -> [Services -> Member]]
    BY DEF BatchCompletes, TypeInv, TypeOK, Member, NoMember
  <1> QED
    BY <1>5, <1>6, <1>7 DEF BatchCompletes, TypeInv, TypeOK, ManualsOK, SvcsOK

\* A finished manual poll leaves its service in order.
LEMMA ManualSettlesTypes ==
    ASSUME TypeInv, NEW m \in ManualIds, NEW result, ManualSettles(m, result)
    PROVE  TypeInv'
  <1> DEFINE s == manual[m].svc
             x == IF result = "ok" THEN RecordSuccess(svc[s])
                                   ELSE RecordFailure(svc[s])
             y == IF DbOpen THEN [x EXCEPT !.ttl = 0] ELSE svc[s]
             z == [y EXCEPT !.isPolling = @ /\ ~manual[m].hadState]
  <1>1. s \in Services
    BY DEF ManualSettles, TypeInv, ManualsOK
  <1>2. SvcOK(svc[s])
    BY <1>1 DEF TypeInv, SvcsOK
  <1>3. SvcOK(x)
    BY <1>2, RecordSuccessOK, RecordFailureOK
  <1>4. SvcOK(y)
    <2> HIDE DEF x
    <2> QED
      BY <1>2, <1>3 DEF SvcOK, PollingState
  <1>5. SvcOK(z)
    <2> HIDE DEF y
    <2> QED
      BY <1>4 DEF SvcOK, PollingState
  <1>6. svc' = [svc EXCEPT ![s] = z]
    BY DEF ManualSettles
  <1> HIDE DEF z
  <1>7. SvcsOK(svc')
    BY <1>1, <1>5, <1>6 DEF TypeInv, SvcsOK, SvcOK
  <1> QED
    BY <1>7 DEF ManualSettles, TypeInv, TypeOK, ManualsOK, NoManual, SvcsOK

\* Every step preserves the types.
LEMMA TypeInvStep == TypeInv /\ [Next]_vars => TypeInv'
  <1> SUFFICES ASSUME TypeInv, [Next]_vars
               PROVE  TypeInv'
    OBVIOUS
  <1> USE DEF TypeInv
  <1>1. db \in [Services -> StoredRow] /\ SvcsOK(svc)
    BY DEF TypeOK
  <1>2. CASE Tick
    <2> DEFINE v == [s \in Services |-> Elapsed(svc[s])]
    <2>1. SvcsOK(v)
      BY <1>1, ElapsedOK DEF SvcsOK, SvcOK
    <2>2. RunPollCycle(v, db)
      BY <1>2 DEF Tick
    <2> HIDE DEF v
    <2>3. PollingTypes'
      BY <1>1, <2>1, <2>2, CycleTypes
    <2> QED
      BY <1>2, <2>3 DEF Tick, PollingTypes, TypeOK, ManualsOK, SvcsOK
  <1>3. CASE TickSyncFails
    <2>1. SvcsOK(svc')
      BY <1>1, <1>3, ElapsedOK DEF TickSyncFails, SvcsOK, SvcOK
    <2> QED
      BY <1>3, <2>1 DEF TickSyncFails, TypeOK, ManualsOK, SvcsOK
  <1>4. ASSUME NEW u \in Urls, NEW o \in Services, NEW r \in {"ok", "failed"},
               PollSettles(u, o, r)
        PROVE  TypeInv'
    <2>1. batches' \in [BatchIds -> [Services -> Member]]
      <3>1. \A x \in Member : [x EXCEPT !.result = r] \in Member
        BY DEF Member
      <3> QED
        BY <1>4, <3>1 DEF PollSettles, TypeOK
    <2>2. inflight' \in [Urls -> Services \cup {NoService}]
      BY <1>4 DEF PollSettles, TypeOK
    <2> QED
      BY <1>4, <2>1, <2>2 DEF PollSettles, TypeOK, ManualsOK, SvcsOK
  <1>5. ASSUME NEW b \in BatchIds, BatchCompletes(b)
        PROVE  TypeInv'
    BY <1>5, BatchCompletesTypes
  <1>6. ASSUME NEW m \in ManualIds, NEW s \in Services, ManualStart(m, s)
        PROVE  TypeInv'
    <2>1. SvcOK([svc[s] EXCEPT !.isPolling = svc[s].tracked])
      BY <1>1 DEF SvcsOK, SvcOK, PollingState
    <2>2. SvcsOK(svc')
      BY <1>1, <1>6, <2>1 DEF ManualStart, SvcsOK, SvcOK
    <2>3. svc[s].tracked \in BOOLEAN
      BY <1>1 DEF SvcsOK, PollingState
    <2> QED
      BY <1>6, <2>2, <2>3 DEF ManualStart, TypeOK, ManualsOK, SvcsOK
  <1>7. ASSUME NEW m \in ManualIds, NEW r \in {"ok", "failed"},
               ManualSettles(m, r)
        PROVE  TypeInv'
    BY <1>7, ManualSettlesTypes
  <1>8. ASSUME NEW s \in Services, NEW row \in Rows, CreateService(s, row)
        PROVE  TypeInv'
    <2>1. db' \in [Services -> StoredRow]
      BY <1>1, <1>8, PollingConstants DEF CreateService, StoredRow
    <2>2. PollingTypes' /\ loopTimer' \in BOOLEAN /\ (loopTimer' => phase = "up")
      BY <1>1, <1>8, <2>1, StartServiceTypes DEF CreateService, TypeOK
    <2> QED
      BY <1>8, <2>1, <2>2 DEF CreateService, PollingTypes, TypeOK, ManualsOK, SvcsOK
  <1>9. ASSUME NEW s \in Services, NEW row \in Rows, UpdateService(s, row)
        PROVE  TypeInv'
    <2>1. db' \in [Services -> StoredRow]
      BY <1>1, <1>9, PollingConstants DEF UpdateService, StoredRow
    <2>2. PollingTypes' /\ loopTimer' \in BOOLEAN /\ (loopTimer' => phase = "up")
      BY <1>9, <2>1, RestartServiceTypes, StopServiceTypes DEF UpdateService
    <2> QED
      BY <1>9, <2>1, <2>2 DEF UpdateService, PollingTypes, TypeOK, ManualsOK, SvcsOK
  <1>10. ASSUME NEW s \in Services, DeleteService(s)
         PROVE  TypeInv'
    <2>1. db' \in [Services -> StoredRow]
      BY <1>1, <1>10 DEF DeleteService, StoredRow
    <2> QED
      BY <1>10, <2>1, StopServiceTypes
         DEF DeleteService, PollingTypes, TypeOK, ManualsOK, SvcsOK
  <1>11. ASSUME NEW s \in Services, NEW row \in Rows, ManifestUpdates(s, row)
         PROVE  TypeInv'
    <2>1. db' \in [Services -> StoredRow]
      BY <1>1, <1>11, PollingConstants DEF ManifestUpdates, StoredRow
    <2>2. PollingTypes' /\ loopTimer' \in BOOLEAN /\ (loopTimer' => phase = "up")
      <3>1. CASE RestartService(s, db')
        BY <2>1, <3>1, RestartServiceTypes
      <3>2. CASE NoPollingChange
        BY <3>2 DEF NoPollingChange, PollingTypes, TypeOK, SvcsOK
      <3> QED
        BY <1>11, <3>1, <3>2 DEF ManifestUpdates
    <2> QED
      BY <1>11, <2>1, <2>2
         DEF ManifestUpdates, PollingTypes, TypeOK, ManualsOK, SvcsOK
  <1>12. ASSUME NEW s \in Services, ManifestDeactivates(s)
         PROVE  TypeInv'
    <2>1. db' \in [Services -> StoredRow]
      BY <1>1, <1>12 DEF ManifestDeactivates, StoredRow, Row, Absent, Deleted
    <2>2. PollingTypes' /\ loopTimer' \in BOOLEAN /\ (loopTimer' => phase = "up")
      BY <1>12, StopServiceTypes
         DEF ManifestDeactivates, NoPollingChange, PollingTypes, TypeOK, SvcsOK
    <2> QED
      BY <1>12, <2>1, <2>2
         DEF ManifestDeactivates, PollingTypes, TypeOK, ManualsOK, SvcsOK
  <1>13. CASE Boot
    <2> DEFINE v == [s \in Services |->
                        IF Pollable(db[s]) THEN Added(svc[s], db[s]) ELSE svc[s]]
    <2>1. \A s \in Services : Pollable(db[s]) => db[s] \in Row
      BY <1>1 DEF Pollable, StoredRow, Absent, Deleted
    <2>2. SvcsOK(v)
      BY <1>1, <2>1, AddedOK DEF SvcsOK, SvcOK
    <2>3. RunPollCycle(v, db)
      BY <1>13 DEF Boot
    <2> HIDE DEF v
    <2>4. PollingTypes'
      BY <1>1, <2>2, <2>3, CycleTypes
    <2> QED
      BY <1>13, <2>4 DEF Boot, PollingTypes, TypeOK, ManualsOK, SvcsOK
  <1>14. CASE Shutdown
    BY <1>1, <1>14 DEF Shutdown, TypeOK, ManualsOK, SvcsOK
  <1>15. CASE ShutdownClears
    <2>1. SvcsOK(svc')
      BY <1>15, UntrackedOK DEF ShutdownClears, SvcsOK, SvcOK
    <2> QED
      BY <1>15, <2>1 DEF ShutdownClears, TypeOK, ManualsOK, SvcsOK
  <1>16. CASE Exit
    <2>1. SvcsOK(svc')
      BY <1>16, UntrackedOK DEF Exit, SvcsOK, SvcOK
    <2>2. batches' \in [BatchIds -> [Services -> Member]]
      BY <1>16 DEF Exit, Member, NoMember
    <2> QED
      BY <1>16, <2>1, <2>2 DEF Exit, TypeOK, ManualsOK, NoManual, SvcsOK
  <1>17. CASE UNCHANGED vars
    BY <1>17 DEF vars, TypeOK, ManualsOK, SvcsOK
  <1> QED
    BY <1>2, <1>3, <1>4, <1>5, <1>6, <1>7, <1>8, <1>9, <1>10, <1>11, <1>12,
       <1>13, <1>14, <1>15, <1>16, <1>17
       DEF Next, Loop, Manual, Edit, Process

LEMMA TypeInvInit == Init => TypeInv
  <1> SUFFICES ASSUME Init
               PROVE  TypeInv
    OBVIOUS
  <1>1. SvcsOK(svc)
    BY UntrackedOK DEF Init, SvcsOK, SvcOK
  <1>2. db \in [Services -> StoredRow]
    BY PollingConstants DEF Init, StoredRow
  <1>3. batches \in [BatchIds -> [Services -> Member]]
    BY DEF Init, Member, NoMember
  <1> QED
    BY <1>1, <1>2, <1>3 DEF Init, TypeInv, TypeOK, ManualsOK, NoManual, SvcsOK

LEMMA TypeInvariant == Spec => []TypeInv
  BY TypeInvInit, TypeInvStep, PTL DEF Spec

\* Every variable of the polling service keeps its type: the failure count
\* stays within the threshold, the backoff within its maximum, the slots of a
\* host never become negative.
THEOREM TypeCorrect == Spec => []TypeOK
  <1>1. TypeInv => TypeOK
    BY DEF TypeInv
  <1> QED
    BY <1>1, TypeInvariant, PTL

\* A breaker has left the closed state exactly when its failure count is at
\* the threshold, whoever reports results and in whatever order.
THEOREM BreakerAlwaysArmed == Spec => []BreakerArmed
  <1>1. TypeInv => BreakerArmed
    BY DEF TypeInv, SvcsOK, SvcOK, BreakerArmed
  <1> QED
    BY <1>1, TypeInvariant, PTL

\* The delay of a service is the one its failure count calls for, although the
\* backoff and the breaker are counted apart, by the loop and by manual polls.
THEOREM BackoffAlwaysInStep == Spec => []BackoffInStep
  <1>1. TypeInv => BackoffInStep
    BY DEF TypeInv, SvcsOK, SvcOK, BackoffInStep, DelayAfter
  <1> QED
    BY <1>1, TypeInvariant, PTL

----------------------------------------------------------------------------
(* The slots of the host limiter.  SlotSet is Slots for any value of       *)
(* batches, so that a lemma can speak of two of them.                      *)

SlotSet(bs, h) == {x \in BatchIds \X Services :
                      /\ bs[x[1]][x[2]].result # "none"
                      /\ HostOf[bs[x[1]][x[2]].url] = h}

\* The members of batch id that occupy a slot of host h.
MembersOn(bs, id, h) == {s \in Services : /\ bs[id][s].result # "none"
                                          /\ HostOf[bs[id][s].url] = h}

\* The counts c are those of the batches bs, and within the limit.
Exact(c, bs) == \A h \in Hosts : /\ c[h] = Cardinality(SlotSet(bs, h))
                                 /\ c[h] <= MaxPerHost

LEMMA SlotsAreSlotSet ==
    /\ \A h : Slots(h) = SlotSet(batches, h)
    /\ \A h : Slots(h)' = SlotSet(batches', h)
  BY DEF Slots, SlotSet, In

LEMMA SlotSetFinite ==
    ASSUME NEW bs, NEW h
    PROVE  IsFiniteSet(SlotSet(bs, h)) /\ Cardinality(SlotSet(bs, h)) \in Nat
  <1>1. SlotSet(bs, h) \in SUBSET (BatchIds \X Services)
    BY DEF SlotSet
  <1>2. IsFiniteSet(BatchIds \X Services)
    BY FS_Product, PollingConstants
  <1> QED
    BY <1>1, <1>2, FS_Subset, FS_CardinalityType

\* When one batch is empty before and launched after (or the other way
\* round), the slots differ by one for each of its members.
LEMMA OneBatchSlots ==
    ASSUME NEW without, NEW with, NEW id \in BatchIds, NEW h,
           \A b \in BatchIds \ {id} : with[b] = without[b],
           \A s \in Services : without[id][s].result = "none"
    PROVE  /\ Cardinality(MembersOn(with, id, h)) \in Nat
           /\ Cardinality(SlotSet(with, h)) =
                  Cardinality(SlotSet(without, h)) + Cardinality(MembersOn(with, id, h))
  <1> DEFINE H == MembersOn(with, id, h)
             M == {id} \X H
  <1>1. IsFiniteSet(H) /\ Cardinality(H) \in Nat
    <2>1. H \in SUBSET Services
      BY DEF MembersOn
    <2> HIDE DEF H
    <2> QED
      BY <2>1, FS_Subset, FS_CardinalityType, PollingConstants
  <1>2. SlotSet(with, h) = SlotSet(without, h) \cup M
    <2>1. ASSUME NEW x \in SlotSet(with, h)
          PROVE  x \in SlotSet(without, h) \cup M
      BY <2>1 DEF SlotSet, MembersOn
    <2>2. SlotSet(without, h) \subseteq SlotSet(with, h)
      BY DEF SlotSet
    <2>3. M \subseteq SlotSet(with, h)
      BY DEF SlotSet, MembersOn
    <2> QED
      BY <2>1, <2>2, <2>3
  <1>3. SlotSet(without, h) \cap M = {}
    BY DEF SlotSet
  <1>4. IsFiniteSet(M) /\ Cardinality(M) = Cardinality(H)
    <2> HIDE DEF H
    <2>1. IsFiniteSet({id}) /\ Cardinality({id}) = 1
      BY FS_Singleton
    <2>2. IsFiniteSet(M) /\ Cardinality(M) = Cardinality({id}) * Cardinality(H)
      BY <1>1, <2>1, FS_Product
    <2> QED
      BY <1>1, <2>1, <2>2
  <1> HIDE DEF H, M
  <1>5. Cardinality(SlotSet(with, h)) =
            Cardinality(SlotSet(without, h)) + Cardinality(M)
                - Cardinality(SlotSet(without, h) \cap M)
    BY <1>2, <1>4, SlotSetFinite, FS_Union
  <1>6. Cardinality(SlotSet(without, h) \cap M) = 0
    BY <1>3, FS_EmptySet
  <1>7. Cardinality(SlotSet(with, h)) = Cardinality(SlotSet(without, h)) + Cardinality(H)
    BY <1>1, <1>4, <1>5, <1>6, SlotSetFinite
  <1> QED
    BY <1>1, <1>7 DEF H

\* A launched batch takes no more slots than are free, and counts them all.
LEMMA LaunchSlots ==
    ASSUME TypeInv, Exact(activeCounts, batches), NEW w,
           NEW E \in Eligible(w, ToPoll(w)), LaunchBatch(w, E)
    PROVE  Exact(activeCounts', batches')
  <1>1. PICK id \in BatchIds, o \in Pollers(w, E) :
            /\ Idle(id)
            /\ activeCounts' = [h \in Hosts |->
                    activeCounts[h] + Cardinality(OnHost(w, E, h))]
            /\ batches' = [batches EXCEPT ![id] = [s \in Services |->
                    IF s \in E
                    THEN [url |-> w[s].url, poller |-> o[w[s].url],
                          result |-> "pending"]
                    ELSE @[s]]]
    BY DEF LaunchBatch
  <1>2. E \in SUBSET Services
    BY DEF Eligible, ToPoll
  <1>3. \A s \in Services : batches[id][s].result = "none"
    BY <1>1 DEF Idle, In
  <1>4. batches'[id] = [s \in Services |->
            IF s \in E THEN [url |-> w[s].url, poller |-> o[w[s].url],
                             result |-> "pending"]
                       ELSE batches[id][s]]
    BY <1>1 DEF TypeInv, TypeOK
  <1>5. \A b \in BatchIds \ {id} : batches'[b] = batches[b]
    BY <1>1 DEF TypeInv, TypeOK
  <1> SUFFICES ASSUME NEW h \in Hosts
               PROVE  /\ activeCounts'[h] = Cardinality(SlotSet(batches', h))
                      /\ activeCounts'[h] <= MaxPerHost
    BY DEF Exact
  <1>6. MembersOn(batches', id, h) = OnHost(w, E, h)
    BY <1>2, <1>3, <1>4 DEF OnHost, MembersOn
  <1>7. /\ Cardinality(OnHost(w, E, h)) \in Nat
        /\ Cardinality(SlotSet(batches', h)) =
                Cardinality(SlotSet(batches, h)) + Cardinality(OnHost(w, E, h))
    <2>1. /\ Cardinality(MembersOn(batches', id, h)) \in Nat
          /\ Cardinality(SlotSet(batches', h)) =
                Cardinality(SlotSet(batches, h))
                    + Cardinality(MembersOn(batches', id, h))
      BY <1>3, <1>5, OneBatchSlots, Zenon
    <2> QED
      BY <1>6, <2>1
  <1>8. Cardinality(OnHost(w, E, h)) <= MaxPerHost - activeCounts[h]
    BY DEF Eligible
  <1>9. activeCounts[h] \in Nat /\ MaxPerHost \in Nat
    BY PollingConstants DEF TypeInv, TypeOK
  <1> QED
    BY <1>1, <1>7, <1>8, <1>9 DEF Exact

LEMMA CycleSlots ==
    ASSUME TypeInv, Exact(activeCounts, batches), NEW v, NEW r, RunPollCycle(v, r)
    PROVE  Exact(activeCounts', batches')
  <1>1. PICK E \in Eligible(Surveyed(v, r), ToPoll(Surveyed(v, r))) :
            IF E = {} THEN UNCHANGED <<activeCounts, inflight, batches>>
                      ELSE LaunchBatch(Surveyed(v, r), E)
    BY DEF RunPollCycle
  <1>2. CASE E = {}
    BY <1>1, <1>2
  <1>3. CASE E # {}
    BY <1>1, <1>3, LaunchSlots
  <1> QED
    BY <1>2, <1>3

\* A started service changes the slots only while the process is up.
LEMMA StartServiceSlots ==
    ASSUME TypeInv, phase = "up" => Exact(activeCounts, batches),
           NEW v, NEW l, NEW s, NEW r, StartService(v, l, s, r)
    PROVE  \/ UNCHANGED <<activeCounts, batches>>
           \/ phase = "up" /\ Exact(activeCounts', batches')
  BY CycleSlots DEF StartService

\* A finished batch gives back exactly the slots it took.
LEMMA BatchCompletesSlots ==
    ASSUME TypeInv, NEW b \in BatchIds, BatchCompletes(b)
    PROVE  /\ Exact(activeCounts, batches) => Exact(activeCounts', batches')
           /\ \A h \in Hosts : Cardinality(SlotSet(batches', h))
                                    <= Cardinality(SlotSet(batches, h))
  <1>1. /\ batches' = [batches EXCEPT ![b] = [s \in Services |-> NoMember]]
        /\ activeCounts' = [h \in Hosts |->
              IF activeCounts[h] > Cardinality(Holders(b, h))
              THEN activeCounts[h] - Cardinality(Holders(b, h)) ELSE 0]
    BY DEF BatchCompletes
  <1>2. /\ \A s \in Services : batches'[b][s].result = "none"
        /\ \A c \in BatchIds \ {b} : batches[c] = batches'[c]
    BY <1>1 DEF TypeInv, TypeOK, NoMember
  <1>3. ASSUME NEW h \in Hosts
        PROVE  /\ Cardinality(Holders(b, h)) \in Nat
               /\ Cardinality(SlotSet(batches, h)) =
                    Cardinality(SlotSet(batches', h)) + Cardinality(Holders(b, h))
    <2>1. Holders(b, h) = MembersOn(batches, b, h)
      BY DEF Holders, In, MembersOn
    <2>2. /\ Cardinality(MembersOn(batches, b, h)) \in Nat
          /\ Cardinality(SlotSet(batches, h)) =
                Cardinality(SlotSet(batches', h))
                    + Cardinality(MembersOn(batches, b, h))
      BY <1>2, OneBatchSlots, Zenon
    <2> QED
      BY <2>1, <2>2
  <1>4. \A h \in Hosts : Cardinality(SlotSet(batches', h)) \in Nat
    BY SlotSetFinite
  <1>5. ASSUME Exact(activeCounts, batches), NEW h \in Hosts
        PROVE  /\ activeCounts'[h] = Cardinality(SlotSet(batches', h))
               /\ activeCounts'[h] <= MaxPerHost
    <2>1. activeCounts[h] = Cardinality(SlotSet(batches, h))
          /\ activeCounts[h] <= MaxPerHost
      BY <1>5 DEF Exact
    <2>2. activeCounts'[h] = IF activeCounts[h] > Cardinality(Holders(b, h))
                             THEN activeCounts[h] - Cardinality(Holders(b, h)) ELSE 0
      BY <1>1
    <2>3. Cardinality(SlotSet(batches', h)) \in Nat /\ MaxPerHost \in Nat
      BY <1>4, PollingConstants
    <2> QED
      BY <1>3, <2>1, <2>2, <2>3
  <1> QED
    BY <1>3, <1>4, <1>5 DEF Exact

\* The invariant of the limiter, in terms of SlotSet.  Once the polling state
\* is cleared the counts are zero while polls are still in flight.
SlotInv == /\ phase # "cleared" => Exact(activeCounts, batches)
           /\ \A h \in Hosts : Cardinality(SlotSet(batches, h)) <= MaxPerHost

\* The two ways in which most steps preserve SlotInv.
LEMMA SlotsKept ==
    ASSUME SlotInv, UNCHANGED <<activeCounts, batches>>,
           phase' # "cleared" => phase # "cleared"
    PROVE  SlotInv'
  BY DEF SlotInv, Exact

LEMMA SlotsExact ==
    ASSUME Exact(activeCounts', batches')
    PROVE  SlotInv'
  BY DEF SlotInv, Exact

LEMMA SlotInvStep == TypeInv /\ SlotInv /\ [Next]_vars => SlotInv'
  <1> SUFFICES ASSUME TypeInv, SlotInv, [Next]_vars
               PROVE  SlotInv'
    OBVIOUS
  <1>1. phase # "cleared" => Exact(activeCounts, batches)
    BY DEF SlotInv
  <1>2. CASE Tick
    <2>1. phase = "up" /\ RunPollCycle([s \in Services |-> Elapsed(svc[s])], db)
      BY <1>2 DEF Tick, TypeInv
    <2> QED
      BY <1>1, <2>1, CycleSlots, SlotsExact
  <1>3. CASE TickSyncFails
    BY <1>3, SlotsKept DEF TickSyncFails
  <1>4. ASSUME NEW u \in Urls, NEW o \in Services, NEW r \in {"ok", "failed"},
               PollSettles(u, o, r)
        PROVE  SlotInv'
    <2>1. \A b \in BatchIds, s \in Services :
            /\ batches'[b][s].result # "none" <=> batches[b][s].result # "none"
            /\ batches'[b][s].url = batches[b][s].url
      BY <1>4 DEF PollSettles, TypeInv, TypeOK, Member
    <2>2. \A h : SlotSet(batches', h) = SlotSet(batches, h)
      BY <2>1 DEF SlotSet
    <2> QED
      BY <1>4, <2>2 DEF PollSettles, SlotInv, Exact
  <1>5. ASSUME NEW b \in BatchIds, BatchCompletes(b)
        PROVE  SlotInv'
    <2>1. phase' = phase
      BY <1>5 DEF BatchCompletes
    <2>2. ASSUME NEW h \in Hosts
          PROVE  Cardinality(SlotSet(batches', h)) <= MaxPerHost
      <3>1. /\ Cardinality(SlotSet(batches', h)) \in Nat
            /\ Cardinality(SlotSet(batches, h)) \in Nat
        BY SlotSetFinite
      <3>2. /\ Cardinality(SlotSet(batches', h)) <= Cardinality(SlotSet(batches, h))
            /\ Cardinality(SlotSet(batches, h)) <= MaxPerHost
        BY <1>5, BatchCompletesSlots DEF SlotInv
      <3> QED
        BY <3>1, <3>2, PollingConstants
    <2>3. phase # "cleared" => Exact(activeCounts', batches')
      BY <1>1, <1>5, BatchCompletesSlots
    <2> QED
      BY <2>1, <2>2, <2>3 DEF SlotInv, Exact
  <1>6. ASSUME NEW m \in ManualIds, NEW s \in Services, ManualStart(m, s)
        PROVE  SlotInv'
    BY <1>6, SlotsKept DEF ManualStart
  <1>7. ASSUME NEW m \in ManualIds, NEW r \in {"ok", "failed"},
               ManualSettles(m, r)
        PROVE  SlotInv'
    BY <1>7, SlotsKept DEF ManualSettles
  <1>8. ASSUME NEW v, NEW l, NEW s, NEW r, StartService(v, l, s, r), phase' = phase
        PROVE  SlotInv'
    <2>1. \/ UNCHANGED <<activeCounts, batches>>
          \/ Exact(activeCounts', batches')
      BY <1>1, <1>8, StartServiceSlots
    <2> QED
      BY <1>8, <2>1, SlotsKept, SlotsExact
  <1>9. ASSUME Edit, phase' = phase
        PROVE  SlotInv'
    <2>1. ASSUME NEW q \in Services, NEW row \in Rows, CreateService(q, row)
          PROVE  SlotInv'
      BY <1>8, <1>9, <2>1 DEF CreateService
    <2>2. ASSUME NEW q \in Services, NEW row \in Rows, UpdateService(q, row)
          PROVE  SlotInv'
      <3>1. CASE RestartService(q, db')
        BY <1>8, <1>9, <3>1 DEF RestartService
      <3>2. CASE StopService(q)
        BY <1>9, <3>2, SlotsKept DEF StopService
      <3> QED
        BY <2>2, <3>1, <3>2 DEF UpdateService
    <2>3. ASSUME NEW q \in Services, NEW row \in Rows, ManifestUpdates(q, row)
          PROVE  SlotInv'
      <3>1. CASE RestartService(q, db')
        BY <1>8, <1>9, <3>1 DEF RestartService
      <3>2. CASE NoPollingChange
        BY <1>9, <3>2, SlotsKept DEF NoPollingChange
      <3> QED
        BY <2>3, <3>1, <3>2 DEF ManifestUpdates
    <2>4. ASSUME NEW q \in Services, DeleteService(q)
          PROVE  SlotInv'
      BY <1>9, <2>4, SlotsKept DEF DeleteService, StopService
    <2>5. ASSUME NEW q \in Services, ManifestDeactivates(q)
          PROVE  SlotInv'
      BY <1>9, <2>5, SlotsKept DEF ManifestDeactivates, StopService, NoPollingChange
    <2> QED
      BY <1>9, <2>1, <2>2, <2>3, <2>4, <2>5 DEF Edit
  <1>10. Edit => phase' = phase
    BY DEF Edit, CreateService, UpdateService, ManifestUpdates, DeleteService,
           ManifestDeactivates
  <1>11. CASE Boot
    <2>1. PICK v : RunPollCycle(v, db)
      BY <1>11 DEF Boot
    <2>2. phase # "cleared"
      BY <1>11 DEF Boot
    <2> QED
      BY <1>1, <2>1, <2>2, CycleSlots, SlotsExact
  <1>12. CASE Shutdown
    BY <1>12, SlotsKept DEF Shutdown
  <1>13. CASE ShutdownClears
    BY <1>13 DEF ShutdownClears, SlotInv
  <1>14. CASE Exit
    <2>1. \A h : SlotSet(batches', h) = {}
      BY <1>14 DEF Exit, SlotSet, NoMember
    <2>2. \A h \in Hosts : activeCounts'[h] = 0
      BY <1>14 DEF Exit
    <2> QED
      BY <2>1, <2>2, FS_EmptySet, PollingConstants, SlotsExact DEF Exact
  <1>15. CASE UNCHANGED vars
    BY <1>15, SlotsKept DEF vars
  <1> QED
    BY <1>2, <1>3, <1>4, <1>5, <1>6, <1>7, <1>9, <1>10, <1>11, <1>12, <1>13,
       <1>14, <1>15
       DEF Next, Loop, Manual, Process

LEMMA SlotInvInit == Init => SlotInv
  <1> SUFFICES ASSUME Init
               PROVE  SlotInv
    OBVIOUS
  <1>1. \A h : SlotSet(batches, h) = {}
    BY DEF Init, SlotSet, NoMember
  <1>2. \A h \in Hosts : activeCounts[h] = 0
    BY DEF Init
  <1> QED
    BY <1>1, <1>2, FS_EmptySet, PollingConstants DEF SlotInv, Exact

\* The host limiter's counts are exact and no host is over its limit, for
\* every number of services, batches and hosts and any interleaving of edits,
\* restarts, removals and completions.
THEOREM HostSlotsAlwaysExact == Spec => []HostSlotsExact
  <1>1. Spec => []SlotInv
    BY TypeInvariant, SlotInvInit, SlotInvStep, PTL DEF Spec
  <1>2. SlotInv => HostSlotsExact
    BY SlotsAreSlotSet DEF SlotInv, Exact, HostSlotsExact
  <1> QED
    BY <1>1, <1>2, PTL

----------------------------------------------------------------------------
(* The locks. *)

\* Somebody will release the lock of s.
Owned(s) == \/ \E b \in BatchIds : In(b, s)
            \/ \E m \in ManualIds : manual[m].svc = s /\ manual[m].hadState

\* The service states v lock only services that are owned.
LocksOwned(v) == \A s \in Services : v[s].isPolling => Owned(s)

\* An owner stays one while the batches only gain members.
LEMMA OwnersKept ==
    ASSUME \A b \in BatchIds, s \in Services : In(b, s) => In(b, s)',
           UNCHANGED manual
    PROVE  \A s \in Services : Owned(s) => Owned(s)'
  BY DEF Owned

\* A cycle locks exactly the services of the batch it launches.
LEMMA CycleLocks ==
    ASSUME TypeInv, NEW v, SvcsOK(v), NEW r \in [Services -> StoredRow],
           LocksOwned(v), RunPollCycle(v, r), UNCHANGED manual
    PROVE  LockHasOwner'
  <1> DEFINE w == Surveyed(v, r)
  <1>1. SvcsOK(w) /\ \A s \in Services : w[s].isPolling = v[s].isPolling
    BY SurveyedOK
  <1>2. PICK E \in Eligible(w, ToPoll(w)) :
            IF E = {} THEN svc' = w /\ UNCHANGED <<activeCounts, inflight, batches>>
                      ELSE LaunchBatch(w, E)
    BY DEF RunPollCycle
  <1> HIDE DEF w
  <1>3. CASE E = {}
    <2>1. UNCHANGED <<batches, manual>> /\ svc' = w
      BY <1>2, <1>3
    <2> QED
      BY <1>1, <2>1 DEF LocksOwned, Owned, LockHasOwner, In
  <1>4. CASE E # {}
    <2>1. PICK id \in BatchIds, o \in Pollers(w, E) :
            /\ Idle(id)
            /\ svc' = [s \in Services |-> [w[s] EXCEPT !.isPolling = @ \/ s \in E]]
            /\ batches' = [batches EXCEPT ![id] = [s \in Services |->
                    IF s \in E
                    THEN [url |-> w[s].url, poller |-> o[w[s].url],
                          result |-> "pending"]
                    ELSE @[s]]]
      BY <1>2, <1>4 DEF LaunchBatch
    <2>2. \A b \in BatchIds, s \in Services : In(b, s) => In(b, s)'
      BY <2>1 DEF Idle, In, TypeInv, TypeOK
    <2>3. \A s \in Services : s \in E => In(id, s)'
      BY <2>1 DEF In, TypeInv, TypeOK
    <2>4. \A s \in Services : svc'[s].isPolling => w[s].isPolling \/ s \in E
      BY <1>1, <2>1 DEF SvcsOK, PollingState
    <2>5. \A s \in Services : Owned(s) => Owned(s)'
      BY <2>2, OwnersKept
    <2>6. \A s \in Services : s \in E => Owned(s)'
      BY <2>3 DEF Owned
    <2>7. \A s \in Services : svc'[s].isPolling => Owned(s)'
      BY <1>1, <2>4, <2>5, <2>6 DEF LocksOwned
    <2> QED
      BY <2>7 DEF LockHasOwner, Owned
  <1> QED
    BY <1>3, <1>4

\* The locks are in order after a step that leaves the batches and the manual
\* polls alone and takes no lock.
LEMMA NoLockTaken ==
    ASSUME LocksOwned(svc'), UNCHANGED <<batches, manual>>
    PROVE  LockHasOwner'
  BY DEF LocksOwned, Owned, LockHasOwner, In

\* A service that is started is unlocked.
LEMMA StartServiceLocks ==
    ASSUME TypeInv, NEW v, SvcsOK(v), LocksOwned(v), NEW l, NEW s \in Services,
           NEW r \in [Services -> StoredRow], StartService(v, l, s, r),
           UNCHANGED manual
    PROVE  LockHasOwner'
  <1> DEFINE starts == phase = "up" /\ ~v[s].tracked /\ Pollable(r[s])
             w == [v EXCEPT ![s] = IF starts THEN Added(@, r[s]) ELSE @]
  <1>1. starts => r[s] \in Row
    BY DEF Pollable, StoredRow, Absent, Deleted
  <1>2. starts => SvcOK(Added(v[s], r[s])) /\ ~Added(v[s], r[s]).isPolling
    BY <1>1, AddedOK DEF SvcsOK
  <1>3. SvcsOK(w) /\ LocksOwned(w)
    <2> HIDE DEF starts
    <2> QED
      BY <1>2 DEF SvcsOK, SvcOK, LocksOwned
  <1>4. CASE starts /\ ~l
    <2>1. RunPollCycle(w, r)
      BY <1>4 DEF StartService
    <2> HIDE DEF w
    <2> QED
      BY <1>3, <2>1, CycleLocks
  <1>5. CASE ~(starts /\ ~l)
    <2>1. svc' = w /\ UNCHANGED <<batches, manual>>
      BY <1>5 DEF StartService
    <2> HIDE DEF w
    <2> QED
      BY <1>3, <2>1, NoLockTaken
  <1> QED
    BY <1>4, <1>5

\* A stopped service is forgotten with its lock.
LEMMA StoppedLocks ==
    ASSUME TypeInv, LocksOwned(svc), NEW s \in Services
    PROVE  LocksOwned(Stopped(s))
  BY UntrackedOK DEF LocksOwned, Stopped, TypeInv, TypeOK

\* A finished batch releases the locks of its members.
LEMMA BatchCompletesLocks ==
    ASSUME TypeInv, LocksOwned(svc), NEW b \in BatchIds, BatchCompletes(b)
    PROVE  LockHasOwner'
  <1> DEFINE done == {s \in Services : In(b, s) /\ svc[s].tracked}
             times == Renumbered([s \in Services |->
                        IF s \in done THEN Cardinality(Services) + 1
                                      ELSE svc[s].lastPolled])
             after(s) == IF s \in done THEN Processed(svc[s], batches[b][s].result)
                                       ELSE svc[s]
  <1>1. /\ svc' = [s \in Services |-> [after(s) EXCEPT !.lastPolled = times[s]]]
        /\ batches' = [batches EXCEPT ![b] = [s \in Services |-> NoMember]]
        /\ UNCHANGED manual
    BY DEF BatchCompletes
  <1>2. \A s \in Services : SvcOK(svc[s]) /\ SvcOK(after(s))
    BY ProcessedOK DEF TypeInv, SvcsOK
  <1>3. \A s \in Services : svc'[s].isPolling = after(s).isPolling
    <2> HIDE DEF after, times
    <2> QED
      BY <1>1, <1>2 DEF SvcOK, PollingState
  <1>4. ASSUME NEW s \in Services, svc'[s].isPolling
        PROVE  svc[s].isPolling /\ ~In(b, s)
    <2>1. CASE s \in done
      BY <1>2, <1>3, <1>4, <2>1, ProcessedOK
    <2>2. CASE s \notin done
      BY <1>2, <1>3, <1>4, <2>2 DEF SvcOK
    <2> QED
      BY <2>1, <2>2
  <1>5. \A c \in BatchIds, s \in Services : In(c, s) /\ c # b => In(c, s)'
    BY <1>1 DEF In, TypeInv, TypeOK
  <1>6. ASSUME NEW s \in Services, svc'[s].isPolling
        PROVE  Owned(s)'
    BY <1>1, <1>4, <1>5, <1>6 DEF LocksOwned, Owned
  <1> QED
    BY <1>6 DEF LockHasOwner, Owned

LEMMA LockInvStep == TypeInv /\ LockHasOwner /\ [Next]_vars => LockHasOwner'
  <1> SUFFICES ASSUME TypeInv, LockHasOwner, [Next]_vars
               PROVE  LockHasOwner'
    OBVIOUS
  <1>1. LocksOwned(svc) /\ SvcsOK(svc) /\ db \in [Services -> StoredRow]
    BY DEF LocksOwned, Owned, LockHasOwner, TypeInv, TypeOK
  <1>2. CASE Tick
    <2> DEFINE v == [s \in Services |-> Elapsed(svc[s])]
    <2>1. SvcsOK(v) /\ LocksOwned(v)
      BY <1>1, ElapsedOK DEF SvcsOK, SvcOK, LocksOwned
    <2>2. RunPollCycle(v, db) /\ UNCHANGED manual
      BY <1>2 DEF Tick
    <2> HIDE DEF v
    <2> QED
      BY <1>1, <2>1, <2>2, CycleLocks
  <1>3. CASE TickSyncFails
    <2>1. LocksOwned(svc')
      BY <1>1, <1>3, ElapsedOK DEF TickSyncFails, SvcsOK, LocksOwned
    <2> QED
      BY <1>3, <2>1, NoLockTaken DEF TickSyncFails
  <1>4. ASSUME NEW u \in Urls, NEW o \in Services, NEW r \in {"ok", "failed"},
               PollSettles(u, o, r)
        PROVE  LockHasOwner'
    <2>1. \A b \in BatchIds, s \in Services : In(b, s) => In(b, s)'
      BY <1>4 DEF PollSettles, In, TypeInv, TypeOK, Member
    <2>2. UNCHANGED <<svc, manual>>
      BY <1>4 DEF PollSettles
    <2>3. \A s \in Services : Owned(s) => Owned(s)'
      BY <2>1, <2>2, OwnersKept
    <2>4. \A s \in Services : svc'[s].isPolling => Owned(s)'
      BY <1>1, <2>2, <2>3 DEF LocksOwned
    <2> QED
      BY <2>4 DEF LockHasOwner, Owned
  <1>5. ASSUME NEW b \in BatchIds, BatchCompletes(b)
        PROVE  LockHasOwner'
    BY <1>1, <1>5, BatchCompletesLocks
  <1>6. ASSUME NEW m \in ManualIds, NEW s \in Services, ManualStart(m, s)
        PROVE  LockHasOwner'
    <2>1. /\ manual[m] = NoManual /\ UNCHANGED batches
          /\ manual' = [manual EXCEPT ![m] = [svc |-> s, hadState |-> svc[s].tracked]]
          /\ svc' = [svc EXCEPT ![s].isPolling = svc[s].tracked]
      BY <1>6 DEF ManualStart
    <2>2. ASSUME NEW q \in Services, svc'[q].isPolling
          PROVE  Owned(q)'
      <3>1. CASE q = s
        <4>1. manual'[m].svc = q /\ manual'[m].hadState
          BY <1>1, <2>1, <2>2, <3>1 DEF SvcsOK, PollingState, TypeInv, TypeOK
        <4> QED
          BY <4>1 DEF Owned
      <3>2. CASE q # s
        <4>1. Owned(q)
          BY <1>1, <2>1, <2>2, <3>2 DEF SvcsOK, LocksOwned
        <4>2. \A n \in ManualIds : manual[n].hadState => manual'[n] = manual[n]
          BY <2>1 DEF NoManual, TypeInv, TypeOK
        <4> QED
          BY <2>1, <4>1, <4>2 DEF Owned, In
      <3> QED
        BY <3>1, <3>2
    <2> QED
      BY <2>2 DEF LockHasOwner, Owned
  <1>7. ASSUME NEW m \in ManualIds, NEW r \in {"ok", "failed"},
               ManualSettles(m, r)
        PROVE  LockHasOwner'
    <2> DEFINE s == manual[m].svc
               y == IF DbOpen
                    THEN [(IF r = "ok" THEN RecordSuccess(svc[s])
                                       ELSE RecordFailure(svc[s])) EXCEPT !.ttl = 0]
                    ELSE svc[s]
    <2>1. s \in Services
      BY <1>7 DEF ManualSettles, TypeInv, ManualsOK
    <2>2. y \in PollingState /\ y.isPolling = svc[s].isPolling
      <3>1. \A x \in PollingState : /\ [x EXCEPT !.ttl = 0] \in PollingState
                                    /\ [x EXCEPT !.ttl = 0].isPolling = x.isPolling
        BY DEF PollingState
      <3>2. SvcOK(svc[s])
        BY <1>1, <2>1 DEF SvcsOK
      <3> QED
        BY <3>1, <3>2, RecordSuccessOK, RecordFailureOK DEF SvcOK
    <2>3. /\ svc' = [svc EXCEPT ![s] =
                        [y EXCEPT !.isPolling = @ /\ ~manual[m].hadState]]
          /\ manual' = [manual EXCEPT ![m] = NoManual] /\ UNCHANGED batches
      BY <1>7 DEF ManualSettles
    <2> HIDE DEF y
    <2>4. ASSUME NEW q \in Services, svc'[q].isPolling
          PROVE  Owned(q) /\ (q = s => ~manual[m].hadState)
      <3>1. CASE q = s
        BY <1>1, <2>1, <2>2, <2>3, <2>4, <3>1 DEF SvcsOK, PollingState, LocksOwned
      <3>2. CASE q # s
        BY <1>1, <2>1, <2>3, <2>4, <3>2 DEF SvcsOK, LocksOwned
      <3> QED
        BY <3>1, <3>2
    <2>5. ASSUME NEW q \in Services, svc'[q].isPolling
          PROVE  Owned(q)'
      <3>1. \A n \in ManualIds \ {m} : manual'[n] = manual[n]
        BY <2>3 DEF TypeInv, TypeOK
      <3> QED
        BY <2>3, <2>4, <2>5, <3>1 DEF Owned, In
    <2> QED
      BY <2>5 DEF LockHasOwner, Owned
  <1>8. ASSUME NEW s \in Services, NEW r \in [Services -> StoredRow],
               RestartService(s, r), UNCHANGED manual
        PROVE  LockHasOwner'
    BY <1>1, <1>8, StoppedOK, StoppedLocks, StartServiceLocks DEF RestartService
  <1>9. ASSUME NEW s \in Services, StopService(s), UNCHANGED manual
        PROVE  LockHasOwner'
    BY <1>1, <1>9, StoppedLocks, NoLockTaken DEF StopService
  <1>10. ASSUME NoPollingChange, UNCHANGED manual
         PROVE  LockHasOwner'
    BY <1>1, <1>10, NoLockTaken DEF NoPollingChange
  <1>11. TypeOK'
    BY TypeInvStep DEF TypeInv
  <1>12. CASE Edit
    <2>1. db' \in [Services -> StoredRow] /\ UNCHANGED manual
      BY <1>11, <1>12 DEF TypeOK, Edit, CreateService, UpdateService,
            ManifestUpdates, DeleteService, ManifestDeactivates
    <2>2. ASSUME NEW s \in Services, NEW row \in Rows, CreateService(s, row)
          PROVE  LockHasOwner'
      BY <1>1, <2>1, <2>2, StartServiceLocks DEF CreateService
    <2>3. ASSUME NEW s \in Services, NEW row \in Rows, UpdateService(s, row)
          PROVE  LockHasOwner'
      BY <1>8, <1>9, <2>1, <2>3 DEF UpdateService
    <2>4. ASSUME NEW s \in Services, NEW row \in Rows, ManifestUpdates(s, row)
          PROVE  LockHasOwner'
      BY <1>8, <1>10, <2>1, <2>4 DEF ManifestUpdates
    <2>5. ASSUME NEW s \in Services, DeleteService(s)
          PROVE  LockHasOwner'
      BY <1>9, <2>1, <2>5 DEF DeleteService
    <2>6. ASSUME NEW s \in Services, ManifestDeactivates(s)
          PROVE  LockHasOwner'
      BY <1>9, <1>10, <2>1, <2>6 DEF ManifestDeactivates
    <2> QED
      BY <1>12, <2>2, <2>3, <2>4, <2>5, <2>6 DEF Edit
  <1>13. CASE Boot
    <2> DEFINE v == [s \in Services |->
                        IF Pollable(db[s]) THEN Added(svc[s], db[s]) ELSE svc[s]]
    <2>1. \A s \in Services : Pollable(db[s]) => db[s] \in Row
      BY <1>1 DEF Pollable, StoredRow, Absent, Deleted
    <2>2. SvcsOK(v) /\ LocksOwned(v)
      BY <1>1, <2>1, AddedOK DEF SvcsOK, SvcOK, LocksOwned
    <2>3. RunPollCycle(v, db) /\ UNCHANGED manual
      BY <1>13 DEF Boot
    <2> HIDE DEF v
    <2> QED
      BY <1>1, <2>2, <2>3, CycleLocks
  <1>14. CASE Shutdown
    BY <1>1, <1>14, NoLockTaken DEF Shutdown
  <1>15. CASE ShutdownClears
    BY <1>15, UntrackedOK DEF ShutdownClears, LockHasOwner
  <1>16. CASE Exit
    BY <1>16, UntrackedOK DEF Exit, LockHasOwner
  <1>17. CASE UNCHANGED vars
    BY <1>1, <1>17, NoLockTaken DEF vars
  <1> QED
    BY <1>2, <1>3, <1>4, <1>5, <1>6, <1>7, <1>12, <1>13, <1>14, <1>15, <1>16, <1>17
       DEF Next, Loop, Manual, Process

\* A locked service always has a batch or a manual poll that will unlock it,
\* although restarts replace its state and late batches unlock it early.
THEOREM LocksAlwaysOwned == Spec => []LockHasOwner
  <1>1. Init => LockHasOwner
    BY UntrackedOK DEF Init, LockHasOwner
  <1> QED
    BY <1>1, TypeInvariant, LockInvStep, PTL DEF Spec

----------------------------------------------------------------------------
(* When the loop runs and when it polls. *)

\* A service becomes a member of a batch in this step.
NewMember == \E s \in Services : LoopPolls(s)

\* Only a cycle begins polls, and a cycle runs only while the process is up.
LEMMA PollsBeginUp == TypeInv /\ [Next]_vars /\ NewMember => phase' = "up"
  <1> SUFFICES ASSUME TypeInv, [Next]_vars, NEW s \in Services, LoopPolls(s)
               PROVE  phase' = "up"
    BY DEF NewMember
  <1>1. PICK b \in BatchIds : ~In(b, s) /\ In(b, s)'
    BY DEF LoopPolls
  <1>2. ~UNCHANGED batches
    BY <1>1 DEF In
  <1>3. CASE Tick
    BY <1>3 DEF Tick, TypeInv
  <1>4. CASE TickSyncFails
    BY <1>2, <1>4 DEF TickSyncFails
  <1>5. ASSUME NEW u \in Urls, NEW o \in Services, NEW r \in {"ok", "failed"},
               PollSettles(u, o, r)
        PROVE  FALSE
    BY <1>1, <1>5 DEF PollSettles, In, TypeInv, TypeOK, Member
  <1>6. ASSUME NEW c \in BatchIds, BatchCompletes(c)
        PROVE  FALSE
    BY <1>1, <1>6 DEF BatchCompletes, In, NoMember, TypeInv, TypeOK
  <1>7. CASE Manual
    BY <1>2, <1>7 DEF Manual, ManualStart, ManualSettles
  <1>8. ASSUME NEW v, NEW l, NEW q, NEW r, StartService(v, l, q, r)
        PROVE  phase = "up"
    BY <1>2, <1>8 DEF StartService
  <1>9. CASE Edit
    BY <1>2, <1>8, <1>9 DEF Edit, CreateService, UpdateService, ManifestUpdates,
          DeleteService, ManifestDeactivates, RestartService, StopService,
          NoPollingChange
  <1>10. CASE Boot
    BY <1>10 DEF Boot
  <1>11. CASE Shutdown
    BY <1>2, <1>11 DEF Shutdown
  <1>12. CASE ShutdownClears
    BY <1>2, <1>12 DEF ShutdownClears
  <1>13. CASE Exit
    BY <1>1, <1>13 DEF Exit, In, NoMember
  <1>14. CASE UNCHANGED vars
    BY <1>2, <1>14 DEF vars
  <1> QED
    BY <1>3, <1>4, <1>5, <1>6, <1>7, <1>9, <1>10, <1>11, <1>12, <1>13, <1>14
       DEF Next, Loop, Process

\* Requests that start, restart or stop services while the process shuts down
\* never make the loop poll again.
THEOREM NoPollsAfterShutdown == Spec => NoPollAfterShutdown
  <1>1. TypeInv /\ [Next]_vars =>
            [\A s \in Services : LoopPolls(s) => phase' = "up"]_vars
    BY PollsBeginUp DEF NewMember
  <1> QED
    BY <1>1, TypeInvariant, PTL DEF Spec, NoPollAfterShutdown

\* A service that is started sets the timer; otherwise the timer is off only
\* if it was.
LEMMA StartServiceLoop ==
    ASSUME NEW v, NEW l \in BOOLEAN, NEW s \in Services, NEW r,
           StartService(v, l, s, r), ~loopTimer',
           v = [q \in Services |-> v[q]]
    PROVE  ~l /\ svc' = v
  <1> DEFINE starts == phase = "up" /\ ~v[s].tracked /\ Pollable(r[s])
  <1>1. ~l /\ ~starts
    BY DEF StartService
  <1>2. svc' = [v EXCEPT ![s] = IF starts THEN Added(@, r[s]) ELSE @]
    BY <1>1 DEF StartService
  <1> QED
    BY <1>1, <1>2

\* The timer is off after a stop only if nothing is tracked any more.
LEMMA StoppedLoop ==
    ASSUME TypeInv, NEW s \in Services, loopTimer, ~LoopAfterStop(s)
    PROVE  /\ \A q \in Services : ~Stopped(s)[q].tracked
           /\ Stopped(s) = [q \in Services |-> Stopped(s)[q]]
  BY DEF LoopAfterStop, Stopped, Untracked, TypeInv, TypeOK

\* No edit of one service stops the polling of the others.
THEOREM LoopAlwaysRuns == Spec => LoopStopsOnlyIdle
  <1> DEFINE reason == \/ \A s \in Services : ~svc'[s].tracked
                       \/ phase' # "up"
                       \/ TickSyncFails
  <1>1. ASSUME TypeInv, [Next]_vars, loopTimer, ~loopTimer'
        PROVE  reason
    <2>1. ASSUME NEW s \in Services, NEW r, RestartService(s, r)
          PROVE  reason
      <3>1. LoopAfterStop(s) \in BOOLEAN
                /\ Stopped(s) = [q \in Services |-> Stopped(s)[q]]
        BY <1>1 DEF LoopAfterStop, Stopped, TypeInv, TypeOK
      <3>2. ~LoopAfterStop(s) /\ svc' = Stopped(s)
        BY <1>1, <2>1, <3>1, StartServiceLoop DEF RestartService
      <3> QED
        BY <1>1, <3>2, StoppedLoop
    <2>2. ASSUME NEW s \in Services, StopService(s)
          PROVE  reason
      BY <1>1, <2>2, StoppedLoop DEF StopService
    <2>3. CASE Loop
      BY <1>1, <2>3 DEF Loop, Tick, PollSettles, BatchCompletes
    <2>4. CASE Manual
      BY <1>1, <2>4 DEF Manual, ManualStart, ManualSettles
    <2>5. CASE Edit
      <3>1. ASSUME NEW s \in Services, NEW row \in Rows, CreateService(s, row)
            PROVE  reason
        BY <1>1, <3>1, StartServiceLoop DEF CreateService, TypeInv, TypeOK
      <3> QED
        BY <1>1, <2>1, <2>2, <2>5, <3>1 DEF Edit, UpdateService, ManifestUpdates,
              DeleteService, ManifestDeactivates, NoPollingChange
    <2>6. CASE Process
      BY <1>1, <2>6 DEF Process, Boot, Shutdown, ShutdownClears, Exit, TypeInv
    <2> QED
      BY <1>1, <2>3, <2>4, <2>5, <2>6 DEF Next, vars
  <1>2. TypeInv /\ [Next]_vars => [loopTimer /\ ~loopTimer' => reason]_vars
    BY <1>1
  <1> QED
    BY <1>2, TypeInvariant, PTL DEF Spec, LoopStopsOnlyIdle

----------------------------------------------------------------------------
(* What the loop polls.  PullIn: whoever is tracked has a row in r and is  *)
(* pull-based; only a manifest that changes the format could break it.         *)

PullIn(v, r) == \A s \in Services :
    v[s].tracked => r[s].fmt # "otlp" /\ r[s].status # "absent"

PullInv == PullIn(svc, db) /\ (phase = "off" => \A s \in Services : ~svc[s].tracked)

\* Time, results and breakers do not decide what is tracked.
LEMMA TrackedKept ==
    ASSUME NEW x, SvcOK(x), NEW result
    PROVE  /\ Elapsed(x).tracked = x.tracked
           /\ Asked(x).tracked = x.tracked /\ Asked(x).url = x.url
           /\ Processed(x, result).tracked = x.tracked
  <1>1. /\ Elapsed(x).tracked = x.tracked
        /\ Asked(x).tracked = x.tracked /\ Asked(x).url = x.url
    BY DEF SvcOK, PollingState, Elapsed, Asked
  <1>2. Processed(x, result).tracked = x.tracked
    BY DEF SvcOK, PollingState, Processed, RecordSuccess, RecordFailure
  <1> QED
    BY <1>1, <1>2

\* What a tracked, unlocked service looks like after syncServices.
LEMMA SurveyedRows ==
    ASSUME NEW v, SvcsOK(v), NEW r \in [Services -> StoredRow], PullIn(v, r),
           NEW s \in Services, Surveyed(v, r)[s].tracked
    PROVE  /\ r[s].fmt # "otlp" /\ r[s].status # "absent"
           /\ ~v[s].isPolling =>
                r[s].status = "active" /\ Surveyed(v, r)[s].url = r[s].url
  <1> DEFINE y == Synced(v[s], r[s])
  <1>1. SvcOK(v[s]) /\ SvcOK(y) /\ Surveyed(v, r)[s] = Asked(y)
    BY SyncedOK DEF SvcsOK, Surveyed
  <1>2. y.tracked /\ Surveyed(v, r)[s].url = y.url
    <2> HIDE DEF y
    <2> QED
      BY <1>1, TrackedKept
  <1>3. CASE r[s].status # "active"
    <2>1. v[s].tracked /\ v[s].isPolling
      BY <1>1, <1>2, <1>3 DEF Synced, Untracked, SvcOK
    <2> QED
      BY <2>1 DEF PullIn
  <1>4. CASE r[s].status = "active" /\ ~v[s].tracked
    BY <1>1, <1>2, <1>4 DEF Synced, Added, Pollable, SvcOK, PollingState
  <1>5. CASE r[s].status = "active" /\ v[s].tracked
    <2>1. y.url = r[s].url
      BY <1>1, <1>5 DEF Synced, SvcOK, PollingState
    <2> QED
      BY <1>2, <1>5, <2>1 DEF PullIn
  <1> QED
    BY <1>3, <1>4, <1>5

\* A cycle keeps PullIn, and what it begins to poll is active, pull-based and
\* polled at the endpoint of its row.
LEMMA CycleFollows ==
    ASSUME TypeInv, NEW v, SvcsOK(v), NEW r \in [Services -> StoredRow],
           PullIn(v, r), RunPollCycle(v, r)
    PROVE  /\ PullIn(svc', r)
           /\ \A s \in Services : LoopPolls(s) =>
                /\ r[s].status = "active" /\ r[s].fmt # "otlp"
                /\ \E b \in BatchIds : ~In(b, s) /\ batches'[b][s].url = r[s].url
  <1> DEFINE w == Surveyed(v, r)
  <1>1. SvcsOK(w) /\ \A s \in Services : w[s].isPolling = v[s].isPolling
    BY SurveyedOK
  <1>2. PullIn(w, r)
    BY SurveyedRows DEF PullIn
  <1>3. \A s \in ToPoll(w) :
            r[s].status = "active" /\ r[s].fmt # "otlp" /\ w[s].url = r[s].url
    <2>1. SUFFICES ASSUME NEW s \in ToPoll(w)
                   PROVE  r[s].status = "active" /\ r[s].fmt # "otlp"
                                                 /\ w[s].url = r[s].url
      OBVIOUS
    <2>2. s \in Services /\ w[s].tracked /\ ~w[s].isPolling
      BY DEF ToPoll, Due
    <2> QED
      BY <1>1, <2>2, SurveyedRows
  <1>4. PICK E \in Eligible(w, ToPoll(w)) :
            IF E = {} THEN svc' = w /\ UNCHANGED <<activeCounts, inflight, batches>>
                      ELSE LaunchBatch(w, E)
    BY DEF RunPollCycle
  <1>5. E \subseteq ToPoll(w)
    BY DEF Eligible
  <1> HIDE DEF w
  <1>6. CASE E = {}
    BY <1>2, <1>4, <1>6 DEF PullIn, LoopPolls, In
  <1>7. CASE E # {}
    <2>1. PICK id \in BatchIds, o \in Pollers(w, E) :
            /\ Idle(id)
            /\ svc' = [s \in Services |-> [w[s] EXCEPT !.isPolling = @ \/ s \in E]]
            /\ batches' = [batches EXCEPT ![id] = [s \in Services |->
                    IF s \in E
                    THEN [url |-> w[s].url, poller |-> o[w[s].url],
                          result |-> "pending"]
                    ELSE @[s]]]
      BY <1>4, <1>7 DEF LaunchBatch
    <2>2. \A s \in Services : svc'[s].tracked = w[s].tracked
      BY <1>1, <2>1 DEF SvcsOK, PollingState
    <2>3. ASSUME NEW s \in Services, LoopPolls(s)
          PROVE  s \in E /\ ~In(id, s) /\ batches'[id][s].url = w[s].url
      BY <2>1, <2>3 DEF LoopPolls, In, Idle, TypeInv, TypeOK
    <2> QED
      BY <1>2, <1>3, <1>5, <2>2, <2>3 DEF PullIn
  <1> QED
    BY <1>6, <1>7

\* The same of a service that is started or restarted.
LEMMA StartServiceFollows ==
    ASSUME TypeInv, NEW v, SvcsOK(v), NEW l, NEW s \in Services,
           NEW r \in [Services -> StoredRow], PullIn(v, r), StartService(v, l, s, r)
    PROVE  /\ PullIn(svc', r)
           /\ \A q \in Services : LoopPolls(q) =>
                /\ r[q].status = "active" /\ r[q].fmt # "otlp"
                /\ \E b \in BatchIds : ~In(b, q) /\ batches'[b][q].url = r[q].url
  <1> DEFINE starts == phase = "up" /\ ~v[s].tracked /\ Pollable(r[s])
             w == [v EXCEPT ![s] = IF starts THEN Added(@, r[s]) ELSE @]
  <1>1. starts => r[s] \in Row
    BY DEF Pollable, StoredRow, Absent, Deleted
  <1>2. starts => /\ SvcOK(Added(v[s], r[s]))
                  /\ r[s].fmt # "otlp" /\ r[s].status # "absent"
    BY <1>1, AddedOK DEF SvcsOK, Pollable
  <1>3. SvcsOK(w) /\ PullIn(w, r)
    <2> HIDE DEF starts
    <2> QED
      BY <1>2 DEF SvcsOK, SvcOK, PullIn
  <1>4. CASE starts /\ ~l
    <2>1. RunPollCycle(w, r)
      BY <1>4 DEF StartService
    <2> HIDE DEF w
    <2> QED
      BY <1>3, <2>1, CycleFollows
  <1>5. CASE ~(starts /\ ~l)
    <2>1. svc' = w /\ UNCHANGED batches
      BY <1>5 DEF StartService
    <2> HIDE DEF w
    <2> QED
      BY <1>3, <2>1 DEF LoopPolls, In
  <1> QED
    BY <1>4, <1>5

\* What every step does.
Follows == \A s \in Services : LoopPolls(s) =>
    /\ db'[s].status = "active" /\ db'[s].fmt # "otlp"
    /\ \E b \in BatchIds : ~In(b, s) /\ batches'[b][s].url = db'[s].url

LEMMA FollowsStep ==
    ASSUME ~ManifestSetsFormat, TypeInv, PullInv, [Next]_vars
    PROVE  PullInv' /\ Follows
  <1>1. SvcsOK(svc) /\ PullIn(svc, db) /\ db \in [Services -> StoredRow]
    BY DEF TypeInv, TypeOK, PullInv
  <1>2. db' \in [Services -> StoredRow]
    BY TypeInvStep DEF TypeInv, TypeOK
  <1>3. CASE Tick
    <2> DEFINE v == [s \in Services |-> Elapsed(svc[s])]
    <2>1. SvcsOK(v) /\ PullIn(v, db)
      BY <1>1, ElapsedOK, TrackedKept DEF SvcsOK, SvcOK, PullIn
    <2>2. RunPollCycle(v, db) /\ phase' # "off" /\ UNCHANGED db
      BY <1>3 DEF Tick, TypeInv
    <2> HIDE DEF v
    <2> QED
      BY <1>1, <2>1, <2>2, CycleFollows DEF PullInv, Follows
  <1>4. CASE TickSyncFails
    <2>1. \A s \in Services : svc'[s].tracked = svc[s].tracked
      BY <1>1, <1>4, TrackedKept DEF TickSyncFails, SvcsOK
    <2> QED
      BY <1>4, <2>1 DEF TickSyncFails, PullInv, PullIn, Follows, LoopPolls, In
  <1>5. ASSUME NEW u \in Urls, NEW o \in Services, NEW r \in {"ok", "failed"},
               PollSettles(u, o, r)
        PROVE  PullInv' /\ Follows
    <2>1. UNCHANGED <<svc, db, phase>>
      BY <1>5 DEF PollSettles
    <2>2. \A s \in Services : ~LoopPolls(s)
      BY <1>5 DEF PollSettles, LoopPolls, In, TypeInv, TypeOK, Member
    <2> QED
      BY <2>1, <2>2 DEF PullInv, PullIn, Follows
  <1>6. ASSUME NEW b \in BatchIds, BatchCompletes(b)
        PROVE  PullInv' /\ Follows
    <2> DEFINE done == {s \in Services : In(b, s) /\ svc[s].tracked}
               times == Renumbered([s \in Services |->
                          IF s \in done THEN Cardinality(Services) + 1
                                        ELSE svc[s].lastPolled])
               after(s) == IF s \in done THEN Processed(svc[s], batches[b][s].result)
                                         ELSE svc[s]
    <2>1. /\ svc' = [s \in Services |-> [after(s) EXCEPT !.lastPolled = times[s]]]
          /\ batches' = [batches EXCEPT ![b] = [s \in Services |-> NoMember]]
          /\ UNCHANGED <<db, phase>>
      BY <1>6 DEF BatchCompletes
    <2>2. \A s \in Services : SvcOK(after(s)) /\ after(s).tracked = svc[s].tracked
      BY <1>1, ProcessedOK, TrackedKept DEF SvcsOK
    <2>3. \A s \in Services : svc'[s].tracked = svc[s].tracked
      <3> HIDE DEF after, times
      <3> QED
        BY <2>1, <2>2 DEF SvcOK, PollingState
    <2>4. \A s \in Services : ~LoopPolls(s)
      BY <2>1 DEF LoopPolls, In, NoMember, TypeInv, TypeOK
    <2> QED
      BY <2>1, <2>3, <2>4 DEF PullInv, PullIn, Follows
  <1>7. ASSUME NEW m \in ManualIds, NEW s \in Services, ManualStart(m, s)
        PROVE  PullInv' /\ Follows
    <2>1. \A q \in Services : svc'[q].tracked = svc[q].tracked
      BY <1>1, <1>7 DEF ManualStart, SvcsOK, PollingState
    <2> QED
      BY <1>7, <2>1 DEF ManualStart, PullInv, PullIn, Follows, LoopPolls, In
  <1>8. ASSUME NEW m \in ManualIds, NEW r \in {"ok", "failed"}, ManualSettles(m, r)
        PROVE  PullInv' /\ Follows
    <2> DEFINE s == manual[m].svc
               y == IF DbOpen
                    THEN [(IF r = "ok" THEN RecordSuccess(svc[s])
                                       ELSE RecordFailure(svc[s])) EXCEPT !.ttl = 0]
                    ELSE svc[s]
    <2>1. SvcOK(svc[s])
      BY <1>1, <1>8 DEF ManualSettles, TypeInv, ManualsOK, SvcsOK
    <2>2. y \in PollingState /\ y.tracked = svc[s].tracked
      <3>1. \A x \in PollingState : /\ [x EXCEPT !.ttl = 0] \in PollingState
                                    /\ [x EXCEPT !.ttl = 0].tracked = x.tracked
        BY DEF PollingState
      <3> QED
        BY <2>1, <3>1, RecordSuccessOK, RecordFailureOK DEF SvcOK
    <2>3. /\ svc' = [svc EXCEPT ![s] =
                        [y EXCEPT !.isPolling = @ /\ ~manual[m].hadState]]
          /\ UNCHANGED <<db, batches, phase>>
      BY <1>8 DEF ManualSettles
    <2> HIDE DEF y
    <2>4. \A q \in Services : svc'[q].tracked = svc[q].tracked
      BY <1>1, <2>2, <2>3 DEF SvcsOK, PollingState
    <2> QED
      BY <2>3, <2>4 DEF PullInv, PullIn, Follows, LoopPolls, In
  <1>9. ASSUME NEW s \in Services, RestartService(s, db'), phase # "off",
               UNCHANGED phase, \A q \in Services \ {s} : db'[q] = db[q]
        PROVE  PullInv' /\ Follows
    <2>1. SvcsOK(Stopped(s)) /\ PullIn(Stopped(s), db')
      BY <1>1, <1>9, StoppedOK DEF Stopped, Untracked, PullIn, SvcsOK
    <2>2. StartService(Stopped(s), LoopAfterStop(s), s, db')
      BY <1>9 DEF RestartService
    <2>3. PullIn(svc', db') /\ Follows
      BY <1>2, <2>1, <2>2, StartServiceFollows DEF Follows
    <2> QED
      BY <1>9, <2>3 DEF PullInv, PullIn
  <1>10. ASSUME NEW s \in Services, StopService(s), phase # "off",
                UNCHANGED phase, \A q \in Services \ {s} : db'[q] = db[q]
         PROVE  PullInv' /\ Follows
    BY <1>1, <1>10 DEF StopService, Stopped, Untracked, PullInv, PullIn, Follows,
        LoopPolls, In, SvcsOK
  <1>11. CASE Edit
    <2>1. phase # "off" /\ UNCHANGED phase
      BY <1>11 DEF Edit, CreateService, UpdateService, ManifestUpdates,
            DeleteService, ManifestDeactivates, DbOpen, Exists
    <2>2. ASSUME NEW s \in Services, NoPollingChange, db'[s].fmt = db[s].fmt,
                 db'[s].status # "absent", \A q \in Services \ {s} : db'[q] = db[q]
          PROVE  PullInv' /\ Follows
      BY <2>1, <2>2 DEF NoPollingChange, PullInv, PullIn, Follows, LoopPolls, In
    <2>3. ASSUME NEW s \in Services, NEW row \in Rows, CreateService(s, row)
          PROVE  PullInv' /\ Follows
      <3>1. db[s].status = "absent" /\ \A q \in Services \ {s} : db'[q] = db[q]
        BY <2>3 DEF CreateService, Absent
      <3>2. PullIn(svc, db')
        BY <1>1, <3>1 DEF PullIn
      <3>3. StartService(svc, loopTimer, s, db')
        BY <2>3 DEF CreateService
      <3>4. PullIn(svc', db') /\ Follows
        BY <1>1, <1>2, <3>2, <3>3, StartServiceFollows DEF Follows
      <3> QED
        BY <2>1, <3>4 DEF PullInv, PullIn
    <2>4. ASSUME NEW s \in Services, NEW row \in Rows, UpdateService(s, row)
          PROVE  PullInv' /\ Follows
      <3>1. \A q \in Services \ {s} : db'[q] = db[q]
        BY <2>4 DEF UpdateService
      <3> QED
        BY <1>9, <1>10, <2>1, <2>4, <3>1 DEF UpdateService
    <2>5. ASSUME NEW s \in Services, NEW row \in Rows, ManifestUpdates(s, row)
          PROVE  PullInv' /\ Follows
      <3>1. /\ \A q \in Services \ {s} : db'[q] = db[q]
            /\ db'[s].fmt = db[s].fmt /\ db'[s].status # "absent"
        BY <1>1, <2>5 DEF ManifestUpdates, Exists
      <3> QED
        BY <1>9, <2>1, <2>2, <2>5, <3>1 DEF ManifestUpdates
    <2>6. ASSUME NEW s \in Services, DeleteService(s)
          PROVE  PullInv' /\ Follows
      <3>1. \A q \in Services \ {s} : db'[q] = db[q]
        BY <2>6 DEF DeleteService
      <3> QED
        BY <1>10, <2>1, <2>6, <3>1 DEF DeleteService
    <2>7. ASSUME NEW s \in Services, ManifestDeactivates(s)
          PROVE  PullInv' /\ Follows
      <3>1. db[s] \in Row
        BY <1>1, <2>7 DEF ManifestDeactivates, StoredRow, Absent, Deleted
      <3>2. /\ \A q \in Services \ {s} : db'[q] = db[q]
            /\ db'[s].fmt = db[s].fmt /\ db'[s].status # "absent"
        BY <1>1, <2>7, <3>1 DEF ManifestDeactivates, Row
      <3> QED
        BY <1>10, <2>1, <2>2, <2>7, <3>2 DEF ManifestDeactivates
    <2> QED
      BY <1>11, <2>3, <2>4, <2>5, <2>6, <2>7 DEF Edit
  <1>12. CASE Boot
    <2> DEFINE v == [s \in Services |->
                        IF Pollable(db[s]) THEN Added(svc[s], db[s]) ELSE svc[s]]
    <2>1. \A s \in Services : Pollable(db[s]) =>
            db[s] \in Row /\ db[s].fmt # "otlp" /\ db[s].status # "absent"
      BY <1>1 DEF Pollable, StoredRow, Absent, Deleted
    <2>2. SvcsOK(v) /\ PullIn(v, db)
      BY <1>1, <2>1, AddedOK DEF SvcsOK, SvcOK, PullIn
    <2>3. RunPollCycle(v, db) /\ phase' # "off" /\ UNCHANGED db
      BY <1>12 DEF Boot
    <2> HIDE DEF v
    <2> QED
      BY <1>1, <2>2, <2>3, CycleFollows DEF PullInv, Follows
  <1>13. CASE Shutdown
    BY <1>13 DEF Shutdown, PullInv, PullIn, Follows, LoopPolls, In
  <1>14. CASE ShutdownClears
    BY <1>14 DEF ShutdownClears, Untracked, PullInv, PullIn, Follows, LoopPolls, In
  <1>15. CASE Exit
    BY <1>15 DEF Exit, Untracked, NoMember, PullInv, PullIn, Follows, LoopPolls, In
  <1>16. CASE UNCHANGED vars
    BY <1>16 DEF vars, PullInv, PullIn, Follows, LoopPolls, In
  <1> QED
    BY <1>3, <1>4, <1>5, <1>6, <1>7, <1>8, <1>11, <1>12, <1>13, <1>14, <1>15, <1>16
       DEF Next, Loop, Manual, Process

\* As long as no manifest changes the format of a service, the loop polls what
\* the database holds at that moment, whoever forgot to tell it of a change.
THEOREM PollsAlwaysFollow ==
    ASSUME ~ManifestSetsFormat
    PROVE  Spec => PollsFollowDatabase
  <1>1. Init => PullInv
    BY DEF Init, Untracked, PullInv, PullIn
  <1>2. TypeInv /\ PullInv /\ [Next]_vars => PullInv'
    BY FollowsStep
  <1>3. TypeInv /\ PullInv /\ [Next]_vars =>
            [\A s \in Services : LoopPolls(s) =>
                /\ db'[s].status = "active" /\ db'[s].fmt # "otlp"
                /\ \E b \in BatchIds : ~In(b, s) /\ batches'[b][s].url = db'[s].url]_vars
    BY FollowsStep DEF Follows
  <1> QED
    BY <1>1, <1>2, <1>3, TypeInvariant, PTL DEF Spec, PollsFollowDatabase
=============================================================================

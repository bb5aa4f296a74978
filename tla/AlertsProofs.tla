----------------------------- MODULE AlertsProofs -----------------------------
(***************************************************************************)
(* Proofs about Alerts, for any dependencies, channels, rules, mutes and   *)
(* settings, any length of the hour and any number of alerts.              *)
(*                                                                         *)
(* AlertInv has four parts.  Shape is the types; Remembered relates what   *)
(* the team was told to what the delay remembers; Spaced relates the log   *)
(* to flap protection; Windowed relates the log to the window of the rate  *)
(* limiter: an hour meets at most two windows, so it suffices to count     *)
(* the alerts in the open window and in the hour before it began.  Each    *)
(* part is kept by the handling of an event (Process) and by every other   *)
(* action.                                                                 *)
(***************************************************************************)
EXTENDS Alerts, FiniteSetTheorems, SequenceTheorems, TLAPS

Shape == AlertTypeOK /\ rule \in Settable \cup {Off}

\* What a delay has reported is remembered until the recovery.
Remembered ==
    /\ AlertedTracked
    /\ \A d \in Deps : (down[d] # Off /\ down[d].delay # Off) => d \in alerted

\* FlapProtector knows the last alert of every key.
Spaced ==
    /\ CooldownKept
    /\ \A k \in Keys : lastAlert[k] # Off => lastAlert[k] <= now
    /\ \A i \in DOMAIN log :
          /\ lastAlert[log[i].key] # Off
          /\ log[i].at <= lastAlert[log[i].key]

\* The alerts of the log since an instant, and in less than an hour before it.
From(l, start) == {i \in DOMAIN l : l[i].at >= start}
Shortly(l, start) == {i \in DOMAIN l : l[i].at < start /\ l[i].at > start - HourLength}
InHour(l, t) == {i \in DOMAIN l : l[i].at \in t..(t + HourLength - 1)}

\* A window counts the alerts since it began, and none is later than its end.
Counted(w) ==
    /\ w \in [count : Nat, start : Instants] /\ w.start <= now
    /\ \A i \in DOMAIN log : log[i].at < w.start + HourLength
    /\ Cardinality(From(log, w.start)) <= w.count
    /\ Cardinality(From(log, w.start)) <= TopLimit
    /\ Cardinality(Shortly(log, w.start)) <= TopLimit

Windowed ==
    /\ HourlyBound
    /\ IF window = Off THEN log = <<>> ELSE Counted(window)

AlertInv == Shape /\ Remembered /\ Spaced /\ Windowed

----------------------------------------------------------------------------
(* Constants. *)

\* The parameters are numbers, and an hour lasts.
LEMMA Numbers ==
    /\ CooldownSetting \in Nat /\ LimitSetting \in Nat /\ MaxTime \in Nat
    /\ HourLength \in Nat /\ HourLength > 0 /\ DayLength \in Nat /\ DayLength > 0
    /\ Off \notin Nat /\ Forever \notin Nat /\ Forever # Off
  BY AlertConstants

\* What is there is not Off.
LEMMA WindowIsOpen ==
    ASSUME NEW w \in [count : Nat, start : Instants]
    PROVE  w # Off
  <1>1. Off \notin [count : Nat, start : Nat] /\ Instants \subseteq Nat
    BY AlertConstants DEF Window, Instants
  <1> QED
    BY <1>1

\* A rule that may be set is a rule.
LEMMA SettableRules == Settable \subseteq Rule
  <1>1. Rules \subseteq Rule
    BY AlertConstants
  <1>2. DefaultRule \in Rule
    BY DEF DefaultRule, Rule
  <1> QED
    BY <1>1, <1>2 DEF Settable

\* The limits of rules are numbers, and there is a largest one.
LEMMA LimitsAreBounded ==
    /\ TopLimit \in Nat
    /\ \A r \in Settable : LimitOf(r) \in Nat /\ LimitOf(r) <= TopLimit
  <1>1. \A r \in Settable : LimitOf(r) \in Nat
    BY SettableRules, Numbers DEF LimitOf, Rule
  <1> DEFINE S == {LimitOf(r) : r \in Settable}
  <1>2. \E m \in S : \A n \in S : m >= n
    BY <1>1, AlertConstants
  <1>3. TopLimit \in S /\ \A n \in S : TopLimit >= n
    BY <1>2 DEF TopLimit, Max
  <1> QED
    BY <1>1, <1>3

----------------------------------------------------------------------------
(* Bags. *)

\* Another copy of an element makes a bag a different one.
LEMMA BagAddProperties ==
    ASSUME NEW B, IsABag(B), NEW x
    PROVE  /\ IsABag(BagOps!BagAdd(B, x))
           /\ BagToSet(BagOps!BagAdd(B, x)) = BagToSet(B) \cup {x}
           /\ BagOps!BagAdd(B, x) # B
  <1>1. CASE x \in DOMAIN B
    <2>1. BagOps!BagAdd(B, x) = [e \in DOMAIN B |-> IF e = x THEN B[e] + 1 ELSE B[e]]
      BY <1>1 DEF BagOps!BagAdd
    <2>2. B[x] \in Nat /\ BagOps!BagAdd(B, x)[x] = B[x] + 1
      BY <1>1, <2>1 DEF IsABag
    <2>3. BagOps!BagAdd(B, x) # B
      BY <2>2
    <2>4. IsABag(BagOps!BagAdd(B, x)) /\ BagToSet(BagOps!BagAdd(B, x)) = BagToSet(B) \cup {x}
      BY <1>1, <2>1 DEF IsABag, BagToSet
    <2> QED
      BY <2>3, <2>4
  <1>2. CASE x \notin DOMAIN B
    <2>1. BagOps!BagAdd(B, x) = [e \in DOMAIN B \cup {x} |-> IF e = x THEN 1 ELSE B[e]]
      BY <1>2 DEF BagOps!BagAdd
    <2>2. DOMAIN BagOps!BagAdd(B, x) # DOMAIN B
      BY <1>2, <2>1
    <2> QED
      BY <1>2, <2>1, <2>2 DEF IsABag, BagToSet
  <1> QED
    BY <1>1, <1>2

\* A bag with a copy less has no new element.
LEMMA BagRemoveProperties ==
    ASSUME NEW B, IsABag(B), NEW x
    PROVE  IsABag(BagOps!BagRemove(B, x)) /\ BagToSet(BagOps!BagRemove(B, x)) \subseteq BagToSet(B)
  <1>1. CASE x \notin DOMAIN B
    BY <1>1 DEF BagOps!BagRemove
  <1>2. CASE x \in DOMAIN B /\ B[x] = 1
    BY <1>2 DEF BagOps!BagRemove, IsABag, BagToSet
  <1>3. CASE x \in DOMAIN B /\ B[x] # 1
    <2>1. BagOps!BagRemove(B, x) = [e \in DOMAIN B |-> IF e = x THEN B[e] - 1 ELSE B[e]]
      BY <1>3 DEF BagOps!BagRemove
    <2> QED
      BY <1>3, <2>1 DEF IsABag, BagToSet
  <1> QED
    BY <1>1, <1>2, <1>3

\* An empty bag is one.
LEMMA EmptyIsABag == IsABag(EmptyBag) /\ BagToSet(EmptyBag) = {}
  BY DEF IsABag, EmptyBag, SetToBag, BagToSet

----------------------------------------------------------------------------
(* The handling of an event, type by type. *)

\* What concerns the team, there is a rule for.
LEMMA ThereIsARule ==
    ASSUME Shape, NEW ev, Concerns(ev)
    PROVE  /\ rule \in Settable /\ rule \in Rule
           /\ Cooldown \in Nat /\ Limit \in Nat /\ Limit <= TopLimit
  <1>1. rule \in Settable /\ rule \in Rule
    BY SettableRules DEF Shape, Concerns
  <1>2. Cooldown \in Nat
    BY <1>1, Numbers DEF Cooldown, Rule
  <1> QED
    BY <1>1, <1>2, LimitsAreBounded DEF Limit

\* The window an event finds is the one there is, or one that begins now.
LEMMA WindowType ==
    ASSUME Shape
    PROVE  /\ CurrentWindow \in [count : Nat, start : Instants]
           /\ window # Off => window \in [count : Nat, start : Instants]
  BY DEF Shape, AlertTypeOK, CurrentWindow

\* An event leaves memory of the right types.
LEMMA MemoryTypes ==
    ASSUME Shape, NEW ev \in Events
    PROVE  /\ TrackerAfter(ev) \in [Keys -> Instants \cup {Off}]
           /\ AlertedAfter(ev) \subseteq Keys
           /\ LastAlertAfter(ev) \in [Keys -> Instants \cup {Off}]
           /\ [CurrentWindow EXCEPT !.count = @ + 1] \in [count : Nat, start : Instants]
           /\ \A sent \in BOOLEAN : Told(ev, sent) \in [Deps -> Rule \cup {Off}]
  <1>1. ev.key \in Keys /\ ev.kind \in {"down", "up", "error"}
    BY DEF Events
  <1>2. /\ tracker \in [Keys -> Instants \cup {Off}] /\ alerted \subseteq Keys
        /\ lastAlert \in [Keys -> Instants \cup {Off}] /\ now \in Instants
        /\ down \in [Deps -> Rule \cup {Off}] /\ rule \in Rule \cup {Off}
    BY DEF Shape, AlertTypeOK
  <1>3. TrackerAfter(ev) \in [Keys -> Instants \cup {Off}]
    BY <1>2 DEF TrackerAfter
  <1>4. AlertedAfter(ev) \subseteq Keys
    BY <1>1, <1>2 DEF AlertedAfter
  <1>5. LastAlertAfter(ev) \in [Keys -> Instants \cup {Off}]
    BY <1>2 DEF LastAlertAfter
  <1>6. [CurrentWindow EXCEPT !.count = @ + 1] \in [count : Nat, start : Instants]
    BY WindowType
  <1>7. \A sent \in BOOLEAN : Told(ev, sent) \in [Deps -> Rule \cup {Off}]
    BY <1>1, <1>2 DEF Told
  <1> QED
    BY <1>3, <1>4, <1>5, <1>6, <1>7

\* The handling of an event keeps the types.
LEMMA ProcessShape ==
    ASSUME Shape, NEW ev \in Events, Process(ev), UNCHANGED <<now, database>>,
           healthy' \in [Deps -> BOOLEAN]
    PROVE  Shape'
  <1>1. /\ now \in Instants /\ channel \in [Channels -> {"absent", "active", "inactive"}]
        /\ mutes \in [Targets -> Nat \cup {Off, Forever}]
        /\ rule \in Settable \cup {Off} /\ rule \in Rule \cup {Off}
        /\ tracker \in [Keys -> Instants \cup {Off}] /\ alerted \subseteq Keys
        /\ lastAlert \in [Keys -> Instants \cup {Off}]
        /\ window = Off \/ window \in [count : Nat, start : Instants]
        /\ IsABag(sending) /\ IsABag(retries)
        /\ BagToSet(sending) \subseteq Dispatches
        /\ BagToSet(retries) \subseteq Retries
        /\ down \in [Deps -> Rule \cup {Off}]
        /\ log \in Seq([key : Keys, at : Instants, cooldown : Nat])
    BY DEF Shape, AlertTypeOK
  <1>2. /\ now' \in Instants /\ channel' \in [Channels -> {"absent", "active", "inactive"}]
        /\ mutes' \in [Targets -> Nat \cup {Off, Forever}]
        /\ rule' \in Settable \cup {Off} /\ rule' \in Rule \cup {Off}
    BY <1>1 DEF database
  <1>3. /\ tracker' \in [Keys -> Instants \cup {Off}] /\ alerted' \subseteq Keys
        /\ lastAlert' \in [Keys -> Instants \cup {Off}]
        /\ down' \in [Deps -> Rule \cup {Off}]
    <2>1. tracker' \in {tracker, TrackerAfter(ev)} /\ alerted' \in {alerted, AlertedAfter(ev)}
      BY DEF Process, Ignore, Mute, Withhold, Suppress, Dispatch, memory
    <2>2. /\ lastAlert' \in {lastAlert, LastAlertAfter(ev)}
          /\ down' \in {Told(ev, FALSE), Told(ev, TRUE)}
      BY DEF Process, Ignore, Mute, Withhold, Suppress, Dispatch, memory
    <2>3. /\ TrackerAfter(ev) \in [Keys -> Instants \cup {Off}]
          /\ AlertedAfter(ev) \subseteq Keys
          /\ LastAlertAfter(ev) \in [Keys -> Instants \cup {Off}]
          /\ Told(ev, FALSE) \in [Deps -> Rule \cup {Off}]
          /\ Told(ev, TRUE) \in [Deps -> Rule \cup {Off}]
      BY MemoryTypes
    <2> QED
      BY <1>1, <2>1, <2>2, <2>3
  <1>4. window' = Off \/ window' \in [count : Nat, start : Instants]
    BY <1>1, WindowType, MemoryTypes
       DEF Process, Ignore, Mute, Withhold, Suppress, Dispatch, memory
  <1>5. retries' = retries
    BY DEF Process, Ignore, Mute, Withhold, Suppress, Dispatch, network
  <1>6. /\ IsABag(sending')
        /\ BagToSet(sending') \subseteq Dispatches
    <2>1. CASE Dispatch(ev)
      <3> DEFINE s == [event |-> ev, left |-> ActiveChannels]
      <3>1. s \in Dispatches
        BY <2>1 DEF Dispatch, Passes, Concerns, ActiveChannels, Dispatches
      <3>2. sending' = BagOps!BagAdd(sending, s)
        BY <2>1 DEF Dispatch
      <3> HIDE DEF s
      <3> QED
        BY <1>1, <3>1, <3>2, BagAddProperties
    <2>2. CASE ~Dispatch(ev)
      BY <1>1, <2>2 DEF Process, Ignore, Mute, Withhold, Suppress, network
    <2> QED
      BY <2>1, <2>2
  <1>7. log' \in Seq([key : Keys, at : Instants, cooldown : Nat])
    <2>1. CASE Dispatch(ev)
      <3>1. Cooldown \in Nat
        BY <2>1, ThereIsARule DEF Dispatch, Passes
      <3>2. Entry(ev) \in [key : Keys, at : Instants, cooldown : Nat]
        BY <1>1, <3>1 DEF Entry, Events
      <3> QED
        BY <1>1, <2>1, <3>2, AppendProperties DEF Dispatch
    <2>2. CASE ~Dispatch(ev)
      BY <1>1, <2>2 DEF Process, Ignore, Mute, Withhold, Suppress
    <2> QED
      BY <2>1, <2>2
  <1> QED
    BY <1>1, <1>2, <1>3, <1>4, <1>5, <1>6, <1>7 DEF Shape, AlertTypeOK

----------------------------------------------------------------------------
(* What was reported is remembered. *)

\* A poll changes dependencies, and the service has only errors.
Announced(ev) ==
    /\ ev \in Events
    /\ IF ev.kind = "error" THEN ev.key = Service ELSE ev.key \in Deps

\* The delay forgets nothing it has reported but on a recovery.
LEMMA DelayRemembers ==
    ASSUME Shape, AlertedTracked, NEW ev, Announced(ev)
    PROVE  \A k \in AlertedAfter(ev) : TrackerAfter(ev)[k] # Off
  <1> SUFFICES ASSUME NEW k \in AlertedAfter(ev) PROVE TrackerAfter(ev)[k] # Off
    OBVIOUS
  <1>1. /\ tracker \in [Keys -> Instants \cup {Off}] /\ alerted \subseteq Keys
        /\ now # Off /\ ev.key \in Keys /\ k \in Keys
    BY Numbers, MemoryTypes DEF Shape, AlertTypeOK, Instants, Announced, Events
  <1>2. CASE IsRecovery(ev)
    <2>1. k \in alerted /\ k # ev.key /\ TrackerAfter(ev) = [tracker EXCEPT ![ev.key] = Off]
      BY <1>2 DEF AlertedAfter, TrackerAfter
    <2> QED
      BY <1>1, <2>1 DEF AlertedTracked
  <1>3. CASE ~IsRecovery(ev) /\ Delayed(ev) /\ ~Withheld(ev)
    <2>1. tracker[ev.key] # Off
      BY <1>3 DEF Withheld
    <2>2. TrackerAfter(ev) = tracker /\ k \in alerted \cup {ev.key}
      BY <1>3, <2>1 DEF TrackerAfter, AlertedAfter
    <2> QED
      BY <2>1, <2>2 DEF AlertedTracked
  <1>4. CASE ~IsRecovery(ev) /\ ~(Delayed(ev) /\ ~Withheld(ev))
    <2>1. /\ k \in alerted
          /\ TrackerAfter(ev) \in {tracker, [tracker EXCEPT ![ev.key] = now]}
      BY <1>4 DEF AlertedAfter, TrackerAfter
    <2>2. tracker[k] # Off
      BY <2>1 DEF AlertedTracked
    <2> QED
      BY <1>1, <2>1, <2>2
  <1> QED
    BY <1>2, <1>3, <1>4

\* What the team was told of a dependency that is down, the delay has reported.
LEMMA ProcessRemembered ==
    ASSUME Shape, Shape', Remembered, NEW ev, Announced(ev), Process(ev),
           UNCHANGED <<now, database>>
    PROVE  Remembered'
  <1>1. AlertedTracked'
    <2>1. CASE Ignore(ev) \/ Mute(ev)
      BY <2>1 DEF Ignore, Mute, memory, Remembered, AlertedTracked
    <2>2. CASE Withhold(ev) \/ Suppress(ev) \/ Dispatch(ev)
      <3>1. tracker' = TrackerAfter(ev) /\ alerted' = AlertedAfter(ev)
        BY <2>2 DEF Withhold, Suppress, Dispatch
      <3> QED
        BY <3>1, DelayRemembers DEF Remembered, AlertedTracked
    <2> QED
      BY <2>1, <2>2 DEF Process
  <1>2. ASSUME NEW d \in Deps, down'[d] # Off, down'[d].delay # Off
        PROVE  d \in alerted'
    <2>1. down \in [Deps -> Rule \cup {Off}] /\ alerted' \in {alerted, AlertedAfter(ev)}
      BY DEF Shape, AlertTypeOK, Process, Ignore, Mute, Withhold, Suppress, Dispatch, memory
    <2>2. down' = Told(ev, FALSE) \/ (Dispatch(ev) /\ down' = Told(ev, TRUE))
      BY DEF Process, Ignore, Mute, Withhold, Suppress, Dispatch
    <2>3. (down[d] # Off /\ down[d].delay # Off) => d \in alerted
      BY DEF Remembered
    <2>4. CASE ev.kind = "error"
      <3>1. down' = down
        BY <2>2, <2>4 DEF Told
      <3>2. AlertedAfter(ev) = alerted
        BY <2>4 DEF AlertedAfter, IsRecovery, Delayed
      <3> QED
        BY <1>2, <2>1, <2>3, <3>1, <3>2
    <2>5. CASE ev.kind = "up"
      <3>1. down' = [down EXCEPT ![ev.key] = Off]
        BY <2>2, <2>5 DEF Told
      <3>2. d # ev.key /\ down'[d] = down[d]
        BY <1>2, <2>1, <3>1
      <3>3. AlertedAfter(ev) = alerted \ {ev.key}
        BY <2>5 DEF AlertedAfter, IsRecovery
      <3> QED
        BY <1>2, <2>1, <2>3, <3>2, <3>3
    <2>6. CASE ev.kind = "down"
      <3>1. alerted \subseteq AlertedAfter(ev)
        BY <2>6 DEF AlertedAfter, IsRecovery
      <3>2. CASE d # ev.key
        <4>1. down'[d] = down[d]
          BY <2>1, <2>2, <2>6, <3>2 DEF Told
        <4> QED
          BY <1>2, <2>1, <2>3, <3>1, <4>1
      <3>3. CASE d = ev.key
        <4>1. Dispatch(ev) /\ down'[d] = rule
          BY <1>2, <2>1, <2>2, <2>6, <3>3 DEF Told
        <4>2. Delayed(ev) /\ ~Withheld(ev) /\ alerted' = AlertedAfter(ev)
          BY <1>2, <2>6, <4>1 DEF Delayed, Dispatch, Passes
        <4>3. ~IsRecovery(ev)
          BY <2>6 DEF IsRecovery
        <4> QED
          BY <3>3, <4>2, <4>3 DEF AlertedAfter
      <3> QED
        BY <3>2, <3>3
    <2> QED
      BY <2>4, <2>5, <2>6 DEF Announced, Events
  <1> QED
    BY <1>1, <1>2 DEF Remembered

----------------------------------------------------------------------------
(* Flap protection. *)

\* The log grows by an entry of this moment, or not at all.
LEMMA ProcessLog ==
    ASSUME Shape, NEW ev \in Events, Process(ev)
    PROVE  \/ UNCHANGED <<lastAlert, log>>
           \/ /\ Dispatch(ev) /\ lastAlert' = LastAlertAfter(ev)
              /\ \/ log' = log
                 \/ /\ ~IsRecovery(ev) /\ ~Flaps(ev) /\ ~LimitReached
                    /\ Len(log) \in Nat /\ DOMAIN log = 1..Len(log)
                    /\ DOMAIN log' = 1..(Len(log) + 1)
                    /\ \A i \in 1..Len(log) : log'[i] = log[i]
                    /\ log'[Len(log) + 1] = Entry(ev)
  <1>1. CASE Dispatch(ev) /\ ~IsRecovery(ev)
    <2>1. log' = Append(log, Entry(ev)) /\ ~Flaps(ev) /\ ~LimitReached
      BY <1>1 DEF Dispatch, Suppressed
    <2>2. log \in Seq([key : Keys, at : Instants, cooldown : Nat])
      BY DEF Shape, AlertTypeOK
    <2>3. Cooldown \in Nat
      BY <1>1, ThereIsARule DEF Dispatch, Passes
    <2>4. Entry(ev) \in [key : Keys, at : Instants, cooldown : Nat]
      BY <2>3 DEF Entry, Events, Shape, AlertTypeOK
    <2>5. /\ Len(log) \in Nat /\ DOMAIN log = 1..Len(log)
          /\ DOMAIN log' = 1..(Len(log) + 1)
          /\ \A i \in 1..Len(log) : log'[i] = log[i]
          /\ log'[Len(log) + 1] = Entry(ev)
      BY <2>1, <2>2, <2>4
    <2> QED
      BY <1>1, <2>1, <2>5 DEF Dispatch
  <1>2. CASE Dispatch(ev) /\ IsRecovery(ev)
    BY <1>2 DEF Dispatch
  <1>3. CASE ~Dispatch(ev)
    BY <1>3 DEF Process, Ignore, Mute, Withhold, Suppress, memory
  <1> QED
    BY <1>1, <1>2, <1>3

\* What the log holds.
LEMMA LogEntries ==
    ASSUME Shape, NEW i \in DOMAIN log
    PROVE  /\ log[i].key \in Keys /\ log[i].at \in Instants /\ log[i].cooldown \in Nat
           /\ log[i].at \in Int
  <1>1. log \in Seq([key : Keys, at : Instants, cooldown : Nat])
    BY DEF Shape, AlertTypeOK
  <1>2. i \in 1..Len(log)
    BY <1>1
  <1>3. log[i] \in [key : Keys, at : Instants, cooldown : Nat]
    BY <1>1, <1>2, ElementOfSeq
  <1> QED
    BY <1>3, Numbers DEF Instants

\* A new alert is a cooldown away from the one before.
LEMMA ProcessSpaced ==
    ASSUME Shape, Shape', Spaced, NEW ev \in Events, Process(ev), now' = now
    PROVE  Spaced'
  <1>1. /\ lastAlert \in [Keys -> Instants \cup {Off}] /\ now \in Instants
        /\ log \in Seq([key : Keys, at : Instants, cooldown : Nat])
        /\ Instants \subseteq Int /\ now # Off /\ ev.key \in Keys
    BY Numbers DEF Shape, AlertTypeOK, Instants, Events
  <1>2. CASE UNCHANGED <<lastAlert, log>>
    BY <1>2 DEF Spaced, CooldownKept
  <1>3. ASSUME lastAlert' = LastAlertAfter(ev), NEW k \in Keys
        PROVE  /\ lastAlert'[k] # Off => lastAlert'[k] <= now
               /\ lastAlert'[k] = IF k = ev.key THEN now ELSE lastAlert[k]
    BY <1>1, <1>3 DEF LastAlertAfter, Spaced
  <1>4. ASSUME lastAlert' = LastAlertAfter(ev), NEW i \in DOMAIN log
        PROVE  /\ lastAlert'[log[i].key] # Off /\ log[i].at <= lastAlert'[log[i].key]
               /\ log[i].key \in Keys /\ log[i].at \in Instants
    <2>1. /\ lastAlert[log[i].key] # Off /\ log[i].at <= lastAlert[log[i].key]
          /\ log[i].key \in Keys /\ log[i].at \in Instants
      BY LogEntries DEF Spaced
    <2>2. lastAlert[log[i].key] \in Instants /\ lastAlert[log[i].key] <= now
      BY <1>1, <2>1 DEF Spaced
    <2>3. CASE log[i].key = ev.key
      <3>1. lastAlert'[log[i].key] = now
        BY <1>3, <1>4, <2>1, <2>3
      <3>2. log[i].at \in Int /\ lastAlert[log[i].key] \in Int /\ now \in Int
        BY <1>1, <2>1, <2>2
      <3>3. log[i].at <= now
        BY <2>1, <2>2, <3>2
      <3> QED
        BY <1>1, <2>1, <3>1, <3>3
    <2>4. CASE log[i].key # ev.key
      BY <1>3, <1>4, <2>1, <2>4
    <2> QED
      BY <2>1, <2>3, <2>4
  <1>5. CASE lastAlert' = LastAlertAfter(ev) /\ log' = log
    BY <1>3, <1>4, <1>5 DEF Spaced, CooldownKept
  <1>6. CASE /\ Dispatch(ev) /\ lastAlert' = LastAlertAfter(ev)
             /\ ~IsRecovery(ev) /\ ~Flaps(ev) /\ ~LimitReached
             /\ Len(log) \in Nat /\ DOMAIN log = 1..Len(log)
             /\ DOMAIN log' = 1..(Len(log) + 1)
             /\ \A i \in 1..Len(log) : log'[i] = log[i]
             /\ log'[Len(log) + 1] = Entry(ev)
    <2> DEFINE n == Len(log) + 1
    <2>1. /\ log'[n].key = ev.key /\ log'[n].at = now /\ log'[n].cooldown = Cooldown
          /\ n \in DOMAIN log'
      BY <1>6 DEF Entry
    <2>2. Cooldown \in Nat
      BY <1>6, ThereIsARule DEF Dispatch, Passes
    <2>3. ASSUME NEW i \in DOMAIN log'
          PROVE  lastAlert'[log'[i].key] # Off /\ log'[i].at <= lastAlert'[log'[i].key]
      <3>1. CASE i \in DOMAIN log
        BY <1>4, <1>6, <3>1
      <3>2. CASE i = n
        BY <1>1, <1>3, <1>6, <2>1, <3>2
      <3> QED
        BY <1>6, <3>1, <3>2
    <2>4. ASSUME NEW i \in DOMAIN log', NEW j \in DOMAIN log', i < j,
                 log'[i].key = log'[j].key
          PROVE  log'[j].at - log'[i].at >= log'[j].cooldown
      <3>1. CASE j \in DOMAIN log
        BY <1>6, <2>4, <3>1 DEF Spaced, CooldownKept
      <3>2. CASE j = n
        <4>1. i \in DOMAIN log /\ log'[i] = log[i]
          BY <1>6, <2>4, <3>2
        <4>2. /\ lastAlert[ev.key] # Off /\ log[i].at <= lastAlert[ev.key]
              /\ lastAlert[ev.key] <= now /\ lastAlert[ev.key] \in Int
              /\ log[i].at \in Int
          BY <1>1, <1>4, <1>6, <2>1, <2>4, <3>2, <4>1 DEF Spaced
        <4>3. Cooldown = 0 \/ now - lastAlert[ev.key] >= Cooldown
          BY <1>1, <1>6, <2>2, <4>2 DEF Flaps
        <4>4. now - log[i].at >= Cooldown
          BY <1>1, <2>2, <4>2, <4>3
        <4> QED
          BY <2>1, <3>2, <4>1, <4>4
      <3> QED
        BY <1>6, <3>1, <3>2
    <2> QED
      BY <1>1, <1>3, <1>6, <2>3, <2>4 DEF Spaced, CooldownKept
  <1> QED
    BY <1>2, <1>5, <1>6, ProcessLog

----------------------------------------------------------------------------
(* The rate limit. *)

\* Any part of the log is finite.
LEMMA LogIsFinite ==
    ASSUME Shape, NEW S \in SUBSET (DOMAIN log)
    PROVE  IsFiniteSet(S) /\ Cardinality(S) \in Nat
  <1>1. Len(log) \in Nat /\ DOMAIN log = 1..Len(log)
    BY DEF Shape, AlertTypeOK
  <1>2. IsFiniteSet(1..Len(log))
    BY <1>1, FS_Interval
  <1> QED
    BY <1>1, <1>2, FS_Subset, FS_CardinalityType

\* A window that begins now, when all alerts are older.
LEMMA NewWindowCounted ==
    ASSUME Shape, From(log, now) = {}, Cardinality(Shortly(log, now)) <= TopLimit,
           \A j \in DOMAIN log : log[j].at < now + HourLength,
           NEW w, w = [count |-> 0, start |-> now]
    PROVE  Counted(w) /\ now < w.start + HourLength
  <1>1. /\ now \in Instants /\ now \in Int /\ HourLength \in Nat /\ HourLength > 0
        /\ TopLimit \in Nat
    BY Numbers, LimitsAreBounded DEF Shape, AlertTypeOK, Instants
  <1>2. w \in [count : Nat, start : Instants] /\ w.start = now /\ w.count = 0
    BY <1>1
  <1>3. Cardinality(From(log, now)) = 0
    BY FS_EmptySet
  <1>4. now <= now /\ now < now + HourLength
    BY <1>1
  <1> QED
    BY <1>1, <1>2, <1>3, <1>4 DEF Counted

\* The window an event finds counts the alerts since it began, and is open.
LEMMA WindowFound ==
    ASSUME Shape, Windowed
    PROVE  Counted(CurrentWindow) /\ now < CurrentWindow.start + HourLength
  <1>1. /\ now \in Instants /\ now \in Int /\ HourLength \in Nat /\ HourLength > 0
        /\ TopLimit \in Nat /\ Instants \subseteq Int
    BY Numbers, LimitsAreBounded DEF Shape, AlertTypeOK, Instants
  <1> DEFINE new == [count |-> 0, start |-> now]
  <1>3. CASE window = Off
    <2>1. CurrentWindow = new /\ DOMAIN log = {}
      BY <1>3 DEF CurrentWindow, Windowed
    <2>2. From(log, now) = {} /\ Shortly(log, now) = {}
      BY <2>1 DEF From, Shortly
    <2>3. Cardinality(Shortly(log, now)) <= TopLimit
      BY <1>1, <2>2, FS_EmptySet
    <2> QED
      BY <2>1, <2>2, <2>3, NewWindowCounted
  <1>4. CASE window # Off /\ now - window.start >= HourLength
    <2>1. CurrentWindow = new
      BY <1>4 DEF CurrentWindow
    <2>2. Counted(window)
      BY <1>4 DEF Windowed
    <2>0. window.start \in Int
      BY <1>1, <2>2 DEF Counted
    <2>3. window.start \in Int /\ window.start + HourLength <= now
      BY <1>1, <1>4, <2>0
    <2>4. \A j \in DOMAIN log : log[j].at \in Int /\ log[j].at < now
      BY <1>1, <2>2, <2>3, LogEntries DEF Counted
    <2>5. From(log, now) = {}
      BY <1>1, <2>4 DEF From
    <2>6. Shortly(log, now) \subseteq From(log, window.start)
      BY <1>1, <2>3, <2>4 DEF From, Shortly
    <2>7. /\ IsFiniteSet(From(log, window.start)) /\ Cardinality(From(log, window.start)) \in Nat
          /\ Cardinality(Shortly(log, now)) \in Nat
      BY LogIsFinite DEF From, Shortly
    <2>8. Cardinality(Shortly(log, now)) <= Cardinality(From(log, window.start))
      BY <2>6, <2>7, FS_Subset
    <2>9. Cardinality(From(log, window.start)) <= TopLimit
      BY <2>2 DEF Counted
    <2>10. Cardinality(Shortly(log, now)) <= TopLimit
      BY <1>1, <2>7, <2>8, <2>9
    <2>11. \A j \in DOMAIN log : log[j].at < now + HourLength
      BY <1>1, <2>4
    <2> QED
      BY <2>1, <2>5, <2>10, <2>11, NewWindowCounted
  <1>5. CASE window # Off /\ ~(now - window.start >= HourLength)
    <2>1. CurrentWindow = window /\ Counted(window)
      BY <1>5 DEF CurrentWindow, Windowed
    <2>2. window.start \in Int
      BY <1>1, <2>1 DEF Counted
    <2> QED
      BY <1>1, <1>5, <2>1, <2>2
  <1> QED
    BY <1>3, <1>4, <1>5

\* One alert more, where the limit is not reached, keeps an hour within twice
\* the largest limit.
LEMMA OneMoreAlert ==
    ASSUME Shape, Shape', Windowed, NEW ev \in Events, Dispatch(ev), ~LimitReached,
           Len(log) \in Nat, DOMAIN log = 1..Len(log), DOMAIN log' = 1..(Len(log) + 1),
           \A i \in 1..Len(log) : log'[i] = log[i],
           log'[Len(log) + 1] = Entry(ev), now' = now
    PROVE  HourlyBound' /\ Counted(window)'
  <1> DEFINE w == CurrentWindow
             n == Len(log) + 1
  <1>1. /\ now \in Int /\ HourLength \in Nat /\ HourLength > 0 /\ Instants \subseteq Int
        /\ TopLimit \in Nat /\ now \in Instants
    BY Numbers, LimitsAreBounded DEF Shape, AlertTypeOK, Instants
  <1>2. Counted(w) /\ now < w.start + HourLength
    BY WindowFound
  <1>3. w.count \in Nat /\ w.start \in Int /\ w.start \in Instants /\ w.start <= now
    BY <1>1, <1>2 DEF Counted
  <1>4. w.count + 1 <= TopLimit
    <2>1. Limit \in Nat /\ Limit <= TopLimit
      BY ThereIsARule DEF Dispatch, Passes
    <2>2. w.count < Limit
      BY <1>3, <2>1 DEF LimitReached
    <2> QED
      BY <1>1, <1>3, <2>1, <2>2
  <1>5. /\ window'.count = w.count + 1 /\ window'.start = w.start
        /\ window' \in [count : Nat, start : Instants]
    BY <1>2 DEF Dispatch, Counted
  <1> HIDE DEF w
  <1>6. log'[n].at = now /\ n \notin DOMAIN log /\ DOMAIN log' = DOMAIN log \cup {n}
    BY DEF Entry
  <1>7. \A i \in DOMAIN log : log'[i].at = log[i].at /\ log[i].at \in Int
    BY LogEntries
  <1> HIDE DEF n
  <1>8. From(log', w.start) = From(log, w.start) \cup {n} /\ n \notin From(log, w.start)
    BY <1>3, <1>6, <1>7 DEF From
  <1>9. Shortly(log', w.start) = Shortly(log, w.start)
    <2>1. n \notin Shortly(log', w.start)
      BY <1>1, <1>3, <1>6 DEF Shortly
    <2>2. \A i \in DOMAIN log : i \in Shortly(log', w.start) <=> i \in Shortly(log, w.start)
      BY <1>6, <1>7 DEF Shortly
    <2> QED
      BY <1>6, <2>1, <2>2 DEF Shortly
  <1>10. /\ IsFiniteSet(From(log, w.start)) /\ Cardinality(From(log, w.start)) \in Nat
         /\ IsFiniteSet(Shortly(log, w.start)) /\ Cardinality(Shortly(log, w.start)) \in Nat
    BY LogIsFinite DEF From, Shortly
  <1>11. /\ IsFiniteSet(From(log', w.start))
         /\ Cardinality(From(log', w.start)) = Cardinality(From(log, w.start)) + 1
    BY <1>8, <1>10, FS_AddElement
  <1>12. /\ Cardinality(From(log', w.start)) <= w.count + 1
         /\ Cardinality(From(log', w.start)) <= TopLimit
         /\ Cardinality(From(log', w.start)) \in Nat
    BY <1>1, <1>2, <1>3, <1>4, <1>10, <1>11 DEF Counted
  <1>13. Cardinality(Shortly(log', w.start)) <= TopLimit
    BY <1>2, <1>9 DEF Counted
  <1>14. \A i \in DOMAIN log' : log'[i].at < w.start + HourLength
    BY <1>2, <1>6, <1>7 DEF Counted
  <1>15. Counted(window)'
    BY <1>3, <1>5, <1>12, <1>13, <1>14 DEF Counted
  <1>16. ASSUME NEW t \in Instants
         PROVE  Cardinality(InHour(log', t)) <= 2 * TopLimit
    <2>1. t \in Int
      BY <1>1
    <2>2. CASE now \notin t..(t + HourLength - 1)
      <3>1. InHour(log', t) = InHour(log, t)
        BY <1>6, <1>7, <2>2 DEF InHour
      <3> QED
        BY <3>1 DEF Windowed, HourlyBound, InHour
    <2>3. CASE now \in t..(t + HourLength - 1)
      <3>1. InHour(log', t) \subseteq From(log', w.start) \cup Shortly(log', w.start)
        <4> SUFFICES ASSUME NEW i \in InHour(log', t), log'[i].at < w.start
                     PROVE  log'[i].at > w.start - HourLength
          BY <1>3, <1>6, <1>7, <1>1 DEF InHour, From, Shortly
        <4>1. log'[i].at \in Int /\ log'[i].at >= t
          BY <1>1, <1>6, <1>7, <2>1 DEF InHour
        <4> QED
          BY <1>1, <1>3, <2>1, <2>3, <4>1
      <3>2. /\ IsFiniteSet(From(log', w.start) \cup Shortly(log', w.start))
            /\ Cardinality(From(log', w.start) \cup Shortly(log', w.start)) =
                 Cardinality(From(log', w.start)) + Cardinality(Shortly(log', w.start))
                   - Cardinality(From(log', w.start) \cap Shortly(log', w.start))
        BY <1>9, <1>10, <1>11, FS_Union
      <3>3. Cardinality(From(log', w.start) \cap Shortly(log', w.start)) \in Nat
        BY <1>11, FS_Subset, FS_CardinalityType
      <3>4. /\ Cardinality(InHour(log', t))
                  <= Cardinality(From(log', w.start) \cup Shortly(log', w.start))
            /\ Cardinality(InHour(log', t)) \in Nat
        BY <3>1, <3>2, FS_Subset, FS_CardinalityType
      <3>5. Cardinality(Shortly(log', w.start)) \in Nat
        BY <1>9, <1>10
      <3> QED
        BY <1>1, <1>12, <1>13, <3>2, <3>3, <3>4, <3>5
    <2> QED
      BY <2>2, <2>3
  <1> QED
    BY <1>15, <1>16 DEF HourlyBound, InHour

\* The handling of an event keeps the count.
LEMMA ProcessWindowed ==
    ASSUME Shape, Shape', Windowed, NEW ev \in Events, Process(ev), now' = now
    PROVE  Windowed'
  <1>1. \/ UNCHANGED <<window, log>>
        \/ log' = log /\ window' = CurrentWindow
        \/ Dispatch(ev)
    BY DEF Process, Ignore, Mute, Withhold, Suppress, memory
  <1>2. CASE UNCHANGED <<window, log>>
    BY <1>2 DEF Windowed, HourlyBound, Counted
  <1>3. CASE log' = log /\ window' = CurrentWindow
    <2>1. Counted(CurrentWindow)
      BY WindowFound
    <2>2. Counted(window)'
      BY <1>3, <2>1 DEF Counted
    <2>3. window' # Off
      BY <1>3, WindowType, WindowIsOpen
    <2> QED
      BY <1>3, <2>2, <2>3 DEF Windowed, HourlyBound
  <1>4. CASE Dispatch(ev)
    <2>1. Counted(CurrentWindow)
      BY WindowFound
    <2>2. /\ window'.count = CurrentWindow.count + 1 /\ window'.start = CurrentWindow.start
          /\ window' \in [count : Nat, start : Instants] /\ CurrentWindow.count \in Nat
      BY <1>4, <2>1 DEF Dispatch, Counted
    <2>0. window' # Off
      BY <2>2, WindowIsOpen
    <2>3. CASE log' = log
      <3>1. Cardinality(From(log, CurrentWindow.start)) \in Nat
        BY LogIsFinite DEF From
      <3>2. Counted(window)'
        BY <2>1, <2>2, <2>3, <3>1 DEF Counted
      <3> QED
        BY <2>0, <2>3, <3>2 DEF Windowed, HourlyBound
    <2>4. CASE log' # log
      BY <1>4, <2>0, <2>4, ProcessLog, OneMoreAlert DEF Windowed
    <2> QED
      BY <2>3, <2>4
  <1> QED
    BY <1>1, <1>2, <1>3, <1>4

----------------------------------------------------------------------------
(* Polls. *)

\* The two ways an event comes about.
LEMMA EventStep ==
    ASSUME AlertInv, NEW ev, Announced(ev), Process(ev), UNCHANGED <<now, database>>,
           healthy' \in [Deps -> BOOLEAN]
    PROVE  AlertInv'
  <1>1. ev \in Events /\ now' = now
    BY DEF Announced
  <1>2. Shape'
    BY <1>1, ProcessShape DEF AlertInv
  <1> QED
    BY <1>1, <1>2, ProcessRemembered, ProcessSpaced, ProcessWindowed DEF AlertInv

\* A dependency changes its health.
LEMMA StatusChangeStep ==
    ASSUME AlertInv, NEW d \in Deps, StatusChange(d)
    PROVE  AlertInv'
  <1> DEFINE ev == Event(d, IF healthy[d] THEN "down" ELSE "up")
  <1>1. Process(ev) /\ UNCHANGED <<now, database>>
    BY DEF StatusChange
  <1>2. healthy' \in [Deps -> BOOLEAN]
    BY DEF StatusChange, AlertInv, Shape, AlertTypeOK
  <1>3. Announced(ev)
    BY DEF Announced, Event, Events, Keys
  <1> HIDE DEF ev
  <1> QED
    BY <1>1, <1>2, <1>3, EventStep

\* A poll of the service fails.
LEMMA PollErrorStep ==
    ASSUME AlertInv, PollError
    PROVE  AlertInv'
  <1> DEFINE ev == Event(Service, "error")
  <1>1. Process(ev) /\ UNCHANGED <<now, database>> /\ healthy' = healthy
    BY DEF PollError
  <1>2. healthy' \in [Deps -> BOOLEAN]
    BY <1>1 DEF AlertInv, Shape, AlertTypeOK
  <1>3. Announced(ev)
    BY DEF Announced, Event, Events, Keys
  <1> HIDE DEF ev
  <1> QED
    BY <1>1, <1>2, <1>3, EventStep

----------------------------------------------------------------------------
(* Everything else. *)

\* What touches neither the memory nor the log disturbs only the types.
LEMMA QuietStep ==
    ASSUME AlertInv, Shape', UNCHANGED <<now, memory, down, log>>
    PROVE  AlertInv'
  <1>1. Remembered'
    BY DEF AlertInv, memory, Remembered, AlertedTracked
  <1>2. Spaced'
    BY DEF AlertInv, memory, Spaced, CooldownKept
  <1>3. Windowed'
    BY DEF AlertInv, memory, Windowed, HourlyBound, Counted
  <1> QED
    BY <1>1, <1>2, <1>3 DEF AlertInv

\* A send ends: the dispatch keeps the channels left, a failed one is retried.
LEMMA SendEndsStep ==
    ASSUME AlertInv, NEW s \in BagToSet(sending), NEW c \in s.left, NEW ok \in BOOLEAN,
           SendEnds(s, c, ok)
    PROVE  AlertInv'
  <1>1. /\ sending' = Rest(s, c)
        /\ retries' \in {retries, BagOps!BagAdd(retries, [event |-> s.event, channel |-> c])}
        /\ UNCHANGED <<now, healthy, database, memory, down, log>>
    BY DEF SendEnds
  <1>2. /\ IsABag(sending) /\ IsABag(retries)
        /\ BagToSet(sending) \subseteq Dispatches
        /\ BagToSet(retries) \subseteq Retries
    BY DEF AlertInv, Shape, AlertTypeOK
  <1>3. /\ IsABag(sending')
        /\ BagToSet(sending') \subseteq Dispatches
    <2> DEFINE others == BagOps!BagRemove(sending, s)
               x == [s EXCEPT !.left = @ \ {c}]
    <2>1. IsABag(others) /\ BagToSet(others) \subseteq BagToSet(sending)
      BY <1>2, BagRemoveProperties
    <2>2. CASE s.left = {c}
      <3>1. sending' = others
        BY <1>1, <2>2 DEF Rest
      <3> HIDE DEF others
      <3> QED
        BY <1>2, <2>1, <3>1
    <2>3. CASE s.left # {c}
      <3>1. sending' = BagOps!BagAdd(others, x)
        BY <1>1, <2>3 DEF Rest
      <3> HIDE DEF others
      <3>2. IsABag(sending') /\ BagToSet(sending') = BagToSet(others) \cup {x}
        BY <2>1, <3>1, BagAddProperties
      <3>3. x \in Dispatches
        BY <1>2, <2>3 DEF Dispatches
      <3> QED
        BY <1>2, <2>1, <3>2, <3>3
    <2> QED
      BY <2>2, <2>3
  <1>4. /\ IsABag(retries')
        /\ BagToSet(retries') \subseteq Retries
    <2> DEFINE r == [event |-> s.event, channel |-> c]
    <2>1. r \in Retries
      BY <1>2 DEF Dispatches, Retries
    <2>2. retries' \in {retries, BagOps!BagAdd(retries, r)}
      BY <1>1
    <2> HIDE DEF r
    <2> QED
      BY <1>2, <2>1, <2>2, BagAddProperties
  <1>5. Shape'
    BY <1>1, <1>3, <1>4 DEF AlertInv, Shape, AlertTypeOK, database, memory
  <1> QED
    BY <1>1, <1>5, QuietStep

\* A retry ends, one way or the other.
LEMMA RetryEndsStep ==
    ASSUME AlertInv, NEW r \in BagToSet(retries), RetryEnds(r)
    PROVE  AlertInv'
  <1>1. /\ retries' = BagOps!BagRemove(retries, r)
        /\ UNCHANGED <<now, healthy, database, memory, sending, down, log>>
    BY DEF RetryEnds
  <1>2. /\ IsABag(retries)
        /\ BagToSet(retries) \subseteq Retries
    BY DEF AlertInv, Shape, AlertTypeOK
  <1>3. /\ IsABag(retries')
        /\ BagToSet(retries') \subseteq Retries
    BY <1>1, <1>2, BagRemoveProperties
  <1>4. Shape'
    BY <1>1, <1>3 DEF AlertInv, Shape, AlertTypeOK, database, memory
  <1> QED
    BY <1>1, <1>4, QuietStep

\* The routes change the database alone.
LEMMA RoutesStep ==
    ASSUME AlertInv, Routes
    PROVE  AlertInv'
  <1>1. UNCHANGED <<now, healthy, memory, network, down, log>>
    BY DEF Routes, UpdateRule, CreateChannel, ChangeChannel, CreateMute, DeleteMute
  <1>2. /\ rule \in Settable \cup {Off} /\ rule \in Rule \cup {Off}
        /\ channel \in [Channels -> {"absent", "active", "inactive"}]
        /\ mutes \in [Targets -> Nat \cup {Off, Forever}] /\ now \in Nat
    BY DEF AlertInv, Shape, AlertTypeOK, Instants
  <1>3. rule' \in Settable \cup {Off}
    BY <1>2 DEF Routes, UpdateRule, CreateChannel, ChangeChannel, CreateMute, DeleteMute,
                Settable
  <1>4. rule' \in Rule \cup {Off}
    BY <1>3, SettableRules
  <1>5. channel' \in [Channels -> {"absent", "active", "inactive"}]
    BY <1>2 DEF Routes, UpdateRule, CreateChannel, ChangeChannel, CreateMute, DeleteMute
  <1>6. mutes' \in [Targets -> Nat \cup {Off, Forever}]
    <2>1. CASE UNCHANGED mutes
      BY <1>2, <2>1
    <2>2. ASSUME NEW t \in MuteTargets, DeleteMute(t)
          PROVE  mutes' \in [Targets -> Nat \cup {Off, Forever}]
      BY <1>2, <2>2 DEF DeleteMute
    <2>3. ASSUME NEW t \in MuteTargets, NEW e \in Nat \cup {Forever}, CreateMute(t, e)
          PROVE  mutes' \in [Targets -> Nat \cup {Off, Forever}]
      BY <1>2, <2>3 DEF CreateMute
    <2>4. \A d \in Durations : now + d \in Nat
      BY <1>2, AlertConstants
    <2> QED
      BY <2>1, <2>2, <2>3, <2>4 DEF Routes, UpdateRule, CreateChannel, ChangeChannel
  <1>7. Shape'
    BY <1>1, <1>3, <1>4, <1>5, <1>6 DEF AlertInv, Shape, AlertTypeOK, memory, network
  <1> QED
    BY <1>1, <1>7, QuietStep

\* The daily clean-up deletes mutes.
LEMMA DeleteExpiredStep ==
    ASSUME AlertInv, DeleteExpired
    PROVE  AlertInv'
  <1>1. /\ mutes' = [t \in Targets |-> IF InForce(t) THEN mutes[t] ELSE Off]
        /\ UNCHANGED <<now, healthy, rule, channel, memory, network, down, log>>
    BY DEF DeleteExpired
  <1>2. mutes' \in [Targets -> Nat \cup {Off, Forever}]
    BY <1>1 DEF AlertInv, Shape, AlertTypeOK
  <1>3. Shape'
    BY <1>1, <1>2 DEF AlertInv, Shape, AlertTypeOK, memory, network
  <1> QED
    BY <1>1, <1>3, QuietStep

\* Time passes.
LEMMA TickStep ==
    ASSUME AlertInv, Tick
    PROVE  AlertInv'
  <1>1. /\ now < MaxTime /\ now' = now + 1
        /\ UNCHANGED <<healthy, database, memory, network, down, log>>
    BY DEF Tick
  <1>2. now \in Instants /\ MaxTime \in Nat
    BY Numbers DEF AlertInv, Shape, AlertTypeOK
  <1>3. now' \in Instants /\ \A t \in Instants : t <= now => t <= now'
    BY <1>1, <1>2 DEF Instants
  <1>4. Shape'
    BY <1>1, <1>3 DEF AlertInv, Shape, AlertTypeOK, database, memory, network
  <1>5. Remembered'
    BY <1>1 DEF AlertInv, memory, Remembered, AlertedTracked
  <1>6. Spaced'
    <2>1. lastAlert \in [Keys -> Instants \cup {Off}]
      BY DEF AlertInv, Shape, AlertTypeOK
    <2>2. \A k \in Keys : lastAlert[k] # Off => lastAlert[k] <= now'
      BY <1>3, <2>1 DEF AlertInv, Spaced
    <2> QED
      BY <1>1, <2>2 DEF AlertInv, memory, Spaced, CooldownKept
  <1>7. Windowed'
    <2>1. window # Off => window.start <= now'
      BY <1>3 DEF AlertInv, Windowed, Counted
    <2> QED
      BY <1>1, <2>1 DEF AlertInv, memory, Windowed, HourlyBound, Counted
  <1> QED
    BY <1>4, <1>5, <1>6, <1>7 DEF AlertInv

\* A restart forgets it all.
LEMMA RestartStep ==
    ASSUME AlertInv, Restart
    PROVE  AlertInv'
  <1>1. /\ tracker' = [k \in Keys |-> Off] /\ alerted' = {}
        /\ lastAlert' = [k \in Keys |-> Off] /\ window' = Off
        /\ sending' = EmptyBag /\ retries' = EmptyBag
        /\ down' = [d \in Deps |-> Off] /\ log' = <<>>
        /\ UNCHANGED <<now, healthy, database>>
    BY DEF Restart, Fresh
  <1>2. AlertTypeOK' /\ rule' \in Settable \cup {Off}
    BY <1>1, EmptyIsABag DEF AlertInv, Shape, AlertTypeOK, database
  <1>3. DOMAIN log' = {}
    BY <1>1
  <1>4. HourlyBound'
    <2>1. \A t \in Instants :
            {i \in DOMAIN log' : log'[i].at \in t..(t + HourLength - 1)} = {}
      BY <1>3
    <2> QED
      BY <2>1, FS_EmptySet, LimitsAreBounded DEF HourlyBound
  <1> QED
    BY <1>1, <1>2, <1>3, <1>4 DEF AlertInv, Shape, Remembered, AlertedTracked, Spaced,
                                  CooldownKept, Windowed

----------------------------------------------------------------------------
(* The specification. *)

\* It holds when the process starts.
LEMMA AlertInitInv == AlertInit => AlertInv
  <1> SUFFICES ASSUME AlertInit PROVE AlertInv
    OBVIOUS
  <1>1. /\ tracker = [k \in Keys |-> Off] /\ alerted = {}
        /\ lastAlert = [k \in Keys |-> Off] /\ window = Off
    BY DEF AlertInit, Fresh
  <1>2. 0 \in Instants
    BY Numbers DEF Instants
  <1>3. AlertTypeOK /\ rule \in Settable \cup {Off}
    BY <1>1, <1>2, EmptyIsABag DEF AlertInit, AlertTypeOK
  <1>4. DOMAIN log = {}
    BY DEF AlertInit
  <1>5. HourlyBound
    <2>1. \A t \in Instants :
            {i \in DOMAIN log : log[i].at \in t..(t + HourLength - 1)} = {}
      BY <1>4
    <2> QED
      BY <2>1, FS_EmptySet, LimitsAreBounded DEF HourlyBound
  <1> QED
    BY <1>1, <1>3, <1>4, <1>5 DEF AlertInit, AlertInv, Shape, Remembered, AlertedTracked,
                                  Spaced, CooldownKept, Windowed

\* And every step keeps it.
LEMMA AlertStep == AlertInv /\ [AlertNext]_alertVars => AlertInv'
  <1> SUFFICES ASSUME AlertInv, [AlertNext]_alertVars PROVE AlertInv'
    OBVIOUS
  <1>1. CASE UNCHANGED alertVars
    <2>1. Shape'
      BY <1>1 DEF alertVars, database, memory, network, AlertInv, Shape, AlertTypeOK
    <2> QED
      BY <1>1, <2>1, QuietStep DEF alertVars
  <1> QED
    BY <1>1, StatusChangeStep, PollErrorStep, SendEndsStep, RetryEndsStep, RoutesStep,
       DeleteExpiredStep, RestartStep, TickStep DEF AlertNext

\* The inductive invariant.
THEOREM AlertInvariant == AlertSpec => []AlertInv
  BY AlertInitInv, AlertStep, PTL DEF AlertSpec

\* The types: nobody is sent an alert for no channel, no dispatch is left over.
THEOREM AlertTypes == AlertSpec => []AlertTypeOK
  <1>1. AlertInv => AlertTypeOK
    BY DEF AlertInv, Shape
  <1> QED
    BY <1>1, AlertInvariant, PTL

\* An alert of a delay is only remembered while its delay is tracked (step 6 of
\* processEvent).
THEOREM AlertedIsTracked == AlertSpec => []AlertedTracked
  <1>1. AlertInv => AlertedTracked
    BY DEF AlertInv, Remembered
  <1> QED
    BY <1>1, AlertInvariant, PTL

\* No hour sees more than twice the largest limit, no key two alerts within a
\* cooldown (AlertRateLimiter.check, FlapProtector.shouldSuppress).
THEOREM AlertsStayBounded == AlertSpec => []AlertsBounded
  <1>1. AlertInv => AlertsBounded
    BY DEF AlertInv, Windowed, Spaced, AlertsBounded
  <1> QED
    BY <1>1, AlertInvariant, PTL

\* A recovery of what the team was told by its present rule is dispatched.
LEMMA RecoveryDispatched ==
    ASSUME AlertInv, NEW d \in Deps, StatusChange(d), Recovers(d), down[d] # Off,
           down[d] = rule, Listening, ~Muted(Event(d, "up"))
    PROVE  sending' # sending
  <1> DEFINE ev == Event(d, "up")
  <1>1. Process(ev)
    BY DEF StatusChange, Recovers
  <1>2. IsRecovery(ev) /\ ev.key = d /\ ev.kind = "up"
    BY DEF IsRecovery, Event
  <1>3. rule \in Rule /\ rule.filter \in {"all", "warning"}
    BY DEF AlertInv, Shape, AlertTypeOK, Listening, Rule
  <1>4. Concerns(ev)
    BY <1>3 DEF Concerns, Matches, Listening
  <1>5. ~Withheld(ev)
    <2>1. rule.delay # Off => d \in alerted
      BY DEF AlertInv, Remembered
    <2> QED
      BY <1>2, <2>1 DEF Withheld, Unreported, Delayed
  <1>6. ~Suppressed(ev)
    BY <1>2 DEF Suppressed
  <1>7. Dispatch(ev)
    BY <1>1, <1>4, <1>5, <1>6 DEF Process, Ignore, Mute, Withhold, Suppress
  <1>8. IsABag(sending)
    BY DEF AlertInv, Shape, AlertTypeOK
  <1> QED
    BY <1>7, <1>8, BagAddProperties DEF Dispatch

\* A team that was told that a dependency is down is told when it comes back
\* up: neither the delay nor flap protection nor the rate limit keeps the
\* recovery back (steps 5 to 7 of processEvent).
THEOREM RecoveriesReported == AlertSpec => RecoveryReported
  <1>1. AlertInv /\ [AlertNext]_alertVars => [\A d \in Deps :
            (Recovers(d) /\ down[d] # Off /\ down[d] = rule /\ Listening
                /\ ~Muted(Event(d, "up")))
            => sending' # sending]_alertVars
    <2> SUFFICES ASSUME AlertInv, AlertNext, NEW d \in Deps,
                        Recovers(d), down[d] # Off, down[d] = rule, Listening,
                        ~Muted(Event(d, "up"))
                 PROVE  sending' # sending
      OBVIOUS
    <2>1. healthy' # healthy
      BY DEF Recovers
    <2>2. PICK x \in Deps : StatusChange(x)
      BY <2>1 DEF AlertNext, PollError, SendEnds, RetryEnds, Routes, UpdateRule,
                  CreateChannel, ChangeChannel, CreateMute, DeleteMute, DeleteExpired,
                  Restart, Tick
    <2>3. x = d
      <3>1. healthy' = [healthy EXCEPT ![x] = ~@] /\ healthy \in [Deps -> BOOLEAN]
        BY <2>2 DEF StatusChange, AlertInv, Shape, AlertTypeOK
      <3> QED
        BY <3>1 DEF Recovers
    <2> QED
      BY <2>2, <2>3, RecoveryDispatched
  <1> QED
    BY <1>1, AlertInvariant, PTL DEF AlertSpec, RecoveryReported

=============================================================================

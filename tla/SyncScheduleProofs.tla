-------------------------- MODULE SyncScheduleProofs --------------------------
(***************************************************************************)
(* Proofs about SyncSchedule, for any number of configurations and of      *)
(* tasks at a time, and any intervals and limits.                          *)
(*                                                                         *)
(* Tasks leave and join the list through GoOn: the lemmas about it and     *)
(* about the list without one of its tasks carry both results.             *)
(***************************************************************************)
EXTENDS SyncSchedule, SequenceTheorems, TLAPS

Kinds == {"check", "team", "config"}
Tasks == [kind : Kinds, at : Ids, queue : SUBSET Ids]
LockAges == [Ids -> Off..StaleAfter + 1]
ManualAges == [Ids -> 0..ManualCooldown]

\* Whatever has a lock is being synced by one of these tasks.
HeldBy(locks, ts) == \A c \in Ids : locks[c] # Off => \E i \in DOMAIN ts : ts[i].at = c

----------------------------------------------------------------------------
(* Lists of tasks. *)

\* The list without one of its tasks has the others.
LEMMA WithoutOne ==
    ASSUME NEW ts \in Seq(Tasks), NEW i \in DOMAIN ts
    PROVE  /\ RemoveAt(ts, i) \in Seq(Tasks)
           /\ \A j \in DOMAIN ts \ {i} :
                \E q \in DOMAIN RemoveAt(ts, i) : RemoveAt(ts, i)[q] = ts[j]
  <1> DEFINE n == Len(ts)
             front == SubSeq(ts, 1, i - 1)
             back == SubSeq(ts, i + 1, n)
  <1>1. i \in 1..n /\ n \in Nat /\ DOMAIN ts = 1..n
    OBVIOUS
  <1>2. /\ front \in Seq(Tasks) /\ Len(front) = i - 1
        /\ \A q \in 1..i - 1 : front[q] = ts[q]
    BY <1>1
  <1>3. /\ back \in Seq(Tasks) /\ Len(back) = n - i
        /\ \A q \in 1..n - i : back[q] = ts[q + i]
    BY <1>1
  <1>4. RemoveAt(ts, i) = front \o back
    BY DEF RemoveAt
  <1> HIDE DEF front, back, n
  <1>5. /\ front \o back \in Seq(Tasks) /\ Len(front \o back) = n - 1
        /\ \A q \in 1..n - 1 : (front \o back)[q] =
              IF q <= i - 1 THEN front[q] ELSE back[q - (i - 1)]
    <2>1. Len(front) + Len(back) = n - 1
      BY <1>1, <1>2, <1>3
    <2> QED
      BY <1>2, <1>3, <2>1, ConcatProperties
  <1>6. ASSUME NEW j \in DOMAIN ts \ {i}
        PROVE  \E q \in DOMAIN (front \o back) : (front \o back)[q] = ts[j]
    <2>1. CASE j < i
      <3>1. j \in 1..n - 1 /\ j <= i - 1 /\ j \in 1..i - 1
        BY <1>1, <2>1
      <3> QED
        BY <1>2, <1>5, <3>1
    <2>2. CASE j > i
      <3>1. j - 1 \in 1..n - 1 /\ ~(j - 1 <= i - 1) /\ j - i \in 1..n - i
            /\ (j - 1) - (i - 1) = j - i /\ (j - i) + i = j
        BY <1>1, <2>2
      <3> QED
        <4>1. (front \o back)[j - 1] = back[(j - 1) - (i - 1)]
          BY <1>5, <3>1
        <4>2. back[j - i] = ts[(j - i) + i]
          BY <1>3, <3>1
        <4>3. j - 1 \in DOMAIN (front \o back)
          BY <1>1, <1>5, <3>1
        <4> QED
          BY <3>1, <4>1, <4>2, <4>3
    <2> QED
      BY <1>1, <2>1, <2>2
  <1> QED
    BY <1>4, <1>5, <1>6

\* A loop that goes on keeps the types, and it locks what it starts.
LEMMA GoOnOK ==
    ASSUME NEW kind \in Kinds, NEW queue \in SUBSET Ids,
           NEW others \in Seq(Tasks), NEW locks \in LockAges,
           manualAge \in ManualAges, HeldBy(locks, others),
           GoOn(kind, queue, others, locks)
    PROVE  /\ tasks' \in Seq(Tasks) /\ lockAge' \in LockAges
           /\ manualAge' \in ManualAges
           /\ HeldBy(lockAge', tasks')
  <1>1. CASE Startable(locks, queue) = {}
    BY <1>1 DEF GoOn
  <1>2. CASE Startable(locks, queue) # {}
    <2>1. PICK c \in Startable(locks, queue) :
            /\ tasks' = Append(others, Task(kind, c, {d \in queue : Before(c, d)}))
            /\ lockAge' = [locks EXCEPT ![c] = 0]
            /\ manualAge' = IF kind = "check" THEN manualAge ELSE [manualAge EXCEPT ![c] = 0]
      BY <1>2 DEF GoOn
    <2> DEFINE t == Task(kind, c, {d \in queue : Before(c, d)})
    <2>2. c \in Ids
      BY DEF Startable
    <2>3. t \in Tasks /\ t.at = c
      BY <2>2 DEF Task, Tasks
    <2> HIDE DEF t
    <2>4. tasks' = Append(others, t)
      BY <2>1 DEF t
    <2>5. /\ tasks' \in Seq(Tasks) /\ Len(tasks') = Len(others) + 1
          /\ tasks'[Len(others) + 1] = t
          /\ \A i \in DOMAIN others : i \in DOMAIN tasks' /\ tasks'[i] = others[i]
      BY <2>3, <2>4
    <2>6. 0 \in Off..StaleAfter + 1 /\ 0 \in 0..ManualCooldown
      BY ScheduleConstants DEF Off
    <2>7. lockAge' \in LockAges /\ manualAge' \in ManualAges
      BY <2>1, <2>6 DEF LockAges, ManualAges
    <2>8. Len(others) + 1 \in DOMAIN tasks'
      BY <2>5
    <2>9. HeldBy(lockAge', tasks')
      <3> SUFFICES ASSUME NEW d \in Ids, lockAge'[d] # Off
                   PROVE  \E i \in DOMAIN tasks' : tasks'[i].at = d
        BY DEF HeldBy
      <3>1. CASE d = c
        BY <2>3, <2>5, <2>8, <3>1
      <3>2. CASE d # c
        <4>1. locks[d] # Off
          BY <2>1, <3>2 DEF LockAges
        <4> QED
          BY <2>5, <4>1 DEF HeldBy
      <3> QED
        BY <3>1, <3>2
    <2> QED
      BY <2>5, <2>7, <2>9
  <1> QED
    BY <1>1, <1>2

\* When a task's sync has ended, its lock is gone and the other locks belong to
\* the other tasks.
LEMMA ReleasedOK ==
    ASSUME ScheduleTypeOK, LocksAreHeld, NEW i \in DOMAIN tasks
    PROVE  /\ Released(tasks[i].at) \in LockAges
           /\ HeldBy(Released(tasks[i].at), RemoveAt(tasks, i))
  <1>1. tasks \in Seq(Tasks) /\ lockAge \in LockAges
    BY DEF ScheduleTypeOK, Tasks, Kinds, LockAges
  <1>2. tasks[i] \in Tasks /\ tasks[i].at \in Ids
    <2>1. tasks[i] \in Tasks
      BY <1>1
    <2> QED
      BY <2>1 DEF Tasks
  <1>3. Off \in Off..StaleAfter + 1
    BY ScheduleConstants DEF Off
  <1>4. Released(tasks[i].at) \in LockAges
    BY <1>1, <1>3 DEF Released, LockAges
  <1>5. ASSUME NEW c \in Ids, Released(tasks[i].at)[c] # Off
        PROVE  \E q \in DOMAIN RemoveAt(tasks, i) : RemoveAt(tasks, i)[q].at = c
    <2>1. c # tasks[i].at /\ lockAge[c] # Off
      BY <1>1, <1>5 DEF Released, LockAges
    <2>2. PICK j \in DOMAIN tasks : tasks[j].at = c
      BY <2>1 DEF LocksAreHeld, InFlight
    <2> QED
      BY <1>1, <2>1, <2>2, WithoutOne
  <1> QED
    BY <1>4, <1>5 DEF HeldBy

----------------------------------------------------------------------------
(* The invariant. *)

\* What the steps do to configurations, ages, timer and phase.
LEMMA AgesStep ==
    ASSUME ScheduleTypeOK, [ScheduleNext]_vars
    PROVE  /\ setting' \in [Ids -> {"absent", "enabled", "disabled", "deleted"}]
           /\ syncAge' \in [Ids -> 0..SyncInterval]
           /\ checkAge' \in Off..CheckInterval /\ waited' \in 0..ShutdownWait
           /\ phase' \in {"up", "stopping", "stopped", "closed", "gone"}
  <1>1. /\ setting \in [Ids -> {"absent", "enabled", "disabled", "deleted"}]
        /\ syncAge \in [Ids -> 0..SyncInterval]
        /\ checkAge \in Off..CheckInterval /\ waited \in 0..ShutdownWait
        /\ phase \in {"up", "stopping", "stopped", "closed", "gone"}
    BY DEF ScheduleTypeOK
  <1>2. /\ SyncInterval \in 0..SyncInterval /\ 0 \in 0..SyncInterval
        /\ 0 \in 0..ShutdownWait /\ Off \in Off..CheckInterval /\ 0 \in Off..CheckInterval
    BY ScheduleConstants DEF Off
  <1> DEFINE Goal ==
        /\ setting' \in [Ids -> {"absent", "enabled", "disabled", "deleted"}]
        /\ syncAge' \in [Ids -> 0..SyncInterval]
        /\ checkAge' \in Off..CheckInterval /\ waited' \in 0..ShutdownWait
        /\ phase' \in {"up", "stopping", "stopped", "closed", "gone"}
  <1>3. ASSUME NEW c \in Ids, NEW value \in {"enabled", "disabled"},
               CreateConfig(c, value) \/ UpdateConfig(c, value)
        PROVE  Goal
    BY <1>1, <1>3 DEF CreateConfig, UpdateConfig, Configured
  <1>4. ASSUME NEW c \in Ids, DeleteConfig(c)
        PROVE  Goal
    BY <1>1, <1>2, <1>4 DEF DeleteConfig, Configured
  <1>5. ASSUME NEW c \in Ids, SyncConfig(c)
        PROVE  Goal
    BY <1>1, <1>5 DEF SyncConfig
  <1>6. CASE CheckSchedule \/ SyncTeam
    BY <1>1, <1>2, <1>6 DEF CheckSchedule, SyncTeam
  <1>7. ASSUME NEW i \in DOMAIN tasks, EndSync(i)
        PROVE  Goal
    BY <1>1, <1>2, <1>7 DEF EndSync
  <1>8. CASE Tick
    <2>1. \A age \in 0..SyncInterval : Older(age, SyncInterval) \in 0..SyncInterval
      BY ScheduleConstants DEF Older, Off
    <2>2. Older(waited, ShutdownWait) \in 0..ShutdownWait
      BY <1>1, ScheduleConstants DEF Older, Off
    <2>3. syncAge' \in [Ids -> 0..SyncInterval]
      BY <1>1, <1>8, <2>1 DEF Tick
    <2>4. checkAge' \in Off..CheckInterval
      BY <1>1, <1>2, <1>8, ScheduleConstants DEF Tick, Off
    <2>5. waited' \in 0..ShutdownWait /\ UNCHANGED <<setting, phase>>
      BY <1>1, <1>8, <2>2 DEF Tick
    <2> QED
      BY <1>1, <2>3, <2>4, <2>5
  <1>9. CASE BeginShutdown \/ EndShutdown \/ CloseDatabase
    BY <1>1, <1>2, <1>9 DEF BeginShutdown, EndShutdown, CloseDatabase
  <1>10. CASE EndProcess \/ Restart
    BY <1>1, <1>2, <1>10 DEF EndProcess, Restart
  <1>11. CASE UNCHANGED vars
    BY <1>1, <1>11 DEF vars
  <1> QED
    BY <1>3, <1>4, <1>5, <1>6, <1>7, <1>8, <1>9, <1>10, <1>11
       DEF ScheduleNext, EndAnySync

\* What the steps do to tasks and locks.
LEMMA TasksStep ==
    ASSUME ScheduleTypeOK, LocksAreHeld, [ScheduleNext]_vars
    PROVE  /\ tasks' \in Seq(Tasks) /\ lockAge' \in LockAges
           /\ manualAge' \in ManualAges
           /\ HeldBy(lockAge', tasks')
  <1> DEFINE Goal ==
        /\ tasks' \in Seq(Tasks) /\ lockAge' \in LockAges
        /\ manualAge' \in ManualAges
        /\ HeldBy(lockAge', tasks')
  <1>1. /\ tasks \in Seq(Tasks) /\ lockAge \in LockAges /\ manualAge \in ManualAges
        /\ HeldBy(lockAge, tasks)
    BY DEF ScheduleTypeOK, LocksAreHeld, InFlight, HeldBy, Tasks, Kinds, LockAges,
           ManualAges
  <1>2. ASSUME NEW kind \in Kinds, NEW queue \in SUBSET Ids,
               GoOn(kind, queue, tasks, lockAge)
        PROVE  Goal
    BY <1>1, <1>2, GoOnOK
  <1>3. Off \in Off..StaleAfter + 1 /\ ManualCooldown \in 0..ManualCooldown
    BY ScheduleConstants DEF Off
  <1>4. ASSUME UNCHANGED <<lockAge, manualAge, tasks>>
        PROVE  Goal
    BY <1>1, <1>4
  <1>5. ASSUME lockAge' = [c \in Ids |-> Off], manualAge' = [c \in Ids |-> ManualCooldown],
               tasks' \in {tasks, <<>>}
        PROVE  Goal
    <2>1. lockAge' \in LockAges /\ manualAge' \in ManualAges
      BY <1>3, <1>5 DEF LockAges, ManualAges
    <2>2. HeldBy(lockAge', tasks')
      BY <1>5 DEF HeldBy
    <2>3. <<>> \in Seq(Tasks)
      OBVIOUS
    <2> QED
      BY <1>1, <1>5, <2>1, <2>2, <2>3
  <1>6. ASSUME NEW i \in DOMAIN tasks, EndSync(i)
        PROVE  Goal
    <2> DEFINE t == tasks[i]
               rest == IF (t.kind = "check" /\ phase # "up") \/ phase = "closed"
                       THEN {} ELSE t.queue
    <2>1. t \in Tasks
      BY <1>1
    <2>2. t.kind \in Kinds /\ rest \in SUBSET Ids
      BY <2>1 DEF Tasks
    <2>3. GoOn(t.kind, rest, RemoveAt(tasks, i), Released(t.at))
      BY <1>6 DEF EndSync
    <2>4. RemoveAt(tasks, i) \in Seq(Tasks)
      BY <1>1, WithoutOne
    <2>5. Released(t.at) \in LockAges /\ HeldBy(Released(t.at), RemoveAt(tasks, i))
      BY ReleasedOK
    <2> HIDE DEF t, rest
    <2> QED
      BY <1>1, <2>2, <2>3, <2>4, <2>5, GoOnOK
  <1>7. CASE Tick
    <2>1. \A age \in Off..StaleAfter + 1 :
            /\ Older(age, StaleAfter + 1) \in Off..StaleAfter + 1
            /\ Older(age, StaleAfter + 1) # Off => age # Off
      BY ScheduleConstants DEF Older, Off
    <2>2. \A age \in 0..ManualCooldown : Older(age, ManualCooldown) \in 0..ManualCooldown
      BY ScheduleConstants DEF Older, Off
    <2>3. /\ lockAge' = [c \in Ids |-> Older(lockAge[c], StaleAfter + 1)]
          /\ manualAge' = [c \in Ids |-> Older(manualAge[c], ManualCooldown)]
          /\ tasks' = tasks
      BY <1>7 DEF Tick
    <2>4. lockAge' \in LockAges /\ manualAge' \in ManualAges
      BY <1>1, <2>1, <2>2, <2>3 DEF LockAges, ManualAges
    <2>5. HeldBy(lockAge', tasks')
      BY <1>1, <2>1, <2>3 DEF HeldBy, LockAges
    <2> QED
      BY <1>1, <2>3, <2>4, <2>5
  <1>8. ASSUME NEW c \in Ids, SyncConfig(c)
        PROVE  Goal
    BY <1>2, <1>8 DEF SyncConfig, Kinds
  <1>9. CASE CheckSchedule
    BY <1>2, <1>9 DEF CheckSchedule, Due, Kinds
  <1>10. CASE SyncTeam
    BY <1>2, <1>10 DEF SyncTeam, Kinds
  <1>11. ASSUME NEW c \in Ids, NEW value \in {"enabled", "disabled"},
                CreateConfig(c, value) \/ UpdateConfig(c, value) \/ DeleteConfig(c)
         PROVE  Goal
    BY <1>4, <1>11 DEF CreateConfig, UpdateConfig, DeleteConfig, Configured
  <1>12. CASE BeginShutdown \/ CloseDatabase \/ Restart \/ UNCHANGED vars
    BY <1>4, <1>12 DEF BeginShutdown, CloseDatabase, Restart, vars
  <1>13. CASE EndShutdown \/ EndProcess
    BY <1>5, <1>13 DEF EndShutdown, EndProcess
  <1> QED
    BY <1>6, <1>7, <1>8, <1>9, <1>10, <1>11, <1>12, <1>13 DEF ScheduleNext, EndAnySync

\* The types and the owners of the locks together are inductive.
LEMMA ScheduleStep ==
    ScheduleTypeOK /\ LocksAreHeld /\ [ScheduleNext]_vars => ScheduleTypeOK' /\ LocksAreHeld'
  BY AgesStep, TasksStep DEF ScheduleTypeOK, LocksAreHeld, InFlight, HeldBy, Tasks, Kinds,
     LockAges, ManualAges

\* At the start nothing is locked.
LEMMA ScheduleStart == ScheduleInit => ScheduleTypeOK /\ LocksAreHeld
  BY ScheduleConstants DEF ScheduleInit, ScheduleTypeOK, LocksAreHeld, Off

\* The ages stay within their limits and the tasks sync configurations.
THEOREM ScheduleTypeCorrect == ScheduleSpec => []ScheduleTypeOK
  BY ScheduleStart, ScheduleStep, PTL DEF ScheduleSpec

\* A lock never outlives the syncs of its configuration, however walks, team
\* syncs and single syncs overlap and take over each other's locks.
THEOREM LocksHaveOwners == ScheduleSpec => []LocksAreHeld
  BY ScheduleStart, ScheduleStep, PTL DEF ScheduleSpec
=============================================================================

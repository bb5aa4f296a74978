----------------------------- MODULE SyncSchedule -----------------------------
(***************************************************************************)
(* When manifests are synced: ManifestSyncService with its timer, the      *)
(* manual syncs of a configuration and of a team, the locks, the cooldown  *)
(* and the shutdown of index.ts.  What a sync does to the services is in   *)
(* ManifestSync; here it starts, awaits, and ends or hangs.                *)
(*                                                                         *)
(* The timer does not wait for the walk that it started before, so walks   *)
(* overlap.  Walks, team syncs and single syncs are tasks: each has one    *)
(* sync in flight and a queue of further ones.  Times are ages in ticks,   *)
(* kept only as far as something depends on them.                          *)
(***************************************************************************)
EXTENDS Integers, Sequences, FiniteSets, SequencesExt

CONSTANTS
    Manifests,      \* configurations, each once, in the order of their creation
    SyncInterval,   \* MANIFEST_SYNC_INTERVAL_MS
    CheckInterval,  \* SCHEDULE_CHECK_INTERVAL_MS
    StaleAfter,     \* STALE_LOCK_TIMEOUT_MS
    ManualCooldown, \* MANUAL_SYNC_COOLDOWN_MS
    ShutdownWait,   \* SHUTDOWN_WAIT_MS
    MaxTasks        \* bound: tasks at a time

ASSUME ScheduleConstants ==
    /\ {SyncInterval, CheckInterval, StaleAfter, ManualCooldown, ShutdownWait, MaxTasks}
          \subseteq Nat \ {0}
    /\ CheckInterval <= SyncInterval
    /\ IsInjective(Manifests)

Ids == ToSet(Manifests)
Off == -1

VARIABLES
    setting,   \* team_manifest_config: is_enabled, if there is the row
    syncAge,   \* the age of last_sync_at
    lockAge,   \* ManifestSyncService.locks, Off if there is none
    manualAge, \* lastManualSync
    tasks,     \* walks, team syncs and single syncs, oldest first
    checkAge,  \* since the timer fired, Off if there is none
    phase,     \* of the process
    waited     \* by shutdown

vars == <<setting, syncAge, lockAge, manualAge, tasks, checkAge, phase, waited>>

Enabled(c) == setting[c] = "enabled"
InFlight(c) == {i \in DOMAIN tasks : tasks[i].at = c}

\* isSyncingConfig: a lock that is too old counts for nothing.
Syncing(locks, c) == locks[c] # Off /\ locks[c] <= StaleAfter

Task(kind, c, rest) == [kind |-> kind, at |-> c, queue |-> rest]

\* findAllEnabled and findByTeamId order by creation.
Before(c, d) == \E i, j \in DOMAIN Manifests :
    i < j /\ Manifests[i] = c /\ Manifests[j] = d

\* The loops of checkSchedule and syncTeam: syncManifest gives up at once on a
\* configuration that is gone, disabled or locked, and the loop goes on.
Startable(locks, queue) == {c \in queue : Enabled(c) /\ ~Syncing(locks, c)}

\* The loop goes on behind the tasks "others" with the locks that they left.
GoOn(kind, queue, others, locks) ==
    IF Startable(locks, queue) = {}
    THEN /\ tasks' = others
         /\ lockAge' = locks
         /\ UNCHANGED manualAge
    ELSE \E c \in Startable(locks, queue) :
            /\ \A d \in Startable(locks, queue) \ {c} : Before(c, d)
            /\ tasks' = Append(others, Task(kind, c, {d \in queue : Before(c, d)}))
            /\ lockAge' = [locks EXCEPT ![c] = 0]
            /\ manualAge' = IF kind = "check" THEN manualAge ELSE [manualAge EXCEPT ![c] = 0]

ScheduleInit ==
    /\ setting = [c \in Ids |-> "absent"]
    /\ syncAge = [c \in Ids |-> SyncInterval]
    /\ lockAge = [c \in Ids |-> Off]
    /\ manualAge = [c \in Ids |-> ManualCooldown]
    /\ tasks = <<>>
    /\ checkAge \in {0, Off}    \* MANIFEST_SYNC_ENABLED
    /\ phase = "up"
    /\ waited = 0

----------------------------------------------------------------------------
(* Routes of the configurations, which work until the database is closed.  *)

Configured(c, value) ==
    /\ phase \notin {"closed", "gone"}
    /\ setting' = [setting EXCEPT ![c] = value]
    /\ UNCHANGED <<lockAge, manualAge, tasks, checkAge, phase, waited>>

CreateConfig(c, value) ==
    /\ setting[c] = "absent" /\ Configured(c, value)
    /\ UNCHANGED syncAge
UpdateConfig(c, value) ==
    /\ setting[c] \in {"enabled", "disabled"} \ {value} /\ Configured(c, value)
    /\ UNCHANGED syncAge
DeleteConfig(c) ==
    /\ setting[c] \in {"enabled", "disabled"} /\ Configured(c, "deleted")
    /\ syncAge' = [syncAge EXCEPT ![c] = SyncInterval]

----------------------------------------------------------------------------
(* Starting syncs. *)

MayStart == Len(tasks) < MaxTasks /\ phase \notin {"closed", "gone"}

\* Mutant: a walk waits for the one before it.
DueUnlessWalking ==
    IF \E i \in DOMAIN tasks : tasks[i].kind = "check" THEN {}
    ELSE {c \in Ids : Enabled(c) /\ syncAge[c] >= SyncInterval}
\* checkSchedule decides on all configurations when it starts.
Due == {c \in Ids : Enabled(c) /\ syncAge[c] >= SyncInterval}
CheckSchedule ==
    /\ checkAge = CheckInterval
    /\ MayStart
    /\ checkAge' = 0
    /\ GoOn("check", Due, tasks, lockAge)
    /\ UNCHANGED <<setting, syncAge, phase, waited>>

\* triggerConfigSync: disabled, in progress and cooldown are refused.
SyncConfig(c) ==
    /\ MayStart
    /\ Enabled(c) /\ ~Syncing(lockAge, c) /\ manualAge[c] >= ManualCooldown
    /\ GoOn("config", {c}, tasks, lockAge)
    /\ UNCHANGED <<setting, syncAge, checkAge, phase, waited>>

\* triggerTeamSync has no cooldown.
SyncTeam ==
    LET all == {c \in Ids : Enabled(c)}
    IN  /\ MayStart
        /\ all # {} /\ \A c \in Ids : setting[c] \in {"enabled", "disabled"} => ~Syncing(lockAge, c)
        /\ GoOn("team", all, tasks, lockAge)
        /\ UNCHANGED <<setting, syncAge, checkAge, phase, waited>>

\* Mutant: a sync whose configuration is gone leaves its lock.
ReleasedIfThere(c) == IF setting[c] = "deleted" THEN lockAge ELSE [lockAge EXCEPT ![c] = Off]
\* releaseLock, whoever holds it.
Released(c) == [lockAge EXCEPT ![c] = Off]

\* The sync of a task ends, well or not; recordSyncCompletion dates it if its
\* configuration is still there.  A walk stops when the service does.
EndSync(i) ==
    LET t == tasks[i]
        c == t.at
        rest == IF (t.kind = "check" /\ phase # "up") \/ phase = "closed" THEN {} ELSE t.queue
    IN  /\ syncAge' = IF setting[c] = "deleted" \/ phase = "closed" THEN syncAge
                      ELSE [syncAge EXCEPT ![c] = 0]
        /\ GoOn(t.kind, rest, RemoveAt(tasks, i), Released(c))
        /\ UNCHANGED <<setting, checkAge, phase, waited>>

----------------------------------------------------------------------------
(* Time, shutdown and restart. *)

\* Mutant: shutdown waits for every sync.
GiveUpNever == FALSE
\* shutdown waits for the syncs in flight, but not longer than this.
GiveUp == waited >= ShutdownWait

\* Mutant: times are counted past the limits they are compared with.
OlderUncapped(age, cap) == IF age = Off THEN age ELSE age + 1
\* A time is only asked for as far as a limit is compared with it.
Older(age, cap) == IF age = Off \/ age = cap THEN age ELSE age + 1
Tick ==
    /\ phase \in {"up", "stopping"}
    /\ checkAge < CheckInterval
    /\ phase = "stopping" => ~GiveUp
    /\ syncAge' = [c \in Ids |-> Older(syncAge[c], SyncInterval)]
    /\ lockAge' = [c \in Ids |-> Older(lockAge[c], StaleAfter + 1)]
    /\ manualAge' = [c \in Ids |-> Older(manualAge[c], ManualCooldown)]
    /\ checkAge' = IF checkAge = Off THEN Off ELSE checkAge + 1
    /\ waited' = IF phase = "stopping" THEN Older(waited, ShutdownWait) ELSE waited
    /\ UNCHANGED <<setting, tasks, phase>>

BeginShutdown ==
    /\ phase = "up"
    /\ phase' = "stopping"
    /\ checkAge' = Off
    /\ UNCHANGED <<setting, syncAge, lockAge, manualAge, tasks, waited>>

EndShutdown ==
    /\ phase = "stopping"
    /\ tasks = <<>> \/ GiveUp
    /\ phase' = "stopped"
    /\ lockAge' = [c \in Ids |-> Off]
    /\ manualAge' = [c \in Ids |-> ManualCooldown]
    /\ UNCHANGED <<setting, syncAge, tasks, checkAge, waited>>

\* pollingService.shutdown has ended: closeDatabase.
CloseDatabase ==
    /\ phase = "stopped"
    /\ phase' = "closed"
    /\ UNCHANGED <<setting, syncAge, lockAge, manualAge, tasks, checkAge, waited>>

\* The process ends, in order or not, and another one starts.
EndProcess ==
    /\ phase # "gone"
    /\ phase' = "gone"
    /\ tasks' = <<>>
    /\ lockAge' = [c \in Ids |-> Off]
    /\ manualAge' = [c \in Ids |-> ManualCooldown]
    /\ checkAge' = Off /\ waited' = 0
    /\ UNCHANGED <<setting, syncAge>>
Restart ==
    /\ phase = "gone"
    /\ phase' = "up"
    /\ checkAge' \in {0, Off}
    /\ UNCHANGED <<setting, syncAge, lockAge, manualAge, tasks, waited>>

EndAnySync == \E i \in DOMAIN tasks : EndSync(i)

ScheduleNext ==
    \/ \E c \in Ids :
          \/ \E value \in {"enabled", "disabled"} : CreateConfig(c, value) \/ UpdateConfig(c, value)
          \/ DeleteConfig(c)
          \/ SyncConfig(c)
    \/ CheckSchedule
    \/ SyncTeam
    \/ EndAnySync
    \/ Tick
    \/ BeginShutdown
    \/ EndShutdown
    \/ CloseDatabase
    \/ EndProcess
    \/ Restart

\* Timers fire, time passes, and of the syncs in flight some one ends: each is
\* a chain of requests of which the fetch has a timeout.  That every one ends
\* is not assumed, since the lookups of validateUrlNotPrivate have none.
Fairness ==
    /\ WF_vars(CheckSchedule) /\ WF_vars(Tick)
    /\ WF_vars(EndAnySync) /\ WF_vars(EndShutdown)

ScheduleSpec == ScheduleInit /\ [][ScheduleNext]_vars /\ Fairness

----------------------------------------------------------------------------
(* Properties. *)

ScheduleTypeOK ==
    /\ setting \in [Ids -> {"absent", "enabled", "disabled", "deleted"}]
    /\ syncAge \in [Ids -> 0..SyncInterval]
    /\ lockAge \in [Ids -> Off..StaleAfter + 1]
    /\ manualAge \in [Ids -> 0..ManualCooldown]
    /\ tasks \in Seq([kind : {"check", "team", "config"}, at : Ids, queue : SUBSET Ids])
    /\ checkAge \in Off..CheckInterval /\ waited \in 0..ShutdownWait
    /\ phase \in {"up", "stopping", "stopped", "closed", "gone"}

\* No lock outlives the syncs of its configuration, whatever took over whose
\* lock and whoever deleted the configuration meanwhile (acquireLock,
\* releaseLock, the finally of syncManifest).
LocksAreHeld == \A c \in Ids : lockAge[c] # Off => InFlight(c) # {}

\* A configuration that stays enabled is synced again and again, though a
\* sync may hang for ever and keep its lock and its walk: the next walks pass
\* it by until its lock is stale (checkSchedule, isSyncingConfig).
SyncedAgain == \A c \in Ids :
    []<>(syncAge[c] < SyncInterval \/ ~Enabled(c) \/ checkAge = Off \/ phase # "up")

\* A shutdown ends although a sync hangs (shutdown, SHUTDOWN_WAIT_MS).
ShutdownEnds == phase = "stopping" ~> phase # "stopping"
=============================================================================

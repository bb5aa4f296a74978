------------------------------- MODULE Retention -------------------------------
(***************************************************************************)
(* The daily cleanup (DataRetentionService) and the settings it reads      *)
(* (SettingsService over the settings table, spanRetention).               *)
(*                                                                         *)
(* Time passes in slots of the local day.  The tables are cleaned in order *)
(* and each by a statement of its own, so a failure leaves the rest.  The  *)
(* check, every cutoff and the end of a cleanup read the clock anew: as a  *)
(* bound, at most one slot ends while a cleanup runs, in which nothing     *)
(* else runs.  Of a table only the rows a cleanup may delete are modelled: *)
(* no drift flag that is open, no association that is not dismissed.       *)
(***************************************************************************)
EXTENDS Integers, Sequences, SequencesExt, FiniteSets

CONSTANTS
    Tables,        \* the tables, in the order of runCleanup, one for those
                   \* that share a cutoff
    BySetting,     \* those cleaned after data_retention_days
    BySpanSetting, \* those cleaned after span_retention_days
    FixedDays,     \* the days of the others
    SlotsPerDay,
    Times,         \* cleanup times: slots of the day
    EnvTime,       \* RETENTION_CLEANUP_TIME, which nothing validates
    DaysInputs,    \* days as written in a request, by parseInt and parseFloat
    EnvDays, MaxRetention,
    MaxSlots       \* bound: time

NoTime == -1      \* Number() of something that is not a time: NaN
NoDay == -1       \* lastCleanupDate = null
NotSet == [int |-> 0, float |-> 0]
NeverChecked == [at |-> 0, failed |-> FALSE, reached |-> FALSE]

ASSUME RetentionConstants ==
    /\ BySetting \cap BySpanSetting = {}
    /\ BySetting \cup BySpanSetting \subseteq Range(Tables)
    /\ FixedDays \in [Range(Tables) -> Nat]
    /\ MaxSlots \in Nat /\ SlotsPerDay \in Nat \ {0} /\ Times \subseteq 0..(SlotsPerDay - 1)
    /\ EnvTime \in Times \cup {NoTime}
    /\ MaxRetention \in Nat /\ EnvDays \in 1..MaxRetention

VARIABLES
    slot,      \* local time
    rows,      \* the times of the rows of each table
    settings,  \* settings and app_settings in the database
    cached,    \* SettingsService.cache
    keeper,    \* the process: lastCleanupDate while it is up
    begun,     \* history: the successful cleanups of this process, by the day
    ended,     \* of the check that began them, and the day they ended on
    checked    \* history: the last check, whether it failed or was before the time

retentionVars == <<slot, rows, settings, cached, keeper, begun, ended, checked>>

Slots == 0..MaxSlots
Day(t) == t \div SlotsPerDay
Days == {Day(t) : t \in Slots}
SettingOf == [time : Times \cup {NoTime}, days : DaysInputs \cup {NotSet}]

\* get: the value in the cache, or the one of the environment.
CleanupTime == IF cached.time # NoTime THEN cached.time ELSE EnvTime
RetentionDays == IF cached.days # NotSet THEN cached.days.float ELSE EnvDays

\* Mutant: the date of toISOString, which begins in another slot of the day.
DateInUtc(t) == (t + 1) \div SlotsPerDay
\* formatLocalDate.
DateOf(t) == t \div SlotsPerDay

\* checkAndRun; a time that is NaN has never been reached.
Reached(t) == CleanupTime # NoTime /\ t % SlotsPerDay >= CleanupTime
Due(t) == keeper.last # DateOf(t) /\ Reached(t)

DaysOf(table) ==
    CASE table \in BySetting -> RetentionDays
      [] table \in BySpanSetting -> settings.spanDays
      [] OTHER -> FixedDays[table]
Old(table, t) == {r \in rows[table] : r < t - DaysOf(table) * SlotsPerDay}

\* runCleanup up to table n, the first one that fails: the slot ends before the
\* cutoff of table k, or not at all when k > n.  A number of days too large for
\* a Date fails before the first table.
Statements == 1..(Len(Tables) + 1)
MayFailAt(n) == n \in Statements /\ (RetentionDays > MaxRetention => n = 1)
ClockAt(i, k) == IF i >= k THEN slot + 1 ELSE slot
Deleted(table, n, k) ==
    UNION {Old(table, ClockAt(i, k)) : i \in {j \in 1..(n - 1) : Tables[j] = table}}
WrittenAt(t) == IF t = slot THEN {} ELSE {t}
Cleaned(n, k) == [table \in DOMAIN rows |->
    (rows[table] \ Deleted(table, n, k)) \cup WrittenAt(ClockAt(n, k))]

\* One check of the scheduler: the date of the check is compared with the last
\* one, and what is kept is the date at the end.
Check(n, k) ==
    IF Due(slot)
    THEN /\ MayFailAt(n) /\ k \in 1..(n + 1)
         /\ slot' = ClockAt(n, k) /\ slot' \in Slots
         /\ rows' = Cleaned(n, k)
         /\ LET done == n > Len(Tables) IN
            /\ keeper' = [keeper EXCEPT !.last = IF done THEN DateOf(slot') ELSE @]
            /\ begun' = [begun EXCEPT ![Day(slot)] = IF done THEN @ + 1 ELSE @]
            /\ ended' = [ended EXCEPT ![Day(slot')] = IF done THEN @ + 1 ELSE @]
            /\ checked' = [at |-> slot, failed |-> ~done, reached |-> TRUE]
    ELSE /\ n = 1 /\ k = 1
         /\ checked' = [at |-> slot, failed |-> FALSE, reached |-> Reached(slot)]
         /\ UNCHANGED <<slot, rows, keeper, begun, ended>>

----------------------------------------------------------------------------
\* While the process is up, every slot leaves rows in every table.
Tick ==
    /\ slot < MaxSlots /\ slot' = slot + 1
    /\ rows' = (IF keeper.up THEN [table \in DOMAIN rows |-> rows[table] \cup {slot'}] ELSE rows)
    /\ UNCHANGED <<settings, cached, keeper, begun, ended, checked>>

\* The interval of a minute is shorter than a slot, and late under load.
Interval(n, k) ==
    /\ keeper.up
    /\ Check(n, k)
    /\ UNCHANGED <<settings, cached>>

\* updateSettings: what validateSettingValue accepts is stored as it was written.
SetTime(time) ==
    /\ keeper.up
    /\ settings' = [settings EXCEPT !.time = time]
    /\ cached' = [cached EXCEPT !.time = time]
    /\ UNCHANGED <<slot, rows, keeper, begun, ended, checked>>
SetDays(days) ==
    /\ keeper.up /\ days.int \in 1..MaxRetention
    /\ settings' = [settings EXCEPT !.days = days]
    /\ cached' = [cached EXCEPT !.days = days]
    /\ UNCHANGED <<slot, rows, keeper, begun, ended, checked>>
SetSpanDays(days) ==
    /\ keeper.up /\ days \in 1..MaxRetention
    /\ settings' = [settings EXCEPT !.spanDays = days]
    /\ UNCHANGED <<slot, rows, cached, keeper, begun, ended, checked>>

\* The date of the last cleanup is not stored.
Stop ==
    /\ keeper.up
    /\ keeper' = [up |-> FALSE, last |-> NoDay]
    /\ UNCHANGED <<slot, rows, settings, cached, begun, ended, checked>>

\* start() after loadFromDatabase(); its first check is the next Interval.
Restart ==
    /\ ~keeper.up
    /\ keeper' = [keeper EXCEPT !.up = TRUE]
    /\ cached' = [time |-> settings.time, days |-> settings.days]
    /\ begun' = [d \in Days |-> 0] /\ ended' = [d \in Days |-> 0]
    /\ checked' = NeverChecked
    /\ UNCHANGED <<slot, rows, settings>>

RetentionInit ==
    /\ slot = 0
    /\ rows = [table \in Range(Tables) |-> {}]
    /\ settings = [time |-> NoTime, days |-> NotSet, spanDays |-> 1]
    /\ cached = [time |-> NoTime, days |-> NotSet]
    /\ keeper = [up |-> TRUE, last |-> NoDay]
    /\ begun = [d \in Days |-> 0] /\ ended = [d \in Days |-> 0]
    /\ checked = NeverChecked

RetentionNext ==
    \/ Tick \/ Stop \/ Restart
    \/ \E n \in Statements : \E k \in 1..(n + 1) : Interval(n, k)
    \/ \E time \in Times : SetTime(time)
    \/ \E days \in DaysInputs : SetDays(days) \/ SetSpanDays(days.int)

RetentionSpec == RetentionInit /\ [][RetentionNext]_retentionVars

RetentionTypeOK ==
    /\ slot \in Slots
    /\ rows \in [Range(Tables) -> SUBSET Slots]
    /\ settings \in [time : Times \cup {NoTime}, days : DaysInputs \cup {NotSet},
                    spanDays : 1..MaxRetention]
    /\ cached \in SettingOf
    /\ keeper \in [up : BOOLEAN, last : {NoDay} \cup Days]
    /\ begun \in [Days -> Nat] /\ ended \in [Days -> Nat]
    /\ checked \in [at : Slots, failed : BOOLEAN, reached : BOOLEAN]

\* A cleanup that began on the day before ended on this one, on which none began.
CarriedOver(d) == begun[d] = 0 /\ ended[d] = 1 /\ d - 1 \in Days /\ begun[d - 1] = 1

(* On every local day a process checks in at or after the cleanup time of the  *)
(* moment it cleans up exactly once, however often it checks, whatever failed  *)
(* before and whoever moves the time meanwhile, and never twice on a day (the  *)
(* comment of DataRetentionService: "Runs cleanup at most once per day").  The *)
(* exception: a day that is CarriedOver is skipped, because the date kept is   *)
(* that of the end.  So no two days in a row are.                              *)
CleanedDaily ==
    /\ \A d \in Days : begun[d] <= 1 /\ ended[d] <= 1
    /\ checked.reached /\ ~checked.failed =>
          begun[Day(checked.at)] = 1 \/ CarriedOver(Day(checked.at))
=============================================================================

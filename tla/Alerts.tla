------------------------------- MODULE Alerts -------------------------------
(***************************************************************************)
(* The alerts of one team: AlertService.processEvent with its delay        *)
(* tracker, FlapProtector and AlertRateLimiter, the dispatch to the        *)
(* channels with its one retry, the mutes of AlertMuteStore, and the       *)
(* routes that change rule, mutes and channels meanwhile.                  *)
(*                                                                         *)
(* An event is processed without an await up to its first send, so         *)
(* Process is one step; the sends of a dispatch, one channel after the     *)
(* other, are steps of their own.  The clock counts abstract units, of     *)
(* which HourLength make an hour and DayLength a (UTC) day; the 30 seconds *)
(* before a retry are less than a unit.                                    *)
(***************************************************************************)
EXTENDS Integers, FiniteSets, Sequences, Bags, FiniteSetsExt

BagOps == INSTANCE BagsExt

CONSTANTS
    Deps,          \* dependencies of the team's service
    Service,       \* the service: the key of its poll errors
    Canonical,     \* the canonical name of each dependency
    Channels,      \* ids of alert channels
    Rules,         \* the rules a team may set
    Off,           \* NULL: no rule, no custom value, no delay, not tracked
    Forever,       \* the expiry of a mute without a duration
    MuteTargets,   \* what users mute
    Durations,     \* durations of mutes
    CooldownSetting, LimitSetting,  \* the settings a rule may override
    HourLength, DayLength,
    MaxTime,       \* bound: the last instant of the clock
    MaxCount,      \* bound: alerts counted in a window
    MaxInFlight    \* bound: dispatches and retries at the same time

Rule == [filter : {"critical", "warning", "all"}, active : BOOLEAN,
         custom : BOOLEAN, cooldown : Nat \cup {Off},
         limit : Nat \cup {Off}, delay : (Nat \ {0}) \cup {Off}]
Window == [count : Nat, start : Nat]
Keys == Deps \cup {Service}
Targets == Keys \cup {Canonical[d] : d \in Deps}

DefaultRule == [filter |-> "all", active |-> TRUE, custom |-> FALSE,
                cooldown |-> Off, limit |-> Off, delay |-> Off]
Settable == Rules \cup {DefaultRule}
LimitOf(r) == IF r.custom /\ r.limit # Off THEN r.limit ELSE LimitSetting
TopLimit == Max({LimitOf(r) : r \in Settable})

ASSUME AlertConstants ==
    /\ Service \notin Deps
    /\ Rules \subseteq Rule
    /\ Off \notin Nat \cup Rule \cup Window /\ Forever \notin Nat \cup {Off}
    /\ MuteTargets \subseteq Targets
    /\ Durations \subseteq Nat \ {0}
    /\ {HourLength, DayLength} \subseteq Nat \ {0}
    /\ {CooldownSetting, LimitSetting, MaxTime, MaxCount, MaxInFlight} \subseteq Nat
    \* validateAlertRules bounds the limits of rules.
    /\ \E r \in Settable : \A q \in Settable : LimitOf(q) <= LimitOf(r)

VARIABLES
    now,       \* the clock
    healthy,   \* dependencies.healthy
    rule,      \* the team's rule: no team gets a second one
    channel,   \* the channels: absent, active or inactive
    mutes,     \* expires_at of the mute of each target, or Off
    tracker,   \* AlertService.delayTracker
    alerted,   \* AlertService.delayAlertSent
    lastAlert, \* FlapProtector.lastAlertTimes
    window,    \* AlertRateLimiter.teamCounts of the team
    sending,   \* dispatches that await a send
    retries,   \* AlertService.pendingRetries
    down,      \* history: the rule under which a down dependency was reported
    log        \* history: alerts that are not recoveries, since the start

memory == <<tracker, alerted, lastAlert, window>>
database == <<rule, channel, mutes>>
network == <<sending, retries>>
alertVars == <<now, healthy, database, memory, network, down, log>>

----------------------------------------------------------------------------
(* Events, rules and mutes. *)

Events == [key : Keys, kind : {"down", "up", "error"}]
Event(k, kind) == [key |-> k, kind |-> kind]
IsRecovery(ev) == ev.kind = "up"

\* matchesSeverity: recoveries are warnings, everything else is critical.
Matches(ev) == IsRecovery(ev) => rule.filter \in {"all", "warning"}
ActiveChannels == {c \in Channels : channel[c] = "active"}
\* Steps 2 to 4: an active rule that matches, and a channel to send to.
Concerns(ev) == rule # Off /\ rule.active /\ Matches(ev) /\ ActiveChannels # {}

Cooldown == IF rule.custom /\ rule.cooldown # Off THEN rule.cooldown ELSE CooldownSetting
Limit == LimitOf(rule)

Day(t) == t \div DayLength
\* expires_at > datetime('now') compares texts: the ISO text that the route
\* stores is greater than any time of the same day that SQLite writes.
InForce(target) ==
    /\ mutes[target] # Off
    /\ mutes[target] # Forever => Day(mutes[target]) >= Day(now)
\* isServiceMuted and isEffectivelyMuted.
Muted(ev) == \/ InForce(ev.key)
             \/ ev.key \in Deps /\ InForce(Canonical[ev.key])

----------------------------------------------------------------------------
(* The delay. *)

Delayed(ev) == rule.delay # Off /\ ev.kind = "down"
\* Mutant: what was reported is forgotten.
UnreportedTracked(k) == tracker[k] # Off
Unreported(k) == tracker[k] # Off /\ k \notin alerted
\* Steps that end here: a recovery of what was never reported, the first
\* event of a delay, one before the delay is over.
Withheld(ev) ==
    \/ IsRecovery(ev) /\ Unreported(ev.key) /\ rule.delay # Off
    \/ /\ Delayed(ev)
       /\ tracker[ev.key] # Off => now - tracker[ev.key] < rule.delay

TrackerAfter(ev) ==
    IF IsRecovery(ev) THEN [tracker EXCEPT ![ev.key] = Off]
    ELSE IF Delayed(ev) /\ tracker[ev.key] = Off
         THEN [tracker EXCEPT ![ev.key] = now] ELSE tracker
\* Mutant: a recovery clears only the tracker.
AlertedKept(ev) == IF Delayed(ev) /\ ~Withheld(ev) THEN alerted \cup {ev.key} ELSE alerted
AlertedAfter(ev) ==
    IF IsRecovery(ev) THEN alerted \ {ev.key}
    ELSE IF Delayed(ev) /\ ~Withheld(ev) THEN alerted \cup {ev.key} ELSE alerted

----------------------------------------------------------------------------
(* Flap protection and the rate limit. *)

Flaps(ev) ==
    /\ Cooldown > 0 /\ lastAlert[ev.key] # Off
    /\ now - lastAlert[ev.key] < Cooldown
\* getOrCreateEntry.
CurrentWindow ==
    IF window = Off \/ now - window.start >= HourLength
    THEN [count |-> 0, start |-> now] ELSE window
\* Mutant: one alert too many.
LimitPassed == CurrentWindow.count > Limit
LimitReached == CurrentWindow.count >= Limit
Suppressed(ev) == ~IsRecovery(ev) /\ (Flaps(ev) \/ LimitReached)

----------------------------------------------------------------------------
(* processEvent. *)

\* FlapProtector.recordAlert.
LastAlertAfter(ev) == [lastAlert EXCEPT ![ev.key] = now]

\* What the team knows of a dependency that is down.
Told(ev, sent) ==
    CASE ev.kind = "error" -> down
      [] ev.kind = "up"    -> [down EXCEPT ![ev.key] = Off]
      [] ev.kind = "down"  -> [down EXCEPT ![ev.key] = IF sent THEN rule ELSE Off]

Ignore(ev) ==
    /\ ~Concerns(ev)
    /\ down' = Told(ev, FALSE)
    /\ UNCHANGED <<memory, network, log>>

Mute(ev) ==
    /\ Concerns(ev) /\ Muted(ev)
    /\ down' = Told(ev, FALSE)
    /\ UNCHANGED <<memory, network, log>>

Withhold(ev) ==
    /\ Concerns(ev) /\ ~Muted(ev) /\ Withheld(ev)
    /\ tracker' = TrackerAfter(ev)
    /\ alerted' = AlertedAfter(ev)
    /\ down' = Told(ev, FALSE)
    /\ UNCHANGED <<lastAlert, window, network, log>>

Passes(ev) == Concerns(ev) /\ ~Muted(ev) /\ ~Withheld(ev)

Suppress(ev) ==
    /\ Passes(ev) /\ Suppressed(ev)
    /\ tracker' = TrackerAfter(ev)
    /\ alerted' = AlertedAfter(ev)
    /\ window' = IF Flaps(ev) THEN window ELSE CurrentWindow
    /\ down' = Told(ev, FALSE)
    /\ UNCHANGED <<lastAlert, network, log>>

Entry(ev) == [key |-> ev.key, at |-> now, cooldown |-> Cooldown]
\* The channels of the moment are served one by one.
Dispatch(ev) ==
    /\ Passes(ev) /\ ~Suppressed(ev)
    /\ tracker' = TrackerAfter(ev)
    /\ alerted' = AlertedAfter(ev)
    /\ lastAlert' = LastAlertAfter(ev)
    /\ window' = [CurrentWindow EXCEPT !.count = @ + 1]
    /\ sending' = BagOps!BagAdd(sending, [event |-> ev, left |-> ActiveChannels])
    /\ down' = Told(ev, TRUE)
    /\ log' = IF IsRecovery(ev) THEN log ELSE Append(log, Entry(ev))
    /\ UNCHANGED retries

Process(ev) ==
    \/ Ignore(ev)
    \/ Mute(ev)
    \/ Withhold(ev)
    \/ Suppress(ev)
    \/ Dispatch(ev)

----------------------------------------------------------------------------
(* What is polled, and the time. *)

WithinBounds ==
    /\ BagCardinality(sending) + BagCardinality(retries) < MaxInFlight
    /\ CurrentWindow.count < MaxCount

\* A poll finds the other health than the one stored (DependencyStore.upsert
\* announces no change for a new dependency).
StatusChange(d) ==
    /\ WithinBounds
    /\ healthy' = [healthy EXCEPT ![d] = ~@]
    /\ Process(Event(d, IF healthy[d] THEN "down" ELSE "up"))
    /\ UNCHANGED <<now, database>>

PollError ==
    /\ WithinBounds
    /\ Process(Event(Service, "error"))
    /\ UNCHANGED <<now, healthy, database>>

Tick ==
    /\ now < MaxTime
    /\ now' = now + 1
    /\ UNCHANGED <<healthy, database, memory, network, down, log>>

----------------------------------------------------------------------------
(* The sends of a dispatch: a failed one is tried again once. *)

\* Mutant: a dispatch without channels left is not dropped.
RestKept(s, c) == BagOps!BagAdd(BagOps!BagRemove(sending, s), [s EXCEPT !.left = @ \ {c}])
Rest(s, c) ==
    LET others == BagOps!BagRemove(sending, s)
    IN  IF s.left = {c} THEN others ELSE BagOps!BagAdd(others, [s EXCEPT !.left = @ \ {c}])

SendEnds(s, c, ok) ==
    /\ BagIn(s, sending) /\ c \in s.left
    /\ sending' = Rest(s, c)
    /\ retries' = IF ok THEN retries
                  ELSE BagOps!BagAdd(retries, [event |-> s.event, channel |-> c])
    /\ UNCHANGED <<now, healthy, database, memory, down, log>>

RetryEnds(r) ==
    /\ BagIn(r, retries)
    /\ retries' = BagOps!BagRemove(retries, r)
    /\ UNCHANGED <<now, healthy, database, memory, sending, down, log>>

----------------------------------------------------------------------------
(* The routes, the daily clean-up and a restart. *)

\* updateAlertRules: the rule of the team is updated or created.
UpdateRule(r) ==
    /\ rule # r
    /\ rule' = r
    /\ UNCHANGED <<now, healthy, channel, mutes, memory, network, down, log>>

\* createAlertChannel: the first channel brings the default rule.
CreateChannel(c) ==
    /\ channel[c] = "absent"
    /\ channel' = [channel EXCEPT ![c] = "active"]
    /\ rule' = IF rule = Off THEN DefaultRule ELSE rule
    /\ UNCHANGED <<now, healthy, mutes, memory, network, down, log>>

\* updateAlertChannel and deleteAlertChannel.
ChangeChannel(c, status) ==
    /\ channel[c] \notin {"absent", status}
    /\ channel' = [channel EXCEPT ![c] = status]
    /\ UNCHANGED <<now, healthy, rule, mutes, memory, network, down, log>>

\* createAlertMute: a second mute of a target violates a unique index.
CreateMute(target, expiry) ==
    /\ mutes[target] = Off
    /\ mutes' = [mutes EXCEPT ![target] = expiry]
    /\ UNCHANGED <<now, healthy, rule, channel, memory, network, down, log>>

DeleteMute(target) ==
    /\ mutes[target] # Off
    /\ mutes' = [mutes EXCEPT ![target] = Off]
    /\ UNCHANGED <<now, healthy, rule, channel, memory, network, down, log>>

\* deleteExpired, from the daily retention run.
DeleteExpired ==
    /\ \E t \in Targets : mutes[t] # Off /\ ~InForce(t)
    /\ mutes' = [t \in Targets |-> IF InForce(t) THEN mutes[t] ELSE Off]
    /\ UNCHANGED <<now, healthy, rule, channel, memory, network, down, log>>

Fresh ==
    [tracker |-> [k \in Keys |-> Off], alerted |-> {},
     lastAlert |-> [k \in Keys |-> Off], window |-> Off]
\* shutdown, or a crash, and the next start: the memory is lost.
Restart ==
    /\ tracker' = Fresh.tracker /\ alerted' = Fresh.alerted
    /\ lastAlert' = Fresh.lastAlert /\ window' = Fresh.window
    /\ sending' = EmptyBag /\ retries' = EmptyBag
    /\ down' = [d \in Deps |-> Off] /\ log' = <<>>
    /\ UNCHANGED <<now, healthy, database>>

----------------------------------------------------------------------------
AlertInit ==
    /\ now = 0
    /\ healthy \in [Deps -> BOOLEAN]
    /\ rule = Off
    /\ channel = [c \in Channels |-> "absent"]
    /\ mutes = [t \in Targets |-> Off]
    /\ tracker = Fresh.tracker /\ alerted = Fresh.alerted
    /\ lastAlert = Fresh.lastAlert /\ window = Fresh.window
    /\ sending = EmptyBag /\ retries = EmptyBag
    /\ down = [d \in Deps |-> Off]
    /\ log = <<>>

Routes ==
    \/ \E r \in Rules : UpdateRule(r)
    \/ \E c \in Channels :
          CreateChannel(c) \/ \E s \in {"active", "inactive", "absent"} : ChangeChannel(c, s)
    \/ \E t \in MuteTargets : \/ DeleteMute(t)
                              \/ \E d \in Durations : CreateMute(t, now + d)
                              \/ CreateMute(t, Forever)

AlertNext ==
    \/ \E d \in Deps : StatusChange(d)
    \/ PollError
    \/ \E s \in BagToSet(sending) : \E c \in s.left, ok \in BOOLEAN : SendEnds(s, c, ok)
    \/ \E r \in BagToSet(retries) : RetryEnds(r)
    \/ Routes
    \/ DeleteExpired
    \/ Restart
    \/ Tick

AlertSpec == AlertInit /\ [][AlertNext]_alertVars

----------------------------------------------------------------------------
(* Properties. *)

Instants == 0..MaxTime
Dispatches == [event : Events, left : (SUBSET Channels) \ {{}}]
Retries == [event : Events, channel : Channels]
AlertTypeOK ==
    /\ now \in Instants
    /\ healthy \in [Deps -> BOOLEAN]
    /\ rule \in Rule \cup {Off}
    /\ channel \in [Channels -> {"absent", "active", "inactive"}]
    /\ mutes \in [Targets -> Nat \cup {Off, Forever}]
    /\ tracker \in [Keys -> Instants \cup {Off}]
    /\ alerted \subseteq Keys
    /\ lastAlert \in [Keys -> Instants \cup {Off}]
    /\ window = Off \/ window \in [count : Nat, start : Instants]
    /\ IsABag(sending) /\ IsABag(retries)
    /\ BagToSet(sending) \subseteq Dispatches /\ BagToSet(retries) \subseteq Retries
    /\ down \in [Deps -> Rule \cup {Off}]
    /\ log \in Seq([key : Keys, at : Instants, cooldown : Nat])

\* A delayed alert is only remembered as sent while its delay is tracked:
\* otherwise the next outage would find the mark of an older one, and its
\* recovery would be announced without an alert (steps 6 of processEvent).
AlertedTracked == \A k \in alerted : tracker[k] # Off

Recovers(d) == ~healthy[d] /\ healthy'[d]
Listening == rule.active /\ rule.filter # "critical" /\ ActiveChannels # {}

\* A team that was told that a dependency is down is told when it comes back
\* up, by the same rule: neither the delay nor flap protection nor the rate
\* limit keeps the recovery back (step 5 of processEvent).
RecoveryReported == [][\A d \in Deps :
    (Recovers(d) /\ down[d] # Off /\ down[d] = rule /\ Listening
        /\ ~Muted(Event(d, "up")))
    => sending' # sending]_alertVars

\* Whatever hour one looks at, a team gets no more than twice its hourly limit
\* of alerts in it, recoveries apart: the window of AlertRateLimiter is fixed,
\* so its limit may be used up on both sides of its end.
HourlyBound == \A t \in Instants :
    Cardinality({i \in DOMAIN log : log[i].at \in t..(t + HourLength - 1)})
        <= 2 * TopLimit

\* An alert comes a cooldown after the one before for the same key, recoveries
\* apart, also when the dependency recovered in between (FlapProtector).
CooldownKept == \A i, j \in DOMAIN log :
    (i < j /\ log[i].key = log[j].key)
    => log[j].at - log[i].at >= log[j].cooldown

\* What the rate limiter and flap protection promise together.
AlertsBounded == HourlyBound /\ CooldownKept

----------------------------------------------------------------------------
(* Statements of documents and comments that the code does not keep. *)

Unexpired(target) ==
    mutes[target] # Off /\ (mutes[target] # Forever => mutes[target] > now)
\* "Expired mutes are ignored" (AlertMuteStore): the recovery of a dependency
\* all of whose mutes have expired is announced like that of an unmuted one.
ExpiredMutesIgnored == [][\A d \in Deps :
    (Recovers(d) /\ down[d] # Off /\ down[d] = rule /\ Listening
        /\ ~Unexpired(d) /\ ~Unexpired(Canonical[d]))
    => sending' # sending]_alertVars

\* "require continuous unhealthy state for N minutes before alerting"
\* (AlertService): with a delay, the change to unhealthy is never itself
\* reported.
DelayMeansContinuous == [][\A d \in Deps :
    (healthy[d] /\ ~healthy'[d] /\ rule # Off /\ rule.delay # Off)
    => log' = log]_alertVars
=============================================================================

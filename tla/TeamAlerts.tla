------------------------------ MODULE TeamAlerts ------------------------------
(***************************************************************************)
(* The alert settings of a team: the rows of alert_channels, alert_rules   *)
(* and alert_mutes, the routes that change them, and the panels of the     *)
(* team page that show and edit them.                                      *)
(*                                                                         *)
(* A panel loads its list when it is mounted and again after what it has   *)
(* changed; answers of the server may be read early and come late.  Other  *)
(* clients change the rows meanwhile.  A request that the client has sent  *)
(* and its answer are one step of the server: nothing on the page depends  *)
(* on the time between them.                                               *)
(***************************************************************************)
EXTENDS Integers, FiniteSets

CONSTANTS
    ChannelIds,     \* bound: channels of the team
    Urls,           \* URLs that are valid for their type
    TypedUrls,      \* of these, the ones typed into the form
    Muteable,       \* the scopes of mutes that are looked at
    MaxMuteCalls,   \* bound: requests and loads of mutes in flight
    ChannelPuts,    \* what other clients send for a channel
    RulePuts,       \* what other clients send for the rule
    None          \* NULL

ChannelTypes == {"slack", "webhook"}
\* One custom header stands for all of them; methods are plain and left out.
HeaderValues == {"secret", "mask"}
ChannelConfig ==
    [kind : {"slack"}, url : Urls, header : {None}]
    \cup [kind : {"webhook"}, url : Urls, header : HeaderValues \cup {None}]
ChannelRow == [type : ChannelTypes, config : ChannelConfig, active : BOOLEAN]

\* Of the thresholds, which are numbers or NULL, one is kept: "set" is a valid
\* number, "bad" one that the server refuses, "" an empty input.
Limits == {"set", "bad"}
AlertRule == [severity : {"all", "critical"}, active : BOOLEAN, custom : BOOLEAN,
              limit : {"set", None}]
\* What a request may have of it.
RuleSent == [severity : {"all", "critical"}, active : BOOLEAN, custom : BOOLEAN,
             limit : Limits \cup {None}]
DefaultRule == [severity |-> "all", active |-> TRUE, custom |-> FALSE, limit |-> None]

\* What may be muted: a service, its dependency, a canonical name; and the
\* team that has the service, "own" being the one of the page.
Homes == {"own", "other", "gone"}

ASSUME SettingsConstants ==
    /\ Muteable \subseteq {"instance", "service", "canonical"} /\ "instance" \in Muteable
    /\ MaxMuteCalls \in Nat \ {0} /\ "" \notin Urls /\ TypedUrls \subseteq Urls
    /\ None \notin ChannelIds \cup {"set"}
    /\ \A sent \in ChannelPuts : \E whole \in ChannelRow :
          DOMAIN sent \subseteq DOMAIN whole /\ \A f \in DOMAIN sent : sent[f] = whole[f]
    /\ \A sent \in RulePuts : "severity" \in DOMAIN sent /\ \E whole \in RuleSent :
          DOMAIN sent \subseteq DOMAIN whole /\ \A f \in DOMAIN sent : sent[f] = whole[f]

VARIABLES
    channelRows,  \* alert_channels of the team
    ruleRow,      \* the rule of the team, or None
    muteRows,     \* for each target the team whose mute it has, or None
    home,         \* the team of the service
    channelPanel, \* AlertChannels with useAlertChannels
    rulePanel,    \* AlertRules with useAlertRules
    mutePanel     \* AlertMutes with useAlertMutes

settingsRows == <<channelRows, ruleRow, muteRows, home>>
settingsVars == <<settingsRows, channelPanel, rulePanel, mutePanel>>

\* A load of a list: the answer of the server is read, and then received.
LoadIn(state) == [state |-> state, rows |-> None]
NoLoad == LoadIn("idle")
Asked == LoadIn("asked")
Failed == LoadIn("failed")
RowsRead(rows) == [state |-> "read", rows |-> rows]

----------------------------------------------------------------------------
(* Routes and stores. *)

\* maskConfig reads the fields of the row's type, and throws without them.
Fits(row) == row.config.kind = row.type
MaskedChannel(row) ==
    IF row = None THEN None
    ELSE [type |-> row.type, active |-> row.active,
          header |-> IF row.config.header = None THEN None ELSE "mask"]
ListAlertChannels ==
    IF \A c \in ChannelIds : channelRows[c] # None => Fits(channelRows[c])
    THEN RowsRead([c \in ChannelIds |-> MaskedChannel(channelRows[c])])
    ELSE Failed

Sends(sent, field) == field \in DOMAIN sent
\* validateChannelUpdate and updateAlertChannel: a configuration is that of
\* the type of the request, or of the row when the request has none.
ValidChannel(sent, row) ==
    Sends(sent, "config") =>
        sent.config.kind = IF Sends(sent, "type") THEN sent.type ELSE row.type
PutChannel(row, sent) ==
    [f \in DOMAIN row |-> IF Sends(sent, f) THEN sent[f] ELSE row[f]]

\* createAlertChannel: the team's first channel brings a default rule.
CreateChannel(c, sent) ==
    /\ channelRows' = [channelRows EXCEPT
                         ![c] = [type |-> sent.type, config |-> sent.config, active |-> TRUE]]
    /\ ruleRow' = IF ruleRow = None THEN DefaultRule ELSE ruleRow

\* updateAlertRules with AlertRuleStore: without is_active the rule is active;
\* thresholds are only written when they are sent.
IsActive(sent) == IF Sends(sent, "active") THEN sent.active ELSE TRUE
UpsertRule(sent) ==
    LET row == IF ruleRow = None THEN [DefaultRule EXCEPT !.severity = sent.severity]
               ELSE ruleRow
    IN  [severity |-> sent.severity, active |-> IsActive(sent),
         custom |-> IF Sends(sent, "custom") THEN sent.custom ELSE row.custom,
         limit |-> IF Sends(sent, "limit") THEN sent.limit ELSE row.limit]
ValidRule(sent) == Sends(sent, "limit") => sent.limit # "bad"

\* createAlertMute, for the team of the page: services of its own only, and
\* the unique indexes, of which that of dependencies knows no team.
MayMute(target) ==
    IF target = "instance" THEN home = "own" /\ muteRows[target] = None
    ELSE (target = "service" => home = "own") /\ muteRows[target] # "own"
ListAlertMutes == RowsRead({t \in Muteable : muteRows[t] = "own"})

----------------------------------------------------------------------------
(* The panel of the channels. *)

NoForm == [editing |-> None, type |-> "slack", slackUrl |-> "", hookUrl |-> "",
           header |-> None, showUrl |-> TRUE]

\* A dialog that is open keeps the rest of the page from being used; while an
\* action is in progress every button is disabled but "Add Channel".
ChannelFree == channelPanel.call = None /\ channelPanel.deleteId = None
Listed(c) == ~channelPanel.loading /\ channelPanel.list[c] # None

ToChannel(p) == channelPanel' = p /\ UNCHANGED <<settingsRows, rulePanel, mutePanel>>
EditChannelForm(f) == ToChannel([channelPanel EXCEPT !.form = f])

OpenCreateForm ==
    /\ channelPanel.form = None /\ channelPanel.deleteId = None
    /\ EditChannelForm(NoForm)

\* URLs are not filled in, masked headers are.
OpenEditForm(c) ==
    /\ ChannelFree /\ Listed(c)
    /\ EditChannelForm([NoForm EXCEPT !.editing = c, !.showUrl = FALSE,
                           !.type = channelPanel.list[c].type,
                           !.header = channelPanel.list[c].header])

\* Inputs that show: the type always, the rest with the URL.
FillChannelForm ==
    /\ ChannelFree /\ channelPanel.form # None
    /\ LET f == channelPanel.form
       IN  \/ \E t \in ChannelTypes : EditChannelForm([f EXCEPT !.type = t])
           \/ EditChannelForm([f EXCEPT !.showUrl = TRUE])
           \/ /\ f.showUrl /\ f.type = "slack"
              /\ \E u \in TypedUrls \cup {""} : EditChannelForm([f EXCEPT !.slackUrl = u])
           \/ /\ f.showUrl /\ f.type = "webhook"
              /\ \/ \E u \in TypedUrls \cup {""} : EditChannelForm([f EXCEPT !.hookUrl = u])
                 \/ \E h \in {"secret", None} : EditChannelForm([f EXCEPT !.header = h])
           \/ EditChannelForm(None)

\* handleSubmit: the configuration of the type that is chosen now, or none when
\* the URL of an edited channel is not shown.
FormUrl(f) == IF f.type = "slack" THEN f.slackUrl ELSE f.hookUrl
FormConfig(f) == [kind |-> f.type, url |-> FormUrl(f),
                  header |-> IF f.type = "slack" THEN None ELSE f.header]
SentByForm(f) ==
    IF f.editing # None /\ ~f.showUrl THEN [type |-> f.type]
    ELSE [type |-> f.type, config |-> FormConfig(f)]

Call(kind, c, sent) == [kind |-> kind, id |-> c, sent |-> sent]
StartChannel(kind, c, sent) ==
    ToChannel([channelPanel EXCEPT !.call = Call(kind, c, sent)])

SubmitChannel ==
    LET f == channelPanel.form
    IN  /\ ChannelFree /\ f # None
        /\ f.showUrl => FormUrl(f) # ""
        /\ IF f.editing # None THEN StartChannel("update", f.editing, SentByForm(f))
           ELSE \E c \in ChannelIds : \* bound: there is room for another row
                   channelRows[c] = None /\ StartChannel("create", c, SentByForm(f))
ToggleActive(c) ==
    /\ ChannelFree /\ Listed(c)
    /\ StartChannel("toggle", c, [active |-> ~channelPanel.list[c].active])
TestChannel(c) == ChannelFree /\ Listed(c) /\ StartChannel("test", c, <<>>)

\* The dialog can be left by Escape while its request is in flight.
AskDelete(c) ==
    ChannelFree /\ Listed(c) /\ ToChannel([channelPanel EXCEPT !.deleteId = c])
CloseDelete ==
    channelPanel.deleteId # None /\ ToChannel([channelPanel EXCEPT !.deleteId = None])
ConfirmDelete ==
    /\ channelPanel.call = None /\ channelPanel.deleteId # None
    /\ StartChannel("delete", channelPanel.deleteId, <<>>)

\* The end of an action: the form closes when what it sent was taken.
Ended(p, done) ==
    [p EXCEPT !.call = None,
              !.form = IF done /\ p.call.kind \in {"create", "update"} THEN None ELSE @,
              !.deleteId = IF p.call.kind = "delete" THEN None ELSE @]
\* What was taken is followed by loadChannels.
Reloads(p) == [p EXCEPT !.loads["call"] = Asked, !.loading = TRUE]

CallPending == channelPanel.call # None /\ channelPanel.loads["call"] = NoLoad
ServeChannel ==
    LET call == channelPanel.call
        row == channelRows[call.id]
    IN  /\ CallPending
        /\ UNCHANGED <<muteRows, home, rulePanel, mutePanel>>
        /\ CASE call.kind = "create" ->
                  \* validateChannelCreate: the form sends what it accepts.
                  /\ CreateChannel(call.id, call.sent)
                  /\ channelPanel' = Reloads(channelPanel)
             [] call.kind \in {"update", "toggle"} ->
                  /\ UNCHANGED ruleRow
                  /\ IF row # None /\ ValidChannel(call.sent, row)
                     THEN LET new == PutChannel(row, call.sent)
                          IN  /\ channelRows' = [channelRows EXCEPT ![call.id] = new]
                              /\ channelPanel' = IF Fits(new) THEN Reloads(channelPanel)
                                                 ELSE Ended(channelPanel, FALSE)
                     ELSE UNCHANGED channelRows /\ channelPanel' = Ended(channelPanel, FALSE)
             [] call.kind = "delete" ->
                  /\ UNCHANGED ruleRow
                  /\ channelRows' = [channelRows EXCEPT ![call.id] = None]
                  /\ channelPanel' = IF row = None THEN Ended(channelPanel, FALSE)
                                     ELSE Reloads(channelPanel)
             [] call.kind = "test" ->
                  /\ UNCHANGED <<channelRows, ruleRow>>
                  /\ channelPanel' = Ended(channelPanel, FALSE)
\* The request does not reach the server.
ChannelCallFails == CallPending /\ ToChannel(Ended(channelPanel, FALSE))

ReadChannels(l) ==
    /\ channelPanel.loads[l] = Asked
    /\ \E answer \in {ListAlertChannels, Failed} :
          ToChannel([channelPanel EXCEPT !.loads[l] = answer])
\* A load that fails leaves the list, and counts as the end of its action.
GotChannels(l) ==
    /\ channelPanel.loads[l] \notin {NoLoad, Asked}
    /\ LET answer == channelPanel.loads[l]
           p == [channelPanel EXCEPT !.loads[l] = NoLoad, !.loading = FALSE,
                                     !.list = IF answer = Failed THEN @ ELSE answer.rows]
       IN  ToChannel(IF l = "call" THEN Ended(p, TRUE) ELSE p)

\* Other clients.
ChannelElsewhere ==
    /\ UNCHANGED <<muteRows, home, channelPanel, rulePanel, mutePanel>>
    /\ \E c \in ChannelIds :
          \/ /\ channelRows[c] # None /\ UNCHANGED ruleRow
             /\ \/ \E sent \in ChannelPuts :
                      /\ ValidChannel(sent, channelRows[c])
                      /\ channelRows' = [channelRows EXCEPT ![c] = PutChannel(@, sent)]
                \/ channelRows' = [channelRows EXCEPT ![c] = None]
          \/ /\ channelRows[c] = None
             \* Ids are new: that of a channel being created is not used.
             /\ IF channelPanel.call = None THEN TRUE ELSE channelPanel.call.id # c
             /\ \E sent \in ChannelPuts :
                   /\ Sends(sent, "type") /\ Sends(sent, "config")
                   /\ ValidChannel(sent, None) /\ CreateChannel(c, sent)

ChannelNext ==
    \/ OpenCreateForm \/ FillChannelForm \/ SubmitChannel
    \/ \E c \in ChannelIds : OpenEditForm(c) \/ ToggleActive(c) \/ TestChannel(c) \/ AskDelete(c)
    \/ CloseDelete \/ ConfirmDelete
    \/ ServeChannel \/ ChannelCallFails
    \/ \E l \in {"mount", "call"} : ReadChannels(l) \/ GotChannels(l)
    \/ ChannelElsewhere

----------------------------------------------------------------------------
(* The panel of the rule.  The form is hidden while rules are loaded, so     *)
(* that there is one load at a time.                                         *)

RuleForm(rule) ==
    [severity |-> rule.severity, active |-> rule.active, custom |-> rule.custom,
     limit |-> IF rule.limit = None THEN "" ELSE rule.limit]
SentByRules(f) == [f EXCEPT !.limit = IF f.limit = "" THEN None ELSE f.limit]

ToRule(p) == rulePanel' = p /\ UNCHANGED <<settingsRows, channelPanel, mutePanel>>

\* markChanged; the thresholds are disabled, but not cleared, without "custom".
FillRules ==
    LET f == rulePanel.form
        change(g) == ToRule([rulePanel EXCEPT !.form = g, !.changed = TRUE])
    IN  /\ rulePanel.load = NoLoad /\ ~rulePanel.saving
        /\ \/ \E s \in {"all", "critical"} : change([f EXCEPT !.severity = s])
           \/ change([f EXCEPT !.active = ~@])
           \/ change([f EXCEPT !.custom = ~@])
           \/ f.custom /\ \E l \in Limits \cup {""} : change([f EXCEPT !.limit = l])

SaveRules ==
    /\ rulePanel.load = NoLoad /\ ~rulePanel.saving /\ rulePanel.changed
    /\ ToRule([rulePanel EXCEPT !.saving = TRUE])

ServeRules ==
    /\ rulePanel.saving /\ rulePanel.load = NoLoad
    /\ UNCHANGED <<channelRows, muteRows, home, channelPanel, mutePanel>>
    /\ LET sent == SentByRules(rulePanel.form)
       IN  IF ValidRule(sent)
           THEN /\ ruleRow' = UpsertRule(sent)
                /\ rulePanel' = [rulePanel EXCEPT !.load = Asked]
           ELSE UNCHANGED ruleRow /\ rulePanel' = [rulePanel EXCEPT !.saving = FALSE]
RulesCallFails ==
    /\ rulePanel.saving /\ rulePanel.load = NoLoad
    /\ ToRule([rulePanel EXCEPT !.saving = FALSE])

ReadRules ==
    /\ rulePanel.load = Asked
    /\ \E answer \in {RowsRead(ruleRow), Failed} :
          ToRule([rulePanel EXCEPT !.load = answer])
\* A rule that is loaded fills the form; without one it stays as it is.
GotRules ==
    /\ rulePanel.load \notin {NoLoad, Asked}
    /\ LET synced == rulePanel.load.rows # None
       IN  ToRule([form |-> IF synced THEN RuleForm(rulePanel.load.rows) ELSE rulePanel.form,
                   changed |-> rulePanel.changed /\ ~synced /\ ~rulePanel.saving,
                   saving |-> FALSE, load |-> NoLoad])

\* Other clients, and the first channel of the team.
RuleElsewhere ==
    /\ UNCHANGED <<channelRows, muteRows, home, channelPanel, rulePanel, mutePanel>>
    /\ \/ \E sent \in RulePuts : ValidRule(sent) /\ ruleRow' = UpsertRule(sent)
       \/ ruleRow = None /\ ruleRow' = DefaultRule

RuleNext == FillRules \/ SaveRules \/ ServeRules \/ RulesCallFails
            \/ ReadRules \/ GotRules \/ RuleElsewhere

----------------------------------------------------------------------------
(* The panel of the mutes.  Deletions are not disabled while others are in   *)
(* flight; as a bound, no mute is deleted twice at a time.                   *)

MuteLoads == {"mount", "create"} \cup Muteable
ToMute(p) == mutePanel' = p /\ UNCHANGED <<settingsRows, channelPanel, rulePanel>>
MuteCalls == mutePanel.sent \cup {l \in MuteLoads : mutePanel.loads[l] # NoLoad}
StartMute(l) ==
    /\ Cardinality(MuteCalls) < MaxMuteCalls
    /\ ToMute([mutePanel EXCEPT !.sent = @ \cup {l}])
Creating == "create" \in MuteCalls

\* Cancel hides the form and keeps what was typed.
FillMuteForm ==
    \/ ~mutePanel.open /\ ToMute([mutePanel EXCEPT !.open = TRUE])
    \/ /\ mutePanel.open /\ ~Creating
       /\ \/ \E t \in Muteable : ToMute([mutePanel EXCEPT !.scope = t])
          \/ ToMute([mutePanel EXCEPT !.typed = @ \cup {mutePanel.scope}])
          \/ ToMute([mutePanel EXCEPT !.typed = @ \ {mutePanel.scope}])
          \/ ToMute([mutePanel EXCEPT !.open = FALSE])
SubmitMute ==
    /\ mutePanel.open /\ ~Creating /\ mutePanel.scope \in mutePanel.typed
    /\ StartMute("create")

ListedMute(t) == ~mutePanel.loading /\ t \in mutePanel.list
AskUnmute(t) == ListedMute(t) /\ ToMute([mutePanel EXCEPT !.confirm = t])
CancelUnmute == ~mutePanel.loading /\ mutePanel.confirm # None
                /\ ToMute([mutePanel EXCEPT !.confirm = None])
ConfirmUnmute(t) ==
    /\ ListedMute(t) /\ mutePanel.confirm = t
    /\ t \notin MuteCalls /\ StartMute(t)

\* A deletion that ends takes away the question that is open then, and a
\* creation that was taken the form.
MuteEnded(p, l, done) ==
    [p EXCEPT !.sent = @ \ {l},
              !.confirm = IF l \in Muteable THEN None ELSE @,
              !.open = IF l = "create" /\ done THEN FALSE ELSE @,
              !.typed = IF l = "create" /\ done THEN {} ELSE @]
MuteReloads(p, l) ==
    [p EXCEPT !.sent = @ \ {l}, !.loads[l] = Asked, !.loading = TRUE]

ServeMute(l) ==
    LET target == IF l = "create" THEN mutePanel.scope ELSE l
        taken == IF l = "create" THEN MayMute(target) ELSE muteRows[target] = "own"
    IN  /\ l \in mutePanel.sent
        /\ UNCHANGED <<channelRows, ruleRow, home, channelPanel, rulePanel>>
        /\ IF taken
           THEN /\ muteRows' = [muteRows EXCEPT ![target] =
                                  IF l = "create" THEN "own" ELSE None]
                /\ mutePanel' = MuteReloads(mutePanel, l)
           ELSE UNCHANGED muteRows /\ mutePanel' = MuteEnded(mutePanel, l, FALSE)
MuteCallFails(l) == l \in mutePanel.sent /\ ToMute(MuteEnded(mutePanel, l, FALSE))

ReadMutes(l) ==
    /\ mutePanel.loads[l] = Asked
    /\ \E answer \in {ListAlertMutes, Failed} :
          ToMute([mutePanel EXCEPT !.loads[l] = answer])
GotMutes(l) ==
    /\ mutePanel.loads[l] \notin {NoLoad, Asked}
    /\ LET answer == mutePanel.loads[l]
           p == [mutePanel EXCEPT !.loads[l] = NoLoad, !.loading = FALSE,
                                  !.list = IF answer = Failed THEN @ ELSE answer.rows]
       IN  ToMute(IF l = "mount" THEN p ELSE MuteEnded(p, l, TRUE))

\* The other team, the clean-up of expired mutes, and the service, which moves
\* or is deleted with its dependency and their mutes.
MuteElsewhere ==
    /\ UNCHANGED <<channelRows, ruleRow, channelPanel, rulePanel, mutePanel>>
    /\ \/ /\ home = "other" /\ muteRows["instance"] = None /\ UNCHANGED home
          /\ muteRows' = [muteRows EXCEPT !["instance"] = "other"]
       \/ /\ UNCHANGED home
          /\ \E t \in Muteable :
                \/ muteRows[t] # None /\ muteRows' = [muteRows EXCEPT ![t] = None]
                \/ MayMute(t) /\ muteRows' = [muteRows EXCEPT ![t] = "own"]
       \/ home # "gone" /\ \E h \in Homes :
             /\ home' = h
             /\ muteRows' = IF h # "gone" THEN muteRows
                            ELSE [t \in Muteable |-> IF t = "canonical" THEN muteRows[t]
                                                     ELSE None]

MuteNext ==
    \/ FillMuteForm \/ SubmitMute \/ CancelUnmute
    \/ \E t \in Muteable : AskUnmute(t) \/ ConfirmUnmute(t)
    \/ \E l \in MuteLoads : ServeMute(l) \/ MuteCallFails(l) \/ ReadMutes(l) \/ GotMutes(l)
    \/ MuteElsewhere

----------------------------------------------------------------------------
SettingsInit ==
    /\ channelRows = [c \in ChannelIds |-> None] /\ ruleRow = None
    /\ muteRows = [t \in Muteable |-> None] /\ home = "own"
    /\ channelPanel = [list |-> [c \in ChannelIds |-> None], loading |-> TRUE,
                       loads |-> [l \in {"mount", "call"} |-> IF l = "mount" THEN Asked ELSE NoLoad],
                       form |-> None, deleteId |-> None, call |-> None]
    /\ rulePanel = [form |-> RuleForm(DefaultRule), changed |-> FALSE, saving |-> FALSE,
                    load |-> Asked]
    /\ mutePanel = [list |-> {}, loading |-> TRUE, open |-> FALSE, scope |-> "instance",
                    typed |-> {}, confirm |-> None, sent |-> {},
                    loads |-> [l \in MuteLoads |-> IF l = "mount" THEN Asked ELSE NoLoad]]

SettingsNext == ChannelNext \/ RuleNext \/ MuteNext
SettingsSpec == SettingsInit /\ [][SettingsNext]_settingsVars

----------------------------------------------------------------------------
(* Every variable has its type (the rows of the team, the state of the hooks *)
(* and of the forms).                                                        *)
SettingsTypeOK ==
    /\ channelRows \in [ChannelIds -> ChannelRow \cup {None}]
    /\ ruleRow \in AlertRule \cup {None}
    /\ muteRows \in [Muteable -> {"own", "other", None}] /\ home \in Homes
    /\ channelPanel.deleteId \in ChannelIds \cup {None}
    /\ channelPanel.form # None =>
          channelPanel.form.type \in ChannelTypes
          /\ channelPanel.form.header \in HeaderValues \cup {None}
    /\ channelPanel.loads["call"] # NoLoad => channelPanel.call # None
    /\ rulePanel.form.limit \in Limits \cup {""}
    /\ mutePanel.list \subseteq Muteable /\ mutePanel.typed \subseteq Muteable
    /\ mutePanel.sent \cap {l \in MuteLoads : mutePanel.loads[l] # NoLoad} = {}

\* The steps at which the server takes what a form has sent.
ChannelTaken ==
    /\ CallPending /\ channelPanel.call.kind \in {"create", "update"}
    /\ channelPanel'.loads["call"] = Asked
RuleTaken == rulePanel.saving /\ rulePanel.load = NoLoad /\ rulePanel'.load = Asked
MuteTaken == "create" \in mutePanel.sent /\ mutePanel'.loads["create"] = Asked

(* SettingsSaved: what a panel reports as saved is what its form showed: a   *)
(* channel of the chosen type with a configuration that this type can send,  *)
(* the shown one if it was shown and its own if not; the whole rule, whether *)
(* it was there or is new; and a mute of the one target in view, which is    *)
(* the team's (AlertChannels.tsx handleSubmit, AlertRules.tsx handleSubmit,  *)
(* AlertMutes.tsx handleSubmit and the routes they call).                    *)
SettingsSaved ==
    /\ ChannelTaken =>
          LET f == channelPanel.form
              c == channelPanel.call.id
          IN  /\ channelRows'[c].type = f.type /\ Fits(channelRows'[c])
              /\ channelRows'[c].config = IF f.showUrl THEN FormConfig(f)
                                          ELSE channelRows[c].config
    /\ RuleTaken => RuleForm(ruleRow') = rulePanel.form
    /\ MuteTaken =>
          /\ mutePanel.scope # "canonical" => home = "own"
          /\ muteRows' = [muteRows EXCEPT ![mutePanel.scope] = "own"]
=============================================================================

------------------------------- MODULE MCPages -------------------------------
(***************************************************************************)
(* The pages of the client that keep state of their own beside the         *)
(* server's, in one model: "part" says which of them moves.  They share no *)
(* variable but the rows of TeamAlerts, of which each panel looks at its   *)
(* own, so no behaviour of one is lost.                                    *)
(***************************************************************************)
EXTENDS DriftReview, GraphView, ServiceForm, TeamAlerts, TeamPage

VARIABLE part

\* DriftReview: a removal and a field change, which is raised later; GraphView: a chain of three
\* nodes of which one comes and goes, and a team with a part of it.
MCFlagTypeOf == [f \in FlagIds |-> IF f = "f1" THEN "service_removal" ELSE "field_change"]
MCTopologies ==
    {[nodes |-> {"a", "b", "c"}, edges |-> {<<"a", "b">>, <<"c", "b">>}],
     [nodes |-> {"a", "b"}, edges |-> {<<"a", "b">>}]}
MCParts == [t \in {"all", "t1"} |-> IF t = "all" THEN {"a", "b", "c"} ELSE {"a", "c"}]

\* ServiceForm: a mapping with a comparison, one that the server refuses and no
\* JSON are typed; other clients change the format alone, or the endpoint.
MCMapping(name, latency) ==
    [kind |-> "mapping", root |-> "r", name |-> name, latency |-> latency]
MCTyped == {MCMapping("n", "l=x"), MCMapping("$key", "$key"), [kind |-> "broken"]}
MCPuts == {[fmt |-> "schema"], [endpoint |-> "u1"]}

\* TeamAlerts: other clients replace a channel and set some of the fields of the
\* rule; the form itself changes the type of a channel alone.
MCChannelPuts ==
    {[type |-> "webhook", config |-> [kind |-> "webhook", url |-> "u2", header |-> "secret"]]}
MCRulePuts == {[severity |-> "critical"], [severity |-> "all", active |-> FALSE, limit |-> "set"]}

\* TeamPage: two names that give the same key, of which the other team may
\* have one, so that the server refuses it.
MCKeyOfName == [n \in {"n1", "n2"} |-> "k1"]
MCOtherTeam == [name |-> "n2", key |-> "k2", text |-> Nil]
MCTeamPuts == {[name |-> "n2", key |-> "k1", text |-> Nil]}

ASSUME PagesConstants == "u1" \in Users

Init ==
    /\ part \in {"review", "view", "form", "channels", "rules", "mutes", "team", "members", "teams"}
    /\ ReviewInit /\ flagStatus["f1"] = "pending" /\ flagStatus["f2"] = "absent"
    /\ ViewInit /\ (part # "view" => choice.target = NoIsolation
                                     /\ topology.graph = CHOOSE g \in Topologies : TRUE)
    /\ FormInit
    /\ SettingsInit
    /\ TeamsInit /\ teamRow = [name |-> "n1", key |-> "k1", text |-> "x"]
                 /\ memberOf = [u \in Users |-> IF u = "u1" THEN "lead" ELSE Nil]

\* Of the parts, those in ps move.
Still(ps, vars) == IF part \in ps THEN TRUE ELSE UNCHANGED vars
Only(p) ==
    /\ part = p /\ UNCHANGED part
    /\ Still({"review"}, reviewVars) /\ Still({"view"}, viewVars)
    /\ Still({"form"}, formVars) /\ Still({"channels", "rules", "mutes"}, settingsVars)
    /\ Still({"team", "members", "teams"}, teamVars)

Next ==
    \/ Only("review") /\ ReviewNext
    \/ Only("view") /\ ViewNext
    \/ Only("form") /\ FormNext
    \/ Only("channels") /\ ChannelNext
    \/ Only("rules") /\ RuleNext
    \/ Only("mutes") /\ MuteNext
    \/ Only("team") /\ (TeamNext \/ HandleRemoveMember("u1") \/ MemberCalls)
    \/ Only("members") /\ MembersNext
    \/ Only("teams") /\ TeamsNext

Spec == Init /\ [][Next]_<<part, reviewVars, viewVars, formVars, settingsVars, teamVars>>

(* Every variable of the parts has its type, each asked while its part moves *)
(* (all handlers of them).                                                   *)
TypeOK ==
    CASE part = "review" -> ReviewTypeOK
      [] part = "view" -> ViewTypeOK
      [] part = "form" -> FormTypeOK
      [] part \in {"team", "members", "teams"} -> TeamTypeOK
      [] OTHER -> SettingsTypeOK

(* The drift review selects only what it showed (SelectedWereShown), the      *)
(* graph page draws what is chosen (ShownAsSelected), and the page of a team  *)
(* shows what was changed on it (OwnChangesShown; hooks/useDriftFlags.ts,     *)
(* hooks/useGraphState.ts and hooks/useTeamDetail.ts).                        *)
PagesShow == SelectedWereShown /\ ShownAsSelected /\ OwnChangesShown

(* FormSaved, SettingsSaved and TeamSaved: what a form reports as saved is    *)
(* what it showed (handleSubmit of ServiceForm.tsx, AlertChannels.tsx,        *)
(* AlertRules.tsx, AlertMutes.tsx and TeamForm.tsx).                          *)
PagesSaveAsShown ==
    [][FormSaved /\ SettingsSaved /\ TeamSaved]_<<formVars, settingsVars, teamVars>>
=============================================================================

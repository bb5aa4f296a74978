------------------------------ MODULE ServiceForm ------------------------------
(***************************************************************************)
(* One service's row and the form that creates or edits it: ServiceForm    *)
(* with its two editors, the routes that validate and store what it sends, *)
(* and the other writers of the row.                                       *)
(*                                                                         *)
(* The form keeps what it will send (the parent's state) apart from what   *)
(* the editors show.  Both editors take the parent's state when they are   *)
(* mounted and report changes to it afterwards.  Inputs are disabled while *)
(* the form's request is in flight, but Escape closes the dialog.  As a    *)
(* bound, no form is opened until the answer has come.                     *)
(***************************************************************************)
EXTENDS Integers, Sequences, SequencesExt, FiniteSets

CONSTANTS
    Endpoints,  \* what users type as health endpoint
    Refused,    \* endpoints that the server refuses: private addresses
    Typed,      \* texts typed into the JSON view
    MetricKeys,       \* names of metrics (and labels, which are handled alike)
    MetricFields,     \* what metrics map to
    FirstField,       \* what a new row maps to
    MaxRows,    \* bound: rows of the metric editor
    Puts,       \* what other clients of the API send
    Absent      \* NULL

Formats == {"default", "schema", "prometheus", "otlp"}
MetricFormats == {"prometheus", "otlp"}
Intervals == {"none", "set"}

\* A mapping names root and healthy field (as one), the name, and an optional
\* field, which may be a comparison; "$key" is only valid as a name.
Mapping == [kind : {"mapping"}, root : {"r"}, name : {"n", "$key"},
            latency : {"", "l", "l=x", "$key"}]
Config == [kind : {"metrics"}, rows : UNION {[ks -> MetricFields] : ks \in SUBSET MetricKeys},
           seconds : BOOLEAN]
NoConfig == [kind |-> "none"]
\* A text in the JSON view that is no complete mapping.
Text == [kind : {"empty", "broken", "partial"}]
\* Name, team, activity and metrics endpoint are plain fields and left out.
Row == [fmt : Formats, endpoint : {""} \cup Endpoints, interval : Intervals,
        config : {NoConfig} \cup Mapping \cup Config]

\* Requests of other clients have some of the fields of a row.
Put == [fmt : Formats, endpoint : Endpoints, config : {NoConfig} \cup Mapping \cup Config]

ASSUME FormConstants ==
    /\ "" \in Endpoints /\ Refused \subseteq Endpoints \ {""}
    /\ Typed \subseteq Mapping \cup Text
    /\ "" \notin MetricKeys /\ IsFiniteSet(MetricKeys)
    /\ FirstField \in MetricFields /\ MaxRows \in Nat
    /\ \A p \in Puts : \E whole \in Put :
          DOMAIN p \subseteq DOMAIN whole /\ \A field \in DOMAIN p : p[field] = whole[field]

VARIABLES
    service,   \* the row of services, or Absent
    form,      \* ServiceForm: Absent, or what it would send
    guided,    \* SchemaConfigEditor, or Absent while not mounted
    metric,    \* MetricSchemaConfigEditor, or Absent while not mounted
    request    \* the request in flight ("edit": updateService), or Absent

formVars == <<service, form, guided, metric, request>>

Guided == [custom : BOOLEAN, root : {"", "r"}, name : {"", "n"}, useKey : BOOLEAN,
           latency : {"", "l", "$key"}, advanced : BOOLEAN, text : Mapping \cup Text]
EmptyGuided == [custom |-> FALSE, root |-> "", name |-> "", useKey |-> FALSE,
                latency |-> "", advanced |-> FALSE, text |-> [kind |-> "empty"]]
MetricRow == [key : MetricKeys \cup {""}, field : MetricFields]
Metric == [rows : Seq(MetricRow), seconds : BOOLEAN]
FormState == [edit : BOOLEAN, fmt : Formats, endpoint : Endpoints,
              schema : {NoConfig} \cup Mapping \cup Config, metrics : {NoConfig} \cup Config]

ASSUME NullIsNoForm == Absent \notin Row \cup FormState \cup Guided \cup Metric

----------------------------------------------------------------------------
(* The editors. *)

\* schemaMappingToFormState: the field of a comparison is what is shown.
\* Mutant: the comparison is shown with it.
PlainWhole(latency) == latency
Plain(latency) == IF latency = "l=x" THEN "l" ELSE latency
ShowMapping(g, m) ==
    [g EXCEPT !.root = m.root, !.useKey = (m.name = "$key"),
              !.name = IF m.name = "$key" THEN "" ELSE m.name,
              !.latency = Plain(m.latency)]

\* formStateToSchemaMapping, for a state with its required fields.
Complete(g) == g.root # "" /\ (g.useKey \/ g.name # "")
MappingOf(g) == [kind |-> "mapping", root |-> g.root,
                 name |-> IF g.useKey THEN "$key" ELSE g.name, latency |-> g.latency]

Mounted(config) ==
    IF config = NoConfig THEN EmptyGuided
    ELSE [ShowMapping(EmptyGuided, config) EXCEPT !.custom = TRUE, !.text = config]

\* recordToRows and rowsToRecord: rows without a key are not sent, and of two
\* rows with the same key the later one is.
RowsOf(rows) == SetToSeq({[key |-> k, field |-> rows[k]] : k \in DOMAIN rows})
KeysOf(rows) == {rows[i].key : i \in DOMAIN rows} \ {""}
RecordOf(rows) ==
    [k \in KeysOf(rows) |->
        rows[CHOOSE i \in DOMAIN rows :
                rows[i].key = k /\ \A j \in DOMAIN rows : rows[j].key = k => j <= i].field]
\* emitChange with isConfigEmpty.
ConfigOf(e) ==
    IF KeysOf(e.rows) = {} /\ ~e.seconds THEN NoConfig
    ELSE [kind |-> "metrics", rows |-> RecordOf(e.rows), seconds |-> e.seconds]
MountedMetric(config) ==
    IF config = NoConfig THEN [rows |-> <<>>, seconds |-> FALSE]
    ELSE [rows |-> RowsOf(config.rows), seconds |-> config.seconds]

----------------------------------------------------------------------------
(* The user. *)

Editing == form # Absent /\ request = Absent

\* parseSchemaConfig takes any JSON for a mapping, parseMetricSchemaConfig only
\* what looks like metrics.
FormOf(row) ==
    [edit |-> TRUE, fmt |-> row.fmt, endpoint |-> row.endpoint, schema |-> row.config,
     metrics |-> IF row.config.kind = "metrics" THEN row.config ELSE NoConfig]
NewForm == [edit |-> FALSE, fmt |-> "default", endpoint |-> "",
            schema |-> NoConfig, metrics |-> NoConfig]

\* The editors that the format shows.  A SchemaConfigEditor that is mounted
\* with a metric configuration throws, which takes the page down.
Crashes(f) == f.fmt = "schema" /\ f.schema.kind = "metrics"
Rendered(f) ==
    /\ form' = IF Crashes(f) THEN Absent ELSE f
    /\ guided' = IF f.fmt # "schema" \/ Crashes(f) THEN Absent
                 ELSE IF guided # Absent THEN guided ELSE Mounted(f.schema)
    /\ metric' = IF f.fmt \notin MetricFormats THEN Absent
                 ELSE IF metric # Absent THEN metric ELSE MountedMetric(f.metrics)

OpenForm ==
    /\ form = Absent /\ request = Absent
    /\ Rendered(IF service = Absent THEN NewForm ELSE FormOf(service))
    /\ UNCHANGED <<service, request>>

\* The buttons are disabled during the request; Escape and the backdrop work.
Cancel ==
    /\ form # Absent
    /\ form' = Absent /\ guided' = Absent /\ metric' = Absent
    /\ UNCHANGED <<service, request>>

\* The health endpoint is an input unless the format is OTLP.
TypeEndpoint(e) ==
    /\ Editing /\ form.fmt # "otlp" /\ e # form.endpoint
    /\ form' = [form EXCEPT !.endpoint = e]
    /\ UNCHANGED <<service, guided, metric, request>>

ChooseFormat(fmt) ==
    /\ Editing /\ fmt # form.fmt
    /\ Rendered([form EXCEPT !.fmt = fmt])
    /\ UNCHANGED <<service, request>>

\* Mutant: the mapping of the state before the change is reported.
UpdateFromGuidedStale(g) ==
    /\ guided' = g
    /\ form' = IF Complete(g) THEN [form EXCEPT !.schema = MappingOf(guided)] ELSE form
    /\ UNCHANGED <<service, metric, request>>
\* updateFromGuided: only a complete mapping is reported.
UpdateFromGuided(g) ==
    /\ guided' = IF Complete(g) THEN [g EXCEPT !.text = MappingOf(g)] ELSE g
    /\ form' = IF Complete(g) THEN [form EXCEPT !.schema = MappingOf(g)] ELSE form
    /\ UNCHANGED <<service, metric, request>>

InGuided == Editing /\ guided # Absent /\ guided.custom /\ ~guided.advanced

EditGuided ==
    /\ InGuided
    /\ \/ \E r \in {"", "r"} : r # guided.root /\ UpdateFromGuided([guided EXCEPT !.root = r])
       \/ \E n \in {"", "n"} : /\ ~guided.useKey /\ n # guided.name
                               /\ UpdateFromGuided([guided EXCEPT !.name = n])
       \/ \E l \in {"", "l"} : /\ l # guided.latency
                               /\ UpdateFromGuided([guided EXCEPT !.latency = l])

\* Checking the box clears the name field, unchecking leaves it empty.
ToggleUseKey ==
    /\ InGuided
    /\ UpdateFromGuided([guided EXCEPT !.useKey = ~@,
                                       !.name = IF guided.useKey THEN @ ELSE ""])

\* handleModeChange: "custom" brings nothing back.
HandleModeChange(custom) ==
    /\ Editing /\ guided # Absent
    /\ guided' = IF custom THEN [guided EXCEPT !.custom = TRUE]
                 ELSE [EmptyGuided EXCEPT !.advanced = guided.advanced]
    /\ form' = IF custom THEN form ELSE [form EXCEPT !.schema = NoConfig]
    /\ UNCHANGED <<service, metric, request>>

\* handleJsonChange.
HandleJsonChange(text) ==
    /\ Editing /\ guided # Absent /\ guided.custom /\ guided.advanced
    /\ text # guided.text
    /\ IF text.kind = "mapping"
       THEN /\ guided' = [ShowMapping(guided, text) EXCEPT !.text = text]
            /\ form' = [form EXCEPT !.schema = text]
       ELSE guided' = [guided EXCEPT !.text = text] /\ UNCHANGED form
    /\ UNCHANGED <<service, metric, request>>

\* Going to the JSON view writes it from the guided form when that is complete.
ToggleAdvanced ==
    /\ Editing /\ guided # Absent /\ guided.custom
    /\ guided' = [guided EXCEPT !.advanced = ~@,
            !.text = IF ~guided.advanced /\ Complete(guided) THEN MappingOf(guided) ELSE @]
    /\ UNCHANGED <<service, form, metric, request>>

EmitChange(e) ==
    /\ metric' = e
    /\ form' = [form EXCEPT !.metrics = ConfigOf(e)]
    /\ UNCHANGED <<service, guided, request>>

\* A row that is added has no key yet and is not reported.
AddRow ==
    /\ Editing /\ metric # Absent /\ Len(metric.rows) < MaxRows
    /\ metric' = [metric EXCEPT !.rows = Append(@, [key |-> "", field |-> FirstField])]
    /\ UNCHANGED <<service, form, guided, request>>

EditMetric ==
    /\ Editing /\ metric # Absent
    /\ \/ \E i \in DOMAIN metric.rows :
            \/ EmitChange([metric EXCEPT !.rows = RemoveAt(@, i)])
            \/ \E k \in MetricKeys \cup {""} : EmitChange([metric EXCEPT !.rows[i].key = k])
            \/ \E f \in MetricFields : EmitChange([metric EXCEPT !.rows[i].field = f])
       \/ EmitChange([metric EXCEPT !.seconds = ~@])

----------------------------------------------------------------------------
(* Saving. *)

\* What handleSubmit sends.
SentConfig(f) ==
    IF f.fmt = "schema" THEN f.schema
    ELSE IF f.fmt \in MetricFormats THEN f.metrics ELSE NoConfig
Payload(f) == [fmt |-> f.fmt, endpoint |-> IF f.fmt = "otlp" THEN "" ELSE f.endpoint,
               config |-> SentConfig(f), edit |-> f.edit]

\* validateForm: an http(s) URL, unless the format needs none.
Submit ==
    /\ Editing
    /\ form.fmt # "otlp" => form.endpoint # ""
    /\ request' = Payload(form)
    /\ UNCHANGED <<service, form, guided, metric>>

\* validateSchemaConfig and validateMetricSchemaConfig.
ValidMapping(c) == c.kind = "mapping" /\ c.latency # "$key"
Injective(rows) == \A j, k \in DOMAIN rows : rows[j] = rows[k] => j = k
ValidMetrics(c) == c.kind = "metrics" /\ Injective(c.rows)
\* validateEndpointUrl.
ValidEndpoint(e) == e # "" /\ e \notin Refused
ValidFor(fmt, c) ==
    CASE fmt = "schema" -> c = NoConfig \/ ValidMapping(c)
      [] fmt \in MetricFormats -> c = NoConfig \/ ValidMetrics(c)
      [] OTHER -> TRUE
Stored(fmt, c) == IF fmt = "default" THEN NoConfig ELSE c

\* validateServiceCreate and ServiceStore.create.
Created(p) ==
    [fmt |-> p.fmt, endpoint |-> p.endpoint,
     interval |-> IF p.fmt = "otlp" THEN "none" ELSE "set",
     config |-> Stored(p.fmt, p.config)]
MayCreate(p) ==
    /\ IF p.fmt = "otlp" THEN p.endpoint = "" ELSE ValidEndpoint(p.endpoint)
    /\ ValidFor(p.fmt, p.config)

\* validateServiceUpdate and ServiceStore.update, for a payload with any of the
\* fields; without a format the shape of the configuration decides.
Has(p, field) == field \in DOMAIN p
MayUpdate(p) ==
    /\ Has(p, "endpoint") => ValidEndpoint(p.endpoint)
    /\ Has(p, "config") =>
           IF Has(p, "fmt") THEN ValidFor(p.fmt, p.config)
           ELSE p.config = NoConfig \/ ValidMapping(p.config) \/ ValidMetrics(p.config)
ConfigToStore(p) == IF Has(p, "fmt") THEN Stored(p.fmt, p.config) ELSE p.config
Updated(row, p) ==
    [field \in DOMAIN row |->
        IF ~Has(p, field) THEN row[field]
        ELSE IF field = "config" THEN ConfigToStore(p) ELSE p[field]]

\* onSuccess: the dialog closes.
Done == form' = Absent /\ guided' = Absent /\ metric' = Absent
Refuse == UNCHANGED <<service, form, guided, metric>>

CreateService ==
    /\ request # Absent /\ ~request.edit /\ request' = Absent
    /\ IF MayCreate(request) /\ service = Absent
       THEN service' = Created(request) /\ Done
       ELSE Refuse

UpdateService ==
    /\ request # Absent /\ request.edit /\ request' = Absent
    /\ IF MayUpdate(request) /\ service # Absent
       THEN service' = Updated(service, request) /\ Done
       ELSE Refuse

\* The request fails before the server has acted.
RequestFails == request # Absent /\ request' = Absent /\ Refuse

\* Other clients of the API, and autoCreateService of the OTLP receiver.
PutElsewhere(p) ==
    /\ service # Absent /\ MayUpdate(p) /\ service' = Updated(service, p)
    /\ UNCHANGED <<form, guided, metric, request>>
AutoCreate ==
    /\ service = Absent /\ form = Absent
    /\ service' = [fmt |-> "otlp", endpoint |-> "", interval |-> "none",
                   config |-> NoConfig]
    /\ UNCHANGED <<form, guided, metric, request>>

----------------------------------------------------------------------------
FormInit == service = Absent /\ form = Absent /\ guided = Absent
            /\ metric = Absent /\ request = Absent

FormNext ==
    \/ OpenForm \/ Cancel
    \/ \E e \in Endpoints : TypeEndpoint(e)
    \/ \E fmt \in Formats : ChooseFormat(fmt)
    \/ EditGuided \/ ToggleUseKey \/ ToggleAdvanced
    \/ \E custom \in BOOLEAN : HandleModeChange(custom)
    \/ \E text \in Typed : HandleJsonChange(text)
    \/ AddRow \/ EditMetric
    \/ Submit \/ CreateService \/ UpdateService \/ RequestFails
    \/ \E p \in Puts : PutElsewhere(p)
    \/ AutoCreate

FormSpec == FormInit /\ [][FormNext]_formVars

----------------------------------------------------------------------------
(* Every variable has its type (ServiceForm's state, the row of services). *)
FormTypeOK ==
    /\ service \in Row \cup {Absent}
    /\ form \in FormState \cup {Absent}
    /\ guided \in Guided \cup {Absent}
    /\ metric \in Metric \cup {Absent}
    /\ (guided # Absent \/ metric # Absent) => form # Absent

\* A configuration of metrics that is empty says what none does.
Says(c) == IF c.kind = "metrics" /\ DOMAIN c.rows = {} /\ ~c.seconds THEN NoConfig ELSE c

\* The mapping with a plain field for its comparison.
FieldsOnly(c) == [c EXCEPT !.latency = Plain(@)]

\* What the open form says the row should be, as far as its editors are complete.
\* The guided view shows only the field of a comparison.
ShownConfig(c) ==
    CASE form.fmt = "default" -> c = NoConfig
      [] form.fmt = "schema" ->
           IF ~guided.custom THEN c = NoConfig
           ELSE /\ Complete(guided) =>
                     c.kind = "mapping" /\ ShowMapping(guided, c) = guided
                /\ guided.advanced /\ guided.text.kind = "mapping" =>
                     c.kind = "mapping" /\ guided.text \in {c, FieldsOnly(c)}
      [] OTHER -> Says(c) = ConfigOf(metric)

(* FormSaved: when the form closes because it was saved, the row is what the *)
(* form showed: format, endpoint, and the configuration of the visible       *)
(* editor, whichever formats, views and modes were chosen before             *)
(* (ServiceForm.tsx handleSubmit, SchemaConfigEditor.tsx,                    *)
(* MetricSchemaConfigEditor.tsx, routes/services/update.ts).  A complete     *)
(* text in the JSON view is the mapping that is saved, with one exception:   *)
(* the toggle from the guided view writes the text from the guided form,     *)
(* which drops a comparison, and does not report it, so the text may show    *)
(* FieldsOnly of what is saved.  It never shows anything else.               *)
FormSaved ==
    form # Absent /\ request # Absent /\ request' = Absent /\ form' = Absent =>
        /\ service'.fmt = form.fmt
        /\ service'.endpoint = IF form.fmt = "otlp" THEN "" ELSE form.endpoint
        /\ ShownConfig(service'.config)
=============================================================================

------------------------------- MODULE Reports -------------------------------
(***************************************************************************)
(* What the reports of services say of their dependencies: the formats of  *)
(* polled endpoints (DependencyParser, SchemaMapper, PrometheusParser), the*)
(* two OTLP receivers (routes/otlp, OtlpParser, TraceParser,               *)
(* TraceDependencyBridge) and the schema that a service is read with.      *)
(*                                                                         *)
(* Texts are taken apart already: a response is a list of items, a text a  *)
(* list of lines, a push a list of entries with points or spans.  Labels,  *)
(* descriptions and timestamps are left out, as are the stored spans and   *)
(* the associations (ManifestMetadata), events and histories (Ingestion).  *)
(***************************************************************************)
EXTENDS Integers, Sequences, FiniteSets, SequencesExt, FiniteSetsExt, Functions, TLC

CONSTANTS
    Reporters,    \* services of a team, by their names
    EditedReporters, \* those that users create and change
    ReportedDeps, \* names of dependencies
    Absent,       \* a value that is not there
    Items,        \* JSON responses: lists of items
    Texts,        \* Prometheus responses: lists of lines
    MetricPushes, \* requests to /v1/metrics: lists of entries
    TracePushes,  \* requests to /v1/traces: lists of entries
    MaxReports    \* bound: polls and pushes of a behaviour

\* What a report can carry.  The parsers take states and latencies as they
\* are: states are 0, 1 and 2, no number is negative, and a histogram has at
\* most one bucket more than bounds; one without bounds counts its only bucket.
\* The least and the greatest value and the number of requests are left out.
Maybe(S) == S \cup {Absent}
Fields == {"state", "healthy", "latency", "skipped"}
ReportItem == [name : Maybe(ReportedDeps), healthy : Maybe(BOOLEAN), flat : BOOLEAN,
               state : Maybe(0..2), latency : Nat, skipped : BOOLEAN]
Units == {"s", "ms", "us", "ns"}
Buckets == {h \in [bounds : Seq(Nat), counts : Seq(Nat), count : Maybe(Nat), sum : Maybe(Nat),
                   unit : Maybe(Units)] :
               /\ Len(h.counts) <= Len(h.bounds) + 1
               /\ h.bounds = <<>> /\ h.counts # <<>> => h.count \in {Absent, h.counts[1]}}
ReportPoint == {p \in [kind : {"malformed", "gauge", "sum", "histogram"}, dep : Maybe(ReportedDeps),
                        field : Maybe(Fields), value : Nat, buckets : Maybe(Buckets)] :
                   /\ p.kind = "histogram" => p.buckets \in Buckets
                   /\ p.field = "state" => p.value \in 0..2}
ReportSpan == [id : STRING, dep : Maybe(ReportedDeps), ms : Nat, error : BOOLEAN, client : BOOLEAN]
Pushes(What) == Seq([name : Maybe(Reporters), list : Seq(What)])
ASSUME ReportConstants ==
    /\ Absent \notin {"default", "schema", "prometheus", "otlp"}
    /\ EditedReporters \subseteq Reporters
    /\ \A body \in Items : body.items \in Seq(ReportItem)
    /\ Texts \subseteq Seq(ReportPoint)
    /\ MetricPushes \subseteq Pushes(ReportPoint) /\ TracePushes \subseteq Pushes(ReportSpan)

VARIABLES
    reporters,    \* services.health_endpoint_format and schema_config
    depRows,      \* dependencies: healthy, health_state, latency, skipped
    pollWarnings, \* services.poll_warnings
    spanWarnings, \* TraceParser._lastWarnings, of the one parser of the route
    reports,      \* polls and pushes so far
    said          \* history: the last report that names a dependency

reportVars == <<reporters, depRows, pollWarnings, spanWarnings, reports, said>>

Formats == {"default", "schema", "prometheus", "otlp"}
Schemas == {"none", "mapping", "metric"}
NoReporter == [format |-> Absent, schema |-> "none"]
Exists(n) == reporters[n] # NoReporter

\* A row, and a row that a parser found for a name.
Row(healthy, state, latency, skipped, percentiles) ==
    [healthy |-> healthy, state |-> state, latency |-> latency, skipped |-> skipped,
     percentiles |-> percentiles]
Found(name, row) == [name |-> name, row |-> row]
Parsed(deps, warned) == [ok |-> TRUE, deps |-> deps, warnings |-> warned]
Refused == [ok |-> FALSE, deps |-> <<>>, warnings |-> {}]

\* The value of a field, if it was set.
Field(entry, field, default) == IF field \in DOMAIN entry THEN entry[field] ELSE default
SetField(entry, field, value) ==
    [f \in DOMAIN entry \cup {field} |-> IF f = field THEN value ELSE entry[f]]
\* Math.round of a quotient.
Rounded(a, b) == (2 * a + b) \div (2 * b)

----------------------------------------------------------------------------
(* JSON.  An item has a name, a boolean, a state and perhaps the mark of a *)
(* skipped check; the flat form has neither state nor mark.                *)

\* DependencyParser.parseItem: one bad item fails the whole response.
GoodItem(i) == i.name # Absent /\ (i.healthy # Absent \/ i.skipped)
DefaultRow(i) ==
    LET healthy == i.healthy # FALSE
    IN  Row(healthy, IF i.flat THEN (IF healthy THEN 0 ELSE 2)
                     ELSE IF i.state = Absent THEN 0 ELSE i.state,
            i.latency, i.skipped, Absent)
ParseDefault(body) ==
    IF body.root = "list" /\ \A k \in DOMAIN body.items : GoodItem(body.items[k])
    THEN Parsed([k \in DOMAIN body.items |->
                    Found(body.items[k].name, DefaultRow(body.items[k]))], {})
    ELSE Refused

\* SchemaMapper: a bad item is left out with a warning.
MappedRow(i) ==
    LET healthy == i.skipped \/ i.healthy = TRUE
    IN  Row(healthy, IF healthy THEN 0 ELSE 2, i.latency, i.skipped, Absent)
MappedItem(acc, i) ==
    IF GoodItem(i) THEN [acc EXCEPT !.deps = Append(@, Found(i.name, MappedRow(i)))]
    ELSE [acc EXCEPT !.warnings = @ \cup {<<"item", i.name>>}]
ParseMapped(body) ==
    IF body.root = "none" THEN Refused
    ELSE FoldLeft(MappedItem, Parsed(<<>>, {}), body.items)

----------------------------------------------------------------------------
(* Metrics.  A point sets a field of the entry of its dependency.          *)

\* MetricSchemaConfig: the value of a healthy dependency, and ms per unit.
Defaults == [healthyValue |-> 1, unit |-> 1]
Custom == [healthyValue |-> 0, unit |-> 1000]
Settings(schema) == IF schema = "metric" THEN Custom ELSE Defaults

\* buildDependency of both parsers.
MetricRow(entry, settings) ==
    LET state == Field(entry, "state", 0)
        healthy == IF "healthy" \in DOMAIN entry THEN entry.healthy = settings.healthyValue
                   ELSE state # 2
    IN  Row(healthy, state, Field(entry, "latency", 0) * settings.unit,
            Field(entry, "skipped", 0) = 1, Field(entry, "percentiles", Absent))
EntryOf(entries, dep) == IF dep \in DOMAIN entries THEN entries[dep] ELSE << >>
ParsedRows(entries, settings) ==
    LET names == SetToSeq(DOMAIN entries)
    IN  [k \in DOMAIN names |-> Found(names[k], MetricRow(entries[names[k]], settings))]

\* PrometheusParser: a malformed line and a line without a name warn.
ReadLine(acc, l) ==
    IF l.kind = "malformed" THEN [acc EXCEPT !.warnings = @ \cup {<<"line", "malformed">>}]
    ELSE IF l.field = Absent THEN acc
    ELSE IF l.dep = Absent THEN [acc EXCEPT !.warnings = @ \cup {<<"line", "nameless">>}]
    ELSE [acc EXCEPT !.entries = SetField(@, l.dep,
                                          SetField(EntryOf(@, l.dep), l.field, l.value))]
ParseText(lines, settings) ==
    LET acc == FoldLeft(ReadLine, [entries |-> << >>, warnings |-> {}], lines)
    IN  Parsed(ParsedRows(acc.entries, settings), acc.warnings)

\* getUnitMultiplier, as a fraction: seconds, unless the metric says otherwise.
Multiplier(h) ==
    CASE h.unit = "ms" -> <<1, 1>>
      [] h.unit = "us" -> <<1, 1000>>
      [] h.unit = "ns" -> <<1, 1000000>>
      [] OTHER -> <<1000, 1>>
\* a / c of the metric's unit, in hundredths of a millisecond.
InHundredths(h, a, c) == Rounded(Multiplier(h)[1] * a, Multiplier(h)[2] * c)
LastBound(h) == InHundredths(h, 100 * Last(h.bounds), 1)

\* interpolatePercentile.
SumTo(counts, k) == FoldLeft(LAMBDA a, b : a + b, 0, SubSeq(counts, 1, k))
Sums(counts) == [k \in DOMAIN counts |-> SumTo(counts, k)]
Total(h) ==
    IF h.count # Absent THEN h.count
    ELSE IF h.counts = <<>> THEN 0 ELSE Last(Sums(h.counts))
Interpolated(h, i, q) ==
    LET lower == IF i = 1 THEN 0 ELSE h.bounds[i - 1]
        upper == IF i <= Len(h.bounds) THEN h.bounds[i] ELSE Last(h.bounds)
        before == IF i = 1 THEN 0 ELSE Sums(h.counts)[i - 1]
    IN  InHundredths(h, 100 * lower * h.counts[i]
                        + (Total(h) * q - 100 * before) * (upper - lower), h.counts[i])
Percentile(h, q) ==
    LET crossed == {i \in DOMAIN h.counts : Sums(h.counts)[i] * 100 >= Total(h) * q}
    IN  IF crossed = {} THEN LastBound(h) ELSE Interpolated(h, Min(crossed), q)
\* computePercentiles; what lies in a bucket without bounds is not a number, and
\* not stored.
PercentilesOf(h) ==
    IF Total(h) = 0 \/ (h.bounds = <<>> /\ h.counts = <<>>) THEN <<0, 0, 0>>
    ELSE IF h.bounds = <<>> THEN Absent
    ELSE <<Percentile(h, 50), Percentile(h, 95), Percentile(h, 99)>>
Average(h) ==
    IF Total(h) = 0 THEN 0
    ELSE IF h.sum # Absent THEN InHundredths(h, 100 * h.sum, Total(h))
    ELSE IF h.bounds = <<>> THEN 0 ELSE Percentile(h, 50)

\* The average, in milliseconds, is the latency, unless a gauge has told it.
MeanLatency(h) == Rounded(Average(h), 100)
WithHistogram(entry, h) ==
    SetField(IF "latency" \notin DOMAIN entry /\ Average(h) > 0
             THEN SetField(entry, "latency", MeanLatency(h)) ELSE entry,
             "percentiles", PercentilesOf(h))

\* OtlpParser.parseResourceMetrics: a gauge without a name fails the entry.
PointEntry(entry, p) ==
    IF p.kind = "histogram" THEN WithHistogram(entry, p.buckets)
    ELSE IF p.field = Absent THEN entry
    ELSE SetField(entry, p.field, p.value)
ReadPoint(acc, p) ==
    IF ~acc.ok \/ (p.kind = "gauge" /\ p.field = Absent) THEN acc
    ELSE IF p.dep = Absent THEN [acc EXCEPT !.ok = p.kind # "gauge"]
    ELSE [acc EXCEPT !.entries = SetField(@, p.dep, PointEntry(EntryOf(@, p.dep), p))]
ParsePoints(points, settings) ==
    LET acc == FoldLeft(ReadPoint, [ok |-> TRUE, entries |-> << >>], points)
    IN  IF acc.ok THEN Parsed(ParsedRows(acc.entries, settings), {}) ELSE Refused

----------------------------------------------------------------------------
(* Traces.  Spans of clients and producers name the dependencies.          *)

Discovers(s) == s.client /\ s.dep # Absent
Unnamed(spans) == {<<"span", spans[k].id>> : k \in {j \in DOMAIN spans :
    spans[j].client /\ spans[j].dep = Absent}}

\* By target: the latencies are averaged, any error wins.  TraceParser does
\* so, and TraceDependencyBridge again with what it gets.
\* Mutant: the error of the last one wins.
GroupedByLast(acc, s) ==
    LET g == Field(acc, s.dep, [total |-> 0, count |-> 0, error |-> FALSE])
    IN  SetField(acc, s.dep, [total |-> g.total + s.ms, count |-> g.count + 1,
                              error |-> s.error])
Grouped(acc, s) ==
    LET g == Field(acc, s.dep, [total |-> 0, count |-> 0, error |-> FALSE])
    IN  SetField(acc, s.dep, [total |-> g.total + s.ms, count |-> g.count + 1,
                              error |-> g.error \/ s.error])
GroupedSpan(acc, s) == IF Discovers(s) THEN Grouped(acc, s) ELSE acc
TraceDependencies(spans) ==
    LET groups == FoldLeft(GroupedSpan, << >>, spans)
        names == SetToSeq(DOMAIN groups)
    IN  [k \in DOMAIN names |->
            LET g == groups[names[k]]
            IN  [dep |-> names[k], ms |-> Rounded(g.total, g.count), error |-> g.error]]
Bridged(deps) ==
    LET groups == FoldLeft(Grouped, << >>, deps)
        names == SetToSeq(DOMAIN groups)
    IN  [k \in DOMAIN names |->
            LET g == groups[names[k]]
            IN  Found(names[k], Row(~g.error, IF g.error THEN 2 ELSE 0,
                                    Rounded(g.total, g.count), FALSE, Absent))]

----------------------------------------------------------------------------
(* Storing a report. *)

StoreRow(rows, found) == [rows EXCEPT ![found.name] = found.row]
Upserted(old, deps) == FoldLeft(StoreRow, old, deps)

NoRows == [d \in ReportedDeps |-> Absent]
Report(how, settings, list) == [how |-> how, settings |-> settings, facts |-> Range(list)]

\* What a report names, whatever its order.
Names(report) ==
    LET at == report.facts
    IN  CASE report.how \in {"default", "mapped"} -> {i.name : i \in {j \in at : GoodItem(j)}}
          [] report.how = "text" ->
                {l.dep : l \in {j \in at : j.kind = "gauge" /\ j.field # Absent}} \ {Absent}
          [] report.how = "points" ->
                {p.dep : p \in {j \in at : j.kind # "gauge" \/ j.field # Absent}} \ {Absent}
          [] report.how = "spans" -> {s.dep : s \in {j \in at : Discovers(j)}}
Heeded(n, report) == [said EXCEPT ![n] = [d \in ReportedDeps |->
    IF d \in Names(report) THEN report ELSE @[d]]]

\* What a report says has an order of its own only where it says a thing twice:
\* the last one wins.  Reports whose meaning is asked say everything once, or
\* the same again, and their histograms have ascending bounds.
SaidOnce(points) ==
    /\ \A p, q \in points : p.dep = q.dep /\ p.dep # Absent =>
          /\ p.kind = "histogram" /\ q.kind = "histogram" => p.buckets = q.buckets
          /\ p.kind # "histogram" /\ q.kind # "histogram" /\ p.field = q.field
                => p.value = q.value
    /\ \A p \in points : p.kind = "histogram" =>
          \A i, j \in DOMAIN p.buckets.bounds :
             i <= j => p.buckets.bounds[i] <= p.buckets.bounds[j]
ASSUME ReportsSayOnce ==
    /\ Absent \notin Fields
    /\ Absent \notin [healthy : BOOLEAN, state : 0..2, latency : Nat, skipped : BOOLEAN,
                      percentiles : Maybe(Seq(Int))]
    /\ Absent \notin [how : {"default", "mapped", "text", "points", "spans"},
                      settings : {Defaults, Custom},
                      facts : SUBSET (ReportItem \cup ReportPoint \cup ReportSpan)]
    /\ \A body \in Items : \A i, j \in Range(body.items) :
          GoodItem(i) /\ GoodItem(j) /\ i.name = j.name => i = j
    /\ \A lines \in Texts :
          /\ SaidOnce(Range(lines))
          /\ \A l \in Range(lines) :
                l.kind = "gauge" \/ (l.kind = "malformed" /\ l.field = Absent)
    /\ \A request \in MetricPushes : \A e \in Range(request) : SaidOnce(Range(e.list))
    /\ \A request \in TracePushes : \A e \in Range(request) :
          \A j, k \in DOMAIN e.list : e.list[j].id = e.list[k].id => j = k

----------------------------------------------------------------------------
(* Users, polls and pushes. *)

ReportInit ==
    /\ reporters = [n \in Reporters |-> NoReporter]
    /\ depRows = [n \in Reporters |-> NoRows]
    /\ pollWarnings = [n \in Reporters |-> {}]
    /\ spanWarnings = {}
    /\ reports = 0
    /\ said = [n \in Reporters |-> NoRows]

\* The schema of a request of that format: validateServiceCreate and, when
\* the request names a format, validateServiceUpdate.  Anything else is refused.
Accepted(format, schema) ==
    CASE format \in {"prometheus", "otlp"} -> schema \in {"none", "metric"}
      [] format \in {"schema", Absent} -> schema \in {"none", "mapping"}
      [] format = "default" -> TRUE
CleanSchema(format, schema) == IF format = "default" THEN "none" ELSE schema

CreateReporter(n, format, schema) ==
    /\ ~Exists(n) /\ Accepted(format, schema)
    /\ reporters' = [reporters EXCEPT
          ![n] = [format |-> IF format = Absent THEN "default" ELSE format,
                  schema |-> CleanSchema(format, schema)]]
    /\ UNCHANGED <<depRows, pollWarnings, spanWarnings, reports, said>>

\* What the request leaves out stays; a schema without a format is taken by
\* its shape, whatever the format of the row.
UpdateReporter(n, format, schema) ==
    /\ Exists(n)
    /\ format # Absent /\ schema # Absent => Accepted(format, schema)
    /\ reporters' = [reporters EXCEPT ![n] =
          [format |-> IF format = Absent THEN @.format ELSE format,
           schema |-> IF schema = Absent THEN @.schema
                      ELSE IF format = Absent THEN schema ELSE CleanSchema(format, schema)]]
    /\ UNCHANGED <<depRows, pollWarnings, spanWarnings, reports, said>>

DeleteReporter(n) ==
    /\ Exists(n)
    /\ reporters' = [reporters EXCEPT ![n] = NoReporter]
    /\ depRows' = [depRows EXCEPT ![n] = NoRows]
    /\ pollWarnings' = [pollWarnings EXCEPT ![n] = {}]
    /\ said' = [said EXCEPT ![n] = NoRows]
    /\ UNCHANGED <<spanWarnings, reports>>

CountReport == reports < MaxReports /\ reports' = reports + 1
PollStored(n, result, report) ==
    /\ CountReport
    /\ depRows' = [depRows EXCEPT ![n] = Upserted(@, result.deps)]
    /\ pollWarnings' = [pollWarnings EXCEPT ![n] = result.warnings]
    /\ said' = IF result.ok THEN Heeded(n, report) ELSE said
    /\ UNCHANGED <<reporters, spanWarnings>>

\* DependencyParser.parse.  A SchemaMapper that is given the schema of metrics
\* has no root to start from and throws.
PollJson(n, body) ==
    LET s == reporters[n]
        how == IF s.schema = "none" THEN "default" ELSE "mapped"
        result == CASE s.schema = "none" -> ParseDefault(body)
                    [] s.schema = "mapping" -> ParseMapped(body)
                    [] s.schema = "metric" -> Refused
    IN  /\ s.format \in {"default", "schema"}
        /\ PollStored(n, result, Report(how, Defaults, body.items))

PollText(n, lines) ==
    LET settings == Settings(reporters[n].schema)
    IN  /\ reporters[n].format = "prometheus"
        /\ PollStored(n, ParseText(lines, settings), Report("text", settings, lines))

\* findOrCreateService: a warning about the format of one that is there.
Registered(acc, n) ==
    IF acc.reporters[n] = NoReporter
    THEN [acc EXCEPT !.reporters[n] = [format |-> "otlp", schema |-> "none"]]
    ELSE IF acc.reporters[n].format = "otlp" THEN acc
    ELSE [acc EXCEPT !.list = @ \cup {<<"format", n>>}]
EntryStored(acc, n, deps, report) ==
    [acc EXCEPT !.depRows[n] = Upserted(@, deps), !.warnings[n] = acc.list,
                !.said[n] = [d \in ReportedDeps |-> IF d \in Names(report) THEN report ELSE @[d]]]
Nameless(acc) == [acc EXCEPT !.list = @ \cup {<<"entry", "nameless">>}]

MetricsEntry(acc, e) ==
    IF e.name = Absent THEN Nameless(acc)
    ELSE LET with == Registered(acc, e.name)
             settings == Settings(with.reporters[e.name].schema)
             result == ParsePoints(e.list, settings)
         IN  IF result.ok
             THEN EntryStored(with, e.name, result.deps, Report("points", settings, e.list))
             ELSE [with EXCEPT !.list = @ \cup {<<"rejected", e.name>>}]

\* parseResourceSpans adds to the warnings of the parser, which only the
\* unused parseRequest empties; the route takes them all.
TracesEntry(acc, e) ==
    IF e.name = Absent THEN Nameless(acc)
    ELSE LET with == Registered(acc, e.name)
             kept == with.parser \cup Unnamed(e.list)
             warned == [with EXCEPT !.parser = kept, !.list = @ \cup kept]
         IN  EntryStored(warned, e.name, Bridged(TraceDependencies(e.list)),
                    Report("spans", Defaults, e.list))

\* list: the warnings of the request, of all its entries so far.
Received(Entry(_, _), request) ==
    LET acc == FoldLeft(Entry, [reporters |-> reporters, depRows |-> depRows, said |-> said,
                                warnings |-> pollWarnings,
                                parser |-> spanWarnings, list |-> {}], request)
    IN  /\ CountReport
        /\ reporters' = acc.reporters
        /\ depRows' = acc.depRows
        /\ pollWarnings' = acc.warnings
        /\ spanWarnings' = acc.parser
        /\ said' = acc.said
PushMetrics(request) == Received(MetricsEntry, request)
PushTraces(request) == Received(TracesEntry, request)

RestartReceiver ==
    /\ spanWarnings # {}
    /\ spanWarnings' = {}
    /\ UNCHANGED <<reporters, depRows, pollWarnings, reports, said>>

ReportNext ==
    \/ \E n \in EditedReporters :
          \/ \E f \in Formats \cup {Absent}, s \in Schemas : CreateReporter(n, f, s)
          \/ \E f \in Formats \cup {Absent}, s \in Schemas \cup {Absent} :
                UpdateReporter(n, f, s)
          \/ DeleteReporter(n)
          \/ \E body \in Items : PollJson(n, body)
          \/ \E lines \in Texts : PollText(n, lines)
    \/ \E request \in MetricPushes : PushMetrics(request)
    \/ \E request \in TracePushes : PushTraces(request)
    \/ RestartReceiver

ReportSpec == ReportInit /\ [][ReportNext]_reportVars

----------------------------------------------------------------------------
(* Properties. *)

ReportTypeOK ==
    /\ \A n \in Reporters : Exists(n) =>
          reporters[n].format \in Formats /\ reporters[n].schema \in Schemas
    /\ \A n \in Reporters, d \in ReportedDeps : depRows[n][d] # Absent =>
          /\ Exists(n)
          /\ depRows[n][d].healthy \in BOOLEAN /\ depRows[n][d].state \in 0..2
          /\ depRows[n][d].latency \in Nat /\ depRows[n][d].skipped \in BOOLEAN

\* The meaning of a report for a dependency that it names, without an order and
\* as documented: a skipped one is healthy, whatever else is said of it, a told
\* latency is in the unit of the settings, that of a histogram in its own, and
\* spans have a mean and may have failed (docs/spec/05-health-polling.md).
PointsOf(report, d) == {p \in report.facts : p.dep = d}
Tells(report, d, f) == {p \in PointsOf(report, d) : p.kind # "histogram" /\ p.field = f}
Told(report, d, f, default) ==
    IF Tells(report, d, f) = {} THEN default ELSE (CHOOSE p \in Tells(report, d, f) : TRUE).value
HistogramOf(report, d) == {p.buckets : p \in {q \in PointsOf(report, d) : q.kind = "histogram"}}
ItemMeaning(report, d) ==
    LET i == CHOOSE j \in report.facts : GoodItem(j) /\ j.name = d
    IN  [healthy |-> i.skipped \/ i.healthy = TRUE, latency |-> i.latency, skipped |-> i.skipped]
HealthyPoints(report, d) ==
    IF Tells(report, d, "healthy") = {} THEN Told(report, d, "state", 0) # 2
    ELSE Told(report, d, "healthy", 0) = report.settings.healthyValue
SkippedPoints(report, d) == Told(report, d, "skipped", 0) = 1
FromHistogram(report, d) == Tells(report, d, "latency") = {} /\ HistogramOf(report, d) # {}
PointMeaning(report, d) ==
    [healthy |-> SkippedPoints(report, d) \/ HealthyPoints(report, d),
     latency |-> IF FromHistogram(report, d)
                 THEN MeanLatency(CHOOSE h \in HistogramOf(report, d) : TRUE)
                 ELSE report.settings.unit * Told(report, d, "latency", 0),
     skipped |-> SkippedPoints(report, d)]
SpanMeaning(report, d) ==
    LET spans == {s \in report.facts : Discovers(s) /\ s.dep = d}
    IN  [healthy |-> \A s \in spans : ~s.error,
         latency |-> Rounded(MapThenSumSet(LAMBDA s : s.ms, spans), Cardinality(spans)),
         skipped |-> FALSE]
Meaning(report, d) ==
    CASE report.how \in {"default", "mapped"} -> ItemMeaning(report, d)
      [] report.how \in {"text", "points"} -> PointMeaning(report, d)
      [] report.how = "spans" -> SpanMeaning(report, d)

\* A row says what a report means, with two exceptions where the parsers depart
\* from the documents: only SchemaMapper heeds the mark of a skipped check, so
\* the row of another format may be unhealthy, and buildDependency converts the
\* latency of a histogram, in milliseconds already, by the unit of the settings
\* once more.
HealthAsMeant(row, report, meant) ==
    \/ row.healthy = meant.healthy
    \/ meant.skipped /\ ~row.healthy /\ report.how # "mapped"
LatencyAsMeant(row, report, d, meant) ==
    \/ row.latency = meant.latency
    \/ /\ report.how = "points" /\ FromHistogram(report, d)
       /\ row.latency = report.settings.unit * meant.latency
RowMeans(row, report, d) ==
    LET meant == Meaning(report, d)
    IN  /\ row.skipped = meant.skipped
        /\ HealthAsMeant(row, report, meant)
        /\ LatencyAsMeant(row, report, d, meant)

\* Every row says what the last report that names its dependency means: the
\* order of lines, points and spans, other dependencies of the report, refused
\* reports and reports of other services change nothing (PrometheusParser,
\* OtlpParser and TraceParser build rows point by point).  RowMeans names the
\* two exceptions.
RowsSayReport == \A n \in Reporters, d \in ReportedDeps :
    LET row == depRows[n][d]
        report == said[n][d]
    IN  /\ row = Absent <=> report = Absent
        /\ row # Absent => RowMeans(row, report, d)

\* PercentilesOf are in order and none is beyond the last bound of its histogram,
\* also where the overflow bucket is hit or the count is not that of the
\* buckets (histogramPercentiles.ts).
PercentilesInOrder == \A n \in Reporters, d \in ReportedDeps :
    LET p == IF depRows[n][d] = Absent THEN Absent ELSE depRows[n][d].percentiles
    IN  p # Absent =>
            /\ p[1] <= p[2] /\ p[2] <= p[3]
            /\ \A h \in HistogramOf(said[n][d], d) :
                  h.bounds # <<>> => p[3] <= LastBound(h)
=============================================================================

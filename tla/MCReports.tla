------------------------------ MODULE MCReports ------------------------------
(***************************************************************************)
(* Reports for TLC: one dependency in every position, a second one beside  *)
(* it, and every kind of line, point and span that is not as expected.     *)
(***************************************************************************)
EXTENDS Reports

Item(name, healthy, flat, state, skipped) ==
    [name |-> name, healthy |-> healthy, flat |-> flat, state |-> state,
     latency |-> 3, skipped |-> skipped]
MCItems ==
    {[root |-> r, items |-> <<a, b>>] : r \in {"list", "object", "none"},
        a \in {Item("d1", TRUE, FALSE, 1, FALSE), Item("d1", FALSE, TRUE, Absent, FALSE),
               Item("d1", FALSE, FALSE, 2, TRUE)},
        b \in {Item("d2", Absent, FALSE, 0, TRUE), Item(Absent, TRUE, TRUE, Absent, FALSE)}}
    \cup {[root |-> "list", items |-> <<Item("d1", Absent, FALSE, 0, FALSE)>>]}

Gauge(d, f, v) == [kind |-> "gauge", dep |-> d, field |-> f, value |-> v,
                   buckets |-> Absent]
Malformed == [kind |-> "malformed", dep |-> Absent, field |-> Absent, value |-> 0,
              buckets |-> Absent]
MCOrders(s) == {[k \in DOMAIN s |-> s[p[k]]] : p \in Permutations(DOMAIN s)}
MCTexts ==
    MCOrders(<<Gauge("d1", "state", 2), Gauge("d1", "healthy", 1), Malformed>>)
    \cup {<<Gauge("d1", "state", 2), Gauge("d1", "latency", 5), Gauge(Absent, "state", 0),
            Gauge("d2", Absent, 1), Gauge("d1", "skipped", 1)>>}

Histogram(bounds, counts, count, sum, unit) ==
    [kind |-> "histogram", dep |-> "d1", field |-> Absent, value |-> 0,
     buckets |-> [bounds |-> bounds, counts |-> counts, count |-> count, sum |-> sum,
                 unit |-> unit]]
Sum(field, v) == [kind |-> "sum", dep |-> "d1", field |-> field, value |-> v,
                  buckets |-> Absent]
MCPoints ==
    MCOrders(<<Gauge("d1", "latency", 7), Gauge("d1", "healthy", 0),
               Histogram(<<10, 30>>, <<3, 2, 2>>, Absent, 90, "ms")>>)
    \cup {<<h, Sum(f, 4)>> : f \in {Absent, "latency"},
             h \in {Histogram(<<10, 30>>, <<1, 1, 0>>, 5, Absent, Absent),
                    Histogram(<<10, 30>>, <<3, 3, 3>>, Absent, Absent, "us"),
                    Histogram(<<>>, <<>>, 4, 6, "s"),
                    Histogram(<<>>, <<4>>, Absent, Absent, "ns"),
                    Histogram(<<10>>, <<0, 0>>, Absent, 8, "ms")}}
    \cup {<<Gauge("d1", "state", 2), Gauge(Absent, "state", 0)>>,
          <<Gauge("d1", "skipped", 1), Gauge(Absent, Absent, 0)>>}
MCEntry(n, l) == [name |-> n, list |-> l]
MCMetricPushes ==
    {<<MCEntry("s1", l)>> : l \in MCPoints}
    \cup {<<MCEntry(Absent, <<>>), MCEntry("s2", <<Gauge("d1", "state", 0)>>)>>,
          <<MCEntry("s1", <<Gauge(Absent, "state", 0)>>), MCEntry("s2", <<>>)>>}

Span(id, d, ms, error, client) ==
    [id |-> id, dep |-> d, ms |-> ms, error |-> error, client |-> client]
MCTracePushes ==
    {<<MCEntry("s1", l)>> : l \in
        MCOrders(<<Span("x1", "d1", 2, FALSE, TRUE), Span("x2", "d1", 5, TRUE, TRUE),
                   Span("x3", Absent, 1, FALSE, TRUE)>>)
        \cup {<<Span("x4", "d2", 1, TRUE, FALSE), Span("x5", "d1", 4, FALSE, TRUE)>>}}
    \cup {<<MCEntry(Absent, <<>>), MCEntry("s2", <<Span("x6", "d2", 3, FALSE, TRUE)>>)>>}
=============================================================================

--------------------------- MODULE MCHealthPolling ---------------------------
(***************************************************************************)
(* Instances of HealthPolling for TLC: the configurations of the rows and  *)
(* the hosts of the URLs.  On a single host the services compete for slots.*)
(***************************************************************************)
EXTENDS HealthPolling, TLC

CONSTANTS s1, s2, u1, u2, h1, h2, b1, b2

MCSymmetry ==
    Permutations(Services) \cup Permutations(Urls) \cup Permutations(BatchIds)

MCHostOf == [u \in Urls |-> h1]

MCRow(status, url, interval, fmt) ==
    [status |-> status, url |-> url, interval |-> interval, fmt |-> fmt]

\* Each URL on a host of its own, two intervals, and push-only rows.
MCHostPerUrl == [u \in Urls |-> IF u = u1 THEN h1 ELSE h2]
MCFormatRows == {MCRow("active", u1, 1, "pull"), MCRow("active", u2, 2, "pull"),
                 MCRow("active", u1, 1, "otlp"), MCRow("inactive", u2, 1, "pull")}
\* One configuration per URL.
MCActiveRows == {MCRow("active", u, 1, "pull") : u \in Urls}
=============================================================================

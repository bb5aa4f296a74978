--------------------------- MODULE MCManifestSync ---------------------------
(***************************************************************************)
(* Instances of ManifestSync for TLC: the two fields that behave           *)
(* differently, the endpoint (required, except for a push-based service)   *)
(* and the format (optional, with a default).                              *)
(***************************************************************************)
EXTENDS ManifestSync, TLC

MCFields == {"health_endpoint", "health_endpoint_format"}
MCValuesOf == [f \in MCFields |-> IF f = "health_endpoint" THEN {"u1", "u2"}
                                  ELSE {"default", "otlp"}]
MCDefaultOf == [f \in MCFields |-> IF f = "health_endpoint" THEN "" ELSE "default"]
\* An endpoint that changes, a format that changes or is omitted, and a
\* push-based service without an endpoint.
MCEntry(u, fmt) == [f \in MCFields |-> IF f = "health_endpoint" THEN u ELSE fmt]
MCSpecified == {MCEntry("u1", "default"), MCEntry("u2", Unspecified),
                MCEntry(Unspecified, "otlp")}
MCPolicy(d, r) == [on_field_drift |-> d, on_removal |-> r]
MCPolicies == {MCPolicy("flag", "flag"), MCPolicy("local_wins", "delete")}
MCSymmetry == Permutations(Configs)
=============================================================================

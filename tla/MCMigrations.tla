----------------------------- MODULE MCMigrations -----------------------------
(***************************************************************************)
(* Rows for Migrations: what an early release stores, what a service that  *)
(* is polled leaves behind, and a row of every kind in every table.        *)
(***************************************************************************)
EXTENDS Migrations

MCRow(t, k) == [table |-> t, kind |-> k]
MCServiceRows ==
    {MCRow(t, "plain") : t \in {"users", "teams", "services", "dependencies",
        "dependency_associations", "dependency_latency_history", "dependency_error_history",
        "status_change_events", "service_poll_history"}}
    \cup {MCRow("services", "external"), MCRow("dependency_associations", "suggested")}
MCEverything ==
    {MCRow(t, "plain") : t \in {"users", "teams", "team_members", "services", "dependencies",
        "dependency_associations", "dependency_latency_history", "dependency_error_history",
        "dependency_aliases", "audit_log", "settings", "alert_channels", "alert_rules",
        "alert_history", "dependency_canonical_overrides", "status_change_events",
        "service_poll_history", "team_manifest_config", "manifest_sync_history", "drift_flags",
        "alert_mutes", "team_api_keys", "api_key_usage_buckets", "external_node_enrichment",
        "spans", "app_settings"}}
    \cup MCServiceRows
    \cup {MCRow("dependency_canonical_overrides", "team"), MCRow("alert_history", "muted"),
          MCRow("alert_mutes", "service"), MCRow("team_manifest_config", "second")}
MCBundles == {MCServiceRows, MCEverything}
=============================================================================

----------------------------- MODULE Migrations -----------------------------
(***************************************************************************)
(* The migrations of the database: db/migrate.ts, the files under          *)
(* db/migrations, the start of the server and the commands of db/cli.ts.   *)
(*                                                                         *)
(* A migration is two sequences of statements.  A statement changes the    *)
(* tables, the columns that some migration adds or drops, the foreign keys *)
(* and the rows.  The connection enforces foreign keys, so that dropping a *)
(* table deletes its rows first, and with them those that refer to it.     *)
(* Indexes, values and the columns that never change are left out.         *)
(***************************************************************************)
EXTENDS Integers, Sequences, FiniteSetsExt

CONSTANTS
    Releases,  \* how many migrations the releases have that may start
    Bundles,   \* sets of rows that the application stores together
    RollbackIds,  \* ids that rollback is given
    NoId       \* a rollback without an id

VARIABLES
    db,       \* tables, columns, foreign keys and rows
    applied,  \* the ids in _migrations
    process   \* what works on the database: nothing, the server, a rollback

migrationVars == <<db, applied, process>>

----------------------------------------------------------------------------
(* Rows.  A table has at most one row of each kind; the plain one of the   *)
(* parent is the one that others refer to.                                 *)

RowKinds == {"plain", "external", "suggested", "team", "muted", "service",
          "second", "seed"}
\* The column without which a row of a kind cannot be told from a plain one.
KindColumn == [external |-> "is_external", suggested |-> "is_auto_suggested",
          team |-> "team_id", service |-> "service_id", second |-> "name"]
\* References that a row of a kind leaves empty.
EmptyRefs == {[table |-> "dependency_canonical_overrides", kind |-> "plain", parent |-> "teams"],
              [table |-> "alert_mutes", kind |-> "plain", parent |-> "services"],
              [table |-> "alert_mutes", kind |-> "service", parent |-> "dependencies"],
              [table |-> "app_settings", kind |-> "seed", parent |-> "users"]}
\* The foreign keys of a row.
RefsOf(d, row) ==
    {f \in d.refs :
        f.table = row.table /\ [table |-> row.table, kind |-> row.kind,
                                parent |-> f.parent] \notin EmptyRefs}
Parents(d, row, actions) ==
    {[table |-> f.parent, kind |-> "plain"] : f \in {g \in RefsOf(d, row) : g.action \in actions}}
\* A row with its kind, if the columns still tell it.
Marked(row, columns) ==
    IF row.kind \in DOMAIN KindColumn /\ KindColumn[row.kind] \notin columns
    THEN [row EXCEPT !.kind = "plain"] ELSE row

Longest == 4  \* no chain of foreign keys is longer
\* The rows that go with the given ones: ON DELETE CASCADE.
Wider(d, gone) == gone \cup {r \in d.rows : Parents(d, r, {"cascade"}) \cap gone # {}}
Cascade(d, rows) ==
    LET level[n \in 0..Longest] == IF n = 0 THEN rows ELSE Wider(d, level[n - 1])
    IN  level[Longest]
\* ON DELETE RESTRICT and NO ACTION refuse; ON DELETE SET NULL lets go.
DeleteRows(d, rows) ==
    LET gone == Cascade(d, rows)
        refused == \E r \in d.rows \ gone : Parents(d, r, {"restrict", "none"}) \cap gone # {}
    IN  IF refused THEN [d EXCEPT !.ok = FALSE] ELSE [d EXCEPT !.rows = @ \ gone]

RowsIn(d, table) == {r \in d.rows : r.table = table}
ColumnsIn(d, table) == {c \in d.columns : c[1] = table}
RefsIn(d, table) == {f \in d.refs : f.table = table}

----------------------------------------------------------------------------
(* Statements. *)

Refs(table, parents) == {[table |-> table, parent |-> p[1], action |-> p[2]] : p \in parents}
Columns(table, names) == {<<table, c>> : c \in names}

New(table, parents, names) ==
    [op |-> "create", table |-> table, parents |-> parents, names |-> names]
Drop(table) == [op |-> "drop", table |-> table]
\* Create a table with these columns, copy the rows but for some kinds, drop
\* the old one and rename the new one (or the same by way of a copy).
Rebuild(table, parents, names, lost) ==
    [op |-> "rebuild", table |-> table, parents |-> parents, names |-> names, lost |-> lost]
Add(table, names) == [op |-> "add", table |-> table, parents |-> {}, names |-> names]
AddRef(table, name, parent) ==
    [op |-> "add", table |-> table, parents |-> {<<parent, "null">>}, names |-> {name}]
Take(table, names) == [op |-> "take", table |-> table, from |-> {}, names |-> names]
TakeRef(table, name, parent) ==
    [op |-> "take", table |-> table, from |-> {parent}, names |-> {name}]
Delete(table, kinds) == [op |-> "delete", table |-> table, kinds |-> kinds]
Seed(table) == [op |-> "seed", table |-> table]

\* DROP TABLE deletes the rows first.
DropTable(d, table) ==
    LET e == DeleteRows(d, RowsIn(d, table))
    IN  [e EXCEPT !.tables = @ \ {table}, !.columns = @ \ ColumnsIn(d, table),
                  !.refs = @ \ RefsIn(d, table)]
Rebuilt(d, s) ==
    LET e == DropTable(d, s.table)
        kept == {r \in RowsIn(d, s.table) : r.kind \notin s.lost}
    IN  [e EXCEPT !.tables = @ \cup {s.table}, !.columns = @ \cup Columns(s.table, s.names),
                  !.refs = @ \cup Refs(s.table, s.parents),
                  !.rows = @ \cup {Marked(r, s.names) : r \in kept}]

Execute(d, s) ==
    CASE ~d.ok -> d
      [] d.ok /\ s.op = "create" ->
            [d EXCEPT !.ok = s.table \notin d.tables, !.tables = @ \cup {s.table},
                      !.columns = @ \cup Columns(s.table, s.names),
                      !.refs = @ \cup Refs(s.table, s.parents)]
      [] d.ok /\ s.op = "drop" -> DropTable(d, s.table)
      [] d.ok /\ s.op = "rebuild" -> Rebuilt(d, s)
      [] d.ok /\ s.op = "add" ->  \* "duplicate column name"
            [d EXCEPT !.ok = Columns(s.table, s.names) \cap d.columns = {},
                      !.columns = @ \cup Columns(s.table, s.names),
                      !.refs = @ \cup Refs(s.table, s.parents)]
      [] d.ok /\ s.op = "take" ->
            [d EXCEPT !.columns = @ \ Columns(s.table, s.names),
                      !.refs = {f \in @ : ~(f.table = s.table /\ f.parent \in s.from)}]
      [] d.ok /\ s.op = "delete" ->
            DeleteRows(d, {r \in RowsIn(d, s.table) : r.kind \in s.kinds})
      [] d.ok /\ s.op = "seed" ->
            [d EXCEPT !.rows = @ \cup {[table |-> s.table, kind |-> "seed"]}]

Run(d, statements) ==
    LET after[k \in 0..Len(statements)] ==
            IF k = 0 THEN d ELSE Execute(after[k - 1], statements[k])
    IN  after[Len(statements)]
Script(up, down) == [up |-> up, down |-> down]

----------------------------------------------------------------------------
(* Foreign keys and columns that several migrations name. *)

OfUser == {<<"users", "none">>}
OfTeam == {<<"teams", "restrict">>}
TeamOwned == {<<"teams", "cascade">>}
OfMember == TeamOwned \cup {<<"users", "cascade">>}
OfService == {<<"services", "cascade">>}
OfDependency == {<<"dependencies", "cascade">>}
OfLink == OfDependency \cup OfService
OfAlert == {<<"alert_channels", "cascade">>, <<"dependencies", "null">>} \cup OfService
OfSync == {<<"teams", "none">>, <<"users", "none">>}
OfFlag == TeamOwned \cup OfService
          \cup {<<"users", "null">>, <<"manifest_sync_history", "null">>}
OfMute == TeamOwned \cup OfDependency \cup OfUser

Suggestion == {"is_auto_suggested", "confidence_score", "is_dismissed"}
Checks == {"check_details", "error", "error_message"}
LastPoll == {"last_poll_success", "last_poll_error"}
PollInterval == {"poll_interval_ms"}
ManifestColumns == {"manifest_key", "manifest_managed", "manifest_last_synced_values"}
Thresholds == {"use_custom_thresholds", "cooldown_minutes", "rate_limit_per_hour"}
Discovery == {"discovery_source", "user_display_name", "user_description", "user_impact"}
Percentiles == {"p50_ms", "p95_ms", "p99_ms", "min_ms", "max_ms", "request_count", "source"}

----------------------------------------------------------------------------
(* The migrations, one file each. *)

M001 == Script(
    <<New("users", {}, {}), New("teams", {}, {}), New("team_members", OfMember, {}),
      New("services", OfTeam, {"polling_interval"}), New("dependencies", OfService, {}),
      New("dependency_associations", OfLink, Suggestion)>>,
    <<Drop("dependency_associations"), Drop("dependencies"), Drop("services"),
      Drop("team_members"), Drop("teams"), Drop("users")>>)
M002 == Script(
    <<Add("dependencies", {"type"})>>,
    <<Rebuild("dependencies", OfService, {}, {})>>)
M003 == Script(
    <<New("dependency_latency_history", OfDependency, {})>>,
    <<Drop("dependency_latency_history")>>)
M004 == Script(
    <<Add("dependencies", Checks), New("dependency_error_history", OfDependency, {})>>,
    <<Drop("dependency_error_history")>>)
M005 == Script(<<Add("services", LastPoll)>>, <<>>)
M006 == Script(
    <<New("dependency_aliases", {}, {}), Add("dependencies", {"canonical_name"})>>,
    <<Drop("dependency_aliases")>>)
M007 == Script(
    <<Rebuild("services", OfTeam, PollInterval \cup LastPoll, {})>>,
    <<Rebuild("services", OfTeam, {"polling_interval"} \cup LastPoll, {})>>)
M008 == Script(<<New("audit_log", OfUser, {})>>, <<Drop("audit_log")>>)
M009 == Script(<<New("settings", OfUser, {})>>, <<Drop("settings")>>)
M010 == Script(
    <<Add("users", {"password_hash"})>>,
    <<Rebuild("users", {}, {}, {})>>)
M011 == Script(
    <<New("alert_channels", TeamOwned, {}), New("alert_rules", TeamOwned, {}),
      New("alert_history", OfAlert, {})>>,
    <<Drop("alert_history"), Drop("alert_rules"), Drop("alert_channels")>>)
M012 == Script(
    <<Add("services", {"schema_config"})>>,
    <<Rebuild("services", OfTeam, PollInterval \cup LastPoll, {})>>)
\* Mutant: the rebuilt table lacks a column that stays in use.
M013Without == Script(
    <<Add("services", {"is_external", "description"})>>,
    <<Rebuild("services", OfTeam, PollInterval \cup LastPoll,
              {"external"})>>)
M013 == Script(
    <<Add("services", {"is_external", "description"})>>,
    <<Rebuild("services", OfTeam, {"schema_config"} \cup PollInterval \cup LastPoll,
              {"external"})>>)
M014 == Script(
    <<Add("dependency_associations", {"match_reason"})>>,
    <<Rebuild("dependency_associations", OfLink, Suggestion, {})>>)
M015 == Script(
    <<Rebuild("dependencies", OfService, {"type", "canonical_name"} \cup Checks, {})>>,
    <<Rebuild("dependencies", OfService, {"type", "canonical_name"} \cup Checks, {})>>)
M016 == Script(<<Add("dependencies", {"contact"})>>, <<>>)
M017 == Script(<<Add("dependencies", {"contact_override", "impact_override"})>>, <<>>)
M018 == Script(
    <<New("dependency_canonical_overrides", OfUser, {})>>,
    <<Drop("dependency_canonical_overrides")>>)
M019 == Script(<<New("status_change_events", OfService, {})>>, <<Drop("status_change_events")>>)
M020 == Script(<<New("service_poll_history", OfService, {})>>, <<Drop("service_poll_history")>>)
M021 == Script(<<>>, <<>>)  \* indexes
M022 == Script(
    <<Add("services", {"poll_warnings"})>>,
    <<Take("services", {"poll_warnings"})>>)
M023 == Script(
    <<Add("dependencies", {"skipped"})>>,
    <<Take("dependencies", {"skipped"})>>)
M024 == Script(
    <<New("team_manifest_config", TeamOwned, {}),
      New("manifest_sync_history", OfSync, {}),
      Add("services", ManifestColumns),
      AddRef("dependency_aliases", "manifest_team_id", "teams"),
      Rebuild("dependency_canonical_overrides", TeamOwned \cup OfUser,
              {"team_id", "manifest_managed"}, {}),
      Add("dependency_associations", {"manifest_managed"})>>,
    <<Take("dependency_associations", {"manifest_managed"}),
      Rebuild("dependency_canonical_overrides", OfUser, {}, {"team"}),
      TakeRef("dependency_aliases", "manifest_team_id", "teams"),
      Take("services", ManifestColumns),
      Drop("manifest_sync_history"), Drop("team_manifest_config")>>)
M025 == Script(<<New("drift_flags", OfFlag, {})>>, <<Drop("drift_flags")>>)
M026 == Script(
    <<Delete("dependency_associations", {"suggested"}),
      Rebuild("dependency_associations", OfLink, {"manifest_managed"}, {})>>,
    <<Add("dependency_associations", Suggestion \cup {"match_reason"})>>)
M027 == Script(<<Add("teams", {"key"})>>, <<Rebuild("teams", {}, {}, {})>>)
M028 == Script(<<Add("teams", {"contact"})>>, <<Rebuild("teams", {}, {"key"}, {})>>)
M029 == Script(
    <<Add("alert_rules", Thresholds)>>,
    <<Rebuild("alert_rules", TeamOwned, {}, {})>>)
M030 == Script(
    <<Add("alert_rules", {"alert_delay_minutes"})>>,
    <<Rebuild("alert_rules", TeamOwned, Thresholds, {})>>)
M031 == Script(
    <<New("alert_mutes", OfMute, {}), Rebuild("alert_history", OfAlert, {}, {})>>,
    <<Delete("alert_history", {"muted"}), Rebuild("alert_history", OfAlert, {}, {}),
      Drop("alert_mutes")>>)
\* Mutant: the channels are rebuilt in place of the mutes.
M032OfChannels == Script(
    <<Rebuild("alert_channels", TeamOwned, {"service_id"}, {})>>,
    <<Delete("alert_mutes", {"service"}), Rebuild("alert_channels", TeamOwned, {}, {})>>)
M032 == Script(
    <<Rebuild("alert_mutes", OfMute \cup OfService, {"service_id"}, {})>>,
    <<Delete("alert_mutes", {"service"}), Rebuild("alert_mutes", OfMute, {}, {})>>)
M033 == Script(
    <<Rebuild("team_manifest_config", TeamOwned, {"name"}, {}),
      AddRef("manifest_sync_history", "manifest_config_id", "team_manifest_config"),
      AddRef("drift_flags", "manifest_config_id", "team_manifest_config"),
      AddRef("services", "manifest_config_id", "team_manifest_config")>>,
    <<TakeRef("services", "manifest_config_id", "team_manifest_config"),
      TakeRef("drift_flags", "manifest_config_id", "team_manifest_config"),
      TakeRef("manifest_sync_history", "manifest_config_id", "team_manifest_config"),
      Rebuild("team_manifest_config", TeamOwned, {}, {"second"})>>)
M034 == Script(
    <<Add("services", {"health_endpoint_format"}),
      New("team_api_keys", TeamOwned \cup OfUser, {})>>,
    <<Drop("team_api_keys"), Take("services", {"health_endpoint_format"})>>)
M035 == Script(
    <<Add("team_api_keys", {"rate_limit_rpm", "rate_limit_admin_locked"})>>,
    <<Take("team_api_keys", {"rate_limit_rpm", "rate_limit_admin_locked"})>>)
M036 == Script(<<New("api_key_usage_buckets", {}, {})>>, <<Drop("api_key_usage_buckets")>>)
M037 == Script(
    <<Add("dependencies", Discovery),
      Add("dependency_associations", {"is_auto_suggested", "is_dismissed"})>>,
    <<Rebuild("dependency_associations", OfLink, {"manifest_managed"}, {})>>)
M038 == Script(
    <<New("external_node_enrichment", OfUser, {})>>,
    <<Drop("external_node_enrichment")>>)
M039 == Script(<<Add("dependency_latency_history", Percentiles)>>, <<>>)
M040 == Script(<<New("spans", TeamOwned, {})>>, <<Drop("spans")>>)
M041 == Script(
    <<New("app_settings", OfUser, {}), Seed("app_settings")>>,
    <<Drop("app_settings")>>)

AllMigrations ==
    <<M001, M002, M003, M004, M005, M006, M007, M008, M009, M010, M011, M012, M013, M014,
      M015, M016, M017, M018, M019, M020, M021, M022, M023, M024, M025, M026, M027, M028,
      M029, M030, M031, M032, M033, M034, M035, M036, M037, M038, M039, M040, M041>>
Ids == 1..Len(AllMigrations)

ASSUME MigrationConstants ==
    /\ Releases \subseteq Ids
    /\ \A b \in Bundles : b \subseteq [table : STRING, kind : RowKinds]
    /\ RollbackIds \subseteq Ids /\ NoId \notin Ids

----------------------------------------------------------------------------
(* The server and the commands.  One process at a time changes the schema. *)

Idle == [kind |-> "idle", todo |-> {}]
Empty == [tables |-> {}, columns |-> {}, refs |-> {}, rows |-> {}, ok |-> TRUE]

\* runMigrations: what is not applied; the least id is next.
Pending(release) == (1..release) \ applied
\* rollbackMigration: without an id, everything; the greatest id is next.
ToRollBack(target) == {i \in applied : target = NoId \/ i >= target}

MigrationInit ==
    /\ db = Empty
    /\ applied = {}
    /\ process = Idle

\* initializeDatabase, at the start of the server, and the migrate command.
Start(release) ==
    /\ process.kind = "idle"
    /\ process' = [Idle EXCEPT !.kind = "migrate", !.todo = Pending(release)]
    /\ UNCHANGED <<db, applied>>

\* One migration and its mark, in a transaction; an error ends the process.
MigrateNext ==
    /\ process.kind = "migrate" /\ process.todo # {}
    /\ LET id == Min(process.todo)
            after == Run(db, AllMigrations[id].up)
        IN  IF after.ok
            THEN /\ db' = after
                 /\ applied' = applied \cup {id}
                 /\ process' = [process EXCEPT !.todo = @ \ {id}]
            ELSE process' = Idle /\ UNCHANGED <<db, applied>>

Ready ==
    /\ process.kind = "migrate" /\ process.todo = {}
    /\ process' = [Idle EXCEPT !.kind = "serve"]
    /\ UNCHANGED <<db, applied>>

\* A crash or the end of the process: transactions are all or nothing.
EndProcess ==
    /\ process.kind # "idle"
    /\ process' = Idle
    /\ UNCHANGED <<db, applied>>

\* The application stores what the schema has a place for.
HasPlace(row) ==
    /\ row.table \in db.tables
    /\ row.kind \in DOMAIN KindColumn => <<row.table, KindColumn[row.kind]>> \in db.columns
    /\ row.kind = "muted" => "alert_mutes" \in db.tables
Store(bundle) ==
    /\ process.kind = "serve"
    /\ db' = [db EXCEPT !.rows = @ \cup {r \in bundle : HasPlace(r)}]
    /\ UNCHANGED <<applied, process>>

Rollback(target) ==
    /\ process.kind = "idle" /\ applied # {}
    /\ process' = [kind |-> "rollback", todo |-> ToRollBack(target)]
    /\ UNCHANGED <<db, applied>>

RollbackNext ==
    /\ process.kind = "rollback" /\ process.todo # {}
    /\ LET id == Max(process.todo)
            after == Run(db, AllMigrations[id].down)
        IN  IF after.ok
            THEN /\ db' = after
                 /\ applied' = applied \ {id}
                 /\ process' = [process EXCEPT !.todo = @ \ {id}]
            ELSE process' = Idle /\ UNCHANGED <<db, applied>>

\* clearDatabase: deletes without a transaction, up to the first that fails.
DeleteAll(table) == Delete(table, RowKinds)
ClearOrder ==
    <<DeleteAll("dependency_associations"), DeleteAll("dependencies"), DeleteAll("services"),
      DeleteAll("team_members"), DeleteAll("teams"), DeleteAll("users")>>
Clear ==
    /\ process.kind = "idle" /\ applied # {}
    /\ db' = [Run(db, ClearOrder) EXCEPT !.ok = TRUE]
    /\ UNCHANGED <<applied, process>>

\* clearServices: nothing refuses to lose its service.
ClearServices ==
    /\ process.kind = "idle" /\ applied # {}
    /\ db' = DeleteRows(db, RowsIn(db, "services"))
    /\ UNCHANGED <<applied, process>>

MigrationNext ==
    \/ \E r \in Releases : Start(r)
    \/ MigrateNext
    \/ Ready
    \/ EndProcess
    \/ \E b \in Bundles : Store(b)
    \/ \E t \in RollbackIds \cup {NoId} : Rollback(t)
    \/ RollbackNext
    \/ Clear
    \/ ClearServices

MigrationSpec == MigrationInit /\ [][MigrationNext]_migrationVars

----------------------------------------------------------------------------
(* Properties. *)

MigrationTypeOK ==
    /\ applied \subseteq Ids
    /\ process.kind \in {"idle", "migrate", "serve", "rollback"}
    /\ process.todo \subseteq Ids
    /\ db.ok
    /\ \A r \in db.rows : r.table \in db.tables /\ r.kind \in RowKinds

\* The schema after the first n migrations, and nothing else.
SchemaOf[n \in 0..Len(AllMigrations)] ==
    IF n = 0 THEN Empty ELSE Run(SchemaOf[n - 1], AllMigrations[n].up)

\* Whatever was migrated, rolled back, killed half way and started again, the
\* applied migrations are the first ones, and the database has every table,
\* column and foreign key they make: the tables that a rollback rebuilds keep
\* what the migrations before it added (the down scripts of db/migrations).
SchemaComplete ==
    LET wanted == SchemaOf[Cardinality(applied)]
    IN  /\ applied = 1..Cardinality(applied)
        /\ db.tables = wanted.tables
        /\ db.refs = wanted.refs
        /\ wanted.columns \subseteq db.columns

\* From 015 on, an upgrade deletes nothing but the suggestions that 026 drops:
\* every table that is rebuilt has no child that its rows take with them
\* (007 and 015 themselves delete the dependencies or their history).
UpgradeKeepsRows == [][
    process.kind = "migrate" /\ 15 \in applied
    => db.rows \ db'.rows \subseteq {[table |-> "dependency_associations", kind |-> "suggested"]}
    ]_migrationVars
=============================================================================

------------------------------- MODULE MCServer -------------------------------
(***************************************************************************)
(* The parts that share no state, in one model: "part" says which of them  *)
(* moves, the others keep their first state.  Nothing is lost by that: no  *)
(* step of one part reads or changes a variable of another.                *)
(***************************************************************************)
EXTENDS ManifestMetadata, ApiKeys, Accounts, Ingestion, ServiceGraph, Retention,
        MCMigrations, MCReports, AssociationsPage

VARIABLE part

allVars == <<part, metaVars, keyVars, accountVars, ingestVars, graphVars,
             retentionVars, migrationVars, reportVars, linkVars>>

\* ManifestMetadata: a team's manifests over one dependency.
MCTeamOf == [d \in Deps |-> "t1"]
MCRawName == [d \in Deps |-> "n1"]
MCSuggests == [x \in Aliases \cup Canonicals |-> IF x = "c1" THEN Targets ELSE {}]
MCManifest(a, o, l) ==
    [aliases |-> [n \in Aliases |-> a],
     overrides |-> [c \in Canonicals |-> IF c = "c1" THEN o ELSE "none"],
     associations |-> l]
MCLink(byRaw) == [dep |-> "d1", byRaw |-> byRaw, target |-> "s1"]
MCManifests ==
    {MCManifest(m[1], m[2], l) : m \in {<<"c1", "v1">>, <<"none", "none">>},
                                 l \in {{}, {MCLink(TRUE)}, {MCLink(FALSE)}}}
MCRemovals == {[aliases |-> b, overrides |-> b, associations |-> b] : b \in BOOLEAN}

\* Ingestion: polls and pushes of two dependencies, one of them unreliable.
MCResponses ==
    {<<"up", "e1">>, <<"e1", "e2">>, [d \in {2} |-> "up"]}

\* ServiceGraph: three services of two teams and four dependencies.
MCServices == {"s1", "s2", "s3"}
MCTeamOfService == [s \in MCServices |-> IF s = "s3" THEN "t2" ELSE "t1"]
MCOwnerOf == <<"s1", "s1", "s2", "s3">>
MCNameOf == <<"n1", "n2", "n1", "n3">>
MCTypeOf == <<"db", "db", "api", "db">>
MCLinkChoices == <<{"s2", "s3"}, {"s2"}, {"s3"}, {"s1"}>>
MCKind(h, s, k) == [healthy |-> h, state |-> s, skipped |-> k]
MCKinds == {MCKind(TRUE, 0, FALSE), MCKind(FALSE, 0, FALSE),
            MCKind(TRUE, 1, FALSE), MCKind(FALSE, 2, TRUE)}

\* Retention: three tables, days of three slots, one number that parses badly.
MCTables == <<"history", "manifest", "spans">>
MCFixedDays == [t \in {"history", "manifest", "spans"} |-> 1]
MCDaysInputs == {[int |-> 1, float |-> 1], [int |-> 2, float |-> 2], [int |-> 2, float |-> 9]}

\* Parts that do not move start in one of their first states, and the page,
\* whose variables are large, has none.
PageParts == {"links", "aliases", "overrides", "external"}
Init ==
    /\ part \in {"metadata", "keys", "accounts", "ingestion", "graph", "retention",
                "migrations", "reports"} \cup PageParts
    /\ MetaInit /\ KeyInit /\ IngestInit /\ GraphInit
    /\ RetentionInit /\ MigrationInit /\ ReportInit
    /\ AccountInit /\ (part # "accounts" => mode = "local")
    /\ IF part \in PageParts THEN LinkPageInit
       ELSE tables = {} /\ usedIds = {} /\ linkPage = Nothing

\* Of the parts, p moves.
Still(p, vars) == IF part = p THEN TRUE ELSE UNCHANGED vars
Only(p) ==
    /\ part = p /\ UNCHANGED part
    /\ Still("metadata", metaVars) /\ Still("keys", keyVars)
    /\ Still("accounts", accountVars) /\ Still("ingestion", ingestVars)
    /\ Still("graph", graphVars) /\ Still("retention", retentionVars)
    /\ Still("migrations", migrationVars) /\ Still("reports", reportVars)
    /\ IF part \in PageParts THEN TRUE ELSE UNCHANGED linkVars

Next ==
    \/ Only("metadata") /\ MetaNext
    \/ Only("keys") /\ KeyNext
    \/ Only("accounts") /\ AccountNext
    \/ Only("ingestion") /\ IngestNext
    \/ Only("graph") /\ GraphNext
    \/ Only("retention") /\ RetentionNext
    \/ Only("migrations") /\ MigrationNext
    \/ Only("reports") /\ ReportNext
    \/ Only("links") /\ LinksNext
    \/ Only("aliases") /\ AliasesNext
    \/ Only("overrides") /\ OverridesNext
    \/ Only("external") /\ ExternalNext

Spec == Init /\ [][Next]_allVars

(* The type invariants of the parts, each asked while its part moves.        *)
TypeOK ==
    CASE part = "metadata" -> MetaTypeOK
      [] part = "keys" -> KeyTypeOK
      [] part = "accounts" -> AccountTypeOK
      [] part = "ingestion" -> IngestTypeOK
      [] part = "graph" -> GraphTypeOK
      [] part = "retention" -> RetentionTypeOK
      [] part = "migrations" -> MigrationTypeOK
      [] part = "reports" -> ReportTypeOK
      [] part \in PageParts -> LinkPageTypeOK

\* The properties of what is computed from the whole state, asked only while
\* that state changes.

(* SubgraphComplete: a subgraph holds exactly the services that are reachable, *)
(* with all their dependencies, TeamWithinFull: the graph of a team is a part  *)
(* of the full graph, WallboardAgrees: wallboard and aggregated health judge a *)
(* service alike, and ListsShown: the page of associations shows what the      *)
(* tables hold (GraphService.ts, WallboardService.ts, ManageAssociations.tsx). *)
ViewsAgree ==
    /\ part = "graph" => SubgraphComplete /\ TeamWithinFull /\ WallboardAgrees
    /\ part \in PageParts => ListsShown

(* SchemaComplete: the schema is the one of the applied migrations             *)
(* (db/migrate.ts, db/migrations).                                             *)
SchemaIsComplete == part = "migrations" => SchemaComplete

(* RowsSayReport: rows of dependencies say what the last report on them means, *)
(* and PercentilesInOrder: those of a histogram do not cross (PrometheusParser,*)
(* OtlpParser, TraceParser).                                                   *)
ReportsAreRead == part = "reports" => RowsSayReport /\ PercentilesInOrder
=============================================================================

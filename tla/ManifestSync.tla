----------------------------- MODULE ManifestSync -----------------------------
(***************************************************************************)
(* The manifest sync of one team (server/src/services/manifest) with the   *)
(* drift flags it raises (DriftFlagStore) and what users do to flags, to   *)
(* services and to the configurations meanwhile (routes/drifts,            *)
(* routes/services, routes/manifest).                                      *)
(*                                                                         *)
(* syncManifest takes the lock of its configuration, awaits the manifest   *)
(* and the checks of its URLs, and then reads, compares and writes the     *)
(* services in one callback; whatever happens during the awaits comes      *)
(* between StartSync and the end of the sync.  Between the two nothing a   *)
(* sync remembers is read by others, so a configuration has a number of    *)
(* syncs in flight, and the policy and the manifest of a sync, which may   *)
(* change at any time, are chosen when it ends.                            *)
(***************************************************************************)
EXTENDS Integers, Sequences, FiniteSets, SequencesExt, Functions

CONSTANTS
    Keys,         \* manifest keys, unique within the team
    Configs,      \* ids of manifest configurations; never used twice
    NoConfig,     \* NULL in manifest_config_id
    Fields,       \* the synced columns that are modelled, by their names
    ValuesOf,     \* the values of each field
    DefaultOf,    \* what the code stores for a field the manifest omits
    Unspecified,  \* "the entry does not have this field"
    Blocked,      \* the URLs the SSRF check refuses
    Watched,      \* the fields whose history is kept
    Specified,    \* what manifests specify: a set of entries
    Policies,     \* the policies a configuration may have
    MaxSyncs      \* bound: syncs in flight

\* A NULL or empty column, and a field missing in the snapshot, compare as "".
Empty == ""
Values == {Empty} \cup UNION {ValuesOf[f] : f \in Fields}

Policy == [on_field_drift : {"flag", "manifest_wins", "local_wins"},
           on_removal : {"flag", "deactivate", "delete"}]

ASSUME ManifestConstants ==
    /\ {"health_endpoint", "health_endpoint_format"} \subseteq Fields
    /\ "removal" \notin Fields
    /\ \A f \in Fields : Empty \notin ValuesOf[f]
    /\ \A f \in Fields : DefaultOf[f] \in ValuesOf[f] \cup {Empty}
    /\ Unspecified \notin Values
    /\ NoConfig \notin Configs
    /\ Watched \subseteq Fields
    /\ Policies \subseteq Policy
    /\ MaxSyncs \in Nat \ {0}

VARIABLES
    configs,  \* team_manifest_config: is each configuration new, live, deleted?
    svc,      \* services: the row with each key
    flags,    \* drift_flags: the open flags of each service and slot
    running,  \* the number of syncs of each configuration in flight
    lock,     \* ManifestSyncService.locks
    overdue,  \* history: has a sync in flight outlived its lock?
    seen      \* history: what manifests have specified for each watched field

vars == <<configs, svc, flags, running, lock, overdue, seen>>
history == <<overdue, seen>>

----------------------------------------------------------------------------
(* Manifest entries (ManifestValidator) and service rows. *)

IsOtlp(e) == e["health_endpoint_format"] = "otlp"

\* What validateServiceEntry lets pass: the endpoint of a pull-based service
\* is required, the other fields are optional.
Entries == {e \in [Fields -> Values \cup {Unspecified}] :
               /\ \A f \in Fields : e[f] \in ValuesOf[f] \cup {Unspecified}
               /\ e["health_endpoint"] = Unspecified => IsOtlp(e)}
\* A valid manifest has an entry or none for each key: crossReferenceChecks
\* refuses duplicates.
NoEntry == [f \in Fields |-> Unspecified]
Manifests == [Keys -> (Entries \cap Specified) \cup {NoEntry}]

NoRow == [status |-> "absent", cfg |-> NoConfig,
          val |-> [f \in Fields |-> Empty], snap |-> [f \in Fields |-> Empty]]
RowExists(k) == svc[k].status # "absent"

\* Mutant: omitted fields are not stored as empty.
SnapshotRaw(e) == e
\* buildSyncedValues.
Snapshot(e) == [f \in Fields |-> IF e[f] = Unspecified THEN Empty ELSE e[f]]

\* The row applyChanges creates: a push-based service has no endpoint.
Created(c, e) ==
    [status |-> "active", cfg |-> c, snap |-> Snapshot(e),
     val |-> [f \in Fields |->
                IF f = "health_endpoint" /\ IsOtlp(e) THEN Empty
                ELSE IF e[f] = Unspecified THEN DefaultOf[f] ELSE e[f]]]

----------------------------------------------------------------------------
(* ManifestDiffer, for an entry and the row with its key. *)

Differs(e, row, f) == e[f] # Unspecified /\ e[f] # row.val[f]
Untouched(row, f) == row.val[f] = row.snap[f]

SafeFields(e, row, p) ==
    {f \in Fields : /\ Differs(e, row, f)
                    /\ Untouched(row, f) \/ p.on_field_drift = "manifest_wins"}
TouchedFields(e, row, p) ==
    {f \in Fields : Differs(e, row, f)} \ SafeFields(e, row, p)
DriftedFields(e, row, p) ==
    IF p.on_field_drift = "flag" THEN TouchedFields(e, row, p) ELSE {}

\* Mutant: the snapshot of an updated service is taken from its row.
UpdatedFromRow(e, row, p) ==
    LET safe == SafeFields(e, row, p)
        new  == [f \in Fields |-> IF f \in safe THEN e[f] ELSE row.val[f]]
    IN  IF safe = {} THEN row ELSE [row EXCEPT !.val = new, !.snap = new]
\* toUpdate: the safe fields are written, and the snapshot is the whole entry.
Updated(e, row, p) ==
    LET safe == SafeFields(e, row, p)
    IN  IF safe = {} THEN row
        ELSE [row EXCEPT
                !.val = [f \in Fields |-> IF f \in safe THEN e[f] ELSE @[f]],
                !.snap = Snapshot(e)]

----------------------------------------------------------------------------
(* DriftFlagStore.  A flag that was accepted or resolved is terminal: the  *)
(* routes answer 409 and no query selects it, so only open flags (pending  *)
(* or dismissed) are kept here.  The flags of a deleted row are deleted.   *)

Slots == Fields \cup {"removal"}
Pending(v) == [status |-> "pending", value |-> v]
NoFlags == [s \in Slots |-> <<>>]

\* Mutant: only pending flags are looked for.
RaiseBesideDismissed(fs, v) ==
    IF fs # <<>> /\ Last(fs).status = "pending"
    THEN [fs EXCEPT ![Len(fs)] = Pending(v)] ELSE Append(fs, Pending(v))
\* Mutant: a dismissed flag gets the new value and stays dismissed.
RaiseSilently(fs, v) ==
    IF fs = <<>> THEN <<Pending(v)>> ELSE [fs EXCEPT ![1].value = v]
\* upsertFieldDrift with the manifest's value.
Raise(fs, v) ==
    IF fs = <<>> THEN <<Pending(v)>>
    ELSE IF fs[1].status = "dismissed" /\ fs[1].value = v THEN fs
         ELSE [fs EXCEPT ![1] = Pending(v)]
\* Mutant: a service that is still missing is flagged again after a dismissal.
RaiseRemovalAgain(fs) == IF fs = <<>> THEN <<Pending(Empty)>>
                         ELSE [fs EXCEPT ![1] = Pending(Empty)]
\* upsertRemovalDrift.
RaiseRemoval(fs) == IF fs = <<>> THEN <<Pending(Empty)>> ELSE fs

\* Flags of a service that an entry matches: the drifted fields are flagged;
\* a removal flag is resolved if the service was updated or has no difference.
Reviewed(e, row, p, fs) ==
    LET drifted == DriftedFields(e, row, p)
        matched == SafeFields(e, row, p) # {} \/ TouchedFields(e, row, p) = {}
    IN  [s \in Slots |->
            IF s \in drifted THEN Raise(fs[s], e[s])
            ELSE IF s = "removal" /\ matched THEN <<>> ELSE fs[s]]

----------------------------------------------------------------------------
(* applyChanges: one transaction. *)

\* Mutant: the rows of the team, whichever configuration they belong to.
ExistingInTeam(c) == {k \in Keys : RowExists(k)}
\* The rows a sync of c compares with: those that configuration created.
Existing(c) == {k \in Keys : RowExists(k) /\ svc[k].cfg = c}

Listed(m) == {k \in Keys : m[k] # NoEntry}
\* validateUrlNotPrivate also throws for an endpoint the entry does not have.
Refused == Blocked \cup {Unspecified}
ToCreate(c, m) ==
    {k \in Listed(m) \ Existing(c) : m[k]["health_endpoint"] \notin Refused}

\* A new row violates the unique key of the team if there is a row with that
\* key, and its foreign key if the configuration was deleted.
TransactionFails(c, m) ==
    ToCreate(c, m) # {} /\ (configs[c] # "live" \/ \E k \in ToCreate(c, m) : RowExists(k))

SyncedRow(c, m, p, k) ==
    IF k \in ToCreate(c, m) THEN Created(c, m[k])
    ELSE IF k \notin Existing(c) THEN svc[k]
    ELSE IF k \in Listed(m) THEN Updated(m[k], svc[k], p)
    ELSE CASE p.on_removal = "flag" -> svc[k]
           [] p.on_removal = "deactivate" -> [svc[k] EXCEPT !.status = "inactive"]
           [] p.on_removal = "delete" -> NoRow

SyncedFlags(c, m, p, k) ==
    IF k \in ToCreate(c, m) \/ k \notin Existing(c) THEN flags[k]
    ELSE IF k \in Listed(m) THEN Reviewed(m[k], svc[k], p, flags[k])
    ELSE IF p.on_removal = "flag"
         THEN [flags[k] EXCEPT !["removal"] = RaiseRemoval(@)]
         ELSE NoFlags

----------------------------------------------------------------------------
(* The sync. *)

\* Mutant: the lock is not looked at.
MayAcquireAlways(c) == TRUE
\* isSyncingConfig: a lock older than five minutes is dropped.
MayAcquire(c) == lock[c] # "held"

\* syncManifest up to its first await, from the schedule or from a route.
StartSync(c) ==
    /\ configs[c] = "live"
    /\ MayAcquire(c)
    /\ SumFunction(running) < MaxSyncs
    /\ running' = [running EXCEPT ![c] = @ + 1]
    /\ lock' = [lock EXCEPT ![c] = "held"]
    /\ UNCHANGED <<configs, svc, flags, history>>

\* The finally block: the lock is deleted, whoever holds it now.
EndSync(c) ==
    /\ running[c] > 0
    /\ running' = [running EXCEPT ![c] = @ - 1]
    /\ lock' = [lock EXCEPT ![c] = "free"]
    /\ overdue' = [overdue EXCEPT ![c] = @ /\ running[c] > 1]

\* The manifest cannot be fetched or is invalid, or the transaction fails.
SyncFails(c) ==
    /\ EndSync(c)
    /\ UNCHANGED <<configs, svc, flags, seen>>

\* applyChanges and the end of the sync; without an entry nothing was seen.
ApplySync(c, m, p) ==
    /\ EndSync(c)
    /\ ~TransactionFails(c, m)
    /\ svc' = [k \in Keys |-> SyncedRow(c, m, p, k)]
    /\ flags' = [k \in Keys |-> SyncedFlags(c, m, p, k)]
    /\ seen' = [k \in Keys |-> [f \in Watched |->
                   IF m[k][f] = Unspecified \/ k \notin Existing(c) \cup ToCreate(c, m)
                   THEN seen[k][f] ELSE seen[k][f] \cup {m[k][f]}]]
    /\ UNCHANGED configs

\* Five minutes go by: the check of many URLs may take that long.
LockGoesStale(c) ==
    /\ lock[c] = "held"
    /\ lock' = [lock EXCEPT ![c] = "stale"]
    /\ overdue' = [overdue EXCEPT ![c] = TRUE]
    /\ UNCHANGED <<configs, svc, flags, running, seen>>

\* The process ends: locks and syncs in flight are lost, the database stays.
Restart ==
    /\ \E c \in Configs : running[c] > 0
    /\ running' = [c \in Configs |-> 0]
    /\ lock' = [c \in Configs |-> "free"]
    /\ overdue' = [c \in Configs |-> FALSE]
    /\ UNCHANGED <<configs, svc, flags, seen>>

----------------------------------------------------------------------------
(* Users. *)

CreateConfig(c) ==
    /\ configs[c] = "new"
    /\ configs' = [configs EXCEPT ![c] = "live"]
    /\ UNCHANGED <<svc, flags, running, lock, history>>

\* ON DELETE SET NULL: the services stay, without a configuration.
DeleteConfig(c) ==
    /\ configs[c] = "live"
    /\ configs' = [configs EXCEPT ![c] = "deleted"]
    /\ svc' = [k \in Keys |-> IF svc[k].cfg = c THEN [svc[k] EXCEPT !.cfg = NoConfig]
                                                ELSE svc[k]]
    /\ UNCHANGED <<flags, running, lock, history>>

\* updateService, for a column or for is_active.
EditField(k, f, v) ==
    /\ RowExists(k) /\ svc[k].val[f] # v
    /\ svc' = [svc EXCEPT ![k].val[f] = v]
    /\ UNCHANGED <<configs, flags, running, lock, history>>

SetActive(k, status) ==
    /\ RowExists(k) /\ svc[k].status # status
    /\ svc' = [svc EXCEPT ![k].status = status]
    /\ UNCHANGED <<configs, flags, running, lock, history>>

DeleteService(k) ==
    /\ RowExists(k)
    /\ svc' = [svc EXCEPT ![k] = NoRow]
    /\ flags' = [flags EXCEPT ![k] = NoFlags]
    /\ UNCHANGED <<configs, running, lock, history>>

\* The open flags, by service, slot and position.
OpenFlags == {x \in Keys \X Slots \X {1, 2} : x[3] \in DOMAIN flags[x[1]][x[2]]}
\* What a request names: one flag, or several of one service.
Requests == {S \in SUBSET OpenFlags :
                S # {} /\ \A x, y \in S : x[1] = y[1]}
At(S, k, s) == {i \in {1, 2} : <<k, s, i>> \in S}

\* validateFieldValue: a URL that is blocked now cannot be accepted.
Acceptable(x) ==
    x[2] # "health_endpoint" \/ flags[x[1]][x[2]][x[3]].value \notin Blocked
\* SYNCABLE_FIELDS of the routes: the format is not one of them.
Applied(S, k) == {s \in Fields \ {"health_endpoint_format"} : At(S, k, s) # {}}
AcceptedValue(S, k, s) == flags[k][s][CHOOSE i \in At(S, k, s) : TRUE].value

\* acceptDrift and bulkAccept: flags with an unacceptable value stay.
AcceptFlags(R) ==
    LET S == {x \in R : Acceptable(x)}
    IN  /\ S # {}
        /\ svc' = [k \in Keys |->
              [svc[k] EXCEPT
                !.status = IF At(S, k, "removal") # {} THEN "inactive" ELSE @,
                !.val = [f \in Fields |-> IF f \in Applied(S, k)
                                          THEN AcceptedValue(S, k, f) ELSE @[f]],
                !.snap = [f \in Fields |-> IF f \in Applied(S, k)
                                           THEN AcceptedValue(S, k, f) ELSE @[f]]]]
        /\ flags' = [k \in Keys |-> [s \in Slots |->
              IF At(S, k, s) = {} THEN flags[k][s] ELSE RemoveAt(flags[k][s],
                  CHOOSE i \in At(S, k, s) : TRUE)]]
        /\ UNCHANGED <<configs, running, lock, history>>

\* dismissDrift and bulkDismiss.
DismissFlags(R) ==
    /\ \E x \in R : flags[x[1]][x[2]][x[3]].status = "pending"
    /\ flags' = [k \in Keys |-> [s \in Slots |-> [i \in DOMAIN flags[k][s] |->
          IF <<k, s, i>> \in R THEN [flags[k][s][i] EXCEPT !.status = "dismissed"]
                               ELSE flags[k][s][i]]]]
    /\ UNCHANGED <<configs, svc, running, lock, history>>

\* reopenDrift.
ReopenFlag(k, s, i) ==
    /\ flags[k][s][i].status = "dismissed"
    /\ flags' = [flags EXCEPT ![k][s][i].status = "pending"]
    /\ UNCHANGED <<configs, svc, running, lock, history>>

----------------------------------------------------------------------------
Init ==
    /\ configs = [c \in Configs |-> "new"]
    /\ svc = [k \in Keys |-> NoRow]
    /\ flags = [k \in Keys |-> NoFlags]
    /\ running = [c \in Configs |-> 0]
    /\ lock = [c \in Configs |-> "free"]
    /\ overdue = [c \in Configs |-> FALSE]
    /\ seen = [k \in Keys |-> [f \in Watched |-> {}]]

Sync == \E c \in Configs :
    \/ StartSync(c)
    \/ SyncFails(c)
    \/ \E m \in Manifests, p \in Policies : ApplySync(c, m, p)
    \/ LockGoesStale(c)

UserConfigs == \E c \in Configs : CreateConfig(c) \/ DeleteConfig(c)

UserServices == \E k \in Keys :
    \/ \E f \in Fields : \E v \in ValuesOf[f] : EditField(k, f, v)
    \/ \E status \in {"active", "inactive"} : SetActive(k, status)
    \/ DeleteService(k)

UserFlags ==
    \/ \E R \in Requests : AcceptFlags(R) \/ DismissFlags(R)
    \/ \E x \in OpenFlags : ReopenFlag(x[1], x[2], x[3])

Next == Sync \/ Restart \/ UserConfigs \/ UserServices \/ UserFlags

Spec == Init /\ [][Next]_vars

----------------------------------------------------------------------------
(* Properties. *)

Row == [status : {"absent", "active", "inactive"}, cfg : Configs \cup {NoConfig},
        val : [Fields -> Values], snap : [Fields -> Values]]
Flag == [status : {"pending", "dismissed"}, value : Values]

TypeOK ==
    /\ configs \in [Configs -> {"new", "live", "deleted"}]
    /\ svc \in [Keys -> Row]
    /\ flags \in [Keys -> [Slots -> Seq(Flag)]]
    /\ running \in [Configs -> Nat]
    /\ lock \in [Configs -> {"free", "held", "stale"}]
    /\ overdue \in [Configs -> BOOLEAN]
    /\ seen \in [Keys -> [Watched -> SUBSET Values]]

\* A sync of a configuration ended in this step.
Synced(c) == running'[c] = running[c] - 1

\* At most one sync of a configuration is in flight, and it holds the lock,
\* unless a sync in flight has outlived its lock: after that the first one to
\* end releases the lock of the other (finally block of syncManifest).
OneSyncPerConfig == \A c \in Configs :
    ~overdue[c] => IF running[c] = 0 THEN lock[c] # "held"
                   ELSE running[c] = 1 /\ lock[c] = "held"

\* A service never has two open flags for the same field, nor two for its
\* removal, whatever syncs and users do in which order (the table has no
\* unique index; only upsertFieldDrift and upsertRemovalDrift see to it).
OneOpenFlag == \A k \in Keys, s \in Slots : Len(flags[k][s]) <= 1

\* A value that only a user has ever written into a column, and no manifest
\* has specified for it, is not overwritten by a sync, unless the policy says
\* that the manifest wins (the snapshot comparison of diffExistingService).
EditsSurvive == [][\A k \in Keys, f \in Watched :
    (/\ \E c \in Configs : Synced(c)
     /\ svc[k].status # "absent" /\ svc'[k].status # "absent"
     /\ svc'[k].val[f] # svc[k].val[f]
     /\ \A p \in Policies : p.on_field_drift # "manifest_wins")
    => svc[k].val[f] \in seen[k][f] \cup {Empty}]_vars

\* A sync changes no service of another configuration, nor one whose
\* configuration was deleted, and raises or resolves none of their flags.
OwnServicesOnly == [][\A k \in Keys, c \in Configs :
    (Synced(c) /\ RowExists(k) /\ svc[k].cfg # c)
    => svc'[k] = svc[k] /\ flags'[k] = flags[k]]_vars

\* A dismissed flag stays dismissed while syncs find the same value: only a
\* user reopens it.
DismissedStays == [][\A k \in Keys, s \in Slots :
    (/\ \E c \in Configs : Synced(c)
     /\ flags[k][s] # <<>> /\ flags'[k][s] # <<>>
     /\ flags[k][s][1].status = "dismissed")
    => \/ flags'[k][s][1] = flags[k][s][1]
       \/ flags'[k][s][1].value # flags[k][s][1].value]_vars

----------------------------------------------------------------------------
(* The flags of each slot implement the life cycle of DriftFlags. *)

NoFlag == [status |-> "none", value |-> Empty]
FlagLife == INSTANCE DriftFlags WITH
    Slots <- Keys \X Slots,
    flag <- [x \in Keys \X Slots |->
                IF flags[x[1]][x[2]] = <<>> THEN NoFlag ELSE flags[x[1]][x[2]][1]]
FlagsImplemented == FlagLife!FlagSpec

----------------------------------------------------------------------------
(* Statements of documents that the code does not keep. *)

\* "health_endpoint may be empty or omitted (OTLP is push-only)"
\* (docs/manifest-schema.md, OTLP notes): a sync that writes a manifest to the
\* services leaves a service for each of its entries, except for those whose
\* endpoint is blocked.
ListedAreCreated == [][\A c \in Configs, m \in Manifests, p \in Policies :
    (svc' # svc /\ ApplySync(c, m, p)) =>
        \A k \in Listed(m) : m[k]["health_endpoint"] \in Blocked \/ RowExists(k)']_vars
=============================================================================

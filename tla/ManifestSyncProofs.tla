-------------------------- MODULE ManifestSyncProofs --------------------------
(***************************************************************************)
(* Proofs about ManifestSync, for any number of keys, configurations,      *)
(* fields and syncs in flight, any manifests and any policies.             *)
(*                                                                         *)
(* The first layer, TypeInv, has the types and that a slot holds at most   *)
(* one open flag; each operator on the flags of a slot and on a row keeps  *)
(* it.  On top of it stand what a sync may do to the flags and the rows,   *)
(* the refinement of DriftFlags, and SnapSeen: a snapshot holds nothing    *)
(* that no manifest has specified.  LockInv stands alone.                  *)
(***************************************************************************)
EXTENDS ManifestSync, SequenceTheorems, TLAPS

\* What the flags of one slot are: none, or a single one.
OneFlag == {<<>>} \cup {<<x>> : x \in Flag}

TypeInv ==
    /\ TypeOK
    /\ flags \in [Keys -> [Slots -> OneFlag]]

----------------------------------------------------------------------------
(* The operators on the flags of one slot. *)

\* A sequence of at most one flag is a sequence of flags.
LEMMA OneFlagIsSeq ==
    ASSUME NEW fs \in OneFlag
    PROVE  fs \in Seq(Flag) /\ Len(fs) <= 1
  <1>1. CASE fs = <<>>
    BY <1>1
  <1>2. CASE fs # <<>>
    <2>1. PICK x \in Flag : fs = <<x>>
      BY <1>2 DEF OneFlag
    <2> QED
      BY <2>1
  <1> QED
    BY <1>1, <1>2

\* The flags of a slot that has some: one flag, at position 1.
LEMMA FirstFlag ==
    ASSUME NEW fs \in OneFlag, fs # <<>>
    PROVE  fs[1] \in Flag /\ fs = <<fs[1]>> /\ DOMAIN fs = {1}
  <1>1. PICK x \in Flag : fs = <<x>>
    BY DEF OneFlag
  <1> QED
    BY <1>1

\* upsertFieldDrift leaves one flag: the new value's, or the old flag.
LEMMA RaiseOne ==
    ASSUME NEW fs \in OneFlag, NEW v \in Values
    PROVE  /\ Raise(fs, v) \in OneFlag
           /\ \/ Raise(fs, v) = <<Pending(v)>>
              \/ Raise(fs, v) = fs
           /\ (fs # <<>> /\ fs[1] = [status |-> "dismissed", value |-> v])
                => Raise(fs, v) = fs
           /\ Raise(fs, v) # <<>>
  <1>1. Pending(v) \in Flag
    BY DEF Pending, Flag
  <1>2. CASE fs = <<>>
    BY <1>1, <1>2 DEF Raise, OneFlag
  <1>3. CASE fs # <<>>
    <2>1. fs[1] \in Flag /\ fs = <<fs[1]>>
      BY <1>3, FirstFlag
    <2>2. [fs EXCEPT ![1] = Pending(v)] = <<Pending(v)>>
      BY <2>1
    <2> QED
      BY <1>1, <1>3, <2>1, <2>2 DEF Raise, OneFlag, Flag
  <1> QED
    BY <1>2, <1>3

\* upsertRemovalDrift leaves one flag, the old one if there was one.
LEMMA RaiseRemovalOne ==
    ASSUME NEW fs \in OneFlag
    PROVE  /\ RaiseRemoval(fs) \in OneFlag
           /\ \/ fs = <<>> /\ RaiseRemoval(fs) = <<Pending(Empty)>>
              \/ RaiseRemoval(fs) = fs
  <1>1. Pending(Empty) \in Flag
    BY DEF Pending, Flag, Values
  <1> QED
    BY <1>1 DEF RaiseRemoval, OneFlag

\* dismiss leaves one flag, the old one but for its status.
LEMMA DismissOne ==
    ASSUME NEW fs \in OneFlag, NEW D \in SUBSET {1, 2}, NEW new,
           new = [i \in DOMAIN fs |-> IF i \in D THEN [fs[i] EXCEPT !.status = "dismissed"]
                                     ELSE fs[i]]
    PROVE  /\ new \in OneFlag
           /\ fs = <<>> <=> new = <<>>
           /\ fs # <<>> => new[1] \in {fs[1], [fs[1] EXCEPT !.status = "dismissed"]}
  <1>1. CASE fs = <<>>
    BY <1>1 DEF OneFlag
  <1>2. CASE fs # <<>>
    <2>1. fs[1] \in Flag /\ DOMAIN fs = {1}
      BY <1>2, FirstFlag
    <2> DEFINE y == IF 1 \in D THEN [fs[1] EXCEPT !.status = "dismissed"] ELSE fs[1]
    <2>2. y \in Flag /\ y \in {fs[1], [fs[1] EXCEPT !.status = "dismissed"]}
      BY <2>1 DEF Flag
    <2>3. new = [i \in {1} |-> y]
      BY <2>1
    <2> HIDE DEF y
    <2>4. [i \in {1} |-> y] = <<y>>
      OBVIOUS
    <2>5. new = <<y>>
      BY <2>3, <2>4
    <2>6. <<y>> \in OneFlag /\ <<y>> # <<>> /\ <<y>>[1] = y
      BY <2>2 DEF OneFlag
    <2> QED
      BY <1>2, <2>2, <2>5, <2>6
  <1> QED
    BY <1>1, <1>2

\* Accepting the flag of a slot leaves none.
LEMMA RemoveOne ==
    ASSUME NEW fs \in OneFlag, fs # <<>>
    PROVE  RemoveAt(fs, 1) = <<>>
  <1>1. PICK x \in Flag : fs = <<x>>
    BY DEF OneFlag
  <1>2. SubSeq(fs, 1, 0) = <<>> /\ SubSeq(fs, 2, 1) = <<>>
    BY <1>1
  <1> QED
    BY <1>1, <1>2 DEF RemoveAt

----------------------------------------------------------------------------
(* Manifest entries and rows. *)

\* What an entry of a manifest says of a field: a value, or nothing.
LEMMA EntryValue ==
    ASSUME NEW m \in Manifests, NEW k \in Keys, NEW f \in Fields
    PROVE  m[k][f] \in Values \cup {Unspecified}
  BY DEF Manifests, Entries, NoEntry, Values

\* buildSyncedValues gives a value for each field.
LEMMA SnapshotValues ==
    ASSUME NEW m \in Manifests, NEW k \in Keys
    PROVE  Snapshot(m[k]) \in [Fields -> Values]
  BY EntryValue DEF Snapshot, Values

\* The row a sync creates has a value in each column.
LEMMA CreatedRow ==
    ASSUME NEW m \in Manifests, NEW k \in Keys, NEW c \in Configs
    PROVE  Created(c, m[k]) \in Row
  <1>1. \A f \in Fields : DefaultOf[f] \in Values
    BY ManifestConstants DEF Values
  <1>2. Empty \in Values
    BY DEF Values
  <1>3. Created(c, m[k]).val \in [Fields -> Values]
    BY <1>1, <1>2, EntryValue DEF Created
  <1> QED
    BY <1>3, SnapshotValues DEF Created, Row

\* An update leaves a row in order, of the same configuration and status.
LEMMA UpdatedRow ==
    ASSUME NEW m \in Manifests, NEW k \in Keys, NEW p \in Policies,
           NEW row \in Row
    PROVE  /\ Updated(m[k], row, p) \in Row
           /\ Updated(m[k], row, p).status = row.status
           /\ Updated(m[k], row, p).cfg = row.cfg
  <1> DEFINE safe == SafeFields(m[k], row, p)
             new == [f \in Fields |-> IF f \in safe THEN m[k][f] ELSE row.val[f]]
  <1>1. \A f \in safe : m[k][f] # Unspecified
    BY DEF SafeFields, Differs
  <1>2. new \in [Fields -> Values]
    BY <1>1, EntryValue DEF Row
  <1>3. Updated(m[k], row, p) =
            IF safe = {} THEN row
            ELSE [row EXCEPT !.val = new, !.snap = Snapshot(m[k])]
    BY DEF Updated, Row
  <1> HIDE DEF safe, new
  <1> QED
    BY <1>2, <1>3, SnapshotValues DEF Row

\* A row that does not exist is in order too.
LEMMA NoRowOK == NoRow \in Row /\ NoRow.status = "absent"
  BY DEF NoRow, Row, Values

----------------------------------------------------------------------------
(* Layer 1: the types, and one open flag for each slot. *)

\* The rows after a sync.
LEMMA SyncedRowOK ==
    ASSUME TypeInv, NEW c \in Configs, NEW m \in Manifests, NEW p \in Policies,
           NEW k \in Keys
    PROVE  SyncedRow(c, m, p, k) \in Row
  <1>1. svc[k] \in Row
    BY DEF TypeInv, TypeOK
  <1>2. Policies \subseteq Policy
    BY ManifestConstants
  <1>3. [svc[k] EXCEPT !.status = "inactive"] \in Row
    BY <1>1 DEF Row
  <1> QED
    BY <1>1, <1>2, <1>3, CreatedRow, UpdatedRow, NoRowOK DEF SyncedRow, Policy

\* The flags after a sync: each slot has at most one.
LEMMA SyncedFlagsOK ==
    ASSUME TypeInv, NEW c \in Configs, NEW m \in Manifests, NEW p \in Policies,
           NEW k \in Keys
    PROVE  SyncedFlags(c, m, p, k) \in [Slots -> OneFlag]
  <1>1. flags[k] \in [Slots -> OneFlag]
    BY DEF TypeInv
  <1>2. Reviewed(m[k], svc[k], p, flags[k]) \in [Slots -> OneFlag]
    <2>1. \A s \in DriftedFields(m[k], svc[k], p) : s \in Fields /\ m[k][s] \in Values
      BY EntryValue DEF DriftedFields, TouchedFields, Differs
    <2>2. <<>> \in OneFlag
      BY DEF OneFlag
    <2> QED
      BY <1>1, <2>1, <2>2, RaiseOne DEF Reviewed
  <1>3. [flags[k] EXCEPT !["removal"] = RaiseRemoval(@)] \in [Slots -> OneFlag]
    BY <1>1, RaiseRemovalOne DEF Slots
  <1>4. NoFlags \in [Slots -> OneFlag]
    BY DEF NoFlags, OneFlag
  <1> QED
    BY <1>1, <1>2, <1>3, <1>4 DEF SyncedFlags

\* An open flag is the only one of its slot.
LEMMA OpenFlagIsFirst ==
    ASSUME TypeInv, NEW R \in SUBSET OpenFlags, NEW k \in Keys, NEW s \in Slots,
           At(R, k, s) # {}
    PROVE  /\ flags[k][s] # <<>> /\ At(R, k, s) = {1}
           /\ flags[k][s][1] \in Flag
  <1>1. flags[k][s] \in OneFlag
    BY DEF TypeInv
  <1>2. PICK i \in {1, 2} : <<k, s, i>> \in R
    BY DEF At
  <1>3. \A j \in At(R, k, s) : j \in DOMAIN flags[k][s]
    BY DEF At, OpenFlags
  <1>4. flags[k][s] # <<>>
    BY <1>2, <1>3 DEF At
  <1> QED
    BY <1>1, <1>3, <1>4, FirstFlag

\* acceptDrift writes values into the row and takes the flag out of its slot.
LEMMA AcceptOK ==
    ASSUME TypeInv, NEW R \in Requests, AcceptFlags(R)
    PROVE  /\ svc' \in [Keys -> Row]
           /\ flags' \in [Keys -> [Slots -> OneFlag]]
           /\ \A k \in Keys, s \in Slots : flags'[k][s] \in {flags[k][s], <<>>}
           /\ \A k \in Keys, f \in Fields :
                \/ svc'[k].snap[f] = svc[k].snap[f]
                \/ /\ flags[k][f] # <<>>
                   /\ svc'[k].snap[f] = flags[k][f][1].value
  <1> DEFINE S == {x \in R : Acceptable(x)}
  <1>1. S \in SUBSET OpenFlags
    BY DEF Requests
  <1> HIDE DEF S
  <1>2. ASSUME NEW k \in Keys, NEW s \in Slots, At(S, k, s) # {}
        PROVE  /\ AcceptedValue(S, k, s) \in Values
               /\ RemoveAt(flags[k][s], CHOOSE i \in At(S, k, s) : TRUE) = <<>>
               /\ flags[k][s] # <<>>
               /\ AcceptedValue(S, k, s) = flags[k][s][1].value
    <2>1. /\ flags[k][s] # <<>> /\ At(S, k, s) = {1}
          /\ flags[k][s][1] \in Flag /\ flags[k][s] \in OneFlag
      BY <1>1, <1>2, OpenFlagIsFirst DEF TypeInv
    <2>2. (CHOOSE i \in At(S, k, s) : TRUE) = 1
      BY <2>1
    <2> QED
      BY <2>1, <2>2, RemoveOne DEF AcceptedValue, Flag
  <1>3. ASSUME NEW k \in Keys, NEW f \in Applied(S, k)
        PROVE  /\ AcceptedValue(S, k, f) \in Values
               /\ flags[k][f] # <<>>
               /\ AcceptedValue(S, k, f) = flags[k][f][1].value
    BY <1>2, <1>3 DEF Applied, Slots
  <1>4. /\ svc' \in [Keys -> Row]
        /\ \A k \in Keys, f \in Fields :
                \/ svc'[k].snap[f] = svc[k].snap[f]
                \/ /\ flags[k][f] # <<>>
                   /\ svc'[k].snap[f] = flags[k][f][1].value
    <2> SUFFICES ASSUME NEW k \in Keys
                 PROVE  /\ svc'[k] \in Row
                        /\ \A f \in Fields :
                              \/ svc'[k].snap[f] = svc[k].snap[f]
                              \/ /\ flags[k][f] # <<>>
                                 /\ svc'[k].snap[f] = flags[k][f][1].value
      BY DEF AcceptFlags, S
    <2> DEFINE st == IF At(S, k, "removal") # {} THEN "inactive" ELSE svc[k].status
               val == [f \in Fields |-> IF f \in Applied(S, k) THEN AcceptedValue(S, k, f)
                                                               ELSE svc[k].val[f]]
               snap == [f \in Fields |-> IF f \in Applied(S, k) THEN AcceptedValue(S, k, f)
                                                                ELSE svc[k].snap[f]]
    <2>1. svc[k] \in Row
      BY DEF TypeInv, TypeOK
    <2>2. val \in [Fields -> Values] /\ snap \in [Fields -> Values]
      BY <1>3, <2>1 DEF Row
    <2>3. svc'[k] = [svc[k] EXCEPT !.status = st, !.val = val, !.snap = snap]
      BY <2>1 DEF AcceptFlags, S, Row
    <2>4. st \in {"absent", "active", "inactive"}
      BY <2>1 DEF Row
    <2>5. \A f \in Fields : \/ snap[f] = svc[k].snap[f]
                            \/ flags[k][f] # <<>> /\ snap[f] = flags[k][f][1].value
      BY <1>3
    <2> HIDE DEF st, val, snap
    <2> QED
      BY <2>1, <2>2, <2>3, <2>4, <2>5 DEF Row
  <1>5. flags' = [k \in Keys |-> [s \in Slots |->
                     IF At(S, k, s) = {} THEN flags[k][s] ELSE <<>>]]
    <2>1. flags' = [k \in Keys |-> [s \in Slots |->
              IF At(S, k, s) = {} THEN flags[k][s]
              ELSE RemoveAt(flags[k][s], CHOOSE i \in At(S, k, s) : TRUE)]]
      BY DEF AcceptFlags, S
    <2> QED
      BY <1>2, <2>1
  <1>6. \A k \in Keys, s \in Slots : flags[k][s] \in OneFlag
    BY DEF TypeInv
  <1>7. <<>> \in OneFlag
    BY DEF OneFlag
  <1> QED
    BY <1>4, <1>5, <1>6, <1>7

\* dismissDrift changes the status of a flag, and nothing else.
LEMMA DismissOK ==
    ASSUME TypeInv, NEW R \in Requests, DismissFlags(R)
    PROVE  /\ flags' \in [Keys -> [Slots -> OneFlag]]
           /\ \A k \in Keys, s \in Slots :
                /\ flags[k][s] = <<>> <=> flags'[k][s] = <<>>
                /\ flags[k][s] # <<>> =>
                     flags'[k][s][1] \in {flags[k][s][1],
                                          [flags[k][s][1] EXCEPT !.status = "dismissed"]}
  <1>1. ASSUME NEW k \in Keys, NEW s \in Slots
        PROVE  /\ flags'[k][s] \in OneFlag
               /\ flags[k][s] = <<>> <=> flags'[k][s] = <<>>
               /\ flags[k][s] # <<>> =>
                     flags'[k][s][1] \in {flags[k][s][1],
                                          [flags[k][s][1] EXCEPT !.status = "dismissed"]}
    <2> DEFINE D == {i \in {1, 2} : <<k, s, i>> \in R}
    <2>1. flags[k][s] \in OneFlag
      BY DEF TypeInv
    <2>2. DOMAIN flags[k][s] \subseteq {1, 2}
      BY <2>1, FirstFlag
    <2>3. flags'[k][s] = [i \in DOMAIN flags[k][s] |->
              IF i \in D THEN [flags[k][s][i] EXCEPT !.status = "dismissed"]
                         ELSE flags[k][s][i]]
      BY <2>2 DEF DismissFlags
    <2>4. D \in SUBSET {1, 2}
      OBVIOUS
    <2> HIDE DEF D
    <2> QED
      BY <2>1, <2>3, <2>4, DismissOne
  <1> QED
    BY <1>1 DEF DismissFlags

\* reopenDrift makes a dismissed flag pending.
LEMMA ReopenOK ==
    ASSUME TypeInv, NEW x \in OpenFlags, ReopenFlag(x[1], x[2], x[3])
    PROVE  /\ flags[x[1]][x[2]] # <<>> /\ flags[x[1]][x[2]][1].status = "dismissed"
           /\ flags' = [flags EXCEPT ![x[1]][x[2]] =
                           <<[flags[x[1]][x[2]][1] EXCEPT !.status = "pending"]>>]
           /\ flags' \in [Keys -> [Slots -> OneFlag]]
  <1>1. PICK k \in Keys, s \in Slots : x[1] = k /\ x[2] = s /\ x[3] \in DOMAIN flags[k][s]
    BY DEF OpenFlags
  <1>2. flags[k][s] \in OneFlag
    BY DEF TypeInv
  <1>3. flags[k][s] # <<>>
    BY <1>1
  <1>4. x[3] = 1 /\ flags[k][s] = <<flags[k][s][1]>> /\ flags[k][s][1] \in Flag
    BY <1>1, <1>2, <1>3, FirstFlag
  <1> DEFINE y == [flags[k][s][1] EXCEPT !.status = "pending"]
  <1>5. y \in Flag
    BY <1>4 DEF Flag
  <1>6. flags' = [flags EXCEPT ![k][s] = <<y>>]
    <2>1. [flags[k][s] EXCEPT ![1].status = "pending"] = <<y>>
      BY <1>4 DEF Flag
    <2>2. flags' = [flags EXCEPT ![k][s] = [flags[k][s] EXCEPT ![1].status = "pending"]]
      BY <1>1, <1>4 DEF ReopenFlag, TypeInv
    <2> QED
      BY <1>1, <2>1, <2>2
  <1> HIDE DEF y
  <1>7. <<y>> \in OneFlag
    BY <1>5 DEF OneFlag
  <1>8. flags' \in [Keys -> [Slots -> OneFlag]]
    BY <1>6, <1>7 DEF TypeInv
  <1> QED
    BY <1>1, <1>3, <1>4, <1>6, <1>8 DEF ReopenFlag, y

\* What every step does to configurations, syncs, locks and history, whatever
\* it does to the rows and the flags.
LEMMA BookkeepingStep ==
    ASSUME TypeInv, [Next]_vars
    PROVE  /\ configs' \in [Configs -> {"new", "live", "deleted"}]
           /\ running' \in [Configs -> Nat]
           /\ lock' \in [Configs -> {"free", "held", "stale"}]
           /\ overdue' \in [Configs -> BOOLEAN]
  <1> USE DEF history
  <1>0. /\ configs \in [Configs -> {"new", "live", "deleted"}]
        /\ running \in [Configs -> Nat]
        /\ lock \in [Configs -> {"free", "held", "stale"}]
        /\ overdue \in [Configs -> BOOLEAN]
    BY DEF TypeInv, TypeOK
  <1>1. ASSUME NEW c \in Configs, EndSync(c), UNCHANGED configs
        PROVE  /\ configs' \in [Configs -> {"new", "live", "deleted"}]
               /\ running' \in [Configs -> Nat]
               /\ lock' \in [Configs -> {"free", "held", "stale"}]
               /\ overdue' \in [Configs -> BOOLEAN]
    BY <1>0, <1>1 DEF EndSync
  <1>2. CASE Sync
    <2>1. ASSUME NEW c \in Configs, StartSync(c)
          PROVE  /\ configs' = configs /\ overdue' = overdue
                 /\ running' \in [Configs -> Nat]
                 /\ lock' \in [Configs -> {"free", "held", "stale"}]
      <3>1. running[c] + 1 \in Nat
        BY <1>0
      <3> QED
        BY <1>0, <2>1, <3>1 DEF StartSync
    <2>2. ASSUME NEW c \in Configs, LockGoesStale(c)
          PROVE  /\ configs' = configs /\ running' = running
                 /\ lock' \in [Configs -> {"free", "held", "stale"}]
                 /\ overdue' \in [Configs -> BOOLEAN]
      BY <1>0, <2>2 DEF LockGoesStale
    <2> QED
      BY <1>0, <1>1, <1>2, <2>1, <2>2 DEF Sync, SyncFails, ApplySync
  <1>3. CASE Restart
    BY <1>0, <1>3 DEF Restart
  <1>4. CASE UserConfigs
    BY <1>0, <1>4 DEF UserConfigs, CreateConfig, DeleteConfig
  <1>5. CASE UserServices
    BY <1>0, <1>5 DEF UserServices, EditField, SetActive, DeleteService
  <1>6. CASE UserFlags
    BY <1>0, <1>6 DEF UserFlags, AcceptFlags, DismissFlags, ReopenFlag
  <1>7. CASE UNCHANGED vars
    BY <1>0, <1>7 DEF vars
  <1> QED
    BY <1>2, <1>3, <1>4, <1>5, <1>6, <1>7 DEF Next

\* Every step leaves rows and flags in order.
LEMMA TypeStep == TypeInv /\ [Next]_vars => TypeInv'
  <1> SUFFICES ASSUME TypeInv, [Next]_vars
               PROVE  /\ svc' \in [Keys -> Row]
                      /\ flags' \in [Keys -> [Slots -> OneFlag]]
                      /\ seen' \in [Keys -> [Watched -> SUBSET Values]]
    <2>1. ASSUME flags' \in [Keys -> [Slots -> OneFlag]]
          PROVE  flags' \in [Keys -> [Slots -> Seq(Flag)]]
      BY <2>1, OneFlagIsSeq
    <2> QED
      BY <2>1, BookkeepingStep DEF TypeInv, TypeOK
  <1> USE DEF history
  <1>1. /\ svc \in [Keys -> Row]
        /\ flags \in [Keys -> [Slots -> OneFlag]]
        /\ seen \in [Keys -> [Watched -> SUBSET Values]]
    BY DEF TypeInv, TypeOK
  <1>2. ASSUME NEW c \in Configs, NEW m \in Manifests, NEW p \in Policies,
               ApplySync(c, m, p)
        PROVE  /\ svc' \in [Keys -> Row]
               /\ flags' \in [Keys -> [Slots -> OneFlag]]
               /\ seen' \in [Keys -> [Watched -> SUBSET Values]]
    <2>1. svc' \in [Keys -> Row] /\ flags' \in [Keys -> [Slots -> OneFlag]]
      BY <1>2, SyncedRowOK, SyncedFlagsOK DEF ApplySync
    <2>2. \A k \in Keys, f \in Watched : m[k][f] \in Values \cup {Unspecified}
      BY EntryValue, ManifestConstants
    <2>3. seen' \in [Keys -> [Watched -> SUBSET Values]]
      BY <1>1, <1>2, <2>2 DEF ApplySync
    <2> QED
      BY <2>1, <2>3
  <1>3. CASE Sync
    BY <1>1, <1>2, <1>3 DEF Sync, StartSync, SyncFails, LockGoesStale
  <1>4. CASE Restart
    BY <1>1, <1>4 DEF Restart
  <1>5. CASE UserConfigs
    <2>1. ASSUME NEW c \in Configs, DeleteConfig(c)
          PROVE  svc' \in [Keys -> Row]
      <3>1. \A row \in Row : [row EXCEPT !.cfg = NoConfig] \in Row
        BY DEF Row
      <3> QED
        BY <1>1, <2>1, <3>1 DEF DeleteConfig
    <2> QED
      BY <1>1, <1>5, <2>1 DEF UserConfigs, CreateConfig, DeleteConfig
  <1>6. CASE UserServices
    <2>1. ASSUME NEW k \in Keys, NEW f \in Fields, NEW v \in ValuesOf[f], EditField(k, f, v)
          PROVE  svc' \in [Keys -> Row]
      <3>1. v \in Values
        BY DEF Values
      <3>2. [svc[k] EXCEPT !.val[f] = v] \in Row
        BY <1>1, <3>1 DEF Row
      <3>3. svc' = [svc EXCEPT ![k] = [svc[k] EXCEPT !.val[f] = v]]
        BY <1>1, <2>1 DEF EditField
      <3> QED
        BY <1>1, <3>2, <3>3
    <2>2. ASSUME NEW k \in Keys, NEW status \in {"active", "inactive"}, SetActive(k, status)
          PROVE  svc' \in [Keys -> Row]
      BY <1>1, <2>2 DEF SetActive, Row
    <2>3. ASSUME NEW k \in Keys, DeleteService(k)
          PROVE  /\ svc' \in [Keys -> Row]
                 /\ flags' \in [Keys -> [Slots -> OneFlag]]
      BY <1>1, <2>3, NoRowOK DEF DeleteService, NoFlags, OneFlag
    <2> QED
      BY <1>1, <1>6, <2>1, <2>2, <2>3 DEF UserServices, EditField, SetActive, DeleteService
  <1>7. CASE UserFlags
    <2>1. ASSUME NEW R \in Requests, AcceptFlags(R)
          PROVE  /\ svc' \in [Keys -> Row]
                 /\ flags' \in [Keys -> [Slots -> OneFlag]]
      BY <2>1, AcceptOK
    <2>2. ASSUME NEW R \in Requests, DismissFlags(R)
          PROVE  flags' \in [Keys -> [Slots -> OneFlag]]
      BY <2>2, DismissOK
    <2>3. ASSUME NEW x \in OpenFlags, ReopenFlag(x[1], x[2], x[3])
          PROVE  flags' \in [Keys -> [Slots -> OneFlag]]
      BY <2>3, ReopenOK
    <2> QED
      BY <1>1, <1>7, <2>1, <2>2, <2>3 DEF UserFlags, AcceptFlags, DismissFlags, ReopenFlag
  <1>8. CASE UNCHANGED vars
    BY <1>1, <1>8 DEF vars
  <1> QED
    BY <1>3, <1>4, <1>5, <1>6, <1>7, <1>8 DEF Next

\* At the start there is no row and no flag.
LEMMA TypeInit == Init => TypeInv
  <1> SUFFICES ASSUME Init
               PROVE  TypeInv
    OBVIOUS
  <1>1. NoRow \in Row
    BY NoRowOK
  <1>2. NoFlags \in [Slots -> OneFlag]
    BY DEF NoFlags, OneFlag
  <1>3. flags \in [Keys -> [Slots -> Seq(Flag)]]
    BY <1>2, OneFlagIsSeq DEF Init
  <1> QED
    BY <1>1, <1>2, <1>3 DEF Init, TypeInv, TypeOK

\* The types, and the flags of each slot, in every reachable state.
THEOREM TypeInvariant == Spec => []TypeInv
  BY TypeInit, TypeStep, PTL DEF Spec

\* Every value is of its type, whatever manifests and users bring.
THEOREM TypeCorrect == Spec => []TypeOK
  <1>1. TypeInv => TypeOK
    BY DEF TypeInv
  <1> QED
    BY <1>1, TypeInvariant, PTL

\* No order of syncs, deletions and reviews leaves two open flags of one slot.
THEOREM AtMostOneFlag == Spec => []OneOpenFlag
  <1>1. TypeInv => OneOpenFlag
    BY OneFlagIsSeq DEF TypeInv, OneOpenFlag
  <1> QED
    BY <1>1, TypeInvariant, PTL

----------------------------------------------------------------------------
(* The lock of a configuration. *)

\* Every step keeps the lock with the only sync in flight, unless one of the
\* syncs in flight has outlived it.
LEMMA LockStep == TypeInv /\ OneSyncPerConfig /\ [Next]_vars => OneSyncPerConfig'
  <1> SUFFICES ASSUME TypeInv, OneSyncPerConfig, [Next]_vars, NEW c \in Configs,
                      ~overdue'[c]
               PROVE  IF running'[c] = 0 THEN lock'[c] # "held"
                      ELSE running'[c] = 1 /\ lock'[c] = "held"
    BY DEF OneSyncPerConfig
  <1> USE DEF history
  <1>1. /\ running \in [Configs -> Nat] /\ overdue \in [Configs -> BOOLEAN]
        /\ lock \in [Configs -> {"free", "held", "stale"}]
    BY DEF TypeInv, TypeOK
  <1>2. ~overdue[c] => IF running[c] = 0 THEN lock[c] # "held"
                       ELSE running[c] = 1 /\ lock[c] = "held"
    BY DEF OneSyncPerConfig
  <1>3. CASE Sync
    <2>1. ASSUME NEW d \in Configs, StartSync(d)
          PROVE  IF running'[c] = 0 THEN lock'[c] # "held"
                 ELSE running'[c] = 1 /\ lock'[c] = "held"
      BY <1>1, <1>2, <2>1 DEF StartSync, MayAcquire
    <2>2. ASSUME NEW d \in Configs, EndSync(d)
          PROVE  IF running'[c] = 0 THEN lock'[c] # "held"
                 ELSE running'[c] = 1 /\ lock'[c] = "held"
      BY <1>1, <1>2, <2>2 DEF EndSync
    <2>3. ASSUME NEW d \in Configs, LockGoesStale(d)
          PROVE  IF running'[c] = 0 THEN lock'[c] # "held"
                 ELSE running'[c] = 1 /\ lock'[c] = "held"
      BY <1>1, <1>2, <2>3 DEF LockGoesStale
    <2> QED
      BY <1>3, <2>1, <2>2, <2>3 DEF Sync, SyncFails, ApplySync
  <1>4. CASE Restart
    BY <1>1, <1>4 DEF Restart
  <1>5. CASE UserConfigs \/ UserServices \/ UserFlags \/ UNCHANGED vars
    <2>1. UNCHANGED <<running, lock, overdue>>
      BY <1>5 DEF UserConfigs, CreateConfig, DeleteConfig, UserServices, EditField,
                  SetActive, DeleteService, UserFlags, AcceptFlags, DismissFlags,
                  ReopenFlag, vars
    <2> QED
      BY <1>2, <2>1
  <1> QED
    BY <1>3, <1>4, <1>5 DEF Next

\* A configuration is synced by one sync at a time as long as none outlives
\* its lock: overlapping syncs start only from a lock that went stale.
THEOREM LocksExclude == Spec => []OneSyncPerConfig
  <1>1. Init => OneSyncPerConfig
    BY DEF Init, OneSyncPerConfig
  <1> QED
    BY <1>1, LockStep, TypeInvariant, PTL DEF Spec

----------------------------------------------------------------------------
(* What a sync does to rows and flags. *)

\* If a sync of c ended in a step, the step wrote a manifest for c or left
\* rows and flags alone.
LEMMA SyncWrites ==
    ASSUME TypeInv, [Next]_vars, NEW c \in Configs, Synced(c)
    PROVE  \/ UNCHANGED <<svc, flags>>
           \/ \E m \in Manifests, p \in Policies : ApplySync(c, m, p)
  <1> USE DEF history
  <1>1. running \in [Configs -> Nat]
    BY DEF TypeInv, TypeOK
  <1>2. running' # running
    BY <1>1 DEF Synced
  <1>3. CASE Sync
    <2>1. ASSUME NEW d \in Configs, EndSync(d)
          PROVE  d = c
      BY <1>1, <2>1 DEF EndSync, Synced
    <2>2. ASSUME NEW d \in Configs, StartSync(d)
          PROVE  UNCHANGED <<svc, flags>>
      BY <2>2 DEF StartSync
    <2> QED
      BY <1>3, <2>1, <2>2 DEF Sync, SyncFails, ApplySync, LockGoesStale
  <1>4. CASE Restart
    BY <1>4 DEF Restart
  <1>5. CASE UserConfigs \/ UserServices \/ UserFlags \/ UNCHANGED vars
    <2>1. running' = running
      BY <1>5 DEF UserConfigs, CreateConfig, DeleteConfig, UserServices, EditField,
                  SetActive, DeleteService, UserFlags, AcceptFlags, DismissFlags,
                  ReopenFlag, vars
    <2> QED
      BY <1>2, <2>1
  <1> QED
    BY <1>3, <1>4, <1>5 DEF Next

\* The transaction succeeded: the rows it creates were not there.
LEMMA CreatesNew ==
    ASSUME NEW c \in Configs, NEW m \in Manifests, ~TransactionFails(c, m),
           NEW k \in ToCreate(c, m)
    PROVE  ~RowExists(k)
  BY DEF TransactionFails

\* A sync leaves the services of others and their flags alone.
THEOREM SyncsKeepToTheirOwn == Spec => OwnServicesOnly
  <1>1. ASSUME TypeInv, [Next]_vars, NEW k \in Keys, NEW c \in Configs,
               Synced(c), RowExists(k), svc[k].cfg # c
        PROVE  svc'[k] = svc[k] /\ flags'[k] = flags[k]
    <2>1. CASE UNCHANGED <<svc, flags>>
      BY <2>1
    <2>2. ASSUME NEW m \in Manifests, NEW p \in Policies, ApplySync(c, m, p)
          PROVE  svc'[k] = svc[k] /\ flags'[k] = flags[k]
      <3>1. k \notin Existing(c) /\ k \notin ToCreate(c, m)
        BY <1>1, <2>2, CreatesNew DEF ApplySync, Existing
      <3> QED
        BY <2>2, <3>1 DEF ApplySync, SyncedRow, SyncedFlags
    <2> QED
      BY <1>1, <2>1, <2>2, SyncWrites
  <1>2. TypeInv /\ [Next]_vars =>
            [\A k \in Keys, c \in Configs :
                (Synced(c) /\ RowExists(k) /\ svc[k].cfg # c)
                => svc'[k] = svc[k] /\ flags'[k] = flags[k]]_vars
    BY <1>1
  <1> QED
    BY <1>2, TypeInvariant, PTL DEF Spec, OwnServicesOnly

\* What a sync makes of the flags of a slot: it raises or renews one, settles
\* it, or leaves it.  A flag somebody dismissed is renewed only by a value that
\* was not dismissed.
LEMMA SyncedSlot ==
    ASSUME TypeInv, NEW c \in Configs, NEW m \in Manifests, NEW p \in Policies,
           NEW k \in Keys, NEW s \in Slots, NEW old, old = flags[k][s],
           NEW new, new = SyncedFlags(c, m, p, k)[s]
    PROVE  \/ new = old
           \/ new = <<>>
           \/ \E v \in Values :
                /\ new = <<Pending(v)>>
                /\ (old # <<>> /\ old[1].status = "dismissed") => old[1].value # v
                /\ s \in Fields => v = m[k][s] /\ m[k][s] # Unspecified
                                     /\ k \in Existing(c)
  <1>1. flags[k] \in [Slots -> OneFlag] /\ flags[k][s] \in OneFlag
    BY DEF TypeInv
  <1>2. CASE k \in ToCreate(c, m) \/ k \notin Existing(c)
    BY <1>2 DEF SyncedFlags
  <1>3. CASE ~(k \in ToCreate(c, m) \/ k \notin Existing(c)) /\ k \in Listed(m)
    <2>1. SyncedFlags(c, m, p, k)[s] =
            IF s \in DriftedFields(m[k], svc[k], p) THEN Raise(flags[k][s], m[k][s])
            ELSE IF s = "removal" /\ ( \/ SafeFields(m[k], svc[k], p) # {}
                                      \/ TouchedFields(m[k], svc[k], p) = {})
                 THEN <<>> ELSE flags[k][s]
      BY <1>3 DEF SyncedFlags, Reviewed
    <2>2. CASE s \in DriftedFields(m[k], svc[k], p)
      <3>1. m[k][s] \in Values /\ m[k][s] # Unspecified
        BY <2>2, EntryValue DEF DriftedFields, TouchedFields, Differs
      <3>2. SyncedFlags(c, m, p, k)[s] = Raise(flags[k][s], m[k][s])
        BY <2>1, <2>2
      <3>3. \/ Raise(flags[k][s], m[k][s]) = flags[k][s]
            \/ /\ Raise(flags[k][s], m[k][s]) = <<Pending(m[k][s])>>
               /\ (flags[k][s] # <<>> /\ flags[k][s][1].status = "dismissed")
                    => flags[k][s][1].value # m[k][s]
        BY <1>1, <3>1, RaiseOne DEF Raise
      <3> QED
        BY <1>3, <3>1, <3>2, <3>3
    <2>3. CASE s \notin DriftedFields(m[k], svc[k], p)
      BY <2>1, <2>3
    <2> QED
      BY <2>2, <2>3
  <1>4. CASE ~(k \in ToCreate(c, m) \/ k \notin Existing(c)) /\ k \notin Listed(m)
    <2>1. CASE p.on_removal = "flag"
      <3>1. SyncedFlags(c, m, p, k)[s] =
              IF s = "removal" THEN RaiseRemoval(flags[k][s]) ELSE flags[k][s]
        BY <1>1, <1>4, <2>1 DEF SyncedFlags
      <3>2. s = "removal" => s \notin Fields
        BY ManifestConstants
      <3>3. Empty \in Values
        BY DEF Values
      <3> QED
        BY <1>1, <3>1, <3>2, <3>3, RaiseRemovalOne
    <2>2. CASE p.on_removal # "flag"
      BY <1>4, <2>2 DEF SyncedFlags, NoFlags
    <2> QED
      BY <2>1, <2>2
  <1> QED
    BY <1>2, <1>3, <1>4

\* What a team dismissed does not come back by itself.
THEOREM DismissedFlagsStay == Spec => DismissedStays
  <1>1. ASSUME TypeInv, [Next]_vars, NEW k \in Keys, NEW s \in Slots,
               NEW c \in Configs, Synced(c),
               flags[k][s] # <<>>, flags'[k][s] # <<>>,
               flags[k][s][1].status = "dismissed"
        PROVE  \/ flags'[k][s][1] = flags[k][s][1]
               \/ flags'[k][s][1].value # flags[k][s][1].value
    <2>1. CASE UNCHANGED <<svc, flags>>
      BY <2>1
    <2>2. ASSUME NEW m \in Manifests, NEW p \in Policies, ApplySync(c, m, p)
          PROVE  \/ flags'[k][s][1] = flags[k][s][1]
                 \/ flags'[k][s][1].value # flags[k][s][1].value
      <3>1. flags'[k][s] = SyncedFlags(c, m, p, k)[s]
        BY <2>2 DEF ApplySync
      <3>2. \/ flags'[k][s] = flags[k][s]
            \/ \E v \in Values : flags'[k][s] = <<Pending(v)>> /\ flags[k][s][1].value # v
        BY <1>1, <3>1, SyncedSlot
      <3>3. \A v : <<Pending(v)>>[1].value = v
        BY DEF Pending
      <3> QED
        BY <3>2, <3>3
    <2> QED
      BY <1>1, <2>1, <2>2, SyncWrites
  <1>2. TypeInv /\ [Next]_vars =>
            [\A k \in Keys, s \in Slots :
                (/\ \E c \in Configs : Synced(c)
                 /\ flags[k][s] # <<>> /\ flags'[k][s] # <<>>
                 /\ flags[k][s][1].status = "dismissed")
                => \/ flags'[k][s][1] = flags[k][s][1]
                   \/ flags'[k][s][1].value # flags[k][s][1].value]_vars
    BY <1>1
  <1> QED
    BY <1>2, TypeInvariant, PTL DEF Spec, DismissedStays

----------------------------------------------------------------------------
(* What users wrote survives. *)

\* A snapshot holds nothing but what manifests specified, and so does what a
\* flag offers to accept: what a column shares with its snapshot is not a
\* user's.
SnapSeen == \A k \in Keys, f \in Watched :
    /\ svc[k].snap[f] \in seen[k][f] \cup {Empty}
    /\ flags[k][f] # <<>> => flags[k][f][1].value \in seen[k][f]

\* A sync adds what it writes into a snapshot or a flag to what was seen.
LEMMA SyncSeen ==
    ASSUME TypeInv, SnapSeen, NEW c \in Configs, NEW m \in Manifests,
           NEW p \in Policies, ApplySync(c, m, p), NEW k \in Keys, NEW f \in Watched
    PROVE  /\ svc'[k].snap[f] \in seen'[k][f] \cup {Empty}
           /\ flags'[k][f] # <<>> => flags'[k][f][1].value \in seen'[k][f]
  <1> f \in Fields /\ f \in Slots
    BY ManifestConstants DEF Slots
  <1>1. seen'[k][f] = IF m[k][f] = Unspecified \/ k \notin Existing(c) \cup ToCreate(c, m)
                      THEN seen[k][f] ELSE seen[k][f] \cup {m[k][f]}
    BY DEF ApplySync
  <1>2. /\ svc[k].snap[f] \in seen[k][f] \cup {Empty}
        /\ flags[k][f] # <<>> => flags[k][f][1].value \in seen[k][f]
    BY DEF SnapSeen
  <1>3. svc[k] \in Row /\ svc'[k] = SyncedRow(c, m, p, k)
    BY DEF TypeInv, TypeOK, ApplySync
  <1>4. Snapshot(m[k])[f] = IF m[k][f] = Unspecified THEN Empty ELSE m[k][f]
    BY DEF Snapshot
  <1>5. svc'[k].snap[f] \in seen'[k][f] \cup {Empty}
    <2>1. CASE k \in ToCreate(c, m)
      BY <1>1, <1>3, <1>4, <2>1 DEF SyncedRow, Created
    <2>2. CASE k \notin ToCreate(c, m) /\ k \notin Existing(c)
      BY <1>1, <1>2, <1>3, <2>2 DEF SyncedRow
    <2>3. CASE k \notin ToCreate(c, m) /\ k \in Existing(c) /\ k \in Listed(m)
      <3>1. svc'[k] = Updated(m[k], svc[k], p)
        BY <1>3, <2>3 DEF SyncedRow
      <3>2. \/ svc'[k] = svc[k]
            \/ svc'[k].snap = Snapshot(m[k])
        BY <1>3, <3>1 DEF Updated, Row
      <3> QED
        BY <1>1, <1>2, <1>4, <2>3, <3>2
    <2>4. CASE k \notin ToCreate(c, m) /\ k \in Existing(c) /\ k \notin Listed(m)
      <3>1. p \in Policy
        BY ManifestConstants
      <3>2. svc'[k].snap = svc[k].snap \/ svc'[k] = NoRow
        BY <1>3, <2>4, <3>1 DEF SyncedRow, Row, Policy
      <3> QED
        BY <1>1, <1>2, <3>2 DEF NoRow
    <2> QED
      BY <2>1, <2>2, <2>3, <2>4
  <1>6. flags'[k][f] # <<>> => flags'[k][f][1].value \in seen'[k][f]
    <2>1. flags'[k][f] = SyncedFlags(c, m, p, k)[f]
      BY DEF ApplySync
    <2>2. \/ flags'[k][f] = flags[k][f]
          \/ flags'[k][f] = <<>>
          \/ /\ flags'[k][f] = <<Pending(m[k][f])>>
             /\ m[k][f] # Unspecified /\ k \in Existing(c)
      BY <2>1, SyncedSlot
    <2> QED
      BY <1>1, <1>2, <2>2 DEF Pending
  <1> QED
    BY <1>5, <1>6

\* Users change no snapshot, except by accepting what a flag offers.
LEMMA SnapSeenStep == TypeInv /\ SnapSeen /\ [Next]_vars => SnapSeen'
  <1> SUFFICES ASSUME TypeInv, SnapSeen, [Next]_vars, NEW k \in Keys, NEW f \in Watched
               PROVE  /\ svc'[k].snap[f] \in seen'[k][f] \cup {Empty}
                      /\ flags'[k][f] # <<>> => flags'[k][f][1].value \in seen'[k][f]
    BY DEF SnapSeen
  <1> USE DEF history
  <1>1. /\ svc[k].snap[f] \in seen[k][f] \cup {Empty}
        /\ flags[k][f] # <<>> => flags[k][f][1].value \in seen[k][f]
    BY DEF SnapSeen
  <1>2. /\ svc \in [Keys -> Row] /\ flags \in [Keys -> [Slots -> OneFlag]]
        /\ f \in Fields /\ f \in Slots
    BY ManifestConstants DEF TypeInv, TypeOK, Slots
  <1>3. CASE Sync
    BY <1>1, <1>3, SyncSeen DEF Sync, StartSync, SyncFails, LockGoesStale
  <1>4. CASE Restart
    BY <1>1, <1>4 DEF Restart
  <1>5. CASE UserConfigs
    <2>1. svc'[k].snap = svc[k].snap
      BY <1>2, <1>5 DEF UserConfigs, CreateConfig, DeleteConfig, Row
    <2>2. UNCHANGED <<flags, seen>>
      BY <1>5 DEF UserConfigs, CreateConfig, DeleteConfig
    <2> QED
      BY <1>1, <2>1, <2>2
  <1>6. CASE UserServices
    <2>1. ASSUME NEW q \in Keys, NEW g \in Fields, NEW v \in ValuesOf[g], EditField(q, g, v)
          PROVE  svc'[k].snap = svc[k].snap /\ UNCHANGED <<flags, seen>>
      BY <1>2, <2>1 DEF EditField, Row
    <2>2. ASSUME NEW q \in Keys, NEW status \in {"active", "inactive"}, SetActive(q, status)
          PROVE  svc'[k].snap = svc[k].snap /\ UNCHANGED <<flags, seen>>
      BY <1>2, <2>2 DEF SetActive, Row
    <2>3. ASSUME NEW q \in Keys, DeleteService(q)
          PROVE  /\ \/ svc'[k].snap = svc[k].snap /\ flags'[k] = flags[k]
                    \/ svc'[k].snap[f] = Empty /\ flags'[k][f] = <<>>
                 /\ UNCHANGED seen
      BY <1>2, <2>3 DEF DeleteService, NoRow, NoFlags
    <2> QED
      BY <1>1, <1>6, <2>1, <2>2, <2>3 DEF UserServices
  <1>7. CASE UserFlags
    <2>1. ASSUME NEW R \in Requests, AcceptFlags(R)
          PROVE  /\ svc'[k].snap[f] \in seen'[k][f] \cup {Empty}
                 /\ flags'[k][f] # <<>> => flags'[k][f][1].value \in seen'[k][f]
      <3>1. UNCHANGED seen
        BY <2>1 DEF AcceptFlags
      <3> QED
        BY <1>1, <1>2, <2>1, <3>1, AcceptOK
    <2>2. ASSUME NEW R \in Requests, DismissFlags(R)
          PROVE  flags'[k][f] # <<>> => flags'[k][f][1].value \in seen[k][f]
      <3>1. flags[k][f] # <<>> => flags[k][f][1] \in Flag
        BY <1>2, FirstFlag
      <3>2. flags'[k][f] # <<>> =>
              /\ flags[k][f] # <<>>
              /\ flags'[k][f][1] \in {flags[k][f][1],
                                      [flags[k][f][1] EXCEPT !.status = "dismissed"]}
        BY <1>2, <2>2, DismissOK
      <3> QED
        BY <1>1, <3>1, <3>2 DEF Flag
    <2>3. ASSUME NEW x \in OpenFlags, ReopenFlag(x[1], x[2], x[3])
          PROVE  flags'[k][f] # <<>> => flags'[k][f][1].value \in seen[k][f]
      <3>1. flags[k][f] # <<>> => flags[k][f][1] \in Flag
        BY <1>2, FirstFlag
      <3>2. x[1] \in Keys /\ x[2] \in Slots
        BY DEF OpenFlags
      <3>3. \/ flags'[k][f] = flags[k][f]
            \/ /\ flags[k][f] # <<>>
               /\ flags'[k][f] = <<[flags[k][f][1] EXCEPT !.status = "pending"]>>
        <4>1. flags' = [flags EXCEPT ![x[1]][x[2]] =
                           <<[flags[x[1]][x[2]][1] EXCEPT !.status = "pending"]>>]
          BY <2>3, ReopenOK
        <4>2. flags[x[1]][x[2]] # <<>>
          BY <2>3, ReopenOK
        <4>3. CASE k = x[1] /\ f = x[2]
          BY <1>2, <4>1, <4>2, <4>3
        <4>4. CASE ~(k = x[1] /\ f = x[2])
          BY <1>2, <3>2, <4>1, <4>4
        <4> QED
          BY <4>3, <4>4
      <3> QED
        BY <1>1, <3>1, <3>3 DEF Flag
    <2> QED
      BY <1>1, <1>7, <2>1, <2>2, <2>3 DEF UserFlags, DismissFlags, ReopenFlag
  <1>8. CASE UNCHANGED vars
    BY <1>1, <1>8 DEF vars
  <1> QED
    BY <1>3, <1>4, <1>5, <1>6, <1>7, <1>8 DEF Next

\* Unless a policy lets the manifest win, a sync overwrites nothing that only
\* users have written.
THEOREM UserEditsSurvive == Spec => EditsSurvive
  <1> DEFINE Survives(k, f) ==
        (/\ \E c \in Configs : Synced(c)
         /\ svc[k].status # "absent" /\ svc'[k].status # "absent"
         /\ svc'[k].val[f] # svc[k].val[f]
         /\ \A p \in Policies : p.on_field_drift # "manifest_wins")
        => svc[k].val[f] \in seen[k][f] \cup {Empty}
  <1>1. ASSUME TypeInv, SnapSeen, [Next]_vars, NEW k \in Keys, NEW f \in Watched,
               NEW c \in Configs, Synced(c),
               svc[k].status # "absent", svc'[k].status # "absent",
               svc'[k].val[f] # svc[k].val[f],
               \A p \in Policies : p.on_field_drift # "manifest_wins"
        PROVE  svc[k].val[f] \in seen[k][f] \cup {Empty}
    <2>1. PICK m \in Manifests, p \in Policies : ApplySync(c, m, p)
      BY <1>1, SyncWrites
    <2>2. svc[k] \in Row /\ svc'[k] = SyncedRow(c, m, p, k) /\ f \in Fields /\ p \in Policy
      BY <1>1, <2>1, ManifestConstants DEF TypeInv, TypeOK, ApplySync
    <2>3. k \notin ToCreate(c, m)
      BY <1>1, <2>1, CreatesNew DEF ApplySync, RowExists
    <2>4. k \in Existing(c)
      BY <1>1, <2>2, <2>3 DEF SyncedRow
    <2>5. k \in Listed(m)
      BY <1>1, <2>2, <2>3, <2>4 DEF SyncedRow, Row, Policy, NoRow
    <2>6. svc'[k] = Updated(m[k], svc[k], p)
      BY <2>2, <2>3, <2>4, <2>5 DEF SyncedRow
    <2>7. f \in SafeFields(m[k], svc[k], p)
      BY <1>1, <2>2, <2>6 DEF Updated, Row
    <2>8. svc[k].val[f] = svc[k].snap[f]
      BY <1>1, <2>7 DEF SafeFields, Untouched
    <2> QED
      BY <1>1, <2>8 DEF SnapSeen
  <1>2. TypeInv /\ SnapSeen /\ [Next]_vars =>
            [\A k \in Keys, f \in Watched : Survives(k, f)]_vars
    BY <1>1
  <1>3. Init => SnapSeen
    BY ManifestConstants DEF Init, SnapSeen, NoRow, NoFlags, Slots
  <1> QED
    BY <1>2, <1>3, SnapSeenStep, TypeInvariant, PTL DEF Spec, EditsSurvive

----------------------------------------------------------------------------
(* The flags implement DriftFlags. *)

\* The flag of each slot, as DriftFlags sees it.
FlagView == [x \in Keys \X Slots |->
                IF flags[x[1]][x[2]] = <<>> THEN NoFlag ELSE flags[x[1]][x[2]][1]]

\* The view of a slot, and its type.
LEMMA ViewOfSlot ==
    ASSUME TypeInv, NEW x \in Keys \X Slots
    PROVE  /\ flags[x[1]][x[2]] \in OneFlag
           /\ flags[x[1]][x[2]] = <<>> => FlagView[x] = NoFlag
           /\ flags[x[1]][x[2]] # <<>> => FlagView[x] = flags[x[1]][x[2]][1]
                                           /\ FlagView[x] \in Flag
  BY FirstFlag DEF TypeInv, FlagView

\* The view has a flag or none in each slot.
LEMMA ViewOK ==
    ASSUME TypeInv
    PROVE  FlagView \in [Keys \X Slots -> Flag \cup {NoFlag}]
  <1>1. FlagView = [x \in Keys \X Slots |-> FlagView[x]]
    BY DEF FlagView
  <1>2. \A x \in Keys \X Slots : FlagView[x] \in Flag \cup {NoFlag}
    BY ViewOfSlot
  <1> QED
    BY <1>1, <1>2

\* A sync raises, renews and settles flags, slot by slot.
LEMMA SyncIsSyncStep ==
    ASSUME TypeInv, TypeInv', NEW c \in Configs, NEW m \in Manifests,
           NEW p \in Policies, ApplySync(c, m, p)
    PROVE  FlagLife!SyncStep
  <1>1. ASSUME NEW x \in Keys \X Slots
        PROVE  \/ FlagView'[x] = FlagView[x]
               \/ FlagLife!Raised(FlagView[x], FlagView'[x])
               \/ FlagLife!Renewed(FlagView[x], FlagView'[x])
               \/ FlagLife!Settled(FlagView[x], FlagView'[x])
    <2>1. PICK k \in Keys, s \in Slots : x[1] = k /\ x[2] = s
      OBVIOUS
    <2>2. flags'[k][s] = SyncedFlags(c, m, p, k)[s]
      BY DEF ApplySync
    <2>3. \/ flags'[k][s] = flags[k][s]
          \/ flags'[k][s] = <<>>
          \/ \E v \in Values :
                /\ flags'[k][s] = <<Pending(v)>>
                /\ (flags[k][s] # <<>> /\ flags[k][s][1].status = "dismissed")
                     => flags[k][s][1].value # v
      BY <2>2, SyncedSlot
    <2>4. /\ flags[k][s] = <<>> => FlagView[x] = NoFlag
          /\ flags[k][s] # <<>> => FlagView[x] = flags[k][s][1] /\ FlagView[x] \in Flag
      BY <2>1, ViewOfSlot
    <2>5. FlagView'[x] = IF flags'[k][s] = <<>> THEN NoFlag ELSE flags'[k][s][1]
      BY <2>1 DEF FlagView
    <2>6. CASE flags'[k][s] = flags[k][s]
      BY <2>4, <2>5, <2>6
    <2>7. CASE flags'[k][s] = <<>>
      BY <2>4, <2>5, <2>7 DEF FlagLife!Settled, FlagLife!Flag, Flag
    <2>8. ASSUME NEW v \in Values, flags'[k][s] = <<Pending(v)>>,
                 (flags[k][s] # <<>> /\ flags[k][s][1].status = "dismissed")
                     => flags[k][s][1].value # v
          PROVE  \/ FlagLife!Raised(FlagView[x], FlagView'[x])
                 \/ FlagLife!Renewed(FlagView[x], FlagView'[x])
      <3>1. FlagView'[x] = Pending(v)
        BY <2>5, <2>8
      <3>2. Pending(v) \in Flag /\ Pending(v).status = "pending" /\ Pending(v).value = v
        BY DEF Pending, Flag
      <3> HIDE DEF FlagView
      <3>3. CASE flags[k][s] = <<>>
        BY <2>4, <3>1, <3>2, <3>3 DEF FlagLife!Raised, FlagLife!Flag, Flag
      <3>4. CASE flags[k][s] # <<>>
        BY <2>4, <2>8, <3>1, <3>2, <3>4 DEF FlagLife!Renewed, FlagLife!Flag, Flag
      <3> QED
        BY <3>3, <3>4
    <2> QED
      BY <2>3, <2>6, <2>7, <2>8
  <1> QED
    BY <1>1 DEF FlagLife!SyncStep, FlagView

\* A request to accept settles flags.
LEMMA AcceptIsSettleStep ==
    ASSUME TypeInv, TypeInv', NEW R \in Requests, AcceptFlags(R)
    PROVE  FlagLife!SettleStep
  <1>1. ASSUME NEW x \in Keys \X Slots
        PROVE  \/ FlagView'[x] = FlagView[x]
               \/ FlagLife!Settled(FlagView[x], FlagView'[x])
    <2>1. flags'[x[1]][x[2]] \in {flags[x[1]][x[2]], <<>>}
      BY AcceptOK
    <2>2. FlagView'[x] = IF flags'[x[1]][x[2]] = <<>> THEN NoFlag ELSE flags'[x[1]][x[2]][1]
      BY DEF FlagView
    <2> QED
      BY <2>1, <2>2, ViewOfSlot DEF FlagLife!Settled, FlagLife!Flag, Flag
  <1> QED
    BY <1>1 DEF FlagLife!SettleStep, FlagView

\* Deleting a service settles its flags.
LEMMA DeleteIsSettleStep ==
    ASSUME TypeInv, TypeInv', NEW k \in Keys, DeleteService(k)
    PROVE  FlagLife!SettleStep
  <1>1. ASSUME NEW x \in Keys \X Slots
        PROVE  \/ FlagView'[x] = FlagView[x]
               \/ FlagLife!Settled(FlagView[x], FlagView'[x])
    <2>1. flags'[x[1]][x[2]] \in {flags[x[1]][x[2]], <<>>}
      BY DEF DeleteService, NoFlags, TypeInv
    <2>2. FlagView'[x] = IF flags'[x[1]][x[2]] = <<>> THEN NoFlag ELSE flags'[x[1]][x[2]][1]
      BY DEF FlagView
    <2> QED
      BY <2>1, <2>2, ViewOfSlot DEF FlagLife!Settled, FlagLife!Flag, Flag
  <1> QED
    BY <1>1 DEF FlagLife!SettleStep, FlagView

\* A request to dismiss dismisses flags.
LEMMA DismissIsDismissStep ==
    ASSUME TypeInv, TypeInv', NEW R \in Requests, DismissFlags(R)
    PROVE  FlagLife!DismissStep
  <1>1. ASSUME NEW x \in Keys \X Slots
        PROVE  \/ FlagView'[x] = FlagView[x]
               \/ FlagLife!Dismissed(FlagView[x], FlagView'[x])
    <2> DEFINE old == flags[x[1]][x[2]]
    <2>1. /\ old = <<>> <=> flags'[x[1]][x[2]] = <<>>
          /\ old # <<>> => flags'[x[1]][x[2]][1] \in
                              {old[1], [old[1] EXCEPT !.status = "dismissed"]}
      BY DismissOK
    <2>2. FlagView'[x] = IF flags'[x[1]][x[2]] = <<>> THEN NoFlag ELSE flags'[x[1]][x[2]][1]
      BY DEF FlagView
    <2> QED
      BY <2>1, <2>2, ViewOfSlot DEF FlagLife!Dismissed, FlagLife!Flag, Flag
  <1> QED
    BY <1>1 DEF FlagLife!DismissStep, FlagView

\* A request to reopen reopens one flag.
LEMMA ReopenIsReopenStep ==
    ASSUME TypeInv, TypeInv', NEW y \in OpenFlags, ReopenFlag(y[1], y[2], y[3])
    PROVE  FlagLife!ReopenStep
  <1> DEFINE z == <<y[1], y[2]>>
  <1>1. z \in Keys \X Slots /\ z[1] = y[1] /\ z[2] = y[2]
    BY DEF OpenFlags
  <1>2. /\ flags[z[1]][z[2]] # <<>> /\ flags[z[1]][z[2]][1].status = "dismissed"
        /\ flags' = [flags EXCEPT ![z[1]][z[2]] =
                        <<[flags[z[1]][z[2]][1] EXCEPT !.status = "pending"]>>]
    BY ReopenOK
  <1> HIDE DEF z
  <1>3. \A x \in Keys \X Slots : x[1] \in Keys /\ x[2] \in Slots
    OBVIOUS
  <1>4. flags \in [Keys -> [Slots -> OneFlag]]
    BY DEF TypeInv
  <1>5. FlagLife!Reopened(FlagView[z], FlagView'[z])
    <2>1. flags'[z[1]][z[2]] = <<[flags[z[1]][z[2]][1] EXCEPT !.status = "pending"]>>
      BY <1>1, <1>2, <1>3, <1>4
    <2>2. FlagView'[z] = [flags[z[1]][z[2]][1] EXCEPT !.status = "pending"]
      BY <1>1, <2>1 DEF FlagView
    <2>3. FlagView[z] = flags[z[1]][z[2]][1] /\ FlagView[z] \in Flag
      BY <1>1, <1>2, ViewOfSlot
    <2> QED
      BY <1>2, <2>2, <2>3 DEF FlagLife!Reopened, FlagLife!Flag, Flag
  <1>6. ASSUME NEW x \in (Keys \X Slots) \ {z}
        PROVE  FlagView'[x] = FlagView[x]
    <2>1. ~(x[1] = z[1] /\ x[2] = z[2])
      BY <1>1
    <2>2. flags'[x[1]][x[2]] = flags[x[1]][x[2]]
      BY <1>1, <1>2, <1>3, <1>4, <2>1
    <2> QED
      BY <2>2 DEF FlagView
  <1> QED
    BY <1>1, <1>5, <1>6 DEF FlagLife!ReopenStep, FlagView

\* Every step of the detailed specification is a step of DriftFlags, or leaves
\* the flags alone.
LEMMA FlagStep == TypeInv /\ TypeInv' /\ [Next]_vars => [FlagLife!FlagNext]_FlagView
  <1> SUFFICES ASSUME TypeInv, TypeInv', [Next]_vars
               PROVE  FlagLife!FlagNext \/ FlagView' = FlagView
    OBVIOUS
  <1> USE DEF history
  <1>1. FlagView' \in [Keys \X Slots -> FlagLife!Flag \cup {NoFlag}]
    <2>1. ASSUME NEW x \in Keys \X Slots
          PROVE  FlagView'[x] \in FlagLife!Flag \cup {NoFlag}
      <3>1. flags'[x[1]][x[2]] \in OneFlag
        BY DEF TypeInv
      <3> QED
        BY <3>1, FirstFlag DEF FlagView, FlagLife!Flag, Flag
    <2> QED
      BY <2>1 DEF FlagView
  <1>2. ASSUME \/ FlagLife!SyncStep \/ FlagLife!DismissStep
               \/ FlagLife!ReopenStep \/ FlagLife!SettleStep
        PROVE  FlagLife!FlagNext
    BY <1>1, <1>2 DEF FlagLife!FlagNext, FlagView
  <1>3. CASE UNCHANGED flags
    BY <1>3 DEF FlagView
  <1>4. CASE Sync
    BY <1>2, <1>3, <1>4, SyncIsSyncStep DEF Sync, StartSync, SyncFails, LockGoesStale
  <1>5. CASE Restart \/ UserConfigs \/ UNCHANGED vars
    BY <1>3, <1>5 DEF Restart, UserConfigs, CreateConfig, DeleteConfig, vars
  <1>6. CASE UserServices
    BY <1>2, <1>3, <1>6, DeleteIsSettleStep DEF UserServices, EditField, SetActive
  <1>7. CASE UserFlags
    BY <1>2, <1>7, AcceptIsSettleStep, DismissIsDismissStep, ReopenIsReopenStep
       DEF UserFlags
  <1> QED
    BY <1>4, <1>5, <1>6, <1>7 DEF Next

\* Whatever syncs and users do, the flags of each slot live the life DriftFlags
\* describes.
THEOREM FlagsImplementDriftFlags == Spec => FlagsImplemented
  <1>1. Init => FlagLife!FlagInit
    BY DEF Init, FlagLife!FlagInit, NoFlags
  <1>2. FlagLife!FlagSpec <=> FlagLife!FlagInit /\ [][FlagLife!FlagNext]_FlagView
    BY DEF FlagLife!FlagSpec, FlagView
  <1> QED
    BY <1>1, <1>2, FlagStep, TypeInvariant, PTL DEF Spec, FlagsImplemented
=============================================================================

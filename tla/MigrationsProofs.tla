---------------------------- MODULE MigrationsProofs ----------------------------
(***************************************************************************)
(* Proofs about the database and its 41 migrations, for any releases, any  *)
(* rows and any migration rolled back to.                                  *)
(*                                                                         *)
(* SchemaComplete compares the database with what a replay of the applied  *)
(* migrations makes of an empty one, which says nothing by itself.  The    *)
(* proofs describe that schema instead: Born is the migration that creates *)
(* a table, ParentsAt and NamesAt are the foreign keys and columns it has  *)
(* after n migrations.  Every statement of every script is shown to take   *)
(* its table from the description of n - 1 to that of n, or back (Made,    *)
(* Unmade), and scripts inherit it, since no two statements of a script    *)
(* shape the same table (IsScript).  A replay then meets the description   *)
(* exactly, and a database that was rolled back and migrated again meets   *)
(* it except for columns that a rollback leaves.                           *)
(*                                                                         *)
(* MigrationInv says that the applied migrations are the first n of them,  *)
(* that the database is described by n, and that the process has a run of  *)
(* migrations left that starts, or ends, there.                            *)
(***************************************************************************)
EXTENDS Migrations, FiniteSetTheorems, WellFoundedInduction, TLAPS

----------------------------------------------------------------------------
(* Induction on a set of numbers: of every set of them one is the least.   *)

LEMMA NatLeast ==
    ASSUME NEW T, T \subseteq Nat, T # {}
    PROVE  \E m \in T : \A k \in T : m <= k
  <1> DEFINE R == StrictSubsetOrdering(Nat)
             F == FiniteSubsetsOf(Nat)
             W == {0..k : k \in T}
  <1>1. W \subseteq F
    <2>1. \A k \in T : IsFiniteSet(0..k)
      BY FS_Interval
    <2> QED
      BY <2>1 DEF FiniteSubsetsOf
  <1>2. W # {}
    OBVIOUS
  <1>3. IsWellFoundedOn(R, F)
    BY FS_StrictSubsetOrderingWellFounded
  <1>4. \E x \in W : \A y \in W : ~ <<y, x>> \in R
    <2> HIDE DEF R, F, W
    <2> QED
      BY <1>1, <1>2, <1>3, WFMin
  <1>5. PICK m \in T : \A k \in T : ~ <<0..k, 0..m>> \in R
    BY <1>4
  <1>6. ASSUME NEW k \in T, k < m
        PROVE  FALSE
    <2>1. 0..k \in SUBSET Nat /\ 0..m \in SUBSET Nat /\ 0..k \subseteq 0..m
      BY <1>6
    <2>2. m \in 0..m /\ m \notin 0..k
      BY <1>6
    <2>3. <<0..k, 0..m>> \in R
      BY <2>1, <2>2 DEF StrictSubsetOrdering
    <2> QED
      BY <2>3, <1>5
  <1> QED
    BY <1>6

LEMMA UpTo ==
    ASSUME NEW n \in Nat, NEW T, 0 \in T, \A k \in 0..n : k \in T /\ k < n => k + 1 \in T
    PROVE  n \in T
  <1> SUFFICES ASSUME n \notin T
               PROVE  FALSE
    OBVIOUS
  <1> DEFINE U == {k \in 0..n : k \notin T}
  <1>1. PICK m \in U : \A k \in U : m <= k
    <2>1. U \subseteq Nat /\ n \in U
      OBVIOUS
    <2> HIDE DEF U
    <2> QED
      BY <2>1, NatLeast
  <1>2. m \in 0..n /\ m # 0
    OBVIOUS
  <1>3. m - 1 \in T
    BY <1>1, <1>2
  <1> QED
    BY <1>1, <1>2, <1>3


----------------------------------------------------------------------------
(* Run, one statement at a time. *)

\* What the database is after each of the first n statements.
Stages(g, d, statements, n) ==
    /\ g = [k \in 0..n |-> g[k]]
    /\ \A k \in 0..n : g[k] = IF k = 0 THEN d ELSE Execute(g[k - 1], statements[k])

\* Run is a recursive function: its stages are those of one, and there is one.
LEMMA StagesExist ==
    ASSUME NEW d, NEW statements, NEW n \in Nat
    PROVE  \E g : Stages(g, d, statements, n)
  <1> DEFINE T == {m \in 0..n : \E g : Stages(g, d, statements, m)}
  <1>1. 0 \in T
    <2>1. Stages([k \in 0..0 |-> d], d, statements, 0)
      BY DEF Stages
    <2> QED
      BY <2>1
  <1>2. ASSUME NEW m \in 0..n, m \in T, m < n
        PROVE  m + 1 \in T
    <2>1. PICK g : Stages(g, d, statements, m)
      BY <1>2
    <2> DEFINE e == Execute(g[m], statements[m + 1])
               h == [i \in 0..(m + 1) |-> IF i = m + 1 THEN e ELSE g[i]]
    <2>2. ASSUME NEW i \in 0..(m + 1)
          PROVE  h[i] = IF i = 0 THEN d ELSE Execute(h[i - 1], statements[i])
      <3>1. CASE i = m + 1
        <4>1. h[i] = e /\ h[i - 1] = g[m] /\ i # 0
          BY <3>1
        <4> QED
          BY <4>1, <3>1
      <3>2. CASE i # m + 1 /\ i # 0
        <4>1. h[i] = g[i] /\ h[i - 1] = g[i - 1] /\ i \in 0..m
          BY <3>2
        <4> QED
          BY <4>1, <3>2, <2>1 DEF Stages
      <3>3. CASE i # m + 1 /\ i = 0
        <4>1. h[i] = g[i] /\ i \in 0..m
          BY <3>3
        <4> QED
          BY <4>1, <3>3, <2>1 DEF Stages
      <3> QED
        BY <3>1, <3>2, <3>3
    <2>3. h = [k \in 0..(m + 1) |-> h[k]]
      OBVIOUS
    <2> HIDE DEF h
    <2>4. Stages(h, d, statements, m + 1)
      BY <2>2, <2>3 DEF Stages
    <2> QED
      BY <1>2, <2>4
  <1> HIDE DEF T
  <1>3. n \in T
    BY <1>1, <1>2, UpTo
  <1> QED
    BY <1>3 DEF T

LEMMA RunStages ==
    ASSUME NEW d, NEW statements, Len(statements) \in Nat
    PROVE  \E g : /\ Stages(g, d, statements, Len(statements))
                  /\ Run(d, statements) = g[Len(statements)]
  <1> DEFINE n == Len(statements)
             Is(g) == g = [k \in 0..n |-> IF k = 0 THEN d ELSE Execute(g[k - 1], statements[k])]
             f == CHOOSE g : Is(g)
  <1>1. PICK g : Stages(g, d, statements, n)
    BY StagesExist
  <1>2. Is(g)
    BY <1>1 DEF Stages
  <1>3. Is(f)
    BY <1>2
  <1>4. Run(d, statements) = f[n]
    BY DEF Run
  <1> HIDE DEF f
  <1>5. Stages(f, d, statements, n)
    BY <1>3 DEF Stages
  <1> QED
    BY <1>4, <1>5

IsPair(p) == p = <<p[1], p[2]>>
IsKey(f) == f = [table |-> f.table, parent |-> f.parent, action |-> f.action]
IsRow(r) == r = [table |-> r.table, kind |-> r.kind] /\ r.kind \in RowKinds
IsDatabase(d) ==
    /\ d = [tables |-> d.tables, columns |-> d.columns, refs |-> d.refs, rows |-> d.rows,
            ok |-> d.ok]
    /\ \A c \in d.columns : IsPair(c)
    /\ \A f \in d.refs : IsKey(f)
    /\ \A r \in d.rows : IsRow(r)
    /\ d.ok \in BOOLEAN

----------------------------------------------------------------------------
(* Deletions. *)

\* Cascade widens what goes four times, each time with the rows that need it.
LEMMA CascadeLevels ==
    ASSUME NEW d, NEW gone
    PROVE  \E g : /\ g[0] = gone /\ \A n \in 1..Longest : g[n] = Wider(d, g[n - 1])
                  /\ Cascade(d, gone) = g[Longest]
  <1> DEFINE Is(g) == g = [n \in 0..Longest |->
                        IF n = 0 THEN gone ELSE Wider(d, g[n - 1])]
             f == CHOOSE g : Is(g)
             g1 == Wider(d, gone)
             g2 == Wider(d, g1)
             g3 == Wider(d, g2)
             g4 == Wider(d, g3)
             h == [n \in 0..4 |-> CASE n = 0 -> gone [] n = 1 -> g1 [] n = 2 -> g2
                                    [] n = 3 -> g3 [] n = 4 -> g4]
  <1> HIDE DEF g1, g2, g3, g4
  <1>1. /\ h[0] = gone /\ h[1] = g1 /\ h[2] = g2 /\ h[3] = g3 /\ h[4] = g4
        /\ h = [n \in 0..4 |-> h[n]]
    OBVIOUS
  <1> HIDE DEF h
  <1>2. \A n \in 0..4 : h[n] = IF n = 0 THEN gone ELSE Wider(d, h[n - 1])
    <2>1. /\ h[1] = Wider(d, h[0]) /\ h[2] = Wider(d, h[1])
          /\ h[3] = Wider(d, h[2]) /\ h[4] = Wider(d, h[3])
      BY <1>1 DEF g1, g2, g3, g4
    <2>2. \A n \in 0..4 : n = 0 \/ n = 1 \/ n = 2 \/ n = 3 \/ n = 4
      OBVIOUS
    <2> QED
      BY <1>1, <2>1, <2>2
  <1>3. Is(h)
    BY <1>1, <1>2 DEF Longest
  <1>4. Is(f)
    BY <1>3
  <1>5. Cascade(d, gone) = f[Longest]
    BY DEF Cascade
  <1> HIDE DEF f
  <1>6. f[0] = gone /\ \A n \in 1..Longest : f[n] = Wider(d, f[n - 1])
    BY <1>4 DEF Longest
  <1> QED
    BY <1>5, <1>6

LEMMA CascadeGrows ==
    ASSUME NEW d, NEW gone
    PROVE  gone \subseteq Cascade(d, gone)
  <1>1. PICK g : /\ g[0] = gone /\ \A n \in 1..Longest : g[n] = Wider(d, g[n - 1])
                 /\ Cascade(d, gone) = g[Longest]
    BY CascadeLevels
  <1>2. /\ g[1] = Wider(d, g[0]) /\ g[2] = Wider(d, g[1])
        /\ g[3] = Wider(d, g[2]) /\ g[4] = Wider(d, g[3])
    BY <1>1 DEF Longest
  <1>3. g[0] \subseteq g[1] /\ g[1] \subseteq g[2] /\ g[2] \subseteq g[3] /\ g[3] \subseteq g[4]
    BY <1>2 DEF Wider
  <1> QED
    BY <1>1, <1>3 DEF Longest

\* A set of rows that no other row needs is all that goes.
LEMMA CascadeStays ==
    ASSUME NEW d, NEW set, NEW gone, gone \subseteq set,
           \A r \in d.rows : Parents(d, r, {"cascade"}) \cap set # {} => r \in set
    PROVE  Cascade(d, gone) \subseteq set
  <1>1. PICK g : /\ g[0] = gone /\ \A n \in 1..Longest : g[n] = Wider(d, g[n - 1])
                 /\ Cascade(d, gone) = g[Longest]
    BY CascadeLevels
  <1>2. /\ g[1] = Wider(d, g[0]) /\ g[2] = Wider(d, g[1])
        /\ g[3] = Wider(d, g[2]) /\ g[4] = Wider(d, g[3])
    BY <1>1 DEF Longest
  <1>3. \A s : s \subseteq set => Wider(d, s) \subseteq set
    BY DEF Wider
  <1>4. g[1] \subseteq set
    BY <1>1, <1>2, <1>3
  <1>5. g[2] \subseteq set
    BY <1>4, <1>2, <1>3
  <1>6. g[3] \subseteq set
    BY <1>5, <1>2, <1>3
  <1>7. g[4] \subseteq set
    BY <1>6, <1>2, <1>3
  <1> QED
    BY <1>1, <1>7 DEF Longest

LEMMA DeleteRowsIs ==
    ASSUME NEW d, IsDatabase(d), NEW rows
    PROVE  /\ IsDatabase(DeleteRows(d, rows))
           /\ DeleteRows(d, rows).tables = d.tables
           /\ DeleteRows(d, rows).columns = d.columns
           /\ DeleteRows(d, rows).refs = d.refs
           /\ DeleteRows(d, rows).rows \subseteq d.rows
           /\ DeleteRows(d, rows).ok /\ d.ok =>
                 /\ DeleteRows(d, rows).rows = d.rows \ Cascade(d, rows)
                 /\ DeleteRows(d, rows).rows \cap rows = {}
           /\ DeleteRows(d, rows).ok => d.ok
           /\ (d.rows = {} /\ d.ok) => DeleteRows(d, rows).ok
  BY CascadeGrows DEF DeleteRows, IsDatabase

----------------------------------------------------------------------------
(* Statements. *)

\* What a statement says, as far as it matters to the tables.
Ops == {"create", "add", "drop", "rebuild", "take", "delete", "seed"}
IsStatement(s) ==
    /\ s.op \in Ops
    /\ s.op \in {"create", "add", "rebuild"} => \A p \in s.parents : IsPair(p)
\* Deletes and seeds leave the tables as they are.
Shapes(s) == s.op \notin {"delete", "seed"}

\* What a database says of a table.
ParentsIn(d, t) == {<<f.parent, f.action>> : f \in RefsIn(d, t)}
NamesIn(d, t) == {c[2] : c \in ColumnsIn(d, t)}

\* What becomes of it.
HasAfter(h, s) == IF s.op \in {"create", "rebuild"} THEN TRUE ELSE s.op # "drop" /\ h
ParentsAfter(ps, s) ==
    CASE s.op \in {"create", "add"} -> ps \cup s.parents
      [] s.op = "drop" -> {}
      [] s.op = "rebuild" -> s.parents
      [] s.op = "take" -> {p \in ps : p[1] \notin s.from}
NamesAfter(ns, s) ==
    CASE s.op \in {"create", "add"} -> ns \cup s.names
      [] s.op = "drop" -> {}
      [] s.op = "rebuild" -> s.names
      [] s.op = "take" -> ns \ s.names
Same(e, d, t) ==
    /\ t \in e.tables <=> t \in d.tables
    /\ ParentsIn(e, t) = ParentsIn(d, t)
    /\ NamesIn(e, t) = NamesIn(d, t)
Reshaped(e, d, s) ==
    /\ s.table \in e.tables <=> HasAfter(s.table \in d.tables, s)
    /\ ParentsIn(e, s.table) = ParentsAfter(ParentsIn(d, s.table), s)
    /\ NamesIn(e, s.table) = NamesAfter(NamesIn(d, s.table), s)

LEMMA RefsAre ==
    ASSUME NEW t, NEW ps, \A p \in ps : IsPair(p)
    PROVE  /\ \A f \in Refs(t, ps) : IsKey(f) /\ f.table = t /\ <<f.parent, f.action>> \in ps
           /\ \A p \in ps : \E f \in Refs(t, ps) : f.table = t /\ p = <<f.parent, f.action>>
  <1>1. ASSUME NEW f \in Refs(t, ps)
        PROVE  IsKey(f) /\ f.table = t /\ <<f.parent, f.action>> \in ps
    <2>1. PICK p \in ps : f = [table |-> t, parent |-> p[1], action |-> p[2]]
      BY DEF Refs
    <2>2. f.table = t /\ f.parent = p[1] /\ f.action = p[2]
      BY <2>1
    <2> QED
      BY <2>1, <2>2 DEF IsKey, IsPair
  <1>2. ASSUME NEW p \in ps
        PROVE  \E f \in Refs(t, ps) : f.table = t /\ p = <<f.parent, f.action>>
    <2> DEFINE f == [table |-> t, parent |-> p[1], action |-> p[2]]
    <2>1. f \in Refs(t, ps) /\ f.table = t /\ f.parent = p[1] /\ f.action = p[2]
      BY DEF Refs
    <2> QED
      BY <2>1 DEF IsPair
  <1> QED
    BY <1>1, <1>2

LEMMA ColumnsAre ==
    ASSUME NEW t, NEW ns
    PROVE  /\ \A c \in Columns(t, ns) : IsPair(c) /\ c[1] = t /\ c[2] \in ns
           /\ \A n \in ns : <<t, n>> \in Columns(t, ns)
  BY DEF Columns, IsPair

LEMMA DropTableIs ==
    ASSUME NEW d, IsDatabase(d), NEW t
    PROVE  LET e == DropTable(d, t)
               f == DeleteRows(d, RowsIn(d, t))
           IN  /\ IsDatabase(e)
               /\ e.tables = d.tables \ {t} /\ e.columns = d.columns \ ColumnsIn(d, t)
               /\ e.refs = d.refs \ RefsIn(d, t)
               /\ e.rows = f.rows /\ e.ok = f.ok
  <1> DEFINE f == DeleteRows(d, RowsIn(d, t))
             e == DropTable(d, t)
  <1>1. IsDatabase(f) /\ f.tables = d.tables /\ f.columns = d.columns /\ f.refs = d.refs
    BY DeleteRowsIs
  <1>2. e = [f EXCEPT !.tables = @ \ {t}, !.columns = @ \ ColumnsIn(d, t),
                  !.refs = @ \ RefsIn(d, t)]
    BY DEF DropTable
  <1> HIDE DEF f, e
  <1>3. IsDatabase(e)
    BY <1>1, <1>2 DEF IsDatabase
  <1>4. /\ e.tables = d.tables \ {t} /\ e.columns = d.columns \ ColumnsIn(d, t)
        /\ e.refs = d.refs \ RefsIn(d, t)
        /\ e.rows = f.rows /\ e.ok = f.ok
    BY <1>1, <1>2 DEF IsDatabase
  <1> QED
    BY <1>3, <1>4 DEF f, e

\* Tables, columns and foreign keys that are those of another table are the same.
LEMMA SameWhen ==
    ASSUME NEW d, NEW e, NEW t,
           t \in e.tables <=> t \in d.tables,
           \A f : f.table = t => (f \in e.refs <=> f \in d.refs),
           \A c : c[1] = t => (c \in e.columns <=> c \in d.columns)
    PROVE  Same(e, d, t)
  BY DEF Same, ParentsIn, NamesIn, RefsIn, ColumnsIn

\* A statement changes what the database says of its table, and of no other.
LEMMA CreateIs ==
    ASSUME NEW d, IsDatabase(d), d.ok, NEW s, IsStatement(s), s.op \in {"create", "add"}
    PROVE  LET e == Execute(d, s)
           IN  /\ IsDatabase(e) /\ e.rows = d.rows
               /\ Reshaped(e, d, s) /\ \A t : t # s.table => Same(e, d, t)
               /\ s.op = "create" => e.ok = (s.table \notin d.tables)
               /\ s.op = "add" => e.ok = (s.names \cap NamesIn(d, s.table) = {})
  <1> DEFINE e == Execute(d, s)
  <1>1. /\ \A f \in Refs(s.table, s.parents) : IsKey(f) /\ f.table = s.table
        /\ \A c \in Columns(s.table, s.names) : IsPair(c) /\ c[1] = s.table
    <2>1. \A f \in Refs(s.table, s.parents) : IsKey(f) /\ f.table = s.table
      <3>1. \A p \in s.parents : IsPair(p)
        BY DEF IsStatement
      <3> QED
        BY <3>1, RefsAre
    <2>2. \A c \in Columns(s.table, s.names) : IsPair(c) /\ c[1] = s.table
      BY ColumnsAre
    <2> QED
      BY <2>1, <2>2
  <1>2. /\ e = [tables |-> e.tables, columns |-> e.columns, refs |-> e.refs, rows |-> e.rows,
                ok |-> e.ok]
        /\ s.op = "create" => e.tables = d.tables \cup {s.table}
        /\ s.op = "add" => e.tables = d.tables
        /\ e.columns = d.columns \cup Columns(s.table, s.names)
        /\ e.refs = d.refs \cup Refs(s.table, s.parents)
        /\ e.rows = d.rows
        /\ s.op = "create" => e.ok = (s.table \notin d.tables)
        /\ s.op = "add" => e.ok = (Columns(s.table, s.names) \cap d.columns = {})
    BY DEF Execute, IsDatabase
  <1> HIDE DEF e
  <1>3. IsDatabase(e)
    BY <1>1, <1>2 DEF IsDatabase
  <1>4. ASSUME NEW t, t # s.table
        PROVE  Same(e, d, t)
    <2>1. t \in e.tables <=> t \in d.tables
      BY <1>2, <1>4
    <2>2. \A f : f.table = t => (f \in e.refs <=> f \in d.refs)
      BY <1>1, <1>2, <1>4
    <2>3. \A c : c[1] = t => (c \in e.columns <=> c \in d.columns)
      BY <1>1, <1>2, <1>4
    <2> QED
      BY <2>1, <2>2, <2>3, SameWhen
  <1>5. ParentsIn(e, s.table) = ParentsIn(d, s.table) \cup s.parents
    <2>1. RefsIn(e, s.table) = RefsIn(d, s.table) \cup Refs(s.table, s.parents)
      BY <1>1, <1>2 DEF RefsIn
    <2>2. s.parents = {<<f.parent, f.action>> : f \in Refs(s.table, s.parents)}
      BY RefsAre DEF IsStatement
    <2> QED
      BY <2>1, <2>2 DEF ParentsIn
  <1>6. NamesIn(e, s.table) = NamesIn(d, s.table) \cup s.names
    <2>1. ColumnsIn(e, s.table) = ColumnsIn(d, s.table) \cup Columns(s.table, s.names)
      BY <1>1, <1>2 DEF ColumnsIn
    <2>2. s.names = {c[2] : c \in Columns(s.table, s.names)}
      <3>1. \A n \in s.names : <<s.table, n>> \in Columns(s.table, s.names) /\ n = <<s.table, n>>[2]
        BY ColumnsAre
      <3>2. \A c \in Columns(s.table, s.names) : c[2] \in s.names
        BY ColumnsAre
      <3> QED
        BY <3>1, <3>2
    <2> QED
      BY <2>1, <2>2 DEF NamesIn
  <1>7. Reshaped(e, d, s)
    BY <1>2, <1>5, <1>6 DEF Reshaped, HasAfter, ParentsAfter, NamesAfter
  <1>8. Columns(s.table, s.names) \cap d.columns = {} <=> s.names \cap NamesIn(d, s.table) = {}
    BY ColumnsAre DEF NamesIn, ColumnsIn, IsPair, IsDatabase
  <1> QED
    BY <1>2, <1>3, <1>4, <1>7, <1>8 DEF e

\* The same of the other statements that shape a table.
LEMMA DropIs ==
    ASSUME NEW d, IsDatabase(d), d.ok, NEW s, IsStatement(s), s.op = "drop"
    PROVE  LET e == Execute(d, s)
           IN  /\ IsDatabase(e) /\ e.rows \subseteq d.rows
               /\ e.ok => e.rows \cap RowsIn(d, s.table) = {}
               /\ d.rows = {} => e.ok
               /\ Reshaped(e, d, s) /\ \A t : t # s.table => Same(e, d, t)
  <1> DEFINE e == Execute(d, s)
             g == DeleteRows(d, RowsIn(d, s.table))
  <1>1. e = DropTable(d, s.table)
    BY DEF Execute
  <1> HIDE DEF e
  <1>2. /\ IsDatabase(e)
        /\ e.tables = d.tables \ {s.table} /\ e.columns = d.columns \ ColumnsIn(d, s.table)
        /\ e.refs = d.refs \ RefsIn(d, s.table)
        /\ e.rows = g.rows /\ e.ok = g.ok
    BY <1>1, DropTableIs
  <1>3. /\ g.rows \subseteq d.rows /\ (g.ok => g.rows \cap RowsIn(d, s.table) = {})
        /\ d.rows = {} => g.ok
    BY DeleteRowsIs
  <1> HIDE DEF g
  <1>4. ASSUME NEW t, t # s.table
        PROVE  Same(e, d, t)
    <2>1. t \in e.tables <=> t \in d.tables
      BY <1>2, <1>4
    <2>2. \A f : f.table = t => (f \in e.refs <=> f \in d.refs)
      BY <1>2, <1>4 DEF RefsIn
    <2>3. \A c : c[1] = t => (c \in e.columns <=> c \in d.columns)
      BY <1>2, <1>4 DEF ColumnsIn
    <2> QED
      BY <2>1, <2>2, <2>3, SameWhen
  <1>5. ParentsIn(e, s.table) = {} /\ NamesIn(e, s.table) = {}
    BY <1>2 DEF ParentsIn, NamesIn, RefsIn, ColumnsIn
  <1>6. Reshaped(e, d, s)
    BY <1>2, <1>5 DEF Reshaped, HasAfter, ParentsAfter, NamesAfter
  <1> QED
    BY <1>2, <1>3, <1>4, <1>6 DEF e

LEMMA MarkedIs ==
    ASSUME NEW r, IsRow(r), NEW ns
    PROVE  /\ IsRow(Marked(r, ns)) /\ Marked(r, ns).table = r.table
           /\ Marked(r, ns).kind \in DOMAIN KindColumn
                 => KindColumn[Marked(r, ns).kind] \in ns
  <1>1. CASE r.kind \in DOMAIN KindColumn /\ KindColumn[r.kind] \notin ns
    <2>1. Marked(r, ns) = [r EXCEPT !.kind = "plain"]
      BY <1>1 DEF Marked
    <2>2. Marked(r, ns) = [table |-> r.table, kind |-> "plain"]
      BY <2>1 DEF IsRow
    <2>3. "plain" \in RowKinds /\ "plain" \notin DOMAIN KindColumn
      BY DEF RowKinds, KindColumn
    <2> QED
      BY <2>2, <2>3 DEF IsRow
  <1>2. CASE ~(r.kind \in DOMAIN KindColumn /\ KindColumn[r.kind] \notin ns)
    BY <1>2 DEF Marked
  <1> QED
    BY <1>1, <1>2

LEMMA RebuildIs ==
    ASSUME NEW d, IsDatabase(d), d.ok, NEW s, IsStatement(s), s.op = "rebuild"
    PROVE  LET e == Execute(d, s)
               g == DeleteRows(d, RowsIn(d, s.table))
               kept == {r \in RowsIn(d, s.table) : r.kind \notin s.lost}
           IN  /\ IsDatabase(e)
               /\ e.rows = g.rows \cup {Marked(r, s.names) : r \in kept} /\ e.ok = g.ok
               /\ Reshaped(e, d, s) /\ \A t : t # s.table => Same(e, d, t)
  <1> DEFINE e == Execute(d, s)
             f == DropTable(d, s.table)
             g == DeleteRows(d, RowsIn(d, s.table))
             kept == {r \in RowsIn(d, s.table) : r.kind \notin s.lost}
             told == {Marked(r, s.names) : r \in kept}
  <1>1. e = [f EXCEPT !.tables = @ \cup {s.table}, !.columns = @ \cup Columns(s.table, s.names),
                      !.refs = @ \cup Refs(s.table, s.parents), !.rows = @ \cup told]
    BY DEF Execute, Rebuilt
  <1>2. \A r \in told : IsRow(r)
    BY MarkedIs DEF RowsIn, IsDatabase
  <1> HIDE DEF e, told
  <1>3. /\ IsDatabase(f)
        /\ f.tables = d.tables \ {s.table} /\ f.columns = d.columns \ ColumnsIn(d, s.table)
        /\ f.refs = d.refs \ RefsIn(d, s.table)
        /\ f.rows = g.rows /\ f.ok = g.ok
    BY DropTableIs
  <1> HIDE DEF f, g
  <1>4. /\ e = [tables |-> e.tables, columns |-> e.columns, refs |-> e.refs, rows |-> e.rows,
                ok |-> e.ok]
        /\ e.tables = f.tables \cup {s.table}
        /\ e.columns = f.columns \cup Columns(s.table, s.names)
        /\ e.refs = f.refs \cup Refs(s.table, s.parents)
        /\ e.rows = f.rows \cup told /\ e.ok = f.ok
    BY <1>1, <1>3 DEF IsDatabase
  <1>5. /\ \A k \in Refs(s.table, s.parents) : IsKey(k) /\ k.table = s.table
        /\ s.parents = {<<k.parent, k.action>> : k \in Refs(s.table, s.parents)}
    <2>1. \A p \in s.parents : IsPair(p)
      BY DEF IsStatement
    <2>2. \A k \in Refs(s.table, s.parents) :
             IsKey(k) /\ k.table = s.table /\ <<k.parent, k.action>> \in s.parents
      BY <2>1, RefsAre
    <2>3. \A p \in s.parents : \E k \in Refs(s.table, s.parents) : p = <<k.parent, k.action>>
      BY <2>1, RefsAre
    <2> QED
      BY <2>2, <2>3
  <1>6. /\ \A c \in Columns(s.table, s.names) : IsPair(c) /\ c[1] = s.table
        /\ s.names = {c[2] : c \in Columns(s.table, s.names)}
    <2>1. \A n \in s.names : <<s.table, n>> \in Columns(s.table, s.names) /\ n = <<s.table, n>>[2]
      BY ColumnsAre
    <2>2. \A c \in Columns(s.table, s.names) : c[2] \in s.names
      BY ColumnsAre
    <2>3. s.names = {c[2] : c \in Columns(s.table, s.names)}
      BY <2>1, <2>2
    <2>4. \A c \in Columns(s.table, s.names) : IsPair(c) /\ c[1] = s.table
      BY ColumnsAre
    <2> QED
      BY <2>3, <2>4
  <1>7. IsDatabase(e)
    BY <1>2, <1>3, <1>4, <1>5, <1>6 DEF IsDatabase
  <1>8. ASSUME NEW t, t # s.table
        PROVE  Same(e, d, t)
    <2>1. t \in e.tables <=> t \in d.tables
      BY <1>3, <1>4, <1>8
    <2>2. \A k : k.table = t => (k \in e.refs <=> k \in d.refs)
      BY <1>3, <1>4, <1>5, <1>8 DEF RefsIn
    <2>3. \A c : c[1] = t => (c \in e.columns <=> c \in d.columns)
      BY <1>3, <1>4, <1>6, <1>8 DEF ColumnsIn
    <2> QED
      BY <2>1, <2>2, <2>3, SameWhen
  <1>9. RefsIn(e, s.table) = Refs(s.table, s.parents)
    BY <1>3, <1>4, <1>5 DEF RefsIn
  <1>10. ColumnsIn(e, s.table) = Columns(s.table, s.names)
    BY <1>3, <1>4, <1>6 DEF ColumnsIn
  <1>11. ParentsIn(e, s.table) = s.parents /\ NamesIn(e, s.table) = s.names
    BY <1>5, <1>6, <1>9, <1>10 DEF ParentsIn, NamesIn
  <1>12. Reshaped(e, d, s)
    BY <1>4, <1>11 DEF Reshaped, HasAfter, ParentsAfter, NamesAfter
  <1> QED
    BY <1>3, <1>4, <1>7, <1>8, <1>12 DEF e, told, g

LEMMA TakeIs ==
    ASSUME NEW d, IsDatabase(d), d.ok, NEW s, IsStatement(s), s.op = "take"
    PROVE  LET e == Execute(d, s)
           IN  /\ IsDatabase(e) /\ e.rows = d.rows /\ e.ok
               /\ Reshaped(e, d, s) /\ \A t : t # s.table => Same(e, d, t)
               /\ \A c \in d.columns : c[2] \notin s.names => c \in e.columns
  <1> DEFINE e == Execute(d, s)
  <1>1. /\ e = [tables |-> e.tables, columns |-> e.columns, refs |-> e.refs, rows |-> e.rows,
                ok |-> e.ok]
        /\ e.tables = d.tables /\ e.rows = d.rows /\ e.ok
        /\ e.columns = d.columns \ Columns(s.table, s.names)
        /\ e.refs = {f \in d.refs : ~(f.table = s.table /\ f.parent \in s.from)}
    BY DEF Execute, IsDatabase
  <1> HIDE DEF e
  <1>2. \A c \in Columns(s.table, s.names) : c[1] = s.table /\ c[2] \in s.names
    BY ColumnsAre
  <1>3. IsDatabase(e)
    BY <1>1 DEF IsDatabase
  <1>4. ASSUME NEW t, t # s.table
        PROVE  Same(e, d, t)
    <2>1. t \in e.tables <=> t \in d.tables
      BY <1>1
    <2>2. \A f : f.table = t => (f \in e.refs <=> f \in d.refs)
      BY <1>1, <1>4
    <2>3. \A c : c[1] = t => (c \in e.columns <=> c \in d.columns)
      BY <1>1, <1>2, <1>4
    <2> QED
      BY <2>1, <2>2, <2>3, SameWhen
  <1>5. ParentsIn(e, s.table) = {p \in ParentsIn(d, s.table) : p[1] \notin s.from}
    <2>1. RefsIn(e, s.table) = {f \in RefsIn(d, s.table) : f.parent \notin s.from}
      BY <1>1 DEF RefsIn
    <2> QED
      BY <2>1 DEF ParentsIn
  <1>6. NamesIn(e, s.table) = NamesIn(d, s.table) \ s.names
    <2>1. \A c \in ColumnsIn(d, s.table) : c \in Columns(s.table, s.names) <=> c[2] \in s.names
      <3> SUFFICES ASSUME NEW c \in ColumnsIn(d, s.table)
                   PROVE  c \in Columns(s.table, s.names) <=> c[2] \in s.names
        OBVIOUS
      <3>1. c = <<s.table, c[2]>>
        BY DEF ColumnsIn, IsDatabase, IsPair
      <3> QED
        BY <3>1, <1>2, ColumnsAre
    <2>2. ColumnsIn(e, s.table) = {c \in ColumnsIn(d, s.table) : c[2] \notin s.names}
      BY <1>1, <2>1 DEF ColumnsIn
    <2> QED
      BY <2>2 DEF NamesIn
  <1>7. Reshaped(e, d, s)
    BY <1>1, <1>5, <1>6 DEF Reshaped, HasAfter, ParentsAfter, NamesAfter
  <1> QED
    BY <1>1, <1>2, <1>3, <1>4, <1>7 DEF e

LEMMA FillIs ==
    ASSUME NEW d, IsDatabase(d), d.ok, NEW s, s.op \in {"delete", "seed"}
    PROVE  LET e == Execute(d, s)
               gone == {r \in RowsIn(d, s.table) : r.kind \in s.kinds}
           IN  /\ IsDatabase(e)
               /\ e.tables = d.tables /\ e.columns = d.columns /\ e.refs = d.refs
               /\ \A t : Same(e, d, t)
               /\ s.op = "delete" =>
                     /\ e.rows \subseteq d.rows /\ (d.rows = {} => e.ok)
                     /\ e.ok => e.rows = d.rows \ Cascade(d, gone)
               /\ s.op = "seed" =>
                     /\ e.rows = d.rows \cup {[table |-> s.table, kind |-> "seed"]} /\ e.ok
  <1> DEFINE e == Execute(d, s)
  <1>1. CASE s.op = "delete"
    <2>1. e = DeleteRows(d, {r \in RowsIn(d, s.table) : r.kind \in s.kinds})
      BY <1>1 DEF Execute
    <2> HIDE DEF e
    <2>2. /\ IsDatabase(e)
          /\ e.tables = d.tables /\ e.columns = d.columns /\ e.refs = d.refs
          /\ e.rows \subseteq d.rows /\ (d.rows = {} => e.ok)
          /\ e.ok => e.rows = d.rows \ Cascade(d, {r \in RowsIn(d, s.table) : r.kind \in s.kinds})
      BY <2>1, DeleteRowsIs
    <2>3. \A t : Same(e, d, t)
      BY <2>2, SameWhen
    <2> QED
      BY <1>1, <2>2, <2>3 DEF e
  <1>2. CASE s.op = "seed"
    <2>1. e = [d EXCEPT !.rows = @ \cup {[table |-> s.table, kind |-> "seed"]}]
      BY <1>2 DEF Execute
    <2> HIDE DEF e
    <2>2. IsRow([table |-> s.table, kind |-> "seed"])
      BY DEF IsRow, RowKinds
    <2>3. /\ IsDatabase(e) /\ e.ok
          /\ e.tables = d.tables /\ e.columns = d.columns /\ e.refs = d.refs
          /\ e.rows = d.rows \cup {[table |-> s.table, kind |-> "seed"]}
      BY <2>1, <2>2 DEF IsDatabase
    <2>4. \A t : Same(e, d, t)
      BY <2>3, SameWhen
    <2> QED
      BY <1>2, <2>3, <2>4 DEF e
  <1> QED
    BY <1>1, <1>2

\* The columns that tell the kind of a row, and the tables that have them.
TellNames == {KindColumn[k] : k \in DOMAIN KindColumn}
Telling == {<<"services", "is_external">>, <<"dependency_associations", "is_auto_suggested">>,
            <<"dependency_canonical_overrides", "team_id">>, <<"alert_mutes", "service_id">>,
            <<"team_manifest_config", "name">>}
\* A row is in a table, which tells its kind.
KindsTold(d) ==
    /\ \A r \in d.rows :
          /\ r.table \in d.tables
          /\ r.kind \in DOMAIN KindColumn => KindColumn[r.kind] \in NamesIn(d, r.table)
    /\ \A t : \A c \in NamesIn(d, t) \cap TellNames : <<t, c>> \in Telling
Sound(s) ==
    /\ s.op \in {"create", "add", "rebuild"} =>
          \A c \in s.names \cap TellNames : <<s.table, c>> \in Telling
    /\ s.op = "take" => s.names \cap TellNames = {}

\* A statement keeps the rows told that were.
LEMMA ToldAfter ==
    ASSUME NEW d, NEW e, NEW t, KindsTold(d),
           \A u : u # t => Same(e, d, u),
           NEW rest, rest \subseteq d.rows, \A r \in rest : r.table # t,
           NEW new, e.rows = rest \cup new,
           \A r \in new :
              /\ r.table \in e.tables
              /\ r.kind \in DOMAIN KindColumn => KindColumn[r.kind] \in NamesIn(e, r.table),
           \A c \in NamesIn(e, t) \cap TellNames : <<t, c>> \in Telling
    PROVE  KindsTold(e)
  <1>1. ASSUME NEW r \in e.rows
        PROVE  /\ r.table \in e.tables
               /\ r.kind \in DOMAIN KindColumn => KindColumn[r.kind] \in NamesIn(e, r.table)
    <2>1. CASE r \in rest
      <3>1. Same(e, d, r.table)
        BY <2>1
      <3> QED
        BY <2>1, <3>1 DEF KindsTold, Same
    <2>2. CASE r \in new
      BY <2>2
    <2> QED
      BY <2>1, <2>2
  <1>2. ASSUME NEW u, NEW c \in NamesIn(e, u) \cap TellNames
        PROVE  <<u, c>> \in Telling
    BY <1>2 DEF KindsTold, Same
  <1> QED
    BY <1>1, <1>2 DEF KindsTold

\* What one statement makes of a database, of whatever kind it is.
LEMMA ExecuteIs ==
    ASSUME NEW d, IsDatabase(d), d.ok, KindsTold(d),
           NEW s, IsStatement(s), Sound(s), s.op = "seed" => s.table \in d.tables,
           Execute(d, s).ok
    PROVE  LET e == Execute(d, s)
           IN  /\ IsDatabase(e) /\ KindsTold(e)
               /\ Shapes(s) => Reshaped(e, d, s)
               /\ \A t : ~(Shapes(s) /\ t = s.table) => Same(e, d, t)
  <1> DEFINE e == Execute(d, s)
             t == s.table
             here == RowsIn(d, t)
  <1>1. CASE s.op \in {"create", "add"}
    <2>1. /\ IsDatabase(e) /\ e.rows = d.rows /\ Reshaped(e, d, s)
          /\ \A u : u # t => Same(e, d, u)
      BY <1>1, CreateIs
    <2> HIDE DEF e
    <2>2. NamesIn(e, t) = NamesIn(d, t) \cup s.names /\ (t \in d.tables => t \in e.tables)
      BY <1>1, <2>1 DEF Reshaped, NamesAfter, HasAfter
    <2>3. \A r \in here : /\ r.table \in e.tables
                          /\ r.kind \in DOMAIN KindColumn => KindColumn[r.kind] \in NamesIn(e, r.table)
      BY <2>2 DEF RowsIn, KindsTold
    <2>4. \A c \in NamesIn(e, t) \cap TellNames : <<t, c>> \in Telling
      BY <1>1, <2>2 DEF KindsTold, Sound
    <2>5. KindsTold(e)
      <3>1. e.rows = (d.rows \ here) \cup here /\ \A r \in d.rows \ here : r.table # t
        BY <2>1 DEF RowsIn
      <3> QED
        BY <2>1, <2>3, <2>4, <3>1, ToldAfter
    <2> QED
      BY <1>1, <2>1, <2>5 DEF e, Shapes
  <1>2. CASE s.op = "drop"
    <2>1. /\ IsDatabase(e) /\ e.rows \subseteq d.rows /\ e.rows \cap here = {} /\ Reshaped(e, d, s)
          /\ \A u : u # t => Same(e, d, u)
      BY <1>2, DropIs
    <2> HIDE DEF e
    <2>2. NamesIn(e, t) = {}
      BY <1>2, <2>1 DEF Reshaped, NamesAfter
    <2>3. KindsTold(e)
      <3>1. e.rows = e.rows \cup {} /\ \A r \in e.rows : r.table # t
        BY <2>1 DEF RowsIn
      <3> QED
        BY <2>1, <2>2, <3>1, ToldAfter
    <2> QED
      BY <1>2, <2>1, <2>3 DEF e, Shapes
  <1>3. CASE s.op = "rebuild"
    <2> DEFINE rest == DeleteRows(d, here).rows
               new == {Marked(r, s.names) : r \in {q \in here : q.kind \notin s.lost}}
    <2>1. /\ IsDatabase(e) /\ e.rows = rest \cup new /\ e.ok = DeleteRows(d, here).ok
          /\ Reshaped(e, d, s) /\ \A u : u # t => Same(e, d, u)
      BY <1>3, RebuildIs
    <2>2. rest \subseteq d.rows /\ rest \cap here = {}
      BY <2>1, DeleteRowsIs
    <2>3. NamesIn(e, t) = s.names /\ t \in e.tables
      BY <1>3, <2>1 DEF Reshaped, NamesAfter, HasAfter
    <2>4. \A r \in new : /\ r.table \in e.tables
                         /\ r.kind \in DOMAIN KindColumn => KindColumn[r.kind] \in NamesIn(e, r.table)
      <3> SUFFICES ASSUME NEW q \in here
                   PROVE  LET r == Marked(q, s.names)
                          IN  /\ r.table \in e.tables
                              /\ r.kind \in DOMAIN KindColumn => KindColumn[r.kind] \in NamesIn(e, r.table)
        OBVIOUS
      <3>1. IsRow(q) /\ q.table = t
        BY DEF RowsIn, IsDatabase
      <3> HIDE DEF e
      <3> QED
        BY <2>3, <3>1, MarkedIs
    <2>5. \A c \in NamesIn(e, t) \cap TellNames : <<t, c>> \in Telling
      BY <1>3, <2>3 DEF Sound
    <2>6. \A r \in rest : r.table # t
      BY <2>2 DEF RowsIn
    <2> HIDE DEF e, rest, new
    <2>7. KindsTold(e)
      BY <2>1, <2>2, <2>4, <2>5, <2>6, ToldAfter
    <2> QED
      BY <1>3, <2>1, <2>7 DEF e, Shapes
  <1>4. CASE s.op = "take"
    <2>1. /\ IsDatabase(e) /\ e.rows = d.rows /\ Reshaped(e, d, s)
          /\ \A u : u # t => Same(e, d, u)
      BY <1>4, TakeIs
    <2> HIDE DEF e
    <2>2. NamesIn(e, t) = NamesIn(d, t) \ s.names /\ (t \in d.tables => t \in e.tables)
      BY <1>4, <2>1 DEF Reshaped, NamesAfter, HasAfter
    <2>3. \A r \in here : /\ r.table \in e.tables
                          /\ r.kind \in DOMAIN KindColumn => KindColumn[r.kind] \in NamesIn(e, r.table)
      BY <1>4, <2>2 DEF RowsIn, KindsTold, Sound, TellNames
    <2>4. \A c \in NamesIn(e, t) \cap TellNames : <<t, c>> \in Telling
      BY <2>2 DEF KindsTold
    <2>5. KindsTold(e)
      <3>1. e.rows = (d.rows \ here) \cup here /\ \A r \in d.rows \ here : r.table # t
        BY <2>1 DEF RowsIn
      <3> QED
        BY <2>1, <2>3, <2>4, <3>1, ToldAfter
    <2> QED
      BY <1>4, <2>1, <2>5 DEF e, Shapes
  <1>5. CASE s.op = "delete"
    <2>1. IsDatabase(e) /\ e.rows \subseteq d.rows /\ e.tables = d.tables /\ \A u : Same(e, d, u)
      BY <1>5, FillIs
    <2> HIDE DEF e
    <2>2. KindsTold(e)
      BY <2>1 DEF KindsTold, Same
    <2> QED
      BY <1>5, <2>1, <2>2 DEF e, Shapes
  <1>6. CASE s.op = "seed"
    <2>1. /\ IsDatabase(e) /\ e.rows = d.rows \cup {[table |-> t, kind |-> "seed"]}
          /\ e.tables = d.tables /\ \A u : Same(e, d, u)
      BY <1>6, FillIs
    <2> HIDE DEF e
    <2>2. "seed" \notin DOMAIN KindColumn
      BY DEF KindColumn
    <2>3. KindsTold(e)
      BY <1>6, <2>1, <2>2 DEF KindsTold, Same
    <2> QED
      BY <1>6, <2>1, <2>3 DEF e, Shapes
  <1> QED
    BY <1>1, <1>2, <1>3, <1>4, <1>5, <1>6 DEF IsStatement, Ops

----------------------------------------------------------------------------
(* Scripts. *)

\* No two statements shape the same table, and what is seeded was created.
IsScript(s) ==
    /\ Len(s) \in Nat
    /\ \A k \in 1..Len(s) : IsStatement(s[k]) /\ Sound(s[k])
    /\ \A k \in 1..Len(s), j \in 1..Len(s) :
          Shapes(s[k]) /\ Shapes(s[j]) /\ s[k].table = s[j].table => k = j
    /\ \A k \in 1..Len(s) : s[k].op = "seed" =>
          \E j \in 1..(k - 1) : s[j].op = "create" /\ s[j].table = s[k].table

\* What the first k statements make of a database.
Done(e, d, s, k) ==
    /\ IsDatabase(e) /\ KindsTold(e)
    /\ \A t : (\A j \in 1..k : Shapes(s[j]) => s[j].table # t) => Same(e, d, t)
    /\ \A j \in 1..k : Shapes(s[j]) => Reshaped(e, d, s[j])

LEMMA SameThen ==
    /\ \A d, t : Same(d, d, t)
    /\ \A d, e, f, t : Same(e, d, t) /\ Same(f, e, t) => Same(f, d, t)
    /\ \A d, e, f, s : Reshaped(e, d, s) /\ Same(f, e, s.table) => Reshaped(f, d, s)
    /\ \A d, e, f, s : Same(e, d, s.table) /\ Reshaped(f, e, s) => Reshaped(f, d, s)
  BY DEF Same, Reshaped

LEMMA DoneNext ==
    ASSUME NEW d, NEW e, NEW s, IsScript(s), NEW k \in 1..Len(s), Done(e, d, s, k - 1),
           e.ok, Execute(e, s[k]).ok
    PROVE  Done(Execute(e, s[k]), d, s, k)
  <1> DEFINE f == Execute(e, s[k])
  <1>1. Len(s) \in Nat /\ IsStatement(s[k]) /\ Sound(s[k])
    BY DEF IsScript
  <1>2. s[k].op = "seed" => s[k].table \in e.tables
    <2>1. ASSUME s[k].op = "seed"
          PROVE  s[k].table \in e.tables
      <3>1. PICK j \in 1..(k - 1) : s[j].op = "create" /\ s[j].table = s[k].table
        BY <2>1 DEF IsScript
      <3>2. Reshaped(e, d, s[j])
        BY <3>1 DEF Done, Shapes
      <3> QED
        BY <3>1, <3>2 DEF Reshaped, HasAfter
    <2> QED
      BY <2>1
  <1>3. /\ IsDatabase(f) /\ KindsTold(f)
        /\ Shapes(s[k]) => Reshaped(f, e, s[k])
        /\ \A t : ~(Shapes(s[k]) /\ t = s[k].table) => Same(f, e, t)
    BY <1>1, <1>2, ExecuteIs DEF Done
  <1> HIDE DEF f
  <1>4. 1..k = (1..(k - 1)) \cup {k}
    BY <1>1
  <1>5. ASSUME NEW t, \A j \in 1..k : Shapes(s[j]) => s[j].table # t
        PROVE  Same(f, d, t)
    <2>1. Same(e, d, t)
      BY <1>4, <1>5 DEF Done
    <2>2. Same(f, e, t)
      BY <1>3, <1>4, <1>5
    <2> QED
      BY <2>1, <2>2, SameThen
  <1>6. ASSUME NEW j \in 1..k, Shapes(s[j])
        PROVE  Reshaped(f, d, s[j])
    <2>1. CASE j = k
      <3>1. \A i \in 1..(k - 1) : Shapes(s[i]) => s[i].table # s[k].table
        BY <1>1, <1>6, <2>1 DEF IsScript
      <3>2. Same(e, d, s[k].table)
        BY <3>1 DEF Done
      <3> QED
        BY <1>3, <1>6, <2>1, <3>2, SameThen
    <2>2. CASE j # k
      <3>1. j \in 1..(k - 1)
        BY <1>4, <2>2
      <3>2. ~(Shapes(s[k]) /\ s[j].table = s[k].table)
        BY <1>1, <1>6, <2>2 DEF IsScript
      <3>3. Same(f, e, s[j].table) /\ Reshaped(e, d, s[j])
        BY <1>3, <1>6, <3>1, <3>2 DEF Done
      <3> QED
        BY <3>3, SameThen
    <2> QED
      BY <2>1, <2>2
  <1> QED
    BY <1>3, <1>5, <1>6 DEF Done, f

\* A statement of a database that is not right any more does nothing.
LEMMA OkBefore ==
    ASSUME NEW d, NEW s
    PROVE  Execute(d, s).ok => d.ok
  BY DEF Execute

\* A script that runs through has done all its statements, each to its table.
LEMMA StagesDone ==
    ASSUME NEW d, IsDatabase(d), KindsTold(d), NEW s, IsScript(s),
           NEW g, Stages(g, d, s, Len(s)), NEW k \in 0..Len(s), g[k].ok
    PROVE  d.ok /\ Done(g[k], d, s, k)
  <1> DEFINE T == {i \in 0..Len(s) : g[i].ok => d.ok /\ Done(g[i], d, s, i)}
  <1>1. Len(s) \in Nat
    BY DEF IsScript
  <1>2. 0 \in T
    <2>1. g[0] = d
      BY <1>1 DEF Stages
    <2>2. Done(d, d, s, 0)
      BY SameThen DEF Done
    <2> QED
      BY <1>1, <2>1, <2>2
  <1>3. ASSUME NEW i \in 0..Len(s), i \in T, i < Len(s)
        PROVE  i + 1 \in T
    <2>1. g[i + 1] = Execute(g[i], s[i + 1]) /\ i + 1 \in 1..Len(s)
      BY <1>1, <1>3 DEF Stages
    <2>2. ASSUME g[i + 1].ok
          PROVE  d.ok /\ Done(g[i + 1], d, s, i + 1)
      <3>1. g[i].ok
        BY <2>1, <2>2, OkBefore
      <3>2. d.ok /\ Done(g[i], d, s, (i + 1) - 1)
        BY <1>3, <3>1
      <3> QED
        BY <2>1, <2>2, <3>1, <3>2, DoneNext
    <2> QED
      BY <1>1, <1>3, <2>2
  <1> HIDE DEF T
  <1>4. \A i \in 0..k : i \in T /\ i < k => i + 1 \in T
    BY <1>1, <1>3
  <1>5. k \in T
    BY <1>1, <1>2, <1>4, UpTo
  <1> QED
    BY <1>5 DEF T

LEMMA RunDone ==
    ASSUME NEW d, IsDatabase(d), KindsTold(d), NEW s, IsScript(s), Run(d, s).ok
    PROVE  Done(Run(d, s), d, s, Len(s))
  <1>1. Len(s) \in Nat
    BY DEF IsScript
  <1>2. PICK g : Stages(g, d, s, Len(s)) /\ Run(d, s) = g[Len(s)]
    BY <1>1, RunStages
  <1> QED
    BY <1>1, <1>2, StagesDone

LEMMA StageNext ==
    ASSUME NEW d, NEW s, Len(s) \in Nat, NEW g, Stages(g, d, s, Len(s))
    PROVE  /\ g[0] = d
           /\ \A i \in 0..Len(s) : i < Len(s) =>
                 /\ i + 1 \in 1..Len(s) /\ i + 1 \in 0..Len(s) /\ (i + 1) - 1 = i
                 /\ g[i + 1] = Execute(g[i], s[i + 1])
  <1>1. g[0] = d
    BY DEF Stages
  <1>2. ASSUME NEW i \in 0..Len(s), i < Len(s)
        PROVE  /\ i + 1 \in 1..Len(s) /\ i + 1 \in 0..Len(s) /\ (i + 1) - 1 = i /\ i + 1 # 0
    BY <1>2
  <1>3. ASSUME NEW i \in 0..Len(s), i < Len(s)
        PROVE  g[i + 1] = Execute(g[i], s[i + 1])
    BY <1>2, <1>3 DEF Stages
  <1> QED
    BY <1>1, <1>2, <1>3

----------------------------------------------------------------------------
(* Scripts on an empty database: nothing is refused. *)

Fits(d, s) == \A k \in 1..Len(s) :
    /\ s[k].op = "create" => s[k].table \notin d.tables
    /\ s[k].op = "add" => s[k].names \cap NamesIn(d, s[k].table) = {}
    /\ s[k].op = "seed" => k = Len(s)

LEMMA FitsNext ==
    ASSUME NEW d, IsDatabase(d), d.ok, d.rows = {}, NEW s, IsStatement(s),
           s.op = "create" => s.table \notin d.tables,
           s.op = "add" => s.names \cap NamesIn(d, s.table) = {}
    PROVE  Execute(d, s).ok /\ (s.op # "seed" => Execute(d, s).rows = {})
  <1>1. CASE s.op \in {"create", "add"}
    BY <1>1, CreateIs
  <1>2. CASE s.op = "drop"
    BY <1>2, DropIs
  <1>3. CASE s.op = "rebuild"
    <2> DEFINE g == DeleteRows(d, RowsIn(d, s.table))
               new == {Marked(r, s.names) : r \in {q \in RowsIn(d, s.table) : q.kind \notin s.lost}}
    <2>1. Execute(d, s).rows = g.rows \cup new /\ Execute(d, s).ok = g.ok
      BY <1>3, RebuildIs
    <2>2. g.rows = {} /\ g.ok
      BY DeleteRowsIs
    <2>3. new = {}
      BY DEF RowsIn
    <2> HIDE DEF g, new
    <2> QED
      BY <2>1, <2>2, <2>3
  <1>4. CASE s.op = "take"
    BY <1>4, TakeIs
  <1>5. CASE s.op = "delete"
    BY <1>5, FillIs
  <1>6. CASE s.op = "seed"
    BY <1>6, FillIs
  <1> QED
    BY <1>1, <1>2, <1>3, <1>4, <1>5, <1>6 DEF IsStatement, Ops

LEMMA RunFits ==
    ASSUME NEW d, IsDatabase(d), KindsTold(d), d.ok, d.rows = {},
           NEW s, IsScript(s), Fits(d, s)
    PROVE  /\ Run(d, s).ok /\ Done(Run(d, s), d, s, Len(s))
           /\ (\A k \in 1..Len(s) : s[k].op # "seed") => Run(d, s).rows = {}
  <1>1. Len(s) \in Nat
    BY DEF IsScript
  <1>2. PICK g : Stages(g, d, s, Len(s)) /\ Run(d, s) = g[Len(s)]
    BY <1>1, RunStages
  <1> DEFINE Seeded(i) == \E k \in 1..i : s[k].op = "seed"
             T == {i \in 0..Len(s) : g[i].ok /\ (g[i].rows = {} \/ Seeded(i))}
  <1>3. 0 \in T
    <2>1. g[0] = d
      BY <1>1, <1>2, StageNext
    <2> QED
      BY <1>1, <2>1
  <1>4. ASSUME NEW i \in 0..Len(s), i \in T, i < Len(s)
        PROVE  i + 1 \in T
    <2> DEFINE k == i + 1
               t == s[k].table
    <2>1. g[k] = Execute(g[i], s[k]) /\ k \in 1..Len(s) /\ k - 1 = i
      BY <1>1, <1>2, <1>4, StageNext
    <2>2. g[i].ok /\ g[i].rows = {}
      BY <1>1, <1>4 DEF Fits
    <2>3. Done(g[i], d, s, i)
      BY <1>1, <1>2, <1>4, <2>2, StagesDone
    <2>4. IsStatement(s[k])
      BY <2>1 DEF IsScript
    <2>5. Shapes(s[k]) => Same(g[i], d, t)
      <3>1. ASSUME Shapes(s[k])
            PROVE  \A j \in 1..i : Shapes(s[j]) => s[j].table # t
        <4>1. \A j \in 1..i : j \in 1..Len(s) /\ j # k
          BY <1>1, <1>4
        <4> HIDE DEF k
        <4> QED
          BY <2>1, <3>1, <4>1 DEF IsScript
      <3> QED
        BY <2>3, <3>1 DEF Done
    <2>6. s[k].op = "create" => t \notin g[i].tables
      BY <2>1, <2>5 DEF Fits, Same, Shapes
    <2>7. s[k].op = "add" => s[k].names \cap NamesIn(g[i], t) = {}
      BY <2>1, <2>5 DEF Fits, Same, Shapes
    <2>8. g[k].ok /\ (s[k].op # "seed" => g[k].rows = {})
      BY <2>1, <2>2, <2>3, <2>4, <2>6, <2>7, FitsNext DEF Done
    <2>9. k \in 0..Len(s) /\ (s[k].op = "seed" => Seeded(k))
      BY <1>1, <2>1
    <2> QED
      BY <2>8, <2>9
  <1> HIDE DEF T
  <1>5. Len(s) \in T
    BY <1>1, <1>3, <1>4, UpTo
  <1>6. g[Len(s)].ok /\ (g[Len(s)].rows = {} \/ Seeded(Len(s)))
    BY <1>5 DEF T
  <1>7. Done(g[Len(s)], d, s, Len(s))
    BY <1>1, <1>2, <1>6, StagesDone
  <1> QED
    BY <1>2, <1>6, <1>7

----------------------------------------------------------------------------
(* Scripts that keep the rows. *)

Suggested == {[table |-> "dependency_associations", kind |-> "suggested"]}
Gentle(s) ==
    /\ s.op \notin {"drop", "take"}
    /\ s.op = "rebuild" =>
          /\ s.lost = {}
          /\ \A k \in DOMAIN KindColumn : <<s.table, KindColumn[k]>> \in Telling =>
                \/ KindColumn[k] \in s.names
                \/ s.table = "dependency_associations" /\ k = "suggested"
    /\ s.op = "delete" => s.table = "dependency_associations" /\ s.kinds = {"suggested"}
\* Nothing refers to the table.
Childless(d, t) == \A f \in d.refs : f.parent # t

LEMMA ChildlessCascade ==
    ASSUME NEW d, NEW t, Childless(d, t), NEW gone, gone \subseteq RowsIn(d, t)
    PROVE  Cascade(d, gone) \subseteq gone
  <1>1. \A r \in d.rows : Parents(d, r, {"cascade"}) \cap gone = {}
    <2> SUFFICES ASSUME NEW r \in d.rows, NEW q \in Parents(d, r, {"cascade"}), q \in gone
                 PROVE  FALSE
      OBVIOUS
    <2>1. PICK f \in d.refs : q = [table |-> f.parent, kind |-> "plain"]
      BY DEF Parents, RefsOf
    <2> QED
      BY <2>1 DEF Childless, RowsIn
  <1> QED
    BY <1>1, CascadeStays

LEMMA GentleKeeps ==
    ASSUME NEW d, IsDatabase(d), KindsTold(d), d.ok, NEW s, IsStatement(s), Gentle(s),
           s.op \in {"rebuild", "delete"} => Childless(d, s.table), Execute(d, s).ok
    PROVE  d.rows \ Execute(d, s).rows \subseteq Suggested
  <1> DEFINE e == Execute(d, s)
             t == s.table
             here == RowsIn(d, t)
  <1>1. CASE s.op \in {"create", "add"}
    BY <1>1, CreateIs
  <1>2. CASE s.op = "rebuild"
    <2>1. s.lost = {}
      BY <1>2 DEF Gentle
    <2> DEFINE g == DeleteRows(d, here)
               new == {Marked(r, s.names) : r \in {q \in here : q.kind \notin s.lost}}
    <2>2. e.rows = g.rows \cup new /\ e.ok = g.ok
      BY <1>2, RebuildIs
    <2>3. g.rows = d.rows \ Cascade(d, here)
      BY <2>2, DeleteRowsIs
    <2>4. Cascade(d, here) \subseteq here
      BY <1>2, ChildlessCascade
    <2>5. ASSUME NEW r \in here
          PROVE  r \in new \/ r \in Suggested
      <3>1. r \in d.rows /\ r.table = t /\ IsRow(r)
        BY DEF RowsIn, IsDatabase
      <3>2. CASE Marked(r, s.names) = r
        BY <2>1, <3>2
      <3>3. CASE Marked(r, s.names) # r
        <4>1. r.kind \in DOMAIN KindColumn /\ KindColumn[r.kind] \notin s.names
          BY <3>3 DEF Marked
        <4>2. KindColumn[r.kind] \in NamesIn(d, t) \cap TellNames
          BY <3>1, <4>1 DEF KindsTold, TellNames
        <4>3. <<t, KindColumn[r.kind]>> \in Telling
          BY <4>2 DEF KindsTold
        <4>4. t = "dependency_associations" /\ r.kind = "suggested"
          BY <1>2, <4>1, <4>3 DEF Gentle
        <4> QED
          BY <3>1, <4>4 DEF IsRow, Suggested
      <3> QED
        BY <3>2, <3>3
    <2> HIDE DEF e, g, here, new
    <2> QED
      BY <2>2, <2>3, <2>4, <2>5 DEF e
  <1>3. CASE s.op = "delete"
    <2> DEFINE gone == {r \in here : r.kind \in s.kinds}
    <2>1. e.rows = d.rows \ Cascade(d, gone)
      BY <1>3, FillIs
    <2>2. Cascade(d, gone) \subseteq gone
      BY <1>3, ChildlessCascade
    <2>3. gone \subseteq Suggested
      BY <1>3 DEF Gentle, RowsIn, IsDatabase, IsRow, Suggested
    <2> QED
      BY <2>1, <2>2, <2>3
  <1>4. CASE s.op = "seed"
    BY <1>4, FillIs
  <1> QED
    BY <1>1, <1>2, <1>3, <1>4 DEF IsStatement, Ops, Gentle

IsGentle(d, s) == \A k \in 1..Len(s) :
    /\ Gentle(s[k])
    /\ s[k].op \in {"rebuild", "delete"} =>
          /\ Childless(d, s[k].table)
          /\ \A j \in 1..(k - 1) : s[j].op \in {"create", "add", "rebuild"} =>
                \A p \in s[j].parents : p[1] # s[k].table

LEMMA ChildlessStill ==
    ASSUME NEW d, NEW e, NEW s, IsScript(s), IsGentle(d, s), NEW k \in 1..Len(s),
           Done(e, d, s, k - 1), s[k].op \in {"rebuild", "delete"}
    PROVE  Childless(e, s[k].table)
  <1> SUFFICES ASSUME NEW f \in e.refs, f.parent = s[k].table
               PROVE  FALSE
    BY DEF Childless
  <1> DEFINE p == <<f.parent, f.action>>
  <1>1. p \in ParentsIn(e, f.table) /\ p[1] = s[k].table
    BY DEF ParentsIn, RefsIn
  <1>2. p \notin ParentsIn(d, f.table)
    BY DEF ParentsIn, RefsIn, IsGentle, Childless
  <1>3. ~Same(e, d, f.table)
    BY <1>1, <1>2 DEF Same
  <1>4. PICK j \in 1..(k - 1) : Shapes(s[j]) /\ s[j].table = f.table
    BY <1>3 DEF Done
  <1>5. ParentsIn(e, f.table) = ParentsAfter(ParentsIn(d, f.table), s[j])
    BY <1>4 DEF Done, Reshaped
  <1>6. j \in 1..Len(s)
    BY DEF IsScript
  <1>7. s[j].op \in {"create", "add", "rebuild"}
    BY <1>4, <1>6 DEF IsGentle, Gentle, Shapes, IsScript, IsStatement, Ops
  <1>8. p \in s[j].parents
    BY <1>1, <1>2, <1>5, <1>7 DEF ParentsAfter
  <1> HIDE DEF p
  <1> QED
    BY <1>1, <1>7, <1>8 DEF IsGentle

LEMMA RunGentle ==
    ASSUME NEW d, IsDatabase(d), KindsTold(d), NEW s, IsScript(s), IsGentle(d, s), Run(d, s).ok
    PROVE  d.rows \ Run(d, s).rows \subseteq Suggested
  <1>1. Len(s) \in Nat
    BY DEF IsScript
  <1>2. PICK g : Stages(g, d, s, Len(s)) /\ Run(d, s) = g[Len(s)]
    BY <1>1, RunStages
  <1> DEFINE T == {i \in 0..Len(s) : g[i].ok => d.rows \ g[i].rows \subseteq Suggested}
  <1>3. 0 \in T
    BY <1>1, <1>2, StageNext
  <1>4. ASSUME NEW i \in 0..Len(s), i \in T, i < Len(s)
        PROVE  i + 1 \in T
    <2> DEFINE k == i + 1
    <2>1. g[k] = Execute(g[i], s[k]) /\ k \in 1..Len(s) /\ k - 1 = i
      BY <1>1, <1>2, <1>4, StageNext
    <2>2. ASSUME g[k].ok
          PROVE  d.rows \ g[k].rows \subseteq Suggested
      <3>1. g[i].ok
        BY <2>1, <2>2, OkBefore
      <3>2. Done(g[i], d, s, i)
        BY <1>1, <1>2, <1>4, <3>1, StagesDone
      <3>3. s[k].op \in {"rebuild", "delete"} => Childless(g[i], s[k].table)
        BY <2>1, <3>2, ChildlessStill
      <3>4. IsStatement(s[k]) /\ Gentle(s[k])
        BY <2>1 DEF IsScript, IsGentle
      <3>5. g[i].rows \ g[k].rows \subseteq Suggested
        BY <2>1, <2>2, <3>1, <3>2, <3>3, <3>4, GentleKeeps DEF Done
      <3>6. d.rows \ g[i].rows \subseteq Suggested
        BY <1>4, <3>1
      <3> QED
        BY <3>5, <3>6
    <2>3. k \in 0..Len(s)
      BY <1>1, <2>1
    <2> QED
      BY <2>2, <2>3
  <1> HIDE DEF T
  <1>5. Len(s) \in T
    BY <1>1, <1>3, <1>4, UpTo
  <1> QED
    BY <1>2, <1>5 DEF T

----------------------------------------------------------------------------
(* Scripts of deletions: nothing but rows is lost, whatever is refused. *)

LEMMA RunDeletes ==
    ASSUME NEW d, IsDatabase(d), NEW s, Len(s) \in Nat, \A k \in 1..Len(s) : s[k].op = "delete"
    PROVE  LET e == Run(d, s)
           IN  /\ IsDatabase(e) /\ e.rows \subseteq d.rows
               /\ e.tables = d.tables /\ e.columns = d.columns /\ e.refs = d.refs
  <1> DEFINE Fewer(e) == /\ IsDatabase(e) /\ e.rows \subseteq d.rows
                         /\ e.tables = d.tables /\ e.columns = d.columns /\ e.refs = d.refs
  <1>1. PICK g : Stages(g, d, s, Len(s)) /\ Run(d, s) = g[Len(s)]
    BY RunStages
  <1> DEFINE T == {i \in 0..Len(s) : Fewer(g[i])}
  <1>2. 0 \in T
    <2>1. g[0] = d
      BY <1>1, StageNext
    <2> QED
      BY <2>1
  <1>3. ASSUME NEW i \in 0..Len(s), i \in T, i < Len(s)
        PROVE  i + 1 \in T
    <2>1. g[i + 1] = Execute(g[i], s[i + 1]) /\ i + 1 \in 1..Len(s) /\ i + 1 \in 0..Len(s)
      BY <1>1, <1>3, StageNext
    <2>2. CASE ~g[i].ok
      <3>1. g[i + 1] = g[i]
        BY <2>1, <2>2 DEF Execute
      <3> QED
        BY <1>3, <2>1, <3>1
    <2>3. CASE g[i].ok
      <3>1. s[i + 1].op = "delete" /\ IsDatabase(g[i])
        BY <1>3, <2>1
      <3>2. /\ IsDatabase(g[i + 1]) /\ g[i + 1].rows \subseteq g[i].rows
            /\ g[i + 1].tables = g[i].tables /\ g[i + 1].columns = g[i].columns
            /\ g[i + 1].refs = g[i].refs
        BY <2>1, <2>3, <3>1, FillIs
      <3> QED
        BY <1>3, <2>1, <3>2
    <2> QED
      BY <2>2, <2>3
  <1> HIDE DEF T
  <1>4. Len(s) \in T
    BY <1>2, <1>3, UpTo
  <1> QED
    BY <1>1, <1>4 DEF T

----------------------------------------------------------------------------
(* The schema after n migrations, table by table. *)

\* The migration that creates a table.
Born(t) ==
    CASE t \in {"users", "teams", "team_members", "services", "dependencies",
                "dependency_associations"} -> 1
      [] t = "dependency_latency_history" -> 3
      [] t = "dependency_error_history" -> 4
      [] t = "dependency_aliases" -> 6
      [] t = "audit_log" -> 8
      [] t = "settings" -> 9
      [] t \in {"alert_channels", "alert_rules", "alert_history"} -> 11
      [] t = "dependency_canonical_overrides" -> 18
      [] t = "status_change_events" -> 19
      [] t = "service_poll_history" -> 20
      [] t \in {"team_manifest_config", "manifest_sync_history"} -> 24
      [] t = "drift_flags" -> 25
      [] t = "alert_mutes" -> 31
      [] t = "team_api_keys" -> 34
      [] t = "api_key_usage_buckets" -> 36
      [] t = "external_node_enrichment" -> 38
      [] t = "spans" -> 40
      [] t = "app_settings" -> 41
      [] OTHER -> 42

FromOn(n, k, set) == IF n >= k THEN set ELSE {}
OfManifest == {<<"team_manifest_config", "null">>}
ParentsAt(t, n) == FromOn(n, Born(t),
    CASE t = "team_members" -> OfMember
      [] t = "services" -> OfTeam \cup FromOn(n, 33, OfManifest)
      [] t \in {"dependencies", "status_change_events", "service_poll_history"} -> OfService
      [] t = "dependency_associations" -> OfLink
      [] t \in {"dependency_latency_history", "dependency_error_history"} -> OfDependency
      [] t = "dependency_aliases" -> FromOn(n, 24, {<<"teams", "null">>})
      [] t \in {"audit_log", "settings", "external_node_enrichment", "app_settings"} -> OfUser
      [] t \in {"alert_channels", "alert_rules", "team_manifest_config", "spans"} -> TeamOwned
      [] t = "alert_history" -> OfAlert
      [] t = "dependency_canonical_overrides" -> OfUser \cup FromOn(n, 24, TeamOwned)
      [] t = "manifest_sync_history" -> OfSync \cup FromOn(n, 33, OfManifest)
      [] t = "drift_flags" -> OfFlag \cup FromOn(n, 33, OfManifest)
      [] t = "alert_mutes" -> OfMute \cup FromOn(n, 32, OfService)
      [] t = "team_api_keys" -> TeamOwned \cup OfUser
      [] OTHER -> {})
NamesAt(t, n) == FromOn(n, Born(t),
    CASE t = "services" ->
            (IF n < 7 THEN {"polling_interval"} ELSE PollInterval)
            \cup FromOn(n, 5, LastPoll) \cup FromOn(n, 12, {"schema_config"})
            \cup FromOn(n, 13, {"is_external", "description"})
            \cup FromOn(n, 22, {"poll_warnings"}) \cup FromOn(n, 24, ManifestColumns)
            \cup FromOn(n, 33, {"manifest_config_id"})
            \cup FromOn(n, 34, {"health_endpoint_format"})
      [] t = "dependencies" ->
            FromOn(n, 2, {"type"}) \cup FromOn(n, 4, Checks) \cup FromOn(n, 6, {"canonical_name"})
            \cup FromOn(n, 16, {"contact"})
            \cup FromOn(n, 17, {"contact_override", "impact_override"})
            \cup FromOn(n, 23, {"skipped"}) \cup FromOn(n, 37, Discovery)
      [] t = "dependency_associations" ->
            (IF n < 26 THEN Suggestion \cup FromOn(n, 14, {"match_reason"}) ELSE {})
            \cup FromOn(n, 24, {"manifest_managed"})
            \cup FromOn(n, 37, {"is_auto_suggested", "is_dismissed"})
      [] t = "users" -> FromOn(n, 10, {"password_hash"})
      [] t = "dependency_canonical_overrides" -> FromOn(n, 24, {"team_id", "manifest_managed"})
      [] t = "dependency_aliases" -> FromOn(n, 24, {"manifest_team_id"})
      [] t = "teams" -> FromOn(n, 27, {"key"}) \cup FromOn(n, 28, {"contact"})
      [] t = "alert_rules" -> FromOn(n, 29, Thresholds) \cup FromOn(n, 30, {"alert_delay_minutes"})
      [] t = "alert_mutes" -> FromOn(n, 32, {"service_id"})
      [] t = "team_manifest_config" -> FromOn(n, 33, {"name"})
      [] t \in {"manifest_sync_history", "drift_flags"} -> FromOn(n, 33, {"manifest_config_id"})
      [] t = "team_api_keys" -> FromOn(n, 35, {"rate_limit_rpm", "rate_limit_admin_locked"})
      [] t = "dependency_latency_history" -> FromOn(n, 39, Percentiles)
      [] OTHER -> {})

\* The migration leaves the other tables as they are.
Keeps(ts, n) == \A t : t \notin ts =>
    /\ (Born(t) <= n <=> Born(t) <= n - 1)
    /\ ParentsAt(t, n) = ParentsAt(t, n - 1) /\ NamesAt(t, n) = NamesAt(t, n - 1)
\* Taking it back may leave columns.
Leaves(ts, n) == \A t : t \notin ts =>
    /\ (Born(t) <= n <=> Born(t) <= n - 1)
    /\ ParentsAt(t, n) = ParentsAt(t, n - 1) /\ NamesAt(t, n - 1) \subseteq NamesAt(t, n)
\* What the statement makes of its table is what it is after n migrations, or
\* after one less.
Makes(n, t, s) ==
    /\ Born(t) <= n <=> HasAfter(Born(t) <= n - 1, s)
    /\ ParentsAt(t, n) = ParentsAfter(ParentsAt(t, n - 1), s)
    /\ NamesAt(t, n) = NamesAfter(NamesAt(t, n - 1), s)
    /\ s.op = "create" => ~(Born(t) <= n - 1)
    /\ s.op = "add" => s.names \cap NamesAt(t, n - 1) = {}
Unmakes(n, t, s) ==
    /\ Born(t) <= n - 1 <=> HasAfter(Born(t) <= n, s)
    /\ ParentsAt(t, n - 1) = ParentsAfter(ParentsAt(t, n), s)
    /\ NamesAt(t, n - 1) \subseteq NamesAfter(NamesAt(t, n), s)

\* No table refers to t before migration n.
Unreferred(n, t) == \A c : \A p \in ParentsAt(c, n - 1) : p[1] # t
\* A statement of a migration on table t, and one that takes it back.
Upward(n, t, s) ==
    /\ IsStatement(s) /\ Sound(s)
    /\ Shapes(s) => Makes(n, t, s)
    /\ s.op = "seed" => n = 41
    /\ n >= 16 =>
          /\ Gentle(s)
          /\ s.op \in {"rebuild", "delete"} => Unreferred(n, t)
Downward(n, t, s) ==
    /\ IsStatement(s) /\ Sound(s) /\ s.op # "seed"
    /\ Shapes(s) => Unmakes(n, t, s)
IsUpward(n, s) == Upward(n, s.table, s)
IsDownward(n, s) == Downward(n, s.table, s)

\* The scripts of a migration.
Touched(s) == {s[k].table : k \in {j \in 1..Len(s) : Shapes(s[j])}}
Builds(n, s) ==
    /\ IsScript(s)
    /\ \A k \in 1..Len(s) : IsUpward(n, s[k]) /\ (s[k].op = "seed" => k = Len(s))
    /\ n >= 16 => \A k \in 1..Len(s), j \in 1..Len(s) :
          j < k /\ s[k].op \in {"rebuild", "delete"} /\ s[j].op \in {"create", "add", "rebuild"} =>
             \A p \in s[j].parents : p[1] # s[k].table
    /\ Keeps(Touched(s), n)
Unbuilds(n, s) ==
    /\ IsScript(s)
    /\ \A k \in 1..Len(s) : IsDownward(n, s[k])
    /\ Leaves(Touched(s), n)

\* Scripts of statements that shape a table each.
Shaping(s) == IsStatement(s) /\ Sound(s) /\ Shapes(s)

LEMMA OfNone == IsScript(<<>>) /\ Touched(<<>>) = {} /\ Len(<<>>) = 0
  BY DEF IsScript, Touched
LEMMA OfOne ==
    ASSUME NEW a, Shaping(a)
    PROVE  /\ IsScript(<<a>>) /\ Touched(<<a>>) = {a.table}
           /\ Len(<<a>>) = 1 /\ <<a>>[1] = a
  BY DEF IsScript, Touched, Shaping, Shapes
LEMMA OfTwo ==
    ASSUME NEW a, NEW b, Shaping(a), Shaping(b), a.table # b.table
    PROVE  LET s == <<a, b>>
           IN  /\ IsScript(s) /\ Touched(s) = {a.table, b.table}
               /\ Len(s) = 2 /\ s[1] = a /\ s[2] = b
  <1> DEFINE s == <<a, b>>
  <1>1. Len(s) = 2 /\ s[1] = a /\ s[2] = b
    OBVIOUS
  <1> HIDE DEF s
  <1>2. \A k \in 1..Len(s) : Shaping(s[k]) /\ s[k].op # "seed"
    BY <1>1 DEF Shaping, Shapes
  <1>3. \A k \in 1..Len(s), j \in 1..Len(s) : s[k].table = s[j].table => k = j
    BY <1>1
  <1>4. IsScript(s)
    BY <1>1, <1>2, <1>3 DEF IsScript, Shaping
  <1>5. Touched(s) = {a.table, b.table}
    BY <1>1, <1>2 DEF Touched, Shaping
  <1> QED
    BY <1>1, <1>4, <1>5 DEF s
LEMMA OfThree ==
    ASSUME NEW a, NEW b, NEW c, Shaping(a), Shaping(b), Shaping(c),
           a.table \notin {b.table, c.table}, b.table # c.table
    PROVE  LET s == <<a, b, c>>
           IN  /\ IsScript(s) /\ Touched(s) = {a.table, b.table, c.table}
               /\ Len(s) = 3 /\ s[1] = a /\ s[2] = b /\ s[3] = c
  <1> DEFINE s == <<a, b, c>>
  <1>1. Len(s) = 3 /\ s[1] = a /\ s[2] = b /\ s[3] = c
    OBVIOUS
  <1> HIDE DEF s
  <1>2. \A k \in 1..Len(s) : Shaping(s[k]) /\ s[k].op # "seed"
    BY <1>1 DEF Shaping, Shapes
  <1>3. \A k \in 1..Len(s), j \in 1..Len(s) : s[k].table = s[j].table => k = j
    BY <1>1
  <1>4. IsScript(s)
    BY <1>1, <1>2, <1>3 DEF IsScript, Shaping
  <1>5. Touched(s) = {a.table, b.table, c.table}
    BY <1>1, <1>2 DEF Touched, Shaping
  <1> QED
    BY <1>1, <1>4, <1>5 DEF s
LEMMA OfFour ==
    ASSUME NEW a, NEW b, NEW c, NEW d, Shaping(a), Shaping(b), Shaping(c), Shaping(d),
           a.table \notin {b.table, c.table, d.table}, b.table \notin {c.table, d.table}, c.table # d.table
    PROVE  LET s == <<a, b, c, d>>
           IN  /\ IsScript(s) /\ Touched(s) = {a.table, b.table, c.table, d.table}
               /\ Len(s) = 4 /\ s[1] = a /\ s[2] = b /\ s[3] = c /\ s[4] = d
  <1> DEFINE s == <<a, b, c, d>>
  <1>1. Len(s) = 4 /\ s[1] = a /\ s[2] = b /\ s[3] = c /\ s[4] = d
    OBVIOUS
  <1> HIDE DEF s
  <1>2. \A k \in 1..Len(s) : Shaping(s[k]) /\ s[k].op # "seed"
    BY <1>1 DEF Shaping, Shapes
  <1>3. \A k \in 1..Len(s), j \in 1..Len(s) : s[k].table = s[j].table => k = j
    BY <1>1
  <1>4. IsScript(s)
    BY <1>1, <1>2, <1>3 DEF IsScript, Shaping
  <1>5. Touched(s) = {a.table, b.table, c.table, d.table}
    BY <1>1, <1>2 DEF Touched, Shaping
  <1> QED
    BY <1>1, <1>4, <1>5 DEF s
LEMMA OfSix ==
    ASSUME NEW a, NEW b, NEW c, NEW d, NEW e, NEW f, Shaping(a), Shaping(b), Shaping(c),
           Shaping(d), Shaping(e), Shaping(f),
           a.table \notin {b.table, c.table, d.table, e.table, f.table},
           b.table \notin {c.table, d.table, e.table, f.table},
           c.table \notin {d.table, e.table, f.table}, d.table \notin {e.table, f.table},
           e.table # f.table
    PROVE  LET s == <<a, b, c, d, e, f>>
           IN  /\ IsScript(s)
               /\ Touched(s) = {a.table, b.table, c.table, d.table, e.table, f.table}
               /\ Len(s) = 6 /\ s[1] = a /\ s[2] = b /\ s[3] = c /\ s[4] = d /\ s[5] = e /\ s[6] = f
  <1> DEFINE s == <<a, b, c, d, e, f>>
  <1>1. Len(s) = 6 /\ s[1] = a /\ s[2] = b /\ s[3] = c /\ s[4] = d /\ s[5] = e /\ s[6] = f
    OBVIOUS
  <1> HIDE DEF s
  <1>2. \A k \in 1..Len(s) : Shaping(s[k]) /\ s[k].op # "seed"
    BY <1>1 DEF Shaping, Shapes
  <1>3. \A k \in 1..Len(s), j \in 1..Len(s) : s[k].table = s[j].table => k = j
    BY <1>1
  <1>4. IsScript(s)
    BY <1>1, <1>2, <1>3 DEF IsScript, Shaping
  <1>5. Touched(s) = {a.table, b.table, c.table, d.table, e.table, f.table}
    BY <1>1, <1>2 DEF Touched, Shaping
  <1> QED
    BY <1>1, <1>4, <1>5 DEF s

----------------------------------------------------------------------------
(* Every statement of every migration makes, or unmakes, what the tables   *)
(* above say.                                                              *)

LEMMA UnreferredThen ==
    /\ Unreferred(24, "dependency_canonical_overrides")
    /\ Unreferred(26, "dependency_associations")
    /\ Unreferred(31, "alert_history")
    /\ Unreferred(32, "alert_mutes")
    /\ Unreferred(33, "team_manifest_config")
  BY DEF Unreferred, ParentsAt, Born, FromOn, OfUser, OfTeam, TeamOwned, OfMember, OfService,
         OfDependency, OfLink, OfAlert, OfSync, OfFlag, OfMute, OfManifest

USE DEF New, Drop, Rebuild, Add, AddRef, Take, TakeRef, Delete, Seed, OfUser, OfTeam, TeamOwned,
        OfMember, OfService, OfDependency, OfLink, OfAlert, OfSync, OfFlag, OfMute, OfManifest,
        Suggestion, Checks, LastPoll, PollInterval, ManifestColumns, Thresholds, Discovery,
        Percentiles, Upward, Downward, Keeps, Leaves, Makes, Unmakes, Gentle, IsStatement, Ops, Sound,
        TellNames, Telling, KindColumn, IsPair, Shapes, HasAfter, ParentsAfter, NamesAfter, Born, FromOn,
        ParentsAt, NamesAt

LEMMA Made01 ==
    /\ Upward(1, "users", New("users", {}, {}))
    /\ Upward(1, "teams", New("teams", {}, {}))
    /\ Upward(1, "team_members", New("team_members", OfMember, {}))
    /\ Upward(1, "services", New("services", OfTeam, {"polling_interval"}))
    /\ Upward(1, "dependencies", New("dependencies", OfService, {}))
    /\ Upward(1, "dependency_associations", New("dependency_associations", OfLink, Suggestion))
    /\ Downward(1, "dependency_associations", Drop("dependency_associations"))
    /\ Downward(1, "dependencies", Drop("dependencies"))
    /\ Downward(1, "services", Drop("services"))
    /\ Downward(1, "team_members", Drop("team_members"))
    /\ Downward(1, "teams", Drop("teams"))
    /\ Downward(1, "users", Drop("users"))
    /\ Keeps({"users", "teams", "team_members", "services", "dependencies",
              "dependency_associations"}, 1)
    /\ Leaves({"dependency_associations", "dependencies", "services", "team_members", "teams",
               "users"}, 1)
  BY SMTT(60)
LEMMA Made02 ==
    /\ Upward(2, "dependencies", Add("dependencies", {"type"}))
    /\ Downward(2, "dependencies", Rebuild("dependencies", OfService, {}, {}))
    /\ Keeps({"dependencies"}, 2)
  BY SMTT(60)
LEMMA Made03 ==
    /\ Upward(3, "dependency_latency_history", New("dependency_latency_history", OfDependency, {}))
    /\ Downward(3, "dependency_latency_history", Drop("dependency_latency_history"))
    /\ Keeps({"dependency_latency_history"}, 3)
  BY SMTT(60)
LEMMA Made04 ==
    /\ Upward(4, "dependencies", Add("dependencies", Checks))
    /\ Upward(4, "dependency_error_history", New("dependency_error_history", OfDependency, {}))
    /\ Downward(4, "dependency_error_history", Drop("dependency_error_history"))
    /\ Keeps({"dependencies", "dependency_error_history"}, 4)
    /\ Leaves({"dependency_error_history"}, 4)
  BY SMTT(60)
LEMMA Made05 ==
    /\ Upward(5, "services", Add("services", LastPoll))
    /\ Keeps({"services"}, 5)
    /\ Leaves({}, 5)
  BY SMTT(60)
LEMMA Made06 ==
    /\ Upward(6, "dependency_aliases", New("dependency_aliases", {}, {}))
    /\ Upward(6, "dependencies", Add("dependencies", {"canonical_name"}))
    /\ Downward(6, "dependency_aliases", Drop("dependency_aliases"))
    /\ Keeps({"dependency_aliases", "dependencies"}, 6)
    /\ Leaves({"dependency_aliases"}, 6)
  BY SMTT(60)
LEMMA Made07 ==
    /\ Upward(7, "services", Rebuild("services", OfTeam, PollInterval \cup LastPoll, {}))
    /\ Downward(7, "services", Rebuild("services", OfTeam, {"polling_interval"} \cup LastPoll, {}))
    /\ Keeps({"services"}, 7)
  BY SMTT(60)
LEMMA Made08 ==
    /\ Upward(8, "audit_log", New("audit_log", OfUser, {}))
    /\ Downward(8, "audit_log", Drop("audit_log"))
    /\ Keeps({"audit_log"}, 8)
  BY SMTT(60)
LEMMA Made09 ==
    /\ Upward(9, "settings", New("settings", OfUser, {}))
    /\ Downward(9, "settings", Drop("settings"))
    /\ Keeps({"settings"}, 9)
  BY SMTT(60)
LEMMA Made10 ==
    /\ Upward(10, "users", Add("users", {"password_hash"}))
    /\ Downward(10, "users", Rebuild("users", {}, {}, {}))
    /\ Keeps({"users"}, 10)
  BY SMTT(60)
LEMMA Made11 ==
    /\ Upward(11, "alert_channels", New("alert_channels", TeamOwned, {}))
    /\ Upward(11, "alert_rules", New("alert_rules", TeamOwned, {}))
    /\ Upward(11, "alert_history", New("alert_history", OfAlert, {}))
    /\ Downward(11, "alert_history", Drop("alert_history"))
    /\ Downward(11, "alert_rules", Drop("alert_rules"))
    /\ Downward(11, "alert_channels", Drop("alert_channels"))
    /\ Keeps({"alert_channels", "alert_rules", "alert_history"}, 11)
    /\ Leaves({"alert_history", "alert_rules", "alert_channels"}, 11)
  BY SMTT(60)
LEMMA Made12 ==
    /\ Upward(12, "services", Add("services", {"schema_config"}))
    /\ Downward(12, "services", Rebuild("services", OfTeam, PollInterval \cup LastPoll, {}))
    /\ Keeps({"services"}, 12)
  BY SMTT(60)
LEMMA Made13 ==
    /\ Upward(13, "services", Add("services", {"is_external", "description"}))
    /\ Downward(13, "services", Rebuild("services", OfTeam,
                  {"schema_config"} \cup PollInterval \cup LastPoll, {"external"}))
    /\ Keeps({"services"}, 13)
  BY SMTT(60)
LEMMA Made14 ==
    /\ Upward(14, "dependency_associations", Add("dependency_associations", {"match_reason"}))
    /\ Downward(14, "dependency_associations",
              Rebuild("dependency_associations", OfLink, Suggestion, {}))
    /\ Keeps({"dependency_associations"}, 14)
  BY SMTT(60)
LEMMA Made15 ==
    /\ Upward(15, "dependencies",
              Rebuild("dependencies", OfService, {"type", "canonical_name"} \cup Checks, {}))
    /\ Downward(15, "dependencies",
              Rebuild("dependencies", OfService, {"type", "canonical_name"} \cup Checks, {}))
    /\ Keeps({"dependencies"}, 15)
  BY SMTT(60)
LEMMA Made16 ==
    /\ Upward(16, "dependencies", Add("dependencies", {"contact"}))
    /\ Keeps({"dependencies"}, 16)
    /\ Leaves({}, 16)
  BY SMTT(60)
LEMMA Made17 ==
    /\ Upward(17, "dependencies", Add("dependencies", {"contact_override", "impact_override"}))
    /\ Keeps({"dependencies"}, 17)
    /\ Leaves({}, 17)
  BY SMTT(60)
LEMMA Made18 ==
    /\ Upward(18, "dependency_canonical_overrides",
              New("dependency_canonical_overrides", OfUser, {}))
    /\ Downward(18, "dependency_canonical_overrides", Drop("dependency_canonical_overrides"))
    /\ Keeps({"dependency_canonical_overrides"}, 18)
  BY SMTT(60)
LEMMA Made19 ==
    /\ Upward(19, "status_change_events", New("status_change_events", OfService, {}))
    /\ Downward(19, "status_change_events", Drop("status_change_events"))
    /\ Keeps({"status_change_events"}, 19)
  BY SMTT(60)
LEMMA Made20 ==
    /\ Upward(20, "service_poll_history", New("service_poll_history", OfService, {}))
    /\ Downward(20, "service_poll_history", Drop("service_poll_history"))
    /\ Keeps({"service_poll_history"}, 20)
  BY SMTT(60)
LEMMA Made21 ==
    /\ Keeps({}, 21)
  BY SMTT(60)
LEMMA Made22 ==
    /\ Upward(22, "services", Add("services", {"poll_warnings"}))
    /\ Downward(22, "services", Take("services", {"poll_warnings"}))
    /\ Keeps({"services"}, 22)
  BY SMTT(60)
LEMMA Made23 ==
    /\ Upward(23, "dependencies", Add("dependencies", {"skipped"}))
    /\ Downward(23, "dependencies", Take("dependencies", {"skipped"}))
    /\ Keeps({"dependencies"}, 23)
  BY SMTT(60)
LEMMA Made24 ==
    /\ Upward(24, "team_manifest_config", New("team_manifest_config", TeamOwned, {}))
    /\ Upward(24, "manifest_sync_history", New("manifest_sync_history", OfSync, {}))
    /\ Upward(24, "services", Add("services", ManifestColumns))
    /\ Keeps({"team_manifest_config", "manifest_sync_history", "services",
              "dependency_aliases", "dependency_canonical_overrides", "dependency_associations"}, 24)
  BY SMTT(60)
LEMMA LinksMade24 ==
    /\ Upward(24, "dependency_aliases", AddRef("dependency_aliases", "manifest_team_id", "teams"))
    /\ Upward(24, "dependency_canonical_overrides",
              Rebuild("dependency_canonical_overrides", TeamOwned \cup OfUser, {"team_id",
                "manifest_managed"}, {}))
    /\ Upward(24, "dependency_associations", Add("dependency_associations", {"manifest_managed"}))
  BY UnreferredThen, SMTT(60)
LEMMA Unmade24 ==
    /\ Downward(24, "dependency_associations",
              Take("dependency_associations", {"manifest_managed"}))
    /\ Downward(24, "dependency_canonical_overrides",
              Rebuild("dependency_canonical_overrides", OfUser, {}, {"team"}))
    /\ Downward(24, "dependency_aliases",
              TakeRef("dependency_aliases", "manifest_team_id", "teams"))
    /\ Downward(24, "services", Take("services", ManifestColumns))
    /\ Downward(24, "manifest_sync_history", Drop("manifest_sync_history"))
    /\ Downward(24, "team_manifest_config", Drop("team_manifest_config"))
    /\ Leaves({"dependency_associations", "dependency_canonical_overrides",
               "dependency_aliases", "services", "manifest_sync_history", "team_manifest_config"}, 24)
  BY SMTT(60)
LEMMA Made25 ==
    /\ Upward(25, "drift_flags", New("drift_flags", OfFlag, {}))
    /\ Downward(25, "drift_flags", Drop("drift_flags"))
    /\ Keeps({"drift_flags"}, 25)
  BY SMTT(60)
LEMMA Made26 ==
    /\ Upward(26, "dependency_associations", Delete("dependency_associations", {"suggested"}))
    /\ Upward(26, "dependency_associations",
              Rebuild("dependency_associations", OfLink, {"manifest_managed"}, {}))
    /\ Downward(26, "dependency_associations",
              Add("dependency_associations", Suggestion \cup {"match_reason"}))
    /\ Keeps({"dependency_associations"}, 26)
  BY UnreferredThen, SMTT(60)
LEMMA Made27 ==
    /\ Upward(27, "teams", Add("teams", {"key"}))
    /\ Downward(27, "teams", Rebuild("teams", {}, {}, {}))
    /\ Keeps({"teams"}, 27)
  BY SMTT(60)
LEMMA Made28 ==
    /\ Upward(28, "teams", Add("teams", {"contact"}))
    /\ Downward(28, "teams", Rebuild("teams", {}, {"key"}, {}))
    /\ Keeps({"teams"}, 28)
  BY SMTT(60)
LEMMA Made29 ==
    /\ Upward(29, "alert_rules", Add("alert_rules", Thresholds))
    /\ Downward(29, "alert_rules", Rebuild("alert_rules", TeamOwned, {}, {}))
    /\ Keeps({"alert_rules"}, 29)
  BY SMTT(60)
LEMMA Made30 ==
    /\ Upward(30, "alert_rules", Add("alert_rules", {"alert_delay_minutes"}))
    /\ Downward(30, "alert_rules", Rebuild("alert_rules", TeamOwned, Thresholds, {}))
    /\ Keeps({"alert_rules"}, 30)
  BY SMTT(60)
LEMMA Made31 ==
    /\ Upward(31, "alert_mutes", New("alert_mutes", OfMute, {}))
    /\ Upward(31, "alert_history", Rebuild("alert_history", OfAlert, {}, {}))
    /\ Keeps({"alert_mutes", "alert_history"}, 31)
  BY UnreferredThen, SMTT(60)
LEMMA Unmade31 ==
    /\ Downward(31, "alert_history", Delete("alert_history", {"muted"}))
    /\ Downward(31, "alert_history", Rebuild("alert_history", OfAlert, {}, {}))
    /\ Downward(31, "alert_mutes", Drop("alert_mutes"))
    /\ Leaves({"alert_history", "alert_mutes"}, 31)
  BY SMTT(60)
LEMMA Made32 ==
    /\ Upward(32, "alert_mutes", Rebuild("alert_mutes", OfMute \cup OfService, {"service_id"}, {}))
    /\ Downward(32, "alert_mutes", Delete("alert_mutes", {"service"}))
    /\ Downward(32, "alert_mutes", Rebuild("alert_mutes", OfMute, {}, {}))
    /\ Keeps({"alert_mutes"}, 32)
  BY UnreferredThen, SMTT(60)
LEMMA Made33 ==
    /\ Upward(33, "team_manifest_config", Rebuild("team_manifest_config", TeamOwned, {"name"}, {}))
    /\ Upward(33, "manifest_sync_history",
              AddRef("manifest_sync_history", "manifest_config_id", "team_manifest_config"))
    /\ Upward(33, "drift_flags",
              AddRef("drift_flags", "manifest_config_id", "team_manifest_config"))
    /\ Upward(33, "services", AddRef("services", "manifest_config_id", "team_manifest_config"))
    /\ Keeps({"team_manifest_config", "manifest_sync_history", "drift_flags", "services"}, 33)
  BY UnreferredThen, SMTT(60)
LEMMA Unmade33 ==
    /\ Downward(33, "services", TakeRef("services", "manifest_config_id", "team_manifest_config"))
    /\ Downward(33, "drift_flags",
              TakeRef("drift_flags", "manifest_config_id", "team_manifest_config"))
    /\ Downward(33, "manifest_sync_history",
              TakeRef("manifest_sync_history", "manifest_config_id", "team_manifest_config"))
    /\ Downward(33, "team_manifest_config",
              Rebuild("team_manifest_config", TeamOwned, {}, {"second"}))
    /\ Leaves({"services", "drift_flags", "manifest_sync_history", "team_manifest_config"}, 33)
  BY SMTT(60)
LEMMA Made34 ==
    /\ Upward(34, "services", Add("services", {"health_endpoint_format"}))
    /\ Upward(34, "team_api_keys", New("team_api_keys", TeamOwned \cup OfUser, {}))
    /\ Downward(34, "team_api_keys", Drop("team_api_keys"))
    /\ Downward(34, "services", Take("services", {"health_endpoint_format"}))
    /\ Keeps({"services", "team_api_keys"}, 34)
    /\ Leaves({"team_api_keys", "services"}, 34)
  BY SMTT(60)
LEMMA Made35 ==
    /\ Upward(35, "team_api_keys",
              Add("team_api_keys", {"rate_limit_rpm", "rate_limit_admin_locked"}))
    /\ Downward(35, "team_api_keys",
              Take("team_api_keys", {"rate_limit_rpm", "rate_limit_admin_locked"}))
    /\ Keeps({"team_api_keys"}, 35)
  BY SMTT(60)
LEMMA Made36 ==
    /\ Upward(36, "api_key_usage_buckets", New("api_key_usage_buckets", {}, {}))
    /\ Downward(36, "api_key_usage_buckets", Drop("api_key_usage_buckets"))
    /\ Keeps({"api_key_usage_buckets"}, 36)
  BY SMTT(60)
LEMMA Made37 ==
    /\ Upward(37, "dependencies", Add("dependencies", Discovery))
    /\ Upward(37, "dependency_associations",
              Add("dependency_associations", {"is_auto_suggested", "is_dismissed"}))
    /\ Downward(37, "dependency_associations",
              Rebuild("dependency_associations", OfLink, {"manifest_managed"}, {}))
    /\ Keeps({"dependencies", "dependency_associations"}, 37)
    /\ Leaves({"dependency_associations"}, 37)
  BY SMTT(60)
LEMMA Made38 ==
    /\ Upward(38, "external_node_enrichment", New("external_node_enrichment", OfUser, {}))
    /\ Downward(38, "external_node_enrichment", Drop("external_node_enrichment"))
    /\ Keeps({"external_node_enrichment"}, 38)
  BY SMTT(60)
LEMMA Made39 ==
    /\ Upward(39, "dependency_latency_history", Add("dependency_latency_history", Percentiles))
    /\ Keeps({"dependency_latency_history"}, 39)
    /\ Leaves({}, 39)
  BY SMTT(60)
LEMMA Made40 ==
    /\ Upward(40, "spans", New("spans", TeamOwned, {}))
    /\ Downward(40, "spans", Drop("spans"))
    /\ Keeps({"spans"}, 40)
  BY SMTT(60)
LEMMA Made41 ==
    /\ Upward(41, "app_settings", New("app_settings", OfUser, {}))
    /\ Upward(41, "app_settings", Seed("app_settings"))
    /\ Downward(41, "app_settings", Drop("app_settings"))
    /\ Keeps({"app_settings"}, 41)
  BY SMTT(60)

HIDE DEF New, Drop, Rebuild, Add, AddRef, Take, TakeRef, Delete, Seed, OfUser, OfTeam, TeamOwned,
         OfMember, OfService, OfDependency, OfLink, OfAlert, OfSync, OfFlag, OfMute, OfManifest,
         Suggestion, Checks, LastPoll, PollInterval, ManifestColumns, Thresholds, Discovery,
         Percentiles, Upward, Downward, IsUpward, IsDownward, Keeps, Leaves, Makes, Unmakes, Gentle, IsStatement, Ops, Sound,
         TellNames, Telling, KindColumn, IsPair, Shapes, HasAfter, ParentsAfter, NamesAfter, Born, FromOn,
         ParentsAt, NamesAt

----------------------------------------------------------------------------
(* The scripts, from their statements. *)

LEMMA Constructors ==
    /\ \A t, ps, ns : LET s == New(t, ps, ns)
                     IN  s.table = t /\ s.op = "create" /\ s.parents = ps /\ Shapes(s)
    /\ \A t, ps, ns, ks : LET s == Rebuild(t, ps, ns, ks)
                         IN  s.table = t /\ s.op = "rebuild" /\ s.parents = ps /\ Shapes(s)
    /\ \A t, ns : LET s == Add(t, ns)
                 IN  s.table = t /\ s.op = "add" /\ s.parents = {} /\ Shapes(s)
    /\ \A t, n, p : LET s == AddRef(t, n, p)
                   IN  s.table = t /\ s.op = "add" /\ s.parents = {<<p, "null">>} /\ Shapes(s)
    /\ \A t : Drop(t).table = t /\ Drop(t).op = "drop" /\ Shapes(Drop(t))
    /\ \A t, ns : Take(t, ns).table = t /\ Take(t, ns).op = "take" /\ Shapes(Take(t, ns))
    /\ \A t, n, p : LET s == TakeRef(t, n, p)
                   IN  s.table = t /\ s.op = "take" /\ Shapes(s)
    /\ \A n, t, s : s.table = t /\ Upward(n, t, s) => IsUpward(n, s)
    /\ \A n, t, s : s.table = t /\ Downward(n, t, s) => IsDownward(n, s)
    /\ \A ts, n : Keeps(ts, n) => Leaves(ts, n)
  BY DEF IsUpward, IsDownward, Keeps, Leaves, New, Rebuild, Add, AddRef, Drop, Take, TakeRef, Shapes

LEMMA UpOfNone ==
    ASSUME NEW n, Keeps({}, n)
    PROVE  Builds(n, <<>>)
  <1> DEFINE s == <<>>
  <1>1. IsScript(s) /\ Touched(s) = {} /\ Len(s) = 0
    BY OfNone
  <1> HIDE DEF s
  <1>2. Builds(n, s)
    BY <1>1 DEF Builds
  <1> QED
    BY <1>2 DEF s
LEMMA DownOfNone ==
    ASSUME NEW n, Leaves({}, n)
    PROVE  Unbuilds(n, <<>>)
  <1> DEFINE s == <<>>
  <1>1. IsScript(s) /\ Touched(s) = {} /\ Len(s) = 0
    BY OfNone
  <1> HIDE DEF s
  <1>2. Unbuilds(n, s)
    BY <1>1 DEF Unbuilds
  <1> QED
    BY <1>2 DEF s
LEMMA UpOfOne ==
    ASSUME NEW n, NEW a, IsUpward(n, a), a.op \in {"create", "add", "rebuild"},
           Keeps({a.table}, n)
    PROVE  Builds(n, <<a>>)
  <1> DEFINE s == <<a>>
  <1>1. Shaping(a)
    BY DEF IsUpward, Upward, Shaping, Shapes
  <1>2. /\ IsScript(s) /\ Touched(s) = {a.table}
        /\ Len(s) = 1 /\ s[1] = a
    BY <1>1, OfOne
  <1> HIDE DEF s
  <1>3. Builds(n, s)
    BY <1>2 DEF Builds
  <1> QED
    BY <1>3 DEF s
LEMMA UpOfTwo ==
    ASSUME NEW n, NEW a, NEW b, IsUpward(n, a), IsUpward(n, b), a.op \in {"create", "add"},
           b.op \in {"create", "add", "rebuild"},
           b.op = "rebuild" => \A p \in a.parents : p[1] # b.table, a.table # b.table,
           Keeps({a.table, b.table}, n)
    PROVE  Builds(n, <<a, b>>)
  <1> DEFINE s == <<a, b>>
  <1>1. Shaping(a) /\ Shaping(b)
    BY DEF IsUpward, Upward, Shaping, Shapes
  <1>2. /\ IsScript(s) /\ Touched(s) = {a.table, b.table}
        /\ Len(s) = 2 /\ s[1] = a /\ s[2] = b
    BY <1>1, OfTwo
  <1> HIDE DEF s
  <1>3. Builds(n, s)
    BY <1>2 DEF Builds
  <1> QED
    BY <1>3 DEF s
LEMMA UpOfThree ==
    ASSUME NEW n, NEW a, NEW b, NEW c, IsUpward(n, a), IsUpward(n, b), IsUpward(n, c),
           a.op \in {"create", "add"}, b.op \in {"create", "add"},
           c.op \in {"create", "add"}, a.table \notin {b.table, c.table}, b.table # c.table,
           Keeps({a.table, b.table, c.table}, n)
    PROVE  Builds(n, <<a, b, c>>)
  <1> DEFINE s == <<a, b, c>>
  <1>1. Shaping(a) /\ Shaping(b) /\ Shaping(c)
    BY DEF IsUpward, Upward, Shaping, Shapes
  <1>2. /\ IsScript(s) /\ Touched(s) = {a.table, b.table, c.table}
        /\ Len(s) = 3 /\ s[1] = a /\ s[2] = b /\ s[3] = c
    BY <1>1, OfThree
  <1> HIDE DEF s
  <1>3. Builds(n, s)
    BY <1>2 DEF Builds
  <1> QED
    BY <1>3 DEF s
LEMMA UpOfFour ==
    ASSUME NEW n, NEW a, NEW b, NEW c, NEW d, IsUpward(n, a), IsUpward(n, b), IsUpward(n, c), IsUpward(n, d),
           a.op \in {"create", "add", "rebuild"}, b.op \in {"create", "add"},
           c.op \in {"create", "add"}, d.op \in {"create", "add"},
           a.table \notin {b.table, c.table, d.table}, b.table \notin {c.table, d.table},
           c.table # d.table, Keeps({a.table, b.table, c.table, d.table}, n)
    PROVE  Builds(n, <<a, b, c, d>>)
  <1> DEFINE s == <<a, b, c, d>>
  <1>1. Shaping(a) /\ Shaping(b) /\ Shaping(c) /\ Shaping(d)
    BY DEF IsUpward, Upward, Shaping, Shapes
  <1>2. /\ IsScript(s) /\ Touched(s) = {a.table, b.table, c.table, d.table}
        /\ Len(s) = 4 /\ s[1] = a /\ s[2] = b /\ s[3] = c /\ s[4] = d
    BY <1>1, OfFour
  <1> HIDE DEF s
  <1>3. Builds(n, s)
    BY <1>2 DEF Builds
  <1> QED
    BY <1>3 DEF s
LEMMA UpOfSix ==
    ASSUME NEW n, NEW a, NEW b, NEW c, NEW d, NEW e, NEW f, IsUpward(n, a), IsUpward(n, b),
           IsUpward(n, c), IsUpward(n, d), IsUpward(n, e), IsUpward(n, f), a.op \in {"create", "add"},
           b.op \in {"create", "add"}, c.op \in {"create", "add"},
           d.op \in {"create", "add"}, e.op \in {"create", "add", "rebuild"},
           f.op \in {"create", "add"},
           e.op = "rebuild" => \A p \in a.parents \cup b.parents \cup c.parents \cup d.parents : p[1] # e.table,
           a.table \notin {b.table, c.table, d.table, e.table, f.table},
           b.table \notin {c.table, d.table, e.table, f.table},
           c.table \notin {d.table, e.table, f.table}, d.table \notin {e.table, f.table},
           e.table # f.table, Keeps({a.table, b.table, c.table, d.table, e.table, f.table}, n)
    PROVE  Builds(n, <<a, b, c, d, e, f>>)
  <1> DEFINE s == <<a, b, c, d, e, f>>
  <1>1. Shaping(a) /\ Shaping(b) /\ Shaping(c) /\ Shaping(d) /\ Shaping(e) /\ Shaping(f)
    BY DEF IsUpward, Upward, Shaping, Shapes
  <1>2. /\ IsScript(s) /\ Touched(s) = {a.table, b.table, c.table, d.table, e.table, f.table}
        /\ Len(s) = 6 /\ s[1] = a /\ s[2] = b /\ s[3] = c /\ s[4] = d /\ s[5] = e /\ s[6] = f
    BY <1>1, OfSix
  <1> HIDE DEF s
  <1>3. Builds(n, s)
    BY <1>2 DEF Builds
  <1> QED
    BY <1>3 DEF s
LEMMA DownOfOne ==
    ASSUME NEW n, NEW a, IsDownward(n, a), Shapes(a), Leaves({a.table}, n)
    PROVE  Unbuilds(n, <<a>>)
  <1> DEFINE s == <<a>>
  <1>1. Shaping(a)
    BY DEF IsDownward, Downward, Shaping, Shapes
  <1>2. /\ IsScript(s) /\ Touched(s) = {a.table}
        /\ Len(s) = 1 /\ s[1] = a
    BY <1>1, OfOne
  <1> HIDE DEF s
  <1>3. Unbuilds(n, s)
    BY <1>2 DEF Unbuilds
  <1> QED
    BY <1>3 DEF s
LEMMA DownOfTwo ==
    ASSUME NEW n, NEW a, NEW b, IsDownward(n, a), IsDownward(n, b), Shapes(a), Shapes(b),
           a.table # b.table, Leaves({a.table, b.table}, n)
    PROVE  Unbuilds(n, <<a, b>>)
  <1> DEFINE s == <<a, b>>
  <1>1. Shaping(a) /\ Shaping(b)
    BY DEF IsDownward, Downward, Shaping, Shapes
  <1>2. /\ IsScript(s) /\ Touched(s) = {a.table, b.table}
        /\ Len(s) = 2 /\ s[1] = a /\ s[2] = b
    BY <1>1, OfTwo
  <1> HIDE DEF s
  <1>3. Unbuilds(n, s)
    BY <1>2 DEF Unbuilds
  <1> QED
    BY <1>3 DEF s
LEMMA DownOfThree ==
    ASSUME NEW n, NEW a, NEW b, NEW c, IsDownward(n, a), IsDownward(n, b), IsDownward(n, c), Shapes(a),
           Shapes(b), Shapes(c), a.table \notin {b.table, c.table}, b.table # c.table,
           Leaves({a.table, b.table, c.table}, n)
    PROVE  Unbuilds(n, <<a, b, c>>)
  <1> DEFINE s == <<a, b, c>>
  <1>1. Shaping(a) /\ Shaping(b) /\ Shaping(c)
    BY DEF IsDownward, Downward, Shaping, Shapes
  <1>2. /\ IsScript(s) /\ Touched(s) = {a.table, b.table, c.table}
        /\ Len(s) = 3 /\ s[1] = a /\ s[2] = b /\ s[3] = c
    BY <1>1, OfThree
  <1> HIDE DEF s
  <1>3. Unbuilds(n, s)
    BY <1>2 DEF Unbuilds
  <1> QED
    BY <1>3 DEF s
LEMMA DownOfFour ==
    ASSUME NEW n, NEW a, NEW b, NEW c, NEW d, IsDownward(n, a), IsDownward(n, b), IsDownward(n, c),
           IsDownward(n, d), Shapes(a), Shapes(b), Shapes(c), Shapes(d),
           a.table \notin {b.table, c.table, d.table}, b.table \notin {c.table, d.table},
           c.table # d.table, Leaves({a.table, b.table, c.table, d.table}, n)
    PROVE  Unbuilds(n, <<a, b, c, d>>)
  <1> DEFINE s == <<a, b, c, d>>
  <1>1. Shaping(a) /\ Shaping(b) /\ Shaping(c) /\ Shaping(d)
    BY DEF IsDownward, Downward, Shaping, Shapes
  <1>2. /\ IsScript(s) /\ Touched(s) = {a.table, b.table, c.table, d.table}
        /\ Len(s) = 4 /\ s[1] = a /\ s[2] = b /\ s[3] = c /\ s[4] = d
    BY <1>1, OfFour
  <1> HIDE DEF s
  <1>3. Unbuilds(n, s)
    BY <1>2 DEF Unbuilds
  <1> QED
    BY <1>3 DEF s
LEMMA DownOfSix ==
    ASSUME NEW n, NEW a, NEW b, NEW c, NEW d, NEW e, NEW f, IsDownward(n, a), IsDownward(n, b),
           IsDownward(n, c), IsDownward(n, d), IsDownward(n, e), IsDownward(n, f), Shapes(a), Shapes(b),
           Shapes(c), Shapes(d), Shapes(e), Shapes(f),
           a.table \notin {b.table, c.table, d.table, e.table, f.table},
           b.table \notin {c.table, d.table, e.table, f.table},
           c.table \notin {d.table, e.table, f.table}, d.table \notin {e.table, f.table},
           e.table # f.table,
           Leaves({a.table, b.table, c.table, d.table, e.table, f.table}, n)
    PROVE  Unbuilds(n, <<a, b, c, d, e, f>>)
  <1> DEFINE s == <<a, b, c, d, e, f>>
  <1>1. Shaping(a) /\ Shaping(b) /\ Shaping(c) /\ Shaping(d) /\ Shaping(e) /\ Shaping(f)
    BY DEF IsDownward, Downward, Shaping, Shapes
  <1>2. /\ IsScript(s) /\ Touched(s) = {a.table, b.table, c.table, d.table, e.table, f.table}
        /\ Len(s) = 6 /\ s[1] = a /\ s[2] = b /\ s[3] = c /\ s[4] = d /\ s[5] = e /\ s[6] = f
    BY <1>1, OfSix
  <1> HIDE DEF s
  <1>3. Unbuilds(n, s)
    BY <1>2 DEF Unbuilds
  <1> QED
    BY <1>3 DEF s
LEMMA Up26 == Builds(26, M026.up)
  <1> DEFINE s == M026.up
             t == "dependency_associations"
             a == Delete(t, {"suggested"})
             b == Rebuild(t, OfLink, {"manifest_managed"}, {})
  <1>1. Len(s) = 2 /\ s[1] = a /\ s[2] = b
    BY DEF M026, Script
  <1>2. IsUpward(26, a) /\ IsUpward(26, b) /\ Keeps({t}, 26)
    BY Made26, Constructors DEF Delete
  <1>3. /\ a.table = t /\ a.op = "delete" /\ ~Shapes(a)
        /\ b.table = t /\ b.op = "rebuild" /\ Shapes(b)
    BY Constructors DEF Delete, Shapes
  <1> HIDE DEF s, a, b
  <1>4. IsScript(s)
    BY <1>1, <1>2, <1>3 DEF IsScript, IsUpward, Upward
  <1>5. Touched(s) = {t}
    BY <1>1, <1>3 DEF Touched
  <1>6. Builds(26, s)
    BY <1>1, <1>2, <1>3, <1>4, <1>5 DEF Builds
  <1> QED
    BY <1>6 DEF s
LEMMA Up41 == Builds(41, M041.up)
  <1> DEFINE s == M041.up
             t == "app_settings"
             a == New(t, OfUser, {})
             b == Seed(t)
  <1>1. Len(s) = 2 /\ s[1] = a /\ s[2] = b
    BY DEF M041, Script
  <1>2. IsUpward(41, a) /\ IsUpward(41, b) /\ Keeps({t}, 41)
    BY Made41, Constructors DEF Seed
  <1>3. /\ a.table = t /\ a.op = "create" /\ Shapes(a)
        /\ b.table = t /\ b.op = "seed" /\ ~Shapes(b)
    BY Constructors DEF Seed, Shapes
  <1> HIDE DEF s, a, b
  <1>4. IsScript(s)
    BY <1>1, <1>2, <1>3 DEF IsScript, IsUpward, Upward
  <1>5. Touched(s) = {t}
    BY <1>1, <1>3 DEF Touched
  <1>6. Builds(41, s)
    BY <1>1, <1>2, <1>3, <1>4, <1>5 DEF Builds
  <1> QED
    BY <1>6 DEF s
LEMMA Down31 == Unbuilds(31, M031.down)
  <1> DEFINE s == M031.down
             a == Delete("alert_history", {"muted"})
             b == Rebuild("alert_history", OfAlert, {}, {})
             c == Drop("alert_mutes")
  <1>1. Len(s) = 3 /\ s[1] = a /\ s[2] = b /\ s[3] = c
    BY DEF M031, Script
  <1>2. /\ IsDownward(31, a) /\ IsDownward(31, b) /\ IsDownward(31, c)
        /\ Leaves({"alert_history", "alert_mutes"}, 31)
    BY Unmade31, Constructors DEF Delete
  <1>3. /\ ~Shapes(a) /\ b.table = "alert_history" /\ Shapes(b)
        /\ c.table = "alert_mutes" /\ Shapes(c)
    BY Constructors DEF Delete, Shapes
  <1> HIDE DEF s, a, b, c
  <1>4. IsScript(s)
    BY <1>1, <1>2, <1>3 DEF IsScript, IsDownward, Downward
  <1>5. Touched(s) = {"alert_history", "alert_mutes"}
    BY <1>1, <1>3 DEF Touched
  <1>6. Unbuilds(31, s)
    BY <1>1, <1>2, <1>4, <1>5 DEF Unbuilds
  <1> QED
    BY <1>6 DEF s
LEMMA Down32 == Unbuilds(32, M032.down)
  <1> DEFINE s == M032.down
             a == Delete("alert_mutes", {"service"})
             b == Rebuild("alert_mutes", OfMute, {}, {})
  <1>1. Len(s) = 2 /\ s[1] = a /\ s[2] = b
    BY DEF M032, Script
  <1>2. IsDownward(32, a) /\ IsDownward(32, b) /\ Leaves({"alert_mutes"}, 32)
    BY Made32, Constructors DEF Delete
  <1>3. ~Shapes(a) /\ b.table = "alert_mutes" /\ Shapes(b)
    BY Constructors DEF Delete, Shapes
  <1> HIDE DEF s, a, b
  <1>4. IsScript(s)
    BY <1>1, <1>2, <1>3 DEF IsScript, IsDownward, Downward
  <1>5. Touched(s) = {"alert_mutes"}
    BY <1>1, <1>3 DEF Touched
  <1>6. Unbuilds(32, s)
    BY <1>1, <1>2, <1>4, <1>5 DEF Unbuilds
  <1> QED
    BY <1>6 DEF s

LEMMA Up01 == Builds(1, M001.up)
  BY Made01, UpOfSix, Constructors DEF M001, Script
LEMMA Up02 == Builds(2, M002.up)
  BY Made02, UpOfOne, Constructors DEF M002, Script
LEMMA Up03 == Builds(3, M003.up)
  BY Made03, UpOfOne, Constructors DEF M003, Script
LEMMA Up04 == Builds(4, M004.up)
  BY Made04, UpOfTwo, Constructors DEF M004, Script
LEMMA Up05 == Builds(5, M005.up)
  BY Made05, UpOfOne, Constructors DEF M005, Script
LEMMA Up06 == Builds(6, M006.up)
  BY Made06, UpOfTwo, Constructors DEF M006, Script
LEMMA Up07 == Builds(7, M007.up)
  BY Made07, UpOfOne, Constructors DEF M007, Script
LEMMA Up08 == Builds(8, M008.up)
  BY Made08, UpOfOne, Constructors DEF M008, Script
LEMMA Up09 == Builds(9, M009.up)
  BY Made09, UpOfOne, Constructors DEF M009, Script
LEMMA Up10 == Builds(10, M010.up)
  BY Made10, UpOfOne, Constructors DEF M010, Script
LEMMA Up11 == Builds(11, M011.up)
  BY Made11, UpOfThree, Constructors DEF M011, Script
LEMMA Up12 == Builds(12, M012.up)
  BY Made12, UpOfOne, Constructors DEF M012, Script
LEMMA Up13 == Builds(13, M013.up)
  BY Made13, UpOfOne, Constructors DEF M013, Script
LEMMA Up14 == Builds(14, M014.up)
  BY Made14, UpOfOne, Constructors DEF M014, Script
LEMMA Up15 == Builds(15, M015.up)
  BY Made15, UpOfOne, Constructors DEF M015, Script
LEMMA Up16 == Builds(16, M016.up)
  BY Made16, UpOfOne, Constructors DEF M016, Script
LEMMA Up17 == Builds(17, M017.up)
  BY Made17, UpOfOne, Constructors DEF M017, Script
LEMMA Up18 == Builds(18, M018.up)
  BY Made18, UpOfOne, Constructors DEF M018, Script
LEMMA Up19 == Builds(19, M019.up)
  BY Made19, UpOfOne, Constructors DEF M019, Script
LEMMA Up20 == Builds(20, M020.up)
  BY Made20, UpOfOne, Constructors DEF M020, Script
LEMMA Up21 == Builds(21, M021.up)
  BY Made21, UpOfNone, Constructors DEF M021, Script
LEMMA Up22 == Builds(22, M022.up)
  BY Made22, UpOfOne, Constructors DEF M022, Script
LEMMA Up23 == Builds(23, M023.up)
  BY Made23, UpOfOne, Constructors DEF M023, Script
LEMMA Up24 == Builds(24, M024.up)
  BY Made24, LinksMade24, UpOfSix, Constructors DEF M024, Script, TeamOwned, OfSync
LEMMA Up25 == Builds(25, M025.up)
  BY Made25, UpOfOne, Constructors DEF M025, Script
LEMMA Up27 == Builds(27, M027.up)
  BY Made27, UpOfOne, Constructors DEF M027, Script
LEMMA Up28 == Builds(28, M028.up)
  BY Made28, UpOfOne, Constructors DEF M028, Script
LEMMA Up29 == Builds(29, M029.up)
  BY Made29, UpOfOne, Constructors DEF M029, Script
LEMMA Up30 == Builds(30, M030.up)
  BY Made30, UpOfOne, Constructors DEF M030, Script
LEMMA Up31 == Builds(31, M031.up)
  BY Made31, UpOfTwo, Constructors DEF M031, Script, OfMute, TeamOwned, OfDependency, OfUser
LEMMA Up32 == Builds(32, M032.up)
  BY Made32, UpOfOne, Constructors DEF M032, Script
LEMMA Up33 == Builds(33, M033.up)
  BY Made33, UpOfFour, Constructors DEF M033, Script
LEMMA Up34 == Builds(34, M034.up)
  BY Made34, UpOfTwo, Constructors DEF M034, Script
LEMMA Up35 == Builds(35, M035.up)
  BY Made35, UpOfOne, Constructors DEF M035, Script
LEMMA Up36 == Builds(36, M036.up)
  BY Made36, UpOfOne, Constructors DEF M036, Script
LEMMA Up37 == Builds(37, M037.up)
  BY Made37, UpOfTwo, Constructors DEF M037, Script
LEMMA Up38 == Builds(38, M038.up)
  BY Made38, UpOfOne, Constructors DEF M038, Script
LEMMA Up39 == Builds(39, M039.up)
  BY Made39, UpOfOne, Constructors DEF M039, Script
LEMMA Up40 == Builds(40, M040.up)
  BY Made40, UpOfOne, Constructors DEF M040, Script

LEMMA Down01 == Unbuilds(1, M001.down)
  BY Made01, DownOfSix, Constructors DEF M001, Script
LEMMA Down02 == Unbuilds(2, M002.down)
  BY Made02, DownOfOne, Constructors DEF M002, Script
LEMMA Down03 == Unbuilds(3, M003.down)
  BY Made03, DownOfOne, Constructors DEF M003, Script
LEMMA Down04 == Unbuilds(4, M004.down)
  BY Made04, DownOfOne, Constructors DEF M004, Script
LEMMA Down05 == Unbuilds(5, M005.down)
  BY Made05, DownOfNone, Constructors DEF M005, Script
LEMMA Down06 == Unbuilds(6, M006.down)
  BY Made06, DownOfOne, Constructors DEF M006, Script
LEMMA Down07 == Unbuilds(7, M007.down)
  BY Made07, DownOfOne, Constructors DEF M007, Script
LEMMA Down08 == Unbuilds(8, M008.down)
  BY Made08, DownOfOne, Constructors DEF M008, Script
LEMMA Down09 == Unbuilds(9, M009.down)
  BY Made09, DownOfOne, Constructors DEF M009, Script
LEMMA Down10 == Unbuilds(10, M010.down)
  BY Made10, DownOfOne, Constructors DEF M010, Script
LEMMA Down11 == Unbuilds(11, M011.down)
  BY Made11, DownOfThree, Constructors DEF M011, Script
LEMMA Down12 == Unbuilds(12, M012.down)
  BY Made12, DownOfOne, Constructors DEF M012, Script
LEMMA Down13 == Unbuilds(13, M013.down)
  BY Made13, DownOfOne, Constructors DEF M013, Script
LEMMA Down14 == Unbuilds(14, M014.down)
  BY Made14, DownOfOne, Constructors DEF M014, Script
LEMMA Down15 == Unbuilds(15, M015.down)
  BY Made15, DownOfOne, Constructors DEF M015, Script
LEMMA Down16 == Unbuilds(16, M016.down)
  BY Made16, DownOfNone, Constructors DEF M016, Script
LEMMA Down17 == Unbuilds(17, M017.down)
  BY Made17, DownOfNone, Constructors DEF M017, Script
LEMMA Down18 == Unbuilds(18, M018.down)
  BY Made18, DownOfOne, Constructors DEF M018, Script
LEMMA Down19 == Unbuilds(19, M019.down)
  BY Made19, DownOfOne, Constructors DEF M019, Script
LEMMA Down20 == Unbuilds(20, M020.down)
  BY Made20, DownOfOne, Constructors DEF M020, Script
LEMMA Down21 == Unbuilds(21, M021.down)
  BY Made21, DownOfNone, Constructors DEF M021, Script
LEMMA Down22 == Unbuilds(22, M022.down)
  BY Made22, DownOfOne, Constructors DEF M022, Script
LEMMA Down23 == Unbuilds(23, M023.down)
  BY Made23, DownOfOne, Constructors DEF M023, Script
LEMMA Down24 == Unbuilds(24, M024.down)
  BY Unmade24, DownOfSix, Constructors DEF M024, Script
LEMMA Down25 == Unbuilds(25, M025.down)
  BY Made25, DownOfOne, Constructors DEF M025, Script
LEMMA Down26 == Unbuilds(26, M026.down)
  BY Made26, DownOfOne, Constructors DEF M026, Script
LEMMA Down27 == Unbuilds(27, M027.down)
  BY Made27, DownOfOne, Constructors DEF M027, Script
LEMMA Down28 == Unbuilds(28, M028.down)
  BY Made28, DownOfOne, Constructors DEF M028, Script
LEMMA Down29 == Unbuilds(29, M029.down)
  BY Made29, DownOfOne, Constructors DEF M029, Script
LEMMA Down30 == Unbuilds(30, M030.down)
  BY Made30, DownOfOne, Constructors DEF M030, Script
LEMMA Down33 == Unbuilds(33, M033.down)
  BY Unmade33, DownOfFour, Constructors DEF M033, Script
LEMMA Down34 == Unbuilds(34, M034.down)
  BY Made34, DownOfTwo, Constructors DEF M034, Script
LEMMA Down35 == Unbuilds(35, M035.down)
  BY Made35, DownOfOne, Constructors DEF M035, Script
LEMMA Down36 == Unbuilds(36, M036.down)
  BY Made36, DownOfOne, Constructors DEF M036, Script
LEMMA Down37 == Unbuilds(37, M037.down)
  BY Made37, DownOfOne, Constructors DEF M037, Script
LEMMA Down38 == Unbuilds(38, M038.down)
  BY Made38, DownOfOne, Constructors DEF M038, Script
LEMMA Down39 == Unbuilds(39, M039.down)
  BY Made39, DownOfNone, Constructors DEF M039, Script
LEMMA Down40 == Unbuilds(40, M040.down)
  BY Made40, DownOfOne, Constructors DEF M040, Script
LEMMA Down41 == Unbuilds(41, M041.down)
  BY Made41, DownOfOne, Constructors DEF M041, Script

----------------------------------------------------------------------------
(* The migrations. *)

\* All 41 scripts are as described, and their reversals.
LEMMA AllBuilt ==
    /\ Len(AllMigrations) = 41
    /\ \A n \in 1..41 : Builds(n, AllMigrations[n].up) /\ Unbuilds(n, AllMigrations[n].down)
  <1>1. Len(AllMigrations) = 41
    BY DEF AllMigrations
  <1>2. /\ AllMigrations[1] = M001
        /\ AllMigrations[2] = M002
        /\ AllMigrations[3] = M003
        /\ AllMigrations[4] = M004
        /\ AllMigrations[5] = M005
        /\ AllMigrations[6] = M006
        /\ AllMigrations[7] = M007
    BY DEF AllMigrations
  <1>3. /\ AllMigrations[8] = M008
        /\ AllMigrations[9] = M009
        /\ AllMigrations[10] = M010
        /\ AllMigrations[11] = M011
        /\ AllMigrations[12] = M012
        /\ AllMigrations[13] = M013
        /\ AllMigrations[14] = M014
    BY DEF AllMigrations
  <1>4. /\ AllMigrations[15] = M015
        /\ AllMigrations[16] = M016
        /\ AllMigrations[17] = M017
        /\ AllMigrations[18] = M018
        /\ AllMigrations[19] = M019
        /\ AllMigrations[20] = M020
        /\ AllMigrations[21] = M021
    BY DEF AllMigrations
  <1>5. /\ AllMigrations[22] = M022
        /\ AllMigrations[23] = M023
        /\ AllMigrations[24] = M024
        /\ AllMigrations[25] = M025
        /\ AllMigrations[26] = M026
        /\ AllMigrations[27] = M027
        /\ AllMigrations[28] = M028
    BY DEF AllMigrations
  <1>6. /\ AllMigrations[29] = M029
        /\ AllMigrations[30] = M030
        /\ AllMigrations[31] = M031
        /\ AllMigrations[32] = M032
        /\ AllMigrations[33] = M033
        /\ AllMigrations[34] = M034
        /\ AllMigrations[35] = M035
    BY DEF AllMigrations
  <1>7. /\ AllMigrations[36] = M036
        /\ AllMigrations[37] = M037
        /\ AllMigrations[38] = M038
        /\ AllMigrations[39] = M039
        /\ AllMigrations[40] = M040
        /\ AllMigrations[41] = M041
    BY DEF AllMigrations
  <1>8. ASSUME NEW n \in 1..7
        PROVE  Builds(n, AllMigrations[n].up) /\ Unbuilds(n, AllMigrations[n].down)
    BY <1>2, Up01, Down01, Up02, Down02, Up03, Down03, Up04, Down04,
       Up05, Down05, Up06, Down06, Up07, Down07
  <1>9. ASSUME NEW n \in 8..14
        PROVE  Builds(n, AllMigrations[n].up) /\ Unbuilds(n, AllMigrations[n].down)
    BY <1>3, Up08, Down08, Up09, Down09, Up10, Down10, Up11, Down11,
       Up12, Down12, Up13, Down13, Up14, Down14
  <1>10. ASSUME NEW n \in 15..21
        PROVE  Builds(n, AllMigrations[n].up) /\ Unbuilds(n, AllMigrations[n].down)
    BY <1>4, Up15, Down15, Up16, Down16, Up17, Down17, Up18, Down18,
       Up19, Down19, Up20, Down20, Up21, Down21
  <1>11. ASSUME NEW n \in 22..28
        PROVE  Builds(n, AllMigrations[n].up) /\ Unbuilds(n, AllMigrations[n].down)
    BY <1>5, Up22, Down22, Up23, Down23, Up24, Down24, Up25, Down25,
       Up26, Down26, Up27, Down27, Up28, Down28
  <1>12. ASSUME NEW n \in 29..35
        PROVE  Builds(n, AllMigrations[n].up) /\ Unbuilds(n, AllMigrations[n].down)
    BY <1>6, Up29, Down29, Up30, Down30, Up31, Down31, Up32, Down32,
       Up33, Down33, Up34, Down34, Up35, Down35
  <1>13. ASSUME NEW n \in 36..41
        PROVE  Builds(n, AllMigrations[n].up) /\ Unbuilds(n, AllMigrations[n].down)
    BY <1>7, Up36, Down36, Up37, Down37, Up38, Down38, Up39, Down39,
       Up40, Down40, Up41, Down41
  <1> QED
    BY <1>1, <1>8, <1>9, <1>10, <1>11, <1>12, <1>13

\* The database is what the first n migrations make, but for columns that a
\* rollback left.
Described(d, n) == \A t :
    /\ t \in d.tables <=> Born(t) <= n
    /\ ParentsIn(d, t) = ParentsAt(t, n)
    /\ NamesAt(t, n) \subseteq NamesIn(d, t)
Exactly(d, n) == \A t : NamesIn(d, t) = NamesAt(t, n)

LEMMA Monotone ==
    ASSUME NEW s, IsStatement(s), Shapes(s), NEW m, NEW n, m \subseteq n
    PROVE  NamesAfter(m, s) \subseteq NamesAfter(n, s)
  BY DEF NamesAfter, IsStatement, Ops, Shapes

LEMMA UpDescribed ==
    ASSUME NEW n \in 1..41, NEW d, Described(d, n - 1),
           NEW e, Done(e, d, AllMigrations[n].up, Len(AllMigrations[n].up))
    PROVE  Described(e, n) /\ (Exactly(d, n - 1) => Exactly(e, n))
  <1> DEFINE s == AllMigrations[n].up
  <1>1. Builds(n, s) /\ Done(e, d, s, Len(s))
    BY AllBuilt
  <1> HIDE DEF s
  <1>2. ASSUME NEW t
        PROVE  /\ t \in e.tables <=> Born(t) <= n
               /\ ParentsIn(e, t) = ParentsAt(t, n)
               /\ NamesAt(t, n) \subseteq NamesIn(e, t)
               /\ Exactly(d, n - 1) => NamesIn(e, t) = NamesAt(t, n)
    <2>1. CASE t \in Touched(s)
      <3>1. PICK k \in 1..Len(s) : Shapes(s[k]) /\ s[k].table = t
        BY <2>1 DEF Touched
      <3>2. Reshaped(e, d, s[k]) /\ IsUpward(n, s[k])
        BY <1>1, <3>1 DEF Done, Builds
      <3>3. Makes(n, s[k].table, s[k]) /\ IsStatement(s[k])
        BY <3>1, <3>2 DEF IsUpward, Upward
      <3>4. NamesAfter(NamesAt(t, n - 1), s[k]) \subseteq NamesAfter(NamesIn(d, t), s[k])
        BY <3>1, <3>3, Monotone DEF Described
      <3>5. NamesIn(e, t) = NamesAfter(NamesIn(d, t), s[k])
        BY <3>1, <3>2 DEF Reshaped
      <3>6. t \in e.tables <=> Born(t) <= n
        BY <3>1, <3>2, <3>3 DEF Reshaped, Makes, Described
      <3>7. ParentsIn(e, t) = ParentsAt(t, n)
        BY <3>1, <3>2, <3>3 DEF Reshaped, Makes, Described
      <3>8. NamesAt(t, n) = NamesAfter(NamesAt(t, n - 1), s[k])
        BY <3>1, <3>3 DEF Makes
      <3> QED
        BY <3>4, <3>5, <3>6, <3>7, <3>8 DEF Exactly
    <2>2. CASE t \notin Touched(s)
      <3>1. Same(e, d, t)
        BY <1>1, <2>2 DEF Done, Touched
      <3>2. /\ Born(t) <= n <=> Born(t) <= n - 1
            /\ ParentsAt(t, n) = ParentsAt(t, n - 1) /\ NamesAt(t, n) = NamesAt(t, n - 1)
        BY <1>1, <2>2 DEF Builds, Keeps
      <3> QED
        BY <3>1, <3>2 DEF Same, Described, Exactly
    <2> QED
      BY <2>1, <2>2
  <1> QED
    BY <1>2 DEF Described, Exactly

LEMMA DownDescribed ==
    ASSUME NEW n \in 1..41, NEW d, Described(d, n),
           NEW e, Done(e, d, AllMigrations[n].down, Len(AllMigrations[n].down))
    PROVE  Described(e, n - 1)
  <1> DEFINE s == AllMigrations[n].down
  <1>1. Unbuilds(n, s) /\ Done(e, d, s, Len(s))
    BY AllBuilt
  <1> HIDE DEF s
  <1>2. ASSUME NEW t
        PROVE  /\ t \in e.tables <=> Born(t) <= n - 1
               /\ ParentsIn(e, t) = ParentsAt(t, n - 1)
               /\ NamesAt(t, n - 1) \subseteq NamesIn(e, t)
    <2>1. CASE t \in Touched(s)
      <3>1. PICK k \in 1..Len(s) : Shapes(s[k]) /\ s[k].table = t
        BY <2>1 DEF Touched
      <3>2. Reshaped(e, d, s[k]) /\ IsDownward(n, s[k])
        BY <1>1, <3>1 DEF Done, Unbuilds
      <3>3. Unmakes(n, s[k].table, s[k]) /\ IsStatement(s[k])
        BY <3>1, <3>2 DEF IsDownward, Downward
      <3>4. NamesAfter(NamesAt(t, n), s[k]) \subseteq NamesAfter(NamesIn(d, t), s[k])
        BY <3>1, <3>3, Monotone DEF Described
      <3>5. NamesIn(e, t) = NamesAfter(NamesIn(d, t), s[k])
        BY <3>1, <3>2 DEF Reshaped
      <3>6. t \in e.tables <=> Born(t) <= n - 1
        BY <3>1, <3>2, <3>3 DEF Reshaped, Unmakes, Described
      <3>7. ParentsIn(e, t) = ParentsAt(t, n - 1)
        BY <3>1, <3>2, <3>3 DEF Reshaped, Unmakes, Described
      <3>8. NamesAt(t, n - 1) \subseteq NamesAfter(NamesAt(t, n), s[k])
        BY <3>1, <3>3 DEF Unmakes
      <3> QED
        BY <3>4, <3>5, <3>6, <3>7, <3>8
    <2>2. CASE t \notin Touched(s)
      <3>1. Same(e, d, t)
        BY <1>1, <2>2 DEF Done, Touched
      <3>2. /\ Born(t) <= n <=> Born(t) <= n - 1
            /\ ParentsAt(t, n) = ParentsAt(t, n - 1) /\ NamesAt(t, n - 1) \subseteq NamesAt(t, n)
        BY <1>1, <2>2 DEF Unbuilds, Leaves
      <3> QED
        BY <3>1, <3>2 DEF Same, Described
    <2> QED
      BY <2>1, <2>2
  <1> QED
    BY <1>2 DEF Described

\* A database that the first n migrations made, and others have used since.
AsMade(d, n) == IsDatabase(d) /\ KindsTold(d) /\ d.ok /\ Described(d, n)

LEMMA UpMade ==
    ASSUME NEW n \in 1..41, NEW d, AsMade(d, n - 1), Run(d, AllMigrations[n].up).ok
    PROVE  AsMade(Run(d, AllMigrations[n].up), n)
  <1> DEFINE s == AllMigrations[n].up
  <1>1. IsScript(s)
    BY AllBuilt DEF Builds
  <1>2. Done(Run(d, s), d, s, Len(s))
    BY <1>1, RunDone DEF AsMade
  <1> QED
    BY <1>2, UpDescribed DEF AsMade, Done

LEMMA DownMade ==
    ASSUME NEW n \in 1..41, NEW d, AsMade(d, n), Run(d, AllMigrations[n].down).ok
    PROVE  AsMade(Run(d, AllMigrations[n].down), n - 1)
  <1> DEFINE s == AllMigrations[n].down
  <1>1. IsScript(s)
    BY AllBuilt DEF Unbuilds
  <1>2. Done(Run(d, s), d, s, Len(s))
    BY <1>1, RunDone DEF AsMade
  <1> QED
    BY <1>2, DownDescribed DEF AsMade, Done

\* The schemas, one migration at a time.
Replays(g, n) ==
    /\ g = [k \in 0..n |-> g[k]]
    /\ \A k \in 0..n : g[k] = IF k = 0 THEN Empty ELSE Run(g[k - 1], AllMigrations[k].up)

\* SchemaOf is a recursive function too.
LEMMA SchemasExist ==
    ASSUME NEW n \in Nat
    PROVE  \E g : Replays(g, n)
  <1> DEFINE T == {m \in 0..n : \E g : Replays(g, m)}
  <1>1. 0 \in T
    <2>1. Replays([k \in 0..0 |-> Empty], 0)
      BY DEF Replays
    <2> QED
      BY <2>1
  <1>2. ASSUME NEW m \in 0..n, m \in T, m < n
        PROVE  m + 1 \in T
    <2>1. PICK g : Replays(g, m)
      BY <1>2
    <2> DEFINE e == Run(g[m], AllMigrations[m + 1].up)
               h == [i \in 0..(m + 1) |-> IF i = m + 1 THEN e ELSE g[i]]
    <2>2. ASSUME NEW i \in 0..(m + 1)
          PROVE  h[i] = IF i = 0 THEN Empty ELSE Run(h[i - 1], AllMigrations[i].up)
      <3>1. CASE i = m + 1
        <4>1. h[i] = e /\ h[i - 1] = g[m] /\ i # 0
          BY <3>1
        <4> QED
          BY <4>1, <3>1
      <3>2. CASE i # m + 1 /\ i # 0
        <4>1. h[i] = g[i] /\ h[i - 1] = g[i - 1] /\ i \in 0..m
          BY <3>2
        <4> QED
          BY <4>1, <3>2, <2>1 DEF Replays
      <3>3. CASE i # m + 1 /\ i = 0
        <4>1. h[i] = g[i] /\ i \in 0..m
          BY <3>3
        <4> QED
          BY <4>1, <3>3, <2>1 DEF Replays
      <3> QED
        BY <3>1, <3>2, <3>3
    <2>3. h = [k \in 0..(m + 1) |-> h[k]]
      OBVIOUS
    <2> HIDE DEF h
    <2>4. Replays(h, m + 1)
      BY <2>2, <2>3 DEF Replays
    <2> QED
      BY <1>2, <2>4
  <1> HIDE DEF T
  <1>3. n \in T
    BY <1>1, <1>2, UpTo
  <1> QED
    BY <1>3 DEF T

LEMMA SchemaOfIs == \A n \in 0..41 : SchemaOf[n] =
    IF n = 0 THEN Empty ELSE Run(SchemaOf[n - 1], AllMigrations[n].up)
  <1> DEFINE Is(g) == g = [n \in 0..Len(AllMigrations) |->
                        IF n = 0 THEN Empty ELSE Run(g[n - 1], AllMigrations[n].up)]
             f == CHOOSE g : Is(g)
  <1>1. Len(AllMigrations) = 41
    BY AllBuilt
  <1>2. PICK g : Replays(g, 41)
    BY SchemasExist
  <1>3. Is(g)
    BY <1>1, <1>2 DEF Replays
  <1>4. Is(f)
    BY <1>3
  <1>5. SchemaOf = f
    BY DEF SchemaOf
  <1> HIDE DEF f
  <1>6. \A n \in 0..41 : f[n] = IF n = 0 THEN Empty ELSE Run(f[n - 1], AllMigrations[n].up)
    BY <1>1, <1>4
  <1> QED
    BY <1>5, <1>6

LEMMA EmptyMade == AsMade(Empty, 0) /\ Exactly(Empty, 0)
  <1>1. /\ Empty.tables = {} /\ Empty.columns = {} /\ Empty.refs = {} /\ Empty.rows = {}
        /\ Empty.ok /\ IsDatabase(Empty)
    BY DEF Empty, IsDatabase
  <1>2. \A t : ParentsIn(Empty, t) = {} /\ NamesIn(Empty, t) = {}
    BY <1>1 DEF ParentsIn, NamesIn, RefsIn, ColumnsIn
  <1>3. \A t : ~(Born(t) <= 0)
    BY DEF Born
  <1>4. \A t : ParentsAt(t, 0) = {} /\ NamesAt(t, 0) = {}
    <2>1. \A t : ~(0 >= Born(t))
      BY DEF Born
    <2> QED
      BY <2>1 DEF ParentsAt, NamesAt, FromOn
  <1>5. KindsTold(Empty)
    BY <1>1, <1>2 DEF KindsTold
  <1> QED
    BY <1>1, <1>2, <1>3, <1>4, <1>5 DEF AsMade, Described, Exactly

LEMMA SchemaMade ==
    \A n \in 0..41 : AsMade(SchemaOf[n], n) /\ Exactly(SchemaOf[n], n)
  <1> DEFINE T == {n \in 0..41 : /\ AsMade(SchemaOf[n], n) /\ Exactly(SchemaOf[n], n)
                                 /\ n < 41 => SchemaOf[n].rows = {}}
  <1>1. 0 \in T
    <2>1. SchemaOf[0] = Empty
      BY SchemaOfIs
    <2>2. Empty.rows = {}
      BY DEF Empty
    <2> QED
      BY <2>1, <2>2, EmptyMade
  <1>2. ASSUME NEW m \in 0..41, m \in T, m < 41
        PROVE  m + 1 \in T
    <2> DEFINE d == SchemaOf[m]
               n == m + 1
               s == AllMigrations[n].up
               e == Run(d, s)
    <2>1. n \in 1..41 /\ n - 1 = m /\ SchemaOf[n] = e
      BY <1>2, SchemaOfIs
    <2>2. Builds(n, s)
      BY <2>1, AllBuilt
    <2>3. AsMade(d, n - 1) /\ Exactly(d, n - 1) /\ d.rows = {}
      BY <1>2, <2>1
    <2> HIDE DEF d, s, e, n
    <2>4. ASSUME NEW k \in 1..Len(s)
          PROVE  /\ s[k].op = "create" => s[k].table \notin d.tables
                 /\ s[k].op = "add" => s[k].names \cap NamesIn(d, s[k].table) = {}
                 /\ s[k].op = "seed" => k = Len(s) /\ n = 41
      <3>1. IsUpward(n, s[k]) /\ (s[k].op = "seed" => k = Len(s))
        BY <2>2 DEF Builds
      <3>2. s[k].op \in {"create", "add"} => Makes(n, s[k].table, s[k])
        BY <3>1 DEF IsUpward, Upward, Shapes
      <3> QED
        BY <2>3, <3>1, <3>2 DEF IsUpward, Upward, Makes, AsMade, Described, Exactly
    <2>5. IsScript(s) /\ Fits(d, s)
      BY <2>2, <2>4 DEF Builds, Fits
    <2>6. e.ok /\ Done(e, d, s, Len(s)) /\ ((\A k \in 1..Len(s) : s[k].op # "seed") => e.rows = {})
      BY <2>3, <2>5, RunFits DEF AsMade, e
    <2>7. Described(e, n) /\ Exactly(e, n)
      BY <2>1, <2>3, <2>6, UpDescribed DEF AsMade, s
    <2>8. AsMade(e, n)
      BY <2>6, <2>7 DEF AsMade, Done
    <2>9. n < 41 => e.rows = {}
      BY <2>1, <2>4, <2>6
    <2> QED
      BY <2>1, <2>7, <2>8, <2>9 DEF n
  <1> HIDE DEF T
  <1>3. ASSUME NEW n \in 0..41
        PROVE  n \in T
    <2>1. \A k \in 0..n : k \in T /\ k < n => k + 1 \in T
      BY <1>2
    <2> QED
      BY <1>1, <2>1, UpTo
  <1> QED
    BY <1>3 DEF T

LEMMA MadeIsComplete ==
    ASSUME NEW n \in 0..41, AsMade(db, n), applied = 1..n
    PROVE  SchemaComplete
  <1> DEFINE w == SchemaOf[n]
  <1>1. AsMade(w, n) /\ Exactly(w, n)
    BY SchemaMade
  <1>2. Cardinality(applied) = n
    <2>1. Cardinality(1..n) = IF 1 > n THEN 0 ELSE n - 1 + 1
      BY FS_Interval
    <2> QED
      BY <2>1
  <1> HIDE DEF w
  <1>3. db.tables = w.tables
    BY <1>1 DEF AsMade, Described
  <1>4. ASSUME NEW d, NEW e, AsMade(d, n), AsMade(e, n), NEW f \in d.refs
        PROVE  f \in e.refs
    <2>1. <<f.parent, f.action>> \in ParentsIn(d, f.table)
      BY DEF ParentsIn, RefsIn
    <2>2. <<f.parent, f.action>> \in ParentsIn(e, f.table)
      BY <1>4, <2>1 DEF AsMade, Described
    <2>3. PICK g \in e.refs : g.table = f.table /\ g.parent = f.parent /\ g.action = f.action
      BY <2>2 DEF ParentsIn, RefsIn
    <2> QED
      BY <1>4, <2>3 DEF AsMade, IsDatabase, IsKey
  <1>5. db.refs = w.refs
    <2>1. \A f \in db.refs : f \in w.refs
      BY <1>1, <1>4
    <2>2. \A f \in w.refs : f \in db.refs
      BY <1>1, <1>4
    <2> QED
      BY <2>1, <2>2
  <1>6. w.columns \subseteq db.columns
    <2> SUFFICES ASSUME NEW c \in w.columns
                 PROVE  c \in db.columns
      OBVIOUS
    <2>1. c[2] \in NamesIn(w, c[1])
      BY DEF NamesIn, ColumnsIn
    <2>2. c[2] \in NamesIn(db, c[1])
      BY <1>1, <2>1 DEF AsMade, Described, Exactly
    <2>3. PICK x \in db.columns : x[1] = c[1] /\ x[2] = c[2]
      BY <2>2 DEF NamesIn, ColumnsIn
    <2>4. x = c
      BY <1>1, <2>3 DEF AsMade, IsDatabase, IsPair
    <2> QED
      BY <2>3, <2>4
  <1> QED
    BY <1>2, <1>3, <1>5, <1>6 DEF SchemaComplete, w

----------------------------------------------------------------------------
(* The invariant. *)

\* The applied migrations are the first n; what is left to apply follows
\* them, what is left to roll back ends with the last of them.
MigrationInvAt(n) ==
    /\ applied = 1..n /\ AsMade(db, n)
    /\ process.kind = "migrate" => \E m \in 0..41 : process.todo = (n + 1)..m
    /\ process.kind = "rollback" => \E m \in 1..42 : process.todo = m..n
MigrationInv ==
    /\ process = [kind |-> process.kind, todo |-> process.todo]
    /\ process.kind \in {"idle", "migrate", "serve", "rollback"}
    /\ process.kind \in {"idle", "serve"} => process.todo = {}
    /\ \E n \in 0..41 : MigrationInvAt(n)

LEMMA IdsAre == Ids = 1..41
  BY AllBuilt DEF Ids

LEMMA LeastIs ==
    ASSUME NEW a \in Int, NEW b \in Int, a..b # {}
    PROVE  /\ Min(a..b) = a /\ Max(a..b) = b /\ a <= b
           /\ (a..b) \ {a} = (a + 1)..b /\ (a..b) \ {b} = a..(b - 1)
  <1>1. a <= b /\ a \in a..b /\ b \in a..b
    OBVIOUS
  <1>2. \A x \in a..b : (\A y \in a..b : x <= y) => x = a
    BY <1>1
  <1>3. \A y \in a..b : a <= y
    OBVIOUS
  <1>4. Min(a..b) = a
    BY <1>1, <1>2, <1>3 DEF Min
  <1>5. \A x \in a..b : (\A y \in a..b : x >= y) => x = b
    BY <1>1
  <1>6. \A y \in a..b : b >= y
    OBVIOUS
  <1>7. Max(a..b) = b
    BY <1>1, <1>5, <1>6 DEF Max
  <1> QED
    BY <1>1, <1>4, <1>7

LEMMA MigrationInvInit == MigrationInit => MigrationInv
  <1> SUFFICES ASSUME MigrationInit
               PROVE  MigrationInv
    OBVIOUS
  <1>1. process = Idle /\ applied = 1..0 /\ db = Empty
    BY DEF MigrationInit
  <1>2. process.kind = "idle" /\ process.todo = {} /\ process = [kind |-> "idle", todo |-> {}]
    BY <1>1 DEF Idle
  <1>3. MigrationInvAt(0)
    BY <1>1, <1>2, EmptyMade DEF MigrationInvAt
  <1> QED
    BY <1>2, <1>3 DEF MigrationInv

\* The next migration is the one after those applied.
LEMMA MigrateNextIs ==
    ASSUME MigrationInv, MigrateNext, NEW n \in 0..41, MigrationInvAt(n)
    PROVE  /\ n + 1 \in 1..41
           /\ LET after == Run(db, AllMigrations[n + 1].up)
              IN  IF after.ok
                  THEN /\ db' = after /\ applied' = applied \cup {n + 1}
                       /\ process' = [process EXCEPT !.todo = @ \ {n + 1}]
                  ELSE process' = Idle /\ UNCHANGED <<db, applied>>
  <1>1. PICK m \in 0..41 : process.todo = (n + 1)..m
    BY DEF MigrateNext, MigrationInvAt
  <1>2. Min(process.todo) = n + 1 /\ n + 1 <= m
    <2>1. process.todo # {}
      BY DEF MigrateNext
    <2>2. (n + 1)..m # {}
      BY <1>1, <2>1
    <2>3. n + 1 \in Int /\ m \in Int
      OBVIOUS
    <2> QED
      BY <1>1, <2>2, <2>3, LeastIs
  <1> QED
    BY <1>2 DEF MigrateNext

LEMMA MigrateNextInv ==
    ASSUME MigrationInv, MigrateNext
    PROVE  MigrationInv'
  <1>1. PICK n \in 0..41 : MigrationInvAt(n)
    BY DEF MigrationInv
  <1> DEFINE after == Run(db, AllMigrations[n + 1].up)
  <1>2. n + 1 \in 1..41 /\ (n + 1) - 1 = n
    BY <1>1, MigrateNextIs
  <1>3. CASE after.ok
    <2>1. /\ db' = after /\ applied' = applied \cup {n + 1}
          /\ process' = [process EXCEPT !.todo = @ \ {n + 1}]
      BY <1>1, <1>3, MigrateNextIs
    <2>2. AsMade(db', n + 1)
      BY <1>1, <1>2, <1>3, <2>1, UpMade DEF MigrationInvAt
    <2>3. applied' = 1..(n + 1)
      <3>1. applied = 1..n
        BY <1>1 DEF MigrationInvAt
      <3>2. (1..n) \cup {n + 1} = 1..(n + 1)
        OBVIOUS
      <3> QED
        BY <2>1, <3>1, <3>2
    <2>4. PICK m \in 0..41 : process.todo = (n + 1)..m
      BY <1>1 DEF MigrateNext, MigrationInvAt
    <2>5. process' = [kind |-> "migrate", todo |-> process.todo \ {n + 1}]
      BY <2>1 DEF MigrationInv, MigrateNext
    <2>6. process'.kind = "migrate" /\ process'.todo = (n + 2)..m /\ (n + 1) + 1 = n + 2
      <3>1. (n + 1)..m \ {n + 1} = (n + 2)..m
        OBVIOUS
      <3> QED
        BY <2>4, <2>5, <3>1
    <2>7. MigrationInvAt(n + 1)'
      BY <2>2, <2>3, <2>6 DEF MigrationInvAt
    <2> QED
      BY <1>2, <2>5, <2>7 DEF MigrationInv
  <1>4. CASE ~after.ok
    <2>1. process' = [kind |-> "idle", todo |-> {}] /\ UNCHANGED <<db, applied>>
      BY <1>1, <1>4, MigrateNextIs DEF Idle
    <2>2. MigrationInvAt(n)'
      BY <1>1, <2>1 DEF MigrationInvAt
    <2> QED
      BY <2>1, <2>2 DEF MigrationInv
  <1> QED
    BY <1>3, <1>4

LEMMA RollbackNextInv ==
    ASSUME MigrationInv, RollbackNext
    PROVE  MigrationInv'
  <1>1. PICK n \in 0..41 : MigrationInvAt(n)
    BY DEF MigrationInv
  <1>2. process.kind = "rollback" /\ process.todo # {}
    BY DEF RollbackNext
  <1>3. PICK m \in 1..42 : process.todo = m..n
    BY <1>1, <1>2 DEF MigrationInvAt
  <1>4. Max(process.todo) = n /\ m <= n /\ n \in 1..41 /\ (m..n) \ {n} = m..(n - 1)
    <2>1. m..n # {} /\ m \in Int /\ n \in Int
      BY <1>2, <1>3
    <2> QED
      BY <1>3, <2>1, LeastIs
  <1> DEFINE after == Run(db, AllMigrations[n].down)
  <1>5. IF after.ok
        THEN /\ db' = after /\ applied' = applied \ {n}
             /\ process' = [process EXCEPT !.todo = @ \ {n}]
        ELSE process' = Idle /\ UNCHANGED <<db, applied>>
    BY <1>4 DEF RollbackNext
  <1>6. CASE after.ok
    <2>1. AsMade(db', n - 1)
      <3>1. AsMade(db, n)
        BY <1>1 DEF MigrationInvAt
      <3>2. AsMade(after, n - 1)
        BY <1>4, <1>6, <3>1, DownMade
      <3> HIDE DEF after
      <3> QED
        BY <1>5, <1>6, <3>2
    <2>2. applied' = 1..(n - 1)
      <3>1. applied = 1..n
        BY <1>1 DEF MigrationInvAt
      <3>2. (1..n) \ {n} = 1..(n - 1)
        BY <1>4
      <3> QED
        BY <1>5, <1>6, <3>1, <3>2
    <2>3. process' = [kind |-> "rollback", todo |-> process.todo \ {n}]
      BY <1>2, <1>5, <1>6 DEF MigrationInv
    <2>4. process'.kind = "rollback" /\ process'.todo = m..(n - 1)
      BY <1>3, <1>4, <2>3
    <2>5. MigrationInvAt(n - 1)'
      BY <2>1, <2>2, <2>4 DEF MigrationInvAt
    <2> QED
      BY <1>4, <2>3, <2>5 DEF MigrationInv
  <1>7. CASE ~after.ok
    <2>1. process' = [kind |-> "idle", todo |-> {}] /\ UNCHANGED <<db, applied>>
      BY <1>5, <1>7 DEF Idle
    <2>2. MigrationInvAt(n)'
      BY <1>1, <2>1 DEF MigrationInvAt
    <2> QED
      BY <2>1, <2>2 DEF MigrationInv
  <1> QED
    BY <1>6, <1>7

\* The rows change, and nothing else.
LEMMA RowsInv ==
    ASSUME MigrationInv, UNCHANGED <<applied, process>>, IsDatabase(db'), db'.ok,
           db'.tables = db.tables, db'.columns = db.columns, db'.refs = db.refs,
           \A r \in db'.rows : \/ r \in db.rows
                               \/ /\ r.table \in db.tables
                                  /\ r.kind \in DOMAIN KindColumn =>
                                        KindColumn[r.kind] \in NamesIn(db, r.table)
    PROVE  MigrationInv'
  <1>1. PICK n \in 0..41 : MigrationInvAt(n)
    BY DEF MigrationInv
  <1>2. \A t : Same(db', db, t)
    BY SameWhen
  <1>3. KindsTold(db')
    BY <1>1, <1>2 DEF MigrationInvAt, AsMade, KindsTold, Same
  <1>4. Described(db', n)
    BY <1>1, <1>2 DEF MigrationInvAt, AsMade, Described, Same
  <1>5. MigrationInvAt(n)'
    BY <1>1, <1>3, <1>4 DEF MigrationInvAt, AsMade
  <1> QED
    BY <1>5 DEF MigrationInv

LEMMA StoreInv ==
    ASSUME MigrationInv, NEW b \in Bundles, Store(b)
    PROVE  MigrationInv'
  <1>1. IsDatabase(db) /\ db.ok
    BY DEF MigrationInv, MigrationInvAt, AsMade
  <1> DEFINE new == {r \in b : HasPlace(r)}
  <1>2. db' = [db EXCEPT !.rows = @ \cup new] /\ UNCHANGED <<applied, process>>
    BY DEF Store
  <1>3. \A r \in new : IsRow(r)
    BY MigrationConstants DEF IsRow
  <1>4. \A r \in new : /\ r.table \in db.tables
                       /\ r.kind \in DOMAIN KindColumn => KindColumn[r.kind] \in NamesIn(db, r.table)
    <2> SUFFICES ASSUME NEW r \in new
                 PROVE  /\ r.table \in db.tables
                        /\ r.kind \in DOMAIN KindColumn => KindColumn[r.kind] \in NamesIn(db, r.table)
      OBVIOUS
    <2>1. ASSUME r.kind \in DOMAIN KindColumn
          PROVE  KindColumn[r.kind] \in NamesIn(db, r.table)
      <3> DEFINE c == <<r.table, KindColumn[r.kind]>>
      <3>1. c \in db.columns /\ c[1] = r.table /\ c[2] = KindColumn[r.kind]
        BY <2>1 DEF HasPlace
      <3> QED
        BY <3>1 DEF NamesIn, ColumnsIn
    <2> QED
      BY <2>1 DEF HasPlace
  <1> HIDE DEF new
  <1>5. /\ IsDatabase(db') /\ db'.ok /\ db'.rows = db.rows \cup new
        /\ db'.tables = db.tables /\ db'.columns = db.columns /\ db'.refs = db.refs
    BY <1>1, <1>2, <1>3 DEF IsDatabase
  <1> QED
    BY <1>2, <1>4, <1>5, RowsInv

LEMMA ClearInv ==
    ASSUME MigrationInv, Clear
    PROVE  MigrationInv'
  <1>1. IsDatabase(db)
    BY DEF MigrationInv, MigrationInvAt, AsMade
  <1> DEFINE e == Run(db, ClearOrder)
  <1>2. db' = [e EXCEPT !.ok = TRUE] /\ UNCHANGED <<applied, process>>
    BY DEF Clear
  <1>3. Len(ClearOrder) \in Nat /\ \A k \in 1..Len(ClearOrder) : ClearOrder[k].op = "delete"
    BY DEF ClearOrder, DeleteAll, Delete
  <1>4. /\ IsDatabase(e) /\ e.rows \subseteq db.rows
        /\ e.tables = db.tables /\ e.columns = db.columns /\ e.refs = db.refs
    BY <1>1, <1>3, RunDeletes
  <1> HIDE DEF e
  <1>5. /\ IsDatabase(db') /\ db'.ok /\ db'.rows = e.rows
        /\ db'.tables = e.tables /\ db'.columns = e.columns /\ db'.refs = e.refs
    BY <1>2, <1>4 DEF IsDatabase
  <1> QED
    BY <1>2, <1>4, <1>5, RowsInv

\* Users and teams go with nothing, and only they are kept from going.
LEMMA ParentsOfTables ==
    ASSUME NEW n
    PROVE  /\ ParentsAt("users", n) = {} /\ ParentsAt("teams", n) = {}
           /\ \A t : \A p \in ParentsAt(t, n) :
                 p[2] \in {"restrict", "none"} => p[1] \in {"users", "teams"}
  BY DEF ParentsAt, FromOn, OfUser, OfTeam, TeamOwned, OfMember, OfService, OfDependency, OfLink,
         OfAlert, OfSync, OfFlag, OfMute, OfManifest

LEMMA ServicesCanGo ==
    ASSUME NEW n, NEW d, AsMade(d, n)
    PROVE  DeleteRows(d, RowsIn(d, "services")).ok
  <1> DEFINE gone == Cascade(d, RowsIn(d, "services"))
             Roots == {"users", "teams"}
             rest == {r \in d.rows : r.table \notin Roots}
  <1>1. \A r \in d.rows : \A f \in RefsOf(d, r) : <<f.parent, f.action>> \in ParentsAt(r.table, n)
    BY DEF AsMade, Described, ParentsIn, RefsIn, RefsOf
  <1>2. gone \subseteq rest
    <2>1. RowsIn(d, "services") \subseteq rest
      BY DEF RowsIn
    <2>2. \A r \in d.rows : Parents(d, r, {"cascade"}) \cap rest # {} => r \in rest
      BY <1>1, ParentsOfTables DEF Parents
    <2> QED
      BY <2>1, <2>2, CascadeStays
  <1>3. \A r \in d.rows : Parents(d, r, {"restrict", "none"}) \cap gone = {}
    <2> SUFFICES ASSUME NEW r \in d.rows, NEW q \in Parents(d, r, {"restrict", "none"}), q \in gone
                 PROVE  FALSE
      OBVIOUS
    <2>1. PICK f \in RefsOf(d, r) : f.action \in {"restrict", "none"} /\ q = [table |-> f.parent, kind |-> "plain"]
      BY DEF Parents
    <2>2. q.table \in Roots
      <3> DEFINE p == <<f.parent, f.action>>
      <3>1. p \in ParentsAt(r.table, n) /\ p[1] = f.parent /\ p[2] = f.action
        BY <1>1
      <3> QED
        BY <2>1, <3>1, ParentsOfTables
    <2> QED
      BY <1>2, <2>2
  <1> HIDE DEF gone
  <1>4. ~ \E r \in d.rows \ gone : Parents(d, r, {"restrict", "none"}) \cap gone # {}
    BY <1>3
  <1>5. d.ok /\ d = [tables |-> d.tables, columns |-> d.columns, refs |-> d.refs, rows |-> d.rows,
            ok |-> d.ok]
    BY DEF AsMade, IsDatabase
  <1> QED
    BY <1>4, <1>5 DEF DeleteRows, gone

LEMMA ClearServicesInv ==
    ASSUME MigrationInv, ClearServices
    PROVE  MigrationInv'
  <1>1. PICK n \in 0..41 : MigrationInvAt(n)
    BY DEF MigrationInv
  <1>2. AsMade(db, n)
    BY <1>1 DEF MigrationInvAt
  <1>3. db' = DeleteRows(db, RowsIn(db, "services")) /\ UNCHANGED <<applied, process>>
    BY DEF ClearServices
  <1>4. /\ IsDatabase(db') /\ db'.rows \subseteq db.rows
        /\ db'.tables = db.tables /\ db'.columns = db.columns /\ db'.refs = db.refs
    BY <1>2, <1>3, DeleteRowsIs DEF AsMade
  <1>5. db'.ok
    BY <1>2, <1>3, ServicesCanGo
  <1> QED
    BY <1>3, <1>4, <1>5, RowsInv

\* A process starts or ends: what is left to do follows from what is applied.
LEMMA ProcessInv ==
    ASSUME MigrationInv, UNCHANGED <<db, applied>>, NEW n \in 0..41, MigrationInvAt(n),
           NEW k \in {"idle", "migrate", "serve", "rollback"}, NEW todo,
           process' = [kind |-> k, todo |-> todo],
           k \in {"idle", "serve"} => todo = {},
           k = "migrate" => \E m \in 0..41 : todo = (n + 1)..m,
           k = "rollback" => \E m \in 1..42 : todo = m..n
    PROVE  MigrationInv'
  <1>1. process'.kind = k /\ process'.todo = todo
    OBVIOUS
  <1>2. MigrationInvAt(n)'
    BY <1>1 DEF MigrationInvAt
  <1> QED
    BY <1>1, <1>2 DEF MigrationInv

LEMMA StartInv ==
    ASSUME MigrationInv, NEW r \in Releases, Start(r)
    PROVE  MigrationInv'
  <1>1. PICK n \in 0..41 : MigrationInvAt(n)
    BY DEF MigrationInv
  <1>2. r \in 0..41
    BY MigrationConstants, IdsAre
  <1>3. Pending(r) = (n + 1)..r
    <2>1. applied = 1..n
      BY <1>1 DEF MigrationInvAt
    <2> QED
      BY <1>2, <2>1 DEF Pending
  <1>4. process' = [kind |-> "migrate", todo |-> Pending(r)] /\ UNCHANGED <<db, applied>>
    BY DEF Start, Idle
  <1> QED
    BY <1>1, <1>2, <1>3, <1>4, ProcessInv

LEMMA RollbackInv ==
    ASSUME MigrationInv, NEW t \in RollbackIds \cup {NoId}, Rollback(t)
    PROVE  MigrationInv'
  <1>1. PICK n \in 0..41 : MigrationInvAt(n)
    BY DEF MigrationInv
  <1>2. applied = 1..n
    BY <1>1 DEF MigrationInvAt
  <1>3. \E m \in 1..42 : ToRollBack(t) = m..n
    <2>1. CASE t = NoId
      <3>1. ToRollBack(t) = 1..n
        BY <1>2, <2>1 DEF ToRollBack
      <3> QED
        BY <3>1
    <2>2. CASE t # NoId
      <3>1. t \in 1..41
        BY <2>2, MigrationConstants, IdsAre
      <3>2. ToRollBack(t) = t..n
        BY <1>2, <2>2, <3>1 DEF ToRollBack
      <3> HIDE DEF ToRollBack
      <3>3. t \in 1..42
        BY <3>1
      <3> QED
        BY <3>2, <3>3
    <2> QED
      BY <2>1, <2>2
  <1>4. process' = [kind |-> "rollback", todo |-> ToRollBack(t)] /\ UNCHANGED <<db, applied>>
    BY DEF Rollback
  <1> QED
    BY <1>1, <1>3, <1>4, ProcessInv

LEMMA MigrationInvNext == MigrationInv /\ [MigrationNext]_migrationVars => MigrationInv'
  <1> SUFFICES ASSUME MigrationInv, [MigrationNext]_migrationVars
               PROVE  MigrationInv'
    OBVIOUS
  <1>1. CASE \E r \in Releases : Start(r)
    BY <1>1, StartInv
  <1>2. CASE MigrateNext
    BY <1>2, MigrateNextInv
  <1>3. CASE Ready \/ EndProcess
    <2>1. PICK n \in 0..41 : MigrationInvAt(n)
      BY DEF MigrationInv
    <2>2. CASE Ready
      <3>1. process' = [kind |-> "serve", todo |-> {}] /\ UNCHANGED <<db, applied>>
        BY <2>2 DEF Ready, Idle
      <3> QED
        BY <2>1, <3>1, ProcessInv
    <2>3. CASE EndProcess
      <3>1. process' = [kind |-> "idle", todo |-> {}] /\ UNCHANGED <<db, applied>>
        BY <2>3 DEF EndProcess, Idle
      <3> QED
        BY <2>1, <3>1, ProcessInv
    <2> QED
      BY <1>3, <2>2, <2>3
  <1>4. CASE \E b \in Bundles : Store(b)
    BY <1>4, StoreInv
  <1>5. CASE \E t \in RollbackIds \cup {NoId} : Rollback(t)
    BY <1>5, RollbackInv
  <1>6. CASE RollbackNext
    BY <1>6, RollbackNextInv
  <1>7. CASE Clear
    BY <1>7, ClearInv
  <1>8. CASE ClearServices
    BY <1>8, ClearServicesInv
  <1>9. CASE UNCHANGED migrationVars
    BY <1>9 DEF migrationVars, MigrationInv, MigrationInvAt
  <1> QED
    BY <1>1, <1>2, <1>3, <1>4, <1>5, <1>6, <1>7, <1>8, <1>9 DEF MigrationNext

\* What the invariant is for.
LEMMA MigrationInvImplies == MigrationInv => MigrationTypeOK /\ SchemaComplete
  <1> SUFFICES ASSUME MigrationInv
               PROVE  MigrationTypeOK /\ SchemaComplete
    OBVIOUS
  <1>1. PICK n \in 0..41 : MigrationInvAt(n)
    BY DEF MigrationInv
  <1>2. applied = 1..n /\ AsMade(db, n)
    BY <1>1 DEF MigrationInvAt
  <1>3. process.todo \subseteq Ids
    <2>1. CASE process.kind = "migrate"
      <3>1. PICK m \in 0..41 : process.todo = (n + 1)..m
        BY <1>1, <2>1 DEF MigrationInvAt
      <3>2. (n + 1)..m \subseteq 1..41
        OBVIOUS
      <3> QED
        BY <3>1, <3>2, IdsAre
    <2>2. CASE process.kind = "rollback"
      <3>1. PICK m \in 1..42 : process.todo = m..n
        BY <1>1, <2>2 DEF MigrationInvAt
      <3>2. m..n \subseteq 1..41
        OBVIOUS
      <3> QED
        BY <3>1, <3>2, IdsAre
    <2>3. CASE process.kind \in {"idle", "serve"}
      BY <2>3 DEF MigrationInv
    <2> QED
      BY <2>1, <2>2, <2>3 DEF MigrationInv
  <1>4. \A r \in db.rows : r.table \in db.tables /\ r.kind \in RowKinds
    BY <1>2 DEF AsMade, KindsTold, IsDatabase, IsRow
  <1>5. MigrationTypeOK
    <2>1. 1..n \subseteq 1..41
      OBVIOUS
    <2>2. applied \subseteq Ids
      BY <1>2, <2>1, IdsAre
    <2>3. process.kind \in {"idle", "migrate", "serve", "rollback"}
      BY DEF MigrationInv
    <2>4. db.ok
      BY <1>2 DEF AsMade
    <2> QED
      BY <1>3, <1>4, <2>2, <2>3, <2>4 DEF MigrationTypeOK
  <1> QED
    BY <1>2, <1>5, MadeIsComplete

\* The database is well formed whatever was migrated, killed half way or
\* rolled back: no row is left in a table that is not there, and what is
\* applied, or left to do, are migrations there are (db/migrate.ts).
THEOREM MigrationTypes == MigrationSpec => []MigrationTypeOK
  <1>1. MigrationInit => MigrationInv
    BY MigrationInvInit
  <1>2. MigrationInv /\ [MigrationNext]_migrationVars => MigrationInv'
    BY MigrationInvNext
  <1>3. MigrationInv => MigrationTypeOK
    BY MigrationInvImplies
  <1> QED
    BY <1>1, <1>2, <1>3, PTL DEF MigrationSpec

\* The applied migrations are the first ones and their schema is there, with
\* every table, foreign key and column, also after a rollback to any migration
\* and an upgrade of any release (runMigrations and rollbackTo in
\* db/migrate.ts, db/migrations).
THEOREM SchemaStays == MigrationSpec => []SchemaComplete
  <1>1. MigrationInit => MigrationInv
    BY MigrationInvInit
  <1>2. MigrationInv /\ [MigrationNext]_migrationVars => MigrationInv'
    BY MigrationInvNext
  <1>3. MigrationInv => SchemaComplete
    BY MigrationInvImplies
  <1> QED
    BY <1>1, <1>2, <1>3, PTL DEF MigrationSpec

\* A migration from 016 on is gentle: what it deletes or rebuilds is no parent
\* of any table, by ParentsAt, so that nothing goes with it.
LEMMA UpgradeStep ==
    ASSUME MigrationInv, [MigrationNext]_migrationVars
    PROVE  process.kind = "migrate" /\ 15 \in applied => db.rows \ db'.rows \subseteq Suggested
  <1> SUFFICES ASSUME process.kind = "migrate", 15 \in applied
               PROVE  db.rows \ db'.rows \subseteq Suggested
    OBVIOUS
  <1>1. CASE MigrateNext
    <2>1. PICK n \in 0..41 : MigrationInvAt(n)
      BY DEF MigrationInv
    <2>2. applied = 1..n /\ AsMade(db, n)
      BY <2>1 DEF MigrationInvAt
    <2> DEFINE m == n + 1
               s == AllMigrations[m].up
    <2>3. m \in 1..41 /\ m - 1 = n /\ m >= 16
      <3>1. n + 1 \in 1..41
        BY <1>1, <2>1, MigrateNextIs
      <3>2. 15 \in 1..n
        BY <2>2
      <3> QED
        BY <3>1, <3>2
    <2>4. CASE ~Run(db, s).ok
      <3>1. db' = db
        BY <1>1, <2>1, <2>4, MigrateNextIs
      <3> QED
        BY <3>1
    <2>5. CASE Run(db, s).ok
      <3>1. db' = Run(db, s)
        BY <1>1, <2>1, <2>5, MigrateNextIs
      <3>2. Builds(m, s)
        BY <2>3, AllBuilt
      <3> HIDE DEF s, m
      <3>3. ASSUME NEW k \in 1..Len(s)
            PROVE  /\ Gentle(s[k])
                   /\ s[k].op \in {"rebuild", "delete"} =>
                         /\ Childless(db, s[k].table)
                         /\ \A j \in 1..(k - 1) : s[j].op \in {"create", "add", "rebuild"} =>
                               \A p \in s[j].parents : p[1] # s[k].table
        <4>1. IsUpward(m, s[k])
          BY <3>2 DEF Builds
        <4>2. ASSUME s[k].op \in {"rebuild", "delete"}, NEW f \in db.refs
              PROVE  f.parent # s[k].table
          <5> DEFINE p == <<f.parent, f.action>>
          <5>1. p \in ParentsIn(db, f.table) /\ p[1] = f.parent
            BY DEF ParentsIn, RefsIn
          <5>2. p \in ParentsAt(f.table, m - 1)
            BY <2>2, <2>3, <5>1 DEF AsMade, Described
          <5> QED
            BY <2>3, <4>1, <4>2, <5>1, <5>2 DEF IsUpward, Upward, Unreferred
        <4>3. \A j \in 1..(k - 1) : j \in 1..Len(s) /\ j < k
          BY <3>2 DEF Builds, IsScript
        <4>4. Gentle(s[k])
          BY <2>3, <4>1 DEF IsUpward, Upward
        <4> QED
          BY <2>3, <3>2, <4>2, <4>3, <4>4 DEF Builds, Childless
      <3>4. IsScript(s) /\ IsGentle(db, s)
        BY <3>2, <3>3 DEF Builds, IsGentle
      <3> QED
        BY <2>2, <2>5, <3>1, <3>4, RunGentle DEF AsMade
    <2> QED
      BY <2>4, <2>5
  <1>2. CASE ~MigrateNext
    <2>1. db' = db
      BY <1>2 DEF MigrationNext, Start, Ready, EndProcess, Store, Rollback, RollbackNext, Clear,
                  ClearServices, migrationVars
    <2> QED
      BY <2>1
  <1> QED
    BY <1>1, <1>2

\* Once 015 is applied an upgrade deletes nothing but the suggested
\* associations, although foreign keys are on while it drops and renames the
\* tables it rebuilds (db/migrate.ts, migrations 016 to 041).
THEOREM UpgradesKeepRows == MigrationSpec => UpgradeKeepsRows
  <1>1. MigrationInit => MigrationInv
    BY MigrationInvInit
  <1>2. MigrationInv /\ [MigrationNext]_migrationVars => MigrationInv'
    BY MigrationInvNext
  <1>3. MigrationInv /\ [MigrationNext]_migrationVars =>
           [process.kind = "migrate" /\ 15 \in applied
            => db.rows \ db'.rows \subseteq {[table |-> "dependency_associations", kind |-> "suggested"]}
           ]_migrationVars
    BY UpgradeStep DEF Suggested
  <1> QED
    BY <1>1, <1>2, <1>3, PTL DEF MigrationSpec, UpgradeKeepsRows
=============================================================================

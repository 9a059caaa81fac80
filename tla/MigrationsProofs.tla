------------------------- MODULE MigrationsProofs -------------------------
(* Whatever commands run side by side, the schema is that of its version.  *)
(* That the revisions fit each other (ChainFits) is a fact about lists     *)
(* without parameters, which TLC computes; what commands make of revisions *)
(* that fit is proved here, for any releases and any number of steps.      *)
EXTENDS Migrations, TLAPS

\* The schema that the command's operations so far make of the schema of its base.
Reached(m) == Partway(cmd[m], at[m], done[m])

TypeInv ==
  /\ TypeOK
  /\ DOMAIN tx = Migrators
  /\ \A t \in Tables : "cols" \in DOMAIN tables[t]
  /\ \A m \in Migrators : \A t \in DOMAIN tx[m] : "cols" \in DOMAIN tx[m][t]

\* No command outlives its container.
NoneInside == app = "down" => \A m \in Migrators : cmd[m] = "none"

\* A command is between its base and its target, has touched nothing before its first
\* operation, and never begins a revision that it cannot end.
Placed(m) ==
  /\ cmd[m] = "none" => at[m] = base[m] /\ done[m] = 0
  /\ done[m] = 0 /\ at[m] = base[m] => DOMAIN tx[m] = {}
  /\ done[m] > 0 \/ at[m] # base[m] => Located(m)
  /\ done[m] > 0 => /\ at[m] # Target(m)
                    /\ done[m] <= Len(Operations(m))
                    /\ ~Unnamed(Operations(m))
  /\ cmd[m] = "upgrade" /\ at[m] # base[m] => at[m] \in base[m] + 1 .. release
  /\ cmd[m] = "downgrade" => at[m] \in {base[m], base[m] - 1}

\* A command that has changed the version found its base there, and holds the row since;
\* the first revision has no row to hold, but creates a table that nobody else can create.
Current(m) ==
  /\ at[m] # base[m] => ver = base[m]
  /\ cmd[m] = "upgrade" /\ base[m] = 0 /\ (done[m] > 0 \/ at[m] # 0) =>
       ver = 0 /\ "users" \in DOMAIN tx[m]
  /\ cmd[m] # "none" /\ ~overtaken[m] => ver = base[m]

\* Table by table: where the committed table is that of the command's base, the command
\* sees the table as its operations make it; a table it has not touched is to be the same
\* after them.
Worked(m) ==
  cmd[m] # "none" => \A t \in Tables :
    /\ Follows(tables[t].cols, SchemaAt(base[m])[t].cols) =>
         Follows(View(m)[t].cols, Reached(m)[t].cols)
    /\ t \notin DOMAIN tx[m] => Follows(SchemaAt(base[m])[t].cols, Reached(m)[t].cols)

\* No table and not the version is changed by two commands at a time.
Apart ==
  \A m, n \in Migrators : m # n =>
    /\ DOMAIN tx[m] \cap DOMAIN tx[n] = {}
    /\ at[m] = base[m] \/ at[n] = base[n]

MigrationInv ==
  /\ TypeInv /\ NoneInside /\ Apart
  /\ \A m \in Migrators : Placed(m) /\ Current(m) /\ Worked(m)
  /\ SchemaFollowsRevision

-----------------------------------------------------------------------------
(* Operations and schemas. *)

LEMMA FollowsSame == ASSUME NEW a PROVE Follows(a, a)
BY DEF Follows

LEMMA FollowsTransitive ==
  ASSUME NEW a, NEW b, NEW c, Follows(a, b), Follows(b, c)
  PROVE  Follows(a, c)
BY DEF Follows

OpNames == {"create", "drop table", "add", "drop", "alter", "update"}

\* An operation keeps a schema as close to the expected one as it was.
LEMMA ChangedFollows ==
  ASSUME NEW o, o.op \in OpNames, NEW a, "cols" \in DOMAIN a, NEW b, "cols" \in DOMAIN b,
         Follows(a.cols, b.cols)
  PROVE  /\ "cols" \in DOMAIN Changed(o, a)
         /\ Follows(Changed(o, a).cols, Changed(o, b).cols)
<1>1. CASE o.op = "create"
  BY <1>1, FollowsSame DEF Changed
<1>2. CASE o.op = "drop table"
  BY <1>2, FollowsSame DEF Changed, NoTable
<1>3. CASE o.op = "add"
  BY <1>3 DEF Changed, Follows, ++
<1>4. CASE o.op = "drop"
  BY <1>4 DEF Changed, Follows, Restrict
<1>5. CASE o.op = "alter"
  BY <1>5 DEF Changed, Follows, ++
<1>6. CASE o.op = "update"
  BY <1>6 DEF Changed
<1> QED
  BY <1>1, <1>2, <1>3, <1>4, <1>5, <1>6 DEF OpNames

\* Whether an operation fits depends on which tables and columns there are.
LEMMA MisfitsByColumns ==
  ASSUME NEW o, o.op \in OpNames, o.table \in Tables, NEW a, NEW b,
         \A t \in Tables : DOMAIN a[t].cols = DOMAIN b[t].cols,
         Misfits(o, a)
  PROVE  Misfits(o, b)
<1>1. \A t \in Tables : Exists(a, t) <=> Exists(b, t)
  BY DEF Exists
<1>2. \A t \in Tables : Refers(a[t].cols) = Refers(b[t].cols)
  BY DEF Refers
<1>3. Refers(o.cols) \subseteq Tables
  BY DEF Refers
<1>4. CASE o.op = "create"
  BY <1>1, <1>3, <1>4 DEF Misfits
<1>5. CASE o.op = "drop table"
  BY <1>1, <1>2, <1>5 DEF Misfits
<1>6. CASE o.op = "add"
  BY <1>1, <1>6 DEF Misfits
<1>7. CASE o.op \in {"drop", "alter", "update"}
  BY <1>7 DEF Misfits
<1> QED
  BY <1>4, <1>5, <1>6, <1>7 DEF OpNames

LEMMA LocksOwnTable ==
  ASSUME NEW o, o.table \in Tables, NEW db
  PROVE  o.table \in Locks(o, db) /\ Locks(o, db) \subseteq Tables
BY DEF Locks, Refers

LEMMA PerformedAt ==
  ASSUME NEW db, DOMAIN db = Tables, NEW o, o.table \in Tables, NEW t \in Tables
  PROVE  Perform(db, o)[t] = IF t = o.table THEN Changed(o, db[t]) ELSE db[t]
BY DEF Perform

LEMMA LatestPositive == Latest \in Nat /\ Latest > 0
BY DEF Latest, Upgrades

\* What ChainFits says of a revision.
LEMMA RevisionFacts ==
  ASSUME ChainFits, NEW command \in {"upgrade", "downgrade"}, NEW v \in 0 .. Latest,
         Runs(command, v), NEW ops, ops = OperationsOf(command, v)
  PROVE  /\ Len(ops) \in 1 .. 8 /\ DOMAIN ops = 1 .. Len(ops)
         /\ \A n \in DOMAIN ops : ops[n].table \in Tables
         /\ Unnamed(ops) => ops[1].op = "drop unnamed"
         /\ ~Unnamed(ops) =>
              /\ \A n \in DOMAIN ops : OperationFits(command, v, n)
              /\ \A t \in Tables : Follows(Partway(command, v, Len(ops))[t].cols,
                                           SchemaAt(Neighbour(command, v))[t].cols)
BY DEF ChainFits, RevisionsFit

LEMMA SchemaFacts ==
  ASSUME ChainFits, NEW v \in 0 .. Latest
  PROVE  /\ \A t \in Tables : "cols" \in DOMAIN SchemaAt(v)[t]
         /\ \A command \in {"upgrade", "downgrade"} : Partway(command, v, 0) = SchemaAt(v)
BY DEF ChainFits, SchemasFit, IsSchema

-----------------------------------------------------------------------------
(* Commands. *)

LEMMA TheOther == Other("boot") = "cli" /\ Other("cli") = "boot"
BY DEF Other, Migrators

LEMMA ViewAt ==
  ASSUME TypeInv, NEW m \in Migrators
  PROVE  /\ DOMAIN View(m) = Tables
         /\ \A t \in Tables : View(m)[t] = IF t \in DOMAIN tx[m] THEN tx[m][t] ELSE tables[t]
         /\ \A t \in Tables : "cols" \in DOMAIN View(m)[t]
BY DEF TypeInv, TypeOK, View, ++

LEMMA ViewNext ==
  ASSUME TypeInv', NEW m \in Migrators
  PROVE  \A t \in Tables :
           View(m)'[t] = IF t \in DOMAIN tx'[m] THEN tx'[m][t] ELSE tables'[t]
BY DEF TypeInv, TypeOK, View, ++

\* A command that is busy is at a revision that it may run.
LEMMA BusyRuns ==
  ASSUME TypeInv, NEW m \in Migrators, Placed(m), Busy(m)
  PROVE  /\ cmd[m] \in {"upgrade", "downgrade"} /\ at[m] \in 0 .. Latest
         /\ Runs(cmd[m], at[m])
         /\ Neighbour(cmd[m], at[m]) \in 0 .. Latest
<1>1. /\ cmd[m] \in {"upgrade", "downgrade"} /\ at[m] \in 0 .. Latest
      /\ base[m] \in 0 .. Latest /\ release \in 1 .. Latest
  BY ReleasesAssumption DEF TypeInv, TypeOK, Busy
<1>2. CASE cmd[m] = "upgrade"
  <2>1. at[m] < release
    BY <1>1, <1>2 DEF Busy, Located, Target, Placed
  <2> QED
    BY <1>1, <1>2, <2>1, LatestPositive DEF Runs, Neighbour
<1>3. CASE cmd[m] = "downgrade"
  <2>1. at[m] = base[m] /\ base[m] >= 1
    BY <1>1, <1>3 DEF Busy, Located, Target, Placed
  <2> QED
    BY <1>1, <1>3, <2>1, LatestPositive DEF Runs, Neighbour
<1> QED
  BY <1>1, <1>2, <1>3

LEMMA BusyFacts ==
  ASSUME ChainFits, TypeInv, NEW m \in Migrators, Placed(m), Busy(m)
  PROVE  LET ops == Operations(m) IN
         /\ Len(ops) \in 1 .. 8 /\ DOMAIN ops = 1 .. Len(ops)
         /\ \A n \in DOMAIN ops : ops[n].table \in Tables
         /\ Unnamed(ops) => ops[1].op = "drop unnamed"
         /\ ~Unnamed(ops) =>
              /\ \A n \in DOMAIN ops : OperationFits(cmd[m], at[m], n)
              /\ \A t \in Tables : Follows(Partway(cmd[m], at[m], Len(ops))[t].cols,
                                           SchemaAt(Neighbour(cmd[m], at[m]))[t].cols)
BY BusyRuns, RevisionFacts DEF Operations

\* The operation that is next: its table exists among the names, and unless it has no name
\* it fits the schema that is expected of those before it.
LEMMA NextOpFacts ==
  ASSUME ChainFits, TypeInv, NEW m \in Migrators, Placed(m), Running(m)
  PROVE  /\ NextOp(m).table \in Tables
         /\ done[m] \in 0 .. 7 /\ done[m] + 1 <= Len(Operations(m))
         /\ Unnamed(Operations(m)) => NextOp(m).op = "drop unnamed"
         /\ ~Unnamed(Operations(m)) =>
              /\ IsSchema(Reached(m))
              /\ NextOp(m).op \in OpNames
              /\ ~Misfits(NextOp(m), Reached(m))
              /\ Partway(cmd[m], at[m], done[m] + 1) = Perform(Reached(m), NextOp(m))
<1>1. done[m] \in 0 .. 8
  BY DEF TypeInv, TypeOK
<1>2. Busy(m) /\ done[m] < Len(Operations(m))
  BY DEF Running
<1>3. PICK ops : ops = Operations(m)
  OBVIOUS
<1>4. /\ Len(ops) \in 1 .. 8 /\ DOMAIN ops = 1 .. Len(ops)
      /\ \A n \in DOMAIN ops : ops[n].table \in Tables
      /\ Unnamed(ops) => ops[1].op = "drop unnamed"
      /\ ~Unnamed(ops) => \A n \in DOMAIN ops : OperationFits(cmd[m], at[m], n)
  BY <1>2, <1>3, BusyFacts
<1>5. done[m] + 1 \in DOMAIN ops /\ done[m] \in 0 .. 7 /\ done[m] + 1 - 1 = done[m]
  <2>1. done[m] < Len(ops)
    BY <1>2, <1>3
  <2>2. Len(ops) \in 1 .. 8 /\ DOMAIN ops = 1 .. Len(ops)
    BY <1>4
  <2>3. done[m] + 1 \in 1 .. Len(ops)
    BY <2>1, <2>2, <1>1
  <2> QED
    BY <2>1, <2>2, <2>3, <1>1
<1>6. Unnamed(ops) => done[m] = 0
  BY <1>1, <1>3 DEF Placed
<1>7. NextOp(m) = ops[done[m] + 1] /\ OperationsOf(cmd[m], at[m]) = ops
  BY <1>3 DEF NextOp, Operations
<1>8. ~Unnamed(ops) =>
        /\ IsSchema(Reached(m))
        /\ NextOp(m).op \in OpNames
        /\ ~Misfits(NextOp(m), Reached(m))
        /\ Partway(cmd[m], at[m], done[m] + 1) = Perform(Reached(m), NextOp(m))
  <2>1. PICK n : n = done[m] + 1
    OBVIOUS
  <2>2. n \in DOMAIN ops /\ n - 1 = done[m]
    BY <2>1, <1>5
  <2>3. ~Unnamed(ops) => OperationFits(cmd[m], at[m], n)
    BY <1>4, <2>2
  <2>4. NextOp(m) = ops[n] /\ OperationsOf(cmd[m], at[m]) = ops
    BY <1>7, <2>1
  <2>5. Partway(cmd[m], at[m], n - 1) = Reached(m)
    BY <2>2 DEF Reached
  <2>6. ~Unnamed(ops) =>
          /\ IsSchema(Reached(m))
          /\ NextOp(m).op \in OpNames
          /\ ~Misfits(NextOp(m), Reached(m))
          /\ Partway(cmd[m], at[m], n) = Perform(Reached(m), NextOp(m))
    BY <2>3, <2>4, <2>5 DEF OperationFits, OpNames
  <2> QED
    BY <2>6, <2>1
<1>9. Unnamed(ops) => NextOp(m).op = "drop unnamed"
  <2>1. Unnamed(ops) => done[m] + 1 = 1
    BY <1>6
  <2>2. Unnamed(ops) => ops[1].op = "drop unnamed"
    BY <1>4
  <2> QED
    BY <2>1, <2>2, <1>7
<1>10. NextOp(m).table \in Tables /\ done[m] \in 0 .. 7 /\ done[m] + 1 <= Len(ops)
  <2>1. \A n \in DOMAIN ops : ops[n].table \in Tables
    BY <1>4
  <2>2. NextOp(m).table \in Tables
    BY <2>1, <1>5, <1>7
  <2>3. done[m] < Len(ops) /\ Len(ops) \in 1 .. 8
    BY <1>2, <1>3, <1>4
  <2>4. done[m] + 1 <= Len(ops)
    BY <2>3, <1>1
  <2> QED
    BY <2>2, <2>4, <1>5
<1> QED
  BY <1>3, <1>8, <1>9, <1>10

-----------------------------------------------------------------------------
(* Steps that leave a command as it is, or as one that has done nothing. *)

Kept(m) == UNCHANGED <<cmd[m], base[m], at[m], done[m], tx[m], release>>

Untouched(m) == Kept(m) /\ overtaken'[m] = overtaken[m]

Fresh(m) ==
  /\ at'[m] = base'[m] /\ done'[m] = 0 /\ DOMAIN tx'[m] = {}
  /\ cmd'[m] = "none" \/ base'[m] = ver'

SameColumns(S) == \A t \in S : tables'[t].cols = tables[t].cols

LEMMA PlacedKept ==
  ASSUME NEW m \in Migrators, Placed(m), Kept(m)
  PROVE  Placed(m)'
BY DEF Placed, Kept, Located, Target, Operations

LEMMA PlacedFresh ==
  ASSUME NEW m \in Migrators, Fresh(m)
  PROVE  Placed(m)'
BY DEF Placed, Fresh

LEMMA CurrentKept ==
  ASSUME NEW m \in Migrators, Current(m), Untouched(m), ver' = ver
  PROVE  Current(m)'
BY DEF Current, Kept, Untouched

LEMMA CurrentFresh ==
  ASSUME NEW m \in Migrators, Fresh(m)
  PROVE  Current(m)'
BY DEF Current, Fresh

LEMMA WorkedKept ==
  ASSUME ChainFits, TypeInv, TypeInv', NEW m \in Migrators, Worked(m), Kept(m),
         SameColumns(DOMAIN tx[m])
  PROVE  Worked(m)'
<1> SUFFICES ASSUME cmd'[m] # "none", NEW t \in Tables
    PROVE  /\ Follows(tables'[t].cols, SchemaAt(base'[m])[t].cols) =>
                Follows(View(m)'[t].cols, Reached(m)'[t].cols)
           /\ t \notin DOMAIN tx'[m] =>
                Follows(SchemaAt(base'[m])[t].cols, Reached(m)'[t].cols)
  BY DEF Worked
<1>1. cmd'[m] = cmd[m] /\ base'[m] = base[m] /\ tx'[m] = tx[m] /\ Reached(m)' = Reached(m)
  BY DEF Kept, Reached
<1>2. /\ Follows(tables[t].cols, SchemaAt(base[m])[t].cols) =>
           Follows(View(m)[t].cols, Reached(m)[t].cols)
      /\ t \notin DOMAIN tx[m] => Follows(SchemaAt(base[m])[t].cols, Reached(m)[t].cols)
  BY <1>1 DEF Worked
<1>3. /\ View(m)[t] = IF t \in DOMAIN tx[m] THEN tx[m][t] ELSE tables[t]
      /\ View(m)'[t] = IF t \in DOMAIN tx'[m] THEN tx'[m][t] ELSE tables'[t]
  <2>1. \A u \in Tables : View(m)'[u] = IF u \in DOMAIN tx'[m] THEN tx'[m][u] ELSE tables'[u]
    BY ViewNext
  <2> QED
    BY <2>1, ViewAt
<1>4. CASE t \in DOMAIN tx[m]
  BY <1>1, <1>2, <1>3, <1>4 DEF SameColumns
<1>5. CASE t \notin DOMAIN tx[m]
  BY <1>1, <1>2, <1>3, <1>5, FollowsTransitive
<1> QED
  BY <1>4, <1>5

LEMMA WorkedFresh ==
  ASSUME ChainFits, TypeInv', NEW m \in Migrators, Fresh(m)
  PROVE  Worked(m)'
<1> SUFFICES ASSUME cmd'[m] # "none", NEW t \in Tables
    PROVE  /\ Follows(tables'[t].cols, SchemaAt(base'[m])[t].cols) =>
                Follows(View(m)'[t].cols, Reached(m)'[t].cols)
           /\ Follows(SchemaAt(base'[m])[t].cols, Reached(m)'[t].cols)
  BY DEF Worked
<1>1. base'[m] \in 0 .. Latest /\ cmd'[m] \in {"upgrade", "downgrade"}
  BY DEF TypeInv, TypeOK
<1>2. Reached(m)' = SchemaAt(base'[m])
  BY <1>1, SchemaFacts DEF Reached, Fresh
<1>3. View(m)'[t] = tables'[t]
  BY DEF View, ++, Fresh, TypeInv, TypeOK
<1> QED
  BY <1>2, <1>3, FollowsSame

LEMMA ApartStep ==
  ASSUME Apart, \A m \in Migrators : Untouched(m) \/ Fresh(m)
  PROVE  Apart'
BY DEF Apart, Untouched, Kept, Fresh

\* A step that commits nothing and keeps every command or ends or begins it.
LEMMA QuietStep ==
  ASSUME ChainFits, MigrationInv, TypeInv', NoneInside', ver' = ver,
         SameColumns(Tables), \A m \in Migrators : Untouched(m) \/ Fresh(m)
  PROVE  MigrationInv'
<1>1. ASSUME NEW m \in Migrators
      PROVE  Placed(m)' /\ Current(m)' /\ Worked(m)'
  <2>1. Placed(m)'
    BY PlacedKept, PlacedFresh DEF MigrationInv, Untouched
  <2>2. Current(m)'
    BY CurrentKept, CurrentFresh DEF MigrationInv
  <2>3. SameColumns(DOMAIN tx[m])
    BY DEF SameColumns, MigrationInv, TypeInv, TypeOK
  <2>4. Worked(m)'
    BY <2>3, WorkedKept, WorkedFresh DEF MigrationInv, Untouched
  <2> QED
    BY <2>1, <2>2, <2>4
<1>2. Apart'
  BY ApartStep DEF MigrationInv
<1>3. SchemaFollowsRevision'
  BY DEF MigrationInv, SchemaFollowsRevision, SameColumns
<1> QED
  BY <1>1, <1>2, <1>3 DEF MigrationInv

-----------------------------------------------------------------------------
(* The steps that begin or end commands, and those of the rows. *)

LEMMA BeginStep ==
  ASSUME MigrationInv, NEW m \in Migrators, NEW command \in {"upgrade", "downgrade"},
         cmd[m] = "none", Begin(m, command), ver' = ver, release' = release
  PROVE  /\ \A n \in Migrators : Untouched(n) \/ Fresh(n)
         /\ cmd' \in [Migrators -> {"none", "upgrade", "downgrade"}]
         /\ base' \in [Migrators -> 0 .. Latest] /\ at' \in [Migrators -> 0 .. Latest]
         /\ done' \in [Migrators -> 0 .. 8]
<1>1. /\ cmd \in [Migrators -> {"none", "upgrade", "downgrade"}] /\ ver \in 0 .. Latest
      /\ base \in [Migrators -> 0 .. Latest] /\ at \in [Migrators -> 0 .. Latest]
      /\ done \in [Migrators -> 0 .. 8]
  BY DEF MigrationInv, TypeInv, TypeOK
<1>2. DOMAIN tx[m] = {}
  BY DEF MigrationInv, Placed
<1>3. Fresh(m)
  BY <1>1, <1>2 DEF Begin, Fresh
<1>4. \A n \in Migrators \ {m} : Untouched(n)
  BY <1>1 DEF Begin, Kept, Untouched
<1>5. /\ cmd' \in [Migrators -> {"none", "upgrade", "downgrade"}]
      /\ base' \in [Migrators -> 0 .. Latest] /\ at' \in [Migrators -> 0 .. Latest]
      /\ done' \in [Migrators -> 0 .. 8]
  BY <1>1 DEF Begin
<1> QED
  BY <1>3, <1>4, <1>5

LEMMA BootStep == ASSUME ChainFits, MigrationInv, Boot PROVE MigrationInv'
<1>1. cmd["boot"] = "none" /\ "boot" \in Migrators
  BY DEF MigrationInv, NoneInside, Boot, Migrators
<1>2. /\ Begin("boot", "upgrade") /\ app' = "booting"
      /\ UNCHANGED <<ver, tables, release, written, interventions>>
  BY DEF Boot
<1>3. UNCHANGED <<tx, overtaken>>
  BY <1>2 DEF Begin
<1>4. /\ \A n \in Migrators : Untouched(n) \/ Fresh(n)
      /\ cmd' \in [Migrators -> {"none", "upgrade", "downgrade"}]
      /\ base' \in [Migrators -> 0 .. Latest] /\ at' \in [Migrators -> 0 .. Latest]
      /\ done' \in [Migrators -> 0 .. 8]
  BY <1>1, <1>2, BeginStep
<1>5. TypeInv'
  BY <1>2, <1>3, <1>4 DEF MigrationInv, TypeInv, TypeOK
<1> QED
  BY <1>2, <1>4, <1>5, QuietStep DEF NoneInside, SameColumns

LEMMA CommandStep ==
  ASSUME ChainFits, MigrationInv, NEW command \in {"upgrade", "downgrade"}, Command(command)
  PROVE  MigrationInv'
<1>1. /\ cmd["cli"] = "none" /\ "cli" \in Migrators /\ app # "down"
      /\ Begin("cli", command)
      /\ UNCHANGED <<ver, tables, release, app, written>>
      /\ interventions < MaxInterventions /\ interventions' = interventions + 1
  BY DEF Command, Migrators
<1>2. UNCHANGED <<tx, overtaken>>
  BY <1>1 DEF Begin
<1>3. /\ \A n \in Migrators : Untouched(n) \/ Fresh(n)
      /\ cmd' \in [Migrators -> {"none", "upgrade", "downgrade"}]
      /\ base' \in [Migrators -> 0 .. Latest] /\ at' \in [Migrators -> 0 .. Latest]
      /\ done' \in [Migrators -> 0 .. 8]
  BY <1>1, BeginStep
<1>4. interventions' \in 0 .. MaxInterventions
  BY <1>1, BoundsAssumption DEF MigrationInv, TypeInv, TypeOK
<1>5. TypeInv'
  BY <1>1, <1>2, <1>3, <1>4 DEF MigrationInv, TypeInv, TypeOK
<1> QED
  BY <1>1, <1>3, <1>5, QuietStep DEF NoneInside, SameColumns

LEMMA EndStep ==
  ASSUME TypeInv, NEW over \in SUBSET Migrators, End(over)
  PROVE  /\ \A m \in over : /\ cmd'[m] = "none" /\ DOMAIN tx'[m] = {}
                            /\ base'[m] = 0 /\ at'[m] = 0 /\ done'[m] = 0
         /\ \A m \in Migrators \ over :
              UNCHANGED <<cmd[m], base[m], at[m], done[m], tx[m]>>
         /\ cmd' \in [Migrators -> {"none", "upgrade", "downgrade"}]
         /\ base' \in [Migrators -> 0 .. Latest] /\ at' \in [Migrators -> 0 .. Latest]
         /\ done' \in [Migrators -> 0 .. 8]
         /\ DOMAIN tx' = Migrators
<1>1. /\ cmd \in [Migrators -> {"none", "upgrade", "downgrade"}]
      /\ base \in [Migrators -> 0 .. Latest] /\ at \in [Migrators -> 0 .. Latest]
      /\ done \in [Migrators -> 0 .. 8]
  BY DEF TypeInv, TypeOK
<1>2. /\ cmd' = [m \in Migrators |-> IF m \in over THEN "none" ELSE cmd[m]]
      /\ tx' = [m \in Migrators |-> IF m \in over THEN << >> ELSE tx[m]]
      /\ base' = [m \in Migrators |-> IF m \in over THEN 0 ELSE base[m]]
      /\ at' = [m \in Migrators |-> IF m \in over THEN 0 ELSE at[m]]
      /\ done' = [m \in Migrators |-> IF m \in over THEN 0 ELSE done[m]]
  BY DEF End
<1>3. DOMAIN << >> = {}
  OBVIOUS
<1>4. 0 \in 0 .. Latest
  BY LatestPositive
<1> QED
  BY <1>1, <1>2, <1>3, <1>4

LEMMA EndTypes ==
  ASSUME TypeInv, NEW over \in SUBSET Migrators, End(over), UNCHANGED <<ver, tables>>,
         release' \in Releases, app' \in {"down", "booting", "serving"},
         overtaken' \in [Migrators -> BOOLEAN], interventions' \in 0 .. MaxInterventions
  PROVE  TypeInv'
<1>1. /\ \A m \in over : DOMAIN tx'[m] = {}
      /\ \A m \in Migrators \ over : tx'[m] = tx[m]
      /\ DOMAIN tx' = Migrators
  BY EndStep
<1>2. TypeOK'
  BY EndStep, <1>1 DEF TypeInv, TypeOK
<1>3. \A m \in Migrators : \A t \in DOMAIN tx'[m] : "cols" \in DOMAIN tx'[m][t]
  BY <1>1 DEF TypeInv
<1> QED
  BY <1>1, <1>2, <1>3 DEF TypeInv

LEMMA StopStep ==
  ASSUME ChainFits, MigrationInv, Stop, UNCHANGED <<ver, tables>>, release' \in Releases,
         interventions' \in 0 .. MaxInterventions
  PROVE  MigrationInv'
<1>1. /\ End(Migrators) /\ app' = "down" /\ overtaken' = [m \in Migrators |-> FALSE]
  BY DEF Stop
<1>2. TypeInv'
  BY <1>1, EndTypes DEF MigrationInv
<1>3. \A m \in Migrators : Fresh(m) /\ cmd'[m] = "none"
  BY <1>1, EndStep DEF Fresh, MigrationInv
<1> QED
  BY <1>2, <1>3, QuietStep DEF NoneInside, SameColumns

LEMMA FailStep ==
  ASSUME ChainFits, MigrationInv, NEW m \in Migrators, Fail(m)
  PROVE  MigrationInv'
<1>1. TypeInv /\ release' \in Releases /\ interventions' \in 0 .. MaxInterventions
      /\ UNCHANGED <<ver, tables, release>>
  BY DEF Fail, MigrationInv, TypeInv, TypeOK
<1>2. CASE m = "boot"
  BY <1>1, <1>2, StopStep DEF Fail
<1>3. CASE m # "boot"
  <2>1. End({m}) /\ overtaken' = [overtaken EXCEPT ![m] = FALSE] /\ app' = app
    BY <1>3 DEF Fail
  <2>2. overtaken' \in [Migrators -> BOOLEAN] /\ app' \in {"down", "booting", "serving"}
    BY <1>1, <2>1 DEF TypeInv, TypeOK
  <2>3. {m} \in SUBSET Migrators
    OBVIOUS
  <2>4. TypeInv'
    BY <1>1, <2>1, <2>2, <2>3, EndTypes
  <2>5. /\ cmd'[m] = "none" /\ DOMAIN tx'[m] = {}
        /\ base'[m] = 0 /\ at'[m] = 0 /\ done'[m] = 0
        /\ \A n \in Migrators \ {m} : UNCHANGED <<cmd[n], base[n], at[n], done[n], tx[n]>>
    BY <1>1, <2>1, <2>3, EndStep
  <2>6. \A n \in Migrators \ {m} : overtaken'[n] = overtaken[n]
    BY <1>1, <2>1 DEF TypeInv, TypeOK
  <2>7. \A n \in Migrators : Untouched(n) \/ Fresh(n)
    BY <1>1, <2>5, <2>6 DEF Untouched, Kept, Fresh
  <2>8. NoneInside'
    BY <2>1, <2>5 DEF NoneInside, MigrationInv
  <2> QED
    BY <1>1, <2>4, <2>7, <2>8, QuietStep DEF SameColumns
<1> QED
  BY <1>2, <1>3

LEMMA RestartStep ==
  ASSUME ChainFits, MigrationInv, NEW image \in Releases, Restart(image)
  PROVE  MigrationInv'
<1>1. Stop /\ release' = image /\ UNCHANGED <<ver, tables>>
  BY DEF Restart
<1>2. interventions' \in 0 .. MaxInterventions
  BY BoundsAssumption DEF Restart, MigrationInv, TypeInv, TypeOK
<1> QED
  BY <1>1, <1>2, StopStep

LEMMA InsertStep ==
  ASSUME ChainFits, MigrationInv, NEW t \in Tables, NEW optional, NEW wide,
         Insert(t, optional, wide)
  PROVE  MigrationInv'
<1>1. UNCHANGED <<ver, release, app, cmd, base, at, done, tx, overtaken, interventions>>
  BY DEF Insert
<1>2. PICK rows : tables' = [tables EXCEPT ![t].rows = rows]
  BY DEF Insert
<1>3. /\ DOMAIN tables' = Tables
      /\ \A u \in Tables : DOMAIN tables'[u] = DOMAIN tables[u]
      /\ \A u \in Tables : tables'[u].cols = tables[u].cols
  BY <1>2 DEF MigrationInv, TypeInv, TypeOK
<1>4. TypeInv'
  BY <1>1, <1>3 DEF MigrationInv, TypeInv, TypeOK
<1>5. NoneInside' /\ \A m \in Migrators : Untouched(m)
  BY <1>1 DEF MigrationInv, NoneInside, Untouched, Kept
<1> QED
  BY <1>1, <1>3, <1>4, <1>5, QuietStep DEF SameColumns

-----------------------------------------------------------------------------
(* The steps of a command. *)

\* A step of m that moves m on and commits nothing.
LEMMA OwnStep ==
  ASSUME ChainFits, MigrationInv, TypeInv', NEW m \in Migrators,
         \A n \in Migrators \ {m} : Untouched(n),
         UNCHANGED <<ver, tables, app>>, cmd' = cmd, cmd[m] # "none",
         Apart', Placed(m)', Current(m)', Worked(m)'
  PROVE  MigrationInv'
<1>1. \A n \in Migrators \ {m} : Placed(n)' /\ Current(n)' /\ Worked(n)'
  <2> SUFFICES ASSUME NEW n \in Migrators \ {m} PROVE Placed(n)' /\ Current(n)' /\ Worked(n)'
    OBVIOUS
  <2>1. Placed(n)'
    BY PlacedKept DEF MigrationInv, Untouched
  <2>2. Current(n)'
    BY CurrentKept DEF MigrationInv
  <2>3. SameColumns(DOMAIN tx[n])
    BY DEF SameColumns
  <2>4. Worked(n)'
    BY <2>3, WorkedKept DEF MigrationInv, Untouched
  <2> QED
    BY <2>1, <2>2, <2>4
<1>2. NoneInside' /\ SchemaFollowsRevision'
  BY DEF MigrationInv, NoneInside, SchemaFollowsRevision
<1> QED
  BY <1>1, <1>2 DEF MigrationInv

\* An operation that is performed has a name, and fits what the command sees.
LEMMA PerformedFits ==
  ASSUME ChainFits, TypeInv, NEW m \in Migrators, Placed(m), Running(m),
         Refusal(NextOp(m), View(m)) = "none"
  PROVE  ~Unnamed(Operations(m)) /\ ~Misfits(NextOp(m), View(m))
BY NextOpFacts DEF Refusal

\* What the command sees after the operation.
LEMMA OperateView ==
  ASSUME ChainFits, TypeInv, NEW m \in Migrators, Placed(m), Operate(m)
  PROVE  /\ tx' = [tx EXCEPT ![m] = tx'[m]]
         /\ DOMAIN tx'[m] = DOMAIN tx[m] \cup Locks(NextOp(m), View(m))
         /\ \A t \in DOMAIN tx'[m] : tx'[m][t] = Perform(View(m), NextOp(m))[t]
BY DEF Operate, TypeInv

LEMMA OperateTypes ==
  ASSUME ChainFits, MigrationInv, NEW m \in Migrators, Operate(m)
  PROVE  TypeInv'
<1>1. /\ TypeInv /\ Placed(m) /\ Running(m) /\ Refusal(NextOp(m), View(m)) = "none"
      /\ UNCHANGED <<ver, tables, release, app, cmd, base, at, overtaken, interventions>>
      /\ done' = [done EXCEPT ![m] = @ + 1]
  BY DEF MigrationInv, Operate
<1>2. done' \in [Migrators -> 0 .. 8]
  <2>1. done[m] \in 0 .. 7
    BY <1>1, NextOpFacts
  <2>2. done[m] + 1 \in 0 .. 8
    BY <2>1
  <2> QED
    BY <1>1, <2>2 DEF TypeInv, TypeOK
<1>3. /\ NextOp(m).table \in Tables /\ NextOp(m).op \in OpNames
      /\ IsSchema(Reached(m))
  BY <1>1, NextOpFacts, PerformedFits
<1>4. DOMAIN tx'[m] \subseteq Tables
  BY <1>1, <1>3, OperateView, LocksOwnTable DEF TypeInv, TypeOK
<1>5. \A t \in DOMAIN tx'[m] : "cols" \in DOMAIN tx'[m][t]
  <2> SUFFICES ASSUME NEW t \in DOMAIN tx'[m] PROVE "cols" \in DOMAIN tx'[m][t]
    OBVIOUS
  <2>1. t \in Tables /\ tx'[m][t] = Perform(View(m), NextOp(m))[t]
    BY <1>1, <1>4, OperateView
  <2>2. DOMAIN View(m) = Tables /\ "cols" \in DOMAIN View(m)[t]
    BY <1>1, <2>1, ViewAt
  <2>3. "cols" \in DOMAIN Changed(NextOp(m), View(m)[t])
    BY <1>3, <2>2, ChangedFollows, FollowsSame
  <2> QED
    BY <1>3, <2>1, <2>2, <2>3, PerformedAt
<1>6. DOMAIN tx' = Migrators /\ \A n \in Migrators \ {m} : tx'[n] = tx[n]
  BY <1>1, OperateView DEF TypeInv
<1>7. \A n \in Migrators : DOMAIN tx'[n] \subseteq Tables
  BY <1>1, <1>4, <1>6 DEF TypeInv, TypeOK
<1>8. TypeOK'
  BY <1>1, <1>2, <1>7 DEF TypeInv, TypeOK
<1>9. \A n \in Migrators : \A t \in DOMAIN tx'[n] : "cols" \in DOMAIN tx'[n][t]
  BY <1>1, <1>5, <1>6 DEF TypeInv
<1> QED
  BY <1>1, <1>6, <1>8, <1>9 DEF TypeInv

LEMMA OperateWorked ==
  ASSUME ChainFits, MigrationInv, NEW m \in Migrators, Operate(m)
  PROVE  Worked(m)'
<1>1. /\ TypeInv /\ Placed(m) /\ Running(m) /\ Refusal(NextOp(m), View(m)) = "none"
      /\ UNCHANGED <<tables, cmd, base, at>>
      /\ done'[m] = done[m] + 1 /\ cmd[m] # "none"
  BY DEF MigrationInv, Operate, Running, Busy, TypeInv, TypeOK
<1>2. PICK o : o = NextOp(m)
  OBVIOUS
<1>3. /\ o.table \in Tables /\ o.op \in OpNames /\ IsSchema(Reached(m))
      /\ Reached(m)' = Perform(Reached(m), o)
  BY <1>1, <1>2, NextOpFacts, PerformedFits DEF Reached
<1> SUFFICES ASSUME NEW t \in Tables
    PROVE  /\ Follows(tables'[t].cols, SchemaAt(base'[m])[t].cols) =>
                Follows(View(m)'[t].cols, Reached(m)'[t].cols)
           /\ t \notin DOMAIN tx'[m] =>
                Follows(SchemaAt(base'[m])[t].cols, Reached(m)'[t].cols)
  BY DEF Worked
<1>4. /\ Follows(tables[t].cols, SchemaAt(base[m])[t].cols) =>
           Follows(View(m)[t].cols, Reached(m)[t].cols)
      /\ t \notin DOMAIN tx[m] => Follows(SchemaAt(base[m])[t].cols, Reached(m)[t].cols)
  BY <1>1 DEF MigrationInv, Worked
<1>5. o.table \in DOMAIN tx'[m] /\ DOMAIN tx[m] \subseteq DOMAIN tx'[m]
  BY <1>1, <1>2, <1>3, OperateView, LocksOwnTable
<1>6. /\ DOMAIN View(m) = Tables /\ "cols" \in DOMAIN View(m)[t]
      /\ View(m)[t] = IF t \in DOMAIN tx[m] THEN tx[m][t] ELSE tables[t]
  BY <1>1, ViewAt
<1>7. View(m)'[t] = IF t \in DOMAIN tx'[m] THEN tx'[m][t] ELSE tables'[t]
  BY OperateTypes, ViewNext
<1>8. View(m)'[t] = Perform(View(m), o)[t]
  BY <1>1, <1>2, <1>3, <1>5, <1>6, <1>7, OperateView, PerformedAt
<1>9. /\ View(m)'[t] = IF t = o.table THEN Changed(o, View(m)[t]) ELSE View(m)[t]
      /\ Reached(m)'[t] = IF t = o.table THEN Changed(o, Reached(m)[t]) ELSE Reached(m)[t]
      /\ "cols" \in DOMAIN Reached(m)[t]
  BY <1>3, <1>6, <1>8, PerformedAt DEF IsSchema
<1>10. CASE t = o.table
  BY <1>1, <1>3, <1>4, <1>5, <1>6, <1>9, <1>10, ChangedFollows
<1>11. CASE t # o.table
  BY <1>1, <1>4, <1>5, <1>9, <1>11
<1> QED
  BY <1>10, <1>11

\* Creating the accounts, the first operation of all, takes a database without them.
LEMMA FirstOperation ==
  ASSUME ChainFits, MigrationInv, NEW m \in Migrators, Operate(m),
         cmd[m] = "upgrade", base[m] = 0, at[m] = 0, done[m] = 0
  PROVE  ver = 0 /\ NextOp(m).table = "users"
<1>1. /\ TypeInv /\ Placed(m) /\ Running(m) /\ Refusal(NextOp(m), View(m)) = "none"
  BY DEF MigrationInv, Operate
<1>2. NextOp(m) = Upgrades[1][1]
  BY DEF NextOp, Operations, OperationsOf
<1>3. NextOp(m).op = "create" /\ NextOp(m).table = "users"
  BY <1>2 DEF ChainFits, SchemasFit
<1>4. ~Exists(View(m), "users")
  BY <1>1, <1>3, PerformedFits DEF Misfits
<1>5. DOMAIN tx[m] = {} /\ "users" \in Tables /\ ver \in 0 .. Latest
  BY <1>1 DEF Placed, Tables, TypeInv, TypeOK
<1>6. View(m)["users"] = tables["users"]
  BY <1>1, <1>5, ViewAt
<1>7. ~Exists(SchemaAt(ver), "users")
  BY <1>4, <1>5, <1>6 DEF Exists, MigrationInv, SchemaFollowsRevision, Follows
<1> QED
  BY <1>3, <1>5, <1>7 DEF ChainFits, SchemasFit

LEMMA OperateStep ==
  ASSUME ChainFits, MigrationInv, NEW m \in Migrators, Operate(m)
  PROVE  MigrationInv'
<1>1. /\ TypeInv /\ Placed(m) /\ Running(m) /\ ~Waits(m)
      /\ Refusal(NextOp(m), View(m)) = "none"
      /\ UNCHANGED <<ver, tables, release, app, cmd, base, at, overtaken>>
      /\ done' = [done EXCEPT ![m] = @ + 1]
  BY DEF MigrationInv, Operate
<1>2. /\ cmd[m] # "none" /\ Located(m) /\ at[m] # Target(m) /\ done[m] \in 0 .. 7
      /\ done[m] + 1 <= Len(Operations(m)) /\ NextOp(m).table \in Tables
      /\ ~Unnamed(Operations(m))
  BY <1>1, NextOpFacts, PerformedFits DEF Running, Busy
<1>3. done'[m] = done[m] + 1 /\ done'[m] > 0
  BY <1>1, <1>2 DEF TypeInv, TypeOK
<1>4. \A n \in Migrators \ {m} : Untouched(n)
  BY <1>1, OperateView DEF Untouched, Kept, TypeInv, TypeOK
<1>5. DOMAIN tx'[m] = DOMAIN tx[m] \cup Locks(NextOp(m), View(m))
  BY <1>1, OperateView
<1>6. Placed(m)'
  <2>1. /\ Located(m)' = Located(m) /\ Target(m)' = Target(m)
        /\ Operations(m)' = Operations(m)
    BY <1>1 DEF Located, Target, Operations
  <2>2. done'[m] # 0
    BY <1>3
  <2> QED
    BY <1>1, <1>2, <1>3, <2>1, <2>2 DEF Placed
<1>7. Current(m)'
  <2>1. at'[m] # base'[m] => ver' = base'[m]
    BY <1>1 DEF MigrationInv, Current
  <2>2. cmd'[m] # "none" /\ ~overtaken'[m] => ver' = base'[m]
    BY <1>1 DEF MigrationInv, Current
  <2>3. ASSUME cmd[m] = "upgrade", base[m] = 0 PROVE ver = 0 /\ "users" \in DOMAIN tx'[m]
    <3>1. CASE done[m] > 0 \/ at[m] # 0
      BY <1>5, <2>3, <3>1 DEF MigrationInv, Current
    <3>2. CASE done[m] = 0 /\ at[m] = 0
      BY <1>2, <1>5, <2>3, <3>2, FirstOperation, LocksOwnTable
    <3> QED
      BY <1>2, <3>1, <3>2
  <2> QED
    BY <1>1, <2>1, <2>2, <2>3 DEF Current
<1>8. Apart'
  <2>1. \A n \in Migrators \ {m} : n = Other(m)
    BY TheOther DEF Migrators
  <2>2. \A n \in Migrators \ {m} : Locks(NextOp(m), View(m)) \cap DOMAIN tx[n] = {}
    BY <1>1, <2>1 DEF Waits
  <2>3. \A n \in Migrators \ {m} : DOMAIN tx'[m] \cap DOMAIN tx'[n] = {}
    BY <1>4, <1>5, <2>2 DEF MigrationInv, Apart, Untouched, Kept
  <2>4. \A n \in Migrators : at'[n] = at[n] /\ base'[n] = base[n]
    BY <1>1
  <2>5. \A n, k \in Migrators \ {m} : n = k
    BY DEF Migrators
  <2> QED
    BY <2>3, <2>4, <2>5 DEF MigrationInv, Apart
<1> QED
  BY <1>1, <1>2, <1>4, <1>6, <1>7, <1>8, OperateTypes, OperateWorked, OwnStep

-----------------------------------------------------------------------------
(* The end of a revision. *)

LEMMA FinishFacts ==
  ASSUME ChainFits, MigrationInv, NEW m \in Migrators, Finish(m)
  PROVE  /\ cmd[m] \in {"upgrade", "downgrade"} /\ Located(m) /\ at[m] # Target(m)
         /\ done[m] = Len(Operations(m)) /\ done[m] > 0
         /\ at'[m] = Neighbour(cmd[m], at[m]) /\ at'[m] \in 0 .. Latest
         /\ \A t \in Tables : Follows(Reached(m)[t].cols, SchemaAt(at'[m])[t].cols)
<1>1. TypeInv /\ Placed(m) /\ Busy(m) /\ done[m] = Len(Operations(m))
  BY DEF MigrationInv, Finish, Finishing
<1>2. Len(Operations(m)) \in 1 .. 8
  BY <1>1, BusyFacts
<1>3. done[m] > 0
  <2>1. done[m] \in 1 .. 8
    BY <1>1, <1>2
  <2> QED
    BY <2>1
<1>4. ~Unnamed(Operations(m))
  BY <1>1, <1>3 DEF Placed
<1>5. at'[m] = Neighbour(cmd[m], at[m])
  BY <1>1 DEF Finish, Neighbour, TypeInv, TypeOK
<1>6. \A t \in Tables : Follows(Partway(cmd[m], at[m], done[m])[t].cols,
                                SchemaAt(at'[m])[t].cols)
  BY <1>1, <1>4, <1>5, BusyFacts
<1> QED
  BY <1>1, <1>3, <1>5, <1>6, BusyRuns DEF Busy, Reached

LEMMA FinishStep ==
  ASSUME ChainFits, MigrationInv, NEW m \in Migrators, Finish(m)
  PROVE  MigrationInv'
<1>1. /\ TypeInv /\ Placed(m) /\ Current(m) /\ Worked(m)
      /\ Finishing(m) /\ ~Waits(m) /\ VersionFound(m)
      /\ UNCHANGED <<ver, tables, release, app, cmd, base, tx, overtaken, written,
                     interventions>>
      /\ at' = [at EXCEPT ![m] = at'[m]] /\ done' = [done EXCEPT ![m] = 0]
  BY DEF MigrationInv, Finish, TypeInv, TypeOK
<1>2. /\ cmd[m] \in {"upgrade", "downgrade"} /\ Located(m) /\ at[m] # Target(m)
      /\ done[m] > 0 /\ at'[m] = Neighbour(cmd[m], at[m]) /\ at'[m] \in 0 .. Latest
      /\ \A t \in Tables : Follows(Reached(m)[t].cols, SchemaAt(at'[m])[t].cols)
  BY FinishFacts
<1>3. /\ at[m] \in 0 .. Latest /\ base[m] \in 0 .. Latest /\ release \in 1 .. Latest
      /\ done'[m] = 0
  BY <1>1, ReleasesAssumption DEF TypeInv, TypeOK
<1>4. \A n \in Migrators \ {m} : Untouched(n)
  BY <1>1 DEF Untouched, Kept, TypeInv, TypeOK
<1>5. TypeInv'
  BY <1>1, <1>2 DEF TypeInv, TypeOK
<1>6. /\ at'[m] # base[m] /\ Located(m)'
      /\ cmd[m] = "upgrade" => at'[m] \in base[m] + 1 .. release
      /\ cmd[m] = "downgrade" => at'[m] = base[m] - 1
  <2>1. Located(m)'
    BY <1>1, <1>2 DEF Located, Target
  <2>2. CASE cmd[m] = "upgrade"
    BY <1>1, <1>2, <1>3, <2>1, <2>2 DEF Placed, Located, Target, Neighbour
  <2>3. CASE cmd[m] = "downgrade"
    BY <1>1, <1>2, <1>3, <2>1, <2>3 DEF Placed, Target, Neighbour
  <2> QED
    BY <1>2, <2>2, <2>3
<1>7. Placed(m)'
  BY <1>1, <1>2, <1>3, <1>6 DEF Placed
<1>8. Current(m)'
  <2>1. cmd[m] = "upgrade" /\ base[m] = 0 => ver = 0 /\ "users" \in DOMAIN tx[m]
    BY <1>1, <1>2 DEF Current
  <2>2. cmd[m] = "downgrade" => base[m] # 0
    BY <1>2, <1>3 DEF Located, Target
  <2>3. ver = base[m]
    BY <1>1, <1>2, <2>1, <2>2 DEF Current, VersionFound
  <2> QED
    BY <1>1, <2>1, <2>3 DEF Current
<1>9. Worked(m)'
  <2> SUFFICES ASSUME NEW t \in Tables
      PROVE  /\ Follows(tables'[t].cols, SchemaAt(base'[m])[t].cols) =>
                  Follows(View(m)'[t].cols, Reached(m)'[t].cols)
             /\ t \notin DOMAIN tx'[m] =>
                  Follows(SchemaAt(base'[m])[t].cols, Reached(m)'[t].cols)
    BY DEF Worked
  <2>1. View(m)' = View(m)
    BY <1>1 DEF View
  <2>2. Reached(m)' = SchemaAt(at'[m])
    BY <1>1, <1>2, <1>3, SchemaFacts DEF Reached
  <2>3. Follows(Reached(m)[t].cols, Reached(m)'[t].cols)
    BY <1>2, <2>2
  <2>4. /\ Follows(tables[t].cols, SchemaAt(base[m])[t].cols) =>
             Follows(View(m)[t].cols, Reached(m)[t].cols)
        /\ t \notin DOMAIN tx[m] => Follows(SchemaAt(base[m])[t].cols, Reached(m)[t].cols)
    BY <1>1, <1>2 DEF Worked
  <2> QED
    BY <1>1, <2>1, <2>3, <2>4, FollowsTransitive
<1>10. Apart'
  <2>1. \A n \in Migrators \ {m} : at[n] = base[n]
    <3> SUFFICES ASSUME NEW n \in Migrators \ {m} PROVE at[n] = base[n]
      OBVIOUS
    <3>1. n = Other(m)
      BY TheOther DEF Migrators
    <3>2. cmd[n] = "none" \/ at[n] = base[n]
      BY <1>1, <3>1 DEF Waits
    <3> QED
      BY <3>2 DEF MigrationInv, Placed
  <2>2. \A n \in Migrators \ {m} : at'[n] = base'[n]
    BY <1>4, <2>1 DEF Untouched, Kept
  <2>3. \A n, k \in Migrators \ {m} : n = k
    BY DEF Migrators
  <2> QED
    BY <1>1, <2>2, <2>3 DEF MigrationInv, Apart
<1> QED
  BY <1>1, <1>2, <1>4, <1>5, <1>7, <1>8, <1>9, <1>10, OwnStep

-----------------------------------------------------------------------------
(* The commit. *)

LEMMA CommitTypes ==
  ASSUME ChainFits, MigrationInv, NEW m \in Migrators, Commit(m)
  PROVE  TypeInv'
<1>1. /\ TypeInv /\ tables' = View(m)
      /\ app' = IF m = "boot" THEN "serving" ELSE app
      /\ ver' = IF at[m] = base[m] THEN ver ELSE at[m]
      /\ overtaken' \in [Migrators -> BOOLEAN]
      /\ End({m}) /\ UNCHANGED <<release, written, interventions>>
  <2>1. overtaken' = [n \in Migrators |->
          n # m /\ cmd[n] # "none" /\ (overtaken[n] \/ at[m] # base[m])]
    BY DEF Commit
  <2>2. overtaken' \in [Migrators -> BOOLEAN]
    BY <2>1
  <2> QED
    BY <2>2 DEF MigrationInv, Commit
<1>2. /\ DOMAIN tables' = Tables /\ \A t \in Tables : "cols" \in DOMAIN tables'[t]
  BY <1>1, ViewAt
<1>3. ver' \in 0 .. Latest /\ app' \in {"down", "booting", "serving"}
  BY <1>1 DEF TypeInv, TypeOK
<1>4. {m} \in SUBSET Migrators
  OBVIOUS
<1>5. /\ DOMAIN tx'[m] = {} /\ \A n \in Migrators \ {m} : tx'[n] = tx[n]
      /\ cmd' \in [Migrators -> {"none", "upgrade", "downgrade"}]
      /\ base' \in [Migrators -> 0 .. Latest] /\ at' \in [Migrators -> 0 .. Latest]
      /\ done' \in [Migrators -> 0 .. 8]
      /\ DOMAIN tx' = Migrators
  BY <1>1, <1>4, EndStep
<1>6. TypeOK'
  BY <1>1, <1>2, <1>3, <1>5 DEF TypeInv, TypeOK
<1>7. \A n \in Migrators : \A t \in DOMAIN tx'[n] : "cols" \in DOMAIN tx'[n][t]
  BY <1>1, <1>5 DEF TypeInv
<1> QED
  BY <1>2, <1>5, <1>6, <1>7 DEF TypeInv

\* What the others are left with, and what the command that commits has.
LEMMA CommitFacts ==
  ASSUME ChainFits, MigrationInv, NEW m \in Migrators, Commit(m)
  PROVE  /\ cmd[m] \in {"upgrade", "downgrade"} /\ Located(m) /\ done[m] = 0
         /\ app # "down" /\ app' # "down" /\ Fresh(m)
         /\ \A n \in Migrators \ {m} :
              /\ Kept(n)
              /\ overtaken'[n] = (cmd[n] # "none" /\ (overtaken[n] \/ at[m] # base[m]))
<1>1. /\ TypeInv /\ Placed(m) /\ cmd[m] # "none" /\ Located(m) /\ at[m] = Target(m)
      /\ End({m}) /\ UNCHANGED <<release, written, interventions>>
      /\ overtaken' = [n \in Migrators |->
           n # m /\ cmd[n] # "none" /\ (overtaken[n] \/ at[m] # base[m])]
      /\ app' = IF m = "boot" THEN "serving" ELSE app
  BY DEF MigrationInv, Commit
<1>2. done[m] = 0 /\ cmd[m] \in {"upgrade", "downgrade"}
  BY <1>1 DEF Placed, TypeInv, TypeOK
<1>3. app # "down"
  BY <1>1 DEF MigrationInv, NoneInside
<1>4. {m} \in SUBSET Migrators
  OBVIOUS
<1>5. /\ cmd'[m] = "none" /\ DOMAIN tx'[m] = {}
      /\ base'[m] = 0 /\ at'[m] = 0 /\ done'[m] = 0
      /\ \A n \in Migrators \ {m} : UNCHANGED <<cmd[n], base[n], at[n], done[n], tx[n]>>
  BY <1>1, <1>4, EndStep
<1>6. \A n \in Migrators \ {m} :
        overtaken'[n] = (cmd[n] # "none" /\ (overtaken[n] \/ at[m] # base[m]))
  BY <1>1
<1> QED
  BY <1>1, <1>2, <1>3, <1>5, <1>6 DEF Fresh, Kept

\* A commit that changes no version changes nothing.
LEMMA CommitNothing ==
  ASSUME ChainFits, MigrationInv, NEW m \in Migrators, Commit(m), at[m] = base[m]
  PROVE  MigrationInv'
<1>1. /\ TypeInv /\ Placed(m) /\ tables' = View(m) /\ ver' = ver
  BY DEF MigrationInv, Commit
<1>2. DOMAIN tx[m] = {}
  BY CommitFacts DEF MigrationInv, Placed
<1>3. SameColumns(Tables)
  BY <1>1, <1>2, ViewAt DEF SameColumns
<1>4. \A n \in Migrators : Untouched(n) \/ Fresh(n)
  <2> SUFFICES ASSUME NEW n \in Migrators \ {m} PROVE Untouched(n) \/ Fresh(n)
    BY CommitFacts
  <2>1. Kept(n) /\ overtaken'[n] = (cmd[n] # "none" /\ overtaken[n])
    BY CommitFacts
  <2>2. CASE cmd[n] = "none"
    BY <2>1, <2>2 DEF Kept, Fresh, MigrationInv, Placed
  <2>3. CASE cmd[n] # "none"
    <3>1. overtaken[n] \in BOOLEAN
      BY <1>1 DEF TypeInv, TypeOK
    <3> QED
      BY <2>1, <2>3, <3>1 DEF Untouched
  <2> QED
    BY <2>2, <2>3
<1>5. NoneInside'
  BY CommitFacts DEF NoneInside
<1> QED
  BY <1>1, <1>3, <1>4, <1>5, CommitTypes, QuietStep

\* A commit that changes the version puts the schema of the new one in place.
LEMMA CommitSchema ==
  ASSUME ChainFits, MigrationInv, NEW m \in Migrators, Commit(m), at[m] # base[m]
  PROVE  SchemaFollowsRevision'
<1>1. /\ TypeInv /\ Worked(m) /\ Current(m) /\ SchemaFollowsRevision
      /\ tables' = View(m) /\ ver' = at[m]
  BY DEF MigrationInv, Commit
<1>2. /\ cmd[m] \in {"upgrade", "downgrade"} /\ done[m] = 0 /\ at[m] \in 0 .. Latest
  BY <1>1, CommitFacts DEF TypeInv, TypeOK
<1>3. ver = base[m]
  BY <1>1 DEF Current
<1>4. Reached(m) = SchemaAt(at[m])
  BY <1>2, SchemaFacts DEF Reached
<1>5. \A t \in Tables : Follows(View(m)[t].cols, SchemaAt(at[m])[t].cols)
  BY <1>1, <1>2, <1>3, <1>4 DEF Worked, SchemaFollowsRevision
<1> QED
  BY <1>1, <1>5 DEF SchemaFollowsRevision

LEMMA CommitStep ==
  ASSUME ChainFits, MigrationInv, NEW m \in Migrators, Commit(m), at[m] # base[m]
  PROVE  MigrationInv'
<1>1. /\ TypeInv /\ Placed(m) /\ Current(m) /\ Apart /\ tables' = View(m) /\ ver' = at[m]
  BY DEF MigrationInv, Commit
<1>2. /\ cmd[m] \in {"upgrade", "downgrade"} /\ Located(m) /\ done[m] = 0 /\ Fresh(m)
      /\ app' # "down"
      /\ \A n \in Migrators \ {m} :
           Kept(n) /\ overtaken'[n] = (cmd[n] # "none" /\ (overtaken[n] \/ at[m] # base[m]))
  BY CommitFacts
<1>3. Placed(m)' /\ Current(m)' /\ Worked(m)'
  BY <1>2, CommitTypes, PlacedFresh, CurrentFresh, WorkedFresh
<1>4. ASSUME NEW n \in Migrators \ {m}
      PROVE  Placed(n)' /\ Current(n)' /\ Worked(n)'
  <2>1. /\ Placed(n) /\ Current(n) /\ Worked(n) /\ Kept(n)
        /\ DOMAIN tx[n] \cap DOMAIN tx[m] = {} /\ at[n] = base[n]
    BY <1>1, <1>2, <1>4 DEF MigrationInv, Apart
  <2>2. Placed(n)'
    BY <1>4, <2>1, PlacedKept
  <2>3. SameColumns(DOMAIN tx[n])
    BY <1>1, <1>4, <2>1, ViewAt DEF SameColumns, TypeInv, TypeOK
  <2>4. Worked(n)'
    BY <1>1, <1>4, <2>1, <2>3, CommitTypes, WorkedKept
  <2>5. ~(cmd[n] = "upgrade" /\ base[n] = 0 /\ done[n] > 0)
    <3> SUFFICES ASSUME cmd[n] = "upgrade", base[n] = 0, done[n] > 0 PROVE FALSE
      OBVIOUS
    <3>1. ver = 0 /\ "users" \in DOMAIN tx[n]
      BY <2>1 DEF Current
    <3>2. base[m] = 0
      BY <1>1, <3>1 DEF Current
    <3>3. cmd[m] = "upgrade"
      BY <1>2, <3>2 DEF Located, Target
    <3>4. "users" \in DOMAIN tx[m]
      BY <1>1, <3>2, <3>3 DEF Current
    <3> QED
      BY <2>1, <3>1, <3>4
  <2>6. cmd'[n] # "none" => overtaken'[n]
    BY <1>2, <2>1 DEF Kept
  <2>7. Current(n)'
    BY <2>1, <2>5, <2>6 DEF Current, Kept
  <2> QED
    BY <2>2, <2>4, <2>7
<1>5. Apart'
  <2>1. DOMAIN tx'[m] = {} /\ at'[m] = base'[m]
    BY <1>2 DEF Fresh
  <2>2. \A n \in Migrators \ {m} : tx'[n] = tx[n] /\ at'[n] = at[n] /\ base'[n] = base[n]
    BY <1>2 DEF Kept
  <2> QED
    BY <1>1, <2>1, <2>2 DEF Apart
<1>6. NoneInside'
  BY <1>2 DEF NoneInside
<1> QED
  BY <1>3, <1>4, <1>5, <1>6, CommitTypes, CommitSchema DEF MigrationInv

-----------------------------------------------------------------------------
(* The rows of the logs. *)

Logs == tables["firewall_logs"]

\* A sequence, whatever its elements.
IsSequence(s) == Len(s) \in Nat /\ s = [i \in 1 .. Len(s) |-> s[i]]

\* The table has a row for each log that was written, with what it said in these columns,
\* and a value in each column that is NOT NULL.
RowsHold(table, home) ==
  /\ DOMAIN table = {"cols", "rows"}
  /\ table.rows = [i \in 1 .. Len(written) |-> table.rows[i]]
  /\ \A i \in 1 .. Len(written) :
       /\ DOMAIN table.rows[i] = DOMAIN table.cols
       /\ \A f \in Fields :
            /\ home[f] \in DOMAIN table.cols
            /\ written[i][f] # Null => table.rows[i][home[f]] = written[i][f]
       /\ \A c \in DOMAIN table.cols : ~table.cols[c].null => table.rows[i][c] # Null

\* Where the command's operations so far have left the fields, and whether they took a
\* table without logs.
Place(m) == Where(cmd[m], at[m], done[m])
Cleared(m) == Emptied(cmd[m], at[m], done[m])

\* A command that has touched the logs carries them, if the table was that of its base.
Carried(m) ==
  cmd[m] # "none" =>
    IF "firewall_logs" \in DOMAIN tx[m]
    THEN Follows(Logs.cols, SchemaAt(base[m])["firewall_logs"].cols) =>
           /\ RowsHold(tx[m]["firewall_logs"], Place(m))
           /\ Cleared(m) => Len(written) = 0
    ELSE Place(m) = Home(SchemaAt(base[m])["firewall_logs"].cols) /\ ~Cleared(m)

LogsInv ==
  /\ IsSequence(written)
  /\ RowsHold(Logs, Home(Logs.cols))
  /\ \A m \in Migrators : Carried(m)

LEMMA SequenceLength ==
  ASSUME NEW n \in Nat, NEW s, s = [i \in 1 .. n |-> s[i]]
  PROVE  Len(s) = n /\ s \in Seq({s[i] : i \in 1 .. n})
<1>1. s \in [1 .. n -> {s[i] : i \in 1 .. n}]
  OBVIOUS
<1>2. s \in Seq({s[i] : i \in 1 .. n})
  BY <1>1
<1> QED
  BY <1>1, <1>2

LEMMA Appended ==
  ASSUME NEW s, IsSequence(s), NEW e
  PROVE  LET a == Append(s, e) IN
         /\ IsSequence(a) /\ Len(a) = Len(s) + 1
         /\ \A i \in 1 .. Len(s) : a[i] = s[i]
         /\ a[Len(s) + 1] = e /\ Last(a) = e
<1>1. PICK S, a, n : S = {s[i] : i \in 1 .. Len(s)} \cup {e} /\ a = Append(s, e) /\ n = Len(s)
  OBVIOUS
<1>2. s \in [1 .. n -> S] /\ e \in S /\ n \in Nat
  BY <1>1 DEF IsSequence
<1>3. s \in Seq(S) /\ Len(s) = n
  BY <1>2
<1>4. a \in Seq(S) /\ Len(a) = n + 1 /\ a[n + 1] = e /\ \A i \in 1 .. n : a[i] = s[i]
  BY <1>1, <1>2, <1>3
<1>5. a = [i \in 1 .. n + 1 |-> a[i]]
  BY <1>4
<1> QED
  BY <1>1, <1>2, <1>4, <1>5 DEF Last, IsSequence

LEMMA HomeByColumns == ASSUME NEW a, NEW b, DOMAIN a = DOMAIN b PROVE Home(a) = Home(b)
BY DEF Home

\* Where the logs have a table, each field has a column.
LEMMA HomeOfField ==
  ASSUME ChainFits, NEW v \in 0 .. Latest, NEW cols, DOMAIN cols # {},
         DOMAIN cols = DOMAIN SchemaAt(v)["firewall_logs"].cols, NEW f \in Fields
  PROVE  /\ Home(cols)[f] \in DOMAIN cols
         /\ Home(cols)[f] = CHOOSE c \in DOMAIN cols : Holds(f, c)
<1>1. \E c \in DOMAIN cols : Holds(f, c)
  BY DEF ChainFits, LogsKept, Exists
<1> QED
  BY <1>1 DEF Home

\* Where nothing was written, no row can be lost.
LEMMA NothingHeld ==
  ASSUME Len(written) = 0, NEW table, NEW home, RowsHold(table, home), NEW other
  PROVE  RowsHold(table, other)
BY DEF RowsHold

LEMMA NothingChanged ==
  ASSUME Len(written) = 0, NEW o, o.op \in OpNames,
         NEW table, NEW home, RowsHold(table, home), NEW other
  PROVE  RowsHold(Changed(o, table), other)
<1> DEFINE changed == Changed(o, table)
<1>1. DOMAIN table = {"cols", "rows"} /\ DOMAIN table.rows = 1 .. 0
  BY DEF RowsHold
<1>2. DOMAIN changed = {"cols", "rows"} /\ changed.rows = [i \in 1 .. 0 |-> changed.rows[i]]
  <2>1. CASE o.op \in {"create", "drop table"}
    <3>1. DOMAIN changed = {"cols", "rows"} /\ changed.rows = << >>
      BY <2>1 DEF Changed, NoTable
    <3>2. << >> = [i \in 1 .. 0 |-> << >>[i]]
      OBVIOUS
    <3> QED
      BY <3>1, <3>2
  <2>2. CASE o.op = "add"
    BY <1>1, <2>2 DEF Changed
  <2>3. CASE o.op = "drop"
    BY <1>1, <2>3 DEF Changed
  <2>4. CASE o.op = "alter"
    BY <1>1, <2>4 DEF Changed, RowsHold
  <2>5. CASE o.op = "update"
    BY <1>1, <2>5 DEF Changed
  <2> QED
    BY <2>1, <2>2, <2>3, <2>4, <2>5 DEF OpNames
<1> QED
  BY <1>2 DEF RowsHold

\* An operation that no row is in the way of leaves a value in each column that has to have
\* one.
LEMMA KeptValues ==
  ASSUME Len(written) \in Nat, NEW o, o.table = "firewall_logs",
         o.op \in {"add", "drop", "alter", "update"},
         NEW table, NEW from, RowsHold(table, from),
         NEW db, db["firewall_logs"] = table, ~Obstructs(o, db),
         o.op = "alter" => DOMAIN o.cols \subseteq DOMAIN table.cols,
         o.op = "update" => /\ DOMAIN o.from \subseteq DOMAIN table.cols
                            /\ \A c \in DOMAIN o.from : table.cols[c].null
  PROVE  \A i \in 1 .. Len(written) : \A c \in DOMAIN Changed(o, table).cols :
           ~Changed(o, table).cols[c].null => Changed(o, table).rows[i][c] # Null
<1> DEFINE changed == Changed(o, table)  N == 1 .. Len(written)
<1>1. /\ DOMAIN table = {"cols", "rows"} /\ DOMAIN table.rows = N
      /\ table.rows = [i \in N |-> table.rows[i]]
  BY DEF RowsHold
<1>2. ASSUME NEW i \in N
      PROVE  /\ DOMAIN table.rows[i] = DOMAIN table.cols
             /\ \A c \in DOMAIN table.cols : ~table.cols[c].null => table.rows[i][c] # Null
  BY DEF RowsHold
<1> SUFFICES ASSUME NEW i \in N, NEW c \in DOMAIN changed.cols, ~changed.cols[c].null
    PROVE  changed.rows[i][c] # Null
  OBVIOUS
<1>3. CASE o.op = "add"
  <2>1. changed = [cols |-> table.cols ++ o.cols,
                   rows |-> [k \in N |-> table.rows[k] ++
                     [d \in DOMAIN o.cols |-> IF o.cols[d].default THEN "default" ELSE Null]]]
    BY <1>1, <1>3 DEF Changed
  <2>2. CASE c \in DOMAIN table.cols
    BY <1>2, <2>1, <2>2 DEF ++
  <2>3. CASE c \notin DOMAIN table.cols
    <3>1. /\ c \in DOMAIN o.cols /\ ~o.cols[c].null
          /\ changed.rows[i][c] = IF o.cols[c].default THEN "default" ELSE Null
      BY <1>2, <2>1, <2>3 DEF ++
    <3>2. o.cols[c].default
      BY <1>1, <1>3, <3>1 DEF Obstructs
    <3> QED
      BY <3>1, <3>2 DEF Null
  <2> QED
    BY <2>2, <2>3
<1>4. CASE o.op = "drop"
  <2> DEFINE kept == DOMAIN table.cols \ o.names
  <2>1. changed = [cols |-> [d \in kept |-> table.cols[d]],
                   rows |-> [k \in N |-> [d \in kept |-> table.rows[k][d]]]]
    BY <1>1, <1>4 DEF Changed, Restrict
  <2> QED
    BY <1>2, <2>1
<1>5. CASE o.op = "alter"
  <2>1. changed = [table EXCEPT !.cols = o.cols ++ table.cols]
    BY <1>5 DEF Changed
  <2>2. /\ changed.rows = table.rows /\ DOMAIN changed.cols = DOMAIN table.cols
        /\ changed.cols[c] = IF c \in DOMAIN o.cols THEN o.cols[c] ELSE table.cols[c]
    BY <1>1, <1>5, <2>1 DEF ++
  <2>3. CASE c \in DOMAIN o.cols
    BY <1>1, <1>5, <2>2, <2>3 DEF Obstructs
  <2>4. CASE c \notin DOMAIN o.cols
    BY <1>2, <2>2, <2>4
  <2> QED
    BY <2>3, <2>4
<1>6. CASE o.op = "update"
  <2>1. changed = [table EXCEPT !.rows = [k \in N |->
                     [d \in DOMAIN o.from |-> Assigned(o, table.rows[k], d)] ++ table.rows[k]]]
    BY <1>1, <1>6 DEF Changed
  <2>2. /\ changed.cols = table.cols
        /\ changed.rows = [k \in N |->
             [d \in DOMAIN o.from |-> Assigned(o, table.rows[k], d)] ++ table.rows[k]]
    BY <1>1, <2>1
  <2>3. c \in DOMAIN table.cols /\ c \notin DOMAIN o.from
    BY <1>6, <2>2
  <2>4. changed.rows[i][c] = table.rows[i][c]
    BY <1>2, <2>2, <2>3 DEF ++
  <2> QED
    BY <1>2, <2>2, <2>3, <2>4
<1> QED
  BY <1>3, <1>4, <1>5, <1>6

\* An operation that leaves each field in its column, or copies it, keeps every row.
LEMMA KeptRows ==
  ASSUME Len(written) \in Nat, NEW o, o.table = "firewall_logs",
         o.op \in {"add", "drop", "alter", "update"},
         NEW table, NEW from, RowsHold(table, from),
         NEW db, db["firewall_logs"] = table, ~Obstructs(o, db),
         o.op = "alter" => DOMAIN o.cols \subseteq DOMAIN table.cols,
         o.op = "update" => /\ DOMAIN o.from \subseteq DOMAIN table.cols
                            /\ \A c \in DOMAIN o.from : table.cols[c].null,
         NEW to,
         \A f \in Fields :
           /\ to[f] \in DOMAIN Changed(o, table).cols
           /\ IF CopiesLogs(o) /\ to[f] \in DOMAIN o.from THEN o.from[to[f]] = from[f]
              ELSE to[f] = from[f]
  PROVE  RowsHold(Changed(o, table), to)
<1> DEFINE changed == Changed(o, table)  N == 1 .. Len(written)
<1>1. /\ DOMAIN table = {"cols", "rows"} /\ DOMAIN table.rows = N
      /\ table.rows = [i \in N |-> table.rows[i]]
  BY DEF RowsHold
<1>2. ASSUME NEW i \in N
      PROVE  /\ DOMAIN table.rows[i] = DOMAIN table.cols
             /\ \A f \in Fields :
                  /\ from[f] \in DOMAIN table.cols
                  /\ written[i][f] # Null => table.rows[i][from[f]] = written[i][f]
  BY DEF RowsHold
<1>7. \A i \in N : \A c \in DOMAIN changed.cols :
        ~changed.cols[c].null => changed.rows[i][c] # Null
  <2>1. \A i \in 1 .. Len(written) : \A c \in DOMAIN Changed(o, table).cols :
          ~Changed(o, table).cols[c].null => Changed(o, table).rows[i][c] # Null
    BY KeptValues
  <2> QED
    BY <2>1
<1> SUFFICES
      /\ DOMAIN changed = {"cols", "rows"}
      /\ changed.rows = [i \in N |-> changed.rows[i]]
      /\ \A i \in N :
           /\ DOMAIN changed.rows[i] = DOMAIN changed.cols
           /\ \A f \in Fields :
                /\ to[f] \in DOMAIN changed.cols
                /\ written[i][f] # Null => changed.rows[i][to[f]] = written[i][f]
  BY <1>7 DEF RowsHold
<1>3. CASE o.op = "add"
  <2>1. changed = [cols |-> table.cols ++ o.cols,
                   rows |-> [i \in N |-> table.rows[i] ++
                     [c \in DOMAIN o.cols |-> IF o.cols[c].default THEN "default" ELSE Null]]]
    BY <1>1, <1>3 DEF Changed
  <2>2. \A i \in N : /\ DOMAIN changed.rows[i] = DOMAIN table.rows[i] \cup DOMAIN o.cols
                     /\ \A c \in DOMAIN table.rows[i] : changed.rows[i][c] = table.rows[i][c]
    BY <2>1 DEF ++
  <2>3. DOMAIN changed.cols = DOMAIN table.cols \cup DOMAIN o.cols
    BY <2>1 DEF ++
  <2>4. \A f \in Fields : to[f] = from[f]
    BY <1>3 DEF CopiesLogs
  <2>5. DOMAIN changed = {"cols", "rows"} /\ changed.rows = [i \in N |-> changed.rows[i]]
    BY <2>1
  <2> HIDE DEF changed
  <2>6. \A i \in N : DOMAIN changed.rows[i] = DOMAIN changed.cols
    BY <1>2, <2>2, <2>3
  <2>7. \A i \in N : \A f \in Fields :
          /\ to[f] \in DOMAIN changed.cols
          /\ written[i][f] # Null => changed.rows[i][to[f]] = written[i][f]
    BY <1>2, <2>2, <2>3, <2>4
  <2> QED
    BY <2>5, <2>6, <2>7
<1>4. CASE o.op = "drop"
  <2> DEFINE kept == DOMAIN table.cols \ o.names
  <2>1. changed = [cols |-> [c \in kept |-> table.cols[c]],
                   rows |-> [i \in N |-> [c \in kept |-> table.rows[i][c]]]]
    BY <1>1, <1>4 DEF Changed, Restrict
  <2>2. \A f \in Fields : to[f] = from[f] /\ to[f] \in kept
    BY <1>4, <2>1 DEF CopiesLogs
  <2> QED
    BY <1>2, <2>1, <2>2
<1>5. CASE o.op = "alter"
  <2>1. changed = [table EXCEPT !.cols = o.cols ++ table.cols]
    BY <1>5 DEF Changed
  <2>2. /\ changed.rows = table.rows /\ DOMAIN changed = {"cols", "rows"}
        /\ DOMAIN changed.cols = DOMAIN table.cols
    BY <1>1, <1>5, <2>1 DEF ++
  <2>3. \A f \in Fields : to[f] = from[f]
    BY <1>5 DEF CopiesLogs
  <2> QED
    BY <1>1, <1>2, <2>2, <2>3
<1>6. CASE o.op = "update"
  <2>1. changed = [table EXCEPT !.rows = [i \in N |->
                     [c \in DOMAIN o.from |-> Assigned(o, table.rows[i], c)] ++ table.rows[i]]]
    BY <1>1, <1>6 DEF Changed
  <2>2. /\ DOMAIN changed = {"cols", "rows"} /\ changed.cols = table.cols
        /\ changed.rows = [i \in N |->
             [c \in DOMAIN o.from |-> Assigned(o, table.rows[i], c)] ++ table.rows[i]]
    BY <1>1, <2>1
  <2>3. ASSUME NEW i \in N
        PROVE  /\ DOMAIN changed.rows[i] = DOMAIN table.cols
               /\ \A c \in DOMAIN table.cols : changed.rows[i][c] =
                    IF c \in DOMAIN o.from THEN Assigned(o, table.rows[i], c)
                    ELSE table.rows[i][c]
    BY <1>2, <1>6, <2>2 DEF ++
  <2>4. ASSUME NEW i \in N, NEW f \in Fields, written[i][f] # Null
        PROVE  changed.rows[i][to[f]] = written[i][f]
    <3>1. to[f] \in DOMAIN table.cols /\ table.rows[i][from[f]] = written[i][f]
      BY <1>2, <2>2, <2>4
    <3>2. CASE to[f] \in DOMAIN o.from
      <4>1. o.from[to[f]] = from[f]
        BY <1>6, <3>2 DEF CopiesLogs
      <4> QED
        BY <2>3, <2>4, <3>1, <3>2, <4>1 DEF Assigned
    <3>3. CASE to[f] \notin DOMAIN o.from
      BY <2>3, <3>1, <3>3
    <3> QED
      BY <3>2, <3>3
  <2> QED
    BY <2>2, <2>3, <2>4
<1> QED
  BY <1>3, <1>4, <1>5, <1>6

-----------------------------------------------------------------------------
(* The steps that move no log. *)

\* A command that stays as it is still carries the logs, which nobody else can touch.
LEMMA CarriedKept ==
  ASSUME NEW m \in Migrators, Carried(m), Kept(m),
         "firewall_logs" \in DOMAIN tx[m] => Logs' = Logs /\ written' = written
  PROVE  Carried(m)'
<1> SUFFICES ASSUME cmd'[m] # "none"
    PROVE  IF "firewall_logs" \in DOMAIN tx'[m]
           THEN Follows(Logs'.cols, SchemaAt(base'[m])["firewall_logs"].cols) =>
                  /\ RowsHold(tx[m]["firewall_logs"], Place(m))'
                  /\ Cleared(m)' => Len(written') = 0
           ELSE /\ Place(m)' = Home(SchemaAt(base'[m])["firewall_logs"].cols)
                /\ ~Cleared(m)'
  BY DEF Carried
<1>1. /\ cmd[m] # "none" /\ base'[m] = base[m] /\ tx'[m] = tx[m]
      /\ Place(m)' = Place(m) /\ (Cleared(m)' <=> Cleared(m))
  BY DEF Kept, Place, Cleared
<1>2. CASE "firewall_logs" \in DOMAIN tx[m]
  <2>1. Logs' = Logs /\ written' = written
    BY <1>2
  <2>2. RowsHold(tx[m]["firewall_logs"], Place(m))' = RowsHold(tx[m]["firewall_logs"], Place(m))
    BY <1>1, <2>1 DEF RowsHold
  <2> QED
    BY <1>1, <1>2, <2>1, <2>2 DEF Carried
<1>3. CASE "firewall_logs" \notin DOMAIN tx[m]
  BY <1>1, <1>3 DEF Carried
<1> QED
  BY <1>2, <1>3

\* A command that has done nothing carries nothing.
LEMMA CarriedFresh == ASSUME NEW m \in Migrators, Fresh(m) PROVE Carried(m)'
<1>1. ~\E k \in 1 .. 0 : TRUE
  OBVIOUS
<1>2. Cleared(m)' = FALSE /\ Place(m)' = Home(SchemaAt(base'[m])["firewall_logs"].cols)
  BY <1>1 DEF Fresh, Cleared, Emptied, Place, Where
<1> QED
  BY <1>2 DEF Carried, Fresh

\* A step that changes no log, and keeps every command or ends or begins it.
LEMMA QuietLogs ==
  ASSUME LogsInv, Logs' = Logs, written' = written,
         \A m \in Migrators : Kept(m) \/ Fresh(m)
  PROVE  LogsInv'
<1>1. IsSequence(written)'
  BY DEF LogsInv
<1>2. RowsHold(Logs, Home(Logs.cols))'
  BY DEF LogsInv, RowsHold, Logs
<1>3. \A m \in Migrators : Carried(m)'
  BY CarriedKept, CarriedFresh DEF LogsInv
<1> QED
  BY <1>1, <1>2, <1>3 DEF LogsInv

-----------------------------------------------------------------------------
(* The steps that write logs or move them. *)

\* A release that has the logs writes some of their columns.
LEMMA WritesColumns ==
  ASSUME ChainFits, NEW r \in 0 .. Latest, Exists(SchemaAt(r), "firewall_logs")
  PROVE  DOMAIN Columns(r, "firewall_logs") # {}
<1>1. "firewall_logs" \in Tables
  BY DEF Tables
<1>2. CASE r = Latest
  <2>1. FitsModels(SchemaAt(Latest))
    BY DEF ChainFits, SchemasFit
  <2>2. "firewall_logs" \in DOMAIN Models
    BY <1>1, <1>2, <2>1 DEF FitsModels
  <2>3. DOMAIN SchemaAt(Latest)["firewall_logs"].cols = DOMAIN Models["firewall_logs"]
    BY <1>1, <2>1, <2>2 DEF FitsModels
  <2> QED
    BY <1>2, <2>3 DEF Exists, Columns
<1>3. CASE r # Latest
  BY <1>3 DEF Exists, Columns
<1> QED
  BY <1>2, <1>3

LEMMA InsertLogRows ==
  ASSUME ChainFits, MigrationInv, LogsInv, NEW optional, NEW wide, InsertLog(optional, wide)
  PROVE  LogsInv'
<1> DEFINE n == Len(written)
<1>1. /\ Exists(SchemaAt(release), "firewall_logs")
      /\ \A m \in Migrators : "firewall_logs" \notin DOMAIN tx[m]
      /\ UNCHANGED <<ver, release, app, cmd, base, at, done, tx, overtaken, interventions>>
      /\ written' = Append(written, Content(Last(Logs'.rows)))
  BY DEF InsertLog, Insert, Logs
<1> DEFINE given == Columns(release, "firewall_logs")
           inserted == [c \in DOMAIN tables["firewall_logs"].cols |->
             IF c \in DOMAIN given THEN Value(c, given[c], optional, wide)
             ELSE IF tables["firewall_logs"].cols[c].default THEN "default" ELSE Null]
<1>2. PICK row : /\ tables' = [tables EXCEPT !["firewall_logs"].rows = Append(@, row)]
                 /\ DOMAIN row = DOMAIN tables["firewall_logs"].cols
                 /\ Accepts("firewall_logs", row)
  <2>1. /\ tables' = [tables EXCEPT !["firewall_logs"].rows = Append(@, inserted)]
        /\ Accepts("firewall_logs", inserted)
    BY DEF InsertLog, Insert
  <2>2. DOMAIN inserted = DOMAIN tables["firewall_logs"].cols
    OBVIOUS
  <2> HIDE DEF inserted
  <2> QED
    BY <2>1, <2>2
<1> HIDE DEF given, inserted
<1>3. /\ n \in Nat /\ written = [i \in 1 .. n |-> written[i]]
      /\ DOMAIN Logs = {"cols", "rows"} /\ Logs.rows = [i \in 1 .. n |-> Logs.rows[i]]
      /\ \A i \in 1 .. n :
           /\ DOMAIN Logs.rows[i] = DOMAIN Logs.cols
           /\ \A f \in Fields :
                /\ Home(Logs.cols)[f] \in DOMAIN Logs.cols
                /\ written[i][f] # Null => Logs.rows[i][Home(Logs.cols)[f]] = written[i][f]
           /\ \A c \in DOMAIN Logs.cols : ~Logs.cols[c].null => Logs.rows[i][c] # Null
  BY DEF LogsInv, RowsHold, IsSequence
<1>4. "firewall_logs" \in DOMAIN tables
  BY DEF MigrationInv, TypeInv, TypeOK, Tables
<1>5. /\ Logs' = [Logs EXCEPT !.rows = Append(Logs.rows, row)]
      /\ DOMAIN row = DOMAIN Logs.cols
      /\ \A c \in DOMAIN Logs.cols : ~Logs.cols[c].null => row[c] # Null
  BY <1>2, <1>4 DEF Logs, Accepts
<1>6. /\ DOMAIN Logs' = {"cols", "rows"} /\ Logs'.cols = Logs.cols
      /\ Logs'.rows = Append(Logs.rows, row)
  BY <1>3, <1>5
<1>7. PICK rows, old : rows = Logs'.rows /\ old = Logs.rows
  OBVIOUS
<1>8. /\ Len(rows) = n + 1 /\ rows = [i \in 1 .. n + 1 |-> rows[i]]
      /\ \A i \in 1 .. n : rows[i] = Logs.rows[i]
      /\ rows[n + 1] = row /\ Last(rows) = row
  <2>1. rows = Append(old, row) /\ old = [i \in 1 .. n |-> old[i]] /\ n \in Nat
    BY <1>3, <1>6, <1>7
  <2>2. IsSequence(old) /\ Len(old) = n
    BY <2>1, SequenceLength DEF IsSequence
  <2> HIDE DEF n
  <2>3. /\ IsSequence(rows) /\ Len(rows) = n + 1
        /\ \A i \in 1 .. n : rows[i] = old[i]
        /\ rows[n + 1] = row /\ Last(rows) = row
    BY <2>1, <2>2, Appended
  <2> QED
    BY <1>7, <2>3 DEF IsSequence
<1>9. /\ Len(written') = n + 1 /\ written' = [i \in 1 .. n + 1 |-> written'[i]]
      /\ \A i \in 1 .. n : written'[i] = written[i]
      /\ written'[n + 1] = Content(row)
  <2>1. PICK log, w : log = Content(row) /\ w = written' /\ w = Append(written, log)
    BY <1>1, <1>7, <1>8
  <2>2. IsSequence(written)
    BY DEF LogsInv
  <2>3. /\ IsSequence(w) /\ Len(w) = n + 1
        /\ \A i \in 1 .. n : w[i] = written[i]
        /\ w[n + 1] = log
    BY <2>1, <2>2, Appended
  <2> QED
    BY <2>1, <2>3 DEF IsSequence
<1>10. ASSUME NEW f \in Fields
       PROVE  /\ Home(Logs.cols)[f] \in DOMAIN Logs.cols
              /\ Content(row)[f] = row[Home(Logs.cols)[f]]
  <2>1. release \in 0 .. Latest /\ ver \in 0 .. Latest /\ "firewall_logs" \in Tables
    BY ReleasesAssumption, LatestPositive DEF MigrationInv, TypeInv, TypeOK, Tables
  <2>2. DOMAIN Columns(release, "firewall_logs") # {}
    BY <1>1, <2>1, WritesColumns
  <2>3. DOMAIN Logs.cols # {}
    BY <1>2, <2>2 DEF Accepts, Logs
  <2>4. DOMAIN Logs.cols = DOMAIN SchemaAt(ver)["firewall_logs"].cols
    BY <2>1 DEF MigrationInv, SchemaFollowsRevision, Follows, Logs
  <2>5. /\ Home(Logs.cols)[f] \in DOMAIN Logs.cols
        /\ Home(Logs.cols)[f] = CHOOSE c \in DOMAIN Logs.cols : Holds(f, c)
    BY <2>1, <2>3, <2>4, HomeOfField
  <2> QED
    BY <1>5, <2>5 DEF Content
<1>11. RowsHold(Logs, Home(Logs.cols))'
  <2> SUFFICES ASSUME NEW i \in 1 .. n + 1
      PROVE  /\ DOMAIN rows[i] = DOMAIN Logs.cols
             /\ \A f \in Fields :
                  /\ Home(Logs.cols)[f] \in DOMAIN Logs.cols
                  /\ written'[i][f] # Null => rows[i][Home(Logs.cols)[f]] = written'[i][f]
             /\ \A c \in DOMAIN Logs.cols : ~Logs.cols[c].null => rows[i][c] # Null
    <3>1. Len(written') = n + 1
      BY <1>9
    <3>2. /\ DOMAIN Logs' = {"cols", "rows"} /\ Logs'.cols = Logs.cols /\ Logs'.rows = rows
          /\ rows = [i \in 1 .. n + 1 |-> rows[i]]
      BY <1>6, <1>7, <1>8
    <3> HIDE DEF n
    <3> QED
      BY <3>1, <3>2 DEF RowsHold
  <2>1. CASE i = n + 1
    BY <1>5, <1>8, <1>9, <1>10, <2>1
  <2>2. CASE i # n + 1
    <3>1. i \in 1 .. n
      BY <1>3, <2>2
    <3>2. rows[i] = Logs.rows[i] /\ written'[i] = written[i]
      BY <1>8, <1>9, <3>1
    <3> QED
      BY <1>3, <3>1, <3>2
  <2> QED
    BY <2>1, <2>2
<1>12. IsSequence(written)'
  BY <1>3, <1>9 DEF IsSequence
<1>13. \A m \in Migrators : Carried(m)'
  <2>1. \A m \in Migrators : Kept(m)
    BY <1>1 DEF Kept
  <2> QED
    BY <1>1, <2>1, CarriedKept DEF LogsInv
<1> QED
  BY <1>11, <1>12, <1>13 DEF LogsInv

\* What a command sees of the logs, if their table was that of its base.
LEMMA SeenRows ==
  ASSUME TypeInv, LogsInv, NEW m \in Migrators, cmd[m] # "none",
         Follows(Logs.cols, SchemaAt(base[m])["firewall_logs"].cols)
  PROVE  /\ RowsHold(View(m)["firewall_logs"], Place(m))
         /\ Cleared(m) => Len(written) = 0
<1>1. /\ "firewall_logs" \in Tables
      /\ View(m)["firewall_logs"] =
           IF "firewall_logs" \in DOMAIN tx[m] THEN tx[m]["firewall_logs"] ELSE Logs
  <2>1. "firewall_logs" \in Tables
    BY DEF Tables
  <2> QED
    BY <2>1, ViewAt DEF Logs
<1>2. Carried(m) /\ RowsHold(Logs, Home(Logs.cols))
  BY DEF LogsInv
<1>3. CASE "firewall_logs" \in DOMAIN tx[m]
  BY <1>1, <1>2, <1>3 DEF Carried
<1>4. CASE "firewall_logs" \notin DOMAIN tx[m]
  <2>1. Place(m) = Home(SchemaAt(base[m])["firewall_logs"].cols) /\ ~Cleared(m)
    BY <1>2, <1>4 DEF Carried
  <2>2. Home(Logs.cols) = Home(SchemaAt(base[m])["firewall_logs"].cols)
    BY HomeByColumns DEF Follows
  <2> QED
    BY <1>1, <1>2, <1>4, <2>1, <2>2
<1> QED
  BY <1>3, <1>4

\* A commit makes of the logs what the command saw.
LEMMA CommitLogs ==
  ASSUME ChainFits, MigrationInv, LogsInv, NEW m \in Migrators, Commit(m)
  PROVE  LogsInv'
<1>1. /\ TypeInv /\ Placed(m) /\ tables' = View(m) /\ written' = written
      /\ "firewall_logs" \in Tables
  BY DEF MigrationInv, Commit, Tables
<1>2. /\ cmd[m] \in {"upgrade", "downgrade"} /\ done[m] = 0 /\ Fresh(m)
      /\ \A n \in Migrators \ {m} : Kept(n)
  BY CommitFacts
<1>3. Logs' = IF "firewall_logs" \in DOMAIN tx[m] THEN tx[m]["firewall_logs"] ELSE Logs
  BY <1>1, ViewAt DEF Logs
<1>4. CASE at[m] = base[m]
  <2>1. Logs' = Logs
    BY <1>1, <1>2, <1>3, <1>4 DEF Placed
  <2> QED
    BY <1>1, <1>2, <2>1, QuietLogs
<1>5. CASE at[m] # base[m]
  <2>1. ver = base[m] /\ at[m] \in 0 .. Latest /\ base[m] \in 0 .. Latest
    BY <1>1, <1>5 DEF MigrationInv, Current, TypeInv, TypeOK
  <2>2. Follows(Logs.cols, SchemaAt(base[m])["firewall_logs"].cols)
    BY <1>1, <2>1 DEF MigrationInv, SchemaFollowsRevision, Logs
  <2>3. RowsHold(View(m)["firewall_logs"], Place(m))
    BY <1>1, <1>2, <2>2, SeenRows
  <2>4. Reached(m) = SchemaAt(at[m])
    BY <1>2, <2>1, SchemaFacts DEF Reached
  <2>5. Follows(Logs'.cols, SchemaAt(at[m])["firewall_logs"].cols)
    BY <1>1, <1>2, <2>2, <2>4 DEF MigrationInv, Worked, Logs
  <2>6. Place(m) = Home(SchemaAt(at[m])["firewall_logs"].cols)
    <3>1. ~\E k \in 1 .. 0 : TRUE
      OBVIOUS
    <3> QED
      BY <1>2, <3>1 DEF Place, Where
  <2>7. Place(m) = Home(Logs'.cols)
    BY <2>5, <2>6, HomeByColumns DEF Follows
  <2>8. RowsHold(Logs, Home(Logs.cols))'
    <3>1. View(m)["firewall_logs"] = Logs'
      BY <1>1 DEF Logs
    <3> QED
      BY <1>1, <2>3, <2>7, <3>1 DEF RowsHold
  <2>9. \A n \in Migrators : Carried(n)'
    <3> SUFFICES ASSUME NEW n \in Migrators \ {m} PROVE Carried(n)'
      BY <1>2, CarriedFresh
    <3>1. DOMAIN tx[n] \cap DOMAIN tx[m] = {}
      BY DEF MigrationInv, Apart
    <3>2. "firewall_logs" \in DOMAIN tx[n] => Logs' = Logs
      BY <1>3, <3>1
    <3> QED
      BY <1>1, <1>2, <3>2, CarriedKept DEF LogsInv
  <2>10. IsSequence(written)'
    BY <1>1 DEF LogsInv
  <2> QED
    BY <2>8, <2>9, <2>10 DEF LogsInv
<1> QED
  BY <1>4, <1>5

-----------------------------------------------------------------------------
(* The steps of a command on the logs. *)

\* One more operation has been performed.
LEMMA OneMore ==
  ASSUME NEW command, NEW v, NEW n \in Nat, NEW o, o = OperationsOf(command, v)[n + 1]
  PROVE  /\ Emptied(command, v, n + 1) <=> Emptied(command, v, n) \/ NeedsNoLogs(o)
         /\ o.table # "firewall_logs" =>
              Where(command, v, n + 1) = Where(command, v, n)
<1>1. \A k : k \in 1 .. n + 1 <=> k \in 1 .. n \/ k = n + 1
  OBVIOUS
<1>2. Emptied(command, v, n + 1) <=> Emptied(command, v, n) \/ NeedsNoLogs(o)
  BY <1>1 DEF Emptied
<1>3. ASSUME o.table # "firewall_logs"
      PROVE  (\E k \in 1 .. n + 1 : CopiesLogs(OperationsOf(command, v)[k])) <=>
             (\E k \in 1 .. n : CopiesLogs(OperationsOf(command, v)[k]))
  BY <1>1, <1>3 DEF CopiesLogs
<1> QED
  BY <1>2, <1>3 DEF Where

\* An operation on the logs that was not refused took every row along, or there was none.
LEMMA OperateRows ==
  ASSUME ChainFits, TypeInv, Len(written) \in Nat, NEW m \in Migrators, Placed(m),
         Running(m), Refusal(NextOp(m), View(m)) = "none",
         NextOp(m).table = "firewall_logs",
         NEW table, table = View(m)["firewall_logs"],
         Follows(table.cols, Reached(m)["firewall_logs"].cols),
         NEW to, to = Where(cmd[m], at[m], done[m] + 1),
         RowsHold(table, Place(m)), Cleared(m) => Len(written) = 0,
         DOMAIN Changed(NextOp(m), table).cols =
           DOMAIN Partway(cmd[m], at[m], done[m] + 1)["firewall_logs"].cols
  PROVE  /\ RowsHold(Changed(NextOp(m), table), to)
         /\ Emptied(cmd[m], at[m], done[m] + 1) => Len(written) = 0
<1>1. PICK o, n : o = NextOp(m) /\ n = done[m]
  OBVIOUS
<1>2. /\ o.op \in OpNames /\ n \in 0 .. 7 /\ n + 1 <= Len(Operations(m))
      /\ ~Unnamed(Operations(m))
      /\ ~Misfits(o, View(m)) /\ ~Obstructs(o, View(m))
      /\ o = OperationsOf(cmd[m], at[m])[n + 1]
  BY <1>1, NextOpFacts, PerformedFits DEF Refusal, NextOp, Operations
<1>3. Busy(m)
  BY DEF Running
<1>4. KeepsLogs(cmd[m], at[m], n + 1)
  <2>1. /\ cmd[m] \in {"upgrade", "downgrade"} /\ at[m] \in 0 .. Latest
        /\ Runs(cmd[m], at[m])
    BY <1>3, BusyRuns
  <2>2. PICK k : k = n + 1
    OBVIOUS
  <2>3. k \in DOMAIN Operations(m)
    <3>1. PICK ops : ops = Operations(m)
      OBVIOUS
    <3>2. Len(ops) \in 1 .. 8 /\ DOMAIN ops = 1 .. Len(ops)
      BY <1>3, <3>1, BusyFacts
    <3>3. n \in 0 .. 7 /\ n + 1 <= Len(ops)
      BY <1>2, <3>1
    <3> QED
      BY <2>2, <3>1, <3>2, <3>3
  <2>4. KeepsLogs(cmd[m], at[m], k)
    BY <1>2, <2>1, <2>3 DEF ChainFits, LogsKept, Operations
  <2> QED
    BY <2>2, <2>4
<1>5. Emptied(cmd[m], at[m], n + 1) <=> Cleared(m) \/ NeedsNoLogs(o)
  <2>1. n \in Nat /\ o = OperationsOf(cmd[m], at[m])[n + 1]
    BY <1>2
  <2>2. Emptied(cmd[m], at[m], n + 1) <=> Emptied(cmd[m], at[m], n) \/ NeedsNoLogs(o)
    BY <2>1, OneMore
  <2> QED
    BY <1>1, <2>2 DEF Cleared
<1>6. ASSUME NeedsNoLogs(o) PROVE Len(written) = 0
  <2>1. DOMAIN table.rows = 1 .. Len(written)
    BY DEF RowsHold
  <2>2. CASE o.op = "create"
    <3>1. DOMAIN table.cols = {}
      BY <1>1, <1>2, <2>2 DEF Misfits, Exists
    <3>2. \A i \in 1 .. Len(written) : FALSE
      <4>1. "time" \in Fields
        BY DEF Fields
      <4> QED
        BY <3>1, <4>1 DEF RowsHold
    <3> QED
      BY <3>2
  <2>3. CASE o.op = "add" /\ \E c \in DOMAIN o.cols : ~o.cols[c].null /\ ~o.cols[c].default
    <3>1. \A i \in DOMAIN table.rows : FALSE
      BY <1>1, <1>2, <2>3 DEF Obstructs
    <3>2. \A i \in 1 .. Len(written) : FALSE
      BY <2>1, <3>1
    <3> QED
      BY <3>2
  <2> QED
    BY <1>6, <2>2, <2>3 DEF NeedsNoLogs, NeedsNoRows
<1>7. CASE Emptied(cmd[m], at[m], n + 1)
  <2>1. Len(written) = 0
    BY <1>5, <1>6, <1>7
  <2> QED
    BY <1>1, <1>2, <2>1, NothingChanged
<1>8. CASE ~Emptied(cmd[m], at[m], n + 1)
  <2>1. PICK from, k : from = Place(m) /\ k = n + 1
    OBVIOUS
  <2>2. /\ from = Where(cmd[m], at[m], k - 1) /\ to = Where(cmd[m], at[m], k)
        /\ o = OperationsOf(cmd[m], at[m])[k] /\ o.table = "firewall_logs"
        /\ KeepsLogs(cmd[m], at[m], k) /\ ~Emptied(cmd[m], at[m], k)
    <3>1. k - 1 = n
      BY <1>2, <2>1
    <3> QED
      BY <1>1, <1>2, <1>4, <1>8, <2>1, <3>1 DEF Place
  <2>3. /\ o.op # "drop table"
        /\ \A f \in Fields :
             /\ to[f] \in DOMAIN Partway(cmd[m], at[m], k)["firewall_logs"].cols
             /\ IF CopiesLogs(o) /\ to[f] \in DOMAIN o.from THEN o.from[to[f]] = from[f]
                ELSE to[f] = from[f]
    BY <2>2 DEF KeepsLogs
  <2>4. o.op # "create"
    BY <1>1, <1>5, <1>8 DEF NeedsNoLogs
  <2>5. o.op \in {"add", "drop", "alter", "update"}
    BY <1>2, <2>3, <2>4 DEF OpNames
  <2>6. /\ o.op = "alter" => DOMAIN o.cols \subseteq DOMAIN table.cols
        /\ o.op = "update" => /\ DOMAIN o.from \subseteq DOMAIN table.cols
                              /\ \A c \in DOMAIN o.from : table.cols[c].null
    <3>1. /\ o.op = "alter" => DOMAIN o.cols \subseteq DOMAIN table.cols
          /\ o.op = "update" => DOMAIN o.from \subseteq DOMAIN table.cols
      BY <1>1, <1>2 DEF Misfits
    <3>2. Reached(m) = Partway(cmd[m], at[m], k - 1)
      BY <1>1, <1>2, <2>1 DEF Reached
    <3>3. ASSUME o.op = "update", NEW c \in DOMAIN o.from PROVE table.cols[c].null
      <4>1. c # "is_system" /\ Reached(m)["firewall_logs"].cols[c].null
        BY <2>2, <3>2, <3>3 DEF KeepsLogs, CopiesLogs
      <4> QED
        BY <3>1, <3>3, <4>1 DEF Follows
    <3> QED
      BY <3>1, <3>3
  <2>7. \A f \in Fields :
          /\ to[f] \in DOMAIN Changed(o, table).cols
          /\ IF CopiesLogs(o) /\ to[f] \in DOMAIN o.from THEN o.from[to[f]] = from[f]
             ELSE to[f] = from[f]
    BY <1>1, <2>1, <2>3
  <2>8. RowsHold(Changed(o, table), to)
    <3>1. /\ o.table = "firewall_logs" /\ RowsHold(table, from)
          /\ View(m)["firewall_logs"] = table /\ ~Obstructs(o, View(m))
      BY <1>1, <1>2, <2>1
    <3> QED
      BY <2>5, <2>6, <2>7, <3>1, KeptRows
  <2> QED
    BY <1>1, <1>8, <2>8
<1> QED
  BY <1>7, <1>8

LEMMA OperateLogs ==
  ASSUME ChainFits, MigrationInv, LogsInv, NEW m \in Migrators, Operate(m)
  PROVE  LogsInv'
<1>1. /\ TypeInv /\ Placed(m) /\ Running(m) /\ Refusal(NextOp(m), View(m)) = "none"
      /\ UNCHANGED <<ver, tables, release, app, cmd, base, at, overtaken, written>>
      /\ done' = [done EXCEPT ![m] = @ + 1] /\ cmd[m] # "none"
      /\ "firewall_logs" \in Tables
  BY DEF MigrationInv, Operate, Running, Busy, Tables
<1>2. PICK o, n : o = NextOp(m) /\ n = done[m]
  OBVIOUS
<1>3. /\ o.table \in Tables /\ o.op \in OpNames /\ n \in 0 .. 7
      /\ o = OperationsOf(cmd[m], at[m])[n + 1] /\ done'[m] = n + 1
      /\ IsSchema(Reached(m))
      /\ Partway(cmd[m], at[m], n + 1) = Perform(Reached(m), o)
  <2>1. done'[m] = n + 1
    BY <1>1, <1>2 DEF TypeInv, TypeOK
  <2> QED
    BY <1>1, <1>2, <2>1, NextOpFacts, PerformedFits DEF NextOp, Operations
<1>4. /\ Place(m)' = Where(cmd[m], at[m], n + 1)
      /\ Cleared(m)' <=> Emptied(cmd[m], at[m], n + 1)
  BY <1>1, <1>3 DEF Place, Cleared
<1>5. o.table # "firewall_logs" =>
        Place(m)' = Place(m) /\ (Cleared(m)' <=> Cleared(m))
  BY <1>2, <1>3, <1>4, OneMore DEF Place, Cleared, NeedsNoLogs
<1>6. DOMAIN tx'[m] = DOMAIN tx[m] \cup Locks(o, View(m)) /\ o.table \in DOMAIN tx'[m]
  BY <1>1, <1>2, <1>3, OperateView, LocksOwnTable
<1>7. "firewall_logs" \in DOMAIN tx'[m] =>
        tx'[m]["firewall_logs"] =
          IF o.table = "firewall_logs" THEN Changed(o, View(m)["firewall_logs"])
          ELSE View(m)["firewall_logs"]
  <2>1. DOMAIN View(m) = Tables
    BY <1>1, ViewAt
  <2>2. \A t \in DOMAIN tx'[m] : tx'[m][t] = Perform(View(m), o)[t]
    BY <1>1, <1>2, OperateView
  <2>3. Perform(View(m), o)["firewall_logs"] =
          IF "firewall_logs" = o.table THEN Changed(o, View(m)["firewall_logs"])
          ELSE View(m)["firewall_logs"]
    BY <1>1, <1>3, <2>1, PerformedAt
  <2> QED
    BY <2>2, <2>3
<1>8. ASSUME "firewall_logs" \in DOMAIN tx'[m],
             Follows(Logs.cols, SchemaAt(base[m])["firewall_logs"].cols)
      PROVE  RowsHold(tx'[m]["firewall_logs"], Place(m)') /\ (Cleared(m)' => Len(written) = 0)
  <2>1. /\ RowsHold(View(m)["firewall_logs"], Place(m))
        /\ Cleared(m) => Len(written) = 0
    BY <1>1, <1>8, SeenRows
  <2>2. CASE o.table # "firewall_logs"
    BY <1>5, <1>7, <1>8, <2>1, <2>2
  <2>3. CASE o.table = "firewall_logs"
    <3>1. tx'[m]["firewall_logs"] = Changed(o, View(m)["firewall_logs"])
      BY <1>7, <1>8, <2>3
    <3>2. Follows(View(m)["firewall_logs"].cols, Reached(m)["firewall_logs"].cols)
      BY <1>1, <1>8 DEF MigrationInv, Worked, Logs
    <3>3. Partway(cmd[m], at[m], n + 1)["firewall_logs"] =
            Changed(o, Reached(m)["firewall_logs"])
      BY <1>1, <1>3, <2>3, PerformedAt DEF IsSchema
    <3>4. /\ "cols" \in DOMAIN View(m)["firewall_logs"]
          /\ "cols" \in DOMAIN Reached(m)["firewall_logs"]
      BY <1>1, <1>3, ViewAt DEF IsSchema
    <3>5. DOMAIN Changed(o, View(m)["firewall_logs"]).cols =
            DOMAIN Partway(cmd[m], at[m], n + 1)["firewall_logs"].cols
      BY <1>3, <3>2, <3>3, <3>4, ChangedFollows DEF Follows
    <3>6. Len(written) \in Nat
      BY DEF LogsInv, IsSequence
    <3>7. /\ RowsHold(Changed(o, View(m)["firewall_logs"]), Place(m)')
          /\ Emptied(cmd[m], at[m], n + 1) => Len(written) = 0
      BY <1>1, <1>2, <1>4, <2>1, <2>3, <3>2, <3>5, <3>6, OperateRows
    <3> QED
      BY <1>4, <3>1, <3>7
  <2> QED
    BY <2>2, <2>3
<1>9. Carried(m)'
  <2>1. CASE "firewall_logs" \in DOMAIN tx'[m]
    <3>1. Logs' = Logs
      BY <1>1 DEF Logs
    <3> QED
      BY <1>1, <1>8, <2>1, <3>1 DEF Carried, RowsHold
  <2>2. CASE "firewall_logs" \notin DOMAIN tx'[m]
    <3>1. o.table # "firewall_logs" /\ "firewall_logs" \notin DOMAIN tx[m]
      BY <1>6, <2>2
    <3>2. Place(m) = Home(SchemaAt(base[m])["firewall_logs"].cols) /\ ~Cleared(m)
      BY <1>1, <3>1 DEF LogsInv, Carried
    <3> QED
      BY <1>1, <1>5, <2>2, <3>1, <3>2 DEF Carried
  <2> QED
    BY <2>1, <2>2
<1>10. \A k \in Migrators \ {m} : Kept(k)
  BY <1>1, OperateView DEF Kept, TypeInv, TypeOK
<1>11. Logs' = Logs /\ written' = written
  BY <1>1 DEF Logs
<1> QED
  BY <1>9, <1>10, <1>11, CarriedKept DEF LogsInv, RowsHold

LEMMA FinishLogs ==
  ASSUME ChainFits, MigrationInv, LogsInv, NEW m \in Migrators, Finish(m)
  PROVE  LogsInv'
<1>1. /\ TypeInv /\ Placed(m) /\ Busy(m) /\ done[m] = Len(Operations(m))
      /\ UNCHANGED <<ver, tables, release, app, cmd, base, tx, overtaken, written>>
      /\ at' = [at EXCEPT ![m] = at'[m]] /\ done' = [done EXCEPT ![m] = 0]
      /\ cmd[m] # "none"
  BY DEF MigrationInv, Finish, Finishing, Busy, TypeInv, TypeOK
<1>2. /\ at'[m] = Neighbour(cmd[m], at[m]) /\ done[m] > 0 /\ done'[m] = 0
  BY <1>1, FinishFacts DEF TypeInv, TypeOK
<1>3. Cleared(m) \/ Place(m) = Home(SchemaAt(at'[m])["firewall_logs"].cols)
  <2>1. /\ cmd[m] \in {"upgrade", "downgrade"} /\ at[m] \in 0 .. Latest
        /\ Runs(cmd[m], at[m])
    BY <1>1, BusyRuns
  <2>2. ~Unnamed(Operations(m))
    BY <1>1, <1>2 DEF Placed
  <2> QED
    BY <1>1, <1>2, <2>1, <2>2 DEF ChainFits, LogsKept, Operations, Cleared, Place
<1>4. Cleared(m)' = FALSE /\ Place(m)' = Home(SchemaAt(at'[m])["firewall_logs"].cols)
  <2>1. ~\E k \in 1 .. 0 : TRUE
    OBVIOUS
  <2> QED
    BY <1>2, <2>1 DEF Cleared, Emptied, Place, Where
<1>5. Logs' = Logs
  BY <1>1 DEF Logs
<1>6. Carried(m)'
  <2>1. CASE "firewall_logs" \in DOMAIN tx[m]
    <3>1. ASSUME Follows(Logs.cols, SchemaAt(base[m])["firewall_logs"].cols)
          PROVE  RowsHold(tx[m]["firewall_logs"], Place(m)')
      <4>1. /\ RowsHold(tx[m]["firewall_logs"], Place(m))
            /\ Cleared(m) => Len(written) = 0
        BY <1>1, <2>1, <3>1 DEF LogsInv, Carried
      <4> QED
        BY <1>3, <1>4, <4>1, NothingHeld
    <3> QED
      BY <1>1, <1>4, <1>5, <2>1, <3>1 DEF Carried, RowsHold
  <2>2. CASE "firewall_logs" \notin DOMAIN tx[m]
    <3>1. Place(m) = Home(SchemaAt(base[m])["firewall_logs"].cols) /\ ~Cleared(m)
      BY <1>1, <2>2 DEF LogsInv, Carried
    <3> QED
      BY <1>1, <1>3, <1>4, <2>2, <3>1 DEF Carried
  <2> QED
    BY <2>1, <2>2
<1>7. \A k \in Migrators \ {m} : Kept(k)
  BY <1>1 DEF Kept, TypeInv, TypeOK
<1> QED
  BY <1>1, <1>5, <1>6, <1>7, CarriedKept DEF LogsInv, RowsHold

-----------------------------------------------------------------------------
(* Why an upgrade meets no row that Obstructed did not see. *)

Users == tables["users"]

\* What an upgrade from the committed schema has made of the rows that later operations
\* could find in their way.
\* After fcaac or fe31 there is no log.
Unlogged(m) ==
  base[m] <= 2 /\ at[m] >= 2 /\ at[m] # base[m] =>
    "firewall_logs" \in DOMAIN tx[m] /\ Len(written) = 0

\* Before fcaac adds the user name, the accounts are those that were committed, and none if
\* the command has created them.
Accounted(m) ==
  /\ base[m] = 0 /\ ((at[m] = 0 /\ done[m] > 0) \/ (at[m] = 1 /\ done[m] <= 3)) =>
       "users" \in DOMAIN tx[m] /\ tx[m]["users"].rows = << >>
  /\ base[m] = 1 /\ at[m] = 1 /\ done[m] <= 3 /\ "users" \in DOMAIN tx[m] =>
       tx[m]["users"].rows = Users.rows

\* Before b7f2 makes three columns NOT NULL, it has filled in two of them and left the third,
\* and what it copies or gives another type is what the logs have been committed with.
Filled(m) ==
  base[m] = 3 /\ at[m] = 3 /\ done[m] \in 1 .. 2 =>
    /\ "firewall_logs" \in DOMAIN tx[m]
    /\ \A i \in 1 .. Len(written) :
         LET row == tx[m]["firewall_logs"].rows[i]  log == Logs.rows[i] IN
           /\ row["is_system"] = log["is_system"] /\ row["protocol"] = log["protocol"]
           /\ done[m] = 1 => /\ row["action_taken"] = log["action_taken"]
                             /\ row["packet_size"] = log["packet_size"]
           /\ done[m] = 2 => /\ row["action"] # Null /\ row["created_at"] # Null
                             /\ row["action"] \in {"allowed", log["action_taken"]}

Smooth(m) ==
  cmd[m] = "upgrade" /\ ~overtaken[m] => Unlogged(m) /\ Accounted(m) /\ Filled(m)

UpgradeInv == \A m \in Migrators : Smooth(m)

LEMMA SmoothKept ==
  ASSUME NEW m \in Migrators, Smooth(m), Untouched(m),
         "users" \in DOMAIN tx[m] => Users' = Users,
         "firewall_logs" \in DOMAIN tx[m] => Logs' = Logs /\ written' = written
  PROVE  Smooth(m)'
<1> SUFFICES ASSUME cmd[m] = "upgrade", ~overtaken[m]
    PROVE  Unlogged(m)' /\ Accounted(m)' /\ Filled(m)'
  BY DEF Smooth, Untouched, Kept
<1>1. Unlogged(m) /\ Accounted(m) /\ Filled(m)
  BY DEF Smooth
<1>2. UNCHANGED <<base[m], at[m], done[m], tx[m]>>
  BY DEF Untouched, Kept
<1>3. Unlogged(m)'
  BY <1>1, <1>2 DEF Unlogged
<1>4. Accounted(m)'
  BY <1>1, <1>2 DEF Accounted
<1>5. Filled(m)'
  BY <1>1, <1>2 DEF Filled
<1> QED
  BY <1>3, <1>4, <1>5

LEMMA SmoothFresh == ASSUME NEW m \in Migrators, Fresh(m) PROVE Smooth(m)'
BY DEF Fresh, Smooth, Unlogged, Accounted, Filled

\* The operation that is next in an upgrade.
LEMMA UpgradeFacts ==
  ASSUME ChainFits, TypeInv, NEW m \in Migrators, Placed(m), Running(m), cmd[m] = "upgrade",
         NEW k, k = done[m] + 1
  PROVE  /\ base[m] \in 0 .. at[m] /\ at[m] < release /\ done[m] \in Nat
         /\ NextOp(m) = Upgrades[at[m] + 1][k]
         /\ PassesRows(at[m], k)
         /\ at[m] <= 1 /\ NextOp(m).table = "users" =>
              <<at[m], k>> = <<0, 1>> \/ (at[m] = 1 /\ k >= 4)
<1>1. /\ at[m] \in Nat /\ base[m] \in Nat /\ release \in 1 .. Latest
      /\ Busy(m) /\ done[m] \in 0 .. 7
  <2>1. at[m] \in Nat /\ base[m] \in Nat /\ release \in 1 .. Latest /\ Busy(m)
    BY ReleasesAssumption, LatestPositive DEF TypeInv, TypeOK, Running
  <2> QED
    BY <2>1, NextOpFacts
<1>2. base[m] \in 0 .. at[m] /\ at[m] < release
  BY <1>1 DEF Placed, Busy, Located, Target
<1>3. Operations(m) = Upgrades[at[m] + 1] /\ NextOp(m) = Upgrades[at[m] + 1][k]
  BY DEF Operations, OperationsOf, NextOp
<1>4. k \in DOMAIN Upgrades[at[m] + 1]
  <2>1. PICK ops : ops = Operations(m)
    OBVIOUS
  <2>2. Len(ops) \in 1 .. 8 /\ DOMAIN ops = 1 .. Len(ops) /\ k <= Len(ops)
    BY <1>1, <2>1, BusyFacts, NextOpFacts
  <2> QED
    BY <1>1, <1>3, <2>1, <2>2
<1>5. at[m] \in 0 .. Latest - 1
  BY <1>1, <1>2, LatestPositive
<1>6. /\ PassesRows(at[m], k)
      /\ at[m] <= 1 /\ Upgrades[at[m] + 1][k].table = "users" =>
           <<at[m], k>> = <<0, 1>> \/ (at[m] = 1 /\ k >= 4)
  <2>1. PICK v : v = at[m]
    OBVIOUS
  <2> HIDE DEF PassesRows
  <2> QED
    BY <1>4, <1>5, <2>1 DEF ChainFits, UpgradesPass
<1> QED
  BY <1>1, <1>2, <1>3, <1>6

\* An upgrade that nobody has overtaken sees the tables of its base as its operations have
\* made them, with a row for each log.
LEMMA UpgradeSees ==
  ASSUME ChainFits, MigrationInv, LogsInv, NEW m \in Migrators, cmd[m] # "none",
         ~overtaken[m]
  PROVE  /\ ver = base[m]
         /\ \A t \in Tables : Follows(View(m)[t].cols, Reached(m)[t].cols)
         /\ Follows(Logs.cols, SchemaAt(base[m])["firewall_logs"].cols)
         /\ RowsHold(View(m)["firewall_logs"], Place(m))
<1>1. TypeInv /\ ver = base[m] /\ "firewall_logs" \in Tables
  BY DEF MigrationInv, Current, Tables
<1>2. \A t \in Tables : Follows(tables[t].cols, SchemaAt(base[m])[t].cols)
  BY <1>1 DEF MigrationInv, SchemaFollowsRevision
<1>3. \A t \in Tables : Follows(View(m)[t].cols, Reached(m)[t].cols)
  BY <1>2 DEF MigrationInv, Worked
<1>4. Follows(Logs.cols, SchemaAt(base[m])["firewall_logs"].cols)
  BY <1>1, <1>2 DEF Logs
<1> QED
  BY <1>1, <1>3, <1>4, SeenRows

LEMMA OperateSmooth ==
  ASSUME ChainFits, MigrationInv, LogsInv, NEW m \in Migrators, Smooth(m), Operate(m)
  PROVE  Smooth(m)'
<1>1. /\ TypeInv /\ Placed(m) /\ Running(m) /\ Refusal(NextOp(m), View(m)) = "none"
      /\ UNCHANGED <<ver, tables, release, app, cmd, base, at, overtaken, written>>
      /\ done'[m] = done[m] + 1
  BY DEF MigrationInv, Operate, TypeInv, TypeOK
<1> SUFFICES ASSUME cmd[m] = "upgrade", ~overtaken[m]
    PROVE  Unlogged(m)' /\ Accounted(m)' /\ Filled(m)'
  BY <1>1 DEF Smooth
<1>2. PICK o, k : o = NextOp(m) /\ k = done[m] + 1
  OBVIOUS
<1>3. Unlogged(m) /\ Accounted(m) /\ Filled(m)
  BY DEF Smooth
<1>4. /\ base[m] \in 0 .. at[m] /\ done[m] \in Nat /\ at[m] \in Nat
      /\ o = Upgrades[at[m] + 1][k] /\ o.table \in Tables
      /\ at[m] <= 1 /\ o.table = "users" => <<at[m], k>> = <<0, 1>> \/ (at[m] = 1 /\ k >= 4)
  <2>1. at[m] \in Nat
    BY <1>1, LatestPositive DEF TypeInv, TypeOK
  <2>2. o.table \in Tables
    BY <1>1, <1>2, NextOpFacts
  <2> QED
    BY <1>1, <1>2, <2>1, <2>2, UpgradeFacts
<1>5. /\ DOMAIN tx[m] \subseteq DOMAIN tx'[m] /\ o.table \in DOMAIN tx'[m]
      /\ \A t \in DOMAIN tx'[m] : t \in Tables =>
           tx'[m][t] = IF t = o.table THEN Changed(o, View(m)[t]) ELSE View(m)[t]
  <2>1. DOMAIN View(m) = Tables
    BY <1>1, ViewAt
  <2>2. /\ DOMAIN tx'[m] = DOMAIN tx[m] \cup Locks(o, View(m)) /\ o.table \in Locks(o, View(m))
        /\ \A t \in DOMAIN tx'[m] : tx'[m][t] = Perform(View(m), o)[t]
    BY <1>1, <1>2, <1>4, OperateView, LocksOwnTable
  <2>3. \A t \in Tables : Perform(View(m), o)[t] =
          IF t = o.table THEN Changed(o, View(m)[t]) ELSE View(m)[t]
    BY <1>4, <2>1, PerformedAt
  <2> QED
    BY <2>2, <2>3
<1>6. \A t \in Tables : View(m)[t] = IF t \in DOMAIN tx[m] THEN tx[m][t] ELSE tables[t]
  BY <1>1, ViewAt
<1>7. "users" \in Tables /\ "firewall_logs" \in Tables
  BY DEF Tables
<1>8. Unlogged(m)'
  BY <1>1, <1>3, <1>5 DEF Unlogged
<1>9. Accounted(m)'
  <2>1. ASSUME base[m] = 0, (at[m] = 0 /\ k > 0) \/ (at[m] = 1 /\ k <= 3)
        PROVE  "users" \in DOMAIN tx'[m] /\ tx'[m]["users"].rows = << >>
    <3>1. CASE at[m] = 0 /\ done[m] = 0
      <4>1. o.op = "create" /\ o.table = "users"
        BY <1>2, <1>4, <3>1 DEF ChainFits, SchemasFit
      <4> QED
        BY <1>5, <1>7, <4>1 DEF Changed
    <3>2. CASE ~(at[m] = 0 /\ done[m] = 0)
      <4>1. (at[m] = 0 /\ done[m] > 0) \/ (at[m] = 1 /\ done[m] <= 3)
        BY <1>2, <1>4, <2>1, <3>2
      <4>2. o.table # "users"
        BY <1>2, <1>4, <2>1, <3>2
      <4>3. "users" \in DOMAIN tx[m] /\ tx[m]["users"].rows = << >>
        BY <1>3, <2>1, <4>1 DEF Accounted
      <4> QED
        BY <1>5, <1>6, <1>7, <4>2, <4>3
    <3> QED
      BY <3>1, <3>2
  <2>2. ASSUME base[m] = 1, at[m] = 1, k <= 3, "users" \in DOMAIN tx'[m]
        PROVE  tx'[m]["users"].rows = Users.rows
    <3>1. done[m] <= 3 /\ o.table # "users"
      BY <1>2, <1>4, <2>2
    <3>2. View(m)["users"].rows = Users.rows
      BY <1>3, <1>6, <1>7, <2>2, <3>1 DEF Accounted, Users
    <3> QED
      BY <1>5, <1>7, <2>2, <3>1, <3>2
  <2> QED
    BY <1>1, <1>2, <2>1, <2>2 DEF Accounted, Users
<1>10. Filled(m)'
  <2> SUFFICES ASSUME base[m] = 3, at[m] = 3, done[m] \in 0 .. 1
      PROVE  /\ "firewall_logs" \in DOMAIN tx'[m]
             /\ \A i \in 1 .. Len(written) :
                  LET row == tx'[m]["firewall_logs"].rows[i]  log == Logs.rows[i] IN
                    /\ row["is_system"] = log["is_system"] /\ row["protocol"] = log["protocol"]
                    /\ done[m] = 0 => /\ row["action_taken"] = log["action_taken"]
                                      /\ row["packet_size"] = log["packet_size"]
                    /\ done[m] = 1 => /\ row["action"] # Null /\ row["created_at"] # Null
                                      /\ row["action"] \in {"allowed", log["action_taken"]}
    BY <1>1, <1>4 DEF Filled, Logs
  <2> DEFINE N == 1 .. Len(written)
  <2>1. PICK seen : seen = View(m)["firewall_logs"]
    OBVIOUS
  <2>2. /\ DOMAIN seen = {"cols", "rows"} /\ DOMAIN seen.rows = N
        /\ \A i \in N : DOMAIN seen.rows[i] = DOMAIN seen.cols
    BY <2>1, UpgradeSees DEF RowsHold
  <2> DEFINE Looked == {"is_system", "action_taken", "packet_size", "protocol"}
  <2>3. Looked \subseteq DOMAIN seen.cols
    <3>1. Follows(seen.cols, Partway("upgrade", 3, done[m])["firewall_logs"].cols)
      BY <1>7, <2>1, UpgradeSees DEF Reached
    <3> QED
      BY <3>1 DEF ChainFits, UpgradesPass, Follows
  <2>4. ASSUME NEW i \in N, NEW c \in Looked PROVE seen.rows[i][c] = Logs.rows[i][c]
    <3>1. CASE done[m] = 0
      BY <1>1, <1>6, <1>7, <2>1, <3>1 DEF Placed, Logs
    <3>2. CASE done[m] = 1
      BY <1>3, <1>6, <1>7, <2>1, <3>2 DEF Filled
    <3> QED
      BY <3>1, <3>2
  <2>5. CASE done[m] = 0
    <3>1. o = Add("firewall_logs", ContractColumns)
      BY <1>2, <1>4, <2>5 DEF Upgrades, upgrade_b7f2
    <3>2. tx'[m]["firewall_logs"] = Changed(o, seen) /\ "firewall_logs" \in DOMAIN tx'[m]
      BY <1>5, <1>7, <2>1, <3>1 DEF Add
    <3>3. \A i \in N, c \in Looked : Changed(o, seen).rows[i][c] = seen.rows[i][c]
      BY <2>2, <2>3, <3>1 DEF Changed, Add, ++
    <3> QED
      BY <2>4, <2>5, <3>2, <3>3
  <2>6. CASE done[m] = 1
    <3>1. o = Backfill
      BY <1>2, <1>4, <2>6 DEF Upgrades, upgrade_b7f2
    <3>2. /\ o.op = "update" /\ o.table = "firewall_logs"
          /\ {"is_system", "protocol"} \cap DOMAIN o.from = {}
          /\ {"action", "created_at"} \subseteq DOMAIN o.from
          /\ o.from["action"] = "action_taken"
          /\ o.otherwise["action"] = "allowed" /\ o.otherwise["created_at"] = "now"
      BY <3>1 DEF Backfill, Update, ++, Cols
    <3>3. tx'[m]["firewall_logs"] = Changed(o, seen) /\ "firewall_logs" \in DOMAIN tx'[m]
      BY <1>5, <1>7, <2>1, <3>2
    <3>4. Changed(o, seen).rows = [i \in N |->
            [c \in DOMAIN o.from |-> Assigned(o, seen.rows[i], c)] ++ seen.rows[i]]
      BY <2>2, <3>2 DEF Changed
    <3>5. ASSUME NEW i \in N
          PROVE  LET row == Changed(o, seen).rows[i] IN
                   /\ row["is_system"] = seen.rows[i]["is_system"]
                   /\ row["protocol"] = seen.rows[i]["protocol"]
                   /\ row["action"] = Assigned(o, seen.rows[i], "action")
                   /\ row["created_at"] = Assigned(o, seen.rows[i], "created_at")
      BY <2>2, <2>3, <3>2, <3>4 DEF ++
    <3>6. ASSUME NEW i \in N
          PROVE  /\ Assigned(o, seen.rows[i], "action") # Null
                 /\ Assigned(o, seen.rows[i], "created_at") # Null
                 /\ Assigned(o, seen.rows[i], "action")
                      \in {"allowed", seen.rows[i]["action_taken"]}
      BY <3>2 DEF Assigned, Null
    <3>7. ASSUME NEW i \in N
          PROVE  LET row == Changed(o, seen).rows[i]  log == Logs.rows[i] IN
                   /\ row["is_system"] = log["is_system"] /\ row["protocol"] = log["protocol"]
                   /\ row["action"] # Null /\ row["created_at"] # Null
                   /\ row["action"] \in {"allowed", log["action_taken"]}
      BY <2>4, <3>5, <3>6
    <3> QED
      BY <2>6, <3>3, <3>7
  <2> QED
    BY <2>5, <2>6
<1> QED
  BY <1>8, <1>9, <1>10

LEMMA FinishSmooth ==
  ASSUME ChainFits, MigrationInv, LogsInv, NEW m \in Migrators, Smooth(m), Finish(m)
  PROVE  Smooth(m)'
<1>1. /\ TypeInv /\ Placed(m) /\ Busy(m) /\ done[m] = Len(Operations(m))
      /\ UNCHANGED <<tables, cmd, base, tx, overtaken, written>>
      /\ done'[m] = 0
  BY DEF MigrationInv, Finish, Finishing, TypeInv, TypeOK
<1> SUFFICES ASSUME cmd[m] = "upgrade", ~overtaken[m]
    PROVE  Unlogged(m)' /\ Accounted(m)' /\ Filled(m)'
  BY <1>1 DEF Smooth
<1>2. Unlogged(m) /\ Accounted(m) /\ Filled(m)
  BY DEF Smooth
<1>3. /\ at'[m] = at[m] + 1 /\ done[m] > 0 /\ at[m] \in Nat /\ base[m] \in 0 .. at[m]
  <2>1. at'[m] = at[m] + 1 /\ done[m] > 0
    BY FinishFacts DEF Neighbour
  <2> QED
    BY <1>1, <2>1 DEF Placed, TypeInv, TypeOK
<1>4. Unlogged(m)'
  <2> SUFFICES ASSUME base[m] <= 2, at[m] >= 1
      PROVE  "firewall_logs" \in DOMAIN tx[m] /\ Len(written) = 0
    BY <1>1, <1>3 DEF Unlogged
  <2>1. CASE at[m] >= 3
    BY <1>2, <1>3, <2>1 DEF Unlogged
  <2>2. CASE at[m] \in {1, 2}
    <3>1. Cleared(m)
      BY <1>1, <2>2 DEF ChainFits, UpgradesPass, Cleared, Operations, OperationsOf
    <3>2. Follows(Logs.cols, SchemaAt(base[m])["firewall_logs"].cols)
      BY UpgradeSees
    <3> QED
      BY <3>1, <3>2 DEF LogsInv, Carried
  <2> QED
    BY <1>3, <2>1, <2>2
<1>5. Accounted(m)'
  BY <1>1, <1>2, <1>3 DEF Accounted
<1>6. Filled(m)'
  BY <1>1 DEF Filled
<1> QED
  BY <1>4, <1>5, <1>6

\* The value that is too wide for a type.
LEMMA NarrowFor ==
  ASSUME NEW type, NEW value, TooNarrow(type, value)
  PROVE  /\ type \in Range(Narrow)
         /\ type = "S10" => value = Wide["verdict"]
         /\ type = "Int" => value = Wide["size"]
         /\ type = "Small" => value = Wide["protocol"]
<1>1. PICK f \in DOMAIN Wide : value = Wide[f] /\ type = Narrow[f]
  BY DEF TooNarrow
<1>2. /\ DOMAIN Wide = {"verdict", "threat", "size", "protocol"} /\ DOMAIN Narrow = DOMAIN Wide
      /\ Narrow["verdict"] = "S10" /\ Narrow["threat"] = "S20"
      /\ Narrow["size"] = "Int" /\ Narrow["protocol"] = "Small"
  BY DEF Wide, Narrow
<1>3. type \in Range(Narrow)
  BY <1>1, <1>2 DEF Range
<1> QED
  BY <1>1, <1>2, <1>3

\* No row is in the way of an upgrade that Obstructed does not stop.
LEMMA NothingInTheWay ==
  ASSUME ChainFits, MigrationInv, LogsInv, NEW m \in Migrators, Smooth(m), Running(m),
         cmd[m] = "upgrade", ~overtaken[m], ~Obstructed
  PROVE  NextOp(m).op # "drop unnamed" /\ ~Obstructs(NextOp(m), View(m))
<1>1. TypeInv /\ Placed(m) /\ Unlogged(m) /\ Accounted(m) /\ Filled(m)
  BY DEF MigrationInv, Smooth
<1>2. PICK o, k, v : o = NextOp(m) /\ k = done[m] + 1 /\ v = at[m]
  OBVIOUS
<1>3. /\ base[m] \in 0 .. v /\ v < release /\ done[m] \in Nat /\ v \in Nat
      /\ release \in Nat /\ o = Upgrades[v + 1][k] /\ PassesRows(v, k)
  BY <1>1, <1>2, UpgradeFacts, ReleasesAssumption DEF TypeInv, TypeOK
<1>4. o.op # "drop unnamed"
  BY <1>3 DEF PassesRows
<1>5. /\ o.table \in Tables /\ o.op \in OpNames /\ ~Misfits(o, Reached(m))
      /\ Reached(m) = Partway("upgrade", v, k - 1)
  <2>1. o.table \in Tables /\ o.op \in OpNames /\ ~Misfits(o, Reached(m))
    BY <1>1, <1>2, <1>4, NextOpFacts
  <2>2. k - 1 = done[m]
    BY <1>2, <1>3
  <2> QED
    BY <1>2, <2>1, <2>2 DEF Reached
<1>6. PICK seen, before : /\ seen = View(m)[o.table]
                          /\ before = Partway("upgrade", v, k - 1)[o.table].cols
  OBVIOUS
<1>7. ver = base[m] /\ Follows(seen.cols, before)
  BY <1>2, <1>5, <1>6, UpgradeSees
<1>8. seen = IF o.table \in DOMAIN tx[m] THEN tx[m][o.table] ELSE tables[o.table]
  BY <1>1, <1>5, <1>6, ViewAt
<1>9. ASSUME o.table = "firewall_logs"
      PROVE  /\ DOMAIN seen.rows = 1 .. Len(written) /\ DOMAIN Logs.rows = 1 .. Len(written)
             /\ \A i \in 1 .. Len(written) : \A c \in DOMAIN seen.cols :
                  ~seen.cols[c].null => seen.rows[i][c] # Null
  <2>1. RowsHold(seen, Place(m))
    BY <1>6, <1>9, UpgradeSees
  <2>2. RowsHold(Logs, Home(Logs.cols))
    BY DEF LogsInv
  <2> QED
    BY <2>1, <2>2 DEF RowsHold
<1> SUFFICES ASSUME NEW i \in DOMAIN seen.rows,
      CASE o.op = "add" -> \E c \in DOMAIN o.cols : ~o.cols[c].null /\ ~o.cols[c].default
        [] o.op = "alter" -> \E c \in DOMAIN o.cols :
             \/ ~o.cols[c].null /\ seen.rows[i][c] = Null
             \/ TooNarrow(o.cols[c].type, seen.rows[i][c])
        [] o.op = "update" -> \E c \in DOMAIN o.from :
             TooNarrow(seen.cols[c].type, Assigned(o, seen.rows[i], c))
        [] OTHER -> FALSE
    PROVE  FALSE
  BY <1>2, <1>4, <1>6 DEF Obstructs
<1>10. CASE o.op = "add"
  <2>1. NeedsNoRows(o)
    BY <1>10 DEF NeedsNoRows
  <2>2. <<v, k, o.table>> \in {<<1, 4, "users">>, <<2, 1, "firewall_logs">>}
    BY <1>3, <2>1 DEF PassesRows
  <2>3. CASE v = 1 /\ k = 4 /\ o.table = "users"
    <3>1. done[m] = 3 /\ base[m] \in {0, 1}
      BY <1>2, <1>3, <2>3
    <3>2. seen.rows = << >>
      <4>1. CASE base[m] = 0
        BY <1>1, <1>2, <1>8, <2>3, <3>1, <4>1 DEF Accounted
      <4>2. CASE base[m] = 1
        <5>1. Users.rows = << >>
          BY <1>3, <1>7, <2>3, <4>2 DEF Obstructed, Users
        <5> QED
          BY <1>1, <1>2, <1>8, <2>3, <3>1, <4>2, <5>1 DEF Accounted, Users
      <4> QED
        BY <3>1, <4>1, <4>2
    <3> QED
      BY <3>2
  <2>4. CASE v = 2 /\ k = 1 /\ o.table = "firewall_logs"
    <3>1. done[m] = 0 /\ base[m] \in 0 .. 2
      BY <1>2, <1>3, <2>4
    <3>2. CASE base[m] = 2
      <4>1. Logs.rows = << >>
        BY <1>3, <1>7, <2>4, <3>2 DEF Obstructed, Logs
      <4>2. seen = Logs
        BY <1>1, <1>2, <1>8, <2>4, <3>1, <3>2 DEF Placed, Logs
      <4> QED
        BY <4>1, <4>2
    <3>3. CASE base[m] # 2
      <4>1. Len(written) = 0
        BY <1>1, <1>2, <2>4, <3>1, <3>3 DEF Unlogged
      <4> QED
        BY <1>9, <2>4, <4>1
    <3> QED
      BY <3>2, <3>3
  <2> QED
    BY <2>2, <2>3, <2>4
<1>11. ASSUME v = 3, o.table = "firewall_logs"
       PROVE  /\ i \in 1 .. Len(written) /\ base[m] = 3 /\ ~Unfit(Logs.rows[i])
              /\ "firewall_logs" \in DOMAIN tx[m] => seen = tx[m]["firewall_logs"]
  <2>1. i \in 1 .. Len(written)
    BY <1>9, <1>11
  <2>2. base[m] = 3
    <3>1. CASE base[m] <= 2
      BY <1>1, <1>2, <1>11, <2>1, <3>1 DEF Unlogged
    <3> QED
      BY <1>3, <1>11, <3>1
  <2>3. ~Unfit(Logs.rows[i])
    BY <1>3, <1>7, <1>9, <1>11, <2>1, <2>2 DEF Obstructed, Logs
  <2> QED
    BY <1>8, <1>11, <2>1, <2>2, <2>3
<1>12. CASE o.op = "alter"
  <2>1. /\ v = 3 /\ k = 3 /\ o.table = "firewall_logs"
        /\ \A c \in DOMAIN o.cols :
             /\ o.cols[c].type \in Range(Narrow) =>
                  \/ c = "protocol" /\ o.cols[c].type = "Small"
                  \/ c = "action" /\ o.cols[c].type = "S10"
             /\ \/ o.cols[c].null
                \/ ~before[c].null
                \/ c \in {"action", "created_at", "is_system"}
    BY <1>3, <1>6, <1>12 DEF PassesRows
  <2>2. i \in 1 .. Len(written) /\ base[m] = 3 /\ ~Unfit(Logs.rows[i]) /\ done[m] = 2
    BY <1>2, <1>3, <1>11, <2>1
  <2>3. /\ seen.rows[i]["is_system"] # Null
        /\ seen.rows[i]["action"] # Null /\ seen.rows[i]["created_at"] # Null
        /\ seen.rows[i]["action"] # Wide["verdict"]
        /\ seen.rows[i]["protocol"] # Wide["protocol"]
    <3>1. /\ "firewall_logs" \in DOMAIN tx[m]
          /\ LET row == tx[m]["firewall_logs"].rows[i]  log == Logs.rows[i] IN
               /\ row["is_system"] = log["is_system"] /\ row["protocol"] = log["protocol"]
               /\ row["action"] # Null /\ row["created_at"] # Null
               /\ row["action"] \in {"allowed", log["action_taken"]}
      BY <1>1, <1>2, <2>1, <2>2 DEF Filled
    <3>2. seen = tx[m]["firewall_logs"]
      BY <1>11, <2>1, <3>1
    <3>3. "allowed" # Wide["verdict"]
      BY DEF Wide
    <3> QED
      BY <2>2, <3>1, <3>2, <3>3 DEF Unfit
  <2>4. ASSUME NEW c \in DOMAIN o.cols, ~o.cols[c].null, seen.rows[i][c] = Null
        PROVE  FALSE
    <3>1. c \in DOMAIN seen.cols
      BY <1>5, <1>6, <1>7, <1>12 DEF Misfits, Follows
    <3>2. ~before[c].null /\ c # "is_system"
      BY <2>1, <2>3, <2>4
    <3>3. ~seen.cols[c].null
      BY <1>7, <3>1, <3>2 DEF Follows
    <3> QED
      BY <1>9, <2>1, <2>2, <2>4, <3>1, <3>3
  <2>5. ASSUME NEW c \in DOMAIN o.cols, TooNarrow(o.cols[c].type, seen.rows[i][c])
        PROVE  FALSE
    BY <2>1, <2>3, <2>5, NarrowFor
  <2> QED
    BY <1>12, <2>4, <2>5
<1>13. CASE o.op = "update"
  <2>1. /\ v = 3 /\ k = 2 /\ o.table = "firewall_logs"
        /\ \A c \in DOMAIN o.from : before[c].type \in Range(Narrow) =>
             \/ c = "action" /\ before[c].type = "S10"
             \/ c = "size_bytes" /\ before[c].type = "Int"
    BY <1>3, <1>6, <1>13 DEF PassesRows
  <2>2. PICK c \in DOMAIN o.from : TooNarrow(seen.cols[c].type, Assigned(o, seen.rows[i], c))
    BY <1>13
  <2>3. /\ seen.cols[c].type = before[c].type
        /\ \/ c = "action" /\ before[c].type = "S10"
           \/ c = "size_bytes" /\ before[c].type = "Int"
    <3>1. c \in DOMAIN seen.cols
      BY <1>5, <1>6, <1>7, <1>13 DEF Misfits, Follows
    <3>2. seen.cols[c] = before[c] \/ seen.cols[c].type = "Bool"
      BY <1>7, <3>1 DEF Follows, Def
    <3>3. seen.cols[c].type \in Range(Narrow)
      BY <2>2, NarrowFor
    <3>4. "Bool" \notin Range(Narrow)
      <4>1. DOMAIN Narrow = {"verdict", "threat", "size", "protocol"}
        BY DEF Narrow
      <4> QED
        BY <4>1 DEF Narrow, Range
    <3> QED
      BY <2>1, <3>2, <3>3, <3>4
  <2>4. i \in 1 .. Len(written) /\ base[m] = 3 /\ ~Unfit(Logs.rows[i]) /\ done[m] = 1
    BY <1>2, <1>3, <1>11, <2>1
  <2>5. /\ seen.rows[i]["action_taken"] # Wide["verdict"]
        /\ seen.rows[i]["packet_size"] # Wide["size"]
    <3>1. /\ "firewall_logs" \in DOMAIN tx[m]
          /\ LET row == tx[m]["firewall_logs"].rows[i]  log == Logs.rows[i] IN
               /\ row["action_taken"] = log["action_taken"]
               /\ row["packet_size"] = log["packet_size"]
      BY <1>1, <1>2, <2>1, <2>4 DEF Filled
    <3> QED
      BY <1>11, <2>1, <2>4, <3>1 DEF Unfit
  <2>6. o = Backfill
    BY <1>3, <2>1 DEF Upgrades, upgrade_b7f2
  <2>7. /\ o.from["action"] = "action_taken" /\ o.otherwise["action"] = "allowed"
        /\ o.from["size_bytes"] = "packet_size" /\ o.otherwise["size_bytes"] = Null
    BY <2>6 DEF Backfill, Update, ++, Cols
  <2>8. /\ Assigned(o, seen.rows[i], "action") # Wide["verdict"]
        /\ Assigned(o, seen.rows[i], "size_bytes") # Wide["size"]
    BY <2>5, <2>7 DEF Assigned, Wide, Null
  <2> QED
    BY <2>2, <2>3, <2>8, NarrowFor
<1> QED
  BY <1>10, <1>12, <1>13

-----------------------------------------------------------------------------
(* The theorems. *)

LEMMA MigrationInit == ASSUME ChainFits, Init PROVE MigrationInv
<1>1. /\ ver = 0 /\ tables = NoTables /\ app = "down" /\ DOMAIN tx = Migrators
      /\ \A m \in Migrators : /\ cmd[m] = "none" /\ DOMAIN tx[m] = {}
                              /\ base[m] = 0 /\ at[m] = 0 /\ done[m] = 0
  BY DEF Init
<1>2. TypeInv
  <2>1. TypeOK
    BY LatestPositive, BoundsAssumption DEF Init, TypeOK, NoTables
  <2>2. \A t \in Tables : "cols" \in DOMAIN tables[t]
    BY <1>1 DEF NoTables, NoTable
  <2> QED
    BY <1>1, <2>1, <2>2 DEF TypeInv
<1>3. SchemaFollowsRevision
  BY <1>1, FollowsSame DEF SchemaFollowsRevision, ChainFits, SchemasFit
<1>4. NoneInside /\ Apart
  BY <1>1 DEF NoneInside, Apart
<1>5. \A m \in Migrators : Placed(m) /\ Current(m) /\ Worked(m)
  BY <1>1 DEF Placed, Current, Worked
<1> QED
  BY <1>2, <1>3, <1>4, <1>5 DEF MigrationInv

LEMMA MigrationNext == ASSUME ChainFits, MigrationInv, [Next]_vars PROVE MigrationInv'
<1>1. CASE Boot
  BY <1>1, BootStep
<1>2. ASSUME NEW m \in Migrators, Progress(m) PROVE MigrationInv'
  <2>1. CASE Commit(m)
    BY <2>1, CommitNothing, CommitStep
  <2> QED
    BY <1>2, <2>1, OperateStep, FinishStep, FailStep DEF Progress
<1>3. ASSUME NEW command \in {"upgrade", "downgrade"}, Command(command) PROVE MigrationInv'
  BY <1>3, CommandStep
<1>4. ASSUME NEW image \in Releases, Restart(image) PROVE MigrationInv'
  BY <1>4, RestartStep
<1>5. CASE InsertUser
  <2>1. "users" \in Tables
    BY DEF Tables
  <2> QED
    BY <1>5, <2>1, InsertStep DEF InsertUser
<1>6. ASSUME NEW optional \in BOOLEAN, NEW wide \in DOMAIN Wide \cup {"none"},
             InsertLog(optional, wide)
      PROVE  MigrationInv'
  <2>1. "firewall_logs" \in Tables
    BY DEF Tables
  <2> QED
    BY <1>6, <2>1, InsertStep DEF InsertLog
<1>7. CASE UNCHANGED vars
  <2>1. /\ UNCHANGED <<ver, tables, release, app, cmd, base, at, done, tx, overtaken,
                       interventions>>
    BY <1>7 DEF vars
  <2>2. TypeInv' /\ NoneInside'
    BY <2>1 DEF MigrationInv, TypeInv, TypeOK, NoneInside
  <2> QED
    BY <2>1, <2>2, QuietStep DEF Untouched, Kept, SameColumns
<1> QED
  BY <1>1, <1>2, <1>3, <1>4, <1>5, <1>6, <1>7 DEF Next

LEMMA MigrationAlways == ASSUME ChainFits PROVE Spec => []MigrationInv
<1>1. Init => MigrationInv
  BY MigrationInit
<1>2. MigrationInv /\ [Next]_vars => MigrationInv'
  BY MigrationNext
<1> QED
  BY <1>1, <1>2, PTL DEF Spec

\* Every variable keeps its type, whatever revisions there are.
THEOREM TypeCorrect == ASSUME ChainFits PROVE Spec => []TypeOK
<1>1. MigrationInv => TypeOK
  BY DEF MigrationInv, TypeInv
<1> QED
  BY MigrationAlways, <1>1, PTL

\* The schema is that of its version, whatever commands have run side by side, failed or
\* been killed.
THEOREM SchemaStaysInStep == ASSUME ChainFits PROVE Spec => []SchemaFollowsRevision
<1>1. MigrationInv => SchemaFollowsRevision
  BY DEF MigrationInv
<1> QED
  BY MigrationAlways, <1>1, PTL

\* A schema that follows the last revision has the tables of the models.
LEMMA FollowingFits ==
  ASSUME ChainFits, NEW db, \A t \in Tables : Follows(db[t].cols, SchemaAt(Latest)[t].cols)
  PROVE  FitsModels(db)
<1>1. FitsModels(SchemaAt(Latest))
  BY DEF ChainFits, SchemasFit
<1>2. ASSUME NEW t \in Tables, t \notin DOMAIN Models
      PROVE  ~Exists(db, t)
  BY <1>1, <1>2 DEF FitsModels, Exists, Follows
<1>3. ASSUME NEW t \in Tables, t \in DOMAIN Models
      PROVE  /\ DOMAIN db[t].cols = DOMAIN Models[t]
             /\ \A c \in DOMAIN Models[t] :
                  /\ db[t].cols[c].type = Models[t][c].type
                  /\ db[t].cols[c].null = (Models[t][c].null /\ <<t, c>> \notin Diverging)
  <2>1. /\ DOMAIN SchemaAt(Latest)[t].cols = DOMAIN Models[t]
        /\ \A c \in DOMAIN Models[t] :
             LET col == SchemaAt(Latest)[t].cols[c] IN
               /\ col.type = Models[t][c].type
               /\ col.null = (Models[t][c].null /\ <<t, c>> \notin Diverging)
    BY <1>1, <1>3 DEF FitsModels
  <2>2. /\ DOMAIN db[t].cols = DOMAIN Models[t]
        /\ \A c \in DOMAIN Models[t] :
             \/ db[t].cols[c] = SchemaAt(Latest)[t].cols[c]
             \/ c = "is_system" /\ db[t].cols[c] = Def("Bool")
    BY <2>1, <1>3 DEF Follows
  <2>3. "is_system" \in DOMAIN Models[t] => Models[t]["is_system"] = Req("Bool")
    BY <1>3 DEF ChainFits, SchemasFit
  <2>4. ASSUME NEW c \in DOMAIN Models[t]
        PROVE  /\ db[t].cols[c].type = SchemaAt(Latest)[t].cols[c].type
               /\ db[t].cols[c].null = SchemaAt(Latest)[t].cols[c].null
    <3>1. CASE db[t].cols[c] = SchemaAt(Latest)[t].cols[c]
      BY <3>1
    <3>2. CASE c = "is_system" /\ db[t].cols[c] = Def("Bool")
      <4>1. /\ Models[t][c].type = "Bool" /\ Models[t][c].null = FALSE
            /\ db[t].cols[c].type = "Bool" /\ db[t].cols[c].null = FALSE
        BY <2>3, <3>2 DEF Def, Req
      <4>2. /\ SchemaAt(Latest)[t].cols[c].type = "Bool"
            /\ SchemaAt(Latest)[t].cols[c].null = FALSE
        BY <2>1, <4>1
      <4> QED
        BY <4>1, <4>2
    <3> QED
      BY <2>2, <3>1, <3>2
  <2> QED
    BY <2>1, <2>2, <2>4
<1> QED
  BY <1>2, <1>3 DEF FitsModels

\* At the last version the tables are those of the models.
THEOREM LatestHasModels == ASSUME ChainFits PROVE Spec => []LatestFitsModels
<1>1. MigrationInv => LatestFitsModels
  BY FollowingFits DEF MigrationInv, SchemaFollowsRevision, LatestFitsModels
<1> QED
  BY MigrationAlways, <1>1, PTL

\* A command that no other one has overtaken meets the schema and the version that it was
\* made for.
LEMMA OthersFit ==
  ASSUME ChainFits, MigrationInv, NEW m \in Migrators, cmd[m] # "none", ~overtaken[m]
  PROVE  /\ VersionFound(m)
         /\ Running(m) => Refusal(NextOp(m), View(m)) \notin {"schema", "version"}
<1>1. /\ TypeInv /\ Placed(m) /\ Worked(m) /\ ver = base[m] /\ SchemaFollowsRevision
  BY DEF MigrationInv, Current
<1>2. VersionFound(m)
  BY <1>1 DEF VersionFound
<1>3. ASSUME Running(m) PROVE Refusal(NextOp(m), View(m)) # "schema"
  <2> SUFFICES ASSUME NextOp(m).op # "drop unnamed", Misfits(NextOp(m), View(m))
      PROVE  FALSE
    BY DEF Refusal
  <2>1. /\ NextOp(m).table \in Tables /\ NextOp(m).op \in OpNames
        /\ ~Misfits(NextOp(m), Reached(m))
    BY <1>1, <1>3, NextOpFacts
  <2>2. \A t \in Tables : Follows(View(m)[t].cols, Reached(m)[t].cols)
    BY <1>1 DEF Worked, SchemaFollowsRevision
  <2>3. \A t \in Tables : DOMAIN View(m)[t].cols = DOMAIN Reached(m)[t].cols
    BY <2>2 DEF Follows
  <2> QED
    BY <2>1, <2>3, MisfitsByColumns
<1>4. Refusal(NextOp(m), View(m)) # "version"
  BY DEF Refusal
<1> QED
  BY <1>2, <1>3, <1>4

LEMMA LogsInit == ASSUME Init PROVE LogsInv
<1>1. /\ Logs = NoTable /\ written = << >>
      /\ \A m \in Migrators : cmd[m] = "none"
  BY DEF Init, Logs, NoTables, Tables
<1>2. << >> = [i \in 1 .. 0 |-> << >>[i]] /\ Len(<< >>) = 0
  OBVIOUS
<1>3. IsSequence(written)
  BY <1>1, <1>2 DEF IsSequence
<1>4. RowsHold(Logs, Home(Logs.cols))
  BY <1>1, <1>2 DEF RowsHold, NoTable
<1>5. \A m \in Migrators : Carried(m)
  BY <1>1 DEF Carried
<1> QED
  BY <1>3, <1>4, <1>5 DEF LogsInv

\* What begins or ends commands changes no table.
LEMMA QuietCommands ==
  ASSUME MigrationInv,
         \/ Boot
         \/ \E m \in Migrators : Fail(m)
         \/ \E command \in {"upgrade", "downgrade"} : Command(command)
         \/ \E image \in Releases : Restart(image)
         \/ UNCHANGED vars
  PROVE  /\ tables' = tables /\ written' = written
         /\ \A m \in Migrators : Untouched(m) \/ Fresh(m)
<1>1. CASE Boot
  <2>1. cmd["boot"] = "none" /\ "boot" \in Migrators
    BY <1>1 DEF MigrationInv, NoneInside, Boot, Migrators
  <2> QED
    BY <1>1, <2>1, BeginStep DEF Boot
<1>2. ASSUME Stop PROVE \A m \in Migrators : Fresh(m)
  BY <1>2, EndStep DEF Stop, Fresh, MigrationInv
<1>3. ASSUME NEW m \in Migrators, Fail(m)
      PROVE  /\ tables' = tables /\ written' = written
             /\ \A n \in Migrators : Untouched(n) \/ Fresh(n)
  <2>1. UNCHANGED <<tables, release, written>>
    BY <1>3 DEF Fail
  <2>2. CASE m = "boot"
    BY <1>2, <1>3, <2>1, <2>2 DEF Fail
  <2>3. CASE m # "boot"
    <3>1. /\ TypeInv /\ End({m}) /\ {m} \in SUBSET Migrators
          /\ overtaken' = [overtaken EXCEPT ![m] = FALSE]
      BY <1>3, <2>3 DEF Fail, MigrationInv
    <3>2. /\ cmd'[m] = "none" /\ DOMAIN tx'[m] = {}
          /\ base'[m] = 0 /\ at'[m] = 0 /\ done'[m] = 0
          /\ \A n \in Migrators \ {m} : UNCHANGED <<cmd[n], base[n], at[n], done[n], tx[n]>>
      BY <3>1, EndStep
    <3>3. \A n \in Migrators \ {m} : overtaken'[n] = overtaken[n]
      BY <3>1 DEF TypeInv, TypeOK
    <3> QED
      BY <2>1, <3>2, <3>3 DEF Untouched, Kept, Fresh
  <2> QED
    BY <2>2, <2>3
<1>4. ASSUME NEW command \in {"upgrade", "downgrade"}, Command(command)
      PROVE  /\ tables' = tables /\ written' = written
             /\ \A m \in Migrators : Untouched(m) \/ Fresh(m)
  <2>1. /\ "cli" \in Migrators /\ cmd["cli"] = "none" /\ Begin("cli", command)
        /\ UNCHANGED <<ver, tables, release, written>>
    BY <1>4 DEF Command, Migrators
  <2> QED
    BY <2>1, BeginStep
<1>5. ASSUME NEW image \in Releases, Restart(image)
      PROVE  tables' = tables /\ written' = written /\ \A m \in Migrators : Fresh(m)
  BY <1>2, <1>5 DEF Restart
<1>6. CASE UNCHANGED vars
  BY <1>6 DEF vars, Untouched, Kept
<1> QED
  BY <1>1, <1>3, <1>4, <1>5, <1>6

\* An account is inserted: no command has touched the accounts.
LEMMA InsertUserFacts ==
  ASSUME MigrationInv, InsertUser
  PROVE  /\ Logs' = Logs /\ written' = written
         /\ \A m \in Migrators : Untouched(m) /\ "users" \notin DOMAIN tx[m]
<1>1. PICK rows : tables' = [tables EXCEPT !["users"].rows = rows]
  BY DEF InsertUser, Insert
<1>2. Logs' = Logs
  BY <1>1 DEF Logs, MigrationInv, TypeInv, TypeOK, Tables
<1>3. /\ UNCHANGED <<release, cmd, base, at, done, tx, overtaken, written>>
      /\ \A m \in Migrators : "users" \notin DOMAIN tx[m]
  BY DEF InsertUser, Insert
<1> QED
  BY <1>2, <1>3 DEF Untouched, Kept

LEMMA LogsNext ==
  ASSUME ChainFits, MigrationInv, LogsInv, [Next]_vars
  PROVE  LogsInv'
<1>1. ASSUME tables' = tables, written' = written, \A m \in Migrators : Untouched(m) \/ Fresh(m)
      PROVE  LogsInv'
  BY <1>1, QuietLogs DEF Untouched, Logs
<1>2. ASSUME NEW m \in Migrators, Progress(m) PROVE LogsInv'
  BY <1>1, <1>2, OperateLogs, FinishLogs, CommitLogs, QuietCommands DEF Progress
<1>3. ASSUME NEW optional \in BOOLEAN, NEW wide \in DOMAIN Wide \cup {"none"},
             InsertLog(optional, wide)
      PROVE  LogsInv'
  BY <1>3, InsertLogRows
<1>4. CASE InsertUser
  BY <1>4, InsertUserFacts, QuietLogs DEF Untouched
<1> QED
  BY <1>1, <1>2, <1>3, <1>4, QuietCommands DEF Next

LEMMA UpgradeNext ==
  ASSUME ChainFits, MigrationInv, LogsInv, UpgradeInv, [Next]_vars
  PROVE  UpgradeInv'
<1>1. ASSUME tables' = tables, written' = written, NEW m \in Migrators, Untouched(m) \/ Fresh(m)
      PROVE  Smooth(m)'
  BY <1>1, SmoothKept, SmoothFresh DEF UpgradeInv, Logs, Users
<1>2. ASSUME NEW m \in Migrators, Operate(m) \/ Finish(m), NEW n \in Migrators
      PROVE  Smooth(n)'
  <2>1. CASE n = m
    BY <1>2, <2>1, OperateSmooth, FinishSmooth DEF UpgradeInv
  <2>2. CASE n # m
    <3>1. tables' = tables /\ written' = written
      BY <1>2 DEF Operate, Finish
    <3>2. Untouched(n)
      <4>1. DOMAIN tx = Migrators /\ Placed(m) /\ TypeInv
        BY DEF MigrationInv, TypeInv
      <4>2. CASE Operate(m)
        <5>1. tx'[n] = tx[n]
          BY <2>2, <4>1, <4>2, OperateView
        <5> QED
          BY <2>2, <4>1, <4>2, <5>1 DEF Operate, Untouched, Kept, TypeInv, TypeOK
      <4>3. CASE Finish(m)
        BY <2>2, <4>1, <4>3 DEF Finish, Untouched, Kept, TypeInv, TypeOK
      <4> QED
        BY <1>2, <4>2, <4>3
    <3> QED
      BY <1>1, <3>1, <3>2
  <2> QED
    BY <2>1, <2>2
<1>3. ASSUME NEW m \in Migrators, Commit(m), NEW n \in Migrators
      PROVE  Smooth(n)'
  <2>1. /\ Fresh(m) /\ written' = written /\ tables' = View(m)
        /\ n # m => /\ Kept(n)
                    /\ overtaken'[n] = (cmd[n] # "none" /\ (overtaken[n] \/ at[m] # base[m]))
    BY <1>3, CommitFacts DEF Commit
  <2>2. CASE n = m
    BY <2>1, <2>2, SmoothFresh
  <2>3. CASE n # m /\ ~overtaken'[n] /\ cmd[n] = "upgrade"
    <3>1. at[m] = base[m] /\ overtaken'[n] = overtaken[n]
      <4>1. overtaken[n] \in BOOLEAN
        BY DEF MigrationInv, TypeInv, TypeOK
      <4> QED
        BY <2>1, <2>3, <4>1
    <3>2. DOMAIN tx[m] = {} /\ DOMAIN tables = Tables /\ TypeInv
      BY <1>3, <3>1, CommitFacts DEF MigrationInv, Placed, TypeInv, TypeOK
    <3>3. Logs' = Logs /\ Users' = Users
      <4>1. "users" \in Tables /\ "firewall_logs" \in Tables
        BY DEF Tables
      <4> QED
        BY <2>1, <3>2, <4>1, ViewAt DEF Logs, Users
    <3> QED
      BY <2>1, <2>3, <3>1, <3>3, SmoothKept DEF UpgradeInv, Untouched
  <2>4. CASE n # m /\ (overtaken'[n] \/ cmd[n] # "upgrade")
    BY <2>1, <2>4 DEF Smooth, Kept
  <2> QED
    BY <2>2, <2>3, <2>4
<1>4. CASE InsertUser
  BY <1>4, InsertUserFacts, SmoothKept DEF UpgradeInv
<1>5. ASSUME NEW optional \in BOOLEAN, NEW wide \in DOMAIN Wide \cup {"none"},
             InsertLog(optional, wide)
      PROVE  UpgradeInv'
  <2>1. PICK rows : tables' = [tables EXCEPT !["firewall_logs"].rows = rows]
    BY <1>5 DEF InsertLog, Insert
  <2>2. Users' = Users
    BY <2>1 DEF Users, MigrationInv, TypeInv, TypeOK, Tables
  <2>3. \A m \in Migrators : Untouched(m) /\ "firewall_logs" \notin DOMAIN tx[m]
    BY <1>5 DEF InsertLog, Insert, Untouched, Kept
  <2> QED
    BY <2>2, <2>3, SmoothKept DEF UpgradeInv
<1>6. ASSUME NEW m \in Migrators, Fail(m) PROVE UpgradeInv'
  BY <1>1, <1>6, QuietCommands DEF UpgradeInv
<1>7. ASSUME NEW m \in Migrators, Progress(m) PROVE UpgradeInv'
  BY <1>2, <1>3, <1>6, <1>7 DEF Progress, UpgradeInv
<1>8. CASE \/ Boot
           \/ \E command \in {"upgrade", "downgrade"} : Command(command)
           \/ \E image \in Releases : Restart(image)
           \/ UNCHANGED vars
  BY <1>1, <1>8, QuietCommands DEF UpgradeInv
<1> QED
  BY <1>4, <1>5, <1>7, <1>8 DEF Next

LEMMA RowsAlways ==
  ASSUME ChainFits
  PROVE  Spec => [](MigrationInv /\ LogsInv /\ UpgradeInv)
<1> DEFINE All == MigrationInv /\ LogsInv /\ UpgradeInv
<1>1. Init => All
  <2>1. Init => UpgradeInv
    BY DEF Init, UpgradeInv, Smooth
  <2> QED
    BY <2>1, MigrationInit, LogsInit
<1>2. All /\ [Next]_vars => All'
  BY MigrationNext, LogsNext, UpgradeNext
<1> HIDE DEF All
<1>3. Spec => []All
  BY <1>1, <1>2, PTL DEF Spec
<1> QED
  BY <1>3 DEF All

\* Unless another command has committed meanwhile, a command meets the schema and the version
\* it was made for, and an upgrade that Obstructed does not foresee to fail is refused by
\* nothing, whatever rows there are and whatever is inserted while it runs.
THEOREM ErrorsForeseen == ASSUME ChainFits PROVE Spec => []ErrorsAreForeseen
<1>1. ASSUME MigrationInv, LogsInv, UpgradeInv, NEW m \in Migrators, cmd[m] # "none",
             ~overtaken[m]
      PROVE  /\ Error(m) \notin {"schema", "version"}
             /\ cmd[m] = "upgrade" /\ ~Obstructed => Error(m) \in {"none", "deadlock"}
  <2>1. /\ VersionFound(m)
        /\ Running(m) => Refusal(NextOp(m), View(m)) \notin {"schema", "version"}
    BY <1>1, OthersFit
  <2>2. Error(m) \notin {"schema", "version"}
    BY <2>1 DEF Error
  <2>3. ASSUME cmd[m] = "upgrade", ~Obstructed
        PROVE  Error(m) \in {"none", "deadlock"}
    <3>1. Located(m)
      <4>1. ver = base[m] /\ ver <= release /\ release \in Nat
        BY <1>1, <2>3, ReleasesAssumption, LatestPositive
           DEF MigrationInv, Current, Obstructed, TypeInv, TypeOK
      <4> QED
        BY <2>3, <4>1 DEF Located, Target
    <3>2. Running(m) => Refusal(NextOp(m), View(m)) = "none"
      <4> SUFFICES ASSUME Running(m) PROVE Refusal(NextOp(m), View(m)) = "none"
        OBVIOUS
      <4>1. NextOp(m).op # "drop unnamed" /\ ~Obstructs(NextOp(m), View(m))
        BY <1>1, <2>3, NothingInTheWay DEF UpgradeInv
      <4> QED
        BY <2>1, <4>1 DEF Refusal
    <3> QED
      BY <2>1, <3>1, <3>2 DEF Error
  <2> QED
    BY <2>2, <2>3
<1>2. MigrationInv /\ LogsInv /\ UpgradeInv => ErrorsAreForeseen
  BY <1>1 DEF ErrorsAreForeseen
<1> QED
  BY RowsAlways, <1>2, PTL

\* Where the logs are in the columns of the version, they say what they said.
LEMMA LogsRead == ASSUME ChainFits, MigrationInv, LogsInv PROVE LogsSurvive
<1>1. /\ IsSequence(written) /\ RowsHold(Logs, Home(Logs.cols))
      /\ ver \in 0 .. Latest /\ "firewall_logs" \in Tables
  BY DEF LogsInv, MigrationInv, TypeInv, TypeOK, Tables
<1>2. Len(Logs.rows) = Len(written) /\ DOMAIN written = 1 .. Len(written)
  <2>1. PICK rows : rows = Logs.rows /\ rows = [i \in 1 .. Len(written) |-> rows[i]]
    BY <1>1 DEF RowsHold
  <2>2. Len(rows) = Len(written)
    BY <1>1, <2>1, SequenceLength DEF IsSequence
  <2> QED
    BY <1>1, <2>1, <2>2 DEF IsSequence
<1>3. ASSUME NEW i \in DOMAIN written, NEW f \in Fields, written[i][f] # Null
      PROVE  Content(Logs.rows[i])[f] = written[i][f]
  <2>1. /\ DOMAIN Logs.rows[i] = DOMAIN Logs.cols
        /\ Home(Logs.cols)[f] \in DOMAIN Logs.cols
        /\ Logs.rows[i][Home(Logs.cols)[f]] = written[i][f]
    BY <1>1, <1>2, <1>3 DEF RowsHold
  <2>2. DOMAIN Logs.cols = DOMAIN SchemaAt(ver)["firewall_logs"].cols
    BY <1>1 DEF MigrationInv, SchemaFollowsRevision, Follows, Logs
  <2>3. Home(Logs.cols)[f] = CHOOSE c \in DOMAIN Logs.cols : Holds(f, c)
    BY <1>1, <2>1, <2>2, HomeOfField
  <2> QED
    BY <2>1, <2>3 DEF Content
<1> QED
  BY <1>2, <1>3 DEF LogsSurvive, Logs

\* What a log said of its verdict, score, threat, size and time is in it at every version,
\* whatever commands run side by side, fail or are killed, and no log is lost.
THEOREM LogsAreKept == ASSUME ChainFits PROVE Spec => []LogsSurvive
<1>1. MigrationInv /\ LogsInv => LogsSurvive
  BY LogsRead
<1> QED
  BY RowsAlways, <1>1, PTL
=============================================================================

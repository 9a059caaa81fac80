----------------------------- MODULE Migrations -----------------------------
(***************************************************************************)
(* Alembic on a database that is in use.  The web container runs `flask db *)
(* upgrade' and only then the server (entrypoint.sh); it starts again when *)
(* it ends (docker-compose.yml), perhaps from the image of another         *)
(* release, and an operator may run `flask db upgrade' or `flask db        *)
(* downgrade -1' in it at any time.  A command applies all its revisions   *)
(* in one transaction (migrations/env.py); the serving application inserts *)
(* rows meanwhile.                                                         *)
(***************************************************************************)
EXTENDS Schema

CONSTANTS
  Releases,          \* the images: a release is named by the last revision it has
  MaxLogs,           \* bound: firewall logs that are inserted
  MaxInterventions   \* bound: restarts, deployments and commands of the operator

ASSUME ReleasesAssumption == Releases \subseteq 1 .. Latest
ASSUME BoundsAssumption == MaxLogs \in Nat /\ MaxInterventions \in Nat

VARIABLES
  ver,               \* the row of alembic_version, 0 for no row
  tables,            \* the tables and their rows, as committed
  release, app,      \* the image of the container, and what it is doing
  cmd,               \* the command a migrator runs
  base,              \* the revision it read when it began
  at, done,          \* the revision it has reached, the operations of the next it has done
  tx,                \* its transaction: the tables it has touched, as it sees them
  overtaken,         \* history: another command has committed since it began
  written,           \* history: what each firewall log said when it was inserted
  interventions      \* restarts, deployments and commands so far

vars == <<ver, tables, release, app, cmd, base, at, done, tx, overtaken, written,
          interventions>>

Migrators == {"boot", "cli"}

Init ==
  /\ ver = 0
  /\ tables = NoTables
  /\ release \in Releases
  /\ app = "down"
  /\ cmd = [m \in Migrators |-> "none"]
  /\ base = [m \in Migrators |-> 0]
  /\ at = [m \in Migrators |-> 0]
  /\ done = [m \in Migrators |-> 0]
  /\ tx = [m \in Migrators |-> << >>]
  /\ overtaken = [m \in Migrators |-> FALSE]
  /\ written = << >>
  /\ interventions = 0

-----------------------------------------------------------------------------
(* Commands of Alembic. *)

\* Why a command fails: its DDL does not fit the schema, rows are in the way, a
\* constraint has no name, another command has moved the version, the image does not
\* have the revision, or two commands wait for each other.
Errors == {"schema", "rows", "unnamed", "version", "revision", "deadlock"}

\* A command begins by reading the revision of the database.
Begin(m, command) ==
  /\ cmd' = [cmd EXCEPT ![m] = command]
  /\ base' = [base EXCEPT ![m] = ver]
  /\ at' = [at EXCEPT ![m] = ver]
  /\ done' = [done EXCEPT ![m] = 0]
  /\ UNCHANGED <<tx, overtaken>>

\* The commands of the given migrators are over.
End(over) ==
  LET Reset(f, value) == [m \in Migrators |-> IF m \in over THEN value ELSE f[m]] IN
    /\ cmd' = Reset(cmd, "none")
    /\ tx' = Reset(tx, << >>)
    /\ base' = Reset(base, 0) /\ at' = Reset(at, 0) /\ done' = Reset(done, 0)

Target(m) == IF cmd[m] = "upgrade" THEN release ELSE base[m] - 1

\* The image has the revision of the database, and `-1' leads to one.
Located(m) == base[m] <= release /\ Target(m) >= 0

Operations(m) == OperationsOf(cmd[m], at[m])

\* The database as m's transaction sees it.
View(m) == tx[m] ++ tables

Busy(m) == cmd[m] # "none" /\ Located(m) /\ at[m] # Target(m)

\* m is about to run an operation of its revision, or has run them all.
Running(m) == Busy(m) /\ done[m] < Len(Operations(m))
Finishing(m) == Busy(m) /\ done[m] = Len(Operations(m))

NextOp(m) == Operations(m)[done[m] + 1]

Other(m) == CHOOSE n \in Migrators : n # m

\* Locks are kept to the end of a transaction: those of the tables, and that of the row
\* of alembic_version, which every revision updates.
Waits(m) ==
  \/ Running(m) /\ Locks(NextOp(m), View(m)) \cap DOMAIN tx[Other(m)] # {}
  \/ Finishing(m) /\ cmd[Other(m)] # "none" /\ at[Other(m)] # base[Other(m)]

\* One operation of a revision.
Operate(m) ==
  /\ Running(m) /\ ~Waits(m)
  /\ Refusal(NextOp(m), View(m)) = "none"
  /\ tx' = [tx EXCEPT ![m] =
       LET db == Perform(View(m), NextOp(m)) IN
         [t \in DOMAIN @ \cup Locks(NextOp(m), View(m)) |-> db[t]]]
  /\ done' = [done EXCEPT ![m] = @ + 1]
  /\ UNCHANGED <<ver, tables, release, app, cmd, base, at, overtaken, written,
                 interventions>>

\* Alembic's UPDATE of alembic_version has to find the row with the revision it comes from;
\* for the first revision it inserts one.
VersionFound(m) == at[m] # base[m] \/ base[m] \in {0, ver}

\* The end of a revision: the version is moved.
Finish(m) ==
  /\ Finishing(m) /\ ~Waits(m)
  /\ VersionFound(m)
  /\ at' = [at EXCEPT ![m] = IF cmd[m] = "upgrade" THEN @ + 1 ELSE @ - 1]
  /\ done' = [done EXCEPT ![m] = 0]
  /\ UNCHANGED <<ver, tables, release, app, cmd, base, tx, overtaken, written,
                 interventions>>

\* The command ends: all its revisions take effect at once.  After that of the
\* entrypoint the server starts.
Commit(m) ==
  /\ cmd[m] # "none" /\ Located(m) /\ at[m] = Target(m)
  /\ tables' = View(m)
  /\ ver' = IF at[m] = base[m] THEN ver ELSE at[m]
  /\ overtaken' = [n \in Migrators |->
       n # m /\ cmd[n] # "none" /\ (overtaken[n] \/ at[m] # base[m])]
  /\ app' = IF m = "boot" THEN "serving" ELSE app
  /\ End({m})
  /\ UNCHANGED <<release, written, interventions>>

\* The container is gone, and with it every command in it.
Stop ==
  /\ app' = "down"
  /\ End(Migrators)
  /\ overtaken' = [m \in Migrators |-> FALSE]

\* Why the command cannot go on: "none" if it can.
Error(m) ==
  CASE ~Located(m) -> "revision"
    [] Waits(m) /\ Waits(Other(m)) -> "deadlock"
    [] Running(m) /\ ~Waits(m) -> Refusal(NextOp(m), View(m))
    [] Finishing(m) /\ ~Waits(m) /\ ~VersionFound(m) -> "version"
    [] OTHER -> "none"

\* The command raises and its transaction is rolled back.  `set -e' ends the entrypoint
\* and with it the container.
Fail(m) ==
  /\ cmd[m] # "none"
  /\ Error(m) # "none"
  /\ IF m = "boot" THEN Stop
     ELSE /\ End({m})
          /\ overtaken' = [overtaken EXCEPT ![m] = FALSE]
          /\ UNCHANGED app
  /\ UNCHANGED <<ver, tables, release, written, interventions>>

-----------------------------------------------------------------------------
(* The container and its operator. *)

\* entrypoint.sh begins.
Boot ==
  /\ app = "down"
  /\ app' = "booting"
  /\ Begin("boot", "upgrade")
  /\ UNCHANGED <<ver, tables, release, written, interventions>>

\* docker compose exec web flask db upgrade, or downgrade -1.
Command(command) ==
  /\ interventions < MaxInterventions
  /\ interventions' = interventions + 1
  /\ app # "down" /\ cmd["cli"] = "none"
  /\ Begin("cli", command)
  /\ UNCHANGED <<ver, tables, release, app, written>>

\* The container stops or crashes, and may come back from another image.
Restart(image) ==
  /\ interventions < MaxInterventions
  /\ interventions' = interventions + 1
  /\ app # "down"
  /\ Stop
  /\ release' = image
  /\ UNCHANGED <<ver, tables, written>>

-----------------------------------------------------------------------------
(* Rows. *)

\* The columns a release writes.  The models of an earlier release are those that its
\* last revision was made for.
Columns(r, t) == IF r = Latest THEN Models[t] ELSE SchemaAt(r)[t].cols

\* The value of a column in a row whose optional columns are set or not, and which has a
\* wide value of one field, or "none", where the column has room for it.
Value(c, decl, optional, wide) ==
  IF decl.type = "index" \/ (decl.null /\ ~optional) THEN Null
  ELSE IF ~\E f \in Fields : Holds(f, c) THEN "data"
  ELSE LET field == CHOOSE f \in Fields : Holds(f, c) IN
         IF field = wide /\ decl.type # Narrow[field] THEN Wide[field] ELSE field

\* The columns that the release writes exist, and each NOT NULL column has a value, which
\* the release writes or the database has as default.
Accepts(t, row) ==
  /\ DOMAIN Columns(release, t) \subseteq DOMAIN tables[t].cols
  /\ \A c \in DOMAIN row : row[c] = Null => tables[t].cols[c].null

\* The serving application inserts a row into a table of its release; a table that a
\* migrator has touched is locked.
Insert(t, optional, wide) ==
  /\ app = "serving"
  /\ Exists(SchemaAt(release), t)
  /\ \A m \in Migrators : t \notin DOMAIN tx[m]
  /\ LET given == Columns(release, t)
         row == [c \in DOMAIN tables[t].cols |->
                   IF c \in DOMAIN given THEN Value(c, given[c], optional, wide)
                   ELSE IF tables[t].cols[c].default THEN "default" ELSE Null]
     IN /\ Accepts(t, row)
        /\ tables' = [tables EXCEPT ![t].rows = Append(@, row)]
  /\ UNCHANGED <<ver, release, app, cmd, base, at, done, tx, overtaken, interventions>>

InsertUser ==
  /\ tables["users"].rows = << >>
  /\ Insert("users", TRUE, "none")
  /\ UNCHANGED written

\* What a row of firewall_logs holds of each field.
Content(row) ==
  [f \in Fields |-> row[CHOOSE c \in DOMAIN row : Holds(f, c)]]

InsertLog(optional, wide) ==
  /\ tables["users"].rows # << >>
  /\ Len(written) < MaxLogs
  /\ Insert("firewall_logs", optional, wide)
  /\ written' = Append(written, Content(Last(tables'["firewall_logs"].rows)))

-----------------------------------------------------------------------------
Progress(m) == Operate(m) \/ Finish(m) \/ Commit(m) \/ Fail(m)

Next ==
  \/ Boot
  \/ \E m \in Migrators : Progress(m)
  \/ \E command \in {"upgrade", "downgrade"} : Command(command)
  \/ \E image \in Releases : Restart(image)
  \/ InsertUser
  \/ \E optional \in BOOLEAN, wide \in DOMAIN Wide \cup {"none"} : InsertLog(optional, wide)

Spec == Init /\ [][Next]_vars

\* A container that has ended is started again, and a command goes on until it ends.
FairSpec == Spec /\ WF_vars(Boot) /\ \A m \in Migrators : WF_vars(Progress(m))

-----------------------------------------------------------------------------
(* Properties. *)

\* Every variable holds a value of its type.
TypeOK ==
  /\ ver \in 0 .. Latest
  /\ DOMAIN tables = Tables
  /\ release \in Releases
  /\ app \in {"down", "booting", "serving"}
  /\ cmd \in [Migrators -> {"none", "upgrade", "downgrade"}]
  /\ base \in [Migrators -> 0 .. Latest] /\ at \in [Migrators -> 0 .. Latest]
  /\ done \in [Migrators -> 0 .. 8]
  /\ \A m \in Migrators : DOMAIN tx[m] \subseteq Tables
  /\ overtaken \in [Migrators -> BOOLEAN]
  /\ interventions \in 0 .. MaxInterventions

\* However the database got to its revision (upgrades, downgrades, commands that ran at
\* the same time, failed or were killed), its schema is that of an upgrade from nothing
\* to that revision.  One column is excepted: a downgrade of b7f2 leaves is_system NOT NULL.
SchemaFollowsRevision ==
  \A t \in Tables : Follows(tables[t].cols, SchemaAt(ver)[t].cols)

\* Each revision fits the schema it is made for, up and down, and leads to the schema of
\* the next, the fields of the logs with it; the last one is that of the models.  This
\* depends on no variable: TLC looks at it in the initial states.
RevisionsAreSound ==
  app = "down" /\ interventions = 0 /\ ver = 0 => ChainFits

\* At the last revision the tables are those of app/models.py, column by column, in type
\* and in what may be NULL, but for the three switches of d4e6f8a1b2c3: a null that the
\* models allow is refused there, and nowhere else.
LatestFitsModels == ver = Latest => FitsModels(tables)

\* No migration, up or down, loses what a log said of its verdict, score, threat, size,
\* time and protocol ("so any existing rows survive the switch"): they move with the columns.
LogsSurvive ==
  /\ Len(tables["firewall_logs"].rows) = Len(written)
  /\ \A i \in DOMAIN written, f \in Fields :
       written[i][f] # Null => Content(tables["firewall_logs"].rows[i])[f] = written[i][f]

\* A log of before b7f2 that b7f2 has no place for: it does not say whether the app is one
\* of the system, its verdict is too long, or its size or protocol is out of range.
Unfit(log) ==
  \/ log["is_system"] = Null
  \/ log["action_taken"] = Wide["verdict"]
  \/ log["packet_size"] = Wide["size"]
  \/ log["protocol"] = Wide["protocol"]

\* Upgrading the committed database to the release of the image is bound to fail: the
\* database is newer; fcaac finds an account, which has no username; fe31 finds a log,
\* which has no action_taken; or b7f2 finds a log that is unfit.
Obstructed ==
  LET logs == tables["firewall_logs"].rows IN
    \/ ver > release
    \/ ver = 1 /\ release > 1 /\ tables["users"].rows # << >>
    \/ ver = 2 /\ release > 2 /\ logs # << >>
    \/ ver = 3 /\ release > 3 /\ \E i \in DOMAIN logs : Unfit(logs[i])

\* Unless another command has committed since this one read its revision, a revision fits the
\* schema it is applied to and the version it replaces, and an upgrade meets no other error
\* than those that Obstructed foresees (and a deadlock, after which it can be run again).
ErrorsAreForeseen ==
  \A m \in Migrators : cmd[m] # "none" /\ ~overtaken[m] =>
    /\ Error(m) \notin {"schema", "version"}
    /\ cmd[m] = "upgrade" /\ ~Obstructed => Error(m) \in {"none", "deadlock"}

\* The server comes up again and again, unless the database is newer than the image or
\* rows that were inserted before b7f2 are in the way: whatever the rows, an upgrade from
\* b7f2 or a later revision succeeds.
Boots == []<>(app = "serving" \/ Obstructed)
=============================================================================

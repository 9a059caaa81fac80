----------------------------- MODULE LogIngest -----------------------------
(***************************************************************************)
(* The write path of the blacklist: firewall-log batches that arrive over  *)
(* a WebSocket or the REST endpoint (app/routes/firewall_logs.py,          *)
(* _persist_batch and what it calls) race with each other and with the     *)
(* blacklist endpoints (app/routes/blacklist.py) over one PostgreSQL       *)
(* database.                                                               *)
(*                                                                         *)
(* A request is one run of a handler.  It moves from one SQL statement to  *)
(* the next, and the statements of different requests interleave freely:   *)
(* they run in different gunicorn worker processes (or in threads of the   *)
(* development server).  The transaction of a batch is at READ COMMITTED:  *)
(* its SELECTs see what is committed, and an INSERT of a key that another  *)
(* open transaction has inserted waits for that transaction.  A request    *)
(* with a single write has that write and its COMMIT in one step.          *)
(*                                                                         *)
(* SQLAlchemy flushes a pending row before the next query, so the order of *)
(* the statements of a batch is                                            *)
(*    INSERT logs; SELECT ip1; INSERT ip1; SELECT ip2; INSERT ip2; ...;    *)
(*    SELECT settings; INSERT events; COMMIT                               *)
(***************************************************************************)
EXTENDS LogBatch

CONSTANTS
  Requests,       \* handler invocations; each is used at most once
  Users,
  UserOf,         \* the JWT identity of each request
  Batches,        \* the log arrays the clients may send
  Thresholds,     \* the [warn, block] pairs the settings may hold
  InitSettings,   \* the settings of each user at the start
  MayFail         \* whether statements may fail and workers may be killed

ASSUME UserOfAssumption == UserOf \in [Requests -> Users]
\* An empty list of logs is refused before _persist_batch.
ASSUME BatchesAssumption == Batches \subseteq Seq(RawLogs) /\ << >> \notin Batches
ASSUME ThresholdsAssumption == Thresholds \subseteq [warn : Scores, block : Scores]
ASSUME SettingsAssumption == InitSettings \in [Users -> Thresholds \cup {NoSettings}]
ASSUME MayFailAssumption == MayFail \in BOOLEAN

VARIABLES
  pc,                 \* where each handler is
  logs,               \* the batch of each request, << >> when it has none
  key,                \* the IP a request looked up and is about to INSERT
  target,             \* the rows a DELETE by id has loaded: none or one
  todo,               \* blocked IPs that _auto_blacklist has not looked at
  ins,                \* IPs of the rows inserted and not committed
  queued,             \* indices of the logs that get an unknown_events row
  unsent,             \* IPs whose blacklist_update is not pushed yet
  answer,             \* what the client was told
  firewall_logs,      \* committed rows: <<request, index in its batch>>
  blacklist_entries,  \* committed rows
  unknown_events,     \* committed rows: <<request, index in its batch>>
  user_settings,      \* committed thresholds of each user
  pushed,             \* history: entries announced to the user's sockets
  gone                \* history: IPs removed from the list of a request's
                      \* user since the request began

local == <<logs, key, target, todo, ins, queued, unsent>>
tables == <<firewall_logs, blacklist_entries, unknown_events>>
vars == <<pc, logs, key, target, todo, ins, queued, unsent, answer, firewall_logs,
          blacklist_entries, unknown_events, user_settings, pushed, gone>>

PCs == {"new", "scan", "flush", "commit", "notify", "addflush", "reload", "remove",
        "done", "dead"}

Answers == {"none", "ack", "invalid", "error", "created", "conflict", "deleted", "notfound"}

\* A row is identified by the request that inserted it and its IP: this pair
\* stands for the primary key, which no later row gets again.
Row(r, ip) == [by |-> r, user |-> UserOf[r], ip |-> ip]
Rows == [by : Requests, user : Users, ip : IPs]

-----------------------------------------------------------------------------
(* What the database makes of the requests' statements. *)

Listed(u, ip) == \E row \in blacklist_entries : row.user = u /\ row.ip = ip

\* Mutant: the table has no unique index.
NoUniqueIndex(r) == FALSE

\* The unique index on (user_id, ip): the key r inserts is committed already.
KeyTaken(r) == Listed(UserOf[r], key[r])

\* r waits for the transaction of s, which has inserted the same key.
WaitsFor(r, s) ==
  /\ r # s
  /\ pc[r] \in {"flush", "addflush"}
  /\ UserOf[s] = UserOf[r]
  /\ key[r] \in ins[s]

Waiting(r) == \E s \in Requests : WaitsFor(r, s)

\* A request waits for at most one other, so such a set is made of cycles.
InWaitCycle(r) ==
  \E S \in SUBSET Requests :
    /\ r \in S
    /\ \A s \in S : /\ \E t \in S : WaitsFor(s, t)
                    /\ \E t \in S : WaitsFor(t, s)

Active(r) == pc[r] \notin {"new", "done", "dead"}

-----------------------------------------------------------------------------
Init ==
  /\ pc = [r \in Requests |-> "new"]
  /\ logs = [r \in Requests |-> << >>]
  /\ key = [r \in Requests |-> NoIP]
  /\ target = [r \in Requests |-> {}]
  /\ todo = [r \in Requests |-> {}]
  /\ ins = [r \in Requests |-> {}]
  /\ queued = [r \in Requests |-> {}]
  /\ unsent = [r \in Requests |-> {}]
  /\ answer = [r \in Requests |-> "none"]
  /\ firewall_logs = {}
  /\ blacklist_entries = {}
  /\ unknown_events = {}
  /\ user_settings = InitSettings
  /\ pushed = {}
  /\ gone = [r \in Requests |-> {}]

\* Mutant: the handler does not roll back.
NoRollback(r) == ins[r]

\* The rows a rollback leaves behind: none.
AfterRollback(r) == {}

Finish(r, a) ==
  /\ pc' = [pc EXCEPT ![r] = "done"]
  /\ answer' = [answer EXCEPT ![r] = a]

\* An exception: the handler rolls back and answers with an error.
Abort(r) ==
  /\ Finish(r, "error")
  /\ ins' = [ins EXCEPT ![r] = AfterRollback(r)]
  /\ todo' = [todo EXCEPT ![r] = {}]
  /\ queued' = [queued EXCEPT ![r] = {}]
  /\ unsent' = [unsent EXCEPT ![r] = {}]
  /\ UNCHANGED <<logs, key, target, tables, user_settings, pushed, gone>>

-----------------------------------------------------------------------------
(* A batch of logs: _persist_batch and the handlers that call it. *)

\* One invalid log and the whole batch is refused before any statement.
RejectBatch(r, b) ==
  /\ pc[r] = "new"
  /\ ~ValidBatch(b)
  /\ Finish(r, "invalid")
  /\ logs' = [logs EXCEPT ![r] = b]
  /\ UNCHANGED <<key, target, todo, ins, queued, unsent, tables, user_settings,
                 pushed, gone>>

\* The rows of the logs are inserted; nothing can conflict with them.
InsertLogs(r, b) ==
  /\ pc[r] = "new"
  /\ ValidBatch(b)
  /\ pc' = [pc EXCEPT ![r] = "scan"]
  /\ logs' = [logs EXCEPT ![r] = b]
  /\ todo' = [todo EXCEPT ![r] = BlockedIPs(b)]
  /\ UNCHANGED <<key, target, ins, queued, unsent, answer, tables, user_settings,
                 pushed, gone>>

\* Mutant: the lookup is not limited to the entries of the user.
CheckIpOfAnyone(r, ip) ==
  /\ pc[r] = "scan"
  /\ FirstBlocked(logs[r], todo[r], ip)
  /\ todo' = [todo EXCEPT ![r] = @ \ {ip}]
  /\ IF \E u \in Users : Listed(u, ip)
       THEN UNCHANGED <<pc, key>>
       ELSE /\ pc' = [pc EXCEPT ![r] = "flush"]
            /\ key' = [key EXCEPT ![r] = ip]
  /\ UNCHANGED <<logs, target, ins, queued, unsent, answer, tables, user_settings,
                 pushed, gone>>

\* _auto_blacklist: is the next blocked IP listed?
CheckIp(r, ip) ==
  /\ pc[r] = "scan"
  /\ FirstBlocked(logs[r], todo[r], ip)
  /\ todo' = [todo EXCEPT ![r] = @ \ {ip}]
  /\ IF Listed(UserOf[r], ip)
       THEN UNCHANGED <<pc, key>>
       ELSE /\ pc' = [pc EXCEPT ![r] = "flush"]
            /\ key' = [key EXCEPT ![r] = ip]
  /\ UNCHANGED <<logs, target, ins, queued, unsent, answer, tables, user_settings,
                 pushed, gone>>

\* Mutant: every new entry is committed on its own.
InsertEntryAndCommit(r) ==
  /\ pc[r] = "flush"
  /\ ~Waiting(r)
  /\ ~KeyTaken(r)
  /\ pc' = [pc EXCEPT ![r] = "scan"]
  /\ blacklist_entries' = blacklist_entries \cup {Row(r, key[r])}
  /\ UNCHANGED <<local, answer, firewall_logs, unknown_events, user_settings, pushed,
                 gone>>

\* Mutant: the frame is sent as soon as the entry is inserted.
InsertEntryAndPush(r) ==
  /\ pc[r] = "flush"
  /\ ~Waiting(r)
  /\ ~KeyTaken(r)
  /\ pc' = [pc EXCEPT ![r] = "scan"]
  /\ ins' = [ins EXCEPT ![r] = @ \cup {key[r]}]
  /\ pushed' = pushed \cup {Row(r, key[r])}
  /\ UNCHANGED <<logs, key, target, todo, queued, unsent, answer, tables,
                 user_settings, gone>>

\* The flush of the new entry, before the next query.
InsertEntry(r) ==
  /\ pc[r] = "flush"
  /\ ~Waiting(r)
  /\ ~KeyTaken(r)
  /\ pc' = [pc EXCEPT ![r] = "scan"]
  /\ ins' = [ins EXCEPT ![r] = @ \cup {key[r]}]
  /\ UNCHANGED <<logs, key, target, todo, queued, unsent, answer, tables,
                 user_settings, pushed, gone>>

\* Mutant: the IntegrityError is rolled back and the scan goes on.
RollbackAndGoOn(r) ==
  /\ pc[r] = "flush"
  /\ ~Waiting(r)
  /\ KeyTaken(r)
  /\ pc' = [pc EXCEPT ![r] = "scan"]
  /\ ins' = [ins EXCEPT ![r] = {}]
  /\ UNCHANGED <<logs, key, target, todo, queued, unsent, answer, tables,
                 user_settings, pushed, gone>>

\* Someone listed the IP since it was looked up: IntegrityError.
UniqueViolation(r) ==
  /\ pc[r] = "flush"
  /\ ~Waiting(r)
  /\ KeyTaken(r)
  /\ Abort(r)

\* PostgreSQL aborts one of the transactions that wait for each other.
DeadlockVictim(r) ==
  /\ pc[r] = "flush"
  /\ InWaitCycle(r)
  /\ Abort(r)

\* Every blocked IP is handled; _record_unknown_events reads the thresholds.
RecordUnknownEvents(r) ==
  /\ pc[r] = "scan"
  /\ todo[r] = {}
  /\ pc' = [pc EXCEPT ![r] = "commit"]
  /\ queued' = [queued EXCEPT ![r] = AmbiguousIn(logs[r], user_settings[UserOf[r]])]
  /\ UNCHANGED <<logs, key, target, todo, ins, unsent, answer, tables, user_settings,
                 pushed, gone>>

\* Mutant: without a new entry there is no commit.
CommitOnlyEntries(r) ==
  /\ firewall_logs' = IF ins[r] = {} THEN firewall_logs
                      ELSE firewall_logs \cup {<<r, i>> : i \in DOMAIN logs[r]}
  /\ blacklist_entries' = blacklist_entries \cup {Row(r, ip) : ip \in ins[r]}
  /\ unknown_events' = unknown_events \cup {<<r, i>> : i \in queued[r]}
  /\ ins' = [ins EXCEPT ![r] = {}]
  /\ queued' = [queued EXCEPT ![r] = {}]

\* What the COMMIT of r makes visible.
MakeVisible(r) ==
  /\ firewall_logs' = firewall_logs \cup {<<r, i>> : i \in DOMAIN logs[r]}
  /\ blacklist_entries' = blacklist_entries \cup {Row(r, ip) : ip \in ins[r]}
  /\ unknown_events' = unknown_events \cup {<<r, i>> : i \in queued[r]}
  /\ ins' = [ins EXCEPT ![r] = {}]
  /\ queued' = [queued EXCEPT ![r] = {}]

\* A frame for each entry is due once the transaction is committed.
Commit(r) ==
  /\ pc[r] = "commit"
  /\ MakeVisible(r)
  /\ pc' = [pc EXCEPT ![r] = "notify"]
  /\ unsent' = [unsent EXCEPT ![r] = ins[r]]
  /\ UNCHANGED <<logs, key, target, todo, answer, user_settings, pushed, gone>>

\* The server commits but the connection to it breaks before it says so:
\* commit() raises and the frames are never pushed.
CommitInDoubt(r) ==
  /\ MayFail
  /\ pc[r] = "commit"
  /\ MakeVisible(r)
  /\ Finish(r, "error")
  /\ UNCHANGED <<logs, key, target, todo, unsent, user_settings, pushed, gone>>

\* _push_to_user for the next payload; a send that fails is swallowed.
Push(r, ip) ==
  /\ pc[r] = "notify"
  /\ FirstBlocked(logs[r], unsent[r], ip)
  /\ unsent' = [unsent EXCEPT ![r] = @ \ {ip}]
  /\ pushed' = pushed \cup {Row(r, ip)}
  /\ UNCHANGED <<pc, logs, key, target, todo, ins, queued, answer, tables,
                 user_settings, gone>>

Ack(r) ==
  /\ pc[r] = "notify"
  /\ unsent[r] = {}
  /\ Finish(r, "ack")
  /\ UNCHANGED <<local, tables, user_settings, pushed, gone>>

-----------------------------------------------------------------------------
(* The blacklist endpoints. *)

AddConflict(r, ip) ==
  /\ pc[r] = "new"
  /\ Listed(UserOf[r], ip)
  /\ Finish(r, "conflict")
  /\ UNCHANGED <<local, tables, user_settings, pushed, gone>>

AddLookup(r, ip) ==
  /\ pc[r] = "new"
  /\ ~Listed(UserOf[r], ip)
  /\ pc' = [pc EXCEPT ![r] = "addflush"]
  /\ key' = [key EXCEPT ![r] = ip]
  /\ UNCHANGED <<logs, target, todo, ins, queued, unsent, answer, tables,
                 user_settings, pushed, gone>>

\* INSERT and COMMIT.
AddEntry(r) ==
  /\ pc[r] = "addflush"
  /\ ~Waiting(r)
  /\ ~KeyTaken(r)
  /\ blacklist_entries' = blacklist_entries \cup {Row(r, key[r])}
  /\ pc' = [pc EXCEPT ![r] = "reload"]
  /\ UNCHANGED <<local, answer, firewall_logs, unknown_events, user_settings, pushed,
                 gone>>

\* The commit has expired the object, so the answer is made from the row as
\* it is now ...
AddAnswer(r) ==
  /\ pc[r] = "reload"
  /\ Row(r, key[r]) \in blacklist_entries
  /\ Finish(r, "created")
  /\ UNCHANGED <<local, tables, user_settings, pushed, gone>>

\* ... and when it is gone, SQLAlchemy raises ObjectDeletedError: a 500.
AddVanished(r) ==
  /\ pc[r] = "reload"
  /\ Row(r, key[r]) \notin blacklist_entries
  /\ Abort(r)

\* The IntegrityError is not caught: the answer is a 500.
AddViolation(r) ==
  /\ pc[r] = "addflush"
  /\ ~Waiting(r)
  /\ KeyTaken(r)
  /\ Abort(r)

\* DELETE /blacklist/<id>: the entry must be the caller's.
FindEntry(r, row) ==
  /\ pc[r] = "new"
  /\ row \in blacklist_entries
  /\ row.user = UserOf[r]
  /\ pc' = [pc EXCEPT ![r] = "remove"]
  /\ target' = [target EXCEPT ![r] = {row}]
  /\ UNCHANGED <<logs, key, todo, ins, queued, unsent, answer, tables, user_settings,
                 pushed, gone>>

EntryNotFound(r, row) ==
  /\ pc[r] = "new"
  /\ ~(row \in blacklist_entries /\ row.user = UserOf[r])
  /\ Finish(r, "notfound")
  /\ UNCHANGED <<local, tables, user_settings, pushed, gone>>

\* The rows leave the table; requests in progress may have relied on them.
Drop(rows) ==
  /\ blacklist_entries' = blacklist_entries \ rows
  /\ gone' = [s \in Requests |->
                IF pc[s] = "new" THEN gone[s]
                ELSE gone[s] \cup {row.ip : row \in {x \in rows \cap blacklist_entries :
                                                       x.user = UserOf[s]}}]

\* Mutant: the DELETE goes by user and IP.
DoomedByIP(r) == {row \in blacklist_entries : \E t \in target[r] :
                    row.user = t.user /\ row.ip = t.ip}

\* The rows that the DELETE statement of r names: by primary key.
Doomed(r) == target[r]

\* A row that is gone already is only a warning in SQLAlchemy.
RemoveEntry(r) ==
  /\ pc[r] = "remove"
  /\ Drop(Doomed(r))
  /\ Finish(r, "deleted")
  /\ UNCHANGED <<local, firewall_logs, unknown_events, user_settings, pushed>>

OwnEntries(u) == {row \in blacklist_entries : row.user = u}

ClearBlacklist(r) ==
  /\ pc[r] = "new"
  /\ Drop(OwnEntries(UserOf[r]))
  /\ Finish(r, "deleted")
  /\ UNCHANGED <<local, firewall_logs, unknown_events, user_settings, pushed>>

-----------------------------------------------------------------------------
(* The environment of the requests. *)

\* PUT /settings of the two thresholds; there must be a row to update.
SetThresholds(u, t) ==
  /\ user_settings[u] # NoSettings
  /\ user_settings' = [user_settings EXCEPT ![u] = t]
  /\ UNCHANGED <<pc, local, answer, tables, pushed, gone>>

\* A statement, or a COMMIT that does not take effect, fails.
DbError(r) ==
  /\ MayFail
  /\ pc[r] \in {"scan", "flush", "commit", "addflush", "reload", "remove"}
  /\ Abort(r)

\* The worker is killed: its transaction is rolled back, nobody is answered.
Die(r) ==
  /\ MayFail
  /\ Active(r)
  /\ pc' = [pc EXCEPT ![r] = "dead"]
  /\ ins' = [ins EXCEPT ![r] = {}]
  /\ todo' = [todo EXCEPT ![r] = {}]
  /\ queued' = [queued EXCEPT ![r] = {}]
  /\ unsent' = [unsent EXCEPT ![r] = {}]
  /\ UNCHANGED <<logs, key, target, answer, tables, user_settings, pushed, gone>>

-----------------------------------------------------------------------------
Begin(r) ==
  \/ \E b \in Batches : RejectBatch(r, b) \/ InsertLogs(r, b)
  \/ \E ip \in IPs : AddConflict(r, ip) \/ AddLookup(r, ip)
  \/ \E row \in Rows : FindEntry(r, row) \/ EntryNotFound(r, row)
  \/ ClearBlacklist(r)

\* What a request that has begun does next.
Continue(r) ==
  \/ \E ip \in IPs : CheckIp(r, ip) \/ Push(r, ip)
  \/ InsertEntry(r) \/ UniqueViolation(r) \/ DeadlockVictim(r)
  \/ RecordUnknownEvents(r) \/ Commit(r) \/ Ack(r)
  \/ AddEntry(r) \/ AddViolation(r) \/ AddAnswer(r) \/ AddVanished(r)
  \/ RemoveEntry(r)

Fail(r) == CommitInDoubt(r) \/ DbError(r) \/ Die(r)

Next ==
  \/ \E r \in Requests : Begin(r) \/ Continue(r) \/ Fail(r)
  \/ \E u \in Users, t \in Thresholds : SetThresholds(u, t)

Spec == Init /\ [][Next]_vars

\* A handler that can take its next step takes it, and the deadlock detector
\* runs; nobody has to send a request, and nothing has to fail.
FairSpec == Spec /\ \A r \in Requests : WF_vars(Continue(r))
-----------------------------------------------------------------------------
(* Properties. *)

\* Every variable holds a value of its type.
TypeOK ==
  /\ pc \in [Requests -> PCs]
  /\ logs \in [Requests -> Seq(RawLogs)]
  /\ key \in [Requests -> IPs \cup {NoIP}]
  /\ target \in [Requests -> SUBSET Rows]
  /\ todo \in [Requests -> SUBSET IPs]
  /\ ins \in [Requests -> SUBSET IPs]
  /\ queued \in [Requests -> SUBSET Nat]
  /\ unsent \in [Requests -> SUBSET IPs]
  /\ answer \in [Requests -> Answers]
  /\ firewall_logs \subseteq Requests \X Nat
  /\ blacklist_entries \subseteq Rows
  /\ unknown_events \subseteq Requests \X Nat
  /\ user_settings \in [Users -> Thresholds \cup {NoSettings}]
  /\ pushed \subseteq Rows
  /\ gone \in [Requests -> SUBSET IPs]

\* A user lists an IP at most once, whatever batches and POST /blacklist calls
\* look it up at the same time and then insert it (models.py: "Prevent
\* duplicates").
UniqueEntries ==
  \A row, other \in blacklist_entries :
    row.user = other.user /\ row.ip = other.ip => row = other

Stored(r) == \E log \in firewall_logs : log[1] = r

\* _persist_batch is one transaction: of a batch all logs are stored or none,
\* and no entry and no unknown_events row is there without the logs that caused
\* it, wherever the handler fails or is killed.
AllOrNothing ==
  \A r \in Requests : logs[r] # << >> =>
    /\ \A i \in DOMAIN logs[r] : Stored(r) => <<r, i>> \in firewall_logs
    /\ (\E row \in blacklist_entries : row.by = r) => Stored(r)
    /\ (\E i \in DOMAIN logs[r] : <<r, i>> \in unknown_events) => Stored(r)

\* What the client is told is what happened: an acknowledged batch is stored
\* (so a client that drops acknowledged logs loses none), a refused one left
\* nothing, and a created entry is listed unless it was removed meanwhile.
AnswerIsTrue ==
  \A r \in Requests :
    /\ answer[r] = "ack" => Stored(r)
    /\ answer[r] = "invalid" => ~Stored(r)
    /\ answer[r] = "created" => Listed(UserOf[r], key[r]) \/ key[r] \in gone[r]

\* Every source IP that a stored batch reports as blocked is on its user's
\* blacklist, unless the user removed that IP since the batch came in: whether
\* the batch added the entry or found it, and whoever raced with it.
BlockedAreListed ==
  \A r \in Requests : Stored(r) =>
    \A ip \in BlockedIPs(logs[r]) : Listed(UserOf[r], ip) \/ ip \in gone[r]

\* Clients hear of an entry only after it is committed, and a client whose
\* batch is acknowledged has been told of every entry the batch created.
FramesMatchEntries ==
  /\ \A row \in pushed : Stored(row.by)
  /\ \A r \in Requests : answer[r] = "ack" =>
       \A row \in blacklist_entries : row.by = r => row \in pushed

\* A row inserted and not committed is held by a request that is still in its
\* transaction: nothing that has ended keeps others waiting.
NoStrayLock == \A r \in Requests : ins[r] # {} => pc[r] \in {"scan", "flush", "commit"}

\* The keys of rows that are inserted and not committed are exclusive: no two open
\* transactions of a user hold the same key, and none holds one that the user's
\* committed entries have.  This is what makes UniqueEntries inductive.
KeysAreExclusive ==
  /\ \A r, s \in Requests :
       r # s /\ UserOf[r] = UserOf[s] => ins[r] \cap ins[s] = {}
  /\ \A r \in Requests : \A ip \in ins[r] : ~Listed(UserOf[r], ip)

\* An entry leaves the blacklist only by a request of its own user that clears
\* the list, or deletes by id the very row it had loaded: never a row that was
\* listed again under the same IP after the lookup.
RemovedByOwner ==
  [][\A row \in blacklist_entries : row \notin blacklist_entries' =>
       \E r \in Requests :
         /\ pc[r] # pc'[r]
         /\ pc[r] \in {"new", "remove"}
         /\ UserOf[r] = row.user
         /\ pc[r] = "remove" => row \in target[r]]_vars

\* Every request that has begun is finished: no handler waits forever for
\* another's uncommitted row, whatever order their batches name the IPs in.
Answered == \A r \in Requests : Active(r) ~> ~Active(r)

\* MANUAL.md says that adding an IP that is already blacklisted is a 409: a call that comes
\* to its INSERT when its IP is listed (by a batch, or by another call, since its lookup)
\* is not answered with an error (500).
DuplicateIs409 ==
  [][\A r \in Requests : pc[r] = "addflush" /\ KeyTaken(r) => answer'[r] # "error"]_vars

-----------------------------------------------------------------------------
(* The contract: which steps of a request take effect. *)

Phase(l) ==
  CASE l = "new" -> "new"
    [] l \in {"scan", "flush", "commit", "addflush", "remove"} -> "open"
    [] OTHER -> "closed"

State == [r \in Requests |-> Phase(pc[r])]

Contract == INSTANCE IngestContract WITH state <- State

\* Every batch, and every call of the blacklist API, takes effect in one step or
\* not at all: with all its logs, the events of one pair of thresholds, and the
\* entries that were missing, and with no key twice.
ImplementsContract == Contract!Spec
=============================================================================

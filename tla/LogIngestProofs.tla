--------------------------- MODULE LogIngestProofs ---------------------------
(* Theorems about LogIngest, for any requests, users, batches and settings. *)
EXTENDS LogIngest, TLAPS

\* A handler that is about to insert a row, or to read it again, knows its IP.
KeyIsSet == \A r \in Requests : pc[r] \in {"flush", "addflush", "reload"} => key[r] \in IPs

TypeInv == TypeOK /\ KeyIsSet

LEMMA BlockedIPsType == \A b : BlockedIPs(b) \in SUBSET IPs
BY DEF BlockedIPs

LEMMA AmbiguousType ==
  ASSUME NEW b \in Seq(RawLogs), NEW t PROVE AmbiguousIn(b, t) \in SUBSET Nat
BY DEF AmbiguousIn

LEMMA RowType ==
  ASSUME NEW r \in Requests, NEW ip \in IPs PROVE Row(r, ip) \in Rows
BY UserOfAssumption DEF Row, Rows

LEMMA TypeInit == Init => TypeInv
BY SettingsAssumption DEF Init, TypeInv, TypeOK, KeyIsSet, PCs, Answers

LEMMA AbortType ==
  ASSUME TypeInv, NEW r \in Requests, Abort(r) PROVE TypeInv'
BY DEF Abort, Finish, AfterRollback, TypeInv, TypeOK, KeyIsSet, PCs, Answers, tables

LEMMA VisibleType ==
  ASSUME TypeInv, NEW r \in Requests, MakeVisible(r)
  PROVE  /\ firewall_logs' \subseteq Requests \X Nat
         /\ blacklist_entries' \subseteq Rows
         /\ unknown_events' \subseteq Requests \X Nat
         /\ ins' \in [Requests -> SUBSET IPs]
         /\ queued' \in [Requests -> SUBSET Nat]
BY RowType DEF MakeVisible, TypeInv, TypeOK

LEMMA DropType ==
  ASSUME TypeInv, NEW rows, Drop(rows)
  PROVE  blacklist_entries' \subseteq Rows /\ gone' \in [Requests -> SUBSET IPs]
BY DEF Drop, TypeInv, TypeOK, Rows

LEMMA TypeStep == TypeInv /\ [Next]_vars => TypeInv'
<1> SUFFICES ASSUME TypeInv, [Next]_vars PROVE TypeInv'
  OBVIOUS
<1> USE DEF TypeInv, TypeOK, KeyIsSet, PCs, Answers, local, tables
<1>1. ASSUME NEW r \in Requests, NEW b \in Batches, RejectBatch(r, b) PROVE TypeInv'
  BY <1>1, BatchesAssumption DEF RejectBatch, Finish
<1>2. ASSUME NEW r \in Requests, NEW b \in Batches, InsertLogs(r, b) PROVE TypeInv'
  BY <1>2, BatchesAssumption, BlockedIPsType DEF InsertLogs
<1>3. ASSUME NEW r \in Requests, NEW ip \in IPs, AddConflict(r, ip) PROVE TypeInv'
  BY <1>3 DEF AddConflict, Finish
<1>4. ASSUME NEW r \in Requests, NEW ip \in IPs, AddLookup(r, ip) PROVE TypeInv'
  BY <1>4 DEF AddLookup
<1>5. ASSUME NEW r \in Requests, NEW row \in Rows, FindEntry(r, row) PROVE TypeInv'
  BY <1>5 DEF FindEntry
<1>6. ASSUME NEW r \in Requests, NEW row \in Rows, EntryNotFound(r, row) PROVE TypeInv'
  BY <1>6 DEF EntryNotFound, Finish
<1>7. ASSUME NEW r \in Requests, ClearBlacklist(r) PROVE TypeInv'
  BY <1>7, DropType DEF ClearBlacklist, Finish
<1>8. ASSUME NEW r \in Requests, NEW ip \in IPs, CheckIp(r, ip) PROVE TypeInv'
  <2>1. CASE Listed(UserOf[r], ip)
    BY <1>8, <2>1 DEF CheckIp
  <2>2. CASE ~Listed(UserOf[r], ip)
    <3>1. /\ pc' = [pc EXCEPT ![r] = "flush"]
          /\ key' = [key EXCEPT ![r] = ip]
      BY <1>8, <2>2 DEF CheckIp
    <3>2. todo' \in [Requests -> SUBSET IPs]
      BY <1>8 DEF CheckIp
    <3> QED
      BY <1>8, <3>1, <3>2 DEF CheckIp
  <2> QED
    BY <2>1, <2>2
<1>9. ASSUME NEW r \in Requests, NEW ip \in IPs, Push(r, ip) PROVE TypeInv'
  BY <1>9, RowType DEF Push
<1>10. ASSUME NEW r \in Requests, InsertEntry(r) PROVE TypeInv'
  BY <1>10 DEF InsertEntry
<1>11. ASSUME NEW r \in Requests, UniqueViolation(r) \/ DeadlockVictim(r) PROVE TypeInv'
  BY <1>11, AbortType DEF UniqueViolation, DeadlockVictim
<1>12. ASSUME NEW r \in Requests, RecordUnknownEvents(r) PROVE TypeInv'
  BY <1>12, AmbiguousType DEF RecordUnknownEvents
<1>13. ASSUME NEW r \in Requests, Commit(r) PROVE TypeInv'
  BY <1>13, VisibleType DEF Commit
<1>14. ASSUME NEW r \in Requests, Ack(r) PROVE TypeInv'
  BY <1>14 DEF Ack, Finish
<1>15. ASSUME NEW r \in Requests, AddEntry(r) PROVE TypeInv'
  BY <1>15, RowType DEF AddEntry
<1>16. ASSUME NEW r \in Requests, AddViolation(r) \/ AddVanished(r) PROVE TypeInv'
  BY <1>16, AbortType DEF AddViolation, AddVanished
<1>17. ASSUME NEW r \in Requests, AddAnswer(r) PROVE TypeInv'
  BY <1>17 DEF AddAnswer, Finish
<1>18. ASSUME NEW r \in Requests, RemoveEntry(r) PROVE TypeInv'
  BY <1>18, DropType DEF RemoveEntry, Finish
<1>19. ASSUME NEW r \in Requests, CommitInDoubt(r) PROVE TypeInv'
  BY <1>19, VisibleType DEF CommitInDoubt, Finish
<1>20. ASSUME NEW r \in Requests, DbError(r) PROVE TypeInv'
  BY <1>20, AbortType DEF DbError
<1>21. ASSUME NEW r \in Requests, Die(r) PROVE TypeInv'
  BY <1>21 DEF Die
<1>22. ASSUME NEW u \in Users, NEW t \in Thresholds, SetThresholds(u, t) PROVE TypeInv'
  BY <1>22 DEF SetThresholds
<1>23. CASE UNCHANGED vars
  BY <1>23 DEF vars
<1> QED
  BY <1>1, <1>2, <1>3, <1>4, <1>5, <1>6, <1>7, <1>8, <1>9, <1>10, <1>11, <1>12, <1>13,
     <1>14, <1>15, <1>16, <1>17, <1>18, <1>19, <1>20, <1>21, <1>22, <1>23
  DEF Next, Begin, Continue, Fail

\* Every variable of the write path keeps its type, whatever the clients send and
\* whichever statements fail.
THEOREM TypeCorrect == Spec => []TypeOK
<1>1. Spec => []TypeInv
  BY TypeInit, TypeStep, PTL DEF Spec
<1> QED
  BY <1>1, PTL DEF TypeInv

-----------------------------------------------------------------------------
(* Unique entries.  UniqueEntries alone is not inductive: a COMMIT adds the *)
(* rows that the transaction holds, so their keys have to be exclusive.     *)

IndexInv == NoStrayLock /\ KeysAreExclusive /\ UniqueEntries

LEMMA IndexInit == Init => IndexInv
BY DEF Init, IndexInv, NoStrayLock, KeysAreExclusive, UniqueEntries, Listed

\* Giving up keys and removing entries is harmless.
LEMMA Shrinking ==
  ASSUME IndexInv, blacklist_entries' \subseteq blacklist_entries,
         \A s \in Requests : ins'[s] \subseteq ins[s]
  PROVE  KeysAreExclusive' /\ UniqueEntries'
BY DEF IndexInv, KeysAreExclusive, UniqueEntries, Listed

LEMMA AbortIndex ==
  ASSUME TypeInv, IndexInv, NEW r \in Requests, Abort(r) PROVE IndexInv'
<1>1. ins' = [ins EXCEPT ![r] = {}] /\ pc' = [pc EXCEPT ![r] = "done"]
  BY DEF Abort, Finish, AfterRollback
<1>2. NoStrayLock'
  BY <1>1 DEF TypeInv, TypeOK, IndexInv, NoStrayLock
<1>3. KeysAreExclusive' /\ UniqueEntries'
  BY <1>1, Shrinking DEF Abort, tables, TypeInv, TypeOK
<1> QED
  BY <1>2, <1>3 DEF IndexInv

LEMMA VisibleIndex ==
  ASSUME TypeInv, IndexInv, NEW r \in Requests, pc[r] = "commit", MakeVisible(r)
  PROVE  KeysAreExclusive' /\ UniqueEntries'
<1>1. ins' = [ins EXCEPT ![r] = {}]
  BY DEF MakeVisible
<1>2. blacklist_entries' = blacklist_entries \cup {Row(r, ip) : ip \in ins[r]}
  BY DEF MakeVisible
<1>3. UniqueEntries'
  BY <1>2 DEF IndexInv, UniqueEntries, KeysAreExclusive, Listed, Row
<1>4. ASSUME NEW s \in Requests, NEW ip \in ins'[s] PROVE ~Listed(UserOf[s], ip)'
  <2>1. s # r /\ ip \in ins[s]
    BY <1>1, <1>4 DEF TypeInv, TypeOK
  <2>2. \A other \in ins[r] : UserOf[s] = UserOf[r] => other # ip
    BY <2>1 DEF IndexInv, KeysAreExclusive
  <2> QED
    BY <1>2, <2>1, <2>2 DEF IndexInv, KeysAreExclusive, Listed, Row
<1>5. \A s, t \in Requests : s # t /\ UserOf[s] = UserOf[t] => ins'[s] \cap ins'[t] = {}
  BY <1>1 DEF IndexInv, KeysAreExclusive, TypeInv, TypeOK
<1> QED
  BY <1>3, <1>4, <1>5 DEF KeysAreExclusive

\* An INSERT that neither waits nor fails takes a key that nobody has.
LEMMA InsertIndex ==
  ASSUME TypeInv, IndexInv, NEW r \in Requests, InsertEntry(r) PROVE IndexInv'
<1>1. ins' = [ins EXCEPT ![r] = @ \cup {key[r]}] /\ pc' = [pc EXCEPT ![r] = "scan"]
  BY DEF InsertEntry
<1>2. UNCHANGED blacklist_entries
  BY DEF InsertEntry, tables
<1>3. ~Listed(UserOf[r], key[r])
  BY DEF InsertEntry, KeyTaken
<1>4. \A s \in Requests : s # r /\ UserOf[s] = UserOf[r] => key[r] \notin ins[s]
  BY DEF InsertEntry, Waiting, WaitsFor
<1>5. NoStrayLock'
  BY <1>1 DEF TypeInv, TypeOK, IndexInv, NoStrayLock
<1>6. KeysAreExclusive'
  <2>1. \A s, t \in Requests : s # t /\ UserOf[s] = UserOf[t] => ins'[s] \cap ins'[t] = {}
    BY <1>1, <1>4 DEF IndexInv, KeysAreExclusive, TypeInv, TypeOK
  <2>2. \A s \in Requests : \A ip \in ins'[s] : ~Listed(UserOf[s], ip)
    BY <1>1, <1>3 DEF IndexInv, KeysAreExclusive, TypeInv, TypeOK
  <2> QED
    BY <1>2, <2>1, <2>2 DEF KeysAreExclusive, Listed
<1>7. UniqueEntries'
  BY <1>2 DEF IndexInv, UniqueEntries
<1> QED
  BY <1>5, <1>6, <1>7 DEF IndexInv

LEMMA AddIndex ==
  ASSUME TypeInv, IndexInv, NEW r \in Requests, AddEntry(r) PROVE IndexInv'
<1>1. blacklist_entries' = blacklist_entries \cup {Row(r, key[r])}
  BY DEF AddEntry
<1>2. UNCHANGED ins /\ pc' = [pc EXCEPT ![r] = "reload"] /\ pc[r] = "addflush"
  BY DEF AddEntry, local
<1>3. ~Listed(UserOf[r], key[r])
  BY DEF AddEntry, KeyTaken
<1>4. \A s \in Requests : UserOf[s] = UserOf[r] => key[r] \notin ins[s]
  <2>1. ins[r] = {}
    BY <1>2 DEF IndexInv, NoStrayLock
  <2> QED
    BY <2>1 DEF AddEntry, Waiting, WaitsFor
<1>5. NoStrayLock'
  BY <1>2 DEF TypeInv, TypeOK, IndexInv, NoStrayLock
<1>6. KeysAreExclusive'
  BY <1>1, <1>2, <1>4 DEF IndexInv, KeysAreExclusive, Listed, Row
<1>7. UniqueEntries'
  BY <1>1, <1>3 DEF IndexInv, UniqueEntries, Listed, Row
<1> QED
  BY <1>5, <1>6, <1>7 DEF IndexInv

\* A step that neither inserts nor removes, by a handler that holds no key or
\* stays in its transaction.
LEMMA QuietIndex ==
  ASSUME TypeInv, IndexInv, UNCHANGED <<ins, blacklist_entries>>, NEW r \in Requests,
         \A s \in Requests : s # r => pc'[s] = pc[s],
         \/ pc[r] \in {"new", "notify", "addflush", "reload", "remove"}
         \/ pc'[r] \in {"scan", "flush", "commit"}
  PROVE  IndexInv'
<1>1. KeysAreExclusive' /\ UniqueEntries'
  BY Shrinking
<1>2. NoStrayLock'
  BY DEF IndexInv, NoStrayLock
<1> QED
  BY <1>1, <1>2 DEF IndexInv

LEMMA IndexStep == TypeInv /\ IndexInv /\ [Next]_vars => IndexInv'
<1> SUFFICES ASSUME TypeInv, IndexInv, [Next]_vars PROVE IndexInv'
  OBVIOUS
<1> USE DEF local, tables
<1>1. ASSUME NEW r \in Requests, NEW b \in Batches, RejectBatch(r, b) \/ InsertLogs(r, b)
      PROVE  IndexInv'
  BY <1>1, QuietIndex DEF RejectBatch, InsertLogs, Finish, TypeInv, TypeOK
<1>2. ASSUME NEW r \in Requests, NEW ip \in IPs, AddConflict(r, ip) \/ AddLookup(r, ip)
      PROVE  IndexInv'
  BY <1>2, QuietIndex DEF AddConflict, AddLookup, Finish, TypeInv, TypeOK
<1>3. ASSUME NEW r \in Requests, NEW row \in Rows,
             FindEntry(r, row) \/ EntryNotFound(r, row)
      PROVE  IndexInv'
  BY <1>3, QuietIndex DEF FindEntry, EntryNotFound, Finish, TypeInv, TypeOK
<1>4. ASSUME NEW r \in Requests, ClearBlacklist(r) \/ RemoveEntry(r) PROVE IndexInv'
  <2>1. /\ pc[r] \in {"new", "remove"}
        /\ pc' = [pc EXCEPT ![r] = "done"]
        /\ blacklist_entries' \subseteq blacklist_entries
        /\ ins' = ins
    BY <1>4 DEF ClearBlacklist, RemoveEntry, Drop, Finish
  <2>2. KeysAreExclusive' /\ UniqueEntries'
    BY <2>1, Shrinking
  <2>3. NoStrayLock'
    BY <2>1 DEF IndexInv, NoStrayLock, TypeInv, TypeOK
  <2> QED
    BY <2>2, <2>3 DEF IndexInv
<1>5. ASSUME NEW r \in Requests, NEW ip \in IPs, CheckIp(r, ip) PROVE IndexInv'
  <2>1. pc' = pc \/ pc' = [pc EXCEPT ![r] = "flush"]
    BY <1>5 DEF CheckIp
  <2>2. pc[r] = "scan" /\ UNCHANGED <<ins, blacklist_entries>>
    BY <1>5 DEF CheckIp
  <2> QED
    BY <2>1, <2>2, QuietIndex DEF TypeInv, TypeOK
<1>6. ASSUME NEW r \in Requests, NEW ip \in IPs, Push(r, ip) PROVE IndexInv'
  BY <1>6, QuietIndex DEF Push
<1>7. ASSUME NEW r \in Requests, InsertEntry(r) PROVE IndexInv'
  BY <1>7, InsertIndex
<1>8. ASSUME NEW r \in Requests,
             \/ UniqueViolation(r) \/ DeadlockVictim(r) \/ AddViolation(r)
             \/ AddVanished(r) \/ DbError(r)
      PROVE  IndexInv'
  BY <1>8, AbortIndex DEF UniqueViolation, DeadlockVictim, AddViolation, AddVanished, DbError
<1>9. ASSUME NEW r \in Requests, RecordUnknownEvents(r) PROVE IndexInv'
  BY <1>9, QuietIndex DEF RecordUnknownEvents, TypeInv, TypeOK
<1>10. ASSUME NEW r \in Requests, Commit(r) \/ CommitInDoubt(r) PROVE IndexInv'
  <2>1. KeysAreExclusive' /\ UniqueEntries'
    BY <1>10, VisibleIndex DEF Commit, CommitInDoubt
  <2>2. NoStrayLock'
    BY <1>10 DEF Commit, CommitInDoubt, MakeVisible, Finish, IndexInv, NoStrayLock,
                 TypeInv, TypeOK
  <2> QED
    BY <2>1, <2>2 DEF IndexInv
<1>11. ASSUME NEW r \in Requests, Ack(r) \/ AddAnswer(r) PROVE IndexInv'
  BY <1>11, QuietIndex DEF Ack, AddAnswer, Finish, TypeInv, TypeOK
<1>12. ASSUME NEW r \in Requests, AddEntry(r) PROVE IndexInv'
  BY <1>12, AddIndex
<1>13. ASSUME NEW r \in Requests, Die(r) PROVE IndexInv'
  <2>1. KeysAreExclusive' /\ UniqueEntries'
    BY <1>13, Shrinking DEF Die, TypeInv, TypeOK
  <2>2. NoStrayLock'
    BY <1>13 DEF Die, IndexInv, NoStrayLock, TypeInv, TypeOK
  <2> QED
    BY <2>1, <2>2 DEF IndexInv
<1>14. ASSUME NEW u \in Users, NEW t \in Thresholds, SetThresholds(u, t) PROVE IndexInv'
  BY <1>14, Shrinking DEF SetThresholds, IndexInv, NoStrayLock
<1>15. CASE UNCHANGED vars
  BY <1>15, Shrinking DEF vars, IndexInv, NoStrayLock
<1> QED
  BY <1>1, <1>2, <1>3, <1>4, <1>5, <1>6, <1>7, <1>8, <1>9, <1>10, <1>11, <1>12, <1>13,
     <1>14, <1>15
  DEF Next, Begin, Continue, Fail

LEMMA IndexAlways == Spec => [](TypeInv /\ IndexInv)
<1>1. Init => TypeInv /\ IndexInv
  BY TypeInit, IndexInit
<1>2. TypeInv /\ IndexInv /\ [Next]_vars => (TypeInv /\ IndexInv)'
  BY TypeStep, IndexStep
<1> QED
  BY <1>1, <1>2, PTL DEF Spec

\* However many batches and POST /blacklist calls look up an IP and then insert it
\* in any interleaving, a user's list holds an IP at most once.
THEOREM EntriesAreUnique == Spec => []UniqueEntries
<1>1. IndexInv => UniqueEntries
  BY DEF IndexInv
<1> QED
  BY IndexAlways, <1>1, PTL

\* Open transactions hold keys that nobody else has, and what has ended holds none.
THEOREM KeysStayExclusive == Spec => [](KeysAreExclusive /\ NoStrayLock)
<1>1. IndexInv => KeysAreExclusive /\ NoStrayLock
  BY DEF IndexInv
<1> QED
  BY IndexAlways, <1>1, PTL
-----------------------------------------------------------------------------
(* Removals. *)

\* What a DELETE by id has loaded is the caller's.
OwnTargets == \A r \in Requests : \A row \in target[r] : row.user = UserOf[r]

LEMMA TargetInit == Init => OwnTargets
BY DEF Init, OwnTargets

LEMMA TargetStep == TypeInv /\ OwnTargets /\ [Next]_vars => OwnTargets'
<1> SUFFICES ASSUME TypeInv, OwnTargets, [Next]_vars PROVE OwnTargets'
  OBVIOUS
<1>1. ASSUME NEW r \in Requests, NEW row \in Rows, FindEntry(r, row) PROVE OwnTargets'
  BY <1>1 DEF FindEntry, OwnTargets, TypeInv, TypeOK
<1>2. ASSUME UNCHANGED target PROVE OwnTargets'
  BY <1>2 DEF OwnTargets
<1>3. ASSUME NEW r \in Requests, Abort(r) PROVE UNCHANGED target
  BY <1>3 DEF Abort
<1>4. ASSUME NEW r \in Requests, Begin(r), \A row \in Rows : ~FindEntry(r, row)
      PROVE  UNCHANGED target
  BY <1>4 DEF Begin, RejectBatch, InsertLogs, AddConflict, AddLookup, EntryNotFound,
              ClearBlacklist, local
<1>5. ASSUME NEW r \in Requests, Continue(r) PROVE UNCHANGED target
  <2>1. ASSUME NEW ip \in IPs, CheckIp(r, ip) \/ Push(r, ip) PROVE UNCHANGED target
    BY <2>1 DEF CheckIp, Push
  <2>2. ASSUME UniqueViolation(r) \/ DeadlockVictim(r) \/ AddViolation(r) \/ AddVanished(r)
        PROVE  UNCHANGED target
    BY <1>3, <2>2 DEF UniqueViolation, DeadlockVictim, AddViolation, AddVanished
  <2>3. ASSUME \/ InsertEntry(r) \/ RecordUnknownEvents(r) \/ Commit(r) \/ Ack(r)
               \/ AddEntry(r) \/ AddAnswer(r) \/ RemoveEntry(r)
        PROVE  UNCHANGED target
    BY <2>3 DEF InsertEntry, RecordUnknownEvents, Commit, Ack, AddEntry, AddAnswer,
                RemoveEntry, local
  <2> QED BY <1>5, <2>1, <2>2, <2>3 DEF Continue
<1>6. ASSUME NEW r \in Requests, Fail(r) PROVE UNCHANGED target
  BY <1>3, <1>6 DEF Fail, CommitInDoubt, DbError, Die
<1>7. ASSUME NEW u \in Users, NEW t \in Thresholds, SetThresholds(u, t)
      PROVE  UNCHANGED target
  BY <1>7 DEF SetThresholds, local
<1>8. CASE UNCHANGED vars
  BY <1>2, <1>8 DEF vars
<1> QED
  <2>1. ASSUME NEW r \in Requests, Begin(r) PROVE OwnTargets'
    BY <1>1, <1>2, <1>4, <2>1
  <2> QED BY <1>2, <1>5, <1>6, <1>7, <1>8, <2>1 DEF Next

\* All other steps keep every entry that is listed.
LEMMA EntriesStay ==
  ASSUME [Next]_vars, \A r \in Requests : ~RemoveEntry(r) /\ ~ClearBlacklist(r)
  PROVE  blacklist_entries \subseteq blacklist_entries'
<1>1. ASSUME NEW r \in Requests, Abort(r) PROVE UNCHANGED blacklist_entries
  BY <1>1 DEF Abort, tables
<1>2. ASSUME NEW r \in Requests, Begin(r) PROVE UNCHANGED blacklist_entries
  BY <1>2 DEF Begin, RejectBatch, InsertLogs, AddConflict, AddLookup, FindEntry,
              EntryNotFound, tables
<1>3. ASSUME NEW r \in Requests, Continue(r)
      PROVE  blacklist_entries \subseteq blacklist_entries'
  <2>1. ASSUME NEW ip \in IPs, CheckIp(r, ip) \/ Push(r, ip)
        PROVE  UNCHANGED blacklist_entries
    BY <2>1 DEF CheckIp, Push, tables
  <2>2. ASSUME UniqueViolation(r) \/ DeadlockVictim(r) \/ AddViolation(r) \/ AddVanished(r)
        PROVE  UNCHANGED blacklist_entries
    BY <1>1, <2>2 DEF UniqueViolation, DeadlockVictim, AddViolation, AddVanished
  <2>3. ASSUME \/ InsertEntry(r) \/ RecordUnknownEvents(r) \/ Commit(r) \/ Ack(r)
               \/ AddEntry(r) \/ AddAnswer(r)
        PROVE  blacklist_entries \subseteq blacklist_entries'
    BY <2>3 DEF InsertEntry, RecordUnknownEvents, Commit, MakeVisible, Ack, AddEntry,
                AddAnswer, tables
  <2> QED BY <1>3, <2>1, <2>2, <2>3 DEF Continue
<1>4. ASSUME NEW r \in Requests, Fail(r)
      PROVE  blacklist_entries \subseteq blacklist_entries'
  BY <1>1, <1>4 DEF Fail, CommitInDoubt, MakeVisible, DbError, Die, tables
<1>5. ASSUME NEW u \in Users, NEW t \in Thresholds, SetThresholds(u, t)
      PROVE  UNCHANGED blacklist_entries
  BY <1>5 DEF SetThresholds, tables
<1>6. CASE UNCHANGED vars
  BY <1>6 DEF vars
<1> QED BY <1>2, <1>3, <1>4, <1>5, <1>6 DEF Next

LEMMA RemovalStep ==
  ASSUME TypeInv, OwnTargets, [Next]_vars,
         NEW row \in blacklist_entries, row \notin blacklist_entries'
  PROVE  \E r \in Requests :
           /\ pc[r] # pc'[r]
           /\ pc[r] \in {"new", "remove"}
           /\ UserOf[r] = row.user
           /\ pc[r] = "remove" => row \in target[r]
<1>1. PICK r \in Requests : RemoveEntry(r) \/ ClearBlacklist(r)
  BY EntriesStay
<1>2. /\ pc[r] \in {"new", "remove"} /\ pc' = [pc EXCEPT ![r] = "done"]
  BY <1>1 DEF RemoveEntry, ClearBlacklist, Finish
<1>3. pc[r] # pc'[r]
  BY <1>2 DEF TypeInv, TypeOK
<1>4. CASE RemoveEntry(r)
  <2>1. row \in target[r]
    BY <1>4 DEF RemoveEntry, Drop, Doomed
  <2> QED BY <1>2, <1>3, <2>1 DEF OwnTargets
<1>5. CASE ClearBlacklist(r)
  <2>1. row.user = UserOf[r] /\ pc[r] = "new"
    BY <1>5 DEF ClearBlacklist, Drop, OwnEntries
  <2> QED BY <1>2, <1>3, <2>1
<1> QED BY <1>1, <1>4, <1>5

\* However the calls overlap, an entry leaves the list only by a call of its own user, and a
\* DELETE by id takes only the row that it looked up.
THEOREM EntriesLeaveByTheirOwner == Spec => RemovedByOwner
<1>1. Init => TypeInv /\ OwnTargets
  BY TypeInit, TargetInit
<1>2. TypeInv /\ OwnTargets /\ [Next]_vars => (TypeInv /\ OwnTargets)'
  BY TypeStep, TargetStep
<1>3. TypeInv /\ OwnTargets /\ [Next]_vars =>
        [\A row \in blacklist_entries : row \notin blacklist_entries' =>
           \E r \in Requests :
             /\ pc[r] # pc'[r]
             /\ pc[r] \in {"new", "remove"}
             /\ UserOf[r] = row.user
             /\ pc[r] = "remove" => row \in target[r]]_vars
  BY RemovalStep
<1> QED
  BY <1>1, <1>2, <1>3, PTL DEF Spec, RemovedByOwner

-----------------------------------------------------------------------------
(* What becomes of a batch. *)

\* Which requests have a batch.
HasBatch ==
  \A r \in Requests :
    /\ pc[r] \in {"scan", "flush", "commit", "notify"} => logs[r] # << >>
    /\ pc[r] \in {"new", "addflush", "reload", "remove"} => logs[r] = << >>

\* What r has committed.
NoTrace(r) ==
  /\ ~Stored(r)
  /\ \A row \in blacklist_entries : row.by # r
  /\ \A event \in unknown_events : event[1] # r

\* Nothing is committed before the COMMIT, and then everything.
Traces ==
  \A r \in Requests :
    /\ pc[r] \in {"new", "scan", "flush", "commit", "addflush"} => NoTrace(r)
    /\ pc[r] = "notify" => Stored(r)
    /\ logs[r] = << >> => ~Stored(r)
    /\ logs[r] # << >> => \/ NoTrace(r)
                          \/ \A i \in DOMAIN logs[r] : <<r, i>> \in firewall_logs

\* What the client is told, and when.
Told ==
  \A r \in Requests :
    /\ pc[r] # "done" => answer[r] = "none"
    /\ answer[r] = "ack" => Stored(r)
    /\ answer[r] = "invalid" => ~Stored(r)

TraceInv == HasBatch /\ Traces /\ Told

LEMMA TraceInit == Init => TraceInv
BY DEF Init, TraceInv, HasBatch, Traces, Told, NoTrace, Stored

\* A step of r that commits nothing.
LEMMA QuietTrace ==
  ASSUME TypeInv, TraceInv, NEW r \in Requests, UNCHANGED <<firewall_logs, unknown_events>>,
         blacklist_entries' \subseteq blacklist_entries
  PROVE  /\ \A s \in Requests : Stored(s)' <=> Stored(s)
         /\ \A s \in Requests : NoTrace(s) => NoTrace(s)'
BY DEF Stored, NoTrace

LEMMA AbortTrace ==
  ASSUME TypeInv, TraceInv, NEW r \in Requests, Abort(r), pc[r] # "notify"
  PROVE  TraceInv'
<1>1. /\ pc' = [pc EXCEPT ![r] = "done"]
      /\ answer' = [answer EXCEPT ![r] = "error"]
      /\ UNCHANGED <<logs, firewall_logs, unknown_events, blacklist_entries>>
  BY DEF Abort, Finish, tables
<1>2. /\ \A s \in Requests : Stored(s)' <=> Stored(s)
      /\ \A s \in Requests : NoTrace(s) => NoTrace(s)'
  BY <1>1, QuietTrace
<1> QED
  BY <1>1, <1>2 DEF TypeInv, TypeOK, TraceInv, HasBatch, Traces, Told

LEMMA VisibleTrace ==
  ASSUME TypeInv, TraceInv, NEW r \in Requests, pc[r] = "commit", MakeVisible(r),
         UNCHANGED logs
  PROVE  /\ Stored(r)'
         /\ \A i \in DOMAIN logs[r] : <<r, i>> \in firewall_logs'
         /\ \A s \in Requests \ {r} : Stored(s)' <=> Stored(s)
         /\ \A s \in Requests \ {r} : NoTrace(s) => NoTrace(s)'
<1>1. firewall_logs' = firewall_logs \cup {<<r, i>> : i \in DOMAIN logs[r]}
  BY DEF MakeVisible
<1>2. 1 \in DOMAIN logs[r]
  BY DEF TypeInv, TypeOK, TraceInv, HasBatch
<1>3. Stored(r)'
  <2>1. <<r, 1>> \in firewall_logs'
    BY <1>1, <1>2
  <2> QED
    BY <2>1 DEF Stored
<1>4. \A s \in Requests \ {r} : Stored(s)' <=> Stored(s)
  BY <1>1 DEF Stored
<1>5. \A s \in Requests \ {r} : NoTrace(s) => NoTrace(s)'
  BY <1>4 DEF NoTrace, MakeVisible, Row
<1> QED
  BY <1>1, <1>3, <1>4, <1>5

\* A step of r that changes neither its batch nor what is committed.
LEMMA MoveTrace ==
  ASSUME TypeInv, TraceInv, NEW r \in Requests,
         UNCHANGED <<logs, answer, firewall_logs, unknown_events, blacklist_entries>>,
         NEW l \in {"scan", "flush", "commit"},
         pc[r] \in {"scan", "flush"}, pc' = [pc EXCEPT ![r] = l]
  PROVE  TraceInv'
BY DEF TypeInv, TypeOK, TraceInv, HasBatch, Traces, Told, Stored, NoTrace

LEMMA TraceStep == TypeInv /\ TraceInv /\ [Next]_vars => TraceInv'
<1> SUFFICES ASSUME TypeInv, TraceInv, [Next]_vars PROVE TraceInv'
  OBVIOUS
<1> USE DEF local, tables
<1>1. ASSUME NEW r \in Requests, NEW b \in Batches, RejectBatch(r, b) PROVE TraceInv'
  <2>1. /\ \A s \in Requests : Stored(s)' <=> Stored(s)
        /\ \A s \in Requests : NoTrace(s) => NoTrace(s)'
    BY <1>1, QuietTrace DEF RejectBatch
  <2> QED
    BY <1>1, <2>1, BatchesAssumption
    DEF RejectBatch, Finish, TypeInv, TypeOK, TraceInv, HasBatch, Traces, Told, NoTrace
<1>2. ASSUME NEW r \in Requests, NEW b \in Batches, InsertLogs(r, b) PROVE TraceInv'
  <2>1. /\ \A s \in Requests : Stored(s)' <=> Stored(s)
        /\ \A s \in Requests : NoTrace(s) => NoTrace(s)'
    BY <1>2, QuietTrace DEF InsertLogs
  <2> QED
    BY <1>2, <2>1, BatchesAssumption
    DEF InsertLogs, TypeInv, TypeOK, TraceInv, HasBatch, Traces, Told
<1>3. ASSUME NEW r \in Requests, NEW ip \in IPs, AddConflict(r, ip) \/ AddLookup(r, ip)
      PROVE  TraceInv'
  <2>1. /\ \A s \in Requests : Stored(s)' <=> Stored(s)
        /\ \A s \in Requests : NoTrace(s) => NoTrace(s)'
    BY <1>3, QuietTrace DEF AddConflict, AddLookup
  <2> QED
    BY <1>3, <2>1
    DEF AddConflict, AddLookup, Finish, TypeInv, TypeOK, TraceInv, HasBatch, Traces, Told
<1>4. ASSUME NEW r \in Requests, NEW row \in Rows,
             FindEntry(r, row) \/ EntryNotFound(r, row)
      PROVE  TraceInv'
  <2>1. /\ \A s \in Requests : Stored(s)' <=> Stored(s)
        /\ \A s \in Requests : NoTrace(s) => NoTrace(s)'
    BY <1>4, QuietTrace DEF FindEntry, EntryNotFound
  <2> QED
    BY <1>4, <2>1
    DEF FindEntry, EntryNotFound, Finish, TypeInv, TypeOK, TraceInv, HasBatch, Traces, Told
<1>5. ASSUME NEW r \in Requests, ClearBlacklist(r) \/ RemoveEntry(r) PROVE TraceInv'
  <2>1. /\ \A s \in Requests : Stored(s)' <=> Stored(s)
        /\ \A s \in Requests : NoTrace(s) => NoTrace(s)'
    BY <1>5, QuietTrace DEF ClearBlacklist, RemoveEntry, Drop
  <2> QED
    BY <1>5, <2>1
    DEF ClearBlacklist, RemoveEntry, Finish, TypeInv, TypeOK, TraceInv, HasBatch, Traces, Told
<1>6. ASSUME NEW r \in Requests, NEW ip \in IPs, CheckIp(r, ip) PROVE TraceInv'
  <2>1. pc' = [pc EXCEPT ![r] = "scan"] \/ pc' = [pc EXCEPT ![r] = "flush"]
    BY <1>6 DEF CheckIp, TypeInv, TypeOK
  <2> QED
    BY <1>6, <2>1, MoveTrace DEF CheckIp
<1>7. ASSUME NEW r \in Requests, InsertEntry(r) \/ RecordUnknownEvents(r) PROVE TraceInv'
  BY <1>7, MoveTrace DEF InsertEntry, RecordUnknownEvents
<1>8. ASSUME NEW r \in Requests,
             \/ UniqueViolation(r) \/ DeadlockVictim(r) \/ AddViolation(r)
             \/ AddVanished(r) \/ DbError(r)
      PROVE  TraceInv'
  BY <1>8, AbortTrace DEF UniqueViolation, DeadlockVictim, AddViolation, AddVanished, DbError
<1>9. ASSUME NEW r \in Requests, Commit(r) \/ CommitInDoubt(r) PROVE TraceInv'
  <2>1. /\ Stored(r)'
        /\ \A i \in DOMAIN logs[r] : <<r, i>> \in firewall_logs'
        /\ \A s \in Requests \ {r} : Stored(s)' <=> Stored(s)
        /\ \A s \in Requests \ {r} : NoTrace(s) => NoTrace(s)'
    BY <1>9, VisibleTrace DEF Commit, CommitInDoubt
  <2>2. firewall_logs \subseteq firewall_logs'
    BY <1>9 DEF Commit, CommitInDoubt, MakeVisible
  <2> QED
    BY <1>9, <2>1, <2>2
    DEF Commit, CommitInDoubt, Finish, TypeInv, TypeOK, TraceInv, HasBatch, Traces, Told
<1>10. ASSUME NEW r \in Requests, NEW ip \in IPs, Push(r, ip) PROVE TraceInv'
  BY <1>10 DEF Push, TraceInv, HasBatch, Traces, Told, Stored, NoTrace
<1>11. ASSUME NEW r \in Requests, Ack(r) \/ AddAnswer(r) PROVE TraceInv'
  <2>1. /\ \A s \in Requests : Stored(s)' <=> Stored(s)
        /\ \A s \in Requests : NoTrace(s) => NoTrace(s)'
    BY <1>11, QuietTrace DEF Ack, AddAnswer
  <2> QED
    BY <1>11, <2>1
    DEF Ack, AddAnswer, Finish, TypeInv, TypeOK, TraceInv, HasBatch, Traces, Told
<1>12. ASSUME NEW r \in Requests, AddEntry(r) PROVE TraceInv'
  <2>1. \A s \in Requests : Stored(s)' <=> Stored(s)
    BY <1>12 DEF AddEntry, Stored
  <2>2. \A s \in Requests \ {r} : NoTrace(s) => NoTrace(s)'
    BY <1>12, <2>1 DEF AddEntry, NoTrace, Row
  <2> QED
    BY <1>12, <2>1, <2>2 DEF AddEntry, TypeInv, TypeOK, TraceInv, HasBatch, Traces, Told
<1>13. ASSUME NEW r \in Requests, Die(r) PROVE TraceInv'
  BY <1>13 DEF Die, Active, TypeInv, TypeOK, TraceInv, HasBatch, Traces, Told, Stored,
               NoTrace
<1>14. ASSUME NEW u \in Users, NEW t \in Thresholds, SetThresholds(u, t) PROVE TraceInv'
  BY <1>14 DEF SetThresholds, TraceInv, HasBatch, Traces, Told, Stored, NoTrace
<1>15. CASE UNCHANGED vars
  BY <1>15 DEF vars, TraceInv, HasBatch, Traces, Told, Stored, NoTrace
<1> QED
  BY <1>1, <1>2, <1>3, <1>4, <1>5, <1>6, <1>7, <1>8, <1>9, <1>10, <1>11, <1>12, <1>13,
     <1>14, <1>15
  DEF Next, Begin, Continue, Fail

LEMMA TraceAlways == Spec => [](TypeInv /\ IndexInv /\ TraceInv)
<1>1. Init => TraceInv
  BY TraceInit
<1>2. TypeInv /\ TraceInv /\ [Next]_vars => TraceInv'
  BY TraceStep
<1> QED
  BY IndexAlways, <1>1, <1>2, PTL DEF Spec

\* Of a batch everything is committed or nothing, wherever its handler stops.
THEOREM BatchesAreAtomic == Spec => []AllOrNothing
<1>1. TypeInv /\ TraceInv => AllOrNothing
  <2> SUFFICES ASSUME TypeInv, TraceInv, NEW r \in Requests, logs[r] # << >>
               PROVE  /\ \A i \in DOMAIN logs[r] : Stored(r) => <<r, i>> \in firewall_logs
                      /\ (\E row \in blacklist_entries : row.by = r) => Stored(r)
                      /\ (\E i \in DOMAIN logs[r] : <<r, i>> \in unknown_events) => Stored(r)
    BY DEF AllOrNothing
  <2>1. CASE NoTrace(r)
    BY <2>1 DEF NoTrace
  <2>2. CASE \A i \in DOMAIN logs[r] : <<r, i>> \in firewall_logs
    <3>1. 1 \in DOMAIN logs[r]
      BY DEF TypeInv, TypeOK
    <3>2. <<r, 1>> \in firewall_logs
      BY <2>2, <3>1
    <3>3. Stored(r)
      BY <3>2 DEF Stored
    <3> QED
      BY <2>2, <3>3
  <2> QED
    BY <2>1, <2>2 DEF TraceInv, Traces
<1> QED
  BY TraceAlways, <1>1, PTL

-----------------------------------------------------------------------------
(* Blocked IPs.  An IP that the batch blocks is still to be looked at, or   *)
(* about to be inserted, or inserted, or listed, or was removed meanwhile.  *)

\* r has nothing more to do about ip.
Settled(r, ip) == Listed(UserOf[r], ip) \/ ip \in gone[r]

\* What r does is about the blocked IPs of its batch, and forgets none.
CoverOf(r) ==
  /\ todo[r] # {} => pc[r] \in {"scan", "flush"}
  /\ todo[r] \subseteq BlockedIPs(logs[r])
  /\ ins[r] \subseteq BlockedIPs(logs[r])
  /\ pc[r] = "flush" => key[r] \in BlockedIPs(logs[r])
  /\ pc[r] \in {"scan", "flush", "commit"} \/ Stored(r) =>
       \A ip \in BlockedIPs(logs[r]) :
         \/ ip \in todo[r] \cup ins[r]
         \/ pc[r] = "flush" /\ ip = key[r]
         \/ Settled(r, ip)

CoverInv == \A r \in Requests : CoverOf(r)

BaseInv == TypeInv /\ IndexInv /\ TraceInv

LEMMA CoverInit == Init => CoverInv
BY DEF Init, CoverInv, CoverOf, Stored

\* Where r is settled it stays settled: an entry that leaves the list is recorded.
LEMMA DropSettled ==
  ASSUME BaseInv, NEW rows, Drop(rows), NEW s \in Requests, pc[s] # "new", NEW ip,
         Settled(s, ip)
  PROVE  Settled(s, ip)'
<1>1. blacklist_entries' = blacklist_entries \ rows
  BY DEF Drop
<1>2. gone'[s] = gone[s] \cup {row.ip : row \in {x \in rows \cap blacklist_entries :
                                                  x.user = UserOf[s]}}
  BY DEF Drop
<1>3. CASE ip \in gone[s]
  BY <1>2, <1>3 DEF Settled
<1>4. CASE Listed(UserOf[s], ip)
  <2>1. PICK row \in blacklist_entries : row.user = UserOf[s] /\ row.ip = ip
    BY <1>4 DEF Listed
  <2>2. CASE row \in rows
    BY <1>2, <2>1, <2>2 DEF Settled
  <2>3. CASE row \notin rows
    BY <1>1, <2>1, <2>3 DEF Settled, Listed
  <2> QED
    BY <2>2, <2>3
<1> QED
  BY <1>3, <1>4 DEF Settled

LEMMA GrowSettled ==
  ASSUME blacklist_entries \subseteq blacklist_entries', UNCHANGED gone,
         NEW s, NEW ip, Settled(s, ip)
  PROVE  Settled(s, ip)'
BY DEF Settled, Listed

\* Stored requests are past their transaction.
LEMMA StoredIsPast ==
  ASSUME BaseInv, NEW r \in Requests, Stored(r)
  PROVE  pc[r] \in {"notify", "done", "dead"}
BY DEF BaseInv, TypeInv, TypeOK, PCs, TraceInv, HasBatch, Traces, NoTrace

\* The steps of r do not disturb another request, as long as what that request
\* has settled stays settled.
LEMMA CoverOthers ==
  ASSUME BaseInv, CoverInv, NEW s \in Requests,
         UNCHANGED <<pc[s], logs[s], todo[s], ins[s], key[s]>>,
         Stored(s)' <=> Stored(s),
         \A ip : pc[s] # "new" /\ Settled(s, ip) => Settled(s, ip)'
  PROVE  CoverOf(s)'
<1>1. Stored(s) => pc[s] # "new"
  BY StoredIsPast
<1> QED
  BY <1>1 DEF CoverInv, CoverOf

\* A request that is not in its transaction and has no batch stored.
LEMMA CoverIdle ==
  ASSUME NEW r \in Requests, todo'[r] = {}, ins'[r] = {}, ~Stored(r)',
         pc'[r] \notin {"scan", "flush", "commit"}
  PROVE  CoverOf(r)'
BY DEF CoverOf

\* A step of r that commits and removes nothing, and is a good one for r.
LEMMA CoverQuiet ==
  ASSUME BaseInv, CoverInv, NEW r \in Requests,
         UNCHANGED <<firewall_logs, blacklist_entries, gone>>,
         \A s \in Requests \ {r} : UNCHANGED <<pc[s], logs[s], todo[s], ins[s], key[s]>>,
         CoverOf(r)'
  PROVE  CoverInv'
<1>1. ASSUME NEW s \in Requests, s # r PROVE CoverOf(s)'
  BY <1>1, CoverOthers DEF Stored, Settled, Listed
<1> QED
  BY <1>1 DEF CoverInv

LEMMA CoverAbort ==
  ASSUME BaseInv, CoverInv, NEW r \in Requests, pc[r] # "notify", Active(r), Abort(r)
  PROVE  CoverInv'
<1>1. /\ pc' = [pc EXCEPT ![r] = "done"]
      /\ todo' = [todo EXCEPT ![r] = {}]
      /\ ins' = [ins EXCEPT ![r] = {}]
      /\ UNCHANGED <<logs, key, firewall_logs, blacklist_entries, gone>>
  BY DEF Abort, Finish, AfterRollback, tables
<1>2. ~Stored(r)'
  BY <1>1, StoredIsPast DEF Active, Stored
<1>3. CoverOf(r)'
  BY <1>1, <1>2, CoverIdle DEF BaseInv, TypeInv, TypeOK
<1> QED
  BY <1>1, <1>3, CoverQuiet DEF BaseInv, TypeInv, TypeOK

\* The COMMIT turns what r has inserted into entries.
LEMMA CoverVisible ==
  ASSUME BaseInv, CoverInv, NEW r \in Requests, pc[r] = "commit", MakeVisible(r),
         NEW l, pc' = [pc EXCEPT ![r] = l], l \in {"notify", "done"},
         UNCHANGED <<logs, key, todo, gone>>
  PROVE  CoverInv'
<1>1. /\ blacklist_entries' = blacklist_entries \cup {Row(r, ip) : ip \in ins[r]}
      /\ ins' = [ins EXCEPT ![r] = {}]
  BY DEF MakeVisible
<1>2. ASSUME NEW s \in Requests, s # r PROVE CoverOf(s)'
  <2>1. Stored(s)' <=> Stored(s)
    BY <1>2 DEF MakeVisible, Stored
  <2>2. \A ip : Settled(s, ip) => Settled(s, ip)'
    BY <1>1, GrowSettled
  <2> QED
    BY <1>1, <1>2, <2>1, <2>2, CoverOthers DEF BaseInv, TypeInv, TypeOK
<1>3. CoverOf(r)'
  <2>1. todo[r] = {}
    BY DEF CoverInv, CoverOf
  <2>2. ASSUME NEW ip \in BlockedIPs(logs[r]) PROVE Settled(r, ip)'
    <3>1. ip \in ins[r] \/ Settled(r, ip)
      BY <2>1, <2>2 DEF CoverInv, CoverOf
    <3>2. CASE ip \in ins[r]
      <4>1. Row(r, ip) \in blacklist_entries'
        BY <1>1, <3>2
      <4> QED
        BY <4>1 DEF Row, Settled, Listed
    <3>3. CASE Settled(r, ip)
      BY <1>1, <3>3, GrowSettled
    <3> QED
      BY <3>1, <3>2, <3>3
  <2> QED
    BY <1>1, <2>1, <2>2 DEF CoverOf, BaseInv, TypeInv, TypeOK
<1> QED
  BY <1>2, <1>3 DEF CoverInv

\* A removal, by r.
LEMMA CoverDrop ==
  ASSUME BaseInv, CoverInv, NEW r \in Requests, pc[r] \in {"new", "remove"},
         NEW rows, Drop(rows), pc' = [pc EXCEPT ![r] = "done"],
         UNCHANGED <<logs, key, todo, ins, firewall_logs>>
  PROVE  CoverInv'
<1>1. ASSUME NEW s \in Requests, s # r PROVE CoverOf(s)'
  <2>1. \A ip : pc[s] # "new" /\ Settled(s, ip) => Settled(s, ip)'
    BY DropSettled
  <2> QED
    BY <1>1, <2>1, CoverOthers DEF Stored, BaseInv, TypeInv, TypeOK
<1>2. CoverOf(r)'
  <2>1. ~Stored(r)'
    BY StoredIsPast DEF Stored
  <2>2. todo[r] = {} /\ ins[r] = {}
    BY DEF CoverInv, CoverOf, BaseInv, IndexInv, NoStrayLock
  <2> QED
    BY <2>1, <2>2, CoverIdle DEF BaseInv, TypeInv, TypeOK
<1> QED
  BY <1>1, <1>2 DEF CoverInv

LEMMA CoverStep == BaseInv /\ CoverInv /\ [Next]_vars => CoverInv'
<1> SUFFICES ASSUME BaseInv, CoverInv, [Next]_vars PROVE CoverInv'
  OBVIOUS
<1> USE DEF local, tables
<1>1. ASSUME NEW r \in Requests, NEW b \in Batches, RejectBatch(r, b) PROVE CoverInv'
  <2>1. ~Stored(r)' /\ todo[r] = {} /\ ins[r] = {}
    BY <1>1, StoredIsPast
    DEF RejectBatch, Stored, CoverInv, CoverOf, BaseInv, IndexInv, NoStrayLock
  <2>2. CoverOf(r)'
    BY <1>1, <2>1, CoverIdle DEF RejectBatch, Finish, BaseInv, TypeInv, TypeOK
  <2> QED
    BY <1>1, <2>2, CoverQuiet DEF RejectBatch, Finish, BaseInv, TypeInv, TypeOK
<1>2. ASSUME NEW r \in Requests, NEW b \in Batches, InsertLogs(r, b) PROVE CoverInv'
  <2>1. CoverOf(r)'
    BY <1>2 DEF InsertLogs, CoverOf, BaseInv, TypeInv, TypeOK, IndexInv, NoStrayLock
  <2> QED
    BY <1>2, <2>1, CoverQuiet DEF InsertLogs, BaseInv, TypeInv, TypeOK
<1>3. ASSUME NEW r \in Requests, NEW ip \in IPs, AddConflict(r, ip) \/ AddLookup(r, ip)
      PROVE  CoverInv'
  <2>1. ~Stored(r)' /\ todo[r] = {} /\ ins[r] = {}
    BY <1>3, StoredIsPast
    DEF AddConflict, AddLookup, Stored, CoverInv, CoverOf, BaseInv, IndexInv, NoStrayLock
  <2>2. CoverOf(r)'
    BY <1>3, <2>1, CoverIdle DEF AddConflict, AddLookup, Finish, BaseInv, TypeInv, TypeOK
  <2> QED
    BY <1>3, <2>2, CoverQuiet DEF AddConflict, AddLookup, Finish, BaseInv, TypeInv, TypeOK
<1>4. ASSUME NEW r \in Requests, NEW row \in Rows,
             FindEntry(r, row) \/ EntryNotFound(r, row)
      PROVE  CoverInv'
  <2>1. ~Stored(r)' /\ todo[r] = {} /\ ins[r] = {}
    BY <1>4, StoredIsPast
    DEF FindEntry, EntryNotFound, Stored, CoverInv, CoverOf, BaseInv, IndexInv, NoStrayLock
  <2>2. CoverOf(r)'
    BY <1>4, <2>1, CoverIdle DEF FindEntry, EntryNotFound, Finish, BaseInv, TypeInv, TypeOK
  <2> QED
    BY <1>4, <2>2, CoverQuiet
    DEF FindEntry, EntryNotFound, Finish, BaseInv, TypeInv, TypeOK
<1>5. ASSUME NEW r \in Requests, ClearBlacklist(r) \/ RemoveEntry(r) PROVE CoverInv'
  BY <1>5, CoverDrop DEF ClearBlacklist, RemoveEntry, Finish
<1>6. ASSUME NEW r \in Requests, NEW ip \in IPs, CheckIp(r, ip) PROVE CoverInv'
  <2>1. todo' = [todo EXCEPT ![r] = @ \ {ip}] /\ ip \in todo[r]
    BY <1>6 DEF CheckIp, FirstBlocked
  <2>2. CASE Listed(UserOf[r], ip)
    <3>1. UNCHANGED <<pc, key>>
      BY <1>6, <2>2 DEF CheckIp
    <3>2. /\ UNCHANGED <<logs, ins>>
          /\ \A x : Settled(r, x)' <=> Settled(r, x)
          /\ Stored(r)' <=> Stored(r)
          /\ todo'[r] = todo[r] \ {ip}
      BY <1>6, <2>1 DEF CheckIp, Settled, Listed, Stored, BaseInv, TypeInv, TypeOK
    <3>3. CoverOf(r) /\ Settled(r, ip)
      BY <2>2 DEF CoverInv, Settled
    <3>4. CoverOf(r)'
      BY <3>1, <3>2, <3>3, <2>1 DEF CoverOf
    <3> QED
      BY <1>6, <3>1, <3>4, CoverQuiet DEF CheckIp, BaseInv, TypeInv, TypeOK
  <2>3. CASE ~Listed(UserOf[r], ip)
    <3>1. pc' = [pc EXCEPT ![r] = "flush"] /\ key' = [key EXCEPT ![r] = ip]
      BY <1>6, <2>3 DEF CheckIp
    <3>2. CoverOf(r)'
      BY <1>6, <2>1, <3>1
      DEF CheckIp, CoverInv, CoverOf, Settled, Listed, Stored, BaseInv, TypeInv, TypeOK
    <3> QED
      BY <1>6, <3>1, <3>2, CoverQuiet DEF CheckIp, BaseInv, TypeInv, TypeOK
  <2> QED
    BY <2>2, <2>3
<1>7. ASSUME NEW r \in Requests, InsertEntry(r) PROVE CoverInv'
  <2>1. CoverOf(r)'
    BY <1>7
    DEF InsertEntry, CoverInv, CoverOf, Settled, Listed, Stored, BaseInv, TypeInv, TypeOK
  <2> QED
    BY <1>7, <2>1, CoverQuiet DEF InsertEntry, BaseInv, TypeInv, TypeOK
<1>8. ASSUME NEW r \in Requests,
             \/ UniqueViolation(r) \/ DeadlockVictim(r) \/ AddViolation(r)
             \/ AddVanished(r) \/ DbError(r)
      PROVE  CoverInv'
  BY <1>8, CoverAbort
  DEF UniqueViolation, DeadlockVictim, AddViolation, AddVanished, DbError, Active
<1>9. ASSUME NEW r \in Requests, RecordUnknownEvents(r) PROVE CoverInv'
  <2>1. CoverOf(r)'
    BY <1>9
    DEF RecordUnknownEvents, CoverInv, CoverOf, Settled, Listed, Stored, BaseInv, TypeInv,
        TypeOK
  <2> QED
    BY <1>9, <2>1, CoverQuiet DEF RecordUnknownEvents, BaseInv, TypeInv, TypeOK
<1>10. ASSUME NEW r \in Requests, Commit(r) \/ CommitInDoubt(r) PROVE CoverInv'
  BY <1>10, CoverVisible DEF Commit, CommitInDoubt, Finish
<1>11. ASSUME NEW r \in Requests, NEW ip \in IPs, Push(r, ip) PROVE CoverInv'
  BY <1>11 DEF Push, CoverInv, CoverOf, Settled, Listed, Stored
<1>12. ASSUME NEW r \in Requests, Ack(r) \/ AddAnswer(r) PROVE CoverInv'
  <2>1. CoverOf(r)'
    BY <1>12 DEF Ack, AddAnswer, Finish, CoverInv, CoverOf, Settled, Listed, Stored, BaseInv,
                 TypeInv, TypeOK
  <2> QED
    BY <1>12, <2>1, CoverQuiet DEF Ack, AddAnswer, Finish, BaseInv, TypeInv, TypeOK
<1>13. ASSUME NEW r \in Requests, AddEntry(r) PROVE CoverInv'
  <2>1. ASSUME NEW s \in Requests, s # r PROVE CoverOf(s)'
    <3>1. \A ip : Settled(s, ip) => Settled(s, ip)'
      BY <1>13, GrowSettled DEF AddEntry
    <3> QED
      BY <1>13, <2>1, <3>1, CoverOthers DEF AddEntry, Stored, BaseInv, TypeInv, TypeOK
  <2>2. CoverOf(r)'
    <3>1. ~Stored(r)' /\ todo[r] = {} /\ ins[r] = {}
      BY <1>13, StoredIsPast
      DEF AddEntry, Stored, CoverInv, CoverOf, BaseInv, IndexInv, NoStrayLock
    <3> QED
      BY <1>13, <3>1, CoverIdle DEF AddEntry, BaseInv, TypeInv, TypeOK
  <2> QED
    BY <2>1, <2>2 DEF CoverInv
<1>14. ASSUME NEW r \in Requests, Die(r) PROVE CoverInv'
  <2>1. /\ pc'[r] = "dead" /\ todo'[r] = {} /\ ins'[r] = {}
        /\ UNCHANGED <<logs, firewall_logs, blacklist_entries, gone>>
    BY <1>14 DEF Die, BaseInv, TypeInv, TypeOK
  <2>2. CoverOf(r)'
    <3>1. CASE Stored(r)
      <4>1. todo[r] = {} /\ ins[r] = {} /\ pc[r] # "flush"
        BY <3>1, StoredIsPast DEF CoverInv, CoverOf, BaseInv, IndexInv, NoStrayLock
      <4>2. \A ip \in BlockedIPs(logs[r]) : Settled(r, ip)'
        BY <2>1, <3>1, <4>1 DEF CoverInv, CoverOf, Settled, Listed
      <4> QED
        BY <2>1, <4>2 DEF CoverOf
    <3>2. CASE ~Stored(r)
      BY <2>1, <3>2, CoverIdle DEF Stored
    <3> QED
      BY <3>1, <3>2
  <2> QED
    BY <1>14, <2>2, CoverQuiet DEF Die, BaseInv, TypeInv, TypeOK
<1>15. ASSUME NEW u \in Users, NEW t \in Thresholds, SetThresholds(u, t) PROVE CoverInv'
  BY <1>15 DEF SetThresholds, CoverInv, CoverOf, Settled, Listed, Stored
<1>16. CASE UNCHANGED vars
  BY <1>16 DEF vars, CoverInv, CoverOf, Settled, Listed, Stored
<1> QED
  BY <1>1, <1>2, <1>3, <1>4, <1>5, <1>6, <1>7, <1>8, <1>9, <1>10, <1>11, <1>12, <1>13,
     <1>14, <1>15, <1>16
  DEF Next, Begin, Continue, Fail

LEMMA CoverAlways == Spec => [](BaseInv /\ CoverInv)
<1>1. Init => CoverInv
  BY CoverInit
<1>2. BaseInv /\ CoverInv /\ [Next]_vars => CoverInv'
  BY CoverStep
<1>3. TypeInv /\ IndexInv /\ TraceInv <=> BaseInv
  BY DEF BaseInv
<1> QED
  BY TraceAlways, <1>1, <1>2, <1>3, PTL DEF Spec

\* Every IP that a stored batch blocks is listed, or its user removed it meanwhile.
THEOREM BlockedGetListed == Spec => []BlockedAreListed
<1>1. BaseInv /\ CoverInv => BlockedAreListed
  <2> SUFFICES ASSUME BaseInv, CoverInv, NEW r \in Requests, Stored(r),
                      NEW ip \in BlockedIPs(logs[r])
               PROVE  Listed(UserOf[r], ip) \/ ip \in gone[r]
    BY DEF BlockedAreListed
  <2>1. pc[r] \in {"notify", "done", "dead"}
    BY StoredIsPast
  <2>2. todo[r] = {} /\ ins[r] = {}
    BY <2>1 DEF CoverInv, CoverOf, BaseInv, IndexInv, NoStrayLock
  <2> QED
    BY <2>1, <2>2 DEF CoverInv, CoverOf, Settled
<1> QED
  BY CoverAlways, <1>1, PTL

-----------------------------------------------------------------------------
(* Answers and frames.  Between its commit and its answer a request owes a  *)
(* frame for each of its entries that is still there.                       *)

\* The entries of r are announced, or will be before the answer.
FramesOf(r) ==
  pc[r] = "notify" \/ answer[r] = "ack" =>
    \A row \in blacklist_entries : row.by = r =>
      row \in pushed \/ (pc[r] = "notify" /\ row.ip \in unsent[r])

CreatedOf(r) == answer[r] = "created" => Settled(r, key[r])

AnswerInv ==
  /\ \A row \in blacklist_entries : row = Row(row.by, row.ip)
  /\ \A row \in pushed : Stored(row.by)
  /\ \A r \in Requests : FramesOf(r) /\ CreatedOf(r)

LEMMA AnswerInit == Init => AnswerInv
BY DEF Init, AnswerInv, FramesOf, CreatedOf

\* A step of r that announces and commits nothing, after which r has a good answer.
LEMMA AnswerQuiet ==
  ASSUME BaseInv, AnswerInv, NEW r \in Requests, UNCHANGED <<pushed, firewall_logs>>,
         \/ UNCHANGED <<blacklist_entries, gone>>
         \/ \E rows : Drop(rows),
         \A s \in Requests \ {r} : UNCHANGED <<pc[s], answer[s], unsent[s], key[s]>>,
         FramesOf(r)', CreatedOf(r)'
  PROVE  AnswerInv'
<1>1. blacklist_entries' \subseteq blacklist_entries
  BY DEF Drop
<1>2. ASSUME NEW s \in Requests, s # r PROVE FramesOf(s)'
  BY <1>1, <1>2 DEF AnswerInv, FramesOf
<1>3. ASSUME NEW s \in Requests, s # r PROVE CreatedOf(s)'
  <2>1. answer[s] = "created" => pc[s] # "new"
    BY DEF BaseInv, TraceInv, Told
  <2>2. answer[s] = "created" => Settled(s, key[s])'
    <3>1. CASE UNCHANGED <<blacklist_entries, gone>>
      BY <1>3, <3>1 DEF AnswerInv, CreatedOf, Settled, Listed
    <3>2. CASE \E rows : Drop(rows)
      BY <1>3, <2>1, <3>2, DropSettled DEF AnswerInv, CreatedOf
    <3> QED
      BY <3>1, <3>2
  <2> QED
    BY <1>3, <2>2 DEF CreatedOf
<1> QED
  BY <1>1, <1>2, <1>3 DEF AnswerInv, Stored, Row

\* What r has to say is nothing yet, or neither of the two.
LEMMA AnswerIdle ==
  ASSUME NEW r \in Requests, pc'[r] # "notify", answer'[r] \notin {"ack", "created"}
  PROVE  FramesOf(r)' /\ CreatedOf(r)'
BY DEF FramesOf, CreatedOf

LEMMA AnswerAbort ==
  ASSUME BaseInv, AnswerInv, NEW r \in Requests, Abort(r)
  PROVE  AnswerInv'
<1>1. pc'[r] = "done" /\ answer'[r] = "error"
  BY DEF Abort, Finish, BaseInv, TypeInv, TypeOK
<1>2. FramesOf(r)' /\ CreatedOf(r)'
  BY <1>1, AnswerIdle
<1> QED
  BY <1>2, AnswerQuiet DEF Abort, Finish, tables, BaseInv, TypeInv, TypeOK

\* The COMMIT of r adds its own entries alone, to those of others.
LEMMA AnswerVisible ==
  ASSUME BaseInv, AnswerInv, NEW r \in Requests, pc[r] = "commit", MakeVisible(r),
         UNCHANGED <<pushed, gone, key>>,
         \A s \in Requests \ {r} : UNCHANGED <<pc[s], answer[s], unsent[s]>>,
         \/ pc'[r] = "notify" /\ unsent'[r] = ins[r] /\ answer'[r] = "none"
         \/ pc'[r] = "done" /\ answer'[r] = "error"
  PROVE  AnswerInv'
<1>1. blacklist_entries' = blacklist_entries \cup {Row(r, ip) : ip \in ins[r]}
  BY DEF MakeVisible
<1>2. \A row \in blacklist_entries' : row = Row(row.by, row.ip)
  BY <1>1 DEF AnswerInv, Row
<1>3. \A row \in pushed' : Stored(row.by)'
  BY DEF MakeVisible, AnswerInv, Stored
<1>4. ASSUME NEW s \in Requests, s # r PROVE FramesOf(s)' /\ CreatedOf(s)'
  <2>1. FramesOf(s)'
    BY <1>1, <1>4 DEF AnswerInv, FramesOf, Row
  <2>2. Settled(s, key[s]) => Settled(s, key[s])'
    BY <1>1, GrowSettled
  <2> QED
    BY <1>4, <2>1, <2>2 DEF AnswerInv, CreatedOf
<1>5. FramesOf(r)'
  <2>1. \A row \in blacklist_entries : row.by # r
    BY DEF BaseInv, TraceInv, Traces, NoTrace
  <2> QED
    BY <1>1, <2>1 DEF FramesOf, Row
<1>6. CreatedOf(r)'
  BY DEF CreatedOf
<1> QED
  BY <1>2, <1>3, <1>4, <1>5, <1>6 DEF AnswerInv

LEMMA AnswerStep == BaseInv /\ AnswerInv /\ [Next]_vars => AnswerInv'
<1> SUFFICES ASSUME BaseInv, AnswerInv, [Next]_vars PROVE AnswerInv'
  OBVIOUS
<1> USE DEF local, tables
<1>1. ASSUME NEW r \in Requests, NEW b \in Batches, RejectBatch(r, b) \/ InsertLogs(r, b)
      PROVE  AnswerInv'
  <2>1. FramesOf(r)' /\ CreatedOf(r)'
    BY <1>1, AnswerIdle
    DEF RejectBatch, InsertLogs, Finish, BaseInv, TypeInv, TypeOK, TraceInv, Told
  <2> QED
    BY <1>1, <2>1, AnswerQuiet DEF RejectBatch, InsertLogs, Finish, BaseInv, TypeInv, TypeOK
<1>2. ASSUME NEW r \in Requests, NEW ip \in IPs, AddConflict(r, ip) \/ AddLookup(r, ip)
      PROVE  AnswerInv'
  <2>1. FramesOf(r)' /\ CreatedOf(r)'
    BY <1>2, AnswerIdle
    DEF AddConflict, AddLookup, Finish, BaseInv, TypeInv, TypeOK, TraceInv, Told
  <2> QED
    BY <1>2, <2>1, AnswerQuiet DEF AddConflict, AddLookup, Finish, BaseInv, TypeInv, TypeOK
<1>3. ASSUME NEW r \in Requests, NEW row \in Rows,
             FindEntry(r, row) \/ EntryNotFound(r, row)
      PROVE  AnswerInv'
  <2>1. FramesOf(r)' /\ CreatedOf(r)'
    BY <1>3, AnswerIdle
    DEF FindEntry, EntryNotFound, Finish, BaseInv, TypeInv, TypeOK, TraceInv, Told
  <2> QED
    BY <1>3, <2>1, AnswerQuiet
    DEF FindEntry, EntryNotFound, Finish, BaseInv, TypeInv, TypeOK
<1>4. ASSUME NEW r \in Requests, ClearBlacklist(r) \/ RemoveEntry(r) PROVE AnswerInv'
  <2>1. FramesOf(r)' /\ CreatedOf(r)'
    BY <1>4, AnswerIdle DEF ClearBlacklist, RemoveEntry, Finish, BaseInv, TypeInv, TypeOK
  <2>2. \E rows : Drop(rows)
    BY <1>4 DEF ClearBlacklist, RemoveEntry
  <2> QED
    BY <1>4, <2>1, <2>2, AnswerQuiet
    DEF ClearBlacklist, RemoveEntry, Finish, BaseInv, TypeInv, TypeOK
<1>5. ASSUME NEW r \in Requests, NEW ip \in IPs, CheckIp(r, ip) PROVE AnswerInv'
  <2>1. /\ pc' = [pc EXCEPT ![r] = "scan"] \/ pc' = [pc EXCEPT ![r] = "flush"]
        /\ answer[r] = "none"
        /\ \A s \in Requests \ {r} : UNCHANGED key[s]
    BY <1>5 DEF CheckIp, BaseInv, TypeInv, TypeOK, TraceInv, Told
  <2>2. FramesOf(r)' /\ CreatedOf(r)'
    BY <1>5, <2>1, AnswerIdle DEF CheckIp, BaseInv, TypeInv, TypeOK
  <2> QED
    BY <1>5, <2>1, <2>2, AnswerQuiet DEF CheckIp, BaseInv, TypeInv, TypeOK
<1>6. ASSUME NEW r \in Requests, InsertEntry(r) \/ RecordUnknownEvents(r) PROVE AnswerInv'
  <2>1. FramesOf(r)' /\ CreatedOf(r)'
    BY <1>6, AnswerIdle
    DEF InsertEntry, RecordUnknownEvents, BaseInv, TypeInv, TypeOK, TraceInv, Told
  <2> QED
    BY <1>6, <2>1, AnswerQuiet DEF InsertEntry, RecordUnknownEvents, BaseInv, TypeInv, TypeOK
<1>7. ASSUME NEW r \in Requests,
             \/ UniqueViolation(r) \/ DeadlockVictim(r) \/ AddViolation(r)
             \/ AddVanished(r) \/ DbError(r)
      PROVE  AnswerInv'
  BY <1>7, AnswerAbort DEF UniqueViolation, DeadlockVictim, AddViolation, AddVanished, DbError
<1>8. ASSUME NEW r \in Requests, Commit(r) \/ CommitInDoubt(r) PROVE AnswerInv'
  <2>1. answer[r] = "none"
    BY <1>8 DEF Commit, CommitInDoubt, BaseInv, TraceInv, Told
  <2> QED
    BY <1>8, <2>1, AnswerVisible
    DEF Commit, CommitInDoubt, Finish, BaseInv, TypeInv, TypeOK
<1>9. ASSUME NEW r \in Requests, NEW ip \in IPs, Push(r, ip) PROVE AnswerInv'
  <2>1. /\ pc[r] = "notify" /\ answer[r] = "none"
        /\ unsent' = [unsent EXCEPT ![r] = @ \ {ip}]
        /\ pushed' = pushed \cup {Row(r, ip)}
        /\ UNCHANGED <<pc, key, answer, tables, gone>>
    BY <1>9 DEF Push, BaseInv, TraceInv, Told
  <2>2. \A row \in pushed' : Stored(row.by)'
    BY <2>1 DEF AnswerInv, Stored, Row, BaseInv, TraceInv, Traces
  <2>3. FramesOf(r)'
    BY <2>1 DEF AnswerInv, FramesOf, BaseInv, TypeInv, TypeOK
  <2>4. ASSUME NEW s \in Requests, s # r PROVE FramesOf(s)'
    BY <2>1, <2>4 DEF AnswerInv, FramesOf, BaseInv, TypeInv, TypeOK
  <2>5. ASSUME NEW s \in Requests PROVE CreatedOf(s)'
    BY <2>1 DEF AnswerInv, CreatedOf, Settled, Listed
  <2> QED
    BY <2>1, <2>2, <2>3, <2>4, <2>5 DEF AnswerInv, Row
<1>10. ASSUME NEW r \in Requests, Ack(r) PROVE AnswerInv'
  <2>1. /\ pc[r] = "notify" /\ unsent[r] = {}
        /\ answer'[r] = "ack" /\ UNCHANGED <<unsent, pushed, key, tables, gone>>
    BY <1>10 DEF Ack, Finish, BaseInv, TypeInv, TypeOK
  <2>2. FramesOf(r)' /\ CreatedOf(r)'
    BY <2>1 DEF AnswerInv, FramesOf, CreatedOf
  <2> QED
    BY <1>10, <2>1, <2>2, AnswerQuiet DEF Ack, Finish, BaseInv, TypeInv, TypeOK
<1>11. ASSUME NEW r \in Requests, AddAnswer(r) PROVE AnswerInv'
  <2>1. /\ Row(r, key[r]) \in blacklist_entries
        /\ pc'[r] = "done" /\ answer'[r] = "created" /\ UNCHANGED <<key, tables, gone>>
    BY <1>11 DEF AddAnswer, Finish, BaseInv, TypeInv, TypeOK
  <2>2. FramesOf(r)' /\ CreatedOf(r)'
    BY <2>1 DEF FramesOf, CreatedOf, Settled, Listed, Row
  <2> QED
    BY <1>11, <2>1, <2>2, AnswerQuiet DEF AddAnswer, Finish, BaseInv, TypeInv, TypeOK
<1>12. ASSUME NEW r \in Requests, AddEntry(r) PROVE AnswerInv'
  <2>1. /\ blacklist_entries' = blacklist_entries \cup {Row(r, key[r])}
        /\ UNCHANGED <<key, unsent, pushed, gone, answer, firewall_logs>>
        /\ pc'[r] = "reload" /\ answer[r] = "none"
        /\ \A s \in Requests \ {r} : pc'[s] = pc[s]
    BY <1>12 DEF AddEntry, BaseInv, TypeInv, TypeOK, TraceInv, Told
  <2>2. FramesOf(r)' /\ CreatedOf(r)'
    BY <2>1, AnswerIdle
  <2>3. ASSUME NEW s \in Requests, s # r PROVE FramesOf(s)'
    BY <2>1, <2>3 DEF AnswerInv, FramesOf, Row
  <2>4. ASSUME NEW s \in Requests, s # r PROVE CreatedOf(s)'
    BY <2>1, <2>4, GrowSettled DEF AnswerInv, CreatedOf
  <2> QED
    BY <2>1, <2>2, <2>3, <2>4 DEF AnswerInv, Row, Stored
<1>13. ASSUME NEW r \in Requests, Die(r) PROVE AnswerInv'
  <2>1. FramesOf(r)' /\ CreatedOf(r)'
    BY <1>13, AnswerIdle DEF Die, Active, BaseInv, TypeInv, TypeOK, TraceInv, Told
  <2> QED
    BY <1>13, <2>1, AnswerQuiet DEF Die, BaseInv, TypeInv, TypeOK
<1>14. ASSUME NEW u \in Users, NEW t \in Thresholds, SetThresholds(u, t) PROVE AnswerInv'
  BY <1>14 DEF SetThresholds, AnswerInv, FramesOf, CreatedOf, Settled, Listed, Stored, Row
<1>15. CASE UNCHANGED vars
  BY <1>15 DEF vars, AnswerInv, FramesOf, CreatedOf, Settled, Listed, Stored, Row
<1> QED
  BY <1>1, <1>2, <1>3, <1>4, <1>5, <1>6, <1>7, <1>8, <1>9, <1>10, <1>11, <1>12, <1>13,
     <1>14, <1>15
  DEF Next, Begin, Continue, Fail

LEMMA AnswerAlways == Spec => [](BaseInv /\ AnswerInv)
<1>1. Init => AnswerInv
  BY AnswerInit
<1>2. BaseInv /\ AnswerInv /\ [Next]_vars => AnswerInv'
  BY AnswerStep
<1>3. TypeInv /\ IndexInv /\ TraceInv <=> BaseInv
  BY DEF BaseInv
<1> QED
  BY TraceAlways, <1>1, <1>2, <1>3, PTL DEF Spec

\* Whatever a client is told, an ack, a refusal or a created entry, has happened.
THEOREM AnswersAreTrue == Spec => []AnswerIsTrue
<1>1. BaseInv /\ AnswerInv => AnswerIsTrue
  BY DEF BaseInv, TraceInv, Told, AnswerInv, CreatedOf, Settled, AnswerIsTrue
<1> QED
  BY AnswerAlways, <1>1, PTL

\* Frames follow the commit, and the ack follows the frames.
THEOREM FramesAreOrdered == Spec => []FramesMatchEntries
<1>1. BaseInv /\ AnswerInv => FramesMatchEntries
  <2> SUFFICES ASSUME BaseInv, AnswerInv PROVE FramesMatchEntries
    OBVIOUS
  <2>1. \A r \in Requests : answer[r] = "ack" => pc[r] # "notify"
    BY DEF BaseInv, TraceInv, Told
  <2> QED
    BY <2>1 DEF AnswerInv, FramesOf, FramesMatchEntries
<1> QED
  BY AnswerAlways, <1>1, PTL

-----------------------------------------------------------------------------
(* LogIngest implements IngestContract: every SQL statement of a request is a step
   of the contract or changes nothing that the contract speaks of. *)

\* A batch that is about to commit has handled every IP, and its events were
\* judged by one pair of thresholds.
Judged ==
  \A r \in Requests : pc[r] = "commit" =>
    \E t \in Thresholds \cup {NoSettings} : queued[r] = AmbiguousIn(logs[r], t)

\* A request that is about to delete by id has loaded one row, of its user.
Targets ==
  \A r \in Requests : pc[r] = "remove" =>
    \E row \in Rows : target[r] = {row} /\ row.user = UserOf[r]

StepInv == Judged /\ Targets

LEMMA StepInit == Init => StepInv
BY DEF Init, StepInv, Judged, Targets

\* A step that moves r elsewhere, or nowhere, and leaves what the others hold.
LEMMA StepQuiet ==
  ASSUME StepInv, NEW r \in Requests,
         \A s \in Requests \ {r} : UNCHANGED <<pc[s], logs[s], queued[s], target[s]>>,
         pc'[r] \notin {"commit", "remove"}
  PROVE  StepInv'
BY DEF StepInv, Judged, Targets

LEMMA AbortStep ==
  ASSUME TypeInv, StepInv, NEW r \in Requests, Abort(r) PROVE StepInv'
BY StepQuiet DEF Abort, Finish, TypeInv, TypeOK

LEMMA StepStep == TypeInv /\ StepInv /\ [Next]_vars => StepInv'
<1> SUFFICES ASSUME TypeInv, StepInv, [Next]_vars PROVE StepInv'
  OBVIOUS
<1> USE DEF local, tables
<1>1. ASSUME NEW r \in Requests, NEW b \in Batches, RejectBatch(r, b) \/ InsertLogs(r, b)
      PROVE  StepInv'
  BY <1>1, StepQuiet DEF RejectBatch, InsertLogs, Finish, TypeInv, TypeOK
<1>2. ASSUME NEW r \in Requests, NEW ip \in IPs, AddConflict(r, ip) \/ AddLookup(r, ip)
      PROVE  StepInv'
  BY <1>2, StepQuiet DEF AddConflict, AddLookup, Finish, TypeInv, TypeOK
<1>3. ASSUME NEW r \in Requests, NEW row \in Rows, FindEntry(r, row) PROVE StepInv'
  <2>1. /\ pc' = [pc EXCEPT ![r] = "remove"]
        /\ target' = [target EXCEPT ![r] = {row}]
        /\ UNCHANGED <<logs, queued>> /\ row.user = UserOf[r]
    BY <1>3 DEF FindEntry
  <2> QED
    BY <2>1 DEF StepInv, Judged, Targets, TypeInv, TypeOK
<1>4. ASSUME NEW r \in Requests, NEW row \in Rows, EntryNotFound(r, row) PROVE StepInv'
  BY <1>4, StepQuiet DEF EntryNotFound, Finish, TypeInv, TypeOK
<1>5. ASSUME NEW r \in Requests, ClearBlacklist(r) \/ RemoveEntry(r) PROVE StepInv'
  BY <1>5, StepQuiet DEF ClearBlacklist, RemoveEntry, Finish, TypeInv, TypeOK
<1>6. ASSUME NEW r \in Requests, NEW ip \in IPs, CheckIp(r, ip) PROVE StepInv'
  <2>1. pc' = [pc EXCEPT ![r] = "scan"] \/ pc' = [pc EXCEPT ![r] = "flush"]
    BY <1>6 DEF CheckIp, TypeInv, TypeOK
  <2> QED
    BY <1>6, <2>1, StepQuiet DEF CheckIp, TypeInv, TypeOK
<1>7. ASSUME NEW r \in Requests, InsertEntry(r) PROVE StepInv'
  BY <1>7, StepQuiet DEF InsertEntry, TypeInv, TypeOK
<1>8. ASSUME NEW r \in Requests,
             \/ UniqueViolation(r) \/ DeadlockVictim(r) \/ AddViolation(r)
             \/ AddVanished(r) \/ DbError(r)
      PROVE  StepInv'
  BY <1>8, AbortStep DEF UniqueViolation, DeadlockVictim, AddViolation, AddVanished, DbError
<1>9. ASSUME NEW r \in Requests, RecordUnknownEvents(r) PROVE StepInv'
  <2>1. user_settings[UserOf[r]] \in Thresholds \cup {NoSettings}
    BY UserOfAssumption DEF TypeInv, TypeOK
  <2>2. /\ pc' = [pc EXCEPT ![r] = "commit"]
        /\ queued' = [queued EXCEPT ![r] = AmbiguousIn(logs[r], user_settings[UserOf[r]])]
        /\ UNCHANGED <<logs, target>>
    BY <1>9 DEF RecordUnknownEvents
  <2> QED
    BY <2>1, <2>2 DEF StepInv, Judged, Targets, TypeInv, TypeOK
<1>10. ASSUME NEW r \in Requests, Commit(r) \/ CommitInDoubt(r) PROVE StepInv'
  BY <1>10, StepQuiet DEF Commit, CommitInDoubt, MakeVisible, Finish, TypeInv, TypeOK
<1>11. ASSUME NEW r \in Requests, NEW ip \in IPs, Push(r, ip) PROVE StepInv'
  BY <1>11, StepQuiet DEF Push
<1>12. ASSUME NEW r \in Requests, Ack(r) \/ AddAnswer(r) PROVE StepInv'
  BY <1>12, StepQuiet DEF Ack, AddAnswer, Finish, TypeInv, TypeOK
<1>13. ASSUME NEW r \in Requests, AddEntry(r) PROVE StepInv'
  BY <1>13, StepQuiet DEF AddEntry, TypeInv, TypeOK
<1>14. ASSUME NEW r \in Requests, Die(r) PROVE StepInv'
  BY <1>14, StepQuiet DEF Die, TypeInv, TypeOK
<1>15. ASSUME NEW u \in Users, NEW t \in Thresholds, SetThresholds(u, t) PROVE StepInv'
  BY <1>15 DEF SetThresholds, StepInv, Judged, Targets
<1>16. CASE UNCHANGED vars
  BY <1>16 DEF vars, StepInv, Judged, Targets
<1> QED
  BY <1>1, <1>2, <1>3, <1>4, <1>5, <1>6, <1>7, <1>8, <1>9, <1>10, <1>11, <1>12, <1>13,
     <1>14, <1>15, <1>16
  DEF Next, Begin, Continue, Fail

-----------------------------------------------------------------------------
(* The mapping.                                                            *)

\* The contract judges batches as the code does.
LEMMA SameBatches ==
  /\ \A b : Contract!ValidBatch(b) <=> ValidBatch(b)
  /\ \A b : Contract!BlockedIPs(b) = BlockedIPs(b)
  /\ \A b, t : Contract!AmbiguousIn(b, t) = AmbiguousIn(b, t)
  /\ \A u, ip : Contract!Listed(u, ip) <=> Listed(u, ip)
BY DEF Contract!ValidBatch, Contract!ValidLog, Contract!ALLOWED_ACTIONS, Contract!Scores,
       ValidBatch, ValidLog, ALLOWED_ACTIONS, Scores, Contract!BlockedIPs, Contract!Blocks,
       BlockedIPs, Blocks, Contract!AmbiguousIn, Contract!Ambiguous, AmbiguousIn, Ambiguous,
       Contract!Listed, Listed

LEMMA Phases ==
  /\ Phase("new") = "new"
  /\ \A l \in {"scan", "flush", "commit", "addflush", "remove"} : Phase(l) = "open"
  /\ \A l \in {"notify", "reload", "done", "dead"} : Phase(l) = "closed"
BY DEF Phase

\* A request that moves to l, as the contract sees it.
LEMMA Moves ==
  ASSUME TypeInv, NEW r \in Requests, NEW l, pc' = [pc EXCEPT ![r] = l]
  PROVE  State' = [State EXCEPT ![r] = Phase(l)]
BY DEF State, TypeInv, TypeOK

LEMMA Stays ==
  ASSUME TypeInv, NEW r \in Requests, NEW l, pc' = [pc EXCEPT ![r] = l],
         Phase(l) = Phase(pc[r])
  PROVE  UNCHANGED State
BY DEF State, TypeInv, TypeOK

LEMMA Closes ==
  ASSUME TypeInv, NEW r \in Requests, NEW l \in {"notify", "reload", "done", "dead"},
         pc' = [pc EXCEPT ![r] = l]
  PROVE  State' = [State EXCEPT ![r] = "closed"]
<1>1. State' = [State EXCEPT ![r] = Phase(l)]
  BY Moves
<1> QED
  BY <1>1, Phases

LEMMA StateIs == \A r \in Requests : State[r] = Phase(pc[r])
BY DEF State

\* What is left of the contract's variables where no row of a table is written.
tablesOf == <<firewall_logs, blacklist_entries, unknown_events, gone>>

\* An error after the first statement: the request gives up, unless it is past its
\* effect already.
LEMMA GivesUp ==
  ASSUME TypeInv, NEW r \in Requests, Active(r), UNCHANGED <<logs, tablesOf>>,
         NEW l \in {"done", "dead"}, pc' = [pc EXCEPT ![r] = l]
  PROVE  Contract!GiveUp(r) \/ UNCHANGED Contract!vars
<1>1. State' = [State EXCEPT ![r] = "closed"]
  BY Moves DEF Phase
<1>2. CASE pc[r] \in {"notify", "reload"}
  <2>1. UNCHANGED State
    BY <1>2, Stays DEF Phase
  <2> QED
    BY <2>1 DEF Contract!vars, tablesOf
<1>3. CASE pc[r] \notin {"notify", "reload"}
  <2>1. State[r] = "open"
    BY <1>3 DEF State, Phase, Active, TypeInv, TypeOK, PCs
  <2> QED
    BY <1>1, <2>1 DEF Contract!GiveUp, Contract!Close, tablesOf
<1> QED
  BY <1>2, <1>3

\* The COMMIT of a batch is the step in which it takes effect.
LEMMA Stores ==
  ASSUME BaseInv, CoverInv, StepInv, NEW r \in Requests, pc[r] = "commit", MakeVisible(r),
         NEW l \in {"notify", "done"}, pc' = [pc EXCEPT ![r] = l], UNCHANGED <<logs, gone>>
  PROVE  Contract!StoreBatch(r)
<1>1. State[r] = "open" /\ State' = [State EXCEPT ![r] = "closed"]
  BY Moves DEF State, Phase, BaseInv
<1>2. logs[r] # << >>
  BY DEF BaseInv, TraceInv, HasBatch
<1>3. \E t \in Thresholds \cup {NoSettings} :
        unknown_events' = unknown_events
          \cup {<<r, i>> : i \in Contract!AmbiguousIn(logs[r], t)}
  BY SameBatches DEF MakeVisible, StepInv, Judged
<1>4. ins[r] \in SUBSET Contract!BlockedIPs(logs[r])
  BY SameBatches DEF CoverInv, CoverOf
<1>5. Contract!Enter(r, ins[r])
  BY SameBatches DEF Contract!Enter, MakeVisible, Row, BaseInv, IndexInv, KeysAreExclusive
<1>6. \A ip \in Contract!BlockedIPs(logs[r]) \ ins[r] :
        Contract!Listed(UserOf[r], ip) \/ ip \in gone[r]
  BY SameBatches DEF CoverInv, CoverOf, Settled
<1> QED
  BY <1>1, <1>2, <1>3, <1>4, <1>5, <1>6 DEF Contract!StoreBatch, Contract!Close, MakeVisible

\* A removal takes rows of the request's user, which are there.
LEMMA Removes ==
  ASSUME BaseInv, NEW r \in Requests, pc[r] \in {"new", "remove"}, logs[r] = << >>,
         NEW rows, Drop(rows), UNCHANGED <<logs, firewall_logs, unknown_events>>,
         pc' = [pc EXCEPT ![r] = "done"],
         \/ rows = OwnEntries(UserOf[r])
         \/ \E row \in OwnEntries(UserOf[r]) : rows = {row}
  PROVE  Contract!Remove(r)
<1> DEFINE own == {row \in blacklist_entries : row.user = UserOf[r]}
<1>1. State[r] # "closed" /\ State' = [State EXCEPT ![r] = "closed"]
  BY Closes, StateIs, Phases DEF BaseInv
<1>2. rows \in {own} \cup {{row} : row \in own}
  BY DEF OwnEntries
<1>3. rows \subseteq own
  BY <1>2
<1>4. blacklist_entries' = blacklist_entries \ rows
  BY DEF Drop
<1>5. gone' = [s \in Requests |->
                 IF State[s] = "new" \/ UserOf[s] # UserOf[r] THEN gone[s]
                 ELSE gone[s] \cup {row.ip : row \in rows}]
  <2>1. ASSUME NEW s \in Requests
        PROVE  (IF pc[s] = "new" THEN gone[s]
                ELSE gone[s] \cup {row.ip : row \in {x \in rows \cap blacklist_entries :
                                                      x.user = UserOf[s]}})
               = (IF State[s] = "new" \/ UserOf[s] # UserOf[r] THEN gone[s]
                  ELSE gone[s] \cup {row.ip : row \in rows})
    <3>1. State[s] = "new" <=> pc[s] = "new"
      BY DEF State, Phase
    <3>2. CASE UserOf[s] = UserOf[r]
      <4>1. {x \in rows \cap blacklist_entries : x.user = UserOf[s]} = rows
        BY <1>3, <3>2
      <4> QED
        BY <3>1, <3>2, <4>1
    <3>3. CASE UserOf[s] # UserOf[r]
      <4>1. {x \in rows \cap blacklist_entries : x.user = UserOf[s]} = {}
        BY <1>3, <3>3
      <4> QED
        BY <3>1, <3>3, <4>1
    <3> QED
      BY <3>2, <3>3
  <2> QED
    BY <2>1 DEF Drop
<1> QED
  BY <1>1, <1>2, <1>4, <1>5 DEF Contract!Remove, Contract!Close

LEMMA ContractStep ==
  BaseInv /\ CoverInv /\ StepInv /\ [Next]_vars => [Contract!Next]_(Contract!vars)
<1> SUFFICES ASSUME BaseInv, CoverInv, StepInv, [Next]_vars
             PROVE  Contract!Next \/ UNCHANGED Contract!vars
  OBVIOUS
<1> USE DEF local, tables
<1>0. TypeInv
  BY DEF BaseInv
<1>1. ASSUME NEW r \in Requests, NEW b \in Batches, RejectBatch(r, b)
      PROVE  Contract!Refuse(r)
  <2>1. State[r] = "new" /\ State' = [State EXCEPT ![r] = "closed"]
    BY <1>0, <1>1, Closes, StateIs, Phases DEF RejectBatch, Finish
  <2> QED
    BY <1>1, <2>1, SameBatches DEF RejectBatch, Contract!Refuse, Contract!Close
<1>2. ASSUME NEW r \in Requests, NEW b \in Batches, InsertLogs(r, b)
      PROVE  Contract!Open(r)
  <2>1. State[r] = "new" /\ State' = [State EXCEPT ![r] = "open"]
    BY <1>0, <1>2, Moves DEF InsertLogs, State, Phase
  <2> QED
    BY <1>2, <2>1, SameBatches DEF InsertLogs, Contract!Open
<1>3. ASSUME NEW r \in Requests, NEW ip \in IPs, AddConflict(r, ip)
      PROVE  Contract!Refuse(r)
  <2>1. State[r] = "new" /\ State' = [State EXCEPT ![r] = "closed"]
    BY <1>0, <1>3, Closes, StateIs, Phases DEF AddConflict, Finish
  <2> QED
    BY <1>3, <2>1 DEF AddConflict, Contract!Refuse, Contract!Close
<1>4. ASSUME NEW r \in Requests, NEW ip \in IPs, AddLookup(r, ip)
      PROVE  Contract!Open(r)
  <2>1. State[r] = "new" /\ State' = [State EXCEPT ![r] = "open"]
    BY <1>0, <1>4, Moves DEF AddLookup, State, Phase
  <2> QED
    BY <1>4, <2>1 DEF AddLookup, Contract!Open
<1>5. ASSUME NEW r \in Requests, NEW row \in Rows, FindEntry(r, row)
      PROVE  Contract!Open(r)
  <2>1. State[r] = "new" /\ State' = [State EXCEPT ![r] = "open"]
    BY <1>0, <1>5, Moves DEF FindEntry, State, Phase
  <2> QED
    BY <1>5, <2>1 DEF FindEntry, Contract!Open
<1>6. ASSUME NEW r \in Requests, NEW row \in Rows, EntryNotFound(r, row)
      PROVE  Contract!Refuse(r)
  <2>1. State[r] = "new" /\ State' = [State EXCEPT ![r] = "closed"]
    BY <1>0, <1>6, Closes, StateIs, Phases DEF EntryNotFound, Finish
  <2> QED
    BY <1>6, <2>1 DEF EntryNotFound, Contract!Refuse, Contract!Close
<1>7. ASSUME NEW r \in Requests, ClearBlacklist(r) PROVE Contract!Remove(r)
  <2>1. logs[r] = << >>
    BY <1>7 DEF ClearBlacklist, BaseInv, TraceInv, HasBatch
  <2> QED
    BY <1>7, <2>1, Removes DEF ClearBlacklist, Finish
<1>8. ASSUME NEW r \in Requests, RemoveEntry(r)
      PROVE  Contract!Remove(r) \/ Contract!GiveUp(r)
  <2>1. /\ pc[r] = "remove" /\ logs[r] = << >>
        /\ pc' = [pc EXCEPT ![r] = "done"] /\ Drop(target[r])
        /\ UNCHANGED <<logs, firewall_logs, unknown_events>>
    BY <1>8 DEF RemoveEntry, Finish, Doomed, BaseInv, TraceInv, HasBatch
  <2>2. PICK row \in Rows : target[r] = {row} /\ row.user = UserOf[r]
    BY <2>1 DEF StepInv, Targets
  <2>3. CASE row \in blacklist_entries
    BY <2>1, <2>2, <2>3, Removes DEF OwnEntries
  <2>4. CASE row \notin blacklist_entries
    <3>1. UNCHANGED blacklist_entries
      BY <2>1, <2>2, <2>4 DEF Drop
    <3>2. UNCHANGED gone
      BY <1>0, <2>1, <2>2, <2>4 DEF Drop, TypeInv, TypeOK
    <3>3. State[r] = "open" /\ State' = [State EXCEPT ![r] = "closed"]
      BY <1>0, <2>1, Closes, StateIs, Phases
    <3> QED
      BY <2>1, <3>1, <3>2, <3>3 DEF Contract!GiveUp, Contract!Close
  <2> QED
    BY <2>3, <2>4
<1>9. ASSUME NEW r \in Requests, NEW ip \in IPs, CheckIp(r, ip)
      PROVE  UNCHANGED Contract!vars
  <2>1. pc[r] = "scan"
        /\ (pc' = [pc EXCEPT ![r] = "scan"] \/ pc' = [pc EXCEPT ![r] = "flush"])
    BY <1>0, <1>9 DEF CheckIp, TypeInv, TypeOK
  <2>2. UNCHANGED State
    BY <1>0, <2>1, Stays DEF Phase
  <2> QED
    BY <1>9, <2>2 DEF CheckIp, Contract!vars
<1>10. ASSUME NEW r \in Requests, InsertEntry(r) \/ RecordUnknownEvents(r)
       PROVE  UNCHANGED Contract!vars
  <2>1. UNCHANGED State
    BY <1>0, <1>10, Stays DEF InsertEntry, RecordUnknownEvents, Phase
  <2> QED
    BY <1>10, <2>1 DEF InsertEntry, RecordUnknownEvents, Contract!vars
<1>11. ASSUME NEW r \in Requests,
              \/ UniqueViolation(r) \/ DeadlockVictim(r) \/ AddViolation(r)
              \/ AddVanished(r) \/ DbError(r)
       PROVE  Contract!GiveUp(r) \/ UNCHANGED Contract!vars
  <2>1. Active(r) /\ Abort(r)
    BY <1>11
    DEF UniqueViolation, DeadlockVictim, AddViolation, AddVanished, DbError, Active
  <2> QED
    BY <1>0, <2>1, GivesUp DEF Abort, Finish, tablesOf
<1>12. ASSUME NEW r \in Requests, Commit(r) \/ CommitInDoubt(r)
       PROVE  Contract!StoreBatch(r)
  BY <1>12, Stores DEF Commit, CommitInDoubt, Finish
<1>13. ASSUME NEW r \in Requests, NEW ip \in IPs, Push(r, ip)
       PROVE  UNCHANGED Contract!vars
  BY <1>13 DEF Push, State, Contract!vars
<1>14. ASSUME NEW r \in Requests, Ack(r) \/ AddAnswer(r) PROVE UNCHANGED Contract!vars
  <2>1. UNCHANGED State
    BY <1>0, <1>14, Stays DEF Ack, AddAnswer, Finish, Phase
  <2> QED
    BY <1>14, <2>1 DEF Ack, AddAnswer, Contract!vars
<1>15. ASSUME NEW r \in Requests, AddEntry(r) PROVE Contract!AddOne(r)
  <2>1. State[r] = "open" /\ State' = [State EXCEPT ![r] = "closed"]
    BY <1>0, <1>15, Closes, StateIs, Phases DEF AddEntry
  <2>2. logs[r] = << >> /\ key[r] \in IPs
    BY <1>15 DEF AddEntry, BaseInv, TypeInv, KeyIsSet, TraceInv, HasBatch
  <2>3. Contract!Enter(r, {key[r]})
    BY <1>15, SameBatches DEF AddEntry, KeyTaken, Contract!Enter, Row
  <2> QED
    BY <1>15, <2>1, <2>2, <2>3 DEF AddEntry, Contract!AddOne, Contract!Close
<1>16. ASSUME NEW r \in Requests, Die(r)
       PROVE  Contract!GiveUp(r) \/ UNCHANGED Contract!vars
  BY <1>0, <1>16, GivesUp DEF Die, tablesOf
<1>17. ASSUME NEW u \in Users, NEW t \in Thresholds, SetThresholds(u, t)
       PROVE  UNCHANGED Contract!vars
  BY <1>17 DEF SetThresholds, State, Contract!vars
<1>18. CASE UNCHANGED vars
  BY <1>18 DEF vars, State, Contract!vars
<1> QED
  BY <1>1, <1>2, <1>3, <1>4, <1>5, <1>6, <1>7, <1>8, <1>9, <1>10, <1>11, <1>12, <1>13,
     <1>14, <1>15, <1>16, <1>17, <1>18
  DEF Next, Begin, Continue, Fail, Contract!Next

\* Whatever the statements of the requests interleave to, and wherever they fail,
\* the tables change as if every request took effect at once, or never.
THEOREM ContractIsImplemented == Spec => ImplementsContract
<1>1. Init => StepInv /\ Contract!Init
  BY StepInit DEF Init, Contract!Init, State, Phase
<1>2. TypeInv /\ StepInv /\ [Next]_vars => StepInv'
  BY StepStep
<1>3. BaseInv => TypeInv
  BY DEF BaseInv
<1>4. BaseInv /\ CoverInv /\ StepInv /\ [Next]_vars => [Contract!Next]_(Contract!vars)
  BY ContractStep
<1> QED
  BY CoverAlways, <1>1, <1>2, <1>3, <1>4, PTL DEF Spec, ImplementsContract, Contract!Spec
=============================================================================

------------------------------ MODULE LogPages ------------------------------
(***************************************************************************)
(* GET /firewall-logs (app/routes/firewall_logs.py, get_firewall_logs)     *)
(* called page after page by a client, while batches are stored.  Every    *)
(* call is one query: filter, ORDER BY created_at DESC, OFFSET, LIMIT.     *)
(* created_at is the time of the device, so the logs of a batch may share  *)
(* it, a later batch may be older than stored logs, and PostgreSQL returns *)
(* logs of one time in any order, another one in every query.              *)
(*                                                                         *)
(* The client goes on from the number of rows it has received and ends     *)
(* when it receives none.                                                  *)
(***************************************************************************)
EXTENDS Integers, Sequences, FiniteSets, Functions

CONSTANTS
  Logs,           \* the logs of the user
  TimeOf,         \* created_at of each
  ActionOf,       \* its action
  Ties,           \* the orders in which PostgreSQL may find the rows of a table
  Batches,        \* the batches that are stored, in any order and at any time
  Absent,         \* an argument that is not sent
  Text,           \* an argument that is no number or no date
  Queries,        \* the queries of clients: [action, from_date, to_date, limit, offset]
  DEFAULT_LIMIT, MAX_LIMIT

ASSUME LogsAssumption ==
  /\ TimeOf \in [Logs -> Nat]
  /\ \A b \in Batches : b \subseteq Logs /\ IsFiniteSet(b)
  /\ DOMAIN ActionOf = Logs
  /\ Ties \subseteq Injection(Logs, Nat)
ASSUME LimitsAssumption ==
  /\ DEFAULT_LIMIT \in Nat \ {0} /\ MAX_LIMIT \in Nat \ {0}
\* Who reads all pages begins with the first.
ASSUME QueriesAssumption ==
  \A q \in Queries :
    /\ {q.from_date, q.to_date} \subseteq Nat \cup {Absent, Text}
    /\ {q.limit, q.offset} \subseteq Int \cup {Absent, Text}
    /\ q.offset \in Int => q.offset <= 0
ASSUME AbsentAssumption == {Absent, Text} \cap Int = {}

VARIABLES
  stored,         \* the committed logs
  query,          \* the arguments of the client's first call
  offset,         \* the offset of its next call
  pc,             \* "new", "paging", "done", "refused"
  pages,          \* the pages it has received
  known           \* history: for each page, the logs that were stored by then

vars == <<stored, query, offset, pc, pages, known>>

Init ==
  /\ stored = {}
  /\ query \in Queries
  /\ offset = query.offset
  /\ pc = "new"
  /\ pages = << >>
  /\ known = << >>

StoreBatch(b) ==
  /\ b \cap stored = {}
  /\ stored' = stored \cup b
  /\ UNCHANGED <<query, offset, pc, pages, known>>

-----------------------------------------------------------------------------
(* One query. *)

BadDate == Text \in {query.from_date, query.to_date}

\* The logs that the filters select; both dates are inclusive.
Selects(l) ==
  /\ query.action # Absent => ActionOf[l] = query.action
  /\ query.from_date # Absent => TimeOf[l] >= query.from_date
  /\ query.to_date # Absent => TimeOf[l] <= query.to_date

Selected == {l \in stored : Selects(l)}

\* Mutant: no ORDER BY.
AnyOrder(a, b, tie) == tie[a] < tie[b]

\* ORDER BY created_at DESC, and what comes first of logs of one time.
Before(a, b, tie) ==
  \/ TimeOf[a] > TimeOf[b]
  \/ TimeOf[a] = TimeOf[b] /\ tie[a] < tie[b]

Ahead(l, logs, tie) == {k \in logs : Before(k, l, tie)}

\* The log with n logs ahead of it is the one at n + 1.
Sorted(logs, tie) ==
  [i \in 1 .. Cardinality(logs) |->
     CHOOSE l \in logs : Cardinality(Ahead(l, logs, tie)) = i - 1]

AtLeast(a, b) == IF a < b THEN b ELSE a
AtMost(a, b) == IF a < b THEN a ELSE b

Limit ==
  IF query.limit \in {Absent, Text} THEN DEFAULT_LIMIT
  ELSE AtMost(AtLeast(query.limit, 1), MAX_LIMIT)

\* Mutant: an offset counts from 1.
OffsetFromOne == IF offset \in {Absent, Text} THEN 0 ELSE AtLeast(offset - 1, 0)

Offset == IF offset \in {Absent, Text} THEN 0 ELSE AtLeast(offset, 0)

-----------------------------------------------------------------------------
(* The client. *)

\* The client's next offset is the number of rows it has received.
Received == IF pc = "new" THEN 0 ELSE offset

Refuse ==
  /\ pc = "new"
  /\ BadDate
  /\ pc' = "refused"
  /\ UNCHANGED <<stored, query, offset, pages, known>>

\* A call and its answer; an empty page is the last one.
Page ==
  /\ pc \in {"new", "paging"}
  /\ ~BadDate
  /\ \E tie \in Ties :
       LET rows == Sorted(Selected, tie)
           page == SubSeq(rows, Offset + 1, AtMost(Offset + Limit, Len(rows))) IN
         /\ pages' = Append(pages, page)
         /\ known' = Append(known, stored)
         /\ pc' = IF page = << >> THEN "done" ELSE "paging"
         /\ offset' = Received + Len(page)
  /\ UNCHANGED <<stored, query>>

Next ==
  \/ \E b \in Batches : StoreBatch(b)
  \/ Refuse
  \/ Page

Spec == Init /\ [][Next]_vars

-----------------------------------------------------------------------------
(* Properties. *)

\* Every variable holds a value of its type.
TypeOK ==
  /\ stored \subseteq Logs
  /\ query \in Queries
  /\ offset \in Int \cup {Absent, Text}
  /\ pc \in {"new", "paging", "done", "refused"}
  /\ pages \in Seq(Seq(Logs))
  /\ known \in Seq(SUBSET Logs)
  /\ Len(known) = Len(pages)

SharesItsTime(l, logs) == \E k \in logs : k # l /\ TimeOf[k] = TimeOf[l]

IsIn(l, page) == \E i \in DOMAIN page : page[i] = l

\* A client that pages to the end has every selected log that was stored before its
\* first call, whatever has been stored since, newer or older: batches only push logs to
\* later offsets.  Only a log that shares its time with another one may be passed over.
NothingIsSkipped ==
  pc = "done" =>
    \A l \in known[1] :
      Selects(l) /\ ~SharesItsTime(l, stored) => \E p \in DOMAIN pages : IsIn(l, pages[p])

\* A log is returned on two pages only when a log that is not older was stored between the
\* two calls, or it shares its time with another.
RepeatsHaveAReason ==
  \A p, q \in DOMAIN pages : \A l \in stored :
    p < q /\ IsIn(l, pages[p]) /\ IsIn(l, pages[q]) =>
      \/ \E k \in known[q] \ known[p] : Selects(k) /\ TimeOf[k] >= TimeOf[l]
      \/ SharesItsTime(l, known[q])
=============================================================================

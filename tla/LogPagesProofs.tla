---------------------------- MODULE LogPagesProofs ----------------------------
(* Theorems about LogPages, for any logs, times, batches, limits and orders of ties. *)
EXTENDS LogPages, FiniteSetTheorems, SequenceTheorems, TLAPS

-----------------------------------------------------------------------------
(* The order of a query is a strict total order, so it ranks the logs. *)

LEMMA BeforeIsTotal ==
  ASSUME NEW tie \in Ties, NEW a \in Logs, NEW b \in Logs
  PROVE  /\ ~Before(a, a, tie)
         /\ a # b => Before(a, b, tie) \/ Before(b, a, tie)
<1>1. /\ TimeOf[a] \in Nat /\ TimeOf[b] \in Nat /\ tie[a] \in Nat /\ tie[b] \in Nat
      /\ tie[a] = tie[b] => a = b
  BY LogsAssumption DEF Injection, IsInjective
<1> QED BY <1>1 DEF Before

LEMMA BeforeIsTransitive ==
  ASSUME NEW tie \in Ties, NEW a \in Logs, NEW b \in Logs, NEW c \in Logs,
         Before(a, b, tie), Before(b, c, tie)
  PROVE  Before(a, c, tie)
<1>1. /\ TimeOf[a] \in Nat /\ TimeOf[b] \in Nat /\ TimeOf[c] \in Nat
      /\ tie[a] \in Nat /\ tie[b] \in Nat /\ tie[c] \in Nat
  BY LogsAssumption DEF Injection
<1> QED BY <1>1 DEF Before

Rank(l, logs, tie) == Cardinality(Ahead(l, logs, tie))

LEMMA RankType ==
  ASSUME NEW tie \in Ties, NEW logs \in SUBSET Logs, IsFiniteSet(logs), NEW l \in logs
  PROVE  /\ IsFiniteSet(Ahead(l, logs, tie))
         /\ Rank(l, logs, tie) \in 0 .. Cardinality(logs) - 1
<1>1. Ahead(l, logs, tie) \in SUBSET logs /\ l \notin Ahead(l, logs, tie)
  BY BeforeIsTotal DEF Ahead
<1>2. /\ IsFiniteSet(Ahead(l, logs, tie))
      /\ Cardinality(Ahead(l, logs, tie)) <= Cardinality(logs)
      /\ Cardinality(logs) = Cardinality(Ahead(l, logs, tie)) => logs = Ahead(l, logs, tie)
  BY <1>1, FS_Subset
<1>3. Cardinality(Ahead(l, logs, tie)) \in Nat /\ Cardinality(logs) \in Nat
  BY <1>2, FS_CardinalityType
<1> QED BY <1>1, <1>2, <1>3 DEF Rank

LEMMA RankGrows ==
  ASSUME NEW tie \in Ties, NEW logs \in SUBSET Logs, IsFiniteSet(logs),
         NEW a \in logs, NEW b \in logs, Before(a, b, tie)
  PROVE  Rank(a, logs, tie) < Rank(b, logs, tie)
<1>1. /\ Ahead(a, logs, tie) \in SUBSET Ahead(b, logs, tie)
      /\ a \in Ahead(b, logs, tie) /\ a \notin Ahead(a, logs, tie)
  BY BeforeIsTotal, BeforeIsTransitive DEF Ahead
<1>2. IsFiniteSet(Ahead(a, logs, tie)) /\ IsFiniteSet(Ahead(b, logs, tie))
  BY RankType
<1>3. /\ Cardinality(Ahead(a, logs, tie)) <= Cardinality(Ahead(b, logs, tie))
      /\ Cardinality(Ahead(b, logs, tie)) = Cardinality(Ahead(a, logs, tie))
           => Ahead(b, logs, tie) = Ahead(a, logs, tie)
  BY <1>1, <1>2, FS_Subset
<1>4. Cardinality(Ahead(a, logs, tie)) \in Nat /\ Cardinality(Ahead(b, logs, tie)) \in Nat
  BY <1>2, FS_CardinalityType
<1> QED BY <1>1, <1>3, <1>4 DEF Rank

LEMMA RankIsInjective ==
  ASSUME NEW tie \in Ties, NEW logs \in SUBSET Logs, IsFiniteSet(logs),
         NEW a \in logs, NEW b \in logs, Rank(a, logs, tie) = Rank(b, logs, tie)
  PROVE  a = b
<1>1. Rank(a, logs, tie) \in Int
  BY RankType
<1>2. ~Before(a, b, tie) /\ ~Before(b, a, tie)
  BY <1>1, RankGrows
<1> QED BY <1>2, BeforeIsTotal

\* Ranks are different and below the number of logs: each of them is some log's.
LEMMA RankIsOnto ==
  ASSUME NEW tie \in Ties, NEW logs \in SUBSET Logs, IsFiniteSet(logs),
         NEW n \in 0 .. Cardinality(logs) - 1
  PROVE  \E l \in logs : Rank(l, logs, tie) = n
<1> DEFINE last == Cardinality(logs) - 1
           f == [l \in logs |-> Rank(l, logs, tie)]
<1>1. Cardinality(logs) \in Nat
  BY FS_CardinalityType
<1>2. f \in [logs -> 0 .. last]
  BY RankType
<1>3. \A a, b \in logs : f[a] = f[b] => a = b
  BY RankIsInjective
<1>4. f \in Injection(logs, 0 .. last)
  BY <1>2, <1>3 DEF Injection, IsInjective
<1>5. last \in Int /\ 0 \in Int
  BY <1>1
<1>6. IsFiniteSet(0 .. last) /\ Cardinality(0 .. last) = IF 0 > last THEN 0 ELSE last - 0 + 1
  BY <1>5, FS_Interval
<1>7. Cardinality(logs) = Cardinality(0 .. last)
  BY <1>1, <1>6
<1>8. f \in Surjection(logs, 0 .. last)
  <2> HIDE DEF f, last
  <2> QED BY <1>4, <1>6, <1>7, FS_Injection
<1> QED BY <1>8 DEF Surjection

\* What ORDER BY returns: every log once, at its rank.
LEMMA SortedRanks ==
  ASSUME NEW tie \in Ties, NEW logs \in SUBSET Logs, IsFiniteSet(logs)
  PROVE  /\ Sorted(logs, tie) \in Seq(logs)
         /\ Len(Sorted(logs, tie)) = Cardinality(logs) /\ Cardinality(logs) \in Nat
         /\ \A n \in 1 .. Cardinality(logs) :
              /\ Sorted(logs, tie)[n] \in logs
              /\ Rank(Sorted(logs, tie)[n], logs, tie) = n - 1
<1>1. Cardinality(logs) \in Nat
  BY FS_CardinalityType
<1>2. ASSUME NEW n \in 1 .. Cardinality(logs)
      PROVE  /\ Sorted(logs, tie)[n] \in logs
             /\ Rank(Sorted(logs, tie)[n], logs, tie) = n - 1
  <2>1. n - 1 \in 0 .. Cardinality(logs) - 1
    BY <1>1
  <2>2. \E l \in logs : Cardinality(Ahead(l, logs, tie)) = n - 1
    BY <2>1, RankIsOnto DEF Rank
  <2>3. Sorted(logs, tie)[n] = CHOOSE l \in logs : Cardinality(Ahead(l, logs, tie)) = n - 1
    BY DEF Sorted
  <2> QED BY <2>2, <2>3 DEF Rank
<1>3. Sorted(logs, tie) \in [1 .. Cardinality(logs) -> logs]
  BY <1>2 DEF Sorted
<1>4. Sorted(logs, tie) \in Seq(logs) /\ Len(Sorted(logs, tie)) = Cardinality(logs)
  BY <1>1, <1>3, SeqDef, LenProperties
<1> QED BY <1>1, <1>2, <1>4

\* The page from one offset to another holds the logs whose ranks lie between them.
LEMMA PageHolds ==
  ASSUME NEW tie \in Ties, NEW logs \in SUBSET Logs, IsFiniteSet(logs),
         NEW from \in Nat, NEW to \in Nat, to <= Cardinality(logs),
         NEW page, page = SubSeq(Sorted(logs, tie), from + 1, to)
  PROVE  /\ page \in Seq(Logs) /\ Len(page) = IF from < to THEN to - from ELSE 0
         /\ \A l : IsIn(l, page) <=> l \in logs /\ Rank(l, logs, tie) \in from .. to - 1
<1> DEFINE rows == Sorted(logs, tie)
<1>1. /\ Cardinality(logs) \in Nat
      /\ \A n \in 1 .. Cardinality(logs) : rows[n] \in logs /\ Rank(rows[n], logs, tie) = n - 1
  BY SortedRanks
<1> HIDE DEF rows
<1>2. from + 1 \in Int /\ to \in Int /\ \A n \in from + 1 .. to : rows[n] \in Logs
  BY <1>1
<1>3. /\ page \in Seq(Logs)
      /\ Len(page) = IF from + 1 <= to THEN to - (from + 1) + 1 ELSE 0
      /\ \A n \in 1 .. to - (from + 1) + 1 : page[n] = rows[(from + 1) + n - 1]
  BY <1>2, SubSeqProperties DEF rows
<1>4. /\ Len(page) = IF from < to THEN to - from ELSE 0
      /\ DOMAIN page = 1 .. Len(page)
      /\ \A n \in 1 .. to - from : page[n] = rows[from + n]
  <2>1. to - (from + 1) + 1 = to - from /\ (from + 1 <= to <=> from < to)
    OBVIOUS
  <2>2. \A n \in 1 .. to - from : (from + 1) + n - 1 = from + n
    OBVIOUS
  <2>3. DOMAIN page = 1 .. Len(page)
    BY <1>3, LenProperties
  <2> QED BY <1>3, <2>1, <2>2, <2>3
<1>5. ASSUME NEW l, IsIn(l, page)
      PROVE  l \in logs /\ Rank(l, logs, tie) \in from .. to - 1
  <2>1. PICK n \in DOMAIN page : page[n] = l
    BY <1>5 DEF IsIn
  <2>2. n \in 1 .. to - from /\ from + n \in 1 .. Cardinality(logs)
    BY <1>1, <1>4, <2>1
  <2>3. l \in logs /\ Rank(l, logs, tie) = from + n - 1
    <3>1. l = rows[from + n]
      BY <1>4, <2>1, <2>2
    <3> QED BY <1>1, <2>2, <3>1
  <2> QED BY <2>2, <2>3
<1>6. ASSUME NEW l \in logs, Rank(l, logs, tie) \in from .. to - 1
      PROVE  IsIn(l, page)
  <2> DEFINE n == Rank(l, logs, tie) - from + 1
  <2>1. n \in 1 .. to - from /\ n \in DOMAIN page /\ from + n \in 1 .. Cardinality(logs)
    BY <1>1, <1>4, <1>6
  <2>2. n \in Int
    BY <2>1
  <2> HIDE DEF n
  <2>3. PICK k \in 1 .. Cardinality(logs) : k = from + n
    BY <2>1
  <2>4. page[n] = rows[k]
    BY <1>4, <2>1, <2>3
  <2>5. k - 1 = Rank(l, logs, tie)
    BY <1>6, <2>2, <2>3 DEF n
  <2>6. rows[k] \in logs /\ Rank(rows[k], logs, tie) = Rank(l, logs, tie)
    BY <1>1, <2>5
  <2>7. rows[k] = l
    BY <2>6, RankIsInjective
  <2> QED BY <2>1, <2>4, <2>7 DEF IsIn
<1> QED BY <1>3, <1>4, <1>5, <1>6

-----------------------------------------------------------------------------
(* Types. *)

\* The offset counts rows from the first answer on, and the pages keep what was known.
StateInv ==
  /\ TypeOK
  /\ IsFiniteSet(stored)
  /\ pc = "new" => offset = query.offset
  /\ pc \in {"paging", "done"} => offset \in Nat
  /\ pc \in {"new", "refused"} <=> pages = << >>
  /\ \A p \in DOMAIN pages :
       /\ known[p] \subseteq stored /\ IsFiniteSet(known[p])
       /\ \A l : IsIn(l, pages[p]) => l \in known[p] /\ Selects(l)

LEMMA Appended ==
  ASSUME NEW S, NEW seq \in Seq(S), NEW e \in S
  PROVE  /\ Append(seq, e) \in Seq(S) /\ Append(seq, e) # << >>
         /\ Len(seq) \in Nat /\ Len(Append(seq, e)) = Len(seq) + 1
         /\ DOMAIN seq = 1 .. Len(seq)
         /\ DOMAIN Append(seq, e) = DOMAIN seq \cup {Len(seq) + 1}
         /\ \A j \in DOMAIN seq : Append(seq, e)[j] = seq[j]
         /\ Append(seq, e)[Len(seq) + 1] = e
OBVIOUS

LEMMA StateInit == Init => StateInv
<1> SUFFICES ASSUME Init PROVE StateInv
  OBVIOUS
<1>1. stored = {} /\ pages = << >> /\ known = << >> /\ pc = "new" /\ query \in Queries
      /\ offset = query.offset
  BY DEF Init
<1>2. /\ << >> \in Seq(Seq(Logs)) /\ << >> \in Seq(SUBSET Logs)
      /\ DOMAIN << >> = {}
  OBVIOUS
<1>3. offset \in Int \cup {Absent, Text}
  BY <1>1, QueriesAssumption
<1> QED BY <1>1, <1>2, <1>3, FS_EmptySet DEF StateInv, TypeOK

LEMMA LimitType == query \in Queries => Limit \in Nat \ {0}
BY QueriesAssumption, LimitsAssumption, AbsentAssumption DEF Limit, AtLeast, AtMost

\* Newer(l, logs): the selected logs that come before l in every order.
Newer(l, logs) == {k \in logs : Selects(k) /\ TimeOf[k] > TimeOf[l]}

AheadOf(l, logs) == Cardinality(Newer(l, logs))

LEMMA NewerGrows ==
  ASSUME NEW few, NEW many, few \subseteq many, IsFiniteSet(many), NEW l
  PROVE  /\ AheadOf(l, few) \in Nat /\ AheadOf(l, many) \in Nat
         /\ AheadOf(l, few) <= AheadOf(l, many)
<1>1. Newer(l, many) \in SUBSET many /\ Newer(l, few) \in SUBSET Newer(l, many)
  BY DEF Newer
<1>2. IsFiniteSet(Newer(l, many))
  BY <1>1, FS_Subset
<1>3. /\ IsFiniteSet(Newer(l, few))
      /\ Cardinality(Newer(l, few)) <= Cardinality(Newer(l, many))
  BY <1>1, <1>2, FS_Subset
<1> QED BY <1>2, <1>3, FS_CardinalityType DEF AheadOf

\* A log that shares its time with no other has all newer logs ahead of it, and only those.
LEMMA RankOfUnshared ==
  ASSUME NEW tie \in Ties, NEW l \in stored, stored \subseteq Logs,
         Selects(l), ~SharesItsTime(l, stored)
  PROVE  Rank(l, Selected, tie) = AheadOf(l, stored)
<1>1. \A k \in stored : TimeOf[k] = TimeOf[l] => k = l
  BY DEF SharesItsTime
<1>2. Ahead(l, Selected, tie) = Newer(l, stored)
  <2>1. ASSUME NEW k \in stored, Selects(k)
        PROVE  Before(k, l, tie) <=> TimeOf[k] > TimeOf[l]
    BY <1>1, <2>1, BeforeIsTotal DEF Before
  <2> QED BY <2>1 DEF Ahead, Newer, Selected
<1> QED BY <1>2 DEF Rank, AheadOf

\* What a page is, in terms of the rows received before and after it.
LEMMA PageStep ==
  ASSUME StateInv, Page
  PROVE  \E page \in Seq(Logs) :
           /\ pages' = Append(pages, page) /\ known' = Append(known, stored)
           /\ UNCHANGED <<stored, query>>
           /\ pc' = IF page = << >> THEN "done" ELSE "paging"
           /\ Received \in Nat /\ Received' \in Nat /\ Received <= Received'
           /\ offset' = Received'
           /\ \A l : IsIn(l, page) => l \in stored /\ Selects(l)
           /\ \A l \in stored : Selects(l) /\ ~SharesItsTime(l, stored) =>
                /\ AheadOf(l, stored) \in Nat
                /\ IsIn(l, page) <=> AheadOf(l, stored) \in Received .. Received' - 1
                /\ page = << >> => AheadOf(l, stored) < Received
<1>1. PICK tie \in Ties :
        LET rows == Sorted(Selected, tie)
            page == SubSeq(rows, Offset + 1, AtMost(Offset + Limit, Len(rows))) IN
          /\ pages' = Append(pages, page)
          /\ known' = Append(known, stored)
          /\ pc' = IF page = << >> THEN "done" ELSE "paging"
          /\ offset' = Received + Len(page)
  BY DEF Page
<1> DEFINE count == Cardinality(Selected)
           to == AtMost(Offset + Limit, count)
           page == SubSeq(Sorted(Selected, tie), Offset + 1, to)
<1>2. Selected \in SUBSET stored /\ Selected \in SUBSET Logs /\ IsFiniteSet(Selected)
  <2>1. Selected \in SUBSET stored /\ stored \subseteq Logs
    BY DEF Selected, StateInv, TypeOK
  <2> QED BY <2>1, FS_Subset DEF StateInv
<1>3. Len(Sorted(Selected, tie)) = count /\ count \in Nat
  BY <1>2, SortedRanks
<1>4. Offset = Received /\ Received \in Nat
  <2>1. CASE pc = "new"
    <3>1. offset \in {Absent, Text} \/ (offset \in Int /\ offset <= 0)
      BY <2>1, QueriesAssumption DEF StateInv, TypeOK
    <3> QED BY <2>1, <3>1 DEF Offset, Received, AtLeast
  <2>2. CASE pc = "paging"
    <3>1. offset \in Nat /\ offset \notin {Absent, Text}
      BY <2>2, AbsentAssumption DEF StateInv
    <3> QED BY <2>2, <3>1 DEF Offset, Received, AtLeast
  <2> QED BY <2>1, <2>2 DEF Page
<1>5. Limit \in Nat \ {0}
  BY LimitType DEF StateInv, TypeOK
<1>6. to \in Nat /\ to <= count /\ (Received < count => Received < to)
  BY <1>3, <1>4, <1>5 DEF AtMost
<1>7. /\ pages' = Append(pages, page) /\ known' = Append(known, stored)
      /\ pc' = IF page = << >> THEN "done" ELSE "paging"
      /\ offset' = Received + Len(page)
  BY <1>1, <1>3
<1>8. /\ page \in Seq(Logs) /\ Len(page) = IF Received < to THEN to - Received ELSE 0
      /\ \A l : IsIn(l, page) <=>
                  l \in Selected /\ Rank(l, Selected, tie) \in Received .. to - 1
  BY <1>2, <1>4, <1>6, PageHolds
<1> HIDE DEF page, to, count
<1>9. /\ pc' # "new" /\ Received' = offset' /\ Received' = Received + Len(page)
      /\ Len(page) \in Nat
  BY <1>4, <1>6, <1>7, <1>8 DEF Received
<1>10. page = << >> => count <= Received
  <2>1. page = << >> => Len(page) = 0
    BY EmptySeq
  <2> QED BY <1>3, <1>4, <1>6, <1>8, <2>1
<1>11. ASSUME NEW l \in stored, Selects(l), ~SharesItsTime(l, stored)
       PROVE  /\ AheadOf(l, stored) \in Nat
              /\ IsIn(l, page) <=> AheadOf(l, stored) \in Received .. Received' - 1
              /\ page = << >> => AheadOf(l, stored) < Received
  <2>1. l \in Selected
    BY <1>11 DEF Selected
  <2>2. Rank(l, Selected, tie) = AheadOf(l, stored)
    BY <1>11, RankOfUnshared DEF StateInv, TypeOK
  <2>3. AheadOf(l, stored) \in 0 .. count - 1
    BY <1>2, <2>1, <2>2, RankType DEF count
  <2>4. IsIn(l, page) <=> AheadOf(l, stored) \in Received .. to - 1
    BY <1>8, <2>1, <2>2
  <2>5. Received' - 1 = (IF Received < to THEN to ELSE Received) - 1
    BY <1>4, <1>6, <1>8, <1>9
  <2> QED BY <1>3, <1>4, <1>6, <1>10, <2>3, <2>4, <2>5
<1>12. \A l : IsIn(l, page) => l \in stored /\ Selects(l)
  BY <1>8 DEF Selected
<1>13. UNCHANGED <<stored, query>>
  BY DEF Page
<1>14. Received' \in Nat /\ Received <= Received'
  BY <1>4, <1>9
<1>15. offset' = Received' /\ page \in Seq(Logs)
  BY <1>8, <1>9
<1> QED BY <1>4, <1>7, <1>11, <1>12, <1>13, <1>14, <1>15

LEMMA StateStep == StateInv /\ [Next]_vars => StateInv'
<1> SUFFICES ASSUME StateInv, [Next]_vars PROVE StateInv'
  OBVIOUS
<1>1. ASSUME NEW b \in Batches, StoreBatch(b) PROVE StateInv'
  <2>1. stored' = stored \cup b /\ b \subseteq Logs /\ IsFiniteSet(b)
        /\ UNCHANGED <<query, offset, pc, pages, known>>
    BY <1>1, LogsAssumption DEF StoreBatch
  <2>2. IsFiniteSet(stored')
    BY <2>1, FS_Union DEF StateInv
  <2> QED BY <2>1, <2>2 DEF StateInv, TypeOK, Selects
<1>2. CASE Refuse
  BY <1>2 DEF Refuse, StateInv, TypeOK, Selects
<1>3. CASE Page
  <2>1. PICK page \in Seq(Logs) :
           /\ pages' = Append(pages, page) /\ known' = Append(known, stored)
           /\ UNCHANGED <<stored, query>>
           /\ pc' = IF page = << >> THEN "done" ELSE "paging"
           /\ Received' \in Nat /\ offset' = Received'
           /\ \A l : IsIn(l, page) => l \in stored /\ Selects(l)
    BY <1>3, PageStep
  <2>2. /\ pages \in Seq(Seq(Logs)) /\ known \in Seq(SUBSET Logs) /\ stored \in SUBSET Logs
        /\ Len(known) = Len(pages)
    BY DEF StateInv, TypeOK
  <2>3. /\ pages' \in Seq(Seq(Logs)) /\ pages' # << >> /\ Len(pages') = Len(pages) + 1
        /\ DOMAIN pages' = DOMAIN pages \cup {Len(pages) + 1}
        /\ \A j \in DOMAIN pages : pages'[j] = pages[j]
        /\ pages'[Len(pages) + 1] = page
    BY <2>1, <2>2, Appended
  <2>4. /\ known' \in Seq(SUBSET Logs) /\ Len(known') = Len(known) + 1
        /\ DOMAIN known = DOMAIN pages
        /\ \A j \in DOMAIN known : known'[j] = known[j]
        /\ known'[Len(known) + 1] = stored
    BY <2>1, <2>2, Appended
  <2>5. TypeOK'
    BY <2>1, <2>2, <2>3, <2>4 DEF StateInv, TypeOK
  <2>6. ASSUME NEW p \in DOMAIN pages'
        PROVE  /\ known'[p] \subseteq stored' /\ IsFiniteSet(known'[p])
               /\ \A l : IsIn(l, pages'[p]) => l \in known'[p] /\ Selects(l)
    BY <2>1, <2>2, <2>3, <2>4 DEF StateInv
  <2>7. \A l : Selects(l)' <=> Selects(l)
    BY <2>1 DEF Selects
  <2>8. pc' \in {"paging", "done"}
    BY <2>1
  <2> QED BY <2>1, <2>3, <2>5, <2>6, <2>7, <2>8 DEF StateInv
<1>4. CASE UNCHANGED vars
  BY <1>4 DEF vars, StateInv, TypeOK, Selects
<1> QED BY <1>1, <1>2, <1>3, <1>4 DEF Next

LEMMA StateAlways == Spec => []StateInv
BY StateInit, StateStep, PTL DEF Spec

\* Every variable keeps its type.
THEOREM TypeCorrect == Spec => []TypeOK
<1>1. StateInv => TypeOK
  BY DEF StateInv
<1> QED BY <1>1, StateAlways, PTL
-----------------------------------------------------------------------------
(* What the pages hold. *)

\* A log that was stored before the first call and has its time for itself is on a page, or
\* has all rows received so far ahead of it.
SkipInv ==
  /\ pages # << >> =>
       \A l \in known[1] : Selects(l) /\ ~SharesItsTime(l, stored) =>
         \/ \E p \in DOMAIN pages : IsIn(l, pages[p])
         \/ Received <= AheadOf(l, stored)
  /\ NothingIsSkipped

LEMMA SkipInit == Init => SkipInv
BY DEF Init, SkipInv, NothingIsSkipped

LEMMA StoreKeepsSkip ==
  ASSUME StateInv, StateInv', SkipInv, NEW b \in Batches, StoreBatch(b)
  PROVE  SkipInv'
<1>1. stored \subseteq stored' /\ UNCHANGED <<query, offset, pc, pages, known>>
  BY DEF StoreBatch
<1>2. \A l : /\ SharesItsTime(l, stored) => SharesItsTime(l, stored')
             /\ Selects(l)' <=> Selects(l)
  BY <1>1 DEF SharesItsTime, Selects
<1>3. IsFiniteSet(stored')
  BY DEF StateInv
<1>4. ASSUME NEW l, Received \in Nat, Received <= AheadOf(l, stored)
      PROVE  Received' <= AheadOf(l, stored)'
  <2>1. /\ AheadOf(l, stored) \in Nat /\ AheadOf(l, stored') \in Nat
        /\ AheadOf(l, stored) <= AheadOf(l, stored')
    BY <1>1, <1>3, NewerGrows
  <2>2. AheadOf(l, stored)' = AheadOf(l, stored')
    BY <1>1 DEF AheadOf, Newer, Selects
  <2>3. Received' = Received
    BY <1>1 DEF Received
  <2> QED BY <1>4, <2>1, <2>2, <2>3
<1>5. pages # << >> => Received \in Nat
  BY DEF StateInv, TypeOK, Received
<1>6. NothingIsSkipped'
  BY <1>1, <1>2 DEF SkipInv, NothingIsSkipped
<1> QED BY <1>1, <1>2, <1>4, <1>5, <1>6 DEF SkipInv

LEMMA SkipStep == StateInv /\ StateInv' /\ SkipInv /\ [Next]_vars => SkipInv'
<1> SUFFICES ASSUME StateInv, StateInv', SkipInv, [Next]_vars PROVE SkipInv'
  OBVIOUS
<1>1. ASSUME NEW b \in Batches, StoreBatch(b) PROVE SkipInv'
  BY <1>1, StoreKeepsSkip
<1>2. CASE Refuse
  <2>1. pages = << >> /\ pages' = pages /\ pc' = "refused"
    BY <1>2 DEF Refuse, StateInv
  <2> QED BY <2>1 DEF SkipInv, NothingIsSkipped
<1>3. CASE Page
  <2>1. PICK page \in Seq(Logs) :
           /\ pages' = Append(pages, page) /\ known' = Append(known, stored)
           /\ UNCHANGED <<stored, query>>
           /\ pc' = IF page = << >> THEN "done" ELSE "paging"
           /\ Received \in Nat /\ Received' \in Nat /\ Received <= Received'
           /\ \A l \in stored : Selects(l) /\ ~SharesItsTime(l, stored) =>
                /\ AheadOf(l, stored) \in Nat
                /\ IsIn(l, page) <=> AheadOf(l, stored) \in Received .. Received' - 1
                /\ page = << >> => AheadOf(l, stored) < Received
    BY <1>3, PageStep
  <2>2. /\ DOMAIN pages' = DOMAIN pages \cup {Len(pages) + 1}
        /\ \A j \in DOMAIN pages : pages'[j] = pages[j]
        /\ pages'[Len(pages) + 1] = page
        /\ DOMAIN pages = 1 .. Len(pages) /\ Len(pages) \in Nat
    BY <2>1, Appended DEF StateInv, TypeOK
  <2>3. /\ \A j \in DOMAIN pages : known'[j] = known[j]
        /\ known'[Len(pages) + 1] = stored
    BY <2>1, <2>2, Appended DEF StateInv, TypeOK
  <2>4. \A l : /\ Selects(l)' <=> Selects(l)
               /\ SharesItsTime(l, stored') <=> SharesItsTime(l, stored)
               /\ AheadOf(l, stored)' = AheadOf(l, stored)
    BY <2>1 DEF Selects, SharesItsTime, AheadOf, Newer
  <2>5. ASSUME NEW l \in known'[1], Selects(l), ~SharesItsTime(l, stored)
        PROVE  /\ l \in stored
               /\ \/ \E p \in DOMAIN pages : IsIn(l, pages[p])
                  \/ Received <= AheadOf(l, stored)
    <3>1. CASE pages = << >>
      <4>1. Len(pages) = 0 /\ pc = "new"
        BY <1>3, <3>1, EmptySeq DEF StateInv, Page
      <4>2. l \in stored
        BY <2>3, <2>5, <4>1
      <4>3. Received = 0
        BY <4>1 DEF Received
      <4> QED BY <2>1, <2>5, <4>2, <4>3
    <3>2. CASE pages # << >>
      <4>1. 1 \in DOMAIN pages
        BY <2>2, <3>2, EmptySeq DEF StateInv, TypeOK
      <4>2. l \in known[1] /\ known[1] \subseteq stored
        BY <2>3, <2>5, <4>1 DEF StateInv
      <4> QED BY <2>5, <3>2, <4>2 DEF SkipInv
    <3> QED BY <3>1, <3>2
  <2>6. ASSUME NEW l \in known'[1], Selects(l), ~SharesItsTime(l, stored)
        PROVE  /\ \/ \E p \in DOMAIN pages' : IsIn(l, pages'[p])
                  \/ Received' <= AheadOf(l, stored)
               /\ page = << >> => \E p \in DOMAIN pages' : IsIn(l, pages'[p])
    <3>1. CASE \E p \in DOMAIN pages : IsIn(l, pages[p])
      BY <2>2, <3>1
    <3>2. CASE Received <= AheadOf(l, stored)
      <4>1. /\ AheadOf(l, stored) \in Nat
            /\ IsIn(l, page) <=> AheadOf(l, stored) \in Received .. Received' - 1
            /\ page = << >> => AheadOf(l, stored) < Received
        BY <2>1, <2>5, <2>6
      <4>2. page # << >>
        BY <2>1, <3>2, <4>1
      <4>3. IsIn(l, page) \/ Received' <= AheadOf(l, stored)
        BY <2>1, <3>2, <4>1
      <4> QED BY <2>2, <4>2, <4>3
    <3> QED BY <2>5, <2>6, <3>1, <3>2
  <2>7. pc' = "done" => page = << >>
    BY <2>1
  <2>8. NothingIsSkipped'
    BY <2>1, <2>4, <2>6, <2>7 DEF NothingIsSkipped
  <2> QED BY <2>1, <2>4, <2>6, <2>8 DEF SkipInv
<1>4. CASE UNCHANGED vars
  BY <1>4 DEF vars, SkipInv, NothingIsSkipped, Selects, Received, AheadOf, Newer
<1> QED BY <1>1, <1>2, <1>3, <1>4 DEF Next

\* Whatever batches are stored while a client pages to the end, it has every selected log that
\* was there at its first call and has its time for itself.
THEOREM PagesSkipNothing == Spec => []NothingIsSkipped
<1>1. Init => StateInv /\ SkipInv
  BY StateInit, SkipInit
<1>2. StateInv /\ SkipInv /\ [Next]_vars => (StateInv /\ SkipInv)'
  BY StateStep, SkipStep
<1>3. SkipInv => NothingIsSkipped
  BY DEF SkipInv
<1> QED BY <1>1, <1>2, <1>3, PTL DEF Spec

-----------------------------------------------------------------------------
(* Repeated logs. *)

\* The log lies before the offset that follows its page.
RepeatInv ==
  /\ \A p \in DOMAIN pages : \A l : IsIn(l, pages[p]) /\ ~SharesItsTime(l, known[p]) =>
       AheadOf(l, known[p]) < Received
  /\ RepeatsHaveAReason

LEMMA RepeatInit == Init => RepeatInv
<1> SUFFICES ASSUME Init PROVE RepeatInv
  OBVIOUS
<1>1. DOMAIN pages = {}
  BY DEF Init
<1> QED BY <1>1 DEF RepeatInv, RepeatsHaveAReason

\* A log that moved to a later page has been overtaken by one that was stored in between.
LEMMA Overtaken ==
  ASSUME NEW few, NEW many, IsFiniteSet(few), IsFiniteSet(many), few \subseteq many,
         many \subseteq Logs, NEW l \in Logs, AheadOf(l, few) < AheadOf(l, many)
  PROVE  \E k \in many \ few : Selects(k) /\ TimeOf[k] >= TimeOf[l]
<1>1. Newer(l, many) # Newer(l, few)
  <2>1. AheadOf(l, few) \in Nat
    BY NewerGrows
  <2> QED BY <2>1 DEF AheadOf
<1>2. PICK k \in many : k \notin few /\ Selects(k) /\ TimeOf[k] > TimeOf[l]
  BY <1>1 DEF Newer
<1>3. TimeOf[k] \in Nat /\ TimeOf[l] \in Nat
  BY LogsAssumption
<1> QED BY <1>2, <1>3

LEMMA RepeatStep == StateInv /\ StateInv' /\ RepeatInv /\ [Next]_vars => RepeatInv'
<1> SUFFICES ASSUME StateInv, StateInv', RepeatInv, [Next]_vars PROVE RepeatInv'
  OBVIOUS
<1>1. ASSUME NEW b \in Batches, StoreBatch(b) PROVE RepeatInv'
  <2>1. stored \subseteq stored' /\ UNCHANGED <<query, offset, pc, pages, known>>
    BY <1>1 DEF StoreBatch
  <2>2. /\ \A l : Selects(l)' <=> Selects(l)
        /\ Received' = Received
    BY <2>1 DEF Selects, Received
  <2>3. \A l, p : AheadOf(l, known[p])' = AheadOf(l, known[p])
    BY <2>1 DEF AheadOf, Newer, Selects
  <2>4. \A p \in DOMAIN pages : \A l : IsIn(l, pages[p]) => l \in stored
    BY DEF StateInv
  <2>5. RepeatsHaveAReason'
    BY <2>1, <2>2, <2>4 DEF RepeatInv, RepeatsHaveAReason
  <2> QED BY <2>1, <2>2, <2>3, <2>5 DEF RepeatInv
<1>2. CASE Refuse
  <2>1. pages = << >> /\ pages' = pages
    BY <1>2 DEF Refuse, StateInv
  <2>2. DOMAIN pages' = {}
    BY <2>1
  <2> QED BY <2>2 DEF RepeatInv, RepeatsHaveAReason
<1>3. CASE Page
  <2>1. PICK page \in Seq(Logs) :
           /\ pages' = Append(pages, page) /\ known' = Append(known, stored)
           /\ UNCHANGED <<stored, query>>
           /\ Received \in Nat /\ Received' \in Nat /\ Received <= Received'
           /\ \A l : IsIn(l, page) => l \in stored /\ Selects(l)
           /\ \A l \in stored : Selects(l) /\ ~SharesItsTime(l, stored) =>
                /\ AheadOf(l, stored) \in Nat
                /\ IsIn(l, page) <=> AheadOf(l, stored) \in Received .. Received' - 1
    BY <1>3, PageStep
  <2>2. /\ DOMAIN pages' = DOMAIN pages \cup {Len(pages) + 1}
        /\ \A j \in DOMAIN pages : pages'[j] = pages[j]
        /\ pages'[Len(pages) + 1] = page
        /\ DOMAIN pages = 1 .. Len(pages) /\ Len(pages) \in Nat
    BY <2>1, Appended DEF StateInv, TypeOK
  <2>3. /\ \A j \in DOMAIN pages : known'[j] = known[j]
        /\ known'[Len(pages) + 1] = stored
    BY <2>1, <2>2, Appended DEF StateInv, TypeOK
  <2>4. /\ \A l : Selects(l)' <=> Selects(l)
        /\ \A l, p : AheadOf(l, known'[p]) = AheadOf(l, known[p])'
    BY <2>1 DEF Selects, AheadOf, Newer
  <2>5. ASSUME NEW l, IsIn(l, page), ~SharesItsTime(l, stored)
        PROVE  /\ AheadOf(l, stored) \in Nat
               /\ Received <= AheadOf(l, stored) /\ AheadOf(l, stored) < Received'
    BY <2>1, <2>5
  <2>6. ASSUME NEW p \in DOMAIN pages, NEW l, IsIn(l, pages[p]), ~SharesItsTime(l, known[p])
        PROVE  /\ AheadOf(l, known[p]) \in Nat
               /\ AheadOf(l, known[p]) < Received /\ AheadOf(l, known[p]) < Received'
    <3>1. IsFiniteSet(known[p])
      BY DEF StateInv
    <3>2. AheadOf(l, known[p]) \in Nat
      BY <3>1, NewerGrows
    <3> QED BY <2>1, <2>6, <3>2 DEF RepeatInv
  <2>7. ASSUME NEW p \in DOMAIN pages', NEW l, IsIn(l, pages'[p]), ~SharesItsTime(l, known'[p])
        PROVE  AheadOf(l, known'[p]) < Received'
    BY <2>2, <2>3, <2>5, <2>6, <2>7
  <2>8. ASSUME NEW p \in DOMAIN pages', NEW q \in DOMAIN pages', NEW l \in stored, p < q,
               IsIn(l, pages'[p]), IsIn(l, pages'[q])
        PROVE  \/ \E k \in known'[q] \ known'[p] : Selects(k) /\ TimeOf[k] >= TimeOf[l]
               \/ SharesItsTime(l, known'[q])
    <3>1. p \in DOMAIN pages
      BY <2>2, <2>8
    <3>2. CASE q \in DOMAIN pages
      BY <2>2, <2>3, <2>8, <3>1, <3>2 DEF RepeatInv, RepeatsHaveAReason
    <3>3. CASE q = Len(pages) + 1 /\ ~SharesItsTime(l, stored)
      <4>1. IsIn(l, pages[p]) /\ IsIn(l, page) /\ known'[p] = known[p] /\ known'[q] = stored
        BY <2>2, <2>3, <2>8, <3>1, <3>3
      <4>2. /\ known[p] \subseteq stored /\ IsFiniteSet(known[p]) /\ IsFiniteSet(stored)
            /\ stored \subseteq Logs
        BY <3>1 DEF StateInv, TypeOK
      <4>3. ~SharesItsTime(l, known[p])
        BY <3>3, <4>2 DEF SharesItsTime
      <4>4. AheadOf(l, known[p]) < AheadOf(l, stored)
        BY <2>1, <2>5, <2>6, <3>1, <3>3, <4>1, <4>3
      <4> QED BY <4>1, <4>2, <4>4, Overtaken
    <3>4. CASE q = Len(pages) + 1 /\ SharesItsTime(l, stored)
      BY <2>3, <3>4
    <3> QED BY <2>2, <3>2, <3>3, <3>4
  <2>9. RepeatsHaveAReason'
    BY <2>1, <2>4, <2>8 DEF RepeatsHaveAReason
  <2> QED BY <2>4, <2>7, <2>9 DEF RepeatInv
<1>4. CASE UNCHANGED vars
  BY <1>4 DEF vars, RepeatInv, RepeatsHaveAReason, Selects, Received, AheadOf, Newer
<1> QED BY <1>1, <1>2, <1>3, <1>4 DEF Next

\* A log that is on two pages was pushed back by one that was stored in between and is not
\* older, or it shares its time with another.
THEOREM RepeatsAreExplained == Spec => []RepeatsHaveAReason
<1>1. Init => StateInv /\ RepeatInv
  BY StateInit, RepeatInit
<1>2. StateInv /\ RepeatInv /\ [Next]_vars => (StateInv /\ RepeatInv)'
  BY StateStep, RepeatStep
<1>3. RepeatInv => RepeatsHaveAReason
  BY DEF RepeatInv
<1> QED BY <1>1, <1>2, <1>3, PTL DEF Spec
===============================================================================

--------------------------- MODULE BlockedScanProofs ---------------------------
(* Theorems about BlockedScan, for batches of any length. *)
EXTENDS BlockedScan, TLAPS

LEMMA KeyAppended ==
  ASSUME NEW seq \in Seq(IPs), NEW ip \in IPs
  PROVE  /\ Append(seq, ip) \in Seq(IPs)
         /\ Len(seq) \in Nat /\ Len(Append(seq, ip)) = Len(seq) + 1
         /\ DOMAIN seq = 1 .. Len(seq)
         /\ DOMAIN Append(seq, ip) = 1 .. Len(seq) + 1
         /\ \A n \in DOMAIN seq : Append(seq, ip)[n] = seq[n]
         /\ Append(seq, ip)[Len(seq) + 1] = ip
OBVIOUS

LEMMA ScoreType == ASSUME NEW log \in RawLogs PROVE Score(log) \in Nat
BY DEF RawLogs, Score

\* What a step of the loop does, whichever IP the log blocks.
LEMMA Steps ==
  ASSUME Next
  PROVE  /\ i < Len(logs) /\ i' = i + 1 /\ logs' = logs
         /\ Skip \/ \E ip \in IPs : Take(ip)
BY DEF Next

-----------------------------------------------------------------------------
(* Types. *)

LEMMA TypeInit == Init => TypeOK
BY BatchesAssumption DEF Init, TypeOK

LEMMA TypeStep == TypeOK /\ [Next]_vars => TypeOK'
<1> SUFFICES ASSUME TypeOK, [Next]_vars PROVE TypeOK'
  OBVIOUS
<1>1. CASE Next
  <2>1. /\ i \in Nat /\ i' \in 0 .. Len(logs') /\ logs' \in Seq(RawLogs)
        /\ i' = i + 1 /\ 0 .. i \subseteq 0 .. i'
    BY <1>1, Steps DEF TypeOK
  <2>2. CASE Skip
    BY <2>1, <2>2 DEF Skip, TypeOK
  <2>3. ASSUME NEW ip \in IPs, Take(ip) PROVE TypeOK'
    <3>1. blocked' = [blocked EXCEPT ![ip] = i + 1]
      BY <2>3 DEF Take
    <3>2. blocked' \in [IPs -> 0 .. i']
      BY <2>1, <3>1 DEF TypeOK
    <3>3. order' \in Seq(IPs)
      BY <2>3, KeyAppended DEF Take, TypeOK
    <3> QED BY <2>1, <3>2, <3>3 DEF TypeOK
  <2> QED BY <1>1, <2>2, <2>3, Steps
<1>2. CASE UNCHANGED vars
  BY <1>2 DEF vars, TypeOK
<1> QED BY <1>1, <1>2

\* Every variable keeps its type.
THEOREM TypeCorrect == Spec => []TypeOK
BY TypeInit, TypeStep, PTL DEF Spec

-----------------------------------------------------------------------------
(* The best log of each IP. *)

LEMMA BestInit == Init => BestLogWins
<1> SUFFICES ASSUME Init, NEW ip \in IPs PROVE blocked[ip] = 0 /\ 1 .. i = {}
  BY DEF BestLogWins
<1> QED BY DEF Init

\* The log at i + 1 joins those that have been handled.
LEMMA BestKept ==
  ASSUME TypeOK, BestLogWins, Next, NEW ip \in IPs, blocked'[ip] = blocked[ip],
         Blocks(logs[i + 1], ip) =>
           blocked[ip] # 0 /\ ~Replaces(logs[i + 1], logs[blocked[ip]])
  PROVE  IF blocked'[ip] = 0 THEN \A k \in 1 .. i + 1 : ~Blocks(logs[k], ip)
         ELSE Winner(ip, i + 1, blocked'[ip])
<1>1. i \in Nat /\ 1 .. i + 1 = 1 .. i \cup {i + 1} /\ i + 1 \in DOMAIN logs
  BY Steps DEF TypeOK
<1>2. CASE blocked[ip] = 0
  BY <1>1, <1>2 DEF BestLogWins
<1>3. CASE blocked[ip] # 0
  <2>1. /\ blocked[ip] \in 1 .. i /\ blocked[ip] \in DOMAIN logs
        /\ Winner(ip, i, blocked[ip])
    BY <1>1, <1>3 DEF BestLogWins, TypeOK
  <2>2. Score(logs[i + 1]) \in Nat /\ Score(logs[blocked[ip]]) \in Nat
    BY <1>1, <2>1, ScoreType DEF TypeOK
  <2>3. Blocks(logs[i + 1], ip) => Score(logs[i + 1]) <= Score(logs[blocked[ip]])
    BY <2>2 DEF Replaces
  <2>4. ~(i + 1 < blocked[ip])
    BY <1>1, <2>1
  <2> QED BY <1>1, <1>3, <2>1, <2>3, <2>4 DEF Winner
<1> QED BY <1>2, <1>3

\* The log at i + 1 is taken: it beats all those before it.
LEMMA BestTaken ==
  ASSUME TypeOK, BestLogWins, Next, NEW ip \in IPs, Take(ip)
  PROVE  blocked'[ip] # 0 /\ Winner(ip, i + 1, blocked'[ip])
<1>1. i \in Nat /\ 1 .. i + 1 = 1 .. i \cup {i + 1} /\ i + 1 \in DOMAIN logs
  BY Steps DEF TypeOK
<1>2. blocked'[ip] = i + 1 /\ Blocks(logs[i + 1], ip)
  BY DEF Take, TypeOK
<1>3. ASSUME NEW k \in 1 .. i, Blocks(logs[k], ip)
      PROVE  Score(logs[k]) < Score(logs[i + 1])
  <2>1. /\ blocked[ip] \in 1 .. i /\ Winner(ip, i, blocked[ip])
    BY <1>1, <1>3 DEF BestLogWins, TypeOK
  <2>2. k \in DOMAIN logs /\ blocked[ip] \in DOMAIN logs
    BY <1>1, <2>1 DEF TypeOK
  <2>3. /\ Score(logs[i + 1]) \in Nat /\ Score(logs[blocked[ip]]) \in Nat
        /\ Score(logs[k]) \in Nat
    BY <1>1, <2>2, ScoreType DEF TypeOK
  <2>4. Score(logs[k]) <= Score(logs[blocked[ip]])
    BY <1>3, <2>1 DEF Winner
  <2>5. Score(logs[i + 1]) > Score(logs[blocked[ip]])
    BY <2>1 DEF Take, Replaces
  <2> QED BY <2>3, <2>4, <2>5
<1>4. Score(logs[i + 1]) \in Nat
  BY <1>1, ScoreType DEF TypeOK
<1>5. \A k \in 1 .. i : k \in DOMAIN logs /\ Score(logs[k]) \in Nat
  <2>1. \A k \in 1 .. i : k \in DOMAIN logs
    BY <1>1 DEF TypeOK
  <2> QED BY <2>1, ScoreType DEF TypeOK
<1>6. Winner(ip, i + 1, i + 1)
  BY <1>1, <1>2, <1>3, <1>4, <1>5 DEF Winner
<1> QED BY <1>1, <1>2, <1>6

LEMMA BestStep == TypeOK /\ BestLogWins /\ [Next]_vars => BestLogWins'
<1> SUFFICES ASSUME TypeOK, BestLogWins, [Next]_vars PROVE BestLogWins'
  OBVIOUS
<1>1. CASE Next
  <2>1. ASSUME NEW ip \in IPs
        PROVE  IF blocked'[ip] = 0 THEN \A k \in 1 .. i + 1 : ~Blocks(logs[k], ip)
               ELSE Winner(ip, i + 1, blocked'[ip])
    <3>1. CASE Skip
      BY <1>1, <3>1, BestKept DEF Skip
    <3>2. CASE Take(ip)
      BY <1>1, <3>2, BestTaken
    <3>3. ASSUME NEW other \in IPs, Take(other), other # ip
          PROVE  blocked'[ip] = blocked[ip] /\ ~Blocks(logs[i + 1], ip)
      BY <3>3 DEF Take, Blocks, TypeOK
    <3> QED BY <1>1, <3>1, <3>2, <3>3, BestKept, Steps
  <2>2. i' = i + 1 /\ logs' = logs
    BY <1>1, Steps
  <2> QED BY <2>1, <2>2 DEF BestLogWins, Winner
<1>2. CASE UNCHANGED vars
  BY <1>2 DEF vars, BestLogWins, Winner
<1> QED BY <1>1, <1>2

\* For a batch of any length, the entry of each IP is made from the earliest of its blocked
\* logs with the highest score, and an IP without a blocked log gets none.
THEOREM EarliestBestWins == Spec => []BestLogWins
<1>1. Init => TypeOK /\ BestLogWins
  BY TypeInit, BestInit
<1>2. TypeOK /\ BestLogWins /\ [Next]_vars => (TypeOK /\ BestLogWins)'
  BY TypeStep, BestStep
<1> QED BY <1>1, <1>2, PTL DEF Spec

-----------------------------------------------------------------------------
(* The order of the keys. *)

\* The log at k is the first to block one of the keys from the n-th on, and blocks that key.
BlockedFirst(n, k) ==
  /\ Blocks(logs[k], order[n])
  /\ \A j \in 1 .. (k - 1), m \in n .. Len(order) : ~Blocks(logs[j], order[m])

\* The dict lists the IPs that have a log in it, and no key was blocked before the ones that
\* stand in front of it.
OrderInv ==
  /\ \A ip \in IPs : blocked[ip] # 0 <=> \E n \in DOMAIN order : order[n] = ip
  /\ \A n \in DOMAIN order : \E k \in 1 .. i : BlockedFirst(n, k)

LEMMA OrderInit == Init => OrderInv
BY DEF Init, OrderInv

\* A key that is met for the first time goes to the end of the dict.
LEMMA KeyAdded ==
  ASSUME TypeOK, BestLogWins, OrderInv, Next,
         NEW ip \in IPs, Take(ip), blocked[ip] = 0
  PROVE  OrderInv'
<1> DEFINE l == Len(order)
<1>1. /\ i \in Nat /\ i' = i + 1 /\ logs' = logs /\ order \in Seq(IPs)
      /\ blocked' = [blocked EXCEPT ![ip] = i + 1] /\ order' = Append(order, ip)
      /\ Blocks(logs[i + 1], ip)
  BY Steps DEF Take, TypeOK
<1>2. /\ l \in Nat /\ Len(order') = l + 1 /\ DOMAIN order = 1 .. l
      /\ DOMAIN order' = 1 .. l + 1 /\ order'[l + 1] = ip
      /\ \A n \in 1 .. l : order'[n] = order[n]
  BY <1>1, KeyAppended
<1>3. \A k \in 1 .. i : ~Blocks(logs[k], ip)
  BY DEF BestLogWins
<1>4. \A other \in IPs : blocked'[other] # 0 <=> \E n \in DOMAIN order' : order'[n] = other
  <2>1. \A other \in IPs : blocked'[other] # 0 <=> blocked[other] # 0 \/ other = ip
    BY <1>1 DEF TypeOK
  <2>2. 1 .. l + 1 = 1 .. l \cup {l + 1}
    BY <1>2
  <2>3. \A other \in IPs : (\E n \in DOMAIN order' : order'[n] = other)
                             <=> (\E n \in DOMAIN order : order[n] = other) \/ other = ip
    BY <1>2, <2>2
  <2> QED BY <2>1, <2>3 DEF OrderInv
<1>5. ASSUME NEW n \in DOMAIN order' PROVE \E k \in 1 .. i' : BlockedFirst(n, k)'
  <2> HIDE DEF l
  <2>1. CASE n = l + 1
    <3>1. /\ i + 1 \in 1 .. i' /\ Blocks(logs'[i + 1], order'[n])
          /\ \A j \in 1 .. ((i + 1) - 1), m \in n .. Len(order') : ~Blocks(logs'[j], order'[m])
      BY <1>1, <1>2, <1>3, <2>1
    <3>2. \A k : k = i + 1 => BlockedFirst(n, k)'
      BY <3>1 DEF BlockedFirst
    <3> QED BY <3>1, <3>2
  <2>2. CASE n \in 1 .. l
    <3>1. PICK k \in 1 .. i : BlockedFirst(n, k)
      BY <1>2, <2>2 DEF OrderInv
    <3>2. Blocks(logs'[k], order'[n])
      BY <1>1, <1>2, <2>2, <3>1 DEF BlockedFirst
    <3>3. ASSUME NEW j \in 1 .. (k - 1), NEW m \in n .. Len(order')
          PROVE  ~Blocks(logs'[j], order'[m])
      <4>1. j \in 1 .. i
        BY <1>1
      <4>2. m \in 1 .. l + 1
        BY <1>2, <2>2
      <4>3. CASE m = l + 1
        BY <1>1, <1>2, <1>3, <4>1, <4>3
      <4>4. CASE m \in n .. l
        <5>1. ~Blocks(logs[j], order[m])
          BY <3>1, <4>4 DEF BlockedFirst, l
        <5> QED BY <1>1, <1>2, <2>2, <4>4, <5>1
      <4> QED BY <1>2, <2>2, <4>2, <4>3, <4>4
    <3>4. k \in 1 .. i'
      BY <1>1
    <3> QED BY <3>2, <3>3, <3>4 DEF BlockedFirst
  <2>3. n = l + 1 \/ n \in 1 .. l
    BY <1>2
  <2> QED BY <2>1, <2>2, <2>3
<1> QED BY <1>4, <1>5 DEF OrderInv

LEMMA OrderStep == TypeOK /\ BestLogWins /\ OrderInv /\ [Next]_vars => OrderInv'
<1> SUFFICES ASSUME TypeOK, BestLogWins, OrderInv, [Next]_vars PROVE OrderInv'
  OBVIOUS
<1>1. ASSUME Next, order' = order,
             \A ip \in IPs : blocked'[ip] # 0 <=> blocked[ip] # 0
      PROVE  OrderInv'
  <2>1. i \in Nat /\ i' = i + 1 /\ logs' = logs /\ 1 .. i \subseteq 1 .. i'
    BY <1>1, Steps DEF TypeOK
  <2>2. \A n, k : BlockedFirst(n, k) => BlockedFirst(n, k)'
    BY <1>1, <2>1 DEF BlockedFirst
  <2> QED BY <1>1, <2>1, <2>2 DEF OrderInv
<1>2. CASE Next
  <2>1. CASE Skip
    BY <1>1, <1>2, <2>1 DEF Skip
  <2>2. ASSUME NEW ip \in IPs, Take(ip), blocked[ip] # 0 PROVE OrderInv'
    <3>1. /\ order' = order /\ blocked' = [blocked EXCEPT ![ip] = i + 1]
          /\ i + 1 # 0
      BY <2>2 DEF Take, TypeOK
    <3>2. \A other \in IPs : blocked'[other] # 0 <=> blocked[other] # 0
      BY <2>2, <3>1 DEF TypeOK
    <3> QED BY <1>1, <1>2, <3>1, <3>2
  <2> QED BY <1>2, <2>1, <2>2, KeyAdded, Steps
<1>3. CASE UNCHANGED vars
  BY <1>3 DEF vars, OrderInv, BlockedFirst
<1> QED BY <1>2, <1>3

\* When every log is handled, the keys from the n-th on are first blocked by a log of the n-th.
LEMMA FirstIsNext ==
  ASSUME TypeOK, OrderInv, i = Len(logs), NEW n \in DOMAIN order, NEW ip \in IPs
  PROVE  FirstBlocked(logs, {order[m] : m \in n .. Len(order)}, ip) <=> ip = order[n]
<1> DEFINE rest == {order[m] : m \in n .. Len(order)}
<1>1. /\ DOMAIN logs = 1 .. i /\ i \in Nat /\ DOMAIN order = 1 .. Len(order)
      /\ Len(order) \in Nat /\ n \in n .. Len(order)
  BY DEF TypeOK
<1>2. PICK k \in 1 .. i : BlockedFirst(n, k)
  BY DEF OrderInv
<1>3. ASSUME ip = order[n] PROVE FirstBlocked(logs, rest, ip)
  BY <1>1, <1>2, <1>3 DEF FirstBlocked, BlockedFirst
<1>4. ASSUME FirstBlocked(logs, rest, ip) PROVE ip = order[n]
  <2>1. PICK f \in DOMAIN logs : /\ Blocks(logs[f], ip)
                                 /\ \A j \in 1 .. (f - 1), other \in rest : ~Blocks(logs[j], other)
    BY <1>4 DEF FirstBlocked
  <2>2. ip \in rest /\ order[n] \in rest
    BY <1>1, <1>4 DEF FirstBlocked
  <2>3. k \notin 1 .. (f - 1)
    BY <1>2, <2>1, <2>2 DEF BlockedFirst
  <2>4. f \notin 1 .. (k - 1)
    BY <1>2, <2>1, <2>2 DEF BlockedFirst
  <2>5. f = k
    BY <1>1, <2>3, <2>4
  <2> QED BY <1>2, <2>1, <2>5 DEF BlockedFirst, Blocks
<1> QED BY <1>3, <1>4

LEMMA KeysAreBlocked ==
  ASSUME TypeOK, BestLogWins, OrderInv, i = Len(logs)
  PROVE  {order[n] : n \in DOMAIN order} = BlockedIPs(logs)
<1>1. DOMAIN logs = 1 .. i /\ \A n \in DOMAIN order : order[n] \in IPs
  BY DEF TypeOK
<1>2. \A ip \in IPs : blocked[ip] # 0 <=> \E k \in 1 .. i : Blocks(logs[k], ip)
  BY DEF BestLogWins, Winner
<1> QED BY <1>1, <1>2 DEF OrderInv, BlockedIPs

\* For a batch of any length, the dict lists each blocked IP once and the second loop of
\* _auto_blacklist, which follows the dict, meets the IPs as FirstBlocked picks them: the
\* order that LogIngest takes for granted.
THEOREM DictOrderIsFirstBlocked == Spec => []OrderIsFirstBlocked
<1>1. Init => TypeOK /\ BestLogWins /\ OrderInv
  BY TypeInit, BestInit, OrderInit
<1>2. TypeOK /\ BestLogWins /\ OrderInv /\ [Next]_vars => (TypeOK /\ BestLogWins /\ OrderInv)'
  BY TypeStep, BestStep, OrderStep
<1>3. TypeOK /\ BestLogWins /\ OrderInv => OrderIsFirstBlocked
  BY KeysAreBlocked, FirstIsNext DEF OrderIsFirstBlocked
<1> QED BY <1>1, <1>2, <1>3, PTL DEF Spec
================================================================================

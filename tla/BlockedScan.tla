----------------------------- MODULE BlockedScan -----------------------------
(***************************************************************************)
(* The first loop of _auto_blacklist (app/routes/firewall_logs.py): one    *)
(* pass over the logs of a batch fills a dict that maps each blocked       *)
(* source IP to the log its blacklist entry is made from.  The second loop *)
(* visits the IPs in the order in which the dict got them; LogIngest       *)
(* models that loop and takes the order from FirstBlocked.                 *)
(***************************************************************************)
EXTENDS LogBatch

CONSTANT Batches

ASSUME BatchesAssumption == Batches \subseteq Seq(RawLogs)

VARIABLES
  logs,       \* the batch
  i,          \* how many logs the loop has handled
  blocked,    \* for each IP, the index of its log in the dict; 0 for no key
  order       \* the keys of the dict in the order they were inserted

vars == <<logs, i, blocked, order>>

\* A null score counts as 0.
Score(log) == IF log.selected_score = NoScore THEN 0 ELSE log.selected_score

\* Mutant: of equal scores the later log wins.
ReplacesEqual(log, current) == Score(log) >= Score(current)

\* The log takes the place of the current one for its IP.
Replaces(log, current) == Score(log) > Score(current)

Init ==
  /\ logs \in {b \in Batches : ValidBatch(b)}
  /\ i = 0
  /\ blocked = [ip \in IPs |-> 0]
  /\ order = << >>

\* Mutant: an IP that is met again moves to the end of the dict.
TakeAndReorder(ip) ==
  /\ Blocks(logs[i + 1], ip)
  /\ blocked[ip] # 0 => Replaces(logs[i + 1], logs[blocked[ip]])
  /\ blocked' = [blocked EXCEPT ![ip] = i + 1]
  /\ order' = Append(SelectSeq(order, LAMBDA k : k # ip), ip)

\* The log is blocked and is the first or the best so far of its IP.
Take(ip) ==
  /\ Blocks(logs[i + 1], ip)
  /\ blocked[ip] # 0 => Replaces(logs[i + 1], logs[blocked[ip]])
  /\ blocked' = [blocked EXCEPT ![ip] = i + 1]
  /\ order' = IF blocked[ip] = 0 THEN Append(order, ip) ELSE order

\* The log is not blocked, has no source IP, or is no better.
Skip ==
  /\ \A ip \in IPs : Blocks(logs[i + 1], ip) =>
       blocked[ip] # 0 /\ ~Replaces(logs[i + 1], logs[blocked[ip]])
  /\ UNCHANGED <<blocked, order>>

Next ==
  /\ i < Len(logs)
  /\ i' = i + 1
  /\ Skip \/ \E ip \in IPs : Take(ip)
  /\ UNCHANGED logs

Spec == Init /\ [][Next]_vars

-----------------------------------------------------------------------------
\* Every variable holds a value of its type.
TypeOK ==
  /\ logs \in Seq(RawLogs)
  /\ i \in 0 .. Len(logs)
  /\ blocked \in [IPs -> 0 .. i]
  /\ order \in Seq(IPs)

\* j is the log that the entry for ip has to be made from, among the first n:
\* the first of those with the highest score.
Winner(ip, n, j) ==
  /\ j \in 1 .. n
  /\ Blocks(logs[j], ip)
  /\ \A k \in 1 .. n : Blocks(logs[k], ip) =>
       /\ Score(logs[k]) <= Score(logs[j])
       /\ k < j => Score(logs[k]) < Score(logs[j])

\* After n logs the dict holds, for each source IP with a blocked log among
\* them, the earliest of its blocked logs with the highest score, null counting
\* as 0; it holds no other IP.
BestLogWins ==
  \A ip \in IPs :
    IF blocked[ip] = 0 THEN \A k \in 1 .. i : ~Blocks(logs[k], ip)
    ELSE Winner(ip, i, blocked[ip])

\* At the end the dict lists every blocked IP once, in the order in which
\* FirstBlocked picks them: whatever is left of the list starts with the first
\* of its IPs to be blocked in the batch.
OrderIsFirstBlocked ==
  i = Len(logs) =>
    /\ {order[n] : n \in DOMAIN order} = BlockedIPs(logs)
    /\ \A n \in DOMAIN order :
         LET rest == {order[m] : m \in n .. Len(order)} IN
           \A ip \in IPs : FirstBlocked(logs, rest, ip) <=> ip = order[n]
=============================================================================

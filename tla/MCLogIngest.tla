---------------------------- MODULE MCLogIngest ----------------------------
(* Instances of LogIngest for TLC. *)
EXTENDS LogIngest, TLC

CONSTANTS r1, r2, r3, r4, r5, u1, u2, ip1, ip2, ip3

Log(action, ip, score) == [action |-> action, src_ip |-> ip, selected_score |-> score]

\* Two blocked IPs in either order, with an ambiguous and a null score; the
\* same IP twice beside an unblocked one; an invalid log behind a valid one.
MCBatches ==
  { <<Log("blocked", ip1, 2), Log("blocked", ip2, 1)>>,
    <<Log("blocked", ip2, NoScore), Log("blocked", NoIP, 1), Log("blocked", ip1, 2)>>,
    <<Log("warned", ip2, 1), Log("blocked", ip1, 0), Log("blocked", ip1, 2)>>,
    <<Log("blocked", ip1, 1), Log("blocked", ip2, 3)>> }

\* Scores 0..2: at (0, 1] only score 1 is ambiguous, at (1, 2] only 2.
MCThresholds == {[warn |-> 0, block |-> 1], [warn |-> 1, block |-> 2]}

OneUser == [r \in Requests |-> u1]
TwoUsers == [r \in Requests |-> IF r = r5 THEN u2 ELSE u1]

\* Three transactions can wait for each other in a circle, and two of them.
CrossingBatches ==
  { <<Log("blocked", ip1, 1), Log("blocked", ip2, 1)>>,
    <<Log("blocked", ip2, 1), Log("blocked", ip3, 1), Log("blocked", ip1, 1)>>,
    <<Log("blocked", ip3, 1), Log("blocked", ip1, 1)>> }

OneThreshold == {[warn |-> 0, block |-> 1]}

OneBatch == {<<Log("blocked", ip1, 1)>>}

MCSettings == [u \in Users |-> IF u = u1 THEN [warn |-> 0, block |-> 1] ELSE NoSettings]

MCSymmetry == Permutations(Requests)
SameUserSymmetry == Permutations({r1, r2, r3, r4})
=============================================================================

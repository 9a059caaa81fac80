--------------------------- MODULE MCPushRegistry ---------------------------
(* Instances of PushRegistry for TLC. *)
EXTENDS PushRegistry

CONSTANTS w1, w2, u1, u2, s1, s2, s3, p1, p2

\* Two devices of u1 and one of u2; two entries of u1.
Owners == [x \in Sockets \cup Pushes |-> IF x = s3 THEN u2 ELSE u1]

\* Each device of u1 sends a batch, whose frames go to both.
OneWorker == [x \in Sockets \cup Pushes |-> w1]
OwnHandlers == [p \in Pushes |-> IF p = p1 THEN s1 ELSE s2]

\* The second device of u1 is served by another worker.
TwoWorkers == [x \in Sockets \cup Pushes |-> IF x = s2 THEN w2 ELSE w1]
FirstHandler == [p \in Pushes |-> IF p = p1 THEN s1 ELSE Rest]
=============================================================================

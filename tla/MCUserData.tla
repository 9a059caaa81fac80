----------------------------- MODULE MCUserData -----------------------------
(* Instances of UserData for TLC. *)
EXTENDS UserData, TLC

CONSTANTS a0, r1, r2, r3, e0, e1, n0, n1, n2, p0, p1, p2, short

\* One account exists; the forms collide with it and with each other.
MCInitUsers == (a0 :> [email |-> e0, username |-> n0, password |-> p0])

MCRegistrations ==
  { [email |-> e1, username |-> n1, password |-> p1],
    [email |-> e1, username |-> n2, password |-> p2],
    [email |-> e1, username |-> n0, password |-> p1],
    [email |-> e0, username |-> n1, password |-> short] }

MCCredentials == {[email |-> e0, password |-> p0], [email |-> e1, password |-> p1]}

Update(u, c, n) == [username |-> u, current_password |-> c, new_password |-> n]

MCUpdates ==
  { Update(n1, Nothing, Nothing), Update(Nothing, p0, p1), Update(n2, p0, p2),
    Update(n1, p0, short), Update(Nothing, Nothing, p1) }

CONSTANTS fraction, text, null

\* A threshold, a rate, a switch, and one of the three switches whose columns are NOT
\* NULL.  fraction is a number between 0 and 1/2, 9 is greater than any threshold.
MCFields == {"block_threshold", "flood_pkt_per_sec", "flood_detection", "hulk_model_enabled"}

MCInRange == [block_threshold |-> {0, fraction, 1}, flood_pkt_per_sec |-> {fraction, 1, 2, 9}]

MCColumn ==
  [ block_threshold |-> 0 :> 0 @@ 1 :> 1 @@ 9 :> 9 @@ fraction :> fraction @@ null :> null,
    flood_pkt_per_sec |-> 0 :> 0 @@ 1 :> 1 @@ 2 :> 2 @@ 9 :> 9 @@ fraction :> 0 @@ null :> null,
    flood_detection |-> 0 :> 0 @@ 1 :> 1 @@ null :> null,
    hulk_model_enabled |-> 0 :> 0 @@ 1 :> 1 ]

Body(block, flood, flag, hulk) ==
  [ block_threshold |-> block, flood_pkt_per_sec |-> flood,
    flood_detection |-> flag, hulk_model_enabled |-> hulk ]

\* Requests that name the same field, different fields, a value the row may have
\* already, nulls, a fraction, one bad value beside a good one, and two bad ones.
MCBodies ==
  { Body(0, Nothing, Nothing, Nothing), Body(1, Nothing, Nothing, Nothing),
    Body(Nothing, 2, Nothing, Nothing), Body(fraction, fraction, Nothing, Nothing),
    Body(1, 2, null, 1), Body(Nothing, Nothing, 1, null), Body(9, 2, Nothing, Nothing),
    Body(1, Nothing, text, Nothing), Body(text, 0, 1, Nothing) }

MCDefaults == Body(fraction, 1, 1, 1)

\* The account has its settings, or was made without the API and has none.
MCInitSettings == {a0 :> MCDefaults, << >>}

MCSymmetry == Permutations(Requests)
=============================================================================

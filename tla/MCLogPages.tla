----------------------------- MODULE MCLogPages -----------------------------
(* Instances of LogPages for TLC. *)
EXTENDS LogPages, TLC

\* A batch whose two logs share their time, a log of another action, one that is newer
\* than all others and one that is older.
MCTimeOf == <<3, 3, 4, 5, 2>>
MCActionOf == [l \in 1 .. 5 |-> IF l = 3 THEN "allowed" ELSE "blocked"]
MCBatches == {{1, 2}, {3}, {4}, {5}}

MCTies == {<<1, 2, 3, 4, 5>>, <<2, 1, 3, 4, 5>>, <<5, 4, 3, 2, 1>>}

\* All limits and offsets without filters, and all filters with two limits.
MCQueries ==
  [action : {Absent}, from_date : {Absent}, to_date : {Absent},
   limit : {Absent, Text, 0, 1, 9}, offset : {Absent, Text, -1, 0}]
    \cup [action : {Absent, "blocked"}, from_date : {Absent, 2, Text}, to_date : {Absent, 4},
          limit : {Absent, 1}, offset : {0}]
=============================================================================

---------------------------- MODULE MCBlockedScan ----------------------------
(* All batches of up to four logs that matter, for TLC. *)
EXTENDS BlockedScan

CONSTANTS ip1, ip2, ip3

\* A log that is not blocked is skipped whatever its score.
MCLogs ==
  [action : {"blocked"}, src_ip : {ip1, ip2}, selected_score : {NoScore, 0, 1, 2}]
    \cup [action : {"blocked"}, src_ip : {NoIP, ip3}, selected_score : {1}]
    \cup [action : {"warned"}, src_ip : {ip1}, selected_score : {2}]

MCBatches == UNION {[1 .. n -> MCLogs] : n \in 1 .. 4}
=============================================================================

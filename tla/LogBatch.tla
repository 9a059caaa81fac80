------------------------------ MODULE LogBatch ------------------------------
(***************************************************************************)
(* The firewall logs of a batch and what app/routes/firewall_logs.py reads *)
(* off them: which batches are valid, which source IPs they report as      *)
(* blocked and in which order, which logs are ambiguous.  Of a log only    *)
(* the three fields that decide anything are kept.                         *)
(***************************************************************************)
EXTENDS Integers, Sequences

CONSTANTS
  IPs,            \* texts that ipaddress.ip_address accepts
  NoIP,           \* src_ip null or empty
  MaxScore,       \* scores and thresholds are 0 .. MaxScore, for [0, 1]
  NoScore,        \* selected_score null
  NoSettings      \* the user has no user_settings row

ASSUME NoIPAssumption == NoIP \notin IPs

Scores == 0 .. MaxScore

\* What a client may send; the handlers see logs that are not valid too.
RawLogs == [action : STRING, src_ip : IPs \cup {NoIP, "not an address"},
            selected_score : Nat \cup {NoScore}]

ALLOWED_ACTIONS == {"blocked", "warned", "allowed"}

ValidLog(raw) ==
  /\ raw.action \in ALLOWED_ACTIONS
  /\ raw.src_ip \in IPs \cup {NoIP}
  /\ raw.selected_score \in Scores \cup {NoScore}

ValidBatch(b) == \A i \in DOMAIN b : ValidLog(b[i])

Blocks(log, ip) == log.action = "blocked" /\ log.src_ip = ip

BlockedIPs(b) == {ip \in IPs : \E i \in DOMAIN b : Blocks(b[i], ip)}

\* ip is the first of S to be blocked in b: a dict keeps insertion order.
FirstBlocked(b, S, ip) ==
  /\ ip \in S
  /\ \E i \in DOMAIN b :
       /\ Blocks(b[i], ip)
       /\ \A j \in 1 .. (i - 1), other \in S : ~Blocks(b[j], other)

\* The score lies between the two thresholds of the settings.
Ambiguous(log, t) ==
  /\ log.selected_score # NoScore
  /\ t.warn < log.selected_score
  /\ log.selected_score <= t.block

\* The logs that get an unknown_events row: none without settings.
AmbiguousIn(b, t) == {i \in DOMAIN b : t # NoSettings /\ Ambiguous(b[i], t)}
=============================================================================

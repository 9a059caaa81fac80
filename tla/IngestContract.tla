--------------------------- MODULE IngestContract ---------------------------
(***************************************************************************)
(* What the write path of the blacklist promises, whatever SQL statements  *)
(* it is made of: a request takes effect in one step or not at all.        *)
(* LogIngest implements this specification.                                *)
(***************************************************************************)
EXTENDS LogBatch

CONSTANTS Requests, Users, UserOf, Batches, Thresholds

VARIABLES
  state,              \* "new"; "open": no effect yet; "closed": decided
  logs,               \* the batch of a request, << >> when it has none
  firewall_logs, blacklist_entries, unknown_events,
  gone                \* IPs the user removed since the request began

vars == <<state, logs, firewall_logs, blacklist_entries, unknown_events, gone>>

Listed(u, ip) == \E row \in blacklist_entries : row.user = u /\ row.ip = ip

Init ==
  /\ state = [r \in Requests |-> "new"]
  /\ logs = [r \in Requests |-> << >>]
  /\ firewall_logs = {}
  /\ blacklist_entries = {}
  /\ unknown_events = {}
  /\ gone = [r \in Requests |-> {}]

Close(r) == state' = [state EXCEPT ![r] = "closed"]

\* A request arrives, with a valid batch or for a call of the blacklist API.
Open(r) ==
  /\ state[r] = "new"
  /\ state' = [state EXCEPT ![r] = "open"]
  /\ \/ \E b \in Batches : ValidBatch(b) /\ logs' = [logs EXCEPT ![r] = b]
     \/ UNCHANGED logs
  /\ UNCHANGED <<firewall_logs, blacklist_entries, unknown_events, gone>>

\* A request that is refused at once leaves no trace.
Refuse(r) ==
  /\ state[r] = "new"
  /\ Close(r)
  /\ \/ \E b \in Batches : ~ValidBatch(b) /\ logs' = [logs EXCEPT ![r] = b]
     \/ UNCHANGED logs
  /\ UNCHANGED <<firewall_logs, blacklist_entries, unknown_events, gone>>

\* Rows of r for the IPs of S, none of which the user has on the list.
Enter(r, S) ==
  /\ \A ip \in S : ~Listed(UserOf[r], ip)
  /\ blacklist_entries' =
       blacklist_entries \cup {[by |-> r, user |-> UserOf[r], ip |-> ip] : ip \in S}

\* A batch takes effect: all its logs; the events, judged by one pair of
\* thresholds; and entries so that every blocked IP is listed, except those
\* that the user removed while the request was in progress.
StoreBatch(r) ==
  /\ state[r] = "open"
  /\ logs[r] # << >>
  /\ Close(r)
  /\ firewall_logs' = firewall_logs \cup {<<r, i>> : i \in DOMAIN logs[r]}
  /\ \E t \in Thresholds \cup {NoSettings} :
       unknown_events' = unknown_events \cup {<<r, i>> : i \in AmbiguousIn(logs[r], t)}
  /\ \E S \in SUBSET BlockedIPs(logs[r]) :
       /\ Enter(r, S)
       /\ \A ip \in BlockedIPs(logs[r]) \ S : Listed(UserOf[r], ip) \/ ip \in gone[r]
  /\ UNCHANGED <<logs, gone>>

AddOne(r) ==
  /\ state[r] = "open"
  /\ logs[r] = << >>
  /\ Close(r)
  /\ \E ip \in IPs : Enter(r, {ip})
  /\ UNCHANGED <<logs, firewall_logs, unknown_events, gone>>

\* One entry of the user leaves the list, or all of them at once.
Remove(r) ==
  /\ state[r] # "closed"
  /\ logs[r] = << >>
  /\ Close(r)
  /\ LET own == {row \in blacklist_entries : row.user = UserOf[r]} IN
       \E rows \in {own} \cup {{row} : row \in own} :
         /\ blacklist_entries' = blacklist_entries \ rows
         /\ gone' = [s \in Requests |->
              IF state[s] = "new" \/ UserOf[s] # UserOf[r] THEN gone[s]
              ELSE gone[s] \cup {row.ip : row \in rows}]
  /\ UNCHANGED <<logs, firewall_logs, unknown_events>>

\* An error, a crash, or nothing to do.
GiveUp(r) ==
  /\ state[r] = "open"
  /\ Close(r)
  /\ UNCHANGED <<logs, firewall_logs, blacklist_entries, unknown_events, gone>>

Next ==
  \E r \in Requests :
    \/ Open(r) \/ Refuse(r) \/ StoreBatch(r) \/ AddOne(r) \/ Remove(r) \/ GiveUp(r)

Spec == Init /\ [][Next]_vars
=============================================================================

------------------------------ MODULE WsSession ------------------------------
(***************************************************************************)
(* One connection of /ws/logs: the handler firewall_logs_ws                *)
(* (app/routes/firewall_logs.py), its peer, and the clock.                 *)
(*                                                                         *)
(* The peer's messages wait in the receive buffer of the WebSocket library *)
(* until the handler's loop takes them.  The peer may go away at any time; *)
(* receive() hands out what is buffered even then and raises afterwards,   *)
(* while send() raises at once.  What happens inside _persist_batch is     *)
(* LogIngest; here it succeeds, refuses the batch, or fails.               *)
(***************************************************************************)
EXTENDS Integers, Sequences, FiniteSets

CONSTANTS
  RATE_LIMIT, RATE_WINDOW, IDLE_TIMEOUT,
  Kinds,          \* the kinds of messages the peer sends
  TokenExps,      \* when the access token may expire; 0: it is no valid token
  MaxMsgs,        \* bound: messages sent over the connection
  MaxInbox,       \* bound: messages that wait in the receive buffer
  MaxTime         \* bound: the clock stops here

\* The kinds of messages that the handler tells apart: over 128 KB; not a JSON
\* object; ping; of an unknown type; a log_batch whose logs are no list, or an
\* empty one; more than 100 logs; one invalid log; a valid log_batch.
AllKinds == {"too_big", "malformed", "ping", "other", "no_logs", "too_many", "bad_log",
             "good"}

ASSUME LimitsAssumption ==
  /\ RATE_LIMIT \in Nat \ {0}
  /\ RATE_WINDOW \in Nat \ {0}
  /\ IDLE_TIMEOUT \in Nat \ {0}
ASSUME KindsAssumption == Kinds \subseteq AllKinds
ASSUME TokenExpsAssumption == TokenExps \subseteq Nat
ASSUME BoundsAssumption == MaxMsgs \in Nat /\ MaxInbox \in Nat /\ MaxTime \in Nat

VARIABLES
  now,            \* the clock: time.time() and time.monotonic()
  token_exp,      \* when the token of this connection expires
  connected,      \* the transport is open
  inbox,          \* messages received and not handled
  sent,           \* how many messages the peer has sent
  pc,             \* where the handler is
  since,          \* when it last called receive()
  n,              \* the number of the message it handles
  kind,           \* the kind of that message
  batch_times,    \* the recent log_batch messages: [n, at]
  registered,     \* the socket is in _user_sockets
  frames,         \* replies delivered to the peer: [n, code]
  persisted,      \* messages whose logs are stored
  admitted,       \* history: log_batch messages that passed the rate limit
  refused,        \* history: the one that did not, if any
  ignored         \* history: messages of an unknown type

local == <<since, n, kind, batch_times, registered>>
peer == <<now, token_exp, sent>>
vars == <<now, token_exp, connected, inbox, sent, pc, since, n, kind, batch_times,
          registered, frames, persisted, admitted, refused, ignored>>

Codes == {"pong", "ack", "invalid_log", "batch_too_large", "rate_limited",
          "token_expired", "server_error"}

Init ==
  /\ now = 0
  /\ token_exp \in TokenExps
  /\ connected = TRUE
  /\ inbox = << >>
  /\ sent = 0
  /\ pc = "handshake"
  /\ since = 0
  /\ n = 0
  /\ kind = "other"
  /\ batch_times = {}
  /\ registered = FALSE
  /\ frames = << >>
  /\ persisted = {}
  /\ admitted = {}
  /\ refused = {}
  /\ ignored = {}

-----------------------------------------------------------------------------
(* The peer and the clock. *)

Send(k) ==
  /\ connected
  /\ sent < MaxMsgs
  /\ Len(inbox) < MaxInbox
  /\ sent' = sent + 1
  /\ inbox' = Append(inbox, k)
  /\ UNCHANGED <<now, token_exp, connected, pc, local, frames, persisted, admitted,
                 refused, ignored>>

Disconnect ==
  /\ connected
  /\ connected' = FALSE
  /\ UNCHANGED <<peer, inbox, pc, local, frames, persisted, admitted, refused,
                 ignored>>

Tick ==
  /\ now < MaxTime
  /\ now' = now + 1
  /\ UNCHANGED <<token_exp, connected, inbox, sent, pc, local, frames, persisted,
                 admitted, refused, ignored>>

-----------------------------------------------------------------------------
(* The handler. *)

\* The JWT is checked, and the socket joins the registry.
Accept ==
  /\ pc = "handshake"
  /\ now < token_exp
  /\ pc' = "wait"
  /\ registered' = TRUE
  /\ since' = now
  /\ UNCHANGED <<peer, connected, inbox, n, kind, batch_times, frames, persisted,
                 admitted, refused, ignored>>

RefuseToken ==
  /\ pc = "handshake"
  /\ now >= token_exp
  /\ pc' = "closed"
  /\ connected' = FALSE
  /\ UNCHANGED <<peer, inbox, local, frames, persisted, admitted, refused, ignored>>

\* Mutant: receive() is called without a timeout.
NoTimeout == FALSE

\* The timeout of receive() has passed.
TimedOut == now - since >= IDLE_TIMEOUT

\* receive() returns None: nobody has sent anything for IDLE_TIMEOUT.
Idle ==
  /\ pc = "wait"
  /\ inbox = << >>
  /\ connected
  /\ TimedOut
  /\ pc' = "finally"
  /\ connected' = FALSE
  /\ UNCHANGED <<peer, inbox, local, frames, persisted, admitted, refused, ignored>>

\* receive() raises: the connection is closed and the buffer is empty.
PeerGone ==
  /\ pc = "wait"
  /\ inbox = << >>
  /\ ~connected
  /\ pc' = "finally"
  /\ UNCHANGED <<peer, connected, inbox, local, frames, persisted, admitted, refused,
                 ignored>>

\* Mutant: the token is checked in the handshake alone.
NeverExpires == FALSE

\* Mid-session token expiry.
TokenExpired == now >= token_exp

\* receive() returns the next message; it is not handled with an expired token.
Receive ==
  /\ pc = "wait"
  /\ inbox # << >>
  /\ ~TokenExpired
  /\ inbox' = Tail(inbox)
  /\ n' = n + 1
  /\ kind' = Head(inbox)
  /\ pc' = "handle"
  /\ UNCHANGED <<peer, connected, since, batch_times, registered, frames, persisted,
                 admitted, refused, ignored>>

\* _reject: a last error frame, if it still gets through, and the close frame.
Reject(m, code) ==
  /\ frames' = IF connected THEN Append(frames, [n |-> m, code |-> code]) ELSE frames
  /\ connected' = FALSE
  /\ pc' = "finally"

ExpireToken ==
  /\ pc = "wait"
  /\ inbox # << >>
  /\ TokenExpired
  /\ inbox' = Tail(inbox)
  /\ n' = n + 1
  /\ kind' = Head(inbox)
  /\ Reject(n + 1, "token_expired")
  /\ UNCHANGED <<peer, since, batch_times, registered, persisted, admitted, refused,
                 ignored>>

\* ws.send, and the next turn of the loop; it raises when the peer is gone.
Reply(code) ==
  \/ /\ connected
     /\ frames' = Append(frames, [n |-> n, code |-> code])
     /\ pc' = "wait"
     /\ since' = now
  \/ /\ ~connected
     /\ pc' = "finally"
     /\ UNCHANGED <<frames, since>>

TooBig ==
  /\ pc = "handle"
  /\ kind = "too_big"
  /\ Reject(n, "batch_too_large")
  /\ UNCHANGED <<peer, inbox, local, persisted, admitted, refused, ignored>>

\* Mutant: the loop is left.
MalformedBreaks ==
  /\ pc = "handle"
  /\ kind = "malformed"
  /\ Reject(n, "invalid_log")
  /\ UNCHANGED <<peer, inbox, local, persisted, admitted, refused, ignored>>

Malformed ==
  /\ pc = "handle"
  /\ kind = "malformed"
  /\ Reply("invalid_log")
  /\ UNCHANGED <<peer, connected, inbox, n, kind, batch_times, registered, persisted,
                 admitted, refused, ignored>>

Ping ==
  /\ pc = "handle"
  /\ kind = "ping"
  /\ Reply("pong")
  /\ UNCHANGED <<peer, connected, inbox, n, kind, batch_times, registered, persisted,
                 admitted, refused, ignored>>

Ignore ==
  /\ pc = "handle"
  /\ kind = "other"
  /\ ignored' = ignored \cup {n}
  /\ pc' = "wait"
  /\ since' = now
  /\ UNCHANGED <<peer, connected, inbox, n, kind, batch_times, registered, frames,
                 persisted, admitted, refused>>

IsBatch == kind \in {"no_logs", "too_many", "bad_log", "good"}

\* Mutant: the window is cleared whenever a message falls out of it.
KeptInTumblingWindow ==
  IF \A b \in batch_times : now - b.at < RATE_WINDOW THEN batch_times ELSE {}

\* Mutant: old messages are never forgotten.
KeptForever == batch_times

\* The log_batch messages that are still inside the window.
Kept == {b \in batch_times : now - b.at < RATE_WINDOW}

Stamp == [n |-> n, at |-> now]

\* Mutant: the error is sent and the loop goes on.
RateLimitedGoesOn ==
  /\ pc = "handle"
  /\ IsBatch
  /\ batch_times' = Kept \cup {Stamp}
  /\ Cardinality(batch_times') > RATE_LIMIT
  /\ refused' = {Stamp}
  /\ Reply("rate_limited")
  /\ UNCHANGED <<peer, connected, inbox, n, kind, registered, persisted, admitted,
                 ignored>>

\* The message counts, whether it is then admitted or not.
RateLimited ==
  /\ pc = "handle"
  /\ IsBatch
  /\ batch_times' = Kept \cup {Stamp}
  /\ Cardinality(batch_times') > RATE_LIMIT
  /\ refused' = {Stamp}
  /\ Reject(n, "rate_limited")
  /\ UNCHANGED <<peer, inbox, since, n, kind, registered, persisted, admitted,
                 ignored>>

Admit ==
  /\ pc = "handle"
  /\ IsBatch
  /\ batch_times' = Kept \cup {Stamp}
  /\ Cardinality(batch_times') <= RATE_LIMIT
  /\ admitted' = admitted \cup {Stamp}
  /\ pc' = "batch"
  /\ UNCHANGED <<peer, connected, inbox, since, n, kind, registered, frames,
                 persisted, refused, ignored>>

\* Mutant: a message without logs is dropped like one of an unknown type.
NoLogsIgnored ==
  /\ pc = "batch"
  /\ kind = "no_logs"
  /\ pc' = "wait"
  /\ since' = now
  /\ UNCHANGED <<peer, connected, inbox, n, kind, batch_times, registered, frames,
                 persisted, admitted, refused, ignored>>

NoLogs ==
  /\ pc = "batch"
  /\ kind = "no_logs"
  /\ Reply("invalid_log")
  /\ UNCHANGED <<peer, connected, inbox, n, kind, batch_times, registered, persisted,
                 admitted, refused, ignored>>

TooMany ==
  /\ pc = "batch"
  /\ kind = "too_many"
  /\ Reply("batch_too_large")
  /\ UNCHANGED <<peer, connected, inbox, n, kind, batch_times, registered, persisted,
                 admitted, refused, ignored>>

\* _persist_batch raises ValueError.
BatchInvalid ==
  /\ pc = "batch"
  /\ kind = "bad_log"
  /\ Reply("invalid_log")
  /\ UNCHANGED <<peer, connected, inbox, n, kind, batch_times, registered, persisted,
                 admitted, refused, ignored>>

\* _persist_batch raises anything else; a failed COMMIT may have been carried
\* out nevertheless.
BatchFails ==
  /\ pc = "batch"
  /\ kind = "good"
  /\ persisted' \in {persisted, persisted \cup {n}}
  /\ Reply("server_error")
  /\ UNCHANGED <<peer, connected, inbox, n, kind, batch_times, registered, admitted,
                 refused, ignored>>

\* Mutant: the acknowledgement goes out before the logs are stored.
AckFirst ==
  /\ pc = "batch"
  /\ kind = "good"
  /\ Reply("ack")
  /\ persisted' \in {persisted, persisted \cup {n}}
  /\ UNCHANGED <<peer, connected, inbox, n, kind, batch_times, registered, admitted,
                 refused, ignored>>

Persist ==
  /\ pc = "batch"
  /\ kind = "good"
  /\ persisted' = persisted \cup {n}
  /\ pc' = "ack"
  /\ UNCHANGED <<peer, connected, inbox, local, frames, admitted, refused, ignored>>

SendAck ==
  /\ pc = "ack"
  /\ Reply("ack")
  /\ UNCHANGED <<peer, connected, inbox, n, kind, batch_times, registered, persisted,
                 admitted, refused, ignored>>


Unregister ==
  /\ pc = "finally"
  /\ pc' = "closed"
  /\ registered' = FALSE
  /\ UNCHANGED <<peer, connected, inbox, since, n, kind, batch_times, frames,
                 persisted, admitted, refused, ignored>>

-----------------------------------------------------------------------------
Handler ==
  \/ Accept \/ RefuseToken \/ Idle \/ PeerGone \/ Receive \/ ExpireToken
  \/ TooBig \/ Malformed \/ Ping \/ Ignore \/ RateLimited \/ Admit
  \/ NoLogs \/ TooMany \/ BatchInvalid \/ BatchFails \/ Persist \/ SendAck
  \/ Unregister

Next == Handler \/ Tick \/ Disconnect \/ \E k \in Kinds : Send(k)

Spec == Init /\ [][Next]_vars

\* Time passes and the handler's thread runs; the peer owes nothing.
FairSpec == Spec /\ WF_vars(Handler) /\ WF_vars(Tick)

-----------------------------------------------------------------------------
(* Properties. *)

Stamps == [n : Nat, at : Nat]

\* Every variable holds a value of its type, and the list of recent times stays as
\* short as the rate limit makes it.
TypeOK ==
  /\ now \in Nat
  /\ token_exp \in Nat
  /\ connected \in BOOLEAN
  /\ inbox \in Seq(Kinds)
  /\ sent \in Nat
  /\ pc \in {"handshake", "wait", "handle", "batch", "ack", "finally", "closed"}
  /\ since \in Nat
  /\ n \in Nat
  /\ kind \in AllKinds
  /\ batch_times \subseteq Stamps
  /\ Cardinality(batch_times) <= RATE_LIMIT + 1
  /\ registered \in BOOLEAN
  /\ frames \in Seq([n : Nat, code : Codes])
  /\ persisted \subseteq Nat
  /\ admitted \subseteq Stamps
  /\ refused \subseteq Stamps
  /\ ignored \subseteq Nat

\* The log_batch messages among those of S in the window that ends with c.
Window(S, c) == {b \in S : b.n <= c.n /\ c.at - b.at < RATE_WINDOW}

\* No sliding window of RATE_WINDOW holds more than RATE_LIMIT log_batch messages
\* that were let through: however the peer spaces them and whatever is sent
\* between them, the list of recent times forgets none too soon.
RateBound == \A c \in admitted : Cardinality(Window(admitted, c)) <= RATE_LIMIT

\* A session ends for its rate only when there were more than RATE_LIMIT log_batch
\* messages within RATE_WINDOW: the list of recent times forgets the older ones.
NoFalseAlarm ==
  \A c \in refused : Cardinality(Window(admitted \cup refused, c)) > RATE_LIMIT

\* Once the token has expired no further message is acted upon, however long the
\* session was open and the message waited: the first one taken from the buffer
\* ends the session, and a peer that is still there learns why.
ExpiryEndsSession ==
  [][now >= token_exp /\ n' # n =>
       /\ pc' = "finally"
       /\ UNCHANGED <<admitted, refused, persisted>>
       /\ connected => frames' = Append(frames, [n |-> n', code |-> "token_expired"])]_vars

Answerable == (1 .. n) \ ignored

\* Replies carry no message number, so the peer matches them by their order: the
\* j-th reply answers the j-th message that is not of an unknown type.
RepliesMatchMessages ==
  \A j \in DOMAIN frames :
    /\ frames[j].n \in Answerable
    /\ Cardinality({m \in Answerable : m <= frames[j].n}) = j

Told(m, codes) == \E j \in DOMAIN frames : frames[j].n = m /\ frames[j].code \in codes

\* Logs are acknowledged only when they are stored; stored logs that the peer was
\* told nothing of are those of the last message before the session ends.
AckedAreStored ==
  /\ \A m \in 1 .. n : Told(m, {"ack"}) => m \in persisted
  /\ \A m \in persisted : Told(m, {"ack", "server_error"}) \/ m = n
  /\ \A m \in 1 .. n : Told(m, Codes \ {"ack", "server_error"}) => m \notin persisted

\* The message that was taken from the inbox is not dealt with yet.
InHand == pc \in {"handle", "batch", "ack"}

\* What the peer can tell: the message in hand is one that waits still, and its logs are
\* not stored before it is answered.
SessionState ==
  CASE pc = "handshake" -> "new"
    [] pc \in {"wait", "handle", "batch", "ack"} -> "open"
    [] pc \in {"finally", "closed"} -> "closed"

Waiting == IF InHand THEN <<kind>> \o inbox ELSE inbox

Handled == IF InHand THEN n - 1 ELSE n

Counted == {b \in admitted \cup refused : b.n <= Handled}

Stored == IF pc = "ack" THEN persisted \ {n} ELSE persisted

Contract == INSTANCE SessionContract WITH
  state <- SessionState, queue <- Waiting, n <- Handled, counted <- Counted,
  stored <- Stored

\* To the peer each message is dealt with in one step: with its reply, its logs and its
\* place in the rate window, whatever comes, goes or expires meanwhile.
ImplementsSession == Contract!Spec


\* A peer that falls silent does not keep its socket registered: within the time
\* that is left on the clock another message comes or the session ends.
SilenceEnds ==
  (pc = "wait" /\ inbox = << >> /\ now + IDLE_TIMEOUT <= MaxTime)
    ~> (inbox # << >> \/ ~registered)
=============================================================================

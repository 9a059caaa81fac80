---------------------------- MODULE SessionContract ----------------------------
(***************************************************************************)
(* What a peer of /ws/logs may rely on, whatever the handler does between  *)
(* two messages: each message is dealt with in one step, in the order in   *)
(* which they were sent, with its reply, its logs and its place in the     *)
(* rate window, or it is the last one.  WsSession implements this          *)
(* specification.                                                          *)
(***************************************************************************)
EXTENDS Integers, Sequences, FiniteSets

CONSTANTS RATE_LIMIT, RATE_WINDOW, Kinds, TokenExps

VARIABLES
  now, token_exp,
  state,          \* "new", "open" or "closed"
  connected,      \* the peer can be reached
  queue,          \* the messages that have not been dealt with
  n,              \* how many messages have been
  since,          \* when the last one was
  counted,        \* the log_batch messages among them: [n, at]
  frames,         \* replies: [n, code]
  stored          \* messages whose logs are stored

vars == <<now, token_exp, state, connected, queue, n, since, counted, frames, stored>>

Init ==
  /\ now = 0
  /\ token_exp \in TokenExps
  /\ state = "new"
  /\ connected = TRUE
  /\ queue = << >>
  /\ n = 0
  /\ since = 0
  /\ counted = {}
  /\ frames = << >>
  /\ stored = {}

(* Time and the peer. *)

Tick ==
  /\ now' = now + 1
  /\ UNCHANGED <<token_exp, state, connected, queue, n, since, counted, frames, stored>>

Arrive(k) ==
  /\ connected
  /\ queue' = Append(queue, k)
  /\ UNCHANGED <<now, token_exp, state, connected, n, since, counted, frames, stored>>

Vanish ==
  /\ connected
  /\ connected' = FALSE
  /\ UNCHANGED <<now, token_exp, state, queue, n, since, counted, frames, stored>>

(* The session. *)

Open ==
  /\ state = "new"
  /\ now < token_exp
  /\ state' = "open"
  /\ since' = now
  /\ UNCHANGED <<now, token_exp, connected, queue, n, counted, frames, stored>>

Refuse ==
  /\ state = "new"
  /\ now >= token_exp
  /\ state' = "closed"
  /\ connected' = FALSE
  /\ UNCHANGED <<now, token_exp, queue, n, since, counted, frames, stored>>

\* A session in which nothing is left to be dealt with may end.
End ==
  /\ state = "open"
  /\ queue = << >>
  /\ state' = "closed"
  /\ connected' = FALSE
  /\ UNCHANGED <<now, token_exp, queue, n, since, counted, frames, stored>>

\* The next message has been dealt with.
Dealt ==
  /\ state = "open"
  /\ queue # << >>
  /\ queue' = Tail(queue)
  /\ n' = n + 1
  /\ UNCHANGED <<now, token_exp>>

\* The token was valid when the message could first be taken.
InTime == since < token_exp

Batches == {"no_logs", "too_many", "bad_log", "good"}

\* A log_batch that arrives at t has RATE_LIMIT others before it in the window.
Exceeds(t) == Cardinality({b \in counted : t - b.at < RATE_WINDOW}) >= RATE_LIMIT

Count(t) == counted' = counted \cup {[n |-> n + 1, at |-> t]}

\* The rate is judged by all log_batch messages of the session, at some time while this
\* one is dealt with.
CountIfBatch(k) ==
  IF k \in Batches THEN \E t \in since .. now : ~Exceeds(t) /\ Count(t)
  ELSE UNCHANGED counted

\* What a message of kind k is answered with.
Answers(k) ==
  CASE k = "ping" -> {"pong"}
    [] k \in {"malformed", "no_logs", "bad_log"} -> {"invalid_log"}
    [] k = "too_many" -> {"batch_too_large"}
    [] k = "good" -> {"ack", "server_error"}
    [] OTHER -> {}

Tell(code) == frames' = Append(frames, [n |-> n + 1, code |-> code])

\* Logs are stored before they are acknowledged; after an error they may be.
Store(code) ==
  \/ code \in {"ack", "server_error"} /\ stored' = stored \cup {n + 1}
  \/ code # "ack" /\ stored' = stored

\* The message is answered, and the session goes on.
Answer ==
  /\ Dealt
  /\ connected
  /\ InTime
  /\ CountIfBatch(Head(queue))
  /\ \E code \in Answers(Head(queue)) : Tell(code) /\ Store(code)
  /\ since' = now
  /\ UNCHANGED <<state, connected>>

\* A message of an unknown type has no reply.
Ignore ==
  /\ Dealt
  /\ InTime
  /\ Head(queue) = "other"
  /\ since' = now
  /\ UNCHANGED <<state, connected, counted, frames, stored>>

\* The peer is gone before it is answered: the last message is carried out all the same.
Lose ==
  /\ Dealt
  /\ ~connected
  /\ InTime
  /\ CountIfBatch(Head(queue))
  /\ \E code \in Answers(Head(queue)) : Store(code)
  /\ state' = "closed"
  /\ UNCHANGED <<connected, since, frames>>

\* Why a message is refused, and the session with it.
Fatal(k, code) ==
  \/ code = "token_expired" /\ now >= token_exp /\ UNCHANGED counted
  \/ code = "batch_too_large" /\ InTime /\ k = "too_big" /\ UNCHANGED counted
  \/ /\ code = "rate_limited" /\ InTime /\ k \in Batches
     /\ \E t \in since .. now : Exceeds(t) /\ Count(t)

\* A message that ends the session is not carried out; the peer, if there is one, is told.
Reject ==
  /\ Dealt
  /\ \E code \in {"token_expired", "batch_too_large", "rate_limited"} :
       /\ Fatal(Head(queue), code)
       /\ IF connected THEN Tell(code) ELSE UNCHANGED frames
  /\ state' = "closed"
  /\ connected' = FALSE
  /\ UNCHANGED <<since, stored>>

Next ==
  \/ Tick \/ Vanish \/ \E k \in Kinds : Arrive(k)
  \/ Open \/ Refuse \/ End \/ Answer \/ Ignore \/ Lose \/ Reject

Spec == Init /\ [][Next]_vars
================================================================================

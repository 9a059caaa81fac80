--------------------------- MODULE WsSessionProofs ---------------------------
(* Theorems about WsSession, for any limits, tokens and messages of the peer. *)
EXTENDS WsSession, SequenceTheorems, FiniteSetTheorems, TLAPS

(* What TypeOK says of the inbox, the frames and the recent times, for the provers. *)

Frames == [n : Nat, code : Codes]

LEMMA FrameAdded ==
  ASSUME NEW seq \in Seq(Frames), NEW f \in Frames
  PROVE  /\ Append(seq, f) \in Seq(Frames)
         /\ Len(seq) \in Nat /\ Len(Append(seq, f)) = Len(seq) + 1
         /\ DOMAIN seq = 1 .. Len(seq)
         /\ DOMAIN Append(seq, f) = DOMAIN seq \cup {Len(seq) + 1}
         /\ \A j \in DOMAIN seq : Append(seq, f)[j] = seq[j]
         /\ Append(seq, f)[Len(seq) + 1] = f
OBVIOUS

\* A step that replies delivers one frame, or none to a peer that is gone.
LEMMA ReplyType ==
  ASSUME TypeOK, NEW code \in Codes, Reply(code)
  PROVE  frames' \in Seq(Frames) /\ pc' \in {"wait", "finally"} /\ since' \in Nat
<1>1. [n |-> n, code |-> code] \in Frames
  BY DEF TypeOK, Frames
<1>2. frames \in Seq(Frames) /\ since \in Nat /\ now \in Nat
  BY DEF TypeOK, Frames
<1>3. Append(frames, [n |-> n, code |-> code]) \in Seq(Frames)
  BY <1>1, <1>2, FrameAdded
<1> QED BY <1>2, <1>3 DEF Reply

LEMMA RejectType ==
  ASSUME TypeOK, NEW m \in Nat, NEW code \in Codes, Reject(m, code)
  PROVE  frames' \in Seq(Frames) /\ pc' = "finally" /\ connected' = FALSE
<1>1. [n |-> m, code |-> code] \in Frames
  BY DEF Frames
<1>2. frames \in Seq(Frames)
  BY DEF TypeOK, Frames
<1>3. Append(frames, [n |-> m, code |-> code]) \in Seq(Frames)
  BY <1>1, <1>2, FrameAdded
<1> QED BY <1>2, <1>3 DEF Reject

\* The messages that count for the rate are few while the session goes on.
FewTimes ==
  /\ IsFiniteSet(batch_times)
  /\ pc \notin {"finally", "closed"} => Cardinality(batch_times) <= RATE_LIMIT

TypeInv == TypeOK /\ FewTimes

LEMMA TypeInit == Init => TypeInv
<1> SUFFICES ASSUME Init PROVE TypeInv
  OBVIOUS
<1>1. IsFiniteSet(batch_times) /\ Cardinality(batch_times) = 0
  BY FS_EmptySet DEF Init
<1>2. FewTimes
  BY <1>1, LimitsAssumption DEF FewTimes
<1>3. inbox \in Seq(Kinds) /\ frames \in Seq([n : Nat, code : Codes])
  BY EmptySeq DEF Init
<1>4. Cardinality(batch_times) <= RATE_LIMIT + 1
  BY <1>1, LimitsAssumption
<1>5. TypeOK
  BY <1>3, <1>4, TokenExpsAssumption DEF Init, TypeOK, AllKinds
<1> QED BY <1>2, <1>5 DEF TypeInv

\* The next list of recent times.
LEMMA NextTimes ==
  ASSUME TypeInv, pc = "handle"
  PROVE  /\ IsFiniteSet(Kept \cup {Stamp}) /\ Kept \cup {Stamp} \subseteq Stamps
         /\ Cardinality(Kept \cup {Stamp}) <= RATE_LIMIT + 1
<1>1. /\ IsFiniteSet(Kept) /\ Cardinality(Kept) <= Cardinality(batch_times)
      /\ Kept \subseteq batch_times
  BY FS_Subset DEF Kept, TypeInv, FewTimes
<1>2. Cardinality(Kept) \in Nat /\ Cardinality(batch_times) \in Nat
  BY <1>1, FS_CardinalityType DEF TypeInv, FewTimes
<1>3. /\ IsFiniteSet(Kept \cup {Stamp})
      /\ Cardinality(Kept \cup {Stamp}) <= Cardinality(Kept) + 1
  BY <1>1, <1>2, FS_AddElement
<1>4. Cardinality(Kept \cup {Stamp}) \in Nat
  BY <1>3, FS_CardinalityType
<1>5. Stamp \in Stamps
  BY DEF Stamp, Stamps, TypeInv, TypeOK
<1>6. Cardinality(batch_times) <= RATE_LIMIT /\ batch_times \subseteq Stamps
  BY DEF TypeInv, TypeOK, FewTimes
<1> QED BY <1>1, <1>2, <1>3, <1>4, <1>5, <1>6, LimitsAssumption

LEMMA InboxType ==
  ASSUME TypeOK
  PROVE  /\ inbox # << >> => Tail(inbox) \in Seq(Kinds) /\ Head(inbox) \in AllKinds
         /\ \A k \in Kinds : Append(inbox, k) \in Seq(Kinds)
BY KindsAssumption, HeadTailProperties, AppendProperties DEF TypeOK

LEMMA TypeStep == TypeInv /\ [Next]_vars => TypeInv'
<1> SUFFICES ASSUME TypeInv, [Next]_vars PROVE TypeInv'
  OBVIOUS
<1> USE InboxType, LimitsAssumption DEF TypeInv, TypeOK, FewTimes, local, peer
<1>1. CASE Accept \/ RefuseToken \/ Idle \/ PeerGone \/ Unregister
  BY <1>1 DEF Accept, RefuseToken, Idle, PeerGone, Unregister
<1>12. CASE Receive
  BY <1>12 DEF Receive
<1>2. CASE ExpireToken
  <2>1. n + 1 \in Nat /\ "token_expired" \in Codes
    BY DEF Codes
  <2> QED BY <1>2, <2>1, RejectType DEF ExpireToken, Frames
<1>3. CASE TooBig
  BY <1>3, RejectType DEF TooBig, Frames, Codes
<1>4. CASE Malformed \/ Ping \/ NoLogs \/ TooMany \/ BatchInvalid \/ SendAck
  <2>1. PICK code \in Codes : Reply(code)
    BY <1>4 DEF Malformed, Ping, NoLogs, TooMany, BatchInvalid, SendAck, Codes
  <2> QED BY <1>4, <2>1, ReplyType
          DEF Malformed, Ping, NoLogs, TooMany, BatchInvalid, SendAck, Frames
<1>5. CASE BatchFails
  BY <1>5, ReplyType DEF BatchFails, Frames, Codes
<1>6. CASE Ignore \/ Persist
  BY <1>6 DEF Ignore, Persist
<1>7. CASE RateLimited
  <2>1. /\ batch_times' = Kept \cup {Stamp} /\ refused' = {Stamp}
        /\ Reject(n, "rate_limited")
        /\ UNCHANGED <<peer, inbox, since, n, kind, registered, persisted, admitted, ignored>>
    BY <1>7 DEF RateLimited
  <2>2. /\ IsFiniteSet(batch_times') /\ batch_times' \subseteq Stamps
        /\ Cardinality(batch_times') <= RATE_LIMIT + 1
    BY <1>7, <2>1, NextTimes DEF RateLimited
  <2>3. Stamp \in Stamps
    BY DEF Stamp, Stamps
  <2>4. frames' \in Seq(Frames) /\ pc' = "finally" /\ connected' = FALSE
    BY <2>1, RejectType DEF Codes
  <2> QED BY <2>1, <2>2, <2>3, <2>4 DEF Frames
<1>8. CASE Admit
  <2>1. /\ IsFiniteSet(batch_times') /\ batch_times' \subseteq Stamps
        /\ Cardinality(batch_times') <= RATE_LIMIT
    BY <1>8, NextTimes DEF Admit
  <2>2. Cardinality(batch_times') \in Nat
    BY <2>1, FS_CardinalityType
  <2>3. Stamp \in Stamps
    BY DEF Stamp, Stamps
  <2> QED BY <1>8, <2>1, <2>2, <2>3 DEF Admit
<1>9. CASE Disconnect
  BY <1>9 DEF Disconnect
<1>13. CASE Tick
  BY <1>13 DEF Tick
<1>10. ASSUME NEW k \in Kinds, Send(k) PROVE TypeInv'
  BY <1>10 DEF Send
<1>11. CASE UNCHANGED vars
  BY <1>11 DEF vars
<1> QED BY <1>1, <1>2, <1>3, <1>4, <1>5, <1>6, <1>7, <1>8, <1>9, <1>10, <1>11,
           <1>12, <1>13
        DEF Next, Handler

\* Every variable keeps its type, and the list of recent times stays short.
THEOREM TypeCorrect == Spec => []TypeOK
<1>1. TypeInv => TypeOK
  BY DEF TypeInv
<1> QED BY <1>1, TypeInit, TypeStep, PTL DEF Spec

-----------------------------------------------------------------------------
(* The rate limit. *)

\* All steps but the two that stamp a message leave the history of the rate alone; time
\* and the number of the message only grow, and a session that ends stays ended.
LEMMA Unstamped ==
  ASSUME TypeInv, [Next]_vars, ~RateLimited, ~Admit
  PROVE  /\ UNCHANGED <<batch_times, admitted, refused>>
         /\ n' \in {n, n + 1} /\ now' \in {now, now + 1}
         /\ pc' = "handle" => n' = n + 1 \/ (n' = n /\ pc = "handle")
         /\ pc \in {"finally", "closed"} => pc' \in {"finally", "closed"}
<1> USE DEF local, peer, TypeInv, TypeOK, Reject, Reply
<1>1. CASE Accept \/ RefuseToken \/ Idle \/ PeerGone \/ Receive \/ Unregister \/ ExpireToken
  BY <1>1 DEF Accept, RefuseToken, Idle, PeerGone, Receive, Unregister, ExpireToken
<1>2. CASE TooBig \/ Malformed \/ Ping \/ Ignore \/ NoLogs \/ TooMany \/ BatchInvalid
  BY <1>2 DEF TooBig, Malformed, Ping, Ignore, NoLogs, TooMany, BatchInvalid
<1>3. CASE BatchFails \/ Persist \/ SendAck
  BY <1>3 DEF BatchFails, Persist, SendAck
<1>4. CASE Tick \/ Disconnect \/ \E k \in Kinds : Send(k)
  BY <1>4 DEF Tick, Disconnect, Send
<1>5. CASE UNCHANGED vars
  BY <1>5 DEF vars
<1> QED BY <1>1, <1>2, <1>3, <1>4, <1>5 DEF Next, Handler

\* The list of recent times has every admitted message that is still inside the window,
\* and no message that was not stamped.
TimesInv ==
  /\ IsFiniteSet(admitted)
  /\ \A b \in admitted : /\ b.n <= n /\ b.at <= now
                         /\ pc = "handle" => b.n < n
                         /\ now - b.at < RATE_WINDOW => b \in batch_times
  /\ batch_times \subseteq admitted \cup refused
  /\ refused # {} => pc \in {"finally", "closed"}

RateInv == TimesInv /\ RateBound /\ NoFalseAlarm

LEMMA RateInit == Init => RateInv
BY FS_EmptySet DEF Init, RateInv, TimesInv, RateBound, NoFalseAlarm

LEMMA RateAdmit ==
  ASSUME TypeInv, RateInv, Admit
  PROVE  RateInv'
<1>1. /\ pc = "handle" /\ pc' = "batch"
      /\ batch_times' = Kept \cup {Stamp} /\ Cardinality(batch_times') <= RATE_LIMIT
      /\ admitted' = admitted \cup {Stamp}
      /\ UNCHANGED <<refused, n, now>>
  BY DEF Admit, peer
<1>2. refused = {}
  BY <1>1 DEF RateInv, TimesInv
<1>3. /\ admitted \subseteq Stamps /\ Stamp \in Stamps
      /\ Stamp.n = n /\ Stamp.at = now
      /\ n \in Nat /\ now \in Nat /\ RATE_WINDOW \in Nat \ {0}
  BY LimitsAssumption DEF TypeInv, TypeOK, Stamp, Stamps
<1>4. TimesInv'
  <2>1. IsFiniteSet(admitted')
    BY <1>1, FS_AddElement DEF RateInv, TimesInv
  <2>2. ASSUME NEW b \in admitted'
        PROVE  b.n <= n /\ b.at <= now /\ (now - b.at < RATE_WINDOW => b \in batch_times')
    <3>1. CASE b \in admitted
      BY <1>1, <3>1 DEF RateInv, TimesInv, Kept
    <3>2. CASE b = Stamp
      BY <1>1, <1>3, <3>2
    <3> QED BY <1>1, <3>1, <3>2
  <2>3. batch_times' \subseteq admitted' \cup refused'
    BY <1>1, <1>2 DEF RateInv, TimesInv, Kept
  <2> QED BY <1>1, <1>2, <2>1, <2>2, <2>3 DEF TimesInv
<1>5. RateBound'
  <2> SUFFICES ASSUME NEW c \in admitted'
               PROVE  Cardinality(Window(admitted', c)) <= RATE_LIMIT
    BY DEF RateBound, Window
  <2>1. CASE c = Stamp
    <3>1. Window(admitted', c) \subseteq batch_times'
      BY <1>1, <1>3, <2>1 DEF Window, RateInv, TimesInv, Kept
    <3>2. IsFiniteSet(batch_times')
      BY <1>1, NextTimes
    <3>3. Cardinality(Window(admitted', c)) <= Cardinality(batch_times')
      BY <3>1, <3>2, FS_Subset
    <3>4. /\ Cardinality(Window(admitted', c)) \in Nat
          /\ Cardinality(batch_times') \in Nat
      BY <3>1, <3>2, FS_Subset, FS_CardinalityType
    <3> QED BY <1>1, <3>3, <3>4, LimitsAssumption
  <2>2. CASE c \in admitted
    <3>1. c.n < n /\ c.n \in Nat
      BY <1>1, <1>3, <2>2 DEF RateInv, TimesInv, Stamps
    <3>2. Stamp \notin Window(admitted', c)
      BY <1>3, <3>1 DEF Window
    <3>3. Window(admitted', c) = Window(admitted, c)
      BY <1>1, <3>2 DEF Window
    <3> QED BY <2>2, <3>3 DEF RateInv, RateBound
  <2> QED BY <1>1, <2>1, <2>2
<1>6. NoFalseAlarm'
  BY <1>1, <1>2 DEF NoFalseAlarm
<1> QED BY <1>4, <1>5, <1>6 DEF RateInv

LEMMA RateRefusal ==
  ASSUME TypeInv, RateInv, RateLimited
  PROVE  RateInv'
<1>1. /\ pc = "handle" /\ pc' = "finally"
      /\ batch_times' = Kept \cup {Stamp} /\ Cardinality(batch_times') > RATE_LIMIT
      /\ refused' = {Stamp}
      /\ UNCHANGED <<admitted, n, now>>
  BY DEF RateLimited, Reject, peer
<1>2. refused = {}
  BY <1>1 DEF RateInv, TimesInv
<1>3. /\ Stamp \in Stamps /\ Stamp.n = n /\ Stamp.at = now
      /\ n \in Nat /\ now \in Nat /\ RATE_WINDOW \in Nat \ {0}
  BY LimitsAssumption DEF TypeInv, TypeOK, Stamp, Stamps
<1>4. TimesInv'
  BY <1>1, <1>2 DEF RateInv, TimesInv, Kept
<1>5. RateBound'
  BY <1>1 DEF RateInv, RateBound, Window
<1>6. NoFalseAlarm'
  <2> DEFINE W == Window(admitted' \cup refused', Stamp)
  <2>1. batch_times' \subseteq W
    BY <1>1, <1>2, <1>3 DEF Window, RateInv, TimesInv, Kept
  <2>2. IsFiniteSet(W)
    <3>1. IsFiniteSet(admitted \cup {Stamp})
      BY FS_AddElement DEF RateInv, TimesInv
    <3>2. W \subseteq admitted \cup {Stamp}
      BY <1>1 DEF Window
    <3> QED BY <3>1, <3>2, FS_Subset
  <2> HIDE DEF W
  <2>3. Cardinality(batch_times') <= Cardinality(W)
    BY <2>1, <2>2, FS_Subset
  <2>4. Cardinality(batch_times') \in Nat /\ Cardinality(W) \in Nat
    BY <2>1, <2>2, FS_Subset, FS_CardinalityType
  <2>5. Cardinality(W) > RATE_LIMIT
    BY <1>1, <2>3, <2>4, LimitsAssumption
  <2> QED BY <1>1, <2>5 DEF W, NoFalseAlarm, Window
<1> QED BY <1>4, <1>5, <1>6 DEF RateInv

LEMMA RateStep == TypeInv /\ RateInv /\ [Next]_vars => RateInv'
<1> SUFFICES ASSUME TypeInv, RateInv, [Next]_vars PROVE RateInv'
  OBVIOUS
<1>1. CASE ~RateLimited /\ ~Admit
  <2>1. /\ UNCHANGED <<batch_times, admitted, refused>>
        /\ n' \in {n, n + 1} /\ now' \in {now, now + 1}
        /\ pc' = "handle" => n' = n + 1 \/ (n' = n /\ pc = "handle")
        /\ pc \in {"finally", "closed"} => pc' \in {"finally", "closed"}
    BY <1>1, Unstamped
  <2>2. /\ \A b \in admitted : b.n \in Nat /\ b.at \in Nat
        /\ n \in Nat /\ now \in Nat /\ RATE_WINDOW \in Nat
    BY LimitsAssumption DEF TypeInv, TypeOK, Stamps
  <2>3. TimesInv'
    BY <2>1, <2>2 DEF RateInv, TimesInv
  <2>4. RateBound' /\ NoFalseAlarm'
    BY <2>1 DEF RateInv, RateBound, NoFalseAlarm, Window
  <2> QED BY <2>3, <2>4 DEF RateInv
<1> QED BY <1>1, RateAdmit, RateRefusal

\* No sliding window lets through more log_batch messages than the limit, for any spacing
\* of the messages and whatever else is sent.
THEOREM RateIsBounded == Spec => []RateBound
<1>1. RateInv => RateBound
  BY DEF RateInv
<1> QED BY <1>1, TypeInit, TypeStep, RateInit, RateStep, PTL DEF Spec

\* A session is ended for its rate only when more messages than the limit came within the
\* window.
THEOREM AlarmsAreTrue == Spec => []NoFalseAlarm
<1>1. RateInv => NoFalseAlarm
  BY DEF RateInv
<1> QED BY <1>1, TypeInit, TypeStep, RateInit, RateStep, PTL DEF Spec

-----------------------------------------------------------------------------
(* Replies. *)

Answer(code) == frames' = Append(frames, [n |-> n, code |-> code])

\* What a step does to the message that is handled.
Replies(codes) ==
  /\ InHand /\ pc' \in {"wait", "finally"}
  /\ \E code \in codes : Answer(code)
  /\ UNCHANGED <<n, ignored>>

\* Nothing, as far as messages and replies go; a reply that is not delivered ends the session.
Quiet ==
  /\ UNCHANGED <<n, ignored, frames>>
  /\ \/ pc' = pc \/ pc' \in {"finally", "closed"}
     \/ pc = "handshake" /\ pc' = "wait"
     \/ pc = "handle" /\ pc' = "batch"

LEMMA ReplySteps ==
  ASSUME TypeInv, [Next]_vars
  PROVE  \/ Quiet /\ (persisted' = persisted \/ BatchFails)
         \/ /\ Replies(Codes \ {"ack", "server_error"})
            /\ pc \in {"handle", "batch"} /\ persisted' = persisted
         \/ Replies({"server_error"}) /\ BatchFails
         \/ Replies({"ack"}) /\ pc = "ack" /\ persisted' = persisted
         \/ Receive \/ ExpireToken \/ Ignore \/ Persist
<1> USE DEF local, peer, InHand, Answer, Replies, Quiet, Codes, Reply, Reject
<1>1. CASE Accept \/ RefuseToken \/ Idle \/ PeerGone \/ Unregister \/ Admit
  BY <1>1 DEF Accept, RefuseToken, Idle, PeerGone, Unregister, Admit
<1>2. CASE TooBig \/ Malformed \/ Ping
  BY <1>2 DEF TooBig, Malformed, Ping
<1>3. CASE RateLimited
  BY <1>3 DEF RateLimited
<1>4. CASE NoLogs \/ TooMany \/ BatchInvalid
  BY <1>4 DEF NoLogs, TooMany, BatchInvalid
<1>5. CASE BatchFails
  BY <1>5 DEF BatchFails
<1>6. CASE Persist \/ SendAck
  BY <1>6 DEF Persist, SendAck
<1>7. CASE Tick \/ Disconnect \/ \E k \in Kinds : Send(k)
  BY <1>7 DEF Tick, Disconnect, Send
<1>8. CASE UNCHANGED vars
  BY <1>8 DEF vars
<1> QED BY <1>1, <1>2, <1>3, <1>4, <1>5, <1>6, <1>7, <1>8 DEF Next, Handler

\* The messages that are to be answered, as far as message k.
UpTo(k) == {m \in Answerable : m <= k}

Matches(j) == frames[j].n \in Answerable /\ Cardinality(UpTo(frames[j].n)) = j

LEMMA MatchesAll ==
  /\ RepliesMatchMessages <=> \A j \in DOMAIN frames : Matches(j)
  /\ RepliesMatchMessages' <=> \A j \in DOMAIN frames' : Matches(j)'
BY DEF RepliesMatchMessages, Matches, UpTo

\* There are as many replies as messages that were answerable, but for the one in hand.
RepliesInv ==
  /\ ignored \subseteq 1 .. n
  /\ RepliesMatchMessages
  /\ pc \in {"handshake", "wait"} => Len(frames) = Cardinality(Answerable)
  /\ InHand =>
       /\ n \in Answerable
       /\ Len(frames) = Cardinality(Answerable \ {n})
       /\ \A j \in DOMAIN frames : frames[j].n # n

LEMMA AnswerableFinite ==
  ASSUME TypeInv
  PROVE  /\ IsFiniteSet(Answerable) /\ Cardinality(Answerable) \in Nat
         /\ Answerable \subseteq 1 .. n /\ n \in Nat
         /\ Len(frames) \in Nat /\ DOMAIN frames = 1 .. Len(frames)
         /\ \A j \in DOMAIN frames : frames[j].n \in Nat
<1>1. IsFiniteSet(1 .. n) /\ n \in Nat
  BY FS_Interval DEF TypeInv, TypeOK
<1>2. Answerable \subseteq 1 .. n
  BY DEF Answerable
<1>3. IsFiniteSet(Answerable)
  BY <1>1, <1>2, FS_Subset
<1>4. Cardinality(Answerable) \in Nat
  BY <1>3, FS_CardinalityType
<1>5. frames \in Seq(Frames)
  BY DEF TypeInv, TypeOK, Frames
<1>6. /\ Len(frames) \in Nat /\ DOMAIN frames = 1 .. Len(frames)
      /\ \A j \in DOMAIN frames : frames[j] \in Frames
  BY <1>5, LenProperties
<1> QED BY <1>1, <1>2, <1>3, <1>4, <1>6 DEF Frames

LEMMA RepliesInit == Init => RepliesInv
<1> SUFFICES ASSUME Init PROVE RepliesInv
  OBVIOUS
<1>1. Answerable = {}
  BY DEF Init, Answerable
<1>2. Cardinality(Answerable) = 0 /\ Len(frames) = 0 /\ DOMAIN frames = {}
  BY <1>1, FS_EmptySet DEF Init
<1> QED BY <1>2 DEF Init, RepliesInv, RepliesMatchMessages, InHand

\* The next number follows all others.
LEMMA NextNumber ==
  ASSUME TypeInv, RepliesInv, n' = n + 1, ignored' = ignored
  PROVE  /\ Answerable' = Answerable \cup {n + 1}
         /\ Cardinality(Answerable') = Cardinality(Answerable) + 1
         /\ \A k \in Answerable : k # n + 1
         /\ \A k \in 1 .. n : UpTo(k)' = UpTo(k)
         /\ \A k : k = n + 1 => UpTo(k)' = Answerable'
<1>1. Answerable' = Answerable \cup {n + 1}
  BY AnswerableFinite DEF Answerable, RepliesInv
<1>2. \A k \in Answerable : k \in 1 .. n
  BY DEF Answerable
<1>3. Cardinality(Answerable') = Cardinality(Answerable) + 1
  <2>1. n + 1 \notin Answerable /\ IsFiniteSet(Answerable)
    BY <1>2, AnswerableFinite
  <2>2. Cardinality(Answerable \cup {n + 1}) = Cardinality(Answerable) + 1
    BY <2>1, FS_AddElement
  <2> QED BY <1>1, <2>2
<1> QED BY <1>1, <1>2, <1>3, AnswerableFinite DEF UpTo

\* A reply to the message with the greatest number.
LEMMA Matching ==
  ASSUME TypeInv, RepliesMatchMessages, NEW code \in Codes,
         n \in Answerable, Cardinality(Answerable) = Len(frames) + 1,
         Answer(code), UNCHANGED <<n, ignored>>
  PROVE  RepliesMatchMessages' /\ Len(frames') = Cardinality(Answerable')
<1>1. [n |-> n, code |-> code] \in Frames
  BY DEF TypeInv, TypeOK, Frames
<1>2. /\ Len(frames') = Len(frames) + 1
      /\ DOMAIN frames' = DOMAIN frames \cup {Len(frames) + 1}
      /\ \A j \in DOMAIN frames : frames'[j] = frames[j]
      /\ frames'[Len(frames) + 1].n = n
  BY <1>1, FrameAdded DEF TypeInv, TypeOK, Frames, Answer
<1>3. UpTo(n) = Answerable
  BY AnswerableFinite DEF UpTo
<1>4. Answerable' = Answerable /\ \A k : UpTo(k)' = UpTo(k)
  BY DEF Answerable, UpTo
<1>5. ASSUME NEW j \in DOMAIN frames' PROVE Matches(j)'
  <2>1. CASE j \in DOMAIN frames
    BY <1>2, <1>4, <2>1, MatchesAll DEF Matches
  <2>2. CASE j = Len(frames) + 1
    BY <1>2, <1>3, <1>4, <2>2 DEF Matches
  <2> QED BY <1>2, <1>5, <2>1, <2>2
<1> QED BY <1>2, <1>4, <1>5, MatchesAll

LEMMA RepliesStep == TypeInv /\ RepliesInv /\ [Next]_vars => RepliesInv'
<1> SUFFICES ASSUME TypeInv, RepliesInv, [Next]_vars PROVE RepliesInv'
  OBVIOUS
<1>1. CASE Quiet
  BY <1>1 DEF Quiet, RepliesInv, RepliesMatchMessages, Answerable, InHand
<1>2. CASE Replies(Codes)
  <2>1. PICK code \in Codes : Answer(code)
    BY <1>2 DEF Replies
  <2>2. /\ n \in Answerable /\ UNCHANGED <<n, ignored>>
        /\ Len(frames) = Cardinality(Answerable \ {n})
    BY <1>2 DEF Replies, RepliesInv
  <2>3. Cardinality(Answerable) = Len(frames) + 1
    <3>1. IsFiniteSet(Answerable) /\ Cardinality(Answerable) \in Nat
      BY AnswerableFinite
    <3>2. Cardinality(Answerable \ {n}) = Cardinality(Answerable) - 1
      BY <2>2, <3>1, FS_RemoveElement
    <3> QED BY <2>2, <3>1, <3>2
  <2>4. RepliesMatchMessages' /\ Len(frames') = Cardinality(Answerable')
    BY <2>1, <2>2, <2>3, Matching DEF RepliesInv
  <2> QED BY <1>2, <2>2, <2>4 DEF Replies, RepliesInv, InHand
<1>3. CASE Receive
  <2>1. n' = n + 1 /\ ignored' = ignored /\ frames' = frames /\ pc = "wait" /\ pc' = "handle"
    BY <1>3 DEF Receive
  <2>2. \A j \in DOMAIN frames : frames[j].n \in Answerable /\ frames[j].n \in 1 .. n
    BY AnswerableFinite DEF RepliesInv, RepliesMatchMessages
  <2>3. RepliesMatchMessages'
    BY <2>1, <2>2, NextNumber, MatchesAll DEF RepliesInv, Matches
  <2>4. Answerable' \ {n'} = Answerable /\ n' \in Answerable'
    BY <2>1, NextNumber
  <2>5. Len(frames') = Cardinality(Answerable' \ {n'})
    BY <2>1, <2>4 DEF RepliesInv
  <2>6. ignored' \subseteq 1 .. n' /\ \A j \in DOMAIN frames' : frames'[j].n # n'
    BY <2>1, <2>2, AnswerableFinite DEF RepliesInv
  <2> QED BY <2>1, <2>3, <2>4, <2>5, <2>6 DEF RepliesInv, InHand
<1>4. CASE ExpireToken
  <2>1. /\ n' = n + 1 /\ ignored' = ignored /\ pc = "wait" /\ pc' = "finally"
        /\ \/ frames' = frames
           \/ frames' = Append(frames, [n |-> n + 1, code |-> "token_expired"])
    BY <1>4 DEF ExpireToken, Reject
  <2>2. \A j \in DOMAIN frames : frames[j].n \in Answerable /\ frames[j].n \in 1 .. n
    BY AnswerableFinite DEF RepliesInv, RepliesMatchMessages
  <2>3. \A j \in DOMAIN frames :
          /\ frames[j].n \in Answerable'
          /\ \A k : k = frames[j].n => Cardinality(UpTo(k)') = j
    BY <2>1, <2>2, NextNumber, MatchesAll DEF RepliesInv, Matches
  <2>4. ASSUME frames' = frames PROVE RepliesMatchMessages'
    BY <2>3, <2>4, MatchesAll DEF Matches
  <2>5. ASSUME frames' = Append(frames, [n |-> n + 1, code |-> "token_expired"])
        PROVE  RepliesMatchMessages'
    <3>1. [n |-> n + 1, code |-> "token_expired"] \in Frames
      BY AnswerableFinite DEF Frames, Codes
    <3>2. /\ DOMAIN frames' = DOMAIN frames \cup {Len(frames) + 1}
          /\ \A j \in DOMAIN frames : frames'[j] = frames[j]
          /\ frames'[Len(frames) + 1].n = n + 1
      BY <2>5, <3>1, FrameAdded DEF TypeInv, TypeOK, Frames
    <3>3. /\ \A k : k = n + 1 => Cardinality(UpTo(k)') = Len(frames) + 1
          /\ n + 1 \in Answerable'
      BY <2>1, NextNumber DEF RepliesInv
    <3>4. ASSUME NEW j \in DOMAIN frames' PROVE Matches(j)'
      <4>1. CASE j \in DOMAIN frames
        BY <2>3, <3>2, <4>1 DEF Matches
      <4>2. CASE j = Len(frames) + 1
        BY <3>2, <3>3, <4>2 DEF Matches
      <4> QED BY <3>2, <3>4, <4>1, <4>2
    <3> QED BY <3>4, MatchesAll
  <2>6. ignored' \subseteq 1 .. n'
    BY <2>1, AnswerableFinite DEF RepliesInv
  <2> QED BY <2>1, <2>4, <2>5, <2>6 DEF RepliesInv, InHand
<1>5. CASE Ignore
  <2>1. /\ n' = n /\ ignored' = ignored \cup {n} /\ frames' = frames
        /\ pc = "handle" /\ pc' = "wait"
    BY <1>5 DEF Ignore
  <2>2. Answerable' = Answerable \ {n} /\ n \in 1 .. n
    BY <2>1 DEF Answerable, RepliesInv, InHand
  <2>3. \A j \in DOMAIN frames : frames[j].n \in Answerable /\ frames[j].n < n
    <3>1. \A j \in DOMAIN frames : frames[j].n \in Answerable /\ frames[j].n # n
      BY <2>1 DEF RepliesInv, RepliesMatchMessages, InHand
    <3>2. n \in Nat /\ \A k \in Answerable : k \in 1 .. n
      BY AnswerableFinite
    <3>3. \A k \in Answerable : k # n => k < n
      BY <3>2
    <3> QED BY <3>1, <3>3
  <2>4. \A j \in DOMAIN frames : UpTo(frames[j].n)' = UpTo(frames[j].n)
    BY <2>1, <2>2, <2>3, AnswerableFinite DEF UpTo
  <2>5. RepliesMatchMessages'
    BY <2>1, <2>2, <2>3, <2>4, AnswerableFinite, MatchesAll DEF RepliesInv, Matches
  <2> QED BY <2>1, <2>2, <2>5 DEF RepliesInv, InHand
<1>6. CASE Persist
  BY <1>6 DEF Persist, local, RepliesInv, RepliesMatchMessages, Answerable, InHand
<1>7. \A codes \in SUBSET Codes : Replies(codes) => Replies(Codes)
  BY DEF Replies
<1>8. {"ack"} \subseteq Codes /\ {"server_error"} \subseteq Codes
  BY DEF Codes
<1> QED BY <1>1, <1>2, <1>3, <1>4, <1>5, <1>6, <1>7, <1>8, ReplySteps

\* Replies come in the order of the messages, one for each that is answered, so that the
\* peer can match them by counting.
THEOREM RepliesAreInOrder == Spec => []RepliesMatchMessages
<1>1. RepliesInv => RepliesMatchMessages
  BY DEF RepliesInv
<1> QED BY <1>1, TypeInit, TypeStep, RepliesInit, RepliesStep, PTL DEF Spec

-----------------------------------------------------------------------------
(* What is stored, and what the peer is told of it. *)

\* No message beyond the one in hand has a reply or is stored, the one in hand is stored
\* from its commit on, and the peer was told of all that are stored before it.
StoredInv ==
  /\ AckedAreStored
  /\ persisted \subseteq 1 .. n
  /\ \A j \in DOMAIN frames : frames[j].n \in 1 .. n
  /\ InHand => /\ n \in 1 .. n
               /\ \A j \in DOMAIN frames : frames[j].n # n
               /\ n \in persisted <=> pc = "ack"
  /\ pc \in {"handshake", "wait"} => \A m \in persisted : Told(m, {"ack", "server_error"})

LEMMA StoredInit == Init => StoredInv
BY DEF Init, StoredInv, AckedAreStored, Told, InHand

\* One more reply, to message m, which had none.
LEMMA ToldMore ==
  ASSUME TypeInv, NEW m \in Nat, NEW code \in Codes,
         frames' = Append(frames, [n |-> m, code |-> code])
  PROVE  /\ \A k, codes : Told(k, codes)' <=> Told(k, codes) \/ (k = m /\ code \in codes)
         /\ \A N : (\A j \in DOMAIN frames : frames[j].n \in 1 .. N) /\ m \in 1 .. N =>
                     \A j \in DOMAIN frames' : frames'[j].n \in 1 .. N
<1>1. [n |-> m, code |-> code] \in Frames
  BY DEF Frames
<1>2. /\ DOMAIN frames' = DOMAIN frames \cup {Len(frames) + 1}
      /\ \A j \in DOMAIN frames : frames'[j] = frames[j]
      /\ frames'[Len(frames) + 1] = [n |-> m, code |-> code]
  BY <1>1, FrameAdded DEF TypeInv, TypeOK, Frames
<1> QED BY <1>2 DEF Told

LEMMA StoredStep == TypeInv /\ StoredInv /\ [Next]_vars => StoredInv'
<1> SUFFICES ASSUME TypeInv, StoredInv, [Next]_vars PROVE StoredInv'
  OBVIOUS
<1>1. n \in Nat /\ \A m, codes : (\A j \in DOMAIN frames : frames[j].n # m) => ~Told(m, codes)
  BY DEF TypeInv, TypeOK, Told
<1>2. CASE Quiet /\ (persisted' = persisted \/ BatchFails)
  <2>1. frames' = frames /\ n' = n
    BY <1>2 DEF Quiet
  <2>2. \A m, codes : Told(m, codes)' <=> Told(m, codes)
    BY <2>1 DEF Told
  <2>3. CASE persisted' = persisted
    BY <1>2, <2>1, <2>2, <2>3 DEF Quiet, StoredInv, AckedAreStored, InHand
  <2>4. CASE BatchFails
    <3>1. persisted' \in {persisted, persisted \cup {n}} /\ pc = "batch"
      BY <2>4 DEF BatchFails
    <3>2. pc' \in {"batch", "finally", "closed"}
      BY <1>2, <3>1 DEF Quiet
    <3>3. pc' # "batch"
      BY <2>4 DEF BatchFails, Reply
    <3> QED BY <1>1, <2>1, <2>2, <3>1, <3>2, <3>3 DEF StoredInv, AckedAreStored, InHand
  <2> QED BY <1>2, <2>3, <2>4
<1>3. ASSUME NEW codes \in SUBSET Codes, Replies(codes),
             \/ persisted' = persisted /\ pc \in {"handle", "batch"} /\
                codes = Codes \ {"ack", "server_error"}
             \/ persisted' = persisted /\ pc = "ack" /\ codes = {"ack"}
             \/ BatchFails /\ codes = {"server_error"}
      PROVE  StoredInv'
  <2>1. PICK code \in codes : Answer(code)
    BY <1>3 DEF Replies
  <2>2. /\ InHand /\ n' = n /\ n \in 1 .. n
        /\ frames' = Append(frames, [n |-> n, code |-> code])
    BY <1>3, <2>1 DEF Replies, Answer, StoredInv
  <2>3. /\ \A k, cs : Told(k, cs)' <=> Told(k, cs) \/ (k = n /\ code \in cs)
        /\ \A j \in DOMAIN frames' : frames'[j].n \in 1 .. n
    BY <1>1, <2>1, <2>2, ToldMore DEF StoredInv
  <2>4. \A cs : ~Told(n, cs)
    BY <1>1, <2>2 DEF StoredInv
  <2>5. \A m \in persisted : m = n \/ Told(m, {"ack", "server_error"})
    BY DEF StoredInv, AckedAreStored
  <2>6. pc' \in {"wait", "finally"}
    BY <1>3 DEF Replies
  <2> USE DEF StoredInv, AckedAreStored, InHand
  <2>7. CASE persisted' = persisted /\ pc \in {"handle", "batch"} /\
             codes = Codes \ {"ack", "server_error"}
    BY <2>1, <2>2, <2>3, <2>4, <2>5, <2>6, <2>7
  <2>8. CASE persisted' = persisted /\ pc = "ack" /\ codes = {"ack"}
    BY <2>1, <2>2, <2>3, <2>4, <2>5, <2>6, <2>8
  <2>9. CASE BatchFails /\ codes = {"server_error"}
    <3>1. persisted' \in {persisted, persisted \cup {n}}
      BY <2>9 DEF BatchFails
    <3>2. code = "server_error" /\ pc = "batch"
      BY <2>1, <2>9 DEF BatchFails
    <3>3. persisted' \subseteq 1 .. n
      BY <2>2, <3>1
    <3>4. \A m \in persisted' : Told(m, {"ack", "server_error"})'
      BY <2>3, <2>5, <3>1, <3>2
    <3>5. \A m \in 1 .. n : Told(m, {"ack"})' => m \in persisted'
      BY <2>3, <3>1, <3>2
    <3>6. \A m \in 1 .. n : Told(m, Codes \ {"ack", "server_error"})' => m \notin persisted'
      BY <2>3, <2>4, <3>1, <3>2
    <3> QED BY <2>2, <2>3, <2>6, <3>3, <3>4, <3>5, <3>6
  <2> QED BY <1>3, <2>7, <2>8, <2>9
<1>4. CASE Receive
  <2>1. /\ n' = n + 1 /\ frames' = frames /\ persisted' = persisted
        /\ pc = "wait" /\ pc' = "handle"
    BY <1>4 DEF Receive
  <2>2. \A m, codes : Told(m, codes)' <=> Told(m, codes)
    BY <2>1 DEF Told
  <2>3. \A codes : ~Told(n + 1, codes)
    BY <1>1 DEF StoredInv
  <2>4. /\ n + 1 \notin persisted /\ persisted \subseteq 1 .. n'
        /\ \A j \in DOMAIN frames : frames[j].n \in 1 .. n' /\ frames[j].n # n'
        /\ \A m \in 1 .. n' : m \in 1 .. n \/ m = n + 1
    BY <1>1, <2>1 DEF StoredInv
  <2>5. AckedAreStored'
    BY <2>1, <2>2, <2>3, <2>4 DEF StoredInv, AckedAreStored
  <2> QED BY <1>1, <2>1, <2>4, <2>5 DEF StoredInv, InHand
<1>5. CASE ExpireToken
  <2>1. /\ n' = n + 1 /\ persisted' = persisted /\ pc = "wait" /\ pc' = "finally"
        /\ \/ frames' = frames
           \/ frames' = Append(frames, [n |-> n + 1, code |-> "token_expired"])
    BY <1>5 DEF ExpireToken, Reject
  <2>2. \A codes : ~Told(n + 1, codes)
    BY <1>1 DEF StoredInv
  <2>3. \A k, codes : Told(k, codes)' =>
          Told(k, codes) \/ (k = n + 1 /\ "token_expired" \in codes)
    BY <1>1, <2>1, ToldMore DEF Told, Codes
  <2>4. \A k, codes : Told(k, codes) => Told(k, codes)'
    BY <1>1, <2>1, ToldMore DEF Told, Codes
  <2>5. \A j \in DOMAIN frames' : frames'[j].n \in 1 .. n'
    <3>1. \A j \in DOMAIN frames : frames[j].n \in 1 .. (n + 1)
      BY <1>1 DEF StoredInv
    <3> QED BY <1>1, <2>1, <3>1, ToldMore DEF Codes
  <2>6. n + 1 \notin persisted /\ persisted \subseteq 1 .. (n + 1)
    BY <1>1 DEF StoredInv
  <2>7. \A m \in 1 .. n' : m \in 1 .. n \/ m = n + 1
    BY <1>1, <2>1
  <2>8. \A m \in persisted' : Told(m, {"ack", "server_error"})'
    BY <2>1, <2>4 DEF StoredInv
  <2>9. \A m \in 1 .. n' : Told(m, {"ack"})' => m \in persisted'
    BY <2>1, <2>2, <2>3, <2>7 DEF StoredInv, AckedAreStored
  <2>10. \A m \in 1 .. n' : Told(m, Codes \ {"ack", "server_error"})' => m \notin persisted'
    BY <2>1, <2>2, <2>3, <2>6, <2>7 DEF StoredInv, AckedAreStored
  <2> QED BY <2>1, <2>5, <2>6, <2>8, <2>9, <2>10 DEF StoredInv, AckedAreStored, InHand
<1>6. CASE Ignore \/ Persist
  <2>1. /\ n' = n /\ frames' = frames
        /\ \/ persisted' = persisted /\ pc = "handle" /\ pc' = "wait"
           \/ persisted' = persisted \cup {n} /\ pc = "batch" /\ pc' = "ack"
    BY <1>6 DEF Ignore, Persist, local
  <2>2. \A m, codes : Told(m, codes)' <=> Told(m, codes)
    BY <2>1 DEF Told
  <2>3. \A codes : ~Told(n, codes)
    BY <1>1, <2>1 DEF StoredInv, InHand
  <2> QED BY <1>1, <2>1, <2>2, <2>3 DEF StoredInv, AckedAreStored, InHand
<1>7. CASE /\ Replies(Codes \ {"ack", "server_error"})
           /\ pc \in {"handle", "batch"} /\ persisted' = persisted
  BY <1>3, <1>7
<1>8. CASE Replies({"server_error"}) /\ BatchFails
  BY <1>3, <1>8 DEF Codes
<1>9. CASE Replies({"ack"}) /\ pc = "ack" /\ persisted' = persisted
  BY <1>3, <1>9 DEF Codes
<1> QED BY <1>2, <1>4, <1>5, <1>6, <1>7, <1>8, <1>9, ReplySteps

\* A client that is told its logs are stored can rely on it; logs of which it was told
\* nothing are those of the last message alone.
THEOREM AcksAreTrue == Spec => []AckedAreStored
<1>1. StoredInv => AckedAreStored
  BY DEF StoredInv
<1> QED BY <1>1, TypeInit, TypeStep, StoredInit, StoredStep, PTL DEF Spec

-----------------------------------------------------------------------------
(* The token. *)

\* A message that is taken from the inbox when the token has expired ends the session and
\* has no other effect.
THEOREM ExpiryIsFinal == Spec => ExpiryEndsSession
<1> DEFINE Ends ==
      now >= token_exp /\ n' # n =>
        /\ pc' = "finally"
        /\ UNCHANGED <<admitted, refused, persisted>>
        /\ connected => frames' = Append(frames, [n |-> n', code |-> "token_expired"])
<1>1. ASSUME TypeInv, [Next]_vars PROVE [Ends]_vars
  <2>1. CASE n' = n
    BY <2>1
  <2>2. CASE Receive
    BY <2>2 DEF Receive, TokenExpired
  <2>3. CASE ExpireToken
    BY <2>3 DEF ExpireToken, Reject
  <2>4. CASE ~Receive /\ ~ExpireToken
    BY <1>1, <2>1, <2>4, ReplySteps DEF Quiet, Replies, Ignore, Persist, local
  <2> QED BY <2>2, <2>3, <2>4
<1> HIDE DEF Ends
<1>2. Spec => [][Ends]_vars
  BY <1>1, TypeInit, TypeStep, PTL DEF Spec
<1> QED BY <1>2 DEF Ends, ExpiryEndsSession

-----------------------------------------------------------------------------
(* The contract. *)

\* The message in hand was taken while the token was valid, and a log_batch that was
\* admitted has its stamp, and no other, since the last message was dealt with.
HandInv ==
  /\ since <= now
  /\ \A b \in admitted \cup refused : b.n <= n
  /\ InHand => /\ since < token_exp /\ n \in Nat \ {0}
               /\ n \in persisted <=> pc = "ack"
  /\ persisted \subseteq 1 .. n
  /\ pc \in {"batch", "ack"} =>
       /\ IsBatch /\ (pc = "ack" => kind = "good")
       /\ \E t \in since .. now :
            /\ [n |-> n, at |-> t] \in admitted
            /\ \A b \in admitted : b.n = n => b = [n |-> n, at |-> t]

LEMMA HandInit == Init => HandInv
BY DEF Init, HandInv, InHand

SessionInv == TypeInv /\ RateInv /\ StoredInv /\ HandInv

LEMMA HandStep == SessionInv /\ [Next]_vars => HandInv'
<1> SUFFICES ASSUME SessionInv, [Next]_vars PROVE HandInv'
  OBVIOUS
<1> USE DEF local, peer, Reject, Reply, InHand, IsBatch, HandInv, SessionInv
<1>1. /\ now \in Nat /\ since \in Nat /\ n \in Nat /\ token_exp \in Nat
      /\ \A b \in admitted \cup refused : b.n \in Nat /\ b.at \in Nat
  BY DEF TypeInv, TypeOK, Stamps
<1>2. CASE Accept \/ RefuseToken \/ Idle \/ PeerGone \/ Unregister
  <2>1. pc' \in {"wait", "finally", "closed"} /\ since' \in {since, now}
        /\ UNCHANGED <<now, n, admitted, refused, persisted>>
    BY <1>2 DEF Accept, RefuseToken, Idle, PeerGone, Unregister
  <2> QED BY <1>1, <2>1
<1>3. CASE Receive
  BY <1>1, <1>3 DEF Receive, TokenExpired
<1>4. CASE ExpireToken
  BY <1>1, <1>4 DEF ExpireToken
<1>5. CASE TooBig \/ Malformed \/ Ping \/ Ignore
  <2>1. pc' \in {"wait", "finally"} /\ since' \in {since, now}
        /\ UNCHANGED <<now, n, admitted, refused, persisted>>
    BY <1>5 DEF TooBig, Malformed, Ping, Ignore
  <2> QED BY <1>1, <2>1
<1>13. CASE NoLogs \/ TooMany \/ BatchInvalid \/ SendAck
  <2>1. pc' \in {"wait", "finally"} /\ since' \in {since, now}
        /\ UNCHANGED <<now, n, admitted, refused, persisted>>
    BY <1>13 DEF NoLogs, TooMany, BatchInvalid, SendAck
  <2> QED BY <1>1, <2>1
<1>6. CASE BatchFails
  <2>1. persisted' \subseteq 1 .. n
    BY <1>1, <1>6 DEF BatchFails
  <2> QED BY <1>1, <1>6, <2>1 DEF BatchFails
<1>7. CASE RateLimited
  <2>1. refused = {} /\ Stamp.n = n
    BY <1>7 DEF RateLimited, Stamp, RateInv, TimesInv
  <2> QED BY <1>1, <1>7, <2>1 DEF RateLimited
<1>8. CASE Admit
  <2>1. admitted' = admitted \cup {[n |-> n, at |-> now]} /\ pc = "handle" /\ pc' = "batch"
    BY <1>8 DEF Admit, Stamp
  <2>2. \A b \in admitted : b.n # n
    BY <1>1, <2>1 DEF RateInv, TimesInv
  <2>3. now \in since .. now
    BY <1>1
  <2>4. /\ [n |-> n, at |-> now] \in admitted'
        /\ \A b \in admitted' : b.n = n => b = [n |-> n, at |-> now]
    BY <2>1, <2>2
  <2> QED BY <1>1, <1>8, <2>1, <2>3, <2>4 DEF Admit
<1>9. CASE Persist
  <2>1. n \in 1 .. n
    BY <1>1, <1>9 DEF Persist
  <2> QED BY <1>1, <1>9, <2>1 DEF Persist
<1>10. CASE Tick
  <2>1. \A t \in since .. now : t \in since .. now'
    BY <1>1, <1>10 DEF Tick
  <2> QED BY <1>1, <1>10, <2>1 DEF Tick
<1>11. CASE Disconnect \/ \E k \in Kinds : Send(k)
  BY <1>11 DEF Disconnect, Send
<1>12. CASE UNCHANGED vars
  BY <1>12 DEF vars
<1> QED
  BY <1>2, <1>3, <1>4, <1>5, <1>6, <1>7, <1>8, <1>9, <1>10, <1>11, <1>12,
     <1>13 DEF Next, Handler

\* A message in hand, put back in front of those that wait.
LEMMA InFront ==
  ASSUME NEW s \in Seq(AllKinds), NEW k \in AllKinds
  PROVE  /\ <<k>> \o s # << >>
         /\ Head(<<k>> \o s) = k /\ Tail(<<k>> \o s) = s
         /\ \A j \in AllKinds : Append(<<k>> \o s, j) = <<k>> \o Append(s, j)
         /\ s # << >> => <<Head(s)>> \o Tail(s) = s
<1>1. <<k>> \in Seq(AllKinds) /\ Len(<<k>>) = 1 /\ <<k>>[1] = k
  OBVIOUS
<1>2. <<k>> \o s \in Seq(AllKinds) /\ Len(<<k>> \o s) = Len(s) + 1 /\ (<<k>> \o s)[1] = k
  BY <1>1, ConcatProperties
<1>3. \A i \in 1 .. Len(s) : (<<k>> \o s)[i + 1] = s[i]
  BY <1>1, ConcatProperties
<1>4. Head(<<k>> \o s) = k /\ <<k>> \o s # << >>
  BY <1>2, EmptySeq
<1>5. Tail(<<k>> \o s) = s
  BY <1>2, <1>3, <1>4, HeadTailProperties, SeqEqual
<1>6. ASSUME NEW j \in AllKinds PROVE Append(<<k>> \o s, j) = <<k>> \o Append(s, j)
  BY <1>1, AppendIsConcat, ConcatAssociative
<1>7. ASSUME s # << >> PROVE <<Head(s)>> \o Tail(s) = s
  <2>1. Tail(s) \in Seq(AllKinds) /\ Head(s) \in AllKinds
    BY <1>7, HeadTailProperties
  <2> QED BY <1>7, <2>1, ConcatProperties, HeadTailProperties, SeqEqual
<1> QED BY <1>4, <1>5, <1>6, <1>7

LEMMA ContractInit == Init => Contract!Init
<1> SUFFICES ASSUME Init PROVE Contract!Init
  OBVIOUS
<1>1. SessionState = "new" /\ Waiting = << >> /\ Handled = 0 /\ Counted = {} /\ Stored = {}
  BY DEF Init, SessionState, Waiting, Handled, Counted, Stored, InHand
<1> QED BY <1>1 DEF Init, Contract!Init

\* What the types and the invariant say of the message in hand, or of the next one.
LEMMA Seen ==
  ASSUME SessionInv
  PROVE  /\ n \in Nat /\ now \in Nat /\ since \in Nat /\ since <= now /\ token_exp \in Nat
         /\ inbox \in Seq(AllKinds) /\ kind \in AllKinds
         /\ \A b \in admitted : b.n \in Nat /\ b.at \in Nat /\ b.n <= n
         /\ InHand => /\ SessionState = "open" /\ Waiting # << >>
                      /\ Head(Waiting) = kind /\ Tail(Waiting) = inbox
                      /\ Handled = n - 1 /\ Handled + 1 = n
                      /\ refused = {} /\ since < token_exp
                      /\ Stored = persisted \ {n} /\ n \notin Stored
         /\ pc = "wait" => /\ SessionState = "open" /\ Waiting = inbox /\ Handled = n
                           /\ Counted = admitted \cup refused /\ Stored = persisted
<1>1. inbox \in Seq(AllKinds)
  <2>1. inbox \in Seq(Kinds)
    BY DEF SessionInv, TypeInv, TypeOK
  <2> QED BY <2>1, KindsAssumption, SeqMonotonic
<1>2. /\ n \in Nat /\ now \in Nat /\ since \in Nat /\ token_exp \in Nat /\ kind \in AllKinds
      /\ \A b \in admitted : b.n \in Nat /\ b.at \in Nat
  BY DEF SessionInv, TypeInv, TypeOK, Stamps
<1>3. since <= now /\ \A b \in admitted \cup refused : b.n <= n
  BY DEF SessionInv, HandInv
<1>4. ASSUME InHand
      PROVE  /\ SessionState = "open" /\ Waiting # << >>
             /\ Head(Waiting) = kind /\ Tail(Waiting) = inbox
             /\ Handled = n - 1 /\ Handled + 1 = n
             /\ refused = {} /\ since < token_exp
             /\ Stored = persisted \ {n} /\ n \notin Stored
  <2>1. SessionState = "open" /\ Waiting = <<kind>> \o inbox /\ Handled = n - 1
    BY <1>4 DEF SessionState, Waiting, Handled, InHand
  <2>2. refused = {}
    BY <1>4 DEF SessionInv, RateInv, TimesInv, InHand
  <2>3. Stored = persisted \ {n} /\ since < token_exp
    BY <1>4 DEF SessionInv, HandInv, Stored
  <2> QED BY <1>1, <1>2, <2>1, <2>2, <2>3, InFront
<1>5. ASSUME pc = "wait"
      PROVE  /\ SessionState = "open" /\ Waiting = inbox /\ Handled = n
             /\ Counted = admitted \cup refused /\ Stored = persisted
  BY <1>3, <1>5 DEF SessionState, Waiting, Handled, Counted, Stored, InHand
<1> QED BY <1>1, <1>2, <1>3, <1>4, <1>5

\* Nothing is in hand after the step, and what was is dealt with.
LEMMA Released ==
  ASSUME SessionInv, SessionInv', pc' \in {"wait", "finally"}
  PROVE  /\ SessionState' = (IF pc' = "wait" THEN "open" ELSE "closed")
         /\ Waiting' = inbox' /\ Handled' = n' /\ Stored' = persisted'
         /\ Counted' = admitted' \cup refused'
<1>1. \A b \in admitted' \cup refused' : b.n <= n'
  BY DEF SessionInv, HandInv
<1> QED BY <1>1 DEF SessionState, Waiting, Handled, Stored, Counted, InHand

\* A step that does none of this.
LEMMA SameToPeer ==
  ASSUME UNCHANGED <<inbox, n, kind, admitted, refused, persisted>>,
         pc' = pc \/ {pc, pc'} \subseteq {"finally", "closed"}
  PROVE  UNCHANGED <<SessionState, Waiting, Handled, Counted, Stored>>
BY DEF SessionState, Waiting, Handled, Counted, Stored, InHand

LEMMA SameCardinality == \A S : Contract!Cardinality(S) = Cardinality(S)
BY DEF Contract!Cardinality, Cardinality

\* An admitted message has its place in the window of all that were sent before it.
LEMMA CountedNow ==
  ASSUME SessionInv, SessionInv', pc \in {"batch", "ack"}, pc' \in {"wait", "finally"},
         UNCHANGED <<n, admitted, refused>>
  PROVE  Contract!CountIfBatch(kind)
<1>1. PICK t \in since .. now :
        /\ [n |-> n, at |-> t] \in admitted
        /\ \A b \in admitted : b.n = n => b = [n |-> n, at |-> t]
  BY DEF SessionInv, HandInv
<1>2. kind \in Contract!Batches
  BY DEF SessionInv, HandInv, IsBatch, Contract!Batches
<1> DEFINE c == [n |-> n, at |-> t]
           W == Window(admitted, c)
           V == {b \in Counted : t - b.at < RATE_WINDOW}
<1>3. InHand /\ refused = {} /\ Handled = n - 1 /\ n \in Nat /\ t \in Nat
      /\ \A b \in admitted : b.n \in Nat /\ b.at \in Nat /\ b.n <= n
  BY <1>1, Seen DEF InHand
<1>4. Counted = admitted \ {c}
  BY <1>1, <1>3 DEF Counted
<1>5. c \in W /\ V = W \ {c}
  BY <1>1, <1>3, <1>4, LimitsAssumption DEF Window
<1>6. IsFiniteSet(W) /\ Cardinality(W) <= RATE_LIMIT
  <2>1. IsFiniteSet(admitted)
    BY DEF SessionInv, RateInv, TimesInv
  <2>2. W \subseteq admitted
    BY DEF Window
  <2>3. Cardinality(W) <= RATE_LIMIT
    BY <1>1 DEF SessionInv, RateInv, RateBound
  <2> QED BY <2>1, <2>2, <2>3, FS_Subset
<1> HIDE DEF W, c
<1>7. Cardinality(V) = Cardinality(W) - 1 /\ Cardinality(W) \in Nat
  BY <1>5, <1>6, FS_RemoveElement, FS_CardinalityType
<1>8. ~Contract!Exceeds(t)
  <2> HIDE DEF V
  <2>1. Cardinality(V) < RATE_LIMIT /\ Cardinality(V) \in Int
    BY <1>6, <1>7, LimitsAssumption
  <2>2. ~(Cardinality(V) >= RATE_LIMIT)
    BY <2>1, LimitsAssumption
  <2> QED BY <2>2, SameCardinality DEF V, Contract!Exceeds
<1>9. Counted' = Counted \cup {[n |-> Handled + 1, at |-> t]}
  <2>1. Counted' = admitted /\ Handled + 1 = n
    BY <1>3, Released
  <2> QED BY <1>1, <1>4, <2>1 DEF c
<1> QED BY <1>2, <1>8, <1>9 DEF Contract!CountIfBatch, Contract!Count

\* A message that is answered, or would be if the peer were there, is dealt with.
LEMMA Answered ==
  ASSUME SessionInv, SessionInv', InHand, NEW code \in Contract!Answers(kind), Reply(code),
         UNCHANGED <<now, token_exp, connected, inbox, n, admitted, refused>>,
         pc = "handle" => ~IsBatch,
         Contract!Store(code)
  PROVE  Contract!Answer \/ Contract!Lose
<1>1. pc' \in {"wait", "finally"}
  BY DEF Reply
<1>2. /\ Waiting' = Tail(Waiting) /\ Handled' = Handled + 1 /\ Handled + 1 = n
      /\ SessionState = "open" /\ Waiting # << >> /\ Head(Waiting) = kind
      /\ SessionState' = (IF pc' = "wait" THEN "open" ELSE "closed")
      /\ since < token_exp
  BY <1>1, Seen, Released
<1>3. Contract!CountIfBatch(kind)
  <2>1. CASE pc \in {"batch", "ack"}
    BY <1>1, <2>1, CountedNow
  <2>2. CASE pc = "handle"
    <3>1. kind \notin Contract!Batches
      BY <2>2 DEF IsBatch, Contract!Batches
    <3>2. refused = {} /\ \A b \in admitted : b.n \in Nat /\ b.n < n
      BY <2>2, Seen DEF SessionInv, RateInv, TimesInv, InHand
    <3>3. Counted = admitted /\ Counted' = admitted
      BY <1>1, <1>2, <3>2, Seen, Released DEF Counted
    <3> QED BY <3>1, <3>3 DEF Contract!CountIfBatch
  <2> QED BY <2>1, <2>2 DEF InHand
<1>4. Contract!Dealt
  BY <1>2 DEF Contract!Dealt
<1>5. Contract!InTime
  BY <1>2 DEF Contract!InTime
<1>6. CASE connected
  <2>1. Contract!Tell(code) /\ pc' = "wait" /\ since' = now
    BY <1>2, <1>6 DEF Reply, Contract!Tell
  <2> QED BY <1>2, <1>3, <1>4, <1>5, <1>6, <2>1 DEF Contract!Answer
<1>7. CASE ~connected
  <2>1. pc' = "finally" /\ UNCHANGED <<frames, since>>
    BY <1>7 DEF Reply
  <2> QED BY <1>2, <1>3, <1>4, <1>5, <1>7, <2>1 DEF Contract!Lose
<1> QED BY <1>6, <1>7

\* A message that ends the session.
LEMMA Rejected ==
  ASSUME SessionInv, SessionInv', NEW m, NEW code, Reject(m, code),
         code \in {"token_expired", "batch_too_large", "rate_limited"},
         Contract!Dealt, Contract!Fatal(Head(Waiting), code), m = Handled + 1,
         Stored' = Stored, since' = since
  PROVE  Contract!Reject
<1>1. pc' = "finally" /\ SessionState' = "closed" /\ connected' = FALSE
  BY Released DEF Reject
<1>2. IF connected THEN Contract!Tell(code) ELSE UNCHANGED frames
  BY DEF Reject, Contract!Tell
<1> QED BY <1>1, <1>2 DEF Contract!Reject

LEMMA ExpireContract ==
  ASSUME SessionInv, SessionInv', ExpireToken
  PROVE  Contract!Reject
<1>1. /\ pc = "wait" /\ inbox # << >> /\ inbox' = Tail(inbox) /\ n' = n + 1
      /\ Reject(n + 1, "token_expired") /\ now >= token_exp
      /\ UNCHANGED <<now, token_exp, since, admitted, refused, persisted>>
  BY DEF ExpireToken, TokenExpired, peer
<1>2. /\ SessionState = "open" /\ Waiting = inbox /\ Handled = n
      /\ Counted = admitted \cup refused /\ Stored = persisted
  BY <1>1, Seen
<1>3. /\ Waiting' = inbox' /\ Handled' = n' /\ Stored' = persisted'
      /\ Counted' = admitted' \cup refused'
  BY <1>1, Released DEF Reject
<1>4. Contract!Dealt
  BY <1>1, <1>2, <1>3 DEF Contract!Dealt
<1>5. Contract!Fatal(Head(Waiting), "token_expired")
  BY <1>1, <1>2, <1>3 DEF Contract!Fatal
<1> QED BY <1>1, <1>2, <1>3, <1>4, <1>5, Rejected

LEMMA TooBigContract ==
  ASSUME SessionInv, SessionInv', TooBig
  PROVE  Contract!Reject
<1>1. /\ pc = "handle" /\ kind = "too_big" /\ Reject(n, "batch_too_large")
      /\ UNCHANGED <<now, token_exp, since, inbox, n, admitted, refused, persisted>>
  BY DEF TooBig, peer, local
<1>2. /\ SessionState = "open" /\ Waiting # << >> /\ Head(Waiting) = kind
      /\ Tail(Waiting) = inbox /\ Handled + 1 = n /\ refused = {} /\ since < token_exp
      /\ \A b \in admitted : b.n \in Nat /\ b.n < n
  BY <1>1, Seen DEF InHand, SessionInv, RateInv, TimesInv
<1>3. Stored = persisted /\ Counted = admitted
  BY <1>1, <1>2, Seen DEF Stored, Counted, InHand
<1>4. /\ Waiting' = inbox' /\ Handled' = n' /\ Stored' = persisted'
      /\ Counted' = admitted' \cup refused'
  BY <1>1, Released DEF Reject
<1>5. Contract!Dealt
  BY <1>1, <1>2, <1>4 DEF Contract!Dealt
<1>6. Contract!Fatal(Head(Waiting), "batch_too_large")
  BY <1>1, <1>2, <1>3, <1>4 DEF Contract!Fatal, Contract!InTime
<1> QED BY <1>1, <1>2, <1>3, <1>4, <1>5, <1>6, Rejected

LEMMA RateContract ==
  ASSUME SessionInv, SessionInv', RateLimited
  PROVE  Contract!Reject
<1>1. /\ pc = "handle" /\ IsBatch /\ Reject(n, "rate_limited") /\ refused' = {Stamp}
      /\ UNCHANGED <<now, token_exp, since, inbox, n, admitted, persisted>>
  BY DEF RateLimited, peer
<1>2. /\ SessionState = "open" /\ Waiting # << >> /\ Head(Waiting) = kind
      /\ Tail(Waiting) = inbox /\ Handled + 1 = n /\ refused = {} /\ since < token_exp
      /\ \A b \in admitted : b.n \in Nat /\ b.n < n
  BY <1>1, Seen DEF InHand, SessionInv, RateInv, TimesInv
<1>3. Stored = persisted /\ Counted = admitted
  BY <1>1, <1>2, Seen DEF Stored, Counted, InHand
<1>4. /\ Waiting' = inbox' /\ Handled' = n' /\ Stored' = persisted'
      /\ Counted' = admitted' \cup refused'
  BY <1>1, Released DEF Reject
<1>5. Contract!Dealt
  BY <1>1, <1>2, <1>4 DEF Contract!Dealt
<1> DEFINE V == {b \in Counted : now - b.at < RATE_WINDOW}
           W == Window(admitted' \cup refused', Stamp)
<1>6. W = V \cup {Stamp} /\ Stamp \notin V
  <2>1. Stamp.n = n /\ Stamp.at = now /\ now - now < RATE_WINDOW
    BY Seen, LimitsAssumption DEF Stamp
  <2>2. \A b \in admitted' \cup refused' : b.n <= n
    BY <1>1, <1>2, <2>1, Seen
  <2> QED BY <1>1, <1>2, <1>3, <2>1, <2>2 DEF Window
<1>7. IsFiniteSet(V)
  BY <1>3, FS_Subset DEF SessionInv, RateInv, TimesInv
<1>8. Cardinality(W) > RATE_LIMIT
  BY <1>1 DEF SessionInv, RateInv, NoFalseAlarm, Window
<1> HIDE DEF V, W
<1>9. Cardinality(V) >= RATE_LIMIT
  <2>1. Cardinality(V) \in Nat /\ Cardinality(W) = Cardinality(V) + 1
    BY <1>6, <1>7, FS_CardinalityType, FS_AddElement
  <2> QED BY <1>8, <2>1, LimitsAssumption
<1>10. Contract!Exceeds(now) /\ Contract!Count(now)
  <2>1. Contract!Exceeds(now)
    BY <1>9, SameCardinality DEF V, Contract!Exceeds
  <2>2. Contract!Count(now)
    BY <1>1, <1>2, <1>3, <1>4 DEF Contract!Count, Stamp
  <2> QED BY <2>1, <2>2
<1>11. Contract!Fatal(Head(Waiting), "rate_limited")
  <2>1. now \in since .. now
    BY Seen
  <2>2. Contract!InTime /\ kind \in Contract!Batches
    BY <1>1, <1>2 DEF IsBatch, Contract!Batches, Contract!InTime
  <2> QED BY <1>2, <1>10, <2>1, <2>2 DEF Contract!Fatal
<1> QED BY <1>1, <1>2, <1>3, <1>4, <1>5, <1>11, Rejected

\* Every step is one of the contract, or to the peer none at all.
LEMMA ContractStep ==
  ASSUME SessionInv, SessionInv', [Next]_vars
  PROVE  [Contract!Next]_Contract!vars
<1> USE DEF local, peer
<1>1. CASE Tick
  <2>1. UNCHANGED <<SessionState, Waiting, Handled, Counted, Stored>>
    BY <1>1, SameToPeer DEF Tick
  <2> QED BY <1>1, <2>1 DEF Tick, Contract!Tick, Contract!Next
<1>2. CASE Disconnect
  <2>1. UNCHANGED <<SessionState, Waiting, Handled, Counted, Stored>>
    BY <1>2, SameToPeer DEF Disconnect
  <2> QED BY <1>2, <2>1 DEF Disconnect, Contract!Vanish, Contract!Next
<1>3. ASSUME NEW k \in Kinds, Send(k) PROVE Contract!Arrive(k)
  <2>1. UNCHANGED <<SessionState, Handled, Counted, Stored>>
    BY <1>3 DEF Send, SessionState, Handled, Counted, Stored, InHand
  <2>2. inbox \in Seq(AllKinds) /\ kind \in AllKinds /\ k \in AllKinds
    BY Seen, KindsAssumption
  <2>3. Append(<<kind>> \o inbox, k) = <<kind>> \o Append(inbox, k)
    BY <2>2, InFront
  <2>4. Waiting' = Append(Waiting, k)
    BY <1>3, <2>3 DEF Send, Waiting, InHand
  <2> QED BY <1>3, <2>1, <2>4 DEF Send, Contract!Arrive
<1>4. CASE Accept
  <2>1. /\ SessionState = "new" /\ SessionState' = "open"
        /\ UNCHANGED <<Waiting, Handled, Counted, Stored>>
    BY <1>4 DEF Accept, SessionState, Waiting, Handled, Counted, Stored, InHand
  <2> QED BY <1>4, <2>1 DEF Accept, Contract!Open, Contract!Next
<1>5. CASE RefuseToken
  <2>1. /\ SessionState = "new" /\ SessionState' = "closed"
        /\ UNCHANGED <<Waiting, Handled, Counted, Stored>>
    BY <1>5 DEF RefuseToken, SessionState, Waiting, Handled, Counted, Stored, InHand
  <2> QED BY <1>5, <2>1 DEF RefuseToken, Contract!Refuse, Contract!Next
<1>6. CASE Idle \/ PeerGone
  <2>1. /\ SessionState = "open" /\ SessionState' = "closed" /\ Waiting = << >>
        /\ UNCHANGED <<Waiting, Handled, Counted, Stored>> /\ connected' = FALSE
    <3>1. connected' = FALSE
      BY <1>6 DEF Idle, PeerGone, SessionInv, TypeInv, TypeOK
    <3> QED BY <1>6, <3>1
            DEF Idle, PeerGone, SessionState, Waiting, Handled, Counted, Stored, InHand
  <2> QED BY <1>6, <2>1 DEF Idle, PeerGone, Contract!End, Contract!Next
<1>7. CASE Receive
  <2>1. /\ pc = "wait" /\ pc' = "handle" /\ inbox # << >>
        /\ kind' = Head(inbox) /\ inbox' = Tail(inbox) /\ n' = n + 1
        /\ UNCHANGED <<now, token_exp, connected, since, frames, admitted, refused, persisted>>
    BY <1>7 DEF Receive
  <2>2. Waiting = inbox /\ Waiting' = <<Head(inbox)>> \o Tail(inbox)
    BY <2>1 DEF Waiting, InHand
  <2>3. Waiting' = Waiting
    <3>1. Head(inbox) \in AllKinds
      BY <2>1, Seen, HeadTailProperties
    <3> QED BY <2>1, <2>2, <3>1, Seen, InFront
  <2>4. Handled' = Handled
    BY <2>1, Seen DEF Handled, InHand
  <2>5. UNCHANGED <<SessionState, Counted, Stored>>
    BY <2>1, <2>4 DEF SessionState, Counted, Stored, InHand
  <2> QED BY <2>1, <2>3, <2>4, <2>5 DEF Contract!vars
<1>8. CASE ExpireToken \/ TooBig \/ RateLimited
  BY <1>8, ExpireContract, TooBigContract, RateContract DEF Contract!Next
<1>9. CASE Malformed \/ Ping
  <2>1. PICK code \in Contract!Answers(kind) : Reply(code) /\ code \in {"invalid_log", "pong"}
    BY <1>9 DEF Malformed, Ping, Contract!Answers
  <2>2. pc = "handle" /\ ~IsBatch /\ persisted' = persisted
    BY <1>9 DEF Malformed, Ping, IsBatch
  <2>3. Stored' = Stored
    BY <2>1, <2>2 DEF Reply, Stored
  <2>4. Contract!Store(code)
    BY <2>1, <2>3 DEF Contract!Store
  <2> QED BY <1>9, <2>1, <2>2, <2>4, Answered DEF Malformed, Ping, InHand, Contract!Next
<1>10. CASE Ignore
  <2>1. /\ pc = "handle" /\ pc' = "wait" /\ kind = "other" /\ since' = now
        /\ UNCHANGED <<now, token_exp, connected, inbox, n, frames, admitted, refused, persisted>>
    BY <1>10 DEF Ignore
  <2>2. /\ SessionState = "open" /\ Waiting # << >> /\ Head(Waiting) = kind
        /\ Tail(Waiting) = inbox /\ Handled = n - 1 /\ Handled + 1 = n /\ since < token_exp
        /\ refused = {} /\ \A b \in admitted : b.n \in Nat /\ b.n < n
    BY <2>1, Seen DEF InHand, SessionInv, RateInv, TimesInv
  <2>3. /\ SessionState' = "open" /\ Waiting' = inbox /\ Handled' = n
        /\ Stored' = persisted /\ Counted' = admitted
    BY <2>1, <2>2, Released
  <2>4. Stored = persisted /\ Counted = admitted
    BY <2>1, <2>2, Seen DEF Stored, Counted
  <2> QED BY <2>1, <2>2, <2>3, <2>4
          DEF Contract!Ignore, Contract!Dealt, Contract!InTime, Contract!Next
<1>11. CASE Admit
  <2>1. /\ pc = "handle" /\ pc' = "batch" /\ admitted' = admitted \cup {Stamp}
        /\ UNCHANGED <<now, token_exp, connected, since, inbox, n, kind, frames, refused, persisted>>
    BY <1>11 DEF Admit
  <2>2. UNCHANGED <<SessionState, Waiting, Handled, Stored>>
    BY <2>1 DEF SessionState, Waiting, Handled, Stored, InHand
  <2>3. ~(Stamp.n <= Handled)
    BY <2>1, Seen DEF Stamp, InHand
  <2>4. Counted' = Counted
    BY <2>1, <2>2, <2>3 DEF Counted
  <2> QED BY <2>1, <2>2, <2>4 DEF Contract!vars
<1>12. CASE NoLogs \/ TooMany \/ BatchInvalid
  <2>1. PICK code \in Contract!Answers(kind) :
          Reply(code) /\ code \in {"invalid_log", "batch_too_large"}
    BY <1>12 DEF NoLogs, TooMany, BatchInvalid, Contract!Answers
  <2>2. pc = "batch" /\ persisted' = persisted
    BY <1>12 DEF NoLogs, TooMany, BatchInvalid
  <2>3. Stored' = Stored
    BY <2>1, <2>2 DEF Reply, Stored
  <2>4. Contract!Store(code)
    BY <2>1, <2>3 DEF Contract!Store
  <2> QED BY <1>12, <2>1, <2>2, <2>4, Answered
          DEF NoLogs, TooMany, BatchInvalid, InHand, Contract!Next
<1>13. CASE BatchFails
  <2>1. pc = "batch" /\ kind = "good" /\ Reply("server_error")
        /\ persisted' \in {persisted, persisted \cup {n}}
    BY <1>13 DEF BatchFails
  <2>2. "server_error" \in Contract!Answers(kind)
    BY <2>1 DEF Contract!Answers
  <2>3. Handled + 1 = n /\ Stored = persisted /\ Stored' = persisted'
    BY <2>1, Seen DEF InHand, Stored, Reply
  <2>4. Contract!Store("server_error")
    BY <2>1, <2>3 DEF Contract!Store
  <2> QED BY <1>13, <2>1, <2>2, <2>4, Answered DEF BatchFails, InHand, Contract!Next
<1>14. CASE Persist
  <2>1. /\ pc = "batch" /\ pc' = "ack" /\ persisted' = persisted \cup {n}
        /\ UNCHANGED <<now, token_exp, connected, since, inbox, n, kind, frames, admitted, refused>>
    BY <1>14 DEF Persist
  <2>2. n \notin persisted
    BY <2>1 DEF SessionInv, HandInv, InHand
  <2>3. UNCHANGED <<SessionState, Waiting, Handled, Counted, Stored>>
    BY <2>1, <2>2 DEF SessionState, Waiting, Handled, Counted, Stored, InHand
  <2> QED BY <2>1, <2>3 DEF Contract!vars
<1>15. CASE SendAck
  <2>1. pc = "ack" /\ Reply("ack") /\ persisted' = persisted
    BY <1>15 DEF SendAck
  <2>2. kind = "good" /\ n \in persisted
    BY <2>1 DEF SessionInv, HandInv, InHand
  <2>3. "ack" \in Contract!Answers(kind)
    BY <2>2 DEF Contract!Answers
  <2>4. Handled + 1 = n /\ Stored = persisted \ {n} /\ Stored' = persisted
    BY <2>1, Seen DEF InHand, Stored, Reply
  <2>5. Contract!Store("ack")
    BY <2>2, <2>4 DEF Contract!Store
  <2> QED BY <1>15, <2>1, <2>3, <2>5, Answered DEF SendAck, InHand, Contract!Next
<1>16. CASE Unregister
  <2>1. UNCHANGED <<SessionState, Waiting, Handled, Counted, Stored>>
    BY <1>16, SameToPeer DEF Unregister
  <2> QED BY <1>16, <2>1 DEF Unregister, Contract!vars
<1>17. CASE UNCHANGED vars
  <2>1. UNCHANGED <<SessionState, Waiting, Handled, Counted, Stored>>
    BY <1>17, SameToPeer DEF vars
  <2> QED BY <1>17, <2>1 DEF vars, Contract!vars
<1> QED
  BY <1>1, <1>2, <1>3, <1>4, <1>5, <1>6, <1>7, <1>8, <1>9, <1>10, <1>11, <1>12, <1>13,
     <1>14, <1>15, <1>16, <1>17
  DEF Next, Handler, Contract!Next

\* However the steps of the handler, of the peer and of time mix, each message takes effect
\* at once, in order, and is counted by a rate limit that forgets nothing.
THEOREM SessionIsImplemented == Spec => ImplementsSession
<1>1. Init => SessionInv /\ Contract!Init
  BY TypeInit, RateInit, StoredInit, HandInit, ContractInit DEF SessionInv
<1>2. SessionInv /\ [Next]_vars => SessionInv'
  BY TypeStep, RateStep, StoredStep, HandStep DEF SessionInv
<1>3. SessionInv /\ SessionInv' /\ [Next]_vars => [Contract!Next]_Contract!vars
  BY ContractStep
<1> QED BY <1>1, <1>2, <1>3, PTL DEF Spec, ImplementsSession, Contract!Spec

===============================================================================

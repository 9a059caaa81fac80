--------------------------- MODULE ChatStreamProofs ---------------------------
(* Theorems about ChatStream, for any size of the buffer and any number of chunks. *)
EXTENDS ChatStream, SequenceTheorems, TLAPS

Frames == [event : {"init", "message", "end", "error"}, tokens : Seq(Nat)]

LEMMA FrameAdded ==
  ASSUME NEW S, NEW seq \in Seq(S), NEW f \in S
  PROVE  /\ Append(seq, f) \in Seq(S)
         /\ Len(seq) \in Nat /\ Len(Append(seq, f)) = Len(seq) + 1
         /\ DOMAIN seq = 1 .. Len(seq)
         /\ DOMAIN Append(seq, f) = DOMAIN seq \cup {Len(seq) + 1}
         /\ \A j \in DOMAIN seq : Append(seq, f)[j] = seq[j]
         /\ Append(seq, f)[Len(seq) + 1] = f
OBVIOUS

\* A chunk that joins the end of the buffer joins the end of the whole text.
LEMMA ConcatAppend ==
  ASSUME NEW s \in Seq(Nat), NEW t \in Seq(Nat), NEW e \in Nat
  PROVE  s \o Append(t, e) = Append(s \o t, e)
<1>1. /\ s \o t \in Seq(Nat) /\ Len(s \o t) = Len(s) + Len(t)
      /\ \A i \in 1 .. Len(s) + Len(t) :
           (s \o t)[i] = IF i <= Len(s) THEN s[i] ELSE t[i - Len(s)]
  BY ConcatProperties
<1>2. /\ Append(t, e) \in Seq(Nat) /\ Len(Append(t, e)) = Len(t) + 1
      /\ \A i \in 1 .. Len(t) : Append(t, e)[i] = t[i]
      /\ Append(t, e)[Len(t) + 1] = e
  BY AppendProperties
<1>3. /\ s \o Append(t, e) \in Seq(Nat)
      /\ Len(s \o Append(t, e)) = Len(s) + Len(Append(t, e))
      /\ \A i \in 1 .. Len(s) + Len(Append(t, e)) :
           (s \o Append(t, e))[i] = IF i <= Len(s) THEN s[i] ELSE Append(t, e)[i - Len(s)]
  BY <1>2, ConcatProperties
<1>4. /\ Append(s \o t, e) \in Seq(Nat)
      /\ Len(Append(s \o t, e)) = Len(s) + Len(t) + 1
      /\ \A i \in 1 .. Len(s) + Len(t) : Append(s \o t, e)[i] = (s \o t)[i]
      /\ Append(s \o t, e)[Len(s) + Len(t) + 1] = e
  BY <1>1, AppendProperties
<1>5. Len(s) \in Nat /\ Len(t) \in Nat
  BY LenProperties
<1>6. ASSUME NEW i \in 1 .. Len(s) + Len(t) + 1
      PROVE  (s \o Append(t, e))[i] = Append(s \o t, e)[i]
  <2>1. CASE i <= Len(s)
    BY <1>1, <1>2, <1>3, <1>4, <1>5, <2>1
  <2>2. CASE i > Len(s) /\ i <= Len(s) + Len(t)
    <3>1. i - Len(s) \in 1 .. Len(t)
      BY <1>5, <2>2
    <3> QED BY <1>1, <1>2, <1>3, <1>4, <1>5, <2>2, <3>1
  <2>3. CASE i = Len(s) + Len(t) + 1
    <3>1. i - Len(s) = Len(t) + 1
      BY <1>5, <2>3
    <3> QED BY <1>2, <1>3, <1>4, <1>5, <2>3, <3>1
  <2> QED BY <1>5, <2>1, <2>2, <2>3
<1> QED BY <1>2, <1>3, <1>4, <1>5, <1>6, SeqEqual

-----------------------------------------------------------------------------
(* Types. *)

LEMMA EmptyType ==
  << >> \in Seq(Nat) /\ << >> \in Seq(Frames) /\ Len(<< >>) = 0
BY EmptySeq

LEMMA FrameType ==
  ASSUME NEW event \in {"init", "message", "end", "error"}, NEW tokens \in Seq(Nat)
  PROVE  /\ Frame(event, tokens) \in Frames
         /\ Frame(event, tokens).event = event /\ Frame(event, tokens).tokens = tokens
BY DEF Frame, Frames

LEMMA OneFrame ==
  ASSUME NEW f \in Frames
  PROVE  /\ <<f>> \in Seq(Frames) /\ <<f>> # << >>
         /\ DOMAIN <<f>> = {1} /\ Len(<<f>>) = 1 /\ <<f>>[1] = f
OBVIOUS

LEMMA InitFrame ==
  Frame("init", << >>) \in Frames /\ Frame("init", << >>).event = "init"
<1>1. << >> \in Seq(Nat)
  BY EmptyType
<1> QED BY <1>1, FrameType

LEMMA TypeInit == Init => TypeOK
BY EmptyType DEF Init, TypeOK, Frames

LEMMA TypeStep == TypeOK /\ [Next]_vars => TypeOK'
<1> SUFFICES ASSUME TypeOK, [Next]_vars PROVE TypeOK'
  OBVIOUS
<1> USE EmptyType, FrameType, FrameAdded DEF TypeOK, Frames
<1>1. ASSUME NEW code \in {400, 404, 500}, Fail(code) PROVE TypeOK'
  BY <1>1 DEF Fail
<1>2. CASE Start
  <2>1. <<Frame("init", << >>)>> \in Seq(Frames)
    BY InitFrame, OneFrame
  <2> QED BY <1>2, <2>1 DEF Start
<1>3. CASE Chunk
  <2>1. Len(upstream) + 1 \in Nat
    OBVIOUS
  <2>2. pc' \in {"yield", "stream"}
    BY <1>3 DEF Chunk
  <2> QED BY <1>3, <2>1, <2>2 DEF Chunk
<1>4. /\ Append(frames, Frame("message", buffer_array)) \in Seq(Frames)
      /\ text \o buffer_array \in Seq(Nat)
  BY ConcatProperties
<1>11. CASE YieldMessage
  <2>1. /\ pc' = "stream" /\ buffer_array' \in Seq(Nat)
    BY <1>11 DEF YieldMessage, Cleared
  <2> QED BY <1>4, <1>11, <2>1 DEF YieldMessage
<1>12. CASE Flush
  BY <1>4, <1>12 DEF Flush
<1>5. CASE End
  <2>1. Append(frames, Frame("end", full_response)) \in Seq(Frames)
    OBVIOUS
  <2> QED BY <1>5, <2>1 DEF End
<1>6. CASE UpstreamFails
  <2>1. Append(frames, Frame("error", << >>)) \in Seq(Frames)
    OBVIOUS
  <2> QED BY <1>6, <2>1 DEF UpstreamFails
<1>7. CASE Leave
  BY <1>7 DEF Leave
<1>8. CASE UNCHANGED vars
  BY <1>8 DEF vars
<1> QED BY <1>1, <1>2, <1>3, <1>5, <1>6, <1>7, <1>8, <1>11, <1>12 DEF Next

\* Every variable keeps its type.
THEOREM TypeCorrect == Spec => []TypeOK
BY TypeInit, TypeStep, PTL DEF Spec

-----------------------------------------------------------------------------
(* The frames. *)

IsMessage(j) == frames[j].event = "message"

\* The buffer is never larger than a frame, and while chunks may still come all message
\* frames are full.
FramesInv ==
  /\ Framing
  /\ pc = "request" => frames = << >> /\ buffer_array = << >>
  /\ pc \in {"stream", "yield", "end"} => frames # << >>
  /\ pc \in {"request", "stream"} => Len(buffer_array) < buffer_size
  /\ pc = "yield" => Len(buffer_array) = buffer_size
  /\ pc \in {"stream", "yield"} =>
       \A j \in DOMAIN frames : IsMessage(j) => Len(frames[j].tokens) = buffer_size

LEMMA FramesInit == Init => FramesInv
BY EmptyType, BufferAssumption DEF Init, FramesInv, Framing

\* A frame follows the frames of an open stream.
LEMMA FrameFollows ==
  ASSUME TypeOK, FramesInv, pc \in {"stream", "yield", "end"},
         NEW event \in {"message", "end", "error"}, NEW tokens \in Seq(Nat),
         frames' = Append(frames, Frame(event, tokens)),
         event = "message" => /\ pc # "end" /\ pc' # "closed"
                              /\ Len(tokens) \in 1 .. buffer_size,
         event # "message" => pc' = "closed"
  PROVE  Framing' /\ frames' # << >>
<1>1. /\ DOMAIN frames = 1 .. Len(frames) /\ Len(frames) \in Nat \ {0}
      /\ Len(frames') = Len(frames) + 1
      /\ DOMAIN frames' = DOMAIN frames \cup {Len(frames) + 1}
      /\ \A j \in DOMAIN frames : frames'[j] = frames[j]
      /\ frames'[Len(frames) + 1].event = event
      /\ frames'[Len(frames) + 1].tokens = tokens
  <2>1. frames \in Seq(Frames) /\ Frame(event, tokens) \in Frames
    BY FrameType DEF TypeOK, Frames
  <2>2. frames # << >>
    BY DEF FramesInv
  <2> QED BY <2>1, <2>2, FrameAdded, FrameType, EmptySeq
<1>2. \A j \in DOMAIN frames : frames[j].event \notin {"end", "error"}
  BY DEF FramesInv, Framing
<1>3. ASSUME NEW j \in DOMAIN frames, IsMessage(j), event = "message"
      PROVE  Len(frames[j].tokens) = buffer_size
  BY <1>3 DEF FramesInv, IsMessage
<1> QED BY <1>1, <1>2, <1>3 DEF FramesInv, Framing, IsMessage

LEMMA FramesStep == TypeOK /\ FramesInv /\ [Next]_vars => FramesInv'
<1> SUFFICES ASSUME TypeOK, FramesInv, [Next]_vars PROVE FramesInv'
  OBVIOUS
<1> USE BufferAssumption
<1>1. ASSUME NEW code \in {400, 404, 500}, Fail(code) PROVE FramesInv'
  BY <1>1 DEF Fail, FramesInv, Framing
<1>2. CASE Start
  <2>1. /\ frames' = <<Frame("init", << >>)>> /\ pc = "request" /\ pc' = "stream"
        /\ buffer_array' = buffer_array
    BY <1>2 DEF Start
  <2>2. /\ DOMAIN frames' = {1} /\ Len(frames') = 1 /\ frames'[1].event = "init"
        /\ frames' # << >>
    BY <2>1, InitFrame, OneFrame
  <2> QED BY <2>1, <2>2 DEF FramesInv, Framing, IsMessage
<1>3. CASE Chunk
  <2>1. /\ pc = "stream" /\ frames' = frames
        /\ Len(buffer_array') = Len(buffer_array) + 1
        /\ pc' = IF Full(buffer_array') THEN "yield" ELSE "stream"
    BY <1>3 DEF Chunk, TypeOK
  <2>2. Len(buffer_array) \in Nat /\ Len(buffer_array) < buffer_size
    BY <2>1 DEF FramesInv, TypeOK
  <2>3. /\ pc' = "yield" => Len(buffer_array') = buffer_size
        /\ pc' = "stream" => Len(buffer_array') < buffer_size
        /\ pc' \in {"yield", "stream"}
    BY <2>1, <2>2 DEF Full
  <2> QED BY <2>1, <2>3 DEF FramesInv, Framing, IsMessage
<1>4. CASE YieldMessage
  <2>1. /\ pc = "yield" /\ pc' = "stream" /\ buffer_array' = << >>
        /\ frames' = Append(frames, Frame("message", buffer_array))
        /\ Len(buffer_array) = buffer_size /\ buffer_array \in Seq(Nat)
    BY <1>4 DEF YieldMessage, Cleared, FramesInv, TypeOK
  <2>2. Framing' /\ frames' # << >>
    BY <2>1, FrameFollows
  <2>3. \A j \in DOMAIN frames' : IsMessage(j)' => Len(frames'[j].tokens) = buffer_size
    <3>1. frames \in Seq(Frames) /\ Frame("message", buffer_array) \in Frames
      BY <2>1, FrameType DEF TypeOK, Frames
    <3> QED BY <2>1, <3>1, FrameAdded, FrameType DEF FramesInv, IsMessage
  <2> QED BY <2>1, <2>2, <2>3, EmptyType DEF FramesInv
<1>5. CASE Flush
  <2>1. /\ pc = "stream" /\ pc' = "end" /\ buffer_array # << >>
        /\ frames' = Append(frames, Frame("message", buffer_array))
        /\ Len(buffer_array) < buffer_size /\ buffer_array \in Seq(Nat)
    BY <1>5 DEF Flush, Rest, FramesInv, TypeOK
  <2>2. Len(buffer_array) \in 1 .. buffer_size
    BY <2>1, EmptySeq
  <2>3. Framing' /\ frames' # << >>
    BY <2>1, <2>2, FrameFollows
  <2> QED BY <2>1, <2>3 DEF FramesInv
<1>6. CASE End
  <2>1. /\ pc \in {"stream", "end"} /\ pc' = "closed" /\ full_response \in Seq(Nat)
        /\ frames' = Append(frames, Frame("end", full_response))
    BY <1>6 DEF End, TypeOK
  <2>2. Framing'
    BY <2>1, FrameFollows
  <2> QED BY <2>1, <2>2 DEF FramesInv
<1>7. CASE UpstreamFails
  <2>1. /\ pc = "stream" /\ pc' = "closed" /\ frames' = Append(frames, Frame("error", << >>))
    BY <1>7 DEF UpstreamFails
  <2>2. Framing'
    BY <2>1, EmptyType, FrameFollows
  <2> QED BY <2>1, <2>2 DEF FramesInv
<1>8. CASE Leave
  BY <1>8 DEF Leave, FramesInv, Framing
<1>9. CASE UNCHANGED vars
  BY <1>9 DEF vars, FramesInv, Framing, IsMessage
<1> QED BY <1>1, <1>2, <1>3, <1>4, <1>5, <1>6, <1>7, <1>8, <1>9 DEF Next

\* For any size of the buffer the frames keep to the protocol: init first, end or error last
\* and once, and only the last message may be short.
THEOREM FramesKeepProtocol == Spec => []Framing
<1>1. FramesInv => Framing
  BY DEF FramesInv
<1> QED BY <1>1, TypeInit, TypeStep, FramesInit, FramesStep, PTL DEF Spec

-----------------------------------------------------------------------------
(* The text. *)

\* The reply that is kept for the end frame is all that the model has said, and while the
\* stream is open so are the frames and the buffer.
TextInv ==
  /\ full_response = upstream
  /\ pc \in {"request", "stream", "yield"} => text \o buffer_array = upstream
  /\ pc = "end" => text = upstream
  /\ WholeReply

LEMMA TextInit == Init => TextInv
<1> SUFFICES ASSUME Init PROVE TextInv
  OBVIOUS
<1>1. << >> \o << >> = << >>
  OBVIOUS
<1> QED BY <1>1, EmptyType DEF Init, TextInv, WholeReply, Ended

\* The end is not there before the stream is closed.
LEMMA NotEnded ==
  ASSUME TypeOK, FramesInv, pc # "closed"
  PROVE  ~Ended
BY DEF FramesInv, Framing, Ended

LEMMA TextStep == TypeOK /\ FramesInv /\ FramesInv' /\ TypeOK' /\ TextInv /\ [Next]_vars => TextInv'
<1> SUFFICES ASSUME TypeOK, TypeOK', FramesInv, FramesInv', TextInv, [Next]_vars
             PROVE  TextInv'
  OBVIOUS
<1>1. pc' # "closed" => ~Ended'
  BY DEF FramesInv, Framing, Ended
<1>2. ASSUME NEW code \in {400, 404, 500}, Fail(code) PROVE TextInv'
  <2>1. ~Ended'
    BY <1>2, NotEnded DEF Fail, Ended
  <2> QED BY <1>2, <2>1 DEF Fail, TextInv, WholeReply
<1>3. CASE Start
  BY <1>1, <1>3 DEF Start, TextInv, WholeReply
<1>4. CASE Chunk
  <2>1. Len(upstream) + 1 \in Nat /\ text \in Seq(Nat) /\ buffer_array \in Seq(Nat)
    BY DEF TypeOK
  <2>2. /\ upstream' = Append(upstream, Len(upstream) + 1)
        /\ buffer_array' = Append(buffer_array, Len(upstream) + 1)
        /\ full_response' = Append(full_response, Len(upstream) + 1)
        /\ text' = text /\ pc = "stream" /\ pc' \in {"stream", "yield"}
    BY <1>4 DEF Chunk
  <2>3. text' \o buffer_array' = Append(text \o buffer_array, Len(upstream) + 1)
    BY <2>1, <2>2, ConcatAppend
  <2> QED BY <1>1, <2>2, <2>3 DEF TextInv, WholeReply
<1>5. CASE YieldMessage
  <2>1. /\ text' = text \o buffer_array /\ buffer_array' = << >> /\ upstream' = upstream
        /\ full_response' = full_response /\ pc = "yield" /\ pc' = "stream"
    BY <1>5 DEF YieldMessage, Cleared
  <2>2. text' \o << >> = text'
    BY ConcatEmptySeq DEF TypeOK
  <2> QED BY <1>1, <2>1, <2>2 DEF TextInv, WholeReply
<1>6. CASE Flush
  BY <1>1, <1>6 DEF Flush, TextInv, WholeReply
<1>7. CASE End
  <2>1. /\ frames' = Append(frames, Frame("end", full_response)) /\ pc' = "closed"
        /\ UNCHANGED <<upstream, full_response, text>>
    BY <1>7 DEF End
  <2>2. text = upstream
    <3>1. CASE pc = "end"
      BY <3>1 DEF TextInv
    <3>2. CASE pc = "stream" /\ buffer_array = << >>
      <4>1. text \o << >> = text
        BY ConcatEmptySeq DEF TypeOK
      <4> QED BY <3>2, <4>1 DEF TextInv
    <3> QED BY <1>7, <3>1, <3>2 DEF End, Rest
  <2>3. frames'[Len(frames')] = Frame("end", upstream)
    <3>1. frames \in Seq(Frames) /\ Frame("end", full_response) \in Frames
      BY FrameType DEF TypeOK, Frames
    <3> QED BY <2>1, <3>1, FrameAdded DEF TextInv
  <2> QED BY <2>1, <2>2, <2>3 DEF TextInv, WholeReply
<1>8. CASE UpstreamFails
  <2>1. ~Ended'
    <3>1. frames \in Seq(Frames) /\ Frame("error", << >>) \in Frames
      BY FrameType, EmptyType DEF TypeOK, Frames
    <3>2. \A j \in DOMAIN frames : frames[j].event # "end"
      BY <1>8, NotEnded DEF UpstreamFails, Ended
    <3>3. frames' = Append(frames, Frame("error", << >>))
      BY <1>8 DEF UpstreamFails
    <3>4. /\ DOMAIN frames' = DOMAIN frames \cup {Len(frames) + 1}
          /\ \A j \in DOMAIN frames : frames'[j] = frames[j]
          /\ frames'[Len(frames) + 1] = Frame("error", << >>)
      BY <3>1, <3>3, FrameAdded
    <3>5. Frame("error", << >>).event # "end"
      BY DEF Frame
    <3> QED BY <3>2, <3>4, <3>5 DEF Ended
  <2> QED BY <1>8, <2>1 DEF UpstreamFails, TextInv, WholeReply
<1>9. CASE Leave
  BY <1>1, <1>9 DEF Leave, TextInv, WholeReply
<1>10. CASE UNCHANGED vars
  BY <1>10 DEF vars, TextInv, WholeReply, Ended
<1> QED BY <1>2, <1>3, <1>4, <1>5, <1>6, <1>7, <1>8, <1>9, <1>10 DEF Next

\* Nothing of the model's text is lost, doubled or out of order, wherever the stream is, and
\* a stream that has ended has delivered all of it.
THEOREM ReplyIsWhole == Spec => []WholeReply
<1>1. TextInv => WholeReply
  BY DEF TextInv
<1> QED BY <1>1, TypeInit, TypeStep, FramesInit, FramesStep, TextInit, TextStep, PTL DEF Spec

===============================================================================

----------------------------- MODULE ChatStream -----------------------------
(***************************************************************************)
(* GET /api/mobile_chat (app/routes/chat.py): the checks before the        *)
(* response, then the generator SSEHelper.sse_yield_data                   *)
(* (app/utils/sse_helper.py), which runs only as far as the server pulls   *)
(* frames from it.  The language model behind it streams chunks, ends or   *)
(* fails whenever it likes, and the client may leave at any frame.         *)
(***************************************************************************)
EXTENDS Integers, Sequences

CONSTANTS
  buffer_size,
  MaxChunks       \* bound: chunks that the model streams

ASSUME BufferAssumption == buffer_size \in Nat \ {0}
ASSUME BoundAssumption == MaxChunks \in Nat

VARIABLES
  pc,             \* where the handler or the generator is
  status,         \* the HTTP status, 0 until it is sent
  upstream,       \* what the model has streamed: the texts of its chunks
  buffer_array, full_response,
  frames,         \* the frames the client received: [event, tokens]
  text            \* history: the tokens of its message frames, put together

vars == <<pc, status, upstream, buffer_array, full_response, frames, text>>

Init ==
  /\ pc = "request"
  /\ status = 0
  /\ upstream = << >>
  /\ buffer_array = << >>
  /\ full_response = << >>
  /\ frames = << >>
  /\ text = << >>

Frame(event, tokens) == [event |-> event, tokens |-> tokens]

\* An empty prompt (400), no such user (404), no API key (500).
Fail(code) ==
  /\ pc = "request"
  /\ status' = code
  /\ pc' = "closed"
  /\ UNCHANGED <<upstream, buffer_array, full_response, frames, text>>

\* The response is made of the generator, whose first frame starts it.
Start ==
  /\ pc = "request"
  /\ status' = 200
  /\ frames' = <<Frame("init", << >>)>>
  /\ pc' = "stream"
  /\ UNCHANGED <<upstream, buffer_array, full_response, text>>

\* Mutant: one chunk too many.
MoreThanFull(buffer) == Len(buffer) > buffer_size

Full(buffer) == Len(buffer) >= buffer_size

\* A chunk with text joins the buffer; one without changes nothing.
Chunk ==
  /\ pc = "stream"
  /\ Len(upstream) < MaxChunks
  /\ LET content == Len(upstream) + 1 IN
       /\ upstream' = Append(upstream, content)
       /\ buffer_array' = Append(buffer_array, content)
       /\ full_response' = Append(full_response, content)
  /\ pc' = IF Full(buffer_array') THEN "yield" ELSE "stream"
  /\ UNCHANGED <<status, frames, text>>

\* buffer_array = []
Cleared == << >>

\* The buffer is full: a message frame.
YieldMessage ==
  /\ pc = "yield"
  /\ frames' = Append(frames, Frame("message", buffer_array))
  /\ text' = text \o buffer_array
  /\ buffer_array' = Cleared
  /\ pc' = "stream"
  /\ UNCHANGED <<status, upstream, full_response>>

\* Mutant: a buffer that is not full is not flushed.
NoFlush == FALSE

\* if buffer_array: there is something left to send
Rest == buffer_array # << >>

\* The model has ended: the rest of the buffer ...
Flush ==
  /\ pc = "stream"
  /\ Rest
  /\ frames' = Append(frames, Frame("message", buffer_array))
  /\ text' = text \o buffer_array
  /\ pc' = "end"
  /\ UNCHANGED <<status, upstream, buffer_array, full_response>>

\* ... and the whole reply once more.
End ==
  /\ \/ pc = "end"
     \/ pc = "stream" /\ ~Rest
  /\ frames' = Append(frames, Frame("end", full_response))
  /\ pc' = "closed"
  /\ UNCHANGED <<status, upstream, buffer_array, full_response, text>>

\* The model raises: an error frame, and what is in the buffer is lost.
UpstreamFails ==
  /\ pc = "stream"
  /\ frames' = Append(frames, Frame("error", << >>))
  /\ pc' = "closed"
  /\ UNCHANGED <<status, upstream, buffer_array, full_response, text>>

\* The client leaves: GeneratorExit, which `except Exception` does not catch.
Leave ==
  /\ pc \in {"stream", "yield", "end"}
  /\ pc' = "gone"
  /\ UNCHANGED <<status, upstream, buffer_array, full_response, frames, text>>

Next ==
  \/ \E code \in {400, 404, 500} : Fail(code)
  \/ Start \/ Chunk \/ YieldMessage \/ Flush \/ End \/ UpstreamFails \/ Leave

Spec == Init /\ [][Next]_vars

-----------------------------------------------------------------------------
(* Properties. *)

\* Every variable holds a value of its type.
TypeOK ==
  /\ pc \in {"request", "stream", "yield", "end", "closed", "gone"}
  /\ status \in {0, 200, 400, 404, 500}
  /\ upstream \in Seq(Nat)
  /\ buffer_array \in Seq(Nat)
  /\ full_response \in Seq(Nat)
  /\ frames \in Seq([event : {"init", "message", "end", "error"}, tokens : Seq(Nat)])
  /\ text \in Seq(Nat)

Ended == \E j \in DOMAIN frames : frames[j].event = "end"

\* While the stream is open, the tokens of the message frames and the buffer make
\* up the reply so far: the client never gets a chunk twice, or out of order, or
\* after one it did not get.  When it has ended, a client that puts the tokens together
\* holds the very text of the end frame, and that is all the model has said.
WholeReply ==
  /\ pc \in {"stream", "yield"} => text \o buffer_array = upstream
  /\ Ended => text = upstream /\ frames[Len(frames)] = Frame("end", upstream)

\* The frames keep to the protocol of MANUAL.md: init first, end or error last and
\* once, and every message before the last one holds buffer_size chunks.
Framing ==
  \A j \in DOMAIN frames :
    /\ frames[j].event = "init" <=> j = 1
    /\ frames[j].event \in {"end", "error"} => j = Len(frames) /\ pc = "closed"
    /\ frames[j].event = "message" =>
         /\ Len(frames[j].tokens) \in 1 .. buffer_size
         /\ (\E k \in DOMAIN frames : k > j /\ frames[k].event = "message") =>
              Len(frames[j].tokens) = buffer_size
=============================================================================

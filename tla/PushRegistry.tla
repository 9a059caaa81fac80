---------------------------- MODULE PushRegistry ----------------------------
(***************************************************************************)
(* Live notifications: the registry of sockets that every worker process   *)
(* keeps (_user_sockets, _register, _unregister in                         *)
(* app/routes/firewall_logs.py), and _push_to_user, which sends the        *)
(* blacklist_update of a committed entry to the sockets it finds there.    *)
(*                                                                         *)
(* A connection is open before its handler begins, and the handler         *)
(* registers it once the token is verified; in between the client may call *)
(* GET /blacklist, or leave.  A client that has got an answer over its     *)
(* socket, and then fetches the list, relies on the frames from then on.   *)
(* The registry's lock makes each of its operations one step; the frames   *)
(* are sent without the lock, one socket after the other.  send() waits    *)
(* while the peer does not read what it was sent before, for ever if need  *)
(* be.  A batch that came over a socket is handled, pushed and             *)
(* acknowledged by the handler of that socket, which does nothing else     *)
(* meanwhile.                                                              *)
(***************************************************************************)
EXTENDS Integers, FiniteSets, Sequences, SequencesExt

CONSTANTS
  Workers,        \* worker processes
  Users,
  Sockets,        \* connections; each is used once
  WorkerOf,       \* the worker that a connection or a push runs in
  OwnerOf,        \* the user of a connection or of a push
  Pushes,         \* batches that add one entry each; the entry has its name
  HandlerOf,      \* the socket that a batch came over, or Rest
  Rest,           \* POST /firewall-logs
  BUFFER          \* the frames that a connection holds unread

ASSUME OwnerAssumption == OwnerOf \in [Sockets \cup Pushes -> Users]
ASSUME WorkerAssumption == WorkerOf \in [Sockets \cup Pushes -> Workers]
ASSUME HandlerAssumption ==
  /\ Rest \notin Sockets
  /\ HandlerOf \in [Pushes -> Sockets \cup {Rest}]
  /\ \A p \in Pushes : HandlerOf[p] # Rest =>
       OwnerOf[p] = OwnerOf[HandlerOf[p]] /\ WorkerOf[p] = WorkerOf[HandlerOf[p]]
ASSUME BufferAssumption == BUFFER \in Nat \ {0}
ASSUME SocketsAssumption == IsFiniteSet(Sockets)
ASSUME RepliesAssumption == {"ack", "pong"} \cap Pushes = {}

VARIABLES
  sock,           \* "off", "open" (and not registered), "left" (by the peer, before it is),
                  \* "live", "lost" (by the peer; the handler has not noticed), "gone"
  keys,           \* per worker: the keys of _user_sockets
  _user_sockets,  \* per worker: the set of sockets under each key
  entries,        \* committed blacklist entries
  removed,        \* history: entries that the user has removed
  pc,             \* where each push is
  sockets,        \* the sockets a push has yet to send to, in the order of its list
  buffer,         \* frames sent and not read: entries, "ack" or "pong"
  view,           \* what each client has learnt: fetched or pushed entries
  heard,          \* clients that have read a frame from their connection
  fetched         \* clients that have fetched the list since then

client == <<buffer, view, heard, fetched>>
vars == <<sock, keys, _user_sockets, entries, removed, pc, sockets, client>>

registry == <<keys, _user_sockets>>
blacklist == <<entries, removed>>

Init ==
  /\ sock = [s \in Sockets |-> "off"]
  /\ keys = [w \in Workers |-> {}]
  /\ _user_sockets = [w \in Workers |-> [u \in Users |-> {}]]
  /\ entries = {}
  /\ removed = {}
  /\ pc = [p \in Pushes |-> "idle"]
  /\ sockets = [p \in Pushes |-> << >>]
  /\ buffer = [s \in Sockets |-> << >>]
  /\ view = [s \in Sockets |-> {}]
  /\ heard = {}
  /\ fetched = {}

-----------------------------------------------------------------------------
(* Connections. *)

\* The handler of s has a batch in hand.
Busy(s) == \E p \in Pushes : HandlerOf[p] = s /\ pc[p] \in {"committed", "sending", "ack"}

\* What the client of a closed connection knew does not matter any more.
Forget(s) ==
  /\ buffer' = [buffer EXCEPT ![s] = << >>]
  /\ view' = [view EXCEPT ![s] = {}]
  /\ heard' = heard \ {s}
  /\ fetched' = fetched \ {s}

\* The client has a connection, as far as it can tell.
Connected(s) == sock[s] \in {"open", "live"}

\* flask-sock upgrades the connection before the handler begins.
Connect(s) ==
  /\ sock[s] = "off"
  /\ sock' = [sock EXCEPT ![s] = "open"]
  /\ UNCHANGED <<registry, blacklist, pc, sockets, client>>

\* The token is missing, invalid or expired.
Refuse(s) ==
  /\ sock[s] \in {"open", "left"}
  /\ sock' = [sock EXCEPT ![s] = "gone"]
  /\ Forget(s)
  /\ UNCHANGED <<registry, blacklist, pc, sockets>>

\* setdefault(user, set()).add(ws), whether or not the peer is still there.
Register(s) ==
  LET w == WorkerOf[s]
      u == OwnerOf[s] IN
  /\ \/ sock[s] = "open" /\ sock' = [sock EXCEPT ![s] = "live"]
     \/ sock[s] = "left" /\ sock' = [sock EXCEPT ![s] = "lost"]
  /\ keys' = [keys EXCEPT ![w] = @ \cup {u}]
  /\ _user_sockets' = [_user_sockets EXCEPT ![w][u] = @ \cup {s}]
  /\ UNCHANGED <<blacklist, pc, sockets, client>>

\* The client closes the connection, or TCP gives up a peer that does not answer.
Lose(s) ==
  /\ \/ sock[s] = "open" /\ sock' = [sock EXCEPT ![s] = "left"]
     \/ sock[s] = "live" /\ sock' = [sock EXCEPT ![s] = "lost"]
  /\ Forget(s)
  /\ UNCHANGED <<registry, blacklist, pc, sockets>>

\* Mutant: the key goes with the first socket of the user that is closed.
LastSocketOrNot(s) == TRUE

\* Without s the set under the user's key is empty.
LastSocket(s) == _user_sockets[WorkerOf[s]][OwnerOf[s]] \subseteq {s}

\* The handler ends, noticing or not that the peer is gone: discard, and pop the
\* key when its set has become empty.
Unregister(s) ==
  LET w == WorkerOf[s]
      u == OwnerOf[s] IN
  /\ sock[s] \in {"live", "lost"}
  /\ ~Busy(s)
  /\ sock' = [sock EXCEPT ![s] = "gone"]
  /\ Forget(s)
  /\ IF LastSocket(s)
       THEN /\ keys' = [keys EXCEPT ![w] = @ \ {u}]
            /\ _user_sockets' = [_user_sockets EXCEPT ![w][u] = {}]
       ELSE /\ _user_sockets' = [_user_sockets EXCEPT ![w][u] = @ \ {s}]
            /\ UNCHANGED keys
  /\ UNCHANGED <<blacklist, pc, sockets>>

\* The client reads its blacklist; any worker may answer.
Fetch(s) ==
  /\ Connected(s)
  /\ view' = [view EXCEPT ![s] = @ \cup {e \in entries : OwnerOf[e] = OwnerOf[s]}]
  /\ fetched' = fetched \cup ({s} \cap heard)
  /\ UNCHANGED <<sock, registry, blacklist, pc, sockets, buffer, heard>>

\* The client takes a frame from its connection.
Read(s) ==
  /\ Connected(s)
  /\ buffer[s] # << >>
  /\ buffer' = [buffer EXCEPT ![s] = Tail(@)]
  /\ view' = [view EXCEPT ![s] = @ \cup ({Head(buffer[s])} \cap Pushes)]
  /\ heard' = heard \cup {s}
  /\ UNCHANGED <<sock, registry, blacklist, pc, sockets, fetched>>

HasRoom(s) == sock[s] = "live" /\ Len(buffer[s]) < BUFFER

\* A ping is answered when there is room for the pong.
Pong(s) ==
  /\ HasRoom(s)
  /\ ~Busy(s)
  /\ buffer' = [buffer EXCEPT ![s] = Append(@, "pong")]
  /\ UNCHANGED <<sock, registry, blacklist, pc, sockets, view, heard, fetched>>

\* DELETE /blacklist: the clients are not told.
RemoveEntry(e) ==
  /\ e \in entries
  /\ entries' = entries \ {e}
  /\ removed' = removed \cup {e}
  /\ UNCHANGED <<sock, registry, pc, sockets, client>>

-----------------------------------------------------------------------------
(* Pushes. *)

\* A batch is handled, perhaps after its peer has gone.
Commit(p) ==
  /\ pc[p] = "idle"
  /\ HandlerOf[p] # Rest => sock[HandlerOf[p]] \in {"live", "lost"} /\ ~Busy(HandlerOf[p])
  /\ entries' = entries \cup {p}
  /\ pc' = [pc EXCEPT ![p] = "committed"]
  /\ UNCHANGED <<sock, registry, removed, sockets, client>>

\* list(_user_sockets.get(user, ())), under the lock: a set, in any order.
Snapshot(p) ==
  /\ pc[p] = "committed"
  /\ \E list \in SetToSeqs(_user_sockets[WorkerOf[p]][OwnerOf[p]]) :
       sockets' = [sockets EXCEPT ![p] = list]
  /\ pc' = [pc EXCEPT ![p] = "sending"]
  /\ UNCHANGED <<sock, registry, blacklist, client>>

\* ws.send(message); it waits for room.
SendFrame(p) ==
  /\ pc[p] = "sending" /\ sockets[p] # << >>
  /\ HasRoom(Head(sockets[p]))
  /\ buffer' = [buffer EXCEPT ![Head(sockets[p])] = Append(@, p)]
  /\ sockets' = [sockets EXCEPT ![p] = Tail(@)]
  /\ UNCHANGED <<sock, registry, blacklist, pc, view, heard, fetched>>

\* Mutant: an exception ends the loop.
SendRaises(p) ==
  /\ pc[p] = "sending" /\ sockets[p] # << >>
  /\ sock[Head(sockets[p])] # "live"
  /\ sockets' = [sockets EXCEPT ![p] = << >>]
  /\ UNCHANGED <<sock, registry, blacklist, pc, client>>

\* Mutant: a frame that was not sent is tried again, after the sockets behind it.
SendAgain(p) ==
  /\ pc[p] = "sending" /\ sockets[p] # << >>
  /\ sock[Head(sockets[p])] # "live"
  /\ sockets' = [sockets EXCEPT ![p] = Append(Tail(@), Head(@))]
  /\ UNCHANGED <<sock, registry, blacklist, pc, client>>

\* ws.send raises for a socket that is closed: the loop goes on.
SendFails(p) ==
  /\ pc[p] = "sending" /\ sockets[p] # << >>
  /\ sock[Head(sockets[p])] # "live"
  /\ sockets' = [sockets EXCEPT ![p] = Tail(@)]
  /\ UNCHANGED <<sock, registry, blacklist, pc, client>>

\* The loop ends, and with it a REST call.
EndPush(p) ==
  /\ pc[p] = "sending" /\ sockets[p] = << >>
  /\ pc' = [pc EXCEPT ![p] = IF HandlerOf[p] = Rest THEN "done" ELSE "ack"]
  /\ UNCHANGED <<sock, registry, blacklist, sockets, client>>

\* The ack waits for room as well; when it raises, the session ends (Unregister).
Ack(p) ==
  LET s == HandlerOf[p] IN
  /\ pc[p] = "ack"
  /\ HasRoom(s) \/ sock[s] # "live"
  /\ buffer' = [buffer EXCEPT ![s] = IF sock[s] = "live" THEN Append(@, "ack") ELSE @]
  /\ pc' = [pc EXCEPT ![p] = "done"]
  /\ UNCHANGED <<sock, registry, blacklist, sockets, view, heard, fetched>>

-----------------------------------------------------------------------------
\* The worker is killed, and the one that replaces it starts with no sockets.
KillWorker(w) ==
  LET Here(f, gone, there) ==
        [x \in DOMAIN f |-> IF WorkerOf[x] = w /\ gone[x] THEN there ELSE f[x]] IN
  /\ sock' = Here(sock, [s \in Sockets |-> sock[s] # "off"], "gone")
  /\ keys' = [keys EXCEPT ![w] = {}]
  /\ _user_sockets' = [_user_sockets EXCEPT ![w] = [u \in Users |-> {}]]
  /\ pc' = Here(pc, [p \in Pushes |-> pc[p] \notin {"idle", "done"}], "dead")
  /\ sockets' = Here(sockets, [p \in Pushes |-> TRUE], << >>)
  /\ buffer' = Here(buffer, [s \in Sockets |-> TRUE], << >>)
  /\ view' = Here(view, [s \in Sockets |-> TRUE], {})
  /\ heard' = {s \in heard : WorkerOf[s] # w}
  /\ fetched' = {s \in fetched : WorkerOf[s] # w}
  /\ UNCHANGED blacklist

Push(p) ==
  Snapshot(p) \/ SendFrame(p) \/ SendFails(p) \/ EndPush(p) \/ Ack(p)

\* The handler begins: it registers the connection or refuses it.
Begin(s) == Register(s) \/ Refuse(s)

Next ==
  \/ \E s \in Sockets : Connect(s) \/ Begin(s) \/ Pong(s) \/ Unregister(s)
  \/ \E s \in Sockets : Lose(s) \/ Fetch(s) \/ Read(s)
  \/ \E p \in Pushes : RemoveEntry(p) \/ Commit(p) \/ Push(p)
  \/ \E w \in Workers : KillWorker(w)

Spec == Init /\ [][Next]_vars

\* receive() raises for a connection that is closed.
Notice(s) == sock[s] = "lost" /\ Unregister(s)

\* A handler goes on when it can.  No client has to read, or to leave.
FairSpec ==
  /\ Spec
  /\ \A p \in Pushes : WF_vars(Push(p))
  /\ \A s \in Sockets : WF_vars(Begin(s)) /\ WF_vars(Notice(s))

-----------------------------------------------------------------------------
(* Properties. *)

\* Every variable holds a value of its type.
TypeOK ==
  /\ sock \in [Sockets -> {"off", "open", "left", "live", "lost", "gone"}]
  /\ keys \in [Workers -> SUBSET Users]
  /\ _user_sockets \in [Workers -> [Users -> SUBSET Sockets]]
  /\ entries \subseteq Pushes /\ removed \subseteq Pushes
  /\ pc \in [Pushes -> {"idle", "committed", "sending", "ack", "done", "dead"}]
  /\ sockets \in [Pushes -> Seq(Sockets)]
  /\ buffer \in [Sockets -> Seq(Pushes \cup {"ack", "pong"})]
  /\ \A s \in Sockets : Len(buffer[s]) <= BUFFER
  /\ view \in [Sockets -> SUBSET Pushes]
  /\ heard \subseteq Sockets /\ fetched \subseteq Sockets

Held(w, u) == {s \in Sockets : /\ WorkerOf[s] = w
                               /\ OwnerOf[s] = u
                               /\ sock[s] \in {"live", "lost"}}

\* The registry of a worker holds exactly the sockets that handlers have registered in it
\* and not removed, each under its own user, and no key without a socket: what two devices
\* of a user do in any order leaks nothing and drops neither.
RegistryIsExact ==
  \A w \in Workers, u \in Users :
    /\ _user_sockets[w][u] = Held(w, u)
    /\ u \in keys[w] <=> Held(w, u) # {}

\* A client learns of its own user's committed entries only.
OnlyOwnEntries ==
  \A s \in Sockets : \A e \in view[s] : e \in entries \cup removed /\ OwnerOf[e] = OwnerOf[s]

\* The client knows the entry, or will when it has read what it was sent.
Complete(s, p) ==
  sock[s] = "live" /\ s \in fetched /\ pc[p] = "done" /\ p \in entries =>
    p \in view[s] \cup Range(buffer[s])

\* A client that fetched its blacklist after its connection had answered it (a pong, an
\* ack or a frame shows that it is registered) misses no entry that was added through its
\* own worker and is still listed: whether it connected before or after the commit, or the
\* snapshot, and whatever became of the other sockets in the snapshot.
NoMissedEntry ==
  \A s \in Sockets, p \in Pushes :
    OwnerOf[s] = OwnerOf[p] /\ WorkerOf[s] = WorkerOf[p] => Complete(s, p)

\* README.md: any source IP that produces a blocked decision is auto-added to the
\* blacklist "and connected clients are notified live".
ClientsAreNotified ==
  \A s \in Sockets, p \in Pushes : OwnerOf[s] = OwnerOf[p] => Complete(s, p)

\* The client of s does not read, and nobody gives it up.
Unread(s) == sock[s] = "live" /\ Len(buffer[s]) = BUFFER

\* The push has to send to a client that does not read.
Waits(p) ==
  \/ pc[p] = "sending" /\ sockets[p] # << >> /\ Unread(Head(sockets[p]))
  \/ pc[p] = "ack" /\ Unread(HandlerOf[p])

\* A push ends, or it is found waiting for a client that does not read, again and again:
\* nothing else holds it up, neither a connection that has broken nor another handler, for
\* handlers hold no lock while they send.
PushesEnd == \A p \in Pushes : []<>(pc[p] \in {"idle", "done", "dead"} \/ Waits(p))

\* The handler of s has a push in hand that waits for another device of its user.
HeldUp(s) == \E p \in Pushes : HandlerOf[p] = s /\ Waits(p)

\* A connection that is lost leaves the registry, although it may be lost before it is
\* registered or while its handler sends to others, unless the handler is held up by
\* another client of the user, which does not read.  So far goes the comment in
\* _push_to_user, that a dead socket is cleaned up by its own handler.
LostIsUnregistered ==
  \A s \in Sockets : []<>(sock[s] \notin {"left", "lost"} \/ HeldUp(s))
=============================================================================

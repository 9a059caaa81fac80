------------------------- MODULE PushRegistryProofs -------------------------
(* Theorems about PushRegistry, for any workers, users, connections and pushes. *)
EXTENDS PushRegistry, SequenceTheorems, FiniteSetTheorems, TLAPS

(* Sequences and what they hold. *)

LEMMA RangeTail ==
  ASSUME NEW S, NEW seq \in Seq(S), seq # << >>
  PROVE  /\ Head(seq) \in S /\ Tail(seq) \in Seq(S)
         /\ Len(Tail(seq)) = Len(seq) - 1
         /\ Range(seq) = {Head(seq)} \cup Range(Tail(seq))
<1>1. /\ Head(seq) \in S /\ Tail(seq) \in Seq(S)
      /\ Len(Tail(seq)) = Len(seq) - 1
      /\ \A i \in 1 .. Len(Tail(seq)) : Tail(seq)[i] = seq[i + 1]
  BY HeadTailProperties
<1>2. Len(seq) \in Nat \ {0} /\ Head(seq) = seq[1]
  BY EmptySeq
<1>3. ASSUME NEW x \in Range(seq) PROVE x \in {Head(seq)} \cup Range(Tail(seq))
  <2>1. PICK i \in 1 .. Len(seq) : x = seq[i]
    BY <1>3 DEF Range
  <2>2. CASE i = 1
    BY <2>1, <2>2, <1>2
  <2>3. CASE i # 1
    <3>1. i - 1 \in 1 .. Len(Tail(seq)) /\ Tail(seq)[i - 1] = seq[i]
      BY <2>3, <1>1, <1>2
    <3>2. DOMAIN Tail(seq) = 1 .. Len(Tail(seq))
      BY <1>1
    <3> QED BY <3>1, <3>2, <2>1 DEF Range
  <2> QED BY <2>2, <2>3
<1>4. ASSUME NEW x \in Range(Tail(seq)) PROVE x \in Range(seq)
  <2>1. PICK i \in 1 .. Len(Tail(seq)) : x = Tail(seq)[i]
    BY <1>4, <1>1 DEF Range
  <2>2. i + 1 \in 1 .. Len(seq) /\ seq[i + 1] = x
    BY <2>1, <1>1, <1>2
  <2> QED BY <2>2 DEF Range
<1>5. Head(seq) \in Range(seq)
  BY <1>2 DEF Range
<1> QED BY <1>1, <1>3, <1>4, <1>5

LEMMA RangeAppend ==
  ASSUME NEW S, NEW seq \in Seq(S), NEW e \in S
  PROVE  /\ Append(seq, e) \in Seq(S)
         /\ Len(Append(seq, e)) = Len(seq) + 1
         /\ Range(Append(seq, e)) = Range(seq) \cup {e}
<1>1. /\ Append(seq, e) \in Seq(S)
      /\ Len(Append(seq, e)) = Len(seq) + 1
      /\ \A i \in 1 .. Len(seq) : Append(seq, e)[i] = seq[i]
      /\ Append(seq, e)[Len(seq) + 1] = e
  BY AppendProperties
<1>2. Len(seq) \in Nat
  OBVIOUS
<1>3. /\ DOMAIN Append(seq, e) = 1 .. Len(seq) + 1
      /\ DOMAIN seq = 1 .. Len(seq)
  BY <1>1
<1>4. 1 .. Len(seq) + 1 = (1 .. Len(seq)) \cup {Len(seq) + 1}
  BY <1>2
<1>5. \A i \in 1 .. Len(seq) + 1 : i \in 1 .. Len(seq) \/ i = Len(seq) + 1
  BY <1>2
<1> QED BY <1>1, <1>3, <1>4, <1>5 DEF Range

LEMMA RangeEmpty == Range(<< >>) = {}
BY DEF Range

LEMMA RangeOf ==
  ASSUME NEW S, NEW seq \in Seq(S) PROVE Range(seq) \subseteq S
BY DEF Range

\* The lists of a set are sequences of all its members.
LEMMA ListOfSet ==
  ASSUME NEW T \in SUBSET Sockets, NEW list \in SetToSeqs(T)
  PROVE  list \in Seq(Sockets) /\ Range(list) = T
<1>1. IsFiniteSet(T)
  BY SocketsAssumption, FS_Subset
<1>2. Cardinality(T) \in Nat
  BY <1>1, FS_CardinalityType
<1>3. /\ list \in [1 .. Cardinality(T) -> T]
      /\ \A i, j \in 1 .. Cardinality(T) : i # j => list[i] # list[j]
  BY DEF SetToSeqs
<1>4. list \in Injection(1 .. Cardinality(T), T)
  BY <1>3 DEF Injection, IsInjective
<1>5. Cardinality(1 .. Cardinality(T)) = Cardinality(T)
  BY <1>2, FS_Interval
<1>6. list \in Surjection(1 .. Cardinality(T), T)
  BY <1>1, <1>4, <1>5, FS_Injection
<1>7. Range(list) = T
  BY <1>3, <1>6 DEF Surjection, Range
<1>8. list \in Seq(Sockets)
  BY <1>2, <1>3
<1> QED BY <1>7, <1>8

-----------------------------------------------------------------------------
(* Types. *)

LEMMA OwnerType ==
  \A x \in Sockets \cup Pushes : OwnerOf[x] \in Users /\ WorkerOf[x] \in Workers
BY OwnerAssumption, WorkerAssumption

LEMMA EmptyType ==
  /\ << >> \in Seq(Sockets) /\ << >> \in Seq(Pushes \cup {"ack", "pong"})
  /\ Len(<< >>) = 0 /\ BUFFER \in Nat
BY EmptySeq, BufferAssumption

LEMMA TypeInit == Init => TypeOK
BY EmptyType DEF Init, TypeOK

LEMMA TypeStep == TypeOK /\ [Next]_vars => TypeOK'
<1> SUFFICES ASSUME TypeOK, [Next]_vars PROVE TypeOK'
  OBVIOUS
<1> USE OwnerType, EmptyType DEF TypeOK, registry, blacklist, client
<1>1. ASSUME NEW s \in Sockets, Register(s) PROVE TypeOK'
  <2>1. PICK l \in {"live", "lost"} : sock' = [sock EXCEPT ![s] = l]
    BY <1>1 DEF Register
  <2> QED BY <1>1, <2>1 DEF Register
<1>2. ASSUME NEW s \in Sockets, Lose(s) PROVE TypeOK'
  <2>1. PICK l \in {"left", "lost"} : sock' = [sock EXCEPT ![s] = l]
    BY <1>2 DEF Lose
  <2> QED BY <1>2, <2>1 DEF Lose, Forget
<1>3. ASSUME NEW s \in Sockets, Unregister(s) PROVE TypeOK'
  <2> DEFINE w == WorkerOf[s]
             u == OwnerOf[s]
  <2>1. /\ keys' \in [Workers -> SUBSET Users]
        /\ _user_sockets' \in [Workers -> [Users -> SUBSET Sockets]]
    <3>1. \/ /\ keys' = [keys EXCEPT ![w] = @ \ {u}]
             /\ _user_sockets' = [_user_sockets EXCEPT ![w][u] = {}]
          \/ /\ _user_sockets' = [_user_sockets EXCEPT ![w][u] = @ \ {s}]
             /\ keys' = keys
      BY <1>3, Zenon DEF Unregister
    <3>2. w \in Workers /\ u \in Users
      OBVIOUS
    <3>3. /\ keys \in [Workers -> SUBSET Users]
          /\ _user_sockets \in [Workers -> [Users -> SUBSET Sockets]]
      OBVIOUS
    <3> HIDE DEF w, u, TypeOK
    <3>4. CASE _user_sockets' = [_user_sockets EXCEPT ![w][u] = {}]
      BY <3>1, <3>2, <3>3, <3>4
    <3>5. CASE _user_sockets' = [_user_sockets EXCEPT ![w][u] = @ \ {s}]
      BY <3>1, <3>2, <3>3, <3>5
    <3> QED BY <3>1, <3>4, <3>5
  <2>2. sock' = [sock EXCEPT ![s] = "gone"] /\ Forget(s) /\ UNCHANGED <<blacklist, pc, sockets>>
    BY <1>3 DEF Unregister
  <2> QED BY <2>1, <2>2 DEF Forget
<1>4. ASSUME NEW s \in Sockets, Fetch(s) PROVE TypeOK'
  BY <1>4 DEF Fetch
<1>5. ASSUME NEW s \in Sockets, Read(s) PROVE TypeOK'
  <2>1. /\ Tail(buffer[s]) \in Seq(Pushes \cup {"ack", "pong"})
        /\ Len(Tail(buffer[s])) = Len(buffer[s]) - 1
    BY <1>5, RangeTail DEF Read
  <2>2. Len(buffer[s]) \in Nat
    OBVIOUS
  <2> QED BY <1>5, <2>1, <2>2 DEF Read
<1>6. ASSUME NEW p \in Pushes, RemoveEntry(p) PROVE TypeOK'
  BY <1>6 DEF RemoveEntry
<1>7. ASSUME NEW p \in Pushes, Commit(p) PROVE TypeOK'
  BY <1>7 DEF Commit
<1>8. ASSUME NEW p \in Pushes, Snapshot(p) PROVE TypeOK'
  <2>1. PICK list \in SetToSeqs(_user_sockets[WorkerOf[p]][OwnerOf[p]]) :
          sockets' = [sockets EXCEPT ![p] = list]
    BY <1>8 DEF Snapshot
  <2>2. list \in Seq(Sockets)
    BY ListOfSet
  <2> QED BY <1>8, <2>1, <2>2 DEF Snapshot
<1>9. ASSUME NEW p \in Pushes, SendFrame(p) PROVE TypeOK'
  <2> DEFINE s == Head(sockets[p])
  <2>1. s \in Sockets /\ Tail(sockets[p]) \in Seq(Sockets)
    BY <1>9, RangeTail DEF SendFrame
  <2>2. /\ Append(buffer[s], p) \in Seq(Pushes \cup {"ack", "pong"})
        /\ Len(Append(buffer[s], p)) = Len(buffer[s]) + 1
    BY <2>1, RangeAppend
  <2>3. Len(buffer[s]) < BUFFER /\ Len(buffer[s]) \in Nat
    BY <1>9, <2>1 DEF SendFrame, HasRoom
  <2> HIDE DEF s
  <2>4. buffer' = [buffer EXCEPT ![s] = Append(@, p)]
    BY <1>9 DEF SendFrame, s
  <2> QED BY <1>9, <2>1, <2>2, <2>3, <2>4 DEF SendFrame
<1>10. ASSUME NEW p \in Pushes, SendFails(p) PROVE TypeOK'
  BY <1>10, RangeTail DEF SendFails
<1>11. ASSUME NEW p \in Pushes, EndPush(p) PROVE TypeOK'
  BY <1>11 DEF EndPush
<1>12. ASSUME NEW p \in Pushes, Ack(p) PROVE TypeOK'
  <2> DEFINE s == HandlerOf[p]
  <2>1. CASE s \in Sockets /\ sock[s] = "live"
    <3>1. /\ Append(buffer[s], "ack") \in Seq(Pushes \cup {"ack", "pong"})
          /\ Len(Append(buffer[s], "ack")) = Len(buffer[s]) + 1
      BY <2>1, RangeAppend
    <3>2. Len(buffer[s]) < BUFFER /\ Len(buffer[s]) \in Nat
      BY <1>12, <2>1 DEF Ack, HasRoom
    <3> QED BY <1>12, <2>1, <3>1, <3>2 DEF Ack
  <2>2. CASE ~(s \in Sockets /\ sock[s] = "live")
    <3>1. buffer' = buffer
      BY <1>12, <2>2 DEF Ack
    <3> QED BY <1>12, <3>1 DEF Ack
  <2> QED BY <2>1, <2>2
<1>13. ASSUME NEW w \in Workers, KillWorker(w) PROVE TypeOK'
  BY <1>13 DEF KillWorker
<1>14. ASSUME NEW s \in Sockets, Connect(s) PROVE TypeOK'
  BY <1>14 DEF Connect
<1>15. ASSUME NEW s \in Sockets, Refuse(s) PROVE TypeOK'
  BY <1>15 DEF Refuse, Forget
<1>16. ASSUME NEW s \in Sockets, Pong(s) PROVE TypeOK'
  <2>1. /\ Append(buffer[s], "pong") \in Seq(Pushes \cup {"ack", "pong"})
        /\ Len(Append(buffer[s], "pong")) = Len(buffer[s]) + 1
    BY RangeAppend
  <2>2. Len(buffer[s]) < BUFFER /\ Len(buffer[s]) \in Nat
    BY <1>16 DEF Pong, HasRoom
  <2> QED BY <1>16, <2>1, <2>2 DEF Pong
<1>17. CASE UNCHANGED vars
  BY <1>17 DEF vars
<1> QED BY <1>1, <1>2, <1>3, <1>4, <1>5, <1>6, <1>7, <1>8, <1>9, <1>10, <1>11, <1>12,
           <1>13, <1>14, <1>15, <1>16, <1>17 DEF Next, Begin, Push

\* Every variable of the registry and its pushes keeps its type.
THEOREM TypeCorrect == Spec => []TypeOK
BY TypeInit, TypeStep, PTL DEF Spec

-----------------------------------------------------------------------------
(* The registry. *)

LEMMA RegistryInit == Init => RegistryIsExact
BY OwnerType DEF Init, RegistryIsExact, Held

LEMMA RegistryStep == TypeOK /\ RegistryIsExact /\ [Next]_vars => RegistryIsExact'
<1> SUFFICES ASSUME TypeOK, RegistryIsExact, [Next]_vars PROVE RegistryIsExact'
  OBVIOUS
<1> USE OwnerType DEF RegistryIsExact, Held, TypeOK
<1>1. ASSUME NEW s \in Sockets, Register(s) PROVE RegistryIsExact'
  <2>1. PICK l \in {"live", "lost"} : sock' = [sock EXCEPT ![s] = l]
    BY <1>1 DEF Register
  <2>2. \A w \in Workers, u \in Users :
          Held(w, u)' = IF w = WorkerOf[s] /\ u = OwnerOf[s]
                          THEN Held(w, u) \cup {s} ELSE Held(w, u)
    BY <2>1
  <2> QED BY <1>1, <2>2 DEF Register
<1>2. ASSUME NEW s \in Sockets, Lose(s) PROVE RegistryIsExact'
  <2>1. CASE sock[s] = "open" /\ sock' = [sock EXCEPT ![s] = "left"]
    BY <1>2, <2>1 DEF Lose, registry
  <2>2. CASE sock[s] = "live" /\ sock' = [sock EXCEPT ![s] = "lost"]
    BY <1>2, <2>2 DEF Lose, registry
  <2> QED BY <1>2, <2>1, <2>2 DEF Lose
<1>3. ASSUME NEW s \in Sockets, Unregister(s) PROVE RegistryIsExact'
  <2>1. CASE LastSocket(s)
    BY <1>3, <2>1 DEF Unregister, LastSocket
  <2>2. CASE ~LastSocket(s)
    <3>1. \A w \in Workers, u \in Users :
            Held(w, u)' = IF w = WorkerOf[s] /\ u = OwnerOf[s]
                            THEN Held(w, u) \ {s} ELSE Held(w, u)
      BY <1>3 DEF Unregister
    <3>2. /\ _user_sockets' = [_user_sockets EXCEPT ![WorkerOf[s]][OwnerOf[s]] = @ \ {s}]
          /\ keys' = keys
      BY <1>3, <2>2 DEF Unregister
    <3> QED BY <2>2, <3>1, <3>2 DEF LastSocket
  <2> QED BY <2>1, <2>2
<1>4. ASSUME NEW w \in Workers, KillWorker(w) PROVE RegistryIsExact'
  <2>1. /\ keys' = [keys EXCEPT ![w] = {}]
        /\ _user_sockets' = [_user_sockets EXCEPT ![w] = [u \in Users |-> {}]]
    BY <1>4 DEF KillWorker
  <2>2. \A s \in Sockets :
          sock'[s] = IF WorkerOf[s] = w /\ sock[s] # "off" THEN "gone" ELSE sock[s]
    BY <1>4 DEF KillWorker
  <2>3. \A v \in Workers, u \in Users : Held(v, u)' = IF v = w THEN {} ELSE Held(v, u)
    BY <2>2
  <2>4. ASSUME NEW v \in Workers, NEW u \in Users
        PROVE  _user_sockets'[v][u] = Held(v, u)' /\ (u \in keys'[v] <=> Held(v, u)' # {})
    <3>1. CASE v = w
      BY <3>1, <2>1, <2>3
    <3>2. CASE v # w
      <4>1. keys'[v] = keys[v] /\ _user_sockets'[v] = _user_sockets[v]
        BY <3>2, <2>1
      <4> QED BY <4>1, <3>2, <2>3
    <3> QED BY <3>1, <3>2
  <2> QED BY <2>4
<1>5. CASE UNCHANGED <<sock, registry>>
  BY <1>5 DEF registry
<1>6. ASSUME NEW s \in Sockets, Fetch(s) \/ Read(s) \/ Pong(s)
      PROVE  UNCHANGED <<sock, registry>>
  BY <1>6 DEF Fetch, Read, Pong
<1>7. ASSUME NEW p \in Pushes, RemoveEntry(p) \/ Commit(p) \/ Push(p)
      PROVE  UNCHANGED <<sock, registry>>
  BY <1>7 DEF RemoveEntry, Commit, Push, Snapshot, SendFrame, SendFails, EndPush, Ack
<1>8. ASSUME NEW s \in Sockets, Connect(s) \/ Refuse(s) PROVE RegistryIsExact'
  BY <1>8 DEF Connect, Refuse, registry
<1>9. CASE UNCHANGED vars
  BY <1>5, <1>9 DEF vars, registry
<1> QED BY <1>1, <1>2, <1>3, <1>4, <1>5, <1>6, <1>7, <1>8, <1>9 DEF Next, Begin

\* Whatever order the devices of a user connect, break and leave in, the registry holds the
\* sockets of the handlers that run, and no key without a socket (_register, _unregister).
THEOREM RegistryStaysExact == Spec => []RegistryIsExact
<1>1. Init => TypeOK /\ RegistryIsExact
  BY TypeInit, RegistryInit
<1>2. TypeOK /\ RegistryIsExact /\ [Next]_vars => (TypeOK /\ RegistryIsExact)'
  BY TypeStep, RegistryStep
<1> QED BY <1>1, <1>2, PTL DEF Spec

-----------------------------------------------------------------------------
(* What clients are told. *)

\* Entry e has been committed, and belongs to the user of s.
Mine(s, e) == e \in entries \cup removed /\ OwnerOf[e] = OwnerOf[s]

\* What is on its way to a client, and who is to be sent it, is the user's own.
OwnInv ==
  /\ \A p \in Pushes : pc[p] # "idle" => p \in entries \cup removed
  /\ \A p \in Pushes : \A s \in Range(sockets[p]) : OwnerOf[s] = OwnerOf[p]
  /\ \A s \in Sockets : \A e \in Range(buffer[s]) : e \in Pushes => Mine(s, e)
  /\ \A s \in Sockets : \A e \in view[s] : Mine(s, e)

LEMMA FrameAdded ==
  ASSUME TypeOK, NEW s \in Sockets, NEW e \in Pushes \cup {"ack", "pong"}
  PROVE  Range(Append(buffer[s], e)) = Range(buffer[s]) \cup {e}
<1>1. buffer[s] \in Seq(Pushes \cup {"ack", "pong"})
  BY DEF TypeOK
<1> QED BY <1>1, RangeAppend

LEMMA ListOfKey ==
  ASSUME TypeOK, NEW p \in Pushes,
         NEW list \in SetToSeqs(_user_sockets[WorkerOf[p]][OwnerOf[p]])
  PROVE  Range(list) = _user_sockets[WorkerOf[p]][OwnerOf[p]]
<1>1. _user_sockets[WorkerOf[p]][OwnerOf[p]] \in SUBSET Sockets
  BY OwnerType DEF TypeOK
<1> QED BY <1>1, ListOfSet

LEMMA OwnInit == Init => OwnInv
BY RangeEmpty DEF Init, OwnInv

LEMMA OwnStep == TypeOK /\ RegistryIsExact /\ OwnInv /\ [Next]_vars => OwnInv'
<1> SUFFICES ASSUME TypeOK, RegistryIsExact, OwnInv, [Next]_vars PROVE OwnInv'
  OBVIOUS
<1> USE RangeEmpty DEF OwnInv, Mine, blacklist, client
<1>1. ASSUME NEW s \in Sockets, Register(s) PROVE OwnInv'
  BY <1>1 DEF Register
<1>2. ASSUME NEW s \in Sockets, Lose(s) \/ Unregister(s) \/ Refuse(s) PROVE OwnInv'
  <2>1. Forget(s) /\ UNCHANGED <<entries, removed, pc, sockets>>
    BY <1>2 DEF Lose, Unregister, Refuse
  <2> QED BY <2>1 DEF Forget, TypeOK
<1>3. ASSUME NEW s \in Sockets, Fetch(s) PROVE OwnInv'
  BY <1>3 DEF Fetch, TypeOK
<1>4. ASSUME NEW s \in Sockets, Read(s) PROVE OwnInv'
  <2>1. Range(buffer[s]) = {Head(buffer[s])} \cup Range(Tail(buffer[s]))
    BY <1>4, RangeTail DEF Read, TypeOK
  <2>2. \A e \in {Head(buffer[s])} \cap Pushes : Mine(s, e)
    BY <2>1
  <2> QED BY <1>4, <2>1, <2>2 DEF Read, TypeOK
<1>5. ASSUME NEW p \in Pushes, RemoveEntry(p) PROVE OwnInv'
  BY <1>5 DEF RemoveEntry
<1>6. ASSUME NEW p \in Pushes, Commit(p) PROVE OwnInv'
  BY <1>6 DEF Commit, TypeOK
<1>7. ASSUME NEW p \in Pushes, Snapshot(p) PROVE OwnInv'
  <2>1. PICK list \in SetToSeqs(_user_sockets[WorkerOf[p]][OwnerOf[p]]) :
          sockets' = [sockets EXCEPT ![p] = list]
    BY <1>7 DEF Snapshot
  <2>2. Range(list) = _user_sockets[WorkerOf[p]][OwnerOf[p]]
    BY ListOfKey
  <2>3. \A s \in Range(list) : OwnerOf[s] = OwnerOf[p]
    BY <2>2, OwnerType DEF RegistryIsExact, Held
  <2> QED BY <1>7, <2>1, <2>3 DEF Snapshot, TypeOK
<1>8. ASSUME NEW p \in Pushes, SendFrame(p) PROVE OwnInv'
  <2> DEFINE s == Head(sockets[p])
  <2>1. s \in Sockets /\ Range(sockets[p]) = {s} \cup Range(Tail(sockets[p]))
    BY <1>8, RangeTail DEF SendFrame, TypeOK
  <2>2. Range(Append(buffer[s], p)) = Range(buffer[s]) \cup {p}
    BY <2>1, FrameAdded
  <2>3. Mine(s, p)
    BY <1>8, <2>1 DEF SendFrame
  <2>4. /\ buffer' = [buffer EXCEPT ![s] = Append(@, p)]
        /\ sockets' = [sockets EXCEPT ![p] = Tail(@)]
        /\ UNCHANGED <<entries, removed, pc, view>>
    BY <1>8 DEF SendFrame
  <2> HIDE DEF s
  <2> QED BY <2>1, <2>2, <2>3, <2>4 DEF TypeOK
<1>9. ASSUME NEW p \in Pushes, SendFails(p) PROVE OwnInv'
  <2>1. Range(Tail(sockets[p])) \subseteq Range(sockets[p])
    BY <1>9, RangeTail DEF SendFails, TypeOK
  <2> QED BY <1>9, <2>1 DEF SendFails, TypeOK
<1>10. ASSUME NEW p \in Pushes, EndPush(p) PROVE OwnInv'
  BY <1>10 DEF EndPush, TypeOK
<1>11. ASSUME NEW p \in Pushes, Ack(p) PROVE OwnInv'
  <2> DEFINE s == HandlerOf[p]
  <2>1. CASE s \in Sockets /\ sock[s] = "live"
    <3>1. Range(Append(buffer[s], "ack")) = Range(buffer[s]) \cup {"ack"}
      BY <2>1, FrameAdded
    <3> QED BY <1>11, <2>1, <3>1, RepliesAssumption DEF Ack, TypeOK
  <2>2. CASE ~(s \in Sockets /\ sock[s] = "live")
    <3>1. buffer' = buffer
      BY <1>11, <2>2 DEF Ack, TypeOK
    <3> QED BY <1>11, <3>1 DEF Ack, TypeOK
  <2> QED BY <2>1, <2>2
<1>12. ASSUME NEW w \in Workers, KillWorker(w) PROVE OwnInv'
  BY <1>12 DEF KillWorker, TypeOK
<1>13. ASSUME NEW s \in Sockets, Connect(s) PROVE OwnInv'
  BY <1>13 DEF Connect
<1>14. ASSUME NEW s \in Sockets, Pong(s) PROVE OwnInv'
  <2>1. Range(Append(buffer[s], "pong")) = Range(buffer[s]) \cup {"pong"}
    BY FrameAdded
  <2> QED BY <1>14, <2>1, RepliesAssumption DEF Pong, TypeOK
<1>15. CASE UNCHANGED vars
  BY <1>15 DEF vars
<1> QED BY <1>1, <1>2, <1>3, <1>4, <1>5, <1>6, <1>7, <1>8, <1>9, <1>10, <1>11, <1>12, <1>13,
           <1>14, <1>15 DEF Next, Begin, Push

\* A client learns of committed entries of its own user only (_push_to_user sends to the
\* sockets under the key of the batch's user).
THEOREM NothingOfOthers == Spec => []OnlyOwnEntries
<1> DEFINE IInv == TypeOK /\ RegistryIsExact /\ OwnInv
<1>1. Init => IInv
  BY TypeInit, RegistryInit, OwnInit
<1>2. IInv /\ [Next]_vars => IInv'
  BY TypeStep, RegistryStep, OwnStep
<1>3. IInv => OnlyOwnEntries
  BY DEF OwnInv, Mine, OnlyOwnEntries
<1> QED BY <1>1, <1>2, <1>3, PTL DEF Spec

-----------------------------------------------------------------------------
(* No entry is missed. *)

Near(s, p) == OwnerOf[s] = OwnerOf[p] /\ WorkerOf[s] = WorkerOf[p]

\* The client of s has the entry of p, or its frame.
Has(s, p) == p \in view[s] \cup Range(buffer[s])

\* Only a registered connection has frames, so a client that has read one knows that it is
\* registered.
HeardInv ==
  /\ \A s \in Sockets : buffer[s] # << >> => sock[s] = "live"
  /\ \A s \in heard : sock[s] = "live"
  /\ fetched \subseteq heard

LEMMA HeardInit == Init => HeardInv
BY DEF Init, HeardInv

LEMMA HeardStep == TypeOK /\ HeardInv /\ [Next]_vars => HeardInv'
<1> SUFFICES ASSUME TypeOK, HeardInv, [Next]_vars PROVE HeardInv'
  OBVIOUS
<1> USE DEF HeardInv, TypeOK, blacklist, client
<1>1. ASSUME NEW s \in Sockets, Connect(s) \/ Begin(s) PROVE HeardInv'
  <2>1. CASE Refuse(s)
    BY <2>1 DEF Refuse, Forget
  <2>2. CASE Connect(s) \/ Register(s)
    <3>1. UNCHANGED client /\ sock[s] # "live"
      BY <2>2 DEF Connect, Register
    <3>2. \A x \in Sockets \ {s} : sock'[x] = sock[x]
      BY <2>2 DEF Connect, Register
    <3> QED BY <3>1, <3>2
  <2> QED BY <1>1, <2>1, <2>2 DEF Begin
<1>2. ASSUME NEW s \in Sockets, Lose(s) \/ Unregister(s) PROVE HeardInv'
  <2>1. Forget(s) /\ \A x \in Sockets \ {s} : sock'[x] = sock[x]
    BY <1>2 DEF Lose, Unregister
  <2> QED BY <2>1 DEF Forget
<1>3. ASSUME NEW s \in Sockets, Fetch(s) PROVE HeardInv'
  BY <1>3 DEF Fetch
<1>4. ASSUME NEW s \in Sockets, Read(s) PROVE HeardInv'
  BY <1>4 DEF Read
<1>5. ASSUME NEW s \in Sockets, Pong(s) PROVE HeardInv'
  BY <1>5 DEF Pong, HasRoom
<1>6. ASSUME NEW p \in Pushes, SendFrame(p) PROVE HeardInv'
  <2> DEFINE s == Head(sockets[p])
  <2>1. /\ sock[s] = "live"
        /\ buffer' = [buffer EXCEPT ![s] = Append(@, p)]
        /\ UNCHANGED <<sock, heard, fetched>>
    BY <1>6 DEF SendFrame, HasRoom
  <2> HIDE DEF s
  <2> QED BY <2>1
<1>7. ASSUME NEW p \in Pushes, Ack(p) PROVE HeardInv'
  <2> DEFINE s == HandlerOf[p]
  <2>1. /\ buffer' = [buffer EXCEPT ![s] = IF sock[s] = "live" THEN Append(@, "ack") ELSE @]
        /\ UNCHANGED <<sock, heard, fetched>>
    BY <1>7 DEF Ack
  <2> HIDE DEF s
  <2> QED BY <2>1
<1>8. ASSUME NEW p \in Pushes,
             RemoveEntry(p) \/ Commit(p) \/ Snapshot(p) \/ SendFails(p) \/ EndPush(p)
      PROVE  HeardInv'
  BY <1>8 DEF RemoveEntry, Commit, Snapshot, SendFails, EndPush
<1>9. ASSUME NEW w \in Workers, KillWorker(w) PROVE HeardInv'
  BY <1>9 DEF KillWorker
<1>10. CASE UNCHANGED vars
  BY <1>10 DEF vars
<1> QED BY <1>1, <1>2, <1>3, <1>4, <1>5, <1>6, <1>7, <1>8, <1>9, <1>10 DEF Next, Push

\* An entry that is listed reaches a client that has fetched the list: it is yet to be
\* pushed, the client is among those it will be sent to, or the client has it.
ReachInv ==
  /\ \A s \in fetched, p \in entries : Near(s, p) =>
       /\ pc[p] = "sending" => Has(s, p) \/ s \in Range(sockets[p])
       /\ pc[p] \in {"ack", "done"} => Has(s, p)

LEMMA ReachInit == Init => ReachInv
BY DEF Init, ReachInv

LEMMA ReachStep ==
  TypeOK /\ RegistryIsExact /\ HeardInv /\ ReachInv /\ [Next]_vars => ReachInv'
<1> SUFFICES ASSUME TypeOK, RegistryIsExact, HeardInv, ReachInv, [Next]_vars PROVE ReachInv'
  OBVIOUS
<1> USE DEF ReachInv, Near, Has, blacklist, client
<1>1. ASSUME NEW s \in Sockets, Register(s) PROVE ReachInv'
  BY <1>1 DEF Register, TypeOK
<1>2. ASSUME NEW s \in Sockets, Lose(s) \/ Unregister(s) \/ Refuse(s) PROVE ReachInv'
  <2>1. Forget(s) /\ UNCHANGED <<entries, pc, sockets>>
    BY <1>2 DEF Lose, Unregister, Refuse
  <2> QED BY <2>1 DEF Forget, TypeOK
<1>3. ASSUME NEW s \in Sockets, Fetch(s) PROVE ReachInv'
  BY <1>3 DEF Fetch, TypeOK
<1>4. ASSUME NEW s \in Sockets, Read(s) PROVE ReachInv'
  <2>1. Range(buffer[s]) = {Head(buffer[s])} \cup Range(Tail(buffer[s]))
    BY <1>4, RangeTail DEF Read, TypeOK
  <2>2. \A x \in Sockets, p \in Pushes : Has(x, p) => Has(x, p)'
    BY <1>4, <2>1 DEF Read, TypeOK
  <2>3. UNCHANGED <<entries, pc, sockets, fetched>>
    BY <1>4 DEF Read
  <2> QED BY <2>2, <2>3 DEF TypeOK
<1>5. ASSUME NEW p \in Pushes, RemoveEntry(p) PROVE ReachInv'
  BY <1>5 DEF RemoveEntry
<1>6. ASSUME NEW p \in Pushes, Commit(p) PROVE ReachInv'
  BY <1>6 DEF Commit, TypeOK
<1>7. ASSUME NEW p \in Pushes, Snapshot(p) PROVE ReachInv'
  <2>1. PICK list \in SetToSeqs(_user_sockets[WorkerOf[p]][OwnerOf[p]]) :
          sockets' = [sockets EXCEPT ![p] = list]
    BY <1>7 DEF Snapshot
  <2>2. Range(list) = _user_sockets[WorkerOf[p]][OwnerOf[p]]
    BY ListOfKey
  <2>3. \A s \in fetched : Near(s, p) => s \in Range(list)
    BY <2>2, OwnerType DEF HeardInv, RegistryIsExact, Held, TypeOK
  <2> QED BY <1>7, <2>1, <2>3 DEF Snapshot, TypeOK
<1>8. ASSUME NEW p \in Pushes, SendFrame(p) PROVE ReachInv'
  <2> DEFINE s == Head(sockets[p])
  <2>1. s \in Sockets /\ Range(sockets[p]) = {s} \cup Range(Tail(sockets[p]))
    BY <1>8, RangeTail DEF SendFrame, TypeOK
  <2>2. Range(Append(buffer[s], p)) = Range(buffer[s]) \cup {p}
    BY <2>1, FrameAdded
  <2>3. /\ buffer' = [buffer EXCEPT ![s] = Append(@, p)]
        /\ sockets' = [sockets EXCEPT ![p] = Tail(@)]
        /\ UNCHANGED <<entries, pc, view, fetched>>
    BY <1>8 DEF SendFrame
  <2> HIDE DEF s
  <2> QED BY <2>1, <2>2, <2>3 DEF TypeOK
<1>9. ASSUME NEW p \in Pushes, SendFails(p) PROVE ReachInv'
  <2> DEFINE s == Head(sockets[p])
  <2>1. Range(sockets[p]) = {s} \cup Range(Tail(sockets[p]))
    BY <1>9, RangeTail DEF SendFails, TypeOK
  <2>2. s \notin fetched
    BY <1>9 DEF SendFails, HeardInv
  <2>3. /\ sockets' = [sockets EXCEPT ![p] = Tail(@)]
        /\ UNCHANGED <<entries, pc, buffer, view, fetched>>
    BY <1>9 DEF SendFails
  <2> HIDE DEF s
  <2> QED BY <2>1, <2>2, <2>3 DEF TypeOK
<1>10. ASSUME NEW p \in Pushes, EndPush(p) PROVE ReachInv'
  BY <1>10, RangeEmpty DEF EndPush, TypeOK
<1>11. ASSUME NEW p \in Pushes, Ack(p) PROVE ReachInv'
  <2>1. \A x \in Sockets : Range(buffer[x]) \subseteq Range(buffer'[x])
    <3> DEFINE s == HandlerOf[p]
    <3>1. CASE s \in Sockets /\ sock[s] = "live"
      <4>1. Range(Append(buffer[s], "ack")) = Range(buffer[s]) \cup {"ack"}
        BY <3>1, FrameAdded
      <4> QED BY <1>11, <3>1, <4>1 DEF Ack, TypeOK
    <3>2. CASE ~(s \in Sockets /\ sock[s] = "live")
      BY <1>11, <3>2 DEF Ack, TypeOK
    <3> QED BY <3>1, <3>2
  <2> QED BY <1>11, <2>1 DEF Ack, TypeOK
<1>12. ASSUME NEW w \in Workers, KillWorker(w) PROVE ReachInv'
  <2>1. ASSUME NEW s \in fetched' PROVE s \in fetched /\ WorkerOf[s] # w
    BY <1>12, <2>1 DEF KillWorker, TypeOK
  <2>2. ASSUME NEW s \in fetched', NEW p \in entries', Near(s, p)
        PROVE  /\ pc'[p] = pc[p] /\ sockets'[p] = sockets[p]
               /\ buffer'[s] = buffer[s] /\ view'[s] = view[s]
    BY <1>12, <2>1, <2>2 DEF KillWorker, TypeOK
  <2>3. entries' = entries
    BY <1>12 DEF KillWorker
  <2> QED BY <2>1, <2>2, <2>3
<1>13. ASSUME NEW s \in Sockets, Connect(s) PROVE ReachInv'
  BY <1>13 DEF Connect
<1>14. ASSUME NEW s \in Sockets, Pong(s) PROVE ReachInv'
  <2>1. Range(Append(buffer[s], "pong")) = Range(buffer[s]) \cup {"pong"}
    BY FrameAdded
  <2> QED BY <1>14, <2>1 DEF Pong, TypeOK
<1>15. CASE UNCHANGED vars
  BY <1>15 DEF vars
<1> QED BY <1>1, <1>2, <1>3, <1>4, <1>5, <1>6, <1>7, <1>8, <1>9, <1>10, <1>11, <1>12, <1>13,
           <1>14, <1>15 DEF Next, Begin, Push

\* A client that fetched its list after its connection had answered it misses no entry that
\* its worker added and that is still listed, whatever becomes of the other sockets of a push
\* (_push_to_user, and _register before the first receive).
THEOREM NothingIsMissed == Spec => []NoMissedEntry
<1> DEFINE IInv == TypeOK /\ RegistryIsExact /\ HeardInv /\ ReachInv
<1>1. Init => IInv
  BY TypeInit, RegistryInit, HeardInit, ReachInit
<1>2. IInv /\ [Next]_vars => IInv'
  BY TypeStep, RegistryStep, HeardStep, ReachStep
<1>3. IInv => NoMissedEntry
  BY DEF ReachInv, Near, Has, NoMissedEntry, Complete
<1> QED BY <1>1, <1>2, <1>3, PTL DEF Spec
=============================================================================

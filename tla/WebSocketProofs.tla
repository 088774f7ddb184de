--------------------------- MODULE WebSocketProofs ---------------------------
(***************************************************************************)
(* Proofs about WebSocket, for any number of clients and of messages.      *)
(*                                                                         *)
(* The messages are numbered, so the contents of the queue, of the wire    *)
(* and of the pool are known from their lengths alone: the invariant says  *)
(* which interval of numbers each holds, and the mutex keeps the interval  *)
(* of the queue still while the thread walks through it.                   *)
(***************************************************************************)
EXTENDS WebSocket, SequenceTheorems, TLAPS

Walking == th \in {"write", "clear"}

(* Who holds the mutex, and what the end of the destructor implies. *)
Locking ==
  /\ mutex = "thread" <=> Walking
  /\ mutex = "vm" <=> vm = "add"
  /\ vm = "gone" => th = "ended"
  /\ vm \in {"lock", "add"} => sent < MaxMessages

(* The queue starts after the messages that were written and cleared. *)
Base == IF Walking THEN Len(wire) - i ELSE Len(wire)

Numbered ==
  /\ \A k \in 1 .. Len(wire) : wire[k].msg = k
  /\ \A k \in 1 .. Len(freed) : freed[k] = k
  /\ vm # "gone" =>
       /\ Base \in Nat /\ Base + Len(v) = sent
       /\ \A k \in 1 .. Len(v) : v[k] = Base + k
       /\ Len(freed) = Len(wire)
       /\ th = "write" => i <= Len(v)
       /\ th = "clear" => i = Len(v)
  /\ vm = "gone" => Len(freed) = sent /\ Len(wire) <= sent

IInv == TypeOK /\ Locking /\ Numbered

(* Where an append leaves the elements of a sequence. *)
LEMMA Appended ==
  ASSUME NEW S, NEW s \in Seq(S), NEW e \in S
  PROVE  /\ Append(s, e) \in Seq(S)
         /\ Len(Append(s, e)) = Len(s) + 1
         /\ Len(s) \in Nat
         /\ \A k \in 1 .. Len(s) : Append(s, e)[k] = s[k]
         /\ Append(s, e)[Len(s) + 1] = e
OBVIOUS

(* The invariant holds at first.                                           *)
LEMMA InitIInv == Init => IInv
<1>1. SUFFICES ASSUME Init PROVE IInv OBVIOUS
<1>2. TypeOK
  <2>1. /\ v \in Seq(Messages) /\ freed \in Seq(Messages)
        /\ wire \in Seq([to : Clients, msg : Messages])
    BY <1>1, EmptySeq DEF Init
  <2>2. i \in 0 .. MaxMessages /\ sent \in 0 .. MaxMessages
    BY <1>1, WebSocketAssumption DEF Init
  <2>3. QED BY <1>1, <2>1, <2>2 DEF Init, TypeOK
<1>3. Locking BY <1>1 DEF Init, Locking, Walking
<1>4. Numbered BY <1>1 DEF Init, Numbered, Base, Walking
<1>5. QED BY <1>2, <1>3, <1>4 DEF IInv

(* The steps that move no message: the machine and the thread change hands *)
(* or wait, and the library deals with its clients.                        *)
LEMMA QuietStep ==
  ASSUME IInv,
         \/ Send \/ SendLock \/ Dtor \/ Test \/ Woken \/ Lock \/ WriteEnd \/ Request
         \/ \E c \in Clients : Connect(c) \/ Leave(c) \/ Receive(c) \/ Writeable(c)
  PROVE  IInv'
<1> USE WebSocketAssumption
<1>1. CASE Send
  <2>1. TypeOK' BY <1>1 DEF Send, IInv, TypeOK, stop, library, hist
  <2>2. Locking' BY <1>1 DEF Send, IInv, Locking, Walking, stop, library, hist
  <2>3. Numbered' BY <1>1 DEF Send, IInv, TypeOK, Locking, Numbered, Base, Walking, stop, library, hist
  <2>4. QED BY <2>1, <2>2, <2>3 DEF IInv
<1>2. CASE SendLock
  <2>1. TypeOK' BY <1>2 DEF SendLock, IInv, TypeOK, stop, library, hist
  <2>2. Locking' BY <1>2 DEF SendLock, IInv, Locking, Walking, stop, library, hist
  <2>3. Numbered' BY <1>2 DEF SendLock, IInv, TypeOK, Locking, Numbered, Base, Walking, stop, library, hist
  <2>4. QED BY <2>1, <2>2, <2>3 DEF IInv
<1>3. CASE Dtor
  <2>1. TypeOK' BY <1>3 DEF Dtor, IInv, TypeOK, stop, library, hist
  <2>2. Locking' BY <1>3 DEF Dtor, IInv, Locking, Walking, stop, library, hist
  <2>3. Numbered' BY <1>3 DEF Dtor, IInv, TypeOK, Locking, Numbered, Base, Walking, stop, library, hist
  <2>4. QED BY <2>1, <2>2, <2>3 DEF IInv
<1>4. CASE Test
  <2>1. TypeOK' BY <1>4 DEF Test, IInv, TypeOK, stop, library, hist
  <2>2. Locking' BY <1>4 DEF Test, IInv, Locking, Walking, stop, library, hist
  <2>3. Numbered' BY <1>4 DEF Test, IInv, TypeOK, Locking, Numbered, Base, Walking, stop, library, hist
  <2>4. QED BY <2>1, <2>2, <2>3 DEF IInv
<1>5. CASE Woken
  <2>1. TypeOK' BY <1>5 DEF Woken, IInv, TypeOK, stop, library, hist
  <2>2. Locking' BY <1>5 DEF Woken, IInv, Locking, Walking, stop, library, hist
  <2>3. Numbered' BY <1>5 DEF Woken, IInv, TypeOK, Locking, Numbered, Base, Walking, stop, library, hist
  <2>4. QED BY <2>1, <2>2, <2>3 DEF IInv
<1>6. CASE Lock
  <2>1. TypeOK' BY <1>6 DEF Lock, IInv, TypeOK, stop, library, hist
  <2>2. Locking' BY <1>6 DEF Lock, IInv, Locking, Walking, stop, library, hist
  <2>3. Numbered' BY <1>6 DEF Lock, IInv, TypeOK, Locking, Numbered, Base, Walking, stop, library, hist
  <2>4. QED BY <2>1, <2>2, <2>3 DEF IInv
<1>7. CASE Request
  <2>1. TypeOK' BY <1>7 DEF Request, IInv, TypeOK, stop, library, hist
  <2>2. Locking' BY <1>7 DEF Request, IInv, Locking, Walking, stop, library, hist
  <2>3. Numbered' BY <1>7 DEF Request, IInv, TypeOK, Locking, Numbered, Base, Walking, stop, library, hist
  <2>4. QED BY <2>1, <2>2, <2>3 DEF IInv
<1>8. CASE WriteEnd
  <2>1. TypeOK' BY <1>8 DEF WriteEnd, IInv, TypeOK, stop, library, hist
  <2>2. Locking' BY <1>8 DEF WriteEnd, IInv, Locking, Walking, stop, library, hist
  <2>3. Numbered' BY <1>8 DEF WriteEnd, IInv, TypeOK, Locking, Numbered, Base, Walking, stop, library, hist
  <2>4. QED BY <2>1, <2>2, <2>3 DEF IInv
<1>9. ASSUME NEW c \in Clients, Connect(c) PROVE IInv'
  <2>1. TypeOK' BY <1>9 DEF Connect, Served, IInv, TypeOK, stop, library, hist
  <2>2. Locking' BY <1>9 DEF Connect, Served, IInv, Locking, Walking, stop, library, hist
  <2>3. Numbered' BY <1>9 DEF Connect, Served, IInv, Numbered, Base, Walking, stop, library, hist
  <2>4. QED BY <2>1, <2>2, <2>3 DEF IInv
<1>10. ASSUME NEW c \in Clients, Leave(c) PROVE IInv'
  <2>1. TypeOK' BY <1>10 DEF Leave, Served, IInv, TypeOK, stop, library, hist
  <2>2. Locking' BY <1>10 DEF Leave, Served, IInv, Locking, Walking, stop, library, hist
  <2>3. Numbered' BY <1>10 DEF Leave, Served, IInv, Numbered, Base, Walking, stop, library, hist
  <2>4. QED BY <2>1, <2>2, <2>3 DEF IInv
<1>11. ASSUME NEW c \in Clients, Receive(c) PROVE IInv'
  <2>1. TypeOK' BY <1>11 DEF Receive, Served, IInv, TypeOK, stop, library, hist
  <2>2. Locking' BY <1>11 DEF Receive, Served, IInv, Locking, Walking, stop, library, hist
  <2>3. Numbered' BY <1>11 DEF Receive, Served, IInv, Numbered, Base, Walking, stop, library, hist
  <2>4. QED BY <2>1, <2>2, <2>3 DEF IInv
<1>12. ASSUME NEW c \in Clients, Writeable(c) PROVE IInv'
  <2>1. TypeOK' BY <1>12 DEF Writeable, IInv, TypeOK, stop, library, hist
  <2>2. Locking' BY <1>12 DEF Writeable, IInv, Locking, Walking, stop, library, hist
  <2>3. Numbered' BY <1>12 DEF Writeable, IInv, Numbered, Base, Walking, stop, library, hist
  <2>4. QED BY <2>1, <2>2, <2>3 DEF IInv
<1>13. QED BY <1>1, <1>2, <1>3, <1>4, <1>5, <1>6, <1>7, <1>8, <1>9, <1>10, <1>11, <1>12

(* send adds the next number behind the others. *)
LEMMA SendAddStep == IInv /\ SendAdd => IInv'
<1> USE WebSocketAssumption
<1>1. SUFFICES ASSUME IInv, SendAdd PROVE IInv' OBVIOUS
<1>2. ~Walking /\ sent < MaxMessages /\ vm # "gone" /\ vm' # "gone"
  BY <1>1 DEF SendAdd, IInv, Locking, Walking
<1>3. v \in Seq(Messages) /\ sent + 1 \in Messages /\ sent \in Nat
  BY <1>1, <1>2 DEF IInv, TypeOK, Messages
<1>4. /\ v' \in Seq(Messages) /\ Len(v') = Len(v) + 1 /\ Len(v) \in Nat
      /\ \A k \in 1 .. Len(v) : v'[k] = v[k]
      /\ v'[Len(v) + 1] = sent + 1
  BY <1>1, <1>3, Appended DEF SendAdd
<1>5. TypeOK' BY <1>1, <1>2, <1>4 DEF SendAdd, IInv, TypeOK, stop, library
<1>6. Locking' BY <1>1 DEF SendAdd, IInv, Locking, Walking
<1>7. Base' = Base /\ Walking' = Walking /\ th' = th
  BY <1>1 DEF SendAdd, Base, Walking
<1>8. /\ Base \in Nat /\ Base + Len(v) = sent /\ \A k \in 1 .. Len(v) : v[k] = Base + k
  BY <1>1, <1>2 DEF IInv, Numbered
<1>9. \A k \in 1 .. Len(v') : v'[k] = Base + k BY <1>4, <1>8
<1>10. Base + Len(v') = sent' BY <1>1, <1>3, <1>4, <1>8 DEF SendAdd
<1>11. Numbered'
  BY <1>1, <1>2, <1>7, <1>8, <1>9, <1>10 DEF SendAdd, IInv, Numbered, Walking
<1>12. QED BY <1>5, <1>6, <1>11 DEF IInv

(* The loop of the callback sends the message after the last one it sent.  *)
LEMMA WriteStep == IInv /\ Write => IInv'
<1> USE WebSocketAssumption
<1>1. SUFFICES ASSUME IInv, Write PROVE IInv' OBVIOUS
<1>2. Walking /\ Walking' /\ vm # "gone" /\ vm' = vm
  BY <1>1 DEF Write, IInv, Locking, Walking
<1>3. /\ i \in Nat /\ i < Len(v) /\ i + 1 \in 1 .. Len(v) /\ Len(v) \in Nat
      /\ v \in Seq(Messages) /\ wire \in Seq([to : Clients, msg : Messages])
      /\ freed \in Seq(Messages) /\ wsi \in Clients /\ sent \in 0 .. MaxMessages
  BY <1>1 DEF Write, IInv, TypeOK
<1>4. v[i + 1] \in Messages BY <1>3, ElementOfSeq
<1>5. /\ Base = Len(wire) - i /\ Base \in Nat /\ Base + Len(v) = sent
      /\ Len(freed) = Len(wire) /\ v[i + 1] = Base + (i + 1)
  BY <1>1, <1>2, <1>3 DEF IInv, Numbered, Base
<1> DEFINE e == [to |-> wsi, msg |-> v[i + 1]]
<1>6. /\ wire' \in Seq([to : Clients, msg : Messages])
      /\ Len(wire') = Len(wire) + 1 /\ Len(wire) \in Nat
      /\ \A k \in 1 .. Len(wire) : wire'[k] = wire[k]
      /\ wire'[Len(wire) + 1] = e
  <2>1. e \in [to : Clients, msg : Messages] BY <1>3, <1>4
  <2>2. wire' = Append(wire, e) BY <1>1 DEF Write
  <2>3. QED BY <1>3, <2>1, <2>2, Appended
<1>7. /\ freed' \in Seq(Messages)
      /\ Len(freed') = Len(freed) + 1
      /\ \A k \in 1 .. Len(freed) : freed'[k] = freed[k]
      /\ freed'[Len(freed) + 1] = v[i + 1]
  BY <1>1, <1>3, <1>4, Appended DEF Write
<1>8. TypeOK'
  <2>1. i' \in 0 .. MaxMessages
    <3>1. Len(v) <= sent BY <1>3, <1>5
    <3>2. i' = i + 1 BY <1>1 DEF Write
    <3>3. QED BY <1>3, <3>1, <3>2
  <2>2. QED BY <1>1, <1>6, <1>7, <2>1 DEF Write, IInv, TypeOK, stop, library
<1>9. Locking' BY <1>1 DEF Write, IInv, Locking, Walking
<1>10. Len(wire') = i' + Base /\ Base' = Base
  BY <1>1, <1>2, <1>3, <1>5, <1>6 DEF Write, Base
<1>11. \A k \in 1 .. Len(wire') : wire'[k].msg = k
  <2>1. e.msg = Len(wire) + 1 BY <1>3, <1>5, <1>6
  <2>2. \A k \in 1 .. Len(wire) : wire[k].msg = k BY <1>1 DEF IInv, Numbered
  <2> HIDE DEF e
  <2>3. QED BY <1>6, <2>1, <2>2
<1>12. \A k \in 1 .. Len(freed') : freed'[k] = k
  <2>1. v[i + 1] = Len(freed) + 1 BY <1>3, <1>5, <1>6
  <2>2. \A k \in 1 .. Len(freed) : freed[k] = k BY <1>1 DEF IInv, Numbered
  <2>3. Len(freed') = Len(freed) + 1 /\ Len(freed) \in Nat BY <1>3, <1>7
  <2>4. SUFFICES ASSUME NEW k \in 1 .. Len(freed') PROVE freed'[k] = k OBVIOUS
  <2>5. CASE k \in 1 .. Len(freed) BY <1>7, <2>2, <2>5
  <2>6. CASE k = Len(freed) + 1 BY <1>7, <2>1, <2>6
  <2>7. QED BY <2>3, <2>4, <2>5, <2>6
<1>13. /\ v' = v /\ sent' = sent /\ th' = "write" /\ i' = i + 1
       /\ \A k \in 1 .. Len(v) : v[k] = Base + k
  BY <1>1, <1>2 DEF Write, IInv, Numbered
<1>14. Numbered'
  BY <1>2, <1>3, <1>5, <1>6, <1>7, <1>10, <1>11, <1>12, <1>13 DEF Numbered
<1>15. QED BY <1>8, <1>9, <1>14 DEF IInv

(* The queue is emptied after its last message was sent. *)
LEMMA ClearStep == IInv /\ Clear => IInv'
<1> USE WebSocketAssumption
<1>1. SUFFICES ASSUME IInv, Clear PROVE IInv' OBVIOUS
<1>2. Walking /\ ~Walking' /\ vm # "gone" /\ vm' = vm
  BY <1>1 DEF Clear, IInv, Locking, Walking
<1>3. /\ Len(wire) \in Nat /\ i \in Nat /\ i = Len(v) /\ sent \in Nat
      /\ Base = Len(wire) - i /\ Base + Len(v) = sent
  BY <1>1, <1>2 DEF Clear, IInv, TypeOK, Numbered, Base
<1>4. v' \in Seq(Messages) /\ v' = <<>> /\ Len(v') = 0 BY <1>1 DEF Clear
<1>5. TypeOK' BY <1>1, <1>4 DEF Clear, IInv, TypeOK, stop, library, hist
<1>6. Locking' BY <1>1 DEF Clear, IInv, Locking, Walking, hist
<1>7. Base' = Len(wire) /\ wire' = wire /\ freed' = freed /\ sent' = sent /\ th' = "request"
  BY <1>1, <1>2 DEF Clear, Base, hist
<1>8. Numbered' BY <1>1, <1>2, <1>3, <1>4, <1>7 DEF IInv, Numbered
<1>9. QED BY <1>5, <1>6, <1>8 DEF IInv

(* The destructor gives back what the thread, which is over, has left.     *)
LEMMA DtorJoinStep == IInv /\ DtorJoin => IInv'
<1> USE WebSocketAssumption
<1>1. SUFFICES ASSUME IInv, DtorJoin PROVE IInv' OBVIOUS
<1>2. ~Walking /\ vm # "gone" /\ vm' = "gone" /\ v' = <<>>
  BY <1>1 DEF DtorJoin, IInv, Locking, Walking
<1>3. /\ v \in Seq(Messages) /\ freed \in Seq(Messages) /\ freed' = freed \o v
      /\ Len(v) \in Nat /\ Len(freed) \in Nat /\ sent \in Nat /\ Len(wire) \in Nat
  BY <1>1 DEF DtorJoin, IInv, TypeOK
<1>4. /\ freed' \in Seq(Messages) /\ Len(freed') = Len(freed) + Len(v)
      /\ \A k \in 1 .. Len(freed) + Len(v) :
           freed'[k] = IF k <= Len(freed) THEN freed[k] ELSE v[k - Len(freed)]
  BY <1>3, ConcatProperties
<1>5. /\ Len(freed) = Len(wire) /\ Len(wire) + Len(v) = sent
      /\ \A k \in 1 .. Len(v) : v[k] = Len(wire) + k
      /\ \A k \in 1 .. Len(freed) : freed[k] = k
      /\ \A k \in 1 .. Len(wire) : wire[k].msg = k
  BY <1>1, <1>2 DEF IInv, Numbered, Base
<1>6. \A k \in 1 .. Len(freed') : freed'[k] = k
  <2>1. SUFFICES ASSUME NEW k \in 1 .. Len(freed') PROVE freed'[k] = k OBVIOUS
  <2>2. CASE k <= Len(freed) BY <1>3, <1>4, <1>5, <2>1, <2>2
  <2>3. CASE ~(k <= Len(freed))
    <3>1. k - Len(freed) \in 1 .. Len(v) BY <1>3, <1>4, <2>1, <2>3
    <3>2. QED BY <1>3, <1>4, <1>5, <2>1, <2>3, <3>1
  <2>4. QED BY <2>2, <2>3
<1>7. TypeOK' BY <1>1, <1>2, <1>4 DEF DtorJoin, IInv, TypeOK, stop, library
<1>8. Locking' BY <1>1 DEF DtorJoin, IInv, Locking, Walking
<1>9. Numbered'
  <2>1. wire' = wire /\ sent' = sent BY <1>1 DEF DtorJoin
  <2>2. QED BY <1>2, <1>3, <1>4, <1>5, <1>6, <2>1 DEF Numbered
<1>10. QED BY <1>7, <1>8, <1>9 DEF IInv

(* Every step keeps the invariant.                                         *)
LEMMA Inductive == IInv /\ [Next]_vars => IInv'
<1>1. SUFFICES ASSUME IInv, [Next]_vars PROVE IInv' OBVIOUS
<1>2. CASE UNCHANGED vars
  BY <1>1, <1>2 DEF vars, IInv, TypeOK, Locking, Numbered, Base, Walking
<1>3. CASE Next
  BY <1>1, <1>3, QuietStep, SendAddStep, WriteStep, ClearStep, DtorJoinStep
     DEF Next, VM, Peers, Thread
<1>4. QED BY <1>1, <1>2, <1>3

(* It holds of every behaviour.                                            *)
LEMMA Invariance == Spec => []IInv
BY InitIInv, Inductive, PTL DEF Spec

(* Every reachable state of a WebSocket has the types of TypeOK. *)
THEOREM TypeCorrect == Spec => []TypeOK
<1>1. IInv => TypeOK BY DEF IInv
<1>2. QED BY <1>1, Invariance, PTL

(* The callback sends every string at most once, to one client, in the     *)
(* order of the sends (server.c:129-136).                                  *)
THEOREM StringsToOneClient == Spec => []OneClientEach
<1>1. IInv => OneClientEach
  <2>1. SUFFICES ASSUME IInv PROVE OneClientEach OBVIOUS
  <2>2. /\ wire \in Seq([to : Clients, msg : Messages]) /\ v \in Seq(Messages)
        /\ Len(wire) \in Nat /\ Len(v) \in Nat /\ i \in Nat
    BY <2>1, WebSocketAssumption DEF IInv, TypeOK
  <2>3. \A n \in DOMAIN wire : wire[n].msg = n BY <2>1, <2>2 DEF IInv, Numbered
  <2>4. ASSUME vm # "gone" PROVE Len(wire) + Len(Pending) = sent
    <3>1. Base + Len(v) = sent BY <2>1, <2>4 DEF IInv, Numbered
    <3>2. CASE Walking
      <4>1. i <= Len(v) BY <2>1, <2>4, <2>2, <3>2 DEF IInv, Numbered, Walking
      <4>2. Len(SubSeq(v, i + 1, Len(v))) = Len(v) - i
        BY <2>2, <4>1, SubSeqProperties
      <4>3. QED BY <2>2, <3>1, <3>2, <4>2 DEF Pending, Base, Walking
    <3>3. CASE ~Walking BY <3>1, <3>3 DEF Pending, Base, Walking
    <3>4. QED BY <3>2, <3>3
  <2>5. QED BY <2>3, <2>4 DEF OneClientEach
<1>2. QED BY <1>1, Invariance, PTL

(* No string is given back to the pool twice, by the callback or by the    *)
(* destructor, and after the destructor none is left (server.c:133, 180).  *)
THEOREM StringsFreedOnce == Spec => []FreedOnce
<1>1. IInv => FreedOnce
  <2>1. SUFFICES ASSUME IInv PROVE FreedOnce OBVIOUS
  <2>2. DOMAIN freed = 1 .. Len(freed) BY <2>1 DEF IInv, TypeOK
  <2>3. QED BY <2>1, <2>2 DEF IInv, Numbered, FreedOnce, IsInjective
<1>2. QED BY <1>1, Invariance, PTL

=============================================================================

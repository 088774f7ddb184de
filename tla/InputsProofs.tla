---------------------------- MODULE InputsProofs ----------------------------
(***************************************************************************)
(* Proofs about the three plug-ins that hand shreds the messages of a      *)
(* device, for every set of shreds and every number of events or bytes:    *)
(* about the object of Evdev, then of PortMidi, then of RtMidi, each on    *)
(* its own; and last of a program that imports one of them.                *)
(***************************************************************************)
EXTENDS Inputs, SequenceTheorems, TLAPS

(* A shred is inside a method of the object. *)
Busy == {"recv", "body", "cancel", "join", "destroy", "free"}

(* Exactly-once delivery, said of positions: args[idx+1 ..] continues sent *)
(* where log stops.                                                        *)
Position ==
  /\ idx <= Len(args)
  /\ Len(log) + (Len(args) - idx) = Len(sent)
  /\ \A i \in 1 .. Len(log) : log[i] = sent[i]
  /\ \A i \in 1 .. Len(args) - idx : args[idx + i] = sent[Len(log) + i]

(* Who is in which critical section. *)
Locking ==
  /\ mutex = Reader <=> rpc \in {"add", "store"}
  /\ \A s \in Shreds : mutex = s <=> spc[s] = "body"
  /\ \A s \in Shreds : vm = s <=> spc[s] \in Busy

(* What the reader holds while it appends. *)
Holding ==
  /\ rpc \in {"lock", "add", "store"} => hand \in 1 .. MaxEvents
  /\ rpc = "store" => rlen = Len(args)

(* The destructor has gone past the join, or there never was a thread. *)
Down ==
  \/ destroyed
  \/ life \in {"failed", "freed"}
  \/ \E s \in Shreds : spc[s] \in {"destroy", "free"}

Teardown ==
  /\ Down => /\ rpc \in {"none", "done"}
             /\ mutex = NoOne
             /\ \A s \in Shreds : spc[s] \notin {"recv", "body"}
  /\ Down => life = "freed" \/ vm # NoOne
  /\ life = "freed" => vm = NoOne
  /\ life = "new" => ~Down /\ rpc = "none" /\ mutex = NoOne /\ vm = NoOne

IInv == TypeOK /\ Position /\ Locking /\ Holding /\ Teardown

-----------------------------------------------------------------------------
(* Appending by storing at position Len(q) + 1 yields a sequence. *)
LEMMA StoredIsSeq ==
  ASSUME NEW S, NEW q \in Seq(S), NEW m \in S
  PROVE  /\ Stored(q, Len(q), m) \in Seq(S)
         /\ Len(Stored(q, Len(q), m)) = Len(q) + 1
         /\ \A i \in 1 .. Len(q) : Stored(q, Len(q), m)[i] = q[i]
         /\ Stored(q, Len(q), m)[Len(q) + 1] = m
<1> DEFINE n == Len(q)
           f == Stored(q, n, m)
<1>1. n \in Nat
  OBVIOUS
<1>2. f \in [1 .. n + 1 -> S]
  BY <1>1 DEF Stored
<1>3. f \in Seq(S) /\ Len(f) = n + 1
  BY <1>1, <1>2
<1>4. QED
  BY <1>1, <1>3 DEF Stored

(* That is, it appends.                                                    *)
LEMMA StoredIsAppend ==
  ASSUME NEW S, NEW q \in Seq(S), NEW m \in S
  PROVE  Stored(q, Len(q), m) = Append(q, m)
<1> DEFINE f == Stored(q, Len(q), m)
<1>1. /\ f \in Seq(S)
      /\ Len(f) = Len(q) + 1
      /\ \A i \in 1 .. Len(q) : f[i] = q[i]
      /\ f[Len(q) + 1] = m
  BY StoredIsSeq
<1> HIDE DEF f
<1>2. /\ Append(q, m) \in Seq(S)
      /\ Len(Append(q, m)) = Len(q) + 1
      /\ \A i \in 1 .. Len(q) : Append(q, m)[i] = q[i]
      /\ Append(q, m)[Len(q) + 1] = m
  BY AppendProperties
<1>3. ASSUME NEW i \in 1 .. Len(f)
      PROVE  f[i] = Append(q, m)[i]
  <2>1. i \in 1 .. Len(q) \/ i = Len(q) + 1
    BY <1>1
  <2> QED
    BY <1>1, <1>2, <2>1
<1>4. f = Append(q, m)
  BY <1>1, <1>2, <1>3, SeqEqual
<1> QED
  BY <1>4 DEF f

(* Lengths are numbers. *)
LEMMA Lengths ==
  TypeOK => /\ Len(args) \in Nat /\ Len(sent) \in Nat /\ Len(log) \in Nat
            /\ idx \in Nat
BY LenProperties DEF TypeOK

(* The positions of Position spell out ExactlyOnce. *)
LEMMA PositionIsExactlyOnce == TypeOK /\ Position => ExactlyOnce
<1> SUFFICES ASSUME TypeOK, Position
             PROVE  log \o Queue = sent
  BY DEF ExactlyOnce
<1> DEFINE k == Len(args) - idx
<1>1. k \in Nat /\ Len(log) + k = Len(sent)
  BY DEF TypeOK, Position
<1>2. /\ Queue \in Seq(1 .. MaxEvents)
      /\ Len(Queue) = k
      /\ \A i \in 1 .. k : Queue[i] = args[idx + i]
  <2>1. \A i \in idx + 1 .. Len(args) : args[i] \in 1 .. MaxEvents
    <3>1. Len(args) \in Nat /\ idx \in Nat /\ args \in Seq(1 .. MaxEvents)
      BY Lengths DEF TypeOK
    <3>2. ASSUME NEW i \in idx + 1 .. Len(args)
          PROVE  i \in 1 .. Len(args)
      BY <3>1
    <3>3. QED
      BY <3>1, <3>2, ElementOfSeq
  <2>2. idx + 1 \in Int /\ Len(args) \in Int
    BY DEF TypeOK
  <2>3. /\ Queue \in Seq(1 .. MaxEvents)
        /\ Len(Queue) = IF idx + 1 <= Len(args) THEN Len(args) - (idx + 1) + 1 ELSE 0
        /\ \A i \in 1 .. Len(args) - (idx + 1) + 1 : Queue[i] = args[(idx + 1) + i - 1]
    BY <2>1, <2>2, SubSeqProperties DEF Queue
  <2>4. QED
    BY <2>3, <1>1 DEF TypeOK, Position
<1>3. Len(log \o Queue) = Len(sent)
  BY <1>1, <1>2 DEF TypeOK
<1>4. ASSUME NEW i \in 1 .. Len(sent)
      PROVE  (log \o Queue)[i] = sent[i]
  <2>1. CASE i \in 1 .. Len(log)
    BY <1>1, <1>2, <2>1 DEF TypeOK, Position
  <2>2. CASE i \notin 1 .. Len(log)
    <3>1. i - Len(log) \in 1 .. k
      BY <1>1, <2>2 DEF TypeOK
    <3>2. (log \o Queue)[i] = Queue[i - Len(log)]
      BY <1>1, <1>2, <2>2, <3>1 DEF TypeOK
    <3>3. Queue[i - Len(log)] = sent[Len(log) + (i - Len(log))]
      BY <1>2, <3>1 DEF Position
    <3>4. QED
      BY <1>1, <3>1, <3>2, <3>3, SMTT(30) DEF TypeOK
  <2>3. QED
    BY <2>1, <2>2
<1>5. log \o Queue \in Seq(1 .. MaxEvents)
  BY <1>2 DEF TypeOK
<1>6. QED
  BY <1>3, <1>4, <1>5, SeqEqual DEF TypeOK

-----------------------------------------------------------------------------
(* The invariant holds at first.                                           *)
LEMMA InitIInv == Init => IInv
<1> SUFFICES ASSUME Init
             PROVE  IInv
  OBVIOUS
<1> USE EvdevAssumption DEF Init
<1>1. TypeOK
  <2>1. args \in Seq(1 .. MaxEvents) /\ sent \in Seq(1 .. MaxEvents)
          /\ log \in Seq(1 .. MaxEvents)
    BY EmptySeq
  <2>2. spc \in [Shreds -> {"ready", "woken", "waiting", "recv", "body", "cancel",
                           "join", "destroy", "free", "gone"}]
    OBVIOUS
  <2>3. hand \in 0 .. MaxEvents /\ rlen \in Nat /\ idx \in Nat
    OBVIOUS
  <2>4. ret \in [Shreds -> BOOLEAN]
    BY Zenon
  <2>5. QED
    BY <2>1, <2>2, <2>3, <2>4 DEF TypeOK
<1>2. Position
  BY DEF Position
<1>3. Locking /\ Holding /\ Teardown
  BY DEF Locking, Holding, Teardown, Down, Busy
<1>4. QED
  BY <1>1, <1>2, <1>3 DEF IInv

(* Only these steps touch the array or the histories. *)
LEMMA TypeStep == IInv /\ [Next]_vars => TypeOK'
<1> SUFFICES ASSUME IInv, [Next]_vars
             PROVE  TypeOK'
  OBVIOUS
<1> USE EvdevAssumption DEF IInv, TypeOK, qvars, rvars, dvars, svars
<1>1. CASE Open
  BY <1>1 DEF Open
<1>2. CASE Poll \/ NextNothing \/ NextError \/ Cancelled
  BY <1>2 DEF Poll, NextNothing, NextError, Cancelled
<1>3. CASE NextEvent
  BY <1>3 DEF NextEvent
<1>4. CASE ReaderLock \/ AddRead
  BY <1>4 DEF ReaderLock, AddRead
<1>5. CASE AddStore
  <2>1. hand \in 1 .. MaxEvents /\ rlen = Len(args)
    BY <1>5 DEF AddStore, Holding
  <2>2. args' \in Seq(1 .. MaxEvents)
    BY <1>5, <2>1, StoredIsSeq DEF AddStore
  <2>3. QED
    BY <1>5, <2>1, <2>2 DEF AddStore
<1>6. CASE Broadcast
  BY <1>6 DEF Broadcast, Woken
<1>7. ASSUME NEW s \in Shreds, OpenFail(s) \/ Wait(s) \/ Recv(s) \/ RecvLock(s)
      PROVE  TypeOK'
  BY <1>7, ZenonT(30) DEF OpenFail, Wait, Recv, RecvLock
<1>8. ASSUME NEW s \in Shreds, RecvNone(s)
      PROVE  TypeOK'
  BY <1>8 DEF RecvNone, Return
<1>9. ASSUME NEW s \in Shreds, RecvSome(s)
      PROVE  TypeOK'
  <2>1. idx + 1 \in 1 .. Len(args)
    BY <1>9, Lengths DEF RecvSome, Position
  <2>2. args[idx + 1] \in 1 .. MaxEvents
    BY <2>1, ElementOfSeq
  <2>3. QED
    BY <1>9, <2>2 DEF RecvSome, Return
<1>10. ASSUME NEW s \in Shreds, Release(s)
       PROVE  TypeOK'
  BY <1>10 DEF Release
<1>11. ASSUME NEW s \in Shreds, Dtor(s)
       PROVE  TypeOK'
  BY <1>11 DEF Dtor, DtorCancel, DtorJoin, DtorDestroy, DtorFree
<1>12. CASE UNCHANGED vars
  BY <1>12 DEF vars
<1>13. QED
  BY <1>1, <1>2, <1>3, <1>4, <1>5, <1>6, <1>7, <1>8, <1>9, <1>10, <1>11, <1>12
     DEF Next, ReaderNext, ShredNext, RecvBody

(* A step that leaves the array and the histories alone keeps Position; of *)
(* the others, storing extends args and sent alike, and recv moves the     *)
(* boundary between log and args, or drops what lies before it.            *)
LEMMA PositionStep == IInv /\ [Next]_vars => Position'
<1> SUFFICES ASSUME IInv, [Next]_vars
             PROVE  Position'
  OBVIOUS
<1> USE EvdevAssumption DEF IInv
<1> USE Lengths
<1>1. CASE UNCHANGED qvars
  BY <1>1 DEF Position, qvars
<1>2. CASE AddStore
  <2>1. hand \in 1 .. MaxEvents /\ rlen = Len(args)
    BY <1>2 DEF AddStore, Holding
  <2>2. /\ Len(args') = Len(args) + 1
        /\ \A i \in 1 .. Len(args) : args'[i] = args[i]
        /\ args'[Len(args) + 1] = hand
    <3>1. args' = Stored(args, Len(args), hand)
      BY <1>2, <2>1 DEF AddStore
    <3>2. args \in Seq(1 .. MaxEvents)
      BY DEF TypeOK
    <3> DEFINE f == Stored(args, Len(args), hand)
    <3>3. /\ Len(f) = Len(args) + 1
          /\ \A i \in 1 .. Len(args) : f[i] = args[i]
          /\ f[Len(args) + 1] = hand
      BY <2>1, <3>2, StoredIsSeq
    <3> HIDE DEF f
    <3>4. args' = f
      BY <3>1 DEF f
    <3>5. QED
      BY <3>3, <3>4
  <2>3. /\ Len(sent') = Len(sent) + 1
        /\ \A i \in 1 .. Len(sent) : sent'[i] = sent[i]
        /\ sent'[Len(sent) + 1] = hand
    BY <1>2, <2>1, AppendProperties DEF AddStore, TypeOK
  <2>4. idx' = idx /\ log' = log
    BY <1>2 DEF AddStore
  <2>5. idx' <= Len(args') /\ Len(log') + (Len(args') - idx') = Len(sent')
    BY <2>2, <2>3, <2>4 DEF Position
  <2>6. \A i \in 1 .. Len(log') : log'[i] = sent'[i]
    BY <2>3, <2>4 DEF Position
  <2>7. ASSUME NEW i \in 1 .. Len(args') - idx'
        PROVE  args'[idx' + i] = sent'[Len(log') + i]
    <3>1. CASE i = Len(args') - idx'
      BY <2>2, <2>3, <2>4, <2>5, <3>1, SMTT(30) DEF Position
    <3>2. CASE i # Len(args') - idx'
      <4>1. i \in 1 .. Len(args) - idx
        BY <2>2, <2>4, <3>2 DEF Position
      <4>2. args[idx + i] = sent[Len(log) + i]
        BY <4>1 DEF Position
      <4>3. idx + i \in 1 .. Len(args) /\ Len(log) + i \in 1 .. Len(sent)
        BY <4>1 DEF Position
      <4>4. QED
        BY <2>2, <2>3, <2>4, <4>2, <4>3
    <3>3. QED
      BY <3>1, <3>2
  <2>8. QED
    BY <2>5, <2>6, <2>7 DEF Position
<1>3. ASSUME NEW s \in Shreds, RecvNone(s)
      PROVE  Position'
  BY <1>3 DEF RecvNone, Position
<1>4. ASSUME NEW s \in Shreds, RecvSome(s)
      PROVE  Position'
  <2>1. idx + 1 \in 1 .. Len(args)
    BY <1>4 DEF RecvSome, Position
  <2>2. /\ Len(log') = Len(log) + 1
        /\ \A i \in 1 .. Len(log) : log'[i] = log[i]
        /\ log'[Len(log) + 1] = args[idx + 1]
    BY <1>4, <2>1, ElementOfSeq, AppendProperties DEF RecvSome, TypeOK
  <2>3. idx' = idx + 1 /\ args' = args /\ sent' = sent
    BY <1>4 DEF RecvSome
  <2>4. idx' <= Len(args') /\ Len(log') + (Len(args') - idx') = Len(sent')
    BY <2>1, <2>2, <2>3 DEF Position
  <2>5. args[idx + 1] = sent[Len(log) + 1]
    BY <2>1 DEF Position
  <2>6. \A i \in 1 .. Len(log') : log'[i] = sent'[i]
    BY <2>2, <2>3, <2>5 DEF Position
  <2>7. ASSUME NEW i \in 1 .. Len(args') - idx'
        PROVE  args'[idx' + i] = sent'[Len(log') + i]
    <3>1. i + 1 \in 1 .. Len(args) - idx
      BY <2>1, <2>3
    <3>2. args[idx + (i + 1)] = sent[Len(log) + (i + 1)]
      BY <3>1 DEF Position
    <3>3. QED
      BY <2>2, <2>3, <3>2
  <2>8. QED
    BY <2>4, <2>6, <2>7 DEF Position
<1>5. QED
  BY <1>1, <1>2, <1>3, <1>4
     DEF Next, ReaderNext, ShredNext, RecvBody, Dtor, vars, qvars,
         Open, Poll, NextEvent, NextNothing, NextError, Cancelled, ReaderLock,
         AddRead, Broadcast, OpenFail, Wait, Recv, RecvLock, Release,
         DtorCancel, DtorJoin, DtorDestroy, DtorFree

(* Mutual exclusion, what the reader holds, and the order of the           *)
(* destructor, action by action.                                           *)
LEMMA ControlStep == IInv /\ [Next]_vars => Locking' /\ Holding' /\ Teardown'
<1> SUFFICES ASSUME IInv, [Next]_vars
             PROVE  Locking' /\ Holding' /\ Teardown'
  OBVIOUS
<1> USE EvdevAssumption
    DEF IInv, TypeOK, Locking, Holding, Teardown, Down, Busy,
        qvars, rvars, dvars, svars
<1>1. CASE Open
  BY <1>1 DEF Open
<1>2. CASE Poll \/ NextNothing \/ NextError \/ Cancelled
  BY <1>2 DEF Poll, NextNothing, NextError, Cancelled
<1>3. CASE NextEvent
  BY <1>3 DEF NextEvent
<1>4. CASE ReaderLock
  BY <1>4 DEF ReaderLock
<1>5. CASE AddRead
  BY <1>5 DEF AddRead
<1>6. CASE AddStore
  BY <1>6 DEF AddStore
<1>7. CASE Broadcast
  BY <1>7 DEF Broadcast, Woken
<1>8. ASSUME NEW s \in Shreds, OpenFail(s)
      PROVE  Locking' /\ Holding' /\ Teardown'
  BY <1>8 DEF OpenFail
<1>9. ASSUME NEW s \in Shreds, Wait(s)
      PROVE  Locking' /\ Holding' /\ Teardown'
  BY <1>9 DEF Wait, Running
<1>10. ASSUME NEW s \in Shreds, Recv(s)
       PROVE  Locking' /\ Holding' /\ Teardown'
  BY <1>10 DEF Recv, Running
<1>11. ASSUME NEW s \in Shreds, RecvLock(s)
       PROVE  Locking' /\ Holding' /\ Teardown'
  BY <1>11 DEF RecvLock
<1>12. ASSUME NEW s \in Shreds, RecvNone(s)
       PROVE  Locking' /\ Holding' /\ Teardown'
  BY <1>12 DEF RecvNone, Return
<1>13. ASSUME NEW s \in Shreds, RecvSome(s)
       PROVE  Locking' /\ Holding' /\ Teardown'
  BY <1>13 DEF RecvSome, Return
<1>14. ASSUME NEW s \in Shreds, Release(s)
       PROVE  Locking' /\ Holding' /\ Teardown'
  BY <1>14 DEF Release, Running
<1>15. ASSUME NEW s \in Shreds, DtorCancel(s)
       PROVE  Locking' /\ Holding' /\ Teardown'
  BY <1>15 DEF DtorCancel
<1>16. ASSUME NEW s \in Shreds, DtorJoin(s)
       PROVE  Locking' /\ Holding' /\ Teardown'
  BY <1>16 DEF DtorJoin
<1>17. ASSUME NEW s \in Shreds, DtorDestroy(s) \/ DtorFree(s)
       PROVE  Locking' /\ Holding' /\ Teardown'
  BY <1>17 DEF DtorDestroy, DtorFree
<1>18. CASE UNCHANGED vars
  BY <1>18 DEF vars
<1>19. QED
  BY <1>1, <1>2, <1>3, <1>4, <1>5, <1>6, <1>7, <1>8, <1>9, <1>10, <1>11, <1>12,
     <1>13, <1>14, <1>15, <1>16, <1>17, <1>18
     DEF Next, ReaderNext, ShredNext, RecvBody, Dtor

(* It holds of every behaviour.                                            *)
LEMMA Inductive == Spec => []IInv
<1>1. IInv /\ [Next]_vars => IInv'
  BY TypeStep, PositionStep, ControlStep DEF IInv
<1>2. QED
  BY InitIInv, <1>1, PTL DEF Spec

(* Every variable keeps its type. *)
THEOREM TypeCorrect == Spec => []TypeOK
<1>1. IInv => TypeOK
  BY DEF IInv
<1>2. QED
  BY <1>1, Inductive, PTL

(* However the reader thread and the shreds interleave, every event the    *)
(* reader stores is handed out by recv exactly once and in order.          *)
THEOREM EventsExactlyOnce == Spec => []ExactlyOnce
<1>1. IInv => ExactlyOnce
  BY PositionIsExactlyOnce DEF IInv
<1>2. QED
  BY <1>1, Inductive, PTL

(* The destructor frees the mutex, the device and the array only after the *)
(* reader thread has ended.                                                *)
THEOREM SafeTeardown == Spec => []TeardownSafe
<1>1. IInv => TeardownSafe
  BY DEF IInv, Teardown, Down, TeardownSafe
<1>2. QED
  BY <1>1, Inductive, PTL

-----------------------------------------------------------------------------
(* The queue of EventFifo, as a part of an array                           *)

(* A part of a sequence is one: its length and its elements.               *)
LEMMA PartOf ==
  ASSUME NEW S, NEW q \in Seq(S), NEW k \in Nat, k <= Len(q)
  PROVE  /\ SubSeq(q, k + 1, Len(q)) \in Seq(S)
         /\ Len(SubSeq(q, k + 1, Len(q))) = Len(q) - k
         /\ \A n \in 1 .. Len(q) - k : SubSeq(q, k + 1, Len(q))[n] = q[k + n]
<1>1. Len(q) \in Nat
  OBVIOUS
<1>2. ASSUME NEW n \in k + 1 .. Len(q)
      PROVE  q[n] \in S
  BY <1>1, <1>2, ElementOfSeq
<1>3. k + 1 \in Int /\ Len(q) \in Int
  BY <1>1
<1>4. /\ SubSeq(q, k + 1, Len(q)) \in Seq(S)
      /\ Len(SubSeq(q, k + 1, Len(q))) =
           IF k + 1 <= Len(q) THEN Len(q) - (k + 1) + 1 ELSE 0
      /\ \A n \in 1 .. Len(q) - (k + 1) + 1 :
           SubSeq(q, k + 1, Len(q))[n] = q[(k + 1) + n - 1]
  BY <1>2, <1>3, SubSeqProperties
<1> QED
  BY <1>1, <1>4

(* What follows the first k elements grows by one at its end with the      *)
(* sequence.                                                               *)
LEMMA PartGrows ==
  ASSUME NEW S, NEW q \in Seq(S), NEW k \in Nat, k <= Len(q), NEW m \in S
  PROVE  SubSeq(Append(q, m), k + 1, Len(Append(q, m)))
           = Append(SubSeq(q, k + 1, Len(q)), m)
<1> DEFINE r == Append(q, m)
           a == SubSeq(r, k + 1, Len(r))
           b == SubSeq(q, k + 1, Len(q))
<1>0. /\ r \in Seq(S) /\ Len(r) = Len(q) + 1 /\ r[Len(q) + 1] = m
      /\ \A n \in 1 .. Len(q) : r[n] = q[n]
  BY AppendProperties
<1> HIDE DEF r
<1>1. Len(q) \in Nat /\ k <= Len(r)
  BY <1>0
<1>2. /\ a \in Seq(S) /\ Len(a) = Len(q) + 1 - k
      /\ \A n \in 1 .. Len(q) + 1 - k : a[n] = r[k + n]
  BY <1>0, <1>1, PartOf
<1>3. /\ b \in Seq(S) /\ Len(b) = Len(q) - k
      /\ \A n \in 1 .. Len(q) - k : b[n] = q[k + n]
  BY PartOf
<1> HIDE DEF a, b
<1>4. /\ Append(b, m) \in Seq(S) /\ Len(Append(b, m)) = Len(b) + 1
      /\ \A n \in 1 .. Len(b) : Append(b, m)[n] = b[n]
      /\ Append(b, m)[Len(b) + 1] = m
  BY <1>3, AppendProperties
<1>5. ASSUME NEW n \in 1 .. Len(q) + 1 - k
      PROVE  a[n] = Append(b, m)[n]
  <2>1. CASE n = Len(q) + 1 - k
    <3>1. k + n = Len(q) + 1
      BY <1>1, <2>1
    <3>2. a[n] = m
      BY <1>0, <1>2, <3>1
    <3>3. n = Len(b) + 1
      BY <1>1, <1>3, <2>1
    <3> QED
      BY <1>4, <3>2, <3>3
  <2>2. CASE n # Len(q) + 1 - k
    <3>1. n \in 1 .. Len(q) - k /\ k + n \in 1 .. Len(q)
      BY <2>2, Len(q) \in Nat
    <3> QED
      BY <1>0, <1>2, <1>3, <1>4, <3>1
  <2> QED
    BY <2>1, <2>2
<1>6. Len(a) = Len(Append(b, m))
  BY <1>1, <1>2, <1>3, <1>4
<1>7. \A n \in 1 .. Len(a) : a[n] = Append(b, m)[n]
  BY <1>2, <1>5
<1>8. a = Append(b, m)
  BY <1>2, <1>4, <1>6, <1>7, SeqEqual
<1> QED
  BY <1>8 DEF a, b, r

(* Its head and tail.                                                      *)
LEMMA PartShrinks ==
  ASSUME NEW S, NEW q \in Seq(S), NEW k \in Nat, k < Len(q)
  PROVE  LET b == SubSeq(q, k + 1, Len(q))
         IN  b # <<>> /\ Head(b) = q[k + 1] /\ Tail(b) = SubSeq(q, k + 2, Len(q))
<1> DEFINE b == SubSeq(q, k + 1, Len(q))
           c == SubSeq(q, (k + 1) + 1, Len(q))
<1>1. Len(q) \in Nat /\ k + 1 \in Nat /\ k + 1 <= Len(q)
  OBVIOUS
<1>2. /\ b \in Seq(S) /\ Len(b) = Len(q) - k
      /\ \A n \in 1 .. Len(q) - k : b[n] = q[k + n]
  BY PartOf
<1>3. /\ c \in Seq(S) /\ Len(c) = Len(q) - (k + 1)
      /\ \A n \in 1 .. Len(q) - (k + 1) : c[n] = q[k + 1 + n]
  BY <1>1, PartOf
<1>4. c = SubSeq(q, k + 2, Len(q))
  BY <1>1
<1> HIDE DEF b, c
<1>5. b # <<>> /\ Head(b) = q[k + 1]
  BY <1>1, <1>2, HeadTailProperties, EmptySeq
<1>6. /\ Tail(b) \in Seq(S) /\ Len(Tail(b)) = Len(b) - 1
      /\ \A n \in 1 .. Len(b) - 1 : Tail(b)[n] = b[n + 1]
  BY <1>2, <1>5, HeadTailProperties
<1>7. ASSUME NEW n \in 1 .. Len(q) - (k + 1)
      PROVE  Tail(b)[n] = c[n]
  <2>1. /\ n \in 1 .. Len(b) - 1 /\ n + 1 \in 1 .. Len(q) - k
        /\ k + (n + 1) = k + 1 + n
    BY <1>1, <1>2
  <2> QED
    BY <1>2, <1>3, <1>6, <2>1
<1>8. Len(Tail(b)) = Len(c) /\ \A n \in 1 .. Len(Tail(b)) : Tail(b)[n] = c[n]
  <2>1. Len(Tail(b)) = Len(q) - (k + 1)
    BY <1>1, <1>2, <1>6
  <2> QED
    BY <1>3, <1>7, <2>1
<1>9. Tail(b) = c
  BY <1>3, <1>6, <1>8, SeqEqual
<1> QED
  BY <1>4, <1>5, <1>9 DEF b

(* Each step of Evdev is one of the queue, or none.                        *)
LEMMA FifoStep == IInv /\ [Next]_vars => [Fifo!Next]_Fifo!vars
<1> SUFFICES ASSUME IInv, [Next]_vars
             PROVE  [Fifo!Next]_Fifo!vars
  OBVIOUS
<1> DEFINE q == IF life = "freed" THEN <<>> ELSE Queue
<1>1. /\ args \in Seq(1 .. MaxEvents) /\ idx \in Nat /\ idx <= Len(args)
      /\ Len(args) \in Nat
  BY Lengths DEF IInv, TypeOK, Position
<1>2. CASE UNCHANGED qvars /\ (life' = "freed" <=> life = "freed")
  BY <1>2 DEF Fifo!vars, Queue, qvars
<1>3. CASE AddStore
  <2>1. /\ life # "freed" /\ life' = life
        /\ hand \in 1 .. MaxEvents /\ rlen = Len(args)
        /\ idx' = idx /\ log' = log /\ sent' = Append(sent, hand)
        /\ args' = Stored(args, Len(args), hand)
    BY <1>3 DEF AddStore, IInv, Holding, Teardown, Down, dvars
  <2>2. args' = Append(args, hand)
    BY <1>1, <2>1, StoredIsAppend
  <2>3. SubSeq(Append(args, hand), idx + 1, Len(Append(args, hand)))
          = Append(SubSeq(args, idx + 1, Len(args)), hand)
    BY <1>1, <2>1, PartGrows
  <2>4. Queue' = Append(Queue, hand)
    BY <2>1, <2>2, <2>3 DEF Queue
  <2>5. Fifo!Arrive(hand)
    BY <2>1, <2>4 DEF Fifo!Arrive
  <2> QED
    BY <2>1, <2>5 DEF Fifo!Next
<1>4. ASSUME NEW s \in Shreds, RecvNone(s)
      PROVE  UNCHANGED Fifo!vars
  <2>1. /\ idx = Len(args) /\ idx' = 0 /\ args' = <<>>
        /\ UNCHANGED <<life, sent, log>>
    BY <1>4 DEF RecvNone, dvars
  <2>2. Queue = <<>>
    BY <1>1, <2>1, PartOf, EmptySeq DEF Queue
  <2>3. Queue' = <<>>
    <3>1. <<>> \in Seq(1 .. MaxEvents) /\ Len(<<>>) = 0
      OBVIOUS
    <3>2. SubSeq(<<>>, 0 + 1, Len(<<>>)) = <<>>
      BY <3>1, PartOf, EmptySeq
    <3> QED
      BY <2>1, <3>2 DEF Queue
  <2> QED
    BY <2>1, <2>2, <2>3 DEF Fifo!vars
<1>5. ASSUME NEW s \in Shreds, RecvSome(s)
      PROVE  Fifo!Take
  <2>1. /\ idx < Len(args) /\ idx' = idx + 1 /\ args' = args
        /\ log' = Append(log, args[idx + 1]) /\ UNCHANGED <<life, sent>>
    BY <1>1, <1>5 DEF RecvSome, dvars
  <2>2. life # "freed"
    BY <1>5, EvdevAssumption DEF RecvSome, IInv, TypeOK, Teardown, Locking, Busy
  <2>3. /\ Queue # <<>> /\ Head(Queue) = args[idx + 1]
        /\ Tail(Queue) = SubSeq(args, idx + 2, Len(args))
    BY <1>1, <2>1, PartShrinks DEF Queue
  <2>4. Queue' = SubSeq(args, idx + 2, Len(args))
    <3>1. idx' + 1 = idx + 2
      BY <1>1, <2>1
    <3> QED
      BY <2>1, <3>1 DEF Queue
  <2> QED
    BY <2>1, <2>2, <2>3, <2>4 DEF Fifo!Take
<1>6. ASSUME NEW s \in Shreds, DtorFree(s)
      PROVE  Fifo!Close
  <2>1. life # "freed"
    BY <1>6, EvdevAssumption DEF DtorFree, IInv, TypeOK, Teardown, Locking, Busy
  <2> QED
    BY <1>6, <2>1 DEF DtorFree, Fifo!Close, qvars
<1> QED
  BY <1>2, <1>3, <1>4, <1>5, <1>6
     DEF Fifo!Next, Next, ReaderNext, ShredNext, RecvBody, Dtor, vars, qvars, dvars,
         Open, Poll, NextEvent, NextNothing, NextError, Cancelled, ReaderLock,
         AddRead, Broadcast, OpenFail, Wait, Recv, RecvLock, Release,
         DtorCancel, DtorJoin, DtorDestroy

(* Evdev implements EventFifo: whatever the reader thread and the shreds   *)
(* do to the array, what was queued is read once and in order, and nothing *)
(* after the object was freed.                                             *)
THEOREM EvdevIsFifo == Spec => FifoSpec
<1>1. Init => Fifo!Init
  <2>1. <<>> \in Seq({}) /\ Len(<<>>) = 0
    OBVIOUS
  <2>2. SubSeq(<<>>, 0 + 1, Len(<<>>)) = <<>>
    BY <2>1, PartOf, EmptySeq
  <2> QED
    BY <2>2 DEF Init, Fifo!Init, Queue
<1> QED
  BY <1>1, FifoStep, Inductive, PTL DEF Spec, FifoSpec, Fifo!Spec

-----------------------------------------------------------------------------
(* The object of PortMidi                                                  *)

(* A shred is inside a method of the object, or of the machine's shreduler *)
(* on its behalf.                                                          *)
PBusy == {"suspend", "park", "read", "body", "release", "cancel", "close"}

PTypeOK ==
  /\ pLife \in {"new", "open", "failed", "released", "closed"}
  /\ pRpc \in {"none", "poll", "lock", "add", "store", "bbq", "broadcast", "gone"}
  /\ pHand \in P!Items
  /\ pMutex \in Shreds \cup {NoOne, Reader}
  /\ pMsg \in Seq(P!Items)
  /\ pVm \in Shreds \cup {NoOne}
  /\ pSpc \in [Shreds -> PBusy \cup {"ready", "woken", "waiting", "gone"}]

(* Who is in which critical section. *)
PLocking ==
  /\ pMutex = Reader <=> pRpc \in {"add", "store"}
  /\ \A s \in Shreds : pMutex = s <=> pSpc[s] = "body"
  /\ \A s \in Shreds : pVm = s <=> pSpc[s] \in PBusy

(* What the thread read of the vector is still so when it stores, unless   *)
(* the vector was released meanwhile.                                      *)
PHolding == pRpc = "store" /\ pLife = "open" => pRlen = Len(pMsg)

(* A shred reads an open object; the destructor releases the vector first. *)
PTeardown ==
  /\ pLife # "open" => pMsg = <<>>
  /\ pLife = "new" => pVm = NoOne /\ pRpc = "none"
  /\ \A s \in Shreds :
       /\ pSpc[s] \in {"suspend", "park", "read", "body"} => pLife = "open"
       /\ pSpc[s] \in {"cancel", "close"} => pLife = "released"

PInv == PTypeOK /\ PLocking /\ PHolding /\ PTeardown

(* Storing at the position that was read appends. *)
LEMMA PStoredIsAppend ==
  ASSUME NEW S, NEW q \in Seq(S), NEW m \in S
  PROVE  P!Stored(q, Len(q), m) = Append(q, m)
<1>1. P!Stored(q, Len(q), m) = Stored(q, Len(q), m)
  BY DEF P!Stored, Stored
<1> QED
  BY <1>1, StoredIsAppend

(* The invariant holds at first, and every step keeps it.                  *)
LEMMA PInductive == (P!Init => PInv) /\ (PInv /\ [P!Next]_P!vars => PInv')
<1> USE EvdevAssumption
<1>1. ASSUME P!Init PROVE PInv
  <2>1. pHand \in P!Items /\ pMsg \in Seq(P!Items)
    BY <1>1 DEF P!Init, P!Items
  <2> QED
    BY <1>1, <2>1
       DEF P!Init, PInv, PTypeOK, PLocking, PHolding, PTeardown, PBusy
<1>2. SUFFICES ASSUME PInv, [P!Next]_P!vars PROVE PInv'
  BY <1>1
<1> USE DEF PInv, PTypeOK, PLocking, PHolding, PTeardown, PBusy,
            P!rvars, P!dvars, P!locks, P!qvars, P!svars
<1>3. CASE P!Open
  BY <1>2, <1>3 DEF P!Open
<1>4. CASE P!ReceiveAny
  <2>1. pHand' \in P!Items
    BY <1>2, <1>4 DEF P!ReceiveAny, P!Receive, P!Items
  <2> QED
    BY <1>2, <1>4, <2>1 DEF P!ReceiveAny, P!Receive
<1>5. CASE P!PollClosed \/ P!Cancelled \/ P!BbqLock \/ P!AddStoreReleased
  BY <1>2, <1>5 DEF P!PollClosed, P!Cancelled, P!BbqLock, P!AddStoreReleased
<1>6. CASE P!ReaderLock \/ P!AddRead
  BY <1>2, <1>6 DEF P!ReaderLock, P!AddRead
<1>7. CASE P!AddStore
  <2>1. pMsg' \in Seq(P!Items)
    BY <1>2, <1>7, PStoredIsAppend, AppendProperties, SMTT(30) DEF P!AddStore
  <2> QED
    BY <1>2, <1>7, <2>1 DEF P!AddStore
<1>8. CASE P!Broadcast
  BY <1>2, <1>8 DEF P!Broadcast, P!Woken
<1>9. ASSUME NEW s \in Shreds, P!OpenFail(s) PROVE PInv'
  BY <1>2, <1>9 DEF P!OpenFail
<1>10. ASSUME NEW s \in Shreds, P!Wait(s) \/ P!Read(s) PROVE PInv'
  BY <1>2, <1>10 DEF P!Wait, P!Read, P!Running
<1>11. ASSUME NEW s \in Shreds, P!Park(s) \/ P!Parked(s) \/ P!ReadLock(s) PROVE PInv'
  BY <1>2, <1>11 DEF P!Park, P!Parked, P!ReadLock
<1>12. ASSUME NEW s \in Shreds, P!ReadNone(s) PROVE PInv'
  BY <1>2, <1>12 DEF P!ReadNone, P!Return
<1>13. ASSUME NEW s \in Shreds, P!ReadSome(s) PROVE PInv'
  <2>1. pMsg' \in Seq(P!Items)
    BY <1>2, <1>13, HeadTailProperties DEF P!ReadSome
  <2> QED
    BY <1>2, <1>13, <2>1 DEF P!ReadSome, P!Return
<1>14. ASSUME NEW s \in Shreds, P!Release(s) PROVE PInv'
  BY <1>2, <1>14 DEF P!Release, P!Running
<1>15. ASSUME NEW s \in Shreds, P!DtorRelease(s) PROVE PInv'
  BY <1>2, <1>15 DEF P!DtorRelease
<1>16. ASSUME NEW s \in Shreds, P!DtorCancel(s) \/ P!DtorClose(s) PROVE PInv'
  BY <1>2, <1>16 DEF P!DtorCancel, P!DtorClose
<1>17. CASE UNCHANGED P!vars
  BY <1>2, <1>17 DEF P!vars
<1> QED
  BY <1>2, <1>3, <1>4, <1>5, <1>6, <1>7, <1>8, <1>9, <1>10, <1>11, <1>12, <1>13,
     <1>14, <1>15, <1>16, <1>17
     DEF P!Next, P!ReaderNext, P!ShredNext, P!ReadBody, P!Dtor

(* Each step of PortMidi is one of the queue, or none.                     *)
LEMMA PFifoStep == PInv /\ [P!Next]_P!vars => [P!Fifo!Next]_P!Fifo!vars
<1> SUFFICES ASSUME PInv, [P!Next]_P!vars
             PROVE  [P!Fifo!Next]_P!Fifo!vars
  OBVIOUS
<1> DEFINE Closed == {"failed", "released", "closed"}
<1>1. CASE UNCHANGED <<pSent, pMsg, pLog>> /\ (pLife' \in Closed <=> pLife \in Closed)
  BY <1>1 DEF P!Fifo!vars
<1>2. CASE P!AddStore
  <2>1. /\ pLife = "open" /\ pLife' = "open" /\ pLog' = pLog
        /\ pHand \in P!Items /\ pSent' = Append(pSent, pHand)
        /\ pMsg' = Append(pMsg, pHand)
    BY <1>2, PStoredIsAppend DEF P!AddStore, PInv, PTypeOK, PHolding, P!dvars
  <2>2. P!Fifo!Arrive(pHand)
    BY <2>1 DEF P!Fifo!Arrive
  <2> QED
    BY <2>1, <2>2 DEF P!Fifo!Next
<1>3. ASSUME NEW s \in Shreds, P!ReadSome(s)
      PROVE  P!Fifo!Take
  <2>1. pLife = "open" /\ pLife' = "open"
    BY <1>3 DEF P!ReadSome, PInv, PTeardown, P!dvars
  <2> QED
    BY <1>3, <2>1 DEF P!ReadSome, P!Fifo!Take
<1>4. ASSUME NEW s \in Shreds, P!OpenFail(s)
      PROVE  P!Fifo!Close
  BY <1>4 DEF P!OpenFail, P!Fifo!Close, PInv, PTeardown, P!qvars
<1>5. ASSUME NEW s \in Shreds, P!DtorRelease(s)
      PROVE  [P!Fifo!Next]_P!Fifo!vars
  <2>1. CASE pLife \in Closed
    BY <1>5, <2>1 DEF P!DtorRelease, P!Fifo!vars, PInv, PTeardown
  <2>2. CASE pLife \notin Closed
    BY <1>5, <2>2 DEF P!DtorRelease, P!Fifo!Next, P!Fifo!Close
  <2> QED
    BY <2>1, <2>2
<1>6. ASSUME NEW s \in Shreds, P!DtorClose(s)
      PROVE  UNCHANGED P!Fifo!vars
  BY <1>6 DEF P!DtorClose, P!Fifo!vars, PInv, PTeardown, P!qvars
<1> QED
  BY <1>1, <1>2, <1>3, <1>4, <1>5, <1>6
     DEF P!Fifo!Next, P!Next, P!ReaderNext, P!ShredNext, P!ReadBody, P!Dtor, P!vars,
         P!rvars, P!dvars, P!locks, P!qvars, P!svars, P!Open, P!ReceiveAny, P!Receive,
         P!PollClosed, P!Cancelled, P!ReaderLock, P!AddRead, P!AddStoreReleased,
         P!BbqLock, P!Broadcast, P!Wait, P!Park, P!Parked, P!Read, P!ReadLock,
         P!ReadNone, P!Release, P!DtorCancel

(* PortMidi implements EventFifo: what its thread stores in the vector of  *)
(* an open object is read once and in order, although the destructor       *)
(* releases the vector without the mutex and does not wait for the thread. *)
THEOREM PortMidiIsFifo == P!Spec => P!FifoSpec
<1>1. P!Init => P!Fifo!Init
  BY DEF P!Init, P!Fifo!Init
<1> QED
  BY <1>1, PInductive, PFifoStep, PTL DEF P!Spec, P!FifoSpec, P!Fifo!Spec

-----------------------------------------------------------------------------
(* The object of RtMidi                                                    *)

(* A shred is inside a method of the object. *)
RBusy == {"read", "body", "dtor", "drop", "delete"}

RTypeOK ==
  /\ rLife \in {"new", "open", "failed", "freed"}
  /\ rCb \in {"idle", "loop", "lock", "add", "locklast", "addlast", "broadcast"}
  /\ rSize \in Nat /\ rI \in Nat /\ rJ \in Nat
  /\ rBytes \in 0 .. MaxBytes
  /\ rBuf \in R!Groups
  /\ rMsgs \in Seq(R!Groups) /\ rSent \in Seq(R!Groups)
  /\ rLog \in Seq(R!Groups) /\ rFrames \in Seq(R!Groups)
  /\ rMutex \in Shreds \cup {NoOne, Callback}
  /\ rVm \in Shreds \cup {NoOne}
  /\ rSpc \in [Shreds -> RBusy \cup {"ready", "woken", "waiting", "gone"}]

(* Who is in which critical section. *)
RLocking ==
  /\ rMutex = Callback <=> rCb \in {"add", "addlast"}
  /\ \A s \in Shreds : rMutex = s <=> rSpc[s] \in {"body", "drop", "delete"}
  /\ \A s \in Shreds : rVm = s <=> rSpc[s] \in RBusy

(* A shred reads an open object; the callback only runs of an object that  *)
(* is, or of one a destructor is waiting to delete.                        *)
RTeardown ==
  /\ rLife = "new" => rVm = NoOne /\ rCb = "idle"
  /\ rLife = "failed" => rCb = "idle"
  /\ rLife = "freed" => /\ rCb \notin {"add", "addlast"}
                        /\ rCb = "idle" \/ \E s \in Shreds : rSpc[s] = "delete"
  /\ \A s \in Shreds :
       /\ rSpc[s] \in {"read", "body"} => rLife = "open"
       /\ rSpc[s] \in {"dtor", "drop"} => rLife \in {"open", "failed"}
       /\ rSpc[s] = "delete" => rLife \in {"failed", "freed"}

(* Until the groups are dropped, what was read and what is queued is what  *)
(* the callback queued.                                                    *)
ROnce ==
  /\ rLife # "open" => rMsgs = <<>>
  /\ rLife \in {"new", "open"} => rLog \o rMsgs = rSent

(* The group after k of a message that came after b bytes, of the next m. *)
Group(b, k, m) == [p \in 1 .. 3 |-> IF p <= m THEN b + 3 * k + p ELSE 0]

(* The bytes and the groups before this message, and the groups of it that *)
(* were queued.                                                            *)
Base == rBytes - rSize
Earlier == Len(rFrames) - (rSize + 2) \div 3
Cut == Len(rSent) - Earlier

(* The message being cut: the groups still to come are those the message   *)
(* amounts to, and the buffer has the bytes of the next that were copied.  *)
Cutting ==
  /\ rSize \in 1 .. rBytes /\ Earlier \in Nat /\ Cut \in Nat
  /\ \A g \in 0 .. (rSize + 2) \div 3 - 1 :
       rFrames[Earlier + g + 1] = Group(Base, g, rSize - 3 * g)
  /\ rI = 3 * Cut + rJ /\ rI <= rSize
  /\ rBuf = Group(Base, Cut, rJ)
  /\ rCb = "loop" => rJ \in 0 .. 2
  /\ rCb \in {"lock", "add"} => rJ = 3
  /\ rCb \in {"locklast", "addlast"} => rJ \in 1 .. 2 /\ rI = rSize

RFraming ==
  /\ Len(rSent) <= Len(rFrames)
  /\ \A n \in 1 .. Len(rSent) : rSent[n] = rFrames[n]
  /\ IF rCb \in {"idle", "broadcast"} THEN Len(rSent) = Len(rFrames) ELSE Cutting

RInv == RTypeOK /\ RLocking /\ RTeardown /\ ROnce /\ RFraming

(* A message amounts to as many groups as it takes, and group g + 1 has    *)
(* the three bytes from 3 * g on, or those that are left.                  *)
LEMMA FramesOf ==
  ASSUME NEW b \in Nat, NEW n \in Nat \ {0}, MaxBytes \in Nat, b + n <= MaxBytes
  PROVE  /\ R!Frames(b + 1, n) \in Seq(R!Groups)
         /\ Len(R!Frames(b + 1, n)) = (n + 2) \div 3
         /\ \A g \in 0 .. (n + 2) \div 3 - 1 :
              R!Frames(b + 1, n)[g + 1] = Group(b, g, n - 3 * g)
<1> DEFINE N == (n + 2) \div 3
           f == R!Frames(b + 1, n)
<1>1. N \in Nat
  OBVIOUS
<1>2. ASSUME NEW k \in 1 .. N
      PROVE  f[k] = Group(b, k - 1, n - 3 * (k - 1)) /\ f[k] \in R!Groups
  <2>1. f[k] = [p \in 1 .. 3 |->
                  IF 3 * (k - 1) + p <= n THEN (b + 1) + 3 * (k - 1) + p - 1 ELSE 0]
    BY <1>2 DEF R!Frames
  <2>2. ASSUME NEW p \in 1 .. 3
        PROVE  /\ 3 * (k - 1) + p <= n <=> p <= n - 3 * (k - 1)
               /\ (b + 1) + 3 * (k - 1) + p - 1 = b + 3 * (k - 1) + p
               /\ p <= n - 3 * (k - 1) => b + 3 * (k - 1) + p \in 0 .. MaxBytes
    BY <1>1
  <2> QED
    BY <2>1, <2>2 DEF R!Groups, Group
<1>3. f = [k \in 1 .. N |-> f[k]]
  BY DEF R!Frames
<1> HIDE DEF N, f
<1>4. f \in [1 .. N -> R!Groups]
  BY <1>2, <1>3
<1>5. f \in Seq(R!Groups) /\ Len(f) = N
  BY <1>1, <1>4
<1>6. ASSUME NEW g \in 0 .. N - 1
      PROVE  f[g + 1] = Group(b, g, n - 3 * g)
  <2>1. g + 1 \in 1 .. N /\ (g + 1) - 1 = g
    BY <1>1
  <2> QED
    BY <1>2, <2>1
<1> QED
  BY <1>5, <1>6 DEF N, f

(* Of a group only three bytes are asked.                                  *)
LEMMA GroupFull ==
  ASSUME NEW b, NEW k, NEW m \in Int, m >= 3
  PROVE  Group(b, k, m) = Group(b, k, 3)
<1>1. ASSUME NEW p \in 1 .. 3
      PROVE  p <= m /\ p <= 3
  OBVIOUS
<1> QED
  BY <1>1 DEF Group

(* The constants are what RtMidi assumes of them.                          *)
LEMMA RAssumption ==
  /\ NoOne \notin Shreds /\ Callback \notin Shreds /\ NoOne # Callback
  /\ Sizes \subseteq Nat \ {0} /\ MaxBytes \in Nat
BY InputsAssumption DEF R!RtMidiAssumption

(* The invariant holds at first.                                           *)
LEMMA RInitInv == R!Init => RInv
<1> SUFFICES ASSUME R!Init
             PROVE  RInv
  OBVIOUS
<1> USE RAssumption DEF R!Init
<1>1. RTypeOK
  <2>1. rBuf \in R!Groups
    <3>1. rBuf = [p \in 1 .. 3 |-> 0]
      BY DEF R!Zeros
    <3> QED
      BY <3>1 DEF R!Groups
  <2>2. rSpc \in [Shreds -> RBusy \cup {"ready", "woken", "waiting", "gone"}]
    OBVIOUS
  <2>3. rBytes \in 0 .. MaxBytes /\ rSize \in Nat /\ rI \in Nat /\ rJ \in Nat
    OBVIOUS
  <2> QED
    BY <2>1, <2>2, <2>3 DEF RTypeOK
<1>2. RLocking /\ RTeardown
  BY DEF RLocking, RTeardown, RBusy
<1>3. ROnce
  BY DEF ROnce
<1>4. RFraming
  BY DEF RFraming
<1> QED
  BY <1>1, <1>2, <1>3, <1>4 DEF RInv

(* Who holds the mutex and the machine, and what life the object is in,    *)
(* action by action.                                                       *)
LEMMA RControlStep == RInv /\ [R!Next]_R!vars => RLocking' /\ RTeardown'
<1> SUFFICES ASSUME RInv, [R!Next]_R!vars
             PROVE  RLocking' /\ RTeardown'
  OBVIOUS
<1> USE RAssumption
    DEF RInv, RTypeOK, RLocking, RTeardown, RBusy,
        R!cvars, R!dvars, R!qvars, R!svars
<1>1. CASE R!Open
  BY <1>1 DEF R!Open
<1>2. ASSUME NEW n \in Sizes, R!Message(n) PROVE RLocking' /\ RTeardown'
  BY <1>2 DEF R!Message
<1>3. CASE R!CopyByte \/ R!LoopEnd
  BY <1>3 DEF R!CopyByte, R!LoopEnd
<1>4. CASE R!AddLock
  BY <1>4 DEF R!AddLock
<1>5. CASE R!Add \/ R!AddLast
  BY <1>5 DEF R!Add, R!AddLast
<1>6. CASE R!Broadcast
  BY <1>6 DEF R!Broadcast, R!Woken
<1>7. ASSUME NEW s \in Shreds, R!OpenFail(s) PROVE RLocking' /\ RTeardown'
  BY <1>7 DEF R!OpenFail
<1>8. ASSUME NEW s \in Shreds, R!Wait(s) \/ R!Read(s) \/ R!Connect(s)
      PROVE  RLocking' /\ RTeardown'
  BY <1>8 DEF R!Wait, R!Read, R!Connect, R!Running
<1>9. ASSUME NEW s \in Shreds, R!ReadLock(s) PROVE RLocking' /\ RTeardown'
  BY <1>9 DEF R!ReadLock
<1>10. ASSUME NEW s \in Shreds, R!ReadNone(s) \/ R!ReadSome(s)
       PROVE  RLocking' /\ RTeardown'
  BY <1>10, ZenonT(30) DEF R!ReadNone, R!ReadSome, R!Return
<1>11. ASSUME NEW s \in Shreds, R!Release(s) PROVE RLocking' /\ RTeardown'
  BY <1>11 DEF R!Release, R!Running
<1>12. ASSUME NEW s \in Shreds, R!DtorLock(s) PROVE RLocking' /\ RTeardown'
  BY <1>12 DEF R!DtorLock
<1>13. ASSUME NEW s \in Shreds, R!DtorDrop(s) PROVE RLocking' /\ RTeardown'
  BY <1>13 DEF R!DtorDrop
<1>14. ASSUME NEW s \in Shreds, R!DtorDelete(s) PROVE RLocking' /\ RTeardown'
  BY <1>14 DEF R!DtorDelete
<1>15. CASE UNCHANGED R!vars
  BY <1>15 DEF R!vars
<1> QED
  BY <1>1, <1>2, <1>3, <1>4, <1>5, <1>6, <1>7, <1>8, <1>9, <1>10, <1>11, <1>12,
     <1>13, <1>14, <1>15
     DEF R!Next, R!CallbackNext, R!ShredNext, R!ReadBody, R!Dtor

(* An element moves from one sequence to the one before it.                *)
LEMMA MoveHead ==
  ASSUME NEW S, NEW a \in Seq(S), NEW b \in Seq(S), b # <<>>
  PROVE  Append(a, Head(b)) \o Tail(b) = a \o b
<1> DEFINE h == Head(b)
           t == Tail(b)
           x == Append(a, h)
<1>0. Len(a) \in Nat /\ Len(b) \in Nat
  OBVIOUS
<1>1. /\ h \in S /\ t \in Seq(S) /\ Len(t) = Len(b) - 1 /\ h = b[1]
      /\ \A n \in 1 .. Len(b) - 1 : t[n] = b[n + 1]
      /\ Len(b) \in Nat \ {0} /\ Len(a) \in Nat
  BY HeadTailProperties, EmptySeq
<1> HIDE DEF h, t
<1>2. /\ x \in Seq(S) /\ Len(x) = Len(a) + 1 /\ x[Len(a) + 1] = h
      /\ \A n \in 1 .. Len(a) : x[n] = a[n]
  BY <1>1, AppendProperties
<1> HIDE DEF x
<1>3. /\ x \o t \in Seq(S) /\ Len(x \o t) = Len(x) + Len(t)
      /\ \A n \in 1 .. Len(x) + Len(t) :
           (x \o t)[n] = IF n <= Len(x) THEN x[n] ELSE t[n - Len(x)]
  BY <1>1, <1>2, ConcatProperties
<1>4. /\ a \o b \in Seq(S) /\ Len(a \o b) = Len(a) + Len(b)
      /\ \A n \in 1 .. Len(a) + Len(b) :
           (a \o b)[n] = IF n <= Len(a) THEN a[n] ELSE b[n - Len(a)]
  BY ConcatProperties
<1>5. ASSUME NEW n \in 1 .. Len(a) + Len(b)
      PROVE  (x \o t)[n] = (a \o b)[n]
  <2>1. CASE n <= Len(a)
    BY <1>1, <1>2, <1>3, <1>4, <2>1
  <2>2. CASE n = Len(a) + 1
    BY <1>1, <1>2, <1>3, <1>4, <2>2
  <2>3. CASE n > Len(a) + 1
    <3>1. /\ n - Len(x) \in 1 .. Len(b) - 1 /\ (n - Len(x)) + 1 = n - Len(a)
          /\ ~(n <= Len(x)) /\ ~(n <= Len(a)) /\ n \in 1 .. Len(x) + Len(t)
      BY <1>1, <1>2, <2>3
    <3> QED
      BY <1>1, <1>3, <1>4, <3>1
  <2>4. n <= Len(a) \/ n = Len(a) + 1 \/ n > Len(a) + 1
    BY <1>0
  <2> QED
    BY <2>1, <2>2, <2>3, <2>4
<1>6. Len(x \o t) = Len(a \o b)
  BY <1>1, <1>2, <1>3, <1>4
<1>7. x \o t = a \o b
  BY <1>3, <1>4, <1>5, <1>6, SeqEqual
<1> QED
  BY <1>7 DEF x, h, t

(* An element is appended to the second of two sequences.                  *)
LEMMA AppendSecond ==
  ASSUME NEW S, NEW a \in Seq(S), NEW b \in Seq(S), NEW m \in S
  PROVE  a \o Append(b, m) = Append(a \o b, m)
<1> DEFINE c == Append(b, m)
           d == a \o b
<1>0. Len(a) \in Nat /\ Len(b) \in Nat
  OBVIOUS
<1>1. /\ c \in Seq(S) /\ Len(c) = Len(b) + 1 /\ c[Len(b) + 1] = m
      /\ \A n \in 1 .. Len(b) : c[n] = b[n]
      /\ Len(b) \in Nat /\ Len(a) \in Nat
  BY AppendProperties
<1> HIDE DEF c
<1>2. /\ d \in Seq(S) /\ Len(d) = Len(a) + Len(b)
      /\ \A n \in 1 .. Len(a) + Len(b) : d[n] = IF n <= Len(a) THEN a[n] ELSE b[n - Len(a)]
  BY ConcatProperties
<1> HIDE DEF d
<1>3. /\ a \o c \in Seq(S) /\ Len(a \o c) = Len(a) + Len(c)
      /\ \A n \in 1 .. Len(a) + Len(c) :
           (a \o c)[n] = IF n <= Len(a) THEN a[n] ELSE c[n - Len(a)]
  BY <1>1, ConcatProperties
<1>4. /\ Append(d, m) \in Seq(S) /\ Len(Append(d, m)) = Len(d) + 1
      /\ Append(d, m)[Len(d) + 1] = m
      /\ \A n \in 1 .. Len(d) : Append(d, m)[n] = d[n]
  <2>1. d \in Seq(S)
    BY <1>2
  <2> QED
    BY <2>1, AppendProperties
<1>5. ASSUME NEW n \in 1 .. Len(a) + Len(c)
      PROVE  (a \o c)[n] = Append(d, m)[n]
  <2>0. n \in Nat
    OBVIOUS
  <2>1. CASE n <= Len(a)
    <3>1. n \in 1 .. Len(a) + Len(b) /\ n \in 1 .. Len(d)
      BY <1>1, <1>2, <2>1
    <3> QED
      BY <1>2, <1>3, <1>4, <2>1, <3>1
  <2>2. CASE n = Len(a) + Len(b) + 1
    <3>1. n - Len(a) = Len(b) + 1 /\ ~(n <= Len(a)) /\ n = Len(d) + 1
      BY <1>1, <1>2, <2>2
    <3> QED
      BY <1>1, <1>3, <1>4, <3>1
  <2>3. CASE n > Len(a) /\ n # Len(a) + Len(b) + 1
    <3>1. /\ n - Len(a) \in 1 .. Len(b) /\ ~(n <= Len(a))
          /\ n \in 1 .. Len(a) + Len(b) /\ n \in 1 .. Len(d)
      BY <1>1, <1>2, <2>3
    <3> QED
      BY <1>1, <1>2, <1>3, <1>4, <3>1
  <2>4. \/ n <= Len(a) \/ n = Len(a) + Len(b) + 1
        \/ n > Len(a) /\ n # Len(a) + Len(b) + 1
    BY <1>0, <2>0
  <2> QED
    BY <2>1, <2>2, <2>3, <2>4
<1>6. Len(a \o c) = Len(Append(d, m))
  BY <1>1, <1>2, <1>3, <1>4
<1>7. a \o c = Append(d, m)
  BY <1>3, <1>4, <1>5, <1>6, SeqEqual
<1> QED
  BY <1>7 DEF c, d

(* The queue's part of the invariant.                                      *)
LEMMA ROnceStep == RInv /\ [R!Next]_R!vars => ROnce'
<1> SUFFICES ASSUME RInv, [R!Next]_R!vars
             PROVE  ROnce'
  OBVIOUS
<1>1. CASE UNCHANGED <<R!qvars, rLife>>
  BY <1>1 DEF RInv, ROnce, R!qvars
<1>2. CASE R!Open
  BY <1>2 DEF R!Open, RInv, ROnce, R!qvars
<1>3. ASSUME NEW s \in Shreds, R!OpenFail(s) PROVE ROnce'
  <2>1. rMsgs = <<>>
    BY <1>3 DEF R!OpenFail, RInv, ROnce
  <2> QED
    BY <1>3, <2>1 DEF R!OpenFail, ROnce, R!qvars
<1>4. CASE R!Add \/ R!AddLast
  <2>1. /\ rLife = "open" /\ rLife' = rLife /\ rLog' = rLog
        /\ rMsgs' = Append(rMsgs, rBuf) /\ rSent' = Append(rSent, rBuf)
    BY <1>4 DEF R!Add, R!AddLast, R!dvars, RInv, RTeardown, RTypeOK
  <2>2. rLog \o Append(rMsgs, rBuf) = Append(rLog \o rMsgs, rBuf)
    BY AppendSecond DEF RInv, RTypeOK
  <2> QED
    BY <2>1, <2>2 DEF RInv, ROnce
<1>5. ASSUME NEW s \in Shreds, R!ReadSome(s) PROVE ROnce'
  <2>1. /\ rLife = "open" /\ rLife' = rLife /\ rSent' = rSent /\ rMsgs # <<>>
        /\ rMsgs' = Tail(rMsgs) /\ rLog' = Append(rLog, Head(rMsgs))
    BY <1>5 DEF R!ReadSome, R!dvars, RInv, RTeardown
  <2>2. Append(rLog, Head(rMsgs)) \o Tail(rMsgs) = rLog \o rMsgs
    BY <2>1, MoveHead DEF RInv, RTypeOK
  <2> QED
    BY <2>1, <2>2 DEF RInv, ROnce
<1>6. ASSUME NEW s \in Shreds, R!DtorDrop(s) PROVE ROnce'
  BY <1>6 DEF R!DtorDrop, RInv, ROnce, RTeardown
<1> QED
  BY <1>1, <1>2, <1>3, <1>4, <1>5, <1>6
     DEF R!Next, R!CallbackNext, R!ShredNext, R!ReadBody, R!Dtor, R!vars,
         R!cvars, R!dvars, R!qvars, R!svars, R!Message, R!CopyByte, R!LoopEnd,
         R!AddLock, R!Broadcast, R!Wait, R!Read, R!ReadLock, R!ReadNone, R!Connect,
         R!Release, R!DtorLock, R!DtorDelete

(* While a message is cut, the bytes that are left of it tell how many     *)
(* groups are left.                                                        *)
LEMMA GroupsLeft ==
  ASSUME NEW n \in Nat \ {0}, NEW k \in Nat, NEW j \in 0 .. 3, 3 * k + j <= n
  PROVE  /\ j > 0 => k < (n + 2) \div 3
         /\ k <= (n + 2) \div 3
         /\ j \in 1 .. 2 /\ 3 * k + j = n => (n + 2) \div 3 = k + 1
         /\ j \in 0 .. 2 /\ 3 * k + j = n => (n % 3 = 0 <=> j = 0)
         /\ j = 0 /\ 3 * k + j = n => (n + 2) \div 3 = k
OBVIOUS

(* The types of the callback's state and of the queue.                     *)
LEMMA RTypeStep == RInv /\ [R!Next]_R!vars => RTypeOK'
<1> SUFFICES ASSUME RInv, [R!Next]_R!vars
             PROVE  RTypeOK'
  OBVIOUS
<1> USE RAssumption
    DEF RInv, RTypeOK, RBusy, R!cvars, R!dvars, R!qvars, R!svars
<1>1. CASE R!Open
  BY <1>1 DEF R!Open
<1>2. ASSUME NEW n \in Sizes, R!Message(n) PROVE RTypeOK'
  <2>1. /\ n \in Nat \ {0} /\ rBytes \in Nat /\ rBytes + n <= MaxBytes
        /\ rFrames' = rFrames \o R!Frames(rBytes + 1, n) /\ rBuf' = R!Zeros
        /\ rSize' = n /\ rI' = 0 /\ rJ' = 0 /\ rBytes' = rBytes + n /\ rCb' = "loop"
    BY <1>2 DEF R!Message
  <2>2. rFrames' \in Seq(R!Groups)
    <3>1. R!Frames(rBytes + 1, n) \in Seq(R!Groups)
      BY <2>1, FramesOf
    <3> QED
      BY <2>1, <3>1, ConcatProperties
  <2>3. rBuf' \in R!Groups
    <3>1. rBuf' = [p \in 1 .. 3 |-> 0]
      BY <2>1 DEF R!Zeros
    <3> QED
      BY <3>1 DEF R!Groups
  <2> QED
    BY <1>2, <2>1, <2>2, <2>3 DEF R!Message
<1>3. CASE R!CopyByte
  <2>1. /\ rSize \in 1 .. rBytes /\ rI \in 0 .. rSize - 1 /\ rJ \in 0 .. 2
    BY <1>3 DEF R!CopyByte, RFraming, Cutting
  <2>2. rBytes - rSize + rI + 1 \in 0 .. MaxBytes /\ rJ + 1 \in 1 .. 3
    BY <2>1
  <2>3. rBuf' \in R!Groups
    BY <1>3, <2>2 DEF R!CopyByte, R!Groups
  <2> QED
    BY <1>3, <2>1, <2>3 DEF R!CopyByte
<1>4. CASE R!LoopEnd \/ R!AddLock
  BY <1>4 DEF R!LoopEnd, R!AddLock
<1>5. CASE R!Add \/ R!AddLast
  <2>1. rMsgs' \in Seq(R!Groups) /\ rSent' \in Seq(R!Groups)
    <3>1. rMsgs' = Append(rMsgs, rBuf) /\ rSent' = Append(rSent, rBuf)
      BY <1>5 DEF R!Add, R!AddLast
    <3>2. Append(rMsgs, rBuf) \in Seq(R!Groups)
      BY AppendProperties
    <3>3. Append(rSent, rBuf) \in Seq(R!Groups)
      BY AppendProperties
    <3> QED
      BY <3>1, <3>2, <3>3
  <2>2. rBuf' \in R!Groups /\ rJ' \in Nat
    <3>1. R!Zeros = [p \in 1 .. 3 |-> 0]
      BY DEF R!Zeros
    <3>2. R!Zeros \in R!Groups
      BY <3>1 DEF R!Groups
    <3> QED
      BY <1>5, <3>2 DEF R!Add, R!AddLast
  <2> QED
    BY <1>5, <2>1, <2>2 DEF R!Add, R!AddLast
<1>6. CASE R!Broadcast
  BY <1>6 DEF R!Broadcast, R!Woken
<1>7. ASSUME NEW s \in Shreds, R!OpenFail(s) PROVE RTypeOK'
  BY <1>7 DEF R!OpenFail
<1>8. ASSUME NEW s \in Shreds,
             R!Wait(s) \/ R!Read(s) \/ R!Connect(s) \/ R!ReadLock(s) \/ R!Release(s)
      PROVE  RTypeOK'
  BY <1>8 DEF R!Wait, R!Read, R!Connect, R!ReadLock, R!Release
<1>9. ASSUME NEW s \in Shreds, R!ReadNone(s) PROVE RTypeOK'
  BY <1>9 DEF R!ReadNone, R!Return
<1>10. ASSUME NEW s \in Shreds, R!ReadSome(s) PROVE RTypeOK'
  <2>1. rMsgs' \in Seq(R!Groups) /\ rLog' \in Seq(R!Groups)
    <3>1. /\ rMsgs # <<>> /\ rMsgs' = Tail(rMsgs) /\ rLog' = Append(rLog, Head(rMsgs))
      BY <1>10 DEF R!ReadSome
    <3>2. Head(rMsgs) \in R!Groups /\ Tail(rMsgs) \in Seq(R!Groups)
      BY <3>1, HeadTailProperties
    <3> QED
      BY <3>1, <3>2, AppendProperties
  <2> QED
    BY <1>10, <2>1 DEF R!ReadSome, R!Return
<1>11. ASSUME NEW s \in Shreds, R!Dtor(s) PROVE RTypeOK'
  <2>1. CASE R!DtorLock(s) \/ R!DtorDelete(s)
    BY <2>1 DEF R!DtorLock, R!DtorDelete
  <2>2. CASE R!DtorDrop(s)
    <3>1. <<>> \in Seq(R!Groups)
      OBVIOUS
    <3> QED
      BY <2>2, <3>1 DEF R!DtorDrop
  <2> QED
    BY <1>11, <2>1, <2>2 DEF R!Dtor
<1>12. CASE UNCHANGED R!vars
  BY <1>12 DEF R!vars
<1> QED
  BY <1>1, <1>2, <1>3, <1>4, <1>5, <1>6, <1>7, <1>8, <1>9, <1>10, <1>11, <1>12
     DEF R!Next, R!CallbackNext, R!ShredNext, R!ReadBody

(* What an arriving message adds to come.                                  *)
LEMMA MessageFraming ==
  ASSUME RInv, NEW n \in Sizes, R!Message(n)
  PROVE  RFraming'
<1> USE RAssumption
<1> DEFINE N == (n + 2) \div 3
           f == R!Frames(rBytes + 1, n)
<1>1. /\ n \in Nat \ {0} /\ N \in Nat /\ rBytes \in Nat /\ rBytes + n <= MaxBytes
      /\ rFrames' = rFrames \o f /\ rBuf' = R!Zeros /\ rSent' = rSent
      /\ rSize' = n /\ rI' = 0 /\ rJ' = 0 /\ rBytes' = rBytes + n /\ rCb' = "loop"
      /\ Len(rSent) = Len(rFrames)
      /\ \A k \in 1 .. Len(rSent) : rSent[k] = rFrames[k]
  BY DEF R!Message, RInv, RTypeOK, RFraming, R!qvars
<1>2. /\ f \in Seq(R!Groups) /\ Len(f) = N
      /\ \A g \in 0 .. N - 1 : f[g + 1] = Group(rBytes, g, n - 3 * g)
  BY <1>1, FramesOf
<1> HIDE DEF N, f
<1>3. /\ Len(rFrames) \in Nat /\ Len(rFrames') = Len(rFrames) + N
      /\ \A k \in 1 .. Len(rFrames) + N :
           rFrames'[k] = IF k <= Len(rFrames) THEN rFrames[k] ELSE f[k - Len(rFrames)]
  <2>1. rFrames \in Seq(R!Groups) /\ f \in Seq(R!Groups) /\ Len(f) = N
    BY <1>2 DEF RInv, RTypeOK
  <2>2. /\ Len(rFrames \o f) = Len(rFrames) + Len(f)
        /\ \A k \in 1 .. Len(rFrames) + Len(f) :
             (rFrames \o f)[k] =
               IF k <= Len(rFrames) THEN rFrames[k] ELSE f[k - Len(rFrames)]
    BY <2>1, ConcatProperties
  <2>3. rFrames' = rFrames \o f /\ Len(rFrames) \in Nat
    BY <1>1, <2>1
  <2> QED
    BY <2>1, <2>2, <2>3
<1>4. /\ Len(rSent') <= Len(rFrames')
      /\ \A k \in 1 .. Len(rSent') : rSent'[k] = rFrames'[k]
  BY <1>1, <1>3
<1>5. Earlier' = Len(rFrames) /\ Cut' = 0 /\ Base' = rBytes
  <2>1. (rSize' + 2) \div 3 = N
    BY <1>1 DEF N
  <2>2. Earlier' = Len(rFrames)
    <3>1. Earlier' = Len(rFrames') - N
      BY <2>1 DEF Earlier
    <3>2. Len(rFrames') = Len(rFrames) + N
      BY <1>3
    <3>3. Len(rFrames) \in Nat /\ N \in Nat
      BY <1>1, <1>3
    <3> QED
      BY <3>1, <3>2, <3>3
  <2> QED
    BY <1>1, <1>3, <2>2 DEF Cut, Base
<1>7. ASSUME NEW g \in 0 .. N - 1
      PROVE  rFrames'[Earlier' + g + 1] = Group(Base', g, rSize' - 3 * g)
  <2>1. /\ Earlier' + g + 1 \in 1 .. Len(rFrames) + N
        /\ ~(Earlier' + g + 1 <= Len(rFrames))
        /\ (Earlier' + g + 1) - Len(rFrames) = g + 1
    BY <1>1, <1>3, <1>5
  <2>2. rFrames'[Earlier' + g + 1] = f[g + 1]
    BY <1>3, <2>1
  <2> QED
    BY <1>1, <1>2, <1>5, <2>2
<1>8. rBuf' = Group(Base', Cut', rJ')
  <2>1. R!Zeros = [p \in 1 .. 3 |-> 0]
    BY DEF R!Zeros
  <2>2. \A p \in 1 .. 3 : ~(p <= 0)
    OBVIOUS
  <2> QED
    BY <1>1, <2>1, <2>2 DEF Group
<1>9. Cutting'
  <2>1. /\ rSize' \in 1 .. rBytes' /\ Earlier' \in Nat /\ Cut' \in Nat
        /\ rI' = 3 * Cut' + rJ' /\ rI' <= rSize' /\ rJ' \in 0 .. 2
    BY <1>1, <1>3, <1>5
  <2>2. \A g \in 0 .. (rSize' + 2) \div 3 - 1 :
          rFrames'[Earlier' + g + 1] = Group(Base', g, rSize' - 3 * g)
    BY <1>1, <1>7 DEF N
  <2> QED
    BY <1>1, <1>8, <2>1, <2>2 DEF Cutting
<1> QED
  BY <1>1, <1>4, <1>9 DEF RFraming

(* Another byte goes where it belongs.                                     *)
LEMMA CopyFraming ==
  ASSUME RInv, R!CopyByte
  PROVE  RFraming'
<1>1. /\ rCb = "loop" /\ rI < rSize /\ rI' = rI + 1 /\ rJ' = rJ + 1
      /\ rBuf' = [rBuf EXCEPT ![rJ + 1] = rBytes - rSize + rI + 1]
      /\ rCb' = IF rJ + 1 = 3 THEN "lock" ELSE "loop"
      /\ UNCHANGED <<rSize, rBytes, rFrames, rSent>>
      /\ Cutting /\ rJ \in 0 .. 2
  BY DEF R!CopyByte, R!qvars, RInv, RFraming, Cutting
<1>2. Base' = Base /\ Earlier' = Earlier /\ Cut' = Cut
  BY <1>1 DEF Base, Earlier, Cut
<1>3. /\ Cut \in Nat /\ rI = 3 * Cut + rJ /\ rBuf = Group(Base, Cut, rJ)
      /\ rSize \in Nat /\ rBytes \in Nat /\ rI \in Nat
  BY <1>1 DEF Cutting, RInv, RTypeOK
<1>4. rBuf' = Group(Base, Cut, rJ + 1)
  <2>1. rBytes - rSize + rI + 1 = Base + 3 * Cut + (rJ + 1)
    BY <1>1, <1>3 DEF Base
  <2>2. ASSUME NEW p \in 1 .. 3
        PROVE  rBuf'[p] = Group(Base, Cut, rJ + 1)[p]
    <3>1. CASE p = rJ + 1
      BY <1>1, <1>3, <2>1, <3>1 DEF Group
    <3>2. CASE p # rJ + 1
      <4>1. p <= rJ <=> p <= rJ + 1
        BY <1>1, <3>2
      <4>2. rBuf'[p] = rBuf[p]
        BY <1>1, <1>3, <3>2 DEF Group
      <4>3. rBuf[p] = Group(Base, Cut, rJ + 1)[p]
        BY <1>3, <4>1 DEF Group
      <4> QED
        BY <4>2, <4>3
    <3> QED
      BY <3>1, <3>2
  <2>3. /\ rBuf' = [p \in 1 .. 3 |-> rBuf'[p]]
        /\ Group(Base, Cut, rJ + 1) = [p \in 1 .. 3 |-> Group(Base, Cut, rJ + 1)[p]]
    BY <1>1, <1>3 DEF Group
  <2> QED
    BY <2>2, <2>3
<1>5. rI' = 3 * Cut' + rJ' /\ rI' <= rSize'
  BY <1>1, <1>2, <1>3
<1>6. Cutting'
  <2>1. /\ rSize' \in 1 .. rBytes' /\ Earlier' \in Nat /\ Cut' \in Nat
        /\ \A g \in 0 .. (rSize' + 2) \div 3 - 1 :
             rFrames'[Earlier' + g + 1] = Group(Base', g, rSize' - 3 * g)
    BY <1>1, <1>2 DEF Cutting
  <2>2. rBuf' = Group(Base', Cut', rJ')
    BY <1>1, <1>2, <1>4
  <2>3. /\ rCb' = "loop" => rJ' \in 0 .. 2
        /\ rCb' \in {"lock", "add"} => rJ' = 3
        /\ rCb' \notin {"locklast", "addlast"}
    BY <1>1
  <2> QED
    BY <1>5, <2>1, <2>2, <2>3 DEF Cutting
<1> QED
  BY <1>1, <1>6 DEF RFraming, RInv

(* A group that is queued is the next to come.                             *)
LEMMA AddFraming ==
  ASSUME RInv, R!Add \/ R!AddLast
  PROVE  RFraming'
<1> DEFINE N == (rSize + 2) \div 3
<1>1. /\ rCb \in {"add", "addlast"} /\ Cutting
      /\ rSent' = Append(rSent, rBuf)
      /\ UNCHANGED <<rSize, rI, rBytes, rFrames>>
  BY DEF R!Add, R!AddLast, RInv, RFraming
<1>2. Base' = Base /\ Earlier' = Earlier
  BY <1>1 DEF Base, Earlier
<1>3. /\ rSize \in Nat \ {0} /\ Cut \in Nat /\ Earlier \in Nat /\ N \in Nat
      /\ rJ \in 1 .. 3 /\ 3 * Cut + rJ <= rSize /\ rI = 3 * Cut + rJ
      /\ rI \in Nat /\ rBytes \in Nat
  BY <1>1 DEF Cutting, RInv, RTypeOK
<1>4. /\ Len(rSent) \in Nat /\ Len(rFrames) \in Nat
      /\ Len(rFrames) = Earlier + N /\ Len(rSent) = Earlier + Cut
  BY <1>3 DEF Earlier, Cut, RInv, RTypeOK
<1>5. Cut < N
  BY <1>3, GroupsLeft
<1> HIDE DEF N
<1>6. /\ Len(rSent') = Len(rSent) + 1 /\ rSent'[Len(rSent) + 1] = rBuf
      /\ \A k \in 1 .. Len(rSent) : rSent'[k] = rSent[k]
  <2>1. rSent \in Seq(R!Groups) /\ rBuf \in R!Groups
    BY DEF RInv, RTypeOK
  <2> QED
    BY <1>1, <2>1, AppendProperties
<1>7. rFrames[Len(rSent) + 1] = rBuf
  <2>1. rFrames[Earlier + Cut + 1] = Group(Base, Cut, rSize - 3 * Cut)
    BY <1>1, <1>3, <1>5 DEF Cutting, N
  <2>2. Group(Base, Cut, rSize - 3 * Cut) = Group(Base, Cut, rJ)
    <3>1. CASE rCb = "add"
      <4>1. rJ = 3 /\ rSize - 3 * Cut \in Int /\ rSize - 3 * Cut >= 3
        BY <1>1, <1>3, <3>1 DEF Cutting
      <4> QED
        BY <4>1, GroupFull
    <3>2. CASE rCb = "addlast"
      <4>1. rSize - 3 * Cut = rJ
        BY <1>1, <1>3, <3>2 DEF Cutting
      <4> QED
        BY <4>1
    <3> QED
      BY <1>1, <3>1, <3>2
  <2> QED
    BY <1>1, <1>4, <2>1, <2>2 DEF Cutting
<1>8. Len(rSent') <= Len(rFrames')
  BY <1>1, <1>3, <1>4, <1>5, <1>6
<1>9. ASSUME NEW k \in 1 .. Len(rSent')
      PROVE  rSent'[k] = rFrames'[k]
  <2>1. k = Len(rSent) + 1 \/ k \in 1 .. Len(rSent)
    BY <1>4, <1>6
  <2> QED
    BY <1>1, <1>6, <1>7, <2>1 DEF RInv, RFraming
<1>10. CASE R!Add
  <2>1. rCb' = "loop" /\ rJ' = 0 /\ rBuf' = R!Zeros /\ rJ = 3
    BY <1>1, <1>10 DEF R!Add, Cutting
  <2>2. Cut' = Cut + 1
    BY <1>2, <1>3, <1>4, <1>6 DEF Cut
  <2>3. rI' = 3 * Cut' + rJ' /\ rI' <= rSize' /\ Cut' \in Nat
    BY <1>1, <1>3, <2>1, <2>2
  <2>4. rBuf' = Group(Base', Cut', rJ')
    <3>1. R!Zeros = [p \in 1 .. 3 |-> 0]
      BY DEF R!Zeros
    <3>2. \A p \in 1 .. 3 : ~(p <= 0)
      OBVIOUS
    <3> QED
      BY <2>1, <3>1, <3>2 DEF Group
  <2>5. /\ rSize' \in 1 .. rBytes' /\ Earlier' \in Nat
        /\ \A g \in 0 .. (rSize' + 2) \div 3 - 1 :
             rFrames'[Earlier' + g + 1] = Group(Base', g, rSize' - 3 * g)
    BY <1>1, <1>2 DEF Cutting
  <2>6. Cutting'
    <3>1. rCb' = "loop" /\ rJ' \in 0 .. 2
      BY <2>1
    <3> QED
      BY <3>1, <2>3, <2>4, <2>5 DEF Cutting
  <2> QED
    BY <1>8, <1>9, <2>1, <2>6 DEF RFraming
<1>11. CASE R!AddLast
  <2>1. rCb' = "broadcast" /\ rJ \in 1 .. 2 /\ 3 * Cut + rJ = rSize
    BY <1>1, <1>3, <1>11 DEF R!AddLast, Cutting
  <2>2. N = Cut + 1
    BY <1>3, <2>1, GroupsLeft DEF N
  <2>3. Len(rSent') = Len(rFrames')
    BY <1>1, <1>3, <1>4, <1>6, <2>2
  <2> QED
    BY <1>8, <1>9, <2>1, <2>3 DEF RFraming
<1> QED
  BY <1>10, <1>11

(* The framing, step by step.                                              *)
LEMMA RFramingStep == RInv /\ [R!Next]_R!vars => RFraming'
<1> SUFFICES ASSUME RInv, [R!Next]_R!vars
             PROVE  RFraming'
  OBVIOUS
<1>1. CASE UNCHANGED <<R!cvars, rSent>>
  <2>1. /\ UNCHANGED <<rCb, rSize, rI, rJ, rBuf, rBytes, rFrames, rSent>>
    BY <1>1 DEF R!cvars
  <2>2. Base' = Base /\ Earlier' = Earlier /\ Cut' = Cut
    BY <2>1 DEF Base, Earlier, Cut
  <2> QED
    BY <2>1, <2>2 DEF RInv, RFraming, Cutting
<1>2. CASE R!AddLock
  <2>1. /\ UNCHANGED <<rSize, rI, rJ, rBuf, rBytes, rFrames, rSent>>
        /\ \/ rCb = "lock" /\ rCb' = "add"
           \/ rCb = "locklast" /\ rCb' = "addlast"
    BY <1>2 DEF R!AddLock, R!qvars
  <2>2. Base' = Base /\ Earlier' = Earlier /\ Cut' = Cut
    BY <2>1 DEF Base, Earlier, Cut
  <2> QED
    BY <2>1, <2>2 DEF RInv, RFraming, Cutting
<1>3. CASE R!Broadcast
  BY <1>3 DEF R!Broadcast, R!qvars, RInv, RFraming
<1>4. CASE R!LoopEnd
  <2>1. /\ UNCHANGED <<rSize, rI, rJ, rBuf, rBytes, rFrames, rSent>>
        /\ rCb = "loop" /\ rI = rSize
        /\ rCb' = IF rSize % 3 # 0 THEN "locklast" ELSE "broadcast"
    BY <1>4 DEF R!LoopEnd, R!qvars
  <2>2. Base' = Base /\ Earlier' = Earlier /\ Cut' = Cut
    BY <2>1 DEF Base, Earlier, Cut
  <2>3. /\ Cutting /\ rSize \in Nat \ {0} /\ Cut \in Nat /\ rJ \in 0 .. 2
        /\ 3 * Cut + rJ = rSize
    BY <2>1 DEF RInv, RTypeOK, RFraming, Cutting
  <2>4. rSize % 3 = 0 <=> rJ = 0
    BY <2>3, GroupsLeft
  <2>5. CASE rJ = 0
    <3>1. (rSize + 2) \div 3 = Cut
      BY <2>3, <2>5, GroupsLeft
    <3>2. Len(rSent) = Len(rFrames)
      BY <3>1, <2>3 DEF Cut, Earlier, RInv, RTypeOK
    <3> QED
      BY <2>1, <2>4, <2>5, <3>2 DEF RInv, RFraming
  <2>6. CASE rJ # 0
    <3>1. rJ \in 1 .. 2 /\ rCb' = "locklast"
      BY <2>1, <2>3, <2>4, <2>6
    <3> QED
      BY <2>1, <2>2, <2>3, <3>1 DEF RInv, RFraming, Cutting
  <2> QED
    BY <2>5, <2>6
<1> QED
  BY <1>1, <1>2, <1>3, <1>4, MessageFraming, CopyFraming, AddFraming
     DEF R!Next, R!CallbackNext, R!ShredNext, R!ReadBody, R!Dtor, R!vars,
         R!cvars, R!dvars, R!qvars, R!svars, R!Open, R!OpenFail, R!Wait, R!Read,
         R!ReadLock, R!ReadNone, R!ReadSome, R!Connect, R!Release, R!DtorLock,
         R!DtorDrop, R!DtorDelete

(* Every step keeps the invariant.                                         *)
LEMMA RInductive == (R!Init => RInv) /\ (RInv /\ [R!Next]_R!vars => RInv')
BY RInitInv, RTypeStep, RControlStep, ROnceStep, RFramingStep DEF RInv

(* Each step of RtMidi is one of the queue, or none.                       *)
LEMMA RFifoStep == RInv /\ [R!Next]_R!vars => [R!Fifo!Next]_R!Fifo!vars
<1> SUFFICES ASSUME RInv, [R!Next]_R!vars
             PROVE  [R!Fifo!Next]_R!Fifo!vars
  OBVIOUS
<1>1. CASE UNCHANGED R!qvars /\ (rLife' \in {"failed", "freed"} <=> rLife \in {"failed", "freed"})
  BY <1>1 DEF R!Fifo!vars, R!qvars
<1>2. CASE R!Add \/ R!AddLast
  <2>1. /\ rLife = "open" /\ rLife' = "open" /\ rLog' = rLog
        /\ rBuf \in R!Groups /\ rSent' = Append(rSent, rBuf)
        /\ rMsgs' = Append(rMsgs, rBuf)
    BY <1>2 DEF R!Add, R!AddLast, R!dvars, RInv, RTypeOK, RTeardown
  <2>2. R!Fifo!Arrive(rBuf)
    BY <2>1 DEF R!Fifo!Arrive
  <2> QED
    BY <2>1, <2>2 DEF R!Fifo!Next
<1>3. ASSUME NEW s \in Shreds, R!ReadSome(s)
      PROVE  R!Fifo!Take
  <2>1. rLife = "open" /\ rLife' = "open"
    BY <1>3 DEF R!ReadSome, RInv, RTeardown, R!dvars
  <2> QED
    BY <1>3, <2>1 DEF R!ReadSome, R!Fifo!Take
<1>4. ASSUME NEW s \in Shreds, R!OpenFail(s)
      PROVE  R!Fifo!Close
  BY <1>4 DEF R!OpenFail, R!Fifo!Close, RInv, ROnce, R!qvars
<1>5. ASSUME NEW s \in Shreds, R!DtorDrop(s)
      PROVE  [R!Fifo!Next]_R!Fifo!vars
  <2>1. CASE rLife = "open"
    <3>1. R!Fifo!Close
      BY <1>5, <2>1 DEF R!DtorDrop, R!Fifo!Close
    <3> QED
      BY <3>1 DEF R!Fifo!Next
  <2>2. CASE rLife # "open"
    <3>1. rMsgs = <<>> /\ rMsgs' = <<>> /\ UNCHANGED <<rLife, rSent, rLog>>
      BY <1>5, <2>2 DEF R!DtorDrop, RInv, ROnce
    <3> QED
      BY <3>1 DEF R!Fifo!vars
  <2> QED
    BY <2>1, <2>2
<1> QED
  BY <1>1, <1>2, <1>3, <1>4, <1>5
     DEF R!Fifo!Next, R!Next, R!CallbackNext, R!ShredNext, R!ReadBody, R!Dtor, R!vars,
         R!cvars, R!dvars, R!qvars, R!svars, R!Open, R!Message, R!CopyByte,
         R!LoopEnd, R!AddLock, R!Broadcast, R!Wait, R!Read, R!ReadLock, R!ReadNone,
         R!Connect, R!Release, R!DtorLock, R!DtorDelete

(* RtMidi implements EventFifo in groups of three bytes: each group the    *)
(* callback queues is read once and in order until the groups are dropped. *)
LEMMA RtMidiIsFifo == R!Init /\ [][R!Next]_R!vars => R!FifoSpec
<1>1. R!Init => R!Fifo!Init
  BY DEF R!Init, R!Fifo!Init
<1> QED
  BY <1>1, RInductive, RFifoStep, PTL DEF R!FifoSpec, R!Fifo!Spec

(* Once a message is cut, all of it was queued.                            *)
LEMMA SentIsFrames ==
  ASSUME RInv, rCb \in {"idle", "broadcast"}
  PROVE  rSent = rFrames
<1>1. /\ rSent \in Seq(R!Groups) /\ rFrames \in Seq(R!Groups)
      /\ Len(rSent) = Len(rFrames)
      /\ \A n \in 1 .. Len(rSent) : rSent[n] = rFrames[n]
  BY DEF RInv, RTypeOK, RFraming
<1> QED
  BY <1>1, SeqEqual

(* The framing of an open object, from what was queued.                    *)
LEMMA RInvIsFramed == RInv => Framed
<1> SUFFICES ASSUME RInv, rLife = "open"
             PROVE  /\ R!IsPrefix(rLog \o rMsgs, rFrames)
                    /\ rCb \in {"idle", "broadcast"} => rLog \o rMsgs = rFrames
  BY DEF Framed, R!Framed
<1>1. rLog \o rMsgs = rSent
  BY DEF RInv, ROnce
<1>2. /\ rSent \in Seq(R!Groups) /\ rFrames \in Seq(R!Groups)
      /\ Len(rSent) \in Nat /\ Len(rFrames) \in Nat /\ Len(rSent) <= Len(rFrames)
      /\ \A n \in 1 .. Len(rSent) : rSent[n] = rFrames[n]
  BY DEF RInv, RTypeOK, RFraming
<1>3. SubSeq(rSent, 1, Len(rSent)) = SubSeq(rFrames, 1, Len(rSent))
  BY <1>2
<1>4. R!IsPrefix(rSent, rFrames)
  BY <1>2, <1>3 DEF R!IsPrefix
<1> QED
  BY <1>1, <1>4, SentIsFrames

(* A shred is woken by the broadcast alone, and that comes last.           *)
LEMMA WokenStep ==
  ASSUME RInv, [R!Next]_R!vars, NEW s \in Shreds,
         rSpc[s] = "waiting", rSpc'[s] = "woken"
  PROVE  rLife # "open" \/ rLog \o rMsgs = rFrames
<1>1. R!Broadcast
  <2>1. rSpc' # rSpc
    OBVIOUS
  <2>2. ASSUME NEW t \in Shreds, R!ShredNext(t)
        PROVE  FALSE
    BY <2>2 DEF R!ShredNext, R!OpenFail, R!Wait, R!Read, R!ReadLock, R!ReadBody,
                R!ReadNone, R!ReadSome, R!Return, R!Connect, R!Release, R!Dtor,
                R!DtorLock, R!DtorDrop, R!DtorDelete, R!svars, RInv, RTypeOK
  <2> QED
    BY <2>1, <2>2 DEF R!Next, R!CallbackNext, R!Open, R!Message, R!CopyByte,
                      R!LoopEnd, R!AddLock, R!Add, R!AddLast, R!svars, R!vars
<1>2. rCb = "broadcast"
  BY <1>1 DEF R!Broadcast
<1> QED
  BY <1>2, SentIsFrames DEF RInv, ROnce

-----------------------------------------------------------------------------
(* A program that imports one of them                                      *)

(* Whichever it imports, each object does what its module says: the two    *)
(* that are not constructed stay as they are.                              *)
LEMMA EachObject ==
  InputsSpec => Spec /\ P!Spec /\ R!Init /\ [][R!Next]_R!vars
<1>1. [InputsNext]_<<plug, vars, portVars, rtVars>>
        => [Next]_vars /\ [P!Next]_P!vars /\ [R!Next]_R!vars
  BY DEF InputsNext, portVars, rtVars, P!vars, R!vars
<1> QED
  BY <1>1, PTL DEF InputsSpec, InputsInit, Spec, P!Spec

(* In such a program too, an Evdev object hands out each event once and in *)
(* order, and its destructor frees nothing its thread may still touch.     *)
THEOREM ImportedEvdevSafe == InputsSpec => [](ExactlyOnce /\ TeardownSafe)
<1> QED
  BY EachObject, EventsExactlyOnce, SafeTeardown, PTL

(* Whichever plug-in a program imports, what its device thread queues is   *)
(* read once and in order, whatever the thread, the shreds and the         *)
(* destructor do to the array, the vector or the groups.                   *)
THEOREM InputsAreFifos == InputsSpec => FifosSpec
<1> QED
  BY EachObject, EvdevIsFifo, PortMidiIsFifo, RtMidiIsFifo, PTL DEF FifosSpec

(* An open RtMidi object hands out the messages it received as whole       *)
(* groups of their own bytes, the last padded with zeros: no group mixes   *)
(* two messages and none is lost, for messages of any length.              *)
THEOREM MessagesFramed == InputsSpec => []Framed
<1> QED
  BY EachObject, RInductive, RInvIsFramed, PTL

(* A shred that waits for an open RtMidi object wakes only once all of the *)
(* message is there to be read.                                            *)
THEOREM WakesForWholeMessage == InputsSpec => WokenForWholeMessage
<1>1. RInv /\ [R!Next]_R!vars
        => [(\E s \in Shreds : rSpc[s] = "waiting" /\ rSpc'[s] = "woken")
              => rLife # "open" \/ rLog \o rMsgs = rFrames]_R!vars
  BY WokenStep
<1> QED
  BY <1>1, EachObject, RInductive, PTL DEF WokenForWholeMessage, R!WokenForWholeMessage

=============================================================================

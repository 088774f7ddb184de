----------------------------- MODULE OscProofs -----------------------------
(***************************************************************************)
(* Proofs about Lo and Osc, for any finite set of OscIn objects, any       *)
(* methods, any integers and any number of messages: the server is counted *)
(* as it is used, each live object gets its messages once and in order,    *)
(* the counts of the later arguments are short by no more than the clients *)
(* after the second, and what is sent is what was added, unless the block  *)
(* of the arguments moved.                                                 *)
(*                                                                         *)
(* The counts are inductive once it is known that nothing is made while a  *)
(* server stops.  The order is not: a message must not be pushed twice on  *)
(* an object, so the invariant says where the handler is in its list       *)
(* (Walking), that the list has no repeats (Listed), and that an object    *)
(* that has the message stands before that place -- an object that is      *)
(* added meanwhile then comes after it.  For the arguments, whichever of   *)
(* the three copies of a count is written next, the word itself, the one   *)
(* the handler has read or the one the VM has read, it is enough (Held):   *)
(* a release that is lost keeps an argument too long, and a count that is  *)
(* lost is made up for by one client more.                                 *)
(***************************************************************************)
EXTENDS Osc, FiniteSetTheorems, SequenceTheorems, TLAPS

Opened == {o \in Objects : life[o] \in {"open", "closing"}}

Typed ==
  /\ life \in [Objects -> {"new", "open", "closing", "stopping", "dead"}]
  /\ server \in [ref : Nat, thread : {"none", "up"}]
  /\ client \in [Methods -> Seq(Objects)]
  /\ mref \in [Methods -> Nat]
  /\ body \in [Messages -> Seq(Int)]
  /\ ref \in [Messages -> Seq(Nat)]
  /\ \A n \in Messages : Len(ref[n]) = Len(body[n])
  /\ hm \in Methods \cup {NoMethod}
  /\ hpc \in {"idle", "each", "count", "increment", "lock", "push", "broadcast"}
  /\ hi \in Nat \ {0}
  /\ hj \in Nat \ {0}
  /\ cnt \in Nat
  /\ last \in 0 .. MaxMessages
  /\ args \in [Objects -> Seq(Messages)]
  /\ curr \in [Objects -> {<<>>} \cup (Messages \X Nat)]
  /\ spc \in [Objects -> {"ready", "waiting", "woken", "recv"}]
  /\ rel \in {<<>>} \cup (Messages \X Nat \X Nat)
  /\ got \in [Objects -> Seq(Messages)]
  /\ pushed \in [Objects -> Seq(Messages)]

(* While a server stops it has no reference left. *)
Referred == ServerCounted /\ \A o \in Objects : life[o] = "stopping" => server.ref = 0

(* The lists of clients have no repeats, and no object that is not made;   *)
(* such an object has had no message.                                      *)
Listed ==
  /\ \A k \in Methods : \A i, j \in 1 .. Len(client[k]) :
       client[k][i] = client[k][j] => i = j
  /\ \A k \in Methods : \A i \in 1 .. Len(client[k]) : life[client[k][i]] # "new"
  /\ \A o \in Objects :
       life[o] = "new" => args[o] = <<>> /\ got[o] = <<>> /\ pushed[o] = <<>>

(* Who has the message that is being handled stands before the handler's   *)
(* place in the list.                                                      *)
Before(o) ==
  \E i \in 1 .. Len(client[hm]) :
    /\ client[hm][i] = o
    /\ i < hi \/ (i = hi /\ hpc = "broadcast")

(* A method is only freed under its handler while the server stops; the    *)
(* handler counts arguments the message has.                               *)
Walking ==
  hpc # "idle" =>
    /\ hm \in Methods
    /\ last > 0
    /\ hpc = "increment" => hj <= Len(body[last])
    /\ mref[hm] = 0 => \E o \in Objects : life[o] = "stopping"
    /\ mref[hm] > 0 =>
         /\ hpc # "each" => hi <= Len(client[hm])
         /\ \A o \in Objects : Contains(pushed[o], last) => Before(o)

(* Nothing is queued, read or released that was not pushed, and nothing is *)
(* pushed that the server has not received.                                *)
Known ==
  /\ \A o \in Objects :
       /\ \A a \in 1 .. Len(pushed[o]) : pushed[o][a] <= last
       /\ \A a \in 1 .. Len(args[o]) : Contains(pushed[o], args[o][a])
       /\ curr[o] # <<>> => Contains(pushed[o], curr[o][1])
  /\ rel # <<>> =>
       /\ rel[2] \in 1 .. Len(body[rel[1]])
       /\ \E o \in Objects : Contains(pushed[o], rel[1])

Sorted ==
  \A o \in Objects : \A a, b \in 1 .. Len(pushed[o]) :
    a < b => pushed[o][a] < pushed[o][b]

Queued ==
  \A o \in Objects :
    /\ life[o] = "open" => got[o] \o args[o] = pushed[o]
    /\ spc[o] = "recv" => life[o] = "open"

(* The release of argument k of message n that the VM is in.               *)
Releasing(n, k) == IF rel # <<>> /\ rel[1] = n /\ rel[2] = k THEN 1 ELSE 0

(* The handler has read the count of the argument; it has written it for   *)
(* the client it is at.                                                    *)
Counting(n, k) == n = last /\ hpc = "increment" /\ hj = k
CountedOn(n, k) ==
  n = last /\ (hpc \in {"lock", "push"} \/ (hpc \in {"count", "increment"} /\ hj > k))

(* One reference is made with the message, one more is counted before the  *)
(* first client has it.                                                    *)
Due(n, k) == IF Clients(n) = 0 /\ ~CountedOn(n, k) THEN 1 ELSE 2

Enough(c, n, k) == Holders(n, k) + Releasing(n, k) + Due(n, k) <= c + Clients(n)

Held ==
  \A n \in Messages : \A k \in 2 .. Len(body[n]) :
    /\ Enough(ref[n][k], n, k)
    /\ Counting(n, k) => Enough(cnt, n, k)
    /\ Releasing(n, k) = 1 => Enough(rel[3], n, k)

LoInv == Typed /\ Referred /\ Listed /\ Walking /\ Known /\ Sorted /\ Queued /\ Held

(* What the object has in its block is what was added to it.               *)
Sent ==
  /\ block \in Seq(Int) /\ added \in Seq(Int)
  /\ Len(block) <= Len(Ints)
  /\ out # "moved" => added = block
  /\ \A m \in net : m.body \in Seq(Int) /\ m.added \in Seq(Int)
  /\ SentAsAdded

IInv == LoInv /\ Sent

(* The variables the invariant of the server speaks of. *)
loVars == <<life, mvars, ref, hvars, args, curr, spc, rel, got, pushed>>

(* The steps of the server and of its objects; the messages come from the  *)
(* network.                                                                *)
LoNext ==
  \/ InNext
  \/ \E k \in Methods : \E m \in Seq(Int) : Handle(k, m)
  \/ UNCHANGED loVars

(* Where an append leaves the elements of a sequence (m_vector_add).       *)
LEMMA Appended ==
  ASSUME NEW S, NEW s \in Seq(S), NEW e \in S
  PROVE  /\ Append(s, e) \in Seq(S)
         /\ Len(Append(s, e)) = Len(s) + 1
         /\ Len(s) \in Nat
         /\ \A k \in 1 .. Len(s) : Append(s, e)[k] = s[k]
         /\ Append(s, e)[Len(s) + 1] = e
         /\ \A k \in 1 .. Len(Append(s, e)) :
              \/ k \in 1 .. Len(s) /\ Append(s, e)[k] = s[k]
              \/ k = Len(s) + 1 /\ Append(s, e)[k] = e
OBVIOUS

(* What taking the oldest element leaves (m_vector_rem of 0).              *)
LEMMA Taken ==
  ASSUME NEW S, NEW s \in Seq(S), s # <<>>
  PROVE  /\ Head(s) \in S
         /\ Tail(s) \in Seq(S)
         /\ Len(s) \in Nat \ {0}
         /\ Len(Tail(s)) = Len(s) - 1
         /\ Head(s) = s[1]
         /\ \A k \in 1 .. Len(Tail(s)) : Tail(s)[k] = s[k + 1]
OBVIOUS

(* What writing the count of one argument makes of the counts              *)
(* (release_loarg, and the loop of osc_method_handler).                    *)
LEMMA CountWritten ==
  ASSUME Typed, NEW n \in Messages, NEW k \in 1 .. Len(body[n]), NEW c \in Nat,
         Written(n, k, c)
  PROVE  /\ ref' \in [Messages -> Seq(Nat)]
         /\ \A i \in Messages : Len(ref'[i]) = Len(body[i])
         /\ ref'[n][k] = IF ref[n][k] = 0 THEN 0 ELSE c
         /\ \A i \in Messages : \A j \in 1 .. Len(body[i]) :
              ~(i = n /\ j = k) => ref'[i][j] = ref[i][j]
<1> DEFINE s == ref[n]
           d == IF s[k] = 0 THEN 0 ELSE c
           t == [s EXCEPT ![k] = d]
<1>1. ref \in [Messages -> Seq(Nat)] /\ \A i \in Messages : Len(ref[i]) = Len(body[i])
  BY DEF Typed
<1>2. s \in Seq(Nat) /\ Len(s) = Len(body[n]) /\ DOMAIN s = 1 .. Len(s) /\ Len(s) \in Nat
      /\ k \in 1 .. Len(s)
  BY <1>1
<1>3. ref' = [ref EXCEPT ![n] = t]
  BY DEF Written
<1>4. d \in Nat
  OBVIOUS
<1>5. t \in [1 .. Len(s) -> Nat]
  BY <1>2, <1>4
<1>6. t \in Seq(Nat) /\ Len(t) = Len(s)
  BY <1>2, <1>5
<1>7. t[k] = d /\ \A j \in 1 .. Len(s) : j # k => t[j] = s[j]
  BY <1>2
<1>8. ref'[n] = t /\ \A i \in Messages : i # n => ref'[i] = ref[i]
  BY <1>1, <1>3
<1> HIDE DEF t
<1>9. ref' \in [Messages -> Seq(Nat)]
  BY <1>1, <1>3, <1>6
<1> QED
  BY <1>1, <1>2, <1>6, <1>7, <1>8, <1>9

(* The client the handler is at is one of the method's list.               *)
LEMMA AtClient ==
  ASSUME LoInv, hpc # "idle", mref[hm] > 0, hi <= Len(client[hm])
  PROVE  /\ hm \in Methods
         /\ client[hm] \in Seq(Objects)
         /\ hi \in 1 .. Len(client[hm])
         /\ At \in Objects
         /\ life[At] # "new"
<1>1. hm \in Methods /\ client[hm] \in Seq(Objects) /\ hi \in Nat \ {0}
  BY DEF LoInv, Walking, Typed
<1>2. hi \in 1 .. Len(client[hm])
  BY <1>1
<1>3. At \in Objects
  BY <1>1, <1>2 DEF At
<1> QED
  BY <1>1, <1>2, <1>3 DEF LoInv, Listed, At

(* Nothing is made, queued or counted at first.                            *)
LEMMA InitLoInv ==
  ASSUME NEW made, Init(made)
  PROVE  LoInv
<1>1. /\ life \in [Objects -> {"new", "dead"}]
      /\ client = [k \in Methods |-> <<>>] /\ mref = [k \in Methods |-> 0]
      /\ body = [n \in Messages |-> <<>>] /\ ref = [n \in Messages |-> <<>>]
      /\ args = [o \in Objects |-> <<>>] /\ curr = [o \in Objects |-> <<>>]
      /\ got = [o \in Objects |-> <<>>] /\ pushed = [o \in Objects |-> <<>>]
      /\ server = NoServer /\ hm = NoMethod /\ hpc = "idle" /\ hi = 1 /\ last = 0
      /\ hj = 1 /\ cnt = 0 /\ rel = <<>> /\ spc = [o \in Objects |-> "ready"]
  BY DEF Init
<1>2. Typed
  BY <1>1, LoAssumption DEF Typed, NoServer
<1>3. Referred
  <2>1. Opened = {}
    BY <1>1 DEF Opened
  <2>2. Cardinality(Opened) = 0
    BY <2>1, FS_EmptySet
  <2> QED
    BY <1>1, <2>2 DEF Referred, ServerCounted, NoServer, Opened
<1>4. Listed /\ Walking /\ Known /\ Sorted
  BY <1>1 DEF Listed, Walking, Known, Sorted
<1>5. Queued
  BY <1>1 DEF Queued
<1>6. Held
  BY <1>1 DEF Held
<1> QED
  BY <1>2, <1>3, <1>4, <1>5, <1>6 DEF LoInv

(* The methods of the virtual machine keep the types.                      *)
LEMMA MachineTyped ==
  ASSUME LoInv, NEW o \in Objects
  PROVE  /\ New(o) => Typed'
         /\ NewFails(o) => Typed'
         /\ \A k \in Methods : Add(o, k) \/ AddRaces(o, k) => Typed'
         /\ Wait(o) \/ RecvClears(o) \/ Close(o) => Typed'
         /\ Recv(o) => Typed'
         /\ Get(o) => Typed'
         /\ Release(o) => Typed'
         /\ Stop(o) => Typed'
<1> Typed
  BY DEF LoInv
<1>1. ASSUME New(o)
      PROVE  Typed'
  BY <1>1, SMTT(30) DEF New, Typed, mvars, ovars, hvars
<1>8. ASSUME NewFails(o)
      PROVE  Typed'
  BY <1>8, SMTT(30) DEF NewFails, Typed, mvars, ovars, hvars
<1>2. ASSUME NEW k \in Methods, Add(o, k) \/ AddRaces(o, k)
      PROVE  Typed'
  <2>1. client' \in [Methods -> Seq(Objects)] /\ mref' \in [Methods -> Nat]
    <3>1. Client(o, k)
      BY <1>2 DEF Add, AddRaces
    <3>2. client' \in [Methods -> Seq(Objects)]
      BY <3>1 DEF Client, Typed
    <3>3. mref' \in [Methods -> Nat]
      BY <3>1 DEF Client, Typed
    <3> QED
      BY <3>2, <3>3
  <2>2. /\ hm' \in Methods \cup {NoMethod} /\ hj' \in Nat \ {0} /\ cnt' \in Nat
        /\ hpc' \in {"idle", "each", "count", "increment", "lock", "push", "broadcast"}
    BY <1>2 DEF Add, AddRaces, Return, hvars, Typed
  <2>3. UNCHANGED <<life, server, ref, hi, last, body, ovars, spc, rel>>
    BY <1>2 DEF Add, AddRaces, hvars
  <2> QED
    BY <2>1, <2>2, <2>3, SMTT(30) DEF Typed, ovars
<1>3. ASSUME Wait(o) \/ RecvClears(o) \/ Close(o)
      PROVE  Typed'
  <2>1. life' \in [Objects -> {"new", "open", "closing", "stopping", "dead"}]
    <3>1. life' = life \/ life' = [life EXCEPT ![o] = "closing"]
      BY <1>3 DEF Wait, RecvClears, Close
    <3> QED
      BY <3>1 DEF Typed
  <2>2. UNCHANGED <<mvars, ref, hvars, ovars, rel>>
    BY <1>3 DEF Wait, RecvClears, Close
  <2>3. spc' \in [Objects -> {"ready", "waiting", "woken", "recv"}]
    <3>1. spc' = spc \/ \E x \in {"waiting", "recv"} : spc' = [spc EXCEPT ![o] = x]
      BY <1>3 DEF Wait, RecvClears, Close
    <3> QED
      BY <3>1 DEF Typed
  <2> QED
    BY <2>1, <2>2, <2>3 DEF Typed, mvars, ovars, hvars
<1>4. ASSUME Recv(o)
      PROVE  Typed'
  <2>1. args[o] \in Seq(Messages) /\ args[o] # <<>>
    BY <1>4 DEF Recv, Typed
  <2>2. Head(args[o]) \in Messages /\ Tail(args[o]) \in Seq(Messages)
    BY <2>1, Taken
  <2>3. Append(got[o], Head(args[o])) \in Seq(Messages)
    BY <2>2 DEF Typed
  <2>4. args' \in [Objects -> Seq(Messages)] /\ got' \in [Objects -> Seq(Messages)]
    BY <1>4, <2>2, <2>3 DEF Recv, Typed
  <2>5. curr' \in [Objects -> {<<>>} \cup (Messages \X Nat)]
    BY <1>4, <2>2 DEF Recv, Typed
  <2>6. spc' \in [Objects -> {"ready", "waiting", "woken", "recv"}]
    BY <1>4 DEF Recv, Typed
  <2> QED
    BY <1>4, <2>4, <2>5, <2>6 DEF Recv, Typed, mvars, hvars
<1>5. ASSUME Get(o)
      PROVE  Typed'
  <2> DEFINE n == curr[o][1]
             k == curr[o][2] + 1
  <2>1. curr[o] \in Messages \X Nat
    BY <1>5 DEF Get, Left, Typed
  <2>2. n \in Messages /\ k \in Nat \ {0} /\ k <= Len(body[n])
    <3>1. body[n] \in Seq(Int) /\ curr[o][2] \in Nat /\ curr[o][2] < Len(body[n])
      BY <1>5, <2>1 DEF Get, Left, Typed
    <3> QED
      BY <2>1, <3>1
  <2>3. ref[n] \in Seq(Nat) /\ Len(ref[n]) = Len(body[n]) /\ k \in 1 .. Len(ref[n])
    BY <2>2 DEF Typed
  <2>4. rel' = <<n, k, ref[n][k]>> /\ ref[n][k] \in Nat
    <3>1. rel' = <<n, k, ref[n][k]>>
      BY <1>5 DEF Get
    <3>2. ref[n][k] \in Nat
      BY <2>3
    <3> QED
      BY <3>1, <3>2
  <2>6. curr' = [curr EXCEPT ![o] = IF k = Len(body[n]) THEN <<>> ELSE <<n, k>>]
    BY <1>5 DEF Get
  <2>7. curr' \in [Objects -> {<<>>} \cup (Messages \X Nat)]
    BY <2>2, <2>6 DEF Typed
  <2>8. rel' \in Messages \X Nat \X Nat
    BY <2>2, <2>4
  <2> HIDE DEF n, k
  <2> QED
    BY <1>5, <2>7, <2>8 DEF Get, Typed, mvars, hvars
<1>6. ASSUME Release(o)
      PROVE  Typed'
  <2>2. /\ curr' \in [Objects -> {<<>>} \cup (Messages \X Nat)]
        /\ args' \in [Objects -> Seq(Messages)]
    BY <1>6, SMTT(30) DEF Release, Typed
  <2>3. server.ref > 0
    <3>1. Cardinality(Opened) = server.ref /\ o \in Opened
      BY <1>6 DEF LoInv, Referred, ServerCounted, Opened, Release
    <3>2. IsFiniteSet(Opened) /\ Opened # {}
      BY <3>1, LoAssumption, FS_Subset DEF Opened
    <3> QED
      BY <3>1, <3>2, FS_EmptySet DEF Typed
  <2>4. CASE server.ref = 1
    <3>1. /\ life' = [life EXCEPT ![o] = "stopping"]
          /\ server' = [server EXCEPT !.ref = 0]
          /\ mref' = [k \in Methods |-> Dec(mref[k])]
          /\ client' = [k \in Methods |-> IF mref[k] <= 1 THEN <<>> ELSE client[k]]
      BY <1>6, <2>4 DEF Release
    <3>2. \A k \in Methods : Dec(mref[k]) \in Nat
      BY DEF Typed, Dec
    <3>3. mref' \in [Methods -> Nat] /\ client' \in [Methods -> Seq(Objects)]
      BY <3>1, <3>2 DEF Typed
    <3>4. /\ life' \in [Objects -> {"new", "open", "closing", "stopping", "dead"}]
          /\ server' \in [ref : Nat, thread : {"none", "up"}]
      BY <3>1 DEF Typed
    <3> QED
      BY <1>6, <2>2, <3>3, <3>4 DEF Release, Typed, hvars
  <2>5. CASE server.ref # 1
    <3>1. /\ life' = [life EXCEPT ![o] = "dead"]
          /\ server' = [server EXCEPT !.ref = @ - 1]
          /\ UNCHANGED <<client, mref>>
      BY <1>6, <2>5 DEF Release
    <3>3. server.ref - 1 \in Nat
      BY <2>3 DEF Typed
    <3>2. /\ life' \in [Objects -> {"new", "open", "closing", "stopping", "dead"}]
          /\ server' \in [ref : Nat, thread : {"none", "up"}]
      BY <3>1, <3>3, Zenon DEF Typed
    <3> QED
      BY <1>6, <2>2, <3>1, <3>2 DEF Release, Typed, hvars
  <2> QED
    BY <2>4, <2>5
<1>7. ASSUME Stop(o)
      PROVE  Typed'
  <2>1. /\ life' \in [Objects -> {"new", "open", "closing", "stopping", "dead"}]
        /\ server' \in [ref : Nat, thread : {"none", "up"}]
        /\ mref' \in [Methods -> Nat]
        /\ client' \in [Methods -> Seq(Objects)]
    BY <1>7 DEF Stop, Typed, NoServer
  <2> QED
    BY <1>7, <2>1 DEF Stop, Typed, ovars, hvars
<1> QED
  BY <1>1, <1>2, <1>3, <1>4, <1>5, <1>6, <1>7, <1>8

(* So does a release.                                                      *)
LEMMA PutTyped ==
  ASSUME LoInv, Put
  PROVE  Typed'
<1> Typed
  BY DEF LoInv
<1>1. rel \in Messages \X Nat \X Nat
  BY DEF Put, Typed
<1>2. /\ rel[1] \in Messages /\ rel[2] \in 1 .. Len(body[rel[1]]) /\ rel[3] \in Nat
  BY <1>1 DEF Put, LoInv, Known
<1>3. Dec(rel[3]) \in Nat /\ Written(rel[1], rel[2], Dec(rel[3]))
  BY <1>2 DEF Put, Dec
<1>4. ref' \in [Messages -> Seq(Nat)] /\ \A n \in Messages : Len(ref'[n]) = Len(body[n])
  BY <1>2, <1>3, CountWritten
<1> QED
  BY <1>4 DEF Put, Typed, mvars, hvars, ovars

(* So do the steps of the handler.                                         *)
LEMMA HandlerTyped ==
  ASSUME LoInv
  PROVE  /\ \A k \in Methods : \A m \in Seq(Int) : Handle(k, m) => Typed'
         /\ HandlerNext => Typed'
<1> Typed
  BY DEF LoInv
<1>1. ASSUME NEW k \in Methods, NEW m \in Seq(Int), Handle(k, m)
      PROVE  Typed'
  <2>1. last + 1 \in Messages /\ last' = last + 1
    BY <1>1, LoAssumption DEF Handle, Typed, Messages
  <2>2. /\ [j \in DOMAIN m |-> 1] \in Seq(Nat)
        /\ Len([j \in DOMAIN m |-> 1]) = Len(m)
    OBVIOUS
  <2>3. /\ ref' = [ref EXCEPT ![last + 1] = [j \in DOMAIN m |-> 1]]
        /\ body' = [body EXCEPT ![last + 1] = m]
    BY <1>1 DEF Handle
  <2>4. /\ ref' \in [Messages -> Seq(Nat)] /\ body' \in [Messages -> Seq(Int)]
        /\ \A n \in Messages : Len(ref'[n]) = Len(body'[n])
    BY <2>1, <2>2, <2>3 DEF Typed
  <2>5. last' \in 0 .. MaxMessages
    BY <2>1 DEF Messages
  <2> QED
    BY <1>1, <2>4, <2>5 DEF Handle, Typed, mvars, ovars
<1>2. ASSUME Count
      PROVE  Typed'
  <2>1. last \in Messages
    BY <1>2, LoAssumption DEF Count, Typed, Messages, LoInv, Walking
  <2>2. ref[last] \in Seq(Nat) /\ hj \in 1 .. Len(ref[last])
    BY <1>2, <2>1 DEF Count, Typed
  <2>3. cnt' \in Nat
    BY <1>2, <2>2 DEF Count
  <2> QED
    BY <1>2, <2>3 DEF Count, Typed, mvars, ovars
<1>5. ASSUME Increment
      PROVE  Typed'
  <2>1. last \in Messages
    BY <1>5, LoAssumption DEF Increment, Typed, Messages, LoInv, Walking
  <2>2. hj \in 1 .. Len(body[last]) /\ cnt + 1 \in Nat
    BY <1>5, <2>1 DEF Increment, Typed, LoInv, Walking
  <2>3. ref' \in [Messages -> Seq(Nat)] /\ \A n \in Messages : Len(ref'[n]) = Len(body[n])
    BY <1>5, <2>1, <2>2, CountWritten DEF Increment
  <2> QED
    BY <1>5, <2>3 DEF Increment, Typed, mvars, ovars
<1>3. ASSUME Each \/ EachDone \/ Counted \/ Lock \/ Broadcast \/ TouchFreed
      PROVE  Typed'
  <2>1. UNCHANGED <<life, mvars, ref, last, body, ovars, rel>>
    BY <1>3 DEF Each, EachDone, Counted, Lock, Broadcast, TouchFreed
  <2>2. /\ hm' \in Methods \cup {NoMethod} /\ hi' \in Nat \ {0}
        /\ hj' \in Nat \ {0} /\ cnt' \in Nat
        /\ hpc' \in {"idle", "each", "count", "increment", "lock", "push", "broadcast"}
    BY <1>3 DEF Each, EachDone, Counted, Lock, Broadcast, TouchFreed, Return, Typed
  <2>3. spc' \in [Objects -> {"ready", "waiting", "woken", "recv"}]
    <3>1. CASE Broadcast
      BY <3>1 DEF Broadcast, Typed
    <3>2. CASE ~Broadcast
      BY <1>3, <3>2 DEF Each, EachDone, Counted, Lock, TouchFreed, Typed
    <3> QED
      BY <3>1, <3>2
  <2> QED
    BY <2>1, <2>2, <2>3 DEF Typed, mvars, ovars
<1>4. ASSUME Push
      PROVE  Typed'
  <2>1. last \in Messages
    BY <1>4, LoAssumption DEF Push, Typed, Messages, LoInv, Walking
  <2>3. At \in Objects
    <3>1. mref[hm] > 0 /\ hpc = "push"
      BY <1>4 DEF Push
    <3>2. hi <= Len(client[hm])
      BY <3>1 DEF LoInv, Walking
    <3> QED
      BY <3>1, <3>2, AtClient
  <2>2. args' \in [Objects -> Seq(Messages)] /\ pushed' \in [Objects -> Seq(Messages)]
    BY <1>4, <2>1, <2>3 DEF Push, Typed
  <2> QED
    BY <1>4, <2>2 DEF Push, Typed, mvars
<1> QED
  BY <1>1, <1>2, <1>3, <1>4, <1>5 DEF HandlerNext

(* Every step keeps the types.                                             *)
LEMMA StepTyped ==
  ASSUME LoInv, LoNext
  PROVE  Typed'
<1>1. CASE UNCHANGED loVars
  BY <1>1 DEF LoInv, Typed, loVars, mvars, hvars
<1> QED
  BY <1>1, MachineTyped, PutTyped, HandlerTyped DEF LoNext, InNext

-----------------------------------------------------------------------------
(* The set of objects that refer to the server is finite, and has one more *)
(* or one less when an object is made or destroyed.                        *)
LEMMA OpenedCounts ==
  ASSUME LoInv, NEW o \in Objects
  PROVE  /\ life[o] = "new" =>
              Cardinality(Opened \cup {o}) = server.ref + 1
         /\ life[o] = "closing" =>
              Cardinality(Opened \ {o}) = server.ref - 1 /\ server.ref > 0
<1>1. IsFiniteSet(Opened) /\ Cardinality(Opened) = server.ref
  BY LoAssumption, FS_Subset DEF Opened, LoInv, Referred, ServerCounted
<1>2. ASSUME life[o] = "new"
      PROVE  Cardinality(Opened \cup {o}) = server.ref + 1
  <2>1. o \notin Opened
    BY <1>2 DEF Opened
  <2> QED
    BY <1>1, <2>1, FS_AddElement
<1>3. ASSUME life[o] = "closing"
      PROVE  Cardinality(Opened \ {o}) = server.ref - 1 /\ server.ref > 0
  <2>1. o \in Opened
    BY <1>3 DEF Opened
  <2>2. Cardinality(Opened \ {o}) = server.ref - 1 /\ IsFiniteSet(Opened \ {o})
    BY <1>1, <2>1, FS_RemoveElement
  <2>3. server.ref - 1 \in Nat /\ server.ref \in Nat
    BY <1>1, <2>2, FS_CardinalityType
  <2> QED
    BY <2>2, <2>3
<1> QED
  BY <1>2, <1>3

(* The count of the server follows the objects that are made and           *)
(* destroyed.                                                              *)
LEMMA StepReferred ==
  ASSUME LoInv, LoNext
  PROVE  Referred'
<1> SUFFICES /\ server'.ref = Cardinality(Opened')
             /\ server'.ref > 0 => server'.thread = "up"
             /\ server'.thread = "none" => hpc' = "idle"
             /\ \A o \in Objects : life'[o] = "stopping" => server'.ref = 0
  BY DEF Referred, ServerCounted, Opened
<1> Typed /\ Referred
  BY DEF LoInv
<1>1. ASSUME UNCHANGED <<life, server, hpc>> \/ (server.thread = "up" /\ UNCHANGED <<life, server>>)
      PROVE  /\ server'.ref = Cardinality(Opened')
             /\ server'.ref > 0 => server'.thread = "up"
             /\ server'.thread = "none" => hpc' = "idle"
             /\ \A o \in Objects : life'[o] = "stopping" => server'.ref = 0
  BY <1>1 DEF Referred, ServerCounted, Opened
<1>2. ASSUME NEW o \in Objects, New(o)
      PROVE  /\ server'.ref = Cardinality(Opened')
             /\ server'.ref > 0 => server'.thread = "up"
             /\ server'.thread = "none" => hpc' = "idle"
             /\ \A p \in Objects : life'[p] = "stopping" => server'.ref = 0
  <2>1. /\ life[o] = "new" /\ life' = [life EXCEPT ![o] = "open"]
        /\ server'.ref = server.ref + 1 /\ server'.thread = "up"
        /\ \A p \in Objects : life[p] # "stopping"
    BY <1>2 DEF New, VMFree
  <2>2. Opened' = Opened \cup {o}
    BY <2>1 DEF Opened, Typed
  <2>3. \A p \in Objects : life'[p] # "stopping"
    BY <2>1 DEF Typed
  <2> QED
    BY <2>1, <2>2, <2>3, OpenedCounts
<1>3. ASSUME NEW o \in Objects, Release(o)
      PROVE  /\ server'.ref = Cardinality(Opened')
             /\ server'.ref > 0 => server'.thread = "up"
             /\ server'.thread = "none" => hpc' = "idle"
             /\ \A p \in Objects : life'[p] = "stopping" => server'.ref = 0
  <2>1. /\ life[o] = "closing"
        /\ life' = [life EXCEPT ![o] = IF server.ref = 1 THEN "stopping" ELSE "dead"]
        /\ server'.ref = IF server.ref = 1 THEN 0 ELSE server.ref - 1
        /\ server'.thread = server.thread
    <3>1. CASE server.ref = 1
      BY <1>3, <3>1 DEF Release, Typed
    <3>2. CASE server.ref # 1
      <4>1. /\ life[o] = "closing" /\ life' = [life EXCEPT ![o] = "dead"]
            /\ server' = [server EXCEPT !.ref = @ - 1]
        BY <1>3, <3>2 DEF Release
      <4> QED
        BY <3>2, <4>1 DEF Typed
    <3> QED
      BY <3>1, <3>2
  <2>2. Opened' = Opened \ {o}
    BY <2>1 DEF Opened, Typed
  <2>3. server.ref > 0 /\ Cardinality(Opened') = server.ref - 1 /\ server.thread = "up"
    BY <2>1, <2>2, OpenedCounts DEF Referred, ServerCounted
  <2>4. \A p \in Objects : life'[p] = "stopping" => server.ref = 1
    BY <2>1, <2>3 DEF Typed, Referred
  <2> QED
    BY <2>1, <2>3, <2>4
<1>4. ASSUME NEW o \in Objects, Stop(o)
      PROVE  /\ server'.ref = Cardinality(Opened')
             /\ server'.ref > 0 => server'.thread = "up"
             /\ server'.thread = "none" => hpc' = "idle"
             /\ \A p \in Objects : life'[p] = "stopping" => server'.ref = 0
  <2>1. /\ life[o] = "stopping" /\ life' = [life EXCEPT ![o] = "dead"]
        /\ server'.ref = 0 /\ server'.thread = "none" /\ hpc = "idle" /\ hpc' = hpc
    BY <1>4 DEF Stop, NoServer, hvars
  <2>2. Opened' = Opened /\ server.ref = 0
    BY <2>1 DEF Opened, Typed, Referred
  <2> QED
    BY <2>1, <2>2 DEF Referred, ServerCounted, Opened
<1>5. ASSUME NEW o \in Objects, NewFails(o) \/ Close(o)
      PROVE  /\ server'.ref = Cardinality(Opened')
             /\ server'.ref > 0 => server'.thread = "up"
             /\ server'.thread = "none" => hpc' = "idle"
             /\ \A p \in Objects : life'[p] = "stopping" => server'.ref = 0
  <2>1. /\ UNCHANGED <<server, hpc>>
        /\ \/ life[o] = "new" /\ life' = [life EXCEPT ![o] = "dead"]
           \/ life[o] = "open" /\ life' = [life EXCEPT ![o] = "closing"]
    BY <1>5 DEF NewFails, Close, Runs, mvars, hvars
  <2>2. Opened' = Opened
    BY <2>1, SMTT(30) DEF Opened, Typed
  <2>3. \A p \in Objects : life'[p] = "stopping" => life[p] = "stopping"
    BY <2>1 DEF Typed
  <2> QED
    BY <2>1, <2>2, <2>3 DEF Referred, ServerCounted, Opened
<1>8. ASSUME NEW o \in Objects, NEW k \in Methods, AddRaces(o, k)
      PROVE  /\ server'.ref = Cardinality(Opened')
             /\ server'.ref > 0 => server'.thread = "up"
             /\ server'.thread = "none" => hpc' = "idle"
             /\ \A p \in Objects : life'[p] = "stopping" => server'.ref = 0
  <2>1. UNCHANGED <<life, server>> /\ hpc' = "idle"
    BY <1>8 DEF AddRaces, Return
  <2> QED
    BY <2>1 DEF Referred, ServerCounted, Opened
<1>9. CASE \E o \in Objects : \/ Wait(o) \/ RecvClears(o) \/ Recv(o) \/ Get(o)
                              \/ \E k \in Methods : Add(o, k)
  BY <1>1, <1>9 DEF Wait, RecvClears, Recv, Get, Add, mvars, hvars
<1>10. CASE Put
  BY <1>1, <1>10 DEF Put, mvars, hvars
<1>6. CASE HandlerNext \/ \E k \in Methods : \E m \in Seq(Int) : Handle(k, m)
  BY <1>1, <1>6
     DEF HandlerNext, Handle, Each, EachDone, Count, Increment, Counted, Lock, Push, Broadcast,
         TouchFreed, Up, mvars
<1>7. CASE UNCHANGED loVars
  BY <1>1, <1>7 DEF loVars, mvars, hvars
<1> QED
  BY <1>2, <1>3, <1>4, <1>5, <1>6, <1>7, <1>8, <1>9, <1>10 DEF LoNext, InNext

(* Lists of clients grow by objects that run and are not in them, and are  *)
(* emptied; only objects that are in one get messages.                     *)
LEMMA StepListed ==
  ASSUME LoInv, LoNext
  PROVE  Listed'
<1> Typed /\ Listed
  BY DEF LoInv
<1>1. ASSUME UNCHANGED <<life, client, args, got, pushed>>
      PROVE  Listed'
  BY <1>1 DEF Listed
<1>2. ASSUME NEW o \in Objects, New(o) \/ NewFails(o) \/ Close(o)
      PROVE  Listed'
  <2>1. /\ life' = [life EXCEPT ![o] = life'[o]] /\ life'[o] # "new"
        /\ UNCHANGED <<client, args, got, pushed>>
    BY <1>2 DEF New, NewFails, Close, mvars, ovars, Typed
  <2>2. \A p \in Objects : life'[p] = "new" => life[p] = "new"
    BY <2>1 DEF Typed
  <2>3. \A k \in Methods : \A i \in 1 .. Len(client[k]) : client[k][i] \in Objects
    BY DEF Typed
  <2> QED
    BY <2>1, <2>2, <2>3 DEF Listed
<1>3. ASSUME NEW o \in Objects, NEW k \in Methods, Add(o, k) \/ AddRaces(o, k)
      PROVE  Listed'
  <2>1. /\ client[k] \in Seq(Objects) /\ life[o] # "new"
        /\ client' = [client EXCEPT ![k] = IF Contains(@, o) THEN @ ELSE Append(@, o)]
        /\ UNCHANGED <<life, ovars>>
    BY <1>3 DEF Add, AddRaces, Client, Runs, Typed
  <2>2. /\ \A i, j \in 1 .. Len(client'[k]) : client'[k][i] = client'[k][j] => i = j
        /\ \A i \in 1 .. Len(client'[k]) : life[client'[k][i]] # "new"
    <3>1. CASE Contains(client[k], o)
      BY <2>1, <3>1, SMTT(30) DEF Listed, Typed
    <3>2. CASE ~Contains(client[k], o)
      <4>1. client'[k] = Append(client[k], o)
        BY <2>1, <3>2 DEF Typed
      <4>2. \A i \in 1 .. Len(client[k]) : client[k][i] # o
        BY <3>2 DEF Contains
      <4>3. \A i \in 1 .. Len(client'[k]) :
               \/ i \in 1 .. Len(client[k]) /\ client'[k][i] = client[k][i]
               \/ i = Len(client[k]) + 1 /\ client'[k][i] = o
        BY <2>1, <4>1, Appended
      <4> QED
        BY <2>1, <4>2, <4>3 DEF Listed
    <3> QED
      BY <3>1, <3>2
  <2>3. \A j \in Methods : j # k => client'[j] = client[j]
    BY <2>1 DEF Typed
  <2> QED
    BY <2>1, <2>2, <2>3 DEF Listed, ovars
<1>4. ASSUME NEW o \in Objects, Recv(o)
      PROVE  Listed'
  <2>1. /\ life[o] = "open" /\ UNCHANGED <<life, client, pushed>>
        /\ \A p \in Objects : p # o => args'[p] = args[p] /\ got'[p] = got[p]
    BY <1>4 DEF Recv, Runs, mvars, Typed, LoInv, Queued
  <2> QED
    BY <2>1 DEF Listed
<1>5. ASSUME NEW o \in Objects, Release(o)
      PROVE  Listed'
  <2>1. /\ UNCHANGED <<got, pushed>>
        /\ \A p \in Objects : p # o => args'[p] = args[p] /\ life'[p] = life[p]
        /\ life'[o] \in {"stopping", "dead"}
    BY <1>5 DEF Release, Typed
  <2>4. \A k \in Methods : client'[k] = client[k] \/ client'[k] = <<>>
    BY <1>5 DEF Release
  <2>2. \A p \in Objects : life'[p] = "new" => life[p] = "new" /\ p # o
    BY <2>1
  <2>3. ASSUME NEW k \in Methods
        PROVE  /\ \A i, j \in 1 .. Len(client'[k]) :
                    client'[k][i] = client'[k][j] => i = j
               /\ \A i \in 1 .. Len(client'[k]) : life'[client'[k][i]] # "new"
    <3>1. CASE client'[k] = <<>>
      BY <3>1
    <3>2. CASE client'[k] = client[k]
      <4>1. \A i \in 1 .. Len(client[k]) : client[k][i] \in Objects
        BY DEF Typed
      <4> QED
        BY <2>2, <3>2, <4>1 DEF Listed
    <3> QED
      BY <2>4, <3>1, <3>2
  <2> QED
    BY <2>1, <2>2, <2>3 DEF Listed
<1>6. ASSUME NEW o \in Objects, Stop(o)
      PROVE  Listed'
  BY <1>6 DEF Stop, Listed, Typed, ovars
<1>7. ASSUME Push
      PROVE  Listed'
  <2>1. mref[hm] > 0 /\ hpc = "push"
    BY <1>7 DEF Push
  <2>2. At \in Objects /\ life[At] # "new"
    BY <2>1, AtClient DEF LoInv, Walking
  <2>3. /\ UNCHANGED <<life, client, got>>
        /\ \A p \in Objects : p # At => args'[p] = args[p] /\ pushed'[p] = pushed[p]
    BY <1>7 DEF Push, mvars, Typed
  <2> QED
    BY <2>2, <2>3 DEF Listed
<1>8. CASE \/ UNCHANGED loVars
           \/ \E o \in Objects : Wait(o) \/ RecvClears(o) \/ Get(o)
           \/ Put
           \/ \E k \in Methods : \E m \in Seq(Int) : Handle(k, m)
  BY <1>1, <1>8 DEF loVars, Wait, RecvClears, Get, Put, Handle, mvars, ovars
<1>9. CASE \/ Each \/ EachDone \/ Count \/ Increment \/ Counted \/ Lock \/ Broadcast
           \/ TouchFreed
  BY <1>1, <1>9
     DEF Each, EachDone, Count, Increment, Counted, Lock, Broadcast, TouchFreed, mvars, ovars
<1> QED
  BY <1>2, <1>3, <1>4, <1>5, <1>6, <1>7, <1>8, <1>9 DEF LoNext, InNext, HandlerNext

(* The handler's steps: each takes it to where Walking says.               *)
LEMMA HandlerWalking ==
  ASSUME LoInv, \/ HandlerNext
                \/ \E k \in Methods : \E m \in Seq(Int) : Handle(k, m)
  PROVE  Walking'
<1> Typed /\ Walking /\ Known
  BY DEF LoInv
<1>1. ASSUME NEW k \in Methods, NEW m \in Seq(Int), Handle(k, m)
      PROVE  Walking'
  <2>1. /\ hm' = k /\ mref' = mref /\ mref[k] > 0 /\ hpc' = "each" /\ pushed' = pushed
        /\ last' = last + 1 /\ last \in Nat
    BY <1>1, LoAssumption DEF Handle, mvars, ovars, Typed
  <2>2. \A o \in Objects : ~Contains(pushed[o], last + 1)
    <3>1. \A o \in Objects : \A a \in 1 .. Len(pushed[o]) : pushed[o][a] <= last
      BY DEF Known
    <3> QED
      BY <2>1, <3>1 DEF Contains
  <2> QED
    BY <2>1, <2>2 DEF Walking
<1>2. ASSUME Each
      PROVE  Walking'
  <2>1. /\ hpc = "each" /\ hpc' = "count" /\ mref[hm] > 0 /\ hi <= Len(client[hm])
        /\ UNCHANGED <<client, mref, hm, hi, last, body, pushed, life>>
    BY <1>2 DEF Each, mvars, ovars
  <2> QED
    BY <2>1 DEF Walking, Before
<1>3. ASSUME Count \/ Increment \/ Counted \/ Lock
      PROVE  Walking'
  <2>1. /\ mref[hm] > 0
        /\ \/ hpc = "count" /\ hpc' = "increment" /\ hj <= Len(body[last]) /\ hj' = hj
           \/ hpc = "increment" /\ hpc' = "count"
           \/ hpc = "count" /\ hpc' = "lock"
           \/ hpc = "lock" /\ hpc' = "push"
        /\ UNCHANGED <<client, mref, hm, hi, last, body, pushed, life>>
    BY <1>3 DEF Count, Increment, Counted, Lock, mvars, ovars
  <2> QED
    BY <2>1 DEF Walking, Before
<1>4. ASSUME Push
      PROVE  Walking'
  <2>1. /\ hpc = "push" /\ hpc' = "broadcast" /\ mref[hm] > 0
        /\ UNCHANGED <<client, mref, hm, hi, last, life>>
    BY <1>4 DEF Push, mvars
  <2>2. hi \in 1 .. Len(client[hm]) /\ hm \in Methods /\ client[hm][hi] = At
    BY <2>1, AtClient DEF Walking, At
  <2>3. \A o \in Objects : o # At => pushed'[o] = pushed[o]
    BY <1>4 DEF Push, Typed
  <2>4. ASSUME NEW o \in Objects, Contains(pushed'[o], last)
        PROVE  Before(o)'
    <3>1. CASE o = At
      BY <2>1, <2>2, <3>1 DEF Before
    <3>2. CASE o # At
      <4>1. Before(o)
        BY <2>1, <2>3, <2>4, <3>2 DEF Walking
      <4> QED
        BY <2>1, <4>1 DEF Before
    <3> QED
      BY <3>1, <3>2
  <2> QED
    BY <2>1, <2>4 DEF Walking
<1>5. ASSUME Broadcast
      PROVE  Walking'
  <2>1. /\ hpc = "broadcast" /\ hpc' = "each" /\ mref[hm] > 0 /\ hi' = hi + 1
        /\ UNCHANGED <<client, mref, hm, last, pushed, life>>
    BY <1>5 DEF Broadcast, mvars, ovars
  <2>2. \A o : Before(o) => Before(o)'
    BY <2>1 DEF Before, Typed
  <2> QED
    BY <2>1, <2>2 DEF Walking
<1>6. ASSUME EachDone \/ TouchFreed
      PROVE  Walking'
  BY <1>6 DEF EachDone, TouchFreed, Return, Walking
<1> QED
  BY <1>1, <1>2, <1>3, <1>4, <1>5, <1>6 DEF HandlerNext

(* While the virtual machine runs, the method that is handled exists; an   *)
(* object that is added to it comes after the handler's place.             *)
LEMMA StepWalking ==
  ASSUME LoInv, LoNext
  PROVE  Walking'
<1> Typed /\ Walking
  BY DEF LoInv
<1>1. ASSUME UNCHANGED <<life, client, mref, hm, hpc, hi, hj, last, body, pushed>>
      PROVE  Walking'
  BY <1>1 DEF Walking, Before
<1>2. ASSUME UNCHANGED <<client, mref, hm, hpc, hi, hj, last, body, pushed>>,
             \A o \in Objects : life[o] = "stopping" => life'[o] = "stopping"
      PROVE  Walking'
  BY <1>2 DEF Walking, Before
<1>3. ASSUME NEW o \in Objects, NEW k \in Methods, Add(o, k)
      PROVE  Walking'
  <2>1. /\ UNCHANGED <<life, hm, hpc, hi, hj, last, body, pushed>> /\ VMFree
        /\ mref' = [mref EXCEPT ![k] = @ + 1]
        /\ client' = [client EXCEPT ![k] = IF Contains(@, o) THEN @ ELSE Append(@, o)]
    BY <1>3 DEF Add, Client, Runs, hvars, ovars
  <2> SUFFICES ASSUME hpc # "idle"
               PROVE  Walking'
    BY <2>1 DEF Walking
  <2>2. hm \in Methods /\ mref[hm] > 0 /\ mref'[hm] > 0
    <3>1. hm \in Methods /\ mref[hm] # 0
      BY <2>1 DEF Walking, VMFree
    <3>2. mref[hm] \in Nat /\ mref'[hm] \in {mref[hm], mref[hm] + 1}
      BY <2>1, <3>1 DEF Typed
    <3> QED
      BY <3>1, <3>2
  <2>3. client[hm] \in Seq(Objects) /\ client'[hm] \in {client[hm], Append(client[hm], o)}
    <3>1. client \in [Methods -> Seq(Objects)]
      BY DEF Typed
    <3> QED
      BY <2>1, <2>2, <3>1
  <2>4. /\ Len(client[hm]) \in Nat /\ Len(client[hm]) <= Len(client'[hm])
        /\ Len(client'[hm]) \in Nat
        /\ \A i \in 1 .. Len(client[hm]) : client'[hm][i] = client[hm][i]
    BY <2>3, Appended
  <2>5. \A p : Before(p) => Before(p)'
    BY <2>1, <2>4 DEF Before
  <2>6. hi \in Nat
    BY DEF Typed
  <2>7. hpc # "each" => hi <= Len(client'[hm])
    BY <2>2, <2>4, <2>6 DEF Walking
  <2> QED
    BY <2>1, <2>2, <2>5, <2>7 DEF Walking
<1>4. ASSUME NEW o \in Objects, Release(o)
      PROVE  Walking'
  <2>1. UNCHANGED <<hm, hpc, hi, hj, last, body, pushed>> /\ life[o] = "closing"
    BY <1>4 DEF Release, hvars
  <2>2. CASE server.ref # 1
    <3>1. life' = [life EXCEPT ![o] = "dead"] /\ UNCHANGED <<client, mref>>
      BY <1>4, <2>2 DEF Release
    <3>2. \A p \in Objects : life[p] = "stopping" => life'[p] = "stopping"
      BY <2>1, <3>1 DEF Typed
    <3> QED
      BY <1>2, <2>1, <3>1, <3>2
  <2>3. CASE server.ref = 1
    <3>1. /\ life'[o] = "stopping"
          /\ mref' = [k \in Methods |-> Dec(mref[k])]
          /\ client' = [k \in Methods |-> IF mref[k] <= 1 THEN <<>> ELSE client[k]]
      BY <1>4, <2>3 DEF Release, Typed
    <3> SUFFICES ASSUME hpc # "idle"
                 PROVE  Walking'
      BY <2>1 DEF Walking
    <3>2. hm \in Methods /\ mref[hm] \in Nat
      BY DEF Walking, Typed
    <3>3. mref'[hm] > 0 => mref[hm] > 0 /\ client'[hm] = client[hm]
      BY <3>1, <3>2 DEF Dec
    <3>4. mref'[hm] > 0 => \A p : Before(p) => Before(p)'
      BY <2>1, <3>3 DEF Before
    <3> QED
      BY <2>1, <3>1, <3>2, <3>3, <3>4 DEF Walking
  <2> QED
    BY <2>2, <2>3
<1>5. ASSUME NEW o \in Objects, NEW k \in Methods, AddRaces(o, k)
      PROVE  Walking'
  BY <1>5 DEF AddRaces, Return, Walking
<1>6. ASSUME NEW o \in Objects, New(o) \/ NewFails(o) \/ Close(o)
      PROVE  Walking'
  <2>1. /\ UNCHANGED <<client, mref, hvars, pushed>>
        /\ life[o] \in {"new", "open"}
        /\ \E x : life' = [life EXCEPT ![o] = x]
    BY <1>6 DEF New, NewFails, Close, Runs, mvars, ovars
  <2>2. \A p \in Objects : life[p] = "stopping" => life'[p] = "stopping"
    BY <2>1 DEF Typed
  <2> QED
    BY <1>2, <2>1, <2>2 DEF hvars
<1>7. CASE \/ UNCHANGED loVars
           \/ Put
           \/ \E o \in Objects : Wait(o) \/ RecvClears(o) \/ Recv(o) \/ Get(o)
  BY <1>1, <1>7 DEF loVars, Put, Wait, RecvClears, Recv, Get, mvars, hvars, ovars
<1>8. ASSUME NEW o \in Objects, Stop(o)
      PROVE  Walking'
  BY <1>8 DEF Stop, Walking, hvars
<1> QED
  BY <1>3, <1>4, <1>5, <1>6, <1>7, <1>8, HandlerWalking DEF LoNext, InNext

(* What the handler pushes is newer than all the object had.               *)
LEMMA PushedIsNew ==
  ASSUME LoInv, Push
  PROVE  /\ At \in Objects /\ last \in Messages
         /\ args' = [args EXCEPT ![At] = Append(@, last)]
         /\ pushed' = [pushed EXCEPT ![At] = Append(@, last)]
         /\ \A a \in 1 .. Len(pushed[At]) : pushed[At][a] < last
<1>1. hpc = "push" /\ mref[hm] > 0
  BY DEF Push
<1>2. /\ hm \in Methods /\ hi \in 1 .. Len(client[hm]) /\ client[hm][hi] = At
      /\ At \in Objects
  BY <1>1, AtClient DEF LoInv, Walking, At
<1>3. last \in Messages
  BY <1>1, LoAssumption DEF LoInv, Walking, Typed, Messages
<1>4. ~Contains(pushed[At], last)
  <2>1. ASSUME Before(At)
        PROVE  FALSE
    <3>1. PICK i \in 1 .. Len(client[hm]) : client[hm][i] = At /\ i < hi
      BY <1>1, <2>1 DEF Before
    <3>2. i = hi
      BY <1>2, <3>1 DEF LoInv, Listed
    <3> QED
      BY <1>2, <3>1, <3>2
  <2> QED
    BY <1>1, <1>2, <2>1 DEF LoInv, Walking
<1>5. pushed[At] \in Seq(Messages) /\ \A a \in 1 .. Len(pushed[At]) : pushed[At][a] <= last
  BY <1>2 DEF LoInv, Typed, Known
<1>6. ASSUME NEW a \in 1 .. Len(pushed[At])
      PROVE  pushed[At][a] < last
  <2>1. pushed[At][a] \in Messages /\ pushed[At][a] # last
    BY <1>4, <1>5 DEF Contains
  <2> QED
    BY <1>3, <1>5, <2>1, LoAssumption DEF Messages
<1> QED
  BY <1>2, <1>3, <1>6 DEF Push

(* The steps that leave the queues of the objects as they are.             *)
Quiet ==
  \/ UNCHANGED loVars
  \/ Put
  \/ \E o \in Objects : \/ New(o) \/ NewFails(o) \/ Wait(o) \/ RecvClears(o) \/ Close(o) \/ Stop(o)
                        \/ \E k \in Methods : Add(o, k) \/ AddRaces(o, k)
  \/ Each \/ EachDone \/ Count \/ Increment \/ Counted \/ Lock \/ Broadcast \/ TouchFreed
  \/ \E k \in Methods : \E m \in Seq(Int) : Handle(k, m)

(* They move nothing between the queues, and at most receive a message.    *)
LEMMA QuietQueues ==
  ASSUME Typed, Quiet
  PROVE  /\ UNCHANGED <<args, curr, got, pushed>> /\ last' \in Nat /\ last <= last'
         /\ rel' = rel \/ rel' = <<>>
         /\ body' = body \/ (last' = last + 1 /\ \E m : body' = [body EXCEPT ![last + 1] = m])
<1>1. last \in Nat
  BY LoAssumption DEF Typed
<1>2. CASE \/ UNCHANGED loVars \/ Put
           \/ \E o \in Objects : \/ New(o) \/ NewFails(o) \/ Wait(o) \/ RecvClears(o) \/ Close(o)
                                 \/ Stop(o) \/ \E k \in Methods : Add(o, k) \/ AddRaces(o, k)
  <2>1. UNCHANGED <<args, curr, got, pushed, last, body>> /\ (rel' = rel \/ rel' = <<>>)
    BY <1>2
       DEF loVars, Put, New, NewFails, Wait, RecvClears, Close, Stop, Add, AddRaces, ovars, hvars
  <2> QED
    BY <1>1, <2>1
<1>3. CASE \/ Each \/ EachDone \/ Count \/ Increment \/ Counted \/ Lock \/ Broadcast
           \/ TouchFreed
  <2>1. UNCHANGED <<args, curr, got, pushed, last, body, rel>>
    BY <1>3 DEF Each, EachDone, Count, Increment, Counted, Lock, Broadcast, TouchFreed, ovars
  <2> QED
    BY <1>1, <2>1
<1>4. CASE \E k \in Methods : \E m \in Seq(Int) : Handle(k, m)
  <2>1. PICK k \in Methods, m \in Seq(Int) : Handle(k, m)
    BY <1>4
  <2>2. UNCHANGED <<args, curr, got, pushed, rel>> /\ last' = last + 1
        /\ body' = [body EXCEPT ![last + 1] = m]
    BY <2>1 DEF Handle, ovars
  <2>3. \E x : body' = [body EXCEPT ![last + 1] = x]
    BY <2>2
  <2>4. last' \in Nat /\ last <= last'
    BY <1>1, <2>2
  <2> QED
    BY <2>2, <2>3, <2>4, Zenon
<1> QED
  BY <1>2, <1>3, <1>4 DEF Quiet

(* The other steps push, take, get or drop messages.                       *)
LEMMA LoNextCases ==
  ASSUME LoNext
  PROVE  Quiet \/ Push \/ \E o \in Objects : Recv(o) \/ Get(o) \/ Release(o)
BY DEF LoNext, InNext, HandlerNext, Quiet

(* Where an element is in a sequence, and where it stays.                  *)
LEMMA ContainsAppend ==
  ASSUME NEW S, NEW s \in Seq(S), NEW e \in S, NEW x
  PROVE  /\ Contains(s, x) => Contains(Append(s, e), x)
         /\ Contains(Append(s, e), x) => Contains(s, x) \/ x = e
         /\ Contains(Append(s, e), e)
<1>1. /\ Len(Append(s, e)) = Len(s) + 1 /\ Len(s) \in Nat
      /\ \A k \in 1 .. Len(s) : Append(s, e)[k] = s[k]
      /\ Append(s, e)[Len(s) + 1] = e
      /\ \A k \in 1 .. Len(Append(s, e)) :
           \/ k \in 1 .. Len(s) /\ Append(s, e)[k] = s[k]
           \/ k = Len(s) + 1 /\ Append(s, e)[k] = e
  BY Appended
<1>2. \A k \in 1 .. Len(s) : k \in 1 .. Len(Append(s, e))
  BY <1>1
<1>3. Len(s) + 1 \in 1 .. Len(Append(s, e))
  BY <1>1
<1> QED
  BY <1>1, <1>2, <1>3 DEF Contains

(* A release that is under way is of an argument the message still has     *)
(* after any step.                                                         *)
LEMMA RelKnown ==
  ASSUME LoInv, rel # <<>>, body' = body \/ (last' = last + 1 /\ \E m : body' = [body EXCEPT ![last + 1] = m])
  PROVE  rel[2] \in 1 .. Len(body'[rel[1]])
<1>1. PICK o \in Objects : Contains(pushed[o], rel[1])
  BY DEF LoInv, Known
<1>2. rel[1] \in Messages /\ rel[1] <= last /\ last \in Nat
  <2>1. PICK a \in 1 .. Len(pushed[o]) : pushed[o][a] = rel[1]
    BY <1>1 DEF Contains
  <2>2. pushed[o][a] <= last
    BY <2>1 DEF LoInv, Known
  <2>3. last \in Nat /\ pushed[o] \in Seq(Messages)
    BY LoAssumption DEF LoInv, Typed
  <2> QED
    BY <2>1, <2>2, <2>3
<1>3. rel[1] # last + 1
  BY <1>2 DEF Messages
<1>4. body'[rel[1]] = body[rel[1]]
  BY <1>2, <1>3 DEF LoInv, Typed
<1> QED
  BY <1>4 DEF LoInv, Known

(* Nothing older than what is received appears anywhere.                   *)
LEMMA StepKnown ==
  ASSUME LoInv, LoNext
  PROVE  Known'
<1> Typed /\ Known
  BY DEF LoInv
<1>0. last \in Nat
  BY LoAssumption DEF Typed
<1>1. CASE Quiet
  <2>1. /\ UNCHANGED <<args, curr, got, pushed>> /\ last' \in Nat /\ last <= last'
        /\ rel' = rel \/ rel' = <<>>
        /\ body' = body \/ (last' = last + 1 /\ \E m : body' = [body EXCEPT ![last + 1] = m])
    BY <1>1, QuietQueues
  <2>2. \A o \in Objects : pushed[o] \in Seq(Messages)
    BY DEF Typed
  <2>3. \A x \in Messages : x <= last => x <= last'
    BY <1>0, <2>1 DEF Messages
  <2>4. rel' # <<>> => rel[2] \in 1 .. Len(body'[rel[1]])
    BY <2>1, RelKnown
  <2> QED
    BY <2>1, <2>2, <2>3, <2>4 DEF Known
<1>2. CASE Push
  <2>1. \A o \in Objects : /\ args[o] \in Seq(Messages) /\ pushed[o] \in Seq(Messages)
                           /\ o # At => args'[o] = args[o] /\ pushed'[o] = pushed[o]
    BY <1>2, PushedIsNew DEF Typed
  <2>2. /\ At \in Objects /\ last \in Messages /\ UNCHANGED <<last, curr, rel, body>>
        /\ args'[At] = Append(args[At], last) /\ pushed'[At] = Append(pushed[At], last)
    BY <1>2, PushedIsNew DEF Push, Typed
  <2>3. /\ \A a \in 1 .. Len(args'[At]) :
             \/ args'[At][a] = last
             \/ a \in 1 .. Len(args[At]) /\ args'[At][a] = args[At][a]
        /\ \A a \in 1 .. Len(pushed'[At]) :
             \/ pushed'[At][a] = last
             \/ a \in 1 .. Len(pushed[At]) /\ pushed'[At][a] = pushed[At][a]
    BY <2>1, <2>2, Appended
  <2>4. /\ \A x : Contains(pushed[At], x) => Contains(pushed'[At], x)
        /\ Contains(pushed'[At], last)
    BY <2>1, <2>2, ContainsAppend
  <2>5. /\ \A a \in 1 .. Len(pushed'[At]) : pushed'[At][a] <= last
        /\ \A a \in 1 .. Len(args'[At]) : Contains(pushed'[At], args'[At][a])
    BY <1>0, <2>2, <2>3, <2>4 DEF Known
  <2>6. \A o \in Objects : \A x : Contains(pushed[o], x) => Contains(pushed'[o], x)
    BY <2>1, <2>4
  <2> QED
    BY <2>1, <2>2, <2>5, <2>6 DEF Known
<1>3. ASSUME NEW o \in Objects, Recv(o)
      PROVE  Known'
  <2>1. /\ args[o] \in Seq(Messages) /\ args[o] # <<>>
        /\ UNCHANGED <<pushed, last, body, rel>>
        /\ args'[o] = Tail(args[o]) /\ curr'[o] = <<Head(args[o]), 0>>
        /\ \A p \in Objects : p # o => args'[p] = args[p] /\ curr'[p] = curr[p]
    BY <1>3 DEF Recv, Typed, hvars
  <2>2. /\ Head(args[o]) = args[o][1] /\ 1 \in 1 .. Len(args[o])
        /\ \A a \in 1 .. Len(Tail(args[o])) :
             Tail(args[o])[a] = args[o][a + 1] /\ a + 1 \in 1 .. Len(args[o])
    BY <2>1, Taken
  <2>3. \A a \in 1 .. Len(args[o]) : Contains(pushed[o], args[o][a])
    BY DEF Known
  <2>4. \A a \in 1 .. Len(args'[o]) : Contains(pushed[o], args'[o][a])
    BY <2>1, <2>2, <2>3
  <2>5. Contains(pushed[o], curr'[o][1])
    BY <2>1, <2>2, <2>3
  <2> QED
    BY <2>1, <2>4, <2>5 DEF Known
<1>4. ASSUME NEW o \in Objects, Get(o)
      PROVE  Known'
  <2>1. /\ UNCHANGED <<args, pushed, last, body>> /\ curr[o] # <<>>
        /\ \A p \in Objects : p # o => curr'[p] = curr[p]
        /\ curr'[o] # <<>> => curr'[o][1] = curr[o][1]
        /\ rel'[1] = curr[o][1] /\ rel'[2] = curr[o][2] + 1
    BY <1>4 DEF Get, Left, Typed, hvars
  <2>2. rel'[2] \in 1 .. Len(body[rel'[1]])
    <3>1. curr[o] \in Messages \X Nat
      BY <2>1 DEF Typed
    <3>2. body[curr[o][1]] \in Seq(Int) /\ curr[o][2] \in Nat /\ curr[o][2] < Len(body[curr[o][1]])
      BY <1>4, <3>1 DEF Get, Left, Typed
    <3> QED
      BY <2>1, <3>2
  <2>3. Contains(pushed[o], curr[o][1])
    BY <2>1 DEF Known
  <2> QED
    BY <2>1, <2>2, <2>3 DEF Known
<1>5. ASSUME NEW o \in Objects, Release(o)
      PROVE  Known'
  <2>1. /\ UNCHANGED <<pushed, last, body, rel>> /\ args'[o] = <<>> /\ curr'[o] = <<>>
        /\ \A p \in Objects : p # o => args'[p] = args[p] /\ curr'[p] = curr[p]
    BY <1>5 DEF Release, Typed, hvars
  <2> QED
    BY <2>1 DEF Known
<1> QED
  BY <1>1, <1>2, <1>3, <1>4, <1>5, LoNextCases

(* Only a push changes what was pushed, and it pushes the newest.          *)
LEMMA StepSorted ==
  ASSUME LoInv, LoNext
  PROVE  Sorted'
<1> Typed /\ Sorted
  BY DEF LoInv
<1>1. CASE Push
  <2>1. \A o \in Objects : o # At => pushed'[o] = pushed[o]
    BY <1>1, PushedIsNew DEF Typed
  <2>2. /\ At \in Objects /\ last \in Messages /\ pushed[At] \in Seq(Messages)
        /\ pushed'[At] = Append(pushed[At], last)
        /\ \A a \in 1 .. Len(pushed[At]) : pushed[At][a] < last
    BY <1>1, PushedIsNew DEF Typed
  <2>3. ASSUME NEW a \in 1 .. Len(pushed'[At]), NEW b \in 1 .. Len(pushed'[At]), a < b
        PROVE  pushed'[At][a] < pushed'[At][b]
    <3>1. a \in 1 .. Len(pushed[At]) /\ pushed'[At][a] = pushed[At][a]
      BY <2>2, <2>3, Appended
    <3>2. \/ b \in 1 .. Len(pushed[At]) /\ pushed'[At][b] = pushed[At][b]
          \/ pushed'[At][b] = last
      BY <2>2, <2>3, Appended
    <3> QED
      BY <2>2, <2>3, <3>1, <3>2 DEF Sorted
  <2> QED
    BY <2>1, <2>3 DEF Sorted
<1>2. CASE ~Push
  <2>1. UNCHANGED pushed
    BY <1>2, LoNextCases, QuietQueues DEF Recv, Get, Release
  <2> QED
    BY <2>1 DEF Sorted
<1> QED
  BY <1>1, <1>2

(* What is taken from the front of the queue goes to the end of what was   *)
(* received.                                                               *)
LEMMA HandedOver ==
  ASSUME NEW S, NEW g \in Seq(S), NEW s \in Seq(S), s # <<>>
  PROVE  Append(g, Head(s)) \o Tail(s) = g \o s
<1> DEFINE t == Append(g, Head(s))
<1>1. /\ Head(s) \in S /\ Tail(s) \in Seq(S) /\ Len(s) \in Nat \ {0}
      /\ Len(Tail(s)) = Len(s) - 1 /\ Head(s) = s[1]
      /\ \A k \in 1 .. Len(Tail(s)) : Tail(s)[k] = s[k + 1]
  BY Taken
<1>2. /\ t \in Seq(S) /\ Len(t) = Len(g) + 1 /\ Len(g) \in Nat
      /\ \A k \in 1 .. Len(g) : t[k] = g[k]
      /\ t[Len(g) + 1] = s[1]
  BY <1>1, Appended
<1> HIDE DEF t
<1>3. /\ t \o Tail(s) \in Seq(S) /\ Len(t \o Tail(s)) = Len(t) + Len(Tail(s))
      /\ g \o s \in Seq(S) /\ Len(g \o s) = Len(g) + Len(s)
  BY <1>1, <1>2, ConcatProperties
<1>4. /\ \A i \in 1 .. Len(t) + Len(Tail(s)) :
           (t \o Tail(s))[i] = IF i <= Len(t) THEN t[i] ELSE Tail(s)[i - Len(t)]
      /\ \A i \in 1 .. Len(g) + Len(s) :
           (g \o s)[i] = IF i <= Len(g) THEN g[i] ELSE s[i - Len(g)]
  BY <1>1, <1>2, ConcatProperties
<1>5. ASSUME NEW i \in 1 .. Len(g) + Len(s)
      PROVE  (t \o Tail(s))[i] = (g \o s)[i]
  <2>1. CASE i <= Len(g)
    BY <1>1, <1>2, <1>4, <2>1
  <2>2. CASE i = Len(g) + 1
    BY <1>1, <1>2, <1>4, <2>2
  <2>3. CASE i > Len(g) + 1
    <3>1. i - Len(t) \in 1 .. Len(Tail(s)) /\ (i - Len(t)) + 1 = i - Len(g)
      BY <1>1, <1>2, <2>3
    <3>2. (t \o Tail(s))[i] = Tail(s)[i - Len(t)]
      <4>1. i \in 1 .. Len(t) + Len(Tail(s)) /\ ~(i <= Len(t))
        BY <1>1, <1>2, <2>3
      <4> QED
        BY <1>4, <4>1
    <3>3. Tail(s)[i - Len(t)] = s[i - Len(g)]
      <4> DEFINE j == i - Len(t)
      <4>1. j \in 1 .. Len(Tail(s)) /\ j + 1 = i - Len(g)
        BY <3>1
      <4>2. Tail(s)[j] = s[j + 1]
        BY <1>1, <4>1
      <4> QED
        BY <4>1, <4>2
    <3>4. (g \o s)[i] = s[i - Len(g)]
      BY <1>1, <1>2, <1>4, <2>3
    <3> QED
      BY <3>2, <3>3, <3>4
  <2> QED
    BY <1>2, <2>1, <2>2, <2>3
<1>6. Len(t \o Tail(s)) = Len(g \o s)
  BY <1>1, <1>2, <1>3
<1> HIDE DEF t
<1>7. t \o Tail(s) = g \o s
  BY <1>1, <1>2, <1>3, <1>5, <1>6, SeqEqual
<1> QED
  BY <1>7 DEF t

(* What is queued comes after what was received and queued.                *)
LEMMA AppendedLater ==
  ASSUME NEW S, NEW g \in Seq(S), NEW s \in Seq(S), NEW e \in S
  PROVE  g \o Append(s, e) = Append(g \o s, e)
<1>1. /\ Append(s, e) = s \o <<e>> /\ <<e>> \in Seq(S)
      /\ g \o s \in Seq(S) /\ Append(g \o s, e) = (g \o s) \o <<e>>
  BY AppendIsConcat, ConcatProperties
<1>2. g \o (s \o <<e>>) = (g \o s) \o <<e>>
  BY <1>1, ConcatAssociative
<1> QED
  BY <1>1, <1>2

(* The handler's steps take no object's shred into recv.                   *)
LEMMA BroadcastWakes ==
  ASSUME Typed, HandlerNext \/ \E k \in Methods : \E m \in Seq(Int) : Handle(k, m)
  PROVE  UNCHANGED life /\ \A o \in Objects : spc'[o] = "recv" => spc[o] = "recv"
<1>1. CASE Broadcast
  BY <1>1 DEF Broadcast, Typed
<1>2. CASE ~Broadcast
  BY <1>2 DEF HandlerNext, Handle, Each, EachDone, Count, Increment, Counted, Lock, Push, TouchFreed
<1> QED
  BY <1>1, <1>2

(* What is pushed is queued, and what leaves the queue is received.        *)
LEMMA StepQueued ==
  ASSUME LoInv, LoNext
  PROVE  Queued'
<1> Typed /\ Queued /\ Listed
  BY DEF LoInv
<1>0. \A o \in Objects : spc'[o] = "recv" => life'[o] = "open"
  <2>1. ASSUME \A o \in Objects : spc'[o] = "recv" => spc[o] = "recv",
               \A o \in Objects : life[o] = "open" => life'[o] = "open"
        PROVE  \A o \in Objects : spc'[o] = "recv" => life'[o] = "open"
    BY <2>1 DEF Queued
  <2>2. CASE HandlerNext \/ \E k \in Methods : \E m \in Seq(Int) : Handle(k, m)
    <3>1. UNCHANGED life /\ \A o \in Objects : spc'[o] = "recv" => spc[o] = "recv"
      BY <2>2, BroadcastWakes
    <3> QED
      BY <2>1, <3>1
  <2>3. ASSUME NEW o \in Objects,
               New(o) \/ NewFails(o) \/ Close(o) \/ Release(o) \/ Stop(o)
        PROVE  \A p \in Objects : spc'[p] = "recv" => life'[p] = "open"
    <3>1. /\ UNCHANGED spc
          /\ \A p \in Objects : p # o => life'[p] = life[p]
          /\ life[o] # "open" \/ spc[o] # "recv"
      BY <2>3, SMTT(30) DEF New, NewFails, Close, Release, Stop, Runs, VMFree, Typed
    <3> QED
      BY <3>1 DEF Queued
  <2>4. ASSUME NEW o \in Objects, Wait(o) \/ RecvClears(o) \/ Recv(o)
        PROVE  \A p \in Objects : spc'[p] = "recv" => life'[p] = "open"
    <3>1. /\ UNCHANGED life
          /\ \A p \in Objects : p # o => (spc'[p] = "recv" => spc[p] = "recv")
          /\ life[o] = "open" \/ spc[o] = "recv"
      BY <2>4 DEF Wait, RecvClears, Recv, Runs, Typed
    <3> QED
      BY <3>1 DEF Queued
  <2>5. CASE \/ UNCHANGED loVars \/ Put
             \/ \E o \in Objects : Get(o) \/ \E k \in Methods : Add(o, k) \/ AddRaces(o, k)
    <3>1. UNCHANGED <<life, spc>>
      BY <2>5 DEF loVars, Put, Get, Add, AddRaces
    <3> QED
      BY <2>1, <3>1
  <2> QED
    BY <2>2, <2>3, <2>4, <2>5 DEF LoNext, InNext
<1> SUFFICES \A o \in Objects : life'[o] = "open" => got'[o] \o args'[o] = pushed'[o]
  BY <1>0 DEF Queued
<1>1. ASSUME UNCHANGED <<args, got, pushed>>,
             \A o \in Objects : life'[o] = "open" => life[o] \in {"open", "new"}
      PROVE  \A p \in Objects : life'[p] = "open" => got'[p] \o args'[p] = pushed'[p]
  <2>1. \A o \in Objects : life[o] = "new" => got[o] \o args[o] = pushed[o]
    <3>1. <<>> \o <<>> = <<>>
      OBVIOUS
    <3> QED
      BY <3>1 DEF Listed
  <2> QED
    BY <1>1, <2>1 DEF Queued
<1>2. CASE Quiet \/ \E o \in Objects : Get(o)
  <2>1. UNCHANGED <<args, got, pushed>>
    BY <1>2, QuietQueues DEF Get
  <2>2. \A o \in Objects : life'[o] = "open" => life[o] \in {"open", "new"}
    <3>1. ASSUME UNCHANGED life
          PROVE  \A o \in Objects : life'[o] = "open" => life[o] \in {"open", "new"}
      BY <3>1
    <3>2. ASSUME NEW o \in Objects, New(o) \/ NewFails(o) \/ Close(o) \/ Stop(o)
          PROVE  \A p \in Objects : life'[p] = "open" => life[p] \in {"open", "new"}
      BY <3>2 DEF New, NewFails, Close, Stop, Typed
    <3>3. CASE \/ UNCHANGED loVars \/ Put
               \/ \E o \in Objects : \/ Wait(o) \/ RecvClears(o) \/ Get(o)
                                     \/ \E k \in Methods : Add(o, k) \/ AddRaces(o, k)
      BY <3>1, <3>3 DEF loVars, Put, Wait, RecvClears, Get, Add, AddRaces
    <3>4. CASE \/ Each \/ EachDone \/ Count \/ Increment \/ Counted \/ Lock \/ Broadcast
               \/ TouchFreed \/ \E k \in Methods : \E m \in Seq(Int) : Handle(k, m)
      BY <3>1, <3>4 DEF Each, EachDone, Count, Increment, Counted, Lock, Broadcast, TouchFreed, Handle
    <3> QED
      BY <1>2, <3>2, <3>3, <3>4 DEF Quiet
  <2> QED
    BY <1>1, <2>1, <2>2
<1>3. CASE Push
  <2>1. /\ At \in Objects /\ last \in Messages
        /\ args' = [args EXCEPT ![At] = Append(@, last)]
        /\ pushed' = [pushed EXCEPT ![At] = Append(@, last)]
    BY <1>3, PushedIsNew
  <2>2. UNCHANGED <<life, got>>
    BY <1>3 DEF Push
  <2>3. ASSUME life[At] = "open"
        PROVE  got[At] \o Append(args[At], last) = Append(pushed[At], last)
    <3>1. got[At] \in Seq(Messages) /\ args[At] \in Seq(Messages)
      BY <2>1 DEF Typed
    <3>2. got[At] \o args[At] = pushed[At]
      BY <2>1, <2>3 DEF Queued
    <3>3. got[At] \o Append(args[At], last) = Append(got[At] \o args[At], last)
      <4> DEFINE g == got[At]
                 q == args[At]
      <4>1. g \in Seq(Messages) /\ q \in Seq(Messages) /\ last \in Messages
        BY <2>1, <3>1
      <4> HIDE DEF g, q
      <4>2. g \o Append(q, last) = Append(g \o q, last)
        BY <4>1, AppendedLater
      <4> QED
        BY <4>2 DEF g, q
    <3> QED
      BY <3>2, <3>3
  <2> QED
    BY <2>1, <2>2, <2>3 DEF Queued, Typed
<1>4. ASSUME NEW o \in Objects, Recv(o)
      PROVE  \A p \in Objects : life'[p] = "open" => got'[p] \o args'[p] = pushed'[p]
  <2>1. /\ args[o] \in Seq(Messages) /\ args[o] # <<>> /\ got[o] \in Seq(Messages)
        /\ UNCHANGED <<life, pushed>>
        /\ args'[o] = Tail(args[o]) /\ got'[o] = Append(got[o], Head(args[o]))
        /\ \A p \in Objects : p # o => args'[p] = args[p] /\ got'[p] = got[p]
    BY <1>4 DEF Recv, Typed
  <2>2. got'[o] \o args'[o] = got[o] \o args[o]
    BY <2>1, HandedOver
  <2> QED
    BY <2>1, <2>2 DEF Queued
<1>5. ASSUME NEW o \in Objects, Release(o)
      PROVE  \A p \in Objects : life'[p] = "open" => got'[p] \o args'[p] = pushed'[p]
  <2>1. /\ life'[o] # "open" /\ UNCHANGED <<got, pushed>>
        /\ \A p \in Objects : p # o => args'[p] = args[p] /\ life'[p] = life[p]
    BY <1>5, SMTT(30) DEF Release, Typed
  <2> QED
    BY <2>1 DEF Queued
<1> QED
  BY <1>2, <1>3, <1>4, <1>5, LoNextCases

-----------------------------------------------------------------------------
(* The objects that have message n in their queue, and those that can      *)
(* still get its argument k from the vector they read.                     *)
InQueue(n) == {o \in Objects : Contains(args[o], n)}
InHand(n, k) == {o \in Objects : curr[o] # <<>> /\ curr[o][1] = n /\ curr[o][2] < k}

(* The holders of an argument are counted in two finite sets.              *)
LEMMA HoldersCounted ==
  ASSUME NEW n, NEW k
  PROVE  /\ Holders(n, k) = Cardinality(InQueue(n)) + Cardinality(InHand(n, k))
         /\ IsFiniteSet(InQueue(n)) /\ IsFiniteSet(InHand(n, k))
         /\ Cardinality(InQueue(n)) \in Nat /\ Cardinality(InHand(n, k)) \in Nat
<1>1. IsFiniteSet(InQueue(n)) /\ IsFiniteSet(InHand(n, k))
  BY LoAssumption, FS_Subset DEF InQueue, InHand
<1> QED
  BY <1>1, FS_CardinalityType DEF Holders, InQueue, InHand

(* They are so after a step.                                               *)
LEMMA HoldersPrimed ==
  ASSUME NEW n, NEW k
  PROVE  Holders(n, k)' \in Nat
<1>1. Holders(n, k)' = Cardinality(InQueue(n)') + Cardinality(InHand(n, k)')
  BY DEF Holders, InQueue, InHand
<1>2. InQueue(n)' \in SUBSET Objects /\ InHand(n, k)' \in SUBSET Objects
  BY DEF InQueue, InHand
<1> QED
  BY <1>1, <1>2, LoAssumption, FS_Subset, FS_CardinalityType

(* A live object has no message twice in its queue: it holds the last      *)
(* messages that were pushed, which are in order.                          *)
LEMMA QueueDistinct ==
  ASSUME LoInv, NEW o \in Objects, life[o] = "open"
  PROVE  \A a \in 2 .. Len(args[o]) : args[o][a] # args[o][1]
<1>1. /\ args[o] \in Seq(Messages) /\ got[o] \in Seq(Messages)
      /\ got[o] \o args[o] = pushed[o]
  BY DEF LoInv, Typed, Queued
<1> DEFINE g == got[o]
           q == args[o]
<1>2. /\ q \in Seq(Messages) /\ g \in Seq(Messages) /\ g \o q = pushed[o]
      /\ Len(g) \in Nat /\ Len(q) \in Nat
  BY <1>1
<1>3. \A a, b \in 1 .. Len(g \o q) : a < b => (g \o q)[a] < (g \o q)[b]
  BY <1>2 DEF LoInv, Sorted
<1> HIDE DEF g, q
<1>4. ASSUME NEW a \in 2 .. Len(q)
      PROVE  q[a] # q[1]
  <2>1. Len(g \o q) = Len(g) + Len(q)
    BY <1>2, ConcatProperties
  <2>2. /\ Len(g) + 1 \in 1 .. Len(g) + Len(q) /\ Len(g) + a \in 1 .. Len(g) + Len(q)
        /\ Len(g) + 1 < Len(g) + a
    BY <1>2
  <2>3. (g \o q)[Len(g) + 1] = q[1]
    <3>1. ~(Len(g) + 1 <= Len(g)) /\ (Len(g) + 1) - Len(g) = 1
      BY <1>2
    <3> QED
      BY <1>2, <2>2, <3>1, ConcatProperties
  <2>4. (g \o q)[Len(g) + a] = q[a]
    <3>1. ~(Len(g) + a <= Len(g)) /\ (Len(g) + a) - Len(g) = a
      BY <1>2
    <3> QED
      BY <1>2, <2>2, <3>1, ConcatProperties
  <2>5. q[1] < q[a]
    BY <1>3, <2>1, <2>2, <2>3, <2>4
  <2>6. q[1] \in Messages /\ q[a] \in Messages
    BY <1>2
  <2> QED
    BY <2>5, <2>6, LoAssumption DEF Messages
<1> QED
  BY <1>4 DEF q

(* How two counts change with their sets: fewer of both; one reader less;  *)
(* one reader more that was in the queue; one more in the queue.           *)
LEMMA CountsChange ==
  ASSUME NEW q, NEW h, NEW p, NEW g, NEW o, IsFiniteSet(q), IsFiniteSet(h),
         NEW x, x = Cardinality(q) + Cardinality(h),
         NEW y, y = Cardinality(p) + Cardinality(g)
  PROVE  /\ p \subseteq q /\ g \subseteq h => y <= x
         /\ p \subseteq q /\ g \subseteq h \ {o} /\ o \in h => y + 1 <= x
         /\ p \subseteq q \ {o} /\ g \subseteq h \cup {o} /\ o \in q =>
              y <= x /\ (o \in h => y + 1 <= x)
         /\ p \subseteq q \cup {o} /\ g \subseteq h => y <= x + 1
<1>1. Cardinality(q) \in Nat /\ Cardinality(h) \in Nat
  BY FS_CardinalityType
<1>2. /\ IsFiniteSet(q \ {o}) /\ IsFiniteSet(q \cup {o})
      /\ IsFiniteSet(h \ {o}) /\ IsFiniteSet(h \cup {o})
      /\ o \in q => Cardinality(q \ {o}) = Cardinality(q) - 1
      /\ Cardinality(q \cup {o}) \in {Cardinality(q), Cardinality(q) + 1}
      /\ o \in h => /\ Cardinality(h \ {o}) = Cardinality(h) - 1
                    /\ Cardinality(h \cup {o}) = Cardinality(h)
      /\ Cardinality(h \cup {o}) \in {Cardinality(h), Cardinality(h) + 1}
  BY FS_AddElement, FS_RemoveElement
<1>3. ASSUME NEW S, NEW T, IsFiniteSet(T), S \subseteq T
      PROVE  Cardinality(S) \in Nat /\ Cardinality(S) <= Cardinality(T)
  <2>1. S \in SUBSET T
    BY <1>3
  <2> QED
    BY <1>3, <2>1, FS_Subset, FS_CardinalityType
<1>4. ASSUME p \subseteq q, g \subseteq h
      PROVE  y <= x
  <2>1. /\ Cardinality(p) \in Nat /\ Cardinality(p) <= Cardinality(q)
        /\ Cardinality(g) \in Nat /\ Cardinality(g) <= Cardinality(h)
    BY <1>3, <1>4
  <2> QED
    BY <1>1, <2>1
<1>5. ASSUME p \subseteq q, g \subseteq h \ {o}, o \in h
      PROVE  y + 1 <= x
  <2>1. /\ Cardinality(p) \in Nat /\ Cardinality(p) <= Cardinality(q)
        /\ Cardinality(g) \in Nat /\ Cardinality(g) <= Cardinality(h \ {o})
    BY <1>2, <1>3, <1>5
  <2> QED
    BY <1>1, <1>2, <1>5, <2>1
<1>6. ASSUME p \subseteq q \ {o}, g \subseteq h \cup {o}, o \in q
      PROVE  y <= x /\ (o \in h => y + 1 <= x)
  <2>1. /\ Cardinality(p) \in Nat /\ Cardinality(p) <= Cardinality(q \ {o})
        /\ Cardinality(g) \in Nat /\ Cardinality(g) <= Cardinality(h \cup {o})
    BY <1>2, <1>3, <1>6
  <2> QED
    BY <1>1, <1>2, <1>6, <2>1
<1>7. ASSUME p \subseteq q \cup {o}, g \subseteq h
      PROVE  y <= x + 1
  <2>1. /\ Cardinality(p) \in Nat /\ Cardinality(p) <= Cardinality(q \cup {o})
        /\ Cardinality(g) \in Nat /\ Cardinality(g) <= Cardinality(h)
    BY <1>2, <1>3, <1>7
  <2> QED
    BY <1>1, <1>2, <2>1
<1> QED
  BY <1>4, <1>5, <1>6, <1>7

(* So do the holders of an argument.                                       *)
LEMMA HoldersChange ==
  ASSUME NEW n, NEW k, NEW o
  PROVE  /\ InQueue(n)' \subseteq InQueue(n) /\ InHand(n, k)' \subseteq InHand(n, k)
              => Holders(n, k)' <= Holders(n, k)
         /\ InQueue(n)' \subseteq InQueue(n) /\ InHand(n, k)' \subseteq InHand(n, k) \ {o}
              => (o \in InHand(n, k) => Holders(n, k)' + 1 <= Holders(n, k))
         /\ InQueue(n)' \subseteq InQueue(n) \ {o} /\ InHand(n, k)' \subseteq InHand(n, k) \cup {o}
              => (o \in InQueue(n) =>
                    /\ Holders(n, k)' <= Holders(n, k)
                    /\ o \in InHand(n, k) => Holders(n, k)' + 1 <= Holders(n, k))
         /\ InQueue(n)' \subseteq InQueue(n) \cup {o} /\ InHand(n, k)' \subseteq InHand(n, k)
              => Holders(n, k)' <= Holders(n, k) + 1
<1>1. Holders(n, k)' = Cardinality(InQueue(n)') + Cardinality(InHand(n, k)')
  BY DEF Holders, InQueue, InHand
<1>2. /\ Holders(n, k) = Cardinality(InQueue(n)) + Cardinality(InHand(n, k))
      /\ IsFiniteSet(InQueue(n)) /\ IsFiniteSet(InHand(n, k))
  BY HoldersCounted
<1> DEFINE q == InQueue(n)
           h == InHand(n, k)
           p == InQueue(n)'
           g == InHand(n, k)'
           x == Holders(n, k)
           y == Holders(n, k)'
<1>3. /\ x = Cardinality(q) + Cardinality(h) /\ y = Cardinality(p) + Cardinality(g)
      /\ IsFiniteSet(q) /\ IsFiniteSet(h)
  BY <1>1, <1>2
<1> HIDE DEF q, h, p, g, x, y
<1>4. /\ p \subseteq q /\ g \subseteq h => y <= x
      /\ p \subseteq q /\ g \subseteq h \ {o} /\ o \in h => y + 1 <= x
      /\ p \subseteq q \ {o} /\ g \subseteq h \cup {o} /\ o \in q =>
           y <= x /\ (o \in h => y + 1 <= x)
      /\ p \subseteq q \cup {o} /\ g \subseteq h => y <= x + 1
  BY <1>3, CountsChange
<1> QED
  BY <1>4 DEF q, h, p, g, x, y

(* The clients message n was queued on.                                    *)
Had(n) == {o \in Objects : Contains(pushed[o], n)}

(* They are counted in a finite set, before and after a step.              *)
LEMMA ClientsCounted ==
  ASSUME NEW n
  PROVE  /\ Clients(n) = Cardinality(Had(n)) /\ Clients(n)' = Cardinality(Had(n)')
         /\ IsFiniteSet(Had(n)) /\ IsFiniteSet(Had(n)')
         /\ Clients(n) \in Nat /\ Clients(n)' \in Nat
<1>1. Had(n) \in SUBSET Objects /\ Had(n)' \in SUBSET Objects
  BY DEF Had
<1>2. IsFiniteSet(Had(n)) /\ IsFiniteSet(Had(n)')
  BY <1>1, LoAssumption, FS_Subset
<1>3. Clients(n) = Cardinality(Had(n)) /\ Clients(n)' = Cardinality(Had(n)')
  BY DEF Clients, Had
<1> QED
  BY <1>2, <1>3, FS_CardinalityType

(* Only a client holds an argument of a message, or had it to release.     *)
LEMMA NoClients ==
  ASSUME LoInv, NEW n, NEW k, Clients(n) = 0
  PROVE  Holders(n, k) = 0 /\ Releasing(n, k) = 0
<1>1. Had(n) = {}
  BY ClientsCounted, FS_EmptySet
<1>2. \A o \in Objects : ~Contains(pushed[o], n)
  BY <1>1 DEF Had
<1>3. InQueue(n) = {}
  BY <1>2 DEF InQueue, LoInv, Known, Contains
<1>4. InHand(n, k) = {}
  BY <1>2 DEF InHand, LoInv, Known
<1>5. Releasing(n, k) = 0
  BY <1>2 DEF Releasing, LoInv, Known
<1> QED
  BY <1>3, <1>4, <1>5, HoldersCounted, FS_EmptySet

(* What the invariant says of one argument.                                *)
LEMMA HeldHere ==
  ASSUME LoInv, NEW n \in Messages, NEW k \in 2 .. Len(body[n])
  PROVE  /\ Enough(ref[n][k], n, k)
         /\ Counting(n, k) => Enough(cnt, n, k)
         /\ Releasing(n, k) = 1 => Enough(rel[3], n, k)
         /\ k \in 1 .. Len(body[n]) /\ ref[n][k] \in Nat /\ cnt \in Nat
         /\ Holders(n, k) \in Nat /\ Releasing(n, k) \in {0, 1} /\ Due(n, k) \in {1, 2}
         /\ Clients(n) \in Nat
         /\ Clients(n) = 0 => Holders(n, k) = 0 /\ Releasing(n, k) = 0
<1>1. body[n] \in Seq(Int) /\ ref[n] \in Seq(Nat) /\ Len(ref[n]) = Len(body[n]) /\ cnt \in Nat
  BY DEF LoInv, Typed
<1>2. k \in 1 .. Len(body[n]) /\ k \in 1 .. Len(ref[n])
  BY <1>1
<1>3. ref[n][k] \in Nat
  BY <1>1, <1>2
<1>4. Holders(n, k) \in Nat
  BY HoldersCounted
<1>5. Releasing(n, k) \in {0, 1} /\ Due(n, k) \in {1, 2}
  BY DEF Releasing, Due
<1>6. /\ Enough(ref[n][k], n, k)
      /\ Counting(n, k) => Enough(cnt, n, k)
      /\ Releasing(n, k) = 1 => Enough(rel[3], n, k)
  BY DEF LoInv, Held
<1> QED
  BY <1>1, <1>2, <1>3, <1>4, <1>5, <1>6, ClientsCounted, NoClients

(* Enough after a step. *)
EnoughNext(c, n, k) ==
  Holders(n, k)' + Releasing(n, k)' + Due(n, k)' <= c + Clients(n)'

(* What was enough stays so if no holder and no client comes.              *)
LEMMA Eased ==
  ASSUME NEW n, NEW k, NEW c, c \in Nat \/ c \in Int, UNCHANGED pushed,
         Holders(n, k) \in Nat, Releasing(n, k) \in {0, 1},
         Holders(n, k)' + Releasing(n, k)' <= Holders(n, k) + Releasing(n, k),
         CountedOn(n, k)' => CountedOn(n, k),
         Enough(c, n, k)
  PROVE  EnoughNext(c, n, k)
<1>1. Clients(n)' = Clients(n) /\ Clients(n) \in Nat
  BY ClientsCounted DEF Clients
<1>2. Due(n, k) \in {1, 2} /\ Due(n, k)' \in {1, 2} /\ Due(n, k)' <= Due(n, k)
  BY <1>1 DEF Due
<1>3. Holders(n, k)' \in Nat /\ Releasing(n, k)' \in {0, 1}
  BY HoldersPrimed DEF Releasing
<1> QED
  BY <1>1, <1>2, <1>3 DEF Enough, EnoughNext

(* A step that counts and releases nothing: no holder comes, and what the  *)
(* handler has read it still has or has given up.                          *)
LEMMA EasedAll ==
  ASSUME LoInv, NEW n \in Messages, NEW k \in 2 .. Len(body[n]),
         UNCHANGED pushed, ref'[n][k] = ref[n][k],
         Holders(n, k)' <= Holders(n, k), Releasing(n, k)' <= Releasing(n, k),
         Releasing(n, k)' = 1 => rel' = rel,
         Counting(n, k)' => cnt' = ref[n][k] \/ (Counting(n, k) /\ cnt' = cnt),
         CountedOn(n, k)' => CountedOn(n, k)
  PROVE  /\ EnoughNext(ref'[n][k], n, k)
         /\ Counting(n, k)' => EnoughNext(cnt', n, k)
         /\ Releasing(n, k)' = 1 => EnoughNext(rel'[3], n, k)
<1>1. /\ Holders(n, k) \in Nat /\ Releasing(n, k) \in {0, 1}
      /\ Holders(n, k)' + Releasing(n, k)' <= Holders(n, k) + Releasing(n, k)
      /\ ref[n][k] \in Nat /\ cnt \in Nat
  <2>1. Holders(n, k)' \in Nat /\ Releasing(n, k)' \in {0, 1}
    BY HoldersPrimed DEF Releasing
  <2> QED
    BY <2>1, HeldHere
<1>2. EnoughNext(ref[n][k], n, k)
  BY <1>1, HeldHere, Eased
<1>3. Counting(n, k) => EnoughNext(cnt, n, k)
  BY <1>1, HeldHere, Eased
<1>4. ASSUME Releasing(n, k)' = 1
      PROVE  EnoughNext(rel'[3], n, k)
  <2>1. Releasing(n, k) = 1 /\ rel' = rel
    BY <1>1, <1>4
  <2>2. rel[3] \in Nat
    BY <2>1 DEF Releasing, LoInv, Typed
  <2> QED
    BY <1>1, <2>1, <2>2, HeldHere, Eased
<1> QED
  BY <1>2, <1>3, <1>4

(* Steps that count and release nothing.                                   *)
Still ==
  \/ UNCHANGED loVars
  \/ \E o \in Objects : \/ New(o) \/ NewFails(o) \/ Wait(o) \/ RecvClears(o) \/ Close(o) \/ Stop(o)
                        \/ \E k \in Methods : Add(o, k) \/ AddRaces(o, k)
  \/ Each \/ EachDone \/ Count \/ Counted \/ Lock \/ Broadcast \/ TouchFreed

(* They leave what is enough.                                              *)
LEMMA StillHeld ==
  ASSUME LoInv, Still
  PROVE  Held'
<1> SUFFICES ASSUME NEW n \in Messages, NEW k \in 2 .. Len(body'[n])
             PROVE  /\ EnoughNext(ref'[n][k], n, k)
                    /\ Counting(n, k)' => EnoughNext(cnt', n, k)
                    /\ Releasing(n, k)' = 1 => EnoughNext(rel'[3], n, k)
  BY DEF Held, Enough, EnoughNext
<1>1. UNCHANGED <<ref, body, last, args, curr, rel, pushed>>
  <2>1. Typed /\ Quiet
    BY DEF LoInv, Still, Quiet
  <2>2. UNCHANGED <<args, curr, pushed>>
    BY <2>1, QuietQueues
  <2>3. CASE \/ UNCHANGED loVars
             \/ \E o \in Objects :
                  \/ New(o) \/ NewFails(o) \/ Wait(o) \/ RecvClears(o) \/ Close(o) \/ Stop(o)
                  \/ \E m \in Methods : Add(o, m) \/ AddRaces(o, m)
    BY <2>2, <2>3 DEF loVars, New, NewFails, Wait, RecvClears, Close, Stop, Add, AddRaces, hvars
  <2>4. CASE Each \/ EachDone \/ Count \/ Counted \/ Lock \/ Broadcast \/ TouchFreed
    BY <2>2, <2>4 DEF Each, EachDone, Count, Counted, Lock, Broadcast, TouchFreed
  <2> QED
    BY <2>3, <2>4 DEF Still
<1>2. /\ \/ UNCHANGED <<hpc, hj, cnt>>
         \/ hpc' \in {"idle", "each"}
         \/ hpc = "each" /\ hpc' = "count" /\ hj' = 2
         \/ hpc = "count" /\ hpc' = "increment" /\ hj' = hj /\ cnt' = ref[last][hj]
         \/ hpc = "count" /\ hpc' = "lock" /\ hj > Len(body[last])
         \/ hpc = "lock" /\ hpc' = "push"
  <2>1. CASE \/ UNCHANGED loVars
             \/ \E o \in Objects :
                  \/ New(o) \/ NewFails(o) \/ Wait(o) \/ RecvClears(o) \/ Close(o) \/ Stop(o)
                  \/ \E m \in Methods : Add(o, m) \/ AddRaces(o, m)
    BY <2>1
       DEF loVars, New, NewFails, Wait, RecvClears, Close, Stop, Add, AddRaces, Return, hvars
  <2>2. CASE Each \/ EachDone \/ Count \/ Counted \/ Lock \/ Broadcast \/ TouchFreed
    BY <2>2 DEF Each, EachDone, Count, Counted, Lock, Broadcast, TouchFreed, Return
  <2> QED
    BY <2>1, <2>2 DEF Still
<1>3. k \in 2 .. Len(body[n]) /\ ref'[n][k] = ref[n][k]
  BY <1>1
<1>4. Holders(n, k)' = Holders(n, k) /\ Releasing(n, k)' = Releasing(n, k)
  BY <1>1 DEF Holders, Releasing
<1>5. Holders(n, k) \in Nat /\ Releasing(n, k) \in {0, 1}
  BY <1>3, HeldHere
<1>6. Counting(n, k)' => cnt' = ref[n][k] \/ (Counting(n, k) /\ cnt' = cnt)
  BY <1>1, <1>2 DEF Counting
<1>7. CountedOn(n, k)' => CountedOn(n, k)
  <2>1. hj \in Nat /\ k \in Nat /\ ~(2 > k) /\ Len(body[n]) \in Nat
    BY <1>3 DEF LoInv, Typed
  <2>2. n = last /\ hj > Len(body[last]) => hj > k
    BY <1>3, <2>1
  <2> QED
    BY <1>1, <1>2, <2>1, <2>2 DEF CountedOn
<1> QED
  BY <1>1, <1>3, <1>4, <1>5, <1>6, <1>7, EasedAll

(* The message that is made has one reference for each argument.           *)
LEMMA HandleHeld ==
  ASSUME LoInv, NEW m \in Methods, NEW b \in Seq(Int), Handle(m, b)
  PROVE  Held'
<1> SUFFICES ASSUME NEW n \in Messages, NEW k \in 2 .. Len(body'[n])
             PROVE  /\ EnoughNext(ref'[n][k], n, k)
                    /\ Counting(n, k)' => EnoughNext(cnt', n, k)
                    /\ Releasing(n, k)' = 1 => EnoughNext(rel'[3], n, k)
  BY DEF Held, Enough, EnoughNext
<1> Typed /\ Known
  BY DEF LoInv
<1>1. /\ last' = last + 1 /\ hpc' = "each"
      /\ body' = [body EXCEPT ![last + 1] = b]
      /\ ref' = [ref EXCEPT ![last + 1] = [j \in DOMAIN b |-> 1]]
      /\ UNCHANGED <<args, curr, rel, pushed>>
  BY DEF Handle, ovars
<1>2. ~Counting(n, k)' /\ ~CountedOn(n, k)'
  BY <1>1 DEF Counting, CountedOn
<1>3. Holders(n, k)' = Holders(n, k) /\ Releasing(n, k)' = Releasing(n, k) /\ Clients(n)' = Clients(n)
  BY <1>1 DEF Holders, Releasing, Clients
<1>4. CASE n = last + 1
  <2>1. body'[n] = b /\ ref'[n] = [j \in DOMAIN b |-> 1] /\ k \in DOMAIN b
    BY <1>1, <1>4 DEF Typed
  <2>2. ref'[n][k] = 1
    BY <2>1
  <2>3. last \in Nat /\ ~(n <= last)
    BY <1>4, LoAssumption DEF Typed
  <2>4. Had(n) = {}
    BY <2>3 DEF Had, Contains, Known
  <2>5. Clients(n) = 0
    BY <2>4, ClientsCounted, FS_EmptySet
  <2>6. Holders(n, k) = 0 /\ Releasing(n, k) = 0
    BY <2>5, NoClients
  <2>7. Due(n, k)' = 1
    BY <1>2, <1>3, <2>5 DEF Due
  <2> QED
    BY <1>2, <1>3, <2>2, <2>5, <2>6, <2>7 DEF EnoughNext
<1>5. CASE n # last + 1
  <2>1. body'[n] = body[n] /\ ref'[n] = ref[n]
    BY <1>1, <1>5 DEF Typed
  <2>2. k \in 2 .. Len(body[n]) /\ ref'[n][k] = ref[n][k]
    BY <2>1
  <2>3. Holders(n, k) \in Nat /\ Releasing(n, k) \in {0, 1}
    BY <2>2, HeldHere
  <2>4. Holders(n, k)' <= Holders(n, k) /\ Releasing(n, k)' <= Releasing(n, k)
    BY <1>3, <2>3
  <2> QED
    BY <1>1, <1>2, <2>2, <2>4, EasedAll
<1> QED
  BY <1>4, <1>5

(* What the handler writes is one more than what it has read.              *)
LEMMA IncrementHeld ==
  ASSUME LoInv, Increment
  PROVE  Held'
<1> SUFFICES ASSUME NEW n \in Messages, NEW k \in 2 .. Len(body'[n])
             PROVE  /\ EnoughNext(ref'[n][k], n, k)
                    /\ Counting(n, k)' => EnoughNext(cnt', n, k)
                    /\ Releasing(n, k)' = 1 => EnoughNext(rel'[3], n, k)
  BY DEF Held, Enough, EnoughNext
<1> Typed
  BY DEF LoInv
<1>1. /\ hpc = "increment" /\ hpc' = "count" /\ hj' = hj + 1 /\ Written(last, hj, cnt + 1)
      /\ UNCHANGED <<last, body, args, curr, rel, pushed>>
  BY DEF Increment, ovars
<1>2. /\ last \in Messages /\ hj \in 1 .. Len(body[last]) /\ cnt + 1 \in Nat
  BY <1>1, LoAssumption DEF LoInv, Typed, Walking, Messages
<1>3. /\ ref'[last][hj] = IF ref[last][hj] = 0 THEN 0 ELSE cnt + 1
      /\ \A i \in Messages : \A j \in 1 .. Len(body[i]) :
           ~(i = last /\ j = hj) => ref'[i][j] = ref[i][j]
  BY <1>1, <1>2, CountWritten
<1>4. Holders(n, k)' = Holders(n, k) /\ Releasing(n, k)' = Releasing(n, k) /\ Clients(n)' = Clients(n)
  BY <1>1 DEF Holders, Releasing, Clients
<1>5. k \in 2 .. Len(body[n]) /\ ~Counting(n, k)'
  BY <1>1 DEF Counting
<1>6. /\ Enough(ref[n][k], n, k)
      /\ Counting(n, k) => Enough(cnt, n, k)
      /\ Releasing(n, k) = 1 => Enough(rel[3], n, k)
      /\ k \in 1 .. Len(body[n]) /\ ref[n][k] \in Nat /\ cnt \in Nat
      /\ Holders(n, k) \in Nat /\ Releasing(n, k) \in {0, 1} /\ Due(n, k) \in {1, 2}
      /\ Clients(n) \in Nat
      /\ Clients(n) = 0 => Holders(n, k) = 0 /\ Releasing(n, k) = 0
  BY <1>5, HeldHere
<1>7. CASE n = last /\ k = hj
  <2>1. Counting(n, k) /\ ~CountedOn(n, k)
    BY <1>1, <1>2, <1>7 DEF Counting, CountedOn
  <2>2. ref'[n][k] = IF ref[n][k] = 0 THEN 0 ELSE cnt + 1
    BY <1>3, <1>7
  <2>3. CASE Clients(n) = 0
    <3>1. Due(n, k) = 1 /\ Due(n, k)' \in {1, 2}
      BY <2>1, <2>3 DEF Due
    <3>2. Holders(n, k) + Releasing(n, k) + 1 <= cnt /\ ref[n][k] # 0
      BY <1>6, <2>1, <2>3, <3>1 DEF Enough
    <3> QED
      BY <1>4, <1>5, <1>6, <2>2, <2>3, <3>1, <3>2 DEF EnoughNext
  <2>4. CASE Clients(n) # 0
    <3>1. Due(n, k) = 2 /\ Due(n, k)' = 2
      BY <1>4, <2>4 DEF Due
    <3>2. /\ Holders(n, k) + Releasing(n, k) + 2 <= cnt + Clients(n)
          /\ Holders(n, k) + Releasing(n, k) + 2 <= ref[n][k] + Clients(n)
      BY <1>6, <2>1, <3>1 DEF Enough
    <3>3. EnoughNext(ref'[n][k], n, k)
      BY <1>4, <1>6, <2>2, <3>1, <3>2 DEF EnoughNext
    <3>4. Releasing(n, k)' = 1 => EnoughNext(rel'[3], n, k)
      BY <1>1, <1>4, <1>6, <3>1 DEF Enough, EnoughNext
    <3> QED
      BY <1>5, <3>3, <3>4
  <2> QED
    BY <2>3, <2>4
<1>8. CASE ~(n = last /\ k = hj)
  <2>1. ref'[n][k] = ref[n][k]
    BY <1>3, <1>6, <1>8
  <2>2. CountedOn(n, k)' => CountedOn(n, k)
    BY <1>1, <1>2, <1>6, <1>8 DEF CountedOn
  <2> QED
    BY <1>1, <1>4, <1>5, <1>6, <2>1, <2>2, EasedAll
<1> QED
  BY <1>7, <1>8

(* What the VM writes is one less than what it has read, and it no longer  *)
(* has the argument.                                                       *)
LEMMA PutHeld ==
  ASSUME LoInv, Put
  PROVE  Held'
<1> SUFFICES ASSUME NEW n \in Messages, NEW k \in 2 .. Len(body'[n])
             PROVE  /\ EnoughNext(ref'[n][k], n, k)
                    /\ Counting(n, k)' => EnoughNext(cnt', n, k)
                    /\ Releasing(n, k)' = 1 => EnoughNext(rel'[3], n, k)
  BY DEF Held, Enough, EnoughNext
<1> Typed
  BY DEF LoInv
<1>1. /\ rel # <<>> /\ rel' = <<>> /\ Written(rel[1], rel[2], Dec(rel[3]))
      /\ UNCHANGED <<last, hpc, hj, cnt, body, args, curr, pushed>>
  BY DEF Put, ovars, hvars
<1>2. /\ rel[1] \in Messages /\ rel[2] \in 1 .. Len(body[rel[1]]) /\ rel[3] \in Nat
  <2>1. rel \in Messages \X Nat \X Nat
    BY <1>1 DEF LoInv, Typed
  <2> QED
    BY <1>1, <2>1 DEF LoInv, Known
<1>3. /\ ref'[rel[1]][rel[2]] = IF ref[rel[1]][rel[2]] = 0 THEN 0 ELSE Dec(rel[3])
      /\ \A i \in Messages : \A j \in 1 .. Len(body[i]) :
           ~(i = rel[1] /\ j = rel[2]) => ref'[i][j] = ref[i][j]
  <2>1. Dec(rel[3]) \in Nat
    BY <1>2 DEF Dec
  <2> QED
    <3> DEFINE i == rel[1]
               j == rel[2]
               d == Dec(rel[3])
    <3>1. i \in Messages /\ j \in 1 .. Len(body[i]) /\ d \in Nat /\ Written(i, j, d)
      BY <1>1, <1>2, <2>1
    <3> HIDE DEF i, j, d
    <3>2. /\ ref'[i][j] = IF ref[i][j] = 0 THEN 0 ELSE d
          /\ \A x \in Messages : \A y \in 1 .. Len(body[x]) :
               ~(x = i /\ y = j) => ref'[x][y] = ref[x][y]
      BY <3>1, CountWritten
    <3> QED
      BY <3>2 DEF i, j, d
<1>4. /\ Holders(n, k)' = Holders(n, k) /\ Releasing(n, k)' = 0 /\ Clients(n)' = Clients(n)
      /\ Counting(n, k)' = Counting(n, k) /\ CountedOn(n, k)' = CountedOn(n, k)
      /\ Due(n, k)' = Due(n, k)
  BY <1>1 DEF Holders, Releasing, Clients, Counting, CountedOn, Due
<1>5. k \in 2 .. Len(body[n])
  BY <1>1
<1>6. /\ Enough(ref[n][k], n, k)
      /\ Counting(n, k) => Enough(cnt, n, k)
      /\ Releasing(n, k) = 1 => Enough(rel[3], n, k)
      /\ k \in 1 .. Len(body[n]) /\ ref[n][k] \in Nat /\ cnt \in Nat
      /\ Holders(n, k) \in Nat /\ Releasing(n, k) \in {0, 1} /\ Due(n, k) \in {1, 2}
      /\ Clients(n) \in Nat
  BY <1>5, HeldHere
<1>7. CASE n = rel[1] /\ k = rel[2]
  <2>1. Releasing(n, k) = 1
    BY <1>1, <1>7 DEF Releasing
  <2>2. ref'[n][k] = IF ref[n][k] = 0 THEN 0 ELSE Dec(rel[3])
    BY <1>3, <1>7
  <2>3. Dec(rel[3]) >= rel[3] - 1 /\ Dec(rel[3]) \in Nat
    BY <1>2 DEF Dec
  <2>4. EnoughNext(ref'[n][k], n, k)
    <3>1. /\ Holders(n, k) + 1 + Due(n, k) <= rel[3] + Clients(n)
          /\ Holders(n, k) + 1 + Due(n, k) <= ref[n][k] + Clients(n)
      BY <1>6, <2>1 DEF Enough
    <3>2. Holders(n, k) + Due(n, k) <= ref'[n][k] + Clients(n)
      <4>1. CASE ref[n][k] = 0
        BY <1>6, <2>2, <3>1, <4>1
      <4>2. CASE ref[n][k] # 0
        BY <1>2, <1>6, <2>2, <2>3, <3>1, <4>2
      <4> QED
        BY <4>1, <4>2
    <3> QED
      BY <1>4, <1>6, <3>2 DEF EnoughNext
  <2>5. Counting(n, k) => EnoughNext(cnt, n, k)
    BY <1>4, <1>6 DEF Enough, EnoughNext
  <2> QED
    BY <1>1, <1>4, <2>4, <2>5
<1>8. CASE ~(n = rel[1] /\ k = rel[2])
  <2>1. ref'[n][k] = ref[n][k]
    BY <1>3, <1>6, <1>8
  <2> QED
    BY <1>1, <1>4, <1>5, <1>6, <2>1, EasedAll
<1> QED
  BY <1>7, <1>8

(* A push is one client more, and takes the reference that was counted.    *)
LEMMA PushHeld ==
  ASSUME LoInv, Push
  PROVE  Held'
<1> SUFFICES ASSUME NEW n \in Messages, NEW k \in 2 .. Len(body'[n])
             PROVE  /\ EnoughNext(ref'[n][k], n, k)
                    /\ Counting(n, k)' => EnoughNext(cnt', n, k)
                    /\ Releasing(n, k)' = 1 => EnoughNext(rel'[3], n, k)
  BY DEF Held, Enough, EnoughNext
<1> Typed
  BY DEF LoInv
<1>1. /\ hpc = "push" /\ hpc' = "broadcast" /\ UNCHANGED <<ref, body, last, curr, rel>>
      /\ At \in Objects /\ last \in Messages
      /\ args' = [args EXCEPT ![At] = Append(@, last)]
      /\ pushed' = [pushed EXCEPT ![At] = Append(@, last)]
  BY PushedIsNew DEF Push
<1>2. /\ InHand(n, k)' \subseteq InHand(n, k) /\ Releasing(n, k)' = Releasing(n, k)
      /\ ~Counting(n, k)' /\ ~CountedOn(n, k)' /\ Due(n, k)' \in {1, 2}
      /\ k \in 2 .. Len(body[n])
  BY <1>1 DEF InHand, Releasing, Counting, CountedOn, Due
<1>3. \A o \in Objects : o # At => args'[o] = args[o] /\ pushed'[o] = pushed[o]
  BY <1>1 DEF Typed
<1>4. /\ args[At] \in Seq(Messages) /\ args'[At] = Append(args[At], last)
      /\ pushed[At] \in Seq(Messages) /\ pushed'[At] = Append(pushed[At], last)
  BY <1>1 DEF Typed
<1>5. /\ Enough(ref[n][k], n, k)
      /\ Releasing(n, k) = 1 => Enough(rel[3], n, k)
      /\ ref[n][k] \in Nat /\ Holders(n, k) \in Nat /\ Releasing(n, k) \in {0, 1}
      /\ Due(n, k) \in {1, 2} /\ Clients(n) \in Nat
  BY <1>2, HeldHere
<1>6. Holders(n, k)' \in Nat
  BY HoldersPrimed
<1>7. Releasing(n, k) = 1 => rel[3] \in Nat
  BY DEF Releasing, Typed
<1>8. CASE n = last
  <2>1. InQueue(n)' \subseteq InQueue(n) \cup {At}
    BY <1>3 DEF InQueue
  <2>2. Due(n, k) = 2
    BY <1>1, <1>8 DEF Due, CountedOn
  <2>3. Holders(n, k)' <= Holders(n, k) + 1
    BY <1>2, <2>1, HoldersChange
  <2>4. Clients(n)' = Clients(n) + 1
    <3>1. At \notin Had(n)
      BY <1>8, PushedIsNew, <1>4, LoAssumption DEF Had, Contains, Messages
    <3>2. Contains(pushed'[At], n)
      BY <1>1, <1>4, <1>8, ContainsAppend
    <3>3. Had(n)' = Had(n) \cup {At}
      BY <1>1, <1>3, <3>2 DEF Had
    <3>4. Cardinality(Had(n) \cup {At}) = Cardinality(Had(n)) + 1
      BY <3>1, ClientsCounted, FS_AddElement
    <3> QED
      BY <3>3, <3>4, ClientsCounted
  <2>7. Releasing(n, k)' = Releasing(n, k) /\ Due(n, k)' \in {1, 2}
    BY <1>2
  <2>8. ASSUME NEW c \in Nat, Enough(c, n, k)
        PROVE  EnoughNext(c, n, k)
    <3>1. Holders(n, k) + Releasing(n, k) + 2 <= c + Clients(n)
      BY <2>2, <2>8 DEF Enough
    <3>2. Holders(n, k)' + Releasing(n, k)' + Due(n, k)' <= c + Clients(n)'
      BY <1>5, <1>6, <2>3, <2>4, <2>7, <3>1
    <3> QED
      BY <3>2 DEF EnoughNext
  <2>5. EnoughNext(ref[n][k], n, k)
    BY <1>5, <2>8
  <2>6. Releasing(n, k) = 1 => EnoughNext(rel[3], n, k)
    BY <1>5, <1>7, <2>8
  <2> QED
    BY <1>1, <1>2, <2>5, <2>6
<1>9. CASE n # last
  <2>1. Contains(args'[At], n) => Contains(args[At], n)
    BY <1>1, <1>4, <1>9, ContainsAppend
  <2>2. InQueue(n)' \subseteq InQueue(n)
    BY <1>3, <2>1 DEF InQueue
  <2>3. Holders(n, k)' <= Holders(n, k)
    BY <1>2, <2>2, HoldersChange
  <2>4. Contains(pushed'[At], n) <=> Contains(pushed[At], n)
    BY <1>1, <1>4, <1>9, ContainsAppend
  <2>5. Had(n)' = Had(n)
    BY <1>3, <2>4 DEF Had
  <2>6. Clients(n)' = Clients(n)
    BY <2>5, ClientsCounted
  <2>7. Due(n, k)' = Due(n, k)
    <3>1. ~CountedOn(n, k)
      BY <1>9 DEF CountedOn
    <3> QED
      BY <1>2, <2>6, <3>1 DEF Due
  <2>10. Releasing(n, k)' = Releasing(n, k)
    BY <1>2
  <2>11. ASSUME NEW c \in Nat, Enough(c, n, k)
         PROVE  EnoughNext(c, n, k)
    <3>1. Holders(n, k) + Releasing(n, k) + Due(n, k) <= c + Clients(n)
      BY <2>11 DEF Enough
    <3>2. Holders(n, k)' + Releasing(n, k)' + Due(n, k)' <= c + Clients(n)'
      BY <1>5, <1>6, <2>3, <2>6, <2>7, <2>10, <3>1
    <3> QED
      BY <3>2 DEF EnoughNext
  <2>8. EnoughNext(ref[n][k], n, k)
    BY <1>5, <2>11
  <2>9. Releasing(n, k) = 1 => EnoughNext(rel[3], n, k)
    BY <1>5, <1>7, <2>11
  <2> QED
    BY <1>1, <1>2, <2>8, <2>9
<1> QED
  BY <1>8, <1>9

(* An object takes the next vector, or dies, when nothing is left of the   *)
(* one it reads: what it takes was in its queue.                           *)
LEMMA TakeHeld ==
  ASSUME LoInv, NEW o \in Objects, Recv(o) \/ Release(o)
  PROVE  Held'
<1> SUFFICES ASSUME NEW n \in Messages, NEW k \in 2 .. Len(body'[n])
             PROVE  /\ EnoughNext(ref'[n][k], n, k)
                    /\ Counting(n, k)' => EnoughNext(cnt', n, k)
                    /\ Releasing(n, k)' = 1 => EnoughNext(rel'[3], n, k)
  BY DEF Held, Enough, EnoughNext
<1> Typed
  BY DEF LoInv
<1>1. UNCHANGED <<body, last, hpc, hj, cnt, ref, rel, pushed>> /\ ~Left(o)
  BY DEF Recv, Release, hvars
<1>2. /\ k \in 2 .. Len(body[n]) /\ ref'[n][k] = ref[n][k] /\ Releasing(n, k)' = Releasing(n, k)
      /\ Counting(n, k)' = Counting(n, k) /\ CountedOn(n, k)' = CountedOn(n, k)
  BY <1>1 DEF Releasing, Counting, CountedOn
<1>3. o \notin InHand(n, k)
  <2>1. ASSUME curr[o] # <<>>, curr[o][1] = n, curr[o][2] < k
        PROVE  FALSE
    <3>1. curr[o] \in Messages \X Nat
      BY <2>1 DEF Typed
    <3>2. body[n] \in Seq(Int) /\ curr[o][2] \in Nat /\ curr[o][2] < Len(body[n])
      BY <1>2, <2>1, <3>1 DEF Typed
    <3> QED
      BY <1>1, <2>1, <3>2 DEF Left
  <2> QED
    BY <2>1 DEF InHand
<1>4. ASSUME Holders(n, k)' <= Holders(n, k)
      PROVE  /\ EnoughNext(ref'[n][k], n, k)
             /\ Counting(n, k)' => EnoughNext(cnt', n, k)
             /\ Releasing(n, k)' = 1 => EnoughNext(rel'[3], n, k)
  <2>1. Releasing(n, k)' <= Releasing(n, k)
    BY <1>2, HeldHere
  <2> QED
    BY <1>1, <1>2, <1>4, <2>1, EasedAll
<1>5. CASE Release(o)
  <2>1. /\ args'[o] = <<>> /\ curr'[o] = <<>>
        /\ \A p \in Objects : p # o => args'[p] = args[p] /\ curr'[p] = curr[p]
    BY <1>5 DEF Release, Typed
  <2>2. InQueue(n)' \subseteq InQueue(n) /\ InHand(n, k)' \subseteq InHand(n, k)
    BY <2>1 DEF InQueue, InHand, Contains
  <2> QED
    BY <1>4, <2>2, HoldersChange
<1>6. CASE Recv(o)
  <2>0. life[o] = "open"
    BY <1>6 DEF Recv, Runs, LoInv, Queued
  <2>1. /\ args[o] \in Seq(Messages) /\ args[o] # <<>>
        /\ args'[o] = Tail(args[o]) /\ curr'[o] = <<Head(args[o]), 0>>
        /\ \A p \in Objects : p # o => args'[p] = args[p] /\ curr'[p] = curr[p]
    BY <1>6 DEF Recv, Typed
  <2>2. /\ Head(args[o]) = args[o][1] /\ 1 \in 1 .. Len(args[o])
        /\ \A a \in 1 .. Len(Tail(args[o])) :
             Tail(args[o])[a] = args[o][a + 1] /\ a + 1 \in 2 .. Len(args[o])
    BY <2>1, Taken
  <2>3. InQueue(n)' \subseteq InQueue(n)
    <3>1. \A a \in 2 .. Len(args[o]) : a \in 1 .. Len(args[o])
      BY <2>1
    <3>2. Contains(args'[o], n) => Contains(args[o], n)
      BY <2>1, <2>2, <3>1 DEF Contains
    <3> QED
      BY <2>1, <3>2 DEF InQueue
  <2>4. CASE n # Head(args[o])
    <3>1. InHand(n, k)' \subseteq InHand(n, k)
      BY <2>1, <2>4 DEF InHand
    <3> QED
      BY <1>4, <2>3, <3>1, HoldersChange
  <2>5. CASE n = Head(args[o])
    <3>1. InHand(n, k)' \subseteq InHand(n, k) \cup {o}
      BY <2>1 DEF InHand
    <3>2. o \in InQueue(n)
      BY <2>2, <2>5 DEF InQueue, Contains
    <3>3. o \notin InQueue(n)'
      <4>1. \A a \in 2 .. Len(args[o]) : args[o][a] # args[o][1]
        BY <2>0, QueueDistinct
      <4>2. ~Contains(args'[o], n)
        BY <2>1, <2>2, <2>5, <4>1 DEF Contains
      <4> QED
        BY <4>2 DEF InQueue
    <3> QED
      BY <1>4, <2>3, <3>1, <3>2, <3>3, HoldersChange
  <2> QED
    BY <2>4, <2>5
<1> QED
  BY <1>5, <1>6

(* Who gets an argument no longer holds it, and releases it.               *)
LEMMA GetHeld ==
  ASSUME LoInv, NEW o \in Objects, Get(o)
  PROVE  Held'
<1> SUFFICES ASSUME NEW n \in Messages, NEW k \in 2 .. Len(body'[n])
             PROVE  /\ EnoughNext(ref'[n][k], n, k)
                    /\ Counting(n, k)' => EnoughNext(cnt', n, k)
                    /\ Releasing(n, k)' = 1 => EnoughNext(rel'[3], n, k)
  BY DEF Held, Enough, EnoughNext
<1> Typed
  BY DEF LoInv
<1> DEFINE c == curr[o][1]
           j == curr[o][2] + 1
<1>1. /\ UNCHANGED <<body, last, hpc, hj, cnt, args, ref, pushed>> /\ curr[o] # <<>> /\ rel = <<>>
      /\ curr' = [curr EXCEPT ![o] = IF j = Len(body[c]) THEN <<>> ELSE <<c, j>>]
      /\ rel' = <<c, j, ref[c][j]>>
  BY DEF Get, Left, Runs, VMFree, Inside, hvars
<1>2. c \in Messages /\ curr[o][2] \in Nat /\ j = curr[o][2] + 1
  <2>1. curr[o] \in Messages \X Nat
    BY <1>1 DEF Typed
  <2> QED
    BY <2>1
<1>3. /\ \A p \in Objects : p # o => curr'[p] = curr[p]
      /\ curr'[o] = IF j = Len(body[c]) THEN <<>> ELSE <<c, j>>
  BY <1>1 DEF Typed
<1>4. /\ k \in 2 .. Len(body[n]) /\ ref'[n][k] = ref[n][k] /\ InQueue(n)' \subseteq InQueue(n)
      /\ Counting(n, k)' = Counting(n, k) /\ CountedOn(n, k)' = CountedOn(n, k)
      /\ Releasing(n, k) = 0
      /\ Releasing(n, k)' = IF n = c /\ k = j THEN 1 ELSE 0
  BY <1>1 DEF InQueue, Counting, CountedOn, Releasing
<1> HIDE DEF c, j
<1>5. curr'[o] # <<>> => curr'[o][1] = c /\ curr'[o][2] = j
  BY <1>3
<1>6. InHand(n, k)' \subseteq InHand(n, k)
  BY <1>1, <1>2, <1>3, <1>5 DEF InHand, c
<1>7. /\ ref[n][k] \in Nat /\ cnt \in Nat /\ Holders(n, k) \in Nat
      /\ Enough(ref[n][k], n, k) /\ (Counting(n, k) => Enough(cnt, n, k))
  BY <1>4, HeldHere
<1>8. CASE n = c /\ k = j
  <2>1. o \in InHand(n, k)
    BY <1>1, <1>2, <1>8 DEF InHand, c
  <2>2. InHand(n, k)' \subseteq InHand(n, k) \ {o}
    BY <1>2, <1>5, <1>6, <1>8 DEF InHand
  <2>3. Holders(n, k)' + 1 <= Holders(n, k)
    BY <1>4, <2>1, <2>2, HoldersChange
  <2>4. Holders(n, k)' + Releasing(n, k)' <= Holders(n, k) + Releasing(n, k)
    BY <1>4, <1>7, <1>8, <2>3, HoldersPrimed
  <2>5. EnoughNext(ref[n][k], n, k)
    BY <1>1, <1>4, <1>7, <2>4, Eased
  <2>6. Counting(n, k) => EnoughNext(cnt, n, k)
    BY <1>1, <1>4, <1>7, <2>4, Eased
  <2>7. rel'[3] = ref[n][k]
    BY <1>1, <1>8 DEF c, j
  <2> QED
    BY <1>1, <1>4, <2>5, <2>6, <2>7
<1>9. CASE ~(n = c /\ k = j)
  <2>1. Holders(n, k)' <= Holders(n, k)
    BY <1>4, <1>6, HoldersChange
  <2>2. Releasing(n, k)' = 0
    BY <1>4, <1>9
  <2> QED
    BY <1>1, <1>4, <2>1, <2>2, EasedAll
<1> QED
  BY <1>8, <1>9

(* Every step keeps what is enough.                                        *)
LEMMA StepHeld ==
  ASSUME LoInv, LoNext
  PROVE  Held'
<1>1. \/ Still \/ Increment \/ Put \/ Push
      \/ \E o \in Objects : Recv(o) \/ Release(o)
      \/ \E o \in Objects : Get(o)
      \/ \E k \in Methods : \E m \in Seq(Int) : Handle(k, m)
  BY LoNextCases DEF Quiet, Still
<1> QED
  BY <1>1, StillHeld, IncrementHeld, PutHeld, PushHeld, TakeHeld, GetHeld, HandleHeld

-----------------------------------------------------------------------------
(* Every step of the server and its objects keeps the invariant.           *)
LEMMA StepLoInv ==
  ASSUME LoInv, LoNext
  PROVE  LoInv'
BY StepTyped, StepReferred, StepListed, StepWalking, StepKnown, StepSorted, StepQueued, StepHeld
   DEF LoInv

(* An integer that an OSC integer holds is sent as it is                   *)
(* (lo_message_add_int32); any other becomes some integer.                 *)
LEMMA Int32Exact ==
  ASSUME NEW i \in Int
  PROVE  Int32(i) \in Int /\ (Fits(i) => Int32(i) = i)
<1>1. Half \in Nat \ {0} /\ 2 * Half \in Nat \ {0} /\ i + Half \in Int
  BY OscAssumption
<1>2. (i + Half) % (2 * Half) \in 0 .. 2 * Half - 1
  BY <1>1
<1>3. Fits(i) => i + Half \in 0 .. 2 * Half - 1
  BY <1>1 DEF Fits
<1>4. \A m \in Nat \ {0} : \A a \in 0 .. m - 1 : a % m = a
  OBVIOUS
<1>5. Fits(i) => (i + Half) % (2 * Half) = i + Half
  BY <1>1, <1>3, <1>4
<1>6. Fits(i) => (i + Half) - Half = i
  BY <1>1
<1> QED
  BY <1>1, <1>2, <1>5, <1>6 DEF Int32

(* The message that is made has what is in the block, as far as it fits.   *)
LEMMA MessageMade ==
  ASSUME NEW b \in Seq(Int), NEW m,
         m.body = [k \in DOMAIN b |-> Int32(b[k])], m.added = added
  PROVE  m.body \in Seq(Int) /\ (added = b => Whole(m))
<1>1. DOMAIN b = 1 .. Len(b) /\ Len(b) \in Nat /\ \A k \in 1 .. Len(b) : b[k] \in Int
  OBVIOUS
<1>2. m.added = added /\ m.body = [k \in 1 .. Len(b) |-> Int32(b[k])]
  BY <1>1
<1>3. \A k \in 1 .. Len(b) : Int32(b[k]) \in Int /\ (Fits(b[k]) => Int32(b[k]) = b[k])
  BY <1>1, Int32Exact
<1>4. m.body \in [1 .. Len(b) -> Int]
  BY <1>2, <1>3
<1>5. m.body \in Seq(Int) /\ Len(m.body) = Len(b) /\ DOMAIN m.body = 1 .. Len(b)
  BY <1>1, <1>4
<1> QED
  BY <1>2, <1>3, <1>5 DEF Whole

(* A message joins the network if it is whole, or made of a block that     *)
(* moved.                                                                  *)
LEMMA Joins ==
  ASSUME Sent, NEW m, m.body \in Seq(Int), m.added \in Seq(Int), m.moved \/ Whole(m),
         net' \in {net, net \cup {m}}, block' = <<>>, added' = <<>>
  PROVE  Sent'
<1>1. /\ \A x \in net' : x.body \in Seq(Int) /\ x.added \in Seq(Int)
      /\ SentAsAdded'
  BY DEF Sent, SentAsAdded, Whole, Fits
<1> QED
  BY <1>1, OscAssumption DEF Sent

(* Only add and send change the block and the network.                     *)
LEMMA StepSent ==
  ASSUME Sent, Next
  PROVE  Sent'
<1>1. ASSUME UNCHANGED <<block, added>>, net' \subseteq net, out' # "moved" => out # "moved"
      PROVE  Sent'
  BY <1>1 DEF Sent, SentAsAdded, Whole, Fits
<1>0. ASSUME Len(block) < Len(Ints)
      PROVE  /\ Ints[Len(block) + 1] \in Int /\ added \in Seq(Int) => Append(added, Ints[Len(block) + 1]) \in Seq(Int)
             /\ Append(block, Ints[Len(block) + 1]) \in Seq(Int)
             /\ Len(Append(block, Ints[Len(block) + 1])) = Len(block) + 1
             /\ Len(block) + 1 <= Len(Ints)
  <2>1. Len(block) \in Nat /\ Len(Ints) \in Nat /\ Ints \in Seq(Int) /\ block \in Seq(Int)
    BY OscAssumption DEF Sent
  <2>2. Ints[Len(block) + 1] \in Int
    BY <1>0, <2>1
  <2> QED
    BY <1>0, <2>1, <2>2, Appended
<1>2. CASE AddArg
  <2>1. /\ block' = Append(block, Ints[Len(block) + 1]) /\ out # "moved"
        /\ added' = Append(added, Ints[Len(block) + 1]) /\ net' = net
        /\ Len(block) < Len(Ints)
    BY <1>2 DEF AddArg
  <2>2. block' \in Seq(Int) /\ Len(block') <= Len(Ints) /\ added' = block'
    BY <1>0, <2>1 DEF Sent
  <2> QED
    BY <2>1, <2>2 DEF Sent, SentAsAdded, Whole, Fits
<1>3. CASE AddMoves
  <2>1. Len(block) \in Nat /\ Slots \in Nat /\ Len(Ints) \in Nat
    BY OscAssumption DEF Sent
  <2>2. /\ Len(block) < Len(Ints) /\ out = "open" /\ out' = "moved"
        /\ added' = Append(added, Ints[Len(block) + 1]) /\ UNCHANGED <<block, net>>
    BY <1>3, <2>1 DEF AddMoves
  <2>3. added' \in Seq(Int)
    BY <1>0, <2>2 DEF Sent
  <2> QED
    BY <2>2, <2>3 DEF Sent, SentAsAdded, Whole, Fits
<1>4. CASE Send
  <2> DEFINE m == Message(block, FALSE)
  <2>1. block' = <<>> /\ added' = <<>> /\ net' \in {net, net \cup {m}} /\ added = block
    BY <1>4 DEF Send, Sent
  <2>3. /\ m.body = [k \in DOMAIN block |-> Int32(block[k])] /\ m.added = added
        /\ block \in Seq(Int)
    BY DEF Sent, Message
  <2> HIDE DEF m
  <2>2. m.body \in Seq(Int) /\ m.added \in Seq(Int) /\ Whole(m)
    BY <2>1, <2>3, MessageMade DEF Sent
  <2> QED
    BY <2>1, <2>2, Joins
<1>5. CASE SendMoved
  <2>1. PICK n \in 0 .. Len(block) : net' \in {net, net \cup {Message(SubSeq(block, 1, n), TRUE)}}
    BY <1>5 DEF SendMoved
  <2> DEFINE s == SubSeq(block, 1, n)
             m == Message(s, TRUE)
  <2>2. block' = <<>> /\ added' = <<>> /\ net' \in {net, net \cup {m}} /\ added \in Seq(Int)
    BY <1>5, <2>1 DEF SendMoved, Sent
  <2>3. s \in Seq(Int)
    BY SubSeqProperties DEF Sent
  <2> HIDE DEF s
  <2>5. m.body = [k \in DOMAIN s |-> Int32(s[k])] /\ m.added = added /\ m.moved
    BY DEF Message
  <2> HIDE DEF m
  <2>4. m.body \in Seq(Int) /\ m.added \in Seq(Int)
    BY <2>2, <2>3, <2>5, MessageMade
  <2> QED
    BY <2>2, <2>4, <2>5, Joins
<1>6. CASE UseMoved \/ OutDtor
  <2>1. out' = "dead" /\ block' = <<>> /\ added' = <<>> /\ net' = net
    BY <1>6 DEF UseMoved, OutDtor
  <2>2. Len(Ints) \in Nat
    BY OscAssumption
  <2> QED
    BY <2>1, <2>2 DEF Sent, SentAsAdded, Whole, Fits
<1>7. CASE NewOut \/ (InNext /\ UNCHANGED outVars)
  BY <1>1, <1>7 DEF NewOut, outVars
<1>8. CASE \E k \in Methods : Arrive(k) \/ Elsewhere(k)
  <2>1. UNCHANGED <<out, block, added>> /\ net' \subseteq net
    BY <1>8 DEF Arrive, Elsewhere, outVars
  <2> QED
    BY <1>1, <2>1
<1> QED
  BY <1>2, <1>3, <1>4, <1>5, <1>6, <1>7, <1>8 DEF Next, OutNext

(* A step of the whole is one of the server and its objects, or leaves     *)
(* them as they are: what arrives is a message that was sent.              *)
LEMMA LoStep ==
  ASSUME Sent, Next
  PROVE  LoNext
<1>1. CASE InNext /\ UNCHANGED outVars
  BY <1>1 DEF LoNext
<1>2. CASE OutNext
  <2>1. UNCHANGED loVars
    BY <1>2 DEF OutNext, NewOut, AddArg, AddMoves, Send, SendMoved, UseMoved, OutDtor, vars, loVars,
                mvars, hvars, ovars
  <2> QED
    BY <2>1 DEF LoNext
<1>3. ASSUME NEW k \in Methods, Arrive(k)
      PROVE  LoNext
  BY <1>3 DEF Arrive, LoNext, Sent
<1>4. ASSUME NEW k \in Methods, Elsewhere(k)
      PROVE  LoNext
  <2>1. PICK n \in 1 .. 2 : Handle(k, SubSeq(Ints, 1, n))
    BY <1>4 DEF Elsewhere
  <2>2. SubSeq(Ints, 1, n) \in Seq(Int)
    BY OscAssumption, SubSeqProperties
  <2> QED
    BY <2>1, <2>2 DEF LoNext
<1> QED
  BY <1>1, <1>2, <1>3, <1>4 DEF Next

(* The invariant holds of every behaviour.                                 *)
THEOREM SpecIInv == Spec => []IInv
<1>1. OscInit => IInv
  <2> SUFFICES ASSUME OscInit PROVE IInv
    OBVIOUS
  <2>1. LoInv
    BY InitLoInv DEF OscInit
  <2>2. block = <<>> /\ added = <<>> /\ net = {}
    BY DEF OscInit
  <2>3. Sent
    BY <2>2, OscAssumption DEF Sent, SentAsAdded
  <2> QED
    BY <2>1, <2>3 DEF IInv
<1>2. IInv /\ [Next]_oscVars => IInv'
  <2> SUFFICES ASSUME IInv, [Next]_oscVars PROVE IInv'
    OBVIOUS
  <2>1. CASE Next
    BY <2>1, LoStep, StepLoInv, StepSent DEF IInv
  <2>2. CASE UNCHANGED oscVars
    <3>1. UNCHANGED loVars /\ UNCHANGED outVars
      BY <2>2 DEF oscVars, vars, loVars, mvars, hvars, ovars
    <3>2. LoInv'
      BY <3>1, StepLoInv DEF IInv, LoNext
    <3>3. Sent'
      BY <3>1 DEF IInv, Sent, SentAsAdded, outVars
    <3> QED
      BY <3>2, <3>3 DEF IInv
  <2> QED
    BY <2>1, <2>2
<1> QED
  BY <1>1, <1>2, PTL DEF Spec

(* The count of the server is the number of objects that have not given    *)
(* their reference back, and its thread runs as long as it is not 0        *)
(* (lo.c:196-226).                                                         *)
THEOREM SpecServerCounted == Spec => []ServerCounted
<1>1. IInv => ServerCounted
  BY DEF IInv, LoInv, Referred
<1> QED
  BY <1>1, SpecIInv, PTL

(* What a live object received and has queued is what was pushed on it,    *)
(* each message once and in the order the server received them             *)
(* (osc_method_handler, recv).                                             *)
THEOREM SpecInOrderOnce == Spec => []InOrderOnce
<1>1. IInv => InOrderOnce
  BY DEF IInv, LoInv, Queued, Sorted, InOrderOnce
<1> QED
  BY <1>1, SpecIInv, PTL

(* Whatever updates of its count are lost between the handler and the VM,  *)
(* an argument after the first has a reference for each vector a client    *)
(* can still get it from, but for the clients after the second; and with   *)
(* one or two none is missing (lo.c:28, 265-272).                          *)
THEOREM SpecLaterArgsHeld == Spec => []LaterArgsHeld
<1>1. IInv => LaterArgsHeld
  <2> SUFFICES ASSUME IInv, NEW n \in Messages, NEW k \in 2 .. Len(body[n])
               PROVE  Holders(n, k) <= ref[n][k] + (IF Clients(n) <= 2 THEN 0 ELSE Clients(n) - 2)
    BY DEF LaterArgsHeld
  <2>1. /\ Enough(ref[n][k], n, k)
        /\ ref[n][k] \in Nat /\ Holders(n, k) \in Nat /\ Releasing(n, k) \in {0, 1}
        /\ Clients(n) \in Nat
        /\ Clients(n) = 0 => Holders(n, k) = 0 /\ Releasing(n, k) = 0
    BY HeldHere DEF IInv
  <2>2. Clients(n) # 0 => Due(n, k) = 2
    BY DEF Due
  <2> QED
    BY <2>1, <2>2 DEF Enough
<1> QED
  BY <1>1, SpecIInv, PTL

(* A message has what was added since the last send, as far as an OSC      *)
(* integer holds it, unless an argument made the block move                *)
(* (lo.c:38-63, 74-82).                                                    *)
THEOREM SpecSentAsAdded == Spec => []SentAsAdded
<1>1. IInv => SentAsAdded
  BY DEF IInv, Sent
<1> QED
  BY <1>1, SpecIInv, PTL

=============================================================================

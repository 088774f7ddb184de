--------------------------------- MODULE Lo ---------------------------------
(***************************************************************************)
(* The OSC server of the Lo plug-in (Lo/lo.c): one port, the OscIn objects *)
(* that share it, the methods (path and type) they add, and the liblo      *)
(* thread that runs a handler for each message received.  Osc adds the     *)
(* objects that send them.                                                 *)
(*                                                                         *)
(* The handler makes one argument vector per message and queues a copy of  *)
(* it on every client of the method; the arguments themselves are shared   *)
(* and counted.  The handler counts up and the virtual machine counts down *)
(* without a common lock: each reads the count in one step and writes it   *)
(* in another.  The server lives as long as some OscIn refers to it.       *)
(*                                                                         *)
(* Broadcasting under the shreduler's mutex is one step (PortMidi has the  *)
(* two mutexes in detail), and a method of the VM that finds an object's   *)
(* mutex taken is simply not ready.  One shred listens to each object.     *)
(***************************************************************************)
EXTENDS Integers, Sequences, FiniteSets, SequencesExt

CONSTANTS Objects,      \* the OscIn objects
          Methods,      \* the (path, type) pairs
          MaxMessages,  \* bound: number of messages received
          MaxAdds,      \* bound: number of calls of add for one method
          NoMethod      \* what an idle handler works on

ASSUME LoAssumption ==
  /\ IsFiniteSet(Objects)
  /\ NoMethod \notin Methods
  /\ MaxMessages \in Nat
  /\ MaxAdds \in Nat

Messages == 1 .. MaxMessages

VARIABLES
  life,    \* of each object: "new", "open", "closing", "stopping" or "dead"
  server,  \* s->ref, and whether the thread runs: "none", "up", "freed"
  client,  \* m->client of each method; a method is made by the first add
  mref,    \* m->ref of each method; 0 when there is no such LoMethod
  ref,     \* arg->ref of each argument of each message
  body,    \* the arguments of each message received
  hm,      \* the method whose handler runs
  hpc,     \* where the handler is
  hi,      \* the client it is at
  hj,      \* the argument it counts for this client
  cnt,     \* the count of that argument it has read
  last,    \* the last message received
  mutex,   \* whether the handler holds loin->mutex of an object
  args,    \* loin->args: the messages queued on each object
  curr,    \* loin->curr: <<message, arguments already taken>> or <<>>
  spc,     \* the shred of an object: "ready", "waiting", "woken", or inside "recv"
  rel,     \* <<message, argument, count read>> while the VM releases one, or <<>>
  got,     \* history: the messages recv returned, for each object
  pushed,  \* history: the messages the handler queued, for each object
  crashed  \* the process died of a use after free

vars == <<life, server, client, mref, ref, body, hm, hpc, hi, hj, cnt, last,
          mutex, args, curr, spc, rel, got, pushed, crashed>>

hvars == <<hm, hpc, hi, hj, cnt, last, body>>   \* the handler's own state
mvars == <<server, client, mref>>               \* the server and its methods
ovars == <<args, curr, got, pushed>>            \* the objects' queues

NoServer == [ref |-> 0, thread |-> "none"]

(* Only the objects of `made` will ever be made. *)
Init(made) ==
  /\ life = [o \in Objects |-> IF o \in made THEN "new" ELSE "dead"]
  /\ server = NoServer
  /\ client = [k \in Methods |-> <<>>]
  /\ mref = [k \in Methods |-> 0]
  /\ ref = [n \in Messages |-> <<>>]
  /\ body = [n \in Messages |-> <<>>]
  /\ hm = NoMethod
  /\ hpc = "idle"
  /\ hi = 1
  /\ hj = 1
  /\ cnt = 0
  /\ last = 0
  /\ mutex = [o \in Objects |-> FALSE]
  /\ args = [o \in Objects |-> <<>>]
  /\ curr = [o \in Objects |-> <<>>]
  /\ spc = [o \in Objects |-> "ready"]
  /\ rel = <<>>
  /\ got = [o \in Objects |-> <<>>]
  /\ pushed = [o \in Objects |-> <<>>]
  /\ crashed = FALSE

(* The VM is between two operations of the program: it releases nothing    *)
(* and is in no recv or destructor. *)
VMFree == /\ ~crashed
          /\ rel = <<>>
          /\ \A o \in Objects : life[o] \notin {"closing", "stopping"} /\ spc[o] # "recv"
Runs(o) == VMFree /\ life[o] = "open" /\ spc[o] # "waiting"

(* It is inside recv or the destructor of an object. *)
Inside(o) == ~crashed /\ rel = <<>> /\ (life[o] = "closing" \/ spc[o] = "recv")

Dec(c) == IF c = 0 THEN 0 ELSE c - 1

(* An argument whose count is 0 has been freed, and stays so whatever is   *)
(* written there. *)
Written(n, k, c) == ref' = [ref EXCEPT ![n][k] = IF @ = 0 THEN 0 ELSE c]

(* Something is left of the vector that is being read. *)
Left(o) == curr[o] # <<>> /\ curr[o][2] < Len(body[curr[o][1]])

(* The handler comes to its end. *)
Return == /\ hpc' = "idle"
          /\ hm' = NoMethod
          /\ hj' = 1
          /\ cnt' = 0

-----------------------------------------------------------------------------
(* OscIn                                                                   *)

(* Mutant: a server found in the map is not counted. *)
NewUncounted(o) ==
  /\ VMFree
  /\ life[o] = "new"
  /\ life' = [life EXCEPT ![o] = "open"]
  /\ server' = IF server.thread = "up" THEN server
               ELSE [ref |-> 1, thread |-> "up"]
  /\ UNCHANGED <<client, mref, ref, hvars, mutex, ovars, spc, rel, crashed>>

(* new OscIn(port): the server of the port is found or started, and        *)
(* counted.                                                                *)
New(o) ==
  /\ VMFree
  /\ life[o] = "new"
  /\ life' = [life EXCEPT ![o] = "open"]
  /\ server' = [ref |-> server.ref + 1, thread |-> "up"]
  /\ UNCHANGED <<client, mref, ref, hvars, mutex, ovars, spc, rel, crashed>>

(* A new server cannot be had: an exception is raised.  What the machine   *)
(* does with the object then is external; if it runs the destructor, that  *)
(* one finds no server.                                                    *)
NewFails(o) ==
  /\ VMFree
  /\ life[o] = "new"
  /\ server.thread = "none"
  /\ life' = [life EXCEPT ![o] = "dead"]
  /\ crashed' \in BOOLEAN
  /\ UNCHANGED <<mvars, ref, hvars, mutex, ovars, spc, rel>>

(* oin.add(path, type): the method is found or made, and counted; the      *)
(* object becomes its client once.                                         *)
Client(o, k) ==
  /\ Runs(o)
  /\ mref[k] < MaxAdds
  /\ mref' = [mref EXCEPT ![k] = @ + 1]
  /\ client' = [client EXCEPT ![k] = IF Contains(@, o) THEN @ ELSE Append(@, o)]

Add(o, k) ==
  /\ Client(o, k)
  /\ UNCHANGED <<life, server, ref, hvars, mutex, ovars, spc, rel, crashed>>

(* The vector grows and moves while the handler looks into it: the process *)
(* dies, or the handler goes on with what it finds there and returns.      *)
AddRaces(o, k) ==
  /\ Client(o, k)
  /\ hm = k
  /\ hpc \in {"each", "count"}
  /\ ~Contains(client[k], o)
  /\ crashed' \in BOOLEAN
  /\ Return
  /\ UNCHANGED <<life, server, ref, hi, last, body, mutex, ovars, spc, rel>>

(* oin => now *)
Wait(o) ==
  /\ Runs(o)
  /\ spc' = [spc EXCEPT ![o] = "waiting"]
  /\ UNCHANGED <<life, mvars, ref, hvars, mutex, ovars, rel, crashed>>

(* Mutant: recv hands out the newest vector. *)
RecvNewest(o) ==
  /\ Runs(o) \/ (Inside(o) /\ spc[o] = "recv")
  /\ ~mutex[o]
  /\ args[o] # <<>>
  /\ ~Left(o)
  /\ curr' = [curr EXCEPT ![o] = <<Last(args[o]), 0>>]
  /\ args' = [args EXCEPT ![o] = Front(@)]
  /\ got' = [got EXCEPT ![o] = Append(@, Last(args[o]))]
  /\ spc' = [spc EXCEPT ![o] = "ready"]
  /\ UNCHANGED <<life, mvars, ref, hvars, mutex, rel, pushed, crashed>>

(* oin.recv(), with the object's mutex: what is left of the current vector *)
(* is released first ...                                                   *)
RecvClears(o) ==
  /\ Runs(o)
  /\ ~mutex[o]
  /\ args[o] # <<>>
  /\ Left(o)
  /\ spc' = [spc EXCEPT ![o] = "recv"]
  /\ UNCHANGED <<life, mvars, ref, hvars, mutex, ovars, rel, crashed>>

(* ... and the oldest one becomes the current one.  An empty queue changes *)
(* nothing.                                                                *)
Recv(o) ==
  /\ Runs(o) \/ (Inside(o) /\ spc[o] = "recv")
  /\ ~mutex[o]
  /\ args[o] # <<>>
  /\ ~Left(o)
  /\ curr' = [curr EXCEPT ![o] = <<Head(args[o]), 0>>]
  /\ args' = [args EXCEPT ![o] = Tail(@)]
  /\ got' = [got EXCEPT ![o] = Append(@, Head(args[o]))]
  /\ spc' = [spc EXCEPT ![o] = "ready"]
  /\ UNCHANGED <<life, mvars, ref, hvars, mutex, rel, pushed, crashed>>

(* oin => var int i, or a turn of clear_curr: the next argument is taken   *)
(* out of the vector, which goes when it is empty, and released: its count *)
(* is read ...  (A program that gets more than the message has is not      *)
(* considered.)                                                            *)
Get(o) ==
  /\ Runs(o) \/ Inside(o)
  /\ Left(o)
  /\ LET n == curr[o][1]
         k == curr[o][2] + 1
     IN  /\ rel' = <<n, k, ref[n][k]>>
         /\ curr' = [curr EXCEPT ![o] = IF k = Len(body[n]) THEN <<>> ELSE <<n, k>>]
  /\ UNCHANGED <<life, mvars, ref, hvars, mutex, args, got, pushed, spc, crashed>>

(* ... and one less is written. *)
Put ==
  /\ ~crashed
  /\ rel # <<>>
  /\ Written(rel[1], rel[2], Dec(rel[3]))
  /\ rel' = <<>>
  /\ UNCHANGED <<life, mvars, hvars, mutex, ovars, spc, crashed>>

-----------------------------------------------------------------------------
(* The liblo thread (osc_method_handler)                                   *)

Up == ~crashed /\ server.thread = "up"

(* A message for a method arrives: its arguments are made, counted once.   *)
(* (One with an argument type the handler does not know is dropped whole.) *)
Handle(k, m) ==
  /\ Up
  /\ hpc = "idle"
  /\ mref[k] > 0
  /\ last < MaxMessages
  /\ last' = last + 1
  /\ body' = [body EXCEPT ![last + 1] = m]
  /\ ref' = [ref EXCEPT ![last + 1] = [j \in DOMAIN m |-> 1]]
  /\ hm' = k
  /\ hi' = 1
  /\ hpc' = "each"
  /\ UNCHANGED <<life, mvars, hj, cnt, mutex, ovars, spc, rel, crashed>>

(* Mutant: the clients are walked under a lock the machine holds while it  *)
(* is inside recv or a destructor.                                         *)
EachNeedsVM ==
  /\ Up
  /\ VMFree
  /\ hpc = "each"
  /\ mref[hm] > 0
  /\ hi <= Len(client[hm])
  /\ hj' = 2
  /\ hpc' = "count"
  /\ UNCHANGED <<life, mvars, ref, hm, hi, cnt, last, body, mutex, ovars, spc, rel, crashed>>

(* For each client ... *)
Each ==
  /\ Up
  /\ hpc = "each"
  /\ mref[hm] > 0
  /\ hi <= Len(client[hm])
  /\ hj' = 2
  /\ hpc' = "count"
  /\ UNCHANGED <<life, mvars, ref, hm, hi, cnt, last, body, mutex, ovars, spc, rel, crashed>>

EachDone ==
  /\ Up
  /\ hpc = "each"
  /\ mref[hm] > 0
  /\ hi > Len(client[hm])
  /\ Return
  /\ UNCHANGED <<life, mvars, ref, hi, last, body, mutex, ovars, spc, rel, crashed>>

(* ... all arguments but the first are counted once more: the count is     *)
(* read ...                                                                *)
Count ==
  /\ Up
  /\ hpc = "count"
  /\ mref[hm] > 0
  /\ hj <= Len(body[last])
  /\ cnt' = ref[last][hj]
  /\ hpc' = "increment"
  /\ UNCHANGED <<life, mvars, ref, hm, hi, hj, last, body, mutex, ovars, spc, rel, crashed>>

(* Mutant: the count is not written. *)
IncrementNot ==
  /\ Up
  /\ hpc = "increment"
  /\ mref[hm] > 0
  /\ hj' = hj + 1
  /\ cnt' = 0
  /\ hpc' = "count"
  /\ UNCHANGED <<life, mvars, ref, hm, hi, last, body, mutex, ovars, spc, rel, crashed>>

(* ... and one more is written.                                            *)
Increment ==
  /\ Up
  /\ hpc = "increment"
  /\ mref[hm] > 0
  /\ Written(last, hj, cnt + 1)
  /\ hj' = hj + 1
  /\ cnt' = 0
  /\ hpc' = "count"
  /\ UNCHANGED <<life, mvars, hm, hi, last, body, mutex, ovars, spc, rel, crashed>>

Counted ==
  /\ Up
  /\ hpc = "count"
  /\ mref[hm] > 0
  /\ hj > Len(body[last])
  /\ hj' = 1
  /\ hpc' = "lock"
  /\ UNCHANGED <<life, mvars, ref, hm, hi, cnt, last, body, mutex, ovars, spc, rel, crashed>>

At == client[hm][hi]
Reachable == life[At] \in {"open", "closing"}

(* A copy of the vector is queued on the client under its mutex, ... *)
Lock ==
  /\ Up
  /\ hpc = "lock"
  /\ mref[hm] > 0
  /\ Reachable
  /\ spc[At] # "recv"
  /\ mutex' = [mutex EXCEPT ![At] = TRUE]
  /\ hpc' = "push"
  /\ UNCHANGED <<life, mvars, ref, hm, hi, hj, cnt, last, body, ovars, spc, rel, crashed>>

Push ==
  /\ Up
  /\ hpc = "push"
  /\ mref[hm] > 0
  /\ Reachable
  /\ args' = [args EXCEPT ![At] = Append(@, last)]
  /\ pushed' = [pushed EXCEPT ![At] = Append(@, last)]
  /\ mutex' = [mutex EXCEPT ![At] = FALSE]
  /\ hpc' = "broadcast"
  /\ UNCHANGED <<life, mvars, ref, hm, hi, hj, cnt, last, body, curr, got, spc, rel, crashed>>

(* ... and the shred that waits on it is woken. *)
Broadcast ==
  /\ Up
  /\ hpc = "broadcast"
  /\ mref[hm] > 0
  /\ Reachable
  /\ spc' = [spc EXCEPT ![At] = IF @ = "waiting" THEN "woken" ELSE @]
  /\ hi' = hi + 1
  /\ hpc' = "each"
  /\ UNCHANGED <<life, mvars, ref, hm, hj, cnt, last, body, mutex, ovars, rel, crashed>>

(* A client that was destroyed is still on the method's list, and a method *)
(* may be freed under its handler: the process dies, or the handler goes   *)
(* on with what the memory holds and returns.  The vector of a client      *)
(* whose destructor has begun may be released already.                     *)
TouchFreed ==
  /\ Up
  /\ \/ hpc \in {"lock", "push", "broadcast"} /\ mref[hm] > 0 /\ life[At] # "open"
     \/ hpc # "idle" /\ mref[hm] = 0
  /\ crashed' \in BOOLEAN
  /\ Return
  /\ mutex' = [o \in Objects |-> FALSE]
  /\ UNCHANGED <<life, mvars, ref, hi, last, body, ovars, spc, rel>>

-----------------------------------------------------------------------------
(* The destructor of an OscIn                                              *)

(* What is left of the vector it was reading is released, ... *)
Close(o) ==
  /\ Runs(o)
  /\ life' = [life EXCEPT ![o] = "closing"]
  /\ UNCHANGED <<mvars, ref, hvars, mutex, ovars, spc, rel, crashed>>

(* ... the object's vectors go (but it stays on the clients of its         *)
(* methods); the server is released, and with the last reference its       *)
(* methods are, each once, before the thread is stopped.                   *)
Release(o) ==
  /\ Inside(o)
  /\ life[o] = "closing"
  /\ ~Left(o)
  /\ curr' = [curr EXCEPT ![o] = <<>>]
  /\ args' = [args EXCEPT ![o] = <<>>]
  /\ IF server.ref = 1
       THEN /\ life' = [life EXCEPT ![o] = "stopping"]
            /\ server' = [server EXCEPT !.ref = 0]
            /\ mref' = [k \in Methods |-> Dec(mref[k])]
            /\ client' = [k \in Methods |-> IF mref[k] <= 1 THEN <<>> ELSE client[k]]
       ELSE /\ life' = [life EXCEPT ![o] = "dead"]
            /\ server' = [server EXCEPT !.ref = @ - 1]
            /\ UNCHANGED <<client, mref>>
  /\ UNCHANGED <<ref, hvars, mutex, got, pushed, spc, rel, crashed>>

(* lo_server_thread_stop waits for the handler; the server is freed, and   *)
(* with it the methods that were added more than once are forgotten.       *)
Stop(o) ==
  /\ ~crashed
  /\ life[o] = "stopping"
  /\ hpc = "idle"
  /\ life' = [life EXCEPT ![o] = "dead"]
  /\ server' = NoServer
  /\ mref' = [k \in Methods |-> 0]
  /\ client' = [k \in Methods |-> <<>>]
  /\ UNCHANGED <<ref, hvars, mutex, ovars, spc, rel, crashed>>

-----------------------------------------------------------------------------
HandlerNext ==
  Each \/ EachDone \/ Count \/ Increment \/ Counted \/ Lock \/ Push \/ Broadcast \/ TouchFreed

InNext ==
  \/ HandlerNext
  \/ Put
  \/ \E o \in Objects :
       \/ New(o) \/ NewFails(o) \/ Wait(o) \/ RecvClears(o) \/ Recv(o) \/ Get(o)
       \/ Close(o) \/ Release(o) \/ Stop(o)
       \/ \E k \in Methods : Add(o, k) \/ AddRaces(o, k)

-----------------------------------------------------------------------------
(* Properties                                                              *)

(* The server's thread runs as long as, and no longer than, some OscIn     *)
(* refers to it: its count is the number of objects that have not given    *)
(* their reference back.                                                   *)
ServerCounted ==
  /\ server.ref = Cardinality({o \in Objects : life[o] \in {"open", "closing"}})
  /\ server.ref > 0 => server.thread = "up"
  /\ server.thread = "none" => hpc = "idle"

(* Each live object receives the messages of its methods in the order the  *)
(* server received them, each once, however often it added the method.     *)
InOrderOnce ==
  \A o \in Objects :
    life[o] = "open" =>
      /\ got[o] \o args[o] = pushed[o]
      /\ \A a, b \in 1 .. Len(pushed[o]) : a < b => pushed[o][a] < pushed[o][b]

(* How many vectors still hold argument k of message n, and how many       *)
(* clients the message was queued on.                                      *)
Holders(n, k) ==
  Cardinality({o \in Objects : Contains(args[o], n)})
  + Cardinality({o \in Objects : curr[o] # <<>> /\ curr[o][1] = n /\ curr[o][2] < k})
Clients(n) == Cardinality({o \in Objects : Contains(pushed[o], n)})

(* However the handler's counting up (lo.c:271) and the releases (lo.c:28) *)
(* interleave, a client after the second can cost an argument other than   *)
(* the first one reference, and nothing else can: with one or two clients  *)
(* it is not freed while one of them can still get it.                     *)
LaterArgsHeld ==
  \A n \in Messages : \A k \in 2 .. Len(body[n]) :
    Holders(n, k) <= ref[n][k] + (IF Clients(n) <= 2 THEN 0 ELSE Clients(n) - 2)

(* "Get an `name` from the message" (lo.c:489): what a client gets next    *)
(* has not been freed.                                                     *)
GetsFromTheMessage ==
  \A o \in Objects : Left(o) => ref[curr[o][1]][curr[o][2] + 1] > 0

(* The destructor that stops the server's thread never blocks the virtual  *)
(* machine for good: no handler waits for something the VM holds.          *)
StopEnds ==
  \A o \in Objects : (life[o] = "stopping") ~> (life[o] = "dead" \/ crashed)

=============================================================================

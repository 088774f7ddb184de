----------------------------- MODULE WebSocket -----------------------------
(***************************************************************************)
(* The WebSocket class of WebSocket/server.c: the virtual machine queues   *)
(* strings under the object's mutex; a service thread runs the library's   *)
(* event loop and hands the whole queue to the first client the library    *)
(* says may be written to.                                                 *)
(*                                                                         *)
(* The library is external: one lws_service call accepts, drops, hears or  *)
(* finds writable some clients, or is woken by lws_cancel_service.         *)
(***************************************************************************)
EXTENDS Naturals, Sequences, Functions

CONSTANTS Clients,      \* the peers that may connect
          MaxMessages   \* bound: number of strings sent

ASSUME WebSocketAssumption == MaxMessages \in Nat

VARIABLES
  run,        \* ws->run
  cancelled,  \* lws_cancel_service left its mark in the event loop
  mutex,      \* holder of ws->mutex: "vm", "thread" or "none"
  v,          \* ws->v, the messages as the numbers of the sends
  vm,         \* where the virtual machine is: in send, in the destructor
  th,         \* where ws_process is
  wsi,        \* the client whose SERVER_WRITEABLE the thread is in
  i,          \* the index of the loop of line 130
  online,     \* the clients the library has accepted
  writable,   \* those whose writable callback is requested
  heard,      \* history: those for which a message from a client asked for it
  sent,       \* history: number of messages queued
  wire,       \* history: [to, msg] of every lws_write, in order
  freed       \* history: the messages given back to the pool, in order

vars == <<run, cancelled, mutex, v, vm, th, wsi, i, online, writable, heard,
          sent, wire, freed>>
library == <<online, writable, heard>>
hist == <<sent, wire, freed>>
stop == <<run, cancelled>>

(* new WebSocket(port) *)
Init == /\ run = TRUE
        /\ cancelled = FALSE
        /\ mutex = "none"
        /\ v = <<>>
        /\ vm = "idle"
        /\ th = "test"
        /\ wsi \in Clients
        /\ i = 0
        /\ online = {}
        /\ writable = {}
        /\ heard = {}
        /\ sent = 0
        /\ wire = <<>>
        /\ freed = <<>>

-----------------------------------------------------------------------------
(* send: copy the string, then add it to the vector under the mutex.       *)

Send == /\ vm = "idle"
        /\ sent < MaxMessages
        /\ vm' = "lock"
        /\ UNCHANGED <<stop, mutex, v, th, wsi, i, library, hist>>

(* Mutant: send does not take the mutex. *)
SendLockFree == /\ vm = "lock"
                /\ vm' = "add"
                /\ UNCHANGED <<stop, mutex, v, th, wsi, i, library, hist>>

SendLock == /\ vm = "lock"
            /\ mutex = "none"
            /\ mutex' = "vm"
            /\ vm' = "add"
            /\ UNCHANGED <<stop, v, th, wsi, i, library, hist>>

SendAdd == /\ vm = "add"
           /\ v' = Append(v, sent + 1)
           /\ sent' = sent + 1
           /\ mutex' = "none"
           /\ vm' = "idle"
           /\ UNCHANGED <<stop, th, wsi, i, library, wire, freed>>

-----------------------------------------------------------------------------
(* The destructor stops the loop, wakes it and joins the thread before it  *)
(* frees what is left.                                                     *)

(* Mutant: the event loop is not woken. *)
DtorNoWake == /\ vm = "idle"
              /\ run' = FALSE
              /\ vm' = "join"
              /\ UNCHANGED <<cancelled, mutex, v, th, wsi, i, library, hist>>

Dtor == /\ vm = "idle"
        /\ run' = FALSE
        /\ cancelled' = TRUE
        /\ vm' = "join"
        /\ UNCHANGED <<mutex, v, th, wsi, i, library, hist>>

DtorJoin == /\ vm = "join"
            /\ th = "ended"
            /\ freed' = freed \o v
            /\ v' = <<>>
            /\ vm' = "gone"
            /\ UNCHANGED <<stop, mutex, th, wsi, i, library, sent, wire>>

-----------------------------------------------------------------------------
(* ws_process and the callbacks the library makes from its event loop.     *)

Test == /\ th = "test"
        /\ th' = IF run THEN "service" ELSE "ended"
        /\ UNCHANGED <<stop, mutex, v, vm, wsi, i, library, hist>>

(* One call may deal with several events before it returns. *)
Served == th = "service" /\ th' \in {"service", "test"}

Connect(c) == /\ Served
              /\ c \notin online
              /\ online' = online \cup {c}
              /\ UNCHANGED <<stop, mutex, v, vm, wsi, i, writable, heard, hist>>

Leave(c) == /\ Served
            /\ c \in online
            /\ online' = online \ {c}
            /\ writable' = writable \ {c}
            /\ heard' = heard \ {c}
            /\ UNCHANGED <<stop, mutex, v, vm, wsi, i, hist>>

(* LWS_CALLBACK_RECEIVE: ask for the writable callback of every client.    *)
Receive(c) == /\ Served
              /\ c \in online
              /\ writable' = online
              /\ heard' = online
              /\ UNCHANGED <<stop, mutex, v, vm, wsi, i, online, hist>>

(* lws_cancel_service makes the call return. *)
Woken == /\ th = "service"
         /\ cancelled
         /\ cancelled' = FALSE
         /\ th' = "test"
         /\ UNCHANGED <<run, mutex, v, vm, wsi, i, library, hist>>

(* LWS_CALLBACK_SERVER_WRITEABLE *)
Writeable(c) == /\ th = "service"
                /\ c \in writable
                /\ writable' = writable \ {c}
                /\ wsi' = c
                /\ th' = "lock"
                /\ UNCHANGED <<stop, mutex, v, vm, i, online, heard, hist>>

Lock == /\ th = "lock"
        /\ mutex = "none"
        /\ mutex' = "thread"
        /\ i' = 0
        /\ th' = "write"
        /\ UNCHANGED <<stop, v, vm, wsi, library, hist>>

Write == /\ th = "write"
         /\ i < Len(v)
         /\ wire' = Append(wire, [to |-> wsi, msg |-> v[i + 1]])
         /\ freed' = Append(freed, v[i + 1])
         /\ i' = i + 1
         /\ UNCHANGED <<stop, mutex, v, vm, th, wsi, library, sent>>

WriteEnd == /\ th = "write"
            /\ i >= Len(v)
            /\ th' = "clear"
            /\ UNCHANGED <<stop, mutex, v, vm, wsi, i, library, hist>>

(* Mutant: the vector keeps the messages it handed to the pool. *)
ClearNot == /\ th = "clear"
            /\ mutex' = "none"
            /\ th' = "request"
            /\ UNCHANGED <<stop, v, vm, wsi, i, library, hist>>

Clear == /\ th = "clear"
         /\ v' = <<>>
         /\ mutex' = "none"
         /\ th' = "request"
         /\ UNCHANGED <<stop, vm, wsi, i, library, hist>>

(* Mutant: the callback does not ask to be called again. *)
RequestNot == /\ th = "request"
              /\ th' \in {"service", "test"}
              /\ UNCHANGED <<stop, mutex, v, vm, wsi, i, library, hist>>

Request == /\ th = "request"
           /\ writable' = online
           /\ th' \in {"service", "test"}
           /\ UNCHANGED <<stop, mutex, v, vm, wsi, i, online, heard, hist>>

-----------------------------------------------------------------------------
VM == Send \/ SendLock \/ SendAdd \/ Dtor \/ DtorJoin
Peers == \E c \in Clients : Connect(c) \/ Leave(c) \/ Receive(c)
Thread == Test \/ Woken \/ Lock \/ Write \/ WriteEnd \/ Clear \/ Request
          \/ \E c \in Clients : Writeable(c)

Next == VM \/ Peers \/ Thread

(* The operating system runs both threads, and the event loop looks at     *)
(* every descriptor that stays ready.                                      *)
Fairness == /\ WF_vars(SendLock \/ SendAdd \/ DtorJoin)
            /\ SF_vars(SendLock)
            /\ WF_vars(Test \/ Write \/ WriteEnd \/ Clear \/ Request)
            /\ SF_vars(Lock)
            /\ SF_vars(Woken)
            /\ \A c \in Clients : SF_vars(Writeable(c))

Spec == Init /\ [][Next]_vars
FairSpec == Spec /\ Fairness

-----------------------------------------------------------------------------
Messages == 1 .. MaxMessages
Written == {wire[n].msg : n \in DOMAIN wire}

(* Every variable stays in its type. *)
TypeOK ==
  /\ run \in BOOLEAN /\ cancelled \in BOOLEAN
  /\ mutex \in {"none", "vm", "thread"}
  /\ v \in Seq(Messages)
  /\ vm \in {"idle", "lock", "add", "join", "gone"}
  /\ th \in {"test", "service", "lock", "write", "clear", "request", "ended"}
  /\ wsi \in Clients /\ i \in 0 .. MaxMessages
  /\ online \subseteq Clients /\ writable \subseteq online /\ heard \subseteq online
  /\ sent \in 0 .. MaxMessages
  /\ wire \in Seq([to : Clients, msg : Messages])
  /\ freed \in Seq(Messages)

(* What the loop of line 130 has not reached yet. *)
Pending == IF th \in {"write", "clear"} THEN SubSeq(v, i + 1, Len(v)) ELSE v

(* Each string sent is written at most once, to one client, in the order   *)
(* of the sends; what is not on the wire is still queued, or was dropped   *)
(* by the destructor.                                                      *)
OneClientEach ==
  /\ \A n \in DOMAIN wire : wire[n].msg = n
  /\ vm # "gone" => Len(wire) + Len(Pending) = sent

(* The pool gets back each message once: no string is freed twice between  *)
(* the callback and the destructor, and none is leaked by then.            *)
FreedOnce == /\ IsInjective(freed)
             /\ vm = "gone" => Len(freed) = sent

(* While some client that was heard stays, every string is written in the  *)
(* end, however the clients come and go, unless the object goes first.     *)
Drains == \A n \in Messages :
            (n <= sent /\ heard # {}) ~> (n \in Written \/ ~run \/ heard = {})

(* The destructor ends: the thread it joins leaves its event loop.         *)
DtorEnds == (vm = "join") ~> (vm = "gone")

=============================================================================

------------------------------ MODULE PortMidi ------------------------------
(***************************************************************************)
(* The PortMidi plug-in's input (PortMidi/portmidi.c): one MidiIn object,  *)
(* its receiving thread and the shreds that listen to it.                  *)
(*                                                                         *)
(* Two mutexes are involved: the object's own, which guards the message    *)
(* vector, and the shreduler's (bbq), which the thread takes to broadcast  *)
(* and the virtual machine takes to park or resume a shred.  The thread    *)
(* has no exit: the destructor releases the vector, asks for cancellation  *)
(* and closes the stream without waiting for it.                           *)
(***************************************************************************)
EXTENDS Naturals, Sequences

CONSTANTS Shreds,      \* the shreds that hold a reference to the object
          Loopers,     \* those of them that run the loop of test_loop.gw
          MaxEvents,   \* bound: number of messages the device produces
          NoOne,       \* owner of a free mutex, and of an idle VM
          Reader       \* the receiving thread

PortMidiAssumption ==
  /\ Loopers \subseteq Shreds
  /\ NoOne \notin Shreds
  /\ Reader \notin Shreds
  /\ NoOne # Reader
  /\ MaxEvents \in Nat

VARIABLES
  life,     \* "new", "open", "failed", then "released" and "closed"
  cancel,   \* pthread_cancel was called on the thread
  crashed,  \* the process died of a use after release
  rpc,      \* where the thread is; "none" before it is created
  hand,     \* the message the thread holds
  rlen,     \* the size m_vector_add read before it stores
  mutex,    \* owner of info->mutex
  bbq,      \* owner of the shreduler's mutex
  msg,      \* info->msg
  vm,       \* the shred that is inside a method of the object
  spc,      \* where each shred is
  ret,      \* what the last read of each shred returned
  sent,     \* history: the messages the thread stored
  log       \* history: the messages read handed out, oldest first

vars == <<life, cancel, crashed, rpc, hand, rlen, mutex, bbq, msg, vm, spc,
          ret, sent, log>>

rvars == <<rpc, hand, rlen>>
dvars == <<life, cancel, crashed>>
locks == <<mutex, bbq>>
qvars == <<msg, sent, log>>
svars == <<vm, spc, ret>>

(* What Pm_Read leaves in its buffer when it fails (an overflow): the      *)
(* event is uninitialised and its message is queued all the same.          *)
Garbage == 0
Items == {Garbage} \cup 1 .. MaxEvents

Init ==
  /\ life = "new"
  /\ cancel = FALSE
  /\ crashed = FALSE
  /\ rpc = "none"
  /\ hand = Garbage
  /\ rlen = 0
  /\ mutex = NoOne
  /\ bbq = NoOne
  /\ msg = <<>>
  /\ vm = NoOne
  /\ spc = [s \in Shreds |-> "ready"]
  /\ ret = [s \in Shreds |-> FALSE]
  /\ sent = <<>>
  /\ log = <<>>

-----------------------------------------------------------------------------
(* new MidiIn(device)                                                      *)

Open ==
  /\ life = "new"
  /\ life' = "open"
  /\ rpc' = "poll"
  /\ UNCHANGED <<cancel, crashed, hand, rlen, locks, qvars, svars>>

(* Pm_OpenInput fails: InvalidMidiIn drops the only reference; the         *)
(* destructor finds no thread to cancel.                                   *)
OpenFail(s) ==
  /\ life = "new"
  /\ life' = "failed"
  /\ vm' = s
  /\ spc' = [t \in Shreds |-> IF t = s THEN "release" ELSE "gone"]
  /\ UNCHANGED <<cancel, crashed, rvars, locks, qvars, ret>>

-----------------------------------------------------------------------------
(* The receiving thread (pm_recv)                                          *)

Alive == ~crashed

(* Pm_Poll returns 1 and Pm_Read yields the next message ... *)
Receive(m) ==
  /\ Alive
  /\ rpc = "poll"
  /\ life # "closed"
  /\ Len(sent) < MaxEvents
  /\ hand' = m
  /\ rpc' = "lock"
  /\ UNCHANGED <<rlen, dvars, locks, qvars, svars>>

(* ... unless the stream is closed under it. *)
PollClosed ==
  /\ Alive
  /\ rpc = "poll"
  /\ life = "closed"
  /\ crashed' = TRUE
  /\ UNCHANGED <<life, cancel, rvars, locks, qvars, svars>>

(* The back end's poll and read are the only cancellation points. *)
Cancelled ==
  /\ Alive
  /\ rpc = "poll"
  /\ cancel
  /\ rpc' = "gone"
  /\ UNCHANGED <<hand, rlen, dvars, locks, qvars, svars>>

ReaderLock ==
  /\ Alive
  /\ rpc = "lock"
  /\ mutex = NoOne
  /\ mutex' = Reader
  /\ rpc' = "add"
  /\ UNCHANGED <<hand, rlen, dvars, bbq, qvars, svars>>

(* m_vector_add reads the size (and may reallocate) ... *)
AddRead ==
  /\ Alive
  /\ rpc = "add"
  /\ rlen' = Len(msg)
  /\ rpc' = "store"
  /\ UNCHANGED <<hand, dvars, locks, qvars, svars>>

(* ... then writes the slot after it; the mutex is released. *)
Stored(q, n, m) ==
  [i \in 1 .. n + 1 |-> IF i <= n /\ i <= Len(q) THEN q[i] ELSE m]

AddStore ==
  /\ Alive
  /\ rpc = "store"
  /\ life = "open"
  /\ msg' = Stored(msg, rlen, hand)
  /\ sent' = Append(sent, hand)
  /\ mutex' = NoOne
  /\ rpc' = "bbq"
  /\ UNCHANGED <<hand, rlen, dvars, bbq, log, svars>>

(* The vector was released under the thread: the whole m_vector_add works  *)
(* on memory the object no longer owns; it kills the process or goes       *)
(* unnoticed.                                                              *)
AddStoreReleased ==
  /\ Alive
  /\ rpc = "store"
  /\ life # "open"
  /\ \/ crashed' = TRUE
     \/ crashed' = crashed
  /\ mutex' = NoOne
  /\ rpc' = "bbq"
  /\ UNCHANGED <<hand, rlen, life, cancel, bbq, qvars, svars>>

BbqLock ==
  /\ Alive
  /\ rpc = "bbq"
  /\ bbq = NoOne
  /\ bbq' = Reader
  /\ rpc' = "broadcast"
  /\ UNCHANGED <<hand, rlen, dvars, mutex, qvars, svars>>

Woken == [s \in Shreds |-> IF spc[s] = "waiting" THEN "woken" ELSE spc[s]]

(* Mutant: bbq is not released after the broadcast. *)
BroadcastHeld ==
  /\ Alive
  /\ rpc = "broadcast"
  /\ spc' = Woken
  /\ rpc' = "poll"
  /\ UNCHANGED <<hand, rlen, dvars, locks, qvars, vm, ret>>

Broadcast ==
  /\ Alive
  /\ rpc = "broadcast"
  /\ spc' = Woken
  /\ bbq' = NoOne
  /\ rpc' = "poll"
  /\ UNCHANGED <<hand, rlen, dvars, mutex, qvars, vm, ret>>

-----------------------------------------------------------------------------
(* The shreds                                                              *)

Running(s) == Alive /\ vm = NoOne /\ life = "open" /\ spc[s] \in {"ready", "woken"}

(* test_loop.gw: once woken, read is called until it finds nothing.  Any   *)
(* other shred may call any method whenever it runs.                       *)
Draining(s) == s \in Loopers /\ (spc[s] = "woken" \/ ret[s])

(* min => now: the VM takes bbq to park the shred ... *)
Wait(s) ==
  /\ Running(s)
  /\ ~Draining(s)
  /\ vm' = s
  /\ spc' = [spc EXCEPT ![s] = "suspend"]
  /\ UNCHANGED <<rvars, dvars, locks, qvars, ret>>

Park(s) ==
  /\ Alive
  /\ spc[s] = "suspend"
  /\ bbq = NoOne
  /\ bbq' = s
  /\ spc' = [spc EXCEPT ![s] = "park"]
  /\ UNCHANGED <<rvars, dvars, mutex, qvars, vm, ret>>

(* ... and leaves it on the object's list. *)
Parked(s) ==
  /\ Alive
  /\ spc[s] = "park"
  /\ bbq' = NoOne
  /\ vm' = NoOne
  /\ spc' = [spc EXCEPT ![s] = "waiting"]
  /\ UNCHANGED <<rvars, dvars, mutex, qvars, ret>>

(* min.read(status, data1, data2): the call ... *)
Read(s) ==
  /\ Running(s)
  /\ s \in Loopers => Draining(s)
  /\ vm' = s
  /\ spc' = [spc EXCEPT ![s] = "read"]
  /\ UNCHANGED <<rvars, dvars, locks, qvars, ret>>

ReadLock(s) ==
  /\ Alive
  /\ spc[s] = "read"
  /\ mutex = NoOne
  /\ mutex' = s
  /\ spc' = [spc EXCEPT ![s] = "body"]
  /\ UNCHANGED <<rvars, dvars, bbq, qvars, vm, ret>>

(* ... the front message is read, and removed if there was one. *)
Return(s, b) ==
  /\ mutex' = NoOne
  /\ vm' = NoOne
  /\ spc' = [spc EXCEPT ![s] = "ready"]
  /\ ret' = [ret EXCEPT ![s] = b]

ReadNone(s) ==
  /\ Alive
  /\ spc[s] = "body"
  /\ msg = <<>>
  /\ Return(s, FALSE)
  /\ UNCHANGED <<rvars, dvars, bbq, qvars>>

(* Mutant: the front message is not removed. *)
ReadSomeKept(s) ==
  /\ Alive
  /\ spc[s] = "body"
  /\ msg # <<>>
  /\ log' = Append(log, Head(msg))
  /\ Return(s, TRUE)
  /\ UNCHANGED <<rvars, dvars, bbq, msg, sent>>

(* Mutant: read says FALSE when it took the last message. *)
ReadSomeSaysNone(s) ==
  /\ Alive
  /\ spc[s] = "body"
  /\ msg # <<>>
  /\ log' = Append(log, Head(msg))
  /\ msg' = Tail(msg)
  /\ Return(s, FALSE)
  /\ UNCHANGED <<rvars, dvars, bbq, sent>>

ReadSome(s) ==
  /\ Alive
  /\ spc[s] = "body"
  /\ msg # <<>>
  /\ log' = Append(log, Head(msg))
  /\ msg' = Tail(msg)
  /\ Return(s, TRUE)
  /\ UNCHANGED <<rvars, dvars, bbq, sent>>

-----------------------------------------------------------------------------
(* The destructor runs in the shred that drops the last reference.         *)

Release(s) ==
  /\ Running(s)
  /\ ~Draining(s)
  /\ IF \A t \in Shreds \ {s} : spc[t] = "gone"
       THEN /\ vm' = s
            /\ spc' = [spc EXCEPT ![s] = "release"]
       ELSE /\ spc' = [spc EXCEPT ![s] = "gone"]
            /\ UNCHANGED vm
  /\ UNCHANGED <<rvars, dvars, locks, qvars, ret>>

(* m_vector_release, without the mutex *)
DtorRelease(s) ==
  /\ Alive
  /\ spc[s] = "release"
  /\ life' = "released"
  /\ msg' = <<>>
  /\ spc' = [spc EXCEPT ![s] = "cancel"]
  /\ UNCHANGED <<rvars, cancel, crashed, locks, sent, log, vm, ret>>

(* if(info->thread) pthread_cancel *)
DtorCancel(s) ==
  /\ Alive
  /\ spc[s] = "cancel"
  /\ cancel' = (rpc # "none")
  /\ spc' = [spc EXCEPT ![s] = "close"]
  /\ UNCHANGED <<rvars, life, crashed, locks, qvars, vm, ret>>

(* Pm_Close *)
DtorClose(s) ==
  /\ Alive
  /\ spc[s] = "close"
  /\ life' = "closed"
  /\ vm' = NoOne
  /\ spc' = [spc EXCEPT ![s] = "gone"]
  /\ UNCHANGED <<rvars, cancel, crashed, locks, qvars, ret>>

-----------------------------------------------------------------------------
ReceiveAny == Receive(Garbage) \/ Receive(Len(sent) + 1)

ReaderNext ==
  \/ ReceiveAny \/ PollClosed \/ Cancelled \/ ReaderLock
  \/ AddRead \/ AddStore \/ AddStoreReleased \/ BbqLock \/ Broadcast

ReadBody(s) == ReadNone(s) \/ ReadSome(s)

Dtor(s) == DtorRelease(s) \/ DtorCancel(s) \/ DtorClose(s)

ShredNext(s) ==
  \/ OpenFail(s) \/ Wait(s) \/ Park(s) \/ Parked(s) \/ Read(s) \/ ReadLock(s) \/ ReadBody(s)
  \/ Release(s) \/ Dtor(s)

Next == Open \/ ReaderNext \/ (\E s \in Shreds : ShredNext(s))

Spec == Init /\ [][Next]_vars

(* The threads are scheduled fairly, and no shred keeps the VM for ever: a *)
(* woken looper gets its turn.  Nothing is assumed of the device: its      *)
(* poll and its read may never return unless cancelled.                    *)
Fairness ==
  /\ WF_vars(ReaderLock \/ AddRead \/ AddStore \/ BbqLock \/ Broadcast)
  /\ \A s \in Loopers : SF_vars(Read(s))
  /\ \A s \in Shreds :
       WF_vars(Park(s) \/ Parked(s) \/ ReadLock(s) \/ ReadBody(s) \/ Dtor(s))

FairSpec == Spec /\ Fairness

-----------------------------------------------------------------------------
(* Properties                                                              *)

(* PortMidi implements the promise of EventFifo. *)
Fifo == INSTANCE EventFifo
          WITH queue <- msg, closed <- life \in {"failed", "released", "closed"}
FifoSpec == Fifo!Spec

=============================================================================

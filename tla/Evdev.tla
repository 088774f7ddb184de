------------------------------- MODULE Evdev -------------------------------
(***************************************************************************)
(* The Evdev plug-in (Evdev/evdev.c): one Evdev object, its reader thread  *)
(* and the shreds that listen to it.                                       *)
(*                                                                         *)
(* The reader thread polls the device, appends every event to the object's *)
(* array and broadcasts the object.  A shred calls recv, which hands out   *)
(* args[idx++] and only empties the array when it finds nothing left.  The *)
(* virtual machine runs one shred at a time: a method that blocks on the   *)
(* mutex, or on the join of the destructor, blocks every shred.            *)
(***************************************************************************)
EXTENDS Naturals, Sequences

CONSTANTS Shreds,      \* the shreds that hold a reference to the object
          Loopers,     \* those of them that run the loop of test_loop.gw
          MaxEvents,   \* bound: number of events the device produces
          NoOne,       \* owner of a free mutex, and of an idle VM
          Reader       \* the reader thread

ASSUME EvdevAssumption ==
  /\ Loopers \subseteq Shreds
  /\ NoOne \notin Shreds
  /\ Reader \notin Shreds
  /\ NoOne # Reader
  /\ MaxEvents \in Nat

VARIABLES
  life,     \* "new", "open", "failed" (open(2) failed) or "freed"
  rpc,      \* where the reader thread is; "none" before pthread_create
  hand,     \* the event the reader holds, 0 for none
  rlen,     \* the length mp_vector_add read before it stores
  cancel,   \* pthread_cancel was called on the reader
  mutex,    \* owner of info->mutex
  destroyed,\* pthread_mutex_destroy was called
  args,     \* info->args
  idx,      \* info->idx
  vm,       \* the shred that is inside a method of the object
  spc,      \* where each shred is
  ret,      \* what the last recv of each shred returned
  sent,     \* history: the events the reader stored
  log       \* history: the events recv handed out, oldest first

vars == <<life, rpc, hand, rlen, cancel, mutex, destroyed, args, idx, vm,
          spc, ret, sent, log>>

rvars == <<rpc, hand, rlen>>                     \* the reader's own state
dvars == <<life, cancel, destroyed>>             \* the object's life cycle
qvars == <<args, idx, sent, log>>                \* the event array
svars == <<vm, spc, ret>>                        \* the shreds

Init ==
  /\ life = "new"
  /\ rpc = "none"
  /\ hand = 0
  /\ rlen = 0
  /\ cancel = FALSE
  /\ mutex = NoOne
  /\ destroyed = FALSE
  /\ args = <<>>
  /\ idx = 0
  /\ vm = NoOne
  /\ spc = [s \in Shreds |-> "ready"]
  /\ ret = [s \in Shreds |-> FALSE]
  /\ sent = <<>>
  /\ log = <<>>

-----------------------------------------------------------------------------
(* new Evdev(index)                                                        *)

(* The device opens: pending events are skipped and the reader starts. *)
Open ==
  /\ life = "new"
  /\ life' = "open"
  /\ rpc' = "poll"
  /\ UNCHANGED <<hand, rlen, cancel, destroyed, mutex, qvars, svars>>

(* open(2) fails: EvdevCreateException.  There is no mutex and no thread;  *)
(* the exception drops the only reference and the destructor frees args.   *)
OpenFail(s) ==
  /\ life = "new"
  /\ life' = "failed"
  /\ vm' = s
  /\ spc' = [t \in Shreds |-> IF t = s THEN "free" ELSE "gone"]
  /\ UNCHANGED <<rvars, cancel, destroyed, mutex, qvars, ret>>

-----------------------------------------------------------------------------
(* The reader thread (evdev_process)                                       *)

(* poll(2) returns; the event is in libevdev, or nothing but noise is. *)
Poll ==
  /\ rpc = "poll"
  /\ ~cancel
  /\ rpc' = "next"
  /\ UNCHANGED <<hand, rlen, dvars, mutex, qvars, svars>>

(* libevdev_next_event yields an event whose type is not EV_SYN. *)
NextEvent ==
  /\ rpc = "next"
  /\ Len(sent) < MaxEvents
  /\ hand' = Len(sent) + 1
  /\ rpc' = "lock"
  /\ UNCHANGED <<rlen, dvars, mutex, qvars, svars>>

(* It yields EV_SYN, -EAGAIN, or a SYN_DROPPED resynchronisation: the      *)
(* FORCE_SYNC loop overwrites the events it reads and ends on -EAGAIN.     *)
NextNothing ==
  /\ rpc = "next"
  /\ rpc' = "poll"
  /\ UNCHANGED <<hand, rlen, dvars, mutex, qvars, svars>>

(* It yields any other error (the device was unplugged): the loop ends. *)
NextError ==
  /\ rpc = "next"
  /\ rpc' = "done"
  /\ UNCHANGED <<hand, rlen, dvars, mutex, qvars, svars>>

(* poll(2) and read(2) are the thread's cancellation points. *)
Cancelled ==
  /\ rpc \in {"poll", "next"}
  /\ cancel
  /\ rpc' = "done"
  /\ UNCHANGED <<hand, rlen, dvars, mutex, qvars, svars>>

ReaderLock ==
  /\ rpc = "lock"
  /\ mutex = NoOne
  /\ mutex' = Reader
  /\ rpc' = "add"
  /\ UNCHANGED <<hand, rlen, dvars, qvars, svars>>

(* mp_vector_add reads the length (and may reallocate) ... *)
AddRead ==
  /\ rpc = "add"
  /\ rlen' = Len(args)
  /\ rpc' = "store"
  /\ UNCHANGED <<hand, dvars, mutex, qvars, svars>>

(* ... then writes the slot after it; the mutex is released. *)
Stored(q, n, m) ==
  [i \in 1 .. n + 1 |-> IF i <= n /\ i <= Len(q) THEN q[i] ELSE m]

AddStore ==
  /\ rpc = "store"
  /\ args' = Stored(args, rlen, hand)
  /\ sent' = Append(sent, hand)
  /\ hand' = 0
  /\ mutex' = NoOne
  /\ rpc' = "broadcast"
  /\ UNCHANGED <<rlen, dvars, idx, log, svars>>

(* broadcast(o) reschedules every shred that waits on the object. *)
Woken == [s \in Shreds |-> IF spc[s] = "waiting" THEN "woken" ELSE spc[s]]

Broadcast ==
  /\ rpc = "broadcast"
  /\ spc' = Woken
  /\ rpc' = "poll"
  /\ UNCHANGED <<hand, rlen, dvars, mutex, qvars, vm, ret>>

-----------------------------------------------------------------------------
(* The shreds                                                              *)

Running(s) == vm = NoOne /\ life = "open" /\ spc[s] \in {"ready", "woken"}

(* test_loop.gw: once woken, recv is called until it finds nothing.  Any   *)
(* other shred may call any method whenever it runs.                       *)
Draining(s) == s \in Loopers /\ (spc[s] = "woken" \/ ret[s])

(* dev => now *)
Wait(s) ==
  /\ Running(s)
  /\ ~Draining(s)
  /\ spc' = [spc EXCEPT ![s] = "waiting"]
  /\ UNCHANGED <<rvars, dvars, mutex, qvars, vm, ret>>

(* dev.recv(ev): the call ... *)
Recv(s) ==
  /\ Running(s)
  /\ s \in Loopers => Draining(s)
  /\ vm' = s
  /\ spc' = [spc EXCEPT ![s] = "recv"]
  /\ UNCHANGED <<rvars, dvars, mutex, qvars, ret>>

(* Mutant: recv does not take the mutex. *)
RecvLockFree(s) ==
  /\ spc[s] = "recv"
  /\ spc' = [spc EXCEPT ![s] = "body"]
  /\ UNCHANGED <<rvars, dvars, mutex, qvars, vm, ret>>

RecvLock(s) ==
  /\ spc[s] = "recv"
  /\ mutex = NoOne
  /\ mutex' = s
  /\ spc' = [spc EXCEPT ![s] = "body"]
  /\ UNCHANGED <<rvars, dvars, qvars, vm, ret>>

(* The common end of recv: the mutex goes and the shred runs on. *)
Return(s, b) ==
  /\ mutex' = NoOne
  /\ vm' = NoOne
  /\ spc' = [spc EXCEPT ![s] = "ready"]
  /\ ret' = [ret EXCEPT ![s] = b]

(* ... nothing left: the array is emptied and recv returns 0 ... *)
RecvNone(s) ==
  /\ spc[s] = "body"
  /\ idx = Len(args)
  /\ idx' = 0
  /\ args' = <<>>
  /\ Return(s, FALSE)
  /\ UNCHANGED <<rvars, dvars, sent, log>>

(* ... or the event at idx is copied out and recv returns 1. *)
RecvSome(s) ==
  /\ spc[s] = "body"
  /\ idx # Len(args)
  /\ log' = Append(log, args[idx + 1])
  /\ idx' = idx + 1
  /\ Return(s, TRUE)
  /\ UNCHANGED <<rvars, dvars, args, sent>>

-----------------------------------------------------------------------------
(* The destructor runs in the shred that drops the last reference.         *)

Others(s) == Shreds \ {s}

Release(s) ==
  /\ Running(s)
  /\ ~Draining(s)
  /\ IF \A t \in Others(s) : spc[t] = "gone"
       THEN /\ vm' = s
            /\ spc' = [spc EXCEPT ![s] = "cancel"]
       ELSE /\ spc' = [spc EXCEPT ![s] = "gone"]
            /\ UNCHANGED vm
  /\ UNCHANGED <<rvars, dvars, mutex, qvars, ret>>

DtorCancel(s) ==
  /\ spc[s] = "cancel"
  /\ cancel' = TRUE
  /\ spc' = [spc EXCEPT ![s] = "join"]
  /\ UNCHANGED <<rvars, life, destroyed, mutex, qvars, vm, ret>>

(* Mutant: the destructor does not wait for the thread. *)
DtorNoJoin(s) ==
  /\ spc[s] = "join"
  /\ spc' = [spc EXCEPT ![s] = "destroy"]
  /\ UNCHANGED <<rvars, dvars, mutex, qvars, vm, ret>>

DtorJoin(s) ==
  /\ spc[s] = "join"
  /\ rpc = "done"
  /\ spc' = [spc EXCEPT ![s] = "destroy"]
  /\ UNCHANGED <<rvars, dvars, mutex, qvars, vm, ret>>

(* pthread_mutex_destroy and close(fd) *)
DtorDestroy(s) ==
  /\ spc[s] = "destroy"
  /\ destroyed' = TRUE
  /\ spc' = [spc EXCEPT ![s] = "free"]
  /\ UNCHANGED <<rvars, life, cancel, mutex, qvars, vm, ret>>

DtorFree(s) ==
  /\ spc[s] = "free"
  /\ life' = "freed"
  /\ vm' = NoOne
  /\ spc' = [spc EXCEPT ![s] = "gone"]
  /\ UNCHANGED <<rvars, cancel, destroyed, mutex, qvars, ret>>

-----------------------------------------------------------------------------
ReaderNext ==
  \/ Poll \/ NextEvent \/ NextNothing \/ NextError \/ Cancelled
  \/ ReaderLock \/ AddRead \/ AddStore \/ Broadcast

RecvBody(s) == RecvNone(s) \/ RecvSome(s)

Dtor(s) == DtorCancel(s) \/ DtorJoin(s) \/ DtorDestroy(s) \/ DtorFree(s)

ShredNext(s) ==
  Wait(s) \/ Recv(s) \/ RecvLock(s) \/ RecvBody(s) \/ Release(s) \/ Dtor(s)

Next ==
  \/ Open
  \/ ReaderNext
  \/ \E s \in Shreds : OpenFail(s) \/ ShredNext(s)

Spec == Init /\ [][Next]_vars

(* The threads are scheduled fairly, and no shred keeps the VM for ever: a *)
(* woken looper gets its turn.  Nothing is assumed of the device: its      *)
(* poll and its read may never return unless cancelled.                    *)
Fairness ==
  /\ WF_vars(Cancelled \/ ReaderLock \/ AddRead \/ AddStore \/ Broadcast)
  /\ \A s \in Loopers : SF_vars(Recv(s))
  /\ \A s \in Shreds : WF_vars(RecvLock(s) \/ RecvBody(s) \/ Dtor(s))

FairSpec == Spec /\ Fairness

-----------------------------------------------------------------------------
(* Properties                                                              *)

TypeOK ==
  /\ life \in {"new", "open", "failed", "freed"}
  /\ rpc \in {"none", "poll", "next", "lock", "add", "store", "broadcast", "done"}
  /\ hand \in 0 .. MaxEvents
  /\ rlen \in Nat
  /\ cancel \in BOOLEAN
  /\ mutex \in Shreds \cup {NoOne, Reader}
  /\ destroyed \in BOOLEAN
  /\ args \in Seq(1 .. MaxEvents)
  /\ idx \in Nat
  /\ vm \in Shreds \cup {NoOne}
  /\ spc \in [Shreds -> {"ready", "woken", "waiting", "recv", "body", "cancel",
                         "join", "destroy", "free", "gone"}]
  /\ ret \in [Shreds -> BOOLEAN]
  /\ sent \in Seq(1 .. MaxEvents)
  /\ log \in Seq(1 .. MaxEvents)

(* What recv has still to hand out (evdev.c:93-100). *)
Queue == SubSeq(args, idx + 1, Len(args))

(* However the reader and the shreds interleave, and whenever recv empties *)
(* the array, every event the reader stored is handed out exactly once and *)
(* in order: nothing is lost when args is reset while the reader appends.  *)
ExactlyOnce == log \o Queue = sent

(* The destructor destroys the mutex, closes the device and frees the      *)
(* array only once the reader thread can no longer touch any of them.      *)
TeardownSafe ==
  destroyed \/ life = "freed" \/ (\E s \in Shreds : spc[s] = "free")
    => rpc \in {"none", "done"} /\ mutex = NoOne

(* Evdev implements the promise of EventFifo. *)
Fifo == INSTANCE EventFifo
          WITH Items <- 1 .. MaxEvents,
               queue <- IF life = "freed" THEN <<>> ELSE Queue,
               closed <- life = "freed"
FifoSpec == Fifo!Spec

=============================================================================

------------------------------- MODULE RtMidi -------------------------------
(***************************************************************************)
(* The RtMidi plug-in's input (RtMidi/rtmidi.cc): one In object, the       *)
(* thread on which the RtMidi library runs its callback, and the shreds    *)
(* that listen to it.                                                      *)
(*                                                                         *)
(* The callback cuts a message into groups of three bytes, pads the last   *)
(* one with zeros, queues each group under the mutex and broadcasts once.  *)
(* The destructor keeps the mutex while it deletes the library's object,   *)
(* which stops the callback's thread and waits for it.                     *)
(***************************************************************************)
EXTENDS Naturals, Sequences, SequencesExt

CONSTANTS Shreds,      \* the shreds that hold a reference to the object
          Sizes,       \* the lengths in bytes of the messages received
          MaxBytes,    \* bound: number of bytes the device produces
          NoOne,       \* owner of a free mutex, and of an idle VM
          Callback     \* the callback's thread

RtMidiAssumption ==
  /\ NoOne \notin Shreds
  /\ Callback \notin Shreds
  /\ NoOne # Callback
  /\ Sizes \subseteq Nat \ {0}
  /\ MaxBytes \in Nat

VARIABLES
  life,    \* "new", "open", "failed" or "freed"
  crashed, \* the process died
  cb,      \* where the callback is
  size,    \* message->size()
  i,       \* the bytes of the message already copied
  j,       \* the bytes of the group already copied
  buf,     \* the group, msg[3]
  bytes,   \* the number of bytes received; byte n has value n
  mutex,   \* owner of min->mutex
  msgs,    \* min->msgs
  vm,      \* the shred that is inside a method of the object
  spc,     \* where each shred is
  ret,     \* what the last read of each shred returned
  sent,    \* history: the groups the callback queued
  log,     \* history: the groups read handed out, oldest first
  frames   \* history: the groups the messages received amount to

vars == <<life, crashed, cb, size, i, j, buf, bytes, mutex, msgs, vm,
          spc, ret, sent, log, frames>>

cvars == <<cb, size, i, j, buf, bytes, frames>>   \* the callback's own state
dvars == <<life, crashed>>
qvars == <<msgs, sent, log>>
svars == <<vm, spc, ret>>

Zeros == <<0, 0, 0>>
Groups == [1 .. 3 -> 0 .. MaxBytes]

Init ==
  /\ life = "new"
  /\ crashed = FALSE
  /\ cb = "idle"
  /\ size = 0
  /\ i = 0
  /\ j = 0
  /\ buf = Zeros
  /\ bytes = 0
  /\ mutex = NoOne
  /\ msgs = <<>>
  /\ vm = NoOne
  /\ spc = [s \in Shreds |-> "ready"]
  /\ ret = [s \in Shreds |-> FALSE]
  /\ sent = <<>>
  /\ log = <<>>
  /\ frames = <<>>

Alive == ~crashed

-----------------------------------------------------------------------------
(* new RtMidi.In(...)                                                      *)

Open ==
  /\ life = "new"
  /\ life' = "open"
  /\ UNCHANGED <<crashed, cvars, mutex, qvars, svars>>

(* openPort throws: MidiInException drops the only reference.  So it does  *)
(* when the library's constructor throws, but then the mutex the           *)
(* destructor takes was not made: the process may die of it. *)
OpenFail(s) ==
  /\ life = "new"
  /\ life' = "failed"
  /\ crashed' \in BOOLEAN
  /\ vm' = s
  /\ spc' = [t \in Shreds |-> IF t = s THEN "dtor" ELSE "gone"]
  /\ UNCHANGED <<cvars, mutex, qvars, ret>>

-----------------------------------------------------------------------------
(* The callback                                                            *)

(* What a message amounts to: as many groups as it takes, zero padded. *)
Frames(first, n) ==
  [k \in 1 .. (n + 2) \div 3 |->
     [p \in 1 .. 3 |->
        IF 3 * (k - 1) + p <= n THEN first + 3 * (k - 1) + p - 1 ELSE 0]]

Message(n) ==
  /\ Alive
  /\ \/ life = "open"
     \/ life = "freed" /\ \E s \in Shreds : spc[s] = "delete"
  /\ cb = "idle"
  /\ bytes + n <= MaxBytes
  /\ size' = n
  /\ i' = 0
  /\ j' = 0
  /\ buf' = Zeros
  /\ bytes' = bytes + n
  /\ frames' = frames \o Frames(bytes + 1, n)
  /\ cb' = "loop"
  /\ UNCHANGED <<dvars, mutex, qvars, svars>>

(* Bytes are copied; the third of a group makes min_add take the mutex. *)
CopyByte ==
  /\ Alive
  /\ cb = "loop"
  /\ i < size
  /\ buf' = [buf EXCEPT ![j + 1] = bytes - size + i + 1]
  /\ i' = i + 1
  /\ j' = j + 1
  /\ cb' = IF j + 1 = 3 THEN "lock" ELSE "loop"
  /\ UNCHANGED <<size, bytes, frames, dvars, mutex, qvars, svars>>

(* Mutant: an incomplete last group is not queued. *)
LoopEndDropped ==
  /\ Alive
  /\ cb = "loop"
  /\ i = size
  /\ cb' = "broadcast"
  /\ UNCHANGED <<size, i, j, buf, bytes, frames, dvars, mutex, qvars, svars>>

(* if(sz % 3) min_add(min, msg) *)
LoopEnd ==
  /\ Alive
  /\ cb = "loop"
  /\ i = size
  /\ cb' = IF size % 3 # 0 THEN "locklast" ELSE "broadcast"
  /\ UNCHANGED <<size, i, j, buf, bytes, frames, dvars, mutex, qvars, svars>>

AddLock ==
  /\ Alive
  /\ cb \in {"lock", "locklast"}
  /\ mutex = NoOne
  /\ mutex' = Callback
  /\ cb' = IF cb = "lock" THEN "add" ELSE "addlast"
  /\ UNCHANGED <<size, i, j, buf, bytes, frames, dvars, qvars, svars>>

(* Mutant: shreds are woken for every group. *)
AddWakes ==
  /\ Alive
  /\ cb = "add"
  /\ msgs' = Append(msgs, buf)
  /\ sent' = Append(sent, buf)
  /\ mutex' = NoOne
  /\ buf' = Zeros
  /\ j' = 0
  /\ cb' = "loop"
  /\ spc' = [s \in Shreds |-> IF spc[s] = "waiting" THEN "woken" ELSE spc[s]]
  /\ UNCHANGED <<size, i, bytes, frames, dvars, log, vm, ret>>

(* A full group: the buffer is cleared and the loop goes on. *)
Add ==
  /\ Alive
  /\ cb = "add"
  /\ msgs' = Append(msgs, buf)
  /\ sent' = Append(sent, buf)
  /\ mutex' = NoOne
  /\ buf' = Zeros
  /\ j' = 0
  /\ cb' = "loop"
  /\ UNCHANGED <<size, i, bytes, frames, dvars, log, svars>>

AddLast ==
  /\ Alive
  /\ cb = "addlast"
  /\ msgs' = Append(msgs, buf)
  /\ sent' = Append(sent, buf)
  /\ mutex' = NoOne
  /\ cb' = "broadcast"
  /\ UNCHANGED <<size, i, j, buf, bytes, frames, dvars, log, svars>>

(* broadcast(o) reschedules every shred that waits on the object. *)
Woken == [s \in Shreds |-> IF spc[s] = "waiting" THEN "woken" ELSE spc[s]]

Broadcast ==
  /\ Alive
  /\ cb = "broadcast"
  /\ spc' = Woken
  /\ cb' = "idle"
  /\ UNCHANGED <<size, i, j, buf, bytes, frames, dvars, mutex, qvars, vm, ret>>

-----------------------------------------------------------------------------
(* The shreds                                                              *)

(* Where a shred is free to call any method. *)
Running(s) == Alive /\ vm = NoOne /\ life = "open" /\ spc[s] \in {"ready", "woken"}

(* min => now *)
Wait(s) ==
  /\ Running(s)
  /\ spc' = [spc EXCEPT ![s] = "waiting"]
  /\ UNCHANGED <<cvars, dvars, mutex, qvars, vm, ret>>

(* min.read(status, data1, data2): the call ... *)
Read(s) ==
  /\ Running(s)
  /\ vm' = s
  /\ spc' = [spc EXCEPT ![s] = "read"]
  /\ UNCHANGED <<cvars, dvars, mutex, qvars, ret>>

ReadLock(s) ==
  /\ Alive
  /\ spc[s] = "read"
  /\ mutex = NoOne
  /\ mutex' = s
  /\ spc' = [spc EXCEPT ![s] = "body"]
  /\ UNCHANGED <<cvars, dvars, qvars, vm, ret>>

Return(s, b) ==
  /\ mutex' = NoOne
  /\ vm' = NoOne
  /\ spc' = [spc EXCEPT ![s] = "ready"]
  /\ ret' = [ret EXCEPT ![s] = b]

ReadNone(s) ==
  /\ Alive
  /\ spc[s] = "body"
  /\ msgs = <<>>
  /\ UNCHANGED qvars
  /\ Return(s, FALSE)
  /\ UNCHANGED <<cvars, dvars>>

(* Mutant: read says FALSE when it took a group. *)
ReadSomeSaysNone(s) ==
  /\ Alive
  /\ spc[s] = "body"
  /\ msgs # <<>>
  /\ log' = Append(log, Head(msgs))
  /\ msgs' = Tail(msgs)
  /\ Return(s, FALSE)
  /\ UNCHANGED <<cvars, dvars, sent>>

(* Mutant: read returns without releasing the mutex. *)
ReadSomeHeld(s) ==
  /\ Alive
  /\ spc[s] = "body"
  /\ msgs # <<>>
  /\ log' = Append(log, Head(msgs))
  /\ msgs' = Tail(msgs)
  /\ vm' = NoOne
  /\ spc' = [spc EXCEPT ![s] = "ready"]
  /\ ret' = [ret EXCEPT ![s] = TRUE]
  /\ UNCHANGED <<cvars, dvars, mutex, sent>>

ReadSome(s) ==
  /\ Alive
  /\ spc[s] = "body"
  /\ msgs # <<>>
  /\ log' = Append(log, Head(msgs))
  /\ msgs' = Tail(msgs)
  /\ Return(s, TRUE)
  /\ UNCHANGED <<cvars, dvars, sent>>

(* min.connect(out): vector_add is given min->thru, which nothing has      *)
(* initialised: the test that would comes after it, and the library        *)
(* dereferences a null pointer.                                            *)
Connect(s) ==
  /\ Running(s)
  /\ crashed' = TRUE
  /\ UNCHANGED <<life, cvars, mutex, qvars, svars>>

-----------------------------------------------------------------------------
(* The destructor runs in the shred that drops the last reference.         *)

Release(s) ==
  /\ Running(s)
  /\ IF \A t \in Shreds \ {s} : spc[t] = "gone"
       THEN /\ vm' = s
            /\ spc' = [spc EXCEPT ![s] = "dtor"]
       ELSE /\ spc' = [spc EXCEPT ![s] = "gone"]
            /\ UNCHANGED vm
  /\ UNCHANGED <<cvars, dvars, mutex, qvars, ret>>

DtorLock(s) ==
  /\ Alive
  /\ spc[s] = "dtor"
  /\ mutex = NoOne
  /\ mutex' = s
  /\ spc' = [spc EXCEPT ![s] = "drop"]
  /\ UNCHANGED <<cvars, dvars, qvars, vm, ret>>

(* m_vector_release(&min->msgs) *)
DtorDrop(s) ==
  /\ Alive
  /\ spc[s] = "drop"
  /\ life' = IF life = "open" THEN "freed" ELSE life
  /\ msgs' = <<>>
  /\ spc' = [spc EXCEPT ![s] = "delete"]
  /\ UNCHANGED <<cvars, crashed, mutex, sent, log, vm, ret>>

(* delete min->in waits for the callback's thread; then the mutex goes. *)
DtorDelete(s) ==
  /\ Alive
  /\ spc[s] = "delete"
  /\ cb = "idle"
  /\ mutex' = NoOne
  /\ vm' = NoOne
  /\ spc' = [spc EXCEPT ![s] = "gone"]
  /\ UNCHANGED <<cvars, dvars, qvars, ret>>

-----------------------------------------------------------------------------
CallbackNext ==
  \/ \E n \in Sizes : Message(n)
  \/ CopyByte \/ LoopEnd \/ AddLock \/ Add \/ AddLast \/ Broadcast

ReadBody(s) == ReadNone(s) \/ ReadSome(s)

Dtor(s) == DtorLock(s) \/ DtorDrop(s) \/ DtorDelete(s)

ShredNext(s) ==
  \/ OpenFail(s) \/ Wait(s) \/ Read(s) \/ ReadLock(s) \/ ReadBody(s)
  \/ Connect(s) \/ Release(s) \/ Dtor(s)

Next == Open \/ CallbackNext \/ (\E s \in Shreds : ShredNext(s))

Fairness ==
  /\ WF_vars(CopyByte \/ LoopEnd \/ AddLock \/ Add \/ AddLast \/ Broadcast)
  /\ \A s \in Shreds : WF_vars(ReadLock(s) \/ ReadBody(s) \/ Dtor(s))

Spec == Init /\ [][Next]_vars /\ Fairness

(***************************************************************************)
(* The program of RtMidi/in.gw: wait, then read until there is nothing     *)
(* left.  Threads are scheduled fairly; the device may be silent.          *)
(***************************************************************************)
LoopWait(s) == spc[s] = "ready" /\ ~ret[s] /\ Wait(s)
LoopRead(s) == (spc[s] = "woken" \/ ret[s]) /\ Read(s)

LoopNext ==
  \/ Open \/ CallbackNext
  \/ \E s \in Shreds : LoopWait(s) \/ LoopRead(s) \/ ReadLock(s) \/ ReadBody(s)

LoopSpec ==
  /\ Init /\ [][LoopNext]_vars /\ Fairness
  /\ WF_vars(Open)
  /\ \A s \in Shreds : WF_vars(LoopWait(s)) /\ WF_vars(LoopRead(s))

-----------------------------------------------------------------------------
(* Properties                                                              *)

(* RtMidi implements the promise of EventFifo, in groups of three bytes. *)
Fifo == INSTANCE EventFifo
          WITH Items <- Groups, queue <- msgs, closed <- life \in {"failed", "freed"}
FifoSpec == Fifo!Spec

(* A message of any length reaches the shreds as whole groups of its own   *)
(* bytes, the last one padded with zeros: no group mixes two messages and  *)
(* none is lost, repeated or out of order, however reads interleave.       *)
Framed ==
  life = "open" =>
    /\ IsPrefix(log \o msgs, frames)
    /\ cb \in {"idle", "broadcast"} => log \o msgs = frames

(* A shred is only woken once all of the message is there to be read. *)
WokenForWholeMessage ==
  [][(\E s \in Shreds : spc[s] = "waiting" /\ spc'[s] = "woken")
       => life # "open" \/ log \o msgs = frames]_vars

(* The destructor waits for a callback that waits for the mutex the        *)
(* destructor holds.                                                       *)
DtorDeadlock ==
  \E s \in Shreds :
    spc[s] = "delete" /\ mutex = s /\ cb \in {"lock", "locklast"}

(* A method never blocks the virtual machine for good, but for the         *)
(* destructor when it meets a callback that still has a group to queue.    *)
VMStuckOnlyInDtor == (vm # NoOne) ~> (vm = NoOne \/ DtorDeadlock \/ crashed)

(* "read incoming messages" (in.gw:25): every group queued is eventually   *)
(* read by the loop of in.gw.                                              *)
ReadsIncoming == \A n \in 1 .. MaxBytes : (Len(sent) >= n) ~> (Len(log) >= n)

=============================================================================

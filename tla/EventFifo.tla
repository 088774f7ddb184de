----------------------------- MODULE EventFifo -----------------------------
(***************************************************************************)
(* What a plug-in whose object holds a queue between two threads promises: *)
(* the messages one side accepts are handed out one at a time, in the      *)
(* order they came, each to exactly one reader, until the object is        *)
(* closed; what is still queued then is dropped and never handed out.      *)
(*                                                                         *)
(* Evdev, PortMidi and RtMidi, whose readers are the shreds, are shown to  *)
(* implement it.                                                           *)
(***************************************************************************)
EXTENDS Naturals, Sequences

CONSTANT Items          \* what a queue slot may hold

VARIABLES sent,         \* every item accepted so far, oldest first
          queue,        \* the items waiting to be read
          log,          \* the items handed to shreds, oldest first
          closed        \* the object was destroyed

vars == <<sent, queue, log, closed>>

Init == /\ sent = <<>>
        /\ queue = <<>>
        /\ log = <<>>
        /\ closed = FALSE

(* The device thread queues one item. *)
Arrive(m) == /\ ~closed
             /\ sent' = Append(sent, m)
             /\ queue' = Append(queue, m)
             /\ UNCHANGED <<log, closed>>

(* A shred takes the oldest item. *)
Take == /\ ~closed
        /\ queue # <<>>
        /\ log' = Append(log, Head(queue))
        /\ queue' = Tail(queue)
        /\ UNCHANGED <<sent, closed>>

(* The object goes away; nothing can be read any more. *)
Close == /\ ~closed
         /\ closed' = TRUE
         /\ queue' = <<>>
         /\ UNCHANGED <<sent, log>>

Next == (\E m \in Items : Arrive(m)) \/ Take \/ Close

Spec == Init /\ [][Next]_vars

-----------------------------------------------------------------------------
TypeOK == /\ sent \in Seq(Items)
          /\ queue \in Seq(Items)
          /\ log \in Seq(Items)
          /\ closed \in BOOLEAN

(* Exactly once, in order: what was read followed by what is queued is     *)
(* what was accepted.                                                      *)
ExactlyOnce == ~closed => log \o queue = sent

=============================================================================

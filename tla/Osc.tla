-------------------------------- MODULE Osc --------------------------------
(***************************************************************************)
(* An OscOut object of the Lo plug-in (Lo/lo.c) that sends to the server   *)
(* of Lo: the arguments added to it, the message made of them, and the     *)
(* network in between, which loses, repeats and delays messages (UDP).     *)
(* To keep the instance small, the OscOut sends to one object; with        *)
(* several, the messages come from elsewhere.                              *)
(*                                                                         *)
(* The => operators add to a copy of the object's structure.  The copy     *)
(* shares the block of the vector, so the object sees what was added until *)
(* the block is full: then it is reallocated, it may move, and only the    *)
(* copy knows where.  A handler gets the message under the method it was   *)
(* sent to.  An integer is cut to what an OSC integer holds; the arguments *)
(* of the other types behave like one that fits.                           *)
(***************************************************************************)
EXTENDS Lo

CONSTANTS Ints,    \* the integers the program adds to one message, in turn
          Half,    \* an OSC integer is in -Half .. Half - 1 (2^31)
          Slots,   \* arguments the block of a new vector has room for
          MaxLate, \* bound: number of messages in the network
          Alone    \* the object that receives from the OscOut

ASSUME OscAssumption ==
  /\ Ints \in Seq(Int)
  /\ Len(Ints) > Slots
  /\ Half \in Nat \ {0}
  /\ Slots \in Nat \ {0}
  /\ MaxLate \in Nat
  /\ Alone \in Objects

VARIABLES
  out,    \* the OscOut: "new", "open", "moved" (its block was freed), "dead",
          \* or "elsewhere" when others send
  block,  \* the arguments in the block the object points at
  added,  \* history: what the program added since the last send
  net     \* the messages sent and not lost: [body, added, moved]

outVars == <<out, block, added, net>>
oscVars == <<vars, outVars>>

OscInit == /\ \/ Init(Objects) /\ out = "elsewhere"
              \/ Init({Alone}) /\ out = "new"
           /\ block = <<>>
           /\ added = <<>>
           /\ net = {}

(* lo_message_add_int32 *)
Int32(i) == ((i + Half) % (2 * Half)) - Half
Fits(i) == i \in -Half .. Half - 1

-----------------------------------------------------------------------------
(* new OscOut(..): the address may be refused. *)
NewOut == /\ VMFree
          /\ out = "new"
          /\ out' \in {"open", "dead"}
          /\ UNCHANGED <<vars, block, added, net>>

(* i => oout: there is room in the block, or it grows where it is, ...     *)
AddArg == /\ VMFree
          /\ out = "open"
          /\ Len(block) < Len(Ints)
          /\ block' = Append(block, Ints[Len(block) + 1])
          /\ added' = Append(added, Ints[Len(block) + 1])
          /\ UNCHANGED <<vars, out, net>>

(* ... or it has to grow, and goes where the object does not look.         *)
AddMoves == /\ VMFree
            /\ out = "open"
            /\ Len(block) \in Slots .. Len(Ints) - 1
            /\ out' = "moved"
            /\ added' = Append(added, Ints[Len(block) + 1])
            /\ UNCHANGED <<vars, block, net>>

(* The message made of what is in the block. *)
Message(b, moved) ==
  [body |-> [k \in DOMAIN b |-> Int32(b[k])], added |-> added, moved |-> moved]

(* Mutant: the arguments sent stay in the vector. *)
SendKeeps == /\ VMFree
             /\ out = "open"
             /\ Cardinality(net) < MaxLate
             /\ net' \in {net, net \cup {Message(block, FALSE)}}
             /\ added' = <<>>
             /\ UNCHANGED <<vars, out, block>>

(* oout.send(path): the arguments are put in a message and released, and   *)
(* the vector is cleared, whether the message can be sent or not.          *)
Send == /\ VMFree
        /\ out = "open"
        /\ Cardinality(net) < MaxLate
        /\ net' \in {net, net \cup {Message(block, FALSE)}}
        /\ block' = <<>>
        /\ added' = <<>>
        /\ UNCHANGED <<vars, out>>

(* After the block moved, send makes its message of the freed one: of what *)
(* is still there of the arguments it had.  What the object is good for    *)
(* afterwards is not followed.                                             *)
SendMoved == /\ VMFree
             /\ out = "moved"
             /\ Cardinality(net) < MaxLate
             /\ \E n \in 0 .. Len(block) :
                  net' \in {net, net \cup {Message(SubSeq(block, 1, n), TRUE)}}
             /\ out' = "dead"
             /\ block' = <<>>
             /\ added' = <<>>
             /\ UNCHANGED vars

(* It may as well kill the process, and so may any other use of the object. *)
UseMoved == /\ VMFree
            /\ out = "moved"
            /\ crashed' \in BOOLEAN
            /\ out' = "dead"
            /\ block' = <<>>
            /\ added' = <<>>
            /\ UNCHANGED <<life, mvars, ref, hvars, mutex, ovars, spc, rel, net>>

(* The destructor releases the vector, not the arguments in it. *)
OutDtor == /\ VMFree
           /\ out = "open"
           /\ out' = "dead"
           /\ block' = <<>>
           /\ added' = <<>>
           /\ UNCHANGED <<vars, net>>

(* A message reaches the server, and may reach it again. *)
Arrive(k) == \E m \in net : /\ Handle(k, m.body)
                            /\ net' \in {net, net \ {m}}
                            /\ UNCHANGED <<out, block, added>>

(* A message of one or two arguments comes from elsewhere. *)
Elsewhere(k) == /\ out = "elsewhere"
                /\ \E n \in 1 .. 2 : Handle(k, SubSeq(Ints, 1, n))
                /\ UNCHANGED outVars

-----------------------------------------------------------------------------
OutNext == NewOut \/ AddArg \/ AddMoves \/ Send \/ SendMoved \/ UseMoved \/ OutDtor

Next == \/ InNext /\ UNCHANGED outVars
        \/ OutNext
        \/ \E k \in Methods : Arrive(k) \/ Elsewhere(k)

Fairness == /\ WF_oscVars(HandlerNext /\ UNCHANGED outVars)
            /\ \A o \in Objects : WF_oscVars(Stop(o) /\ UNCHANGED outVars)

Spec == OscInit /\ [][Next]_oscVars /\ Fairness

-----------------------------------------------------------------------------
(* A message has all that was added since the last send and nothing else,  *)
(* in order, as far as an OSC integer holds it.                            *)
Whole(m) ==
  /\ Len(m.body) = Len(m.added)
  /\ \A k \in DOMAIN m.body : Fits(m.added[k]) => m.body[k] = m.added[k]

(* Though the => operators add to a copy of the structure, a message is    *)
(* whole unless the block moved when an argument was added (lo.c:38-63,    *)
(* 74-82): no argument is sent twice, or read after it is released.        *)
SentAsAdded == \A m \in net : m.moved \/ Whole(m)

=============================================================================

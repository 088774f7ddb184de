------------------------------- MODULE Inputs -------------------------------
(***************************************************************************)
(* A program that imports one of the three plug-ins whose objects hand     *)
(* shreds the messages of a device: Evdev, PortMidi's MidiIn or RtMidi's   *)
(* MidiIn.  They share nothing but the design, so `plug` is chosen once    *)
(* and the objects of the two others are never constructed.                *)
(***************************************************************************)
EXTENDS Evdev

CONSTANTS Sizes,       \* the lengths in bytes of the messages RtMidi receives
          MaxBytes,    \* bound: number of bytes they amount to
          Callback     \* the thread of RtMidi's callback

VARIABLES
  plug,                                        \* the plug-in the program imports
  pLife, pCancel, pCrashed, pRpc, pHand, pRlen, pMutex, pBbq, pMsg, pVm, pSpc,
  pRet, pSent, pLog,                           \* the object of PortMidi
  rLife, rCrashed, rCb, rSize, rI, rJ, rBuf, rBytes, rMutex, rMsgs, rVm, rSpc,
  rRet, rSent, rLog, rFrames                   \* the object of RtMidi

portVars == <<pLife, pCancel, pCrashed, pRpc, pHand, pRlen, pMutex, pBbq, pMsg,
              pVm, pSpc, pRet, pSent, pLog>>
rtVars == <<rLife, rCrashed, rCb, rSize, rI, rJ, rBuf, rBytes, rMutex, rMsgs,
            rVm, rSpc, rRet, rSent, rLog, rFrames>>

P == INSTANCE PortMidi
       WITH life <- pLife, cancel <- pCancel, crashed <- pCrashed, rpc <- pRpc,
            hand <- pHand, rlen <- pRlen, mutex <- pMutex, bbq <- pBbq,
            msg <- pMsg, vm <- pVm, spc <- pSpc, ret <- pRet, sent <- pSent,
            log <- pLog

R == INSTANCE RtMidi
       WITH life <- rLife, crashed <- rCrashed, cb <- rCb, size <- rSize,
            i <- rI, j <- rJ, buf <- rBuf, bytes <- rBytes, mutex <- rMutex,
            msgs <- rMsgs, vm <- rVm, spc <- rSpc, ret <- rRet, sent <- rSent,
            log <- rLog, frames <- rFrames

ASSUME InputsAssumption == P!PortMidiAssumption /\ R!RtMidiAssumption

InputsInit ==
  /\ plug \in {"Evdev", "PortMidi", "RtMidi"}
  /\ Init
  /\ P!Init
  /\ R!Init

InputsNext ==
  \/ plug = "Evdev" /\ Next /\ UNCHANGED <<plug, portVars, rtVars>>
  \/ plug = "PortMidi" /\ P!Next /\ UNCHANGED <<plug, vars, rtVars>>
  \/ plug = "RtMidi" /\ R!Next /\ UNCHANGED <<plug, vars, portVars>>

(* What is assumed of an object that is not constructed asks for nothing. *)
InputsSpec ==
  /\ InputsInit
  /\ [][InputsNext]_<<plug, vars, portVars, rtVars>>
  /\ Fairness
  /\ P!Fairness
  /\ R!Fairness

-----------------------------------------------------------------------------
(* Each implements EventFifo: whatever its thread and the shreds do to the *)
(* array (evdev.c:34-109), the vector (portmidi.c:78-138) or the groups    *)
(* (rtmidi.cc:63-166), what was queued is read once and in order.          *)
FifosSpec == FifoSpec /\ P!FifoSpec /\ R!FifoSpec

(* A looper woken by Evdev or by PortMidi leaves nothing behind: what is   *)
(* queued when it wakes is handed out (test_loop.gw of each).              *)
DrainsDeliver ==
  \A n \in 1 .. MaxEvents :
    (Len(sent \o pSent) >= n /\ \E s \in Loopers : "woken" \in {spc[s], pSpc[s]})
      ~> (Len(log \o pLog) >= n)

(* No method blocks the machine for good: neither on a mutex nor in the    *)
(* destructor's join, unless PortMidi's thread dies of the vector that was *)
(* released under it (portmidi.c:117).                                     *)
VMsNeverStuck ==
  (vm # NoOne \/ pVm # NoOne) ~> (vm = NoOne /\ (pVm = NoOne \/ pCrashed))

(* A message of any length reaches the shreds of RtMidi as whole groups of *)
(* its own bytes, the last padded with zeros (rtmidi.cc:70-89).            *)
Framed == R!Framed

(* RtMidi wakes a shred only once all of the message is there to be read   *)
(* (rtmidi.cc:84-88).                                                      *)
WokenForWholeMessage == R!WokenForWholeMessage

(* RtMidi's destructor alone may block the machine for good, when it meets *)
(* a callback that has a group to queue (rtmidi.cc:53-59).                 *)
VMStuckOnlyInDtor == R!VMStuckOnlyInDtor

=============================================================================

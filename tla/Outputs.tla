------------------------------ MODULE Outputs ------------------------------
(***************************************************************************)
(* What the machine is heard and seen by: a driver of sound, or the        *)
(* windows of Nuklear, whose threads run beside it.  The two share         *)
(* nothing, so `plug` is chosen once and nothing of the other happens.     *)
(***************************************************************************)
EXTENDS Drivers

CONSTANTS Sizes, MaxCalls, MaxItems    \* those of Nuklear

VARIABLES
  plug,                                            \* "driver" or "Nuklear"
  nSize, nCalls, nPanel, nLast, nRoots, nKind, nParent, nList, nRef, nHeld,
  nAdding, nThread, nPath, nLock, nMisuse, nFault  \* the windows

windowVars == <<nSize, nCalls, nPanel, nLast, nRoots, nKind, nParent, nList, nRef,
                nHeld, nAdding, nThread, nPath, nLock, nMisuse, nFault>>

N == INSTANCE Nuklear
       WITH size <- nSize, calls <- nCalls, panel <- nPanel, last <- nLast,
            roots <- nRoots, kind <- nKind, parent <- nParent, list <- nList,
            ref <- nRef, held <- nHeld, adding <- nAdding, thread <- nThread,
            path <- nPath, lock <- nLock, misuse <- nMisuse, fault <- nFault

ASSUME OutputsAssumption == N!NuklearAssumption

(* Of what is not used, one choice stands for all. *)
OutputsInit ==
  /\ Init
  /\ N!Init
  /\ \/ plug = "driver" /\ nSize = CHOOSE z \in Sizes : TRUE
     \/ plug = "Nuklear" /\ config = CHOOSE c \in {"alsa"} \X Channels \X Channels : TRUE

OutputsNext ==
  \/ plug = "driver" /\ Next /\ UNCHANGED <<plug, windowVars>>
  \/ plug = "Nuklear" /\ N!Next /\ UNCHANGED <<plug, vars>>

(* A driver that is not initialised and windows that are not made ask for  *)
(* nothing.                                                                *)
OutputsSpec ==
  /\ OutputsInit
  /\ [][OutputsNext]_<<plug, vars, windowVars>>
  /\ Fairness
  /\ N!Fairness

-----------------------------------------------------------------------------
(* No thread of Nuklear meets a widget that was freed while shreds make    *)
(* and drop widgets, and every reference is counted (nuklear.c:152-181).   *)
WidgetsSafe == N!WidgetsSafe

(* A window is drawn again and again, until a panel is closed, and closing *)
(* one ends (nuklear.c:164-191, 276-283).                                  *)
WindowsDrawn == N!WindowsDrawn

=============================================================================

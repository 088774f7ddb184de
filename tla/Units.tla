------------------------------- MODULE Units -------------------------------
(***************************************************************************)
(* A program that imports one of the plug-ins of unit generators: the      *)
(* generated classes of STK and of Soundpipe, the L-systems, the analysis, *)
(* FMSynth or TinySR.  They share nothing but the machine that ticks them, *)
(* so `plug` is chosen once and nothing of the others is constructed.      *)
(***************************************************************************)
EXTENDS Stk

CONSTANTS Tables, Arr, MaxTables, MaxCount, MaxLost   \* those of Soundpipe
CONSTANTS Grammars, Orders, Others, Seconds           \* those of Lsys
CONSTANTS Ffts, Samples, Sizes, MaxInits              \* those of Analys
CONSTANTS MaxSynths                                   \* that of FMSynth
CONSTANTS ReadSamps, Words, MaxTicks                  \* those of TinySR

VARIABLES
  plug,                                            \* the plug-in imported
  uClass, uLife, uOsc, uIsInit, uKept, uUsed, tSlot, tMade, tDead, tArr, tRef,
  tHeld, tLost, tSpilled, uMisuse, uFault,         \* the unit and the tables
  lLife, lPos, lMode, lCur, lEnt, lList, lLast, lAt, lIsInit, lOut, lMeant,
  lDue, lHeard, lMisuse, lFault,                   \* the L-system
  aRef, aHeld, aBuf, aRing, aSpectrum, aContent, aMade, aGone, aNow, aFft,
  aFval, aSize, aDone, aRecent, aMisuse, aFault,   \* the FFTs and the ANA
  fLife, fSynth, fData, fSynths, fFreed, fLeft, fNamed, fMisuse,
  fFault,                                          \* the synthesizer
  rSmp, rIdx, rIni, rWords, rIndex, rFed, rHeard, rMisuse,
  rFault                                           \* the recogniser

soundpipeVars == <<uClass, uLife, uOsc, uIsInit, uKept, uUsed, tSlot, tMade,
                   tDead, tArr, tRef, tHeld, tLost, tSpilled, uMisuse, uFault>>

lsysVars == <<lLife, lPos, lMode, lCur, lEnt, lList, lLast, lAt, lIsInit, lOut,
              lMeant, lDue, lHeard, lMisuse, lFault>>

analysVars == <<aRef, aHeld, aBuf, aRing, aSpectrum, aContent, aMade, aGone,
                aNow, aFft, aFval, aSize, aDone, aRecent, aMisuse, aFault>>

fmVars ==
  <<fLife, fSynth, fData, fSynths, fFreed, fLeft, fNamed, fMisuse, fFault>>

srVars == <<rSmp, rIdx, rIni, rWords, rIndex, rFed, rHeard, rMisuse, rFault>>

U == INSTANCE Soundpipe
       WITH MaxMade <- MaxTables, class <- uClass, life <- uLife, osc <- uOsc,
            isInit <- uIsInit, kept <- uKept, used <- uUsed, slot <- tSlot,
            made <- tMade, dead <- tDead, arr <- tArr, ref <- tRef,
            held <- tHeld, lost <- tLost, spilled <- tSpilled,
            misuse <- uMisuse, fault <- uFault

L == INSTANCE Lsys
       WITH life <- lLife, pos <- lPos, mode <- lMode, cur <- lCur, ent <- lEnt,
            list <- lList, last <- lLast, at <- lAt, isInit <- lIsInit,
            out <- lOut, meant <- lMeant, due <- lDue, heard <- lHeard,
            misuse <- lMisuse, fault <- lFault

A == INSTANCE Analys
       WITH ref <- aRef, held <- aHeld, buf <- aBuf, ring <- aRing,
            spectrum <- aSpectrum, content <- aContent, made <- aMade,
            gone <- aGone, now <- aNow, fft <- aFft, fval <- aFval,
            size <- aSize, done <- aDone, recent <- aRecent,
            misuse <- aMisuse, fault <- aFault

F == INSTANCE FMSynth
       WITH life <- fLife, synth <- fSynth, data <- fData, synths <- fSynths,
            freed <- fFreed, left <- fLeft, named <- fNamed, misuse <- fMisuse,
            fault <- fFault

R == INSTANCE TinySR
       WITH smp <- rSmp, idx <- rIdx, ini <- rIni, words <- rWords,
            index <- rIndex, fed <- rFed, heard <- rHeard, misuse <- rMisuse,
            fault <- rFault

ASSUME UnitsAssumption ==
  /\ U!SoundpipeAssumption
  /\ L!LsysAssumption
  /\ A!AnalysAssumption
  /\ F!FMSynthAssumption
  /\ R!TinySRAssumption

(* Of a plug-in that is not imported, one first state stands for all. *)
UnitsInit ==
  /\ plug \in {"STK", "Soundpipe", "Lsys", "Analys", "FMSynth", "TinySR"}
  /\ IF plug = "STK" THEN TRUE ELSE class = [o \in Objects |-> "Stk"]
  /\ IF plug = "Soundpipe" THEN TRUE ELSE uClass = CHOOSE c \in U!Classes : TRUE
  /\ IF plug = "Analys" THEN TRUE ELSE aDone = FALSE
  /\ Init /\ U!Init /\ L!Init /\ A!Init /\ F!Init /\ R!Init

Rest(others) == UNCHANGED <<plug, others>>

UnitsNext ==
  \/ /\ plug = "STK"
     /\ Next
     /\ Rest(<<soundpipeVars, lsysVars, analysVars, fmVars, srVars>>)
  \/ /\ plug = "Soundpipe"
     /\ U!Next
     /\ Rest(<<vars, lsysVars, analysVars, fmVars, srVars>>)
  \/ /\ plug = "Lsys"
     /\ L!Next
     /\ Rest(<<vars, soundpipeVars, analysVars, fmVars, srVars>>)
  \/ /\ plug = "Analys"
     /\ A!Next
     /\ Rest(<<vars, soundpipeVars, lsysVars, fmVars, srVars>>)
  \/ /\ plug = "FMSynth"
     /\ F!Next
     /\ Rest(<<vars, soundpipeVars, lsysVars, analysVars, srVars>>)
  \/ /\ plug = "TinySR"
     /\ R!Next
     /\ Rest(<<vars, soundpipeVars, lsysVars, analysVars, fmVars>>)

UnitsSpec ==
  /\ UnitsInit
  /\ [][UnitsNext]_<<plug, vars, soundpipeVars, lsysVars, analysVars, fmVars,
                     srVars>>

-----------------------------------------------------------------------------
(* Whatever the program does with the objects of any of the plug-ins, in   *)
(* any order, no null, destroyed or misread memory is used but by one of   *)
(* the questionable uses that their modules name: null arguments in all of *)
(* them, which no function asks about, and with FMSynth's the name and the *)
(* author that a load left (stk.cc:553-560, 933-943,                       *)
(* soundpipe.c:2100-2128, 2742-2863, Lsys/plug.c:68-109,                   *)
(* analys.c:100-121, 434-457, fmsynth.c:53-145, tinysr.c:54-118).          *)
UnitsSafe ==
  /\ SafeWithoutMisuse
  /\ U!SafeWithoutMisuse
  /\ L!SafeWithoutMisuse
  /\ A!SafeWithoutMisuse
  /\ F!SafeWithoutMisuse
  /\ R!SafeWithoutMisuse

(* What is computed is what was asked for, whenever it is: an L-system     *)
(* plays the order's generation of the grammar it was given, a transform   *)
(* is of the last samples, oldest first, and every sample is recognised    *)
(* once (lsys.c:112-208, analys.c:38-78, 123-136, tinysr.c:54-80).         *)
UnitsCompute == L!PlaysGeneration /\ A!SpectrumOfLast /\ R!RecognisesAll

(* Every reference a unit of Soundpipe takes is accounted for, and the     *)
(* library's memory is given back when the last goes: but for what         *)
(* nsmp_init and gen_padsynth forget and what gen_scrambler overwrites     *)
(* (soundpipe.c:3436, 2803-2851).                                          *)
TablesAccounted == U!MemoryAccounted

(* What the compiler was told of a function's arguments is what it reads,  *)
(* but for Stk's misdeclared ones, and no tick of Soundpipe reads or       *)
(* writes a channel the constructor did not ask for.                       *)
UnitsAgree == CallsAgree /\ U!CallsAgree /\ U!TicksInside

=============================================================================

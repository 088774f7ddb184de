--------------------------- MODULE MachineProofs ---------------------------
(***************************************************************************)
(* Proofs about Machine and the FileIO it extends, for any number of       *)
(* shreds, lines, strings and numbers: the three safety invariants of the  *)
(* run.                                                                    *)
(*                                                                         *)
(* ThreadsSafe and NumbersUnique are inductive with the types.  That every *)
(* line is returned once is not: a shred could read again before its       *)
(* thread has pushed, so Busy says that a shred with a thread does not     *)
(* run, and LinesHeld where each line is, by its places and not by their   *)
(* number.                                                                 *)
(***************************************************************************)
EXTENDS Machine, SequenceTheorems, FiniteSetTheorems, TLAPS

Typed ==
  /\ shred \in [Shreds -> {"none", "runs", "parked", "gone"}]
  /\ thread \in [Shreds -> {"none", "getline", "push", "fwrite", "shredule"}]
  /\ arg \in [Shreds -> Nat]
  /\ file \in {"none", "open", "closed"}
  /\ pos \in Nat
  /\ got \in Seq([by : Shreds, line : Nat])
  /\ num \in [Shreds -> Nat]
  /\ misuse \in BOOLEAN

(* The passes that Machine.check copied are never its own.                 *)
Copied == \A copy \in back : copy[2] # "check"

(* A thread works for a shred that is parked or was removed. *)
Busy == \A s \in Shreds : thread[s] # "none" => shred[s] \in {"parked", "gone"}

(* Where a line that was taken is: in one place, and nothing else is held. *)
LinesHeld ==
  /\ \A l \in 1 .. pos : \/ \E n \in DOMAIN got : got[n].line = l
                         \/ \E s \in Holders : arg[s] = l
  /\ \A n \in DOMAIN got : got[n].line \in 1 .. pos
  /\ \A s \in Holders : arg[s] \in 1 .. pos
  /\ \A m, n \in DOMAIN got : got[m].line = got[n].line => m = n
  /\ \A s, t \in Holders : arg[s] = arg[t] => s = t
  /\ \A n \in DOMAIN got, s \in Holders : got[n].line # arg[s]

(* What a shred has read comes before what its thread holds. *)
InOrder ==
  /\ \A m, n \in DOMAIN got :
       m < n /\ got[m].by = got[n].by => got[m].line < got[n].line
  /\ \A n \in DOMAIN got, s \in Holders : got[n].by = s => got[n].line < arg[s]

IInv ==
  /\ Typed
  /\ Copied
  /\ ThreadsSafe
  /\ NumbersUnique
  /\ fault = "none" => Busy /\ LinesHeld /\ InOrder

-----------------------------------------------------------------------------
(* A line that is in one place is counted once.                            *)
LEMMA HeldIsOnce ==
  ASSUME Typed, LinesHeld, InOrder, fault = "none"
  PROVE  LinesOnceInOrder
<1>1. ASSUME NEW l \in 1 .. pos
      PROVE  Cardinality({n \in DOMAIN got : got[n].line = l})
               + Cardinality({s \in Holders : arg[s] = l}) = 1
  <2> DEFINE read == {n \in DOMAIN got : got[n].line = l}
             held == {s \in Holders : arg[s] = l}
  <2>1. CASE \E n \in DOMAIN got : got[n].line = l
    <3>1. PICK n \in DOMAIN got : got[n].line = l
      BY <2>1
    <3>2. read = {n} /\ held = {}
      BY <3>1 DEF LinesHeld
    <3> HIDE DEF read, held
    <3>3. Cardinality(read) = 1 /\ Cardinality(held) = 0
      BY <3>2, FS_EmptySet, FS_Singleton
    <3>4. Cardinality(read) + Cardinality(held) = 1
      BY <3>3
    <3> QED
      BY <3>4 DEF read, held
  <2>2. CASE ~\E n \in DOMAIN got : got[n].line = l
    <3>1. PICK s \in Holders : arg[s] = l
      BY <2>2 DEF LinesHeld
    <3>2. read = {} /\ held = {s}
      BY <2>2, <3>1 DEF LinesHeld
    <3> HIDE DEF read, held
    <3>3. Cardinality(read) = 0 /\ Cardinality(held) = 1
      BY <3>2, FS_EmptySet, FS_Singleton
    <3>4. Cardinality(read) + Cardinality(held) = 1
      BY <3>3
    <3> QED
      BY <3>4 DEF read, held
  <2> QED
    BY <2>1, <2>2
<1>2. \A n \in DOMAIN got : got[n].line <= pos
  BY DEF LinesHeld, Typed
<1> QED
  BY <1>1, <1>2 DEF LinesOnceInOrder, InOrder

(* One shred runs and no file is open (fileio.c, machine.c: before main).  *)
LEMMA InitIInv == MachineInit => IInv
<1> SUFFICES ASSUME MachineInit PROVE IInv
  OBVIOUS
<1> USE DEF MachineInit, Init
<1>1. PICK n \in Numbers : num = [s \in Shreds |-> IF s = Main THEN n ELSE 0]
  OBVIOUS
<1>2. Typed
  <2>1. Numbers \subseteq Nat
    BY MachineAssumption
  <2>2. got \in Seq([by : Shreds, line : Nat])
    BY EmptySeq
  <2>3. num \in [Shreds -> Nat]
    BY <1>1, <2>1
  <2> QED
    BY <2>2, <2>3 DEF Typed
<1>3. ThreadsSafe
  BY DEF ThreadsSafe
<1>4. NumbersUnique
  BY <1>1 DEF NumbersUnique, Live
<1>5. Busy /\ LinesHeld /\ InOrder
  BY DEF Busy, LinesHeld, InOrder, Holders
<1>6. Copied
  BY DEF Copied
<1> QED
  BY <1>2, <1>3, <1>4, <1>5, <1>6 DEF IInv

-----------------------------------------------------------------------------
(* What the steps do to one group of variables                             *)

FileNext(s) == Thread(s) \/ FileCall(s)
MachineNext(s) == MachineCall(s) \/ Checked(s)

(* Whoever's turn it is, a step is one of FileIO or one of Machine.        *)
LEMMA NextIsOne ==
  ASSUME Next
  PROVE  \E s \in Shreds : \/ FileNext(s) /\ UNCHANGED machineVars
                           \/ MachineNext(s)
BY DEF Next, FileNext, MachineNext

(* Nothing happens once there was a bad access, and misuse is not undone.  *)
LEMMA OnlyWhileAlive ==
  ASSUME Next, Typed
  PROVE  fault = "none" /\ (~misuse' => ~misuse)
<1>1. ASSUME NEW s \in Shreds, FileNext(s), UNCHANGED machineVars
      PROVE  fault = "none" /\ misuse' = misuse
  BY <1>1 DEF machineVars, FileNext, Thread, FileCall, GetLine, GetLineEof, Push, Fwrite,
              FwriteFails, Shredule, Open, OpenFail, Exit, Read, Write, Running, Alive
<1>2. ASSUME NEW s \in Shreds, MachineNext(s)
      PROVE  fault = "none" /\ (~misuse' => ~misuse)
  BY <1>2 DEF Typed, machineVars, MachineNext, MachineCall, Add, AddFails, Check, Checked, Pass,
              RemoveShred, Replace, ReplaceFails, RemoveNone, ReplaceNone, ReplaceNoneFails,
              ReadAfterRaise, Itself, Running, Alive
<1> QED
  BY <1>1, <1>2, NextIsOne

(* The calls of Machine leave the threads, the stream and what was read    *)
(* alone: they add an unused shred, and end shreds that live.              *)
LEMMA MachineKeeps ==
  ASSUME NEW s \in Shreds, MachineNext(s)
  PROVE  /\ UNCHANGED <<thread, arg, stream>>
         /\ shred[s] = "runs"
BY DEF MachineNext, MachineCall, Add, AddFails, Check, Checked, Pass, RemoveShred, Replace,
       ReplaceFails, RemoveNone, ReplaceNone, ReplaceNoneFails, machineVars, Running, stream,
       fileVars

(* A shred is added once, and only removed afterwards (machine.c:19-105).  *)
LEMMA MachineShreds ==
  ASSUME Typed, NEW s \in Shreds, MachineNext(s)
  PROVE  /\ shred' \in [Shreds -> {"none", "runs", "parked", "gone"}]
         /\ num' \in [Shreds -> Nat]
         /\ \A t \in Shreds : \/ shred'[t] = shred[t] /\ num'[t] = num[t]
                              \/ shred'[t] = "gone" /\ num'[t] = num[t]
                              \/ shred[t] = "none" /\ shred'[t] = "runs"
<1> DEFINE changed ==
             /\ shred' \in [Shreds -> {"none", "runs", "parked", "gone"}]
             /\ num' \in [Shreds -> Nat]
             /\ \A t \in Shreds : \/ shred'[t] = shred[t] /\ num'[t] = num[t]
                                  \/ shred'[t] = "gone" /\ num'[t] = num[t]
                                  \/ shred[t] = "none" /\ shred'[t] = "runs"
<1> USE DEF Typed, Gone, Added, Unused, Live
<1>0. ASSUME NEW t \in Shreds, Raise(t), shred[t] = "runs", num' = num
      PROVE  changed
  BY <1>0 DEF Raise
<1>1. CASE Add(s)
  <2>1. PICK new \in Unused, n \in Numbers : Added(shred, new, n)
    BY <1>1 DEF Add
  <2>2. n \in Nat
    BY MachineAssumption
  <2> QED
    BY <2>1, <2>2
<1>2. CASE AddFails(s) \/ Check(s) \/ Checked(s) \/ Pass(s)
  BY <1>0, <1>2 DEF AddFails, Check, Checked, Pass, machineVars, fileVars, Running
<1>3. ASSUME NEW t \in Shreds, RemoveShred(s, t)
      PROVE  changed
  BY <1>3 DEF RemoveShred
<1>4. ASSUME NEW t \in Shreds, Replace(s, t)
      PROVE  changed
  <2>1. PICK new \in Unused : Added(Gone(t), new, num[t])
    BY <1>4 DEF Replace
  <2>2. new # t /\ new \in Shreds /\ num[t] \in Nat
    BY <1>4 DEF Replace
  <2> QED
    BY <2>1, <2>2
<1>5. ASSUME NEW t \in Shreds, ReplaceFails(s, t)
      PROVE  changed
  BY <1>5 DEF ReplaceFails
<1>6. ASSUME NEW n \in Numbers, RemoveNone(s, n)
      PROVE  changed
  BY <1>0, <1>6 DEF RemoveNone, AddFails, machineVars, Running
<1>7. ASSUME NEW n \in Numbers, ReplaceNone(s, n)
      PROVE  changed
  <2>1. PICK new \in Unused : Added(Gone(s), new, n) \/ Added(shred, new, n)
    BY <1>7 DEF ReplaceNone
  <2>2. new # s /\ new \in Shreds /\ n \in Nat
    BY <1>7, MachineAssumption DEF ReplaceNone, Running
  <2> QED
    BY <2>1, <2>2
<1>9. ASSUME NEW n \in Numbers, ReplaceNoneFails(s, n)
      PROVE  changed
  BY <1>0, <1>9 DEF ReplaceNoneFails, Running
<1> HIDE DEF changed
<1>8. changed
  <2> HIDE DEF Typed
  <2> QED
    BY <1>1, <1>2, <1>3, <1>4, <1>5, <1>6, <1>7, <1>9 DEF MachineNext, MachineCall, changed
<1> QED
  BY <1>8 DEF changed

(* Of the steps of FileIO only the threads' end what was parked.           *)
LEMMA FileTypes ==
  ASSUME Typed, NEW s \in Shreds, FileNext(s), UNCHANGED machineVars
  PROVE  Typed'
<1> USE DEF Typed, machineVars
<1>1. CASE GetLine(s)
  BY <1>1 DEF GetLine, Start
<1>2. CASE GetLineEof(s)
  BY <1>2 DEF GetLineEof, Start, Raise, Closed, stream
<1>3. CASE Push(s)
  <2>1. [by |-> s, line |-> arg[s]] \in [by : Shreds, line : Nat]
    OBVIOUS
  <2>2. got' \in Seq([by : Shreds, line : Nat])
    BY <1>3, <2>1, AppendProperties DEF Push
  <2> QED
    BY <1>3, <2>2 DEF Push, Start, Resume
<1>4. CASE Fwrite(s)
  BY <1>4 DEF Fwrite, Start
<1>5. CASE FwriteFails(s)
  BY <1>5 DEF FwriteFails, Start, Raise, Closed, stream
<1>6. CASE Shredule(s)
  BY <1>6 DEF Shredule, Start, Resume, stream
<1>7. CASE Open(s) \/ OpenFail(s) \/ Exit(s)
  BY <1>7 DEF Open, OpenFail, Exit, Raise, Closed, stream
<1>8. CASE Read(s)
  BY <1>8 DEF Read, Park, Start, stream
<1>9. ASSUME NEW n \in Strings, Write(s, n)
      PROVE  Typed'
  BY <1>9, FileIOAssumption DEF Write, Park, Start
<1> QED
  BY <1>1, <1>2, <1>3, <1>4, <1>5, <1>6, <1>7, <1>8, <1>9 DEF FileNext, Thread, FileCall

(* The calls of Machine keep the types.                                    *)
LEMMA MachineTypes ==
  ASSUME Typed, NEW s \in Shreds, MachineNext(s)
  PROVE  Typed'
<1>1. file' \in {"none", "open", "closed"} /\ misuse' \in BOOLEAN
  BY DEF Typed, MachineNext, MachineCall, Add, AddFails, Check, Checked, Pass, RemoveShred,
         Replace, ReplaceFails, RemoveNone, ReplaceNone, ReplaceNoneFails, ReadAfterRaise, Raise,
         Itself, Orphaned, Closed, machineVars, fileVars
<1> QED
  BY <1>1, MachineKeeps, MachineShreds DEF Typed, stream

(* Every step keeps the types.                                             *)
LEMMA TypeStep ==
  ASSUME Typed, Next
  PROVE  Typed'
BY FileTypes, MachineTypes, NextIsOne

(* A check starts when no other is going on.                               *)
LEMMA CopiedStep ==
  ASSUME Copied, NumbersUnique, Next, fault = "none"
  PROVE  Copied'
<1>1. ASSUME NEW s \in Shreds, UNCHANGED machineVars
      PROVE  Copied'
  BY <1>1 DEF machineVars, Copied
<1>2. ASSUME NEW s \in Shreds, MachineCall(s), back = {}
      PROVE  Copied'
  <2>1. CASE Check(s)
    BY <1>2, <2>1 DEF Check, NumbersUnique, Copied
  <2>2. CASE ~Check(s)
    BY <1>2, <2>2 DEF Copied, MachineCall, Add, AddFails, Pass, RemoveShred, Replace,
       ReplaceFails, RemoveNone, ReplaceNone, ReplaceNoneFails, machineVars
  <2> QED
    BY <2>1, <2>2
<1>3. ASSUME NEW s \in Shreds, Checked(s)
      PROVE  Copied'
  BY <1>3 DEF Checked, Copied
<1> QED
  BY <1>1, <1>2, <1>3 DEF Next

-----------------------------------------------------------------------------
(* ThreadsSafe                                                             *)

(* A file is closed only when no shred that stays can use it.              *)
LEMMA ClosedKeeps ==
  ASSUME NEW S \in SUBSET Shreds, NEW t \in Shreds \ S, shred[t] = "parked", file = "open"
  PROVE  Closed(S) = "open"
BY DEF Closed

(* The calls of FileIO and their threads keep ThreadsSafe.                 *)
LEMMA FileThreadsSafe ==
  ASSUME Typed, ThreadsSafe, NEW s \in Shreds, FileNext(s), UNCHANGED machineVars
  PROVE  ThreadsSafe'
<1> SUFFICES ASSUME ~misuse PROVE ThreadsSafe'
  BY DEF machineVars, ThreadsSafe
<1> USE DEF Typed, ThreadsSafe, machineVars
<1>1. CASE GetLine(s)
  BY <1>1 DEF GetLine, Start, Reaches
<1>2. CASE GetLineEof(s) \/ FwriteFails(s)
  <2>1. /\ Reaches(s) /\ Raise(s) /\ thread[s] # "none"
        /\ thread' = [thread EXCEPT ![s] = "none"]
    BY <1>2 DEF GetLineEof, FwriteFails, Start
  <2>2. shred[s] = "parked" /\ file = "open" /\ fault' = fault
    BY <2>1 DEF Reaches
  <2>3. /\ \A t \in Shreds \ {s} : shred'[t] = shred[t] /\ thread'[t] = thread[t]
        /\ shred'[s] # "parked" /\ thread'[s] = "none"
    BY <2>1 DEF Raise
  <2>4. ASSUME NEW t \in Shreds \ {s}, shred[t] = "parked"
        PROVE  file' = "open"
    <3>1. Closed({s}) = "open"
      BY <2>2, <2>4, ClosedKeeps
    <3> QED
      BY <2>1, <2>2, <3>1 DEF Raise
  <2> QED
    BY <2>2, <2>3, <2>4
<1>3. CASE Push(s)
  BY <1>3 DEF Push, Start, Resume
<1>4. CASE Fwrite(s)
  BY <1>4 DEF Fwrite, Start, Reaches
<1>6. CASE Shredule(s)
  BY <1>6 DEF Shredule, Start, Resume, stream
<1>7. CASE Open(s) \/ OpenFail(s)
  BY <1>7 DEF Open, OpenFail, Raise, Running, stream
<1>8. CASE Exit(s)
  BY <1>8, ClosedKeeps DEF Exit, Running, stream
<1>9. CASE Read(s)
  BY <1>9 DEF Read, Park, Start, Running, stream
<1>10. ASSUME NEW n \in Strings, Write(s, n)
       PROVE  ThreadsSafe'
  BY <1>10 DEF Write, Park, Start, Running
<1> QED
  BY <1>1, <1>2, <1>3, <1>4, <1>6, <1>7, <1>8, <1>9, <1>10
     DEF FileNext, Thread, FileCall

(* What the calls of Machine do while nothing was misused: no shred that   *)
(* is parked is touched, and the file stays open for it.                   *)
LEMMA MachineSafely ==
  ASSUME Typed, ThreadsSafe, NEW s \in Shreds, MachineNext(s), ~misuse'
  PROVE  /\ fault' = fault
         /\ \A t \in Shreds : shred'[t] = "parked" <=> shred[t] = "parked"
         /\ (\E t \in Shreds : shred[t] = "parked") => file' = "open"
<1> DEFINE untouched == \A t \in Shreds : shred'[t] = "parked" <=> shred[t] = "parked"
           usable == (\E t \in Shreds : shred[t] = "parked") => file' = "open"
<1>0. ~misuse
  BY DEF Typed, machineVars, MachineNext, MachineCall, Add, AddFails, Check, Checked, Pass,
         RemoveShred, Replace, ReplaceFails, RemoveNone, ReplaceNone, ReplaceNoneFails,
         ReadAfterRaise, Itself
<1> USE <1>0 DEF Typed, ThreadsSafe, Gone, Added, Unused, Live, Orphaned, Running
<1>1. CASE Add(s)
  BY <1>1 DEF Add
<1>2. CASE AddFails(s) \/ Check(s) \/ Checked(s)
  BY <1>2, ClosedKeeps DEF AddFails, Check, Checked, Raise, machineVars, fileVars
<1>3. CASE Pass(s)
  BY <1>3 DEF Pass
<1>4. ASSUME NEW t \in Shreds, RemoveShred(s, t)
      PROVE  fault' = fault /\ untouched /\ usable
  BY <1>4, ClosedKeeps DEF RemoveShred
<1>5. ASSUME NEW t \in Shreds, Replace(s, t)
      PROVE  fault' = fault /\ untouched /\ usable
  BY <1>5 DEF Replace, Itself
<1>6. ASSUME NEW t \in Shreds, ReplaceFails(s, t)
      PROVE  fault' = fault /\ untouched /\ usable
  BY <1>6, ClosedKeeps DEF ReplaceFails, Itself
<1>7. ASSUME NEW n \in Numbers, RemoveNone(s, n)
      PROVE  fault' = fault /\ untouched /\ usable
  BY <1>7, ClosedKeeps DEF RemoveNone, AddFails, Raise, machineVars
<1>8. ASSUME NEW n \in Numbers, ReplaceNone(s, n) \/ ReplaceNoneFails(s, n)
      PROVE  fault' = fault /\ untouched /\ usable
  BY <1>8 DEF ReplaceNone, ReplaceNoneFails, ReadAfterRaise
<1> HIDE DEF untouched, usable
<1>9. fault' = fault /\ untouched /\ usable
  <2> HIDE DEF Typed, ThreadsSafe, Gone, Added, Unused, Live, Orphaned, Running
  <2> QED
    BY <1>1, <1>2, <1>3, <1>4, <1>5, <1>6, <1>7, <1>8
       DEF MachineNext, MachineCall, untouched, usable
<1> QED
  BY <1>9 DEF untouched, usable

(* So does every step.                                                     *)
LEMMA ThreadsSafeStep ==
  ASSUME Typed, ThreadsSafe, Next
  PROVE  ThreadsSafe'
<1>1. ASSUME NEW s \in Shreds, MachineNext(s), ~misuse'
      PROVE  ThreadsSafe'
  <2>1. fault = "none" /\ ~misuse
    BY <1>1, OnlyWhileAlive
  <2> QED
    BY <1>1, <2>1, MachineSafely, MachineKeeps DEF ThreadsSafe
<1>2. ASSUME NEW s \in Shreds, MachineNext(s)
      PROVE  ThreadsSafe'
  BY <1>1, <1>2 DEF ThreadsSafe
<1> QED
  BY <1>2, FileThreadsSafe, NextIsOne

-----------------------------------------------------------------------------
(* NumbersUnique                                                           *)

(* No step of FileIO brings a shred back that was gone, without a fault.   *)
LEMMA FileLive ==
  ASSUME Typed, NEW s \in Shreds, FileNext(s), fault' = "none"
  PROVE  Live' \subseteq Live
<1> USE DEF Typed, Live
<1>1. CASE GetLine(s) \/ Fwrite(s)
  BY <1>1 DEF GetLine, Fwrite
<1>2. CASE GetLineEof(s) \/ Push(s) \/ FwriteFails(s) \/ Shredule(s)
  BY <1>2 DEF GetLineEof, Push, FwriteFails, Shredule, Resume, Reaches, Raise
<1>3. CASE Open(s) \/ OpenFail(s) \/ Exit(s)
  BY <1>3 DEF Open, OpenFail, Exit, Raise, Running
<1>4. CASE Read(s)
  BY <1>4 DEF Read, Park, Running
<1>5. ASSUME NEW n \in Strings, Write(s, n)
      PROVE  Live' \subseteq Live
  BY <1>5 DEF Write, Park, Running
<1> QED
  BY <1>1, <1>2, <1>3, <1>4, <1>5 DEF FileNext, Thread, FileCall

(* A number is given when no live shred has it: to a new shred, or with    *)
(* the shred that had it gone (machine.c:70-100).                          *)
LEMMA MachineNumbers ==
  ASSUME Typed, NEW s \in Shreds, MachineNext(s),
         \A t, u \in Live : num[t] = num[u] => t = u
  PROVE  \A t, u \in Live' : num'[t] = num'[u] => t = u
<1> DEFINE unique == \A t, u \in Live' : num'[t] = num'[u] => t = u
<1> USE DEF Typed, Live, Gone, Added, Unused, Numbered, Running
<1>1. CASE Add(s)
  BY <1>1 DEF Add
<1>2. CASE AddFails(s) \/ Check(s) \/ Checked(s) \/ Pass(s)
  BY <1>2 DEF AddFails, Check, Checked, Pass, Raise, machineVars, fileVars
<1>3. ASSUME NEW t \in Shreds, RemoveShred(s, t)
      PROVE  unique
  BY <1>3 DEF RemoveShred
<1>4. ASSUME NEW t \in Shreds, Replace(s, t)
      PROVE  unique
  <2>1. PICK new \in Unused : /\ shred' = [shred EXCEPT ![t] = "gone", ![new] = "runs"]
                              /\ num' = [num EXCEPT ![new] = num[t]]
    BY <1>4 DEF Replace
  <2>2. new # t /\ t \in Live
    BY <1>4 DEF Replace
  <2>3. \A u \in Live' : \/ u = new /\ num'[u] = num[t]
                         \/ u \in Live /\ u # t /\ u # new /\ num'[u] = num[u]
    BY <2>1, <2>2
  <2> HIDE DEF Typed, Live
  <2> QED
    BY <2>2, <2>3
<1>5. ASSUME NEW t \in Shreds, ReplaceFails(s, t)
      PROVE  unique
  BY <1>5 DEF ReplaceFails
<1>6. ASSUME NEW n \in Numbers, RemoveNone(s, n)
      PROVE  unique
  BY <1>6 DEF RemoveNone, AddFails, Raise, machineVars
<1>7. ASSUME NEW n \in Numbers, ReplaceNone(s, n)
      PROVE  unique
  <2>1. PICK new \in Unused : Added(Gone(s), new, n) \/ Added(shred, new, n)
    BY <1>7 DEF ReplaceNone
  <2>2. \A u \in Live' : \/ u = new /\ num'[u] = n
                         \/ u \in Live /\ u # new /\ num'[u] = num[u]
    BY <2>1
  <2>3. \A u \in Live : num[u] # n
    BY <1>7 DEF ReplaceNone
  <2> HIDE DEF Typed, Live
  <2> QED
    BY <2>2, <2>3
<1>9. ASSUME NEW n \in Numbers, ReplaceNoneFails(s, n)
      PROVE  unique
  BY <1>9 DEF ReplaceNoneFails, Raise
<1> HIDE DEF unique
<1>8. unique
  <2> HIDE DEF Typed, Live, Gone, Added, Unused, Numbered, Running
  <2> QED
    BY <1>1, <1>2, <1>3, <1>4, <1>5, <1>6, <1>7, <1>9 DEF MachineNext, MachineCall, unique
<1> QED
  BY <1>8 DEF unique

(* Every step keeps the numbers unique: a new shred takes the next one.    *)
LEMMA NumbersStep ==
  ASSUME Typed, Copied, NumbersUnique, Next
  PROVE  NumbersUnique'
<1> SUFFICES ASSUME fault' = "none"
             PROVE  NumbersUnique'
  BY DEF NumbersUnique
<1>1. fault = "none"
  BY OnlyWhileAlive
<1>2. ASSUME NEW s \in Shreds, FileNext(s), UNCHANGED machineVars
      PROVE  NumbersUnique'
  BY <1>1, <1>2, FileLive DEF NumbersUnique, machineVars
<1>3. ASSUME NEW s \in Shreds, MachineNext(s), back = {} \/ Checked(s)
      PROVE  NumbersUnique'
  <2>1. back' = {} => passes' # "check"
    <3>1. CASE Checked(s)
      BY <3>1 DEF Checked, Copied
    <3>2. CASE MachineCall(s) /\ back = {}
      BY <1>1, <3>2 DEF NumbersUnique, MachineCall, Add, AddFails, Check, Pass, RemoveShred,
         Replace, ReplaceFails, RemoveNone, ReplaceNone, ReplaceNoneFails, machineVars
    <3> QED
      BY <1>3, <3>1, <3>2 DEF MachineNext
  <2> QED
    BY <1>1, <1>3, <2>1, MachineNumbers DEF NumbersUnique
<1> QED
  BY <1>2, <1>3 DEF Next, FileNext, MachineNext

-----------------------------------------------------------------------------
(* LinesOnceInOrder                                                        *)

Lined == Busy /\ LinesHeld /\ InOrder

(* A line is taken: it is after all those before it (fileio.c:35).         *)
LEMMA GetLineLined ==
  ASSUME Typed, Lined, NEW s \in Shreds, GetLine(s), fault' = "none"
  PROVE  Lined'
<1>1. /\ thread[s] = "getline" /\ shred[s] = "parked"
      /\ thread' = [thread EXCEPT ![s] = "push"]
      /\ arg' = [arg EXCEPT ![s] = pos + 1]
      /\ pos' = pos + 1
      /\ UNCHANGED <<shred, got>>
  BY DEF GetLine, Start, Reaches
<1>2. Holders' = Holders \cup {s} /\ s \notin Holders
  BY <1>1 DEF Holders, Typed
<1>3. \A t \in Holders : arg'[t] = arg[t] /\ arg[t] \in Nat
  BY <1>1, <1>2 DEF Holders, Typed
<1>4. arg'[s] = pos + 1 /\ pos \in Nat
  BY <1>1 DEF Typed
<1>5. \A n \in DOMAIN got : got[n].line \in Nat
  BY DEF Lined, LinesHeld
<1>6. Busy'
  BY <1>1 DEF Lined, Busy, Typed
<1>7. LinesHeld'
  BY <1>1, <1>2, <1>3, <1>4, <1>5 DEF Lined, LinesHeld
<1>8. InOrder'
  BY <1>1, <1>2, <1>3, <1>4, <1>5 DEF Lined, LinesHeld, InOrder
<1> QED
  BY <1>6, <1>7, <1>8 DEF Lined

(* It is returned to the shred the thread works for (fileio.c:43-48).      *)
LEMMA PushLined ==
  ASSUME Typed, Lined, NEW s \in Shreds, Push(s)
  PROVE  Lined'
<1> DEFINE read == [by |-> s, line |-> arg[s]]
<1>1. /\ thread[s] = "push"
      /\ thread' = [thread EXCEPT ![s] = "none"]
      /\ got' = Append(got, read)
      /\ shred' = [shred EXCEPT ![s] = "runs"]
      /\ UNCHANGED <<arg, pos>>
  BY DEF Push, Start, Resume
<1>2. Holders' = Holders \ {s} /\ s \in Holders
  BY <1>1 DEF Holders, Typed
<1>3. read \in [by : Shreds, line : Nat] /\ got \in Seq([by : Shreds, line : Nat])
  BY DEF Typed
<1>4. read.by = s /\ read.line = arg[s]
  OBVIOUS
<1> HIDE DEF read
<1>5. /\ DOMAIN got' = 1 .. Len(got) + 1 /\ DOMAIN got = 1 .. Len(got) /\ Len(got) \in Nat
      /\ \A n \in 1 .. Len(got) : got'[n] = got[n]
      /\ got'[Len(got) + 1] = read
  BY <1>1, <1>3, AppendProperties
<1>6. Busy'
  BY <1>1 DEF Lined, Busy, Typed
<1>7. LinesHeld'
  BY <1>1, <1>2, <1>4, <1>5 DEF Lined, LinesHeld
<1>8. InOrder'
  BY <1>1, <1>2, <1>4, <1>5 DEF Lined, LinesHeld, InOrder
<1> QED
  BY <1>6, <1>7, <1>8 DEF Lined

(* A step that starts or ends no push leaves the lines where they are.     *)
LEMMA SameHolders ==
  ASSUME Lined, UNCHANGED <<pos, got>>, Holders' = Holders, Busy',
         \A s \in Holders : arg'[s] = arg[s]
  PROVE  Lined'
<1>1. \A l \in 1 .. pos : \/ \E n \in DOMAIN got' : got'[n].line = l
                          \/ \E s \in Holders' : arg'[s] = l
  BY DEF Lined, LinesHeld
<1>2. LinesHeld'
  BY <1>1 DEF Lined, LinesHeld
<1>3. InOrder'
  BY DEF Lined, InOrder
<1> QED
  BY <1>2, <1>3 DEF Lined

(* Every step keeps the lines in order.                                    *)
LEMMA LinesStep ==
  ASSUME Typed, Lined, Next, fault' = "none"
  PROVE  Lined'
<1>1. ASSUME NEW s \in Shreds, MachineNext(s)
      PROVE  Lined'
  <2>1. UNCHANGED <<thread, arg, pos, got>>
    BY <1>1, MachineKeeps DEF stream
  <2>2. Busy'
    <3>1. \A t \in Shreds : \/ shred'[t] = shred[t]
                          \/ shred'[t] = "gone"
                          \/ shred[t] = "none"
      BY <1>1, MachineShreds
    <3> QED
      BY <2>1, <3>1 DEF Lined, Busy
  <2>3. Holders' = Holders
    BY <2>1 DEF Holders
  <2> QED
    BY <2>1, <2>2, <2>3, SameHolders
<1>2. ASSUME NEW s \in Shreds, FileNext(s), UNCHANGED machineVars
      PROVE  Lined'
  <2> DEFINE kept == /\ UNCHANGED <<pos, got>>
                     /\ Holders' = Holders
                     /\ Busy'
                     /\ \A t \in Holders : arg'[t] = arg[t]
  <2>1. CASE GetLineEof(s) \/ FwriteFails(s) \/ Shredule(s)
    <3>1. kept
      BY <2>1 DEF GetLineEof, FwriteFails, Shredule, Start, Resume, Raise, stream, Holders,
         Lined, Busy, Typed
    <3> QED
      BY <3>1, SameHolders
  <2>2. CASE Fwrite(s)
    <3>1. kept
      BY <2>2 DEF Fwrite, Start, Holders, Lined, Busy, Typed
    <3> QED
      BY <3>1, SameHolders
  <2>3. CASE Open(s) \/ OpenFail(s) \/ Exit(s)
    <3>1. kept
      BY <2>3 DEF Open, OpenFail, Exit, Raise, Running, stream, Holders, Lined, Busy, Typed
    <3> QED
      BY <3>1, SameHolders
  <2>4. CASE Read(s)
    <3>1. kept
      BY <2>4 DEF Read, Park, Start, Running, stream, Holders, Lined, Busy, Typed
    <3> QED
      BY <3>1, SameHolders
  <2>5. ASSUME NEW n \in Strings, Write(s, n)
        PROVE  Lined'
    <3>1. kept
      BY <2>5 DEF Write, Park, Start, Running, Holders, Lined, Busy, Typed
    <3> QED
      BY <3>1, SameHolders
  <2> QED
    BY <1>2, <2>1, <2>2, <2>3, <2>4, <2>5, GetLineLined, PushLined
       DEF FileNext, Thread, FileCall
<1> QED
  BY <1>1, <1>2, NextIsOne

-----------------------------------------------------------------------------
(* The invariant holds of every behaviour.                                 *)
LEMMA Inductive == Spec => []IInv
<1>1. ASSUME IInv, Next
      PROVE  IInv'
  <2>1. Typed' /\ Copied' /\ ThreadsSafe' /\ NumbersUnique'
    BY <1>1, TypeStep, OnlyWhileAlive, CopiedStep, ThreadsSafeStep, NumbersStep DEF IInv
  <2>2. ASSUME fault' = "none"
        PROVE  Lined'
    BY <1>1, <2>2, OnlyWhileAlive, LinesStep DEF IInv, Lined
  <2> QED
    BY <2>1, <2>2 DEF IInv, Lined
<1>2. ASSUME IInv, UNCHANGED vars
      PROVE  IInv'
  BY <1>2 DEF vars, fileVars, IInv, Typed, Copied, ThreadsSafe, NumbersUnique, Live, Busy, LinesHeld,
     InOrder, Holders
<1>3. IInv /\ [Next]_vars => IInv'
  BY <1>1, <1>2
<1> QED
  BY InitIInv, <1>3, PTL DEF Spec

(* A shred is off the shreduler exactly while a thread of FileIO works for *)
(* it, on an open file, and nothing gone is touched, unless the program    *)
(* did one of the things listed (fileio.c:31-88, machine.c:70-117).        *)
THEOREM SpecThreadsSafe == Spec => []ThreadsSafe
<1>1. IInv => ThreadsSafe
  BY DEF IInv
<1> QED
  BY <1>1, Inductive, PTL

(* Every line that getline took is returned by one read, or one thread     *)
(* still has it, and a shred sees its lines in order (fileio.c:31-48): also*)
(* when shreds are removed and replaced meanwhile.                         *)
THEOREM SpecLinesOnceInOrder == Spec => []LinesOnceInOrder
<1>1. IInv => LinesOnceInOrder
  BY HeldIsOnce DEF IInv, LinesOnceInOrder
<1> QED
  BY <1>1, Inductive, PTL

(* No two live shreds have one number, however they are added, removed and *)
(* replaced, and the compiler has its passes back after every check        *)
(* (machine.c:70-117).                                                     *)
THEOREM SpecNumbersUnique == Spec => []NumbersUnique
<1>1. IInv => NumbersUnique
  BY DEF IInv
<1> QED
  BY <1>1, Inductive, PTL

=============================================================================

------------------------------- MODULE FileIO -------------------------------
(***************************************************************************)
(* The FileIO class of FileIO/fileio.c.  read and write take the calling   *)
(* shred off the shreduler and leave it to a detached thread, which does   *)
(* the blocking call, puts the result on the shred's stack and shredules   *)
(* it again, or raises an exception in it, which the shred may handle and  *)
(* go on from (file_read.gw:3-8) or be ended by.                           *)
(*                                                                         *)
(* The shreds share one object, whose file has its lines and takes what is *)
(* written at its end.  A line is abstracted to its number (that its last  *)
(* character is cut off, newline or not, is left out), a string to its     *)
(* length.  getline and fwrite lock the stream: each is one step.          *)
(***************************************************************************)
EXTENDS Integers, Sequences, SequencesExt

CONSTANTS Shreds,     \* the shreds there may be
          Main,       \* the one that is there at first and opens the file
          Lines,      \* number of lines of the file that is read
          Strings,    \* lengths of the strings written
          MaxWrites   \* bound: number of calls of write

ASSUME FileIOAssumption ==
  /\ Main \in Shreds
  /\ Lines \in Nat
  /\ Strings \subseteq Nat
  /\ MaxWrites \in Nat

VARIABLES
  shred,   \* each shred: "none", "runs", "parked" or "gone" (ended or removed)
  thread,  \* what its thread does next; "none" when there is none
  arg,     \* the line its thread read, or the length of what it writes
  file,    \* the object's file: "none", "open" or "closed"
  pos,     \* number of lines getline has taken
  got,     \* history: [by, line] of every string read returned
  writes,  \* history: number of calls of write
  fault    \* the first bad use of a file, a shred or a vector, or "none"

fileVars == <<shred, thread, arg, file, pos, got, writes, fault>>
stream == <<pos, got, writes>>

Init == /\ shred = [s \in Shreds |-> IF s = Main THEN "runs" ELSE "none"]
        /\ thread = [s \in Shreds |-> "none"]
        /\ arg = [s \in Shreds |-> 0]
        /\ file = "none"
        /\ pos = 0
        /\ got = <<>>
        /\ writes = 0
        /\ fault = "none"

-----------------------------------------------------------------------------
Alive == fault = "none"
Running(s) == Alive /\ shred[s] = "runs"

Start(s, what) == thread' = [thread EXCEPT ![s] = what]
Park(s) == shred' = [shred EXCEPT ![s] = "parked"]

(* The thread puts the shred back, whatever has become of it.              *)
Resume(s) ==
  /\ shred' = [shred EXCEPT ![s] = "runs"]
  /\ fault' = IF shred[s] = "parked" THEN fault ELSE "shred"

(* A thread finds the object in the shred's memory. *)
Reaches(s) ==
  fault' = IF shred[s] # "parked" THEN "shred"
           ELSE IF file # "open" THEN "file" ELSE fault

(* Mutant: the file is closed although a thread is at work for a shred. *)
ClosedSoon(left) ==
  IF file = "open" /\ \A t \in Shreds \ left : shred[t] # "runs" THEN "closed" ELSE file

(* What becomes of the file when some shreds drop their reference to the   *)
(* object: its destructor closes it after the last.                        *)
Closed(left) ==
  IF file = "open" /\ \A t \in Shreds \ left : shred[t] \notin {"runs", "parked"}
    THEN "closed" ELSE file

(* An exception ends the shred it is raised in, or is handled there.       *)
Raise(s) == \/ /\ shred' = [shred EXCEPT ![s] = "gone"]
               /\ file' = Closed({s})
            \/ /\ shred' = [shred EXCEPT ![s] = "runs"]
               /\ UNCHANGED file

-----------------------------------------------------------------------------
(* new FileIO(name, mode) *)
Open(s) == /\ Running(s)
           /\ file = "none"
           /\ file' = "open"
           /\ UNCHANGED <<shred, thread, arg, stream, fault>>

OpenFail(s) == /\ Running(s)
               /\ file = "none"
               /\ Raise(s)
               /\ UNCHANGED <<thread, arg, stream, fault>>

(* The code of a shred comes to its end. *)
Exit(s) == /\ Running(s)
           /\ shred' = [shred EXCEPT ![s] = "gone"]
           /\ file' = Closed({s})
           /\ UNCHANGED <<thread, arg, stream, fault>>

(* file2string *)
Read(s) == /\ Running(s)
           /\ file = "open"
           /\ Park(s)
           /\ Start(s, "getline")
           /\ UNCHANGED <<arg, file, stream, fault>>

(* fileio_read *)
GetLine(s) == /\ Alive
              /\ thread[s] = "getline"
              /\ pos < Lines
              /\ pos' = pos + 1
              /\ arg' = [arg EXCEPT ![s] = pos + 1]
              /\ Start(s, "push")
              /\ Reaches(s)
              /\ UNCHANGED <<shred, file, got, writes>>

(* Mutant: the end of the file raises no exception. *)
GetLineEofSilent(s) == /\ Alive
                       /\ thread[s] = "getline"
                       /\ pos = Lines
                       /\ Start(s, "none")
                       /\ UNCHANGED <<shred, arg, file, stream, fault>>

GetLineEof(s) == /\ Alive
                 /\ thread[s] = "getline"
                 /\ pos = Lines
                 /\ Reaches(s)
                 /\ Raise(s)
                 /\ Start(s, "none")
                 /\ UNCHANGED <<arg, stream>>

(* Mutant: the last line taken is pushed, not the thread's own. *)
PushLast(s) == /\ Alive
               /\ thread[s] = "push"
               /\ got' = Append(got, [by |-> s, line |-> pos])
               /\ Resume(s)
               /\ Start(s, "none")
               /\ UNCHANGED <<arg, file, pos, writes>>

Push(s) == /\ Alive
           /\ thread[s] = "push"
           /\ got' = Append(got, [by |-> s, line |-> arg[s]])
           /\ Resume(s)
           /\ Start(s, "none")
           /\ UNCHANGED <<arg, file, pos, writes>>

(* string2file *)
Write(s, n) == /\ Running(s)
               /\ file = "open"
               /\ writes < MaxWrites
               /\ writes' = writes + 1
               /\ Park(s)
               /\ Start(s, "fwrite")
               /\ arg' = [arg EXCEPT ![s] = n]
               /\ UNCHANGED <<file, pos, got, fault>>

(* fileio_write: fwrite returns the number of items, which is 0 after an   *)
(* error and for an empty string.  The string and the file were looked up  *)
(* before the thread started.                                              *)
Fwrite(s) == /\ Alive
             /\ thread[s] = "fwrite"
             /\ arg[s] > 0
             /\ Start(s, "shredule")
             /\ Reaches(s)
             /\ UNCHANGED <<shred, arg, file, pos, got, writes>>

FwriteFails(s) == /\ Alive
                  /\ thread[s] = "fwrite"
                  /\ Reaches(s)
                  /\ Raise(s)
                  /\ Start(s, "none")
                  /\ UNCHANGED <<arg, stream>>

Shredule(s) == /\ Alive
               /\ thread[s] = "shredule"
               /\ Resume(s)
               /\ Start(s, "none")
               /\ UNCHANGED <<arg, file, stream>>

-----------------------------------------------------------------------------
Thread(s) == \/ GetLine(s) \/ GetLineEof(s) \/ Push(s)
             \/ Fwrite(s) \/ FwriteFails(s) \/ Shredule(s)
FileCall(s) == \/ Open(s) \/ OpenFail(s) \/ Exit(s)
               \/ Read(s)
               \/ \E n \in Strings : Write(s, n)

=============================================================================

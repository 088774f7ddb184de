------------------------------ MODULE Machine ------------------------------
(***************************************************************************)
(* The Machine struct of Machine/machine.c with the shreds of FileIO: one  *)
(* shred adds, removes and replaces others by their numbers, those that a  *)
(* thread of FileIO holds included.                                        *)
(*                                                                         *)
(* vm_remove finds the shred of a number, parked or not, and frees it; it  *)
(* returns 0 when there is none.  compile_filename and compile_string make *)
(* a shred with a number no other has, their _xid variants one with the    *)
(* number they are given, and all return 0 when the code does not compile. *)
(* They are external, and so is handle, which raises an exception and does *)
(* not leave the function that called it: what follows it there is done    *)
(* although the shred may be gone, and its frame of the stack is.  Every   *)
(* shred that is made is given the object of FileIO, as the variants with  *)
(* values do.                                                              *)
(***************************************************************************)
EXTENDS FileIO, FiniteSets

CONSTANTS Numbers    \* the numbers a shred may have

ASSUME MachineAssumption == Numbers \subseteq Nat \ {0}

VARIABLES
  num,      \* the number of each shred, 0 for none
  passes,   \* the passes the compiler makes: "all", "check" or "unknown"
  back,     \* while Machine.check compiles: its shred and the passes it copied
  misuse    \* history: the program did one of the questionable things

vars == <<fileVars, num, passes, back, misuse>>
machineVars == <<num, passes, back, misuse>>

Live == {s \in Shreds : shred[s] \in {"runs", "parked"}}
Numbered(n) == {s \in Live : num[s] = n}
Unused == {s \in Shreds : shred[s] = "none"}

MachineInit ==
  /\ Init
  /\ num \in {[s \in Shreds |-> IF s = Main THEN n ELSE 0] : n \in Numbers}
  /\ passes = "all"
  /\ back = {}
  /\ misuse = FALSE

-----------------------------------------------------------------------------
(* A shred is removed. *)
Gone(s) == [shred EXCEPT ![s] = "gone"]

(* A shred is made and added: `table` is what the call did so far. *)
Added(table, new, n) ==
  /\ shred' = [table EXCEPT ![new] = "runs"]
  /\ num' = [num EXCEPT ![new] = n]

(* Machine.add, compile, and their variants with values: the file or the   *)
(* string compiles ...                                                     *)
Add(s) ==
  /\ Running(s)
  /\ passes # "check"
  /\ \E new \in Unused, n \in Numbers : Numbered(n) = {} /\ Added(shred, new, n)
  /\ UNCHANGED <<thread, arg, file, stream, fault, passes, back, misuse>>

(* ... or it does not, or the passes it is given emit no code. *)
AddFails(s) ==
  /\ Running(s)
  /\ Raise(s)
  /\ UNCHANGED <<thread, arg, stream, fault, machineVars>>

(* Machine.remove: whoever has the number goes, with its references. *)
Orphaned(t) == shred[t] = "parked"

RemoveShred(s, t) ==
  /\ Running(s)
  /\ t \in Live
  /\ shred' = Gone(t)
  /\ misuse' = (misuse \/ Orphaned(t))
  /\ file' = Closed({t})
  /\ UNCHANGED <<thread, arg, stream, fault, num, passes, back>>

(* InvalidShredRemove *)
RemoveNone(s, n) ==
  /\ Running(s)
  /\ Numbered(n) = {}
  /\ AddFails(s)

(* The file name or the code is read from the memory of the shred that     *)
(* called after the removal, which may have been that shred's own.         *)
Itself(s, t) ==
  /\ misuse' = (misuse \/ Orphaned(t) \/ s = t)
  /\ IF s = t THEN fault' \in {fault, "shred"} ELSE UNCHANGED fault

(* Mutant: the shred that had the number stays. *)
ReplaceKeeps(s, t) ==
  /\ Running(s)
  /\ t \in Live
  /\ \E new \in Unused : Added(shred, new, num[t])
  /\ Itself(s, t)
  /\ UNCHANGED <<thread, arg, file, stream, passes, back>>

(* Machine.replace, compile_replace and their variants with values: the    *)
(* shred of that number goes, and one takes its number ...                 *)
Replace(s, t) ==
  /\ Running(s)
  /\ t \in Live
  /\ passes # "check"
  /\ \E new \in Unused : Added(Gone(t), new, num[t])
  /\ Itself(s, t)
  /\ UNCHANGED <<thread, arg, file, stream, passes, back>>

(* ... unless the code does not compile: it is gone all the same ...       *)
ReplaceFails(s, t) ==
  /\ Running(s)
  /\ t \in Live
  /\ \E left \in {{t}, {s, t}} :
       /\ shred' = [u \in Shreds |-> IF u \in left THEN "gone" ELSE shred[u]]
       /\ file' = Closed(left)
  /\ Itself(s, t)
  /\ UNCHANGED <<thread, arg, stream, num, passes, back>>

(* ... and when nothing has the number, an exception is raised, and the    *)
(* name or the code is then read at an offset in the memory of a shred     *)
(* that the exception ended or moved to its handler.                       *)
ReadAfterRaise ==
  /\ misuse' = TRUE
  /\ fault' \in {fault, "shred"}

(* If that read gave something that compiles, a shred is added under the   *)
(* number, ...                                                             *)
ReplaceNone(s, n) ==
  /\ Running(s)
  /\ Numbered(n) = {}
  /\ passes # "check"
  /\ \/ /\ \E new \in Unused : Added(Gone(s), new, n)
        /\ file' = Closed({s})
     \/ /\ \E new \in Unused : Added(shred, new, n)
        /\ UNCHANGED file
  /\ ReadAfterRaise
  /\ UNCHANGED <<thread, arg, stream, passes, back>>

(* ... and if not, another exception is raised.                            *)
ReplaceNoneFails(s, n) ==
  /\ Running(s)
  /\ Numbered(n) = {}
  /\ Raise(s)
  /\ ReadAfterRaise
  /\ UNCHANGED <<thread, arg, stream, num, passes, back>>

(* Machine.check: the passes are copied and "check" alone is set; the code *)
(* is compiled while the threads of FileIO go on, ...                      *)
Check(s) ==
  /\ Running(s)
  /\ back' = {<<s, passes>>}
  /\ passes' = "check"
  /\ UNCHANGED <<fileVars, num, misuse>>

(* ... and the copy is set again before the result is looked at.           *)
Checked(s) ==
  /\ Running(s)
  /\ \E copy \in back : copy[1] = s /\ passes' = copy[2]
  /\ back' = {}
  /\ UNCHANGED <<shred, file>> \/ Raise(s)
  /\ UNCHANGED <<thread, arg, stream, fault, num, misuse>>

(* Machine.pass adds the names to a vector it has not initialised, and     *)
(* raises InvalidPassSet when they are not all passes.                     *)
Pass(s) ==
  /\ Running(s)
  /\ passes' \in {passes, "unknown"}
  /\ UNCHANGED <<shred, file>> \/ Raise(s)
  /\ fault' \in {fault, "vector"}
  /\ misuse' = TRUE
  /\ UNCHANGED <<thread, arg, stream, num, back>>

-----------------------------------------------------------------------------
MachineCall(s) ==
  \/ Add(s) \/ AddFails(s) \/ Check(s) \/ Pass(s)
  \/ \E t \in Shreds : RemoveShred(s, t) \/ Replace(s, t) \/ ReplaceFails(s, t)
  \/ \E n \in Numbers : RemoveNone(s, n) \/ ReplaceNone(s, n) \/ ReplaceNoneFails(s, n)

(* The machine runs one shred at a time, the threads of FileIO at any time. *)
Next ==
  \E s \in Shreds : \/ Thread(s) /\ UNCHANGED machineVars
                    \/ back = {} /\ FileCall(s) /\ UNCHANGED machineVars
                    \/ back = {} /\ MachineCall(s)
                    \/ Checked(s)

Spec ==
  /\ MachineInit
  /\ [][Next]_vars
  /\ \A s \in Shreds : WF_vars(Thread(s) /\ UNCHANGED machineVars)

-----------------------------------------------------------------------------
(* A shred is off the shreduler exactly while a thread holds it, its file  *)
(* is open then (fileio.c:67-88), and neither a thread nor a call works on *)
(* a shred that is gone or on a closed file: unless a shred was removed or *)
(* replaced while a thread held it, replaced itself, replaced a number     *)
(* nobody has, or set the passes.                                          *)
ThreadsSafe ==
  ~misuse =>
    /\ fault = "none"
    /\ \A s \in Shreds : shred[s] = "parked" <=> thread[s] # "none"
    /\ (\E s \in Shreds : shred[s] = "parked") => file = "open"

(* Every line getline took is returned by one read only, or is still in    *)
(* the hands of one thread; and one shred sees its lines in order          *)
(* (fileio.c:35-43).                                                       *)
Holders == {s \in Shreds : thread[s] = "push"}
LinesOnceInOrder ==
  fault = "none" =>
    /\ \A l \in 1 .. pos :
         Cardinality({n \in DOMAIN got : got[n].line = l})
           + Cardinality({s \in Holders : arg[s] = l}) = 1
    /\ \A n \in DOMAIN got : got[n].line <= pos
    /\ \A m, n \in DOMAIN got :
         m < n /\ got[m].by = got[n].by => got[m].line < got[n].line

(* A shred that reads or writes comes back, or has an exception raised,    *)
(* unless it is removed meanwhile or the process dies (fileio.c:41-60).    *)
ComesBack ==
  \A s \in Shreds : shred[s] = "parked" ~> shred[s] # "parked" \/ fault # "none"

(* However shreds are added, removed and replaced, two live ones never     *)
(* have one number (machine.c:70-100), and no check that is over, failed   *)
(* or not, has left the compiler with its own passes (machine.c:102-117):  *)
(* code that compiled can still be added.                                  *)
NumbersUnique ==
  fault = "none" =>
    /\ \A s, t \in Live : num[s] = num[t] => s = t
    /\ back = {} => passes # "check"

=============================================================================

----------------------------- MODULE Soundpipe -----------------------------
(***************************************************************************)
(* A Soundpipe unit generator and the tables it reads                      *)
(* (Soundpipe/soundpipe.c): the steps all the generated units share.       *)
(*                                                                         *)
(* A table (class ftbl) is a counted object that points to memory of the   *)
(* library; a unit counts the object, and hands the library the memory.    *)
(* The memory is destroyed with the object, and also by every generator    *)
(* method called on it.  The oscillator is made by the constructor or by   *)
(* init, which may fail and may be called again.                           *)
(***************************************************************************)
EXTENDS SoundpipeClasses, Integers, FiniteSets

CONSTANTS Tables,     \* the ftbl objects of the program
          Arr,        \* its array of tables (ftbl[])
          MaxMade,    \* bound: number of tables the library makes
          MaxCount,   \* bound: a reference count
          MaxLost     \* bound: references lost to calls of gen_padsynth

SoundpipeAssumption ==
  /\ IsFiniteSet(Tables)
  /\ Arr \notin Tables
  /\ MaxMade \in Nat
  /\ MaxCount \in Nat
  /\ MaxLost \in Nat
  /\ \A c \in Classes :
       /\ c.unit.init \in Seq(STRING)
       /\ c.unit.counted \/ \A i \in DOMAIN c.unit.init : c.unit.init[i] # "ftbl[]"

VARIABLES
  class,    \* the class of the object
  life,     \* "none", "live" or "gone"
  osc,      \* ug->osc: "null", "half" (its init failed) or "made"
  isInit,   \* ug->is_init
  kept,     \* ug->ft_obj and the like: the objects the unit counts
  used,     \* the tables the library was given by the last init
  slot,     \* the pointer in each table object, 0 for NULL
  made,     \* how many tables the library made: they are 1 .. made
  dead,     \* those destroyed
  arr,      \* the elements of the array
  ref,      \* the reference counts
  held,     \* the objects the program refers to by a variable
  lost,     \* history: references counted and forgotten
  spilled,  \* history: tables whose only pointer was overwritten
  misuse,   \* history: the questionable things the program did
  fault     \* the first bad memory access, or "none"

vars == <<class, life, osc, isInit, kept, used, slot, made, dead, arr, ref,
          held, lost, spilled, misuse, fault>>

unitVars == <<class, life, osc, isInit, kept, used>>
tableVars == <<slot, made, dead, arr, ref, held, lost, spilled>>

unit == class.unit
Counted == Tables \cup {Arr}

(* How many arguments of init are tables, or an array of them. *)
IsTable(type) == type \in {"ftbl", "ftbl[]"}
TableArgs(types) == Cardinality({i \in DOMAIN types : IsTable(types[i])})
TakesArray == unit.init # <<>> /\ unit.init[1] = "ftbl[]"

Times(s, o) == Cardinality({i \in DOMAIN s : s[i] = o})

(* A place past the end of the array that init was told to read. *)
Beyond == MaxMade + 1

Init ==
  /\ class \in Classes
  /\ life = "none"
  /\ osc = "null"
  /\ isInit = FALSE
  /\ kept = <<>>
  /\ used = {}
  /\ slot = [t \in Tables |-> 0]
  /\ made = 0
  /\ dead = {}
  /\ held = IF TakesArray THEN {Arr}
            ELSE IF TableArgs(unit.init) > 0 THEN Tables ELSE {}
  /\ arr \in IF TakesArray
               THEN {s \in [1 .. Cardinality(Tables) -> Tables] :
                       \A t \in Tables : Times(s, t) = 1}
               ELSE {<<>>}
  /\ ref = [o \in Counted |-> IF o \in held \/ Times(arr, o) > 0 THEN 1 ELSE 0]
  /\ lost = [t \in Tables |-> 0]
  /\ spilled = {}
  /\ misuse = {}
  /\ fault = "none"

-----------------------------------------------------------------------------
(* Memory: what a step does to the tables and to the counts                *)

Live == fault = "none" /\ life = "live"
Reachable == held \cup IF Arr \in held THEN {arr[i] : i \in DOMAIN arr} ELSE {}

Fault(f) == fault' = IF fault = "none" THEN f ELSE fault
Misuse(m) == misuse' = misuse \cup m
If(b, m) == IF b THEN {m} ELSE {}

(* release(o): the objects of s lose a reference each, the array's         *)
(* elements with it; an object without one left is freed, and ftbl_dtor    *)
(* destroys its table.                                                     *)
Less(s) == [o \in Counted |-> ref[o] - Times(s, o)]

Released(s) ==
  LET elements == IF ref[Arr] > 0 /\ Less(s)[Arr] <= 0 THEN arr ELSE <<>>
  IN  [o \in Counted |-> Less(s)[o] - Times(elements, o)]

Freed(s) == {t \in Tables : ref[t] > 0 /\ Released(s)[t] <= 0}
Destroyed(s) == {slot[t] : t \in Freed(s)} \ {0}

(* ... unless it was freed, or its table destroyed, before. *)
ReleaseFault(s) ==
  IF \E o \in Counted : Released(s)[o] < 0 THEN "count"
  ELSE IF Destroyed(s) \cap dead # {} THEN "twice"
  ELSE "none"

-----------------------------------------------------------------------------
(* The unit                                                                *)

Ctor ==
  /\ fault = "none"
  /\ life = "none"
  /\ life' = "live"
  /\ osc' = IF unit.late THEN "null" ELSE "made"
  /\ UNCHANGED <<class, isInit, kept, used, tableVars, misuse, fault>>

(* What init does first: the oscillator there is, a half-made one too, is  *)
(* destroyed and the objects the unit counted are released.                *)
Old == IF osc # "null" /\ unit.counted THEN kept ELSE <<>>
Retry == If(osc = "half", "retry")

(* The arguments of init: objects the program refers to, all of a table.   *)
Arguments ==
  {a \in [1 .. TableArgs(unit.init) -> Reachable] :
     \A i \in DOMAIN a : (a[i] = Arr) = TakesArray}

TablesOf(a) ==
  {slot[t] : t \in IF TakesArray THEN {arr[i] : i \in DOMAIN arr}
                                 ELSE {a[i] : i \in DOMAIN a}}

(* Mutant: the table is handed to the library and not counted. *)
InitOkUncounted(a, long) ==
  /\ Live
  /\ unit.late
  /\ \A i \in DOMAIN a : ref[a[i]] < MaxCount
  /\ long => TakesArray
  /\ ref' = Released(Old)
  /\ dead' = dead \cup Destroyed(Old)
  /\ Fault(ReleaseFault(Old))
  /\ lost' = lost
  /\ kept' = <<>>
  /\ used' = TablesOf(a) \cup If(long, Beyond)
  /\ osc' = "made"
  /\ isInit' = TRUE
  /\ Misuse(Retry \cup If(0 \in TablesOf(a), "empty") \cup If(long, "short"))
  /\ UNCHANGED <<class, life, slot, made, arr, held, spilled>>

(* init: the tables are read, their objects counted, the oscillator made.  *)
(* A count of tables longer than the array is not noticed.                 *)
InitOk(a, long) ==
  /\ Live
  /\ unit.late
  /\ \A i \in DOMAIN a : ref[a[i]] < MaxCount
  /\ long => TakesArray
  /\ ref' = [o \in Counted |-> Released(Old)[o] + Times(a, o)]
  /\ dead' = dead \cup Destroyed(Old)
  /\ Fault(ReleaseFault(Old))
  /\ lost' = [t \in Tables |-> lost[t] + IF unit.counted THEN 0 ELSE Times(a, t)]
  /\ kept' = IF unit.counted THEN a ELSE <<>>
  /\ used' = TablesOf(a) \cup If(long, Beyond)
  /\ osc' = "made"
  /\ isInit' = TRUE
  /\ Misuse(Retry \cup If(0 \in TablesOf(a), "empty") \cup If(long, "short"))
  /\ UNCHANGED <<class, life, slot, made, arr, held, spilled>>

(* The library refuses: the counts are given back and the exception is     *)
(* raised, the half-made oscillator, is_init and the old objects staying.  *)
InitFails(a) ==
  /\ Live
  /\ unit.late
  /\ \A i \in DOMAIN a : ref[a[i]] < MaxCount
  /\ ref' = [o \in Counted |->
               Released(Old)[o] + IF unit.counted THEN 0 ELSE Times(a, o)]
  /\ dead' = dead \cup Destroyed(Old)
  /\ Fault(ReleaseFault(Old))
  /\ lost' = [t \in Tables |-> lost[t] + IF unit.counted THEN 0 ELSE Times(a, t)]
  /\ osc' = "half"
  /\ Misuse(Retry \cup If(isInit, "refail"))
  /\ UNCHANGED <<class, life, isInit, kept, used, slot, made, arr, held, spilled>>

(* init of a null table, array or name, or of an array that has a null     *)
(* table: they are looked into unasked.  Nothing is followed after. *)
InitNull ==
  /\ Live
  /\ unit.late
  /\ \E i \in DOMAIN unit.init : unit.init[i] \in {"ftbl", "ftbl[]", "string"}
  /\ Fault("null")
  /\ Misuse({"null"})
  /\ UNCHANGED <<unitVars, tableVars>>

(* What the library meets when it is asked to compute. *)
ComputeFault ==
  IF osc = "null" \/ 0 \in used THEN "null"
  ELSE IF osc = "half" \/ Beyond \in used THEN "wild"
  ELSE IF used \cap dead # {} THEN "stale"
  ELSE "none"

(* Mutant: the tick of a unit that init makes does not ask is_init. *)
TickUnasked ==
  /\ Live
  /\ Fault(ComputeFault)
  /\ UNCHANGED <<unitVars, tableVars, misuse>>

TickUnit ==
  /\ Live
  /\ Fault(IF unit.late /\ ~isInit THEN "none" ELSE ComputeFault)
  /\ UNCHANGED <<unitVars, tableVars, misuse>>

(* A getter or a setter goes through ug->osc without a question. *)
Access ==
  /\ Live
  /\ unit.floats \cup unit.dials \cup unit.ints # {}
  /\ Fault(IF osc = "null" THEN "null" ELSE "none")
  /\ Misuse(If(osc = "null", "early"))
  /\ UNCHANGED <<unitVars, tableVars>>

(* Mutant: the destructor forgets the objects the unit counted. *)
DtorForgets ==
  /\ Live
  /\ life' = "gone"
  /\ osc' = IF unit.late /\ ~isInit THEN osc ELSE "null"
  /\ UNCHANGED <<class, isInit, kept, used, tableVars, misuse, fault>>

(* The destructor: a half-made oscillator is leaked, or destroyed when an  *)
(* earlier init had succeeded.                                             *)
Dtor ==
  LET s == IF isInit /\ unit.counted THEN kept ELSE <<>>
  IN  /\ Live
      /\ life' = "gone"
      /\ osc' = IF unit.late /\ ~isInit THEN osc ELSE "null"
      /\ ref' = Released(s)
      /\ dead' = dead \cup Destroyed(s)
      /\ \/ Fault(ReleaseFault(s))
         \/ isInit /\ osc = "half" /\ Fault("wild")
      /\ UNCHANGED <<class, isInit, kept, used, slot, made, arr, held, lost,
                     spilled, misuse>>

-----------------------------------------------------------------------------
(* The tables                                                              *)

InUse(t) == life = "live" /\ slot[t] \in used \ {0}

(* gen_sine and the others, once their arguments are read: the table there *)
(* is is destroyed, and a new one made unless the size is refused.         *)
GenFault(t) == IF slot[t] \in dead THEN "twice" ELSE "none"

GenMisuse(t, refused) ==
  If(InUse(t), "regen") \cup If(refused /\ slot[t] # 0, "refused")

Gen(t) ==
  /\ fault = "none"
  /\ t \in Reachable
  /\ made < MaxMade
  /\ made' = made + 1
  /\ dead' = dead \cup ({slot[t]} \ {0})
  /\ slot' = [slot EXCEPT ![t] = made + 1]
  /\ Fault(GenFault(t))
  /\ Misuse(GenMisuse(t, FALSE))
  /\ UNCHANGED <<unitVars, arr, ref, held, lost, spilled>>

(* A size of 0 or less: CHECK_SIZE returns and the pointer stays. *)
GenRefused(t) ==
  /\ fault = "none"
  /\ t \in Reachable
  /\ dead' = dead \cup ({slot[t]} \ {0})
  /\ Fault(GenFault(t))
  /\ Misuse(GenMisuse(t, TRUE))
  /\ UNCHANGED <<unitVars, slot, made, arr, ref, held, lost, spilled>>

MayLose(t) == ref[t] < MaxCount /\ \A u \in Tables : lost[u] < MaxLost

(* gen_padsynth reads the amplitudes of a second table, which it counts    *)
(* for ever.                                                               *)
GenPadsynth(t, amps) ==
  /\ fault = "none"
  /\ {t, amps} \subseteq Reachable
  /\ made < MaxMade
  /\ MayLose(amps)
  /\ made' = made + 1
  /\ dead' = dead \cup ({slot[t]} \ {0})
  /\ slot' = [slot EXCEPT ![t] = made + 1]
  /\ ref' = [ref EXCEPT ![amps] = @ + 1]
  /\ lost' = [lost EXCEPT ![amps] = @ + 1]
  /\ Fault(IF GenFault(t) # "none" THEN "twice"
           ELSE IF slot[amps] = 0 THEN "null"
           ELSE IF slot[amps] \in dead \cup {slot[t]} THEN "stale"
           ELSE "none")
  /\ Misuse(GenMisuse(t, FALSE)
              \cup If(amps = t \/ slot[amps] \in dead \cup {0}, "amps"))
  /\ UNCHANGED <<unitVars, arr, held, spilled>>

(* ... before it looks at the size. *)
PadsynthRefused(t, amps) ==
  /\ fault = "none"
  /\ {t, amps} \subseteq Reachable
  /\ MayLose(amps)
  /\ dead' = dead \cup ({slot[t]} \ {0})
  /\ ref' = [ref EXCEPT ![amps] = @ + 1]
  /\ lost' = [lost EXCEPT ![amps] = @ + 1]
  /\ Fault(GenFault(t))
  /\ Misuse(GenMisuse(t, TRUE))
  /\ UNCHANGED <<unitVars, slot, made, arr, held, spilled>>

(* gen_scrambler makes its own table and has the library put a second one  *)
(* in the destination, whose table nobody points to any more.              *)
GenScrambler(t, dest) ==
  /\ fault = "none"
  /\ {t, dest} \subseteq Reachable
  /\ made + 1 < MaxMade
  /\ made' = made + 2
  /\ dead' = dead \cup ({slot[t]} \ {0})
  /\ slot' = [slot EXCEPT ![dest] = made + 2, ![t] = made + 1]
  /\ spilled' = spilled \cup IF dest = t THEN {made + 2} ELSE {slot[dest]} \ {0}
  /\ Fault(GenFault(t))
  /\ Misuse(GenMisuse(t, FALSE))
  /\ UNCHANGED <<unitVars, arr, ref, held, lost>>

(* A generator of a null name, of null amplitudes or to a null             *)
(* destination. *)
GenNull(t) ==
  /\ fault = "none"
  /\ t \in Reachable
  /\ Fault("null")
  /\ Misuse({"null"})
  /\ UNCHANGED <<unitVars, tableVars>>

(* A variable goes out of scope. *)
Forget(o) ==
  /\ fault = "none"
  /\ o \in held
  /\ held' = held \ {o}
  /\ ref' = Released(<<o>>)
  /\ dead' = dead \cup Destroyed(<<o>>)
  /\ Fault(ReleaseFault(<<o>>))
  /\ UNCHANGED <<unitVars, slot, made, arr, lost, spilled, misuse>>

(* An element of the array is replaced by another table. *)
Assign(i, t) ==
  /\ fault = "none"
  /\ Arr \in held
  /\ i \in DOMAIN arr
  /\ t \in Reachable \ {arr[i]}
  /\ arr' = [arr EXCEPT ![i] = t]
  /\ ref' = [Released(<<arr[i]>>) EXCEPT ![t] = @ + 1]
  /\ dead' = dead \cup Destroyed(<<arr[i]>>)
  /\ Fault(ReleaseFault(<<arr[i]>>))
  /\ Misuse(If(InUse(arr[i]), "element"))
  /\ UNCHANGED <<unitVars, slot, made, held, lost, spilled>>

-----------------------------------------------------------------------------
UnitNext ==
  \/ Ctor \/ InitNull \/ TickUnit \/ Access \/ Dtor
  \/ \E a \in Arguments : InitFails(a) \/ \E long \in BOOLEAN : InitOk(a, long)

TableNext ==
  \/ \E t \in Tables : \/ Gen(t) \/ GenRefused(t) \/ GenNull(t)
                       \/ \E d \in Tables : \/ GenPadsynth(t, d)
                                             \/ PadsynthRefused(t, d)
                                             \/ GenScrambler(t, d)
                       \/ \E i \in DOMAIN arr : Assign(i, t)
  \/ \E o \in Counted : Forget(o)

Next == UnitNext \/ TableNext

Spec == Init /\ [][Next]_vars

-----------------------------------------------------------------------------
(* Properties                                                              *)

(* However calls, ticks, releases of variables and destructions are        *)
(* ordered, the unit never touches a NULL or half-made oscillator, a       *)
(* destroyed table or a freed object, unless the program did one of the    *)
(* things misuse lists: a null argument, an accessor before init, a failed *)
(* second init, a generator called on a table in use ...  A first init that fails is not  *)
(* among them: the unit is silent and can be destroyed.                    *)
SafeWithoutMisuse == misuse = {} => fault = "none"

(* Every reference is accounted for: a variable's, an element's, the       *)
(* unit's, or one that nsmp_init or gen_padsynth forgot.  Only an init     *)
(* that fails after another succeeded spoils the counts: its objects are   *)
(* released then and again later.                                          *)
RefsBalanced ==
  misuse \cap {"refail", "retry"} = {} =>
    \A o \in Counted :
      ref[o] = Cardinality({o} \cap held)
               + (IF ref[Arr] > 0 THEN Times(arr, o) ELSE 0)
               + (IF life = "live" /\ isInit THEN Times(kept, o) ELSE 0)
               + (IF o \in Tables THEN lost[o] ELSE 0)

(* Once the program is done with everything, and did nothing questionable, *)
(* the library's memory is all destroyed, but for a half-made oscillator,  *)
(* the tables of forgotten references and those gen_scrambler spilled.     *)
NothingLeaks ==
  life = "gone" /\ held = {} /\ misuse = {} =>
    /\ osc # "made"
    /\ \A n \in 1 .. made \ (dead \cup spilled) :
         \E t \in Tables : slot[t] = n /\ lost[t] > 0

MemoryAccounted == RefsBalanced /\ NothingLeaks

(* A call is laid out by what the class declares and read by what the      *)
(* function expects: they agree on every argument of init, on the type of  *)
(* every field and on which fields there are.                              *)
CallsAgree ==
  /\ class.init = unit.init
  /\ class.floats = unit.floats \cup unit.dials
  /\ class.ints = unit.ints

(* A tick reads and writes only what the constructor made: the channels up *)
(* to the larger of the two numbers given to ugen_ini, and the trigger if  *)
(* ugen_gen was asked for one.                                             *)
Channels == IF unit.ins > unit.outs THEN unit.ins ELSE unit.outs
TicksInside ==
  LET wires == unit.tick.reads \cup unit.tick.writes
  IN  /\ ("trig" \in wires) = unit.trig
      /\ "ch0" \in wires => Channels > 1
      /\ "ch1" \in wires => Channels > 1
      /\ "in" \in wires => unit.ins > 0

=============================================================================

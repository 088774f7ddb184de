-------------------------------- MODULE Stk --------------------------------
(***************************************************************************)
(* Objects of the STK plug-in (STK/stk.cc): the steps all the generated    *)
(* classes share.                                                          *)
(*                                                                         *)
(* An object points to one of the library's.  The constructor makes it,    *)
(* but only for an object whose type is the very class: one of a class the *)
(* program derives from it is wired all the same, with a null pointer.  A  *)
(* static constructor lets the constructor run, then overwrites what it    *)
(* made.  The destructors of the class and of those it extends run one     *)
(* after the other on the same pointer.  A Voicer keeps the pointers of    *)
(* other objects, which it does not count.                                 *)
(***************************************************************************)
EXTENDS StkClasses, Integers

CONSTANTS Objects,   \* the objects of the program
          MaxMade    \* bound: number of objects the library makes

ASSUME StkAssumption == MaxMade \in Nat

VARIABLES
  class,    \* the class of each object, or the one the program derives from
  derived,  \* the object's type is a class of the program
  life,     \* "none", "live", "dying" or "gone"
  at,       \* the class whose destructor is next
  ptr,      \* GW_X(o), 0 for NULL
  wired,    \* what the tick of its UGen is given; NoTick when it has none
  made,     \* how many objects the library made: they are 1 .. made
  dead,     \* those deleted
  lost,     \* those whose only pointer was overwritten
  strays,   \* UGens left on the machine's list by those that replaced them
  voices,   \* the pointers the Voicer keeps
  misuse,   \* history: the questionable things the program did
  fault     \* the first bad memory access, or "none"

vars == <<class, derived, life, at, ptr, wired, made, dead, lost, strays, voices,
          misuse, fault>>

memory == <<made, dead, lost, strays>>

NoTick == -1
Names == {c.name : c \in Classes}
ByName == [n \in Names |-> CHOOSE c \in Classes : c.name = n]
ClassOf(o) == ByName[class[o]]
Has(o, c) == class[o] = c \/ c \in ClassOf(o).above

(* A pair of one class, or a Voicer and an instrument for it. *)
Casts ==
  {f \in [Objects -> Names] :
     \/ \A o, p \in Objects : f[o] = f[p]
     \/ \E v \in Objects : /\ f[v] = "Voicer"
                           /\ \A o \in Objects \ {v} : "Instrmnt" \in ByName[f[o]].above}

Init ==
  /\ class \in Casts
  /\ derived = [o \in Objects |-> FALSE]
  /\ life = [o \in Objects |-> "none"]
  /\ at = class
  /\ ptr = [o \in Objects |-> 0]
  /\ wired = [o \in Objects |-> NoTick]
  /\ made = 0
  /\ dead = {}
  /\ lost = {}
  /\ strays = 0
  /\ voices = {}
  /\ misuse = {}
  /\ fault = "none"

Fault(f) == fault' = IF fault = "none" THEN f ELSE fault
If(b, m) == IF b THEN {m} ELSE {}

(* The machine runs one thing at a time: nothing comes between two         *)
(* destructors of an object.                                               *)
Idle == fault = "none" /\ \A o \in Objects : life[o] # "dying"
Live(o) == Idle /\ life[o] = "live"

-----------------------------------------------------------------------------
(* Construction                                                            *)

Wires(unit) == unit.wires # "none"

(* new X, or new Y where Y extends X: UGen's own constructor runs first,   *)
(* and X's puts a second UGen in the place of the one it made.             *)
Ctor(o, user) ==
  LET unit == ClassOf(o).unit
      n == IF unit.made /\ ~user THEN made + 1 ELSE made
  IN  /\ Idle
      /\ life[o] = "none"
      /\ user \/ ~ClassOf(o).abstract
      /\ n <= MaxMade
      /\ life' = [life EXCEPT ![o] = "live"]
      /\ derived' = [derived EXCEPT ![o] = user]
      /\ made' = n
      /\ ptr' = [ptr EXCEPT ![o] = IF n > made THEN n ELSE 0]
      /\ wired' = [wired EXCEPT ![o] = IF unit.made /\ Wires(unit) THEN ptr'[o] ELSE @]
      /\ strays' = strays + IF unit.made /\ Wires(unit) THEN 1 ELSE 0
      /\ misuse' = misuse \cup If(user, "derived")
      /\ UNCHANGED <<class, at, dead, lost, voices, fault>>

(* Mutant: the UGen is set up with the object that is overwritten. *)
StaticStaleTick(o) ==
  LET unit == ClassOf(o).unit
      n == made + IF unit.made THEN 2 ELSE 1
  IN  /\ Idle
      /\ life[o] = "none"
      /\ ClassOf(o).statics # {}
      /\ n <= MaxMade
      /\ life' = [life EXCEPT ![o] = "live"]
      /\ made' = n
      /\ lost' = lost \cup If(unit.made, n)
      /\ ptr' = [ptr EXCEPT ![o] = made + 1]
      /\ wired' = [wired EXCEPT ![o] = IF Wires(unit) THEN n ELSE @]
      /\ strays' = strays + (IF ~Wires(unit) THEN 0 ELSE IF unit.made THEN 2 ELSE 1)
      /\ UNCHANGED <<class, derived, at, dead, voices, misuse, fault>>

(* X.ctor(args): the library makes its object, then new_object_str runs    *)
(* X's constructor, if it has one, and what that made is overwritten.      *)
Static(o) ==
  LET unit == ClassOf(o).unit
      n == made + IF unit.made THEN 2 ELSE 1
  IN  /\ Idle
      /\ life[o] = "none"
      /\ ClassOf(o).statics # {}
      /\ n <= MaxMade
      /\ life' = [life EXCEPT ![o] = "live"]
      /\ made' = n
      /\ lost' = lost \cup If(unit.made, n)
      /\ ptr' = [ptr EXCEPT ![o] = made + 1]
      /\ wired' = [wired EXCEPT ![o] = IF Wires(unit) THEN made + 1 ELSE @]
      /\ strays' = strays + (IF ~Wires(unit) THEN 0 ELSE IF unit.made THEN 2 ELSE 1)
      /\ UNCHANGED <<class, derived, at, dead, voices, misuse, fault>>

-----------------------------------------------------------------------------
(* Use                                                                     *)

TakesObject(reads) ==
  \E i \in DOMAIN reads : reads[i] \in {"string", "string[]", "float[]", "stk.Instrmnt"}

Uses(f) == f.reads # <<>> /\ f.reads[1] = "this"

(* The functions behind a declared method: they find its arguments where   *)
(* the call put them, or look at none.                                     *)
Behind(c, f) ==
  {g \in c.unit.funs : g.name = f.name /\ g.ret = f.ret /\ g.reads \in {f.reads, <<>>}}

Lineage(o) == {ClassOf(o)} \cup {ByName[n] : n \in ClassOf(o).above \cap Names}

(* A method of the class, or of one it extends; those that keep or drop an *)
(* instrument that is not null come below.  A null argument raises an      *)
(* exception and is used all the same: nothing returns in between.         *)
Call(o, c, f, null) ==
  /\ Live(o)
  /\ f.name \in {"addInstrument", "removeInstrument"} => null
  /\ null => TakesObject(f.reads)
  /\ Fault(IF Behind(c, f) = {} THEN "garbled"
           ELSE IF null \/ (ptr[o] = 0 /\ \E g \in Behind(c, f) : Uses(g)) THEN "null"
           ELSE "none")
  /\ misuse' = misuse \cup If(Behind(c, f) = {}, f.name) \cup If(null, "null argument")
  /\ UNCHANGED <<class, derived, life, at, ptr, wired, memory, voices>>

(* A tick; a Voicer calls those of the voices that sound. *)
Tick(o, sounding) ==
  /\ Live(o)
  /\ wired[o] # NoTick
  /\ sounding \subseteq IF class[o] = "Voicer" THEN voices ELSE {}
  /\ Fault(IF 0 \in sounding \cup {wired[o]} THEN "null"
           ELSE IF (sounding \cup {wired[o]}) \cap dead # {} THEN "stale"
           ELSE "none")
  /\ UNCHANGED <<class, derived, life, at, ptr, wired, memory, voices, misuse>>

AddInstrument(v, o) ==
  /\ Live(v)
  /\ life[o] = "live"
  /\ Has(v, "Voicer")
  /\ Has(o, "Instrmnt")
  /\ voices' = voices \cup {ptr[o]}
  /\ Fault(IF ptr[v] = 0 THEN "null" ELSE "none")
  /\ UNCHANGED <<class, derived, life, at, ptr, wired, memory, misuse>>

RemoveInstrument(v, o) ==
  /\ Live(v)
  /\ life[o] = "live"
  /\ Has(v, "Voicer")
  /\ Has(o, "Instrmnt")
  /\ voices' = voices \ {ptr[o]}
  /\ Fault(IF ptr[v] = 0 THEN "null" ELSE "none")
  /\ UNCHANGED <<class, derived, life, at, ptr, wired, memory, misuse>>

-----------------------------------------------------------------------------
(* Destruction                                                             *)

(* The last reference goes. *)
Drop(o) ==
  /\ Live(o)
  /\ life' = [life EXCEPT ![o] = "dying"]
  /\ at' = [at EXCEPT ![o] = class[o]]
  /\ misuse' = misuse \cup If(/\ ptr[o] \in voices \ {0}
                             /\ \E v \in Objects : Has(v, "Voicer") /\ life[v] = "live",
                             "dangling")
  /\ UNCHANGED <<class, derived, ptr, wired, memory, voices, fault>>

HasDtor(name) == name \notin {"Stk", "UGen"}

(* Mutant: the destructor clears the pointer and deletes nothing. *)
DtorLeaks(o) ==
  /\ fault = "none"
  /\ life[o] = "dying"
  /\ HasDtor(at[o])
  /\ ptr' = [ptr EXCEPT ![o] = 0]
  /\ at' = [at EXCEPT ![o] = ByName[at[o]].parent]
  /\ UNCHANGED <<class, derived, life, wired, memory, voices, misuse, fault>>

(* The destructor of a class deletes what is there and clears the pointer, *)
(* for its parent's to find nothing; a Voicer leaves its voices alone.     *)
Dtor(o) ==
  /\ fault = "none"
  /\ life[o] = "dying"
  /\ HasDtor(at[o])
  /\ dead' = dead \cup ({ptr[o]} \ {0})
  /\ Fault(IF ptr[o] \in dead THEN "twice" ELSE "none")
  /\ ptr' = [ptr EXCEPT ![o] = 0]
  /\ at' = [at EXCEPT ![o] = ByName[at[o]].parent]
  /\ voices' = IF at[o] = "Voicer" THEN {} ELSE voices
  /\ UNCHANGED <<class, derived, life, wired, made, lost, strays, misuse>>

(* UGen's own destructor takes the object's UGen off the machine's list. *)
End(o) ==
  /\ fault = "none"
  /\ life[o] = "dying"
  /\ ~HasDtor(at[o])
  /\ life' = [life EXCEPT ![o] = "gone"]
  /\ wired' = [wired EXCEPT ![o] = NoTick]
  /\ UNCHANGED <<class, derived, at, ptr, memory, voices, misuse, fault>>

-----------------------------------------------------------------------------
ObjectNext(o) ==
  \/ (\E user \in BOOLEAN : Ctor(o, user)) \/ Static(o)
  \/ (\E c \in Lineage(o) : \E f \in c.funs : \E null \in BOOLEAN : Call(o, c, f, null))
  \/ (\E s \in SUBSET voices : Tick(o, s))
  \/ (\E p \in Objects \ {o} : AddInstrument(o, p) \/ RemoveInstrument(o, p))
  \/ Drop(o) \/ Dtor(o) \/ End(o)

Next == \E o \in Objects : ObjectNext(o)

Spec == Init /\ [][Next]_vars

-----------------------------------------------------------------------------
(* Properties                                                              *)

TypeOK ==
  /\ class \in [Objects -> Names]
  /\ derived \in [Objects -> BOOLEAN]
  /\ life \in [Objects -> {"none", "live", "dying", "gone"}]
  /\ at \in [Objects -> Names \cup {"UGen"}]
  /\ ptr \in [Objects -> 0 .. made]
  /\ wired \in [Objects -> 0 .. made \cup {NoTick}]
  /\ made \in 0 .. MaxMade
  /\ dead \subseteq 1 .. made
  /\ lost \subseteq 1 .. made
  /\ strays \in Nat
  /\ voices \subseteq 0 .. made
  /\ fault \in {"none", "null", "garbled", "stale", "twice"}

(* What the compiler was told is not what the functions read.  The static  *)
(* functions of the library were declared as methods, without their first  *)
(* argument, which they take where the object is; loadWaves takes the      *)
(* elements of an array of string objects for characters.                  *)
Misdeclared ==
  {"setSampleRate", "setRawwavePath", "sleep", "inRange", "showWarnings", "printErrors",
   "name", "voiceGain", "noiseGain", "formantFrequency", "formantRadius", "formantGain",
   "loadWaves"}

(* What the steps rely on the declarations for, in stk.cc's CPPIMPORT: a   *)
(* class that can be constructed makes the library's object, no class      *)
(* extends Voicer, and only the misdeclared functions read what they were  *)
(* not given.                                                              *)
ASSUME StkTables ==
  \A c \in Classes :
    /\ c.abstract \/ c.unit.made
    /\ "Voicer" \notin c.above
    /\ \A f \in c.funs : f.name \in Misdeclared \/ Behind(c, f) # {}

Questionable == Misdeclared \cup {"derived", "dangling", "null argument"}

(* Whatever the program calls, constructs, drops and adds to a Voicer, in  *)
(* any order, no null, deleted or misread pointer is used, unless it uses  *)
(* an object of a class derived from the plug-in's, passes a null one,     *)
(* calls one of the misdeclared functions, or drops an instrument that a   *)
(* Voicer keeps.                                                           *)
SafeWithoutMisuse == misuse \cap Questionable = {} => fault = "none"

(* Every object of the library is deleted exactly once: one object holds   *)
(* it and will delete it, or it was deleted, or it is one of those lost to *)
(* a static constructor of a class that has a constructor as well.         *)
Holders(n) == {o \in Objects : ptr[o] = n}
DeletedOnce ==
  /\ fault # "twice"
  /\ \A n \in 1 .. made :
       \/ n \in dead \cup lost /\ Holders(n) = {}
       \/ n \notin dead \cup lost /\ \E o \in Objects : Holders(n) = {o}
  /\ lost # {} => \E o \in Objects : ClassOf(o).statics # {} /\ ClassOf(o).unit.made

(* The tick of a live object computes that object's own library object,    *)
(* never one it lost or another's.                                         *)
TicksItself ==
  \A o \in Objects : life[o] = "live" /\ wired[o] # NoTick => wired[o] = ptr[o]

(* A call is laid out by what the compiler was told and read by the        *)
(* function: they agree on every method but the misdeclared ones and on    *)
(* every static constructor.                                               *)
CallsAgree ==
  \A o \in Objects :
    /\ ClassOf(o).statics = ClassOf(o).unit.statics
    /\ \A f \in ClassOf(o).funs :
         f.name \in Misdeclared \/ Behind(ClassOf(o), f) # {}

=============================================================================

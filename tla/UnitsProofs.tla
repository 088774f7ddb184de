----------------------------- MODULE UnitsProofs -----------------------------
(***************************************************************************)
(* Proofs about the plug-ins of unit generators, as one of those a program *)
(* imports: Stk, Soundpipe, Analys, Lsys, FMSynth and TinySR.              *)
(*                                                                         *)
(* Stk, for any number of objects of any of the classes: the library's     *)
(* objects are deleted exactly once, and a tick computes the object's own. *)
(* DeletedOnce is not inductive: it needs to be known that an object that  *)
(* was not constructed has no pointer, which the constructor would lose,   *)
(* and no tick, which TicksItself would find wired to nothing.  The        *)
(* invariant is stated by the pointers of objects rather than by the       *)
(* holders of a pointer.  SafeWithoutMisuse needs to be known whose        *)
(* pointers a Voicer keeps and that it keeps none once it is gone (Safe).  *)
(*                                                                         *)
(* Soundpipe, for any finite number of tables and any of the units: the    *)
(* references are accounted for, the tables are given back, and nothing    *)
(* bad is touched without a misuse.  Its invariant says what refers to a   *)
(* counted object (SpBalance), where a table of the library is (SpPlaced), *)
(* what the stage of the unit implies (SpStages) and, while the program    *)
(* did nothing questionable, that what is counted has its table and what   *)
(* the library was given is still kept for it (SpClean).                   *)
(*                                                                         *)
(* Analys: the ring by index (Follows), and that no two FFTs have the same *)
(* spectrum and what is counted is not freed (SpectraApart, AnaClean).     *)
(* Lsys: the list is played in order (Playhead).  FMSynth: one synthesizer *)
(* is left (FmInv).  TinySR: the block continues what was recognised       *)
(* (SrInv).  What a text is parsed into is a fold and stays with TLC.      *)
(***************************************************************************)
EXTENDS Units, FiniteSetTheorems, SequenceTheorems, TLAPS

Typed ==
  /\ life \in [Objects -> {"none", "live", "dying", "gone"}]
  /\ ptr \in [Objects -> Nat]
  /\ wired \in [Objects -> Int]
  /\ made \in Nat
  /\ \A o \in Objects : ptr[o] <= made
  /\ \A n \in dead \cup lost : n \in 1 .. made

(* A pointer that is not null is to something alive, and nobody else's. *)
Owned ==
  /\ \A o \in Objects : ptr[o] # 0 => ptr[o] \notin dead \cup lost
  /\ \A o, p \in Objects : ptr[o] = ptr[p] /\ ptr[o] # 0 => o = p

(* What is alive has an object that will delete it. *)
Kept == \A n \in 1 .. made : n \in dead \cup lost \/ \E o \in Objects : ptr[o] = n

Fresh == \A o \in Objects : life[o] = "none" => ptr[o] = 0 /\ wired[o] = NoTick

LostByStatic ==
  lost # {} => \E o \in Objects : ClassOf(o).statics # {} /\ ClassOf(o).unit.made

IInv ==
  /\ Typed
  /\ Owned
  /\ Kept
  /\ Fresh
  /\ TicksItself
  /\ LostByStatic
  /\ fault # "twice"

(* The invariant says that each object of the library is deleted once.     *)
LEMMA IInvDeletedOnce == IInv => DeletedOnce
<1> SUFFICES ASSUME IInv PROVE DeletedOnce
  OBVIOUS
<1>1. ASSUME NEW n \in 1 .. made
      PROVE \/ n \in dead \cup lost /\ Holders(n) = {}
            \/ n \notin dead \cup lost /\ \E o \in Objects : Holders(n) = {o}
  <2>1. CASE n \in dead \cup lost
    BY <2>1, SMT DEF IInv, Typed, Owned, Holders
  <2>2. CASE n \notin dead \cup lost
    <3>1. PICK o \in Objects : ptr[o] = n
      BY <2>2 DEF IInv, Kept
    <3>2. Holders(n) = {o}
      BY <3>1, SMT DEF IInv, Typed, Owned, Holders
    <3> QED
      BY <2>2, <3>2
  <2> QED
    BY <2>1, <2>2
<1> QED
  BY <1>1 DEF IInv, LostByStatic, DeletedOnce

(* Nothing was made at first (stk.cc:160).                                 *)
LEMMA InitIInv == Init => IInv
BY SMT DEF Init, IInv, Typed, Owned, Kept, Fresh, TicksItself, LostByStatic, NoTick

(* new X, or new Y where Y extends X (stk.cc:553-560).                     *)
LEMMA CtorIInv ==
  ASSUME IInv, NEW o \in Objects, NEW user \in BOOLEAN, Ctor(o, user)
  PROVE  IInv'
<1> DEFINE one == ClassOf(o).unit.made /\ ~user
           ticks == ClassOf(o).unit.made /\ Wires(ClassOf(o).unit)
<1>1. /\ life[o] = "none"
      /\ life' = [life EXCEPT ![o] = "live"]
      /\ made' = IF one THEN made + 1 ELSE made
      /\ ptr' = [ptr EXCEPT ![o] = IF made' > made THEN made' ELSE 0]
      /\ wired' = [wired EXCEPT ![o] = IF ticks THEN ptr'[o] ELSE @]
      /\ UNCHANGED <<class, dead, lost, fault>>
  BY DEF Ctor
<1>2. LostByStatic' /\ fault' # "twice"
  BY <1>1 DEF IInv, LostByStatic, ClassOf
<1> HIDE DEF one, ticks
<1>3. Typed'
  BY <1>1, SMT DEF IInv, Typed
<1>4. Owned' /\ Kept'
  BY <1>1, SMT DEF IInv, Typed, Owned, Kept, Fresh
<1>5. Fresh' /\ TicksItself'
  BY <1>1, SMT DEF IInv, Typed, Fresh, TicksItself, NoTick
<1> QED
  BY <1>2, <1>3, <1>4, <1>5 DEF IInv

(* X.ctor(args) (stk.cc:933-943): what X's constructor made is lost.       *)
LEMMA StaticIInv ==
  ASSUME IInv, NEW o \in Objects, Static(o)
  PROVE  IInv'
<1> DEFINE two == ClassOf(o).unit.made
           ticks == Wires(ClassOf(o).unit)
<1>1. /\ life[o] = "none"
      /\ life' = [life EXCEPT ![o] = "live"]
      /\ made' = made + IF two THEN 2 ELSE 1
      /\ lost' = lost \cup If(two, made')
      /\ ptr' = [ptr EXCEPT ![o] = made + 1]
      /\ wired' = [wired EXCEPT ![o] = IF ticks THEN made + 1 ELSE @]
      /\ UNCHANGED <<class, dead, fault>>
  BY DEF Static
<1>2. LostByStatic' /\ fault' # "twice"
  <2>1. ClassOf(o).statics # {}
    BY DEF Static
  <2>2. CASE two
    BY <1>1, <2>1, <2>2 DEF IInv, LostByStatic, ClassOf
  <2>3. CASE ~two
    BY <1>1, <2>3 DEF IInv, LostByStatic, ClassOf, If
  <2> QED
    BY <2>2, <2>3
<1> HIDE DEF two, ticks
<1>3. Typed'
  BY <1>1, SMT DEF IInv, Typed, If
<1>4. Owned'
  BY <1>1, SMT DEF IInv, Typed, Owned, Fresh, If
<1>5. Kept'
  BY <1>1, SMT DEF IInv, Typed, Kept, Fresh, If
<1>6. Fresh' /\ TicksItself'
  BY <1>1, SMT DEF IInv, Typed, Fresh, TicksItself, NoTick
<1> QED
  BY <1>2, <1>3, <1>4, <1>5, <1>6 DEF IInv

(* The destructor of a class (stk.cc:313-318): the first that finds the    *)
(* pointer clears it for those of the classes above.                       *)
LEMMA DtorIInv ==
  ASSUME IInv, NEW o \in Objects, Dtor(o)
  PROVE  IInv'
<1>1. /\ life[o] = "dying"
      /\ dead' = dead \cup ({ptr[o]} \ {0})
      /\ Fault(IF ptr[o] \in dead THEN "twice" ELSE "none")
      /\ ptr' = [ptr EXCEPT ![o] = 0]
      /\ UNCHANGED <<class, life, wired, made, lost>>
  BY DEF Dtor
<1>2. ptr[o] \notin dead
  BY SMT DEF IInv, Typed, Owned
<1>3. LostByStatic' /\ fault' # "twice"
  BY <1>1, <1>2 DEF IInv, LostByStatic, ClassOf, Fault
<1>4. Typed'
  BY <1>1, SMT DEF IInv, Typed
<1>5. Owned' /\ Kept'
  BY <1>1, SMT DEF IInv, Typed, Owned, Kept
<1>6. Fresh' /\ TicksItself'
  BY <1>1, SMT DEF IInv, Typed, Fresh, TicksItself
<1> QED
  BY <1>3, <1>4, <1>5, <1>6 DEF IInv

(* Uses and the start and end of a destruction leave the pointers alone    *)
(* (stk.cc:271-311, 547-550, 4967-4990).                                   *)
LEMMA OtherIInv ==
  ASSUME IInv,
         NEW o \in Objects,
         \/ life' = life
         \/ life' = [life EXCEPT ![o] = "dying"]
         \/ life' = [life EXCEPT ![o] = "gone"],
         wired' = wired \/ (life' = [life EXCEPT ![o] = "gone"]
                            /\ wired' = [wired EXCEPT ![o] = NoTick]),
         UNCHANGED <<class, ptr, memory>>,
         fault' # "twice"
  PROVE  IInv'
<1>1. UNCHANGED <<class, ptr, made, dead, lost>>
  BY DEF memory
<1>2. Typed'
  BY <1>1, SMT DEF IInv, Typed, NoTick
<1>3. Owned' /\ Kept' /\ LostByStatic'
  BY <1>1 DEF IInv, Owned, Kept, LostByStatic, ClassOf
<1>4. Fresh' /\ TicksItself'
  BY <1>1, SMT DEF IInv, Typed, Fresh, TicksItself
<1> QED
  BY <1>2, <1>3, <1>4 DEF IInv

(* No step of any object breaks the invariant.                             *)
LEMMA NextIInv == IInv /\ [Next]_vars => IInv'
<1> SUFFICES ASSUME IInv, [Next]_vars PROVE IInv'
  OBVIOUS
<1>1. CASE UNCHANGED vars
  BY <1>1 DEF vars, memory, IInv, Typed, Owned, Kept, Fresh, TicksItself, LostByStatic,
              ClassOf
<1>2. ASSUME NEW o \in Objects, ObjectNext(o) PROVE IInv'
  <2>1. ASSUME NEW user \in BOOLEAN, Ctor(o, user) PROVE IInv'
    BY <2>1, CtorIInv
  <2>2. CASE Static(o)
    BY <2>2, StaticIInv
  <2>3. ASSUME NEW c, NEW f, NEW null, Call(o, c, f, null) PROVE IInv'
    <3>1. life' = life /\ wired' = wired /\ fault' # "twice" /\ UNCHANGED <<class, ptr, memory>>
      BY <2>3 DEF Call, Fault, IInv
    <3> QED
      BY <3>1, OtherIInv
  <2>4. ASSUME NEW s, Tick(o, s) PROVE IInv'
    <3>1. life' = life /\ wired' = wired /\ fault' # "twice" /\ UNCHANGED <<class, ptr, memory>>
      BY <2>4 DEF Tick, Fault, IInv
    <3> QED
      BY <3>1, OtherIInv
  <2>5. ASSUME NEW p \in Objects, AddInstrument(o, p) \/ RemoveInstrument(o, p) PROVE IInv'
    <3>1. life' = life /\ wired' = wired /\ fault' # "twice" /\ UNCHANGED <<class, ptr, memory>>
      BY <2>5 DEF AddInstrument, RemoveInstrument, Fault, IInv
    <3> QED
      BY <3>1, OtherIInv
  <2>6. CASE Drop(o)
    BY <2>6, OtherIInv DEF Drop, IInv
  <2>7. CASE Dtor(o)
    BY <2>7, DtorIInv
  <2>8. CASE End(o)
    BY <2>8, OtherIInv DEF End, IInv
  <2> QED
    BY <1>2, <2>1, <2>2, <2>3, <2>4, <2>5, <2>6, <2>7, <2>8 DEF ObjectNext
<1> QED
  BY <1>1, <1>2 DEF Next

(* The invariant holds, whatever objects there are (stk.cc:160-5300).      *)
LEMMA SpecIInv == Spec => []IInv
BY InitIInv, NextIInv, PTL DEF Spec

(* Every object of the library is deleted exactly once, however many       *)
(* objects the program makes of whatever classes, or is one of those a     *)
(* static constructor loses (stk.cc:313-318, 553-560, 933-943).            *)
THEOREM SpecDeletedOnce == Spec => []DeletedOnce
BY SpecIInv, IInvDeletedOnce, PTL

(* The tick of a live object computes that object's own library object     *)
(* (stk.cc:547-560, 933-943).                                              *)
THEOREM SpecTicksItself == Spec => []TicksItself
<1>1. IInv => TicksItself
  BY DEF IInv
<1> QED
  BY SpecIInv, <1>1, PTL

(* What the Voicer keeps belongs to live objects, as long as none of those *)
(* it keeps was dropped; it keeps nothing once it is gone.                 *)
Playing(v) == Has(v, "Voicer") /\ (life[v] = "live" \/ (life[v] = "dying" /\ at[v] = "Voicer"))

Clean == misuse \cap Questionable = {}

Safe ==
  Clean =>
    /\ fault = "none"
    /\ \A o \in Objects : life[o] = "live" => ptr[o] # 0
    /\ \A n \in voices : \E o \in Objects : life[o] = "live" /\ ptr[o] = n
    /\ voices # {} => \E v \in Objects : Playing(v)

Shaped == class \in [Objects -> Names] /\ at = [o \in Objects |-> at[o]]

SafeInv == IInv /\ Shaped /\ Safe

(* A name is that of a class of the table.                                 *)
LEMMA Named == \A n \in Names : ByName[n] \in Classes
BY DEF Names, ByName

(* Nothing is live at first.                                               *)
LEMMA InitSafe == Init => Shaped /\ Safe
<1> SUFFICES ASSUME Init PROVE Shaped /\ Safe
  OBVIOUS
<1>1. Shaped
  BY DEF Init, Shaped, Casts
<1>2. Safe
  BY DEF Init, Safe
<1> QED
  BY <1>1, <1>2

(* A program that did nothing questionable had not before.                 *)
LEMMA CleanBefore == [Next]_vars /\ Clean' => Clean
<1> SUFFICES ASSUME [Next]_vars PROVE misuse \subseteq misuse'
  BY DEF Clean
<1>1. CASE UNCHANGED vars
  BY <1>1 DEF vars
<1>2. ASSUME NEW o \in Objects, ObjectNext(o) PROVE misuse \subseteq misuse'
  BY <1>2 DEF ObjectNext, Ctor, Static, Call, Tick, AddInstrument, RemoveInstrument,
              Drop, Dtor, End
<1> QED
  BY <1>1, <1>2 DEF Next

(* A constructor that runs for the very class makes the library's object,  *)
(* and so does a static one (stk.cc:553-560, 933-943).                     *)
LEMMA MakeSafe ==
  ASSUME SafeInv, Clean, Clean', NEW o \in Objects,
         Static(o) \/ \E user \in BOOLEAN : Ctor(o, user)
  PROVE  Safe'
<1>1. /\ life[o] = "none" /\ fault = "none" /\ Typed
      /\ life' = [life EXCEPT ![o] = "live"]
      /\ UNCHANGED <<class, at, voices, fault>>
  BY DEF Static, Ctor, Idle, SafeInv, IInv
<1>2. ptr' = [ptr EXCEPT ![o] = ptr'[o]] /\ ptr'[o] # 0
  <2>1. CASE Static(o)
    BY <1>1, <2>1, SMT DEF Static, Typed
  <2>2. ASSUME NEW user \in BOOLEAN, Ctor(o, user)
        PROVE  ptr' = [ptr EXCEPT ![o] = ptr'[o]] /\ ptr'[o] # 0
    <3>1. ~user
      BY <2>2 DEF Ctor, If, Clean, Questionable
    <3>2. ClassOf(o) \in Classes
      BY Named DEF ClassOf, SafeInv, Shaped
    <3>3. ClassOf(o).unit.made
      BY <2>2, <3>1, <3>2, StkTables DEF Ctor
    <3>4. /\ made' = made + 1
          /\ ptr' = [ptr EXCEPT ![o] = IF made' > made THEN made' ELSE 0]
      BY <2>2, <3>1, <3>3 DEF Ctor
    <3> QED
      BY <1>1, <3>4, SMT DEF Typed
  <2> QED
    BY <2>1, <2>2
<1>3. /\ life'[o] = "live"
      /\ \A p \in Objects \ {o} : life'[p] = life[p] /\ ptr'[p] = ptr[p]
  BY <1>1, <1>2 DEF Typed
<1>4. \A p \in Objects : Playing(p) => Playing(p)'
  BY <1>1, <1>3 DEF Playing, Has, ClassOf
<1>5. \A p \in Objects : life[p] = "live" => p # o
  BY <1>1
<1> QED
  BY <1>1, <1>2, <1>3, <1>4, <1>5 DEF SafeInv, Safe

(* What is read is there (stk.cc:547-550, 4967-4990).                      *)
LEMMA UseSafe ==
  ASSUME SafeInv, Clean, Clean', NEW o \in Objects,
         \/ \E c \in Lineage(o) : \E f \in c.funs : \E null \in BOOLEAN : Call(o, c, f, null)
         \/ \E s \in SUBSET voices : Tick(o, s)
         \/ \E p \in Objects \ {o} : AddInstrument(o, p) \/ RemoveInstrument(o, p)
  PROVE  Safe'
<1>1. /\ life[o] = "live" /\ ptr[o] # 0 /\ fault = "none"
      /\ UNCHANGED <<class, life, at, ptr>>
  BY DEF Call, Tick, AddInstrument, RemoveInstrument, Live, Idle, SafeInv, Safe
<1>2. Typed /\ Owned /\ TicksItself
  BY DEF SafeInv, IInv
<1>3. \A p \in Objects : Playing(p) <=> Playing(p)'
  BY <1>1 DEF Playing, Has, ClassOf
<1>4. ASSUME fault' = "none", voices' \subseteq voices PROVE Safe'
  BY <1>1, <1>3, <1>4 DEF SafeInv, Safe
<1>5. ASSUME NEW c \in Lineage(o), NEW f \in c.funs, NEW null \in BOOLEAN, Call(o, c, f, null)
      PROVE  Safe'
  <2>1. c \in Classes
    BY Named DEF Lineage, ClassOf, SafeInv, Shaped
  <2>2. misuse' = misuse \cup If(Behind(c, f) = {}, f.name) \cup If(null, "null argument")
    BY <1>5 DEF Call
  <2>3. ~null
    BY <2>2 DEF If, Clean, Questionable
  <2>4. Behind(c, f) # {}
    <3>1. f.name \in Misdeclared \/ Behind(c, f) # {}
      BY <2>1, StkTables
    <3> QED
      BY <2>2, <3>1 DEF If, Clean, Questionable
  <2>5. fault' = "none"
    BY <1>1, <1>5, <2>3, <2>4 DEF Call, Fault
  <2> QED
    BY <1>4, <1>5, <2>5 DEF Call
<1>6. ASSUME NEW s \in SUBSET voices, Tick(o, s) PROVE Safe'
  <2>1. wired[o] = ptr[o] /\ ptr[o] \notin dead
    BY <1>1, <1>2, <1>6 DEF Tick, TicksItself, Owned
  <2>2. \A n \in voices : n # 0 /\ n \notin dead
    BY <1>2 DEF SafeInv, Safe, Owned
  <2>3. 0 \notin s \cup {wired[o]} /\ (s \cup {wired[o]}) \cap dead = {}
    BY <1>1, <2>1, <2>2
  <2>4. fault' = "none"
    BY <1>1, <1>6, <2>3 DEF Tick, Fault
  <2> QED
    BY <1>4, <1>6, <2>4 DEF Tick
<1>7. ASSUME NEW p \in Objects \ {o}, AddInstrument(o, p) PROVE Safe'
  <2>1. /\ fault' = "none" /\ life[p] = "live" /\ Has(o, "Voicer")
        /\ voices' = voices \cup {ptr[p]}
    BY <1>1, <1>7 DEF AddInstrument, Fault
  <2>2. Playing(o)'
    BY <1>1, <1>3, <2>1 DEF Playing
  <2> QED
    BY <1>1, <2>1, <2>2 DEF SafeInv, Safe
<1>8. ASSUME NEW p \in Objects \ {o}, RemoveInstrument(o, p) PROVE Safe'
  <2>1. fault' = "none" /\ voices' = voices \ {ptr[p]}
    BY <1>1, <1>8 DEF RemoveInstrument, Fault
  <2> QED
    BY <1>4, <2>1
<1> QED
  BY <1>5, <1>6, <1>7, <1>8

(* An instrument is not dropped while a Voicer keeps it, and the Voicer    *)
(* forgets all as soon as it goes (stk.cc:313-318).                        *)
LEMMA EndSafe ==
  ASSUME SafeInv, Clean, Clean', NEW o \in Objects, Drop(o) \/ Dtor(o) \/ End(o)
  PROVE  Safe'
<1>1. /\ fault = "none" /\ Typed /\ Owned
      /\ class \in [Objects -> Names] /\ at = [p \in Objects |-> at[p]]
      /\ \A p \in Objects : life[p] = "live" => ptr[p] # 0
      /\ \A n \in voices : \E p \in Objects : life[p] = "live" /\ ptr[p] = n
      /\ voices # {} => \E v \in Objects : Playing(v)
  BY DEF SafeInv, IInv, Safe, Shaped
<1>2. CASE Drop(o)
  <2>1. /\ \A p \in Objects : life[p] # "dying"
        /\ life' = [life EXCEPT ![o] = "dying"]
        /\ at' = [at EXCEPT ![o] = class[o]]
        /\ misuse' = misuse \cup If(/\ ptr[o] \in voices \ {0}
                                    /\ \E v \in Objects : Has(v, "Voicer") /\ life[v] = "live",
                                    "dangling")
        /\ UNCHANGED <<class, ptr, voices, fault>>
        /\ life[o] = "live"
    BY <1>2 DEF Drop, Live, Idle
  <2>2. ptr[o] \notin voices
    <3>1. ~(/\ ptr[o] \in voices \ {0}
            /\ \E v \in Objects : Has(v, "Voicer") /\ life[v] = "live")
      BY <2>1 DEF If, Clean, Questionable
    <3> QED
      BY <1>1, <2>1, <3>1 DEF Playing
  <2>3. /\ life'[o] = "dying" /\ at'[o] = class[o]
        /\ \A p \in Objects \ {o} : life'[p] = life[p] /\ at'[p] = at[p]
    BY <1>1, <2>1 DEF Typed
  <2>4. ASSUME NEW v \in Objects, Playing(v) PROVE Playing(v)'
    <3>1. class[v] = "Voicer"
      <4>1. "Voicer" \notin ClassOf(v).above
        BY <1>1, Named, StkTables DEF ClassOf
      <4> QED
        BY <2>4, <4>1 DEF Playing, Has
    <3>2. Has(v, "Voicer")'
      BY <2>1, <3>1 DEF Has
    <3> QED
      BY <2>3, <2>4, <3>1, <3>2 DEF Playing
  <2> QED
    BY <1>1, <2>1, <2>2, <2>3, <2>4 DEF Safe
<1>3. CASE Dtor(o)
  <2>1. /\ life[o] = "dying" /\ ptr[o] \notin dead
        /\ ptr' = [ptr EXCEPT ![o] = 0]
        /\ at' = [at EXCEPT ![o] = ByName[at[o]].parent]
        /\ voices' = IF at[o] = "Voicer" THEN {} ELSE voices
        /\ fault' = "none"
        /\ UNCHANGED <<class, life>>
    BY <1>1, <1>3, SMT DEF Dtor, Fault, Typed, Owned
  <2>2. \A p \in Objects \ {o} : ptr'[p] = ptr[p] /\ at'[p] = at[p]
    BY <1>1, <2>1 DEF Typed
  <2>3. \A p \in Objects : life[p] = "live" => p # o
    BY <2>1
  <2>4. ASSUME NEW v \in Objects, Playing(v), at[o] # "Voicer" PROVE Playing(v)'
    BY <2>1, <2>2, <2>4 DEF Playing, Has, ClassOf
  <2> QED
    BY <1>1, <2>1, <2>2, <2>3, <2>4 DEF Safe
<1>4. CASE End(o)
  <2>1. /\ life[o] = "dying" /\ at[o] \in {"Stk", "UGen"}
        /\ life' = [life EXCEPT ![o] = "gone"]
        /\ UNCHANGED <<class, at, ptr, voices, fault>>
    BY <1>4 DEF End, HasDtor
  <2>2. \A p \in Objects \ {o} : life'[p] = life[p]
    BY <1>1, <2>1 DEF Typed
  <2>3. ASSUME NEW v \in Objects, Playing(v) PROVE Playing(v)'
    BY <2>1, <2>2, <2>3 DEF Playing, Has, ClassOf
  <2>4. life'[o] = "gone"
    BY <1>1, <2>1 DEF Typed
  <2> QED
    BY <1>1, <2>1, <2>2, <2>3, <2>4 DEF Safe
<1> QED
  BY <1>2, <1>3, <1>4

(* No step of any object touches what is not there.                        *)
LEMMA NextSafe == SafeInv /\ [Next]_vars => SafeInv'
<1> SUFFICES ASSUME SafeInv, [Next]_vars PROVE SafeInv'
  OBVIOUS
<1>1. IInv'
  BY NextIInv DEF SafeInv
<1>2. Shaped'
  <2>1. CASE UNCHANGED vars
    BY <2>1 DEF vars, SafeInv, Shaped
  <2>2. ASSUME NEW o \in Objects, ObjectNext(o) PROVE Shaped'
    <3>1. UNCHANGED class /\ (UNCHANGED at \/ \E n : at' = [at EXCEPT ![o] = n])
      BY <2>2 DEF ObjectNext, Ctor, Static, Call, Tick, AddInstrument, RemoveInstrument,
                  Drop, Dtor, End
    <3> QED
      BY <3>1 DEF SafeInv, Shaped
  <2> QED
    BY <2>1, <2>2 DEF Next
<1>3. Safe'
  <2> SUFFICES ASSUME Clean' PROVE Safe'
    BY DEF Safe
  <2>1. Clean
    BY CleanBefore
  <2>2. CASE UNCHANGED vars
    BY <2>2 DEF vars, SafeInv, Safe, Clean, Playing, Has, ClassOf
  <2>3. ASSUME NEW o \in Objects, ObjectNext(o) PROVE Safe'
    BY <2>1, <2>3, MakeSafe, UseSafe, EndSafe DEF ObjectNext
  <2> QED
    BY <2>2, <2>3 DEF Next
<1> QED
  BY <1>1, <1>2, <1>3 DEF SafeInv

(* Whatever the program does with however many objects, nothing null,      *)
(* deleted or misread is used but by a questionable use (stk.cc:313-318,   *)
(* 547-560, 933-943, 4967-4990).                                           *)
THEOREM SpecSafeWithoutMisuse == Spec => []SafeWithoutMisuse
<1>1. Init => SafeInv
  BY InitIInv, InitSafe DEF SafeInv
<1>2. SafeInv => SafeWithoutMisuse
  BY DEF SafeInv, Safe, Clean, SafeWithoutMisuse
<1> QED
  BY <1>1, <1>2, NextSafe, PTL DEF Spec

(* All three hold of a program that may import Stk or another plug-in      *)
(* (stk.cc:313-318, 547-560, 933-943).                                     *)
THEOREM ImportedStk == UnitsSpec => []DeletedOnce /\ []TicksItself /\ []SafeWithoutMisuse
<1>1. UnitsInit => Init
  BY DEF UnitsInit
<1>2. ASSUME [UnitsNext]_<<plug, vars, soundpipeVars, lsysVars, analysVars, fmVars, srVars>>
      PROVE  [Next]_vars
  BY <1>2 DEF UnitsNext, Rest
<1>3. UnitsSpec => Spec
  BY <1>1, <1>2, PTL DEF UnitsSpec, Spec
<1> QED
  BY <1>3, SpecDeletedOnce, SpecTicksItself, SpecSafeWithoutMisuse, PTL

-----------------------------------------------------------------------------
(* Soundpipe: how often an object is in a list                             *)

(* A list of objects: the elements of an array, or the tables a unit keeps. *)
Listed(s, S) == IsFiniteSet(DOMAIN s) /\ s \in [DOMAIN s -> S]

(* The module counts with its own copy of the library's operators.         *)
LEMMA Counting ==
  /\ \A S : U!IsFiniteSet(S) <=> IsFiniteSet(S)
  /\ \A S : U!Cardinality(S) = Cardinality(S)
<1>1. \A S : U!IsFiniteSet(S) <=> IsFiniteSet(S)
  BY DEF U!IsFiniteSet, IsFiniteSet
<1>2. \A S : U!Cardinality(S) = Cardinality(S)
  BY <1>1 DEF U!Cardinality, Cardinality
<1> QED
  BY <1>1, <1>2

(* What is in a list is in it at least once, what is not never.            *)
LEMMA TimesType ==
  ASSUME NEW S, NEW s, Listed(s, S), NEW o
  PROVE  /\ U!Times(s, o) \in Nat
         /\ U!Times(s, o) > 0 <=> \E i \in DOMAIN s : s[i] = o
<1> DEFINE D == {i \in DOMAIN s : s[i] = o}
<1>1. IsFiniteSet(D)
  BY FS_Subset DEF Listed
<1>2. Cardinality(D) \in Nat /\ (Cardinality(D) = 0 <=> D = {})
  BY <1>1, FS_CardinalityType, FS_EmptySet
<1>3. D # {} <=> \E i \in DOMAIN s : s[i] = o
  OBVIOUS
<1>4. U!Times(s, o) = Cardinality(D)
  BY Counting DEF U!Times
<1> HIDE DEF D
<1> QED
  BY <1>2, <1>3, <1>4

(* Nothing is in the empty list, and one object in a list of one.          *)
LEMMA TimesFew ==
  ASSUME NEW o
  PROVE  /\ U!Times(<<>>, o) = 0
         /\ \A x : U!Times(<<x>>, o) = IF x = o THEN 1 ELSE 0
<1>1. {i \in DOMAIN <<>> : <<>>[i] = o} = {}
  OBVIOUS
<1>2. ASSUME NEW x PROVE U!Times(<<x>>, o) = IF x = o THEN 1 ELSE 0
  <2>1. DOMAIN <<x>> = {1} /\ <<x>>[1] = x
    OBVIOUS
  <2>2. CASE x = o
    <3>1. {i \in DOMAIN <<x>> : <<x>>[i] = o} = {1}
      BY <2>1, <2>2
    <3> QED
      BY <2>2, <3>1, FS_Singleton, Counting DEF U!Times
  <2>3. CASE x # o
    <3>1. {i \in DOMAIN <<x>> : <<x>>[i] = o} = {}
      BY <2>1, <2>3
    <3> QED
      BY <2>3, <3>1, FS_EmptySet, Counting DEF U!Times
  <2> QED
    BY <2>2, <2>3
<1> QED
  BY <1>1, <1>2, FS_EmptySet, Counting DEF U!Times

(* No object is a list, and one is.                                        *)
LEMMA ListedFew ==
  ASSUME NEW S
  PROVE  Listed(<<>>, S) /\ \A x \in S : Listed(<<x>>, S)
<1>1. DOMAIN <<>> = {} /\ <<>> \in [DOMAIN <<>> -> S]
  OBVIOUS
<1>2. ASSUME NEW x \in S PROVE Listed(<<x>>, S)
  <2>1. DOMAIN <<x>> = {1} /\ <<x>>[1] = x /\ <<x>> = [i \in {1} |-> x]
    OBVIOUS
  <2>2. <<x>> \in [{1} -> S]
    BY <2>1
  <2> QED
    BY <2>1, <2>2, FS_Singleton DEF Listed
<1> QED
  BY <1>1, <1>2, FS_EmptySet DEF Listed

(* An element that is replaced is in the list once less, its successor     *)
(* once more.                                                              *)
LEMMA TimesReplaced ==
  ASSUME NEW S, NEW s, Listed(s, S), NEW i \in DOMAIN s, NEW x \in S, s[i] # x, NEW o
  PROVE  /\ Listed([s EXCEPT ![i] = x], S)
         /\ U!Times([s EXCEPT ![i] = x], o)
              = (U!Times(s, o) + (IF x = o THEN 1 ELSE 0)) - (IF s[i] = o THEN 1 ELSE 0)
<1> DEFINE r == [s EXCEPT ![i] = x]
           D == {j \in DOMAIN s : s[j] = o}
           E == {j \in DOMAIN r : r[j] = o}
<1>1. DOMAIN r = DOMAIN s /\ r[i] = x /\ \A j \in DOMAIN s \ {i} : r[j] = s[j]
  BY DEF Listed
<1>2. Listed(r, S)
  BY <1>1 DEF Listed
<1>3. IsFiniteSet(D) /\ Cardinality(D) \in Nat
  BY FS_Subset, FS_CardinalityType DEF Listed
<1>4. IsFiniteSet(E) /\ Cardinality(E) \in Nat
  BY <1>2, FS_Subset, FS_CardinalityType DEF Listed
<1>5. U!Times(s, o) = Cardinality(D) /\ U!Times(r, o) = Cardinality(E)
  BY Counting DEF U!Times
<1>6. CASE x = o
  <2>1. E = D \cup {i} /\ i \notin D
    BY <1>1, <1>6
  <2> HIDE DEF D, E
  <2>2. Cardinality(E) = Cardinality(D) + 1
    BY <1>3, <2>1, FS_AddElement
  <2> QED
    BY <1>2, <1>3, <1>5, <1>6, <2>2
<1>7. CASE s[i] = o
  <2>1. E = D \ {i} /\ i \in D
    BY <1>1, <1>7
  <2> HIDE DEF D, E
  <2>2. Cardinality(E) = Cardinality(D) - 1
    BY <1>3, <2>1, FS_RemoveElement
  <2> QED
    BY <1>2, <1>3, <1>5, <1>7, <2>2
<1>8. CASE x # o /\ s[i] # o
  <2>1. E = D
    BY <1>1, <1>8
  <2> QED
    BY <1>2, <1>3, <1>5, <1>8, <2>1
<1> QED
  BY <1>6, <1>7, <1>8

-----------------------------------------------------------------------------
(* Soundpipe: the invariant                                                *)

SpTyped ==
  /\ uClass \in U!Classes
  /\ uLife \in {"none", "live", "gone"}
  /\ uOsc \in {"null", "half", "made"}
  /\ uIsInit \in BOOLEAN
  /\ Listed(uKept, U!Counted)
  /\ Listed(tArr, Tables)
  /\ tMade \in 0 .. MaxTables
  /\ tSlot \in [Tables -> 0 .. tMade]
  /\ tDead \subseteq 1 .. tMade
  /\ tSpilled \subseteq 1 .. tMade
  /\ tHeld \subseteq U!Counted
  /\ tRef \in [U!Counted -> Int]
  /\ tLost \in [Tables -> Nat]

(* The stages of a unit: when it keeps tables, when it has an oscillator.  *)
SpStages ==
  /\ uLife = "none" => ~uIsInit /\ uOsc = "null"
  /\ ~uIsInit => uKept = <<>> /\ uUsed = {}
  /\ ~U!unit.counted => uKept = <<>>
  /\ ~U!unit.late => ~uIsInit
  /\ uLife = "live" /\ U!unit.late => (uOsc = "made" => uIsInit) /\ (uIsInit => uOsc # "null")
  /\ uLife = "live" /\ ~U!unit.late => uOsc = "made"
  /\ uLife = "gone" => uOsc # "made"

(* What refers to o: a variable in h, an element of the unit's list k, a   *)
(* call that forgot it; and the elements e of the array, while it is there. *)
Own(h, k, l, o) ==
  (IF o \in h THEN 1 ELSE 0) + U!Times(k, o) + (IF o \in Tables THEN l[o] ELSE 0)
Elements(r, e, o) == IF r[Arr] > 0 THEN U!Times(e, o) ELSE 0
Balanced(r, h, e, k, l) ==
  \A o \in U!Counted : r[o] = Own(h, k, l, o) + Elements(r, e, o)

ByUnit == IF uLife = "live" THEN uKept ELSE <<>>
Spoiled == uMisuse \cap {"refail", "retry"} # {}

SpBalance == ~Spoiled => Balanced(tRef, tHeld, tArr, ByUnit, tLost)

(* A table of the library has one object that points to it, or is          *)
(* destroyed or spilled; that of a freed object is destroyed.              *)
SpPlaced ==
  /\ \A t, u \in Tables : tSlot[t] = tSlot[u] => t = u \/ tSlot[t] = 0
  /\ \A n \in 1 .. tMade : n \in tDead \cup tSpilled \/ \E t \in Tables : tSlot[t] = n
  /\ ~Spoiled => \A t \in Tables : tRef[t] <= 0 => tSlot[t] \in tDead \cup {0}

(* The unit keeps a table's object: itself, by the array or for ever.      *)
Keeps(k, e, l, t) ==
  \/ \E i \in DOMAIN k : k[i] = t
  \/ (\E i \in DOMAIN k : k[i] = Arr) /\ (\E j \in DOMAIN e : e[j] = t)
  \/ l[t] > 0

(* What is counted has its table, and what is spilled is nobody's.         *)
SpWhole ==
  /\ \A t \in Tables : tRef[t] > 0 => tSlot[t] \notin tDead
  /\ \A n \in tSpilled : n \notin tDead /\ \A t \in Tables : tSlot[t] # n

(* What the library was given is kept for it, or spilled and never freed.  *)
SpUsed ==
  uLife = "live" =>
    \A n \in uUsed :
      n # 0 /\ (n \in tSpilled \/ \E t \in Tables :
                                     tSlot[t] = n /\ Keeps(uKept, tArr, tLost, t))

SpClean ==
  uMisuse = {} => uFault = "none" /\ (uOsc = "half" => ~uIsInit) /\ SpWhole /\ SpUsed

SpInv == SpTyped /\ SpStages /\ SpBalance /\ SpPlaced /\ SpClean

-----------------------------------------------------------------------------
(* Soundpipe: releases                                                     *)

(* A release takes away what it was told to, and the elements of the array *)
(* with its last reference.                                                *)
LEMMA ReleasedIs ==
  ASSUME SpTyped, NEW s, Listed(s, U!Counted)
  PROVE  /\ U!Released(s) \in [U!Counted -> Int]
         /\ \A o \in U!Counted :
              U!Released(s)[o] =
                (tRef[o] - U!Times(s, o))
                  - (IF tRef[Arr] > 0 /\ tRef[Arr] - U!Times(s, Arr) <= 0
                     THEN U!Times(tArr, o) ELSE 0)
         /\ \A o \in U!Counted : U!Released(s)[o] <= tRef[o]
         /\ U!Released(s)[Arr] = tRef[Arr] - U!Times(s, Arr)
<1>1. /\ \A o : U!Times(s, o) \in Nat /\ U!Times(tArr, o) \in Nat
      /\ U!Times(tArr, Arr) = 0
      /\ \A o : U!Times(<<>>, o) = 0
  <2>1. \A i \in DOMAIN tArr : tArr[i] # Arr
    BY UnitsAssumption DEF SpTyped, Listed, U!SoundpipeAssumption
  <2>2. \A o : U!Times(tArr, o) \in Nat /\ (U!Times(tArr, o) > 0 <=> \E i \in DOMAIN tArr : tArr[i] = o)
    BY TimesType DEF SpTyped
  <2>3. \A o : U!Times(s, o) \in Nat
    BY TimesType
  <2> QED
    BY <2>1, <2>2, <2>3, TimesFew
<1>2. Arr \in U!Counted
  BY DEF U!Counted
<1>3. tRef \in [U!Counted -> Int]
  BY DEF SpTyped
<1>4. U!Less(s) = [o \in U!Counted |-> tRef[o] - U!Times(s, o)]
  BY DEF U!Less
<1> DEFINE elements == IF tRef[Arr] > 0 /\ U!Less(s)[Arr] <= 0 THEN tArr ELSE <<>>
<1>5. U!Released(s) = [o \in U!Counted |-> U!Less(s)[o] - U!Times(elements, o)]
  BY DEF U!Released
<1>6. U!Less(s)[Arr] = tRef[Arr] - U!Times(s, Arr)
  BY <1>2, <1>4
<1>7. \A o : U!Times(elements, o) = IF tRef[Arr] > 0 /\ tRef[Arr] - U!Times(s, Arr) <= 0
                                    THEN U!Times(tArr, o) ELSE 0
  BY <1>1, <1>6
<1> HIDE DEF elements
<1>8. \A o \in U!Counted :
        U!Released(s)[o] =
          (tRef[o] - U!Times(s, o))
            - (IF tRef[Arr] > 0 /\ tRef[Arr] - U!Times(s, Arr) <= 0
               THEN U!Times(tArr, o) ELSE 0)
  BY <1>4, <1>5, <1>7
<1>9. \A o \in U!Counted : U!Released(s)[o] \in Int /\ U!Released(s)[o] <= tRef[o]
  BY <1>1, <1>3, <1>8
<1>10. U!Released(s) \in [U!Counted -> Int]
  <2>1. \A o \in U!Counted : U!Less(s)[o] - U!Times(elements, o) \in Int
    BY <1>5, <1>9
  <2> QED
    BY <1>5, <2>1
<1>11. U!Released(s)[Arr] = tRef[Arr] - U!Times(s, Arr)
  BY <1>1, <1>2, <1>3, <1>8
<1> QED
  BY <1>8, <1>9, <1>10, <1>11

(* What a release leaves is counted when what it released was.             *)
LEMMA ReleaseBalances ==
  ASSUME SpTyped, NEW s, Listed(s, U!Counted),
         NEW h, NEW k, Listed(k, U!Counted), NEW l \in [Tables -> Nat],
         \A o \in U!Counted :
           tRef[o] = (Own(h, k, l, o) + U!Times(s, o)) + Elements(tRef, tArr, o)
  PROVE  Balanced(U!Released(s), h, tArr, k, l)
<1> USE DEF Elements
<1>1. SUFFICES ASSUME NEW o \in U!Counted
               PROVE  U!Released(s)[o] = Own(h, k, l, o) + Elements(U!Released(s), tArr, o)
  BY DEF Balanced
<1>2. Own(h, k, l, o) \in Int
  BY TimesType DEF Own
<1>3. U!Times(s, o) \in Nat /\ U!Times(s, Arr) \in Nat /\ U!Times(tArr, o) \in Nat
  BY TimesType DEF SpTyped
<1>4. tRef[Arr] \in Int /\ tRef[o] \in Int
  BY DEF SpTyped, U!Counted
<1>5. tRef[o] = (Own(h, k, l, o) + U!Times(s, o)) + Elements(tRef, tArr, o)
  OBVIOUS
<1>6. U!Released(s)[Arr] = tRef[Arr] - U!Times(s, Arr)
  BY ReleasedIs
<1>7. U!Released(s)[o] =
        (tRef[o] - U!Times(s, o))
          - (IF tRef[Arr] > 0 /\ tRef[Arr] - U!Times(s, Arr) <= 0
             THEN U!Times(tArr, o) ELSE 0)
  BY ReleasedIs
<1> QED
  BY <1>2, <1>3, <1>4, <1>5, <1>6, <1>7, SMT

(* What a variable, the array of one or the unit refers to is counted.     *)
LEMMA BalancedCounts ==
  ASSUME NEW r, NEW h, NEW e, Listed(e, Tables), NEW k, Listed(k, U!Counted),
         NEW l \in [Tables -> Nat], Balanced(r, h, e, k, l)
  PROVE  /\ \A o \in U!Counted : r[o] \in Nat
         /\ \A o \in U!Counted : o \in h => r[o] > 0
         /\ Arr \in h => \A i \in DOMAIN e : r[e[i]] > 0
         /\ \A t \in Tables : Keeps(k, e, l, t) => r[t] > 0
<1> USE DEF Elements
<1>1. \A o : /\ U!Times(k, o) \in Nat
             /\ U!Times(k, o) > 0 <=> \E i \in DOMAIN k : k[i] = o
  BY TimesType
<1>2. \A o : /\ U!Times(e, o) \in Nat
             /\ U!Times(e, o) > 0 <=> \E i \in DOMAIN e : e[i] = o
  BY TimesType
<1>3. Arr \in U!Counted /\ Tables \subseteq U!Counted
  BY DEF U!Counted
<1>4. \A o \in U!Counted : r[o] = Own(h, k, l, o) + Elements(r, e, o)
  BY DEF Balanced
<1>5. \A o \in U!Counted : /\ Own(h, k, l, o) \in Nat
                           /\ o \in h => Own(h, k, l, o) > 0
                           /\ U!Times(k, o) > 0 => Own(h, k, l, o) > 0
                           /\ o \in Tables /\ l[o] > 0 => Own(h, k, l, o) > 0
  BY <1>1, SMT DEF Own
<1>6. \A o \in U!Counted : Elements(r, e, o) \in Nat
  BY <1>2, SMT
<1>7. \A o \in U!Counted : r[o] \in Nat /\ (Own(h, k, l, o) > 0 => r[o] > 0)
  BY <1>4, <1>5, <1>6, SMT
<1>8. r[Arr] > 0 => \A i \in DOMAIN e : r[e[i]] > 0
  <2>1. ASSUME r[Arr] > 0, NEW i \in DOMAIN e PROVE r[e[i]] > 0
    <3>1. e[i] \in U!Counted
      BY <1>3 DEF Listed
    <3>2. Elements(r, e, e[i]) > 0
      BY <1>2, <2>1
    <3> QED
      BY <1>4, <1>5, <1>6, <3>1, <3>2, SMT
  <2> QED
    BY <2>1
<1>9. ASSUME NEW t \in Tables, Keeps(k, e, l, t) PROVE r[t] > 0
  <2>1. CASE \E i \in DOMAIN k : k[i] = t
    BY <1>1, <1>3, <1>5, <1>7, <2>1
  <2>2. CASE (\E i \in DOMAIN k : k[i] = Arr) /\ (\E j \in DOMAIN e : e[j] = t)
    BY <1>1, <1>3, <1>5, <1>7, <1>8, <2>2
  <2>3. CASE l[t] > 0
    BY <1>3, <1>5, <1>7, <2>3
  <2> QED
    BY <1>9, <2>1, <2>2, <2>3 DEF Keeps
<1> QED
  BY <1>3, <1>5, <1>7, <1>8, <1>9

(* The tables a release destroys are those of the objects it frees.        *)
LEMMA DestroyedAre ==
  ASSUME SpTyped, SpPlaced, NEW s, Listed(s, U!Counted)
  PROVE  /\ U!Destroyed(s) \subseteq 1 .. tMade
         /\ \A n \in U!Destroyed(s) : \E t \in Tables : tSlot[t] = n /\ tRef[t] > 0
         /\ \A t \in Tables : U!Released(s)[t] > 0 => tSlot[t] \notin U!Destroyed(s)
         /\ \A t \in Tables : tRef[t] > 0 /\ U!Released(s)[t] <= 0 =>
                                tSlot[t] \in U!Destroyed(s) \cup {0}
<1>1. /\ \A n : n \in U!Destroyed(s) <=>
                  n # 0 /\ \E t \in Tables : tSlot[t] = n /\ tRef[t] > 0 /\ U!Released(s)[t] <= 0
  BY DEF U!Destroyed, U!Freed
<1>2. U!Released(s) \in [U!Counted -> Int] /\ Tables \subseteq U!Counted
  BY ReleasedIs DEF U!Counted
<1>3. tSlot \in [Tables -> 0 .. tMade] /\ tMade \in Nat
  BY UnitsAssumption DEF SpTyped, U!SoundpipeAssumption
<1>4. \A t, u \in Tables : tSlot[t] = tSlot[u] => t = u \/ tSlot[t] = 0
  BY DEF SpPlaced
<1>5. U!Destroyed(s) \subseteq 1 .. tMade
  BY <1>1, <1>3, SMT
<1>6. ASSUME NEW t \in Tables, U!Released(s)[t] > 0 PROVE tSlot[t] \notin U!Destroyed(s)
  <2>1. SUFFICES ASSUME NEW u \in Tables, tSlot[u] = tSlot[t], tSlot[t] # 0,
                        U!Released(s)[u] <= 0
                 PROVE  FALSE
    BY <1>1
  <2>2. u = t
    BY <1>4, <2>1
  <2> QED
    BY <1>2, <1>6, <2>1, <2>2, SMT
<1> QED
  BY <1>1, <1>5, <1>6

(* A release of what is counted meets nothing that was freed before.       *)
LEMMA ReleaseSafe ==
  ASSUME SpTyped, SpPlaced, SpWhole, NEW s, Listed(s, U!Counted),
         \A o \in U!Counted : U!Released(s)[o] \in Nat
  PROVE  U!ReleaseFault(s) = "none"
<1>1. ~\E o \in U!Counted : U!Released(s)[o] < 0
  BY SMT
<1>2. U!Destroyed(s) \cap tDead = {}
  BY DestroyedAre DEF SpWhole
<1> QED
  BY <1>1, <1>2 DEF U!ReleaseFault

(* After a release, what is counted still has its table and only that.     *)
LEMMA ReleasePlaces ==
  ASSUME SpTyped, SpPlaced, NEW s, Listed(s, U!Counted),
         Spoiled => Spoiled',
         UNCHANGED <<tSlot, tMade, tSpilled>>,
         tDead' = tDead \cup U!Destroyed(s),
         \A o \in U!Counted : tRef'[o] \in Int /\ U!Released(s)[o] <= tRef'[o],
         ~Spoiled' => \A t \in Tables : tRef'[t] > 0 => U!Released(s)[t] > 0
  PROVE  SpPlaced' /\ (SpWhole /\ ~Spoiled' => SpWhole')
<1>1. U!Released(s) \in [U!Counted -> Int] /\ \A o \in U!Counted : U!Released(s)[o] <= tRef[o]
  BY ReleasedIs
<1>2. Tables \subseteq U!Counted
  BY DEF U!Counted
<1>3. tRef \in [U!Counted -> Int]
  BY DEF SpTyped
<1>4. /\ \A n \in U!Destroyed(s) : \E t \in Tables : tSlot[t] = n /\ tRef[t] > 0
      /\ \A t \in Tables : U!Released(s)[t] > 0 => tSlot[t] \notin U!Destroyed(s)
      /\ \A t \in Tables : tRef[t] > 0 /\ U!Released(s)[t] <= 0 =>
                             tSlot[t] \in U!Destroyed(s) \cup {0}
  BY DestroyedAre
<1>5. SpPlaced'
  <2>1. ASSUME ~Spoiled', NEW t \in Tables, tRef'[t] <= 0
        PROVE  tSlot[t] \in tDead' \cup {0}
    <3>1. U!Released(s)[t] <= 0
      BY <1>1, <1>2, <2>1, SMT
    <3>2. CASE tRef[t] > 0
      BY <1>4, <3>1, <3>2
    <3>3. CASE ~(tRef[t] > 0)
      <4>1. tRef[t] <= 0
        BY <1>2, <1>3, <3>3, SMT
      <4> QED
        BY <2>1, <4>1 DEF SpPlaced
    <3> QED
      BY <3>2, <3>3
  <2> QED
    BY <2>1 DEF SpPlaced
<1>6. ASSUME SpWhole, ~Spoiled' PROVE SpWhole'
  <2>1. ASSUME NEW t \in Tables, tRef'[t] > 0 PROVE tSlot[t] \notin tDead'
    <3>1. U!Released(s)[t] > 0
      BY <1>6, <2>1
    <3>2. tRef[t] > 0
      BY <1>1, <1>2, <1>3, <3>1, SMT
    <3> QED
      BY <1>4, <1>6, <3>1, <3>2 DEF SpWhole
  <2>2. ASSUME NEW n \in tSpilled PROVE n \notin tDead' /\ \A t \in Tables : tSlot[t] # n
    BY <1>4, <1>6, <2>2 DEF SpWhole
  <2> QED
    BY <2>1, <2>2 DEF SpWhole
<1> QED
  BY <1>5, <1>6

-----------------------------------------------------------------------------
(* Soundpipe: init                                                         *)

(* What init releases is what the unit keeps.                              *)
LEMMA OldIsKept ==
  ASSUME SpTyped, SpStages, uLife = "live", U!unit.late
  PROVE  U!Old = uKept
BY DEF SpTyped, SpStages, U!Old

(* The arguments of init are objects the program refers to: tables, or an  *)
(* array of them when init takes one, which then counts it.                *)
LEMMA ArgumentsAre ==
  ASSUME SpTyped, NEW a \in U!Arguments
  PROVE  /\ Listed(a, U!Counted)
         /\ \A i \in DOMAIN a : a[i] \in U!Reachable
         /\ ~U!unit.counted => \A i \in DOMAIN a : a[i] # Arr
         /\ \A n \in U!TablesOf(a) :
              \E t \in Tables :
                /\ tSlot[t] = n
                /\ \/ \E i \in DOMAIN a : a[i] = t
                   \/ U!unit.counted /\ (\E i \in DOMAIN a : a[i] = Arr)
                                     /\ \E j \in DOMAIN tArr : tArr[j] = t
<1> DEFINE types == U!unit.init
           places == {i \in DOMAIN types : U!IsTable(types[i])}
<1>1. /\ types \in Seq(STRING)
      /\ ~U!unit.counted => \A i \in DOMAIN types : types[i] # "ftbl[]"
  BY UnitsAssumption DEF SpTyped, U!SoundpipeAssumption, U!unit
<1>2. DOMAIN types = 1 .. Len(types) /\ Len(types) \in Nat
  BY <1>1
<1>3. IsFiniteSet(places)
  <2>1. IsFiniteSet(1 .. Len(types))
    BY <1>2, FS_Interval
  <2>2. places \subseteq 1 .. Len(types)
    BY <1>2
  <2> HIDE DEF places
  <2> QED
    BY <2>1, <2>2, FS_Subset
<1>4. U!TableArgs(types) = Cardinality(places)
  BY Counting DEF U!TableArgs
<1>5. Cardinality(places) \in Nat /\ (Cardinality(places) = 0 <=> places = {})
  BY <1>3, FS_CardinalityType, FS_EmptySet
<1>6. U!TakesArray => 1 \in DOMAIN types /\ types[1] = "ftbl[]"
  BY <1>1, <1>2 DEF U!TakesArray
<1>7. U!TakesArray => 1 \in places /\ U!unit.counted
  BY <1>1, <1>6 DEF U!IsTable
<1>8. U!TakesArray => 1 \in 1 .. U!TableArgs(types)
  <2> HIDE DEF places
  <2> QED
    BY <1>4, <1>5, <1>7
<1>9. /\ a \in [1 .. U!TableArgs(types) -> U!Reachable]
      /\ \A i \in DOMAIN a : (a[i] = Arr) = U!TakesArray
  BY DEF U!Arguments
<1> HIDE DEF types, places
<1>10. DOMAIN a = 1 .. U!TableArgs(types) /\ \A i \in DOMAIN a : a[i] \in U!Reachable
  BY <1>9
<1>11. IsFiniteSet(DOMAIN a)
  BY <1>4, <1>5, <1>10, FS_Interval
<1>12. U!Reachable \subseteq U!Counted
  BY DEF U!Reachable, SpTyped, Listed, U!Counted
<1>13. Listed(a, U!Counted)
  BY <1>9, <1>10, <1>11, <1>12 DEF Listed
<1>14. ~U!unit.counted => \A i \in DOMAIN a : a[i] # Arr
  BY <1>7, <1>9
<1>15. ASSUME NEW n \in U!TablesOf(a)
       PROVE  \E t \in Tables :
                /\ tSlot[t] = n
                /\ \/ \E i \in DOMAIN a : a[i] = t
                   \/ U!unit.counted /\ (\E i \in DOMAIN a : a[i] = Arr)
                                     /\ \E j \in DOMAIN tArr : tArr[j] = t
  <2>1. CASE U!TakesArray
    <3>1. PICK j \in DOMAIN tArr : n = tSlot[tArr[j]]
      BY <2>1 DEF U!TablesOf
    <3>2. tArr[j] \in Tables
      BY DEF SpTyped, Listed
    <3>3. a[1] = Arr /\ 1 \in DOMAIN a
      BY <1>8, <1>9, <1>10, <2>1
    <3> QED
      BY <1>7, <2>1, <3>1, <3>2, <3>3
  <2>2. CASE ~U!TakesArray
    <3>1. PICK i \in DOMAIN a : n = tSlot[a[i]]
      BY <2>2 DEF U!TablesOf
    <3>2. a[i] \in Tables
      BY <1>9, <1>10, <1>12, <2>2 DEF U!Counted
    <3> QED
      BY <3>1, <3>2
  <2> QED
    BY <2>1, <2>2
<1> QED
  BY <1>10, <1>13, <1>14, <1>15

(* Everything the program can name is counted.                             *)
LEMMA ReachableCounted ==
  ASSUME SpTyped,
         NEW r, NEW k, Listed(k, U!Counted), NEW l \in [Tables -> Nat],
         Balanced(r, tHeld, tArr, k, l)
  PROVE  \A o \in U!Reachable : r[o] > 0
BY BalancedCounts DEF SpTyped, U!Reachable

(* Tables that were lost once more, or taken by init, are counted so.      *)
LEMMA BalancesMore ==
  ASSUME SpTyped,
         NEW r, NEW k, Listed(k, U!Counted), NEW l \in [Tables -> Nat],
         Balanced(r, tHeld, tArr, k, l),
         NEW rr, NEW kk, Listed(kk, U!Counted), NEW ll \in [Tables -> Nat],
         rr[Arr] > 0 <=> r[Arr] > 0,
         \A o \in U!Counted :
           rr[o] = r[o] + (Own(tHeld, kk, ll, o) - Own(tHeld, k, l, o))
  PROVE  Balanced(rr, tHeld, tArr, kk, ll)
<1> SUFFICES ASSUME NEW o \in U!Counted
             PROVE  rr[o] = Own(tHeld, kk, ll, o) + Elements(rr, tArr, o)
  BY DEF Balanced
<1>1. Own(tHeld, k, l, o) \in Int /\ Own(tHeld, kk, ll, o) \in Int
  BY TimesType DEF Own
<1>2. Elements(r, tArr, o) \in Int /\ Elements(rr, tArr, o) = Elements(r, tArr, o)
  BY TimesType DEF SpTyped, Elements
<1>3. r[o] = Own(tHeld, k, l, o) + Elements(r, tArr, o)
  BY DEF Balanced
<1> QED
  BY <1>1, <1>2, <1>3, SMT

(* init makes an oscillator (soundpipe.c:2100-2128): what it releases was  *)
(* counted, and what it hands the library it counts.                       *)
LEMMA InitOkSpInv ==
  ASSUME SpInv, NEW a \in U!Arguments, NEW long \in BOOLEAN, U!InitOk(a, long)
  PROVE  SpInv'
<1>1. /\ SpTyped /\ SpStages /\ SpBalance /\ SpPlaced /\ SpClean
      /\ Tables \subseteq U!Counted /\ Arr \in U!Counted /\ Arr \notin Tables
  BY UnitsAssumption DEF SpInv, U!Counted, U!SoundpipeAssumption
<1>2. /\ uLife = "live" /\ U!unit.late
      /\ tRef' = [o \in U!Counted |-> U!Released(U!Old)[o] + U!Times(a, o)]
      /\ tDead' = tDead \cup U!Destroyed(U!Old)
      /\ uFault' = IF uFault = "none" THEN U!ReleaseFault(U!Old) ELSE uFault
      /\ tLost' = [t \in Tables |-> tLost[t] + IF U!unit.counted THEN 0 ELSE U!Times(a, t)]
      /\ uKept' = IF U!unit.counted THEN a ELSE <<>>
      /\ uOsc' = "made" /\ uIsInit' = TRUE
      /\ UNCHANGED <<uClass, uLife, tSlot, tMade, tArr, tHeld, tSpilled>>
      /\ U!unit' = U!unit
  BY DEF U!InitOk, U!Live, U!Fault, U!unit
<1>3. /\ uUsed' = U!TablesOf(a) \cup U!If(long, U!Beyond)
      /\ uMisuse' = uMisuse \cup (U!Retry \cup U!If(0 \in U!TablesOf(a), "empty")
                                          \cup U!If(long, "short"))
  BY DEF U!InitOk, U!Misuse
<1>4. /\ Spoiled => Spoiled'
      /\ ~Spoiled' => uOsc # "half"
      /\ uMisuse' = {} => /\ uMisuse = {} /\ ~Spoiled'
                          /\ 0 \notin U!TablesOf(a) /\ uUsed' = U!TablesOf(a)
  BY <1>3 DEF U!Retry, U!If, Spoiled
<1>5. U!Old = uKept /\ Listed(uKept, U!Counted)
  BY <1>1, <1>2, OldIsKept DEF SpTyped
<1>6. /\ Listed(a, U!Counted)
      /\ \A i \in DOMAIN a : a[i] \in U!Reachable
      /\ ~U!unit.counted => \A i \in DOMAIN a : a[i] # Arr
      /\ \A m \in U!TablesOf(a) :
           \E t \in Tables :
             /\ tSlot[t] = m
             /\ \/ \E i \in DOMAIN a : a[i] = t
                \/ U!unit.counted /\ (\E i \in DOMAIN a : a[i] = Arr)
                                  /\ \E j \in DOMAIN tArr : tArr[j] = t
  BY <1>1, ArgumentsAre
<1>7. \A o : U!Times(a, o) \in Nat /\ (U!Times(a, o) > 0 <=> \E i \in DOMAIN a : a[i] = o)
  BY <1>6, TimesType
<1>8. Listed(<<>>, U!Counted)
  BY ListedFew
<1>9. U!Released(uKept) \in [U!Counted -> Int]
  BY <1>1, <1>5, ReleasedIs
<1>10. /\ tRef' \in [U!Counted -> Int]
       /\ \A o \in U!Counted : /\ tRef'[o] = U!Released(uKept)[o] + U!Times(a, o)
                               /\ U!Released(uKept)[o] <= tRef'[o]
  BY <1>2, <1>5, <1>7, <1>9
<1>11. tLost \in [Tables -> Nat] /\ tLost' \in [Tables -> Nat]
  BY <1>1, <1>2, <1>7 DEF SpTyped
<1>12. SpTyped'
  <2>1. U!Destroyed(uKept) \subseteq 1 .. tMade
    BY <1>1, <1>5, DestroyedAre
  <2>2. Listed(uKept', U!Counted)
    BY <1>2, <1>6, <1>8
  <2>3. U!Counted' = U!Counted /\ U!Classes' = U!Classes
    OBVIOUS
  <2> QED
    BY <1>1, <1>2, <1>5, <1>10, <1>11, <2>1, <2>2, <2>3 DEF SpTyped, Listed
<1>13. SpStages'
  BY <1>1, <1>2 DEF SpTyped, SpStages
<1>14. ASSUME ~Spoiled'
       PROVE  Balanced(U!Released(uKept), tHeld, tArr, <<>>, tLost)
  <2>1. Balanced(tRef, tHeld, tArr, uKept, tLost)
    BY <1>1, <1>2, <1>4, <1>14 DEF SpBalance, ByUnit
  <2>2. \A o \in U!Counted :
          tRef[o] = (Own(tHeld, <<>>, tLost, o) + U!Times(uKept, o)) + Elements(tRef, tArr, o)
    <3> SUFFICES ASSUME NEW o \in U!Counted
                 PROVE  tRef[o] = (Own(tHeld, <<>>, tLost, o) + U!Times(uKept, o))
                                    + Elements(tRef, tArr, o)
      OBVIOUS
    <3>1. U!Times(uKept, o) \in Nat /\ U!Times(<<>>, o) = 0
      BY <1>5, TimesType, TimesFew
    <3>2. Own(tHeld, uKept, tLost, o) = Own(tHeld, <<>>, tLost, o) + U!Times(uKept, o)
      BY <1>11, <3>1, SMT DEF Own
    <3> QED
      BY <2>1, <3>2 DEF Balanced
  <2> QED
    BY <1>1, <1>5, <1>8, <1>11, <2>2, ReleaseBalances
<1>15. ASSUME ~Spoiled'
       PROVE  \A o \in U!Counted : /\ U!Released(uKept)[o] \in Nat
                                   /\ U!Times(a, o) > 0 => U!Released(uKept)[o] > 0
  <2>1. \A o \in U!Reachable : U!Released(uKept)[o] > 0
    BY <1>1, <1>8, <1>11, <1>14, <1>15, ReachableCounted
  <2>2. \A o \in U!Counted : U!Released(uKept)[o] \in Nat
    BY <1>1, <1>8, <1>11, <1>14, <1>15, BalancedCounts DEF SpTyped
  <2> QED
    BY <1>6, <1>7, <2>1, <2>2
<1>16. SpBalance'
  <2>1. SUFFICES ASSUME ~Spoiled' PROVE Balanced(tRef', tHeld, tArr, uKept', tLost')
    BY <1>2 DEF SpBalance, ByUnit, Balanced, Own, Elements
  <2>2. \A o \in U!Counted :
          Own(tHeld, uKept', tLost', o) = Own(tHeld, <<>>, tLost, o) + U!Times(a, o)
    <3> SUFFICES ASSUME NEW o \in U!Counted
                 PROVE  Own(tHeld, uKept', tLost', o)
                          = Own(tHeld, <<>>, tLost, o) + U!Times(a, o)
      OBVIOUS
    <3>1. U!Times(<<>>, o) = 0 /\ U!Times(a, o) \in Nat
      BY <1>7, TimesFew
    <3>2. CASE U!unit.counted
      <4>1. uKept' = a /\ (o \in Tables => tLost'[o] = tLost[o])
        BY <1>2, <1>11, <3>2
      <4> QED
        BY <1>11, <3>1, <4>1, SMT DEF Own
    <3>3. CASE ~U!unit.counted
      <4>1. uKept' = <<>> /\ (o \in Tables => tLost'[o] = tLost[o] + U!Times(a, o))
        BY <1>2, <1>11, <3>3
      <4>2. o \notin Tables => U!Times(a, o) = 0
        BY <1>6, <1>7, <3>3, SMT DEF U!Counted
      <4> QED
        BY <1>11, <3>1, <4>1, <4>2, SMT DEF Own
    <3> QED
      BY <3>2, <3>3
  <2>3. tRef'[Arr] > 0 <=> U!Released(uKept)[Arr] > 0
    BY <1>1, <1>7, <1>9, <1>10, <1>15, <2>1, SMT
  <2>4. Listed(uKept', U!Counted)
    BY <1>2, <1>6, <1>8
  <2>5. \A o \in U!Counted :
          tRef'[o] = U!Released(uKept)[o]
                       + (Own(tHeld, uKept', tLost', o) - Own(tHeld, <<>>, tLost, o))
    <3>1. \A o \in U!Counted : Own(tHeld, <<>>, tLost, o) \in Int
      BY <1>8, <1>11, TimesType DEF Own
    <3> QED
      BY <1>7, <1>10, <2>2, <3>1, SMT
  <2>6. Balanced(U!Released(uKept), tHeld, tArr, <<>>, tLost)
    BY <1>14, <2>1
  <2> QED
    BY <1>1, <1>8, <1>11, <2>3, <2>4, <2>5, <2>6, BalancesMore
<1>17. SpPlaced' /\ (SpWhole /\ ~Spoiled' => SpWhole')
  <2>1. ~Spoiled' => \A t \in Tables : tRef'[t] > 0 => U!Released(uKept)[t] > 0
    BY <1>1, <1>7, <1>9, <1>10, <1>15, SMT
  <2>2. \A o \in U!Counted : tRef'[o] \in Int /\ U!Released(uKept)[o] <= tRef'[o]
    BY <1>10
  <2> QED
    BY <1>1, <1>2, <1>4, <1>5, <2>1, <2>2, ReleasePlaces
<1>18. SpClean'
  <2>1. SUFFICES ASSUME uMisuse' = {}
                 PROVE  uFault' = "none" /\ (uOsc' = "half" => ~uIsInit') /\ SpWhole' /\ SpUsed'
    BY DEF SpClean
  <2>2. uFault = "none" /\ SpWhole /\ ~Spoiled'
    BY <1>1, <1>4, <2>1 DEF SpClean
  <2>3. uFault' = "none"
    BY <1>1, <1>2, <1>5, <1>15, <2>2, ReleaseSafe
  <2>4. SpUsed'
    <3>1. ASSUME NEW m \in uUsed'
          PROVE  m # 0 /\ \E t \in Tables : tSlot[t] = m /\ Keeps(uKept', tArr, tLost', t)
      <4>1. m # 0 /\ m \in U!TablesOf(a)
        BY <1>4, <2>1, <3>1
      <4>2. PICK t \in Tables :
              /\ tSlot[t] = m
              /\ \/ \E i \in DOMAIN a : a[i] = t
                 \/ U!unit.counted /\ (\E i \in DOMAIN a : a[i] = Arr)
                                   /\ \E j \in DOMAIN tArr : tArr[j] = t
        BY <1>6, <4>1
      <4>3. CASE U!unit.counted
        <5>1. uKept' = a
          BY <1>2, <4>3
        <5> QED
          BY <4>1, <4>2, <5>1 DEF Keeps
      <4>4. CASE ~U!unit.counted
        <5>1. U!Times(a, t) > 0 /\ U!Times(a, t) \in Nat
          BY <1>7, <4>2, <4>4
        <5>2. tLost'[t] > 0
          BY <1>2, <1>11, <4>4, <5>1, SMT
        <5> QED
          BY <4>1, <4>2, <5>2 DEF Keeps
      <4> QED
        BY <4>3, <4>4
    <3> QED
      BY <1>2, <3>1 DEF SpUsed, Keeps
  <2> QED
    BY <1>2, <1>17, <2>2, <2>3, <2>4
<1> QED
  BY <1>12, <1>13, <1>16, <1>17, <1>18 DEF SpInv

(* The library refuses (soundpipe.c:2120-2124): unless an init had         *)
(* succeeded before, nothing was kept and nothing is released.             *)
LEMMA InitFailsSpInv ==
  ASSUME SpInv, NEW a \in U!Arguments, U!InitFails(a)
  PROVE  SpInv'
<1> DEFINE more(o) == IF U!unit.counted THEN 0 ELSE U!Times(a, o)
<1>1. /\ SpTyped /\ SpStages /\ SpBalance /\ SpPlaced /\ SpClean
      /\ Tables \subseteq U!Counted /\ Arr \in U!Counted /\ Arr \notin Tables
  BY UnitsAssumption DEF SpInv, U!Counted, U!SoundpipeAssumption
<1>2. /\ uLife = "live" /\ U!unit.late
      /\ tRef' = [o \in U!Counted |-> U!Released(U!Old)[o] + more(o)]
      /\ tDead' = tDead \cup U!Destroyed(U!Old)
      /\ uFault' = IF uFault = "none" THEN U!ReleaseFault(U!Old) ELSE uFault
      /\ tLost' = [t \in Tables |-> tLost[t] + more(t)]
      /\ uOsc' = "half"
      /\ UNCHANGED <<uClass, uLife, uIsInit, uKept, uUsed, tSlot, tMade, tArr, tHeld, tSpilled>>
      /\ U!unit' = U!unit
  BY DEF U!InitFails, U!Live, U!Fault, U!unit
<1>3. uMisuse' = uMisuse \cup (U!Retry \cup U!If(uIsInit, "refail"))
  BY DEF U!InitFails, U!Misuse
<1>4. /\ Spoiled => Spoiled'
      /\ ~Spoiled' => ~uIsInit
      /\ uMisuse' = {} => uMisuse = {} /\ ~Spoiled'
  BY <1>3 DEF U!Retry, U!If, Spoiled
<1>5. U!Old = uKept /\ Listed(uKept, U!Counted)
  BY <1>1, <1>2, OldIsKept DEF SpTyped
<1>6. ~Spoiled' => uKept = <<>> /\ uUsed = {}
  BY <1>1, <1>4 DEF SpStages
<1>7. /\ Listed(a, U!Counted)
      /\ \A i \in DOMAIN a : a[i] \in U!Reachable
      /\ ~U!unit.counted => \A i \in DOMAIN a : a[i] # Arr
  BY <1>1, ArgumentsAre
<1>8. \A o : /\ more(o) \in Nat
             /\ more(o) > 0 => ~U!unit.counted /\ \E i \in DOMAIN a : a[i] = o
  BY <1>7, TimesType
<1>9. more(Arr) = 0 /\ \A o \in U!Counted : more(o) > 0 => o \in Tables
  BY <1>7, <1>8, SMT DEF U!Counted
<1> HIDE DEF more
<1>10. U!Released(uKept) \in [U!Counted -> Int]
  BY <1>1, <1>5, ReleasedIs
<1>11. /\ tRef' \in [U!Counted -> Int]
       /\ \A o \in U!Counted : /\ tRef'[o] = U!Released(uKept)[o] + more(o)
                               /\ U!Released(uKept)[o] <= tRef'[o]
  BY <1>2, <1>5, <1>8, <1>10
<1>12. tLost \in [Tables -> Nat] /\ tLost' \in [Tables -> Nat]
  BY <1>1, <1>2, <1>8 DEF SpTyped
<1>13. SpTyped'
  <2>1. U!Destroyed(uKept) \subseteq 1 .. tMade
    BY <1>1, <1>5, DestroyedAre
  <2>2. U!Counted' = U!Counted /\ U!Classes' = U!Classes
    OBVIOUS
  <2> QED
    BY <1>1, <1>2, <1>5, <1>11, <1>12, <2>1, <2>2 DEF SpTyped, Listed
<1>14. SpStages'
  BY <1>1, <1>2 DEF SpTyped, SpStages
<1>15. ASSUME ~Spoiled'
       PROVE  /\ Balanced(U!Released(uKept), tHeld, tArr, uKept, tLost)
              /\ \A o \in U!Counted : /\ U!Released(uKept)[o] \in Nat
                                      /\ more(o) > 0 => U!Released(uKept)[o] > 0
  <2>1. Balanced(tRef, tHeld, tArr, uKept, tLost)
    BY <1>1, <1>2, <1>4, <1>15 DEF SpBalance, ByUnit
  <2>2. U!Times(uKept, Arr) = 0 /\ \A o : U!Times(uKept, o) = 0
    BY <1>6, <1>15, TimesFew
  <2>3. \A o \in U!Counted :
          tRef[o] = (Own(tHeld, uKept, tLost, o) + U!Times(uKept, o)) + Elements(tRef, tArr, o)
    <3>1. \A o \in U!Counted : Own(tHeld, uKept, tLost, o) \in Int
      BY <1>5, <1>12, TimesType DEF Own
    <3> QED
      BY <2>1, <2>2, <3>1 DEF Balanced
  <2>4. Balanced(U!Released(uKept), tHeld, tArr, uKept, tLost)
    BY <1>1, <1>5, <1>12, <2>3, ReleaseBalances
  <2>5. \A o \in U!Reachable : U!Released(uKept)[o] > 0
    BY <1>1, <1>5, <1>12, <2>4, ReachableCounted
  <2>6. \A o \in U!Counted : U!Released(uKept)[o] \in Nat
    BY <1>1, <1>5, <1>12, <2>4, BalancedCounts DEF SpTyped
  <2> QED
    BY <1>7, <1>8, <2>4, <2>5, <2>6
<1>16. SpBalance'
  <2>1. SUFFICES ASSUME ~Spoiled' PROVE Balanced(tRef', tHeld, tArr, uKept, tLost')
    BY <1>2 DEF SpBalance, ByUnit, Balanced, Own, Elements
  <2>2. \A o \in U!Counted : /\ Own(tHeld, uKept, tLost, o) \in Int
                             /\ Own(tHeld, uKept, tLost', o)
                                  = Own(tHeld, uKept, tLost, o) + more(o)
    <3> SUFFICES ASSUME NEW o \in U!Counted
                 PROVE  /\ Own(tHeld, uKept, tLost, o) \in Int
                        /\ Own(tHeld, uKept, tLost', o)
                             = Own(tHeld, uKept, tLost, o) + more(o)
      OBVIOUS
    <3>1. U!Times(uKept, o) \in Nat /\ more(o) \in Nat
      BY <1>5, <1>8, TimesType
    <3>2. o \in Tables => tLost'[o] = tLost[o] + more(o)
      BY <1>2
    <3>3. o \notin Tables => more(o) = 0
      BY <1>8, <1>9, SMT
    <3> QED
      BY <1>12, <3>1, <3>2, <3>3, SMT DEF Own
  <2>3. tRef'[Arr] > 0 <=> U!Released(uKept)[Arr] > 0
    BY <1>1, <1>9, <1>10, <1>11, SMT
  <2>4. \A o \in U!Counted :
          tRef'[o] = U!Released(uKept)[o]
                       + (Own(tHeld, uKept, tLost', o) - Own(tHeld, uKept, tLost, o))
    BY <1>8, <1>11, <2>2, SMT
  <2>5. Balanced(U!Released(uKept), tHeld, tArr, uKept, tLost)
    BY <1>15, <2>1
  <2> QED
    BY <1>1, <1>5, <1>12, <2>3, <2>4, <2>5, BalancesMore
<1>17. SpPlaced' /\ (SpWhole /\ ~Spoiled' => SpWhole')
  <2>1. ~Spoiled' => \A t \in Tables : tRef'[t] > 0 => U!Released(uKept)[t] > 0
    BY <1>1, <1>8, <1>10, <1>11, <1>15, SMT
  <2>2. \A o \in U!Counted : tRef'[o] \in Int /\ U!Released(uKept)[o] <= tRef'[o]
    BY <1>11
  <2> QED
    BY <1>1, <1>2, <1>4, <1>5, <2>1, <2>2, ReleasePlaces
<1>18. SpClean'
  <2>1. SUFFICES ASSUME uMisuse' = {}
                 PROVE  uFault' = "none" /\ (uOsc' = "half" => ~uIsInit') /\ SpWhole' /\ SpUsed'
    BY DEF SpClean
  <2>2. uFault = "none" /\ SpWhole /\ ~Spoiled'
    BY <1>1, <1>4, <2>1 DEF SpClean
  <2>3. uFault' = "none"
    BY <1>1, <1>2, <1>5, <1>15, <2>2, ReleaseSafe
  <2>4. SpUsed' /\ ~uIsInit'
    BY <1>2, <1>4, <1>6, <2>2 DEF SpUsed
  <2> QED
    BY <1>17, <2>2, <2>3, <2>4
<1> QED
  BY <1>13, <1>14, <1>16, <1>17, <1>18 DEF SpInv

(* The destructor (soundpipe.c:1230-1239) and a variable that goes out of  *)
(* scope release what they held, and nothing else changes for the tables.  *)
LEMMA GivesBack ==
  ASSUME SpInv, NEW s, Listed(s, U!Counted),
         NEW h, h \subseteq tHeld, NEW k, Listed(k, U!Counted),
         \A o \in U!Counted :
           Own(tHeld, ByUnit, tLost, o) = Own(h, k, tLost, o) + U!Times(s, o),
         tRef' = U!Released(s), tDead' = tDead \cup U!Destroyed(s),
         UNCHANGED <<uMisuse, tSlot, tMade, tArr, tLost, tSpilled>>
  PROVE  /\ tRef' \in [U!Counted -> Int] /\ tDead' \subseteq 1 .. tMade
         /\ ~Spoiled => Balanced(tRef', h, tArr, k, tLost)
         /\ SpPlaced'
         /\ uMisuse = {} => SpWhole' /\ U!ReleaseFault(s) = "none"
<1>1. SpTyped /\ SpBalance /\ SpPlaced /\ SpClean /\ tLost \in [Tables -> Nat]
  BY DEF SpInv, SpTyped
<1>2. tRef' \in [U!Counted -> Int] /\ tDead' \subseteq 1 .. tMade
  <2>1. U!Destroyed(s) \subseteq 1 .. tMade
    BY <1>1, DestroyedAre
  <2> QED
    BY <1>1, <2>1, ReleasedIs DEF SpTyped
<1>3. ASSUME ~Spoiled PROVE Balanced(tRef', h, tArr, k, tLost)
  <2>1. \A o \in U!Counted :
          tRef[o] = (Own(h, k, tLost, o) + U!Times(s, o)) + Elements(tRef, tArr, o)
    BY <1>1, <1>3 DEF SpBalance, Balanced
  <2> QED
    BY <1>1, <2>1, ReleaseBalances
<1>4. SpPlaced' /\ (SpWhole /\ ~Spoiled' => SpWhole')
  <2>1. Spoiled' <=> Spoiled
    BY DEF Spoiled
  <2>2. \A o \in U!Counted : tRef'[o] \in Int /\ U!Released(s)[o] <= tRef'[o]
    BY <1>2
  <2>3. \A t \in Tables : tRef'[t] > 0 => U!Released(s)[t] > 0
    OBVIOUS
  <2> QED
    BY <1>1, <2>1, <2>2, <2>3, ReleasePlaces
<1>5. ASSUME uMisuse = {} PROVE SpWhole' /\ U!ReleaseFault(s) = "none"
  <2>1. ~Spoiled /\ ~Spoiled' /\ SpWhole
    BY <1>1, <1>5 DEF Spoiled, SpClean
  <2>2. \A o \in U!Counted : U!Released(s)[o] \in Nat
    <3>1. Balanced(U!Released(s), h, tArr, k, tLost)
      BY <1>3, <2>1
    <3> QED
      BY <1>1, <3>1, BalancedCounts DEF SpTyped
  <2> QED
    BY <1>1, <1>4, <2>1, <2>2, ReleaseSafe
<1> QED
  BY <1>2, <1>3, <1>4, <1>5

(* The destructor (soundpipe.c:1230-1239): the unit keeps nothing more.    *)
LEMMA UnitDtorSpInv ==
  ASSUME SpInv, U!Dtor
  PROVE  SpInv'
<1>1. SpTyped /\ SpStages /\ SpBalance /\ SpPlaced /\ SpClean
  BY DEF SpInv
<1> DEFINE s == IF uIsInit /\ U!unit.counted THEN uKept ELSE <<>>
<1>2. /\ uLife = "live" /\ uLife' = "gone"
      /\ uOsc' = IF U!unit.late /\ ~uIsInit THEN uOsc ELSE "null"
      /\ tRef' = U!Released(s) /\ tDead' = tDead \cup U!Destroyed(s)
      /\ UNCHANGED <<uMisuse, tSlot, tMade, tArr, tLost, tSpilled>>
      /\ UNCHANGED <<uClass, uIsInit, uKept, uUsed, tHeld>>
      /\ U!unit' = U!unit
  BY DEF U!Dtor, U!Live, U!unit
<1>3. \/ uFault' = IF uFault = "none" THEN U!ReleaseFault(s) ELSE uFault
      \/ uIsInit /\ uOsc = "half"
  BY DEF U!Dtor, U!Fault
<1>4. s = uKept /\ Listed(uKept, U!Counted)
  BY <1>1 DEF SpTyped, SpStages
<1> HIDE DEF s
<1>5. \A o \in U!Counted :
        Own(tHeld, ByUnit, tLost, o) = Own(tHeld, <<>>, tLost, o) + U!Times(uKept, o)
  <2> SUFFICES ASSUME NEW o \in U!Counted
               PROVE  Own(tHeld, uKept, tLost, o)
                        = Own(tHeld, <<>>, tLost, o) + U!Times(uKept, o)
    BY <1>2 DEF ByUnit
  <2>1. U!Times(uKept, o) \in Nat /\ U!Times(<<>>, o) = 0
    BY <1>4, TimesType, TimesFew
  <2>2. tLost \in [Tables -> Nat]
    BY <1>1 DEF SpTyped
  <2> QED
    BY <2>1, <2>2, SMT DEF Own
<1>6. /\ tRef' \in [U!Counted -> Int] /\ tDead' \subseteq 1 .. tMade
      /\ ~Spoiled => Balanced(tRef', tHeld, tArr, <<>>, tLost)
      /\ SpPlaced'
      /\ uMisuse = {} => SpWhole' /\ U!ReleaseFault(uKept) = "none"
  BY <1>2, <1>4, <1>5, GivesBack, ListedFew
<1>7. SpTyped'
  <2>1. U!Counted' = U!Counted /\ U!Classes' = U!Classes
    OBVIOUS
  <2> QED
    BY <1>1, <1>2, <1>6, <2>1 DEF SpTyped, Listed
<1>8. SpStages'
  BY <1>1, <1>2 DEF SpTyped, SpStages
<1>9. SpBalance'
  BY <1>2, <1>6 DEF SpBalance, ByUnit, Balanced, Own, Elements, Spoiled
<1>10. SpClean'
  BY <1>1, <1>2, <1>3, <1>4, <1>6 DEF SpClean, SpUsed
<1> QED
  BY <1>6, <1>7, <1>8, <1>9, <1>10 DEF SpInv

(* A variable goes out of scope; what the library was given stays kept.    *)
LEMMA ForgetSpInv ==
  ASSUME SpInv, NEW o \in U!Counted, U!Forget(o)
  PROVE  SpInv'
<1>1. SpTyped /\ SpStages /\ SpBalance /\ SpPlaced /\ SpClean
  BY DEF SpInv
<1>2. /\ o \in tHeld /\ tHeld' = tHeld \ {o}
      /\ tRef' = U!Released(<<o>>) /\ tDead' = tDead \cup U!Destroyed(<<o>>)
      /\ uFault' = IF uFault = "none" THEN U!ReleaseFault(<<o>>) ELSE uFault
      /\ UNCHANGED <<uMisuse, tSlot, tMade, tArr, tLost, tSpilled>>
      /\ UNCHANGED <<uClass, uLife, uOsc, uIsInit, uKept, uUsed>>
      /\ U!unit' = U!unit
  BY DEF U!Forget, U!Fault, U!unit, U!unitVars
<1>3. Listed(<<o>>, U!Counted) /\ Listed(ByUnit, U!Counted)
  BY <1>1, ListedFew DEF SpTyped, ByUnit
<1>4. \A x \in U!Counted :
        Own(tHeld, ByUnit, tLost, x) = Own(tHeld', ByUnit, tLost, x) + U!Times(<<o>>, x)
  <2> SUFFICES ASSUME NEW x \in U!Counted
               PROVE  Own(tHeld, ByUnit, tLost, x)
                        = Own(tHeld', ByUnit, tLost, x) + U!Times(<<o>>, x)
    OBVIOUS
  <2>1. U!Times(ByUnit, x) \in Nat /\ U!Times(<<o>>, x) = IF o = x THEN 1 ELSE 0
    BY <1>3, TimesType, TimesFew
  <2>2. tLost \in [Tables -> Nat]
    BY <1>1 DEF SpTyped
  <2> QED
    BY <1>2, <2>1, <2>2, SMT DEF Own
<1>5. /\ tRef' \in [U!Counted -> Int] /\ tDead' \subseteq 1 .. tMade
      /\ ~Spoiled => Balanced(tRef', tHeld', tArr, ByUnit, tLost)
      /\ SpPlaced'
      /\ uMisuse = {} => SpWhole' /\ U!ReleaseFault(<<o>>) = "none"
  BY <1>2, <1>3, <1>4, GivesBack
<1>6. SpTyped'
  <2>1. U!Counted' = U!Counted /\ U!Classes' = U!Classes
    OBVIOUS
  <2> QED
    BY <1>1, <1>2, <1>5, <2>1 DEF SpTyped, Listed
<1>7. SpStages'
  BY <1>1, <1>2 DEF SpTyped, SpStages
<1>8. SpBalance'
  BY <1>2, <1>5 DEF SpBalance, ByUnit, Balanced, Own, Elements, Spoiled
<1>9. SpClean'
  BY <1>1, <1>2, <1>5 DEF SpClean, SpUsed, Keeps
<1> QED
  BY <1>5, <1>6, <1>7, <1>8, <1>9 DEF SpInv

(* A step that leaves the tables and their counts alone.                   *)
LEMMA TablesStay ==
  ASSUME SpInv, UNCHANGED U!tableVars, UNCHANGED <<uClass, uIsInit, uKept, uUsed>>,
         uMisuse \subseteq uMisuse',
         \/ UNCHANGED <<uLife, uOsc>>
         \/ /\ uLife = "none" /\ uLife' = "live"
            /\ uOsc' = IF U!unit.late THEN "null" ELSE "made",
         uMisuse' = {} => uFault' = "none"
  PROVE  SpInv'
<1>1. SpTyped /\ SpStages /\ SpBalance /\ SpPlaced /\ SpClean
  BY DEF SpInv
<1>2. /\ UNCHANGED <<tSlot, tMade, tDead, tArr, tRef, tHeld, tLost, tSpilled>>
      /\ U!unit' = U!unit
  BY DEF U!tableVars, U!unit
<1>3. uLife = "none" => ~uIsInit /\ uKept = <<>> /\ uUsed = {}
  BY <1>1 DEF SpStages
<1>4. SpTyped'
  <2>1. U!Counted' = U!Counted /\ U!Classes' = U!Classes
    OBVIOUS
  <2> QED
    BY <1>1, <1>2, <2>1 DEF SpTyped, Listed
<1>5. SpStages'
  BY <1>1, <1>2, <1>3 DEF SpTyped, SpStages
<1>6. Spoiled => Spoiled'
  BY DEF Spoiled
<1>7. SpBalance' /\ SpPlaced'
  <2>1. ByUnit' = ByUnit
    BY <1>3 DEF ByUnit
  <2>2. SpBalance'
    BY <1>1, <1>2, <1>6, <2>1 DEF SpBalance, Balanced, Own, Elements
  <2>3. SpPlaced'
    BY <1>1, <1>2, <1>6 DEF SpPlaced
  <2> QED
    BY <2>2, <2>3
<1>8. SpClean'
  <2>1. SUFFICES ASSUME uMisuse' = {}
                 PROVE  (uOsc' = "half" => ~uIsInit') /\ SpWhole' /\ SpUsed'
    BY DEF SpClean
  <2>2. (uOsc = "half" => ~uIsInit) /\ SpWhole /\ SpUsed
    BY <1>1, <2>1 DEF SpClean
  <2>3. SpWhole'
    BY <1>2, <2>2 DEF SpWhole
  <2>4. SpUsed'
    BY <1>2, <1>3, <2>2 DEF SpUsed, Keeps
  <2> QED
    BY <2>2, <2>3, <2>4
<1> QED
  BY <1>4, <1>5, <1>7, <1>8 DEF SpInv

(* The constructor (soundpipe.c:1221-1228).                                *)
LEMMA UnitCtorSpInv ==
  ASSUME SpInv, U!Ctor
  PROVE  SpInv'
<1>1. /\ UNCHANGED U!tableVars /\ UNCHANGED <<uClass, uIsInit, uKept, uUsed, uMisuse, uFault>>
      /\ uLife = "none" /\ uLife' = "live"
      /\ uOsc' = IF U!unit.late THEN "null" ELSE "made"
  BY DEF U!Ctor, U!tableVars
<1>2. uMisuse' = {} => uFault' = "none"
  BY <1>1 DEF SpInv, SpClean
<1> QED
  BY <1>1, <1>2, TablesStay

(* A tick that computes has an oscillator, and tables that are alive.      *)
LEMMA TickSpInv ==
  ASSUME SpInv, U!TickUnit
  PROVE  SpInv'
<1>1. SpTyped /\ SpStages /\ SpBalance /\ SpPlaced /\ SpClean
  BY DEF SpInv
<1>2. /\ uLife = "live"
      /\ UNCHANGED U!tableVars
      /\ UNCHANGED <<uClass, uIsInit, uKept, uUsed, uMisuse, uLife, uOsc>>
      /\ uFault' = IF uFault = "none"
                   THEN IF U!unit.late /\ ~uIsInit THEN "none" ELSE U!ComputeFault
                   ELSE uFault
  BY DEF U!TickUnit, U!Live, U!Fault, U!unitVars
<1>3. ASSUME uMisuse = {}, ~(U!unit.late /\ ~uIsInit) PROVE U!ComputeFault = "none"
  <2>1. (uOsc = "half" => ~uIsInit) /\ SpWhole /\ SpUsed /\ ~Spoiled
    BY <1>1, <1>3 DEF SpClean, Spoiled
  <2>2. uOsc = "made"
    BY <1>1, <1>2, <1>3, <2>1 DEF SpTyped, SpStages
  <2>3. \A t \in Tables : Keeps(uKept, tArr, tLost, t) => tSlot[t] \notin tDead
    <3>1. Balanced(tRef, tHeld, tArr, uKept, tLost)
      BY <1>1, <1>2, <2>1 DEF SpBalance, ByUnit
    <3>2. \A t \in Tables : Keeps(uKept, tArr, tLost, t) => tRef[t] > 0
      BY <1>1, <3>1, BalancedCounts DEF SpTyped
    <3> QED
      BY <2>1, <3>2 DEF SpWhole
  <2>4. \A n \in uUsed : n # 0 /\ n \notin tDead /\ n \in 0 .. tMade
    <3>1. \A n \in uUsed : n # 0 /\ (n \in tSpilled \/ \E t \in Tables :
                                          tSlot[t] = n /\ Keeps(uKept, tArr, tLost, t))
      BY <1>2, <2>1 DEF SpUsed
    <3>2. \A n \in tSpilled : n \notin tDead /\ n \in 0 .. tMade
      BY <1>1, <2>1, SMT DEF SpTyped, SpWhole
    <3>3. \A t \in Tables : tSlot[t] \in 0 .. tMade
      BY <1>1 DEF SpTyped
    <3> QED
      BY <2>3, <3>1, <3>2, <3>3
  <2>5. U!Beyond \notin uUsed
    <3>1. tMade \in 0 .. MaxTables /\ MaxTables \in Nat
      BY <1>1, UnitsAssumption DEF SpTyped, U!SoundpipeAssumption
    <3> QED
      BY <2>4, <3>1, SMT DEF U!Beyond
  <2> QED
    BY <2>2, <2>4, <2>5 DEF U!ComputeFault
<1>4. uMisuse' = {} => uFault' = "none"
  BY <1>1, <1>2, <1>3 DEF SpClean
<1> QED
  BY <1>2, <1>4, TablesStay

(* A getter or setter: early, it is a misuse (soundpipe.c:2134-2146).      *)
LEMMA AccessSpInv ==
  ASSUME SpInv, U!Access
  PROVE  SpInv'
<1>1. /\ UNCHANGED U!tableVars
      /\ UNCHANGED <<uClass, uIsInit, uKept, uUsed, uLife, uOsc>>
      /\ uMisuse' = uMisuse \cup U!If(uOsc = "null", "early")
      /\ uFault' = IF uFault = "none" THEN IF uOsc = "null" THEN "null" ELSE "none"
                                      ELSE uFault
  BY DEF U!Access, U!Fault, U!Misuse, U!unitVars
<1>2. uMisuse' = {} => uFault' = "none"
  BY <1>1 DEF SpInv, SpClean, U!If
<1> QED
  BY <1>1, <1>2, TablesStay

(* A null argument is a misuse (soundpipe.c:2110, 2749, 2810).             *)
LEMMA NullSpInv ==
  ASSUME SpInv, U!InitNull \/ \E t \in Tables : U!GenNull(t)
  PROVE  SpInv'
<1>1. /\ UNCHANGED U!tableVars
      /\ UNCHANGED <<uClass, uIsInit, uKept, uUsed, uLife, uOsc>>
      /\ uMisuse' = uMisuse \cup {"null"}
  BY DEF U!InitNull, U!GenNull, U!Misuse, U!unitVars
<1>2. uMisuse' # {}
  BY <1>1
<1> QED
  BY <1>1, <1>2, TablesStay

-----------------------------------------------------------------------------
(* Soundpipe: generators                                                   *)

(* What every generator called on t does: the table t had is destroyed,    *)
(* and gen_padsynth counts another one for ever.                           *)
Generates(t) ==
  /\ t \in U!Reachable
  /\ tDead' = tDead \cup ({tSlot[t]} \ {0})
  /\ UNCHANGED <<uClass, uLife, uOsc, uIsInit, uKept, uUsed, tArr, tHeld>>
  /\ uMisuse \subseteq uMisuse'
  /\ uMisuse' = {} => ~U!InUse(t)
  /\ \/ UNCHANGED <<tRef, tLost>>
     \/ \E amps \in Tables : /\ amps \in U!Reachable
                             /\ tRef' = [tRef EXCEPT ![amps] = @ + 1]
                             /\ tLost' = [tLost EXCEPT ![amps] = @ + 1]

(* The counts stay balanced, and nothing that was freed is counted again.  *)
LEMMA GeneratesCounts ==
  ASSUME SpInv, NEW t \in Tables, Generates(t)
  PROVE  /\ tRef' \in [U!Counted -> Int] /\ tLost' \in [Tables -> Nat]
         /\ \A u \in Tables : tRef[u] <= tRef'[u] /\ tLost[u] <= tLost'[u]
         /\ Spoiled => Spoiled'
         /\ ~Spoiled' => /\ tRef[t] > 0
                         /\ \A u \in U!Reachable : tRef[u] > 0
                         /\ \A u \in Tables : tRef'[u] > 0 => tRef[u] > 0
         /\ SpBalance'
<1>1. /\ SpTyped /\ SpBalance
      /\ tRef \in [U!Counted -> Int] /\ tLost \in [Tables -> Nat]
      /\ Tables \subseteq U!Counted /\ Arr \in U!Counted /\ Arr \notin Tables
  BY UnitsAssumption DEF SpInv, SpTyped, U!Counted, U!SoundpipeAssumption
<1>2. /\ UNCHANGED <<uLife, uKept, tArr, tHeld>>
      /\ uMisuse \subseteq uMisuse' /\ t \in U!Reachable
  BY DEF Generates
<1>3. Spoiled => Spoiled'
  BY <1>2 DEF Spoiled
<1>4. Listed(ByUnit, U!Counted)
  BY <1>1, ListedFew DEF SpTyped, ByUnit
<1>5. ASSUME ~Spoiled' PROVE Balanced(tRef, tHeld, tArr, ByUnit, tLost)
  BY <1>1, <1>3, <1>5 DEF SpBalance
<1>6. ~Spoiled' => \A u \in U!Reachable : tRef[u] > 0
  BY <1>1, <1>4, <1>5, ReachableCounted
<1>7. CASE UNCHANGED <<tRef, tLost>>
  <2>1. SpBalance'
    BY <1>2, <1>5, <1>7 DEF SpBalance, ByUnit, Balanced, Own, Elements
  <2>2. \A u \in Tables : tRef[u] <= tRef'[u] /\ tLost[u] <= tLost'[u]
    BY <1>1, <1>7, SMT
  <2> QED
    BY <1>1, <1>2, <1>3, <1>6, <1>7, <2>1, <2>2
<1>8. ASSUME NEW amps \in Tables, amps \in U!Reachable,
             tRef' = [tRef EXCEPT ![amps] = @ + 1],
             tLost' = [tLost EXCEPT ![amps] = @ + 1]
      PROVE  /\ tRef' \in [U!Counted -> Int] /\ tLost' \in [Tables -> Nat]
             /\ \A u \in Tables : tRef[u] <= tRef'[u] /\ tLost[u] <= tLost'[u]
             /\ ~Spoiled' => \A u \in Tables : tRef'[u] > 0 => tRef[u] > 0
             /\ SpBalance'
  <2>1. tRef' \in [U!Counted -> Int] /\ tLost' \in [Tables -> Nat]
    BY <1>1, <1>8, SMT
  <2>2. \A u \in Tables : tRef[u] <= tRef'[u] /\ tLost[u] <= tLost'[u]
    BY <1>1, <1>8, SMT
  <2>3. ~Spoiled' => \A u \in Tables : tRef'[u] > 0 => tRef[u] > 0
    BY <1>1, <1>6, <1>8
  <2>4. SpBalance'
    <3>1. SUFFICES ASSUME ~Spoiled' PROVE Balanced(tRef', tHeld, tArr, ByUnit, tLost')
      BY <1>2 DEF SpBalance, ByUnit, Balanced, Own, Elements
    <3>2. tRef'[Arr] > 0 <=> tRef[Arr] > 0
      BY <1>1, <1>8
    <3>3. \A o \in U!Counted :
            tRef'[o] = tRef[o] + (Own(tHeld, ByUnit, tLost', o) - Own(tHeld, ByUnit, tLost, o))
      <4> SUFFICES ASSUME NEW o \in U!Counted
                   PROVE  tRef'[o] = tRef[o] + (Own(tHeld, ByUnit, tLost', o)
                                                  - Own(tHeld, ByUnit, tLost, o))
        OBVIOUS
      <4>1. U!Times(ByUnit, o) \in Nat
        BY <1>4, TimesType
      <4>2. tRef'[o] = tRef[o] + IF o = amps THEN 1 ELSE 0
        BY <1>1, <1>8, SMT
      <4>3. o \in Tables => tLost'[o] = tLost[o] + IF o = amps THEN 1 ELSE 0
        BY <1>1, <1>8, SMT
      <4> QED
        BY <1>1, <1>8, <4>1, <4>2, <4>3, SMT DEF Own
    <3>4. Balanced(tRef, tHeld, tArr, ByUnit, tLost)
      BY <1>5, <3>1
    <3> QED
      BY <1>1, <1>4, <2>1, <3>2, <3>3, <3>4, BalancesMore
  <2> QED
    BY <2>1, <2>2, <2>3, <2>4
<1> QED
  BY <1>2, <1>3, <1>6, <1>7, <1>8 DEF Generates

(* The invariant after a generator, from what it does with its new tables. *)
LEMMA GeneratesSpInv ==
  ASSUME SpInv, NEW t \in Tables, Generates(t),
         tMade' \in 0 .. MaxTables, tSlot' \in [Tables -> 0 .. tMade'],
         tDead' \subseteq 1 .. tMade', tSpilled' \subseteq 1 .. tMade',
         SpPlaced',
         uMisuse' = {} => uFault' = "none" /\ SpWhole' /\ SpUsed'
  PROVE  SpInv'
<1>1. SpTyped /\ SpStages /\ SpClean
  BY DEF SpInv
<1>2. /\ UNCHANGED <<uClass, uLife, uOsc, uIsInit, uKept, uUsed, tArr, tHeld>>
      /\ U!unit' = U!unit
      /\ uMisuse \subseteq uMisuse'
  BY DEF Generates, U!unit
<1>3. tRef' \in [U!Counted -> Int] /\ tLost' \in [Tables -> Nat] /\ SpBalance'
  BY GeneratesCounts
<1>4. SpTyped'
  <2>1. U!Counted' = U!Counted /\ U!Classes' = U!Classes
    OBVIOUS
  <2> QED
    BY <1>1, <1>2, <1>3, <2>1 DEF SpTyped, Listed
<1>5. SpStages'
  BY <1>1, <1>2 DEF SpTyped, SpStages
<1>6. SpClean'
  BY <1>1, <1>2 DEF SpClean
<1> QED
  BY <1>3, <1>4, <1>5, <1>6 DEF SpInv

(* A generator that refuses the size leaves the object a destroyed table.  *)
LEMMA RefusedPlaces ==
  ASSUME SpInv, NEW t \in Tables, Generates(t),
         UNCHANGED <<tSlot, tMade, tSpilled>>,
         uMisuse' = {} => tSlot[t] = 0
  PROVE  /\ tDead' \subseteq 1 .. tMade
         /\ SpPlaced'
         /\ uMisuse' = {} => SpWhole' /\ SpUsed'
<1>1. SpTyped /\ SpPlaced /\ SpClean
  BY DEF SpInv
<1>2. /\ tDead' = tDead \cup ({tSlot[t]} \ {0})
      /\ UNCHANGED <<uLife, uKept, uUsed, tArr>>
      /\ uMisuse \subseteq uMisuse'
  BY DEF Generates
<1>3. /\ \A u \in Tables : tRef[u] <= tRef'[u] /\ tLost[u] <= tLost'[u]
      /\ Spoiled => Spoiled'
      /\ ~Spoiled' => \A u \in Tables : tRef'[u] > 0 => tRef[u] > 0
      /\ tRef' \in [U!Counted -> Int] /\ tLost' \in [Tables -> Nat]
  BY GeneratesCounts
<1>4. /\ tRef \in [U!Counted -> Int] /\ tLost \in [Tables -> Nat]
      /\ Tables \subseteq U!Counted
      /\ tSlot \in [Tables -> 0 .. tMade] /\ tDead \subseteq 1 .. tMade /\ tMade \in Int
  BY <1>1 DEF SpTyped, U!Counted
<1>5. tDead' \subseteq 1 .. tMade
  <2>1. tSlot[t] # 0 => tSlot[t] \in 1 .. tMade
    BY <1>4
  <2> QED
    BY <1>2, <1>4, <2>1
<1>6. SpPlaced'
  <2>1. \A u \in Tables : tRef'[u] <= 0 => tRef[u] <= 0
    BY <1>3, <1>4, SMT
  <2> QED
    BY <1>1, <1>2, <1>3, <2>1 DEF SpPlaced
<1>7. ASSUME uMisuse' = {} PROVE SpWhole' /\ SpUsed'
  <2>1. uMisuse = {} /\ ~Spoiled' /\ SpWhole /\ SpUsed /\ tDead' = tDead
    BY <1>1, <1>2, <1>7 DEF SpClean, Spoiled
  <2>2. SpWhole'
    BY <1>3, <2>1 DEF SpWhole
  <2>3. SpUsed'
    <3>1. \A u \in Tables : Keeps(uKept, tArr, tLost, u) => Keeps(uKept, tArr, tLost', u)
      BY <1>3, <1>4, SMT DEF Keeps
    <3> QED
      BY <1>2, <2>1, <3>1 DEF SpUsed, Keeps
  <2> QED
    BY <2>2, <2>3
<1> QED
  BY <1>5, <1>6, <1>7

(* A generator gives the object a table that was never there before.       *)
LEMMA NewPlaces ==
  ASSUME SpInv, NEW t \in Tables, Generates(t),
         tMade < MaxTables, tMade' = tMade + 1,
         tSlot' = [tSlot EXCEPT ![t] = tMade + 1],
         UNCHANGED tSpilled
  PROVE  /\ tMade' \in 0 .. MaxTables /\ tSlot' \in [Tables -> 0 .. tMade']
         /\ tDead' \subseteq 1 .. tMade' /\ tSpilled' \subseteq 1 .. tMade'
         /\ SpPlaced'
         /\ uMisuse' = {} => SpWhole' /\ SpUsed'
<1>1. SpTyped /\ SpPlaced /\ SpClean
  BY DEF SpInv
<1>2. /\ tDead' = tDead \cup ({tSlot[t]} \ {0})
      /\ UNCHANGED <<uLife, uKept, uUsed, tArr>>
      /\ uMisuse \subseteq uMisuse'
      /\ uMisuse' = {} => ~U!InUse(t)
  BY DEF Generates
<1>3. /\ \A u \in Tables : tRef[u] <= tRef'[u] /\ tLost[u] <= tLost'[u]
      /\ Spoiled => Spoiled'
      /\ ~Spoiled' => tRef[t] > 0 /\ \A u \in Tables : tRef'[u] > 0 => tRef[u] > 0
      /\ tRef' \in [U!Counted -> Int] /\ tLost' \in [Tables -> Nat]
  BY GeneratesCounts
<1>4. /\ tRef \in [U!Counted -> Int] /\ tLost \in [Tables -> Nat]
      /\ Tables \subseteq U!Counted
      /\ tSlot \in [Tables -> 0 .. tMade] /\ tDead \subseteq 1 .. tMade
      /\ tSpilled \subseteq 1 .. tMade
      /\ tMade \in Nat /\ MaxTables \in Nat
  BY <1>1, UnitsAssumption DEF SpTyped, U!Counted, U!SoundpipeAssumption
<1>5. /\ tMade' \in 0 .. MaxTables /\ tSlot' \in [Tables -> 0 .. tMade']
      /\ tDead' \subseteq 1 .. tMade' /\ tSpilled' \subseteq 1 .. tMade'
  <2>1. tMade' \in 0 .. MaxTables /\ 1 .. tMade \subseteq 1 .. tMade'
    BY <1>4
  <2>2. tSlot' \in [Tables -> 0 .. tMade']
    BY <1>4
  <2>3. tSlot[t] # 0 => tSlot[t] \in 1 .. tMade
    BY <1>4
  <2> QED
    BY <1>2, <1>4, <2>1, <2>2, <2>3
<1>6. \A u \in Tables : tSlot'[u] = IF u = t THEN tMade + 1 ELSE tSlot[u]
  BY <1>4
<1>7. \A u \in Tables : tSlot[u] <= tMade
  BY <1>4
<1>8. SpPlaced'
  <2>1. \A u, v \in Tables : tSlot'[u] = tSlot'[v] => u = v \/ tSlot'[u] = 0
    BY <1>1, <1>4, <1>6, <1>7, SMT DEF SpPlaced
  <2>2. \A n \in 1 .. tMade' : n \in tDead' \cup tSpilled \/ \E u \in Tables : tSlot'[u] = n
    <3>1. ASSUME NEW n \in 1 .. tMade'
          PROVE  n \in tDead' \cup tSpilled \/ \E u \in Tables : tSlot'[u] = n
      <4>1. CASE n = tMade + 1
        BY <1>6, <4>1
      <4>2. CASE n # tMade + 1
        <5>1. n \in 1 .. tMade
          BY <1>4, <4>2, SMT
        <5>2. n \in tDead \cup tSpilled \/ \E u \in Tables : tSlot[u] = n
          BY <1>1, <5>1 DEF SpPlaced
        <5> QED
          BY <1>2, <1>6, <5>1, <5>2
      <4> QED
        BY <4>1, <4>2
    <3> QED
      BY <3>1
  <2>3. ASSUME ~Spoiled', NEW u \in Tables, tRef'[u] <= 0
        PROVE  tSlot'[u] \in tDead' \cup {0}
    <3>1. tRef[u] <= 0 /\ u # t
      BY <1>3, <1>4, <2>3, SMT
    <3> QED
      BY <1>1, <1>2, <1>3, <1>6, <2>3, <3>1 DEF SpPlaced
  <2> QED
    BY <2>1, <2>2, <2>3 DEF SpPlaced
<1>9. ASSUME uMisuse' = {} PROVE SpWhole' /\ SpUsed'
  <2>1. uMisuse = {} /\ ~Spoiled' /\ SpWhole /\ SpUsed
    BY <1>1, <1>2, <1>9 DEF SpClean, Spoiled
  <2>2. ASSUME NEW u \in Tables, tRef'[u] > 0 PROVE tSlot'[u] \notin tDead'
    <3>1. tRef[u] > 0
      BY <1>3, <2>1, <2>2
    <3>2. CASE u = t
      BY <1>2, <1>4, <1>6, <1>7, <3>2, SMT
    <3>3. CASE u # t
      BY <1>1, <1>2, <1>6, <2>1, <3>1, <3>3 DEF SpWhole, SpPlaced
    <3> QED
      BY <3>2, <3>3
  <2>3. ASSUME NEW n \in tSpilled PROVE n \notin tDead' /\ \A u \in Tables : tSlot'[u] # n
    <3>1. n \notin tDead /\ \A u \in Tables : tSlot[u] # n
      BY <2>1 DEF SpWhole
    <3>2. n # tMade + 1
      BY <1>4, SMT
    <3> QED
      BY <1>2, <1>6, <3>1, <3>2
  <2>4. SpUsed'
    <3>1. ASSUME uLife = "live", NEW n \in uUsed, n \notin tSpilled
          PROVE  n # 0 /\ \E u \in Tables : tSlot'[u] = n /\ Keeps(uKept, tArr, tLost', u)
      <4>1. n # 0
        BY <2>1, <3>1 DEF SpUsed
      <4>2. PICK u \in Tables : tSlot[u] = n /\ Keeps(uKept, tArr, tLost, u)
        BY <2>1, <3>1 DEF SpUsed
      <4>3. u # t
        BY <1>2, <1>9, <3>1, <4>1, <4>2 DEF U!InUse
      <4>4. Keeps(uKept, tArr, tLost', u)
        BY <1>3, <1>4, <4>2, SMT DEF Keeps
      <4> QED
        BY <1>6, <4>1, <4>2, <4>3, <4>4
    <3>2. uLife = "live" => \A n \in uUsed : n # 0
      BY <2>1 DEF SpUsed
    <3> QED
      BY <1>2, <3>1, <3>2 DEF SpUsed, Keeps
  <2> QED
    BY <2>2, <2>3, <2>4 DEF SpWhole
<1> QED
  BY <1>5, <1>8, <1>9

(* gen_scrambler makes two tables, and what the destination had is lost    *)
(* track of (soundpipe.c:2838-2851).                                       *)
Scrambles(t, d) ==
  /\ d \in U!Reachable
  /\ tMade + 1 < MaxTables
  /\ tMade' = tMade + 2
  /\ tSlot' = [tSlot EXCEPT ![d] = tMade + 2, ![t] = tMade + 1]
  /\ tSpilled' = tSpilled \cup IF d = t THEN {tMade + 2} ELSE {tSlot[d]} \ {0}

(* Both are new, and only a table that a misuse takes from the unit goes.  *)
LEMMA ScramblerPlaces ==
  ASSUME SpInv, NEW t \in Tables, Generates(t), NEW d \in Tables, Scrambles(t, d)
  PROVE  /\ tMade' \in 0 .. MaxTables /\ tSlot' \in [Tables -> 0 .. tMade']
         /\ tDead' \subseteq 1 .. tMade' /\ tSpilled' \subseteq 1 .. tMade'
         /\ SpPlaced'
         /\ uMisuse' = {} => SpWhole' /\ SpUsed'
<1>1. SpTyped /\ SpPlaced /\ SpClean
  BY DEF SpInv
<1>2. /\ tDead' = tDead \cup ({tSlot[t]} \ {0})
      /\ UNCHANGED <<uLife, uKept, uUsed, tArr>>
      /\ uMisuse \subseteq uMisuse'
      /\ uMisuse' = {} => ~U!InUse(t)
  BY DEF Generates
<1>3. /\ \A u \in Tables : tRef[u] <= tRef'[u] /\ tLost[u] <= tLost'[u]
      /\ Spoiled => Spoiled'
      /\ ~Spoiled' => /\ tRef[t] > 0 /\ tRef[d] > 0
                      /\ \A u \in Tables : tRef'[u] > 0 => tRef[u] > 0
      /\ tRef' \in [U!Counted -> Int] /\ tLost' \in [Tables -> Nat]
  BY GeneratesCounts DEF Scrambles
<1>4. /\ tRef \in [U!Counted -> Int] /\ tLost \in [Tables -> Nat]
      /\ Tables \subseteq U!Counted
      /\ tSlot \in [Tables -> 0 .. tMade] /\ tDead \subseteq 1 .. tMade
      /\ tSpilled \subseteq 1 .. tMade
      /\ tMade \in Nat /\ MaxTables \in Nat
  BY <1>1, UnitsAssumption DEF SpTyped, U!Counted, U!SoundpipeAssumption
<1>5. /\ tMade + 1 < MaxTables /\ tMade' = tMade + 2
      /\ tSlot' \in [Tables -> {tMade + 1, tMade + 2} \cup 0 .. tMade]
      /\ tSlot'[t] = tMade + 1
      /\ d # t => tSlot'[d] = tMade + 2
      /\ \A u \in Tables \ {t, d} : tSlot'[u] = tSlot[u]
  BY <1>4 DEF Scrambles
<1>6. /\ tSpilled \subseteq tSpilled'
      /\ d = t => tSpilled' = tSpilled \cup {tMade + 2}
      /\ d # t => tSpilled' = tSpilled \cup ({tSlot[d]} \ {0})
  BY DEF Scrambles
<1>7. /\ tMade' \in 0 .. MaxTables /\ tSlot' \in [Tables -> 0 .. tMade']
      /\ tDead' \subseteq 1 .. tMade' /\ tSpilled' \subseteq 1 .. tMade'
  <2>1. tMade' \in 0 .. MaxTables /\ 1 .. tMade \subseteq 1 .. tMade'
    BY <1>4, <1>5
  <2>2. tSlot' \in [Tables -> 0 .. tMade']
    BY <1>4, <1>5
  <2>3. /\ tSlot[t] # 0 => tSlot[t] \in 1 .. tMade
        /\ tSlot[d] # 0 => tSlot[d] \in 1 .. tMade
        /\ tMade + 2 \in 1 .. tMade'
    BY <1>4, <1>5
  <2>4. tDead' \subseteq 1 .. tMade'
    BY <1>2, <1>4, <2>1, <2>3
  <2>5. tSpilled' \subseteq 1 .. tMade'
    BY <1>4, <1>6, <2>1, <2>3
  <2> QED
    BY <2>1, <2>2, <2>4, <2>5
<1>8. \A u \in Tables : tSlot[u] <= tMade
  BY <1>4
<1>9. SpPlaced'
  <2>1. \A u, v \in Tables : tSlot'[u] = tSlot'[v] => u = v \/ tSlot'[u] = 0
    BY <1>1, <1>4, <1>5, <1>8, SMT DEF SpPlaced
  <2>2. ASSUME NEW n \in 1 .. tMade'
        PROVE  n \in tDead' \cup tSpilled' \/ \E u \in Tables : tSlot'[u] = n
    <3>1. CASE n = tMade + 1
      BY <1>5, <3>1
    <3>2. CASE n = tMade + 2
      BY <1>5, <1>6, <3>2
    <3>3. CASE n # tMade + 1 /\ n # tMade + 2
      <4>1. n \in 1 .. tMade
        BY <1>4, <1>5, <3>3, SMT
      <4>2. n \in tDead \cup tSpilled \/ \E u \in Tables : tSlot[u] = n
        BY <1>1, <4>1 DEF SpPlaced
      <4>3. CASE n \in tDead \cup tSpilled
        BY <1>2, <1>6, <4>3
      <4>4. ASSUME NEW u \in Tables, tSlot[u] = n
            PROVE  n \in tDead' \cup tSpilled' \/ tSlot'[u] = n
        <5>1. n # 0
          BY <4>1
        <5> QED
          BY <1>2, <1>5, <1>6, <4>4, <5>1
      <4> QED
        BY <4>2, <4>3, <4>4
    <3> QED
      BY <3>1, <3>2, <3>3
  <2>3. ASSUME ~Spoiled', NEW u \in Tables, tRef'[u] <= 0
        PROVE  tSlot'[u] \in tDead' \cup {0}
    <3>1. tRef[u] <= 0 /\ u # t /\ u # d
      BY <1>3, <1>4, <2>3, SMT
    <3>2. tSlot'[u] = tSlot[u]
      BY <1>5, <3>1
    <3>3. tSlot[u] \in tDead \cup {0}
      BY <1>1, <1>3, <2>3, <3>1 DEF SpPlaced
    <3> QED
      BY <1>2, <3>2, <3>3
  <2> QED
    BY <2>1, <2>2, <2>3 DEF SpPlaced
<1>10. ASSUME uMisuse' = {} PROVE SpWhole' /\ SpUsed'
  <2>1. uMisuse = {} /\ ~Spoiled' /\ SpWhole /\ SpUsed
    BY <1>1, <1>2, <1>10 DEF SpClean, Spoiled
  <2>2. ASSUME NEW u \in Tables, tRef'[u] > 0 PROVE tSlot'[u] \notin tDead'
    <3>1. tRef[u] > 0
      BY <1>3, <2>1, <2>2
    <3>2. CASE u = t \/ u = d
      <4>1. tSlot'[u] = tMade + 1 \/ tSlot'[u] = tMade + 2
        BY <1>5, <3>2
      <4>2. tSlot'[u] \notin 1 .. tMade /\ tSlot'[u] # tSlot[t]
        BY <1>4, <1>8, <4>1, SMT
      <4> QED
        BY <1>2, <1>4, <4>2
    <3>3. CASE u # t /\ u # d
      BY <1>1, <1>2, <1>5, <2>1, <3>1, <3>3 DEF SpWhole, SpPlaced
    <3> QED
      BY <3>2, <3>3
  <2>3. ASSUME NEW n \in tSpilled' PROVE n \notin tDead' /\ \A u \in Tables : tSlot'[u] # n
    <3>1. CASE n \in tSpilled
      <4>1. n \notin tDead /\ \A u \in Tables : tSlot[u] # n
        BY <2>1, <3>1 DEF SpWhole
      <4>2. n # tMade + 1 /\ n # tMade + 2
        BY <1>4, <3>1, SMT
      <4> QED
        BY <1>2, <1>5, <4>1, <4>2
    <3>2. CASE d = t /\ n = tMade + 2
      <4>1. n \notin tDead' /\ \A u \in Tables : tSlot[u] # n /\ n # tMade + 1
        BY <1>2, <1>4, <1>8, <3>2, SMT
      <4> QED
        BY <1>5, <3>2, <4>1
    <3>3. CASE d # t /\ n = tSlot[d] /\ n # 0
      <4>1. n \notin tDead
        BY <1>3, <2>1, <3>3 DEF SpWhole
      <4>2. \A u \in Tables : tSlot[u] = n => u = d
        BY <1>1, <3>3 DEF SpPlaced
      <4>3. n # tMade + 1 /\ n # tMade + 2
        BY <1>4, <1>8, <3>3, SMT
      <4> QED
        BY <1>2, <1>5, <3>3, <4>1, <4>2, <4>3
    <3> QED
      BY <1>6, <2>3, <3>1, <3>2, <3>3
  <2>4. SpUsed'
    <3>1. ASSUME uLife = "live", NEW n \in uUsed, n \notin tSpilled'
          PROVE  n # 0 /\ \E u \in Tables : tSlot'[u] = n /\ Keeps(uKept, tArr, tLost', u)
      <4>1. n # 0
        BY <2>1, <3>1 DEF SpUsed
      <4>2. PICK u \in Tables : tSlot[u] = n /\ Keeps(uKept, tArr, tLost, u)
        BY <1>6, <2>1, <3>1 DEF SpUsed
      <4>3. u # t
        BY <1>2, <1>10, <3>1, <4>1, <4>2 DEF U!InUse
      <4>4. u # d
        BY <1>6, <3>1, <4>1, <4>2, <4>3
      <4>5. Keeps(uKept, tArr, tLost', u)
        BY <1>3, <1>4, <4>2, SMT DEF Keeps
      <4>6. tSlot'[u] = n
        BY <1>5, <4>2, <4>3, <4>4
      <4> QED
        BY <4>1, <4>5, <4>6
    <3>2. uLife = "live" => \A n \in uUsed : n # 0
      BY <2>1 DEF SpUsed
    <3> QED
      BY <1>2, <3>1, <3>2 DEF SpUsed, Keeps
  <2> QED
    BY <2>2, <2>3, <2>4 DEF SpWhole
<1> QED
  BY <1>7, <1>9, <1>10

(* What a generator does to t, as all of them do it.                       *)
LEMMA MisuseOfGen ==
  ASSUME NEW t, NEW refused \in BOOLEAN, NEW more,
         uMisuse' = uMisuse \cup (U!GenMisuse(t, refused) \cup more)
  PROVE  /\ uMisuse \subseteq uMisuse'
         /\ uMisuse' = {} => /\ uMisuse = {} /\ more = {} /\ ~U!InUse(t)
                             /\ refused => tSlot[t] = 0
BY DEF U!GenMisuse, U!If

(* A table that can be named is not destroyed, unless by a misuse.         *)
LEMMA NamedIsWhole ==
  ASSUME SpInv, uMisuse = {}
  PROVE  /\ uFault = "none"
         /\ \A t \in Tables : t \in U!Reachable => tSlot[t] \notin tDead /\ tRef[t] > 0
<1>1. SpTyped /\ SpBalance /\ SpClean /\ ~Spoiled
  BY DEF SpInv, Spoiled
<1>2. Listed(ByUnit, U!Counted) /\ tLost \in [Tables -> Nat]
  BY <1>1, ListedFew DEF SpTyped, ByUnit
<1>3. \A o \in U!Reachable : tRef[o] > 0
  BY <1>1, <1>2, ReachableCounted DEF SpBalance
<1> QED
  BY <1>1, <1>3 DEF SpClean, SpWhole

(* gen_sine and the others (soundpipe.c:2742-2863).                        *)
LEMMA GenSpInv ==
  ASSUME SpInv, NEW t \in Tables, U!Gen(t)
  PROVE  SpInv'
<1>1. /\ tMade < MaxTables /\ tMade' = tMade + 1
      /\ tSlot' = [tSlot EXCEPT ![t] = tMade + 1] /\ UNCHANGED tSpilled
      /\ uFault' = IF uFault = "none" THEN U!GenFault(t) ELSE uFault
      /\ t \in U!Reachable
  BY DEF U!Gen, U!Fault
<1>2. uMisuse' = uMisuse \cup (U!GenMisuse(t, FALSE) \cup {})
  BY DEF U!Gen, U!Misuse
<1>3. Generates(t)
  BY <1>2, MisuseOfGen DEF U!Gen, Generates, U!unitVars
<1>4. uMisuse' = {} => uFault' = "none"
  BY <1>1, <1>2, MisuseOfGen, NamedIsWhole DEF U!GenFault
<1> QED
  BY <1>1, <1>3, <1>4, NewPlaces, GeneratesSpInv

(* ... that refuse a size (soundpipe.c:2742-2752).                         *)
LEMMA GenRefusedSpInv ==
  ASSUME SpInv, NEW t \in Tables, U!GenRefused(t)
  PROVE  SpInv'
<1>1. /\ UNCHANGED <<tSlot, tMade, tSpilled>>
      /\ uFault' = IF uFault = "none" THEN U!GenFault(t) ELSE uFault
      /\ t \in U!Reachable
  BY DEF U!GenRefused, U!Fault
<1>2. uMisuse' = uMisuse \cup (U!GenMisuse(t, TRUE) \cup {})
  BY DEF U!GenRefused, U!Misuse
<1>3. Generates(t)
  BY <1>2, MisuseOfGen DEF U!GenRefused, Generates, U!unitVars
<1>4. uMisuse' = {} => uFault' = "none" /\ tSlot[t] = 0
  BY <1>1, <1>2, MisuseOfGen, NamedIsWhole DEF U!GenFault
<1>5. tMade \in 0 .. MaxTables /\ tSlot \in [Tables -> 0 .. tMade] /\ tSpilled \subseteq 1 .. tMade
  BY DEF SpInv, SpTyped
<1> QED
  BY <1>1, <1>3, <1>4, <1>5, RefusedPlaces, GeneratesSpInv

(* gen_padsynth (soundpipe.c:2803-2821): the amplitudes are a table that   *)
(* can be named, and another one.                                          *)
LEMMA GenPadsynthSpInv ==
  ASSUME SpInv, NEW t \in Tables, NEW amps \in Tables, U!GenPadsynth(t, amps)
  PROVE  SpInv'
<1>1. /\ tMade < MaxTables /\ tMade' = tMade + 1
      /\ tSlot' = [tSlot EXCEPT ![t] = tMade + 1] /\ UNCHANGED tSpilled
      /\ t \in U!Reachable /\ amps \in U!Reachable
      /\ uFault' = IF uFault = "none"
                   THEN IF U!GenFault(t) # "none" THEN "twice"
                        ELSE IF tSlot[amps] = 0 THEN "null"
                        ELSE IF tSlot[amps] \in tDead \cup {tSlot[t]} THEN "stale"
                        ELSE "none"
                   ELSE uFault
  BY DEF U!GenPadsynth, U!Fault
<1>2. uMisuse' = uMisuse \cup (U!GenMisuse(t, FALSE)
                                 \cup U!If(amps = t \/ tSlot[amps] \in tDead \cup {0}, "amps"))
  BY DEF U!GenPadsynth, U!Misuse
<1>3. Generates(t)
  BY <1>1, <1>2, MisuseOfGen DEF U!GenPadsynth, Generates, U!unitVars
<1>4. uMisuse' = {} => uFault' = "none"
  <2>1. SUFFICES ASSUME uMisuse' = {} PROVE uFault' = "none"
    OBVIOUS
  <2>2. uMisuse = {} /\ amps # t /\ tSlot[amps] \notin tDead \cup {0}
    BY <1>2, <2>1, MisuseOfGen DEF U!If
  <2>3. uFault = "none" /\ U!GenFault(t) = "none"
    BY <1>1, <2>2, NamedIsWhole DEF U!GenFault
  <2>4. tSlot[amps] # tSlot[t]
    BY <2>2 DEF SpInv, SpPlaced
  <2> QED
    BY <1>1, <2>2, <2>3, <2>4
<1> QED
  BY <1>1, <1>3, <1>4, NewPlaces, GeneratesSpInv

(* ... that refuses a size, the amplitudes counted already.                *)
LEMMA PadsynthRefusedSpInv ==
  ASSUME SpInv, NEW t \in Tables, NEW amps \in Tables, U!PadsynthRefused(t, amps)
  PROVE  SpInv'
<1>1. /\ UNCHANGED <<tSlot, tMade, tSpilled>>
      /\ uFault' = IF uFault = "none" THEN U!GenFault(t) ELSE uFault
      /\ t \in U!Reachable /\ amps \in U!Reachable
  BY DEF U!PadsynthRefused, U!Fault
<1>2. uMisuse' = uMisuse \cup (U!GenMisuse(t, TRUE) \cup {})
  BY DEF U!PadsynthRefused, U!Misuse
<1>3. Generates(t)
  BY <1>1, <1>2, MisuseOfGen DEF U!PadsynthRefused, Generates, U!unitVars
<1>4. uMisuse' = {} => uFault' = "none" /\ tSlot[t] = 0
  BY <1>1, <1>2, MisuseOfGen, NamedIsWhole DEF U!GenFault
<1>5. tMade \in 0 .. MaxTables /\ tSlot \in [Tables -> 0 .. tMade] /\ tSpilled \subseteq 1 .. tMade
  BY DEF SpInv, SpTyped
<1> QED
  BY <1>1, <1>3, <1>4, <1>5, RefusedPlaces, GeneratesSpInv

(* gen_scrambler (soundpipe.c:2838-2851).                                  *)
LEMMA GenScramblerSpInv ==
  ASSUME SpInv, NEW t \in Tables, NEW d \in Tables, U!GenScrambler(t, d)
  PROVE  SpInv'
<1>1. /\ Scrambles(t, d)
      /\ uFault' = IF uFault = "none" THEN U!GenFault(t) ELSE uFault
      /\ t \in U!Reachable
  BY DEF U!GenScrambler, U!Fault, Scrambles
<1>2. uMisuse' = uMisuse \cup (U!GenMisuse(t, FALSE) \cup {})
  BY DEF U!GenScrambler, U!Misuse
<1>3. Generates(t)
  BY <1>2, MisuseOfGen DEF U!GenScrambler, Generates, U!unitVars
<1>4. uMisuse' = {} => uFault' = "none"
  BY <1>1, <1>2, MisuseOfGen, NamedIsWhole DEF U!GenFault
<1> QED
  BY <1>1, <1>3, <1>4, ScramblerPlaces, GeneratesSpInv

-----------------------------------------------------------------------------
(* Soundpipe: the array, and the whole                                     *)

(* Another table takes an element's place: the array counts it instead,    *)
(* and the element is given back.                                          *)
LEMMA AssignSpInv ==
  ASSUME SpInv, NEW i \in DOMAIN tArr, NEW t \in Tables, U!Assign(i, t)
  PROVE  SpInv'
<1> DEFINE e == tArr[i]
           one(x, o) == IF x = o THEN 1 ELSE 0
<1>1. /\ SpTyped /\ SpStages /\ SpBalance /\ SpPlaced /\ SpClean
      /\ Tables \subseteq U!Counted /\ Arr \in U!Counted /\ Arr \notin Tables
      /\ tRef \in [U!Counted -> Int] /\ tLost \in [Tables -> Nat]
      /\ Listed(tArr, Tables)
  BY UnitsAssumption DEF SpInv, SpTyped, U!Counted, U!SoundpipeAssumption
<1>2. /\ Arr \in tHeld /\ t \in U!Reachable /\ t # e
      /\ tArr' = [tArr EXCEPT ![i] = t]
      /\ tRef' = [U!Released(<<e>>) EXCEPT ![t] = @ + 1]
      /\ tDead' = tDead \cup U!Destroyed(<<e>>)
      /\ uFault' = IF uFault = "none" THEN U!ReleaseFault(<<e>>) ELSE uFault
      /\ uMisuse' = uMisuse \cup U!If(U!InUse(e), "element")
      /\ UNCHANGED <<uClass, uLife, uOsc, uIsInit, uKept, uUsed>>
      /\ UNCHANGED <<tSlot, tMade, tHeld, tLost, tSpilled>>
      /\ U!unit' = U!unit
  BY DEF U!Assign, U!Fault, U!Misuse, U!unit, U!unitVars
<1>3. e \in Tables
  BY <1>1 DEF Listed
<1>4. /\ Spoiled => Spoiled'
      /\ uMisuse' = {} => uMisuse = {} /\ ~Spoiled' /\ ~U!InUse(e)
  BY <1>2 DEF Spoiled, U!If
<1> HIDE DEF e
<1>5. Listed(<<e>>, U!Counted) /\ Listed(ByUnit, U!Counted)
  BY <1>1, <1>3, ListedFew DEF SpTyped, ByUnit
<1>6. \A o : U!Times(<<e>>, o) = one(e, o)
  BY TimesFew
<1>7. /\ U!Released(<<e>>) \in [U!Counted -> Int]
      /\ \A o \in U!Counted : U!Released(<<e>>)[o] = tRef[o] - one(e, o)
  <2>1. U!Times(<<e>>, Arr) = 0
    BY <1>1, <1>3, <1>6
  <2>2. /\ U!Released(<<e>>) \in [U!Counted -> Int]
        /\ \A o \in U!Counted :
             U!Released(<<e>>)[o] =
               (tRef[o] - U!Times(<<e>>, o))
                 - (IF tRef[Arr] > 0 /\ tRef[Arr] - U!Times(<<e>>, Arr) <= 0
                    THEN U!Times(tArr, o) ELSE 0)
    BY <1>1, <1>5, ReleasedIs
  <2>3. ~(tRef[Arr] > 0 /\ tRef[Arr] - U!Times(<<e>>, Arr) <= 0)
    BY <1>1, <2>1
  <2> QED
    BY <1>1, <1>6, <2>2, <2>3
<1>8. /\ tRef' \in [U!Counted -> Int]
      /\ \A o \in U!Counted : /\ tRef'[o] = U!Released(<<e>>)[o] + one(t, o)
                              /\ tRef'[o] = (tRef[o] - one(e, o)) + one(t, o)
                              /\ U!Released(<<e>>)[o] <= tRef'[o]
  BY <1>1, <1>2, <1>7, SMT
<1>9. /\ Listed(tArr', Tables)
      /\ \A o : U!Times(tArr', o) = (U!Times(tArr, o) + one(t, o)) - one(e, o)
      /\ \A o : U!Times(tArr, o) \in Nat
      /\ U!Times(tArr, e) > 0
  <2>1. tArr[i] # t
    BY <1>2 DEF e
  <2>2. /\ Listed([tArr EXCEPT ![i] = t], Tables)
        /\ \A o : U!Times([tArr EXCEPT ![i] = t], o)
                    = (U!Times(tArr, o) + one(t, o)) - one(tArr[i], o)
    <3>1. \A o : /\ Listed([tArr EXCEPT ![i] = t], Tables)
                 /\ U!Times([tArr EXCEPT ![i] = t], o)
                      = (U!Times(tArr, o) + (IF t = o THEN 1 ELSE 0))
                          - (IF tArr[i] = o THEN 1 ELSE 0)
      BY <1>1, <2>1, TimesReplaced
    <3> QED
      BY <3>1
  <2>3. \A o : U!Times(tArr, o) \in Nat /\ (U!Times(tArr, o) > 0 <=> \E j \in DOMAIN tArr : tArr[j] = o)
    BY <1>1, TimesType
  <2> QED
    BY <1>2, <2>2, <2>3 DEF e
<1>10. SpTyped'
  <2>1. U!Destroyed(<<e>>) \subseteq 1 .. tMade
    BY <1>1, <1>5, DestroyedAre
  <2>2. U!Counted' = U!Counted /\ U!Classes' = U!Classes
    OBVIOUS
  <2> QED
    BY <1>1, <1>2, <1>8, <1>9, <2>1, <2>2 DEF SpTyped, Listed
<1>11. SpStages'
  BY <1>1, <1>2 DEF SpTyped, SpStages
<1>12. ASSUME ~Spoiled'
       PROVE  /\ Balanced(tRef, tHeld, tArr, ByUnit, tLost)
              /\ \A o \in U!Reachable : tRef[o] > 0
              /\ \A o \in U!Counted : U!Released(<<e>>)[o] \in Nat
  <2>1. Balanced(tRef, tHeld, tArr, ByUnit, tLost)
    BY <1>1, <1>4, <1>12 DEF SpBalance
  <2>2. \A o \in U!Reachable : tRef[o] > 0
    BY <1>1, <1>5, <2>1, ReachableCounted
  <2>3. \A o \in U!Counted : tRef[o] \in Nat
    BY <1>1, <1>5, <2>1, BalancedCounts
  <2>4. tRef[e] > 0
    BY <1>1, <1>2, <1>5, <2>1, BalancedCounts DEF e
  <2> QED
    BY <1>7, <2>1, <2>2, <2>3, <2>4, SMT
<1>13. SpBalance'
  <2>1. SUFFICES ASSUME ~Spoiled' PROVE Balanced(tRef', tHeld, tArr', ByUnit, tLost)
    BY <1>2 DEF SpBalance, ByUnit, Balanced, Own, Elements
  <2>2. tRef[Arr] > 0 /\ tRef'[Arr] = tRef[Arr]
    <3>1. Arr \in U!Reachable
      BY <1>2 DEF U!Reachable
    <3> QED
      BY <1>1, <1>3, <1>8, <1>12, <2>1, <3>1, SMT
  <2>3. ASSUME NEW o \in U!Counted
        PROVE  tRef'[o] = Own(tHeld, ByUnit, tLost, o) + Elements(tRef', tArr', o)
    <3>1. tRef[o] = Own(tHeld, ByUnit, tLost, o) + U!Times(tArr, o)
      BY <1>12, <2>1, <2>2 DEF Balanced, Elements
    <3>2. Elements(tRef', tArr', o) = (U!Times(tArr, o) + one(t, o)) - one(e, o)
      BY <1>9, <2>2 DEF Elements
    <3>3. Own(tHeld, ByUnit, tLost, o) \in Int
      BY <1>1, <1>5, TimesType DEF Own
    <3>4. tRef'[o] = (tRef[o] - one(e, o)) + one(t, o)
      BY <1>8
    <3> QED
      BY <1>9, <3>1, <3>2, <3>3, <3>4, SMT
  <2> QED
    BY <2>3 DEF Balanced
<1>14. SpPlaced' /\ (SpWhole /\ ~Spoiled' => SpWhole')
  <2>1. ASSUME ~Spoiled', NEW u \in Tables, tRef'[u] > 0 PROVE U!Released(<<e>>)[u] > 0
    <3>1. CASE u = t
      BY <1>1, <1>2, <1>7, <1>12, <2>1, <3>1, SMT
    <3>2. CASE u # t
      BY <1>1, <1>7, <1>8, <2>1, <3>2, SMT
    <3> QED
      BY <3>1, <3>2
  <2>2. \A o \in U!Counted : tRef'[o] \in Int /\ U!Released(<<e>>)[o] <= tRef'[o]
    BY <1>8
  <2>3. /\ UNCHANGED <<tSlot, tMade, tSpilled>>
        /\ tDead' = tDead \cup U!Destroyed(<<e>>)
        /\ ~Spoiled' => \A u \in Tables : tRef'[u] > 0 => U!Released(<<e>>)[u] > 0
    BY <1>2, <2>1
  <2> QED
    BY <1>1, <1>4, <1>5, <2>2, <2>3, ReleasePlaces
<1>15. SpClean'
  <2>1. SUFFICES ASSUME uMisuse' = {}
                 PROVE  uFault' = "none" /\ (uOsc' = "half" => ~uIsInit') /\ SpWhole' /\ SpUsed'
    BY DEF SpClean
  <2>2. /\ uFault = "none" /\ (uOsc = "half" => ~uIsInit) /\ SpWhole /\ SpUsed
        /\ ~Spoiled' /\ ~U!InUse(e)
    BY <1>1, <1>4, <2>1 DEF SpClean
  <2>3. uFault' = "none"
    BY <1>1, <1>2, <1>5, <1>12, <2>2, ReleaseSafe
  <2>4. ASSUME uLife = "live", NEW u \in Tables, Keeps(uKept, tArr, tLost, u),
               tSlot[u] \in uUsed
        PROVE  Keeps(uKept, tArr', tLost, u)
    <3>1. u # e
      BY <2>2, <2>4 DEF U!InUse, SpUsed
    <3>2. ASSUME NEW j \in DOMAIN tArr, tArr[j] = u
          PROVE  j \in DOMAIN tArr' /\ tArr'[j] = u
      BY <1>1, <1>2, <3>1, <3>2 DEF e, Listed
    <3> QED
      BY <2>4, <3>2 DEF Keeps
  <2>5. SpUsed'
    <3>1. ASSUME uLife = "live", NEW n \in uUsed
          PROVE  n # 0 /\ (n \in tSpilled \/ \E u \in Tables :
                                               tSlot[u] = n /\ Keeps(uKept, tArr', tLost, u))
      BY <2>2, <2>4, <3>1 DEF SpUsed
    <3> QED
      BY <1>2, <3>1 DEF SpUsed, Keeps
  <2> QED
    BY <1>2, <1>14, <2>2, <2>3, <2>5
<1> QED
  BY <1>10, <1>11, <1>13, <1>14, <1>15 DEF SpInv

(* At first a program refers to what its init takes (soundpipe.c:16-23).   *)
LEMMA InitSpInv == U!Init => SpInv
<1> SUFFICES ASSUME U!Init PROVE SpInv
  OBVIOUS
<1>1. /\ uClass \in U!Classes /\ uLife = "none" /\ uOsc = "null" /\ uIsInit = FALSE
      /\ uKept = <<>> /\ uUsed = {} /\ tSlot = [t \in Tables |-> 0] /\ tMade = 0
      /\ tDead = {} /\ tSpilled = {} /\ uMisuse = {} /\ uFault = "none"
      /\ tLost = [t \in Tables |-> 0]
      /\ tHeld = IF U!TakesArray THEN {Arr}
                 ELSE IF U!TableArgs(U!unit.init) > 0 THEN Tables ELSE {}
      /\ tRef = [o \in U!Counted |-> IF o \in tHeld \/ U!Times(tArr, o) > 0 THEN 1 ELSE 0]
      /\ tArr \in IF U!TakesArray
                    THEN {s \in [1 .. U!Cardinality(Tables) -> Tables] :
                            \A t \in Tables : U!Times(s, t) = 1}
                    ELSE {<<>>}
  BY DEF U!Init
<1>2. /\ IsFiniteSet(Tables) /\ Arr \notin Tables /\ MaxTables \in Nat
      /\ U!Counted = Tables \cup {Arr}
  BY UnitsAssumption, Counting DEF U!SoundpipeAssumption, U!Counted
<1>3. Listed(tArr, Tables)
  <2>1. CASE U!TakesArray
    <3>1. Cardinality(Tables) \in Nat
      BY <1>2, FS_CardinalityType
    <3>2. IsFiniteSet(1 .. Cardinality(Tables))
      BY <3>1, FS_Interval
    <3>3. tArr \in [1 .. Cardinality(Tables) -> Tables]
      BY <1>1, <2>1, Counting
    <3>4. DOMAIN tArr = 1 .. Cardinality(Tables)
      BY <3>3
    <3> QED
      BY <3>2, <3>3, <3>4 DEF Listed
  <2>2. CASE ~U!TakesArray
    BY <1>1, <2>2, ListedFew
  <2> QED
    BY <2>1, <2>2
<1>4. SpTyped
  <2>1. tMade \in 0 .. MaxTables /\ tSlot \in [Tables -> 0 .. tMade]
    BY <1>1, <1>2
  <2>2. tRef \in [U!Counted -> Int] /\ tLost \in [Tables -> Nat] /\ tHeld \subseteq U!Counted
    BY <1>1, <1>2
  <2>3. Listed(uKept, U!Counted)
    BY <1>1, ListedFew
  <2> QED
    BY <1>1, <1>3, <2>1, <2>2, <2>3 DEF SpTyped
<1>5. SpStages
  BY <1>1 DEF SpStages
<1>6. SpBalance
  <2>1. SUFFICES ASSUME NEW o \in U!Counted
                 PROVE  tRef[o] = Own(tHeld, <<>>, tLost, o) + Elements(tRef, tArr, o)
    BY <1>1 DEF SpBalance, Balanced, ByUnit
  <2>2. Own(tHeld, <<>>, tLost, o) = IF o \in tHeld THEN 1 ELSE 0
    <3>1. U!Times(<<>>, o) = 0 /\ (o \in Tables => tLost[o] = 0)
      BY <1>1, TimesFew
    <3> QED
      BY <3>1, SMT DEF Own
  <2>3. \A x : U!Times(tArr, x) \in Nat /\ (U!Times(tArr, x) > 0 <=> \E i \in DOMAIN tArr : tArr[i] = x)
    BY <1>3, TimesType
  <2>4. U!Times(tArr, Arr) = 0
    BY <1>2, <1>3, <2>3 DEF Listed
  <2>5. CASE U!TakesArray
    <3>1. tHeld = {Arr} /\ \A t \in Tables : U!Times(tArr, t) = 1
      BY <1>1, <2>5
    <3>2. tRef[Arr] = 1
      BY <1>1, <1>2, <3>1
    <3>3. Elements(tRef, tArr, o) = U!Times(tArr, o)
      BY <3>2 DEF Elements
    <3>4. CASE o = Arr
      BY <2>2, <2>4, <3>1, <3>2, <3>3, <3>4
    <3>5. CASE o \in Tables /\ o # Arr
      <4>1. tRef[o] = 1
        BY <1>1, <1>2, <3>1, <3>5
      <4> QED
        BY <2>2, <3>1, <3>3, <3>5, <4>1
    <3> QED
      BY <1>2, <3>4, <3>5
  <2>6. CASE ~U!TakesArray
    <3>1. \A x : U!Times(tArr, x) = 0
      BY <1>1, <2>6, TimesFew
    <3>2. Elements(tRef, tArr, o) = 0
      BY <3>1 DEF Elements
    <3>3. tRef[o] = IF o \in tHeld THEN 1 ELSE 0
      BY <1>1, <3>1
    <3> QED
      BY <2>2, <3>2, <3>3
  <2> QED
    BY <2>5, <2>6
<1>7. SpPlaced
  BY <1>1, <1>2, SMT DEF SpPlaced
<1>8. SpClean
  BY <1>1 DEF SpClean, SpWhole, SpUsed
<1> QED
  BY <1>4, <1>5, <1>6, <1>7, <1>8 DEF SpInv

(* No step of the unit or of the tables breaks the invariant.              *)
LEMMA NextSpInv == SpInv /\ [U!Next]_(U!vars) => SpInv'
<1> SUFFICES ASSUME SpInv, [U!Next]_(U!vars) PROVE SpInv'
  OBVIOUS
<1>1. CASE UNCHANGED U!vars
  <2>1. /\ UNCHANGED U!tableVars /\ UNCHANGED <<uClass, uIsInit, uKept, uUsed>>
        /\ UNCHANGED <<uLife, uOsc, uMisuse, uFault>>
    BY <1>1 DEF U!vars, U!tableVars
  <2>2. uMisuse' = {} => uFault' = "none"
    BY <2>1 DEF SpInv, SpClean
  <2> QED
    BY <2>1, <2>2, TablesStay
<1>2. CASE U!UnitNext
  BY <1>2, UnitCtorSpInv, TickSpInv, AccessSpInv, UnitDtorSpInv, InitFailsSpInv, InitOkSpInv,
     NullSpInv DEF U!UnitNext
<1>3. CASE U!TableNext
  BY <1>3, GenSpInv, GenRefusedSpInv, GenPadsynthSpInv, PadsynthRefusedSpInv,
     GenScramblerSpInv, AssignSpInv, ForgetSpInv, NullSpInv DEF U!TableNext
<1> QED
  BY <1>1, <1>2, <1>3 DEF U!Next

(* A program that imports Soundpipe takes its steps, another none.         *)
LEMMA UnitsStepsSoundpipe == UnitsSpec => U!Init /\ [][U!Next]_(U!vars)
<1>1. UnitsInit => U!Init
  BY DEF UnitsInit
<1>2. ASSUME [UnitsNext]_<<plug, vars, soundpipeVars, lsysVars, analysVars, fmVars, srVars>>
      PROVE  [U!Next]_(U!vars)
  <2>1. UNCHANGED soundpipeVars => UNCHANGED U!vars
    BY DEF soundpipeVars, U!vars
  <2> QED
    BY <1>2, <2>1 DEF UnitsNext, Rest
<1> QED
  BY <1>1, <1>2, PTL DEF UnitsSpec

(* The invariant holds, whichever plug-in is imported.                     *)
LEMMA SoundpipeInvariant == UnitsSpec => []SpInv
BY UnitsStepsSoundpipe, InitSpInv, NextSpInv, PTL

(* Whatever classes of units and however many tables a program has, what   *)
(* it counts of them is accounted for, and given back when it is done with *)
(* all of it (soundpipe.c:20-23, 2100-2128, 2803-2851).                    *)
THEOREM TablesAreAccounted == UnitsSpec => []TablesAccounted
<1>1. ASSUME SpInv PROVE U!RefsBalanced
  <2>1. SpTyped /\ SpStages /\ SpBalance
    BY <1>1 DEF SpInv
  <2>2. ASSUME uMisuse \cap {"refail", "retry"} = {}, NEW o \in U!Counted
        PROVE  tRef[o] = U!Cardinality({o} \cap tHeld)
                           + (IF tRef[Arr] > 0 THEN U!Times(tArr, o) ELSE 0)
                           + (IF uLife = "live" /\ uIsInit THEN U!Times(uKept, o) ELSE 0)
                           + (IF o \in Tables THEN tLost[o] ELSE 0)
    <3>1. Balanced(tRef, tHeld, tArr, ByUnit, tLost)
      BY <2>1, <2>2 DEF SpBalance, Spoiled
    <3>2. tRef[o] = Own(tHeld, ByUnit, tLost, o) + Elements(tRef, tArr, o)
      BY <3>1 DEF Balanced
    <3>3. U!Cardinality({o} \cap tHeld) = IF o \in tHeld THEN 1 ELSE 0
      <4>1. CASE o \in tHeld
        <5>1. {o} \cap tHeld = {o}
          BY <4>1
        <5> QED
          BY <4>1, <5>1, Counting, FS_Singleton
      <4>2. CASE o \notin tHeld
        <5>1. {o} \cap tHeld = {}
          BY <4>2
        <5> QED
          BY <4>2, <5>1, Counting, FS_EmptySet
      <4> QED
        BY <4>1, <4>2
    <3>4. U!Times(ByUnit, o) = IF uLife = "live" /\ uIsInit THEN U!Times(uKept, o) ELSE 0
      BY <2>1, TimesFew DEF ByUnit, SpStages
    <3>5. /\ U!Times(ByUnit, o) \in Nat /\ U!Times(tArr, o) \in Nat
          /\ tLost \in [Tables -> Nat]
      BY <2>1, ListedFew, TimesType DEF SpTyped, ByUnit
    <3> QED
      BY <3>2, <3>3, <3>4, <3>5, SMT DEF Own, Elements
  <2> QED
    BY <2>2 DEF U!RefsBalanced
<1>2. ASSUME SpInv PROVE U!NothingLeaks
  <2>1. SpTyped /\ SpStages /\ SpBalance /\ SpPlaced
    BY <1>2 DEF SpInv
  <2>2. SUFFICES ASSUME uLife = "gone", tHeld = {}, uMisuse = {},
                        NEW n \in 1 .. tMade \ (tDead \cup tSpilled)
                 PROVE  \E t \in Tables : tSlot[t] = n /\ tLost[t] > 0
    BY <2>1 DEF U!NothingLeaks, SpStages
  <2>3. ~Spoiled
    BY <2>2 DEF Spoiled
  <2>4. PICK t \in Tables : tSlot[t] = n
    BY <2>1 DEF SpPlaced
  <2>5. Balanced(tRef, {}, tArr, <<>>, tLost)
    BY <2>1, <2>2, <2>3 DEF SpBalance, ByUnit
  <2>6. /\ \A o : U!Times(<<>>, o) = 0
        /\ U!Times(tArr, Arr) = 0
        /\ Arr \notin Tables /\ Arr \in U!Counted /\ t \in U!Counted
    <3>1. Arr \notin Tables /\ Arr \in U!Counted /\ t \in U!Counted
      BY UnitsAssumption DEF U!SoundpipeAssumption, U!Counted
    <3>2. /\ U!Times(tArr, Arr) \in Nat
          /\ U!Times(tArr, Arr) > 0 <=> \E i \in DOMAIN tArr : tArr[i] = Arr
      BY <2>1, TimesType DEF SpTyped
    <3> QED
      BY <2>1, <3>1, <3>2, TimesFew DEF SpTyped, Listed
  <2>7. tRef[Arr] = 0
    BY <2>5, <2>6 DEF Balanced, Own, Elements
  <2>8. tRef[t] = tLost[t] /\ tLost[t] \in Nat
    BY <2>1, <2>5, <2>6, <2>7 DEF SpTyped, Balanced, Own, Elements
  <2>9. tRef[t] > 0
    <3>1. n # 0 /\ n \notin tDead
      OBVIOUS
    <3> QED
      BY <2>1, <2>3, <2>4, <2>8, <3>1 DEF SpPlaced
  <2> QED
    BY <2>4, <2>8, <2>9
<1>3. SpInv => TablesAccounted
  BY <1>1, <1>2 DEF TablesAccounted, U!MemoryAccounted
<1> QED
  BY <1>3, SoundpipeInvariant, PTL

(* Without a questionable use, a null argument being one, the library is   *)
(* never handed nothing, a half-made oscillator or a destroyed table, and  *)
(* nothing is destroyed twice (soundpipe.c:1211-1239, 2100-2146,           *)
(* 2742-2863).                                                             *)
THEOREM SoundpipeIsSafe == UnitsSpec => []U!SafeWithoutMisuse
<1>1. SpInv => U!SafeWithoutMisuse
  BY DEF SpInv, SpClean, U!SafeWithoutMisuse
<1> QED
  BY <1>1, SoundpipeInvariant, PTL

-----------------------------------------------------------------------------
(* Analys                                                                  *)

(* A remainder, when one division is enough.                               *)
LEMMA ModTwice ==
  ASSUME NEW n \in Nat \ {0}, NEW x \in 0 .. 2 * n - 1
  PROVE  x % n = IF x < n THEN x ELSE x - n
<1>1. CASE x < n
  BY <1>1, SMT
<1>2. CASE ~(x < n)
  BY <1>2, SMT
<1> QED
  BY <1>1, <1>2

(* Where in a ring of n, whose oldest sample is after the r-th, the i-th   *)
(* oldest is.                                                              *)
Place(r, i, n) == IF r + i <= n THEN r + i ELSE r + i - n

(* A ring holds the last samples.                                          *)
Follows(b, r, last) ==
  /\ b \in Seq(Samples) /\ last \in Seq(Samples)
  /\ Len(b) > 0 /\ Len(last) = Len(b)
  /\ r \in 0 .. Len(b) - 1
  /\ \A i \in 1 .. Len(b) : last[i] = b[Place(r, i, Len(b))]

(* sp_buffer_get unrolls it (analys.c:47-51).                              *)
LEMMA GetsLast ==
  ASSUME NEW b, NEW r, NEW last, Follows(b, r, last)
  PROVE  A!Get(b, r) = last
<1> DEFINE n == Len(b)
<1>1. /\ b \in Seq(Samples) /\ last \in Seq(Samples) /\ n \in Nat \ {0}
      /\ Len(last) = n /\ r \in 0 .. n - 1
      /\ \A i \in 1 .. n : last[i] = b[Place(r, i, n)]
  BY DEF Follows
<1>2. A!Get(b, r) = [i \in 1 .. n |-> b[((r + i - 1) % n) + 1]]
  BY DEF A!Get
<1> HIDE DEF n
<1>3. ASSUME NEW i \in 1 .. n PROVE ((r + i - 1) % n) + 1 = Place(r, i, n)
  <2>1. n \in Nat \ {0} /\ r + i - 1 \in 0 .. 2 * n - 1
    BY <1>1
  <2>2. (r + i - 1) % n = IF r + i - 1 < n THEN r + i - 1 ELSE (r + i - 1) - n
    BY <2>1, ModTwice
  <2>3. (r + i - 1 < n) <=> (r + i <= n)
    BY <1>1
  <2>4. CASE r + i <= n
    BY <1>1, <2>2, <2>3, <2>4 DEF Place
  <2>5. CASE ~(r + i <= n)
    BY <1>1, <2>2, <2>3, <2>5 DEF Place
  <2> QED
    BY <2>4, <2>5
<1>4. A!Get(b, r) = [i \in 1 .. n |-> last[i]]
  BY <1>1, <1>2, <1>3
<1>5. last = [i \in 1 .. n |-> last[i]]
  BY <1>1, LenProperties
<1> QED
  BY <1>4, <1>5

(* sp_buffer_add puts a sample over the oldest (analys.c:38-45).           *)
LEMMA AddFollows ==
  ASSUME NEW b, NEW r, NEW last, Follows(b, r, last), NEW s \in Samples
  PROVE  Follows([b EXCEPT ![r + 1] = s], (r + 1) % Len(b), Append(Tail(last), s))
<1> DEFINE n == Len(b)
           c == [b EXCEPT ![r + 1] = s]
           q == (r + 1) % n
           rest == Tail(last)
           new == Append(rest, s)
<1>1. /\ b \in Seq(Samples) /\ last \in Seq(Samples) /\ n \in Nat \ {0}
      /\ Len(last) = n /\ r \in 0 .. n - 1
      /\ \A i \in 1 .. n : last[i] = b[Place(r, i, n)]
  BY DEF Follows
<1>2. /\ c \in Seq(Samples) /\ Len(c) = n
      /\ c[r + 1] = s
      /\ \A i \in 1 .. n : i # r + 1 => c[i] = b[i]
  <2>1. b \in [1 .. n -> Samples] /\ r + 1 \in 1 .. n
    BY <1>1, LenProperties
  <2>2. c \in [1 .. n -> Samples]
    BY <2>1
  <2>3. c \in Seq(Samples) /\ Len(c) = n
    BY <1>1, <2>2
  <2> QED
    BY <2>1, <2>3
<1>3. last # <<>>
  BY <1>1
<1>4. /\ rest \in Seq(Samples) /\ Len(rest) = n - 1
      /\ \A i \in 1 .. Len(rest) : rest[i] = last[i + 1]
  BY <1>1, <1>3, HeadTailProperties
<1>5. /\ new \in Seq(Samples) /\ Len(new) = Len(rest) + 1
      /\ \A i \in 1 .. Len(rest) : new[i] = rest[i]
      /\ new[Len(rest) + 1] = s
  BY <1>4, AppendProperties
<1>6. q = IF r + 1 = n THEN 0 ELSE r + 1
  <2>1. n \in Nat \ {0} /\ r + 1 \in 0 .. 2 * n - 1
    BY <1>1
  <2> HIDE DEF n
  <2>2. (r + 1) % n = IF r + 1 < n THEN r + 1 ELSE (r + 1) - n
    BY <2>1, ModTwice
  <2> QED
    BY <1>1, <2>2
<1> HIDE DEF n, c, q, rest, new
<1>7. ASSUME NEW i \in 1 .. n PROVE new[i] = c[Place(q, i, n)]
  <2>1. CASE i = n
    <3>1. Place(q, i, n) = r + 1
      BY <1>1, <1>6, <2>1 DEF Place
    <3>2. i = Len(rest) + 1
      BY <1>1, <1>4, <2>1
    <3> QED
      BY <1>2, <1>5, <3>1, <3>2
  <2>2. CASE i # n
    <3>1. i \in 1 .. Len(rest) /\ i + 1 \in 1 .. n
      BY <1>1, <1>4, <2>2
    <3>2. /\ Place(q, i, n) = Place(r, i + 1, n)
          /\ Place(r, i + 1, n) \in 1 .. n
          /\ Place(r, i + 1, n) # r + 1
      <4>1. CASE r + 1 = n
        BY <1>1, <1>6, <2>2, <4>1 DEF Place
      <4>2. CASE r + 1 # n
        <5>1. q = r + 1 /\ q + i = r + (i + 1)
          BY <1>1, <1>6, <4>2
        <5>2. i \in 1 .. n - 1 /\ r \in 0 .. n - 2
          BY <1>1, <2>2, <4>2
        <5>3. Place(q, i, n) = Place(r, i + 1, n)
          <6>1. q + i <= n <=> r + (i + 1) <= n
            BY <5>1
          <6>2. q + i - n = r + (i + 1) - n
            BY <1>1, <5>1, <5>2
          <6> QED
            BY <5>1, <6>1, <6>2 DEF Place
        <5> QED
          BY <1>1, <5>2, <5>3 DEF Place
      <4> QED
        BY <4>1, <4>2
    <3>3. new[i] = last[i + 1]
      BY <1>4, <1>5, <3>1
    <3>4. last[i + 1] = b[Place(r, i + 1, n)]
      BY <1>1, <3>1
    <3> QED
      BY <1>2, <3>2, <3>3, <3>4
  <2> QED
    BY <2>1, <2>2
<1>8. q \in 0 .. n - 1 /\ Len(new) = n
  BY <1>1, <1>4, <1>5, <1>6
<1>9. Follows(c, q, new)
  BY <1>1, <1>2, <1>5, <1>7, <1>8 DEF Follows
<1> QED
  BY <1>9 DEF c, q, new, rest, n

(* A new ring is of zeros (analys.c:103-119).                              *)
LEMMA NewFollows ==
  ASSUME NEW n \in Nat \ {0}
  PROVE  Follows([i \in 1 .. n |-> 0], 0, [i \in 1 .. n |-> 0])
<1> DEFINE b == [i \in 1 .. n |-> 0]
<1>1. 0 \in Samples
  BY UnitsAssumption DEF A!AnalysAssumption
<1>2. b \in Seq(Samples) /\ Len(b) = n
  BY <1>1
<1>3. \A i \in 1 .. n : b[i] = 0 /\ Place(0, i, n) = i
  BY DEF Place
<1> HIDE DEF b
<1>4. Follows(b, 0, b)
  BY <1>2, <1>3 DEF Follows
<1> QED
  BY <1>4 DEF b

(* Each FFT's ring and the history of what it was fed.                     *)
FedTyped ==
  /\ aBuf \in [Ffts -> Seq(Samples)]
  /\ aRing \in [Ffts -> Nat]
  /\ aContent \in [Ffts -> Seq(Samples)]
  /\ aRecent \in [Ffts -> Seq(Samples)]

FedInv ==
  /\ FedTyped
  /\ \A f \in Ffts : aBuf[f] # <<>> =>
       /\ Follows(aBuf[f], aRing[f], aRecent[f])
       /\ aContent[f] # <<>> => aContent[f] = aRecent[f]

(* No FFT was initialised yet.                                             *)
LEMMA InitFedInv == A!Init => FedInv
<1> SUFFICES ASSUME A!Init PROVE FedInv
  OBVIOUS
<1>1. /\ aBuf = [f \in Ffts |-> <<>>] /\ aRing = [f \in Ffts |-> 0]
      /\ aContent = [f \in Ffts |-> <<>>] /\ aRecent = [f \in Ffts |-> <<>>]
  BY DEF A!Init
<1>2. <<>> \in Seq(Samples)
  OBVIOUS
<1>3. FedTyped
  BY <1>1, <1>2 DEF FedTyped
<1>4. \A f \in Ffts : aBuf[f] = <<>>
  BY <1>1
<1> QED
  BY <1>3, <1>4 DEF FedInv

(* A step that changes what one FFT holds.                                 *)
LEMMA OneFed ==
  ASSUME FedInv, NEW f \in Ffts, NEW b, NEW r, NEW t, NEW last,
         aBuf' = [aBuf EXCEPT ![f] = b], aRing' = [aRing EXCEPT ![f] = r],
         aContent' = [aContent EXCEPT ![f] = t],
         aRecent' = [aRecent EXCEPT ![f] = last],
         Follows(b, r, last), t = <<>> \/ t = last
  PROVE  FedInv'
<1>1. FedTyped
  BY DEF FedInv
<1>2. b \in Seq(Samples) /\ last \in Seq(Samples) /\ r \in Nat /\ t \in Seq(Samples)
  <2>1. b \in Seq(Samples) /\ last \in Seq(Samples) /\ r \in 0 .. Len(b) - 1 /\ Len(b) \in Nat
    BY DEF Follows
  <2>2. t \in Seq(Samples)
    <3>1. <<>> \in Seq(Samples)
      OBVIOUS
    <3> QED
      BY <2>1, <3>1, Zenon
  <2>3. r \in Nat
    BY <2>1
  <2> QED
    BY <2>1, <2>2, <2>3
<1>3. FedTyped'
  BY <1>1, <1>2 DEF FedTyped
<1>4. aBuf'[f] = b /\ aRing'[f] = r /\ aContent'[f] = t /\ aRecent'[f] = last
  BY <1>1 DEF FedTyped
<1>5. ASSUME NEW g \in Ffts, g # f
      PROVE  /\ aBuf'[g] = aBuf[g] /\ aRing'[g] = aRing[g]
             /\ aContent'[g] = aContent[g] /\ aRecent'[g] = aRecent[g]
  BY <1>1, <1>5 DEF FedTyped
<1>6. ASSUME NEW g \in Ffts, aBuf'[g] # <<>>
      PROVE  /\ Follows(aBuf'[g], aRing'[g], aRecent'[g])
             /\ aContent'[g] # <<>> => aContent'[g] = aRecent'[g]
  <2>1. CASE g = f
    BY <1>4, <2>1
  <2>2. CASE g # f
    <3>1. aBuf[g] # <<>>
      BY <1>5, <1>6, <2>2
    <3>2. /\ Follows(aBuf[g], aRing[g], aRecent[g])
          /\ aContent[g] # <<>> => aContent[g] = aRecent[g]
      BY <3>1 DEF FedInv
    <3> QED
      BY <1>5, <2>2, <3>2
  <2> QED
    BY <2>1, <2>2
<1>7. \A g \in Ffts : aBuf'[g] # <<>> =>
         /\ Follows(aBuf'[g], aRing'[g], aRecent'[g])
         /\ aContent'[g] # <<>> => aContent'[g] = aRecent'[g]
  BY <1>6
<1> QED
  BY <1>3, <1>7 DEF FedInv, Follows

(* The rings are changed by init and by the ticks, what was transformed by *)
(* compute too.                                                            *)
LEMMA NextFedInv == FedInv /\ [A!Next]_(A!vars) => FedInv'
<1> SUFFICES ASSUME FedInv, [A!Next]_(A!vars) PROVE FedInv'
  OBVIOUS
<1>1. FedTyped /\ Sizes \subseteq Int
  BY UnitsAssumption DEF FedInv, A!AnalysAssumption
<1>2. CASE UNCHANGED <<aBuf, aRing, aContent, aRecent>>
  BY <1>2 DEF FedInv, FedTyped
<1>3. ASSUME NEW f \in Ffts, NEW n \in Sizes, A!FftInit(f, n) PROVE FedInv'
  <2>1. /\ n > 0
        /\ aBuf' = [aBuf EXCEPT ![f] = [i \in 1 .. n |-> 0]]
        /\ aRing' = [aRing EXCEPT ![f] = 0]
        /\ aContent' = [aContent EXCEPT ![f] = <<>>]
        /\ aRecent' = [aRecent EXCEPT ![f] = [i \in 1 .. n |-> 0]]
    BY <1>3 DEF A!FftInit
  <2>2. n \in Nat \ {0}
    BY <1>1, <2>1
  <2>3. Follows([i \in 1 .. n |-> 0], 0, [i \in 1 .. n |-> 0])
    BY <2>2, NewFollows
  <2> QED
    BY <2>1, <2>3, OneFed
<1>4. ASSUME NEW f \in Ffts, NEW s \in Samples, NEW trig \in BOOLEAN, A!Tick(f, s, trig)
      PROVE  FedInv'
  <2> DEFINE b == [aBuf[f] EXCEPT ![aRing[f] + 1] = s]
             r == (aRing[f] + 1) % Len(aBuf[f])
             last == Append(Tail(aRecent[f]), s)
             t == IF aNow[f] \/ trig THEN A!Get(b, r) ELSE <<>>
  <2>1. /\ aBuf[f] # <<>>
        /\ aBuf' = [aBuf EXCEPT ![f] = b]
        /\ aRing' = [aRing EXCEPT ![f] = r]
        /\ aContent' = [aContent EXCEPT ![f] = t]
        /\ aRecent' = [aRecent EXCEPT ![f] = last]
    BY <1>4 DEF A!Tick
  <2>2. Follows(b, r, last)
    BY <2>1, AddFollows DEF FedInv
  <2>3. A!Get(b, r) = last
    BY <2>2, GetsLast
  <2>4. t = <<>> \/ t = last
    BY <2>3
  <2> HIDE DEF b, r, last, t
  <2> QED
    BY <2>1, <2>2, <2>4, OneFed
<1>5. ASSUME NEW f \in Ffts, A!FftCompute(f) PROVE FedInv'
  <2>1. /\ aBuf[f] # <<>>
        /\ aContent' = [aContent EXCEPT ![f] = A!Get(aBuf[f], aRing[f])]
        /\ UNCHANGED <<aBuf, aRing, aRecent>>
    BY <1>5 DEF A!FftCompute
  <2>2. Follows(aBuf[f], aRing[f], aRecent[f])
    BY <2>1 DEF FedInv
  <2>3. A!Get(aBuf[f], aRing[f]) = aRecent[f]
    BY <2>2, GetsLast
  <2>4. /\ aBuf' = [aBuf EXCEPT ![f] = aBuf[f]]
        /\ aRing' = [aRing EXCEPT ![f] = aRing[f]]
        /\ aRecent' = [aRecent EXCEPT ![f] = aRecent[f]]
    BY <1>1, <2>1 DEF FedTyped
  <2> QED
    BY <2>1, <2>2, <2>3, <2>4, OneFed
<1>6. ASSUME NEW f \in Ffts, A!Set(f) \/ A!SetUninitialised(f) \/ A!Drop(f) PROVE FedInv'
  BY <1>2, <1>6 DEF A!Set, A!SetUninitialised, A!Drop, A!Given
<1>7. CASE A!SetNull \/ A!AnaCompute \/ A!RolloffCompute \/ UNCHANGED A!vars
  BY <1>2, <1>7 DEF A!SetNull, A!AnaCompute, A!RolloffCompute, A!Given, A!vars, A!fftVars
<1>8. ASSUME NEW f \in Ffts, NEW n \in Sizes, A!FftRefused(f, n) PROVE FedInv'
  BY <1>7, <1>8 DEF A!FftRefused
<1> QED
  BY <1>3, <1>4, <1>5, <1>6, <1>7, <1>8 DEF A!Next

(* A step of the program is one of Analys or none of it.                   *)
LEMMA UnitsStepsAnalys ==
  [UnitsNext]_<<plug, vars, soundpipeVars, lsysVars, analysVars, fmVars, srVars>>
    => [A!Next]_(A!vars)
<1>1. UNCHANGED analysVars => UNCHANGED A!vars
  BY DEF analysVars, A!vars, A!fftVars, A!anaVars
<1> QED
  BY <1>1 DEF UnitsNext, Rest

(* A transform is of the last samples, oldest first, for rings of any      *)
(* length (analys.c:38-51, 63-78, 123-136).                                *)
THEOREM AnalysTransformsLast == UnitsSpec => []A!SpectrumOfLast
<1>1. UnitsInit => A!Init
  BY DEF UnitsInit
<1>2. FedInv => A!SpectrumOfLast
  <2> SUFFICES ASSUME FedInv, NEW f \in Ffts, aBuf[f] # <<>>
               PROVE  /\ A!Get(aBuf[f], aRing[f]) = aRecent[f]
                      /\ aContent[f] # <<>> => aContent[f] = aRecent[f]
    BY DEF A!SpectrumOfLast
  <2> QED
    BY GetsLast DEF FedInv
<1> QED
  BY <1>1, <1>2, UnitsStepsAnalys, InitFedInv, NextFedInv, PTL DEF UnitsSpec

(* The references to an FFT: a variable and the ANA.                       *)
HeldOnce(f) == A!Cardinality({f} \cap aHeld)

(* It is counted once, by the copy of the library the instance has too.    *)
LEMMA HeldOnceCounts ==
  \A f : HeldOnce(f) = IF f \in aHeld THEN 1 ELSE 0
<1>1. \A S : A!Cardinality(S) = Cardinality(S)
  <2>1. \A S : A!IsFiniteSet(S) <=> IsFiniteSet(S)
    BY DEF A!IsFiniteSet, IsFiniteSet
  <2> QED
    BY <2>1 DEF A!Cardinality, Cardinality
<1> SUFFICES ASSUME NEW f PROVE Cardinality({f} \cap aHeld) = IF f \in aHeld THEN 1 ELSE 0
  BY <1>1 DEF HeldOnce
<1>2. CASE f \in aHeld
  <2>1. {f} \cap aHeld = {f}
    BY <1>2
  <2> QED
    BY <1>2, <2>1, FS_Singleton
<1>3. CASE f \notin aHeld
  <2>1. {f} \cap aHeld = {}
    BY <1>3
  <2> QED
    BY <1>3, <2>1, FS_EmptySet
<1> QED
  BY <1>2, <1>3

(* Spectra are numbered, and no two FFTs have the same.                    *)
SpectraApart ==
  /\ aRef \in [Ffts -> Int]
  /\ aHeld \subseteq Ffts
  /\ aFft \in Ffts \cup {0}
  /\ aMade \in Nat
  /\ aSpectrum \in [Ffts -> 0 .. aMade]
  /\ aGone \subseteq 1 .. aMade
  /\ aBuf = [f \in Ffts |-> aBuf[f]]
  /\ \A f \in Ffts : aBuf[f] # <<>> => aSpectrum[f] # 0
  /\ \A f, g \in Ffts : aSpectrum[f] = aSpectrum[g] /\ aSpectrum[f] # 0 => f = g

(* What is referred to is counted once for each, what is counted is not    *)
(* freed, and the ANA has its FFT's spectrum.                              *)
CountedOnce(count, held, fft) ==
  \A f \in Ffts : count[f] = (IF f \in held THEN 1 ELSE 0) + IF fft = f THEN 1 ELSE 0

SpectraKept(count, gone) == \A f \in Ffts : count[f] > 0 => aSpectrum[f] \notin gone

AnaClean ==
  aMisuse = {} =>
    /\ aFault = "none"
    /\ CountedOnce(aRef, aHeld, aFft)
    /\ SpectraKept(aRef, aGone)
    /\ aFft # 0 => aFval = aSpectrum[aFft] /\ aFval # 0

AnaInv == SpectraApart /\ AnaClean

(* Each FFT is referred to by its variable at first.                       *)
LEMMA InitAnaInv == A!Init => AnaInv
<1> SUFFICES ASSUME A!Init PROVE AnaInv
  OBVIOUS
<1>1. /\ aRef = [f \in Ffts |-> 1] /\ aHeld = Ffts /\ aFft = 0
      /\ aMade = 0 /\ aGone = {} /\ aSpectrum = [f \in Ffts |-> 0]
      /\ aBuf = [f \in Ffts |-> <<>>] /\ aFault = "none"
      /\ 0 \notin Ffts
  BY UnitsAssumption DEF A!Init, A!AnalysAssumption
<1>2. SpectraApart
  BY <1>1 DEF SpectraApart
<1>3. AnaClean
  BY <1>1 DEF AnaClean, CountedOnce, SpectraKept
<1> QED
  BY <1>2, <1>3 DEF AnaInv

(* What ends has a spectrum that was made.                                 *)
LEMMA FreedNumbers ==
  ASSUME SpectraApart, NEW ended \in SUBSET Ffts
  PROVE  aGone \cup ({aSpectrum[f] : f \in ended} \ {0}) \subseteq 1 .. aMade
<1>1. \A f \in Ffts : aSpectrum[f] \in 0 .. aMade /\ aMade \in Nat
  BY DEF SpectraApart
<1>2. ASSUME NEW n \in 0 .. aMade, n # 0 PROVE n \in 1 .. aMade
  BY <1>2
<1>3. {aSpectrum[f] : f \in ended} \ {0} \subseteq 1 .. aMade
  BY <1>1, <1>2
<1> QED
  BY <1>3 DEF SpectraApart

(* When references go and the counts follow, what is freed is what nobody  *)
(* refers to (analys.c:90-101, 434-457).                                   *)
LEMMA Recounted ==
  ASSUME SpectraApart, AnaClean, aMisuse = {}, aFault = "none",
         NEW left \in [Ffts -> Int],
         \A f \in Ffts : left[f] > 0 => aRef[f] > 0,
         aHeld' \subseteq Ffts, CountedOnce(left, aHeld', aFft'), A!Counts(left)
  PROVE  /\ aFault' = "none" /\ aRef' = left
         /\ CountedOnce(aRef', aHeld', aFft')
         /\ SpectraKept(left, aGone')
         /\ aGone' \subseteq 1 .. aMade
<1>1. /\ aRef' = left
      /\ aGone' = aGone \cup ({aSpectrum[f] : f \in A!Ended(left)} \ {0})
      /\ A!Fault(IF \E f \in Ffts : left[f] < 0 \/ (left[f] = 0 /\ f \in aHeld')
                   THEN "count" ELSE "none")
  BY DEF A!Counts
<1>2. ASSUME NEW f \in Ffts PROVE ~(left[f] < 0 \/ (left[f] = 0 /\ f \in aHeld'))
  BY DEF CountedOnce
<1>3. aFault' = "none"
  BY <1>1, <1>2 DEF A!Fault
<1>4. ASSUME NEW f \in Ffts, left[f] > 0, aSpectrum[f] \in aGone' PROVE FALSE
  <2>1. aRef[f] > 0 /\ aSpectrum[f] \notin aGone
    BY <1>4 DEF AnaClean, SpectraKept
  <2>2. PICK g \in A!Ended(left) : aSpectrum[g] = aSpectrum[f] /\ aSpectrum[f] # 0
    BY <1>1, <1>4, <2>1
  <2>3. g \in Ffts /\ left[g] = 0
    BY DEF A!Ended
  <2>4. g = f
    BY <2>2, <2>3 DEF SpectraApart
  <2> QED
    BY <1>4, <2>3, <2>4
<1>5. aGone' \subseteq 1 .. aMade
  BY <1>1, FreedNumbers DEF A!Ended
<1> QED
  BY <1>1, <1>3, <1>4, <1>5 DEF SpectraKept

(* The steps that leave the spectra of the FFTs and their rings alone.     *)
LEMMA ApartKept ==
  ASSUME SpectraApart, UNCHANGED <<aSpectrum, aMade>>,
         \/ UNCHANGED aBuf
         \/ \E f \in Ffts : \E b : aBuf[f] # <<>> /\ aBuf' = [aBuf EXCEPT ![f] = b],
         aRef' \in [Ffts -> Int], aHeld' \subseteq Ffts, aFft' \in Ffts \cup {0},
         aGone' \subseteq 1 .. aMade
  PROVE  SpectraApart'
<1>1. aBuf' = [f \in Ffts |-> aBuf'[f]]
  BY DEF SpectraApart
<1>2. \A f \in Ffts : aBuf'[f] # <<>> => aSpectrum'[f] # 0
  BY DEF SpectraApart
<1> QED
  BY <1>1, <1>2 DEF SpectraApart

(* fft.init frees a spectrum that nobody but the FFT points to and makes   *)
(* another (analys.c:103-121).                                             *)
LEMMA FftInitAnaInv ==
  ASSUME AnaInv, NEW f \in Ffts, NEW n \in Sizes, A!FftInit(f, n)
  PROVE  AnaInv'
<1>1. SpectraApart /\ AnaClean
  BY DEF AnaInv
<1>2. /\ aGone' = aGone \cup ({aSpectrum[f]} \ {0})
      /\ aBuf' = [aBuf EXCEPT ![f] = [i \in 1 .. n |-> 0]]
      /\ aMade' = aMade + 1
      /\ aSpectrum' = [aSpectrum EXCEPT ![f] = aMade + 1]
      /\ A!Misuse(A!If(aFft = f, "init"))
      /\ UNCHANGED <<aRef, aHeld, aFft, aFval, aFault>>
  BY DEF A!FftInit, A!anaVars
<1>3. /\ aMade \in Nat /\ aSpectrum \in [Ffts -> 0 .. aMade]
      /\ aGone \subseteq 1 .. aMade
  BY <1>1 DEF SpectraApart
<1>4. /\ aSpectrum'[f] = aMade + 1
      /\ \A g \in Ffts : g # f => aSpectrum'[g] = aSpectrum[g]
  BY <1>2, <1>3
<1>5. SpectraApart'
  <2>1. aMade' \in Nat /\ aSpectrum' \in [Ffts -> 0 .. aMade']
    BY <1>2, <1>3
  <2>2. aGone' \subseteq 1 .. aMade'
    <3>1. aGone' = aGone \cup ({aSpectrum[g] : g \in {f}} \ {0})
      BY <1>2
    <3>2. aGone' \subseteq 1 .. aMade
      BY <1>1, <3>1, FreedNumbers
    <3> QED
      BY <1>2, <1>3, <3>2
  <2>3. aBuf' = [g \in Ffts |-> aBuf'[g]]
    BY <1>1, <1>2 DEF SpectraApart
  <2>4. ASSUME NEW g \in Ffts, aBuf'[g] # <<>> PROVE aSpectrum'[g] # 0
    <3>1. CASE g = f
      BY <1>3, <1>4, <3>1
    <3>2. CASE g # f
      <4>1. aBuf[g] # <<>>
        BY <1>1, <1>2, <2>4, <3>2 DEF SpectraApart
      <4> QED
        BY <1>1, <1>4, <3>2, <4>1 DEF SpectraApart
    <3> QED
      BY <3>1, <3>2
  <2>5. ASSUME NEW g \in Ffts, NEW h \in Ffts, aSpectrum'[g] = aSpectrum'[h], aSpectrum'[g] # 0
        PROVE  g = h
    <3>1. aSpectrum[g] # aMade + 1 /\ aSpectrum[h] # aMade + 1
      BY <1>3
    <3> QED
      BY <1>1, <1>4, <2>5, <3>1 DEF SpectraApart
  <2> QED
    BY <1>1, <1>2, <2>1, <2>2, <2>3, <2>4, <2>5 DEF SpectraApart
<1>6. AnaClean'
  <2> SUFFICES ASSUME aMisuse' = {} PROVE AnaClean'
    BY DEF AnaClean
  <2>1. aFft # f /\ aMisuse = {}
    BY <1>2 DEF A!Misuse, A!If
  <2>2. /\ aFault = "none" /\ CountedOnce(aRef, aHeld, aFft)
        /\ SpectraKept(aRef, aGone)
        /\ aFft # 0 => aFval = aSpectrum[aFft] /\ aFval # 0
    BY <1>1, <2>1 DEF AnaClean
  <2>3. ASSUME NEW g \in Ffts, aRef[g] > 0 PROVE aSpectrum'[g] \notin aGone'
    <3>1. CASE g = f
      <4>1. aMade + 1 \notin aGone /\ aMade + 1 # aSpectrum[f]
        BY <1>3
      <4> QED
        BY <1>2, <1>4, <3>1, <4>1
    <3>2. CASE g # f
      <4>1. aSpectrum[g] \notin aGone
        BY <2>2, <2>3 DEF SpectraKept
      <4>2. aSpectrum[g] = aSpectrum[f] => aSpectrum[f] = 0
        BY <1>1, <3>2 DEF SpectraApart
      <4> QED
        BY <1>2, <1>4, <3>2, <4>1, <4>2
    <3> QED
      BY <3>1, <3>2
  <2>4. aFft # 0 => aFft \in Ffts
    BY <1>1 DEF SpectraApart
  <2> QED
    BY <1>2, <1>4, <2>1, <2>2, <2>3, <2>4 DEF AnaClean, CountedOnce, SpectraKept
<1> QED
  BY <1>5, <1>6 DEF AnaInv

(* ana.fft releases the FFT there was before it counts the one it is given *)
(* (analys.c:434-457).                                                     *)
LEMMA SetAnaInv ==
  ASSUME AnaInv, NEW f \in Ffts, A!Set(f)
  PROVE  AnaInv'
<1> DEFINE left == [A!Less(aFft) EXCEPT ![f] = @ + 1]
<1>1. SpectraApart /\ AnaClean
  BY DEF AnaInv
<1>2. /\ f \in aHeld /\ aBuf[f] # <<>> /\ aFault = "none"
      /\ A!Counts(left)
      /\ aFft' = f /\ aFval' = aSpectrum[f]
      /\ UNCHANGED <<aHeld, aBuf, aSpectrum, aMade>>
      /\ aMisuse' = aMisuse
  BY DEF A!Set, A!Given, A!Misuse, A!Going
<1>3. 0 \notin Ffts
  BY UnitsAssumption DEF A!AnalysAssumption
<1>4. aRef \in [Ffts -> Int] /\ aFft \in Ffts \cup {0} /\ aHeld \subseteq Ffts
  BY <1>1 DEF SpectraApart
<1>5. /\ A!Less(aFft) \in [Ffts -> Int]
      /\ \A g \in Ffts : A!Less(aFft)[g] = IF aFft = g THEN aRef[g] - 1 ELSE aRef[g]
  <2>1. CASE aFft = 0
    BY <1>3, <1>4, <2>1 DEF A!Less
  <2>2. CASE aFft # 0
    BY <1>4, <2>2 DEF A!Less
  <2> QED
    BY <2>1, <2>2
<1>6. /\ left \in [Ffts -> Int]
      /\ \A g \in Ffts : left[g] = IF f = g THEN A!Less(aFft)[g] + 1 ELSE A!Less(aFft)[g]
  BY <1>5
<1> HIDE DEF left
<1>7. aRef' = left /\ aGone' \subseteq 1 .. aMade
  <2>1. aRef' = left
        /\ aGone' = aGone \cup ({aSpectrum[g] : g \in A!Ended(left)} \ {0})
    BY <1>2 DEF A!Counts
  <2>2. A!Ended(left) \subseteq Ffts
    BY DEF A!Ended
  <2> QED
    BY <1>1, <2>1, <2>2, FreedNumbers
<1>8. SpectraApart'
  BY <1>1, <1>2, <1>4, <1>6, <1>7, ApartKept
<1>9. AnaClean'
  <2> SUFFICES ASSUME aMisuse = {} PROVE AnaClean'
    BY <1>2 DEF AnaClean
  <2>1. CountedOnce(aRef, aHeld, aFft)
    BY <1>1 DEF AnaClean
  <2>2. ASSUME NEW g \in Ffts
        PROVE  /\ left[g] = (IF g \in aHeld THEN 1 ELSE 0) + IF f = g THEN 1 ELSE 0
               /\ left[g] > 0 => aRef[g] > 0
    <3>1. aRef[g] = (IF g \in aHeld THEN 1 ELSE 0) + IF aFft = g THEN 1 ELSE 0
      BY <2>1 DEF CountedOnce
    <3>2. A!Less(aFft)[g] = IF g \in aHeld THEN 1 ELSE 0
      BY <1>4, <1>5, <3>1
    <3> QED
      BY <1>2, <1>6, <3>1, <3>2
  <2>3. CountedOnce(left, aHeld', aFft')
    BY <1>2, <2>2 DEF CountedOnce
  <2>4. /\ aFault' = "none" /\ CountedOnce(aRef', aHeld', aFft')
        /\ SpectraKept(left, aGone')
    BY <1>1, <1>2, <1>4, <1>6, <2>2, <2>3, Recounted
  <2>5. aFval' = aSpectrum[f] /\ aSpectrum[f] # 0
    BY <1>1, <1>2 DEF SpectraApart
  <2> QED
    BY <1>2, <1>7, <2>4, <2>5 DEF AnaClean, SpectraKept
<1> QED
  BY <1>8, <1>9 DEF AnaInv

(* The others release without taking.                                      *)
LEMMA ReleaseAnaInv ==
  ASSUME AnaInv, A!SetNull \/ \E f \in Ffts : A!SetUninitialised(f) \/ A!Drop(f)
  PROVE  AnaInv'
<1>1. SpectraApart /\ AnaClean
  BY DEF AnaInv
<1>2. 0 \notin Ffts
  BY UnitsAssumption DEF A!AnalysAssumption
<1>3. aRef \in [Ffts -> Int] /\ aFft \in Ffts \cup {0} /\ aHeld \subseteq Ffts
  BY <1>1 DEF SpectraApart
<1>4. \A h \in Ffts \cup {0} :
        /\ A!Less(h) \in [Ffts -> Int]
        /\ \A g \in Ffts : A!Less(h)[g] = IF h = g THEN aRef[g] - 1 ELSE aRef[g]
  BY <1>2, <1>3 DEF A!Less
<1>5. ASSUME NEW left \in [Ffts -> Int], A!Counts(left)
      PROVE  aRef' = left /\ aGone' \subseteq 1 .. aMade
  <2>1. aRef' = left
        /\ aGone' = aGone \cup ({aSpectrum[g] : g \in A!Ended(left)} \ {0})
    BY <1>5 DEF A!Counts
  <2>2. A!Ended(left) \subseteq Ffts
    BY DEF A!Ended
  <2> QED
    BY <1>1, <2>1, <2>2, FreedNumbers
<1>6. CASE A!SetNull
  <2>1. /\ A!Counts(A!Less(aFft)) /\ aFault = "none"
        /\ aFval' = 0
        /\ A!Misuse(A!If(aFft # 0, "null"))
        /\ UNCHANGED <<aHeld, aBuf, aSpectrum, aMade, aFft>>
    BY <1>6 DEF A!SetNull, A!Given, A!Going
  <2>2. SpectraApart'
    BY <1>1, <1>3, <1>4, <1>5, <2>1, ApartKept
  <2>3. AnaClean'
    <3> SUFFICES ASSUME aMisuse' = {} PROVE AnaClean'
      BY DEF AnaClean
    <3>1. aFft = 0 /\ aMisuse = {}
      BY <2>1 DEF A!Misuse, A!If
    <3>2. A!Less(aFft) = aRef
      BY <3>1 DEF A!Less
    <3>3. CountedOnce(aRef, aHeld', aFft')
      BY <1>1, <2>1, <3>1 DEF AnaClean
    <3>4. /\ aFault' = "none" /\ aRef' = aRef /\ CountedOnce(aRef', aHeld', aFft')
          /\ SpectraKept(aRef, aGone')
      BY <1>1, <1>3, <2>1, <3>1, <3>2, <3>3, Recounted
    <3> QED
      BY <2>1, <3>1, <3>4 DEF AnaClean, SpectraKept
  <2> QED
    BY <2>2, <2>3 DEF AnaInv
<1>7. ASSUME NEW f \in Ffts, A!SetUninitialised(f) PROVE AnaInv'
  <2> DEFINE left == [A!Less(aFft) EXCEPT ![f] = @ - 1]
  <2>1. /\ A!Counts(left)
        /\ A!Misuse({"uninitialised"})
        /\ UNCHANGED <<aHeld, aBuf, aSpectrum, aMade, aFft>>
    BY <1>7 DEF A!SetUninitialised, A!Given
  <2>2. left \in [Ffts -> Int]
    BY <1>3, <1>4
  <2> HIDE DEF left
  <2>3. SpectraApart'
    BY <1>1, <1>3, <1>5, <2>1, <2>2, ApartKept
  <2>4. AnaClean'
    BY <2>1 DEF AnaClean, A!Misuse
  <2> QED
    BY <2>3, <2>4 DEF AnaInv
<1>8. ASSUME NEW f \in Ffts, A!Drop(f) PROVE AnaInv'
  <2>1. /\ A!Counts(A!Less(f)) /\ aFault = "none"
        /\ f \in aHeld /\ aHeld' = aHeld \ {f}
        /\ UNCHANGED <<aBuf, aSpectrum, aMade, aFft, aFval, aMisuse>>
    BY <1>8 DEF A!Drop, A!anaVars, A!Going
  <2>2. SpectraApart'
    BY <1>1, <1>3, <1>4, <1>5, <2>1, ApartKept
  <2>3. AnaClean'
    <3> SUFFICES ASSUME aMisuse = {} PROVE AnaClean'
      BY <2>1 DEF AnaClean
    <3>1. CountedOnce(aRef, aHeld, aFft) /\ (aFft # 0 => aFval = aSpectrum[aFft] /\ aFval # 0)
      BY <1>1 DEF AnaClean
    <3>2. ASSUME NEW g \in Ffts
          PROVE  /\ A!Less(f)[g] = (IF g \in aHeld' THEN 1 ELSE 0) + IF aFft = g THEN 1 ELSE 0
                 /\ A!Less(f)[g] > 0 => aRef[g] > 0
      <4>1. aRef[g] = (IF g \in aHeld THEN 1 ELSE 0) + IF aFft = g THEN 1 ELSE 0
        BY <3>1 DEF CountedOnce
      <4> QED
        BY <1>3, <1>4, <2>1, <4>1
    <3>3. CountedOnce(A!Less(f), aHeld', aFft') /\ aHeld' \subseteq Ffts
      BY <1>3, <2>1, <3>2 DEF CountedOnce
    <3>4. /\ aFault' = "none" /\ aRef' = A!Less(f) /\ CountedOnce(aRef', aHeld', aFft')
          /\ SpectraKept(A!Less(f), aGone')
      BY <1>1, <1>4, <2>1, <3>2, <3>3, Recounted
    <3> QED
      BY <2>1, <3>1, <3>4 DEF AnaClean, SpectraKept
  <2> QED
    BY <2>2, <2>3 DEF AnaInv
<1> QED
  BY <1>6, <1>7, <1>8

(* Every call and every tick (analys.c:90-136, 400-457).                   *)
LEMMA NextAnaInv == AnaInv /\ [A!Next]_(A!vars) => AnaInv'
<1> SUFFICES ASSUME AnaInv, [A!Next]_(A!vars) PROVE AnaInv'
  OBVIOUS
<1>1. SpectraApart /\ AnaClean
  BY DEF AnaInv
<1>2. CASE UNCHANGED A!vars
  BY <1>2 DEF A!vars, A!fftVars, A!anaVars, AnaInv, SpectraApart, AnaClean,
              CountedOnce, SpectraKept
<1>3. ASSUME NEW f \in Ffts, NEW n \in Sizes, A!FftRefused(f, n) PROVE AnaInv'
  BY <1>2, <1>3 DEF A!FftRefused
<1>4. ASSUME NEW f \in Ffts, NEW s \in Samples, NEW trig \in BOOLEAN, A!Tick(f, s, trig)
      PROVE  AnaInv'
  <2>1. /\ aBuf[f] # <<>>
        /\ aBuf' = [aBuf EXCEPT ![f] = [aBuf[f] EXCEPT ![aRing[f] + 1] = s]]
        /\ UNCHANGED <<aRef, aHeld, aSpectrum, aMade, aGone, aFft, aFval, aMisuse, aFault>>
    BY <1>4 DEF A!Tick
  <2>2. SpectraApart'
    <3>1. /\ aRef' \in [Ffts -> Int] /\ aHeld' \subseteq Ffts
          /\ aFft' \in Ffts \cup {0} /\ aGone' \subseteq 1 .. aMade
      BY <1>1, <2>1 DEF SpectraApart
    <3> QED
      BY <1>1, <2>1, <3>1, ApartKept
  <2>3. AnaClean'
    BY <1>1, <2>1 DEF AnaClean, CountedOnce, SpectraKept
  <2> QED
    BY <2>2, <2>3 DEF AnaInv
<1>5. ASSUME NEW f \in Ffts, A!FftCompute(f) PROVE AnaInv'
  BY <1>1, <1>5 DEF A!FftCompute, A!anaVars, AnaInv, SpectraApart, AnaClean,
                    CountedOnce, SpectraKept
<1>6. CASE A!AnaCompute
  <2>1. /\ aFft # 0 /\ aFault = "none"
        /\ A!Fault(IF aSize > 0 /\ aFval = 0 THEN "null"
                   ELSE IF aSize > 0 /\ aFval \in aGone THEN "stale" ELSE "none")
        /\ UNCHANGED <<aRef, aHeld, aBuf, aSpectrum, aMade, aGone, aFft, aFval, aMisuse>>
    BY <1>6 DEF A!AnaCompute, A!Read, A!fftVars, A!Going
  <2>2. SpectraApart'
    BY <1>1, <2>1 DEF SpectraApart
  <2>3. AnaClean'
    <3> SUFFICES ASSUME aMisuse = {} PROVE AnaClean'
      BY <2>1 DEF AnaClean
    <3>1. /\ CountedOnce(aRef, aHeld, aFft) /\ SpectraKept(aRef, aGone)
          /\ aFval = aSpectrum[aFft] /\ aFval # 0
      BY <1>1, <2>1 DEF AnaClean
    <3>2. aFft \in Ffts
      BY <1>1, <2>1 DEF SpectraApart
    <3>3. aRef[aFft] > 0
      BY <3>1, <3>2 DEF CountedOnce
    <3>4. aFval \notin aGone
      BY <3>1, <3>2, <3>3 DEF SpectraKept
    <3>5. aFault' = "none"
      BY <2>1, <3>1, <3>4 DEF A!Fault
    <3> QED
      BY <2>1, <3>1, <3>5 DEF AnaClean, CountedOnce, SpectraKept
  <2> QED
    BY <2>2, <2>3 DEF AnaInv
<1>7. CASE A!RolloffCompute
  <2>1. /\ UNCHANGED <<aRef, aHeld, aBuf, aSpectrum, aMade, aGone, aFft, aFval>>
        /\ aMisuse' = aMisuse \cup {"percent"}
    BY <1>7 DEF A!RolloffCompute, A!Misuse, A!fftVars
  <2>2. SpectraApart' /\ aMisuse' # {}
    BY <1>1, <2>1 DEF SpectraApart
  <2> QED
    BY <2>2 DEF AnaInv, AnaClean
<1> QED
  BY <1>2, <1>3, <1>4, <1>5, <1>6, <1>7, FftInitAnaInv, SetAnaInv, ReleaseAnaInv DEF A!Next

(* An ANA reads no spectrum that was freed and keeps no reference that is  *)
(* not its own, for any number of FFTs (analys.c:107-114, 434-457).        *)
THEOREM AnalysIsSafe == UnitsSpec => []A!SafeWithoutMisuse
<1>1. UnitsInit => A!Init
  BY DEF UnitsInit
<1>2. AnaInv => A!SafeWithoutMisuse
  <2> SUFFICES ASSUME AnaInv, aMisuse = {} PROVE A!SafeWithoutMisuse
    BY DEF A!SafeWithoutMisuse
  <2>1. aFault = "none" /\ CountedOnce(aRef, aHeld, aFft)
    BY DEF AnaInv, AnaClean
  <2>2. \A f : A!Cardinality({f} \cap aHeld) = IF f \in aHeld THEN 1 ELSE 0
    BY HeldOnceCounts DEF HeldOnce
  <2> QED
    BY <2>1, <2>2 DEF A!SafeWithoutMisuse, CountedOnce
<1> QED
  BY <1>1, <1>2, UnitsStepsAnalys, InitAnaInv, NextAnaInv, PTL DEF UnitsSpec

-----------------------------------------------------------------------------
(* Lsys                                                                    *)

(* The item that a listener expects is the one that is played next, unless *)
(* there was a questionable use.                                           *)
Playhead ==
  lIsInit /\ lMisuse = {} /\ lList \in Seq(Int) =>
    /\ lAt \in Nat
    /\ lList # <<>> => lAt < Len(lList)
    /\ lDue = lAt + 1
    /\ lAt # 0 => lLast = lAt + 1
    /\ lHeard # 0 => lHeard \in DOMAIN lList /\ lOut = lList[lHeard]

(* Nothing was parsed yet.                                                 *)
LEMMA InitPlayhead == L!Init => Playhead
BY DEF L!Init, Playhead

(* The list is wrapped round at its end (lsys.c:172-208).                  *)
LEMMA TickPlayhead ==
  ASSUME Playhead, NEW trig \in BOOLEAN, L!Tick(trig)
  PROVE  Playhead'
<1> SUFFICES ASSUME lIsInit, lMisuse = {}, lList \in Seq(Int) PROVE Playhead'
  BY DEF L!Tick, Playhead
<1> DEFINE n == Len(lList)
<1>1. /\ lAt \in Nat /\ n \in Nat
      /\ lList # <<>> => lAt < n
      /\ lDue = lAt + 1
      /\ lAt # 0 => lLast = lAt + 1
      /\ lHeard # 0 => lHeard \in DOMAIN lList /\ lOut = lList[lHeard]
      /\ UNCHANGED <<lIsInit, lMisuse, lList>>
  BY DEF Playhead, L!Tick
<1>2. CASE ~trig
  BY <1>1, <1>2 DEF L!Tick, Playhead
<1>3. CASE trig /\ L!IterFault # "none"
  BY <1>1, <1>3 DEF L!Tick, Playhead
<1>4. CASE trig /\ L!IterFault = "none"
  <2>1. /\ lList # <<>> /\ L!Item \in DOMAIN lList
        /\ lLast' = L!Item + 1
        /\ lAt' = (lAt + 1) % n
        /\ lOut' = lList[L!Item]
        /\ lHeard' = lDue
        /\ lDue' = (lDue % n) + 1
    BY <1>4 DEF L!Tick, L!IterFault
  <2>2. L!Item = lAt + 1
    <3>1. CASE lAt = 0
      BY <3>1 DEF L!Item
    <3>2. CASE lAt # 0
      BY <1>1, <3>2 DEF L!Item
    <3> QED
      BY <3>1, <3>2
  <2>3. n > 0
    BY <1>1, <2>1
  <2> HIDE DEF n
  <2>4. n \in Nat \ {0} /\ lAt + 1 \in 0 .. 2 * n - 1
    BY <1>1, <2>1, <2>3
  <2>5. (lAt + 1) % n = IF lAt + 1 < n THEN lAt + 1 ELSE (lAt + 1) - n
    BY <2>4, ModTwice
  <2>6. lAt' = IF lAt + 1 < n THEN lAt + 1 ELSE 0
    BY <1>1, <2>1, <2>3, <2>5
  <2>7. lAt' \in Nat /\ lAt' < n /\ lDue' = lAt' + 1
    BY <1>1, <2>1, <2>3, <2>6
  <2>8. lAt' # 0 => lLast' = lAt' + 1
    BY <1>1, <2>1, <2>2, <2>6
  <2> QED
    BY <1>1, <2>1, <2>2, <2>7, <2>8 DEF Playhead, n
<1> QED
  BY <1>2, <1>3, <1>4

(* A parse starts over, and so does a reset before anything was played     *)
(* (Lsys/plug.c:68-100).                                                   *)
LEMMA NextPlayhead == Playhead /\ [L!Next]_(L!vars) => Playhead'
<1> SUFFICES ASSUME Playhead, [L!Next]_(L!vars) PROVE Playhead'
  OBVIOUS
<1>1. CASE UNCHANGED L!vars
  BY <1>1 DEF L!vars, L!player, Playhead
<1>2. CASE L!Ctor
  BY <1>2 DEF L!Ctor, L!player, Playhead
<1>3. CASE L!Dtor
  BY <1>3 DEF L!Dtor, L!player, Playhead
<1>4. CASE L!Get
  BY <1>4 DEF L!Get, L!Misuse, Playhead
<1>5. CASE L!Reset
  <2>1. /\ lLast' = IF lIsInit THEN 1 ELSE lLast
        /\ lDue' = 1
        /\ lMisuse' = lMisuse \cup L!If(lIsInit /\ lAt # 0, "reset")
        /\ UNCHANGED <<lList, lAt, lIsInit, lOut, lHeard>>
    BY <1>5 DEF L!Reset, L!Misuse
  <2>2. lIsInit /\ lMisuse' = {} => lMisuse = {} /\ lAt = 0
    BY <2>1 DEF L!If
  <2> QED
    BY <2>1, <2>2 DEF Playhead
<1>6. ASSUME NEW g, NEW str, NEW n, L!Parse(g, str, n) PROVE Playhead'
  <2>1. lAt' = 0 /\ lDue' = 1 /\ lHeard' = 0
    BY <1>6 DEF L!Parse
  <2>2. lList' \in Seq(Int) /\ lList' # <<>> => 0 < Len(lList')
    OBVIOUS
  <2> QED
    BY <2>1, <2>2 DEF Playhead
<1>7. ASSUME NEW trig \in BOOLEAN, L!Tick(trig) PROVE Playhead'
  BY <1>7, TickPlayhead
<1>8. CASE L!ParseNull
  BY <1>8 DEF L!ParseNull, L!Misuse, L!player, Playhead
<1> QED
  BY <1>1, <1>2, <1>3, <1>4, <1>5, <1>6, <1>7, <1>8
     DEF L!Next, L!ParseGrammar, L!ParseOther

(* The list parsed is the order's generation, item by item.                *)
ParsedAsMeant ==
  lIsInit /\ lMisuse = {} =>
    LET w == L!Generation(lMeant[1], lMeant[2])
    IN  lList \in Seq(Int) /\ lList = [i \in DOMAIN w |-> L!ToInt(w[i])]

(* Of a grammar that is parsed as it is meant, the ticks play the          *)
(* generation from its first symbol to its last and over again, however    *)
(* long it is and whatever comes between them (lsys.c:172-208).            *)
THEOREM LsysPlaysInOrder == UnitsSpec => [](ParsedAsMeant => L!PlaysGeneration)
<1>1. UnitsInit => L!Init
  BY DEF UnitsInit
<1>2. ASSUME [UnitsNext]_<<plug, vars, soundpipeVars, lsysVars, analysVars, fmVars, srVars>>
      PROVE  [L!Next]_(L!vars)
  <2>1. UNCHANGED lsysVars => UNCHANGED L!vars
    BY DEF lsysVars, L!vars, L!parser, L!player
  <2> QED
    BY <1>2, <2>1 DEF UnitsNext, Rest
<1>3. Playhead => (ParsedAsMeant => L!PlaysGeneration)
  <2> DEFINE w == L!Generation(lMeant[1], lMeant[2])
  <2> SUFFICES ASSUME Playhead, ParsedAsMeant, lIsInit, lMisuse = {}
               PROVE  /\ lList = [i \in DOMAIN w |-> L!ToInt(w[i])]
                      /\ lHeard # 0 => lOut = L!ToInt(w[lHeard])
    BY DEF L!PlaysGeneration
  <2>1. lList \in Seq(Int) /\ lList = [i \in DOMAIN w |-> L!ToInt(w[i])]
    BY DEF ParsedAsMeant
  <2>2. lHeard # 0 => lHeard \in DOMAIN lList /\ lOut = lList[lHeard]
    BY <2>1 DEF Playhead
  <2> HIDE DEF w
  <2> QED
    BY <2>1, <2>2
<1> QED
  BY <1>1, <1>2, <1>3, InitPlayhead, NextPlayhead, PTL DEF UnitsSpec

-----------------------------------------------------------------------------
(* FMSynth                                                                 *)

(* What is true of a program whose loads succeed: the object's synthesizer *)
(* is the one that is ticked and the only one that was not given back.     *)
FmInv ==
  fMisuse = {} =>
    /\ fFault = "none"
    /\ fSynth = fData
    /\ ~fLeft
    /\ fSynths \in Nat
    /\ fFreed \subseteq 1 .. fSynths
    /\ fLife = "none" => fSynths = 0
    /\ fLife = "live" => fSynth \in 1 .. fSynths
    /\ (1 .. fSynths) \ fFreed = IF fLife = "live" THEN {fSynth} ELSE {}

(* Nothing was made at first (fmsynth.c:28-38).                            *)
LEMMA InitFmInv == F!Init => FmInv
BY SMT DEF F!Init, FmInv

(* Each call gives back the synthesizer before it makes the next           *)
(* (fmsynth.c:49-56, 96-145).                                              *)
LEMMA NextFmInv == FmInv /\ [F!Next]_(F!vars) => FmInv'
<1> SUFFICES ASSUME FmInv, [F!Next]_(F!vars) PROVE FmInv'
  OBVIOUS
<1>1. CASE UNCHANGED F!vars
  BY <1>1 DEF F!vars, FmInv
<1>2. CASE F!Ctor
  BY <1>2, SMT DEF F!Ctor, F!New, FmInv
<1>3. CASE F!InitSynth
  BY <1>3, SMT DEF F!InitSynth, F!Live, F!Free, F!New, FmInv
<1>4. CASE F!Use
  BY <1>4, SMT DEF F!Use, F!Live, FmInv
<1>5. CASE F!Tick
  BY <1>5, SMT DEF F!Tick, F!Live, FmInv
<1>6. CASE F!Load
  BY <1>6, SMT DEF F!Load, F!Live, F!Free, F!New, FmInv
<1>7. CASE F!Save
  BY <1>7 DEF F!Save, FmInv
<1>8. CASE F!SaveRefused
  BY <1>8 DEF F!SaveRefused, F!vars, FmInv
<1>9. CASE F!Dtor
  BY <1>9, SMT DEF F!Dtor, F!Live, F!Free, FmInv
<1>10. ASSUME NEW open \in BOOLEAN, F!LoadFails(open) PROVE FmInv'
  BY <1>10 DEF F!LoadFails, FmInv
<1>11. CASE F!Names
  <2>1. CASE fNamed
    BY <1>11, <2>1 DEF F!Names, FmInv
  <2>2. CASE ~fNamed
    BY <1>11, <2>2 DEF F!Names, FmInv
  <2> QED
    BY <2>1, <2>2
<1>12. CASE F!Null
  BY <1>12 DEF F!Null, FmInv
<1> QED
  BY <1>1, <1>2, <1>3, <1>4, <1>5, <1>6, <1>7, <1>8, <1>9, <1>10, <1>11, <1>12 DEF F!Next

(* What is called and ticked is the last synthesizer, and every other was  *)
(* given back once, however many there were, if every load succeeds,       *)
(* nothing is saved or null and no name is looked at that a load left      *)
(* (fmsynth.c:28-38, 49-145).                                              *)
THEOREM FMSynthIsSafe == UnitsSpec => []F!SafeWithoutMisuse
<1>1. UnitsInit => F!Init
  BY DEF UnitsInit
<1>2. ASSUME [UnitsNext]_<<plug, vars, soundpipeVars, lsysVars, analysVars, fmVars, srVars>>
      PROVE  [F!Next]_(F!vars)
  <2>1. UNCHANGED fmVars => UNCHANGED F!vars
    BY DEF fmVars, F!vars
  <2> QED
    BY <1>2, <2>1 DEF UnitsNext, Rest
<1>3. FmInv => F!SafeWithoutMisuse
  BY DEF FmInv, F!SafeWithoutMisuse
<1> QED
  BY <1>1, <1>2, <1>3, InitFmInv, NextFmInv, PTL DEF UnitsSpec

-----------------------------------------------------------------------------
(* TinySR                                                                  *)

SrTyped ==
  /\ rSmp \in [0 .. ReadSamps - 1 -> Int]
  /\ rIdx \in Nat
  /\ rFed \in Nat
  /\ rWords \in Nat
  /\ rIndex \in Nat
  /\ rIni \in BOOLEAN
  /\ rHeard \in Seq(Int)

(* The samples are those that were recognised and then those of the block, *)
(* unless no model came before the block was full.                         *)
SrBlock ==
  "late" \notin rMisuse =>
    /\ rIdx < ReadSamps
    /\ Len(rHeard) + rIdx = rFed
    /\ \A i \in 1 .. Len(rHeard) : rHeard[i] = i
    /\ \A i \in 0 .. rIdx - 1 : rSmp[i] = Len(rHeard) + i + 1

(* The index is that of a word, once there is a model that has some.       *)
SrIndex ==
  /\ rWords = 0 => rIndex = 0
  /\ rWords > 0 => rIndex < rWords
  /\ rMisuse = {} => rFault = "none" /\ (rIni => rWords > 0)

SrInv == SrTyped /\ SrBlock /\ SrIndex

(* No sample and no model came yet (tinysr.c:32-52).                       *)
LEMMA InitSrInv == R!Init => SrInv
<1> SUFFICES ASSUME R!Init PROVE SrInv
  OBVIOUS
<1>1. ReadSamps \in Nat \ {0}
  BY UnitsAssumption DEF R!TinySRAssumption
<1>2. <<>> \in Seq(Int) /\ Len(<<>>) = 0
  OBVIOUS
<1>3. /\ rSmp = [i \in 0 .. ReadSamps - 1 |-> 0] /\ rHeard = <<>>
      /\ rIdx = 0 /\ rFed = 0 /\ rWords = 0 /\ rIndex = 0
      /\ rIni = FALSE /\ rMisuse = {} /\ rFault = "none"
  BY DEF R!Init
<1>4. rSmp \in [0 .. ReadSamps - 1 -> Int]
  BY <1>3
<1>5. SrTyped
  BY <1>2, <1>3, <1>4 DEF SrTyped
<1>6. SrBlock
  <2>1. Len(rHeard) = 0
    BY <1>2, <1>3
  <2> QED
    BY <1>1, <1>3, <2>1 DEF SrBlock
<1>7. SrIndex
  BY <1>3 DEF SrIndex
<1> QED
  BY <1>5, <1>6, <1>7 DEF SrInv

(* A sample is put in the block, which is recognised when it is full       *)
(* (tinysr.c:54-80).                                                       *)
LEMMA TickSrInv ==
  ASSUME SrInv, R!Tick
  PROVE  SrInv'
<1>1. SrTyped /\ SrBlock /\ SrIndex
  BY DEF SrInv
<1>2. /\ rIdx \in 0 .. ReadSamps - 1 /\ rFed' = rFed + 1
      /\ rSmp' = [rSmp EXCEPT ![rIdx] = rFed + 1]
      /\ UNCHANGED <<rIni, rWords, rFault>>
  BY <1>1 DEF R!Tick, SrTyped
<1>3. ReadSamps \in Nat \ {0} /\ rFed \in Nat /\ rIdx \in Nat
  BY <1>1, UnitsAssumption DEF R!TinySRAssumption, SrTyped
<1>4. /\ rSmp' \in [0 .. ReadSamps - 1 -> Int]
      /\ rSmp'[rIdx] = rFed + 1
      /\ \A i \in 0 .. ReadSamps - 1 : i # rIdx => rSmp'[i] = rSmp[i]
  BY <1>1, <1>2, <1>3 DEF SrTyped
<1>5. CASE rIdx + 1 = ReadSamps /\ rIni
  <2> DEFINE block == [i \in 1 .. ReadSamps |-> rSmp'[i - 1]]
  <2>1. /\ rHeard' = rHeard \o block
        /\ rIndex' \in {rIndex} \cup 0 .. rWords - 1
        /\ rIdx' = 0
        /\ UNCHANGED rMisuse
    BY <1>5 DEF R!Tick, R!Recognise
  <2>2. \A i \in 1 .. ReadSamps : i - 1 \in 0 .. ReadSamps - 1
    BY <1>3
  <2>3. block \in Seq(Int) /\ Len(block) = ReadSamps
    BY <1>3, <1>4, <2>2
  <2>4. \A i \in 1 .. ReadSamps : block[i] = rSmp'[i - 1]
    OBVIOUS
  <2> HIDE DEF block
  <2>5. rHeard \in Seq(Int) /\ Len(rHeard) \in Nat
    BY <1>1 DEF SrTyped
  <2>6. /\ rHeard' \in Seq(Int)
        /\ Len(rHeard') = Len(rHeard) + ReadSamps
        /\ \A i \in 1 .. Len(rHeard) + ReadSamps :
             rHeard'[i] = IF i <= Len(rHeard) THEN rHeard[i] ELSE block[i - Len(rHeard)]
    BY <2>1, <2>3, <2>5, ConcatProperties
  <2>7. SrTyped'
    BY <1>1, <1>2, <1>3, <1>4, <2>1, <2>6 DEF SrTyped
  <2>8. SrBlock'
    <3>1. SUFFICES ASSUME "late" \notin rMisuse
                   PROVE  /\ Len(rHeard') = rFed'
                          /\ \A i \in 1 .. Len(rHeard') : rHeard'[i] = i
      BY <1>3, <2>1, <2>6 DEF SrBlock
    <3>2. /\ Len(rHeard) + rIdx = rFed
          /\ \A i \in 1 .. Len(rHeard) : rHeard[i] = i
          /\ \A i \in 0 .. rIdx - 1 : rSmp[i] = Len(rHeard) + i + 1
      BY <1>1, <3>1 DEF SrBlock
    <3>3. Len(rHeard') = rFed'
      BY <1>2, <1>3, <1>5, <2>5, <2>6, <3>2
    <3>4. \A j \in 1 .. ReadSamps : block[j] = Len(rHeard) + j
      <4> SUFFICES ASSUME NEW j \in 1 .. ReadSamps PROVE block[j] = Len(rHeard) + j
        OBVIOUS
      <4>1. CASE j = ReadSamps
        <5>1. block[j] = rSmp'[rIdx] /\ ReadSamps = rIdx + 1
          BY <1>3, <1>5, <2>4, <4>1
        <5>2. rFed + 1 = Len(rHeard) + j
          BY <1>3, <2>5, <3>2, <4>1, <5>1
        <5> QED
          BY <1>4, <5>1, <5>2
      <4>2. CASE j # ReadSamps
        <5>1. j - 1 \in 0 .. rIdx - 1 /\ j - 1 \in 0 .. ReadSamps - 1 /\ j - 1 # rIdx
          BY <1>3, <1>5, <4>2
        <5>2. block[j] = Len(rHeard) + (j - 1) + 1
          BY <1>4, <2>4, <3>2, <5>1
        <5> QED
          BY <2>5, <5>2
      <4> QED
        BY <4>1, <4>2
    <3>5. ASSUME NEW i \in 1 .. Len(rHeard') PROVE rHeard'[i] = i
      <4>1. CASE i <= Len(rHeard)
        BY <2>5, <2>6, <3>2, <4>1
      <4>2. CASE ~(i <= Len(rHeard))
        <5>1. i - Len(rHeard) \in 1 .. ReadSamps
          BY <1>3, <2>5, <2>6, <4>2
        <5>2. rHeard'[i] = Len(rHeard) + (i - Len(rHeard))
          BY <2>6, <3>4, <4>2, <5>1
        <5> QED
          BY <2>5, <2>6, <5>2
      <4> QED
        BY <4>1, <4>2
    <3> QED
      BY <3>3, <3>5
  <2>9. SrIndex'
    BY <1>1, <1>2, <2>1, SMT DEF SrTyped, SrIndex
  <2> QED
    BY <2>7, <2>8, <2>9 DEF SrInv
<1>6. CASE ~(rIdx + 1 = ReadSamps /\ rIni)
  <2>1. /\ rIdx' = rIdx + 1
        /\ rMisuse' = IF rIdx + 1 = ReadSamps THEN rMisuse \cup {"late"} ELSE rMisuse
        /\ UNCHANGED <<rHeard, rIndex>>
    BY <1>6 DEF R!Tick
  <2>2. SrTyped'
    BY <1>1, <1>2, <1>3, <1>4, <2>1 DEF SrTyped
  <2>3. SrBlock'
    <3>1. SUFFICES ASSUME "late" \notin rMisuse'
                   PROVE  /\ rIdx + 1 < ReadSamps
                          /\ Len(rHeard) + rIdx + 1 = rFed + 1
                          /\ \A i \in 1 .. Len(rHeard) : rHeard[i] = i
                          /\ \A i \in 0 .. rIdx : rSmp'[i] = Len(rHeard) + i + 1
      BY <1>2, <1>3, <2>1 DEF SrBlock
    <3>2. "late" \notin rMisuse /\ rIdx + 1 # ReadSamps
      BY <2>1, <3>1
    <3>3. Len(rHeard) \in Nat
      BY <1>1 DEF SrTyped
    <3>4. /\ rIdx < ReadSamps
          /\ Len(rHeard) + rIdx = rFed
          /\ \A i \in 1 .. Len(rHeard) : rHeard[i] = i
          /\ \A i \in 0 .. rIdx - 1 : rSmp[i] = Len(rHeard) + i + 1
      BY <1>1, <3>2 DEF SrBlock
    <3>5. ASSUME NEW i \in 0 .. rIdx PROVE rSmp'[i] = Len(rHeard) + i + 1
      <4>1. CASE i = rIdx
        BY <1>3, <1>4, <3>3, <3>4, <4>1
      <4>2. CASE i # rIdx
        <5>1. i \in 0 .. rIdx - 1 /\ i \in 0 .. ReadSamps - 1
          BY <1>3, <3>4, <4>2
        <5> QED
          BY <1>4, <3>4, <4>2, <5>1
      <4> QED
        BY <4>1, <4>2
    <3> QED
      BY <1>3, <3>2, <3>3, <3>4, <3>5
  <2>4. SrIndex'
    BY <1>1, <1>2, <2>1, SMT DEF SrTyped, SrIndex
  <2> QED
    BY <2>2, <2>3, <2>4 DEF SrInv
<1> QED
  BY <1>5, <1>6

(* The other steps leave the samples alone.                                *)
LEMMA OtherSrInv ==
  ASSUME SrInv, UNCHANGED <<rSmp, rIdx, rFed, rHeard>>,
         "late" \in rMisuse => "late" \in rMisuse',
         rWords' \in Nat, rIndex' = rIndex, rIni' \in BOOLEAN,
         SrIndex'
  PROVE  SrInv'
<1>1. SrTyped'
  BY DEF SrInv, SrTyped
<1>2. SrBlock'
  BY DEF SrInv, SrBlock
<1> QED
  BY <1>1, <1>2 DEF SrInv

(* Every call and every tick (tinysr.c:54-118).                            *)
LEMMA NextSrInv == SrInv /\ [R!Next]_(R!vars) => SrInv'
<1> SUFFICES ASSUME SrInv, [R!Next]_(R!vars) PROVE SrInv'
  OBVIOUS
<1>1. CASE UNCHANGED R!vars
  BY <1>1 DEF R!vars, SrInv, SrTyped, SrBlock, SrIndex
<1>2. CASE R!Tick
  BY <1>2, TickSrInv
<1>3. CASE R!TickPast
  <2>1. "late" \in rMisuse
    <3>1. ReadSamps \in Nat
      BY UnitsAssumption DEF R!TinySRAssumption
    <3>2. DOMAIN rSmp = 0 .. ReadSamps - 1 /\ rIdx \in Nat
      BY DEF SrInv, SrTyped
    <3>3. ~(rIdx < ReadSamps)
      BY <1>3, <3>1, <3>2 DEF R!TickPast
    <3> QED
      BY <3>3 DEF SrInv, SrBlock
  <2>2. /\ UNCHANGED <<rSmp, rIdx, rFed, rHeard, rWords, rIndex, rIni, rMisuse>>
        /\ rWords \in Nat /\ rIni \in BOOLEAN
    BY <1>3 DEF R!TickPast, SrInv, SrTyped
  <2>3. SrIndex'
    BY <2>1, <2>2 DEF SrInv, SrIndex
  <2> QED
    BY <2>2, <2>3, OtherSrInv
<1>4. CASE R!Word
  <2>1. /\ UNCHANGED <<rSmp, rIdx, rFed, rHeard, rWords, rIndex, rIni, rMisuse>>
        /\ rWords \in Nat /\ rIni \in BOOLEAN /\ rIni
        /\ rFault' = IF rIndex < rWords THEN "none" ELSE "bounds"
    BY <1>4 DEF R!Word, SrInv, SrTyped
  <2>2. SrIndex'
    BY <2>1 DEF SrInv, SrIndex
  <2> QED
    BY <2>1, <2>2, OtherSrInv
<1>5. ASSUME NEW n \in 0 .. Words, R!Load(n) PROVE SrInv'
  <2>1. Words \in Nat
    BY UnitsAssumption DEF R!TinySRAssumption
  <2>2. /\ UNCHANGED <<rSmp, rIdx, rFed, rHeard, rIndex, rFault>>
        /\ rWords = 0 /\ rWords' = n /\ rIni' = TRUE
        /\ rMisuse' = IF n = 0 THEN rMisuse \cup {"load"} ELSE rMisuse
    BY <1>5 DEF R!Load
  <2>3. n \in Nat
    BY <2>1
  <2>4. rIndex = 0 /\ (rMisuse = {} => rFault = "none")
    BY <2>2 DEF SrInv, SrIndex
  <2>5. SrIndex'
    BY <2>2, <2>3, <2>4 DEF SrIndex
  <2> QED
    BY <2>2, <2>3, <2>5, OtherSrInv
<1>6. ASSUME NEW n \in 0 .. Words, R!WordIndex(n) PROVE SrInv'
  <2>1. /\ UNCHANGED <<rSmp, rIdx, rFed, rHeard, rWords, rIndex, rIni>>
        /\ rWords \in Nat /\ rIni \in BOOLEAN
        /\ rFault' = IF n < rWords THEN "none" ELSE "bounds"
        /\ rMisuse' = IF n < rWords THEN rMisuse ELSE rMisuse \cup {"word"}
    BY <1>6 DEF R!WordIndex, SrInv, SrTyped
  <2>2. SrIndex'
    BY <2>1 DEF SrInv, SrIndex
  <2> QED
    BY <2>1, <2>2, OtherSrInv
<1>7. CASE R!LoadNull
  <2>1. /\ UNCHANGED <<rSmp, rIdx, rFed, rHeard, rWords, rIndex, rIni>>
        /\ rWords \in Nat /\ rIni \in BOOLEAN
        /\ rMisuse' = rMisuse \cup {"null"}
    BY <1>7 DEF R!LoadNull, SrInv, SrTyped
  <2>2. SrIndex'
    BY <2>1 DEF SrInv, SrIndex
  <2> QED
    BY <2>1, <2>2, OtherSrInv
<1> QED
  BY <1>1, <1>2, <1>3, <1>4, <1>5, <1>6, <1>7 DEF R!Next

(* Every sample is recognised once and in order, for blocks of any length, *)
(* and words are looked up inside the model (tinysr.c:54-118).             *)
THEOREM TinySRIsRight == UnitsSpec => [](R!RecognisesAll /\ R!SafeWithoutMisuse)
<1>1. UnitsInit => R!Init
  BY DEF UnitsInit
<1>2. ASSUME [UnitsNext]_<<plug, vars, soundpipeVars, lsysVars, analysVars, fmVars, srVars>>
      PROVE  [R!Next]_(R!vars)
  <2>1. UNCHANGED srVars => UNCHANGED R!vars
    BY DEF srVars, R!vars
  <2> QED
    BY <1>2, <2>1 DEF UnitsNext, Rest
<1>3. ASSUME SrInv PROVE R!RecognisesAll
  <2>1. SUFFICES ASSUME "late" \notin rMisuse
                 PROVE  rHeard \o [i \in 1 .. rIdx |-> rSmp[i - 1]] = [i \in 1 .. rFed |-> i]
    BY DEF R!RecognisesAll
  <2> DEFINE block == [i \in 1 .. rIdx |-> rSmp[i - 1]]
             all == [i \in 1 .. rFed |-> i]
  <2>2. /\ rHeard \in Seq(Int) /\ Len(rHeard) \in Nat /\ rIdx \in Nat /\ rFed \in Nat
        /\ rSmp \in [0 .. ReadSamps - 1 -> Int] /\ ReadSamps \in Nat
        /\ rIdx < ReadSamps /\ Len(rHeard) + rIdx = rFed
        /\ \A i \in 1 .. Len(rHeard) : rHeard[i] = i
        /\ \A i \in 0 .. rIdx - 1 : rSmp[i] = Len(rHeard) + i + 1
    BY <1>3, <2>1, UnitsAssumption DEF SrInv, SrTyped, SrBlock, R!TinySRAssumption
  <2>3. \A i \in 1 .. rIdx : i - 1 \in 0 .. rIdx - 1 /\ i - 1 \in 0 .. ReadSamps - 1
    BY <2>2
  <2>4. block \in Seq(Int) /\ Len(block) = rIdx
    BY <2>2, <2>3
  <2>5. \A i \in 1 .. rIdx : block[i] = Len(rHeard) + i
    BY <2>2, <2>3
  <2>6. all \in Seq(Int) /\ Len(all) = rFed /\ \A i \in 1 .. rFed : all[i] = i
    BY <2>2
  <2> HIDE DEF block, all
  <2>7. /\ rHeard \o block \in Seq(Int)
        /\ Len(rHeard \o block) = rFed
        /\ \A i \in 1 .. rFed : (rHeard \o block)[i] =
             IF i <= Len(rHeard) THEN rHeard[i] ELSE block[i - Len(rHeard)]
    <3>1. /\ rHeard \o block \in Seq(Int)
          /\ Len(rHeard \o block) = Len(rHeard) + Len(block)
          /\ \A i \in 1 .. Len(rHeard) + Len(block) : (rHeard \o block)[i] =
               IF i <= Len(rHeard) THEN rHeard[i] ELSE block[i - Len(rHeard)]
      BY <2>2, <2>4, ConcatProperties
    <3>2. Len(rHeard) + Len(block) = rFed
      BY <2>2, <2>4
    <3> QED
      BY <3>1, <3>2
  <2>8. ASSUME NEW i \in 1 .. rFed PROVE (rHeard \o block)[i] = all[i]
    <3>1. CASE i <= Len(rHeard)
      BY <2>2, <2>6, <2>7, <3>1
    <3>2. CASE ~(i <= Len(rHeard))
      <4>1. i - Len(rHeard) \in 1 .. rIdx
        BY <2>2, <3>2
      <4>2. (rHeard \o block)[i] = Len(rHeard) + (i - Len(rHeard))
        BY <2>5, <2>7, <3>2, <4>1
      <4> QED
        BY <2>2, <2>6, <4>2
    <3> QED
      BY <3>1, <3>2
  <2>9. rHeard \o block = all
    BY <2>6, <2>7, <2>8, SeqEqual
  <2> QED
    BY <2>9 DEF block, all
<1>4. SrInv => R!SafeWithoutMisuse
  BY DEF SrInv, SrIndex, R!SafeWithoutMisuse
<1> QED
  BY <1>1, <1>2, <1>3, <1>4, InitSrInv, NextSrInv, PTL DEF UnitsSpec

-----------------------------------------------------------------------------
(* The plug-ins together                                                   *)

(* Whichever plug-in is imported but Lsys, whose safety is that of what is *)
(* parsed, nothing null, destroyed or misread is used but by one of the    *)
(* questionable uses that their modules name, null arguments among them    *)
(* (stk.cc:553-560, 933-943, soundpipe.c:2100-2128, 2742-2863,             *)
(* analys.c:100-121, 434-457, fmsynth.c:53-145, tinysr.c:54-118).          *)
THEOREM UnitsAreSafe == UnitsSpec => [](plug # "Lsys" => UnitsSafe)
<1> DEFINE Unused == plug # "Lsys" => lFault = "none"
<1>1. UnitsInit => Unused
  BY DEF UnitsInit, L!Init
<1>2. Unused /\ [UnitsNext]_<<plug, vars, soundpipeVars, lsysVars, analysVars, fmVars, srVars>>
        => Unused'
  BY DEF UnitsNext, Rest, lsysVars
<1>3. ASSUME Unused, SafeWithoutMisuse, U!SafeWithoutMisuse, A!SafeWithoutMisuse,
             F!SafeWithoutMisuse, R!SafeWithoutMisuse
      PROVE  plug # "Lsys" => UnitsSafe
  BY <1>3 DEF UnitsSafe, L!SafeWithoutMisuse
<1> HIDE DEF Unused
<1> QED
  BY <1>1, <1>2, <1>3, ImportedStk, SoundpipeIsSafe, AnalysIsSafe, FMSynthIsSafe,
     TinySRIsRight, PTL DEF UnitsSpec

(* What is computed is what was asked for, of an L-system whose list was   *)
(* made right (lsys.c:172-208, analys.c:38-78, 123-136, tinysr.c:54-80).   *)
THEOREM UnitsComputeRight == UnitsSpec => [](ParsedAsMeant => UnitsCompute)
<1>1. ASSUME ParsedAsMeant => L!PlaysGeneration, A!SpectrumOfLast, R!RecognisesAll
      PROVE  ParsedAsMeant => UnitsCompute
  BY <1>1 DEF UnitsCompute
<1> QED
  BY <1>1, LsysPlaysInOrder, AnalysTransformsLast, TinySRIsRight, PTL

=============================================================================

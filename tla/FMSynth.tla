------------------------------ MODULE FMSynth ------------------------------
(***************************************************************************)
(* The life of the synthesizer behind an FMSynth (FMSynth/fmsynth.c).  The *)
(* object and its tick both point to it; init and load put another in its  *)
(* place.  What it plays is the library's.                                 *)
(***************************************************************************)
EXTENDS Integers, FiniteSets

CONSTANT MaxSynths    \* bound: synthesizers made

FMSynthAssumption == MaxSynths \in Nat

VARIABLES
  life,      \* "none", "live" or "gone"
  synth,     \* SYNTH(o): a synthesizer, by number
  data,      \* module.gen.data: the one the tick renders
  synths,    \* those made
  freed,     \* those given back
  left,      \* load or save left a file open
  named,     \* the name and the author are those of a preset: they point to
             \* what was the frame of load
  misuse,    \* history: the questionable things the program did
  fault      \* the first bad memory access, or "none"

vars == <<life, synth, data, synths, freed, left, named, misuse, fault>>

Live == fault = "none" /\ life = "live"

Init ==
  /\ life = "none"
  /\ synth = 0 /\ data = 0
  /\ synths = 0 /\ freed = {}
  /\ left = FALSE
  /\ named = FALSE
  /\ misuse = {} /\ fault = "none"

(* set_synth(o, fmsynth_new(...)) *)
New ==
  /\ synths < MaxSynths
  /\ synths' = synths + 1
  /\ synth' = synths'
  /\ data' = synths'

Free ==
  /\ freed' = freed \cup {synth}
  /\ fault' = IF synth \in freed THEN "twice" ELSE "none"

Ctor ==
  /\ life = "none"
  /\ life' = "live"
  /\ New
  /\ UNCHANGED <<freed, left, named, misuse, fault>>

InitSynth ==
  /\ Live
  /\ Free
  /\ New
  /\ UNCHANGED <<life, left, named, misuse>>

(* noteon, parameter and the others *)
Use ==
  /\ Live
  /\ fault' = IF synth \in freed THEN "stale" ELSE "none"
  /\ UNCHANGED <<life, synth, data, synths, freed, left, named, misuse>>

Tick ==
  /\ Live
  /\ fault' = IF data \in freed THEN "stale" ELSE "none"
  /\ UNCHANGED <<life, synth, data, synths, freed, left, named, misuse>>

(* Mutant: the synthesizer there was is kept. *)
LoadKept ==
  /\ Live
  /\ New
  /\ named' = TRUE
  /\ UNCHANGED <<life, freed, left, misuse, fault>>

(* load, of a preset or of a file of the size of one. *)
Load ==
  /\ Live
  /\ Free
  /\ New
  /\ named' = TRUE
  /\ UNCHANGED <<life, left, misuse>>

(* ... of no file, or of one that is too short, which stays open. *)
LoadFails(open) ==
  /\ Live
  /\ Free
  /\ left' = (left \/ open)
  /\ misuse' = misuse \cup {"load"}
  /\ UNCHANGED <<life, synth, data, synths, named>>

(* save writes where an uninitialised variable points to, and copies the   *)
(* names from wherever they are. *)
Save ==
  /\ Live
  /\ misuse' = misuse \cup {"save"}
  /\ fault' \in {"wild", IF named THEN "stale" ELSE "none"}
  /\ left' \in {left, TRUE}
  /\ UNCHANGED <<life, synth, data, synths, freed, named>>

SaveRefused == Live /\ UNCHANGED vars

(* The program looks at o.name or o.author. *)
Names ==
  /\ Live
  /\ fault' = IF named THEN "stale" ELSE "none"
  /\ misuse' = IF named THEN misuse \cup {"names"} ELSE misuse
  /\ UNCHANGED <<life, synth, data, synths, freed, left, named>>

(* load or save of a null file name, or once the name or the author was    *)
(* made null.  Nothing is followed after. *)
Null ==
  /\ Live
  /\ fault' = "null"
  /\ misuse' = misuse \cup {"null"}
  /\ UNCHANGED <<life, synth, data, synths, freed, left, named>>

Dtor ==
  /\ Live
  /\ Free
  /\ life' = "gone"
  /\ UNCHANGED <<synth, data, synths, left, named, misuse>>

Next ==
  \/ Ctor \/ InitSynth \/ Use \/ Tick \/ Load \/ Save \/ SaveRefused \/ Names
  \/ Null \/ Dtor
  \/ \E open \in BOOLEAN : LoadFails(open)

Spec == Init /\ [][Next]_vars

-----------------------------------------------------------------------------
(* As long as every load succeeds, nothing is saved, no name is null and   *)
(* the names that a load left are not looked at, what is called and what   *)
(* is ticked is the last synthesizer, all others were given back once, and *)
(* no file is left open (fmsynth.c:28-38, 49-56, 96-145).                  *)
SafeWithoutMisuse ==
  misuse = {} =>
    /\ fault = "none"
    /\ synth = data
    /\ ~left
    /\ (1 .. synths) \ freed = IF life = "live" THEN {synth} ELSE {}

=============================================================================

------------------------------- MODULE TinySR -------------------------------
(***************************************************************************)
(* The recogniser of words (TinySR/tinysr.c): the tick collects samples in *)
(* a block and hands it to the library when it is full and a model was     *)
(* loaded.  Samples are known by their number.                             *)
(***************************************************************************)
EXTENDS Integers, Sequences

CONSTANTS ReadSamps,    \* READ_SAMPS
          Words,        \* how many words a model has
          MaxTicks      \* bound: samples fed

TinySRAssumption ==
  /\ ReadSamps \in Nat \ {0}
  /\ Words \in Nat
  /\ MaxTicks \in Nat

VARIABLES
  smp,       \* sr->smp
  idx,       \* sr->idx
  ini,       \* sr->ini
  words,     \* the words of the model loaded: ctx->word_names
  index,     \* TINY_IDX(o)
  fed,       \* history: samples fed
  heard,     \* history: the samples recognised, in order
  misuse,    \* history: the questionable things the program did
  fault      \* the first bad memory access, or "none"

vars == <<smp, idx, ini, words, index, fed, heard, misuse, fault>>

Going == fault = "none"

Init ==
  /\ smp = [i \in 0 .. ReadSamps - 1 |-> 0]
  /\ idx = 0
  /\ ini = FALSE
  /\ words = 0
  /\ index = 0
  /\ fed = 0
  /\ heard = <<>>
  /\ misuse = {} /\ fault = "none"

(* A block is recognised: as a word of the model, or as nothing. *)
Recognise(block) ==
  /\ heard' = heard \o [i \in 1 .. ReadSamps |-> block[i - 1]]
  /\ index' \in {index} \cup 0 .. words - 1
  /\ idx' = 0

(* Mutant: the sample that fills the block is counted as the next one's. *)
TickCountsOn ==
  /\ Going
  /\ fed < MaxTicks
  /\ idx \in DOMAIN smp
  /\ fed' = fed + 1
  /\ smp' = [smp EXCEPT ![idx] = fed']
  /\ IF idx + 1 = ReadSamps /\ ini
       THEN /\ heard' = heard \o [i \in 1 .. ReadSamps |-> smp'[i - 1]]
            /\ idx' = 1
       ELSE UNCHANGED heard /\ idx' = idx + 1
  /\ UNCHANGED <<ini, words, index, misuse, fault>>

(* The block is full once: without a model its index goes on. *)
Tick ==
  /\ Going
  /\ fed < MaxTicks
  /\ idx \in DOMAIN smp
  /\ fed' = fed + 1
  /\ smp' = [smp EXCEPT ![idx] = fed']
  /\ IF idx + 1 = ReadSamps /\ ini
       THEN Recognise(smp') /\ UNCHANGED misuse
       ELSE /\ idx' = idx + 1
            /\ misuse' = IF idx + 1 = ReadSamps THEN misuse \cup {"late"} ELSE misuse
            /\ UNCHANGED <<heard, index>>
  /\ UNCHANGED <<ini, words, fault>>

TickPast ==
  /\ Going
  /\ idx \notin DOMAIN smp
  /\ fault' = "bounds"
  /\ UNCHANGED <<smp, idx, ini, words, index, fed, heard, misuse>>

(* load, which sets ini whether or not there is such a model.  What the    *)
(* library makes of a second model is not followed.                        *)
Load(n) ==
  /\ Going
  /\ words = 0
  /\ words' = n
  /\ ini' = TRUE
  /\ misuse' = IF n = 0 THEN misuse \cup {"load"} ELSE misuse
  /\ UNCHANGED <<smp, idx, index, fed, heard, fault>>

(* ... of a null string, after which nothing is followed. *)
LoadNull ==
  /\ Going
  /\ fault' = "null"
  /\ misuse' = misuse \cup {"null"}
  /\ UNCHANGED <<smp, idx, ini, words, index, fed, heard>>

(* word: of the index, and word(i), which only refuses what is negative.   *)
Word ==
  /\ Going
  /\ ini
  /\ fault' = IF index < words THEN "none" ELSE "bounds"
  /\ UNCHANGED <<smp, idx, ini, words, index, fed, heard, misuse>>

WordIndex(i) ==
  /\ Going
  /\ i >= 0
  /\ fault' = IF i < words THEN "none" ELSE "bounds"
  /\ misuse' = IF i < words THEN misuse ELSE misuse \cup {"word"}
  /\ UNCHANGED <<smp, idx, ini, words, index, fed, heard>>

Next ==
  \/ Tick \/ TickPast \/ LoadNull \/ Word
  \/ \E n \in 0 .. Words : Load(n) \/ WordIndex(n)

Spec == Init /\ [][Next]_vars

-----------------------------------------------------------------------------
(* Every sample is recognised, once and in order, but for those of the     *)
(* block that is not full yet: those fed before the model was loaded too,  *)
(* if it was in time (tinysr.c:54-80).                                     *)
RecognisesAll ==
  "late" \notin misuse =>
    heard \o [i \in 1 .. idx |-> smp[i - 1]] = [i \in 1 .. fed |-> i]

(* The block overflows only if no model is loaded while it fills, and      *)
(* words are looked up in a model that has them, but for a model that is   *)
(* missing, a null name of one and an index from the program               *)
(* (tinysr.c:59, 73-75, 97-118).                                           *)
SafeWithoutMisuse == misuse = {} => fault = "none"

=============================================================================

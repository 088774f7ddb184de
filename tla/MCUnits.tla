------------------------------ MODULE MCUnits ------------------------------
(* Two objects of any one class of STK, or a Voicer and any of the         *)
(* instruments; any unit of Soundpipe with two tables; an L-system given   *)
(* any of a hundred grammars of two symbols, or a text of none; two FFTs   *)
(* and an ANA; an FMSynth; or a TinySR whose blocks are of three samples.  *)
(* Tables are interchangeable, and so are FFTs: safety only, so symmetry   *)
(* is sound.                                                               *)
EXTENDS Units, FiniteSets, TLC

Symmetry == Permutations(Tables) \cup Permutations(Ffts)

(* The steps of a unit of Soundpipe depend on its class only through       *)
(* these: once it has begun, one class of a kind is followed for all.  In  *)
(* the first state every class is looked at, which is where UnitsAgree can *)
(* tell them apart.                                                        *)
Kind(c) ==
  <<c.unit.late, c.unit.counted, U!TableArgs(c.unit.init),
    c.unit.init # <<>> /\ c.unit.init[1] = "ftbl[]",
    c.unit.floats \cup c.unit.dials \cup c.unit.ints # {}>>

View ==
  <<plug, vars, IF uLife = "none" /\ tMade = 0 THEN uClass ELSE Kind(uClass),
    uLife, uOsc, uIsInit, uKept, uUsed, tSlot, tMade, tDead, tArr, tRef, tHeld,
    tLost, tSpilled, uMisuse, uFault, lsysVars, analysVars, fmVars, srVars>>

(* Bound: after a second questionable use of a unit of Soundpipe the       *)
(* program is not followed.                                                *)
FewMisuses == Cardinality(uMisuse) <= 1

(* Bound: no other FFT is used beside one of the longest size. *)
OneLong ==
  \A f \in Ffts : Len(aBuf[f]) = 4 => \A g \in Ffts \ {f} : aBuf[g] = <<>>

(* The codes of two symbols, "a" and "1", and the texts made of them.  One *)
(* word is empty, one grows, and a symbol may have two rules or none.      *)
a == 97
one == 49
bar == 124
colon == 58
Rule(k, w) == [key |-> k, word |-> w]
Productions == {<<>>, <<a>>, <<a, one>>, <<one, a>>, <<a, a>>}
MCGrammars ==
  {[axiom |-> x, rules |-> r] :
     x \in {<<>>, <<one, a>>},
     r \in {<<>>} \cup {<<Rule(a, w)>> : w \in Productions}
        \cup {<<Rule(a, w), Rule(k, v)>> : w \in Productions, v \in Productions, k \in {a, one}}}
MCSeconds == {[axiom |-> <<one, a>>, rules |-> <<Rule(a, <<a, one>>), Rule(one, <<a>>)>>]}
MCOthers ==
  {<<bar>>, <<colon>>, <<a, bar>>, <<a, bar, one>>, <<a, bar, colon>>,
   <<a, bar, a, a, colon, one>>, <<32>>, <<65>>}

=============================================================================

----------------------------- MODULE LiSaProofs -----------------------------
(***************************************************************************)
(* Proofs about LiSa: type correctness, what voices read of their loops,   *)
(* that ticks stay in the buffer, and that recording is never amplified,   *)
(* for every length, resolution, number of voices and argument.            *)
(***************************************************************************)
EXTENDS LiSa, TLAPS

-----------------------------------------------------------------------------
(* Arithmetic                                                              *)

(* Multiplication by a natural number is monotonic. *)
LEMMA MulMono ==
  ASSUME NEW a \in Int, NEW b \in Int, NEW g \in Nat, a <= b
  PROVE  a * g <= b * g
  BY SMT

(* The quotient brackets the dividend. *)
LEMMA DivRange ==
  ASSUME NEW n \in Int, NEW g \in Nat \ {0}
  PROVE  /\ n \div g \in Int
         /\ (n \div g) * g <= n
         /\ n < (n \div g + 1) * g
  BY SMT

(* A lower bound of the dividend is one of the quotient. *)
LEMMA DivLower ==
  ASSUME NEW n \in Int, NEW g \in Nat \ {0}, NEW a \in Int, a * g <= n
  PROVE  a <= n \div g
<1> DEFINE q == n \div g
<1>1. q \in Int /\ n < (q + 1) * g BY DivRange
<1> HIDE DEF q
<1>2. SUFFICES ASSUME q + 1 <= a PROVE FALSE BY <1>1 DEF q
<1>3. (q + 1) * g <= a * g BY <1>1, <1>2, MulMono
<1>4. QED BY <1>1, <1>3

(* An upper bound of the dividend is one of the quotient. *)
LEMMA DivUpper ==
  ASSUME NEW n \in Int, NEW g \in Nat \ {0}, NEW b \in Int, n <= b * g
  PROVE  n \div g <= b
<1> DEFINE q == n \div g
<1>1. q \in Int /\ q * g <= n BY DivRange
<1> HIDE DEF q
<1>2. SUFFICES ASSUME b + 1 <= q PROVE FALSE BY <1>1 DEF q
<1>3. (b + 1) * g <= q * g BY <1>1, <1>2, MulMono
<1>4. QED BY <1>1, <1>3

(* A remainder is smaller than the divisor. *)
LEMMA ModRange ==
  ASSUME NEW x \in Int, NEW d \in Nat \ {0}
  PROVE  x % d \in 0 .. d - 1
  BY SMT

-----------------------------------------------------------------------------
(* Voices                                                                  *)

(* The strengthening: a loop ends in the buffer, and a fade that runs has  *)
(* a length.                                                               *)
Good(c) ==
  /\ c.end <= Len
  /\ c.up => c.uplen > 0
  /\ c.down => c.downlen > 0

IInv == TypeOK /\ \A v \in VoiceIds : Good(chan[v])

(* A voice whose loop is in order is placed inside it. *)
LEMMA PlacedInLoop ==
  ASSUME NEW c \in Channel, c.loop, c.start <= c.end
  PROVE  /\ Placed(c) \in Channel
         /\ Placed(c).start = c.start /\ Placed(c).end = c.end
         /\ Placed(c).loop
         /\ Good(c) => Good(Placed(c))
         /\ c.start * Grain <= Placed(c).pindex
<1> USE LiSaAssumption
<1> DEFINE d == Turned(c)
<1>1. /\ d \in Channel
      /\ d.start = c.start /\ d.end = c.end /\ d.loop = c.loop
      /\ d.up = c.up /\ d.uplen = c.uplen /\ d.down = c.down /\ d.downlen = c.downlen
  <2> DEFINE q == c.pindex - c.inc
             r == -c.inc
             f == [c EXCEPT !.pindex = q, !.inc = r]
  <2>1. q \in Int /\ r \in Int BY DEF Channel
  <2>2. d = f \/ d = c BY DEF Turned
  <2> HIDE DEF q, r, d
  <2>3. /\ f \in Channel
        /\ f.start = c.start /\ f.end = c.end /\ f.loop = c.loop
        /\ f.up = c.up /\ f.uplen = c.uplen /\ f.down = c.down /\ f.downlen = c.downlen
    BY <2>1 DEF Channel
  <2> HIDE DEF f
  <2>4. QED BY <2>2, <2>3
<1> HIDE DEF d
<1> DEFINE p == IF d.start = d.end THEN d.start * Grain
                ELSE d.start * Grain
                     + ((d.pindex - d.start * Grain) % ((d.end - d.start) * Grain))
<1>2. c.start * Grain \in Int BY DEF Channel
<1>3. p \in Int /\ c.start * Grain <= p
  <2>1. CASE c.start = c.end BY <1>1, <1>2, <2>1
  <2>2. CASE c.start # c.end
    <3> DEFINE L == (c.end - c.start) * Grain
               x == d.pindex - c.start * Grain
    <3>1. L \in Nat \ {0}
      <4>1. c.end - c.start \in Nat \ {0} BY <2>2 DEF Channel
      <4>2. QED BY <4>1, SMT
    <3>2. x \in Int BY <1>1, <1>2 DEF Channel
    <3>3. p = c.start * Grain + (x % L) BY <1>1, <2>2
    <3> HIDE DEF L, x, p
    <3>4. x % L \in 0 .. L - 1 BY <3>1, <3>2, ModRange
    <3>5. QED BY <1>2, <3>3, <3>4, <3>1
  <2>3. QED BY <2>1, <2>2
<1>4. Placed(c) = Wrapped(d) BY DEF Placed, d
<1>5. Wrapped(d) = [d EXCEPT !.pindex = p] BY DEF Wrapped
<1> HIDE DEF p
<1> DEFINE f == [d EXCEPT !.pindex = p]
<1>6. /\ f \in Channel /\ f.pindex = p
      /\ f.start = d.start /\ f.end = d.end /\ f.loop = d.loop
      /\ f.up = d.up /\ f.uplen = d.uplen /\ f.down = d.down /\ f.downlen = d.downlen
  BY <1>1, <1>3 DEF Channel
<1>7. Placed(c) = f BY <1>4, <1>5
<1> HIDE DEF f
<1>8. QED BY <1>1, <1>3, <1>6, <1>7 DEF Good

(* What is read for a voice that was placed lies in its loop or, without   *)
(* one, in the buffer.                                                     *)
LEMMA ReadsOfPlaced ==
  ASSUME NEW c \in Channel, Good(c), c.loop => c.start <= c.end, ~Over(c),
         NEW i \in Reads(Placed(c))
  PROVE  /\ i \in 0 .. Len
         /\ c.loop /\ c.start < c.end => i \in c.start .. c.end - 1
<1> USE LiSaAssumption
<1> DEFINE d == Placed(c)
           t == d.pindex \div Grain
<1>1. CASE c.loop
  <2>1. /\ d \in Channel /\ d.start = c.start /\ d.end = c.end /\ d.loop
        /\ c.start * Grain <= d.pindex
    BY <1>1, PlacedInLoop
  <2> HIDE DEF d
  <2>2. t \in Int /\ c.start <= t
    <3>1. d.pindex \in Int /\ c.start \in Int BY <2>1 DEF Channel
    <3>2. QED BY <2>1, <3>1, DivLower, DivRange
  <2>3. i \in {IF t >= c.end THEN c.start ELSE t,
               IF t + 1 >= c.end THEN c.start ELSE t + 1}
    BY <2>1 DEF Reads, d
  <2> HIDE DEF t
  <2>4. QED BY <1>1, <2>2, <2>3 DEF Good, Channel
<1>2. CASE ~c.loop
  <2>1. d = c BY <1>2 DEF Placed
  <2>2. 0 <= c.pindex /\ c.pindex \in Int BY <1>2 DEF Over, Channel
  <2>3. t \in Int /\ 0 <= t
    <3>1. 0 * Grain <= c.pindex BY <2>2
    <3>2. QED BY <2>1, <2>2, <3>1, DivLower, DivRange
  <2>4. i \in {IF t >= Len THEN 0 ELSE t, IF t + 1 >= Len THEN 0 ELSE t + 1}
    BY <1>2, <2>1 DEF Reads
  <2> HIDE DEF t, d
  <2>5. QED BY <1>2, <2>3, <2>4
<1>3. QED BY <1>1, <1>2

(* A tick keeps a voice well formed. *)
LEMMA SteppedIsGood ==
  ASSUME NEW c \in Channel, Good(c), c.loop => c.start <= c.end
  PROVE  /\ Stepped(c) \in Channel /\ Good(Stepped(c))
         /\ Stepped(c).start = c.start /\ Stepped(c).end = c.end
<1> USE LiSaAssumption
<1>1. CASE Over(c) BY <1>1 DEF Stepped, Channel, Good
<1>2. CASE ~Over(c)
  <2> DEFINE d == Placed(c)
             e == [d EXCEPT !.pindex = d.pindex + d.inc]
  <2>1. d \in Channel /\ Good(d) /\ d.start = c.start /\ d.end = c.end
    <3>1. CASE c.loop BY <3>1, PlacedInLoop
    <3>2. CASE ~c.loop BY <3>2 DEF Placed
    <3>3. QED BY <3>1, <3>2
  <2>2. Stepped(c) = Faded(e) BY <1>2 DEF Stepped
  <2> HIDE DEF d
  <2>3. e \in Channel /\ Good(e) /\ e.start = c.start /\ e.end = c.end
    BY <2>1 DEF Channel, Good
  <2> HIDE DEF e
  <2>4. e.ctr + Unit \in Int /\ e.uplen * Unit \in Int /\ e.downlen * Unit \in Int
    BY <2>3 DEF Channel
  <2>5. /\ Faded(e) \in Channel /\ Good(Faded(e)) /\ Faded(e).start = c.start
        /\ Faded(e).end = c.end
    <3> DEFINE n == e.ctr + Unit
               u == n < e.uplen * Unit
               w == n < e.downlen * Unit
    <3>1. n \in Int /\ u \in BOOLEAN /\ w \in BOOLEAN BY <2>4
    <3>2. Faded(e) = IF e.up THEN [e EXCEPT !.ctr = n, !.up = u]
                     ELSE IF e.down THEN [e EXCEPT !.ctr = n, !.down = w, !.play = w]
                     ELSE e
      BY DEF Faded
    <3> HIDE DEF n, u, w
    <3>3. CASE e.up
      <4> DEFINE f == [e EXCEPT !.ctr = n, !.up = u]
      <4>1. f \in Channel BY <2>3, <3>1 DEF Channel
      <4>2. /\ f.end = e.end /\ f.start = e.start /\ f.uplen = e.uplen
            /\ f.down = e.down /\ f.downlen = e.downlen
        BY <2>3 DEF Channel
      <4> HIDE DEF f
      <4>3. QED BY <2>3, <3>2, <3>3, <4>1, <4>2 DEF Good, f
    <3>4. CASE ~e.up /\ e.down
      <4> DEFINE f == [e EXCEPT !.ctr = n, !.down = w, !.play = w]
      <4>1. f \in Channel BY <2>3, <3>1 DEF Channel
      <4>2. /\ f.end = e.end /\ f.start = e.start /\ f.uplen = e.uplen
            /\ f.up = e.up /\ f.downlen = e.downlen
        BY <2>3 DEF Channel
      <4> HIDE DEF f
      <4>3. QED BY <2>3, <3>2, <3>4, <4>1, <4>2 DEF Good, f
    <3>5. QED BY <2>3, <3>2, <3>3, <3>4
  <2>6. QED BY <2>2, <2>5
<1>3. QED BY <1>1, <1>2

-----------------------------------------------------------------------------
(* The invariant                                                           *)

(* The invariant holds at first.                                           *)
LEMMA InitIInv == Init => IInv
<1> USE LiSaAssumption
<1> SUFFICES ASSUME Init PROVE IInv OBVIOUS
<1>1. NewChannel \in Channel /\ Good(NewChannel) BY DEF NewChannel, Channel, Good
<1>2. \A v \in VoiceIds : chan[v] = NewChannel BY DEF Init
<1>3. chan \in [VoiceIds -> Channel] BY <1>1 DEF Init
<1>4. /\ read \in [VoiceIds -> SUBSET Nat] /\ at \in [VoiceIds -> Int]
      /\ wgain \in Int \X Nat
  BY DEF Init
<1>5. TypeOK
  <2>1. /\ rindex \in Nat /\ loop_end_rec \in Nat /\ rec_ramplen \in Nat
        /\ rec_inv \in Nat /\ wrote \in Nat \cup {-1} /\ calls \in 0 .. MaxCalls
        /\ sync \in {"INTERNAL", "POSITION", "DURATION"}
    BY DEF Init
  <2>2. /\ record \in BOOLEAN /\ looprec \in BOOLEAN
        /\ hung \in BOOLEAN /\ far \in BOOLEAN
    BY DEF Init
  <2>3. QED BY <1>3, <1>4, <2>1, <2>2 DEF TypeOK
<1>6. QED BY <1>1, <1>2, <1>5 DEF IInv

(* The record head: types. *)
LEMMA RecordSampTypes ==
  ASSUME TypeOK, RecordSamp
  PROVE  /\ rindex' \in Nat /\ record' \in BOOLEAN
         /\ wrote' \in Nat \cup {-1} /\ wgain' \in Int \X Nat
<1> USE LiSaAssumption
<1>1. CASE Record
  <2>1. 0 \in VoiceIds BY DEF VoiceIds
  <2>2. Head \in Nat BY <2>1 DEF Head, TypeOK, Channel
  <2>3. (loop_end_rec - Head) % Word \in Int
    <3>1. loop_end_rec - Head \in Int /\ Word \in Nat \ {0} BY <2>2 DEF TypeOK
    <3>2. QED BY <3>1, ModRange
  <2>4. RecGain(Head) \in Int \X Nat BY <2>2, <2>3 DEF RecGain, TypeOK
  <2>5. QED BY <1>1, <2>2, <2>4 DEF Record, TypeOK
<1>2. CASE RecordEnds BY <1>2 DEF RecordEnds, TypeOK
<1>3. CASE RecordIdle BY <1>3 DEF RecordIdle, TypeOK
<1>4. QED BY <1>1, <1>2, <1>3 DEF RecordSamp

(* What getSamp reads are samples. *)
LEMMA SyncReadsAreNat ==
  ASSUME NEW c \in Channel, NEW w \in Int
  PROVE  SyncReads(c, w) \in SUBSET Nat
<1> USE LiSaAssumption
<1> DEFINE p == Constrained(c, w)
<1>1. c.start * Grain \in Nat /\ c.end * Grain \in Nat BY DEF Channel
<1>2. p \in Nat BY <1>1 DEF Constrained
<1> HIDE DEF p
<1>3. p \div Grain \in Nat
  <2>1. 0 * Grain <= p BY <1>2
  <2>2. QED BY <1>2, <2>1, DivLower, DivRange
<1>4. QED BY <1>3 DEF SyncReads, p, Channel

(* A call on one voice. *)
LEMMA VoiceIInv ==
  ASSUME IInv, NEW v \in VoiceIds, NEW c, Touch(v, c), far' \in BOOLEAN,
         c \in Channel, Good(c)
  PROVE  IInv'
<1> USE LiSaAssumption
<1>1. chan' \in [VoiceIds -> Channel] BY DEF IInv, TypeOK, Touch
<1>2. \A u \in VoiceIds : Good(chan'[u]) BY DEF IInv, TypeOK, Touch
<1>3. calls' \in 0 .. MaxCalls BY DEF Touch, Call, IInv, TypeOK
<1>4. TypeOK' BY <1>1, <1>3 DEF IInv, TypeOK, Touch, rvars, hvars
<1>5. (\A u \in VoiceIds : Good(chan[u]))' BY <1>2 DEF Good
<1>6. QED BY <1>4, <1>5 DEF IInv

(* A fade that turns round. *)
LEMMA ReversedIsInt ==
  ASSUME NEW len \in Nat, NEW ctr \in Int, NEW old \in Nat \ {0}
  PROVE  Reversed(len, ctr, old) \in Int
<1> USE LiSaAssumption
<1>1. len * ctr \in Int /\ len * Unit \in Int OBVIOUS
<1>2. (len * ctr) \div old \in Int BY <1>1, DivRange
<1>3. QED BY <1>1, <1>2 DEF Reversed

(* Every call and every tick preserves the invariant. *)
LEMMA VoiceCallIInv ==
  ASSUME IInv, NEW v \in VoiceIds, VoiceCall(v)
  PROVE  IInv'
<1> USE LiSaAssumption
<1> DEFINE c == chan[v]
<1>1. c \in Channel /\ Good(c) /\ far \in BOOLEAN BY DEF IInv, TypeOK
<1> HIDE DEF c
<1>2. CASE \E b \in BOOLEAN : SetPlay(v, b) \/ SetLoop(v, b) \/ SetBi(v, b)
  <2>1. PICK b \in BOOLEAN : SetPlay(v, b) \/ SetLoop(v, b) \/ SetBi(v, b) BY <1>2
  <2> DEFINE f == [c EXCEPT !.play = b, !.up = FALSE, !.down = FALSE]
             g == [c EXCEPT !.loop = b]
             h == [c EXCEPT !.bi = b]
  <2>2. /\ f \in Channel /\ f.end = c.end /\ ~f.up /\ ~f.down
        /\ g \in Channel /\ g.end = c.end /\ g.up = c.up /\ g.down = c.down
        /\ g.uplen = c.uplen /\ g.downlen = c.downlen
        /\ h \in Channel /\ h.end = c.end /\ h.up = c.up /\ h.down = c.down
        /\ h.uplen = c.uplen /\ h.downlen = c.downlen
    BY <1>1 DEF Channel
  <2>3. (Touch(v, f) \/ Touch(v, g) \/ Touch(v, h)) /\ far' \in BOOLEAN
    BY <1>1, <2>1 DEF SetPlay, SetLoop, SetBi, Voice, c
  <2> HIDE DEF f, g, h
  <2>4. Good(f) /\ Good(g) /\ Good(h) BY <1>1, <2>2 DEF Good
  <2>5. QED BY <2>2, <2>3, <2>4, VoiceIInv
<1>3. CASE \E r \in Rates : SetRate(v, r)
  <2>1. PICK r \in Rates : SetRate(v, r) BY <1>3
  <2> DEFINE f == [c EXCEPT !.inc = r]
  <2>2. f \in Channel /\ Good(f) BY <1>1 DEF Channel, Good
  <2>3. Touch(v, f) /\ far' \in BOOLEAN BY <1>1, <2>1 DEF SetRate, Voice, c
  <2> HIDE DEF f
  <2>4. QED BY <2>2, <2>3, VoiceIInv
<1>4. CASE \E p \in Places : SetPindex(v, p)
  <2>1. PICK p \in Places : SetPindex(v, p) BY <1>4
  <2> DEFINE f == [c EXCEPT !.pindex = p]
  <2>2. f \in Channel /\ Good(f) BY <1>1 DEF Channel, Good
  <2>3. Touch(v, f) /\ far' \in BOOLEAN BY <1>1, <2>1 DEF SetPindex, Voice, c
  <2> HIDE DEF f
  <2>4. QED BY <2>2, <2>3, VoiceIInv
<1>5. CASE \E n \in Bounds : SetLstart(v, n) \/ SetLend(v, n)
  <2>1. PICK n \in Bounds : SetLstart(v, n) \/ SetLend(v, n) BY <1>5
  <2> DEFINE s == IF c.start >= Len THEN Len - 1 ELSE n
             e == IF n >= Len THEN Len - 1 ELSE n
             f == [c EXCEPT !.start = s]
             g == [c EXCEPT !.end = e]
  <2>2. n \in Nat /\ Len - 1 \in Nat OBVIOUS
  <2>3. s \in Nat /\ e \in Nat /\ e <= Len BY <2>2
  <2>4. (Touch(v, f) \/ Touch(v, g)) /\ far' \in BOOLEAN
    BY <1>1, <2>1 DEF SetLstart, SetLend, Voice, Gives, c
  <2> HIDE DEF s, e
  <2>5. f \in Channel /\ Good(f) /\ g \in Channel /\ Good(g)
    BY <1>1, <2>3 DEF Channel, Good
  <2> HIDE DEF f, g
  <2>6. QED BY <2>4, <2>5, VoiceIInv
<1>6. CASE \E len \in Ramps : RampUp(v, len) \/ RampDown(v, len)
  <2>1. PICK len \in Ramps : RampUp(v, len) \/ RampDown(v, len) BY <1>6
  <2> DEFINE k == NonZero(len)
             i == IF len > 0 THEN len ELSE c.upinv
             j == IF len > 0 THEN len ELSE c.downinv
             x == IF c.down THEN Reversed(k, c.ctr, c.downlen) ELSE 0
             y == IF c.up THEN Reversed(k, c.ctr, c.uplen) ELSE 0
             f == [c EXCEPT !.up = TRUE, !.play = TRUE, !.uplen = k, !.upinv = i,
                            !.ctr = x, !.down = FALSE]
             g == [c EXCEPT !.down = TRUE, !.downlen = k, !.downinv = j,
                            !.ctr = y, !.up = FALSE]
  <2>2. len \in Nat /\ k \in Nat \ {0} BY DEF NonZero
  <2>3. i \in Nat /\ j \in Nat BY <1>1, <2>2 DEF Channel
  <2>4. x \in Int
    <3>1. CASE c.down
      <4>1. c.downlen \in Nat \ {0} /\ c.ctr \in Int BY <1>1, <3>1 DEF Good, Channel
      <4>2. QED BY <2>2, <3>1, <4>1, ReversedIsInt
    <3>2. QED BY <3>1
  <2>5. y \in Int
    <3>1. CASE c.up
      <4>1. c.uplen \in Nat \ {0} /\ c.ctr \in Int BY <1>1, <3>1 DEF Good, Channel
      <4>2. QED BY <2>2, <3>1, <4>1, ReversedIsInt
    <3>2. QED BY <3>1
  <2>6. (Touch(v, f) \/ Touch(v, g)) /\ far' \in BOOLEAN
    BY <1>1, <2>1 DEF RampUp, RampDown, Voice, c
  <2> HIDE DEF k, i, j, x, y
  <2>7. /\ f \in Channel /\ f.end = c.end /\ f.uplen = k /\ ~f.down
        /\ g \in Channel /\ g.end = c.end /\ g.downlen = k /\ ~g.up
    BY <1>1, <2>2, <2>3, <2>4, <2>5 DEF Channel
  <2> HIDE DEF f, g
  <2>8. Good(f) /\ Good(g) BY <1>1, <2>2, <2>7 DEF Good
  <2>9. QED BY <2>6, <2>7, <2>8, VoiceIInv
<1>7. QED BY <1>2, <1>3, <1>4, <1>5, <1>6 DEF VoiceCall

(* A call that leaves the voices alone. *)
LEMMA OtherCallIInv ==
  ASSUME IInv, Call, UNCHANGED <<chan, hvars, wrote, wgain>>,
         rindex' \in Nat, loop_end_rec' \in Nat, rec_ramplen' \in Nat,
         rec_inv' \in Nat, record' \in BOOLEAN, looprec' \in BOOLEAN,
         sync' \in {"INTERNAL", "POSITION", "DURATION"}, far' \in BOOLEAN
  PROVE  IInv'
<1> USE LiSaAssumption
<1>1. calls' \in 0 .. MaxCalls BY DEF Call, IInv, TypeOK
<1>2. chan' = chan /\ hung' = hung /\ read' = read /\ at' = at
  BY DEF hvars
<1>3. TypeOK' BY <1>1, <1>2 DEF IInv, TypeOK
<1>4. (\A v \in VoiceIds : Good(chan[v]))' BY <1>2 DEF IInv, Good
<1>5. QED BY <1>3, <1>4 DEF IInv

(* The calls that set up the record head keep the invariant.               *)
LEMMA RecordCallIInv ==
  ASSUME IInv, RecordCall
  PROVE  IInv'
<1> USE LiSaAssumption
<1>1. /\ rindex \in Nat /\ loop_end_rec \in Nat /\ rec_ramplen \in Nat
      /\ rec_inv \in Nat /\ record \in BOOLEAN /\ looprec \in BOOLEAN
      /\ sync \in {"INTERNAL", "POSITION", "DURATION"} /\ far \in BOOLEAN
  BY DEF IInv, TypeOK
<1>2. CASE \E b \in BOOLEAN : SetRecord(b)
  BY <1>1, <1>2, OtherCallIInv DEF SetRecord, avars
<1>3. CASE \E b \in BOOLEAN : SetLoopRec(b)
  BY <1>1, <1>3, OtherCallIInv DEF SetLoopRec, rvars
<1>4. CASE \E n \in Bounds : SetRindex(n)
  <2>1. PICK n \in Bounds : SetRindex(n) BY <1>4
  <2>2. rindex' \in Nat BY <1>1, <2>1 DEF SetRindex
  <2>3. QED BY <1>1, <2>1, <2>2, OtherCallIInv DEF SetRindex, avars
<1>5. CASE \E n \in Bounds : SetLoopEndRec(n)
  BY <1>1, <1>5, OtherCallIInv DEF SetLoopEndRec, Gives, rvars
<1>6. CASE \E len \in Ramps : SetRecRamplen(len)
  <2>1. PICK len \in Ramps : SetRecRamplen(len) BY <1>6
  <2>2. len \in Nat /\ NonZero(len) \in Nat BY DEF NonZero
  <2>3. QED BY <1>1, <2>1, <2>2, OtherCallIInv DEF SetRecRamplen, rvars
<1>7. CASE \E m \in Modes : SetSync(m)
  BY <1>1, <1>7, OtherCallIInv DEF SetSync, rvars
<1>8. QED BY <1>2, <1>3, <1>4, <1>5, <1>6, <1>7 DEF RecordCall

(* Ticks. *)
LEMMA TickIInv ==
  ASSUME IInv, Tick
  PROVE  IInv'
<1> USE LiSaAssumption
<1>1. ASSUME RecordSamp, UNCHANGED <<avars, calls>>, hung' \in BOOLEAN,
             chan' \in [VoiceIds -> Channel], \A v \in VoiceIds : Good(chan'[v]),
             read' \in [VoiceIds -> SUBSET Nat], at' \in [VoiceIds -> Int]
      PROVE  IInv'
  <2>1. TypeOK BY DEF IInv
  <2>2. /\ rindex' \in Nat /\ record' \in BOOLEAN
        /\ wrote' \in Nat \cup {-1} /\ wgain' \in Int \X Nat
    BY <1>1, <2>1, RecordSampTypes
  <2>3. /\ loop_end_rec' = loop_end_rec /\ looprec' = looprec
        /\ rec_ramplen' = rec_ramplen /\ rec_inv' = rec_inv /\ sync' = sync
        /\ far' = far /\ calls' = calls
    BY <1>1 DEF avars
  <2>4. TypeOK' BY <1>1, <2>1, <2>2, <2>3 DEF TypeOK
  <2>5. (\A v \in VoiceIds : Good(chan[v]))' BY <1>1 DEF Good
  <2>6. QED BY <2>4, <2>5 DEF IInv
<1>2. /\ chan \in [VoiceIds -> Channel] /\ read \in [VoiceIds -> SUBSET Nat]
      /\ at \in [VoiceIds -> Int] /\ hung \in BOOLEAN
      /\ \A v \in VoiceIds : chan[v] \in Channel /\ Good(chan[v])
  BY DEF IInv, TypeOK
<1>3. CASE TickInternal
  <2>1. \A v \in VoiceIds : chan[v].play /\ chan[v].loop => chan[v].start <= chan[v].end
    BY <1>2, <1>3 DEF TickInternal, Hangs, Channel
  <2>2. ASSUME NEW v \in VoiceIds, chan[v].play
        PROVE  /\ Stepped(chan[v]) \in Channel /\ Good(Stepped(chan[v]))
               /\ Placed(chan[v]).pindex \in Int
               /\ ~Over(chan[v]) => Reads(Placed(chan[v])) \in SUBSET Nat
    <3>1. Stepped(chan[v]) \in Channel /\ Good(Stepped(chan[v]))
      BY <1>2, <2>1, <2>2, SteppedIsGood
    <3>2. Placed(chan[v]) \in Channel
      BY <1>2, <2>1, <2>2, PlacedInLoop DEF Placed
    <3>3. ASSUME ~Over(chan[v]) PROVE Reads(Placed(chan[v])) \in SUBSET Nat
      <4>1. \A i \in Reads(Placed(chan[v])) : i \in 0 .. Len
        BY <1>2, <2>1, <2>2, <3>3, ReadsOfPlaced
      <4>2. QED BY <4>1
    <3>4. QED BY <3>1, <3>2, <3>3 DEF Channel
  <2>3. chan' \in [VoiceIds -> Channel] /\ \A v \in VoiceIds : Good(chan'[v])
    BY <1>2, <1>3, <2>2 DEF TickInternal
  <2>4. read' \in [VoiceIds -> SUBSET Nat] BY <1>3, <2>2 DEF TickInternal
  <2>5. at' \in [VoiceIds -> Int] BY <1>2, <1>3, <2>2 DEF TickInternal
  <2>6. QED BY <1>1, <1>2, <1>3, <2>3, <2>4, <2>5 DEF TickInternal
<1>4. CASE TickHangs BY <1>1, <1>2, <1>4 DEF TickHangs
<1>5. CASE \E in \in Inputs : TickPosition(in)
  <2>1. PICK in \in Inputs : TickPosition(in) BY <1>5
  <2>2. \A v \in VoiceIds : SyncReads(chan[v], Location(chan[v], in)) \in SUBSET Nat
    <3>1. SUFFICES ASSUME NEW v \in VoiceIds
                   PROVE  SyncReads(chan[v], Location(chan[v], in)) \in SUBSET Nat
      OBVIOUS
    <3>2. in \in Int /\ Abs(in) \in Int BY DEF Abs
    <3>3. (chan[v].end - chan[v].start) % Word \in Int
      <4> DEFINE n == chan[v].end - chan[v].start
      <4>1. n \in Int /\ Word \in Nat \ {0} BY <1>2 DEF Channel
      <4> HIDE DEF n
      <4>2. n % Word \in 0 .. Word - 1 BY <4>1, ModRange
      <4>3. QED BY <4>1, <4>2 DEF n
    <3>4. chan[v].start * Grain \in Int BY <1>2 DEF Channel
    <3>5. Location(chan[v], in) \in Int BY <3>2, <3>3, <3>4 DEF Location
    <3>6. QED BY <1>2, <3>5, SyncReadsAreNat
  <2>3. read' \in [VoiceIds -> SUBSET Nat] BY <2>1, <2>2 DEF TickPosition
  <2>4. QED BY <1>1, <1>2, <2>1, <2>3 DEF TickPosition
<1>6. CASE \E in \in Inputs : TickDuration(in)
  <2>1. PICK in \in Inputs : TickDuration(in) BY <1>6
  <2>2. Abs(in) \in Int BY DEF Abs
  <2>3. \A v \in VoiceIds : SyncReads(chan[v], Abs(in)) \in SUBSET Nat
    BY <1>2, <2>2, SyncReadsAreNat
  <2>4. read' \in [VoiceIds -> SUBSET Nat] BY <2>1, <2>3 DEF TickDuration
  <2>5. QED BY <1>1, <1>2, <2>1, <2>4 DEF TickDuration
<1>7. QED BY <1>3, <1>4, <1>5, <1>6 DEF Tick

(* Every step keeps the invariant.                                         *)
LEMMA Inductive == IInv /\ [Next]_vars => IInv'
<1> SUFFICES ASSUME IInv, [Next]_vars PROVE IInv' OBVIOUS
<1>1. CASE Tick BY <1>1, TickIInv
<1>2. CASE RecordCall BY <1>2, RecordCallIInv
<1>3. CASE \E v \in VoiceIds : VoiceCall(v) BY <1>3, VoiceCallIInv
<1>4. CASE UNCHANGED vars
  BY <1>4 DEF vars, rvars, avars, hvars, IInv, TypeOK, Good
<1>5. QED BY <1>1, <1>2, <1>3, <1>4 DEF Next

-----------------------------------------------------------------------------
(* Theorems                                                                *)

(* Every reachable state of a LiSa has the types of TypeOK. *)
THEOREM TypeCorrect == Spec => []TypeOK
<1>1. Spec => []IInv BY InitIInv, Inductive, PTL DEF Spec
<1>2. IInv => TypeOK BY DEF IInv
<1>3. QED BY <1>1, <1>2, PTL

(* getSamp reads between the ends of the loop and the sample after them.   *)
LEMMA SyncReadsInside ==
  ASSUME NEW c \in Channel, NEW where \in Int,
         NEW i \in SyncReads(c, where)
  PROVE  i \in Least(c.start, c.end) .. Greatest(c.start, c.end) + 1
<1> USE LiSaAssumption
<1> DEFINE w == Constrained(c, where)
           t == w \div Grain
           lo == Least(c.start, c.end)
           hi == Greatest(c.start, c.end)
<1>1. /\ c.start \in Nat /\ c.end \in Nat
      /\ lo \in Int /\ lo <= c.start /\ lo <= c.end
      /\ hi \in Int /\ c.start <= hi /\ c.end <= hi
  BY DEF Channel, Least, Greatest
<1> HIDE DEF lo, hi
<1>2. /\ c.start * Grain \in Int /\ c.end * Grain \in Int
      /\ lo * Grain \in Int /\ hi * Grain \in Int
      /\ lo * Grain <= c.start * Grain /\ lo * Grain <= c.end * Grain
      /\ c.start * Grain <= hi * Grain /\ c.end * Grain <= hi * Grain
  BY <1>1, MulMono
<1>3. w \in Int /\ lo * Grain <= w /\ w <= hi * Grain
  BY <1>2 DEF Constrained
<1> HIDE DEF w
<1>4. t \in Int /\ lo <= t /\ t <= hi
  <2>1. w \in Int /\ Grain \in Nat \ {0} /\ lo \in Int /\ hi \in Int
    BY <1>1, <1>3
  <2>2. t \in Int BY <2>1, DivRange
  <2>3. lo <= t BY <1>3, <2>1, DivLower
  <2>4. t <= hi BY <1>3, <2>1, DivUpper
  <2>5. QED BY <2>2, <2>3, <2>4
<1>5. i \in {t, IF t + 1 = c.end THEN c.start ELSE t + 1} BY DEF SyncReads, w
<1> HIDE DEF t
<1>6. i \in lo .. hi + 1 BY <1>1, <1>4, <1>5
<1>7. QED BY <1>6 DEF lo, hi

(* Where the input places a voice is an integer. *)
LEMMA LocationIsInt ==
  ASSUME NEW c \in Channel, NEW in \in Inputs
  PROVE  Location(c, in) \in Int /\ Abs(in) \in Int
<1>1. Abs(in) \in Int BY LiSaAssumption DEF Abs
<1>2. c.start * Grain \in Int BY LiSaAssumption DEF Channel
<1>3. (c.end - c.start) % Word \in Int BY LiSaAssumption DEF Channel
<1>4. Abs(in) * ((c.end - c.start) % Word) \in Int BY <1>1, <1>3
<1>5. QED BY <1>1, <1>2, <1>4 DEF Location

(* A looping voice reads nothing outside its loop, one that does not loop  *)
(* nothing outside the buffer (getNextSamp), and one that the input moves  *)
(* nothing but what lies between the ends of its loop and the sample after *)
(* them (getSamp), for every length, rate, position and resolution.        *)
THEOREM ReadsStayInside == Spec => VoicesReadInside
<1>1. ASSUME IInv, [Next]_vars
      PROVE  [Tick /\ ~hung' => \A v \in VoiceIds : \A i \in read'[v] :
                Inside(chan[v], i)]_vars
  <2>1. SUFFICES ASSUME Tick, ~hung', NEW v \in VoiceIds, NEW i \in read'[v]
                 PROVE  Inside(chan[v], i)
    OBVIOUS
  <2>2. /\ chan[v] \in Channel /\ Good(chan[v]) BY <1>1 DEF IInv, TypeOK
  <2>3. CASE TickInternal
    <3>1. chan[v].play /\ ~Over(chan[v]) /\ i \in Reads(Placed(chan[v]))
      BY <2>1, <2>3 DEF TickInternal
    <3>2. chan[v].loop => chan[v].start <= chan[v].end
      BY <2>2, <2>3, <3>1 DEF TickInternal, Hangs, Channel
    <3>3. /\ i \in 0 .. Len
          /\ chan[v].loop /\ chan[v].start < chan[v].end
               => i \in chan[v].start .. chan[v].end - 1
      BY <2>2, <3>1, <3>2, ReadsOfPlaced
    <3>4. sync = "INTERNAL" BY <2>3 DEF TickInternal
    <3>5. QED BY <3>3, <3>4 DEF Inside
  <2>4. CASE \E in \in Inputs : TickPosition(in)
    <3>1. PICK in \in Inputs : TickPosition(in) BY <2>4
    <3>2. sync # "INTERNAL" /\ i \in SyncReads(chan[v], Location(chan[v], in))
      BY <2>1, <3>1 DEF TickPosition
    <3>3. i \in Least(chan[v].start, chan[v].end)
               .. Greatest(chan[v].start, chan[v].end) + 1
      BY <2>2, <3>2, LocationIsInt, SyncReadsInside
    <3>4. QED BY <3>2, <3>3 DEF Inside
  <2>5. CASE \E in \in Inputs : TickDuration(in)
    <3>1. PICK in \in Inputs : TickDuration(in) BY <2>5
    <3>2. sync # "INTERNAL" /\ i \in SyncReads(chan[v], Abs(in))
      BY <2>1, <3>1 DEF TickDuration
    <3>3. i \in Least(chan[v].start, chan[v].end)
               .. Greatest(chan[v].start, chan[v].end) + 1
      BY <2>2, <3>1, <3>2, LocationIsInt, SyncReadsInside
    <3>4. QED BY <3>2, <3>3 DEF Inside
  <2>6. CASE TickHangs BY <2>1, <2>6 DEF TickHangs
  <2>7. QED BY <2>1, <2>3, <2>4, <2>5, <2>6 DEF Tick
<1>2. Spec => []IInv BY InitIInv, Inductive, PTL DEF Spec
<1>3. QED BY <1>1, <1>2, PTL DEF Spec, VoicesReadInside

(* The fade of the record head is scaled by its own length. *)
RecordFade == rec_ramplen > 0 => rec_inv = rec_ramplen

(* Every step keeps the reciprocal of the fade with its length.            *)
LEMMA RecordFadeStep == RecordFade /\ [Next]_vars => RecordFade'
<1>1. SUFFICES ASSUME RecordFade, [Next]_vars PROVE RecordFade' OBVIOUS
<1>2. CASE UNCHANGED <<rec_ramplen, rec_inv>> BY <1>1, <1>2 DEF RecordFade
<1>3. CASE Tick
  BY <1>2, <1>3 DEF Tick, TickInternal, TickHangs, TickPosition, TickDuration, avars
<1>4. CASE \E len \in Ramps : SetRecRamplen(len)
  BY <1>4, LiSaAssumption DEF SetRecRamplen, NonZero, RecordFade
<1>5. CASE RecordCall /\ ~\E len \in Ramps : SetRecRamplen(len)
  BY <1>2, <1>5 DEF RecordCall, SetRecord, SetLoopRec, SetRindex, SetLoopEndRec,
                    SetSync, avars
<1>6. CASE \E v \in VoiceIds : VoiceCall(v)
  BY <1>2, <1>6 DEF VoiceCall, SetPlay, SetLoop, SetBi, SetRate, SetPindex,
                    SetLstart, SetLend, RampUp, RampDown, Voice, Touch
<1>7. CASE UNCHANGED vars BY <1>2, <1>7 DEF vars, avars
<1>8. QED BY <1>1, <1>3, <1>4, <1>5, <1>6, <1>7 DEF Next

(* Taking a number that is not negative modulo another makes it no larger. *)
LEMMA ModShrinks ==
  ASSUME NEW n \in Nat, NEW w \in Nat \ {0}
  PROVE  n % w \in Nat /\ n % w <= n
OBVIOUS

(* The gain of a fade that runs is at most the full one.                   *)
LEMMA RecGainBounded ==
  ASSUME RecordFade, NEW h \in Nat, h < loop_end_rec, loop_end_rec \in Nat,
         rec_ramplen \in Nat, rec_inv \in Nat
  PROVE  RecGain(h)[1] <= RecGain(h)[2]
<1>1. CASE h < rec_ramplen
  <2>1. RecGain(h) = <<h, rec_inv>> BY <1>1 DEF RecGain
  <2>2. h <= rec_inv BY <1>1 DEF RecordFade
  <2>3. QED BY <2>1, <2>2
<1>2. CASE ~(h < rec_ramplen) /\ h > loop_end_rec - rec_ramplen
  <2>1. RecGain(h) = <<(loop_end_rec - h) % Word, rec_inv>> BY <1>2 DEF RecGain
  <2>2. loop_end_rec - h \in Nat /\ loop_end_rec - h < rec_ramplen BY <1>2
  <2>3. /\ (loop_end_rec - h) % Word \in Nat
        /\ (loop_end_rec - h) % Word <= loop_end_rec - h
    <3>1. Word \in Nat \ {0} BY LiSaAssumption
    <3>2. QED BY <2>2, <3>1, ModShrinks
  <2>4. rec_inv = rec_ramplen BY <2>2 DEF RecordFade
  <2>5. (loop_end_rec - h) % Word <= rec_inv BY <2>2, <2>3, <2>4
  <2>6. QED BY <2>1, <2>5
<1>3. CASE ~(h < rec_ramplen) /\ ~(h > loop_end_rec - rec_ramplen)
  <2>1. RecGain(h) = <<1, 1>> BY <1>3 DEF RecGain
  <2>2. QED BY <2>1
<1>4. QED BY <1>1, <1>2, <1>3

(* How loud the record head writes. *)
LEMMA RecordStep ==
  ASSUME IInv, RecordFade, Tick, RecordLoop, wrote' # -1
  PROVE  wgain'[1] <= wgain'[2]
<1> USE LiSaAssumption
<1>1. RecordSamp
  BY DEF Tick, TickInternal, TickHangs, TickPosition, TickDuration
<1>2. Record BY <1>1 DEF RecordSamp, RecordEnds, RecordIdle
<1>3. /\ chan[0].start \in Nat /\ rindex \in Nat /\ loop_end_rec \in Nat
      /\ chan[0].start < loop_end_rec
      /\ rec_ramplen \in Nat /\ rec_inv \in Nat
  <2>1. 0 \in VoiceIds BY DEF VoiceIds
  <2>2. QED BY <2>1 DEF IInv, TypeOK, Channel, RecordLoop
<1>4. wgain' = RecGain(Head) BY <1>2 DEF Record
<1>5. Head \in 0 .. loop_end_rec - 1 BY <1>2, <1>3 DEF Record, Head
<1>6. RecGain(Head)[1] <= RecGain(Head)[2]
  <2>1. Head \in Nat /\ Head < loop_end_rec BY <1>3, <1>5
  <2>2. QED BY <1>3, <2>1, RecGainBounded
<1>7. QED BY <1>4, <1>6

(* The invariant the theorem on the fade of recordSamp needs. *)
LEMMA RecordInv == Spec => [](IInv /\ RecordFade)
<1>1. Init => RecordFade BY DEF Init, RecordFade
<1>2. QED BY <1>1, RecordFadeStep, InitIInv, Inductive, PTL DEF Spec

(* recordSamp's fade never scales a sample up, however ramps and loop ends *)
(* are changed while it records.                                           *)
THEOREM RecordingNotAmplified == Spec => RecordNotAmplified
<1>1. IInv /\ RecordFade
        => [Tick /\ RecordLoop /\ wrote' # -1 => wgain'[1] <= wgain'[2]]_vars
  BY RecordStep
<1>2. QED BY <1>1, RecordInv, PTL DEF RecordNotAmplified

-----------------------------------------------------------------------------
(* The buffer                                                              *)

(* As long as no bound was given past the buffer, no loop starts and no    *)
(* recording ends past it, though both are set in several calls and the    *)
(* start is compared to the length one call late.                          *)
Near == ~far => loop_end_rec <= Len /\ \A v \in VoiceIds : chan[v].start <= Len

(* A call that moves the start of no loop and the end of no recording.     *)
LEMMA NearKept ==
  ASSUME Near, far' = far, loop_end_rec' = loop_end_rec,
         \A v \in VoiceIds : chan'[v].start = chan[v].start
  PROVE  Near'
  BY DEF Near

(* A call on one voice that leaves the start of its loop alone.            *)
LEMMA VoiceNear ==
  ASSUME IInv, Near, NEW v \in VoiceIds, NEW c, Voice(v, c), c.start = chan[v].start
  PROVE  Near'
<1>1. \A u \in VoiceIds : chan'[u].start = chan[u].start
  BY DEF Voice, Touch, IInv, TypeOK
<1>2. far' = far /\ loop_end_rec' = loop_end_rec BY DEF Voice, Touch
<1>3. QED BY <1>1, <1>2, NearKept

(* The calls on a voice.                                                   *)
LEMMA VoiceCallNear ==
  ASSUME IInv, Near, NEW v \in VoiceIds, VoiceCall(v)
  PROVE  Near'
<1> USE LiSaAssumption
<1> DEFINE c == chan[v]
<1>1. c \in Channel BY DEF IInv, TypeOK
<1>2. CASE \E n \in Bounds : SetLstart(v, n)
  <2>1. PICK n \in Bounds : SetLstart(v, n) BY <1>2
  <2> DEFINE s == IF c.start >= Len THEN Len - 1 ELSE n
             f == [c EXCEPT !.start = s]
  <2>2. /\ Touch(v, f) /\ far' = (far \/ n > Len) /\ loop_end_rec' = loop_end_rec
    BY <2>1 DEF SetLstart, Gives, Touch
  <2>3. f.start = s BY <1>1 DEF Channel
  <2>4. n <= Len => s <= Len OBVIOUS
  <2> HIDE DEF s
  <2>5. \A u \in VoiceIds : chan'[u] = IF u = v THEN f ELSE chan[u]
    BY <2>2 DEF Touch, IInv, TypeOK
  <2> HIDE DEF f
  <2>6. n \in Nat OBVIOUS
  <2>7. SUFFICES ASSUME ~far'
                 PROVE  loop_end_rec' <= Len /\ \A u \in VoiceIds : chan'[u].start <= Len
    BY DEF Near
  <2>8. ~far /\ n <= Len
    <3>1. ~far /\ ~(n > Len) BY <2>2, <2>7, Zenon
    <3>2. QED BY <2>6, <3>1
  <2>9. loop_end_rec <= Len /\ \A u \in VoiceIds : chan[u].start <= Len
    BY <2>8 DEF Near
  <2>10. QED BY <2>2, <2>3, <2>4, <2>5, <2>8, <2>9
<1>3. CASE \E b \in BOOLEAN : SetPlay(v, b) \/ SetLoop(v, b) \/ SetBi(v, b)
  <2>1. PICK b \in BOOLEAN : SetPlay(v, b) \/ SetLoop(v, b) \/ SetBi(v, b) BY <1>3
  <2> DEFINE f == [c EXCEPT !.play = b, !.up = FALSE, !.down = FALSE]
             g == [c EXCEPT !.loop = b]
             h == [c EXCEPT !.bi = b]
  <2>2. f.start = c.start /\ g.start = c.start /\ h.start = c.start
    BY <1>1 DEF Channel
  <2>3. Voice(v, f) \/ Voice(v, g) \/ Voice(v, h) BY <2>1 DEF SetPlay, SetLoop, SetBi
  <2> HIDE DEF f, g, h
  <2>4. QED BY <2>2, <2>3, VoiceNear
<1>4. CASE \E r \in Rates : SetRate(v, r)
  <2>1. PICK r \in Rates : SetRate(v, r) BY <1>4
  <2> DEFINE f == [c EXCEPT !.inc = r]
  <2>2. f.start = c.start BY <1>1 DEF Channel
  <2>3. Voice(v, f) BY <2>1 DEF SetRate
  <2> HIDE DEF f
  <2>4. QED BY <2>2, <2>3, VoiceNear
<1>5. CASE \E p \in Places : SetPindex(v, p)
  <2>1. PICK p \in Places : SetPindex(v, p) BY <1>5
  <2> DEFINE f == [c EXCEPT !.pindex = p]
  <2>2. f.start = c.start BY <1>1 DEF Channel
  <2>3. Voice(v, f) BY <2>1 DEF SetPindex
  <2> HIDE DEF f
  <2>4. QED BY <2>2, <2>3, VoiceNear
<1>6. CASE \E n \in Bounds : SetLend(v, n)
  <2>1. PICK n \in Bounds : SetLend(v, n) BY <1>6
  <2> DEFINE e == IF n >= Len THEN Len - 1 ELSE n
             f == [c EXCEPT !.end = e]
  <2>2. f.start = c.start BY <1>1 DEF Channel
  <2>3. Voice(v, f) BY <2>1 DEF SetLend
  <2> HIDE DEF f
  <2>4. QED BY <2>2, <2>3, VoiceNear
<1>7. CASE \E len \in Ramps : RampUp(v, len) \/ RampDown(v, len)
  <2>1. PICK len \in Ramps : RampUp(v, len) \/ RampDown(v, len) BY <1>7
  <2> DEFINE k == NonZero(len)
             i == IF len > 0 THEN len ELSE c.upinv
             j == IF len > 0 THEN len ELSE c.downinv
             x == IF c.down THEN Reversed(k, c.ctr, c.downlen) ELSE 0
             y == IF c.up THEN Reversed(k, c.ctr, c.uplen) ELSE 0
             f == [c EXCEPT !.up = TRUE, !.play = TRUE, !.uplen = k, !.upinv = i,
                            !.ctr = x, !.down = FALSE]
             g == [c EXCEPT !.down = TRUE, !.downlen = k, !.downinv = j,
                            !.ctr = y, !.up = FALSE]
  <2>2. Voice(v, f) \/ Voice(v, g) BY <2>1 DEF RampUp, RampDown
  <2> HIDE DEF k, i, j, x, y
  <2>3. f.start = c.start /\ g.start = c.start BY <1>1 DEF Channel
  <2> HIDE DEF f, g
  <2>4. QED BY <2>2, <2>3, VoiceNear
<1>8. QED BY <1>2, <1>3, <1>4, <1>5, <1>6, <1>7 DEF VoiceCall

(* The calls that set up the record head.                                  *)
LEMMA RecordCallNear ==
  ASSUME IInv, Near, RecordCall
  PROVE  Near'
<1> USE LiSaAssumption
<1>1. CASE \E n \in Bounds : SetLoopEndRec(n)
  <2>1. PICK n \in Bounds : SetLoopEndRec(n) BY <1>1
  <2>2. /\ loop_end_rec' = n /\ far' = (far \/ n > Len) /\ chan' = chan /\ n \in Nat
    BY <2>1 DEF SetLoopEndRec, Gives
  <2>3. SUFFICES ASSUME ~far'
                 PROVE  loop_end_rec' <= Len /\ \A u \in VoiceIds : chan'[u].start <= Len
    BY DEF Near
  <2>4. ~far /\ ~(n > Len) BY <2>2, <2>3, Zenon
  <2>5. \A u \in VoiceIds : chan[u].start <= Len BY <2>4 DEF Near
  <2>6. QED BY <2>2, <2>4, <2>5
<1>2. CASE RecordCall /\ ~\E n \in Bounds : SetLoopEndRec(n)
  <2>1. chan' = chan /\ far' = far /\ loop_end_rec' = loop_end_rec
    BY <1>2 DEF RecordCall, SetRecord, SetLoopRec, SetRindex, SetRecRamplen, SetSync,
                avars
  <2>2. QED BY <2>1, NearKept
<1>3. QED BY <1>1, <1>2

(* Ticks leave all starts and ends where they are.                         *)
LEMMA TickNear ==
  ASSUME IInv, Near, Tick
  PROVE  Near'
<1>1. far' = far /\ loop_end_rec' = loop_end_rec
  BY DEF Tick, TickInternal, TickHangs, TickPosition, TickDuration, avars
<1>2. \A v \in VoiceIds : chan[v] \in Channel /\ Good(chan[v]) BY DEF IInv, TypeOK
<1>3. ASSUME NEW v \in VoiceIds PROVE chan'[v].start = chan[v].start
  <2>1. CASE TickInternal
    <3>1. CASE chan[v].play
      <4>1. chan[v].loop => chan[v].start <= chan[v].end
        BY <1>2, <2>1, <3>1 DEF TickInternal, Hangs, Channel
      <4>2. Stepped(chan[v]).start = chan[v].start BY <1>2, <4>1, SteppedIsGood
      <4>3. chan'[v] = Stepped(chan[v]) BY <2>1, <3>1 DEF TickInternal
      <4>4. QED BY <4>2, <4>3
    <3>2. CASE ~chan[v].play BY <2>1, <3>2 DEF TickInternal
    <3>3. QED BY <3>1, <3>2
  <2>2. CASE chan' = chan BY <2>2
  <2>3. QED BY <2>1, <2>2 DEF Tick, TickHangs, TickPosition, TickDuration
<1>4. QED BY <1>1, <1>3, NearKept

(* The invariant of the buffer.                                            *)
LEMMA NearInv == Spec => [](IInv /\ Near)
<1> USE LiSaAssumption
<1>1. Init => Near
  <2>1. SUFFICES ASSUME Init PROVE Near OBVIOUS
  <2>2. loop_end_rec = Len /\ \A v \in VoiceIds : chan[v] = NewChannel
    BY <2>1 DEF Init
  <2>3. NewChannel.start = 0 BY DEF NewChannel
  <2>4. QED BY <2>2, <2>3 DEF Near
<1>2. IInv /\ Near /\ [Next]_vars => Near'
  <2>1. SUFFICES ASSUME IInv, Near, [Next]_vars PROVE Near' OBVIOUS
  <2>2. CASE UNCHANGED vars BY <2>1, <2>2, NearKept DEF vars, avars
  <2>3. QED BY <2>1, <2>2, TickNear, RecordCallNear, VoiceCallNear DEF Next
<1>3. QED BY <1>1, <1>2, InitIInv, Inductive, PTL DEF Spec

(* What one tick writes.                                                   *)
LEMMA WritesInBuffer ==
  ASSUME IInv, Near, ~far, Tick
  PROVE  wrote' = -1 \/ InBuffer(wrote')
<1> USE LiSaAssumption
<1>1. RecordSamp
  BY DEF Tick, TickInternal, TickHangs, TickPosition, TickDuration
<1>2. 0 \in VoiceIds BY DEF VoiceIds
<1>3. /\ chan[0].start \in Nat /\ chan[0].start <= Len
      /\ loop_end_rec \in Nat /\ loop_end_rec <= Len /\ rindex \in Nat
  BY <1>2 DEF Near, IInv, TypeOK, Channel
<1>4. CASE Record
  <2>1. wrote' = Head /\ (looprec \/ rindex < loop_end_rec) BY <1>4 DEF Record
  <2>2. Head \in 0 .. Len BY <1>3, <2>1 DEF Head
  <2>3. QED BY <2>1, <2>2 DEF InBuffer
<1>5. CASE ~Record BY <1>1, <1>5 DEF RecordSamp, RecordEnds, RecordIdle
<1>6. QED BY <1>4, <1>5

(* What one tick reads for a voice.                                        *)
LEMMA ReadsInBuffer ==
  ASSUME IInv, Near, ~far, [Next]_vars, Tick, ~hung', NEW v \in VoiceIds,
         NEW i \in read'[v], Inside(chan[v], i)
  PROVE  InBuffer(i) \/ (AtEnd(chan[v]) /\ i = Len + 1)
<1> USE LiSaAssumption
<1> DEFINE c == chan[v]
<1>1. /\ c \in Channel /\ c.start \in Nat /\ c.end \in Nat
      /\ c.start <= Len /\ c.end <= Len
  BY DEF Near, IInv, TypeOK, Good, Channel
<1> HIDE DEF c
<1>2. CASE sync # "INTERNAL"
  <2>1. i \in Least(c.start, c.end) .. Greatest(c.start, c.end) + 1
    BY <1>2 DEF Inside, c
  <2>2. /\ Least(c.start, c.end) \in Nat
        /\ Greatest(c.start, c.end) \in {c.start, c.end}
    BY <1>1 DEF Least, Greatest
  <2>3. i \in Nat /\ i <= Len + 1 /\ (i = Len + 1 => c.start >= Len \/ c.end >= Len)
    BY <1>1, <2>1, <2>2
  <2>4. QED BY <1>2, <2>3 DEF InBuffer, AtEnd, c
<1>3. CASE sync = "INTERNAL"
  <2>1. IF c.loop /\ c.start < c.end THEN i \in c.start .. c.end - 1 ELSE i \in 0 .. Len
    BY <1>3 DEF Inside, c
  <2>2. i \in 0 .. Len BY <1>1, <2>1
  <2>3. QED BY <2>2 DEF InBuffer
<1>4. QED BY <1>2, <1>3

(* As long as no call gives a loop start or a record end past the buffer,  *)
(* no tick touches memory outside it (getNextSamp, recordSamp), but for    *)
(* the second sample of a voice that the input takes to the end of the     *)
(* buffer (getSamp), for any length, voices, positions, rates and calls.   *)
THEOREM TicksStayInBuffer == Spec => TicksInBuffer
<1>1. ASSUME IInv, Near, [Next]_vars,
             [Tick /\ ~hung' => \A v \in VoiceIds : \A i \in read'[v] :
                Inside(chan[v], i)]_vars
      PROVE  [Tick /\ ~far =>
                /\ wrote' = -1 \/ InBuffer(wrote')
                /\ ~hung' => \A v \in VoiceIds : \A i \in read'[v] :
                               InBuffer(i) \/ (AtEnd(chan[v]) /\ i = Len + 1)]_vars
  <2>1. SUFFICES ASSUME Tick, ~far, ~UNCHANGED vars
                 PROVE  /\ wrote' = -1 \/ InBuffer(wrote')
                        /\ ~hung' => \A v \in VoiceIds : \A i \in read'[v] :
                             InBuffer(i) \/ (AtEnd(chan[v]) /\ i = Len + 1)
    OBVIOUS
  <2>2. wrote' = -1 \/ InBuffer(wrote') BY <1>1, <2>1, WritesInBuffer
  <2>3. ASSUME ~hung', NEW v \in VoiceIds, NEW i \in read'[v]
        PROVE  InBuffer(i) \/ (AtEnd(chan[v]) /\ i = Len + 1)
    <3>1. Inside(chan[v], i) BY <1>1, <2>1, <2>3
    <3>2. QED BY <1>1, <2>1, <2>3, <3>1, ReadsInBuffer
  <2>4. QED BY <2>2, <2>3
<1>2. QED BY <1>1, NearInv, ReadsStayInside, PTL DEF Spec, TicksInBuffer, VoicesReadInside

-----------------------------------------------------------------------------
(* Continuity                                                              *)

(* What is smaller than the divisor is its own remainder.                  *)
LEMMA ModSmall ==
  ASSUME NEW d \in Nat \ {0}, NEW x \in 0 .. d - 1
  PROVE  x % d = x
<1>1. CASE x = 0 BY <1>1, SMT
<1>2. QED BY SMT

(* Wrapping leaves a position alone that is inside the loop.               *)
LEMMA WrappedInside ==
  ASSUME NEW c \in Channel, c.start < c.end,
         c.pindex \in c.start * Grain .. c.end * Grain - 1
  PROVE  Wrapped(c).pindex = c.pindex
<1> USE LiSaAssumption
<1> DEFINE s == c.start * Grain
           L == (c.end - c.start) * Grain
           x == c.pindex - s
           p == s + (x % L)
<1>1. c.start \in Nat /\ c.end \in Nat /\ c.pindex \in Int BY DEF Channel
<1>2. s \in Int /\ L = c.end * Grain - s BY <1>1, SMT
<1>3. L \in Nat \ {0}
  <2>1. c.end - c.start \in Nat \ {0} BY <1>1
  <2>2. QED BY <2>1, SMT
<1>4. x \in 0 .. L - 1 BY <1>1, <1>2
<1>5. Wrapped(c) = [c EXCEPT !.pindex = p] BY <1>1 DEF Wrapped
<1> HIDE DEF s, L, p
<1>6. Wrapped(c).pindex = p BY <1>5 DEF Channel
<1>7. x % L = x BY <1>3, <1>4, ModSmall
<1>8. QED BY <1>1, <1>2, <1>6, <1>7 DEF p

(* Where a voice is placed that is one step from a place inside its loop:  *)
(* there, or back at that place if it left the loop.                       *)
LEMMA PlacedBack ==
  ASSUME NEW c \in Channel, NEW from \in c.start * Grain .. c.end * Grain - 1,
         c.loop, c.bi, c.pindex = from + c.inc
  PROVE  Placed(c).pindex \in {from, c.pindex}
<1> USE LiSaAssumption
<1> DEFINE d == Turned(c)
           q == c.pindex - c.inc
           r == -c.inc
           out == c.pindex >= c.end * Grain \/ c.pindex < c.start * Grain
<1>1. /\ c.start \in Nat /\ c.end \in Nat /\ c.pindex \in Int /\ c.inc \in Int
      /\ c.start * Grain \in Int /\ c.end * Grain \in Int /\ from \in Int
  BY DEF Channel
<1>2. c.start < c.end
  <2>1. SUFFICES ASSUME c.end <= c.start PROVE FALSE BY <1>1
  <2>2. c.end * Grain <= c.start * Grain BY <1>1, <2>1, MulMono
  <2>3. QED BY <1>1, <2>2
<1>3. Placed(c) = Wrapped(d) BY DEF Placed
<1>4. d = IF out THEN [c EXCEPT !.pindex = q, !.inc = r] ELSE c BY DEF Turned
<1>5. q = from /\ r \in Int BY <1>1
<1> HIDE DEF q, r, d
<1>6. CASE out
  <2>1. /\ d \in Channel /\ d.start = c.start /\ d.end = c.end
        /\ d.pindex = from
    BY <1>1, <1>4, <1>5, <1>6 DEF Channel
  <2>2. QED BY <1>2, <1>3, <2>1, WrappedInside
<1>7. CASE ~out
  <2>1. d = c BY <1>4, <1>7
  <2>2. c.pindex \in c.start * Grain .. c.end * Grain - 1 BY <1>1, <1>7
  <2>3. QED BY <1>2, <1>3, <2>1, <2>2, WrappedInside
<1>8. QED BY <1>6, <1>7

(* A bidirectional voice nobody touched moves by no more than its rate,    *)
(* for every loop, rate and resolution.                                    *)
THEOREM BiIsContinuous == Spec => BiContinuous
<1> USE LiSaAssumption
<1>1. ASSUME IInv, TickInternal, NEW v \in VoiceIds,
             chan[v].play, chan[v].loop, chan[v].bi,
             chan[v].pindex = at[v] + chan[v].inc,
             at[v] \in chan[v].start * Grain .. chan[v].end * Grain - 1
      PROVE  Abs(at'[v] - at[v]) <= Abs(chan[v].inc)
  <2> DEFINE c == chan[v]
             a == at[v]
             b == at'[v]
  <2>1. c \in Channel /\ a \in Int BY <1>1 DEF IInv, TypeOK
  <2>2. b = Placed(c).pindex BY <1>1 DEF TickInternal
  <2>3. c.inc \in Int /\ c.pindex \in Int BY <2>1 DEF Channel
  <2>4. b \in {a, c.pindex} BY <1>1, <2>1, <2>2, PlacedBack
  <2>5. c.pindex = a + c.inc BY <1>1
  <2> HIDE DEF a, b, c
  <2>6. Abs(b - a) <= Abs(c.inc) BY <2>1, <2>3, <2>4, <2>5 DEF Abs
  <2>7. QED BY <2>6 DEF a, b, c
<1>2. IInv => [TickInternal => \A v \in VoiceIds :
                 LET c == chan[v] IN
                   /\ c.play /\ c.loop /\ c.bi
                   /\ c.pindex = at[v] + c.inc
                   /\ at[v] \in c.start * Grain .. c.end * Grain - 1
                   => Abs(at'[v] - at[v]) <= Abs(c.inc)]_vars
  BY <1>1
<1>3. Spec => []IInv BY InitIInv, Inductive, PTL DEF Spec
<1>4. QED BY <1>2, <1>3, PTL DEF BiContinuous

-----------------------------------------------------------------------------
(* Fades of the voices                                                     *)

(* The strengthening: a voice fades one way at a time, its counter is      *)
(* within the fade, and the fade is no longer than what it is scaled by.   *)
Fading(c) ==
  /\ ~(c.up /\ c.down)
  /\ c.uplen <= c.upinv /\ c.downlen <= c.downinv
  /\ c.upinv > 0 /\ c.downinv > 0
  /\ c.up => c.ctr \in 0 .. c.uplen * Unit
  /\ c.down => c.ctr \in 0 .. c.downlen * Unit

Fadings == \A v \in VoiceIds : Fading(chan[v])

(* What a step does to the fade of a voice: its lengths stay, and it goes  *)
(* on or ends; or a call begins one.                                       *)
SameLengths(c, d) ==
  /\ d.uplen = c.uplen /\ d.upinv = c.upinv
  /\ d.downlen = c.downlen /\ d.downinv = c.downinv

Quiet(c, d) ==
  /\ SameLengths(c, d)
  /\ d.up => c.up /\ d.ctr = c.ctr
  /\ d.down => c.down /\ d.ctr = c.ctr

Ticked(c, d) ==
  /\ SameLengths(c, d)
  /\ d.ctr = c.ctr + Unit
  /\ d.up => c.up /\ d.ctr < c.uplen * Unit
  /\ d.down => c.down /\ (d.ctr < c.downlen * Unit \/ c.up)

UpBegins(c, d, len) ==
  /\ d.up /\ ~d.down
  /\ d.uplen = NonZero(len) /\ d.upinv = (IF len > 0 THEN len ELSE c.upinv)
  /\ d.downlen = c.downlen /\ d.downinv = c.downinv
  /\ d.ctr = (IF c.down THEN Reversed(NonZero(len), c.ctr, c.downlen) ELSE 0)

DownBegins(c, d, len) ==
  /\ d.down /\ ~d.up
  /\ d.downlen = NonZero(len) /\ d.downinv = (IF len > 0 THEN len ELSE c.downinv)
  /\ d.uplen = c.uplen /\ d.upinv = c.upinv
  /\ d.ctr = (IF c.up THEN Reversed(NonZero(len), c.ctr, c.uplen) ELSE 0)

FadeMoves(c, d) ==
  \/ Quiet(c, d)
  \/ Ticked(c, d)
  \/ \E len \in Nat : UpBegins(c, d, len) \/ DownBegins(c, d, len)

(* Placing a voice changes its position and rate, not its fade.            *)
LEMMA PlacedFade ==
  ASSUME NEW c \in Channel
  PROVE  \E p, r : Placed(c) = [c EXCEPT !.pindex = p, !.inc = r]
<1>1. \E p, r : Turned(c) = [c EXCEPT !.pindex = p, !.inc = r]
  <2> DEFINE q == c.pindex - c.inc
             r == -c.inc
  <2>1. Turned(c) = [c EXCEPT !.pindex = q, !.inc = r] \/ Turned(c) = c BY DEF Turned
  <2>2. c = [c EXCEPT !.pindex = c.pindex, !.inc = c.inc] BY DEF Channel
  <2> HIDE DEF q, r
  <2>3. QED BY <2>1, <2>2
<1>2. ASSUME NEW d PROVE \E p : Wrapped(d) = [d EXCEPT !.pindex = p]
  BY DEF Wrapped
<1>3. PICK p, r : Turned(c) = [c EXCEPT !.pindex = p, !.inc = r] BY <1>1
<1>4. PICK q : Wrapped(Turned(c)) = [Turned(c) EXCEPT !.pindex = q] BY <1>2
<1>5. Wrapped(Turned(c)) = [c EXCEPT !.pindex = q, !.inc = r]
  BY <1>3, <1>4 DEF Channel
<1>6. c = [c EXCEPT !.pindex = c.pindex, !.inc = c.inc] BY DEF Channel
<1>7. QED BY <1>5, <1>6 DEF Placed

(* A tick of a voice takes its fade on by a tick, or leaves it alone.      *)
LEMMA SteppedFade ==
  ASSUME NEW c \in Channel
  PROVE  FadeMoves(c, Stepped(c))
<1> USE LiSaAssumption
<1>1. CASE Over(c)
  <2>1. Stepped(c) = [c EXCEPT !.play = FALSE] BY <1>1 DEF Stepped
  <2>2. Quiet(c, Stepped(c)) BY <2>1 DEF Quiet, SameLengths, Channel
  <2>3. QED BY <2>2 DEF FadeMoves
<1>2. CASE ~Over(c)
  <2>1. PICK p, r : Placed(c) = [c EXCEPT !.pindex = p, !.inc = r] BY PlacedFade
  <2> DEFINE s == Placed(c).pindex + Placed(c).inc
             e == [Placed(c) EXCEPT !.pindex = s]
  <2>2. Stepped(c) = Faded(e) BY <1>2 DEF Stepped
  <2> HIDE DEF s
  <2>3. e = [c EXCEPT !.pindex = s, !.inc = r] BY <2>1 DEF Channel
  <2> HIDE DEF e
  <2> DEFINE n == c.ctr + Unit
             u == n < c.uplen * Unit
             w == n < c.downlen * Unit
  <2>4. /\ e.ctr = c.ctr /\ e.up = c.up /\ e.down = c.down
        /\ e.uplen = c.uplen /\ e.downlen = c.downlen
    BY <2>3 DEF Channel
  <2>5. Faded(e) = IF c.up THEN [e EXCEPT !.ctr = n, !.up = u]
                   ELSE IF c.down THEN [e EXCEPT !.ctr = n, !.down = w, !.play = w]
                   ELSE e
    BY <2>4 DEF Faded
  <2>6. (u <=> n < c.uplen * Unit) /\ (w <=> n < c.downlen * Unit) OBVIOUS
  <2> HIDE DEF u, w
  <2>7. CASE c.up
    <3>1. Faded(e) = [c EXCEPT !.pindex = s, !.inc = r, !.ctr = n, !.up = u]
      BY <2>3, <2>5, <2>7 DEF Channel
    <3>2. /\ SameLengths(c, Faded(e)) /\ Faded(e).ctr = n
          /\ Faded(e).up = u /\ Faded(e).down = c.down
      BY <3>1 DEF SameLengths, Channel
    <3>3. Ticked(c, Faded(e)) BY <2>6, <2>7, <3>2 DEF Ticked
    <3>4. QED BY <2>2, <3>3 DEF FadeMoves
  <2>8. CASE ~c.up /\ c.down
    <3>1. Faded(e) = [c EXCEPT !.pindex = s, !.inc = r, !.ctr = n, !.down = w, !.play = w]
      BY <2>3, <2>5, <2>8 DEF Channel
    <3>2. /\ SameLengths(c, Faded(e)) /\ Faded(e).ctr = n
          /\ Faded(e).up = c.up /\ Faded(e).down = w
      BY <3>1 DEF SameLengths, Channel
    <3>3. Ticked(c, Faded(e)) BY <2>6, <2>8, <3>2 DEF Ticked
    <3>4. QED BY <2>2, <3>3 DEF FadeMoves
  <2>9. CASE ~c.up /\ ~c.down
    <3>1. Faded(e) = e BY <2>5, <2>9
    <3>2. Quiet(c, e) BY <2>3, <2>4, <2>9 DEF Quiet, SameLengths, Channel
    <3>3. QED BY <2>2, <3>1, <3>2 DEF FadeMoves
  <2>10. QED BY <2>7, <2>8, <2>9
<1>3. QED BY <1>1, <1>2

(* A call on a voice leaves its fade alone, ends it, or begins one.        *)
LEMMA VoiceCallFade ==
  ASSUME TypeOK, NEW v \in VoiceIds, VoiceCall(v)
  PROVE  \A u \in VoiceIds : FadeMoves(chan[u], chan'[u])
<1> USE LiSaAssumption
<1> DEFINE c == chan[v]
<1>1. c \in Channel /\ chan \in [VoiceIds -> Channel] BY DEF TypeOK
<1>2. ASSUME NEW d, Touch(v, d), FadeMoves(c, d)
      PROVE  \A u \in VoiceIds : FadeMoves(chan[u], chan'[u])
  <2>1. \A u \in VoiceIds : chan'[u] = IF u = v THEN d ELSE chan[u]
    BY <1>1, <1>2 DEF Touch
  <2>2. \A u \in VoiceIds : Quiet(chan[u], chan[u]) BY DEF Quiet, SameLengths
  <2>3. QED BY <1>2, <2>1, <2>2 DEF FadeMoves
<1> HIDE DEF c
<1>3. ASSUME NEW d, Touch(v, d), Quiet(c, d)
      PROVE  \A u \in VoiceIds : FadeMoves(chan[u], chan'[u])
  BY <1>2, <1>3 DEF FadeMoves
<1>4. CASE \E b \in BOOLEAN : SetPlay(v, b) \/ SetLoop(v, b) \/ SetBi(v, b)
  <2>1. PICK b \in BOOLEAN : SetPlay(v, b) \/ SetLoop(v, b) \/ SetBi(v, b) BY <1>4
  <2> DEFINE f == [c EXCEPT !.play = b, !.up = FALSE, !.down = FALSE]
             g == [c EXCEPT !.loop = b]
             h == [c EXCEPT !.bi = b]
  <2>2. Quiet(c, f) /\ Quiet(c, g) /\ Quiet(c, h)
    BY <1>1 DEF Quiet, SameLengths, Channel
  <2>3. Touch(v, f) \/ Touch(v, g) \/ Touch(v, h)
    BY <2>1 DEF SetPlay, SetLoop, SetBi, Voice, c
  <2> HIDE DEF f, g, h
  <2>4. QED BY <2>2, <2>3, <1>3
<1>5. CASE (\E r \in Rates : SetRate(v, r)) \/ (\E p \in Places : SetPindex(v, p))
  <2>1. ASSUME NEW r, SetRate(v, r)
        PROVE  \A u \in VoiceIds : FadeMoves(chan[u], chan'[u])
    <3> DEFINE f == [c EXCEPT !.inc = r]
    <3>1. Quiet(c, f) BY <1>1 DEF Quiet, SameLengths, Channel
    <3>2. Touch(v, f) BY <2>1 DEF SetRate, Voice, c
    <3> HIDE DEF f
    <3>3. QED BY <3>1, <3>2, <1>3
  <2>2. ASSUME NEW p, SetPindex(v, p)
        PROVE  \A u \in VoiceIds : FadeMoves(chan[u], chan'[u])
    <3> DEFINE f == [c EXCEPT !.pindex = p]
    <3>1. Quiet(c, f) BY <1>1 DEF Quiet, SameLengths, Channel
    <3>2. Touch(v, f) BY <2>2 DEF SetPindex, Voice, c
    <3> HIDE DEF f
    <3>3. QED BY <3>1, <3>2, <1>3
  <2>3. QED BY <1>5, <2>1, <2>2
<1>6. CASE \E n \in Bounds : SetLstart(v, n) \/ SetLend(v, n)
  <2>1. PICK n \in Bounds : SetLstart(v, n) \/ SetLend(v, n) BY <1>6
  <2> DEFINE s == IF c.start >= Len THEN Len - 1 ELSE n
             e == IF n >= Len THEN Len - 1 ELSE n
             f == [c EXCEPT !.start = s]
             g == [c EXCEPT !.end = e]
  <2>2. Touch(v, f) \/ Touch(v, g) BY <2>1 DEF SetLstart, SetLend, Voice, c
  <2> HIDE DEF s, e
  <2>3. Quiet(c, f) /\ Quiet(c, g) BY <1>1 DEF Quiet, SameLengths, Channel
  <2> HIDE DEF f, g
  <2>4. QED BY <2>2, <2>3, <1>3
<1>7. CASE \E len \in Ramps : RampUp(v, len) \/ RampDown(v, len)
  <2>1. PICK len \in Ramps : RampUp(v, len) \/ RampDown(v, len) BY <1>7
  <2> DEFINE k == NonZero(len)
             i == IF len > 0 THEN len ELSE c.upinv
             j == IF len > 0 THEN len ELSE c.downinv
             x == IF c.down THEN Reversed(k, c.ctr, c.downlen) ELSE 0
             y == IF c.up THEN Reversed(k, c.ctr, c.uplen) ELSE 0
             f == [c EXCEPT !.up = TRUE, !.play = TRUE, !.uplen = k, !.upinv = i,
                            !.ctr = x, !.down = FALSE]
             g == [c EXCEPT !.down = TRUE, !.downlen = k, !.downinv = j,
                            !.ctr = y, !.up = FALSE]
  <2>2. len \in Nat OBVIOUS
  <2>3. Touch(v, f) \/ Touch(v, g) BY <2>1 DEF RampUp, RampDown, Voice, c
  <2>4. /\ k = NonZero(len) /\ i = (IF len > 0 THEN len ELSE c.upinv)
        /\ j = (IF len > 0 THEN len ELSE c.downinv)
        /\ x = (IF c.down THEN Reversed(NonZero(len), c.ctr, c.downlen) ELSE 0)
        /\ y = (IF c.up THEN Reversed(NonZero(len), c.ctr, c.uplen) ELSE 0)
    OBVIOUS
  <2> HIDE DEF k, i, j, x, y
  <2>5. /\ f.up /\ ~f.down /\ f.uplen = k /\ f.upinv = i /\ f.ctr = x
        /\ f.downlen = c.downlen /\ f.downinv = c.downinv
        /\ g.down /\ ~g.up /\ g.downlen = k /\ g.downinv = j /\ g.ctr = y
        /\ g.uplen = c.uplen /\ g.upinv = c.upinv
    BY <1>1 DEF Channel
  <2> HIDE DEF f, g
  <2>6. UpBegins(c, f, len) BY <2>4, <2>5 DEF UpBegins
  <2>7. DownBegins(c, g, len) BY <2>4, <2>5 DEF DownBegins
  <2>8. FadeMoves(c, f) /\ FadeMoves(c, g) BY <2>2, <2>6, <2>7 DEF FadeMoves
  <2>9. QED BY <1>2, <2>3, <2>8 DEF c
<1>8. QED BY <1>4, <1>5, <1>6, <1>7 DEF VoiceCall

(* What every step does to the fade of every voice.                        *)
LEMMA FadeStep ==
  ASSUME TypeOK, [Next]_vars
  PROVE  \A v \in VoiceIds : FadeMoves(chan[v], chan'[v])
<1>1. \A v \in VoiceIds : chan[v] \in Channel BY DEF TypeOK
<1>2. \A v \in VoiceIds : Quiet(chan[v], chan[v]) BY DEF Quiet, SameLengths
<1>3. ASSUME chan' = chan PROVE \A v \in VoiceIds : FadeMoves(chan[v], chan'[v])
  BY <1>2, <1>3 DEF FadeMoves
<1>4. CASE Tick
  <2>1. CASE TickInternal
    <3>1. \A v \in VoiceIds :
            chan'[v] = IF chan[v].play THEN Stepped(chan[v]) ELSE chan[v]
      BY <2>1 DEF TickInternal
    <3>2. \A v \in VoiceIds : FadeMoves(chan[v], Stepped(chan[v]))
      BY <1>1, SteppedFade
    <3>3. QED BY <1>2, <3>1, <3>2 DEF FadeMoves
  <2>2. QED BY <1>3, <1>4, <2>1 DEF Tick, TickHangs, TickPosition, TickDuration
<1>5. CASE RecordCall
  BY <1>3, <1>5 DEF RecordCall, SetRecord, SetLoopRec, SetRindex, SetLoopEndRec,
                    SetRecRamplen, SetSync
<1>6. CASE \E v \in VoiceIds : VoiceCall(v) BY <1>6, VoiceCallFade
<1>7. CASE UNCHANGED vars BY <1>3, <1>7 DEF vars
<1>8. QED BY <1>4, <1>5, <1>6, <1>7 DEF Next

(* A fade that turns round stays within its new length: the product of the *)
(* new length and the counter is divided by the old length.                *)
LEMMA ReversedRange ==
  ASSUME NEW k \in Nat, NEW old \in Nat \ {0}, NEW t \in 0 .. old * Unit
  PROVE  /\ (k * t) \div old \in 0 .. k * Unit
         /\ Reversed(k, t, old) = k * Unit - (k * t) \div old
         /\ Reversed(k, t, old) \in 0 .. k * Unit
<1> USE LiSaAssumption
<1> DEFINE q == (k * t) \div old
<1>1. old * Unit \in Nat /\ k * Unit \in Nat /\ t \in Nat /\ t <= old * Unit
  OBVIOUS
<1>2. k * t \in Nat BY <1>1
<1>3. k * t <= (k * Unit) * old
  <2>1. t * k <= (old * Unit) * k BY <1>1, MulMono
  <2>2. t * k = k * t /\ (old * Unit) * k = (k * Unit) * old BY <1>1, SMT
  <2>3. QED BY <2>1, <2>2
<1>4. q \in Int /\ 0 <= q /\ q <= k * Unit
  <2>1. 0 * old <= k * t BY <1>2
  <2>2. QED BY <1>1, <1>2, <1>3, <2>1, DivRange, DivLower, DivUpper
<1>5. Reversed(k, t, old) = k * Unit - q BY DEF Reversed
<1> HIDE DEF q
<1>6. QED BY <1>1, <1>4, <1>5 DEF q

(* What a step does to a fade keeps the counter within it.                 *)
LEMMA FadingKept ==
  ASSUME NEW c \in Channel, NEW d \in Channel, Good(c), Fading(c), FadeMoves(c, d)
  PROVE  Fading(d)
<1> USE LiSaAssumption
<1>1. /\ c.uplen \in Nat /\ c.downlen \in Nat /\ c.upinv \in Nat /\ c.downinv \in Nat
      /\ c.ctr \in Int /\ d.ctr \in Int
      /\ c.up \in BOOLEAN /\ c.down \in BOOLEAN /\ d.up \in BOOLEAN /\ d.down \in BOOLEAN
      /\ c.uplen * Unit \in Nat /\ c.downlen * Unit \in Nat
  BY DEF Channel
<1>2. CASE Quiet(c, d) BY <1>2 DEF Quiet, SameLengths, Fading
<1>3. CASE Ticked(c, d)
  <2>1. SameLengths(c, d) /\ d.ctr = c.ctr + Unit BY <1>3 DEF Ticked
  <2>2. ~(d.up /\ d.down) BY <1>3 DEF Ticked, Fading
  <2>3. ASSUME d.up PROVE d.ctr \in 0 .. d.uplen * Unit
    <3>1. c.up /\ d.ctr < c.uplen * Unit BY <1>3, <2>3 DEF Ticked
    <3>2. c.ctr >= 0 BY <1>1, <3>1 DEF Fading
    <3>3. d.uplen = c.uplen BY <2>1 DEF SameLengths
    <3>4. QED BY <1>1, <2>1, <3>1, <3>2, <3>3
  <2>4. ASSUME d.down PROVE d.ctr \in 0 .. d.downlen * Unit
    <3>1. c.down /\ d.ctr < c.downlen * Unit BY <1>3, <2>4 DEF Ticked, Fading
    <3>2. c.ctr >= 0 BY <1>1, <3>1 DEF Fading
    <3>3. d.downlen = c.downlen BY <2>1 DEF SameLengths
    <3>4. QED BY <1>1, <2>1, <3>1, <3>2, <3>3
  <2>5. QED BY <2>1, <2>2, <2>3, <2>4 DEF SameLengths, Fading
<1>4. CASE \E len \in Nat : UpBegins(c, d, len)
  <2>1. PICK len \in Nat : UpBegins(c, d, len) BY <1>4
  <2> DEFINE k == NonZero(len)
  <2>2. k \in Nat \ {0} /\ (len > 0 => k = len) /\ (~(len > 0) => k = 1)
    BY DEF NonZero
  <2> HIDE DEF k
  <2>3. d.uplen = k /\ d.upinv = (IF len > 0 THEN len ELSE c.upinv)
    BY <2>1 DEF UpBegins, k
  <2>4. d.uplen <= d.upinv /\ d.upinv > 0 BY <1>1, <2>2, <2>3 DEF Fading
  <2>5. d.ctr \in 0 .. k * Unit
    <3>1. CASE c.down
      <4>1. c.downlen \in Nat \ {0} BY <1>1, <3>1 DEF Good
      <4>2. c.ctr \in 0 .. c.downlen * Unit BY <3>1 DEF Fading
      <4>3. d.ctr = Reversed(k, c.ctr, c.downlen) BY <2>1, <3>1 DEF UpBegins, k
      <4>4. k \in Nat BY <2>2
      <4>5. Reversed(k, c.ctr, c.downlen) \in 0 .. k * Unit
        BY <4>1, <4>2, <4>4, ReversedRange
      <4>6. QED BY <4>3, <4>5
    <3>2. CASE ~c.down
      <4>1. d.ctr = 0 BY <2>1, <3>2 DEF UpBegins
      <4>2. k * Unit \in Nat BY <2>2
      <4>3. QED BY <4>1, <4>2
    <3>3. QED BY <3>1, <3>2
  <2>6. QED BY <2>1, <2>3, <2>4, <2>5 DEF UpBegins, Fading
<1>5. CASE \E len \in Nat : DownBegins(c, d, len)
  <2>1. PICK len \in Nat : DownBegins(c, d, len) BY <1>5
  <2> DEFINE k == NonZero(len)
  <2>2. k \in Nat \ {0} /\ (len > 0 => k = len) /\ (~(len > 0) => k = 1)
    BY DEF NonZero
  <2> HIDE DEF k
  <2>3. d.downlen = k /\ d.downinv = (IF len > 0 THEN len ELSE c.downinv)
    BY <2>1 DEF DownBegins, k
  <2>4. d.downlen <= d.downinv /\ d.downinv > 0 BY <1>1, <2>2, <2>3 DEF Fading
  <2>5. d.ctr \in 0 .. k * Unit
    <3>1. CASE c.up
      <4>1. c.uplen \in Nat \ {0} BY <1>1, <3>1 DEF Good
      <4>2. c.ctr \in 0 .. c.uplen * Unit BY <3>1 DEF Fading
      <4>3. d.ctr = Reversed(k, c.ctr, c.uplen) BY <2>1, <3>1 DEF DownBegins, k
      <4>4. k \in Nat BY <2>2
      <4>5. Reversed(k, c.ctr, c.uplen) \in 0 .. k * Unit
        BY <4>1, <4>2, <4>4, ReversedRange
      <4>6. QED BY <4>3, <4>5
    <3>2. CASE ~c.up
      <4>1. d.ctr = 0 BY <2>1, <3>2 DEF DownBegins
      <4>2. k * Unit \in Nat BY <2>2
      <4>3. QED BY <4>1, <4>2
    <3>3. QED BY <3>1, <3>2
  <2>6. QED BY <2>1, <2>3, <2>4, <2>5 DEF DownBegins, Fading
<1>6. QED BY <1>2, <1>3, <1>4, <1>5 DEF FadeMoves

(* The invariant of the fades.                                             *)
LEMMA FadingsInv == Spec => [](IInv /\ Fadings)
<1> USE LiSaAssumption
<1>1. Init => Fadings
  <2>1. SUFFICES ASSUME Init, NEW v \in VoiceIds PROVE Fading(chan[v]) BY DEF Fadings
  <2>2. chan[v] = NewChannel BY <2>1 DEF Init
  <2>3. QED BY <2>2 DEF NewChannel, Fading
<1>2. IInv /\ Fadings /\ [Next]_vars => Fadings'
  <2>1. SUFFICES ASSUME IInv, Fadings, [Next]_vars, NEW v \in VoiceIds
                 PROVE  Fading(chan'[v])
    BY DEF Fadings, Fading
  <2>2. chan[v] \in Channel /\ Good(chan[v]) /\ TypeOK BY <2>1 DEF IInv, TypeOK
  <2>3. chan'[v] \in Channel
    <3>1. TypeOK' BY <2>1, Inductive DEF IInv
    <3>2. QED BY <3>1 DEF TypeOK
  <2>4. FadeMoves(chan[v], chan'[v]) BY <2>1, <2>2, FadeStep
  <2>5. QED BY <2>1, <2>2, <2>3, <2>4, FadingKept DEF Fadings
<1>3. QED BY <1>1, <1>2, InitIInv, Inductive, PTL DEF Spec

(* What a fade scales a sample by is never less than nothing nor more than *)
(* the whole, whatever fades are begun, turned round and cut short.        *)
THEOREM FadesInRange == Spec => []GainInRange
<1> USE LiSaAssumption
<1>1. IInv /\ Fadings => GainInRange
  <2>1. SUFFICES ASSUME IInv, Fadings, NEW v \in VoiceIds
                 PROVE  0 <= Gain(chan[v])[1] /\ Gain(chan[v])[1] <= Gain(chan[v])[2]
    BY DEF GainInRange
  <2> DEFINE c == chan[v]
  <2>2. c \in Channel /\ Fading(c) BY <2>1 DEF IInv, TypeOK, Fadings
  <2> HIDE DEF c
  <2>3. /\ c.uplen \in Nat /\ c.downlen \in Nat /\ c.upinv \in Nat /\ c.downinv \in Nat
        /\ c.uplen * Unit \in Nat /\ c.downlen * Unit \in Nat
        /\ c.upinv * Unit \in Nat /\ c.downinv * Unit \in Nat
    BY <2>2 DEF Channel
  <2>4. c.uplen * Unit <= c.upinv * Unit /\ c.downlen * Unit <= c.downinv * Unit
    BY <2>2, <2>3, MulMono DEF Fading
  <2>5. CASE c.up
    <3>1. Gain(c) = <<c.ctr, c.upinv * Unit>> BY <2>5 DEF Gain
    <3>2. c.ctr \in 0 .. c.uplen * Unit BY <2>2, <2>5 DEF Fading
    <3>3. QED BY <2>3, <2>4, <3>1, <3>2 DEF c
  <2>6. CASE ~c.up /\ c.down
    <3>1. Gain(c) = <<c.downlen * Unit - c.ctr, c.downinv * Unit>> BY <2>6 DEF Gain
    <3>2. c.ctr \in 0 .. c.downlen * Unit BY <2>2, <2>6 DEF Fading
    <3>3. QED BY <2>3, <2>4, <3>1, <3>2 DEF c
  <2>7. CASE ~c.up /\ ~c.down
    <3>1. Gain(c) = <<1, 1>> BY <2>7 DEF Gain
    <3>2. QED BY <3>1 DEF c
  <2>8. QED BY <2>5, <2>6, <2>7
<1>2. QED BY <1>1, FadingsInv, PTL

(* A fade that turns round goes on from the gain it had, to within one     *)
(* unit of the counter of the new fade: the quotient Reversed takes rounds *)
(* (lisa.c:213-239).  It is exact where the division is, which is what     *)
(* FadeTurnsSmoothly says.                                                 *)
FadeTurnsWithinUnit ==
  [][\A v \in VoiceIds :
       LET c == chan[v]
           d == chan'[v]
       IN  /\ (c.up /\ d.down) \/ (c.down /\ d.up)
           /\ c.uplen = c.upinv /\ d.uplen = d.upinv
           /\ c.downlen = c.downinv /\ d.downlen = d.downinv
           => Abs(Gain(c)[1] * Gain(d)[2] - Gain(d)[1] * Gain(c)[2]) < Gain(c)[2]]_vars

(* Multiplication distributes over subtraction.                            *)
LEMMA Distributes ==
  ASSUME NEW m \in Int, NEW n \in Int, NEW g \in Int
  PROVE  (m - n) * g = m * g - n * g
  BY SMT

(* The gains before and after, over a common denominator.                  *)
LEMMA TurnArithmetic ==
  ASSUME NEW a \in Nat \ {0}, NEW b \in Nat, NEW t \in Nat, NEW g \in Nat \ {0},
         NEW q \in Int, q = (b * t) \div a
  PROVE  /\ Abs(t * (b * g) - q * (a * g)) < a * g
         /\ Abs((a * g - t) * (b * g) - (b * g - q) * (a * g)) < a * g
<1> DEFINE r == b * t - q * a
           x == t * (b * g) - q * (a * g)
           y == (a * g - t) * (b * g) - (b * g - q) * (a * g)
<1>1. b * t \in Int /\ q * a \in Int /\ a * g \in Int /\ b * g \in Int OBVIOUS
<1>2. q * a <= b * t /\ b * t < (q + 1) * a BY <1>1, DivRange
<1>3. (q + 1) * a = q * a + a BY SMT
<1>4. r \in Int /\ 0 <= r /\ r <= a - 1 BY <1>1, <1>2, <1>3
<1>5. x = r * g
  <2>1. t * (b * g) = (b * t) * g BY SMT
  <2>2. q * (a * g) = (q * a) * g BY SMT
  <2>3. r * g = (b * t) * g - (q * a) * g BY <1>1, Distributes, SMTT(30)
  <2>4. QED BY <2>1, <2>2, <2>3
<1>6. y = -(r * g)
  <2>1. (a * g - t) * (b * g) = (a * g) * (b * g) - t * (b * g) BY <1>1, Distributes
  <2>2. (b * g - q) * (a * g) = (b * g) * (a * g) - q * (a * g) BY <1>1, Distributes
  <2>3. (a * g) * (b * g) = (b * g) * (a * g) BY <1>1, SMT
  <2> DEFINE m == (a * g) * (b * g)
  <2>4. m \in Int /\ t * (b * g) \in Int /\ q * (a * g) \in Int BY <1>1
  <2>5. y = (m - t * (b * g)) - (m - q * (a * g)) BY <2>1, <2>2, <2>3
  <2> HIDE DEF m, y
  <2>6. y = -x BY <2>4, <2>5
  <2>7. QED BY <1>5, <2>6
<1> HIDE DEF r, x, y
<1>7. 0 * g <= r * g /\ r * g <= (a - 1) * g BY <1>4, MulMono
<1>8. (a - 1) * g = a * g - g /\ 0 * g = 0 BY SMT
<1>9. r * g \in Int BY <1>4
<1>10. 0 <= r * g /\ r * g < a * g BY <1>1, <1>7, <1>8, <1>9
<1>11. Abs(x) < a * g /\ Abs(y) < a * g BY <1>1, <1>5, <1>6, <1>9, <1>10 DEF Abs
<1>12. QED BY <1>11 DEF x, y

(* Every way a fade can turn round.                                        *)
LEMMA TurnWithinUnit ==
  ASSUME NEW c \in Channel, NEW d \in Channel, Good(c), Fading(c), FadeMoves(c, d),
         (c.up /\ d.down) \/ (c.down /\ d.up),
         c.uplen = c.upinv, d.uplen = d.upinv,
         c.downlen = c.downinv, d.downlen = d.downinv
  PROVE  Abs(Gain(c)[1] * Gain(d)[2] - Gain(d)[1] * Gain(c)[2]) < Gain(c)[2]
<1> USE LiSaAssumption
<1>1. ~(c.up /\ c.down) BY DEF Fading
<1>2. \E len \in Nat : UpBegins(c, d, len) \/ DownBegins(c, d, len)
  BY <1>1 DEF FadeMoves, Quiet, Ticked
<1>3. PICK len \in Nat : UpBegins(c, d, len) \/ DownBegins(c, d, len) BY <1>2
<1> DEFINE k == NonZero(len)
<1>4. k \in Nat BY DEF NonZero
<1> HIDE DEF k
<1>5. CASE c.up /\ d.down
  <2> DEFINE a == c.uplen
             t == c.ctr
             q == (k * t) \div a
  <2>1. DownBegins(c, d, len) BY <1>3, <1>5 DEF UpBegins
  <2>2. d.ctr = Reversed(k, t, a) /\ d.downlen = k /\ ~d.up
    BY <1>5, <2>1 DEF DownBegins, k
  <2>3. a \in Nat \ {0} /\ t \in 0 .. a * Unit
    BY <1>5 DEF Good, Fading, Channel
  <2>4. q \in 0 .. k * Unit /\ d.ctr = k * Unit - q
    BY <1>4, <2>2, <2>3, ReversedRange
  <2>5. a * Unit \in Int /\ k * Unit \in Int BY <1>4, <2>3
  <2>6. t \in Nat /\ q \in Int BY <2>3, <2>4, <2>5
  <2>7. Gain(c) = <<t, a * Unit>> BY <1>5 DEF Gain
  <2>8. Gain(d) = <<q, k * Unit>>
    <3>1. Gain(d) = <<d.downlen * Unit - d.ctr, d.downinv * Unit>>
      BY <1>5, <2>2 DEF Gain
    <3>2. k * Unit - d.ctr = q BY <2>4, <2>5, <2>6
    <3>3. QED BY <2>2, <3>1, <3>2
  <2>9. q = (k * t) \div a OBVIOUS
  <2> HIDE DEF a, t, q
  <2>10. Abs(t * (k * Unit) - q * (a * Unit)) < a * Unit
    BY <1>4, <2>3, <2>6, <2>9, TurnArithmetic
  <2>11. QED BY <2>7, <2>8, <2>10
<1>6. CASE ~(c.up /\ d.down)
  <2> DEFINE a == c.downlen
             t == c.ctr
             q == (k * t) \div a
  <2>1. c.down /\ d.up /\ ~c.up BY <1>1, <1>6
  <2>2. UpBegins(c, d, len) BY <1>3, <2>1 DEF DownBegins
  <2>3. d.ctr = Reversed(k, t, a) /\ d.uplen = k BY <2>1, <2>2 DEF UpBegins, k
  <2>4. a \in Nat \ {0} /\ t \in 0 .. a * Unit
    BY <2>1 DEF Good, Fading, Channel
  <2>5. q \in 0 .. k * Unit /\ d.ctr = k * Unit - q
    BY <1>4, <2>3, <2>4, ReversedRange
  <2>6. a * Unit \in Int /\ k * Unit \in Int BY <1>4, <2>4
  <2>7. t \in Nat /\ q \in Int BY <2>4, <2>5, <2>6
  <2>8. Gain(c) = <<a * Unit - t, a * Unit>> BY <2>1 DEF Gain
  <2>9. Gain(d) = <<k * Unit - q, k * Unit>> BY <2>1, <2>3, <2>5 DEF Gain
  <2>10. q = (k * t) \div a OBVIOUS
  <2> HIDE DEF a, t, q
  <2>11. Abs((a * Unit - t) * (k * Unit) - (k * Unit - q) * (a * Unit)) < a * Unit
    BY <1>4, <2>4, <2>7, <2>10, TurnArithmetic
  <2>12. QED BY <2>8, <2>9, <2>11
<1>7. QED BY <1>5, <1>6

(* No fade jumps when the program turns it round, for any lengths and      *)
(* whatever the counter is.                                                *)
THEOREM FadesDoNotJump == Spec => FadeTurnsWithinUnit
<1>1. ASSUME IInv, Fadings, [Next]_vars, NEW v \in VoiceIds
      PROVE  LET c == chan[v]
                 d == chan'[v]
             IN  /\ (c.up /\ d.down) \/ (c.down /\ d.up)
                 /\ c.uplen = c.upinv /\ d.uplen = d.upinv
                 /\ c.downlen = c.downinv /\ d.downlen = d.downinv
                 => Abs(Gain(c)[1] * Gain(d)[2] - Gain(d)[1] * Gain(c)[2]) < Gain(c)[2]
  <2> DEFINE c == chan[v]
             d == chan'[v]
  <2>1. c \in Channel /\ Good(c) /\ Fading(c) /\ TypeOK
    BY <1>1 DEF IInv, TypeOK, Fadings
  <2>2. TypeOK' BY <1>1, Inductive DEF IInv
  <2>3. d \in Channel BY <2>2 DEF TypeOK
  <2>4. FadeMoves(c, d) BY <1>1, <2>1, FadeStep
  <2> HIDE DEF c, d
  <2>5. /\ (c.up /\ d.down) \/ (c.down /\ d.up)
        /\ c.uplen = c.upinv /\ d.uplen = d.upinv
        /\ c.downlen = c.downinv /\ d.downlen = d.downinv
        => Abs(Gain(c)[1] * Gain(d)[2] - Gain(d)[1] * Gain(c)[2]) < Gain(c)[2]
    BY <2>1, <2>3, <2>4, TurnWithinUnit
  <2>6. QED BY <2>5 DEF c, d
<1>2. IInv /\ Fadings /\ [Next]_vars
        => [\A v \in VoiceIds :
              LET c == chan[v]
                  d == chan'[v]
              IN  /\ (c.up /\ d.down) \/ (c.down /\ d.up)
                  /\ c.uplen = c.upinv /\ d.uplen = d.upinv
                  /\ c.downlen = c.downinv /\ d.downlen = d.downinv
                  => Abs(Gain(c)[1] * Gain(d)[2] - Gain(d)[1] * Gain(c)[2])
                       < Gain(c)[2]]_vars
  BY <1>1
<1>3. QED BY <1>2, FadingsInv, PTL DEF Spec, FadeTurnsWithinUnit

=============================================================================

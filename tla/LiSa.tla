-------------------------------- MODULE LiSa --------------------------------
(***************************************************************************)
(* The live sampler (LiSa/lisa.c): a buffer of Len samples, and one more   *)
(* "for safety", that one record head writes and several voices read, each *)
(* along its own loop, at its own rate, with fades; and the calls a        *)
(* program makes between two ticks.                                        *)
(*                                                                         *)
(* Sample values are left out: what matters is which samples are touched   *)
(* and how they are scaled.  Play positions and rates are in units of      *)
(* 1/Grain sample, fade counters in units of 1/Unit tick.                  *)
(***************************************************************************)
EXTENDS Integers, FiniteSets

CONSTANTS Len,        \* mdata_len
          Voices,     \* maxvoices
          Grain,      \* resolution of positions
          Unit,       \* resolution of fade counters
          Word,       \* the modulus of the machine's unsigned integers
          Places,     \* arguments of playPos, in grains
          Rates,      \* arguments of rate, in grains per tick
          Bounds,     \* arguments of loopStart, loopEnd and loopEndRec
          Inputs,     \* what arrives at the input, in grains
          Ramps,      \* arguments of rampUp, rampDown and recRamp
          Modes,      \* the sync modes a program uses
          MaxCalls    \* bound: number of calls

ASSUME LiSaAssumption ==
  /\ Len \in Nat \ {0} /\ Voices \in Nat \ {0}
  /\ Grain \in Nat \ {0} /\ Unit \in Nat \ {0}
  /\ Word \in Nat /\ Word > Len
  /\ Places \subseteq Int /\ Rates \subseteq Int /\ Inputs \subseteq Int
  /\ Bounds \subseteq Nat /\ Ramps \subseteq Nat
  /\ Modes \subseteq {"INTERNAL", "POSITION", "DURATION"}
  /\ MaxCalls \in Nat

VARIABLES
  chan,     \* the voices
  rindex, loop_end_rec, record, looprec,       \* the record head
  rec_ramplen, rec_inv,                        \* its fade; 1 / rec_ramplen_inv
  sync,
  far,      \* history: a loop start or record end was given past the buffer
  hung,     \* a tick never returned
  read,     \* the samples each voice read in the last tick
  at,       \* where each voice was when it read, in grains
  wrote,    \* the sample written in the last tick, or -1
  wgain,    \* the fade it was scaled by: <<numerator, denominator>>
  calls

rvars == <<rindex, record, wrote, wgain>>
avars == <<loop_end_rec, looprec, rec_ramplen, rec_inv, sync, far>>
hvars == <<hung, read, at>>
vars == <<chan, rvars, avars, hvars, calls>>

VoiceIds == 0 .. Voices - 1

(* channel_ini *)
NewChannel ==
  [start |-> 0, end |-> Len, pindex |-> 0, inc |-> Grain, play |-> FALSE,
   loop |-> TRUE, bi |-> FALSE, up |-> FALSE, down |-> FALSE,
   uplen |-> 0, downlen |-> 0, upinv |-> 1, downinv |-> 1, ctr |-> 0]

Init ==
  /\ chan = [v \in VoiceIds |-> NewChannel]
  /\ rindex = 0
  /\ loop_end_rec = Len
  /\ record = FALSE
  /\ looprec = TRUE
  /\ rec_ramplen = 0
  /\ rec_inv = 0
  /\ sync = "INTERNAL"
  /\ far = FALSE
  /\ hung = FALSE
  /\ read = [v \in VoiceIds |-> {}]
  /\ at = [v \in VoiceIds |-> 0]
  /\ wrote = -1
  /\ wgain = <<1, 1>>
  /\ calls = 0

-----------------------------------------------------------------------------
(* One tick of a voice                                                     *)

(* Mutant: it turns round where it is. *)
TurnedInPlace(c) ==
  IF c.bi /\ (c.pindex >= c.end * Grain \/ c.pindex < c.start * Grain)
  THEN [c EXCEPT !.inc = -@]
  ELSE c

(* A bidirectional voice that ran out of its loop takes its last step back *)
(* and turns round.                                                        *)
Turned(c) ==
  IF c.bi /\ (c.pindex >= c.end * Grain \/ c.pindex < c.start * Grain)
  THEN [c EXCEPT !.pindex = @ - c.inc, !.inc = -@]
  ELSE c

(* Mutant: one step of the first loop only. *)
WrappedOnce(c) ==
  [c EXCEPT !.pindex =
     IF c.start = c.end THEN c.start * Grain
     ELSE IF @ >= c.end * Grain THEN @ - (c.end - c.start) * Grain ELSE @]

(* The two while loops: the loop's length is taken off, or added, until    *)
(* the position is inside.                                                 *)
Wrapped(c) ==
  [c EXCEPT !.pindex =
     IF c.start = c.end THEN c.start * Grain
     ELSE c.start * Grain + ((@ - c.start * Grain) % ((c.end - c.start) * Grain))]

Placed(c) == IF c.loop THEN Wrapped(Turned(c)) ELSE c

(* They end unless the loop's ends are the wrong way round. *)
Hangs(c) == c.play /\ c.loop /\ c.end < c.start

(* A voice that does not loop stops at either end of the buffer. *)
Over(c) == ~c.loop /\ (c.pindex >= Len * Grain \/ c.pindex < 0)

(* The two samples that are interpolated at the position. *)
Reads(c) ==
  LET trunc == c.pindex \div Grain
      last  == IF c.loop THEN c.end ELSE Len
      first == IF c.loop THEN c.start ELSE 0
  IN  {IF trunc >= last THEN first ELSE trunc,
       IF trunc + 1 >= last THEN first ELSE trunc + 1}

(* Mutant: the voice goes on after its fade out. *)
FadedPlaysOn(c) ==
  LET n == c.ctr + Unit
  IN  IF c.up THEN [c EXCEPT !.ctr = n, !.up = n < c.uplen * Unit]
      ELSE IF c.down THEN [c EXCEPT !.ctr = n, !.down = n < c.downlen * Unit]
      ELSE c

(* The fade goes on by a tick; at the end of a fade out the voice stops. *)
Faded(c) ==
  LET n == c.ctr + Unit
  IN  IF c.up THEN [c EXCEPT !.ctr = n, !.up = n < c.uplen * Unit]
      ELSE IF c.down
        THEN [c EXCEPT !.ctr = n, !.down = n < c.downlen * Unit,
                       !.play = n < c.downlen * Unit]
      ELSE c

(* getNextSamp *)
Stepped(c) ==
  IF Over(c) THEN [c EXCEPT !.play = FALSE]
  ELSE LET d == Placed(c) IN Faded([d EXCEPT !.pindex = @ + d.inc])

(* What the fade scales the next sample by. *)
Gain(c) ==
  IF c.up THEN <<c.ctr, c.upinv * Unit>>
  ELSE IF c.down THEN <<c.downlen * Unit - c.ctr, c.downinv * Unit>>
  ELSE <<1, 1>>

(* getSamp: the position is constrained to the loop, its end included; a   *)
(* loop's length is unsigned, so that of ends in the wrong order is huge.  *)
Constrained(c, where) ==
  IF where > c.end * Grain THEN c.end * Grain
  ELSE IF where < c.start * Grain THEN c.start * Grain ELSE where

SyncReads(c, where) ==
  LET trunc == Constrained(c, where) \div Grain
  IN  {trunc, IF trunc + 1 = c.end THEN c.start ELSE trunc + 1}

Abs(n) == IF n < 0 THEN -n ELSE n

Location(c, in) ==
  c.start * Grain + Abs(in) * ((c.end - c.start) % Word)

-----------------------------------------------------------------------------
(* One tick of the record head (recordSamp)                                *)

(* Where it writes: a looping one goes back to the loop of voice 0. *)
Head ==
  IF looprec /\ rindex >= loop_end_rec THEN chan[0].start ELSE rindex

RecGain(i) ==
  IF i < rec_ramplen THEN <<i, rec_inv>>
  ELSE IF i > loop_end_rec - rec_ramplen
    THEN <<(loop_end_rec - i) % Word, rec_inv>>
  ELSE <<1, 1>>

(* Mutant: only the very end of the record loop wraps. *)
RecordWrapsAtEnd ==
  /\ record
  /\ looprec \/ rindex < loop_end_rec
  /\ LET i == IF looprec /\ rindex = loop_end_rec THEN chan[0].start ELSE rindex
     IN  /\ wrote' = i
         /\ wgain' = RecGain(i)
         /\ rindex' = i + 1
  /\ UNCHANGED record

(* Mutant: the fade in is used on the way out. *)
RecordFadesUp ==
  /\ record
  /\ looprec \/ rindex < loop_end_rec
  /\ wrote' = Head
  /\ wgain' = IF rec_ramplen > 0 THEN <<Head, rec_inv>> ELSE <<1, 1>>
  /\ rindex' = Head + 1
  /\ UNCHANGED record

Record ==
  /\ record
  /\ looprec \/ rindex < loop_end_rec
  /\ wrote' = Head
  /\ wgain' = RecGain(Head)
  /\ rindex' = Head + 1
  /\ UNCHANGED record

(* A record head that does not loop stops at its end. *)
RecordEnds ==
  /\ record
  /\ ~looprec /\ rindex >= loop_end_rec
  /\ record' = FALSE
  /\ wrote' = -1
  /\ UNCHANGED <<rindex, wgain>>

RecordIdle == ~record /\ wrote' = -1 /\ UNCHANGED <<rindex, record, wgain>>

RecordSamp == Record \/ RecordEnds \/ RecordIdle

-----------------------------------------------------------------------------
(* tick_multi                                                              *)

(* sync == INTERNAL: every voice that plays takes a step. *)
TickInternal ==
  /\ ~hung
  /\ sync = "INTERNAL"
  /\ ~\E v \in VoiceIds : Hangs(chan[v])
  /\ RecordSamp
  /\ chan' = [v \in VoiceIds |-> IF chan[v].play THEN Stepped(chan[v]) ELSE chan[v]]
  /\ read' = [v \in VoiceIds |-> IF chan[v].play /\ ~Over(chan[v])
                                 THEN Reads(Placed(chan[v])) ELSE {}]
  /\ at' = [v \in VoiceIds |-> IF chan[v].play THEN Placed(chan[v]).pindex ELSE at[v]]
  /\ UNCHANGED <<avars, hung, calls>>

TickHangs ==
  /\ ~hung
  /\ sync = "INTERNAL"
  /\ \E v \in VoiceIds : Hangs(chan[v])
  /\ hung' = TRUE
  /\ RecordSamp
  /\ UNCHANGED <<chan, avars, read, at, calls>>

(* sync == POSITION: the input places every voice within its loop. *)
TickPosition(in) ==
  /\ ~hung
  /\ sync = "POSITION"
  /\ RecordSamp
  /\ read' = [v \in VoiceIds |->
                IF chan[v].play THEN SyncReads(chan[v], Location(chan[v], in)) ELSE {}]
  /\ UNCHANGED <<chan, avars, hung, at, calls>>

(* sync == DURATION: the input places voice 0. *)
TickDuration(in) ==
  /\ ~hung
  /\ sync = "DURATION"
  /\ RecordSamp
  /\ read' = [v \in VoiceIds |->
                IF v = 0 /\ chan[v].play THEN SyncReads(chan[v], Abs(in)) ELSE {}]
  /\ UNCHANGED <<chan, avars, hung, at, calls>>

-----------------------------------------------------------------------------
(* The calls                                                               *)

Call ==
  /\ ~hung
  /\ calls < MaxCalls
  /\ calls' = calls + 1

Touch(v, c) ==
  /\ chan' = [chan EXCEPT ![v] = c]
  /\ UNCHANGED <<rvars, loop_end_rec, looprec, rec_ramplen, rec_inv, sync, hvars>>
  /\ Call

Voice(v, c) == Touch(v, c) /\ UNCHANGED far

Gives(n) == far' = (far \/ n > Len)

SetPlay(v, b) ==
  Voice(v, [chan[v] EXCEPT !.play = b, !.up = FALSE, !.down = FALSE])

SetRate(v, r) == Voice(v, [chan[v] EXCEPT !.inc = r])

SetPindex(v, p) == Voice(v, [chan[v] EXCEPT !.pindex = p])

SetLoop(v, b) == Voice(v, [chan[v] EXCEPT !.loop = b])

SetBi(v, b) == Voice(v, [chan[v] EXCEPT !.bi = b])

(* It is the old start that is compared to the length. *)
SetLstart(v, n) ==
  /\ Touch(v, [chan[v] EXCEPT !.start = IF @ >= Len THEN Len - 1 ELSE n])
  /\ Gives(n)

SetLend(v, n) == Voice(v, [chan[v] EXCEPT !.end = IF n >= Len THEN Len - 1 ELSE n])

(* A fade that turns the other way starts from the gain it turns at; a     *)
(* length of zero counts as one tick, and leaves the inverse as it was.    *)
Reversed(len, ctr, oldlen) == len * Unit - (len * ctr) \div oldlen

NonZero(len) == IF len > 0 THEN len ELSE 1

(* Mutant: a fade in always starts from silence. *)
RampUpFromZero(v, len) ==
  LET c == chan[v]
  IN  Voice(v, [c EXCEPT !.up = TRUE, !.play = TRUE, !.uplen = NonZero(len),
                         !.upinv = IF len > 0 THEN len ELSE @,
                         !.ctr = 0,
                         !.down = FALSE])

RampUp(v, len) ==
  LET c == chan[v]
  IN  Voice(v, [c EXCEPT !.up = TRUE, !.play = TRUE, !.uplen = NonZero(len),
                         !.upinv = IF len > 0 THEN len ELSE @,
                         !.ctr = IF c.down THEN Reversed(NonZero(len), @, c.downlen)
                                 ELSE 0,
                         !.down = FALSE])

RampDown(v, len) ==
  LET c == chan[v]
  IN  Voice(v, [c EXCEPT !.down = TRUE, !.downlen = NonZero(len),
                         !.downinv = IF len > 0 THEN len ELSE @,
                         !.ctr = IF c.up THEN Reversed(NonZero(len), @, c.uplen)
                                 ELSE 0,
                         !.up = FALSE])

SetRecord(b) ==
  /\ record' = b
  /\ UNCHANGED <<chan, rindex, wrote, wgain, avars, hvars>>
  /\ Call

(* The bits of the position are taken for a voice number: only those of    *)
(* zero are one, and any other position raises InvalidLiSaInit.            *)
SetRindex(n) ==
  /\ rindex' = IF n = 0 THEN 0 ELSE rindex
  /\ UNCHANGED <<chan, record, wrote, wgain, avars, hvars>>
  /\ Call

SetLoopEndRec(n) ==
  /\ loop_end_rec' = n
  /\ Gives(n)
  /\ UNCHANGED <<chan, rvars, looprec, rec_ramplen, rec_inv, sync, hvars>>
  /\ Call

SetLoopRec(b) ==
  /\ looprec' = b
  /\ UNCHANGED <<chan, rvars, loop_end_rec, rec_ramplen, rec_inv, sync, far, hvars>>
  /\ Call

SetRecRamplen(len) ==
  /\ rec_ramplen' = len
  /\ rec_inv' = NonZero(len)
  /\ UNCHANGED <<chan, rvars, loop_end_rec, looprec, sync, far, hvars>>
  /\ Call

SetSync(m) ==
  /\ sync' = m
  /\ UNCHANGED <<chan, rvars, loop_end_rec, looprec, rec_ramplen, rec_inv, far, hvars>>
  /\ Call

-----------------------------------------------------------------------------
Tick ==
  TickInternal \/ TickHangs \/ \E in \in Inputs : TickPosition(in) \/ TickDuration(in)

VoiceCall(v) ==
  \/ \E b \in BOOLEAN : SetPlay(v, b) \/ SetLoop(v, b) \/ SetBi(v, b)
  \/ \E r \in Rates : SetRate(v, r)
  \/ \E p \in Places : SetPindex(v, p)
  \/ \E n \in Bounds : SetLstart(v, n) \/ SetLend(v, n)
  \/ \E len \in Ramps : RampUp(v, len) \/ RampDown(v, len)

RecordCall ==
  \/ \E b \in BOOLEAN : SetRecord(b) \/ SetLoopRec(b)
  \/ \E n \in Bounds : SetRindex(n) \/ SetLoopEndRec(n)
  \/ \E len \in Ramps : SetRecRamplen(len)
  \/ \E m \in Modes : SetSync(m)

Next == Tick \/ RecordCall \/ \E v \in VoiceIds : VoiceCall(v)

(* The driver keeps asking for samples. *)
Spec == Init /\ [][Next]_vars /\ WF_vars(Tick)

-----------------------------------------------------------------------------
(* Properties                                                              *)

Channel ==
  [start : Nat, end : Nat, pindex : Int, inc : Int, play : BOOLEAN,
   loop : BOOLEAN, bi : BOOLEAN, up : BOOLEAN, down : BOOLEAN,
   uplen : Nat, downlen : Nat, upinv : Nat, downinv : Nat, ctr : Int]

TypeOK ==
  /\ chan \in [VoiceIds -> Channel]
  /\ rindex \in Nat
  /\ loop_end_rec \in Nat
  /\ record \in BOOLEAN
  /\ looprec \in BOOLEAN
  /\ rec_ramplen \in Nat
  /\ rec_inv \in Nat
  /\ sync \in {"INTERNAL", "POSITION", "DURATION"}
  /\ far \in BOOLEAN
  /\ hung \in BOOLEAN
  /\ read \in [VoiceIds -> SUBSET Nat]
  /\ at \in [VoiceIds -> Int]
  /\ wrote \in Nat \cup {-1}
  /\ wgain \in Int \X Nat
  /\ calls \in 0 .. MaxCalls

Least(a, b) == IF a < b THEN a ELSE b
Greatest(a, b) == IF a < b THEN b ELSE a

(* A looping voice reads nothing outside its loop, and any other nothing   *)
(* outside the buffer, wherever it was put, whatever its rate and          *)
(* direction and however its loop was moved under it; in the sync modes    *)
(* the input takes it between the ends of its loop, in whatever order they *)
(* are, and the interpolation one sample further, which may be after the   *)
(* buffer (TicksInBuffer).                                                 *)
Inside(c, i) ==
  IF sync # "INTERNAL"
    THEN i \in Least(c.start, c.end) .. Greatest(c.start, c.end) + 1
  ELSE IF c.loop /\ c.start < c.end THEN i \in c.start .. c.end - 1
  ELSE i \in 0 .. Len

VoicesReadInside ==
  [][Tick /\ ~hung' => \A v \in VoiceIds : \A i \in read'[v] : Inside(chan[v], i)]_vars

(* The buffer has Len + 1 samples. *)
InBuffer(i) == i \in 0 .. Len

(* As long as no call gave a loop start or a record end past the buffer    *)
(* (loopEnd cuts what it is given), neither the record head nor a voice    *)
(* touches memory outside the buffer, though ends, positions and rates     *)
(* change under them and the head goes back to where the loop of voice 0   *)
(* starts; the one exception is the second sample that is interpolated in  *)
(* the sync modes, for a voice whose loop has an end at that of the buffer *)
(* (lisa.c:170).                                                           *)
AtEnd(c) == sync # "INTERNAL" /\ (c.start >= Len \/ c.end >= Len)

TicksInBuffer ==
  [][Tick /\ ~far =>
       /\ wrote' = -1 \/ InBuffer(wrote')
       /\ ~hung' => \A v \in VoiceIds : \A i \in read'[v] :
                      InBuffer(i) \/ (AtEnd(chan[v]) /\ i = Len + 1)]_vars

(* Recording is never amplified, also when its loop is moved while the     *)
(* head is in it, as long as the loop is not empty: it begins where the    *)
(* loop of voice 0 does.                                                   *)
RecordLoop == chan[0].start < loop_end_rec

RecordNotAmplified ==
  [][Tick /\ RecordLoop /\ wrote' # -1 => wgain'[1] <= wgain'[2]]_vars

(* Bidirectional looping is continuous: from one tick to the next a voice  *)
(* that nobody touched moves by no more than its rate.                     *)
BiContinuous ==
  [][TickInternal => \A v \in VoiceIds :
       LET c == chan[v] IN
         /\ c.play /\ c.loop /\ c.bi
         /\ c.pindex = at[v] + c.inc
         /\ at[v] \in c.start * Grain .. c.end * Grain - 1
         => Abs(at'[v] - at[v]) <= Abs(c.inc)]_vars

GainInRange ==
  \A v \in VoiceIds : LET g == Gain(chan[v]) IN 0 <= g[1] /\ g[1] <= g[2]

(* A fade never leaves [0, 1], and a fade of some length that turns round  *)
(* goes on from the gain it had (lisa.c:213-239).                          *)
FadeTurnsSmoothly ==
  /\ []GainInRange
  /\ [][\A v \in VoiceIds :
          LET c == chan[v]
              d == chan'[v]
          IN  /\ (c.up /\ d.down) \/ (c.down /\ d.up)
              /\ c.uplen = c.upinv /\ d.uplen = d.upinv
              /\ c.downlen = c.downinv /\ d.downlen = d.downinv
              => Gain(c)[1] * Gain(d)[2] = Gain(d)[1] * Gain(c)[2]]_vars

(* A voice that fades out, or that moves through the buffer without        *)
(* looping, stops once the program leaves it alone: get_free_voice will    *)
(* find it, unless a tick hangs.                                           *)
Ending(c) == c.down \/ (~c.loop /\ c.inc # 0)

VoicesEnd ==
  \A v \in VoiceIds :
    (calls = MaxCalls /\ sync = "INTERNAL" /\ Ending(chan[v]))
      ~> (~chan[v].play \/ hung)

(* "catch this condition to avoid infinite while loops" (lisa.c:91): a     *)
(* tick always returns.                                                    *)
TicksReturn == ~hung

=============================================================================

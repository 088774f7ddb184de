------------------------------- MODULE Analys -------------------------------
(***************************************************************************)
(* The analysis of sound (Analys/analys.c).  An FFT keeps the last samples *)
(* in a ring and, when triggered or asked, transforms them.  An ANA counts *)
(* the FFT it is given and keeps a pointer to its spectrum, from which the *)
(* features (Centroid and the others) are computed.  What a transform and  *)
(* a feature compute is floating point and left out; the spectrum is known *)
(* by the samples it was made of.                                          *)
(***************************************************************************)
EXTENDS Integers, Sequences, FiniteSets

CONSTANTS Ffts,       \* the FFT objects of the program
          Samples,    \* what a sample may be
          Sizes,      \* the sizes init is called with
          MaxInits    \* bound: the spectra made

AnalysAssumption ==
  /\ IsFiniteSet(Ffts)
  /\ 0 \in Samples
  /\ Sizes \subseteq Int
  /\ MaxInits \in Nat
  /\ 0 \notin Ffts

VARIABLES
  ref,       \* the reference count of each FFT
  held,      \* those the program refers to by a variable
  buf,       \* its sp_buffer, <<>> before init: buf->data
  ring,      \* buf->pos
  spectrum,  \* its ana->frq, by number: 0 for NULL
  content,   \* history: the samples it was made of while those are the
             \* last ones, or <<>>
  made,      \* spectra made
  gone,      \* the spectra that were freed
  now,       \* its ana->last = sp->pos: it was computed in this sample
  fft,       \* the ANA's _fft, 0 for NULL
  fval,      \* its ana->fval: a spectrum, 0 for NULL
  size,      \* its ana->size
  done,      \* its ana->last = sp->pos
  recent,    \* history: the last samples each FFT was fed since init
  misuse,    \* history: the questionable things the program did
  fault      \* the first bad memory access, or "none"

fftVars == <<ref, held, buf, ring, spectrum, content, made, gone, now,
             recent>>
anaVars == <<fft, fval, size, done>>
vars == <<fftVars, anaVars, misuse, fault>>

Fault(f) == fault' = IF fault = "none" THEN f ELSE fault
Misuse(m) == misuse' = misuse \cup m
If(b, m) == IF b THEN {m} ELSE {}

(* ana_ctor leaves fval and size as they are; without an fft they are not  *)
(* looked at.  Objects made in the very first sample look computed in it,  *)
(* as sp->pos and last are both zero.                                      *)
Init ==
  /\ ref = [f \in Ffts |-> 1]
  /\ held = Ffts
  /\ buf = [f \in Ffts |-> <<>>]
  /\ ring = [f \in Ffts |-> 0]
  /\ spectrum = [f \in Ffts |-> 0]
  /\ content = [f \in Ffts |-> <<>>]
  /\ made = 0
  /\ gone = {}
  /\ fft = 0 /\ fval = 0 /\ size = 0
  /\ done \in BOOLEAN
  /\ now = [f \in Ffts |-> done]
  /\ recent = [f \in Ffts |-> <<>>]
  /\ misuse = {}
  /\ fault = "none"

Going == fault = "none"

-----------------------------------------------------------------------------
(* FFT                                                                     *)

(* fft.init: what there was is freed, whoever points to it. *)
FftInit(f, n) ==
  /\ Going
  /\ f \in held
  /\ n > 0
  /\ n % 2 = 0
  /\ made < MaxInits
  /\ gone' = gone \cup ({spectrum[f]} \ {0})
  /\ buf' = [buf EXCEPT ![f] = [i \in 1 .. n |-> 0]]
  /\ ring' = [ring EXCEPT ![f] = 0]
  /\ made' = made + 1
  /\ spectrum' = [spectrum EXCEPT ![f] = made']
  /\ content' = [content EXCEPT ![f] = <<>>]
  /\ recent' = [recent EXCEPT ![f] = [i \in 1 .. n |-> 0]]
  /\ Misuse(If(fft = f, "init"))
  /\ UNCHANGED <<ref, held, now, anaVars, fault>>

(* ... unless the size is refused, which raises an exception. *)
FftRefused(f, n) ==
  /\ Going
  /\ f \in held
  /\ n <= 0 \/ n % 2 = 1
  /\ UNCHANGED vars

(* Mutant: sp_buffer_get begins with the newest sample. *)
GetNewestFirst(b, r) ==
  [i \in 1 .. Len(b) |-> b[((r + i - 2 + Len(b)) % Len(b)) + 1]]

(* sp_buffer_get: the ring unrolled. *)
Get(b, r) ==
  [i \in 1 .. Len(b) |-> b[((r + i - 1) % Len(b)) + 1]]

(* fft_tick: sp_buffer_add, then the transform if triggered, or if one was *)
(* made in this sample, before it came in.                                 *)
Tick(f, sample, trig) ==
  /\ Going
  /\ ref[f] > 0
  /\ buf[f] # <<>>
  /\ LET b == [buf[f] EXCEPT ![ring[f] + 1] = sample]
         r == (ring[f] + 1) % Len(buf[f])
     IN  /\ buf' = [buf EXCEPT ![f] = b]
         /\ ring' = [ring EXCEPT ![f] = r]
         /\ content' = [content EXCEPT ![f] = IF now[f] \/ trig THEN Get(b, r) ELSE <<>>]
  /\ recent' = [recent EXCEPT ![f] = Append(Tail(@), sample)]
  /\ now' = [now EXCEPT ![f] = FALSE]
  /\ done' = FALSE
  /\ UNCHANGED <<ref, held, spectrum, made, gone, fft, fval, size, misuse, fault>>

(* fft.compute *)
FftCompute(f) ==
  /\ Going
  /\ f \in held
  /\ ~now[f]
  /\ buf[f] # <<>>
  /\ content' = [content EXCEPT ![f] = Get(buf[f], ring[f])]
  /\ now' = [now EXCEPT ![f] = TRUE]
  /\ UNCHANGED <<ref, held, buf, ring, spectrum, made, gone, anaVars, recent, misuse, fault>>

-----------------------------------------------------------------------------
(* ANA                                                                     *)

(* release(f), n times: fft_dtor frees the spectrum when it is the last. *)
Less(f) == IF f = 0 THEN ref ELSE [ref EXCEPT ![f] = @ - 1]
Ended(left) == {f \in Ffts : ref[f] > 0 /\ left[f] = 0}

Counts(left) ==
  /\ ref' = left
  /\ gone' = gone \cup ({spectrum[f] : f \in Ended(left)} \ {0})
  /\ Fault(IF \E f \in Ffts : left[f] < 0 \/ (left[f] = 0 /\ f \in held')
             THEN "count" ELSE "none")

Given == UNCHANGED <<held, buf, ring, spectrum, content, made, now, recent, done>>

(* Mutant: the FFT that is given is not counted. *)
SetUncounted(f) ==
  /\ Going
  /\ f \in held
  /\ buf[f] # <<>>
  /\ Given
  /\ Counts(Less(fft))
  /\ fft' = f
  /\ fval' = spectrum[f]
  /\ size' = Len(buf[f])
  /\ Misuse({})

(* ana.fft(f): the one there was is released first. *)
Set(f) ==
  /\ Going
  /\ f \in held
  /\ buf[f] # <<>>
  /\ Given
  /\ Counts([Less(fft) EXCEPT ![f] = @ + 1])
  /\ fft' = f
  /\ fval' = spectrum[f]
  /\ size' = Len(buf[f])
  /\ Misuse({})

(* ana.fft(null): it is released, and still referred to. *)
SetNull ==
  /\ Going
  /\ Given
  /\ Counts(Less(fft))
  /\ fval' = 0
  /\ size' = 0
  /\ Misuse(If(fft # 0, "null"))
  /\ UNCHANGED fft

(* ana.fft(f), f not initialised: both are released. *)
SetUninitialised(f) ==
  /\ Going
  /\ f \in held
  /\ buf[f] = <<>>
  /\ Given
  /\ Counts([Less(fft) EXCEPT ![f] = @ - 1])
  /\ Misuse({"uninitialised"})
  /\ UNCHANGED <<fft, fval, size>>

(* ana.compute: half of the spectrum is read. *)
Read ==
  Fault(IF size > 0 /\ fval = 0 THEN "null"
        ELSE IF size > 0 /\ fval \in gone THEN "stale"
        ELSE "none")

AnaCompute ==
  /\ Going
  /\ fft # 0
  /\ ~done
  /\ done' = TRUE
  /\ Read
  /\ UNCHANGED <<fftVars, fft, fval, size, misuse>>

(* ... but for a Rolloff whose percent the program set to a hundred or     *)
(* more, or that was fed what is no number: the sum may never get there,   *)
(* and the other half is read too, if the library made room for it or not. *)
RolloffCompute ==
  /\ Going
  /\ fft # 0
  /\ ~done
  /\ done' = TRUE
  /\ Read \/ (size > 0 /\ Fault("bounds"))
  /\ Misuse({"percent"})
  /\ UNCHANGED <<fftVars, fft, fval, size>>

(* A variable goes out of scope. *)
Drop(f) ==
  /\ Going
  /\ f \in held
  /\ held' = held \ {f}
  /\ Counts(Less(f))
  /\ UNCHANGED <<buf, ring, spectrum, content, made, now, recent, anaVars, misuse>>

Next ==
  \/ SetNull \/ AnaCompute \/ RolloffCompute
  \/ \E f \in Ffts : \/ \E n \in Sizes : FftInit(f, n) \/ FftRefused(f, n)
                     \/ \E s \in Samples, trig \in BOOLEAN : Tick(f, s, trig)
                     \/ FftCompute(f) \/ Set(f) \/ SetUninitialised(f) \/ Drop(f)

Spec == Init /\ [][Next]_vars

-----------------------------------------------------------------------------
(* A transform is of the last samples, oldest first, zeros before the      *)
(* first: wherever the ring's end is, whatever triggers it, and though     *)
(* init may come at any time (analys.c:38-51, 63-78, 123-136).             *)
SpectrumOfLast ==
  \A f \in Ffts : buf[f] # <<>> =>
    /\ Get(buf[f], ring[f]) = recent[f]
    /\ content[f] # <<>> => content[f] = recent[f]

(* An ANA reads no spectrum that was freed and takes no reference that is  *)
(* not its own: but once its FFT was initialised again, it was given null  *)
(* after an FFT, or one that was not initialised, or a Rolloff looked for  *)
(* what the spectrum does not reach (analys.c:107-114, 244-262, 434-457).  *)
SafeWithoutMisuse ==
  misuse = {} =>
    /\ fault = "none"
    /\ \A f \in Ffts : ref[f] = Cardinality({f} \cap held) + IF fft = f THEN 1 ELSE 0

=============================================================================

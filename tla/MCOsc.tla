------------------------------- MODULE MCOsc -------------------------------
(* Eight integers stand for those of 32 bits, the second does not fit. *)
EXTENDS Osc

MCInts == <<1, 5, 2>>

=============================================================================

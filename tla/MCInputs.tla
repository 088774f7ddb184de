------------------------------ MODULE MCInputs ------------------------------
(* One looper and one shred that calls anything; no symmetry, since the    *)
(* run checks liveness.                                                    *)
EXTENDS Inputs

=============================================================================

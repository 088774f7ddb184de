----------------------------- MODULE MCMachine -----------------------------
(* No symmetry, since the run checks liveness. *)
EXTENDS Machine

=============================================================================

----------------------------- MODULE MCOutputs -----------------------------
EXTENDS Outputs

(* One window with three widgets, or two with one. *)
MCSizes == {<<1, 3>>, <<2, 1>>}

=============================================================================

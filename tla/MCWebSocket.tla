---------------------------- MODULE MCWebSocket ----------------------------
(* No symmetry, since the run checks liveness. *)
EXTENDS WebSocket

=============================================================================

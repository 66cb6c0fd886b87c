--------------------------- MODULE MCEventStream ---------------------------
(***************************************************************************)
(* EventStream for TLC, with the bounds of Stream.cfg.  Consoles are not   *)
(* made symmetric: the run checks liveness.                                *)
(***************************************************************************)
EXTENDS EventStream

=============================================================================

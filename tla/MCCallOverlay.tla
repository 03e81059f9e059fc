---------------------------- MODULE MCCallOverlay ----------------------------
(* Bounds for CallOverlay. *)
EXTENDS CallOverlay
=============================================================================

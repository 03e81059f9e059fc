---------------------------- MODULE MCLabSession ----------------------------
(* Bounds for LabSession. *)
EXTENDS LabSession
=============================================================================

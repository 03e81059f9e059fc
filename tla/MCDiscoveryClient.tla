-------------------------- MODULE MCDiscoveryClient --------------------------
(* Bounds for DiscoveryClient. *)
EXTENDS DiscoveryClient
=============================================================================

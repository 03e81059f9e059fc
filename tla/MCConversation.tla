--------------------------- MODULE MCConversation ---------------------------
(* Bounds for Conversation. *)
EXTENDS Conversation
=============================================================================

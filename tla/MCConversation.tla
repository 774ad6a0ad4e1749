--------------------------- MODULE MCConversation ---------------------------
(* Instance: a key holder, an agent it gives the key and one it does not. *)
EXTENDS Conversation

CONSTANTS B, C, D
=============================================================================

--------------------------- MODULE MCConversation ---------------------------
(* Small instance of the conversation core for TLC.                        *)
EXTENDS Conversation
=============================================================================

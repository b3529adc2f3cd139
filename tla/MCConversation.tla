---------------------------- MODULE MCConversation ----------------------------
(* TLC instance of Conversation: the bounds are in the configurations. *)
EXTENDS ConversationProperties
=============================================================================

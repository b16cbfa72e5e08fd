--------------------------- MODULE MCConversation ---------------------------
(* Small instances of Conversation for TLC.                                *)
EXTENDS Conversation

Interchangeable == Permutations(Users) \cup Permutations(Handlers)
=============================================================================

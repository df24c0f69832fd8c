-------------------------- MODULE MCConversation --------------------------
(***************************************************************************)
(* The conversation with messages that all have different texts, and with  *)
(* messages that all have the same.                                        *)
(***************************************************************************)
EXTENDS Conversation, TLC

DistinctTexts == [l \in Sends |-> l]
EqualTexts == [l \in Sends |-> 1]

ChatSymmetry == Permutations(Chats)
=============================================================================

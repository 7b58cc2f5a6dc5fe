--------------------------- MODULE MCConversation ---------------------------
(* Conversation on small sets.                                             *)
EXTENDS Conversation, TLC

\* Questions are interchangeable.
Symmetry == Permutations(Question)
=============================================================================

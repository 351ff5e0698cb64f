---------------------------- MODULE MCConversation ----------------------------
(* Finite instances of Conversation.  Calls are only compared.  Within the  *)
(* bounds of the single operations, at most three of crash, compaction and  *)
(* snapshot happen in one behaviour, and two of human message and note.     *)
EXTENDS Conversation

Symmetry == Permutations(Calls)

FewDisturbances ==
    /\ crashes + Count(LAMBDA f : f.type \in {"compacted", "snapshot"}) <= 3
    /\ Sent("human") + Sent("note") <= 2
=============================================================================

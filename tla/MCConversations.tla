-------------------------- MODULE MCConversations --------------------------
(***************************************************************************)
(* Instance of Conversations for TLC: two characters, one identifier       *)
(* besides the default ones, two callers.  Characters and callers are      *)
(* interchangeable.                                                        *)
(***************************************************************************)
EXTENDS Conversations, TLC

CONSTANTS mia, leo, other, empty, hello, p1, p2

MCCharacters == {mia, leo}
MCCreated == {other}
MCTexts == {empty, hello}
MCCallers == {p1, p2}
Symmetric == Permutations(MCCharacters) \cup Permutations(MCCallers)
=============================================================================

---------------------------- MODULE MCCharacters ----------------------------
(***************************************************************************)
(* Instance of Characters for TLC: the default character and two others,   *)
(* two callers.                                                            *)
(***************************************************************************)
EXTENDS Characters, TLC

CONSTANTS nova, mia, leo, p1, p2

MCIds == {nova, mia, leo}
MCCallers == {p1, p2}
Symmetric == Permutations({mia, leo}) \cup Permutations(MCCallers)
=============================================================================

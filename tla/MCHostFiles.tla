---------------------------- MODULE MCHostFiles ----------------------------
(***************************************************************************)
(* Instance of HostFiles for TLC: the callers of the core book's manager   *)
(* are interchangeable.                                                    *)
(***************************************************************************)
EXTENDS HostFiles, TLC

CONSTANTS main, other, nothing, hello

MCConversations == {main, other}
MCTexts == {nothing, hello}

Sym == Permutations(Callers)
=============================================================================

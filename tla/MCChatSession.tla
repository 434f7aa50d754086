--------------------------- MODULE MCChatSession ---------------------------
(***************************************************************************)
(* Instance of ChatSession for TLC: texts over two characters, deltas of   *)
(* one or two of them.                                                     *)
(***************************************************************************)
EXTENDS ChatSession

CONSTANTS a, b

MCSymbols == {a, b}
MCChunks == {<<a>>, <<a, b>>}
=============================================================================

------------------------- MODULE MCModuleLifecycle -------------------------
(***************************************************************************)
(* Instance of ModuleLifecycle for TLC: an optional module and one that is *)
(* required, two callers.                                                  *)
(***************************************************************************)
EXTENDS ModuleLifecycle, TLC

CONSTANTS spare, vital, p1, p2

MCModules == {spare, vital}
MCOptional == {spare}
MCOrder == <<spare, vital>>
MCCallers == {p1, p2}
Symmetric == Permutations(MCCallers)
=============================================================================

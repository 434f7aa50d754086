------------------------------ MODULE MCMemory ------------------------------
(***************************************************************************)
(* Instance of Memory for TLC: two identifiers and two contents; one       *)
(* caller is the user, the other a worker who may write items with the     *)
(* policy auto.                                                            *)
(***************************************************************************)
EXTENDS Memory, TLC

CONSTANTS m1, m2, tea, milk, p1, p2

MCIds == {m1, m2}
MCContents == {tea, milk}
MCPolicies == {"locked", "auto"}
MCCallers == {p1, p2}
User == [user |-> TRUE, trusted |-> TRUE, capabilities |-> {}]
Worker == [user |-> FALSE, trusted |-> TRUE,
           capabilities |-> {"memory.create", "memory.write.auto"}]
MCAuthorityOf == (p1 :> User @@ p2 :> Worker)
Symmetric == Permutations(MCIds) \cup Permutations(MCContents)
=============================================================================

---------------------------- MODULE ScopedBroker ----------------------------
(***************************************************************************)
(* The action broker with the scopes of its permissions: ActionBroker,     *)
(* whose MatchesScope is Matches of Scopes, and what the two promise       *)
(* together.                                                               *)
(***************************************************************************)
EXTENDS ActionBroker, Scopes

ASSUME ScopesAssumption ==
  /\ \A scope \in RuleScopes : WellFormedScope(scope)
  /\ \A target \in Targets : WellFormedTarget(target)
  /\ \A scope \in RuleScopes, target \in Targets :
       MatchesScope(scope, target) = Matches(scope, target)

(* "Domain matching uses parsed hostnames and domain-label boundaries.     *)
(* Filesystem matching uses normalized path boundaries and requires        *)
(* canonicalized targets" (docs/security.md): when a driver is called, a   *)
(* rule allows the actor this kind of action in a scope that the target    *)
(* lies in, judged by where its path leads and not by how it is written.   *)
RunsInScope ==
  \A c \in Calls :
    stage[c] = "driver" \/ drove[c] # "not" =>
      LET tool == Tools[asked[c].tool] IN
      \E i \in DOMAIN rules :
        /\ rules[i].allow /\ rules[i].subject = asked[c].actor
        /\ rules[i].kind = tool.kind /\ rules[i].action = tool.action
        /\ Covers(rules[i].scope, asked[c].target)
=============================================================================

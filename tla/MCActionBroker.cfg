\* Two invocations and up to two rules.
CONSTANTS
  c1 = c1
  c2 = c2
  Nobody = Nobody
  Calls <- MCCalls
  Requests <- MCRequests
  Identities <- MCIdentities
  Tools <- MCTools
  Targets <- MCTargets
  MatchesScope <- Matches
  RuleScopes <- MCRuleScopes
  Rules <- MCRules
  MaxRules = 2

SYMMETRY Symmetric

SPECIFICATION Spec

INVARIANTS
  RunsOnlyCleared
  RecordedOnce
  RunsInScope

\* Every invocation settles once.
CHECK_DEADLOCK FALSE

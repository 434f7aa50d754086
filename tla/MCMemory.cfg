CONSTANTS
  m1 = m1
  m2 = m2
  tea = tea
  milk = milk
  p1 = p1
  p2 = p2
  Nobody = Nobody
  Nothing = Nothing
  Ids <- MCIds
  Contents <- MCContents
  Policies <- MCPolicies
  Callers <- MCCallers
  AuthorityOf <- MCAuthorityOf
SYMMETRY Symmetric
SPECIFICATION Spec
INVARIANTS
  IndexMirrorsMemory
PROPERTIES
  OthersUntouched
  PoliciesHold
  SupersedesOnce

CONSTANTS
  mia = mia
  leo = leo
  other = other
  empty = empty
  hello = hello
  p1 = p1
  p2 = p2
  NoId = NoId
  Nobody = Nobody
  TauriHost = TRUE
  Characters <- MCCharacters
  Created <- MCCreated
  Texts <- MCTexts
  NoText <- empty
  Callers <- MCCallers
SYMMETRY Symmetric
SPECIFICATION Spec
INVARIANTS
  StoreLoadable
  AloneCallsDeliver
PROPERTIES
  KeptUntilDeleted
  NeverLeftEmpty

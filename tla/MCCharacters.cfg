CONSTANTS
  nova = nova
  mia = mia
  leo = leo
  p1 = p1
  p2 = p2
  Nobody = Nobody
  Nothing = Nothing
  Ids <- MCIds
  Default <- nova
  Callers <- MCCallers
SYMMETRY Symmetric
SPECIFICATION Spec
INVARIANTS
  ActiveIsEnabled
  StoredNeedsNoRepair
  SavedWhenQuiet
  SubscribersFollow

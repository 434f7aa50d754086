-------------------------- MODULE MCProviderPresets --------------------------
EXTENDS ProviderPresets, TLC

CONSTANTS p1, p2, x1, x2, c1, c2

MCPresets == {p1, p2}
MCCredentials == {x1, x2}
MCCallers == {c1, c2}
MCConfigurations == {x1, NewChoice}
MCSymmetry == Permutations(MCCallers)
=============================================================================

--------------------------- MODULE MCRootSelection ---------------------------
EXTENDS RootSelection, TLC

\* Only equality is asked of identities.
Symmetry == Permutations(Identities)
=============================================================================

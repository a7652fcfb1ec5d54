------------------------- MODULE MCProviderPartition -------------------------
EXTENDS ProviderPartition, TLC
CONSTANTS p1, p2, d1, d2, n1

MCSymmetry == {f @@ g : f \in Permutations(Paths), g \in Permutations(Dirs)}
=============================================================================

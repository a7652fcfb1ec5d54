--------------------------- MODULE MCLocalRouting ---------------------------
EXTENDS LocalRouting, TLC
CONSTANTS p1, p2, p3, d1, d2, g1

\* A directory has one spelling: no aliases, mounts or case folding.
MCOneSpelling == \A p, q \in Paths : fs[p] = fs[q] => p = q \/ fs[p] = NoDir
MCPlainSpec == Init /\ MCOneSpelling /\ [][Next /\ MCOneSpelling']_vars

MCSymmetry == Permutations(Paths) \cup Permutations(Dirs)
=============================================================================

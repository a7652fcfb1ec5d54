------------------------------ MODULE MCGenesis ------------------------------
EXTENDS GenesisStream, TLC
MCSymmetry == {f @@ g : f \in Permutations(Procs), g \in Permutations(Rids)}
=============================================================================

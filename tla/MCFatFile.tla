------------------------------ MODULE MCFatFile ------------------------------
EXTENDS FatFile

MCModes == {{"read"}, {"read", "write"}, {"write", "append"}, {"read", "write", "append"}}

(* Nothing in the model tells one file or one cluster from another.        *)
MCSymmetry == Permutations(Files) \cup Permutations(Clusters)
=============================================================================

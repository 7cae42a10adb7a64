----------------------------- MODULE MCFatTable -----------------------------
(* Instances of FatTable for TLC: four clusters, two files and the         *)
(* clusters that mkdir loses.                                              *)
EXTENDS FatTable, TLC

FilesSymmetry == Permutations(Files)
=============================================================================

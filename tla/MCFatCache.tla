----------------------------- MODULE MCFatCache -----------------------------
(* Instances of FatCache for TLC. *)
EXTENDS FatCache

CONSTANT MaxWritten    (* bound: the sectors that may differ from erased *)

FewWritten ==
  Cardinality({x \in Sectors : disc[x] # Erased \/ Logical[x] # Erased}) <= MaxWritten
=============================================================================

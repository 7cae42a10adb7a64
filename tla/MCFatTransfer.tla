--------------------------- MODULE MCFatTransfer ---------------------------
(* Values for the constants of FatTransfer. *)
EXTENDS FatTransfer

(* Sectors of two bytes alone in their clusters, two to a cluster, and     *)
(* three sectors of one byte to a cluster.                                 *)
MCGeometries == ({2} \X (1 .. 2)) \cup ({1} \X {3})
=============================================================================

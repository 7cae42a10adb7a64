----------------------------- MODULE MCEfsVolume ----------------------------
(* An instance of EfsVolume for TLC: the table shares a page with the      *)
(* FSInfo sector, and the last of three pages is one sector long.          *)
EXTENDS EfsVolume

MCWrites == ({3, 4, 8} \X {1}) \cup ({3} \X {0})
=============================================================================

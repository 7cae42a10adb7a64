------------------------------ MODULE MCEfsDisc -----------------------------
(* An instance of EfsDisc for TLC. *)
EXTENDS EfsDisc
=============================================================================

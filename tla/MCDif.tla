------------------------------- MODULE MCDif --------------------------------
EXTENDS Dif

(* One older file of twenty bytes. *)
MCSources == [z \in {1} |-> 20]
=============================================================================

------------------------------ MODULE PageDisc ------------------------------
(***************************************************************************)
(* What the cache relies on the disc layer for ("Read numSectors sectors   *)
(* from a disc, starting at sector", disc.h:64, and the same for writes,   *)
(* :73): an array of sectors.  A write that fails has written some of its  *)
(* sectors and may have spoilt one of them.  This is the disc of FatCache, *)
(* where AtRisk is 0.                                                      *)
(***************************************************************************)
EXTENDS Integers, FiniteSets

CONSTANTS
  Size,      (* the number of sectors                                      *)
  Contents,  (* what a sector may hold                                     *)
  AtRisk     (* how many sectors a killed program may lose                 *)

Sectors == 0 .. Size - 1

VARIABLES
  content,  (* the sectors                                                 *)
  reply     (* the last call with its outcome                              *)

vars == <<content, reply>>

Runs == {s .. e : s, e \in Sectors}

Read(S) ==
  /\ reply' = [kind |-> "data", data |-> [x \in S |-> content[x]]]
  /\ UNCHANGED content

Write(S) ==
  \E new \in [S -> Contents] :
    /\ reply' = [kind |-> "written", data |-> new]
    /\ content' = [x \in Sectors |-> IF x \in S THEN new[x] ELSE content[x]]

ReadFails ==
  /\ reply' = [kind |-> "readError"]
  /\ UNCHANGED content

WriteFails(S) ==
  \E new \in [S -> Contents], at \in S :
    /\ reply' = [kind |-> "writeError", data |-> new]
    /\ content' \in [Sectors -> Contents]
    /\ \A x \in Sectors \ S : content'[x] = content[x]
    /\ \A x \in S \ {at} : content'[x] \in {content[x], new[x]}

(* The program is run again, after it has closed the file or was killed. *)
Restart ==
  /\ reply' = [kind |-> "none"]
  /\ content' \in [Sectors -> Contents]
  /\ Cardinality({x \in Sectors : content'[x] # content[x]}) <= AtRisk

Init ==
  /\ content \in [Sectors -> Contents]
  /\ reply = [kind |-> "none"]

Next ==
  \/ \E S \in Runs : Read(S) \/ Write(S) \/ WriteFails(S)
  \/ ReadFails \/ Restart

Spec == Init /\ [][Next]_vars
=============================================================================

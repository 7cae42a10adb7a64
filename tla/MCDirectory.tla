---------------------------- MODULE MCDirectory -----------------------------
EXTENDS Directory, TLC

(* A short name, a short name that is an alias of others, and two long     *)
(* names that want the same aliases.                                       *)
MCNames == {"a", "~1", "long", "very long"}
MCParts == [n \in MCNames |-> CASE n = "long" -> 1 [] n = "very long" -> 2 [] OTHER -> 0]
MCCandidates ==
  [n \in MCNames |-> IF MCParts[n] > 0 THEN <<"~1", "~2", "~3", "~4", "~5">> ELSE <<n>>]

(* An empty directory, one with slots behind its end that once held the    *)
(* entry of "long", and one that is full up to its last slot.              *)
MCImages ==
  {[k \in 1 .. SlotCount |-> Last],
   [k \in 1 .. SlotCount |->
      IF k = 2 THEN Long("long", "~1", TRUE)
      ELSE IF k = 3 THEN Alias("~1", "lost", Empty) ELSE Last]}
  \cup
  {[k \in 1 .. SlotCount |->
      CASE k = SlotCount     -> Alias("a", f, Empty)
        [] k = SlotCount - 1 -> Alias("~1", g, Empty)
        [] k = SlotCount - 2 -> Long("long", "~1", TRUE)
        [] OTHER             -> Volume] : <<f, g>> \in {p \in Files \X Files : p[1] # p[2]}}

MCSymmetry == Permutations(Files)
=============================================================================

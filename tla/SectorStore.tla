---------------------------- MODULE SectorStore ----------------------------
(***************************************************************************)
(* What the cache promises to the code above it ("the cache is not visible *)
(* to the user. It should be flushed when any file is closed or changes    *)
(* are made to the filesystem", cache.h:3-4): a store of sectors that      *)
(* answers reads with what was last written, some of it on the disc and    *)
(* after a flush all of it.  A call that fails changes nothing that is     *)
(* read, but may spoil one sector on the disc until the next flush.        *)
(***************************************************************************)
EXTENDS Integers

CONSTANTS
  EndOfPartition,  (* the number of sectors                                *)
  Parts,           (* the pieces of a sector that are written separately   *)
  Values           (* what a piece may hold; 0 is what erasing leaves      *)

Sectors == 0 .. EndOfPartition - 1
Contents == [Parts -> Values]

VARIABLES
  content,   (* what a read returns                                        *)
  durable,   (* what a read returns when the program is run again          *)
  unsynced,  (* the sectors written or spoilt since the last flush         *)
  reply      (* the answer to the last call                                *)

vars == <<content, durable, unsynced, reply>>

(* Any sectors may reach the disc during any call, those in T spoilt. *)
WriteBackBut(T) ==
  /\ durable' \in [Sectors -> Contents]
  /\ \A x \in Sectors \ T : durable'[x] \in {durable[x], content[x]}

WriteBack == WriteBackBut({})

Read(x) ==
  /\ reply' = [kind |-> "data", sector |-> x, data |-> content[x]]
  /\ WriteBack
  /\ UNCHANGED <<content, unsynced>>

(* The parts P of the sectors S are written, and nothing else changes but  *)
(* that, with erase, the other parts of these sectors become 0.            *)
Write(erase) ==
  \E S \in SUBSET Sectors, P \in SUBSET Parts :
    /\ reply' = [kind |-> IF erase THEN "erased" ELSE "written", sectors |-> S, parts |-> P]
    /\ WriteBack
    /\ content' \in [Sectors -> Contents]
    /\ \A x \in Sectors \ S : content'[x] = content[x]
    /\ \A x \in S : \A p \in Parts \ P :
         content'[x][p] = IF erase THEN 0 ELSE content[x][p]
    /\ unsynced' = unsynced \cup S

AtMostOne == {T \in SUBSET Sectors : \A x, y \in T : x = y}

Fail ==
  /\ reply' = [kind |-> "error"]
  /\ UNCHANGED content
  /\ \E T \in AtMostOne : WriteBackBut(T) /\ unsynced' = unsynced \cup T

Flush ==
  /\ reply' = [kind |-> "flushed"]
  /\ durable' = content
  /\ unsynced' = {}
  /\ UNCHANGED content

(* The memory is lost when the program exits. *)
Exit ==
  /\ reply' = [kind |-> "none"]
  /\ WriteBack
  /\ content' = durable'
  /\ unsynced' = {}

(* The memory is dropped after an attempt to save it, whose failure nobody *)
(* hears of.                                                               *)
Drop ==
  /\ reply' = [kind |-> "invalidated"]
  /\ \E T \in AtMostOne : WriteBackBut(T)
  /\ content' = durable'
  /\ unsynced' = {}

Init ==
  /\ content \in [Sectors -> Contents]
  /\ durable = content
  /\ unsynced = {}
  /\ reply = [kind |-> "none"]

Next ==
  \/ \E x \in Sectors : Read(x)
  \/ \E erase \in BOOLEAN : Write(erase)
  \/ Fail \/ Flush \/ Exit \/ Drop

Spec == Init /\ [][Next]_vars
=============================================================================

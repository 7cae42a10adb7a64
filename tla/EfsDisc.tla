------------------------------ MODULE EfsDisc -------------------------------
(***************************************************************************)
(* The encrypted disc as the cache uses it, on a file that may fail:       *)
(* libefs/source/disc.c.  The requests are those of the cache, for whole   *)
(* pages, which are as long as blocks; EfsVolume adds those of partition.c *)
(* for single sectors.                                                     *)
(***************************************************************************)
EXTENDS EfsBlocks

CONSTANTS
  Faults,  (* TRUE if reading and writing the file may fail                *)
  Kills    (* TRUE if the program may be killed                            *)

ASSUME SwitchesAssumption == {Faults, Kills} \subseteq BOOLEAN

VARIABLE reply  (* the last call with its outcome                          *)

requestVars == <<cells, stored, pos, ctx, reply>>

-----------------------------------------------------------------------------
(* The calls. *)

(* Those of the cache: a block, or what there is of the last one. *)
Request(s, n) == StartsBlock(s) /\ s + n <= Size /\ (n = BlockSectors \/ s + n = Size)

(* A write takes the vector as it was read, or, as nobody looks whether    *)
(* that worked, as it was on the stack.                                    *)
IvsForWrite(s) ==
  {IvAt(s)} \cup {iv \in {NoIv} : Faults /\ Seeks(s) /\ ~StartsBlock(s)}

(* fat_disc_readSectors *)
ReadSectors(s, n) == ReadsOn(s, n) /\ reply' = [kind |-> "data", data |-> Data(s, n)]

(* The file cannot be read: at the end of it, or by a fault.  The position *)
(* and the vector have changed, disc->sector has not.                      *)
ReadFails(s, n) ==
  /\ At(s) + n > Size \/ Faults
  /\ \E k \in 0 .. n - 1 : pos' = At(s) + k
  /\ \/ ctx' = [ctx EXCEPT !.iv = IvAt(s)]
     \/ Seeks(s) /\ ~StartsBlock(s) /\ Faults /\ UNCHANGED ctx
  /\ reply' = [kind |-> "readError"]
  /\ stored' = cells
  /\ UNCHANGED cells

(* fat_disc_writeSectors *)
WriteSectors(s, n, new) ==
  /\ \E iv \in IvsForWrite(s) : WritesOn(s, n, new, iv)
  /\ reply' = [kind |-> "written", data |-> [x \in s .. s + n - 1 |-> new[x - s]]]

(* fat_disc_extend says no. *)
ExtendFails(s, n, new) ==
  /\ NeedsExtending(s, n)
  /\ reply' = [kind |-> "writeError", data |-> [x \in s .. s + n - 1 |-> new[x - s]]]
  /\ UNCHANGED discVars

(* The write stops after m sectors, with some of the next one written (its *)
(* last 16 bytes are the old ones) or nothing of it.                       *)
WriteFails(s, n, new) ==
  \E m \in 0 .. n - 1, part \in BOOLEAN, iv \in IvsForWrite(s) :
    LET p == At(s)
        run == Chain(s, new, iv)
        written == Replaced(cells, p, run, m)
    IN
    /\ Faults
    /\ ~NeedsExtending(s, n)
    /\ p + m < Size
    /\ cells' = IF part THEN [written EXCEPT ![p + m].plain = Garbled] ELSE written
    /\ stored' = cells'
    /\ pos' = p + m
    /\ ctx' = [ctx EXCEPT !.iv = run[m].tail]
    /\ reply' = [kind |-> "writeError", data |-> [x \in s .. s + n - 1 |-> new[x - s]]]

Reopen == Reopened(cells) /\ reply' = [kind |-> "none"]

(* The program is killed, and run again. *)
KillProgram == Kills /\ Reopened(stored) /\ reply' = [kind |-> "none"]

RequestInit == DiscInit /\ reply = [kind |-> "none"]

RequestNext ==
  \/ \E s \in Sectors, n \in 1 .. BlockSectors :
       /\ Request(s, n)
       /\ \/ ReadSectors(s, n)
          \/ ReadFails(s, n)
          \/ \E new \in [0 .. n - 1 -> Contents] :
               WriteSectors(s, n, new) \/ ExtendFails(s, n, new) \/ WriteFails(s, n, new)
  \/ Reopen
  \/ KillProgram

RequestSpec == RequestInit /\ [][RequestNext]_requestVars

-----------------------------------------------------------------------------
(* Properties. *)

(* The disc's types and the kinds of replies. *)
RequestTypeOK ==
  /\ DiscTypeOK
  /\ reply.kind \in {"none", "data", "written", "readError", "writeError"}

(* To clients that ask for whole blocks the disc is an array of sectors,   *)
(* of which a program loses, when it is killed, no more than fit in the    *)
(* buffer of the FILE, however many it has written.                        *)
Page == INSTANCE PageDisc WITH content <- Plain(cells), AtRisk <- BufferSectors
PageSpec == Page!Spec
=============================================================================

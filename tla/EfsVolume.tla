------------------------------ MODULE EfsVolume ------------------------------
(***************************************************************************)
(* A mounted FAT32 volume on its encrypted image: the cache of cache.c     *)
(* over the disc of disc.c, and the FSInfo sector that partition.c reads   *)
(* and writes past the cache (libefs/source/partition.c, FAT32 only).      *)
(*                                                                         *)
(* Every request to the disc is a step of its own, so that the program can *)
(* be killed between any two of them; call is what is left of the          *)
(* operation.  The partition fills its image, whose last block may be      *)
(* short.  Files are closed before the volume is unmounted.  What a caller *)
(* writes to a sector is one of a few values; the content of the sector    *)
(* Table is the number of free clusters that it shows; 0 in the FSInfo     *)
(* sector is a sector without the signatures, n + 1 one with the count n.  *)
(* The disc does not fail, but that it refuses to write the last sector of *)
(* the image.  A count of 0xffffffff in the FSInfo sector is left out.     *)
(***************************************************************************)
EXTENDS EfsBlocks

(* BlockSectors is sectorsPerPage too, and Size endOfPartition. *)
CONSTANTS
  NumPages,       (* numberOfPages                                         *)
  FsInfo,         (* fsInfoSector                                          *)
  Table,          (* the sector of the file allocation table               *)
  Writes          (* the writes of callers: sectors and values             *)

ASSUME NumPagesAssumption == NumPages \in Nat /\ NumPages >= 2
ASSUME FsInfoAssumption == FsInfo \in 1 .. Size - 2
ASSUME TableAssumption == Table \in (1 .. Size - 1) \ {FsInfo, FsInfo + 1}
ASSUME WritesAssumption ==
  /\ Writes \subseteq ((1 .. Size - 1) \ {FsInfo, FsInfo + 1}) \X Values
  /\ \A w \in Writes : w[1] = Table => w[2] \in Nat /\ w[2] + 1 \in Values
ASSUME SectorValuesAssumption == 1 \in Values /\ Values \subseteq Nat

VARIABLES
  page,       (* cacheEntries                                              *)
  lastUse,    (* the order of last_access: 0 for a page not yet used, and  *)
              (* NumPages for the one used last                            *)
  call,       (* what remains of the current call                          *)
  free,       (* fat.numberFreeCluster                                     *)
  promised    (* for each sector what it may hold if nothing is lost: what *)
              (* the last successful flush saw, and what was written since *)

vars == <<cells, stored, pos, ctx, page, lastUse, call, free, promised>>

Pages == 0 .. NumPages - 1
Used == {Table} \cup {w[1] : w \in Writes}

-----------------------------------------------------------------------------
(* The cache. *)

NoPage == [data |-> [x \in {} |-> 0], dirty |-> FALSE]
Held(i) == DOMAIN page[i].data
Holders(s) == {i \in Pages : s \in Held(i)}

Base(s) == (s \div BlockSectors) * BlockSectors
PageSectors(s) == {x \in Sectors : Base(x) = Base(s)}
FirstOf(S) == CHOOSE s \in S : \A x \in S : s <= x

(* The page that getPage replaces: a free one if there is one, or else the *)
(* one with the least access time.                                         *)
IsVictim(i) ==
  \/ Held(i) = {} /\ \A j \in Pages : j < i => Held(j) # {}
  \/ \A j \in Pages : Held(j) # {} /\ lastUse[i] <= lastUse[j]

(* last_access = accessTime() *)
Touched(i) ==
  [j \in Pages |-> IF j = i THEN NumPages
                   ELSE IF lastUse[j] > lastUse[i] THEN lastUse[j] - 1 ELSE lastUse[j]]

(* The disc is asked to write page i, and does, or says no. *)
PageRun(i) == [k \in 0 .. Cardinality(Held(i)) - 1 |-> page[i].data[FirstOf(Held(i)) + k]]
WritePage(i) ==
  LET s == FirstOf(Held(i)) IN WritesOn(s, Cardinality(Held(i)), PageRun(i), IvAt(s))
Cleaned(i) == [page EXCEPT ![i] = [data |-> @.data, dirty |-> FALSE]]
WriteRefused(i) ==
  /\ NeedsExtending(FirstOf(Held(i)), Cardinality(Held(i)))
  /\ UNCHANGED discVars

(* What the callers of the cache see. *)
Logical ==
  [x \in Sectors |-> IF Holders(x) = {} THEN Plain(cells)[x]
                     ELSE page[FirstOf(Holders(x))].data[x]]

Idle == [op |-> "idle"]
Closed == [op |-> "closed"]
Returns == call' = Idle

(* The calls that need the page of a sector, which is not in the cache. *)
Misses == call.op \in {"read", "write", "count"} /\ Holders(call.s) = {}

(* getPage writes the page it is to replace; if that fails the call does.  *)
WriteBack(i) ==
  /\ Misses /\ IsVictim(i) /\ page[i].dirty
  /\ \/ /\ WritePage(i)
        /\ page' = Cleaned(i)
        /\ UNCHANGED call
     \/ /\ WriteRefused(i)
        /\ Returns
        /\ UNCHANGED page
  /\ UNCHANGED <<lastUse, free, promised>>

(* getPage reads the page. *)
Fetch(i) ==
  /\ Misses /\ IsVictim(i) /\ ~page[i].dirty
  /\ LET run == PageSectors(call.s)
         data == Data(FirstOf(run), Cardinality(run)) IN
       /\ ReadsOn(FirstOf(run), Cardinality(run))
       /\ page' = [page EXCEPT ![i] = [data |-> data, dirty |-> FALSE]]
  /\ lastUse' = Touched(i)
  /\ UNCHANGED <<call, free, promised>>

ReadCall(s) == [op |-> "read", s |-> s]
WriteCall(s, v) == [op |-> "write", s |-> s, v |-> v]

(* The page is there, or has been brought in, and the call ends. *)
Read(s) ==
  /\ call \in {Idle, ReadCall(s)}
  /\ \E i \in Holders(s) : lastUse' = Touched(i)
  /\ Returns
  /\ UNCHANGED <<discVars, page, free, promised>>

Write(s, v) ==
  /\ call \in {Idle, WriteCall(s, v)}
  /\ \E i \in Holders(s) :
       /\ page' = [page EXCEPT ![i] = [data |-> [@.data EXCEPT ![s] = v], dirty |-> TRUE]]
       /\ lastUse' = Touched(i)
  /\ promised' = [promised EXCEPT ![s] = @ \cup {v}]
  /\ free' = IF s = Table THEN v ELSE free
  /\ Returns
  /\ UNCHANGED discVars

-----------------------------------------------------------------------------
(* fat_cache_flush, page by page. *)

Flushing == call.op \in {"flush", "unmount"} /\ call.i \in Pages

FlushPage ==
  /\ Flushing /\ page[call.i].dirty
  /\ WritePage(call.i)
  /\ page' = Cleaned(call.i)
  /\ call' = [call EXCEPT !.i = @ + 1]
  /\ UNCHANGED <<lastUse, free, promised>>

FlushNothing ==
  /\ Flushing /\ ~page[call.i].dirty
  /\ call' = [call EXCEPT !.i = @ + 1]
  /\ UNCHANGED <<discVars, page, lastUse, free, promised>>

(* A mistake: the loop goes on to the next page. *)
FlushRefused_GoesOn ==
  /\ Flushing /\ page[call.i].dirty
  /\ WriteRefused(call.i)
  /\ call' = [call EXCEPT !.i = @ + 1]
  /\ UNCHANGED <<page, lastUse, free, promised>>

(* The first page that cannot be written ends the loop.  Unmounting does   *)
(* not look at the outcome.                                                *)
FlushRefused ==
  /\ Flushing /\ page[call.i].dirty
  /\ WriteRefused(call.i)
  /\ call' = IF call.op = "unmount" THEN [call EXCEPT !.i = NumPages] ELSE Idle
  /\ UNCHANGED <<page, lastUse, free, promised>>

FlushDone ==
  /\ call = [op |-> "flush", i |-> NumPages]
  /\ promised' = [x \in Sectors |-> {Logical[x]}]
  /\ Returns
  /\ UNCHANGED <<discVars, page, lastUse, free>>

-----------------------------------------------------------------------------
(* The volume. *)

(* fat_partition_constructor: the first sector of the disc, and an empty   *)
(* cache.                                                                  *)
ReadBoot ==
  /\ call = Closed
  /\ ReadsOn(0, 1)
  /\ call' = [op |-> "mount"]
  /\ UNCHANGED <<page, lastUse, free, promised>>

(* The file is closed, or lost, and the memory of the volume is gone; the  *)
(* next program finds this file.                                           *)
Ends(file) ==
  /\ Reopened(file)
  /\ page' = [i \in Pages |-> NoPage]
  /\ lastUse' = [i \in Pages |-> 0]
  /\ call' = Closed
  /\ free' = 0

(* The FSInfo sector, with the signatures or not, and the count in it. *)
InfoRead == Data(FsInfo, 1)[FsInfo]
Signed(v) == v \in Values \ {0}
InfoSector(n) == n + 1
InfoCount(v) == v - 1
Counts == {InfoCount(v) : v \in Values \ {0}}

(* fat_partition_readFSinfo; a sector that is not signed, or that shows no *)
(* free cluster, is created, and the free clusters are counted for it,     *)
(* through the cache.                                                      *)
ReadFSinfo ==
  /\ call.op = "mount"
  /\ ReadsOn(FsInfo, 1)
  /\ IF Signed(InfoRead) /\ InfoCount(InfoRead) # 0
     THEN Returns /\ free' = InfoCount(InfoRead)
     ELSE call' = [op |-> "count", s |-> Table] /\ UNCHANGED free
  /\ UNCHANGED <<page, lastUse, promised>>

(* fat_fat_freeClusterCount; a table that cannot be read shows anything.   *)
FreeClusterCount ==
  /\ call.op = "count"
  /\ \E i \in Holders(Table) :
       /\ free' \in IF page[i].data[Table] = Garbled THEN Counts ELSE {page[i].data[Table]}
       /\ lastUse' = Touched(i)
  /\ call' = [op |-> "create"]
  /\ UNCHANGED <<discVars, page, promised>>

WriteInfo == WritesOn(FsInfo, 1, [k \in {0} |-> InfoSector(free)], IvAt(FsInfo))

(* fat_updateFS_INFO *)
CreateFSinfo ==
  /\ call.op = "create"
  /\ WriteInfo
  /\ Returns
  /\ UNCHANGED <<page, lastUse, free, promised>>

(* A mistake: the flush begins with the second page. *)
StartFlush_SkipsFirst == call' = [op |-> "unmount", i |-> 1]

(* fat_cache_destructor, which the destructor of the partition ends with.  *)
StartFlush == call' = [op |-> "unmount", i |-> 0]

(* fat_partition_destructor: fat_partition_writeFSinfo reads the sector,   *)
(* and writes it if it is one.                                             *)
UnmountReads ==
  /\ call = Idle
  /\ ReadsOn(FsInfo, 1)
  /\ IF Signed(InfoRead) THEN call' = [op |-> "writeFSinfo"] ELSE StartFlush
  /\ UNCHANGED <<page, lastUse, free, promised>>

UnmountWrites ==
  /\ call.op = "writeFSinfo"
  /\ WriteInfo
  /\ StartFlush
  /\ UNCHANGED <<page, lastUse, free, promised>>

(* fat_efs_disc_destroy closes the file, whatever the flush has come to.   *)
CloseDisc ==
  /\ call = [op |-> "unmount", i |-> NumPages]
  /\ Ends(cells)
  /\ UNCHANGED promised

(* The program ends without unmounting, and its FILE is closed by exit. *)
Exit ==
  /\ call = Idle
  /\ Ends(cells)
  /\ UNCHANGED promised

(* The program is killed. *)
Kill ==
  /\ call # Closed
  /\ Ends(stored)
  /\ promised' = [x \in Sectors |-> {Plain(stored)[x]}]

(* The other calls need requests to the disc, or may. *)
Begin ==
  /\ call = Idle
  /\ \/ \E s \in Used : Holders(s) = {} /\ call' = ReadCall(s)
     \/ \E w \in Writes : Holders(w[1]) = {} /\ call' = WriteCall(w[1], w[2])
     \/ call' = [op |-> "flush", i |-> 0]
  /\ UNCHANGED <<discVars, page, lastUse, free, promised>>

Init ==
  /\ DiscInit
  /\ page = [i \in Pages |-> NoPage]
  /\ lastUse = [i \in Pages |-> 0]
  /\ call = Closed
  /\ free = 0
  /\ promised = [x \in Sectors |-> {0}]

Next ==
  \/ Begin
  \/ \E i \in Pages : WriteBack(i) \/ Fetch(i)
  \/ \E s \in Used : Read(s)
  \/ \E w \in Writes : Write(w[1], w[2])
  \/ FlushPage \/ FlushNothing \/ FlushRefused \/ FlushDone
  \/ ReadBoot \/ ReadFSinfo \/ FreeClusterCount \/ CreateFSinfo
  \/ UnmountReads \/ UnmountWrites \/ CloseDisc \/ Exit \/ Kill

Spec == Init /\ [][Next]_vars

-----------------------------------------------------------------------------
(* Properties. *)

PageData == UNION {[S -> Contents] : S \in {{}} \cup {PageSectors(s) : s \in Sectors}}
Calls ==
  [op : {"idle", "closed", "mount", "create", "writeFSinfo"}]
    \cup [op : {"read", "count"}, s : Sectors]
    \cup [op : {"write"}, s : Sectors, v : Values]
    \cup [op : {"flush", "unmount"}, i : 0 .. NumPages]

(* The kinds of values: pages hold whole blocks and were used one after    *)
(* the other.                                                              *)
TypeOK ==
  /\ DiscTypeOK
  /\ page \in [Pages -> [data : PageData, dirty : BOOLEAN]]
  /\ lastUse \in [Pages -> 0 .. NumPages]
  /\ \A i, j \in Pages : (i # j /\ lastUse[i] = lastUse[j]) => lastUse[i] = 0
  /\ call \in Calls
  /\ free \in Nat
  /\ promised \in [Sectors -> SUBSET Contents]

(* The FSInfo sector is written past the cache, and the sector after it is *)
(* what a write of a part of a block spoils.                               *)
Others == Sectors \ {FsInfo, FsInfo + 1}

(* What a successful flush has written, or something newer, is in the file *)
(* once it is closed in order, whatever the cache has done since: pages    *)
(* replaced or only partly flushed, flushes given up, the FSInfo sector    *)
(* written in the middle of a block.                                       *)
FlushedIsKept == \A x \in Others : Plain(cells)[x] \in promised[x]

(* A program killed at any time loses no more of it than fits in the       *)
(* buffer of the FILE.                                                     *)
KillLosesLittle ==
  Cardinality({x \in Others : Plain(stored)[x] \notin promised[x]}) <= BufferSectors

(* Nobody looks at the flush with which a volume is unmounted: it leaves   *)
(* writes behind only if the last page of the image was written to, which  *)
(* the disc refuses to store.                                              *)
LastPageDirty == \E i \in Pages : page[i].dirty /\ Size - 1 \in Held(i)
UnmountKeeps ==
  [][call = [op |-> "unmount", i |-> NumPages] /\ cells' = cells =>
       \/ LastPageDirty
       \/ \A x \in Others : Plain(cells')[x] = Logical[x]]_vars
=============================================================================

------------------------------ MODULE FatTable ------------------------------
(***************************************************************************)
(* The file allocation table of a mounted partition:                       *)
(* libefs/source/file_allocation_table.c.                                  *)
(*                                                                         *)
(* Each data cluster has an entry in the table that holds the number of    *)
(* the next cluster of the same file, CLUSTER_EOF for the last one, or     *)
(* CLUSTER_FREE.  The callers (fatfile.c, fatdir.c, directory.c) keep the  *)
(* number of the first cluster of every file and directory; start[f] is    *)
(* that number for the file f.  The library is single threaded (lock.c is  *)
(* empty) and a call touches nothing but memory until its pages are        *)
(* flushed, so a call is one action, and a loop along a chain is the set   *)
(* of clusters it visits.                                                  *)
(***************************************************************************)
EXTENDS Integers, FiniteSets

CONSTANTS
  LastCluster,  (* partition->fat.lastCluster                              *)
  Files,        (* the files and directories that own cluster chains       *)
  PastEnd,      (* what the entry after the last cluster's reads as:       *)
                (* CLUSTER_FREE in the zero padding of the table's last    *)
                (* sector, CLUSTER_EOF for any other contents              *)
  FilesysType,  (* partition->filesysType                                  *)
  CountCap,     (* numberOfSectors / sectorsPerCluster, the bound that     *)
                (* clearLinks puts on the count of free clusters           *)
  ReadFaults    (* TRUE if reading an entry through the cache may fail     *)

CLUSTER_FREE  == 0
CLUSTER_FIRST == 2
(* The two values above every cluster number that the code tells apart.    *)
CLUSTER_EOF   == LastCluster + 2
CLUSTER_ERROR == LastCluster + 3

ASSUME LastClusterAssumption == LastCluster \in Nat /\ LastCluster >= CLUSTER_FIRST
ASSUME PastEndAssumption == PastEnd \in {CLUSTER_FREE, CLUSTER_EOF}
ASSUME FilesysTypeAssumption == FilesysType \in {"FAT12", "FAT16", "FAT32"}
(* The volume is at least as large as its data area. *)
ASSUME CountCapAssumption == CountCap \in Nat /\ CountCap >= LastCluster - 1
ASSUME ReadFaultsAssumption == ReadFaults \in BOOLEAN

Clusters == CLUSTER_FIRST .. LastCluster
Entries  == Clusters \cup {CLUSTER_FREE, CLUSTER_EOF, LastCluster + 1}

VARIABLES
  fat,                (* the table                                         *)
  firstFree,          (* where the search for a free cluster starts        *)
  numberFreeCluster,  (* the count kept for the FAT32 FSInfo sector        *)
  infoSector,         (* the count in the FSInfo sector on the disc        *)
  infoPage,           (* the count in the copy of that sector that came    *)
                      (* into the cache with the other sectors of its page *)
  start,              (* the callers' start clusters                       *)
  abandoned,          (* clusters that mkdir took and then dropped         *)
  result,             (* the outcome of the last call                      *)
  countKept           (* history: numberFreeCluster goes back to a count   *)
                      (* of the table, through every sector it was read    *)
                      (* from, and no chain that leads past the end has    *)
                      (* been released since                               *)

info == <<infoSector, infoPage>>

vars == <<fat, firstFree, numberFreeCluster, info, start, abandoned, result, countKept>>

(* What the FSInfo sector may hold; 0 stands for a sector without its      *)
(* signatures too, and UNKNOWN is 0xffffffff.  Nothing reads the sector's  *)
(* other number, the cluster allocated last.                               *)
UNKNOWN == CountCap + 1
InfoCounts == 0 .. UNKNOWN

Results == {"none", "linked", "noSpace", "released"}

(* Every variable holds a value of the kind the code keeps in it.          *)
TypeOK ==
  /\ fat \in [Clusters -> Entries]
  /\ firstFree \in CLUSTER_FIRST .. LastCluster + 1
  /\ numberFreeCluster \in 0 .. CountCap
  /\ infoSector \in InfoCounts /\ infoPage \in InfoCounts
  /\ start \in [Files -> Clusters \cup {CLUSTER_FREE}]
  /\ abandoned \in SUBSET Clusters
  /\ result \in Results
  /\ countKept \in BOOLEAN

-----------------------------------------------------------------------------
(* Reading the table. *)

(* The table as fat_fat_nextCluster sees it.  The result of a read through *)
(* the cache is ignored, so an entry in bad, one the cache cannot bring    *)
(* in, reads as the CLUSTER_FREE that nextCluster starts from.             *)
Seen(bad) == [c \in Clusters |-> IF c \in bad THEN CLUSTER_FREE ELSE fat[c]]

(* fat_fat_nextCluster(cluster) *)
NextCluster(cluster, bad) ==
  IF cluster = CLUSTER_FREE THEN CLUSTER_FREE
  ELSE IF cluster \in Clusters THEN Seen(bad)[cluster]
  ELSE PastEnd

(* The sets of entries that the reads of one call may fail on.             *)
BadReads == IF ReadFaults THEN {{}} \cup {{c} : c \in Clusters} ELSE {{}}

FreeClusters == {c \in Clusters : fat[c] = CLUSTER_FREE}

(* fat_fat_freeClusterCount *)
FreeClusterCount == Cardinality(FreeClusters)

(* fat_fat_isValidCluster *)
IsValidCluster(cluster) == cluster \in Clusters

(* S holds every cluster that a walk entering S goes on to. *)
Closed(table, S) == \A c \in S : table[c] \in Clusters => table[c] \in S

(* The clusters that a loop following the links from cluster visits: those *)
(* in every closed set that has cluster in it.                             *)
Walk(table, cluster) ==
  {c \in Clusters :
     \A S \in SUBSET Clusters : (cluster \in S /\ Closed(table, S)) => c \in S}

Chain(cluster) == Walk(fat, cluster)

(* The clusters of the file f. *)
FileChain(f) == IF start[f] = CLUSTER_FREE THEN {} ELSE Chain(start[f])

(* Clusters that fat_fat_lastCluster(start[f]) can end at: no link leads   *)
(* on from them.  A link past the end of the table is followed too.        *)
Ends(f) ==
  {c \in FileChain(f) \cup {fat[d] : d \in FileChain(f)} :
     /\ c \in CLUSTER_FIRST .. LastCluster + 1
     /\ NextCluster(c, {}) \in {CLUSTER_FREE, CLUSTER_EOF}}

-----------------------------------------------------------------------------
(* The search of fat_fat_linkFreeCluster: entries are probed upwards from  *)
(* firstFree, which may be the one past the end, then once more from the   *)
(* first cluster.                                                          *)

Ahead == firstFree .. (IF firstFree > LastCluster THEN firstFree ELSE LastCluster)

ReadsFree(c, bad) == NextCluster(c, bad) = CLUSTER_FREE

(* Mutant: having started over, the search takes what it starts at. *)
SearchStopsAt_TakesFirst(c, bad) ==
  \/ /\ c \in Ahead /\ ReadsFree(c, bad)
     /\ \A d \in Ahead : d < c => ~ReadsFree(d, bad)
  \/ c = CLUSTER_FIRST /\ \A d \in Ahead : ~ReadsFree(d, bad)

(* Mutant: the search does not start over from the first cluster. *)
SearchFails_NoWrap(bad) == \A c \in Ahead : ~ReadsFree(c, bad)

(* c is the cluster the search stops at. *)
SearchStopsAt(c, bad) ==
  \/ /\ c \in Ahead /\ ReadsFree(c, bad)
     /\ \A d \in Ahead : d < c => ~ReadsFree(d, bad)
  \/ /\ c \in Clusters /\ ReadsFree(c, bad)
     /\ \A d \in Ahead : ~ReadsFree(d, bad)
     /\ \A d \in Clusters : d < c => ~ReadsFree(d, bad)

SearchFails(bad) == \A c \in Ahead \cup Clusters : ~ReadsFree(c, bad)

(* fat_fat_writeFatEntry: an entry outside the table is left alone. *)
WriteFatEntry(table, cluster, value) ==
  [c \in Clusters |-> IF c = cluster THEN value ELSE table[c]]

(* Mutant: the new cluster is not marked as the end of its chain. *)
Allocate_NoMark(cluster, c) ==
  /\ firstFree' = c
  /\ numberFreeCluster' = IF numberFreeCluster = 0 THEN 0 ELSE numberFreeCluster - 1
  /\ fat' = WriteFatEntry(fat, cluster, c)

(* What fat_fat_linkFreeCluster(cluster) does with c, where its search     *)
(* stopped.                                                                *)
Allocate(cluster, c) ==
  /\ firstFree' = c
  /\ numberFreeCluster' =
       IF numberFreeCluster = 0 THEN 0 ELSE numberFreeCluster - 1
  /\ fat' = WriteFatEntry(WriteFatEntry(fat, cluster, c), c, CLUSTER_EOF)

(* fat_fat_linkFreeCluster(cluster) returning ret.                         *)
LinkFreeCluster(cluster, ret, bad) ==
  LET curLink == NextCluster(cluster, bad) IN
  IF cluster > LastCluster
  THEN /\ ret = CLUSTER_ERROR
       /\ UNCHANGED <<fat, firstFree, numberFreeCluster>>
  ELSE IF IsValidCluster(curLink)
  THEN /\ ret = curLink
       /\ UNCHANGED <<fat, firstFree, numberFreeCluster>>
  ELSE \/ /\ SearchStopsAt(ret, bad)
          /\ Allocate(cluster, ret)
       \/ /\ SearchFails(bad)
          /\ ret = CLUSTER_ERROR
          /\ firstFree' = LastCluster + 1
          /\ UNCHANGED <<fat, numberFreeCluster>>

(* What the call can return. *)
LinkReturns == (CLUSTER_FIRST .. LastCluster + 1) \cup {CLUSTER_ERROR}

SetLinkResult(ret) ==
  result' = IF ret = CLUSTER_ERROR THEN "noSpace" ELSE "linked"

-----------------------------------------------------------------------------
(* Releasing clusters. *)

(* Mutant: the next cluster is looked up after the link is erased. *)
FreeChain_NextAfterErase(table, cluster, bad) ==
  WriteFatEntry(table, cluster, CLUSTER_FREE)

(* The table after the loop of fat_fat_clearLinks(cluster). *)
FreeChain(table, cluster, bad) ==
  [c \in Clusters |-> IF c \in Walk(Seen(bad), cluster) THEN CLUSTER_FREE ELSE table[c]]

(* Mutant: one cluster is counted for the whole chain. *)
Cleared_HeadOnly(cluster, bad) == 1

(* The clusters the loop of fat_fat_clearLinks counts: those it frees, and *)
(* the one past the end if a link leads there.                             *)
Cleared(cluster, bad) ==
  LET walk == Walk(Seen(bad), cluster) IN
  Cardinality(walk) + Cardinality({c \in walk : Seen(bad)[c] = LastCluster + 1})

(* The loop counts one cluster at a time while the count is below the cap. *)
CountUp(count, n) == IF count + n <= CountCap THEN count + n ELSE CountCap

(* The clusters whose links lead past the end of the table. *)
PastLinks == {c \in Clusters : fat[c] = LastCluster + 1}

(* Mutant: the search for a free cluster is not told of the released ones. *)
ClearLinksHints_HintStays(cluster, bad) ==
  /\ firstFree' = firstFree
  /\ numberFreeCluster' = CountUp(numberFreeCluster, Cleared(cluster, bad))
  /\ countKept' = (countKept /\ Walk(Seen(bad), cluster) \cap PastLinks = {})

(* fat_fat_clearLinks(cluster) but for the table. *)
ClearLinksHints(cluster, bad) ==
  /\ firstFree' = IF cluster < firstFree THEN cluster ELSE firstFree
  /\ numberFreeCluster' = CountUp(numberFreeCluster, Cleared(cluster, bad))
  /\ countKept' = (countKept /\ Walk(Seen(bad), cluster) \cap PastLinks = {})

(* fat_fat_clearLinks(cluster) *)
ClearLinks(cluster, bad) ==
  /\ ClearLinksHints(cluster, bad)
  /\ fat' = FreeChain(fat, cluster, bad)

(* Mutant: the cluster the chain is cut after is not marked as its end. *)
TrimChain_NoMark(c, bad) ==
  LET next == NextCluster(c, bad) IN
  IF IsValidCluster(next)
  THEN ClearLinks(next, bad)
  ELSE UNCHANGED <<fat, firstFree, numberFreeCluster, countKept>>

(* fat_fat_trimChain, the chain being cut after its cluster c. *)
TrimChain(c, bad) ==
  LET next == NextCluster(c, bad) IN
  IF IsValidCluster(next)
  THEN /\ ClearLinksHints(next, bad)
       /\ fat' = WriteFatEntry(FreeChain(fat, next, bad), c, CLUSTER_EOF)
  ELSE /\ fat' = WriteFatEntry(fat, c, CLUSTER_EOF)
       /\ UNCHANGED <<firstFree, numberFreeCluster, countKept>>

-----------------------------------------------------------------------------
(* The calls. *)

(* Mutant: whatever linkFreeCluster returns becomes the start cluster. *)
Create_NoValidCheck(f) ==
  \E ret \in LinkReturns, bad \in BadReads :
    /\ start[f] = CLUSTER_FREE
    /\ LinkFreeCluster(CLUSTER_FREE, ret, bad)
    /\ start' = [start EXCEPT ![f] = ret]
    /\ SetLinkResult(ret)
    /\ UNCHANGED <<info, abandoned, countKept>>

(* The first write or growing truncation of an empty file, and mkdir: a    *)
(* cluster linked from CLUSTER_FREE becomes the start cluster if it is a   *)
(* valid one.                                                              *)
Create(f) ==
  \E ret \in LinkReturns, bad \in BadReads :
    /\ start[f] = CLUSTER_FREE
    /\ LinkFreeCluster(CLUSTER_FREE, ret, bad)
    /\ start' = [start EXCEPT ![f] = IF IsValidCluster(ret) THEN ret ELSE CLUSTER_FREE]
    /\ SetLinkResult(ret)
    /\ UNCHANGED <<info, abandoned, countKept>>

(* mkdir when the parent directory has no room for the entry: the call     *)
(* fails and the cluster stays allocated.                                  *)
CreateWithoutEntry ==
  \E ret \in LinkReturns, bad \in BadReads :
    /\ LinkFreeCluster(CLUSTER_FREE, ret, bad)
    /\ abandoned' = abandoned \cup ({ret} \cap Clusters)
    /\ SetLinkResult(ret)
    /\ UNCHANGED <<info, start, countKept>>

(* A write, or the extension of a file or directory, that needs a cluster  *)
(* after the last one.  That the caller stands there, and not in clusters  *)
(* that a truncation has released, is for the model of open files to say.  *)
Extend(f) ==
  \E c \in Ends(f), ret \in LinkReturns, bad \in BadReads :
    /\ LinkFreeCluster(c, ret, bad)
    /\ SetLinkResult(ret)
    /\ UNCHANGED <<info, start, abandoned, countKept>>

(* unlink, rmdir, truncation to nothing: clearLinks, and the start cluster *)
(* is dropped.                                                             *)
Remove(f) ==
  \E bad \in BadReads :
    /\ IsValidCluster(start[f])
    /\ ClearLinks(start[f], bad)
    /\ start' = [start EXCEPT ![f] = CLUSTER_FREE]
    /\ result' = "released"
    /\ UNCHANGED <<info, abandoned>>

(* A truncation to a size above zero. *)
Shrink(f) ==
  \E c \in FileChain(f), bad \in BadReads :
    /\ TrimChain(c, bad)
    /\ result' = "released"
    /\ UNCHANGED <<info, start, abandoned>>

-----------------------------------------------------------------------------
(* The FSInfo sector of a FAT32 volume.  It is read and written past the   *)
(* cache, whose pages of neighbouring sectors have a copy of it as well.   *)

(* fat_partition_readFSinfo, the sector's count being count: it is taken   *)
(* over, or the free clusters are counted and the sector is written.       *)
ReadFSinfo(count) ==
  LET counts == count \in {0, UNKNOWN} IN
  /\ numberFreeCluster' = IF counts THEN FreeClusterCount ELSE count
  /\ infoSector' = numberFreeCluster'
  /\ countKept' = (counts \/ (countKept /\ count = numberFreeCluster))

(* The page with the sector's copy is brought into the cache once more.    *)
LoadPage ==
  /\ FilesysType = "FAT32"
  /\ infoPage' = infoSector
  /\ result' = "none"
  /\ UNCHANGED <<fat, firstFree, numberFreeCluster, infoSector, start, abandoned,
                 countKept>>

(* The page is flushed, because its other sectors have been written: the   *)
(* copy goes back to the disc.                                             *)
FlushPage ==
  /\ FilesysType = "FAT32"
  /\ infoSector' = infoPage
  /\ result' = "none"
  /\ UNCHANGED <<fat, firstFree, numberFreeCluster, infoPage, start, abandoned,
                 countKept>>

(* A mount that finds count in the sector.  The page that is loaded as the *)
(* table is read has the sector as it was found.                           *)
Mount(count) ==
  /\ firstFree' = CLUSTER_FIRST
  /\ IF FilesysType = "FAT32"
     THEN ReadFSinfo(count) /\ infoPage' = count
     ELSE numberFreeCluster' = 0 /\ countKept' = FALSE /\ UNCHANGED info
  /\ result' = "none"
  /\ UNCHANGED <<fat, start, abandoned>>

(* An unmount and a mount: the count is written to the sector, and then    *)
(* the cache is flushed, which puts the copy back if its page is dirty.    *)
Remount == \E count \in {numberFreeCluster, infoPage} : Mount(count)

(* The process ends without an unmount once its calls have flushed the     *)
(* table, and the volume is mounted again: the sector has not been written.*)
ExitAndMount == Mount(infoSector)

(* A new volume, mounted.  Its FSInfo sector, if it has one, was left      *)
(* without a count or with the right one.                                  *)
Init ==
  /\ fat = [c \in Clusters |-> CLUSTER_FREE]
  /\ firstFree = CLUSTER_FIRST
  /\ numberFreeCluster = IF FilesysType = "FAT32" THEN LastCluster - 1 ELSE 0
  /\ infoSector = LastCluster - 1
  /\ infoPage \in {0, UNKNOWN, LastCluster - 1}
  /\ start = [f \in Files |-> CLUSTER_FREE]
  /\ abandoned = {}
  /\ result = "none"
  /\ countKept = (FilesysType = "FAT32")

Next ==
  \/ \E f \in Files : Create(f) \/ Extend(f) \/ Remove(f) \/ Shrink(f)
  \/ CreateWithoutEntry
  \/ LoadPage \/ FlushPage \/ Remount \/ ExitAndMount

Spec == Init /\ [][Next]_vars

-----------------------------------------------------------------------------
(* Properties. *)

(* No cluster belongs to two files, or to a file and to nobody.            *)
NoCrossLinks ==
  /\ \A f, g \in Files : f # g => FileChain(f) \cap FileChain(g) = {}
  /\ \A f \in Files : FileChain(f) \cap abandoned = {}

(* A cluster is allocated exactly when a file owns it (or mkdir lost it):  *)
(* releasing and cutting chains leaks nothing and frees nothing in use.    *)
NoLostClusters ==
  {c \in Clusters : fat[c] # CLUSTER_FREE}
    = abandoned \cup UNION {FileChain(f) : f \in Files}

(* Every chain has exactly one end, an end-of-file mark or a link past the *)
(* end of the table, behind which nextCluster reads CLUSTER_FREE: the      *)
(* loops of lastCluster, trimChain and clearLinks end.                     *)
ChainsTerminated ==
  \A f \in Files : start[f] # CLUSTER_FREE =>
    \E c \in FileChain(f) :
      /\ fat[c] \in {CLUSTER_EOF, LastCluster + 1}
      /\ \A d \in FileChain(f) \ {c} : fat[d] \in FileChain(f)

(* The count kept in memory is the number of free clusters after any       *)
(* calls, through every FSInfo sector that was left as the unmount wrote   *)
(* it, until a chain that leads past the end is released or a sector is    *)
(* read that an exit or the flush of its page left behind the count.       *)
FreeCountExact ==
  countKept => numberFreeCluster = FreeClusterCount

(* What makes the two above hold from call to call: no two entries hold    *)
(* the same cluster, no entry holds a free one, and the clusters that      *)
(* chains start at are allocated, distinct and in no entry.                *)
Heads == ({start[f] : f \in Files} \ {CLUSTER_FREE}) \cup abandoned

LinksInjective ==
  \A c, d \in Clusters : (fat[c] \in Clusters /\ fat[c] = fat[d]) => c = d

LinksAllocated ==
  \A c \in Clusters : fat[c] \in Clusters => fat[fat[c]] # CLUSTER_FREE

HeadsDistinct ==
  \A f, g \in Files : start[f] # CLUSTER_FREE =>
    /\ start[f] \notin abandoned
    /\ f # g => start[f] # start[g]

HeadsUnlinked ==
  \A h \in Heads : fat[h] # CLUSTER_FREE /\ \A c \in Clusters : fat[c] # h

LinkStructure ==
  LinksInjective /\ LinksAllocated /\ HeadsDistinct /\ HeadsUnlinked

(* linkFreeCluster reports a full disc only when there is no free cluster, *)
(* wherever the hint stands, or to a file whose chain already leads past   *)
(* the end of the table (file_allocation_table.c:230).                     *)
NoSpaceOnlyWhenFull ==
  [][result' = "noSpace" => FreeClusters = {} \/ PastLinks # {}]_vars

(* A link takes a free cluster as long as there is one.  The entry past    *)
(* the end, where a search that failed leaves the hint, is taken only when *)
(* every cluster is still in use: whatever was released since has moved    *)
(* the hint back.                                                          *)
LinkTakesFreeCluster ==
  [][(result' = "linked" /\ FreeClusters # {}) => firstFree' \in FreeClusters]_vars

(* One call changes the chain of one file at most. *)
OtherChainsUntouched ==
  [][\A f, g \in Files :
       (f # g /\ FileChain(f)' # FileChain(f)) => FileChain(g)' = FileChain(g)]_vars
=============================================================================

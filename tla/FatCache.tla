------------------------------ MODULE FatCache ------------------------------
(***************************************************************************)
(* The page cache between the file system and the disc:                    *)
(* libefs/source/cache.c.                                                  *)
(*                                                                         *)
(* A page holds sectorsPerPage consecutive sectors, fewer at the end of    *)
(* the partition.  The sector and count of a fat_cache_entry are the first *)
(* element and the size of the domain of data; the entry is free when the  *)
(* domain is empty.  A call that spans pages is a sequence of actions, one *)
(* for each turn of its loop, as each may fail after the ones before it    *)
(* took effect.                                                            *)
(*                                                                         *)
(* The disc is what the FILE of disc.c holds.  A write of a page fails     *)
(* after some of its sectors, and what is at the place where it stopped    *)
(* may no longer be readable (disc.c chains the sectors of a block, and    *)
(* writes them one by one); a read that fails has filled the start of the  *)
(* buffer.  Junk stands for either.                                        *)
(***************************************************************************)
EXTENDS Integers, FiniteSets

CONSTANTS
  NumPages,        (* numberOfPages                                        *)
  SectorsPerPage,  (* sectorsPerPage                                       *)
  EndOfPartition,  (* endOfPartition                                       *)
  Used,            (* the sectors that callers read and write              *)
  Parts,           (* the pieces of a sector that callers write separately *)
  Values,          (* what a piece may hold, 0 being the erased value      *)
  Junk,            (* what failed reads and writes leave behind            *)
  AccessModulus,   (* 2^32, where the access counter wraps                 *)
  ReadFaults,      (* TRUE if reads of the disc may fail                   *)
  WriteFaults      (* TRUE if writes to the disc may fail                  *)

ASSUME NumPagesAssumption == NumPages \in Nat /\ NumPages >= 2
ASSUME SectorsPerPageAssumption == SectorsPerPage \in Nat /\ SectorsPerPage >= 1
ASSUME EndOfPartitionAssumption == EndOfPartition \in Nat /\ EndOfPartition >= 1
ASSUME UsedAssumption == Used \subseteq 0 .. EndOfPartition - 1
ASSUME ValuesAssumption == 0 \in Values /\ Junk \in Values
ASSUME AccessModulusAssumption == AccessModulus \in Nat /\ AccessModulus >= 1
ASSUME FaultsAssumption == ReadFaults \in BOOLEAN /\ WriteFaults \in BOOLEAN

Pages == 0 .. NumPages - 1
Sectors == 0 .. EndOfPartition - 1
Contents == [Parts -> Values]
Erased == [p \in Parts |-> 0]
JunkContent == [p \in Parts |-> Junk]

(* The base sector of the page of s, and the sectors of that page. *)
Base(s) == (s \div SectorsPerPage) * SectorsPerPage
PageSectors(s) == {x \in Sectors : Base(x) = Base(s)}

VARIABLES
  disc,           (* the sectors on the disc                               *)
  page,           (* cacheEntries                                          *)
  accessCounter,  (* the counter behind accessTime()                       *)
  reply,          (* what the last call returned                           *)
  unsynced        (* the sectors written, or spoilt on the disc, since the *)
                  (* last complete flush                                   *)

vars == <<disc, page, accessCounter, reply, unsynced>>

(* What a page may hold: nothing, or an aligned run of sectors that is     *)
(* whole but at the end of the partition.                                  *)
PageSets == {{}} \cup {PageSectors(s) : s \in Sectors}

Entry ==
  [data : UNION {[S -> Contents] : S \in PageSets},
   last_access : 0 .. AccessModulus - 1,
   dirty : BOOLEAN]

Reply ==
  [kind : {"none", "flushed", "error", "invalidated"}]
    \cup [kind : {"data"}, sector : Sectors, data : Contents]
    \cup [kind : {"written", "erased"}, sectors : SUBSET Sectors, parts : SUBSET Parts]

TypeOK ==
  /\ disc \in [Sectors -> Contents]
  /\ page \in [Pages -> Entry]
  /\ accessCounter \in 0 .. AccessModulus - 1
  /\ reply \in Reply
  /\ unsynced \in SUBSET Sectors

-----------------------------------------------------------------------------
(* fat_cache_getPage(s) *)

Held(i) == DOMAIN page[i].data
IsFree(i) == Held(i) = {}

(* The page to replace: the first free one, or else the first of those     *)
(* with the least access time.                                             *)
IsVictim(i) ==
  \/ IsFree(i) /\ \A j \in Pages : j < i => ~IsFree(j)
  \/ /\ \A j \in Pages : ~IsFree(j)
     /\ \A j \in Pages : /\ page[i].last_access <= page[j].last_access
                         /\ j < i => page[i].last_access < page[j].last_access

(* Plausible mistakes in the search: the first sector of a page is not     *)
(* found in it, and (below) the page to replace is not written.            *)
IsTarget_AfterBase(i, s) ==
  \/ s # Base(s) /\ s \in Held(i) /\ \A j \in Pages : j < i => s \notin Held(j)
  \/ (s = Base(s) \/ \A j \in Pages : s \notin Held(j)) /\ IsVictim(i)

(* The page that getPage(s) works on. *)
IsTarget(i, s) ==
  \/ s \in Held(i) /\ \A j \in Pages : j < i => s \notin Held(j)
  \/ (\A j \in Pages : s \notin Held(j)) /\ IsVictim(i)

MustWriteBack_OnlyIfFree(i, s) == s \notin Held(i) /\ IsFree(i) /\ page[i].dirty
MustWriteBack(i, s) == s \notin Held(i) /\ ~IsFree(i) /\ page[i].dirty

(* The disc with the sectors S of page i written to it. *)
Written(i, S) == [x \in Sectors |-> IF x \in S \cap Held(i) THEN page[i].data[x] ELSE disc[x]]

DiscAfter(i, s) == Written(i, IF MustWriteBack(i, s) THEN Held(i) ELSE {})

accessTime == (accessCounter + 1) % AccessModulus

(* A mistake: the base of the page is not aligned. *)
Fetched_Unaligned(i, s) ==
  IF s \in Held(i)
  THEN [page[i] EXCEPT !.last_access = accessTime]
  ELSE [data |-> [x \in {y \in Sectors : s <= y /\ y < s + SectorsPerPage} |-> DiscAfter(i, s)[x]],
        last_access |-> accessTime,
        dirty |-> IF IsFree(i) THEN page[i].dirty ELSE FALSE]

(* The page once it holds s. *)
Fetched(i, s) ==
  IF s \in Held(i)
  THEN [page[i] EXCEPT !.last_access = accessTime]
  ELSE [data |-> [x \in PageSectors(s) |-> DiscAfter(i, s)[x]],
        last_access |-> accessTime,
        dirty |-> IF IsFree(i) THEN page[i].dirty ELSE FALSE]

(* getPage(s) gives page i, which the caller leaves as entry. *)
GetPage(i, s, entry) ==
  /\ IsTarget(i, s)
  /\ disc' = DiscAfter(i, s)
  /\ accessCounter' = accessTime
  /\ page' = [page EXCEPT ![i] = entry]

(* The disc d when a write of page i has failed at one of its sectors:     *)
(* those before are written, those in T, that one or none, are spoilt.     *)
TornWrite(d, i, at, T) ==
  [x \in Sectors |-> IF x \in T THEN JunkContent
                     ELSE IF x \in Held(i) /\ x < at THEN page[i].data[x]
                     ELSE d[x]]

(* The dirty victim cannot be written: the page stays, and stays dirty.    *)
GetPageWriteFault(s) ==
  \E i \in Pages : \E at \in Held(i), T \in SUBSET Held(i) :
    /\ WriteFaults
    /\ T \subseteq {at}
    /\ IsTarget(i, s) /\ MustWriteBack(i, s)
    /\ disc' = TornWrite(disc, i, at, T)
    /\ unsynced' = unsynced \cup T
    /\ reply' = [kind |-> "error"]
    /\ UNCHANGED <<page, accessCounter>>

(* The first k of the sectors S of a page. *)
FirstOf(S, k) == {x \in S : x - Base(x) < k}

(* The page's sectors cannot be read: the victim was written if need be,   *)
(* and its buffer has been read into, but its sector and count stay.       *)
GetPageReadFault(s) ==
  \E i \in Pages, k \in 0 .. SectorsPerPage :
    /\ ReadFaults
    /\ IsTarget(i, s) /\ s \notin Held(i)
    /\ disc' = DiscAfter(i, s)
    /\ page' = [page EXCEPT
                  ![i].data = [x \in Held(i) |-> IF x \in FirstOf(Held(i), k)
                                                 THEN JunkContent ELSE page[i].data[x]],
                  ![i].dirty = IF IsFree(i) THEN @ ELSE FALSE]
    /\ reply' = [kind |-> "error"]
    /\ UNCHANGED <<accessCounter, unsynced>>

-----------------------------------------------------------------------------
(* The calls. *)

(* One turn of fat_cache_readSectors, or fat_cache_readPartialSector. *)
Read(s) ==
  \E i \in Pages :
    LET entry == Fetched(i, s) IN
    /\ GetPage(i, s, entry)
    /\ reply' = [kind |-> "data", sector |-> s, data |-> entry.data[s]]
    /\ UNCHANGED unsynced

(* A mistake: the page is not marked. *)
Overwrite_NotDirty(i, s, new) ==
  LET entry == Fetched(i, s) IN
  /\ GetPage(i, s, [entry EXCEPT
                      !.data = [x \in DOMAIN entry.data |->
                                  IF x \in DOMAIN new THEN new[x] ELSE entry.data[x]]])
  /\ unsynced' = unsynced \cup DOMAIN new

(* The page of s is brought in, the sectors in DOMAIN new are overwritten  *)
(* in it, and it is marked dirty.                                          *)
Overwrite(i, s, new) ==
  LET entry == Fetched(i, s) IN
  /\ GetPage(i, s, [entry EXCEPT
                      !.data = [x \in DOMAIN entry.data |->
                                  IF x \in DOMAIN new THEN new[x] ELSE entry.data[x]],
                      !.dirty = TRUE])
  /\ unsynced' = unsynced \cup DOMAIN new

(* A mistake: the partial write erases the rest of the sector. *)
WritePartialSector_Erases(s) ==
  \E i \in Pages, P \in SUBSET Parts : \E buffer \in [P -> Values] :
    /\ Overwrite(i, s, [x \in {s} |-> [p \in Parts |-> IF p \in P THEN buffer[p] ELSE 0]])
    /\ reply' = [kind |-> "written", sectors |-> {s}, parts |-> P]

(* fat_cache_writePartialSector *)
WritePartialSector(s) ==
  \E i \in Pages, P \in SUBSET Parts : \E buffer \in [P -> Values] :
    LET old == Fetched(i, s).data[s] IN
    /\ Overwrite(i, s, [x \in {s} |-> [p \in Parts |-> IF p \in P THEN buffer[p] ELSE old[p]]])
    /\ reply' = [kind |-> "written", sectors |-> {s}, parts |-> P]

(* fat_cache_eraseWritePartialSector *)
EraseWritePartialSector(s) ==
  \E i \in Pages, P \in SUBSET Parts : \E buffer \in [P -> Values] :
    /\ Overwrite(i, s, [x \in {s} |-> [p \in Parts |-> IF p \in P THEN buffer[p] ELSE 0]])
    /\ reply' = [kind |-> "erased", sectors |-> {s}, parts |-> P]

(* One turn of fat_cache_writeSectors: as much of the run as the page has. *)
WriteSectors(s) ==
  \E i \in Pages, last \in PageSectors(s) \cap Used :
    \E buffer \in [s .. last -> Contents] :
      /\ s <= last
      /\ Overwrite(i, s, buffer)
      /\ reply' = [kind |-> "written", sectors |-> s .. last, parts |-> Parts]

DirtyHolders(x) == {i \in Pages : page[i].dirty /\ x \in Held(i)}

(* A mistake: the loop starts at the second page. *)
Flushed_SkipsFirst(P) ==
  [x \in Sectors |->
     LET W == (DirtyHolders(x) \cap P) \ {0}
     IN  IF W = {} THEN disc[x]
         ELSE page[CHOOSE i \in W : \A j \in W : j <= i].data[x]]

(* The dirty pages among P written out in the order of the loop, so that   *)
(* the last of the pages that hold a sector leaves its content.            *)
Flushed(P) ==
  [x \in Sectors |->
     LET W == DirtyHolders(x) \cap P
     IN  IF W = {} THEN disc[x]
         ELSE page[CHOOSE i \in W : \A j \in W : j <= i].data[x]]

Cleaned(P) ==
  [i \in Pages |-> IF i \in P THEN [page[i] EXCEPT !.dirty = FALSE] ELSE page[i]]

(* fat_cache_flush *)
Flush ==
  /\ disc' = Flushed(Pages)
  /\ page' = Cleaned(Pages)
  /\ reply' = [kind |-> "flushed"]
  /\ unsynced' = {}
  /\ UNCHANGED accessCounter

(* The disc when flush has failed on page i. *)
PartlyFlushed(i, at, T) == TornWrite(Flushed(0 .. i - 1), i, at, T)

FlushFault ==
  \E i \in Pages : \E at \in Held(i), T \in SUBSET Held(i) :
    /\ WriteFaults
    /\ T \subseteq {at}
    /\ page[i].dirty
    /\ disc' = PartlyFlushed(i, at, T)
    /\ page' = Cleaned(0 .. i - 1)
    /\ unsynced' = unsynced \cup T
    /\ reply' = [kind |-> "error"]
    /\ UNCHANGED accessCounter

NoPage == [data |-> [x \in {} |-> Erased], last_access |-> 0, dirty |-> FALSE]

Emptied ==
  /\ page' = [i \in Pages |-> NoPage]
  /\ reply' = [kind |-> "invalidated"]
  /\ unsynced' = {}
  /\ UNCHANGED accessCounter

(* fat_cache_invalidate; fat_cache_destructor and a new cache come to the  *)
(* same.  Neither looks at the outcome of the flush.                       *)
Invalidate ==
  /\ Emptied
  /\ \/ disc' = Flushed(Pages)
     \/ \E i \in Pages : \E at \in Held(i), T \in SUBSET Held(i) :
          /\ WriteFaults
          /\ T \subseteq {at}
          /\ page[i].dirty
          /\ disc' = PartlyFlushed(i, at, T)

(* The program exits without unmounting, and is run again. *)
Exit ==
  /\ page' = [i \in Pages |-> NoPage]
  /\ accessCounter' = 0
  /\ reply' = [kind |-> "none"]
  /\ unsynced' = {}
  /\ UNCHANGED disc

(* fat_cache_constructor, for a disc of the given content. *)
InitWith(d) ==
  /\ disc = d
  /\ page = [i \in Pages |-> NoPage]
  /\ accessCounter = 0
  /\ reply = [kind |-> "none"]
  /\ unsynced = {}

Init == InitWith([s \in Sectors |-> Erased])

Next ==
  \/ \E s \in Used :
       \/ Read(s)
       \/ WritePartialSector(s)
       \/ EraseWritePartialSector(s)
       \/ WriteSectors(s)
       \/ GetPageWriteFault(s)
       \/ GetPageReadFault(s)
  \/ Flush
  \/ FlushFault
  \/ Invalidate
  \/ Exit

Spec == Init /\ [][Next]_vars

-----------------------------------------------------------------------------
(* Properties. *)

(* The content the code above sees: the page's, or the disc's. *)
View(d, pg) ==
  [x \in Sectors |->
     LET H == {i \in Pages : x \in DOMAIN pg[i].data}
     IN  IF H = {} THEN d[x] ELSE pg[CHOOSE i \in H : TRUE].data[x]]

Logical == View(disc, page)

(* No sector is in two pages, whichever pages were replaced, and a free    *)
(* page has nothing to be written.                                         *)
Coherent ==
  /\ \A i, j \in Pages : i # j => Held(i) \cap Held(j) = {}
  /\ \A i \in Pages : IsFree(i) => ~page[i].dirty

(* Replacing a page that is not dirty loses nothing. *)
CleanPagesMatchDisc ==
  \A i \in Pages : ~page[i].dirty => \A x \in Held(i) : page[i].data[x] = disc[x]

(* What was written before a flush that succeeded is on the disc, and      *)
(* stays there whatever is replaced later and whatever fails, but for the  *)
(* one sector that a write stopped at, until the next flush.               *)
SyncedIsDurable == \A x \in Sectors \ unsynced : disc[x] = Logical[x]

(* The cache implements the store of sectors. *)
Store == INSTANCE SectorStore WITH content <- Logical, durable <- disc
StoreSpec == Store!Spec

(* What a failed call spoils in memory is on the disc when it returns:     *)
(* no failure takes the only copy of a write.  What becomes of it later is *)
(* another matter.  A read that fails leaves junk under the old label of   *)
(* a clean page (cache.c:162); a partial write to that page makes it dirty *)
(* and the flush after it puts the junk on the disc.                       *)
FailureKeepsACopy ==
  [][reply'.kind = "error" =>
       \A x \in Sectors : Logical'[x] = Logical[x] \/ disc'[x] = Logical[x]]_vars
=============================================================================

# Verification of ctgp-tools

TLA+ models of the code in this repository, model-checked with TLC and, where
said, proved with TLAPS. They cover `src/libefs`, the FAT file system library
over encrypted disc images, from its directories down to the image file, and the
updater in `src/updater`. What is left out is under "Not modelled".

Run a check with `tlc -workers 2 -config <X>.cfg <module>` and the proofs with
`tlapm <module>.tla`. `PROJECT.json` lists the runs, the source lines each
definition stands for, the mutants each property is known to catch, the hazards
and the findings.

## 1. Inventory

| Part | Source | State it keeps | Operations |
|---|---|---|---|
| File allocation table | `libefs/source/file_allocation_table.c` | the entries on the disc; `firstFree`, `numberFreeCluster`, `numberLastAllocCluster` in memory | nextCluster, writeFatEntry, linkFreeCluster(Cleared), clearLinks, trimChain, lastCluster, freeClusterCount |
| Page cache | `cache.c` | `cacheEntries` (sector, count, last_access, dirty, data), a global `accessCounter` | getPage, read/write (partial) sectors, eraseWrite, flush, invalidate, destructor |
| Encrypted disc | `disc.c` | the FILE with its position and buffer, `disc->sector`, the CBC vector | create, readSectors, writeSectors, extend (always refuses), destroy |
| Partition | `partition.c` | `labels[]`, geometry, the list of open files, the FSInfo counters | mount, unmount, read/create/write FSInfo |
| Open files | `fatfile.c` | start cluster, size, positions (cluster, sector, byte), flags | open, close, read, write, seek, truncate, sync |
| Directory operations | `fatdir.c` | the state of an iteration | unlink, rmdir, rename, mkdir, chdir, opendir, dirnext, closedir |
| Directory entries | `directory.c` | the 32-byte slots on the disc | find, add, remove, extend, long names, aliases |
| Updater | `updater/ctgp-dif-better`, `updater/dif.py` | cursors into the older files and the output; the older files in memory | the commands of the difference format, the loop over the entries of an archive |
| efstool | `efstool/efstool.c` | option counts and lists | an argument parser; nothing is done with the arguments yet |
| Yaz0 compressor, earlier updaters, scripts, hooks and dumps, lists | `updater/`, `scripts/`, `old-hacks/`, `docs/` | - | one-shot conversions and listings |

**How they interact.** Only by calls, downwards: files and directories call the
table for clusters and the cache for data and entries; the table reads and writes
its entries through the cache; the cache reads and writes whole pages of 64
sectors through the disc layer, which is one AES-CBC chain per 64 sectors. Three
things go around: the partition writes the FSInfo sector straight to the disc
layer, past the cache (`partition.c:379`, `:475`); open files hold copies of
cluster numbers that the table does not know of; and they hold the place of their
directory entry, which the directory does not know of. The updater is a program
of its own; its entries interact through the files that they make.

**Concurrency.** There is none: `lock.c` is empty and every call runs to its end
in the caller's thread. The interleavings that matter are those of *calls*: of
several files on one table, of changes to a directory between the steps of an
iteration, of several pages in one cache, of requests on one retained cipher
context. A call is one action where nothing can happen inside of it; where part
of it can take effect and the rest fail, or the program can be killed, each turn
of its loop or each request is an action.

**Failure.** Reads and writes of the image can fail in the middle; most callers
ignore it. The program can exit without unmounting or be killed; nothing is
journalled.

**What makes each part right**

* Table: no cluster in two chains, none lost, chains end, the count of free
  clusters is exact as far as it is kept, allocation takes a free cluster whenever
  there is one.
* Cache: the code above sees a plain array of sectors, whatever is replaced; what
  a flush reported as written is on the disc and stays there.
* Disc: despite the chaining and the retained context, requests read and write
  sectors, and only those asked for.
* A transfer: every byte goes to its place, the position follows, the call ends.
* Files: contents as an array of bytes, whatever clusters they are in.
* Directories: a set of entries in which a name or alias means one of them.
* Partition: flushed data survives exits and unmounts; FSInfo is rewritten.
* Updater: the interpreters agree with the format; damage does not spread.

## 2. Modules

    FatTable     <- FatTableProofs      MCFatTable
    FatTransfer  <- FatTransferProofs   MCFatTransfer
    FatFile      => ByteFile            MCFatFile
                 <- FatFileProofs
    Directory    => NameList            MCDirectory
                 <- DirectoryProofs
    FatCache     => SectorStore         MCFatCache
                 <- FatCacheProofs
    EfsBlocks
    EfsDisc      => PageDisc            MCEfsDisc
                 <- EfsProofs
    EfsVolume    <- EfsProofs           MCEfsVolume
    Dif          => DifFormat, twice    MCDif
                 <- DifProofs
    Update       <- UpdateProofs        MCUpdate

`A => B`: A is shown to implement B. `A <- P`: P proves theorems about A.
EfsDisc and EfsVolume both extend EfsBlocks, and EfsProofs is about both, as their
proofs rest on the same lemmas about EfsBlocks; that is why the specification of
EfsDisc, and what it consists of, have names that begin with `Request`.
PageDisc is what FatCache takes the disc to be, so SectorStore, FatCache,
PageDisc and EfsDisc are a stack from "an array of sectors with a flush" down to
the encrypted file. FatFile takes from FatTable that an allocation gives a free
cluster and from FatTransfer that a call moves the bytes it says to where they
belong.

### FatTable

`fat` maps each cluster to its entry: a cluster, `CLUSTER_FREE`, `CLUSTER_EOF`, or
`lastCluster + 1` (which the code can write, see the findings). `firstFree` and
`numberFreeCluster` are the fields of the same names; `numberLastAllocCluster`,
which nothing reads, is left out. `start[f]` is the first cluster that the file or
directory `f` has in its handle or entry. `abandoned` collects the clusters that
mkdir takes and, when there is no room for the entry, never returns
(`fatdir.c:436`).

One action per use of the table: `Create` (first cluster of a file or
directory), `CreateWithoutEntry` (the failing mkdir), `Extend` (linkFreeCluster on
the last cluster), `Remove` (clearLinks), `Shrink` (trimChain). A loop
along a chain is the set `Walk(table, cluster)` of the clusters it visits, defined
as the least set closed under links: a definition without recursion, which the
proofs can use and which is also right where a chain is damaged. The search of
linkFreeCluster is a predicate on the cluster it stops at, with the wrap-around
and the hint one past the end that a failed search leaves.

The count of a FAT32 volume goes through its FSInfo sector, which the partition
reads and writes past the cache. `infoSector` is the count in the sector, `infoPage`
the one in the copy that came into the cache with its neighbours. `Remount` writes the
count and then flushes the cache, which puts the copy back if its page is dirty, so
the next mount may find either; `ExitAndMount` has no unmount before it, so the sector
is as it was; `LoadPage` and `FlushPage` bring the page in and write it back in
between. A mount that finds no count, or 0, counts the free clusters. `countKept` is
history: that the count in memory goes back, through every sector it was read from,
to such a count, and that no chain past the end was released since.

`PastEnd` is what the entry after the last cluster's reads as. A table is padded
to whole sectors, normally with zeros, so `CLUSTER_FREE` is the usual value, and the
one that `fat_table` runs; on a volume whose clusters fill the table exactly it is
whatever follows it. The proofs are for both. With zeros, a call on a full disc whose
hint stands past the end returns the number past the end, and the comment at
`file_allocation_table.c:214`-`:219` is wrong: LinkTakesFreeCluster, ChainsTerminated
and NoSpaceOnlyWhenFull say what is right nevertheless.
`ReadFaults` lets nextCluster miss its entry, which it then takes for free.

Not in the model: the packing of entries into 12, 16 or 32 bits; writes of
entries that fail; positions in the files (FatFile has them): `Extend` starts
from the end of the file's own chain.

### FatCache and SectorStore

`page[i]` is a `fat_cache_entry`: its sector and count are the first element and
the size of the domain of `data`; `disc` is the file of the image. `unsynced` and
`reply` are history: the sectors written or spoilt since the last complete flush,
and the answer to the last call. getPage is spread over `IsTarget` (the hit, or
else the first free or least recently used page), `MustWriteBack`, `DiscAfter`
and `Fetched`, put together in `GetPage`; its two failures are actions of their
own. The calls are `Read`, `WritePartialSector`, `EraseWritePartialSector`,
`WriteSectors`, `Flush`, `FlushFault`, `Invalidate` (which is also what the
destructor does) and `Exit`. A sector has `Parts`, which a partial write may or
may not touch; with one part, a write of no part stands for a write to bytes that
the reader does not look at.

`SectorStore` is the promise: reads return what was last written; a failed call
changes nothing that is read; what is on the disc is, sector by sector, an older
or the current content; after a flush it is the current one. A write that fails
spoils at most one sector of the disc, and that one counts as unsynced.
`FatCache` implements it under the mapping content = the page's copy or else the
disc's, durable = the disc.

That holds while reads do not fail. A read that fails leaves junk under the old label
of a clean page. `FailureKeepsACopy` says of such failures only that, when the call
returns, the disc still has what memory has lost; a later partial write to the page
makes the junk dirty, and the next flush writes it.

### EfsBlocks, EfsDisc and PageDisc

EfsBlocks has the state of the encrypted disc and what a request does to it; EfsDisc
is the disc on its own, EfsVolume the disc below a cache. A sector on the disc is a
record of the plain text, the vector it was encrypted with, and the tail that the
next sector is chained to. Decrypting with another vector gives `Garbled` (the first
16 bytes are wrong). `ctx` is `disc->sector` with the vector in the AES context,
`pos` the position of the FILE; a request that neither starts a block nor differs
from `disc->sector` does not seek. `cells` is the file as the program sees it and
`stored` the file without what is still in the FILE's buffer. Reads and writes that
fail stop anywhere. `PageDisc` is an array of sectors whose failing writes spoil at
most one sector, and which loses at most a buffer's worth when the program is
killed.

The cipher is taken to be ideal (different texts or vectors give different
tails), and requests stay within a block, as all those of the library do: pages
are whole blocks and everything else is one sector. EfsDisc by itself takes the
requests of the cache; EfsVolume adds the others.

### EfsVolume

The cache over the disc, with every request a step of its own, so that the
program can be killed between any two. `call` is what is left of the current
operation. A cache miss is `WriteBack`, if the victim is dirty, then `Fetch`, then
the call proper (`Read`, `Write`); a flush goes page by page; mounting is
`ReadBoot`, `ReadFSinfo` and, if there is no valid FSInfo sector, the count of the
free clusters through the cache and `CreateFSinfo`; unmounting is `UnmountReads`,
`UnmountWrites`, a flush whose outcome nobody looks at, and `CloseDisc`. `lastUse`
ranks the pages by their access times (0 for a page not yet used), so the victim
is a page of the least rank. `promised` is history: for each
sector the values that it may have on the disc if nothing is lost.

The disc never fails here except for its refusal to write the last sector, which
the code always makes; FatCache and EfsDisc have the other faults.

### FatTransfer

One call of `efs_read`, `efs_write` or `fat_file_extend_r`, phase by phase:
`AlignToSector`, `AlignToCluster`, `Advance` (the check for the next cluster),
whole clusters (for a write in groups that follow each other on the disc), `Rest`
and `Last`. `position`, `remain` and `group` are the locals of the same names.
The content is abstracted to places: `moved` records where on the volume each
byte counted went to or came from, `erased` what was overwritten with zeros. A request
for whole sectors or clusters that fails ends the call (`Fail`). The code does not
look at the outcome of a request for a part of a sector, nor at those of an extension
(`fatfile.c:528`, `:639`, `:739`, `:747`, `:771`, `:1003`-`:1011`): it counts
their bytes as moved (`Lose`), which are then `Nowhere`. So a call that reports its
full length may have lost bytes; `CountedBytesMoved` says which. `Init` ranges
over the positions that an earlier call may have left, both ways of standing at a
border included. `ReadsAtBorder` admits the one combination that the code gets
wrong (finding 1).

### FatFile and ByteFile

`entry[f]` is the start cluster and size in the directory entry, `handle[f]` the
`fat_file`. A position is a cluster and an offset in it, the flag `sector ==
sectorsPerCluster` being the offset `bytesPerCluster`. Actions: `Open` (creation and
`O_TRUNC` included), `Read`, `Write`, `Seek`, `Truncate`, `Fsync`, `Close`, `Unlink`,
`Unmount`. Each takes any free clusters, as many as there are. `ByteFile` is a set
of files as sequences of bytes with a mode, a place and a reply; the mapping reads
the bytes through the chains. There is one handle for each file: two would each
keep a size and a start cluster, which the code does not reconcile.

`Rules` are what clients have to see to, because the code does not. Each is named
for what goes wrong without it:

* `cut`: no file is cut at the border of the cluster that its handle stands at
  (finding 2);
* `gap`: while a handle stands past the end of its file, only a write there makes
  the file grow. `efs_ftruncate` restores an rwPosition that does not stand for
  currentPosition then (`fatfile.c:1222`, `:1258`-`:1262`);
* `room`: no gap is left that the free clusters cannot fill. The size is set
  whether or not the extension worked (`fatfile.c:1262`), and a write after a failed
  one goes on from where it stopped (`:717`);
* `border`: no read takes less than a sector from a position with the flag
  (finding 1). A seek to where the handle stands does away with the flag, if there is
  a next cluster to go on to.

With all four, the files are files of bytes. Without `gap`, `PositionsInFile` is
violated, without `room` `ClustersAccounted`, without `border` `FileSpec`, and without
`cut` `WritesStayInFile`, which is `fat_file_cut`.

### Directory and NameList

`slots` is the row: `Last`, `Free`, `Volume`, parts of long names, and aliases with
the file and its data. A scan is defined by the slots it gets to (`AliasesAfter`,
`LongStarts`, `EntryAt`), `FindEntryGap` by the runs of free slots and the end of
the row, `NewAliases` by the first alias of `Candidates` that is not taken.
`handle[f]` is `dirEntryEnd`, `iter` the `fat_dir_state` with the entry that it has
already fetched. `Images` are the directories a mounted image may have, one with old
entries behind its end among them; `ImagesAssumption` is that up to the end every
slot of a long name belongs to an entry and no two entries answer to one name
(`InOrder`), which is how other systems leave a directory. `NameList` is a set of
entries, of which no two answer to one name, with creation, renaming, removal and
synchronization, and with the error that a call reports.

`error` is that of the call. ENOSPC leaves the entries as they were. EIO does not:
`fat_directory_removeEntry` goes on to the next slot after it has freed the last one of
the entry, and returns false if there is none (`directory.c:706`-`:727`), so that
unlink and rename fail though they are done (`fatdir.c:169`, `:329`).
`RemovalReports` has when.

`KeepsOpen` is a rule for clients again: none removes or renames an open file. The
code does not look, and the handle goes on writing to a slot that may by then be
another file's, although `fatfile.h:58` says "Always points to the file's alias
entry".

### Dif, DifFormat and Update

`Dif` has both interpreters of the commands: `ProcessDif` of `dif.cpp`, with its
numbers of one to three bytes, its cursors for the text and the older files, and
copies that overlap what they write; and `dif.py`, which knows fewer commands and
keeps its cursor one ahead. `DifFormat` says what a command means, with one cursor
for each source and a number system in which longer numbers begin where shorter
ones end. Each interpreter is shown to implement it under a mapping of its own.

`Update` is the loop of `dia.cpp`: opening the older files, skipping, making
directories, emptying the output, writing it and going on. A process may be
killed, calls may fail, and it is started again with `--skip` and the number of
entries done.

## 3. What the runs check

| Run | Checks | Shows |
|---|---|---|
| `fat_table` | TypeOK, NoCrossLinks, NoLostClusters, ChainsTerminated, FreeCountExact, NoSpaceOnlyWhenFull, LinkTakesFreeCluster, OtherChainsUntouched | With zeros behind the table, which read as a free entry, the allocator is right under every order of calls, also on a full disc and after it, and the count is exact for as long as FSInfo keeps it |
| `fat_cache` | TypeOK, Coherent, CleanPagesMatchDisc, SyncedIsDurable, StoreSpec | With writes that fail, torn flushes, invalidations and exits, the cache implements the store |
| `fat_cache_read_faults` | FailureKeepsACopy | With reads that fail as well, what a failed call spoils in memory the disc has when it returns |
| `efs_disc` | PageSpec | Whole pages over the chained and buffered file, with faults and kills, are an array of sectors |
| `efs_volume` | TypeOK, FlushedIsKept, KillLosesLittle, UnmountKeeps | What was flushed stays in the file, but for a buffer's worth when the program is killed; unmounting loses writes only if the last page was written to |
| `fat_transfer` | TypeOK, BytesInPlace, PositionFollows, CountedBytesMoved, NoOverAllocation, ErasesNothingOfTheFile, Returns | Whatever the geometry, the clusters and the faults, every byte that is moved goes to its place, the position follows the count, and the call returns; which bytes may be counted and not moved |
| `fat_transfer_border` | NothingReadWhileDue | Violated: finding 1 |
| `fat_file` | TypeOK, ClustersAccounted, PositionsInFile, WritesStayInFile, FileSpec | For clients that keep the four rules, files are sequences of bytes, no cluster leaks, and positions stay where they belong |
| `fat_file_cut` | WritesStayInFile | Violated: finding 2 |
| `directory` | TypeOK, ListsThoseWhoStay, UsesTheRoom, EntryOfHandle, DirSpec | The slots are a set of entries, also after calls that report an error; iterations report what stays, once; handles keep their entries |
| `dif` | CppSpec, PythonSpec | Both interpreters do what the format means |
| `update` | DamageIsDownstream, Ends | Failures reach only the entries that build on them; a program that is started ends |

**Bounds.** `fat_table`: four clusters and two files, which with the abandoned
clusters are three owners; that is enough for a chain to be extended across
another one, cut in the middle, for the hint to pass the end and return, and for
links past the end. The cap of the count, 5, is above the number of clusters.
`fat_cache`: two pages of memory for three pages of sectors, the last one short,
so that every page can be replaced by every other; three sectors are used, two of
them neighbours across a page border, and states where more than `MaxWritten` = 2
sectors hold data are not expanded. `AccessModulus` stands for 2^32; at 2 the
counter wraps all the time, so every choice of the victim occurs, those of the
true counter among them. `Junk` is one of the values, as a spoilt sector can look
like anything. `efs_disc`: blocks of two sectors, two and a half of them (the
last, short one is refused by every write). `efs_volume`: blocks of four sectors,
two and a quarter, so that the FSInfo sector, the one it spoils and a table sector
that is written share a block with the boot sector; two pages of memory; one
sector in each page is written; a buffer of one sector.

`fat_transfer`: four clusters, three geometries of bytes per sector and sectors per
cluster, calls of up to 12 bytes; a call then goes through every phase, over groups
of clusters that do and do not follow each other on the disc. `fat_file`: two files,
two clusters of two bytes, one open file at a time (with two the states are too many
for minutes; the proofs are for any number), seeks up to 5, calls of up to 3 bytes:
a file can take the whole disc, the other one can get the clusters it drops, and
every size is inside, at or past a border. `directory`: six slots for four names, of
one, two and three slots, two of which want the same aliases. `dif`: four commands,
a text of 24 bytes, bytes of two values, one older file; the third command can
overlap what the second made of the first, and numbers of up to three bytes occur.
`update`: six entries that build on each other, one of which is its own older file
twice; two kills and two faults.

**Fairness and liveness.** The library makes no progress on its own, so most
specifications have no fairness. FatTransfer assumes weak fairness of its next
step, for a call runs in the caller's thread until it returns; that it returns
(`Returns`) then says that none of its loops goes on for ever. Update assumes weak
fairness of the steps of the process, not of its being started nor of its being
killed; `Ends` says that no skip or failure has it try the same entry for ever.

**Deadlock** is checked except where the system stops: a call that has returned
(`fat_transfer`, `fat_transfer_border`), a text or a number of commands at its bound
(`dif`), an update that is done (`update`).

## 4. What is proved

In `FatTableProofs`, for every number of clusters, every set of files, every type
of volume, and *both* values of `PastEnd`, assuming that reads of the table do
not fail:

* `Invariance`: `IInv`, i.e. `TypeOK` and `LinkStructure` with what it needs, is
  inductive. `NoCrossLinks` and `NoLostClusters` are not inductive as they stand:
  that two chains do not meet now says nothing of an entry outside the chains that
  leads into one. `LinkStructure` says it locally: no cluster is in two entries,
  no entry leads to a free cluster, and first clusters are in no entry.
* `TypeCorrect`, `ChainsNeverMeet` (NoCrossLinks), `NothingLost`
  (NoLostClusters). That two chains do not meet follows from LinkStructure by
  showing that what is in one chain and not in the other is closed; that nothing
  is lost, because releasing a chain frees exactly its closed set.
* `OneChainAtATime` (OtherChainsUntouched): a chain that a step does not change
  the first entry of stays as it is, because it is closed and the entries that the
  step writes are in another closed set, or in none.
* `ChainInvariance`: `CInv` is inductive. To the above it adds that every chain has
  an end, that the hint stands past the end only while no cluster is free
  (`HintPastEnd`), and FreeCountExact. That a cut leaves every chain an end is not
  local: it takes a count, as injective links that stay in a finite set have no way in.
* `EveryChainEnds` (ChainsTerminated), `CountIsExact` (FreeCountExact),
  `FullOnlyWhenFull` (NoSpaceOnlyWhenFull), `FreeClusterTaken` (LinkTakesFreeCluster,
  from `HintPastEnd`). With these every property of `fat_table` is a theorem.

In `FatCacheProofs`, for every number and size of pages and every size of the
partition, with writes that fail or tear at any point, assuming that reads do not
fail:

* `Invariance`: TypeOK, Coherent, CleanPagesMatchDisc and SyncedIsDurable are
  inductive together. Coherent needs the alignment in TypeOK (a page that is
  brought in must not overlap another), CleanPagesMatchDisc needs Coherent (the
  write of one page must not touch the sectors of another), SyncedIsDurable needs
  both.
* `TypeCorrect`, `NoSectorTwice`, `CleanPagesAreDisposable`, `FlushedStaysOnDisc`.
* `CacheIsInvisible` (StoreSpec): every step of FatCache is a step of SectorStore
  or leaves its variables alone.

And without the assumption on reads, in the last section of the module:

* `SpoiltInvariance`: a read that fails leaves a page which is clean and is not what
  the disc has, so that CleanPagesMatchDisc and StoreSpec are false. What is inductive
  is that a clean page holds, sector by sector, what the disc has or what such a read
  left (`CleanOrSpoilt`), with TypeOK and Coherent. TLC checks this invariant on the
  instance of `fat_cache_read_faults` as well.
* `ACopyIsKept` (FailureKeepsACopy): a call that fails spoils no sector which is in
  memory alone; of later calls it says nothing. With it every property of FatCache's
  runs is a theorem.

In `EfsProofs`, about EfsDisc, for every size of block, disc and buffer (the first
sections are lemmas about the requests of EfsBlocks: what a chain of encrypted
sectors decrypts to, and which cells a read or a write may change):

* `DiscInvariance`: the FILE's buffer holds the end of one run, no longer than the
  buffer, and no sector outside of it is chained to it (`Behind`). Without the last
  part a kill could garble a sector that was on the disc for long; with it a kill
  takes a buffer's worth at most.
* `DiscTypes`, and `DiscIsAnArray` (PageSpec): EfsDisc implements PageDisc.

In `EfsProofs`, about EfsVolume, for every geometry that the assumptions allow and
any writes of callers, where the program may be killed between any two requests:

* `VolumeInvariance`: `IInv` is inductive. `DiscInv` has the type of the disc,
  `Behind`, and `InStep`: the context and the position of the FILE are where
  `disc->sector` says, without which a request that does not seek could garble what
  it writes. `CacheInv` says that no two pages overlap, that a page holds what was
  promised, and that a clean one is what the disc has; `UseInv` that no two pages
  were used at one time; `CallInv` that a flush leaves clean what it has gone over.
  FlushedIsKept needs all but the third: a write back must go to the page's own
  block, be of a page that holds what was promised, and leave the other blocks as
  they are, whatever request it comes after.
* `VolumeTypes` (TypeOK), `FlushedStays` (FlushedIsKept), `KillsLoseLittle`
  (KillLosesLittle), `UnmountingKeeps` (UnmountKeeps).

In `FatTransferProofs`, for every geometry, every number and order of clusters,
every length and start of a call, with faults and a disc that fills up, assuming
that no read of less than a sector begins at the flag (`ReadsAtBorder = FALSE`, as in
the run `fat_transfer`; the other case is finding 1):

* `TransferInvariance`: `IInv` is inductive. `BytesInPlace` says nothing of what
  comes next, so it needs `Phases`: in each phase the position stands for the byte
  that is moved next (`Stands`), and where in its sector and cluster it may be:
  parts of a sector come first and last only, whole clusters begin at sector 0 or at
  the flag, a read with bytes left is not at the flag. `Groups` says that the
  clusters of a group are consecutive, begin at the position, and that the one after
  them, if it is known, is next in the chain. `Thrifty` says that the last cluster of
  the chain has a byte of the file in it, or one moved or in the group, or is the one
  that the next byte goes to.
* `TransferTypes` (TypeOK), `EveryByteInPlace` (BytesInPlace), `PositionKeepsUp`
  (PositionFollows), `CountedIsMoved` (CountedBytesMoved), `NothingLinkedInVain`
  (NoOverAllocation), `EraseSparesTheFile` (ErasesNothingOfTheFile): every safety
  property of the run. `DueIsSeenFirst` (NothingReadWhileDue): the comment that
  finding 1 refutes is right in every other case.

In `DirectoryProofs`, for every size of a directory, all names, parts of names and
aliases, and every image in order, for clients that neither remove nor rename an open
file (`KeepsOpen = TRUE`, as in the run; without it EntryOfHandle is false):

* `DirectoryInvariance`: `IInv` is inductive. None of the properties is inductive by
  itself. A scan takes the name of an entry from the first long slot it meets, so what
  it reads depends on where it starts and on what lies in front of the alias. `Sound`
  makes it independent of both: up to the end of the row, every long slot belongs to
  the long form of one alias, whole and right before it. Then each entry can be read
  at its alias alone (`Read`, ListingIs), and what is written to a gap and freed by a
  removal touches no other entry (`Keeps`; Added, Removed, Renamed, Updated).
  `Distinct` says that no string means two entries and no two entries are one file;
  it needs that an alias is always found, which is a pigeonhole argument on the
  names (NewAliasIs). `HandlesOn` has each handle on its alias, and `IterationIn`
  says of each name that stays whether the entry in hand is before it, at it or
  behind it: an entry that is added in the meantime may be in front or behind, but
  never moves one that stays.
* `DirectoryTypes` (TypeOK), `HandlesKeepTheirEntries` (EntryOfHandle),
  `ThoseWhoStayAreListed` (ListsThoseWhoStay), `TheRoomIsUsed` (UsesTheRoom).
* `DirectoryIsAList` (DirSpec): with the entries read at their aliases, each call is
  a step of NameList or leaves the set of entries alone; the errors reported are
  part of it. With it every property of
  `directory` is a theorem.

In `FatFileProofs`, for any files and clusters, every geometry, any number of open
files and every length of a call, on a disc that may fill up, for clients that keep
the four rules (`RulesKept`: `Rules = {"cut", "gap", "room", "border"}`, as in the run
`fat_file`; without any one of them a property below is false, as section 2 says):

* `FileInvariance`: `IInv` is inductive. Neither ClustersAccounted nor
  PositionsInFile is: what an open handle knows, what the directory entry says and
  what the table links are three accounts of one file, and a call changes them one
  after the other. `IInv` ties them together. `Fits` says that each file has a row of
  different clusters which the table links in that order and ends, that no two rows
  meet and that no other cluster is in use; `FileOK` that the row begins where the
  handle, or the entry of a file that is not open, says, that it is as long as the
  size takes (`Sized`), that the positions of a handle stand in it (`Placed`), and
  that an entry which is behind its handle is one that the handle will still write.
  TLC checks `IInv` on the instance of `fat_file` as well.
* The lemmas about the operators on tables are about rows: a chain that is followed
  from a cluster of a row is the rest of that row (`ChainIs`, `TailIs`), and linking,
  clearing and trimming replace one row (`FitsExtended`, `FitsStarted`, `FitsCleared`,
  `FitsTrimmed`). That following links visits every cluster of a row takes an induction
  over the places in it, which is done by a least counterexample (`LeastExists`), and
  that a row is no longer than the bound of `Chain` a count (`RowIsShort`).
* `FileTypes` (TypeOK), `NoClusterIsLost` (ClustersAccounted), `HandlesStandRight`
  (PositionsInFile), `WritesStay` (WritesStayInFile).
* `FilesAreSequences` (FileSpec): FatFile implements ByteFile. `Effect` says what a
  write, over whatever borders of clusters, with the first cluster linked or the gap
  filled on the way, does to the bytes along the row; `PutIs`, `AppendIs`, `ResizedIs`
  and `PartIs` that this is what `Put`, `\o`, `Resized` and `SubSeq` do to the sequence.
  With it every property of `fat_file` is a theorem.

In `UpdateProofs`, for every archive and any number of faults and kills:

* `UpdateInvariance`: `IInv` is inductive. DamageIsDownstream says nothing of the file
  that is being made, and that is what a second try may depend on: `OwnRight` says that
  an output which is its own older file is still right when it has not been opened, and
  `ReadRight` that what was read is, each for entries that are not affected. TLC checks
  `IInv` on the instance of `update` as well. That there is a last entry before another
  one that makes a file (`LastExists`) is a least counterexample, and that no entry
  behind an affected one is left out (`NoneBehind`) follows from `Affected` being the
  smallest set that is closed under building on one of its entries.
* `DamageStaysDownstream` (DamageIsDownstream).

In `DifProofs`, for every number of values of a byte, any older files and any
commands of a well-formed file, of any number and length:

* The numbers and the loops are functions defined recursively on an interval. That
  there is such a function (`RecursionExists`), and what it gives (`SetInduction`), is
  an induction over sets. It shows that a number whose bytes but the last are counted
  from 1, as the code makes it, is the plain value of its bytes and how many shorter
  numbers there are (`CountedIs`, from `Carries`), and that a loop which reads from what
  it appends to repeats the piece that begins at the cursor (`AppendedIs`,
  `PyAppendedIs`; the next byte is a piece back, `NextOfPiece`).
* `StreamInvariance`: `Streamed`, that the file has all of the text and that a cursor
  is at a byte of the text, is inductive; without it a copy would repeat a piece of no
  bytes. `AgreeInvariance`: so is `Agrees`, that until a command it does not know the
  Python tool has the text of the C++ tool and its cursor one ahead. Without the first
  the second says nothing of a copy. TLC checks both on the instance of `dif` as well,
  up to three commands.
* `CppImplements` (CppSpec) and `PythonImplements` (PythonSpec): each command is a step
  of DifFormat, and one that the Python tool does not know leaves its text alone. With
  them every property of `dif` is a theorem.

That every nonempty set of numbers has a least element (`LeastExists`, in
DirectoryProofs, FatTransferProofs, FatFileProofs, UpdateProofs and DifProofs) follows
from the library's facts about well-founded sets and takes no induction theorem.

Only model-checked: liveness (`Returns`, `Ends`), which is out of reach of the
prover, and what `fat_transfer_border` and `fat_file_cut` refute. Every other
property of every run is a theorem, under the assumptions said above. They rest on
the named assumptions on the constants, which TLC evaluates in the runs.

## 5. Findings

1. `fat_transfer_border`: a write, or a read of all there is, leaves the position
   at the flag of its last cluster. A later read of less than a sector starts with
   that position and reads the sector behind the cluster, which belongs to whatever
   is next on the disc, before it looks for the next cluster (`fatfile.c:526`,
   `:567`).
2. `fat_file_cut`: a truncation to the border of a cluster drops the cluster behind
   it, but a handle that stands at its first byte keeps it, and its next write goes
   into that free cluster (`fatfile.c:1243`).

Met on the way, without a run:

* The FSInfo sector is written past the cache. If its page is dirty when the volume
  is unmounted, the flush that follows puts the old sector back, and the next mount
  takes the old count over (`partition.c:357`, `:475`). In EfsVolume, one write to
  that page is enough; in FatTable, `countKept` is FALSE from then on. An exit
  without unmounting leaves the old count too. If the page is clean, the first bytes
  of the sector behind FSInfo are lost (`disc.c:183`); on the usual layout that is a
  reserved sector.
* A page that holds the last sector of an image can never be written
  (`disc.c:163`). Once it is dirty, every flush stops at it, pages after it included,
  and when it is the oldest, every cache miss fails. Unmounting then drops those
  pages without a word.
* A flush leaves the last sectors in the buffer of the C library (`disc.c:184`).
* After a failed search the hint stands one past the last cluster. The padding there
  usually reads as free, and the next call on the full disc then returns
  `lastCluster + 1` and writes it to the end of the chain
  (`file_allocation_table.c:253`), although the comment at `:214`-`:219` promises
  CLUSTER_ERROR; when that chain is released, it is counted as one cluster more than
  it has (`:340`). The proofs show that chains share no cluster and end nevertheless.
  A read error in the table makes a used cluster look free (`:60`).
* A read error while a page is replaced leaves the old page's label over new bytes
  (`cache.c:162`); a partial write to that page and a flush put them on the disc.
* A request that fails for part of a sector, or in an extension, is not noticed
  (`fatfile.c:528`, `:639`, `:739`, `:747`, `:771`, `:1003`): the call reports its
  full length.
* Removing an entry that ends in the last slot of its directory reports EIO though it
  is done (`directory.c:706`); a rename then also skips its flush (`fatdir.c:329`).
* `fat_cache_invalidate` flushes although `cache.h:136` says that it does not.
* Renaming or removing an open file leaves its handle at a slot that is free or
  another's; opening with `O_TRUNC` frees clusters that the entry still names until
  the next sync (`fatfile.c:317`); an exit in the middle of a rename leaves two
  entries for one chain (`fatdir.c:329`); a directory can be renamed into itself.
* `efs_unmount` leaves the freed partition in `labels[]` (`partition.c:509`).
* The loop of `disc.c:115` miscounts from the second block on; no caller asks for
  more than one.
* `dif.cpp:227` weights the first of four bytes with 1677216, `:277` with 16777216;
  `decomp_size` is not byte-swapped (`dif.cpp:102`); `main` returns 0 after skips; an
  entry that is its own older file is lost if the program is killed while it is
  written (`dia.cpp:118`).

## Not modelled

The models stand for a small share of the 52391 lines of code in the repository. About
36000 of those are four copies of one vendored compression library under
`old-hacks`, and most of the rest are dated listings of hooks and dumps for another
processor, which nothing here builds; 30 % of the lines cannot be reached without
transliterating those. Of the code that is the repository's own, the following is
left out:

* In libefs: finding and checking the boot sector, `labels[]`, two handles on one
  file, reads over several blocks, paths with more than one name, `chdir`, `stat`
  (which only reads), `statvfs` (compiled out), the volume label, the conversion of
  characters, the packing of table entries, time stamps. AES is third-party and
  taken as ideal; the locks and allocation wrappers have no state.
* An exit in the middle of one call of a file or a directory: this needs table,
  cache, directory and files composed.
* In the updater: numbers of four bytes, compressed streams and the checks of
  headers; the Yaz0 compressor, taken over from elsewhere; the earlier copies of the
  updater, superseded.
* efstool, which parses arguments and does nothing with them; the scripts, one-shot
  conversions of files without state; the test program, which is compiled out.

## 6. Plan

* *Labels*: mount, unmount, the list of open files, and handles that outlive their
  partition.
* Two handles on one file in FatFile.
* *DecryptLoop*: the loop of `disc.c:115` with the arithmetic of `decryptCount`.
* The table composed with the cache of EfsVolume, for exits between the two writes
  of `linkFreeCluster`.

Theorems next: those of the modules above, and FatTable with reads that fail.

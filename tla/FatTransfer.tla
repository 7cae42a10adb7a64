---------------------------- MODULE FatTransfer ----------------------------
(***************************************************************************)
(* How one call of efs_read, efs_write or fat_file_extend_r moves its      *)
(* bytes: libefs/source/fatfile.c:478-1037.                                *)
(*                                                                         *)
(* A call goes through phases (the rest of a sector, the rest of a         *)
(* cluster, runs of whole clusters, whole sectors, the last part of a      *)
(* sector), each with its own arithmetic on remain and position, and with  *)
(* two ways to stand at the border of a cluster: at sector 0 of the next   *)
(* cluster, or still in this one at sector sectorsPerCluster, a flag that  *)
(* the next cluster is due.  A phase, and a turn of a loop, is an action.  *)
(***************************************************************************)
EXTENDS Integers, FiniteSets, Sequences

CONSTANTS
  Operations,       (* the calls looked at                                 *)
  Geometries,       (* pairs of bytesPerSector and sectorsPerCluster       *)
  LastCluster,      (* partition->fat.lastCluster                          *)
  MaxLen,           (* bound: the most bytes a call is asked for           *)
  IoFaults,         (* TRUE if requests to the cache may fail              *)
  ReadsAtBorder     (* TRUE if a read of less than a sector may find the   *)
                    (* next cluster due                                    *)

ASSUME OperationsAssumption == Operations \subseteq {"read", "write", "extend"}
ASSUME GeometriesAssumption == Geometries \subseteq (Nat \ {0}) \X (Nat \ {0})
ASSUME LastClusterAssumption == LastCluster \in Nat /\ LastCluster >= 2
ASSUME MaxLenAssumption == MaxLen \in Nat \ {0}
ASSUME FlagsAssumption == IoFaults \in BOOLEAN /\ ReadsAtBorder \in BOOLEAN

CLUSTER_FIRST == 2
Clusters == CLUSTER_FIRST .. LastCluster
CLUSTER_EOF == LastCluster + 2

VARIABLES
  op,          (* the call                                                 *)
  geometry,    (* the geometry of the volume                               *)
  chain,       (* the clusters of the file, in the order of the links      *)
  base,        (* the offset in the file of the first byte to be moved     *)
  filesize,    (* file->filesize when the call begins                      *)
  len,         (* the number of bytes asked for                            *)
  pc,          (* the phase that is next                                   *)
  position,    (* the local fat_file_position                              *)
  remain,      (* the bytes still to be moved                              *)
  group,       (* efs_write's next_position.cluster, chunkEnd, chunkSize   *)
  error,       (* "none" while flagNoError, else the error set             *)
  moved,       (* history: where each byte counted went to or came from    *)
  erased       (* history: the bytes that were overwritten with zeros      *)

fixed == <<op, geometry, base, filesize, len>>
vars == <<fixed, chain, pc, position, remain, group, error, moved, erased>>

bytesPerSector    == geometry[1]
sectorsPerCluster == geometry[2]
bytesPerCluster   == bytesPerSector * sectorsPerCluster

(* The byte of the volume, counted from the data of cluster 0, at byte b   *)
(* of the sector s of the cluster c: fat_fat_clusterToSector(c) + s.       *)
Place(c, s, b) == (c * sectorsPerCluster + s) * bytesPerSector + b

Run(first, n) == [i \in 1 .. n |-> first + i - 1]

(* No byte of a cluster is at 0: a byte that the call counts is Nowhere if *)
(* the request that was to move it failed and nobody looked.               *)
Nowhere == 0

(* fat_fat_nextCluster on the file's own chain. *)
NextCluster(c) ==
  LET i == CHOOSE i \in DOMAIN chain : chain[i] = c
  IN  IF i = Len(chain) THEN CLUSTER_EOF ELSE chain[i + 1]

Free == Clusters \ {chain[i] : i \in DOMAIN chain}

ASSUME RunAssumption == Run(3, 2) = <<3, 4>>

-----------------------------------------------------------------------------
(* The parts of a phase. *)

Goto(label) == pc' = label

(* The next n bytes are moved from or to the disc at the position p.       *)
Move(p, n) ==
  /\ moved' = moved \o Run(Place(p.cluster, p.sector, p.byte), n)
  /\ remain' = remain - n

(* A request whose outcome the code ignores fails: its n bytes count as    *)
(* moved and the call goes on behind them.                                 *)
Lose(n) ==
  /\ IoFaults
  /\ moved' = moved \o [i \in 1 .. n |-> Nowhere]
  /\ remain' = remain - n

(* A part of a sector, or a sector of zeros, is moved by such a request.   *)
MoveUnchecked(p, n) == Move(p, n) \/ Lose(n)

(* Mutant: the failure is not noted. *)
Fail_NotFlagged ==
  /\ IoFaults
  /\ UNCHANGED <<moved, remain, position, error>>

(* fat_cache_readSectors or writeSectors fails: nothing is moved. *)
Fail ==
  /\ IoFaults
  /\ error' = "EIO"
  /\ UNCHANGED <<moved, remain, position>>

Skip == UNCHANGED <<moved, remain, position, error>>

(* Mutant: the sector is not taken back to 0. *)
NextClusterFor_KeepsSector(p) ==
  IF error # "none" \/ p.sector < sectorsPerCluster
  THEN {[cluster |-> p.cluster, sector |-> p.sector, links |-> chain, error |-> error]}
  ELSE IF NextCluster(p.cluster) # CLUSTER_EOF
  THEN {[cluster |-> NextCluster(p.cluster), sector |-> p.sector, links |-> chain, error |-> error]}
  ELSE {[cluster |-> p.cluster, sector |-> p.sector, links |-> chain, error |-> "ENOSPC"]}

(* fat_check_position_for_next_cluster(p) with bytes remaining: the        *)
(* cluster to go on in, and the chain if one had to be linked.             *)
NextClusterFor(p) ==
  IF error # "none" \/ p.sector < sectorsPerCluster
  THEN {[cluster |-> p.cluster, sector |-> p.sector, links |-> chain, error |-> error]}
  ELSE IF NextCluster(p.cluster) # CLUSTER_EOF
  THEN {[cluster |-> NextCluster(p.cluster), sector |-> 0, links |-> chain, error |-> error]}
  ELSE IF Free = {}
  THEN {[cluster |-> p.cluster, sector |-> p.sector, links |-> chain, error |-> "ENOSPC"]}
  ELSE {[cluster |-> c, sector |-> 0, links |-> Append(chain, c), error |-> error] : c \in Free}

(* Mutant: a cluster is linked though nothing is left to be written. *)
CheckPosition_Always(label) ==
  /\ UNCHANGED <<moved, remain, group, erased>>
  /\ Goto(label)
  /\ \E n \in NextClusterFor(position) :
       /\ position' = [position EXCEPT !.cluster = n.cluster, !.sector = n.sector]
       /\ chain' = n.links
       /\ error' = n.error

(* The call of it that opens a phase of a write. *)
CheckPosition(label) ==
  /\ UNCHANGED <<moved, remain, group, erased>>
  /\ Goto(label)
  /\ IF remain = 0
     THEN UNCHANGED <<position, chain, error>>
     ELSE \E n \in NextClusterFor(position) :
            /\ position' = [position EXCEPT !.cluster = n.cluster, !.sector = n.sector]
            /\ chain' = n.links
            /\ error' = n.error

(* Mutant: the byte within the sector is not taken back to 0. *)
AfterBytes_KeepsByte(p, n) ==
  IF p.byte + n >= bytesPerSector
  THEN [p EXCEPT !.sector = @ + 1]
  ELSE [p EXCEPT !.byte = @ + n]

(* The position p after n more bytes of its sector. *)
AfterBytes(p, n) ==
  IF p.byte + n >= bytesPerSector
  THEN [p EXCEPT !.byte = 0, !.sector = @ + 1]
  ELSE [p EXCEPT !.byte = @ + n]

(* Align to sector: the rest of a sector that is not taken whole.  A write *)
(* looks at flagNoError, which the check before it may have cleared.       *)
AlignToSector ==
  LET room == bytesPerSector - position.byte
      part == IF room > remain THEN remain ELSE room
  IN
  /\ pc = "head" /\ op # "extend"
  /\ IF part < bytesPerSector /\ error = "none"
     THEN /\ MoveUnchecked(position, part)
          /\ position' = AfterBytes(position, part)
          /\ UNCHANGED error
     ELSE Skip
  /\ Goto("sectors")
  /\ UNCHANGED <<chain, group, erased>>

(* The whole sectors of this cluster that the call still wants. *)
RestOfCluster ==
  IF remain > (sectorsPerCluster - position.sector) * bytesPerSector
  THEN sectorsPerCluster - position.sector
  ELSE remain \div bytesPerSector

(* Align to cluster. *)
AlignToCluster ==
  LET n == RestOfCluster IN
  /\ pc = "sectors"
  /\ IF n > 0 /\ error = "none" /\ (op = "write" => n < sectorsPerCluster)
     THEN \/ /\ Move(position, n * bytesPerSector)
             /\ position' = [position EXCEPT !.sector = @ + n]
             /\ UNCHANGED error
          \/ Fail
     ELSE Skip
  /\ Goto(IF op = "read" THEN "advance" ELSE "clusters")
  /\ UNCHANGED <<chain, group, erased>>

(* A read goes on to the next cluster at once, unless it is at the end of  *)
(* the file, where the cluster is due only if more is written.             *)
Onwards(p, left, next) ==
  IF left = 0 /\ next = CLUSTER_EOF
  THEN position' = [p EXCEPT !.sector = sectorsPerCluster] /\ UNCHANGED error
  ELSE IF next \notin Clusters
  THEN error' = "EIO" /\ UNCHANGED position
  ELSE position' = [p EXCEPT !.cluster = next, !.sector = 0] /\ UNCHANGED error

(* Move onto next cluster. *)
Advance ==
  /\ pc = "advance"
  /\ IF position.sector >= sectorsPerCluster /\ error = "none"
     THEN Onwards(position, remain, NextCluster(position.cluster))
     ELSE UNCHANGED <<position, error>>
  /\ Goto("clusters")
  /\ UNCHANGED <<chain, remain, group, moved, erased>>

-----------------------------------------------------------------------------
(* Whole clusters. *)

(* Mutant: clusters are grouped wherever they are on the disc. *)
Consecutive_Any(i, n) == i + n - 1 <= Len(chain)

(* The n clusters from the i-th of the chain are consecutive on the disc.  *)
Consecutive(i, n) ==
  /\ i + n - 1 <= Len(chain)
  /\ \A k \in 1 .. n - 1 : chain[i + k] = chain[i] + k

(* The number of clusters that a read takes in one request, from the i-th  *)
(* of the chain on.                                                        *)
ChunkOfRead(i) ==
  CHOOSE n \in 1 .. Len(chain) :
    /\ Consecutive(i, n) /\ n * bytesPerCluster <= remain
    /\ ~ (Consecutive(i, n + 1) /\ (n + 1) * bytesPerCluster <= remain)

ReadClusters ==
  LET i == CHOOSE i \in DOMAIN chain : chain[i] = position.cluster
      n == ChunkOfRead(i)
      chunkEnd == chain[i + n - 1]
  IN
  /\ pc = "clusters" /\ op = "read"
  /\ remain >= bytesPerCluster /\ error = "none"
  /\ \/ /\ Move([position EXCEPT !.sector = 0, !.byte = 0], n * bytesPerCluster)
        /\ Onwards([position EXCEPT !.cluster = chunkEnd],
                   remain - n * bytesPerCluster, NextCluster(chunkEnd))
     \/ Fail
  /\ Goto("clusters")
  /\ UNCHANGED <<chain, group, erased>>

(* The turn of efs_write's loop begins: the cluster to write is linked. *)
WriteClusters ==
  /\ pc = "clusters" /\ op = "write"
  /\ remain >= bytesPerCluster /\ error = "none"
  /\ \E n \in NextClusterFor(position) :
       /\ position' = [position EXCEPT !.cluster = n.cluster, !.sector = n.sector]
       /\ chain' = n.links
       /\ error' = n.error
       /\ group' = [next |-> n.cluster, chunkEnd |-> n.cluster, chunkSize |-> bytesPerCluster]
       /\ Goto(IF n.error = "none" THEN "group" ELSE "clusters")
  /\ UNCHANGED <<moved, remain, erased>>

(* The cluster after the group is looked up, or linked, if more than it    *)
(* is to be written; it joins the group if it is the next one on the disc. *)
Group ==
  /\ pc = "group"
  /\ IF error = "none" /\ group.chunkSize + bytesPerCluster < remain
     THEN \E n \in NextClusterFor([cluster |-> group.chunkEnd, sector |-> sectorsPerCluster, byte |-> 0]) :
            /\ chain' = n.links
            /\ error' = n.error
            /\ IF n.error # "none"
               THEN Goto("chunk") /\ UNCHANGED group
               ELSE IF n.cluster # group.chunkEnd + 1
               THEN Goto("chunk") /\ group' = [group EXCEPT !.next = n.cluster]
               ELSE /\ Goto("group")
                    /\ group' = [next |-> n.cluster, chunkEnd |-> n.cluster,
                                 chunkSize |-> group.chunkSize + bytesPerCluster]
     ELSE Goto("chunk") /\ UNCHANGED <<chain, error, group>>
  /\ UNCHANGED <<position, moved, remain, erased>>

(* The group is written in one request. *)
WriteChunk ==
  /\ pc = "chunk"
  /\ \/ /\ Move([position EXCEPT !.sector = 0, !.byte = 0], group.chunkSize)
        /\ position' =
             IF group.chunkEnd # group.next
             THEN [position EXCEPT !.cluster = group.next, !.sector = 0]
             ELSE [position EXCEPT !.cluster = group.chunkEnd, !.sector = sectorsPerCluster]
        /\ UNCHANGED error
     \/ Fail
  /\ Goto("clusters")
  /\ UNCHANGED <<chain, group, erased>>

(* The loop ends; before the rest, a write checks its position again. *)
ClustersDone ==
  /\ pc = "clusters"
  /\ remain < bytesPerCluster \/ error # "none"
  /\ IF op = "write"
     THEN CheckPosition("rest")
     ELSE Goto("rest") /\ UNCHANGED <<position, chain, error, moved, remain, group, erased>>

(* Mutant: the outcome of this request is ignored too. *)
Rest_Unchecked ==
  LET n == remain \div bytesPerSector IN
  /\ pc = "rest"
  /\ IF n > 0 /\ error = "none"
     THEN /\ MoveUnchecked([position EXCEPT !.sector = 0, !.byte = 0], n * bytesPerSector)
          /\ position' = [position EXCEPT !.sector = @ + n]
          /\ UNCHANGED error
     ELSE Skip
  /\ Goto("last")
  /\ UNCHANGED <<chain, group, erased>>

(* The whole sectors that are left, from the beginning of a cluster. *)
Rest ==
  LET n == remain \div bytesPerSector IN
  /\ pc = "rest"
  /\ IF n > 0 /\ error = "none"
     THEN \/ /\ Move([position EXCEPT !.sector = 0, !.byte = 0], n * bytesPerSector)
             /\ position' = [position EXCEPT !.sector = @ + n]
             /\ UNCHANGED error
          \/ Fail
     ELSE Skip
  /\ Goto("last")
  /\ UNCHANGED <<chain, group, erased>>

Appending == base + len > filesize

(* Mutant: the rest of the sector is erased wherever the write ends. *)
ErasedBy_Always(n) == Run(Place(position.cluster, position.sector, n), bytesPerSector - n)

(* eraseWritePartialSector, used beyond the old end of the file, clears    *)
(* what is behind the n bytes it writes.                                   *)
ErasedBy(n) ==
  IF op = "write" /\ Appending
  THEN Run(Place(position.cluster, position.sector, n), bytesPerSector - n)
  ELSE <<>>

(* Last remaining sector. *)
Last ==
  /\ pc = "last"
  /\ IF remain > 0 /\ error = "none"
     THEN /\ \/ /\ Move([position EXCEPT !.byte = 0], remain)
                /\ LET e == ErasedBy(remain) IN erased' = erased \cup {e[i] : i \in DOMAIN e}
             \/ Lose(remain) /\ UNCHANGED erased
          /\ position' = [position EXCEPT !.byte = @ + remain]
          /\ UNCHANGED error
     ELSE Skip /\ UNCHANGED erased
  /\ Goto("done")
  /\ UNCHANGED <<chain, group>>

-----------------------------------------------------------------------------
(* fat_file_extend_r: zeros from filesize to currentPosition. *)

(* A new cluster if the file ends with a cluster. *)
ExtendBegin ==
  /\ pc = "begin" /\ op = "extend"
  /\ IF remain > 0 /\ filesize > 0 /\ position.sector = 0 /\ position.byte = 0
     THEN \E n \in NextClusterFor([position EXCEPT !.sector = sectorsPerCluster]) :
            /\ position' = [position EXCEPT !.cluster = n.cluster]
            /\ chain' = n.links
            /\ error' = n.error
            /\ Goto(IF n.error = "none" THEN "head" ELSE "done")
     ELSE Goto("head") /\ UNCHANGED <<position, chain, error>>
  /\ UNCHANGED <<moved, remain, group, erased>>

(* To the end of the sector, or of what is to be cleared. *)
ExtendHead ==
  LET part == IF remain + position.byte < bytesPerSector
              THEN remain ELSE bytesPerSector - position.byte
  IN
  /\ pc = "head" /\ op = "extend"
  /\ IF remain + position.byte < bytesPerSector
     THEN /\ MoveUnchecked(position, part)
          /\ position' = [position EXCEPT !.byte = @ + remain]
          /\ Goto("done")
     ELSE /\ Goto("zero")
          /\ IF position.byte > 0
             THEN MoveUnchecked(position, part) /\ position' = AfterBytes(position, part)
             ELSE UNCHANGED <<moved, remain, position>>
  /\ UNCHANGED <<chain, error, group, erased>>

(* A whole sector. *)
ExtendSector ==
  /\ pc = "zero"
  /\ remain >= bytesPerSector
  /\ \E n \in NextClusterFor(position) :
       /\ chain' = n.links
       /\ error' = n.error
       /\ IF n.error = "none"
          THEN /\ Goto("zero")
               /\ MoveUnchecked([cluster |-> n.cluster, sector |-> n.sector, byte |-> 0],
                                bytesPerSector)
               /\ position' = [cluster |-> n.cluster, sector |-> n.sector + 1, byte |-> position.byte]
          ELSE Goto("done") /\ UNCHANGED <<moved, remain, position>>
  /\ UNCHANGED <<group, erased>>

ExtendCheck ==
  /\ pc = "zero"
  /\ remain < bytesPerSector
  /\ CheckPosition("tail")

ExtendTail ==
  /\ pc = "tail"
  /\ IF remain > 0 /\ error = "none"
     THEN /\ MoveUnchecked([position EXCEPT !.byte = 0], remain)
          /\ position' = [position EXCEPT !.byte = remain]
     ELSE UNCHANGED <<moved, remain, position>>
  /\ Goto("done")
  /\ UNCHANGED <<chain, error, group, erased>>

-----------------------------------------------------------------------------
(* The beginning of a call. *)

(* A write begins with a check of its position. *)
WriteBegin ==
  /\ pc = "begin" /\ op = "write"
  /\ CheckPosition("head")

ReadBegin ==
  /\ pc = "begin" /\ op = "read"
  /\ Goto("head")
  /\ UNCHANGED <<chain, position, remain, group, error, moved, erased>>

(* The chains a file may have: each cluster once, in any order. *)
Chains == UNION {{c \in [1 .. n -> Clusters] : \A i, j \in 1 .. n : i # j => c[i] # c[j]}
                   : n \in 1 .. Cardinality(Clusters)}

(* The clusters that n bytes take, at least the one that a write of an     *)
(* empty file has linked before.                                           *)
ClustersFor(n) == IF n = 0 THEN 1 ELSE (n - 1) \div bytesPerCluster + 1

(* The positions that the calls before may have left for the byte base:    *)
(* at the border of a cluster, the flag or, if there is one, the next      *)
(* cluster.                                                                *)
Positions ==
  LET i == base \div bytesPerCluster
      o == base % bytesPerCluster
  IN
  (IF i < Len(chain)
   THEN {[cluster |-> chain[i + 1], sector |-> o \div bytesPerSector, byte |-> o % bytesPerSector]}
   ELSE {})
  \cup
  (IF o = 0 /\ i > 0
   THEN {[cluster |-> chain[i], sector |-> sectorsPerCluster, byte |-> 0]}
   ELSE {})

Init ==
  /\ op \in Operations
  /\ geometry \in Geometries
  /\ chain \in Chains
  /\ filesize \in 0 .. bytesPerCluster * Len(chain)
  /\ Len(chain) = ClustersFor(filesize)
  /\ len \in 1 .. MaxLen
  /\ base \in 0 .. filesize
  /\ op = "read" => base + len <= filesize
  /\ op = "extend" => base = filesize
  /\ position \in
       IF op = "extend"
       THEN {[cluster |-> chain[Len(chain)],
              sector |-> (filesize % bytesPerCluster) \div bytesPerSector,
              byte |-> filesize % bytesPerSector]}
       ELSE Positions
  /\ (op = "read" /\ ~ ReadsAtBorder) =>
       (position.sector < sectorsPerCluster \/ len >= bytesPerSector)
  /\ pc = "begin"
  /\ remain = len
  /\ group = [next |-> 0, chunkEnd |-> 0, chunkSize |-> 0]
  /\ error = "none"
  /\ moved = <<>>
  /\ erased = {}

Step ==
  \/ ReadBegin \/ WriteBegin \/ ExtendBegin
  \/ AlignToSector \/ AlignToCluster \/ Advance
  \/ ReadClusters \/ WriteClusters \/ Group \/ WriteChunk \/ ClustersDone
  \/ Rest \/ Last
  \/ ExtendHead \/ ExtendSector \/ ExtendCheck \/ ExtendTail

Next == Step /\ UNCHANGED fixed

(* The call runs in the caller's thread until it returns. *)
Spec == Init /\ [][Next]_vars /\ WF_vars(Next)

-----------------------------------------------------------------------------
(* Properties. *)

(* Every variable holds a value of the kind the code keeps in it. *)
TypeOK ==
  /\ chain \in Chains
  /\ pc \in {"begin", "head", "sectors", "advance", "clusters", "group", "chunk",
             "rest", "last", "zero", "tail", "done"}
  /\ position.cluster \in Clusters
  /\ position.sector \in 0 .. sectorsPerCluster
  /\ position.byte \in 0 .. bytesPerSector - 1
  /\ remain \in 0 .. len
  /\ error \in {"none", "EIO", "ENOSPC"}

(* The byte of the volume that holds byte n of the file. *)
PlaceOf(n) == Place(chain[n \div bytesPerCluster + 1], 0, n % bytesPerCluster)

(* Each byte that is moved is moved from or to the byte of the file that   *)
(* it stands for, whatever the phases it went through, wherever the        *)
(* clusters are on the disc and whatever was lost before it.               *)
BytesInPlace ==
  \A k \in DOMAIN moved :
    /\ (base + k - 1) \div bytesPerCluster < Len(chain)
    /\ moved[k] \in {PlaceOf(base + k - 1), Nowhere}

(* When the call returns, the position it leaves stands for the byte after *)
(* the last one counted, so that the next call on the handle goes on there. *)
(* A failed extension leaves none: it does not store its position.         *)
PositionFollows ==
  (pc = "done" /\ ~ (op = "extend" /\ error # "none")) =>
    LET n == base + Len(moved) IN
    \/ /\ n \div bytesPerCluster < Len(chain)
       /\ position.sector < sectorsPerCluster
       /\ Place(position.cluster, position.sector, position.byte) = PlaceOf(n)
    \/ /\ n > 0 /\ n % bytesPerCluster = 0
       /\ position = [cluster |-> chain[n \div bytesPerCluster],
                      sector |-> sectorsPerCluster, byte |-> 0]

(* The sector of byte n of the file is moved whole by the call. *)
WholeSector(n) ==
  LET first == n - (n % bytesPerSector)
  IN  base <= first /\ first + bytesPerSector <= base + len

(* A call that counts less than it was asked for has set an error, and it  *)
(* reports a full disc only when no cluster is left.  The converse is      *)
(* false: a read or a write that counts everything may have lost bytes,    *)
(* but only of a sector that it does not take whole; an extension, which   *)
(* never looks, may have lost any.                                         *)
CountedBytesMoved ==
  pc = "done" =>
    /\ Len(moved) + remain = len
    /\ remain > 0 => error # "none"
    /\ error = "ENOSPC" => Free = {}
    /\ \A k \in DOMAIN moved :
         moved[k] = Nowhere => IoFaults /\ (op = "extend" \/ ~ WholeSector(base + k - 1))

(* Unless the disc fails, a write links no cluster that it does not use:   *)
(* the end of the chain is the end of the file, where the next append      *)
(* will look for it (fatfile.c:660).                                       *)
NoOverAllocation ==
  (pc = "done" /\ op = "write" /\ error # "EIO") =>
    LET end == base + Len(moved) IN
    Len(chain) = ClustersFor(IF end > filesize THEN end ELSE filesize)

(* Erasing the rest of the last sector spares every byte of the file. *)
ErasesNothingOfTheFile ==
  \A n \in 0 .. filesize - 1 : PlaceOf(n) \notin erased

(* Every call returns: no loop over clusters or sectors goes on for ever.  *)
Returns == <>(pc = "done")

(* "It should get to here without reading anything if a cluster is due to  *)
(* be allocated" (fatfile.c:566): a read moves nothing before it has gone  *)
(* on from a position with the flag.                                       *)
NothingReadWhileDue ==
  [][(op = "read" /\ position.sector = sectorsPerCluster) => moved' = moved]_vars
=============================================================================

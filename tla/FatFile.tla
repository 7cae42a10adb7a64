------------------------------ MODULE FatFile -------------------------------
(***************************************************************************)
(* The open files of a partition: libefs/source/fatfile.c, with the parts  *)
(* of fatdir.c and partition.c that release and synchronize them.          *)
(*                                                                         *)
(* A handle keeps its own copy of the start cluster and of the size of its *)
(* file, which the directory entry gets when the handle is synchronized,   *)
(* and a cursor, the rwPosition, that must stand for currentPosition.      *)
(* How one call moves its bytes is in FatTransfer; here a call is a step,  *)
(* and the module is about what one call leaves behind for the next one.   *)
(* Where the search for a free cluster ends is in FatTable; here it may    *)
(* end at any of them.                                                     *)
(***************************************************************************)
EXTENDS Integers, FiniteSets, Sequences, SequencesExt

CONSTANTS
  Files,              (* the files; at most one handle each                *)
  Byte,               (* the values of a byte; 0 is what gaps are filled with *)
  Stale,              (* what the clusters of a new volume hold            *)
  Modes,              (* the ways to open a file                           *)
  MaxOpen,            (* bound: the number of open files                   *)
  Clusters,           (* the data clusters                                 *)
  CLUSTER_FREE, CLUSTER_EOF,
  bytesPerSector, sectorsPerCluster,
  MaxSize,            (* bound: the furthest a seek or a truncation goes   *)
  MaxLen,             (* bound: the most bytes a call is asked for         *)
  Rules               (* what clients see to:                              *)
                      (* "cut": no file is cut at the border of a cluster  *)
                      (*   where its handle stands                         *)
                      (* "gap": while a handle stands past the end of its  *)
                      (*   file, only a write there makes the file grow    *)
                      (* "room": no gap is left that the free clusters     *)
                      (*   cannot fill                                     *)
                      (* "border": no read takes less than a sector from a *)
                      (*   position with the flag                          *)

ASSUME BytesAssumption == {0, Stale} \subseteq Byte
ASSUME ModesAssumption == Modes \subseteq (SUBSET {"read", "write", "append"}) \ {{}, {"append"}}
ASSUME GeometryAssumption ==
  /\ bytesPerSector \in Nat \ {0} /\ sectorsPerCluster \in Nat \ {0}
  /\ IsFiniteSet(Clusters)
  /\ CLUSTER_FREE \notin Clusters /\ CLUSTER_EOF \notin Clusters \cup {CLUSTER_FREE}
ASSUME BoundsAssumption == MaxSize \in Nat /\ MaxLen \in Nat \ {0} /\ MaxOpen \in Nat \ {0}
ASSUME RulesAssumption == Rules \subseteq {"cut", "gap", "room", "border"}

bytesPerCluster == bytesPerSector * sectorsPerCluster

VARIABLES
  fat,      (* the file allocation table                                   *)
  data,     (* the bytes of the clusters                                   *)
  entry,    (* the start cluster and the size in each directory entry      *)
  handle,   (* the fat_file of each file, of mode {} if it is not open     *)
  reply     (* the bytes that the last call, if a read, returned           *)

vars == <<fat, data, entry, handle, reply>>

(* A fat_file_position: the offset is sector * bytesPerSector + byte; the  *)
(* flag that the next cluster is due, sector = sectorsPerCluster, is the   *)
(* offset bytesPerCluster.                                                 *)
At(c, o) == [cluster |-> c, offset |-> o]

(* A fat_file that is not in use.  The appendPosition of a handle that     *)
(* does not append is never looked at, and stays as it is here.            *)
Closed ==
  [mode |-> {}, start |-> CLUSTER_FREE, size |-> 0, currentPosition |-> 0,
   rwPosition |-> At(CLUSTER_FREE, 0), appendPosition |-> At(CLUSTER_FREE, 0), modified |-> FALSE]

Opened(f) == handle[f].mode # {}

Lesser(m, n) == IF m < n THEN m ELSE n

-----------------------------------------------------------------------------
(* Chains. *)

(* The clusters from c on, in the order of the links of the table. *)
Chain(table, c) ==
  LET walk[n \in 0 .. Cardinality(Clusters)] ==
        IF n = 0 THEN <<>>
        ELSE LET s == walk[n - 1]
                 next == IF s = <<>> THEN c ELSE table[Last(s)]
             IN  IF next \in Clusters THEN Append(s, next) ELSE s
  IN  walk[Cardinality(Clusters)]

FreeIn(table) == {c \in Clusters : table[c] = CLUSTER_FREE}

(* The table with the clusters of s linked in that order. *)
Linked(table, s) ==
  [c \in Clusters |->
     IF \E i \in DOMAIN s : s[i] = c
     THEN LET i == CHOOSE i \in DOMAIN s : s[i] = c
          IN  IF i = Len(s) THEN CLUSTER_EOF ELSE s[i + 1]
     ELSE table[c]]

(* Mutant: the first cluster of the chain is kept. *)
Cleared_KeepsFirst(table, c) ==
  [d \in Clusters |-> IF d # c /\ d \in ToSet(Chain(table, c)) THEN CLUSTER_FREE ELSE table[d]]

(* fat_fat_clearLinks *)
Cleared(table, c) ==
  [d \in Clusters |-> IF d \in ToSet(Chain(table, c)) THEN CLUSTER_FREE ELSE table[d]]

(* fat_fat_trimChain(start, n) *)
Trimmed(table, c, n) ==
  LET s == Chain(table, c) IN
  IF n >= Len(s) THEN table ELSE Linked(Cleared(table, s[n + 1]), <<s[n]>>)

(* The ways to take n free clusters one after the other. *)
Taken(table, n) ==
  {s \in [1 .. n -> FreeIn(table)] : \A i, j \in 1 .. n : i # j => s[i] # s[j]}

-----------------------------------------------------------------------------
(* The parts of a call.  A volume is the table and the data. *)

volume == [fat |-> fat, data |-> data]

(* data with the bytes b at the offsets from first to last along path.     *)
Filled(bytes, path, first, last, b) ==
  [c \in Clusters |-> [o \in 0 .. bytesPerCluster - 1 |->
     IF \E k \in first .. last :
          path[k \div bytesPerCluster + 1] = c /\ k % bytesPerCluster = o
     THEN b ELSE bytes[c][o]]]

(* Mutant: the offset is not counted from the start of the cluster. *)
After_NotWrapped(path, end) == At(path[(end - 1) \div bytesPerCluster + 1], end)

(* The position left after the offset end along path was reached: the      *)
(* cluster after the last byte is not looked for before it is needed.      *)
After(path, end) ==
  At(path[(end - 1) \div bytesPerCluster + 1], ((end - 1) % bytesPerCluster) + 1)

(* What may come of n bytes b going to the position p of the volume v, by  *)
(* a write or an extension: links that lead on are followed, then clusters *)
(* are linked while there are free ones.  On a full disc less is done.     *)
Outcomes(v, p, n, b) ==
  LET have == Chain(v.fat, p.cluster)
      more == (p.offset + n - 1) \div bytesPerCluster + 1 - Len(have)
      got  == IF more > 0 THEN Lesser(more, Cardinality(FreeIn(v.fat))) ELSE 0
  IN
  { LET path == have \o new
        done == Lesser(n, Len(path) * bytesPerCluster - p.offset)
        end  == p.offset + done
    IN  [volume |-> [fat  |-> IF new = <<>> THEN v.fat ELSE Linked(v.fat, <<Last(have)>> \o new),
                     data |-> Filled(v.data, path, p.offset, end - 1, b)],
         done   |-> done,
         at     |-> IF done = 0 THEN p ELSE After(path, end)]
    : new \in Taken(v.fat, got)}

(* The handle h with the cluster c as its start. *)
StartedAt(h, c) ==
  [h EXCEPT !.start = c, !.rwPosition = At(c, 0),
            !.appendPosition = IF "append" \in h.mode THEN At(c, 0) ELSE @]

(* The first cluster of an empty file is linked: none if there is none.    *)
Started(h) ==
  IF h.start # CLUSTER_FREE THEN {[volume |-> volume, h |-> h]}
  ELSE {[volume |-> [volume EXCEPT !.fat = Linked(@, <<c>>)], h |-> StartedAt(h, c)]
          : c \in FreeIn(fat)}

(* Mutant: the file is taken to end within its last cluster. *)
EndOf_NoFlag(v, h) ==
  At(Last(Chain(v.fat, h.start)), h.size % bytesPerCluster)

(* The end of the file of h, as fat_file_extend_r and efs_open look for    *)
(* it: with the flag, if the file ends at the end of a cluster.            *)
EndOf(v, h) ==
  At(Last(Chain(v.fat, h.start)),
     IF h.size > 0 /\ h.size % bytesPerCluster = 0
     THEN bytesPerCluster ELSE h.size % bytesPerCluster)

(* fat_file_extend_r, to the size n.  When it fails, what it has linked    *)
(* stays and h is as before.                                               *)
Extend(v, h, n) ==
  { IF o.done = n - h.size
    THEN [volume |-> o.volume, ok |-> TRUE, h |-> [h EXCEPT !.rwPosition = o.at, !.size = n]]
    ELSE [volume |-> o.volume, ok |-> FALSE, h |-> h]
    : o \in Outcomes(v, EndOf(v, h), n - h.size, 0)}

HasRoom(e) == "room" \in Rules => e.ok

(* A call ends with the volume v and the handle h on f. *)
Store(v, f, h) ==
  /\ fat' = v.fat
  /\ data' = v.data
  /\ handle' = [handle EXCEPT ![f] = h]

-----------------------------------------------------------------------------
(* The calls. *)

(* The handle after the bytes of a write have been stored: an append does  *)
(* not move the read pointer.                                              *)
Wrote(h, o) ==
  IF "append" \in h.mode
  THEN [h EXCEPT !.modified = TRUE, !.appendPosition = o.at, !.size = @ + o.done]
  ELSE [h EXCEPT !.modified = TRUE, !.rwPosition = o.at,
                 !.currentPosition = @ + o.done,
                 !.size = IF @ < h.currentPosition + o.done THEN h.currentPosition + o.done ELSE @]

(* efs_write.  A handle that does not append fills the gap before it. *)
Write(f) ==
  /\ "write" \in handle[f].mode
  /\ \E n \in 1 .. MaxLen, b \in Byte :
       \/ /\ Started(handle[f]) = {}
          /\ UNCHANGED <<fat, data, handle>>
       \/ \E s \in Started(handle[f]) :
            \/ /\ "append" \in s.h.mode
               /\ "gap" \in Rules => s.h.currentPosition <= s.h.size
               /\ \E o \in Outcomes(s.volume, s.h.appendPosition, n, b) :
                    Store(o.volume, f, Wrote(s.h, o))
            \/ /\ "append" \notin s.h.mode /\ s.h.currentPosition <= s.h.size
               /\ \E o \in Outcomes(s.volume, s.h.rwPosition, n, b) :
                    Store(o.volume, f, Wrote(s.h, o))
            \/ /\ "append" \notin s.h.mode /\ s.h.currentPosition > s.h.size
               /\ \E e \in Extend(s.volume, s.h, s.h.currentPosition) :
                    /\ HasRoom(e)
                    /\ IF e.ok
                       THEN \E o \in Outcomes(e.volume, e.h.rwPosition, n, b) :
                              Store(o.volume, f, Wrote(e.h, o))
                       ELSE Store(e.volume, f, e.h)
  /\ reply' = <<>>
  /\ UNCHANGED entry

(* The position left by a read that reached the offset end along path: in  *)
(* the next cluster, if there is one.                                      *)
AfterRead(path, end) ==
  IF end \div bytesPerCluster < Len(path)
  THEN At(path[end \div bytesPerCluster + 1], end % bytesPerCluster)
  ELSE After(path, end)

(* A read of len bytes from the position p finds the next cluster due and  *)
(* takes less than a sector.                                               *)
Short(p, len) == p.offset = bytesPerCluster /\ len < bytesPerSector

(* What may come of it: the bytes are those of the sector behind the       *)
(* cluster, whatever they are; only then the position goes on.             *)
ShortReads(p, len) ==
  LET path == Chain(fat, p.cluster)
  IN  {[bytes |-> b,
        at    |-> IF Len(path) > 1 THEN At(path[2], len) ELSE At(p.cluster, bytesPerCluster + len)]
         : b \in [1 .. len -> Byte]}

(* What may come of any other read.  If the chain ends before, the read    *)
(* fails when it has nowhere to go on: behind the only cluster, or where   *)
(* it began its last run of consecutive ones.                              *)
OtherReads(p, len) ==
  LET path == Chain(fat, p.cluster)
      left == Len(path) * bytesPerCluster - p.offset
  IN  {[bytes |-> [i \in 1 .. Lesser(len, left) |->
                    data[path[(p.offset + i - 1) \div bytesPerCluster + 1]]
                        [(p.offset + i - 1) % bytesPerCluster]],
        at    |-> at]
         : at \in IF len <= left THEN {AfterRead(path, p.offset + len)}
                  ELSE IF Len(path) = 1 THEN {At(p.cluster, bytesPerCluster)}
                  ELSE {At(path[j], 0) : j \in 2 .. Len(path)}}

(* efs_read *)
Read(f) ==
  LET h == handle[f] IN
  /\ "read" \in h.mode
  /\ \E n \in 1 .. MaxLen :
       IF h.currentPosition >= h.size \/ h.start = CLUSTER_FREE
       THEN reply' = <<>> /\ UNCHANGED handle
       ELSE LET p   == h.rwPosition
                len == Lesser(n, h.size - h.currentPosition)
            IN
            /\ "border" \in Rules => ~ Short(p, len)
            /\ \E o \in IF Short(p, len) THEN ShortReads(p, len) ELSE OtherReads(p, len) :
                 /\ reply' = o.bytes
                 /\ handle' = [handle EXCEPT ![f].currentPosition = @ + Len(o.bytes),
                                             ![f].rwPosition = o.at]
  /\ UNCHANGED <<fat, data, entry>>

(* Mutant: the cluster that a flagged position stands in is miscounted. *)
SeekFrom_NoFlag(h, p) ==
  IF p >= h.currentPosition
  THEN [cluster |-> h.rwPosition.cluster, index |-> h.currentPosition \div bytesPerCluster]
  ELSE [cluster |-> h.start, index |-> 0]

(* Where efs_seek starts to follow links from to the position p: the       *)
(* cluster it stands in and that cluster's index in the file, if p is not  *)
(* before it, or the start of the file.                                    *)
SeekFrom(h, p) ==
  IF p >= h.currentPosition
  THEN [cluster |-> h.rwPosition.cluster,
        index   |-> h.currentPosition \div bytesPerCluster
                    - (IF h.rwPosition.offset >= bytesPerCluster THEN 1 ELSE 0)]
  ELSE [cluster |-> h.start, index |-> 0]

(* efs_seek to the position p.  The sector and the byte are stored before  *)
(* the cluster is known, and stay when the seek fails.                     *)
Seek(f) ==
  LET h == handle[f] IN
  /\ Opened(f)
  /\ \E p \in 0 .. MaxSize :
       IF p > h.size \/ h.start = CLUSTER_FREE
       THEN handle' = [handle EXCEPT ![f].currentPosition = p]
       ELSE LET from  == SeekFrom(h, p)
                path  == Chain(fat, from.cluster)
                steps == p \div bytesPerCluster - from.index
                o     == p % bytesPerCluster
            IN  IF steps < Len(path)
                THEN handle' = [handle EXCEPT
                       ![f].currentPosition = p,
                       ![f].rwPosition = At(IF steps > 0 THEN path[steps + 1] ELSE from.cluster, o)]
                ELSE IF steps = Len(path) /\ h.size = p /\ o < bytesPerSector
                THEN handle' = [handle EXCEPT
                       ![f].currentPosition = p,
                       ![f].rwPosition = At(Last(path), bytesPerCluster)]
                ELSE handle' = [handle EXCEPT ![f].rwPosition.offset = o]
  /\ reply' = <<>>
  /\ UNCHANGED <<fat, data, entry>>

(* The handle h after the extension e to the size n: an append goes on     *)
(* from the position left, the read position is the one of before.  The    *)
(* size is the one asked for even if the extension has failed.             *)
Grown(h, e, n) ==
  [e.h EXCEPT !.appendPosition = IF "append" \in h.mode THEN e.h.rwPosition ELSE @,
              !.rwPosition = h.rwPosition, !.size = n, !.modified = TRUE]

(* Mutant: the append position is not taken back. *)
Cut_KeepsAppend(h, n) ==
  [h EXCEPT !.size = n, !.modified = TRUE, !.start = IF n = 0 THEN CLUSTER_FREE ELSE @]

(* The handle h after its file has been cut to the size n. *)
Cut(h, n) ==
  LET last == Chain(fat, h.start)[(n - 1) \div bytesPerCluster + 1]
  IN
  IF n = 0
  THEN [h EXCEPT !.size = 0, !.modified = TRUE, !.start = CLUSTER_FREE,
                 !.appendPosition = IF "append" \in h.mode THEN At(CLUSTER_FREE, 0) ELSE @]
  ELSE [h EXCEPT !.size = n, !.modified = TRUE,
                 !.appendPosition =
                   IF "append" \in h.mode THEN At(last, ((n - 1) % bytesPerCluster) + 1) ELSE @]

(* efs_ftruncate to the size n. *)
Truncate(f) ==
  LET h == handle[f] IN
  /\ "write" \in h.mode
  /\ \E n \in 0 .. MaxSize :
       \/ /\ n > h.size
          /\ "gap" \in Rules => h.currentPosition <= h.size
          /\ \/ Started(h) = {} /\ UNCHANGED <<fat, data, handle>>
             \/ \E s \in Started(h) : \E e \in Extend(s.volume, s.h, n) :
                  HasRoom(e) /\ Store(e.volume, f, Grown(s.h, e, n))
       \/ /\ n < h.size
          /\ "cut" \in Rules =>
               ~ (n > 0 /\ n % bytesPerCluster = 0 /\ h.currentPosition = n)
          /\ fat' = IF n = 0 THEN Cleared(fat, h.start)
                    ELSE Trimmed(fat, h.start, (n - 1) \div bytesPerCluster + 1)
          /\ handle' = [handle EXCEPT ![f] = Cut(h, n)]
          /\ UNCHANGED data
       \/ /\ n = h.size
          /\ handle' = [handle EXCEPT ![f].modified = TRUE]
          /\ UNCHANGED <<fat, data>>
  /\ reply' = <<>>
  /\ UNCHANGED entry

(* efs_open of a file that is there, or has just been added as an empty    *)
(* one.  A truncation gives the clusters back and leaves the entry as it   *)
(* is until the handle is synchronized.                                    *)
Open(f) ==
  /\ ~ Opened(f)
  /\ Cardinality({g \in Files : Opened(g)}) < MaxOpen
  /\ \E mode \in Modes, trunc \in BOOLEAN :
       LET cuts  == trunc /\ "write" \in mode /\ entry[f].start # CLUSTER_FREE
           start == IF cuts THEN CLUSTER_FREE ELSE entry[f].start
           h     == [Closed EXCEPT !.mode = mode, !.start = start, !.modified = cuts,
                                   !.size = IF cuts THEN 0 ELSE entry[f].size,
                                   !.rwPosition = At(start, 0)]
       IN  /\ fat' = IF cuts THEN Cleared(fat, entry[f].start) ELSE fat
           /\ handle' = [handle EXCEPT ![f] =
                [h EXCEPT !.appendPosition =
                   IF "append" \notin mode THEN @
                   ELSE IF start = CLUSTER_FREE THEN At(CLUSTER_FREE, 0)
                   ELSE EndOf([volume EXCEPT !.fat = fat], h)]]
  /\ reply' = <<>>
  /\ UNCHANGED <<data, entry>>

(* The entry of f after fat_syncToDisc: a handle writes back the start     *)
(* cluster and the size if it may write and has.                           *)
Synced(f) ==
  IF "write" \in handle[f].mode /\ handle[f].modified
  THEN [start |-> handle[f].start, size |-> handle[f].size]
  ELSE entry[f]

(* efs_fsync *)
Fsync(f) ==
  /\ Opened(f)
  /\ entry' = [entry EXCEPT ![f] = Synced(f)]
  /\ handle' = [handle EXCEPT ![f].modified = FALSE]
  /\ reply' = <<>>
  /\ UNCHANGED <<fat, data>>

(* efs_close *)
Close(f) ==
  /\ Opened(f)
  /\ entry' = [entry EXCEPT ![f] = Synced(f)]
  /\ handle' = [handle EXCEPT ![f] = Closed]
  /\ reply' = <<>>
  /\ UNCHANGED <<fat, data>>

(* efs_unmount synchronizes the open files; their handles are lost. *)
Unmount ==
  /\ \E f \in Files : Opened(f)
  /\ entry' = [f \in Files |-> Synced(f)]
  /\ handle' = [f \in Files |-> Closed]
  /\ reply' = <<>>
  /\ UNCHANGED <<fat, data>>

(* efs_unlink of a file that is not open. *)
Unlink(f) ==
  /\ ~ Opened(f)
  /\ fat' = Cleared(fat, entry[f].start)
  /\ entry' = [entry EXCEPT ![f] = [start |-> CLUSTER_FREE, size |-> 0]]
  /\ reply' = <<>>
  /\ UNCHANGED <<data, handle>>

Init ==
  /\ fat = [c \in Clusters |-> CLUSTER_FREE]
  /\ data = [c \in Clusters |-> [o \in 0 .. bytesPerCluster - 1 |-> Stale]]
  /\ entry = [f \in Files |-> [start |-> CLUSTER_FREE, size |-> 0]]
  /\ handle = [f \in Files |-> Closed]
  /\ reply = <<>>

Next ==
  \/ \E f \in Files :
       \/ Open(f) \/ Read(f) \/ Write(f) \/ Seek(f) \/ Truncate(f)
       \/ Fsync(f) \/ Close(f) \/ Unlink(f)
  \/ Unmount

Spec == Init /\ [][Next]_vars

-----------------------------------------------------------------------------
(* Properties. *)

(* Every variable holds a value of the kind the code keeps in it. *)
TypeOK ==
  /\ fat \in [Clusters -> Clusters \cup {CLUSTER_FREE, CLUSTER_EOF}]
  /\ data \in [Clusters -> [0 .. bytesPerCluster - 1 -> Byte]]
  /\ \A f \in Files :
       /\ entry[f].start \in Clusters \cup {CLUSTER_FREE} /\ entry[f].size \in Nat
       /\ handle[f].mode \in Modes \cup {{}}
       /\ handle[f].start \in Clusters \cup {CLUSTER_FREE}
       /\ handle[f].size \in Nat /\ handle[f].currentPosition \in Nat
       /\ handle[f].rwPosition.offset \in 0 .. bytesPerCluster
       /\ handle[f].appendPosition.offset \in 0 .. bytesPerCluster

(* The start cluster and the size of f, which its handle knows better. *)
StartOf(f) == IF Opened(f) THEN handle[f].start ELSE entry[f].start
SizeOf(f)  == IF Opened(f) THEN handle[f].size ELSE entry[f].size

ClustersOf(f) == Chain(fat, StartOf(f))

(* The clusters in use are those of the files, each of one file, and a     *)
(* file has as many as its size takes: nothing leaks when a file grows, is *)
(* cut, is closed or runs into a full disc, and the last cluster of the    *)
(* chain is the end of the file, where the next append looks for it.       *)
ClustersAccounted ==
  /\ Clusters \ FreeIn(fat) = UNION {ToSet(ClustersOf(f)) : f \in Files}
  /\ \A f, g \in Files : f # g => ToSet(ClustersOf(f)) \cap ToSet(ClustersOf(g)) = {}
  /\ \A f \in Files :
       Len(ClustersOf(f)) = (SizeOf(f) + bytesPerCluster - 1) \div bytesPerCluster

(* p stands for the byte n of the file f: in the cluster that holds it, or *)
(* with the flag in the cluster before.                                    *)
StandsFor(p, n, f) ==
  LET path == ClustersOf(f) IN
  \/ /\ n \div bytesPerCluster < Len(path)
     /\ p = At(path[n \div bytesPerCluster + 1], n % bytesPerCluster)
  \/ /\ n > 0 /\ n % bytesPerCluster = 0 /\ n \div bytesPerCluster <= Len(path)
     /\ p = At(path[n \div bytesPerCluster], bytesPerCluster)

(* Whatever calls came before, a handle within its file stands at the byte *)
(* that its currentPosition says, and appends go to the end of the file.   *)
PositionsInFile ==
  \A f \in Files : (Opened(f) /\ handle[f].start # CLUSTER_FREE) =>
    /\ handle[f].currentPosition <= handle[f].size =>
         StandsFor(handle[f].rwPosition, handle[f].currentPosition, f)
    /\ "append" \in handle[f].mode =>
         StandsFor(handle[f].appendPosition, handle[f].size, f)

(* A call changes the data of clusters of one file only, that of the one   *)
(* handle that it changes, and they belong to that file when it returns:   *)
(* nothing goes to clusters that were given back, or to those of another   *)
(* file, open or not.  After a cut at the border of a                      *)
(* cluster "set a flag to allocate a cluster as needed"                    *)
(* (fatfile.c:1240): the next write must not go to the cluster dropped.    *)
WritesStayInFile ==
  [][data' # data =>
       \E f \in Files :
         /\ \A g \in Files \ {f} : handle'[g] = handle[g]
         /\ \A c \in Clusters : data'[c] # data[c] => c \in ToSet(ClustersOf(f)')]_vars

(* The bytes of a file as its clusters hold them, -1 where there is none.  *)
ContentOf(f) ==
  LET path == ClustersOf(f) IN
  [i \in 1 .. SizeOf(f) |->
     IF (i - 1) \div bytesPerCluster < Len(path)
     THEN data[path[(i - 1) \div bytesPerCluster + 1]][(i - 1) % bytesPerCluster]
     ELSE -1]

(* Reads, writes, seeks, truncations, closing and reopening act on the     *)
(* files as on sequences of bytes: gaps read as zeros and never as what a  *)
(* cluster held before, and what a closed file held it holds when it is    *)
(* opened again.                                                           *)
Abstract == INSTANCE ByteFile WITH
  content <- [f \in Files |-> ContentOf(f)],
  mode    <- [f \in Files |-> handle[f].mode],
  place   <- [f \in Files |-> handle[f].currentPosition],
  reply   <- reply

FileSpec == Abstract!Spec
=============================================================================

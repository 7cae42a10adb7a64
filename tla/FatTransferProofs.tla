-------------------------- MODULE FatTransferProofs -------------------------
(***************************************************************************)
(* Theorems about a call of efs_read, efs_write or fat_file_extend_r, for  *)
(* every geometry, every chain of clusters and every length, whichever     *)
(* requests fail: each byte moved goes to its place, the position follows  *)
(* the bytes counted, a short call has failed, a read or a write that is   *)
(* not short lost at most bytes of sectors it takes in part, no cluster is *)
(* linked in vain, and nothing of the file is erased.  They assume that no *)
(* read of less than a sector begins at the flag for the next cluster,     *)
(* which the code gets wrong.                                              *)
(***************************************************************************)
EXTENDS FatTransfer, FiniteSetTheorems, SequenceTheorems, TLAPS

-----------------------------------------------------------------------------
(* Arithmetic. *)

LEMMA DivMod ==
  ASSUME NEW n \in Nat \ {0}, NEW a \in Nat
  PROVE  /\ a \div n \in Nat /\ a % n \in 0 .. n - 1
         /\ a = (a \div n) * n + (a % n)
OBVIOUS

(* A quotient and a remainder are what they are. *)
LEMMA Quotient ==
  ASSUME NEW n \in Nat \ {0}, NEW q \in Nat, NEW r \in 0 .. n - 1
  PROVE  (q * n + r) \div n = q /\ (q * n + r) % n = r
<1> DEFINE a == q * n + r
<1>1. a \in Nat
  OBVIOUS
<1> DEFINE p == a \div n
           d == a % n
<1>2. p \in Nat /\ d \in 0 .. n - 1 /\ a = p * n + d
  BY <1>1, DivMod
<1>3. q * n + r = p * n + d
  BY <1>2
<1> HIDE DEF p, d
<1>4. ~(q < p)
  <2> SUFFICES ASSUME q < p PROVE FALSE
    OBVIOUS
  <2>1. n * (p - q) >= n
    BY <1>2
  <2> QED
    BY <2>1, <1>2, <1>3
<1>5. ~(p < q)
  <2> SUFFICES ASSUME p < q PROVE FALSE
    OBVIOUS
  <2>1. n * (q - p) >= n
    BY <1>2
  <2> QED
    BY <2>1, <1>2, <1>3
<1>6. p = q
  BY <1>2, <1>4, <1>5
<1>7. d = r
  BY <1>3, <1>6, <1>2
<1> QED
  BY <1>6, <1>7 DEF p, d

(* Multiples grow with their factors. *)
LEMMA Multiples ==
  ASSUME NEW n \in Nat \ {0}, NEW j \in Int, NEW k \in Int
  PROVE  /\ j * n \in Int /\ (j >= 0 => j * n >= 0)
         /\ (j + k) * n = j * n + k * n
         /\ (j + 1) * n = j * n + n /\ (j - 1) * n = j * n - n
         /\ j < k => j * n + n <= k * n
         /\ j <= k => j * n <= k * n
<1>1. j < k => (k - j) * n >= n
  OBVIOUS
<1>2. j <= k => (k - j) * n >= 0
  OBVIOUS
<1> QED
  BY <1>1, <1>2

LEMMA LeastExists ==
  ASSUME NEW S \in SUBSET Nat, S # {}
  PROVE  \E m \in S : \A n \in S : m <= n
<1> DEFINE T == {0 .. n : n \in S}
<1>1. IsWellFoundedOn(StrictSubsetOrdering(Nat), FiniteSubsetsOf(Nat))
  BY FS_StrictSubsetOrderingWellFounded
<1>2. T \subseteq FiniteSubsetsOf(Nat) /\ T # {}
  <2>1. \A n \in S : IsFiniteSet(0 .. n) /\ 0 .. n \in SUBSET Nat
    BY FS_Interval
  <2> QED
    BY <2>1 DEF FiniteSubsetsOf
<1>3. PICK x \in T : \A y \in T : ~(<<y, x>> \in StrictSubsetOrdering(Nat))
  <2> HIDE DEF T
  <2> QED
    BY <1>1, <1>2, WFMin
<1>4. PICK m \in S : x = 0 .. m
  OBVIOUS
<1>5. ASSUME NEW n \in S
      PROVE  m <= n
  <2>1. <<0 .. n, 0 .. m>> \notin StrictSubsetOrdering(Nat)
    BY <1>3, <1>4
  <2>2. 0 .. n \subseteq Nat /\ 0 .. m \subseteq Nat
    OBVIOUS
  <2>3. CASE n < m
    <3>1. 0 .. n \subseteq 0 .. m /\ m \in 0 .. m /\ m \notin 0 .. n
      BY <2>3
    <3> QED
      BY <2>1, <2>2, <3>1 DEF StrictSubsetOrdering
  <2> QED
    BY <2>3
<1> QED
  BY <1>4, <1>5

-----------------------------------------------------------------------------
(* Places. *)

LEMMA GeometryIs ==
  ASSUME geometry \in Geometries
  PROVE  /\ bytesPerSector \in Nat \ {0} /\ sectorsPerCluster \in Nat \ {0}
         /\ bytesPerCluster \in Nat \ {0}
         /\ bytesPerCluster = sectorsPerCluster * bytesPerSector
<1>1. bytesPerSector \in Nat \ {0} /\ sectorsPerCluster \in Nat \ {0}
  BY GeometriesAssumption DEF bytesPerSector, sectorsPerCluster
<1> QED
  BY <1>1 DEF bytesPerCluster

LEMMA PlaceIs ==
  ASSUME geometry \in Geometries, NEW c \in Nat, NEW s \in Nat, NEW y \in Nat
  PROVE  Place(c, s, y) = c * bytesPerCluster + (s * bytesPerSector + y)
<1>1. \A b, n \in Nat : (c * n + s) * b + y = c * (n * b) + (s * b + y)
  OBVIOUS
<1> QED
  BY <1>1, GeometryIs DEF Place

LEMMA ClustersAre ==
  /\ Clusters \subseteq Nat /\ IsFiniteSet(Clusters) /\ Cardinality(Clusters) \in Nat
  /\ CLUSTER_EOF \notin Clusters
<1>1. IsFiniteSet(Clusters) /\ Cardinality(Clusters) \in Nat
  BY LastClusterAssumption, FS_Interval, FS_CardinalityType DEF Clusters, CLUSTER_FIRST
<1> QED
  BY <1>1, LastClusterAssumption DEF Clusters, CLUSTER_FIRST, CLUSTER_EOF

(* A chain is a row of clusters, each of them once. *)
LEMMA ChainIs ==
  ASSUME NEW c \in Chains
  PROVE  /\ Len(c) \in Nat \ {0} /\ DOMAIN c = 1 .. Len(c)
         /\ c \in Seq(Clusters) /\ c \in [1 .. Len(c) -> Clusters]
         /\ \A i \in DOMAIN c : i \in Nat /\ i >= 1 /\ i <= Len(c) /\ c[i] \in Clusters /\ c[i] \in Nat
         /\ \A i, j \in DOMAIN c : c[i] = c[j] => i = j
<1>1. PICK n \in 1 .. Cardinality(Clusters) :
        c \in [1 .. n -> Clusters] /\ \A i, j \in 1 .. n : i # j => c[i] # c[j]
  BY DEF Chains
<1>2. n \in Nat \ {0}
  BY ClustersAre
<1>3. c \in Seq(Clusters)
  BY <1>1, <1>2
<1>4. Len(c) = n
  BY <1>1, <1>2, <1>3
<1>5. DOMAIN c = 1 .. Len(c) /\ c \in [1 .. Len(c) -> Clusters]
  BY <1>1, <1>4
<1>6. \A i \in DOMAIN c : c[i] \in Clusters
  BY <1>5
<1>7. \A i, j \in DOMAIN c : c[i] = c[j] => i = j
  BY <1>1
<1>8. \A i \in DOMAIN c : i \in Nat /\ i >= 1 /\ i <= Len(c)
  BY <1>2, <1>4, <1>5
<1> QED
  BY <1>2, <1>3, <1>4, <1>5, <1>6, <1>7, <1>8, ClustersAre

(* No more than there are. *)
LEMMA IsChain ==
  ASSUME NEW n \in Nat \ {0}, NEW c \in [1 .. n -> Clusters],
         \A i, j \in 1 .. n : i # j => c[i] # c[j]
  PROVE  c \in Chains
<1>1. IsFiniteSet(1 .. n) /\ Cardinality(1 .. n) = n
  BY FS_Interval
<1>2. n <= Cardinality(Clusters)
  BY <1>1, ClustersAre, FS_PigeonHole
<1> QED
  BY <1>2, ClustersAre DEF Chains

(* The byte r of the i-th cluster of a chain is the byte of the file that  *)
(* counts the clusters before.                                             *)
LEMMA PlaceInIs ==
  ASSUME geometry \in Geometries, NEW c \in Chains, NEW i \in DOMAIN c,
         NEW r \in 0 .. bytesPerCluster - 1
  PROVE  LET n == (i - 1) * bytesPerCluster + r IN
         /\ n \in Nat /\ n \div bytesPerCluster = i - 1 /\ n % bytesPerCluster = r
         /\ Place(c[n \div bytesPerCluster + 1], 0, n % bytesPerCluster)
              = c[i] * bytesPerCluster + r
<1> DEFINE n == (i - 1) * bytesPerCluster + r
<1>1. i - 1 \in Nat /\ i - 1 + 1 = i /\ c[i] \in Nat /\ r \in Nat
  BY GeometryIs, ChainIs
<1>2. n \in Nat /\ n \div bytesPerCluster = i - 1 /\ n % bytesPerCluster = r
  <2>1. PICK q \in Nat : q = i - 1
    BY <1>1
  <2>2. (q * bytesPerCluster + r) \div bytesPerCluster = q /\ (q * bytesPerCluster + r) % bytesPerCluster = r
    BY GeometryIs, Quotient
  <2>3. q * bytesPerCluster \in Nat
    BY GeometryIs
  <2> QED
    BY <1>1, <2>1, <2>2, <2>3
<1>3. c[n \div bytesPerCluster + 1] = c[i]
  BY <1>1, <1>2
<1>4. Place(c[i], 0, r) = c[i] * bytesPerCluster + (0 * bytesPerSector + r)
  BY <1>1, PlaceIs
<1> QED
  BY <1>1, <1>2, <1>3, <1>4, GeometryIs

-----------------------------------------------------------------------------
(* The chain. *)

LEMMA NextClusterIs ==
  ASSUME chain \in Chains, NEW i \in DOMAIN chain
  PROVE  /\ (CHOOSE j \in DOMAIN chain : chain[j] = chain[i]) = i
         /\ NextCluster(chain[i]) = IF i = Len(chain) THEN CLUSTER_EOF ELSE chain[i + 1]
<1>1. (CHOOSE j \in DOMAIN chain : chain[j] = chain[i]) = i
  BY ChainIs
<1>2. ASSUME NEW c, c = chain[i]
      PROVE  NextCluster(c) = IF i = Len(chain) THEN CLUSTER_EOF ELSE chain[i + 1]
  <2> DEFINE k == CHOOSE j \in DOMAIN chain : chain[j] = c
  <2>1. k = i
    BY <1>1, <1>2
  <2>2. NextCluster(c) = IF k = Len(chain) THEN CLUSTER_EOF ELSE chain[k + 1]
    BY DEF NextCluster
  <2> QED
    BY <2>1, <2>2
<1> QED
  BY <1>1, <1>2

(* The chain new is the file's, or that and one more cluster. *)
Grown(new) ==
  /\ new \in Chains /\ Len(new) \in {Len(chain), Len(chain) + 1}
  /\ \A j \in DOMAIN chain : j \in DOMAIN new /\ new[j] = chain[j]

LEMMA NotGrown ==
  ASSUME chain \in Chains
  PROVE  Grown(chain)
BY DEF Grown

LEMMA AppendIs ==
  ASSUME chain \in Chains, NEW c \in Free
  PROVE  /\ Grown(Append(chain, c)) /\ Len(Append(chain, c)) = Len(chain) + 1
         /\ Append(chain, c)[Len(chain) + 1] = c
<1> DEFINE n == Len(chain)
           new == Append(chain, c)
<1>1. /\ n \in Nat \ {0} /\ chain \in Seq(Clusters) /\ DOMAIN chain = 1 .. n
      /\ \A i \in DOMAIN chain : chain[i] \in Clusters
      /\ \A i, j \in DOMAIN chain : chain[i] = chain[j] => i = j
  BY ChainIs
<1>2. c \in Clusters /\ \A i \in DOMAIN chain : chain[i] # c
  BY DEF Free
<1>3. /\ new \in Seq(Clusters) /\ Len(new) = n + 1 /\ DOMAIN new = 1 .. n + 1
      /\ \A i \in 1 .. n : new[i] = chain[i]
      /\ new[n + 1] = c
  BY <1>1, <1>2, AppendProperties
<1> HIDE DEF new, n
<1>4. new \in [1 .. n + 1 -> Clusters]
  <2>1. \A i \in 1 .. n + 1 : new[i] \in Clusters
    BY <1>1, <1>2, <1>3
  <2> QED
    BY <1>1, <1>3, <2>1, IsASeq
<1>5. \A i, j \in 1 .. n + 1 : i # j => new[i] # new[j]
  <2> SUFFICES ASSUME NEW i \in 1 .. n + 1, NEW j \in 1 .. n + 1, i # j
               PROVE  new[i] # new[j]
    OBVIOUS
  <2>1. CASE i = n + 1
    BY <1>1, <1>2, <1>3, <2>1
  <2>2. CASE j = n + 1
    BY <1>1, <1>2, <1>3, <2>2
  <2>3. CASE i # n + 1 /\ j # n + 1
    <3>1. i \in 1 .. n /\ j \in 1 .. n
      BY <1>1, <2>3
    <3> QED
      BY <1>1, <1>3, <3>1
  <2> QED
    BY <2>1, <2>2, <2>3
<1>6. n + 1 \in Nat \ {0}
  BY <1>1
<1>7. new \in Chains
  BY <1>4, <1>5, <1>6, IsChain
<1> QED
  BY <1>1, <1>3, <1>7 DEF Grown, n, new

(* What fat_check_position_for_next_cluster does at a position in the i-th *)
(* cluster.                                                                *)
LEMMA NextClusterForIs ==
  ASSUME geometry \in Geometries, chain \in Chains, error = "none",
         NEW i \in DOMAIN chain, NEW p, p.cluster = chain[i], p.sector \in 0 .. sectorsPerCluster,
         NEW n \in NextClusterFor(p)
  PROVE  \/ /\ p.sector < sectorsPerCluster
            /\ n = [cluster |-> chain[i], sector |-> p.sector, links |-> chain, error |-> "none"]
         \/ /\ p.sector = sectorsPerCluster /\ i + 1 \in DOMAIN chain
            /\ n = [cluster |-> chain[i + 1], sector |-> 0, links |-> chain, error |-> "none"]
         \/ /\ p.sector = sectorsPerCluster /\ i = Len(chain) /\ Free = {}
            /\ n = [cluster |-> chain[i], sector |-> p.sector, links |-> chain, error |-> "ENOSPC"]
         \/ /\ p.sector = sectorsPerCluster /\ i = Len(chain) /\ n.cluster \in Free
            /\ n = [cluster |-> n.cluster, sector |-> 0, links |-> Append(chain, n.cluster),
                    error |-> "none"]
<1>1. /\ \A j \in DOMAIN chain : chain[j] \in Clusters
      /\ DOMAIN chain = 1 .. Len(chain) /\ Len(chain) \in Nat /\ sectorsPerCluster \in Nat
      /\ CLUSTER_EOF \notin Clusters
  BY ChainIs, ClustersAre, GeometryIs
<1>2. NextCluster(p.cluster) = IF i = Len(chain) THEN CLUSTER_EOF ELSE chain[i + 1]
  BY NextClusterIs
<1>3. CASE p.sector < sectorsPerCluster
  BY <1>3 DEF NextClusterFor
<1>4. CASE p.sector = sectorsPerCluster /\ i # Len(chain)
  <2>1. i + 1 \in DOMAIN chain /\ NextCluster(p.cluster) = chain[i + 1] /\ chain[i + 1] # CLUSTER_EOF
    BY <1>1, <1>2, <1>4
  <2> QED
    BY <1>1, <1>4, <2>1 DEF NextClusterFor
<1>5. CASE p.sector = sectorsPerCluster /\ i = Len(chain)
  <2>1. NextCluster(p.cluster) = CLUSTER_EOF /\ ~(p.sector < sectorsPerCluster)
    BY <1>1, <1>2, <1>5
  <2>2. CASE Free = {}
    BY <1>5, <2>1, <2>2 DEF NextClusterFor
  <2>3. CASE Free # {}
    <3>1. PICK c \in Free :
            n = [cluster |-> c, sector |-> 0, links |-> Append(chain, c), error |-> error]
      BY <2>1, <2>3 DEF NextClusterFor
    <3> QED
      BY <1>5, <3>1
  <2> QED
    BY <2>2, <2>3
<1> QED
  BY <1>1, <1>3, <1>4, <1>5

-----------------------------------------------------------------------------
(* The inductive invariant. *)

(* The byte of the file that is moved next. *)
Here == base + Len(moved)

(* In the chain c, the position p stands for byte n of the file. *)
Stands(c, p, n) ==
  \E i \in DOMAIN c :
    /\ p.cluster = c[i]
    /\ n = (i - 1) * bytesPerCluster + (p.sector * bytesPerSector + p.byte)
    /\ p.sector = sectorsPerCluster => p.byte = 0

Labels == {"begin", "head", "sectors", "advance", "clusters", "group", "chunk",
           "rest", "last", "zero", "tail", "done"}
PositionType ==
  [cluster : Clusters, sector : 0 .. sectorsPerCluster, byte : 0 .. bytesPerSector - 1]

CallOK ==
  /\ op \in {"read", "write", "extend"} /\ geometry \in Geometries
  /\ base \in Nat /\ filesize \in Nat /\ len \in Nat /\ base <= filesize
  /\ op = "read" => base + len <= filesize
LocalsOK ==
  /\ chain \in Chains /\ pc \in Labels /\ position \in PositionType
  /\ remain \in Nat /\ moved \in Seq(Nat) /\ Len(moved) + remain = len
  /\ error \in {"none", "EIO", "ENOSPC"} /\ (error = "ENOSPC" => Free = {})
  /\ filesize <= Len(chain) * bytesPerCluster
  /\ pc # "done" => erased = {}

(* A part of a sector is taken only first and last. *)
Ready == remain > 0 => position.byte = 0

(* Where each phase finds the position. *)
AtBegin ==
  /\ error = "none" /\ remain > 0
  /\ op # "extend" => Stands(chain, position, Here)
  /\ op = "read" => position.sector < sectorsPerCluster \/ remain >= bytesPerSector
  /\ op = "extend" =>
       \/ /\ Stands(chain, position, Here) /\ position.sector < sectorsPerCluster
          /\ filesize = 0 \/ position.sector # 0 \/ position.byte # 0
       \/ /\ filesize > 0 /\ Here = Len(chain) * bytesPerCluster
          /\ position = [cluster |-> chain[Len(chain)], sector |-> 0, byte |-> 0]
AtHead ==
  /\ remain > 0
  /\ error = "none" =>
       position.sector < sectorsPerCluster \/ (op = "read" /\ remain >= bytesPerSector)
AtAdvance == remain < bytesPerSector \/ position.sector = sectorsPerCluster
AtClusters ==
  /\ (op = "read" /\ remain > 0) => position.sector < sectorsPerCluster
  /\ remain >= bytesPerSector => position.sector \in {0, sectorsPerCluster}
AtRest ==
  /\ remain > 0 => position.sector < sectorsPerCluster
  /\ remain >= bytesPerSector => pc = "rest" /\ position.sector = 0
  /\ remain < bytesPerCluster
AtTail ==
  /\ remain < bytesPerSector
  /\ (error = "none" /\ remain > 0) => position.sector < sectorsPerCluster
AtEnd == (error = "none" => remain = 0) /\ ((op = "extend" /\ error # "none") \/ Stands(chain, position, Here))

Phases ==
  /\ pc = "begin" => AtBegin
  /\ pc \in {"head", "sectors", "advance", "clusters", "rest", "last", "zero", "tail"} =>
       Stands(chain, position, Here)
  /\ pc = "head" => AtHead /\ (op = "extend" => error = "none")
  /\ pc = "sectors" => op # "extend" /\ (error = "none" => Ready)
  /\ pc = "advance" => op = "read" /\ (error = "none" => Ready /\ AtAdvance)
  /\ pc = "clusters" => op # "extend" /\ (error = "none" => Ready /\ AtClusters)
  /\ pc \in {"rest", "last"} => op # "extend" /\ (error = "none" => Ready /\ AtRest)
  /\ pc = "zero" => op = "extend" /\ position.byte = 0 /\ error = "none"
  /\ pc = "tail" => op = "extend" /\ position.byte = 0 /\ AtTail
  /\ pc = "done" => AtEnd

(* The m clusters of a group, from the i-th of the chain on.  If the next  *)
(* one does not follow them on the disc, it is already known.              *)
GroupIs(i, m) ==
  /\ group = [next |-> group.next, chunkEnd |-> group.chunkEnd, chunkSize |-> group.chunkSize]
  /\ Consecutive(i, m)
  /\ position = [cluster |-> chain[i], sector |-> 0, byte |-> 0]
  /\ Here = (i - 1) * bytesPerCluster
  /\ group.chunkEnd = chain[i + m - 1] /\ group.chunkSize = m * bytesPerCluster
  /\ group.chunkSize <= remain
  /\ \/ group.next = group.chunkEnd
     \/ /\ pc = "chunk" /\ i + m <= Len(chain) /\ group.next = chain[i + m]
        /\ group.chunkSize < remain /\ error = "none"
InGroup == pc \in {"group", "chunk"}
Groups ==
  InGroup =>
    /\ op = "write" /\ error # "EIO" /\ (pc = "group" => error = "none")
    /\ \E i \in DOMAIN chain, m \in 1 .. Len(chain) : GroupIs(i, m)

(* The end of the chain is in use, or about to be. *)
InHand == IF InGroup THEN group.chunkSize ELSE 0
Thrifty ==
  (op = "write" /\ error # "EIO") =>
    LET start == (Len(chain) - 1) * bytesPerCluster IN
    \/ Len(chain) = 1 \/ start < filesize \/ start < Here + InHand
    \/ /\ error = "none" /\ start = Here + InHand /\ InHand < remain
       /\ InGroup => group.next = chain[Len(chain)]

IInv == CallOK /\ LocalsOK /\ BytesInPlace /\ Phases /\ Groups /\ Thrifty

-----------------------------------------------------------------------------
(* The bytes of a call. *)

LEMMA FixedIs ==
  ASSUME UNCHANGED fixed
  PROVE  /\ op' = op /\ geometry' = geometry /\ base' = base /\ filesize' = filesize /\ len' = len
         /\ bytesPerSector' = bytesPerSector /\ sectorsPerCluster' = sectorsPerCluster
         /\ bytesPerCluster' = bytesPerCluster
BY DEF fixed, bytesPerSector, sectorsPerCluster, bytesPerCluster

LEMMA HereIs ==
  ASSUME CallOK, LocalsOK
  PROVE  Len(moved) \in Nat /\ Here \in Nat /\ Here + remain = base + len
BY DEF CallOK, LocalsOK, Here

(* A longer chain has the bytes of the file where they were. *)
LEMMA PlacesStay ==
  ASSUME CallOK, LocalsOK, UNCHANGED fixed, Grown(chain'),
         NEW k \in Nat, k \div bytesPerCluster < Len(chain)
  PROVE  k \div bytesPerCluster < Len(chain') /\ PlaceOf(k)' = PlaceOf(k)
<1> DEFINE q == k \div bytesPerCluster
<1>1. /\ q \in Nat /\ q + 1 \in DOMAIN chain /\ Len(chain) \in Nat /\ Len(chain') \in Nat
      /\ chain'[q + 1] = chain[q + 1]
  <2>1. q \in Nat /\ Len(chain) \in Nat /\ DOMAIN chain = 1 .. Len(chain)
    BY DivMod, GeometryIs, ChainIs DEF CallOK, LocalsOK
  <2>2. q + 1 \in DOMAIN chain
    BY <2>1
  <2> HIDE DEF q
  <2> QED
    BY <2>1, <2>2 DEF Grown
<1>2. Len(chain) <= Len(chain')
  BY <1>1 DEF Grown
<1>3. PlaceOf(k)' = Place(chain'[q + 1], 0, k % bytesPerCluster)
  BY FixedIs DEF PlaceOf, Place
<1>4. PlaceOf(k) = Place(chain[q + 1], 0, k % bytesPerCluster)
  BY DEF PlaceOf
<1> QED
  BY <1>1, <1>2, <1>3, <1>4

LEMMA NothingMoved ==
  ASSUME CallOK, LocalsOK, BytesInPlace, UNCHANGED fixed, Grown(chain'), UNCHANGED moved
  PROVE  BytesInPlace'
<1> SUFFICES ASSUME NEW k \in DOMAIN moved
             PROVE  /\ (base + k - 1) \div bytesPerCluster < Len(chain')
                    /\ moved[k] \in {PlaceOf(base + k - 1)', Nowhere}
  BY FixedIs DEF BytesInPlace
<1> DEFINE n == base + k - 1
<1>1. n \in Nat
  BY DEF CallOK, LocalsOK
<1>2. n \div bytesPerCluster < Len(chain) /\ moved[k] \in {PlaceOf(n), Nowhere}
  BY DEF BytesInPlace
<1>3. PICK h \in Nat : h = n
  BY <1>1
<1>4. h \div bytesPerCluster < Len(chain') /\ PlaceOf(h)' = PlaceOf(h)
  BY <1>2, <1>3, PlacesStay
<1>5. PlaceOf(base + k - 1)' = PlaceOf(h)'
  BY <1>3, FixedIs DEF PlaceOf
<1> QED
  BY <1>2, <1>3, <1>4, <1>5

(* A run of n bytes is moved that stand where they should, or it is lost.  *)
LEMMA RunMoved ==
  ASSUME CallOK, LocalsOK, BytesInPlace, UNCHANGED fixed, Grown(chain'),
         NEW h \in Nat, h = Here, NEW n \in Nat, n <= remain,
         NEW p, Place(p.cluster, p.sector, p.byte) \in Nat, MoveUnchecked(p, n),
         \A t \in 0 .. n - 1 :
           /\ (h + t) \div bytesPerCluster < Len(chain')
           /\ PlaceOf(h + t)' = Place(p.cluster, p.sector, p.byte) + t
  PROVE  /\ moved' \in Seq(Nat) /\ remain' \in Nat /\ remain' = remain - n
         /\ Len(moved') + remain' = len' /\ Here' = h + n
         /\ BytesInPlace'
<1> DEFINE first == Place(p.cluster, p.sector, p.byte)
<1>1. /\ remain' = remain - n
      /\ moved' = moved \o Run(first, n) \/ moved' = moved \o [t \in 1 .. n |-> Nowhere]
  BY DEF MoveUnchecked, Move, Lose
<1> HIDE DEF first
<1>2. PICK run \in Seq(Nat) :
        /\ moved' = moved \o run /\ Len(run) = n
        /\ \A t \in 1 .. n : run[t] \in {first + t - 1, Nowhere}
  <2>1. CASE moved' = moved \o Run(first, n)
    <3>1. first \in Nat
      BY DEF first
    <3>2. Run(first, n) \in [1 .. n -> Nat] /\ \A t \in 1 .. n : Run(first, n)[t] = first + t - 1
      BY <3>1 DEF Run
    <3>3. Run(first, n) \in Seq(Nat) /\ Len(Run(first, n)) = n
      BY <3>2
    <3> QED
      BY <2>1, <3>2, <3>3
  <2>2. CASE moved' = moved \o [t \in 1 .. n |-> Nowhere]
    <3> DEFINE lost == [t \in 1 .. n |-> Nowhere]
    <3>1. lost \in [1 .. n -> Nat] /\ \A t \in 1 .. n : lost[t] = Nowhere
      BY DEF Nowhere
    <3> HIDE DEF lost
    <3>2. lost \in Seq(Nat) /\ Len(lost) = n
      BY <3>1
    <3>3. moved' = moved \o lost
      BY <2>2 DEF lost
    <3> QED
      BY <3>1, <3>2, <3>3
  <2> QED
    BY <1>1, <2>1, <2>2
<1>3. /\ moved' \in Seq(Nat) /\ Len(moved') = Len(moved) + n
      /\ \A k \in 1 .. Len(moved) : moved'[k] = moved[k]
      /\ \A t \in 1 .. n : moved'[Len(moved) + t] = run[t]
  <2>1. moved \in Seq(Nat)
    BY DEF LocalsOK
  <2>2. /\ moved' \in Seq(Nat) /\ Len(moved') = Len(moved) + n
        /\ \A k \in 1 .. Len(moved) + n :
             moved'[k] = IF k <= Len(moved) THEN moved[k] ELSE run[k - Len(moved)]
    BY <1>2, <2>1, ConcatProperties
  <2>3. Len(moved) \in Nat
    BY <2>1
  <2>4. ASSUME NEW t \in 1 .. n
        PROVE  moved'[Len(moved) + t] = run[t]
    <3> DEFINE k == Len(moved) + t
    <3>1. k \in 1 .. Len(moved) + n /\ ~(k <= Len(moved)) /\ k - Len(moved) = t
      BY <2>3
    <3> HIDE DEF k
    <3>2. moved'[k] = run[k - Len(moved)]
      BY <2>2, <3>1
    <3>3. moved'[k] = run[t]
      BY <3>1, <3>2
    <3> QED
      BY <3>3 DEF k
  <2> QED
    BY <2>2, <2>3, <2>4
<1>4. /\ Len(moved) \in Nat /\ base \in Nat /\ h = base + Len(moved) /\ remain \in Nat
      /\ DOMAIN moved = 1 .. Len(moved)
  BY HereIs DEF CallOK, LocalsOK, Here
<1>5. remain' \in Nat /\ Len(moved') + remain' = len'
  BY <1>1, <1>3, <1>4, FixedIs DEF LocalsOK
<1>6. Here' = h + n
  BY <1>3, <1>4, FixedIs DEF Here
<1>7. ASSUME NEW k \in DOMAIN moved'
      PROVE  /\ (base + k - 1) \div bytesPerCluster < Len(chain')
             /\ \A m \in Nat : m = base + k - 1 => moved'[k] \in {PlaceOf(m)', Nowhere}
  <2>1. k \in 1 .. Len(moved) + n
    BY <1>3, <1>4
  <2>2. CASE k <= Len(moved)
    <3>1. k \in DOMAIN moved /\ base + k - 1 \in Nat /\ moved'[k] = moved[k]
      BY <1>3, <1>4, <2>1, <2>2
    <3>2. PICK m \in Nat : m = base + k - 1
      BY <3>1
    <3>3. m \div bytesPerCluster < Len(chain) /\ moved[k] \in {PlaceOf(m), Nowhere}
      BY <3>1, <3>2 DEF BytesInPlace
    <3>4. m \div bytesPerCluster < Len(chain') /\ PlaceOf(m)' = PlaceOf(m)
      BY <3>3, PlacesStay
    <3> QED
      BY <3>1, <3>2, <3>3, <3>4
  <2>3. CASE k > Len(moved)
    <3>1. PICK t \in 0 .. n - 1 : k = Len(moved) + (t + 1)
      <4> DEFINE u == k - Len(moved) - 1
      <4>1. u \in 0 .. n - 1 /\ k = Len(moved) + (u + 1)
        BY <1>4, <2>1, <2>3
      <4> QED
        BY <4>1
    <3>2. moved'[k] \in {first + t, Nowhere}
      <4>1. t + 1 \in 1 .. n /\ first + (t + 1) - 1 = first + t
        BY <3>1 DEF first
      <4> QED
        BY <1>2, <1>3, <3>1, <4>1
    <3>3. base + k - 1 = h + t
      BY <1>4, <3>1
    <3>4. (h + t) \div bytesPerCluster < Len(chain') /\ PlaceOf(h + t)' = first + t
      BY <3>1 DEF first
    <3> QED
      BY <3>2, <3>3, <3>4
  <2> QED
    BY <1>4, <2>1, <2>2, <2>3
<1>8. BytesInPlace'
  <2> SUFFICES ASSUME NEW k \in DOMAIN moved'
               PROVE  /\ (base + k - 1) \div bytesPerCluster < Len(chain')
                      /\ moved'[k] \in {PlaceOf(base + k - 1)', Nowhere}
    BY FixedIs DEF BytesInPlace
  <2>1. PICK m \in Nat : m = base + k - 1
    <3>1. k \in Nat /\ k >= 1
      BY <1>3
    <3> QED
      BY <1>4, <3>1
  <2>2. PlaceOf(base + k - 1)' = PlaceOf(m)'
    BY <2>1, FixedIs DEF PlaceOf
  <2> QED
    BY <1>7, <2>1, <2>2
<1> QED
  BY <1>1, <1>3, <1>5, <1>6, <1>8

(* What a move of n bytes leaves. *)
MovedBy(n) ==
  /\ moved' \in Seq(Nat) /\ remain' \in Nat /\ remain' = remain - n
  /\ Len(moved') + remain' = len' /\ Here' = Here + n
  /\ BytesInPlace'

(* A run of bytes within one cluster. *)
LEMMA MoveInCluster ==
  ASSUME CallOK, LocalsOK, BytesInPlace, UNCHANGED fixed, Grown(chain'),
         NEW j \in DOMAIN chain', NEW p, p.cluster = chain'[j], p.sector \in Nat, p.byte \in Nat,
         Here = (j - 1) * bytesPerCluster + (p.sector * bytesPerSector + p.byte),
         NEW n \in Nat, n <= remain,
         p.sector * bytesPerSector + p.byte + n <= bytesPerCluster,
         MoveUnchecked(p, n)
  PROVE  MovedBy(n)
<1>1. /\ geometry \in Geometries /\ bytesPerSector \in Nat \ {0} /\ bytesPerCluster \in Nat \ {0}
      /\ chain' \in Chains
  BY GeometryIs DEF CallOK, Grown
<1>2. PICK off \in Nat : off = p.sector * bytesPerSector + p.byte
  BY <1>1
<1>3. chain'[j] \in Nat /\ j \in Nat /\ j >= 1
  BY <1>1, ChainIs
<1>4. PICK first \in Nat : first = chain'[j] * bytesPerCluster + off
  BY <1>1, <1>2, <1>3
<1>5. Place(p.cluster, p.sector, p.byte) = first
  <2>1. Place(chain'[j], p.sector, p.byte)
          = chain'[j] * bytesPerCluster + (p.sector * bytesPerSector + p.byte)
    BY <1>1, <1>3, PlaceIs
  <2> QED
    BY <1>2, <1>4, <2>1
<1>6. PICK h \in Nat : h = Here
  BY HereIs
<1>7. ASSUME NEW t \in 0 .. n - 1
      PROVE  /\ (h + t) \div bytesPerCluster < Len(chain')
             /\ PlaceOf(h + t)' = first + t
  <2>1. off + t \in 0 .. bytesPerCluster - 1
    BY <1>1, <1>2
  <2>2. PICK k \in Nat : k = (j - 1) * bytesPerCluster + (off + t)
    BY <1>1, <1>3, <2>1, PlaceInIs
  <2>3. k = h + t
    BY <1>1, <1>2, <1>3, <1>6, <2>2
  <2>4. /\ k \div bytesPerCluster = j - 1
        /\ Place(chain'[k \div bytesPerCluster + 1], 0, k % bytesPerCluster)
             = chain'[j] * bytesPerCluster + (off + t)
    BY <1>1, <2>1, <2>2, PlaceInIs
  <2>5. PlaceOf(k)' = Place(chain'[k \div bytesPerCluster + 1], 0, k % bytesPerCluster)
    BY FixedIs DEF PlaceOf, Place
  <2>6. PlaceOf(k)' = first + t
    BY <1>1, <1>2, <1>3, <1>4, <2>4, <2>5
  <2>7. j - 1 < Len(chain')
    BY <1>1, ChainIs
  <2> QED
    BY <2>3, <2>4, <2>6, <2>7
<1>8. /\ moved' \in Seq(Nat) /\ remain' \in Nat /\ remain' = remain - n
      /\ Len(moved') + remain' = len' /\ Here' = h + n
      /\ BytesInPlace'
  BY <1>5, <1>6, <1>7, RunMoved
<1> QED
  BY <1>6, <1>8 DEF MovedBy

(* A run of clusters that follow each other on the disc. *)
LEMMA MoveClusters ==
  ASSUME CallOK, LocalsOK, BytesInPlace, UNCHANGED fixed, UNCHANGED chain,
         NEW i \in DOMAIN chain, NEW m \in 1 .. Len(chain), Consecutive(i, m),
         NEW p, p.cluster = chain[i], p.sector = 0, p.byte = 0,
         Here = (i - 1) * bytesPerCluster, m * bytesPerCluster <= remain,
         Move(p, m * bytesPerCluster)
  PROVE  MovedBy(m * bytesPerCluster)
<1>1. /\ geometry \in Geometries /\ bytesPerSector \in Nat \ {0} /\ bytesPerCluster \in Nat \ {0}
      /\ chain \in Chains /\ Grown(chain')
  BY GeometryIs, NotGrown DEF CallOK, LocalsOK, Grown
<1>2. chain[i] \in Nat /\ i \in Nat /\ i >= 1 /\ m \in Nat /\ Len(chain) \in Nat
      /\ DOMAIN chain = 1 .. Len(chain)
  BY <1>1, ChainIs
<1>3. PICK first \in Nat : first = chain[i] * bytesPerCluster
  BY <1>1, <1>2
<1>4. Place(p.cluster, p.sector, p.byte) = first
  <2>1. PICK z \in Nat : z = 0
    OBVIOUS
  <2>2. Place(chain[i], z, z) = chain[i] * bytesPerCluster + (z * bytesPerSector + z)
    BY <1>1, <1>2, PlaceIs
  <2> QED
    BY <1>1, <1>2, <1>3, <2>1, <2>2
<1>5. PICK h \in Nat : h = Here
  BY HereIs
<1>6. PICK n \in Nat : n = m * bytesPerCluster
  BY <1>1, <1>2
<1>7. ASSUME NEW t \in 0 .. n - 1
      PROVE  /\ (h + t) \div bytesPerCluster < Len(chain')
             /\ PlaceOf(h + t)' = first + t
  <2>1. PICK k \in Nat, u \in 0 .. bytesPerCluster - 1 : t = k * bytesPerCluster + u
    <3>1. t \in Nat
      OBVIOUS
    <3>2. /\ t \div bytesPerCluster \in Nat /\ t % bytesPerCluster \in 0 .. bytesPerCluster - 1
          /\ t = (t \div bytesPerCluster) * bytesPerCluster + (t % bytesPerCluster)
      BY <1>1, <3>1, DivMod
    <3> QED
      BY <3>2
  <2>2. k < m
    <3>1. ~(k >= m)
      BY <1>1, <1>2, <1>6, <2>1, Multiples
    <3> QED
      BY <1>2, <3>1
  <2>3. i + k \in DOMAIN chain /\ chain[i + k] = chain[i] + k
    <3>1. i + k \in DOMAIN chain
      BY <1>2, <2>2 DEF Consecutive
    <3>2. CASE k = 0
      BY <1>2, <3>2
    <3>3. CASE k # 0
      <4>1. k \in 1 .. m - 1
        BY <1>2, <2>2, <3>3
      <4> QED
        BY <3>1, <4>1 DEF Consecutive
    <3> QED
      BY <3>1, <3>2, <3>3
  <2>4. PICK j \in DOMAIN chain : j = i + k
    BY <2>3
  <2>5. PICK x \in Nat : x = (j - 1) * bytesPerCluster + u
    BY <1>1, PlaceInIs
  <2>6. x = h + t
    <3>1. (i - 1 + k) * bytesPerCluster = (i - 1) * bytesPerCluster + k * bytesPerCluster
      BY <1>1, <1>2, Multiples
    <3>2. j - 1 = i - 1 + k
      BY <1>2, <2>4
    <3> QED
      BY <1>1, <1>2, <1>5, <2>1, <2>5, <3>1, <3>2
  <2>7. /\ x \div bytesPerCluster = j - 1
        /\ Place(chain[x \div bytesPerCluster + 1], 0, x % bytesPerCluster)
             = chain[j] * bytesPerCluster + u
    BY <1>1, <2>5, PlaceInIs
  <2>8. PlaceOf(x)' = Place(chain[x \div bytesPerCluster + 1], 0, x % bytesPerCluster)
    BY FixedIs DEF PlaceOf, Place
  <2>9. chain[j] * bytesPerCluster + u = first + t
    <3>1. (chain[i] + k) * bytesPerCluster = chain[i] * bytesPerCluster + k * bytesPerCluster
      BY <1>1, <1>2, Multiples
    <3> QED
      BY <1>1, <1>2, <1>3, <2>1, <2>3, <2>4, <3>1
  <2>10. j - 1 < Len(chain')
    BY <1>1, ChainIs
  <2> QED
    BY <2>6, <2>7, <2>8, <2>9, <2>10
<1>8. /\ moved' \in Seq(Nat) /\ remain' \in Nat /\ remain' = remain - n
      /\ Len(moved') + remain' = len' /\ Here' = h + n
      /\ BytesInPlace'
  BY <1>1, <1>4, <1>5, <1>6, <1>7, RunMoved DEF MoveUnchecked
<1> QED
  BY <1>5, <1>6, <1>8 DEF MovedBy

-----------------------------------------------------------------------------
(* What the steps have in common. *)

LEMMA NotMoved ==
  ASSUME CallOK, LocalsOK, BytesInPlace, UNCHANGED fixed, Grown(chain'), UNCHANGED <<moved, remain>>
  PROVE  MovedBy(0)
<1>1. BytesInPlace'
  BY NothingMoved
<1> QED
  BY <1>1, FixedIs, HereIs DEF MovedBy, LocalsOK, Here

LEMMA LocalsNext ==
  ASSUME CallOK, LocalsOK, UNCHANGED fixed, Grown(chain'), NEW n \in Nat, MovedBy(n),
         pc' \in Labels, position' \in PositionType,
         error' \in {"none", "EIO", "ENOSPC"},
         error' = "ENOSPC" => Free = {} /\ chain' = chain,
         pc' # "done" => erased' = {}
  PROVE  CallOK' /\ LocalsOK' /\ BytesInPlace'
<1>1. CallOK'
  BY FixedIs DEF CallOK
<1>2. filesize' <= Len(chain') * bytesPerCluster'
  <2>1. /\ bytesPerCluster \in Nat \ {0} /\ filesize \in Nat
        /\ Len(chain) \in Nat /\ Len(chain') \in Nat /\ Len(chain) <= Len(chain')
        /\ filesize <= Len(chain) * bytesPerCluster
    BY GeometryIs, ChainIs DEF CallOK, LocalsOK, Grown
  <2>2. Len(chain) * bytesPerCluster <= Len(chain') * bytesPerCluster
    BY <2>1, Multiples
  <2>3. filesize <= Len(chain') * bytesPerCluster
    BY <2>1, <2>2
  <2> QED
    BY <2>3, FixedIs
<1>3. position' \in PositionType'
  BY FixedIs DEF PositionType
<1>4. error' = "ENOSPC" => Free' = {}
  BY DEF Free
<1>5. chain' \in Chains
  BY DEF Grown
<1> QED
  BY <1>1, <1>2, <1>3, <1>4, <1>5 DEF LocalsOK, MovedBy

LEMMA StandsIs ==
  ASSUME UNCHANGED fixed, NEW j \in DOMAIN chain', position'.cluster = chain'[j],
         Here' = (j - 1) * bytesPerCluster + (position'.sector * bytesPerSector + position'.byte),
         position'.sector = sectorsPerCluster => position'.byte = 0
  PROVE  Stands(chain, position, Here)'
BY FixedIs DEF Stands

LEMMA StandsStay ==
  ASSUME CallOK, LocalsOK, UNCHANGED fixed, Grown(chain'), UNCHANGED <<moved, position>>,
         Stands(chain, position, Here)
  PROVE  Stands(chain, position, Here)'
<1>1. Here' = Here
  BY FixedIs DEF Here
<1> QED
  BY <1>1, FixedIs DEF Stands, Grown

(* Where a position may be. *)
LEMMA PositionIs ==
  ASSUME CallOK, LocalsOK
  PROVE  /\ bytesPerSector \in Nat \ {0} /\ sectorsPerCluster \in Nat \ {0}
         /\ bytesPerCluster \in Nat \ {0}
         /\ position.cluster \in Clusters
         /\ position.sector \in Nat /\ position.sector <= sectorsPerCluster
         /\ position.byte \in Nat /\ position.byte < bytesPerSector
         /\ position = [cluster |-> position.cluster, sector |-> position.sector,
                        byte |-> position.byte]
         /\ remain \in Nat
BY GeometryIs DEF CallOK, LocalsOK, PositionType

(* The bytes of s sectors, and of k more. *)
LEMMA SectorsAre ==
  ASSUME geometry \in Geometries, NEW s \in Nat, NEW k \in Nat
  PROVE  /\ s * bytesPerSector \in Nat /\ k * bytesPerSector \in Nat
         /\ (s + k) * bytesPerSector = s * bytesPerSector + k * bytesPerSector
         /\ (s + 1) * bytesPerSector = s * bytesPerSector + bytesPerSector
         /\ s <= sectorsPerCluster => s * bytesPerSector <= bytesPerCluster
         /\ s < sectorsPerCluster => s * bytesPerSector + bytesPerSector <= bytesPerCluster
         /\ s = sectorsPerCluster => s * bytesPerSector = bytesPerCluster
         /\ s >= 1 => s * bytesPerSector >= bytesPerSector
         /\ s = 0 => s * bytesPerSector = 0
         /\ s * bytesPerSector < bytesPerCluster => s < sectorsPerCluster
<1>1. bytesPerSector \in Nat \ {0} /\ sectorsPerCluster \in Nat \ {0}
      /\ bytesPerCluster = sectorsPerCluster * bytesPerSector
  BY GeometryIs
<1>2. s * bytesPerSector \in Nat /\ k * bytesPerSector \in Nat
  BY <1>1
<1>3. /\ (s + k) * bytesPerSector = s * bytesPerSector + k * bytesPerSector
      /\ (s + 1) * bytesPerSector = s * bytesPerSector + bytesPerSector
  BY <1>1, Multiples
<1>4. /\ s <= sectorsPerCluster => s * bytesPerSector <= bytesPerCluster
      /\ s < sectorsPerCluster => s * bytesPerSector + bytesPerSector <= bytesPerCluster
      /\ sectorsPerCluster <= s => bytesPerCluster <= s * bytesPerSector
  BY <1>1, Multiples
<1>5. s >= 1 => s * bytesPerSector >= bytesPerSector
  BY <1>1
<1>6. s * bytesPerSector < bytesPerCluster => s < sectorsPerCluster
  BY <1>1, <1>2, <1>4
<1> QED
  BY <1>1, <1>2, <1>3, <1>4, <1>5, <1>6

(* What does not link a cluster, nor lose one. *)
LEMMA ThriftyKept ==
  ASSUME CallOK, LocalsOK, Thrifty, ~InGroup, ~InGroup', UNCHANGED fixed, UNCHANGED chain,
         NEW n \in Nat, MovedBy(n), error' \in {error, "EIO"}
  PROVE  Thrifty'
<1> SUFFICES ASSUME op = "write", error' = error, error # "EIO"
             PROVE  Thrifty'
  BY FixedIs DEF Thrifty
<1> DEFINE start == (Len(chain) - 1) * bytesPerCluster
<1>1. start \in Int /\ Here \in Nat /\ Here' = Here + n /\ remain' = remain - n /\ remain \in Nat
  <2>1. Len(chain) - 1 \in Int /\ bytesPerCluster \in Nat \ {0}
    BY GeometryIs, ChainIs DEF CallOK, LocalsOK
  <2> QED
    BY <2>1, HereIs, Multiples DEF MovedBy, LocalsOK
<1>2. start' = start /\ InHand = 0 /\ InHand' = 0
  BY FixedIs DEF InHand
<1> HIDE DEF start
<1>3. \/ Len(chain) = 1 \/ start < filesize \/ start < Here
      \/ error = "none" /\ start = Here /\ 0 < remain
  BY <1>1, <1>2 DEF Thrifty, start
<1>4. \/ Len(chain') = 1 \/ start' < filesize' \/ start' < Here' + InHand'
      \/ error' = "none" /\ start' = Here' + InHand' /\ InHand' < remain'
  BY <1>1, <1>2, <1>3, FixedIs
<1> QED
  BY <1>4 DEF Thrifty, start

(* A cluster to go on in, from a position that may be at the flag. *)
LEMMA Continued ==
  ASSUME CallOK, LocalsOK, error = "none", UNCHANGED fixed,
         NEW i \in DOMAIN chain, NEW p \in PositionType, p.cluster = chain[i],
         p.sector = sectorsPerCluster => p.byte = 0,
         NEW n \in NextClusterFor(p), chain' = n.links
  PROVE  /\ Grown(chain')
         /\ n.cluster \in Clusters /\ n.sector \in 0 .. sectorsPerCluster
         /\ n.error \in {"none", "ENOSPC"}
         /\ n.error = "none" =>
              \E j \in DOMAIN chain' :
                /\ n.cluster = chain'[j] /\ n.sector < sectorsPerCluster
                /\ (j - 1) * bytesPerCluster + (n.sector * bytesPerSector + p.byte)
                     = (i - 1) * bytesPerCluster + (p.sector * bytesPerSector + p.byte)
                /\ \/ p.sector < sectorsPerCluster /\ j = i /\ n.sector = p.sector
                   \/ p.sector = sectorsPerCluster /\ j = i + 1 /\ n.sector = 0
                /\ Len(chain') = Len(chain) \/ (Len(chain') = Len(chain) + 1 /\ j = Len(chain') /\ n.sector = 0)
         /\ n.error = "ENOSPC" =>
              /\ Free = {} /\ chain' = chain /\ n.cluster = p.cluster /\ n.sector = p.sector
              /\ p.sector = sectorsPerCluster /\ i = Len(chain)
<1>1. /\ geometry \in Geometries /\ chain \in Chains
      /\ bytesPerSector \in Nat \ {0} /\ bytesPerCluster \in Nat \ {0} /\ sectorsPerCluster \in Nat \ {0}
      /\ Len(chain) \in Nat \ {0} /\ DOMAIN chain = 1 .. Len(chain)
      /\ i \in Nat /\ i >= 1 /\ i <= Len(chain) /\ chain[i] \in Clusters
  BY GeometryIs, ChainIs DEF CallOK, LocalsOK
<1>2. /\ p.cluster \in Clusters /\ p.sector \in Nat /\ p.sector <= sectorsPerCluster
      /\ p.sector \in 0 .. sectorsPerCluster /\ p.byte \in Nat
  BY <1>1 DEF PositionType
<1>3. CASE /\ p.sector < sectorsPerCluster
           /\ n = [cluster |-> chain[i], sector |-> p.sector, links |-> chain, error |-> "none"]
  <2>1. /\ n.cluster = chain[i] /\ n.sector = p.sector /\ n.error = "none" /\ chain' = chain
        /\ Grown(chain')
    BY <1>1, <1>3, NotGrown
  <2> QED
    BY <1>1, <1>2, <1>3, <2>1
<1>4. ASSUME NEW j \in DOMAIN chain', j = i + 1, p.sector = sectorsPerCluster,
             n.sector = 0, n.error = "none", n.cluster = chain'[j],
             Len(chain') = Len(chain) \/ (Len(chain') = Len(chain) + 1 /\ j = Len(chain'))
      PROVE  \E k \in DOMAIN chain' :
                /\ n.cluster = chain'[k] /\ n.sector < sectorsPerCluster
                /\ (k - 1) * bytesPerCluster + (n.sector * bytesPerSector + p.byte)
                     = (i - 1) * bytesPerCluster + (p.sector * bytesPerSector + p.byte)
                /\ \/ p.sector < sectorsPerCluster /\ k = i /\ n.sector = p.sector
                   \/ p.sector = sectorsPerCluster /\ k = i + 1 /\ n.sector = 0
                /\ Len(chain') = Len(chain) \/ (Len(chain') = Len(chain) + 1 /\ k = Len(chain') /\ n.sector = 0)
  <2>1. p.sector * bytesPerSector = bytesPerCluster
    BY <1>1, <1>2, <1>4, SectorsAre
  <2>2. (i - 1) * bytesPerCluster = i * bytesPerCluster - bytesPerCluster
    BY <1>1, Multiples
  <2>3. j - 1 = i /\ p.byte = 0 /\ n.sector * bytesPerSector = 0 /\ i * bytesPerCluster \in Int
    BY <1>1, <1>4
  <2>4. (j - 1) * bytesPerCluster + (n.sector * bytesPerSector + p.byte)
          = (i - 1) * bytesPerCluster + (p.sector * bytesPerSector + p.byte)
    BY <1>1, <1>2, <2>1, <2>2, <2>3
  <2>5. n.sector < sectorsPerCluster
    BY <1>1, <1>4
  <2> QED
    BY <1>4, <2>4, <2>5
<1>5. CASE /\ p.sector = sectorsPerCluster /\ i + 1 \in DOMAIN chain
           /\ n = [cluster |-> chain[i + 1], sector |-> 0, links |-> chain, error |-> "none"]
  <2>1. /\ n.cluster = chain[i + 1] /\ n.sector = 0 /\ n.error = "none" /\ chain' = chain
        /\ Grown(chain') /\ chain[i + 1] \in Clusters
    BY <1>1, <1>5, NotGrown, ChainIs
  <2>2. PICK j \in DOMAIN chain' : j = i + 1
    BY <1>5, <2>1
  <2>3. n.cluster = chain'[j] /\ Len(chain') = Len(chain) /\ n.cluster \in Clusters
    BY <2>1, <2>2
  <2>4. n.sector \in 0 .. sectorsPerCluster
    BY <1>1, <2>1
  <2> QED
    BY <1>4, <1>5, <2>1, <2>2, <2>3, <2>4
<1>6. CASE /\ p.sector = sectorsPerCluster /\ i = Len(chain) /\ Free = {}
           /\ n = [cluster |-> chain[i], sector |-> p.sector, links |-> chain, error |-> "ENOSPC"]
  <2>1. /\ n.cluster = chain[i] /\ n.sector = p.sector /\ n.error = "ENOSPC" /\ chain' = chain
        /\ Grown(chain')
    BY <1>1, <1>6, NotGrown
  <2> QED
    BY <1>1, <1>2, <1>6, <2>1
<1>7. CASE /\ p.sector = sectorsPerCluster /\ i = Len(chain) /\ n.cluster \in Free
           /\ n = [cluster |-> n.cluster, sector |-> 0, links |-> Append(chain, n.cluster),
                   error |-> "none"]
  <2>1. PICK c \in Free : c = n.cluster
    BY <1>7
  <2>2. n.sector = 0 /\ n.error = "none" /\ chain' = Append(chain, c)
    BY <1>7, <2>1
  <2>3. Grown(chain') /\ Len(chain') = Len(chain) + 1 /\ chain'[Len(chain) + 1] = c
    BY <1>1, <2>2, AppendIs
  <2>4. i + 1 \in DOMAIN chain' /\ chain'[i + 1] = n.cluster /\ i + 1 = Len(chain')
    <3>1. DOMAIN chain' = 1 .. Len(chain')
      BY <2>3, ChainIs DEF Grown
    <3> QED
      BY <1>1, <1>7, <2>1, <2>3, <3>1
  <2>5. n.cluster \in Clusters
    BY <2>1 DEF Free
  <2>6. PICK j \in DOMAIN chain' : j = i + 1
    BY <2>4
  <2>7. Len(chain') = Len(chain) + 1 /\ j = Len(chain') /\ n.cluster = chain'[j]
    BY <2>3, <2>4, <2>6
  <2>8. n.sector \in 0 .. sectorsPerCluster
    BY <1>1, <2>2
  <2> QED
    BY <1>4, <1>7, <2>2, <2>3, <2>5, <2>6, <2>7, <2>8
<1> QED
  BY <1>1, <1>2, <1>3, <1>5, <1>6, <1>7, NextClusterForIs

(* After an error nothing is looked up. *)
LEMMA NotContinued ==
  ASSUME error # "none", NEW p, NEW n \in NextClusterFor(p)
  PROVE  /\ n.cluster = p.cluster /\ n.sector = p.sector
         /\ n.links = chain /\ n.error = error
BY DEF NextClusterFor

(* The same for the position of the call, which is where a cluster linked  *)
(* for it begins.                                                          *)
LEMMA ContinuedHere ==
  ASSUME CallOK, LocalsOK, error = "none", UNCHANGED fixed, Stands(chain, position, Here),
         NEW n \in NextClusterFor(position), chain' = n.links
  PROVE  /\ Grown(chain')
         /\ [position EXCEPT !.cluster = n.cluster, !.sector = n.sector] \in PositionType
         /\ n.error \in {"none", "ENOSPC"}
         /\ n.error = "none" =>
              /\ n.sector < sectorsPerCluster
              /\ n.sector = position.sector \/ (n.sector = 0 /\ position.byte = 0 /\ position.sector = sectorsPerCluster)
              /\ \E j \in DOMAIN chain' :
                   /\ n.cluster = chain'[j]
                   /\ Here = (j - 1) * bytesPerCluster + (n.sector * bytesPerSector + position.byte)
              /\ Len(chain') = Len(chain) \/ Here = (Len(chain') - 1) * bytesPerCluster
         /\ n.error = "ENOSPC" =>
              /\ Free = {} /\ chain' = chain /\ n.cluster = position.cluster /\ n.sector = position.sector
              /\ (Len(chain) - 1) * bytesPerCluster < Here
<1>1. PICK i \in DOMAIN chain :
        /\ position.cluster = chain[i]
        /\ Here = (i - 1) * bytesPerCluster + (position.sector * bytesPerSector + position.byte)
        /\ position.sector = sectorsPerCluster => position.byte = 0
  BY DEF Stands
<1>2. /\ geometry \in Geometries /\ bytesPerSector \in Nat \ {0} /\ sectorsPerCluster \in Nat \ {0}
      /\ bytesPerCluster \in Nat \ {0} /\ position \in PositionType
      /\ position.sector \in Nat /\ position.byte \in Nat
  BY PositionIs DEF CallOK, LocalsOK
<1>3. /\ Grown(chain')
      /\ n.cluster \in Clusters /\ n.sector \in 0 .. sectorsPerCluster
      /\ n.error \in {"none", "ENOSPC"}
  BY <1>1, <1>2, Continued
<1>4. ASSUME n.error = "none"
      PROVE  /\ n.sector < sectorsPerCluster
             /\ n.sector = position.sector \/ (n.sector = 0 /\ position.byte = 0 /\ position.sector = sectorsPerCluster)
             /\ \E j \in DOMAIN chain' :
                  /\ n.cluster = chain'[j]
                  /\ Here = (j - 1) * bytesPerCluster + (n.sector * bytesPerSector + position.byte)
             /\ Len(chain') = Len(chain) \/ Here = (Len(chain') - 1) * bytesPerCluster
  <2>1. PICK j \in DOMAIN chain' :
          /\ n.cluster = chain'[j] /\ n.sector < sectorsPerCluster
          /\ (j - 1) * bytesPerCluster + (n.sector * bytesPerSector + position.byte)
               = (i - 1) * bytesPerCluster + (position.sector * bytesPerSector + position.byte)
          /\ \/ position.sector < sectorsPerCluster /\ j = i /\ n.sector = position.sector
             \/ position.sector = sectorsPerCluster /\ j = i + 1 /\ n.sector = 0
          /\ Len(chain') = Len(chain) \/ (Len(chain') = Len(chain) + 1 /\ j = Len(chain') /\ n.sector = 0)
    <3>1. /\ position.cluster = chain[i]
          /\ position.sector = sectorsPerCluster => position.byte = 0
      BY <1>1
    <3> QED
      BY <3>1, <1>2, <1>4, Continued
  <2>2. n.sector = position.sector \/ (n.sector = 0 /\ position.byte = 0 /\ position.sector = sectorsPerCluster)
    BY <1>1, <2>1
  <2>3. /\ n.sector < sectorsPerCluster
        /\ \E k \in DOMAIN chain' :
             /\ n.cluster = chain'[k]
             /\ Here = (k - 1) * bytesPerCluster + (n.sector * bytesPerSector + position.byte)
    BY <1>1, <2>1
  <2>4. CASE Len(chain') # Len(chain)
    <3>1. /\ i \in Nat /\ i <= Len(chain) /\ Len(chain) \in Nat
          /\ j \in Nat /\ j >= 1 /\ j = Len(chain) + 1 /\ j = Len(chain') /\ n.sector = 0
      BY <1>3, <2>1, <2>4, ChainIs DEF LocalsOK, Grown
    <3>2. position.byte = 0
      BY <1>1, <2>1, <3>1
    <3>3. (j - 1) * bytesPerCluster \in Int /\ 0 * bytesPerSector = 0
      BY <1>2, <3>1
    <3>4. Here = (j - 1) * bytesPerCluster
      BY <1>1, <2>1, <3>1, <3>2, <3>3
    <3> QED
      BY <2>2, <2>3, <3>1, <3>4
  <2> QED
    BY <2>2, <2>3, <2>4
<1>5. ASSUME n.error = "ENOSPC"
      PROVE  /\ Free = {} /\ chain' = chain /\ n.cluster = position.cluster /\ n.sector = position.sector
             /\ (Len(chain) - 1) * bytesPerCluster < Here
  <2>1. /\ Free = {} /\ chain' = chain /\ n.cluster = position.cluster /\ n.sector = position.sector
        /\ position.sector = sectorsPerCluster /\ i = Len(chain)
    BY <1>1, <1>2, <1>5, Continued
  <2>2. position.sector * bytesPerSector = bytesPerCluster /\ position.byte = 0
    BY <1>1, <1>2, <2>1, SectorsAre
  <2>3. (i - 1) * bytesPerCluster \in Int
    <3>1. i \in Nat
      BY ChainIs DEF LocalsOK
    <3> QED
      BY <1>2, <3>1
  <2> QED
    BY <1>1, <1>2, <2>1, <2>2, <2>3
<1>6. [position EXCEPT !.cluster = n.cluster, !.sector = n.sector] \in PositionType
  BY <1>2, <1>3 DEF PositionType
<1> QED
  BY <1>3, <1>4, <1>5, <1>6

(* fat_check_position_for_next_cluster before a phase of a write. *)
LEMMA CheckIs ==
  ASSUME CallOK, LocalsOK, BytesInPlace, Thrifty, ~InGroup, Stands(chain, position, Here),
         UNCHANGED fixed, pc # "done",
         NEW label \in {"head", "rest", "tail"}, CheckPosition(label)
  PROVE  /\ CallOK' /\ LocalsOK' /\ BytesInPlace' /\ Thrifty' /\ Stands(chain, position, Here)'
         /\ pc' = label /\ op' = op /\ remain' = remain /\ position'.byte = position.byte
         /\ (error' = "none" /\ remain > 0) => position'.sector < sectorsPerCluster
         /\ position'.sector = position.sector
              \/ (position'.sector = 0 /\ position.byte = 0 /\ position.sector = sectorsPerCluster)
         /\ error' # "none" \/ error = "none"
<1>1. /\ UNCHANGED <<moved, remain, group, erased>> /\ pc' = label /\ op' = op
      /\ erased' = {} /\ chain \in Chains /\ Grown(chain)
  BY NotGrown, FixedIs DEF CheckPosition, Goto, LocalsOK
<1>2. CASE remain = 0 \/ error # "none"
  <2>1. UNCHANGED <<position, chain, error>>
    <3>1. CASE remain = 0
      BY <3>1 DEF CheckPosition
    <3>2. CASE remain # 0 /\ error # "none"
      <4>1. PICK n \in NextClusterFor(position) :
              /\ position' = [position EXCEPT !.cluster = n.cluster, !.sector = n.sector]
              /\ chain' = n.links /\ error' = n.error
        BY <3>2 DEF CheckPosition
      <4>2. n.cluster = position.cluster /\ n.sector = position.sector /\ n.links = chain /\ n.error = error
        BY <3>2, NotContinued
      <4>3. position' = position
        BY <4>1, <4>2 DEF LocalsOK, PositionType
      <4> QED
        BY <4>1, <4>2, <4>3
    <3> QED
      BY <1>2, <3>1, <3>2
  <2>2. Grown(chain') /\ MovedBy(0)
    BY <1>1, <2>1, NotMoved
  <2>3. CallOK' /\ LocalsOK' /\ BytesInPlace'
    BY <1>1, <2>1, <2>2, LocalsNext DEF LocalsOK, Labels
  <2>4. Stands(chain, position, Here)'
    BY <1>1, <2>1, <2>2, StandsStay
  <2>5. Thrifty'
    BY <1>1, <2>1, <2>2, ThriftyKept DEF InGroup
  <2> QED
    BY <1>1, <1>2, <2>1, <2>3, <2>4, <2>5 DEF LocalsOK
<1>3. CASE remain # 0 /\ error = "none"
  <2>1. PICK n \in NextClusterFor(position) :
          /\ position' = [position EXCEPT !.cluster = n.cluster, !.sector = n.sector]
          /\ chain' = n.links /\ error' = n.error
    BY <1>3 DEF CheckPosition
  <2>2. /\ position'.cluster = n.cluster /\ position'.sector = n.sector /\ position'.byte = position.byte
    BY <2>1 DEF LocalsOK, PositionType
  <2>3. /\ Grown(chain') /\ position' \in PositionType /\ error' \in {"none", "ENOSPC"}
        /\ error' = "ENOSPC" => Free = {} /\ chain' = chain
    BY <1>3, <2>1, ContinuedHere
  <2>4. MovedBy(0) /\ Here' = Here
    <3>1. MovedBy(0)
      BY <1>1, <2>3, NotMoved
    <3> QED
      BY <3>1, HereIs DEF MovedBy
  <2>5. CallOK' /\ LocalsOK' /\ BytesInPlace'
    BY <1>1, <2>3, <2>4, LocalsNext DEF Labels
  <2>6. CASE error' = "none"
    <3>1. /\ n.sector < sectorsPerCluster
          /\ n.sector = position.sector \/ (n.sector = 0 /\ position.byte = 0 /\ position.sector = sectorsPerCluster)
          /\ \E j \in DOMAIN chain' :
               /\ n.cluster = chain'[j]
               /\ Here = (j - 1) * bytesPerCluster + (n.sector * bytesPerSector + position.byte)
          /\ Len(chain') = Len(chain) \/ Here = (Len(chain') - 1) * bytesPerCluster
      BY <1>3, <2>1, <2>6, ContinuedHere
    <3>2. Stands(chain, position, Here)'
      <4>1. sectorsPerCluster \in Nat /\ n.sector # sectorsPerCluster
        BY <3>1, PositionIs
      <4> QED
        BY <2>2, <2>4, <3>1, <4>1, StandsIs
    <3>3. Thrifty'
      <4> DEFINE start == (Len(chain) - 1) * bytesPerCluster
                 next == (Len(chain') - 1) * bytesPerCluster
      <4>1. InHand = 0 /\ InHand' = 0 /\ ~InGroup' /\ 0 < remain' /\ next = start'
        BY <1>1, <1>3, FixedIs DEF InHand, InGroup, LocalsOK
      <4>2. CASE Here = next
        <5>1. start' = Here' + InHand'
          <6>1. Here' \in Nat
            BY <2>4, HereIs
          <6> QED
            BY <4>1, <4>2, <2>4, <6>1
        <5> QED
          BY <2>6, <4>1, <5>1 DEF Thrifty
      <4>3. CASE Len(chain') = Len(chain)
        <5>1. start' = start
          BY <4>3, FixedIs
        <5> HIDE DEF start
        <5>2. op = "write" => \/ Len(chain) = 1 \/ start < filesize \/ start < Here + InHand
                 \/ start = Here + InHand
          BY <1>3 DEF Thrifty, start
        <5>3. op = "write" => \/ Len(chain') = 1 \/ start' < filesize' \/ start' < Here' + InHand'
                 \/ start' = Here' + InHand'
          BY <5>1, <5>2, <4>1, <4>3, <2>4, FixedIs
        <5> QED
          BY <2>6, <4>1, <5>3, FixedIs DEF Thrifty, start
      <4> QED
        BY <3>1, <4>2, <4>3
    <3> QED
      BY <1>1, <1>3, <2>2, <2>5, <3>1, <3>2, <3>3
  <2>7. CASE error' = "ENOSPC"
    <3>1. /\ chain' = chain /\ n.cluster = position.cluster /\ n.sector = position.sector
          /\ (Len(chain) - 1) * bytesPerCluster < Here
      BY <1>3, <2>1, <2>7, ContinuedHere
    <3>2. position' = position
      BY <2>1, <3>1 DEF LocalsOK, PositionType
    <3>3. Stands(chain, position, Here)'
      BY <1>1, <2>3, <3>2, StandsStay
    <3>4. Thrifty'
      <4>1. (Len(chain') - 1) * bytesPerCluster' < Here' + InHand'
        <5>1. InHand' = 0 /\ Here \in Nat
          BY <1>1, HereIs DEF InHand, InGroup
        <5> QED
          BY <2>4, <3>1, <5>1, FixedIs
      <4> QED
        BY <4>1 DEF Thrifty
    <3> QED
      BY <1>1, <1>3, <2>5, <2>7, <3>2, <3>3, <3>4
  <2> QED
    BY <2>3, <2>6, <2>7
<1> QED
  BY <1>2, <1>3

(* A run of bytes from where the position is, which follows it. *)
LEMMA HereMoves ==
  ASSUME CallOK, LocalsOK, BytesInPlace, UNCHANGED fixed, UNCHANGED chain,
         Stands(chain, position, Here), NEW n \in Nat, n <= remain,
         NEW p, p.cluster = position.cluster, p.sector = position.sector, p.byte = position.byte,
         position.sector * bytesPerSector + position.byte + n <= bytesPerCluster,
         MoveUnchecked(p, n), position'.cluster = position.cluster,
         position'.sector * bytesPerSector + position'.byte
           = position.sector * bytesPerSector + position.byte + n,
         position'.sector = sectorsPerCluster => position'.byte = 0
  PROVE  MovedBy(n) /\ Stands(chain, position, Here)'
<1>1. Grown(chain') /\ chain \in Chains
  BY NotGrown DEF LocalsOK
<1>2. PICK i \in DOMAIN chain :
        /\ position.cluster = chain[i]
        /\ Here = (i - 1) * bytesPerCluster + (position.sector * bytesPerSector + position.byte)
  BY DEF Stands
<1>3. /\ position.sector \in Nat /\ position.byte \in Nat
      /\ bytesPerSector \in Nat \ {0} /\ bytesPerCluster \in Nat \ {0} /\ i \in Nat
  BY <1>1, PositionIs, ChainIs
<1>4. MovedBy(n)
  BY <1>1, <1>2, <1>3, MoveInCluster
<1>5. Here' = (i - 1) * bytesPerCluster + (position'.sector * bytesPerSector + position'.byte)
  <2>1. PICK off \in Nat : off = position.sector * bytesPerSector + position.byte
    BY <1>3
  <2>2. (i - 1) * bytesPerCluster \in Int
    BY <1>3
  <2>3. Here' = Here + n /\ Here \in Nat
    BY <1>4, HereIs DEF MovedBy
  <2> QED
    BY <1>2, <2>1, <2>2, <2>3
<1>6. Stands(chain, position, Here)'
  BY <1>2, <1>5, StandsIs
<1> QED
  BY <1>4, <1>6

(* A step that neither links a cluster nor takes part in a group. *)
LEMMA StepKeeps ==
  ASSUME CallOK, LocalsOK, BytesInPlace, Thrifty, ~InGroup, UNCHANGED fixed, UNCHANGED chain,
         NEW n \in Nat, MovedBy(n), pc' \in Labels \ {"group", "chunk"},
         position' \in PositionType, error' \in {error, "EIO"},
         pc' # "done" => erased' = {}
  PROVE  CallOK' /\ LocalsOK' /\ BytesInPlace' /\ Thrifty' /\ Groups'
<1>1. Grown(chain') /\ error' \in {"none", "EIO", "ENOSPC"}
      /\ (error' = "ENOSPC" => Free = {} /\ chain' = chain)
  BY NotGrown DEF LocalsOK
<1>2. CallOK' /\ LocalsOK' /\ BytesInPlace'
  BY <1>1, LocalsNext
<1>3. ~InGroup'
  BY DEF InGroup
<1>4. Thrifty'
  BY <1>3, ThriftyKept
<1> QED
  BY <1>2, <1>3, <1>4 DEF Groups

-----------------------------------------------------------------------------
(* The beginning of a call. *)

LEMMA ReadBeginStep ==
  ASSUME IInv, ReadBegin, UNCHANGED fixed
  PROVE  IInv'
<1>1. CallOK /\ LocalsOK /\ BytesInPlace /\ Phases /\ Thrifty /\ ~InGroup
  BY DEF IInv, ReadBegin, InGroup
<1>2. /\ UNCHANGED <<chain, position, remain, group, error, moved, erased>> /\ pc' = "head"
      /\ op = "read" /\ pc = "begin" /\ Grown(chain')
  BY <1>1, NotGrown DEF ReadBegin, Goto, LocalsOK
<1>3. MovedBy(0)
  BY <1>1, <1>2, NotMoved
<1>4. CallOK' /\ LocalsOK' /\ BytesInPlace' /\ Thrifty' /\ Groups'
  BY <1>1, <1>2, <1>3, StepKeeps DEF LocalsOK, Labels
<1>5. Stands(chain, position, Here)'
  BY <1>1, <1>2, StandsStay DEF Phases, AtBegin
<1>6. Phases'
  BY <1>1, <1>2, <1>5, FixedIs DEF Phases, AtBegin, AtHead
<1> QED
  BY <1>4, <1>6 DEF IInv

LEMMA WriteBeginStep ==
  ASSUME IInv, WriteBegin, UNCHANGED fixed
  PROVE  IInv'
<1>1. /\ CallOK /\ LocalsOK /\ BytesInPlace /\ Phases /\ Thrifty /\ ~InGroup
      /\ pc = "begin" /\ op = "write" /\ CheckPosition("head") /\ AtBegin
      /\ Stands(chain, position, Here)
  BY DEF IInv, WriteBegin, InGroup, Phases, AtBegin
<1>2. /\ CallOK' /\ LocalsOK' /\ BytesInPlace' /\ Thrifty' /\ Stands(chain, position, Here)'
      /\ pc' = "head" /\ op' = op /\ remain' = remain
      /\ (error' = "none" /\ remain > 0) => position'.sector < sectorsPerCluster
  BY <1>1, CheckIs
<1>3. Groups'
  BY <1>2 DEF Groups, InGroup
<1>4. Phases'
  BY <1>1, <1>2, FixedIs DEF Phases, AtBegin, AtHead
<1> QED
  BY <1>2, <1>3, <1>4 DEF IInv

(* A step of an extension, which may link a cluster. *)
LEMMA ExtendKeeps ==
  ASSUME CallOK, LocalsOK, BytesInPlace, op = "extend", UNCHANGED fixed, Grown(chain'),
         NEW n \in Nat, MovedBy(n), pc' \in Labels \ {"group", "chunk"},
         position' \in PositionType, error' \in {"none", "EIO", "ENOSPC"},
         error' = "ENOSPC" => Free = {} /\ chain' = chain,
         pc' # "done" => erased' = {}
  PROVE  CallOK' /\ LocalsOK' /\ BytesInPlace' /\ Thrifty' /\ Groups' /\ op' = "extend"
<1>1. CallOK' /\ LocalsOK' /\ BytesInPlace'
  BY LocalsNext
<1>2. op' = "extend" /\ ~InGroup'
  BY FixedIs DEF InGroup
<1> QED
  BY <1>1, <1>2 DEF Thrifty, Groups

LEMMA ExtendBeginStep ==
  ASSUME IInv, ExtendBegin, UNCHANGED fixed
  PROVE  IInv'
<1>1. /\ CallOK /\ LocalsOK /\ BytesInPlace /\ Phases
      /\ pc = "begin" /\ op = "extend" /\ AtBegin /\ UNCHANGED <<moved, remain, group, erased>>
      /\ remain > 0 /\ error = "none" /\ erased' = {}
  BY DEF IInv, ExtendBegin, Phases, AtBegin, LocalsOK
<1>2. /\ position.sector \in Nat /\ position.byte \in Nat /\ position \in PositionType
      /\ position = [cluster |-> position.cluster, sector |-> position.sector, byte |-> position.byte]
      /\ bytesPerSector \in Nat \ {0} /\ sectorsPerCluster \in Nat \ {0} /\ bytesPerCluster \in Nat \ {0}
      /\ geometry \in Geometries /\ chain \in Chains
  BY <1>1, PositionIs DEF LocalsOK, CallOK
<1>3. CASE ~(filesize > 0 /\ position.sector = 0 /\ position.byte = 0)
  <2>1. /\ Stands(chain, position, Here) /\ position.sector < sectorsPerCluster
    BY <1>1, <1>3 DEF AtBegin
  <2>2. UNCHANGED <<position, chain, error>> /\ pc' = "head"
    BY <1>1, <1>3 DEF ExtendBegin, Goto
  <2>3. Grown(chain') /\ MovedBy(0)
    BY <1>1, <1>2, <2>2, NotGrown, NotMoved
  <2>4. CallOK' /\ LocalsOK' /\ BytesInPlace' /\ Thrifty' /\ Groups' /\ op' = "extend"
    BY <1>1, <1>2, <2>2, <2>3, ExtendKeeps DEF Labels
  <2>5. Stands(chain, position, Here)'
    BY <1>1, <2>1, <2>2, <2>3, StandsStay
  <2>6. Phases'
    BY <1>1, <2>1, <2>2, <2>4, <2>5, FixedIs DEF Phases, AtHead
  <2> QED
    BY <2>4, <2>6 DEF IInv
<1>4. CASE filesize > 0 /\ position.sector = 0 /\ position.byte = 0
  <2> DEFINE i == Len(chain)
             p == [position EXCEPT !.sector = sectorsPerCluster]
  <2>1. /\ Here = i * bytesPerCluster /\ position.cluster = chain[i] /\ i \in DOMAIN chain
        /\ i \in Nat
    <3>1. /\ Here = Len(chain) * bytesPerCluster
          /\ position = [cluster |-> chain[Len(chain)], sector |-> 0, byte |-> 0]
      BY <1>1, <1>4 DEF AtBegin
    <3> QED
      BY <1>2, <3>1, ChainIs
  <2>2. /\ p \in PositionType /\ p.cluster = chain[i] /\ p.sector = sectorsPerCluster /\ p.byte = 0
    BY <1>2, <1>4, <2>1 DEF PositionType
  <2>3. PICK n \in NextClusterFor(p) :
          /\ position' = [position EXCEPT !.cluster = n.cluster]
          /\ chain' = n.links /\ error' = n.error
          /\ pc' = IF n.error = "none" THEN "head" ELSE "done"
    BY <1>1, <1>4 DEF ExtendBegin, Goto
  <2> HIDE DEF p, i
  <2>4. /\ Grown(chain') /\ n.cluster \in Clusters /\ n.error \in {"none", "ENOSPC"}
        /\ n.error = "ENOSPC" => Free = {} /\ chain' = chain
    BY <1>1, <2>1, <2>2, <2>3, Continued
  <2>5. position' \in PositionType /\ position'.cluster = n.cluster /\ position'.sector = 0 /\ position'.byte = 0
    BY <1>2, <1>4, <2>3, <2>4 DEF PositionType
  <2>6. MovedBy(0) /\ Here' = Here
    BY <1>1, <2>4, NotMoved, FixedIs DEF Here
  <2>7. CallOK' /\ LocalsOK' /\ BytesInPlace' /\ Thrifty' /\ Groups' /\ op' = "extend"
    BY <1>1, <2>3, <2>4, <2>5, <2>6, ExtendKeeps DEF Labels
  <2>8. CASE n.error = "none"
    <3>1. PICK j \in DOMAIN chain' :
            /\ n.cluster = chain'[j]
            /\ (j - 1) * bytesPerCluster + (n.sector * bytesPerSector + p.byte)
                 = (i - 1) * bytesPerCluster + (p.sector * bytesPerSector + p.byte)
            /\ n.sector = 0
      <4>1. PICK j \in DOMAIN chain' :
              /\ n.cluster = chain'[j] /\ n.sector < sectorsPerCluster
              /\ (j - 1) * bytesPerCluster + (n.sector * bytesPerSector + p.byte)
                   = (i - 1) * bytesPerCluster + (p.sector * bytesPerSector + p.byte)
              /\ \/ p.sector < sectorsPerCluster /\ j = i /\ n.sector = p.sector
                 \/ p.sector = sectorsPerCluster /\ j = i + 1 /\ n.sector = 0
              /\ Len(chain') = Len(chain) \/ (Len(chain') = Len(chain) + 1 /\ j = Len(chain') /\ n.sector = 0)
        BY <1>1, <2>1, <2>2, <2>3, <2>8, Continued
      <4> QED
        BY <1>2, <2>2, <4>1
    <3>2. p.sector * bytesPerSector = bytesPerCluster
      BY <1>2, <2>2, SectorsAre
    <3>3. (i - 1) * bytesPerCluster = i * bytesPerCluster - bytesPerCluster /\ i * bytesPerCluster \in Int
      BY <1>2, <2>1, Multiples
    <3>4. Here' = (j - 1) * bytesPerCluster + (position'.sector * bytesPerSector + position'.byte)
      BY <1>2, <2>1, <2>2, <2>5, <2>6, <3>1, <3>2, <3>3
    <3>5. Stands(chain, position, Here)'
      BY <2>5, <3>1, <3>4, StandsIs
    <3>6. Phases'
      BY <1>1, <1>2, <2>3, <2>5, <2>7, <2>8, <3>5, FixedIs DEF Phases, AtHead
    <3> QED
      BY <2>7, <3>6 DEF IInv
  <2>9. CASE n.error = "ENOSPC"
    <3>1. Phases'
      BY <2>3, <2>7, <2>9 DEF Phases, AtEnd
    <3> QED
      BY <2>7, <3>1 DEF IInv
  <2> QED
    BY <2>4, <2>8, <2>9
<1> QED
  BY <1>3, <1>4

-----------------------------------------------------------------------------
(* Up to the border of a sector, then of a cluster. *)

LEMMA AfterBytesIs ==
  ASSUME geometry \in Geometries, NEW p \in PositionType, p.sector < sectorsPerCluster,
         NEW n \in Nat, p.byte + n <= bytesPerSector
  PROVE  /\ AfterBytes(p, n) \in PositionType
         /\ AfterBytes(p, n).cluster = p.cluster
         /\ p.byte + n = bytesPerSector => AfterBytes(p, n).byte = 0
         /\ AfterBytes(p, n).sector = sectorsPerCluster => AfterBytes(p, n).byte = 0
         /\ AfterBytes(p, n).sector * bytesPerSector + AfterBytes(p, n).byte
              = p.sector * bytesPerSector + p.byte + n
         /\ p.sector * bytesPerSector + p.byte + n <= bytesPerCluster
<1>1. /\ p.cluster \in Clusters /\ p.sector \in Nat /\ p.byte \in Nat
      /\ bytesPerSector \in Nat \ {0} /\ sectorsPerCluster \in Nat \ {0} /\ bytesPerCluster \in Nat
      /\ p = [cluster |-> p.cluster, sector |-> p.sector, byte |-> p.byte]
  BY GeometryIs DEF PositionType
<1>2. PICK m \in Nat : m = p.sector * bytesPerSector
  BY <1>1
<1>3. (p.sector + 1) * bytesPerSector = m + bytesPerSector /\ m + bytesPerSector <= bytesPerCluster
  BY <1>1, <1>2, SectorsAre
<1>4. CASE p.byte + n = bytesPerSector
  <2>1. AfterBytes(p, n) = [cluster |-> p.cluster, sector |-> p.sector + 1, byte |-> 0]
    BY <1>1, <1>4 DEF AfterBytes
  <2>2. p.sector + 1 \in 0 .. sectorsPerCluster /\ 0 \in 0 .. bytesPerSector - 1
    BY <1>1
  <2> QED
    BY <1>1, <1>2, <1>3, <1>4, <2>1, <2>2 DEF PositionType
<1>5. CASE p.byte + n < bytesPerSector
  <2>1. AfterBytes(p, n) = [cluster |-> p.cluster, sector |-> p.sector, byte |-> p.byte + n]
    BY <1>1, <1>5 DEF AfterBytes
  <2>2. p.sector \in 0 .. sectorsPerCluster /\ p.byte + n \in 0 .. bytesPerSector - 1
        /\ p.sector # sectorsPerCluster
    BY <1>1, <1>5
  <2> QED
    BY <1>1, <1>2, <1>3, <1>5, <2>1, <2>2 DEF PositionType
<1> QED
  BY <1>1, <1>4, <1>5

LEMMA AlignToSectorStep ==
  ASSUME IInv, AlignToSector, UNCHANGED fixed
  PROVE  IInv'
<1>1. /\ CallOK /\ LocalsOK /\ BytesInPlace /\ Phases /\ Thrifty /\ ~InGroup
      /\ pc = "head" /\ op # "extend" /\ pc' = "sectors" /\ UNCHANGED <<chain, group, erased>>
      /\ AtHead /\ Stands(chain, position, Here) /\ erased' = {}
  BY DEF IInv, AlignToSector, Goto, InGroup, Phases, LocalsOK
<1>2. /\ position.sector \in Nat /\ position.byte \in Nat /\ position \in PositionType
      /\ position.sector <= sectorsPerCluster /\ position.byte < bytesPerSector
      /\ bytesPerSector \in Nat \ {0} /\ sectorsPerCluster \in Nat \ {0} /\ bytesPerCluster \in Nat \ {0}
      /\ geometry \in Geometries /\ chain \in Chains /\ remain \in Nat
      /\ position.sector = sectorsPerCluster => position.byte = 0
  BY <1>1, PositionIs DEF LocalsOK, CallOK, Stands
<1>3. PICK part \in Nat :
        /\ part = IF bytesPerSector - position.byte > remain THEN remain ELSE bytesPerSector - position.byte
        /\ IF part < bytesPerSector /\ error = "none"
           THEN MoveUnchecked(position, part) /\ position' = AfterBytes(position, part) /\ UNCHANGED error
           ELSE Skip
  <2> DEFINE part == IF bytesPerSector - position.byte > remain THEN remain ELSE bytesPerSector - position.byte
  <2>1. part \in Nat
    BY <1>2
  <2>2. IF part < bytesPerSector /\ error = "none"
        THEN MoveUnchecked(position, part) /\ position' = AfterBytes(position, part) /\ UNCHANGED error
        ELSE Skip
    BY DEF AlignToSector
  <2> QED
    BY <2>1, <2>2
<1>4. CASE part < bytesPerSector /\ error = "none"
  <2>1. position.sector < sectorsPerCluster
    BY <1>1, <1>2, <1>3, <1>4 DEF AtHead
  <2>2. position' = AfterBytes(position, part) /\ MoveUnchecked(position, part)
    BY <1>3, <1>4
  <2>3. /\ position.byte + part <= bytesPerSector /\ part <= remain
        /\ (position.byte + part = bytesPerSector \/ part = remain)
    BY <1>2, <1>3
  <2>4. /\ position' \in PositionType /\ position'.cluster = position.cluster
        /\ position.byte + part = bytesPerSector => position'.byte = 0
        /\ position'.sector = sectorsPerCluster => position'.byte = 0
        /\ position'.sector * bytesPerSector + position'.byte
             = position.sector * bytesPerSector + position.byte + part
        /\ position.sector * bytesPerSector + position.byte + part <= bytesPerCluster
    <3> DEFINE q == AfterBytes(position, part)
    <3>1. /\ q \in PositionType /\ q.cluster = position.cluster
          /\ position.byte + part = bytesPerSector => q.byte = 0
          /\ q.sector = sectorsPerCluster => q.byte = 0
          /\ q.sector * bytesPerSector + q.byte
               = position.sector * bytesPerSector + position.byte + part
          /\ position.sector * bytesPerSector + position.byte + part <= bytesPerCluster
      BY <1>2, <2>1, <2>3, AfterBytesIs
    <3>2. position' = q
      BY <2>2
    <3> HIDE DEF q
    <3> QED
      BY <3>1, <3>2
  <2>5. MovedBy(part) /\ Stands(chain, position, Here)'
    BY <1>1, <2>2, <2>3, <2>4, HereMoves
  <2>6. CallOK' /\ LocalsOK' /\ BytesInPlace' /\ Thrifty' /\ Groups'
    BY <1>1, <1>3, <1>4, <2>4, <2>5, StepKeeps DEF Labels
  <2>7. Ready'
    BY <1>2, <2>3, <2>4, <2>5 DEF Ready, MovedBy
  <2> QED
    BY <1>1, <2>5, <2>6, <2>7, FixedIs DEF Phases, IInv
<1>5. CASE ~(part < bytesPerSector /\ error = "none")
  <2>1. UNCHANGED <<moved, remain, position, error>>
    BY <1>3, <1>5 DEF Skip
  <2>2. Grown(chain') /\ MovedBy(0)
    BY <1>1, <1>2, <2>1, NotGrown, NotMoved
  <2>3. CallOK' /\ LocalsOK' /\ BytesInPlace' /\ Thrifty' /\ Groups'
    BY <1>1, <1>2, <2>1, <2>2, StepKeeps DEF Labels
  <2>4. Stands(chain, position, Here)'
    BY <1>1, <2>1, <2>2, StandsStay
  <2>5. error' = "none" => Ready'
    BY <1>2, <1>3, <1>5, <2>1 DEF Ready
  <2> QED
    BY <1>1, <2>3, <2>4, <2>5, FixedIs DEF Phases, IInv
<1> QED
  BY <1>4, <1>5

(* The whole sectors of the cluster: to its end, or to that of the call. *)
LEMMA RestOfClusterIs ==
  ASSUME geometry \in Geometries, position \in PositionType, remain \in Nat
  PROVE  /\ RestOfCluster \in Nat /\ RestOfCluster <= sectorsPerCluster - position.sector
         /\ RestOfCluster * bytesPerSector <= remain
         /\ \/ RestOfCluster = sectorsPerCluster - position.sector
            \/ remain - RestOfCluster * bytesPerSector < bytesPerSector
<1>1. /\ bytesPerSector \in Nat \ {0} /\ sectorsPerCluster \in Nat \ {0}
      /\ position.sector \in Nat /\ position.sector <= sectorsPerCluster
  BY GeometryIs DEF PositionType
<1>2. PICK room \in Nat : room = sectorsPerCluster - position.sector
  BY <1>1
<1>3. CASE remain > room * bytesPerSector
  <2>1. RestOfCluster = room
    BY <1>2, <1>3 DEF RestOfCluster
  <2> QED
    BY <1>1, <1>2, <1>3, <2>1
<1>4. CASE ~(remain > room * bytesPerSector)
  <2> DEFINE n == remain \div bytesPerSector
  <2>1. RestOfCluster = n
    BY <1>2, <1>4 DEF RestOfCluster
  <2>2. n \in Nat /\ n * bytesPerSector <= remain /\ remain - n * bytesPerSector < bytesPerSector
    <3>1. /\ n \in Nat /\ remain % bytesPerSector \in 0 .. bytesPerSector - 1
          /\ remain = n * bytesPerSector + (remain % bytesPerSector)
      BY <1>1, DivMod
    <3>2. PICK m \in Nat : m = n * bytesPerSector
      BY <1>1, <3>1
    <3> QED
      BY <1>1, <3>1, <3>2
  <2> HIDE DEF n
  <2>3. n <= room
    <3>1. CASE n > room
      <4>1. room * bytesPerSector + bytesPerSector <= n * bytesPerSector
        BY <1>1, <1>2, <2>2, <3>1, Multiples
      <4>2. room * bytesPerSector \in Nat /\ n * bytesPerSector \in Nat
        BY <1>1, <1>2, <2>2
      <4> QED
        BY <1>1, <1>4, <2>2, <4>1, <4>2
    <3> QED
      BY <2>2, <3>1
  <2> QED
    BY <1>2, <2>1, <2>2, <2>3
<1> QED
  BY <1>1, <1>2, <1>3, <1>4

LEMMA AlignToClusterStep ==
  ASSUME IInv, AlignToCluster, UNCHANGED fixed
  PROVE  IInv'
<1>1. /\ CallOK /\ LocalsOK /\ BytesInPlace /\ Phases /\ Thrifty /\ ~InGroup
      /\ pc = "sectors" /\ op \in {"read", "write"} /\ UNCHANGED <<chain, group, erased>>
      /\ pc' = (IF op = "read" THEN "advance" ELSE "clusters")
      /\ (error = "none" => Ready) /\ Stands(chain, position, Here) /\ erased' = {}
  BY DEF IInv, AlignToCluster, Goto, InGroup, Phases, LocalsOK, CallOK
<1>2. /\ position.sector \in Nat /\ position.byte \in Nat /\ position \in PositionType
      /\ position = [cluster |-> position.cluster, sector |-> position.sector, byte |-> position.byte]
      /\ position.cluster \in Clusters
      /\ position.sector <= sectorsPerCluster /\ position.byte < bytesPerSector
      /\ bytesPerSector \in Nat \ {0} /\ sectorsPerCluster \in Nat \ {0} /\ bytesPerCluster \in Nat \ {0}
      /\ geometry \in Geometries /\ chain \in Chains /\ remain \in Nat
  BY <1>1, PositionIs DEF LocalsOK, CallOK
<1>3. PICK n \in Nat :
        /\ n <= sectorsPerCluster - position.sector /\ n * bytesPerSector <= remain
        /\ n = sectorsPerCluster - position.sector \/ remain - n * bytesPerSector < bytesPerSector
        /\ IF n > 0 /\ error = "none" /\ (op = "write" => n < sectorsPerCluster)
           THEN \/ /\ Move(position, n * bytesPerSector)
                   /\ position' = [position EXCEPT !.sector = @ + n]
                   /\ UNCHANGED error
                \/ Fail
           ELSE Skip
  BY <1>2, RestOfClusterIs DEF AlignToCluster
<1>4. PICK m \in Nat : m = n * bytesPerSector
  BY <1>2
<1>5. CASE /\ n > 0 /\ error = "none" /\ error' = "none" /\ Move(position, n * bytesPerSector)
           /\ position' = [position EXCEPT !.sector = @ + n]
  <2>1. Move(position, m) /\ m <= remain /\ m >= bytesPerSector
    BY <1>2, <1>3, <1>4, <1>5, SectorsAre
  <2>2. position.byte = 0
    BY <1>1, <1>2, <1>5, <2>1 DEF Ready
  <2>3. /\ position' = [cluster |-> position.cluster, sector |-> position.sector + n, byte |-> 0]
        /\ position.sector + n \in 0 .. sectorsPerCluster /\ 0 \in 0 .. bytesPerSector - 1
    BY <1>2, <1>3, <1>5, <2>2
  <2>4. position' \in PositionType
    BY <1>2, <2>3 DEF PositionType
  <2>5. (position.sector + n) * bytesPerSector = position.sector * bytesPerSector + m
        /\ (position.sector + n) * bytesPerSector <= bytesPerCluster
        /\ position.sector * bytesPerSector \in Nat
    <3>1. PICK k \in Nat : k = position.sector + n
      BY <1>2
    <3>2. k * bytesPerSector <= bytesPerCluster
      BY <1>2, <1>3, <3>1, SectorsAre
    <3> QED
      BY <1>2, <1>4, <3>1, <3>2, SectorsAre
  <2>6. MovedBy(m) /\ Stands(chain, position, Here)'
    <3>1. /\ position'.cluster = position.cluster /\ position'.byte = 0
          /\ position'.sector * bytesPerSector + position'.byte
               = position.sector * bytesPerSector + position.byte + m
          /\ position.sector * bytesPerSector + position.byte + m <= bytesPerCluster
      BY <1>2, <2>2, <2>3, <2>5
    <3> QED
      BY <1>1, <2>1, <3>1, HereMoves DEF MoveUnchecked
  <2>7. CallOK' /\ LocalsOK' /\ BytesInPlace' /\ Thrifty' /\ Groups'
    BY <1>1, <1>5, <2>4, <2>6, StepKeeps DEF Labels
  <2>8. Ready' /\ (remain' < bytesPerSector \/ position'.sector = sectorsPerCluster)
    BY <1>2, <1>3, <1>4, <2>3, <2>6 DEF Ready, MovedBy
  <2>9. Phases'
    BY <1>1, <1>2, <2>6, <2>8, FixedIs DEF Phases, AtAdvance, AtClusters, MovedBy
  <2> QED
    BY <2>7, <2>9 DEF IInv
<1>6. CASE UNCHANGED <<moved, remain, position>> /\ error' \in {error, "EIO"}
           /\ (error' = "none" => ~(n > 0 /\ (op = "write" => n < sectorsPerCluster)))
  <2>1. Grown(chain') /\ MovedBy(0)
    BY <1>1, <1>2, <1>6, NotGrown, NotMoved
  <2>2. CallOK' /\ LocalsOK' /\ BytesInPlace' /\ Thrifty' /\ Groups'
    BY <1>1, <1>2, <1>6, <2>1, StepKeeps DEF Labels
  <2>3. Stands(chain, position, Here)'
    BY <1>1, <1>6, <2>1, StandsStay
  <2>4. error' = "none" => Ready'
    BY <1>1, <1>6 DEF Ready
  <2>5. error' = "none" =>
          \/ remain' < bytesPerSector \/ position'.sector = sectorsPerCluster
          \/ op = "write" /\ position'.sector = 0
    <3>1. n = 0 => n * bytesPerSector = 0
      BY <1>2
    <3>2. CASE n = 0
      BY <1>2, <1>3, <1>6, <3>1, <3>2
    <3>3. CASE n # 0
      BY <1>2, <1>3, <1>6, <3>3
    <3> QED
      BY <3>2, <3>3
  <2>6. Phases'
    BY <1>1, <1>2, <1>6, <2>3, <2>4, <2>5, FixedIs DEF Phases, AtAdvance, AtClusters
  <2> QED
    BY <2>2, <2>6 DEF IInv
<1> QED
  BY <1>3, <1>5, <1>6 DEF Fail, Skip

(* A read goes on in the cluster after the i-th: there is one, if there is *)
(* more to read.                                                           *)
LEMMA OnwardsIs ==
  ASSUME CallOK, LocalsOK, UNCHANGED fixed, UNCHANGED chain, op = "read", error = "none",
         NEW i \in DOMAIN chain, NEW p \in PositionType, p.cluster = chain[i], p.byte = 0,
         NEW left \in Nat, Here' = i * bytesPerCluster, Here' + left = base + len,
         Onwards(p, left, NextCluster(chain[i]))
  PROVE  /\ error' = "none" /\ position' \in PositionType /\ Stands(chain, position, Here)'
         /\ position'.byte = 0 /\ position'.sector \in {0, sectorsPerCluster}
         /\ left > 0 => position'.sector < sectorsPerCluster
<1>1. /\ geometry \in Geometries /\ chain \in Chains
      /\ bytesPerSector \in Nat \ {0} /\ bytesPerCluster \in Nat \ {0} /\ sectorsPerCluster \in Nat \ {0}
      /\ Len(chain) \in Nat \ {0} /\ DOMAIN chain = 1 .. Len(chain)
      /\ i \in Nat /\ i >= 1 /\ i <= Len(chain) /\ chain[i] \in Clusters
  BY GeometryIs, ChainIs DEF CallOK, LocalsOK
<1>2. i * bytesPerCluster \in Nat
  BY <1>1
<1>3. p = [cluster |-> chain[i], sector |-> p.sector, byte |-> 0]
  BY DEF PositionType
<1>4. NextCluster(chain[i]) = IF i = Len(chain) THEN CLUSTER_EOF ELSE chain[i + 1]
  BY <1>1, NextClusterIs
<1>5. CASE i = Len(chain)
  <2>1. left = 0
    <3>1. base + len <= filesize /\ filesize <= Len(chain) * bytesPerCluster /\ filesize \in Nat
          /\ base + len \in Nat
      BY DEF CallOK, LocalsOK
    <3> QED
      BY <1>1, <1>5, <1>2, <3>1
  <2>2. position' = [cluster |-> chain[i], sector |-> sectorsPerCluster, byte |-> 0] /\ error' = "none"
    BY <1>3, <1>4, <1>5, <2>1 DEF Onwards
  <2>3. position' \in PositionType
    BY <1>1, <2>2 DEF PositionType
  <2>4. Stands(chain, position, Here)'
    <3>1. sectorsPerCluster * bytesPerSector = bytesPerCluster
      BY <1>1, SectorsAre
    <3>2. (i - 1) * bytesPerCluster = i * bytesPerCluster - bytesPerCluster
      BY <1>1, Multiples
    <3>3. Here' = (i - 1) * bytesPerCluster + (sectorsPerCluster * bytesPerSector + 0)
      BY <1>1, <1>2, <3>1, <3>2
    <3> QED
      BY <2>2, <3>3, StandsIs
  <2> QED
    BY <2>1, <2>2, <2>3, <2>4
<1>6. CASE i # Len(chain)
  <2>1. PICK j \in DOMAIN chain : j = i + 1
    BY <1>1, <1>6
  <2>2. NextCluster(chain[i]) = chain[j] /\ chain[j] \in Clusters /\ chain[j] # CLUSTER_EOF
    BY <1>1, <1>4, <1>6, <2>1, ChainIs, ClustersAre
  <2>3. position' = [cluster |-> chain[j], sector |-> 0, byte |-> 0] /\ error' = "none"
    BY <1>3, <2>2 DEF Onwards
  <2>4. position' \in PositionType
    BY <1>1, <2>2, <2>3 DEF PositionType
  <2>5. Stands(chain, position, Here)'
    <3>1. j - 1 = i /\ 0 * bytesPerSector = 0
      BY <1>1, <2>1
    <3>2. Here' = (j - 1) * bytesPerCluster + (0 * bytesPerSector + 0)
      BY <1>1, <1>2, <3>1
    <3>3. sectorsPerCluster # 0
      BY <1>1
    <3> QED
      BY <2>3, <3>2, <3>3, StandsIs
  <2> QED
    BY <1>1, <2>3, <2>4, <2>5
<1> QED
  BY <1>5, <1>6

LEMMA AdvanceStep ==
  ASSUME IInv, Advance, UNCHANGED fixed
  PROVE  IInv'
<1>1. /\ CallOK /\ LocalsOK /\ BytesInPlace /\ Phases /\ Thrifty /\ ~InGroup
      /\ pc = "advance" /\ op = "read" /\ pc' = "clusters"
      /\ UNCHANGED <<chain, remain, group, moved, erased>>
      /\ (error = "none" => Ready /\ AtAdvance) /\ Stands(chain, position, Here) /\ erased' = {}
  BY DEF IInv, Advance, Goto, InGroup, Phases, LocalsOK
<1>2. /\ position.sector \in Nat /\ position.byte \in Nat /\ position \in PositionType
      /\ position.sector <= sectorsPerCluster
      /\ bytesPerSector \in Nat \ {0} /\ sectorsPerCluster \in Nat \ {0} /\ bytesPerCluster \in Nat \ {0}
      /\ geometry \in Geometries /\ chain \in Chains /\ remain \in Nat
      /\ Grown(chain') /\ MovedBy(0) /\ Here' = Here /\ Here + remain = base + len /\ Here \in Nat
  BY <1>1, PositionIs, NotGrown, NotMoved, HereIs, FixedIs DEF LocalsOK, CallOK, Here
<1>3. CASE position.sector >= sectorsPerCluster /\ error = "none"
  <2>1. PICK i \in DOMAIN chain :
          /\ position.cluster = chain[i]
          /\ Here = (i - 1) * bytesPerCluster + (position.sector * bytesPerSector + position.byte)
          /\ position.sector = sectorsPerCluster => position.byte = 0
    BY <1>1 DEF Stands
  <2>2. position.sector = sectorsPerCluster /\ position.byte = 0
    BY <1>2, <1>3, <2>1
  <2>3. Here' = i * bytesPerCluster
    <3>1. i \in Nat
      BY <1>2, ChainIs
    <3>2. (i - 1) * bytesPerCluster = i * bytesPerCluster - bytesPerCluster /\ i * bytesPerCluster \in Nat
          /\ position.sector * bytesPerSector = bytesPerCluster
      BY <1>2, <2>2, <3>1, Multiples, SectorsAre
    <3>3. PICK m \in Nat : m = i * bytesPerCluster
      BY <3>2
    <3>4. Here = m - bytesPerCluster + (bytesPerCluster + 0)
      BY <2>1, <2>2, <3>2, <3>3
    <3> QED
      BY <1>2, <3>3, <3>4
  <2>4. Onwards(position, remain, NextCluster(chain[i]))
    BY <1>3, <2>1 DEF Advance
  <2>5. /\ error' = "none" /\ position' \in PositionType /\ Stands(chain, position, Here)'
        /\ position'.byte = 0 /\ position'.sector \in {0, sectorsPerCluster}
        /\ remain > 0 => position'.sector < sectorsPerCluster
    BY <1>1, <1>2, <1>3, <2>1, <2>2, <2>3, <2>4, OnwardsIs
  <2>6. CallOK' /\ LocalsOK' /\ BytesInPlace' /\ Thrifty' /\ Groups'
    BY <1>1, <1>2, <1>3, <2>5, StepKeeps DEF Labels
  <2>7. Ready' /\ AtClusters'
    BY <1>1, <2>5, FixedIs DEF Ready, AtClusters
  <2> QED
    BY <1>1, <2>5, <2>6, <2>7, FixedIs DEF Phases, IInv
<1>4. CASE ~(position.sector >= sectorsPerCluster /\ error = "none")
  <2>1. UNCHANGED <<position, error>>
    BY <1>4 DEF Advance
  <2>2. CallOK' /\ LocalsOK' /\ BytesInPlace' /\ Thrifty' /\ Groups'
    BY <1>1, <1>2, <2>1, StepKeeps DEF Labels
  <2>3. Stands(chain, position, Here)'
    BY <1>1, <1>2, <2>1, StandsStay
  <2>4. error' = "none" => Ready' /\ AtClusters'
    BY <1>1, <1>2, <1>4, <2>1, FixedIs DEF Ready, AtAdvance, AtClusters
  <2> QED
    BY <1>1, <2>2, <2>3, <2>4, FixedIs DEF Phases, IInv
<1> QED
  BY <1>3, <1>4

-----------------------------------------------------------------------------
(* Whole clusters. *)

LEMMA ConsecutiveOne ==
  ASSUME chain \in Chains, NEW i \in DOMAIN chain
  PROVE  Consecutive(i, 1)
<1>1. i \in Nat /\ i <= Len(chain) /\ 1 .. 1 - 1 = {}
  BY ChainIs
<1> QED
  BY <1>1 DEF Consecutive

(* There is a longest run of clusters to be read. *)
LEMMA ChunkOfReadIs ==
  ASSUME geometry \in Geometries, chain \in Chains, NEW i \in DOMAIN chain,
         remain \in Nat, remain >= bytesPerCluster
  PROVE  /\ ChunkOfRead(i) \in 1 .. Len(chain) /\ Consecutive(i, ChunkOfRead(i))
         /\ ChunkOfRead(i) * bytesPerCluster <= remain
<1> DEFINE P(n) == Consecutive(i, n) /\ n * bytesPerCluster <= remain
           S == {n \in Nat : n >= 1 /\ ~P(n + 1)}
<1>1. i \in Nat /\ i >= 1 /\ i <= Len(chain) /\ Len(chain) \in Nat \ {0} /\ bytesPerCluster \in Nat
  BY ChainIs, GeometryIs
<1>2. P(1)
  BY <1>1, ConsecutiveOne
<1>3. Len(chain) \in S
  <2>1. ~(i + (Len(chain) + 1) - 1 <= Len(chain))
    BY <1>1
  <2> QED
    BY <1>1, <2>1 DEF Consecutive
<1>4. PICK m \in S : \A n \in S : m <= n
  <2> HIDE DEF P, S
  <2>1. S \in SUBSET Nat
    BY DEF S
  <2> QED
    BY <1>3, <2>1, LeastExists
<1>5. m \in 1 .. Len(chain) /\ ~P(m + 1)
  BY <1>1, <1>3, <1>4
<1>6. P(m)
  <2>1. CASE m = 1
    BY <1>2, <2>1
  <2>2. CASE m # 1
    <3>1. PICK k \in Nat : k >= 1 /\ k + 1 = m
      <4>1. m - 1 \in Nat /\ m - 1 >= 1 /\ (m - 1) + 1 = m
        BY <1>5, <2>2
      <4> QED
        BY <4>1
    <3>2. k \notin S
      BY <1>4, <3>1
    <3>3. P(k + 1)
      BY <3>1, <3>2
    <3> QED
      BY <3>1, <3>3
  <2> QED
    BY <2>1, <2>2
<1>7. \E n \in 1 .. Len(chain) : P(n) /\ ~P(n + 1)
  BY <1>5, <1>6
<1>8. ChunkOfRead(i) = CHOOSE n \in 1 .. Len(chain) : P(n) /\ ~P(n + 1)
  BY DEF ChunkOfRead
<1> HIDE DEF P
<1>9. ChunkOfRead(i) \in 1 .. Len(chain) /\ P(ChunkOfRead(i))
  BY <1>7, <1>8
<1> QED
  BY <1>9 DEF P

LEMMA ReadClustersStep ==
  ASSUME IInv, ReadClusters, UNCHANGED fixed
  PROVE  IInv'
<1>1. /\ CallOK /\ LocalsOK /\ BytesInPlace /\ Phases /\ Thrifty /\ ~InGroup
      /\ pc = "clusters" /\ op = "read" /\ pc' = "clusters" /\ UNCHANGED <<chain, group, erased>>
      /\ Ready /\ AtClusters /\ Stands(chain, position, Here) /\ erased' = {}
      /\ remain >= bytesPerCluster /\ error = "none"
  BY DEF IInv, ReadClusters, Goto, InGroup, Phases, LocalsOK
<1>2. /\ position.sector \in Nat /\ position.byte \in Nat /\ position \in PositionType
      /\ bytesPerSector \in Nat \ {0} /\ sectorsPerCluster \in Nat \ {0} /\ bytesPerCluster \in Nat \ {0}
      /\ bytesPerCluster >= bytesPerSector
      /\ geometry \in Geometries /\ chain \in Chains /\ remain \in Nat /\ Grown(chain')
      /\ Here + remain = base + len /\ Here \in Nat
  <2>1. /\ geometry \in Geometries /\ chain \in Chains /\ sectorsPerCluster \in Nat \ {0}
    BY <1>1, GeometryIs DEF LocalsOK, CallOK
  <2>2. bytesPerCluster >= bytesPerSector
    BY <2>1, GeometryIs, SectorsAre
  <2> QED
    BY <1>1, <2>1, <2>2, PositionIs, NotGrown, HereIs DEF LocalsOK
<1>3. position.sector = 0 /\ position.byte = 0
  BY <1>1, <1>2 DEF Ready, AtClusters
<1>4. PICK i \in DOMAIN chain :
        /\ position.cluster = chain[i]
        /\ Here = (i - 1) * bytesPerCluster + (position.sector * bytesPerSector + position.byte)
  BY <1>1 DEF Stands
<1>5. /\ i \in Nat /\ i >= 1 /\ i <= Len(chain) /\ Len(chain) \in Nat
      /\ DOMAIN chain = 1 .. Len(chain)
      /\ (CHOOSE j \in DOMAIN chain : chain[j] = chain[i]) = i
  BY <1>2, ChainIs, NextClusterIs
<1>6. Here = (i - 1) * bytesPerCluster
  <2>1. 0 * bytesPerSector = 0 /\ (i - 1) * bytesPerCluster \in Int
    BY <1>2, <1>5
  <2> QED
    BY <1>3, <1>4, <2>1
<1>7. PICK n \in 1 .. Len(chain) :
        /\ n = ChunkOfRead(i) /\ Consecutive(i, n) /\ n * bytesPerCluster <= remain
  BY <1>1, <1>2, ChunkOfReadIs
<1>8. PICK j \in DOMAIN chain : j = i + n - 1
  <2>1. i + n - 1 \in DOMAIN chain
    BY <1>5, <1>7 DEF Consecutive
  <2> QED
    BY <2>1
<1>9. \/ /\ Move([position EXCEPT !.sector = 0, !.byte = 0], n * bytesPerCluster)
         /\ Onwards([position EXCEPT !.cluster = chain[j]],
                    remain - n * bytesPerCluster, NextCluster(chain[j]))
      \/ Fail
  <2> DEFINE k == CHOOSE x \in DOMAIN chain : chain[x] = position.cluster
             z == ChunkOfRead(k)
  <2>1. k = i
    BY <1>4, <1>5
  <2>2. \/ /\ Move([position EXCEPT !.sector = 0, !.byte = 0], z * bytesPerCluster)
           /\ Onwards([position EXCEPT !.cluster = chain[k + z - 1]],
                      remain - z * bytesPerCluster, NextCluster(chain[k + z - 1]))
        \/ Fail
    BY DEF ReadClusters
  <2> HIDE DEF k
  <2>3. z = n /\ k + z - 1 = j
    BY <1>7, <1>8, <2>1
  <2> HIDE DEF z
  <2> QED
    BY <2>2, <2>3
<1>10. CASE Fail
  <2>1. UNCHANGED <<moved, remain, position>> /\ error' = "EIO"
    BY <1>10 DEF Fail
  <2>2. MovedBy(0)
    BY <1>1, <1>2, <2>1, NotMoved
  <2>3. CallOK' /\ LocalsOK' /\ BytesInPlace' /\ Thrifty' /\ Groups'
    BY <1>1, <1>2, <2>1, <2>2, StepKeeps DEF Labels
  <2>4. Stands(chain, position, Here)'
    BY <1>1, <1>2, <2>1, StandsStay
  <2> QED
    BY <1>1, <2>1, <2>3, <2>4, FixedIs DEF Phases, IInv
<1>11. CASE /\ Move([position EXCEPT !.sector = 0, !.byte = 0], n * bytesPerCluster)
            /\ Onwards([position EXCEPT !.cluster = chain[j]],
                       remain - n * bytesPerCluster, NextCluster(chain[j]))
  <2> DEFINE p == [position EXCEPT !.sector = 0, !.byte = 0]
             q == [position EXCEPT !.cluster = chain[j]]
  <2>1. p.cluster = chain[i] /\ p.sector = 0 /\ p.byte = 0
    BY <1>2, <1>4 DEF PositionType
  <2>2. q \in PositionType /\ q.cluster = chain[j] /\ q.byte = 0
    BY <1>2, <1>3, ChainIs DEF PositionType
  <2>3. Move(p, n * bytesPerCluster)
    BY <1>11
  <2>4. Onwards(q, remain - n * bytesPerCluster, NextCluster(chain[j]))
    BY <1>11
  <2> HIDE DEF p, q
  <2>5. MovedBy(n * bytesPerCluster)
    BY <1>1, <1>6, <1>7, <2>1, <2>3, MoveClusters
  <2>6. PICK left \in Nat : left = remain - n * bytesPerCluster
    <3>1. n * bytesPerCluster \in Nat
      BY <1>2, <1>7
    <3> QED
      BY <1>2, <1>7, <3>1
  <2>7. Here' = j * bytesPerCluster /\ Here' + left = base + len /\ remain' = left
    <3>1. (i - 1 + n) * bytesPerCluster = (i - 1) * bytesPerCluster + n * bytesPerCluster
      BY <1>2, <1>5, <1>7, Multiples
    <3>2. PICK m \in Nat : m = n * bytesPerCluster
      BY <1>2, <1>7
    <3>3. Here' = Here + m /\ remain' = remain - m
      BY <2>5, <3>2 DEF MovedBy
    <3>4. i - 1 + n = j
      BY <1>5, <1>7, <1>8
    <3> QED
      BY <1>2, <1>6, <2>6, <3>1, <3>2, <3>3, <3>4
  <2>8. Onwards(q, left, NextCluster(chain[j]))
    BY <2>4, <2>6
  <2>9. /\ error' = "none" /\ position' \in PositionType /\ Stands(chain, position, Here)'
        /\ position'.byte = 0 /\ position'.sector \in {0, sectorsPerCluster}
        /\ left > 0 => position'.sector < sectorsPerCluster
    BY <1>1, <2>2, <2>7, <2>8, OnwardsIs
  <2>10. n * bytesPerCluster \in Nat
    BY <1>2, <1>7
  <2>11. CallOK' /\ LocalsOK' /\ BytesInPlace' /\ Thrifty' /\ Groups'
    BY <1>1, <2>5, <2>9, <2>10, StepKeeps DEF Labels
  <2>12. Ready' /\ AtClusters'
    BY <2>7, <2>9, FixedIs DEF Ready, AtClusters
  <2> QED
    BY <1>1, <2>9, <2>11, <2>12, FixedIs DEF Phases, IInv
<1> QED
  BY <1>9, <1>10, <1>11

LEMMA WriteClustersStep ==
  ASSUME IInv, WriteClusters, UNCHANGED fixed
  PROVE  IInv'
<1>1. /\ CallOK /\ LocalsOK /\ BytesInPlace /\ Phases /\ Thrifty /\ ~InGroup
      /\ pc = "clusters" /\ op = "write" /\ UNCHANGED <<moved, remain, erased>>
      /\ Ready /\ AtClusters /\ Stands(chain, position, Here) /\ erased' = {}
      /\ remain >= bytesPerCluster /\ error = "none"
  BY DEF IInv, WriteClusters, InGroup, Phases, LocalsOK
<1>2. /\ position.sector \in Nat /\ position.byte \in Nat /\ position \in PositionType
      /\ position = [cluster |-> position.cluster, sector |-> position.sector, byte |-> position.byte]
      /\ bytesPerSector \in Nat \ {0} /\ sectorsPerCluster \in Nat \ {0} /\ bytesPerCluster \in Nat \ {0}
      /\ bytesPerCluster >= bytesPerSector
      /\ geometry \in Geometries /\ chain \in Chains /\ remain \in Nat /\ Here \in Nat
  <2>1. /\ geometry \in Geometries /\ chain \in Chains /\ sectorsPerCluster \in Nat \ {0}
    BY <1>1, GeometryIs DEF LocalsOK, CallOK
  <2>2. bytesPerCluster >= bytesPerSector
    BY <2>1, GeometryIs, SectorsAre
  <2> QED
    BY <1>1, <2>1, <2>2, PositionIs, HereIs DEF LocalsOK
<1>3. position.sector \in {0, sectorsPerCluster} /\ position.byte = 0
  BY <1>1, <1>2 DEF Ready, AtClusters
<1>4. PICK n \in NextClusterFor(position) :
        /\ position' = [position EXCEPT !.cluster = n.cluster, !.sector = n.sector]
        /\ chain' = n.links /\ error' = n.error
        /\ group' = [next |-> n.cluster, chunkEnd |-> n.cluster, chunkSize |-> bytesPerCluster]
        /\ pc' = IF n.error = "none" THEN "group" ELSE "clusters"
  BY DEF WriteClusters, Goto
<1>5. /\ Grown(chain') /\ position' \in PositionType /\ error' \in {"none", "ENOSPC"}
      /\ error' = "ENOSPC" => Free = {} /\ chain' = chain
  BY <1>1, <1>4, ContinuedHere
<1>6. MovedBy(0) /\ Here' = Here /\ remain' = remain /\ op' = "write"
  BY <1>1, <1>5, NotMoved, FixedIs DEF Here
<1>7. CallOK' /\ LocalsOK' /\ BytesInPlace'
  BY <1>1, <1>4, <1>5, <1>6, LocalsNext DEF Labels
<1>8. CASE error' = "none"
  <2>1. /\ n.sector < sectorsPerCluster
        /\ n.sector = position.sector \/ (n.sector = 0 /\ position.byte = 0 /\ position.sector = sectorsPerCluster)
        /\ \E j \in DOMAIN chain' :
             /\ n.cluster = chain'[j]
             /\ Here = (j - 1) * bytesPerCluster + (n.sector * bytesPerSector + position.byte)
        /\ Len(chain') = Len(chain) \/ Here = (Len(chain') - 1) * bytesPerCluster
    BY <1>1, <1>4, <1>8, ContinuedHere
  <2>2. n.sector = 0 /\ pc' = "group"
    BY <1>2, <1>3, <1>4, <1>8, <2>1
  <2>3. PICK j \in DOMAIN chain' :
          /\ n.cluster = chain'[j]
          /\ Here = (j - 1) * bytesPerCluster + (n.sector * bytesPerSector + position.byte)
    BY <2>1
  <2>4. /\ j \in Nat /\ j >= 1 /\ j <= Len(chain') /\ Len(chain') \in Nat \ {0} /\ Len(chain) \in Nat \ {0}
        /\ chain' \in Chains
    BY <1>2, <1>5, ChainIs DEF Grown
  <2>5. GroupIs(j, 1)'
    <3>1. Consecutive(j, 1)'
      <4>1. j + 1 - 1 <= Len(chain') /\ 1 .. 1 - 1 = {}
        BY <2>4
      <4> QED
        BY <4>1 DEF Consecutive
    <3>2. position' = [cluster |-> chain'[j], sector |-> 0, byte |-> 0]
      BY <1>2, <1>3, <1>4, <2>2, <2>3
    <3>3. Here' = (j - 1) * bytesPerCluster'
      <4>1. 0 * bytesPerSector = 0 /\ (j - 1) * bytesPerCluster \in Int
        BY <1>2, <2>4
      <4> QED
        BY <1>3, <1>6, <2>2, <2>3, <4>1, FixedIs
    <3>4. /\ group'.next = chain'[j] /\ group'.chunkEnd = chain'[j] /\ group'.chunkSize = bytesPerCluster
      BY <1>4, <2>3
    <3>5. j + 1 - 1 = j /\ 1 * bytesPerCluster = bytesPerCluster
      BY <1>2, <2>4
    <3>6. /\ group'.chunkEnd = chain'[j + 1 - 1] /\ group'.chunkSize = 1 * bytesPerCluster'
          /\ group'.chunkSize <= remain' /\ group'.next = group'.chunkEnd
      BY <1>1, <1>6, <3>4, <3>5, FixedIs
    <3>7. group' = [next |-> group'.next, chunkEnd |-> group'.chunkEnd,
                    chunkSize |-> group'.chunkSize]
      BY <1>4
    <3> QED
      BY <3>1, <3>2, <3>3, <3>6, <3>7 DEF GroupIs
  <2>6. Groups'
    <3>1. 1 \in 1 .. Len(chain')
      BY <2>4
    <3>2. \E i \in DOMAIN chain', m \in 1 .. Len(chain') : GroupIs(i, m)'
      BY <2>5, <3>1
    <3> QED
      BY <1>6, <1>8, <3>2 DEF Groups
  <2>7. Phases'
    BY <2>2 DEF Phases
  <2>8. Thrifty'
    <3> DEFINE start == (Len(chain) - 1) * bytesPerCluster
               next == (Len(chain') - 1) * bytesPerCluster
    <3>1. InHand = 0 /\ InHand' = bytesPerCluster /\ next = start' /\ start \in Int /\ next \in Int
      BY <1>1, <1>2, <1>4, <2>2, <2>4, FixedIs DEF InHand, InGroup
    <3>2. CASE Here = next
      <4>1. start' < Here' + InHand'
        BY <1>2, <1>6, <3>1, <3>2
      <4> QED
        BY <4>1 DEF Thrifty
    <3>3. CASE Len(chain') = Len(chain)
      <4>1. start' = start
        BY <3>3, FixedIs
      <4> HIDE DEF start
      <4>2. \/ Len(chain) = 1 \/ start < filesize \/ start < Here + InHand
            \/ start = Here + InHand
        BY <1>1 DEF Thrifty, start
      <4>3. \/ Len(chain') = 1 \/ start' < filesize' \/ start' < Here' + InHand'
        BY <1>2, <1>6, <4>1, <4>2, <3>1, <3>3, FixedIs
      <4> QED
        BY <4>3 DEF Thrifty, start
    <3> QED
      BY <2>1, <3>2, <3>3
  <2> QED
    BY <1>7, <2>6, <2>7, <2>8 DEF IInv
<1>9. CASE error' = "ENOSPC"
  <2>1. /\ chain' = chain /\ n.cluster = position.cluster /\ n.sector = position.sector
        /\ (Len(chain) - 1) * bytesPerCluster < Here
    BY <1>1, <1>4, <1>9, ContinuedHere
  <2>2. position' = position /\ pc' = "clusters"
    BY <1>2, <1>4, <1>9, <2>1
  <2>3. Stands(chain, position, Here)'
    BY <1>1, <1>5, <2>2, StandsStay
  <2>4. Groups'
    BY <2>2 DEF Groups, InGroup
  <2>5. Phases'
    BY <1>6, <1>9, <2>2, <2>3 DEF Phases
  <2>6. Thrifty'
    <3>1. (Len(chain') - 1) * bytesPerCluster' < Here' + InHand'
      <4>1. InHand' = 0
        BY <2>2 DEF InHand, InGroup
      <4> QED
        BY <1>2, <1>6, <2>1, <4>1, FixedIs
    <3> QED
      BY <3>1 DEF Thrifty
  <2> QED
    BY <1>7, <2>4, <2>5, <2>6 DEF IInv
<1> QED
  BY <1>5, <1>8, <1>9

(* While a group grows, the end of the chain is in use. *)
LEMMA GroupInUse ==
  ASSUME CallOK, LocalsOK, Thrifty, op = "write", error # "EIO", InGroup,
         NEW i \in DOMAIN chain, NEW m \in 1 .. Len(chain), GroupIs(i, m),
         group.next = group.chunkEnd
  PROVE  LET start == (Len(chain) - 1) * bytesPerCluster IN
         Len(chain) = 1 \/ start < filesize \/ start < Here + group.chunkSize
<1> DEFINE start == (Len(chain) - 1) * bytesPerCluster
<1>1. /\ chain \in Chains /\ bytesPerCluster \in Nat \ {0} /\ Len(chain) \in Nat \ {0}
      /\ i \in Nat /\ i >= 1 /\ DOMAIN chain = 1 .. Len(chain) /\ m \in Nat /\ m >= 1
  BY GeometryIs, ChainIs DEF CallOK, LocalsOK
<1>2. /\ Here = (i - 1) * bytesPerCluster /\ group.chunkSize = m * bytesPerCluster
      /\ group.chunkEnd = chain[i + m - 1] /\ i + m - 1 <= Len(chain)
  BY DEF GroupIs, Consecutive
<1>3. PICK k \in DOMAIN chain : k = i + m - 1
  BY <1>1, <1>2
<1>4. Here + group.chunkSize = k * bytesPerCluster
  <2>1. (i - 1 + m) * bytesPerCluster = (i - 1) * bytesPerCluster + m * bytesPerCluster
    BY <1>1, Multiples
  <2>2. i - 1 + m = k
    BY <1>1, <1>3
  <2> QED
    BY <1>2, <2>1, <2>2
<1>5. SUFFICES ASSUME start = Here + group.chunkSize, group.next = chain[Len(chain)]
               PROVE  FALSE
  BY DEF Thrifty, InHand
<1>6. k = Len(chain)
  <2>1. chain[k] = chain[Len(chain)] /\ Len(chain) \in DOMAIN chain
    BY <1>1, <1>2, <1>3, <1>5
  <2> QED
    BY <1>1, <2>1, ChainIs
<1>7. (Len(chain) - 1) * bytesPerCluster = Len(chain) * bytesPerCluster - bytesPerCluster
  BY <1>1, Multiples
<1>8. Len(chain) * bytesPerCluster \in Nat
  BY <1>1
<1> QED
  BY <1>1, <1>4, <1>5, <1>6, <1>7, <1>8

(* A longer chain leaves a group as it is. *)
LEMMA GroupStays ==
  ASSUME CallOK, LocalsOK, UNCHANGED fixed, Grown(chain'), Here' = Here, UNCHANGED <<position, remain>>,
         NEW i \in DOMAIN chain, NEW m \in 1 .. Len(chain), GroupIs(i, m),
         group'.chunkEnd = group.chunkEnd, group'.chunkSize = group.chunkSize
  PROVE  /\ i \in DOMAIN chain' /\ m \in 1 .. Len(chain') /\ Consecutive(i, m)'
         /\ position' = [cluster |-> chain'[i], sector |-> 0, byte |-> 0]
         /\ Here' = (i - 1) * bytesPerCluster'
         /\ group'.chunkEnd = chain'[i + m - 1] /\ group'.chunkSize = m * bytesPerCluster'
         /\ group'.chunkSize <= remain'
<1>1. /\ chain \in Chains /\ chain' \in Chains /\ Len(chain) \in Nat /\ Len(chain') \in Nat
      /\ i \in Nat /\ i >= 1 /\ DOMAIN chain = 1 .. Len(chain) /\ m \in Nat /\ m >= 1
      /\ Len(chain) <= Len(chain') /\ i \in DOMAIN chain' /\ chain'[i] = chain[i]
      /\ \A k \in DOMAIN chain : chain'[k] = chain[k]
  BY ChainIs DEF LocalsOK, Grown
<1>2. /\ i + m - 1 <= Len(chain) /\ \A k \in 1 .. m - 1 : chain[i + k] = chain[i] + k
      /\ position = [cluster |-> chain[i], sector |-> 0, byte |-> 0]
      /\ Here = (i - 1) * bytesPerCluster
      /\ group.chunkEnd = chain[i + m - 1] /\ group.chunkSize = m * bytesPerCluster
      /\ group.chunkSize <= remain
  BY DEF GroupIs, Consecutive
<1>3. \A k \in 1 .. m - 1 : chain'[i + k] = chain'[i] + k
  <2> SUFFICES ASSUME NEW k \in 1 .. m - 1
               PROVE  chain'[i + k] = chain'[i] + k
    OBVIOUS
  <2>1. i + k \in DOMAIN chain
    BY <1>1, <1>2
  <2> QED
    BY <1>1, <1>2, <2>1
<1>4. Consecutive(i, m)'
  BY <1>1, <1>2, <1>3 DEF Consecutive
<1>5. i + m - 1 \in DOMAIN chain
  BY <1>1, <1>2
<1>6. group'.chunkEnd = chain'[i + m - 1]
  BY <1>1, <1>2, <1>5
<1> QED
  BY <1>1, <1>2, <1>4, <1>6, FixedIs

LEMMA GroupStep ==
  ASSUME IInv, Group, UNCHANGED fixed
  PROVE  IInv'
<1>1. /\ CallOK /\ LocalsOK /\ BytesInPlace /\ Groups /\ Thrifty /\ InGroup
      /\ pc = "group" /\ op = "write" /\ UNCHANGED <<position, moved, remain, erased>>
      /\ erased' = {} /\ error = "none"
  BY DEF IInv, Group, InGroup, Groups, LocalsOK
<1>2. PICK i \in DOMAIN chain, m \in 1 .. Len(chain) : GroupIs(i, m)
  BY <1>1 DEF Groups
<1>3. /\ geometry \in Geometries /\ chain \in Chains
      /\ bytesPerSector \in Nat \ {0} /\ sectorsPerCluster \in Nat \ {0} /\ bytesPerCluster \in Nat \ {0}
      /\ i \in Nat /\ i >= 1 /\ m \in Nat /\ m >= 1 /\ Len(chain) \in Nat \ {0}
      /\ DOMAIN chain = 1 .. Len(chain) /\ Here \in Nat /\ remain \in Nat
      /\ position \in PositionType
  BY <1>1, GeometryIs, ChainIs, HereIs DEF CallOK, LocalsOK
<1>4. /\ group.next = group.chunkEnd /\ group.chunkEnd = chain[i + m - 1]
      /\ i + m - 1 <= Len(chain) /\ Here = (i - 1) * bytesPerCluster
      /\ group.chunkSize = m * bytesPerCluster
      /\ \A k \in 1 .. m - 1 : chain[i + k] = chain[i] + k
  BY <1>1, <1>2 DEF GroupIs, Consecutive
<1>5. PICK size \in Nat : size = group.chunkSize
  BY <1>3, <1>4
<1>6. PICK start : start = (Len(chain) - 1) * bytesPerCluster
  OBVIOUS
<1>7. Len(chain) = 1 \/ start < filesize \/ start < Here + size
  BY <1>1, <1>2, <1>4, <1>5, <1>6, GroupInUse
<1>8. CASE ~(group.chunkSize + bytesPerCluster < remain)
  <2>1. UNCHANGED <<chain, error, group>> /\ pc' = "chunk"
    BY <1>1, <1>8 DEF Group, Goto
  <2>2. Grown(chain') /\ MovedBy(0) /\ Here' = Here
    BY <1>1, <1>3, <2>1, NotGrown, NotMoved, FixedIs DEF Here
  <2>3. CallOK' /\ LocalsOK' /\ BytesInPlace'
    BY <1>1, <1>3, <2>1, <2>2, LocalsNext DEF Labels
  <2>4. GroupIs(i, m)'
    BY <1>1, <1>2, <1>4, <2>1, <2>2, GroupStays DEF GroupIs
  <2>5. Groups'
    BY <1>1, <2>1, <2>4, FixedIs DEF Groups
  <2>6. Phases'
    BY <2>1 DEF Phases
  <2>7. Thrifty'
    <3>1. (Len(chain') - 1) * bytesPerCluster' = start /\ InHand' = size
      BY <1>5, <1>6, <2>1, FixedIs DEF InHand, InGroup
    <3> QED
      BY <1>7, <2>1, <2>2, <3>1, FixedIs DEF Thrifty
  <2> QED
    BY <2>3, <2>5, <2>6, <2>7 DEF IInv
<1>9. CASE group.chunkSize + bytesPerCluster < remain
  <2> DEFINE p == [cluster |-> group.chunkEnd, sector |-> sectorsPerCluster, byte |-> 0]
  <2>1. PICK n \in NextClusterFor(p) :
          /\ chain' = n.links /\ error' = n.error
          /\ IF n.error # "none"
             THEN pc' = "chunk" /\ UNCHANGED group
             ELSE IF n.cluster # group.chunkEnd + 1
             THEN pc' = "chunk" /\ group' = [group EXCEPT !.next = n.cluster]
             ELSE /\ pc' = "group"
                  /\ group' = [next |-> n.cluster, chunkEnd |-> n.cluster,
                               chunkSize |-> group.chunkSize + bytesPerCluster]
    BY <1>1, <1>9 DEF Group, Goto
  <2>2. PICK k \in DOMAIN chain : k = i + m - 1
    BY <1>3, <1>4
  <2>3. /\ p \in PositionType /\ p.cluster = chain[k] /\ p.sector = sectorsPerCluster /\ p.byte = 0
    <3>1. chain[k] \in Clusters
      BY <1>3, ChainIs
    <3> QED
      BY <1>3, <1>4, <2>2, <3>1 DEF PositionType
  <2> HIDE DEF p
  <2>4. /\ Grown(chain') /\ n.error \in {"none", "ENOSPC"}
        /\ n.error = "ENOSPC" => Free = {} /\ chain' = chain
    BY <1>1, <2>1, <2>3, Continued
  <2>5. MovedBy(0) /\ Here' = Here /\ op' = "write"
    BY <1>1, <2>4, NotMoved, FixedIs DEF Here
  <2>6. pc' \in {"group", "chunk"}
    BY <2>1
  <2>7. CallOK' /\ LocalsOK' /\ BytesInPlace'
    BY <1>1, <1>3, <2>1, <2>4, <2>5, <2>6, FixedIs, LocalsNext DEF Labels
  <2>8. Phases'
    BY <2>6 DEF Phases
  <2>9. PICK next : next = (Len(chain') - 1) * bytesPerCluster /\ next = ((Len(chain) - 1) * bytesPerCluster)'
    BY FixedIs
  <2>10. Len(chain') \in Nat \ {0} /\ chain' \in Chains /\ next \in Int /\ start \in Int
    <3>1. Len(chain') \in Nat \ {0} /\ chain' \in Chains
      BY <2>4, ChainIs DEF Grown
    <3> QED
      BY <1>3, <1>6, <2>9, <3>1
  <2>11. CASE n.error # "none"
    <3>1. UNCHANGED <<chain, group>> /\ pc' = "chunk" /\ error' = "ENOSPC"
      BY <2>1, <2>4, <2>11
    <3>2. GroupIs(i, m)'
      BY <1>1, <1>2, <1>4, <2>4, <2>5, <3>1, GroupStays DEF GroupIs
    <3>3. Groups'
      BY <2>5, <3>1, <3>2 DEF Groups
    <3>4. Thrifty'
      <4>1. next = start /\ InHand' = size
        BY <1>5, <1>6, <2>9, <3>1 DEF InHand, InGroup
      <4> QED
        BY <1>7, <2>5, <2>9, <3>1, <4>1, FixedIs DEF Thrifty
    <3> QED
      BY <2>7, <2>8, <3>3, <3>4 DEF IInv
  <2>12. ASSUME n.error = "none"
         PROVE  /\ k + 1 \in DOMAIN chain' /\ n.cluster = chain'[k + 1]
                /\ Len(chain') = Len(chain) \/ (Len(chain') = Len(chain) + 1 /\ k + 1 = Len(chain'))
    <3>1. PICK j \in DOMAIN chain' :
            /\ n.cluster = chain'[j] /\ n.sector < sectorsPerCluster
            /\ (j - 1) * bytesPerCluster + (n.sector * bytesPerSector + p.byte)
                 = (k - 1) * bytesPerCluster + (p.sector * bytesPerSector + p.byte)
            /\ \/ p.sector < sectorsPerCluster /\ j = k /\ n.sector = p.sector
               \/ p.sector = sectorsPerCluster /\ j = k + 1 /\ n.sector = 0
            /\ Len(chain') = Len(chain) \/ (Len(chain') = Len(chain) + 1 /\ j = Len(chain') /\ n.sector = 0)
      BY <1>1, <2>1, <2>3, <2>12, Continued
    <3>2. j = k + 1
      BY <1>3, <2>3, <3>1
    <3> QED
      BY <3>1, <3>2
  <2>13. i - 1 + m = k /\ k \in Nat /\ k * bytesPerCluster = Here + size
    <3>1. (i - 1 + m) * bytesPerCluster = (i - 1) * bytesPerCluster + m * bytesPerCluster
      BY <1>3, Multiples
    <3> QED
      BY <1>3, <1>4, <1>5, <2>2, <3>1
  <2>14. CASE n.error = "none" /\ n.cluster # group.chunkEnd + 1
    <3>1. /\ pc' = "chunk" /\ error' = "none"
          /\ group' = [next |-> n.cluster, chunkEnd |-> group.chunkEnd, chunkSize |-> group.chunkSize]
      BY <1>2, <2>1, <2>14 DEF GroupIs
    <3>2. /\ i \in DOMAIN chain' /\ m \in 1 .. Len(chain') /\ Consecutive(i, m)'
          /\ position' = [cluster |-> chain'[i], sector |-> 0, byte |-> 0]
          /\ Here' = (i - 1) * bytesPerCluster'
          /\ group'.chunkEnd = chain'[i + m - 1] /\ group'.chunkSize = m * bytesPerCluster'
          /\ group'.chunkSize <= remain'
      BY <1>1, <1>2, <2>4, <2>5, <3>1, GroupStays
    <3>3. /\ k + 1 \in DOMAIN chain' /\ n.cluster = chain'[k + 1]
          /\ Len(chain') = Len(chain) \/ (Len(chain') = Len(chain) + 1 /\ k + 1 = Len(chain'))
      BY <2>12, <2>14
    <3>4. k + 1 = i + m /\ i + m <= Len(chain') /\ size < remain
      <4>1. k + 1 = i + m /\ size < remain
        BY <1>3, <1>5, <1>9, <2>2
      <4>2. k + 1 <= Len(chain')
        BY <2>10, <3>3, ChainIs
      <4> QED
        BY <4>1, <4>2
    <3>5. GroupIs(i, m)'
      <4>1. group'.next = chain'[i + m] /\ group'.chunkSize < remain'
        BY <1>1, <1>5, <3>1, <3>3, <3>4
      <4>2. group' = [next |-> group'.next, chunkEnd |-> group'.chunkEnd,
                      chunkSize |-> group'.chunkSize]
        BY <3>1
      <4> QED
        BY <3>1, <3>2, <3>4, <4>1, <4>2 DEF GroupIs
    <3>6. Groups'
      BY <2>5, <3>1, <3>2, <3>5 DEF Groups
    <3>7. Thrifty'
      <4>1. InHand' = size /\ InGroup' /\ group'.next = n.cluster
        BY <1>5, <3>1 DEF InHand, InGroup
      <4>2. CASE Len(chain') = Len(chain)
        <5>1. next = start
          BY <1>6, <2>9, <4>2
        <5> QED
          BY <1>7, <2>5, <2>9, <4>1, <4>2, <5>1, FixedIs DEF Thrifty
      <4>3. CASE Len(chain') = Len(chain) + 1 /\ k + 1 = Len(chain')
        <5>1. next = Here' + InHand'
          <6>1. Len(chain') - 1 = k
            BY <2>10, <2>13, <4>3
          <6> QED
            BY <2>5, <2>9, <2>13, <4>1, <6>1
        <5>2. group'.next = chain'[Len(chain')]
          BY <3>3, <4>1, <4>3
        <5> QED
          BY <1>1, <2>9, <3>1, <3>4, <4>1, <5>1, <5>2 DEF Thrifty
      <4> QED
        BY <3>3, <4>2, <4>3
    <3> QED
      BY <2>7, <2>8, <3>6, <3>7 DEF IInv
  <2>15. CASE n.error = "none" /\ n.cluster = group.chunkEnd + 1
    <3>1. /\ pc' = "group" /\ error' = "none"
          /\ group' = [next |-> n.cluster, chunkEnd |-> n.cluster,
                       chunkSize |-> size + bytesPerCluster]
      BY <1>5, <2>1, <2>15
    <3>2. /\ k + 1 \in DOMAIN chain' /\ n.cluster = chain'[k + 1]
          /\ Len(chain') = Len(chain) \/ (Len(chain') = Len(chain) + 1 /\ k + 1 = Len(chain'))
      BY <2>12, <2>15
    <3>3. k + 1 = i + m /\ i + m <= Len(chain')
      BY <1>3, <2>2, <2>10, <3>2, ChainIs
    <3>4. /\ i \in DOMAIN chain' /\ chain'[i] = chain[i]
          /\ \A j \in DOMAIN chain : chain'[j] = chain[j]
      BY <2>4 DEF Grown
    <3>5. PICK w \in Nat : w = m + 1
      BY <1>3
    <3>6. Consecutive(i, w)'
      <4>1. ASSUME NEW x \in 1 .. w - 1
            PROVE  chain'[i + x] = chain'[i] + x
        <5>1. CASE x = m
          <6>1. chain'[i + x] = chain[k] + 1
            BY <1>4, <2>2, <2>15, <3>2, <3>3, <5>1
          <6>2. CASE m = 1
            <7>1. k = i
              BY <1>3, <2>2, <6>2
            <7> QED
              BY <3>4, <5>1, <6>1, <6>2, <7>1
          <6>3. CASE m # 1
            <7>1. m - 1 \in 1 .. m - 1 /\ i + (m - 1) = k /\ chain[i] \in Nat
              BY <1>3, <2>2, <6>3, ChainIs
            <7>2. chain[k] = chain[i] + (m - 1)
              BY <1>4, <7>1
            <7> QED
              BY <1>3, <3>4, <5>1, <6>1, <7>1, <7>2
          <6> QED
            BY <6>2, <6>3
        <5>2. CASE x # m
          <6>1. x \in 1 .. m - 1 /\ i + x \in DOMAIN chain
            BY <1>3, <1>4, <3>5, <5>2
          <6> QED
            BY <1>4, <3>4, <6>1
        <5> QED
          BY <5>1, <5>2
      <4>2. i + w - 1 <= Len(chain')
        BY <1>3, <2>10, <3>3, <3>5
      <4> QED
        BY <4>1, <4>2 DEF Consecutive
    <3>7. GroupIs(i, w)'
      <4>1. /\ position' = [cluster |-> chain'[i], sector |-> 0, byte |-> 0]
            /\ Here' = (i - 1) * bytesPerCluster'
        BY <1>1, <1>2, <1>4, <2>5, <3>4, FixedIs DEF GroupIs
      <4>2. group'.chunkEnd = chain'[i + w - 1] /\ group'.next = group'.chunkEnd
        <5>1. i + w - 1 = k + 1
          BY <1>3, <3>3, <3>5
        <5> QED
          BY <3>1, <3>2, <5>1
      <4>3. group'.chunkSize = w * bytesPerCluster'
        <5>1. (m + 1) * bytesPerCluster = m * bytesPerCluster + bytesPerCluster
          BY <1>3, Multiples
        <5> QED
          BY <1>4, <1>5, <3>1, <3>5, <5>1, FixedIs
      <4>4. group'.chunkSize <= remain'
        BY <1>1, <1>3, <1>5, <1>9, <3>1
      <4>5. group' = [next |-> group'.next, chunkEnd |-> group'.chunkEnd,
                      chunkSize |-> group'.chunkSize]
        BY <3>1
      <4> QED
        BY <3>6, <4>1, <4>2, <4>3, <4>4, <4>5 DEF GroupIs
    <3>8. Groups'
      <4>1. w \in 1 .. Len(chain')
        BY <1>3, <2>10, <3>3, <3>5
      <4> QED
        BY <2>5, <3>1, <3>4, <3>7, <4>1 DEF Groups
    <3>9. Thrifty'
      <4>1. InHand' = size + bytesPerCluster
        BY <3>1 DEF InHand, InGroup
      <4>2. CASE Len(chain') = Len(chain)
        <5>1. next = start
          BY <1>6, <2>9, <4>2
        <5>2. start < Here + size => start < Here' + InHand'
          BY <1>3, <2>5, <2>10, <4>1
        <5> QED
          BY <1>7, <2>9, <4>2, <5>1, <5>2, FixedIs DEF Thrifty
      <4>3. CASE Len(chain') = Len(chain) + 1 /\ k + 1 = Len(chain')
        <5>1. next < Here' + InHand'
          <6>1. Len(chain') - 1 = k
            BY <2>10, <2>13, <4>3
          <6> QED
            BY <1>3, <2>5, <2>9, <2>10, <2>13, <4>1, <6>1
        <5> QED
          BY <2>9, <5>1 DEF Thrifty
      <4> QED
        BY <3>2, <4>2, <4>3
    <3> QED
      BY <2>7, <2>8, <3>8, <3>9 DEF IInv
  <2> QED
    BY <2>4, <2>11, <2>14, <2>15
<1> QED
  BY <1>8, <1>9

LEMMA WriteChunkStep ==
  ASSUME IInv, WriteChunk, UNCHANGED fixed
  PROVE  IInv'
<1>1. /\ CallOK /\ LocalsOK /\ BytesInPlace /\ Groups /\ Thrifty /\ InGroup
      /\ pc = "chunk" /\ op = "write" /\ error # "EIO" /\ pc' = "clusters"
      /\ UNCHANGED <<chain, group, erased>> /\ erased' = {}
  BY DEF IInv, WriteChunk, Goto, InGroup, Groups, LocalsOK
<1>2. PICK i \in DOMAIN chain, m \in 1 .. Len(chain) : GroupIs(i, m)
  BY <1>1 DEF Groups
<1>3. /\ geometry \in Geometries /\ chain \in Chains /\ Grown(chain')
      /\ bytesPerSector \in Nat \ {0} /\ sectorsPerCluster \in Nat \ {0} /\ bytesPerCluster \in Nat \ {0}
      /\ i \in Nat /\ i >= 1 /\ i <= Len(chain) /\ m \in Nat /\ m >= 1 /\ Len(chain) \in Nat \ {0}
      /\ DOMAIN chain = 1 .. Len(chain) /\ Here \in Nat /\ remain \in Nat
      /\ position \in PositionType
  BY <1>1, GeometryIs, ChainIs, HereIs, NotGrown DEF CallOK, LocalsOK
<1>4. /\ Consecutive(i, m) /\ position = [cluster |-> chain[i], sector |-> 0, byte |-> 0]
      /\ Here = (i - 1) * bytesPerCluster
      /\ group.chunkEnd = chain[i + m - 1] /\ i + m - 1 <= Len(chain)
      /\ group.chunkSize = m * bytesPerCluster /\ group.chunkSize <= remain
      /\ \/ group.next = group.chunkEnd
         \/ /\ i + m <= Len(chain) /\ group.next = chain[i + m]
            /\ group.chunkSize < remain /\ error = "none"
  BY <1>2 DEF GroupIs, Consecutive
<1>5. PICK size \in Nat : size = group.chunkSize
  BY <1>3, <1>4
<1>6. ~InGroup' /\ Groups' /\ op' = "write" /\ InHand' = 0
  BY <1>1, FixedIs DEF InGroup, Groups, InHand
<1>7. CASE Fail
  <2>1. UNCHANGED <<moved, remain, position>> /\ error' = "EIO"
    BY <1>7 DEF Fail
  <2>2. MovedBy(0) /\ Here' = Here
    BY <1>1, <1>3, <2>1, NotMoved, FixedIs DEF Here
  <2>3. CallOK' /\ LocalsOK' /\ BytesInPlace'
    BY <1>1, <1>3, <2>1, <2>2, LocalsNext DEF Labels
  <2>4. Stands(chain, position, Here)'
    <3>1. 0 * bytesPerSector = 0 /\ (i - 1) * bytesPerCluster \in Int /\ sectorsPerCluster # 0
      BY <1>3
    <3>2. Here' = (i - 1) * bytesPerCluster + (0 * bytesPerSector + 0)
      BY <1>4, <2>2, <3>1
    <3> QED
      BY <1>1, <1>4, <2>1, <3>1, <3>2, StandsIs
  <2> QED
    BY <1>1, <1>6, <2>1, <2>3, <2>4 DEF Phases, Thrifty, IInv
<1>8. CASE /\ Move([position EXCEPT !.sector = 0, !.byte = 0], group.chunkSize)
           /\ position' =
                IF group.chunkEnd # group.next
                THEN [position EXCEPT !.cluster = group.next, !.sector = 0]
                ELSE [position EXCEPT !.cluster = group.chunkEnd, !.sector = sectorsPerCluster]
           /\ UNCHANGED error
  <2> DEFINE p == [position EXCEPT !.sector = 0, !.byte = 0]
  <2>1. p.cluster = chain[i] /\ p.sector = 0 /\ p.byte = 0
    BY <1>4
  <2>2. Move(p, m * bytesPerCluster)
    BY <1>4, <1>8
  <2> HIDE DEF p
  <2>3. MovedBy(m * bytesPerCluster)
    BY <1>1, <1>3, <1>4, <2>1, <2>2, MoveClusters
  <2>4. MovedBy(size) /\ Here' = Here + size /\ remain' = remain - size
    BY <1>4, <1>5, <2>3 DEF MovedBy
  <2>5. PICK k \in DOMAIN chain : k = i + m - 1
    BY <1>3, <1>4
  <2>6. k \in Nat /\ Here' = k * bytesPerCluster
    <3>1. (i - 1 + m) * bytesPerCluster = (i - 1) * bytesPerCluster + m * bytesPerCluster
      BY <1>3, Multiples
    <3>2. i - 1 + m = k
      BY <1>3, <2>5
    <3> QED
      BY <1>3, <1>4, <1>5, <2>4, <2>5, <3>1, <3>2
  <2>7. k * bytesPerCluster \in Nat
    BY <1>3, <2>6
  <2>8. /\ position' \in PositionType /\ Stands(chain, position, Here)'
        /\ position'.byte = 0 /\ position'.sector \in {0, sectorsPerCluster}
    <3>1. CASE group.chunkEnd = group.next
      <4>1. position' = [cluster |-> chain[k], sector |-> sectorsPerCluster, byte |-> 0]
        BY <1>4, <1>8, <2>5, <3>1
      <4>2. position' \in PositionType
        BY <1>3, <4>1, ChainIs DEF PositionType
      <4>3. sectorsPerCluster * bytesPerSector = bytesPerCluster
        BY <1>3, SectorsAre
      <4>4. (k - 1) * bytesPerCluster = k * bytesPerCluster - bytesPerCluster
        BY <1>3, <2>6, Multiples
      <4>5. Here' = (k - 1) * bytesPerCluster + (sectorsPerCluster * bytesPerSector + 0)
        BY <1>3, <2>6, <2>7, <4>3, <4>4
      <4>6. Stands(chain, position, Here)'
        BY <1>1, <4>1, <4>5, StandsIs
      <4> QED
        BY <4>1, <4>2, <4>6
    <3>2. CASE group.chunkEnd # group.next
      <4>1. PICK j \in DOMAIN chain : j = i + m /\ group.next = chain[j]
        BY <1>3, <1>4, <3>2
      <4>2. position' = [cluster |-> chain[j], sector |-> 0, byte |-> 0]
        BY <1>4, <1>8, <3>2, <4>1
      <4>3. position' \in PositionType
        BY <1>3, <4>2, ChainIs DEF PositionType
      <4>4. 0 * bytesPerSector = 0 /\ j - 1 = k /\ sectorsPerCluster # 0
        BY <1>3, <2>5, <4>1
      <4>5. Here' = (j - 1) * bytesPerCluster + (0 * bytesPerSector + 0)
        BY <2>6, <2>7, <4>4
      <4>6. Stands(chain, position, Here)'
        BY <1>1, <4>2, <4>4, <4>5, StandsIs
      <4> QED
        BY <4>2, <4>3, <4>6
    <3> QED
      BY <3>1, <3>2
  <2>9. CallOK' /\ LocalsOK' /\ BytesInPlace'
    BY <1>1, <1>3, <1>8, <2>4, <2>8, LocalsNext DEF Labels, LocalsOK
  <2>10. Ready' /\ AtClusters'
    BY <1>6, <2>8, FixedIs DEF Ready, AtClusters
  <2>11. Phases'
    BY <1>1, <1>6, <2>8, <2>10 DEF Phases
  <2>12. Thrifty'
    <3>1. PICK start : start = (Len(chain) - 1) * bytesPerCluster /\ start = ((Len(chain) - 1) * bytesPerCluster)'
      BY <1>1, FixedIs
    <3>2. \/ Len(chain) = 1 \/ start < filesize \/ start < Here + size
          \/ error = "none" /\ start = Here + size /\ size < remain
      BY <1>1, <1>5, <3>1 DEF Thrifty, InHand
    <3>3. \/ Len(chain') = 1 \/ start < filesize' \/ start < Here' + InHand'
          \/ error' = "none" /\ start = Here' + InHand' /\ InHand' < remain'
      BY <1>1, <1>3, <1>5, <1>6, <1>8, <2>4, <3>2, FixedIs
    <3> QED
      BY <1>6, <3>1, <3>3 DEF Thrifty
  <2> QED
    BY <1>6, <2>9, <2>11, <2>12 DEF IInv
<1> QED
  BY <1>7, <1>8 DEF WriteChunk

LEMMA ClustersDoneStep ==
  ASSUME IInv, ClustersDone, UNCHANGED fixed
  PROVE  IInv'
<1>1. /\ CallOK /\ LocalsOK /\ BytesInPlace /\ Phases /\ Thrifty /\ ~InGroup
      /\ pc = "clusters" /\ op \in {"read", "write"} /\ (error = "none" => Ready /\ AtClusters)
      /\ Stands(chain, position, Here) /\ (error = "none" => remain < bytesPerCluster)
  BY DEF IInv, ClustersDone, InGroup, Phases, CallOK
<1>2. /\ bytesPerSector \in Nat \ {0} /\ sectorsPerCluster \in Nat \ {0} /\ remain \in Nat
      /\ position.sector \in Nat /\ position.sector <= sectorsPerCluster /\ chain \in Chains
      /\ position \in PositionType
  BY <1>1, PositionIs DEF LocalsOK
<1>3. CASE op = "write"
  <2>1. CheckPosition("rest")
    BY <1>3 DEF ClustersDone
  <2>2. /\ CallOK' /\ LocalsOK' /\ BytesInPlace' /\ Thrifty' /\ Stands(chain, position, Here)'
        /\ pc' = "rest" /\ op' = op /\ remain' = remain /\ position'.byte = position.byte
        /\ (error' = "none" /\ remain > 0) => position'.sector < sectorsPerCluster
        /\ position'.sector = position.sector
             \/ (position'.sector = 0 /\ position.byte = 0 /\ position.sector = sectorsPerCluster)
        /\ error' # "none" \/ error = "none"
    BY <1>1, <2>1, CheckIs
  <2>3. Groups'
    BY <2>2 DEF Groups, InGroup
  <2>4. error' = "none" => Ready'
    BY <1>1, <2>2 DEF Ready
  <2>5. error' = "none" => AtRest'
    BY <1>1, <1>2, <2>2, FixedIs DEF AtRest, AtClusters
  <2>6. Phases'
    BY <1>3, <2>2, <2>4, <2>5 DEF Phases
  <2> QED
    BY <2>2, <2>3, <2>6 DEF IInv
<1>4. CASE op = "read"
  <2>1. UNCHANGED <<position, chain, error, moved, remain, group, erased>> /\ pc' = "rest" /\ erased' = {}
    BY <1>1, <1>4 DEF ClustersDone, Goto, LocalsOK
  <2>2. Grown(chain') /\ MovedBy(0)
    BY <1>1, <1>2, <2>1, NotGrown, NotMoved
  <2>3. CallOK' /\ LocalsOK' /\ BytesInPlace' /\ Thrifty' /\ Groups'
    BY <1>1, <1>2, <2>1, <2>2, StepKeeps DEF Labels
  <2>4. Stands(chain, position, Here)'
    BY <1>1, <2>1, <2>2, StandsStay
  <2>5. error' = "none" => Ready' /\ AtRest'
    BY <1>1, <1>2, <1>4, <2>1, FixedIs DEF Ready, AtRest, AtClusters
  <2>6. Phases'
    BY <1>1, <2>1, <2>4, <2>5, FixedIs DEF Phases
  <2> QED
    BY <2>3, <2>6 DEF IInv
<1> QED
  BY <1>1, <1>3, <1>4

-----------------------------------------------------------------------------
(* The rest of a call. *)

LEMMA RestStep ==
  ASSUME IInv, Rest, UNCHANGED fixed
  PROVE  IInv'
<1>1. /\ CallOK /\ LocalsOK /\ BytesInPlace /\ Phases /\ Thrifty /\ ~InGroup
      /\ pc = "rest" /\ op # "extend" /\ pc' = "last" /\ UNCHANGED <<chain, group, erased>>
      /\ (error = "none" => Ready /\ AtRest) /\ Stands(chain, position, Here) /\ erased' = {}
  BY DEF IInv, Rest, Goto, InGroup, Phases, LocalsOK
<1>2. /\ position.sector \in Nat /\ position.byte \in Nat /\ position \in PositionType
      /\ position = [cluster |-> position.cluster, sector |-> position.sector, byte |-> position.byte]
      /\ position.cluster \in Clusters
      /\ bytesPerSector \in Nat \ {0} /\ sectorsPerCluster \in Nat \ {0} /\ bytesPerCluster \in Nat \ {0}
      /\ geometry \in Geometries /\ chain \in Chains /\ remain \in Nat /\ Grown(chain')
  BY <1>1, PositionIs, NotGrown DEF LocalsOK, CallOK
<1>3. PICK n \in Nat :
        /\ n * bytesPerSector <= remain /\ remain - n * bytesPerSector < bytesPerSector
        /\ IF n > 0 /\ error = "none"
           THEN \/ /\ Move([position EXCEPT !.sector = 0, !.byte = 0], n * bytesPerSector)
                   /\ position' = [position EXCEPT !.sector = @ + n]
                   /\ UNCHANGED error
                \/ Fail
           ELSE Skip
  <2> DEFINE n == remain \div bytesPerSector
  <2>1. IF n > 0 /\ error = "none"
        THEN \/ /\ Move([position EXCEPT !.sector = 0, !.byte = 0], n * bytesPerSector)
                /\ position' = [position EXCEPT !.sector = @ + n]
                /\ UNCHANGED error
             \/ Fail
        ELSE Skip
    BY DEF Rest
  <2>2. /\ n \in Nat /\ remain % bytesPerSector \in 0 .. bytesPerSector - 1
        /\ remain = n * bytesPerSector + (remain % bytesPerSector)
    BY <1>2, DivMod
  <2>3. PICK r : r = remain % bytesPerSector
    OBVIOUS
  <2> HIDE DEF n
  <2>4. n * bytesPerSector <= remain /\ remain - n * bytesPerSector < bytesPerSector
    <3>1. PICK m \in Nat : m = n * bytesPerSector
      BY <1>2, <2>2
    <3> QED
      BY <1>2, <2>2, <2>3, <3>1
  <2> QED
    BY <2>1, <2>2, <2>4
<1>4. PICK m \in Nat : m = n * bytesPerSector
  BY <1>2
<1>5. CASE /\ n > 0 /\ error = "none" /\ error' = "none"
           /\ Move([position EXCEPT !.sector = 0, !.byte = 0], n * bytesPerSector)
           /\ position' = [position EXCEPT !.sector = @ + n]
  <2>1. m <= remain /\ m >= bytesPerSector /\ remain < bytesPerCluster /\ remain >= bytesPerSector
    <3>1. n >= 1 => n * bytesPerSector >= bytesPerSector
      BY <1>2, SectorsAre
    <3>2. m >= bytesPerSector /\ m <= remain
      BY <1>3, <1>4, <1>5, <3>1
    <3> QED
      BY <1>1, <1>2, <1>5, <3>2 DEF AtRest
  <2>2. position.byte = 0 /\ position.sector = 0
    BY <1>1, <1>2, <1>5, <2>1 DEF Ready, AtRest
  <2>3. n < sectorsPerCluster
    BY <1>2, <1>4, <2>1, SectorsAre
  <2>4. /\ position' = [cluster |-> position.cluster, sector |-> n, byte |-> 0]
        /\ n \in 0 .. sectorsPerCluster /\ 0 \in 0 .. bytesPerSector - 1
    BY <1>2, <1>5, <2>2, <2>3
  <2>5. position' \in PositionType
    BY <1>2, <2>4 DEF PositionType
  <2> DEFINE p == [position EXCEPT !.sector = 0, !.byte = 0]
  <2>6. p.cluster = position.cluster /\ p.sector = position.sector /\ p.byte = position.byte
    BY <1>2, <2>2
  <2>7. Move(p, m)
    BY <1>4, <1>5
  <2> HIDE DEF p
  <2>8. MovedBy(m) /\ Stands(chain, position, Here)'
    <3>1. /\ position'.cluster = position.cluster
          /\ position'.sector * bytesPerSector + position'.byte
               = position.sector * bytesPerSector + position.byte + m
          /\ position.sector * bytesPerSector + position.byte + m <= bytesPerCluster
          /\ position'.sector = sectorsPerCluster => position'.byte = 0
      BY <1>2, <1>4, <2>1, <2>2, <2>4
    <3> QED
      BY <1>1, <2>1, <2>6, <2>7, <3>1, HereMoves DEF MoveUnchecked
  <2>9. CallOK' /\ LocalsOK' /\ BytesInPlace' /\ Thrifty' /\ Groups'
    BY <1>1, <1>5, <2>5, <2>8, StepKeeps DEF Labels
  <2>10. Ready' /\ remain' < bytesPerSector /\ remain' <= remain
    BY <1>2, <1>3, <1>4, <2>4, <2>8 DEF Ready, MovedBy
  <2>11. AtRest'
    BY <1>2, <2>1, <2>3, <2>4, <2>8, <2>10, FixedIs DEF AtRest, MovedBy
  <2>12. Phases'
    BY <1>1, <2>8, <2>10, <2>11, FixedIs DEF Phases
  <2> QED
    BY <2>9, <2>12 DEF IInv
<1>6. CASE UNCHANGED <<moved, remain, position>> /\ error' \in {error, "EIO"}
           /\ (error' = "none" => ~(n > 0))
  <2>1. MovedBy(0)
    BY <1>1, <1>2, <1>6, NotMoved
  <2>2. CallOK' /\ LocalsOK' /\ BytesInPlace' /\ Thrifty' /\ Groups'
    BY <1>1, <1>2, <1>6, <2>1, StepKeeps DEF Labels
  <2>3. Stands(chain, position, Here)'
    BY <1>1, <1>2, <1>6, StandsStay
  <2>4. error' = "none" => Ready' /\ AtRest'
    <3>1. error' = "none" => n = 0 /\ 0 * bytesPerSector = 0
      BY <1>2, <1>6
    <3>2. error' = "none" => remain < bytesPerSector
      BY <1>2, <1>3, <3>1
    <3> QED
      BY <1>1, <1>2, <1>6, <3>2, FixedIs DEF Ready, AtRest
  <2>5. Phases'
    BY <1>1, <2>3, <2>4, FixedIs DEF Phases
  <2> QED
    BY <2>2, <2>5 DEF IInv
<1> QED
  BY <1>3, <1>5, <1>6 DEF Fail, Skip

(* The last part of a sector: what is left, less than a sector. *)
LEMMA LastPart ==
  ASSUME CallOK, LocalsOK, BytesInPlace, UNCHANGED fixed, UNCHANGED chain,
         Stands(chain, position, Here), remain < bytesPerSector,
         position.sector < sectorsPerCluster, position.byte = 0,
         NEW p, p.cluster = position.cluster, p.sector = position.sector, p.byte = 0,
         MoveUnchecked(p, remain),
         position' = [cluster |-> position.cluster, sector |-> position.sector, byte |-> remain]
  PROVE  /\ MovedBy(remain) /\ Stands(chain, position, Here)'
         /\ position' \in PositionType /\ remain' = 0
<1>1. /\ position.sector \in Nat /\ position.cluster \in Clusters
      /\ bytesPerSector \in Nat \ {0} /\ sectorsPerCluster \in Nat \ {0} /\ bytesPerCluster \in Nat \ {0}
      /\ geometry \in Geometries /\ remain \in Nat
  BY PositionIs DEF CallOK
<1>2. position' \in PositionType
  BY <1>1 DEF PositionType
<1>3. position.sector * bytesPerSector \in Nat
      /\ position.sector * bytesPerSector + bytesPerSector <= bytesPerCluster
  BY <1>1, SectorsAre
<1>4. /\ position'.cluster = position.cluster
      /\ position'.sector * bytesPerSector + position'.byte
           = position.sector * bytesPerSector + position.byte + remain
      /\ position.sector * bytesPerSector + position.byte + remain <= bytesPerCluster
      /\ position'.sector = sectorsPerCluster => position'.byte = 0
  BY <1>1, <1>3
<1>5. MovedBy(remain) /\ Stands(chain, position, Here)'
  BY <1>1, <1>4, HereMoves
<1> QED
  BY <1>1, <1>2, <1>5 DEF MovedBy

LEMMA LastStep ==
  ASSUME IInv, Last, UNCHANGED fixed
  PROVE  IInv'
<1>1. /\ CallOK /\ LocalsOK /\ BytesInPlace /\ Phases /\ Thrifty /\ ~InGroup
      /\ pc = "last" /\ op # "extend" /\ pc' = "done" /\ UNCHANGED <<chain, group>>
      /\ (error = "none" => Ready /\ AtRest) /\ Stands(chain, position, Here)
  BY DEF IInv, Last, Goto, InGroup, Phases
<1>2. /\ position = [cluster |-> position.cluster, sector |-> position.sector, byte |-> position.byte]
      /\ bytesPerSector \in Nat \ {0} /\ position \in PositionType
      /\ chain \in Chains /\ remain \in Nat /\ Grown(chain')
  BY <1>1, PositionIs, NotGrown DEF LocalsOK, CallOK
<1>3. CASE remain > 0 /\ error = "none"
  <2> DEFINE p == [position EXCEPT !.byte = 0]
  <2>1. MoveUnchecked(p, remain) /\ position' = [position EXCEPT !.byte = @ + remain] /\ error' = "none"
    BY <1>3 DEF Last, MoveUnchecked
  <2>2. position.byte = 0 /\ position.sector < sectorsPerCluster /\ remain < bytesPerSector
    BY <1>1, <1>2, <1>3 DEF Ready, AtRest
  <2>3. /\ position' = [cluster |-> position.cluster, sector |-> position.sector, byte |-> remain]
        /\ p.cluster = position.cluster /\ p.sector = position.sector /\ p.byte = 0
    BY <1>2, <2>1, <2>2
  <2> HIDE DEF p
  <2>4. /\ MovedBy(remain) /\ Stands(chain, position, Here)'
        /\ position' \in PositionType /\ remain' = 0
    BY <1>1, <2>1, <2>2, <2>3, LastPart
  <2>5. CallOK' /\ LocalsOK' /\ BytesInPlace' /\ Thrifty' /\ Groups'
    BY <1>1, <1>2, <1>3, <2>1, <2>4, StepKeeps DEF Labels
  <2>6. Phases'
    BY <1>1, <2>4 DEF Phases, AtEnd
  <2> QED
    BY <2>5, <2>6 DEF IInv
<1>4. CASE ~(remain > 0 /\ error = "none")
  <2>1. UNCHANGED <<moved, remain, position, error>>
    BY <1>4 DEF Last, Skip
  <2>2. MovedBy(0)
    BY <1>1, <1>2, <2>1, NotMoved
  <2>3. CallOK' /\ LocalsOK' /\ BytesInPlace' /\ Thrifty' /\ Groups'
    BY <1>1, <1>2, <2>1, <2>2, StepKeeps DEF Labels
  <2>4. Stands(chain, position, Here)'
    BY <1>1, <1>2, <2>1, StandsStay
  <2>5. error' = "none" => remain' = 0
    BY <1>2, <1>4, <2>1
  <2>6. Phases'
    BY <1>1, <2>4, <2>5 DEF Phases, AtEnd
  <2> QED
    BY <2>3, <2>6 DEF IInv
<1> QED
  BY <1>3, <1>4

-----------------------------------------------------------------------------
(* An extension. *)

LEMMA ExtendHeadStep ==
  ASSUME IInv, ExtendHead, UNCHANGED fixed
  PROVE  IInv'
<1>1. /\ CallOK /\ LocalsOK /\ BytesInPlace /\ Phases
      /\ pc = "head" /\ op = "extend" /\ UNCHANGED <<chain, error, group, erased>> /\ erased' = {}
      /\ AtHead /\ error = "none" /\ Stands(chain, position, Here)
  BY DEF IInv, ExtendHead, Phases, LocalsOK
<1>2. /\ position.sector \in Nat /\ position.byte \in Nat /\ position \in PositionType
      /\ position = [cluster |-> position.cluster, sector |-> position.sector, byte |-> position.byte]
      /\ position.cluster \in Clusters /\ position.byte < bytesPerSector
      /\ position.sector < sectorsPerCluster /\ remain > 0
      /\ bytesPerSector \in Nat \ {0} /\ sectorsPerCluster \in Nat \ {0} /\ bytesPerCluster \in Nat \ {0}
      /\ geometry \in Geometries /\ chain \in Chains /\ remain \in Nat /\ Grown(chain')
  BY <1>1, PositionIs, NotGrown DEF LocalsOK, CallOK, AtHead
<1>3. CASE remain + position.byte < bytesPerSector
  <2>1. MoveUnchecked(position, remain) /\ position' = [position EXCEPT !.byte = @ + remain] /\ pc' = "done"
    BY <1>3 DEF ExtendHead, Goto
  <2>2. /\ position' = [cluster |-> position.cluster, sector |-> position.sector,
                        byte |-> position.byte + remain]
        /\ position.byte + remain \in 0 .. bytesPerSector - 1
    BY <1>2, <1>3, <2>1
  <2>3. position' \in PositionType
    BY <1>2, <2>2 DEF PositionType
  <2>4. position.sector * bytesPerSector \in Nat
        /\ position.sector * bytesPerSector + bytesPerSector <= bytesPerCluster
    BY <1>2, SectorsAre
  <2>5. /\ position'.cluster = position.cluster
        /\ position'.sector * bytesPerSector + position'.byte
             = position.sector * bytesPerSector + position.byte + remain
        /\ position.sector * bytesPerSector + position.byte + remain <= bytesPerCluster
        /\ position'.sector = sectorsPerCluster => position'.byte = 0
    BY <1>2, <1>3, <2>2, <2>4
  <2>6. MovedBy(remain) /\ Stands(chain, position, Here)'
    BY <1>1, <1>2, <2>1, <2>5, HereMoves
  <2>7. CallOK' /\ LocalsOK' /\ BytesInPlace' /\ Thrifty' /\ Groups' /\ op' = "extend"
    BY <1>1, <1>2, <2>1, <2>3, <2>6, ExtendKeeps DEF Labels
  <2>8. remain' = 0
    BY <1>2, <2>6 DEF MovedBy
  <2>9. Phases'
    BY <2>1, <2>6, <2>8 DEF Phases, AtEnd
  <2> QED
    BY <2>7, <2>9 DEF IInv
<1>4. CASE ~(remain + position.byte < bytesPerSector)
  <2>1. /\ pc' = "zero"
        /\ IF position.byte > 0
           THEN /\ MoveUnchecked(position, bytesPerSector - position.byte)
                /\ position' = AfterBytes(position, bytesPerSector - position.byte)
           ELSE UNCHANGED <<moved, remain, position>>
    BY <1>4 DEF ExtendHead, Goto
  <2>2. PICK part \in Nat : part = bytesPerSector - position.byte
    BY <1>2
  <2>3. CASE position.byte > 0
    <3> DEFINE q == AfterBytes(position, part)
    <3>1. position' = q /\ MoveUnchecked(position, part) /\ part <= remain
      BY <1>2, <1>4, <2>1, <2>2, <2>3
    <3>2. position.byte + part = bytesPerSector
      BY <1>2, <2>2
    <3>3. /\ q \in PositionType /\ q.cluster = position.cluster
          /\ position.byte + part = bytesPerSector => q.byte = 0
          /\ q.sector = sectorsPerCluster => q.byte = 0
          /\ q.sector * bytesPerSector + q.byte
               = position.sector * bytesPerSector + position.byte + part
          /\ position.sector * bytesPerSector + position.byte + part <= bytesPerCluster
      BY <1>2, <3>2, AfterBytesIs
    <3> HIDE DEF q
    <3>4. MovedBy(part) /\ Stands(chain, position, Here)'
      BY <1>1, <3>1, <3>3, HereMoves
    <3>5. CallOK' /\ LocalsOK' /\ BytesInPlace' /\ Thrifty' /\ Groups' /\ op' = "extend"
      BY <1>1, <1>2, <2>1, <3>1, <3>3, <3>4, ExtendKeeps DEF Labels
    <3>6. Phases'
      BY <1>1, <2>1, <3>1, <3>2, <3>3, <3>4, <3>5 DEF Phases
    <3> QED
      BY <3>5, <3>6 DEF IInv
  <2>4. CASE ~(position.byte > 0)
    <3>1. UNCHANGED <<moved, remain, position>> /\ position.byte = 0
      BY <1>2, <2>1, <2>4
    <3>2. MovedBy(0)
      BY <1>1, <1>2, <3>1, NotMoved
    <3>3. CallOK' /\ LocalsOK' /\ BytesInPlace' /\ Thrifty' /\ Groups' /\ op' = "extend"
      BY <1>1, <1>2, <2>1, <3>1, <3>2, ExtendKeeps DEF Labels
    <3>4. Stands(chain, position, Here)'
      BY <1>1, <1>2, <3>1, StandsStay
    <3>5. Phases'
      BY <1>1, <2>1, <3>1, <3>3, <3>4 DEF Phases
    <3> QED
      BY <3>3, <3>5 DEF IInv
  <2> QED
    BY <2>3, <2>4
<1> QED
  BY <1>3, <1>4

LEMMA ExtendSectorStep ==
  ASSUME IInv, ExtendSector, UNCHANGED fixed
  PROVE  IInv'
<1>1. /\ CallOK /\ LocalsOK /\ BytesInPlace /\ Phases
      /\ pc = "zero" /\ op = "extend" /\ UNCHANGED <<group, erased>> /\ erased' = {}
      /\ position.byte = 0 /\ error = "none" /\ Stands(chain, position, Here)
      /\ remain >= bytesPerSector
  BY DEF IInv, ExtendSector, Phases, LocalsOK
<1>2. /\ position \in PositionType /\ bytesPerSector \in Nat \ {0}
      /\ sectorsPerCluster \in Nat \ {0} /\ bytesPerCluster \in Nat \ {0}
      /\ geometry \in Geometries /\ remain \in Nat /\ Here \in Nat
  BY <1>1, PositionIs, HereIs DEF LocalsOK, CallOK
<1>3. PICK n \in NextClusterFor(position) :
        /\ chain' = n.links /\ error' = n.error
        /\ IF n.error = "none"
           THEN /\ pc' = "zero"
                /\ MoveUnchecked([cluster |-> n.cluster, sector |-> n.sector, byte |-> 0], bytesPerSector)
                /\ position' = [cluster |-> n.cluster, sector |-> n.sector + 1, byte |-> position.byte]
           ELSE pc' = "done" /\ UNCHANGED <<moved, remain, position>>
  BY DEF ExtendSector, Goto
<1>4. /\ Grown(chain') /\ error' \in {"none", "ENOSPC"}
      /\ error' = "ENOSPC" => Free = {} /\ chain' = chain
      /\ [position EXCEPT !.cluster = n.cluster, !.sector = n.sector] \in PositionType
  BY <1>1, <1>3, ContinuedHere
<1>5. n.cluster \in Clusters /\ n.sector \in Nat
  <2>1. PICK q \in PositionType : q = [position EXCEPT !.cluster = n.cluster, !.sector = n.sector]
    BY <1>4
  <2>2. q.cluster = n.cluster /\ q.sector = n.sector
    BY <1>2, <2>1 DEF PositionType
  <2>3. q.cluster \in Clusters /\ q.sector \in Nat
    BY <1>2 DEF PositionType
  <2> QED
    BY <2>2, <2>3
<1>6. CASE n.error = "none"
  <2>1. /\ n.sector < sectorsPerCluster
        /\ n.sector = position.sector \/ (n.sector = 0 /\ position.byte = 0 /\ position.sector = sectorsPerCluster)
        /\ \E j \in DOMAIN chain' :
             /\ n.cluster = chain'[j]
             /\ Here = (j - 1) * bytesPerCluster + (n.sector * bytesPerSector + position.byte)
        /\ Len(chain') = Len(chain) \/ Here = (Len(chain') - 1) * bytesPerCluster
    BY <1>1, <1>3, <1>6, ContinuedHere
  <2>2. PICK j \in DOMAIN chain' :
          /\ n.cluster = chain'[j]
          /\ Here = (j - 1) * bytesPerCluster + (n.sector * bytesPerSector + position.byte)
    BY <2>1
  <2> DEFINE p == [cluster |-> n.cluster, sector |-> n.sector, byte |-> 0]
  <2>3. /\ p.cluster = chain'[j] /\ p.sector = n.sector /\ p.byte = 0 /\ MoveUnchecked(p, bytesPerSector)
    BY <1>3, <1>6, <2>2
  <2> HIDE DEF p
  <2>4. /\ n.sector * bytesPerSector \in Nat
        /\ (n.sector + 1) * bytesPerSector = n.sector * bytesPerSector + bytesPerSector
        /\ n.sector * bytesPerSector + bytesPerSector <= bytesPerCluster
    BY <1>2, <1>5, <2>1, SectorsAre
  <2>5. MovedBy(bytesPerSector)
    <3>1. /\ Here = (j - 1) * bytesPerCluster + (p.sector * bytesPerSector + p.byte)
          /\ p.sector \in Nat /\ p.byte \in Nat
          /\ p.sector * bytesPerSector + p.byte + bytesPerSector <= bytesPerCluster
      BY <1>1, <1>2, <1>5, <2>2, <2>3, <2>4
    <3> QED
      BY <1>1, <1>2, <1>4, <2>3, <3>1, MoveInCluster
  <2>6. /\ position' = [cluster |-> n.cluster, sector |-> n.sector + 1, byte |-> 0]
        /\ n.sector + 1 \in 0 .. sectorsPerCluster /\ 0 \in 0 .. bytesPerSector - 1 /\ pc' = "zero"
    BY <1>1, <1>2, <1>3, <1>5, <1>6, <2>1
  <2>7. position' \in PositionType
    BY <1>5, <2>6 DEF PositionType
  <2>8. Stands(chain, position, Here)'
    <3>1. (j - 1) * bytesPerCluster \in Int /\ Here' = Here + bytesPerSector
      <4>1. j \in Nat
        BY <1>4, ChainIs DEF Grown
      <4> QED
        BY <1>2, <2>5, <4>1 DEF MovedBy
    <3>2. Here' = (j - 1) * bytesPerCluster + ((n.sector + 1) * bytesPerSector + 0)
      BY <1>1, <1>2, <2>2, <2>4, <3>1
    <3> QED
      BY <2>2, <2>6, <3>2, StandsIs
  <2>9. CallOK' /\ LocalsOK' /\ BytesInPlace' /\ Thrifty' /\ Groups' /\ op' = "extend"
    BY <1>1, <1>2, <1>3, <1>4, <1>6, <2>5, <2>6, <2>7, ExtendKeeps DEF Labels
  <2>10. Phases'
    BY <1>3, <1>6, <2>6, <2>8, <2>9 DEF Phases
  <2> QED
    BY <2>9, <2>10 DEF IInv
<1>7. CASE n.error # "none"
  <2>1. UNCHANGED <<moved, remain, position>> /\ pc' = "done" /\ error' # "none"
    BY <1>3, <1>7
  <2>2. MovedBy(0)
    BY <1>1, <1>4, <2>1, NotMoved
  <2>3. CallOK' /\ LocalsOK' /\ BytesInPlace' /\ Thrifty' /\ Groups' /\ op' = "extend"
    BY <1>1, <1>2, <1>4, <2>1, <2>2, ExtendKeeps DEF Labels
  <2>4. Phases'
    BY <2>1, <2>3 DEF Phases, AtEnd
  <2> QED
    BY <2>3, <2>4 DEF IInv
<1> QED
  BY <1>6, <1>7

LEMMA ExtendCheckStep ==
  ASSUME IInv, ExtendCheck, UNCHANGED fixed
  PROVE  IInv'
<1>1. /\ CallOK /\ LocalsOK /\ BytesInPlace /\ Phases /\ Thrifty /\ ~InGroup
      /\ pc = "zero" /\ op = "extend" /\ position.byte = 0 /\ error = "none"
      /\ Stands(chain, position, Here) /\ remain < bytesPerSector /\ CheckPosition("tail")
  BY DEF IInv, ExtendCheck, Phases, InGroup
<1>2. /\ CallOK' /\ LocalsOK' /\ BytesInPlace' /\ Thrifty' /\ Stands(chain, position, Here)'
      /\ pc' = "tail" /\ op' = op /\ remain' = remain /\ position'.byte = position.byte
      /\ (error' = "none" /\ remain > 0) => position'.sector < sectorsPerCluster
  BY <1>1, CheckIs
<1>3. Groups'
  BY <1>2 DEF Groups, InGroup
<1>4. Phases'
  BY <1>1, <1>2, FixedIs DEF Phases, AtTail
<1> QED
  BY <1>2, <1>3, <1>4 DEF IInv

LEMMA ExtendTailStep ==
  ASSUME IInv, ExtendTail, UNCHANGED fixed
  PROVE  IInv'
<1>1. /\ CallOK /\ LocalsOK /\ BytesInPlace /\ Phases
      /\ pc = "tail" /\ op = "extend" /\ pc' = "done" /\ UNCHANGED <<chain, error, group, erased>>
      /\ erased' = {} /\ position.byte = 0 /\ AtTail /\ Stands(chain, position, Here)
  BY DEF IInv, ExtendTail, Goto, Phases, LocalsOK
<1>2. /\ position = [cluster |-> position.cluster, sector |-> position.sector, byte |-> position.byte]
      /\ position \in PositionType /\ chain \in Chains /\ remain \in Nat /\ Grown(chain')
  BY <1>1, PositionIs, NotGrown DEF LocalsOK, CallOK
<1>3. CASE remain > 0 /\ error = "none"
  <2> DEFINE p == [position EXCEPT !.byte = 0]
  <2>1. MoveUnchecked(p, remain) /\ position' = [position EXCEPT !.byte = remain]
    BY <1>3 DEF ExtendTail
  <2>2. /\ position' = [cluster |-> position.cluster, sector |-> position.sector, byte |-> remain]
        /\ p.cluster = position.cluster /\ p.sector = position.sector /\ p.byte = 0
        /\ position.sector < sectorsPerCluster /\ remain < bytesPerSector
    BY <1>1, <1>2, <1>3, <2>1 DEF AtTail
  <2> HIDE DEF p
  <2>3. /\ MovedBy(remain) /\ Stands(chain, position, Here)'
        /\ position' \in PositionType /\ remain' = 0
    BY <1>1, <2>1, <2>2, LastPart
  <2>4. CallOK' /\ LocalsOK' /\ BytesInPlace' /\ Thrifty' /\ Groups' /\ op' = "extend"
    BY <1>1, <1>2, <1>3, <2>3, ExtendKeeps DEF Labels
  <2>5. Phases'
    BY <1>1, <2>3 DEF Phases, AtEnd
  <2> QED
    BY <2>4, <2>5 DEF IInv
<1>4. CASE ~(remain > 0 /\ error = "none")
  <2>1. UNCHANGED <<moved, remain, position>>
    BY <1>4 DEF ExtendTail
  <2>2. MovedBy(0)
    BY <1>1, <1>2, <2>1, NotMoved
  <2>3. CallOK' /\ LocalsOK' /\ BytesInPlace' /\ Thrifty' /\ Groups' /\ op' = "extend"
    BY <1>1, <1>2, <2>1, <2>2, ExtendKeeps DEF Labels, LocalsOK
  <2>4. Stands(chain, position, Here)'
    BY <1>1, <1>2, <2>1, StandsStay
  <2>5. error' = "none" => remain' = 0
    BY <1>1, <1>2, <1>4, <2>1
  <2>6. Phases'
    BY <1>1, <2>4, <2>5 DEF Phases, AtEnd
  <2> QED
    BY <2>3, <2>6 DEF IInv
<1> QED
  BY <1>3, <1>4

-----------------------------------------------------------------------------
(* The steps and the beginning. *)

LEMMA FilePosition ==
  ASSUME geometry \in Geometries, NEW q \in Nat, NEW o \in 0 .. bytesPerCluster - 1
  PROVE  LET n == q * bytesPerCluster + o IN
         /\ n \in Nat /\ n \div bytesPerCluster = q /\ n % bytesPerCluster = o
         /\ n % bytesPerSector = o % bytesPerSector
         /\ o \div bytesPerSector \in Nat /\ o \div bytesPerSector < sectorsPerCluster
         /\ o % bytesPerSector \in 0 .. bytesPerSector - 1
         /\ o = (o \div bytesPerSector) * bytesPerSector + (o % bytesPerSector)
<1> DEFINE n == q * bytesPerCluster + o
<1>1. /\ bytesPerSector \in Nat \ {0} /\ sectorsPerCluster \in Nat \ {0} /\ bytesPerCluster \in Nat \ {0}
      /\ bytesPerCluster = sectorsPerCluster * bytesPerSector /\ o \in Nat
  BY GeometryIs
<1>2. n \in Nat /\ n \div bytesPerCluster = q /\ n % bytesPerCluster = o
  <2>1. q * bytesPerCluster \in Nat
    BY <1>1
  <2> QED
    BY <1>1, <2>1, Quotient
<1>3. PICK s \in Nat, y \in 0 .. bytesPerSector - 1 :
        s = o \div bytesPerSector /\ y = o % bytesPerSector /\ o = s * bytesPerSector + y
  <2>1. /\ o \div bytesPerSector \in Nat /\ o % bytesPerSector \in 0 .. bytesPerSector - 1
        /\ o = (o \div bytesPerSector) * bytesPerSector + (o % bytesPerSector)
    BY <1>1, DivMod
  <2> QED
    BY <2>1
<1>4. s < sectorsPerCluster
  <2>1. s * bytesPerSector \in Nat
    BY <1>1
  <2>2. s * bytesPerSector < bytesPerCluster
    BY <1>1, <1>3, <2>1
  <2> QED
    BY <1>1, <2>2, SectorsAre
<1>5. n % bytesPerSector = y
  <2>1. PICK t \in Nat : t = q * sectorsPerCluster
    BY <1>1
  <2>2. q * (sectorsPerCluster * bytesPerSector) = t * bytesPerSector
    <3>1. \A a, b, c \in Nat : a * (b * c) = (a * b) * c
      OBVIOUS
    <3> QED
      BY <1>1, <2>1, <3>1
  <2>3. PICK u \in Nat : u = t + s
    OBVIOUS
  <2>4. u * bytesPerSector = t * bytesPerSector + s * bytesPerSector
    BY <1>1, <2>3, Multiples
  <2>5. t * bytesPerSector \in Nat /\ s * bytesPerSector \in Nat
    BY <1>1
  <2>6. n = u * bytesPerSector + y
    BY <1>1, <1>3, <2>2, <2>4, <2>5
  <2>7. (u * bytesPerSector + y) % bytesPerSector = y
    BY <1>1, Quotient
  <2> QED
    BY <2>6, <2>7
<1> QED
  BY <1>2, <1>3, <1>4, <1>5

(* The positions a call may begin with stand for its first byte. *)
LEMMA PositionsStand ==
  ASSUME geometry \in Geometries, chain \in Chains, base \in Nat,
         base <= Len(chain) * bytesPerCluster, position \in Positions
  PROVE  position \in PositionType /\ Stands(chain, position, base)
<1> DEFINE q == base \div bytesPerCluster
           o == base % bytesPerCluster
<1>1. /\ bytesPerSector \in Nat \ {0} /\ sectorsPerCluster \in Nat \ {0} /\ bytesPerCluster \in Nat \ {0}
      /\ Len(chain) \in Nat \ {0} /\ DOMAIN chain = 1 .. Len(chain)
  BY GeometryIs, ChainIs
<1>2. q \in Nat /\ o \in 0 .. bytesPerCluster - 1 /\ base = q * bytesPerCluster + o
  BY <1>1, DivMod
<1>3. \/ /\ q < Len(chain)
         /\ position = [cluster |-> chain[q + 1], sector |-> o \div bytesPerSector, byte |-> o % bytesPerSector]
      \/ /\ o = 0 /\ q > 0
         /\ position = [cluster |-> chain[q], sector |-> sectorsPerCluster, byte |-> 0]
  BY DEF Positions
<1> HIDE DEF q, o
<1>4. q * bytesPerCluster \in Nat
  BY <1>1, <1>2
<1>5. CASE /\ q < Len(chain)
           /\ position = [cluster |-> chain[q + 1], sector |-> o \div bytesPerSector, byte |-> o % bytesPerSector]
  <2>1. /\ o \div bytesPerSector \in Nat /\ o \div bytesPerSector < sectorsPerCluster
        /\ o % bytesPerSector \in 0 .. bytesPerSector - 1
        /\ o = (o \div bytesPerSector) * bytesPerSector + (o % bytesPerSector)
    BY <1>2, FilePosition
  <2>2. PICK j \in DOMAIN chain : j = q + 1
    BY <1>1, <1>2, <1>5
  <2>3. chain[j] \in Clusters /\ j - 1 = q
    BY <1>2, <2>2, ChainIs
  <2>4. position.cluster = chain[j] /\ position.sector = o \div bytesPerSector /\ position.byte = o % bytesPerSector
    BY <1>5, <2>2
  <2>5. position \in PositionType
    <3>1. o \div bytesPerSector \in 0 .. sectorsPerCluster
      BY <1>1, <2>1
    <3> QED
      BY <1>5, <2>1, <2>2, <2>3, <3>1 DEF PositionType
  <2>6. base = (j - 1) * bytesPerCluster + (position.sector * bytesPerSector + position.byte)
    BY <1>2, <2>1, <2>3, <2>4
  <2>7. position.sector # sectorsPerCluster
    BY <1>1, <2>1, <2>4
  <2> QED
    BY <2>4, <2>5, <2>6, <2>7 DEF Stands
<1>6. CASE /\ o = 0 /\ q > 0
           /\ position = [cluster |-> chain[q], sector |-> sectorsPerCluster, byte |-> 0]
  <2>1. q <= Len(chain)
    <3>1. CASE q > Len(chain)
      <4>1. Len(chain) * bytesPerCluster + bytesPerCluster <= q * bytesPerCluster
        BY <1>1, <1>2, <3>1, Multiples
      <4>2. Len(chain) * bytesPerCluster \in Nat
        BY <1>1
      <4> QED
        BY <1>1, <1>2, <1>4, <1>6, <4>1, <4>2
    <3> QED
      BY <1>1, <1>2, <3>1
  <2>2. q \in DOMAIN chain /\ chain[q] \in Clusters
    BY <1>1, <1>2, <1>6, <2>1, ChainIs
  <2>3. position \in PositionType
    BY <1>1, <1>6, <2>2 DEF PositionType
  <2>4. sectorsPerCluster * bytesPerSector = bytesPerCluster
    BY <1>1, SectorsAre
  <2>5. (q - 1) * bytesPerCluster = q * bytesPerCluster - bytesPerCluster
    BY <1>1, <1>2, Multiples
  <2>6. base = (q - 1) * bytesPerCluster + (sectorsPerCluster * bytesPerSector + 0)
    BY <1>1, <1>2, <1>4, <1>6, <2>4, <2>5
  <2> QED
    BY <1>6, <2>2, <2>3, <2>6 DEF Stands
<1> QED
  BY <1>3, <1>5, <1>6

(* An extension begins at the end of the file. *)
LEMMA EndStands ==
  ASSUME geometry \in Geometries, chain \in Chains, filesize \in Nat,
         Len(chain) = ClustersFor(filesize),
         position = [cluster |-> chain[Len(chain)],
                     sector |-> (filesize % bytesPerCluster) \div bytesPerSector,
                     byte |-> filesize % bytesPerSector]
  PROVE  /\ position \in PositionType
         /\ \/ /\ Stands(chain, position, filesize) /\ position.sector < sectorsPerCluster
               /\ filesize = 0 \/ position.sector # 0 \/ position.byte # 0
            \/ /\ filesize > 0 /\ filesize = Len(chain) * bytesPerCluster
               /\ position = [cluster |-> chain[Len(chain)], sector |-> 0, byte |-> 0]
<1>1. /\ bytesPerSector \in Nat \ {0} /\ sectorsPerCluster \in Nat \ {0} /\ bytesPerCluster \in Nat \ {0}
      /\ Len(chain) \in Nat \ {0} /\ Len(chain) \in DOMAIN chain /\ chain[Len(chain)] \in Clusters
  BY GeometryIs, ChainIs
<1>2. PICK q \in Nat, o \in 0 .. bytesPerCluster - 1 :
        /\ filesize = q * bytesPerCluster + o
        /\ \/ q = Len(chain) - 1 /\ (o > 0 \/ filesize = 0)
           \/ q = Len(chain) /\ o = 0 /\ filesize > 0
  <2>1. CASE filesize = 0
    <3>1. Len(chain) = 1
      BY <2>1 DEF ClustersFor
    <3>2. PICK z \in Nat : z = 0
      OBVIOUS
    <3>3. filesize = z * bytesPerCluster + z /\ z = Len(chain) - 1 /\ z \in 0 .. bytesPerCluster - 1
      BY <1>1, <2>1, <3>1, <3>2
    <3> QED
      BY <2>1, <3>3
  <2>2. CASE filesize # 0
    <3> DEFINE a == filesize - 1
    <3>1. a \in Nat
      BY <2>2
    <3>2. /\ a \div bytesPerCluster \in Nat /\ a % bytesPerCluster \in 0 .. bytesPerCluster - 1
          /\ a = (a \div bytesPerCluster) * bytesPerCluster + (a % bytesPerCluster)
      BY <1>1, <3>1, DivMod
    <3>3. PICK p \in Nat, r \in 0 .. bytesPerCluster - 1 :
            p = a \div bytesPerCluster /\ a = p * bytesPerCluster + r
      BY <3>2
    <3>4. Len(chain) = p + 1
      BY <2>2, <3>3 DEF ClustersFor
    <3>5. p * bytesPerCluster \in Nat /\ (p + 1) * bytesPerCluster = p * bytesPerCluster + bytesPerCluster
      BY <1>1, Multiples
    <3>6. filesize = p * bytesPerCluster + (r + 1)
      BY <1>1, <3>3, <3>5
    <3>7. CASE r + 1 = bytesPerCluster
      <4>1. PICK w \in Nat : w = p + 1
        OBVIOUS
      <4>2. filesize = w * bytesPerCluster + 0 /\ 0 \in 0 .. bytesPerCluster - 1 /\ w = Len(chain)
        BY <1>1, <3>4, <3>5, <3>6, <3>7, <4>1
      <4> QED
        BY <2>2, <4>2
    <3>8. CASE r + 1 # bytesPerCluster
      <4>1. PICK w \in 0 .. bytesPerCluster - 1 : w = r + 1
        BY <1>1, <3>8
      <4>2. filesize = p * bytesPerCluster + w /\ p = Len(chain) - 1 /\ w > 0
        BY <1>1, <3>4, <3>6, <4>1
      <4> QED
        BY <4>2
    <3> QED
      BY <3>7, <3>8
  <2> QED
    BY <2>1, <2>2
<1>3. PICK s \in Nat, y \in 0 .. bytesPerSector - 1 :
        /\ s < sectorsPerCluster /\ o = s * bytesPerSector + y
        /\ s = (filesize % bytesPerCluster) \div bytesPerSector /\ y = filesize % bytesPerSector
  <2>1. /\ filesize % bytesPerCluster = o
        /\ filesize % bytesPerSector = o % bytesPerSector
        /\ o \div bytesPerSector \in Nat /\ o \div bytesPerSector < sectorsPerCluster
        /\ o % bytesPerSector \in 0 .. bytesPerSector - 1
        /\ o = (o \div bytesPerSector) * bytesPerSector + (o % bytesPerSector)
    BY <1>2, FilePosition
  <2> QED
    BY <2>1
<1>4. position = [cluster |-> chain[Len(chain)], sector |-> s, byte |-> y]
  BY <1>3
<1>5. position \in PositionType
  BY <1>1, <1>3, <1>4 DEF PositionType
<1>6. CASE q = Len(chain) - 1 /\ (o > 0 \/ filesize = 0)
  <2>1. filesize = (Len(chain) - 1) * bytesPerCluster + (position.sector * bytesPerSector + position.byte)
    BY <1>2, <1>3, <1>4, <1>6
  <2>2. position.sector # sectorsPerCluster /\ position.sector < sectorsPerCluster
    BY <1>1, <1>3, <1>4
  <2>3. Stands(chain, position, filesize)
    BY <1>1, <1>4, <2>1, <2>2 DEF Stands
  <2>4. filesize = 0 \/ s # 0 \/ y # 0
    <3>1. 0 * bytesPerSector = 0
      BY <1>1
    <3> QED
      BY <1>3, <1>6, <3>1
  <2> QED
    BY <1>4, <1>5, <2>2, <2>3, <2>4
<1>7. CASE q = Len(chain) /\ o = 0 /\ filesize > 0
  <2>1. s = 0 /\ y = 0
    <3>1. s >= 1 => s * bytesPerSector >= bytesPerSector
      BY <1>1, SectorsAre
    <3>2. s * bytesPerSector \in Nat
      BY <1>1
    <3> QED
      BY <1>1, <1>3, <1>7, <3>1, <3>2
  <2>2. filesize = Len(chain) * bytesPerCluster
    <3>1. Len(chain) * bytesPerCluster \in Nat
      BY <1>1
    <3> QED
      BY <1>2, <1>7, <3>1
  <2> QED
    BY <1>4, <1>5, <1>7, <2>1, <2>2
<1> QED
  BY <1>2, <1>6, <1>7

LEMMA InitIs ==
  ASSUME ReadsAtBorder = FALSE, Init
  PROVE  IInv
<1>1. /\ op \in {"read", "write", "extend"} /\ geometry \in Geometries /\ chain \in Chains
      /\ pc = "begin" /\ remain = len /\ error = "none" /\ moved = <<>> /\ erased = {}
      /\ op = "extend" => base = filesize
      /\ op = "read" => base + len <= filesize
      /\ op = "read" => position.sector < sectorsPerCluster \/ len >= bytesPerSector
      /\ Len(chain) = ClustersFor(filesize)
  BY OperationsAssumption DEF Init
<1>2. /\ bytesPerSector \in Nat \ {0} /\ sectorsPerCluster \in Nat \ {0} /\ bytesPerCluster \in Nat \ {0}
      /\ Len(chain) \in Nat \ {0}
  BY <1>1, GeometryIs, ChainIs
<1>3. len \in Nat /\ len >= 1
  BY MaxLenAssumption DEF Init
<1>4. filesize \in Nat /\ filesize <= bytesPerCluster * Len(chain)
  <2>1. bytesPerCluster * Len(chain) \in Nat
    BY <1>2
  <2>2. filesize \in 0 .. bytesPerCluster * Len(chain)
    BY DEF Init
  <2> QED
    BY <2>1, <2>2
<1>5. base \in Nat /\ base <= filesize
  <2>1. base \in 0 .. filesize
    BY DEF Init
  <2> QED
    BY <1>4, <2>1
<1>6. filesize <= Len(chain) * bytesPerCluster /\ base <= Len(chain) * bytesPerCluster
  <2>1. bytesPerCluster * Len(chain) = Len(chain) * bytesPerCluster
    BY <1>2
  <2>2. Len(chain) * bytesPerCluster \in Nat
    BY <1>2
  <2> QED
    BY <1>4, <1>5, <2>1, <2>2
<1>7. Len(moved) = 0 /\ moved \in Seq(Nat) /\ DOMAIN moved = {} /\ Here = base
  BY <1>1, <1>5 DEF Here
<1>8. CallOK
  BY <1>1, <1>3, <1>4, <1>5 DEF CallOK
<1>9. BytesInPlace
  BY <1>7 DEF BytesInPlace
<1>10. position \in PositionType /\ AtBegin
  <2>1. CASE op = "extend"
    <3>1. position = [cluster |-> chain[Len(chain)],
                      sector |-> (filesize % bytesPerCluster) \div bytesPerSector,
                      byte |-> filesize % bytesPerSector]
      BY <2>1 DEF Init
    <3>2. /\ position \in PositionType
          /\ \/ /\ Stands(chain, position, filesize) /\ position.sector < sectorsPerCluster
                /\ filesize = 0 \/ position.sector # 0 \/ position.byte # 0
             \/ /\ filesize > 0 /\ filesize = Len(chain) * bytesPerCluster
                /\ position = [cluster |-> chain[Len(chain)], sector |-> 0, byte |-> 0]
      BY <1>1, <1>4, <3>1, EndStands
    <3>3. Here = filesize
      BY <1>1, <1>7, <2>1
    <3> QED
      BY <1>1, <1>3, <2>1, <3>2, <3>3 DEF AtBegin
  <2>2. CASE op # "extend"
    <3>1. position \in Positions
      BY <2>2 DEF Init
    <3>2. position \in PositionType /\ Stands(chain, position, base)
      BY <1>1, <1>5, <1>6, <3>1, PositionsStand
    <3>3. Stands(chain, position, Here)
      BY <1>7, <3>2
    <3> QED
      BY <1>1, <1>3, <2>2, <3>2, <3>3 DEF AtBegin
  <2> QED
    BY <2>1, <2>2
<1>11. LocalsOK
  BY <1>1, <1>3, <1>6, <1>7, <1>10 DEF LocalsOK, Labels
<1>12. Phases
  BY <1>1, <1>10 DEF Phases
<1>13. Groups
  BY <1>1 DEF Groups, InGroup
<1>14. Thrifty
  <2>1. CASE filesize = 0
    <3>1. Len(chain) = 1
      BY <1>1, <2>1 DEF ClustersFor
    <3> QED
      BY <3>1 DEF Thrifty
  <2>2. CASE filesize # 0
    <3> DEFINE a == filesize - 1
    <3>1. a \in Nat
      BY <1>4, <2>2
    <3>2. /\ a \div bytesPerCluster \in Nat /\ a % bytesPerCluster \in 0 .. bytesPerCluster - 1
          /\ a = (a \div bytesPerCluster) * bytesPerCluster + (a % bytesPerCluster)
      BY <1>2, <3>1, DivMod
    <3>3. PICK p \in Nat, r \in 0 .. bytesPerCluster - 1 :
            p = a \div bytesPerCluster /\ a = p * bytesPerCluster + r
      BY <3>2
    <3>4. Len(chain) = p + 1
      BY <1>1, <2>2, <3>3 DEF ClustersFor
    <3>5. p * bytesPerCluster \in Nat /\ Len(chain) - 1 = p
      BY <1>2, <3>4
    <3>6. (Len(chain) - 1) * bytesPerCluster < filesize
      BY <1>2, <1>4, <3>1, <3>3, <3>5
    <3> QED
      BY <3>6 DEF Thrifty
  <2> QED
    BY <2>1, <2>2
<1> QED
  BY <1>8, <1>9, <1>11, <1>12, <1>13, <1>14 DEF IInv

LEMMA StepIs ==
  ASSUME IInv, Next
  PROVE  IInv'
BY ReadBeginStep, WriteBeginStep, ExtendBeginStep, AlignToSectorStep, AlignToClusterStep,
   AdvanceStep, ReadClustersStep, WriteClustersStep, GroupStep, WriteChunkStep, ClustersDoneStep,
   RestStep, LastStep, ExtendHeadStep, ExtendSectorStep, ExtendCheckStep, ExtendTailStep
   DEF Next, Step

LEMMA StutterIs ==
  ASSUME IInv, UNCHANGED vars
  PROVE  IInv'
<1>1. /\ UNCHANGED fixed /\ UNCHANGED <<chain, pc, position, remain, group, error, moved, erased>>
  BY DEF vars
<1>2. CallOK /\ LocalsOK /\ BytesInPlace /\ Phases /\ Groups /\ Thrifty
  BY DEF IInv
<1>3. CallOK' /\ LocalsOK' /\ BytesInPlace'
  BY <1>1, <1>2, FixedIs DEF CallOK, LocalsOK, BytesInPlace, PositionType, Free, PlaceOf, Place
<1>4. Phases'
  BY <1>1, <1>2, FixedIs DEF Phases, AtBegin, AtHead, AtAdvance, AtClusters, AtRest, AtTail, AtEnd,
     Ready, Stands, Here
<1>5. Groups' /\ Thrifty'
  BY <1>1, <1>2, FixedIs DEF Groups, GroupIs, Consecutive, InGroup, Thrifty, InHand, Here
<1> QED
  BY <1>3, <1>4, <1>5 DEF IInv

(* Where the next byte is, if the position stands for it. *)
LEMMA StandingIs ==
  ASSUME CallOK, LocalsOK, Stands(chain, position, Here)
  PROVE  \E i \in DOMAIN chain :
           /\ position.cluster = chain[i]
           /\ Here <= i * bytesPerCluster
           /\ \/ /\ position.sector < sectorsPerCluster
                 /\ Here \div bytesPerCluster = i - 1
                 /\ Place(position.cluster, position.sector, position.byte) = PlaceOf(Here)
              \/ /\ Here = i * bytesPerCluster
                 /\ position = [cluster |-> chain[i], sector |-> sectorsPerCluster, byte |-> 0]
<1>1. PICK i \in DOMAIN chain :
        /\ position.cluster = chain[i]
        /\ Here = (i - 1) * bytesPerCluster + (position.sector * bytesPerSector + position.byte)
        /\ position.sector = sectorsPerCluster => position.byte = 0
  BY DEF Stands
<1>2. /\ geometry \in Geometries /\ bytesPerSector \in Nat \ {0} /\ sectorsPerCluster \in Nat \ {0}
      /\ bytesPerCluster \in Nat \ {0} /\ chain \in Chains
      /\ position.sector \in Nat /\ position.sector <= sectorsPerCluster
      /\ position.byte \in Nat /\ position.byte < bytesPerSector
      /\ position = [cluster |-> position.cluster, sector |-> position.sector,
                     byte |-> position.byte]
  BY PositionIs DEF CallOK, LocalsOK
<1>3. i \in Nat /\ i >= 1 /\ i <= Len(chain) /\ chain[i] \in Nat
  BY <1>2, ChainIs
<1>4. (i - 1) * bytesPerCluster = i * bytesPerCluster - bytesPerCluster
  BY <1>2, <1>3, Multiples
<1>5. i * bytesPerCluster \in Nat
  BY <1>2, <1>3
<1>6. CASE position.sector < sectorsPerCluster
  <2>1. /\ position.sector * bytesPerSector \in Nat
        /\ position.sector * bytesPerSector + bytesPerSector <= bytesPerCluster
    BY <1>2, <1>6, SectorsAre
  <2>2. PICK o \in 0 .. bytesPerCluster - 1 : o = position.sector * bytesPerSector + position.byte
    BY <1>2, <2>1
  <2>3. PICK n \in Nat : n = (i - 1) * bytesPerCluster + o
    BY <1>2, <1>3, PlaceInIs
  <2>4. /\ n \div bytesPerCluster = i - 1
        /\ Place(chain[n \div bytesPerCluster + 1], 0, n % bytesPerCluster)
             = chain[i] * bytesPerCluster + o
    BY <1>2, <2>3, PlaceInIs
  <2>5. n = Here
    BY <1>1, <2>2, <2>3
  <2>6. Place(position.cluster, position.sector, position.byte) = chain[i] * bytesPerCluster + o
    <3>1. Place(chain[i], position.sector, position.byte)
            = chain[i] * bytesPerCluster + (position.sector * bytesPerSector + position.byte)
      BY <1>2, <1>3, PlaceIs
    <3> QED
      BY <1>1, <2>2, <3>1
  <2>7. PlaceOf(Here) = chain[i] * bytesPerCluster + o
    BY <2>4, <2>5 DEF PlaceOf
  <2>8. Here <= i * bytesPerCluster
    BY <1>2, <1>4, <1>5, <2>2, <2>3, <2>5
  <2> QED
    BY <1>1, <1>6, <2>4, <2>5, <2>6, <2>7, <2>8
<1>7. CASE position.sector = sectorsPerCluster
  <2>1. position.sector * bytesPerSector = bytesPerCluster /\ position.byte = 0
    BY <1>1, <1>2, <1>7, SectorsAre
  <2>2. Here = i * bytesPerCluster
    BY <1>1, <1>2, <1>4, <1>5, <2>1
  <2>3. position = [cluster |-> chain[i], sector |-> sectorsPerCluster, byte |-> 0]
    BY <1>1, <1>2, <1>7, <2>1
  <2>4. Here <= i * bytesPerCluster
    BY <1>5, <2>2
  <2> QED
    BY <1>1, <2>2, <2>3, <2>4
<1> QED
  BY <1>2, <1>6, <1>7

-----------------------------------------------------------------------------
(* Theorems. *)

(* The bytes moved are in their places, and in each phase of a call the    *)
(* position stands for the next one; the clusters of a group are           *)
(* consecutive; the end of the chain is in use or about to be.             *)
THEOREM TransferInvariance ==
  ASSUME ReadsAtBorder = FALSE
  PROVE  Spec => []IInv
<1>1. Init => IInv
  BY InitIs
<1>2. IInv /\ [Next]_vars => IInv'
  BY StepIs, StutterIs
<1> QED
  BY <1>1, <1>2, PTL DEF Spec

(* The locals of a call are of their kinds: a position is in a cluster of  *)
(* the volume, in one of its sectors or at the flag, and the chain is a    *)
(* row of different clusters, through all that a call links to it.         *)
THEOREM TransferTypes ==
  ASSUME ReadsAtBorder = FALSE
  PROVE  Spec => []TypeOK
<1>1. IInv => TypeOK
  <2> SUFFICES ASSUME IInv PROVE TypeOK
    OBVIOUS
  <2>1. CallOK /\ LocalsOK
    BY DEF IInv
  <2>2. /\ position.cluster \in Clusters /\ position.sector \in 0 .. sectorsPerCluster
        /\ position.byte \in 0 .. bytesPerSector - 1
    BY <2>1 DEF LocalsOK, PositionType
  <2>3. remain \in 0 .. len
    BY <2>1, HereIs DEF CallOK, LocalsOK
  <2> QED
    BY <2>1, <2>2, <2>3 DEF LocalsOK, TypeOK, Labels
<1> QED
  BY <1>1, TransferInvariance, PTL

(* Each byte that is moved is moved from or to the byte of the file that   *)
(* it stands for, whatever the geometry, the phases of the call, the       *)
(* places of the clusters and the bytes lost before it.                    *)
THEOREM EveryByteInPlace ==
  ASSUME ReadsAtBorder = FALSE
  PROVE  Spec => []BytesInPlace
<1>1. IInv => BytesInPlace
  BY DEF IInv
<1> QED
  BY <1>1, TransferInvariance, PTL

(* The position that a call leaves stands for the byte after the last one  *)
(* counted, also when the call was cut short.                              *)
THEOREM PositionKeepsUp ==
  ASSUME ReadsAtBorder = FALSE
  PROVE  Spec => []PositionFollows
<1>1. IInv => PositionFollows
  <2> SUFFICES ASSUME IInv, pc = "done", ~ (op = "extend" /\ error # "none")
               PROVE  \/ /\ Here \div bytesPerCluster < Len(chain)
                         /\ position.sector < sectorsPerCluster
                         /\ Place(position.cluster, position.sector, position.byte) = PlaceOf(Here)
                      \/ /\ Here > 0 /\ Here % bytesPerCluster = 0
                         /\ position = [cluster |-> chain[Here \div bytesPerCluster],
                                        sector |-> sectorsPerCluster, byte |-> 0]
    BY DEF PositionFollows, Here
  <2>1. /\ CallOK /\ LocalsOK /\ Stands(chain, position, Here)
    BY DEF IInv, Phases, AtEnd
  <2>2. PICK i \in DOMAIN chain :
          \/ /\ position.sector < sectorsPerCluster
             /\ Here \div bytesPerCluster = i - 1
             /\ Place(position.cluster, position.sector, position.byte) = PlaceOf(Here)
          \/ /\ Here = i * bytesPerCluster
             /\ position = [cluster |-> chain[i], sector |-> sectorsPerCluster, byte |-> 0]
    BY <2>1, StandingIs
  <2>3. /\ i \in Nat /\ i >= 1 /\ i <= Len(chain) /\ Len(chain) \in Nat /\ bytesPerCluster \in Nat \ {0}
    BY <2>1, ChainIs, GeometryIs DEF CallOK, LocalsOK
  <2>4. CASE Here = i * bytesPerCluster
             /\ position = [cluster |-> chain[i], sector |-> sectorsPerCluster, byte |-> 0]
    <3>1. PICK z \in 0 .. bytesPerCluster - 1 : z = 0
      BY <2>3
    <3>2. (i * bytesPerCluster + z) \div bytesPerCluster = i /\ (i * bytesPerCluster + z) % bytesPerCluster = z
      BY <2>3, Quotient
    <3>3. i * bytesPerCluster \in Nat /\ i * bytesPerCluster > 0
      BY <2>3
    <3>4. Here = i * bytesPerCluster + z
      BY <2>4, <3>1, <3>3
    <3> QED
      BY <2>4, <3>1, <3>2, <3>3, <3>4
  <2> QED
    BY <2>2, <2>3, <2>4
<1> QED
  BY <1>1, TransferInvariance, PTL

(* The bytes that a call has lost: it has none at its head, and later only *)
(* such as it does not take with their sectors.                            *)
LostOK ==
  /\ pc \in {"begin", "head"} => moved = <<>>
  /\ \A k \in DOMAIN moved :
       moved[k] = Nowhere => IoFaults /\ (op = "extend" \/ ~ WholeSector(base + k - 1))

(* The n bytes that a step moves or loses. *)
NextBytes(n) ==
  /\ n \in Nat
  /\ \E run \in Seq(Nat) :
       /\ moved' = moved \o run /\ Len(run) = n
       /\ \A t \in 1 .. n : run[t] = Nowhere => IoFaults
       /\ \/ \A t \in 1 .. n : run[t] # Nowhere
          \/ op = "extend"
          \/ \A t \in 1 .. n : ~ WholeSector(base + (Len(moved) + t) - 1)

LEMMA LostKept ==
  ASSUME IInv, LostOK, UNCHANGED fixed, pc' \notin {"begin", "head"},
         NEW n, NextBytes(n)
  PROVE  LostOK'
<1>1. moved \in Seq(Nat) /\ Len(moved) \in Nat /\ DOMAIN moved = 1 .. Len(moved) /\ n \in Nat
  BY DEF IInv, LocalsOK, NextBytes
<1>2. PICK run \in Seq(Nat) :
        /\ moved' = moved \o run /\ Len(run) = n
        /\ \A t \in 1 .. n : run[t] = Nowhere => IoFaults
        /\ \/ \A t \in 1 .. n : run[t] # Nowhere
           \/ op = "extend"
           \/ \A t \in 1 .. n : ~ WholeSector(base + (Len(moved) + t) - 1)
  BY DEF NextBytes
<1>3. /\ DOMAIN moved' = 1 .. Len(moved) + n
      /\ \A k \in 1 .. Len(moved) + n :
           moved'[k] = IF k <= Len(moved) THEN moved[k] ELSE run[k - Len(moved)]
  <2>1. /\ moved' \in Seq(Nat) /\ Len(moved') = Len(moved) + n
        /\ \A k \in 1 .. Len(moved) + n :
             moved'[k] = IF k <= Len(moved) THEN moved[k] ELSE run[k - Len(moved)]
    <3>1. moved \in Seq(Nat) /\ run \in Seq(Nat) /\ moved' = moved \o run /\ Len(run) = n
      BY <1>1, <1>2
    <3> QED
      BY <3>1, ConcatProperties
  <2>2. DOMAIN moved' = 1 .. Len(moved')
    BY <2>1
  <2> QED
    BY <2>1, <2>2
<1>4. ASSUME NEW k \in DOMAIN moved', moved'[k] = Nowhere
      PROVE  IoFaults /\ (op = "extend" \/ ~ WholeSector(base + k - 1))
  <2>1. CASE k <= Len(moved)
    <3>1. k \in DOMAIN moved /\ moved[k] = Nowhere
      BY <1>1, <1>3, <1>4, <2>1
    <3> QED
      BY <3>1 DEF LostOK
  <2>2. CASE k > Len(moved)
    <3>1. PICK t \in 1 .. n : k = Len(moved) + t
      <4> DEFINE u == k - Len(moved)
      <4>1. u \in 1 .. n /\ k = Len(moved) + u
        BY <1>1, <1>3, <1>4, <2>2
      <4> QED
        BY <4>1
    <3>2. run[t] = Nowhere
      BY <1>1, <1>3, <1>4, <2>2, <3>1
    <3> QED
      BY <1>2, <3>1, <3>2
  <2> QED
    BY <1>1, <1>3, <1>4, <2>1, <2>2
<1>5. \A k : WholeSector(base + k - 1)' = WholeSector(base + k - 1)
  BY FixedIs DEF WholeSector
<1> QED
  BY <1>4, <1>5, FixedIs DEF LostOK

(* What is moved from a cluster or to one is not nowhere. *)
LEMMA MovedSomewhere ==
  ASSUME IInv, NEW p, p.cluster \in Clusters, p.sector \in Nat, p.byte \in Nat,
         NEW n \in Nat, Move(p, n)
  PROVE  NextBytes(n)
<1>1. /\ geometry \in Geometries /\ bytesPerSector \in Nat \ {0} /\ bytesPerCluster \in Nat \ {0}
      /\ p.cluster \in Nat /\ p.cluster >= 2
  <2>1. p.cluster \in Nat /\ p.cluster >= 2
    BY LastClusterAssumption DEF Clusters, CLUSTER_FIRST
  <2> QED
    BY <2>1, GeometryIs DEF IInv, CallOK
<1>2. PICK first \in Nat : first = Place(p.cluster, p.sector, p.byte) /\ first > 0
  <2>1. PICK c \in Nat, s \in Nat, y \in Nat : c = p.cluster /\ s = p.sector /\ y = p.byte
    BY <1>1
  <2>2. Place(c, s, y) = c * bytesPerCluster + (s * bytesPerSector + y)
    BY <1>1, PlaceIs
  <2>3. c * bytesPerCluster \in Nat /\ c * bytesPerCluster > 0 /\ s * bytesPerSector \in Nat
    BY <1>1, <2>1
  <2> QED
    BY <2>1, <2>2, <2>3
<1>3. /\ Run(first, n) \in [1 .. n -> Nat]
      /\ \A t \in 1 .. n : Run(first, n)[t] # Nowhere
  BY <1>2 DEF Run, Nowhere
<1>4. Run(first, n) \in Seq(Nat) /\ Len(Run(first, n)) = n
  BY <1>3
<1>5. moved' = moved \o Run(first, n)
  BY <1>2 DEF Move
<1> QED
  BY <1>3, <1>4, <1>5 DEF NextBytes

LEMMA Lost ==
  ASSUME IInv, NEW n \in Nat, Lose(n),
         op = "extend" \/ \A t \in 1 .. n : ~ WholeSector(base + (Len(moved) + t) - 1)
  PROVE  NextBytes(n)
<1> DEFINE lost == [t \in 1 .. n |-> Nowhere]
<1>1. lost \in [1 .. n -> Nat] /\ \A t \in 1 .. n : lost[t] = Nowhere
  BY DEF Nowhere
<1>2. moved' = moved \o lost /\ IoFaults
  BY DEF Lose
<1> HIDE DEF lost
<1>3. lost \in Seq(Nat) /\ Len(lost) = n
  BY <1>1
<1> QED
  BY <1>2, <1>3 DEF NextBytes

(* A part of a sector that ends with the call, or that begins with it and  *)
(* not with the sector, is not of a sector that the call takes whole.      *)
LEMMA PartIsNotWhole ==
  ASSUME IInv, Stands(chain, position, Here), NEW n \in Nat, n <= remain,
         position.byte + n <= bytesPerSector,
         \/ position.byte > 0 /\ moved = <<>>
         \/ position.byte = 0 /\ n = remain /\ n < bytesPerSector,
         NEW t \in 1 .. n
  PROVE  ~ WholeSector(base + (Len(moved) + t) - 1)
<1>1. /\ CallOK /\ LocalsOK /\ geometry \in Geometries /\ chain \in Chains
      /\ bytesPerSector \in Nat \ {0} /\ sectorsPerCluster \in Nat \ {0}
      /\ bytesPerCluster \in Nat \ {0}
      /\ position.sector \in Nat /\ position.byte \in Nat
      /\ Len(moved) \in Nat /\ Here \in Nat /\ Here + remain = base + len
      /\ Here = base + Len(moved) /\ base \in Nat /\ len \in Nat /\ remain \in Nat
  BY GeometryIs, PositionIs, HereIs DEF IInv, CallOK, LocalsOK, Here
<1>2. PICK s \in Nat : Here = s * bytesPerSector + position.byte
  <2>1. PICK i \in DOMAIN chain :
          Here = (i - 1) * bytesPerCluster + (position.sector * bytesPerSector + position.byte)
    BY DEF Stands
  <2>2. PICK j \in Nat : j = i - 1
    BY <1>1, ChainIs
  <2>3. PICK s \in Nat : s = j * sectorsPerCluster + position.sector
    BY <1>1
  <2>4. j * bytesPerCluster = (j * sectorsPerCluster) * bytesPerSector
    BY <1>1 DEF bytesPerCluster
  <2>5. PICK a \in Nat : a = j * sectorsPerCluster
    BY <1>1
  <2>6. (a + position.sector) * bytesPerSector = a * bytesPerSector + position.sector * bytesPerSector
    BY <1>1, Multiples
  <2>7. /\ a * bytesPerSector \in Nat /\ position.sector * bytesPerSector \in Nat
    BY <1>1
  <2>8. s * bytesPerSector = j * bytesPerCluster + position.sector * bytesPerSector
    BY <2>3, <2>4, <2>5, <2>6
  <2>9. PICK x \in Nat, y \in Nat, z \in Nat :
          /\ x = j * bytesPerCluster /\ y = position.sector * bytesPerSector /\ z = position.byte
    BY <1>1, <2>4, <2>5, <2>7
  <2>10. Here = x + (y + z) /\ s * bytesPerSector = x + y
    BY <2>1, <2>2, <2>8, <2>9
  <2>11. Here = s * bytesPerSector + position.byte
    BY <2>9, <2>10
  <2> QED
    BY <2>3, <2>11
<1>3. PICK start \in Nat : start = s * bytesPerSector
  BY <1>1
<1>4. PICK o \in 0 .. bytesPerSector - 1 : o = position.byte + (t - 1)
  BY <1>1
<1>10. PICK b \in Nat, m \in Nat, y \in Nat : b = base /\ m = Len(moved) /\ y = position.byte
  BY <1>1
<1>11. b + m = start + y /\ o = y + (t - 1) /\ t \in Nat /\ t >= 1
  BY <1>1, <1>2, <1>3, <1>4, <1>10
<1>12. b + (m + t) - 1 = start + o
  BY <1>11
<1>5. PICK f \in Nat : f = base + (Len(moved) + t) - 1
  BY <1>10, <1>12
<1>6. f = s * bytesPerSector + o
  BY <1>3, <1>5, <1>10, <1>12
<1>7. f % bytesPerSector = o
  BY <1>1, <1>6, Quotient
<1>8. f - (f % bytesPerSector) = start
  BY <1>1, <1>3, <1>4, <1>6, <1>7
<1>9. ~ (base <= start /\ start + bytesPerSector <= base + len)
  <2>1. CASE position.byte > 0 /\ moved = <<>>
    <3>1. Len(moved) = 0
      BY <2>1
    <3> QED
      BY <1>1, <1>2, <1>3, <2>1, <3>1
  <2>2. CASE position.byte = 0 /\ n = remain /\ n < bytesPerSector
    BY <1>1, <1>2, <1>3, <2>2
  <2> QED
    BY <2>1, <2>2
<1> QED
  BY <1>5, <1>8, <1>9 DEF WholeSector

LEMMA NothingLost ==
  ASSUME IInv, moved' = moved
  PROVE  NextBytes(0)
<1>1. moved \in Seq(Nat) /\ Len(moved) \in Nat
  BY DEF IInv, LocalsOK
<1>2. << >> \in Seq(Nat) /\ Len(<< >>) = 0 /\ moved \o << >> = moved
  BY <1>1
<1>3. \A t \in 1 .. 0 : FALSE
  OBVIOUS
<1>4. /\ moved' = moved \o << >>
      /\ \A t \in 1 .. 0 : (<< >>)[t] # Nowhere /\ ((<< >>)[t] = Nowhere => IoFaults)
  BY <1>2, <1>3
<1> QED
  BY <1>2, <1>4 DEF NextBytes

LEMMA LossStutter ==
  ASSUME IInv, LostOK, UNCHANGED vars
  PROVE  LostOK'
BY FixedIs DEF vars, LostOK, WholeSector

LEMMA LossStep ==
  ASSUME IInv, LostOK, Next
  PROVE  LostOK'
<1>1. /\ CallOK /\ LocalsOK /\ Phases /\ Groups /\ UNCHANGED fixed /\ remain \in Nat
      /\ geometry \in Geometries /\ bytesPerSector \in Nat \ {0} /\ sectorsPerCluster \in Nat \ {0}
      /\ bytesPerCluster \in Nat \ {0}
      /\ position.sector \in Nat /\ position.byte \in Nat /\ position.cluster \in Clusters
      /\ position = [cluster |-> position.cluster, sector |-> position.sector, byte |-> position.byte]
      /\ position.byte < bytesPerSector
  BY GeometryIs, PositionIs DEF IInv, CallOK, LocalsOK, Next
<1>2. CASE ReadBegin \/ WriteBegin \/ ExtendBegin
  <2>1. moved = <<>> /\ moved' = moved
    BY <1>2 DEF ReadBegin, WriteBegin, ExtendBegin, CheckPosition, LostOK
  <2> QED
    BY <2>1 DEF LostOK
<1>3. CASE AlignToSector
  <2>1. /\ pc = "head" /\ pc' = "sectors" /\ moved = <<>> /\ Stands(chain, position, Here)
    BY <1>1, <1>3 DEF AlignToSector, Goto, LostOK, Phases
  <2>2. PICK part \in Nat :
          /\ part = IF bytesPerSector - position.byte > remain THEN remain ELSE bytesPerSector - position.byte
          /\ \/ moved' = moved
             \/ part < bytesPerSector /\ MoveUnchecked(position, part)
    <3> DEFINE part == IF bytesPerSector - position.byte > remain THEN remain ELSE bytesPerSector - position.byte
    <3>1. part \in Nat
      BY <1>1
    <3>2. \/ moved' = moved
          \/ part < bytesPerSector /\ MoveUnchecked(position, part)
      BY <1>3 DEF AlignToSector, Skip
    <3> QED
      BY <3>1, <3>2
  <2>3. CASE moved' = moved
    BY <1>1, <2>1, <2>3, NothingLost, LostKept
  <2>4. CASE part < bytesPerSector /\ MoveUnchecked(position, part)
    <3>1. /\ part <= remain /\ position.byte + part <= bytesPerSector
          /\ position.byte > 0 \/ (position.byte = 0 /\ part = remain)
      BY <1>1, <2>2, <2>4
    <3>2. \A t \in 1 .. part : ~ WholeSector(base + (Len(moved) + t) - 1)
      BY <2>1, <2>4, <3>1, PartIsNotWhole
    <3>3. NextBytes(part)
      BY <1>1, <2>4, <3>2, MovedSomewhere, Lost DEF MoveUnchecked
    <3> QED
      BY <1>1, <2>1, <3>3, LostKept
  <2> QED
    BY <2>2, <2>3, <2>4
<1>4. CASE AlignToCluster \/ ReadClusters \/ Rest \/ WriteChunk
  <2>1. pc' \notin {"begin", "head"}
    BY <1>4 DEF AlignToCluster, ReadClusters, Rest, WriteChunk, Goto
  <2>2. \/ moved' = moved
        \/ \E n \in Nat : \E p : p.cluster \in Clusters /\ p.sector \in Nat /\ p.byte \in Nat /\ Move(p, n)
    <3> DEFINE p == [position EXCEPT !.sector = 0, !.byte = 0]
    <3>1. p.cluster \in Clusters /\ p.sector \in Nat /\ p.byte \in Nat
      BY <1>1
    <3> HIDE DEF p
    <3>2. CASE AlignToCluster
      <4>1. PICK n \in Nat : n = RestOfCluster
        BY <1>1, RestOfClusterIs DEF LocalsOK
      <4>2. moved' = moved \/ Move(position, n * bytesPerSector)
        BY <3>2, <4>1 DEF AlignToCluster, Fail, Skip
      <4>3. n * bytesPerSector \in Nat
        BY <1>1, <4>1
      <4> QED
        BY <1>1, <4>2, <4>3
    <3>3. CASE ReadClusters
      <4>1. PICK i \in DOMAIN chain : position.cluster = chain[i]
        BY <1>1, <3>3 DEF ReadClusters, Phases, Stands
      <4>2. PICK n : n \in Nat /\ n = ChunkOfRead(CHOOSE k \in DOMAIN chain : chain[k] = position.cluster)
        <5>1. (CHOOSE k \in DOMAIN chain : chain[k] = position.cluster) = i
          BY <1>1, <4>1, ChainIs DEF LocalsOK
        <5>2. ChunkOfRead(i) \in Nat
          <6>1. remain >= bytesPerCluster
            BY <3>3 DEF ReadClusters
          <6> QED
            BY <1>1, <6>1, ChunkOfReadIs DEF LocalsOK
        <5> QED
          BY <5>1, <5>2
      <4>3. moved' = moved \/ Move(p, n * bytesPerCluster)
        BY <3>3, <4>2 DEF ReadClusters, Fail, p
      <4>4. n * bytesPerCluster \in Nat
        BY <1>1, <4>2
      <4> QED
        BY <3>1, <4>3, <4>4
    <3>4. CASE Rest
      <4>1. PICK n \in Nat : n = (remain \div bytesPerSector) * bytesPerSector
        <5>1. remain \div bytesPerSector \in Nat
          BY <1>1, DivMod
        <5> QED
          BY <1>1, <5>1
      <4>2. moved' = moved \/ Move(p, n)
        BY <3>4, <4>1 DEF Rest, Fail, Skip, p
      <4> QED
        BY <3>1, <4>2
    <3>5. CASE WriteChunk
      <4>1. group.chunkSize \in Nat
        <5>1. PICK i \in DOMAIN chain, m \in 1 .. Len(chain) : GroupIs(i, m)
          BY <1>1, <3>5 DEF WriteChunk, Groups, InGroup
        <5>2. group.chunkSize = m * bytesPerCluster /\ m \in Nat
          BY <5>1 DEF GroupIs
        <5> QED
          BY <1>1, <5>2
      <4>2. moved' = moved \/ Move(p, group.chunkSize)
        BY <3>5 DEF WriteChunk, Fail, p
      <4> QED
        BY <3>1, <4>1, <4>2
    <3> QED
      BY <1>4, <3>2, <3>3, <3>4, <3>5
  <2>3. CASE moved' = moved
    BY <1>1, <2>1, <2>3, NothingLost, LostKept
  <2>4. CASE \E n \in Nat : \E p : p.cluster \in Clusters /\ p.sector \in Nat /\ p.byte \in Nat /\ Move(p, n)
    <3>1. PICK n \in Nat : \E p : p.cluster \in Clusters /\ p.sector \in Nat /\ p.byte \in Nat /\ Move(p, n)
      BY <2>4
    <3>2. NextBytes(n)
      BY <3>1, MovedSomewhere
    <3> QED
      BY <1>1, <2>1, <3>2, LostKept
  <2> QED
    BY <2>2, <2>3, <2>4
<1>5. CASE Last
  <2>1. /\ pc = "last" /\ pc' = "done" /\ Stands(chain, position, Here)
        /\ error = "none" => Ready /\ AtRest
    BY <1>1, <1>5 DEF Last, Goto, Phases
  <2>2. CASE moved' = moved
    BY <1>1, <2>1, <2>2, NothingLost, LostKept
  <2>3. CASE remain > 0 /\ error = "none"
    <3> DEFINE p == [position EXCEPT !.byte = 0]
    <3>1. position.byte = 0 /\ remain < bytesPerSector
      BY <1>1, <2>1, <2>3 DEF Ready, AtRest
    <3>2. p.cluster \in Clusters /\ p.sector \in Nat /\ p.byte \in Nat
      BY <1>1
    <3>3. Move(p, remain) \/ Lose(remain)
      BY <1>5, <2>3 DEF Last
    <3> HIDE DEF p
    <3>4. \A t \in 1 .. remain : ~ WholeSector(base + (Len(moved) + t) - 1)
      BY <1>1, <2>1, <3>1, PartIsNotWhole
    <3>5. NextBytes(remain)
      BY <1>1, <3>2, <3>3, <3>4, MovedSomewhere, Lost
    <3> QED
      BY <1>1, <2>1, <3>5, LostKept
  <2> QED
    BY <1>5, <2>2, <2>3 DEF Last, Skip
<1>6. CASE ExtendHead \/ ExtendSector \/ ExtendTail
  <2>1. op = "extend" /\ pc' \notin {"begin", "head"}
    BY <1>1, <1>6 DEF ExtendHead, ExtendSector, ExtendTail, Goto, Phases
  <2>2. \/ moved' = moved
        \/ \E n \in Nat, p \in PositionType : MoveUnchecked(p, n)
    <3>1. CASE ExtendHead
      <4>1. PICK part \in Nat :
              part = IF remain + position.byte < bytesPerSector THEN remain ELSE bytesPerSector - position.byte
        <5> DEFINE part == IF remain + position.byte < bytesPerSector THEN remain ELSE bytesPerSector - position.byte
        <5>1. part \in Nat
          BY <1>1
        <5> QED
          BY <5>1
      <4>2. moved' = moved \/ MoveUnchecked(position, part)
        BY <3>1, <4>1 DEF ExtendHead
      <4>3. position \in PositionType
        BY <1>1 DEF LocalsOK
      <4> QED
        BY <4>2, <4>3
    <3>2. CASE ExtendTail
      <4>1. [position EXCEPT !.byte = 0] = [cluster |-> position.cluster, sector |-> position.sector, byte |-> 0]
        BY <1>1
      <4>2. [position EXCEPT !.byte = 0] \in PositionType
        BY <1>1, <4>1 DEF PositionType, LocalsOK
      <4>3. moved' = moved \/ MoveUnchecked([position EXCEPT !.byte = 0], remain)
        BY <3>2 DEF ExtendTail
      <4> QED
        BY <1>1, <4>2, <4>3
    <3>3. CASE ExtendSector
      <4>1. /\ error = "none" /\ position.byte = 0 /\ Stands(chain, position, Here)
        BY <1>1, <3>3 DEF ExtendSector, Phases
      <4>2. PICK n \in NextClusterFor(position) :
              /\ chain' = n.links
              /\ \/ moved' = moved
                 \/ MoveUnchecked([cluster |-> n.cluster, sector |-> n.sector, byte |-> 0], bytesPerSector)
        BY <3>3 DEF ExtendSector
      <4>3. PICK q \in PositionType : q = [cluster |-> n.cluster, sector |-> n.sector, byte |-> 0]
        <5>1. PICK q \in PositionType : q = [position EXCEPT !.cluster = n.cluster, !.sector = n.sector]
          BY <1>1, <4>1, <4>2, ContinuedHere
        <5>2. q = [cluster |-> n.cluster, sector |-> n.sector, byte |-> 0]
          BY <1>1, <4>1, <5>1
        <5> QED
          BY <5>2
      <4> QED
        BY <1>1, <4>2, <4>3
    <3> QED
      BY <1>6, <3>1, <3>2, <3>3
  <2>3. CASE moved' = moved
    BY <1>1, <2>1, <2>3, NothingLost, LostKept
  <2>4. CASE \E n \in Nat, p \in PositionType : MoveUnchecked(p, n)
    <3>1. PICK n \in Nat, p \in PositionType : MoveUnchecked(p, n)
      BY <2>4
    <3>2. p.cluster \in Clusters /\ p.sector \in Nat /\ p.byte \in Nat
      BY <1>1 DEF PositionType
    <3>3. NextBytes(n)
      BY <2>1, <3>1, <3>2, MovedSomewhere, Lost DEF MoveUnchecked
    <3> QED
      BY <1>1, <2>1, <3>3, LostKept
  <2> QED
    BY <2>2, <2>3, <2>4
<1>7. CASE Advance \/ WriteClusters \/ Group \/ ClustersDone \/ ExtendCheck
  <2>1. moved' = moved /\ pc' \notin {"begin", "head"}
    BY <1>7 DEF Advance, WriteClusters, Group, ClustersDone, ExtendCheck, CheckPosition, Goto
  <2> QED
    BY <1>1, <2>1, NothingLost, LostKept
<1> QED
  BY <1>2, <1>3, <1>4, <1>5, <1>6, <1>7 DEF Next, Step

(* A call that counts less than it was asked for has set an error, a full  *)
(* disc is reported only when full, and a read or a write that counts a    *)
(* byte which it did not move takes the sector of it only in part.         *)
THEOREM CountedIsMoved ==
  ASSUME ReadsAtBorder = FALSE
  PROVE  Spec => []CountedBytesMoved
<1>1. Init => LostOK
  BY DEF Init, LostOK
<1>2. IInv /\ LostOK /\ [Next]_vars => LostOK'
  BY LossStep, LossStutter
<1>3. IInv /\ LostOK => CountedBytesMoved
  <2> SUFFICES ASSUME IInv, LostOK, pc = "done"
               PROVE  CountedBytesMoved
    BY DEF CountedBytesMoved
  <2>1. /\ Len(moved) + remain = len
        /\ remain > 0 => error # "none"
        /\ error = "ENOSPC" => Free = {}
    BY DEF IInv, LocalsOK, Phases, AtEnd
  <2> QED
    BY <2>1 DEF CountedBytesMoved, LostOK
<1> QED
  BY <1>1, <1>2, <1>3, TransferInvariance, PTL DEF Spec

(* A write leaves the chain as long as the file needs it, also when the    *)
(* disc was full, and however the clusters were grouped.                   *)
THEOREM NothingLinkedInVain ==
  ASSUME ReadsAtBorder = FALSE
  PROVE  Spec => []NoOverAllocation
<1>1. IInv => NoOverAllocation
  <2> SUFFICES ASSUME IInv, pc = "done", op = "write", error # "EIO",
                      NEW m, m = IF Here > filesize THEN Here ELSE filesize
               PROVE  Len(chain) = ClustersFor(m)
    BY DEF NoOverAllocation, Here
  <2>1. /\ CallOK /\ LocalsOK /\ Thrifty /\ Stands(chain, position, Here)
        /\ InHand = 0 /\ (error = "none" => remain = 0)
    BY DEF IInv, Phases, AtEnd, InHand, InGroup
  <2>2. /\ Here \in Nat /\ filesize \in Nat /\ m \in Nat /\ remain \in Nat
        /\ bytesPerCluster \in Nat \ {0} /\ Len(chain) \in Nat \ {0}
        /\ filesize <= Len(chain) * bytesPerCluster
    BY <2>1, HereIs, GeometryIs, ChainIs DEF CallOK, LocalsOK
  <2>3. Here <= Len(chain) * bytesPerCluster
    <3>1. PICK i \in DOMAIN chain : Here <= i * bytesPerCluster
      BY <2>1, StandingIs
    <3>2. i \in Nat /\ i <= Len(chain)
      BY <2>1, ChainIs DEF LocalsOK
    <3>3. i * bytesPerCluster <= Len(chain) * bytesPerCluster
      BY <2>2, <3>2, Multiples
    <3>4. i * bytesPerCluster \in Nat /\ Len(chain) * bytesPerCluster \in Nat
      BY <2>2, <3>2
    <3> QED
      BY <2>2, <3>1, <3>3, <3>4
  <2>4. PICK start \in Nat : start = (Len(chain) - 1) * bytesPerCluster
    BY <2>2
  <2>5. Len(chain) = 1 \/ start < m
    BY <2>1, <2>2, <2>4 DEF Thrifty
  <2>6. m <= start + bytesPerCluster
    <3>1. start = Len(chain) * bytesPerCluster - bytesPerCluster
      BY <2>2, <2>4, Multiples
    <3>2. Len(chain) * bytesPerCluster \in Nat
      BY <2>2
    <3> QED
      BY <2>2, <2>3, <3>1, <3>2
  <2>7. Len(chain) = 1 => start = 0
    BY <2>2, <2>4
  <2>8. Len(chain) # 1 => start >= bytesPerCluster
    <3>1. PICK k \in Nat : k + 1 = Len(chain)
      <4>1. Len(chain) \in Nat /\ Len(chain) - 1 \in Nat
        BY <2>1, ChainIs DEF LocalsOK
      <4>2. Len(chain) - 1 + 1 = Len(chain)
        BY <4>1
      <4> QED
        BY <4>1, <4>2
    <3>2. k >= 1 => k * bytesPerCluster >= bytesPerCluster
      BY <2>2
    <3>3. start = k * bytesPerCluster
      BY <2>4, <3>1
    <3> QED
      BY <3>1, <3>2, <3>3
  <2>9. CASE m = 0
    BY <2>2, <2>4, <2>5, <2>8, <2>9 DEF ClustersFor
  <2>10. CASE m # 0
    <3>1. start < m
      BY <2>2, <2>5, <2>7, <2>10
    <3>2. PICK q \in Nat : q = Len(chain) - 1
      BY <2>2
    <3>3. PICK r \in 0 .. bytesPerCluster - 1 : r = m - 1 - start
      BY <2>2, <2>6, <3>1
    <3>4. m - 1 = q * bytesPerCluster + r
      BY <2>2, <2>4, <3>2, <3>3
    <3>5. (q * bytesPerCluster + r) \div bytesPerCluster = q
      BY <2>2, Quotient
    <3> QED
      BY <2>2, <2>10, <3>2, <3>4, <3>5 DEF ClustersFor
  <2> QED
    BY <2>9, <2>10
<1> QED
  BY <1>1, TransferInvariance, PTL

(* The last part of a write erases only what is behind its end. *)
LEMMA LastSpares ==
  ASSUME IInv, Last, UNCHANGED fixed, ErasesNothingOfTheFile
  PROVE  ErasesNothingOfTheFile'
<1> SUFFICES ASSUME NEW f \in Nat, f < filesize
             PROVE  PlaceOf(f) \notin erased'
  <2>1. UNCHANGED chain /\ filesize \in Nat
    BY DEF IInv, CallOK, Last
  <2>2. \A f \in 0 .. filesize - 1 : f \in Nat /\ f < filesize
    BY <2>1
  <2>3. \A f \in 0 .. filesize - 1 : PlaceOf(f)' = PlaceOf(f)
    BY <2>1, FixedIs DEF PlaceOf, Place
  <2> QED
    BY <2>2, <2>3, FixedIs DEF ErasesNothingOfTheFile
<1>1. /\ CallOK /\ LocalsOK /\ Phases /\ pc = "last" /\ erased = {}
      /\ (error = "none" => Ready /\ AtRest) /\ Stands(chain, position, Here)
  BY DEF IInv, Last, Phases, LocalsOK
<1>2. CASE ~(remain > 0 /\ error = "none") \/ ~(op = "write" /\ Appending)
  <2>1. erased' = {}
    BY <1>1, <1>2 DEF Last, ErasedBy
  <2> QED
    BY <2>1
<1>3. CASE remain > 0 /\ error = "none" /\ op = "write" /\ Appending
  <2>1. /\ bytesPerSector \in Nat \ {0} /\ sectorsPerCluster \in Nat \ {0} /\ bytesPerCluster \in Nat \ {0}
        /\ position.sector \in Nat /\ position.sector < sectorsPerCluster /\ position.byte = 0
        /\ remain \in Nat /\ geometry \in Geometries /\ chain \in Chains
        /\ Here \in Nat /\ Here + remain = base + len
    BY <1>1, <1>3, PositionIs, HereIs DEF Ready, AtRest, CallOK, LocalsOK
  <2>2. PICK i \in DOMAIN chain :
          /\ position.cluster = chain[i]
          /\ Here = (i - 1) * bytesPerCluster + (position.sector * bytesPerSector + position.byte)
    BY <1>1 DEF Stands
  <2>3. PICK off \in Nat : off = position.sector * bytesPerSector /\ off + bytesPerSector <= bytesPerCluster
    BY <2>1, SectorsAre
  <2>4. i \in Nat /\ chain[i] \in Nat /\ (i - 1) * bytesPerCluster \in Int
    <3>1. i \in Nat /\ chain[i] \in Nat
      BY <2>1, ChainIs
    <3> QED
      BY <2>1, <3>1
  <2>5. Here = (i - 1) * bytesPerCluster + off
    BY <2>1, <2>2, <2>3, <2>4
  <2>6. remain < bytesPerSector
    BY <1>1, <1>3, <2>1 DEF AtRest
  <2>7. PICK first \in Nat : first = chain[i] * bytesPerCluster + (off + remain)
                              /\ first = Place(position.cluster, position.sector, remain)
    <3>1. Place(chain[i], position.sector, remain)
            = chain[i] * bytesPerCluster + (position.sector * bytesPerSector + remain)
      <4>1. PICK c \in Nat, s \in Nat, y \in Nat :
              c = chain[i] /\ s = position.sector /\ y = remain
        BY <2>1, <2>4
      <4>2. Place(c, s, y) = c * bytesPerCluster + (s * bytesPerSector + y)
        BY <2>1, PlaceIs
      <4> QED
        BY <4>1, <4>2
    <3>2. chain[i] * bytesPerCluster \in Nat
      BY <2>1, <2>4
    <3> QED
      BY <2>1, <2>2, <2>3, <3>1, <3>2
  <2>8. PICK d \in Nat : d = bytesPerSector - remain
    BY <2>1, <2>6
  <2>9. \A x \in erased' : \E t \in 1 .. d : x = first + t - 1
    <3>1. ErasedBy(remain) = [t \in 1 .. d |-> first + t - 1]
      BY <1>3, <2>7, <2>8 DEF ErasedBy, Run
    <3>2. \/ erased' = erased
          \/ erased' = erased \cup {ErasedBy(remain)[t] : t \in DOMAIN ErasedBy(remain)}
      BY <1>3 DEF Last
    <3>3. erased' \subseteq {ErasedBy(remain)[t] : t \in DOMAIN ErasedBy(remain)}
      BY <1>1, <3>2
    <3> QED
      BY <3>1, <3>3
  <2>10. SUFFICES ASSUME PlaceOf(f) \in erased'
                  PROVE  FALSE
    OBVIOUS
  <2>11. PICK t \in 1 .. d : PlaceOf(f) = first + t - 1
    BY <2>9, <2>10
  <2>12. PICK o \in 0 .. bytesPerCluster - 1 : o = off + remain + t - 1
    BY <2>1, <2>3, <2>8
  <2>13. PlaceOf(f) = chain[i] * bytesPerCluster + o
    BY <2>1, <2>4, <2>7, <2>11, <2>12
  <2>14. PICK q \in Nat, r \in 0 .. bytesPerCluster - 1 :
           q = f \div bytesPerCluster /\ r = f % bytesPerCluster /\ f = q * bytesPerCluster + r
    <3>1. /\ f \div bytesPerCluster \in Nat /\ f % bytesPerCluster \in 0 .. bytesPerCluster - 1
          /\ f = (f \div bytesPerCluster) * bytesPerCluster + (f % bytesPerCluster)
      BY <2>1, DivMod
    <3> QED
      BY <3>1
  <2>15. q < Len(chain)
    <3>1. filesize <= Len(chain) * bytesPerCluster /\ filesize \in Nat /\ Len(chain) \in Nat
      BY <1>1, <2>1, ChainIs DEF CallOK, LocalsOK
    <3>2. CASE q >= Len(chain)
      <4>1. Len(chain) * bytesPerCluster <= q * bytesPerCluster
        BY <2>1, <3>1, <3>2, Multiples
      <4>2. Len(chain) * bytesPerCluster \in Nat /\ q * bytesPerCluster \in Nat
        BY <2>1, <3>1
      <4> QED
        BY <2>1, <2>14, <3>1, <4>1, <4>2
    <3> QED
      BY <3>1, <3>2
  <2>16. PICK j \in DOMAIN chain : j = q + 1
    <3>1. DOMAIN chain = 1 .. Len(chain) /\ Len(chain) \in Nat
      BY <2>1, ChainIs
    <3> QED
      BY <2>15, <3>1
  <2>17. PlaceOf(f) = chain[j] * bytesPerCluster + r
    <3>1. chain[j] \in Nat /\ r \in Nat
      BY <2>1, <2>16, ChainIs
    <3>2. PICK z \in Nat : z = 0
      OBVIOUS
    <3>3. Place(chain[j], z, r) = chain[j] * bytesPerCluster + (z * bytesPerSector + r)
      BY <2>1, <3>1, PlaceIs
    <3>4. PlaceOf(f) = Place(chain[j], z, r)
      BY <2>14, <2>16, <3>2 DEF PlaceOf
    <3> QED
      BY <2>1, <3>1, <3>2, <3>3, <3>4
  <2>18. i = j /\ r = o
    <3>1. PICK a \in Nat, b \in Nat : a = chain[i] /\ b = chain[j]
      BY <2>1, ChainIs
    <3>2. (a * bytesPerCluster + o) \div bytesPerCluster = a /\ (a * bytesPerCluster + o) % bytesPerCluster = o
      BY <2>1, Quotient
    <3>3. (b * bytesPerCluster + r) \div bytesPerCluster = b /\ (b * bytesPerCluster + r) % bytesPerCluster = r
      BY <2>1, Quotient
    <3>4. a * bytesPerCluster + o = b * bytesPerCluster + r
      BY <2>13, <2>17, <3>1
    <3>5. a = b /\ o = r
      BY <3>2, <3>3, <3>4
    <3> QED
      BY <2>1, <3>1, <3>5, ChainIs
  <2>19. f = Here + remain + t - 1
    <3>1. i - 1 = q
      BY <2>16, <2>18
    <3>2. PICK m \in Nat : m = q * bytesPerCluster
      BY <2>1
    <3>3. f = m + o /\ Here = m + off
      BY <2>5, <2>14, <2>18, <3>1, <3>2
    <3> QED
      BY <2>1, <2>12, <3>2, <3>3
  <2>20. f >= base + len
    BY <2>1, <2>19
  <2>21. base + len > filesize /\ filesize \in Nat /\ base + len \in Nat
    BY <1>1, <1>3 DEF Appending, CallOK
  <2> QED
    BY <2>20, <2>21
<1> QED
  BY <1>2, <1>3

(* Erasing the rest of the last sector of an append spares every byte of   *)
(* the file.                                                               *)
THEOREM EraseSparesTheFile ==
  ASSUME ReadsAtBorder = FALSE
  PROVE  Spec => []ErasesNothingOfTheFile
<1>1. Init => ErasesNothingOfTheFile
  BY DEF Init, ErasesNothingOfTheFile
<1>2. IInv /\ ErasesNothingOfTheFile /\ [Next]_vars => ErasesNothingOfTheFile'
  <2> SUFFICES ASSUME IInv, ErasesNothingOfTheFile, [Next]_vars
               PROVE  ErasesNothingOfTheFile'
    OBVIOUS
  <2>1. CASE UNCHANGED vars
    <3>1. UNCHANGED fixed /\ UNCHANGED <<chain, erased>>
      BY <2>1 DEF vars
    <3> QED
      BY <3>1, FixedIs DEF ErasesNothingOfTheFile, PlaceOf, Place
  <2>2. CASE Last /\ UNCHANGED fixed
    BY <2>2, LastSpares
  <2>3. CASE Step /\ ~Last
    <3>1. pc # "done" /\ erased' = erased
      BY <2>3 DEF Step, ReadBegin, WriteBegin, ExtendBegin, AlignToSector, AlignToCluster, Advance,
         ReadClusters, WriteClusters, Group, WriteChunk, ClustersDone, Rest, ExtendHead,
         ExtendSector, ExtendCheck, ExtendTail, CheckPosition
    <3>2. erased' = {}
      BY <3>1 DEF IInv, LocalsOK
    <3> QED
      BY <3>2 DEF ErasesNothingOfTheFile
  <2> QED
    BY <2>1, <2>2, <2>3 DEF Next
<1> QED
  BY <1>1, <1>2, TransferInvariance, PTL DEF Spec

(* In a read that does not begin at the flag with less than a sector, the  *)
(* comment at fatfile.c:566 is right: nothing is moved at the flag.        *)
THEOREM DueIsSeenFirst ==
  ASSUME ReadsAtBorder = FALSE
  PROVE  Spec => NothingReadWhileDue
<1>1. IInv /\ [Next]_vars =>
        [(op = "read" /\ position.sector = sectorsPerCluster) => moved' = moved]_vars
  <2> SUFFICES ASSUME IInv, Next, op = "read", position.sector = sectorsPerCluster
               PROVE  moved' = moved
    BY DEF vars
  <2>1. /\ CallOK /\ LocalsOK /\ Phases /\ Groups
        /\ geometry \in Geometries /\ bytesPerSector \in Nat \ {0} /\ sectorsPerCluster \in Nat \ {0}
        /\ bytesPerCluster \in Nat \ {0} /\ bytesPerCluster >= bytesPerSector
        /\ remain \in Nat /\ position \in PositionType
    <3>1. /\ CallOK /\ LocalsOK /\ Phases /\ Groups /\ sectorsPerCluster \in Nat \ {0}
      BY GeometryIs DEF IInv, CallOK
    <3>2. geometry \in Geometries /\ bytesPerCluster >= bytesPerSector
      BY <3>1, GeometryIs, SectorsAre DEF CallOK
    <3> QED
      BY <3>1, <3>2, PositionIs DEF LocalsOK
  <2>2. CASE AlignToSector
    <3>1. pc = "head" /\ Stands(chain, position, Here) /\ AtHead
      BY <2>1, <2>2 DEF AlignToSector, Phases
    <3>2. position.byte = 0
      BY <3>1 DEF Stands
    <3>3. error = "none" => remain >= bytesPerSector
      BY <2>1, <3>1 DEF AtHead
    <3>4. CASE error = "none"
      <4>1. ~(bytesPerSector - position.byte > remain) /\ ~(bytesPerSector - position.byte < bytesPerSector)
        BY <2>1, <3>2, <3>3, <3>4
      <4> QED
        BY <2>2, <4>1 DEF AlignToSector, Skip
    <3> QED
      BY <2>2, <3>4 DEF AlignToSector, Skip
  <2>3. CASE AlignToCluster
    <3>1. RestOfCluster <= 0 /\ RestOfCluster \in Nat
      BY <2>1, RestOfClusterIs
    <3>2. ~(RestOfCluster > 0)
      BY <3>1
    <3> QED
      BY <2>3, <3>2 DEF AlignToCluster, Skip
  <2>4. CASE ReadClusters
    <3>1. pc = "clusters" /\ remain >= bytesPerCluster /\ error = "none" /\ AtClusters
      BY <2>1, <2>4 DEF ReadClusters, Phases
    <3> QED
      BY <2>1, <3>1 DEF AtClusters
  <2>5. CASE Rest \/ Last
    <3>1. pc \in {"rest", "last"} /\ (error = "none" => AtRest)
      BY <2>1, <2>5 DEF Rest, Last, Phases
    <3>2. error = "none" => remain = 0
      BY <2>1, <3>1 DEF AtRest
    <3>3. 0 \div bytesPerSector = 0
      BY <2>1
    <3> QED
      BY <2>5, <3>2, <3>3 DEF Rest, Last, Skip
  <2>6. CASE WriteChunk
    BY <2>1, <2>6 DEF WriteChunk, Groups, InGroup
  <2>7. CASE \/ ReadBegin \/ WriteBegin \/ ExtendBegin \/ Advance \/ WriteClusters \/ Group
             \/ ClustersDone \/ ExtendCheck
    BY <2>7 DEF ReadBegin, WriteBegin, ExtendBegin, Advance, WriteClusters, Group, ClustersDone,
       ExtendCheck, CheckPosition
  <2>8. CASE ExtendHead \/ ExtendSector \/ ExtendTail
    BY <2>1, <2>8 DEF ExtendHead, ExtendSector, ExtendTail, Phases
  <2> QED
    BY <2>2, <2>3, <2>4, <2>5, <2>6, <2>7, <2>8 DEF Next, Step
<1> QED
  BY <1>1, TransferInvariance, PTL DEF Spec, NothingReadWhileDue
=============================================================================

---------------------------- MODULE FatFileProofs ----------------------------
(***************************************************************************)
(* Theorems about FatFile for any files and clusters, every geometry and   *)
(* every length of a call, for clients that keep all of its rules.         *)
(*                                                                         *)
(* The argument: a file has a row of clusters.  The rows are what the      *)
(* table links (Fits), a row has the clusters that the size takes (Sized), *)
(* and a position stands in it (Stands), at the border of two clusters     *)
(* either way.  A chain that is followed from the first cluster of a row,  *)
(* or from one in its middle, is the rest of that row: FitsExtended,       *)
(* FitsCleared and FitsTrimmed say what becomes of the rows when the table *)
(* changes.  What a write does to the bytes along a row is its Effect;     *)
(* from that come the sequences of bytes of ByteFile.                      *)
(***************************************************************************)
EXTENDS FatFile, FiniteSetTheorems, SequenceTheorems, WellFoundedInduction, TLAPS

-----------------------------------------------------------------------------
(* Arithmetic. *)

LEMMA DivMod ==
  ASSUME NEW n \in Nat \ {0}, NEW a \in Nat
  PROVE  /\ a \div n \in Nat /\ a % n \in 0 .. n - 1
         /\ a = (a \div n) * n + (a % n)
OBVIOUS

(* A quotient and a remainder are what they are. *)
LEMMA Quotient ==
  ASSUME NEW n \in Nat \ {0}, NEW q \in Nat, NEW r \in 0 .. n - 1
  PROVE  (q * n + r) \div n = q /\ (q * n + r) % n = r
<1> DEFINE a == q * n + r
<1>1. a \in Nat
  OBVIOUS
<1> DEFINE p == a \div n
           d == a % n
<1>2. p \in Nat /\ d \in 0 .. n - 1 /\ a = p * n + d
  BY <1>1, DivMod
<1>3. q * n + r = p * n + d
  BY <1>2
<1> HIDE DEF p, d
<1>4. ~(q < p)
  <2> SUFFICES ASSUME q < p PROVE FALSE
    OBVIOUS
  <2>1. n * (p - q) >= n
    BY <1>2
  <2> QED
    BY <2>1, <1>2, <1>3
<1>5. ~(p < q)
  <2> SUFFICES ASSUME p < q PROVE FALSE
    OBVIOUS
  <2>1. n * (q - p) >= n
    BY <1>2
  <2> QED
    BY <2>1, <1>2, <1>3
<1>6. p = q
  BY <1>2, <1>4, <1>5
<1>7. d = r
  BY <1>3, <1>6, <1>2
<1> QED
  BY <1>6, <1>7 DEF p, d

(* Multiples grow with their factors. *)
LEMMA Multiples ==
  ASSUME NEW n \in Nat \ {0}, NEW j \in Int, NEW k \in Int
  PROVE  /\ j * n \in Int /\ (j >= 0 => j * n >= 0)
         /\ (j + k) * n = j * n + k * n
         /\ (j + 1) * n = j * n + n /\ (j - 1) * n = j * n - n
         /\ j < k => j * n + n <= k * n
         /\ j <= k => j * n <= k * n
<1>1. j < k => (k - j) * n >= n
  OBVIOUS
<1>2. j <= k => (k - j) * n >= 0
  OBVIOUS
<1> QED
  BY <1>1, <1>2

LEMMA LeastExists ==
  ASSUME NEW S \in SUBSET Nat, S # {}
  PROVE  \E m \in S : \A n \in S : m <= n
<1> DEFINE T == {0 .. n : n \in S}
<1>1. IsWellFoundedOn(StrictSubsetOrdering(Nat), FiniteSubsetsOf(Nat))
  BY FS_StrictSubsetOrderingWellFounded
<1>2. T \subseteq FiniteSubsetsOf(Nat) /\ T # {}
  <2>1. \A n \in S : IsFiniteSet(0 .. n) /\ 0 .. n \in SUBSET Nat
    BY FS_Interval
  <2> QED
    BY <2>1 DEF FiniteSubsetsOf
<1>3. PICK x \in T : \A y \in T : ~(<<y, x>> \in StrictSubsetOrdering(Nat))
  <2> HIDE DEF T
  <2> QED
    BY <1>1, <1>2, WFMin
<1>4. PICK m \in S : x = 0 .. m
  OBVIOUS
<1>5. ASSUME NEW n \in S
      PROVE  m <= n
  <2>1. <<0 .. n, 0 .. m>> \notin StrictSubsetOrdering(Nat)
    BY <1>3, <1>4
  <2>2. 0 .. n \subseteq Nat /\ 0 .. m \subseteq Nat
    OBVIOUS
  <2>3. CASE n < m
    <3>1. 0 .. n \subseteq 0 .. m /\ m \in 0 .. m /\ m \notin 0 .. n
      BY <2>3
    <3> QED
      BY <2>1, <2>2, <3>1 DEF StrictSubsetOrdering
  <2> QED
    BY <2>3
<1> QED
  BY <1>4, <1>5

-----------------------------------------------------------------------------
(* Chains. *)

(* s is a row of clusters linked one after the other, each of them once,   *)
(* that leads nowhere.                                                     *)
IsRow(table, s) ==
  /\ s \in Seq(Clusters)
  /\ \A i, j \in 1 .. Len(s) : s[i] = s[j] => i = j
  /\ \A i \in 1 .. Len(s) - 1 : table[s[i]] = s[i + 1]
  /\ s # <<>> => table[s[Len(s)]] \notin Clusters

(* The row that begins with c, or the empty one. *)
BeginsWith(s, c) == IF s = <<>> THEN c \notin Clusters ELSE s[1] = c

LEMMA ClusterCount == Cardinality(Clusters) \in Nat
BY GeometryAssumption, FS_CardinalityType

LEMMA RowIsShort ==
  ASSUME NEW table, NEW s, IsRow(table, s)
  PROVE  Len(s) \in 0 .. Cardinality(Clusters)
<1>1. s \in Seq(Clusters) /\ Len(s) \in Nat
  BY DEF IsRow
<1>2. IsFiniteSet(1 .. Len(s)) /\ Cardinality(1 .. Len(s)) = Len(s)
  BY <1>1, FS_Interval
<1>3. Len(s) > Cardinality(Clusters) => \E i, j \in 1 .. Len(s) : i # j /\ s[i] = s[j]
  BY <1>1, <1>2, FS_PigeonHole, GeometryAssumption
<1> QED
  BY <1>1, <1>3, ClusterCount DEF IsRow

LEMMA ChainIs ==
  ASSUME NEW table, NEW s, IsRow(table, s), NEW c, BeginsWith(s, c)
  PROVE  Chain(table, c) = s
<1> DEFINE N == Cardinality(Clusters)
           Further(w) == LET next == IF w = <<>> THEN c ELSE table[Last(w)]
                         IN  IF next \in Clusters THEN Append(w, next) ELSE w
           IsWalk(w) == w = [n \in 0 .. N |-> IF n = 0 THEN <<>> ELSE Further(w[n - 1])]
           G == [n \in 0 .. N |-> SubSeq(s, 1, Lesser(n, Len(s)))]
<1>1. Chain(table, c) = (CHOOSE w : IsWalk(w))[N]
  BY DEF Chain
<1>2. /\ s \in Seq(Clusters) /\ Len(s) \in 0 .. N /\ N \in Nat
      /\ \A i \in 1 .. Len(s) - 1 : table[s[i]] = s[i + 1]
      /\ s # <<>> => table[s[Len(s)]] \notin Clusters
  BY RowIsShort, ClusterCount DEF IsRow
<1>3. \A n \in 1 .. N : Further(G[n - 1]) = G[n]
  <2> SUFFICES ASSUME NEW n \in 1 .. N
               PROVE  Further(G[n - 1]) = G[n]
    OBVIOUS
  <2>1. n - 1 \in 0 .. N /\ n \in 0 .. N
    BY <1>2
  <2>2. G[n - 1] = SubSeq(s, 1, Lesser(n - 1, Len(s))) /\ G[n] = SubSeq(s, 1, Lesser(n, Len(s)))
    BY <2>1
  <2> HIDE DEF G
  <2>3. CASE n > Len(s)
    <3>1. G[n - 1] = s /\ G[n] = s
      BY <1>2, <2>2, <2>3 DEF Lesser
    <3>2. Further(s) = s
      BY <1>2 DEF BeginsWith, Last
    <3> QED
      BY <3>1, <3>2
  <2>4. CASE n <= Len(s)
    <3>1. G[n - 1] = SubSeq(s, 1, n - 1) /\ G[n] = SubSeq(s, 1, n)
      BY <1>2, <2>2, <2>4 DEF Lesser
    <3>2. s[n] \in Clusters
      BY <1>2, <2>4
    <3>3. SubSeq(s, 1, n) = Append(SubSeq(s, 1, n - 1), s[n])
      BY <1>2, <2>4
    <3>4. CASE n = 1
      <4>1. SubSeq(s, 1, n - 1) = <<>>
        BY <3>4
      <4>2. s # <<>> /\ c = s[1]
        BY <1>2, <2>4 DEF BeginsWith
      <4> QED
        BY <3>1, <3>2, <3>3, <3>4, <4>1, <4>2
    <3>5. CASE n > 1
      <4>1. SubSeq(s, 1, n - 1) \in Seq(Clusters) /\ Len(SubSeq(s, 1, n - 1)) = n - 1
        BY <1>2, <2>4
      <4>2. SubSeq(s, 1, n - 1) # <<>> /\ Last(SubSeq(s, 1, n - 1)) = s[n - 1]
        <5>1. PICK m \in 1 .. Len(s) : m = n - 1
          BY <1>2, <2>4, <3>5
        <5>2. Len(SubSeq(s, 1, m)) = m /\ SubSeq(s, 1, m)[m] = s[m]
          BY <1>2, <5>1
        <5>3. SubSeq(s, 1, m) # <<>>
          BY <5>1, <5>2
        <5> QED
          BY <5>1, <5>2, <5>3 DEF Last
      <4>3. table[s[n - 1]] = s[n]
        BY <1>2, <2>4, <3>5
      <4> QED
        BY <3>1, <3>2, <3>3, <4>2, <4>3
    <3> QED
      BY <1>2, <3>4, <3>5
  <2> QED
    BY <1>2, <2>3, <2>4
<1>4. G[0] = <<>> /\ G[N] = s
  BY <1>2 DEF Lesser
<1>5. IsWalk(G)
  <2>1. \A n \in 0 .. N : G[n] = IF n = 0 THEN <<>> ELSE Further(G[n - 1])
    <3> HIDE DEF G, Further
    <3> QED
      BY <1>2, <1>3, <1>4
  <2>2. G = [n \in 0 .. N |-> G[n]]
    OBVIOUS
  <2> HIDE DEF G, Further
  <2> QED
    BY <2>1, <2>2
<1> HIDE DEF G
<1>6. ASSUME NEW w, IsWalk(w)
      PROVE  w[N] = s
  <2>1. \A n \in 0 .. N : w[n] = IF n = 0 THEN <<>> ELSE Further(w[n - 1])
    <3> HIDE DEF Further
    <3> QED
      BY <1>6
  <2> DEFINE Bad == {n \in 0 .. N : w[n] # G[n]}
  <2>2. CASE Bad = {}
    BY <1>2, <1>4, <2>2
  <2>3. CASE Bad # {}
    <3>1. PICK m \in Bad : \A n \in Bad : m <= n
      <4>1. Bad \in SUBSET Nat
        BY <1>2
      <4> HIDE DEF Bad
      <4> QED
        BY <2>3, <4>1, LeastExists
    <3>2. m # 0
      BY <1>2, <1>4, <2>1
    <3>3. m - 1 \in 0 .. N /\ m \in 1 .. N
      BY <1>2, <3>2
    <3>4. w[m - 1] = G[m - 1]
      BY <1>2, <3>1, <3>3
    <3>5. w[m] = G[m]
      <4> HIDE DEF Further
      <4> QED
        BY <1>3, <2>1, <3>2, <3>3, <3>4
    <3> QED
      BY <3>5
  <2> QED
    BY <2>2, <2>3
<1>7. IsWalk(CHOOSE w : IsWalk(w))
  <2> HIDE DEF IsWalk
  <2> QED
    BY <1>5
<1> QED
  <2> HIDE DEF IsWalk
  <2> QED
    BY <1>1, <1>6, <1>7

Has(s, c) == \E i \in 1 .. Len(s) : s[i] = c

LEMMA RowIs ==
  ASSUME NEW table, NEW s, IsRow(table, s)
  PROVE  /\ s \in Seq(Clusters) /\ Len(s) \in Nat
         /\ \A i \in 1 .. Len(s) : s[i] \in Clusters /\ Has(s, s[i])
         /\ \A c : Has(s, c) => c \in Clusters
         /\ s = <<>> <=> Len(s) = 0
         /\ s # <<>> => s[1] \in Clusters
<1>1. s \in Seq(Clusters) /\ Len(s) \in Nat
  BY DEF IsRow
<1>2. \A i \in 1 .. Len(s) : s[i] \in Clusters /\ Has(s, s[i])
  BY <1>1 DEF Has
<1>3. s = <<>> <=> Len(s) = 0
  BY <1>1
<1>4. s # <<>> => s[1] \in Clusters
  BY <1>1, <1>3
<1> QED
  BY <1>1, <1>2, <1>3, <1>4 DEF Has

(* Every link of a row begins a row. *)
LEMMA TailIs ==
  ASSUME NEW table, NEW s, IsRow(table, s), NEW i \in 1 .. Len(s)
  PROVE  /\ IsRow(table, SubSeq(s, i, Len(s)))
         /\ Chain(table, s[i]) = SubSeq(s, i, Len(s))
<1>1. s \in Seq(Clusters) /\ Len(s) \in Nat
  BY RowIs
<1> DEFINE t == SubSeq(s, i, Len(s))
<1>2. /\ t \in Seq(Clusters) /\ Len(t) = Len(s) - i + 1
      /\ \A k \in 1 .. Len(s) - i + 1 : t[k] = s[i + k - 1]
  BY <1>1
<1> HIDE DEF t
<1>3. \A j, k \in 1 .. Len(t) : t[j] = t[k] => j = k
  <2> SUFFICES ASSUME NEW j \in 1 .. Len(t), NEW k \in 1 .. Len(t), t[j] = t[k]
               PROVE  j = k
    OBVIOUS
  <2>1. PICK m \in 1 .. Len(s), l \in 1 .. Len(s) : m = i + j - 1 /\ l = i + k - 1
    BY <1>1, <1>2
  <2>2. t[j] = s[m] /\ t[k] = s[l]
    BY <1>2, <2>1
  <2>3. m = l
    BY <2>2 DEF IsRow
  <2> QED
    BY <1>1, <1>2, <2>1, <2>3
<1>4. \A k \in 1 .. Len(t) - 1 : table[t[k]] = t[k + 1]
  <2> SUFFICES ASSUME NEW k \in 1 .. Len(t) - 1
               PROVE  table[t[k]] = t[k + 1]
    OBVIOUS
  <2>1. PICK m \in 1 .. Len(s) - 1 : m = i + k - 1
    BY <1>1, <1>2
  <2>2. t[k] = s[m] /\ t[k + 1] = s[m + 1]
    BY <1>1, <1>2, <2>1
  <2> QED
    BY <2>2 DEF IsRow
<1>5. Len(t) >= 1 /\ t[Len(t)] = s[Len(s)] /\ t[1] = s[i] /\ t # <<>> /\ s # <<>>
  BY <1>1, <1>2
<1>6. IsRow(table, t)
  BY <1>2, <1>3, <1>4, <1>5 DEF IsRow
<1>7. BeginsWith(t, s[i])
  BY <1>5 DEF BeginsWith
<1> QED
  BY <1>6, <1>7, ChainIs DEF t

-----------------------------------------------------------------------------
(* Tables. *)

Tables == [Clusters -> Clusters \cup {CLUSTER_FREE, CLUSTER_EOF}]

(* r gives the row of each file; they do not meet, and what is in none of  *)
(* them is free.                                                           *)
Fits(table, r) ==
  /\ table \in Tables
  /\ r = [f \in Files |-> r[f]]
  /\ \A f \in Files : IsRow(table, r[f])
  /\ \A f, g \in Files, c \in Clusters : Has(r[f], c) /\ Has(r[g], c) => f = g
  /\ \A c \in Clusters : table[c] # CLUSTER_FREE <=> \E f \in Files : Has(r[f], c)

With(r, f, s) == [r EXCEPT ![f] = s]

LEMMA WithIs ==
  ASSUME NEW r, r = [g \in Files |-> r[g]], NEW f \in Files, NEW s
  PROVE  /\ With(r, f, s) = [g \in Files |-> With(r, f, s)[g]]
         /\ With(r, f, s)[f] = s
         /\ \A g \in Files \ {f} : With(r, f, s)[g] = r[g]
BY DEF With

(* What it takes to replace one row. *)
LEMMA FitsWith ==
  ASSUME NEW table, NEW r, Fits(table, r), NEW f \in Files, NEW new \in Tables,
         NEW s, IsRow(new, s),
         \A c \in Clusters : Has(s, c) => Has(r[f], c) \/ table[c] = CLUSTER_FREE,
         \A c \in Clusters : ~Has(r[f], c) /\ ~Has(s, c) => new[c] = table[c],
         \A c \in Clusters : Has(s, c) => new[c] # CLUSTER_FREE,
         \A c \in Clusters : Has(r[f], c) /\ ~Has(s, c) => new[c] = CLUSTER_FREE
  PROVE  Fits(new, With(r, f, s))
<1> DEFINE q == With(r, f, s)
<1>1. r = [g \in Files |-> r[g]]
  BY DEF Fits
<1>2. q = [g \in Files |-> q[g]] /\ q[f] = s /\ \A g \in Files \ {f} : q[g] = r[g]
  BY <1>1, WithIs
<1> HIDE DEF q
<1>3. ASSUME NEW g \in Files \ {f}, NEW c \in Clusters, Has(r[g], c)
      PROVE  new[c] = table[c] /\ ~Has(s, c) /\ ~Has(r[f], c)
  BY <1>3 DEF Fits
<1>4. ASSUME NEW g \in Files
      PROVE  IsRow(new, q[g])
  <2>1. CASE g = f
    BY <1>2, <2>1
  <2>2. CASE g # f
    <3>1. IsRow(table, r[g])
      BY DEF Fits
    <3>2. \A i \in 1 .. Len(r[g]) : r[g][i] \in Clusters /\ Has(r[g], r[g][i])
      BY <3>1, RowIs
    <3>3. \A i \in 1 .. Len(r[g]) : new[r[g][i]] = table[r[g][i]]
      BY <1>3, <2>2, <3>2
    <3>4. Len(r[g]) \in Nat /\ (r[g] # <<>> => Len(r[g]) \in 1 .. Len(r[g]))
      BY <3>1, RowIs
    <3> QED
      BY <1>2, <2>2, <3>1, <3>3, <3>4 DEF IsRow
  <2> QED
    BY <2>1, <2>2
<1>5. \A g, h \in Files, c \in Clusters : Has(q[g], c) /\ Has(q[h], c) => g = h
  <2> SUFFICES ASSUME NEW g \in Files, NEW h \in Files, NEW c \in Clusters,
                      Has(q[g], c), Has(q[h], c), g # h
               PROVE  FALSE
    OBVIOUS
  <2>1. CASE g = f
    BY <1>2, <1>3, <2>1
  <2>2. CASE h = f
    BY <1>2, <1>3, <2>2
  <2>3. CASE g # f /\ h # f
    BY <1>2, <2>3 DEF Fits
  <2> QED
    BY <2>1, <2>2, <2>3
<1>6. \A c \in Clusters : new[c] # CLUSTER_FREE <=> \E g \in Files : Has(q[g], c)
  <2> SUFFICES ASSUME NEW c \in Clusters
               PROVE  new[c] # CLUSTER_FREE <=> \E g \in Files : Has(q[g], c)
    OBVIOUS
  <2>1. CASE Has(s, c)
    BY <1>2, <2>1
  <2>2. CASE Has(r[f], c) /\ ~Has(s, c)
    BY <1>2, <1>3, <2>2
  <2>3. CASE ~Has(r[f], c) /\ ~Has(s, c)
    <3>1. new[c] = table[c]
      BY <2>3
    <3>2. table[c] # CLUSTER_FREE <=> \E g \in Files : Has(r[g], c)
      BY DEF Fits
    <3> QED
      BY <1>2, <2>3, <3>1, <3>2
  <2> QED
    BY <2>1, <2>2, <2>3
<1> QED
  BY <1>2, <1>4, <1>5, <1>6 DEF Fits, q

(* What linking a row of clusters does to the table. *)
LEMMA LinkedIs ==
  ASSUME NEW table \in Tables, NEW s \in Seq(Clusters),
         \A i, j \in 1 .. Len(s) : s[i] = s[j] => i = j
  PROVE  /\ Linked(table, s) \in Tables
         /\ \A i \in 1 .. Len(s) : Linked(table, s)[s[i]] = (IF i = Len(s) THEN CLUSTER_EOF ELSE s[i + 1])
         /\ \A c \in Clusters : ~Has(s, c) => Linked(table, s)[c] = table[c]
<1> DEFINE At1(c) == CHOOSE i \in DOMAIN s : s[i] = c
           new == Linked(table, s)
<1>1. new = [c \in Clusters |-> IF \E i \in DOMAIN s : s[i] = c
                                THEN IF At1(c) = Len(s) THEN CLUSTER_EOF ELSE s[At1(c) + 1]
                                ELSE table[c]]
  BY DEF Linked
<1>2. DOMAIN s = 1 .. Len(s) /\ Len(s) \in Nat
  OBVIOUS
<1>3. ASSUME NEW i \in 1 .. Len(s)
      PROVE  At1(s[i]) = i
  BY <1>2
<1> HIDE DEF At1, new
<1>4. \A i \in 1 .. Len(s) : new[s[i]] = IF i = Len(s) THEN CLUSTER_EOF ELSE s[i + 1]
  <2> SUFFICES ASSUME NEW i \in 1 .. Len(s)
               PROVE  new[s[i]] = IF i = Len(s) THEN CLUSTER_EOF ELSE s[i + 1]
    OBVIOUS
  <2>1. s[i] \in Clusters
    OBVIOUS
  <2> QED
    BY <1>1, <1>2, <1>3, <2>1
<1>5. \A c \in Clusters : ~Has(s, c) => new[c] = table[c]
  BY <1>1, <1>2 DEF Has
<1>6. ASSUME NEW c \in Clusters
      PROVE  new[c] \in Clusters \cup {CLUSTER_FREE, CLUSTER_EOF}
  <2>1. ASSUME NEW i \in 1 .. Len(s)
        PROVE  new[s[i]] \in Clusters \cup {CLUSTER_FREE, CLUSTER_EOF}
    <3>1. CASE i = Len(s)
      BY <1>4, <3>1
    <3>2. CASE i # Len(s)
      <4>1. PICK m \in Nat : m = Len(s)
        BY <1>2
      <4>2. i + 1 \in 1 .. Len(s)
        <5>1. i \in 1 .. m /\ i # m
          BY <3>2, <4>1
        <5>2. i + 1 \in 1 .. m
          BY <5>1
        <5> QED
          BY <4>1, <5>2
      <4>3. s[i + 1] \in Clusters
        BY <4>2
      <4> QED
        BY <1>4, <3>2, <4>3
    <3> QED
      BY <3>1, <3>2
  <2>2. CASE Has(s, c)
    BY <2>2, <2>1 DEF Has
  <2>3. CASE ~Has(s, c)
    BY <1>5, <2>3 DEF Tables
  <2> QED
    BY <2>2, <2>3
<1>7. new \in Tables
  BY <1>1, <1>6 DEF Tables
<1> QED
  BY <1>4, <1>5, <1>7 DEF new

(* A cluster is linked to the end of a row, or makes one. *)
LEMMA FitsExtended ==
  ASSUME NEW table, NEW r, Fits(table, r), NEW f \in Files, r[f] # <<>>,
         NEW new \in Seq(Clusters), new # <<>>,
         \A i, j \in 1 .. Len(new) : new[i] = new[j] => i = j,
         \A i \in 1 .. Len(new) : table[new[i]] = CLUSTER_FREE
  PROVE  Fits(Linked(table, <<Last(r[f])>> \o new), With(r, f, r[f] \o new))
<1> DEFINE s == r[f]
           m == Len(s)
           n == Len(new)
           z == <<Last(s)>> \o new
           t == s \o new
           after == Linked(table, z)
<1>1. table \in Tables /\ IsRow(table, s)
  BY DEF Fits
<1>2. s \in Seq(Clusters) /\ m \in Nat \ {0} /\ n \in Nat \ {0}
  BY <1>1, RowIs
<1>3. \A i \in 1 .. m : s[i] \in Clusters /\ table[s[i]] # CLUSTER_FREE
  <2>1. \A i \in 1 .. m : s[i] \in Clusters /\ Has(s, s[i])
    BY <1>1, RowIs
  <2> QED
    BY <2>1 DEF Fits
<1>4. Last(s) = s[m]
  BY DEF Last
<1>5. /\ z \in Seq(Clusters) /\ Len(z) = n + 1 /\ z[1] = s[m]
      /\ \A k \in 1 .. n : z[k + 1] = new[k]
  BY <1>2, <1>4
<1>6. /\ t \in Seq(Clusters) /\ Len(t) = m + n
      /\ \A i \in 1 .. m : t[i] = s[i]
      /\ \A k \in 1 .. n : t[m + k] = new[k]
  BY <1>2
<1> HIDE DEF z, t
<1>7. \A i \in 1 .. m, k \in 1 .. n : s[i] # new[k]
  BY <1>3
<1>8. \A i, j \in 1 .. Len(z) : z[i] = z[j] => i = j
  <2> SUFFICES ASSUME NEW i \in 1 .. Len(z), NEW j \in 1 .. Len(z), z[i] = z[j]
               PROVE  i = j
    OBVIOUS
  <2>1. m \in 1 .. m
    BY <1>2
  <2>2. i = 1 \/ (i - 1 \in 1 .. n /\ z[i] = new[i - 1])
    <3>1. i # 1 => i - 1 \in 1 .. n /\ (i - 1) + 1 = i
      BY <1>2, <1>5
    <3> QED
      BY <1>5, <3>1
  <2>3. j = 1 \/ (j - 1 \in 1 .. n /\ z[j] = new[j - 1])
    <3>1. j # 1 => j - 1 \in 1 .. n /\ (j - 1) + 1 = j
      BY <1>2, <1>5
    <3> QED
      BY <1>5, <3>1
  <2>4. CASE i = 1
    BY <1>5, <1>7, <2>1, <2>3, <2>4
  <2>5. CASE j = 1
    BY <1>5, <1>7, <2>1, <2>2, <2>5
  <2>6. CASE i # 1 /\ j # 1
    <3>1. i - 1 = j - 1
      BY <2>2, <2>3, <2>6
    <3> QED
      BY <3>1, <1>5
  <2> QED
    BY <2>4, <2>5, <2>6
<1>9. /\ after \in Tables
      /\ \A i \in 1 .. Len(z) : after[z[i]] = IF i = Len(z) THEN CLUSTER_EOF ELSE z[i + 1]
      /\ \A c \in Clusters : ~Has(z, c) => after[c] = table[c]
  BY <1>1, <1>5, <1>8, LinkedIs
<1> HIDE DEF after
<1>10. after[s[m]] = new[1]
  <2>1. 1 \in 1 .. Len(z) /\ 1 # Len(z) /\ 1 \in 1 .. n
    BY <1>2, <1>5
  <2>2. after[z[1]] = z[1 + 1] /\ z[1 + 1] = new[1]
    BY <1>5, <1>9, <2>1
  <2> QED
    BY <1>5, <2>2
<1>11. \A k \in 1 .. n : after[new[k]] = IF k = n THEN CLUSTER_EOF ELSE new[k + 1]
  <2> SUFFICES ASSUME NEW k \in 1 .. n
               PROVE  after[new[k]] = IF k = n THEN CLUSTER_EOF ELSE new[k + 1]
    OBVIOUS
  <2>1. k + 1 \in 1 .. Len(z) /\ z[k + 1] = new[k]
    BY <1>2, <1>5
  <2>2. CASE k = n
    BY <1>5, <1>9, <2>1, <2>2
  <2>3. CASE k # n
    <3>1. k + 1 \in 1 .. n /\ k + 1 # Len(z)
      BY <1>2, <1>5, <2>3
    <3>2. z[k + 1 + 1] = new[k + 1]
      BY <1>5, <3>1
    <3> QED
      BY <1>9, <2>1, <2>3, <3>1, <3>2
  <2> QED
    BY <2>2, <2>3
<1>12. \A c : Has(z, c) => c = s[m] \/ Has(new, c)
  <2> SUFFICES ASSUME NEW i \in 1 .. Len(z), z[i] # s[m]
               PROVE  Has(new, z[i])
    BY DEF Has
  <2>1. i - 1 \in 1 .. n /\ (i - 1) + 1 = i
    BY <1>2, <1>5
  <2> QED
    BY <1>5, <2>1 DEF Has
<1>13. \A c : Has(t, c) <=> Has(s, c) \/ Has(new, c)
  <2>1. \A c : Has(s, c) => Has(t, c)
    <3> SUFFICES ASSUME NEW i \in 1 .. m PROVE Has(t, s[i])
      BY DEF Has
    <3>1. i \in 1 .. Len(t) /\ t[i] = s[i]
      BY <1>2, <1>6
    <3> QED
      BY <3>1 DEF Has
  <2>2. \A c : Has(new, c) => Has(t, c)
    <3> SUFFICES ASSUME NEW k \in 1 .. n PROVE Has(t, new[k])
      BY DEF Has
    <3>1. m + k \in 1 .. Len(t) /\ t[m + k] = new[k]
      BY <1>2, <1>6
    <3> QED
      BY <3>1 DEF Has
  <2>3. \A c : Has(t, c) => Has(s, c) \/ Has(new, c)
    <3> SUFFICES ASSUME NEW i \in 1 .. Len(t) PROVE Has(s, t[i]) \/ Has(new, t[i])
      BY DEF Has
    <3>1. i > m => i - m \in 1 .. n /\ m + (i - m) = i
      BY <1>2, <1>6
    <3>2. i <= m => i \in 1 .. m
      BY <1>2, <1>6
    <3>3. i > m \/ i <= m
      BY <1>2, <1>6
    <3> QED
      BY <1>6, <3>1, <3>2, <3>3 DEF Has
  <2> QED
    BY <2>1, <2>2, <2>3
<1>14. \A i \in 1 .. m - 1 : after[s[i]] = s[i + 1]
  <2> SUFFICES ASSUME NEW i \in 1 .. m - 1
               PROVE  after[s[i]] = s[i + 1]
    OBVIOUS
  <2>1. i \in 1 .. m /\ m \in 1 .. m /\ i # m
    BY <1>2
  <2>2. s[i] # s[m]
    BY <1>1, <2>1 DEF IsRow
  <2>3. ~Has(new, s[i])
    BY <1>7, <2>1 DEF Has
  <2>4. after[s[i]] = table[s[i]]
    BY <1>3, <1>9, <1>12, <2>1, <2>2, <2>3
  <2> QED
    BY <1>1, <2>4 DEF IsRow
<1>15. IsRow(after, t)
  <2>1. ASSUME NEW i \in 1 .. Len(t)
        PROVE  \/ i \in 1 .. m /\ t[i] = s[i]
               \/ i - m \in 1 .. n /\ t[i] = new[i - m]
    <3>1. i > m => i - m \in 1 .. n /\ m + (i - m) = i
      BY <1>2, <1>6
    <3>2. i <= m => i \in 1 .. m
      BY <1>2, <1>6
    <3>3. i > m \/ i <= m
      BY <1>2, <1>6
    <3> QED
      BY <1>6, <3>1, <3>2, <3>3
  <2>2. \A i, j \in 1 .. Len(t) : t[i] = t[j] => i = j
    <3> SUFFICES ASSUME NEW i \in 1 .. Len(t), NEW j \in 1 .. Len(t), t[i] = t[j]
                 PROVE  i = j
      OBVIOUS
    <3>1. CASE i \in 1 .. m /\ t[i] = s[i]
      <4>1. j \in 1 .. m /\ t[j] = s[j]
        BY <1>7, <2>1, <3>1
      <4> QED
        BY <1>1, <3>1, <4>1 DEF IsRow
    <3>2. CASE i - m \in 1 .. n /\ t[i] = new[i - m]
      <4>1. j - m \in 1 .. n /\ t[j] = new[j - m]
        BY <1>7, <2>1, <3>2
      <4>2. i - m = j - m
        BY <3>2, <4>1
      <4> QED
        BY <4>2, <1>2, <1>6
    <3> QED
      BY <2>1, <3>1, <3>2
  <2>3. \A i \in 1 .. Len(t) - 1 : after[t[i]] = t[i + 1]
    <3> SUFFICES ASSUME NEW i \in 1 .. Len(t) - 1
                 PROVE  after[t[i]] = t[i + 1]
      OBVIOUS
    <3>1. CASE i < m
      <4>1. i \in 1 .. m - 1 /\ i \in 1 .. m /\ i + 1 \in 1 .. m
        BY <1>2, <3>1
      <4> QED
        BY <1>6, <1>14, <4>1
    <3>2. CASE i = m
      <4>1. m \in 1 .. m /\ 1 \in 1 .. n
        BY <1>2
      <4>2. t[m] = s[m] /\ t[m + 1] = new[1]
        BY <1>6, <4>1
      <4> QED
        BY <1>10, <3>2, <4>2
    <3>3. CASE i > m
      <4>1. i - m \in 1 .. n
        BY <1>2, <1>6, <3>3
      <4>2. PICK k \in 1 .. n : k = i - m
        BY <4>1
      <4>3. k # n /\ k + 1 \in 1 .. n /\ i = m + k /\ i + 1 = m + (k + 1)
        BY <1>2, <1>6, <4>2
      <4>4. t[i] = new[k] /\ t[i + 1] = new[k + 1]
        BY <1>6, <4>2, <4>3
      <4> QED
        BY <1>11, <4>2, <4>3, <4>4
    <3> QED
      BY <1>2, <1>6, <3>1, <3>2, <3>3
  <2>4. after[t[Len(t)]] = CLUSTER_EOF
    <3>1. n \in 1 .. n
      BY <1>2
    <3> QED
      BY <1>6, <1>11, <3>1
  <2> QED
    BY <1>6, <2>2, <2>3, <2>4, GeometryAssumption DEF IsRow
<1>16. \A c \in Clusters : Has(t, c) => Has(s, c) \/ table[c] = CLUSTER_FREE
  BY <1>13 DEF Has
<1>17. \A c \in Clusters : ~Has(s, c) /\ ~Has(t, c) => after[c] = table[c]
  <2>1. Has(s, s[m])
    BY <1>2 DEF Has
  <2> QED
    BY <1>9, <1>12, <1>13, <2>1
<1>18. \A c \in Clusters : Has(t, c) => after[c] # CLUSTER_FREE
  <2> SUFFICES ASSUME NEW i \in 1 .. Len(t)
               PROVE  after[t[i]] # CLUSTER_FREE
    BY DEF Has
  <2>1. CASE i = Len(t)
    <3>1. n \in 1 .. n
      BY <1>2
    <3> QED
      BY <1>6, <1>11, <2>1, <3>1, GeometryAssumption
  <2>2. CASE i # Len(t)
    <3>1. i \in 1 .. Len(t) - 1 /\ i + 1 \in 1 .. Len(t)
      BY <1>2, <1>6, <2>2
    <3>2. t[i + 1] \in Clusters
      BY <1>6, <3>1
    <3> QED
      BY <1>15, <3>1, <3>2, GeometryAssumption DEF IsRow
  <2> QED
    BY <2>1, <2>2
<1>19. \A c \in Clusters : Has(s, c) => Has(t, c)
  BY <1>13
<1>20. Fits(after, With(r, f, t))
  BY <1>9, <1>15, <1>16, <1>17, <1>18, <1>19, FitsWith
<1> QED
  BY <1>20 DEF after, z, t

(* A free cluster makes a row. *)
LEMMA FitsStarted ==
  ASSUME NEW table, NEW r, Fits(table, r), NEW f \in Files, r[f] = <<>>,
         NEW c \in Clusters, table[c] = CLUSTER_FREE
  PROVE  Fits(Linked(table, <<c>>), With(r, f, <<c>>))
<1> DEFINE s == <<c>>
           after == Linked(table, s)
<1>1. s \in Seq(Clusters) /\ Len(s) = 1 /\ s[1] = c /\ s # <<>>
  OBVIOUS
<1>2. table \in Tables
  BY DEF Fits
<1> HIDE DEF s
<1>3. \A d : Has(s, d) <=> d = c
  BY <1>1 DEF Has
<1>4. \A i, j \in 1 .. Len(s) : s[i] = s[j] => i = j
  BY <1>1
<1>5. /\ after \in Tables
      /\ \A i \in 1 .. Len(s) : after[s[i]] = (IF i = Len(s) THEN CLUSTER_EOF ELSE s[i + 1])
      /\ \A d \in Clusters : ~Has(s, d) => after[d] = table[d]
  BY <1>1, <1>2, <1>4, LinkedIs
<1> HIDE DEF after
<1>6. after[c] = CLUSTER_EOF
  BY <1>1, <1>5
<1>7. IsRow(after, s)
  BY <1>1, <1>4, <1>6, GeometryAssumption DEF IsRow
<1>8. \A d : ~Has(r[f], d)
  BY DEF Has
<1>9. Fits(after, With(r, f, s))
  BY <1>3, <1>5, <1>6, <1>7, <1>8, FitsWith, GeometryAssumption
<1> QED
  BY <1>9 DEF after, s

LEMMA InChain ==
  ASSUME NEW s \in Seq(Clusters)
  PROVE  \A c : c \in ToSet(s) <=> Has(s, c)
BY DEF ToSet, Has

(* What is cleared from the start of a row on is the row. *)
LEMMA FitsCleared ==
  ASSUME NEW table, NEW r, Fits(table, r), NEW f \in Files, NEW c, BeginsWith(r[f], c)
  PROVE  Fits(Cleared(table, c), With(r, f, <<>>))
<1> DEFINE s == r[f]
           after == Cleared(table, c)
<1>1. table \in Tables /\ IsRow(table, s)
  BY DEF Fits
<1>2. Chain(table, c) = s /\ s \in Seq(Clusters)
  BY <1>1, ChainIs, RowIs
<1>3. \A d \in Clusters : after[d] = IF Has(s, d) THEN CLUSTER_FREE ELSE table[d]
  BY <1>2, InChain DEF Cleared
<1>4. after = [d \in Clusters |-> after[d]]
  BY DEF Cleared
<1> HIDE DEF after
<1>5. after \in Tables
  BY <1>1, <1>3, <1>4 DEF Tables
<1>6. IsRow(after, <<>>) /\ \A d : ~Has(<<>>, d)
  BY DEF IsRow, Has
<1>7. Fits(after, With(r, f, <<>>))
  BY <1>3, <1>5, <1>6, FitsWith
<1> QED
  BY <1>7 DEF after

(* A row that is cut keeps its beginning. *)
LEMMA FitsTrimmed ==
  ASSUME NEW table, NEW r, Fits(table, r), NEW f \in Files, NEW n \in 1 .. Len(r[f])
  PROVE  Fits(Trimmed(table, r[f][1], n), With(r, f, SubSeq(r[f], 1, n)))
<1> DEFINE s == r[f]
           t == SubSeq(s, 1, n)
<1>1. table \in Tables /\ IsRow(table, s)
  BY DEF Fits
<1>2. s \in Seq(Clusters) /\ Len(s) \in Nat \ {0} /\ s # <<>>
  BY <1>1, RowIs
<1>3. Chain(table, s[1]) = s
  BY <1>1, <1>2, ChainIs DEF BeginsWith
<1>4. CASE n >= Len(s)
  <2>1. t = s
    BY <1>2, <1>4
  <2>2. Trimmed(table, s[1], n) = table
    BY <1>3, <1>4 DEF Trimmed
  <2>3. With(r, f, s) = r
    <3>1. r = [g \in Files |-> r[g]]
      BY DEF Fits
    <3> QED
      BY <3>1 DEF With
  <2> QED
    BY <2>1, <2>2, <2>3
<1>5. CASE n < Len(s)
  <2> DEFINE z == <<s[n]>>
             cut == Cleared(table, s[n + 1])
             after == Linked(cut, z)
  <2>1. Trimmed(table, s[1], n) = after
    BY <1>2, <1>3, <1>5 DEF Trimmed
  <2>2. n + 1 \in 1 .. Len(s)
    BY <1>2, <1>5
  <2>3. Chain(table, s[n + 1]) = SubSeq(s, n + 1, Len(s))
    BY <1>1, <2>2, TailIs
  <2>4. /\ SubSeq(s, n + 1, Len(s)) \in Seq(Clusters)
        /\ \A d : Has(SubSeq(s, n + 1, Len(s)), d) <=> \E i \in n + 1 .. Len(s) : s[i] = d
    <3> DEFINE u == SubSeq(s, n + 1, Len(s))
    <3>1. /\ u \in Seq(Clusters) /\ Len(u) = Len(s) - n
          /\ \A k \in 1 .. Len(s) - n : u[k] = s[n + k]
      BY <1>2, <2>2
    <3> HIDE DEF u
    <3>2. ASSUME NEW i \in n + 1 .. Len(s)
          PROVE  Has(u, s[i])
      <4>1. i - n \in 1 .. Len(u) /\ n + (i - n) = i
        BY <1>2, <3>1
      <4>2. u[i - n] = s[i]
        BY <3>1, <4>1
      <4> QED
        BY <4>1, <4>2 DEF Has
    <3>3. ASSUME NEW k \in 1 .. Len(u)
          PROVE  \E i \in n + 1 .. Len(s) : s[i] = u[k]
      <4>1. n + k \in n + 1 .. Len(s) /\ u[k] = s[n + k]
        BY <1>2, <3>1
      <4> QED
        BY <4>1
    <3>4. \A d : Has(u, d) <=> \E i \in n + 1 .. Len(s) : s[i] = d
      BY <3>2, <3>3 DEF Has
    <3> QED
      BY <3>1, <3>4 DEF u
  <2>5. /\ cut = [d \in Clusters |-> cut[d]]
        /\ \A d \in Clusters :
             cut[d] = IF \E i \in n + 1 .. Len(s) : s[i] = d THEN CLUSTER_FREE ELSE table[d]
    BY <2>3, <2>4, InChain DEF Cleared
  <2> HIDE DEF cut
  <2>6. cut \in Tables
    <3>1. \A d \in Clusters : cut[d] \in Clusters \cup {CLUSTER_FREE, CLUSTER_EOF}
      BY <1>1, <2>5 DEF Tables
    <3> QED
      BY <2>5, <3>1 DEF Tables
  <2>7. z \in Seq(Clusters) /\ Len(z) = 1 /\ z[1] = s[n]
    BY <1>2
  <2> HIDE DEF z
  <2>8. /\ after \in Tables /\ after[s[n]] = CLUSTER_EOF
        /\ \A d \in Clusters : d # s[n] => after[d] = cut[d]
    <3>1. \A i, j \in 1 .. Len(z) : z[i] = z[j] => i = j
      BY <2>7
    <3>2. \A d : Has(z, d) <=> d = s[n]
      BY <2>7 DEF Has
    <3>3. /\ after \in Tables
          /\ \A i \in 1 .. Len(z) : after[z[i]] = (IF i = Len(z) THEN CLUSTER_EOF ELSE z[i + 1])
          /\ \A d \in Clusters : ~Has(z, d) => after[d] = cut[d]
      BY <2>6, <2>7, <3>1, LinkedIs
    <3> HIDE DEF after
    <3> QED
      BY <2>7, <3>2, <3>3
  <2> HIDE DEF after
  <2>9. /\ t \in Seq(Clusters) /\ Len(t) = n /\ t # <<>>
        /\ \A i \in 1 .. n : i \in 1 .. Len(s) /\ t[i] = s[i]
    BY <1>2, <1>5
  <2> HIDE DEF t
  <2>10. ASSUME NEW i \in 1 .. n
         PROVE  /\ ~ \E k \in n + 1 .. Len(s) : s[k] = s[i]
                /\ s[i] \in Clusters /\ Has(s, s[i]) /\ cut[s[i]] = table[s[i]]
    <3>1. ASSUME NEW k \in n + 1 .. Len(s), s[k] = s[i]
          PROVE  FALSE
      <4>1. k \in 1 .. Len(s) /\ i \in 1 .. Len(s) /\ k # i
        BY <1>2, <1>5
      <4> QED
        BY <1>1, <3>1, <4>1 DEF IsRow
    <3>2. s[i] \in Clusters /\ Has(s, s[i])
      BY <1>1, <2>9, RowIs
    <3> QED
      BY <2>5, <3>1, <3>2
  <2>11. n \in 1 .. n /\ n \in Nat
    BY <1>2
  <2>12. \A i \in 1 .. n - 1 : i \in 1 .. n /\ i + 1 \in 1 .. n /\ s[i] # s[n] /\ table[s[i]] = s[i + 1]
    <3> SUFFICES ASSUME NEW i \in 1 .. n - 1
                 PROVE  i \in 1 .. n /\ i + 1 \in 1 .. n /\ s[i] # s[n] /\ table[s[i]] = s[i + 1]
      OBVIOUS
    <3>1. i \in 1 .. n /\ i + 1 \in 1 .. n /\ i \in 1 .. Len(s) - 1 /\ i \in 1 .. Len(s) /\ i # n
      BY <1>2, <1>5, <2>11
    <3>2. s[i] # s[n]
      BY <1>1, <3>1 DEF IsRow
    <3> QED
      BY <1>1, <3>1, <3>2 DEF IsRow
  <2>13. IsRow(after, t)
    <3>1. \A i, j \in 1 .. n : s[i] = s[j] => i = j
      BY <1>1, <2>9 DEF IsRow
    <3>2. \A i \in 1 .. n - 1 : after[s[i]] = s[i + 1]
      BY <2>8, <2>10, <2>12
    <3>3. \A i \in 1 .. n - 1 : after[t[i]] = t[i + 1]
      BY <2>9, <2>12, <3>2
    <3>4. \A i, j \in 1 .. n : t[i] = t[j] => i = j
      BY <2>9, <3>1
    <3>5. after[t[n]] \notin Clusters
      BY <2>8, <2>9, <2>11, GeometryAssumption
    <3> QED
      BY <2>9, <3>3, <3>4, <3>5 DEF IsRow
  <2>14. \A d : Has(t, d) <=> \E i \in 1 .. n : s[i] = d
    BY <2>9 DEF Has
  <2>15. \A d \in Clusters : Has(t, d) => Has(s, d)
    BY <2>10, <2>14
  <2>16. \A d \in Clusters : ~Has(s, d) /\ ~Has(t, d) => after[d] = table[d]
    <3> SUFFICES ASSUME NEW d \in Clusters, ~Has(s, d)
                 PROVE  after[d] = table[d]
      OBVIOUS
    <3>1. d # s[n]
      BY <2>10, <2>11
    <3>2. ~ \E i \in n + 1 .. Len(s) : s[i] = d
      <4>1. \A i \in n + 1 .. Len(s) : i \in 1 .. Len(s)
        BY <1>2
      <4> QED
        BY <4>1 DEF Has
    <3> QED
      BY <2>5, <2>8, <3>1, <3>2
  <2>17. \A d \in Clusters : Has(t, d) => after[d] # CLUSTER_FREE
    <3> SUFFICES ASSUME NEW i \in 1 .. n
                 PROVE  after[s[i]] # CLUSTER_FREE
      BY <2>14
    <3>1. CASE s[i] = s[n]
      BY <2>8, <3>1, GeometryAssumption
    <3>2. CASE s[i] # s[n]
      <4>1. after[s[i]] = table[s[i]]
        BY <2>8, <2>10, <3>2
      <4>2. table[s[i]] # CLUSTER_FREE
        BY <2>10 DEF Fits
      <4> QED
        BY <4>1, <4>2
    <3> QED
      BY <3>1, <3>2
  <2>18. \A d \in Clusters : Has(s, d) /\ ~Has(t, d) => after[d] = CLUSTER_FREE
    <3> SUFFICES ASSUME NEW i \in 1 .. Len(s), ~Has(t, s[i])
                 PROVE  after[s[i]] = CLUSTER_FREE
      BY DEF Has
    <3>1. i \notin 1 .. n
      BY <2>14
    <3>2. i \in n + 1 .. Len(s)
      BY <1>2, <2>11, <3>1
    <3>3. s[i] # s[n]
      BY <2>10, <2>11, <3>2
    <3>4. s[i] \in Clusters
      BY <1>2
    <3> QED
      BY <2>5, <2>8, <3>2, <3>3, <3>4
  <2>19. Fits(after, With(r, f, t))
    BY <2>8, <2>13, <2>15, <2>16, <2>17, <2>18, FitsWith
  <2> QED
    BY <2>1, <2>19 DEF t
<1> QED
  BY <1>2, <1>4, <1>5

-----------------------------------------------------------------------------
(* Positions. *)

bpc == bytesPerCluster

LEMMA GeometryIs == bpc \in Nat \ {0}
BY GeometryAssumption DEF bpc, bytesPerCluster

(* p stands for the byte n of the file with the row s. *)
Stands(p, n, s) ==
  \E i \in 1 .. Len(s) :
    /\ n - (i - 1) * bpc \in 0 .. bpc
    /\ p = At(s[i], n - (i - 1) * bpc)

(* n counts the bytes of j whole clusters and k more. *)
LEMMA Shifted ==
  ASSUME NEW j \in Nat, NEW k \in Nat
  PROVE  /\ j * bpc \in Nat /\ j * bpc + k \in Nat /\ k \div bpc \in Nat /\ k % bpc \in 0 .. bpc - 1
         /\ (j * bpc + k) \div bpc = j + (k \div bpc)
         /\ (j * bpc + k) % bpc = k % bpc
<1> DEFINE q == k \div bpc
           r == k % bpc
<1>1. q \in Nat /\ r \in 0 .. bpc - 1 /\ k = q * bpc + r
  BY GeometryIs, DivMod
<1> HIDE DEF q, r
<1>2. j * bpc \in Nat /\ q * bpc \in Nat /\ (j + q) * bpc = j * bpc + q * bpc
  BY <1>1, GeometryIs, Multiples
<1>3. ((j + q) * bpc + r) \div bpc = j + q /\ ((j + q) * bpc + r) % bpc = r
  BY <1>1, GeometryIs, Quotient
<1>4. (j + q) * bpc + r = j * bpc + k
  BY <1>1, <1>2, GeometryIs
<1> QED
  BY <1>1, <1>2, <1>3, <1>4, GeometryIs DEF q, r

(* A byte of the first m clusters is in one of them. *)
LEMMA Within ==
  ASSUME NEW k \in Nat, NEW m \in Nat, k < m * bpc
  PROVE  k \div bpc \in Nat /\ k \div bpc < m /\ k % bpc \in 0 .. bpc - 1
<1> DEFINE q == k \div bpc
<1>1. q \in Nat /\ k % bpc \in 0 .. bpc - 1 /\ k = q * bpc + (k % bpc)
  BY GeometryIs, DivMod
<1> HIDE DEF q
<1>2. m <= q => m * bpc <= q * bpc
  BY <1>1, GeometryIs, Multiples
<1>3. m * bpc \in Nat /\ q * bpc \in Nat
  BY <1>1, GeometryIs
<1>4. ~(m <= q)
  BY <1>1, <1>2, <1>3, GeometryIs
<1> QED
  BY <1>1, <1>4 DEF q

LEMMA StandsIs ==
  ASSUME NEW f \in Files, NEW p, NEW n \in Nat, ClustersOf(f) \in Seq(Clusters)
  PROVE  StandsFor(p, n, f) <=> Stands(p, n, ClustersOf(f))
<1> DEFINE s == ClustersOf(f)
           q == n \div bpc
           r == n % bpc
<1>1. s \in Seq(Clusters) /\ Len(s) \in Nat
  OBVIOUS
<1> HIDE DEF s
<1>2. q \in Nat /\ r \in 0 .. bpc - 1 /\ n = q * bpc + r
  BY GeometryIs, DivMod
<1>3. StandsFor(p, n, f) <=>
        \/ q < Len(s) /\ p = At(s[q + 1], r)
        \/ n > 0 /\ r = 0 /\ q <= Len(s) /\ p = At(s[q], bpc)
  BY DEF StandsFor, s, bpc
<1> HIDE DEF q, r
<1>4. ASSUME q < Len(s), p = At(s[q + 1], r)
      PROVE  Stands(p, n, s)
  <2>1. PICK i \in 1 .. Len(s) : i = q + 1
    BY <1>1, <1>2, <1>4
  <2>2. i - 1 = q
    BY <1>2, <2>1
  <2>3. q * bpc \in Nat
    BY <1>2, GeometryIs
  <2>4. n - q * bpc = r /\ r \in 0 .. bpc
    BY <1>2, <2>3, GeometryIs
  <2> QED
    BY <1>4, <2>1, <2>2, <2>4 DEF Stands
<1>5. ASSUME n > 0, r = 0, q <= Len(s), p = At(s[q], bpc)
      PROVE  Stands(p, n, s)
  <2>1. q * bpc = n
    BY <1>2, <1>5, GeometryIs
  <2>2. q # 0
    BY <1>2, <1>5, <2>1, GeometryIs
  <2>3. PICK i \in 1 .. Len(s) : i = q
    BY <1>1, <1>2, <1>5, <2>2
  <2>4. (i - 1) * bpc = q * bpc - bpc
    BY <1>2, <2>3, GeometryIs, Multiples
  <2>5. n - (i - 1) * bpc = bpc /\ bpc \in 0 .. bpc
    BY <2>1, <2>4, GeometryIs
  <2> QED
    BY <1>5, <2>3, <2>5 DEF Stands
<1>6. ASSUME NEW i \in 1 .. Len(s), n - (i - 1) * bpc \in 0 .. bpc, p = At(s[i], n - (i - 1) * bpc)
      PROVE  \/ q < Len(s) /\ p = At(s[q + 1], r)
             \/ n > 0 /\ r = 0 /\ q <= Len(s) /\ p = At(s[q], bpc)
  <2>1. PICK j \in Nat : j = i - 1
    BY <1>1
  <2>2. j * bpc \in Nat
    BY <2>1, GeometryIs
  <2>3. PICK o \in 0 .. bpc : o = n - (i - 1) * bpc
    BY <1>6
  <2>4. n = j * bpc + o
    BY <2>1, <2>2, <2>3, GeometryIs
  <2>5. CASE o < bpc
    <3>1. o \in 0 .. bpc - 1
      BY <2>3, <2>5, GeometryIs
    <3>2. q = j /\ r = o
      BY <2>4, <3>1, GeometryIs, Quotient DEF q, r
    <3>3. q + 1 = i /\ q < Len(s)
      BY <1>1, <2>1, <3>2
    <3> QED
      BY <1>6, <2>3, <3>2, <3>3
  <2>6. CASE o = bpc
    <3>1. (j + 1) * bpc = j * bpc + bpc
      BY <2>1, GeometryIs, Multiples
    <3>2. n = (j + 1) * bpc + 0 /\ 0 \in 0 .. bpc - 1 /\ n > 0
      BY <2>2, <2>4, <2>6, <3>1, GeometryIs
    <3>3. j + 1 \in Nat
      BY <2>1
    <3>4. q = j + 1 /\ r = 0
      BY <3>2, <3>3, GeometryIs, Quotient DEF q, r
    <3>5. q = i /\ q <= Len(s)
      BY <1>1, <2>1, <3>4
    <3> QED
      BY <1>6, <2>3, <2>6, <3>2, <3>4, <3>5
  <2> QED
    BY <2>3, <2>5, <2>6, GeometryIs
<1>7. StandsFor(p, n, f) <=> Stands(p, n, s)
  BY <1>3, <1>4, <1>5, <1>6 DEF Stands
<1> QED
  BY <1>7 DEF s

(* The position after some bytes of a row that were reached from its i-th  *)
(* cluster.                                                                *)
LEMMA AfterStands ==
  ASSUME NEW s \in Seq(Clusters), NEW i \in 1 .. Len(s), NEW end \in Nat \ {0},
         end <= (Len(s) - i + 1) * bpc
  PROVE  Stands(After(SubSeq(s, i, Len(s)), end), (i - 1) * bpc + end, s)
<1> DEFINE t == SubSeq(s, i, Len(s))
           q == (end - 1) \div bpc
           r == (end - 1) % bpc
           m == Len(s) - i + 1
<1>1. m \in Nat /\ Len(s) \in Nat
  OBVIOUS
<1>2. \A k \in 1 .. m : t[k] = s[i + k - 1]
  OBVIOUS
<1> HIDE DEF t
<1>3. q \in Nat /\ r \in 0 .. bpc - 1 /\ end - 1 = q * bpc + r
  <2>1. end - 1 \in Nat
    OBVIOUS
  <2> QED
    BY <2>1, GeometryIs, DivMod
<1>4. m * bpc \in Nat
  BY <1>1, GeometryIs
<1>5. q < m
  <2>1. end - 1 \in Nat /\ end - 1 < m * bpc
    BY <1>4
  <2> QED
    BY <1>1, <2>1, Within
<1>6. After(t, end) = At(t[q + 1], r + 1)
  BY DEF After, bpc
<1> HIDE DEF q, r
<1>7. PICK j \in 1 .. Len(s) : j = i + q
  BY <1>1, <1>3, <1>5
<1>8. q + 1 \in 1 .. m /\ i + (q + 1) - 1 = j
  BY <1>1, <1>3, <1>5, <1>7
<1>9. t[q + 1] = s[j]
  BY <1>2, <1>8
<1>10. (j - 1) * bpc = (i - 1) * bpc + q * bpc
  <2>1. j - 1 = (i - 1) + q
    BY <1>3, <1>7
  <2>2. i - 1 \in Int /\ q \in Int
    BY <1>3
  <2> QED
    BY <2>1, <2>2, GeometryIs, Multiples
<1>11. (i - 1) * bpc \in Int /\ q * bpc \in Int
  BY <1>3, GeometryIs
<1>12. Stands(After(t, end), (i - 1) * bpc + end, s)
  <2>1. PICK z \in Int : z = (i - 1) * bpc + end
    BY <1>11
  <2>2. z - (j - 1) * bpc = r + 1 /\ z - (j - 1) * bpc \in 0 .. bpc
    BY <1>3, <1>10, <1>11, <2>1, GeometryIs
  <2>3. After(t, end) = At(s[j], z - (j - 1) * bpc)
    BY <1>6, <1>9, <2>2
  <2>4. Stands(After(t, end), z, s)
    BY <1>7, <2>2, <2>3 DEF Stands
  <2> QED
    BY <2>1, <2>4
<1> QED
  BY <1>12 DEF t

(* Storing bytes along the end of a row is storing them in the row. *)
LEMMA FilledAlong ==
  ASSUME NEW s \in Seq(Clusters), NEW i \in 1 .. Len(s), NEW o \in 0 .. bpc, NEW m \in Nat,
         o + m <= (Len(s) - i + 1) * bpc, NEW bytes, NEW x
  PROVE  Filled(bytes, SubSeq(s, i, Len(s)), o, o + m - 1, x) =
         Filled(bytes, s, (i - 1) * bpc + o, (i - 1) * bpc + o + m - 1, x)
<1> DEFINE t == SubSeq(s, i, Len(s))
           n == Len(s) - i + 1
           j == i - 1
           P(c, y, k) == t[k \div bpc + 1] = c /\ k % bpc = y
           Q(c, y, k) == s[k \div bpc + 1] = c /\ k % bpc = y
           InT(c, y) == \E k \in o .. o + m - 1 : P(c, y, k)
           InS(c, y) == \E k \in j * bpc + o .. j * bpc + o + m - 1 : Q(c, y, k)
<1>1. n \in Nat /\ Len(s) \in Nat /\ j \in Nat
  OBVIOUS
<1>2. \A k \in 1 .. n : t[k] = s[j + k]
  OBVIOUS
<1>3. j * bpc \in Nat /\ n * bpc \in Nat /\ o \in Nat
  BY <1>1, GeometryIs
<1>4. ASSUME NEW c, NEW y, NEW k \in o .. o + m - 1
      PROVE  P(c, y, k) <=> Q(c, y, j * bpc + k)
  <2>1. k \in Nat /\ k < n * bpc
    BY <1>3
  <2>2. k \div bpc \in Nat /\ k \div bpc < n
    BY <1>1, <2>1, Within
  <2>3. (j * bpc + k) \div bpc = j + (k \div bpc) /\ (j * bpc + k) % bpc = k % bpc
    BY <1>1, <2>1, Shifted
  <2>4. t[k \div bpc + 1] = s[j + (k \div bpc + 1)]
    <3>1. PICK q \in Nat : q = k \div bpc
      BY <2>2
    <3>2. q + 1 \in 1 .. n
      BY <1>1, <2>2, <3>1
    <3>3. t[q + 1] = s[j + (q + 1)]
      BY <1>2, <3>2
    <3> QED
      BY <3>1, <3>3
  <2>5. j + (k \div bpc + 1) = j + (k \div bpc) + 1
    BY <1>1, <2>2
  <2> QED
    BY <2>3, <2>4, <2>5
<1> HIDE DEF P, Q
<1>5. ASSUME NEW c, NEW y
      PROVE  InT(c, y) <=> InS(c, y)
  <2>1. ASSUME NEW k \in o .. o + m - 1, P(c, y, k)
        PROVE  InS(c, y)
    <3>1. j * bpc + k \in j * bpc + o .. j * bpc + o + m - 1
      BY <1>3
    <3> QED
      BY <1>4, <2>1, <3>1
  <2>2. ASSUME NEW k \in j * bpc + o .. j * bpc + o + m - 1, Q(c, y, k)
        PROVE  InT(c, y)
    <3>1. k - j * bpc \in o .. o + m - 1 /\ j * bpc + (k - j * bpc) = k
      BY <1>3
    <3>2. P(c, y, k - j * bpc)
      BY <1>4, <2>2, <3>1
    <3> QED
      BY <3>1, <3>2
  <2> QED
    BY <2>1, <2>2
<1>6. Filled(bytes, t, o, o + m - 1, x) =
        [c \in Clusters |-> [y \in 0 .. bpc - 1 |-> IF InT(c, y) THEN x ELSE bytes[c][y]]]
  BY DEF Filled, bpc, P
<1>7. Filled(bytes, s, j * bpc + o, j * bpc + o + m - 1, x) =
        [c \in Clusters |-> [y \in 0 .. bpc - 1 |-> IF InS(c, y) THEN x ELSE bytes[c][y]]]
  BY DEF Filled, bpc, Q
<1> HIDE DEF InT, InS
<1> QED
  BY <1>5, <1>6, <1>7

-----------------------------------------------------------------------------
(* Writing and extending. *)

LEMMA FreeCount ==
  ASSUME NEW table
  PROVE  Cardinality(FreeIn(table)) \in Nat
BY GeometryAssumption, FS_Subset, FS_CardinalityType DEF FreeIn

LEMMA TakenIs ==
  ASSUME NEW table, NEW n \in Nat, NEW new \in Taken(table, n)
  PROVE  /\ new \in Seq(Clusters) /\ Len(new) = n
         /\ \A i, j \in 1 .. Len(new) : new[i] = new[j] => i = j
         /\ \A i \in 1 .. Len(new) : table[new[i]] = CLUSTER_FREE
<1>1. new \in [1 .. n -> FreeIn(table)] /\ \A i, j \in 1 .. n : i # j => new[i] # new[j]
  BY DEF Taken
<1>2. new \in Seq(FreeIn(table)) /\ Len(new) = n
  BY <1>1
<1>3. \A i \in 1 .. n : new[i] \in Clusters /\ table[new[i]] = CLUSTER_FREE
  BY <1>1 DEF FreeIn
<1>4. FreeIn(table) \subseteq Clusters
  BY DEF FreeIn
<1>5. new \in Seq(Clusters)
  BY <1>1, <1>2, <1>3
<1> QED
  BY <1>1, <1>2, <1>3, <1>5

LEMMA WithSame ==
  ASSUME NEW r, r = [g \in Files |-> r[g]], NEW f \in Files
  PROVE  With(r, f, r[f]) = r
BY DEF With

(* The end of a row that is prolonged. *)
LEMMA Prolonged ==
  ASSUME NEW s \in Seq(Clusters), NEW i \in 1 .. Len(s), NEW new \in Seq(Clusters)
  PROVE  LET t == s \o new IN
         /\ t \in Seq(Clusters) /\ Len(t) = Len(s) + Len(new)
         /\ \A k \in 1 .. Len(s) : t[k] = s[k]
         /\ SubSeq(s, i, Len(s)) \o new = SubSeq(t, i, Len(t))
         /\ Len(SubSeq(s, i, Len(s)) \o new) = Len(t) - i + 1
<1> DEFINE t == s \o new
           u == SubSeq(s, i, Len(s))
           w == SubSeq(t, i, Len(t))
<1>1. PICK l \in Nat, m \in Nat : l = Len(s) /\ m = Len(new)
  OBVIOUS
<1>2. /\ t \in Seq(Clusters) /\ Len(t) = l + m
      /\ \A k \in 1 .. l : t[k] = s[k]
      /\ \A k \in 1 .. m : t[l + k] = new[k]
  BY <1>1
<1>3. i \in 1 .. l
  BY <1>1
<1>4. PICK h \in Nat : h = l - i + 1
  BY <1>1, <1>3
<1>5. u \in Seq(Clusters) /\ Len(u) = h /\ \A k \in 1 .. h : u[k] = s[i + k - 1]
  BY <1>1, <1>3, <1>4
<1> HIDE DEF u
<1>6. /\ u \o new \in Seq(Clusters) /\ Len(u \o new) = h + m
      /\ \A k \in 1 .. h : (u \o new)[k] = u[k]
      /\ \A k \in 1 .. m : (u \o new)[h + k] = new[k]
  <2>1. u \in Seq(Clusters) /\ Len(u) = h
    BY <1>5
  <2> QED
    BY <1>1, <2>1
<1>7. i \in 1 .. Len(t) /\ Len(t) - i + 1 = h + m
  BY <1>1, <1>2, <1>3, <1>4
<1> HIDE DEF t
<1>8. w \in Seq(Clusters) /\ Len(w) = h + m /\ \A k \in 1 .. h + m : w[k] = t[i + k - 1]
  BY <1>2, <1>7
<1>9. ASSUME NEW k \in 1 .. h + m
      PROVE  w[k] = (u \o new)[k]
  <2>1. w[k] = t[i + k - 1]
    BY <1>8
  <2>2. CASE k <= h
    <3>1. k \in 1 .. h /\ i + k - 1 \in 1 .. l
      BY <1>1, <1>3, <1>4, <2>2
    <3> QED
      BY <1>2, <1>5, <1>6, <2>1, <3>1
  <2>3. CASE k > h
    <3>1. k - h \in 1 .. m
      BY <1>1, <1>4, <2>3
    <3>2. l + (k - h) = i + k - 1 /\ h + (k - h) = k
      BY <1>1, <1>3, <1>4
    <3> QED
      BY <1>2, <1>6, <2>1, <3>1, <3>2
  <2>4. k <= h \/ k > h
    BY <1>1, <1>4
  <2> QED
    BY <2>2, <2>3, <2>4
<1> HIDE DEF w
<1>10. w = u \o new
  <2> DEFINE joined == u \o new
  <2>1. /\ joined \in Seq(Clusters) /\ Len(joined) = h + m
        /\ \A k \in 1 .. h + m : w[k] = joined[k]
    BY <1>6, <1>9
  <2> HIDE DEF joined
  <2>2. Len(w) = Len(joined) /\ \A k \in 1 .. Len(w) : w[k] = joined[k]
    BY <1>8, <2>1
  <2>3. w = joined
    BY <1>8, <2>1, <2>2
  <2> QED
    BY <2>3 DEF joined
<1>11. Len(u \o new) = Len(t) - i + 1
  BY <1>6, <1>7
<1> QED
  BY <1>1, <1>2, <1>10, <1>11 DEF t, u, w

(* How many clusters are linked for n bytes from p on, and the outcome if  *)
(* they are those of new.                                                  *)
Got(v, p, n) ==
  LET have == Chain(v.fat, p.cluster)
      more == (p.offset + n - 1) \div bytesPerCluster + 1 - Len(have)
  IN  IF more > 0 THEN Lesser(more, Cardinality(FreeIn(v.fat))) ELSE 0

Result(v, p, x, have, new, path, done) ==
  [volume |-> [fat  |-> IF new = <<>> THEN v.fat ELSE Linked(v.fat, <<Last(have)>> \o new),
               data |-> Filled(v.data, path, p.offset, (p.offset + done) - 1, x)],
   done   |-> done,
   at     |-> IF done = 0 THEN p ELSE After(path, p.offset + done)]

Outcome(v, p, n, x, new) ==
  LET have == Chain(v.fat, p.cluster)
      path == have \o new
  IN  Result(v, p, x, have, new, path, Lesser(n, Len(path) * bytesPerCluster - p.offset))

LEMMA OutcomeIs ==
  ASSUME NEW v, NEW p, NEW n, NEW x
  PROVE  Outcomes(v, p, n, x) = {Outcome(v, p, n, x, new) : new \in Taken(v.fat, Got(v, p, n))}
BY DEF Outcomes, Outcome, Got, Result

(* What has become of the volume v when out.done of n bytes x were stored  *)
(* from the byte q of the file f on, and its row, row before, is s.        *)
Stored(v, r, f, q, n, x, out, new, s) ==
  /\ Fits(out.volume.fat, With(r, f, s))
  /\ out.done \in 0 .. n /\ q + out.done <= Len(s) * bpc
  /\ out.done = n \/ q + out.done = Len(s) * bpc
  /\ new # <<>> => Len(s) * bpc < q + out.done + bpc
  /\ Stands(out.at, q + out.done, s)
  /\ out.volume.data = Filled(v.data, s, q, q + out.done - 1, x)

(* n bytes x are stored from a position on that stands for the byte q: as  *)
(* many of them as there is room for, in a row that takes no more clusters *)
(* than they need.                                                         *)
LEMMA OutcomesAre ==
  ASSUME NEW table, NEW r, Fits(table, r), NEW f \in Files,
         NEW v, v.fat = table, NEW p, NEW q \in Nat, Stands(p, q, r[f]),
         NEW n \in Nat \ {0}, NEW x, NEW out \in Outcomes(v, p, n, x)
  PROVE  \E new \in Seq(Clusters) : Stored(v, r, f, q, n, x, out, new, r[f] \o new)
<1> DEFINE s0 == r[f]
           l0 == Len(s0)
<1>1. IsRow(table, s0)
  BY DEF Fits
<1>2. s0 \in Seq(Clusters) /\ l0 \in Nat
  BY <1>1, RowIs
<1>3. PICK i \in 1 .. l0 : q - (i - 1) * bpc \in 0 .. bpc /\ p = At(s0[i], q - (i - 1) * bpc)
  BY DEF Stands
<1>4. PICK off \in 0 .. bpc : off = q - (i - 1) * bpc
  BY <1>3
<1>5. PICK j \in Nat : j = i - 1
  BY <1>2, <1>3
<1>6. j * bpc \in Nat /\ q = j * bpc + off /\ off \in Nat
  BY <1>4, <1>5, GeometryIs
<1>7. p.cluster = s0[i] /\ p.offset = off
  BY <1>3, <1>4 DEF At
<1> DEFINE have == Chain(v.fat, p.cluster)
           more == (p.offset + n - 1) \div bpc + 1 - Len(have)
           got == IF more > 0 THEN Lesser(more, Cardinality(FreeIn(v.fat))) ELSE 0
<1>8. PICK h \in Nat \ {0} : h = l0 - i + 1
  <2>1. l0 - i + 1 \in Nat \ {0}
    BY <1>2, <1>3
  <2> QED
    BY <2>1
<1>9. have = SubSeq(s0, i, l0)
  BY <1>1, <1>3, <1>7, TailIs
<1>10. have \in Seq(Clusters) /\ Len(have) = h /\ Last(have) = Last(s0)
  <2>1. /\ SubSeq(s0, i, l0) \in Seq(Clusters) /\ Len(SubSeq(s0, i, l0)) = h
        /\ \A k \in 1 .. h : SubSeq(s0, i, l0)[k] = s0[i + k - 1]
    BY <1>2, <1>3, <1>8
  <2>2. h \in 1 .. h /\ i + h - 1 = l0
    BY <1>2, <1>3, <1>8
  <2> QED
    BY <1>9, <2>1, <2>2 DEF Last
<1> DEFINE e == (off + n - 1) \div bpc
<1>11. e \in Nat /\ e * bpc <= off + n - 1 /\ more = e + 1 - h
  <2>1. PICK m \in Nat : m = off + n - 1
    BY <1>6
  <2>2. m \div bpc \in Nat /\ m % bpc \in 0 .. bpc - 1 /\ m = (m \div bpc) * bpc + (m % bpc)
    BY GeometryIs, DivMod
  <2>3. PICK d \in Nat : d = m \div bpc
    BY <2>2
  <2>4. d * bpc <= m
    <3>1. d * bpc \in Nat
      BY GeometryIs
    <3> QED
      BY <2>2, <2>3, <3>1, GeometryIs
  <2>5. more = e + 1 - h
    BY <1>7, <1>10 DEF bpc
  <2> QED
    BY <2>1, <2>3, <2>4, <2>5
<1> HIDE DEF have, e
<1>12. got \in Nat /\ (got >= 1 => h + got - 1 <= e)
  <2>1. Cardinality(FreeIn(v.fat)) \in Nat
    BY FreeCount
  <2>2. more \in Int
    BY <1>10, <1>11
  <2> HIDE DEF more
  <2> QED
    BY <1>10, <1>11, <2>1, <2>2 DEF Lesser
<1> HIDE DEF more
<1>13. PICK new \in Taken(v.fat, got) : out = Outcome(v, p, n, x, new)
  <2>1. got = Got(v, p, n)
    BY DEF Got, have, got, more, bpc
  <2> QED
    BY <2>1, OutcomeIs
<1> HIDE DEF got
<1>14. /\ new \in Seq(Clusters) /\ Len(new) = got
       /\ \A k, m \in 1 .. Len(new) : new[k] = new[m] => k = m
       /\ \A k \in 1 .. Len(new) : table[new[k]] = CLUSTER_FREE
  BY <1>12, <1>13, TakenIs
<1> DEFINE s == s0 \o new
<1>15. /\ s \in Seq(Clusters) /\ Len(s) = l0 + Len(new)
       /\ \A k \in 1 .. l0 : s[k] = s0[k]
       /\ have \o new = SubSeq(s, i, Len(s)) /\ Len(have \o new) = Len(s) - i + 1
  BY <1>2, <1>3, <1>9, <1>14, Prolonged
<1>16. PICK l \in Nat \ {0} : l = h + got
  BY <1>12
<1>17. /\ Len(s) = j + l /\ l = Len(s) - i + 1 /\ Len(s) \in Nat
       /\ i \in 1 .. Len(s) /\ s[i] = s0[i]
  BY <1>2, <1>3, <1>5, <1>12, <1>14, <1>15, <1>16, <1>8
<1> DEFINE path == SubSeq(s, i, Len(s))
           done == Lesser(n, l * bpc - off)
<1>18. /\ out.volume.fat = (IF new = <<>> THEN table ELSE Linked(table, <<Last(s0)>> \o new))
       /\ out.volume.data = Filled(v.data, path, off, (off + done) - 1, x)
       /\ out.done = done
       /\ out.at = IF done = 0 THEN p ELSE After(path, off + done)
  <2> HIDE DEF s
  <2>1. have \o new = path /\ Len(path) = l
    BY <1>15, <1>17
  <2> HIDE DEF path
  <2>2. Lesser(n, Len(have \o new) * bpc - p.offset) = done
    BY <1>7, <2>1
  <2> HIDE DEF done
  <2>3. out = Result(v, p, x, have, new, path, done)
    <3>1. have = Chain(v.fat, p.cluster)
      BY DEF have
    <3> QED
      BY <1>13, <2>1, <2>2, <3>1 DEF Outcome, bpc
  <2>4. /\ out.volume.fat = (IF new = <<>> THEN v.fat ELSE Linked(v.fat, <<Last(have)>> \o new))
        /\ out.volume.data = Filled(v.data, path, p.offset, (p.offset + done) - 1, x)
        /\ out.done = done
        /\ out.at = IF done = 0 THEN p ELSE After(path, p.offset + done)
    BY <2>3 DEF Result
  <2> QED
    BY <1>7, <1>10, <2>4
<1> HIDE DEF path, s
<1>19. PICK lb \in Nat : lb = l * bpc
  BY GeometryIs
<1>20. lb >= bpc
  <2>1. 1 * bpc <= l * bpc
    BY <1>16, GeometryIs, Multiples
  <2> QED
    BY <1>19, <2>1, GeometryIs
<1>21. done \in 0 .. n /\ off + done <= lb /\ (done < n => off + done = lb)
  <2>1. PICK y \in Nat : y = lb - off
    BY <1>4, <1>19, <1>20, GeometryIs
  <2>2. done = IF n < y THEN n ELSE y
    BY <1>19, <2>1 DEF Lesser
  <2> HIDE DEF done
  <2>3. n \in Nat
    OBVIOUS
  <2> QED
    BY <1>6, <1>19, <2>1, <2>2, <2>3
<1> HIDE DEF done
<1>22. Len(s) * bpc = j * bpc + lb
  <2>1. (j + l) * bpc = j * bpc + l * bpc
    BY <1>5, <1>16, GeometryIs, Multiples
  <2> QED
    BY <1>19, <1>17, <2>1
<1>23. q + done <= Len(s) * bpc /\ (done = n \/ q + done = Len(s) * bpc)
  BY <1>6, <1>19, <1>21, <1>22
<1>24. new # <<>> => Len(s) * bpc < q + done + bpc
  <2> SUFFICES ASSUME new # <<>>
               PROVE  Len(s) * bpc < q + done + bpc
    OBVIOUS
  <2>1. got >= 1
    BY <1>12, <1>14
  <2>2. l - 1 <= e
    BY <1>12, <1>16, <2>1
  <2>3. (l - 1) * bpc <= e * bpc /\ (l - 1) * bpc = lb - bpc
    <3>1. PICK m \in Nat : m = l - 1
      BY <1>16
    <3>2. m * bpc <= e * bpc
      BY <1>11, <2>2, <3>1, GeometryIs, Multiples
    <3>3. (l - 1) * bpc = l * bpc - bpc
      BY <1>16, GeometryIs, Multiples
    <3> QED
      BY <1>19, <3>1, <3>2, <3>3
  <2>4. e * bpc \in Nat
    BY <1>11, GeometryIs
  <2>5. lb < off + n + bpc
    BY <1>6, <1>11, <1>19, <2>3, <2>4, GeometryIs
  <2>6. lb < off + done + bpc
    BY <1>6, <1>19, <1>21, <2>5, GeometryIs
  <2> QED
    BY <1>6, <1>19, <1>21, <1>22, <2>6, GeometryIs
<1>25. Stands(out.at, q + done, s)
  <2>1. CASE done = 0
    <3>1. out.at = p /\ q + done = q
      BY <1>18, <2>1
    <3>2. Stands(p, q, s)
      BY <1>3, <1>17 DEF Stands
    <3> QED
      BY <3>1, <3>2
  <2>2. CASE done # 0
    <3>1. PICK end \in Nat \ {0} : end = off + done
      BY <1>6, <1>21, <2>2
    <3>2. end <= (Len(s) - i + 1) * bpc
      BY <1>19, <1>21, <1>17, <3>1
    <3>3. Stands(After(SubSeq(s, i, Len(s)), end), (i - 1) * bpc + end, s)
      BY <1>15, <1>17, <3>2, AfterStands
    <3>4. (i - 1) * bpc + end = q + done
      BY <1>5, <1>6, <1>21, <3>1
    <3> QED
      BY <1>18, <2>2, <3>1, <3>3, <3>4 DEF path
  <2> QED
    BY <2>1, <2>2
<1>26. out.volume.data = Filled(v.data, s, q, q + done - 1, x)
  <2>1. off + done <= (Len(s) - i + 1) * bpc /\ done \in Nat
    BY <1>19, <1>21, <1>17
  <2>2. PICK m \in Nat : m = done
    BY <2>1
  <2>3. Filled(v.data, SubSeq(s, i, Len(s)), off, off + m - 1, x) =
        Filled(v.data, s, (i - 1) * bpc + off, (i - 1) * bpc + off + m - 1, x)
    <3>1. s \in Seq(Clusters) /\ i \in 1 .. Len(s) /\ off \in 0 .. bpc
      BY <1>4, <1>15, <1>17
    <3>2. off + m <= (Len(s) - i + 1) * bpc
      BY <2>1, <2>2
    <3> QED
      BY <2>2, <3>1, <3>2, FilledAlong
  <2>4. (i - 1) * bpc + off = q
    BY <1>5, <1>6
  <2> QED
    BY <1>18, <2>3, <2>4, <2>2 DEF path
<1>27. Fits(out.volume.fat, With(r, f, s))
  <2>1. CASE new = <<>>
    <3>1. s = s0
      BY <1>2, <2>1 DEF s
    <3>2. With(r, f, s) = r
      BY <3>1, WithSame DEF Fits
    <3> QED
      BY <1>18, <2>1, <3>2
  <2>2. CASE new # <<>>
    <3>1. r[f] # <<>>
      BY <1>2, <1>3
    <3>2. Fits(Linked(table, <<Last(r[f])>> \o new), With(r, f, r[f] \o new))
      BY <1>14, <2>2, <3>1, FitsExtended
    <3> QED
      BY <1>18, <2>2, <3>2 DEF s
  <2> QED
    BY <2>1, <2>2
<1>28. Stored(v, r, f, q, n, x, out, new, s)
  BY <1>18, <1>21, <1>23, <1>24, <1>25, <1>26, <1>27 DEF Stored
<1> QED
  BY <1>14, <1>28 DEF s

-----------------------------------------------------------------------------
(* The invariant. *)

Starts == Clusters \cup {CLUSTER_FREE}
Places == [cluster : Starts, offset : 0 .. bpc]

EntryType == [start : Starts, size : Nat]

HandleType ==
  [mode : Modes \cup {{}}, start : Starts, size : Nat, currentPosition : Nat,
   rwPosition : Places, appendPosition : Places, modified : BOOLEAN]

Bytes == [Clusters -> [0 .. bpc - 1 -> Byte]]

(* What a row of n bytes has: as many clusters as it takes. *)
Sized(s, n) == n <= Len(s) * bpc /\ Len(s) * bpc < n + bpc

(* The positions of the handle h on the row s. *)
Placed(h, s) ==
  /\ h.currentPosition <= h.size => Stands(h.rwPosition, h.currentPosition, s)
  /\ "append" \in h.mode => Stands(h.appendPosition, h.size, s)

(* A handle on the row s of its file. *)
HandleOK(h, s) ==
  /\ BeginsWith(s, h.start) /\ Sized(s, h.size)
  /\ s # <<>> => Placed(h, s)

(* The entry of a file with the row s that nobody has opened. *)
EntryOK(e, s) == BeginsWith(s, e.start) /\ Sized(s, e.size)

(* An entry is behind its handle only if the handle will write it.         *)
Behind(e, h) ==
  ~ ("write" \in h.mode /\ h.modified) => e.start = h.start /\ e.size = h.size

FileOK(e, h, s) ==
  IF h.mode = {} THEN EntryOK(e, s) ELSE HandleOK(h, s) /\ Behind(e, h)

Rows == [f \in Files |-> ClustersOf(f)]

Good(table, es, hs, r) ==
  /\ Fits(table, r)
  /\ es \in [Files -> EntryType] /\ hs \in [Files -> HandleType]
  /\ \A f \in Files : FileOK(es[f], hs[f], r[f])

IInv == data \in Bytes /\ Good(fat, entry, handle, Rows)

LEMMA GoodIs ==
  ASSUME NEW table, NEW es, NEW hs, NEW r, Good(table, es, hs, r), NEW f \in Files
  PROVE  /\ Chain(table, IF hs[f].mode # {} THEN hs[f].start ELSE es[f].start) = r[f]
         /\ IsRow(table, r[f]) /\ table \in Tables
         /\ es[f] \in EntryType /\ hs[f] \in HandleType /\ FileOK(es[f], hs[f], r[f])
<1>1. /\ IsRow(table, r[f]) /\ table \in Tables
      /\ es[f] \in EntryType /\ hs[f] \in HandleType /\ FileOK(es[f], hs[f], r[f])
  BY DEF Good, Fits
<1>2. BeginsWith(r[f], IF hs[f].mode # {} THEN hs[f].start ELSE es[f].start)
  BY <1>1 DEF FileOK, HandleOK, EntryOK
<1> QED
  BY <1>1, <1>2, ChainIs

(* A call that changes the entry, the handle and the row of one file. *)
LEMMA GoodWith ==
  ASSUME NEW table, NEW es, NEW hs, NEW r, Good(table, es, hs, r), NEW f \in Files,
         NEW after, NEW s, Fits(after, With(r, f, s)),
         NEW e \in EntryType, NEW h \in HandleType, FileOK(e, h, s)
  PROVE  Good(after, [es EXCEPT ![f] = e], [hs EXCEPT ![f] = h], With(r, f, s))
<1> DEFINE es2 == [es EXCEPT ![f] = e]
           hs2 == [hs EXCEPT ![f] = h]
           q == With(r, f, s)
<1>1. es \in [Files -> EntryType] /\ hs \in [Files -> HandleType] /\ r = [g \in Files |-> r[g]]
  BY DEF Good, Fits
<1>2. /\ es2 \in [Files -> EntryType] /\ es2[f] = e
      /\ \A g \in Files : g # f => es2[g] = es[g]
  BY <1>1
<1>3. /\ hs2 \in [Files -> HandleType] /\ hs2[f] = h
      /\ \A g \in Files : g # f => hs2[g] = hs[g]
  BY <1>1
<1>4. q[f] = s /\ \A g \in Files : g # f => q[g] = r[g]
  BY <1>1, WithIs
<1> HIDE DEF es2, hs2, q
<1>5. \A g \in Files : FileOK(es2[g], hs2[g], q[g])
  <2> SUFFICES ASSUME NEW g \in Files
               PROVE  FileOK(es2[g], hs2[g], q[g])
    OBVIOUS
  <2>1. FileOK(es[g], hs[g], r[g])
    BY DEF Good
  <2>2. CASE g = f
    BY <1>2, <1>3, <1>4, <2>2
  <2>3. CASE g # f
    BY <1>2, <1>3, <1>4, <2>1, <2>3
  <2> QED
    BY <2>2, <2>3
<1>6. Fits(after, q)
  BY DEF q
<1> QED
  BY <1>2, <1>3, <1>5, <1>6 DEF Good, es2, hs2, q

(* The byte 0 is at the beginning of a row. *)
LEMMA StartStands ==
  ASSUME NEW s \in Seq(Clusters), s # <<>>
  PROVE  Stands(At(s[1], 0), 0, s)
<1>1. 1 \in 1 .. Len(s) /\ 0 - (1 - 1) * bpc = 0 /\ 0 \in 0 .. bpc
  BY GeometryIs
<1> QED
  BY <1>1 DEF Stands

(* A position is in its row. *)
LEMMA StandsInRow ==
  ASSUME NEW s \in Seq(Clusters), NEW n \in Nat, NEW p, Stands(p, n, s)
  PROVE  /\ p \in Places /\ Has(s, p.cluster)
         /\ n <= Len(s) * bpc
<1>1. PICK i \in 1 .. Len(s) : n - (i - 1) * bpc \in 0 .. bpc /\ p = At(s[i], n - (i - 1) * bpc)
  BY DEF Stands
<1>2. p \in Places /\ Has(s, p.cluster)
  BY <1>1 DEF At, Places, Starts, Has
<1>3. PICK j \in Nat, l \in Nat : j = i - 1 /\ l = Len(s)
  BY <1>1
<1>4. j * bpc \in Nat /\ (j + 1) * bpc = j * bpc + bpc /\ l * bpc \in Nat
  BY <1>3, GeometryIs, Multiples
<1>5. (j + 1) * bpc <= l * bpc
  BY <1>3, GeometryIs, Multiples
<1> QED
  BY <1>1, <1>2, <1>3, <1>4, <1>5, GeometryIs

(* A position stands for the same byte when the row goes on. *)
LEMMA StandsFurther ==
  ASSUME NEW s \in Seq(Clusters), NEW new \in Seq(Clusters), NEW n, NEW p, Stands(p, n, s)
  PROVE  Stands(p, n, s \o new)
<1> DEFINE t == s \o new
<1>1. Len(t) = Len(s) + Len(new) /\ \A i \in 1 .. Len(s) : t[i] = s[i]
  OBVIOUS
<1> HIDE DEF t
<1>2. PICK i \in 1 .. Len(s) : n - (i - 1) * bpc \in 0 .. bpc /\ p = At(s[i], n - (i - 1) * bpc)
  BY DEF Stands
<1>3. i \in 1 .. Len(t) /\ t[i] = s[i]
  BY <1>1
<1>4. Stands(p, n, t)
  BY <1>2, <1>3 DEF Stands
<1> QED
  BY <1>4 DEF t

(* ... and when it is cut behind that byte. *)
LEMMA StandsCut ==
  ASSUME NEW s \in Seq(Clusters), NEW m \in 1 .. Len(s), NEW n \in Nat, n < m * bpc,
         NEW p, Stands(p, n, s)
  PROVE  Stands(p, n, SubSeq(s, 1, m))
<1> DEFINE t == SubSeq(s, 1, m)
<1>1. m \in Nat /\ Len(t) = m /\ \A i \in 1 .. m : t[i] = s[i]
  OBVIOUS
<1> HIDE DEF t
<1>2. PICK i \in 1 .. Len(s) : n - (i - 1) * bpc \in 0 .. bpc /\ p = At(s[i], n - (i - 1) * bpc)
  BY DEF Stands
<1>3. PICK j \in Nat : j = i - 1
  BY <1>2
<1>4. j * bpc \in Nat /\ m * bpc \in Nat /\ j * bpc <= n
  BY <1>1, <1>2, <1>3, GeometryIs
<1>5. m <= j => m * bpc <= j * bpc
  BY <1>1, <1>3, GeometryIs, Multiples
<1>6. i \in 1 .. m
  BY <1>1, <1>3, <1>4, <1>5
<1>7. Stands(p, n, t)
  BY <1>1, <1>2, <1>6 DEF Stands
<1> QED
  BY <1>7 DEF t

(* The clusters that n bytes take. *)
LEMMA LengthFor ==
  ASSUME NEW n \in Nat \ {0}
  PROVE  \E m \in Nat \ {0} :
           /\ m = (n - 1) \div bpc + 1
           /\ n <= m * bpc /\ m * bpc < n + bpc
           /\ n - (m - 1) * bpc = ((n - 1) % bpc) + 1
           /\ n = m * bpc => n % bpc = 0
           /\ \A l \in Nat : n <= l * bpc => m <= l
<1>1. PICK k \in Nat : k = n - 1
  OBVIOUS
<1>2. k \div bpc \in Nat /\ k % bpc \in 0 .. bpc - 1 /\ k = (k \div bpc) * bpc + (k % bpc)
  BY GeometryIs, DivMod
<1>3. PICK q \in Nat, r \in 0 .. bpc - 1 : q = k \div bpc /\ r = k % bpc
  BY <1>2
<1>4. PICK m \in Nat \ {0} : m = q + 1
  OBVIOUS
<1>5. q * bpc \in Nat /\ m * bpc = q * bpc + bpc /\ k = q * bpc + r
  BY <1>2, <1>3, <1>4, GeometryIs, Multiples
<1>6. n <= m * bpc /\ m * bpc < n + bpc
  BY <1>1, <1>5, GeometryIs
<1>7. n - (m - 1) * bpc = r + 1
  <2>1. m - 1 = q
    BY <1>4
  <2> QED
    BY <1>1, <1>5, <2>1, GeometryIs
<1>8. n = m * bpc => n % bpc = 0
  <2>1. (m * bpc + 0) % bpc = 0
    <3>1. 0 \in 0 .. bpc - 1
      BY GeometryIs
    <3> QED
      BY <1>4, <3>1, GeometryIs, Quotient
  <2>2. m * bpc + 0 = m * bpc
    BY <1>5, GeometryIs
  <2> QED
    BY <2>1, <2>2
<1>9. ASSUME NEW l \in Nat, n <= l * bpc
      PROVE  m <= l
  <2>1. l <= q => l * bpc <= q * bpc
    BY GeometryIs, Multiples
  <2>2. l * bpc \in Nat /\ q * bpc < n
    BY <1>1, <1>5, GeometryIs
  <2>3. ~(l <= q)
    BY <1>5, <1>9, <2>1, <2>2
  <2> QED
    BY <1>4, <2>3
<1> QED
  BY <1>1, <1>3, <1>4, <1>6, <1>7, <1>8, <1>9

(* The row s has the clusters that n bytes take, or the first of them.     *)
Nearly(s, n) ==
  /\ n <= Len(s) * bpc
  /\ \/ Len(s) * bpc < n + bpc
     \/ n = 0 /\ Len(s) = 1

(* What EndOf finds stands for the end of the file. *)
LEMMA EndStands ==
  ASSUME NEW s \in Seq(Clusters), s # <<>>, NEW n \in Nat, Nearly(s, n)
  PROVE  Stands(At(Last(s), IF n > 0 /\ n % bpc = 0 THEN bpc ELSE n % bpc), n, s)
<1> DEFINE o == IF n > 0 /\ n % bpc = 0 THEN bpc ELSE n % bpc
<1>1. PICK l \in Nat \ {0} : l = Len(s)
  OBVIOUS
<1>2. PICK j \in Nat : j = l - 1
  BY <1>1
<1>3. j * bpc \in Nat /\ l * bpc = j * bpc + bpc
  <2>1. (j + 1) * bpc = j * bpc + bpc /\ l = j + 1
    BY <1>2, GeometryIs, Multiples
  <2> QED
    BY <1>2, <2>1, GeometryIs
<1>4. n <= j * bpc + bpc /\ (j * bpc < n \/ (n = 0 /\ j = 0))
  BY <1>1, <1>2, <1>3, GeometryIs DEF Nearly
<1>5. n - j * bpc \in 0 .. bpc /\ o = n - j * bpc
  <2>1. CASE n = 0
    <3>1. 0 % bpc = 0
      <4>1. 0 \in 0 .. bpc - 1 /\ 0 * bpc + 0 = 0
        BY GeometryIs
      <4>2. (0 * bpc + 0) % bpc = 0
        BY <4>1, GeometryIs, Quotient
      <4> QED
        BY <4>1, <4>2
    <3>2. j * bpc = 0
      BY <1>3, <1>4, <2>1, GeometryIs
    <3> QED
      BY <2>1, <3>1, <3>2, GeometryIs
  <2>2. CASE n > 0 /\ n = j * bpc + bpc
    <3>1. 0 \in 0 .. bpc - 1 /\ l * bpc + 0 = n
      BY <1>3, <2>2, GeometryIs
    <3>2. (l * bpc + 0) % bpc = 0
      BY <1>1, <3>1, GeometryIs, Quotient
    <3>3. n % bpc = 0
      BY <3>1, <3>2
    <3> QED
      BY <1>3, <2>2, <3>3, GeometryIs
  <2>3. CASE n > 0 /\ n < j * bpc + bpc
    <3>1. PICK r \in 0 .. bpc - 1 : r = n - j * bpc
      BY <1>3, <1>4, <2>3, GeometryIs
    <3>2. n = j * bpc + r
      BY <1>3, <3>1
    <3>3. n % bpc = r
      BY <1>2, <3>2, GeometryIs, Quotient
    <3>4. r # 0
      BY <1>3, <1>4, <2>3, <3>2
    <3> QED
      BY <3>1, <3>3, <3>4, GeometryIs
  <2>4. n = 0 \/ (n > 0 /\ n = j * bpc + bpc) \/ (n > 0 /\ n < j * bpc + bpc)
    BY <1>3, <1>4, GeometryIs
  <2> QED
    BY <2>1, <2>2, <2>3, <2>4
<1> HIDE DEF o
<1>6. l \in 1 .. Len(s) /\ l - 1 = j /\ Last(s) = s[l]
  BY <1>1, <1>2 DEF Last
<1>7. Stands(At(Last(s), o), n, s)
  BY <1>5, <1>6 DEF Stands
<1> QED
  BY <1>7 DEF o

-----------------------------------------------------------------------------
(* The parts of a call. *)

LEMMA WithAgain ==
  ASSUME NEW r, r = [g \in Files |-> r[g]], NEW f \in Files, NEW s, NEW t
  PROVE  /\ With(With(r, f, s), f, t) = With(r, f, t)
         /\ With(r, f, s)[f] = s
BY DEF With

(* A handle that is ready for a write or an extension.                     *)
Ready(h, s) ==
  /\ h \in HandleType /\ s \in Seq(Clusters) /\ s # <<>>
  /\ BeginsWith(s, h.start) /\ Nearly(s, h.size) /\ Placed(h, s)

(* The first cluster of an empty file is linked. *)
LEMMA StartedIs ==
  ASSUME IInv, NEW f \in Files, Opened(f), NEW st \in Started(handle[f])
  PROVE  \E s \in Seq(Clusters) :
           /\ Fits(st.volume.fat, With(Rows, f, s)) /\ st.volume.data = data
           /\ Ready(st.h, s)
           /\ st.h.mode = handle[f].mode /\ st.h.size = handle[f].size
           /\ st.h.currentPosition = handle[f].currentPosition
           /\ s = Rows[f] \/ handle[f].size = 0
<1> DEFINE h == handle[f]
           s0 == Rows[f]
<1>1. Good(fat, entry, handle, Rows) /\ Fits(fat, Rows)
  BY DEF IInv, Good
<1>2. IsRow(fat, s0) /\ h \in HandleType /\ HandleOK(h, s0)
  BY <1>1, GoodIs DEF FileOK, Opened
<1>3. s0 \in Seq(Clusters) /\ (s0 # <<>> => s0[1] \in Clusters)
  BY <1>2, RowIs
<1> HIDE DEF h, s0
<1>4. CASE h.start # CLUSTER_FREE
  <2>1. st = [volume |-> volume, h |-> h]
    BY <1>4 DEF Started, h
  <2>2. st.volume.fat = fat /\ st.volume.data = data /\ st.h = h
    BY <2>1 DEF volume
  <2>3. h.start \in Clusters
    BY <1>2, <1>4 DEF HandleType, Starts
  <2>4. s0 # <<>>
    BY <1>2, <2>3 DEF HandleOK, BeginsWith
  <2>5. Ready(h, s0)
    BY <1>2, <1>3, <2>4 DEF Ready, HandleOK, Sized, Nearly
  <2>6. With(Rows, f, s0) = Rows
    BY <1>1, WithSame DEF Fits, s0
  <2> QED
    BY <1>1, <1>3, <2>2, <2>5, <2>6 DEF h, s0
<1>5. CASE h.start = CLUSTER_FREE
  <2>1. PICK c \in FreeIn(fat) :
          st = [volume |-> [volume EXCEPT !.fat = Linked(@, <<c>>)], h |-> StartedAt(h, c)]
    BY <1>5 DEF Started, h
  <2>2. st.volume.fat = Linked(fat, <<c>>) /\ st.volume.data = data /\ st.h = StartedAt(h, c)
    BY <2>1 DEF volume
  <2>3. c \in Clusters /\ fat[c] = CLUSTER_FREE
    BY DEF FreeIn
  <2>4. s0 = <<>>
    BY <1>2, <1>3, <1>5, GeometryAssumption DEF HandleOK, BeginsWith
  <2>5. Fits(Linked(fat, <<c>>), With(Rows, f, <<c>>))
    BY <1>1, <2>3, <2>4, FitsStarted DEF s0
  <2>6. h.size = 0
    <3>1. h.size \in Nat /\ h.size <= Len(s0) * bpc /\ Len(s0) = 0
      BY <1>2, <2>4 DEF HandleOK, Sized, HandleType
    <3>2. 0 * bpc = 0
      BY GeometryIs
    <3> QED
      BY <3>1, <3>2
  <2> DEFINE h2 == StartedAt(h, c)
             s == <<c>>
  <2>7. At(c, 0) \in Places
    BY <2>3, GeometryIs DEF At, Places, Starts
  <2>8. /\ h2 \in HandleType /\ h2.mode = h.mode /\ h2.size = h.size
        /\ h2.currentPosition = h.currentPosition
        /\ h2.start = c /\ h2.rwPosition = At(c, 0)
        /\ "append" \in h.mode => h2.appendPosition = At(c, 0)
    BY <1>2, <2>3, <2>7 DEF StartedAt, HandleType, Starts
  <2>9. s \in Seq(Clusters) /\ s # <<>> /\ Len(s) = 1 /\ s[1] = c
    BY <2>3
  <2> HIDE DEF h2, s
  <2>10. Stands(At(c, 0), 0, s)
    BY <2>9, StartStands
  <2>11. Placed(h2, s)
    <3>1. h.currentPosition \in Nat
      BY <1>2 DEF HandleType
    <3> QED
      BY <2>6, <2>8, <2>10, <3>1 DEF Placed
  <2>12. Nearly(s, h2.size)
    <3>1. 1 * bpc \in Nat
      BY GeometryIs
    <3> QED
      BY <2>6, <2>8, <2>9, <3>1 DEF Nearly
  <2>13. BeginsWith(s, h2.start)
    BY <2>8, <2>9 DEF BeginsWith
  <2>14. Ready(h2, s)
    BY <2>8, <2>9, <2>11, <2>12, <2>13 DEF Ready
  <2> QED
    BY <2>2, <2>5, <2>6, <2>8, <2>9, <2>14 DEF h, h2, s
<1> QED
  BY <1>4, <1>5

(* The row s of the file of h when out.done bytes x were stored in it from *)
(* the byte q on, and it was row before.                                   *)
StoredIn(v, r, f, h, row, q, n, x, out, s) ==
  /\ Fits(out.volume.fat, With(r, f, s))
  /\ s \in Seq(Clusters) /\ s # <<>> /\ BeginsWith(s, h.start)
  /\ out.done \in 0 .. n /\ q + out.done <= Len(s) * bpc
  /\ Sized(s, IF h.size < q + out.done THEN q + out.done ELSE h.size)
  /\ Stands(out.at, q + out.done, s) /\ out.at \in Places
  /\ \A k, place : Stands(place, k, row) => Stands(place, k, s)
  /\ out.volume.data = Filled(v.data, s, q, q + out.done - 1, x)

(* Bytes are stored from within a file on, or from its end: the row goes   *)
(* on by as many clusters as the bytes take.                               *)
LEMMA StoredIs ==
  ASSUME NEW r, r = [g \in Files |-> r[g]], NEW f \in Files, NEW row, NEW v,
         Fits(v.fat, With(r, f, row)), NEW h, Ready(h, row),
         NEW p, NEW q \in Nat, Stands(p, q, row), q <= h.size,
         NEW n \in Nat \ {0}, NEW x, NEW out \in Outcomes(v, p, n, x)
  PROVE  \E new \in Seq(Clusters) : StoredIn(v, r, f, h, row, q, n, x, out, row \o new)
<1> DEFINE r1 == With(r, f, row)
<1>1. r1[f] = row /\ \A s : With(r1, f, s) = With(r, f, s)
  BY WithAgain
<1>2. Fits(v.fat, r1)
  OBVIOUS
<1> HIDE DEF r1
<1>3. \E new \in Seq(Clusters) : Stored(v, r1, f, q, n, x, out, new, r1[f] \o new)
  <2>1. Stands(p, q, r1[f])
    BY <1>1
  <2>2. PICK table : table = v.fat
    OBVIOUS
  <2> QED
    BY <1>2, <2>1, <2>2, OutcomesAre
<1>4. PICK new \in Seq(Clusters) : Stored(v, r1, f, q, n, x, out, new, row \o new)
  BY <1>1, <1>3
<1> DEFINE s == row \o new
<1>5. row \in Seq(Clusters) /\ row # <<>> /\ Nearly(row, h.size) /\ h.size \in Nat
      /\ BeginsWith(row, h.start)
  BY DEF Ready, HandleType
<1>6. /\ s \in Seq(Clusters) /\ Len(s) = Len(row) + Len(new) /\ s # <<>> /\ s[1] = row[1]
      /\ Len(row) \in Nat \ {0} /\ (new = <<>> <=> Len(new) = 0) /\ Len(new) \in Nat
  BY <1>5
<1>7. BeginsWith(s, h.start)
  BY <1>5, <1>6 DEF BeginsWith
<1>8. \A k, place : Stands(place, k, row) => Stands(place, k, s)
  BY <1>5, StandsFurther
<1>9. /\ Fits(out.volume.fat, With(r, f, s))
      /\ out.done \in 0 .. n /\ q + out.done <= Len(s) * bpc
      /\ out.done = n \/ q + out.done = Len(s) * bpc
      /\ new # <<>> => Len(s) * bpc < q + out.done + bpc
      /\ Stands(out.at, q + out.done, s)
      /\ out.volume.data = Filled(v.data, s, q, q + out.done - 1, x)
  BY <1>1, <1>4 DEF Stored
<1> HIDE DEF s
<1>10. PICK l \in Nat \ {0}, l0 \in Nat \ {0} : l = Len(s) /\ l0 = Len(row)
  BY <1>6
<1>11. PICK done \in Nat : done = out.done
  BY <1>9
<1>12. PICK m \in Nat : m = IF h.size < q + out.done THEN q + out.done ELSE h.size
  BY <1>5, <1>11
<1>13. PICK lb \in Nat, lb0 \in Nat : lb = l * bpc /\ lb0 = l0 * bpc
  BY <1>10, GeometryIs
<1>14. lb0 <= lb /\ lb0 >= bpc
  <2>1. l0 <= l /\ 1 <= l0
    BY <1>6, <1>10
  <2>2. l0 * bpc <= l * bpc
    BY <1>10, <2>1, GeometryIs, Multiples
  <2>3. 1 * bpc <= l0 * bpc
    <3>1. PICK i \in Int, j \in Int : i = 1 /\ j = l0
      BY <1>10
    <3> QED
      BY <2>1, <3>1, GeometryIs, Multiples
  <2> QED
    BY <1>13, <2>2, <2>3, GeometryIs
<1>15. m <= lb
  BY <1>5, <1>9, <1>10, <1>11, <1>12, <1>13, <1>14 DEF Nearly
<1>16. lb < m + bpc
  <2>1. CASE new # <<>>
    <3>1. lb < q + done + bpc
      BY <1>9, <1>10, <1>11, <1>13, <2>1
    <3>2. q + done <= m
      BY <1>5, <1>11, <1>12
    <3> QED
      BY <1>11, <1>12, <1>13, <3>1, <3>2, GeometryIs
  <2>2. CASE new = <<>> /\ lb0 < h.size + bpc
    <3>1. lb = lb0
      BY <1>6, <1>10, <1>13, <2>2
    <3> QED
      BY <1>5, <1>11, <1>12, <2>2, <3>1, GeometryIs
  <2>3. CASE new = <<>> /\ h.size = 0 /\ l0 = 1
    <3>1. lb = bpc
      <4>1. l = 1
        BY <1>6, <1>10, <2>3
      <4> QED
        BY <1>13, <4>1, GeometryIs
    <3>2. done >= 1
      <4>1. q = 0 /\ (done = n \/ q + done = lb)
        BY <1>9, <1>10, <1>11, <1>13, <2>3
      <4> QED
        BY <3>1, <4>1, GeometryIs
    <3> QED
      BY <1>11, <1>12, <2>3, <3>1, <3>2, GeometryIs
  <2> QED
    BY <1>5, <1>10, <1>13, <2>1, <2>2, <2>3 DEF Nearly
<1>17. Sized(s, m)
  BY <1>10, <1>13, <1>15, <1>16 DEF Sized
<1>18. out.at \in Places
  <2>1. q + done \in Nat /\ Stands(out.at, q + done, s)
    BY <1>9, <1>11
  <2> QED
    BY <1>6, <2>1, StandsInRow
<1>19. StoredIn(v, r, f, h, row, q, n, x, out, s)
  <2>1. Sized(s, IF h.size < q + out.done THEN q + out.done ELSE h.size)
    BY <1>12, <1>17
  <2> QED
    BY <1>6, <1>7, <1>8, <1>9, <1>18, <2>1 DEF StoredIn
<1> QED
  BY <1>19 DEF s

(* The row s of the file of h when a write has stored out.done bytes x. *)
WriteFrom(h) == IF "append" \in h.mode THEN h.size ELSE h.currentPosition

WroteIn(v, r, f, h, n, x, out, s) ==
  LET q == WriteFrom(h)
      h2 == Wrote(h, out)
  IN
  /\ Fits(out.volume.fat, With(r, f, s))
  /\ s \in Seq(Clusters) /\ s # <<>>
  /\ out.done \in 0 .. n /\ q + out.done <= Len(s) * bpc
  /\ out.volume.data = Filled(v.data, s, q, q + out.done - 1, x)
  /\ h2 \in HandleType /\ HandleOK(h2, s)
  /\ h2.mode = h.mode /\ h2.modified
  /\ h2.size = IF h.size < q + out.done THEN q + out.done ELSE h.size
  /\ h2.currentPosition = IF "append" \in h.mode THEN h.currentPosition ELSE h.currentPosition + out.done

(* The handle after a write: nothing but a write at the end, or one that   *)
(* reaches it, changes the size. *)
LEMMA WroteIs ==
  ASSUME NEW r, r = [g \in Files |-> r[g]], NEW f \in Files, NEW row, NEW v,
         Fits(v.fat, With(r, f, row)), NEW h, Ready(h, row), h.currentPosition <= h.size,
         NEW n \in Nat \ {0}, NEW x,
         NEW out \in Outcomes(v, IF "append" \in h.mode THEN h.appendPosition ELSE h.rwPosition, n, x)
  PROVE  \E new \in Seq(Clusters) : WroteIn(v, r, f, h, n, x, out, row \o new)
<1>1. /\ h \in HandleType /\ h.size \in Nat /\ h.currentPosition \in Nat
      /\ Placed(h, row) /\ row \in Seq(Clusters) /\ row # <<>>
  BY DEF Ready, HandleType
<1> DEFINE appends == "append" \in h.mode
           h2 == Wrote(h, out)
<1>2. PICK q \in Nat : q = IF "append" \in h.mode THEN h.size ELSE h.currentPosition
  BY <1>1
<1> DEFINE p == IF "append" \in h.mode THEN h.appendPosition ELSE h.rwPosition
<1>3. Stands(p, q, row) /\ q <= h.size
  BY <1>1, <1>2 DEF Placed
<1> HIDE DEF p
<1>4. PICK new \in Seq(Clusters) : StoredIn(v, r, f, h, row, q, n, x, out, row \o new)
  <2>1. out \in Outcomes(v, p, n, x)
    BY DEF p
  <2> QED
    BY <1>2, <1>3, <2>1, StoredIs
<1> DEFINE s == row \o new
<1>5. /\ Fits(out.volume.fat, With(r, f, s))
      /\ s \in Seq(Clusters) /\ s # <<>> /\ BeginsWith(s, h.start)
      /\ out.done \in 0 .. n /\ q + out.done <= Len(s) * bpc
      /\ Sized(s, IF h.size < q + out.done THEN q + out.done ELSE h.size)
      /\ Stands(out.at, q + out.done, s) /\ out.at \in Places
      /\ \A k, place : Stands(place, k, row) => Stands(place, k, s)
      /\ out.volume.data = Filled(v.data, s, q, q + out.done - 1, x)
  BY <1>4 DEF StoredIn
<1> HIDE DEF s
<1>6. PICK done \in Nat, at \in Places : done = out.done /\ at = out.at
  BY <1>5
<1>7. /\ h2 \in HandleType /\ h2.mode = h.mode /\ h2.modified = TRUE /\ h2.start = h.start
      /\ h2.size = IF h.size < q + done THEN q + done ELSE h.size
      /\ appends => h2.currentPosition = h.currentPosition /\ h2.rwPosition = h.rwPosition
                    /\ h2.appendPosition = at /\ h2.size = q + done
      /\ ~appends => h2.currentPosition = q + done /\ h2.rwPosition = at
  <2>1. CASE appends
    <3>1. h2 = [h EXCEPT !.modified = TRUE, !.appendPosition = at, !.size = @ + done]
      BY <1>6, <2>1 DEF Wrote
    <3>2. h.size + done \in Nat
      BY <1>1, <1>6
    <3>3. h2 \in HandleType
      BY <1>1, <1>6, <3>1, <3>2 DEF HandleType
    <3>4. /\ h2.mode = h.mode /\ h2.modified = TRUE /\ h2.start = h.start
          /\ h2.size = h.size + done /\ h2.appendPosition = at
          /\ h2.currentPosition = h.currentPosition /\ h2.rwPosition = h.rwPosition
      BY <1>1, <3>1 DEF HandleType
    <3>5. h.size + done = IF h.size < q + done THEN q + done ELSE h.size
      BY <1>1, <1>2, <1>6, <2>1
    <3> HIDE DEF h2
    <3> QED
      BY <1>2, <2>1, <3>3, <3>4, <3>5
  <2>2. CASE ~appends
    <3>1. h2 = [h EXCEPT !.modified = TRUE, !.rwPosition = at,
                 !.currentPosition = @ + done,
                 !.size = IF @ < h.currentPosition + done THEN h.currentPosition + done ELSE @]
      BY <1>6, <2>2 DEF Wrote
    <3>2. PICK m \in Nat, e \in Nat :
            /\ m = IF h.size < h.currentPosition + done THEN h.currentPosition + done ELSE h.size
            /\ e = h.currentPosition + done
      BY <1>1, <1>6
    <3>3. h2 = [h EXCEPT !.modified = TRUE, !.rwPosition = at, !.currentPosition = e, !.size = m]
      BY <3>1, <3>2
    <3>4. h2 \in HandleType
      BY <1>1, <1>6, <3>2, <3>3 DEF HandleType
    <3>5. /\ h2.mode = h.mode /\ h2.modified = TRUE /\ h2.start = h.start
          /\ h2.size = m /\ h2.rwPosition = at /\ h2.currentPosition = e
      BY <1>1, <3>3 DEF HandleType
    <3>6. q = h.currentPosition
      BY <1>2, <2>2
    <3> HIDE DEF h2
    <3> QED
      BY <2>2, <3>2, <3>4, <3>5, <3>6
  <2> QED
    BY <2>1, <2>2
<1> HIDE DEF h2
<1>8. Placed(h2, s)
  <2>1. Stands(at, q + done, s)
    BY <1>5, <1>6
  <2>2. CASE appends
    <3>1. Stands(h.rwPosition, h.currentPosition, row)
      BY <1>1 DEF Placed
    <3>2. Stands(h.rwPosition, h.currentPosition, s)
      BY <1>5, <3>1
    <3> QED
      BY <1>7, <2>1, <2>2, <3>2 DEF Placed
  <2>3. CASE ~appends
    BY <1>7, <2>1, <2>3 DEF Placed
  <2> QED
    BY <2>2, <2>3
<1>9. HandleOK(h2, s)
  BY <1>5, <1>6, <1>7, <1>8 DEF HandleOK
<1>10. h2.currentPosition = IF "append" \in h.mode THEN h.currentPosition ELSE h.currentPosition + out.done
  BY <1>2, <1>6, <1>7
<1>11. q = WriteFrom(h)
  BY <1>2 DEF WriteFrom
<1>12. WroteIn(v, r, f, h, n, x, out, s)
  BY <1>5, <1>6, <1>7, <1>9, <1>10, <1>11 DEF WroteIn, h2
<1> QED
  BY <1>12 DEF s

(* The row s of the file of h when it was extended to m bytes.             *)
ExtendedIn(v, r, f, h, row, m, e, s) ==
  /\ Fits(e.volume.fat, With(r, f, s))
  /\ s \in Seq(Clusters) /\ s # <<>> /\ BeginsWith(s, h.start) /\ Sized(s, m)
  /\ e.h = [h EXCEPT !.rwPosition = e.h.rwPosition, !.size = m]
  /\ Stands(e.h.rwPosition, m, s) /\ e.h.rwPosition \in Places
  /\ \A k, place : Stands(place, k, row) => Stands(place, k, s)
  /\ e.volume.data = Filled(v.data, s, h.size, m - 1, 0)

LEMMA ExtendIs ==
  ASSUME NEW r, r = [g \in Files |-> r[g]], NEW f \in Files, NEW row, NEW v,
         Fits(v.fat, With(r, f, row)), NEW h, Ready(h, row),
         NEW m \in Nat, m > h.size, NEW e \in Extend(v, h, m), e.ok
  PROVE  \E new \in Seq(Clusters) : ExtendedIn(v, r, f, h, row, m, e, row \o new)
<1>1. /\ h \in HandleType /\ h.size \in Nat /\ Nearly(row, h.size)
      /\ row \in Seq(Clusters) /\ row # <<>> /\ BeginsWith(row, h.start)
  BY DEF Ready, HandleType
<1>2. With(r, f, row)[f] = row
  BY WithAgain
<1>3. IsRow(v.fat, row)
  BY <1>2 DEF Fits
<1>4. Chain(v.fat, h.start) = row
  BY <1>1, <1>3, ChainIs
<1>5. PICK p : p = EndOf(v, h)
  OBVIOUS
<1>6. Stands(p, h.size, row)
  <2>1. p = At(Last(row), IF h.size > 0 /\ h.size % bpc = 0 THEN bpc ELSE h.size % bpc)
    BY <1>4, <1>5 DEF EndOf, bpc
  <2> QED
    BY <1>1, <2>1, EndStands
<1>7. PICK n \in Nat \ {0} : n = m - h.size
  BY <1>1
<1>8. PICK out \in Outcomes(v, p, n, 0) :
        e = IF out.done = n
            THEN [volume |-> out.volume, ok |-> TRUE, h |-> [h EXCEPT !.rwPosition = out.at, !.size = m]]
            ELSE [volume |-> out.volume, ok |-> FALSE, h |-> h]
  BY <1>5, <1>7 DEF Extend
<1>9. /\ out.done = n /\ e.volume = out.volume
      /\ e.h = [h EXCEPT !.rwPosition = out.at, !.size = m]
  BY <1>8
<1>10. PICK q \in Nat : q = h.size
  BY <1>1
<1>11. PICK new \in Seq(Clusters) : StoredIn(v, r, f, h, row, q, n, 0, out, row \o new)
  BY <1>6, <1>10, StoredIs
<1> DEFINE s == row \o new
<1>12. StoredIn(v, r, f, h, row, q, n, 0, out, s)
  BY <1>11
<1> HIDE DEF s
<1>13. q + n = m /\ q + n - 1 = m - 1
  BY <1>7, <1>10
<1>14. Sized(s, m)
  <2>1. m = IF h.size < q + out.done THEN q + out.done ELSE h.size
    BY <1>7, <1>9, <1>10
  <2> QED
    BY <1>12, <2>1 DEF StoredIn
<1>15. e.h.rwPosition = out.at
  BY <1>1, <1>9 DEF HandleType
<1>16. ExtendedIn(v, r, f, h, row, m, e, s)
  <2>1. Stands(out.at, m, s)
    BY <1>9, <1>12, <1>13 DEF StoredIn
  <2>2. out.volume.data = Filled(v.data, s, h.size, m - 1, 0)
    BY <1>9, <1>10, <1>12, <1>13 DEF StoredIn
  <2> QED
    BY <1>9, <1>12, <1>14, <1>15, <2>1, <2>2 DEF StoredIn, ExtendedIn
<1> QED
  BY <1>16 DEF s


-----------------------------------------------------------------------------
(* The bytes along a row. *)

(* No cluster is twice in s. *)
Distinct(s) == \A i, j \in 1 .. Len(s) : s[i] = s[j] => i = j

ByteAt(bytes, s, k) == bytes[s[k \div bpc + 1]][k % bpc]

(* The bytes from q to q + d - 1 along s are within s, k2 is one of them.  *)
LEMMA AlongRow ==
  ASSUME NEW s \in Seq(Clusters), NEW k \in Nat, k < Len(s) * bpc
  PROVE  /\ k \div bpc \in Nat /\ k \div bpc + 1 \in 1 .. Len(s)
         /\ s[k \div bpc + 1] \in Clusters /\ Has(s, s[k \div bpc + 1])
         /\ k % bpc \in 0 .. bpc - 1
         /\ k = (k \div bpc) * bpc + (k % bpc)
<1>1. k \div bpc \in Nat /\ k \div bpc < Len(s) /\ k % bpc \in 0 .. bpc - 1
  BY Within
<1>2. k = (k \div bpc) * bpc + (k % bpc)
  BY GeometryIs, DivMod
<1>3. PICK i \in 1 .. Len(s) : i = k \div bpc + 1
  BY <1>1
<1>4. s[i] \in Clusters /\ Has(s, s[i])
  BY DEF Has
<1> QED
  BY <1>1, <1>2, <1>3, <1>4

LEMMA FilledType ==
  ASSUME NEW bytes \in Bytes, NEW x \in Byte, NEW s, NEW first, NEW last
  PROVE  Filled(bytes, s, first, last, x) \in Bytes
<1> DEFINE In(c, o) ==
      \E k \in first .. last : s[k \div bpc + 1] = c /\ k % bpc = o
<1>1. Filled(bytes, s, first, last, x) =
        [c \in Clusters |-> [o \in 0 .. bpc - 1 |-> IF In(c, o) THEN x ELSE bytes[c][o]]]
  BY DEF Filled, bpc
<1> HIDE DEF In
<1>2. \A c \in Clusters, o \in 0 .. bpc - 1 : (IF In(c, o) THEN x ELSE bytes[c][o]) \in Byte
  BY DEF Bytes
<1> QED
  BY <1>1, <1>2 DEF Bytes

(* bytes with d bytes x along s from the byte q on. *)
Put(bytes, s, q, d, x) == Filled(bytes, s, q, q + d - 1, x)

LEMMA FilledAt ==
  ASSUME NEW s \in Seq(Clusters), Distinct(s),
         NEW q \in Nat, NEW d \in Nat, q + d <= Len(s) * bpc, NEW bytes, NEW x,
         NEW k \in Nat, k < Len(s) * bpc
  PROVE  ByteAt(Put(bytes, s, q, d, x), s, k) =
           IF q <= k /\ k < q + d THEN x ELSE ByteAt(bytes, s, k)
<1> DEFINE In(c, o) ==
      \E m \in q .. q + d - 1 : s[m \div bpc + 1] = c /\ m % bpc = o
<1>1. Put(bytes, s, q, d, x) =
        [c \in Clusters |-> [o \in 0 .. bpc - 1 |-> IF In(c, o) THEN x ELSE bytes[c][o]]]
  BY DEF Put, Filled, bpc
<1>2. PICK c \in Clusters, o \in 0 .. bpc - 1 : c = s[k \div bpc + 1] /\ o = k % bpc
  BY AlongRow
<1>3. In(c, o) <=> q <= k /\ k < q + d
  <2>1. ASSUME q <= k, k < q + d
        PROVE  In(c, o)
    <3>1. k \in q .. q + d - 1
      BY <2>1
    <3> QED
      BY <1>2, <3>1
  <2>2. ASSUME NEW m \in q .. q + d - 1, s[m \div bpc + 1] = c, m % bpc = o
        PROVE  m = k
    <3>1. PICK l \in Nat : l = Len(s) * bpc
      <4>1. Len(s) * bpc \in Nat
        BY GeometryIs
      <4> QED
        BY <4>1
    <3>2. m \in Nat /\ m < Len(s) * bpc
      BY <3>1
    <3>3. m \div bpc \in Nat /\ m \div bpc + 1 \in 1 .. Len(s) /\ m = (m \div bpc) * bpc + (m % bpc)
      BY <3>2, AlongRow
    <3>4. k \div bpc \in Nat /\ k \div bpc + 1 \in 1 .. Len(s) /\ k = (k \div bpc) * bpc + (k % bpc)
      BY AlongRow
    <3>5. m \div bpc + 1 = k \div bpc + 1
      BY <1>2, <2>2, <3>3, <3>4 DEF Distinct
    <3>6. m \div bpc = k \div bpc
      BY <3>3, <3>4, <3>5
    <3> QED
      BY <1>2, <2>2, <3>3, <3>4, <3>6
  <2> QED
    BY <2>1, <2>2
<1> HIDE DEF In
<1>4. Put(bytes, s, q, d, x)[c][o] = IF In(c, o) THEN x ELSE bytes[c][o]
  BY <1>1
<1> QED
  BY <1>2, <1>3, <1>4 DEF ByteAt

LEMMA FilledElsewhere ==
  ASSUME NEW s \in Seq(Clusters), NEW q \in Nat, NEW d \in Nat, q + d <= Len(s) * bpc,
         NEW bytes \in Bytes, NEW x, NEW c \in Clusters, ~Has(s, c)
  PROVE  Put(bytes, s, q, d, x)[c] = bytes[c]
<1> DEFINE In(o) ==
      \E m \in q .. q + d - 1 : s[m \div bpc + 1] = c /\ m % bpc = o
<1>1. Put(bytes, s, q, d, x)[c] =
        [o \in 0 .. bpc - 1 |-> IF In(o) THEN x ELSE bytes[c][o]]
  BY DEF Put, Filled, bpc
<1>2. ASSUME NEW m \in q .. q + d - 1, s[m \div bpc + 1] = c
      PROVE  FALSE
  <2>1. PICK l \in Nat : l = Len(s) * bpc
    <3>1. Len(s) * bpc \in Nat
      BY GeometryIs
    <3> QED
      BY <3>1
  <2>2. m \in Nat /\ m < Len(s) * bpc
    BY <2>1
  <2>3. Has(s, s[m \div bpc + 1])
    BY <2>2, AlongRow
  <2> QED
    BY <1>2, <2>3
<1>3. \A o : ~In(o)
  BY <1>2
<1> HIDE DEF In
<1>4. Put(bytes, s, q, d, x)[c] = [o \in 0 .. bpc - 1 |-> bytes[c][o]]
  BY <1>1, <1>3
<1>5. bytes[c] = [o \in 0 .. bpc - 1 |-> bytes[c][o]]
  BY DEF Bytes
<1> QED
  BY <1>4, <1>5

(* The n bytes along row have become those along s: the bytes from q to    *)
(* q + d - 1 are x now, and a gap before them is filled with zeros.        *)
Effect(before, after, row, s, n, q, d, x) ==
  \A k \in Nat : k < (IF n < q + d THEN q + d ELSE n) =>
    ByteAt(after, s, k) = IF q <= k /\ k < q + d THEN x
                          ELSE IF k < n THEN ByteAt(before, row, k) ELSE 0

(* The row s begins with row. *)
Prolongs(s, row) == Len(row) <= Len(s) /\ \A i \in 1 .. Len(row) : s[i] = row[i]

LEMMA ByteFurther ==
  ASSUME NEW row \in Seq(Clusters), NEW s \in Seq(Clusters), Prolongs(s, row), NEW bytes,
         NEW k \in Nat, k < Len(row) * bpc
  PROVE  ByteAt(bytes, s, k) = ByteAt(bytes, row, k)
<1>1. PICK i \in 1 .. Len(row) : i = k \div bpc + 1
  BY AlongRow
<1>2. s[i] = row[i]
  BY DEF Prolongs
<1> QED
  BY <1>1, <1>2 DEF ByteAt

LEMMA StoredEffect ==
  ASSUME NEW row \in Seq(Clusters), NEW s \in Seq(Clusters), Prolongs(s, row), Distinct(s),
         NEW n \in Nat, n <= Len(row) * bpc, NEW q \in Nat, q <= n,
         NEW d \in Nat, q + d <= Len(s) * bpc, NEW bytes, NEW x
  PROVE  Effect(bytes, Put(bytes, s, q, d, x), row, s, n, q, d, x)
<1> DEFINE after == Put(bytes, s, q, d, x)
<1>1. ASSUME NEW k \in Nat, k < Len(s) * bpc
      PROVE  ByteAt(after, s, k) = IF q <= k /\ k < q + d THEN x ELSE ByteAt(bytes, s, k)
  BY <1>1, FilledAt
<1> HIDE DEF after
<1>2. ASSUME NEW k \in Nat, k < (IF n < q + d THEN q + d ELSE n)
      PROVE  ByteAt(after, s, k) = IF q <= k /\ k < q + d THEN x
                          ELSE IF k < n THEN ByteAt(bytes, row, k) ELSE 0
  <2>1. PICK l \in Nat, l0 \in Nat : l = Len(s) * bpc /\ l0 = Len(row) * bpc
    <3>1. Len(s) * bpc \in Nat /\ Len(row) * bpc \in Nat
      BY GeometryIs
    <3> QED
      BY <3>1
  <2>2. l0 <= l
    <3>1. PICK i \in Nat, j \in Nat : i = Len(row) /\ j = Len(s)
      OBVIOUS
    <3>2. i <= j
      BY <3>1 DEF Prolongs
    <3>3. i * bpc <= j * bpc
      BY <3>2, GeometryIs, Multiples
    <3> QED
      BY <2>1, <3>1, <3>3
  <2>3. k < l
    BY <1>2, <2>1, <2>2
  <2>4. ByteAt(after, s, k) = IF q <= k /\ k < q + d THEN x ELSE ByteAt(bytes, s, k)
    <3>1. k \in Nat /\ k < Len(s) * bpc
      BY <1>2, <2>1, <2>3
    <3> QED
      BY <1>1, <3>1
  <2>5. CASE q <= k /\ k < q + d
    BY <2>4, <2>5
  <2>6. CASE ~(q <= k /\ k < q + d)
    <3>1. k < n
      BY <1>2, <2>6
    <3>2. k < Len(row) * bpc
      BY <2>1, <3>1
    <3>3. ByteAt(bytes, s, k) = ByteAt(bytes, row, k)
      BY <3>2, ByteFurther
    <3> QED
      BY <2>4, <2>6, <3>1, <3>3
  <2> QED
    BY <2>5, <2>6
<1> QED
  BY <1>2 DEF Effect, after

(* An extension writes nothing at the new end, and fills the gap.          *)
LEMMA ExtendedEffect ==
  ASSUME NEW row \in Seq(Clusters), NEW s \in Seq(Clusters), Prolongs(s, row), Distinct(s),
         NEW n \in Nat, n <= Len(row) * bpc, NEW m \in Nat, n < m, m <= Len(s) * bpc,
         NEW bytes, NEW x
  PROVE  Effect(bytes, Filled(bytes, s, n, m - 1, 0), row, s, n, m, 0, x)
<1>1. PICK d \in Nat : d = m - n
  OBVIOUS
<1>2. n + d = m /\ n + d - 1 = m - 1
  BY <1>1
<1> DEFINE after == Put(bytes, s, n, d, 0)
<1>3. Effect(bytes, after, row, s, n, n, d, 0)
  <2>1. n + d <= Len(s) * bpc /\ n <= n /\ d \in Nat
    BY <1>1, <1>2
  <2> QED
    BY <2>1, StoredEffect
<1>4. after = Filled(bytes, s, n, m - 1, 0)
  BY <1>2 DEF Put
<1> HIDE DEF after
<1>5. Effect(bytes, after, row, s, n, m, 0, x)
  BY <1>1, <1>3 DEF Effect
<1> QED
  BY <1>4, <1>5

LEMMA EffectAfter ==
  ASSUME NEW row, NEW s, NEW t, NEW before, NEW bytes, NEW after, NEW n \in Nat, NEW m \in Nat,
         n < m, NEW d \in Nat, NEW x, Effect(before, bytes, row, s, n, m, 0, x),
         Effect(bytes, after, s, t, m, m, d, x)
  PROVE  Effect(before, after, row, t, n, m, d, x)
BY DEF Effect

LEMMA EffectFromEmpty ==
  ASSUME NEW row, NEW row2, NEW s, NEW before, NEW after, NEW n \in Nat, NEW q \in Nat,
         NEW d \in Nat, NEW x, Effect(before, after, row, s, n, q, d, x), row = row2 \/ n = 0
  PROVE  Effect(before, after, row2, s, n, q, d, x)
BY DEF Effect

(* The data of other rows are left alone. *)
OnlyIn(before, after, s) == \A c \in Clusters : ~Has(s, c) => after[c] = before[c]

-----------------------------------------------------------------------------
(* Write. *)

WroteTo(f, s, x, d) ==
  LET h == handle[f]
      q == WriteFrom(h)
  IN
  /\ Good(fat', entry', handle', With(Rows, f, s))
  /\ data' \in Bytes /\ OnlyIn(data, data', s)
  /\ handle' = [handle EXCEPT ![f] = handle'[f]]
  /\ handle'[f].mode = h.mode
  /\ handle'[f].size = IF h.size < q + d THEN q + d ELSE h.size
  /\ handle'[f].currentPosition =
       IF "append" \in h.mode THEN h.currentPosition ELSE h.currentPosition + d
  /\ Effect(data, data', Rows[f], s, h.size, q, d, x)

(* A handle is stored with the row of its file. *)
LEMMA StoreIs ==
  ASSUME IInv, NEW f \in Files, Opened(f), entry' = entry, NEW v, NEW h \in HandleType,
         Store(v, f, h), NEW s, Fits(v.fat, With(Rows, f, s)), HandleOK(h, s),
         h.mode = handle[f].mode, Behind(entry[f], h)
  PROVE  /\ Good(fat', entry', handle', With(Rows, f, s))
         /\ handle'[f] = h /\ data' = v.data
         /\ handle' = [handle EXCEPT ![f] = handle'[f]]
<1>1. Good(fat, entry, handle, Rows)
  BY DEF IInv
<1>2. entry \in [Files -> EntryType] /\ handle \in [Files -> HandleType]
  BY <1>1 DEF Good
<1>3. FileOK(entry[f], h, s)
  BY DEF FileOK, Opened
<1>4. Good(v.fat, [entry EXCEPT ![f] = entry[f]], [handle EXCEPT ![f] = h], With(Rows, f, s))
  BY <1>1, <1>2, <1>3, GoodWith
<1>5. [entry EXCEPT ![f] = entry[f]] = entry
  BY <1>2
<1>6. fat' = v.fat /\ data' = v.data /\ handle' = [handle EXCEPT ![f] = h]
  BY DEF Store
<1>7. handle'[f] = h
  BY <1>2, <1>6
<1> QED
  BY <1>4, <1>5, <1>6, <1>7

RulesKept == Rules = {"cut", "gap", "room", "border"}

LEMMA Concat ==
  ASSUME NEW s \in Seq(Clusters), NEW new \in Seq(Clusters)
  PROVE  s \o new \in Seq(Clusters) /\ Prolongs(s \o new, s)
BY DEF Prolongs

LEMMA ProlongsAgain ==
  ASSUME NEW s \in Seq(Clusters), NEW t \in Seq(Clusters), NEW u \in Seq(Clusters),
         Prolongs(t, s), Prolongs(u, t)
  PROVE  Prolongs(u, s)
<1>1. Len(s) \in Nat /\ Len(t) \in Nat /\ Len(u) \in Nat /\ Len(s) <= Len(t) /\ Len(t) <= Len(u)
  BY DEF Prolongs
<1>2. \A i \in 1 .. Len(s) : i \in 1 .. Len(t)
  BY <1>1
<1> QED
  BY <1>1, <1>2 DEF Prolongs

LEMMA FitsDistinct ==
  ASSUME NEW table, NEW r, NEW f \in Files, NEW s, r = [g \in Files |-> r[g]], Fits(table, With(r, f, s))
  PROVE  Distinct(s) /\ s \in Seq(Clusters)
<1>1. With(r, f, s)[f] = s
  BY WithAgain
<1>2. IsRow(table, s)
  BY <1>1 DEF Fits
<1> QED
  BY <1>2 DEF IsRow, Distinct

(* The bytes of a write are stored. *)
LEMMA WroteOnce ==
  ASSUME IInv, NEW f \in Files, "write" \in handle[f].mode, entry' = entry,
         NEW row, NEW v, Fits(v.fat, With(Rows, f, row)), v.data \in Bytes,
         NEW h, Ready(h, row), h.currentPosition <= h.size, h.mode = handle[f].mode,
         NEW n \in Nat \ {0}, NEW x \in Byte,
         NEW out \in Outcomes(v, IF "append" \in h.mode THEN h.appendPosition ELSE h.rwPosition, n, x),
         Store(out.volume, f, Wrote(h, out))
  PROVE  \E s \in Seq(Clusters), d \in 0 .. n :
           /\ Good(fat', entry', handle', With(Rows, f, s))
           /\ data' \in Bytes /\ OnlyIn(v.data, data', s) /\ Prolongs(s, row)
           /\ handle' = [handle EXCEPT ![f] = handle'[f]]
           /\ handle'[f].mode = h.mode
           /\ handle'[f].size = IF h.size < WriteFrom(h) + d THEN WriteFrom(h) + d ELSE h.size
           /\ handle'[f].currentPosition =
                IF "append" \in h.mode THEN h.currentPosition ELSE h.currentPosition + d
           /\ Effect(v.data, data', row, s, h.size, WriteFrom(h), d, x)
<1>1. Rows = [g \in Files |-> Rows[g]]
  BY DEF Rows
<1>2. PICK new \in Seq(Clusters) : WroteIn(v, Rows, f, h, n, x, out, row \o new)
  BY <1>1, WroteIs
<1>3. /\ row \in Seq(Clusters) /\ h.size \in Nat /\ h.currentPosition \in Nat
      /\ h.size <= Len(row) * bpc
  BY DEF Ready, HandleType, Nearly
<1>4. PICK s \in Seq(Clusters) : s = row \o new /\ Prolongs(s, row)
  BY <1>3, Concat
<1>5. WroteIn(v, Rows, f, h, n, x, out, s)
  BY <1>2, <1>4
<1>6. PICK d \in 0 .. n, q \in Nat : d = out.done /\ q = WriteFrom(h) /\ q <= h.size
  <2>1. out.done \in 0 .. n
    BY <1>5 DEF WroteIn
  <2>2. WriteFrom(h) \in Nat /\ WriteFrom(h) <= h.size
    BY <1>3 DEF WriteFrom
  <2> QED
    BY <2>1, <2>2
<1> DEFINE h2 == Wrote(h, out)
<1>7. /\ Fits(out.volume.fat, With(Rows, f, s)) /\ q + d <= Len(s) * bpc
      /\ out.volume.data = Filled(v.data, s, q, q + d - 1, x)
      /\ h2 \in HandleType /\ HandleOK(h2, s) /\ h2.mode = h.mode /\ h2.modified
      /\ h2.size = IF h.size < q + d THEN q + d ELSE h.size
      /\ h2.currentPosition = IF "append" \in h.mode THEN h.currentPosition ELSE h.currentPosition + d
  BY <1>5, <1>6 DEF WroteIn
<1>8. Store(out.volume, f, h2)
  OBVIOUS
<1> HIDE DEF h2
<1>9. Opened(f) /\ Behind(entry[f], h2)
  BY <1>7 DEF Opened, Behind
<1>10. /\ Good(fat', entry', handle', With(Rows, f, s))
       /\ handle'[f] = h2 /\ data' = out.volume.data
       /\ handle' = [handle EXCEPT ![f] = handle'[f]]
  BY <1>7, <1>8, <1>9, StoreIs
<1>11. data' = Put(v.data, s, q, d, x) /\ d \in Nat
  BY <1>7, <1>10 DEF Put
<1>12. data' \in Bytes
  BY <1>7, <1>10, FilledType
<1>13. OnlyIn(v.data, data', s)
  BY <1>7, <1>11, FilledElsewhere DEF OnlyIn
<1>14. Effect(v.data, data', row, s, h.size, q, d, x)
  <2>1. Distinct(s)
    BY <1>1, <1>7, FitsDistinct
  <2>2. Effect(v.data, Put(v.data, s, q, d, x), row, s, h.size, q, d, x)
    BY <1>3, <1>4, <1>6, <1>7, <1>11, <2>1, StoredEffect
  <2> QED
    BY <1>11, <2>2
<1> QED
  BY <1>4, <1>6, <1>7, <1>10, <1>12, <1>13, <1>14

(* A write after the first cluster is linked, and the gap is filled. *)
LEMMA WriteStep ==
  ASSUME IInv, RulesKept, NEW f \in Files, Write(f)
  PROVE  \/ UNCHANGED <<fat, data, entry, handle>>
         \/ \E s \in Seq(Clusters), x \in Byte, d \in 0 .. MaxLen : WroteTo(f, s, x, d)
<1> DEFINE h0 == handle[f]
           r0 == Rows[f]
<1>1. "write" \in h0.mode /\ entry' = entry /\ Opened(f)
  BY DEF Write, Opened
<1>2. PICK n \in 1 .. MaxLen, x \in Byte :
       \/ /\ Started(handle[f]) = {}
          /\ UNCHANGED <<fat, data, handle>>
       \/ \E s \in Started(handle[f]) :
            \/ /\ "append" \in s.h.mode
               /\ "gap" \in Rules => s.h.currentPosition <= s.h.size
               /\ \E o \in Outcomes(s.volume, s.h.appendPosition, n, x) :
                    Store(o.volume, f, Wrote(s.h, o))
            \/ /\ "append" \notin s.h.mode /\ s.h.currentPosition <= s.h.size
               /\ \E o \in Outcomes(s.volume, s.h.rwPosition, n, x) :
                    Store(o.volume, f, Wrote(s.h, o))
            \/ /\ "append" \notin s.h.mode /\ s.h.currentPosition > s.h.size
               /\ \E e \in Extend(s.volume, s.h, s.h.currentPosition) :
                    /\ HasRoom(e)
                    /\ IF e.ok
                       THEN \E o \in Outcomes(e.volume, e.h.rwPosition, n, x) :
                              Store(o.volume, f, Wrote(e.h, o))
                       ELSE Store(e.volume, f, e.h)
  BY DEF Write
<1>3. CASE Started(handle[f]) = {} /\ UNCHANGED <<fat, data, handle>>
  BY <1>1, <1>3
<1>4. ASSUME NEW st \in Started(handle[f]),
            \/ /\ "append" \in st.h.mode
               /\ "gap" \in Rules => st.h.currentPosition <= st.h.size
               /\ \E o \in Outcomes(st.volume, st.h.appendPosition, n, x) :
                    Store(o.volume, f, Wrote(st.h, o))
            \/ /\ "append" \notin st.h.mode /\ st.h.currentPosition <= st.h.size
               /\ \E o \in Outcomes(st.volume, st.h.rwPosition, n, x) :
                    Store(o.volume, f, Wrote(st.h, o))
            \/ /\ "append" \notin st.h.mode /\ st.h.currentPosition > st.h.size
               /\ \E e \in Extend(st.volume, st.h, st.h.currentPosition) :
                    /\ HasRoom(e)
                    /\ IF e.ok
                       THEN \E o \in Outcomes(e.volume, e.h.rwPosition, n, x) :
                              Store(o.volume, f, Wrote(e.h, o))
                       ELSE Store(e.volume, f, e.h)
      PROVE  \E s \in Seq(Clusters), d \in 0 .. MaxLen : WroteTo(f, s, x, d)
  <2>1. PICK row \in Seq(Clusters) :
           /\ Fits(st.volume.fat, With(Rows, f, row)) /\ st.volume.data = data
           /\ Ready(st.h, row)
           /\ st.h.mode = handle[f].mode /\ st.h.size = handle[f].size
           /\ st.h.currentPosition = handle[f].currentPosition
           /\ row = Rows[f] \/ handle[f].size = 0
    BY <1>1, StartedIs
  <2> DEFINE v == st.volume
             h == st.h
  <2>2. /\ h.size \in Nat /\ h.currentPosition \in Nat /\ h \in HandleType
        /\ data \in Bytes /\ v.data = data /\ n \in Nat \ {0} /\ n <= MaxLen
    BY <2>1, BoundsAssumption DEF Ready, HandleType, IInv
  <2>3. WriteFrom(h) = WriteFrom(h0) /\ WriteFrom(h) \in Nat
    BY <2>1, <2>2 DEF WriteFrom
  <2> HIDE DEF v, h
  <2>4. Ready(h, row) /\ Fits(v.fat, With(Rows, f, row)) /\ h.mode = h0.mode
        /\ h.size = h0.size /\ h.currentPosition = h0.currentPosition
    BY <2>1 DEF v, h
  <2>5. ASSUME h.currentPosition <= h.size,
               NEW o \in Outcomes(v, IF "append" \in h.mode THEN h.appendPosition ELSE h.rwPosition, n, x),
               Store(o.volume, f, Wrote(h, o))
        PROVE  \E s \in Seq(Clusters), d \in 0 .. MaxLen : WroteTo(f, s, x, d)
    <3>1. PICK s \in Seq(Clusters), d \in 0 .. n :
           /\ Good(fat', entry', handle', With(Rows, f, s))
           /\ data' \in Bytes /\ OnlyIn(v.data, data', s) /\ Prolongs(s, row)
           /\ handle' = [handle EXCEPT ![f] = handle'[f]]
           /\ handle'[f].mode = h.mode
           /\ handle'[f].size = IF h.size < WriteFrom(h) + d THEN WriteFrom(h) + d ELSE h.size
           /\ handle'[f].currentPosition =
                IF "append" \in h.mode THEN h.currentPosition ELSE h.currentPosition + d
           /\ Effect(v.data, data', row, s, h.size, WriteFrom(h), d, x)
      BY <1>1, <2>2, <2>4, <2>5, WroteOnce
    <3>2. d \in 0 .. MaxLen /\ d \in Nat
      BY <2>2, <3>1, BoundsAssumption
    <3>3. Effect(data, data', Rows[f], s, h.size, WriteFrom(h), d, x)
      BY <2>1, <2>2, <2>3, <2>4, <3>1, <3>2, EffectFromEmpty
    <3>4. WroteTo(f, s, x, d)
      BY <2>2, <2>3, <2>4, <3>1, <3>3 DEF WroteTo
    <3> QED
      BY <3>2, <3>4
  <2>6. CASE /\ "append" \in st.h.mode
             /\ "gap" \in Rules => st.h.currentPosition <= st.h.size
             /\ \E o \in Outcomes(st.volume, st.h.appendPosition, n, x) :
                  Store(o.volume, f, Wrote(st.h, o))
    BY <2>5, <2>6 DEF v, h, RulesKept
  <2>7. CASE /\ "append" \notin st.h.mode /\ st.h.currentPosition <= st.h.size
             /\ \E o \in Outcomes(st.volume, st.h.rwPosition, n, x) :
                  Store(o.volume, f, Wrote(st.h, o))
    BY <2>5, <2>7 DEF v, h
  <2>8. CASE /\ "append" \notin st.h.mode /\ st.h.currentPosition > st.h.size
             /\ \E e \in Extend(st.volume, st.h, st.h.currentPosition) :
                  /\ HasRoom(e)
                  /\ IF e.ok
                     THEN \E o \in Outcomes(e.volume, e.h.rwPosition, n, x) :
                            Store(o.volume, f, Wrote(e.h, o))
                     ELSE Store(e.volume, f, e.h)
    <3>1. PICK m \in Nat : m = h.currentPosition /\ m > h.size
      BY <2>2, <2>8 DEF h
    <3>2. PICK e \in Extend(v, h, m) :
                  /\ HasRoom(e)
                  /\ IF e.ok
                     THEN \E o \in Outcomes(e.volume, e.h.rwPosition, n, x) :
                            Store(o.volume, f, Wrote(e.h, o))
                     ELSE Store(e.volume, f, e.h)
      BY <2>8, <3>1 DEF v, h
    <3>3. e.ok
      BY <3>2 DEF HasRoom, RulesKept
    <3>4. PICK o \in Outcomes(e.volume, e.h.rwPosition, n, x) : Store(o.volume, f, Wrote(e.h, o))
      BY <3>2, <3>3
    <3>5. Rows = [g \in Files |-> Rows[g]]
      BY DEF Rows
    <3>6. PICK new \in Seq(Clusters) : ExtendedIn(v, Rows, f, h, row, m, e, row \o new)
      BY <2>4, <3>1, <3>3, <3>5, ExtendIs
    <3>7. PICK s1 \in Seq(Clusters) : s1 = row \o new /\ Prolongs(s1, row)
      BY Concat
    <3>8. /\ Fits(e.volume.fat, With(Rows, f, s1))
          /\ s1 # <<>> /\ BeginsWith(s1, h.start) /\ Sized(s1, m)
          /\ e.h = [h EXCEPT !.rwPosition = e.h.rwPosition, !.size = m]
          /\ Stands(e.h.rwPosition, m, s1) /\ e.h.rwPosition \in Places
          /\ e.volume.data = Filled(v.data, s1, h.size, m - 1, 0)
      BY <3>6, <3>7 DEF ExtendedIn
    <3>9. PICK h1 : h1 = e.h
      OBVIOUS
    <3>10. PICK place \in Places : place = e.h.rwPosition
      BY <3>8
    <3>11. h1 = [h EXCEPT !.rwPosition = place, !.size = m]
      BY <3>8, <3>9, <3>10
    <3>12. /\ h1 \in HandleType /\ h1.mode = h.mode /\ h1.start = h.start /\ h1.size = m
           /\ h1.rwPosition = place /\ h1.currentPosition = m
      BY <2>2, <3>1, <3>11 DEF HandleType
    <3>13. "append" \notin h.mode
      BY <2>8 DEF h
    <3>14. Placed(h1, s1)
      BY <3>8, <3>10, <3>12, <3>13 DEF Placed
    <3>15. Ready(h1, s1)
      BY <3>8, <3>12, <3>14 DEF Ready, Sized, Nearly
    <3>16. PICK w : w = e.volume
      OBVIOUS
    <3>17. w.data \in Bytes
      BY <2>2, <3>8, <3>16, FilledType, BytesAssumption
    <3>18. PICK s \in Seq(Clusters), d \in 0 .. n :
             /\ Good(fat', entry', handle', With(Rows, f, s))
             /\ data' \in Bytes /\ OnlyIn(w.data, data', s) /\ Prolongs(s, s1)
             /\ handle' = [handle EXCEPT ![f] = handle'[f]]
             /\ handle'[f].mode = h1.mode
             /\ handle'[f].size = IF h1.size < WriteFrom(h1) + d THEN WriteFrom(h1) + d ELSE h1.size
             /\ handle'[f].currentPosition =
                  IF "append" \in h1.mode THEN h1.currentPosition ELSE h1.currentPosition + d
             /\ Effect(w.data, data', s1, s, h1.size, WriteFrom(h1), d, x)
      <4>1. o \in Outcomes(w, IF "append" \in h1.mode THEN h1.appendPosition ELSE h1.rwPosition, n, x)
        BY <3>4, <3>9, <3>12, <3>13, <3>16
      <4>2. Store(o.volume, f, Wrote(h1, o))
        BY <3>4, <3>9
      <4>3. h1.currentPosition <= h1.size /\ h1.mode = handle[f].mode
        BY <2>4, <3>1, <3>12
      <4>4. Fits(w.fat, With(Rows, f, s1))
        BY <3>8, <3>16
      <4> QED
        BY <1>1, <2>2, <3>15, <3>17, <4>1, <4>2, <4>3, <4>4, WroteOnce
    <3>19. WriteFrom(h1) = m /\ WriteFrom(h) = m
      BY <3>1, <3>12, <3>13 DEF WriteFrom
    <3>20. d \in 0 .. MaxLen /\ d \in Nat
      BY <2>2, <3>18, BoundsAssumption
    <3>21. Distinct(s1) /\ Distinct(s)
      BY <3>5, <3>8, <3>18, FitsDistinct DEF Good
    <3>22. Effect(v.data, w.data, row, s1, h.size, m, 0, x)
      <4>1. /\ row \in Seq(Clusters) /\ h.size <= Len(row) * bpc /\ m <= Len(s1) * bpc
            /\ w.data = Filled(v.data, s1, h.size, m - 1, 0)
        BY <2>4, <3>8, <3>16 DEF Ready, Nearly, Sized
      <4> QED
        BY <2>2, <3>1, <3>7, <3>21, <4>1, ExtendedEffect
    <3>23. Effect(v.data, data', row, s, h.size, m, d, x)
      BY <2>2, <3>1, <3>12, <3>18, <3>19, <3>20, <3>22, EffectAfter
    <3>24. Effect(data, data', Rows[f], s, h.size, m, d, x)
      BY <2>1, <2>2, <2>4, <3>1, <3>20, <3>23, EffectFromEmpty
    <3>25. OnlyIn(data, data', s)
      <4>1. \A c : Has(s1, c) => Has(s, c)
        BY <3>18 DEF Has, Prolongs
      <4>2. OnlyIn(v.data, w.data, s1)
        <5>1. PICK k \in Nat : k = m - h.size
          BY <2>2, <3>1
        <5>2. h.size + k = m /\ h.size + k - 1 = m - 1
          BY <2>2, <3>1, <5>1
        <5>3. w.data = Put(v.data, s1, h.size, k, 0)
          BY <3>8, <3>16, <5>2 DEF Put
        <5>4. h.size + k <= Len(s1) * bpc
          BY <3>8, <5>2 DEF Sized
        <5> QED
          BY <2>2, <5>3, <5>4, FilledElsewhere DEF OnlyIn
      <4> QED
        BY <2>2, <3>18, <4>1, <4>2 DEF OnlyIn
    <3>26. handle'[f].size = IF h0.size < m + d THEN m + d ELSE h0.size
      BY <2>2, <2>4, <3>1, <3>12, <3>18, <3>19, <3>20
    <3>27. WroteTo(f, s, x, d)
      BY <2>2, <2>3, <2>4, <3>1, <3>12, <3>13, <3>18, <3>19, <3>24, <3>25, <3>26 DEF WroteTo
    <3> QED
      BY <3>20, <3>27
  <2> QED
    BY <1>4, <2>6, <2>7, <2>8
<1> QED
  BY <1>2, <1>3, <1>4

-----------------------------------------------------------------------------
(* Read and Seek. *)

(* A position in a row, and the clusters from it on. *)
TailAt(table, s, p, q, i, o) ==
  /\ p = At(s[i], o) /\ p.cluster = s[i] /\ p.offset = o
  /\ q = (i - 1) * bpc + o
  /\ Chain(table, p.cluster) = SubSeq(s, i, Len(s))

LEMMA TailOf ==
  ASSUME NEW table, NEW s, IsRow(table, s), NEW p, NEW q \in Nat, Stands(p, q, s)
  PROVE  \E i \in 1 .. Len(s), o \in 0 .. bpc : TailAt(table, s, p, q, i, o)
<1>1. PICK i \in 1 .. Len(s) : q - (i - 1) * bpc \in 0 .. bpc /\ p = At(s[i], q - (i - 1) * bpc)
  BY DEF Stands
<1>2. PICK o \in 0 .. bpc : o = q - (i - 1) * bpc
  BY <1>1
<1>3. (i - 1) * bpc \in Int
  BY GeometryIs
<1>4. p = At(s[i], o) /\ p.cluster = s[i] /\ p.offset = o
  BY <1>1, <1>2 DEF At
<1>5. q = (i - 1) * bpc + o
  BY <1>2, <1>3, GeometryIs
<1>6. Chain(table, s[i]) = SubSeq(s, i, Len(s))
  BY TailIs
<1> QED
  BY <1>4, <1>5, <1>6 DEF TailAt

(* The bytes along the end of a row are those of the row. *)
LEMMA ByteAlong ==
  ASSUME NEW s \in Seq(Clusters), NEW i \in 1 .. Len(s), NEW k \in Nat,
         k < (Len(s) - i + 1) * bpc, NEW bytes, NEW q \in Nat, q = (i - 1) * bpc + k
  PROVE  ByteAt(bytes, SubSeq(s, i, Len(s)), k) = ByteAt(bytes, s, q)
<1> DEFINE t == SubSeq(s, i, Len(s))
<1>1. PICK n \in Nat, j \in Nat : n = Len(s) - i + 1 /\ j = i - 1
  <2>1. Len(s) - i + 1 \in Nat /\ i - 1 \in Nat
    OBVIOUS
  <2> QED
    BY <2>1
<1>2. \A m \in 1 .. n : t[m] = s[j + m]
  BY <1>1
<1> HIDE DEF t
<1>3. k \div bpc \in Nat /\ k \div bpc < n
  BY <1>1, Within
<1>4. (j * bpc + k) \div bpc = j + (k \div bpc) /\ (j * bpc + k) % bpc = k % bpc
  BY <1>1, Shifted
<1>5. t[k \div bpc + 1] = s[j + (k \div bpc + 1)]
  BY <1>1, <1>2, <1>3
<1>6. j + (k \div bpc + 1) = j + (k \div bpc) + 1
  BY <1>1, <1>3
<1>7. q = j * bpc + k
  BY <1>1
<1>8. ByteAt(bytes, t, k) = ByteAt(bytes, s, q)
  BY <1>4, <1>5, <1>6, <1>7 DEF ByteAt
<1> QED
  BY <1>8 DEF t

(* A position at most at the end of a cluster. *)
LEMMA StandsAt ==
  ASSUME NEW s \in Seq(Clusters), NEW i \in 1 .. Len(s), NEW o \in 0 .. bpc,
         NEW q \in Nat, q = (i - 1) * bpc + o
  PROVE  Stands(At(s[i], o), q, s)
<1>1. (i - 1) * bpc \in Int
  BY GeometryIs
<1>2. q - (i - 1) * bpc = o
  BY <1>1, GeometryIs
<1> QED
  BY <1>2 DEF Stands

LEMMA AfterReadStands ==
  ASSUME NEW s \in Seq(Clusters), NEW i \in 1 .. Len(s), NEW end \in Nat \ {0},
         end <= (Len(s) - i + 1) * bpc, NEW q \in Nat, q = (i - 1) * bpc + end
  PROVE  Stands(AfterRead(SubSeq(s, i, Len(s)), end), q, s)
<1> DEFINE t == SubSeq(s, i, Len(s))
<1>1. PICK n \in Nat : n = Len(s) - i + 1
  OBVIOUS
<1>2. Len(t) = n /\ \A m \in 1 .. n : t[m] = s[i + m - 1]
  BY <1>1
<1>3. Stands(After(t, end), q, s)
  BY AfterStands
<1> HIDE DEF t
<1>4. PICK e \in Nat, o \in 0 .. bpc - 1 :
        e = end \div bpc /\ o = end % bpc /\ end = (end \div bpc) * bpc + (end % bpc)
  BY GeometryIs, DivMod
<1>5. CASE e < n
  <2>1. AfterRead(t, end) = At(t[e + 1], o)
    BY <1>2, <1>4, <1>5 DEF AfterRead, bpc
  <2>2. PICK l \in 1 .. Len(s) : l = i + e
    BY <1>1, <1>4, <1>5
  <2>3. t[e + 1] = s[l]
    <3>1. e + 1 \in 1 .. n /\ i + (e + 1) - 1 = l
      BY <1>1, <1>4, <1>5, <2>2
    <3> QED
      BY <1>2, <3>1
  <2>4. (l - 1) * bpc = (i - 1) * bpc + e * bpc
    <3>1. l - 1 = (i - 1) + e /\ i - 1 \in Int
      BY <2>2
    <3> QED
      BY <3>1, GeometryIs, Multiples
  <2>5. q = (l - 1) * bpc + o
    <3>1. (i - 1) * bpc \in Int /\ e * bpc \in Int
      BY <1>4, GeometryIs
    <3> QED
      BY <1>4, <2>4, <3>1
  <2>6. Stands(At(s[l], o), q, s)
    <3>1. o \in 0 .. bpc
      BY <1>4, GeometryIs
    <3> QED
      BY <2>5, <3>1, StandsAt
  <2> QED
    BY <2>1, <2>3, <2>6 DEF t
<1>6. CASE ~(e < n)
  <2>1. AfterRead(t, end) = After(t, end)
    BY <1>2, <1>4, <1>6 DEF AfterRead, bpc
  <2> QED
    BY <1>3, <2>1 DEF t
<1> QED
  BY <1>5, <1>6

(* Only the handle of one file changes. *)
LEMMA HandleIs ==
  ASSUME IInv, NEW f \in Files, Opened(f), fat' = fat, entry' = entry,
         NEW h \in HandleType, handle' = [handle EXCEPT ![f] = h],
         HandleOK(h, Rows[f]), h.mode = handle[f].mode, Behind(entry[f], h)
  PROVE  Good(fat', entry', handle', Rows) /\ handle'[f] = h
<1>1. Good(fat, entry, handle, Rows)
  BY DEF IInv
<1>2. /\ entry \in [Files -> EntryType] /\ handle \in [Files -> HandleType]
      /\ Fits(fat, Rows) /\ With(Rows, f, Rows[f]) = Rows
  BY <1>1, WithSame DEF Good, Fits
<1>3. FileOK(entry[f], h, Rows[f])
  BY DEF FileOK, Opened
<1>4. Good(fat, [entry EXCEPT ![f] = entry[f]], [handle EXCEPT ![f] = h], Rows)
  <2>1. PICK s : s = Rows[f]
    OBVIOUS
  <2>2. Fits(fat, With(Rows, f, s)) /\ FileOK(entry[f], h, s) /\ entry[f] \in EntryType
    BY <1>2, <1>3, <2>1
  <2>3. Good(fat, [entry EXCEPT ![f] = entry[f]], [handle EXCEPT ![f] = h], With(Rows, f, s))
    BY <1>1, <2>2, GoodWith
  <2> QED
    BY <1>2, <2>1, <2>3
<1>5. [entry EXCEPT ![f] = entry[f]] = entry
  BY <1>2
<1>6. handle'[f] = h
  BY <1>2
<1> QED
  BY <1>4, <1>5, <1>6

(* What a handle knows of its file. *)
LEMMA OpenedIs ==
  ASSUME IInv, NEW f \in Files, Opened(f)
  PROVE  /\ handle[f] \in HandleType /\ HandleOK(handle[f], Rows[f]) /\ Behind(entry[f], handle[f])
         /\ IsRow(fat, Rows[f]) /\ Rows[f] \in Seq(Clusters) /\ entry[f] \in EntryType
         /\ handle[f].start = CLUSTER_FREE <=> Rows[f] = <<>>
<1>1. Good(fat, entry, handle, Rows)
  BY DEF IInv
<1>2. /\ handle[f] \in HandleType /\ HandleOK(handle[f], Rows[f]) /\ Behind(entry[f], handle[f])
      /\ IsRow(fat, Rows[f]) /\ entry[f] \in EntryType
  BY <1>1, GoodIs DEF FileOK, Opened
<1>3. Rows[f] \in Seq(Clusters) /\ (Rows[f] # <<>> => Rows[f][1] \in Clusters)
  BY <1>2, RowIs
<1>4. handle[f].start \in Starts /\ BeginsWith(Rows[f], handle[f].start)
  BY <1>2 DEF HandleType, HandleOK
<1>5. handle[f].start = CLUSTER_FREE <=> Rows[f] = <<>>
  BY <1>3, <1>4, GeometryAssumption DEF BeginsWith, Starts
<1> QED
  BY <1>2, <1>3, <1>5

(* A read returns the bytes of the file from its place on. *)
ReadTo(f, n) ==
  LET h == handle[f]
      left == IF h.currentPosition < h.size THEN h.size - h.currentPosition ELSE 0
      got == IF n < left THEN n ELSE left
  IN
  /\ Good(fat', entry', handle', Rows) /\ fat' = fat /\ data' = data /\ entry' = entry
  /\ handle' = [handle EXCEPT ![f] = handle'[f]]
  /\ handle'[f].mode = h.mode /\ handle'[f].size = h.size
  /\ handle'[f].currentPosition = h.currentPosition + got
  /\ reply' = [k \in 1 .. got |-> ByteAt(data, Rows[f], (h.currentPosition + k) - 1)]

LEMMA ReadStep ==
  ASSUME IInv, RulesKept, NEW f \in Files, Read(f)
  PROVE  \E n \in 1 .. MaxLen : ReadTo(f, n)
<1> DEFINE h == handle[f]
           s == Rows[f]
           path == Chain(fat, h.rwPosition.cluster)
           from == h.rwPosition.offset
<1>1. "read" \in h.mode /\ Opened(f) /\ fat' = fat /\ data' = data /\ entry' = entry
  BY DEF Read, Opened
<1>2. PICK n \in 1 .. MaxLen :
       IF h.currentPosition >= h.size \/ h.start = CLUSTER_FREE
       THEN reply' = <<>> /\ UNCHANGED handle
       ELSE \E x \in OtherReads(h.rwPosition, Lesser(n, h.size - h.currentPosition)) :
              /\ reply' = x.bytes
              /\ handle' = [handle EXCEPT ![f].currentPosition = @ + Len(x.bytes),
                                          ![f].rwPosition = x.at]
  BY DEF Read, RulesKept
<1>3. /\ h \in HandleType /\ HandleOK(h, s) /\ Behind(entry[f], h)
      /\ IsRow(fat, s) /\ s \in Seq(Clusters) /\ (h.start = CLUSTER_FREE <=> s = <<>>)
      /\ handle \in [Files -> HandleType]
  <2>1. handle \in [Files -> HandleType]
    BY DEF IInv, Good
  <2> QED
    BY <1>1, <2>1, OpenedIs
<1>4. h.size \in Nat /\ h.currentPosition \in Nat /\ n \in Nat
  BY <1>3, BoundsAssumption DEF HandleType
<1>5. Good(fat, entry, handle, Rows)
  BY DEF IInv
<1>6. CASE h.currentPosition >= h.size \/ h.start = CLUSTER_FREE
  <2>1. reply' = <<>> /\ handle' = handle
    BY <1>2, <1>6
  <2>2. ~(h.currentPosition < h.size)
    <3>1. CASE h.start = CLUSTER_FREE
      <4>1. s = <<>> /\ Len(s) = 0 /\ h.size <= Len(s) * bpc /\ 0 * bpc = 0
        BY <1>3, <3>1, GeometryIs DEF HandleOK, Sized
      <4> QED
        BY <1>4, <4>1
    <3> QED
      BY <1>4, <1>6, <3>1
  <2>3. [k \in 1 .. 0 |-> ByteAt(data, s, (h.currentPosition + k) - 1)] = <<>>
    OBVIOUS
  <2>4. PICK got \in Nat : got = 0
    OBVIOUS
  <2>5. (IF h.currentPosition < h.size THEN h.size - h.currentPosition ELSE 0) = 0
    BY <2>2
  <2>6. (IF n < 0 THEN n ELSE 0) = 0
    BY <1>4
  <2>7. handle' = [handle EXCEPT ![f] = handle'[f]] /\ handle'[f] = h
    BY <1>3, <2>1
  <2>8. h.currentPosition + 0 = h.currentPosition
    BY <1>4
  <2> HIDE DEF h, s
  <2>9. ReadTo(f, n)
    BY <1>1, <1>5, <2>1, <2>3, <2>5, <2>6, <2>7, <2>8 DEF ReadTo, h, s
  <2> QED
    BY <2>9
<1>7. CASE ~(h.currentPosition >= h.size \/ h.start = CLUSTER_FREE)
  <2>1. PICK len \in Nat \ {0} :
          /\ len = Lesser(n, h.size - h.currentPosition)
          /\ len = IF n < h.size - h.currentPosition THEN n ELSE h.size - h.currentPosition
    BY <1>4, <1>7 DEF Lesser
  <2>3. Stands(h.rwPosition, h.currentPosition, s)
    BY <1>3, <1>4, <1>7 DEF HandleOK, Placed
  <2>4. PICK i \in 1 .. Len(s), o \in 0 .. bpc :
           /\ from = o /\ h.currentPosition = (i - 1) * bpc + o
           /\ path = SubSeq(s, i, Len(s))
    <3>1. PICK p : p = h.rwPosition
      OBVIOUS
    <3>2. PICK c \in Nat : p = h.rwPosition /\ c = h.currentPosition
      BY <1>4, <3>1
    <3>3. IsRow(fat, s) /\ Stands(p, c, s)
      BY <1>3, <2>3, <3>2
    <3> HIDE DEF s
    <3>4. PICK i \in 1 .. Len(s), o \in 0 .. bpc : TailAt(fat, s, p, c, i, o)
      BY <3>2, <3>3, TailOf
    <3> QED
      BY <3>2, <3>4 DEF TailAt
  <2>5. PICK m \in Nat, l \in Nat : m = Len(s) - i + 1 /\ l = m * bpc /\ Len(path) = m
    <3>1. Len(s) - i + 1 \in Nat /\ Len(path) = Len(s) - i + 1
      BY <1>3, <2>4
    <3>2. PICK m \in Nat : m = Len(s) - i + 1
      BY <3>1
    <3>3. m * bpc \in Nat
      BY GeometryIs
    <3> QED
      BY <3>1, <3>2, <3>3
  <2>6. PICK q \in Nat, e \in Nat \ {0} : q = h.currentPosition + len /\ e = o + len
    BY <1>4, <2>1, GeometryIs
  <2>7. e <= l /\ q = (i - 1) * bpc + e
    <3>1. (i - 1) * bpc \in Int /\ o \in Int /\ len \in Int
      BY GeometryIs
    <3>2. q = (i - 1) * bpc + e
      BY <2>4, <2>6, <3>1
    <3>3. PICK k \in Nat : k = i - 1 /\ Len(s) = k + m
      BY <1>3, <2>4, <2>5
    <3>4. (k + m) * bpc = k * bpc + l
      <4>1. (k + m) * bpc = k * bpc + m * bpc
        BY GeometryIs, Multiples
      <4>2. m * bpc = l
        BY <2>5
      <4> QED
        BY <4>1, <4>2
    <3>5. h.size <= (k + m) * bpc
      BY <1>3, <3>3 DEF HandleOK, Sized
    <3>6. q <= h.size
      BY <1>4, <1>7, <2>1, <2>6
    <3>7. PICK y \in Int : y = k * bpc
      BY GeometryIs
    <3>8. q <= y + l /\ q = y + e
      BY <1>4, <3>2, <3>3, <3>4, <3>5, <3>6, <3>7
    <3> QED
      BY <3>2, <3>7, <3>8
  <2>2. /\ reply' = [k \in 1 .. len |->
                  data[path[(from + k - 1) \div bpc + 1]][(from + k - 1) % bpc]]
        /\ handle' = [handle EXCEPT ![f].currentPosition = @ + len,
                                    ![f].rwPosition = AfterRead(path, from + len)]
    <3>1. PICK x \in OtherReads(h.rwPosition, len) :
            /\ reply' = x.bytes
            /\ handle' = [handle EXCEPT ![f].currentPosition = @ + Len(x.bytes),
                                        ![f].rwPosition = x.at]
      BY <1>2, <1>7, <2>1
    <3>2. PICK left \in Int : left = Len(path) * bytesPerCluster - from /\ len <= left
      <4>1. Len(path) * bytesPerCluster = l
        BY <2>5 DEF bpc
      <4> QED
        BY <2>4, <2>6, <2>7, <4>1
    <3>3. Lesser(len, left) = len
      BY <3>2 DEF Lesser
    <3>4. PICK b : /\ b = [k \in 1 .. len |->
                            data[path[(from + k - 1) \div bpc + 1]][(from + k - 1) % bpc]]
                   /\ x = [bytes |-> b, at |-> AfterRead(path, from + len)]
      BY <3>2, <3>3 DEF OtherReads, bpc
    <3>5. Len(b) = len
      <4> HIDE DEF path, from
      <4>1. DOMAIN b = 1 .. len /\ b = [k \in 1 .. len |-> b[k]]
        BY <3>4
      <4>2. len \in Nat
        BY <2>1
      <4> QED
        BY <4>1, <4>2
    <3>6. x.bytes = b /\ x.at = AfterRead(path, from + len)
      BY <3>4
    <3> HIDE DEF path, from
    <3> QED
      BY <3>1, <3>4, <3>5, <3>6
  <2> DEFINE place == AfterRead(path, from + len)
  <2>8. Stands(place, q, s)
    <3>1. e <= (Len(s) - i + 1) * bpc
      BY <2>5, <2>7
    <3>2. Stands(AfterRead(SubSeq(s, i, Len(s)), e), q, s)
      BY <1>3, <2>7, <3>1, AfterReadStands
    <3> QED
      BY <2>4, <2>6, <3>2
  <2>9. place \in Places
    BY <1>3, <2>8, StandsInRow
  <2> HIDE DEF place
  <2>10. q <= h.size
    BY <1>4, <1>7, <2>1, <2>6
  <2> DEFINE h2 == [h EXCEPT !.currentPosition = q, !.rwPosition = place]
  <2>11. handle' = [handle EXCEPT ![f] = h2]
    BY <1>3, <2>2, <2>6 DEF place
  <2>12. /\ h2 \in HandleType /\ h2.mode = h.mode /\ h2.start = h.start /\ h2.size = h.size
         /\ h2.modified = h.modified /\ h2.appendPosition = h.appendPosition
         /\ h2.currentPosition = q /\ h2.rwPosition = place
    BY <1>3, <2>9 DEF HandleType
  <2> HIDE DEF h2
  <2>13. HandleOK(h2, s) /\ Behind(entry[f], h2)
    BY <1>3, <2>8, <2>12 DEF HandleOK, Placed, Behind
  <2>14. Good(fat', entry', handle', Rows) /\ handle'[f] = h2
    BY <1>1, <2>11, <2>12, <2>13, HandleIs
  <2>15. reply' = [k \in 1 .. len |-> ByteAt(data, s, (h.currentPosition + k) - 1)]
    <3>1. ASSUME NEW k \in 1 .. len
          PROVE  data[path[(from + k - 1) \div bpc + 1]][(from + k - 1) % bpc] =
                 ByteAt(data, s, (h.currentPosition + k) - 1)
      <4>1. PICK y \in Nat : y = from + k - 1
        BY <2>4, GeometryIs
      <4>2. PICK z \in Nat : z = (h.currentPosition + k) - 1
        BY <1>4
      <4>3. (i - 1) * bpc \in Int
        BY GeometryIs
      <4>4. z = (i - 1) * bpc + y
        BY <2>4, <4>1, <4>2, <4>3, GeometryIs
      <4>5. y < (Len(s) - i + 1) * bpc
        BY <2>4, <2>5, <2>6, <2>7, <4>1, GeometryIs
      <4>6. ByteAt(data, SubSeq(s, i, Len(s)), y) = ByteAt(data, s, z)
        BY <1>3, <4>4, <4>5, ByteAlong
      <4> QED
        BY <2>4, <4>1, <4>2, <4>6 DEF ByteAt
    <3> HIDE DEF path, from, s
    <3> QED
      BY <2>2, <3>1
  <2>16. handle' = [handle EXCEPT ![f] = handle'[f]]
    BY <2>11, <2>14
  <2>17. (IF h.currentPosition < h.size THEN h.size - h.currentPosition ELSE 0) = h.size - h.currentPosition
    BY <1>4, <1>7
  <2> HIDE DEF h, s
  <2>18. ReadTo(f, n)
    BY <1>1, <2>1, <2>6, <2>12, <2>14, <2>15, <2>16, <2>17 DEF ReadTo, h, s
  <2> QED
    BY <2>18
<1> QED
  BY <1>6, <1>7

(* Where a seek to p begins: in the cluster of the byte p, or before it.   *)
Begins(table, s, p, from, i) ==
  /\ from.cluster = s[i] /\ from.index = i - 1 /\ i - 1 <= p \div bpc
  /\ Chain(table, from.cluster) = SubSeq(s, i, Len(s))

LEMMA SeekFromIs ==
  ASSUME NEW table, NEW s, IsRow(table, s), s # <<>>, NEW h \in HandleType, HandleOK(h, s),
         NEW p \in Nat, p <= h.size
  PROVE  \E i \in 1 .. Len(s) : Begins(table, s, p, SeekFrom(h, p), i)
<1> DEFINE from == SeekFrom(h, p)
<1>1. s \in Seq(Clusters) /\ Len(s) \in Nat \ {0} /\ 1 \in 1 .. Len(s) /\ s[1] \in Clusters
  BY RowIs
<1>2. h.size \in Nat /\ h.currentPosition \in Nat
  BY DEF HandleType
<1>3. PICK k \in Nat : k = p \div bpc
  BY GeometryIs, DivMod
<1>4. CASE p >= h.currentPosition
  <2>1. Stands(h.rwPosition, h.currentPosition, s)
    BY <1>2, <1>4 DEF HandleOK, Placed
  <2>2. PICK c \in Nat : c = h.currentPosition
    BY <1>2
  <2>3. PICK i \in 1 .. Len(s), o \in 0 .. bpc : TailAt(table, s, h.rwPosition, c, i, o)
    BY <2>1, <2>2, TailOf
  <2>4. PICK j \in Nat : j = i - 1
    BY <1>1
  <2>5. c = j * bpc + o /\ j * bpc \in Nat
    BY <2>3, <2>4, GeometryIs DEF TailAt
  <2>6. PICK q \in Nat : q = c \div bpc
    BY GeometryIs, DivMod
  <2>7. q - (IF o >= bpc THEN 1 ELSE 0) = j /\ j <= q
    <3>1. CASE o < bpc
      <4>1. o \in 0 .. bpc - 1
        BY <3>1, GeometryIs
      <4>2. q = j
        BY <2>5, <2>6, <4>1, GeometryIs, Quotient
      <4> QED
        BY <3>1, <4>2, GeometryIs
    <3>2. CASE o = bpc
      <4>1. 0 \in 0 .. bpc - 1 /\ (j + 1) * bpc = j * bpc + bpc
        BY GeometryIs, Multiples
      <4>2. PICK m \in Nat : m = j + 1
        OBVIOUS
      <4>3. m * bpc + 0 = c /\ m * bpc \in Nat
        BY <2>5, <3>2, <4>1, <4>2, GeometryIs
      <4>4. (m * bpc + 0) \div bpc = m
        BY <4>1, GeometryIs, Quotient
      <4>5. q = m
        BY <2>6, <4>3, <4>4
      <4> QED
        BY <3>2, <4>2, <4>5, GeometryIs
    <3> QED
      BY <3>1, <3>2, GeometryIs
  <2>8. from.cluster = h.rwPosition.cluster /\ from.index = j
    <3>1. from = [cluster |-> h.rwPosition.cluster,
                  index |-> q - (IF o >= bpc THEN 1 ELSE 0)]
      BY <1>4, <2>2, <2>3, <2>6 DEF SeekFrom, TailAt, bpc
    <3> QED
      BY <2>7, <3>1
  <2>9. j <= k
    <3>1. PICK r \in 0 .. bpc - 1 : p = k * bpc + r
      BY <1>3, GeometryIs, DivMod
    <3>2. k + 1 <= j => (k + 1) * bpc <= j * bpc
      BY <2>4, GeometryIs, Multiples
    <3>3. (k + 1) * bpc = k * bpc + bpc /\ k * bpc \in Nat
      BY GeometryIs, Multiples
    <3>4. ~(k + 1 <= j)
      BY <1>4, <2>2, <2>5, <3>1, <3>2, <3>3, GeometryIs
    <3> QED
      BY <3>4
  <2> HIDE DEF from
  <2>10. Begins(table, s, p, from, i)
    BY <1>3, <2>3, <2>4, <2>8, <2>9 DEF Begins, TailAt
  <2> QED
    BY <2>10 DEF from
<1>5. CASE ~(p >= h.currentPosition)
  <2>1. from = [cluster |-> h.start, index |-> 0]
    BY <1>5 DEF SeekFrom
  <2>2. h.start = s[1]
    BY DEF HandleOK, BeginsWith
  <2>3. Chain(table, s[1]) = SubSeq(s, 1, Len(s))
    BY <1>1, TailIs
  <2> HIDE DEF from
  <2>4. Begins(table, s, p, from, 1)
    BY <1>3, <2>1, <2>2, <2>3 DEF Begins
  <2> QED
    BY <1>1, <2>4 DEF from
<1> QED
  BY <1>4, <1>5

(* A seek leaves the handle at the place p. *)
SoughtTo(f, p) ==
  /\ Good(fat', entry', handle', Rows) /\ fat' = fat /\ data' = data /\ entry' = entry
  /\ handle' = [handle EXCEPT ![f] = handle'[f]]
  /\ handle'[f].mode = handle[f].mode /\ handle'[f].size = handle[f].size
  /\ handle'[f].currentPosition = p

LEMMA Sought ==
  ASSUME IInv, NEW f \in Files, Opened(f), fat' = fat, data' = data, entry' = entry,
         NEW p \in Nat, NEW place \in Places,
         Rows[f] # <<>> /\ p <= handle[f].size => Stands(place, p, Rows[f]),
         handle' = [handle EXCEPT ![f] =
           [handle[f] EXCEPT !.currentPosition = p, !.rwPosition = place]]
  PROVE  SoughtTo(f, p)
<1> DEFINE h == handle[f]
           h2 == [h EXCEPT !.currentPosition = p, !.rwPosition = place]
<1>1. h \in HandleType /\ HandleOK(h, Rows[f]) /\ Behind(entry[f], h)
  BY OpenedIs
<1>2. /\ h2 \in HandleType /\ h2.mode = h.mode /\ h2.start = h.start /\ h2.size = h.size
      /\ h2.modified = h.modified /\ h2.appendPosition = h.appendPosition
      /\ h2.currentPosition = p /\ h2.rwPosition = place
  BY <1>1 DEF HandleType
<1>3. handle' = [handle EXCEPT ![f] = h2]
  OBVIOUS
<1> HIDE DEF h2
<1>4. HandleOK(h2, Rows[f]) /\ Behind(entry[f], h2)
  BY <1>1, <1>2 DEF HandleOK, Placed, Behind
<1>5. Good(fat', entry', handle', Rows) /\ handle'[f] = h2
  BY <1>2, <1>3, <1>4, HandleIs
<1>6. handle' = [handle EXCEPT ![f] = handle'[f]]
  BY <1>3, <1>5
<1> QED
  BY <1>2, <1>5, <1>6 DEF SoughtTo

(* A seek finds a place for the byte p, at the end of the file too. *)
LEMMA SeekStep ==
  ASSUME IInv, NEW f \in Files, Seek(f)
  PROVE  \E p \in 0 .. MaxSize : SoughtTo(f, p)
<1> DEFINE h == handle[f]
           s == Rows[f]
<1>1. Opened(f) /\ fat' = fat /\ data' = data /\ entry' = entry
  BY DEF Seek
<1>2. PICK p \in 0 .. MaxSize :
       IF p > h.size \/ h.start = CLUSTER_FREE
       THEN handle' = [handle EXCEPT ![f].currentPosition = p]
       ELSE LET from  == SeekFrom(h, p)
                path  == Chain(fat, from.cluster)
                steps == p \div bytesPerCluster - from.index
                o     == p % bytesPerCluster
            IN  IF steps < Len(path)
                THEN handle' = [handle EXCEPT
                       ![f].currentPosition = p,
                       ![f].rwPosition = At(IF steps > 0 THEN path[steps + 1] ELSE from.cluster, o)]
                ELSE IF steps = Len(path) /\ h.size = p /\ o < bytesPerSector
                THEN handle' = [handle EXCEPT
                       ![f].currentPosition = p,
                       ![f].rwPosition = At(Last(path), bytesPerCluster)]
                ELSE handle' = [handle EXCEPT ![f].rwPosition.offset = o]
  BY DEF Seek
<1>3. /\ h \in HandleType /\ HandleOK(h, s) /\ IsRow(fat, s) /\ s \in Seq(Clusters)
      /\ (h.start = CLUSTER_FREE <=> s = <<>>) /\ handle \in [Files -> HandleType]
      /\ h.size \in Nat /\ h.rwPosition \in Places /\ p \in Nat
  <2>1. handle \in [Files -> HandleType]
    BY DEF IInv, Good
  <2>2. h \in HandleType /\ p \in Nat
    BY <1>2, <2>1, BoundsAssumption
  <2> QED
    BY <1>1, <2>1, <2>2, OpenedIs DEF HandleType
<1>4. ASSUME NEW place \in Places, s # <<>> /\ p <= h.size => Stands(place, p, s),
             handle' = [handle EXCEPT ![f].currentPosition = p, ![f].rwPosition = place]
      PROVE  SoughtTo(f, p)
  <2>1. handle' = [handle EXCEPT ![f] = [handle[f] EXCEPT !.currentPosition = p, !.rwPosition = place]]
    BY <1>3, <1>4
  <2> QED
    BY <1>1, <1>3, <1>4, <2>1, Sought
<1>5. CASE p > h.size \/ h.start = CLUSTER_FREE
  <2>1. handle' = [handle EXCEPT ![f].currentPosition = p, ![f].rwPosition = h.rwPosition]
    <3>1. handle' = [handle EXCEPT ![f].currentPosition = p]
      BY <1>2, <1>5
    <3>2. [h EXCEPT !.currentPosition = p] = [h EXCEPT !.currentPosition = p, !.rwPosition = h.rwPosition]
      BY <1>3 DEF HandleType
    <3> QED
      BY <1>3, <3>1, <3>2
  <2>2. ~(s # <<>> /\ p <= h.size)
    BY <1>3, <1>5
  <2> QED
    BY <1>3, <1>4, <2>1, <2>2
<1>6. CASE ~(p > h.size \/ h.start = CLUSTER_FREE)
  <2>1. s # <<>> /\ p <= h.size
    BY <1>3, <1>6
  <2> DEFINE from == SeekFrom(h, p)
             path == Chain(fat, from.cluster)
  <2>2. PICK i \in 1 .. Len(s) : Begins(fat, s, p, from, i)
    <3>1. PICK t : t = s
      OBVIOUS
    <3>2. PICK i \in 1 .. Len(t) : Begins(fat, t, p, from, i)
      BY <1>3, <2>1, <3>1, SeekFromIs
    <3> QED
      BY <3>1, <3>2
  <2>3. PICK k \in Nat, o \in 0 .. bpc - 1 : k = p \div bpc /\ o = p % bpc /\ p = k * bpc + o
    BY <1>3, GeometryIs, DivMod
  <2>4. PICK l \in Nat \ {0}, j \in Nat : l = Len(s) /\ j = i - 1 /\ j < l
    BY <1>3, <2>2
  <2>5. from.cluster = s[i] /\ from.index = j /\ j <= k /\ path = SubSeq(s, i, Len(s))
    BY <2>2, <2>3, <2>4 DEF Begins
  <2>6. PICK steps \in Nat : steps = k - j
    BY <2>3, <2>4, <2>5
  <2>7. Len(path) = l - j /\ \A m \in 1 .. l - j : path[m] = s[j + m]
    BY <1>3, <2>4, <2>5
  <2>8. h.size <= l * bpc /\ l * bpc \in Nat
    BY <1>3, <2>4, GeometryIs DEF HandleOK, Sized
  <2> HIDE DEF from, path
  <2>9. IF steps < l - j
        THEN handle' = [handle EXCEPT
                       ![f].currentPosition = p,
                       ![f].rwPosition = At(IF steps > 0 THEN path[steps + 1] ELSE from.cluster, o)]
        ELSE IF steps = l - j /\ h.size = p /\ o < bytesPerSector
        THEN handle' = [handle EXCEPT
                       ![f].currentPosition = p,
                       ![f].rwPosition = At(Last(path), bpc)]
        ELSE handle' = [handle EXCEPT ![f].rwPosition.offset = o]
    BY <1>2, <1>6, <2>3, <2>5, <2>6, <2>7 DEF from, path, bpc
  <2>10. CASE k < l
    <3>1. PICK m \in 1 .. Len(s) : m = k + 1
      BY <2>3, <2>4, <2>10
    <3>2. (IF steps > 0 THEN path[steps + 1] ELSE from.cluster) = s[m]
      <4>1. CASE steps > 0
        <5>1. steps + 1 \in 1 .. l - j /\ j + (steps + 1) = m
          BY <2>4, <2>6, <2>10, <3>1
        <5> QED
          BY <2>7, <4>1, <5>1
      <4>2. CASE ~(steps > 0)
        BY <2>2, <2>4, <2>5, <2>6, <3>1, <4>2
      <4> QED
        BY <4>1, <4>2
    <3>3. steps < l - j
      BY <2>4, <2>6, <2>10
    <3>4. handle' = [handle EXCEPT ![f].currentPosition = p, ![f].rwPosition = At(s[m], o)]
      BY <2>9, <3>2, <3>3
    <3>5. Stands(At(s[m], o), p, s)
      <4>1. m - 1 = k /\ o \in 0 .. bpc
        BY <3>1, GeometryIs
      <4>2. p = (m - 1) * bpc + o
        BY <2>3, <4>1
      <4>3. PICK t \in Seq(Clusters) : t = s
        BY <1>3
      <4>4. Stands(At(t[m], o), p, t)
        BY <1>3, <4>1, <4>2, <4>3, StandsAt
      <4> QED
        BY <4>3, <4>4
    <3>6. At(s[m], o) \in Places
      BY <1>3, <3>5, StandsInRow
    <3> HIDE DEF h, s
    <3> QED
      BY <1>4, <3>4, <3>5, <3>6 DEF h, s
  <2>11. CASE ~(k < l)
    <3>1. l * bpc <= k * bpc /\ k * bpc \in Nat
      BY <2>3, <2>4, <2>11, GeometryIs, Multiples
    <3>2. p = l * bpc /\ h.size = p /\ o = 0
      BY <1>3, <2>1, <2>3, <2>8, <3>1
    <3>3. k = l
      <4>1. l < k => (l + 1) * bpc <= k * bpc
        BY <2>3, <2>4, GeometryIs, Multiples
      <4>2. (l + 1) * bpc = l * bpc + bpc
        BY <2>4, GeometryIs, Multiples
      <4>3. k * bpc = l * bpc
        <5>1. PICK y \in Nat : y = k * bpc
          BY <3>1
        <5>2. p = y + o /\ o = 0
          BY <2>3, <3>2, <5>1
        <5>3. p = y
          BY <5>2
        <5> QED
          BY <3>2, <5>1, <5>3
      <4>4. ~(l < k)
        BY <2>8, <4>1, <4>2, <4>3, GeometryIs
      <4> QED
        BY <2>3, <2>4, <2>11, <4>4
    <3>4. steps = l - j /\ ~(steps < l - j) /\ o < bytesPerSector
      BY <2>4, <2>6, <3>2, <3>3, GeometryAssumption
    <3>5. handle' = [handle EXCEPT ![f].currentPosition = p, ![f].rwPosition = At(Last(path), bpc)]
      BY <2>9, <3>2, <3>4
    <3>6. PICK m \in 1 .. Len(s) : m = l
      BY <2>4
    <3>7. Last(path) = s[m]
      <4>1. l - j \in 1 .. l - j /\ j + (l - j) = m
        BY <2>4, <3>6
      <4> QED
        BY <2>7, <4>1 DEF Last
    <3>8. Stands(At(s[m], bpc), p, s)
      <4>1. PICK n \in Nat : n = m - 1
        BY <2>4, <3>6
      <4>2. (n + 1) * bpc = n * bpc + bpc /\ n + 1 = l
        BY <3>6, <4>1, GeometryIs, Multiples
      <4>3. p = (m - 1) * bpc + bpc
        BY <3>2, <4>1, <4>2
      <4>4. bpc \in 0 .. bpc
        BY GeometryIs
      <4>5. PICK t \in Seq(Clusters) : t = s
        BY <1>3
      <4>6. Stands(At(t[m], bpc), p, t)
        BY <1>3, <4>3, <4>4, <4>5, StandsAt
      <4> QED
        BY <4>5, <4>6
    <3>9. At(s[m], bpc) \in Places
      BY <1>3, <3>8, StandsInRow
    <3> HIDE DEF h, s
    <3> QED
      BY <1>4, <3>5, <3>7, <3>8, <3>9 DEF h, s
  <2> QED
    BY <2>10, <2>11
<1> QED
  BY <1>2, <1>5, <1>6

-----------------------------------------------------------------------------
(* Truncate. *)

(* The n bytes along row have become m bytes along s. *)
Resized(before, after, row, s, n, m) ==
  \A k \in Nat : k < m => ByteAt(after, s, k) = IF k < n THEN ByteAt(before, row, k) ELSE 0

ResizedTo(f, s, n) ==
  /\ Good(fat', entry', handle', With(Rows, f, s))
  /\ data' \in Bytes /\ OnlyIn(data, data', s)
  /\ handle' = [handle EXCEPT ![f] = handle'[f]]
  /\ handle'[f].mode = handle[f].mode
  /\ handle'[f].size = n /\ handle'[f].currentPosition = handle[f].currentPosition
  /\ Resized(data, data', Rows[f], s, handle[f].size, n)

LEMMA ResizedBy ==
  ASSUME NEW before, NEW after, NEW row, NEW s, NEW n \in Nat, NEW m \in Nat, n < m,
         Effect(before, after, row, s, n, m, 0, 0)
  PROVE  Resized(before, after, row, s, n, m)
BY DEF Effect, Resized

(* A truncation that lets the file grow. *)
LEMMA GrowStep ==
  ASSUME IInv, RulesKept, NEW f \in Files, "write" \in handle[f].mode, entry' = entry,
         NEW n \in Nat, n > handle[f].size, handle[f].currentPosition <= handle[f].size,
         NEW st \in Started(handle[f]), NEW e \in Extend(st.volume, st.h, n), HasRoom(e),
         Store(e.volume, f, Grown(st.h, e, n))
  PROVE  \E s \in Seq(Clusters) : ResizedTo(f, s, n)
<1>1. Opened(f) /\ Rows = [g \in Files |-> Rows[g]]
  BY DEF Opened, Rows
<1>2. PICK row \in Seq(Clusters) :
         /\ Fits(st.volume.fat, With(Rows, f, row)) /\ st.volume.data = data
         /\ Ready(st.h, row)
         /\ st.h.mode = handle[f].mode /\ st.h.size = handle[f].size
         /\ st.h.currentPosition = handle[f].currentPosition
         /\ row = Rows[f] \/ handle[f].size = 0
  BY <1>1, StartedIs
<1> DEFINE v == st.volume
           h == st.h
<1>3. /\ h.size \in Nat /\ h.currentPosition \in Nat /\ h \in HandleType
      /\ data \in Bytes /\ v.data = data /\ Placed(h, row) /\ h.size <= Len(row) * bpc
  BY <1>2 DEF Ready, HandleType, IInv, Nearly
<1> HIDE DEF v, h
<1>4. /\ Ready(h, row) /\ Fits(v.fat, With(Rows, f, row)) /\ h.mode = handle[f].mode
      /\ h.size = handle[f].size /\ h.currentPosition = handle[f].currentPosition
      /\ e \in Extend(v, h, n) /\ Store(e.volume, f, Grown(h, e, n))
  BY <1>2 DEF v, h
<1>5. e.ok
  BY DEF HasRoom, RulesKept
<1>6. PICK new \in Seq(Clusters) : ExtendedIn(v, Rows, f, h, row, n, e, row \o new)
  BY <1>1, <1>4, <1>5, ExtendIs
<1>7. PICK s \in Seq(Clusters) : s = row \o new /\ Prolongs(s, row)
  BY <1>2, Concat
<1>8. /\ Fits(e.volume.fat, With(Rows, f, s))
      /\ s # <<>> /\ BeginsWith(s, h.start) /\ Sized(s, n)
      /\ e.h = [h EXCEPT !.rwPosition = e.h.rwPosition, !.size = n]
      /\ Stands(e.h.rwPosition, n, s) /\ e.h.rwPosition \in Places
      /\ \A k, place : Stands(place, k, row) => Stands(place, k, s)
      /\ e.volume.data = Filled(v.data, s, h.size, n - 1, 0)
  BY <1>6, <1>7 DEF ExtendedIn
<1>9. PICK place \in Places : place = e.h.rwPosition
  BY <1>8
<1> DEFINE h2 == Grown(h, e, n)
<1>10. h2 = [h EXCEPT !.rwPosition = h.rwPosition, !.size = n, !.modified = TRUE,
               !.appendPosition = IF "append" \in h.mode THEN place ELSE h.appendPosition]
  <2>1. e.h = [h EXCEPT !.rwPosition = place, !.size = n]
    BY <1>8, <1>9
  <2> QED
    BY <1>3, <1>9, <2>1 DEF Grown, HandleType
<1>11. /\ h2 \in HandleType /\ h2.mode = h.mode /\ h2.start = h.start /\ h2.size = n
       /\ h2.rwPosition = h.rwPosition /\ h2.currentPosition = h.currentPosition /\ h2.modified
       /\ "append" \in h.mode => h2.appendPosition = place
  BY <1>3, <1>9, <1>10 DEF HandleType
<1>12. Store(e.volume, f, h2)
  BY <1>4
<1> HIDE DEF h2
<1>13. Placed(h2, s)
  <2>1. Stands(h.rwPosition, h.currentPosition, s)
    BY <1>3, <1>4, <1>8 DEF Placed
  <2> QED
    BY <1>8, <1>9, <1>11, <2>1 DEF Placed
<1>14. HandleOK(h2, s) /\ Behind(entry[f], h2)
  BY <1>4, <1>8, <1>11, <1>13 DEF HandleOK, Behind
<1>15. /\ Good(fat', entry', handle', With(Rows, f, s))
       /\ handle'[f] = h2 /\ data' = e.volume.data
       /\ handle' = [handle EXCEPT ![f] = handle'[f]]
  BY <1>1, <1>4, <1>8, <1>11, <1>12, <1>14, StoreIs
<1>16. Distinct(s)
  BY <1>1, <1>8, FitsDistinct
<1>17. PICK d \in Nat : d = n - h.size
  BY <1>3, <1>4
<1>18. data' = Put(data, s, h.size, d, 0) /\ h.size + d = n /\ n <= Len(s) * bpc
  <2>1. h.size + d = n /\ h.size + d - 1 = n - 1
    BY <1>3, <1>17
  <2> QED
    BY <1>3, <1>8, <1>15, <2>1 DEF Put, Sized
<1>19. data' \in Bytes
  BY <1>3, <1>8, <1>15, FilledType, BytesAssumption
<1>20. OnlyIn(data, data', s)
  BY <1>3, <1>18, FilledElsewhere DEF OnlyIn
<1>21. Effect(data, data', row, s, h.size, n, 0, 0)
  <2>1. data' = Filled(data, s, h.size, n - 1, 0)
    BY <1>3, <1>8, <1>15
  <2>2. h.size < n
    BY <1>4
  <2> QED
    BY <1>2, <1>3, <1>7, <1>16, <1>18, <2>1, <2>2, ExtendedEffect
<1>22. Effect(data, data', Rows[f], s, h.size, n, 0, 0)
  BY <1>2, <1>3, <1>4, <1>21, EffectFromEmpty
<1>23. Resized(data, data', Rows[f], s, h.size, n)
  BY <1>3, <1>4, <1>22, ResizedBy
<1>24. ResizedTo(f, s, n)
  BY <1>4, <1>11, <1>15, <1>19, <1>20, <1>23 DEF ResizedTo
<1> QED
  BY <1>24

(* A file that is cut to nothing has no clusters. *)
LEMMA ClearedRow ==
  ASSUME NEW r, NEW table, Fits(table, r), NEW f \in Files, NEW c \in Starts, BeginsWith(r[f], c)
  PROVE  /\ Fits(Cleared(table, c), With(r, f, <<>>))
         /\ BeginsWith(<<>>, CLUSTER_FREE) /\ Sized(<<>>, 0)
<1>1. Len(<<>>) * bpc = 0 /\ 0 < 0 + bpc
  BY GeometryIs
<1>2. Sized(<<>>, 0)
  BY <1>1 DEF Sized
<1> QED
  BY <1>2, FitsCleared, GeometryAssumption DEF BeginsWith

(* The row of a file that is cut to n bytes. *)
CutRow(s, n, m) ==
  /\ m = (n - 1) \div bpc + 1 /\ m \in 1 .. Len(s)
  /\ Sized(SubSeq(s, 1, m), n)
  /\ Stands(At(s[m], ((n - 1) % bpc) + 1), n, SubSeq(s, 1, m))
  /\ n = m * bpc => n % bpc = 0
  /\ n <= m * bpc

LEMMA CutRowIs ==
  ASSUME NEW s \in Seq(Clusters), NEW n \in Nat \ {0}, n <= Len(s) * bpc
  PROVE  \E m \in Nat : CutRow(s, n, m)
<1>1. PICK m \in Nat \ {0} :
           /\ m = (n - 1) \div bpc + 1
           /\ n <= m * bpc /\ m * bpc < n + bpc
           /\ n - (m - 1) * bpc = ((n - 1) % bpc) + 1
           /\ n = m * bpc => n % bpc = 0
           /\ \A l \in Nat : n <= l * bpc => m <= l
  BY LengthFor
<1>2. PICK l \in Nat : l = Len(s)
  OBVIOUS
<1>3. m <= l
  BY <1>1, <1>2
<1> DEFINE t == SubSeq(s, 1, m)
<1>4. /\ t \in Seq(Clusters) /\ Len(t) = m /\ m \in 1 .. Len(s) /\ m \in 1 .. Len(t)
      /\ t[m] = s[m]
  BY <1>2, <1>3
<1> HIDE DEF t
<1>5. Sized(t, n)
  BY <1>1, <1>4 DEF Sized
<1>6. PICK o \in Nat : o = ((n - 1) % bpc) + 1 /\ o \in 0 .. bpc
  <2>1. PICK k \in Nat : k = n - 1
    OBVIOUS
  <2>2. k % bpc \in 0 .. bpc - 1
    BY GeometryIs, DivMod
  <2>3. PICK j \in 0 .. bpc - 1 : j = k % bpc
    BY <2>2
  <2>4. j + 1 \in 0 .. bpc /\ j + 1 \in Nat
    BY GeometryIs
  <2> QED
    BY <2>1, <2>3, <2>4
<1>7. Stands(At(s[m], o), n, t)
  <2>1. (m - 1) * bpc \in Int
    BY <1>1, GeometryIs
  <2>2. n - (m - 1) * bpc = o
    BY <1>1, <1>6
  <2> QED
    BY <1>4, <1>6, <2>2 DEF Stands
<1>8. CutRow(s, n, m)
  BY <1>1, <1>4, <1>5, <1>6, <1>7 DEF CutRow, t
<1> QED
  BY <1>8

(* The bytes of a file that is cut stay. *)
LEMMA BytesOfCut ==
  ASSUME NEW s \in Seq(Clusters), NEW m \in 1 .. Len(s), NEW n \in Nat, n <= m * bpc,
         NEW l \in Nat, n <= l, NEW bytes
  PROVE  Resized(bytes, bytes, s, SubSeq(s, 1, m), l, n)
<1> DEFINE t == SubSeq(s, 1, m)
<1>1. t \in Seq(Clusters) /\ Len(t) = m /\ m \in Nat /\ \A i \in 1 .. m : t[i] = s[i]
  OBVIOUS
<1> HIDE DEF t
<1>2. Prolongs(s, t)
  BY <1>1 DEF Prolongs
<1>3. ASSUME NEW k \in Nat, k < n
      PROVE  ByteAt(bytes, t, k) = IF k < l THEN ByteAt(bytes, s, k) ELSE 0
  <2>1. m * bpc \in Nat
    BY <1>1, GeometryIs
  <2>2. k < Len(t) * bpc /\ k < l
    BY <1>1, <1>3, <2>1
  <2>3. ByteAt(bytes, s, k) = ByteAt(bytes, t, k)
    BY <1>1, <1>2, <1>3, <2>2, ByteFurther
  <2> QED
    BY <2>2, <2>3
<1>4. Resized(bytes, bytes, s, t, l, n)
  BY <1>3 DEF Resized
<1> QED
  BY <1>4 DEF t

(* A handle that is stored with a row of its own. *)
LEMMA CutStored ==
  ASSUME IInv, NEW f \in Files, "write" \in handle[f].mode, entry' = entry, data' = data,
         NEW n \in Nat, NEW h \in HandleType, handle' = [handle EXCEPT ![f] = h],
         NEW s \in Seq(Clusters), Fits(fat', With(Rows, f, s)), HandleOK(h, s), h.modified,
         h.mode = handle[f].mode, h.size = n, h.currentPosition = handle[f].currentPosition,
         Resized(data, data, Rows[f], s, handle[f].size, n)
  PROVE  ResizedTo(f, s, n)
<1>1. PICK v : v = [fat |-> fat', data |-> data']
  OBVIOUS
<1>2. v.fat = fat' /\ v.data = data'
  BY <1>1
<1>3. Opened(f) /\ Behind(entry[f], h) /\ Store(v, f, h)
  BY <1>2 DEF Opened, Behind, Store
<1>4. /\ Good(fat', entry', handle', With(Rows, f, s))
      /\ handle'[f] = h /\ handle' = [handle EXCEPT ![f] = handle'[f]]
  BY <1>2, <1>3, StoreIs
<1>5. data \in Bytes /\ OnlyIn(data, data', s)
  BY DEF IInv, OnlyIn
<1> QED
  BY <1>4, <1>5 DEF ResizedTo

LEMMA EmptyStep ==
  ASSUME IInv, NEW f \in Files, "write" \in handle[f].mode, entry' = entry, data' = data,
         fat' = Cleared(fat, handle[f].start), handle' = [handle EXCEPT ![f] = Cut(handle[f], 0)]
  PROVE  ResizedTo(f, <<>>, 0)
<1> DEFINE h == handle[f]
           h2 == Cut(h, 0)
<1>1. Opened(f) /\ Fits(fat, Rows)
  BY DEF Opened, IInv, Good
<1>2. h \in HandleType /\ HandleOK(h, Rows[f]) /\ h.start \in Starts
  BY <1>1, OpenedIs DEF HandleType
<1>3. /\ Fits(fat', With(Rows, f, <<>>))
      /\ BeginsWith(<<>>, CLUSTER_FREE) /\ Sized(<<>>, 0)
  BY <1>1, <1>2, ClearedRow DEF HandleOK
<1>4. At(CLUSTER_FREE, 0) \in Places /\ CLUSTER_FREE \in Starts
  BY GeometryIs DEF At, Places, Starts
<1>5. PICK place \in Places :
        h2 = [h EXCEPT !.size = 0, !.modified = TRUE, !.start = CLUSTER_FREE, !.appendPosition = place]
  <2>1. PICK place : place = IF "append" \in h.mode THEN At(CLUSTER_FREE, 0) ELSE h.appendPosition
    OBVIOUS
  <2>2. place \in Places
    BY <1>2, <1>4, <2>1 DEF HandleType
  <2>3. h2 = [h EXCEPT !.size = 0, !.modified = TRUE, !.start = CLUSTER_FREE, !.appendPosition = place]
    BY <2>1 DEF Cut
  <2> QED
    BY <2>2, <2>3
<1>6. /\ h2 \in HandleType /\ h2.mode = h.mode /\ h2.start = CLUSTER_FREE /\ h2.size = 0
      /\ h2.currentPosition = h.currentPosition /\ h2.modified
  <2>1. PICK c \in Starts, z \in Nat : c = CLUSTER_FREE /\ z = 0
    BY <1>4
  <2>2. h2 = [h EXCEPT !.size = z, !.modified = TRUE, !.start = c, !.appendPosition = place]
    BY <1>5, <2>1
  <2>3. h \in HandleType
    BY <1>2
  <2> HIDE DEF h, h2
  <2>4. h2 \in HandleType
    BY <1>5, <2>1, <2>2, <2>3 DEF HandleType
  <2>5. /\ h2.mode = h.mode /\ h2.start = c /\ h2.size = z
        /\ h2.currentPosition = h.currentPosition /\ h2.modified
    BY <2>2, <2>3 DEF HandleType
  <2> QED
    BY <2>1, <2>4, <2>5
<1>7. handle' = [handle EXCEPT ![f] = h2]
  OBVIOUS
<1> HIDE DEF h2
<1>8. HandleOK(h2, <<>>)
  BY <1>3, <1>6 DEF HandleOK
<1>9. Resized(data, data, Rows[f], <<>>, h.size, 0)
  BY DEF Resized
<1>10. <<>> \in Seq(Clusters) /\ 0 \in Nat
  OBVIOUS
<1> QED
  BY <1>3, <1>6, <1>7, <1>8, <1>9, <1>10, CutStored

LEMMA CutStep ==
  ASSUME IInv, RulesKept, NEW f \in Files, "write" \in handle[f].mode, entry' = entry, data' = data,
         NEW n \in Nat \ {0}, n < handle[f].size,
         ~(n % bpc = 0 /\ handle[f].currentPosition = n),
         fat' = Trimmed(fat, handle[f].start, (n - 1) \div bpc + 1),
         handle' = [handle EXCEPT ![f] = Cut(handle[f], n)]
  PROVE  \E s \in Seq(Clusters) : ResizedTo(f, s, n)
<1> DEFINE h == handle[f]
           s == Rows[f]
           h2 == Cut(h, n)
<1>1. Opened(f) /\ Fits(fat, Rows)
  BY DEF Opened, IInv, Good
<1>2. /\ h \in HandleType /\ HandleOK(h, s) /\ h.start \in Starts /\ IsRow(fat, s)
      /\ s \in Seq(Clusters) /\ h.size \in Nat /\ h.currentPosition \in Nat
  BY <1>1, OpenedIs DEF HandleType
<1>3. n <= Len(s) * bpc /\ s # <<>>
  <2>1. h.size <= Len(s) * bpc /\ Len(s) * bpc \in Nat
    BY <1>2, GeometryIs DEF HandleOK, Sized
  <2>2. 0 * bpc = 0
    BY GeometryIs
  <2>3. Len(s) # 0
    BY <1>2, <2>1, <2>2
  <2> QED
    BY <1>2, <2>1, <2>3
<1>4. PICK m \in Nat : CutRow(s, n, m)
  <2>1. PICK t \in Seq(Clusters) : t = s
    BY <1>2
  <2>2. PICK m \in Nat : CutRow(t, n, m)
    BY <1>3, <2>1, CutRowIs
  <2> QED
    BY <2>1, <2>2
<1>5. PICK t \in Seq(Clusters) : t = SubSeq(s, 1, m)
  <2>1. SubSeq(s, 1, m) \in Seq(Clusters)
    BY <1>2, <1>4 DEF CutRow
  <2> QED
    BY <2>1
<1>6. /\ m = (n - 1) \div bpc + 1 /\ m \in 1 .. Len(s) /\ Sized(t, n)
      /\ Stands(At(s[m], ((n - 1) % bpc) + 1), n, t)
      /\ n = m * bpc => n % bpc = 0
      /\ n <= m * bpc
  BY <1>4, <1>5 DEF CutRow
<1>7. h.start = s[1] /\ BeginsWith(t, h.start)
  <2>1. h.start = s[1]
    BY <1>2, <1>3 DEF HandleOK, BeginsWith
  <2>2. t # <<>> /\ t[1] = s[1]
    BY <1>2, <1>5, <1>6
  <2> QED
    BY <2>1, <2>2 DEF BeginsWith
<1>8. Fits(fat', With(Rows, f, t))
  <2>1. PICK a : a = (n - 1) \div bpc + 1
    OBVIOUS
  <2>2. a = m /\ fat' = Trimmed(fat, Rows[f][1], m)
    BY <1>6, <1>7, <2>1
  <2> QED
    BY <1>1, <1>5, <1>6, <2>2, FitsTrimmed
<1>9. Chain(fat, h.start) = s
  BY <1>2, ChainIs DEF HandleOK
<1>10. PICK place \in Places : place = At(s[m], ((n - 1) % bpc) + 1)
  <2>1. PICK p : p = At(s[m], ((n - 1) % bpc) + 1)
    OBVIOUS
  <2>2. Stands(p, n, t)
    BY <1>6, <2>1
  <2>3. p \in Places
    BY <2>2, StandsInRow
  <2> QED
    BY <2>1, <2>3
<1>11. h2 = [h EXCEPT !.size = n, !.modified = TRUE,
               !.appendPosition = IF "append" \in h.mode THEN place ELSE @]
  <2>1. Chain(fat, h.start)[(n - 1) \div bpc + 1] = s[m]
    BY <1>6, <1>9
  <2> QED
    BY <1>10, <2>1 DEF Cut, bpc
<1>12. /\ h2 \in HandleType /\ h2.mode = h.mode /\ h2.start = h.start /\ h2.size = n
       /\ h2.rwPosition = h.rwPosition /\ h2.currentPosition = h.currentPosition /\ h2.modified
       /\ "append" \in h.mode => h2.appendPosition = place
  BY <1>2, <1>11 DEF HandleType
<1>13. handle' = [handle EXCEPT ![f] = h2]
  OBVIOUS
<1> HIDE DEF h2
<1>14. Placed(h2, t)
  <2>1. ASSUME h.currentPosition <= n
        PROVE  Stands(h.rwPosition, h.currentPosition, t)
    <3>1. Stands(h.rwPosition, h.currentPosition, s)
      BY <1>2, <1>3, <2>1 DEF HandleOK, Placed
    <3>2. h.currentPosition < m * bpc
      <4>1. PICK y \in Nat : y = m * bpc
        BY GeometryIs
      <4>2. n <= y /\ (n = y => n % bpc = 0)
        BY <1>6, <4>1
      <4>3. ~(h.currentPosition = n /\ n = y)
        BY <4>2
      <4> QED
        BY <1>2, <2>1, <4>1, <4>2, <4>3
    <3>3. PICK c, p : c \in Nat /\ c = h.currentPosition /\ p = h.rwPosition
      BY <1>2
    <3>4. Stands(p, c, SubSeq(s, 1, m))
      BY <1>2, <1>6, <3>1, <3>2, <3>3, StandsCut
    <3> QED
      BY <1>5, <3>3, <3>4
  <2>2. Stands(place, n, t)
    BY <1>6, <1>10
  <2> QED
    BY <1>12, <2>1, <2>2 DEF Placed
<1>15. HandleOK(h2, t)
  BY <1>6, <1>7, <1>12, <1>14 DEF HandleOK
<1>16. Resized(data, data, s, t, h.size, n)
  <2>1. PICK l \in Nat, u \in Seq(Clusters) : l = h.size /\ u = s
    BY <1>2
  <2>2. Resized(data, data, u, SubSeq(u, 1, m), l, n)
    BY <1>6, <2>1, BytesOfCut
  <2> QED
    BY <1>5, <2>1, <2>2
<1>17. ResizedTo(f, t, n)
  BY <1>8, <1>12, <1>13, <1>15, <1>16, CutStored
<1> QED
  BY <1>5, <1>17

LEMMA SameStep ==
  ASSUME IInv, NEW f \in Files, "write" \in handle[f].mode, entry' = entry, data' = data,
         fat' = fat, handle' = [handle EXCEPT ![f].modified = TRUE]
  PROVE  \E s \in Seq(Clusters) : ResizedTo(f, s, handle[f].size)
<1> DEFINE h == handle[f]
           h2 == [h EXCEPT !.modified = TRUE]
<1>1. Opened(f) /\ Fits(fat, Rows) /\ With(Rows, f, Rows[f]) = Rows
  BY WithSame DEF Opened, IInv, Good, Fits
<1>2. /\ h \in HandleType /\ HandleOK(h, Rows[f]) /\ h.size \in Nat
      /\ Rows[f] \in Seq(Clusters)
  BY <1>1, OpenedIs DEF HandleType
<1>3. /\ h2 \in HandleType /\ h2.mode = h.mode /\ h2.start = h.start /\ h2.size = h.size
      /\ h2.rwPosition = h.rwPosition /\ h2.currentPosition = h.currentPosition /\ h2.modified
      /\ h2.appendPosition = h.appendPosition
  BY <1>2 DEF HandleType
<1>4. handle' = [handle EXCEPT ![f] = h2]
  OBVIOUS
<1> HIDE DEF h2
<1>5. HandleOK(h2, Rows[f])
  BY <1>2, <1>3 DEF HandleOK, Placed
<1>6. Resized(data, data, Rows[f], Rows[f], h.size, h.size)
  BY <1>2 DEF Resized
<1>7. PICK s \in Seq(Clusters) : s = Rows[f]
  BY <1>2
<1>8. Fits(fat', With(Rows, f, s)) /\ HandleOK(h2, s) /\ Resized(data, data, Rows[f], s, h.size, h.size)
  BY <1>1, <1>5, <1>6, <1>7
<1>9. ResizedTo(f, s, h.size)
  BY <1>2, <1>3, <1>4, <1>8, CutStored
<1> QED
  BY <1>7, <1>9

(* A truncation resizes the file, or fails with nothing done. *)
LEMMA TruncateStep ==
  ASSUME IInv, RulesKept, NEW f \in Files, Truncate(f)
  PROVE  \/ UNCHANGED <<fat, data, entry, handle>>
         \/ \E n \in 0 .. MaxSize, s \in Seq(Clusters) : ResizedTo(f, s, n)
<1> DEFINE h == handle[f]
<1>1. "write" \in h.mode /\ entry' = entry
  BY DEF Truncate
<1>2. PICK n \in 0 .. MaxSize :
       \/ /\ n > h.size
          /\ "gap" \in Rules => h.currentPosition <= h.size
          /\ \/ Started(h) = {} /\ UNCHANGED <<fat, data, handle>>
             \/ \E s \in Started(h) : \E e \in Extend(s.volume, s.h, n) :
                  HasRoom(e) /\ Store(e.volume, f, Grown(s.h, e, n))
       \/ /\ n < h.size
          /\ "cut" \in Rules =>
               ~ (n > 0 /\ n % bytesPerCluster = 0 /\ h.currentPosition = n)
          /\ fat' = IF n = 0 THEN Cleared(fat, h.start)
                    ELSE Trimmed(fat, h.start, (n - 1) \div bytesPerCluster + 1)
          /\ handle' = [handle EXCEPT ![f] = Cut(h, n)]
          /\ UNCHANGED data
       \/ /\ n = h.size
          /\ handle' = [handle EXCEPT ![f].modified = TRUE]
          /\ UNCHANGED <<fat, data>>
  BY DEF Truncate
<1>3. n \in Nat /\ {"cut", "gap", "room"} \subseteq Rules
  BY BoundsAssumption DEF RulesKept
<1>4. CASE /\ n > h.size
           /\ "gap" \in Rules => h.currentPosition <= h.size
           /\ \/ Started(h) = {} /\ UNCHANGED <<fat, data, handle>>
              \/ \E s \in Started(h) : \E e \in Extend(s.volume, s.h, n) :
                   HasRoom(e) /\ Store(e.volume, f, Grown(s.h, e, n))
  <2>1. CASE Started(h) = {} /\ UNCHANGED <<fat, data, handle>>
    BY <1>1, <2>1
  <2>2. CASE \E s \in Started(h) : \E e \in Extend(s.volume, s.h, n) :
                   HasRoom(e) /\ Store(e.volume, f, Grown(s.h, e, n))
    <3>1. n > h.size /\ h.currentPosition <= h.size
      BY <1>3, <1>4
    <3>2. PICK st \in Started(h) : \E e \in Extend(st.volume, st.h, n) :
                   HasRoom(e) /\ Store(e.volume, f, Grown(st.h, e, n))
      BY <2>2
    <3>3. PICK e \in Extend(st.volume, st.h, n) : HasRoom(e) /\ Store(e.volume, f, Grown(st.h, e, n))
      BY <3>2
    <3> QED
      BY <1>1, <1>3, <3>1, <3>2, <3>3, GrowStep
  <2> QED
    BY <1>4, <2>1, <2>2
<1>5. CASE /\ n < h.size
           /\ "cut" \in Rules =>
                ~ (n > 0 /\ n % bytesPerCluster = 0 /\ h.currentPosition = n)
           /\ fat' = IF n = 0 THEN Cleared(fat, h.start)
                     ELSE Trimmed(fat, h.start, (n - 1) \div bytesPerCluster + 1)
           /\ handle' = [handle EXCEPT ![f] = Cut(h, n)]
           /\ UNCHANGED data
  <2>1. CASE n = 0
    <3>1. ResizedTo(f, <<>>, 0)
      BY <1>1, <1>5, <2>1, EmptyStep
    <3>2. 0 \in 0 .. MaxSize /\ <<>> \in Seq(Clusters)
      BY BoundsAssumption
    <3> QED
      BY <3>1, <3>2
  <2>2. CASE n # 0
    <3>1. /\ n \in Nat \ {0} /\ n < h.size /\ data' = data
          /\ ~(n % bpc = 0 /\ h.currentPosition = n)
          /\ fat' = Trimmed(fat, h.start, (n - 1) \div bpc + 1)
          /\ handle' = [handle EXCEPT ![f] = Cut(h, n)]
      BY <1>3, <1>5, <2>2 DEF bpc
    <3>2. \E s \in Seq(Clusters) : ResizedTo(f, s, n)
      BY <1>1, <3>1, CutStep
    <3> QED
      BY <3>2
  <2> QED
    BY <2>1, <2>2
<1>6. CASE /\ n = h.size
           /\ handle' = [handle EXCEPT ![f].modified = TRUE]
           /\ UNCHANGED <<fat, data>>
  BY <1>1, <1>6, SameStep
<1> QED
  BY <1>2, <1>4, <1>5, <1>6

-----------------------------------------------------------------------------
(* Open, Fsync, Close, Unmount and Unlink. *)

(* A handle on the row s of a file of n bytes is at their beginning.       *)
OpenedOn(f, s, n) ==
  /\ Good(fat', entry', handle', With(Rows, f, s))
  /\ data' = data /\ entry' = entry
  /\ handle' = [handle EXCEPT ![f] = handle'[f]]
  /\ handle'[f].mode \in Modes
  /\ handle'[f].size = n /\ handle'[f].currentPosition = 0
  /\ \/ s = Rows[f] /\ n = entry[f].size
     \/ s = <<>> /\ n = 0 /\ "write" \in handle'[f].mode

(* What a handle that is opened on the row s looks like. *)
LEMMA FreshIs ==
  ASSUME NEW table, NEW s, IsRow(table, s), NEW h, NEW start \in Starts, NEW n \in Nat,
         BeginsWith(s, start), Sized(s, n),
         h.start = start, h.size = n, h.currentPosition = 0, h.rwPosition = At(start, 0),
         "append" \in h.mode /\ s # <<>> =>
           h.appendPosition = At(Last(s), IF n > 0 /\ n % bpc = 0 THEN bpc ELSE n % bpc)
  PROVE  HandleOK(h, s)
<1>1. s \in Seq(Clusters)
  BY RowIs
<1>2. ASSUME s # <<>>
      PROVE  Placed(h, s)
  <2>1. start = s[1]
    BY <1>2 DEF BeginsWith
  <2>2. Stands(h.rwPosition, h.currentPosition, s)
    BY <1>1, <1>2, <2>1, StartStands
  <2>3. Nearly(s, n)
    BY DEF Nearly, Sized
  <2>4. PICK o : o = IF n > 0 /\ n % bpc = 0 THEN bpc ELSE n % bpc
    OBVIOUS
  <2>5. Stands(At(Last(s), o), n, s)
    BY <1>1, <1>2, <2>3, <2>4, EndStands
  <2>6. "append" \in h.mode => Stands(h.appendPosition, n, s)
    BY <1>2, <2>4, <2>5
  <2> QED
    BY <2>2, <2>6 DEF Placed
<1> QED
  BY <1>2 DEF HandleOK

(* A file is opened as its entry says. *)
LEMMA OpenStored ==
  ASSUME IInv, NEW f \in Files, data' = data, entry' = entry,
         NEW h \in HandleType, handle' = [handle EXCEPT ![f] = h], h.mode \in Modes,
         NEW s, Fits(fat', With(Rows, f, s)), HandleOK(h, s), Behind(entry[f], h),
         h.currentPosition = 0,
         \/ s = Rows[f] /\ h.size = entry[f].size
         \/ s = <<>> /\ h.size = 0 /\ "write" \in h.mode
  PROVE  OpenedOn(f, s, h.size)
<1>1. Good(fat, entry, handle, Rows)
  BY DEF IInv
<1>2. entry \in [Files -> EntryType] /\ handle \in [Files -> HandleType]
  BY <1>1 DEF Good
<1>3. h.mode # {}
  BY ModesAssumption
<1>4. FileOK(entry[f], h, s)
  BY <1>3 DEF FileOK
<1>5. Good(fat', [entry EXCEPT ![f] = entry[f]], [handle EXCEPT ![f] = h], With(Rows, f, s))
  BY <1>1, <1>2, <1>4, GoodWith
<1>6. [entry EXCEPT ![f] = entry[f]] = entry /\ handle'[f] = h
  BY <1>2
<1> QED
  BY <1>5, <1>6 DEF OpenedOn

LEMMA OpenStep ==
  ASSUME IInv, NEW f \in Files, Open(f)
  PROVE  \E s, n : OpenedOn(f, s, n)
<1> DEFINE e == entry[f]
           s0 == Rows[f]
<1>1. ~Opened(f) /\ data' = data /\ entry' = entry
  BY DEF Open
<1>2. Good(fat, entry, handle, Rows) /\ Fits(fat, Rows) /\ Rows = [g \in Files |-> Rows[g]]
  BY DEF IInv, Good, Rows
<1>3. /\ e \in EntryType /\ e.start \in Starts /\ e.size \in Nat /\ EntryOK(e, s0)
      /\ IsRow(fat, s0) /\ With(Rows, f, s0) = Rows
  BY <1>1, <1>2, GoodIs, WithSame DEF FileOK, Opened, EntryType
<1>4. PICK mode \in Modes, trunc \in BOOLEAN :
       LET cuts  == trunc /\ "write" \in mode /\ entry[f].start # CLUSTER_FREE
           start == IF cuts THEN CLUSTER_FREE ELSE entry[f].start
           h     == [Closed EXCEPT !.mode = mode, !.start = start, !.modified = cuts,
                                   !.size = IF cuts THEN 0 ELSE entry[f].size,
                                   !.rwPosition = At(start, 0)]
       IN  /\ fat' = IF cuts THEN Cleared(fat, entry[f].start) ELSE fat
           /\ handle' = [handle EXCEPT ![f] =
                [h EXCEPT !.appendPosition =
                   IF "append" \notin mode THEN @
                   ELSE IF start = CLUSTER_FREE THEN At(CLUSTER_FREE, 0)
                   ELSE EndOf([volume EXCEPT !.fat = fat], h)]]
  BY DEF Open
<1>5. CLUSTER_FREE \in Starts /\ At(CLUSTER_FREE, 0) \in Places
  BY GeometryIs DEF At, Places, Starts
<1>6. CASE trunc /\ "write" \in mode /\ e.start # CLUSTER_FREE
  <2>1. PICK h0 : h0 = [Closed EXCEPT !.mode = mode, !.start = CLUSTER_FREE, !.modified = TRUE,
                                     !.size = 0, !.rwPosition = At(CLUSTER_FREE, 0)]
    OBVIOUS
  <2>2. PICK h : h = [h0 EXCEPT !.appendPosition = At(CLUSTER_FREE, 0)]
    OBVIOUS
  <2>a. fat' = Cleared(fat, e.start) /\ handle' = [handle EXCEPT ![f] = h]
    <3>1. /\ fat' = Cleared(fat, e.start)
          /\ handle' = [handle EXCEPT ![f] =
               [h0 EXCEPT !.appendPosition =
                  IF "append" \notin mode THEN @
                  ELSE IF CLUSTER_FREE = CLUSTER_FREE THEN At(CLUSTER_FREE, 0)
                  ELSE EndOf([volume EXCEPT !.fat = fat], h0)]]
      BY <1>4, <1>6, <2>1
    <3>2. h0.appendPosition = At(CLUSTER_FREE, 0)
      BY <2>1 DEF Closed
    <3> QED
      BY <2>2, <3>1, <3>2
  <2>b. /\ h.mode = mode /\ h.start = CLUSTER_FREE /\ h.size = 0 /\ h.currentPosition = 0
        /\ h.modified
        /\ h = [mode |-> mode, start |-> CLUSTER_FREE, size |-> 0, currentPosition |-> 0,
                rwPosition |-> At(CLUSTER_FREE, 0), appendPosition |-> At(CLUSTER_FREE, 0),
                modified |-> TRUE]
    BY <2>1, <2>2 DEF Closed
  <2>3. h \in HandleType
    BY <1>4, <1>5, <2>b DEF HandleType
  <2>4. /\ Fits(fat', With(Rows, f, <<>>))
        /\ BeginsWith(<<>>, CLUSTER_FREE) /\ Sized(<<>>, 0)
    BY <1>2, <1>3, <2>a, ClearedRow DEF EntryOK
  <2>5. HandleOK(h, <<>>)
    BY <2>4, <2>b DEF HandleOK
  <2>6. Behind(e, h)
    BY <1>6, <2>b DEF Behind
  <2>7. OpenedOn(f, <<>>, h.size)
    BY <1>1, <1>4, <1>6, <2>a, <2>3, <2>4, <2>b, <2>5, <2>6, OpenStored
  <2> QED
    BY <2>7
<1>7. CASE ~(trunc /\ "write" \in mode /\ e.start # CLUSTER_FREE)
  <2>1. PICK h0 : h0 = [Closed EXCEPT !.mode = mode, !.start = e.start, !.modified = FALSE,
                                     !.size = e.size, !.rwPosition = At(e.start, 0)]
    OBVIOUS
  <2>2. PICK place : place = IF "append" \notin mode THEN At(CLUSTER_FREE, 0)
                             ELSE IF e.start = CLUSTER_FREE THEN At(CLUSTER_FREE, 0)
                             ELSE EndOf([volume EXCEPT !.fat = fat], h0)
    OBVIOUS
  <2>3. h0.appendPosition = At(CLUSTER_FREE, 0) /\ h0.start = e.start /\ h0.size = e.size
    BY <2>1 DEF Closed
  <2>4. PICK h : h = [h0 EXCEPT !.appendPosition = place]
    OBVIOUS
  <2>5. fat' = fat /\ handle' = [handle EXCEPT ![f] = h]
    <3>1. /\ fat' = fat
          /\ handle' = [handle EXCEPT ![f] =
               [h0 EXCEPT !.appendPosition =
                  IF "append" \notin mode THEN @
                  ELSE IF e.start = CLUSTER_FREE THEN At(CLUSTER_FREE, 0)
                  ELSE EndOf([volume EXCEPT !.fat = fat], h0)]]
      BY <1>4, <1>7, <2>1
    <3> QED
      BY <2>2, <2>3, <2>4, <3>1
  <2>6. /\ h.mode = mode /\ h.start = e.start /\ h.size = e.size /\ h.currentPosition = 0
        /\ h.rwPosition = At(e.start, 0) /\ h.appendPosition = place /\ h.modified = FALSE
        /\ h = [mode |-> mode, start |-> e.start, size |-> e.size, currentPosition |-> 0,
                rwPosition |-> At(e.start, 0), appendPosition |-> place, modified |-> FALSE]
    BY <2>1, <2>4 DEF Closed
  <2>7. ASSUME "append" \in mode, s0 # <<>>
        PROVE  place = At(Last(s0), IF e.size > 0 /\ e.size % bpc = 0 THEN bpc ELSE e.size % bpc)
    <3>1. e.start # CLUSTER_FREE
      <4>1. s0[1] \in Clusters
        BY <1>3, <2>7, RowIs
      <4> QED
        BY <1>3, <2>7, <4>1, GeometryAssumption DEF EntryOK, BeginsWith
    <3>2. Chain(fat, e.start) = s0
      BY <1>3, ChainIs DEF EntryOK
    <3>3. [volume EXCEPT !.fat = fat].fat = fat
      BY DEF volume
    <3> QED
      BY <2>2, <2>3, <2>7, <3>1, <3>2, <3>3 DEF EndOf, bpc
  <2>8. BeginsWith(s0, e.start) /\ Sized(s0, e.size)
    BY <1>3 DEF EntryOK
  <2>9. HandleOK(h, s0)
    BY <1>3, <2>6, <2>7, <2>8, FreshIs
  <2>10. place \in Places
    <3>1. CASE "append" \in mode /\ e.start # CLUSTER_FREE
      <4>1. s0 # <<>>
        BY <1>3, <2>8, <3>1 DEF BeginsWith, Starts
      <4>2. s0 \in Seq(Clusters) /\ Nearly(s0, e.size)
        BY <1>3, <2>8, RowIs DEF Nearly, Sized
      <4>3. PICK t \in Seq(Clusters), n \in Nat : t = s0 /\ n = e.size
        BY <1>3, <4>2
      <4>4. Stands(place, n, t)
        BY <2>7, <3>1, <4>1, <4>2, <4>3, EndStands
      <4> QED
        BY <4>4, StandsInRow
    <3>2. CASE ~("append" \in mode /\ e.start # CLUSTER_FREE)
      BY <1>5, <2>2, <3>2
    <3> QED
      BY <3>1, <3>2
  <2>11. h \in HandleType
    <3>1. At(e.start, 0) \in Places
      BY <1>3, GeometryIs DEF At, Places
    <3> QED
      BY <1>3, <1>4, <2>6, <2>10, <3>1 DEF HandleType
  <2>12. Behind(e, h) /\ Fits(fat', With(Rows, f, s0))
    BY <1>2, <1>3, <2>5, <2>6 DEF Behind
  <2>13. OpenedOn(f, s0, h.size)
    BY <1>1, <1>4, <2>5, <2>6, <2>9, <2>11, <2>12, OpenStored
  <2> QED
    BY <2>13
<1> QED
  BY <1>6, <1>7

(* What a synchronization writes is what the handle knows. *)
LEMMA SyncedIs ==
  ASSUME IInv, NEW f \in Files
  PROVE  /\ Synced(f) \in EntryType
         /\ Opened(f) => Synced(f).start = handle[f].start /\ Synced(f).size = handle[f].size
         /\ ~Opened(f) => Synced(f) = entry[f]
<1>1. Good(fat, entry, handle, Rows)
  BY DEF IInv
<1>2. entry[f] \in EntryType /\ handle[f] \in HandleType /\ FileOK(entry[f], handle[f], Rows[f])
  BY <1>1, GoodIs
<1>3. CASE "write" \in handle[f].mode /\ handle[f].modified
  <2>1. Synced(f) = [start |-> handle[f].start, size |-> handle[f].size]
    BY <1>3 DEF Synced
  <2>2. Opened(f)
    BY <1>3 DEF Opened
  <2> QED
    BY <1>2, <2>1, <2>2 DEF EntryType, HandleType
<1>4. CASE ~("write" \in handle[f].mode /\ handle[f].modified)
  <2>1. Synced(f) = entry[f]
    BY <1>4 DEF Synced
  <2>2. Opened(f) => Behind(entry[f], handle[f])
    BY <1>2 DEF FileOK, Opened
  <2> QED
    BY <1>2, <1>4, <2>1, <2>2 DEF Behind
<1> QED
  BY <1>3, <1>4

LEMMA ClosedIs ==
  /\ Closed \in HandleType /\ Closed.mode = {} /\ Closed.currentPosition = 0
<1>1. CLUSTER_FREE \in Starts /\ At(CLUSTER_FREE, 0) \in Places
  BY GeometryIs DEF At, Places, Starts
<1> QED
  BY <1>1 DEF Closed, HandleType

(* The contents stay as they are when no row, no size and no byte changes. *)
Untouched ==
  /\ Good(fat', entry', handle', Rows)
  /\ fat' = fat /\ data' = data

LEMMA FsyncStep ==
  ASSUME IInv, NEW f \in Files, Fsync(f)
  PROVE  /\ Untouched
         /\ \A g \in Files : /\ handle'[g].mode = handle[g].mode /\ handle'[g].size = handle[g].size
                             /\ handle'[g].currentPosition = handle[g].currentPosition
                             /\ handle[g].mode = {} => entry'[g].size = entry[g].size
<1> DEFINE h == handle[f]
           h2 == [h EXCEPT !.modified = FALSE]
<1>1. Opened(f) /\ Fits(fat, Rows) /\ With(Rows, f, Rows[f]) = Rows /\ Good(fat, entry, handle, Rows)
  BY WithSame DEF Fsync, IInv, Good, Fits
<1>2. h \in HandleType /\ HandleOK(h, Rows[f])
  BY <1>1, OpenedIs
<1>3. /\ entry' = [entry EXCEPT ![f] = Synced(f)] /\ handle' = [handle EXCEPT ![f] = h2]
      /\ fat' = fat /\ data' = data
  BY DEF Fsync
<1>4. /\ h2 \in HandleType /\ h2.mode = h.mode /\ h2.start = h.start /\ h2.size = h.size
      /\ h2.rwPosition = h.rwPosition /\ h2.currentPosition = h.currentPosition
      /\ h2.appendPosition = h.appendPosition
  BY <1>2 DEF HandleType
<1> HIDE DEF h2
<1>5. HandleOK(h2, Rows[f])
  BY <1>2, <1>4 DEF HandleOK, Placed
<1>6. Synced(f) \in EntryType /\ Synced(f).start = h2.start /\ Synced(f).size = h2.size
  BY <1>1, <1>4, SyncedIs
<1>7. FileOK(Synced(f), h2, Rows[f])
  BY <1>1, <1>4, <1>5, <1>6 DEF FileOK, Behind, Opened
<1>8. Good(fat', entry', handle', Rows)
  <2>1. PICK s, e : s = Rows[f] /\ e = Synced(f)
    OBVIOUS
  <2>2. Fits(fat, With(Rows, f, s)) /\ FileOK(e, h2, s) /\ e \in EntryType
    BY <1>1, <1>6, <1>7, <2>1
  <2>3. Good(fat, [entry EXCEPT ![f] = e], [handle EXCEPT ![f] = h2], With(Rows, f, s))
    BY <1>1, <1>4, <2>2, GoodWith
  <2> QED
    BY <1>1, <1>3, <2>1, <2>3
<1>9. entry \in [Files -> EntryType] /\ handle \in [Files -> HandleType]
  BY <1>1 DEF Good
<1>10. /\ handle'[f] = h2 /\ \A g \in Files \ {f} : handle'[g] = handle[g] /\ entry'[g] = entry[g]
       /\ h.mode # {}
  BY <1>1, <1>3, <1>9 DEF Opened
<1> QED
  BY <1>3, <1>4, <1>8, <1>10 DEF Untouched

(* The handles on the files of F are closed: efs_close, efs_unmount. *)
ClosedThose(F) ==
  /\ entry' = [f \in Files |-> IF f \in F THEN Synced(f) ELSE entry[f]]
  /\ handle' = [f \in Files |-> IF f \in F THEN Closed ELSE handle[f]]
  /\ fat' = fat /\ data' = data

LEMMA CloseThose ==
  ASSUME IInv, NEW F \in SUBSET Files, ClosedThose(F)
  PROVE  /\ Untouched
         /\ \A f \in Files : StartOf(f)' = StartOf(f) /\ SizeOf(f)' = SizeOf(f)
<1>1. Good(fat, entry, handle, Rows)
  BY DEF IInv
<1>2. ASSUME NEW f \in Files
      PROVE  /\ entry'[f] \in EntryType /\ handle'[f] \in HandleType
             /\ FileOK(entry'[f], handle'[f], Rows[f])
             /\ StartOf(f)' = StartOf(f) /\ SizeOf(f)' = SizeOf(f)
  <2>1. /\ Synced(f) \in EntryType
        /\ Opened(f) => Synced(f).start = handle[f].start /\ Synced(f).size = handle[f].size
        /\ ~Opened(f) => Synced(f) = entry[f]
    BY SyncedIs
  <2>2. entry[f] \in EntryType /\ handle[f] \in HandleType /\ FileOK(entry[f], handle[f], Rows[f])
    BY <1>1, GoodIs
  <2>3. CASE f \in F
    <3>1. entry'[f] = Synced(f) /\ handle'[f] = Closed
      BY <2>3 DEF ClosedThose
    <3>2. EntryOK(Synced(f), Rows[f])
      BY <2>1, <2>2 DEF FileOK, HandleOK, EntryOK, Opened
    <3>3. FileOK(entry'[f], handle'[f], Rows[f])
      BY <3>1, <3>2, ClosedIs DEF FileOK
    <3>4. StartOf(f)' = Synced(f).start /\ SizeOf(f)' = Synced(f).size
      BY <3>1, ClosedIs DEF StartOf, SizeOf, Opened
    <3>5. StartOf(f) = Synced(f).start /\ SizeOf(f) = Synced(f).size
      BY <2>1 DEF StartOf, SizeOf
    <3> QED
      BY <2>1, <3>1, <3>3, <3>4, <3>5, ClosedIs
  <2>4. CASE f \notin F
    <3>1. entry'[f] = entry[f] /\ handle'[f] = handle[f]
      BY <2>4 DEF ClosedThose
    <3> QED
      BY <2>2, <3>1 DEF StartOf, SizeOf, Opened
  <2> QED
    BY <2>3, <2>4
<1>3. entry' \in [Files -> EntryType] /\ handle' \in [Files -> HandleType]
  <2>1. entry' = [f \in Files |-> entry'[f]] /\ handle' = [f \in Files |-> handle'[f]]
    BY DEF ClosedThose
  <2> QED
    BY <1>2, <2>1
<1>4. fat' = fat /\ data' = data /\ Fits(fat, Rows)
  BY <1>1 DEF ClosedThose, Good
<1>5. Good(fat', entry', handle', Rows)
  BY <1>2, <1>3, <1>4 DEF Good
<1> QED
  BY <1>2, <1>4, <1>5 DEF Untouched

LEMMA CloseStep ==
  ASSUME IInv, NEW f \in Files, Close(f)
  PROVE  ClosedThose({f})
<1>1. entry \in [Files -> EntryType] /\ handle \in [Files -> HandleType]
  BY DEF IInv, Good
<1>2. /\ entry' = [entry EXCEPT ![f] = Synced(f)] /\ handle' = [handle EXCEPT ![f] = Closed]
      /\ fat' = fat /\ data' = data
  BY DEF Close
<1> QED
  BY <1>1, <1>2 DEF ClosedThose

LEMMA UnmountStep ==
  ASSUME IInv, Unmount
  PROVE  ClosedThose(Files)
BY DEF Unmount, ClosedThose

LEMMA UnlinkStep ==
  ASSUME IInv, NEW f \in Files, Unlink(f)
  PROVE  /\ Good(fat', entry', handle', With(Rows, f, <<>>))
         /\ data' = data /\ handle' = handle /\ entry'[f].size = 0
         /\ \A g \in Files \ {f} : entry'[g] = entry[g]
<1>1. /\ ~Opened(f) /\ fat' = Cleared(fat, entry[f].start) /\ data' = data /\ handle' = handle
      /\ entry' = [entry EXCEPT ![f] = [start |-> CLUSTER_FREE, size |-> 0]]
  BY DEF Unlink
<1>2. Good(fat, entry, handle, Rows) /\ Fits(fat, Rows)
  BY DEF IInv, Good
<1>3. entry \in [Files -> EntryType] /\ handle \in [Files -> HandleType]
  BY <1>2 DEF Good
<1>4. entry[f].start \in Starts /\ BeginsWith(Rows[f], entry[f].start)
  BY <1>1, <1>2, <1>3, GoodIs DEF FileOK, Opened, EntryOK, EntryType
<1>5. /\ Fits(fat', With(Rows, f, <<>>))
      /\ BeginsWith(<<>>, CLUSTER_FREE) /\ Sized(<<>>, 0)
  BY <1>1, <1>2, <1>4, ClearedRow
<1>6. PICK e : e = [start |-> CLUSTER_FREE, size |-> 0]
  OBVIOUS
<1>7. e \in EntryType /\ e.start = CLUSTER_FREE /\ e.size = 0
  BY <1>6 DEF EntryType, Starts
<1>8. FileOK(e, handle[f], <<>>)
  BY <1>1, <1>5, <1>7 DEF FileOK, EntryOK, Opened
<1>9. handle[f] \in HandleType /\ [handle EXCEPT ![f] = handle[f]] = handle
  BY <1>3
<1>10. Good(fat', [entry EXCEPT ![f] = e], [handle EXCEPT ![f] = handle[f]], With(Rows, f, <<>>))
  BY <1>2, <1>5, <1>7, <1>8, <1>9, GoodWith
<1> QED
  BY <1>1, <1>3, <1>6, <1>7, <1>9, <1>10

-----------------------------------------------------------------------------
(* The invariant holds. *)

LEMMA RowsNow ==
  ASSUME NEW r, r = [f \in Files |-> r[f]], Good(fat', entry', handle', r), data' \in Bytes
  PROVE  IInv' /\ Rows' = r
<1>1. ASSUME NEW f \in Files
      PROVE  ClustersOf(f)' = r[f]
  BY GoodIs DEF ClustersOf, StartOf, Opened
<1>2. Rows' = [f \in Files |-> ClustersOf(f)']
  BY DEF Rows
<1>3. Rows' = r
  BY <1>1, <1>2
<1> QED
  BY <1>3 DEF IInv

LEMMA InitIs == Init => IInv
<1> SUFFICES ASSUME Init
             PROVE  IInv
  OBVIOUS
<1>1. fat \in Tables /\ \A c \in Clusters : fat[c] = CLUSTER_FREE
  BY DEF Init, Tables
<1>2. data \in Bytes
  <2>1. Stale \in Byte
    BY BytesAssumption
  <2> QED
    BY <2>1 DEF Init, Bytes, bpc
<1>3. IsRow(fat, <<>>) /\ BeginsWith(<<>>, CLUSTER_FREE) /\ Sized(<<>>, 0) /\ \A c : ~Has(<<>>, c)
  <2>1. Len(<<>>) * bpc = 0 /\ 0 < 0 + bpc
    BY GeometryIs
  <2>2. Sized(<<>>, 0)
    BY <2>1 DEF Sized
  <2> QED
    BY <2>2, GeometryAssumption DEF IsRow, BeginsWith, Has
<1>4. PICK e : e = [start |-> CLUSTER_FREE, size |-> 0]
  OBVIOUS
<1>5. e \in EntryType /\ e.start = CLUSTER_FREE /\ EntryOK(e, <<>>)
  BY <1>3, <1>4 DEF EntryType, Starts, EntryOK
<1>6. /\ entry \in [Files -> EntryType] /\ handle \in [Files -> HandleType]
      /\ \A f \in Files : entry[f] = e /\ handle[f] = Closed
  BY <1>4, <1>5, ClosedIs DEF Init
<1>7. Chain(fat, CLUSTER_FREE) = <<>>
  BY <1>3, ChainIs
<1>8. \A f \in Files : Rows[f] = <<>>
  BY <1>5, <1>6, <1>7, ClosedIs DEF Rows, ClustersOf, StartOf, Opened
<1>9. Fits(fat, Rows)
  <2>1. Rows = [f \in Files |-> Rows[f]]
    BY DEF Rows
  <2> QED
    BY <1>1, <1>3, <1>8, <2>1 DEF Fits
<1>10. \A f \in Files : FileOK(entry[f], handle[f], Rows[f])
  BY <1>5, <1>6, <1>8, ClosedIs DEF FileOK
<1> QED
  BY <1>2, <1>6, <1>9, <1>10 DEF IInv, Good

(* A step: the rows become r, and only bytes in one of them change.        *)
StepTo(r) ==
  /\ r = [f \in Files |-> r[f]] /\ Good(fat', entry', handle', r) /\ data' \in Bytes
  /\ \E f \in Files : OnlyIn(data, data', r[f])

LEMMA StepWith ==
  ASSUME IInv, NEW f \in Files, NEW s, Good(fat', entry', handle', With(Rows, f, s)),
         data' \in Bytes, OnlyIn(data, data', s)
  PROVE  StepTo(With(Rows, f, s))
<1>1. Rows = [g \in Files |-> Rows[g]]
  BY DEF Rows
<1>2. With(Rows, f, s) = [g \in Files |-> With(Rows, f, s)[g]] /\ With(Rows, f, s)[f] = s
  BY <1>1, WithIs
<1> QED
  BY <1>2 DEF StepTo

LEMMA StepSame ==
  ASSUME IInv, NEW f \in Files, Good(fat', entry', handle', Rows), data' = data
  PROVE  StepTo(Rows)
BY DEF StepTo, IInv, OnlyIn, Rows

LEMMA StepIs ==
  ASSUME IInv, RulesKept, [Next]_vars
  PROVE  UNCHANGED <<fat, data, entry, handle>> \/ \E r : StepTo(r)
<1>1. ASSUME NEW f \in Files, Open(f)
      PROVE  \E r : StepTo(r)
  <2>1. PICK s, n : OpenedOn(f, s, n)
    BY <1>1, OpenStep
  <2>2. Good(fat', entry', handle', With(Rows, f, s)) /\ data' = data
    BY <2>1 DEF OpenedOn
  <2>3. data' \in Bytes /\ OnlyIn(data, data', s)
    BY <2>2 DEF IInv, OnlyIn
  <2> QED
    BY <2>2, <2>3, StepWith
<1>2. ASSUME NEW f \in Files, Read(f)
      PROVE  \E r : StepTo(r)
  <2>1. PICK n \in 1 .. MaxLen : ReadTo(f, n)
    BY <1>2, ReadStep
  <2> QED
    BY <2>1, StepSame DEF ReadTo
<1>3. ASSUME NEW f \in Files, Write(f)
      PROVE  UNCHANGED <<fat, data, entry, handle>> \/ \E r : StepTo(r)
  <2>1. CASE UNCHANGED <<fat, data, entry, handle>>
    BY <2>1
  <2>2. ASSUME NEW s \in Seq(Clusters), NEW x \in Byte, NEW d \in 0 .. MaxLen, WroteTo(f, s, x, d)
        PROVE  \E r : StepTo(r)
    <3>1. Good(fat', entry', handle', With(Rows, f, s)) /\ data' \in Bytes /\ OnlyIn(data, data', s)
      BY <2>2 DEF WroteTo
    <3> QED
      BY <3>1, StepWith
  <2> QED
    BY <1>3, <2>1, <2>2, WriteStep
<1>4. ASSUME NEW f \in Files, Seek(f)
      PROVE  \E r : StepTo(r)
  <2>1. PICK p \in 0 .. MaxSize : SoughtTo(f, p)
    BY <1>4, SeekStep
  <2> QED
    BY <2>1, StepSame DEF SoughtTo
<1>5. ASSUME NEW f \in Files, Truncate(f)
      PROVE  UNCHANGED <<fat, data, entry, handle>> \/ \E r : StepTo(r)
  <2>1. CASE UNCHANGED <<fat, data, entry, handle>>
    BY <2>1
  <2>2. ASSUME NEW n \in 0 .. MaxSize, NEW s \in Seq(Clusters), ResizedTo(f, s, n)
        PROVE  \E r : StepTo(r)
    <3>1. Good(fat', entry', handle', With(Rows, f, s)) /\ data' \in Bytes /\ OnlyIn(data, data', s)
      BY <2>2 DEF ResizedTo
    <3> QED
      BY <3>1, StepWith
  <2> QED
    BY <1>5, <2>1, <2>2, TruncateStep
<1>6. ASSUME NEW f \in Files, Fsync(f)
      PROVE  \E r : StepTo(r)
  <2>1. Untouched
    BY <1>6, FsyncStep
  <2> QED
    BY <2>1, StepSame DEF Untouched
<1>7. ASSUME NEW f \in Files, Close(f)
      PROVE  \E r : StepTo(r)
  <2>1. Untouched
    BY <1>7, CloseStep, CloseThose
  <2> QED
    BY <2>1, StepSame DEF Untouched
<1>8. ASSUME NEW f \in Files, Unlink(f)
      PROVE  \E r : StepTo(r)
  <2>1. Good(fat', entry', handle', With(Rows, f, <<>>)) /\ data' = data
    BY <1>8, UnlinkStep
  <2>2. data' \in Bytes /\ OnlyIn(data, data', <<>>)
    BY <2>1 DEF IInv, OnlyIn
  <2> QED
    BY <2>1, <2>2, StepWith
<1>9. ASSUME Unmount
      PROVE  \E r : StepTo(r)
  <2>1. PICK f \in Files : Opened(f)
    BY <1>9 DEF Unmount
  <2>2. Untouched
    BY <1>9, UnmountStep, CloseThose
  <2> QED
    BY <2>1, <2>2, StepSame DEF Untouched
<1>10. CASE UNCHANGED vars
  BY <1>10 DEF vars
<1> QED
  BY <1>1, <1>2, <1>3, <1>4, <1>5, <1>6, <1>7, <1>8, <1>9, <1>10 DEF Next

LEMMA Kept ==
  ASSUME IInv, UNCHANGED <<fat, data, entry, handle>>
  PROVE  IInv' /\ Rows' = Rows
<1>1. Rows' = Rows
  BY DEF Rows, ClustersOf, StartOf, Opened
<1> QED
  BY <1>1 DEF IInv

LEMMA StepKeeps ==
  ASSUME IInv, RulesKept, [Next]_vars
  PROVE  IInv'
BY StepIs, Kept, RowsNow DEF StepTo

(* What a file of n bytes has are the clusters that n bytes take. *)
LEMMA SizedIs ==
  ASSUME NEW s \in Seq(Clusters), NEW n \in Nat, Sized(s, n)
  PROVE  Len(s) = (n + bpc - 1) \div bpc
<1>1. PICK l \in Nat, y \in Nat : l = Len(s) /\ y = l * bpc
  <2>1. Len(s) * bpc \in Nat
    BY GeometryIs
  <2> QED
    BY <2>1
<1>2. n <= y /\ y < n + bpc
  BY <1>1 DEF Sized
<1>3. PICK r \in 0 .. bpc - 1 : r = n + bpc - 1 - y
  BY <1>2, GeometryIs
<1>4. n + bpc - 1 = y + r
  BY <1>3, GeometryIs
<1>5. (l * bpc + r) \div bpc = l
  BY GeometryIs, Quotient
<1> QED
  BY <1>1, <1>4, <1>5

(* Under the rules that clients must keep, after any calls on any number   *)
(* of files and handles: the rows of the files are in the table, do not    *)
(* meet and have what the sizes take, and the handles stand in them.       *)
THEOREM FileInvariance == ASSUME RulesKept PROVE Spec => []IInv
<1>1. Init => IInv
  BY InitIs
<1>2. IInv /\ [Next]_vars => IInv'
  BY StepKeeps
<1> QED
  BY <1>1, <1>2, PTL DEF Spec

(* Every variable keeps a value of its kind. *)
THEOREM FileTypes == ASSUME RulesKept PROVE Spec => []TypeOK
<1>1. ASSUME IInv
      PROVE  TypeOK
  <2>1. Good(fat, entry, handle, Rows) /\ data \in Bytes
    BY <1>1 DEF IInv
  <2>2. fat \in Tables
    BY <2>1 DEF Good, Fits
  <2>3. ASSUME NEW f \in Files
        PROVE  /\ entry[f].start \in Clusters \cup {CLUSTER_FREE} /\ entry[f].size \in Nat
               /\ handle[f].mode \in Modes \cup {{}}
               /\ handle[f].start \in Clusters \cup {CLUSTER_FREE}
               /\ handle[f].size \in Nat /\ handle[f].currentPosition \in Nat
               /\ handle[f].rwPosition.offset \in 0 .. bytesPerCluster
               /\ handle[f].appendPosition.offset \in 0 .. bytesPerCluster
    <3>1. entry[f] \in EntryType /\ handle[f] \in HandleType
      BY <2>1, GoodIs
    <3> QED
      BY <3>1 DEF EntryType, HandleType, Places, Starts, bpc
  <2> QED
    BY <2>1, <2>2, <2>3 DEF TypeOK, Tables, Bytes, bpc
<1> QED
  BY <1>1, FileInvariance, PTL

(* No cluster is lost or shared, and a file has what its size takes.       *)
THEOREM NoClusterIsLost == ASSUME RulesKept PROVE Spec => []ClustersAccounted
<1>1. ASSUME IInv
      PROVE  ClustersAccounted
  <2>1. Good(fat, entry, handle, Rows) /\ Fits(fat, Rows)
    BY <1>1 DEF IInv, Good
  <2>2. ASSUME NEW f \in Files
        PROVE  /\ ClustersOf(f) = Rows[f] /\ Rows[f] \in Seq(Clusters)
               /\ \A c : c \in ToSet(ClustersOf(f)) <=> Has(Rows[f], c)
    <3>1. ClustersOf(f) = Rows[f]
      BY DEF Rows
    <3>2. Rows[f] \in Seq(Clusters)
      BY <2>1, RowIs DEF Fits
    <3> QED
      BY <3>1, <3>2, InChain
  <2>3. ASSUME NEW c
        PROVE  c \in Clusters \ FreeIn(fat) <=> c \in UNION {ToSet(ClustersOf(f)) : f \in Files}
    <3>1. c \in Clusters \ FreeIn(fat) <=> c \in Clusters /\ \E f \in Files : Has(Rows[f], c)
      BY <2>1 DEF Fits, FreeIn
    <3>2. \A f \in Files : Has(Rows[f], c) => c \in Clusters
      BY <2>2 DEF Has
    <3> QED
      BY <2>2, <3>1, <3>2
  <2>4. ASSUME NEW f \in Files, NEW g \in Files, f # g
        PROVE  ToSet(ClustersOf(f)) \cap ToSet(ClustersOf(g)) = {}
    <3> SUFFICES ASSUME NEW c, c \in ToSet(ClustersOf(f)), c \in ToSet(ClustersOf(g))
                 PROVE  FALSE
      OBVIOUS
    <3>1. Has(Rows[f], c) /\ Has(Rows[g], c) /\ c \in Clusters
      BY <2>2 DEF Has
    <3> QED
      BY <2>1, <2>4, <3>1 DEF Fits
  <2>5. ASSUME NEW f \in Files
        PROVE  Len(ClustersOf(f)) = (SizeOf(f) + bytesPerCluster - 1) \div bytesPerCluster
    <3>1. PICK n : n = SizeOf(f)
      OBVIOUS
    <3>2. n \in Nat /\ Sized(Rows[f], n)
      BY <2>1, <3>1, GoodIs DEF FileOK, EntryOK, HandleOK, SizeOf, Opened, EntryType, HandleType
    <3>3. Len(Rows[f]) = (n + bpc - 1) \div bpc
      BY <2>2, <3>2, SizedIs
    <3> QED
      BY <2>2, <3>1, <3>3 DEF bpc
  <2> QED
    BY <2>3, <2>4, <2>5 DEF ClustersAccounted
<1> QED
  BY <1>1, FileInvariance, PTL

(* A handle stands where its currentPosition says, and appends go to the   *)
(* end of the file.                                                        *)
THEOREM HandlesStandRight == ASSUME RulesKept PROVE Spec => []PositionsInFile
<1>1. ASSUME IInv
      PROVE  PositionsInFile
  <2> SUFFICES ASSUME NEW f \in Files, Opened(f), handle[f].start # CLUSTER_FREE
               PROVE  /\ handle[f].currentPosition <= handle[f].size =>
                           StandsFor(handle[f].rwPosition, handle[f].currentPosition, f)
                      /\ "append" \in handle[f].mode =>
                           StandsFor(handle[f].appendPosition, handle[f].size, f)
    BY DEF PositionsInFile
  <2>1. /\ handle[f] \in HandleType /\ HandleOK(handle[f], Rows[f])
        /\ Rows[f] \in Seq(Clusters) /\ Rows[f] # <<>> /\ ClustersOf(f) = Rows[f]
    BY <1>1, OpenedIs DEF Rows
  <2>2. handle[f].size \in Nat /\ handle[f].currentPosition \in Nat /\ Placed(handle[f], Rows[f])
    BY <2>1 DEF HandleType, HandleOK
  <2> QED
    BY <2>1, <2>2, StandsIs DEF Placed
<1> QED
  BY <1>1, FileInvariance, PTL

(* The bytes that a call changes are in clusters of one file. *)
THEOREM WritesStay == ASSUME RulesKept PROVE Spec => WritesStayInFile
<1> DEFINE Stay(f) == /\ \A g \in Files \ {f} : handle'[g] = handle[g]
                      /\ \A c \in Clusters : data'[c] # data[c] => c \in ToSet(ClustersOf(f)')
<1>1. ASSUME IInv, NEW f \in Files, NEW s, Good(fat', entry', handle', With(Rows, f, s)),
             data' \in Bytes, OnlyIn(data, data', s), handle' = [handle EXCEPT ![f] = handle'[f]]
      PROVE  Stay(f)
  <2>1. Rows' = With(Rows, f, s) /\ IsRow(fat', Rows'[f])
    <3>1. Rows = [g \in Files |-> Rows[g]]
      BY DEF Rows
    <3>2. With(Rows, f, s) = [g \in Files |-> With(Rows, f, s)[g]]
      BY <3>1, WithIs
    <3>3. PICK r : r = With(Rows, f, s)
      OBVIOUS
    <3>4. r = [g \in Files |-> r[g]] /\ Good(fat', entry', handle', r) /\ data' \in Bytes
      BY <1>1, <3>2, <3>3
    <3>5. Rows' = r
      BY <3>4, RowsNow
    <3>6. IsRow(fat', r[f])
      BY <3>4, GoodIs
    <3> QED
      BY <3>3, <3>5, <3>6
  <2>2. ClustersOf(f)' = s /\ s \in Seq(Clusters)
    <3>1. With(Rows, f, s)[f] = s
      BY WithIs DEF Rows
    <3>2. Rows'[f] = ClustersOf(f)'
      BY DEF Rows
    <3> QED
      BY <2>1, <3>1, <3>2, RowIs
  <2>3. \A c : c \in ToSet(ClustersOf(f)') <=> Has(s, c)
    BY <2>2, InChain
  <2>4. \A g \in Files \ {f} : handle'[g] = handle[g]
    <3>1. handle \in [Files -> HandleType]
      BY <1>1 DEF IInv, Good
    <3> QED
      BY <1>1, <3>1
  <2> QED
    BY <1>1, <2>3, <2>4 DEF OnlyIn
<1>2. ASSUME IInv, Next, data' # data
      PROVE  \E f \in Files : Stay(f)
  <2>1. PICK f \in Files : Write(f) \/ Truncate(f)
    BY <1>2 DEF Next, Open, Read, Seek, Fsync, Close, Unlink, Unmount
  <2>2. CASE Write(f)
    <3>1. PICK s \in Seq(Clusters), x \in Byte, d \in 0 .. MaxLen : WroteTo(f, s, x, d)
      BY <1>2, <2>2, WriteStep
    <3> QED
      BY <1>1, <1>2, <3>1 DEF WroteTo
  <2>3. CASE Truncate(f)
    <3>1. PICK n \in 0 .. MaxSize, s \in Seq(Clusters) : ResizedTo(f, s, n)
      BY <1>2, <2>3, TruncateStep
    <3> QED
      BY <1>1, <1>2, <3>1 DEF ResizedTo
  <2> QED
    BY <2>1, <2>2, <2>3
<1>3. IInv /\ [Next]_vars => [data' # data => \E f \in Files : Stay(f)]_vars
  BY <1>2
<1> QED
  BY <1>3, FileInvariance, PTL DEF Spec, WritesStayInFile

-----------------------------------------------------------------------------
(* Files are sequences of bytes. *)

Contents == [f \in Files |-> ContentOf(f)]
Mode     == [f \in Files |-> handle[f].mode]
Place    == [f \in Files |-> handle[f].currentPosition]

LEMMA OpenMaps ==
  ASSUME NEW f \in Files, Mode[f] = {}, NEW m \in Modes, Mode' = [Mode EXCEPT ![f] = m],
         Place' = [Place EXCEPT ![f] = 0], reply' = <<>>,
         \/ Contents' = Contents
         \/ "write" \in m /\ Contents' = [Contents EXCEPT ![f] = <<>>]
  PROVE  Abstract!Open(f)
<1>1. m \in Abstract!OpenModes
  BY ModesAssumption DEF Abstract!OpenModes
<1> QED
  BY <1>1 DEF Abstract!Open, Contents, Mode, Place

LEMMA ReadMaps ==
  ASSUME NEW f \in Files, "read" \in Mode[f], Mode' = Mode, Contents' = Contents,
         NEW n \in 1 .. MaxLen, NEW left, NEW got,
         left = IF Place[f] < Len(Contents[f]) THEN Len(Contents[f]) - Place[f] ELSE 0,
         got = IF n < left THEN n ELSE left,
         Place' = [Place EXCEPT ![f] = @ + got],
         reply' = SubSeq(Contents[f], Place[f] + 1, Place[f] + got)
  PROVE  Abstract!Read(f)
BY DEF Abstract!Read, Contents, Mode, Place

LEMMA WriteMaps ==
  ASSUME NEW f \in Files, "write" \in Mode[f], Mode' = Mode, reply' = <<>>,
         NEW n \in 0 .. MaxLen, NEW w \in Abstract!Written(n),
         \/ /\ "append" \in Mode[f] /\ Place' = Place
            /\ Contents' = [Contents EXCEPT ![f] = @ \o w]
         \/ /\ "append" \notin Mode[f] /\ Place' = [Place EXCEPT ![f] = @ + n]
            /\ Contents' = [Contents EXCEPT ![f] = Abstract!Put(@, Place[f], w)]
  PROVE  Abstract!Write(f)
<1>1. CASE "append" \in Mode[f]
  <2>1. Place' = Place /\ Contents' \in {[Contents EXCEPT ![f] = @ \o u] : u \in Abstract!Written(n)}
    BY <1>1
  <2>2. \E k \in 0 .. MaxLen :
          IF "append" \in Mode[f]
          THEN /\ Place' = Place
               /\ Contents' \in {[Contents EXCEPT ![f] = @ \o u] : u \in Abstract!Written(k)}
          ELSE /\ Place' = [Place EXCEPT ![f] = @ + k]
               /\ Contents' \in {[Contents EXCEPT ![f] = Abstract!Put(@, Place[f], u)] : u \in Abstract!Written(k)}
    BY <1>1, <2>1
  <2> QED
    BY <2>2 DEF Abstract!Write, Contents, Mode, Place
<1>2. CASE "append" \notin Mode[f]
  <2>1. /\ Place' = [Place EXCEPT ![f] = @ + n]
        /\ Contents' \in {[Contents EXCEPT ![f] = Abstract!Put(@, Place[f], u)] : u \in Abstract!Written(n)}
    BY <1>2
  <2>2. \E k \in 0 .. MaxLen :
          IF "append" \in Mode[f]
          THEN /\ Place' = Place
               /\ Contents' \in {[Contents EXCEPT ![f] = @ \o u] : u \in Abstract!Written(k)}
          ELSE /\ Place' = [Place EXCEPT ![f] = @ + k]
               /\ Contents' \in {[Contents EXCEPT ![f] = Abstract!Put(@, Place[f], u)] : u \in Abstract!Written(k)}
    BY <1>2, <2>1
  <2> QED
    BY <2>2 DEF Abstract!Write, Contents, Mode, Place
<1> QED
  BY <1>1, <1>2

LEMMA SeekMaps ==
  ASSUME NEW f \in Files, Mode[f] # {}, reply' = <<>>, Mode' = Mode, Contents' = Contents,
         NEW p \in 0 .. MaxSize, Place' = [Place EXCEPT ![f] = p]
  PROVE  Abstract!Seek(f)
BY DEF Abstract!Seek, Contents, Mode, Place

LEMMA TruncateMaps ==
  ASSUME NEW f \in Files, "write" \in Mode[f], reply' = <<>>, Mode' = Mode, Place' = Place,
         NEW n \in 0 .. MaxSize, Contents' = [Contents EXCEPT ![f] = Abstract!Resized(@, n)]
  PROVE  Abstract!Truncate(f)
BY DEF Abstract!Truncate, Contents, Mode, Place

LEMMA CloseMaps ==
  ASSUME NEW F \in SUBSET Files, F # {}, Mode' = [f \in Files |-> IF f \in F THEN {} ELSE Mode[f]],
         Place' = [f \in Files |-> IF f \in F THEN 0 ELSE Place[f]], reply' = <<>>, Contents' = Contents
  PROVE  Abstract!Close(F)
BY DEF Abstract!Close, Contents, Mode, Place

LEMMA UnlinkMaps ==
  ASSUME NEW f \in Files, Mode[f] = {}, reply' = <<>>, Mode' = Mode, Place' = Place,
         Contents' = [Contents EXCEPT ![f] = <<>>]
  PROVE  Abstract!Unlink(f)
BY DEF Abstract!Unlink, Contents, Mode, Place

LEMMA NothingMaps ==
  ASSUME reply' = <<>>, Mode' = Mode, Place' = Place, Contents' = Contents
  PROVE  Abstract!Nothing
BY DEF Abstract!Nothing, Contents, Mode, Place

(* The first n bytes along s. *)
Content(bytes, s, n) == [i \in 1 .. n |-> ByteAt(bytes, s, i - 1)]

(* ContentOf says what a chain too short would read as; none is.           *)
Raw(bytes, path, n) ==
  [i \in 1 .. n |->
     IF (i - 1) \div bytesPerCluster < Len(path)
     THEN bytes[path[(i - 1) \div bytesPerCluster + 1]][(i - 1) % bytesPerCluster]
     ELSE -1]

LEMMA RawIs ==
  ASSUME NEW s \in Seq(Clusters), NEW n \in Nat, n <= Len(s) * bpc, NEW bytes
  PROVE  Raw(bytes, s, n) = Content(bytes, s, n)
<1>1. ASSUME NEW i \in 1 .. n
      PROVE  (IF (i - 1) \div bpc < Len(s)
              THEN bytes[s[(i - 1) \div bpc + 1]][(i - 1) % bpc] ELSE -1) = ByteAt(bytes, s, i - 1)
  <2>1. PICK k \in Nat : k = i - 1 /\ k < n
    OBVIOUS
  <2>2. PICK l \in Nat : l = Len(s)
    OBVIOUS
  <2>3. l * bpc \in Nat
    BY <2>2, GeometryIs
  <2>4. k < l * bpc
    BY <2>1, <2>2, <2>3
  <2>5. k \div bpc < l
    BY <2>4, Within
  <2> QED
    BY <2>1, <2>2, <2>5 DEF ByteAt
<1> QED
  BY <1>1 DEF Raw, Content, bpc

ContentsFit ==
  \A f \in Files :
    /\ ContentOf(f) = Content(data, Rows[f], SizeOf(f))
    /\ SizeOf(f) \in Nat /\ Rows[f] \in Seq(Clusters)
    /\ SizeOf(f) <= Len(Rows[f]) * bpc

LEMMA ContentIs == IInv => ContentsFit
<1> SUFFICES ASSUME IInv, NEW f \in Files
             PROVE  /\ ContentOf(f) = Content(data, Rows[f], SizeOf(f))
                    /\ SizeOf(f) \in Nat /\ Rows[f] \in Seq(Clusters)
                    /\ SizeOf(f) <= Len(Rows[f]) * bpc
  BY DEF ContentsFit
<1>1. Good(fat, entry, handle, Rows)
  BY DEF IInv
<1>2. /\ entry[f] \in EntryType /\ handle[f] \in HandleType /\ FileOK(entry[f], handle[f], Rows[f])
      /\ Rows[f] \in Seq(Clusters)
  BY <1>1, GoodIs, RowIs
<1>3. SizeOf(f) \in Nat /\ Sized(Rows[f], SizeOf(f))
  BY <1>2 DEF FileOK, EntryOK, HandleOK, SizeOf, Opened, EntryType, HandleType
<1>4. SizeOf(f) <= Len(Rows[f]) * bpc
  BY <1>3 DEF Sized
<1>5. ContentOf(f) = Raw(data, Rows[f], SizeOf(f))
  BY DEF ContentOf, Raw, Rows
<1>6. PICK n \in Nat, s \in Seq(Clusters) : n = SizeOf(f) /\ s = Rows[f]
  BY <1>2, <1>3
<1>7. Raw(data, s, n) = Content(data, s, n)
  BY <1>4, <1>6, RawIs
<1> QED
  BY <1>2, <1>3, <1>4, <1>5, <1>6, <1>7

(* The bytes along a row that no change of the data has met. *)
LEMMA ContentSame ==
  ASSUME NEW s \in Seq(Clusters), NEW n \in Nat, n <= Len(s) * bpc, NEW before, NEW after,
         \A c \in Clusters : Has(s, c) => after[c] = before[c]
  PROVE  Content(after, s, n) = Content(before, s, n)
<1>1. ASSUME NEW i \in 1 .. n
      PROVE  ByteAt(after, s, i - 1) = ByteAt(before, s, i - 1)
  <2>1. PICK k \in Nat : k = i - 1 /\ k < n
    OBVIOUS
  <2>2. PICK l \in Nat : l = Len(s) * bpc
    BY GeometryIs
  <2>3. k < Len(s) * bpc
    BY <2>1, <2>2
  <2>4. PICK j \in 1 .. Len(s) : j = k \div bpc + 1
    BY <2>3, AlongRow
  <2>5. after[s[j]] = before[s[j]]
    BY DEF Has
  <2> QED
    BY <2>1, <2>4, <2>5 DEF ByteAt
<1> QED
  BY <1>1 DEF Content

LEMMA ContentNext == IInv' => ContentsFit'
BY ContentIs, PTL

(* The file of another row is as it was. *)
LEMMA OthersSame ==
  ASSUME IInv, IInv', NEW f \in Files, NEW s, Rows' = With(Rows, f, s), OnlyIn(data, data', s),
         NEW g \in Files \ {f}, SizeOf(g)' = SizeOf(g)
  PROVE  ContentOf(g)' = ContentOf(g)
<1>1. /\ ContentOf(g) = Content(data, Rows[g], SizeOf(g))
      /\ SizeOf(g) \in Nat /\ Rows[g] \in Seq(Clusters)
      /\ SizeOf(g) <= Len(Rows[g]) * bpc
  BY ContentIs DEF ContentsFit
<1>2. ContentOf(g)' = Content(data', Rows'[g], SizeOf(g)')
  BY ContentNext DEF ContentsFit
<1>3. Rows'[g] = Rows[g] /\ Rows'[f] = s
  BY WithIs DEF Rows
<1>4. \A c \in Clusters : Has(Rows[g], c) => ~Has(s, c)
  <2>1. Fits(fat', Rows')
    BY DEF IInv, Good
  <2> QED
    BY <1>3, <2>1 DEF Fits
<1>5. \A c \in Clusters : Has(Rows[g], c) => data'[c] = data[c]
  BY <1>4 DEF OnlyIn
<1>6. PICK n \in Nat, t \in Seq(Clusters) : n = SizeOf(g) /\ t = Rows[g]
  BY <1>1
<1>7. Content(data', t, n) = Content(data, t, n)
  BY <1>1, <1>5, <1>6, ContentSame
<1> QED
  BY <1>1, <1>2, <1>3, <1>6, <1>7

LEMMA ValuesIn ==
  ASSUME NEW n \in Nat, NEW c, c = [i \in 1 .. n |-> c[i]], NEW U, \A i \in 1 .. n : c[i] \in U
  PROVE  c \in Seq(U) /\ Len(c) = n
<1>1. c \in [1 .. n -> U]
  OBVIOUS
<1> QED
  BY <1>1

LEMMA ConcatIs ==
  ASSUME NEW n \in Nat, NEW c, c = [i \in 1 .. n |-> c[i]],
         NEW d \in Nat, NEW w, w = [i \in 1 .. d |-> w[i]], NEW m \in Nat, m = n + d
  PROVE  c \o w = [i \in 1 .. m |-> IF i <= n THEN c[i] ELSE w[i - n]]
<1> DEFINE U == {c[i] : i \in 1 .. n} \cup {w[i] : i \in 1 .. d}
           z == c \o w
<1>1. (\A i \in 1 .. n : c[i] \in U) /\ (\A i \in 1 .. d : w[i] \in U)
  OBVIOUS
<1> HIDE DEF U
<1>2. c \in Seq(U) /\ Len(c) = n /\ w \in Seq(U) /\ Len(w) = d
  BY <1>1, ValuesIn
<1>3. /\ z \in Seq(U) /\ Len(z) = m
      /\ \A i \in 1 .. m : z[i] = IF i <= n THEN c[i] ELSE w[i - n]
  BY <1>2
<1> HIDE DEF z
<1>4. z = [i \in 1 .. m |-> z[i]]
  BY <1>3
<1>5. z = [i \in 1 .. m |-> IF i <= n THEN c[i] ELSE w[i - n]]
  BY <1>3, <1>4
<1> QED
  BY <1>5 DEF z

(* Effect and Resized say what the operators on sequences do. *)
LEMMA PutIs ==
  ASSUME NEW before, NEW after, NEW row, NEW s, NEW n \in Nat, NEW q \in Nat, NEW d \in Nat,
         NEW x, Effect(before, after, row, s, n, q, d, x), NEW m,
         m = IF n < q + d THEN q + d ELSE n, NEW w, w = [i \in 1 .. d |-> x]
  PROVE  Content(after, s, m) = Abstract!Put(Content(before, row, n), q, w)
<1> DEFINE c == Content(before, row, n)
<1>1. Len(w) = d /\ Len(c) = n /\ \A i \in 1 .. d : w[i] = x
  BY DEF Content
<1>2. \A i \in 1 .. n : c[i] = ByteAt(before, row, i - 1)
  BY DEF Content
<1> HIDE DEF c
<1>3. Abstract!Put(c, q, w) =
        [i \in 1 .. (IF q + d > n THEN q + d ELSE n) |->
           IF q < i /\ i <= q + d THEN w[i - q] ELSE IF i <= n THEN c[i] ELSE 0]
  BY <1>1 DEF Abstract!Put
<1>4. m \in Nat /\ m = IF q + d > n THEN q + d ELSE n
  OBVIOUS
<1>5. ASSUME NEW i \in 1 .. m
      PROVE  ByteAt(after, s, i - 1) =
             IF q < i /\ i <= q + d THEN w[i - q] ELSE IF i <= n THEN c[i] ELSE 0
  <2>1. PICK k \in Nat : k = i - 1 /\ k < m
    BY <1>4
  <2>2. ByteAt(after, s, k) = IF q <= k /\ k < q + d THEN x
                              ELSE IF k < n THEN ByteAt(before, row, k) ELSE 0
    BY <1>4, <2>1 DEF Effect
  <2>3. CASE q < i /\ i <= q + d
    <3>1. i - q \in 1 .. d /\ q <= k /\ k < q + d
      BY <2>1, <2>3
    <3> QED
      BY <1>1, <2>1, <2>2, <2>3, <3>1
  <2>4. CASE ~(q < i /\ i <= q + d) /\ i <= n
    <3>1. i \in 1 .. n /\ ~(q <= k /\ k < q + d) /\ k < n
      BY <1>4, <2>1, <2>4
    <3> QED
      BY <1>2, <2>1, <2>2, <2>4, <3>1
  <2>5. CASE ~(q < i /\ i <= q + d) /\ ~(i <= n)
    <3>1. ~(q <= k /\ k < q + d) /\ ~(k < n)
      BY <1>4, <2>1, <2>5
    <3> QED
      BY <2>1, <2>2, <2>5, <3>1
  <2> QED
    BY <2>3, <2>4, <2>5
<1>6. Content(after, s, m) = Abstract!Put(c, q, w)
  BY <1>3, <1>4, <1>5 DEF Content
<1> QED
  BY <1>6 DEF c

Joined(c, w) == c \o w

LEMMA AppendIs ==
  ASSUME NEW before, NEW after, NEW row, NEW s, NEW n \in Nat, NEW d \in Nat,
         NEW x, Effect(before, after, row, s, n, n, d, x), NEW w, w = [i \in 1 .. d |-> x],
         NEW m, m = n + d
  PROVE  Content(after, s, m) = Joined(Content(before, row, n), w)
<1> DEFINE c == Content(before, row, n)
<1>1. Len(w) = d /\ Len(c) = n /\ \A i \in 1 .. d : w[i] = x
  BY DEF Content
<1>2. \A i \in 1 .. n : c[i] = ByteAt(before, row, i - 1)
  BY DEF Content
<1> HIDE DEF c
<1>3. c \o w = [i \in 1 .. n + d |-> IF i <= n THEN c[i] ELSE w[i - n]]
  <2>1. c = [i \in 1 .. n |-> c[i]] /\ w = [i \in 1 .. d |-> w[i]]
    BY DEF c, Content
  <2>2. m \in Nat /\ m = n + d
    OBVIOUS
  <2>3. c \o w = [i \in 1 .. m |-> IF i <= n THEN c[i] ELSE w[i - n]]
    BY <2>1, <2>2, ConcatIs
  <2> QED
    BY <2>2, <2>3
<1>4. ASSUME NEW i \in 1 .. n + d
      PROVE  ByteAt(after, s, i - 1) = IF i <= n THEN c[i] ELSE w[i - n]
  <2>1. PICK k \in Nat : k = i - 1 /\ k < n + d
    OBVIOUS
  <2>2. ByteAt(after, s, k) = IF n <= k /\ k < n + d THEN x
                              ELSE IF k < n THEN ByteAt(before, row, k) ELSE 0
    BY <2>1 DEF Effect
  <2>3. CASE i <= n
    <3>1. i \in 1 .. n /\ ~(n <= k) /\ k < n
      BY <2>1, <2>3
    <3> QED
      BY <1>2, <2>1, <2>2, <2>3, <3>1
  <2>4. CASE ~(i <= n)
    <3>1. i - n \in 1 .. d /\ n <= k
      BY <2>1, <2>4
    <3> QED
      BY <1>1, <2>1, <2>2, <2>4, <3>1
  <2> QED
    BY <2>3, <2>4
<1>5. Content(after, s, n + d) = c \o w
  BY <1>3, <1>4 DEF Content
<1> QED
  BY <1>5 DEF c, Joined

LEMMA ResizedIs ==
  ASSUME NEW before, NEW after, NEW row, NEW s, NEW n \in Nat, NEW m \in Nat,
         Resized(before, after, row, s, n, m)
  PROVE  Content(after, s, m) = Abstract!Resized(Content(before, row, n), m)
<1> DEFINE c == Content(before, row, n)
<1>1. Len(c) = n /\ c \in Seq({c[i] : i \in 1 .. n})
  <2>1. Len(c) = n /\ c = [i \in 1 .. n |-> c[i]]
    BY DEF Content
  <2> QED
    BY <2>1, ValuesIn
<1>2. \A i \in 1 .. n : c[i] = ByteAt(before, row, i - 1)
  BY DEF Content
<1> HIDE DEF c
<1>3. PICK l \in Nat : l = (IF m < n THEN m ELSE n) /\ l <= n /\ l <= m
  OBVIOUS
<1>4. PICK t : t = SubSeq(c, 1, l)
  OBVIOUS
<1>5. Len(t) = l /\ \A i \in 1 .. l : t[i] = c[i]
  BY <1>1, <1>3, <1>4
<1>6. Len(<<>>) = 0 /\ m + 0 = m
  OBVIOUS
<1>7. Abstract!Resized(c, m) = Abstract!Put(t, m, <<>>)
  BY <1>1, <1>3, <1>4 DEF Abstract!Resized
<1>8. Abstract!Put(t, m, <<>>) =
        [i \in 1 .. (IF m > l THEN m ELSE l) |->
           IF m < i /\ i <= m THEN <<>>[i - m] ELSE IF i <= l THEN t[i] ELSE 0]
  BY <1>5, <1>6 DEF Abstract!Put
<1>9. (IF m > l THEN m ELSE l) = m
  BY <1>3
<1>10. ASSUME NEW i \in 1 .. m
       PROVE  ByteAt(after, s, i - 1) =
              IF m < i /\ i <= m THEN <<>>[i - m] ELSE IF i <= l THEN t[i] ELSE 0
  <2>1. PICK k \in Nat : k = i - 1 /\ k < m
    OBVIOUS
  <2>2. ByteAt(after, s, k) = IF k < n THEN ByteAt(before, row, k) ELSE 0
    BY <2>1 DEF Resized
  <2>3. ~(m < i /\ i <= m)
    OBVIOUS
  <2>4. CASE i <= l
    <3>1. i \in 1 .. l /\ i \in 1 .. n /\ k < n
      BY <1>3, <2>1, <2>4
    <3> QED
      BY <1>2, <1>5, <2>1, <2>2, <2>3, <2>4, <3>1
  <2>5. CASE ~(i <= l)
    <3>1. ~(k < n)
      BY <1>3, <2>1, <2>5
    <3> QED
      BY <2>1, <2>2, <2>3, <2>5, <3>1
  <2> QED
    BY <2>4, <2>5
<1>11. Content(after, s, m) = Abstract!Put(t, m, <<>>)
  BY <1>8, <1>9, <1>10 DEF Content
<1> QED
  BY <1>7, <1>11 DEF c

(* got bytes from the byte p on. *)
Part(bytes, s, p, got) == [k \in 1 .. got |-> ByteAt(bytes, s, (p + k) - 1)]
PartOf(c, p, got) == SubSeq(c, p + 1, p + got)

(* What a read returns is what is there. *)
LEMMA PartIs ==
  ASSUME NEW bytes, NEW s, NEW n \in Nat, NEW p \in Nat, NEW got \in Nat, got = 0 \/ p + got <= n
  PROVE  Part(bytes, s, p, got) = PartOf(Content(bytes, s, n), p, got)
<1> DEFINE c == Content(bytes, s, n)
<1>1. Len(c) = n /\ \A i \in 1 .. n : c[i] = ByteAt(bytes, s, i - 1)
  BY DEF Content
<1> HIDE DEF c
<1>2. SubSeq(c, p + 1, p + got) = [k \in 1 .. got |-> c[p + k]]
  BY DEF SubSeq
<1>3. ASSUME NEW k \in 1 .. got
      PROVE  c[p + k] = ByteAt(bytes, s, (p + k) - 1)
  <2>1. p + k \in 1 .. n
    OBVIOUS
  <2> QED
    BY <1>1, <2>1
<1> QED
  BY <1>2, <1>3 DEF c, Part, PartOf

LEMMA ContentsBecome ==
  ASSUME IInv, IInv', NEW f \in Files, NEW s, Rows' = With(Rows, f, s), OnlyIn(data, data', s),
         \A g \in Files \ {f} : SizeOf(g)' = SizeOf(g)
  PROVE  /\ Contents' = [Contents EXCEPT ![f] = Content(data', s, SizeOf(f)')]
         /\ Contents[f] = Content(data, Rows[f], SizeOf(f))
<1>1. \A g \in Files \ {f} : ContentOf(g)' = ContentOf(g)
  BY OthersSame
<1>2. ContentOf(f) = Content(data, Rows[f], SizeOf(f))
  BY ContentIs DEF ContentsFit
<1>3. ContentOf(f)' = Content(data', Rows'[f], SizeOf(f)')
  BY ContentNext DEF ContentsFit
<1>4. Rows'[f] = s
  BY WithIs DEF Rows
<1>5. Contents' = [g \in Files |-> ContentOf(g)'] /\ Contents = [g \in Files |-> ContentOf(g)]
  BY DEF Contents
<1>6. PICK c : c = Content(data', s, SizeOf(f)') /\ ContentOf(f)' = c
  BY <1>3, <1>4
<1>7. Contents' = [Contents EXCEPT ![f] = c]
  BY <1>1, <1>5, <1>6
<1> QED
  BY <1>2, <1>5, <1>6, <1>7

LEMMA ContentsStay ==
  ASSUME IInv, IInv', Rows' = Rows, data' = data, \A g \in Files : SizeOf(g)' = SizeOf(g)
  PROVE  Contents' = Contents
<1>1. ASSUME NEW f \in Files
      PROVE  ContentOf(f)' = ContentOf(f)
  <2>1. ContentOf(f) = Content(data, Rows[f], SizeOf(f))
    BY ContentIs DEF ContentsFit
  <2>2. ContentOf(f)' = Content(data', Rows'[f], SizeOf(f)')
    BY ContentNext DEF ContentsFit
  <2> QED
    BY <2>1, <2>2
<1> QED
  BY <1>1 DEF Contents

(* One handle changes. *)
LEMMA OneHandle ==
  ASSUME IInv, NEW f \in Files, handle' = [handle EXCEPT ![f] = handle'[f]], entry' = entry
  PROVE  /\ \A g \in Files \ {f} : SizeOf(g)' = SizeOf(g)
         /\ Mode' = [Mode EXCEPT ![f] = handle'[f].mode]
         /\ Place' = [Place EXCEPT ![f] = handle'[f].currentPosition]
         /\ Opened(f) => SizeOf(f) = handle[f].size
         /\ handle'[f].mode # {} => SizeOf(f)' = handle'[f].size
<1>1. handle \in [Files -> HandleType]
  BY DEF IInv, Good
<1>2. PICK h : h = handle'[f] /\ handle' = [handle EXCEPT ![f] = h]
  OBVIOUS
<1>3. handle' = [g \in Files |-> handle'[g]] /\ \A g \in Files \ {f} : handle'[g] = handle[g]
  BY <1>1, <1>2
<1>4. \A g \in Files \ {f} : SizeOf(g)' = SizeOf(g)
  BY <1>3 DEF SizeOf, Opened
<1>5. /\ Mode' = [Mode EXCEPT ![f] = h.mode]
      /\ Place' = [Place EXCEPT ![f] = h.currentPosition]
  BY <1>1, <1>2 DEF Mode, Place
<1>6. /\ Opened(f) => SizeOf(f) = handle[f].size
      /\ handle'[f].mode # {} => SizeOf(f)' = handle'[f].size
  BY DEF SizeOf, Opened
<1> QED
  BY <1>2, <1>4, <1>5, <1>6

LEMMA SameMode ==
  ASSUME NEW f \in Files
  PROVE  /\ Mode[f] = handle[f].mode /\ Place[f] = handle[f].currentPosition
         /\ [Mode EXCEPT ![f] = Mode[f]] = Mode /\ [Place EXCEPT ![f] = Place[f]] = Place
BY DEF Mode, Place

LEMMA OpenImplements ==
  ASSUME IInv, NEW f \in Files, Open(f)
  PROVE  Abstract!Open(f)
<1>1. PICK s, n : OpenedOn(f, s, n)
  BY OpenStep
<1>2. ~Opened(f) /\ reply' = <<>>
  BY DEF Open
<1>3. /\ Good(fat', entry', handle', With(Rows, f, s))
      /\ data' = data /\ entry' = entry
      /\ handle' = [handle EXCEPT ![f] = handle'[f]]
      /\ handle'[f].mode \in Modes
      /\ handle'[f].size = n /\ handle'[f].currentPosition = 0
      /\ \/ s = Rows[f] /\ n = entry[f].size
         \/ s = <<>> /\ n = 0 /\ "write" \in handle'[f].mode
  BY <1>1 DEF OpenedOn
<1>4. data' \in Bytes /\ OnlyIn(data, data', s) /\ Rows = [g \in Files |-> Rows[g]]
  BY <1>3 DEF IInv, OnlyIn, Rows
<1>5. IInv' /\ Rows' = With(Rows, f, s)
  BY <1>3, <1>4, RowsNow, WithIs
<1>6. handle'[f].mode # {}
  BY <1>3, ModesAssumption
<1>7. /\ \A g \in Files \ {f} : SizeOf(g)' = SizeOf(g)
      /\ Mode' = [Mode EXCEPT ![f] = handle'[f].mode]
      /\ Place' = [Place EXCEPT ![f] = handle'[f].currentPosition]
      /\ SizeOf(f)' = n
  BY <1>3, <1>6, OneHandle
<1>8. /\ Contents' = [Contents EXCEPT ![f] = Content(data', s, n)]
      /\ Contents[f] = Content(data, Rows[f], SizeOf(f))
  BY <1>4, <1>5, <1>7, ContentsBecome
<1>9. SizeOf(f) = entry[f].size /\ Mode[f] = {}
  BY <1>2 DEF SizeOf, Mode, Opened
<1>10. CASE s = Rows[f] /\ n = entry[f].size
  <2>1. Content(data', s, n) = Contents[f]
    BY <1>3, <1>8, <1>9, <1>10
  <2>2. [Contents EXCEPT ![f] = Contents[f]] = Contents
    BY DEF Contents
  <2>3. Contents' = Contents
    BY <1>8, <2>1, <2>2
  <2> QED
    BY <1>2, <1>3, <1>7, <1>9, <2>3, OpenMaps
<1>11. CASE s = <<>> /\ n = 0 /\ "write" \in handle'[f].mode
  <2>1. Content(data', s, n) = <<>>
    BY <1>11 DEF Content
  <2>2. Contents' = [Contents EXCEPT ![f] = <<>>]
    BY <1>8, <2>1
  <2> QED
    BY <1>2, <1>3, <1>7, <1>9, <1>11, <2>2, OpenMaps
<1> QED
  BY <1>3, <1>10, <1>11

LEMMA ReadImplements ==
  ASSUME IInv, RulesKept, NEW f \in Files, Read(f)
  PROVE  Abstract!Read(f)
<1> DEFINE h == handle[f]
<1>1. "read" \in h.mode /\ Opened(f)
  BY DEF Read, Opened
<1>2. PICK n \in 1 .. MaxLen : ReadTo(f, n)
  BY ReadStep
<1>3. h.size \in Nat /\ h.currentPosition \in Nat /\ n \in Nat
  BY <1>1, OpenedIs, BoundsAssumption DEF HandleType
<1>4. PICK left \in Nat : left = IF h.currentPosition < h.size THEN h.size - h.currentPosition ELSE 0
  BY <1>3
<1>5. PICK got \in Nat : got = IF n < left THEN n ELSE left
  BY <1>3
<1>6. /\ Good(fat', entry', handle', Rows) /\ fat' = fat /\ data' = data /\ entry' = entry
      /\ handle' = [handle EXCEPT ![f] = handle'[f]]
      /\ handle'[f].mode = h.mode /\ handle'[f].size = h.size
      /\ handle'[f].currentPosition = h.currentPosition + got
      /\ reply' = [k \in 1 .. got |-> ByteAt(data, Rows[f], (h.currentPosition + k) - 1)]
  BY <1>2, <1>4, <1>5 DEF ReadTo
<1>7. IInv' /\ Rows' = Rows
  BY <1>6, RowsNow DEF IInv, Rows
<1>8. /\ \A g \in Files \ {f} : SizeOf(g)' = SizeOf(g)
      /\ Mode' = [Mode EXCEPT ![f] = handle'[f].mode]
      /\ Place' = [Place EXCEPT ![f] = handle'[f].currentPosition]
      /\ SizeOf(f) = h.size /\ SizeOf(f)' = h.size
  <2>1. handle'[f].mode # {}
    BY <1>1, <1>6
  <2> QED
    BY <1>1, <1>6, <2>1, OneHandle
<1>9. Contents' = Contents
  BY <1>6, <1>7, <1>8, ContentsStay
<1>10. Contents[f] = Content(data, Rows[f], h.size) /\ Len(Contents[f]) = h.size
  <2>1. Contents[f] = Content(data, Rows[f], h.size)
    BY <1>8, ContentIs DEF ContentsFit, Contents
  <2> QED
    BY <1>3, <2>1 DEF Content
<1>11. Mode[f] = h.mode /\ Place[f] = h.currentPosition /\ Mode' = Mode
       /\ Place' = [Place EXCEPT ![f] = Place[f] + got]
  BY <1>6, <1>8, SameMode
<1>12. reply' = SubSeq(Contents[f], Place[f] + 1, Place[f] + got)
  <2>1. PICK p \in Nat, m \in Nat : p = h.currentPosition /\ m = h.size
    BY <1>3
  <2>2. got = 0 \/ p + got <= m
    BY <1>3, <1>4, <1>5, <2>1
  <2>3. Part(data, Rows[f], p, got) = PartOf(Content(data, Rows[f], m), p, got)
    BY <2>2, PartIs
  <2> QED
    BY <1>6, <1>10, <1>11, <2>1, <2>3 DEF Part, PartOf
<1> HIDE DEF h
<1>13. left = IF Place[f] < Len(Contents[f]) THEN Len(Contents[f]) - Place[f] ELSE 0
  BY <1>4, <1>10, <1>11
<1> QED
  BY <1>1, <1>5, <1>9, <1>11, <1>12, <1>13, ReadMaps

(* A call that does nothing but answer. *)
LEMMA NothingImplements ==
  ASSUME IInv, UNCHANGED <<fat, data, entry, handle>>, reply' = <<>>
  PROVE  Abstract!Nothing
<1>1. Contents' = Contents
  BY DEF Contents, ContentOf, ClustersOf, StartOf, SizeOf, Opened
<1>2. Mode' = Mode /\ Place' = Place
  BY DEF Mode, Place
<1> QED
  BY <1>1, <1>2, NothingMaps

LEMMA WriteImplements ==
  ASSUME IInv, RulesKept, NEW f \in Files, Write(f)
  PROVE  Abstract!Write(f) \/ Abstract!Nothing
<1> DEFINE h == handle[f]
<1>1. "write" \in h.mode /\ Opened(f) /\ entry' = entry /\ reply' = <<>>
  BY DEF Write, Opened
<1>2. CASE UNCHANGED <<fat, data, entry, handle>>
  BY <1>1, <1>2, NothingImplements
<1>3. ASSUME NEW s \in Seq(Clusters), NEW x \in Byte, NEW d \in 0 .. MaxLen, WroteTo(f, s, x, d)
      PROVE  Abstract!Write(f)
  <2>1. h.size \in Nat /\ h.currentPosition \in Nat /\ d \in Nat
    BY <1>1, OpenedIs, BoundsAssumption DEF HandleType
  <2>2. PICK n \in Nat, p \in Nat : n = h.size /\ p = h.currentPosition
    BY <2>1
  <2>3. /\ Good(fat', entry', handle', With(Rows, f, s))
        /\ data' \in Bytes /\ OnlyIn(data, data', s)
        /\ handle' = [handle EXCEPT ![f] = handle'[f]]
        /\ handle'[f].mode = h.mode
    BY <1>3 DEF WroteTo
  <2>4. IInv' /\ Rows' = With(Rows, f, s)
    <3>1. Rows = [g \in Files |-> Rows[g]]
      BY DEF Rows
    <3> QED
      BY <2>3, <3>1, RowsNow, WithIs
  <2>5. handle'[f].mode # {}
    BY <1>1, <2>3
  <2>6. /\ \A g \in Files \ {f} : SizeOf(g)' = SizeOf(g)
        /\ Mode' = [Mode EXCEPT ![f] = handle'[f].mode]
        /\ Place' = [Place EXCEPT ![f] = handle'[f].currentPosition]
        /\ SizeOf(f) = n /\ SizeOf(f)' = handle'[f].size
    BY <1>1, <2>2, <2>3, <2>5, OneHandle
  <2>7. /\ Contents' = [Contents EXCEPT ![f] = Content(data', s, handle'[f].size)]
        /\ Contents[f] = Content(data, Rows[f], n)
    BY <2>3, <2>4, <2>6, ContentsBecome
  <2>8. Mode[f] = h.mode /\ Place[f] = p /\ Mode' = Mode
    BY <2>2, <2>3, <2>6, SameMode
  <2>9. PICK w : w = [i \in 1 .. d |-> x]
    OBVIOUS
  <2>10. w \in Abstract!Written(d)
    BY <2>9 DEF Abstract!Written
  <2>11. CASE "append" \in h.mode
    <3>1. WriteFrom(h) = n /\ handle'[f].currentPosition = p
      BY <1>3, <2>2, <2>11 DEF WroteTo, WriteFrom
    <3>2. handle'[f].size = n + d
      BY <1>3, <2>2, <3>1 DEF WroteTo
    <3>3. Effect(data, data', Rows[f], s, n, n, d, x)
      BY <1>3, <2>2, <3>1 DEF WroteTo
    <3>4. Content(data', s, n + d) = Content(data, Rows[f], n) \o w
      <4>1. PICK after, row, m : after = data' /\ row = Rows[f] /\ m = n + d
        OBVIOUS
      <4>2. Effect(data, after, row, s, n, n, d, x)
        BY <3>3, <4>1
      <4>3. Content(after, s, m) = Joined(Content(data, row, n), w)
        BY <2>1, <2>9, <4>1, <4>2, AppendIs
      <4> QED
        BY <4>1, <4>3 DEF Joined
    <3>5. Contents' = [Contents EXCEPT ![f] = @ \o w]
      BY <2>7, <3>2, <3>4
    <3>6. Place' = Place
      BY <2>6, <2>8, <3>1, SameMode
    <3> QED
      BY <1>1, <2>8, <2>10, <2>11, <3>5, <3>6, WriteMaps
  <2>12. CASE "append" \notin h.mode
    <3>1. WriteFrom(h) = p
      BY <2>2, <2>12 DEF WriteFrom
    <3>2. PICK m : m = handle'[f].size
      OBVIOUS
    <3>3. /\ m = IF n < p + d THEN p + d ELSE n
          /\ handle'[f].currentPosition = p + d
          /\ Effect(data, data', Rows[f], s, n, p, d, x)
      BY <1>3, <2>2, <2>12, <3>1, <3>2 DEF WroteTo
    <3>4. Content(data', s, m) = Abstract!Put(Content(data, Rows[f], n), p, w)
      <4>1. PICK after, row : after = data' /\ row = Rows[f]
        OBVIOUS
      <4>2. Effect(data, after, row, s, n, p, d, x)
        BY <3>3, <4>1
      <4>3. Content(after, s, m) = Abstract!Put(Content(data, row, n), p, w)
        BY <2>1, <2>9, <3>3, <4>2, PutIs
      <4> QED
        BY <4>1, <4>3
    <3>5. Contents' = [Contents EXCEPT ![f] = Abstract!Put(@, Place[f], w)]
      BY <2>7, <2>8, <3>2, <3>4
    <3>6. Place' = [Place EXCEPT ![f] = @ + d]
      BY <2>6, <2>8, <3>3
    <3> QED
      BY <1>1, <2>8, <2>10, <2>12, <3>5, <3>6, WriteMaps
  <2> QED
    BY <2>11, <2>12
<1> QED
  BY <1>2, <1>3, WriteStep

LEMMA SeekImplements ==
  ASSUME IInv, NEW f \in Files, Seek(f)
  PROVE  Abstract!Seek(f)
<1>1. Opened(f) /\ reply' = <<>>
  BY DEF Seek
<1>2. PICK p \in 0 .. MaxSize : SoughtTo(f, p)
  BY SeekStep
<1>3. /\ Good(fat', entry', handle', Rows) /\ data' = data /\ entry' = entry
      /\ handle' = [handle EXCEPT ![f] = handle'[f]]
      /\ handle'[f].mode = handle[f].mode /\ handle'[f].size = handle[f].size
      /\ handle'[f].currentPosition = p
  BY <1>2 DEF SoughtTo
<1>4. IInv' /\ Rows' = Rows
  BY <1>3, RowsNow DEF IInv, Rows
<1>5. Mode[f] # {} /\ handle'[f].mode # {}
  BY <1>1, <1>3 DEF Opened, Mode
<1>6. /\ \A g \in Files \ {f} : SizeOf(g)' = SizeOf(g)
      /\ Mode' = [Mode EXCEPT ![f] = handle'[f].mode]
      /\ Place' = [Place EXCEPT ![f] = p]
      /\ SizeOf(f)' = SizeOf(f)
  BY <1>1, <1>3, <1>5, OneHandle
<1>7. Mode' = Mode
  BY <1>3, <1>6, SameMode
<1>8. Contents' = Contents
  BY <1>3, <1>4, <1>6, ContentsStay
<1> QED
  BY <1>1, <1>5, <1>6, <1>7, <1>8, SeekMaps

LEMMA TruncateImplements ==
  ASSUME IInv, RulesKept, NEW f \in Files, Truncate(f)
  PROVE  Abstract!Truncate(f) \/ Abstract!Nothing
<1> DEFINE h == handle[f]
<1>1. "write" \in h.mode /\ Opened(f) /\ entry' = entry /\ reply' = <<>>
  BY DEF Truncate, Opened
<1>2. CASE UNCHANGED <<fat, data, entry, handle>>
  BY <1>1, <1>2, NothingImplements
<1>3. ASSUME NEW n \in 0 .. MaxSize, NEW s \in Seq(Clusters), ResizedTo(f, s, n)
      PROVE  Abstract!Truncate(f)
  <2>1. h.size \in Nat /\ n \in Nat
    BY <1>1, OpenedIs, BoundsAssumption DEF HandleType
  <2>2. /\ Good(fat', entry', handle', With(Rows, f, s))
        /\ data' \in Bytes /\ OnlyIn(data, data', s)
        /\ handle' = [handle EXCEPT ![f] = handle'[f]]
        /\ handle'[f].mode = h.mode /\ handle'[f].size = n
        /\ handle'[f].currentPosition = h.currentPosition
        /\ Resized(data, data', Rows[f], s, h.size, n)
    BY <1>3 DEF ResizedTo
  <2>3. IInv' /\ Rows' = With(Rows, f, s)
    <3>1. Rows = [g \in Files |-> Rows[g]]
      BY DEF Rows
    <3> QED
      BY <2>2, <3>1, RowsNow, WithIs
  <2>4. handle'[f].mode # {}
    BY <1>1, <2>2
  <2>5. /\ \A g \in Files \ {f} : SizeOf(g)' = SizeOf(g)
        /\ Mode' = [Mode EXCEPT ![f] = handle'[f].mode]
        /\ Place' = [Place EXCEPT ![f] = handle'[f].currentPosition]
        /\ SizeOf(f) = h.size /\ SizeOf(f)' = n
    BY <1>1, <2>2, <2>4, OneHandle
  <2>6. /\ Contents' = [Contents EXCEPT ![f] = Content(data', s, n)]
        /\ Contents[f] = Content(data, Rows[f], h.size)
    BY <2>2, <2>3, <2>5, ContentsBecome
  <2>7. Mode[f] = h.mode /\ Mode' = Mode /\ Place' = Place
    BY <2>2, <2>5, SameMode
  <2>8. Content(data', s, n) = Abstract!Resized(Content(data, Rows[f], h.size), n)
    BY <2>1, <2>2, ResizedIs
  <2>9. Contents' = [Contents EXCEPT ![f] = Abstract!Resized(@, n)]
    BY <2>6, <2>8
  <2> QED
    BY <1>1, <2>7, <2>9, TruncateMaps
<1> QED
  BY <1>2, <1>3, TruncateStep

LEMMA FsyncImplements ==
  ASSUME IInv, NEW f \in Files, Fsync(f)
  PROVE  Abstract!Nothing
<1>1. /\ Untouched
      /\ \A g \in Files : /\ handle'[g].mode = handle[g].mode /\ handle'[g].size = handle[g].size
                          /\ handle'[g].currentPosition = handle[g].currentPosition
                          /\ handle[g].mode = {} => entry'[g].size = entry[g].size
  BY FsyncStep
<1>2. reply' = <<>>
  BY DEF Fsync
<1>3. IInv' /\ Rows' = Rows /\ data' = data
  BY <1>1, RowsNow DEF Untouched, IInv, Rows
<1>4. \A g \in Files : SizeOf(g)' = SizeOf(g)
  BY <1>1 DEF SizeOf, Opened
<1>5. Contents' = Contents
  BY <1>3, <1>4, ContentsStay
<1>6. Mode' = Mode /\ Place' = Place
  BY <1>1 DEF Mode, Place
<1> QED
  BY <1>2, <1>5, <1>6, NothingMaps

LEMMA CloseImplements ==
  ASSUME IInv, NEW F \in SUBSET Files, F # {}, ClosedThose(F), reply' = <<>>
  PROVE  Abstract!Close(F)
<1>1. Untouched /\ \A f \in Files : SizeOf(f)' = SizeOf(f)
  BY CloseThose
<1>2. IInv' /\ Rows' = Rows /\ data' = data
  BY <1>1, RowsNow DEF Untouched, IInv, Rows
<1>3. Contents' = Contents
  BY <1>1, <1>2, ContentsStay
<1>4. \A f \in Files : handle'[f] = IF f \in F THEN Closed ELSE handle[f]
  BY DEF ClosedThose
<1>5. /\ Mode' = [f \in Files |-> IF f \in F THEN {} ELSE Mode[f]]
      /\ Place' = [f \in Files |-> IF f \in F THEN 0 ELSE Place[f]]
  BY <1>4, ClosedIs DEF Mode, Place
<1> QED
  BY <1>3, <1>5, CloseMaps

LEMMA UnlinkImplements ==
  ASSUME IInv, NEW f \in Files, Unlink(f)
  PROVE  Abstract!Unlink(f)
<1>1. ~Opened(f) /\ reply' = <<>>
  BY DEF Unlink
<1>2. /\ Good(fat', entry', handle', With(Rows, f, <<>>))
      /\ data' = data /\ handle' = handle /\ entry'[f].size = 0
      /\ \A g \in Files \ {f} : entry'[g] = entry[g]
  BY UnlinkStep
<1>3. data' \in Bytes /\ OnlyIn(data, data', <<>>) /\ Rows = [g \in Files |-> Rows[g]]
  BY <1>2 DEF IInv, OnlyIn, Rows
<1>4. IInv' /\ Rows' = With(Rows, f, <<>>)
  BY <1>2, <1>3, RowsNow, WithIs
<1>5. /\ \A g \in Files \ {f} : SizeOf(g)' = SizeOf(g)
      /\ SizeOf(f)' = 0 /\ Mode[f] = {}
  BY <1>1, <1>2 DEF SizeOf, Opened, Mode
<1>6. Contents' = [Contents EXCEPT ![f] = Content(data', <<>>, 0)]
  <2>1. Contents' = [Contents EXCEPT ![f] = Content(data', <<>>, SizeOf(f)')]
    BY <1>3, <1>4, <1>5, ContentsBecome
  <2> QED
    BY <1>5, <2>1
<1>7. Content(data', <<>>, 0) = <<>>
  BY DEF Content
<1>8. Mode' = Mode /\ Place' = Place
  BY <1>2 DEF Mode, Place
<1> QED
  BY <1>1, <1>5, <1>6, <1>7, <1>8, UnlinkMaps

LEMMA InitImplements == Init => Abstract!Init
<1> SUFFICES ASSUME Init
             PROVE  Abstract!Init
  OBVIOUS
<1>1. \A f \in Files : handle[f].mode = {} /\ handle[f].currentPosition = 0 /\ entry[f].size = 0
  BY ClosedIs DEF Init
<1>2. \A f \in Files : SizeOf(f) = 0
  BY <1>1 DEF SizeOf, Opened
<1>3. \A f \in Files : ContentOf(f) = <<>>
  BY <1>2 DEF ContentOf
<1>4. reply = <<>>
  BY DEF Init
<1> QED
  BY <1>1, <1>3, <1>4 DEF Abstract!Init

LEMMA NextImplements ==
  ASSUME IInv, RulesKept, [Next]_vars
  PROVE  [Abstract!Next]_(Abstract!vars)
<1>1. ASSUME NEW f \in Files, Open(f)
      PROVE  Abstract!Next
  BY <1>1, OpenImplements DEF Abstract!Next
<1>2. ASSUME NEW f \in Files, Read(f)
      PROVE  Abstract!Next
  BY <1>2, ReadImplements DEF Abstract!Next
<1>3. ASSUME NEW f \in Files, Write(f)
      PROVE  Abstract!Next
  BY <1>3, WriteImplements DEF Abstract!Next
<1>4. ASSUME NEW f \in Files, Seek(f)
      PROVE  Abstract!Next
  BY <1>4, SeekImplements DEF Abstract!Next
<1>5. ASSUME NEW f \in Files, Truncate(f)
      PROVE  Abstract!Next
  BY <1>5, TruncateImplements DEF Abstract!Next
<1>6. ASSUME NEW f \in Files, Fsync(f)
      PROVE  Abstract!Next
  BY <1>6, FsyncImplements DEF Abstract!Next
<1>7. ASSUME NEW f \in Files, Close(f)
      PROVE  Abstract!Next
  <2>1. ClosedThose({f}) /\ {f} # {} /\ {f} \in SUBSET Files
    BY <1>7, CloseStep
  <2>2. reply' = <<>>
    BY <1>7 DEF Close
  <2>3. Abstract!Close({f})
    BY <2>1, <2>2, CloseImplements
  <2> QED
    BY <2>1, <2>3 DEF Abstract!Next
<1>8. ASSUME NEW f \in Files, Unlink(f)
      PROVE  Abstract!Next
  BY <1>8, UnlinkImplements DEF Abstract!Next
<1>9. ASSUME Unmount
      PROVE  Abstract!Next
  <2>1. ClosedThose(Files) /\ Files # {} /\ reply' = <<>>
    BY <1>9, UnmountStep DEF Unmount
  <2>2. Abstract!Close(Files)
    BY <2>1, CloseImplements
  <2> QED
    BY <2>2 DEF Abstract!Next
<1>10. CASE UNCHANGED vars
  <2>1. UNCHANGED <<Contents, Mode, Place, reply>>
    BY <1>10 DEF vars, Contents, Mode, Place, ContentOf, ClustersOf, StartOf, SizeOf, Opened
  <2> QED
    BY <2>1 DEF Abstract!vars, Contents, Mode, Place
<1> QED
  BY <1>1, <1>2, <1>3, <1>4, <1>5, <1>6, <1>7, <1>8, <1>9, <1>10 DEF Next

(* Under the rules that clients must keep, the files implement sequences   *)
(* of bytes: every call does to the bytes of its file what ByteFile says   *)
(* of it and nothing to those of another, on any volume, at any place, and *)
(* when the disc is full.                                                  *)
THEOREM FilesAreSequences == ASSUME RulesKept PROVE Spec => FileSpec
<1>1. Init => Abstract!Init
  BY InitImplements
<1>2. IInv /\ [Next]_vars => [Abstract!Next]_(Abstract!vars)
  BY NextImplements
<1> QED
  BY <1>1, <1>2, FileInvariance, PTL DEF Spec, FileSpec, Abstract!Spec
=============================================================================

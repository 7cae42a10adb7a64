------------------------------ MODULE EfsProofs -----------------------------
(***************************************************************************)
(* The encrypted disc is, to the cache, an array of sectors: EfsDisc       *)
(* implements PageDisc, for every size of block, of file and of buffer,    *)
(* with faults of the file and kills of the program at any time.           *)
(*                                                                         *)
(* A mounted volume on it, EfsVolume, keeps what a flush has written, for  *)
(* every size of block, page, image and buffer, any number of pages and    *)
(* whatever callers write: through replaced pages, flushes given up, the   *)
(* FSInfo sector written past the cache, unmounting and kills.             *)
(*                                                                         *)
(* The first sections are about EfsBlocks, what a request does to the      *)
(* plain sectors, on which both rest.                                      *)
(***************************************************************************)
EXTENDS EfsVolume, EfsDisc, FiniteSetTheorems, SequenceTheorems, TLAPS

-----------------------------------------------------------------------------
(* Blocks. *)

LEMMA DivMod ==
  ASSUME NEW n \in Nat, n >= 1, NEW a \in Nat
  PROVE  /\ a \div n \in Nat /\ a % n \in 0 .. n - 1
         /\ a = n * (a \div n) + (a % n)
OBVIOUS

LEMMA Multiples ==
  ASSUME NEW n \in Nat, n >= 1, NEW q \in Nat, NEW k \in 0 .. n - 1
  PROVE  (n * q + k) % n = k
<1> DEFINE a == n * q + k
<1>1. n * q \in Nat
  OBVIOUS
<1>2. a \in Nat
  BY <1>1
<1> DEFINE r == a \div n
           d == a % n
<1>3. r \in Nat /\ d \in 0 .. n - 1 /\ a = n * r + d
  BY <1>2, DivMod
<1>4. n * q + k = n * r + d
  BY <1>3
<1> HIDE DEF r, d
<1>5. ~(q < r)
  <2> SUFFICES ASSUME q < r PROVE FALSE
    OBVIOUS
  <2>1. n * (r - q) >= n
    BY <1>3
  <2>2. n * r >= n * q + n
    BY <2>1, <1>3
  <2> QED
    BY <2>2, <1>3, <1>4, <1>1
<1>6. ~(r < q)
  <2> SUFFICES ASSUME r < q PROVE FALSE
    OBVIOUS
  <2>1. n * (q - r) >= n
    BY <1>3
  <2>2. n * q >= n * r + n
    BY <2>1, <1>3
  <2> QED
    BY <2>2, <1>3, <1>4, <1>1
<1>7. r = q
  BY <1>3, <1>5, <1>6
<1>8. d = k
  BY <1>4, <1>7, <1>3
<1> QED
  BY <1>8 DEF d

(* A block starts every BlockSectors sectors, and nowhere in between. *)
LEMMA BlockStarts ==
  ASSUME NEW s \in Nat, StartsBlock(s)
  PROVE  /\ \A k \in 1 .. BlockSectors - 1 : ~StartsBlock(s + k)
         /\ StartsBlock(s + BlockSectors)
<1> DEFINE n == BlockSectors
           q == s \div n
<1>1. n \in Nat /\ n >= 1 /\ q \in Nat /\ s = n * q
  BY BlockSectorsAssumption, DivMod DEF StartsBlock
<1> HIDE DEF q
<1>2. \A k \in 1 .. n - 1 : (s + k) % n = k
  BY <1>1, Multiples
<1>3. (s + n) % n = 0
  <2>1. n * (q + 1) = s + n /\ q + 1 \in Nat
    BY <1>1
  <2>2. (n * (q + 1) + 0) % n = 0
    BY <1>1, <2>1, Multiples
  <2> QED
    BY <1>1, <2>1, <2>2
<1> QED
  BY <1>1, <1>2, <1>3 DEF StartsBlock

-----------------------------------------------------------------------------
(* Vectors. *)

LEMMA IvValues ==
  /\ NoIv \in Ivs
  /\ \A s \in Sectors : blobEncodeIv(s) \in Ivs
  /\ \A iv \in Ivs, a \in Contents :
       Encrypt(a, iv) \in Cells /\ Encrypt(a, iv).plain = a /\ Encrypt(a, iv).iv = iv
BY DEF NoIv, blobEncodeIv, Ivs, Encrypt, Cells

(* The vector after k + 1 sectors is the tail of the one before. *)
LEMMA PastIs ==
  ASSUME NEW iv \in Ivs, NEW n \in Nat, NEW new \in [0 .. n - 1 -> Contents]
  PROVE  /\ Past(iv, new, 0) = iv
         /\ \A k \in 0 .. n : Past(iv, new, k) \in Ivs
         /\ \A k \in 0 .. n - 1 :
              Past(iv, new, k + 1) = Encrypt(new[k], Past(iv, new, k)).tail
<1> DEFINE f(k) == [j \in 1 .. k |-> new[j - 1]]
<1>1. \A k \in 0 .. n : f(k) \in Seq(Contents) /\ Len(f(k)) = k
  OBVIOUS
<1>2. f(0) = <<>>
  OBVIOUS
<1>3. \A k \in 0 .. n - 1 : f(k + 1) = Append(f(k), new[k])
  <2> SUFFICES ASSUME NEW k \in 0 .. n - 1
               PROVE  f(k + 1) = Append(f(k), new[k])
    OBVIOUS
  <2>1. new[k] \in Contents
    OBVIOUS
  <2> DEFINE g == Append(f(k), new[k])
  <2>2. g \in Seq(Contents) /\ Len(g) = k + 1
    BY <1>1, <2>1
  <2>3. \A j \in 1 .. k + 1 : g[j] = f(k + 1)[j]
    BY <1>1, <2>1
  <2>4. f(k + 1) \in Seq(Contents) /\ Len(f(k + 1)) = k + 1
    BY <1>1
  <2> QED
    BY <2>2, <2>3, <2>4
<1> HIDE DEF f
<1>4. iv.texts \in Seq(Contents) /\ iv = [blob |-> iv.blob, texts |-> iv.texts]
  BY DEF Ivs
<1>5. \A k \in 0 .. n : Past(iv, new, k) = [blob |-> iv.blob, texts |-> iv.texts \o f(k)]
  BY DEF Past, f
<1>6. Past(iv, new, 0) = iv
  <2>1. iv.texts \o <<>> = iv.texts
    BY <1>4, ConcatEmptySeq
  <2>2. Past(iv, new, 0) = [blob |-> iv.blob, texts |-> iv.texts \o f(0)]
    BY <1>5
  <2> QED
    BY <1>2, <1>4, <2>1, <2>2
<1>7. \A k \in 0 .. n : Past(iv, new, k) \in Ivs
  <2> SUFFICES ASSUME NEW k \in 0 .. n
               PROVE  [blob |-> iv.blob, texts |-> iv.texts \o f(k)] \in Ivs
    BY <1>5
  <2>1. iv.texts \o f(k) \in Seq(Contents)
    BY <1>1, <1>4
  <2> QED
    BY <2>1 DEF Ivs
<1>8. ASSUME NEW k \in 0 .. n - 1
      PROVE  Past(iv, new, k + 1) = Encrypt(new[k], Past(iv, new, k)).tail
  <2>1. iv.texts \o Append(f(k), new[k]) = Append(iv.texts \o f(k), new[k])
    <3>1. /\ f(k) \in Seq(Contents) /\ <<new[k]>> \in Seq(Contents) /\ new[k] \in Contents
          /\ iv.texts \o f(k) \in Seq(Contents)
      BY <1>1, <1>4
    <3>2. /\ Append(f(k), new[k]) = f(k) \o <<new[k]>>
          /\ Append(iv.texts \o f(k), new[k]) = (iv.texts \o f(k)) \o <<new[k]>>
      BY <3>1, AppendIsConcat
    <3> QED
      BY <1>4, <3>1, <3>2, ConcatAssociative
  <2>2. Past(iv, new, k + 1) = [blob |-> iv.blob, texts |-> iv.texts \o Append(f(k), new[k])]
    <3>1. k + 1 \in 0 .. n
      OBVIOUS
    <3>2. Past(iv, new, k + 1) = [blob |-> iv.blob, texts |-> iv.texts \o f(k + 1)]
      BY <3>1, <1>5
    <3> QED
      BY <1>3, <3>2
  <2>3. Encrypt(new[k], Past(iv, new, k)).tail
          = [blob |-> iv.blob, texts |-> Append(iv.texts \o f(k), new[k])]
    <3>1. Past(iv, new, k) = [blob |-> iv.blob, texts |-> iv.texts \o f(k)]
      BY <1>5
    <3> QED
      BY <3>1 DEF Encrypt
  <2> QED
    BY <1>4, <2>1, <2>2, <2>3
<1> QED
  BY <1>6, <1>7, <1>8

(* run holds n sectors encrypted one after the other, iv being the vector  *)
(* of the first.                                                           *)
Chained(run, n, new, iv) ==
  /\ run \in [0 .. n - 1 -> Cells]
  /\ \A k \in 0 .. n - 1 : run[k].plain = new[k]
  /\ run[0].iv = iv
  /\ \A k \in 1 .. n - 1 : run[k].iv = run[k - 1].tail

LEMMA ChainIs ==
  ASSUME NEW s \in Sectors, NEW n \in Nat, n >= 1,
         NEW new \in [0 .. n - 1 -> Contents],
         NEW iv \in Ivs, StartsBlock(s) => iv = blobEncodeIv(s)
  PROVE  Chained(Chain(s, new, iv), n, new, iv)
<1> DEFINE run == Chain(s, new, iv)
<1>1. run = [k \in 0 .. n - 1 |-> Encrypt(new[k], Past(iv, new, k))]
  BY DEF Chain
<1>2. \A k \in 0 .. n - 1 : /\ new[k] \in Contents /\ Past(iv, new, k) \in Ivs
                            /\ run[k] = Encrypt(new[k], Past(iv, new, k))
  BY <1>1, PastIs
<1> HIDE DEF run
<1>3. \A k \in 0 .. n - 1 : /\ run[k] \in Cells /\ run[k].plain = new[k]
                            /\ run[k].iv = Past(iv, new, k)
  BY <1>2, IvValues
<1>4. run \in [0 .. n - 1 -> Cells]
  BY <1>1, <1>3
<1>5. \A k \in 1 .. n - 1 : run[k].iv = run[k - 1].tail
  <2> SUFFICES ASSUME NEW k \in 1 .. n - 1
               PROVE  run[k].iv = run[k - 1].tail
    OBVIOUS
  <2>1. k - 1 \in 0 .. n - 1 /\ k \in 0 .. n - 1 /\ (k - 1) + 1 = k
    OBVIOUS
  <2>2. Past(iv, new, (k - 1) + 1) = Encrypt(new[k - 1], Past(iv, new, k - 1)).tail
    BY <2>1, PastIs
  <2> QED
    BY <1>2, <1>3, <2>1, <2>2
<1>6. run[0].iv = iv
  BY <1>3, PastIs
<1> QED
  BY <1>3, <1>4, <1>5, <1>6 DEF Chained, run

-----------------------------------------------------------------------------
(* What a file shows. *)

Files == [Sectors -> Cells]

LEMMA PlainIs ==
  ASSUME NEW file \in Files
  PROVE  /\ Plain(file) \in [Sectors -> Contents]
         /\ \A x \in Sectors : Plain(file)[x] = Decrypt(file[x], IvIn(file, x))
BY DEF Plain, Files, Decrypt, Cells, Contents

(* A sector shows the same in files that agree on it and, but at the start *)
(* of a block, on the tail of the one before.                              *)
LEMMA PlainAgree ==
  ASSUME NEW file \in Files, NEW other \in Files, NEW x \in Sectors,
         other[x] = file[x],
         StartsBlock(x) \/ (x >= 1 /\ other[x - 1].tail = file[x - 1].tail)
  PROVE  Plain(other)[x] = Plain(file)[x]
BY DEF Plain, IvIn, Decrypt

(* The n sectors from s on are in one block. *)
InOneBlock(s, n) ==
  /\ s \in Sectors /\ n \in Nat /\ n >= 1 /\ s + n <= Size
  /\ \A x \in s + 1 .. s + n - 1 : ~StartsBlock(x)

LEMMA ReplacedIs ==
  ASSUME NEW file \in Files, NEW s \in Sectors, NEW n \in Nat, InOneBlock(s, n), NEW m \in 0 .. n,
         NEW run \in [0 .. n - 1 -> Cells]
  PROVE  /\ Replaced(file, s, run, m) \in Files
         /\ \A x \in Sectors : x \in s .. s + m - 1 => Replaced(file, s, run, m)[x] = run[x - s]
         /\ \A x \in Sectors : x \notin s .. s + m - 1 => Replaced(file, s, run, m)[x] = file[x]
<1>1. /\ s \in Nat /\ n \in Nat /\ m \in Nat /\ m <= n
      /\ \A x \in Sectors : x \in Nat
  BY SizeAssumption DEF InOneBlock, Sectors
<1>2. \A x \in Sectors : x \in s .. s + m - 1 => x - s \in 0 .. n - 1
  BY <1>1
<1> QED
  BY <1>2 DEF Replaced, Files

(* The first m sectors of a run, written over those from s on, show what   *)
(* was written, and spoil nothing but the one that follows them.           *)
LEMMA ReplacedShows ==
  ASSUME NEW file \in Files, NEW s \in Sectors, NEW n \in Nat, InOneBlock(s, n), NEW m \in 0 .. n,
         NEW new \in [0 .. n - 1 -> Contents], NEW run,
         Chained(run, n, new, IvIn(file, s))
  PROVE  LET file2 == Replaced(file, s, run, m) IN
         /\ \A x \in s .. s + m - 1 : Plain(file2)[x] = new[x - s]
         /\ \A x \in Sectors \ (s .. s + m - 1) :
              x # s + m \/ StartsBlock(x) => Plain(file2)[x] = Plain(file)[x]
<1> DEFINE file2 == Replaced(file, s, run, m)
<1>1. /\ s \in Nat /\ n \in Nat /\ m \in Nat /\ m <= n /\ s + n <= Size
      /\ Size \in Nat /\ \A x \in Sectors : x \in Nat /\ x < Size
  BY SizeAssumption DEF InOneBlock, Sectors
<1>2. /\ file2 \in Files
      /\ \A x \in Sectors : x \in s .. s + m - 1 => file2[x] = run[x - s]
      /\ \A x \in Sectors : x \notin s .. s + m - 1 => file2[x] = file[x]
  <2>1. run \in [0 .. n - 1 -> Cells]
    BY DEF Chained
  <2> HIDE DEF file2
  <2>2. file2 = Replaced(file, s, run, m)
    BY DEF file2
  <2> QED
    BY <2>1, <2>2, ReplacedIs
<1> HIDE DEF file2
<1>3. ASSUME NEW x \in s .. s + m - 1
      PROVE  Plain(file2)[x] = new[x - s]
  <2>1. x \in Sectors /\ x \in Nat /\ x - s \in 0 .. n - 1 /\ file2[x] = run[x - s]
    BY <1>1, <1>2 DEF Sectors
  <2>2. run[x - s].plain = new[x - s]
    BY <2>1 DEF Chained
  <2>3. IvIn(file2, x) = run[x - s].iv
    <3>1. CASE x = s
      <4>1. run[x - s].iv = IvIn(file, s)
        BY <1>1, <3>1 DEF Chained
      <4>2. ~StartsBlock(s) => s >= 1 /\ s - 1 \in Sectors
        BY <1>1, BlockSectorsAssumption DEF StartsBlock, Sectors
      <4>3. ~StartsBlock(s) => file2[s - 1] = file[s - 1]
        BY <1>1, <1>2, <4>2
      <4> QED
        BY <3>1, <4>1, <4>3 DEF IvIn
    <3>2. CASE x # s
      <4>1. /\ x - 1 \in s .. s + m - 1 /\ x - 1 \in Sectors
            /\ x - s \in 1 .. n - 1 /\ (x - 1) - s = (x - s) - 1
            /\ x \in s + 1 .. s + n - 1
        BY <1>1, <2>1, <3>2 DEF Sectors
      <4>2. file2[x - 1] = run[(x - s) - 1]
        BY <1>2, <4>1
      <4>3. run[x - s].iv = run[(x - s) - 1].tail
        BY <4>1 DEF Chained
      <4>4. ~StartsBlock(x)
        BY <4>1 DEF InOneBlock
      <4> QED
        BY <4>2, <4>3, <4>4 DEF IvIn
    <3> QED
      BY <3>1, <3>2
  <2> QED
    BY <1>2, <2>1, <2>2, <2>3, PlainIs DEF Decrypt
<1>4. ASSUME NEW x \in Sectors \ (s .. s + m - 1), x # s + m \/ StartsBlock(x)
      PROVE  Plain(file2)[x] = Plain(file)[x]
  <2>1. file2[x] = file[x]
    BY <1>2
  <2>2. CASE StartsBlock(x)
    BY <1>2, <2>1, <2>2, PlainAgree
  <2>3. CASE ~StartsBlock(x)
    <3>1. x >= 1 /\ x - 1 \in Sectors
      BY <1>1, <2>3, BlockSectorsAssumption DEF StartsBlock, Sectors
    <3>2. x - 1 \notin s .. s + m - 1
      BY <1>1, <1>4, <2>3, <3>1
    <3> QED
      BY <1>2, <2>1, <3>1, <3>2, PlainAgree
  <2> QED
    BY <2>2, <2>3
<1> QED
  BY <1>3, <1>4 DEF file2

(* What a request reads. *)
LEMMA DataIs ==
  ASSUME cells \in Files, NEW s \in Sectors, NEW n \in Nat, InOneBlock(s, n),
         At(s) = s, IvAt(s) = IvIn(cells, s)
  PROVE  Data(s, n) = [x \in s .. s + n - 1 |-> Plain(cells)[x]]
<1>1. /\ s \in Nat /\ n \in Nat /\ s + n <= Size
      /\ Size \in Nat /\ \A x \in Sectors : x \in Nat /\ x < Size
  BY SizeAssumption DEF InOneBlock, Sectors
<1>2. ASSUME NEW x \in s .. s + n - 1
      PROVE  /\ s + x - s = x
             /\ (IF x = s THEN IvAt(s) ELSE cells[s + x - s - 1].tail) = IvIn(cells, x)
             /\ Plain(cells)[x] = Decrypt(cells[x], IvIn(cells, x))
  <2>1. x \in Sectors /\ x \in Nat /\ s + x - s = x
    BY <1>1 DEF Sectors
  <2>2. CASE x = s
    BY <2>1, <2>2, PlainIs
  <2>3. CASE x # s
    <3>1. ~StartsBlock(x)
      BY <1>1, <2>1, <2>3 DEF InOneBlock
    <3>2. s + x - s - 1 = x - 1
      BY <1>1, <2>1
    <3>3. IvIn(cells, x) = cells[x - 1].tail
      BY <3>1 DEF IvIn
    <3> QED
      BY <2>1, <2>3, <3>2, <3>3, PlainIs
  <2> QED
    BY <2>2, <2>3
<1> QED
  BY <1>2 DEF Data

(* The image the console made shows zeroes. *)
LEMMA ImageIs ==
  /\ Image \in Files
  /\ \A x \in Sectors : Plain(Image)[x] = 0
<1> DEFINE zeroes == [k \in 0 .. BlockSectors - 1 |-> 0]
           first(x) == x - (x % BlockSectors)
<1>1. /\ BlockSectors \in Nat /\ BlockSectors >= 1 /\ Size \in Nat
      /\ zeroes \in [0 .. BlockSectors - 1 -> Contents] /\ 0 \in Contents
      /\ \A x \in Sectors : x \in Nat /\ x < Size
  BY BlockSectorsAssumption, SizeAssumption, ValuesAssumption DEF Contents, Sectors
<1>2. \A x \in Sectors : first(x) \in Sectors /\ x % BlockSectors \in 0 .. BlockSectors - 1
  <2> SUFFICES ASSUME NEW x \in Sectors
               PROVE  first(x) \in Sectors /\ x % BlockSectors \in 0 .. BlockSectors - 1
    OBVIOUS
  <2>1. /\ x \div BlockSectors \in Nat /\ x % BlockSectors \in 0 .. BlockSectors - 1
        /\ x = BlockSectors * (x \div BlockSectors) + (x % BlockSectors)
    BY <1>1, DivMod
  <2>2. BlockSectors * (x \div BlockSectors) \in Nat
    BY <1>1, <2>1
  <2> QED
    BY <1>1, <2>1, <2>2 DEF Sectors
<1> HIDE DEF zeroes, first
<1>3. ASSUME NEW x \in Sectors
      PROVE  /\ Past(blobEncodeIv(first(x)), zeroes, x % BlockSectors) \in Ivs
             /\ Image[x] \in Cells
             /\ Image[x] = Encrypt(0, Past(blobEncodeIv(first(x)), zeroes, x % BlockSectors))
  <2>1. Image[x] = Encrypt(0, Past(blobEncodeIv(first(x)), zeroes, x % BlockSectors))
    BY DEF Image, zeroes, first
  <2>2. blobEncodeIv(first(x)) \in Ivs
    BY <1>2, IvValues
  <2>3. Past(blobEncodeIv(first(x)), zeroes, x % BlockSectors) \in Ivs
    BY <1>1, <1>2, <2>2, PastIs
  <2> QED
    BY <1>1, <2>1, <2>3, IvValues
<1>4. Image \in Files
  BY <1>3 DEF Image, Files
<1>5. ASSUME NEW x \in Sectors
      PROVE  Plain(Image)[x] = 0
  <2>1. Image[x].plain = 0
        /\ Image[x].iv = Past(blobEncodeIv(first(x)), zeroes, x % BlockSectors)
    BY <1>1, <1>3, IvValues
  <2>2. CASE StartsBlock(x)
    <3>1. x % BlockSectors = 0 /\ first(x) = x
      BY <1>1, <2>2 DEF StartsBlock, first
    <3>2. Past(blobEncodeIv(x), zeroes, 0) = blobEncodeIv(x)
      BY <1>1, IvValues, PastIs
    <3> QED
      BY <1>4, <2>1, <2>2, <3>1, <3>2, PlainIs DEF Decrypt, IvIn
  <2>3. CASE ~StartsBlock(x)
    <3> DEFINE n == BlockSectors
               q == x \div n
               k == x % n
    <3>1. q \in Nat /\ k \in 0 .. n - 1 /\ x = n * q + k /\ k # 0
      BY <1>1, <2>3, DivMod DEF StartsBlock
    <3>2. first(x) = x - k
      BY DEF first
    <3>3. first(x - 1) = (x - 1) - ((x - 1) % n)
      BY DEF first
    <3> HIDE DEF q, k
    <3>4. n * q \in Nat
      BY <1>1, <3>1
    <3>5. k \in 1 .. n - 1
      BY <1>1, <3>1
    <3>6. x - 1 = n * q + (k - 1) /\ k - 1 \in 0 .. n - 1 /\ x - 1 \in Sectors
      BY <1>1, <3>1, <3>5, <3>4 DEF Sectors
    <3>7. (x - 1) % n = k - 1
      BY <1>1, <3>1, <3>6, Multiples
    <3>8. first(x) = n * q /\ first(x - 1) = n * q
      <4> DEFINE p == n * q
      <4>1. p \in Nat /\ x = p + k /\ x - 1 = p + (k - 1)
        BY <3>1, <3>6, <3>4
      <4> HIDE DEF p
      <4>2. first(x) = p /\ first(x - 1) = p
        BY <3>5, <3>7, <3>2, <3>3, <4>1, <1>1
      <4> QED
        BY <4>2 DEF p
    <3>9. blobEncodeIv(n * q) \in Ivs
      BY <1>2, <3>8, IvValues
    <3>10. Past(blobEncodeIv(n * q), zeroes, (k - 1) + 1)
             = Encrypt(zeroes[k - 1], Past(blobEncodeIv(n * q), zeroes, k - 1)).tail
      BY <1>1, <3>6, <3>9, PastIs
    <3>11. zeroes[k - 1] = 0 /\ (k - 1) + 1 = k
      BY <1>1, <3>5, <3>6 DEF zeroes
    <3>12. Image[x].iv = Image[x - 1].tail
      BY <1>3, <2>1, <3>6, <3>7, <3>8, <3>10, <3>11 DEF k
    <3> QED
      BY <1>4, <2>1, <2>3, <3>12, PlainIs DEF Decrypt, IvIn
  <2> QED
    BY <2>2, <2>3
<1> QED
  BY <1>4, <1>5

-----------------------------------------------------------------------------
(* The requests. *)

(* The next request, if it is for sector s, works on it. *)
ReadyFor(s) == At(s) = s /\ IvAt(s) = IvIn(cells, s)

LEMMA SeeksToBlocks ==
  ASSUME NEW s, StartsBlock(s)
  PROVE  ReadyFor(s)
BY DEF ReadyFor, At, IvAt, Seeks

LEMMA ReadIs ==
  ASSUME DiscTypeOK, NEW s \in Sectors, NEW n \in Nat, InOneBlock(s, n), ReadyFor(s),
         ReadsOn(s, n)
  PROVE  /\ DiscTypeOK'
         /\ cells' = cells /\ stored' = cells /\ pos' = s + n
         /\ ctx'.sector = s + n /\ ctx'.iv = cells[s + n - 1].tail
<1>1. s + n \in 0 .. Size /\ s + n - 1 \in Sectors
  BY SizeAssumption DEF InOneBlock, Sectors
<1>2. cells[s + n - 1].tail \in Ivs
  BY <1>1 DEF DiscTypeOK, Cells
<1>3. /\ cells' = cells /\ stored' = cells /\ pos' = s + n
      /\ ctx' = [sector |-> s + n, iv |-> cells[s + n - 1].tail]
  BY DEF ReadsOn, ReadyFor
<1> QED
  BY <1>1, <1>2, <1>3 DEF DiscTypeOK

(* A file differs from another in a few sectors, no more than the buffer   *)
(* of the FILE holds, and none of the sectors S is chained to the last.    *)
Behind(other, file, S) ==
  \E a, b \in 0 .. Size :
    /\ a <= b /\ b - a <= BufferSectors
    /\ \A x \in S : x # b \/ StartsBlock(x)
    /\ \A x \in Sectors \ (a .. b - 1) : other[x] = file[x]

LEMMA NothingBehind ==
  ASSUME NEW file, NEW S \in SUBSET Sectors
  PROVE  Behind(file, file, S)
<1>1. 0 \in 0 .. Size /\ StartsBlock(0)
  BY SizeAssumption, BlockSectorsAssumption DEF StartsBlock
<1> QED
  BY <1>1, BufferSectorsAssumption DEF Behind

(* The file without the buffer lacks the end of the run at most. *)
LEMMA WriteIs ==
  ASSUME DiscTypeOK, NEW s \in Sectors, NEW n \in Nat, InOneBlock(s, n), ReadyFor(s),
         NEW new \in [0 .. n - 1 -> Contents],
         WritesOn(s, n, new, IvIn(cells, s))
  PROVE  /\ DiscTypeOK'
         /\ \A x \in s .. s + n - 1 : Plain(cells')[x] = new[x - s]
         /\ \A x \in Sectors \ (s .. s + n - 1) :
              x # s + n \/ StartsBlock(x) => Plain(cells')[x] = Plain(cells)[x]
         /\ pos' = s + n
         /\ ctx'.sector = s + n /\ ctx'.iv = cells'[s + n - 1].tail
         /\ \A x \in s .. s + n - 1 : cells'[x].plain = new[x - s]
         /\ \A x \in Sectors \ (s .. s + n - 1) : cells'[x] = cells[x]
         /\ \A x \in Sectors : stored'[x] \in {cells[x], cells'[x]}
         /\ \A S \in SUBSET Sectors :
              (\A x \in S : x # s + n \/ StartsBlock(x)) => Behind(stored', cells', S)
<1> DEFINE iv == IvIn(cells, s)
           run == Chain(s, new, iv)
<1>1. /\ s \in Nat /\ n >= 1 /\ s + n <= Size /\ Size \in Nat
      /\ \A x \in Sectors : x \in Nat /\ x < Size
      /\ cells \in Files
  BY SizeAssumption DEF InOneBlock, Sectors, DiscTypeOK, Files
<1>2. iv \in Ivs /\ (StartsBlock(s) => iv = blobEncodeIv(s))
  <2>1. CASE StartsBlock(s)
    BY <2>1, IvValues DEF IvIn
  <2>2. CASE ~StartsBlock(s)
    <3>1. s - 1 \in Sectors
      BY <1>1, <2>2, BlockSectorsAssumption DEF StartsBlock, Sectors
    <3> QED
      BY <1>1, <2>2, <3>1 DEF IvIn, Files, Cells
  <2> QED
    BY <2>1, <2>2
<1>3. PICK m \in 0 .. n :
        /\ n - m <= BufferSectors
        /\ cells' = Replaced(cells, s, run, n)
        /\ stored' = Replaced(cells, s, run, m)
        /\ pos' = s + n
        /\ ctx' = [sector |-> s + n, iv |-> run[n - 1].tail]
  BY DEF WritesOn, ReadyFor
<1> HIDE DEF iv
<1>4. Chained(run, n, new, iv)
  BY <1>1, <1>2, ChainIs
<1> HIDE DEF run
<1>5. run \in [0 .. n - 1 -> Cells] /\ n \in 0 .. n
  BY <1>4 DEF Chained
<1>6. /\ cells' \in Files
      /\ \A x \in Sectors : x \in s .. s + n - 1 => cells'[x] = run[x - s]
      /\ \A x \in Sectors : x \notin s .. s + n - 1 => cells'[x] = cells[x]
  BY <1>1, <1>3, <1>5, ReplacedIs
<1>7. /\ stored' \in Files
      /\ \A x \in Sectors : x \in s .. s + m - 1 => stored'[x] = run[x - s]
      /\ \A x \in Sectors : x \notin s .. s + m - 1 => stored'[x] = cells[x]
  BY <1>1, <1>3, <1>5, ReplacedIs
<1>8. s + n - 1 \in Sectors /\ s + n - 1 - s = n - 1 /\ s + n - 1 \in s .. s + n - 1
      /\ n - 1 \in 0 .. n - 1 /\ s + n \in 0 .. Size
  BY <1>1 DEF Sectors
<1>9. run[n - 1].tail \in Ivs /\ cells'[s + n - 1] = run[n - 1]
  <2>1. run[n - 1] \in Cells
    BY <1>5, <1>8
  <2> DEFINE z == s + n - 1
  <2>2. z \in Sectors /\ z \in s .. s + n - 1 /\ z - s = n - 1
    BY <1>1 DEF Sectors
  <2> HIDE DEF z
  <2>3. cells'[z] = run[z - s]
    BY <1>6, <2>2
  <2> QED
    BY <2>1, <2>2, <2>3 DEF Cells, z
<1>10. DiscTypeOK'
  BY <1>3, <1>6, <1>7, <1>8, <1>9 DEF DiscTypeOK, Files
<1>11. \A x \in Sectors \ (s + m .. s + n - 1) : stored'[x] = cells'[x]
  <2> SUFFICES ASSUME NEW x \in Sectors \ (s + m .. s + n - 1)
               PROVE  stored'[x] = cells'[x]
    OBVIOUS
  <2>1. m \in Nat /\ m <= n
    OBVIOUS
  <2>2. x \in s .. s + m - 1 <=> x \in s .. s + n - 1
    BY <1>1, <2>1
  <2> QED
    BY <1>6, <1>7, <2>2
<1>12. \A x \in Sectors : stored'[x] \in {cells[x], cells'[x]}
  <2> SUFFICES ASSUME NEW x \in Sectors
               PROVE  stored'[x] \in {cells[x], cells'[x]}
    OBVIOUS
  <2>1. x \in s .. s + m - 1 => x \in s .. s + n - 1
    BY <1>1
  <2> QED
    BY <1>6, <1>7, <2>1
<1>13. \A x \in s .. s + n - 1 : cells'[x].plain = new[x - s]
  <2> SUFFICES ASSUME NEW x \in s .. s + n - 1
               PROVE  cells'[x].plain = new[x - s]
    OBVIOUS
  <2>1. x \in Sectors /\ x - s \in 0 .. n - 1
    BY <1>1 DEF Sectors
  <2> QED
    BY <1>4, <1>6, <2>1 DEF Chained
<1>14. ASSUME NEW S \in SUBSET Sectors, \A x \in S : x # s + n \/ StartsBlock(x)
       PROVE  Behind(stored', cells', S)
  <2> DEFINE a == s + m
             b == s + n
  <2>1. /\ a \in 0 .. Size /\ b \in 0 .. Size /\ a <= b /\ b - a <= BufferSectors
    BY <1>1, <1>3, BufferSectorsAssumption
  <2>2. \A x \in S : x # b \/ StartsBlock(x)
    BY <1>14
  <2>3. \A x \in Sectors \ (a .. b - 1) : stored'[x] = cells'[x]
    <3>1. a .. b - 1 = s + m .. s + n - 1
      BY <1>1
    <3> QED
      BY <1>11, <3>1
  <2> HIDE DEF a, b
  <2> QED
    BY <2>1, <2>2, <2>3 DEF Behind
<1>15. /\ \A x \in s .. s + n - 1 : Plain(cells')[x] = new[x - s]
       /\ \A x \in Sectors \ (s .. s + n - 1) :
            x # s + n \/ StartsBlock(x) => Plain(cells')[x] = Plain(cells)[x]
  BY <1>1, <1>3, <1>4, <1>5, ReplacedShows DEF iv
<1> QED
  BY <1>3, <1>6, <1>9, <1>10, <1>15, <1>12, <1>13, <1>14

(* Files that differ in the sectors from a to b show different sectors     *)
(* only there, and in the one after them unless it starts a block.         *)
LEMMA DifferenceShows ==
  ASSUME NEW file \in Files, NEW other \in Files, NEW a \in Nat, NEW b \in Nat,
         \A x \in Sectors \ (a .. b - 1) : other[x] = file[x],
         NEW x \in Sectors \ (a .. b - 1), x # b \/ StartsBlock(x)
  PROVE  Plain(other)[x] = Plain(file)[x]
<1>1. CASE StartsBlock(x)
  BY <1>1, PlainAgree
<1>2. CASE ~StartsBlock(x)
  <2>1. x \in Nat /\ x >= 1 /\ x - 1 \in Sectors /\ x - 1 \notin a .. b - 1
    BY <1>2, SizeAssumption, BlockSectorsAssumption DEF StartsBlock, Sectors
  <2> QED
    BY <2>1, PlainAgree
<1> QED
  BY <1>1, <1>2

(* Then no more of the sectors S than that show something else.            *)
LEMMA FewShow ==
  ASSUME NEW file \in Files, NEW other \in Files, NEW S \in SUBSET Sectors,
         Behind(other, file, S)
  PROVE  LET D == {x \in S : Plain(other)[x] # Plain(file)[x]} IN
         IsFiniteSet(D) /\ Cardinality(D) <= BufferSectors
<1> DEFINE D == {x \in S : Plain(other)[x] # Plain(file)[x]}
<1>1. PICK a \in 0 .. Size, b \in 0 .. Size :
        /\ a <= b /\ b - a <= BufferSectors
        /\ \A x \in S : x # b \/ StartsBlock(x)
        /\ \A x \in Sectors \ (a .. b - 1) : other[x] = file[x]
  BY DEF Behind
<1>2. a \in Nat /\ b \in Nat
  BY SizeAssumption
<1>3. D \subseteq a .. b - 1
  <2> SUFFICES ASSUME NEW x \in S, x \notin a .. b - 1
               PROVE  Plain(other)[x] = Plain(file)[x]
    OBVIOUS
  <2>1. x \in Sectors \ (a .. b - 1) /\ (x # b \/ StartsBlock(x))
    BY <1>1
  <2> QED
    BY <1>1, <1>2, <2>1, DifferenceShows
<1> HIDE DEF D
<1>4. IsFiniteSet(a .. b - 1) /\ Cardinality(a .. b - 1) <= b - a
  <2>1. a \in Int /\ b - 1 \in Int
    BY <1>2
  <2>2. /\ IsFiniteSet(a .. b - 1)
        /\ Cardinality(a .. b - 1) = IF a > b - 1 THEN 0 ELSE (b - 1) - a + 1
    BY <2>1, FS_Interval
  <2> QED
    BY <1>1, <1>2, <2>2
<1>5. IsFiniteSet(D) /\ Cardinality(D) <= Cardinality(a .. b - 1)
  BY <1>3, <1>4, FS_Subset
<1>6. Cardinality(D) \in Nat /\ Cardinality(a .. b - 1) \in Nat
  BY <1>4, <1>5, FS_CardinalityType
<1> QED
  BY <1>1, <1>2, <1>4, <1>5, <1>6, BufferSectorsAssumption DEF D

-----------------------------------------------------------------------------
(* The requests of the cache. *)

RequestInv == RequestTypeOK /\ Behind(stored, cells, Sectors)

(* The requests of the cache are in a block, and end where one ends.       *)
LEMMA RequestIs ==
  ASSUME NEW s \in Sectors, NEW n \in 1 .. BlockSectors, Request(s, n)
  PROVE  /\ n \in Nat /\ InOneBlock(s, n)
         /\ s + n = Size \/ StartsBlock(s + n)
         /\ StartsBlock(s) /\ ReadyFor(s) /\ IvsForWrite(s) = {IvIn(cells, s)}
         /\ (s .. s + n - 1) \in Page!Runs
<1>1. /\ s \in Nat /\ s < Size /\ n \in Nat /\ n >= 1 /\ n <= BlockSectors /\ s + n <= Size
      /\ BlockSectors \in Nat /\ Size \in Nat /\ StartsBlock(s)
  BY BlockSectorsAssumption, SizeAssumption DEF Request, Sectors
<1>2. /\ \A k \in 1 .. BlockSectors - 1 : ~StartsBlock(s + k)
      /\ StartsBlock(s + BlockSectors)
  BY <1>1, BlockStarts
<1>3. \A x \in s + 1 .. s + n - 1 : ~StartsBlock(x)
  <2> SUFFICES ASSUME NEW x \in s + 1 .. s + n - 1
               PROVE  ~StartsBlock(x)
    OBVIOUS
  <2>1. x - s \in 1 .. BlockSectors - 1 /\ s + (x - s) = x
    BY <1>1
  <2> QED
    BY <1>2, <2>1
<1>4. s + n = Size \/ StartsBlock(s + n)
  BY <1>2 DEF Request
<1>5. s + n - 1 \in Sectors
  BY <1>1 DEF Sectors
<1>6. (s .. s + n - 1) \in Page!Runs
  BY <1>5 DEF Page!Runs, Page!Sectors, Sectors
<1>7. ReadyFor(s)
  BY <1>1, SeeksToBlocks
<1>8. IvsForWrite(s) = {IvIn(cells, s)}
  BY <1>1, <1>7 DEF IvsForWrite, ReadyFor
<1> QED
  BY <1>1, <1>3, <1>4, <1>6, <1>7, <1>8 DEF InOneBlock

(* What the file shows is an array of sectors. *)
LEMMA Shown ==
  ASSUME DiscTypeOK
  PROVE  /\ cells \in Files /\ stored \in Files
         /\ Plain(cells) \in [Page!Sectors -> Contents]
         /\ Page!Sectors = Sectors
BY PlainIs DEF DiscTypeOK, Files, Page!Sectors, Sectors

LEMMA RequestInitIs ==
  ASSUME RequestInit
  PROVE  RequestInv /\ Page!Init
<1>1. Image \in Files /\ NoIv \in Ivs
  BY ImageIs, IvValues
<1>2. DiscTypeOK
  BY <1>1, SizeAssumption DEF RequestInit, DiscInit, DiscTypeOK, Files
<1>3. RequestTypeOK /\ Behind(stored, cells, Sectors)
  BY <1>2, NothingBehind DEF RequestInit, DiscInit, RequestTypeOK
<1>4. Page!Init
  BY <1>2, Shown DEF RequestInit, Page!Init
<1> QED
  BY <1>3, <1>4 DEF RequestInv

-----------------------------------------------------------------------------
(* The calls, one by one. *)

LEMMA ReadSectorsIs ==
  ASSUME RequestInv, NEW s \in Sectors, NEW n \in 1 .. BlockSectors, Request(s, n),
         ReadSectors(s, n)
  PROVE  RequestInv' /\ Page!Read(s .. s + n - 1)
<1>1. DiscTypeOK /\ cells \in Files
  BY Shown DEF RequestInv, RequestTypeOK
<1>2. InOneBlock(s, n) /\ ReadyFor(s) /\ n \in Nat
  BY RequestIs
<1>3. DiscTypeOK' /\ cells' = cells /\ stored' = cells
  BY <1>1, <1>2, ReadIs DEF ReadSectors
<1>4. Data(s, n) = [x \in s .. s + n - 1 |-> Plain(cells)[x]]
  BY <1>1, <1>2, DataIs DEF ReadyFor
<1>5. reply' = [kind |-> "data", data |-> [x \in s .. s + n - 1 |-> Plain(cells)[x]]]
  BY <1>4 DEF ReadSectors
<1>6. Plain(cells)' = Plain(cells)
  BY <1>3
<1>7. Behind(stored', cells', Sectors)
  BY <1>3, NothingBehind
<1> QED
  BY <1>3, <1>5, <1>6, <1>7 DEF RequestInv, RequestTypeOK, Page!Read

LEMMA ReadFailsIs ==
  ASSUME RequestInv, NEW s \in Sectors, NEW n \in 1 .. BlockSectors, Request(s, n),
         ReadFails(s, n)
  PROVE  RequestInv' /\ Page!ReadFails
<1>1. DiscTypeOK /\ cells \in Files
  BY Shown DEF RequestInv, RequestTypeOK
<1>2. InOneBlock(s, n) /\ ReadyFor(s) /\ StartsBlock(s)
  BY RequestIs
<1>3. pos' \in 0 .. Size
  BY <1>2, SizeAssumption DEF ReadFails, ReadyFor, InOneBlock, Sectors
<1>4. IvAt(s) \in Ivs
  BY <1>2, IvValues DEF ReadyFor, IvIn
<1>5. ctx' \in [sector : 0 .. Size, iv : Ivs]
  BY <1>1, <1>4 DEF ReadFails, DiscTypeOK
<1>6. cells' = cells /\ stored' = cells /\ reply' = [kind |-> "readError"]
  BY DEF ReadFails
<1>7. DiscTypeOK'
  BY <1>1, <1>3, <1>5, <1>6 DEF DiscTypeOK
<1>8. Behind(stored', cells', Sectors)
  BY <1>6, NothingBehind
<1> QED
  BY <1>6, <1>7, <1>8 DEF RequestInv, RequestTypeOK, Page!ReadFails

LEMMA WriteSectorsIs ==
  ASSUME RequestInv, NEW s \in Sectors, NEW n \in 1 .. BlockSectors, Request(s, n),
         NEW new \in [0 .. n - 1 -> Contents], WriteSectors(s, n, new)
  PROVE  RequestInv' /\ Page!Write(s .. s + n - 1)
<1> DEFINE S == s .. s + n - 1
           there == [x \in S |-> new[x - s]]
<1>1. DiscTypeOK /\ cells \in Files /\ Plain(cells) \in [Sectors -> Contents]
  BY Shown DEF RequestInv, RequestTypeOK
<1>2. /\ InOneBlock(s, n) /\ ReadyFor(s) /\ n \in Nat
      /\ s + n = Size \/ StartsBlock(s + n)
      /\ IvsForWrite(s) = {IvIn(cells, s)}
  BY RequestIs
<1>3. /\ WritesOn(s, n, new, IvIn(cells, s))
      /\ reply' = [kind |-> "written", data |-> there]
  BY <1>2 DEF WriteSectors
<1>4. /\ DiscTypeOK'
      /\ \A x \in S : Plain(cells')[x] = new[x - s]
      /\ \A x \in Sectors \ S : x # s + n \/ StartsBlock(x) => Plain(cells')[x] = Plain(cells)[x]
      /\ \A T \in SUBSET Sectors :
           (\A x \in T : x # s + n \/ StartsBlock(x)) => Behind(stored', cells', T)
  BY <1>1, <1>2, <1>3, WriteIs
<1>5. s \in Nat /\ s + n <= Size /\ Size \in Nat /\ \A x \in Sectors : x < Size
  BY <1>2, SizeAssumption DEF InOneBlock, Sectors
<1>6. Behind(stored', cells', Sectors)
  <2>1. \A x \in Sectors : x # s + n \/ StartsBlock(x)
    BY <1>2, <1>5
  <2> QED
    BY <1>4, <2>1
<1>7. cells' \in Files /\ Plain(cells') \in [Sectors -> Contents]
  BY <1>4, PlainIs DEF DiscTypeOK, Files
<1>8. Plain(cells') = [x \in Sectors |-> IF x \in S THEN there[x] ELSE Plain(cells)[x]]
  <2>1. \A x \in Sectors : Plain(cells')[x] = IF x \in S THEN there[x] ELSE Plain(cells)[x]
    <3> SUFFICES ASSUME NEW x \in Sectors
                 PROVE  Plain(cells')[x] = IF x \in S THEN there[x] ELSE Plain(cells)[x]
      OBVIOUS
    <3>1. CASE x \in S
      BY <1>4, <3>1
    <3>2. CASE x \notin S
      <4>1. x # s + n \/ StartsBlock(x)
        BY <1>2, <1>5
      <4> QED
        BY <1>4, <3>2, <4>1
    <3> QED
      BY <3>1, <3>2
  <2> QED
    BY <1>7, <2>1
<1>9. there \in [S -> Contents]
  <2>1. \A x \in S : x - s \in 0 .. n - 1
    BY <1>2, <1>5
  <2> QED
    BY <2>1
<1>10. Page!Write(S)
  BY <1>3, <1>8, <1>9, Shown, <1>1 DEF Page!Write
<1> QED
  BY <1>3, <1>4, <1>6, <1>10 DEF RequestInv, RequestTypeOK

LEMMA ExtendFailsIs ==
  ASSUME RequestInv, NEW s \in Sectors, NEW n \in 1 .. BlockSectors, Request(s, n),
         NEW new \in [0 .. n - 1 -> Contents], ExtendFails(s, n, new)
  PROVE  RequestInv' /\ Page!WriteFails(s .. s + n - 1)
<1> DEFINE S == s .. s + n - 1
           there == [x \in S |-> new[x - s]]
<1>1. DiscTypeOK /\ Plain(cells) \in [Page!Sectors -> Contents]
  BY Shown DEF RequestInv, RequestTypeOK
<1>2. /\ reply' = [kind |-> "writeError", data |-> there]
      /\ cells' = cells /\ stored' = stored /\ pos' = pos /\ ctx' = ctx
  BY DEF ExtendFails, discVars
<1>3. there \in [S -> Contents] /\ s \in S
  BY DEF Sectors
<1>4. Plain(cells') = Plain(cells)
  BY <1>2
<1>5. Page!WriteFails(S)
  BY <1>1, <1>2, <1>3, <1>4 DEF Page!WriteFails
<1> QED
  BY <1>2, <1>5 DEF RequestInv, RequestTypeOK, DiscTypeOK

(* What was spoilt is one sector, whatever was in it.                      *)
LEMMA WriteFailsIs ==
  ASSUME RequestInv, NEW s \in Sectors, NEW n \in 1 .. BlockSectors, Request(s, n),
         NEW new \in [0 .. n - 1 -> Contents], WriteFails(s, n, new)
  PROVE  RequestInv' /\ Page!WriteFails(s .. s + n - 1)
<1> DEFINE S == s .. s + n - 1
           there == [x \in S |-> new[x - s]]
           run == Chain(s, new, IvIn(cells, s))
<1>1. DiscTypeOK /\ cells \in Files /\ Plain(cells) \in [Sectors -> Contents]
  BY Shown DEF RequestInv, RequestTypeOK
<1>2. /\ InOneBlock(s, n) /\ ReadyFor(s) /\ n \in Nat /\ n >= 1
      /\ s + n = Size \/ StartsBlock(s + n)
      /\ IvsForWrite(s) = {IvIn(cells, s)} /\ StartsBlock(s)
  BY RequestIs
<1>3. PICK m \in 0 .. n - 1, part \in BOOLEAN :
        /\ s + m < Size
        /\ cells' = IF part THEN [Replaced(cells, s, run, m) EXCEPT ![s + m].plain = Garbled]
                    ELSE Replaced(cells, s, run, m)
        /\ stored' = cells'
        /\ pos' = s + m
        /\ ctx' = [ctx EXCEPT !.iv = run[m].tail]
        /\ reply' = [kind |-> "writeError", data |-> there]
  BY <1>2 DEF WriteFails, ReadyFor
<1>4. /\ s \in Nat /\ s + n <= Size /\ Size \in Nat /\ \A x \in Sectors : x < Size /\ x \in Nat
      /\ m \in Nat /\ m < n /\ m \in 0 .. n /\ s + m \in Sectors /\ s + m \in S
  BY <1>2, SizeAssumption DEF InOneBlock, Sectors
<1>5. IvIn(cells, s) \in Ivs /\ (StartsBlock(s) => IvIn(cells, s) = blobEncodeIv(s))
  BY <1>2, IvValues DEF IvIn
<1> HIDE DEF run
<1>6. Chained(run, n, new, IvIn(cells, s))
  BY <1>2, <1>5, ChainIs DEF run
<1>7. run \in [0 .. n - 1 -> Cells]
  BY <1>6 DEF Chained
<1> DEFINE written == Replaced(cells, s, run, m)
<1>8. /\ written \in Files
      /\ \A x \in Sectors : x \notin s .. s + m - 1 => written[x] = cells[x]
  BY <1>1, <1>2, <1>4, <1>7, ReplacedIs
<1>9. /\ \A x \in s .. s + m - 1 : Plain(written)[x] = new[x - s]
      /\ \A x \in Sectors \ (s .. s + m - 1) :
           x # s + m \/ StartsBlock(x) => Plain(written)[x] = Plain(cells)[x]
  BY <1>1, <1>2, <1>4, <1>6, ReplacedShows
<1> HIDE DEF written
<1>10. cells' = IF part THEN [written EXCEPT ![s + m].plain = Garbled] ELSE written
  BY <1>3 DEF written
<1>11. /\ cells' \in Files
       /\ \A x \in Sectors : cells'[x].tail = written[x].tail
       /\ \A x \in Sectors : x # s + m => cells'[x] = written[x]
  <2>1. Garbled \in Contents
    BY DEF Contents
  <2>2. written[s + m] \in Cells
    BY <1>4, <1>8 DEF Files
  <2>3. [written[s + m] EXCEPT !.plain = Garbled]
          = [plain |-> Garbled, iv |-> written[s + m].iv, tail |-> written[s + m].tail]
    BY <2>2 DEF Cells
  <2>4. [written[s + m] EXCEPT !.plain = Garbled] \in Cells
    BY <2>1, <2>2, <2>3 DEF Cells
  <2>5. CASE part
    <3>1. cells' = [written EXCEPT ![s + m] = [written[s + m] EXCEPT !.plain = Garbled]]
      BY <1>10, <2>5
    <3> QED
      BY <1>4, <1>8, <2>3, <2>4, <3>1 DEF Files
  <2>6. CASE ~part
    BY <1>8, <1>10, <2>6
  <2> QED
    BY <2>5, <2>6
<1>12. \A x \in Sectors : x # s + m => Plain(cells')[x] = Plain(written)[x]
  <2> SUFFICES ASSUME NEW x \in Sectors, x # s + m
               PROVE  Plain(cells')[x] = Plain(written)[x]
    OBVIOUS
  <2>1. CASE StartsBlock(x)
    BY <1>8, <1>11, <2>1, PlainAgree
  <2>2. CASE ~StartsBlock(x)
    <3>1. x >= 1 /\ x - 1 \in Sectors
      BY <1>4, <2>2, BlockSectorsAssumption DEF StartsBlock, Sectors
    <3> QED
      BY <1>8, <1>11, <3>1, PlainAgree
  <2> QED
    BY <2>1, <2>2
<1>13. \A x \in S \ {s + m} : Plain(cells')[x] \in {Plain(cells)[x], there[x]}
  <2> SUFFICES ASSUME NEW x \in S, x # s + m
               PROVE  Plain(written)[x] \in {Plain(cells)[x], new[x - s]}
    BY <1>4, <1>12 DEF Sectors
  <2> QED
    BY <1>4, <1>9 DEF Sectors
<1>14. \A x \in Sectors \ S : Plain(cells')[x] = Plain(cells)[x]
  <2> SUFFICES ASSUME NEW x \in Sectors \ S
               PROVE  Plain(cells')[x] = Plain(cells)[x]
    OBVIOUS
  <2>1. x # s + m /\ x \notin s .. s + m - 1
    BY <1>4
  <2> QED
    BY <1>9, <1>12, <2>1
<1>15. Plain(cells') \in [Sectors -> Contents] /\ there \in [S -> Contents]
  <2>1. \A x \in S : x - s \in 0 .. n - 1
    BY <1>4
  <2> QED
    BY <1>11, <2>1, PlainIs
<1>16. Page!WriteFails(S)
  <2>1. /\ reply' = [kind |-> "writeError", data |-> there]
        /\ s + m \in S
        /\ Page!Sectors = Sectors
    BY <1>1, <1>3, <1>4, Shown
  <2> HIDE DEF S, there
  <2> QED
    BY <1>13, <1>14, <1>15, <2>1 DEF Page!WriteFails
<1>17. DiscTypeOK'
  <2>1. run[m] \in Cells
    BY <1>4, <1>7
  <2>2. ctx' \in [sector : 0 .. Size, iv : Ivs]
    BY <1>1, <1>3, <2>1 DEF DiscTypeOK, Cells
  <2>3. pos' \in 0 .. Size
    BY <1>3, <1>4
  <2> QED
    BY <1>3, <1>11, <2>2, <2>3 DEF DiscTypeOK, Files
<1>18. Behind(stored', cells', Sectors)
  BY <1>3, NothingBehind
<1> QED
  BY <1>3, <1>16, <1>17, <1>18 DEF RequestInv, RequestTypeOK

(* The next program finds all but what was in the buffer. *)
LEMMA RestartIs ==
  ASSUME RequestInv, Reopen \/ KillProgram
  PROVE  RequestInv' /\ Page!Restart
<1>1. DiscTypeOK /\ cells \in Files /\ stored \in Files
  BY Shown DEF RequestInv, RequestTypeOK
<1>2. PICK file \in {cells, stored} : Reopened(file) /\ reply' = [kind |-> "none"]
  BY DEF Reopen, KillProgram
<1>3. cells' = file /\ stored' = file /\ pos' = 0 /\ ctx' = [sector |-> 0, iv |-> NoIv]
  BY <1>2 DEF Reopened
<1>4. DiscTypeOK'
  BY <1>1, <1>3, SizeAssumption, IvValues DEF DiscTypeOK, Files
<1>5. Behind(stored', cells', Sectors)
  BY <1>3, NothingBehind
<1>6. Behind(file, cells, Sectors)
  BY NothingBehind DEF RequestInv
<1>7. Cardinality({x \in Sectors : Plain(file)[x] # Plain(cells)[x]}) <= BufferSectors
  <2>1. file \in Files
    BY <1>1
  <2> QED
    BY <1>1, <1>6, <2>1, FewShow
<1>8. Plain(file) \in [Sectors -> Contents] /\ Page!Sectors = Sectors
  BY <1>1, PlainIs, Shown
<1>9. Page!Restart
  <2> DEFINE D == {x \in Sectors : Plain(file)[x] # Plain(cells)[x]}
  <2>1. Page!Cardinality(D) = Cardinality(D)
    BY DEF Page!Cardinality, Cardinality, Page!IsFiniteSet, IsFiniteSet
  <2> QED
    BY <1>2, <1>3, <1>7, <1>8, <2>1 DEF Page!Restart
<1> QED
  BY <1>2, <1>4, <1>5, <1>9 DEF RequestInv, RequestTypeOK

-----------------------------------------------------------------------------
(* The theorems. *)

LEMMA RequestNextIs ==
  ASSUME RequestInv, [RequestNext]_requestVars
  PROVE  RequestInv' /\ [Page!Next]_(Page!vars)
<1>1. CASE UNCHANGED requestVars
  BY <1>1 DEF requestVars, RequestInv, RequestTypeOK, DiscTypeOK, Page!vars
<1>2. ASSUME NEW s \in Sectors, NEW n \in 1 .. BlockSectors, Request(s, n),
             ReadSectors(s, n)
      PROVE  RequestInv' /\ Page!Next
  BY <1>2, ReadSectorsIs, RequestIs DEF Page!Next
<1>3. ASSUME NEW s \in Sectors, NEW n \in 1 .. BlockSectors, Request(s, n),
             ReadFails(s, n)
      PROVE  RequestInv' /\ Page!Next
  BY <1>3, ReadFailsIs DEF Page!Next
<1>4. ASSUME NEW s \in Sectors, NEW n \in 1 .. BlockSectors, Request(s, n),
             NEW new \in [0 .. n - 1 -> Contents],
             WriteSectors(s, n, new) \/ ExtendFails(s, n, new) \/ WriteFails(s, n, new)
      PROVE  RequestInv' /\ Page!Next
  BY <1>4, WriteSectorsIs, ExtendFailsIs, WriteFailsIs, RequestIs DEF Page!Next
<1>5. CASE Reopen \/ KillProgram
  BY <1>5, RestartIs DEF Page!Next
<1> QED
  BY <1>1, <1>2, <1>3, <1>4, <1>5 DEF RequestNext

(* The position in the file stays within it, the sectors on the disc are   *)
(* encrypted with vectors that they can have been, and the file without    *)
(* the buffer differs from it in a few sectors only, the last of a block:  *)
(* through every request, fault, reopening and kill.                       *)
THEOREM DiscInvariance == RequestSpec => []RequestInv
<1>1. RequestInit => RequestInv
  BY RequestInitIs
<1>2. RequestInv /\ [RequestNext]_requestVars => RequestInv'
  BY RequestNextIs
<1> QED
  BY <1>1, <1>2, PTL DEF RequestSpec

(* The disc keeps within the file. *)
THEOREM DiscTypes == RequestSpec => []RequestTypeOK
<1>1. RequestInv => RequestTypeOK
  BY DEF RequestInv
<1> QED
  BY <1>1, DiscInvariance, PTL

(* The encrypted disc implements the array of sectors that the cache takes *)
(* it for: every call of disc.c is one of PageDisc, in particular a write  *)
(* that fails spoils one sector only, and a killed program loses no more   *)
(* sectors than a FILE's buffer holds.                                     *)
THEOREM DiscIsAnArray == RequestSpec => PageSpec
<1>1. RequestInit => Page!Init
  BY RequestInitIs
<1>2. RequestInv /\ [RequestNext]_requestVars => [Page!Next]_(Page!vars)
  BY RequestNextIs
<1> QED
  BY <1>1, <1>2, DiscInvariance, PTL DEF RequestSpec, PageSpec, Page!Spec

-----------------------------------------------------------------------------
(* The mounted volume: the inductive invariant. *)

(* The context is ready for the sector that disc.c believes it is.  The    *)
(* disc does not fail here.                                                *)
InStep ==
  /\ pos = ctx.sector
  /\ (ctx.sector < Size /\ ~StartsBlock(ctx.sector)) => ctx.iv = cells[ctx.sector - 1].tail

(* No sector is in two pages, and a page that is to be written is one.     *)
OnePageEach == \A i, j \in Pages : i # j => Held(i) \cap Held(j) = {}
DirtyIsHeld == \A i \in Pages : page[i].dirty => Held(i) # {}

(* A page holds what was promised, and if it is clean what the disc does.  *)
PagesAreGood ==
  \A i \in Pages : \A x \in Held(i) \cap Others :
    /\ page[i].data[x] \in promised[x]
    /\ ~page[i].dirty => page[i].data[x] = Plain(cells)[x]

(* The pages that a flush has gone over are clean, unless unmounting has   *)
(* given it up.                                                            *)
FlushedSoFar ==
  call.op \in {"flush", "unmount"} =>
    \/ \A j \in Pages : j < call.i => ~page[j].dirty
    \/ call = [op |-> "unmount", i |-> NumPages] /\ LastPageDirty

(* What shows a number of free clusters can be put in the FSInfo sector.   *)
Counting(v) == v = Garbled \/ InfoSector(v) \in Values

DiscInv ==
  /\ DiscTypeOK /\ InStep /\ Behind(stored, cells, Others)
  /\ Counting(cells[Table].plain) /\ Counting(stored[Table].plain)
CacheInv ==
  /\ page \in [Pages -> [data : PageData, dirty : BOOLEAN]]
  /\ promised \in [Sectors -> SUBSET Contents]
  /\ OnePageEach /\ DirtyIsHeld /\ PagesAreGood /\ FlushedIsKept
  /\ \A v \in promised[Table] : Counting(v)
UseInv ==
  /\ lastUse \in [Pages -> 0 .. NumPages]
  /\ \A i, j \in Pages : (i # j /\ lastUse[i] = lastUse[j]) => lastUse[i] = 0
CallInv ==
  /\ call \in Calls /\ FlushedSoFar
  /\ free \in Nat /\ InfoSector(free) \in Values

IInv == DiscInv /\ CacheInv /\ UseInv /\ CallInv

-----------------------------------------------------------------------------
(* Pages are whole blocks. *)

LEMMA BaseIs ==
  ASSUME NEW s \in Nat
  PROVE  /\ Base(s) = s - (s % BlockSectors) /\ s % BlockSectors \in 0 .. BlockSectors - 1
         /\ Base(s) \in Nat /\ StartsBlock(Base(s))
         /\ \A k \in 0 .. BlockSectors - 1 : Base(Base(s) + k) = Base(s)
<1> DEFINE n == BlockSectors
           q == s \div n
<1>1. /\ n \in Nat /\ n >= 1 /\ q \in Nat /\ s % n \in 0 .. n - 1
      /\ s = n * q + (s % n)
  BY BlockSectorsAssumption, DivMod
<1>2. Base(s) = n * q
  <2>1. q * n = n * q
    BY <1>1
  <2> QED
    BY <2>1 DEF Base
<1>3. n * q \in Nat
  BY <1>1
<1> HIDE DEF q
<1>4. Base(s) = s - (s % n)
  BY <1>1, <1>2, <1>3
<1>5. \A k \in 0 .. n - 1 : (n * q + k) % n = k
  BY <1>1, Multiples
<1>6. StartsBlock(Base(s))
  <2>1. (n * q + 0) % n = 0
    BY <1>1, <1>5
  <2> QED
    BY <1>2, <1>3, <2>1 DEF StartsBlock
<1>7. ASSUME NEW k \in 0 .. n - 1
      PROVE  Base(n * q + k) = n * q
  <2> DEFINE a == n * q + k
             r == a \div n
  <2>1. a \in Nat
    BY <1>1, <1>3
  <2>2. a % n = k
    BY <1>5
  <2>3. a = n * q + k
    OBVIOUS
  <2> HIDE DEF a
  <2>4. r \in Nat /\ a = n * r + (a % n)
    BY <1>1, <2>1, DivMod
  <2>5. r * n = n * r
    BY <1>1, <2>4
  <2>6. Base(a) = n * r
    BY <2>5 DEF Base
  <2>7. n * r \in Nat
    BY <1>1, <2>4
  <2> HIDE DEF r
  <2>8. n * r = n * q
    BY <1>1, <1>3, <2>4, <2>2, <2>7, <2>3
  <2> QED
    BY <2>6, <2>8, <2>3
<1> QED
  BY <1>1, <1>2, <1>3, <1>4, <1>6, <1>7

WholeBlocks == {PageSectors(s) : s \in Sectors}

LEMMA WholeBlockIs ==
  ASSUME NEW S \in WholeBlocks
  PROVE  /\ FirstOf(S) \in Sectors /\ Cardinality(S) \in Nat
         /\ S = FirstOf(S) .. FirstOf(S) + Cardinality(S) - 1
         /\ InOneBlock(FirstOf(S), Cardinality(S))
         /\ StartsBlock(FirstOf(S)) /\ ReadyFor(FirstOf(S))
         /\ \A x \in Sectors : x # FirstOf(S) + Cardinality(S) \/ StartsBlock(x)
         /\ S \subseteq Sectors /\ \A x \in S : S = PageSectors(x)
<1>1. PICK s \in Sectors : S = PageSectors(s)
  BY DEF WholeBlocks
<1> DEFINE f == Base(s)
           n == IF f + BlockSectors <= Size THEN BlockSectors ELSE Size - f
<1>2. /\ BlockSectors \in Nat /\ BlockSectors >= 1 /\ Size \in Nat
      /\ \A x \in Sectors : x \in Nat /\ x < Size
  BY BlockSectorsAssumption, SizeAssumption DEF Sectors
<1>3. /\ f \in Nat /\ f <= s /\ s <= f + BlockSectors - 1 /\ StartsBlock(f)
      /\ \A k \in 0 .. BlockSectors - 1 : Base(f + k) = f
  <2>1. /\ s \in Nat /\ f = s - (s % BlockSectors)
        /\ s % BlockSectors \in 0 .. BlockSectors - 1
        /\ f \in Nat /\ StartsBlock(f)
        /\ \A k \in 0 .. BlockSectors - 1 : Base(f + k) = f
    BY <1>2, BaseIs
  <2> QED
    BY <1>2, <2>1
<1>4. \A x \in Sectors : Base(x) = f <=> x \in f .. f + BlockSectors - 1
  <2> SUFFICES ASSUME NEW x \in Sectors
               PROVE  Base(x) = f <=> x \in f .. f + BlockSectors - 1
    OBVIOUS
  <2>1. x \in Nat /\ Base(x) = x - (x % BlockSectors) /\ x % BlockSectors \in 0 .. BlockSectors - 1
    BY <1>2, BaseIs
  <2>2. Base(x) = f => x \in f .. f + BlockSectors - 1
    BY <1>2, <1>3, <2>1
  <2>3. x \in f .. f + BlockSectors - 1 => Base(x) = f
    <3> SUFFICES ASSUME x \in f .. f + BlockSectors - 1
                 PROVE  Base(x) = f
      OBVIOUS
    <3>1. x - f \in 0 .. BlockSectors - 1 /\ f + (x - f) = x
      BY <1>2, <1>3, <2>1
    <3> QED
      BY <1>3, <3>1
  <2> QED
    BY <2>2, <2>3
<1>5. n \in Nat /\ n >= 1 /\ n <= BlockSectors /\ f + n <= Size /\ f \in Sectors
      /\ (f + n = Size \/ n = BlockSectors)
  BY <1>2, <1>3 DEF Sectors
<1>6. PageSectors(s) = {x \in Sectors : x \in f .. f + BlockSectors - 1}
  BY <1>4 DEF PageSectors
<1>7. {x \in Sectors : x \in f .. f + BlockSectors - 1} = f .. f + n - 1
  BY <1>2, <1>3, <1>5 DEF Sectors
<1>8. S = f .. f + n - 1
  BY <1>1, <1>6, <1>7
<1> HIDE DEF f, n
<1>9. FirstOf(S) = f
  <2>1. f \in S /\ \A x \in S : f <= x
    BY <1>3, <1>5, <1>8
  <2>2. FirstOf(S) \in S /\ \A x \in S : FirstOf(S) <= x
    BY <2>1 DEF FirstOf
  <2>3. f <= FirstOf(S) /\ FirstOf(S) <= f /\ FirstOf(S) \in Nat
    BY <1>3, <1>8, <2>1, <2>2
  <2> QED
    BY <1>3, <2>3
<1>10. Cardinality(S) = n
  <2>1. f \in Int /\ f + n - 1 \in Int
    BY <1>3, <1>5
  <2>2. Cardinality(f .. f + n - 1) = IF f > f + n - 1 THEN 0 ELSE (f + n - 1) - f + 1
    BY <2>1, FS_Interval
  <2> QED
    BY <1>3, <1>5, <1>8, <2>2
<1>11. /\ \A k \in 1 .. BlockSectors - 1 : ~StartsBlock(f + k)
       /\ StartsBlock(f + BlockSectors)
  BY <1>3, BlockStarts
<1>12. InOneBlock(f, n)
  <2>1. ASSUME NEW x \in f + 1 .. f + n - 1
        PROVE  ~StartsBlock(x)
    <3>1. x - f \in 1 .. BlockSectors - 1 /\ f + (x - f) = x
      BY <1>2, <1>3, <1>5
    <3> QED
      BY <1>11, <3>1
  <2> QED
    BY <1>5, <2>1 DEF InOneBlock
<1>13. \A x \in Sectors : x # f + n \/ StartsBlock(x)
  <2>1. f + n = Size \/ StartsBlock(f + n)
    BY <1>5, <1>11
  <2> QED
    BY <1>2, <2>1
<1>14. S \subseteq Sectors /\ \A x \in S : S = PageSectors(x)
  BY <1>1 DEF PageSectors
<1> QED
  BY <1>3, <1>5, <1>8, <1>9, <1>10, <1>12, <1>13, <1>14, SeeksToBlocks

-----------------------------------------------------------------------------
(* The requests of a mounted volume. *)

(* The constants say where the sectors are. *)
LEMMA Places ==
  /\ Size \in Nat /\ NumPages \in Nat /\ NumPages >= 2
  /\ FsInfo \in Sectors /\ FsInfo \in Nat /\ FsInfo + 1 \in Sectors
  /\ Table \in Others /\ Table \in Sectors /\ Others \subseteq Sectors
  /\ \A x \in Others : x # FsInfo /\ x # FsInfo + 1
  /\ \A w \in Writes : w[1] \in Others /\ w[2] \in Values
  /\ \A w \in Writes : w[1] = Table => Counting(w[2])
  /\ Used \subseteq Others
<1>1. /\ Size \in Nat /\ NumPages \in Nat /\ NumPages >= 2
      /\ FsInfo \in Sectors /\ FsInfo \in Nat /\ FsInfo + 1 \in Sectors
  BY SizeAssumption, NumPagesAssumption, FsInfoAssumption DEF Sectors
<1>2. /\ Table \in Others /\ Table \in Sectors /\ Others \subseteq Sectors
      /\ \A x \in Others : x # FsInfo /\ x # FsInfo + 1
  BY <1>1, TableAssumption DEF Sectors, Others
<1>3. \A w \in Writes : /\ w[1] \in Others /\ w[2] \in Values
                        /\ w[1] = Table => Counting(w[2])
  BY <1>1, WritesAssumption DEF Sectors, Others, Counting, InfoSector
<1> QED
  BY <1>1, <1>2, <1>3 DEF Used

LEMMA DiscReads ==
  ASSUME DiscInv, NEW s \in Sectors, NEW n \in Nat, InOneBlock(s, n), ReadyFor(s),
         ReadsOn(s, n)
  PROVE  /\ DiscInv' /\ cells' = cells
         /\ Data(s, n) = [x \in s .. s + n - 1 |-> Plain(cells)[x]]
<1>1. DiscTypeOK /\ cells \in Files /\ Counting(cells[Table].plain)
  BY DEF DiscInv, DiscTypeOK, Files
<1>2. /\ DiscTypeOK'
      /\ cells' = cells /\ stored' = cells /\ pos' = s + n
      /\ ctx'.sector = s + n /\ ctx'.iv = cells[s + n - 1].tail
  BY <1>1, ReadIs
<1>3. InStep'
  <2>1. s \in Nat /\ s + n \in Nat
    BY Places DEF Sectors
  <2> DEFINE z == s + n
  <2>2. pos' = z /\ ctx'.sector = z /\ ctx'.iv = cells'[z - 1].tail
    BY <1>2, <2>1
  <2> HIDE DEF z
  <2> QED
    BY <2>2 DEF InStep
<1>4. Behind(stored', cells', Others)
  BY <1>2, NothingBehind, Places
<1>5. Data(s, n) = [x \in s .. s + n - 1 |-> Plain(cells)[x]]
  BY <1>1, DataIs DEF ReadyFor
<1>6. Counting(cells'[Table].plain) /\ Counting(stored'[Table].plain)
  BY <1>1, <1>2
<1> QED
  BY <1>2, <1>3, <1>4, <1>5, <1>6 DEF DiscInv

(* A write that spoils at most a sector that does not matter. *)
LEMMA DiscWrites ==
  ASSUME DiscInv, NEW s \in Sectors, NEW n \in Nat, InOneBlock(s, n), ReadyFor(s),
         NEW new \in [0 .. n - 1 -> Contents],
         WritesOn(s, n, new, IvAt(s)),
         \A x \in Others : x # s + n \/ StartsBlock(x),
         Table \in s .. s + n - 1 => Counting(new[Table - s])
  PROVE  /\ DiscInv'
         /\ \A x \in s .. s + n - 1 : Plain(cells')[x] = new[x - s]
         /\ \A x \in Others \ (s .. s + n - 1) : Plain(cells')[x] = Plain(cells)[x]
<1>1. /\ DiscTypeOK /\ cells \in Files
      /\ Counting(cells[Table].plain) /\ Counting(stored[Table].plain)
  BY DEF DiscInv, DiscTypeOK, Files
<1>2. WritesOn(s, n, new, IvIn(cells, s))
  BY DEF ReadyFor
<1>3. /\ DiscTypeOK'
      /\ \A x \in s .. s + n - 1 : Plain(cells')[x] = new[x - s]
      /\ \A x \in Sectors \ (s .. s + n - 1) :
           x # s + n \/ StartsBlock(x) => Plain(cells')[x] = Plain(cells)[x]
      /\ pos' = s + n
      /\ ctx'.sector = s + n /\ ctx'.iv = cells'[s + n - 1].tail
      /\ \A x \in s .. s + n - 1 : cells'[x].plain = new[x - s]
      /\ \A x \in Sectors \ (s .. s + n - 1) : cells'[x] = cells[x]
      /\ \A x \in Sectors : stored'[x] \in {cells[x], cells'[x]}
      /\ \A S \in SUBSET Sectors :
           (\A x \in S : x # s + n \/ StartsBlock(x)) => Behind(stored', cells', S)
  BY <1>1, <1>2, WriteIs
<1>4. InStep'
  <2>1. s \in Nat /\ s + n \in Nat
    BY Places DEF Sectors
  <2> DEFINE z == s + n
  <2>2. pos' = z /\ ctx'.sector = z /\ ctx'.iv = cells'[z - 1].tail
    BY <1>3, <2>1
  <2> HIDE DEF z
  <2> QED
    BY <2>2 DEF InStep
<1>5. Behind(stored', cells', Others)
  BY <1>3, Places
<1>6. Counting(cells'[Table].plain)
  BY <1>1, <1>3, Places
<1>7. Counting(stored'[Table].plain)
  BY <1>1, <1>3, <1>6, Places
<1> QED
  BY <1>3, <1>4, <1>5, <1>6, <1>7, Places DEF DiscInv

(* The FSInfo sector, in the middle of a block. *)
LEMMA InfoIs ==
  ASSUME DiscInv
  PROVE  /\ InOneBlock(FsInfo, 1) /\ ReadyFor(FsInfo) /\ 1 \in Nat
         /\ \A x \in Others : x # FsInfo + 1
         /\ Table \notin FsInfo .. FsInfo + 1 - 1
<1>1. InOneBlock(FsInfo, 1)
  BY Places DEF InOneBlock, Sectors
<1>2. ReadyFor(FsInfo)
  <2>1. CASE StartsBlock(FsInfo)
    BY <2>1, SeeksToBlocks
  <2>2. CASE FsInfo # ctx.sector
    BY <2>2 DEF ReadyFor, Seeks, At, IvAt
  <2>3. CASE ~StartsBlock(FsInfo) /\ FsInfo = ctx.sector
    <3>1. FsInfo < Size
      BY Places DEF Sectors
    <3>2. pos = FsInfo /\ ctx.iv = cells[FsInfo - 1].tail
      BY <2>3, <3>1 DEF DiscInv, InStep
    <3> QED
      BY <2>3, <3>2 DEF ReadyFor, Seeks, At, IvAt, IvIn
  <2> QED
    BY <2>1, <2>2, <2>3
<1> QED
  BY <1>1, <1>2, Places

LEMMA InfoReads ==
  ASSUME DiscInv, ReadsOn(FsInfo, 1)
  PROVE  DiscInv' /\ cells' = cells /\ InfoRead \in Contents
<1>1. /\ DiscInv' /\ cells' = cells
      /\ Data(FsInfo, 1) = [x \in FsInfo .. FsInfo + 1 - 1 |-> Plain(cells)[x]]
  BY InfoIs, DiscReads, Places
<1>2. InfoRead = Plain(cells)[FsInfo]
  BY <1>1, Places DEF InfoRead
<1>3. Plain(cells)[FsInfo] \in Contents
  BY Places, PlainIs DEF DiscInv, DiscTypeOK, Files
<1> QED
  BY <1>1, <1>2, <1>3

LEMMA InfoWrites ==
  ASSUME DiscInv, InfoSector(free) \in Values, WriteInfo
  PROVE  DiscInv' /\ \A x \in Others : Plain(cells')[x] = Plain(cells)[x]
<1> DEFINE new == [k \in {0} |-> InfoSector(free)]
<1>1. new \in [0 .. 1 - 1 -> Contents]
  BY DEF Contents
<1>2. WritesOn(FsInfo, 1, new, IvAt(FsInfo))
  BY DEF WriteInfo
<1> HIDE DEF new
<1>3. /\ DiscInv'
      /\ \A x \in Others \ (FsInfo .. FsInfo + 1 - 1) : Plain(cells')[x] = Plain(cells)[x]
  BY <1>1, <1>2, InfoIs, DiscWrites, Places
<1>4. \A x \in Others : x \notin FsInfo .. FsInfo + 1 - 1
  BY Places
<1> QED
  BY <1>3, <1>4

(* The file is closed or lost. *)
LEMMA DiscReopens ==
  ASSUME DiscInv, NEW file \in {cells, stored}, Reopened(file)
  PROVE  DiscInv' /\ cells' = file
<1>1. cells' = file /\ stored' = file /\ pos' = 0 /\ ctx' = [sector |-> 0, iv |-> NoIv]
  BY DEF Reopened
<1>2. DiscTypeOK'
  BY <1>1, IvValues, Places DEF DiscInv, DiscTypeOK
<1>3. InStep'
  BY <1>1, BlockSectorsAssumption DEF InStep, StartsBlock
<1>4. Behind(stored', cells', Others)
  BY <1>1, NothingBehind, Places
<1> QED
  BY <1>1, <1>2, <1>3, <1>4 DEF DiscInv

-----------------------------------------------------------------------------
(* The cache. *)

LEMMA PageIs ==
  ASSUME CacheInv, NEW i \in Pages
  PROVE  /\ page[i] = [data |-> page[i].data, dirty |-> page[i].dirty]
         /\ page[i].dirty \in BOOLEAN
         /\ Held(i) = {} \/ Held(i) \in WholeBlocks
         /\ page[i].data \in [Held(i) -> Contents]
         /\ Held(i) \subseteq Sectors
<1>1. page[i] \in [data : PageData, dirty : BOOLEAN]
  BY DEF CacheInv
<1>2. /\ page[i] = [data |-> page[i].data, dirty |-> page[i].dirty]
      /\ page[i].data \in PageData /\ page[i].dirty \in BOOLEAN
  BY <1>1
<1>3. PICK S \in {{}} \cup WholeBlocks : page[i].data \in [S -> Contents]
  BY <1>2 DEF PageData, WholeBlocks
<1>4. Held(i) = S
  BY <1>3 DEF Held
<1>5. S \subseteq Sectors
  BY DEF WholeBlocks, PageSectors
<1> QED
  BY <1>2, <1>3, <1>4, <1>5

LEMMA PageDataIs ==
  ASSUME NEW S \in {{}} \cup WholeBlocks, NEW f \in [S -> Contents]
  PROVE  f \in PageData
BY DEF PageData, WholeBlocks

(* A page that holds a sector holds what is in its block.                  *)
LEMMA HolderIs ==
  ASSUME CacheInv, NEW x \in Sectors, NEW i \in Holders(x)
  PROVE  /\ i \in Pages /\ x \in Held(i) /\ Held(i) = PageSectors(x)
         /\ Holders(x) = {i} /\ FirstOf(Holders(x)) = i
<1>1. i \in Pages /\ x \in Held(i)
  BY DEF Holders
<1>2. Held(i) \in WholeBlocks
  BY <1>1, PageIs
<1>3. Held(i) = PageSectors(x)
  BY <1>1, <1>2, WholeBlockIs
<1>4. Holders(x) = {i}
  BY <1>1 DEF Holders, CacheInv, OnePageEach
<1>5. FirstOf({i}) = i
  BY <1>1 DEF FirstOf, Pages
<1> QED
  BY <1>1, <1>3, <1>4, <1>5

LEMMA LogicalIs ==
  ASSUME CacheInv, NEW x \in Sectors
  PROVE  /\ Holders(x) = {} => Logical[x] = Plain(cells)[x]
         /\ \A i \in Holders(x) : Logical[x] = page[i].data[x]
BY HolderIs DEF Logical

LEMMA CacheKept ==
  ASSUME CacheInv, page' = page, promised' = promised,
         \A x \in Others : Plain(cells')[x] = Plain(cells)[x]
  PROVE  CacheInv'
<1>1. OnePageEach' /\ DirtyIsHeld'
  BY DEF CacheInv, OnePageEach, DirtyIsHeld, Held
<1>2. PagesAreGood'
  BY DEF CacheInv, PagesAreGood, Held
<1>3. FlushedIsKept'
  BY DEF CacheInv, FlushedIsKept
<1> QED
  BY <1>1, <1>2, <1>3 DEF CacheInv

LEMMA CacheEmptied ==
  ASSUME page' = [i \in Pages |-> NoPage],
         promised' \in [Sectors -> SUBSET Contents],
         \A x \in Others : Plain(cells')[x] \in promised'[x],
         \A v \in promised'[Table] : Counting(v)
  PROVE  CacheInv' /\ \A i \in Pages : ~page'[i].dirty
<1>1. [x \in {} |-> 0] \in PageData
  <2>1. [x \in {} |-> 0] \in [{} -> Contents]
    OBVIOUS
  <2> QED
    BY <2>1, PageDataIs
<1>2. \A i \in Pages : page'[i].dirty = FALSE /\ DOMAIN page'[i].data = {}
  BY DEF NoPage
<1>3. page' \in [Pages -> [data : PageData, dirty : BOOLEAN]]
  BY <1>1 DEF NoPage
<1>4. OnePageEach' /\ DirtyIsHeld' /\ PagesAreGood'
  BY <1>2 DEF OnePageEach, DirtyIsHeld, PagesAreGood, Held
<1> QED
  BY <1>2, <1>3, <1>4 DEF CacheInv, FlushedIsKept

(* A dirty page has been written. *)
LEMMA PageWritten ==
  ASSUME DiscInv, CacheInv, NEW i \in Pages, page[i].dirty, WritePage(i),
         page' = Cleaned(i), promised' = promised
  PROVE  DiscInv' /\ CacheInv' /\ \A j \in Pages : page'[j].dirty => j # i /\ page[j].dirty
<1> DEFINE S == Held(i)
           s == FirstOf(S)
           n == Cardinality(S)
           run == PageRun(i)
<1>1. S \in WholeBlocks /\ page[i].data \in [S -> Contents]
  BY PageIs DEF CacheInv, DirtyIsHeld
<1>2. /\ s \in Sectors /\ n \in Nat /\ S = s .. s + n - 1 /\ InOneBlock(s, n) /\ ReadyFor(s)
      /\ \A x \in Sectors : x # s + n \/ StartsBlock(x)
      /\ S \subseteq Sectors
  BY <1>1, WholeBlockIs
<1>3. WritesOn(s, n, run, IvAt(s))
  BY DEF WritePage
<1>4. run = [k \in 0 .. n - 1 |-> page[i].data[s + k]]
  BY DEF PageRun
<1> HIDE DEF S, s, n, run
<1>5. s \in Nat /\ \A k \in 0 .. n - 1 : s + k \in S
  BY <1>2, Places DEF Sectors
<1>6. run \in [0 .. n - 1 -> Contents]
  BY <1>1, <1>4, <1>5
<1>7. \A x \in S : x - s \in 0 .. n - 1 /\ run[x - s] = page[i].data[x]
  <2> SUFFICES ASSUME NEW x \in S
               PROVE  x - s \in 0 .. n - 1 /\ run[x - s] = page[i].data[x]
    OBVIOUS
  <2>1. x - s \in 0 .. n - 1 /\ s + (x - s) = x
    BY <1>2, <1>5
  <2> QED
    BY <1>4, <2>1
<1>8. Table \in S => Counting(run[Table - s])
  <2> SUFFICES ASSUME Table \in S PROVE Counting(run[Table - s])
    OBVIOUS
  <2>1. page[i].data[Table] \in promised[Table]
    BY Places DEF CacheInv, PagesAreGood, S
  <2> QED
    BY <1>7, <2>1 DEF CacheInv
<1>9. /\ DiscInv'
      /\ \A x \in S : Plain(cells')[x] = page[i].data[x]
      /\ \A x \in Others \ S : Plain(cells')[x] = Plain(cells)[x]
  <2>1. \A x \in Others : x # s + n \/ StartsBlock(x)
    BY <1>2, Places
  <2>2. /\ DiscInv'
        /\ \A x \in S : Plain(cells')[x] = run[x - s]
        /\ \A x \in Others \ S : Plain(cells')[x] = Plain(cells)[x]
    BY <1>2, <1>3, <1>6, <1>8, <2>1, DiscWrites
  <2> QED
    BY <1>7, <2>2
<1>10. /\ \A j \in Pages : page'[j].data = page[j].data
       /\ page'[i].dirty = FALSE /\ \A j \in Pages : j # i => page'[j] = page[j]
       /\ page' \in [Pages -> [data : PageData, dirty : BOOLEAN]]
  <2>1. page \in [Pages -> [data : PageData, dirty : BOOLEAN]]
    BY DEF CacheInv
  <2> DEFINE new == [data |-> page[i].data, dirty |-> FALSE]
  <2>2. page' = [page EXCEPT ![i] = new]
    BY DEF Cleaned
  <2>3. new \in [data : PageData, dirty : BOOLEAN] /\ new.data = page[i].data /\ new.dirty = FALSE
    BY <2>1
  <2> HIDE DEF new
  <2>4. /\ page' \in [Pages -> [data : PageData, dirty : BOOLEAN]] /\ page'[i] = new
        /\ \A j \in Pages : j # i => page'[j] = page[j]
    BY <2>1, <2>2, <2>3
  <2> QED
    BY <2>3, <2>4
<1>11. \A j \in Pages : page'[j].dirty => j # i /\ page[j].dirty
  BY <1>10
<1>12. OnePageEach' /\ DirtyIsHeld'
  BY <1>10 DEF CacheInv, OnePageEach, DirtyIsHeld, Held
<1>13. PagesAreGood'
  <2> SUFFICES ASSUME NEW j \in Pages, NEW x \in Held(j) \cap Others
               PROVE  /\ page[j].data[x] \in promised[x]
                      /\ ~page'[j].dirty => page[j].data[x] = Plain(cells')[x]
    BY <1>10 DEF PagesAreGood, Held
  <2>1. page[j].data[x] \in promised[x] /\ (~page[j].dirty => page[j].data[x] = Plain(cells)[x])
    BY DEF CacheInv, PagesAreGood
  <2>2. CASE j = i
    BY <1>9, <2>1, <2>2 DEF S
  <2>3. CASE j # i
    <3>1. x \notin S
      BY <2>3 DEF CacheInv, OnePageEach, S
    <3> QED
      BY <1>9, <1>10, <2>1, <2>3, <3>1
  <2> QED
    BY <2>2, <2>3
<1>14. FlushedIsKept'
  <2> SUFFICES ASSUME NEW x \in Others
               PROVE  Plain(cells')[x] \in promised[x]
    BY DEF FlushedIsKept
  <2>1. CASE x \in S
    BY <1>9, <2>1 DEF CacheInv, PagesAreGood, S
  <2>2. CASE x \notin S
    BY <1>9, <2>2 DEF CacheInv, FlushedIsKept
  <2> QED
    BY <2>1, <2>2
<1> QED
  BY <1>9, <1>10, <1>11, <1>12, <1>13, <1>14 DEF CacheInv

(* A page has been read for a sector that none held. *)
LEMMA PageFetched ==
  ASSUME DiscInv, CacheInv, NEW i \in Pages, NEW s \in Sectors, Holders(s) = {},
         ReadsOn(FirstOf(PageSectors(s)), Cardinality(PageSectors(s))),
         page' = [page EXCEPT ![i] =
                    [data |-> Data(FirstOf(PageSectors(s)), Cardinality(PageSectors(s))),
                     dirty |-> FALSE]],
         promised' = promised
  PROVE  DiscInv' /\ CacheInv'
<1> DEFINE S == PageSectors(s)
           data == [x \in S |-> Plain(cells)[x]]
<1>1. S \in WholeBlocks
  BY DEF WholeBlocks
<1>2. /\ FirstOf(S) \in Sectors /\ Cardinality(S) \in Nat
      /\ S = FirstOf(S) .. FirstOf(S) + Cardinality(S) - 1
      /\ InOneBlock(FirstOf(S), Cardinality(S)) /\ ReadyFor(FirstOf(S))
      /\ S \subseteq Sectors
  BY <1>1, WholeBlockIs
<1>3. DiscInv' /\ cells' = cells /\ Data(FirstOf(S), Cardinality(S)) = data
  BY <1>2, DiscReads
<1>4. page' = [page EXCEPT ![i] = [data |-> data, dirty |-> FALSE]]
  BY <1>3
<1>5. data \in [S -> Contents]
  <2>1. Plain(cells) \in [Sectors -> Contents]
    BY PlainIs DEF DiscInv, DiscTypeOK, Files
  <2> QED
    BY <1>2, <2>1
<1>6. data \in PageData
  BY <1>1, <1>5, PageDataIs
<1>7. DOMAIN data = S /\ \A x \in S : data[x] = Plain(cells)[x]
  OBVIOUS
<1>8. \A x \in S : Holders(x) = {}
  <2> SUFFICES ASSUME NEW x \in S, NEW j \in Holders(x) PROVE FALSE
    OBVIOUS
  <2>1. j \in Pages /\ Held(j) = PageSectors(x)
    BY <1>2, HolderIs
  <2>2. s \in PageSectors(x)
    BY DEF PageSectors
  <2> QED
    BY <2>1, <2>2 DEF Holders
<1> HIDE DEF S, data
<1>9. /\ page' \in [Pages -> [data : PageData, dirty : BOOLEAN]]
      /\ page'[i] = [data |-> data, dirty |-> FALSE]
      /\ \A j \in Pages : j # i => page'[j] = page[j]
  <2> DEFINE new == [data |-> data, dirty |-> FALSE]
  <2>1. new \in [data : PageData, dirty : BOOLEAN]
    BY <1>6
  <2>2. page' = [page EXCEPT ![i] = new]
    BY <1>4
  <2>3. page \in [Pages -> [data : PageData, dirty : BOOLEAN]]
    BY DEF CacheInv
  <2> HIDE DEF new
  <2>4. /\ page' \in [Pages -> [data : PageData, dirty : BOOLEAN]] /\ page'[i] = new
        /\ \A j \in Pages : j # i => page'[j] = page[j]
    BY <2>1, <2>2, <2>3
  <2> QED
    BY <2>4 DEF new
<1>10. /\ Held(i)' = S /\ \A j \in Pages : j # i => Held(j)' = Held(j)
       /\ \A j \in Pages : Held(j) \cap S = {}
  BY <1>7, <1>8, <1>9 DEF Held, Holders
<1>11. OnePageEach'
  BY <1>10 DEF CacheInv, OnePageEach
<1>12. DirtyIsHeld'
  BY <1>9, <1>10 DEF CacheInv, DirtyIsHeld
<1>13. FlushedIsKept'
  BY <1>3 DEF CacheInv, FlushedIsKept
<1>14. PagesAreGood'
  <2> SUFFICES ASSUME NEW j \in Pages, NEW x \in Held(j)' \cap Others
               PROVE  /\ page'[j].data[x] \in promised[x]
                      /\ ~page'[j].dirty => page'[j].data[x] = Plain(cells)[x]
    BY <1>3 DEF PagesAreGood
  <2>1. CASE j = i
    BY <1>7, <1>9, <1>10, <2>1 DEF CacheInv, FlushedIsKept
  <2>2. CASE j # i
    BY <1>9, <1>10, <2>2 DEF CacheInv, PagesAreGood
  <2> QED
    BY <2>1, <2>2
<1> QED
  BY <1>3, <1>9, <1>11, <1>12, <1>13, <1>14 DEF CacheInv

(* A caller has written to a sector that a page holds. *)
LEMMA SectorWritten ==
  ASSUME CacheInv, NEW s \in Others, NEW v \in Values, s = Table => Counting(v),
         NEW i \in Holders(s), cells' = cells,
         page' = [page EXCEPT ![i] = [data |-> [@.data EXCEPT ![s] = v], dirty |-> TRUE]],
         promised' = [promised EXCEPT ![s] = @ \cup {v}]
  PROVE  CacheInv'
<1>1. i \in Pages /\ s \in Held(i) /\ s \in Sectors
  BY Places, HolderIs
<1>2. /\ page[i] = [data |-> page[i].data, dirty |-> page[i].dirty]
      /\ Held(i) \in WholeBlocks /\ page[i].data \in [Held(i) -> Contents]
  BY <1>1, PageIs
<1> DEFINE data == [page[i].data EXCEPT ![s] = v]
<1>3. data \in [Held(i) -> Contents] /\ data \in PageData
  <2>1. data \in [Held(i) -> Contents]
    BY <1>1, <1>2 DEF Contents
  <2> HIDE DEF data
  <2> QED
    BY <1>2, <2>1, PageDataIs
<1>4. DOMAIN data = Held(i) /\ data[s] = v /\ \A x \in Held(i) : x # s => data[x] = page[i].data[x]
  BY <1>1, <1>2
<1>5. page' = [page EXCEPT ![i] = [data |-> data, dirty |-> TRUE]]
  OBVIOUS
<1> HIDE DEF data
<1>6. /\ page' \in [Pages -> [data : PageData, dirty : BOOLEAN]]
      /\ page'[i] = [data |-> data, dirty |-> TRUE]
      /\ \A j \in Pages : j # i => page'[j] = page[j]
  <2> DEFINE new == [data |-> data, dirty |-> TRUE]
  <2>1. new \in [data : PageData, dirty : BOOLEAN]
    BY <1>3
  <2>2. page' = [page EXCEPT ![i] = new]
    BY <1>5
  <2>3. page \in [Pages -> [data : PageData, dirty : BOOLEAN]]
    BY DEF CacheInv
  <2> HIDE DEF new
  <2>4. /\ page' \in [Pages -> [data : PageData, dirty : BOOLEAN]] /\ page'[i] = new
        /\ \A j \in Pages : j # i => page'[j] = page[j]
    BY <1>1, <2>1, <2>2, <2>3
  <2> QED
    BY <2>4 DEF new
<1>7. \A j \in Pages : Held(j)' = Held(j)
  BY <1>4, <1>6 DEF Held
<1>8. /\ promised' \in [Sectors -> SUBSET Contents]
      /\ promised'[s] = promised[s] \cup {v}
      /\ \A x \in Sectors : x # s => promised'[x] = promised[x]
  BY <1>1 DEF CacheInv, Contents
<1>9. \A x \in Sectors : promised[x] \subseteq promised'[x]
  BY <1>8
<1>10. OnePageEach' /\ DirtyIsHeld'
  BY <1>1, <1>6, <1>7 DEF CacheInv, OnePageEach, DirtyIsHeld
<1>11. FlushedIsKept'
  BY <1>9, Places DEF CacheInv, FlushedIsKept
<1>12. PagesAreGood'
  <2> SUFFICES ASSUME NEW j \in Pages, NEW x \in Held(j) \cap Others
               PROVE  /\ page'[j].data[x] \in promised'[x]
                      /\ ~page'[j].dirty => page'[j].data[x] = Plain(cells)[x]
    BY <1>7 DEF PagesAreGood
  <2>1. page[j].data[x] \in promised[x] /\ (~page[j].dirty => page[j].data[x] = Plain(cells)[x])
    BY DEF CacheInv, PagesAreGood
  <2>2. x \in Sectors
    BY Places
  <2>3. CASE j # i
    BY <1>6, <1>9, <2>1, <2>2, <2>3
  <2>4. CASE j = i /\ x # s
    BY <1>4, <1>6, <1>9, <2>1, <2>2, <2>4
  <2>5. CASE j = i /\ x = s
    BY <1>4, <1>6, <1>8, <2>5
  <2> QED
    BY <2>3, <2>4, <2>5
<1>13. \A w \in promised'[Table] : Counting(w)
  BY <1>8, Places DEF CacheInv
<1> QED
  BY <1>6, <1>8, <1>10, <1>11, <1>12, <1>13 DEF CacheInv

-----------------------------------------------------------------------------
(* What calls leave alone. *)

LEMMA DiscKept ==
  ASSUME DiscInv, UNCHANGED discVars
  PROVE  DiscInv' /\ cells' = cells
<1>1. cells' = cells /\ stored' = stored /\ pos' = pos /\ ctx' = ctx
  BY DEF discVars
<1>2. DiscTypeOK' /\ InStep' /\ Behind(stored', cells', Others)
  BY <1>1 DEF DiscInv, DiscTypeOK, InStep, StartsBlock
<1> QED
  BY <1>1, <1>2 DEF DiscInv

LEMMA UseKept ==
  ASSUME UseInv, lastUse' = lastUse
  PROVE  UseInv'
BY DEF UseInv

(* The order of use is one still. *)
LEMMA UseTouched ==
  ASSUME UseInv, NEW i \in Pages, lastUse' = Touched(i)
  PROVE  UseInv'
<1>1. NumPages \in Nat /\ \A j \in Pages : lastUse[j] \in Nat /\ lastUse[j] <= NumPages
  BY Places DEF UseInv
<1>2. \A j \in Pages :
        lastUse'[j] = IF j = i THEN NumPages
                      ELSE IF lastUse[j] > lastUse[i] THEN lastUse[j] - 1 ELSE lastUse[j]
  BY DEF Touched
<1>3. lastUse' \in [Pages -> 0 .. NumPages]
  <2>1. \A j \in Pages : lastUse'[j] \in 0 .. NumPages
    BY <1>1, <1>2
  <2> QED
    BY <2>1 DEF Touched
<1>4. ASSUME NEW j \in Pages, NEW k \in Pages, j # k, lastUse'[j] = lastUse'[k]
      PROVE  lastUse'[j] = 0
  <2>1. /\ lastUse[j] = lastUse[k] => lastUse[j] = 0
        /\ (i # j /\ lastUse[i] = lastUse[j]) => lastUse[i] = 0
        /\ (i # k /\ lastUse[i] = lastUse[k]) => lastUse[i] = 0
    BY <1>4 DEF UseInv
  <2>2. CASE i = j
    BY <1>1, <1>2, <1>4, <2>1, <2>2
  <2>3. CASE i = k
    BY <1>1, <1>2, <1>4, <2>1, <2>3
  <2>4. CASE i # j /\ i # k
    BY <1>1, <1>2, <1>4, <2>1, <2>4
  <2> QED
    BY <2>2, <2>3, <2>4
<1> QED
  BY <1>3, <1>4 DEF UseInv

(* What is left of a call. *)
Flushes == [op : {"flush", "unmount"}, i : 0 .. NumPages]

LEMMA CallIs ==
  ASSUME call \in Calls
  PROVE  /\ call.op \in {"flush", "unmount"} => call \in Flushes
         /\ call.op \in {"read", "write", "count"} => call.s \in Sectors
BY DEF Calls, Flushes

LEMMA NewCalls ==
  /\ {Idle, Closed, [op |-> "mount"], [op |-> "create"], [op |-> "writeFSinfo"]} \subseteq Calls
  /\ \A s \in Sectors : {ReadCall(s), [op |-> "count", s |-> s]} \subseteq Calls
  /\ \A s \in Sectors, v \in Values : WriteCall(s, v) \in Calls
  /\ Flushes \subseteq Calls
BY DEF Calls, Idle, Closed, ReadCall, WriteCall, Flushes

(* A call that is not a flush asks nothing of the pages. *)
LEMMA CallChanged ==
  ASSUME CallInv, call' \in Calls, call'.op \notin {"flush", "unmount"},
         free' \in Nat, InfoSector(free') \in Values
  PROVE  CallInv'
BY DEF CallInv, FlushedSoFar, InfoSector

(* One that begins one neither. *)
LEMMA FlushStarts ==
  ASSUME CallInv, call' \in Flushes, call'.i = 0, free' = free
  PROVE  CallInv'
<1>1. \A j \in Pages : ~(j < 0)
  BY DEF Pages
<1> QED
  BY <1>1, NewCalls DEF CallInv, FlushedSoFar, InfoSector

-----------------------------------------------------------------------------
(* The steps of the calls that the cache serves. *)

LEMMA BeginIs ==
  ASSUME IInv, Begin
  PROVE  IInv'
<1>1. DiscInv' /\ cells' = cells
  BY DiscKept DEF IInv, Begin
<1>2. CacheInv' /\ UseInv'
  BY <1>1, CacheKept, UseKept DEF IInv, Begin
<1>3. free' = free
  BY DEF Begin
<1>4. CASE \E s \in Used : call' = ReadCall(s)
  <2>1. call' \in Calls /\ call'.op = "read"
    <3>1. PICK s \in Used : call' = ReadCall(s)
      BY <1>4
    <3>2. s \in Sectors
      BY Places
    <3>3. ReadCall(s) \in Calls
      BY <3>2, NewCalls
    <3> QED
      BY <3>1, <3>3 DEF ReadCall
  <2> QED
    BY <1>3, <2>1, CallChanged, <1>1, <1>2 DEF IInv, CallInv
<1>5. CASE \E w \in Writes : call' = WriteCall(w[1], w[2])
  <2>1. call' \in Calls /\ call'.op = "write"
    <3>1. PICK w \in Writes : call' = WriteCall(w[1], w[2])
      BY <1>5
    <3>2. w[1] \in Sectors /\ w[2] \in Values
      BY Places
    <3>3. WriteCall(w[1], w[2]) \in Calls
      BY <3>2, NewCalls
    <3> QED
      BY <3>1, <3>3 DEF WriteCall
  <2> QED
    BY <1>3, <2>1, CallChanged, <1>1, <1>2 DEF IInv, CallInv
<1>6. CASE call' = [op |-> "flush", i |-> 0]
  <2>1. call' \in Flushes /\ call'.i = 0
    BY <1>6, Places DEF Flushes
  <2> QED
    BY <1>3, <2>1, FlushStarts, <1>1, <1>2 DEF IInv
<1> QED
  BY <1>4, <1>5, <1>6 DEF Begin

(* A call that misses is no flush, and has a sector. *)
LEMMA MissIs ==
  ASSUME CallInv, Misses
  PROVE  call.s \in Sectors /\ call.op \notin {"flush", "unmount"} /\ Holders(call.s) = {}
BY CallIs DEF CallInv, Misses

LEMMA WriteBackIs ==
  ASSUME IInv, NEW i \in Pages, WriteBack(i)
  PROVE  IInv'
<1>1. /\ call.op \notin {"flush", "unmount"} /\ call \in Calls
      /\ page[i].dirty /\ lastUse' = lastUse /\ free' = free /\ promised' = promised
      /\ free \in Nat /\ InfoSector(free) \in Values
  BY MissIs DEF WriteBack, IInv, CallInv
<1>2. UseInv'
  BY <1>1, UseKept DEF IInv
<1>3. CASE WritePage(i) /\ page' = Cleaned(i) /\ call' = call
  <2>1. DiscInv' /\ CacheInv'
    BY <1>1, <1>3, PageWritten DEF IInv
  <2>2. CallInv'
    BY <1>1, <1>3, CallChanged DEF IInv
  <2> QED
    BY <1>2, <2>1, <2>2 DEF IInv
<1>4. CASE WriteRefused(i) /\ call' = Idle /\ page' = page
  <2>1. DiscInv' /\ cells' = cells
    BY <1>4, DiscKept DEF IInv, WriteRefused
  <2>2. CacheInv'
    BY <1>1, <1>4, <2>1, CacheKept DEF IInv
  <2>3. CallInv'
    BY <1>1, <1>4, CallChanged, NewCalls DEF IInv, Idle
  <2> QED
    BY <1>2, <2>1, <2>2, <2>3 DEF IInv
<1> QED
  BY <1>3, <1>4 DEF WriteBack, Returns

LEMMA FetchIs ==
  ASSUME IInv, NEW i \in Pages, Fetch(i)
  PROVE  IInv'
<1> DEFINE s == call.s
<1>1. /\ s \in Sectors /\ Holders(s) = {} /\ call.op \notin {"flush", "unmount"} /\ call \in Calls
      /\ free \in Nat /\ InfoSector(free) \in Values
  BY MissIs DEF Fetch, IInv, CallInv
<1>2. /\ ReadsOn(FirstOf(PageSectors(s)), Cardinality(PageSectors(s)))
      /\ page' = [page EXCEPT ![i] =
                    [data |-> Data(FirstOf(PageSectors(s)), Cardinality(PageSectors(s))),
                     dirty |-> FALSE]]
      /\ lastUse' = Touched(i) /\ call' = call /\ free' = free /\ promised' = promised
  BY DEF Fetch
<1> HIDE DEF s
<1>3. DiscInv' /\ CacheInv'
  BY <1>1, <1>2, PageFetched DEF IInv
<1>4. UseInv'
  BY <1>2, UseTouched DEF IInv
<1>5. CallInv'
  BY <1>1, <1>2, CallChanged DEF IInv
<1> QED
  BY <1>3, <1>4, <1>5 DEF IInv

LEMMA ReadStepIs ==
  ASSUME IInv, NEW s \in Used, Read(s)
  PROVE  IInv'
<1>1. DiscInv' /\ cells' = cells /\ page' = page /\ promised' = promised /\ free' = free /\ call' = Idle
  BY DiscKept DEF IInv, Read, Returns
<1>2. CacheInv'
  BY <1>1, CacheKept DEF IInv
<1>3. UseInv'
  BY UseTouched DEF IInv, Read, Holders
<1>4. CallInv'
  BY <1>1, CallChanged, NewCalls DEF IInv, CallInv, Idle
<1> QED
  BY <1>1, <1>2, <1>3, <1>4 DEF IInv

(* What can be counted and is not lost is a number. *)
LEMMA CountIs ==
  ASSUME NEW v \in Contents \ {Garbled}, Counting(v)
  PROVE  v \in Nat /\ InfoSector(v) \in Values
BY SectorValuesAssumption DEF Contents, Counting

LEMMA WriteStepIs ==
  ASSUME IInv, NEW w \in Writes, Write(w[1], w[2])
  PROVE  IInv'
<1> DEFINE s == w[1]
           v == w[2]
<1>1. s \in Others /\ v \in Values /\ (s = Table => Counting(v))
  BY Places
<1>2. PICK i \in Holders(s) :
        /\ page' = [page EXCEPT ![i] = [data |-> [@.data EXCEPT ![s] = v], dirty |-> TRUE]]
        /\ lastUse' = Touched(i)
  BY DEF Write
<1>3. /\ promised' = [promised EXCEPT ![s] = @ \cup {v}]
      /\ free' = IF s = Table THEN v ELSE free
      /\ call' = Idle /\ UNCHANGED discVars
  BY DEF Write, Returns
<1> HIDE DEF s, v
<1>4. DiscInv' /\ cells' = cells
  BY <1>3, DiscKept DEF IInv
<1>5. CacheInv'
  BY <1>1, <1>2, <1>3, <1>4, SectorWritten DEF IInv
<1>6. UseInv'
  BY <1>2, UseTouched DEF IInv, Holders
<1>7. free' \in Nat /\ InfoSector(free') \in Values
  <2>1. CASE s = Table
    <3>1. v \in Contents \ {Garbled}
      BY <1>1, ValuesAssumption DEF Contents
    <3> QED
      BY <1>1, <1>3, <2>1, <3>1, CountIs
  <2>2. CASE s # Table
    BY <1>3, <2>2 DEF IInv, CallInv
  <2> QED
    BY <2>1, <2>2
<1>8. CallInv'
  BY <1>3, <1>7, CallChanged, NewCalls DEF IInv, Idle
<1> QED
  BY <1>4, <1>5, <1>6, <1>8 DEF IInv

-----------------------------------------------------------------------------
(* The steps of a flush. *)

LEMMA FlushingIs ==
  ASSUME CallInv, Flushing
  PROVE  /\ call.op \in {"flush", "unmount"} /\ call.i \in Pages /\ call.i \in Nat
         /\ call = [op |-> call.op, i |-> call.i]
         /\ \A j \in Pages : j < call.i => ~page[j].dirty
<1>1. call \in Flushes /\ call.i \in Pages
  BY CallIs DEF CallInv, Flushing
<1>2. call.i \in Nat /\ call.i # NumPages
  BY <1>1, Places DEF Pages
<1>3. call # [op |-> "unmount", i |-> NumPages]
  BY <1>2
<1> QED
  BY <1>1, <1>2, <1>3 DEF Flushes, CallInv, FlushedSoFar

(* The flush goes on to the next page. *)
LEMMA FlushGoesOn ==
  ASSUME CallInv, Flushing, call' = [call EXCEPT !.i = @ + 1], free' = free,
         \A j \in Pages : page'[j].dirty => j # call.i /\ page[j].dirty
  PROVE  CallInv'
<1> DEFINE op == call.op
           i == call.i
<1>1. /\ op \in {"flush", "unmount"} /\ i \in Pages /\ i \in Nat
      /\ call = [op |-> op, i |-> i]
      /\ \A j \in Pages : j < i => ~page[j].dirty
  BY FlushingIs
<1> HIDE DEF op, i
<1>2. call' = [op |-> op, i |-> i + 1]
  BY <1>1
<1>3. call' \in Flushes /\ call'.i = i + 1
  BY <1>1, <1>2, Places DEF Flushes, Pages
<1>4. ASSUME NEW j \in Pages, j < call'.i
      PROVE  ~page'[j].dirty
  BY <1>1, <1>3, <1>4 DEF i, Pages
<1> QED
  BY <1>3, <1>4, NewCalls DEF CallInv, FlushedSoFar, InfoSector

LEMMA FlushPageIs ==
  ASSUME IInv, FlushPage
  PROVE  IInv'
<1>1. /\ call.i \in Pages /\ page[call.i].dirty /\ WritePage(call.i) /\ page' = Cleaned(call.i)
      /\ lastUse' = lastUse /\ free' = free /\ promised' = promised
      /\ Flushing /\ call' = [call EXCEPT !.i = @ + 1]
  BY DEF FlushPage, Flushing
<1>2. DiscInv' /\ CacheInv' /\ \A j \in Pages : page'[j].dirty => j # call.i /\ page[j].dirty
  BY <1>1, PageWritten DEF IInv
<1>3. UseInv' /\ CallInv'
  BY <1>1, <1>2, UseKept, FlushGoesOn DEF IInv
<1> QED
  BY <1>2, <1>3 DEF IInv

LEMMA FlushNothingIs ==
  ASSUME IInv, FlushNothing
  PROVE  IInv'
<1>1. /\ ~page[call.i].dirty /\ Flushing /\ call' = [call EXCEPT !.i = @ + 1]
      /\ UNCHANGED discVars /\ page' = page
      /\ lastUse' = lastUse /\ free' = free /\ promised' = promised
  BY DEF FlushNothing
<1>2. DiscInv' /\ cells' = cells
  BY <1>1, DiscKept DEF IInv
<1>3. CacheInv' /\ UseInv'
  BY <1>1, <1>2, CacheKept, UseKept DEF IInv
<1>4. CallInv'
  BY <1>1, FlushGoesOn DEF IInv
<1> QED
  BY <1>2, <1>3, <1>4 DEF IInv

(* The page that the disc does not write is the last of the image. *)
LEMMA RefusedIs ==
  ASSUME DiscInv, CacheInv, NEW i \in Pages, page[i].dirty, WriteRefused(i)
  PROVE  LastPageDirty
<1>1. Held(i) \in WholeBlocks
  BY PageIs DEF CacheInv, DirtyIsHeld
<1> DEFINE s == FirstOf(Held(i))
           n == Cardinality(Held(i))
<1>2. s \in Sectors /\ n \in Nat /\ Held(i) = s .. s + n - 1 /\ n >= 1 /\ s + n <= Size
  BY <1>1, WholeBlockIs DEF InOneBlock
<1>3. s + n >= Size
  BY DEF WriteRefused, NeedsExtending
<1> HIDE DEF s, n
<1>4. Size - 1 \in Held(i)
  BY <1>2, <1>3, Places DEF Sectors
<1> QED
  BY <1>4 DEF LastPageDirty

LEMMA FlushRefusedIs ==
  ASSUME IInv, FlushRefused
  PROVE  IInv'
<1>1. /\ page[call.i].dirty /\ Flushing /\ WriteRefused(call.i) /\ call.i \in Pages
      /\ UNCHANGED discVars /\ page' = page
      /\ lastUse' = lastUse /\ free' = free /\ promised' = promised
      /\ call' = IF call.op = "unmount" THEN [call EXCEPT !.i = NumPages] ELSE Idle
  BY DEF FlushRefused, WriteRefused, Flushing
<1>2. DiscInv' /\ cells' = cells
  BY <1>1, DiscKept DEF IInv
<1>3. CacheInv' /\ UseInv'
  BY <1>1, <1>2, CacheKept, UseKept DEF IInv
<1>4. LastPageDirty'
  <2>1. LastPageDirty
    BY <1>1, RefusedIs DEF IInv
  <2> QED
    BY <1>1, <2>1 DEF LastPageDirty, Held
<1>5. CallInv'
  <2>1. CASE call.op = "unmount"
    <3>1. call = [op |-> "unmount", i |-> call.i]
      BY <1>1, <2>1, FlushingIs DEF IInv
    <3>2. call' = [op |-> "unmount", i |-> NumPages]
      BY <1>1, <2>1, <3>1
    <3>3. call' \in Flushes
      BY <3>2, Places DEF Flushes
    <3> QED
      BY <1>1, <1>4, <3>2, <3>3, NewCalls DEF IInv, CallInv, FlushedSoFar, InfoSector
  <2>2. CASE call.op # "unmount"
    BY <1>1, <2>2, CallChanged, NewCalls DEF IInv, CallInv, Idle
  <2> QED
    BY <2>1, <2>2
<1> QED
  BY <1>2, <1>3, <1>5 DEF IInv

(* When no page is dirty the disc holds what the cache does. *)
LEMMA CleanIs ==
  ASSUME CacheInv, \A j \in Pages : ~page[j].dirty, NEW x \in Others
  PROVE  Plain(cells)[x] = Logical[x]
<1>1. x \in Sectors
  BY Places
<1>2. CASE Holders(x) = {}
  BY <1>1, <1>2, LogicalIs
<1>3. CASE Holders(x) # {}
  <2>1. PICK i \in Holders(x) : TRUE
    BY <1>3
  <2>2. i \in Pages /\ x \in Held(i) /\ Logical[x] = page[i].data[x]
    BY <1>1, LogicalIs DEF Holders
  <2> QED
    BY <2>2 DEF CacheInv, PagesAreGood
<1> QED
  BY <1>2, <1>3

(* The cache shows what was promised. *)
LEMMA LogicalGood ==
  ASSUME DiscInv, CacheInv, NEW x \in Sectors
  PROVE  Logical[x] \in Contents /\ (x \in Others => Logical[x] \in promised[x])
<1>1. CASE Holders(x) = {}
  <2>1. Plain(cells)[x] \in Contents
    BY PlainIs DEF DiscInv, DiscTypeOK, Files
  <2> QED
    BY <1>1, <2>1, LogicalIs DEF CacheInv, FlushedIsKept
<1>2. CASE Holders(x) # {}
  <2>1. PICK i \in Holders(x) : TRUE
    BY <1>2
  <2>2. i \in Pages /\ x \in Held(i) /\ Logical[x] = page[i].data[x]
    BY LogicalIs DEF Holders
  <2>3. page[i].data \in [Held(i) -> Contents]
    BY <2>2, PageIs
  <2> QED
    BY <2>2, <2>3 DEF CacheInv, PagesAreGood
<1> QED
  BY <1>1, <1>2

LEMMA FlushDoneIs ==
  ASSUME IInv, FlushDone
  PROVE  IInv'
<1>1. /\ call = [op |-> "flush", i |-> NumPages]
      /\ promised' = [x \in Sectors |-> {Logical[x]}] /\ call' = Idle
      /\ UNCHANGED discVars /\ page' = page /\ lastUse' = lastUse /\ free' = free
  BY DEF FlushDone, Returns
<1>2. DiscInv' /\ cells' = cells
  BY <1>1, DiscKept DEF IInv
<1>3. UseInv' /\ CallInv'
  BY <1>1, UseKept, CallChanged, NewCalls DEF IInv, CallInv, Idle
<1>4. \A j \in Pages : ~page[j].dirty
  <2>1. \A j \in Pages : j < NumPages
    BY Places DEF Pages
  <2> QED
    BY <1>1, <2>1 DEF IInv, CallInv, FlushedSoFar
<1>5. /\ \A x \in Sectors : Logical[x] \in Contents /\ promised'[x] = {Logical[x]}
      /\ \A x \in Others : Logical[x] \in promised[x] /\ Plain(cells)[x] = Logical[x]
  BY <1>1, <1>4, LogicalGood, CleanIs, Places DEF IInv
<1>6. promised' \in [Sectors -> SUBSET Contents]
  BY <1>1, <1>5
<1>7. FlushedIsKept'
  BY <1>2, <1>5, Places DEF FlushedIsKept
<1>8. OnePageEach' /\ DirtyIsHeld'
  BY <1>1 DEF IInv, CacheInv, OnePageEach, DirtyIsHeld, Held
<1>9. PagesAreGood'
  <2> SUFFICES ASSUME NEW i \in Pages, NEW x \in Held(i) \cap Others
               PROVE  page[i].data[x] = Logical[x]
    BY <1>1, <1>2, <1>5, Places DEF PagesAreGood, Held
  <2>1. i \in Holders(x)
    BY DEF Holders
  <2> QED
    BY <2>1, LogicalIs, Places DEF IInv
<1>10. \A v \in promised'[Table] : Counting(v)
  BY <1>5, Places DEF IInv, CacheInv
<1> QED
  BY <1>1, <1>2, <1>3, <1>6, <1>7, <1>8, <1>9, <1>10 DEF IInv, CacheInv

-----------------------------------------------------------------------------
(* The steps of mounting and unmounting. *)

LEMMA ReadBootIs ==
  ASSUME IInv, ReadBoot
  PROVE  IInv'
<1>1. /\ ReadsOn(0, 1) /\ call' = [op |-> "mount"] /\ page' = page
      /\ lastUse' = lastUse /\ free' = free /\ promised' = promised
  BY DEF ReadBoot
<1>2. 0 \in Sectors /\ InOneBlock(0, 1) /\ ReadyFor(0) /\ 1 \in Nat
  <2>1. StartsBlock(0)
    BY BlockSectorsAssumption DEF StartsBlock
  <2> QED
    BY <2>1, SeeksToBlocks, Places DEF InOneBlock, Sectors
<1>3. DiscInv' /\ cells' = cells
  BY <1>1, <1>2, DiscReads DEF IInv
<1>4. CacheInv' /\ UseInv' /\ CallInv'
  BY <1>1, <1>3, CacheKept, UseKept, CallChanged, NewCalls DEF IInv, CallInv
<1> QED
  BY <1>3, <1>4 DEF IInv

(* The count that a signed sector shows. *)
LEMMA SignedIs ==
  ASSUME NEW v \in Contents, Signed(v)
  PROVE  InfoCount(v) \in Nat /\ InfoSector(InfoCount(v)) = v /\ v \in Values
BY SectorValuesAssumption DEF Signed, InfoCount, InfoSector

LEMMA ReadFSinfoIs ==
  ASSUME IInv, ReadFSinfo
  PROVE  IInv'
<1>1. /\ ReadsOn(FsInfo, 1) /\ page' = page /\ lastUse' = lastUse /\ promised' = promised
      /\ \/ Signed(InfoRead) /\ call' = Idle /\ free' = InfoCount(InfoRead)
         \/ call' = [op |-> "count", s |-> Table] /\ free' = free
  BY DEF ReadFSinfo, Returns
<1>2. DiscInv' /\ cells' = cells /\ InfoRead \in Contents
  BY <1>1, InfoReads DEF IInv
<1>3. CacheInv' /\ UseInv'
  BY <1>1, <1>2, CacheKept, UseKept DEF IInv
<1>4. free' \in Nat /\ InfoSector(free') \in Values
  <2>1. CASE Signed(InfoRead) /\ free' = InfoCount(InfoRead)
    BY <1>2, <2>1, SignedIs
  <2>2. CASE free' = free
    BY <2>2 DEF IInv, CallInv
  <2> QED
    BY <1>1, <2>1, <2>2
<1>5. call' \in Calls /\ call'.op \notin {"flush", "unmount"}
  BY <1>1, NewCalls, Places DEF Idle
<1>6. CallInv'
  BY <1>4, <1>5, CallChanged DEF IInv
<1> QED
  BY <1>2, <1>3, <1>6 DEF IInv

LEMMA FreeClusterCountIs ==
  ASSUME IInv, FreeClusterCount
  PROVE  IInv'
<1>1. PICK i \in Holders(Table) :
        /\ free' \in IF page[i].data[Table] = Garbled THEN Counts ELSE {page[i].data[Table]}
        /\ lastUse' = Touched(i)
  BY DEF FreeClusterCount
<1>2. /\ call' = [op |-> "create"] /\ UNCHANGED discVars /\ page' = page /\ promised' = promised
  BY DEF FreeClusterCount
<1>3. DiscInv' /\ cells' = cells
  BY <1>2, DiscKept DEF IInv
<1>4. CacheInv'
  BY <1>2, <1>3, CacheKept DEF IInv
<1>5. i \in Pages /\ Table \in Held(i)
  BY DEF Holders
<1>6. UseInv'
  BY <1>1, <1>5, UseTouched DEF IInv
<1>7. free' \in Nat /\ InfoSector(free') \in Values
  <2>1. CASE page[i].data[Table] = Garbled
    <3>1. PICK v \in Values \ {0} : free' = InfoCount(v)
      BY <1>1, <2>1 DEF Counts
    <3>2. v \in Contents /\ Signed(v)
      BY DEF Contents, Signed
    <3> QED
      BY <3>1, <3>2, SignedIs
  <2>2. CASE page[i].data[Table] # Garbled
    <3> DEFINE v == page[i].data[Table]
    <3>1. page[i].data \in [Held(i) -> Contents]
      BY <1>5, PageIs DEF IInv
    <3>2. v \in Contents /\ v # Garbled
      BY <1>5, <2>2, <3>1
    <3>3. v \in promised[Table]
      BY <1>5, Places DEF IInv, CacheInv, PagesAreGood
    <3>4. Counting(v) /\ free' = v
      BY <1>1, <2>2, <3>3 DEF IInv, CacheInv
    <3> HIDE DEF v
    <3> QED
      BY <3>2, <3>4, CountIs
  <2> QED
    BY <2>1, <2>2
<1>8. CallInv'
  BY <1>2, <1>7, CallChanged, NewCalls DEF IInv
<1> QED
  BY <1>3, <1>4, <1>6, <1>8 DEF IInv

LEMMA CreateFSinfoIs ==
  ASSUME IInv, CreateFSinfo
  PROVE  IInv'
<1>1. /\ WriteInfo /\ call' = Idle /\ page' = page
      /\ lastUse' = lastUse /\ free' = free /\ promised' = promised
  BY DEF CreateFSinfo, Returns
<1>2. DiscInv' /\ \A x \in Others : Plain(cells')[x] = Plain(cells)[x]
  BY <1>1, InfoWrites DEF IInv, CallInv
<1>3. CacheInv' /\ UseInv' /\ CallInv'
  BY <1>1, <1>2, CacheKept, UseKept, CallChanged, NewCalls DEF IInv, CallInv, Idle
<1> QED
  BY <1>2, <1>3 DEF IInv

LEMMA FirstFlush ==
  ASSUME StartFlush
  PROVE  call' \in Flushes /\ call'.i = 0
BY Places DEF StartFlush, Flushes

LEMMA UnmountReadsIs ==
  ASSUME IInv, UnmountReads
  PROVE  IInv'
<1>1. /\ ReadsOn(FsInfo, 1) /\ page' = page
      /\ lastUse' = lastUse /\ free' = free /\ promised' = promised
      /\ call' = [op |-> "writeFSinfo"] \/ StartFlush
  BY DEF UnmountReads
<1>2. DiscInv' /\ cells' = cells
  BY <1>1, InfoReads DEF IInv
<1>3. CacheInv' /\ UseInv'
  BY <1>1, <1>2, CacheKept, UseKept DEF IInv
<1>4. CASE call' = [op |-> "writeFSinfo"]
  BY <1>1, <1>2, <1>3, <1>4, CallChanged, NewCalls DEF IInv, CallInv
<1>5. CASE StartFlush
  BY <1>1, <1>2, <1>3, <1>5, FlushStarts, FirstFlush DEF IInv
<1> QED
  BY <1>1, <1>4, <1>5

LEMMA UnmountWritesIs ==
  ASSUME IInv, UnmountWrites
  PROVE  IInv'
<1>1. /\ WriteInfo /\ StartFlush /\ page' = page
      /\ lastUse' = lastUse /\ free' = free /\ promised' = promised
  BY DEF UnmountWrites
<1>2. DiscInv' /\ \A x \in Others : Plain(cells')[x] = Plain(cells)[x]
  BY <1>1, InfoWrites DEF IInv, CallInv
<1>3. CacheInv' /\ UseInv' /\ CallInv'
  BY <1>1, <1>2, CacheKept, UseKept, FlushStarts, FirstFlush DEF IInv
<1> QED
  BY <1>2, <1>3 DEF IInv

(* The file is closed or lost with the promises that it keeps. *)
LEMMA EndsIs ==
  ASSUME IInv, NEW file \in {cells, stored}, Ends(file),
         promised' \in [Sectors -> SUBSET Contents],
         \A x \in Others : Plain(file)[x] \in promised'[x],
         \A v \in promised'[Table] : Counting(v)
  PROVE  IInv'
<1>1. /\ Reopened(file) /\ page' = [i \in Pages |-> NoPage]
      /\ lastUse' = [i \in Pages |-> 0] /\ call' = Closed /\ free' = 0
  BY DEF Ends
<1>2. DiscInv' /\ cells' = file
  BY <1>1, DiscReopens DEF IInv
<1>3. CacheInv'
  BY <1>1, <1>2, CacheEmptied
<1>4. UseInv'
  BY <1>1, Places DEF UseInv
<1>5. free' \in Nat /\ InfoSector(free') \in Values
  BY <1>1, SectorValuesAssumption DEF InfoSector
<1>6. CallInv'
  BY <1>1, <1>5, CallChanged, NewCalls DEF IInv, Closed
<1> QED
  BY <1>2, <1>3, <1>4, <1>6 DEF IInv

LEMMA CloseIs ==
  ASSUME IInv, CloseDisc \/ Exit
  PROVE  IInv'
<1>1. Ends(cells) /\ promised' = promised
  BY DEF CloseDisc, Exit
<1> QED
  BY <1>1, EndsIs DEF IInv, CacheInv, FlushedIsKept

LEMMA KillIs ==
  ASSUME IInv, Kill
  PROVE  IInv'
<1>1. Ends(stored) /\ promised' = [x \in Sectors |-> {Plain(stored)[x]}]
  BY DEF Kill
<1>2. stored \in Files
  BY DEF IInv, DiscInv, DiscTypeOK, Files
<1>3. \A x \in Sectors : Plain(stored)[x] \in Contents /\ promised'[x] = {Plain(stored)[x]}
  BY <1>1, <1>2, PlainIs
<1>4. promised' \in [Sectors -> SUBSET Contents]
  BY <1>1, <1>3
<1>5. Plain(stored)[Table] \in {stored[Table].plain, Garbled}
  BY <1>2, PlainIs, Places DEF Decrypt
<1>6. \A v \in promised'[Table] : Counting(v)
  <2>1. Counting(stored[Table].plain) /\ Counting(Garbled)
    BY DEF IInv, DiscInv, Counting
  <2>2. Counting(Plain(stored)[Table])
    BY <1>5, <2>1
  <2> QED
    BY <1>3, <2>2, Places
<1>7. \A x \in Others : Plain(stored)[x] \in promised'[x]
  BY <1>3, Places
<1> QED
  BY <1>1, <1>4, <1>6, <1>7, EndsIs

-----------------------------------------------------------------------------
(* The theorems. *)

LEMMA InitIs ==
  ASSUME Init
  PROVE  IInv
<1>1. /\ cells = Image /\ stored = Image /\ pos = 0 /\ ctx = [sector |-> 0, iv |-> NoIv]
      /\ page = [i \in Pages |-> NoPage] /\ lastUse = [i \in Pages |-> 0]
      /\ call = Closed /\ free = 0 /\ promised = [x \in Sectors |-> {0}]
  BY DEF Init, DiscInit
<1>2. Image \in Files /\ (\A x \in Sectors : Plain(Image)[x] = 0) /\ NoIv \in Ivs
  BY ImageIs, IvValues
<1>3. 0 \in Contents /\ InfoSector(0) \in Values /\ Counting(0)
  BY ValuesAssumption, SectorValuesAssumption DEF Contents, InfoSector, Counting
<1>4. Image[Table].plain = 0
  BY Places, <1>2 DEF Image, Encrypt
<1>5. DiscInv
  <2>1. DiscTypeOK
    BY <1>1, <1>2, Places DEF DiscTypeOK, Files
  <2>2. InStep
    BY <1>1, BlockSectorsAssumption DEF InStep, StartsBlock
  <2>3. Behind(stored, cells, Others)
    BY <1>1, NothingBehind, Places
  <2> QED
    BY <1>1, <1>3, <1>4, <2>1, <2>2, <2>3 DEF DiscInv
<1>6. CacheInv
  <2>1. [x \in {} |-> 0] \in PageData
    <3>1. [x \in {} |-> 0] \in [{} -> Contents]
      OBVIOUS
    <3> QED
      BY <3>1, PageDataIs
  <2>2. \A i \in Pages : page[i].dirty = FALSE /\ DOMAIN page[i].data = {}
    BY <1>1 DEF NoPage
  <2>3. page \in [Pages -> [data : PageData, dirty : BOOLEAN]]
    BY <1>1, <2>1 DEF NoPage
  <2>4. OnePageEach /\ DirtyIsHeld /\ PagesAreGood
    BY <2>2 DEF OnePageEach, DirtyIsHeld, PagesAreGood, Held
  <2>5. promised \in [Sectors -> SUBSET Contents] /\ \A v \in promised[Table] : Counting(v)
    BY <1>1, <1>3, Places
  <2>6. FlushedIsKept
    BY <1>1, <1>2, Places DEF FlushedIsKept
  <2> QED
    BY <2>3, <2>4, <2>5, <2>6 DEF CacheInv
<1>7. UseInv
  BY <1>1, Places DEF UseInv
<1>8. CallInv
  BY <1>1, <1>3, NewCalls DEF CallInv, FlushedSoFar, Closed
<1> QED
  BY <1>5, <1>6, <1>7, <1>8 DEF IInv

LEMMA NextIs ==
  ASSUME IInv, [Next]_vars
  PROVE  IInv'
<1>1. CASE UNCHANGED vars
  <2>1. UNCHANGED discVars /\ page' = page /\ lastUse' = lastUse /\ call' = call /\ free' = free
        /\ promised' = promised
    BY <1>1 DEF vars, discVars
  <2>2. DiscInv' /\ cells' = cells
    BY <2>1, DiscKept DEF IInv
  <2>3. CacheInv' /\ UseInv'
    BY <2>1, <2>2, CacheKept, UseKept DEF IInv
  <2>4. CallInv'
    BY <2>1 DEF IInv, CallInv, FlushedSoFar, InfoSector, LastPageDirty, Held
  <2> QED
    BY <2>2, <2>3, <2>4 DEF IInv
<1>2. CASE Begin
  BY <1>2, BeginIs
<1>3. CASE \E i \in Pages : WriteBack(i) \/ Fetch(i)
  BY <1>3, WriteBackIs, FetchIs
<1>4. CASE \E s \in Used : Read(s)
  BY <1>4, ReadStepIs
<1>5. CASE \E w \in Writes : Write(w[1], w[2])
  BY <1>5, WriteStepIs
<1>6. CASE FlushPage \/ FlushNothing \/ FlushRefused \/ FlushDone
  BY <1>6, FlushPageIs, FlushNothingIs, FlushRefusedIs, FlushDoneIs
<1>7. CASE ReadBoot \/ ReadFSinfo \/ FreeClusterCount \/ CreateFSinfo
  BY <1>7, ReadBootIs, ReadFSinfoIs, FreeClusterCountIs, CreateFSinfoIs
<1>8. CASE UnmountReads \/ UnmountWrites \/ CloseDisc \/ Exit \/ Kill
  BY <1>8, UnmountReadsIs, UnmountWritesIs, CloseIs, KillIs
<1> QED
  BY <1>1, <1>2, <1>3, <1>4, <1>5, <1>6, <1>7, <1>8 DEF Next

(* The disc stays in step with disc.c, no sector is in two pages, clean    *)
(* pages are what the disc holds and dirty ones what was promised, the     *)
(* pages behind a flush are clean, and every count fits the FSInfo sector. *)
THEOREM VolumeInvariance == Spec => []IInv
<1>1. Init => IInv
  BY InitIs
<1>2. IInv /\ [Next]_vars => IInv'
  BY NextIs
<1> QED
  BY <1>1, <1>2, PTL DEF Spec

(* The position in the file, the vectors, the pages and the calls are of   *)
(* their kinds, and the pages were used one after the other.               *)
THEOREM VolumeTypes == Spec => []TypeOK
<1>1. IInv => TypeOK
  BY DEF IInv, DiscInv, CacheInv, UseInv, CallInv, TypeOK
<1> QED
  BY <1>1, VolumeInvariance, PTL

(* What a successful flush has written, or something newer, is what the    *)
(* file shows, through pages replaced, flushes given up, the FSInfo sector *)
(* written in the middle of a block, unmounting and kills.                 *)
THEOREM FlushedStays == Spec => []FlushedIsKept
<1>1. IInv => FlushedIsKept
  BY DEF IInv, CacheInv
<1> QED
  BY <1>1, VolumeInvariance, PTL

(* At any time, what a kill would lose is in no more sectors than fit in   *)
(* the buffer of the FILE.                                                 *)
THEOREM KillsLoseLittle == Spec => []KillLosesLittle
<1>1. IInv => KillLosesLittle
  <2> SUFFICES ASSUME IInv PROVE KillLosesLittle
    OBVIOUS
  <2> DEFINE D == {x \in Others : Plain(stored)[x] # Plain(cells)[x]}
             L == {x \in Others : Plain(stored)[x] \notin promised[x]}
  <2>1. cells \in Files /\ stored \in Files /\ Behind(stored, cells, Others)
    BY DEF IInv, DiscInv, DiscTypeOK, Files
  <2>2. IsFiniteSet(D) /\ Cardinality(D) <= BufferSectors
    BY <2>1, FewShow, Places
  <2>3. L \subseteq D
    BY DEF IInv, CacheInv, FlushedIsKept
  <2> HIDE DEF D, L
  <2>4. IsFiniteSet(L) /\ Cardinality(L) <= Cardinality(D)
    BY <2>2, <2>3, FS_Subset
  <2>5. Cardinality(L) \in Nat /\ Cardinality(D) \in Nat
    BY <2>2, <2>4, FS_CardinalityType
  <2>6. Cardinality(L) <= BufferSectors
    BY <2>2, <2>4, <2>5, BufferSectorsAssumption
  <2> QED
    BY <2>6 DEF KillLosesLittle, L
<1> QED
  BY <1>1, VolumeInvariance, PTL

(* Unmounting, which does not look at its flush, leaves writes behind only *)
(* if the last page of the image is dirty, which the disc refuses.         *)
THEOREM UnmountingKeeps == Spec => UnmountKeeps
<1>1. IInv /\ [Next]_vars =>
        [call = [op |-> "unmount", i |-> NumPages] /\ cells' = cells =>
           \/ LastPageDirty
           \/ \A x \in Others : Plain(cells')[x] = Logical[x]]_vars
  <2> SUFFICES ASSUME IInv, call = [op |-> "unmount", i |-> NumPages], cells' = cells,
                      ~LastPageDirty, NEW x \in Others
               PROVE  Plain(cells)[x] = Logical[x]
    OBVIOUS
  <2>1. \A j \in Pages : j < NumPages
    BY Places DEF Pages
  <2>2. \A j \in Pages : ~page[j].dirty
    BY <2>1 DEF IInv, CallInv, FlushedSoFar
  <2> QED
    BY <2>2, CleanIs DEF IInv
<1> QED
  BY <1>1, VolumeInvariance, PTL DEF Spec, UnmountKeeps
=============================================================================

------------------------------ MODULE EfsBlocks -----------------------------
(***************************************************************************)
(* The state of the encrypted disc image, and what the requests to it do:  *)
(* libefs/source/disc.c.  EfsDisc is the disc with those of the cache,     *)
(* EfsVolume a mounted volume on it.                                       *)
(*                                                                         *)
(* A block of BLOCK_SIZE_SEC sectors is one AES-CBC chain whose first      *)
(* initialization vector is made from the sector number.  A sector on the  *)
(* disc is what it was encrypted from, the vector it was encrypted with,   *)
(* and the tail that the next sector of its block is chained to.  It can   *)
(* be read if the vector at hand is the one it was encrypted with, and     *)
(* otherwise its first 16 bytes come out wrong: it reads as Garbled.  The  *)
(* cipher is ideal: different sectors or vectors give different tails.     *)
(*                                                                         *)
(* The disc keeps the sector that its AES context is ready for and does    *)
(* not seek when the next request starts there.  The C library's FILE      *)
(* keeps the last sectors written in a buffer until it is positioned,      *)
(* read from or closed; switching from reads to writes works as in glibc.  *)
(* Requests stay within a block, as all those of the library do.           *)
(***************************************************************************)
EXTENDS Integers, FiniteSets, Sequences

CONSTANTS
  BlockSectors,   (* BLOCK_SIZE_SEC                                        *)
  Size,           (* the size of the file in sectors                       *)
  Values,         (* what callers write to a sector                        *)
  Garbled,        (* a sector of which a part is lost                      *)
  BufferSectors   (* the sectors that a FILE's buffer holds                *)

ASSUME BlockSectorsAssumption == BlockSectors \in Nat /\ BlockSectors >= 1
ASSUME SizeAssumption == Size \in Nat /\ Size >= 1
ASSUME BufferSectorsAssumption == BufferSectors \in Nat
ASSUME ValuesAssumption == 0 \in Values /\ Garbled \notin Values

Sectors == 0 .. Size - 1
Contents == Values \cup {Garbled}

VARIABLES
  cells,   (* the file as the program sees it                              *)
  stored,  (* the file without the buffer of the FILE                      *)
  pos,     (* the position in the file, in sectors                         *)
  ctx      (* disc->sector and the vector in disc->aes                     *)

discVars == <<cells, stored, pos, ctx>>

-----------------------------------------------------------------------------
(* Chains. *)

StartsBlock(s) == s % BlockSectors = 0

(* A vector stands for the vector a block began with and all that was      *)
(* encrypted since.  This is the one for the first sector of a block.      *)
Ivs == [blob : Sectors \cup {-1}, texts : Seq(Contents)]
blobEncodeIv(s) == [blob |-> s, texts |-> <<>>]
NoIv == [blob |-> -1, texts |-> <<>>]

(* The vector after the first k of the sectors new[0], new[1], ... *)
Past(iv, new, k) == [blob |-> iv.blob, texts |-> iv.texts \o [j \in 1 .. k |-> new[j - 1]]]

(* The sector a encrypted with the vector iv. *)
Cells == [plain : Contents, iv : Ivs, tail : Ivs]
Encrypt(a, iv) ==
  [plain |-> a, iv |-> iv, tail |-> [blob |-> iv.blob, texts |-> Append(iv.texts, a)]]

(* What decrypting a sector of the disc with the vector iv gives. *)
Decrypt(c, iv) == IF c.iv = iv THEN c.plain ELSE Garbled

(* The vector that sector s of a file is to be decrypted with. *)
IvIn(file, s) == IF StartsBlock(s) THEN blobEncodeIv(s) ELSE file[s - 1].tail

(* What the file holds. *)
Plain(file) == [s \in Sectors |-> Decrypt(file[s], IvIn(file, s))]

(* The sectors new[0], new[1], ... encrypted for sector s onwards, in one  *)
(* block, the first of them with the vector iv.                            *)
Chain(s, new, iv) ==
  LET first == IF StartsBlock(s) THEN blobEncodeIv(s) ELSE iv IN
  [k \in DOMAIN new |-> Encrypt(new[k], Past(first, new, k))]

-----------------------------------------------------------------------------
(* The requests: numSectors sectors from sector on. *)

(* Whether the file is positioned, and where it is and the vector then.    *)
(* The context is believed to be ready for disc->sector.                   *)
Seeks_OnlyAtBlocks(s) == StartsBlock(s)       (* mistakes: half of the test *)
Seeks_OnlyAfterOther(s) == s # ctx.sector
Seeks(s) == StartsBlock(s) \/ s # ctx.sector
At(s) == IF Seeks(s) THEN s ELSE pos
IvAt(s) == IF Seeks(s) THEN IvIn(cells, s) ELSE ctx.iv

(* What a read of n sectors from s on gives. *)
Data(s, n) ==
  LET iv(x) == IF x = s THEN IvAt(s) ELSE cells[At(s) + x - s - 1].tail
  IN  [x \in s .. s + n - 1 |-> Decrypt(cells[At(s) + x - s], iv(x))]

(* A mistake: disc->sector is advanced twice. *)
ReadsOn_AdvancesTwice(s, n) ==
  /\ At(s) + n <= Size
  /\ ctx' = [sector |-> s + n + n, iv |-> cells[At(s) + n - 1].tail]
  /\ pos' = At(s) + n
  /\ stored' = cells
  /\ UNCHANGED cells

(* Whatever was in the buffer of the FILE is written first. *)
ReadsOn(s, n) ==
  /\ At(s) + n <= Size
  /\ ctx' = [sector |-> s + n, iv |-> cells[At(s) + n - 1].tail]
  /\ pos' = At(s) + n
  /\ stored' = cells
  /\ UNCHANGED cells

(* The file with the first m sectors of the run starting at p replaced. *)
Replaced(file, p, run, m) ==
  [x \in Sectors |-> IF x \in p .. p + m - 1 THEN run[x - p] ELSE file[x]]

(* The write would reach the size of the file, or pass it. *)
NeedsExtending(s, n) == s + n >= Size

(* A write whose first sector is encrypted with iv.  The last sectors may  *)
(* still be in the buffer.                                                 *)
WritesOn(s, n, new, iv) ==
  LET p == At(s)
      run == Chain(s, new, iv)
  IN
  /\ p + n <= Size
  /\ ~NeedsExtending(s, n)
  /\ cells' = Replaced(cells, p, run, n)
  /\ \E m \in 0 .. n : n - m <= BufferSectors /\ stored' = Replaced(cells, p, run, m)
  /\ pos' = p + n
  /\ ctx' = [sector |-> s + n, iv |-> run[n - 1].tail]

(* fat_efs_disc_destroy or exit, which close the file, and                 *)
(* fat_efs_disc_create.                                                    *)
Reopened(file) ==
  /\ cells' = file
  /\ stored' = file
  /\ pos' = 0
  /\ ctx' = [sector |-> 0, iv |-> NoIv]

(* An image all of whose sectors can be read. *)
Image ==
  [s \in Sectors |->
     Encrypt(0, Past(blobEncodeIv(s - (s % BlockSectors)),
                     [k \in 0 .. BlockSectors - 1 |-> 0], s % BlockSectors))]

DiscInit ==
  /\ cells = Image
  /\ stored = Image
  /\ pos = 0
  /\ ctx = [sector |-> 0, iv |-> NoIv]

(* The kinds of values, and that the position stays within the file. *)
DiscTypeOK ==
  /\ cells \in [Sectors -> Cells] /\ stored \in [Sectors -> Cells]
  /\ pos \in 0 .. Size
  /\ ctx \in [sector : 0 .. Size, iv : Ivs]
=============================================================================

---------------------------- MODULE UpdateProofs ----------------------------
(***************************************************************************)
(* What goes wrong in an update reaches only what builds on it, for every  *)
(* archive, any number of faults and of kills at any time.                 *)
(*                                                                         *)
(* The argument: an entry that is not affected gets its older files from   *)
(* entries that are not, so that it is made rightly if what these made is  *)
(* still there when it is read.  That can be lost only when the output of  *)
(* an entry is one of its older files, and the program is killed after it  *)
(* has been opened; such an entry counts as failed.                        *)
(***************************************************************************)
EXTENDS Update, FiniteSetTheorems, WellFoundedInduction, TLAPS

(* What there can be on the disk. *)
Files == [by : -1 .. Len(Archive), pieces : Nat, right : BOOLEAN]

TypeOK ==
  /\ disk \in [Names -> Files]
  /\ pc \in {"off", "open", "patch"}
  /\ i \in 1 .. Len(Archive) + 1
  /\ expdata \in Seq(Files) /\ written \in Nat
  /\ failed \subseteq Entries
  /\ i \in Entries => Len(expdata) <= Len(Archive[i].inputs)
  /\ pc # "patch" => written = 0

(* While an entry is patched its output is open, and has been emptied.     *)
Patching ==
  pc = "patch" =>
    /\ i \in Entries /\ ~ Directory(i) /\ AllRead
    /\ written <= Archive[i].pieces
    /\ \E right \in BOOLEAN : /\ disk[Archive[i].out] = File(i, 0, right)
                              /\ i \notin Affected => right

(* The files that no affected entry has made are right, but for the output *)
(* of the current entry,                                                   *)
OthersRight ==
  \A n \in Names :
    (Maker(n, i) \notin Affected /\ ~ (i \in Entries /\ ~ Directory(i) /\ Archive[i].out = n)) =>
      disk[n] = Expected(n, i)

(* which is still right, if it is also an older file, until it is opened;  *)
OwnRight ==
  (i \in Entries /\ i \notin Affected /\ pc # "patch") =>
    \A m \in DOMAIN Archive[i].inputs :
      Archive[i].inputs[m] = Archive[i].out => disk[Archive[i].out] = Expected(Archive[i].out, i)

(* and so is what has been read.                                           *)
ReadRight == (i \in Entries /\ i \notin Affected) => Right

IInv == TypeOK /\ Patching /\ OthersRight /\ OwnRight /\ ReadRight

-----------------------------------------------------------------------------
(* The makers of files. *)

(* Every nonempty set of numbers has a least element. *)
LEMMA LeastExists ==
  ASSUME NEW S \in SUBSET Nat, S # {}
  PROVE  \E m \in S : \A n \in S : m <= n
<1> DEFINE T == {0 .. n : n \in S}
<1>1. IsWellFoundedOn(StrictSubsetOrdering(Nat), FiniteSubsetsOf(Nat))
  BY FS_StrictSubsetOrderingWellFounded
<1>2. T \subseteq FiniteSubsetsOf(Nat) /\ T # {}
  <2>1. \A n \in S : IsFiniteSet(0 .. n) /\ 0 .. n \in SUBSET Nat
    BY FS_Interval
  <2> QED
    BY <2>1 DEF FiniteSubsetsOf
<1>3. PICK x \in T : \A y \in T : ~(<<y, x>> \in StrictSubsetOrdering(Nat))
  <2> HIDE DEF T
  <2> QED
    BY <1>1, <1>2, WFMin
<1>4. PICK m \in S : x = 0 .. m
  OBVIOUS
<1>5. ASSUME NEW n \in S
      PROVE  m <= n
  <2>1. <<0 .. n, 0 .. m>> \notin StrictSubsetOrdering(Nat)
    BY <1>3, <1>4
  <2>2. 0 .. n \subseteq Nat /\ 0 .. m \subseteq Nat
    OBVIOUS
  <2>3. CASE n < m
    <3>1. 0 .. n \subseteq 0 .. m /\ m \in 0 .. m /\ m \notin 0 .. n
      BY <2>3
    <3> QED
      BY <2>1, <2>2, <3>1 DEF StrictSubsetOrdering
  <2> QED
    BY <2>3
<1> QED
  BY <1>4, <1>5

LEMMA EntryIs ==
  ASSUME NEW k \in Entries
  PROVE  /\ k \in Nat /\ k >= 1 /\ k <= Len(Archive) /\ Len(Archive) \in Nat
         /\ Archive[k].out \in Names
         /\ Archive[k].inputs \in Seq(Names)
         /\ Archive[k].pieces \in Nat
         /\ DOMAIN Archive[k].inputs = 1 .. Len(Archive[k].inputs)
         /\ Len(Archive[k].inputs) \in Nat
<1>1. Len(Archive) \in Nat /\ Archive[k] \in [out : Names, inputs : Seq(Names), pieces : Nat]
  <2> DEFINE R == [out : Names, inputs : Seq(Names), pieces : Nat]
  <2>1. Archive \in Seq(R)
    BY ArchiveAssumption
  <2> HIDE DEF R
  <2>2. Len(Archive) \in Nat /\ Archive[k] \in R
    BY <2>1 DEF Entries
  <2> QED
    BY <2>2 DEF R
<1> QED
  BY <1>1 DEF Entries

(* The entries before k that make n, and 0 for none. *)
Candidates(n, k) == {0} \cup {j \in 1 .. k - 1 : ~ Directory(j) /\ Archive[j].out = n}

IsLast(j, n, k) ==
  j \in Candidates(n, k) /\ \A h \in j + 1 .. k - 1 : Directory(h) \/ Archive[h].out # n

LEMMA LastExists ==
  ASSUME NEW n, NEW k \in Nat, k >= 1
  PROVE  \E j \in Candidates(n, k) : IsLast(j, n, k)
<1> DEFINE D == {d \in Nat : k - d \in Candidates(n, k)}
<1>1. k \in D
  BY DEF Candidates
<1>2. PICK d \in D : \A e \in D : d <= e
  BY <1>1, LeastExists
<1>3. d \in Nat /\ k - d \in Candidates(n, k)
  BY <1>2
<1>4. ASSUME NEW h \in (k - d) + 1 .. k - 1, ~ Directory(h), Archive[h].out = n
      PROVE  FALSE
  <2>1. k - d \in Nat
    BY <1>3 DEF Candidates
  <2>2. h \in 1 .. k - 1 /\ k - h \in Nat /\ k - (k - h) = h /\ k - h < d
    BY <1>3, <2>1
  <2>3. h \in Candidates(n, k)
    BY <1>4, <2>2 DEF Candidates
  <2>4. k - h \in D
    BY <2>2, <2>3
  <2> QED
    BY <1>2, <1>3, <2>2, <2>4
<1> QED
  BY <1>3, <1>4 DEF IsLast

LEMMA LastIsOne ==
  ASSUME NEW n, NEW k \in Nat, NEW a, NEW b, IsLast(a, n, k), IsLast(b, n, k)
  PROVE  a = b
<1>1. ASSUME NEW x, NEW y, IsLast(x, n, k), IsLast(y, n, k)
      PROVE  ~ x < y
  <2>1. x \in Nat /\ y \in Nat
    BY <1>1 DEF IsLast, Candidates
  <2>2. CASE x < y
    <3>1. y \in 1 .. k - 1 /\ ~ Directory(y) /\ Archive[y].out = n
      BY <1>1, <2>1, <2>2 DEF IsLast, Candidates
    <3>2. y \in x + 1 .. k - 1
      BY <2>1, <2>2, <3>1
    <3> QED
      BY <1>1, <3>1, <3>2 DEF IsLast
  <2> QED
    BY <2>2
<1>2. a \in Nat /\ b \in Nat
  BY DEF IsLast, Candidates
<1> QED
  BY <1>1, <1>2

LEMMA MakerIs ==
  ASSUME NEW n, NEW k \in Nat, k >= 1
  PROVE  /\ IsLast(Maker(n, k), n, k)
         /\ \A j : IsLast(j, n, k) => j = Maker(n, k)
<1>1. Maker(n, k) = CHOOSE j \in Candidates(n, k) : IsLast(j, n, k)
  BY DEF Maker, Candidates, IsLast
<1>2. IsLast(Maker(n, k), n, k)
  BY <1>1, LastExists
<1> QED
  BY <1>2, LastIsOne

(* Past an entry the maker is this entry, for its output, or who it was. *)
LEMMA MakerNext ==
  ASSUME NEW n, NEW k \in Entries
  PROVE  Maker(n, k + 1) = IF ~ Directory(k) /\ Archive[k].out = n THEN k ELSE Maker(n, k)
<1>1. k \in Nat /\ k >= 1 /\ k + 1 \in Nat /\ k + 1 >= 1 /\ (k + 1) - 1 = k
  BY EntryIs
<1>2. CASE ~ Directory(k) /\ Archive[k].out = n
  <2>1. IsLast(k, n, k + 1)
    BY <1>1, <1>2 DEF IsLast, Candidates
  <2> QED
    BY <1>1, <1>2, <2>1, MakerIs
<1>3. CASE Directory(k) \/ Archive[k].out # n
  <2>1. IsLast(Maker(n, k), n, k)
    BY <1>1, MakerIs
  <2> DEFINE j == Maker(n, k)
  <2>2. j \in Candidates(n, k) /\ \A h \in j + 1 .. k - 1 : Directory(h) \/ Archive[h].out # n
    BY <2>1 DEF IsLast
  <2> HIDE DEF j
  <2>3. j \in Nat /\ j \in Candidates(n, k + 1)
    BY <1>1, <2>2 DEF Candidates
  <2>4. \A h \in j + 1 .. k : h \in j + 1 .. k - 1 \/ h = k
    BY <1>1, <2>3
  <2>5. IsLast(j, n, k + 1)
    BY <1>1, <1>3, <2>2, <2>3, <2>4 DEF IsLast
  <2>6. j = Maker(n, k + 1)
    BY <1>1, <2>5, MakerIs
  <2> QED
    BY <1>3, <2>6 DEF j
<1> QED
  BY <1>2, <1>3

LEMMA FirstMaker ==
  ASSUME NEW n
  PROVE  Maker(n, 1) = 0
<1>1. IsLast(0, n, 1)
  BY DEF IsLast, Candidates
<1> QED
  BY <1>1, MakerIs

-----------------------------------------------------------------------------
(* The affected entries. *)

AffectedBy(F) ==
  {k \in Entries : \A S \in SUBSET Entries : F \subseteq S /\ ClosedUnder(S) => k \in S}

LEMMA AffectedIs == Affected = AffectedBy(failed) /\ Affected' = AffectedBy(failed')
BY DEF Affected, AffectedBy

LEMMA AffectedContains ==
  ASSUME NEW F \in SUBSET Entries
  PROVE  AffectedBy(F) \subseteq Entries /\ F \subseteq AffectedBy(F)
BY DEF AffectedBy

LEMMA AffectedGrows ==
  ASSUME NEW F, NEW G, F \subseteq G
  PROVE  AffectedBy(F) \subseteq AffectedBy(G)
BY DEF AffectedBy

(* An entry that is not affected builds on none that is. *)
LEMMA NoneBehind ==
  ASSUME NEW F, NEW k \in Entries, k \notin AffectedBy(F),
         NEW m \in DOMAIN Archive[k].inputs
  PROVE  Maker(Archive[k].inputs[m], k) \notin AffectedBy(F)
<1> DEFINE j == Maker(Archive[k].inputs[m], k)
<1>1. j \in Makers[k]
  BY DEF Makers
<1> HIDE DEF j
<1>2. PICK S \in SUBSET Entries : F \subseteq S /\ ClosedUnder(S) /\ k \notin S
  BY DEF AffectedBy
<1>3. j \notin S
  BY <1>1, <1>2 DEF ClosedUnder
<1>4. j \notin AffectedBy(F)
  BY <1>2, <1>3 DEF AffectedBy
<1> QED
  BY <1>4 DEF j

-----------------------------------------------------------------------------
(* The steps. *)

LEMMA FileIs ==
  /\ Old \in Files /\ Absent \in Files
  /\ \A n : Original(n) \in Files
  /\ \A k \in Entries, p \in Nat, right \in BOOLEAN : File(k, p, right) \in Files
<1>1. Len(Archive) \in Nat
  <2> DEFINE R == [out : Names, inputs : Seq(Names), pieces : Nat]
  <2>1. Archive \in Seq(R)
    BY ArchiveAssumption
  <2> HIDE DEF R
  <2> QED
    BY <2>1
<1>2. Old \in Files /\ Absent \in Files
  BY <1>1 DEF Old, Absent, File, Files
<1>3. \A k \in Entries, p \in Nat, right \in BOOLEAN : File(k, p, right) \in Files
  BY <1>1 DEF File, Files, Entries
<1> QED
  BY <1>2, <1>3 DEF Original

LEMMA InitIs ==
  ASSUME Init
  PROVE  IInv
<1>1. TypeOK
  <2>1. disk \in [Names -> Files]
    BY FileIs DEF Init
  <2>2. i \in 1 .. Len(Archive) + 1 /\ (i \in Entries => 0 <= Len(Archive[i].inputs))
    BY EntryIs DEF Init, Entries
  <2> QED
    BY <2>1, <2>2 DEF Init, TypeOK
<1>2. OthersRight
  BY FirstMaker DEF Init, OthersRight, Expected
<1>3. OwnRight
  <2> SUFFICES ASSUME i \in Entries
               PROVE  disk[Archive[i].out] = Expected(Archive[i].out, i)
    BY DEF OwnRight
  <2>1. Archive[i].out \in Names
    BY EntryIs
  <2> QED
    BY <2>1, FirstMaker DEF Init, Expected
<1>4. Patching /\ ReadRight
  BY DEF Init, Patching, ReadRight, Right
<1> QED
  BY <1>1, <1>2, <1>3, <1>4 DEF IInv

(* The entry is done, or given up: its output is right, or it is affected, *)
(* and the other files are what they were.                                 *)
LEMMA AdvanceIs ==
  ASSUME IInv, i \in Entries, Advance,
         failed \subseteq failed', failed' \subseteq Entries,
         disk' \in [Names -> Files],
         \A n \in Names : n # Archive[i].out \/ Directory(i) => disk'[n] = disk[n],
         ~ Directory(i) /\ i \notin Affected' => disk'[Archive[i].out] = Whole(i)
  PROVE  IInv'
<1>1. /\ i \in Nat /\ i >= 1 /\ i <= Len(Archive) /\ Len(Archive) \in Nat
      /\ i' = i + 1 /\ pc' = "open" /\ expdata' = <<>> /\ written' = 0
  BY EntryIs DEF Advance
<1>2. Affected \subseteq Affected'
  BY AffectedIs, AffectedGrows
<1>3. ASSUME NEW n \in Names, Maker(n, i + 1) \notin Affected'
      PROVE  disk'[n] = Expected(n, i + 1)
  <2>1. CASE ~ Directory(i) /\ Archive[i].out = n
    <3>1. Maker(n, i + 1) = i
      BY <2>1, MakerNext
    <3>2. i # 0 /\ disk'[n] = Whole(i)
      BY <1>1, <1>3, <2>1, <3>1
    <3> QED
      BY <3>1, <3>2 DEF Expected
  <2>2. CASE Directory(i) \/ Archive[i].out # n
    <3>1. Maker(n, i + 1) = Maker(n, i)
      BY <2>2, MakerNext
    <3>2. disk[n] = Expected(n, i)
      BY <1>2, <1>3, <2>2, <3>1 DEF IInv, OthersRight
    <3> QED
      BY <2>2, <3>1, <3>2 DEF Expected
  <2> QED
    BY <2>1, <2>2
<1>4. TypeOK'
  <2>1. i' \in 1 .. Len(Archive) + 1
    BY <1>1
  <2>2. i' \in Entries => 0 <= Len(Archive[i'].inputs)
    BY EntryIs
  <2> QED
    BY <1>1, <2>1, <2>2 DEF TypeOK
<1>5. OthersRight'
  BY <1>1, <1>3 DEF OthersRight
<1>6. OwnRight'
  <2> SUFFICES ASSUME i' \in Entries, i' \notin Affected', NEW m \in DOMAIN Archive[i'].inputs,
                      Archive[i'].inputs[m] = Archive[i'].out
               PROVE  disk'[Archive[i'].out] = Expected(Archive[i'].out, i')
    BY DEF OwnRight
  <2>1. Maker(Archive[i'].inputs[m], i') \notin Affected'
    BY AffectedIs, NoneBehind
  <2>2. Archive[i'].out \in Names
    BY EntryIs
  <2> QED
    BY <1>1, <1>3, <2>1, <2>2
<1>7. Patching' /\ ReadRight'
  BY <1>1 DEF Patching, ReadRight, Right
<1> QED
  BY <1>4, <1>5, <1>6, <1>7 DEF IInv

LEMMA SkipIs ==
  ASSUME IInv, i \in Entries, Skip, pc # "patch", UNCHANGED disk
  PROVE  IInv'
<1>1. failed \subseteq failed' /\ failed' \subseteq Entries /\ i \in failed'
  BY DEF Skip, IInv, TypeOK
<1>2. i \in Affected'
  BY <1>1, AffectedIs, AffectedContains
<1> QED
  BY <1>1, <1>2, AdvanceIs DEF Skip, IInv, TypeOK

LEMMA StartIs ==
  ASSUME IInv, Start
  PROVE  IInv'
<1>1. UNCHANGED <<disk, i, expdata, written, failed>> /\ pc # "patch" /\ pc' = "open"
  BY DEF Start
<1>2. Affected' = Affected
  BY <1>1 DEF Affected
<1> QED
  BY <1>1, <1>2 DEF IInv, TypeOK, Patching, OthersRight, OwnRight, ReadRight, Right

(* An older file is read, and is the right one if the entry is not         *)
(* affected: who made it is not.                                           *)
LEMMA ReadIs ==
  ASSUME IInv, i \in Entries, pc = "open", Len(expdata) < Len(Archive[i].inputs),
         expdata' = Append(expdata, disk[Archive[i].inputs[Len(expdata) + 1]]),
         UNCHANGED <<disk, pc, i, written, failed>>
  PROVE  IInv'
<1> DEFINE m == Len(expdata) + 1
           n == Archive[i].inputs[m]
<1>1. /\ m \in DOMAIN Archive[i].inputs /\ n \in Names /\ disk[n] \in Files
      /\ expdata \in Seq(Files) /\ m \in Nat /\ m >= 1
  BY EntryIs DEF IInv, TypeOK
<1>2. Affected' = Affected
  BY AffectedIs
<1>3. /\ expdata' \in Seq(Files) /\ Len(expdata') = m
      /\ DOMAIN expdata = 1 .. m - 1 /\ DOMAIN expdata' = 1 .. m
      /\ \A x \in 1 .. m - 1 : expdata'[x] = expdata[x]
      /\ expdata'[m] = disk[n]
  BY <1>1
<1>4. i \notin Affected => disk[n] = Expected(n, i)
  <2> SUFFICES ASSUME i \notin Affected
               PROVE  disk[n] = Expected(n, i)
    OBVIOUS
  <2>1. Maker(n, i) \notin Affected
    BY <1>1, AffectedIs, NoneBehind
  <2>2. CASE n = Archive[i].out
    BY <1>1, <2>2 DEF IInv, OwnRight
  <2>3. CASE n # Archive[i].out
    BY <1>1, <2>1, <2>3 DEF IInv, OthersRight
  <2> QED
    BY <2>2, <2>3
<1>5. m <= Len(Archive[i].inputs)
  BY <1>1, EntryIs
<1> HIDE DEF m, n
<1>6. TypeOK'
  BY <1>3, <1>5 DEF IInv, TypeOK
<1>7. ReadRight'
  <2> SUFFICES ASSUME i \notin Affected, NEW x \in DOMAIN expdata'
               PROVE  expdata'[x] = Expected(Archive[i].inputs[x], i)
    BY <1>2 DEF ReadRight, Right
  <2>1. x \in 1 .. m - 1 \/ x = m
    BY <1>1, <1>3
  <2>2. CASE x \in 1 .. m - 1
    BY <1>3, <2>2 DEF IInv, ReadRight, Right
  <2>3. CASE x = m
    BY <1>3, <1>4, <2>3 DEF n
  <2> QED
    BY <2>1, <2>2, <2>3
<1>8. Patching' /\ OthersRight' /\ OwnRight'
  BY <1>2 DEF IInv, Patching, OthersRight, OwnRight
<1> QED
  BY <1>6, <1>7, <1>8 DEF IInv

LEMMA OpenExpFileIs ==
  ASSUME IInv, OpenExpFile
  PROVE  IInv'
<1>1. i \in Entries /\ pc = "open" /\ UNCHANGED disk
  BY DEF OpenExpFile, Entries, IInv, TypeOK
<1>2. CASE Skip
  BY <1>1, <1>2, SkipIs
<1>3. CASE ~ Skip
  BY <1>1, <1>3, ReadIs DEF OpenExpFile
<1> QED
  BY <1>2, <1>3

LEMMA CreateDirectoryIs ==
  ASSUME IInv, CreateDirectory
  PROVE  IInv'
<1>1. i \in Entries /\ Directory(i) /\ Advance /\ UNCHANGED <<disk, failed>>
  BY DEF CreateDirectory, Entries, IInv, TypeOK
<1> QED
  BY <1>1, AdvanceIs DEF IInv, TypeOK

(* When the output is emptied, everything has been read. *)
LEMMA OutputOpened ==
  ASSUME IInv, i \in Entries, pc = "open", AllRead, ~ Directory(i),
         disk' = [disk EXCEPT ![Archive[i].out] = File(i, 0, Right)],
         pc' = "patch",
         UNCHANGED <<i, expdata, written, failed>>
  PROVE  IInv'
<1>1. Archive[i].out \in Names /\ Right \in BOOLEAN /\ Archive[i].pieces \in Nat
  BY EntryIs DEF Right
<1>2. Affected' = Affected
  BY AffectedIs
<1>3. File(i, 0, Right) \in Files
  BY <1>1, FileIs
<1>4. /\ disk' \in [Names -> Files]
      /\ disk'[Archive[i].out] = File(i, 0, Right)
      /\ \A n \in Names : n # Archive[i].out => disk'[n] = disk[n]
  BY <1>1, <1>3 DEF IInv, TypeOK
<1>5. TypeOK'
  BY <1>4 DEF IInv, TypeOK
<1>6. Patching'
  <2>1. written = 0
    BY DEF IInv, TypeOK
  <2>2. i \notin Affected => Right
    BY DEF IInv, ReadRight
  <2>3. AllRead'
    BY DEF AllRead
  <2> QED
    BY <1>1, <1>2, <1>4, <2>2, <2>3, <2>1 DEF Patching
<1>7. OthersRight'
  BY <1>2, <1>4 DEF IInv, OthersRight
<1>8. OwnRight'
  BY DEF OwnRight
<1>9. ReadRight'
  BY <1>2 DEF IInv, ReadRight, Right
<1> QED
  BY <1>5, <1>6, <1>7, <1>8, <1>9 DEF IInv

LEMMA OpenOutputIs ==
  ASSUME IInv, OpenOutput
  PROVE  IInv'
<1>1. i \in Entries /\ pc = "open" /\ AllRead /\ ~ Directory(i)
  BY DEF OpenOutput, Entries, IInv, TypeOK
<1>2. CASE Skip /\ UNCHANGED disk
  BY <1>1, <1>2, SkipIs
<1>3. CASE ~ (Skip /\ UNCHANGED disk)
  BY <1>1, <1>3, OutputOpened DEF OpenOutput
<1> QED
  BY <1>2, <1>3

LEMMA WriteIs ==
  ASSUME IInv, Write
  PROVE  IInv'
<1>1. /\ pc = "patch" /\ i \in Entries /\ written' = written + 1
      /\ written \in Nat /\ Archive[i].pieces \in Nat /\ written < Archive[i].pieces
      /\ UNCHANGED <<disk, pc, i, expdata, failed>>
  BY EntryIs DEF Write, IInv, TypeOK, Patching
<1>2. Affected' = Affected
  BY <1>1, AffectedIs
<1>3. written' \in Nat /\ written' <= Archive[i].pieces
  BY <1>1
<1>4. TypeOK'
  BY <1>1, <1>3 DEF IInv, TypeOK
<1>5. Patching'
  BY <1>1, <1>2, <1>3 DEF IInv, Patching, AllRead
<1>6. OthersRight' /\ OwnRight' /\ ReadRight'
  BY <1>1, <1>2 DEF IInv, OthersRight, OwnRight, ReadRight, Right
<1> QED
  BY <1>4, <1>5, <1>6 DEF IInv

(* What reaches the disk of an output. *)
LEMMA StoredIs ==
  ASSUME IInv, pc = "patch", NEW n \in Nat
  PROVE  /\ Stored(n) \in [Names -> Files]
         /\ \A x \in Names : x # Archive[i].out => Stored(n)[x] = disk[x]
         /\ i \notin Affected => Stored(n)[Archive[i].out] = File(i, n, TRUE)
<1> DEFINE o == Archive[i].out
<1>1. PICK right \in BOOLEAN : disk[o] = File(i, 0, right) /\ (i \notin Affected => right)
  BY DEF IInv, Patching
<1>2. i \in Entries /\ o \in Names /\ disk \in [Names -> Files]
  BY EntryIs DEF IInv, Patching, TypeOK
<1>3. Stored(n) = [disk EXCEPT ![o] = [disk[o] EXCEPT !.pieces = n]]
  BY DEF Stored
<1>4. [disk[o] EXCEPT !.pieces = n] = File(i, n, right)
  BY <1>1 DEF File
<1>5. File(i, n, right) \in Files
  BY <1>2, FileIs
<1> HIDE DEF o
<1>6. /\ Stored(n) \in [Names -> Files] /\ Stored(n)[o] = File(i, n, right)
      /\ \A x \in Names : x # o => Stored(n)[x] = disk[x]
  BY <1>2, <1>3, <1>4, <1>5
<1>7. i \notin Affected => right = TRUE
  BY <1>1
<1> QED
  BY <1>6, <1>7 DEF o

LEMMA CloseIs ==
  ASSUME IInv, Close
  PROVE  IInv'
<1>1. /\ pc = "patch" /\ i \in Entries /\ ~ Directory(i) /\ Advance
      /\ written = Archive[i].pieces /\ written \in Nat
      /\ failed \subseteq Entries
  BY DEF Close, IInv, TypeOK, Patching
<1>2. PICK n \in Nat : /\ disk' = Stored(n) /\ failed \subseteq failed'
                       /\ failed' \subseteq Entries
                       /\ n = written \/ i \in failed'
  <2>1. CASE disk' = Stored(written) /\ UNCHANGED failed
    BY <1>1, <2>1
  <2>2. CASE failed' = failed \cup {i} /\ \E n \in 0 .. written - 1 : disk' = Stored(n)
    BY <1>1, <2>2
  <2> QED
    BY <2>1, <2>2 DEF Close
<1>3. /\ Stored(n) \in [Names -> Files]
      /\ \A x \in Names : x # Archive[i].out => Stored(n)[x] = disk[x]
      /\ i \notin Affected => Stored(n)[Archive[i].out] = File(i, n, TRUE)
  BY <1>1, StoredIs
<1>4. Affected \subseteq Affected' /\ failed' \subseteq Affected'
  BY <1>2, AffectedIs, AffectedGrows, AffectedContains
<1>5. i \notin Affected' => disk'[Archive[i].out] = Whole(i)
  BY <1>1, <1>2, <1>3, <1>4 DEF Whole
<1> QED
  BY <1>1, <1>2, <1>3, <1>5, AdvanceIs

LEMMA ReturnIs ==
  ASSUME IInv, Return
  PROVE  IInv'
<1>1. UNCHANGED <<disk, i, expdata, written, failed>> /\ pc = "open" /\ pc' = "off"
  BY DEF Return
<1>2. Affected' = Affected
  BY <1>1, AffectedIs
<1> QED
  BY <1>1, <1>2 DEF IInv, TypeOK, Patching, OthersRight, OwnRight, ReadRight, Right

(* A kill can spoil the output, which the entry, if that was none of its   *)
(* older files, makes anew when the program is run again.                  *)
LEMMA KillIs ==
  ASSUME IInv, Kill
  PROVE  IInv'
<1>1. /\ i \in Entries /\ pc' = "off" /\ expdata' = <<>> /\ written' = 0 /\ i' = i
      /\ failed \subseteq Entries
  BY DEF Kill, Entries, IInv, TypeOK
<1>2. failed \subseteq failed' /\ failed' \subseteq Entries
  BY <1>1 DEF Kill
<1>3. Affected \subseteq Affected' /\ failed' \subseteq Affected'
  BY <1>2, AffectedIs, AffectedGrows, AffectedContains
<1>4. /\ disk' \in [Names -> Files]
      /\ \A x \in Names : (x = Archive[i].out => pc # "patch") => disk'[x] = disk[x]
  <2>1. CASE pc = "patch"
    <3>1. PICK n \in 0 .. written : disk' = Stored(n)
      BY <2>1 DEF Kill
    <3>2. n \in Nat
      BY DEF IInv, TypeOK
    <3> QED
      BY <2>1, <3>1, <3>2, StoredIs
  <2>2. CASE pc # "patch"
    BY <2>2 DEF Kill, IInv, TypeOK
  <2> QED
    BY <2>1, <2>2
<1>5. TypeOK'
  <2>1. 0 <= Len(Archive[i].inputs)
    BY <1>1, EntryIs
  <2> QED
    BY <1>1, <1>2, <1>4, <2>1 DEF IInv, TypeOK
<1>6. OthersRight'
  <2> SUFFICES ASSUME NEW n \in Names, Maker(n, i) \notin Affected',
                      ~ (i \in Entries /\ ~ Directory(i) /\ Archive[i].out = n)
               PROVE  disk'[n] = Expected(n, i)
    BY <1>1 DEF OthersRight
  <2>1. disk[n] = Expected(n, i)
    BY <1>3 DEF IInv, OthersRight
  <2>2. n = Archive[i].out => pc # "patch"
    BY <1>1 DEF IInv, Patching
  <2> QED
    BY <1>4, <2>1, <2>2
<1>7. OwnRight'
  <2> SUFFICES ASSUME i \notin Affected', NEW m \in DOMAIN Archive[i].inputs,
                      Archive[i].inputs[m] = Archive[i].out
               PROVE  disk'[Archive[i].out] = Expected(Archive[i].out, i)
    BY <1>1 DEF OwnRight
  <2>1. Archive[i].out \in Names
    BY <1>1, EntryIs
  <2>2. CASE pc = "patch"
    <3>1. m \in DOMAIN expdata
      BY <1>1, <2>2, EntryIs DEF IInv, Patching, AllRead, TypeOK
    <3>2. i \in failed'
      BY <2>2, <3>1 DEF Kill
    <3> QED
      BY <1>3, <3>2
  <2>3. CASE pc # "patch"
    <3>1. disk[Archive[i].out] = Expected(Archive[i].out, i)
      BY <1>1, <1>3, <2>3 DEF IInv, OwnRight
    <3> QED
      BY <1>4, <2>1, <2>3, <3>1
  <2> QED
    BY <2>2, <2>3
<1>8. Patching' /\ ReadRight'
  BY <1>1 DEF Patching, ReadRight, Right
<1> QED
  BY <1>5, <1>6, <1>7, <1>8 DEF IInv

-----------------------------------------------------------------------------
(* The theorems. *)

(* While an update runs, is killed and is started again: an entry that is  *)
(* not affected has read, and is writing, the right thing, and what the    *)
(* others have made is still on the disk (dia.cpp:84).                     *)
THEOREM UpdateInvariance == Spec => []IInv
<1>1. Init => IInv
  BY InitIs
<1>2. IInv /\ [Next]_vars => IInv'
  <2>1. IInv /\ UNCHANGED vars => IInv'
    BY AffectedIs
       DEF vars, IInv, TypeOK, Patching, AllRead, OthersRight, OwnRight, ReadRight, Right
  <2> QED
    BY <2>1, StartIs, OpenExpFileIs, CreateDirectoryIs, OpenOutputIs, WriteIs, CloseIs,
       ReturnIs, KillIs DEF Next, Step
<1> QED
  BY <1>1, <1>2, PTL DEF Spec

(* What goes wrong with one entry reaches only those that build on it.     *)
THEOREM DamageStaysDownstream == Spec => []DamageIsDownstream
<1>1. IInv => DamageIsDownstream
  BY DEF IInv, OthersRight, DamageIsDownstream, TypeOK, Entries
<1> QED
  BY <1>1, UpdateInvariance, PTL
=============================================================================

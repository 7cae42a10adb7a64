--------------------------- MODULE FatCacheProofs ---------------------------
(***************************************************************************)
(* Theorems about FatCache for every number and size of pages, whatever    *)
(* the access counter says, with writes of the disc that may fail. Up to   *)
(* the last section reads do not fail; there they may, too.                *)
(*                                                                         *)
(* The argument: pages are classes of sectors with the same base, so that  *)
(* a page which is brought in meets no other; then the content seen        *)
(* through the pages is a function of the sector, and whatever reaches the *)
(* disc is that content. A read that fails leaves a page which is clean    *)
(* and not what the disc has, and what is left of the argument is that a   *)
(* failure spoils nothing which is in memory alone.                        *)
(***************************************************************************)
EXTENDS FatCache, TLAPS

(* The inductive invariant: all that the runs check, together. *)
IInv == TypeOK /\ Coherent /\ CleanPagesMatchDisc /\ SyncedIsDurable

-----------------------------------------------------------------------------
(* Pages and the view through them. *)

(* Arithmetic of whole division. *)
LEMMA DivIs ==
  ASSUME NEW n \in Nat, n >= 1, NEW a \in Nat
  PROVE  /\ a \div n \in Nat
         /\ n * (a \div n) <= a /\ a < n * (a \div n) + n
OBVIOUS

LEMMA ProductMonotone ==
  ASSUME NEW n \in Nat, n >= 1, NEW a \in Nat, NEW b \in Nat, a < b
  PROVE  n * a + n <= n * b
<1>1. n * (b - a) >= n
  OBVIOUS
<1> QED
  BY <1>1

LEMMA DivMonotone ==
  ASSUME NEW n \in Nat, n >= 1, NEW a \in Nat, NEW b \in Nat, a <= b
  PROVE  a \div n <= b \div n
<1> DEFINE p == a \div n
           q == b \div n
<1>1. p \in Nat /\ q \in Nat /\ n * p <= a /\ b < n * q + n
  BY DivIs
<1> HIDE DEF p, q
<1>2. SUFFICES ASSUME q < p PROVE FALSE
  BY <1>1 DEF p, q
<1>3. n * q + n <= n * p
  BY <1>1, <1>2, ProductMonotone
<1> QED
  BY <1>1, <1>3

LEMMA SameMultiple ==
  ASSUME NEW n \in Nat, n >= 1, NEW a \in Nat, NEW b \in Nat,
         (a \div n) * n = (b \div n) * n
  PROVE  a \div n = b \div n
<1> DEFINE p == a \div n
           q == b \div n
<1>1. p \in Nat /\ q \in Nat /\ n * p = n * q
  BY DivIs
<1> HIDE DEF p, q
<1>2. ~(p < q) /\ ~(q < p)
  BY <1>1, ProductMonotone
<1> QED
  BY <1>1, <1>2 DEF p, q

(* Pages are runs: what lies between two sectors of a page is in it. *)
LEMMA BetweenInPage ==
  ASSUME NEW s \in Sectors, NEW u \in PageSectors(s), s <= u
  PROVE  s .. u \subseteq PageSectors(s) /\ s .. u \subseteq Sectors
<1>1. SUFFICES ASSUME NEW x \in s .. u
               PROVE  x \in Sectors /\ Base(x) = Base(s)
  BY DEF PageSectors
<1>2. /\ s \in Nat /\ u \in Nat /\ x \in Nat /\ s <= x /\ x <= u
      /\ u < EndOfPartition /\ Base(u) = Base(s)
  BY EndOfPartitionAssumption DEF PageSectors, Sectors
<1>3. x \in Sectors
  BY <1>2, EndOfPartitionAssumption DEF Sectors
<1> DEFINE n == SectorsPerPage
<1>4. n \in Nat /\ n >= 1
  BY SectorsPerPageAssumption
<1>5. (s \div n) * n = (u \div n) * n
  BY <1>2 DEF Base
<1> HIDE DEF n
<1>6. s \div n <= x \div n /\ x \div n <= u \div n
  BY <1>2, <1>4, DivMonotone
<1>7. s \div n = u \div n
  BY <1>2, <1>4, <1>5, SameMultiple
<1>8. x \div n = s \div n
  BY <1>2, <1>4, <1>6, <1>7
<1> QED
  BY <1>3, <1>8 DEF Base, n

(* A page that holds x is the page of x. *)
LEMMA PageOfSector ==
  ASSUME NEW S \in PageSets, NEW x \in S
  PROVE  x \in Sectors /\ S = PageSectors(x)
BY DEF PageSets, PageSectors

LEMMA SectorInItsPage ==
  ASSUME NEW s \in Sectors
  PROVE  /\ s \in PageSectors(s)
         /\ PageSectors(s) \in PageSets
         /\ PageSectors(s) \subseteq Sectors
BY DEF PageSets, PageSectors

LEMMA HeldIsPage ==
  ASSUME TypeOK, NEW i \in Pages
  PROVE  /\ Held(i) \in PageSets
         /\ page[i].data \in [Held(i) -> Contents]
BY DEF TypeOK, Entry, Held

Disjoint(pg) ==
  \A i, j \in Pages : i # j => DOMAIN pg[i].data \cap DOMAIN pg[j].data = {}

(* The view shows what the only holder of a sector holds, and the disc     *)
(* where there is no holder.                                               *)
LEMMA ViewOfHolder ==
  ASSUME NEW d, NEW pg, Disjoint(pg), NEW x \in Sectors,
         NEW i \in Pages, x \in DOMAIN pg[i].data
  PROVE  View(d, pg)[x] = pg[i].data[x]
<1> DEFINE H == {j \in Pages : x \in DOMAIN pg[j].data}
<1>1. H = {i}
  BY DEF Disjoint
<1>2. (CHOOSE j \in H : TRUE) = i
  BY <1>1
<1> QED
  BY <1>1, <1>2 DEF View

LEMMA ViewOfDisc ==
  ASSUME NEW d, NEW pg, NEW x \in Sectors,
         \A i \in Pages : x \notin DOMAIN pg[i].data
  PROVE  View(d, pg)[x] = d[x]
BY DEF View

(* Those two for the present state. *)
LEMMA LogicalContent ==
  ASSUME TypeOK, Coherent, NEW x \in Sectors
  PROVE  /\ \A i \in Pages : x \in Held(i) => Logical[x] = page[i].data[x]
         /\ (\A i \in Pages : x \notin Held(i)) => Logical[x] = disc[x]
         /\ Logical[x] \in Contents
<1>1. Disjoint(page)
  BY DEF Disjoint, Coherent, Held
<1>2. \A i \in Pages : x \in Held(i) => Logical[x] = page[i].data[x]
  BY <1>1, ViewOfHolder DEF Logical, Held
<1>3. (\A i \in Pages : x \notin Held(i)) => Logical[x] = disc[x]
  BY ViewOfDisc DEF Logical, Held
<1>4. Logical[x] \in Contents
  BY <1>2, <1>3, HeldIsPage DEF TypeOK
<1> QED
  BY <1>2, <1>3, <1>4

-----------------------------------------------------------------------------
(* fat_cache_getPage. *)

(* The page that is replaced, or found, is the only one to hold sectors of *)
(* the page of s.                                                          *)
LEMMA TargetAlone ==
  ASSUME TypeOK, Coherent, NEW s \in Sectors, NEW i \in Pages, IsTarget(i, s),
         NEW j \in Pages, j # i
  PROVE  Held(j) \cap PageSectors(s) = {}
<1>1. s \notin Held(j)
  BY DEF IsTarget, Coherent
<1>2. SUFFICES ASSUME NEW x \in Held(j), x \in PageSectors(s) PROVE FALSE
  OBVIOUS
<1>3. Held(j) = PageSectors(x)
  BY <1>2, HeldIsPage, PageOfSector
<1>4. PageSectors(x) = PageSectors(s)
  BY <1>2 DEF PageSectors
<1> QED
  BY <1>1, <1>3, <1>4, SectorInItsPage

(* Writing sectors of a page to the disc writes what the view shows. *)
LEMMA WrittenShowsView ==
  ASSUME TypeOK, Coherent, NEW i \in Pages, NEW S \in SUBSET Sectors
  PROVE  /\ Written(i, S) \in [Sectors -> Contents]
         /\ \A x \in Sectors : Written(i, S)[x] \in {disc[x], Logical[x]}
         /\ \A x \in Sectors \ Held(i) : Written(i, S)[x] = disc[x]
         /\ \A x \in Sectors : x \in S \cap Held(i) => Written(i, S)[x] = Logical[x]
BY LogicalContent, HeldIsPage DEF Written, TypeOK

LEMMA HeldAreSectors ==
  ASSUME TypeOK, NEW i \in Pages
  PROVE  Held(i) \subseteq Sectors
BY HeldIsPage, PageOfSector

(* What getPage leaves on the disc. *)
LEMMA DiscAfterIs ==
  ASSUME TypeOK, Coherent, CleanPagesMatchDisc,
         NEW s \in Sectors, NEW i \in Pages, IsTarget(i, s)
  PROVE  /\ DiscAfter(i, s) \in [Sectors -> Contents]
         /\ \A x \in Sectors : DiscAfter(i, s)[x] \in {disc[x], Logical[x]}
         /\ \A x \in Sectors \ Held(i) : DiscAfter(i, s)[x] = disc[x]
         /\ s \in Held(i) => \A x \in Sectors : DiscAfter(i, s)[x] = disc[x]
         /\ s \notin Held(i) => \A x \in Held(i) : DiscAfter(i, s)[x] = Logical[x]
<1> DEFINE S == IF MustWriteBack(i, s) THEN Held(i) ELSE {}
<1>1. S \in SUBSET Sectors /\ DiscAfter(i, s) = Written(i, S)
  BY HeldAreSectors DEF DiscAfter
<1>2. /\ DiscAfter(i, s) \in [Sectors -> Contents]
      /\ \A x \in Sectors : DiscAfter(i, s)[x] \in {disc[x], Logical[x]}
      /\ \A x \in Sectors \ Held(i) : DiscAfter(i, s)[x] = disc[x]
  BY <1>1, WrittenShowsView
<1>3. s \in Held(i) => \A x \in Sectors : DiscAfter(i, s)[x] = disc[x]
  BY DEF DiscAfter, MustWriteBack, Written
<1>4. ASSUME s \notin Held(i), NEW x \in Held(i)
      PROVE  DiscAfter(i, s)[x] = Logical[x]
  <2>1. x \in Sectors
    BY <1>4, HeldAreSectors
  <2>2. CASE page[i].dirty
    <3>1. S = Held(i)
      BY <1>4, <2>2 DEF MustWriteBack, IsFree
    <3> QED
      BY <1>1, <1>4, <2>1, <3>1, WrittenShowsView
  <2>3. CASE ~page[i].dirty
    <3>1. DiscAfter(i, s)[x] = disc[x]
      BY <2>1, <2>3 DEF DiscAfter, MustWriteBack, Written
    <3>2. page[i].data[x] = disc[x]
      BY <1>4, <2>3 DEF CleanPagesMatchDisc
    <3> QED
      BY <1>4, <2>1, <3>1, <3>2, LogicalContent
  <2> QED
    BY <2>2, <2>3
<1> QED
  BY <1>2, <1>3, <1>4

(* The page brought in is the page of s, shows the view, and matches the   *)
(* disc unless it is dirty.                                                *)
LEMMA FetchedIs ==
  ASSUME TypeOK, Coherent, CleanPagesMatchDisc,
         NEW s \in Sectors, NEW i \in Pages, IsTarget(i, s)
  PROVE  /\ Fetched(i, s) \in Entry
         /\ DOMAIN Fetched(i, s).data = PageSectors(s)
         /\ \A x \in PageSectors(s) : Fetched(i, s).data[x] = Logical[x]
         /\ Fetched(i, s).dirty = FALSE =>
              \A x \in PageSectors(s) : Fetched(i, s).data[x] = DiscAfter(i, s)[x]
<1>1. accessTime \in 0 .. AccessModulus - 1 /\ page[i] \in Entry
  BY AccessModulusAssumption DEF accessTime, TypeOK
<1>2. CASE s \in Held(i)
  <2>1. Fetched(i, s) = [page[i] EXCEPT !.last_access = accessTime]
    BY <1>2 DEF Fetched
  <2>2. /\ Fetched(i, s) \in Entry
        /\ Fetched(i, s).data = page[i].data
        /\ Fetched(i, s).dirty = page[i].dirty
    BY <1>1, <2>1 DEF Entry
  <2>3. Held(i) = PageSectors(s)
    BY <1>2, HeldIsPage, PageOfSector
  <2>4. ASSUME NEW x \in PageSectors(s)
        PROVE  /\ Fetched(i, s).data[x] = Logical[x]
               /\ Fetched(i, s).dirty = FALSE => Fetched(i, s).data[x] = DiscAfter(i, s)[x]
    <3>1. x \in Sectors /\ x \in Held(i)
      BY <2>3, SectorInItsPage
    <3>2. DiscAfter(i, s)[x] = disc[x]
      BY <1>2, <3>1, DiscAfterIs
    <3> QED
      BY <2>2, <3>1, <3>2, LogicalContent DEF CleanPagesMatchDisc
  <2> QED
    BY <2>2, <2>3, <2>4 DEF Held
<1>3. CASE s \notin Held(i)
  <2> DEFINE f == [x \in PageSectors(s) |-> DiscAfter(i, s)[x]]
             b == IF IsFree(i) THEN page[i].dirty ELSE FALSE
  <2>1. Fetched(i, s) = [data |-> f, last_access |-> accessTime, dirty |-> b]
    BY <1>3 DEF Fetched
  <2>2. f \in [PageSectors(s) -> Contents]
    BY DiscAfterIs, SectorInItsPage
  <2>3. f \in UNION {[S -> Contents] : S \in PageSets}
    BY <2>2, SectorInItsPage
  <2>4. b \in BOOLEAN
    BY <1>1 DEF Entry
  <2> HIDE DEF f, b
  <2>5. /\ Fetched(i, s) \in Entry
        /\ Fetched(i, s).data = f
    BY <1>1, <2>1, <2>3, <2>4 DEF Entry
  <2>6. ASSUME NEW x \in PageSectors(s)
        PROVE  f[x] = Logical[x] /\ f[x] = DiscAfter(i, s)[x]
    <3>1. x \in Sectors /\ f[x] = DiscAfter(i, s)[x]
      BY SectorInItsPage DEF f
    <3>2. x \notin Held(i)
      <4>1. SUFFICES ASSUME x \in Held(i) PROVE FALSE
        OBVIOUS
      <4>2. Held(i) = PageSectors(x)
        BY <4>1, HeldIsPage, PageOfSector
      <4>3. s \in PageSectors(x)
        BY <2>6 DEF PageSectors
      <4> QED
        BY <1>3, <4>2, <4>3
    <3>3. \A j \in Pages : x \notin Held(j)
      BY <2>6, <3>2, TargetAlone
    <3> QED
      BY <3>1, <3>2, <3>3, DiscAfterIs, LogicalContent
  <2> QED
    BY <2>2, <2>5, <2>6 DEF f
<1> QED
  BY <1>2, <1>3

(* What the calls leave when page i, the target for s, becomes e: the page *)
(* of s shows what e holds, nothing else looks different, and what reaches *)
(* the disc is what the view showed.                                       *)
LEMMA PageReplaced ==
  ASSUME TypeOK, Coherent, CleanPagesMatchDisc,
         NEW s \in Sectors, NEW i \in Pages,
         NEW e \in Entry, DOMAIN e.data = PageSectors(s),
         GetPage(i, s, e),
         e.dirty = FALSE => \A x \in PageSectors(s) : e.data[x] = DiscAfter(i, s)[x]
  PROVE  /\ disc' \in [Sectors -> Contents]
         /\ page' \in [Pages -> Entry]
         /\ accessCounter' \in 0 .. AccessModulus - 1
         /\ Coherent'
         /\ CleanPagesMatchDisc'
         /\ \A x \in Sectors : disc'[x] \in {disc[x], Logical[x]}
         /\ \A x \in PageSectors(s) : Logical'[x] = e.data[x]
         /\ \A x \in Sectors \ PageSectors(s) : Logical'[x] = Logical[x]
<1>1. /\ IsTarget(i, s)
      /\ disc' = DiscAfter(i, s)
      /\ accessCounter' = accessTime
      /\ page' = [page EXCEPT ![i] = e]
  BY DEF GetPage
<1>2. /\ disc' \in [Sectors -> Contents]
      /\ page' \in [Pages -> Entry]
      /\ accessCounter' \in 0 .. AccessModulus - 1
  BY <1>1, DiscAfterIs, AccessModulusAssumption DEF TypeOK, accessTime
<1>3. page'[i] = e /\ \A j \in Pages : j # i => page'[j] = page[j]
  BY <1>1 DEF TypeOK
<1>4. \A j \in Pages : j # i => Held(j) \cap PageSectors(s) = {}
  BY <1>1, TargetAlone
<1>5. Disjoint(page')
  <2> SUFFICES ASSUME NEW j \in Pages, NEW k \in Pages, j # k
               PROVE  DOMAIN page'[j].data \cap DOMAIN page'[k].data = {}
    BY DEF Disjoint
  <2>1. CASE j # i /\ k # i
    BY <2>1, <1>3 DEF Coherent, Held
  <2>2. CASE j = i
    BY <2>2, <1>3, <1>4 DEF Held
  <2>3. CASE k = i
    BY <2>3, <1>3, <1>4 DEF Held
  <2> QED
    BY <2>1, <2>2, <2>3
<1>6. Coherent'
  <2>1. \A j \in Pages : DOMAIN page'[j].data = {} => ~page'[j].dirty
    BY <1>3, SectorInItsPage DEF Coherent, IsFree, Held
  <2> QED
    BY <1>5, <2>1 DEF Coherent, Disjoint, IsFree, Held
<1>7. CleanPagesMatchDisc'
  <2> SUFFICES ASSUME NEW j \in Pages, ~page'[j].dirty, NEW x \in DOMAIN page'[j].data
               PROVE  page'[j].data[x] = disc'[x]
    BY DEF CleanPagesMatchDisc, Held
  <2>1. CASE j = i
    BY <2>1, <1>1, <1>3 DEF Entry
  <2>2. CASE j # i
    <3>1. x \in Held(j) /\ page[j].data[x] = disc[x]
      BY <2>2, <1>3 DEF CleanPagesMatchDisc, Held
    <3>2. x \in Sectors \ Held(i)
      BY <2>2, <3>1, HeldAreSectors DEF Coherent
    <3> QED
      BY <2>2, <3>1, <3>2, <1>1, <1>3, DiscAfterIs
  <2> QED
    BY <2>1, <2>2
<1>8. \A x \in Sectors : disc'[x] \in {disc[x], Logical[x]}
  BY <1>1, DiscAfterIs
<1>9. \A x \in PageSectors(s) : Logical'[x] = e.data[x]
  <2> SUFFICES ASSUME NEW x \in PageSectors(s)
               PROVE  View(disc', page')[x] = e.data[x]
    BY DEF Logical
  <2> QED
    BY <1>3, <1>5, SectorInItsPage, ViewOfHolder
<1>10. \A x \in Sectors \ PageSectors(s) : Logical'[x] = Logical[x]
  <2> SUFFICES ASSUME NEW x \in Sectors, x \notin PageSectors(s)
               PROVE  View(disc', page')[x] = Logical[x]
    BY DEF Logical
  <2>1. CASE \E j \in Pages : x \in DOMAIN page'[j].data
    <3>1. PICK j \in Pages : x \in DOMAIN page'[j].data
      BY <2>1
    <3>2. j # i /\ x \in Held(j) /\ page'[j].data[x] = page[j].data[x]
      BY <1>3, <3>1 DEF Held
    <3> QED
      BY <1>5, <3>1, <3>2, ViewOfHolder, LogicalContent
  <2>2. CASE \A j \in Pages : x \notin DOMAIN page'[j].data
    <3>1. View(disc', page')[x] = DiscAfter(i, s)[x]
      <4>1. View(disc', page')[x] = disc'[x]
        BY <2>2, ViewOfDisc
      <4> QED
        BY <1>1, <4>1
    <3>2. \A j \in Pages : j # i => x \notin Held(j)
      BY <1>3, <2>2 DEF Held
    <3>3. CASE x \notin Held(i)
      BY <3>1, <3>2, <3>3, DiscAfterIs, <1>1, LogicalContent
    <3>4. CASE x \in Held(i)
      <4>1. s \notin Held(i)
        <5>1. SUFFICES ASSUME s \in Held(i) PROVE FALSE
          OBVIOUS
        <5>2. Held(i) = PageSectors(s)
          BY <5>1, HeldIsPage, PageOfSector
        <5> QED
          BY <3>4, <5>2
      <4> QED
        BY <3>1, <3>4, <4>1, DiscAfterIs, <1>1
    <3> QED
      BY <3>3, <3>4
  <2> QED
    BY <2>1, <2>2
<1> QED
  BY <1>2, <1>6, <1>7, <1>8, <1>9, <1>10

-----------------------------------------------------------------------------
(* The calls: each keeps the invariant, and is a step of the store.        *)

(* What the steps have in common: pages and disc stay in order; and, but   *)
(* for a write that fails, only what the view showed reaches the disc.     *)
Orderly ==
  /\ disc' \in [Sectors -> Contents]
  /\ page' \in [Pages -> Entry]
  /\ accessCounter' \in 0 .. AccessModulus - 1
  /\ Coherent'
  /\ CleanPagesMatchDisc'

ShowsView(T) == \A x \in Sectors \ T : disc'[x] \in {disc[x], Logical[x]}

LEMMA LogicalIsContent ==
  ASSUME TypeOK, Coherent
  PROVE  Logical \in [Sectors -> Contents]
<1>1. Logical = [x \in Sectors |-> Logical[x]]
  BY DEF Logical, View
<1> QED
  BY <1>1, LogicalContent

LEMMA StoreSectors == Store!Sectors = Sectors /\ Store!Contents = Contents
BY DEF Store!Sectors, Store!Contents, Sectors, Contents

(* The abstract store explains what has reached the disc. *)
LEMMA OrderlyWritesBack ==
  ASSUME Orderly, NEW T, ShowsView(T)
  PROVE  Store!WriteBackBut(T)
BY StoreSectors DEF Store!WriteBackBut, Orderly, ShowsView

LEMMA WritesBack ==
  ASSUME Orderly, ShowsView({})
  PROVE  Store!WriteBack
BY OrderlyWritesBack DEF Store!WriteBack

(* An orderly step that changes what is seen, and spoils what is on the    *)
(* disc, only where it is unsynced keeps the invariant.                    *)
LEMMA OrderlyKeepsInvariant ==
  ASSUME IInv, Orderly, reply' \in Reply,
         unsynced' \in SUBSET Sectors, unsynced \subseteq unsynced',
         NEW T, T \subseteq unsynced', ShowsView(T),
         \A x \in Sectors \ unsynced' : Logical'[x] = Logical[x]
  PROVE  IInv'
<1>1. TypeOK'
  BY DEF TypeOK, Orderly
<1>2. SyncedIsDurable'
  BY DEF SyncedIsDurable, ShowsView, IInv
<1> QED
  BY <1>1, <1>2 DEF IInv, Orderly

LEMMA ReadStep ==
  ASSUME IInv, NEW s \in Sectors, Read(s)
  PROVE  IInv' /\ Store!Read(s)
<1>1. PICK i \in Pages :
        /\ GetPage(i, s, Fetched(i, s))
        /\ reply' = [kind |-> "data", sector |-> s, data |-> Fetched(i, s).data[s]]
        /\ unsynced' = unsynced
  BY DEF Read
<1>2. IsTarget(i, s)
  BY <1>1 DEF GetPage
<1>3. /\ Fetched(i, s) \in Entry
      /\ DOMAIN Fetched(i, s).data = PageSectors(s)
      /\ \A x \in PageSectors(s) : Fetched(i, s).data[x] = Logical[x]
      /\ Fetched(i, s).dirty = FALSE =>
           \A x \in PageSectors(s) : Fetched(i, s).data[x] = DiscAfter(i, s)[x]
  BY <1>2, FetchedIs DEF IInv
<1> DEFINE e == Fetched(i, s)
<1> HIDE DEF e
<1>4. /\ Orderly
      /\ ShowsView({})
      /\ \A x \in PageSectors(s) : Logical'[x] = e.data[x]
      /\ \A x \in Sectors \ PageSectors(s) : Logical'[x] = Logical[x]
  BY <1>1, <1>3, PageReplaced DEF IInv, Orderly, ShowsView, e
<1>5. \A x \in Sectors : Logical'[x] = Logical[x]
  BY <1>3, <1>4 DEF e
<1>6. Fetched(i, s).data[s] = Logical[s] /\ Logical[s] \in Contents
  BY <1>3, SectorInItsPage, LogicalContent DEF IInv
<1>7. reply' \in Reply
  BY <1>1, <1>6 DEF Reply
<1>8. IInv'
  BY <1>1, <1>4, <1>5, <1>7, OrderlyKeepsInvariant DEF IInv, TypeOK
<1>9. Logical' = Logical
  <2>1. Logical \in [Sectors -> Contents] /\ Logical' \in [Sectors -> Contents]
    <3>1. Logical \in [Sectors -> Contents]
      BY LogicalIsContent DEF IInv
    <3>2. Logical' = [x \in Sectors |-> Logical'[x]]
      BY DEF Logical, View
    <3> QED
      BY <1>5, <3>1, <3>2
  <2> QED
    BY <1>5, <2>1
<1>10. Store!WriteBack
  BY <1>4, WritesBack
<1>11. reply' = [kind |-> "data", sector |-> s, data |-> Logical[s]]
  BY <1>1, <1>6
<1> QED
  BY <1>1, <1>8, <1>9, <1>10, <1>11 DEF Store!Read

(* Whatever is overwritten, in the page of s. *)
LEMMA OverwriteStep ==
  ASSUME IInv, NEW s \in Sectors, NEW i \in Pages, NEW S, S \subseteq PageSectors(s),
         NEW new \in [S -> Contents],
         Overwrite(i, s, new), reply' \in Reply
  PROVE  /\ IInv'
         /\ Store!WriteBack
         /\ \A x \in S : Logical'[x] = new[x]
         /\ \A x \in Sectors \ S : Logical'[x] = Logical[x]
         /\ unsynced' = unsynced \cup S
<1> DEFINE f == Fetched(i, s)
           d == [x \in PageSectors(s) |-> IF x \in S THEN new[x] ELSE f.data[x]]
           e == [f EXCEPT !.data = d, !.dirty = TRUE]
<1>1. IsTarget(i, s)
  BY DEF Overwrite, GetPage
<1>2. /\ f \in Entry
      /\ DOMAIN f.data = PageSectors(s)
      /\ \A x \in PageSectors(s) : f.data[x] = Logical[x]
  BY <1>1, FetchedIs DEF IInv
<1>3. GetPage(i, s, e) /\ unsynced' = unsynced \cup S
  BY <1>2 DEF Overwrite
<1>4. d \in [PageSectors(s) -> Contents]
  BY <1>2, SectorInItsPage, LogicalContent DEF IInv
<1>5. d \in UNION {[P -> Contents] : P \in PageSets} /\ DOMAIN d = PageSectors(s)
  BY <1>4, SectorInItsPage
<1>6. \A x \in PageSectors(s) : d[x] = IF x \in S THEN new[x] ELSE Logical[x]
  BY <1>2
<1> HIDE DEF f, d
<1>7. e \in Entry /\ e.data = d /\ e.dirty = TRUE
  BY <1>2, <1>5 DEF Entry
<1> HIDE DEF e
<1>8. /\ Orderly
      /\ ShowsView({})
      /\ \A x \in PageSectors(s) : Logical'[x] = d[x]
      /\ \A x \in Sectors \ PageSectors(s) : Logical'[x] = Logical[x]
  BY <1>3, <1>5, <1>7, PageReplaced DEF IInv, Orderly, ShowsView
<1>9. /\ \A x \in S : Logical'[x] = new[x]
      /\ \A x \in Sectors \ S : Logical'[x] = Logical[x]
  BY <1>6, <1>8
<1>10. unsynced' \in SUBSET Sectors /\ unsynced \subseteq unsynced'
  BY <1>3, SectorInItsPage DEF IInv, TypeOK
<1>11. IInv'
  BY <1>3, <1>8, <1>9, <1>10, OrderlyKeepsInvariant
<1>12. Store!WriteBack
  BY <1>8, WritesBack
<1> QED
  BY <1>3, <1>9, <1>11, <1>12

(* So it is a write of the store, for the reply that says what it changed. *)
LEMMA StoreWrite ==
  ASSUME IInv, IInv', Store!WriteBack,
         NEW S \in SUBSET Sectors, NEW P \in SUBSET Parts, NEW erase \in BOOLEAN,
         reply' = [kind |-> IF erase THEN "erased" ELSE "written", sectors |-> S, parts |-> P],
         \A x \in Sectors \ S : Logical'[x] = Logical[x],
         \A x \in S : \A q \in Parts \ P :
           Logical'[x][q] = IF erase THEN 0 ELSE Logical[x][q],
         unsynced' = unsynced \cup S
  PROVE  Store!Write(erase)
<1>1. Logical' \in [Sectors -> Contents]
  <2>1. Logical' = [x \in Sectors |-> Logical'[x]]
    BY DEF Logical, View
  <2>2. \A x \in Sectors : Logical'[x] \in Contents
    <3>1. TypeOK' /\ Coherent'
      BY DEF IInv
    <3>2. ASSUME NEW x \in Sectors PROVE View(disc', page')[x] \in Contents
      <4>1. CASE \E j \in Pages : x \in DOMAIN page'[j].data
        <5>1. PICK j \in Pages : x \in DOMAIN page'[j].data
          BY <4>1
        <5>2. Disjoint(page')
          BY <3>1 DEF Disjoint, Coherent, Held
        <5>3. View(disc', page')[x] = page'[j].data[x]
          BY <5>1, <5>2, ViewOfHolder
        <5>4. page'[j] \in Entry
          BY <3>1 DEF TypeOK
        <5> QED
          BY <5>1, <5>3, <5>4 DEF Entry
      <4>2. CASE \A j \in Pages : x \notin DOMAIN page'[j].data
        <5>1. View(disc', page')[x] = disc'[x]
          BY <4>2, ViewOfDisc
        <5> QED
          BY <3>1, <5>1 DEF TypeOK
      <4> QED
        BY <4>1, <4>2
    <3> QED
      BY <3>2 DEF Logical
  <2> QED
    BY <2>1, <2>2
<1> QED
  BY <1>1, StoreSectors DEF Store!Write

LEMMA WritePartialSectorStep ==
  ASSUME IInv, NEW s \in Sectors, WritePartialSector(s)
  PROVE  IInv' /\ Store!Write(FALSE)
<1>1. PICK i \in Pages, P \in SUBSET Parts : \E buffer \in [P -> Values] :
        /\ Overwrite(i, s, [x \in {s} |-> [q \in Parts |->
             IF q \in P THEN buffer[q] ELSE Fetched(i, s).data[s][q]]])
        /\ reply' = [kind |-> "written", sectors |-> {s}, parts |-> P]
  BY DEF WritePartialSector
<1>2. PICK buffer \in [P -> Values] :
        /\ Overwrite(i, s, [x \in {s} |-> [q \in Parts |->
             IF q \in P THEN buffer[q] ELSE Fetched(i, s).data[s][q]]])
        /\ reply' = [kind |-> "written", sectors |-> {s}, parts |-> P]
  BY <1>1
<1>3. IsTarget(i, s)
  BY <1>2 DEF Overwrite, GetPage
<1>4. Fetched(i, s).data[s] = Logical[s] /\ Logical[s] \in Contents
  BY <1>3, FetchedIs, SectorInItsPage, LogicalContent DEF IInv
<1> DEFINE c == [q \in Parts |-> IF q \in P THEN buffer[q] ELSE Logical[s][q]]
<1>5. c \in Contents
  BY <1>4 DEF Contents
<1>6. Overwrite(i, s, [x \in {s} |-> c])
  BY <1>2, <1>4
<1>7. \A q \in Parts \ P : c[q] = Logical[s][q]
  OBVIOUS
<1> HIDE DEF c
<1>8. reply' \in Reply
  BY <1>2 DEF Reply
<1>9. [x \in {s} |-> c] \in [{s} -> Contents] /\ {s} \subseteq PageSectors(s)
  BY <1>5, SectorInItsPage
<1> DEFINE new == [x \in {s} |-> c]
<1>10. /\ IInv'
       /\ Store!WriteBack
       /\ \A x \in {s} : Logical'[x] = new[x]
       /\ \A x \in Sectors \ {s} : Logical'[x] = Logical[x]
       /\ unsynced' = unsynced \cup {s}
  <2> HIDE DEF new
  <2> QED
    BY <1>6, <1>8, <1>9, OverwriteStep DEF new
<1> HIDE DEF new
<1>11. \A x \in {s} : \A q \in Parts \ P : Logical'[x][q] = Logical[x][q]
  <2>1. Logical'[s] = c
    BY <1>10 DEF new
  <2> QED
    BY <1>7, <2>1
<1>12. {s} \in SUBSET Sectors
  OBVIOUS
<1>13. reply' = [kind |-> IF FALSE THEN "erased" ELSE "written",
                 sectors |-> {s}, parts |-> P]
  BY <1>2
<1>14. \A x \in {s} : \A q \in Parts \ P :
          Logical'[x][q] = IF FALSE THEN 0 ELSE Logical[x][q]
  BY <1>11
<1>15. FALSE \in BOOLEAN
  OBVIOUS
<1>16. Store!Write(FALSE)
  BY <1>10, <1>12, <1>13, <1>14, <1>15, StoreWrite
<1> QED
  BY <1>10, <1>16

LEMMA EraseWritePartialSectorStep ==
  ASSUME IInv, NEW s \in Sectors, EraseWritePartialSector(s)
  PROVE  IInv' /\ Store!Write(TRUE)
<1>1. PICK i \in Pages, P \in SUBSET Parts : \E buffer \in [P -> Values] :
        /\ Overwrite(i, s, [x \in {s} |-> [q \in Parts |-> IF q \in P THEN buffer[q] ELSE 0]])
        /\ reply' = [kind |-> "erased", sectors |-> {s}, parts |-> P]
  BY DEF EraseWritePartialSector
<1>2. PICK buffer \in [P -> Values] :
        /\ Overwrite(i, s, [x \in {s} |-> [q \in Parts |-> IF q \in P THEN buffer[q] ELSE 0]])
        /\ reply' = [kind |-> "erased", sectors |-> {s}, parts |-> P]
  BY <1>1
<1> DEFINE c == [q \in Parts |-> IF q \in P THEN buffer[q] ELSE 0]
<1>3. c \in Contents
  BY ValuesAssumption DEF Contents
<1>4. Overwrite(i, s, [x \in {s} |-> c])
  BY <1>2
<1>5. \A q \in Parts \ P : c[q] = 0
  OBVIOUS
<1> HIDE DEF c
<1>6. reply' \in Reply
  BY <1>2 DEF Reply
<1>7. [x \in {s} |-> c] \in [{s} -> Contents] /\ {s} \subseteq PageSectors(s)
  BY <1>3, SectorInItsPage
<1> DEFINE new == [x \in {s} |-> c]
<1>8. /\ IInv'
      /\ Store!WriteBack
      /\ \A x \in {s} : Logical'[x] = new[x]
      /\ \A x \in Sectors \ {s} : Logical'[x] = Logical[x]
      /\ unsynced' = unsynced \cup {s}
  <2> HIDE DEF new
  <2> QED
    BY <1>4, <1>6, <1>7, OverwriteStep DEF new
<1>9. Logical'[s] = c
  BY <1>8
<1> QED
  BY <1>2, <1>5, <1>8, <1>9, StoreWrite

LEMMA WriteSectorsStep ==
  ASSUME IInv, NEW s \in Sectors, WriteSectors(s)
  PROVE  IInv' /\ Store!Write(FALSE)
<1>1. PICK i \in Pages, last \in PageSectors(s) \cap Used :
        \E buffer \in [s .. last -> Contents] :
          /\ s <= last
          /\ Overwrite(i, s, buffer)
          /\ reply' = [kind |-> "written", sectors |-> s .. last, parts |-> Parts]
  BY DEF WriteSectors
<1>2. PICK buffer \in [s .. last -> Contents] :
          /\ s <= last
          /\ Overwrite(i, s, buffer)
          /\ reply' = [kind |-> "written", sectors |-> s .. last, parts |-> Parts]
  BY <1>1
<1> DEFINE S == s .. last
<1>3. S \subseteq PageSectors(s) /\ S \subseteq Sectors
  BY <1>2, BetweenInPage
<1> HIDE DEF S
<1>4. reply' = [kind |-> "written", sectors |-> S, parts |-> Parts]
  BY <1>2 DEF S
<1>5. reply' \in Reply
  BY <1>3, <1>4 DEF Reply
<1>6. /\ IInv'
      /\ Store!WriteBack
      /\ \A x \in Sectors \ S : Logical'[x] = Logical[x]
      /\ unsynced' = unsynced \cup S
  BY <1>2, <1>3, <1>5, OverwriteStep DEF S
<1> QED
  BY <1>3, <1>4, <1>6, StoreWrite

(* What is written of one page, in a flush or in place of it, is what the  *)
(* view shows, and the page may be marked clean once all of it is written. *)
LEMMA FlushedShowsView ==
  ASSUME TypeOK, Coherent, NEW P \in SUBSET Pages
  PROVE  /\ Flushed(P) \in [Sectors -> Contents]
         /\ \A x \in Sectors : Flushed(P)[x] \in {disc[x], Logical[x]}
         /\ \A i \in P, x \in Sectors :
              (x \in Held(i) /\ page[i].dirty) => Flushed(P)[x] = Logical[x]
         /\ \A x \in Sectors : (\A i \in P : ~(x \in Held(i) /\ page[i].dirty))
              => Flushed(P)[x] = disc[x]
<1>1. ASSUME NEW x \in Sectors, NEW i \in P, x \in Held(i), page[i].dirty
      PROVE  Flushed(P)[x] = Logical[x]
  <2> DEFINE W == DirtyHolders(x) \cap P
  <2>1. W = {i}
    BY <1>1 DEF DirtyHolders, Coherent
  <2>2. i <= i
    BY NumPagesAssumption DEF Pages
  <2>3. (CHOOSE k \in W : \A j \in W : j <= k) = i
    BY <2>1, <2>2
  <2>4. Flushed(P)[x] = page[i].data[x]
    BY <2>1, <2>3 DEF Flushed
  <2> QED
    BY <1>1, <2>4, LogicalContent
<1>2. ASSUME NEW x \in Sectors, \A i \in P : ~(x \in Held(i) /\ page[i].dirty)
      PROVE  Flushed(P)[x] = disc[x]
  <2>1. DirtyHolders(x) \cap P = {}
    BY <1>2 DEF DirtyHolders
  <2> QED
    BY <2>1 DEF Flushed
<1>3. \A x \in Sectors : Flushed(P)[x] \in {disc[x], Logical[x]}
  BY <1>1, <1>2
<1>4. Flushed(P) = [x \in Sectors |-> Flushed(P)[x]]
  BY DEF Flushed
<1>5. \A x \in Sectors : Flushed(P)[x] \in Contents
  BY <1>3, LogicalContent DEF TypeOK
<1>6. Flushed(P) \in [Sectors -> Contents]
  BY <1>4, <1>5
<1> QED
  BY <1>1, <1>2, <1>3, <1>6

(* A step that only cleans pages which it has written, or none: the disc   *)
(* has to show the view where no dirty page is left to show it.            *)
LEMMA CleaningIsOrderly ==
  ASSUME IInv, NEW P \in SUBSET Pages, page' = Cleaned(P),
         UNCHANGED accessCounter,
         disc' \in [Sectors -> Contents],
         \A i \in Pages, x \in Sectors :
           (x \in Held(i) /\ (i \in P \/ ~page[i].dirty)) => disc'[x] = Logical[x],
         \A x \in Sectors : (\A i \in Pages : x \notin Held(i)) => disc'[x] = disc[x]
  PROVE  /\ Orderly
         /\ \A x \in Sectors : Logical'[x] = Logical[x]
<1>1. \A i \in Pages : page[i] \in Entry
  BY DEF IInv, TypeOK
<1>2. \A i \in Pages : /\ page'[i] \in Entry
                       /\ page'[i].data = page[i].data
                       /\ page'[i].dirty = IF i \in P THEN FALSE ELSE page[i].dirty
  BY <1>1 DEF Cleaned, Entry
<1>3. page' \in [Pages -> Entry]
  BY <1>2 DEF Cleaned
<1>4. Coherent'
  BY <1>2 DEF IInv, Coherent, Held, IsFree
<1>5. CleanPagesMatchDisc'
  <2> SUFFICES ASSUME NEW i \in Pages, ~page'[i].dirty, NEW x \in Held(i)
               PROVE  page'[i].data[x] = disc'[x]
    BY <1>2 DEF CleanPagesMatchDisc, Held
  <2>1. x \in Sectors /\ Logical[x] = page[i].data[x]
    BY HeldAreSectors, LogicalContent DEF IInv
  <2>2. i \in P \/ ~page[i].dirty
    BY <1>2
  <2> QED
    BY <1>2, <2>1, <2>2
<1>6. ASSUME NEW x \in Sectors
      PROVE  View(disc', page')[x] = Logical[x]
  <2>1. Disjoint(page')
    BY <1>4 DEF Disjoint, Coherent, Held
  <2>2. CASE \E j \in Pages : x \in Held(j)
    <3>1. PICK j \in Pages : x \in Held(j)
      BY <2>2
    <3>2. x \in DOMAIN page'[j].data
      BY <1>2, <3>1 DEF Held
    <3>3. View(disc', page')[x] = page'[j].data[x]
      BY <2>1, <3>2, ViewOfHolder
    <3> QED
      BY <1>2, <3>1, <3>3, LogicalContent DEF IInv
  <2>3. CASE \A j \in Pages : x \notin Held(j)
    <3>1. \A j \in Pages : x \notin DOMAIN page'[j].data
      BY <1>2, <2>3 DEF Held
    <3>2. View(disc', page')[x] = disc'[x]
      BY <3>1, ViewOfDisc
    <3>3. Logical[x] = disc[x]
      BY <2>3, LogicalContent DEF IInv
    <3> QED
      BY <2>3, <3>2, <3>3
  <2> QED
    BY <2>2, <2>3
<1>7. accessCounter' \in 0 .. AccessModulus - 1
  BY DEF IInv, TypeOK
<1> QED
  BY <1>3, <1>4, <1>5, <1>6, <1>7 DEF Orderly, Logical

(* Equal at every sector, the views are the same. *)
LEMMA SameView ==
  ASSUME \A x \in Sectors : Logical'[x] = Logical[x]
  PROVE  Logical' = Logical
<1>1. /\ Logical = [x \in Sectors |-> Logical[x]]
      /\ Logical' = [x \in Sectors |-> Logical'[x]]
  BY DEF Logical, View
<1> QED
  BY <1>1

(* The steps of calls that fail. *)
LEMMA FailureStep ==
  ASSUME IInv, Orderly, \A x \in Sectors : Logical'[x] = Logical[x],
         reply' = [kind |-> "error"],
         NEW at \in Sectors, NEW T \in SUBSET {at}, ShowsView(T),
         unsynced' = unsynced \cup T
  PROVE  IInv' /\ Store!Fail
<1>1. reply' \in Reply
  BY DEF Reply
<1>2. unsynced' \in SUBSET Sectors
  BY DEF IInv, TypeOK
<1>3. IInv'
  BY <1>1, <1>2, OrderlyKeepsInvariant
<1>4. Store!WriteBackBut(T)
  BY OrderlyWritesBack
<1>5. T \in Store!AtMostOne
  BY StoreSectors DEF Store!AtMostOne
<1> QED
  BY <1>3, <1>4, <1>5, SameView DEF Store!Fail

(* What a write that fails leaves on the disc d: what the view shows or    *)
(* what there was, but at the sector it stopped at, and nothing elsewhere. *)
LEMMA TornWriteIs ==
  ASSUME TypeOK, Coherent, NEW d \in [Sectors -> Contents],
         NEW i \in Pages, NEW at \in Held(i), NEW T \in SUBSET {at}
  PROVE  /\ TornWrite(d, i, at, T) \in [Sectors -> Contents]
         /\ \A x \in Sectors \ T : TornWrite(d, i, at, T)[x] \in {d[x], Logical[x]}
         /\ \A x \in Sectors \ Held(i) : TornWrite(d, i, at, T)[x] = d[x]
<1>1. JunkContent \in Contents
  BY ValuesAssumption DEF JunkContent, Contents
<1>2. \A x \in Sectors : x \in Held(i) => /\ page[i].data[x] = Logical[x]
                                         /\ Logical[x] \in Contents
  BY LogicalContent
<1> QED
  BY <1>1, <1>2 DEF TornWrite

LEMMA NothingCleaned ==
  ASSUME TypeOK
  PROVE  page = Cleaned({})
BY DEF Cleaned, TypeOK

LEMMA GetPageWriteFaultStep ==
  ASSUME IInv, NEW s \in Sectors, GetPageWriteFault(s)
  PROVE  IInv' /\ Store!Fail
<1>1. PICK i \in Pages : \E at \in Held(i), T \in SUBSET Held(i) :
        /\ T \subseteq {at}
        /\ MustWriteBack(i, s)
        /\ disc' = TornWrite(disc, i, at, T)
        /\ unsynced' = unsynced \cup T
        /\ reply' = [kind |-> "error"]
        /\ UNCHANGED <<page, accessCounter>>
  BY DEF GetPageWriteFault
<1>2. PICK at \in Held(i), T \in SUBSET Held(i) :
        /\ T \subseteq {at}
        /\ MustWriteBack(i, s)
        /\ disc' = TornWrite(disc, i, at, T)
        /\ unsynced' = unsynced \cup T
        /\ reply' = [kind |-> "error"]
        /\ UNCHANGED <<page, accessCounter>>
  BY <1>1
<1>3. T \in SUBSET {at} /\ at \in Sectors /\ page[i].dirty
  BY <1>2, HeldAreSectors DEF IInv, MustWriteBack
<1>4. page' = Cleaned({})
  BY <1>2, NothingCleaned DEF IInv
<1>5. /\ disc' \in [Sectors -> Contents]
      /\ \A x \in Sectors \ T : disc'[x] \in {disc[x], Logical[x]}
      /\ \A x \in Sectors \ Held(i) : disc'[x] = disc[x]
  BY <1>2, <1>3, TornWriteIs DEF IInv, TypeOK
<1>6. ASSUME NEW j \in Pages, NEW x \in Sectors, x \in Held(j), ~page[j].dirty
      PROVE  disc'[x] = Logical[x]
  <2>1. x \notin Held(i)
    BY <1>3, <1>6 DEF IInv, Coherent
  <2>2. page[j].data[x] = disc[x]
    BY <1>6 DEF IInv, CleanPagesMatchDisc
  <2> QED
    BY <1>5, <1>6, <2>1, <2>2, LogicalContent DEF IInv
<1>7. Orderly /\ \A x \in Sectors : Logical'[x] = Logical[x]
  BY <1>2, <1>4, <1>5, <1>6, CleaningIsOrderly
<1>8. ShowsView(T)
  BY <1>5 DEF ShowsView
<1> QED
  BY <1>2, <1>3, <1>7, <1>8, FailureStep

(* What a flush that fails has written is what the view shows, and all of  *)
(* the pages it has cleaned.                                               *)
LEMMA PartlyFlushedIs ==
  ASSUME IInv, NEW i \in Pages, page[i].dirty, NEW at \in Held(i), NEW T \in SUBSET {at}
  PROVE  /\ 0 .. i - 1 \in SUBSET Pages
         /\ PartlyFlushed(i, at, T) \in [Sectors -> Contents]
         /\ \A x \in Sectors \ T : PartlyFlushed(i, at, T)[x] \in {disc[x], Logical[x]}
         /\ \A j \in Pages, x \in Sectors :
              (x \in Held(j) /\ (j \in 0 .. i - 1 \/ ~page[j].dirty))
                => PartlyFlushed(i, at, T)[x] = Logical[x]
         /\ \A x \in Sectors : (\A j \in Pages : x \notin Held(j))
              => PartlyFlushed(i, at, T)[x] = disc[x]
<1> DEFINE P == 0 .. i - 1
           f == Flushed(P)
           g == TornWrite(f, i, at, T)
<1>1. P \in SUBSET Pages /\ i \notin P
  BY NumPagesAssumption DEF Pages
<1> HIDE DEF P
<1>2. /\ f \in [Sectors -> Contents]
      /\ \A x \in Sectors : f[x] \in {disc[x], Logical[x]}
      /\ \A j \in P, x \in Sectors :
           (x \in Held(j) /\ page[j].dirty) => f[x] = Logical[x]
      /\ \A x \in Sectors : (\A j \in P : ~(x \in Held(j) /\ page[j].dirty))
           => f[x] = disc[x]
  BY <1>1, FlushedShowsView DEF IInv
<1> HIDE DEF f
<1>3. /\ g \in [Sectors -> Contents]
      /\ \A x \in Sectors \ T : g[x] \in {f[x], Logical[x]}
      /\ \A x \in Sectors \ Held(i) : g[x] = f[x]
  BY <1>2, TornWriteIs DEF IInv
<1>4. PartlyFlushed(i, at, T) = g
  BY DEF PartlyFlushed, P, f
<1> HIDE DEF g
<1>5. ASSUME NEW j \in Pages, NEW x \in Sectors, x \in Held(j), j \in P \/ ~page[j].dirty
      PROVE  g[x] = Logical[x]
  <2>1. x \notin Held(i)
    BY <1>1, <1>5 DEF IInv, Coherent
  <2>2. CASE page[j].dirty
    BY <1>2, <1>3, <1>5, <2>1, <2>2
  <2>3. CASE ~page[j].dirty
    <3>1. \A k \in P : ~(x \in Held(k) /\ page[k].dirty)
      BY <1>1, <1>5, <2>3 DEF IInv, Coherent
    <3>2. page[j].data[x] = disc[x]
      BY <1>5, <2>3 DEF IInv, CleanPagesMatchDisc
    <3> QED
      BY <1>2, <1>3, <1>5, <2>1, <3>1, <3>2, LogicalContent DEF IInv
  <2> QED
    BY <2>2, <2>3
<1>6. ASSUME NEW x \in Sectors, \A j \in Pages : x \notin Held(j)
      PROVE  g[x] = disc[x]
  BY <1>1, <1>2, <1>3, <1>6
<1>7. \A x \in Sectors \ T : g[x] \in {disc[x], Logical[x]}
  BY <1>2, <1>3
<1> QED
  BY <1>1, <1>3, <1>4, <1>5, <1>6, <1>7 DEF P

LEMMA FlushFaultStep ==
  ASSUME IInv, FlushFault
  PROVE  IInv' /\ Store!Fail
<1>1. PICK i \in Pages : \E at \in Held(i), T \in SUBSET Held(i) :
        /\ T \subseteq {at}
        /\ page[i].dirty
        /\ disc' = PartlyFlushed(i, at, T)
        /\ page' = Cleaned(0 .. i - 1)
        /\ unsynced' = unsynced \cup T
        /\ reply' = [kind |-> "error"]
        /\ UNCHANGED accessCounter
  BY DEF FlushFault
<1>2. PICK at \in Held(i), T \in SUBSET Held(i) :
        /\ T \subseteq {at}
        /\ page[i].dirty
        /\ disc' = PartlyFlushed(i, at, T)
        /\ page' = Cleaned(0 .. i - 1)
        /\ unsynced' = unsynced \cup T
        /\ reply' = [kind |-> "error"]
        /\ UNCHANGED accessCounter
  BY <1>1
<1>3. T \in SUBSET {at} /\ at \in Sectors
  BY <1>2, HeldAreSectors DEF IInv
<1>4. Orderly /\ \A x \in Sectors : Logical'[x] = Logical[x]
  BY <1>2, <1>3, PartlyFlushedIs, CleaningIsOrderly
<1>5. ShowsView(T)
  BY <1>2, <1>3, PartlyFlushedIs DEF ShowsView
<1> QED
  BY <1>2, <1>3, <1>4, <1>5, FailureStep

(* A flush that succeeds makes the disc what the view shows. *)
LEMMA AllFlushed ==
  ASSUME IInv
  PROVE  Flushed(Pages) = Logical
<1>1. ASSUME NEW x \in Sectors
      PROVE  Flushed(Pages)[x] = Logical[x]
  <2>1. CASE \E i \in Pages : x \in Held(i) /\ page[i].dirty
    BY <2>1, FlushedShowsView DEF IInv
  <2>2. CASE \A i \in Pages : ~(x \in Held(i) /\ page[i].dirty)
    <3>1. Flushed(Pages)[x] = disc[x]
      BY <2>2, FlushedShowsView DEF IInv
    <3>2. disc[x] = Logical[x]
      BY <2>2, LogicalContent DEF IInv, CleanPagesMatchDisc
    <3> QED
      BY <3>1, <3>2
  <2> QED
    BY <2>1, <2>2
<1>2. Flushed(Pages) = [x \in Sectors |-> Flushed(Pages)[x]]
  BY DEF Flushed
<1>3. Logical = [x \in Sectors |-> Logical[x]]
  BY DEF Logical, View
<1> QED
  BY <1>1, <1>2, <1>3

LEMMA FlushStep ==
  ASSUME IInv, Flush
  PROVE  IInv' /\ Store!Flush
<1>1. /\ disc' = Logical
      /\ page' = Cleaned(Pages)
      /\ reply' = [kind |-> "flushed"]
      /\ unsynced' = {}
      /\ UNCHANGED accessCounter
  BY AllFlushed DEF Flush
<1>2. Orderly /\ \A x \in Sectors : Logical'[x] = Logical[x]
  BY <1>1, LogicalIsContent, LogicalContent, CleaningIsOrderly DEF IInv
<1>3. Logical' = Logical
  BY <1>2, SameView
<1>4. reply' \in Reply
  BY <1>1 DEF Reply
<1>5. TypeOK'
  BY <1>1, <1>2, <1>4 DEF TypeOK, Orderly
<1>6. SyncedIsDurable'
  BY <1>1, <1>3 DEF SyncedIsDurable
<1> QED
  BY <1>1, <1>2, <1>3, <1>5, <1>6 DEF IInv, Orderly, Store!Flush

LEMMA NoPageIs ==
  /\ NoPage \in Entry /\ DOMAIN NoPage.data = {} /\ NoPage.dirty = FALSE
<1>1. [x \in {} |-> Erased] \in UNION {[S -> Contents] : S \in PageSets}
  <2>1. {} \in PageSets
    BY DEF PageSets
  <2>2. [x \in {} |-> Erased] \in [{} -> Contents]
    OBVIOUS
  <2> QED
    BY <2>1, <2>2
<1>2. 0 \in 0 .. AccessModulus - 1
  BY AccessModulusAssumption
<1> QED
  BY <1>1, <1>2 DEF NoPage, Entry

(* What is left when the pages are emptied is what has reached the disc.   *)
LEMMA EmptiedStep ==
  ASSUME IInv,
         disc' \in [Sectors -> Contents],
         page' = [i \in Pages |-> NoPage], unsynced' = {},
         accessCounter' \in 0 .. AccessModulus - 1,
         reply' \in Reply
  PROVE  IInv' /\ Orderly /\ Logical' = disc'
<1>1. NoPage \in Entry /\ DOMAIN NoPage.data = {} /\ NoPage.dirty = FALSE
  BY NoPageIs
<1>2. \A i \in Pages : page'[i] = NoPage /\ DOMAIN page'[i].data = {}
  BY <1>1
<1>3. page' \in [Pages -> Entry]
  BY <1>1
<1>4. Coherent' /\ CleanPagesMatchDisc'
  BY <1>1, <1>2 DEF Coherent, CleanPagesMatchDisc, Held, IsFree
<1>5. Orderly
  BY <1>3, <1>4 DEF Orderly
<1>6. Logical' = disc'
  <2>1. \A x \in Sectors : View(disc', page')[x] = disc'[x]
    BY <1>2, ViewOfDisc
  <2>2. /\ View(disc', page') = [x \in Sectors |-> View(disc', page')[x]]
        /\ disc' = [x \in Sectors |-> disc'[x]]
    BY DEF View
  <2> QED
    BY <2>1, <2>2 DEF Logical
<1>7. TypeOK'
  BY <1>3 DEF TypeOK
<1>8. SyncedIsDurable'
  BY <1>6 DEF SyncedIsDurable
<1> QED
  BY <1>4, <1>5, <1>6, <1>7, <1>8 DEF IInv

LEMMA InvalidateStep ==
  ASSUME IInv, Invalidate
  PROVE  IInv' /\ Store!Drop
<1>1. \E T \in Store!AtMostOne : disc' \in [Sectors -> Contents] /\ ShowsView(T)
  <2>1. CASE disc' = Flushed(Pages)
    <3>1. disc' \in [Sectors -> Contents] /\ ShowsView({})
      BY <2>1, AllFlushed, LogicalIsContent DEF IInv, ShowsView
    <3>2. {} \in Store!AtMostOne
      BY DEF Store!AtMostOne
    <3> QED
      BY <3>1, <3>2
  <2>2. ASSUME NEW i \in Pages, NEW at \in Held(i), NEW T \in SUBSET Held(i),
               T \subseteq {at}, page[i].dirty, disc' = PartlyFlushed(i, at, T)
        PROVE  \E U \in Store!AtMostOne : disc' \in [Sectors -> Contents] /\ ShowsView(U)
    <3>1. T \in SUBSET {at} /\ at \in Sectors
      BY <2>2, HeldAreSectors DEF IInv
    <3>2. disc' \in [Sectors -> Contents] /\ ShowsView(T)
      BY <2>2, <3>1, PartlyFlushedIs DEF ShowsView
    <3>3. T \in Store!AtMostOne
      BY <3>1, StoreSectors DEF Store!AtMostOne
    <3> QED
      BY <3>2, <3>3
  <2> QED
    BY <2>1, <2>2 DEF Invalidate
<1>2. /\ page' = [i \in Pages |-> NoPage]
      /\ reply' = [kind |-> "invalidated"]
      /\ unsynced' = {}
      /\ accessCounter' \in 0 .. AccessModulus - 1
  BY DEF Invalidate, Emptied, IInv, TypeOK
<1>3. reply' \in Reply
  BY <1>2 DEF Reply
<1>4. IInv' /\ Orderly /\ Logical' = disc'
  BY <1>1, <1>2, <1>3, EmptiedStep
<1>5. \E T \in Store!AtMostOne : Store!WriteBackBut(T)
  BY <1>1, <1>4, OrderlyWritesBack
<1> QED
  BY <1>2, <1>4, <1>5 DEF Store!Drop

LEMMA ExitStep ==
  ASSUME IInv, Exit
  PROVE  IInv' /\ Store!Exit
<1>1. disc' \in [Sectors -> Contents] /\ ShowsView({})
  BY DEF Exit, IInv, TypeOK, ShowsView
<1>2. /\ page' = [i \in Pages |-> NoPage]
      /\ reply' = [kind |-> "none"]
      /\ unsynced' = {}
      /\ accessCounter' \in 0 .. AccessModulus - 1
  BY AccessModulusAssumption DEF Exit
<1>3. reply' \in Reply
  BY <1>2 DEF Reply
<1>4. IInv' /\ Orderly /\ Logical' = disc'
  BY <1>1, <1>2, <1>3, EmptiedStep
<1> QED
  BY <1>1, <1>2, <1>4, WritesBack DEF Store!Exit

-----------------------------------------------------------------------------
(* The theorems. *)

LEMMA Initially ==
  ASSUME Init
  PROVE  IInv /\ Store!Init
<1>1. /\ disc = [s \in Sectors |-> Erased]
      /\ page = [i \in Pages |-> NoPage]
      /\ accessCounter = 0
      /\ reply = [kind |-> "none"]
      /\ unsynced = {}
  BY DEF Init, InitWith
<1>2. Erased \in Contents
  BY ValuesAssumption DEF Erased, Contents
<1>3. NoPage \in Entry /\ DOMAIN NoPage.data = {} /\ NoPage.dirty = FALSE
  BY NoPageIs
<1>4. TypeOK
  <2>1. reply \in Reply
    BY <1>1 DEF Reply
  <2>2. accessCounter \in 0 .. AccessModulus - 1
    BY <1>1, AccessModulusAssumption
  <2> QED
    BY <1>1, <1>2, <1>3, <2>1, <2>2 DEF TypeOK
<1>5. \A i \in Pages : Held(i) = {} /\ ~page[i].dirty
  BY <1>1, <1>3 DEF Held
<1>6. Coherent /\ CleanPagesMatchDisc
  BY <1>5 DEF Coherent, CleanPagesMatchDisc
<1>7. Logical = disc
  <2>1. \A x \in Sectors : Logical[x] = disc[x]
    BY <1>4, <1>5, <1>6, LogicalContent
  <2>2. Logical = [x \in Sectors |-> Logical[x]]
    BY DEF Logical, View
  <2> QED
    BY <1>1, <2>1, <2>2
<1>8. SyncedIsDurable
  BY <1>7 DEF SyncedIsDurable
<1>9. disc \in [Sectors -> Contents]
  BY <1>1, <1>2
<1> QED
  BY <1>1, <1>4, <1>6, <1>7, <1>8, <1>9, StoreSectors DEF IInv, Store!Init

(* Every step keeps the invariant, and is a step of the store. *)
LEMMA StepImplements ==
  ASSUME ReadFaults = FALSE, IInv, Next
  PROVE  IInv' /\ Store!Next
<1>1. ASSUME NEW s \in Used, Read(s) PROVE IInv' /\ Store!Next
  <2>1. s \in Sectors
    BY UsedAssumption DEF Sectors
  <2> QED
    BY <1>1, <2>1, ReadStep, StoreSectors DEF Store!Next
<1>2. ASSUME NEW s \in Used,
             WritePartialSector(s) \/ EraseWritePartialSector(s) \/ WriteSectors(s)
      PROVE  IInv' /\ Store!Next
  <2>1. s \in Sectors
    BY UsedAssumption DEF Sectors
  <2>2. IInv' /\ (Store!Write(FALSE) \/ Store!Write(TRUE))
    BY <1>2, <2>1, WritePartialSectorStep, EraseWritePartialSectorStep, WriteSectorsStep
  <2> QED
    BY <2>2 DEF Store!Next
<1>3. ASSUME NEW s \in Used, GetPageWriteFault(s) PROVE IInv' /\ Store!Next
  <2>1. s \in Sectors
    BY UsedAssumption DEF Sectors
  <2> QED
    BY <1>3, <2>1, GetPageWriteFaultStep DEF Store!Next
<1>4. ASSUME NEW s \in Used, GetPageReadFault(s) PROVE FALSE
  BY <1>4 DEF GetPageReadFault
<1>5. ASSUME Flush PROVE IInv' /\ Store!Next
  BY <1>5, FlushStep DEF Store!Next
<1>6. ASSUME FlushFault PROVE IInv' /\ Store!Next
  BY <1>6, FlushFaultStep DEF Store!Next
<1>7. ASSUME Invalidate PROVE IInv' /\ Store!Next
  BY <1>7, InvalidateStep DEF Store!Next
<1>8. ASSUME Exit PROVE IInv' /\ Store!Next
  BY <1>8, ExitStep DEF Store!Next
<1> QED
  BY <1>1, <1>2, <1>3, <1>4, <1>5, <1>6, <1>7, <1>8 DEF Next

LEMMA Stutter ==
  ASSUME IInv, UNCHANGED vars
  PROVE  IInv' /\ UNCHANGED <<Logical, disc, unsynced, reply>>
<1>1. /\ disc' = disc /\ page' = page /\ accessCounter' = accessCounter
      /\ reply' = reply /\ unsynced' = unsynced
  BY DEF vars
<1>2. Logical' = Logical
  BY <1>1 DEF Logical, View
<1> QED
  BY <1>1, <1>2
     DEF IInv, TypeOK, Coherent, CleanPagesMatchDisc, SyncedIsDurable, Held, IsFree

THEOREM Invariance ==
  ASSUME ReadFaults = FALSE
  PROVE  Spec => []IInv
<1>1. Init => IInv
  BY Initially
<1>2. IInv /\ [Next]_vars => IInv'
  BY StepImplements, Stutter
<1> QED
  BY <1>1, <1>2, PTL DEF Spec

(* Pages are always aligned, whole but for the last of the partition, or   *)
(* free, and the rest of the cache is of its type (cache.c:156-160).       *)
THEOREM TypeCorrect ==
  ASSUME ReadFaults = FALSE
  PROVE  Spec => []TypeOK
<1>1. IInv => TypeOK
  BY DEF IInv
<1> QED
  BY <1>1, Invariance, PTL

(* No sector is ever in two pages (cache.c:129-173). *)
THEOREM NoSectorTwice ==
  ASSUME ReadFaults = FALSE
  PROVE  Spec => []Coherent
<1>1. IInv => Coherent
  BY DEF IInv
<1> QED
  BY <1>1, Invariance, PTL

(* A page may be replaced without being written whenever it is not dirty   *)
(* (cache.c:146).                                                          *)
THEOREM CleanPagesAreDisposable ==
  ASSUME ReadFaults = FALSE
  PROVE  Spec => []CleanPagesMatchDisc
<1>1. IInv => CleanPagesMatchDisc
  BY DEF IInv
<1> QED
  BY <1>1, Invariance, PTL

(* What a successful flush was to save is on the disc, and stays there     *)
(* through every later replacement and failure, but for the one sector     *)
(* that a failed write stopped at, until the next flush (cache.c:366-384). *)
THEOREM FlushedStaysOnDisc ==
  ASSUME ReadFaults = FALSE
  PROVE  Spec => []SyncedIsDurable
<1>1. IInv => SyncedIsDurable
  BY DEF IInv
<1> QED
  BY <1>1, Invariance, PTL

(* The cache implements the store of sectors: "the cache is not visible to *)
(* the user" (cache.h:3).                                                  *)
THEOREM CacheIsInvisible ==
  ASSUME ReadFaults = FALSE
  PROVE  Spec => StoreSpec
<1>1. Init => Store!Init
  BY Initially
<1>2. IInv /\ [Next]_vars => [Store!Next]_(Store!vars)
  BY StepImplements, Stutter DEF Store!vars
<1>3. Spec => []IInv
  BY Invariance
<1> QED
  BY <1>1, <1>2, <1>3, PTL DEF Spec, StoreSpec, Store!Spec

-----------------------------------------------------------------------------
(* Reads that fail.  A read that fails leaves its page clean and full of   *)
(* what the buffer got, so that CleanPagesMatchDisc and the refinement are *)
(* lost.  What stays true is that the bytes of a clean page are those of   *)
(* the disc or the ones such a read left, and that is enough: the victim   *)
(* of the next failure is on the disc, or was spoilt before.               *)

CleanOrSpoilt ==
  \A i \in Pages : ~page[i].dirty =>
    \A x \in Held(i) : page[i].data[x] \in {disc[x], JunkContent}

SInv == TypeOK /\ Coherent /\ CleanOrSpoilt

Fits ==
  /\ disc' \in [Sectors -> Contents]
  /\ page' \in [Pages -> Entry]
  /\ accessCounter' \in 0 .. AccessModulus - 1
  /\ Coherent'
  /\ CleanOrSpoilt'

LEMMA FitsKeeps ==
  ASSUME Fits, reply' \in Reply, unsynced' \in SUBSET Sectors
  PROVE  SInv'
BY DEF Fits, SInv, TypeOK

(* What getPage writes are the sectors of the page it replaces. *)
LEMMA VictimWritten ==
  ASSUME SInv, NEW s \in Sectors, NEW i \in Pages
  PROVE  /\ DiscAfter(i, s) \in [Sectors -> Contents]
         /\ \A x \in Sectors \ Held(i) : DiscAfter(i, s)[x] = disc[x]
         /\ s \in Held(i) \/ ~page[i].dirty => \A x \in Sectors : DiscAfter(i, s)[x] = disc[x]
         /\ s \notin Held(i) /\ page[i].dirty =>
              \A x \in Held(i) : DiscAfter(i, s)[x] = page[i].data[x]
<1> DEFINE S == IF MustWriteBack(i, s) THEN Held(i) ELSE {}
<1>1. S \in SUBSET Sectors /\ DiscAfter(i, s) = Written(i, S) /\ Held(i) \subseteq Sectors
  BY HeldAreSectors DEF DiscAfter, SInv
<1>2. /\ DiscAfter(i, s) \in [Sectors -> Contents]
      /\ \A x \in Sectors \ Held(i) : DiscAfter(i, s)[x] = disc[x]
  BY <1>1, WrittenShowsView DEF SInv
<1>3. s \in Held(i) \/ ~page[i].dirty => \A x \in Sectors : DiscAfter(i, s)[x] = disc[x]
  BY DEF DiscAfter, MustWriteBack, Written
<1>4. ASSUME s \notin Held(i), page[i].dirty, NEW x \in Held(i)
      PROVE  DiscAfter(i, s)[x] = page[i].data[x]
  BY <1>1, <1>4 DEF DiscAfter, MustWriteBack, Written, IsFree
<1> QED
  BY <1>2, <1>3, <1>4

LEMMA FetchedFits ==
  ASSUME SInv, NEW s \in Sectors, NEW i \in Pages, IsTarget(i, s)
  PROVE  /\ Fetched(i, s) \in Entry
         /\ DOMAIN Fetched(i, s).data = PageSectors(s)
         /\ ~Fetched(i, s).dirty =>
              \A x \in PageSectors(s) : Fetched(i, s).data[x] \in {DiscAfter(i, s)[x], JunkContent}
<1>1. accessTime \in 0 .. AccessModulus - 1 /\ page[i] \in Entry
  BY AccessModulusAssumption DEF accessTime, SInv, TypeOK
<1>2. CASE s \in Held(i)
  <2>1. Fetched(i, s) = [page[i] EXCEPT !.last_access = accessTime]
    BY <1>2 DEF Fetched
  <2>2. /\ Fetched(i, s) \in Entry
        /\ Fetched(i, s).data = page[i].data
        /\ Fetched(i, s).dirty = page[i].dirty
    BY <1>1, <2>1 DEF Entry
  <2>3. Held(i) = PageSectors(s)
    BY <1>2, HeldIsPage, PageOfSector DEF SInv
  <2>4. ASSUME ~page[i].dirty, NEW x \in PageSectors(s)
        PROVE  page[i].data[x] \in {DiscAfter(i, s)[x], JunkContent}
    BY <2>3, <2>4, SectorInItsPage, VictimWritten DEF SInv, CleanOrSpoilt
  <2> QED
    BY <2>2, <2>3, <2>4 DEF Held
<1>3. CASE s \notin Held(i)
  <2> DEFINE f == [x \in PageSectors(s) |-> DiscAfter(i, s)[x]]
             b == IF IsFree(i) THEN page[i].dirty ELSE FALSE
  <2>1. Fetched(i, s) = [data |-> f, last_access |-> accessTime, dirty |-> b]
    BY <1>3 DEF Fetched
  <2>2. f \in [PageSectors(s) -> Contents]
    BY VictimWritten, SectorInItsPage
  <2>3. f \in UNION {[S -> Contents] : S \in PageSets}
    BY <2>2, SectorInItsPage
  <2>4. b \in BOOLEAN
    BY <1>1 DEF Entry
  <2>5. \A x \in PageSectors(s) : f[x] = DiscAfter(i, s)[x]
    OBVIOUS
  <2> HIDE DEF f, b
  <2>6. Fetched(i, s) \in Entry /\ Fetched(i, s).data = f
    BY <1>1, <2>1, <2>3, <2>4 DEF Entry
  <2> QED
    BY <2>2, <2>5, <2>6
<1> QED
  BY <1>2, <1>3

LEMMA ReplacedFits ==
  ASSUME SInv, NEW s \in Sectors, NEW i \in Pages,
         NEW e \in Entry, DOMAIN e.data = PageSectors(s), GetPage(i, s, e),
         ~e.dirty => \A x \in PageSectors(s) : e.data[x] \in {DiscAfter(i, s)[x], JunkContent}
  PROVE  Fits
<1>1. /\ IsTarget(i, s)
      /\ disc' = DiscAfter(i, s)
      /\ accessCounter' = accessTime
      /\ page' = [page EXCEPT ![i] = e]
  BY DEF GetPage
<1>2. /\ disc' \in [Sectors -> Contents]
      /\ page' \in [Pages -> Entry]
      /\ accessCounter' \in 0 .. AccessModulus - 1
  BY <1>1, VictimWritten, AccessModulusAssumption DEF SInv, TypeOK, accessTime
<1>3. page'[i] = e /\ \A j \in Pages : j # i => page'[j] = page[j]
  BY <1>1 DEF SInv, TypeOK
<1>4. \A j \in Pages : j # i => Held(j) \cap PageSectors(s) = {}
  BY <1>1, TargetAlone DEF SInv
<1>5. ASSUME NEW j \in Pages, NEW k \in Pages, j # k
      PROVE  DOMAIN page'[j].data \cap DOMAIN page'[k].data = {}
  <2>1. CASE j # i /\ k # i
    BY <1>5, <2>1, <1>3 DEF SInv, Coherent, Held
  <2>2. CASE j = i
    BY <1>5, <2>2, <1>3, <1>4 DEF Held
  <2>3. CASE k = i
    BY <1>5, <2>3, <1>3, <1>4 DEF Held
  <2> QED
    BY <2>1, <2>2, <2>3
<1>6. Coherent'
  <2>1. \A j \in Pages : DOMAIN page'[j].data = {} => ~page'[j].dirty
    BY <1>3, SectorInItsPage DEF SInv, Coherent, IsFree, Held
  <2> QED
    BY <1>5, <2>1 DEF Coherent, IsFree, Held
<1>7. CleanOrSpoilt'
  <2> SUFFICES ASSUME NEW j \in Pages, ~page'[j].dirty, NEW x \in DOMAIN page'[j].data
               PROVE  page'[j].data[x] \in {disc'[x], JunkContent}
    BY DEF CleanOrSpoilt, Held, JunkContent
  <2>1. CASE j = i
    BY <2>1, <1>1, <1>3
  <2>2. CASE j # i
    <3>1. x \in Held(j) /\ page[j].data[x] \in {disc[x], JunkContent}
      BY <2>2, <1>3 DEF SInv, CleanOrSpoilt, Held
    <3>2. x \in Sectors \ Held(i)
      BY <2>2, <3>1, HeldAreSectors DEF SInv, Coherent
    <3> QED
      BY <2>2, <3>1, <3>2, <1>1, <1>3, VictimWritten
  <2> QED
    BY <2>1, <2>2
<1> QED
  BY <1>2, <1>6, <1>7 DEF Fits

LEMMA ReadFits ==
  ASSUME SInv, NEW s \in Sectors, Read(s)
  PROVE  SInv'
<1>1. PICK i \in Pages :
        /\ GetPage(i, s, Fetched(i, s))
        /\ reply' = [kind |-> "data", sector |-> s, data |-> Fetched(i, s).data[s]]
        /\ unsynced' = unsynced
  BY DEF Read
<1>2. IsTarget(i, s)
  BY <1>1 DEF GetPage
<1> DEFINE e == Fetched(i, s)
<1>3. /\ e \in Entry /\ DOMAIN e.data = PageSectors(s)
      /\ ~e.dirty => \A x \in PageSectors(s) : e.data[x] \in {DiscAfter(i, s)[x], JunkContent}
  BY <1>2, FetchedFits
<1>4. e.data[s] \in Contents
  BY <1>3, SectorInItsPage DEF Entry
<1>5. GetPage(i, s, e) /\ reply' = [kind |-> "data", sector |-> s, data |-> e.data[s]]
  BY <1>1
<1> HIDE DEF e
<1>6. Fits
  BY <1>3, <1>5, ReplacedFits
<1>7. reply' \in Reply
  BY <1>4, <1>5 DEF Reply
<1> QED
  BY <1>1, <1>6, <1>7, FitsKeeps DEF SInv, TypeOK

LEMMA OverwriteFits ==
  ASSUME SInv, NEW s \in Sectors, NEW i \in Pages, NEW S, S \subseteq PageSectors(s),
         NEW new \in [S -> Contents], Overwrite(i, s, new), reply' \in Reply
  PROVE  SInv'
<1> DEFINE f == Fetched(i, s)
           d == [x \in PageSectors(s) |-> IF x \in S THEN new[x] ELSE f.data[x]]
           e == [f EXCEPT !.data = d, !.dirty = TRUE]
<1>1. IsTarget(i, s)
  BY DEF Overwrite, GetPage
<1>2. f \in Entry /\ DOMAIN f.data = PageSectors(s)
  BY <1>1, FetchedFits
<1>3. GetPage(i, s, e) /\ unsynced' = unsynced \cup S
  BY <1>2 DEF Overwrite
<1>4. \A x \in PageSectors(s) : f.data[x] \in Contents
  BY <1>2 DEF Entry
<1>5. d \in [PageSectors(s) -> Contents]
  BY <1>4
<1>6. d \in UNION {[P -> Contents] : P \in PageSets} /\ DOMAIN d = PageSectors(s)
  BY <1>5, SectorInItsPage
<1> HIDE DEF f, d
<1>7. e \in Entry /\ e.data = d /\ e.dirty = TRUE
  BY <1>2, <1>6 DEF Entry
<1> HIDE DEF e
<1>8. Fits
  BY <1>3, <1>6, <1>7, ReplacedFits
<1>9. unsynced' \in SUBSET Sectors
  BY <1>3, SectorInItsPage DEF SInv, TypeOK
<1> QED
  BY <1>8, <1>9, FitsKeeps

LEMMA WritesFit ==
  ASSUME SInv, NEW s \in Sectors,
         WritePartialSector(s) \/ EraseWritePartialSector(s) \/ WriteSectors(s)
  PROVE  SInv'
<1>1. ASSUME NEW i \in Pages, NEW P \in SUBSET Parts, NEW c \in Contents, NEW kind \in {"written", "erased"},
             Overwrite(i, s, [x \in {s} |-> c]),
             reply' = [kind |-> kind, sectors |-> {s}, parts |-> P]
      PROVE  SInv'
  <2>1. reply' \in Reply
    BY <1>1 DEF Reply
  <2>2. PICK new : new = [x \in {s} |-> c]
    OBVIOUS
  <2>3. new \in [{s} -> Contents] /\ {s} \subseteq PageSectors(s) /\ Overwrite(i, s, new)
    BY <1>1, <2>2, SectorInItsPage
  <2> QED
    BY <2>1, <2>3, OverwriteFits
<1>2. CASE WritePartialSector(s)
  <2>1. PICK i \in Pages, P \in SUBSET Parts : \E buffer \in [P -> Values] :
          /\ Overwrite(i, s, [x \in {s} |-> [q \in Parts |->
               IF q \in P THEN buffer[q] ELSE Fetched(i, s).data[s][q]]])
          /\ reply' = [kind |-> "written", sectors |-> {s}, parts |-> P]
    BY <1>2 DEF WritePartialSector
  <2>2. PICK buffer \in [P -> Values] :
          /\ Overwrite(i, s, [x \in {s} |-> [q \in Parts |->
               IF q \in P THEN buffer[q] ELSE Fetched(i, s).data[s][q]]])
          /\ reply' = [kind |-> "written", sectors |-> {s}, parts |-> P]
    BY <2>1
  <2>3. IsTarget(i, s)
    BY <2>2 DEF Overwrite, GetPage
  <2>4. PICK old \in Contents : old = Fetched(i, s).data[s]
    BY <2>3, FetchedFits, SectorInItsPage DEF Entry
  <2>5. PICK c : c = [q \in Parts |-> IF q \in P THEN buffer[q] ELSE old[q]]
    OBVIOUS
  <2>6. c \in Contents
    BY <2>4, <2>5 DEF Contents
  <2>7. Overwrite(i, s, [x \in {s} |-> c])
    BY <2>2, <2>4, <2>5
  <2> QED
    BY <1>1, <2>2, <2>6, <2>7
<1>3. CASE EraseWritePartialSector(s)
  <2>1. PICK i \in Pages, P \in SUBSET Parts : \E buffer \in [P -> Values] :
          /\ Overwrite(i, s, [x \in {s} |-> [q \in Parts |-> IF q \in P THEN buffer[q] ELSE 0]])
          /\ reply' = [kind |-> "erased", sectors |-> {s}, parts |-> P]
    BY <1>3 DEF EraseWritePartialSector
  <2>2. PICK buffer \in [P -> Values] :
          /\ Overwrite(i, s, [x \in {s} |-> [q \in Parts |-> IF q \in P THEN buffer[q] ELSE 0]])
          /\ reply' = [kind |-> "erased", sectors |-> {s}, parts |-> P]
    BY <2>1
  <2>3. PICK c : c = [q \in Parts |-> IF q \in P THEN buffer[q] ELSE 0]
    OBVIOUS
  <2>4. c \in Contents
    BY <2>3, ValuesAssumption DEF Contents
  <2>5. Overwrite(i, s, [x \in {s} |-> c])
    BY <2>2, <2>3
  <2> QED
    BY <1>1, <2>2, <2>4, <2>5
<1>4. CASE WriteSectors(s)
  <2>1. PICK i \in Pages, last \in PageSectors(s) \cap Used :
          \E buffer \in [s .. last -> Contents] :
            /\ s <= last
            /\ Overwrite(i, s, buffer)
            /\ reply' = [kind |-> "written", sectors |-> s .. last, parts |-> Parts]
    BY <1>4 DEF WriteSectors
  <2>2. PICK buffer \in [s .. last -> Contents] :
            /\ s <= last
            /\ Overwrite(i, s, buffer)
            /\ reply' = [kind |-> "written", sectors |-> s .. last, parts |-> Parts]
    BY <2>1
  <2>3. PICK S : S = s .. last
    OBVIOUS
  <2>4. S \subseteq PageSectors(s) /\ S \subseteq Sectors
    BY <2>2, <2>3, BetweenInPage
  <2>5. reply' \in Reply
    BY <2>2, <2>3, <2>4 DEF Reply
  <2> QED
    BY <2>2, <2>3, <2>4, <2>5, OverwriteFits
<1> QED
  BY <1>2, <1>3, <1>4

(* The view after a step. *)
LEMMA ViewAfter ==
  ASSUME Fits, NEW x \in Sectors
  PROVE  /\ \A i \in Pages : x \in DOMAIN page'[i].data => Logical'[x] = page'[i].data[x]
         /\ (\A i \in Pages : x \notin DOMAIN page'[i].data) => Logical'[x] = disc'[x]
<1>1. Disjoint(page')
  BY DEF Disjoint, Fits, Coherent, Held
<1>2. \A i \in Pages : x \in DOMAIN page'[i].data => View(disc', page')[x] = page'[i].data[x]
  BY <1>1, ViewOfHolder
<1>3. (\A i \in Pages : x \notin DOMAIN page'[i].data) => View(disc', page')[x] = disc'[x]
  BY ViewOfDisc
<1> QED
  BY <1>2, <1>3 DEF Logical

(* A step that marks pages clean which it has written, and writes nothing  *)
(* where a clean page or none is.                                          *)
LEMMA CleaningFits ==
  ASSUME SInv, NEW P \in SUBSET Pages, page' = Cleaned(P), UNCHANGED accessCounter,
         disc' \in [Sectors -> Contents],
         \A i \in Pages, x \in Sectors : x \in Held(i) =>
           /\ page[i].dirty /\ i \in P => disc'[x] = page[i].data[x]
           /\ ~page[i].dirty => disc'[x] = disc[x],
         \A x \in Sectors : (\A i \in Pages : x \notin Held(i)) => disc'[x] = disc[x]
  PROVE  /\ Fits
         /\ \A x \in Sectors : Logical'[x] = Logical[x]
<1>1. \A i \in Pages : page[i] \in Entry
  BY DEF SInv, TypeOK
<1>2. \A i \in Pages : /\ page'[i] \in Entry
                       /\ page'[i].data = page[i].data
                       /\ page'[i].dirty = IF i \in P THEN FALSE ELSE page[i].dirty
  BY <1>1 DEF Cleaned, Entry
<1>3. page' \in [Pages -> Entry]
  BY <1>2 DEF Cleaned
<1>4. Coherent'
  BY <1>2 DEF SInv, Coherent, Held, IsFree
<1>5. CleanOrSpoilt'
  <2> SUFFICES ASSUME NEW i \in Pages, ~page'[i].dirty, NEW x \in Held(i)
               PROVE  page'[i].data[x] \in {disc'[x], JunkContent}
    BY <1>2 DEF CleanOrSpoilt, Held, JunkContent
  <2>1. x \in Sectors
    BY HeldAreSectors DEF SInv
  <2>2. CASE page[i].dirty
    BY <1>2, <2>1, <2>2
  <2>3. CASE ~page[i].dirty
    BY <1>2, <2>1, <2>3 DEF SInv, CleanOrSpoilt
  <2> QED
    BY <2>2, <2>3
<1>6. Fits
  BY <1>3, <1>4, <1>5 DEF Fits, SInv, TypeOK
<1>7. ASSUME NEW x \in Sectors
      PROVE  Logical'[x] = Logical[x]
  <2>1. CASE \E i \in Pages : x \in Held(i)
    <3>1. PICK i \in Pages : x \in Held(i)
      BY <2>1
    <3>2. x \in DOMAIN page'[i].data /\ page'[i].data[x] = page[i].data[x]
      BY <1>2, <3>1 DEF Held
    <3> QED
      BY <1>6, <3>1, <3>2, ViewAfter, LogicalContent DEF SInv
  <2>2. CASE \A i \in Pages : x \notin Held(i)
    <3>1. \A i \in Pages : x \notin DOMAIN page'[i].data
      BY <1>2, <2>2 DEF Held
    <3> QED
      BY <1>6, <2>2, <3>1, ViewAfter, LogicalContent DEF SInv
  <2> QED
    BY <2>1, <2>2
<1> QED
  BY <1>6, <1>7

KeepsACopy == \A x \in Sectors : Logical'[x] = Logical[x] \/ disc'[x] = Logical[x]

LEMMA GetPageWriteFaultFits ==
  ASSUME SInv, NEW s \in Sectors, GetPageWriteFault(s)
  PROVE  SInv' /\ KeepsACopy
<1>1. PICK i \in Pages : \E at \in Held(i), T \in SUBSET Held(i) :
        /\ T \subseteq {at}
        /\ MustWriteBack(i, s)
        /\ disc' = TornWrite(disc, i, at, T)
        /\ unsynced' = unsynced \cup T
        /\ reply' = [kind |-> "error"]
        /\ UNCHANGED <<page, accessCounter>>
  BY DEF GetPageWriteFault
<1>2. PICK at \in Held(i), T \in SUBSET Held(i) :
        /\ T \subseteq {at}
        /\ MustWriteBack(i, s)
        /\ disc' = TornWrite(disc, i, at, T)
        /\ unsynced' = unsynced \cup T
        /\ reply' = [kind |-> "error"]
        /\ UNCHANGED <<page, accessCounter>>
  BY <1>1
<1>3. T \in SUBSET {at} /\ T \subseteq Sectors /\ page[i].dirty
  BY <1>2, HeldAreSectors DEF SInv, MustWriteBack
<1>4. page' = Cleaned({})
  BY <1>2, NothingCleaned DEF SInv
<1>5. /\ disc' \in [Sectors -> Contents]
      /\ \A x \in Sectors \ Held(i) : disc'[x] = disc[x]
  BY <1>2, <1>3, TornWriteIs DEF SInv, TypeOK
<1>6. ASSUME NEW j \in Pages, NEW x \in Sectors, x \in Held(j)
      PROVE  ~page[j].dirty => disc'[x] = disc[x]
  BY <1>3, <1>5, <1>6 DEF SInv, Coherent
<1>7. Fits /\ \A x \in Sectors : Logical'[x] = Logical[x]
  BY <1>2, <1>4, <1>5, <1>6, CleaningFits
<1>8. reply' \in Reply /\ unsynced' \in SUBSET Sectors
  BY <1>2, <1>3 DEF Reply, SInv, TypeOK
<1> QED
  BY <1>7, <1>8, FitsKeeps DEF KeepsACopy

(* What a read that fails has overwritten was on the disc, has just been   *)
(* written to it, or was spoilt by an earlier one.                         *)
LEMMA GetPageReadFaultFits ==
  ASSUME SInv, NEW s \in Sectors, GetPageReadFault(s)
  PROVE  SInv' /\ KeepsACopy
<1>1. PICK i \in Pages, k \in 0 .. SectorsPerPage :
        /\ IsTarget(i, s) /\ s \notin Held(i)
        /\ disc' = DiscAfter(i, s)
        /\ page' = [page EXCEPT
                      ![i].data = [x \in Held(i) |-> IF x \in FirstOf(Held(i), k)
                                                     THEN JunkContent ELSE page[i].data[x]],
                      ![i].dirty = IF IsFree(i) THEN @ ELSE FALSE]
        /\ reply' = [kind |-> "error"]
        /\ UNCHANGED <<accessCounter, unsynced>>
  BY DEF GetPageReadFault
<1>2. /\ page[i] \in Entry /\ page \in [Pages -> Entry]
      /\ Held(i) \in PageSets /\ page[i].data \in [Held(i) -> Contents] /\ Held(i) \subseteq Sectors
  BY HeldIsPage, HeldAreSectors DEF SInv, TypeOK
<1>3. JunkContent \in Contents
  BY ValuesAssumption DEF JunkContent, Contents
<1>4. PICK d : d = [x \in Held(i) |->
                      IF x \in FirstOf(Held(i), k) THEN JunkContent ELSE page[i].data[x]]
  OBVIOUS
<1>5. /\ d \in UNION {[S -> Contents] : S \in PageSets} /\ DOMAIN d = Held(i)
      /\ \A x \in Held(i) : d[x] \in {page[i].data[x], JunkContent}
  <2>1. d \in [Held(i) -> Contents]
    BY <1>2, <1>3, <1>4
  <2> QED
    BY <1>2, <1>4, <2>1
<1>6. PICK e : e = [page[i] EXCEPT !.data = d, !.dirty = IF IsFree(i) THEN @ ELSE FALSE]
  OBVIOUS
<1>7. e \in Entry /\ e.data = d /\ ~e.dirty
  <2>1. PICK b \in BOOLEAN : b = IF IsFree(i) THEN page[i].dirty ELSE FALSE
    BY <1>2 DEF Entry
  <2>2. ~b
    BY <2>1 DEF SInv, Coherent
  <2>3. e = [page[i] EXCEPT !.data = d, !.dirty = b]
    BY <1>6, <2>1
  <2>4. e \in Entry /\ e.data = d /\ e.dirty = b
    BY <1>2, <1>5, <2>3 DEF Entry
  <2> QED
    BY <2>2, <2>4
<1>8. page' = [page EXCEPT ![i] = e]
  BY <1>1, <1>4, <1>6
<1>9. page'[i] = e /\ \A j \in Pages : j # i => page'[j] = page[j]
  BY <1>2, <1>8
<1>10. \A j \in Pages : DOMAIN page'[j].data = Held(j)
  BY <1>5, <1>7, <1>9 DEF Held
<1>11. /\ disc' \in [Sectors -> Contents]
       /\ \A x \in Sectors \ Held(i) : disc'[x] = disc[x]
       /\ ~page[i].dirty => \A x \in Held(i) : disc'[x] = disc[x]
       /\ page[i].dirty => \A x \in Held(i) : disc'[x] = page[i].data[x]
  BY <1>1, <1>2, VictimWritten
<1>12. \A x \in Held(i) : page[i].data[x] \in {disc'[x], JunkContent}
  BY <1>11 DEF SInv, CleanOrSpoilt
<1>13. Coherent'
  BY <1>7, <1>9, <1>10 DEF SInv, Coherent, Held, IsFree
<1>14. CleanOrSpoilt'
  <2> SUFFICES ASSUME NEW j \in Pages, ~page'[j].dirty, NEW x \in Held(j)
               PROVE  page'[j].data[x] \in {disc'[x], JunkContent}
    BY <1>10 DEF CleanOrSpoilt, Held, JunkContent
  <2>1. CASE j = i
    BY <1>5, <1>7, <1>9, <1>12, <2>1
  <2>2. CASE j # i
    <3>1. x \in Sectors \ Held(i)
      BY <2>2, HeldAreSectors DEF SInv, Coherent
    <3> QED
      BY <1>9, <1>11, <2>2, <3>1 DEF SInv, CleanOrSpoilt
  <2> QED
    BY <2>1, <2>2
<1>15. Fits
  <2>1. page' \in [Pages -> Entry]
    BY <1>2, <1>7, <1>8
  <2> QED
    BY <1>1, <1>11, <1>13, <1>14, <2>1 DEF Fits, SInv, TypeOK
<1>16. ASSUME NEW x \in Sectors
       PROVE  Logical'[x] = Logical[x] \/ disc'[x] = Logical[x]
  <2>1. CASE x \in Held(i)
    <3>1. Logical[x] = page[i].data[x] /\ Logical'[x] = d[x]
      BY <1>7, <1>9, <1>10, <1>15, <2>1, ViewAfter, LogicalContent DEF SInv
    <3> QED
      BY <1>5, <1>12, <2>1, <3>1
  <2>2. CASE \E j \in Pages : j # i /\ x \in Held(j)
    <3>1. PICK j \in Pages : j # i /\ x \in Held(j)
      BY <2>2
    <3> QED
      BY <1>9, <1>10, <1>15, <3>1, ViewAfter, LogicalContent DEF SInv
  <2>3. CASE \A j \in Pages : x \notin Held(j)
    BY <1>10, <1>11, <1>15, <2>3, ViewAfter, LogicalContent DEF SInv
  <2> QED
    BY <2>1, <2>2, <2>3
<1>17. reply' \in Reply /\ unsynced' \in SUBSET Sectors
  BY <1>1 DEF Reply, SInv, TypeOK
<1> QED
  BY <1>15, <1>16, <1>17, FitsKeeps DEF KeepsACopy

LEMMA FlushFits ==
  ASSUME SInv, Flush
  PROVE  SInv'
<1>1. /\ disc' = Flushed(Pages) /\ page' = Cleaned(Pages) /\ UNCHANGED accessCounter
      /\ reply' = [kind |-> "flushed"] /\ unsynced' = {}
  BY DEF Flush
<1>2. /\ disc' \in [Sectors -> Contents]
      /\ \A i \in Pages, x \in Sectors : (x \in Held(i) /\ page[i].dirty) => disc'[x] = Logical[x]
      /\ \A x \in Sectors : (\A i \in Pages : ~(x \in Held(i) /\ page[i].dirty))
           => disc'[x] = disc[x]
  BY <1>1, FlushedShowsView DEF SInv
<1>3. ASSUME NEW i \in Pages, NEW x \in Sectors, x \in Held(i)
      PROVE  /\ page[i].dirty /\ i \in Pages => disc'[x] = page[i].data[x]
             /\ ~page[i].dirty => disc'[x] = disc[x]
  <2>1. Logical[x] = page[i].data[x]
    BY <1>3, LogicalContent DEF SInv
  <2>2. ~page[i].dirty => \A j \in Pages : ~(x \in Held(j) /\ page[j].dirty)
    BY <1>3 DEF SInv, Coherent
  <2> QED
    BY <1>2, <1>3, <2>1, <2>2
<1>4. Fits
  BY <1>1, <1>2, <1>3, CleaningFits
<1>5. reply' \in Reply /\ unsynced' \in SUBSET Sectors
  BY <1>1 DEF Reply
<1> QED
  BY <1>4, <1>5, FitsKeeps

(* What a flush that fails has written are the pages before the one that   *)
(* it fails on, and a part of that one.                                    *)
LEMMA PartlyFlushedFits ==
  ASSUME SInv, NEW i \in Pages, page[i].dirty, NEW at \in Held(i), NEW T \in SUBSET {at}
  PROVE  /\ 0 .. i - 1 \in SUBSET Pages
         /\ PartlyFlushed(i, at, T) \in [Sectors -> Contents]
         /\ \A j \in Pages, x \in Sectors : x \in Held(j) =>
              /\ page[j].dirty /\ j \in 0 .. i - 1 => PartlyFlushed(i, at, T)[x] = page[j].data[x]
              /\ ~page[j].dirty => PartlyFlushed(i, at, T)[x] = disc[x]
         /\ \A x \in Sectors : (\A j \in Pages : x \notin Held(j))
              => PartlyFlushed(i, at, T)[x] = disc[x]
<1> DEFINE P == 0 .. i - 1
           f == Flushed(P)
           g == TornWrite(f, i, at, T)
<1>1. P \in SUBSET Pages /\ i \notin P
  BY NumPagesAssumption DEF Pages
<1> HIDE DEF P
<1>2. /\ f \in [Sectors -> Contents]
      /\ \A j \in P, x \in Sectors : (x \in Held(j) /\ page[j].dirty) => f[x] = Logical[x]
      /\ \A x \in Sectors : (\A j \in P : ~(x \in Held(j) /\ page[j].dirty)) => f[x] = disc[x]
  BY <1>1, FlushedShowsView DEF SInv
<1> HIDE DEF f
<1>3. /\ g \in [Sectors -> Contents]
      /\ \A x \in Sectors \ Held(i) : g[x] = f[x]
  BY <1>2, TornWriteIs DEF SInv
<1>4. PartlyFlushed(i, at, T) = g
  BY DEF PartlyFlushed, P, f
<1> HIDE DEF g
<1>5. ASSUME NEW j \in Pages, NEW x \in Sectors, x \in Held(j)
      PROVE  /\ page[j].dirty /\ j \in P => g[x] = page[j].data[x]
             /\ ~page[j].dirty => g[x] = disc[x]
  <2>1. Logical[x] = page[j].data[x]
    BY <1>5, LogicalContent DEF SInv
  <2>2. CASE page[j].dirty /\ j \in P
    <3>1. x \notin Held(i)
      BY <1>1, <1>5, <2>2 DEF SInv, Coherent
    <3> QED
      BY <1>2, <1>3, <1>5, <2>1, <2>2, <3>1
  <2>3. CASE ~page[j].dirty
    <3>1. x \notin Held(i) /\ \A k \in P : ~(x \in Held(k) /\ page[k].dirty)
      BY <1>1, <1>5, <2>3 DEF SInv, Coherent
    <3> QED
      BY <1>2, <1>3, <2>3, <3>1
  <2> QED
    BY <2>2, <2>3
<1>6. ASSUME NEW x \in Sectors, \A j \in Pages : x \notin Held(j)
      PROVE  g[x] = disc[x]
  BY <1>1, <1>2, <1>3, <1>6
<1> QED
  BY <1>1, <1>3, <1>4, <1>5, <1>6 DEF P

LEMMA FlushFaultFits ==
  ASSUME SInv, FlushFault
  PROVE  SInv' /\ KeepsACopy
<1>1. PICK i \in Pages : \E at \in Held(i), T \in SUBSET Held(i) :
        /\ T \subseteq {at}
        /\ page[i].dirty
        /\ disc' = PartlyFlushed(i, at, T)
        /\ page' = Cleaned(0 .. i - 1)
        /\ unsynced' = unsynced \cup T
        /\ reply' = [kind |-> "error"]
        /\ UNCHANGED accessCounter
  BY DEF FlushFault
<1>2. PICK at \in Held(i), T \in SUBSET Held(i) :
        /\ T \subseteq {at}
        /\ page[i].dirty
        /\ disc' = PartlyFlushed(i, at, T)
        /\ page' = Cleaned(0 .. i - 1)
        /\ unsynced' = unsynced \cup T
        /\ reply' = [kind |-> "error"]
        /\ UNCHANGED accessCounter
  BY <1>1
<1>3. T \in SUBSET {at} /\ T \subseteq Sectors
  BY <1>2, HeldAreSectors DEF SInv
<1>4. PICK P \in SUBSET Pages : P = 0 .. i - 1
  BY <1>2, <1>3, PartlyFlushedFits
<1>5. /\ disc' \in [Sectors -> Contents]
      /\ \A j \in Pages, x \in Sectors : x \in Held(j) =>
           /\ page[j].dirty /\ j \in P => disc'[x] = page[j].data[x]
           /\ ~page[j].dirty => disc'[x] = disc[x]
      /\ \A x \in Sectors : (\A j \in Pages : x \notin Held(j)) => disc'[x] = disc[x]
  BY <1>2, <1>3, <1>4, PartlyFlushedFits
<1>6. Fits /\ \A x \in Sectors : Logical'[x] = Logical[x]
  BY <1>2, <1>4, <1>5, CleaningFits
<1>7. reply' \in Reply /\ unsynced' \in SUBSET Sectors
  BY <1>2, <1>3 DEF Reply, SInv, TypeOK
<1> QED
  BY <1>6, <1>7, FitsKeeps DEF KeepsACopy

LEMMA EmptiedFits ==
  ASSUME SInv, Invalidate \/ Exit
  PROVE  SInv'
<1>1. disc' \in [Sectors -> Contents]
  <2>1. CASE Exit
    BY <2>1 DEF Exit, SInv, TypeOK
  <2>2. CASE disc' = Flushed(Pages)
    BY <2>2, FlushedShowsView DEF SInv
  <2>3. ASSUME NEW i \in Pages, NEW at \in Held(i), NEW T \in SUBSET Held(i),
               T \subseteq {at}, page[i].dirty, disc' = PartlyFlushed(i, at, T)
        PROVE  disc' \in [Sectors -> Contents]
    BY <2>3, PartlyFlushedFits
  <2> QED
    BY <2>1, <2>2, <2>3 DEF Invalidate
<1>2. /\ page' = [i \in Pages |-> NoPage]
      /\ unsynced' = {}
      /\ reply' \in Reply
      /\ accessCounter' \in 0 .. AccessModulus - 1
  <2>1. CASE Invalidate
    BY <2>1 DEF Invalidate, Emptied, Reply, SInv, TypeOK
  <2>2. CASE Exit
    BY <2>2, AccessModulusAssumption DEF Exit, Reply
  <2> QED
    BY <2>1, <2>2
<1>3. NoPage \in Entry /\ DOMAIN NoPage.data = {} /\ NoPage.dirty = FALSE
  BY NoPageIs
<1>4. page' \in [Pages -> Entry] /\ \A i \in Pages : page'[i] = NoPage
  BY <1>2, <1>3
<1>5. Coherent' /\ CleanOrSpoilt'
  BY <1>3, <1>4 DEF Coherent, CleanOrSpoilt, Held, IsFree
<1>6. Fits
  BY <1>1, <1>2, <1>4, <1>5 DEF Fits
<1> QED
  BY <1>2, <1>6, FitsKeeps

LEMMA NextFits ==
  ASSUME SInv, Next
  PROVE  SInv' /\ (reply'.kind = "error" => KeepsACopy)
<1>1. ASSUME NEW s \in Used, Read(s)
      PROVE  SInv' /\ reply'.kind # "error"
  <2>1. s \in Sectors
    BY UsedAssumption DEF Sectors
  <2>2. reply'.kind = "data"
    BY <1>1 DEF Read
  <2> QED
    BY <1>1, <2>1, <2>2, ReadFits
<1>2. ASSUME NEW s \in Used, WritePartialSector(s) \/ EraseWritePartialSector(s) \/ WriteSectors(s)
      PROVE  SInv' /\ reply'.kind # "error"
  <2>1. s \in Sectors
    BY UsedAssumption DEF Sectors
  <2>2. reply'.kind \in {"written", "erased"}
    <3>1. CASE WritePartialSector(s)
      BY <3>1 DEF WritePartialSector
    <3>2. CASE EraseWritePartialSector(s)
      BY <3>2 DEF EraseWritePartialSector
    <3>3. CASE WriteSectors(s)
      BY <3>3 DEF WriteSectors
    <3> QED
      BY <1>2, <3>1, <3>2, <3>3
  <2> QED
    BY <1>2, <2>1, <2>2, WritesFit
<1>3. ASSUME NEW s \in Used, GetPageWriteFault(s) \/ GetPageReadFault(s)
      PROVE  SInv' /\ KeepsACopy
  <2>1. s \in Sectors
    BY UsedAssumption DEF Sectors
  <2> QED
    BY <1>3, <2>1, GetPageWriteFaultFits, GetPageReadFaultFits
<1>4. CASE Flush
  BY <1>4, FlushFits DEF Flush
<1>5. CASE FlushFault
  BY <1>5, FlushFaultFits
<1>6. CASE Invalidate \/ Exit
  <2>1. reply'.kind \in {"invalidated", "none"}
    BY <1>6 DEF Invalidate, Emptied, Exit
  <2> QED
    BY <1>6, <2>1, EmptiedFits
<1> QED
  BY <1>1, <1>2, <1>3, <1>4, <1>5, <1>6 DEF Next

(* Whatever fails, reads of the disc included: no page overlaps another,   *)
(* and a clean page holds what the disc has or what a read that failed has *)
(* left in it.                                                             *)
THEOREM SpoiltInvariance == Spec => []SInv
<1>1. Init => SInv
  BY Initially DEF IInv, SInv, CleanOrSpoilt, CleanPagesMatchDisc
<1>2. SInv /\ [Next]_vars => SInv'
  <2>1. SInv /\ UNCHANGED vars => SInv'
    BY DEF vars, SInv, TypeOK, Coherent, CleanOrSpoilt, Held, IsFree
  <2> QED
    BY <2>1, NextFits
<1> QED
  BY <1>1, <1>2, PTL DEF Spec

(* What a failed call spoils in memory is on the disc as that call         *)
(* returns, also when reads fail.                                          *)
THEOREM ACopyIsKept == Spec => FailureKeepsACopy
<1> DEFINE A == reply'.kind = "error" =>
                  \A x \in Sectors : Logical'[x] = Logical[x] \/ disc'[x] = Logical[x]
<1>1. SInv /\ [Next]_vars => [A]_vars
  BY NextFits DEF KeepsACopy
<1> QED
  BY <1>1, SpoiltInvariance, PTL DEF Spec, FailureKeepsACopy
=============================================================================

--------------------------- MODULE DirectoryProofs ---------------------------
(***************************************************************************)
(* Proofs about Directory.tla, for clients that neither remove nor rename  *)
(* a file that is open (KeepsOpen).                                        *)
(*                                                                         *)
(* What carries them is that the row stays in order: up to its end, every  *)
(* slot of a long form belongs to a whole entry.  A scan that meets the    *)
(* alias of an entry then reads the name it was given, provided it began   *)
(* before the entry does, whatever the scan has passed before; and what    *)
(* adding, removing and synchronizing do to the slots is what they do to a *)
(* set of entries.                                                         *)
(***************************************************************************)
EXTENDS Directory, FiniteSetTheorems, WellFoundedInduction, TLAPS

-----------------------------------------------------------------------------
(* Numbers. *)

(* A set of natural numbers that is not empty has a least one.             *)
LEMMA LeastExists ==
  ASSUME NEW S \in SUBSET Nat, S # {}
  PROVE  \E m \in S : \A n \in S : m <= n
<1> DEFINE T == {0 .. n : n \in S}
<1>1. IsWellFoundedOn(StrictSubsetOrdering(Nat), FiniteSubsetsOf(Nat))
  BY FS_StrictSubsetOrderingWellFounded
<1>2. T \subseteq FiniteSubsetsOf(Nat) /\ T # {}
  <2>1. \A n \in S : IsFiniteSet(0 .. n) /\ 0 .. n \in SUBSET Nat
    BY FS_Interval
  <2> QED
    BY <2>1 DEF FiniteSubsetsOf
<1>3. PICK x \in T : \A y \in T : ~(<<y, x>> \in StrictSubsetOrdering(Nat))
  <2> HIDE DEF T
  <2> QED
    BY <1>1, <1>2, WFMin
<1>4. PICK m \in S : x = 0 .. m
  OBVIOUS
<1>5. ASSUME NEW n \in S
      PROVE  m <= n
  <2>1. <<0 .. n, 0 .. m>> \notin StrictSubsetOrdering(Nat)
    BY <1>3, <1>4
  <2>2. 0 .. n \subseteq Nat /\ 0 .. m \subseteq Nat
    OBVIOUS
  <2>3. CASE n < m
    <3>1. 0 .. n \subseteq 0 .. m /\ m \in 0 .. m /\ m \notin 0 .. n
      BY <2>3
    <3> QED
      BY <2>1, <2>2, <3>1 DEF StrictSubsetOrdering
  <2> QED
    BY <2>3
<1> QED
  BY <1>4, <1>5

(* Least is the least of such a set. *)
LEMMA LeastIs ==
  ASSUME NEW S \in SUBSET Nat, S # {}
  PROVE  Least(S) \in S /\ \A n \in S : Least(S) <= n
<1>1. \E m \in S : \A n \in S : m <= n
  BY LeastExists
<1> QED
  BY <1>1 DEF Least

(* A set of numbers with a bound has a greatest one. *)
LEMMA GreatestExists ==
  ASSUME NEW b \in Nat, NEW S \in SUBSET (0 .. b), S # {}
  PROVE  \E m \in S : \A n \in S : n <= m
<1> DEFINE T == {b - n : n \in S}
<1>1. T \in SUBSET Nat /\ T # {}
  <2>1. \A n \in S : b - n \in Nat /\ b - n \in T
    OBVIOUS
  <2>2. \A x \in T : \E n \in S : x = b - n
    OBVIOUS
  <2> HIDE DEF T
  <2> QED
    BY <2>1, <2>2
<1>2. PICK t \in T : \A u \in T : t <= u
  <2> HIDE DEF T
  <2> QED
    BY <1>1, LeastExists
<1>3. PICK m \in S : t = b - m
  OBVIOUS
<1>4. ASSUME NEW n \in S
      PROVE  n <= m
  <2>1. b - m <= b - n
    BY <1>2, <1>3
  <2> QED
    BY <2>1
<1> QED
  BY <1>4

-----------------------------------------------------------------------------
(* Reading a row. *)

(* The alias slots before the end of the row. *)
Ends(row) == {e \in Positions : e < EndOfRow(row) /\ row[e].kind = "alias"}

(* The entry with the alias slot e has a long form. *)
HasLongForm(row, e) == e > 1 /\ row[e - 1].kind = "long"

(* Its name, the first of its slots, and the entry as a scan reads it that *)
(* begins before that.                                                     *)
NameAt(row, e) == IF HasLongForm(row, e) THEN row[e - 1].name ELSE row[e].alias
StartAt(row, e) == IF HasLongForm(row, e) THEN e - Parts[row[e - 1].name] ELSE e
Read(row, e) ==
  [start |-> StartAt(row, e), end |-> e, alias |-> row[e].alias,
   file |-> row[e].file, data |-> row[e].data, name |-> NameAt(row, e)]

(* The slots are slots, and those of long forms belong to entries. *)
Sound(row) ==
  /\ row = [k \in Positions |-> row[k]]
  /\ \A k \in Positions : IsSlot(row[k])
  /\ \A k \in Positions : k < EndOfRow(row) /\ row[k].kind = "long" =>
       \E n \in Names, e \in Ends(row) :
         IsLongForm(row, n, e) /\ k \in e - Parts[n] .. e - 1

(* No string means two entries, and no two entries are one file. *)
Distinct(row) ==
  \A e \in Ends(row) :
    /\ row[e].file \in Files
    /\ \A d \in Ends(row) \ {e} :
         /\ row[d].file # row[e].file
         /\ NameAt(row, e) # NameAt(row, d) /\ NameAt(row, e) # row[d].alias
         /\ row[e].alias # NameAt(row, d) /\ row[e].alias # row[d].alias

(* The end of the row is the first Last. *)
LEMMA EndIs ==
  ASSUME NEW row
  PROVE  /\ EndOfRow(row) \in 1 .. SlotCount + 1
         /\ \A k \in Positions : k < EndOfRow(row) => row[k] # Last
         /\ EndOfRow(row) <= SlotCount => row[EndOfRow(row)] = Last
<1> DEFINE ends == {k \in Positions : row[k] = Last}
<1>1. ends \in SUBSET Nat /\ ends \subseteq 1 .. SlotCount
  BY SlotCountAssumption DEF Positions
<1>2. EndOfRow(row) = IF ends = {} THEN SlotCount + 1 ELSE Least(ends)
  BY DEF EndOfRow
<1>3. ends # {} => Least(ends) \in ends /\ \A n \in ends : Least(ends) <= n
  <2> HIDE DEF ends
  <2> QED
    BY <1>1, LeastIs
<1>4. CASE ends = {}
  BY <1>2, <1>4, SlotCountAssumption DEF Positions
<1>5. CASE ends # {}
  <2>1. EndOfRow(row) \in ends /\ \A n \in ends : EndOfRow(row) <= n
    BY <1>2, <1>3, <1>5
  <2>2. ASSUME NEW k \in Positions, k < EndOfRow(row)
        PROVE  row[k] # Last
    <3>1. k \notin ends
      BY <1>1, <2>1, <2>2
    <3> QED
      BY <3>1
  <2> QED
    BY <2>1, <2>2, SlotCountAssumption DEF Positions
<1> QED
  BY <1>4, <1>5

(* Conversely, a place with a Last, and none before it, is the end. *)
LEMMA EndFound ==
  ASSUME NEW row, NEW m \in 1 .. SlotCount + 1,
         \A k \in Positions : k < m => row[k] # Last,
         m <= SlotCount => row[m] = Last
  PROVE  EndOfRow(row) = m
<1>1. EndOfRow(row) \in 1 .. SlotCount + 1 /\ SlotCount \in Nat
  BY EndIs, SlotCountAssumption
<1>2. ~(EndOfRow(row) < m)
  <2> SUFFICES ASSUME EndOfRow(row) < m PROVE FALSE
    OBVIOUS
  <2>1. EndOfRow(row) <= SlotCount /\ EndOfRow(row) \in Positions
    BY <1>1 DEF Positions
  <2> QED
    BY <2>1, EndIs
<1>3. ~(m < EndOfRow(row))
  <2> SUFFICES ASSUME m < EndOfRow(row) PROVE FALSE
    OBVIOUS
  <2>1. m <= SlotCount /\ m \in Positions
    BY <1>1 DEF Positions
  <2> QED
    BY <2>1, EndIs
<1> QED
  BY <1>1, <1>2, <1>3

(* A scan from before the end gets to the aliases before the end. *)
LEMMA AliasesAfterIs ==
  ASSUME NEW row, NEW pos \in Nat, pos < EndOfRow(row)
  PROVE  AliasesAfter(row, pos) = {e \in Ends(row) : e > pos}
<1>1. EndOfRow(row) \in 1 .. SlotCount + 1 /\ SlotCount \in Nat
  BY EndIs, SlotCountAssumption
<1>2. ASSUME NEW e \in Positions, e > pos
      PROVE  (\A k \in pos + 1 .. e : row[k] # Last) <=> e < EndOfRow(row)
  <2>1. ASSUME e < EndOfRow(row), NEW k \in pos + 1 .. e
        PROVE  row[k] # Last
    <3>1. k \in Positions /\ k < EndOfRow(row)
      BY <1>1, <2>1 DEF Positions
    <3> QED
      BY <3>1, EndIs
  <2>2. ASSUME ~(e < EndOfRow(row))
        PROVE  \E k \in pos + 1 .. e : row[k] = Last
    <3>1. EndOfRow(row) \in pos + 1 .. e /\ EndOfRow(row) <= SlotCount
      BY <1>1, <1>2, <2>2 DEF Positions
    <3> QED
      BY <3>1, EndIs
  <2> QED
    BY <2>1, <2>2
<1> QED
  BY <1>2 DEF AliasesAfter, Ends

(* What a slot is, its kind says. *)
LEMMA SlotIs ==
  ASSUME NEW slot, IsSlot(slot)
  PROVE  /\ slot.kind \in {"last", "free", "volume", "long", "alias"}
         /\ slot = Last <=> slot.kind = "last"
         /\ slot = Free <=> slot.kind = "free"
         /\ slot.kind = "long" => slot.name \in Names /\ slot.alias \in Aliases
         /\ slot.kind = "alias" => slot.alias \in Aliases /\ slot.data \in Data
<1>1. Last.kind = "last" /\ Free.kind = "free" /\ Volume.kind = "volume"
  BY DEF Last, Free, Volume
<1>2. \/ slot = Last \/ slot = Free \/ slot = Volume
      \/ slot.kind = "long" /\ slot.name \in Names /\ slot.alias \in Aliases
      \/ slot.kind = "alias" /\ slot.alias \in Aliases /\ slot.data \in Data
  BY DEF IsSlot
<1> QED
  BY <1>1, <1>2

LEMMA MadeSlots ==
  ASSUME NEW n \in Names, NEW alias \in Aliases, NEW file, NEW data \in Data, NEW first
  PROVE  /\ IsSlot(Last) /\ IsSlot(Free)
         /\ IsSlot(Long(n, alias, first)) /\ Long(n, alias, first).kind = "long"
         /\ Long(n, alias, first).name = n /\ Long(n, alias, first).alias = alias
         /\ Long(n, alias, first).first = first
         /\ IsSlot(Alias(alias, file, data)) /\ Alias(alias, file, data).kind = "alias"
         /\ Alias(alias, file, data).alias = alias /\ Alias(alias, file, data).file = file
         /\ Alias(alias, file, data).data = data
BY DEF IsSlot, Last, Free, Long, Alias

(* What the slots of a long form hold. *)
LEMMA LongIs ==
  ASSUME NEW n, NEW alias, NEW first
  PROVE  /\ Long(n, alias, first).kind = "long" /\ Long(n, alias, first).name = n
         /\ Long(n, alias, first).alias = alias /\ Long(n, alias, first).first = first
         /\ Long(n, alias, first) # Free
BY DEF Long, Free

LEMMA LongFormIs ==
  ASSUME NEW row, NEW n, NEW e, IsLongForm(row, n, e)
  PROVE  /\ Parts[n] \in 1 .. e - 1
         /\ \A k \in e - Parts[n] .. e - 1 :
              /\ row[k] = Long(n, row[e].alias, k = e - Parts[n])
              /\ row[k].kind = "long" /\ row[k].name = n /\ row[k].alias = row[e].alias
              /\ row[k].first = (k = e - Parts[n])
              /\ row[k] # Free
<1>1. /\ Parts[n] \in 1 .. e - 1
      /\ \A k \in e - Parts[n] .. e - 1 : row[k] = Long(n, row[e].alias, k = e - Parts[n])
  BY DEF IsLongForm
<1>2. ASSUME NEW k \in e - Parts[n] .. e - 1
      PROVE  /\ row[k] = Long(n, row[e].alias, k = e - Parts[n])
             /\ row[k].kind = "long" /\ row[k].name = n /\ row[k].alias = row[e].alias
             /\ row[k].first = (k = e - Parts[n])
             /\ row[k] # Free
  <2> DEFINE first == (k = e - Parts[n])
  <2>1. row[k] = Long(n, row[e].alias, first)
    BY <1>1
  <2> HIDE DEF first
  <2>2. /\ row[k].kind = "long" /\ row[k].name = n /\ row[k].alias = row[e].alias
        /\ row[k].first = first /\ row[k] # Free
    BY <2>1, LongIs
  <2> QED
    BY <2>1, <2>2, Zenon DEF first
<1> QED
  BY <1>1, <1>2, Zenon

(* A slot of a long form belongs to the entry with the next alias.  The    *)
(* entry of the alias e has its long form in the slots from StartAt on.    *)
LEMMA LongForms ==
  ASSUME NEW row, Sound(row), NEW e \in Ends(row)
  PROVE  /\ e \in Nat /\ e >= 1 /\ e <= SlotCount
         /\ StartAt(row, e) \in 1 .. e
         /\ \A k \in StartAt(row, e) .. e - 1 : row[k].kind = "long"
         /\ HasLongForm(row, e) =>
              /\ NameAt(row, e) \in Names
              /\ StartAt(row, e) = e - Parts[NameAt(row, e)]
              /\ IsLongForm(row, NameAt(row, e), e)
         /\ ~HasLongForm(row, e) => StartAt(row, e) = e /\ NameAt(row, e) = row[e].alias
         /\ NameAt(row, e) \in Strings
<1>1. /\ e \in Positions /\ e \in Nat /\ e >= 1 /\ e <= SlotCount /\ SlotCount \in Nat
      /\ e < EndOfRow(row) /\ row[e].kind = "alias" /\ row[e].alias \in Aliases
  BY SlotCountAssumption, SlotIs DEF Ends, Positions, Sound
<1>2. CASE HasLongForm(row, e)
  <2>1. /\ e - 1 \in Positions /\ e - 1 < EndOfRow(row) /\ row[e - 1].kind = "long"
        /\ EndOfRow(row) \in Nat
    BY <1>1, <1>2, EndIs DEF HasLongForm, Positions
  <2>2. PICK n \in Names, d \in Ends(row) :
          IsLongForm(row, n, d) /\ e - 1 \in d - Parts[n] .. d - 1
    BY <2>1 DEF Sound
  <2>3. d \in Nat /\ row[d].kind = "alias" /\ Parts[n] \in 1 .. d - 1
    BY <2>2 DEF Ends, Positions, IsLongForm
  <2>4. \A k \in d - Parts[n] .. d - 1 : row[k].kind = "long" /\ row[k].name = n
    BY <2>2, LongFormIs
  <2>5. e = d
    BY <1>1, <2>1, <2>2, <2>3, <2>4
  <2>6. NameAt(row, e) = n /\ StartAt(row, e) = e - Parts[n]
    BY <1>2, <2>2, <2>3, <2>4, <2>5 DEF NameAt, StartAt
  <2> QED
    BY <1>1, <1>2, <2>2, <2>3, <2>4, <2>5, <2>6 DEF Strings
<1>3. CASE ~HasLongForm(row, e)
  BY <1>1, <1>3 DEF NameAt, StartAt, Strings
<1> QED
  BY <1>1, <1>2, <1>3

(* What follows a slot of a long form, before the end of the row, is the   *)
(* rest of its entry.                                                      *)
LEMMA LongBelongs ==
  ASSUME NEW row, Sound(row), NEW k \in Positions, k < EndOfRow(row), row[k].kind = "long"
  PROVE  \E e \in Ends(row) :
           /\ HasLongForm(row, e) /\ k \in StartAt(row, e) .. e - 1
           /\ \A d \in Ends(row) : d > k => d >= e
<1>1. PICK n \in Names, e \in Ends(row) :
        IsLongForm(row, n, e) /\ k \in e - Parts[n] .. e - 1
  BY DEF Sound
<1>2. e \in Nat /\ Parts[n] \in 1 .. e - 1 /\ k \in Nat
  BY <1>1 DEF Ends, Positions, IsLongForm
<1>3. \A j \in e - Parts[n] .. e - 1 : row[j].kind = "long" /\ row[j].name = n
  BY <1>1, LongFormIs
<1>4. HasLongForm(row, e) /\ StartAt(row, e) = e - Parts[n]
  BY <1>2, <1>3 DEF HasLongForm, StartAt
<1>5. ASSUME NEW d \in Ends(row), d > k
      PROVE  d >= e
  <2>1. d \in Nat /\ row[d].kind = "alias"
    BY DEF Ends, Positions
  <2> QED
    BY <1>1, <1>2, <1>3, <1>5, <2>1
<1> QED
  BY <1>1, <1>4, <1>5

(* Between the first and the last slot of an entry there is no other.      *)
LEMMA Apart ==
  ASSUME NEW row, Sound(row), NEW d \in Ends(row), NEW e \in Ends(row), d < e
  PROVE  d < StartAt(row, e)
<1>1. d \in Nat /\ row[d].kind = "alias"
  BY DEF Ends, Positions
<1> QED
  BY <1>1, LongForms

(* A scan that meets the alias e, the first one behind pos, reads the      *)
(* entry, or, when it began within it, the alias only.                     *)
LEMMA EntryAtIs ==
  ASSUME NEW row, Sound(row), NEW e \in Ends(row), NEW pos \in Nat, pos < e,
         \A d \in Ends(row) : pos < d => e <= d
  PROVE  /\ EntryAt(row, pos, e).end = e
         /\ pos < StartAt(row, e) => EntryAt(row, pos, e) = Read(row, e)
         /\ EntryAt(row, pos, e).name = (IF pos < StartAt(row, e) THEN NameAt(row, e) ELSE row[e].alias)
<1> DEFINE starts == LongStarts(row, pos, e)
<1>1. /\ e \in Nat /\ e >= 1 /\ e <= SlotCount /\ SlotCount \in Nat /\ e < EndOfRow(row)
      /\ StartAt(row, e) \in 1 .. e
      /\ EndOfRow(row) \in Nat
  BY LongForms, SlotCountAssumption, EndIs DEF Ends
<1>2. ASSUME NEW s \in starts
      PROVE  HasLongForm(row, e) /\ s = StartAt(row, e)
  <2>1. s \in pos + 1 .. e - 1 /\ row[s].kind = "long" /\ row[s].first
    BY DEF LongStarts
  <2>2. s \in Positions /\ s < EndOfRow(row)
    BY <1>1, <2>1 DEF Positions
  <2>3. PICK d \in Ends(row) :
          /\ HasLongForm(row, d) /\ s \in StartAt(row, d) .. d - 1
          /\ \A c \in Ends(row) : c > s => c >= d
    BY <2>1, <2>2, LongBelongs
  <2>4. d \in Nat /\ StartAt(row, d) \in 1 .. d
    BY <2>3, LongForms
  <2>5. d = e
    BY <1>1, <2>1, <2>3, <2>4
  <2>6. /\ IsLongForm(row, NameAt(row, e), e)
        /\ StartAt(row, e) = e - Parts[NameAt(row, e)]
    BY <2>3, <2>5, LongForms
  <2>7. row[s].first = (s = StartAt(row, e))
    BY <2>3, <2>5, <2>6, LongFormIs
  <2> QED
    BY <2>1, <2>3, <2>5, <2>7
<1>3. ASSUME HasLongForm(row, e), pos < StartAt(row, e)
      PROVE  StartAt(row, e) \in starts
  <2> DEFINE s == StartAt(row, e)
  <2>1. /\ s \in Nat /\ s = e - Parts[NameAt(row, e)] /\ Parts[NameAt(row, e)] \in 1 .. e - 1
        /\ s \in pos + 1 .. e - 1
    BY <1>1, <1>3, LongForms DEF IsLongForm
  <2>2. IsLongForm(row, NameAt(row, e), e)
    BY <1>3, LongForms
  <2>3. \A k \in s .. e - 1 :
          /\ row[k].kind = "long" /\ row[k].alias = row[e].alias /\ row[k].first = (k = s)
          /\ row[k] # Free
    BY <2>1, <2>2, LongFormIs
  <2> HIDE DEF s
  <2>4. row[s].kind = "long" /\ row[s].first
    <3>1. s \in s .. e - 1
      BY <1>1, <2>1
    <3>2. row[s].first = (s = s)
      BY <2>3, <3>1
    <3> QED
      BY <2>3, <3>1, <3>2
  <2>5. ASSUME NEW k \in s .. e - 1, k > s
        PROVE  ~row[k].first
    <3>1. row[k].first = (k = s) /\ s \in Nat
      BY <2>1, <2>3
    <3>2. (k = s) = FALSE
      BY <2>5, <3>1
    <3> QED
      BY <3>1, <3>2
  <2>6. \A k \in s .. e - 1 :
          /\ row[k] # Free
          /\ row[k].kind = "long" =>
               row[k].alias = row[e].alias /\ (k > s => ~row[k].first)
    BY <2>3, <2>5
  <2>7. s \in starts
    BY <2>1, <2>4, <2>6 DEF LongStarts
  <2> QED
    BY <2>7 DEF s
<1>4. EntryAt(row, pos, e) =
        LET start  == IF starts = {} THEN e ELSE Least(starts)
        IN [start |-> start, end |-> e, alias |-> row[e].alias,
            file |-> row[e].file, data |-> row[e].data,
            name |-> IF starts = {} THEN row[e].alias
                     ELSE IF e - start = Parts[row[start].name] THEN row[start].name
                     ELSE "garbled"]
  BY DEF EntryAt
<1>5. starts # {} <=> HasLongForm(row, e) /\ pos < StartAt(row, e)
  <2>1. \A s \in starts : pos < s
    BY DEF LongStarts
  <2> QED
    BY <1>2, <1>3, <2>1
<1>6. starts # {} => Least(starts) = StartAt(row, e)
  <2> SUFFICES ASSUME starts # {}
               PROVE  Least(starts) = StartAt(row, e)
    OBVIOUS
  <2>1. starts \in SUBSET Nat
    BY <1>1, <1>2
  <2>2. Least(starts) \in starts
    <3> HIDE DEF starts
    <3> QED
      BY <2>1, LeastIs
  <2> QED
    BY <1>2, <2>2
<1> HIDE DEF starts
<1>7. CASE starts = {}
  <2>1. EntryAt(row, pos, e) =
          [start |-> e, end |-> e, alias |-> row[e].alias,
           file |-> row[e].file, data |-> row[e].data, name |-> row[e].alias]
    BY <1>4, <1>7
  <2>2. pos < StartAt(row, e) => StartAt(row, e) = e /\ NameAt(row, e) = row[e].alias
    BY <1>5, <1>7, LongForms
  <2> QED
    BY <2>1, <2>2 DEF Read
<1>8. CASE starts # {}
  <2>1. HasLongForm(row, e) /\ pos < StartAt(row, e)
    BY <1>5, <1>8
  <2>2. /\ StartAt(row, e) = e - Parts[NameAt(row, e)] /\ Parts[NameAt(row, e)] \in 1 .. e - 1
        /\ \A k \in StartAt(row, e) .. e - 1 : row[k].name = NameAt(row, e)
    BY <2>1, LongForms, LongFormIs
  <2>3. row[StartAt(row, e)].name = NameAt(row, e)
    <3>1. StartAt(row, e) \in StartAt(row, e) .. e - 1
      BY <1>1, <2>2
    <3> QED
      BY <2>2, <3>1
  <2>4. e - StartAt(row, e) = Parts[row[StartAt(row, e)].name]
    BY <1>1, <2>2, <2>3
  <2>5. EntryAt(row, pos, e) =
          [start |-> StartAt(row, e), end |-> e, alias |-> row[e].alias,
           file |-> row[e].file, data |-> row[e].data, name |-> NameAt(row, e)]
    BY <1>4, <1>6, <1>8, <2>3, <2>4
  <2> QED
    BY <2>1, <2>5 DEF Read
<1> QED
  BY <1>7, <1>8

(* A scan goes on to the next alias, if there is one before the end.       *)
LEMMA NextEntriesAre ==
  ASSUME NEW row, NEW pos \in Nat, pos < EndOfRow(row)
  PROVE  \/ NextEntries(row, pos) = {} /\ \A d \in Ends(row) : d <= pos
         \/ \E e \in Ends(row) :
              /\ pos < e /\ \A d \in Ends(row) : pos < d => e <= d
              /\ NextEntries(row, pos) = {EntryAt(row, pos, e)}
<1> DEFINE found == {e \in Ends(row) : e > pos}
<1>1. NextEntries(row, pos) = IF found = {} THEN {} ELSE {EntryAt(row, pos, Least(found))}
  BY AliasesAfterIs DEF NextEntries
<1>2. Ends(row) \in SUBSET Nat
  BY DEF Ends, Positions
<1>3. CASE found = {}
  BY <1>1, <1>2, <1>3
<1>4. CASE found # {}
  <2>1. Least(found) \in found /\ \A d \in found : Least(found) <= d
    <3>1. found \in SUBSET Nat
      BY <1>2
    <3> HIDE DEF found
    <3> QED
      BY <1>4, <3>1, LeastIs
  <2>2. PICK e \in Ends(row) : e = Least(found)
    BY <2>1
  <2>3. pos < e /\ \A d \in Ends(row) : pos < d => e <= d
    BY <2>1, <2>2
  <2>4. NextEntries(row, pos) = {EntryAt(row, pos, e)}
    BY <1>1, <1>4, <2>2
  <2> QED
    BY <2>3, <2>4
<1> QED
  BY <1>3, <1>4

(* The listing is the entries, each read from its beginning. *)
LEMMA ListingIs ==
  ASSUME NEW row, Sound(row)
  PROVE  Listing(row) = {Read(row, e) : e \in Ends(row)}
<1> DEFINE ends == AliasesAfter(row, 0)
           From(e) == CHOOSE p \in {0} \cup ends : p < e /\ \A d \in ends : d < e => d <= p
<1>1. ends = Ends(row) /\ ends \in SUBSET Positions
  <2>1. 0 < EndOfRow(row)
    BY EndIs, SlotCountAssumption
  <2>2. ends = {e \in Ends(row) : e > 0}
    BY <2>1, AliasesAfterIs
  <2>3. \A e \in Ends(row) : e > 0 /\ e \in Positions
    BY DEF Ends, Positions
  <2> QED
    BY <2>2, <2>3
<1>2. Listing(row) = {EntryAt(row, From(e), e) : e \in ends}
  BY DEF Listing
<1>3. ASSUME NEW e \in ends
      PROVE  EntryAt(row, From(e), e) = Read(row, e)
  <2> DEFINE S == {p \in {0} \cup ends : p < e}
  <2>1. e \in Nat /\ e >= 1 /\ ends \in SUBSET Nat
    BY <1>1 DEF Positions
  <2>2. S \in SUBSET (0 .. e) /\ 0 \in S
    BY <2>1
  <2>3. PICK m \in S : \A p \in S : p <= m
    <3>1. S # {}
      BY <2>2
    <3> HIDE DEF S
    <3> QED
      BY <2>1, <2>2, <3>1, GreatestExists
  <2>4. \E p \in {0} \cup ends : p < e /\ \A d \in ends : d < e => d <= p
    BY <2>3
  <2>5. From(e) \in {0} \cup ends /\ From(e) < e /\ \A d \in ends : d < e => d <= From(e)
    BY <2>4
  <2> DEFINE p == From(e)
  <2>6. p \in {0} \cup ends /\ p < e /\ \A d \in ends : d < e => d <= p
    BY <2>5
  <2> HIDE DEF p
  <2>7. p \in Nat /\ \A d \in Ends(row) : p < d => e <= d
    BY <1>1, <2>1, <2>6
  <2>8. p < StartAt(row, e)
    <3>1. CASE p = 0
      BY <1>1, <3>1, LongForms
    <3>2. CASE p \in ends
      BY <1>1, <2>6, <3>2, Apart
    <3> QED
      BY <2>6, <3>1, <3>2
  <2>9. e \in Ends(row)
    BY <1>1
  <2>10. EntryAt(row, p, e) = Read(row, e)
    <3> HIDE DEF ends
    <3> QED
      BY <2>6, <2>7, <2>8, <2>9, EntryAtIs
  <2> QED
    BY <2>10 DEF p
<1> HIDE DEF From
<1> QED
  BY <1>1, <1>2, <1>3

LEMMA ReadIs ==
  ASSUME NEW row, NEW e
  PROVE  /\ Read(row, e).start = StartAt(row, e) /\ Read(row, e).end = e
         /\ Read(row, e).alias = row[e].alias /\ Read(row, e).file = row[e].file
         /\ Read(row, e).data = row[e].data /\ Read(row, e).name = NameAt(row, e)
BY DEF Read

LEMMA FoundIs ==
  ASSUME NEW row, Sound(row), NEW s, NEW e \in Found(row, s)
  PROVE  \E d \in Ends(row) : e = Read(row, d) /\ (s = NameAt(row, d) \/ s = row[d].alias)
<1>1. e \in Listing(row) /\ Answers(e, s)
  BY DEF Found
<1>2. PICK d \in Ends(row) : e = Read(row, d)
  BY <1>1, ListingIs
<1> QED
  BY <1>1, <1>2, ReadIs DEF Answers

LEMMA ExistsIs ==
  ASSUME NEW row, Sound(row), NEW s
  PROVE  EntryExists(row, s) <=> \E d \in Ends(row) : s = NameAt(row, d) \/ s = row[d].alias
<1>1. \A d \in Ends(row) : Read(row, d) \in Listing(row)
  BY ListingIs
<1>2. \A e \in Listing(row) : \E d \in Ends(row) : e = Read(row, d)
  BY ListingIs
<1> QED
  BY <1>1, <1>2, ReadIs DEF EntryExists, Answers

(* What InOrder says, in terms of the entries. *)
LEMMA InOrderIs ==
  ASSUME NEW row
  PROVE  InOrder(row) <=> Sound(row) /\ Distinct(row)
<1>1. AliasesAfter(row, 0) = Ends(row)
  <2>1. 0 < EndOfRow(row)
    BY EndIs, SlotCountAssumption
  <2>2. AliasesAfter(row, 0) = {e \in Ends(row) : e > 0}
    BY <2>1, AliasesAfterIs
  <2>3. \A e \in Ends(row) : e > 0
    BY DEF Ends, Positions
  <2> QED
    BY <2>2, <2>3
<1>2. InOrder(row) => Sound(row)
  BY <1>1 DEF InOrder, Sound
<1>3. ASSUME Sound(row)
      PROVE  InOrder(row) <=>
               \A e \in Listing(row) :
                 /\ e.file \in Files
                 /\ \A d \in Listing(row) \ {e} :
                      d.file # e.file /\ ~ Answers(d, e.name) /\ ~ Answers(d, e.alias)
  BY <1>1, <1>3 DEF InOrder, Sound
<1>4. ASSUME Sound(row)
      PROVE  (\A e \in Listing(row) :
                 /\ e.file \in Files
                 /\ \A d \in Listing(row) \ {e} :
                      d.file # e.file /\ ~ Answers(d, e.name) /\ ~ Answers(d, e.alias))
               <=> Distinct(row)
  <2>1. Listing(row) = {Read(row, e) : e \in Ends(row)}
    BY <1>4, ListingIs
  <2>2. \A d, e \in Ends(row) : d # e => Read(row, d) # Read(row, e)
    <3> SUFFICES ASSUME NEW d \in Ends(row), NEW e \in Ends(row), Read(row, d) = Read(row, e)
                 PROVE  d = e
      OBVIOUS
    <3>1. Read(row, d).end = d /\ Read(row, e).end = e
      BY ReadIs
    <3> QED
      BY <3>1
  <2>3. ASSUME NEW d \in Ends(row), NEW e \in Ends(row)
        PROVE  /\ Read(row, d).file = row[d].file
               /\ Answers(Read(row, d), Read(row, e).name) <=>
                    NameAt(row, e) = NameAt(row, d) \/ NameAt(row, e) = row[d].alias
               /\ Answers(Read(row, d), Read(row, e).alias) <=>
                    row[e].alias = NameAt(row, d) \/ row[e].alias = row[d].alias
    BY ReadIs DEF Answers
  <2>4. ASSUME \A e \in Listing(row) :
                 /\ e.file \in Files
                 /\ \A d \in Listing(row) \ {e} :
                      d.file # e.file /\ ~ Answers(d, e.name) /\ ~ Answers(d, e.alias)
        PROVE  Distinct(row)
    <3>1. ASSUME NEW e \in Ends(row)
          PROVE  row[e].file \in Files
      BY <2>1, <2>3, <2>4
    <3>2. ASSUME NEW e \in Ends(row), NEW d \in Ends(row), d # e
          PROVE  /\ Read(row, d).file # Read(row, e).file
                 /\ ~ Answers(Read(row, d), Read(row, e).name)
                 /\ ~ Answers(Read(row, d), Read(row, e).alias)
      <4>1. Read(row, e) \in Listing(row) /\ Read(row, d) \in Listing(row) \ {Read(row, e)}
        BY <2>1, <2>2, <3>2
      <4> QED
        BY <2>4, <4>1
    <3> QED
      BY <2>3, <3>1, <3>2 DEF Distinct
  <2>5. ASSUME Distinct(row), NEW e \in Listing(row)
        PROVE  /\ e.file \in Files
               /\ \A d \in Listing(row) \ {e} :
                    d.file # e.file /\ ~ Answers(d, e.name) /\ ~ Answers(d, e.alias)
    <3>1. PICK x \in Ends(row) : e = Read(row, x)
      BY <2>1
    <3>2. ASSUME NEW d \in Listing(row) \ {e}
          PROVE  d.file # e.file /\ ~ Answers(d, e.name) /\ ~ Answers(d, e.alias)
      <4>1. PICK y \in Ends(row) : d = Read(row, y)
        BY <2>1
      <4>2. y # x
        BY <3>1, <4>1
      <4>3. /\ row[y].file # row[x].file
            /\ NameAt(row, x) # NameAt(row, y) /\ NameAt(row, x) # row[y].alias
            /\ row[x].alias # NameAt(row, y) /\ row[x].alias # row[y].alias
        BY <2>5, <4>2 DEF Distinct
      <4> QED
        BY <2>3, <3>1, <4>1, <4>3
    <3> QED
      BY <2>3, <2>5, <3>1, <3>2 DEF Distinct
  <2> QED
    BY <2>4, <2>5
<1> QED
  BY <1>2, <1>3, <1>4

-----------------------------------------------------------------------------
(* Changing a row. *)

(* The entry e of the row is in the new row as it was. *)
Keeps(row, new, e) ==
  /\ new[e] = row[e]
  /\ NameAt(new, e) = NameAt(row, e) /\ StartAt(new, e) = StartAt(row, e)
  /\ HasLongForm(new, e) <=> HasLongForm(row, e)

(* It is, if its alias and the slot before that are. *)
LEMMA KeepsIf ==
  ASSUME NEW row, NEW new, NEW e, new[e] = row[e],
         \/ new[e - 1] = row[e - 1]
         \/ new[e - 1].kind # "long" /\ row[e - 1].kind # "long"
         \/ e = 1
  PROVE  Keeps(row, new, e)
BY DEF Keeps, NameAt, StartAt, HasLongForm

(* Its long form is, if the slots of the long form are. *)
LEMMA LongFormStays ==
  ASSUME NEW row, NEW new, NEW n, NEW e, IsLongForm(row, n, e), new[e] = row[e],
         \A k \in e - Parts[n] .. e - 1 : new[k] = row[k]
  PROVE  IsLongForm(new, n, e)
BY DEF IsLongForm

(* Slots behind the end may change. *)
LEMMA Cleared ==
  ASSUME NEW row, Sound(row), NEW new,
         new = [k \in Positions |-> IF k > EndOfRow(row) THEN Last ELSE row[k]]
  PROVE  /\ Sound(new) /\ EndOfRow(new) = EndOfRow(row) /\ Ends(new) = Ends(row)
         /\ \A k \in Positions : k <= EndOfRow(row) => new[k] = row[k]
         /\ \A e \in Ends(row) : Keeps(row, new, e)
<1>1. EndOfRow(row) \in 1 .. SlotCount + 1 /\ SlotCount \in Nat
  BY EndIs, SlotCountAssumption
<1>2. \A k \in Positions : k <= EndOfRow(row) => new[k] = row[k]
  BY <1>1 DEF Positions
<1>3. EndOfRow(new) = EndOfRow(row)
  <2>1. \A k \in Positions : k < EndOfRow(row) => new[k] # Last
    BY <1>1, <1>2, EndIs DEF Positions
  <2>2. EndOfRow(row) <= SlotCount => new[EndOfRow(row)] = Last
    <3>1. EndOfRow(row) <= SlotCount => EndOfRow(row) \in Positions
      BY <1>1 DEF Positions
    <3> QED
      BY <1>1, <1>2, <3>1, EndIs
  <2> QED
    BY <1>1, <2>1, <2>2, EndFound
<1>4. Ends(new) = Ends(row)
  BY <1>1, <1>2, <1>3 DEF Ends, Positions
<1>5. ASSUME NEW e \in Ends(row)
      PROVE  Keeps(row, new, e)
  <2>1. e \in Positions /\ e \in Nat /\ e < EndOfRow(row) /\ new[e] = row[e]
    BY <1>1, <1>2 DEF Ends, Positions
  <2>2. e # 1 => new[e - 1] = row[e - 1]
    <3>1. e # 1 => e - 1 \in Positions /\ e - 1 <= EndOfRow(row)
      BY <1>1, <2>1 DEF Positions
    <3> QED
      BY <1>2, <3>1
  <2> QED
    BY <2>1, <2>2, KeepsIf
<1>6. Sound(new)
  <2>1. \A k \in Positions : IsSlot(new[k])
    BY MadeSlots DEF Sound, IsSlot
  <2>2. ASSUME NEW k \in Positions, k < EndOfRow(new), new[k].kind = "long"
        PROVE  \E n \in Names, e \in Ends(new) :
                 IsLongForm(new, n, e) /\ k \in e - Parts[n] .. e - 1
    <3>1. k < EndOfRow(row) /\ row[k].kind = "long"
      BY <1>1, <1>2, <1>3, <2>2 DEF Positions
    <3>2. PICK n \in Names, e \in Ends(row) :
            IsLongForm(row, n, e) /\ k \in e - Parts[n] .. e - 1
      BY <3>1 DEF Sound
    <3>3. e \in Positions /\ e < EndOfRow(row) /\ Parts[n] \in 1 .. e - 1
      BY <3>2, LongFormIs DEF Ends
    <3>4. \A j \in e - Parts[n] .. e - 1 : j \in Positions /\ j <= EndOfRow(row)
      BY <1>1, <3>3 DEF Positions
    <3>5. IsLongForm(new, n, e)
      <4>1. new[e] = row[e]
        BY <1>1, <1>2, <3>3 DEF Positions
      <4> QED
        BY <1>2, <3>2, <3>4, <4>1, LongFormStays
    <3> QED
      BY <1>4, <3>2, <3>5
  <2> QED
    BY <2>1, <2>2 DEF Sound
<1> QED
  BY <1>2, <1>3, <1>4, <1>5, <1>6

(* New slots in place of removed ones or from the end on. *)
LEMMA Placed ==
  ASSUME NEW row, Sound(row), NEW new,
         new = [k \in Positions |-> new[k]], \A k \in Positions : IsSlot(new[k]),
         NEW n \in Names, NEW alias \in Aliases, NEW file, NEW data \in Data,
         NEW s \in Positions, NEW t \in Positions, t = s + Parts[n],
         EndOfRow(row) <= EndOfRow(new), t < EndOfRow(new),
         \A k \in Positions : k \notin s .. t /\ k < EndOfRow(new) =>
           k < EndOfRow(row) /\ new[k] = row[k],
         \A k \in s .. t : k < EndOfRow(row) => row[k] = Free,
         \A k \in s .. t - 1 : new[k] = Long(n, alias, k = s),
         new[t] = Alias(alias, file, data),
         Parts[n] = 0 => alias = n
  PROVE  /\ Sound(new) /\ Ends(new) = Ends(row) \cup {t} /\ t \notin Ends(row)
         /\ \A e \in Ends(row) : Keeps(row, new, e)
         /\ NameAt(new, t) = n
<1>1. /\ EndOfRow(row) \in 1 .. SlotCount + 1 /\ SlotCount \in Nat
      /\ EndOfRow(new) \in 1 .. SlotCount + 1
      /\ s \in Nat /\ t \in Nat /\ s >= 1 /\ s <= t /\ t <= SlotCount /\ Parts[n] \in Nat
  BY EndIs, SlotCountAssumption, NamesAssumption DEF Positions
<1>2. Free.kind = "free"
  BY DEF Free
<1>3. \A k \in s .. t : k \in Positions
  BY <1>1 DEF Positions
<1>4. \A k \in s .. t - 1 : new[k].kind = "long" /\ new[k].name = n /\ new[k].alias = alias
  <2> SUFFICES ASSUME NEW k \in s .. t - 1
               PROVE  new[k].kind = "long" /\ new[k].name = n /\ new[k].alias = alias
    OBVIOUS
  <2> DEFINE first == k = s
  <2>1. new[k] = Long(n, alias, first)
    OBVIOUS
  <2> HIDE DEF first
  <2> QED
    BY <2>1, LongIs
<1>5. new[t].kind = "alias" /\ new[t].alias = alias
  BY MadeSlots
<1>6. ASSUME NEW e \in Ends(row)
      PROVE  /\ e \in Positions /\ e \in Nat /\ e < EndOfRow(new) /\ e \notin s .. t
             /\ new[e] = row[e] /\ Keeps(row, new, e) /\ e \in Ends(new)
  <2>1. /\ e \in Positions /\ e \in Nat /\ e >= 1 /\ e < EndOfRow(row) /\ e < EndOfRow(new)
        /\ row[e].kind = "alias"
    BY <1>1 DEF Ends, Positions
  <2>2. e \notin s .. t
    BY <1>2, <2>1
  <2>3. new[e] = row[e]
    BY <2>1, <2>2
  <2>4. \/ new[e - 1] = row[e - 1]
        \/ new[e - 1].kind # "long" /\ row[e - 1].kind # "long"
        \/ e = 1
    <3>1. CASE e = 1
      BY <3>1
    <3>2. CASE e # 1 /\ e - 1 \notin s .. t
      <4>1. e - 1 \in Positions /\ e - 1 < EndOfRow(new)
        BY <1>1, <2>1, <3>2 DEF Positions
      <4> QED
        BY <3>2, <4>1
    <3>3. CASE e # 1 /\ e - 1 \in s .. t
      <4>1. e - 1 = t /\ e - 1 < EndOfRow(row)
        BY <1>1, <2>1, <2>2, <3>3
      <4>2. row[e - 1] = Free /\ new[e - 1].kind = "alias"
        BY <1>5, <3>3, <4>1
      <4> QED
        BY <1>2, <4>2
    <3> QED
      BY <3>1, <3>2, <3>3
  <2>5. Keeps(row, new, e)
    BY <2>3, <2>4, KeepsIf
  <2> QED
    BY <2>1, <2>2, <2>3, <2>5 DEF Ends
<1>7. t \in Ends(new) /\ t \notin Ends(row)
  <2>1. t \in s .. t
    BY <1>1
  <2> QED
    BY <1>5, <1>6, <2>1 DEF Ends
<1>8. ASSUME NEW e \in Ends(new), e # t
      PROVE  e \in Ends(row)
  <2>1. e \in Positions /\ e < EndOfRow(new) /\ new[e].kind = "alias"
    BY DEF Ends
  <2>2. e \notin s .. t
    <3>1. e \in s .. t => e \in s .. t - 1
      BY <1>1, <1>8
    <3> QED
      BY <1>4, <2>1, <3>1
  <2> QED
    BY <2>1, <2>2 DEF Ends
<1>9. Ends(new) = Ends(row) \cup {t}
  BY <1>6, <1>7, <1>8
<1>10. NameAt(new, t) = n
  <2>1. CASE Parts[n] = 0
    <3>1. s = t /\ alias = n
      BY <1>1, <2>1
    <3>2. ~HasLongForm(new, t)
      <4> SUFFICES ASSUME t > 1, new[t - 1].kind = "long"
                   PROVE  FALSE
        BY DEF HasLongForm
      <4>1. t - 1 \in Positions /\ t - 1 < EndOfRow(new) /\ t - 1 \notin s .. t
        BY <1>1, <3>1 DEF Positions
      <4>2. t - 1 < EndOfRow(row) /\ row[t - 1].kind = "long"
        BY <4>1
      <4>3. PICK e \in Ends(row) : t - 1 \in StartAt(row, e) .. e - 1
        BY <4>1, <4>2, LongBelongs
      <4>4. /\ e \in Nat /\ StartAt(row, e) \in 1 .. e /\ e < EndOfRow(row)
            /\ \A k \in StartAt(row, e) .. e - 1 : row[k].kind = "long"
        BY LongForms DEF Ends
      <4>5. t < e /\ t \in StartAt(row, e) .. e - 1
        BY <1>1, <1>6, <1>7, <4>3, <4>4
      <4>6. row[t] = Free
        BY <1>1, <4>4, <4>5
      <4> QED
        BY <1>2, <4>4, <4>5, <4>6
    <3> QED
      BY <1>5, <3>1, <3>2 DEF NameAt
  <2>2. CASE Parts[n] # 0
    <3>1. t - 1 \in s .. t - 1 /\ t > 1
      BY <1>1, <2>2
    <3> QED
      BY <1>4, <3>1 DEF NameAt, HasLongForm
  <2> QED
    BY <2>1, <2>2
<1>11. Sound(new)
  <2> SUFFICES ASSUME NEW k \in Positions, k < EndOfRow(new), new[k].kind = "long"
               PROVE  \E m \in Names, e \in Ends(new) :
                        IsLongForm(new, m, e) /\ k \in e - Parts[m] .. e - 1
    BY DEF Sound
  <2>1. CASE k \in s .. t
    <3>1. k \in s .. t - 1 /\ t - Parts[n] = s /\ Parts[n] \in 1 .. t - 1
      BY <1>1, <1>5, <2>1
    <3>2. IsLongForm(new, n, t)
      BY <1>5, <3>1 DEF IsLongForm
    <3> QED
      BY <1>7, <3>1, <3>2
  <2>2. CASE k \notin s .. t
    <3>1. k < EndOfRow(row) /\ row[k].kind = "long"
      BY <2>2
    <3>2. PICK m \in Names, e \in Ends(row) :
            IsLongForm(row, m, e) /\ k \in e - Parts[m] .. e - 1
      BY <3>1 DEF Sound
    <3>3. /\ e \in Nat /\ e \in Positions /\ e < EndOfRow(row) /\ Parts[m] \in 1 .. e - 1
          /\ \A j \in e - Parts[m] .. e - 1 : row[j].kind = "long"
      BY <1>6, <3>2, LongFormIs DEF Ends
    <3>4. ASSUME NEW j \in e - Parts[m] .. e - 1
          PROVE  new[j] = row[j]
      <4>1. j \in Positions /\ j < EndOfRow(row) /\ j < EndOfRow(new) /\ row[j].kind = "long"
        BY <1>1, <3>3 DEF Positions
      <4>2. j \notin s .. t
        BY <1>2, <4>1
      <4> QED
        BY <4>1, <4>2
    <3>5. IsLongForm(new, m, e)
      BY <1>6, <3>2, <3>4, LongFormStays
    <3> QED
      BY <1>6, <3>2, <3>5
  <2> QED
    BY <2>1, <2>2
<1> QED
  BY <1>6, <1>7, <1>9, <1>10, <1>11

(* The slots of an entry are removed. *)
LEMMA Removed ==
  ASSUME NEW row, Sound(row), NEW e \in Ends(row),
         NEW new, new = RemoveEntry(row, Read(row, e))
  PROVE  /\ Sound(new) /\ EndOfRow(new) = EndOfRow(row) /\ Ends(new) = Ends(row) \ {e}
         /\ \A k \in Positions : k \notin StartAt(row, e) .. e => new[k] = row[k]
         /\ \A d \in Ends(new) : d \notin StartAt(row, e) .. e /\ Keeps(row, new, d)
<1> DEFINE s == StartAt(row, e)
<1>1. /\ EndOfRow(row) \in 1 .. SlotCount + 1 /\ SlotCount \in Nat
      /\ e \in Positions /\ e \in Nat /\ e < EndOfRow(row) /\ row[e].kind = "alias"
      /\ s \in 1 .. e /\ \A k \in s .. e - 1 : row[k].kind = "long"
  BY EndIs, SlotCountAssumption, LongForms DEF Ends, Positions
<1>2. new = [k \in Positions |-> IF k \in s .. e THEN Free ELSE row[k]]
  BY ReadIs DEF RemoveEntry
<1>3. s \in Nat /\ s >= 1 /\ s <= e
  BY <1>1
<1>4. \A d \in Ends(row) : d < e => d < s
  BY Apart
<1>5. HasLongForm(row, e) => s = e - Parts[NameAt(row, e)]
  BY LongForms
<1>6. ~HasLongForm(row, e) => s = e
  BY LongForms
<1> HIDE DEF s
<1>7. Free.kind = "free" /\ Last.kind = "last"
  BY DEF Free, Last
<1>8. /\ \A k \in Positions : k \notin s .. e => new[k] = row[k]
      /\ \A k \in s .. e : k \in Positions /\ k < EndOfRow(row) /\ new[k] = Free
  BY <1>1, <1>2, <1>3 DEF Positions
<1>9. EndOfRow(new) = EndOfRow(row)
  <2>1. \A k \in Positions : k < EndOfRow(row) => new[k] # Last
    <3>1. \A k \in Positions : k < EndOfRow(row) => row[k] # Last
      BY EndIs
    <3> QED
      BY <1>7, <1>8, <3>1
  <2>2. EndOfRow(row) <= SlotCount => new[EndOfRow(row)] = Last
    <3>1. EndOfRow(row) <= SlotCount => EndOfRow(row) \in Positions /\ EndOfRow(row) \notin s .. e
      BY <1>1, <1>3 DEF Positions
    <3> QED
      BY <1>8, <3>1, EndIs
  <2> QED
    BY <1>1, <2>1, <2>2, EndFound
<1>10. ASSUME NEW d \in Ends(row), d # e
       PROVE  d \in Positions /\ d \in Nat /\ d >= 1 /\ d < EndOfRow(row) /\ d \notin s .. e /\ new[d] = row[d]
  <2>1. d \in Positions /\ d \in Nat /\ d >= 1 /\ d < EndOfRow(row)
    BY DEF Ends, Positions
  <2>2. d \notin s .. e
    BY <1>1, <1>3, <1>4, <1>10, <2>1
  <2> QED
    BY <1>8, <2>1, <2>2
<1>11. Ends(new) = Ends(row) \ {e}
  <2>1. ASSUME NEW d \in Ends(new)
        PROVE  d \in Ends(row) \ {e}
    <3>1. d \in Positions /\ d < EndOfRow(row) /\ new[d].kind = "alias"
      BY <1>9 DEF Ends
    <3>2. d \notin s .. e
      BY <1>7, <1>8, <3>1
    <3>3. e \in s .. e
      BY <1>1, <1>3
    <3> QED
      BY <1>8, <3>1, <3>2, <3>3 DEF Ends
  <2>2. ASSUME NEW d \in Ends(row), d # e
        PROVE  d \in Ends(new)
    BY <1>9, <1>10, <2>2 DEF Ends
  <2> QED
    BY <2>1, <2>2
<1>12. ASSUME NEW d \in Ends(new)
       PROVE  d \notin s .. e /\ Keeps(row, new, d)
  <2>1. /\ d \in Ends(row) /\ d # e /\ d \in Positions /\ d \in Nat /\ d >= 1
        /\ d < EndOfRow(row) /\ d \notin s .. e /\ new[d] = row[d]
    BY <1>10, <1>11
  <2>2. \/ new[d - 1] = row[d - 1]
        \/ new[d - 1].kind # "long" /\ row[d - 1].kind # "long"
        \/ d = 1
    <3>1. CASE d # 1 /\ d - 1 \notin s .. e
      <4>1. d - 1 \in Positions
        BY <1>1, <2>1, <3>1 DEF Positions
      <4> QED
        BY <1>8, <3>1, <4>1
    <3>2. CASE d # 1 /\ d - 1 \in s .. e
      <4>1. d - 1 = e
        BY <1>1, <1>3, <2>1, <3>2
      <4> QED
        BY <1>1, <1>7, <1>8, <3>2, <4>1
    <3> QED
      BY <3>1, <3>2
  <2> QED
    BY <2>1, <2>2, KeepsIf
<1>13. Sound(new)
  <2>1. \A k \in Positions : IsSlot(new[k])
    BY <1>2 DEF Sound, IsSlot
  <2>2. ASSUME NEW k \in Positions, k < EndOfRow(new), new[k].kind = "long"
        PROVE  \E m \in Names, d \in Ends(new) :
                 IsLongForm(new, m, d) /\ k \in d - Parts[m] .. d - 1
    <3>1. k \notin s .. e /\ k < EndOfRow(row) /\ row[k].kind = "long"
      BY <1>7, <1>8, <1>9, <2>2
    <3>2. PICK m \in Names, d \in Ends(row) :
            IsLongForm(row, m, d) /\ k \in d - Parts[m] .. d - 1
      BY <3>1 DEF Sound
    <3>3. /\ d \in Nat /\ d \in Positions /\ d < EndOfRow(row) /\ Parts[m] \in 1 .. d - 1
          /\ \A j \in d - Parts[m] .. d - 1 : row[j].kind = "long" /\ row[j].name = m
      BY <3>2, LongFormIs DEF Ends, Positions
    <3>4. d # e
      <4> SUFFICES ASSUME d = e
                   PROVE  FALSE
        OBVIOUS
      <4>1. e - 1 \in d - Parts[m] .. d - 1 /\ e > 1
        BY <1>1, <3>3
      <4>2. HasLongForm(row, e) /\ NameAt(row, e) = m
        BY <3>3, <4>1 DEF HasLongForm, NameAt
      <4> QED
        BY <1>1, <1>3, <1>5, <3>1, <3>2, <3>3, <4>2
    <3>5. ASSUME NEW j \in d - Parts[m] .. d - 1
          PROVE  new[j] = row[j]
      <4>1. j \in Positions /\ j \in Nat /\ j < d /\ row[j].kind = "long"
        BY <1>1, <3>3 DEF Positions
      <4>2. j \notin s .. e
        <5> SUFFICES ASSUME j \in s .. e
                     PROVE  FALSE
          OBVIOUS
        <5>1. j < e
          BY <1>1, <4>1
        <5>2. CASE d < e
          BY <1>4, <1>1, <1>3, <3>3, <4>1, <5>2
        <5>3. CASE e < d
          <6>1. e \in d - Parts[m] .. d - 1
            BY <1>1, <3>3, <5>1, <5>3
          <6> QED
            BY <1>1, <3>3, <6>1
        <5> QED
          BY <1>1, <3>3, <3>4, <5>2, <5>3
      <4> QED
        BY <1>8, <4>1, <4>2
    <3>6. IsLongForm(new, m, d)
      BY <1>10, <3>2, <3>4, <3>5, LongFormStays
    <3> QED
      BY <1>11, <3>2, <3>4, <3>6
  <2> QED
    BY <1>2, <2>1, <2>2 DEF Sound
<1> QED
  BY <1>8, <1>9, <1>11, <1>12, <1>13 DEF s

(* The alias of an entry is written with other data.  It keeps its name.   *)
LEMMA Updated ==
  ASSUME NEW row, Sound(row), NEW e \in Ends(row), NEW file, NEW data \in Data,
         NEW new, new = [k \in Positions |-> new[k]],
         new[e] = Alias(row[e].alias, file, data),
         \A k \in Positions \ {e} : new[k] = row[k]
  PROVE  /\ Sound(new) /\ EndOfRow(new) = EndOfRow(row) /\ Ends(new) = Ends(row)
         /\ \A k \in Positions \ {e} : new[k] = row[k]
         /\ new[e].alias = row[e].alias /\ new[e].file = file /\ new[e].data = data
         /\ \A d \in Ends(row) : /\ NameAt(new, d) = NameAt(row, d)
                                 /\ StartAt(new, d) = StartAt(row, d)
<1>1. /\ EndOfRow(row) \in 1 .. SlotCount + 1 /\ SlotCount \in Nat
      /\ e \in Positions /\ e \in Nat /\ e < EndOfRow(row)
      /\ row[e].kind = "alias" /\ row[e].alias \in Aliases
  BY EndIs, SlotCountAssumption, SlotIs DEF Ends, Positions, Sound
<1>2. /\ IsSlot(Alias(row[e].alias, file, data))
      /\ Alias(row[e].alias, file, data).kind = "alias"
      /\ Alias(row[e].alias, file, data).alias = row[e].alias
      /\ Alias(row[e].alias, file, data).file = file
      /\ Alias(row[e].alias, file, data).data = data
  BY <1>1 DEF Alias, IsSlot
<1>3. row = [k \in Positions |-> row[k]] /\ \A k \in Positions : IsSlot(row[k])
  BY DEF Sound
<1>4. /\ new[e] = Alias(row[e].alias, file, data) /\ \A k \in Positions \ {e} : new[k] = row[k]
      /\ new = [k \in Positions |-> new[k]]
  OBVIOUS
<1>5. \A k \in Positions : IsSlot(new[k])
  BY <1>2, <1>3, <1>4
<1>6. /\ \A k \in Positions : new[k].kind = row[k].kind /\ new[k].alias = row[k].alias
      /\ \A k \in Positions : row[k].kind # "alias" => new[k] = row[k]
  BY <1>1, <1>2, <1>4
<1>7. EndOfRow(new) = EndOfRow(row)
  <2>1. \A k \in Positions : new[k] = Last <=> row[k] = Last
    BY <1>3, <1>5, <1>6, SlotIs
  <2>2. \A k \in Positions : k < EndOfRow(row) => new[k] # Last
    BY <2>1, EndIs
  <2>3. EndOfRow(row) <= SlotCount => new[EndOfRow(row)] = Last
    <3>1. EndOfRow(row) <= SlotCount => EndOfRow(row) \in Positions
      BY <1>1 DEF Positions
    <3> QED
      BY <2>1, <3>1, EndIs
  <2> QED
    BY <1>1, <2>2, <2>3, EndFound
<1>8. Ends(new) = Ends(row)
  BY <1>6, <1>7 DEF Ends
<1>9. ASSUME NEW d \in Ends(row)
      PROVE  NameAt(new, d) = NameAt(row, d) /\ StartAt(new, d) = StartAt(row, d)
  <2>1. d \in Positions /\ new[d].alias = row[d].alias
    BY <1>6 DEF Ends
  <2>2. d > 1 => d - 1 \in Positions
    BY <1>1, <2>1 DEF Positions
  <2>3. d > 1 => new[d - 1].kind = row[d - 1].kind
    BY <1>6, <2>2
  <2>4. HasLongForm(new, d) <=> HasLongForm(row, d)
    BY <2>3 DEF HasLongForm
  <2>5. HasLongForm(row, d) => new[d - 1] = row[d - 1]
    BY <1>6, <2>2 DEF HasLongForm
  <2> QED
    BY <2>1, <2>4, <2>5 DEF NameAt, StartAt
<1>10. Sound(new)
  <2> SUFFICES ASSUME NEW k \in Positions, k < EndOfRow(new), new[k].kind = "long"
               PROVE  \E m \in Names, d \in Ends(new) :
                        IsLongForm(new, m, d) /\ k \in d - Parts[m] .. d - 1
    BY <1>4, <1>5 DEF Sound
  <2>1. k < EndOfRow(row) /\ row[k].kind = "long"
    BY <1>6, <1>7
  <2>2. PICK m \in Names, d \in Ends(row) :
          IsLongForm(row, m, d) /\ k \in d - Parts[m] .. d - 1
    BY <2>1 DEF Sound
  <2>3. /\ d \in Positions /\ Parts[m] \in 1 .. d - 1
        /\ \A j \in d - Parts[m] .. d - 1 :
             row[j] = Long(m, row[d].alias, j = d - Parts[m]) /\ row[j].kind = "long"
    BY <2>2, LongFormIs DEF Ends
  <2>4. \A j \in d - Parts[m] .. d - 1 : j \in Positions
    BY <1>1, <2>3 DEF Positions
  <2>5. \A j \in d - Parts[m] .. d - 1 : new[j] = row[j] /\ new[d].alias = row[d].alias
    BY <1>6, <2>3, <2>4
  <2>6. IsLongForm(new, m, d)
    BY <2>3, <2>5, Zenon DEF IsLongForm
  <2> QED
    BY <1>8, <2>2, <2>6
<1> QED
  BY <1>2, <1>4, <1>7, <1>8, <1>9, <1>10

-----------------------------------------------------------------------------
(* Adding an entry. *)

(* The removed slots before the end of the row. *)
LEMMA RunAtEndIs ==
  ASSUME NEW row
  PROVE  /\ RunAtEnd(row) \in 1 .. EndOfRow(row)
         /\ \A k \in RunAtEnd(row) .. EndOfRow(row) - 1 : row[k] = Free
         /\ \A i \in 1 .. EndOfRow(row) :
              (\A k \in i .. EndOfRow(row) - 1 : row[k] = Free) => RunAtEnd(row) <= i
<1> DEFINE runs == {i \in 1 .. EndOfRow(row) : \A k \in i .. EndOfRow(row) - 1 : row[k] = Free}
<1>1. EndOfRow(row) \in 1 .. SlotCount + 1 /\ SlotCount \in Nat
  BY EndIs, SlotCountAssumption
<1>2. EndOfRow(row) \in runs /\ runs \in SUBSET Nat
  BY <1>1
<1>3. RunAtEnd(row) = Least(runs)
  BY DEF RunAtEnd
<1>4. Least(runs) \in runs /\ \A i \in runs : Least(runs) <= i
  <2> HIDE DEF runs
  <2> QED
    BY <1>2, LeastIs
<1> QED
  BY <1>3, <1>4

(* The place that is found is one of removed slots, or one from the end    *)
(* on, with a new end behind it.                                           *)
LEMMA GapIs ==
  ASSUME NEW row, Sound(row), NEW size \in Nat \ {0}, NEW gap \in FindEntryGap(row, size)
  PROVE  /\ gap.start \in Positions /\ gap.start + size - 1 \in Positions
         /\ \A k \in gap.start .. gap.start + size - 1 : k < EndOfRow(row) => row[k] = Free
         /\ \/ gap.row = row /\ gap.start + size <= EndOfRow(row)
            \/ /\ gap.start <= EndOfRow(row) /\ gap.start + size > EndOfRow(row)
               /\ gap.start + size <= SlotCount
               /\ gap.row = [k \in Positions |->
                               IF k \in EndOfRow(row) + 1 .. gap.start + size THEN Last ELSE row[k]]
<1>1. EndOfRow(row) \in 1 .. SlotCount + 1 /\ SlotCount \in Nat
  BY EndIs, SlotCountAssumption
<1>2. CASE FreeRuns(row, size) # {}
  <2> DEFINE start == Least(FreeRuns(row, size))
  <2>1. gap = [start |-> start, row |-> row]
    BY <1>2 DEF FindEntryGap
  <2>2. start \in FreeRuns(row, size)
    <3>1. FreeRuns(row, size) \in SUBSET Nat
      BY DEF FreeRuns, Positions
    <3> QED
      BY <1>2, <3>1, LeastIs
  <2>3. start \in Positions /\ start + size <= EndOfRow(row) /\ \A k \in start .. start + size - 1 : row[k] = Free
    BY <2>2 DEF FreeRuns
  <2> HIDE DEF start
  <2>4. start \in Nat /\ start >= 1 /\ start + size - 1 \in Positions
    BY <1>1, <2>3 DEF Positions
  <2> QED
    BY <2>1, <2>3, <2>4
<1>3. CASE FreeRuns(row, size) = {}
  <2> DEFINE start == RunAtEnd(row)
  <2>1. /\ gap = [start |-> start,
                  row |-> [k \in Positions |->
                             IF k \in EndOfRow(row) + 1 .. start + size THEN Last ELSE row[k]]]
        /\ EndOfRow(row) <= SlotCount /\ start + size <= SlotCount
    BY <1>3 DEF FindEntryGap
  <2>2. start \in 1 .. EndOfRow(row) /\ \A k \in start .. EndOfRow(row) - 1 : row[k] = Free
    BY RunAtEndIs
  <2> HIDE DEF start
  <2>3. start \in Nat /\ start >= 1 /\ start <= EndOfRow(row) /\ start \in Positions
    BY <1>1, <2>1, <2>2 DEF Positions
  <2>4. start + size - 1 \in Positions
    BY <1>1, <2>1, <2>3 DEF Positions
  <2>5. \A k \in start .. start + size - 1 : k < EndOfRow(row) => row[k] = Free
    BY <1>1, <2>2, <2>3
  <2>6. start + size > EndOfRow(row)
    <3> SUFFICES ASSUME start + size <= EndOfRow(row)
                 PROVE  FALSE
      BY <1>1, <2>3
    <3>1. \A k \in start .. start + size - 1 : row[k] = Free
      BY <1>1, <2>2, <2>3
    <3>2. start \in FreeRuns(row, size)
      BY <2>3, <3>1 DEF FreeRuns
    <3> QED
      BY <1>3, <3>2
  <2>7. gap.start = start /\ gap.row = [k \in Positions |->
                             IF k \in EndOfRow(row) + 1 .. start + size THEN Last ELSE row[k]]
    BY <2>1
  <2> QED
    BY <2>1, <2>3, <2>4, <2>5, <2>6, <2>7
<1> QED
  BY <1>2, <1>3

(* The alias that is made is no name and no alias of an entry. *)
LEMMA NewAliasIs ==
  ASSUME NEW row, Sound(row), NEW n \in Names, NEW alias \in NewAliases(row, n)
  PROVE  /\ alias \in Aliases
         /\ \A e \in Ends(row) : alias # NameAt(row, e) /\ alias # row[e].alias
         /\ Parts[n] = 0 => alias = n
<1> DEFINE open == {i \in DOMAIN Candidates[n] : \A e \in Listing(row) : ~ Answers(e, Candidates[n][i])}
<1>1. Candidates[n] \in Seq(Aliases)
  BY CandidatesAssumption
<1>2. DOMAIN Candidates[n] \in SUBSET Nat
  <2>1. DOMAIN Candidates[n] = 1 .. Len(Candidates[n]) /\ Len(Candidates[n]) \in Nat
    BY <1>1
  <2> QED
    BY <2>1
<1>3. open # {} /\ alias = Candidates[n][Least(open)]
  BY DEF NewAliases
<1>4. Least(open) \in open
  <2>1. open \in SUBSET Nat
    BY <1>2
  <2> HIDE DEF open
  <2> QED
    BY <1>3, <2>1, LeastIs
<1>5. PICK i \in DOMAIN Candidates[n] :
        alias = Candidates[n][i] /\ \A e \in Listing(row) : ~ Answers(e, alias)
  BY <1>3, <1>4
<1>6. alias \in Aliases
  BY <1>1, <1>5
<1>7. \A e \in Ends(row) : alias # NameAt(row, e) /\ alias # row[e].alias
  <2>1. \A e \in Ends(row) : Read(row, e) \in Listing(row)
    BY ListingIs
  <2> QED
    BY <1>5, <2>1, ReadIs DEF Answers
<1>8. Parts[n] = 0 => alias = n
  <2> SUFFICES ASSUME Parts[n] = 0
               PROVE  alias = n
    OBVIOUS
  <2>1. Candidates[n] = <<n>>
    BY CandidatesAssumption
  <2> QED
    BY <1>5, <2>1
<1> QED
  BY <1>6, <1>7, <1>8

(* The slot k of the long form that begins at s. *)
Part(n, alias, s, k) == Long(n, alias, k = s)

(* What is written for an entry. *)
LEMMA WrittenIs ==
  ASSUME NEW row, NEW s \in Nat, NEW n, NEW alias, NEW file, NEW data,
         Parts[n] \in Nat, NEW t \in Nat, t = s + Parts[n],
         NEW w, w = Written(row, s, n, alias, file, data)
  PROVE  /\ w = [k \in Positions |-> w[k]]
         /\ t \in Positions => w[t] = Alias(alias, file, data)
         /\ \A k \in Positions : k # t /\ k \in s .. t - 1 => w[k] = Part(n, alias, s, k)
         /\ \A k \in Positions : k # t /\ k \notin s .. t - 1 => w[k] = row[k]
<1>1. w = [k \in Positions |-> w[k]]
  BY DEF Written
<1>2. ASSUME NEW k \in Positions
      PROVE  w[k] = IF k = s + Parts[n] THEN Alias(alias, file, data)
                    ELSE IF k \in s .. s + Parts[n] - 1 THEN Long(n, alias, k = s)
                    ELSE row[k]
  BY Zenon DEF Written
<1>3. t \in Positions => w[t] = Alias(alias, file, data)
  BY <1>2
<1>4. ASSUME NEW k \in Positions, k # t, k \in s .. t - 1
      PROVE  w[k] = Part(n, alias, s, k)
  <2>1. k # s + Parts[n] /\ k \in s .. s + Parts[n] - 1
    BY <1>4
  <2> QED
    BY <1>2, <2>1, Zenon DEF Part
<1>5. ASSUME NEW k \in Positions, k # t, k \notin s .. t - 1
      PROVE  w[k] = row[k]
  <2>1. k # s + Parts[n] /\ k \notin s .. s + Parts[n] - 1
    BY <1>5
  <2> QED
    BY <1>2, <2>1, Zenon
<1> QED
  BY <1>1, <1>3, <1>4, <1>5, Zenon

(* An entry is added: the others are kept, and it has the name and what    *)
(* was to be written, and an alias that no other answers to.               *)
LEMMA Added ==
  ASSUME NEW row, Sound(row), NEW n \in Names, NEW file, NEW data \in Data,
         NEW a \in AddEntry(row, n, file, data)
  PROVE  /\ Sound(a.row) /\ EndOfRow(row) <= EndOfRow(a.row)
         /\ a.end \in Positions
         /\ Ends(a.row) = Ends(row) \cup {a.end} /\ a.end \notin Ends(row)
         /\ \A e \in Ends(row) : Keeps(row, a.row, e)
         /\ NameAt(a.row, a.end) = n
         /\ a.row[a.end].alias \in Aliases
         /\ a.row[a.end].file = file /\ a.row[a.end].data = data
         /\ \A e \in Ends(row) :
              a.row[a.end].alias # NameAt(row, e) /\ a.row[a.end].alias # row[e].alias
         /\ \A k \in Positions : k < EndOfRow(row) /\ row[k] # Free => a.row[k] = row[k]
<1>1. /\ EndOfRow(row) \in 1 .. SlotCount + 1 /\ SlotCount \in Nat /\ Parts[n] \in Nat
  BY EndIs, SlotCountAssumption, NamesAssumption
<1>2. PICK gap \in FindEntryGap(row, Parts[n] + 1), alias \in NewAliases(row, n) :
        a = [end |-> gap.start + Parts[n],
             row |-> Written(gap.row, gap.start, n, alias, file, data)]
  BY DEF AddEntry
<1>3. /\ alias \in Aliases
      /\ \A e \in Ends(row) : alias # NameAt(row, e) /\ alias # row[e].alias
      /\ Parts[n] = 0 => alias = n
  BY NewAliasIs
<1> DEFINE s == gap.start
           t == s + Parts[n]
           new == a.row
           old == gap.row
<1>4. Parts[n] + 1 \in Nat \ {0}
  BY <1>1
<1>5. /\ s \in Positions /\ s + (Parts[n] + 1) - 1 \in Positions
      /\ \A k \in s .. s + (Parts[n] + 1) - 1 : k < EndOfRow(row) => row[k] = Free
      /\ \/ old = row /\ s + (Parts[n] + 1) <= EndOfRow(row)
         \/ /\ s <= EndOfRow(row) /\ s + (Parts[n] + 1) > EndOfRow(row)
            /\ s + (Parts[n] + 1) <= SlotCount
            /\ old = [k \in Positions |->
                        IF k \in EndOfRow(row) + 1 .. s + (Parts[n] + 1) THEN Last ELSE row[k]]
  BY <1>4, GapIs
<1>6. /\ a.end = t
      /\ new = [k \in Positions |-> new[k]]
      /\ t \in Positions => new[t] = Alias(alias, file, data)
      /\ \A k \in Positions : k # t /\ k \in s .. t - 1 => new[k] = Part(n, alias, s, k)
      /\ \A k \in Positions : k # t /\ k \notin s .. t - 1 => new[k] = old[k]
  <2>1. a.end = t /\ new = Written(old, s, n, alias, file, data) /\ t = s + Parts[n]
    BY <1>2
  <2>2. s \in Nat
    <3> HIDE DEF s
    <3> QED
      BY <1>5 DEF Positions
  <2>3. s \in Nat /\ t \in Nat
    BY <1>1, <2>2
  <2> HIDE DEF new, old, s, t
  <2>4. /\ new = [k \in Positions |-> new[k]]
        /\ t \in Positions => new[t] = Alias(alias, file, data)
        /\ \A k \in Positions : k # t /\ k \in s .. t - 1 => new[k] = Part(n, alias, s, k)
        /\ \A k \in Positions : k # t /\ k \notin s .. t - 1 => new[k] = old[k]
    BY <1>1, <2>1, <2>3, WrittenIs
  <2> QED
    BY <2>1, <2>4
<1>7. new = a.row
  OBVIOUS
<1>8. t = s + Parts[n]
  OBVIOUS
<1> HIDE DEF s, t, new, old
<1>9. /\ s \in Nat /\ t \in Nat
      /\ s \in Positions /\ t \in Positions /\ s >= 1 /\ s <= t /\ t <= SlotCount
      /\ \A k \in s .. t : k < EndOfRow(row) => row[k] = Free
      /\ \/ old = row /\ t < EndOfRow(row)
         \/ /\ s <= EndOfRow(row) /\ t + 1 > EndOfRow(row) /\ t + 1 <= SlotCount
            /\ old = [k \in Positions |-> IF k \in EndOfRow(row) + 1 .. t + 1 THEN Last ELSE row[k]]
  <2>1. s \in Nat /\ s >= 1 /\ s <= SlotCount
    BY <1>5 DEF Positions
  <2>2. t \in Nat /\ s + (Parts[n] + 1) = t + 1 /\ s + (Parts[n] + 1) - 1 = t /\ s <= t
    BY <1>1, <1>8, <2>1
  <2>3. t \in Positions /\ t <= SlotCount
    BY <1>5, <2>2 DEF Positions
  <2> QED
    BY <1>1, <1>5, <2>1, <2>2, <2>3
<1>10. /\ \A k \in s .. t : k \in Positions
       /\ new[t] = Alias(alias, file, data)
       /\ \A k \in s .. t - 1 : new[k] = Long(n, alias, k = s)
       /\ \A k \in Positions : k \notin s .. t => new[k] = old[k]
       /\ new = [k \in Positions |-> new[k]]
  <2>1. \A k \in s .. t : k \in Positions
    BY <1>1, <1>9 DEF Positions
  <2>2. \A k \in s .. t - 1 : new[k] = Part(n, alias, s, k)
    <3>1. \A k \in s .. t - 1 : k \in Positions /\ k # t
      BY <1>1, <1>9, <2>1
    <3> QED
      BY <1>6, <3>1
  <2>3. \A k \in s .. t - 1 : new[k] = Long(n, alias, k = s)
    BY <2>2, Zenon DEF Part
  <2>4. \A k \in Positions : k \notin s .. t => new[k] = old[k]
    <3>1. \A k \in Positions : k \notin s .. t => k # t /\ k \notin s .. t - 1
      BY <1>9
    <3> QED
      BY <1>6, <3>1
  <2> QED
    BY <1>6, <1>9, <2>1, <2>3, <2>4, Zenon
<1>11. \A k \in Positions : IsSlot(old[k])
  <2>1. \A k \in Positions : IsSlot(row[k])
    BY DEF Sound
  <2>2. IsSlot(Last)
    BY DEF IsSlot
  <2> QED
    BY <1>9, <2>1, <2>2
<1>12. \A k \in s .. t - 1 : IsSlot(new[k]) /\ new[k].kind = "long"
  <2> SUFFICES ASSUME NEW k \in s .. t - 1
               PROVE  IsSlot(new[k]) /\ new[k].kind = "long"
    OBVIOUS
  <2> DEFINE first == k = s
  <2>1. new[k] = Long(n, alias, first)
    BY <1>10
  <2> HIDE DEF first
  <2> QED
    BY <1>3, <2>1, MadeSlots
<1>13. IsSlot(new[t]) /\ new[t].kind = "alias" /\ new[t].alias = alias /\ new[t].file = file /\ new[t].data = data
  BY <1>3, <1>10, MadeSlots
<1>14. \A k \in Positions : IsSlot(new[k])
  <2>1. \A k \in Positions : k \in s .. t => k = t \/ k \in s .. t - 1
    BY <1>9 DEF Positions
  <2> QED
    BY <1>10, <1>11, <1>12, <1>13, <2>1
<1>15. \A k \in s .. t : new[k] # Last
  <2>1. \A k \in s .. t : k = t \/ k \in s .. t - 1
    BY <1>9
  <2>2. Last.kind = "last"
    BY DEF Last
  <2> QED
    BY <1>12, <1>13, <2>1, <2>2
<1>16. /\ EndOfRow(row) <= EndOfRow(new) /\ t < EndOfRow(new)
       /\ \A k \in Positions : k \notin s .. t /\ k < EndOfRow(new) =>
            k < EndOfRow(row) /\ new[k] = row[k]
  <2>1. CASE old = row /\ t < EndOfRow(row)
    <3>1. \A k \in Positions : k < EndOfRow(row) => new[k] # Last
      BY <1>10, <1>15, <2>1, EndIs
    <3>2. EndOfRow(row) <= SlotCount => new[EndOfRow(row)] = Last
      <4> SUFFICES ASSUME EndOfRow(row) <= SlotCount
                   PROVE  new[EndOfRow(row)] = Last
        OBVIOUS
      <4>1. EndOfRow(row) \in Positions /\ EndOfRow(row) \notin s .. t
        BY <1>1, <1>9, <2>1 DEF Positions
      <4> QED
        BY <1>10, <2>1, <4>1, EndIs
    <3>3. EndOfRow(new) = EndOfRow(row)
      BY <1>1, <3>1, <3>2, EndFound
    <3> QED
      BY <1>1, <1>10, <2>1, <3>3
  <2>2. CASE /\ s <= EndOfRow(row) /\ t + 1 > EndOfRow(row) /\ t + 1 <= SlotCount
             /\ old = [k \in Positions |-> IF k \in EndOfRow(row) + 1 .. t + 1 THEN Last ELSE row[k]]
    <3>1. ASSUME NEW k \in Positions, k < t + 1, k \notin s .. t
          PROVE  k < EndOfRow(row) /\ new[k] = row[k]
      <4>1. k \in Nat /\ k < s /\ k < EndOfRow(row)
        BY <1>1, <1>9, <2>2, <3>1 DEF Positions
      <4>2. k \notin EndOfRow(row) + 1 .. t + 1
        BY <1>1, <4>1
      <4> QED
        BY <1>10, <2>2, <3>1, <4>1, <4>2
    <3>2. \A k \in Positions : k < t + 1 => new[k] # Last
      BY <1>15, <3>1, EndIs
    <3>3. new[t + 1] = Last
      <4>1. t + 1 \in Positions /\ t + 1 \notin s .. t /\ t + 1 \in EndOfRow(row) + 1 .. t + 1
        BY <1>1, <1>9, <2>2 DEF Positions
      <4> QED
        BY <1>10, <2>2, <4>1
    <3>4. EndOfRow(new) = t + 1
      <4>1. t + 1 \in 1 .. SlotCount + 1
        BY <1>1, <1>9, <2>2
      <4> QED
        BY <3>2, <3>3, <4>1, EndFound
    <3> QED
      BY <1>1, <1>9, <2>2, <3>1, <3>4
  <2> QED
    BY <1>9, <2>1, <2>2
<1>17. /\ Sound(new) /\ Ends(new) = Ends(row) \cup {t} /\ t \notin Ends(row)
       /\ \A e \in Ends(row) : Keeps(row, new, e)
       /\ NameAt(new, t) = n
  BY <1>3, <1>8, <1>9, <1>10, <1>14, <1>16, Placed
<1>18. ASSUME NEW k \in Positions, k < EndOfRow(row), row[k] # Free
       PROVE  new[k] = row[k]
  <2>1. k \notin s .. t /\ k < EndOfRow(new)
    <3>1. EndOfRow(new) \in Nat /\ k \in Nat
      BY EndIs, SlotCountAssumption DEF Positions
    <3> QED
      BY <1>1, <1>9, <1>16, <1>18, <3>1
  <2> QED
    BY <1>16, <2>1
<1> QED
  BY <1>3, <1>6, <1>7, <1>9, <1>13, <1>16, <1>17, <1>18

-----------------------------------------------------------------------------
(* What a change of the row leaves true. *)

(* Every handle is on the alias of its file. *)
HandlesOn(row, h) ==
  \A f \in Files : h[f] # 0 => h[f] \in Ends(row) /\ row[h[f]].file = f

(* Where the name n, of the entry e that has stayed, is for the iteration: *)
(* in hand; still to come, as a whole; or behind.                          *)
Met(row, it, st, n, e) ==
  \/ st[n] = "unseen" /\ it.validEntry /\ it.filename = n /\ it.dataEnd = e
  \/ st[n] = "unseen" /\ it.validEntry /\ it.filename # n /\ it.dataEnd < StartAt(row, e)
  \/ st[n] = "seen" /\ (it.validEntry => it.filename # n /\ e <= it.dataEnd)

IterationIn(row, it, st) ==
  /\ it.dataEnd \in Nat /\ it.dataEnd < EndOfRow(row)
  /\ it.filename \in Strings \cup {""}
  /\ \A n \in Names : st[n] # "gone" =>
       it.inUse /\ \E e \in Ends(row) : NameAt(row, e) = n /\ Met(row, it, st, n, e)

LEMMA HandlesStay ==
  ASSUME NEW row, NEW new, NEW h, HandlesOn(row, h),
         \A f \in Files : h[f] # 0 => h[f] \in Ends(new) /\ new[h[f]].file = row[h[f]].file
  PROVE  HandlesOn(new, h)
BY DEF HandlesOn

LEMMA IterationStays ==
  ASSUME NEW row, Sound(row), NEW new, NEW it, NEW st, NEW st2, IterationIn(row, it, st),
         EndOfRow(row) <= EndOfRow(new),
         \A n \in Names : st2[n] # "gone" => st2[n] = st[n],
         \A n \in Names, e \in Ends(row) : st2[n] # "gone" /\ NameAt(row, e) = n =>
           e \in Ends(new) /\ NameAt(new, e) = n /\ StartAt(new, e) = StartAt(row, e)
  PROVE  IterationIn(new, it, st2)
<1>1. it.dataEnd \in Nat /\ it.dataEnd < EndOfRow(new)
  <2>1. EndOfRow(row) \in Nat /\ EndOfRow(new) \in Nat
    BY EndIs, SlotCountAssumption
  <2>2. it.dataEnd \in Nat /\ it.dataEnd < EndOfRow(row)
    BY DEF IterationIn
  <2> QED
    BY <2>1, <2>2
<1>2. ASSUME NEW n \in Names, st2[n] # "gone"
      PROVE  it.inUse /\ \E e \in Ends(new) : NameAt(new, e) = n /\ Met(new, it, st2, n, e)
  <2>1. st2[n] = st[n]
    BY <1>2
  <2>2. it.inUse /\ \E e \in Ends(row) : NameAt(row, e) = n /\ Met(row, it, st, n, e)
    BY <1>2, <2>1 DEF IterationIn
  <2>3. PICK e \in Ends(row) : NameAt(row, e) = n /\ Met(row, it, st, n, e)
    BY <2>2
  <2>4. e \in Ends(new) /\ NameAt(new, e) = n /\ StartAt(new, e) = StartAt(row, e)
    BY <1>2, <2>3
  <2>5. Met(new, it, st2, n, e)
    BY <2>1, <2>3, <2>4 DEF Met
  <2> QED
    BY <2>2, <2>4, <2>5
<1> QED
  BY <1>1, <1>2 DEF IterationIn

(* The entries stay distinct when some go, and one comes that has a name,  *)
(* an alias and a file that no other has.                                  *)
LEMMA StaysDistinct ==
  ASSUME NEW row, Distinct(row), NEW new, NEW t,
         \A e \in Ends(new) \ {t} :
           /\ e \in Ends(row) /\ NameAt(new, e) = NameAt(row, e)
           /\ new[e].alias = row[e].alias /\ new[e].file = row[e].file,
         t \in Ends(new) =>
           /\ new[t].file \in Files
           /\ \A e \in Ends(new) \ {t} :
                /\ new[e].file # new[t].file
                /\ NameAt(new, t) # NameAt(row, e) /\ NameAt(new, t) # row[e].alias
                /\ new[t].alias # NameAt(row, e) /\ new[t].alias # row[e].alias
  PROVE  Distinct(new)
<1> SUFFICES ASSUME NEW e \in Ends(new)
             PROVE  /\ new[e].file \in Files
                    /\ \A d \in Ends(new) \ {e} :
                         /\ new[d].file # new[e].file
                         /\ NameAt(new, e) # NameAt(new, d) /\ NameAt(new, e) # new[d].alias
                         /\ new[e].alias # NameAt(new, d) /\ new[e].alias # new[d].alias
  BY DEF Distinct
<1>1. new[e].file \in Files
  BY DEF Distinct
<1>2. ASSUME NEW d \in Ends(new) \ {e}
      PROVE  /\ new[d].file # new[e].file
             /\ NameAt(new, e) # NameAt(new, d) /\ NameAt(new, e) # new[d].alias
             /\ new[e].alias # NameAt(new, d) /\ new[e].alias # new[d].alias
  <2>1. CASE d # t /\ e # t
    <3>1. d \in Ends(row) \ {e} /\ e \in Ends(row)
      BY <2>1
    <3>2. /\ row[d].file # row[e].file
          /\ NameAt(row, e) # NameAt(row, d) /\ NameAt(row, e) # row[d].alias
          /\ row[e].alias # NameAt(row, d) /\ row[e].alias # row[d].alias
      BY <3>1 DEF Distinct
    <3> QED
      BY <2>1, <3>2
  <2>2. CASE e = t
    BY <1>2, <2>2
  <2>3. CASE d = t
    BY <1>2, <2>3
  <2> QED
    BY <2>1, <2>2, <2>3
<1> QED
  BY <1>1, <1>2

(* The entry d of the row gets a new name. *)
LEMMA Renamed ==
  ASSUME NEW row, Sound(row), NEW n \in Names, NEW d \in Ends(row),
         NEW a \in AddEntry(row, n, row[d].file, row[d].data),
         NEW new, new = RemoveEntry(a.row, Read(row, d))
  PROVE  /\ Sound(new) /\ EndOfRow(row) <= EndOfRow(new)
         /\ Ends(new) = (Ends(row) \ {d}) \cup {a.end} /\ a.end \notin Ends(row)
         /\ \A e \in Ends(row) \ {d} : Keeps(row, new, e)
         /\ NameAt(new, a.end) = n /\ new[a.end].alias \in Aliases
         /\ new[a.end].file = row[d].file /\ new[a.end].data = row[d].data
         /\ \A e \in Ends(row) :
              new[a.end].alias # NameAt(row, e) /\ new[a.end].alias # row[e].alias
<1>1. row[d].data \in Data
  BY SlotIs DEF Ends, Sound
<1>2. /\ Sound(a.row) /\ EndOfRow(row) <= EndOfRow(a.row)
      /\ Ends(a.row) = Ends(row) \cup {a.end} /\ a.end \notin Ends(row)
      /\ \A e \in Ends(row) : Keeps(row, a.row, e)
      /\ NameAt(a.row, a.end) = n /\ a.row[a.end].alias \in Aliases
      /\ a.row[a.end].file = row[d].file /\ a.row[a.end].data = row[d].data
      /\ \A e \in Ends(row) :
           a.row[a.end].alias # NameAt(row, e) /\ a.row[a.end].alias # row[e].alias
  BY <1>1, Added
<1>3. d \in Ends(a.row) /\ Read(a.row, d) = Read(row, d)
  BY <1>2 DEF Keeps, Read
<1>4. new = RemoveEntry(a.row, Read(a.row, d))
  BY <1>3
<1>5. /\ Sound(new) /\ EndOfRow(new) = EndOfRow(a.row) /\ Ends(new) = Ends(a.row) \ {d}
      /\ \A e \in Ends(new) : Keeps(a.row, new, e)
  BY <1>2, <1>3, <1>4, Removed
<1>6. Ends(new) = (Ends(row) \ {d}) \cup {a.end}
  BY <1>2, <1>5
<1>7. \A e \in Ends(row) \ {d} : Keeps(row, new, e)
  BY <1>2, <1>5, <1>6 DEF Keeps
<1>8. Keeps(a.row, new, a.end)
  BY <1>5, <1>6
<1> QED
  BY <1>2, <1>5, <1>6, <1>7, <1>8 DEF Keeps

(* When there is no place, every one of that length that ends before the   *)
(* last slot has a slot that is in use.                                    *)
LEMMA RoomIsUsed ==
  ASSUME NEW row, NEW size \in Nat \ {0}, FindEntryGap(row, size) = {}
  PROVE  \A i \in Positions : i + size <= SlotCount =>
           \E k \in i .. i + size : k < EndOfRow(row) /\ row[k] # Free
<1> SUFFICES ASSUME NEW i \in Positions, i + size <= SlotCount,
                    \A k \in i .. i + size : k < EndOfRow(row) => row[k] = Free
             PROVE  FALSE
  OBVIOUS
<1>1. /\ EndOfRow(row) \in 1 .. SlotCount + 1 /\ SlotCount \in Nat /\ i \in Nat /\ i >= 1
      /\ EndOfRow(row) \in Nat
  BY EndIs, SlotCountAssumption DEF Positions
<1>2. FreeRuns(row, size) = {} /\ ~(EndOfRow(row) <= SlotCount /\ RunAtEnd(row) + size <= SlotCount)
  BY DEF FindEntryGap
<1>3. CASE i + size <= EndOfRow(row)
  <2>1. \A k \in i .. i + size - 1 : row[k] = Free
    BY <1>1, <1>3
  <2>2. i \in FreeRuns(row, size)
    BY <1>3, <2>1 DEF FreeRuns
  <2> QED
    BY <1>2, <2>2
<1>4. CASE i + size > EndOfRow(row)
  <2>1. /\ RunAtEnd(row) \in 1 .. EndOfRow(row) /\ EndOfRow(row) <= SlotCount
        /\ RunAtEnd(row) \in Nat
    BY <1>1, <1>4, RunAtEndIs
  <2>2. RunAtEnd(row) <= i
    <3>1. CASE i <= EndOfRow(row)
      <4>1. \A k \in i .. EndOfRow(row) - 1 : row[k] = Free
        BY <1>1, <1>4
      <4>2. i \in 1 .. EndOfRow(row)
        BY <1>1, <3>1
      <4> QED
        BY <4>1, <4>2, RunAtEndIs
    <3>2. CASE i > EndOfRow(row)
      BY <1>1, <2>1, <3>2
    <3> QED
      BY <1>1, <3>1, <3>2
  <2> QED
    BY <1>1, <1>2, <2>1, <2>2
<1> QED
  BY <1>1, <1>3, <1>4

-----------------------------------------------------------------------------
(* The invariant. *)

IInv ==
  /\ TypeOK /\ UsesTheRoom
  /\ Sound(slots) /\ Distinct(slots)
  /\ HandlesOn(slots, handle)
  /\ IterationIn(slots, iter, stay)

LEMMA Initially ==
  Init => IInv
<1> SUFFICES ASSUME Init PROVE IInv
  OBVIOUS
<1>1. InOrder(slots)
  BY ImagesAssumption DEF Init
<1>2. Sound(slots) /\ Distinct(slots)
  BY <1>1, InOrderIs
<1>3. handle = [f \in Files |-> 0] /\ stay = [n \in Names |-> "gone"] /\ wanted = 0 /\ error = "none"
  BY DEF Init
<1>4. iter.dataEnd = 0
  BY DEF Init, NotIterating
<1>5. iter.filename = ""
  BY DEF Init, NotIterating
<1>6. HandlesOn(slots, handle)
  BY <1>3 DEF HandlesOn
<1>7. IterationIn(slots, iter, stay)
  <2>1. EndOfRow(slots) \in Nat /\ 0 < EndOfRow(slots)
    BY EndIs, SlotCountAssumption
  <2>2. iter.dataEnd \in Nat /\ iter.dataEnd < EndOfRow(slots)
    BY <1>4, <2>1
  <2>3. iter.filename \in Strings \cup {""}
    BY <1>5
  <2>4. \A n \in Names : stay[n] = "gone"
    BY <1>3
  <2> QED
    BY <2>2, <2>3, <2>4 DEF IterationIn
<1>8. TypeOK
  <2>1. \A k \in Positions : IsSlot(slots[k])
    BY <1>2 DEF Sound
  <2>2. iter.dataEnd \in 0 .. SlotCount
    BY <1>4, SlotCountAssumption
  <2>3. handle \in [Files -> 0 .. SlotCount]
    BY <1>3, SlotCountAssumption
  <2>4. iter.filename \in Strings \cup {""}
    BY <1>5
  <2>5. stay \in [Names -> {"gone", "unseen", "seen", "twice"}]
    BY <1>3
  <2> QED
    BY <1>3, <2>1, <2>2, <2>4, <2>5, <2>3 DEF TypeOK, Errors
<1>9. UsesTheRoom
  BY <1>3 DEF UsesTheRoom
<1> QED
  BY <1>2, <1>6, <1>7, <1>8, <1>9 DEF IInv

(* A step that keeps the row and the rest in order keeps the types too.    *)
LEMMA TypesStay ==
  ASSUME IInv, Sound(slots'), HandlesOn(slots', handle'), IterationIn(slots', iter', stay'),
         handle' \in [Files -> 0 .. SlotCount],
         stay' \in [Names -> {"gone", "unseen", "seen", "twice"}], error' \in Errors
  PROVE  TypeOK'
<1>1. \A k \in Positions : IsSlot(slots'[k])
  BY DEF Sound
<1>2. iter'.dataEnd \in 0 .. SlotCount
  <2>1. EndOfRow(slots') \in 1 .. SlotCount + 1 /\ SlotCount \in Nat
    BY EndIs, SlotCountAssumption
  <2>2. iter'.dataEnd \in Nat /\ iter'.dataEnd < EndOfRow(slots')
    BY DEF IterationIn
  <2> QED
    BY <2>1, <2>2
<1>3. iter'.filename \in Strings \cup {""}
  BY DEF IterationIn
<1> QED
  BY <1>1, <1>2, <1>3 DEF TypeOK

LEMMA NoRoomKeeps ==
  ASSUME IInv, NEW n \in Names, NoRoom(n)
  PROVE  /\ IInv'
         /\ Ends(slots') = Ends(slots)
         /\ \A e \in Ends(slots) : Keeps(slots, slots', e)
<1>1. /\ FindEntryGap(slots, Parts[n] + 1) = {} /\ wanted' = Parts[n] + 1
      /\ error' = "ENOSPC"
      /\ slots' = [k \in Positions |-> IF k > EndOfRow(slots) THEN Last ELSE slots[k]]
      /\ handle' = handle /\ iter' = iter /\ stay' = stay
  BY DEF NoRoom
<1>2. /\ Sound(slots') /\ EndOfRow(slots') = EndOfRow(slots) /\ Ends(slots') = Ends(slots)
      /\ \A k \in Positions : k <= EndOfRow(slots) => slots'[k] = slots[k]
      /\ \A e \in Ends(slots) : Keeps(slots, slots', e)
  BY <1>1, Cleared DEF IInv
<1>3. Distinct(slots')
  BY <1>2 DEF IInv, Distinct, Keeps
<1>4. HandlesOn(slots', handle')
  BY <1>1, <1>2 DEF IInv, HandlesOn, Keeps
<1>5. IterationIn(slots', iter', stay')
  <2>1. \A m \in Names, e \in Ends(slots) : stay'[m] # "gone" /\ NameAt(slots, e) = m =>
           e \in Ends(slots') /\ NameAt(slots', e) = m /\ StartAt(slots', e) = StartAt(slots, e)
    BY <1>2 DEF Keeps
  <2>2. EndOfRow(slots) <= EndOfRow(slots')
    BY <1>2, EndIs, SlotCountAssumption
  <2> QED
    BY <1>1, <2>1, <2>2, IterationStays DEF IInv
<1>6. UsesTheRoom'
  <2>1. Parts[n] + 1 \in Nat \ {0}
    BY NamesAssumption
  <2>2. PICK size \in Nat \ {0} : size = Parts[n] + 1
    BY <2>1
  <2>3. \A i \in Positions : i + size <= SlotCount =>
          \E k \in i .. i + size : k < EndOfRow(slots) /\ slots[k] # Free
    BY <1>1, <2>2, RoomIsUsed
  <2>4. ASSUME NEW i \in Positions, i + size <= SlotCount
        PROVE  \E k \in i .. i + size : k < EndOfRow(slots') /\ slots'[k] # Free
    <3>1. PICK k \in i .. i + size : k < EndOfRow(slots) /\ slots[k] # Free
      BY <2>3, <2>4
    <3>2. k \in Positions /\ k <= EndOfRow(slots)
      BY <2>4, <3>1, EndIs, SlotCountAssumption DEF Positions
    <3> QED
      BY <1>2, <3>1, <3>2
  <2>5. ASSUME NEW i \in Positions, i + size <= SlotCount + 1
        PROVE  \E k \in i .. i + size - 1 : slots'[k] # Free
    <3>1. /\ EndOfRow(slots) \in 1 .. SlotCount + 1 /\ SlotCount \in Nat
          /\ i \in Nat /\ i >= 1 /\ i <= SlotCount /\ EndOfRow(slots) \in Nat
      BY EndIs, SlotCountAssumption DEF Positions
    <3>2. CASE i + size <= EndOfRow(slots)
      <4>1. i \notin FreeRuns(slots, size)
        BY <1>1, <2>2 DEF FindEntryGap
      <4>2. PICK k \in i .. i + size - 1 : slots[k] # Free
        BY <3>2, <4>1 DEF FreeRuns
      <4>3. k \in Positions /\ k <= EndOfRow(slots)
        BY <2>5, <3>1, <3>2 DEF Positions
      <4> QED
        BY <1>2, <4>2, <4>3
    <3>3. CASE i + size > EndOfRow(slots)
      <4>1. PICK k \in i .. i + size - 1 : k >= EndOfRow(slots) /\ k <= SlotCount
        <5>1. CASE i >= EndOfRow(slots)
          BY <3>1, <5>1
        <5>2. CASE i < EndOfRow(slots)
          BY <2>5, <3>1, <3>3, <5>2
        <5> QED
          BY <3>1, <5>1, <5>2
      <4>2. k \in Positions /\ k \in Nat
        BY <3>1, <4>1 DEF Positions
      <4>3. CASE k = EndOfRow(slots)
        <5>1. slots'[k] = Last
          BY <1>2, <4>1, <4>2, <4>3, EndIs
        <5> QED
          BY <5>1 DEF Last, Free
      <4>4. CASE k > EndOfRow(slots)
        <5>1. slots'[k] = Last
          BY <1>1, <4>2, <4>4
        <5> QED
          BY <5>1 DEF Last, Free
      <4> QED
        BY <3>1, <4>1, <4>2, <4>3, <4>4
    <3> QED
      BY <3>1, <3>2, <3>3
  <2> QED
    BY <1>1, <2>2, <2>4, <2>5 DEF UsesTheRoom
<1>7. TypeOK'
  <2>1. error' \in Errors
    BY <1>1 DEF Errors
  <2> QED
    BY <1>1, <1>2, <1>4, <1>5, <2>1, TypesStay DEF IInv, TypeOK
<1> QED
  BY <1>2, <1>3, <1>4, <1>5, <1>6, <1>7 DEF IInv

LEMMA NothingWanted ==
  ASSUME wanted' = 0
  PROVE  UsesTheRoom'
BY DEF UsesTheRoom

LEMMA SuccessIs ==
  ASSUME Succeeds
  PROVE  UsesTheRoom' /\ error' \in Errors
BY DEF Succeeds, Errors, UsesTheRoom

LEMMA ReportsAre ==
  ASSUME NEW row, NEW e
  PROVE  RemovalReports(row, e) \subseteq {"none", "EIO"}
BY DEF RemovalReports

(* The name n of the file f is added, which has no entry yet. *)
LEMMA AddingKeeps ==
  ASSUME IInv, NEW n \in Names, ~EntryExists(slots, n), NEW f \in Files, Unused(f),
         NEW a \in AddEntry(slots, n, f, Empty), slots' = a.row,
         handle' \in {handle, [handle EXCEPT ![f] = a.end]},
         iter' = iter, stay' = stay, Succeeds
  PROVE  /\ IInv'
         /\ Ends(slots') = Ends(slots) \cup {a.end} /\ a.end \notin Ends(slots)
         /\ \A e \in Ends(slots) : Keeps(slots, slots', e)
         /\ NameAt(slots', a.end) = n
         /\ slots'[a.end].alias \in Aliases
         /\ slots'[a.end].file = f /\ slots'[a.end].data = Empty
         /\ \A e \in Ends(slots) :
              /\ slots[e].file # f
              /\ n # NameAt(slots, e) /\ n # slots[e].alias
              /\ slots'[a.end].alias # NameAt(slots, e) /\ slots'[a.end].alias # slots[e].alias
<1>1. /\ Sound(slots') /\ EndOfRow(slots) <= EndOfRow(slots')
      /\ a.end \in Positions
      /\ Ends(slots') = Ends(slots) \cup {a.end} /\ a.end \notin Ends(slots)
      /\ \A e \in Ends(slots) : Keeps(slots, slots', e)
      /\ NameAt(slots', a.end) = n
      /\ slots'[a.end].alias \in Aliases
      /\ slots'[a.end].file = f /\ slots'[a.end].data = Empty
      /\ \A e \in Ends(slots) :
           slots'[a.end].alias # NameAt(slots, e) /\ slots'[a.end].alias # slots[e].alias
  BY Added, NamesAssumption DEF IInv
<1>2. ASSUME NEW e \in Ends(slots)
      PROVE  slots[e].file # f /\ n # NameAt(slots, e) /\ n # slots[e].alias
  <2>1. Read(slots, e) \in Listing(slots)
    BY ListingIs DEF IInv
  <2>2. slots[e].file # f
    BY <2>1, ReadIs DEF Unused
  <2> QED
    BY <2>2, ExistsIs DEF IInv
<1>3. Distinct(slots')
  BY <1>1, <1>2, StaysDistinct DEF IInv, Keeps
<1>4. HandlesOn(slots', handle')
  <2>1. ASSUME NEW g \in Files, handle'[g] # 0
        PROVE  handle'[g] \in Ends(slots') /\ slots'[handle'[g]].file = g
    <3>1. CASE g = f
      <4>1. handle[f] = 0
        BY DEF Unused, Opened
      <4>2. handle'[f] = a.end
        BY <2>1, <3>1, <4>1 DEF IInv, TypeOK
      <4> QED
        BY <1>1, <3>1, <4>2
    <3>2. CASE g # f
      <4>1. handle'[g] = handle[g]
        BY <3>2 DEF IInv, TypeOK
      <4>2. handle[g] \in Ends(slots) /\ slots[handle[g]].file = g
        BY <2>1, <4>1 DEF IInv, HandlesOn
      <4> QED
        BY <1>1, <4>1, <4>2 DEF Keeps
    <3> QED
      BY <3>1, <3>2
  <2> QED
    BY <2>1 DEF HandlesOn
<1>5. IterationIn(slots', iter', stay')
  <2>1. \A m \in Names, e \in Ends(slots) : stay'[m] # "gone" /\ NameAt(slots, e) = m =>
           e \in Ends(slots') /\ NameAt(slots', e) = m /\ StartAt(slots', e) = StartAt(slots, e)
    BY <1>1 DEF Keeps
  <2> QED
    BY <1>1, <2>1, IterationStays DEF IInv
<1>6. handle' \in [Files -> 0 .. SlotCount]
  <2>1. a.end \in 0 .. SlotCount
    BY <1>1, SlotCountAssumption DEF Positions
  <2> QED
    BY <2>1 DEF IInv, TypeOK
<1>7. TypeOK'
  BY <1>1, <1>4, <1>5, <1>6, SuccessIs, TypesStay DEF IInv, TypeOK
<1>8. IInv'
  BY <1>1, <1>3, <1>4, <1>5, <1>7, SuccessIs DEF IInv
<1> QED
  BY <1>1, <1>2, <1>8

LEMMA OpenKeeps ==
  ASSUME IInv, NEW n \in Names, Open(n)
  PROVE  IInv' /\ slots' = slots
<1>1. PICK e \in Found(slots, n) : ~ Opened(e.file) /\ HandleOn(e.file, e, n)
  BY DEF Open
<1>2. Succeeds /\ slots' = slots /\ iter' = iter /\ stay' = stay
  BY DEF Open
<1>3. PICK d \in Ends(slots) : e = Read(slots, d)
  BY FoundIs DEF IInv
<1>4. e.file = slots[d].file /\ e.end = d /\ slots[d].file \in Files
  BY <1>3, ReadIs DEF IInv, Distinct
<1>5. handle' = [handle EXCEPT ![slots[d].file] = d]
  BY <1>1, <1>4 DEF HandleOn
<1>6. handle' \in [Files -> 0 .. SlotCount]
  <2>1. d \in 0 .. SlotCount
    BY SlotCountAssumption DEF Ends, Positions
  <2> QED
    BY <1>5, <2>1 DEF IInv, TypeOK
<1>7. HandlesOn(slots', handle')
  <2>1. ASSUME NEW g \in Files, handle'[g] # 0
        PROVE  handle'[g] \in Ends(slots) /\ slots[handle'[g]].file = g
    <3>1. CASE g = slots[d].file
      BY <1>5, <3>1 DEF IInv, TypeOK
    <3>2. CASE g # slots[d].file
      <4>1. handle'[g] = handle[g]
        BY <1>5, <3>2 DEF IInv, TypeOK
      <4> QED
        BY <2>1, <4>1 DEF IInv, HandlesOn
    <3> QED
      BY <3>1, <3>2
  <2> QED
    BY <1>2, <2>1 DEF HandlesOn
<1>8. Sound(slots') /\ Distinct(slots') /\ IterationIn(slots', iter', stay')
  BY <1>2 DEF IInv
<1>9. TypeOK'
  BY <1>2, <1>6, <1>7, <1>8, SuccessIs, TypesStay DEF IInv, TypeOK
<1> QED
  BY <1>2, <1>7, <1>8, <1>9, SuccessIs DEF IInv

(* The entry d goes, of a file that is not open. *)
LEMMA UnlinkKeeps ==
  ASSUME KeepsOpen = TRUE, IInv, NEW n \in Names, Unlink(n)
  PROVE  /\ IInv' /\ error' \in {"none", "EIO"}
         /\ \E d \in Ends(slots) :
              /\ Ends(slots') = Ends(slots) \ {d}
              /\ \A e \in Ends(slots') : Keeps(slots, slots', e)
<1>1. PICK x \in Found(slots, n) :
        /\ ~ Opened(x.file) /\ slots' = RemoveEntry(slots, x) /\ stay' = Gone(x.name)
        /\ error' \in RemovalReports(slots, x)
  BY DEF Unlink
<1>2. wanted' = 0 /\ handle' = handle /\ iter' = iter
  BY DEF Unlink
<1>3. PICK d \in Ends(slots) : x = Read(slots, d)
  BY FoundIs DEF IInv
<1>4. /\ Sound(slots') /\ EndOfRow(slots') = EndOfRow(slots)
      /\ Ends(slots') = Ends(slots) \ {d}
      /\ \A e \in Ends(slots') : Keeps(slots, slots', e)
  BY <1>1, <1>3, Removed DEF IInv
<1>5. x.file = slots[d].file /\ x.name = NameAt(slots, d) /\ slots[d].file \in Files
  BY <1>3, ReadIs DEF IInv, Distinct
<1>6. Distinct(slots')
  BY <1>4, StaysDistinct DEF IInv, Keeps
<1>7. HandlesOn(slots', handle')
  <2>1. ASSUME NEW f \in Files, handle[f] # 0
        PROVE  handle[f] \in Ends(slots') /\ slots'[handle[f]].file = slots[handle[f]].file
    <3>1. handle[f] \in Ends(slots) /\ slots[handle[f]].file = f
      BY <2>1 DEF IInv, HandlesOn
    <3>2. handle[f] # d
      BY <1>1, <1>5, <2>1, <3>1 DEF Opened
    <3> QED
      BY <1>4, <3>1, <3>2 DEF Keeps
  <2> QED
    BY <1>2, <2>1, HandlesStay DEF IInv
<1>8. stay' = [stay EXCEPT ![NameAt(slots, d)] = "gone"]
  BY <1>1, <1>5 DEF Gone
<1>9. IterationIn(slots', iter', stay')
  <2>1. \A m \in Names : stay'[m] # "gone" => stay'[m] = stay[m] /\ m # NameAt(slots, d)
    BY <1>8 DEF IInv, TypeOK
  <2>2. \A m \in Names, e \in Ends(slots) : stay'[m] # "gone" /\ NameAt(slots, e) = m =>
           e \in Ends(slots') /\ NameAt(slots', e) = m /\ StartAt(slots', e) = StartAt(slots, e)
    <3>1. \A m \in Names, e \in Ends(slots) : stay'[m] # "gone" /\ NameAt(slots, e) = m => e \in Ends(slots')
      BY <1>4, <2>1
    <3> QED
      BY <1>4, <3>1 DEF Keeps
  <2>3. EndOfRow(slots) <= EndOfRow(slots')
    BY <1>4, EndIs, SlotCountAssumption
  <2> QED
    BY <1>2, <2>1, <2>2, <2>3, IterationStays DEF IInv
<1>10. TypeOK'
  <2>1. stay' \in [Names -> {"gone", "unseen", "seen", "twice"}]
    BY <1>8 DEF IInv, TypeOK
  <2>2. error' \in Errors
    BY <1>1, ReportsAre DEF Errors
  <2> QED
    BY <1>2, <1>4, <1>7, <1>9, <2>1, <2>2, TypesStay DEF IInv, TypeOK
<1>11. IInv'
  BY <1>2, <1>4, <1>6, <1>7, <1>9, <1>10, NothingWanted DEF IInv
<1>12. error' \in {"none", "EIO"}
  BY <1>1, ReportsAre
<1> QED
  BY <1>4, <1>11, <1>12

(* The entry d becomes the entry of the name new, in other slots.          *)
LEMMA RenameKeeps ==
  ASSUME KeepsOpen = TRUE, IInv, NEW old \in Names, NEW new \in Names, Rename(old, new),
         ~NoRoom(new)
  PROVE  /\ IInv' /\ error' \in {"none", "EIO"}
         /\ \E d \in Ends(slots), t \in Ends(slots') :
              /\ t \notin Ends(slots) /\ Ends(slots') = (Ends(slots) \ {d}) \cup {t}
              /\ \A e \in Ends(slots) \ {d} : Keeps(slots, slots', e)
              /\ NameAt(slots', t) = new /\ slots'[t].alias \in Aliases
              /\ slots'[t].file = slots[d].file /\ slots'[t].data = slots[d].data
              /\ \A e \in Ends(slots) :
                   /\ new # NameAt(slots, e) /\ new # slots[e].alias
                   /\ slots'[t].alias # NameAt(slots, e) /\ slots'[t].alias # slots[e].alias
<1>1. ~ EntryExists(slots, new)
  BY DEF Rename
<1>2. PICK x \in Found(slots, old) :
        /\ ~ Opened(x.file)
        /\ \E a \in AddEntry(slots, new, x.file, x.data) :
             slots' = RemoveEntry(a.row, x) /\ error' \in RemovalReports(a.row, x)
        /\ stay' = Gone(x.name)
        /\ wanted' = 0 /\ handle' = handle /\ iter' = iter
  BY DEF Rename
<1>3. PICK d \in Ends(slots) : x = Read(slots, d)
  BY FoundIs DEF IInv
<1>4. /\ x.file = slots[d].file /\ x.name = NameAt(slots, d) /\ x.data = slots[d].data
      /\ slots[d].file \in Files
  BY <1>3, ReadIs DEF IInv, Distinct
<1>5. PICK a \in AddEntry(slots, new, slots[d].file, slots[d].data) :
        slots' = RemoveEntry(a.row, Read(slots, d)) /\ error' \in {"none", "EIO"}
  BY <1>2, <1>3, <1>4, ReportsAre
<1>6. PICK t : t = a.end
  OBVIOUS
<1>7. /\ Sound(slots') /\ EndOfRow(slots) <= EndOfRow(slots')
      /\ Ends(slots') = (Ends(slots) \ {d}) \cup {t} /\ t \notin Ends(slots)
      /\ \A e \in Ends(slots) \ {d} : Keeps(slots, slots', e)
      /\ NameAt(slots', t) = new /\ slots'[t].alias \in Aliases
      /\ slots'[t].file = slots[d].file /\ slots'[t].data = slots[d].data
      /\ \A e \in Ends(slots) :
           slots'[t].alias # NameAt(slots, e) /\ slots'[t].alias # slots[e].alias
  BY <1>5, <1>6, Renamed DEF IInv
<1>8. \A e \in Ends(slots) : new # NameAt(slots, e) /\ new # slots[e].alias
  BY <1>1, ExistsIs DEF IInv
<1>9. Distinct(slots')
  <2>1. \A e \in Ends(slots') \ {t} :
          /\ e \in Ends(slots) /\ e # d /\ NameAt(slots', e) = NameAt(slots, e)
          /\ slots'[e].alias = slots[e].alias /\ slots'[e].file = slots[e].file
    BY <1>7 DEF Keeps
  <2>2. \A e \in Ends(slots') \ {t} : slots'[e].file # slots'[t].file
    BY <1>7, <2>1 DEF IInv, Distinct
  <2> QED
    BY <1>4, <1>7, <1>8, <2>1, <2>2, StaysDistinct DEF IInv
<1>10. HandlesOn(slots', handle')
  <2>1. ASSUME NEW f \in Files, handle[f] # 0
        PROVE  handle[f] \in Ends(slots') /\ slots'[handle[f]].file = slots[handle[f]].file
    <3>1. handle[f] \in Ends(slots) /\ slots[handle[f]].file = f
      BY <2>1 DEF IInv, HandlesOn
    <3>2. handle[f] # d
      BY <1>2, <1>4, <2>1, <3>1 DEF Opened
    <3> QED
      BY <1>7, <3>1, <3>2 DEF Keeps
  <2> QED
    BY <1>2, <2>1, HandlesStay DEF IInv
<1>11. stay' = [stay EXCEPT ![NameAt(slots, d)] = "gone"]
  BY <1>2, <1>4 DEF Gone
<1>12. IterationIn(slots', iter', stay')
  <2>1. \A m \in Names : stay'[m] # "gone" => stay'[m] = stay[m] /\ m # NameAt(slots, d)
    BY <1>11 DEF IInv, TypeOK
  <2>2. \A m \in Names, e \in Ends(slots) : stay'[m] # "gone" /\ NameAt(slots, e) = m =>
           e \in Ends(slots') /\ NameAt(slots', e) = m /\ StartAt(slots', e) = StartAt(slots, e)
    <3>1. \A m \in Names, e \in Ends(slots) : stay'[m] # "gone" /\ NameAt(slots, e) = m => e # d
      BY <2>1
    <3> QED
      BY <1>7, <3>1 DEF Keeps
  <2> QED
    BY <1>2, <1>7, <2>1, <2>2, IterationStays DEF IInv
<1>13. TypeOK'
  <2>1. stay' \in [Names -> {"gone", "unseen", "seen", "twice"}]
    BY <1>11 DEF IInv, TypeOK
  <2>2. error' \in Errors
    BY <1>5 DEF Errors
  <2> QED
    BY <1>2, <1>7, <1>10, <1>12, <2>1, <2>2, TypesStay DEF IInv, TypeOK
<1>14. IInv'
  BY <1>2, <1>7, <1>9, <1>10, <1>12, <1>13, NothingWanted DEF IInv
<1> QED
  BY <1>5, <1>7, <1>8, <1>14

(* A synchronized entry keeps its name, its alias and its file. *)
LEMMA SyncedIs ==
  ASSUME IInv, NEW f \in Files, Opened(f), NEW data \in Data, slots' = Synced(f, data)
  PROVE  \E e \in Ends(slots) :
           /\ slots[e].file = f
           /\ Sound(slots') /\ EndOfRow(slots') = EndOfRow(slots) /\ Ends(slots') = Ends(slots)
           /\ \A k \in Positions \ {e} : slots'[k] = slots[k]
           /\ slots'[e].alias = slots[e].alias /\ slots'[e].file = f /\ slots'[e].data = data
           /\ \A d \in Ends(slots) : /\ NameAt(slots', d) = NameAt(slots, d)
                                     /\ StartAt(slots', d) = StartAt(slots, d)
<1>1. handle[f] \in Ends(slots) /\ slots[handle[f]].file = f
  BY DEF IInv, HandlesOn, Opened
<1>2. PICK e \in Ends(slots) : e = handle[f]
  BY <1>1
<1>3. slots[e].kind = "alias"
  BY DEF Ends
<1>4. slots' = [slots EXCEPT ![e] = Alias(slots[e].alias, f, data)]
  BY <1>2, <1>3 DEF Synced
<1>5. /\ Sound(slots') /\ EndOfRow(slots') = EndOfRow(slots) /\ Ends(slots') = Ends(slots)
      /\ \A k \in Positions \ {e} : slots'[k] = slots[k]
      /\ slots'[e].alias = slots[e].alias /\ slots'[e].file = f /\ slots'[e].data = data
      /\ \A d \in Ends(slots) : /\ NameAt(slots', d) = NameAt(slots, d)
                                /\ StartAt(slots', d) = StartAt(slots, d)
  <2>1. Sound(slots)
    BY DEF IInv
  <2>2. PICK row : row = slots
    OBVIOUS
  <2>3. PICK new : new = slots'
    OBVIOUS
  <2>4. Sound(row) /\ e \in Ends(row) /\ new = [row EXCEPT ![e] = Alias(row[e].alias, f, data)]
    BY <1>4, <2>1, <2>2, <2>3
  <2>5. row = [k \in Positions |-> row[k]] /\ e \in Positions
    BY <2>4 DEF Sound, Ends
  <2>6. /\ new = [k \in Positions |-> new[k]]
        /\ new[e] = Alias(row[e].alias, f, data)
        /\ \A k \in Positions \ {e} : new[k] = row[k]
    BY <2>4, <2>5
  <2>7. /\ Sound(new) /\ EndOfRow(new) = EndOfRow(row) /\ Ends(new) = Ends(row)
        /\ \A k \in Positions \ {e} : new[k] = row[k]
        /\ new[e].alias = row[e].alias /\ new[e].file = f /\ new[e].data = data
        /\ \A d \in Ends(row) : /\ NameAt(new, d) = NameAt(row, d)
                                /\ StartAt(new, d) = StartAt(row, d)
    <3>1. Sound(row) /\ e \in Ends(row)
      BY <2>4
    <3> QED
      BY <3>1, <2>6, Updated
  <2> QED
    BY <2>2, <2>3, <2>7
<1> QED
  BY <1>1, <1>2, <1>5

(* What Fsync and Close do. *)
LEMMA SyncKeeps ==
  ASSUME IInv, NEW f \in Files, Opened(f), slots' \in {slots} \cup {Synced(f, d) : d \in Data},
         handle' \in {handle, [handle EXCEPT ![f] = 0]},
         iter' = iter, stay' = stay, Succeeds
  PROVE  IInv'
<1>1. /\ Sound(slots') /\ EndOfRow(slots') = EndOfRow(slots) /\ Ends(slots') = Ends(slots)
      /\ \A e \in Ends(slots) :
           /\ NameAt(slots', e) = NameAt(slots, e) /\ StartAt(slots', e) = StartAt(slots, e)
           /\ slots'[e].alias = slots[e].alias /\ slots'[e].file = slots[e].file
  <2>1. CASE slots' = slots
    BY <2>1 DEF IInv
  <2>2. ASSUME NEW data \in Data, slots' = Synced(f, data)
        PROVE  /\ Sound(slots') /\ EndOfRow(slots') = EndOfRow(slots) /\ Ends(slots') = Ends(slots)
               /\ \A e \in Ends(slots) :
                    /\ NameAt(slots', e) = NameAt(slots, e) /\ StartAt(slots', e) = StartAt(slots, e)
                    /\ slots'[e].alias = slots[e].alias /\ slots'[e].file = slots[e].file
    <3>1. PICK x \in Ends(slots) :
            /\ slots[x].file = f
            /\ Sound(slots') /\ EndOfRow(slots') = EndOfRow(slots) /\ Ends(slots') = Ends(slots)
            /\ \A k \in Positions \ {x} : slots'[k] = slots[k]
            /\ slots'[x].alias = slots[x].alias /\ slots'[x].file = f /\ slots'[x].data = data
            /\ \A d \in Ends(slots) : /\ NameAt(slots', d) = NameAt(slots, d)
                                      /\ StartAt(slots', d) = StartAt(slots, d)
      BY <2>2, SyncedIs
    <3>2. Ends(slots) \subseteq Positions
      BY DEF Ends
    <3> QED
      BY <3>1, <3>2
  <2> QED
    BY <2>1, <2>2
<1>2. Distinct(slots')
  BY <1>1 DEF IInv, Distinct
<1>3. HandlesOn(slots', handle')
  <2>1. \A g \in Files : handle'[g] # 0 => handle'[g] = handle[g]
    BY DEF IInv, TypeOK
  <2> QED
    BY <1>1, <2>1 DEF IInv, HandlesOn
<1>4. IterationIn(slots', iter', stay')
  <2>1. EndOfRow(slots) <= EndOfRow(slots')
    BY <1>1, EndIs, SlotCountAssumption
  <2> QED
    BY <1>1, <2>1, IterationStays DEF IInv
<1>5. handle' \in [Files -> 0 .. SlotCount]
  <2>1. handle \in [Files -> 0 .. SlotCount]
    BY DEF IInv, TypeOK
  <2>2. 0 \in 0 .. SlotCount
    BY SlotCountAssumption
  <2> QED
    BY <2>1, <2>2
<1>6. TypeOK'
  BY <1>1, <1>3, <1>4, <1>5, SuccessIs, TypesStay DEF IInv, TypeOK
<1> QED
  BY <1>1, <1>2, <1>3, <1>4, <1>6, SuccessIs DEF IInv

-----------------------------------------------------------------------------
(* The steps of an iteration. *)

(* The entry that is fetched behind pos is the next one, d, under its name *)
(* or, when pos is within it, under its alias.                             *)
LEMMA FetchedIs ==
  ASSUME NEW row, Sound(row), NEW pos \in Nat, pos < EndOfRow(row),
         NEW e \in NextEntries(row, pos)
  PROVE  \E d \in Ends(row) :
           /\ pos < d /\ \A c \in Ends(row) : pos < c => d <= c
           /\ e.end = d /\ e.name \in Strings
           /\ e.name = (IF pos < StartAt(row, d) THEN NameAt(row, d) ELSE row[d].alias)
<1>1. PICK d \in Ends(row) :
        /\ pos < d /\ \A c \in Ends(row) : pos < c => d <= c
        /\ NextEntries(row, pos) = {EntryAt(row, pos, d)}
  BY NextEntriesAre
<1>2. e = EntryAt(row, pos, d)
  BY <1>1
<1>3. /\ e.end = d
      /\ e.name = (IF pos < StartAt(row, d) THEN NameAt(row, d) ELSE row[d].alias)
  BY <1>1, <1>2, EntryAtIs
<1>4. NameAt(row, d) \in Strings
  BY LongForms
<1>5. row[d].alias \in Strings
  BY SlotIs DEF Ends, Sound, Strings
<1> QED
  BY <1>1, <1>3, <1>4, <1>5

(* What becomes of a name that is still to come. *)
LEMMA ToCome ==
  ASSUME NEW row, Sound(row), Distinct(row), NEW pos \in Nat,
         NEW n, NEW e \in Ends(row), NameAt(row, e) = n, pos < StartAt(row, e),
         NEW d \in Ends(row), pos < d, \A c \in Ends(row) : pos < c => d <= c,
         NEW name, name = (IF pos < StartAt(row, d) THEN NameAt(row, d) ELSE row[d].alias)
  PROVE  \/ name = n /\ d = e
         \/ name # n /\ d < StartAt(row, e)
<1>1. CASE d = e
  BY <1>1
<1>2. CASE d # e
  <2>1. name # n
    BY <1>2 DEF Distinct
  <2>2. d \in Nat /\ e \in Nat /\ StartAt(row, e) \in 1 .. e
    BY LongForms
  <2>3. d < e
    BY <1>2, <2>2
  <2> QED
    BY <2>1, <2>3, Apart
<1> QED
  BY <1>1, <1>2

(* The next entry has not the name of one behind. *)
LEMMA Behind ==
  ASSUME NEW row, Sound(row), Distinct(row), NEW pos \in Nat,
         NEW n, NEW e \in Ends(row), NameAt(row, e) = n, e <= pos,
         NEW d \in Ends(row), pos < d,
         NEW name, name = (IF pos < StartAt(row, d) THEN NameAt(row, d) ELSE row[d].alias)
  PROVE  name # n /\ e <= d
<1>1. d \in Nat /\ e \in Nat
  BY LongForms
<1>2. d # e /\ e <= d
  BY <1>1
<1> QED
  BY <1>2 DEF Distinct

(* What a fetch does.  The entry in hand after it, if there is one, is d.  *)
LEMMA FetchDoes ==
  ASSUME IInv, NEW pos \in Nat, pos < EndOfRow(slots), Fetch(pos)
  PROVE  /\ iter'.inUse
         /\ iter'.dataEnd \in Nat /\ iter'.dataEnd < EndOfRow(slots)
         /\ iter'.filename \in Strings \cup {""}
         /\ \/ ~iter'.validEntry /\ \A e \in Ends(slots) : e <= pos
            \/ /\ iter'.validEntry
               /\ \E d \in Ends(slots) :
                    /\ pos < d /\ \A c \in Ends(slots) : pos < c => d <= c
                    /\ iter'.dataEnd = d
                    /\ iter'.filename = (IF pos < StartAt(slots, d) THEN NameAt(slots, d) ELSE slots[d].alias)
<1>1. CASE NextEntries(slots, pos) = {}
  <2>1. iter' = [NotIterating EXCEPT !.inUse = TRUE]
    BY <1>1 DEF Fetch
  <2>2. iter'.inUse /\ ~iter'.validEntry
    BY <2>1 DEF NotIterating
  <2>3. iter'.dataEnd = 0
    BY <2>1 DEF NotIterating
  <2>4. iter'.filename = ""
    BY <2>1 DEF NotIterating
  <2>5. \A e \in Ends(slots) : e <= pos
    BY <1>1, NextEntriesAre
  <2>6. EndOfRow(slots) \in Nat /\ 0 < EndOfRow(slots)
    BY EndIs, SlotCountAssumption
  <2>7. iter'.dataEnd \in Nat /\ iter'.dataEnd < EndOfRow(slots)
    BY <2>3, <2>6
  <2>8. iter'.filename \in Strings \cup {""}
    BY <2>4
  <2> QED
    BY <2>2, <2>5, <2>7, <2>8
<1>2. CASE NextEntries(slots, pos) # {}
  <2>1. PICK e \in NextEntries(slots, pos) : iter' = Fetched(e)
    BY <1>2 DEF Fetch
  <2>2. PICK d \in Ends(slots) :
           /\ pos < d /\ \A c \in Ends(slots) : pos < c => d <= c
           /\ e.end = d /\ e.name \in Strings
           /\ e.name = (IF pos < StartAt(slots, d) THEN NameAt(slots, d) ELSE slots[d].alias)
    BY FetchedIs DEF IInv
  <2>3. iter'.inUse /\ iter'.validEntry /\ iter'.dataEnd = d /\ iter'.filename = e.name
    BY <2>1, <2>2 DEF Fetched
  <2>4. d \in Nat /\ d < EndOfRow(slots)
    BY DEF Ends, Positions
  <2>5. iter'.dataEnd \in Nat /\ iter'.dataEnd < EndOfRow(slots)
    BY <2>3, <2>4
  <2>6. iter'.filename \in Strings \cup {""}
    BY <2>2, <2>3
  <2> QED
    BY <2>2, <2>3, <2>5, <2>6
<1> QED
  BY <1>1, <1>2

LEMMA OpeningAnIteration ==
  ASSUME IInv, DirOpen
  PROVE  IInv'
<1>1. /\ Fetch(0) /\ Succeeds /\ slots' = slots /\ handle' = handle
      /\ stay' = [n \in Names |->
           IF \E e \in Listing(slots) : e.name = n THEN "unseen" ELSE "gone"]
  BY DEF DirOpen
<1>2. PICK z \in Nat : z = 0
  OBVIOUS
<1>3. Fetch(z) /\ z < EndOfRow(slots) /\ EndOfRow(slots) \in Nat
  BY <1>1, <1>2, EndIs, SlotCountAssumption
<1>4. /\ iter'.inUse
      /\ iter'.dataEnd \in Nat /\ iter'.dataEnd < EndOfRow(slots)
      /\ iter'.filename \in Strings \cup {""}
      /\ \/ ~iter'.validEntry /\ \A e \in Ends(slots) : e <= z
         \/ /\ iter'.validEntry
            /\ \E d \in Ends(slots) :
                 /\ z < d /\ \A c \in Ends(slots) : z < c => d <= c
                 /\ iter'.dataEnd = d
                 /\ iter'.filename = (IF z < StartAt(slots, d) THEN NameAt(slots, d) ELSE slots[d].alias)
  BY <1>3, FetchDoes
<1>5. ASSUME NEW n \in Names, stay'[n] # "gone"
      PROVE  \E e \in Ends(slots) : NameAt(slots, e) = n /\ Met(slots, iter', stay', n, e)
  <2>1. stay'[n] = "unseen" /\ \E x \in Listing(slots) : x.name = n
    BY <1>1, <1>5
  <2>2. PICK e \in Ends(slots) : NameAt(slots, e) = n
    BY <2>1, ListingIs, ReadIs DEF IInv
  <2>3. z < StartAt(slots, e) /\ z < e /\ e \in Nat
    BY <1>2, LongForms DEF IInv
  <2>4. ~(e <= z)
    BY <2>3
  <2>5. iter'.validEntry
    BY <1>4, <2>4
  <2>6. Sound(slots) /\ Distinct(slots)
    BY DEF IInv
  <2>7. PICK d \in Ends(slots) :
          /\ z < d /\ \A c \in Ends(slots) : z < c => d <= c
          /\ iter'.dataEnd = d
          /\ iter'.filename = (IF z < StartAt(slots, d) THEN NameAt(slots, d) ELSE slots[d].alias)
    BY <1>4, <2>5
  <2>8. PICK name : name = iter'.filename
    OBVIOUS
  <2>9. \/ name = n /\ d = e
        \/ name # n /\ d < StartAt(slots, e)
    BY <2>2, <2>3, <2>7, <2>8, <2>6, ToCome
  <2>10. Met(slots, iter', stay', n, e)
    BY <2>1, <2>7, <2>8, <2>9, <2>5 DEF Met
  <2> QED
    BY <2>2, <2>10
<1>6. IterationIn(slots', iter', stay')
  BY <1>1, <1>4, <1>5 DEF IterationIn
<1>7. stay' \in [Names -> {"gone", "unseen", "seen", "twice"}]
  BY <1>1
<1>8. Sound(slots') /\ Distinct(slots') /\ HandlesOn(slots', handle')
  BY <1>1 DEF IInv
<1>9. TypeOK'
  BY <1>1, <1>6, <1>7, <1>8, SuccessIs, TypesStay DEF IInv, TypeOK
<1> QED
  BY <1>1, <1>6, <1>8, <1>9, SuccessIs DEF IInv

LEMMA GoingOn ==
  ASSUME IInv, DirNext
  PROVE  IInv'
<1>1. /\ iter.inUse /\ iter.validEntry
      /\ Fetch(iter.dataEnd) /\ Succeeds /\ slots' = slots /\ handle' = handle
      /\ stay' = [n \in Names |->
           IF n # iter.filename \/ stay[n] = "gone" THEN stay[n]
           ELSE IF stay[n] = "unseen" THEN "seen" ELSE "twice"]
  BY DEF DirNext
<1>2. PICK pos \in Nat : pos = iter.dataEnd /\ pos < EndOfRow(slots)
  BY DEF IInv, IterationIn
<1>3. Fetch(pos)
  BY <1>1, <1>2
<1>4. /\ iter'.inUse
      /\ iter'.dataEnd \in Nat /\ iter'.dataEnd < EndOfRow(slots)
      /\ iter'.filename \in Strings \cup {""}
      /\ \/ ~iter'.validEntry /\ \A e \in Ends(slots) : e <= pos
         \/ /\ iter'.validEntry
            /\ \E d \in Ends(slots) :
                 /\ pos < d /\ \A c \in Ends(slots) : pos < c => d <= c
                 /\ iter'.dataEnd = d
                 /\ iter'.filename = (IF pos < StartAt(slots, d) THEN NameAt(slots, d) ELSE slots[d].alias)
  BY <1>2, <1>3, FetchDoes
<1>5. ASSUME NEW n \in Names, stay'[n] # "gone"
      PROVE  \E e \in Ends(slots) : NameAt(slots, e) = n /\ Met(slots, iter', stay', n, e)
  <2>1. stay[n] # "gone"
    BY <1>1, <1>5
  <2>2. PICK e \in Ends(slots) : NameAt(slots, e) = n /\ Met(slots, iter, stay, n, e)
    BY <2>1 DEF IInv, IterationIn
  <2>3. e \in Nat /\ StartAt(slots, e) \in 1 .. e
    BY LongForms DEF IInv
  <2>4. \/ stay[n] = "unseen" /\ iter.filename = n /\ pos = e
        \/ stay[n] = "unseen" /\ iter.filename # n /\ pos < StartAt(slots, e)
        \/ stay[n] = "seen" /\ iter.filename # n /\ e <= pos
    BY <1>1, <1>2, <2>2 DEF Met
  <2>5. CASE stay[n] = "unseen" /\ iter.filename # n /\ pos < StartAt(slots, e)
    <3>1. stay'[n] = "unseen"
      BY <1>1, <2>5
    <3>2. pos < e
      BY <2>3, <2>5
    <3>3. ~(e <= pos)
      BY <2>3, <3>2
    <3>4. iter'.validEntry
      BY <1>4, <3>3
    <3>5. Sound(slots) /\ Distinct(slots)
      BY DEF IInv
    <3>6. PICK d \in Ends(slots) :
            /\ pos < d /\ \A c \in Ends(slots) : pos < c => d <= c
            /\ iter'.dataEnd = d
            /\ iter'.filename = (IF pos < StartAt(slots, d) THEN NameAt(slots, d) ELSE slots[d].alias)
      BY <1>4, <3>4
    <3>7. PICK name : name = iter'.filename
      OBVIOUS
    <3>8. \/ name = n /\ d = e
          \/ name # n /\ d < StartAt(slots, e)
      BY <2>2, <2>5, <3>6, <3>7, <3>5, ToCome
    <3>9. Met(slots, iter', stay', n, e)
      BY <3>1, <3>6, <3>7, <3>8, <3>4 DEF Met
    <3> QED
      BY <2>2, <3>9
  <2>6. CASE stay'[n] = "seen" /\ e <= pos
    <3>1. iter'.validEntry => iter'.filename # n /\ e <= iter'.dataEnd
      <4> SUFFICES ASSUME iter'.validEntry
                   PROVE  iter'.filename # n /\ e <= iter'.dataEnd
        OBVIOUS
      <4>1. PICK d \in Ends(slots) :
              /\ pos < d /\ iter'.dataEnd = d
              /\ iter'.filename = (IF pos < StartAt(slots, d) THEN NameAt(slots, d) ELSE slots[d].alias)
        BY <1>4
      <4>2. PICK name : name = iter'.filename
        OBVIOUS
      <4>3. name # n /\ e <= d
        BY <2>2, <2>6, <4>1, <4>2, Behind DEF IInv
      <4> QED
        BY <4>1, <4>2, <4>3
    <3>2. Met(slots, iter', stay', n, e)
      BY <2>6, <3>1 DEF Met
    <3> QED
      BY <2>2, <3>2
  <2>7. CASE stay[n] = "unseen" /\ iter.filename = n /\ pos = e
    <3>1. stay'[n] = "seen" /\ e <= pos
      BY <1>1, <2>3, <2>7
    <3> QED
      BY <2>6, <3>1
  <2>8. CASE stay[n] = "seen" /\ iter.filename # n /\ e <= pos
    <3>1. stay'[n] = "seen"
      BY <1>1, <2>8
    <3> QED
      BY <2>6, <2>8, <3>1
  <2> QED
    BY <2>4, <2>5, <2>7, <2>8
<1>6. IterationIn(slots', iter', stay')
  BY <1>1, <1>4, <1>5 DEF IterationIn
<1>7. stay' \in [Names -> {"gone", "unseen", "seen", "twice"}]
  BY <1>1 DEF IInv, TypeOK
<1>8. Sound(slots') /\ Distinct(slots') /\ HandlesOn(slots', handle')
  BY <1>1 DEF IInv
<1>9. TypeOK'
  BY <1>1, <1>6, <1>7, <1>8, SuccessIs, TypesStay DEF IInv, TypeOK
<1> QED
  BY <1>1, <1>6, <1>8, <1>9, SuccessIs DEF IInv

LEMMA ClosingAnIteration ==
  ASSUME IInv, DirClose
  PROVE  IInv'
<1>1. /\ iter' = NotIterating /\ Succeeds /\ slots' = slots /\ handle' = handle
      /\ stay' = [n \in Names |-> "gone"]
  BY DEF DirClose
<1>2. iter'.dataEnd = 0
  BY <1>1 DEF NotIterating
<1>3. iter'.filename = ""
  BY <1>1 DEF NotIterating
<1>4. iter'.dataEnd \in Nat /\ iter'.dataEnd < EndOfRow(slots)
  <2>1. EndOfRow(slots) \in Nat /\ 0 < EndOfRow(slots)
    BY EndIs, SlotCountAssumption
  <2> QED
    BY <1>2, <2>1
<1>5. iter'.filename \in Strings \cup {""}
  BY <1>3
<1>6. \A n \in Names : stay'[n] = "gone"
  BY <1>1
<1>7. IterationIn(slots', iter', stay')
  BY <1>1, <1>4, <1>5, <1>6 DEF IterationIn
<1>8. stay' \in [Names -> {"gone", "unseen", "seen", "twice"}]
  BY <1>1
<1>9. Sound(slots') /\ Distinct(slots') /\ HandlesOn(slots', handle')
  BY <1>1 DEF IInv
<1>10. TypeOK'
  BY <1>1, <1>7, <1>8, <1>9, SuccessIs, TypesStay DEF IInv, TypeOK
<1> QED
  BY <1>1, <1>7, <1>9, <1>10, SuccessIs DEF IInv

-----------------------------------------------------------------------------
(* The theorems. *)

LEMMA EveryStep ==
  ASSUME KeepsOpen = TRUE
  PROVE  IInv /\ [Next]_vars => IInv'
<1> SUFFICES ASSUME IInv, [Next]_vars
             PROVE  IInv'
  OBVIOUS
<1>1. ASSUME NEW n \in Names, Create(n)
      PROVE  IInv'
  <2>1. CASE NoRoom(n)
    BY <2>1, NoRoomKeeps
  <2>2. CASE ~NoRoom(n)
    <3>1. PICK f \in Files : \E a \in AddEntry(slots, n, f, Empty) :
            Unused(f) /\ slots' = a.row /\ HandleOn(f, a, n)
      BY <1>1, <2>2 DEF Create
    <3>2. PICK a \in AddEntry(slots, n, f, Empty) :
            Unused(f) /\ slots' = a.row /\ HandleOn(f, a, n)
      BY <3>1
    <3>3. Succeeds /\ iter' = iter /\ stay' = stay /\ ~EntryExists(slots, n)
      BY <1>1, <2>2 DEF Create
    <3>4. handle' \in {handle, [handle EXCEPT ![f] = a.end]}
      BY <3>2 DEF HandleOn
    <3> QED
      BY <3>2, <3>3, <3>4, AddingKeeps
  <2> QED
    BY <2>1, <2>2
<1>2. ASSUME NEW n \in Names, Mkdir(n)
      PROVE  IInv'
  <2>1. CASE NoRoom(n)
    BY <2>1, NoRoomKeeps
  <2>2. CASE ~NoRoom(n)
    <3>1. PICK f \in Files : \E a \in AddEntry(slots, n, f, Empty) : Unused(f) /\ slots' = a.row
      BY <1>2, <2>2 DEF Mkdir
    <3>2. PICK a \in AddEntry(slots, n, f, Empty) : Unused(f) /\ slots' = a.row
      BY <3>1
    <3>3. Succeeds /\ handle' = handle /\ iter' = iter /\ stay' = stay /\ ~EntryExists(slots, n)
      BY <1>2, <2>2 DEF Mkdir
    <3>4. handle' \in {handle, [handle EXCEPT ![f] = a.end]}
      BY <3>3
    <3> QED
      BY <3>2, <3>3, <3>4, AddingKeeps
  <2> QED
    BY <2>1, <2>2
<1>3. ASSUME NEW n \in Names, Open(n)
      PROVE  IInv'
  BY <1>3, OpenKeeps
<1>4. ASSUME NEW n \in Names, Unlink(n)
      PROVE  IInv'
  BY <1>4, UnlinkKeeps
<1>5. ASSUME NEW old \in Names, NEW new \in Names, Rename(old, new)
      PROVE  IInv'
  <2>1. CASE NoRoom(new)
    BY <2>1, NoRoomKeeps
  <2>2. CASE ~NoRoom(new)
    BY <1>5, <2>2, RenameKeeps
  <2> QED
    BY <2>1, <2>2
<1>6. ASSUME NEW f \in Files, Fsync(f)
      PROVE  IInv'
  <2>1. Opened(f) /\ slots' \in {slots} \cup {Synced(f, d) : d \in Data}
    BY <1>6 DEF Fsync
  <2>2. handle' \in {handle, [handle EXCEPT ![f] = 0]} /\ iter' = iter /\ stay' = stay /\ Succeeds
    BY <1>6 DEF Fsync
  <2> QED
    BY <2>1, <2>2, SyncKeeps
<1>7. ASSUME NEW f \in Files, Close(f)
      PROVE  IInv'
  <2>1. Opened(f) /\ slots' \in {slots} \cup {Synced(f, d) : d \in Data}
    BY <1>7 DEF Close
  <2>2. handle' \in {handle, [handle EXCEPT ![f] = 0]} /\ iter' = iter /\ stay' = stay /\ Succeeds
    BY <1>7 DEF Close
  <2> QED
    BY <2>1, <2>2, SyncKeeps
<1>8. CASE DirOpen
  BY <1>8, OpeningAnIteration
<1>9. CASE DirNext
  BY <1>9, GoingOn
<1>10. CASE DirClose
  BY <1>10, ClosingAnIteration
<1>11. CASE UNCHANGED vars
  BY <1>11 DEF vars, IInv, TypeOK, UsesTheRoom
<1> QED
  BY <1>1, <1>2, <1>3, <1>4, <1>5, <1>6, <1>7, <1>8, <1>9, <1>10, <1>11 DEF Next

(* When no open file is removed or renamed, the directory is always in     *)
(* order, its handles are on their entries, and its iterations are where   *)
(* they should be: the inductive invariant of the theorems below.          *)
THEOREM DirectoryInvariance ==
  ASSUME KeepsOpen = TRUE
  PROVE  Spec => []IInv
<1>1. Init => IInv
  BY Initially
<1>2. IInv /\ [Next]_vars => IInv'
  BY EveryStep
<1> QED
  BY <1>1, <1>2, PTL DEF Spec

(* Every variable holds a value of the kind the code keeps in it; no name  *)
(* that is read is put together from the slots of two entries.             *)
THEOREM DirectoryTypes ==
  ASSUME KeepsOpen = TRUE
  PROVE  Spec => []TypeOK
<1>1. IInv => TypeOK
  BY DEF IInv
<1> QED
  BY <1>1, DirectoryInvariance, PTL

(* The dirEntryEnd that a handle was given at open (fatfile.h:58) is the   *)
(* alias of its file until it is closed, whatever is added, removed and    *)
(* renamed meanwhile.                                                      *)
THEOREM HandlesKeepTheirEntries ==
  ASSUME KeepsOpen = TRUE
  PROVE  Spec => []EntryOfHandle
<1>1. IInv => EntryOfHandle
  BY DEF IInv, HandlesOn, EntryOfHandle, Opened, Ends
<1> QED
  BY <1>1, DirectoryInvariance, PTL

(* An iteration reports every name that stays, and none of them twice,     *)
(* whatever changes between its steps.                                     *)
THEOREM ThoseWhoStayAreListed ==
  ASSUME KeepsOpen = TRUE
  PROVE  Spec => []ListsThoseWhoStay
<1>1. IInv => ListsThoseWhoStay
  <2> SUFFICES ASSUME IInv, NEW n \in Names
               PROVE  /\ stay[n] # "twice"
                      /\ (iter.inUse /\ ~ iter.validEntry) => stay[n] # "unseen"
    BY DEF ListsThoseWhoStay
  <2>1. CASE stay[n] = "gone"
    BY <2>1
  <2>2. CASE stay[n] # "gone"
    <3>1. PICK e \in Ends(slots) : Met(slots, iter, stay, n, e)
      BY <2>2 DEF IInv, IterationIn
    <3> QED
      BY <3>1 DEF Met
  <2> QED
    BY <2>1, <2>2
<1> QED
  BY <1>1, DirectoryInvariance, PTL

(* findEntryGap gives up only when no row of that many slots is removed,   *)
(* and every one with a slot behind it for the end has a slot in use.      *)
THEOREM TheRoomIsUsed ==
  ASSUME KeepsOpen = TRUE
  PROVE  Spec => []UsesTheRoom
<1>1. IInv => UsesTheRoom
  BY DEF IInv
<1> QED
  BY <1>1, DirectoryInvariance, PTL

-----------------------------------------------------------------------------
(* The directory is a list of names. *)

(* What the entry e is to the list, and all of them. *)
Abs(row, e) ==
  [name |-> NameAt(row, e), alias |-> row[e].alias, file |-> row[e].file, data |-> row[e].data]
AbsOf(row) == {Abs(row, e) : e \in Ends(row)}

Entries(row) ==
  {[name |-> e.name, alias |-> e.alias, file |-> e.file, data |-> e.data] : e \in Listing(row)}

LEMMA EntriesAre ==
  ASSUME NEW row, Sound(row)
  PROVE  Entries(row) = AbsOf(row)
<1>1. Listing(row) = {Read(row, e) : e \in Ends(row)}
  BY ListingIs
<1>2. ASSUME NEW e \in Ends(row)
      PROVE  LET x == Read(row, e) IN
             [name |-> x.name, alias |-> x.alias, file |-> x.file, data |-> x.data] = Abs(row, e)
  BY ReadIs DEF Abs
<1>3. Entries(row) \subseteq AbsOf(row)
  <2> SUFFICES ASSUME NEW y \in Entries(row) PROVE y \in AbsOf(row)
    OBVIOUS
  <2>1. PICK x \in Listing(row) :
          y = [name |-> x.name, alias |-> x.alias, file |-> x.file, data |-> x.data]
    BY DEF Entries
  <2>2. PICK e \in Ends(row) : x = Read(row, e)
    BY <1>1
  <2>3. y = Abs(row, e)
    BY <1>2, <2>1, <2>2
  <2> QED
    BY <2>3 DEF AbsOf
<1>4. AbsOf(row) \subseteq Entries(row)
  <2> SUFFICES ASSUME NEW e \in Ends(row) PROVE Abs(row, e) \in Entries(row)
    BY DEF AbsOf
  <2>1. Read(row, e) \in Listing(row)
    BY <1>1
  <2> QED
    BY <1>2, <2>1 DEF Entries
<1> QED
  BY <1>3, <1>4

LEMMA AbsIs ==
  ASSUME NEW row, NEW e
  PROVE  /\ Abs(row, e).name = NameAt(row, e) /\ Abs(row, e).alias = row[e].alias
         /\ Abs(row, e).file = row[e].file /\ Abs(row, e).data = row[e].data
BY DEF Abs

(* The entries of a row in order are entries, and do not clash.            *)
LEMMA AbsInOrder ==
  ASSUME NEW row, Sound(row), Distinct(row)
  PROVE  /\ \A e \in Ends(row) : Abs(row, e) \in List!Entry
         /\ \A d, e \in Ends(row) : d # e =>
              /\ Abs(row, d) # Abs(row, e)
              /\ Abs(row, d).file # Abs(row, e).file
              /\ ~List!Answers(Abs(row, d), Abs(row, e).name)
              /\ ~List!Answers(Abs(row, d), Abs(row, e).alias)
<1>1. ASSUME NEW e \in Ends(row)
      PROVE  Abs(row, e) \in List!Entry
  <2>1. NameAt(row, e) \in Strings /\ row[e].file \in Files
    BY LongForms DEF Distinct
  <2>2. row[e].alias \in Strings /\ row[e].data \in Data
    BY SlotIs DEF Ends, Sound, Strings
  <2> QED
    BY <2>1, <2>2 DEF Abs, List!Entry
<1>2. ASSUME NEW d \in Ends(row), NEW e \in Ends(row), d # e
      PROVE  /\ Abs(row, d) # Abs(row, e)
             /\ Abs(row, d).file # Abs(row, e).file
             /\ ~List!Answers(Abs(row, d), Abs(row, e).name)
             /\ ~List!Answers(Abs(row, d), Abs(row, e).alias)
  <2>1. /\ row[d].file # row[e].file
        /\ NameAt(row, e) # NameAt(row, d) /\ NameAt(row, e) # row[d].alias
        /\ row[e].alias # NameAt(row, d) /\ row[e].alias # row[d].alias
    BY <1>2 DEF Distinct
  <2> QED
    BY <2>1, AbsIs DEF List!Answers
<1> QED
  BY <1>1, <1>2

LEMMA ListInitially ==
  Init => List!Init
<1> SUFFICES ASSUME Init PROVE List!Init
  OBVIOUS
<1>1. Sound(slots) /\ Distinct(slots)
  BY Initially DEF IInv
<1> DEFINE E == Entries(slots)
<1>2. E = AbsOf(slots)
  BY <1>1, EntriesAre
<1>3. E \subseteq List!Entry
  BY <1>1, <1>2, AbsInOrder DEF AbsOf
<1>4. ASSUME NEW d \in E
      PROVE  ~ List!Clashes(E \ {d}, d) /\ \A e \in E \ {d} : d.file # e.file
  <2>1. PICK x \in Ends(slots) : d = Abs(slots, x)
    BY <1>2 DEF AbsOf
  <2>2. ASSUME NEW e \in E \ {d}
        PROVE  d.file # e.file /\ ~List!Answers(e, d.name) /\ ~List!Answers(e, d.alias)
    <3>1. PICK y \in Ends(slots) : e = Abs(slots, y)
      BY <1>2 DEF AbsOf
    <3>2. x # y
      BY <2>1, <3>1
    <3> QED
      BY <1>1, <2>1, <3>1, <3>2, AbsInOrder
  <2> QED
    BY <2>2 DEF List!Clashes
<1>5. error = "none"
  BY DEF Init
<1> QED
  BY <1>3, <1>4, <1>5 DEF List!Init, Entries

LEMMA AbsKept ==
  ASSUME NEW row, NEW new, NEW e, Keeps(row, new, e)
  PROVE  Abs(new, e) = Abs(row, e)
BY DEF Abs, Keeps

LEMMA AbsApart ==
  ASSUME NEW row, Sound(row), Distinct(row), NEW e \in Ends(row)
  PROVE  /\ Abs(row, e) \in List!Entry
         /\ \A d \in Ends(row) \ {e} :
              /\ Abs(row, d) # Abs(row, e)
              /\ Abs(row, d).file # Abs(row, e).file
              /\ ~List!Answers(Abs(row, d), Abs(row, e).name)
              /\ ~List!Answers(Abs(row, d), Abs(row, e).alias)
BY AbsInOrder

(* A new entry in the row is a new entry of the list. *)
LEMMA AbsAdded ==
  ASSUME NEW row, NEW new, Sound(new), Distinct(new),
         NEW t, t \notin Ends(row), Ends(new) = Ends(row) \cup {t},
         \A e \in Ends(row) : Keeps(row, new, e)
  PROVE  List!Add(AbsOf(row), AbsOf(new))
<1> DEFINE E == AbsOf(row)
           x == Abs(new, t)
<1>1. \A e \in Ends(row) : Abs(new, e) = Abs(row, e)
  BY AbsKept
<1>2. AbsOf(new) = E \cup {x}
  BY <1>1 DEF AbsOf
<1>3. t \in Ends(new)
  OBVIOUS
<1>4. /\ x \in List!Entry
      /\ \A e \in Ends(row) : /\ Abs(row, e) # x /\ Abs(row, e).file # x.file
                              /\ ~List!Answers(Abs(row, e), x.name)
                              /\ ~List!Answers(Abs(row, e), x.alias)
  BY <1>1, <1>3, AbsApart
<1>5. \A d \in E : d # x /\ d.file # x.file /\ ~List!Answers(d, x.name) /\ ~List!Answers(d, x.alias)
  BY <1>4 DEF AbsOf
<1>6. ~List!Clashes(E, x)
  BY <1>5 DEF List!Clashes
<1> HIDE DEF E, x
<1>7. x \in AbsOf(new) \ E
  BY <1>2, <1>5
<1> QED
  BY <1>2, <1>4, <1>5, <1>6, <1>7 DEF List!Add, E

(* An entry that the row loses is an entry that the list loses. *)
LEMMA AbsRemoved ==
  ASSUME NEW row, NEW new, Sound(row), Distinct(row),
         NEW d \in Ends(row), Ends(new) = Ends(row) \ {d},
         \A e \in Ends(new) : Keeps(row, new, e)
  PROVE  List!Remove(AbsOf(row), AbsOf(new))
<1>1. \A e \in Ends(new) : Abs(new, e) = Abs(row, e)
  BY AbsKept
<1>2. \A e \in Ends(row) \ {d} : Abs(row, e) # Abs(row, d)
  BY AbsApart
<1>3. AbsOf(new) = AbsOf(row) \ {Abs(row, d)}
  BY <1>1, <1>2 DEF AbsOf
<1>4. Abs(row, d) \in AbsOf(row)
  BY DEF AbsOf
<1> QED
  BY <1>3, <1>4 DEF List!Remove

(* An entry that gets another name does so in the list. *)
LEMMA AbsRenamed ==
  ASSUME NEW row, NEW new, Sound(row), Distinct(row), Sound(new), Distinct(new),
         NEW d \in Ends(row), NEW t \in Ends(new), t \notin Ends(row),
         Ends(new) = (Ends(row) \ {d}) \cup {t},
         \A e \in Ends(row) \ {d} : Keeps(row, new, e),
         new[t].file = row[d].file, new[t].data = row[d].data,
         \A e \in Ends(row) :
           /\ NameAt(new, t) # NameAt(row, e) /\ NameAt(new, t) # row[e].alias
           /\ new[t].alias # NameAt(row, e) /\ new[t].alias # row[e].alias
  PROVE  List!Rename(AbsOf(row), AbsOf(new))
<1> DEFINE E == AbsOf(row)
           F == AbsOf(new)
           x == Abs(new, t)
           y == Abs(row, d)
<1>1. \A e \in Ends(row) \ {d} : Abs(new, e) = Abs(row, e)
  BY AbsKept
<1>2. \A e \in Ends(row) : ~List!Answers(Abs(row, e), x.name) /\ ~List!Answers(Abs(row, e), x.alias)
  BY AbsIs DEF List!Answers
<1>3. \A c \in E : ~List!Answers(c, x.name) /\ ~List!Answers(c, x.alias)
  BY <1>2 DEF AbsOf
<1>4. ~List!Clashes(E, x)
  BY <1>3 DEF List!Clashes
<1>5. \A e \in Ends(row) \ {d} : Abs(row, e) # y
  BY AbsApart
<1>6. x.file = y.file /\ x.data = y.data
  BY AbsIs
<1>7. x \in List!Entry
  BY AbsApart
<1>8. x \notin E
  BY <1>3 DEF List!Answers
<1>9. y \in E
  BY DEF AbsOf
<1>10. F = (E \ {y}) \cup {x}
  <2> HIDE DEF x, y
  <2>1. E = {Abs(row, e) : e \in Ends(row) \ {d}} \cup {y}
    BY DEF AbsOf, y
  <2>2. F = {Abs(row, e) : e \in Ends(row) \ {d}} \cup {x}
    BY <1>1 DEF AbsOf, x
  <2>3. y \notin {Abs(row, e) : e \in Ends(row) \ {d}}
    BY <1>5
  <2> HIDE DEF E, F
  <2> QED
    BY <2>1, <2>2, <2>3
<1> HIDE DEF E, F, x, y
<1>11. y \in E \ F /\ x \in F \ E
  BY <1>8, <1>9, <1>10
<1>12. List!Rename(E, F)
  BY <1>4, <1>6, <1>7, <1>10, <1>11 DEF List!Rename
<1> QED
  BY <1>12 DEF E, F

(* An entry with other data has them in the list, where it may have had    *)
(* them already.                                                           *)
LEMMA AbsUpdated ==
  ASSUME NEW row, NEW new, Sound(row), Distinct(row), Sound(new), Distinct(new),
         NEW d \in Ends(row), Ends(new) = Ends(row),
         new[d].alias = row[d].alias, new[d].file = row[d].file,
         \A e \in Ends(row) : NameAt(new, e) = NameAt(row, e),
         \A e \in Ends(row) \ {d} : new[e] = row[e]
  PROVE  List!Update(AbsOf(row), AbsOf(new)) \/ AbsOf(new) = AbsOf(row)
<1> DEFINE E == AbsOf(row)
           F == AbsOf(new)
           x == Abs(new, d)
           y == Abs(row, d)
<1>1. \A e \in Ends(row) \ {d} : Abs(new, e) = Abs(row, e)
  BY DEF Abs
<1>2. x = [y EXCEPT !.data = x.data]
  BY DEF Abs
<1>3. \A e \in Ends(row) \ {d} : Abs(row, e) # y
  BY AbsApart
<1>4. \A e \in Ends(row) \ {d} : Abs(row, e) # x
  BY <1>1, AbsApart
<1>5. x \in List!Entry
  BY AbsApart
<1> HIDE DEF x, y
<1>6. E = {Abs(row, e) : e \in Ends(row) \ {d}} \cup {y}
  BY DEF AbsOf, y
<1>7. F = {Abs(row, e) : e \in Ends(row) \ {d}} \cup {x}
  BY <1>1 DEF AbsOf, x
<1>8. y \notin {Abs(row, e) : e \in Ends(row) \ {d}} /\ x \notin {Abs(row, e) : e \in Ends(row) \ {d}}
  BY <1>3, <1>4
<1> HIDE DEF E, F
<1>9. F = (E \ {y}) \cup {x}
  BY <1>6, <1>7, <1>8
<1>10. CASE x = y
  BY <1>6, <1>7, <1>10 DEF E, F
<1>11. CASE x # y
  <2>1. y \in E \ F /\ x \in F \ E
    BY <1>6, <1>7, <1>8, <1>11
  <2>2. List!Update(E, F)
    BY <1>2, <1>5, <1>9, <2>1 DEF List!Update
  <2> QED
    BY <2>2 DEF E, F
<1> QED
  BY <1>10, <1>11

(* A call that leaves the entries as they are. *)
LEMMA AbsSame ==
  ASSUME NEW row, NEW new, Ends(new) = Ends(row), \A e \in Ends(row) : Keeps(row, new, e)
  PROVE  AbsOf(new) = AbsOf(row)
BY AbsKept DEF AbsOf

(* What every call does to the list. *)
LEMMA ListSteps ==
  ASSUME KeepsOpen = TRUE, IInv, [Next]_vars
  PROVE  LET E == AbsOf(slots)
             F == AbsOf(slots')
         IN  \/ error' = "none" /\ (List!Add(E, F) \/ List!Update(E, F))
             \/ error' \in {"none", "EIO"} /\ (List!Rename(E, F) \/ List!Remove(E, F))
             \/ error' \in {"none", "ENOSPC"} /\ F = E
             \/ error' = error /\ F = E
<1>1. Sound(slots) /\ Distinct(slots)
  BY DEF IInv
<1>2. IInv'
  BY EveryStep
<1>3. Sound(slots') /\ Distinct(slots')
  BY <1>2 DEF IInv
<1> DEFINE E == AbsOf(slots)
           F == AbsOf(slots')
           Outcome == \/ error' = "none" /\ (List!Add(E, F) \/ List!Update(E, F))
                      \/ error' \in {"none", "EIO"} /\ (List!Rename(E, F) \/ List!Remove(E, F))
                      \/ error' \in {"none", "ENOSPC"} /\ F = E
                      \/ error' = error /\ F = E
<1> HIDE DEF E, F, Outcome
<1>4. ASSUME NEW n \in Names, NoRoom(n)
      PROVE  Outcome
  <2>1. error' = "ENOSPC"
    BY <1>4 DEF NoRoom
  <2>2. F = E
    BY <1>4, NoRoomKeeps, AbsSame DEF E, F
  <2> QED
    BY <2>1, <2>2 DEF Outcome
<1>5. ASSUME NEW n \in Names, ~EntryExists(slots, n), NEW f \in Files, Unused(f),
             NEW a \in AddEntry(slots, n, f, Empty), slots' = a.row,
             handle' \in {handle, [handle EXCEPT ![f] = a.end]},
             iter' = iter, stay' = stay, Succeeds
      PROVE  Outcome
  <2>1. /\ Ends(slots') = Ends(slots) \cup {a.end} /\ a.end \notin Ends(slots)
        /\ \A e \in Ends(slots) : Keeps(slots, slots', e)
    BY <1>5, AddingKeeps
  <2>2. List!Add(E, F)
    BY <1>3, <2>1, AbsAdded DEF E, F
  <2> QED
    BY <1>5, <2>2 DEF Outcome, Succeeds
<1>6. ASSUME NEW n \in Names, Create(n)
      PROVE  Outcome
  <2>1. CASE NoRoom(n)
    BY <1>4, <2>1
  <2>2. CASE ~NoRoom(n)
    <3>1. PICK f \in Files : \E a \in AddEntry(slots, n, f, Empty) :
            Unused(f) /\ slots' = a.row /\ HandleOn(f, a, n)
      BY <1>6, <2>2 DEF Create
    <3>2. PICK a \in AddEntry(slots, n, f, Empty) :
            Unused(f) /\ slots' = a.row /\ HandleOn(f, a, n)
      BY <3>1
    <3>3. Succeeds /\ iter' = iter /\ stay' = stay /\ ~EntryExists(slots, n)
      BY <1>6, <2>2 DEF Create
    <3>4. handle' \in {handle, [handle EXCEPT ![f] = a.end]}
      BY <3>2 DEF HandleOn
    <3> QED
      BY <1>5, <3>2, <3>3, <3>4
  <2> QED
    BY <2>1, <2>2
<1>7. ASSUME NEW n \in Names, Mkdir(n)
      PROVE  Outcome
  <2>1. CASE NoRoom(n)
    BY <1>4, <2>1
  <2>2. CASE ~NoRoom(n)
    <3>1. PICK f \in Files : \E a \in AddEntry(slots, n, f, Empty) : Unused(f) /\ slots' = a.row
      BY <1>7, <2>2 DEF Mkdir
    <3>2. PICK a \in AddEntry(slots, n, f, Empty) : Unused(f) /\ slots' = a.row
      BY <3>1
    <3>3. Succeeds /\ handle' = handle /\ iter' = iter /\ stay' = stay /\ ~EntryExists(slots, n)
      BY <1>7, <2>2 DEF Mkdir
    <3>4. handle' \in {handle, [handle EXCEPT ![f] = a.end]}
      BY <3>3
    <3> QED
      BY <1>5, <3>2, <3>3, <3>4
  <2> QED
    BY <2>1, <2>2
<1>8. ASSUME NEW n \in Names, Unlink(n)
      PROVE  Outcome
  <2>1. PICK d \in Ends(slots) : /\ Ends(slots') = Ends(slots) \ {d}
                                 /\ \A e \in Ends(slots') : Keeps(slots, slots', e)
    BY <1>8, UnlinkKeeps
  <2>2. List!Remove(E, F)
    BY <1>1, <2>1, AbsRemoved DEF E, F
  <2>3. error' \in {"none", "EIO"}
    BY <1>8, UnlinkKeeps
  <2> QED
    BY <2>2, <2>3 DEF Outcome
<1>9. ASSUME NEW old \in Names, NEW new \in Names, Rename(old, new)
      PROVE  Outcome
  <2>1. CASE NoRoom(new)
    BY <1>4, <2>1
  <2>2. CASE ~NoRoom(new)
    <3>1. \E d \in Ends(slots), t \in Ends(slots') :
            /\ t \notin Ends(slots) /\ Ends(slots') = (Ends(slots) \ {d}) \cup {t}
            /\ \A e \in Ends(slots) \ {d} : Keeps(slots, slots', e)
            /\ NameAt(slots', t) = new /\ slots'[t].alias \in Aliases
            /\ slots'[t].file = slots[d].file /\ slots'[t].data = slots[d].data
            /\ \A e \in Ends(slots) :
                 /\ new # NameAt(slots, e) /\ new # slots[e].alias
                 /\ slots'[t].alias # NameAt(slots, e) /\ slots'[t].alias # slots[e].alias
      BY <1>9, <2>2, RenameKeeps
    <3>2. PICK d \in Ends(slots), t \in Ends(slots') :
            /\ t \notin Ends(slots) /\ Ends(slots') = (Ends(slots) \ {d}) \cup {t}
            /\ \A e \in Ends(slots) \ {d} : Keeps(slots, slots', e)
            /\ NameAt(slots', t) = new
            /\ slots'[t].file = slots[d].file /\ slots'[t].data = slots[d].data
            /\ \A e \in Ends(slots) :
                 /\ new # NameAt(slots, e) /\ new # slots[e].alias
                 /\ slots'[t].alias # NameAt(slots, e) /\ slots'[t].alias # slots[e].alias
      BY <3>1
    <3>3. \A e \in Ends(slots) :
            /\ NameAt(slots', t) # NameAt(slots, e) /\ NameAt(slots', t) # slots[e].alias
            /\ slots'[t].alias # NameAt(slots, e) /\ slots'[t].alias # slots[e].alias
      BY <3>2
    <3>4. List!Rename(AbsOf(slots), AbsOf(slots'))
      BY <1>1, <1>3, <3>2, <3>3, AbsRenamed
    <3>5. error' \in {"none", "EIO"}
      BY <1>9, <2>2, RenameKeeps
    <3>6. List!Rename(E, F)
      BY <3>4 DEF E, F
    <3> QED
      BY <3>5, <3>6 DEF Outcome
  <2> QED
    BY <2>1, <2>2
<1>10. ASSUME NEW f \in Files, Opened(f), slots' \in {slots} \cup {Synced(f, d) : d \in Data},
              Succeeds
       PROVE  Outcome
  <2>1. CASE slots' = slots
    BY <1>10, <2>1 DEF E, F, Outcome, Succeeds
  <2>2. CASE slots' # slots
    <3>1. PICK data \in Data : slots' = Synced(f, data)
      BY <1>10, <2>2
    <3>2. PICK d \in Ends(slots) :
            /\ slots[d].file = f /\ Ends(slots') = Ends(slots)
            /\ \A k \in Positions \ {d} : slots'[k] = slots[k]
            /\ slots'[d].alias = slots[d].alias /\ slots'[d].file = f
            /\ \A e \in Ends(slots) : NameAt(slots', e) = NameAt(slots, e)
      BY <1>10, <3>1, SyncedIs
    <3>3. \A e \in Ends(slots) \ {d} : slots'[e] = slots[e]
      BY <3>2 DEF Ends
    <3>4. slots'[d].file = slots[d].file
      BY <3>2
    <3>5. List!Update(E, F) \/ F = E
      BY <1>1, <1>3, <3>2, <3>3, <3>4, AbsUpdated DEF E, F
    <3> QED
      BY <1>10, <3>5 DEF Outcome, Succeeds
  <2> QED
    BY <2>1, <2>2
<1>11. ASSUME NEW f \in Files, Fsync(f)
       PROVE  Outcome
  <2>1. Opened(f) /\ slots' \in {slots} \cup {Synced(f, d) : d \in Data} /\ Succeeds
    BY <1>11 DEF Fsync
  <2> QED
    BY <1>10, <2>1
<1>12. ASSUME NEW f \in Files, Close(f)
       PROVE  Outcome
  BY <1>10, <1>12 DEF Close
<1>13. ASSUME slots' = slots, error' \in {"none", error}
       PROVE  Outcome
  BY <1>13 DEF E, F, Outcome
<1>14. ASSUME NEW n \in Names, Open(n)
       PROVE  Outcome
  BY <1>13, <1>14 DEF Open, Succeeds
<1>15. ASSUME DirOpen \/ DirNext \/ DirClose \/ UNCHANGED vars
       PROVE  Outcome
  BY <1>13, <1>15 DEF DirOpen, DirNext, DirClose, vars, Succeeds
<1>16. Outcome
  BY <1>6, <1>7, <1>8, <1>9, <1>11, <1>12, <1>14, <1>15 DEF Next
<1> QED
  BY <1>16 DEF E, F, Outcome

(* A directory is the list that NameList.tla describes: every scan finds   *)
(* what was added and not removed, under its name, its alias and with its  *)
(* data, wherever the calls and the images they began with have left their *)
(* slots and whatever is behind the end.                                   *)
THEOREM DirectoryIsAList ==
  ASSUME KeepsOpen = TRUE
  PROVE  Spec => DirSpec
<1>1. Init => List!Init
  BY ListInitially
<1>2. ASSUME IInv, [Next]_vars
      PROVE  List!Next \/ (Entries(slots') = Entries(slots) /\ error' = error)
  <2>1. IInv'
    BY <1>2, EveryStep
  <2>2. Sound(slots) /\ Sound(slots')
    BY <1>2, <2>1 DEF IInv
  <2>3. Entries(slots) = AbsOf(slots) /\ Entries(slots') = AbsOf(slots')
    BY <2>2, EntriesAre
  <2> DEFINE E == Entries(slots)
             F == Entries(slots')
  <2>4. \/ error' = "none" /\ (List!Add(E, F) \/ List!Update(E, F))
        \/ error' \in {"none", "EIO"} /\ (List!Rename(E, F) \/ List!Remove(E, F))
        \/ error' \in {"none", "ENOSPC"} /\ F = E
        \/ error' = error /\ F = E
    BY <1>2, <2>3, ListSteps
  <2> QED
    BY <2>4 DEF List!Next, Entries
<1>3. IInv /\ [Next]_vars =>
        [List!Next]_<<{[name |-> e.name, alias |-> e.alias, file |-> e.file, data |-> e.data]
                         : e \in Listing(slots)}, error>>
  BY <1>2 DEF Entries
<1> QED
  BY <1>1, <1>3, DirectoryInvariance, PTL DEF Spec, DirSpec, List!Spec
=============================================================================

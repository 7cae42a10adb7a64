----------------------------- MODULE Directory ------------------------------
(***************************************************************************)
(* A directory on the disc: libefs/source/directory.c, and the calls of    *)
(* fatdir.c and fatfile.c that work on one.                                *)
(*                                                                         *)
(* A directory is a row of slots of 32 bytes.  A name takes one slot, its  *)
(* alias, which holds the start cluster and the size too, and, unless it   *)
(* is a short one, the slots of its long form before that.  The first      *)
(* DIR_ENTRY_LAST ends the row; a DIR_ENTRY_FREE is skipped.  Nothing says *)
(* which slots belong together but their order and a checksum of the       *)
(* alias.                                                                  *)
(*                                                                         *)
(* Names are compared without regard to case, so a name here stands for    *)
(* all the ways to write it.  The checksum is ideal.                       *)
(***************************************************************************)
EXTENDS Integers, FiniteSets, Sequences

CONSTANTS
  Names,       (* the names that clients use                               *)
  Parts,       (* Parts[n]: the number of slots of the long form of n      *)
  Candidates,  (* Candidates[n]: the aliases that n may get, best first    *)
  Files,       (* start clusters, one for each file                        *)
  Data,        (* what an entry says of its file, apart from the alias     *)
  Empty,       (* the data of a new file                                   *)
  SlotCount,   (* the slots of the directory once no cluster is left       *)
  Images,      (* the directories that a mounted image may have            *)
  KeepsOpen    (* TRUE if clients neither remove nor rename an open file   *)

ASSUME NamesAssumption ==
  Parts \in [Names -> Nat] /\ Empty \in Data
ASSUME SlotCountAssumption == SlotCount \in Nat \ {0}
ASSUME KeepsOpenAssumption == KeepsOpen \in BOOLEAN

Positions == 1 .. SlotCount
Aliases == UNION {{Candidates[n][i] : i \in DOMAIN Candidates[n]} : n \in Names}
Strings == Names \cup Aliases

(* A short name is its own alias.  No alias is ever wanting for another:   *)
(* MAX_NUMERIC_TAIL is a large number.                                     *)
ASSUME CandidatesAssumption ==
  /\ Candidates \in [Names -> Seq(Aliases)]
  /\ \A n \in Names :
       Candidates[n] = <<n>> \/ (Parts[n] > 0 /\ Len(Candidates[n]) > Cardinality(Names))

(* The slots.  One that the directory has not been extended to yet is      *)
(* cleared when it is, and so is a Last as well.  A Volume is skipped.     *)
Last == [kind |-> "last"]
Free == [kind |-> "free"]
Volume == [kind |-> "volume"]
Long(n, alias, first) == [kind |-> "long", name |-> n, alias |-> alias, first |-> first]
Alias(alias, file, data) == [kind |-> "alias", alias |-> alias, file |-> file, data |-> data]

VARIABLES
  slots,    (* the row                                                     *)
  handle,   (* dirEntryEnd of the fat_file of each open file, or 0         *)
  iter,     (* the fat_dir_state of an iteration                           *)
  wanted,   (* the slots that the last call found no room for, or 0        *)
  error,    (* what the last call told its caller, or "none"               *)
  stay      (* history: what the iteration has made of the names that were *)
            (* there when it began and have been there since               *)

vars == <<slots, handle, iter, wanted, error, stay>>

Errors == {"none", "ENOSPC", "EIO"}

Succeeds == wanted' = 0 /\ error' = "none"

Opened(f) == handle[f] # 0

Least(S) == CHOOSE x \in S : \A y \in S : x <= y

-----------------------------------------------------------------------------
(* Reading. *)

(* The alias slots a scan that starts behind pos gets to: those before the *)
(* end of the row.                                                         *)
AliasesAfter(row, pos) ==
  {e \in Positions : e > pos /\ row[e].kind = "alias"
     /\ \A k \in pos + 1 .. e : row[k] # Last}

(* Where a long form starts that a scan from behind pos has in hand when   *)
(* it gets to the alias slot e: at a first part, followed by parts with    *)
(* the same checksum, none of them removed.                                *)
LongStarts(row, pos, e) ==
  {s \in pos + 1 .. e - 1 :
     /\ row[s].kind = "long" /\ row[s].first
     /\ \A k \in s .. e - 1 :
          /\ row[k] # Free
          /\ row[k].kind = "long" =>
               row[k].alias = row[e].alias /\ (k > s => ~ row[k].first)}

(* The entry with the alias slot e, as that scan reads it. *)
EntryAt(row, pos, e) ==
  LET starts == LongStarts(row, pos, e)
      start  == IF starts = {} THEN e ELSE Least(starts)
  IN [start |-> start, end |-> e, alias |-> row[e].alias,
      file |-> row[e].file, data |-> row[e].data,
      name |-> IF starts = {} THEN row[e].alias
               ELSE IF e - start = Parts[row[start].name] THEN row[start].name
               ELSE "garbled"]

(* fat_directory_getNextEntry: none, or the one behind pos. *)
NextEntries(row, pos) ==
  LET found == AliasesAfter(row, pos) IN
  IF found = {} THEN {} ELSE {EntryAt(row, pos, Least(found))}

(* All the entries, as fat_directory_getFirstEntry and getNextEntry give   *)
(* them one after the other.                                               *)
Listing(row) ==
  LET ends == AliasesAfter(row, 0) IN
  {EntryAt(row, CHOOSE p \in {0} \cup ends : p < e /\ \A d \in ends : d < e => d <= p, e) : e \in ends}

Answers(e, s) == s = e.name \/ s = e.alias

(* fat_directory_entryFromPath within the directory: the first entry that  *)
(* has s as its name or its alias.                                         *)
Found(row, s) ==
  LET matches == {e \in Listing(row) : Answers(e, s)}
  IN  {e \in matches : \A d \in matches : e.end <= d.end}

(* fat_directory_entryExists *)
EntryExists(row, s) == \E e \in Listing(row) : Answers(e, s)

-----------------------------------------------------------------------------
(* Adding and removing entries. *)

(* The alias that fat_directory_addEntry makes for n: the first that no    *)
(* entry has.                                                              *)
NewAliases(row, n) ==
  LET listing == Listing(row)
      open == {i \in DOMAIN Candidates[n] : \A e \in listing : ~ Answers(e, Candidates[n][i])}
  IN  IF open = {} THEN {} ELSE {Candidates[n][Least(open)]}

(* The end of the row: the first Last, or the slot behind the directory.   *)
EndOfRow(row) ==
  LET ends == {k \in Positions : row[k] = Last}
  IN  IF ends = {} THEN SlotCount + 1 ELSE Least(ends)

(* The first runs of size removed slots, of which the scan takes the first. *)
FreeRuns(row, size) ==
  {i \in Positions : i + size <= EndOfRow(row) /\ \A k \in i .. i + size - 1 : row[k] = Free}

(* Mutant: removed slots before the end of the row are not joined to it. *)
RunAtEnd_NotJoined(row) == EndOfRow(row)

(* The run of removed slots that ends with the row. *)
RunAtEnd(row) ==
  Least({i \in 1 .. EndOfRow(row) : \A k \in i .. EndOfRow(row) - 1 : row[k] = Free})

(* Mutant: the row gets no new end. *)
FindEntryGap_NoEnd(row, size) ==
  LET start == RunAtEnd(row) IN
  IF FreeRuns(row, size) # {}
  THEN {[start |-> Least(FreeRuns(row, size)), row |-> row]}
  ELSE IF EndOfRow(row) <= SlotCount /\ start + size <= SlotCount
  THEN {[start |-> start, row |-> row]}
  ELSE {}

(* fat_directory_findEntryGap: where size slots may be written, and the    *)
(* row it leaves.  At the end of the row it makes room for a new Last too, *)
(* and clears the slots up to there; it gives up if there is none.         *)
FindEntryGap(row, size) ==
  LET start == RunAtEnd(row) IN
  IF FreeRuns(row, size) # {}
  THEN {[start |-> Least(FreeRuns(row, size)), row |-> row]}
  ELSE IF EndOfRow(row) <= SlotCount /\ start + size <= SlotCount
  THEN {[start |-> start,
         row |-> [k \in Positions |-> IF k \in EndOfRow(row) + 1 .. start + size THEN Last ELSE row[k]]]}
  ELSE {}

(* The row with the slots of the name n written from start on. *)
Written(row, start, n, alias, file, data) ==
  [k \in Positions |->
     IF k = start + Parts[n] THEN Alias(alias, file, data)
     ELSE IF k \in start .. start + Parts[n] - 1 THEN Long(n, alias, k = start)
     ELSE row[k]]

(* fat_directory_addEntry: the rows it may leave, with the slot of the     *)
(* alias; none if it finds no room.                                        *)
AddEntry(row, n, file, data) ==
  {[end |-> gap.start + Parts[n], row |-> Written(gap.row, gap.start, n, alias, file, data)] :
     gap \in FindEntryGap(row, Parts[n] + 1), alias \in NewAliases(row, n)}

(* fat_directory_removeEntry *)
RemoveEntry(row, e) ==
  [k \in Positions |-> IF k \in e.start .. e.end THEN Free ELSE row[k]]

(* What its caller reports.  The loop goes on to the next slot before it   *)
(* sees that it is done, and fails where there is none: behind the last    *)
(* slot, or at the end of a cluster if the row has not been extended yet.  *)
RemovalReports(row, e) ==
  IF e.end = SlotCount THEN {"EIO"}
  ELSE IF \A k \in Positions : k > e.end => row[k] = Last THEN {"none", "EIO"}
  ELSE {"none"}

-----------------------------------------------------------------------------
(* The calls. *)

(* The name n is no longer one that has stayed. *)
Gone(n) == [stay EXCEPT ![n] = "gone"]

(* The name n is added, for the file f.  When there is no room, the rest   *)
(* of the directory has been cleared, and nothing else has changed.        *)
NoRoom(n) ==
  /\ FindEntryGap(slots, Parts[n] + 1) = {}
  /\ wanted' = Parts[n] + 1 /\ error' = "ENOSPC"
  /\ slots' = [k \in Positions |-> IF k > EndOfRow(slots) THEN Last ELSE slots[k]]
  /\ UNCHANGED <<handle, iter, stay>>

Unused(f) == ~ Opened(f) /\ \A e \in Listing(slots) : e.file # f

(* Mutant: the handle keeps the place of the first slot of the entry. *)
HandleOn_Start(f, a, n) == handle' = [handle EXCEPT ![f] = a.end - Parts[n]]

(* The handle of f remembers the place of the alias. *)
HandleOn(f, a, n) == handle' = [handle EXCEPT ![f] = a.end]

(* efs_open with O_CREAT of a name that is not there. *)
Create(n) ==
  /\ ~ EntryExists(slots, n)
  /\ \/ NoRoom(n)
     \/ /\ \E f \in Files : \E a \in AddEntry(slots, n, f, Empty) :
             /\ Unused(f)
             /\ slots' = a.row
             /\ HandleOn(f, a, n)
        /\ Succeeds
        /\ UNCHANGED <<iter, stay>>

(* efs_mkdir.  That the cluster it took is lost when there is no room is   *)
(* in FatTable.                                                            *)
Mkdir(n) ==
  /\ ~ EntryExists(slots, n)
  /\ \/ NoRoom(n)
     \/ /\ \E f \in Files : \E a \in AddEntry(slots, n, f, Empty) :
             Unused(f) /\ slots' = a.row
        /\ Succeeds
        /\ UNCHANGED <<handle, iter, stay>>

(* efs_open of a name that is there. *)
Open(n) ==
  /\ \E e \in Found(slots, n) :
       ~ Opened(e.file) /\ HandleOn(e.file, e, n)
  /\ Succeeds
  /\ UNCHANGED <<slots, iter, stay>>

(* efs_unlink, or efs_rmdir of an empty directory. *)
Unlink(n) ==
  /\ \E e \in Found(slots, n) :
       /\ KeepsOpen => ~ Opened(e.file)
       /\ slots' = RemoveEntry(slots, e)
       /\ error' \in RemovalReports(slots, e)
       /\ stay' = Gone(e.name)
  /\ wanted' = 0
  /\ UNCHANGED <<handle, iter>>

(* efs_rename: the new entry is added before the old one is removed.       *)
Rename(old, new) ==
  /\ ~ EntryExists(slots, new)
  /\ \E e \in Found(slots, old) :
       /\ KeepsOpen => ~ Opened(e.file)
       /\ \/ NoRoom(new)
          \/ /\ \E a \in AddEntry(slots, new, e.file, e.data) :
                  /\ slots' = RemoveEntry(a.row, e)
                  /\ error' \in RemovalReports(a.row, e)
             /\ stay' = Gone(e.name)
             /\ wanted' = 0
             /\ UNCHANGED <<handle, iter>>

(* The row after fat_syncToDisc of the file f has put the start cluster    *)
(* and the data d in the slot at its dirEntryEnd, whatever that is now.    *)
Synced(f, d) ==
  [slots EXCEPT ![handle[f]] =
     IF @.kind = "alias" THEN Alias(@.alias, f, d)
     ELSE IF @.kind = "long" THEN Volume
     ELSE @]

(* efs_fsync, when the file has been modified. *)
Fsync(f) ==
  /\ Opened(f)
  /\ \E d \in Data : slots' = Synced(f, d)
  /\ Succeeds
  /\ UNCHANGED <<handle, iter, stay>>

(* efs_close, of a file that was modified or not. *)
Close(f) ==
  /\ Opened(f)
  /\ slots' \in {slots} \cup {Synced(f, d) : d \in Data}
  /\ handle' = [handle EXCEPT ![f] = 0]
  /\ Succeeds
  /\ UNCHANGED <<iter, stay>>

-----------------------------------------------------------------------------
(* Iteration. *)

NotIterating == [inUse |-> FALSE, validEntry |-> FALSE, dataEnd |-> 0, filename |-> ""]

(* Mutant: the slot behind the alias is skipped. *)
Fetched_SkipsSlot(e) ==
  [inUse |-> TRUE, validEntry |-> TRUE, dataEnd |-> e.end + 1, filename |-> e.name]

(* currentEntry holds the entry e. *)
Fetched(e) == [inUse |-> TRUE, validEntry |-> TRUE, dataEnd |-> e.end, filename |-> e.name]

(* getFirstEntry or getNextEntry into currentEntry, which is not looked at *)
(* again once there is none.                                               *)
Fetch(pos) ==
  IF NextEntries(slots, pos) = {}
  THEN iter' = [NotIterating EXCEPT !.inUse = TRUE]
  ELSE \E e \in NextEntries(slots, pos) : iter' = Fetched(e)

(* efs_diropen, and efs_dirreset. *)
DirOpen ==
  /\ Fetch(0)
  /\ stay' = [n \in Names |->
       IF \E e \in Listing(slots) : e.name = n THEN "unseen" ELSE "gone"]
  /\ Succeeds
  /\ UNCHANGED <<slots, handle>>

(* efs_dirnext reports the entry in hand and fetches the next one. *)
DirNext ==
  /\ iter.inUse /\ iter.validEntry
  /\ Fetch(iter.dataEnd)
  /\ stay' = [n \in Names |->
       IF n # iter.filename \/ stay[n] = "gone" THEN stay[n]
       ELSE IF stay[n] = "unseen" THEN "seen" ELSE "twice"]
  /\ Succeeds
  /\ UNCHANGED <<slots, handle>>

(* efs_dirclose *)
DirClose ==
  /\ iter.inUse
  /\ iter' = NotIterating
  /\ stay' = [n \in Names |-> "gone"]
  /\ Succeeds
  /\ UNCHANGED <<slots, handle>>

(* What may be in a slot. *)
IsSlot(slot) ==
  \/ slot \in {Last, Free, Volume}
  \/ slot.kind = "long" /\ slot.name \in Names /\ slot.alias \in Aliases
  \/ slot.kind = "alias" /\ slot.alias \in Aliases /\ slot.data \in Data

(* The slots before the alias slot e are the long form of the name n.      *)
IsLongForm(row, n, e) ==
  /\ Parts[n] \in 1 .. e - 1
  /\ \A k \in e - Parts[n] .. e - 1 : row[k] = Long(n, row[e].alias, k = e - Parts[n])

(* A directory as other systems leave it: up to its end, every slot of a   *)
(* long form belongs to an entry, no name or alias means two entries, and  *)
(* no two entries are one file.  Behind the end there may be anything.     *)
InOrder(row) ==
  /\ row = [k \in Positions |-> row[k]]
  /\ \A k \in Positions : IsSlot(row[k])
  /\ \A k \in Positions : k < EndOfRow(row) /\ row[k].kind = "long" =>
       \E n \in Names, e \in AliasesAfter(row, 0) :
         IsLongForm(row, n, e) /\ k \in e - Parts[n] .. e - 1
  /\ \A e \in Listing(row) :
       /\ e.file \in Files
       /\ \A d \in Listing(row) \ {e} :
            d.file # e.file /\ ~ Answers(d, e.name) /\ ~ Answers(d, e.alias)

ASSUME ImagesAssumption == \A row \in Images : InOrder(row)

Init ==
  /\ slots \in Images
  /\ handle = [f \in Files |-> 0]
  /\ iter = NotIterating
  /\ wanted = 0 /\ error = "none"
  /\ stay = [n \in Names |-> "gone"]

Next ==
  \/ \E n \in Names : Create(n) \/ Mkdir(n) \/ Open(n) \/ Unlink(n)
  \/ \E old, new \in Names : Rename(old, new)
  \/ \E f \in Files : Fsync(f) \/ Close(f)
  \/ DirOpen \/ DirNext \/ DirClose

Spec == Init /\ [][Next]_vars

-----------------------------------------------------------------------------
(* Properties. *)

(* Every variable holds a value of the kind the code keeps in it. *)
TypeOK ==
  /\ \A k \in Positions : IsSlot(slots[k])
  /\ handle \in [Files -> 0 .. SlotCount]
  /\ iter.dataEnd \in 0 .. SlotCount
  /\ iter.filename \in Strings \cup {""}
  /\ stay \in [Names -> {"gone", "unseen", "seen", "twice"}]
  /\ error \in Errors

(* Whatever gaps the slots have and whatever a mounted image held behind   *)
(* its last entry, a scan finds the entries that were added and not        *)
(* removed, each with its whole name, and no name or alias means two of    *)
(* them; a call that finds no room has changed nothing; a removal or a     *)
(* rename is done in full, also when it reports EIO, and keeps the file; a *)
(* close brings the entry of the file that was opened up to date.          *)
List == INSTANCE NameList WITH
  entries <- {[name |-> e.name, alias |-> e.alias, file |-> e.file, data |-> e.data]
                : e \in Listing(slots)}

DirSpec == List!Spec

(* An iteration that has come to its end has reported every name that was  *)
(* there all the time, and none of them twice, whatever was added and      *)
(* removed between its steps and although it has its next entry in hand.   *)
ListsThoseWhoStay ==
  \A n \in Names :
    /\ stay[n] # "twice"
    /\ (iter.inUse /\ ~ iter.validEntry) => stay[n] # "unseen"

(* A call gives up only if there is no run of removed slots for what it    *)
(* wants to write, wherever it is, and no run of removed or unused ones    *)
(* with a slot behind it for the new end of the row.                       *)
UsesTheRoom ==
  wanted > 0 =>
    /\ \A i \in Positions : i + wanted <= SlotCount + 1 =>
         \E k \in i .. i + wanted - 1 : slots[k] # Free
    /\ \A i \in Positions : i + wanted <= SlotCount =>
         \E k \in i .. i + wanted : k < EndOfRow(slots) /\ slots[k] # Free

(* "Always points to the file's alias entry" (fatfile.h:58): the           *)
(* dirEntryEnd that a handle was given when it was opened.                 *)
EntryOfHandle ==
  \A f \in Files : Opened(f) =>
    slots[handle[f]].kind = "alias" /\ slots[handle[f]].file = f
=============================================================================

------------------------------- MODULE Update -------------------------------
(***************************************************************************)
(* An update: the loop of updater/ctgp-dif-better/dia.cpp over the entries *)
(* of an archive, with OpenExpFiles and CloseExpFiles of dif.cpp.          *)
(*                                                                         *)
(* An entry makes one file out of a difference file and the older files    *)
(* that it names, which earlier entries may have made, and which may be    *)
(* the file itself.  What cannot be opened is skipped; a program that is   *)
(* killed is started again with --skip and the number of the entries that  *)
(* it has done.  What the commands of a difference file do is in Dif.      *)
(***************************************************************************)
EXTENDS Integers, Sequences, FiniteSets

CONSTANTS
  Archive,    (* the entries, in order: [out, inputs, pieces], of which a  *)
              (* directory has no pieces                                   *)
  Names,      (* the files of the package                                  *)
  Present,    (* the files that are there before the update                *)
  MaxKills,   (* bound: how often the program is killed                    *)
  MaxFaults   (* bound: how many calls of the C library fail               *)

Entries == 1 .. Len(Archive)

ASSUME ArchiveAssumption ==
  Archive \in Seq([out : Names, inputs : Seq(Names), pieces : Nat])
ASSUME PresentAssumption == Present \subseteq Names
ASSUME BoundsAssumption == MaxKills \in Nat /\ MaxFaults \in Nat

VARIABLES
  disk,     (* the files                                                   *)
  pc,       (* "off", or what the program does next                        *)
  i,        (* the entry it is at; dia.cpp counts from 0                   *)
  expdata,  (* the older files that it has read                            *)
  written,  (* the pieces of the output given to fwrite                    *)
  kills, faults,
  failed    (* history: the entries that were skipped, were left short, or *)
            (* had overwritten their own older file when the program was   *)
            (* killed                                                      *)

vars == <<disk, pc, i, expdata, written, kills, faults, failed>>

(* A file holds so many pieces of what the entry "by" makes, rightly or    *)
(* from older files other than those that the entry was made for.          *)
File(by, pieces, right) == [by |-> by, pieces |-> pieces, right |-> right]

Old    == File(0, 0, TRUE)
Absent == File(-1, 0, TRUE)
Original(n) == IF n \in Present THEN Old ELSE Absent

Directory(k) == Archive[k].pieces = 0
Whole(k) == File(k, Archive[k].pieces, TRUE)

(* The last entry before k that makes the file n, or 0. *)
Maker(n, k) ==
  CHOOSE j \in {0} \cup {j \in 1 .. k - 1 : ~ Directory(j) /\ Archive[j].out = n} :
    \A h \in j + 1 .. k - 1 : Directory(h) \/ Archive[h].out # n

(* The file n that the maker of the archive had when he came to entry k.   *)
Expected(n, k) == IF Maker(n, k) = 0 THEN Original(n) ELSE Whole(Maker(n, k))

Right == \A m \in DOMAIN expdata : expdata[m] = Expected(Archive[i].inputs[m], i)

-----------------------------------------------------------------------------

(* The next turn of the loop, with CloseExpFiles. *)
Advance ==
  /\ i' = i + 1
  /\ pc' = "open"
  /\ expdata' = <<>>
  /\ written' = 0

(* A mistake: the entry is tried again. *)
Skip_Retries ==
  /\ pc' = "open"
  /\ expdata' = <<>>
  /\ UNCHANGED <<i, written>>
  /\ failed' = failed \cup {i}

(* "continue" *)
Skip ==
  /\ Advance
  /\ failed' = failed \cup {i}

Fault == faults < MaxFaults /\ faults' = faults + 1

(* The program is started, or started again. *)
Start ==
  /\ pc = "off" /\ i <= Len(Archive)
  /\ pc' = "open"
  /\ UNCHANGED <<disk, i, expdata, written, kills, faults, failed>>

(* One turn of OpenExpFiles. *)
OpenExpFile ==
  LET n == Archive[i].inputs[Len(expdata) + 1] IN
  /\ pc = "open" /\ i <= Len(Archive)
  /\ Len(expdata) < Len(Archive[i].inputs)
  /\ \/ /\ disk[n] # Absent
        /\ expdata' = Append(expdata, disk[n])
        /\ UNCHANGED <<pc, i, written, faults, failed>>
     \/ disk[n] = Absent /\ Skip /\ UNCHANGED faults
     \/ disk[n] # Absent /\ Fault /\ Skip
  /\ UNCHANGED <<disk, kills>>

(* Mutant: the output is opened before the older files have been read.     *)
AllRead_Early == TRUE

AllRead == Len(expdata) = Len(Archive[i].inputs)

CreateDirectory ==
  /\ pc = "open" /\ i <= Len(Archive)
  /\ AllRead /\ Directory(i)
  /\ Advance
  /\ UNCHANGED <<disk, kills, faults, failed>>

(* fopen(out_name, "wb"), which empties the file. *)
OpenOutput ==
  /\ pc = "open" /\ i <= Len(Archive)
  /\ AllRead /\ ~ Directory(i)
  /\ \/ /\ disk' = [disk EXCEPT ![Archive[i].out] = File(i, 0, Right)]
        /\ pc' = "patch"
        /\ UNCHANGED <<i, expdata, written, faults, failed>>
     \/ Fault /\ Skip /\ UNCHANGED disk
  /\ UNCHANGED kills

(* ProcessDif writes a piece, which may stay in the FILE's buffer. *)
Write ==
  /\ pc = "patch" /\ written < Archive[i].pieces
  /\ written' = written + 1
  /\ UNCHANGED <<disk, pc, i, expdata, kills, faults, failed>>

(* What was written of the file of entry i is on the disk up to n. *)
Stored(n) == [disk EXCEPT ![Archive[i].out].pieces = n]

(* fclose.  The results of fwrite and fclose are not looked at. *)
Close ==
  /\ pc = "patch" /\ written = Archive[i].pieces
  /\ Advance
  /\ \/ disk' = Stored(written) /\ UNCHANGED <<faults, failed>>
     \/ /\ Fault
        /\ \E n \in 0 .. written - 1 : disk' = Stored(n)
        /\ failed' = failed \cup {i}
  /\ UNCHANGED kills

(* main returns 0, whatever was skipped. *)
Return ==
  /\ pc = "open" /\ i > Len(Archive)
  /\ pc' = "off"
  /\ UNCHANGED <<disk, i, expdata, written, kills, faults, failed>>

Kill ==
  /\ pc # "off" /\ i <= Len(Archive) /\ kills < MaxKills
  /\ kills' = kills + 1
  /\ pc' = "off"
  /\ expdata' = <<>>
  /\ written' = 0
  /\ IF pc = "patch"
     THEN \E n \in 0 .. written : disk' = Stored(n)
     ELSE UNCHANGED disk
  /\ failed' = IF pc = "patch" /\ \E m \in DOMAIN expdata : Archive[i].inputs[m] = Archive[i].out
               THEN failed \cup {i} ELSE failed
  /\ UNCHANGED <<i, faults>>

Init ==
  /\ disk = [n \in Names |-> Original(n)]
  /\ pc = "off"
  /\ i = 1
  /\ expdata = <<>>
  /\ written = 0
  /\ kills = 0 /\ faults = 0
  /\ failed = {}

Step == OpenExpFile \/ CreateDirectory \/ OpenOutput \/ Write \/ Close \/ Return

Next == Start \/ Step \/ Kill

(* A process that has been started is scheduled. *)
Spec == Init /\ [][Next]_vars /\ WF_vars(Step)

-----------------------------------------------------------------------------
(* Properties. *)

(* The entries that make the older files of an entry.                      *)
Makers == [k \in Entries |->
             {Maker(Archive[k].inputs[m], k) : m \in DOMAIN Archive[k].inputs}]

(* The entries that failed, and those that build on one of them: the       *)
(* smallest set in which every entry is that gets a file from it.          *)
ClosedUnder(S) == \A k \in Entries : Makers[k] \cap S # {} => k \in S
Affected ==
  {k \in Entries : \A S \in SUBSET Entries : failed \subseteq S /\ ClosedUnder(S) => k \in S}

(* What goes wrong with one entry reaches only those that build on it:     *)
(* every other file is, as far as the update has come, what the update is  *)
(* to make of it, also after the program was killed in the middle of one   *)
(* and started again.                                                      *)
DamageIsDownstream ==
  \A n \in Names :
    (Maker(n, i) \notin Affected /\ ~ (i <= Len(Archive) /\ Archive[i].out = n)) =>
      disk[n] = Expected(n, i)

(* A program that is started comes to its end, whatever it has to skip.    *)
Ends == (pc # "off") ~> (pc = "off")
=============================================================================

------------------------------ MODULE NameList ------------------------------
(***************************************************************************)
(* What a directory promises: a set of entries, each with a name and an    *)
(* alias that no other entry answers to, and with the start cluster and    *)
(* the size of a file, its "data".                                         *)
(***************************************************************************)
CONSTANTS
  Strings,  (* names and aliases                                           *)
  Files,    (* the files, which have one entry each                        *)
  Data      (* what an entry says of its file                              *)

VARIABLES
  entries,
  error     (* what the last call told its caller, or "none"               *)

Entry == [name : Strings, alias : Strings, file : Files, data : Data]

Answers(e, s) == s = e.name \/ s = e.alias

(* e would answer to a string that an entry of E answers to. *)
Clashes(E, e) == \E d \in E : Answers(d, e.name) \/ Answers(d, e.alias)

(* Any directory whose entries do not clash. *)
Init ==
  /\ entries \subseteq Entry
  /\ \A d \in entries : ~ Clashes(entries \ {d}, d) /\ \A e \in entries \ {d} : d.file # e.file
  /\ error = "none"

(* The ways in which the directory E becomes the directory F.              *)

(* A new entry. *)
Add(E, F) ==
  \E e \in F \ E :
    /\ F = E \cup {e}
    /\ e \in Entry
    /\ ~ Clashes(E, e)
    /\ \A d \in E : d.file # e.file

(* A new name and alias for the file of an entry, none of them in use.     *)
Rename(E, F) ==
  \E d \in E \ F, e \in F \ E :
    /\ F = (E \ {d}) \cup {e}
    /\ e \in Entry
    /\ ~ Clashes(E, e)
    /\ e.file = d.file /\ e.data = d.data

Remove(E, F) == \E d \in E : F = E \ {d}

(* The entry of an open file is brought up to date. *)
Update(E, F) ==
  \E d \in E \ F, e \in F \ E :
    /\ F = (E \ {d}) \cup {e}
    /\ e \in Entry
    /\ e = [d EXCEPT !.data = e.data]

(* ENOSPC says that nothing has changed.  EIO says nothing: what was to go *)
(* has gone.                                                               *)
Next ==
  \E E \in {entries}, F \in {entries'} :
    \/ error' = "none" /\ (Add(E, F) \/ Update(E, F))
    \/ error' \in {"none", "EIO"} /\ (Rename(E, F) \/ Remove(E, F))
    \/ error' \in {"none", "ENOSPC"} /\ F = E

Spec == Init /\ [][Next]_<<entries, error>>
=============================================================================

------------------------------ MODULE ByteFile ------------------------------
(***************************************************************************)
(* What efs_open, efs_read, efs_write, efs_seek, efs_ftruncate and         *)
(* efs_close promise, clusters aside: a file is a sequence of bytes, a     *)
(* handle on it is a place in that sequence.                               *)
(***************************************************************************)
EXTENDS Integers, Sequences

CONSTANTS
  Files,    (* the files                                                   *)
  Byte,     (* the values of a byte; 0 is the one gaps are filled with     *)
  MaxSize,  (* bound: the size of a file and the furthest a seek goes      *)
  MaxLen    (* bound: the most bytes a call is asked for                   *)

(* Read, write or both, with or without append. *)
OpenModes == (SUBSET {"read", "write", "append"}) \ {{}, {"append"}}

VARIABLES
  content,  (* the bytes of each file                                      *)
  mode,     (* how each file is open, {} if it is not                      *)
  place,    (* where its handle stands                                     *)
  reply     (* the bytes that the last call, if a read, returned           *)

vars == <<reply, place, mode, content>>

(* The bytes s with w written at the offset at; a gap reads as zeros.      *)
Put(s, at, w) ==
  [i \in 1 .. (IF at + Len(w) > Len(s) THEN at + Len(w) ELSE Len(s)) |->
     IF at < i /\ i <= at + Len(w) THEN w[i - at] ELSE IF i <= Len(s) THEN s[i] ELSE 0]

Init ==
  /\ content = [f \in Files |-> <<>>]
  /\ mode = [f \in Files |-> {}]
  /\ place = [f \in Files |-> 0]
  /\ reply = <<>>

Open(f) ==
  /\ mode[f] = {}
  /\ \E m \in OpenModes :
       /\ mode' = [mode EXCEPT ![f] = m]
       /\ place' = [place EXCEPT ![f] = 0]
       /\ reply' = <<>>
       /\ \/ UNCHANGED content
          \/ "write" \in m /\ content' = [content EXCEPT ![f] = <<>>]

Read(f) ==
  /\ "read" \in mode[f]
  /\ UNCHANGED <<mode, content>>
  /\ \E n \in 1 .. MaxLen :
       LET left == IF place[f] < Len(content[f]) THEN Len(content[f]) - place[f] ELSE 0
           got == IF n < left THEN n ELSE left
       IN  /\ place' = [place EXCEPT ![f] = @ + got]
           /\ reply' = SubSeq(content[f], place[f] + 1, place[f] + got)

(* What a write of n bytes may store. *)
Written(n) == {[i \in 1 .. n |-> b] : b \in Byte}

(* A write that finds the disc full stores less, or nothing and fails. *)
Write(f) ==
  /\ "write" \in mode[f]
  /\ reply' = <<>>
  /\ UNCHANGED mode
  /\ \E n \in 0 .. MaxLen :
       IF "append" \in mode[f]
       THEN /\ UNCHANGED place
            /\ content' \in {[content EXCEPT ![f] = @ \o w] : w \in Written(n)}
       ELSE /\ place' = [place EXCEPT ![f] = @ + n]
            /\ content' \in {[content EXCEPT ![f] = Put(@, place[f], w)] : w \in Written(n)}

Seek(f) ==
  /\ mode[f] # {}
  /\ reply' = <<>>
  /\ UNCHANGED mode
  /\ \E p \in 0 .. MaxSize : place' = [place EXCEPT ![f] = p]
  /\ UNCHANGED content

(* The bytes s cut or filled up to the size n. *)
Resized(s, n) == Put(SubSeq(s, 1, IF n < Len(s) THEN n ELSE Len(s)), n, <<>>)

Truncate(f) ==
  /\ "write" \in mode[f]
  /\ reply' = <<>>
  /\ UNCHANGED <<mode, place>>
  /\ content' \in {[content EXCEPT ![f] = Resized(@, n)] : n \in 0 .. MaxSize}

(* efs_close, and efs_unmount for all the files. *)
Close(F) ==
  /\ F # {}
  /\ mode' = [f \in Files |-> IF f \in F THEN {} ELSE mode[f]]
  /\ place' = [f \in Files |-> IF f \in F THEN 0 ELSE place[f]]
  /\ reply' = <<>>
  /\ UNCHANGED content

Unlink(f) ==
  /\ mode[f] = {}
  /\ reply' = <<>>
  /\ UNCHANGED <<mode, place>>
  /\ content' = [content EXCEPT ![f] = <<>>]

(* A call that fails, and one that changes nothing the client can see. *)
Nothing ==
  /\ reply' = <<>>
  /\ UNCHANGED <<mode, place, content>>

Next ==
  \/ \E f \in Files : Open(f) \/ Read(f) \/ Write(f) \/ Seek(f) \/ Truncate(f) \/ Unlink(f)
  \/ \E F \in SUBSET Files : Close(F)
  \/ Nothing

Spec == Init /\ [][Next]_vars
=============================================================================

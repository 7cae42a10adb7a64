----------------------------- MODULE DifFormat ------------------------------
(***************************************************************************)
(* What the commands of a difference file mean: a text is put together     *)
(* from literal bytes, from bytes of the text so far and from bytes of     *)
(* older files, each with a place from which the next bytes are taken.     *)
(* A byte is known by where it came from: <<0, n>> is the literal that was *)
(* inserted at n, <<z, n>> the byte n of the older file z.                 *)
(*                                                                         *)
(* A number takes as few argument bytes as it can: those of m bytes begin  *)
(* where those of m - 1 bytes end.                                         *)
(***************************************************************************)
EXTENDS Integers, Sequences

CONSTANTS
  Base,       (* the number of values of a byte                            *)
  Sources,    (* Sources[z]: the size of the older file z                  *)
  Commands    (* the commands                                              *)

VARIABLES text, place, command

(* The bytes b as one number, the highest first. *)
Value(b) ==
  LET v[k \in 0 .. Len(b)] == IF k = 0 THEN 0 ELSE v[k - 1] * Base + b[k]
  IN  v[Len(b)]

(* How many numbers there are of at least one and less than m bytes.       *)
Shorter(m) ==
  LET power[k \in 0 .. m - 1] == IF k = 0 THEN 1 ELSE power[k - 1] * Base
      s[k \in 0 .. m - 1] == IF k = 0 THEN 0 ELSE s[k - 1] + power[k]
  IN  s[m - 1]

(* The number in a command: small ones are in its first byte. *)
Number(c, small, large) ==
  IF c.args = <<>> THEN small + c.high ELSE large + Shorter(Len(c.args)) + Value(c.args)

(* n literal bytes. *)
Insert(n) ==
  /\ text' = text \o [k \in 1 .. n |-> <<0, Len(text) + k - 1>>]
  /\ place' = [place EXCEPT ![0] = Len(text') - 1]

(* n bytes of the text from its place on, those it adds itself included:   *)
(* a piece that ends with the text comes again and again.                  *)
Repeat(n) ==
  LET piece == Len(text) - place[0] IN
  /\ text' = text \o [k \in 1 .. n |-> text[place[0] + ((k - 1) % piece) + 1]]
  /\ place' = [place EXCEPT ![0] = Len(text') - 1]

(* n bytes of an older file, which are not taken again. *)
Take(z, n) ==
  /\ text' = text \o [k \in 1 .. n |-> <<z, place[z] + k - 1>>]
  /\ place' = [place EXCEPT ![0] = Len(text') - 1, ![z] = @ + n]

MoveTo(z, p) ==
  /\ place' = [place EXCEPT ![z] = p]
  /\ UNCHANGED text

Init ==
  /\ text = <<>>
  /\ place[0] \in Int
  /\ \A z \in DOMAIN Sources : place[z] = 0
  /\ command \notin Commands

Obey(c) ==
  \/ c.kind = "insert"  /\ Insert(Number(c, 1, 17))
  \/ c.kind = "repeat"  /\ c.source = 0 /\ Repeat(Number(c, 2, 6))
  \/ c.kind = "repeat"  /\ c.source # 0 /\ Take(c.source, Number(c, 2, 6))
  \/ c.kind = "back"    /\ MoveTo(c.source, place[c.source] - Number(c, 1, 1))
  \/ c.kind = "forward" /\ MoveTo(c.source, place[c.source] + Number(c, 1, 1))
  \/ c.kind = "jump"    /\ MoveTo(c.source, Value(c.args))

Next ==
  /\ command' \in Commands
  /\ \E c \in {command'} : Obey(c)

Spec == Init /\ [][Next]_<<text, place, command>>
=============================================================================

-------------------------------- MODULE Dif ---------------------------------
(***************************************************************************)
(* The two interpreters of difference files that the repository keeps:     *)
(* ProcessDif of updater/ctgp-dif-better/dif.cpp, which streams its output *)
(* to a file, and updater/dif.py, which knows the commands without older   *)
(* files and keeps its cursor, j, one ahead.  Both are given the same      *)
(* commands, one after the other.                                          *)
(*                                                                         *)
(* A command is a byte, whose low half says what it does and whose high    *)
(* half is a small number or an older file, with argument bytes after it.  *)
(* The literal bytes that follow are not looked at; see DifFormat.         *)
(***************************************************************************)
EXTENDS Integers, Sequences

CONSTANTS
  Base,         (* 256: the number of values of a byte                     *)
  Sources,      (* Sources[z]: expfilesize[z - 1]                          *)
  High,         (* the high halves looked at                               *)
  Argument,     (* the argument bytes looked at                            *)
  MaxText,      (* bound: the size of the text                             *)
  MaxCommands   (* bound: the number of commands                           *)

ASSUME BaseAssumption == Base \in Nat \ {0} /\ Argument \subseteq 0 .. Base - 1
ASSUME SourcesAssumption == DOMAIN Sources \subseteq 1 .. 15 /\ \A z \in DOMAIN Sources : Sources[z] \in Nat
ASSUME HighAssumption == High \subseteq 0 .. 14
ASSUME BoundsAssumption == MaxText \in Nat /\ MaxCommands \in Nat

(* The low halves, with the kinds of command they stand for. *)
Low ==
  [c \in (0 .. 15) \ {2} |->
     CASE c \in 0 .. 1 -> "insert" [] c \in 3 .. 7 -> "repeat" [] c \in 8 .. 12 -> "back"
       [] c \in 13 .. 14 -> "forward" [] c = 15 -> "jump"]

(* The high half is an older file, not a number.  Four argument bytes are  *)
(* left out: the first is weighted with 1677216 in a copy (dif.cpp:227),   *)
(* with 16777216 in a move.                                                *)
NamesSource(c) == c \in {4, 5, 6, 9, 10, 11, 13, 14, 15}

(* The argument bytes of a command. *)
Arguments(c, high) ==
  CASE c \in {0, 3, 8}         -> 0
    [] c = 1                   -> high + 1
    [] c \in {4, 9, 13}        -> 1
    [] c \in {5, 10, 14}       -> 2
    [] c \in {6, 11, 15}       -> 3

Highs(c) == IF NamesSource(c) THEN {0} \cup DOMAIN Sources ELSE High

Codes ==
  UNION {[low : {c[1]}, high : {c[2]}, args : [1 .. Arguments(c[1], c[2]) -> Argument]]
           : c \in {p \in (DOMAIN Low \ {7, 12}) \X (High \cup {0} \cup DOMAIN Sources) :
                      p[2] \in Highs(p[1])}}

(* What a command is to DifFormat. *)
Meaning(d) ==
  [kind   |-> Low[d.low],
   source |-> IF NamesSource(d.low) THEN d.high ELSE 0,
   high   |-> d.high,
   args   |-> d.args]

VARIABLES
  outdata,      (* the text, of which size bytes are used                  *)
  expcursors,   (* the cursors into the text and the older files           *)
  file,         (* what has been written to the output file                *)
  last,         (* the command done last                                   *)
  py,           (* outdata and j of dif.py, what it did last, and whether  *)
                (* it has come to a command that it does not know          *)
  count         (* the number of commands done                             *)

cpp == <<outdata, expcursors, file, last>>
vars == <<cpp, py, count>>

size == Len(outdata)

(* The literal bytes that follow a command. *)
Literals(at, n) == [k \in 1 .. n |-> <<0, at + k - 1>>]

(* What outdata has behind the text: it is not initialized. *)
Unset == <<-1, 0>>

(* text after n turns of a loop that appends text[j++]. *)
Appended(text, j, n) ==
  LET loop[k \in 0 .. n] ==
        IF k = 0 THEN text
        ELSE LET sofar == loop[k - 1]
             IN  Append(sofar, IF j + k \in DOMAIN sofar THEN sofar[j + k] ELSE Unset)
  IN  loop[n]

(* The same of dif.py, where a slice behind the text is empty. *)
PyAppended(text, j, n) ==
  LET loop[k \in 0 .. n] ==
        IF k = 0 THEN text
        ELSE LET sofar == loop[k - 1]
             IN  IF j + k \in DOMAIN sofar THEN Append(sofar, sofar[j + k]) ELSE sofar
  IN  loop[n]

-----------------------------------------------------------------------------
(* ProcessDif. *)

(* Mutant: the higher byte is not counted from 1. *)
ArgOf_FromZero(a) ==
  CASE Len(a) = 1 -> a[1]
    [] Len(a) = 2 -> a[1] * Base + a[2]
    [] Len(a) = 3 -> a[1] * Base * Base + a[2] * Base + a[3]

(* The argument bytes as y. *)
ArgOf(a) ==
  CASE Len(a) = 1 -> a[1]
    [] Len(a) = 2 -> (a[1] + 1) * Base + a[2]
    [] Len(a) = 3 -> (a[1] + 1) * Base * Base + (a[2] + 1) * Base + a[3]

(* The argument of the long insertion, of high + 1 bytes. *)
LongArg(d) ==
  LET y[s \in 0 .. d.high] ==
        IF s = 0 THEN d.args[1] ELSE (y[s - 1] + 1) * Base + d.args[s + 1]
  IN  y[d.high]

(* A command has made text of outdata: the new bytes are written to the    *)
(* file, and the cursor is at the last of them.                            *)
Produce(text, cursors) ==
  /\ outdata' = text
  /\ expcursors' = [cursors EXCEPT ![0] = Len(text) - 1]
  /\ file' = file \o SubSeq(text, size + 1, Len(text))

Literal(d) ==
  /\ d.low \in {0, 1}
  /\ LET n == IF d.low = 0 THEN d.high + 1 ELSE LongArg(d) + 17
     IN  Produce(outdata \o Literals(size, n), expcursors)

CopyFrom(z, n) ==
  Produce(outdata \o [k \in 1 .. n |-> <<z, expcursors[z] + k - 1>>],
          [expcursors EXCEPT ![z] = @ + n])

Copy(d) ==
  /\ d.low \in {3, 4, 5, 6}
  /\ IF d.low = 3 THEN Produce(Appended(outdata, expcursors[0], d.high + 2), expcursors)
     ELSE IF d.high = 0 THEN Produce(Appended(outdata, expcursors[0], ArgOf(d.args) + 6), expcursors)
     ELSE CopyFrom(d.high, ArgOf(d.args) + 6)

Move(d) ==
  /\ \/ /\ d.low = 8
        /\ expcursors' = [expcursors EXCEPT ![0] = @ - (d.high + 1)]
     \/ /\ d.low \in {9, 10, 11}
        /\ expcursors' = [expcursors EXCEPT ![d.high] = @ - (ArgOf(d.args) + 1)]
     \/ /\ d.low \in {13, 14}
        /\ expcursors' = [expcursors EXCEPT ![d.high] = @ + ArgOf(d.args) + 1]
     \/ /\ d.low = 15
        /\ expcursors' = [expcursors EXCEPT
             ![d.high] = d.args[1] * Base * Base + d.args[2] * Base + d.args[3]]
  /\ UNCHANGED <<outdata, file>>

ProcessDif(d) ==
  /\ Literal(d) \/ Copy(d) \/ Move(d)
  /\ last' = Meaning(d)

-----------------------------------------------------------------------------
(* dif.py *)

(* The commands it knows: none for an older file, no insertion with more   *)
(* than two argument bytes.  It raises an exception on others, or takes    *)
(* them for ones it knows; what it does then is not looked at.             *)
PyKnows(d) ==
  /\ d.low \in {0, 1, 3, 4, 8, 9, 10}
  /\ NamesSource(d.low) => d.high = 0
  /\ d.low = 1 => d.high \in {0, 1}

(* Mutant: j is not taken back by one before a command. *)
PyBack_None(j) == j

(* j -= 1 *)
PyBack(j) == j - 1

PyWrote(text, d) == py' = [outdata |-> text, j |-> Len(text), last |-> Meaning(d), lost |-> FALSE]

PyMoved(j, d) == py' = [py EXCEPT !.j = j, !.last = Meaning(d)]

PyLongArg(d) == IF d.high = 0 THEN d.args[1] ELSE (d.args[1] + 1) * Base + d.args[2]

(* One turn of its loop. *)
Py(d) ==
  LET j == PyBack(py.j)
      text == py.outdata
  IN
  IF py.lost \/ ~ PyKnows(d) THEN py' = [py EXCEPT !.lost = TRUE]
  ELSE CASE d.low = 0  -> PyWrote(text \o Literals(Len(text), d.high + 1), d)
         [] d.low = 1  -> PyWrote(text \o Literals(Len(text), PyLongArg(d) + 17), d)
         [] d.low = 3  -> PyWrote(PyAppended(text, j, d.high + 2), d)
         [] d.low = 4  -> PyWrote(PyAppended(text, j, d.args[1] + 6), d)
         [] d.low = 8  -> PyMoved(j - d.high, d)
         [] d.low = 9  -> PyMoved(j - d.args[1], d)
         [] d.low = 10 -> PyMoved(j - (d.args[1] * Base + d.args[2]) - Base, d)

-----------------------------------------------------------------------------

(* No command yet. *)
None == [kind |-> "none"]

Init ==
  /\ outdata = <<>>
  /\ expcursors = [z \in {0} \cup DOMAIN Sources |-> 0]
  /\ file = <<>>
  /\ last = None
  /\ \E header \in {32, 48} : py = [outdata |-> <<>>, j |-> header, last |-> None, lost |-> FALSE]
  /\ count = 0

(* The files that are given to the tools are well formed: a command copies *)
(* what is there, and a move ends where there is something to be copied.   *)
WellFormed(d) ==
  LET z == Meaning(d).source
      used == IF z = 0 THEN size' ELSE Sources[z] + 1
  IN
  /\ Low[d.low] = "repeat" => IF z = 0 THEN size > 0 ELSE expcursors'[z] < used
  /\ Low[d.low] \in {"back", "forward", "jump"} => expcursors'[z] \in 0 .. used - 1
  /\ size' <= MaxText

Next ==
  \E d \in Codes :
    /\ count < MaxCommands
    /\ (d.low = 3 \/ (d.low \in {4, 5, 6} /\ d.high = 0)) => size > 0
    /\ ProcessDif(d)
    /\ WellFormed(d)
    /\ Py(d)
    /\ count' = count + 1

Spec == Init /\ [][Next]_vars

-----------------------------------------------------------------------------
(* Properties. *)

Meanings == {Meaning(d) : d \in Codes}

(* The C++ tool writes to its output file the text that the commands stand *)
(* for, byte for byte as they come, with its cursors at the places.        *)
Cpp == INSTANCE DifFormat WITH
  Commands <- Meanings, text <- file, place <- expcursors, command <- last

CppSpec == Cpp!Spec

(* So does the Python tool for the commands it knows, with its cursor one  *)
(* behind j: the two tools agree.                                          *)
Python == INSTANCE DifFormat WITH
  Commands <- Meanings,
  text     <- py.outdata,
  place    <- [z \in {0} \cup DOMAIN Sources |-> IF z = 0 THEN py.j - 1 ELSE 0],
  command  <- py.last

PythonSpec == Python!Spec
=============================================================================

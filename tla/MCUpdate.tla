------------------------------ MODULE MCUpdate ------------------------------
EXTENDS Update

Entry(out, inputs, pieces) == [out |-> out, inputs |-> inputs, pieces |-> pieces]

(* A directory, a file one of whose older files is missing, a new file,    *)
(* one that is its own older file, twice, and one that is made of both.    *)
MCArchive ==
  <<Entry("dir", <<>>, 0),
    Entry("d", <<"base", "none">>, 1),
    Entry("a", <<>>, 2),
    Entry("b", <<"b", "base">>, 2),
    Entry("c", <<"a", "b">>, 1),
    Entry("b", <<"b", "c">>, 2)>>

MCNames == {"dir", "a", "b", "c", "d", "base", "none"}
=============================================================================

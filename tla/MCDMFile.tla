------------------------------ MODULE MCDMFile ------------------------------
(***************************************************************************)
(* Small instances of DMFile.  Blocks of two or three words (one or two of *)
(* data and the length word), records of two words so that a block may lie *)
(* in one record or in two.                                                *)
(***************************************************************************)
EXTENDS DMFile

\* Lengths and data are both words, as in the file: a stale pointer takes
\* one for the other.
MCLens == {1, 2}
MCVal == {1, 4}
MCOne == {4}

=============================================================================

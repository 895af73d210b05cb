------------------------------ MODULE MCDCFiles ------------------------------
(***************************************************************************)
(* A list of three files on four units, and four files to open, each under *)
(* two names: every order of openings, returns to an open file, failures   *)
(* and closings, with units lost one after the other until none is left.   *)
(***************************************************************************)
EXTENDS DCFiles, TLC

\* The files are alike.
Files == Permutations(File)

=============================================================================

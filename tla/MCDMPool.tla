------------------------------ MODULE MCDMPool ------------------------------
(***************************************************************************)
(* Blocks of one to three words in a file of eleven: up to six runs of     *)
(* unused words, in every order that frees and allocations can leave them. *)
(***************************************************************************)
EXTENDS DMPool

MCLens == {1, 2, 3}

=============================================================================

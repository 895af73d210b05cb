------------------------------- MODULE MCPGUndo -------------------------------
(***************************************************************************)
(* A ring of three steps, one element at first and room for two more:      *)
(* enough to wrap around it with edits, undo some and overwrite them.  A   *)
(* list of three elements overflows.                                       *)
(***************************************************************************)
EXTENDS PGUndo

=============================================================================

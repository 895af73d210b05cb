------------------------------ MODULE MCDMCache ------------------------------
(***************************************************************************)
(* Three records of two files, one of which may only be read, and a cache  *)
(* of two: each record can push out each other.  One word stands for those *)
(* written as integers and those written as reals.                         *)
(***************************************************************************)
EXTENDS DMCache, TLC

CONSTANTS a, b

MCSize == a :> 2 @@ b :> 1

=============================================================================

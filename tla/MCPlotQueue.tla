----------------------------- MODULE MCPlotQueue -----------------------------
(***************************************************************************)
(* Four programs in turn: one leaves something behind, the second finds    *)
(* it, and either may be killed or lose its gplt; requests of one packet   *)
(* or two.                                                                 *)
(***************************************************************************)
EXTENDS PlotQueue

=============================================================================

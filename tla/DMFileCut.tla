------------------------------ MODULE DMFileCut ------------------------------
(***************************************************************************)
(* DMFile with the history variable cut, which becomes true when a program *)
(* dies while it replaces data by data of another length.  It shows where  *)
(* the order in which DM_WDTR writes leaves a file unsound, and that there *)
(* is no other such place.                                                 *)
(***************************************************************************)
EXTENDS DMFile

VARIABLE cut

(***************************************************************************)
(* DM_WDTR frees the old block, and has DM_GSPC write that to the data     *)
(* management record, before it writes the new pointer.  In between the    *)
(* old pointer, or the old length word when the new block begins where the *)
(* old one did, stands for words that are free.                            *)
(***************************************************************************)
Replacing ==
    /\ Writing /\ ptr[cur.slot] # 0
    /\ pc = "length" \/ cur.start # ptr[cur.slot]

CutInit == Init /\ cut = FALSE

CutNext ==
    \/ Request /\ UNCHANGED cut
    \/ Step /\ UNCHANGED cut
    \/ Crash /\ cut' = (cut \/ Replacing)

CutSpec == CutInit /\ [][CutNext]_<<vars, cut>>

(***************************************************************************)
(* A program that dies anywhere else, in any call and any number of times, *)
(* leaves no word with two uses and no list that DM_GSPC cannot rely on.   *)
(***************************************************************************)
SoundUntilCut == ~cut => NoOverlap /\ ListsWellFormed

=============================================================================

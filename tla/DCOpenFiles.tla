----------------------------- MODULE DCOpenFiles -----------------------------
(***************************************************************************)
(* What a decoder may rely on of the list of its output files: at most Max *)
(* are listed, and one is taken off only to make room for another, the one *)
(* that was listed first.  A file is listed by one of the names it may     *)
(* have, when it is asked for and its own name is not in the list.  To use *)
(* a listed file again does not change its turn.                           *)
(***************************************************************************)
EXTENDS Naturals, Sequences

CONSTANTS
    File,   \* files asked for
    Called, \* the names by which each may be listed
    Max

VARIABLE opened  \* the listed names, in the order in which they were opened

IsOpen(f) == \E n \in DOMAIN opened : opened[n] = f

Init == opened = <<>>

Open(f) ==
    /\ ~IsOpen(f) /\ Len(opened) < Max
    /\ \E g \in Called[f] : opened' = Append(opened, g)

\* The first is closed; the new one may turn out not to open.
Cycle(f) ==
    /\ ~IsOpen(f) /\ Len(opened) = Max
    /\ \E g \in Called[f] : opened' \in {Append(Tail(opened), g), Tail(opened)}

CloseAll == opened' = <<>>

Next ==
    \/ \E f \in File : Open(f) \/ Cycle(f)
    \/ CloseAll

Spec == Init /\ [][Next]_opened

=============================================================================

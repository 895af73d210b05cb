------------------------------ MODULE PGHistory ------------------------------
(***************************************************************************)
(* What a user may rely on of UNDO and REDO: they walk back and forth      *)
(* along the states the drawing has really had, as far back as Depth edits,  *)
(* and a new edit forgets what was undone.                                 *)
(*                                                                         *)
(* Nothing is promised of elements in loose, which an edit has not put on  *)
(* record, until the records are thrown away.  present, past and future    *)
(* are the drawing without them.                                           *)
(***************************************************************************)
EXTENDS Naturals, Sequences, SequencesExt

CONSTANT Depth

VARIABLES
    present,        \* the elements shown
    past, future,   \* the states that can be undone to, redone to, in order
    loose

Kept(s) == [k \in DOMAIN s |-> s[k] \ loose']

\* The last n states of s.
LastOf(s, n) == IF Len(s) =< n THEN s ELSE SubSeq(s, Len(s) - n + 1, Len(s))

Init == past = <<>> /\ future = <<>> /\ loose = {}

Edit ==
    /\ loose \subseteq loose'
    /\ past' = Kept(LastOf(Append(past, present), Depth))
    /\ future' = <<>>

\* An edit that cannot be undone by itself: the step before it is undone
\* along with it, and there is no more to be redone than before.
HalfEdit ==
    /\ loose \subseteq loose'
    /\ past' = Kept(LastOf(Append(past, present), Len(past)))
    /\ future' = [k \in DOMAIN future |-> present']

\* An edit of loose elements only.
VoidEdit ==
    /\ loose \subseteq loose'
    /\ present' = present \ loose'
    /\ past' \in {Kept(past), Kept(<<IF past = <<>> THEN present ELSE Head(past)>> \o past)}
    /\ future' = <<>>

Undo ==
    /\ past # <<>>
    /\ past' = Front(past) /\ present' = Last(past) /\ future' = <<present>> \o future
    /\ loose' = loose

Redo ==
    /\ future # <<>>
    /\ past' = Append(past, present) /\ present' = Head(future) /\ future' = Tail(future)
    /\ loose' = loose

Reset == past' = <<>> /\ future' = <<>> /\ loose' = {}

Next == Edit \/ HalfEdit \/ VoidEdit \/ Undo \/ Redo \/ Reset

Spec == Init /\ [][Next]_<<present, past, future, loose>>

=============================================================================

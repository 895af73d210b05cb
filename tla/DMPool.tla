------------------------------- MODULE DMPool -------------------------------
(***************************************************************************)
(* The space of a DM file against what it stands for.  Blocks are taken    *)
(* (DM_GSPC) and given back (DM_AFRE) in any order, and the free list is   *)
(* compared with the runs of unused words of the file: with room in the    *)
(* list for every block there can be, it must be exactly those runs.       *)
(***************************************************************************)
EXTENDS DMSpace

CONSTANTS
    MaxFree,    \* kmfree
    First,      \* the first data word
    MaxWord,    \* bound: the file grows no further
    Lens        \* lengths of blocks, the length word included

ASSUME DMPoolAssumption ==
    /\ MaxFree \in Nat \ {0} /\ First \in Nat \ {0} /\ MaxWord \in Nat
    /\ Lens \subseteq Nat \ {0}
    /\ MaxFree > MaxWord - First + 1

VARIABLES
    sp,     \* kpnext and the free list
    live    \* the blocks in use

vars == <<sp, live>>

Init ==
    /\ sp = [next |-> First, free |-> NoBlocks]
    /\ live = {}

Take(n) ==
    /\ GetStart(sp, n) + n - 1 =< MaxWord
    /\ sp' = GetSpace(sp, n, MaxFree)
    /\ live' = live \cup {[len |-> n, start |-> GetStart(sp, n)]}

Give(blk) ==
    /\ sp' = [sp EXCEPT !.free = AddBlock(sp.free, MaxFree, blk)]
    /\ live' = live \ {blk}

Next ==
    \/ \E n \in Lens : Take(n)
    \/ \E blk \in live : Give(blk)

Spec == Init /\ [][Next]_vars

-----------------------------------------------------------------------------
Used == UNION {Words(blk) : blk \in live}

\* The runs of unused words below kpnext, as long as they can be.
Runs ==
    LET unused == (First .. sp.next - 1) \ Used
    IN  {r \in [len : 1 .. MaxWord, start : First .. MaxWord] :
            /\ Words(r) \subseteq unused
            /\ r.start - 1 \notin unused /\ Stop(r) \notin unused}

(***************************************************************************)
(* The free list is the set of maximal runs of unused words, each listed   *)
(* once: adding a block merges it with both neighbours, whatever their     *)
(* places in the list, and taking one leaves its remainder.                *)
(***************************************************************************)
ListIsRuns ==
    /\ {sp.free.b[i] : i \in 1 .. sp.free.n} = Runs
    /\ sp.free.n = Cardinality(Runs)

(***************************************************************************)
(* Space is taken from the smallest run that has enough words, and the     *)
(* file grows only when there is none.                                     *)
(***************************************************************************)
TakesTightest ==
    [][ \A blk \in live' \ live :
          LET fit == {r \in Runs : r.len >= blk.len}
          IN  IF fit = {} THEN blk.start = sp.next
              ELSE \E r \in fit : /\ r.start = blk.start
                                  /\ \A q \in fit : r.len =< q.len
                                  /\ sp'.next = sp.next
      ]_vars

\* Blocks in use do not overlap, and lie below kpnext.
BlocksApart ==
    /\ Used \subseteq First .. sp.next - 1
    /\ \A a, b \in live : a # b => Words(a) \cap Words(b) = {}

=============================================================================

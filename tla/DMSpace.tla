------------------------------ MODULE DMSpace ------------------------------
(***************************************************************************)
(* The space management of a DM file (gemlib/dm): the list of free blocks  *)
(* kept in the data management record, with the routines that eliminate,   *)
(* add and allocate blocks.                                                *)
(*                                                                         *)
(* A block [len, start] stands for the pair kfreew(1,i), kfreew(2,i).  A   *)
(* list [n, b] is the array of pairs with its counter: kfreew with knfree, *)
(* or the scratch list kscrch with msspce, which the same code maintains.  *)
(* The space of a file [next, free] is the word kpnext, past every word    *)
(* ever allocated, and its free list.                                      *)
(*                                                                         *)
(* Everything here is a pure operator on these values; the state machines  *)
(* that use them are in other modules.                                     *)
(*                                                                         *)
(* Here and in the other modules, an operator whose name begins with Bug   *)
(* is the operator after it with a mistake the code could have had.        *)
(* Nothing uses it; the README says which property it would break.         *)
(***************************************************************************)
EXTENDS Integers, FiniteSets

Block == [len : Nat \ {0}, start : Nat \ {0}]

\* A list of at most max blocks (kmfree = MMFREE, MMSCPR for the scratch).
IsList(l, max) ==
    /\ l = [n |-> l.n, b |-> l.b]
    /\ l.n \in 0 .. max
    /\ l.b \in [1 .. l.n -> Block]

NoBlocks == [n |-> 0, b |-> [i \in 1 .. 0 |-> [len |-> 1, start |-> 1]]]

Stop(blk) == blk.start + blk.len
Words(blk) == blk.start .. Stop(blk) - 1
FreeWords(l) == UNION {Words(l.b[i]) : i \in 1 .. l.n}

(***************************************************************************)
(* DM_EFRE, DM_ESPC: eliminate entry k, moving the later ones down.        *)
(***************************************************************************)
Eliminate(l, k) ==
    IF k \in 1 .. l.n
    THEN [n |-> l.n - 1,
          b |-> [i \in 1 .. l.n - 1 |-> IF i < k THEN l.b[i] ELSE l.b[i + 1]]]
    ELSE l

(***************************************************************************)
(* The entry that begins where a block stops, and the entry that stops     *)
(* where it begins; 0 when there is none.  The code's loops would take the *)
(* last of several such entries: a list of separate blocks has at most one.*)
(***************************************************************************)
Follower(l, stop) ==
    IF \E i \in 1 .. l.n : l.b[i].start = stop
    THEN CHOOSE i \in 1 .. l.n : l.b[i].start = stop
    ELSE 0

\* The block before is not looked for.
BugPreceder(l, start) == 0

Preceder(l, start) ==
    IF \E i \in 1 .. l.n : Stop(l.b[i]) = start
    THEN CHOOSE i \in 1 .. l.n : Stop(l.b[i]) = start
    ELSE 0

LenOf(l, k) == IF k = 0 THEN 0 ELSE l.b[k].len

\* The block made of blk and the two entries it touches.
Merged(l, blk) ==
    LET i1 == Follower(l, Stop(blk))
        i2 == Preceder(l, blk.start)
    IN  [len   |-> blk.len + LenOf(l, i1) + LenOf(l, i2),
         start |-> IF i2 = 0 THEN blk.start ELSE l.b[i2].start]

\* The list without those two entries, the later one eliminated first.
Unmerged(l, blk) ==
    LET i1 == Follower(l, Stop(blk))
        i2 == Preceder(l, blk.start)
    IN  IF i1 < i2 THEN Eliminate(Eliminate(l, i2), i1)
        ELSE IF i2 < i1 THEN Eliminate(Eliminate(l, i1), i2)
        ELSE l

\* The first entry smaller than len, or the place after the last entry.
Place(l, len) ==
    CHOOSE p \in 1 .. l.n + 1 :
        /\ \A i \in 1 .. p - 1 : l.b[i].len >= len
        /\ p =< l.n => l.b[p].len < len

\* Move entries up from p and put blk there; a full list loses its last one.
Insert(l, p, blk, max) ==
    LET imove == IF l.n + 1 > max THEN max ELSE l.n + 1
    IN  [n |-> imove,
         b |-> [i \in 1 .. imove |->
                    IF i < p THEN l.b[i] ELSE IF i = p THEN blk ELSE l.b[i - 1]]]

\* A full list takes no block, however large.
BugAddBlock(l, max, blk) ==
    LET rest == Unmerged(l, blk)
        all  == Merged(l, blk)
    IN  IF rest.n = max THEN rest
        ELSE Insert(rest, Place(rest, all.len), all, max)

(***************************************************************************)
(* DM_AFRE, DM_ASPC: add a block to a list, merged with the entries it     *)
(* touches, in order of decreasing length.  The block is dropped when its  *)
(* place is past the end of a full list.                                   *)
(***************************************************************************)
AddBlock(l, max, blk) ==
    LET rest == Unmerged(l, blk)
        all  == Merged(l, blk)
        loc  == Place(rest, all.len)
    IN  IF loc > max THEN rest ELSE Insert(rest, loc, all, max)

(***************************************************************************)
(* DM_GSPC: take nword words from the last entry that has as many, whose   *)
(* remainder goes back to the list, or from the end of the file.           *)
(***************************************************************************)
Fits(l, nword) == {i \in 1 .. l.n : l.b[i].len >= nword}

\* The list is scanned from its beginning.
BugBestFit(l, nword) ==
    CHOOSE i \in Fits(l, nword) : \A j \in Fits(l, nword) : i =< j

BestFit(l, nword) ==
    CHOOSE i \in Fits(l, nword) : \A j \in Fits(l, nword) : j =< i

\* The first word of the space DM_GSPC returns (its ISTART).
GetStart(sp, nword) ==
    IF Fits(sp.free, nword) = {} THEN sp.next
    ELSE sp.free.b[BestFit(sp.free, nword)].start

\* kpnext becomes the last word taken instead of the one after it.
BugGetSpace(sp, nword, max) == [sp EXCEPT !.next = sp.next + nword - 1]

\* What DM_GSPC leaves of the space it took the words from.
GetSpace(sp, nword, max) ==
    IF Fits(sp.free, nword) = {}
    THEN [sp EXCEPT !.next = sp.next + nword]
    ELSE LET k    == BestFit(sp.free, nword)
             left == [len   |-> sp.free.b[k].len - nword,
                      start |-> sp.free.b[k].start + nword]
             rest == Eliminate(sp.free, k)
         IN  [sp EXCEPT !.free = IF left.len > 0 THEN AddBlock(rest, max, left)
                                 ELSE rest]

-----------------------------------------------------------------------------
(***************************************************************************)
(* What a well-formed list is.                                             *)
(***************************************************************************)

\* Entries are in order of decreasing length.
Sorted(l) == \A i, j \in 1 .. l.n : i < j => l.b[i].len >= l.b[j].len

\* Between any two entries there is at least one word that is not free.
Separate(l) ==
    \A i, j \in 1 .. l.n :
        i # j => \/ Stop(l.b[i]) < l.b[j].start
                 \/ Stop(l.b[j]) < l.b[i].start

\* Every entry lies between the first data word and the next free word.
Within(l, first, next) ==
    \A i \in 1 .. l.n : first =< l.b[i].start /\ Stop(l.b[i]) =< next

=============================================================================

--------------------------- MODULE DMSpaceProofs ---------------------------
(***************************************************************************)
(* Facts about the operators of DMSpace, for lists and blocks of every     *)
(* size: they return lists again and keep them in order; entries of a list *)
(* stay separate and hold the words they were given and no others; words   *)
(* are lost only from a full list.                                         *)
(***************************************************************************)
EXTENDS DMSpace, FiniteSetTheorems, TLAPS

\* A set of natural numbers that is not empty has a least element.
LEMMA LeastNat ==
  ASSUME NEW T, T \subseteq Nat, T # {}
  PROVE  \E x \in T : \A y \in T : x =< y
<1> DEFINE Below(n) == 0 .. (n - 1)
<1>1. PICK t \in T : TRUE
  OBVIOUS
<1> DEFINE S == Below(t)
           U == {x \in T : x =< t}
           F == {Below(x) : x \in U}
<1>2. IsFiniteSet(S)
  BY FS_Interval
<1>3. IsWellFoundedOn(StrictSubsetOrdering(S), SUBSET S)
  BY <1>2, FS_StrictSubsetOrderingWellFounded, FS_FiniteSubsetsOfFinite
<1>4. F \subseteq SUBSET S /\ F # {}
  OBVIOUS
<1>5. PICK f \in F : \A g \in F : ~ (<<g, f>> \in StrictSubsetOrdering(S))
  <2> HIDE DEF F, S
  <2> QED BY <1>3, <1>4, WFMin
<1>6. PICK x \in U : f = Below(x)
  BY <1>5
<1>7. \A y \in U : ~ (y < x)
  <2> SUFFICES ASSUME NEW y \in U, y < x PROVE FALSE
    OBVIOUS
  <2>1. Below(y) \in F /\ Below(x) \in F
    OBVIOUS
  <2>2. Below(y) \subseteq Below(x)
    OBVIOUS
  <2>3. y \in Below(x) /\ y \notin Below(y)
    OBVIOUS
  <2>4. <<Below(y), Below(x)>> \in StrictSubsetOrdering(S)
    BY <2>1, <2>2, <2>3, <1>4 DEF StrictSubsetOrdering
  <2> QED BY <2>1, <2>4, <1>5, <1>6
<1> QED BY <1>7

-----------------------------------------------------------------------------
\* The place DM_AFRE looks for exists: it is the first entry that is smaller,
\* or the one after the last.
LEMMA PlaceExists ==
  ASSUME NEW max \in Nat, NEW l, IsList(l, max), NEW len \in Nat
  PROVE  /\ Place(l, len) \in 1 .. l.n + 1
         /\ \A i \in 1 .. Place(l, len) - 1 : l.b[i].len >= len
         /\ Place(l, len) =< l.n => l.b[Place(l, len)].len < len
<1> DEFINE T == {p \in 1 .. l.n + 1 : p =< l.n => l.b[p].len < len}
<1> l.n \in Nat
  BY DEF IsList
<1>1. T \subseteq Nat /\ l.n + 1 \in T
  OBVIOUS
<1>2. PICK p \in T : \A q \in T : p =< q
  <2> HIDE DEF T
  <2> QED BY <1>1, LeastNat
<1>3. \A i \in 1 .. p - 1 : l.b[i].len >= len
  <2> SUFFICES ASSUME NEW i \in 1 .. p - 1 PROVE l.b[i].len >= len
    OBVIOUS
  <2>1. i \notin T /\ i \in 1 .. l.n
    BY <1>2
  <2>2. l.b[i].len \in Nat
    BY <2>1 DEF IsList, Block
  <2> QED BY <2>1, <2>2
<1>4. \E q \in 1 .. l.n + 1 : /\ \A i \in 1 .. q - 1 : l.b[i].len >= len
                              /\ q =< l.n => l.b[q].len < len
  BY <1>2, <1>3
<1> QED BY <1>4 DEF Place

\* Eliminating an entry leaves a list, one entry shorter, in the same order.
LEMMA EliminateList ==
  ASSUME NEW max \in Nat, NEW l, IsList(l, max), NEW k \in Nat
  PROVE  /\ IsList(Eliminate(l, k), max)
         /\ k \in 1 .. l.n => Eliminate(l, k).n = l.n - 1
         /\ Sorted(l) => Sorted(Eliminate(l, k))
<1>1. CASE k \notin 1 .. l.n
  BY <1>1 DEF Eliminate
<1>2. CASE k \in 1 .. l.n
  <2> DEFINE e == Eliminate(l, k)
  <2>1. e = [n |-> l.n - 1,
             b |-> [i \in 1 .. l.n - 1 |-> IF i < k THEN l.b[i] ELSE l.b[i + 1]]]
    BY <1>2 DEF Eliminate
  <2>2. l.n \in 0 .. max /\ l.b \in [1 .. l.n -> Block]
    BY DEF IsList
  <2>3. e.n = l.n - 1 /\ e.n \in 0 .. max
    BY <1>2, <2>1, <2>2
  <2>4. e.b \in [1 .. e.n -> Block]
    <3>1. \A i \in 1 .. l.n - 1 :
             (IF i < k THEN l.b[i] ELSE l.b[i + 1]) \in Block
      <4> SUFFICES ASSUME NEW i \in 1 .. l.n - 1
                   PROVE  l.b[i] \in Block /\ l.b[i + 1] \in Block
        OBVIOUS
      <4>1. i \in 1 .. l.n /\ i + 1 \in 1 .. l.n
        BY <2>2
      <4> QED BY <4>1, <2>2
    <3>2. e.b = [i \in 1 .. l.n - 1 |-> IF i < k THEN l.b[i] ELSE l.b[i + 1]]
      BY <2>1
    <3> QED BY <2>3, <3>1, <3>2
  <2>5. e = [n |-> e.n, b |-> e.b]
    BY <2>1
  <2>6. ASSUME Sorted(l) PROVE Sorted(e)
    <3> SUFFICES ASSUME NEW i \in 1 .. e.n, NEW j \in 1 .. e.n, i < j
                 PROVE  e.b[i].len >= e.b[j].len
      BY DEF Sorted
    <3> DEFINE up(x) == IF x < k THEN x ELSE x + 1
    <3>1. e.b[i] = l.b[up(i)] /\ e.b[j] = l.b[up(j)]
      BY <2>1, <2>3
    <3>2. up(i) \in 1 .. l.n /\ up(j) \in 1 .. l.n /\ up(i) < up(j)
      BY <1>2, <2>2, <2>3
    <3> QED BY <3>1, <3>2, <2>6 DEF Sorted
  <2> QED BY <1>2, <2>3, <2>4, <2>5, <2>6 DEF IsList
<1> QED BY <1>1, <1>2

\* The neighbours of a block are entries of the list, or 0.
LEMMA NeighbourType ==
  ASSUME NEW l, NEW w
  PROVE  /\ Follower(l, w) = 0 \/ /\ Follower(l, w) \in 1 .. l.n
                                  /\ l.b[Follower(l, w)].start = w
         /\ Preceder(l, w) = 0 \/ /\ Preceder(l, w) \in 1 .. l.n
                                  /\ Stop(l.b[Preceder(l, w)]) = w
<1>1. ASSUME \E i \in 1 .. l.n : l.b[i].start = w
      PROVE  Follower(l, w) \in 1 .. l.n /\ l.b[Follower(l, w)].start = w
  BY <1>1 DEF Follower
<1>2. ASSUME \E i \in 1 .. l.n : Stop(l.b[i]) = w
      PROVE  Preceder(l, w) \in 1 .. l.n /\ Stop(l.b[Preceder(l, w)]) = w
  BY <1>2 DEF Preceder
<1> QED BY <1>1, <1>2 DEF Follower, Preceder

\* A block merged with its neighbours is a block, no shorter than it was.
LEMMA MergedBlock ==
  ASSUME NEW max \in Nat, NEW l, IsList(l, max), NEW blk \in Block
  PROVE  Merged(l, blk) \in Block /\ Merged(l, blk).len >= blk.len
<1> DEFINE i1 == Follower(l, Stop(blk))
           i2 == Preceder(l, blk.start)
<1>1. (i1 = 0 \/ i1 \in 1 .. l.n) /\ (i2 = 0 \/ i2 \in 1 .. l.n)
  BY NeighbourType
<1>2. \A i \in 1 .. l.n : l.b[i].len \in Nat \ {0} /\ l.b[i].start \in Nat \ {0}
  BY DEF IsList, Block
<1>3. LenOf(l, i1) \in Nat /\ LenOf(l, i2) \in Nat
  <2> HIDE DEF i1, i2
  <2> QED BY <1>1, <1>2 DEF LenOf
<1>4. blk.len \in Nat \ {0} /\ blk.start \in Nat \ {0}
  BY DEF Block
<1>5. Merged(l, blk) = [len   |-> blk.len + LenOf(l, i1) + LenOf(l, i2),
                        start |-> IF i2 = 0 THEN blk.start ELSE l.b[i2].start]
  BY DEF Merged
<1> QED
  <2> HIDE DEF i1, i2
  <2>1. Merged(l, blk).len = blk.len + LenOf(l, i1) + LenOf(l, i2)
    BY <1>5
  <2>2. (IF i2 = 0 THEN blk.start ELSE l.b[i2].start) \in Nat \ {0}
    BY <1>1, <1>2, <1>4
  <2>3. Merged(l, blk).len \in Nat \ {0} /\ Merged(l, blk).len >= blk.len
    BY <2>1, <1>3, <1>4
  <2> QED BY <1>5, <2>1, <2>2, <2>3 DEF Block

\* What is left when the neighbours are eliminated is a list in order.
LEMMA UnmergedList ==
  ASSUME NEW max \in Nat, NEW l, IsList(l, max), NEW blk \in Block
  PROVE  /\ IsList(Unmerged(l, blk), max)
         /\ Sorted(l) => Sorted(Unmerged(l, blk))
<1> DEFINE i1 == Follower(l, Stop(blk))
           i2 == Preceder(l, blk.start)
<1>1. i1 \in Nat /\ i2 \in Nat
  <2>1. l.n \in Nat
    BY DEF IsList
  <2> QED BY NeighbourType, <2>1
<1>2. Unmerged(l, blk) = IF i1 < i2 THEN Eliminate(Eliminate(l, i2), i1)
                         ELSE IF i2 < i1 THEN Eliminate(Eliminate(l, i1), i2)
                         ELSE l
  BY DEF Unmerged
<1> HIDE DEF i1, i2
<1>3. /\ IsList(Eliminate(l, i1), max) /\ IsList(Eliminate(l, i2), max)
      /\ Sorted(l) => Sorted(Eliminate(l, i1)) /\ Sorted(Eliminate(l, i2))
  BY <1>1, EliminateList
<1>4. /\ IsList(Eliminate(Eliminate(l, i2), i1), max)
      /\ IsList(Eliminate(Eliminate(l, i1), i2), max)
      /\ Sorted(l) => /\ Sorted(Eliminate(Eliminate(l, i2), i1))
                      /\ Sorted(Eliminate(Eliminate(l, i1), i2))
  BY <1>1, <1>3, EliminateList
<1> QED BY <1>2, <1>3, <1>4

\* Inserting a block at its place leaves a list in order.
LEMMA InsertList ==
  ASSUME NEW max \in Nat \ {0}, NEW l, IsList(l, max), NEW blk \in Block,
         NEW p \in 1 .. max, p =< l.n + 1
  PROVE  /\ IsList(Insert(l, p, blk, max), max)
         /\ /\ Sorted(l)
            /\ \A i \in 1 .. p - 1 : l.b[i].len >= blk.len
            /\ p =< l.n => l.b[p].len < blk.len
            => Sorted(Insert(l, p, blk, max))
<1> DEFINE m == IF l.n + 1 > max THEN max ELSE l.n + 1
           e == Insert(l, p, blk, max)
<1>1. l.n \in 0 .. max /\ l.b \in [1 .. l.n -> Block]
  BY DEF IsList
<1>2. m \in 1 .. max /\ m =< l.n + 1 /\ p =< m
  BY <1>1
<1>3. e = [n |-> m, b |-> [i \in 1 .. m |->
                IF i < p THEN l.b[i] ELSE IF i = p THEN blk ELSE l.b[i - 1]]]
  BY DEF Insert
<1> HIDE DEF m, e
<1>4. \A i \in 1 .. m : e.b[i] = IF i < p THEN l.b[i]
                                 ELSE IF i = p THEN blk ELSE l.b[i - 1]
  BY <1>3
<1>5. \A i \in 1 .. m : e.b[i] \in Block
  <2> SUFFICES ASSUME NEW i \in 1 .. m PROVE e.b[i] \in Block
    OBVIOUS
  <2>1. CASE i < p
    <3>1. i \in 1 .. l.n /\ e.b[i] = l.b[i]
      BY <1>1, <1>2, <1>4, <2>1
    <3> QED BY <3>1, <1>1
  <2>2. CASE i = p
    BY <1>4, <2>2
  <2>3. CASE i > p
    <3>1. i - 1 \in 1 .. l.n /\ e.b[i] = l.b[i - 1]
      BY <1>1, <1>2, <1>4, <2>3
    <3> QED BY <3>1, <1>1
  <2> QED BY <1>2, <2>1, <2>2, <2>3
<1>6. e.n = m /\ e.b \in [1 .. m -> Block] /\ e = [n |-> e.n, b |-> e.b]
  BY <1>3, <1>5
<1>7. IsList(e, max)
  BY <1>2, <1>6 DEF IsList
<1>8. ASSUME Sorted(l), \A i \in 1 .. p - 1 : l.b[i].len >= blk.len,
             p =< l.n => l.b[p].len < blk.len
      PROVE  Sorted(e)
  <2> SUFFICES ASSUME NEW i \in 1 .. m, NEW j \in 1 .. m, i < j
               PROVE  e.b[i].len >= e.b[j].len
    BY <1>6 DEF Sorted
  <2>0. \A x \in 1 .. l.n : l.b[x].len \in Nat
    BY <1>1 DEF Block
  <2>1. blk.len \in Nat
    BY DEF Block
  <2>2. CASE j < p
    <3>1. e.b[i] = l.b[i] /\ e.b[j] = l.b[j]
      BY <2>2, <1>2, <1>4
    <3>2. i \in 1 .. l.n /\ j \in 1 .. l.n
      BY <2>2, <1>1, <1>2
    <3> QED BY <3>1, <3>2, <1>8 DEF Sorted
  <2>3. CASE j = p
    <3>1. e.b[i] = l.b[i] /\ e.b[j] = blk /\ i \in 1 .. p - 1
      BY <2>3, <1>2, <1>4
    <3> QED BY <3>1, <1>8
  <2>4. CASE j > p
    <3>1. j - 1 \in 1 .. l.n /\ p =< l.n /\ p \in 1 .. l.n /\ p =< j - 1
      BY <2>4, <1>1, <1>2
    <3>2. l.b[j - 1].len =< l.b[p].len
      BY <3>1, <1>8, <2>0 DEF Sorted
    <3>3. e.b[j] = l.b[j - 1]
      BY <2>4, <1>4
    <3>4. CASE i < p
      <4>1. e.b[i] = l.b[i] /\ i \in 1 .. l.n /\ i < j - 1
        BY <3>1, <3>4, <1>1, <1>2, <1>4
      <4> QED BY <3>1, <3>3, <4>1, <1>8 DEF Sorted
    <3>5. CASE i = p
      BY <3>1, <3>2, <3>3, <3>5, <1>4, <1>8, <2>0, <2>1
    <3>6. CASE i > p
      <4>1. e.b[i] = l.b[i - 1] /\ i - 1 \in 1 .. l.n /\ i - 1 < j - 1
        BY <3>6, <1>1, <1>2, <1>4
      <4> QED BY <3>1, <3>3, <4>1, <1>8 DEF Sorted
    <3> QED BY <3>4, <3>5, <3>6, <1>2
  <2> QED BY <2>2, <2>3, <2>4, <1>2
<1> QED BY <1>7, <1>8 DEF e

\* DM_AFRE: adding a block to a list leaves a list, and keeps it in order.
THEOREM AddBlockList ==
  ASSUME NEW max \in Nat \ {0}, NEW l, IsList(l, max), NEW blk \in Block
  PROVE  /\ IsList(AddBlock(l, max, blk), max)
         /\ Sorted(l) => Sorted(AddBlock(l, max, blk))
<1> DEFINE rest == Unmerged(l, blk)
           all  == Merged(l, blk)
           loc  == Place(rest, all.len)
<1>1. IsList(rest, max) /\ (Sorted(l) => Sorted(rest))
  BY UnmergedList
<1>2. all \in Block /\ all.len \in Nat
  BY MergedBlock DEF Block
<1>3. /\ loc \in 1 .. rest.n + 1
      /\ \A i \in 1 .. loc - 1 : rest.b[i].len >= all.len
      /\ loc =< rest.n => rest.b[loc].len < all.len
  <2> HIDE DEF rest, all
  <2> QED BY <1>1, <1>2, PlaceExists
<1>4. AddBlock(l, max, blk) = IF loc > max THEN rest
                              ELSE Insert(rest, loc, all, max)
  BY DEF AddBlock
<1>5. rest.n \in Nat
  BY <1>1 DEF IsList
<1> HIDE DEF rest, all, loc
<1>6. CASE loc > max
  BY <1>1, <1>4, <1>6
<1>7. CASE ~(loc > max)
  <2>1. loc \in 1 .. max /\ loc =< rest.n + 1
    BY <1>3, <1>5, <1>7
  <2>2. /\ IsList(Insert(rest, loc, all, max), max)
        /\ Sorted(rest) => Sorted(Insert(rest, loc, all, max))
    BY <1>1, <1>2, <1>3, <2>1, InsertList
  <2> QED BY <1>1, <1>4, <1>7, <2>2
<1> QED BY <1>6, <1>7

-----------------------------------------------------------------------------
\* When some entry has enough words, the scan of DM_GSPC from the end of the
\* list finds the last of them.
LEMMA BestFitExists ==
  ASSUME NEW max \in Nat, NEW l, IsList(l, max), NEW nword, Fits(l, nword) # {}
  PROVE  /\ BestFit(l, nword) \in Fits(l, nword)
         /\ \A j \in Fits(l, nword) : j =< BestFit(l, nword)
<1> DEFINE T == {l.n - i : i \in Fits(l, nword)}
<1>1. l.n \in Nat /\ Fits(l, nword) \subseteq 1 .. l.n
  BY DEF IsList, Fits
<1>2. T \subseteq Nat /\ T # {}
  BY <1>1
<1>3. PICK t \in T : \A u \in T : t =< u
  <2> HIDE DEF T
  <2> QED BY <1>2, LeastNat
<1>4. PICK i \in Fits(l, nword) : t = l.n - i
  BY <1>3
<1>5. \A j \in Fits(l, nword) : j =< i
  <2> SUFFICES ASSUME NEW j \in Fits(l, nword) PROVE j =< i
    OBVIOUS
  <2>1. l.n - i =< l.n - j
    BY <1>3, <1>4
  <2> QED BY <2>1, <1>1
<1> QED BY <1>5 DEF BestFit

(***************************************************************************)
(* DM_GSPC: in a list that is in order, the entry the words are taken from *)
(* is the smallest that has as many.                                       *)
(***************************************************************************)
THEOREM BestFitSmallest ==
  ASSUME NEW max \in Nat, NEW l, IsList(l, max), Sorted(l), NEW nword \in Nat,
         Fits(l, nword) # {}
  PROVE  \A j \in 1 .. l.n :
            l.b[j].len >= nword => l.b[BestFit(l, nword)].len =< l.b[j].len
<1> DEFINE k == BestFit(l, nword)
<1>1. k \in 1 .. l.n /\ \A j \in Fits(l, nword) : j =< k
  BY BestFitExists DEF Fits
<1>2. l.n \in Nat /\ \A i \in 1 .. l.n : l.b[i].len \in Nat
  BY DEF IsList, Block
<1> HIDE DEF k
<1> SUFFICES ASSUME NEW j \in 1 .. l.n, l.b[j].len >= nword
             PROVE  l.b[k].len =< l.b[j].len
  BY DEF k
<1>3. j =< k
  BY <1>1 DEF Fits
<1> QED BY <1>1, <1>2, <1>3 DEF Sorted

\* The space DM_GSPC leaves is a space, its list in order when it was.
THEOREM GetSpaceList ==
  ASSUME NEW max \in Nat \ {0}, NEW sp,
         sp = [next |-> sp.next, free |-> sp.free],
         sp.next \in Nat \ {0}, IsList(sp.free, max), NEW nword \in Nat
  PROVE  LET got == GetSpace(sp, nword, max)
         IN  /\ got = [next |-> got.next, free |-> got.free]
             /\ got.next \in Nat \ {0}
             /\ IsList(got.free, max)
             /\ Sorted(sp.free) => Sorted(got.free)
<1> DEFINE got == GetSpace(sp, nword, max)
<1>1. CASE Fits(sp.free, nword) = {}
  <2>1. got = [sp EXCEPT !.next = sp.next + nword]
    BY <1>1 DEF GetSpace
  <2>2. got = [next |-> sp.next + nword, free |-> sp.free]
    BY <2>1
  <2>3. got.next = sp.next + nword /\ got.free = sp.free
    BY <2>2
  <2> HIDE DEF got
  <2>4. got.next \in Nat \ {0} /\ got = [next |-> got.next, free |-> got.free]
    BY <2>2, <2>3
  <2> QED BY <2>3, <2>4 DEF got
<1>2. CASE Fits(sp.free, nword) # {}
  <2> DEFINE k    == BestFit(sp.free, nword)
             left == [len   |-> sp.free.b[k].len - nword,
                      start |-> sp.free.b[k].start + nword]
             rest == Eliminate(sp.free, k)
             new  == IF left.len > 0 THEN AddBlock(rest, max, left) ELSE rest
  <2>1. k \in 1 .. sp.free.n /\ sp.free.b[k].len >= nword /\ sp.free.n \in Nat
    BY <1>2, BestFitExists DEF Fits, IsList
  <2>2. sp.free.b[k] \in Block
    BY <2>1 DEF IsList
  <2>3. IsList(rest, max) /\ (Sorted(sp.free) => Sorted(rest))
    BY <2>1, EliminateList
  <2>4. ASSUME left.len > 0 PROVE left \in Block
    BY <2>1, <2>2, <2>4 DEF Block
  <2>5. got = [sp EXCEPT !.free = new]
    BY <1>2 DEF GetSpace
  <2> HIDE DEF k, left, rest
  <2>6. IsList(new, max) /\ (Sorted(sp.free) => Sorted(new))
    BY <2>3, <2>4, AddBlockList
  <2> HIDE DEF new, got
  <2>7. got = [next |-> sp.next, free |-> new]
    BY <2>5
  <2>8. got.next = sp.next /\ got.free = new
    BY <2>7
  <2>9. got = [next |-> got.next, free |-> got.free]
    BY <2>7, <2>8
  <2> QED BY <2>6, <2>8, <2>9 DEF got
<1> QED BY <1>1, <1>2

-----------------------------------------------------------------------------
(***************************************************************************)
(* The words of blocks and lists.                                          *)
(***************************************************************************)

\* A block has a word, and two blocks share one unless one stops before the
\* other starts.
LEMMA WordsOfBlocks ==
  ASSUME NEW a \in Block, NEW b \in Block
  PROVE  /\ Stop(a) \in Nat /\ a.start < Stop(a)
         /\ a.start \in Nat /\ a.len \in Nat
         /\ a.start \in Words(a)
         /\ Words(a) \cap Words(b) = {} <=> Stop(a) =< b.start \/ Stop(b) =< a.start
<1>1. /\ a.start \in Nat \ {0} /\ a.len \in Nat \ {0}
      /\ b.start \in Nat \ {0} /\ b.len \in Nat \ {0}
  BY DEF Block
<1>2. /\ Stop(a) \in Nat /\ a.start < Stop(a)
      /\ Stop(b) \in Nat /\ b.start < Stop(b)
  BY <1>1 DEF Stop
<1>3. /\ \A w : w \in Words(a) <=> w \in Nat /\ a.start =< w /\ w < Stop(a)
      /\ \A w : w \in Words(b) <=> w \in Nat /\ b.start =< w /\ w < Stop(b)
  BY <1>1, <1>2 DEF Words
<1>4. a.start \in Words(a) /\ b.start \in Words(b)
  BY <1>1, <1>2, <1>3
<1>5. ASSUME Words(a) \cap Words(b) = {}
      PROVE  Stop(a) =< b.start \/ Stop(b) =< a.start
  <2>1. a.start \notin Words(b) /\ b.start \notin Words(a)
    BY <1>4, <1>5
  <2> QED BY <1>1, <1>2, <1>3, <2>1
<1>6. ASSUME Stop(a) =< b.start \/ Stop(b) =< a.start
      PROVE  Words(a) \cap Words(b) = {}
  <2> SUFFICES ASSUME NEW w, w \in Words(a), w \in Words(b) PROVE FALSE
    OBVIOUS
  <2> QED BY <1>1, <1>2, <1>3, <1>6
<1> QED BY <1>1, <1>2, <1>4, <1>5, <1>6

\* A list lies between two words when all its words do.
LEMMA WithinWords ==
  ASSUME NEW max \in Nat, NEW l, IsList(l, max), NEW f \in Nat, NEW n \in Nat
  PROVE  Within(l, f, n) <=> \A w \in FreeWords(l) : f =< w /\ w < n
<1>1. \A i \in 1 .. l.n : /\ l.b[i] \in Block
                          /\ l.b[i].start \in Nat \ {0} /\ l.b[i].len \in Nat \ {0}
  BY DEF IsList, Block
<1>2. ASSUME Within(l, f, n), NEW w \in FreeWords(l) PROVE f =< w /\ w < n
  <2>1. PICK i \in 1 .. l.n : w \in Words(l.b[i])
    BY DEF FreeWords
  <2>2. w \in Int /\ l.b[i].start =< w /\ w < Stop(l.b[i]) /\ Stop(l.b[i]) \in Nat
    BY <1>1, <2>1 DEF Words, Stop
  <2>3. f =< l.b[i].start /\ Stop(l.b[i]) =< n
    BY <1>2 DEF Within
  <2> QED BY <1>1, <2>2, <2>3
<1>3. ASSUME \A w \in FreeWords(l) : f =< w /\ w < n PROVE Within(l, f, n)
  <2> SUFFICES ASSUME NEW i \in 1 .. l.n
               PROVE  f =< l.b[i].start /\ Stop(l.b[i]) =< n
    BY DEF Within
  <2>1. /\ l.b[i].start \in Words(l.b[i])
        /\ Stop(l.b[i]) - 1 \in Words(l.b[i])
        /\ Stop(l.b[i]) \in Nat
    BY <1>1 DEF Words, Stop
  <2>2. l.b[i].start \in FreeWords(l) /\ Stop(l.b[i]) - 1 \in FreeWords(l)
    BY <2>1 DEF FreeWords
  <2> QED BY <1>3, <2>1, <2>2
<1> QED BY <1>2, <1>3

\* No two entries of a list of separate blocks share a word.
LEMMA SeparateWords ==
  ASSUME NEW max \in Nat, NEW l, IsList(l, max), Separate(l),
         NEW i \in 1 .. l.n, NEW j \in 1 .. l.n, i # j
  PROVE  Words(l.b[i]) \cap Words(l.b[j]) = {}
<1>1. l.b[i] \in Block /\ l.b[j] \in Block
  BY DEF IsList
<1>2. Stop(l.b[i]) < l.b[j].start \/ Stop(l.b[j]) < l.b[i].start
  BY DEF Separate
<1>3. /\ Stop(l.b[i]) \in Nat /\ Stop(l.b[j]) \in Nat
      /\ l.b[i].start \in Nat /\ l.b[j].start \in Nat
  BY <1>1, WordsOfBlocks
<1> QED BY <1>1, <1>2, <1>3, WordsOfBlocks

(***************************************************************************)
(* r holds entries of l other than those in K, none of them twice.         *)
(***************************************************************************)
SubList(r, l, K) ==
    /\ \A i \in 1 .. r.n : \E x \in 1 .. l.n : x \notin K /\ r.b[i] = l.b[x]
    /\ \A i, j \in 1 .. r.n :
          i # j => \E x, y \in 1 .. l.n :
                      /\ x # y /\ x \notin K /\ y \notin K
                      /\ r.b[i] = l.b[x] /\ r.b[j] = l.b[y]

\* Entries of a part of a list are separate if those of the list are.
LEMMA SubListSeparate ==
  ASSUME NEW l, NEW r, NEW K, SubList(r, l, K)
  PROVE  /\ Separate(l) => Separate(r)
         /\ FreeWords(r) \subseteq FreeWords(l)
<1>1. ASSUME Separate(l) PROVE Separate(r)
  <2> SUFFICES ASSUME NEW i \in 1 .. r.n, NEW j \in 1 .. r.n, i # j
               PROVE  \/ Stop(r.b[i]) < r.b[j].start
                      \/ Stop(r.b[j]) < r.b[i].start
    BY DEF Separate
  <2>1. PICK x \in 1 .. l.n, y \in 1 .. l.n :
           x # y /\ r.b[i] = l.b[x] /\ r.b[j] = l.b[y]
    BY DEF SubList
  <2> QED BY <1>1, <2>1 DEF Separate
<1>2. ASSUME NEW w \in FreeWords(r) PROVE w \in FreeWords(l)
  <2>1. PICK i \in 1 .. r.n : w \in Words(r.b[i])
    BY DEF FreeWords
  <2>2. PICK x \in 1 .. l.n : r.b[i] = l.b[x]
    BY DEF SubList
  <2> QED BY <2>1, <2>2 DEF FreeWords
<1> QED BY <1>1, <1>2

\* Eliminating entry k leaves the other entries.
LEMMA EliminateSub ==
  ASSUME NEW max \in Nat, NEW l, IsList(l, max), NEW k \in Nat
  PROVE  /\ SubList(Eliminate(l, k), l, {k})
         /\ \A i \in 1 .. Eliminate(l, k).n :
               i < k => i \in 1 .. l.n /\ Eliminate(l, k).b[i] = l.b[i]
<1> DEFINE e == Eliminate(l, k)
<1>0. l.n \in Nat
  BY DEF IsList
<1>1. CASE k \notin 1 .. l.n
  <2>1. e = l
    BY <1>1 DEF Eliminate
  <2> QED BY <1>1, <2>1 DEF SubList
<1>2. CASE k \in 1 .. l.n
  <2> DEFINE up(x) == IF x < k THEN x ELSE x + 1
  <2>1. e = [n |-> l.n - 1,
             b |-> [i \in 1 .. l.n - 1 |-> IF i < k THEN l.b[i] ELSE l.b[i + 1]]]
    BY <1>2 DEF Eliminate
  <2>2. e.n = l.n - 1
    BY <2>1
  <2>3. \A i \in 1 .. e.n : e.b[i] = IF i < k THEN l.b[i] ELSE l.b[i + 1]
    BY <2>1, <2>2
  <2> HIDE DEF e
  <2>4. \A i \in 1 .. e.n :
           up(i) \in 1 .. l.n /\ up(i) # k /\ e.b[i] = l.b[up(i)]
    BY <1>0, <1>2, <2>2, <2>3
  <2>5. \A i, j \in 1 .. e.n : i # j => up(i) # up(j)
    OBVIOUS
  <2>6. \A i \in 1 .. e.n : i < k => i \in 1 .. l.n /\ e.b[i] = l.b[i]
    BY <1>0, <2>2, <2>3
  <2> HIDE DEF up
  <2>7. SubList(e, l, {k})
    BY <2>4, <2>5 DEF SubList
  <2> QED BY <2>6, <2>7 DEF e
<1> QED BY <1>1, <1>2

\* The two neighbours of a block touch it.
LEMMA Neighbours ==
  ASSUME NEW l, NEW blk, NEW i1, NEW i2,
         i1 = Follower(l, Stop(blk)), i2 = Preceder(l, blk.start)
  PROVE  /\ i1 = 0 \/ (i1 \in 1 .. l.n /\ l.b[i1].start = Stop(blk))
         /\ i2 = 0 \/ (i2 \in 1 .. l.n /\ Stop(l.b[i2]) = blk.start)
<1>1. ASSUME NEW w, w = Stop(blk)
      PROVE  i1 = 0 \/ (i1 \in 1 .. l.n /\ l.b[i1].start = w)
  <2>1. i1 = Follower(l, w)
    BY <1>1
  <2> QED BY <2>1, NeighbourType
<1>2. ASSUME NEW w, w = blk.start
      PROVE  i2 = 0 \/ (i2 \in 1 .. l.n /\ Stop(l.b[i2]) = w)
  <2>1. i2 = Preceder(l, w)
    BY <1>2
  <2> QED BY <2>1, NeighbourType
<1> QED BY <1>1, <1>2

\* Eliminating two entries, the later one first, leaves the others.
LEMMA EliminateTwo ==
  ASSUME NEW max \in Nat, NEW l, IsList(l, max), NEW k \in 1 .. l.n,
         NEW j \in 0 .. k - 1
  PROVE  SubList(Eliminate(Eliminate(l, k), j), l, {j, k})
<1> DEFINE d == Eliminate(l, k)
           e == Eliminate(d, j)
<1>0. l.n \in Nat /\ k \in Nat /\ j \in Nat
  BY DEF IsList
<1>1. d = [n |-> l.n - 1,
           b |-> [i \in 1 .. l.n - 1 |-> IF i < k THEN l.b[i] ELSE l.b[i + 1]]]
  BY DEF Eliminate
<1>2. d.n = l.n - 1
  BY <1>1
<1>3. \A i \in 1 .. d.n : d.b[i] = IF i < k THEN l.b[i] ELSE l.b[i + 1]
  BY <1>1, <1>2
<1>4. CASE j = 0
  <2>1. e = d
    BY <1>4 DEF Eliminate
  <2>2. SubList(d, l, {k})
    BY <1>0, EliminateSub
  <2> HIDE DEF d, e
  <2>3. \A x \in 1 .. l.n : x # j
    BY <1>4
  <2>4. SubList(e, l, {j, k})
    BY <2>1, <2>2, <2>3 DEF SubList
  <2> QED BY <2>4 DEF d, e
<1>5. CASE j # 0
  <2> DEFINE up(i) == IF i < j THEN i ELSE IF i + 1 < k THEN i + 1 ELSE i + 2
  <2> HIDE DEF d
  <2>1. j \in 1 .. d.n
    BY <1>0, <1>2, <1>5
  <2>2. e = [n |-> d.n - 1,
             b |-> [i \in 1 .. d.n - 1 |-> IF i < j THEN d.b[i] ELSE d.b[i + 1]]]
    BY <2>1 DEF Eliminate
  <2>3. e.n = l.n - 2
    BY <1>0, <1>2, <2>2
  <2>4. \A i \in 1 .. e.n : e.b[i] = IF i < j THEN d.b[i] ELSE d.b[i + 1]
    BY <1>0, <1>2, <2>2, <2>3
  <2> HIDE DEF e
  <2>5. \A i \in 1 .. e.n :
           /\ up(i) \in 1 .. l.n /\ up(i) # j /\ up(i) # k
           /\ e.b[i] = l.b[up(i)]
    BY <1>0, <1>2, <1>3, <1>5, <2>3, <2>4
  <2>6. \A h, i \in 1 .. e.n : h # i => up(h) # up(i)
    BY <1>0
  <2> HIDE DEF up
  <2>7. SubList(e, l, {j, k})
    BY <2>5, <2>6 DEF SubList
  <2> QED BY <2>7 DEF d, e
<1> QED BY <1>4, <1>5

\* Unmerged leaves every entry that is not a neighbour of the block.
LEMMA UnmergedSub ==
  ASSUME NEW max \in Nat, NEW l, IsList(l, max), NEW blk \in Block
  PROVE  SubList(Unmerged(l, blk), l,
                 {Follower(l, Stop(blk)), Preceder(l, blk.start)})
<1> DEFINE i1 == Follower(l, Stop(blk))
           i2 == Preceder(l, blk.start)
<1>1. /\ i1 = 0 \/ (i1 \in 1 .. l.n /\ l.b[i1].start = Stop(blk))
      /\ i2 = 0 \/ (i2 \in 1 .. l.n /\ Stop(l.b[i2]) = blk.start)
  BY Neighbours
<1>2. Unmerged(l, blk) = IF i1 < i2 THEN Eliminate(Eliminate(l, i2), i1)
                         ELSE IF i2 < i1 THEN Eliminate(Eliminate(l, i1), i2)
                         ELSE l
  BY DEF Unmerged
<1> HIDE DEF i1, i2
<1>3. l.n \in Nat /\ \A i \in 1 .. l.n : l.b[i] \in Block
  BY DEF IsList
<1>4. CASE i1 < i2
  <2>1. i2 \in 1 .. l.n /\ i1 \in 0 .. i2 - 1
    BY <1>1, <1>3, <1>4
  <2>2. SubList(Eliminate(Eliminate(l, i2), i1), l, {i1, i2})
    BY <2>1, EliminateTwo
  <2> QED BY <1>2, <1>4, <2>2 DEF i1, i2
<1>5. CASE i2 < i1
  <2>1. i1 \in 1 .. l.n /\ i2 \in 0 .. i1 - 1 /\ ~(i1 < i2)
    BY <1>1, <1>3, <1>5
  <2>2. SubList(Eliminate(Eliminate(l, i1), i2), l, {i2, i1})
    BY <2>1, EliminateTwo
  <2>3. {i1, i2} = {i2, i1}
    OBVIOUS
  <2>4. SubList(Unmerged(l, blk), l, {i1, i2})
    BY <1>2, <1>5, <2>1, <2>2, <2>3
  <2> QED BY <2>4 DEF i1, i2
<1>6. CASE ~(i1 < i2) /\ ~(i2 < i1)
  <2>1. i1 = i2
    BY <1>1, <1>3, <1>6
  <2>2. i1 = 0
    <3> SUFFICES ASSUME i1 # 0 PROVE FALSE
      OBVIOUS
    <3>1. l.b[i1] \in Block /\ l.b[i1].start = Stop(blk) /\ Stop(l.b[i1]) = blk.start
      BY <1>1, <1>3, <2>1
    <3>2. l.b[i1].start < Stop(l.b[i1]) /\ blk.start < Stop(blk)
          /\ blk.start \in Nat /\ Stop(blk) \in Nat
      BY <3>1, WordsOfBlocks
    <3> QED BY <3>1, <3>2
  <2>3. Unmerged(l, blk) = l
    BY <1>2, <1>6
  <2>4. SubList(l, l, {i1, i2})
    <3>1. \A i \in 1 .. l.n : i \notin {i1, i2}
      BY <2>1, <2>2
    <3> QED BY <3>1 DEF SubList
  <2> QED BY <2>3, <2>4 DEF i1, i2
<1> QED BY <1>4, <1>5, <1>6

\* A block merged with its neighbours reaches from the start of the one before
\* to the stop of the one after.
LEMMA MergedSpan ==
  ASSUME NEW max \in Nat, NEW l, IsList(l, max), NEW blk \in Block,
         NEW i1, NEW i2, i1 = Follower(l, Stop(blk)), i2 = Preceder(l, blk.start),
         NEW lo, lo = IF i2 = 0 THEN blk.start ELSE l.b[i2].start,
         NEW hi, hi = IF i1 = 0 THEN Stop(blk) ELSE Stop(l.b[i1])
  PROVE  /\ Merged(l, blk).start = lo /\ Stop(Merged(l, blk)) = hi
         /\ lo \in Nat /\ hi \in Nat /\ lo =< blk.start /\ Stop(blk) =< hi
<1> DEFINE all == Merged(l, blk)
<1>1. /\ i1 = 0 \/ (i1 \in 1 .. l.n /\ l.b[i1].start = Stop(blk))
      /\ i2 = 0 \/ (i2 \in 1 .. l.n /\ Stop(l.b[i2]) = blk.start)
  BY Neighbours
<1>3. all = [len |-> blk.len + LenOf(l, i1) + LenOf(l, i2), start |-> lo]
  BY DEF Merged
<1> HIDE DEF all
<1>4. /\ blk.len \in Nat /\ blk.start \in Nat /\ Stop(blk) = blk.start + blk.len
      /\ blk.start < Stop(blk) /\ Stop(blk) \in Nat
  BY WordsOfBlocks DEF Stop
<1>5. \A x \in 1 .. l.n : /\ l.b[x].len \in Nat /\ l.b[x].start \in Nat
                          /\ Stop(l.b[x]) = l.b[x].start + l.b[x].len
                          /\ l.b[x].start < Stop(l.b[x]) /\ Stop(l.b[x]) \in Nat
  <2> SUFFICES ASSUME NEW x \in 1 .. l.n
               PROVE  /\ l.b[x].len \in Nat /\ l.b[x].start \in Nat
                      /\ Stop(l.b[x]) = l.b[x].start + l.b[x].len
                      /\ l.b[x].start < Stop(l.b[x]) /\ Stop(l.b[x]) \in Nat
    OBVIOUS
  <2>1. l.b[x] \in Block
    BY DEF IsList
  <2> QED BY <2>1, WordsOfBlocks DEF Stop
<1>6. all.start = lo /\ Stop(all) = hi /\ lo \in Nat /\ hi \in Nat
      /\ lo =< blk.start /\ Stop(blk) =< hi
  <2>1. all.start = lo /\ all.len = blk.len + LenOf(l, i1) + LenOf(l, i2)
    BY <1>3
  <2>2. /\ i1 = 0 => LenOf(l, i1) = 0
        /\ i1 # 0 => LenOf(l, i1) = l.b[i1].len
        /\ i2 = 0 => LenOf(l, i2) = 0
        /\ i2 # 0 => LenOf(l, i2) = l.b[i2].len
    BY DEF LenOf
  <2>3. Stop(all) = all.start + all.len
    BY DEF Stop
  <2>4. CASE i1 = 0 /\ i2 = 0
    BY <1>4, <2>1, <2>2, <2>3, <2>4
  <2>5. CASE i1 = 0 /\ i2 # 0
    BY <1>1, <1>4, <1>5, <2>1, <2>2, <2>3, <2>5
  <2>6. CASE i1 # 0 /\ i2 = 0
    BY <1>1, <1>4, <1>5, <2>1, <2>2, <2>3, <2>6
  <2>7. CASE i1 # 0 /\ i2 # 0
    BY <1>1, <1>4, <1>5, <2>1, <2>2, <2>3, <2>7
  <2> QED BY <2>4, <2>5, <2>6, <2>7
<1> QED BY <1>6 DEF all

(***************************************************************************)
(* A block that shares no word with a list of separate blocks, merged with *)
(* its neighbours: it stands apart from every other entry, and its words   *)
(* are those of the block and of the list.                                 *)
(***************************************************************************)
LEMMA MergedApart ==
  ASSUME NEW max \in Nat, NEW l, IsList(l, max), Separate(l), NEW blk \in Block,
         Words(blk) \cap FreeWords(l) = {}
  PROVE  LET all == Merged(l, blk)
             i1  == Follower(l, Stop(blk))
             i2  == Preceder(l, blk.start)
         IN  /\ Words(all) \subseteq Words(blk) \cup FreeWords(l)
             /\ \A x \in 1 .. l.n : x \notin {i1, i2} =>
                   Stop(l.b[x]) < all.start \/ Stop(all) < l.b[x].start
<1> DEFINE all == Merged(l, blk)
           i1  == Follower(l, Stop(blk))
           i2  == Preceder(l, blk.start)
           lo  == IF i2 = 0 THEN blk.start ELSE l.b[i2].start
           hi  == IF i1 = 0 THEN Stop(blk) ELSE Stop(l.b[i1])
<1>1. /\ i1 = 0 \/ (i1 \in 1 .. l.n /\ l.b[i1].start = Stop(blk))
      /\ i2 = 0 \/ (i2 \in 1 .. l.n /\ Stop(l.b[i2]) = blk.start)
  BY Neighbours
<1>2. /\ i1 = 0 => \A x \in 1 .. l.n : l.b[x].start # Stop(blk)
      /\ i2 = 0 => \A x \in 1 .. l.n : Stop(l.b[x]) # blk.start
  <2>1. ASSUME NEW x \in 1 .. l.n, l.b[x].start = Stop(blk) PROVE i1 \in 1 .. l.n
    BY <2>1 DEF Follower
  <2>2. ASSUME NEW x \in 1 .. l.n, Stop(l.b[x]) = blk.start PROVE i2 \in 1 .. l.n
    BY <2>2 DEF Preceder
  <2>3. 0 \notin 1 .. l.n
    BY DEF IsList
  <2> HIDE DEF i1, i2
  <2> QED BY <2>1, <2>2, <2>3
<1> HIDE DEF all, i1, i2
<1>4. /\ blk.len \in Nat /\ blk.start \in Nat /\ Stop(blk) = blk.start + blk.len
      /\ blk.start < Stop(blk) /\ Stop(blk) \in Nat
  BY WordsOfBlocks DEF Stop
<1>5. \A x \in 1 .. l.n : /\ l.b[x].len \in Nat /\ l.b[x].start \in Nat
                          /\ Stop(l.b[x]) = l.b[x].start + l.b[x].len
                          /\ l.b[x].start < Stop(l.b[x]) /\ Stop(l.b[x]) \in Nat
  <2> SUFFICES ASSUME NEW x \in 1 .. l.n
               PROVE  /\ l.b[x].len \in Nat /\ l.b[x].start \in Nat
                      /\ Stop(l.b[x]) = l.b[x].start + l.b[x].len
                      /\ l.b[x].start < Stop(l.b[x]) /\ Stop(l.b[x]) \in Nat
    OBVIOUS
  <2>1. l.b[x] \in Block
    BY DEF IsList
  <2> QED BY <2>1, WordsOfBlocks DEF Stop
<1>6. all.start = lo /\ Stop(all) = hi /\ lo \in Nat /\ hi \in Nat
      /\ lo =< blk.start /\ Stop(blk) =< hi
  BY MergedSpan DEF all, i1, i2
<1>7. Words(all) \subseteq Words(blk) \cup FreeWords(l)
  <2> SUFFICES ASSUME NEW w \in Words(all), w \notin Words(blk)
               PROVE  w \in FreeWords(l)
    OBVIOUS
  <2>1. w \in Int /\ lo =< w /\ w < hi
    BY <1>6 DEF Words
  <2>2. w < blk.start \/ Stop(blk) =< w
    BY <1>4, <2>1 DEF Words
  <2>3. CASE w < blk.start
    <3>1. i2 # 0
      BY <1>4, <2>1, <2>3
    <3>2. i2 \in 1 .. l.n /\ l.b[i2].start =< w /\ w < Stop(l.b[i2])
      BY <1>1, <2>1, <2>3, <3>1
    <3>3. w \in Words(l.b[i2])
      BY <1>5, <2>1, <3>2 DEF Words
    <3> QED BY <3>2, <3>3 DEF FreeWords
  <2>4. CASE Stop(blk) =< w
    <3>1. i1 # 0
      BY <1>4, <2>1, <2>4
    <3>2. i1 \in 1 .. l.n /\ l.b[i1].start =< w /\ w < Stop(l.b[i1])
      BY <1>1, <2>1, <2>4, <3>1
    <3>3. w \in Words(l.b[i1])
      BY <1>5, <2>1, <3>2 DEF Words
    <3> QED BY <3>2, <3>3 DEF FreeWords
  <2> QED BY <2>2, <2>3, <2>4
<1>8. ASSUME NEW x \in 1 .. l.n, x \notin {i1, i2}
      PROVE  Stop(l.b[x]) < all.start \/ Stop(all) < l.b[x].start
  <2>1. Words(l.b[x]) \cap Words(blk) = {}
    BY DEF FreeWords
  <2>2. Stop(l.b[x]) =< blk.start \/ Stop(blk) =< l.b[x].start
    <3>1. l.b[x] \in Block
      BY DEF IsList
    <3> QED BY <2>1, <3>1, WordsOfBlocks
  <2>3. i1 # 0 => \/ Stop(l.b[x]) < l.b[i1].start
                  \/ Stop(l.b[i1]) < l.b[x].start
    BY <1>1, <1>8 DEF Separate
  <2>4. i2 # 0 => \/ Stop(l.b[x]) < l.b[i2].start
                  \/ Stop(l.b[i2]) < l.b[x].start
    BY <1>1, <1>8 DEF Separate
  <2>5. CASE Stop(l.b[x]) =< blk.start
    <3>1. Stop(l.b[x]) < lo
      BY <1>1, <1>2, <1>4, <1>5, <2>4, <2>5
    <3> QED BY <1>6, <3>1
  <2>6. CASE Stop(blk) =< l.b[x].start
    <3>1. hi < l.b[x].start
      BY <1>1, <1>2, <1>4, <1>5, <2>3, <2>6
    <3> QED BY <1>6, <3>1
  <2> QED BY <2>2, <2>5, <2>6
<1> QED BY <1>7, <1>8 DEF all, i1, i2

\* A block put into a list of separate blocks, apart from all of them.
LEMMA InsertWords ==
  ASSUME NEW max \in Nat \ {0}, NEW l, IsList(l, max), NEW blk \in Block,
         NEW p \in 1 .. max, p =< l.n + 1
  PROVE  /\ FreeWords(Insert(l, p, blk, max)) \subseteq FreeWords(l) \cup Words(blk)
         /\ /\ Separate(l)
            /\ \A x \in 1 .. l.n :
                  Stop(l.b[x]) < blk.start \/ Stop(blk) < l.b[x].start
            => Separate(Insert(l, p, blk, max))
<1> DEFINE m == IF l.n + 1 > max THEN max ELSE l.n + 1
           e == Insert(l, p, blk, max)
           down(i) == IF i < p THEN i ELSE i - 1
<1>1. l.n \in 0 .. max
  BY DEF IsList
<1>2. m \in 1 .. max /\ m =< l.n + 1 /\ p =< m
  BY <1>1
<1>3. e = [n |-> m, b |-> [i \in 1 .. m |->
                IF i < p THEN l.b[i] ELSE IF i = p THEN blk ELSE l.b[i - 1]]]
  BY DEF Insert
<1> HIDE DEF m, e
<1>4. e.n = m /\ \A i \in 1 .. m : e.b[i] = IF i < p THEN l.b[i]
                                            ELSE IF i = p THEN blk ELSE l.b[i - 1]
  BY <1>3
<1>5. \A i \in 1 .. m : /\ i = p => e.b[i] = blk
                        /\ i # p => down(i) \in 1 .. l.n /\ e.b[i] = l.b[down(i)]
  BY <1>1, <1>2, <1>4
<1>6. \A i, j \in 1 .. m : i # j /\ i # p /\ j # p => down(i) # down(j)
  OBVIOUS
<1> HIDE DEF down
<1>7. ASSUME NEW w \in FreeWords(e) PROVE w \in FreeWords(l) \cup Words(blk)
  <2>1. PICK i \in 1 .. m : w \in Words(e.b[i])
    BY <1>4 DEF FreeWords
  <2>2. CASE i = p
    BY <1>5, <2>1, <2>2
  <2>3. CASE i # p
    BY <1>5, <2>1, <2>3 DEF FreeWords
  <2> QED BY <2>2, <2>3
<1>8. ASSUME Separate(l),
             \A x \in 1 .. l.n :
                Stop(l.b[x]) < blk.start \/ Stop(blk) < l.b[x].start
      PROVE  Separate(e)
  <2> SUFFICES ASSUME NEW i \in 1 .. m, NEW j \in 1 .. m, i # j
               PROVE  Stop(e.b[i]) < e.b[j].start \/ Stop(e.b[j]) < e.b[i].start
    BY <1>4 DEF Separate
  <2>1. CASE i = p
    BY <1>5, <1>8, <2>1
  <2>2. CASE j = p
    BY <1>5, <1>8, <2>2
  <2>3. CASE i # p /\ j # p
    BY <1>5, <1>6, <1>8, <2>3 DEF Separate
  <2> QED BY <2>1, <2>2, <2>3
<1> QED BY <1>7, <1>8 DEF e

(***************************************************************************)
(* DM_AFRE: when a block shares no word with the list it is added to, the  *)
(* list still has separate entries, and no words but its own and those of  *)
(* the block.                                                              *)
(***************************************************************************)
THEOREM AddBlockWords ==
  ASSUME NEW max \in Nat \ {0}, NEW l, IsList(l, max), Separate(l),
         NEW blk \in Block, Words(blk) \cap FreeWords(l) = {}
  PROVE  /\ Separate(AddBlock(l, max, blk))
         /\ FreeWords(AddBlock(l, max, blk)) \subseteq FreeWords(l) \cup Words(blk)
<1> DEFINE rest == Unmerged(l, blk)
           all  == Merged(l, blk)
           i1   == Follower(l, Stop(blk))
           i2   == Preceder(l, blk.start)
           loc  == Place(rest, all.len)
<1>1. IsList(rest, max) /\ SubList(rest, l, {i1, i2})
  BY UnmergedList, UnmergedSub
<1>2. all \in Block /\ all.len \in Nat
  BY MergedBlock DEF Block
<1>3. /\ Words(all) \subseteq Words(blk) \cup FreeWords(l)
      /\ \A x \in 1 .. l.n : x \notin {i1, i2} =>
            Stop(l.b[x]) < all.start \/ Stop(all) < l.b[x].start
  BY MergedApart
<1>4. AddBlock(l, max, blk) = IF loc > max THEN rest
                              ELSE Insert(rest, loc, all, max)
  BY DEF AddBlock
<1> HIDE DEF rest, all, i1, i2
<1>5. loc \in 1 .. rest.n + 1 /\ rest.n \in Nat
  BY <1>1, <1>2, PlaceExists DEF IsList
<1>6. Separate(rest) /\ FreeWords(rest) \subseteq FreeWords(l)
  BY <1>1, SubListSeparate
<1>7. \A x \in 1 .. rest.n :
         Stop(rest.b[x]) < all.start \/ Stop(all) < rest.b[x].start
  BY <1>1, <1>3 DEF SubList
<1> HIDE DEF loc
<1>8. CASE loc > max
  BY <1>4, <1>6, <1>8
<1>9. CASE ~(loc > max)
  <2>1. loc \in 1 .. max /\ loc =< rest.n + 1
    BY <1>5, <1>9
  <2>2. /\ FreeWords(Insert(rest, loc, all, max)) \subseteq FreeWords(rest) \cup Words(all)
        /\ Separate(Insert(rest, loc, all, max))
    BY <1>1, <1>2, <1>6, <1>7, <2>1, InsertWords
  <2> QED BY <1>3, <1>4, <1>6, <1>9, <2>2
<1> QED BY <1>8, <1>9

(***************************************************************************)
(* DM_GSPC: the words it takes were free or past the end of the file; they *)
(* are not in the list it leaves, whose words were all free before and     *)
(* whose entries are separate.                                             *)
(***************************************************************************)
THEOREM GetSpaceWords ==
  ASSUME NEW max \in Nat \ {0}, NEW sp,
         sp = [next |-> sp.next, free |-> sp.free],
         sp.next \in Nat \ {0}, IsList(sp.free, max), Separate(sp.free),
         NEW f \in Nat \ {0}, f =< sp.next, Within(sp.free, f, sp.next),
         NEW nword \in Nat \ {0}
  PROVE  LET got   == GetSpace(sp, nword, max)
             taken == [len |-> nword, start |-> GetStart(sp, nword)]
         IN  /\ taken \in Block
             /\ f =< taken.start /\ Stop(taken) =< got.next
             /\ sp.next =< got.next /\ got.next \in Nat
             /\ Words(taken) \subseteq FreeWords(sp.free) \cup (sp.next .. got.next - 1)
             /\ FreeWords(got.free) \subseteq FreeWords(sp.free)
             /\ Words(taken) \cap FreeWords(got.free) = {}
             /\ Separate(got.free)
<1> DEFINE got   == GetSpace(sp, nword, max)
           taken == [len |-> nword, start |-> GetStart(sp, nword)]
<1>1. CASE Fits(sp.free, nword) = {}
  <2>1. got = [next |-> sp.next + nword, free |-> sp.free]
    <3>1. got = [sp EXCEPT !.next = sp.next + nword]
      BY <1>1 DEF GetSpace
    <3> QED BY <3>1
  <2>2. got.next = sp.next + nword /\ got.free = sp.free
    BY <2>1
  <2>3. taken = [len |-> nword, start |-> sp.next]
    BY <1>1 DEF GetStart
  <2> HIDE DEF got, taken
  <2>4. /\ taken \in Block /\ taken.start = sp.next
        /\ Stop(taken) = sp.next + nword
    BY <2>3 DEF Block, Stop
  <2>5. Words(taken) = sp.next .. got.next - 1
    BY <2>2, <2>4 DEF Words
  <2>6. \A w \in FreeWords(sp.free) : w < sp.next
    BY WithinWords
  <2>7. Words(taken) \cap FreeWords(got.free) = {}
    <3> SUFFICES ASSUME NEW w \in Words(taken), w \in FreeWords(sp.free)
                 PROVE  FALSE
      BY <2>2
    <3>1. w \in Int /\ sp.next =< w /\ w < sp.next
      BY <2>2, <2>5, <2>6
    <3> QED BY <3>1
  <2>8. f =< taken.start /\ Stop(taken) =< got.next /\ sp.next =< got.next
        /\ got.next \in Nat
    BY <2>2, <2>4
  <2> QED BY <2>2, <2>4, <2>5, <2>7, <2>8 DEF got, taken
<1>2. CASE Fits(sp.free, nword) # {}
  <2> DEFINE k    == BestFit(sp.free, nword)
             own  == sp.free.b[k]
             left == [len |-> own.len - nword, start |-> own.start + nword]
             rest == Eliminate(sp.free, k)
             new  == IF left.len > 0 THEN AddBlock(rest, max, left) ELSE rest
  <2>1. k \in 1 .. sp.free.n /\ own.len >= nword /\ k \in Nat
    BY <1>2, BestFitExists DEF Fits, IsList
  <2>2. own \in Block
    BY <2>1 DEF IsList
  <2>3. /\ own.start \in Nat \ {0} /\ own.len \in Nat \ {0}
        /\ Stop(own) = own.start + own.len
    BY <2>2 DEF Block, Stop
  <2>4. got = [next |-> sp.next, free |-> new]
    <3>1. got = [sp EXCEPT !.free = new]
      BY <1>2 DEF GetSpace
    <3> HIDE DEF new
    <3> QED BY <3>1
  <2>5. got.next = sp.next /\ got.free = new
    BY <2>4
  <2>6. taken = [len |-> nword, start |-> own.start]
    BY <1>2 DEF GetStart
  <2>7. /\ IsList(rest, max) /\ Separate(rest)
        /\ FreeWords(rest) \subseteq FreeWords(sp.free)
        /\ FreeWords(rest) \cap Words(own) = {}
    <3>1. IsList(rest, max) /\ SubList(rest, sp.free, {k})
      BY <2>1, EliminateList, EliminateSub
    <3>2. Separate(rest) /\ FreeWords(rest) \subseteq FreeWords(sp.free)
      BY <3>1, SubListSeparate
    <3>3. ASSUME NEW w \in FreeWords(rest) PROVE w \notin Words(own)
      <4>1. PICK i \in 1 .. rest.n : w \in Words(rest.b[i])
        BY DEF FreeWords
      <4>2. PICK x \in 1 .. sp.free.n : x # k /\ rest.b[i] = sp.free.b[x]
        BY <3>1 DEF SubList
      <4> QED BY <2>1, <4>1, <4>2, SeparateWords
    <3> QED BY <3>1, <3>2, <3>3
  <2>8. Words(own) \subseteq FreeWords(sp.free)
    BY <2>1 DEF FreeWords
  <2>9. f =< own.start /\ Stop(own) =< sp.next
    BY <2>1 DEF Within
  <2> HIDE DEF k, own, rest, new, got, taken
  <2>10. /\ taken \in Block /\ taken.start = own.start
         /\ Stop(taken) = own.start + nword
    BY <2>3, <2>6 DEF Block, Stop
  <2>11. Words(taken) \subseteq Words(own)
    BY <2>1, <2>3, <2>10 DEF Words
  <2>12. /\ Separate(new) /\ FreeWords(new) \subseteq FreeWords(sp.free)
         /\ Words(taken) \cap FreeWords(new) = {}
    <3>1. CASE left.len > 0
      <4>1. /\ left \in Block /\ left.start = own.start + nword
            /\ Stop(left) = Stop(own)
        BY <2>1, <2>3, <3>1 DEF Block, Stop
      <4>2. Words(left) \subseteq Words(own) /\ Words(left) \cap Words(taken) = {}
        BY <2>1, <2>3, <2>10, <4>1 DEF Words
      <4> HIDE DEF left
      <4>3. Words(left) \cap FreeWords(rest) = {}
        BY <2>7, <4>2
      <4>4. new = AddBlock(rest, max, left)
        BY <3>1 DEF new
      <4>5. /\ Separate(new)
            /\ FreeWords(new) \subseteq FreeWords(rest) \cup Words(left)
        BY <2>7, <4>1, <4>3, <4>4, AddBlockWords
      <4> QED BY <2>7, <2>8, <2>11, <4>2, <4>5
    <3>2. CASE ~(left.len > 0)
      <4>1. new = rest
        BY <3>2 DEF new
      <4> QED BY <2>7, <2>11, <4>1
    <3> QED BY <3>1, <3>2
  <2>13. /\ f =< taken.start /\ Stop(taken) =< got.next
         /\ sp.next =< got.next /\ got.next \in Nat
    BY <2>1, <2>3, <2>5, <2>9, <2>10
  <2> QED BY <2>5, <2>8, <2>10, <2>11, <2>12, <2>13 DEF got, taken
<1> QED BY <1>1, <1>2

-----------------------------------------------------------------------------
(***************************************************************************)
(* What a list loses.  r holds every entry of l but those in K.            *)
(***************************************************************************)
Covers(r, l, K) ==
    \A x \in 1 .. l.n : x \notin K => \E i \in 1 .. r.n : r.b[i] = l.b[x]

\* Elimination of an entry keeps the other words covered.
LEMMA EliminateCovers ==
  ASSUME NEW max \in Nat, NEW l, IsList(l, max), NEW k \in Nat
  PROVE  Covers(Eliminate(l, k), l, {k})
<1> DEFINE e == Eliminate(l, k)
<1>0. l.n \in Nat
  BY DEF IsList
<1>1. CASE k \notin 1 .. l.n
  <2>1. e = l
    BY <1>1 DEF Eliminate
  <2> QED BY <2>1 DEF Covers
<1>2. CASE k \in 1 .. l.n
  <2>1. e = [n |-> l.n - 1,
             b |-> [i \in 1 .. l.n - 1 |-> IF i < k THEN l.b[i] ELSE l.b[i + 1]]]
    BY <1>2 DEF Eliminate
  <2>2. e.n = l.n - 1
    BY <2>1
  <2>3. \A i \in 1 .. e.n : e.b[i] = IF i < k THEN l.b[i] ELSE l.b[i + 1]
    BY <2>1, <2>2
  <2> HIDE DEF e
  <2>4. ASSUME NEW x \in 1 .. l.n, x # k PROVE \E i \in 1 .. e.n : e.b[i] = l.b[x]
    <3>1. CASE x < k
      <4>1. x \in 1 .. e.n /\ e.b[x] = l.b[x]
        BY <1>0, <1>2, <2>2, <2>3, <3>1
      <4> QED BY <4>1
    <3>2. CASE x > k
      <4>1. x - 1 \in 1 .. e.n /\ e.b[x - 1] = l.b[x]
        BY <1>0, <1>2, <2>2, <2>3, <3>2
      <4> QED BY <4>1
    <3> QED BY <1>0, <1>2, <2>4, <3>1, <3>2
  <2>5. Covers(e, l, {k})
    BY <2>4 DEF Covers
  <2> QED BY <2>5 DEF e
<1> QED BY <1>1, <1>2

\* The entries of a list of separate blocks are all different.
LEMMA SeparateDistinct ==
  ASSUME NEW max \in Nat, NEW l, IsList(l, max), Separate(l),
         NEW i \in 1 .. l.n, NEW j \in 1 .. l.n, l.b[i] = l.b[j]
  PROVE  i = j
<1> SUFFICES ASSUME i # j PROVE FALSE
  OBVIOUS
<1>1. l.b[i] \in Block
  BY DEF IsList
<1>2. Stop(l.b[i]) < l.b[i].start
  BY DEF Separate
<1> QED BY <1>1, <1>2, WordsOfBlocks

\* So does elimination of two.
LEMMA EliminateTwoCovers ==
  ASSUME NEW max \in Nat, NEW l, IsList(l, max), Separate(l), NEW k \in 1 .. l.n,
         NEW j \in 0 .. k - 1
  PROVE  /\ Covers(Eliminate(Eliminate(l, k), j), l, {j, k})
         /\ Eliminate(Eliminate(l, k), j).n < l.n
<1> DEFINE d == Eliminate(l, k)
           e == Eliminate(d, j)
<1>1. l.n \in Nat /\ k \in Nat /\ j \in Nat
  BY DEF IsList
<1>2. /\ IsList(d, max) /\ d.n = l.n - 1 /\ Covers(d, l, {k})
      /\ \A i \in 1 .. d.n : i < k => i \in 1 .. l.n /\ d.b[i] = l.b[i]
  BY <1>1, EliminateList, EliminateSub, EliminateCovers
<1> HIDE DEF d
<1>3. Covers(e, d, {j}) /\ (j \in 1 .. d.n => e.n = d.n - 1)
  BY <1>1, <1>2, EliminateList, EliminateCovers
<1>4. j \notin 1 .. d.n => e = d
  BY DEF Eliminate
<1>5. e.n < l.n
  BY <1>1, <1>2, <1>3, <1>4
<1> HIDE DEF e
<1>6. ASSUME NEW x \in 1 .. l.n, x # j, x # k
      PROVE  \E i \in 1 .. e.n : e.b[i] = l.b[x]
  <2>1. PICK y \in 1 .. d.n : d.b[y] = l.b[x]
    BY <1>2, <1>6 DEF Covers
  <2>2. y # j
    <3> SUFFICES ASSUME y = j PROVE FALSE
      OBVIOUS
    <3>1. j \in 1 .. l.n /\ l.b[j] = l.b[x]
      BY <1>1, <1>2, <2>1
    <3> QED BY <1>6, <3>1, SeparateDistinct
  <2>3. PICK i \in 1 .. e.n : e.b[i] = d.b[y]
    BY <1>3, <2>2 DEF Covers
  <2> QED BY <2>1, <2>3
<1> QED BY <1>5, <1>6 DEF Covers, e, d

\* Unmerged keeps every entry but the neighbours, and is shorter when the block
\* has one.
LEMMA UnmergedCovers ==
  ASSUME NEW max \in Nat, NEW l, IsList(l, max), Separate(l), NEW blk \in Block,
         NEW i1, NEW i2, i1 = Follower(l, Stop(blk)), i2 = Preceder(l, blk.start)
  PROVE  /\ Covers(Unmerged(l, blk), l, {i1, i2})
         /\ \/ Unmerged(l, blk).n < l.n
            \/ Unmerged(l, blk) = l /\ i1 = 0 /\ i2 = 0
<1>1. /\ i1 = 0 \/ (i1 \in 1 .. l.n /\ l.b[i1].start = Stop(blk))
      /\ i2 = 0 \/ (i2 \in 1 .. l.n /\ Stop(l.b[i2]) = blk.start)
  BY Neighbours
<1>2. Unmerged(l, blk) = IF i1 < i2 THEN Eliminate(Eliminate(l, i2), i1)
                         ELSE IF i2 < i1 THEN Eliminate(Eliminate(l, i1), i2)
                         ELSE l
  BY DEF Unmerged
<1>3. l.n \in Nat /\ \A i \in 1 .. l.n : l.b[i] \in Block
  BY DEF IsList
<1>4. CASE i1 < i2
  <2>1. i2 \in 1 .. l.n /\ i1 \in 0 .. i2 - 1
    BY <1>1, <1>3, <1>4
  <2> QED BY <1>2, <1>4, <2>1, EliminateTwoCovers
<1>5. CASE i2 < i1
  <2>1. i1 \in 1 .. l.n /\ i2 \in 0 .. i1 - 1 /\ ~(i1 < i2)
    BY <1>1, <1>3, <1>5
  <2>2. {i1, i2} = {i2, i1}
    OBVIOUS
  <2>3. /\ Covers(Eliminate(Eliminate(l, i1), i2), l, {i2, i1})
        /\ Eliminate(Eliminate(l, i1), i2).n < l.n
    BY <2>1, EliminateTwoCovers
  <2> QED BY <1>2, <1>5, <2>1, <2>2, <2>3
<1>6. CASE ~(i1 < i2) /\ ~(i2 < i1)
  <2>1. i1 = i2
    BY <1>1, <1>3, <1>6
  <2>2. i1 = 0
    <3> SUFFICES ASSUME i1 # 0 PROVE FALSE
      OBVIOUS
    <3>1. l.b[i1] \in Block /\ l.b[i1].start = Stop(blk) /\ Stop(l.b[i1]) = blk.start
      BY <1>1, <1>3, <2>1
    <3>2. l.b[i1].start < Stop(l.b[i1]) /\ blk.start < Stop(blk)
          /\ blk.start \in Nat /\ Stop(blk) \in Nat
      BY <3>1, WordsOfBlocks
    <3> QED BY <3>1, <3>2
  <2>3. Unmerged(l, blk) = l
    BY <1>2, <1>6
  <2> QED BY <2>1, <2>2, <2>3 DEF Covers
<1> QED BY <1>4, <1>5, <1>6

\* The words of a list, but for those of the entries that are gone.
LEMMA CoversWords ==
  ASSUME NEW l, NEW r, NEW K, Covers(r, l, K), NEW w \in FreeWords(l)
  PROVE  w \in FreeWords(r) \/ \E x \in K : x \in 1 .. l.n /\ w \in Words(l.b[x])
<1>1. PICK x \in 1 .. l.n : w \in Words(l.b[x])
  BY DEF FreeWords
<1>2. CASE x \in K
  BY <1>1, <1>2
<1>3. CASE x \notin K
  <2>1. PICK i \in 1 .. r.n : r.b[i] = l.b[x]
    BY <1>3 DEF Covers
  <2> QED BY <1>1, <2>1 DEF FreeWords
<1> QED BY <1>2, <1>3

\* A block inserted where there is room loses no word; in a full list the last
\* entry makes room.
LEMMA InsertCovers ==
  ASSUME NEW max \in Nat \ {0}, NEW l, IsList(l, max), NEW blk \in Block,
         NEW p \in 1 .. max, p =< l.n + 1
  PROVE  /\ Words(blk) \subseteq FreeWords(Insert(l, p, blk, max))
         /\ Covers(Insert(l, p, blk, max), l, IF l.n = max THEN {max} ELSE {})
<1> DEFINE m == IF l.n + 1 > max THEN max ELSE l.n + 1
           e == Insert(l, p, blk, max)
<1>1. l.n \in 0 .. max
  BY DEF IsList
<1>2. m \in 1 .. max /\ p =< m /\ (l.n # max => m = l.n + 1) /\ (l.n = max => m = max)
  BY <1>1
<1>3. e = [n |-> m, b |-> [i \in 1 .. m |->
                IF i < p THEN l.b[i] ELSE IF i = p THEN blk ELSE l.b[i - 1]]]
  BY DEF Insert
<1> HIDE DEF m, e
<1>4. e.n = m /\ \A i \in 1 .. m : e.b[i] = IF i < p THEN l.b[i]
                                            ELSE IF i = p THEN blk ELSE l.b[i - 1]
  BY <1>3
<1>5. Words(blk) \subseteq FreeWords(e)
  <2>1. p \in 1 .. m /\ e.b[p] = blk
    BY <1>2, <1>4
  <2> QED BY <1>4, <2>1 DEF FreeWords
<1>6. ASSUME NEW x \in 1 .. l.n, x \notin (IF l.n = max THEN {max} ELSE {})
      PROVE  \E i \in 1 .. e.n : e.b[i] = l.b[x]
  <2>1. x + 1 =< m
    BY <1>1, <1>2, <1>6
  <2>2. CASE x < p
    <3>1. x \in 1 .. m /\ e.b[x] = l.b[x]
      BY <1>1, <1>2, <1>4, <2>1, <2>2
    <3> QED BY <1>4, <3>1
  <2>3. CASE ~(x < p)
    <3>1. x + 1 \in 1 .. m /\ e.b[x + 1] = l.b[x]
      BY <1>1, <1>2, <1>4, <2>1, <2>3
    <3> QED BY <1>4, <3>1
  <2> QED BY <2>2, <2>3
<1> QED BY <1>5, <1>6 DEF Covers, e

\* The words of a block are as many as it is long.
LEMMA WordsCount ==
  ASSUME NEW blk \in Block
  PROVE  IsFiniteSet(Words(blk)) /\ Cardinality(Words(blk)) = blk.len
<1>1. blk.start \in Nat /\ blk.len \in Nat \ {0}
  BY DEF Block
<1>2. Words(blk) = blk.start .. blk.start + blk.len - 1
  BY <1>1 DEF Words, Stop
<1>3. blk.start + blk.len - 1 \in Int /\ blk.start \in Int
  BY <1>1
<1>4. /\ IsFiniteSet(blk.start .. blk.start + blk.len - 1)
      /\ Cardinality(blk.start .. blk.start + blk.len - 1) =
            IF blk.start > blk.start + blk.len - 1 THEN 0
            ELSE (blk.start + blk.len - 1) - blk.start + 1
  BY <1>3, FS_Interval
<1>5. IsFiniteSet(Words(blk))
  BY <1>2, <1>4
<1>6. Cardinality(Words(blk)) = IF blk.start > blk.start + blk.len - 1 THEN 0
            ELSE (blk.start + blk.len - 1) - blk.start + 1
  BY <1>2, <1>4
<1> QED BY <1>1, <1>5, <1>6

(***************************************************************************)
(* DM_AFRE: words are lost only from a full list, and then those of one    *)
(* block, no longer than any entry that was in the list.                   *)
(***************************************************************************)
THEOREM AddBlockLoses ==
  ASSUME NEW max \in Nat \ {0}, NEW l, IsList(l, max), Sorted(l), Separate(l),
         NEW blk \in Block, Words(blk) \cap FreeWords(l) = {}
  PROVE  \/ FreeWords(l) \cup Words(blk) \subseteq FreeWords(AddBlock(l, max, blk))
         \/ /\ l.n = max
            /\ \E b \in Block :
                  /\ (FreeWords(l) \cup Words(blk))
                        \ FreeWords(AddBlock(l, max, blk)) \subseteq Words(b)
                  /\ \A i \in 1 .. l.n : b.len =< l.b[i].len
<1> DEFINE rest == Unmerged(l, blk)
           all  == Merged(l, blk)
           i1   == Follower(l, Stop(blk))
           i2   == Preceder(l, blk.start)
           loc  == Place(rest, all.len)
           new  == AddBlock(l, max, blk)
           lo   == IF i2 = 0 THEN blk.start ELSE l.b[i2].start
           hi   == IF i1 = 0 THEN Stop(blk) ELSE Stop(l.b[i1])
<1>1. /\ IsList(rest, max) /\ Covers(rest, l, {i1, i2})
      /\ rest.n < l.n \/ (rest = l /\ i1 = 0 /\ i2 = 0)
  BY UnmergedList, UnmergedCovers
<1>2. all \in Block /\ all.len \in Nat
  BY MergedBlock DEF Block
<1>3. /\ all.start = lo /\ Stop(all) = hi /\ lo \in Nat /\ hi \in Nat
      /\ lo =< blk.start /\ Stop(blk) =< hi
  BY MergedSpan
<1>4. new = IF loc > max THEN rest ELSE Insert(rest, loc, all, max)
  BY DEF AddBlock
<1>5. /\ i1 = 0 \/ (i1 \in 1 .. l.n /\ l.b[i1].start = Stop(blk))
      /\ i2 = 0 \/ (i2 \in 1 .. l.n /\ Stop(l.b[i2]) = blk.start)
  BY Neighbours
<1> HIDE DEF rest, all, i1, i2
<1>6. /\ loc \in 1 .. rest.n + 1
      /\ \A i \in 1 .. loc - 1 : rest.b[i].len >= all.len
      /\ loc =< rest.n => rest.b[loc].len < all.len
  BY <1>1, <1>2, PlaceExists
<1>7. rest.n \in 0 .. max /\ l.n \in 0 .. max
  BY <1>1 DEF IsList
<1>8. FreeWords(l) \cup Words(blk) \subseteq FreeWords(rest) \cup Words(all)
  <2>0. /\ blk.start \in Nat /\ Stop(blk) \in Nat /\ blk.start < Stop(blk)
    BY WordsOfBlocks
  <2>1. Words(blk) \subseteq Words(all)
    BY <1>3, <2>0 DEF Words
  <2>2. i1 \in 1 .. l.n => Words(l.b[i1]) \subseteq Words(all)
    <3> SUFFICES ASSUME i1 \in 1 .. l.n PROVE Words(l.b[i1]) \subseteq Words(all)
      OBVIOUS
    <3>1. i1 # 0 /\ l.b[i1].start = Stop(blk) /\ hi = Stop(l.b[i1])
      BY <1>5, <1>7
    <3> QED BY <1>3, <2>0, <3>1 DEF Words
  <2>3. i2 \in 1 .. l.n => Words(l.b[i2]) \subseteq Words(all)
    <3> SUFFICES ASSUME i2 \in 1 .. l.n PROVE Words(l.b[i2]) \subseteq Words(all)
      OBVIOUS
    <3>1. i2 # 0 /\ Stop(l.b[i2]) = blk.start /\ lo = l.b[i2].start
      BY <1>5, <1>7
    <3> QED BY <1>3, <2>0, <3>1 DEF Words
  <2>4. ASSUME NEW w \in FreeWords(l) PROVE w \in FreeWords(rest) \cup Words(all)
    BY <1>1, <2>2, <2>3, CoversWords
  <2> QED BY <2>1, <2>4
<1> HIDE DEF loc, new, lo, hi
<1>9. CASE rest.n < max
  <2>1. loc \in 1 .. max /\ loc =< rest.n + 1 /\ new = Insert(rest, loc, all, max)
    BY <1>4, <1>6, <1>7, <1>9
  <2>2. Words(all) \subseteq FreeWords(new) /\ Covers(new, rest, {})
    <3>1. /\ Words(all) \subseteq FreeWords(Insert(rest, loc, all, max))
          /\ Covers(Insert(rest, loc, all, max), rest,
                    IF rest.n = max THEN {max} ELSE {})
      BY <1>1, <1>2, <2>1, InsertCovers
    <3>2. rest.n # max
      BY <1>7, <1>9
    <3> QED BY <2>1, <3>1, <3>2
  <2>3. \A w \in FreeWords(rest) : w \in FreeWords(new)
    BY <2>2, CoversWords
  <2> QED BY <1>8, <2>2, <2>3 DEF new
<1>10. CASE ~(rest.n < max)
  <2>1. rest = l /\ l.n = max /\ i1 = 0 /\ i2 = 0
    BY <1>1, <1>7, <1>10
  <2>2. all.start = blk.start /\ Stop(all) = Stop(blk) /\ all.len = blk.len
    <3>1. all.start = blk.start /\ Stop(all) = Stop(blk)
      BY <1>3, <2>1 DEF lo, hi
    <3> QED BY <1>2, <3>1 DEF Stop, Block
  <2>3. Words(all) = Words(blk)
    BY <2>2 DEF Words
  <2>4. \A i \in 1 .. l.n : l.b[i] \in Block /\ l.b[i].len \in Nat
    BY DEF IsList, Block
  <2>5. CASE loc > max
    <3>1. new = l /\ loc = l.n + 1
      BY <1>4, <1>6, <1>7, <2>1, <2>5
    <3>2. \A i \in 1 .. l.n : blk.len =< l.b[i].len
      <4> SUFFICES ASSUME NEW i \in 1 .. l.n PROVE blk.len =< l.b[i].len
        OBVIOUS
      <4>1. i \in 1 .. loc - 1
        BY <1>7, <3>1
      <4> QED BY <1>2, <1>6, <2>1, <2>2, <2>4, <4>1
    <3> QED BY <2>1, <3>1, <3>2 DEF new
  <2>6. CASE ~(loc > max)
    <3>1. loc \in 1 .. max /\ loc =< l.n + 1 /\ new = Insert(l, loc, all, max)
      BY <1>4, <1>6, <1>7, <2>1, <2>6
    <3>2. Words(all) \subseteq FreeWords(new) /\ Covers(new, l, {max})
      BY <1>2, <2>1, <3>1, InsertCovers
    <3>3. max \in 1 .. l.n /\ l.b[max] \in Block
      BY <2>1, <2>4
    <3>4. (FreeWords(l) \cup Words(blk)) \ FreeWords(new) \subseteq Words(l.b[max])
      BY <2>3, <3>2, CoversWords
    <3>5. \A i \in 1 .. l.n : l.b[max].len =< l.b[i].len
      <4> SUFFICES ASSUME NEW i \in 1 .. l.n PROVE l.b[max].len =< l.b[i].len
        OBVIOUS
      <4>1. CASE i = max
        BY <2>4, <3>3, <4>1
      <4>2. CASE i # max
        BY <1>7, <2>1, <3>3, <4>2 DEF Sorted
      <4> QED BY <4>1, <4>2
    <3> QED BY <2>1, <3>3, <3>4, <3>5 DEF new
  <2> QED BY <2>5, <2>6
<1> QED BY <1>7, <1>9, <1>10

(***************************************************************************)
(* DM_GSPC loses nothing: the words that were free still are, or it took   *)
(* them.                                                                   *)
(***************************************************************************)
THEOREM GetSpaceLoses ==
  ASSUME NEW max \in Nat \ {0}, NEW sp,
         sp = [next |-> sp.next, free |-> sp.free],
         sp.next \in Nat \ {0}, IsList(sp.free, max), Sorted(sp.free),
         Separate(sp.free), NEW nword \in Nat \ {0}
  PROVE  FreeWords(sp.free) \subseteq
            FreeWords(GetSpace(sp, nword, max).free)
               \cup Words([len |-> nword, start |-> GetStart(sp, nword)])
<1> DEFINE got   == GetSpace(sp, nword, max)
           taken == [len |-> nword, start |-> GetStart(sp, nword)]
<1>1. CASE Fits(sp.free, nword) = {}
  <2>1. got = [sp EXCEPT !.next = sp.next + nword]
    BY <1>1 DEF GetSpace
  <2> HIDE DEF got
  <2>2. got = [next |-> sp.next + nword, free |-> sp.free]
    BY <2>1
  <2>3. got.free = sp.free
    BY <2>2
  <2> QED BY <2>3 DEF got
<1>2. CASE Fits(sp.free, nword) # {}
  <2> DEFINE k    == BestFit(sp.free, nword)
             own  == sp.free.b[k]
             left == [len |-> own.len - nword, start |-> own.start + nword]
             rest == Eliminate(sp.free, k)
             new  == IF left.len > 0 THEN AddBlock(rest, max, left) ELSE rest
  <2>1. k \in 1 .. sp.free.n /\ own.len >= nword /\ k \in Nat
    BY <1>2, BestFitExists DEF Fits, IsList
  <2>2. own \in Block
    BY <2>1 DEF IsList
  <2>3. /\ own.start \in Nat \ {0} /\ own.len \in Nat \ {0}
        /\ Stop(own) = own.start + own.len
    BY <2>2 DEF Block, Stop
  <2>4. got = [sp EXCEPT !.free = new]
    BY <1>2 DEF GetSpace
  <2>5. taken = [len |-> nword, start |-> own.start]
    BY <1>2 DEF GetStart
  <2>6. /\ IsList(rest, max) /\ Sorted(rest) /\ rest.n = sp.free.n - 1
        /\ SubList(rest, sp.free, {k}) /\ Covers(rest, sp.free, {k})
    BY <2>1, EliminateList, EliminateSub, EliminateCovers
  <2>7. Separate(rest) /\ FreeWords(rest) \cap Words(own) = {}
    <3>1. Separate(rest)
      BY <2>6, SubListSeparate
    <3>2. ASSUME NEW w \in FreeWords(rest) PROVE w \notin Words(own)
      <4>1. PICK i \in 1 .. rest.n : w \in Words(rest.b[i])
        BY DEF FreeWords
      <4>2. PICK x \in 1 .. sp.free.n : x # k /\ rest.b[i] = sp.free.b[x]
        BY <2>6 DEF SubList
      <4> QED BY <2>1, <4>1, <4>2, SeparateWords
    <3> QED BY <3>1, <3>2
  <2>8. \A w \in FreeWords(sp.free) : w \in FreeWords(rest) \cup Words(own)
    BY <2>6, CoversWords
  <2>9. rest.n # max
    BY <2>6 DEF IsList
  <2> HIDE DEF k, own, rest, new, got, taken
  <2>10. got = [next |-> sp.next, free |-> new]
    BY <2>4
  <2>11. got.free = new
    BY <2>10
  <2>12. /\ \A w \in Words(own) : w \in Words(taken) \/ w \in Words(left)
         /\ Words(left) \subseteq Words(own)
    <3>1. taken.start = own.start /\ Stop(taken) = own.start + nword
      BY <2>5 DEF Stop
    <3>2. left.start = own.start + nword /\ Stop(left) = Stop(own)
      BY <2>3 DEF Stop
    <3> HIDE DEF left
    <3> QED BY <2>1, <2>3, <3>1, <3>2 DEF Words
  <2>13. CASE left.len > 0
    <3>1. left \in Block
      BY <2>1, <2>3, <2>13 DEF Block
    <3> HIDE DEF left
    <3>2. new = AddBlock(rest, max, left)
      BY <2>13 DEF new
    <3>3. FreeWords(rest) \cup Words(left) \subseteq FreeWords(new)
      BY <2>6, <2>7, <2>9, <2>12, <3>1, <3>2, AddBlockLoses
    <3> QED BY <2>8, <2>11, <2>12, <3>3 DEF got, taken
  <2>14. CASE ~(left.len > 0)
    <3>1. new = rest
      BY <2>14 DEF new
    <3>2. Words(left) = {}
      BY <2>1, <2>3, <2>14 DEF Words, Stop
    <3> QED BY <2>8, <2>11, <2>12, <3>1, <3>2 DEF got, taken
  <2> QED BY <2>13, <2>14
<1> QED BY <1>1, <1>2

=============================================================================

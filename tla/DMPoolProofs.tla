----------------------------- MODULE DMPoolProofs -----------------------------
(***************************************************************************)
(* Theorems about DMPool, for files of any size, blocks of any lengths and *)
(* any order of allocations and frees: with a list that has room for every *)
(* run of unused words there can be, the list is those runs.               *)
(***************************************************************************)
EXTENDS DMPool, DMSpaceProofs

(***************************************************************************)
(* The invariant: blocks in use and blocks in the list are apart, and      *)
(* together they are the words below kpnext.                               *)
(***************************************************************************)
SpaceOK ==
    /\ sp = [next |-> sp.next, free |-> sp.free]
    /\ sp.next \in Nat /\ First =< sp.next
    /\ sp.next = First \/ sp.next =< MaxWord + 1
    /\ IsList(sp.free, MaxFree)
    /\ Sorted(sp.free) /\ Separate(sp.free) /\ Within(sp.free, First, sp.next)

LiveOK ==
    /\ live \subseteq Block
    /\ \A a, b \in live : a # b => Words(a) \cap Words(b) = {}

Partition ==
    /\ Used \cap FreeWords(sp.free) = {}
    /\ Used \cup FreeWords(sp.free) = First .. sp.next - 1

PoolInv == SpaceOK /\ LiveOK /\ Partition

-----------------------------------------------------------------------------
\* Entries that do not touch are no more than the words they lie among.
LEMMA ListShort ==
  ASSUME NEW max \in Nat, NEW l, IsList(l, max), Separate(l),
         NEW f \in Nat, NEW n \in Nat, f =< n, Within(l, f, n)
  PROVE  l.n =< n - f
<1> DEFINE starts == [i \in 1 .. l.n |-> l.b[i].start]
<1>1. l.n \in Nat /\ \A i \in 1 .. l.n : l.b[i] \in Block
  BY DEF IsList
<1>2. \A i \in 1 .. l.n : /\ l.b[i].start \in Nat /\ Stop(l.b[i]) \in Nat
                          /\ l.b[i].start < Stop(l.b[i])
  BY <1>1, WordsOfBlocks
<1>3. \A i \in 1 .. l.n : l.b[i].start \in f .. n - 1
  BY <1>2 DEF Within
<1>4. \A i, j \in 1 .. l.n : l.b[i].start = l.b[j].start => i = j
  BY <1>2 DEF Separate
<1>5. starts \in [1 .. l.n -> f .. n - 1]
  BY <1>3
<1>6. \A i, j \in 1 .. l.n : starts[i] = starts[j] => i = j
  BY <1>4
<1> HIDE DEF starts
<1>7. starts \in Injection(1 .. l.n, f .. n - 1)
  BY <1>5, <1>6 DEF Injection, IsInjective
<1>8. /\ IsFiniteSet(f .. n - 1)
      /\ Cardinality(f .. n - 1) = IF f > n - 1 THEN 0 ELSE (n - 1) - f + 1
      /\ Cardinality(1 .. l.n) = IF 1 > l.n THEN 0 ELSE l.n - 1 + 1
  <2>1. f \in Int /\ n - 1 \in Int /\ 1 \in Int /\ l.n \in Int
    BY <1>1
  <2>2. /\ IsFiniteSet(f .. n - 1)
        /\ Cardinality(f .. n - 1) = IF f > n - 1 THEN 0 ELSE (n - 1) - f + 1
    BY <2>1, FS_Interval
  <2>3. Cardinality(1 .. l.n) = IF 1 > l.n THEN 0 ELSE l.n - 1 + 1
    BY <2>1, FS_Interval
  <2> QED BY <2>2, <2>3
<1>9. Cardinality(1 .. l.n) =< Cardinality(f .. n - 1)
  BY <1>7, <1>8, FS_Injection
<1> QED BY <1>1, <1>8, <1>9

\* The constants, and what the invariant says of them.
LEMMA PoolFacts ==
  ASSUME SpaceOK
  PROVE  /\ MaxFree \in Nat \ {0} /\ MaxWord \in Nat
         /\ First \in Nat \ {0} /\ sp.next \in Nat \ {0}
         /\ sp.free.n < MaxFree
<1>1. /\ MaxFree \in Nat \ {0} /\ MaxWord \in Nat /\ First \in Nat \ {0}
      /\ MaxFree > MaxWord - First + 1
  BY DMPoolAssumption
<1>2. sp.next \in Nat \ {0} /\ First =< sp.next
  BY <1>1 DEF SpaceOK
<1>3. sp.free.n =< sp.next - First
  BY <1>1, <1>2, ListShort DEF SpaceOK
<1>4. sp.free.n \in Nat
  BY DEF SpaceOK, IsList
<1> QED BY <1>1, <1>2, <1>3, <1>4 DEF SpaceOK

\* A list with room loses nothing.
LEMMA AddBlockExact ==
  ASSUME NEW max \in Nat \ {0}, NEW l, IsList(l, max), Sorted(l), Separate(l),
         l.n < max, NEW blk \in Block, Words(blk) \cap FreeWords(l) = {}
  PROVE  /\ FreeWords(AddBlock(l, max, blk)) = FreeWords(l) \cup Words(blk)
         /\ IsList(AddBlock(l, max, blk), max)
         /\ Sorted(AddBlock(l, max, blk)) /\ Separate(AddBlock(l, max, blk))
<1>1. l.n # max
  BY DEF IsList
<1>2. FreeWords(l) \cup Words(blk) \subseteq FreeWords(AddBlock(l, max, blk))
  BY <1>1, AddBlockLoses
<1> QED BY <1>2, AddBlockWords, AddBlockList

\* What kpnext becomes.
LEMMA NextWord ==
  ASSUME NEW s, s = [next |-> s.next, free |-> s.free], NEW n, NEW max
  PROVE  GetSpace(s, n, max).next =
            IF Fits(s.free, n) = {} THEN s.next + n ELSE s.next
BY DEF GetSpace

\* A new file has no free block.
LEMMA InitPool == Init => PoolInv
<1> SUFFICES ASSUME Init PROVE PoolInv
  OBVIOUS
<1>1. First \in Nat \ {0} /\ MaxFree \in Nat
  BY DMPoolAssumption
<1>2. NoBlocks.n = 0 /\ IsList(NoBlocks, MaxFree)
  BY <1>1 DEF NoBlocks, IsList
<1>3. Used = {} /\ FreeWords(sp.free) = {}
  BY <1>2 DEF Init, Used, FreeWords
<1>4. sp.next = First /\ sp.free = NoBlocks
  BY DEF Init
<1>5. First .. sp.next - 1 = {}
  BY <1>1, <1>4
<1> QED BY <1>1, <1>2, <1>3, <1>4, <1>5
        DEF PoolInv, SpaceOK, LiveOK, Partition, Init, Sorted, Separate, Within

\* DM_GSPC: the words taken come from the list or from beyond kpnext.
LEMMA TakePool ==
  ASSUME PoolInv, NEW n \in Lens, Take(n)
  PROVE  PoolInv'
<1> DEFINE got   == GetSpace(sp, n, MaxFree)
           taken == [len |-> n, start |-> GetStart(sp, n)]
<1>1. /\ MaxFree \in Nat \ {0} /\ MaxWord \in Nat
      /\ First \in Nat \ {0} /\ sp.next \in Nat \ {0}
      /\ n \in Nat \ {0}
  BY PoolFacts, DMPoolAssumption DEF PoolInv
<1>2. sp' = got /\ live' = live \cup {taken} /\ taken.start + n - 1 =< MaxWord
  BY DEF Take
<1>3. /\ taken \in Block
      /\ First =< taken.start /\ Stop(taken) =< got.next
      /\ sp.next =< got.next /\ got.next \in Nat
      /\ Words(taken) \subseteq FreeWords(sp.free) \cup (sp.next .. got.next - 1)
      /\ FreeWords(got.free) \subseteq FreeWords(sp.free)
      /\ Words(taken) \cap FreeWords(got.free) = {}
      /\ Separate(got.free)
  BY <1>1, GetSpaceWords DEF PoolInv, SpaceOK
<1>4. /\ got = [next |-> got.next, free |-> got.free]
      /\ IsList(got.free, MaxFree) /\ Sorted(got.free)
  BY <1>1, GetSpaceList DEF PoolInv, SpaceOK
<1>5. FreeWords(sp.free) \subseteq FreeWords(got.free) \cup Words(taken)
  BY <1>1, GetSpaceLoses DEF PoolInv, SpaceOK
<1>6. got.next = IF Fits(sp.free, n) = {} THEN sp.next + n ELSE sp.next
  BY NextWord DEF PoolInv, SpaceOK
<1>7. Fits(sp.free, n) = {} => taken.start = sp.next
  BY DEF GetStart
<1>8. Words(taken) = taken.start .. taken.start + n - 1
  <2>1. taken.len = n
    OBVIOUS
  <2>2. taken.start \in Nat
    BY <1>3 DEF Block
  <2> HIDE DEF taken
  <2>3. Words(taken) = taken.start .. taken.start + taken.len - 1
    BY <1>1, <2>1, <2>2 DEF Words, Stop
  <2> QED BY <2>1, <2>3
<1>9. sp.next .. got.next - 1 \subseteq Words(taken)
  BY <1>1, <1>6, <1>7, <1>8
<1>10. got.next = First \/ got.next =< MaxWord + 1
  BY <1>1, <1>2, <1>6, <1>7 DEF PoolInv, SpaceOK
<1> HIDE DEF got, taken
<1>11. FreeWords(sp.free) \subseteq First .. sp.next - 1
       /\ Used \subseteq First .. sp.next - 1
  BY DEF PoolInv, Partition
<1>12. Used \cap Words(taken) = {}
  <2>1. Used \cap (sp.next .. got.next - 1) = {}
    BY <1>1, <1>3, <1>11
  <2> QED BY <1>3, <2>1 DEF PoolInv, Partition
<1>13. Used' = Used \cup Words(taken)
  BY <1>2 DEF Used, Words, Stop
<1>14. Words(taken) \subseteq First .. got.next - 1
  BY <1>1, <1>3, <1>11 DEF PoolInv, SpaceOK
<1>15. Partition'
  <2>1. Used' \cap FreeWords(got.free) = {}
    BY <1>3, <1>12, <1>13 DEF PoolInv, Partition
  <2>2. First .. got.next - 1 = (First .. sp.next - 1) \cup (sp.next .. got.next - 1)
    BY <1>1, <1>3 DEF PoolInv, SpaceOK
  <2>3. Used' \cup FreeWords(got.free) = First .. got.next - 1
    BY <1>3, <1>5, <1>9, <1>11, <1>13, <1>14, <2>2 DEF PoolInv, Partition
  <2> QED BY <1>2, <2>1, <2>3 DEF Partition
<1>16. LiveOK'
  <2>1. \A a \in live : Words(a) \subseteq Used
    BY DEF Used
  <2> QED BY <1>2, <1>3, <1>12, <2>1 DEF PoolInv, LiveOK
<1>17. SpaceOK'
  <2>1. \A w \in FreeWords(got.free) : First =< w /\ w < got.next
    BY <1>1, <1>3, <1>11
  <2>2. Within(got.free, First, got.next)
    BY <1>1, <1>3, <1>4, <2>1, WithinWords
  <2> QED BY <1>1, <1>2, <1>3, <1>4, <1>10, <2>2 DEF PoolInv, SpaceOK
<1> QED BY <1>15, <1>16, <1>17 DEF PoolInv

\* DM_AFRE: the words of the block go from the blocks in use to the list.
LEMMA GivePool ==
  ASSUME PoolInv, NEW blk \in live, Give(blk)
  PROVE  PoolInv'
<1> DEFINE new == AddBlock(sp.free, MaxFree, blk)
<1>1. /\ MaxFree \in Nat \ {0} /\ First \in Nat \ {0} /\ sp.next \in Nat \ {0}
      /\ sp.free.n < MaxFree /\ blk \in Block
  BY PoolFacts DEF PoolInv, LiveOK
<1>2. sp' = [next |-> sp.next, free |-> new] /\ live' = live \ {blk}
  BY DEF Give, PoolInv, SpaceOK
<1>3. Words(blk) \subseteq Used
  BY DEF Used
<1>4. /\ FreeWords(new) = FreeWords(sp.free) \cup Words(blk)
      /\ IsList(new, MaxFree) /\ Sorted(new) /\ Separate(new)
  <2>1. Words(blk) \cap FreeWords(sp.free) = {}
    BY <1>3 DEF PoolInv, Partition
  <2> QED BY <1>1, <2>1, AddBlockExact DEF PoolInv, SpaceOK
<1> HIDE DEF new
<1>5. Used' = Used \ Words(blk)
  <2>1. Used' = UNION {Words(b) : b \in live \ {blk}}
    BY <1>2 DEF Used, Words, Stop
  <2> QED BY <2>1 DEF Used, PoolInv, LiveOK
<1>6. sp'.next = sp.next /\ sp'.free = new
  BY <1>2
<1>7. Partition'
  BY <1>3, <1>4, <1>5, <1>6 DEF PoolInv, Partition
<1>8. LiveOK'
  BY <1>2 DEF PoolInv, LiveOK
<1>9. SpaceOK'
  <2>1. \A w \in FreeWords(new) : First =< w /\ w < sp.next
    BY <1>1, <1>3, <1>4 DEF PoolInv, Partition
  <2>2. Within(new, First, sp.next)
    BY <1>1, <1>4, <2>1, WithinWords
  <2> QED BY <1>1, <1>2, <1>4, <1>6, <2>2 DEF PoolInv, SpaceOK
<1> QED BY <1>7, <1>8, <1>9 DEF PoolInv

\* Every step keeps PoolInv.
LEMMA StepPool == PoolInv /\ [Next]_vars => PoolInv'
<1>1. ASSUME PoolInv, UNCHANGED vars PROVE PoolInv'
  BY <1>1 DEF vars, PoolInv, SpaceOK, LiveOK, Partition, Used
<1> QED BY <1>1, TakePool, GivePool DEF Next

\* PoolInv at all times.
LEMMA SpecPool == Spec => []PoolInv
BY InitPool, StepPool, PTL DEF Spec

(***************************************************************************)
(* Blocks in use do not overlap and lie below kpnext, whatever has been    *)
(* taken and given back in whatever order.                                 *)
(***************************************************************************)
THEOREM InUseApart == Spec => []BlocksApart
<1>1. PoolInv => BlocksApart
  BY DEF PoolInv, LiveOK, Partition, BlocksApart
<1> QED BY <1>1, SpecPool, PTL

-----------------------------------------------------------------------------
Unused == (First .. sp.next - 1) \ Used

\* Under the invariant the unused words are those of the list.
LEMMA UnusedListed ==
  ASSUME PoolInv
  PROVE  Unused = FreeWords(sp.free)
BY DEF PoolInv, Partition, Unused

\* A run of unused words, named.
LEMMA RunOf ==
  ASSUME NEW r
  PROVE  r \in Runs <=> /\ r \in [len : 1 .. MaxWord, start : First .. MaxWord]
                        /\ Words(r) \subseteq Unused
                        /\ r.start - 1 \notin Unused /\ Stop(r) \notin Unused
BY DEF Runs, Unused

\* Every entry is a run: its neighbours belong to no entry.
LEMMA EntryIsRun ==
  ASSUME PoolInv, NEW i \in 1 .. sp.free.n
  PROVE  sp.free.b[i] \in Runs
<1> DEFINE e == sp.free.b[i]
           l == sp.free
<1>1. /\ MaxFree \in Nat \ {0} /\ MaxWord \in Nat
      /\ First \in Nat \ {0} /\ sp.next \in Nat \ {0}
  BY PoolFacts DEF PoolInv
<1>2. \A j \in 1 .. l.n : l.b[j] \in Block
  BY DEF PoolInv, SpaceOK, IsList
<1>3. \A j \in 1 .. l.n :
         /\ l.b[j].start \in Nat /\ l.b[j].len \in Nat \ {0}
         /\ Stop(l.b[j]) = l.b[j].start + l.b[j].len
         /\ First =< l.b[j].start /\ Stop(l.b[j]) =< sp.next
  BY <1>2 DEF PoolInv, SpaceOK, Within, Stop, Block
<1>4. e = [len |-> e.len, start |-> e.start]
  BY <1>2 DEF Block
<1>5. sp.next =< MaxWord + 1
  BY <1>1, <1>3 DEF PoolInv, SpaceOK
<1>6. e \in [len : 1 .. MaxWord, start : First .. MaxWord]
  <2>1. e.len \in 1 .. MaxWord /\ e.start \in First .. MaxWord
    BY <1>1, <1>3, <1>5
  <2> HIDE DEF e
  <2> QED BY <1>4, <2>1
<1>7. Words(e) \subseteq FreeWords(l)
  BY DEF FreeWords
<1>8. \A j \in 1 .. l.n : \A w \in Words(l.b[j]) :
         w \in Nat /\ l.b[j].start =< w /\ w < Stop(l.b[j])
  BY <1>3 DEF Words
<1>9. \A j \in 1 .. l.n : e.start - 1 \notin Words(l.b[j]) /\ Stop(e) \notin Words(l.b[j])
  <2> TAKE j \in 1 .. l.n
  <2>1. CASE j = i
    BY <2>1, <1>3, <1>8
  <2>2. CASE j # i
    <3>1. Stop(e) < l.b[j].start \/ Stop(l.b[j]) < e.start
      BY <2>2 DEF PoolInv, SpaceOK, Separate
    <3> QED BY <3>1, <1>3, <1>8
  <2> QED BY <2>1, <2>2
<1>10. e.start - 1 \notin FreeWords(l) /\ Stop(e) \notin FreeWords(l)
  BY <1>9 DEF FreeWords
<1> HIDE DEF e, l
<1>11. e \in Runs
  BY <1>6, <1>7, <1>10, UnusedListed, RunOf DEF l
<1> QED BY <1>11 DEF e

\* Two runs with a word in common are one run.
LEMMA RunsMeet ==
  ASSUME PoolInv, NEW r \in Runs, NEW q \in Runs, NEW w \in Words(r), w \in Words(q)
  PROVE  r = q
<1>1. First \in Nat \ {0} /\ MaxWord \in Nat
  BY PoolFacts DEF PoolInv
<1>2. /\ r = [len |-> r.len, start |-> r.start] /\ q = [len |-> q.len, start |-> q.start]
      /\ r.len \in Nat \ {0} /\ q.len \in Nat \ {0} /\ r.start \in Nat /\ q.start \in Nat
  BY <1>1, RunOf
<1>3. /\ Words(r) = r.start .. r.start + r.len - 1 /\ Stop(r) = r.start + r.len
      /\ Words(q) = q.start .. q.start + q.len - 1 /\ Stop(q) = q.start + q.len
  BY <1>2 DEF Words, Stop
<1>4. w \in Nat /\ r.start =< w /\ w < r.start + r.len /\ q.start =< w /\ w < q.start + q.len
  BY <1>2, <1>3
<1>5. /\ Words(r) \subseteq Unused /\ r.start - 1 \notin Unused /\ Stop(r) \notin Unused
      /\ Words(q) \subseteq Unused /\ q.start - 1 \notin Unused /\ Stop(q) \notin Unused
  BY RunOf
<1>6. /\ r.start - 1 \notin q.start .. q.start + q.len - 1
      /\ r.start + r.len \notin q.start .. q.start + q.len - 1
      /\ q.start - 1 \notin r.start .. r.start + r.len - 1
      /\ q.start + q.len \notin r.start .. r.start + r.len - 1
  BY <1>3, <1>5
<1>7. r.start = q.start /\ r.len = q.len
  BY <1>2, <1>4, <1>6
<1> QED BY <1>2, <1>7

\* Every run is an entry.
LEMMA RunIsEntry ==
  ASSUME PoolInv, NEW r \in Runs
  PROVE  \E i \in 1 .. sp.free.n : sp.free.b[i] = r
<1>1. First \in Nat \ {0} /\ MaxWord \in Nat
  BY PoolFacts DEF PoolInv
<1>2. r.len \in Nat \ {0} /\ r.start \in Nat
  BY <1>1, RunOf
<1>3. r.start \in Words(r)
  BY <1>2 DEF Words, Stop
<1>4. r.start \in FreeWords(sp.free)
  BY <1>3, RunOf, UnusedListed
<1>5. PICK i \in 1 .. sp.free.n : r.start \in Words(sp.free.b[i])
  BY <1>4 DEF FreeWords
<1>6. sp.free.b[i] \in Runs
  BY EntryIsRun
<1>7. sp.free.b[i] = r
  BY <1>3, <1>5, <1>6, RunsMeet
<1> QED BY <1>7

(***************************************************************************)
(* The free list is the set of the runs of unused words, each listed once. *)
(* With the entries apart it cannot list a run twice, with the list long   *)
(* enough it drops none.                                                   *)
(***************************************************************************)
LEMMA Listed == PoolInv => ListIsRuns
<1> SUFFICES ASSUME PoolInv PROVE ListIsRuns
  OBVIOUS
<1> DEFINE entry == [i \in 1 .. sp.free.n |-> sp.free.b[i]]
<1>1. {sp.free.b[i] : i \in 1 .. sp.free.n} = Runs
  BY EntryIsRun, RunIsEntry
<1>2. sp.free.n \in Nat
  BY DEF PoolInv, SpaceOK, IsList
<1>3. \A i, j \in 1 .. sp.free.n : sp.free.b[i] = sp.free.b[j] => i = j
  <2> TAKE i, j \in 1 .. sp.free.n
  <2>1. IsList(sp.free, MaxFree) /\ Separate(sp.free) /\ MaxFree \in Nat
    BY PoolFacts DEF PoolInv, SpaceOK
  <2> QED BY <2>1, SeparateDistinct
<1>4. entry \in [1 .. sp.free.n -> Runs]
  BY EntryIsRun
<1>5. \A i, j \in 1 .. sp.free.n : entry[i] = entry[j] => i = j
  BY <1>3
<1>6. \A r \in Runs : \E i \in 1 .. sp.free.n : entry[i] = r
  BY RunIsEntry
<1> HIDE DEF entry
<1>7. entry \in Bijection(1 .. sp.free.n, Runs)
  BY <1>4, <1>5, <1>6 DEF Bijection, Injection, Surjection, IsInjective
<1>8. ExistsBijection(1 .. sp.free.n, Runs)
  BY <1>7 DEF ExistsBijection
<1>9. Cardinality(Runs) = sp.free.n
  BY <1>2, <1>8, FS_CountingElements
<1> QED BY <1>1, <1>9 DEF ListIsRuns

(***************************************************************************)
(* In a list with room for every run there can be, the entries are exactly *)
(* the maximal runs of unused words, for any order of takes and gives.     *)
(***************************************************************************)
THEOREM ListIsTheRuns == Spec => []ListIsRuns
BY SpecPool, Listed, PTL

-----------------------------------------------------------------------------
\* The runs with enough words are the entries with enough words.
LEMMA FitRuns ==
  ASSUME PoolInv, NEW n \in Nat
  PROVE  {r \in Runs : r.len >= n} = {sp.free.b[i] : i \in Fits(sp.free, n)}
BY EntryIsRun, RunIsEntry DEF Fits

\* What Take does, by the runs there are.
LEMMA TakeTightest ==
  ASSUME PoolInv, NEW n \in Lens, Take(n), NEW blk \in live' \ live
  PROVE  LET fit == {r \in Runs : r.len >= blk.len}
         IN  IF fit = {} THEN blk.start = sp.next
             ELSE \E r \in fit : /\ r.start = blk.start
                                 /\ \A q \in fit : r.len =< q.len
                                 /\ sp'.next = sp.next
<1> DEFINE fit == {r \in Runs : r.len >= n}
           k   == BestFit(sp.free, n)
<1>1. n \in Nat /\ MaxFree \in Nat
  BY DMPoolAssumption
<1>2. blk = [len |-> n, start |-> GetStart(sp, n)]
  BY DEF Take
<1>3. blk.len = n /\ blk.start = GetStart(sp, n)
  BY <1>2
<1>4. fit = {sp.free.b[i] : i \in Fits(sp.free, n)}
  BY <1>1, FitRuns
<1>5. sp'.next = IF Fits(sp.free, n) = {} THEN sp.next + n ELSE sp.next
  BY NextWord DEF Take, PoolInv, SpaceOK
<1>6. CASE Fits(sp.free, n) = {}
  <2>1. fit = {} /\ blk.start = sp.next
    BY <1>3, <1>4, <1>6 DEF GetStart
  <2> QED BY <1>3, <2>1
<1>7. CASE Fits(sp.free, n) # {}
  <2>1. k \in Fits(sp.free, n)
    BY <1>1, <1>7, BestFitExists DEF PoolInv, SpaceOK
  <2>2. \A j \in 1 .. sp.free.n : sp.free.b[j].len >= n => sp.free.b[k].len =< sp.free.b[j].len
    BY <1>1, <1>7, BestFitSmallest DEF PoolInv, SpaceOK
  <2>3. blk.start = sp.free.b[k].start /\ sp'.next = sp.next
    BY <1>3, <1>5, <1>7 DEF GetStart
  <2> HIDE DEF k
  <2>4. sp.free.b[k] \in fit /\ fit # {}
    BY <1>4, <2>1
  <2>5. \A q \in fit : sp.free.b[k].len =< q.len
    BY <1>4, <2>2 DEF Fits
  <2> HIDE DEF fit
  <2>6. \E r \in fit : /\ r.start = blk.start
                       /\ \A q \in fit : r.len =< q.len
                       /\ sp'.next = sp.next
    BY <2>3, <2>4, <2>5
  <2> QED BY <1>3, <2>4, <2>6 DEF fit
<1> QED BY <1>6, <1>7

(***************************************************************************)
(* Space is taken from the smallest run of unused words that has enough,   *)
(* and kpnext moves only when no run has, in every step of every program   *)
(* of takes and gives.                                                     *)
(***************************************************************************)
THEOREM TakesTheTightest == Spec => TakesTightest
<1>1. ASSUME PoolInv, [Next]_vars
      PROVE  [ \A blk \in live' \ live :
                  LET fit == {r \in Runs : r.len >= blk.len}
                  IN  IF fit = {} THEN blk.start = sp.next
                      ELSE \E r \in fit : /\ r.start = blk.start
                                          /\ \A q \in fit : r.len =< q.len
                                          /\ sp'.next = sp.next
             ]_vars
  <2>1. CASE UNCHANGED vars
    BY <2>1
  <2>2. CASE \E blk \in live : Give(blk)
    <3>1. live' \ live = {}
      BY <2>2 DEF Give
    <3> QED BY <3>1
  <2>3. CASE \E n \in Lens : Take(n)
    <3>1. PICK n \in Lens : Take(n)
      BY <2>3
    <3>2. ASSUME NEW blk \in live' \ live
          PROVE  LET fit == {r \in Runs : r.len >= blk.len}
                 IN  IF fit = {} THEN blk.start = sp.next
                     ELSE \E r \in fit : /\ r.start = blk.start
                                         /\ \A q \in fit : r.len =< q.len
                                         /\ sp'.next = sp.next
      BY <1>1, <3>1, TakeTightest
    <3> QED BY <3>2
  <2> QED BY <1>1, <2>1, <2>2, <2>3 DEF Next
<1> QED BY <1>1, SpecPool, PTL DEF Spec, TakesTightest

=============================================================================

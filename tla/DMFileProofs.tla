---------------------------- MODULE DMFileProofs ----------------------------
(***************************************************************************)
(* Theorems about DMFile, for every number of slots and every size of the  *)
(* lists, of the records and of the data.  Types, the order of the lists   *)
(* and the headers are right whether or not programs die and whether or    *)
(* not data is replaced by data of another length.  What needs every word  *)
(* to have one use holds until a replacement is cut off: SoundUnlessCut    *)
(* says so of files in which both may happen, the theorems after it assume *)
(* that one of them does not.                                              *)
(***************************************************************************)
EXTENDS DMFileCut, DMSpaceProofs

\* The records of the state that the list lemmas do not cover.
LEMMA Types ==
  /\ Word \subseteq Nat \ {0}
  /\ First \in Word
  /\ <<1, 1, 1>> \in Slot
  /\ Idle \in Call
  /\ NoDeletion \in Deletion
  /\ IsList(NoBlocks, MaxFree) /\ IsList(NoBlocks, MaxScratch)
  /\ Sorted(NoBlocks)
<1>1. Word \subseteq Nat \ {0} /\ First \in Word
  BY DMFileAssumption DEF Word
<1>2. <<1, 1, 1>> \in Slot
  BY DMFileAssumption DEF Slot, Row, Col
<1>3. Idle \in Call
  BY <1>2 DEF Idle, Call
<1>4. NoDeletion \in Deletion
  BY DEF NoDeletion, Deletion
<1>5. NoBlocks.n = 0 /\ NoBlocks = [n |-> NoBlocks.n, b |-> NoBlocks.b]
  BY DEF NoBlocks
<1>6. NoBlocks.b \in [1 .. 0 -> Block]
  BY DEF NoBlocks
<1>7. IsList(NoBlocks, MaxFree) /\ IsList(NoBlocks, MaxScratch)
  BY <1>5, <1>6, DMFileAssumption DEF IsList
<1>8. Sorted(NoBlocks)
  BY <1>5 DEF Sorted
<1> QED BY <1>1, <1>2, <1>3, <1>4, <1>7, <1>8

\* The record of a word does not end before it.
LEMMA RecordEndBound ==
  ASSUME NEW w \in Nat \ {0}
  PROVE  RecordEnd(w) \in Nat /\ RecordEnd(w) >= w
<1> DEFINE q == (w - 1) \div RecLen
           r == (w - 1) % RecLen
<1>1. RecLen \in Nat \ {0} /\ w - 1 \in Nat
  BY DMFileAssumption
<1>2. q \in Nat /\ r \in 0 .. RecLen - 1 /\ w - 1 = RecLen * q + r
  BY <1>1
<1>3. RecordEnd(w) = (q + 1) * RecLen
  BY DEF RecordEnd
<1> HIDE DEF q, r
<1>4. (q + 1) * RecLen = RecLen * q + RecLen
  BY <1>1, <1>2
<1>5. RecLen * q \in Nat
  BY <1>1, <1>2
<1> QED BY <1>1, <1>2, <1>3, <1>4, <1>5

-----------------------------------------------------------------------------
(***************************************************************************)
(* The types, and the order of the three lists: what DM_GSPC needs so that *)
(* the last entry that fits is the smallest.                               *)
(***************************************************************************)
InOrder == Sorted(mem.free) /\ Sorted(disk.free) /\ Sorted(scratch)

TypeInv == TypeOK /\ InOrder

\* The space with a block added to its free list is a space.
LEMMA FreedSpace ==
  ASSUME NEW sp, IsSpace(sp), NEW blk \in Block
  PROVE  /\ IsSpace(Freed(sp, blk))
         /\ Freed(sp, blk).next = sp.next
         /\ Sorted(sp.free) => Sorted(Freed(sp, blk).free)
<1> DEFINE new == AddBlock(sp.free, MaxFree, blk)
<1>1. IsList(new, MaxFree) /\ (Sorted(sp.free) => Sorted(new))
  BY AddBlockList, DMFileAssumption DEF IsSpace
<1>2. Freed(sp, blk) = [sp EXCEPT !.free = new]
  BY DEF Freed
<1> HIDE DEF new
<1>3. Freed(sp, blk) = [next |-> sp.next, free |-> new] /\ sp.next \in Nat \ {0}
  BY <1>2 DEF IsSpace
<1>4. Freed(sp, blk).next = sp.next /\ Freed(sp, blk).free = new
  BY <1>3
<1>5. Freed(sp, blk) = [next |-> Freed(sp, blk).next, free |-> Freed(sp, blk).free]
  BY <1>3, <1>4
<1> QED BY <1>1, <1>3, <1>4, <1>5 DEF IsSpace

\* A pointer that is not blank stands for a block.
LEMMA BlockOfType ==
  ASSUME TypeOK, NEW s \in Slot, ptr[s] # 0
  PROVE  BlockOf(s) \in Block /\ ptr[s] \in Word
<1>1. ptr[s] \in Word /\ ptr[s] \in Nat \ {0}
  BY Types DEF TypeOK
<1>2. word[ptr[s]] \in Nat
  BY <1>1 DEF TypeOK
<1> QED BY <1>1, <1>2 DEF BlockOf, Block

\* An empty file has the types and the order.
LEMMA InitTypeInv == Init => TypeInv
<1> SUFFICES ASSUME Init PROVE TypeInv
  OBVIOUS
<1> USE DEF Init
<1>1. IsSpace(mem) /\ IsSpace(disk)
  <2>1. mem.next = First /\ mem.free = NoBlocks
        /\ mem = [next |-> mem.next, free |-> mem.free]
    OBVIOUS
  <2> QED BY <2>1, Types, DMFileAssumption DEF IsSpace
<1>2. ptr \in [Slot -> {0} \cup Word] /\ word \in [Word -> Nat]
  OBVIOUS
<1>3. cur \in Call /\ dels \in Deletion /\ IsList(scratch, MaxScratch)
  BY Types
<1>4. TypeOK
  BY <1>1, <1>2, <1>3 DEF TypeOK, PC
<1>5. InOrder
  BY Types DEF InOrder
<1> QED BY <1>4, <1>5 DEF TypeInv

-----------------------------------------------------------------------------
\* The requests: headers, DM_WDTR and its kin, DM_DDAT and DM_DALL begin.
LEMMA RequestTypeInv == TypeInv /\ Request => TypeInv'
<1> SUFFICES ASSUME TypeInv, Request PROVE TypeInv'
  OBVIOUS
<1> USE DEF TypeInv
<1>1. ASSUME NEW r \in Row, WriteRowHeader(r) PROVE TypeInv'
  BY <1>1 DEF WriteRowHeader, TypeOK, InOrder, space, call, PC, IsSpace
<1>2. ASSUME NEW c \in Col, WriteColHeader(c) PROVE TypeInv'
  BY <1>2 DEF WriteColHeader, TypeOK, InOrder, space, call, PC, IsSpace
<1>3. ASSUME NEW c \in Col, DeleteColHeader(c) PROVE TypeInv'
  BY <1>3 DEF DeleteColHeader, TypeOK, InOrder, space, call, PC, IsSpace
<1>4. ASSUME NEW s \in Slot, NEW n \in Lens, NEW v \in Val, Overwrite(s, n, v)
      PROVE  TypeInv'
  <2> USE <1>4 DEF Overwrite
  <2>1. n \in Nat \ {0} /\ v \in Nat
    BY DMFileAssumption
  <2>2. ptr[s] \in Word /\ ptr[s] \in Nat
    BY <2>1, Types DEF OldLen, TypeOK
  <2>3. ptr[s] + n \in Word
    BY <2>1, <2>2, DMFileAssumption DEF Word
  <2>4. cur' \in Call
    BY <2>1, <2>2 DEF Call
  <2>5. /\ cur'.start = ptr[s] /\ cur'.len = n /\ cur'.at = ptr[s] + 1
    OBVIOUS
  <2>6. TypeOK'
    BY <2>1, <2>2, <2>3, <2>4, <2>5 DEF TypeOK, space, heads, PC, IsSpace
  <2>7. InOrder'
    BY DEF InOrder, space
  <2> QED BY <2>6, <2>7
<1>5. ASSUME NEW s \in Slot, NEW n \in Lens, NEW v \in Val, Allocate(s, n, v)
      PROVE  TypeInv'
  <2> DEFINE sp    == IF OldLen(s) > 0 THEN Freed(mem, BlockOf(s)) ELSE mem
             start == GetStart(sp, n + 1)
             got   == GetSpace(sp, n + 1, MaxFree)
  <2>1. n \in Nat \ {0} /\ v \in Nat
    BY DMFileAssumption
  <2>2. IsSpace(sp) /\ Sorted(sp.free)
    <3>1. ASSUME OldLen(s) > 0 PROVE BlockOf(s) \in Block
      BY <3>1, BlockOfType DEF OldLen
    <3> QED BY <3>1, FreedSpace DEF TypeOK, InOrder
  <2>3. /\ start \in Word /\ start + n =< MaxWord
        /\ mem' = got /\ disk' = got /\ pc' = "length"
        /\ cur' = [slot |-> s, start |-> start, len |-> n, val |-> v,
                   at |-> start + 1]
        /\ UNCHANGED <<ptr, word, heads, dels, scratch>>
    BY <1>5 DEF Allocate
  <2> HIDE DEF sp
  <2>4. IsSpace(got) /\ Sorted(got.free)
    BY <2>1, <2>2, GetSpaceList, DMFileAssumption DEF IsSpace
  <2> HIDE DEF start, got
  <2>5. start \in Nat /\ start + n \in Word
    BY <2>1, <2>3, Types, DMFileAssumption DEF Word
  <2>6. /\ cur' \in Call /\ cur'.start = start /\ cur'.len = n
        /\ cur'.at > cur'.start /\ cur'.at =< cur'.start + cur'.len
    BY <2>1, <2>3, <2>5 DEF Call
  <2>7. TypeOK'
    BY <2>3, <2>4, <2>5, <2>6 DEF TypeOK, heads, PC
  <2>8. InOrder'
    BY <2>3, <2>4 DEF InOrder
  <2> QED BY <2>7, <2>8
<1>6. ASSUME NEW s \in Slot, Unlink(s) PROVE TypeInv'
  <2> USE <1>6 DEF Unlink
  <2>1. ptr[s] \in Word /\ ptr[s] \in Nat /\ word[ptr[s]] \in Nat
    BY Types DEF TypeOK
  <2>2. cur' = [slot |-> s, start |-> ptr[s], len |-> word[ptr[s]], val |-> 0,
                at |-> 0]
    BY DEF Idle
  <2>3. cur' \in Call /\ cur'.start \in Word
    <3> HIDE DEF Unlink
    <3>1. cur'.start = ptr[s]
      BY <2>2
    <3> QED BY <2>1, <2>2, <3>1 DEF Call
  <2>4. ptr' \in [Slot -> {0} \cup Word]
    BY DEF TypeOK
  <2>5. TypeOK'
    BY <2>3, <2>4 DEF TypeOK, space, heads, PC, IsSpace
  <2>6. InOrder'
    BY DEF InOrder, space
  <2> QED BY <2>5, <2>6
<1>7. ASSUME NEW byrow \in BOOLEAN, NEW hdrs \in SUBSET (Row \cup Col),
             DeleteAll(byrow, hdrs)
      PROVE  TypeInv'
  <2> USE <1>7 DEF DeleteAll
  <2>1. dels' \in Deletion
    BY DEF Deletion
  <2>2. TypeOK'
    BY <2>1 DEF TypeOK, space, heads, PC, IsSpace
  <2>3. InOrder'
    BY DEF InOrder, space
  <2> QED BY <2>2, <2>3
<1>8. ASSUME NEW hdrs \in SUBSET rows, DeleteAll(TRUE, hdrs) PROVE TypeInv'
  BY <1>7, <1>8 DEF TypeOK
<1>9. ASSUME NEW hdrs \in SUBSET cols, DeleteAll(FALSE, hdrs) PROVE TypeInv'
  BY <1>7, <1>9 DEF TypeOK
<1> QED BY <1>1, <1>2, <1>3, <1>4, <1>5, <1>6, <1>8, <1>9 DEF Request

-----------------------------------------------------------------------------
\* The steps of a call, and what a program finds that opens the file after one
\* that died.
LEMMA StepTypeInv == TypeInv /\ (Step \/ Crash) => TypeInv'
<1> SUFFICES ASSUME TypeInv, Step \/ Crash PROVE TypeInv'
  OBVIOUS
<1> USE DEF TypeInv
<1>1. ASSUME WriteLength PROVE TypeInv'
  <2> USE <1>1 DEF WriteLength
  <2>1. cur.start \in Word /\ cur.len \in Nat
    BY DEF TypeOK, Call
  <2>2. word' \in [Word -> Nat]
    BY <2>1 DEF TypeOK
  <2>3. cur' = cur /\ cur'.at = cur.at
    BY DEF call
  <2>4. TypeOK'
    BY <2>2 DEF TypeOK, space, heads, call, PC, IsSpace
  <2>5. InOrder'
    BY DEF InOrder, space, call
  <2> QED BY <2>4, <2>5
<1>2. ASSUME WriteBody PROVE TypeInv'
  <2> DEFINE stop == cur.start + cur.len
             end  == RecordEnd(cur.at)
             last == IF end < stop THEN end ELSE stop
  <2>1. /\ pc = "body"
        /\ word' = [w \in Word |-> IF w \in cur.at .. last THEN cur.val
                                   ELSE word[w]]
        /\ pc' = IF last = stop THEN "point" ELSE "body"
        /\ cur' = IF last = stop THEN cur ELSE [cur EXCEPT !.at = last + 1]
        /\ UNCHANGED <<mem, disk, ptr, rows, cols, dels, scratch>>
    BY <1>2 DEF WriteBody, space, heads
  <2>2. /\ cur \in Call /\ cur.start \in Word /\ stop \in Word
        /\ cur.at > cur.start /\ cur.at =< stop
    BY <2>1 DEF TypeOK
  <2>3. /\ cur.start \in Nat /\ cur.len \in Nat /\ cur.val \in Nat
        /\ cur.at \in Nat \ {0}
    BY <2>2 DEF Call
  <2>4. end \in Nat /\ end >= cur.at
    BY <2>3, RecordEndBound
  <2> HIDE DEF end
  <2>5. word' \in [Word -> Nat]
    BY <2>1, <2>3 DEF TypeOK
  <2>6. CASE last = stop
    <3>1. cur' = cur /\ pc' = "point"
      BY <2>1, <2>6
    <3>2. TypeOK'
      BY <2>1, <2>2, <2>5, <3>1 DEF TypeOK, PC, IsSpace
    <3> QED BY <2>1, <3>2 DEF InOrder
  <2>7. CASE last # stop
    <3>1. last = end /\ end < stop
      BY <2>3, <2>4, <2>7
    <3>2. cur' = [cur EXCEPT !.at = last + 1] /\ pc' = "body" /\ last \in Nat
      BY <2>1, <2>4, <2>7, <3>1
    <3>3. /\ cur' \in Call /\ cur'.start = cur.start /\ cur'.len = cur.len
          /\ cur'.at = last + 1
      BY <2>2, <3>2 DEF Call
    <3>4. cur'.at > cur'.start /\ cur'.at =< cur'.start + cur'.len
      BY <2>2, <2>3, <2>4, <3>1, <3>3
    <3>5. TypeOK'
      BY <2>1, <2>2, <2>5, <3>2, <3>3, <3>4 DEF TypeOK, PC, IsSpace
    <3> QED BY <2>1, <3>5 DEF InOrder
  <2> QED BY <2>6, <2>7
<1>3. ASSUME WritePointer PROVE TypeInv'
  <2> USE <1>3 DEF WritePointer
  <2>1. cur.slot \in Slot /\ cur.start \in Word
    BY DEF TypeOK, Call
  <2>2. ptr' \in [Slot -> {0} \cup Word]
    BY <2>1 DEF TypeOK
  <2>3. cur' \in Call
    BY Types
  <2>4. TypeOK'
    BY <2>2, <2>3 DEF TypeOK, space, heads, PC, IsSpace
  <2>5. InOrder'
    BY DEF InOrder, space
  <2> QED BY <2>4, <2>5
<1>4. ASSUME FreeBlock PROVE TypeInv'
  <2> DEFINE blk == [len |-> cur.len + 1, start |-> cur.start]
  <2>1. blk \in Block
    BY <1>4, Types DEF FreeBlock, TypeOK, Call, Block
  <2>2. mem' = Freed(mem, blk) /\ disk' = mem'
    BY <1>4 DEF FreeBlock
  <2>3. IsSpace(mem') /\ Sorted(mem'.free)
    BY <2>1, <2>2, FreedSpace DEF TypeOK, InOrder
  <2>4. IsSpace(disk') /\ Sorted(disk'.free)
    BY <2>2, <2>3
  <2>5. cur' \in Call /\ pc' = "idle"
    BY <1>4, Types DEF FreeBlock
  <2>6. TypeOK'
    BY <1>4, <2>3, <2>4, <2>5 DEF FreeBlock, TypeOK, heads, PC
  <2>7. InOrder'
    BY <1>4, <2>3, <2>4 DEF FreeBlock, InOrder
  <2> QED BY <2>6, <2>7
<1>5. ASSUME UnlinkNext PROVE TypeInv'
  <2>1. PICK s \in Victims :
           /\ ptr' = [ptr EXCEPT ![s] = 0]
           /\ scratch' = AddBlock(scratch, MaxScratch, BlockOf(s))
    BY <1>5 DEF UnlinkNext
  <2>2. s \in Slot /\ BlockOf(s) \in Block
    BY <2>1, BlockOfType DEF Victims
  <2>3. IsList(scratch', MaxScratch) /\ Sorted(scratch')
    BY <2>1, <2>2, AddBlockList, DMFileAssumption DEF TypeOK, InOrder
  <2>4. ptr' \in [Slot -> {0} \cup Word]
    BY <2>1 DEF TypeOK
  <2>5. TypeOK'
    BY <1>5, <2>3, <2>4 DEF UnlinkNext, TypeOK, space, heads, PC, IsSpace
  <2>6. InOrder'
    BY <1>5, <2>3 DEF UnlinkNext, InOrder, space
  <2> QED BY <2>5, <2>6
<1>6. ASSUME DeleteHeader PROVE TypeInv'
  <2> DEFINE left == dels.hdrs \ {Doomed}
  <2>1. rows' \subseteq Row /\ cols' \subseteq Col
    BY <1>6 DEF DeleteHeader, TypeOK
  <2>2. dels' \in Deletion
    <3>1. left \in SUBSET (Row \cup Col) /\ dels.byrow \in BOOLEAN
      BY DEF TypeOK, Deletion
    <3>2. dels' = IF left = {} THEN NoDeletion ELSE [dels EXCEPT !.hdrs = left]
      BY <1>6 DEF DeleteHeader
    <3> HIDE DEF left
    <3> QED BY <3>1, <3>2, Types DEF TypeOK, Deletion
  <2>3. /\ cur' \in Call
        /\ pc' \in {"delete", "idle", "space"}
        /\ pc' = "space" => cur'.at = 1 /\ scratch'.n # 0 /\ scratch' = scratch
    <3>1. cur' \in {Idle, [Idle EXCEPT !.at = 1]}
      BY <1>6 DEF DeleteHeader
    <3>2. [Idle EXCEPT !.at = 1] \in Call /\ [Idle EXCEPT !.at = 1].at = 1
      BY Types DEF Idle, Call
    <3> QED BY <1>6, <3>1, <3>2, Types DEF DeleteHeader
  <2>4. UNCHANGED <<mem, disk, ptr, word, scratch>>
    BY <1>6 DEF DeleteHeader, space
  <2>5. pc' = "space" => cur'.at \in 1 .. scratch'.n + 1
    BY <2>3, <2>4 DEF TypeOK, IsList
  <2>6. TypeOK'
    BY <2>1, <2>2, <2>3, <2>4, <2>5 DEF TypeOK, PC, IsSpace
  <2>7. InOrder'
    BY <2>4 DEF InOrder
  <2> QED BY <2>6, <2>7
<1>7. ASSUME FreeScratch PROVE TypeInv'
  <2>1. cur.at \in 1 .. scratch.n /\ scratch.b[cur.at] \in Block
    BY <1>7 DEF FreeScratch, TypeOK, IsList
  <2>2. IsSpace(mem') /\ Sorted(mem'.free)
    BY <1>7, <2>1, FreedSpace DEF FreeScratch, TypeOK, InOrder
  <2>3. cur.at + 1 \in 1 .. scratch.n + 1 /\ cur.at + 1 \in Nat
    BY <2>1 DEF TypeOK, IsList
  <2>4. cur' = [cur EXCEPT !.at = cur.at + 1] /\ cur' \in Call
        /\ cur'.at = cur.at + 1
    BY <1>7, <2>3 DEF FreeScratch, TypeOK, Call
  <2>5. TypeOK'
    BY <1>7, <2>2, <2>3, <2>4 DEF FreeScratch, TypeOK, heads, PC, IsSpace
  <2>6. InOrder'
    BY <1>7, <2>2 DEF FreeScratch, InOrder
  <2> QED BY <2>5, <2>6
<1>8. ASSUME WriteSpace PROVE TypeInv'
  <2>1. cur' \in Call /\ IsList(scratch', MaxScratch) /\ Sorted(scratch')
    BY <1>8, Types DEF WriteSpace
  <2>2. TypeOK'
    BY <1>8, <2>1 DEF WriteSpace, TypeOK, heads, PC, IsSpace
  <2>3. InOrder'
    BY <1>8, <2>1 DEF WriteSpace, InOrder
  <2> QED BY <2>2, <2>3
<1>9. ASSUME Crash PROVE TypeInv'
  <2>1. /\ cur' \in Call /\ dels' \in Deletion
        /\ IsList(scratch', MaxScratch) /\ Sorted(scratch')
    BY <1>9, Types DEF Crash
  <2>2. TypeOK'
    BY <1>9, <2>1 DEF Crash, TypeOK, heads, PC, IsSpace
  <2>3. InOrder'
    BY <1>9, <2>1 DEF Crash, InOrder
  <2> QED BY <2>2, <2>3
<1> QED
  BY <1>1, <1>2, <1>3, <1>4, <1>5, <1>6, <1>7, <1>8, <1>9 DEF Step

-----------------------------------------------------------------------------
\* So does the state after a step that changes nothing.
LEMMA StutterTypeInv == TypeInv /\ UNCHANGED vars => TypeInv'
BY DEF TypeInv, TypeOK, InOrder, vars, IsSpace

\* Types and order, in every state.
LEMMA SpecTypeInv == Spec => []TypeInv
<1>1. TypeInv /\ [Next]_vars => TypeInv'
  BY RequestTypeInv, StepTypeInv, StutterTypeInv DEF Next
<1> QED BY InitTypeInv, <1>1, PTL DEF Spec

(***************************************************************************)
(* The types are right: in particular no list outgrows its array, every    *)
(* pointer points into the data area, and the write in progress stays in   *)
(* its block.                                                              *)
(***************************************************************************)
THEOREM TypeCorrect == Spec => []TypeOK
BY SpecTypeInv, PTL DEF TypeInv

(***************************************************************************)
(* The lists of free blocks, in memory, on file and in DM_DALL's scratch   *)
(* space, stay in order of decreasing length; by BestFitSmallest DM_GSPC   *)
(* always takes the smallest block that is large enough.                   *)
(***************************************************************************)
THEOREM ListsInOrder == Spec => []InOrder
BY SpecTypeInv, PTL DEF TypeInv

-----------------------------------------------------------------------------
(***************************************************************************)
(* No word has two uses.  The invariant: what NoOverlap and                *)
(* ListsWellFormed say, with the state between the writes of a call.       *)
(***************************************************************************)
Below(blk) == First =< blk.start /\ Stop(blk) =< disk.next

HeldApart ==
    \A s, t \in Held : s # t => Words(BlockOf(s)) \cap Words(BlockOf(t)) = {}

\* The space in memory is the space on file but while DM_WSPC frees the
\* scratch list, which is empty but in DM_DALL.
SpaceInv ==
    /\ pc # "space" => mem = disk
    /\ pc \notin {"delete", "space"} => scratch.n = 0
    /\ mem.next = disk.next /\ First =< disk.next
    /\ \A s \in Held : Below(BlockOf(s))
    /\ \A b \in InHand : Below(b)
    /\ pc \in {"body", "point"} => word[cur.start] = cur.len

ListInv == ListsWellFormed /\ Separate(scratch)

Sound == SpaceInv /\ ListInv /\ NoOverlap

\* The blocks that are held and in hand are blocks.
LEMMA UsedBlocks ==
  ASSUME TypeOK
  PROVE  /\ \A s \in Held : s \in Slot /\ ptr[s] # 0 /\ BlockOf(s) \in Block
         /\ \A b \in InHand : b \in Block
         /\ Writing \/ pc = "free" =>
               [len |-> cur.len + 1, start |-> cur.start] \in Block
<1>1. \A s \in Held : s \in Slot /\ ptr[s] # 0 /\ BlockOf(s) \in Block
  BY BlockOfType DEF Held
<1>2. ASSUME Writing \/ pc = "free"
      PROVE  [len |-> cur.len + 1, start |-> cur.start] \in Block
  <2>1. cur.start \in Nat \ {0} /\ cur.len \in Nat
    BY <1>2, Types DEF TypeOK, Writing, Call
  <2> QED BY <2>1 DEF Block
<1>3. \A i \in (IF pc = "space" THEN cur.at ELSE 1) .. scratch.n :
         scratch.b[i] \in Block
  <2>1. scratch.n \in Nat /\ scratch.b \in [1 .. scratch.n -> Block]
    BY DEF TypeOK, IsList
  <2>2. pc = "space" => cur.at \in Nat /\ cur.at >= 1
    BY <2>1 DEF TypeOK
  <2> QED BY <2>1, <2>2
<1>4. \A b \in InHand : b \in Block
  BY <1>2, <1>3 DEF InHand
<1> QED BY <1>1, <1>2, <1>4

\* Slots that keep their blocks stay apart, and clear of the block of a slot
\* that gives its own up.
LEMMA HeldKept ==
  ASSUME NoOverlap, \A t \in Held' : t \in Held /\ BlockOf(t)' = BlockOf(t)
  PROVE  /\ HeldApart'
         /\ HeldWords' \subseteq HeldWords
         /\ \A s \in Held \ Held' : HeldWords' \cap Words(BlockOf(s)) = {}
<1>1. \A t \in Held' : Words(BlockOf(t))' = Words(BlockOf(t))
  BY DEF Words, Stop
<1>2. HeldWords' = UNION {Words(BlockOf(s)) : s \in Held'}
  BY <1>1 DEF HeldWords
<1>3. HeldApart
  BY DEF NoOverlap, HeldApart
<1>4. HeldApart'
  BY <1>1, <1>3 DEF HeldApart
<1>5. HeldWords' \subseteq HeldWords
  BY <1>2 DEF HeldWords
<1>6. ASSUME NEW s \in Held \ Held', NEW w, w \in HeldWords', w \in Words(BlockOf(s))
      PROVE  FALSE
  <2>1. PICK t \in Held' : w \in Words(BlockOf(t))
    BY <1>2, <1>6
  <2>2. Words(BlockOf(s)) \cap Words(BlockOf(t)) = {}
    BY <1>3, <1>6, <2>1 DEF HeldApart
  <2> QED BY <1>6, <2>1, <2>2
<1> QED BY <1>4, <1>5, <1>6

\* A slot that takes a block in hand stays apart from the others.
LEMMA HeldTaken ==
  ASSUME NoOverlap, NEW x,
         \A t \in Held' : \/ t \in Held /\ BlockOf(t)' = BlockOf(t)
                          \/ t = x /\ BlockOf(t)' \in InHand
  PROVE  HeldApart' /\ HeldWords' \subseteq HeldWords \cup HandWords
<1>1. \A t \in Held' : \/ t \in Held /\ Words(BlockOf(t))' = Words(BlockOf(t))
                       \/ t = x /\ Words(BlockOf(t))' \subseteq HandWords
  <2> SUFFICES ASSUME NEW t \in Held'
               PROVE \/ t \in Held /\ Words(BlockOf(t))' = Words(BlockOf(t))
                     \/ t = x /\ Words(BlockOf(t))' \subseteq HandWords
    OBVIOUS
  <2>1. CASE t \in Held /\ BlockOf(t)' = BlockOf(t)
    BY <2>1 DEF Words, Stop
  <2>2. CASE t = x /\ BlockOf(t)' \in InHand
    <3> DEFINE b == BlockOf(t)'
    <3>1. Words(b) \subseteq HandWords
      BY <2>2 DEF HandWords
    <3>2. Words(BlockOf(t))' = Words(b)
      BY DEF Words, Stop
    <3> QED BY <2>2, <3>1, <3>2
  <2> QED BY <2>1, <2>2
<1>2. HeldApart /\ HeldWords \cap HandWords = {}
  BY DEF NoOverlap, HeldApart
<1>3. \A t \in Held : Words(BlockOf(t)) \subseteq HeldWords
  BY DEF HeldWords
<1>4. ASSUME NEW s \in Held', NEW t \in Held', s # t
      PROVE  Words(BlockOf(s))' \cap Words(BlockOf(t))' = {}
  BY <1>1, <1>2, <1>3, <1>4 DEF HeldApart
<1>5. HeldApart'
  BY <1>4 DEF HeldApart
<1>6. HeldWords' = UNION {Words(BlockOf(s))' : s \in Held'}
  BY DEF HeldWords
<1>7. HeldWords' \subseteq HeldWords \cup HandWords
  BY <1>1, <1>3, <1>6
<1> QED BY <1>5, <1>7

\* The space with a block added that was not free.
LEMMA FreedWords ==
  ASSUME NEW sp, IsSpace(sp), WellFormed(sp), NEW blk \in Block,
         Words(blk) \cap FreeWords(sp.free) = {},
         First =< blk.start, Stop(blk) =< sp.next
  PROVE  /\ IsSpace(Freed(sp, blk)) /\ WellFormed(Freed(sp, blk))
         /\ Freed(sp, blk).next = sp.next
         /\ FreeWords(Freed(sp, blk).free) \subseteq FreeWords(sp.free) \cup Words(blk)
<1> DEFINE new == AddBlock(sp.free, MaxFree, blk)
           got == Freed(sp, blk)
<1>1. IsSpace(got) /\ got.next = sp.next /\ Sorted(got.free)
  BY FreedSpace DEF WellFormed
<1>2. got.free = new
  <2>1. got = [sp EXCEPT !.free = new]
    BY DEF Freed
  <2> HIDE DEF got, new
  <2>2. got = [next |-> sp.next, free |-> new]
    BY <2>1 DEF IsSpace
  <2> QED BY <2>2
<1>3. Separate(new) /\ FreeWords(new) \subseteq FreeWords(sp.free) \cup Words(blk)
  BY AddBlockWords, DMFileAssumption DEF IsSpace, WellFormed
<1> HIDE DEF new, got
<1>4. \A w \in FreeWords(sp.free) : First =< w /\ w < sp.next
  BY WithinWords, DMFileAssumption DEF IsSpace, WellFormed
<1>5. \A w \in Words(blk) : First =< w /\ w < sp.next
  <2>1. /\ blk.start \in Nat /\ Stop(blk) \in Nat /\ sp.next \in Nat
        /\ First \in Nat
    BY WordsOfBlocks, DMFileAssumption DEF IsSpace
  <2> QED BY <2>1 DEF Words
<1>6. Within(got.free, First, got.next)
  <2>1. \A w \in FreeWords(got.free) : First =< w /\ w < got.next
    BY <1>1, <1>2, <1>3, <1>4, <1>5
  <2>2. /\ MaxFree \in Nat /\ First \in Nat /\ got.next \in Nat
        /\ IsList(got.free, MaxFree)
    BY <1>1, DMFileAssumption DEF IsSpace
  <2> QED BY <2>1, <2>2, WithinWords
<1> QED BY <1>1, <1>2, <1>3, <1>6 DEF got, WellFormed

\* With nothing in the scratch list, the block of the call is all there is.
LEMMA CallHand ==
  ASSUME TypeOK, Writing \/ pc = "free", scratch.n = 0
  PROVE  /\ InHand = {[len |-> cur.len + 1, start |-> cur.start]}
         /\ HandWords = Words([len |-> cur.len + 1, start |-> cur.start])
<1>1. (IF pc = "space" THEN cur.at ELSE 1) .. scratch.n = {}
  BY DEF Writing
<1>2. InHand = {[len |-> cur.len + 1, start |-> cur.start]}
  BY <1>1 DEF InHand
<1> QED BY <1>2 DEF HandWords

\* The blocks and the lists do not depend on the headers.
LEMMA SoundSame ==
  ASSUME Sound, UNCHANGED <<mem, disk, ptr, word, pc, cur, scratch>>
  PROVE  Sound'
<1>1. Held' = Held /\ InHand' = InHand
  BY DEF Held, InHand, Writing
<1>2. \A s : BlockOf(s)' = BlockOf(s) /\ Words(BlockOf(s))' = Words(BlockOf(s))
  BY DEF BlockOf, Words, Stop
<1>3. HeldWords' = HeldWords /\ HandWords' = HandWords
  BY <1>1, <1>2 DEF HeldWords, HandWords
<1>4. SpaceInv'
  BY <1>1, <1>2 DEF Sound, SpaceInv, Below
<1>5. ListInv'
  BY DEF Sound, ListInv, ListsWellFormed, WellFormed
<1>6. NoOverlap'
  BY <1>1, <1>2, <1>3 DEF Sound, NoOverlap
<1> QED BY <1>4, <1>5, <1>6 DEF Sound

\* A mass deletion begins.
LEMMA DeleteAllSound ==
  ASSUME TypeOK, Sound, NEW byrow, NEW hdrs, DeleteAll(byrow, hdrs)
  PROVE  Sound'
<1>1. /\ pc = "idle" /\ pc' = "delete"
      /\ UNCHANGED <<mem, disk, ptr, word, cur, scratch>>
  BY DEF DeleteAll, space
<1>2. Held' = Held /\ InHand' = InHand
  BY <1>1 DEF Held, InHand, Writing
<1>3. \A s : BlockOf(s)' = BlockOf(s) /\ Words(BlockOf(s))' = Words(BlockOf(s))
  BY <1>1 DEF BlockOf, Words, Stop
<1>4. HeldWords' = HeldWords /\ HandWords' = HandWords
  BY <1>2, <1>3 DEF HeldWords, HandWords
<1>5. SpaceInv'
  BY <1>1, <1>2, <1>3 DEF Sound, SpaceInv, Below
<1>6. ListInv'
  BY <1>1 DEF Sound, ListInv, ListsWellFormed, WellFormed
<1>7. NoOverlap'
  BY <1>1, <1>2, <1>3, <1>4 DEF Sound, NoOverlap
<1> QED BY <1>5, <1>6, <1>7 DEF Sound

\* DM_WDTR over data of the same length: the block of the slot is in hand.
LEMMA OverwriteSound ==
  ASSUME TypeOK, TypeOK', Sound,
         NEW s \in Slot, NEW n \in Lens, NEW v \in Val, Overwrite(s, n, v)
  PROVE  Sound'
<1>1. /\ pc = "idle" /\ pc' = "body" /\ OldLen(s) = n
      /\ cur' = [slot |-> s, start |-> ptr[s], len |-> n, val |-> v,
                 at |-> ptr[s] + 1]
      /\ UNCHANGED <<mem, disk, ptr, word, scratch>>
  BY DEF Overwrite, space
<1>2. ptr[s] # 0 /\ word[ptr[s]] = n
  BY <1>1, DMFileAssumption DEF OldLen
<1>3. scratch.n = 0 /\ scratch'.n = 0
  BY <1>1 DEF Sound, SpaceInv
<1>4. cur'.slot = s /\ cur'.start = ptr[s] /\ cur'.len = n
  BY <1>1
<1>5. Held' = Held \ {s} /\ s \in Held
  BY <1>1, <1>2, <1>4 DEF Held, Writing
<1>6. InHand' = {BlockOf(s)} /\ HandWords' = Words(BlockOf(s))
  <2>1. Writing' /\ BlockOf(s) = [len |-> n + 1, start |-> ptr[s]]
    BY <1>1, <1>2 DEF Writing, BlockOf
  <2>2. /\ InHand' = {[len |-> cur'.len + 1, start |-> cur'.start]}
        /\ HandWords' = UNION {Words(b) : b \in InHand'}
    <3>1. (IF pc' = "space" THEN cur'.at ELSE 1) .. scratch'.n = {}
      BY <1>1, <1>3
    <3> QED BY <2>1, <3>1 DEF InHand, HandWords
  <2> QED BY <1>4, <2>1, <2>2
<1>7. \A t : BlockOf(t)' = BlockOf(t)
  BY <1>1 DEF BlockOf
<1>8. /\ HeldApart' /\ HeldWords' \subseteq HeldWords
      /\ HeldWords' \cap Words(BlockOf(s)) = {}
  BY <1>5, <1>7, HeldKept DEF Sound
<1>9. Words(BlockOf(s)) \subseteq HeldWords
  BY <1>5 DEF HeldWords
<1>10. SpaceInv'
  BY <1>1, <1>2, <1>3, <1>4, <1>5, <1>6, <1>7 DEF Sound, SpaceInv, Below
<1>11. ListInv'
  BY <1>1 DEF Sound, ListInv, ListsWellFormed, WellFormed
<1>12. NoOverlap'
  BY <1>1, <1>6, <1>8, <1>9 DEF Sound, NoOverlap, HeldApart
<1> QED BY <1>10, <1>11, <1>12 DEF Sound

\* The words of the slots that keep their blocks lie below kpnext.
LEMMA HeldBelow ==
  ASSUME TypeOK, SpaceInv, NEW w \in HeldWords
  PROVE  w \in Nat /\ First =< w /\ w < disk.next
<1>1. PICK s \in Held : w \in Words(BlockOf(s))
  BY DEF HeldWords
<1>2. BlockOf(s) \in Block /\ First =< BlockOf(s).start /\ Stop(BlockOf(s)) =< disk.next
  BY UsedBlocks DEF SpaceInv, Below
<1>3. BlockOf(s).start \in Nat /\ Stop(BlockOf(s)) \in Nat
  BY <1>2, WordsOfBlocks
<1> QED BY <1>1, <1>2, <1>3, DMFileAssumption DEF Words, TypeOK, IsSpace

\* DM_WDTR, new space: the old block is freed, other words are in hand.
LEMMA AllocateSound ==
  ASSUME TypeOK, TypeOK', Sound,
         NEW s \in Slot, NEW n \in Lens, NEW v \in Val, Allocate(s, n, v)
  PROVE  Sound'
<1> DEFINE sp    == IF OldLen(s) > 0 THEN Freed(mem, BlockOf(s)) ELSE mem
           start == GetStart(sp, n + 1)
           got   == GetSpace(sp, n + 1, MaxFree)
           taken == [len |-> n + 1, start |-> start]
<1>1. /\ pc = "idle" /\ pc' = "length"
      /\ mem' = got /\ disk' = got
      /\ cur' = [slot |-> s, start |-> start, len |-> n, val |-> v,
                 at |-> start + 1]
      /\ UNCHANGED <<ptr, word, scratch>>
  BY DEF Allocate
<1>2. n \in Nat \ {0} /\ n + 1 \in Nat \ {0} /\ First \in Nat \ {0}
      /\ MaxFree \in Nat \ {0}
  BY DMFileAssumption
<1>3. scratch.n = 0 /\ scratch'.n = 0 /\ mem = disk
  BY <1>1 DEF Sound, SpaceInv
<1>4. OldLen(s) > 0 => s \in Held
  BY <1>1 DEF OldLen, Held, Writing
<1>5. /\ IsSpace(sp) /\ WellFormed(sp) /\ sp.next = mem.next
      /\ FreeWords(sp.free) \subseteq
            FreeWords(mem.free) \cup (IF s \in Held THEN Words(BlockOf(s)) ELSE {})
  <2>1. CASE OldLen(s) > 0
    <3>1. s \in Held /\ BlockOf(s) \in Block
      BY <1>4, <2>1, UsedBlocks
    <3>2. Words(BlockOf(s)) \cap FreeWords(mem.free) = {}
      BY <3>1 DEF Sound, NoOverlap, HeldWords
    <3>3. First =< BlockOf(s).start /\ Stop(BlockOf(s)) =< mem.next
      BY <3>1 DEF Sound, SpaceInv, Below
    <3>4. IsSpace(mem) /\ WellFormed(mem)
      BY DEF TypeOK, Sound, ListInv, ListsWellFormed
    <3> QED BY <2>1, <3>1, <3>2, <3>3, <3>4, FreedWords
  <2>2. CASE ~(OldLen(s) > 0)
    BY <2>2 DEF TypeOK, Sound, ListInv, ListsWellFormed
  <2> QED BY <2>1, <2>2
<1>6. sp.next \in Nat \ {0} /\ First =< sp.next
  BY <1>5 DEF IsSpace, Sound, SpaceInv
<1> HIDE DEF sp
<1>7. /\ taken \in Block
      /\ First =< taken.start /\ Stop(taken) =< got.next
      /\ sp.next =< got.next /\ got.next \in Nat
      /\ Words(taken) \subseteq FreeWords(sp.free) \cup (sp.next .. got.next - 1)
      /\ FreeWords(got.free) \subseteq FreeWords(sp.free)
      /\ Words(taken) \cap FreeWords(got.free) = {}
      /\ Separate(got.free)
  BY <1>2, <1>5, <1>6, GetSpaceWords DEF IsSpace, WellFormed
<1>8. IsList(got.free, MaxFree) /\ Sorted(got.free)
  BY <1>2, <1>5, GetSpaceList DEF IsSpace, WellFormed
<1> HIDE DEF start, got
<1>9. WellFormed(got)
  <2>1. \A w \in FreeWords(sp.free) : First =< w /\ w < sp.next
    BY <1>2, <1>5, <1>6, WithinWords DEF IsSpace, WellFormed
  <2>2. \A w \in FreeWords(got.free) : w \in Int
    BY <1>8 DEF FreeWords, Words, IsList, Block, Stop
  <2>3. \A w \in FreeWords(got.free) : First =< w /\ w < got.next
    BY <1>6, <1>7, <2>1, <2>2
  <2>4. Within(got.free, First, got.next)
    BY <1>2, <1>7, <1>8, <2>3, WithinWords
  <2> QED BY <1>7, <1>8, <2>4 DEF WellFormed
<1>10. cur'.slot = s /\ cur'.start = start /\ cur'.len = n
  BY <1>1
<1>11. Held' = Held \ {s}
  BY <1>1, <1>10 DEF Held, Writing
<1>12. InHand' = {taken} /\ HandWords' = Words(taken)
  <2>1. Writing'
    BY <1>1 DEF Writing
  <2>2. /\ InHand' = {[len |-> cur'.len + 1, start |-> cur'.start]}
        /\ HandWords' = UNION {Words(b) : b \in InHand'}
    <3>1. (IF pc' = "space" THEN cur'.at ELSE 1) .. scratch'.n = {}
      BY <1>1, <1>3
    <3> QED BY <2>1, <3>1 DEF InHand, HandWords
  <2> QED BY <1>10, <2>2
<1>13. \A t : BlockOf(t)' = BlockOf(t)
  BY <1>1 DEF BlockOf
<1>14. /\ HeldApart' /\ HeldWords' \subseteq HeldWords
       /\ s \in Held => HeldWords' \cap Words(BlockOf(s)) = {}
  BY <1>11, <1>13, HeldKept DEF Sound
<1>15. HeldWords' \cap FreeWords(sp.free) = {}
  BY <1>5, <1>14 DEF Sound, NoOverlap
<1>16. HeldWords' \cap Words(taken) = {}
  <2> SUFFICES ASSUME NEW w \in HeldWords', w \in Words(taken) PROVE FALSE
    OBVIOUS
  <2>1. w \in Nat /\ w < sp.next
    BY <1>3, <1>5, <1>14, HeldBelow DEF Sound
  <2>2. w \in sp.next .. got.next - 1
    BY <1>7, <1>15
  <2> QED BY <1>6, <1>7, <2>1, <2>2
<1>17. \A t \in Held : Stop(BlockOf(t)) =< got.next
  <2> SUFFICES ASSUME NEW t \in Held PROVE Stop(BlockOf(t)) =< got.next
    OBVIOUS
  <2>1. Stop(BlockOf(t)) \in Nat
    BY UsedBlocks, WordsOfBlocks
  <2>2. Stop(BlockOf(t)) =< sp.next
    BY <1>3, <1>5 DEF Sound, SpaceInv, Below
  <2> QED BY <1>6, <1>7, <2>1, <2>2
<1>18. SpaceInv'
  <2>1. First =< got.next
    BY <1>2, <1>6, <1>7
  <2>2. \A t \in Held' : Below(BlockOf(t))'
    BY <1>1, <1>11, <1>13, <1>17 DEF Sound, SpaceInv, Below
  <2>3. \A b \in InHand' : First =< b.start /\ Stop(b) =< disk'.next
    BY <1>1, <1>7, <1>12
  <2> QED BY <1>1, <1>3, <2>1, <2>2, <2>3 DEF SpaceInv, Below
<1>19. ListInv'
  BY <1>1, <1>9 DEF Sound, ListInv, ListsWellFormed, WellFormed
<1>20. NoOverlap'
  BY <1>1, <1>7, <1>12, <1>14, <1>15, <1>16 DEF NoOverlap, HeldApart
<1> QED BY <1>18, <1>19, <1>20 DEF Sound

\* Words of the block in hand are written, its length word with its length.
LEMMA WriteSound ==
  ASSUME TypeOK, TypeOK', Sound, Writing, pc' \in {"body", "point"},
         UNCHANGED <<mem, disk, ptr, scratch>>,
         cur'.slot = cur.slot, cur'.start = cur.start, cur'.len = cur.len,
         \A w \in Word \ HandWords : word'[w] = word[w],
         word'[cur.start] = cur.len
  PROVE  Sound'
<1> DEFINE blk == [len |-> cur.len + 1, start |-> cur.start]
<1>1. scratch.n = 0 /\ scratch'.n = 0 /\ Writing' /\ mem = disk /\ pc # "space"
  BY DEF Sound, SpaceInv, Writing
<1>2. InHand = {blk} /\ HandWords = Words(blk)
  BY <1>1, CallHand
<1>3. InHand' = {blk} /\ HandWords' = Words(blk)
  <2>1. (IF pc' = "space" THEN cur'.at ELSE 1) .. scratch'.n = {}
    BY <1>1
  <2>2. InHand' = {[len |-> cur'.len + 1, start |-> cur'.start]}
    BY <1>1, <2>1 DEF InHand
  <2> QED BY <1>2, <2>2 DEF HandWords
<1> HIDE DEF blk
<1>4. Held' = Held
  BY <1>1 DEF Held
<1>5. \A t \in Held : BlockOf(t)' = BlockOf(t)
  <2> SUFFICES ASSUME NEW t \in Held PROVE BlockOf(t)' = BlockOf(t)
    OBVIOUS
  <2>1. BlockOf(t) \in Block /\ t \in Slot /\ ptr[t] # 0
    BY UsedBlocks
  <2>2. ptr[t] \in Words(BlockOf(t))
    <3>1. BlockOf(t).start \in Words(BlockOf(t))
      BY <2>1, WordsOfBlocks
    <3> QED BY <3>1 DEF BlockOf
  <2>3. ptr[t] \notin HandWords
    BY <2>2 DEF Sound, NoOverlap, HeldWords
  <2>4. ptr[t] \in Word
    BY <2>1 DEF TypeOK
  <2> QED BY <2>3, <2>4 DEF BlockOf
<1>6. HeldApart' /\ HeldWords' \subseteq HeldWords
  BY <1>4, <1>5, HeldKept DEF Sound
<1>7. SpaceInv'
  BY <1>1, <1>2, <1>3, <1>4, <1>5 DEF Sound, SpaceInv, Below
<1>8. ListInv'
  BY DEF Sound, ListInv, ListsWellFormed, WellFormed
<1>9. NoOverlap'
  BY <1>2, <1>3, <1>6 DEF Sound, NoOverlap, HeldApart
<1> QED BY <1>7, <1>8, <1>9 DEF Sound

\* DM_WDTR, the length word of the new block.
LEMMA WriteLengthSound ==
  ASSUME TypeOK, TypeOK', Sound, WriteLength
  PROVE  Sound'
<1>1. /\ Writing /\ pc' \in {"body", "point"} /\ pc = "length"
      /\ UNCHANGED <<mem, disk, ptr, scratch>> /\ cur' = cur
      /\ word' = [word EXCEPT ![cur.start] = cur.len]
  BY DEF WriteLength, Writing, space, call
<1>2. cur.start \in Word /\ cur.start \in HandWords
  <2>1. HandWords = Words([len |-> cur.len + 1, start |-> cur.start])
    BY <1>1, CallHand DEF Sound, SpaceInv
  <2>2. [len |-> cur.len + 1, start |-> cur.start] \in Block
    BY <1>1, UsedBlocks
  <2>3. cur.start \in Words([len |-> cur.len + 1, start |-> cur.start])
    BY <2>2, WordsOfBlocks
  <2> QED BY <1>1, <2>1, <2>3 DEF TypeOK
<1>3. word'[cur.start] = cur.len /\ \A w \in Word \ HandWords : word'[w] = word[w]
  BY <1>1, <1>2 DEF TypeOK
<1> QED BY <1>1, <1>3, WriteSound

\* DM_WDTR, a record of data.
LEMMA WriteBodySound ==
  ASSUME TypeOK, TypeOK', Sound, WriteBody
  PROVE  Sound'
<1> DEFINE stop == cur.start + cur.len
           last == IF RecordEnd(cur.at) < stop THEN RecordEnd(cur.at) ELSE stop
<1>1. /\ pc = "body" /\ Writing
      /\ word' = [w \in Word |-> IF w \in cur.at .. last THEN cur.val
                                 ELSE word[w]]
      /\ pc' = IF last = stop THEN "point" ELSE "body"
      /\ cur' = IF last = stop THEN cur ELSE [cur EXCEPT !.at = last + 1]
      /\ UNCHANGED <<mem, disk, ptr, scratch>>
  BY DEF WriteBody, space, Writing
<1>2. /\ cur \in Call /\ cur.start \in Word /\ cur.start \in Nat /\ cur.len \in Nat
      /\ cur.at > cur.start /\ cur.at \in Nat /\ cur.at =< stop /\ cur.at \in Nat \ {0}
  BY <1>1, Types DEF TypeOK, Call
<1>3. last =< stop /\ last \in Nat
  BY <1>2, RecordEndBound
<1> HIDE DEF last
<1>4. cur'.slot = cur.slot /\ cur'.start = cur.start /\ cur'.len = cur.len
  BY <1>1, <1>2 DEF Call
<1>5. HandWords = Words([len |-> cur.len + 1, start |-> cur.start])
  BY <1>1, CallHand DEF Sound, SpaceInv
<1>6. HandWords = cur.start .. stop
  BY <1>2, <1>5 DEF Words, Stop
<1>7. \A w \in Word \ HandWords : word'[w] = word[w]
  BY <1>1, <1>2, <1>3, <1>6, Types
<1>8. word'[cur.start] = cur.len
  <2>1. word[cur.start] = cur.len
    BY <1>1 DEF Sound, SpaceInv
  <2> QED BY <1>1, <1>2, <2>1
<1> QED BY <1>1, <1>4, <1>7, <1>8, WriteSound

\* The slot points to the block that was in hand.
LEMMA WritePointerSound ==
  ASSUME TypeOK, TypeOK', Sound, WritePointer
  PROVE  Sound'
<1> DEFINE blk == [len |-> cur.len + 1, start |-> cur.start]
<1>1. /\ pc = "point" /\ Writing /\ pc' = "idle" /\ ~Writing'
      /\ ptr' = [ptr EXCEPT ![cur.slot] = cur.start]
      /\ UNCHANGED <<mem, disk, word, scratch>>
  BY DEF WritePointer, space, Writing
<1>2. scratch.n = 0 /\ scratch'.n = 0 /\ mem = disk /\ word[cur.start] = cur.len
  BY <1>1 DEF Sound, SpaceInv
<1>3. InHand = {blk}
  BY <1>1, <1>2, CallHand
<1>4. InHand' = {} /\ HandWords' = {}
  <2>1. (IF pc' = "space" THEN cur'.at ELSE 1) .. scratch'.n = {}
    BY <1>1, <1>2
  <2>2. InHand' = {}
    BY <1>1, <2>1 DEF InHand
  <2> QED BY <2>2 DEF HandWords
<1>5. \A t \in Held' : \/ t \in Held /\ BlockOf(t)' = BlockOf(t)
                       \/ t = cur.slot /\ BlockOf(t)' \in InHand
  <2> SUFFICES ASSUME NEW t \in Held'
               PROVE  \/ t \in Held /\ BlockOf(t)' = BlockOf(t)
                      \/ t = cur.slot /\ BlockOf(t)' \in InHand
    OBVIOUS
  <2>1. t \in Slot /\ ptr'[t] # 0
    BY DEF Held
  <2>2. CASE t = cur.slot
    <3>1. ptr'[t] = cur.start
      BY <1>1, <2>1, <2>2 DEF TypeOK
    <3>2. BlockOf(t)' = blk
      BY <1>1, <1>2, <3>1 DEF BlockOf
    <3> QED BY <1>3, <2>2, <3>2
  <2>3. CASE t # cur.slot
    <3>1. ptr'[t] = ptr[t]
      BY <1>1, <2>1, <2>3 DEF TypeOK
    <3>2. t \in Held /\ BlockOf(t)' = BlockOf(t)
      BY <1>1, <2>1, <2>3, <3>1 DEF Held, BlockOf
    <3> QED BY <3>2
  <2> QED BY <2>2, <2>3
<1>6. HeldApart' /\ HeldWords' \subseteq HeldWords \cup HandWords
  BY <1>5, HeldTaken DEF Sound
<1>7. SpaceInv'
  <2>1. \A t \in Held' : Below(BlockOf(t))'
    BY <1>1, <1>5 DEF Sound, SpaceInv, Below
  <2> QED BY <1>1, <1>2, <1>4, <2>1 DEF Sound, SpaceInv, Below
<1>8. ListInv'
  BY <1>1 DEF Sound, ListInv, ListsWellFormed, WellFormed
<1>9. NoOverlap'
  BY <1>1, <1>4, <1>6 DEF Sound, NoOverlap, HeldApart
<1> QED BY <1>7, <1>8, <1>9 DEF Sound

\* DM_DDAT: the block of the slot is in hand, and then it is free.
LEMMA UnlinkSound ==
  ASSUME TypeOK, TypeOK', Sound, NEW s \in Slot, Unlink(s)
  PROVE  Sound'
<1>1. /\ pc = "idle" /\ pc' = "free" /\ ~Writing /\ ~Writing' /\ ptr[s] # 0
      /\ cur' = [slot |-> s, start |-> ptr[s], len |-> word[ptr[s]], val |-> 0,
                 at |-> 0]
      /\ ptr' = [ptr EXCEPT ![s] = 0]
      /\ UNCHANGED <<mem, disk, word, scratch>>
  BY DEF Unlink, space, Writing, Idle
<1>2. scratch.n = 0 /\ scratch'.n = 0 /\ mem = disk
  BY <1>1 DEF Sound, SpaceInv
<1>3. Held' = Held \ {s} /\ s \in Held
  BY <1>1 DEF Held, TypeOK
<1>4. \A t \in Held' : BlockOf(t)' = BlockOf(t)
  BY <1>1, <1>3 DEF BlockOf, Held, TypeOK
<1>5. InHand' = {BlockOf(s)} /\ HandWords' = Words(BlockOf(s))
  <2>1. (IF pc' = "space" THEN cur'.at ELSE 1) .. scratch'.n = {}
    BY <1>1, <1>2
  <2>2. cur'.len = word[ptr[s]] /\ cur'.start = ptr[s]
    BY <1>1
  <2>3. /\ InHand' = {[len |-> cur'.len + 1, start |-> cur'.start]}
        /\ HandWords' = UNION {Words(b) : b \in InHand'}
    BY <1>1, <2>1 DEF InHand, HandWords
  <2> QED BY <2>2, <2>3 DEF BlockOf
<1>6. /\ HeldApart' /\ HeldWords' \subseteq HeldWords
      /\ HeldWords' \cap Words(BlockOf(s)) = {}
  BY <1>3, <1>4, HeldKept DEF Sound
<1>7. Words(BlockOf(s)) \subseteq HeldWords
  BY <1>3 DEF HeldWords
<1>8. SpaceInv'
  BY <1>1, <1>2, <1>3, <1>4, <1>5 DEF Sound, SpaceInv, Below
<1>9. ListInv'
  BY <1>1 DEF Sound, ListInv, ListsWellFormed, WellFormed
<1>10. NoOverlap'
  BY <1>1, <1>5, <1>6, <1>7 DEF Sound, NoOverlap, HeldApart
<1> QED BY <1>8, <1>9, <1>10 DEF Sound

\* DM_DDAT: the block in hand goes to the list.
LEMMA FreeBlockSound ==
  ASSUME TypeOK, TypeOK', Sound, FreeBlock
  PROVE  Sound'
<1> DEFINE blk == [len |-> cur.len + 1, start |-> cur.start]
<1>1. /\ pc = "free" /\ pc' = "idle" /\ ~Writing /\ ~Writing'
      /\ mem' = Freed(mem, blk) /\ disk' = Freed(mem, blk)
      /\ UNCHANGED <<ptr, word, scratch>>
  BY DEF FreeBlock, Writing
<1>2. scratch.n = 0 /\ scratch'.n = 0 /\ mem = disk
  BY <1>1 DEF Sound, SpaceInv
<1>3. InHand = {blk} /\ HandWords = Words(blk) /\ blk \in Block
  BY <1>1, <1>2, CallHand, UsedBlocks
<1>4. InHand' = {} /\ HandWords' = {}
  <2>1. (IF pc' = "space" THEN cur'.at ELSE 1) .. scratch'.n = {}
    BY <1>1, <1>2
  <2>2. InHand' = {}
    BY <1>1, <2>1 DEF InHand
  <2> QED BY <2>2 DEF HandWords
<1> HIDE DEF blk
<1>5. /\ IsSpace(mem) /\ WellFormed(mem)
      /\ Words(blk) \cap FreeWords(mem.free) = {}
      /\ First =< blk.start /\ Stop(blk) =< mem.next
  BY <1>2, <1>3 DEF TypeOK, Sound, ListInv, ListsWellFormed, NoOverlap,
                    SpaceInv, Below
<1>6. /\ WellFormed(mem') /\ mem'.next = mem.next
      /\ FreeWords(mem'.free) \subseteq FreeWords(mem.free) \cup Words(blk)
  BY <1>1, <1>3, <1>5, FreedWords
<1>7. Held' = Held /\ \A t : BlockOf(t)' = BlockOf(t)
  BY <1>1 DEF Held, BlockOf
<1>8. HeldApart' /\ HeldWords' \subseteq HeldWords
  BY <1>7, HeldKept DEF Sound
<1>9. mem' = disk'
  BY <1>1
<1>10. SpaceInv'
  BY <1>1, <1>2, <1>4, <1>6, <1>7, <1>9 DEF Sound, SpaceInv, Below
<1>11. ListInv'
  BY <1>1, <1>6, <1>9 DEF Sound, ListInv, ListsWellFormed, WellFormed
<1>12. NoOverlap'
  BY <1>3, <1>4, <1>6, <1>8, <1>9 DEF Sound, NoOverlap, HeldApart
<1> QED BY <1>10, <1>11, <1>12 DEF Sound

-----------------------------------------------------------------------------
\* In DM_DALL, what is in hand is the scratch list, from the next entry on.
LEMMA ScratchHand ==
  ASSUME TypeOK, pc \in {"idle", "delete", "space"},
         pc = "space" => cur.at = 1
  PROVE  /\ InHand = {scratch.b[i] : i \in 1 .. scratch.n}
         /\ HandWords = FreeWords(scratch)
<1>1. InHand = {scratch.b[i] : i \in 1 .. scratch.n}
  BY DEF InHand, Writing
<1> QED BY <1>1 DEF HandWords, FreeWords

\* DM_DELT: a block moves from its slot to the scratch list.
LEMMA UnlinkNextSound ==
  ASSUME TypeOK, TypeOK', Sound, UnlinkNext
  PROVE  Sound'
<1>1. PICK s \in Victims :
         /\ pc = "delete" /\ pc' = "delete" /\ ~Writing /\ ~Writing'
         /\ ptr' = [ptr EXCEPT ![s] = 0]
         /\ scratch' = AddBlock(scratch, MaxScratch, BlockOf(s))
         /\ UNCHANGED <<mem, disk, word>>
  BY DEF UnlinkNext, space, Writing
<1>2. mem = disk /\ s \in Slot /\ ptr[s] # 0
  BY <1>1 DEF Sound, SpaceInv, Victims
<1>3. Held' = Held \ {s} /\ s \in Held
  BY <1>1, <1>2 DEF Held, TypeOK
<1>4. \A t \in Held' : BlockOf(t)' = BlockOf(t)
  BY <1>1, <1>3 DEF BlockOf, Held, TypeOK
<1>5. /\ InHand = {scratch.b[i] : i \in 1 .. scratch.n}
      /\ HandWords = FreeWords(scratch)
  BY <1>1, ScratchHand
<1>6. /\ InHand' = {scratch'.b[i] : i \in 1 .. scratch'.n}
      /\ HandWords' = FreeWords(scratch')
  <2>1. InHand' = {scratch'.b[i] : i \in 1 .. scratch'.n}
    BY <1>1 DEF InHand
  <2>2. HandWords' = UNION {Words(b) : b \in InHand'}
    BY DEF HandWords
  <2> QED BY <2>1, <2>2 DEF FreeWords
<1>7. /\ HeldApart' /\ HeldWords' \subseteq HeldWords
      /\ HeldWords' \cap Words(BlockOf(s)) = {}
  BY <1>3, <1>4, HeldKept DEF Sound
<1>8. BlockOf(s) \in Block /\ Words(BlockOf(s)) \subseteq HeldWords
      /\ First =< BlockOf(s).start /\ Stop(BlockOf(s)) =< disk.next
  BY <1>3, UsedBlocks DEF HeldWords, Sound, SpaceInv, Below
<1>9. Words(BlockOf(s)) \cap FreeWords(scratch) = {}
  BY <1>5, <1>8 DEF Sound, NoOverlap
<1>10. /\ Separate(scratch')
       /\ FreeWords(scratch') \subseteq FreeWords(scratch) \cup Words(BlockOf(s))
  BY <1>1, <1>8, <1>9, AddBlockWords, DMFileAssumption
     DEF TypeOK, Sound, ListInv
<1>11. disk.next \in Nat /\ First \in Nat /\ MaxScratch \in Nat
       /\ IsList(scratch, MaxScratch) /\ IsList(scratch', MaxScratch)
  BY DMFileAssumption DEF TypeOK, IsSpace
<1>12. Within(scratch', First, disk.next)
  <2>1. Within(scratch, First, disk.next)
    BY <1>5 DEF Within, Sound, SpaceInv, Below
  <2>2. \A w \in FreeWords(scratch) : First =< w /\ w < disk.next
    BY <1>11, <2>1, WithinWords
  <2>3. \A w \in Words(BlockOf(s)) : First =< w /\ w < disk.next
    BY <1>8, HeldBelow DEF Sound
  <2> QED BY <1>10, <1>11, <2>2, <2>3, WithinWords
<1>13. SpaceInv'
  <2>1. \A b \in InHand' : First =< b.start /\ Stop(b) =< disk.next
    BY <1>6, <1>12 DEF Within
  <2> QED BY <1>1, <1>2, <1>3, <1>4, <2>1 DEF Sound, SpaceInv, Below
<1>14. ListInv'
  BY <1>1, <1>10 DEF Sound, ListInv, ListsWellFormed, WellFormed
<1>15. NoOverlap'
  BY <1>1, <1>5, <1>6, <1>7, <1>8, <1>10 DEF Sound, NoOverlap, HeldApart
<1> QED BY <1>13, <1>14, <1>15 DEF Sound

\* A header is deleted: the scratch list is kept, or there is none.
LEMMA DeleteHeaderSound ==
  ASSUME TypeOK, TypeOK', Sound, DeleteHeader
  PROVE  Sound'
<1> DEFINE left == dels.hdrs \ {Doomed}
<1>1. /\ pc = "delete" /\ ~Writing /\ ~Writing'
      /\ pc' \in {"delete", "idle", "space"}
      /\ pc' = "idle" => scratch.n = 0
      /\ pc' = "space" => cur' = [Idle EXCEPT !.at = 1]
      /\ UNCHANGED <<mem, disk, ptr, word, scratch>>
  BY DEF DeleteHeader, space, Writing
<1>2. pc' = "space" => cur'.at = 1
  BY <1>1 DEF Idle
<1>3. mem = disk
  BY <1>1 DEF Sound, SpaceInv
<1>4. Held' = Held /\ \A t : BlockOf(t)' = BlockOf(t)
  BY <1>1 DEF Held, BlockOf
<1>5. InHand' = InHand /\ HandWords' = HandWords
  <2>1. InHand = {scratch.b[i] : i \in 1 .. scratch.n}
    BY <1>1, ScratchHand
  <2>2. InHand' = {scratch.b[i] : i \in 1 .. scratch.n}
    BY <1>1, <1>2 DEF InHand
  <2> QED BY <2>1, <2>2 DEF HandWords
<1>6. HeldApart' /\ HeldWords' \subseteq HeldWords
  BY <1>4, HeldKept DEF Sound
<1>7. SpaceInv'
  BY <1>1, <1>3, <1>4, <1>5 DEF Sound, SpaceInv, Below
<1>8. ListInv'
  BY <1>1 DEF Sound, ListInv, ListsWellFormed, WellFormed
<1>9. NoOverlap'
  BY <1>1, <1>5, <1>6 DEF Sound, NoOverlap, HeldApart
<1> QED BY <1>7, <1>8, <1>9 DEF Sound

\* DM_WSPC: an entry of the scratch list is freed, in memory.
LEMMA FreeScratchSound ==
  ASSUME TypeOK, TypeOK', Sound, FreeScratch
  PROVE  Sound'
<1> DEFINE blk == scratch.b[cur.at]
<1>1. /\ pc = "space" /\ pc' = "space" /\ ~Writing /\ ~Writing'
      /\ cur.at =< scratch.n
      /\ mem' = Freed(mem, blk)
      /\ cur' = [cur EXCEPT !.at = cur.at + 1]
      /\ UNCHANGED <<disk, ptr, word, scratch>>
  BY DEF FreeScratch, Writing
<1>2. /\ cur.at \in 1 .. scratch.n /\ scratch.n \in Nat /\ cur.at \in Nat
      /\ cur'.at = cur.at + 1
      /\ blk \in Block
  BY <1>1 DEF TypeOK, IsList, Call
<1>3. InHand = {scratch.b[i] : i \in cur.at .. scratch.n} /\ blk \in InHand
  BY <1>1, <1>2 DEF InHand
<1>4. InHand' = {scratch.b[i] : i \in cur.at + 1 .. scratch.n}
  BY <1>1, <1>2 DEF InHand
<1>5. /\ HandWords' \subseteq HandWords /\ Words(blk) \subseteq HandWords
      /\ HandWords' \cap Words(blk) = {}
  <2>1. HandWords' = UNION {Words(b) : b \in InHand'}
    BY DEF HandWords
  <2>2. InHand' \subseteq InHand
    BY <1>2, <1>3, <1>4
  <2>3. ASSUME NEW b \in InHand' PROVE Words(b) \cap Words(blk) = {}
    <3>1. PICK i \in cur.at + 1 .. scratch.n : b = scratch.b[i]
      BY <1>4
    <3>2. i \in 1 .. scratch.n /\ i # cur.at
      BY <1>2
    <3>3. MaxScratch \in Nat /\ IsList(scratch, MaxScratch) /\ Separate(scratch)
      BY DMFileAssumption DEF TypeOK, Sound, ListInv
    <3> QED BY <1>2, <3>1, <3>2, <3>3, SeparateWords
  <2> QED BY <1>3, <2>1, <2>2, <2>3 DEF HandWords
<1>6. InHand' \subseteq InHand
  BY <1>2, <1>3, <1>4
<1>7. /\ IsSpace(mem) /\ WellFormed(mem)
      /\ Words(blk) \cap FreeWords(mem.free) = {}
      /\ First =< blk.start /\ Stop(blk) =< mem.next
  BY <1>3, <1>5 DEF TypeOK, Sound, ListInv, ListsWellFormed, NoOverlap,
                    SpaceInv, Below
<1> HIDE DEF blk
<1>8. /\ WellFormed(mem') /\ mem'.next = mem.next
      /\ FreeWords(mem'.free) \subseteq FreeWords(mem.free) \cup Words(blk)
  BY <1>1, <1>2, <1>7, FreedWords
<1>9. Held' = Held /\ \A t : BlockOf(t)' = BlockOf(t)
  BY <1>1 DEF Held, BlockOf
<1>10. HeldApart' /\ HeldWords' \subseteq HeldWords
  BY <1>9, HeldKept DEF Sound
<1>11. SpaceInv'
  BY <1>1, <1>6, <1>8, <1>9 DEF Sound, SpaceInv, Below
<1>12. ListInv'
  BY <1>1, <1>8 DEF Sound, ListInv, ListsWellFormed, WellFormed
<1>13. NoOverlap'
  BY <1>1, <1>5, <1>8, <1>10 DEF Sound, NoOverlap, HeldApart
<1> QED BY <1>11, <1>12, <1>13 DEF Sound

\* The list without blocks.
LEMMA NoBlocksEmpty ==
  NoBlocks.n = 0 /\ Separate(NoBlocks) /\ FreeWords(NoBlocks) = {}
  /\ \A f, n : Within(NoBlocks, f, n)
<1>1. NoBlocks.n = 0
  BY DEF NoBlocks
<1> QED BY <1>1 DEF Separate, FreeWords, Within

\* DM_WSPC: the space goes to file, with nothing left in hand.
LEMMA WriteSpaceSound ==
  ASSUME TypeOK, TypeOK', Sound, WriteSpace
  PROVE  Sound'
<1>1. /\ pc = "space" /\ pc' = "idle" /\ ~Writing /\ ~Writing'
      /\ disk' = mem /\ mem' = mem /\ scratch' = NoBlocks
      /\ UNCHANGED <<ptr, word>>
  BY DEF WriteSpace, Writing
<1>2. scratch'.n = 0 /\ Separate(scratch')
  BY <1>1, NoBlocksEmpty
<1>3. InHand' = {} /\ HandWords' = {}
  <2>1. (IF pc' = "space" THEN cur'.at ELSE 1) .. scratch'.n = {}
    BY <1>1, <1>2
  <2>2. InHand' = {}
    BY <1>1, <2>1 DEF InHand
  <2> QED BY <2>2 DEF HandWords
<1>4. Held' = Held /\ \A t : BlockOf(t)' = BlockOf(t)
  BY <1>1 DEF Held, BlockOf
<1>5. HeldApart' /\ HeldWords' \subseteq HeldWords
  BY <1>4, HeldKept DEF Sound
<1>6. SpaceInv'
  BY <1>1, <1>2, <1>3, <1>4 DEF Sound, SpaceInv, Below
<1>7. ListInv'
  BY <1>1, <1>2 DEF Sound, ListInv, ListsWellFormed, WellFormed
<1>8. NoOverlap'
  BY <1>1, <1>3, <1>5 DEF Sound, NoOverlap, HeldApart
<1> QED BY <1>6, <1>7, <1>8 DEF Sound

\* A program that does not die while it replaces data leaves the slot it was
\* writing with no data, or with the block that was in hand.
LEMMA CrashSound ==
  ASSUME TypeOK, TypeOK', Sound, Crash, ~Replacing
  PROVE  Sound'
<1> DEFINE blk == [len |-> cur.len + 1, start |-> cur.start]
<1>1. /\ pc' = "idle" /\ ~Writing' /\ mem' = disk /\ scratch' = NoBlocks
      /\ UNCHANGED <<disk, ptr, word>>
  BY DEF Crash, Writing
<1>2. scratch'.n = 0 /\ Separate(scratch')
  BY <1>1, NoBlocksEmpty
<1>3. InHand' = {} /\ HandWords' = {}
  <2>1. (IF pc' = "space" THEN cur'.at ELSE 1) .. scratch'.n = {}
    BY <1>1, <1>2
  <2>2. InHand' = {}
    BY <1>1, <2>1 DEF InHand
  <2> QED BY <2>2 DEF HandWords
<1>4. \A t \in Held' : \/ t \in Held /\ BlockOf(t)' = BlockOf(t)
                       \/ t = cur.slot /\ BlockOf(t)' \in InHand
  <2> SUFFICES ASSUME NEW t \in Held', t \notin Held
               PROVE  t = cur.slot /\ BlockOf(t)' \in InHand
    BY <1>1 DEF BlockOf
  <2>1. Writing /\ t = cur.slot /\ ptr[t] # 0
    BY <1>1 DEF Held
  <2>2. pc \in {"body", "point"} /\ cur.start = ptr[t]
    BY <2>1 DEF Replacing, Writing
  <2>3. word[cur.start] = cur.len /\ scratch.n = 0
    BY <2>2 DEF Sound, SpaceInv
  <2>4. BlockOf(t)' = blk
    BY <1>1, <2>2, <2>3 DEF BlockOf
  <2>5. InHand = {blk}
    BY <2>1, <2>3, CallHand
  <2> QED BY <2>1, <2>4, <2>5
<1>5. HeldApart' /\ HeldWords' \subseteq HeldWords \cup HandWords
  BY <1>4, HeldTaken DEF Sound
<1>6. SpaceInv'
  <2>1. \A t \in Held' : Below(BlockOf(t))'
    BY <1>1, <1>4 DEF Sound, SpaceInv, Below
  <2> QED BY <1>1, <1>2, <1>3, <2>1 DEF Sound, SpaceInv, Below
<1>7. ListInv'
  BY <1>1, <1>2 DEF Sound, ListInv, ListsWellFormed, WellFormed
<1>8. NoOverlap'
  BY <1>1, <1>3, <1>5 DEF Sound, NoOverlap, HeldApart
<1> QED BY <1>6, <1>7, <1>8 DEF Sound

-----------------------------------------------------------------------------
\* In an empty file no word is used.
LEMMA InitSound == Init => Sound
<1> SUFFICES ASSUME Init PROVE Sound
  OBVIOUS
<1>1. /\ mem.next = First /\ mem.free = NoBlocks /\ disk = mem
      /\ pc = "idle" /\ scratch = NoBlocks /\ Held = {} /\ InHand = {}
  <2>1. Held = {}
    BY DEF Init, Held
  <2>2. InHand = {}
    BY NoBlocksEmpty DEF Init, InHand, Writing
  <2> QED BY <2>1, <2>2 DEF Init
<1>2. HeldWords = {} /\ HandWords = {}
  BY <1>1 DEF HeldWords, HandWords
<1>3. First =< First
  BY DMFileAssumption
<1>4. SpaceInv
  BY <1>1, <1>3, NoBlocksEmpty DEF SpaceInv
<1>5. ListInv
  BY <1>1, NoBlocksEmpty, Types DEF ListInv, ListsWellFormed, WellFormed
<1>6. NoOverlap
  BY <1>1, <1>2, NoBlocksEmpty DEF NoOverlap
<1> QED BY <1>4, <1>5, <1>6 DEF Sound

\* No request gives a word two uses,
LEMMA RequestSound == TypeOK /\ TypeOK' /\ Sound /\ Request => Sound'
<1> SUFFICES ASSUME TypeOK, TypeOK', Sound, Request PROVE Sound'
  OBVIOUS
<1>1. ASSUME NEW r \in Row, WriteRowHeader(r) PROVE Sound'
  BY <1>1, SoundSame DEF WriteRowHeader, space, call
<1>2. ASSUME NEW c \in Col, WriteColHeader(c) PROVE Sound'
  BY <1>2, SoundSame DEF WriteColHeader, space, call
<1>3. ASSUME NEW c \in Col, DeleteColHeader(c) PROVE Sound'
  BY <1>3, SoundSame DEF DeleteColHeader, space, call
<1>4. ASSUME NEW s \in Slot, NEW n \in Lens, NEW v \in Val, Overwrite(s, n, v)
      PROVE  Sound'
  BY <1>4, OverwriteSound
<1>5. ASSUME NEW s \in Slot, NEW n \in Lens, NEW v \in Val, Allocate(s, n, v)
      PROVE  Sound'
  BY <1>5, AllocateSound
<1>6. ASSUME NEW s \in Slot, Unlink(s) PROVE Sound'
  BY <1>6, UnlinkSound
<1>7. ASSUME NEW byrow, NEW hdrs, DeleteAll(byrow, hdrs) PROVE Sound'
  BY <1>7, DeleteAllSound
<1> QED BY <1>1, <1>2, <1>3, <1>4, <1>5, <1>6, <1>7 DEF Request

\* and no step of a call does.
LEMMA StepSound == TypeOK /\ TypeOK' /\ Sound /\ Step => Sound'
BY WriteLengthSound, WriteBodySound, WritePointerSound, FreeBlockSound,
   UnlinkNextSound, DeleteHeaderSound, FreeScratchSound, WriteSpaceSound
   DEF Step

\* The pieces of the invariant that the properties are.
LEMMA SoundIs == Sound => NoOverlap /\ ListsWellFormed /\ PointersBelowNext
BY DEF Sound, SpaceInv, ListInv, PointersBelowNext, Below, BlockOf

(***************************************************************************)
(* However often programs die, a file in which no replacement of data by   *)
(* data of another length was cut off has no word with two uses, and lists *)
(* that DM_GSPC can rely on.                                               *)
(***************************************************************************)
THEOREM SoundUnlessCut == CutSpec => []SoundUntilCut
<1> DEFINE Inv == TypeInv /\ (cut \/ Sound)
<1>1. CutInit => Inv
  BY InitTypeInv, InitSound DEF CutInit
<1>2. Inv /\ [CutNext]_<<vars, cut>> => Inv'
  <2> SUFFICES ASSUME Inv, [CutNext]_<<vars, cut>> PROVE Inv'
    OBVIOUS
  <2>1. TypeInv'
    BY RequestTypeInv, StepTypeInv, StutterTypeInv DEF CutNext
  <2>2. TypeOK /\ TypeOK'
    BY <2>1 DEF TypeInv
  <2>3. CASE Request /\ UNCHANGED cut
    BY <2>1, <2>2, <2>3, RequestSound
  <2>4. CASE Step /\ UNCHANGED cut
    BY <2>1, <2>2, <2>4, StepSound
  <2>5. CASE Crash /\ cut' = (cut \/ Replacing)
    BY <2>1, <2>2, <2>5, CrashSound
  <2>6. CASE UNCHANGED <<vars, cut>>
    <3>1. Sound => Sound'
      BY <2>6, SoundSame DEF vars
    <3> QED BY <2>1, <2>6, <3>1
  <2> QED BY <2>3, <2>4, <2>5, <2>6 DEF CutNext
<1>3. Inv => SoundUntilCut
  BY SoundIs DEF SoundUntilCut
<1> QED BY <1>1, <1>2, <1>3, PTL DEF CutSpec

-----------------------------------------------------------------------------
(***************************************************************************)
(* Files in which no replacement is ever cut off: no program dies, or none *)
(* replaces data by data of another length.                                *)
(***************************************************************************)
Uncut == ~CanResize => ~Replacing

\* Where data keeps its length no step begins a replacement.
LEMMA UncutStep == TypeOK /\ Uncut /\ [Next]_vars => Uncut'
<1> SUFFICES ASSUME TypeOK, ~CanResize, ~Replacing, [Next]_vars
             PROVE  ~Replacing'
  BY DEF Uncut
<1> USE DEF Replacing, Writing
<1>1. ASSUME NEW r \in Row, WriteRowHeader(r) PROVE ~Replacing'
  BY <1>1 DEF WriteRowHeader, space, call
<1>2. ASSUME NEW c \in Col, WriteColHeader(c) PROVE ~Replacing'
  BY <1>2 DEF WriteColHeader, space, call
<1>3. ASSUME NEW c \in Col, DeleteColHeader(c) PROVE ~Replacing'
  BY <1>3 DEF DeleteColHeader, space, call
<1>4. ASSUME NEW s \in Slot, NEW n \in Lens, NEW v \in Val, Overwrite(s, n, v)
      PROVE  ~Replacing'
  BY <1>4 DEF Overwrite, space
<1>5. ASSUME NEW s \in Slot, NEW n \in Lens, NEW v \in Val, Allocate(s, n, v)
      PROVE  ~Replacing'
  <2>1. cur'.slot = s /\ ptr[s] = 0 /\ ptr' = ptr
    BY <1>5 DEF Allocate
  <2> QED BY <2>1
<1>6. ASSUME NEW s \in Slot, Unlink(s) PROVE ~Replacing'
  BY <1>6 DEF Unlink
<1>7. ASSUME NEW byrow, NEW hdrs, DeleteAll(byrow, hdrs) PROVE ~Replacing'
  BY <1>7 DEF DeleteAll
<1>8. CASE WriteLength
  BY <1>8 DEF WriteLength, call
<1>9. CASE WriteBody
  <2>1. /\ pc = "body" /\ ptr' = ptr /\ cur \in Call
        /\ cur'.slot = cur.slot /\ cur'.start = cur.start
        /\ pc' \in {"body", "point"}
    BY <1>9 DEF WriteBody, TypeOK, Call
  <2> QED BY <2>1
<1>10. CASE WritePointer \/ FreeBlock
  BY <1>10 DEF WritePointer, FreeBlock
<1>11. CASE UnlinkNext \/ DeleteHeader
  BY <1>11 DEF UnlinkNext, DeleteHeader
<1>12. CASE FreeScratch \/ WriteSpace \/ Crash
  BY <1>12 DEF FreeScratch, WriteSpace, Crash
<1>13. CASE UNCHANGED vars
  BY <1>13 DEF vars
<1> QED
  BY <1>1, <1>2, <1>3, <1>4, <1>5, <1>6, <1>7, <1>8, <1>9, <1>10, <1>11,
     <1>12, <1>13 DEF Next, Request, Step

FileInv == TypeInv /\ Uncut /\ Sound

\* The invariant of a file in which no replacement is cut off.
LEMMA FileInvInit == Init => FileInv
<1>1. Init => ~Replacing
  BY DEF Init, Replacing, Writing
<1> QED BY <1>1, InitTypeInv, InitSound DEF FileInv, Uncut

\* It is kept: a crash in such a file is not in a replacement.
LEMMA FileInvStep ==
  ASSUME ~(CanCrash /\ CanResize)
  PROVE  FileInv /\ [Next]_vars => FileInv'
<1> SUFFICES ASSUME FileInv, [Next]_vars PROVE FileInv'
  OBVIOUS
<1>1. TypeInv /\ TypeInv'
  BY RequestTypeInv, StepTypeInv, StutterTypeInv DEF FileInv, Next
<1>2. Uncut /\ Uncut'
  BY <1>1, UncutStep DEF FileInv, TypeInv
<1>3. TypeOK /\ TypeOK' /\ Sound
  BY <1>1 DEF TypeInv, FileInv
<1>4. ASSUME Request PROVE Sound'
  BY <1>3, <1>4, RequestSound
<1>5. ASSUME Step PROVE Sound'
  BY <1>3, <1>5, StepSound
<1>6. ASSUME Crash PROVE Sound'
  <2>1. ~Replacing
    BY <1>2, <1>6 DEF Crash, Uncut
  <2> QED BY <1>3, <1>6, <2>1, CrashSound
<1>7. ASSUME UNCHANGED vars PROVE Sound'
  BY <1>3, <1>7, SoundSame DEF vars
<1>8. Sound'
  BY <1>4, <1>5, <1>6, <1>7 DEF Next
<1> QED BY <1>1, <1>2, <1>8 DEF FileInv

\* It holds in every state.
LEMMA SpecFileInv ==
  ASSUME ~(CanCrash /\ CanResize)
  PROVE  Spec => []FileInv
BY FileInvInit, FileInvStep, PTL DEF Spec

(***************************************************************************)
(* No word of a file is used twice, whatever is written, replaced and      *)
(* deleted when no program dies, and through any number of deaths when no  *)
(* data is replaced by data of another length.                             *)
(***************************************************************************)
THEOREM NoWordUsedTwice ==
  ASSUME ~(CanCrash /\ CanResize)
  PROVE  Spec => []NoOverlap
<1>1. FileInv => NoOverlap
  BY SoundIs DEF FileInv
<1> QED BY <1>1, SpecFileInv, PTL

(***************************************************************************)
(* In the same files, the lists of free blocks in memory and on file are   *)
(* in order, their entries neither touch nor overlap, and they lie within  *)
(* the space allocated so far.                                             *)
(***************************************************************************)
THEOREM ListsAreWellFormed ==
  ASSUME ~(CanCrash /\ CanResize)
  PROVE  Spec => []ListsWellFormed
<1>1. FileInv => ListsWellFormed
  BY SoundIs DEF FileInv
<1> QED BY <1>1, SpecFileInv, PTL

(***************************************************************************)
(* In the same files, every block with a pointer lies below the next free  *)
(* word on file: a program that opens the file never takes it again.       *)
(***************************************************************************)
THEOREM BlocksBelowNext ==
  ASSUME ~(CanCrash /\ CanResize)
  PROVE  Spec => []PointersBelowNext
<1>1. FileInv => PointersBelowNext
  BY SoundIs DEF FileInv
<1> QED BY <1>1, SpecFileInv, PTL

-----------------------------------------------------------------------------
(***************************************************************************)
(* Data lies under defined headers only.                                   *)
(***************************************************************************)
HeaderInv ==
    /\ NoOrphans
    /\ Writing => cur.slot[1] \in rows /\ cur.slot[2] \in cols

\* Headers that are defined are kept while data lies under them.
LEMMA HeaderStep == TypeOK /\ HeaderInv /\ [Next]_vars => HeaderInv'
<1> SUFFICES ASSUME TypeOK, HeaderInv, [Next]_vars PROVE HeaderInv'
  OBVIOUS
<1> USE DEF HeaderInv, NoOrphans, Writing
<1>1. ASSUME NEW r \in Row, WriteRowHeader(r) PROVE HeaderInv'
  BY <1>1 DEF WriteRowHeader, space, call
<1>2. ASSUME NEW c \in Col, WriteColHeader(c) PROVE HeaderInv'
  BY <1>2 DEF WriteColHeader, space, call
<1>3. ASSUME NEW c \in Col, DeleteColHeader(c) PROVE HeaderInv'
  BY <1>3 DEF DeleteColHeader, space, call
<1>4. ASSUME NEW s \in Slot, NEW n \in Lens, NEW v \in Val, Overwrite(s, n, v)
      PROVE  HeaderInv'
  BY <1>4 DEF Overwrite, space, heads
<1>5. ASSUME NEW s \in Slot, NEW n \in Lens, NEW v \in Val, Allocate(s, n, v)
      PROVE  HeaderInv'
  <2>1. cur'.slot = s /\ s[1] \in rows /\ s[2] \in cols
        /\ UNCHANGED <<ptr, rows, cols>>
    BY <1>5 DEF Allocate, heads
  <2> QED BY <2>1
<1>6. ASSUME NEW s \in Slot, Unlink(s) PROVE HeaderInv'
  <2>1. pc' = "free" /\ UNCHANGED <<rows, cols>>
        /\ \A t \in Slot : ptr'[t] # 0 => ptr[t] # 0
    BY <1>6 DEF Unlink, heads, TypeOK
  <2> QED BY <2>1
<1>7. ASSUME NEW byrow, NEW hdrs, DeleteAll(byrow, hdrs) PROVE HeaderInv'
  BY <1>7 DEF DeleteAll, heads
<1>8. CASE WriteLength
  BY <1>8 DEF WriteLength, call, heads
<1>9. CASE WriteBody
  <2>1. /\ pc = "body" /\ UNCHANGED <<ptr, rows, cols>> /\ cur \in Call
        /\ cur'.slot = cur.slot
    BY <1>9 DEF WriteBody, TypeOK, Call, heads
  <2> QED BY <2>1
<1>10. CASE WritePointer
  <2>1. pc = "point" /\ pc' = "idle" /\ UNCHANGED <<rows, cols>>
        /\ \A t \in Slot : ptr'[t] # 0 => ptr[t] # 0 \/ t = cur.slot
    BY <1>10 DEF WritePointer, heads, TypeOK
  <2> QED BY <2>1
<1>11. CASE UnlinkNext
  <2>1. pc = "delete" /\ pc' = "delete" /\ UNCHANGED <<rows, cols>>
        /\ \A t \in Slot : ptr'[t] # 0 => ptr[t] # 0
    BY <1>11 DEF UnlinkNext, heads, TypeOK
  <2> QED BY <2>1
<1>12. CASE DeleteHeader
  <2>1. /\ pc' \in {"delete", "idle", "space"} /\ ptr' = ptr /\ Victims = {}
        /\ rows' = IF dels.byrow THEN rows \ {Doomed} ELSE rows
        /\ cols' = IF dels.byrow THEN cols ELSE cols \ {Doomed}
    BY <1>12 DEF DeleteHeader
  <2>2. ASSUME NEW s \in Slot, ptr[s] # 0
        PROVE  IF dels.byrow THEN s[1] # Doomed ELSE s[2] # Doomed
    BY <2>1, <2>2 DEF Victims
  <2> QED BY <2>1, <2>2
<1>13. CASE FreeBlock \/ FreeScratch \/ WriteSpace \/ Crash
  BY <1>13 DEF FreeBlock, FreeScratch, WriteSpace, Crash, heads
<1>14. CASE UNCHANGED vars
  BY <1>14 DEF vars
<1> QED
  BY <1>1, <1>2, <1>3, <1>4, <1>5, <1>6, <1>7, <1>8, <1>9, <1>10, <1>11,
     <1>12, <1>13, <1>14 DEF Next, Request, Step

(***************************************************************************)
(* No data is left behind by a row or column that is deleted, in any file. *)
(***************************************************************************)
THEOREM NothingLeftBehind == Spec => []NoOrphans
<1>1. Init => HeaderInv
  BY DEF Init, HeaderInv, NoOrphans, Writing
<1>2. TypeInv => TypeOK
  BY DEF TypeInv
<1>3. HeaderInv => NoOrphans
  BY DEF HeaderInv
<1> QED BY <1>1, <1>2, <1>3, HeaderStep, SpecTypeInv, PTL DEF Spec

-----------------------------------------------------------------------------
(***************************************************************************)
(* A file implements the map from slots to data: the refinement mapping,   *)
(* and what has been written of the data in hand.                          *)
(***************************************************************************)
Shown == [s \in Slot |-> Content(s)]
Busy  == IF Writing THEN <<cur.slot, cur.val>> ELSE NoCall

DataInv ==
    /\ Writing => cur.val \in Val /\ cur.len \in Nat \ {0}
    /\ pc = "length" => cur.at = cur.start + 1
    /\ pc = "body" => \A w \in cur.start + 1 .. cur.at - 1 : word[w] = cur.val
    /\ pc = "point" =>
          \A w \in cur.start + 1 .. cur.start + cur.len : word[w] = cur.val

\* A pointer is a number.
LEMMA PointerNat ==
  ASSUME TypeOK, NEW s \in Slot
  PROVE  ptr[s] \in Nat
<1>1. ptr[s] = 0 \/ ptr[s] \in Word
  BY DEF TypeOK
<1>2. Word \subseteq Nat
  BY Types
<1>3. CASE ptr[s] = 0
  BY <1>3
<1>4. CASE ptr[s] \in Word
  BY <1>2, <1>4
<1> QED BY <1>1, <1>3, <1>4

\* What is in hand has been written up to the word the call is at.
LEMMA DataStep == TypeOK /\ DataInv /\ [Next]_vars => DataInv'
<1> SUFFICES ASSUME TypeOK, DataInv, [Next]_vars PROVE DataInv'
  OBVIOUS
<1> USE DEF DataInv, Writing
<1>1. ASSUME NEW r \in Row, WriteRowHeader(r) PROVE DataInv'
  BY <1>1 DEF WriteRowHeader, space, call
<1>2. ASSUME NEW c \in Col, WriteColHeader(c) PROVE DataInv'
  BY <1>2 DEF WriteColHeader, space, call
<1>3. ASSUME NEW c \in Col, DeleteColHeader(c) PROVE DataInv'
  BY <1>3 DEF DeleteColHeader, space, call
<1>4. ASSUME NEW s \in Slot, NEW n \in Lens, NEW v \in Val, Overwrite(s, n, v)
      PROVE  DataInv'
  <2>1. /\ cur'.val = v /\ cur'.len = n /\ pc' = "body"
        /\ cur'.start = ptr[s] /\ cur'.at = ptr[s] + 1
    BY <1>4 DEF Overwrite
  <2>2. cur'.start + 1 .. cur'.at - 1 = {}
    <3>1. ptr[s] \in Nat
      BY PointerNat
    <3> QED BY <2>1, <3>1
  <2> QED BY <2>1, <2>2, DMFileAssumption
<1>5. ASSUME NEW s \in Slot, NEW n \in Lens, NEW v \in Val, Allocate(s, n, v)
      PROVE  DataInv'
  <2>1. /\ cur'.val = v /\ cur'.len = n /\ pc' = "length"
        /\ cur'.at = cur'.start + 1
    BY <1>5 DEF Allocate
  <2> QED BY <2>1, DMFileAssumption
<1>6. ASSUME NEW s \in Slot, Unlink(s) PROVE DataInv'
  BY <1>6 DEF Unlink
<1>7. ASSUME NEW byrow, NEW hdrs, DeleteAll(byrow, hdrs) PROVE DataInv'
  BY <1>7 DEF DeleteAll
<1>8. CASE WriteLength
  <2>1. cur' = cur /\ pc = "length" /\ pc' = "body" /\ cur.at = cur.start + 1
    BY <1>8 DEF WriteLength, call
  <2>2. cur.start + 1 .. cur.at - 1 = {}
    <3>1. cur.start \in Nat
      BY DEF TypeOK, Call
    <3> QED BY <2>1, <3>1
  <2> QED BY <2>1, <2>2
<1>9. CASE WriteBody
  <2> DEFINE stop == cur.start + cur.len
             last == IF RecordEnd(cur.at) < stop THEN RecordEnd(cur.at) ELSE stop
  <2>1. /\ pc = "body" /\ cur \in Call /\ cur.start \in Word
        /\ cur.at > cur.start /\ stop \in Word
        /\ word' = [w \in Word |-> IF w \in cur.at .. last THEN cur.val
                                   ELSE word[w]]
        /\ pc' = IF last = stop THEN "point" ELSE "body"
        /\ cur' = IF last = stop THEN cur ELSE [cur EXCEPT !.at = last + 1]
    BY <1>9 DEF WriteBody, TypeOK
  <2>2. cur.at \in Nat \ {0} /\ stop \in Nat /\ cur.start \in Nat
        /\ First \in Nat /\ MaxWord \in Nat
    BY <2>1, Types, DMFileAssumption DEF Call
  <2>3. last \in Nat /\ last =< stop
    BY <2>2, RecordEndBound
  <2> HIDE DEF last
  <2>4. \A w \in cur.start + 1 .. last : word'[w] = cur.val
    <3> SUFFICES ASSUME NEW w \in cur.start + 1 .. last PROVE word'[w] = cur.val
      OBVIOUS
    <3>1. w \in Word
      BY <2>1, <2>2, <2>3 DEF Word
    <3>2. CASE w < cur.at
      BY <2>1, <2>2, <2>3, <3>1, <3>2
    <3>3. CASE w >= cur.at
      BY <2>1, <2>2, <2>3, <3>1, <3>3
    <3> QED BY <2>2, <2>3, <3>2, <3>3
  <2>5. CASE last = stop
    BY <2>1, <2>4, <2>5
  <2>6. CASE last # stop
    <3>1. /\ cur'.at = last + 1 /\ cur'.start = cur.start /\ cur'.len = cur.len
          /\ cur'.val = cur.val /\ pc' = "body"
      BY <2>1, <2>6 DEF Call
    <3>2. cur'.at - 1 = last
      BY <2>3, <3>1
    <3> QED BY <2>1, <2>4, <3>1, <3>2
  <2> QED BY <2>5, <2>6
<1>10. CASE WritePointer \/ FreeBlock
  BY <1>10 DEF WritePointer, FreeBlock
<1>11. CASE UnlinkNext \/ DeleteHeader
  BY <1>11 DEF UnlinkNext, DeleteHeader
<1>12. CASE FreeScratch \/ WriteSpace \/ Crash
  BY <1>12 DEF FreeScratch, WriteSpace, Crash
<1>13. CASE UNCHANGED vars
  BY <1>13 DEF vars
<1> QED
  BY <1>1, <1>2, <1>3, <1>4, <1>5, <1>6, <1>7, <1>8, <1>9, <1>10, <1>11,
     <1>12, <1>13 DEF Next, Request, Step

\* A slot shows nothing, what some call wrote, or words that no call wrote.
LEMMA ContentType ==
  ASSUME NEW s \in Slot
  PROVE  IF ptr[s] = 0 THEN Content(s) = NoData ELSE Content(s) \in Val \cup {Torn}
<1> DEFINE body == ptr[s] + 1 .. ptr[s] + word[ptr[s]]
           data == {word[w] : w \in body \cap Word}
<1>1. CASE \E v \in Val : data = {v}
  <2>1. (CHOOSE v \in Val : data = {v}) \in Val
    BY <1>1
  <2> QED BY <2>1 DEF Content
<1>2. CASE ~\E v \in Val : data = {v}
  BY <1>2 DEF Content
<1> QED BY <1>1, <1>2

\* A slot whose pointer and words are left alone shows what it showed.
LEMMA ContentSame ==
  ASSUME TypeOK, NEW s \in Slot, ptr'[s] = ptr[s],
         ptr[s] # 0 => \A w \in Words(BlockOf(s)) \cap Word : word'[w] = word[w]
  PROVE  Content(s)' = Content(s)
<1>1. CASE ptr[s] = 0
  BY <1>1 DEF Content
<1>2. CASE ptr[s] # 0
  <2> DEFINE p    == ptr[s]
             body == p + 1 .. p + word[p]
  <2>1. p \in Word /\ p \in Nat /\ word[p] \in Nat
    BY <1>2, Types DEF TypeOK
  <2>2. Words(BlockOf(s)) = p .. p + word[p]
    BY <2>1 DEF Words, BlockOf, Stop
  <2>3. word'[p] = word[p]
    BY <1>2, <2>1, <2>2
  <2>4. \A w \in body \cap Word : word'[w] = word[w]
    BY <1>2, <2>1, <2>2
  <2>5. {word'[w] : w \in body \cap Word} = {word[w] : w \in body \cap Word}
    BY <2>4
  <2> HIDE DEF body
  <2> DEFINE shows(data) == IF body # {} /\ body \subseteq Word /\ \E v \in Val : data = {v}
                            THEN CHOOSE v \in Val : data = {v} ELSE Torn
  <2>6. Content(s) = shows({word[w] : w \in body \cap Word})
    BY <1>2 DEF Content, body
  <2>7. Content(s)' = shows({word'[w] : w \in body \cap Word})
    BY <1>2, <2>3 DEF Content, body
  <2> HIDE DEF shows
  <2> QED BY <2>5, <2>6, <2>7
<1> QED BY <1>1, <1>2

\* What is written of the block in hand leaves the slots that are held alone.
LEMMA HeldShown ==
  ASSUME TypeOK, NoOverlap, NEW t \in Slot, ptr'[t] = ptr[t],
         ptr[t] # 0 => t \in Held,
         \A w \in Word \ HandWords : word'[w] = word[w]
  PROVE  Content(t)' = Content(t)
<1>1. ASSUME ptr[t] # 0, NEW w \in Words(BlockOf(t)) \cap Word
      PROVE  word'[w] = word[w]
  <2>1. w \in HeldWords
    BY <1>1 DEF HeldWords
  <2>2. w \notin HandWords
    BY <2>1 DEF NoOverlap
  <2> QED BY <1>1, <2>2
<1> QED BY <1>1, ContentSame

\* The steps of the map, by what they do to the file.
LEMMA NameFacts ==
  /\ ~Writing => Busy = NoCall
  /\ Writing => Busy = <<cur.slot, cur.val>>
  /\ Writing /\ cur.slot \in Slot /\ cur.val \in Val => Busy # NoCall
BY NamesAssumption DEF Busy

\* A step that leaves pointers and words alone and writes no data.
LEMMA StutterStore ==
  ASSUME TypeOK, ~Writing, ~Writing', UNCHANGED <<ptr, word>>
  PROVE  UNCHANGED <<Shown, Busy>>
<1>1. \A s \in Slot : Content(s)' = Content(s)
  BY DEF Content
<1> QED BY <1>1 DEF Shown, Busy

\* A call that will write data.
LEMMA BeginStore ==
  ASSUME TypeOK, ~Writing, Writing', UNCHANGED <<ptr, word>>,
         NEW s \in Slot, NEW v \in Val, cur'.slot = s, cur'.val = v
  PROVE  Store!Next
<1>1. \A t \in Slot : Content(t)' = Content(t)
  BY DEF Content
<1>2. Shown' = Shown
  BY <1>1 DEF Shown
<1>3. Busy = NoCall /\ Busy' = <<s, v>>
  BY DEF Busy
<1>4. Store!Begin(s, v)
  BY <1>2, <1>3 DEF Store!Begin, Shown, Busy
<1> QED BY <1>4 DEF Store!Next

\* A pointer is blanked.
LEMMA RemoveStore ==
  ASSUME TypeOK, ~Writing, ~Writing', NEW s \in Slot,
         ptr' = [ptr EXCEPT ![s] = 0], word' = word
  PROVE  Store!Next
<1>1. ASSUME NEW t \in Slot
      PROVE  Content(t)' = IF t = s THEN NoData ELSE Content(t)
  <2>1. ptr'[t] = IF t = s THEN 0 ELSE ptr[t]
    BY DEF TypeOK
  <2>2. CASE t = s
    BY <2>1, <2>2 DEF Content
  <2>3. CASE t # s
    <3>1. ptr'[t] = ptr[t]
      BY <2>1, <2>3
    <3>2. Content(t)' = Content(t)
      BY <3>1, ContentSame
    <3> QED BY <2>3, <3>2
  <2> QED BY <2>2, <2>3
<1>2. Shown' = [Shown EXCEPT ![s] = NoData]
  BY <1>1 DEF Shown
<1>3. Busy = NoCall /\ Busy' = NoCall
  BY DEF Busy
<1>4. Store!Remove(s)
  BY <1>2, <1>3 DEF Store!Remove, Shown, Busy
<1> QED BY <1>4 DEF Store!Next

\* Words of the block in hand are written.
LEMMA SpoilStore ==
  ASSUME TypeOK, Sound, DataInv, Writing, Writing', ptr' = ptr,
         cur'.slot = cur.slot, cur'.val = cur.val,
         \A w \in Word \ HandWords : word'[w] = word[w]
  PROVE  Store!Next \/ UNCHANGED <<Shown, Busy>>
<1>0. PICK s \in Slot : s = cur.slot
  BY DEF TypeOK, Call
<1> DEFINE d == Content(s)'
<1>1. s \in Slot /\ cur.val \in Val /\ s = cur.slot
  BY <1>0 DEF DataInv
<1>2. Busy = <<s, cur.val>> /\ Busy' = Busy /\ Busy # NoCall
  BY <1>1, NameFacts DEF Busy
<1>3. \A t \in Slot : t # s => Content(t)' = Content(t)
  <2> SUFFICES ASSUME NEW t \in Slot, t # s PROVE Content(t)' = Content(t)
    OBVIOUS
  <2>1. ptr[t] # 0 => t \in Held
    BY <1>0 DEF Held
  <2> QED BY <2>1, HeldShown DEF Sound
<1>4. CASE ptr[s] = 0
  <2>1. Content(s)' = Content(s)
    BY <1>4 DEF Content
  <2>2. \A t \in Slot : Content(t)' = Content(t)
    BY <1>3, <2>1
  <2>3. Shown' = Shown
    BY <2>2 DEF Shown
  <2> QED BY <1>2, <2>3
<1>5. CASE ptr[s] # 0
  <2>1. Content(s) # NoData
    BY <1>1, <1>5, ContentType, NamesAssumption
  <2>2. d \in Val \cup {Torn}
    <3> DEFINE body == ptr[s] + 1 .. ptr[s] + word'[ptr[s]]
               data == {word'[w] : w \in body \cap Word}
    <3>1. d = IF body # {} /\ body \subseteq Word /\ \E v \in Val : data = {v}
              THEN CHOOSE v \in Val : data = {v} ELSE Torn
      BY <1>5 DEF Content
    <3>2. CASE \E v \in Val : data = {v}
      <4>1. (CHOOSE v \in Val : data = {v}) \in Val
        BY <3>2
      <4> HIDE DEF d, body, data
      <4> QED BY <3>1, <4>1
    <3>3. CASE ~\E v \in Val : data = {v}
      BY <3>1, <3>3
    <3> QED BY <3>2, <3>3
  <2> HIDE DEF d
  <2>3. Shown' = [Shown EXCEPT ![s] = d]
    <3>1. \A t \in Slot : Content(t)' = IF t = s THEN d ELSE Content(t)
      BY <1>3 DEF d
    <3> QED BY <1>1, <3>1 DEF Shown
  <2>4. Shown[s] # NoData
    BY <1>1, <2>1 DEF Shown
  <2>5. Busy[1] = s
    BY <1>2
  <2>6. Store!Spoil
    BY <1>2, <2>2, <2>3, <2>4, <2>5 DEF Store!Spoil, Shown, Busy
  <2> QED BY <2>6 DEF Store!Next
<1> QED BY <1>4, <1>5

\* The pointer is written: the slot shows the data of the call.
LEMMA FinishStore ==
  ASSUME TypeOK, Sound, DataInv, WritePointer
  PROVE  Store!Next
<1>0. PICK s \in Slot : s = cur.slot
  BY DEF TypeOK, Call
<1> DEFINE body == cur.start + 1 .. cur.start + cur.len
<1>1. /\ pc = "point" /\ Writing /\ ~Writing'
      /\ ptr' = [ptr EXCEPT ![s] = cur.start] /\ word' = word
  BY <1>0 DEF WritePointer, Writing
<1>2. /\ s \in Slot /\ cur.val \in Val /\ cur.start \in Word /\ cur.len \in Nat \ {0}
      /\ cur.start + cur.len \in Word /\ cur.start \in Nat \ {0}
      /\ word[cur.start] = cur.len /\ \A w \in body : word[w] = cur.val
  BY <1>1, Types DEF TypeOK, Call, DataInv, Sound, SpaceInv
<1>3. body # {} /\ body \subseteq Word
  <2>1. cur.start + 1 \in body
    BY <1>2
  <2>2. First \in Nat /\ MaxWord \in Nat
    BY DMFileAssumption
  <2> QED BY <1>2, <2>1, <2>2 DEF Word
<1>4. {word[w] : w \in body \cap Word} = {cur.val}
  BY <1>2, <1>3
<1>5. Content(s)' = cur.val
  <2>1. ptr'[s] = cur.start /\ cur.start # 0 /\ word'[ptr'[s]] = cur.len
    BY <1>1, <1>2 DEF TypeOK
  <2>2. Content(s)' = IF body # {} /\ body \subseteq Word
                         /\ \E v \in Val : {word[w] : w \in body \cap Word} = {v}
                      THEN CHOOSE v \in Val : {word[w] : w \in body \cap Word} = {v}
                      ELSE Torn
    BY <1>1, <1>2, <2>1 DEF Content
  <2> HIDE DEF body
  <2>3. Content(s)' = CHOOSE v \in Val : {cur.val} = {v}
    BY <1>2, <1>3, <1>4, <2>2
  <2>4. \A v : {cur.val} = {v} <=> v = cur.val
    OBVIOUS
  <2> QED BY <1>2, <2>3, <2>4
<1>6. ASSUME NEW t \in Slot, t # s PROVE Content(t)' = Content(t)
  <2>1. ptr'[t] = ptr[t]
    BY <1>1, <1>6 DEF TypeOK
  <2> QED BY <1>1, <2>1, ContentSame
<1>7. Shown' = [Shown EXCEPT ![s] = cur.val]
  <2>1. \A t \in Slot : Content(t)' = IF t = s THEN cur.val ELSE Content(t)
    BY <1>5, <1>6
  <2> QED BY <1>2, <2>1 DEF Shown
<1>8. Busy = <<s, cur.val>> /\ Busy # NoCall /\ Busy' = NoCall
  BY <1>0, <1>1, <1>2, NameFacts DEF Busy
<1>9. Busy[1] = s /\ Busy[2] = cur.val
  BY <1>8
<1>10. Store!Finish
  BY <1>7, <1>8, <1>9 DEF Store!Finish, Shown, Busy
<1> QED BY <1>10 DEF Store!Next

\* A write that is cut off is abandoned.
LEMMA AbandonStore ==
  ASSUME TypeOK, DataInv, Crash
  PROVE  Store!Next \/ UNCHANGED <<Shown, Busy>>
<1>1. ~Writing' /\ UNCHANGED <<ptr, word>>
  BY DEF Crash, Writing
<1>2. CASE ~Writing
  BY <1>1, <1>2, StutterStore
<1>3. CASE Writing
  <2>1. cur.slot \in Slot /\ cur.val \in Val
    BY <1>3 DEF TypeOK, Call, DataInv
  <2>2. Busy # NoCall /\ Busy' = NoCall
    BY <1>1, <1>3, <2>1, NameFacts DEF Busy
  <2>3. \A t \in Slot : Content(t)' = Content(t)
    BY <1>1 DEF Content
  <2>4. Shown' = Shown
    BY <2>3 DEF Shown
  <2>5. Store!Abandon
    BY <2>2, <2>4 DEF Store!Abandon, Shown, Busy
  <2> QED BY <2>5 DEF Store!Next
<1> QED BY <1>2, <1>3

\* The writes of the length and of the data stay in the block in hand.
LEMMA WriteLengthWords ==
  ASSUME TypeOK, Sound, WriteLength
  PROVE  /\ Writing /\ Writing' /\ ptr' = ptr /\ mem' = mem /\ scratch' = scratch
         /\ cur'.slot = cur.slot /\ cur'.val = cur.val
         /\ cur'.start = cur.start /\ cur'.len = cur.len
         /\ \A w \in Word \ HandWords : word'[w] = word[w]
<1>1. /\ Writing /\ Writing' /\ ptr' = ptr /\ cur' = cur
      /\ mem' = mem /\ scratch' = scratch /\ scratch.n = 0
      /\ word' = [word EXCEPT ![cur.start] = cur.len]
  BY DEF WriteLength, Writing, call, space, Sound, SpaceInv
<1>2. cur.start \in HandWords
  <2>1. HandWords = Words([len |-> cur.len + 1, start |-> cur.start])
    BY <1>1, CallHand
  <2>2. [len |-> cur.len + 1, start |-> cur.start] \in Block
    BY <1>1, UsedBlocks
  <2> QED BY <2>1, <2>2, WordsOfBlocks
<1>3. \A w \in Word \ HandWords : word'[w] = word[w]
  BY <1>1, <1>2 DEF TypeOK
<1> QED BY <1>1, <1>3

\* The same of a record of data.
LEMMA WriteBodyWords ==
  ASSUME TypeOK, Sound, WriteBody
  PROVE  /\ Writing /\ Writing' /\ ptr' = ptr /\ mem' = mem /\ scratch' = scratch
         /\ cur'.slot = cur.slot /\ cur'.val = cur.val
         /\ cur'.start = cur.start /\ cur'.len = cur.len
         /\ \A w \in Word \ HandWords : word'[w] = word[w]
<1> DEFINE stop == cur.start + cur.len
           last == IF RecordEnd(cur.at) < stop THEN RecordEnd(cur.at) ELSE stop
<1>1. /\ pc = "body" /\ Writing /\ Writing' /\ ptr' = ptr
      /\ mem' = mem /\ scratch' = scratch /\ scratch.n = 0
      /\ word' = [w \in Word |-> IF w \in cur.at .. last THEN cur.val
                                 ELSE word[w]]
      /\ cur' = IF last = stop THEN cur ELSE [cur EXCEPT !.at = last + 1]
  BY DEF WriteBody, Writing, space, Sound, SpaceInv
<1>2. /\ cur \in Call /\ cur.at > cur.start /\ cur.at \in Nat \ {0}
      /\ cur.start \in Nat /\ cur.len \in Nat
  BY <1>1, Types DEF TypeOK, Call
<1>3. last =< stop /\ last \in Nat
  BY <1>2, RecordEndBound
<1> HIDE DEF last
<1>4. /\ cur'.slot = cur.slot /\ cur'.val = cur.val
      /\ cur'.start = cur.start /\ cur'.len = cur.len
  BY <1>1, <1>2 DEF Call
<1>5. HandWords = cur.start .. stop
  <2>1. HandWords = Words([len |-> cur.len + 1, start |-> cur.start])
    BY <1>1, CallHand
  <2> QED BY <1>2, <2>1 DEF Words, Stop
<1>6. \A w \in Word \ HandWords : word'[w] = word[w]
  BY <1>1, <1>2, <1>3, <1>5, Types
<1> QED BY <1>1, <1>4, <1>6

\* Every step of the file is a step of the map, or none.
LEMMA StoreStep ==
  FileInv /\ FileInv' /\ DataInv /\ [Next]_vars => [Store!Next]_<<Shown, Busy>>
<1> SUFFICES ASSUME FileInv, FileInv', DataInv, [Next]_vars
             PROVE  Store!Next \/ UNCHANGED <<Shown, Busy>>
  OBVIOUS
<1>0. TypeOK /\ TypeOK' /\ Sound
  BY DEF FileInv, TypeInv
<1>1. ASSUME NEW r \in Row, WriteRowHeader(r) PROVE UNCHANGED <<Shown, Busy>>
  BY <1>0, <1>1, StutterStore DEF WriteRowHeader, call, Writing
<1>2. ASSUME NEW c \in Col, WriteColHeader(c) PROVE UNCHANGED <<Shown, Busy>>
  BY <1>0, <1>2, StutterStore DEF WriteColHeader, call, Writing
<1>3. ASSUME NEW c \in Col, DeleteColHeader(c) PROVE UNCHANGED <<Shown, Busy>>
  BY <1>0, <1>3, StutterStore DEF DeleteColHeader, call, Writing
<1>4. ASSUME NEW s \in Slot, NEW n \in Lens, NEW v \in Val, Overwrite(s, n, v)
      PROVE  Store!Next
  <2>1. ~Writing /\ Writing' /\ UNCHANGED <<ptr, word>>
        /\ cur'.slot = s /\ cur'.val = v
    BY <1>4 DEF Overwrite, Writing
  <2> QED BY <1>0, <2>1, BeginStore
<1>5. ASSUME NEW s \in Slot, NEW n \in Lens, NEW v \in Val, Allocate(s, n, v)
      PROVE  Store!Next
  <2>1. ~Writing /\ Writing' /\ UNCHANGED <<ptr, word>>
        /\ cur'.slot = s /\ cur'.val = v
    BY <1>5 DEF Allocate, Writing
  <2> QED BY <1>0, <2>1, BeginStore
<1>6. ASSUME NEW s \in Slot, Unlink(s) PROVE Store!Next
  <2>1. ~Writing /\ ~Writing' /\ ptr' = [ptr EXCEPT ![s] = 0] /\ word' = word
    BY <1>6 DEF Unlink, Writing
  <2> QED BY <1>0, <2>1, RemoveStore
<1>7. ASSUME NEW byrow, NEW hdrs, DeleteAll(byrow, hdrs)
      PROVE  UNCHANGED <<Shown, Busy>>
  BY <1>0, <1>7, StutterStore DEF DeleteAll, Writing
<1>8. ASSUME WriteLength PROVE Store!Next \/ UNCHANGED <<Shown, Busy>>
  BY <1>0, <1>8, WriteLengthWords, SpoilStore
<1>9. ASSUME WriteBody PROVE Store!Next \/ UNCHANGED <<Shown, Busy>>
  BY <1>0, <1>9, WriteBodyWords, SpoilStore
<1>10. ASSUME WritePointer PROVE Store!Next
  BY <1>0, <1>10, FinishStore
<1>11. ASSUME FreeBlock PROVE UNCHANGED <<Shown, Busy>>
  BY <1>0, <1>11, StutterStore DEF FreeBlock, Writing
<1>12. ASSUME UnlinkNext PROVE Store!Next
  <2>1. PICK s \in Victims : ptr' = [ptr EXCEPT ![s] = 0]
    BY <1>12 DEF UnlinkNext
  <2>2. s \in Slot /\ ~Writing /\ ~Writing' /\ word' = word
    BY <1>12, <2>1 DEF UnlinkNext, Victims, Writing
  <2> QED BY <1>0, <2>1, <2>2, RemoveStore
<1>13. ASSUME DeleteHeader PROVE UNCHANGED <<Shown, Busy>>
  <2>1. ~Writing /\ ~Writing' /\ UNCHANGED <<ptr, word>>
    BY <1>13 DEF DeleteHeader, Writing
  <2> QED BY <1>0, <2>1, StutterStore
<1>14. ASSUME FreeScratch \/ WriteSpace PROVE UNCHANGED <<Shown, Busy>>
  BY <1>0, <1>14, StutterStore DEF FreeScratch, WriteSpace, Writing
<1>15. ASSUME Crash PROVE Store!Next \/ UNCHANGED <<Shown, Busy>>
  BY <1>0, <1>15, AbandonStore
<1>16. ASSUME UNCHANGED vars PROVE UNCHANGED <<Shown, Busy>>
  BY <1>16 DEF vars, Shown, Busy, Content, Writing
<1> QED
  BY <1>1, <1>2, <1>3, <1>4, <1>5, <1>6, <1>7, <1>8, <1>9, <1>10, <1>11,
     <1>12, <1>13, <1>14, <1>15, <1>16 DEF Next, Request, Step

\* An empty file is an empty map.
LEMMA InitStore == Init => Store!Init
BY DEF Init, Store!Init, Content, Writing

(***************************************************************************)
(* A DM file is a map from slots to data: data appears whole or not at     *)
(* all, goes when it is deleted, and no other slot is ever touched, in     *)
(* files of any size, as long as no replacement of data by data of another *)
(* length is cut off.                                                      *)
(***************************************************************************)
THEOREM FileIsStore ==
  ASSUME ~(CanCrash /\ CanResize)
  PROVE  Spec => Refinement
<1>1. FileInv /\ FileInv' /\ DataInv /\ [Next]_vars =>
         [Store!Next]_<<[s \in Slot |-> Content(s)],
                        IF Writing THEN <<cur.slot, cur.val>> ELSE NoCall>>
  BY StoreStep DEF Shown, Busy
<1>2. Init => DataInv
  BY DEF Init, DataInv, Writing
<1>3. FileInv => TypeOK
  BY DEF FileInv, TypeInv
<1> QED BY <1>1, <1>2, <1>3, DataStep, InitStore, SpecFileInv, PTL
        DEF Spec, Refinement, Store!Spec, Store!vars

-----------------------------------------------------------------------------
(***************************************************************************)
(* What a program that does not die loses.  Data is never empty: no block  *)
(* that a slot holds is taken for nothing when it is replaced.             *)
(***************************************************************************)
LenInv == \A s \in Held : word[ptr[s]] # 0

\* The block in hand after a step outside DM_DALL.
LEMMA HandNext ==
  ASSUME scratch'.n = 0, pc' # "space"
  PROVE  /\ Writing' \/ pc' = "free" =>
               HandWords' = Words([len |-> cur'.len + 1, start |-> cur'.start])
         /\ ~Writing' /\ pc' # "free" => HandWords' = {}
<1>1. (IF pc' = "space" THEN cur'.at ELSE 1) .. scratch'.n = {}
  OBVIOUS
<1>2. /\ Writing' \/ pc' = "free" =>
            InHand' = {[len |-> cur'.len + 1, start |-> cur'.start]}
      /\ ~Writing' /\ pc' # "free" => InHand' = {}
  BY <1>1 DEF InHand
<1>3. HandWords' = UNION {Words(b) : b \in InHand'}
  BY DEF HandWords
<1> QED BY <1>2, <1>3

\* The words of the slots are still held, but for those of slot x.
LEMMA HeldStays ==
  ASSUME NEW x, NEW W, x \in Held => Words(BlockOf(x)) \subseteq W,
         \A t \in Held : t # x => t \in Held' /\ BlockOf(t)' = BlockOf(t)
  PROVE  HeldWords \subseteq HeldWords' \cup W
<1> SUFFICES ASSUME NEW w \in HeldWords PROVE w \in HeldWords' \cup W
  OBVIOUS
<1>1. PICK t \in Held : w \in Words(BlockOf(t))
  BY DEF HeldWords
<1>2. CASE t = x
  BY <1>1, <1>2
<1>3. CASE t # x
  <2>1. Words(BlockOf(t))' = Words(BlockOf(t)) /\ t \in Held'
    BY <1>3 DEF Words, Stop
  <2>2. HeldWords' = UNION {Words(BlockOf(s))' : s \in Held'}
    BY DEF HeldWords
  <2> QED BY <1>1, <2>1, <2>2
<1> QED BY <1>2, <1>3

\* A loss from a list, as LostIsSmallest has it.
SmallLoss(lost, l, max) ==
    lost # {} => /\ l.n = max
                 /\ \A i \in 1 .. l.n : Cardinality(lost) =< l.b[i].len

\* What an addition to a list loses is a small loss.
LEMMA AddBlockSmallLoss ==
  ASSUME NEW max \in Nat \ {0}, NEW l, IsList(l, max), Sorted(l), Separate(l),
         NEW blk \in Block, Words(blk) \cap FreeWords(l) = {},
         NEW lost,
         lost \subseteq (FreeWords(l) \cup Words(blk))
                           \ FreeWords(AddBlock(l, max, blk))
  PROVE  SmallLoss(lost, l, max)
<1> SUFFICES ASSUME lost # {}
             PROVE  l.n = max /\ \A i \in 1 .. l.n : Cardinality(lost) =< l.b[i].len
  BY DEF SmallLoss
<1>1. /\ l.n = max
      /\ \E b \in Block : /\ lost \subseteq Words(b)
                          /\ \A i \in 1 .. l.n : b.len =< l.b[i].len
  BY AddBlockLoses
<1>2. PICK b \in Block : /\ lost \subseteq Words(b)
                         /\ \A i \in 1 .. l.n : b.len =< l.b[i].len
  BY <1>1
<1>3. IsFiniteSet(Words(b)) /\ Cardinality(Words(b)) = b.len /\ b.len \in Nat
  BY WordsCount DEF Block
<1>4. IsFiniteSet(lost) /\ Cardinality(lost) =< b.len
  BY <1>2, <1>3, FS_Subset
<1>5. Cardinality(lost) \in Nat
  BY <1>4, FS_CardinalityType
<1>6. \A i \in 1 .. l.n : l.b[i].len \in Nat
  BY DEF IsList, Block
<1> QED BY <1>1, <1>2, <1>3, <1>4, <1>5, <1>6

\* Data that is in place has a length that is not zero.
LEMMA LenStep ==
  ASSUME ~CanCrash, TypeOK, Sound, DataInv, LenInv, [Next]_vars
  PROVE  LenInv'
<1> USE DEF LenInv
<1>0. ASSUME \A t \in Held' : t \in Held /\ BlockOf(t)' = BlockOf(t) PROVE LenInv'
  <2> SUFFICES ASSUME NEW t \in Held' PROVE word'[ptr'[t]] # 0
    OBVIOUS
  <2>1. t \in Held /\ ptr'[t] = ptr[t] /\ word'[ptr'[t]] + 1 = word[ptr[t]] + 1
    BY <1>0 DEF BlockOf
  <2>2. word[ptr[t]] \in Nat /\ word[ptr[t]] # 0
    <3>1. t \in Slot /\ ptr[t] \in Word
      BY <2>1, BlockOfType DEF Held
    <3> QED BY <2>1, <3>1 DEF TypeOK
  <2> QED BY <2>1, <2>2
<1>1. ASSUME NEW r \in Row, WriteRowHeader(r) PROVE LenInv'
  BY <1>1 DEF WriteRowHeader, call, Held, Writing
<1>2. ASSUME NEW c \in Col, WriteColHeader(c) PROVE LenInv'
  BY <1>2 DEF WriteColHeader, call, Held, Writing
<1>3. ASSUME NEW c \in Col, DeleteColHeader(c) PROVE LenInv'
  BY <1>3 DEF DeleteColHeader, call, Held, Writing
<1>4. ASSUME NEW s \in Slot, NEW n \in Lens, NEW v \in Val, Overwrite(s, n, v)
      PROVE  LenInv'
  BY <1>4 DEF Overwrite, Held, Writing
<1>5. ASSUME NEW s \in Slot, NEW n \in Lens, NEW v \in Val, Allocate(s, n, v)
      PROVE  LenInv'
  BY <1>5 DEF Allocate, Held, Writing
<1>6. ASSUME NEW s \in Slot, Unlink(s) PROVE LenInv'
  BY <1>6 DEF Unlink, Held, Writing, TypeOK
<1>7. ASSUME NEW byrow, NEW hdrs, DeleteAll(byrow, hdrs) PROVE LenInv'
  BY <1>7 DEF DeleteAll, Held, Writing
<1>8. ASSUME Writing, Writing', ptr' = ptr, cur'.slot = cur.slot,
             \A w \in Word \ HandWords : word'[w] = word[w]
      PROVE  LenInv'
  <2> SUFFICES ASSUME NEW t \in Held' PROVE word'[ptr'[t]] # 0
    OBVIOUS
  <2>1. t \in Held
    BY <1>8 DEF Held
  <2>2. BlockOf(t) \in Block /\ ptr[t] \in Word /\ BlockOf(t).start = ptr[t]
    BY <2>1, UsedBlocks, BlockOfType DEF BlockOf
  <2>3. ptr[t] \in HeldWords
    BY <2>1, <2>2, WordsOfBlocks DEF HeldWords
  <2>4. ptr[t] \notin HandWords
    BY <2>3 DEF Sound, NoOverlap
  <2> QED BY <1>8, <2>1, <2>2, <2>4
<1>9. CASE WriteLength
  BY <1>8, <1>9, WriteLengthWords
<1>10. CASE WriteBody
  BY <1>8, <1>10, WriteBodyWords
<1>11. CASE WritePointer
  <2> SUFFICES ASSUME NEW t \in Held' PROVE word'[ptr'[t]] # 0
    OBVIOUS
  <2>1. /\ pc = "point" /\ ptr' = [ptr EXCEPT ![cur.slot] = cur.start]
        /\ word' = word
    BY <1>11 DEF WritePointer
  <2>2. word[cur.start] = cur.len /\ cur.len # 0
    BY <2>1 DEF Sound, SpaceInv, DataInv, Writing
  <2>3. t \in Slot /\ ptr'[t] # 0
    BY DEF Held
  <2>4. CASE t = cur.slot
    BY <2>1, <2>2, <2>3, <2>4 DEF TypeOK
  <2>5. CASE t # cur.slot
    <3>1. ptr'[t] = ptr[t]
      BY <2>1, <2>3, <2>5 DEF TypeOK
    <3>2. t \in Held
      BY <2>3, <2>5, <3>1 DEF Held
    <3> QED BY <2>1, <3>1, <3>2
  <2> QED BY <2>4, <2>5
<1>12. CASE FreeBlock
  BY <1>12 DEF FreeBlock, Held, Writing
<1>13. CASE UnlinkNext
  <2>1. PICK s \in Slot : ptr' = [ptr EXCEPT ![s] = 0]
    BY <1>13 DEF UnlinkNext, Victims
  <2>2. word' = word /\ ~Writing /\ ~Writing'
    BY <1>13 DEF UnlinkNext, Writing
  <2> QED BY <2>1, <2>2 DEF Held, TypeOK
<1>14. CASE DeleteHeader
  <2>1. UNCHANGED <<ptr, word>> /\ ~Writing /\ ~Writing'
    BY <1>14 DEF DeleteHeader, Writing
  <2> QED BY <2>1 DEF Held
<1>15. CASE FreeScratch \/ WriteSpace
  BY <1>15 DEF FreeScratch, WriteSpace, Held, Writing
<1>16. CASE UNCHANGED vars
  BY <1>16 DEF vars, Held, Writing
<1>17. ~Crash
  BY DEF Crash
<1> QED
  BY <1>1, <1>2, <1>3, <1>4, <1>5, <1>6, <1>7, <1>9, <1>10, <1>11, <1>12,
     <1>13, <1>14, <1>15, <1>16, <1>17 DEF Next, Request, Step

\* What a step loses: nothing, or the smallest block of a full list.
Loss(l, max) == SmallLoss(Known \ Known', l, max)

\* A step that loses nothing.
LEMMA NothingLost ==
  ASSUME Known \subseteq Known'
  PROVE  \A l, max : Loss(l, max)
<1>1. Known \ Known' = {}
  OBVIOUS
<1> QED BY <1>1 DEF Loss, SmallLoss

\* A step that leaves slots and list alone and keeps what is in hand.
LEMMA HandKept ==
  ASSUME UNCHANGED <<mem, ptr, word>>, Held' = Held,
         HandWords \subseteq HandWords'
  PROVE  \A l, max : Loss(l, max)
<1>1. HeldWords' = HeldWords
  <2>1. \A t : Words(BlockOf(t))' = Words(BlockOf(t))
    BY DEF BlockOf, Words, Stop
  <2>2. HeldWords' = UNION {Words(BlockOf(s))' : s \in Held'}
    BY DEF HeldWords
  <2> QED BY <2>1, <2>2 DEF HeldWords
<1>2. mem' = mem
  OBVIOUS
<1>3. Known \subseteq Known'
  BY <1>1, <1>2 DEF Known
<1> QED BY <1>3, NothingLost

\* The words in hand between calls.
LEMMA IdleHand ==
  ASSUME Sound, pc = "idle"
  PROVE  HandWords = {} /\ scratch.n = 0 /\ mem = disk
<1>1. scratch.n = 0 /\ mem = disk
  BY DEF Sound, SpaceInv
<1>2. (IF pc = "space" THEN cur.at ELSE 1) .. scratch.n = {}
  BY <1>1
<1>3. InHand = {}
  BY <1>2 DEF InHand, Writing
<1>4. HandWords = {}
  BY <1>3 DEF HandWords
<1> QED BY <1>1, <1>4

\* DM_WDTR, the same length: the block of the slot is in hand.
LEMMA OverwriteLoss ==
  ASSUME TypeOK, Sound,
         NEW s \in Slot, NEW n \in Lens, NEW v \in Val, Overwrite(s, n, v)
  PROVE  \A l, max : Loss(l, max)
<1>1. /\ pc = "idle" /\ pc' = "body" /\ OldLen(s) = n
      /\ cur' = [slot |-> s, start |-> ptr[s], len |-> n, val |-> v,
                 at |-> ptr[s] + 1]
      /\ mem' = mem /\ ptr' = ptr /\ word' = word /\ scratch' = scratch
  BY DEF Overwrite, space
<1>2. HandWords = {} /\ scratch'.n = 0
  BY <1>1, IdleHand
<1>3. cur'.slot = s /\ cur'.start = ptr[s] /\ cur'.len = n
  BY <1>1
<1>4. Held' = Held \ {s} /\ \A t : BlockOf(t)' = BlockOf(t)
  BY <1>1, <1>3 DEF Held, Writing, BlockOf
<1>5. HandWords' = Words([len |-> n + 1, start |-> ptr[s]])
  BY <1>1, <1>2, <1>3, HandNext DEF Writing
<1>6. s \in Held => Words(BlockOf(s)) \subseteq HandWords'
  BY <1>1, <1>5 DEF BlockOf, OldLen, Held
<1>7. HeldWords \subseteq HeldWords' \cup HandWords'
  BY <1>4, <1>6, HeldStays
<1>8. Known \subseteq Known'
  BY <1>1, <1>2, <1>7 DEF Known
<1> QED BY <1>8, NothingLost

\* DM_WDTR, new space: only DM_AFRE may lose words.
LEMMA AllocateLoss ==
  ASSUME TypeOK, Sound, LenInv,
         NEW s \in Slot, NEW n \in Lens, NEW v \in Val, Allocate(s, n, v)
  PROVE  Loss(mem.free, MaxFree)
<1> DEFINE sp    == IF OldLen(s) > 0 THEN Freed(mem, BlockOf(s)) ELSE mem
           start == GetStart(sp, n + 1)
           taken == [len |-> n + 1, start |-> start]
           freed == IF s \in Held THEN Words(BlockOf(s)) ELSE {}
<1>1. /\ pc = "idle" /\ pc' = "length"
      /\ mem' = GetSpace(sp, n + 1, MaxFree)
      /\ cur' = [slot |-> s, start |-> start, len |-> n, val |-> v,
                 at |-> start + 1]
      /\ UNCHANGED <<ptr, word, scratch>>
  BY DEF Allocate
<1>2. n + 1 \in Nat \ {0} /\ MaxFree \in Nat \ {0}
  BY DMFileAssumption
<1>3. HandWords = {} /\ scratch'.n = 0
  BY <1>1, IdleHand
<1>4. s \in Held <=> OldLen(s) > 0
  <2>1. s \in Held <=> ptr[s] # 0
    BY <1>1 DEF Held, Writing
  <2>2. ptr[s] # 0 => word[ptr[s]] \in Nat
    BY DEF TypeOK
  <2> QED BY <2>1, <2>2 DEF OldLen, LenInv
<1>5. IsSpace(mem) /\ WellFormed(mem)
  BY DEF TypeOK, Sound, ListInv, ListsWellFormed
<1>6. ASSUME s \in Held
      PROVE  /\ BlockOf(s) \in Block
             /\ Words(BlockOf(s)) \cap FreeWords(mem.free) = {}
             /\ sp = Freed(mem, BlockOf(s))
             /\ First =< BlockOf(s).start /\ Stop(BlockOf(s)) =< mem.next
  <2>1. BlockOf(s) \in Block
    BY <1>6, UsedBlocks
  <2>2. Words(BlockOf(s)) \subseteq HeldWords
    BY <1>6 DEF HeldWords
  <2>3. First =< BlockOf(s).start /\ Stop(BlockOf(s)) =< mem.next
    BY <1>6 DEF Sound, SpaceInv, Below
  <2> QED BY <1>4, <1>6, <2>1, <2>2, <2>3 DEF Sound, NoOverlap
<1>7. IsSpace(sp) /\ WellFormed(sp)
  <2>1. CASE s \in Held
    BY <1>5, <1>6, <2>1, FreedWords
  <2>2. CASE s \notin Held
    BY <1>4, <1>5, <2>2
  <2> QED BY <2>1, <2>2
<1> HIDE DEF sp
<1>9. FreeWords(sp.free) \subseteq FreeWords(mem'.free) \cup Words(taken)
  BY <1>1, <1>2, <1>7, GetSpaceLoses DEF IsSpace, WellFormed
<1>10. HandWords' = Words(taken)
  <2>1. cur'.start = start /\ cur'.len = n
    BY <1>1
  <2> QED BY <1>1, <1>3, <2>1, HandNext DEF Writing
<1>11. Held' = Held \ {s} /\ \A t : BlockOf(t)' = BlockOf(t)
  <2>1. cur'.slot = s
    BY <1>1
  <2> QED BY <1>1, <2>1 DEF Held, Writing, BlockOf
<1> HIDE DEF start, taken
<1>12. HeldWords \subseteq HeldWords' \cup freed
  BY <1>11, HeldStays
<1> HIDE DEF freed
<1>13. Known \ Known' \subseteq (FreeWords(mem.free) \cup freed) \ FreeWords(sp.free)
  BY <1>3, <1>9, <1>10, <1>12 DEF Known
<1> DEFINE lost == Known \ Known'
<1>14. CASE s \in Held
  <2>1. sp.free = AddBlock(mem.free, MaxFree, BlockOf(s))
    BY <1>5, <1>6, <1>14 DEF Freed, IsSpace
  <2>2. /\ IsList(mem.free, MaxFree) /\ Sorted(mem.free) /\ Separate(mem.free)
        /\ BlockOf(s) \in Block
        /\ Words(BlockOf(s)) \cap FreeWords(mem.free) = {}
    BY <1>5, <1>6, <1>14 DEF IsSpace, WellFormed
  <2>3. lost \subseteq (FreeWords(mem.free) \cup Words(BlockOf(s)))
                          \ FreeWords(AddBlock(mem.free, MaxFree, BlockOf(s)))
    BY <1>13, <1>14, <2>1 DEF freed
  <2> HIDE DEF lost
  <2>4. SmallLoss(lost, mem.free, MaxFree)
    BY <1>2, <2>2, <2>3, AddBlockSmallLoss
  <2> QED BY <2>4 DEF Loss, lost
<1>15. CASE s \notin Held
  <2>1. sp = mem
    BY <1>4, <1>15 DEF sp
  <2>2. lost = {}
    BY <1>13, <1>15, <2>1 DEF freed
  <2> QED BY <2>2 DEF Loss, SmallLoss
<1> QED BY <1>14, <1>15

\* DM_DDAT: only DM_AFRE may lose words.
LEMMA FreeBlockLoss ==
  ASSUME TypeOK, Sound, FreeBlock
  PROVE  Loss(mem.free, MaxFree)
<1> DEFINE blk  == [len |-> cur.len + 1, start |-> cur.start]
           lost == Known \ Known'
<1>1. /\ pc = "free" /\ pc' = "idle" /\ mem' = Freed(mem, blk)
      /\ UNCHANGED <<ptr, word, scratch>>
  BY DEF FreeBlock
<1>2. blk \in Block /\ HandWords = Words(blk)
  <2>1. scratch.n = 0
    BY <1>1 DEF Sound, SpaceInv
  <2> QED BY <1>1, <2>1, CallHand, UsedBlocks
<1>3. /\ IsSpace(mem) /\ IsList(mem.free, MaxFree)
      /\ Sorted(mem.free) /\ Separate(mem.free)
      /\ Words(blk) \cap FreeWords(mem.free) = {}
  BY <1>2 DEF TypeOK, IsSpace, Sound, ListInv, ListsWellFormed, WellFormed, NoOverlap
<1> HIDE DEF blk
<1>4. mem'.free = AddBlock(mem.free, MaxFree, blk)
  BY <1>1, <1>3 DEF Freed, IsSpace
<1>5. HeldWords' = HeldWords
  <2>1. Held' = Held
    BY <1>1 DEF Held, Writing
  <2>2. \A t : Words(BlockOf(t))' = Words(BlockOf(t))
    BY <1>1 DEF BlockOf, Words, Stop
  <2>3. HeldWords' = UNION {Words(BlockOf(s))' : s \in Held'}
    BY DEF HeldWords
  <2> QED BY <2>1, <2>2, <2>3 DEF HeldWords
<1>6. lost \subseteq (FreeWords(mem.free) \cup Words(blk))
                        \ FreeWords(AddBlock(mem.free, MaxFree, blk))
  BY <1>2, <1>4, <1>5 DEF Known
<1> HIDE DEF lost
<1>7. SmallLoss(lost, mem.free, MaxFree)
  BY <1>2, <1>3, <1>6, AddBlockSmallLoss, DMFileAssumption
<1> QED BY <1>7 DEF Loss, lost

\* DM_DELT: only the scratch list may lose words.
LEMMA UnlinkNextLoss ==
  ASSUME TypeOK, InOrder, Sound, UnlinkNext
  PROVE  pc = "delete" /\ Loss(scratch, MaxScratch)
<1> DEFINE lost == Known \ Known'
<1>1. PICK s \in Victims :
         /\ pc = "delete" /\ pc' = "delete" /\ ~Writing /\ ~Writing'
         /\ ptr' = [ptr EXCEPT ![s] = 0]
         /\ scratch' = AddBlock(scratch, MaxScratch, BlockOf(s))
         /\ mem' = mem /\ word' = word
  BY DEF UnlinkNext, space, Writing
<1>2. s \in Slot /\ ptr[s] # 0 /\ s \in Held
  BY <1>1 DEF Victims, Held
<1>3. \A t \in Held : t # s => t \in Held' /\ BlockOf(t)' = BlockOf(t)
  BY <1>1, <1>2 DEF BlockOf, Held, TypeOK
<1>4. HandWords = FreeWords(scratch) /\ HandWords' = FreeWords(scratch')
  <2>1. InHand' = {scratch'.b[i] : i \in 1 .. scratch'.n}
    BY <1>1 DEF InHand
  <2>2. HandWords' = UNION {Words(b) : b \in InHand'}
    BY DEF HandWords
  <2>3. HandWords' = FreeWords(scratch')
    BY <2>1, <2>2 DEF FreeWords
  <2> QED BY <1>1, <2>3, ScratchHand
<1>5. BlockOf(s) \in Block /\ Words(BlockOf(s)) \subseteq HeldWords
  BY <1>2, UsedBlocks DEF HeldWords
<1>6. Words(BlockOf(s)) \cap FreeWords(scratch) = {}
  BY <1>4, <1>5 DEF Sound, NoOverlap
<1>7. HeldWords \subseteq HeldWords' \cup Words(BlockOf(s))
  BY <1>3, HeldStays
<1>8. lost \subseteq (FreeWords(scratch) \cup Words(BlockOf(s)))
                        \ FreeWords(AddBlock(scratch, MaxScratch, BlockOf(s)))
  BY <1>1, <1>4, <1>7 DEF Known
<1> HIDE DEF lost
<1>9. IsList(scratch, MaxScratch) /\ Sorted(scratch) /\ Separate(scratch)
  BY DEF TypeOK, InOrder, Sound, ListInv
<1>10. SmallLoss(lost, scratch, MaxScratch)
  BY <1>5, <1>6, <1>8, <1>9, AddBlockSmallLoss, DMFileAssumption
<1> QED BY <1>1, <1>10 DEF Loss, lost

\* DM_WSPC: only DM_AFRE may lose words.
LEMMA FreeScratchLoss ==
  ASSUME TypeOK, Sound, FreeScratch
  PROVE  Loss(mem.free, MaxFree)
<1> DEFINE blk  == scratch.b[cur.at]
           lost == Known \ Known'
<1>1. /\ pc = "space" /\ pc' = "space" /\ ~Writing /\ ~Writing'
      /\ cur.at =< scratch.n
      /\ mem' = Freed(mem, blk)
      /\ cur' = [cur EXCEPT !.at = cur.at + 1]
      /\ UNCHANGED <<ptr, word, scratch>>
  BY DEF FreeScratch, Writing
<1>2. /\ cur.at \in 1 .. scratch.n /\ scratch.n \in Nat /\ cur.at \in Nat
      /\ cur'.at = cur.at + 1 /\ blk \in Block
  BY <1>1 DEF TypeOK, IsList, Call
<1>3. InHand = {scratch.b[i] : i \in cur.at .. scratch.n} /\ blk \in InHand
  BY <1>1, <1>2 DEF InHand
<1>4. InHand' = {scratch.b[i] : i \in cur.at + 1 .. scratch.n}
  BY <1>1, <1>2 DEF InHand
<1>5. HandWords \subseteq HandWords' \cup Words(blk)
  <2>1. HandWords' = UNION {Words(b) : b \in InHand'}
    BY DEF HandWords
  <2>2. InHand \subseteq InHand' \cup {blk}
    BY <1>2, <1>3, <1>4
  <2> QED BY <2>1, <2>2 DEF HandWords
<1>6. /\ IsSpace(mem) /\ IsList(mem.free, MaxFree)
      /\ Sorted(mem.free) /\ Separate(mem.free)
      /\ Words(blk) \cap FreeWords(mem.free) = {}
  <2>1. Words(blk) \subseteq HandWords
    BY <1>3 DEF HandWords
  <2> QED BY <2>1 DEF TypeOK, IsSpace, Sound, ListInv, ListsWellFormed, WellFormed, NoOverlap
<1> HIDE DEF blk
<1>7. mem'.free = AddBlock(mem.free, MaxFree, blk)
  BY <1>1, <1>6 DEF Freed, IsSpace
<1>8. HeldWords' = HeldWords
  <2>1. Held' = Held
    BY <1>1 DEF Held
  <2>2. \A t : Words(BlockOf(t))' = Words(BlockOf(t))
    BY <1>1 DEF BlockOf, Words, Stop
  <2>3. HeldWords' = UNION {Words(BlockOf(s))' : s \in Held'}
    BY DEF HeldWords
  <2> QED BY <2>1, <2>2, <2>3 DEF HeldWords
<1>9. lost \subseteq (FreeWords(mem.free) \cup Words(blk))
                        \ FreeWords(AddBlock(mem.free, MaxFree, blk))
  BY <1>5, <1>7, <1>8 DEF Known
<1> HIDE DEF lost
<1>10. SmallLoss(lost, mem.free, MaxFree)
  BY <1>2, <1>6, <1>9, AddBlockSmallLoss, DMFileAssumption
<1> QED BY <1>10 DEF Loss, lost

\* What each step loses.
LEMMA LossStep ==
  ASSUME ~CanCrash, TypeOK, InOrder, Sound, DataInv, LenInv, [Next]_vars
  PROVE  IF pc = "delete" THEN Loss(scratch, MaxScratch)
                          ELSE Loss(mem.free, MaxFree)
<1> DEFINE Goal == IF pc = "delete" THEN Loss(scratch, MaxScratch)
                                    ELSE Loss(mem.free, MaxFree)
<1>0. /\ Loss(mem.free, MaxFree) /\ pc # "delete" => Goal
      /\ Loss(scratch, MaxScratch) /\ pc = "delete" => Goal
      /\ (\A l, max : Loss(l, max)) => Goal
  BY Zenon
<1> HIDE DEF Goal
<1>1. ASSUME UNCHANGED <<mem, ptr, word, cur, scratch>>, pc' = pc PROVE Goal
  <2>1. Held' = Held
    BY <1>1 DEF Held, Writing
  <2>2. InHand' = InHand
    BY <1>1 DEF InHand, Writing
  <2>3. HandWords' = UNION {Words(b) : b \in InHand'}
    BY DEF HandWords
  <2>4. HandWords \subseteq HandWords'
    BY <2>2, <2>3 DEF HandWords
  <2> QED BY <1>0, <1>1, <2>1, <2>4, HandKept
<1>2. ASSUME NEW r \in Row, WriteRowHeader(r) PROVE Goal
  BY <1>1, <1>2 DEF WriteRowHeader, space, call
<1>3. ASSUME NEW c \in Col, WriteColHeader(c) PROVE Goal
  BY <1>1, <1>3 DEF WriteColHeader, space, call
<1>4. ASSUME NEW c \in Col, DeleteColHeader(c) PROVE Goal
  BY <1>1, <1>4 DEF DeleteColHeader, space, call
<1>5. ASSUME NEW s \in Slot, NEW n \in Lens, NEW v \in Val, Overwrite(s, n, v)
      PROVE  Goal
  BY <1>0, <1>5, OverwriteLoss
<1>6. ASSUME NEW s \in Slot, NEW n \in Lens, NEW v \in Val, Allocate(s, n, v)
      PROVE  Goal
  <2>1. pc # "delete"
    BY <1>6 DEF Allocate
  <2> QED BY <1>0, <1>6, <2>1, AllocateLoss
<1>7. ASSUME NEW s \in Slot, Unlink(s) PROVE Goal
  <2>1. /\ pc = "idle" /\ pc' = "free" /\ ptr[s] # 0
        /\ cur' = [Idle EXCEPT !.slot = s, !.start = ptr[s], !.len = word[ptr[s]]]
        /\ ptr' = [ptr EXCEPT ![s] = 0]
        /\ mem' = mem /\ word' = word /\ scratch' = scratch
    BY <1>7 DEF Unlink, space
  <2>2. cur'.start = ptr[s] /\ cur'.len = word[ptr[s]]
    BY <2>1 DEF Idle
  <2>3. HandWords = {} /\ scratch'.n = 0
    BY <2>1, IdleHand
  <2>4. HandWords' = Words(BlockOf(s))
    BY <2>1, <2>2, <2>3, HandNext DEF BlockOf
  <2>5. \A t \in Held : t # s => t \in Held' /\ BlockOf(t)' = BlockOf(t)
    BY <2>1 DEF Held, Writing, BlockOf, TypeOK
  <2>6. HeldWords \subseteq HeldWords' \cup Words(BlockOf(s))
    BY <2>5, HeldStays
  <2>7. Known \subseteq Known'
    BY <2>1, <2>3, <2>4, <2>6 DEF Known
  <2> QED BY <1>0, <2>7, NothingLost
<1>8. ASSUME NEW byrow, NEW hdrs, DeleteAll(byrow, hdrs) PROVE Goal
  <2>1. /\ pc = "idle" /\ pc' = "delete"
        /\ UNCHANGED <<mem, ptr, word, cur, scratch>>
    BY <1>8 DEF DeleteAll, space
  <2>2. Held' = Held /\ HandWords = {}
    BY <2>1, IdleHand DEF Held, Writing
  <2> QED BY <1>0, <2>1, <2>2, HandKept
<1>9. ASSUME Writing, Writing', UNCHANGED <<mem, ptr, scratch>>,
             cur'.slot = cur.slot, cur'.start = cur.start, cur'.len = cur.len,
             \A w \in Word \ HandWords : word'[w] = word[w]
      PROVE  Goal
  <2>1. scratch.n = 0 /\ pc' # "space"
    BY <1>9 DEF Sound, SpaceInv, Writing
  <2>2. HandWords' = HandWords
    <3>1. HandWords = Words([len |-> cur.len + 1, start |-> cur.start])
      BY <1>9, <2>1, CallHand
    <3>2. HandWords' = Words([len |-> cur'.len + 1, start |-> cur'.start])
      BY <1>9, <2>1, HandNext
    <3> QED BY <1>9, <3>1, <3>2
  <2>3. Held' = Held
    BY <1>9 DEF Held
  <2>4. \A t \in Held : BlockOf(t)' = BlockOf(t)
    <3> SUFFICES ASSUME NEW t \in Held PROVE BlockOf(t)' = BlockOf(t)
      OBVIOUS
    <3>1. BlockOf(t) \in Block /\ ptr[t] \in Word /\ BlockOf(t).start = ptr[t]
      BY UsedBlocks, BlockOfType DEF BlockOf
    <3>2. ptr[t] \in HeldWords
      BY <3>1, WordsOfBlocks DEF HeldWords
    <3>3. ptr[t] \notin HandWords
      BY <3>2 DEF Sound, NoOverlap
    <3> QED BY <1>9, <3>1, <3>3 DEF BlockOf
  <2>5. HeldWords \subseteq HeldWords'
    <3>1. \A t \in Held : Words(BlockOf(t))' = Words(BlockOf(t))
      BY <2>4 DEF Words, Stop
    <3>2. HeldWords' = UNION {Words(BlockOf(t))' : t \in Held'}
      BY DEF HeldWords
    <3> QED BY <2>3, <3>1, <3>2 DEF HeldWords
  <2>6. Known \subseteq Known'
    BY <1>9, <2>2, <2>5 DEF Known
  <2> QED BY <1>0, <2>6, NothingLost
<1>10. ASSUME WriteLength PROVE Goal
  BY <1>9, <1>10, WriteLengthWords
<1>11. ASSUME WriteBody PROVE Goal
  BY <1>9, <1>11, WriteBodyWords
<1>12. ASSUME WritePointer PROVE Goal
  <2>0. PICK s \in Slot : s = cur.slot
    BY DEF TypeOK, Call
  <2>1. /\ pc = "point" /\ pc' = "idle" /\ Writing /\ ~Writing'
        /\ ptr' = [ptr EXCEPT ![s] = cur.start]
        /\ mem' = mem /\ word' = word /\ scratch' = scratch
    BY <1>12, <2>0 DEF WritePointer, Writing, space
  <2>2. HandWords = Words([len |-> cur.len + 1, start |-> cur.start])
    BY <2>1, CallHand DEF Sound, SpaceInv
  <2>3. ptr'[s] = cur.start /\ word'[cur.start] = cur.len /\ cur.start # 0
    BY <2>1, Types DEF TypeOK, Sound, SpaceInv
  <2>4. s \in Held' /\ BlockOf(s)' = [len |-> cur.len + 1, start |-> cur.start]
    BY <2>1, <2>3 DEF Held, BlockOf
  <2>5. Words(BlockOf(s))' = HandWords
    BY <2>2, <2>4 DEF Words, Stop
  <2>6. HeldWords' = UNION {Words(BlockOf(t))' : t \in Held'}
    BY DEF HeldWords
  <2>7. HandWords \subseteq HeldWords'
    BY <2>4, <2>5, <2>6
  <2>8. \A t \in Held : t # s => t \in Held' /\ BlockOf(t)' = BlockOf(t)
    BY <2>1 DEF Held, BlockOf, TypeOK
  <2>9. s \notin Held
    BY <2>0, <2>1 DEF Held
  <2>10. HeldWords \subseteq HeldWords' \cup {}
    BY <2>8, <2>9, HeldStays
  <2>11. Known \subseteq Known'
    BY <2>1, <2>7, <2>10 DEF Known
  <2> QED BY <1>0, <2>11, NothingLost
<1>13. ASSUME FreeBlock PROVE Goal
  <2>1. pc # "delete"
    BY <1>13 DEF FreeBlock
  <2> QED BY <1>0, <1>13, <2>1, FreeBlockLoss
<1>14. ASSUME UnlinkNext PROVE Goal
  BY <1>0, <1>14, UnlinkNextLoss
<1>15. ASSUME DeleteHeader PROVE Goal
  <2>1. /\ pc = "delete" /\ ~Writing /\ ~Writing'
        /\ pc' \in {"delete", "idle", "space"}
        /\ pc' = "space" => cur'.at = 1
        /\ UNCHANGED <<mem, ptr, word, scratch>>
    BY <1>15 DEF DeleteHeader, space, Writing, Idle
  <2>2. Held' = Held
    BY <2>1 DEF Held
  <2>3. InHand = {scratch.b[i] : i \in 1 .. scratch.n}
    BY <2>1, ScratchHand
  <2>4. InHand' = {scratch.b[i] : i \in 1 .. scratch.n}
    BY <2>1 DEF InHand
  <2>5. HandWords' = UNION {Words(b) : b \in InHand'}
    BY DEF HandWords
  <2>6. HandWords \subseteq HandWords'
    BY <2>3, <2>4, <2>5 DEF HandWords
  <2> QED BY <1>0, <2>1, <2>2, <2>6, HandKept
<1>16. ASSUME FreeScratch PROVE Goal
  <2>1. pc # "delete"
    BY <1>16 DEF FreeScratch
  <2> QED BY <1>0, <1>16, <2>1, FreeScratchLoss
<1>17. ASSUME WriteSpace PROVE Goal
  <2>1. /\ pc = "space" /\ cur.at > scratch.n /\ ~Writing /\ ~Writing'
        /\ UNCHANGED <<mem, ptr, word>>
    BY <1>17 DEF WriteSpace, Writing
  <2>2. Held' = Held
    BY <2>1 DEF Held
  <2>3. InHand = {}
    <3>1. cur.at .. scratch.n = {}
      BY <2>1 DEF TypeOK, IsList, Call
    <3> QED BY <2>1, <3>1 DEF InHand
  <2>4. HandWords = {}
    BY <2>3 DEF HandWords
  <2> QED BY <1>0, <2>1, <2>2, <2>4, HandKept
<1>18. ASSUME UNCHANGED vars PROVE Goal
  BY <1>1, <1>18 DEF vars
<1>19. ~Crash
  BY DEF Crash
<1>20. Goal
  BY <1>2, <1>3, <1>4, <1>5, <1>6, <1>7, <1>8, <1>10, <1>11, <1>12, <1>13,
     <1>14, <1>15, <1>16, <1>17, <1>18, <1>19 DEF Next, Request, Step
<1> QED BY <1>20 DEF Goal

(***************************************************************************)
(* A program that does not die loses space only when a list has no room    *)
(* for another pair, and then no more than the smallest block there is, in *)
(* files of any size and for any sequence of calls.                        *)
(***************************************************************************)
THEOREM LossIsSmallest ==
  ASSUME ~CanCrash
  PROVE  Spec => LostIsSmallest
<1> DEFINE Inv  == FileInv /\ DataInv /\ LenInv
           Body == LET lost == Known \ Known'
                       full == IF pc = "delete" THEN [list |-> scratch, max |-> MaxScratch]
                               ELSE [list |-> mem.free, max |-> MaxFree]
                   IN  lost # {} => /\ full.list.n = full.max
                                    /\ \A i \in 1 .. full.list.n :
                                          Cardinality(lost) =< full.list.b[i].len
<1>1. Init => Inv
  <2>1. Init => DataInv /\ LenInv
    BY DEF Init, DataInv, LenInv, Held, Writing
  <2> QED BY <2>1, FileInvInit
<1>2. Inv /\ [Next]_vars => Inv'
  <2>1. FileInv => TypeOK /\ Sound
    BY DEF FileInv, TypeInv
  <2> QED BY <2>1, FileInvStep, DataStep, LenStep
<1>3. Inv /\ [Next]_vars => Body
  <2> SUFFICES ASSUME Inv, [Next]_vars PROVE Body
    OBVIOUS
  <2>1. TypeOK /\ InOrder /\ Sound
    BY DEF FileInv, TypeInv
  <2>2. IF pc = "delete" THEN Loss(scratch, MaxScratch)
                         ELSE Loss(mem.free, MaxFree)
    BY <2>1, LossStep
  <2> QED BY <2>2 DEF Loss, SmallLoss
<1> QED BY <1>1, <1>2, <1>3, PTL DEF Spec, LostIsSmallest

-----------------------------------------------------------------------------
(***************************************************************************)
(* How many steps a call has left, at most.  Data is written from cur.at   *)
(* on, a record at a time; a mass deletion has headers and the slots under *)
(* them to go, and then the blocks of the scratch list, which has room for *)
(* MaxScratch.                                                             *)
(***************************************************************************)
Linked == {s \in Slot : ptr[s] # 0}

StepsLeft ==
    CASE pc = "idle"             -> 0
      [] pc \in {"point", "free"} -> 1
      [] pc = "body"   -> cur.start + cur.len - cur.at + 2
      [] pc = "length" -> cur.len + 2
      [] pc = "delete" ->
            MaxScratch + 2 + Cardinality(dels.hdrs) + Cardinality(Linked)
      [] pc = "space"  -> scratch.n - cur.at + 2

\* A mass deletion that goes on has a header to delete.
CallInv == TypeInv /\ (pc = "delete" => dels.hdrs # {})

LEMMA CallInvStep == CallInv /\ [Next]_vars => CallInv'
<1> SUFFICES ASSUME CallInv, [Next]_vars PROVE CallInv'
  OBVIOUS
<1>1. TypeInv'
  BY RequestTypeInv, StepTypeInv, StutterTypeInv DEF Next, CallInv
<1>2. ASSUME pc' = "delete" PROVE dels'.hdrs # {}
  <2>1. CASE UNCHANGED vars
    BY <2>1, <1>2 DEF vars, CallInv
  <2>2. CASE Crash
    BY <2>2, <1>2 DEF Crash
  <2>3. CASE Step
    <3>1. CASE DeleteHeader
      <4> DEFINE left == dels.hdrs \ {Doomed}
      <4>1. left # {} /\ dels' = [dels EXCEPT !.hdrs = left]
        BY <3>1, <1>2 DEF DeleteHeader
      <4>2. dels \in Deletion
        BY DEF CallInv, TypeInv, TypeOK
      <4> HIDE DEF left
      <4>3. dels'.hdrs = left
        BY <4>1, <4>2 DEF Deletion
      <4> QED BY <4>1, <4>3
    <3>2. CASE UnlinkNext
      BY <3>2 DEF UnlinkNext, CallInv
    <3>3. CASE WriteLength \/ WriteBody \/ WritePointer \/ FreeBlock \/ FreeScratch
               \/ WriteSpace
      BY <3>3, <1>2
         DEF WriteLength, WriteBody, WritePointer, FreeBlock, FreeScratch, WriteSpace
    <3> QED BY <2>3, <3>1, <3>2, <3>3 DEF Step
  <2>4. CASE Request
    <3>1. ASSUME NEW byrow, NEW hdrs, DeleteAll(byrow, hdrs) PROVE dels'.hdrs # {}
      BY <3>1 DEF DeleteAll
    <3>2. CASE \/ \E r \in Row : WriteRowHeader(r)
               \/ \E c \in Col : WriteColHeader(c) \/ DeleteColHeader(c)
      BY <3>2, <1>2 DEF WriteRowHeader, WriteColHeader, DeleteColHeader
    <3>3. CASE \/ \E s \in Slot, n \in Lens, v \in Val :
                     Overwrite(s, n, v) \/ Allocate(s, n, v)
               \/ \E s \in Slot : Unlink(s)
      BY <3>3, <1>2 DEF Overwrite, Allocate, Unlink
    <3> QED BY <2>4, <3>1, <3>2, <3>3 DEF Request
  <2> QED BY <2>1, <2>2, <2>3, <2>4 DEF Next
<1> QED BY <1>1, <1>2 DEF CallInv

LEMMA SpecCallInv == Spec => []CallInv
<1>1. Init => CallInv
  BY InitTypeInv DEF Init, CallInv
<1> QED BY <1>1, CallInvStep, PTL DEF Spec

\* What is counted is finite, and the header to be deleted is one of those
\* left.
LEMMA CountedFinite ==
  ASSUME CallInv
  PROVE  /\ IsFiniteSet(Linked) /\ Cardinality(Linked) \in Nat
         /\ IsFiniteSet(dels.hdrs) /\ Cardinality(dels.hdrs) \in Nat
         /\ pc = "delete" => Doomed \in dels.hdrs /\ Cardinality(dels.hdrs) > 0
<1>1. IsFiniteSet(Row) /\ IsFiniteSet(Col) /\ IsFiniteSet(1 .. NPrt)
  BY FS_Interval, DMFileAssumption DEF Row, Col
<1>2. IsFiniteSet(Row \X Col)
  BY <1>1, FS_Product
<1>3. IsFiniteSet((Row \X Col) \X (1 .. NPrt))
  BY <1>1, <1>2, FS_Product
<1>4. IsFiniteSet(Slot)
  <2> DEFINE f == [p \in (Row \X Col) \X (1 .. NPrt) |-> <<p[1][1], p[1][2], p[2]>>]
  <2>1. ASSUME NEW s \in Slot
        PROVE  \E p \in (Row \X Col) \X (1 .. NPrt) : f[p] = s
    <3>1. <<<<s[1], s[2]>>, s[3]>> \in (Row \X Col) \X (1 .. NPrt)
      BY DEF Slot
    <3>2. f[<<<<s[1], s[2]>>, s[3]>>] = <<s[1], s[2], s[3]>>
      BY <3>1
    <3>3. s = <<s[1], s[2], s[3]>>
      BY DEF Slot
    <3> QED BY <3>1, <3>2, <3>3
  <2>2. ASSUME NEW p \in (Row \X Col) \X (1 .. NPrt) PROVE f[p] \in Slot
    BY DEF Slot
  <2>3. f \in Surjection((Row \X Col) \X (1 .. NPrt), Slot)
    <3>1. f \in [(Row \X Col) \X (1 .. NPrt) -> Slot]
      BY <2>2
    <3> HIDE DEF f
    <3> QED BY <2>1, <3>1 DEF Surjection
  <2> HIDE DEF f
  <2> QED BY <1>3, <2>3, FS_Surjection
<1>5. IsFiniteSet(Linked) /\ Cardinality(Linked) \in Nat
  <2>1. Linked \subseteq Slot
    BY DEF Linked
  <2> QED BY <1>4, <2>1, FS_Subset, FS_CardinalityType
<1>6. dels.hdrs \subseteq Row \cup Col
  BY DEF CallInv, TypeInv, TypeOK, Deletion
<1>7. IsFiniteSet(dels.hdrs) /\ Cardinality(dels.hdrs) \in Nat
  BY <1>1, <1>6, FS_Union, FS_Subset, FS_CardinalityType
<1>8. ASSUME pc = "delete"
      PROVE  Doomed \in dels.hdrs /\ Cardinality(dels.hdrs) > 0
  <2>1. dels.hdrs # {} /\ dels.hdrs \subseteq Nat
    BY <1>6, <1>8 DEF CallInv, Row, Col
  <2>2. \E x \in dels.hdrs : \A y \in dels.hdrs : x =< y
    BY <2>1, LeastNat
  <2>3. Doomed \in dels.hdrs
    BY <2>2 DEF Doomed, Min
  <2>4. Cardinality(dels.hdrs) # 0
    BY <1>7, <2>1, FS_EmptySet
  <2> QED BY <1>7, <2>3, <2>4
<1> QED BY <1>5, <1>7, <1>8

\* A call has something left to do until it returns.
LEMMA StepsLeftNat ==
  ASSUME CallInv
  PROVE  StepsLeft \in Nat /\ (StepsLeft = 0 <=> pc = "idle")
<1>1. TypeOK
  BY DEF CallInv, TypeInv
<1>2. /\ cur.start \in Nat /\ cur.len \in Nat /\ cur.at \in Nat
      /\ scratch.n \in Nat /\ MaxScratch \in Nat
  BY <1>1, DMFileAssumption DEF TypeOK, Call, IsList
<1>3. CASE pc = "idle"
  BY <1>3 DEF StepsLeft
<1>4. CASE pc \in {"point", "free"}
  BY <1>4 DEF StepsLeft
<1>5. CASE pc = "body"
  <2>1. cur.at =< cur.start + cur.len /\ StepsLeft = cur.start + cur.len - cur.at + 2
    BY <1>1, <1>5 DEF TypeOK, StepsLeft
  <2> QED BY <1>2, <1>5, <2>1
<1>6. CASE pc = "length"
  <2>1. StepsLeft = cur.len + 2
    BY <1>6 DEF StepsLeft
  <2> QED BY <1>2, <1>6, <2>1
<1>7. CASE pc = "delete"
  <2>1. StepsLeft = MaxScratch + 2 + Cardinality(dels.hdrs) + Cardinality(Linked)
    BY <1>7 DEF StepsLeft
  <2> QED BY <1>2, <1>7, <2>1, CountedFinite
<1>8. CASE pc = "space"
  <2>1. cur.at \in 1 .. scratch.n + 1 /\ StepsLeft = scratch.n - cur.at + 2
    BY <1>1, <1>8 DEF TypeOK, StepsLeft
  <2> QED BY <1>2, <1>8, <2>1
<1> QED BY <1>1, <1>3, <1>4, <1>5, <1>6, <1>7, <1>8 DEF TypeOK, PC

\* Every step of a call leaves less to do.
LEMMA StepShortens ==
  ASSUME CallInv, Step
  PROVE  StepsLeft' < StepsLeft
<1>1. TypeOK /\ TypeOK'
  BY StepTypeInv DEF CallInv, TypeInv
<1>2. /\ cur.start \in Nat /\ cur.len \in Nat /\ cur.at \in Nat
      /\ scratch.n \in Nat /\ scratch.n =< MaxScratch /\ MaxScratch \in Nat
  BY <1>1, DMFileAssumption DEF TypeOK, Call, IsList
<1>3. CASE WriteLength
  <2>1. pc = "length" /\ pc' = "body" /\ cur' = cur /\ cur.at > cur.start
    BY <1>1, <1>3 DEF WriteLength, call, TypeOK
  <2>2. StepsLeft = cur.len + 2 /\ StepsLeft' = cur.start + cur.len - cur.at + 2
    BY <2>1 DEF StepsLeft
  <2> QED BY <1>2, <2>1, <2>2
<1>4. CASE WriteBody
  <2> DEFINE stop == cur.start + cur.len
             end  == RecordEnd(cur.at)
             last == IF end < stop THEN end ELSE stop
  <2>1. /\ pc = "body" /\ pc' = IF last = stop THEN "point" ELSE "body"
        /\ cur' = IF last = stop THEN cur ELSE [cur EXCEPT !.at = last + 1]
    BY <1>4 DEF WriteBody
  <2>2. cur.at > cur.start /\ cur.at =< stop /\ cur \in Call
    BY <1>1, <2>1 DEF TypeOK
  <2>3. end \in Nat /\ end >= cur.at
    BY <1>2, <2>2, RecordEndBound
  <2>4. StepsLeft = stop - cur.at + 2
    <3>1. pc = "body"
      BY <2>1
    <3>2. StepsLeft = cur.start + cur.len - cur.at + 2
      BY <3>1 DEF StepsLeft
    <3> QED BY <1>2, <3>2
  <2> HIDE DEF end
  <2>5. CASE last = stop
    <3>1. StepsLeft' = 1
      BY <2>1, <2>5 DEF StepsLeft
    <3> QED BY <1>2, <2>2, <2>4, <3>1
  <2>6. CASE last # stop
    <3>1. last = end /\ cur' = [cur EXCEPT !.at = last + 1] /\ pc' = "body"
      BY <2>1, <2>6
    <3>2. cur'.start = cur.start /\ cur'.len = cur.len /\ cur'.at = end + 1
      BY <2>2, <3>1 DEF Call
    <3>3. StepsLeft' = cur'.start + cur'.len - cur'.at + 2
      BY <3>1 DEF StepsLeft
    <3> QED BY <1>2, <2>3, <2>4, <3>2, <3>3
  <2> QED BY <2>5, <2>6
<1>5. CASE WritePointer \/ FreeBlock
  <2>1. pc \in {"point", "free"} /\ pc' = "idle"
    BY <1>5 DEF WritePointer, FreeBlock
  <2> QED BY <2>1 DEF StepsLeft
<1>6. CASE UnlinkNext
  <2>1. PICK s \in Victims : ptr' = [ptr EXCEPT ![s] = 0]
    BY <1>6 DEF UnlinkNext
  <2>2. pc = "delete" /\ pc' = "delete" /\ dels' = dels
    BY <1>6 DEF UnlinkNext
  <2>3. s \in Linked
    BY <2>1 DEF Victims, Linked
  <2>4. Linked' = Linked \ {s}
    BY <1>1, <2>1, <2>3 DEF Linked, TypeOK
  <2>5. IsFiniteSet(Linked) /\ Cardinality(Linked) \in Nat /\ Cardinality(dels.hdrs) \in Nat
    BY CountedFinite
  <2>6. Cardinality(Linked \ {s}) = Cardinality(Linked) - 1
    BY <2>3, <2>5, FS_RemoveElement
  <2>7. /\ StepsLeft = MaxScratch + 2 + Cardinality(dels.hdrs) + Cardinality(Linked)
        /\ StepsLeft' = MaxScratch + 2 + Cardinality(dels.hdrs) + Cardinality(Linked \ {s})
    BY <2>2, <2>4 DEF StepsLeft
  <2> QED BY <1>2, <2>5, <2>6, <2>7
<1>7. CASE DeleteHeader
  <2> DEFINE left == dels.hdrs \ {Doomed}
             h    == Cardinality(dels.hdrs)
             m    == Cardinality(Linked)
  <2>1. /\ pc = "delete" /\ ptr' = ptr /\ scratch' = scratch
        /\ dels' = IF left = {} THEN NoDeletion ELSE [dels EXCEPT !.hdrs = left]
        /\ pc' = IF left # {} THEN "delete"
                 ELSE IF scratch.n = 0 THEN "idle" ELSE "space"
        /\ cur' = IF left = {} /\ scratch.n # 0 THEN [Idle EXCEPT !.at = 1] ELSE Idle
    BY <1>7 DEF DeleteHeader
  <2>2. m \in Nat /\ h \in Nat /\ h > 0 /\ IsFiniteSet(dels.hdrs)
        /\ Doomed \in dels.hdrs
    BY <2>1, CountedFinite
  <2>3. StepsLeft = MaxScratch + 2 + h + m
    BY <2>1 DEF StepsLeft
  <2>4. Cardinality(left) = h - 1
    BY <2>2, FS_RemoveElement
  <2>5. Linked' = Linked
    BY <2>1 DEF Linked
  <2> HIDE DEF h
  <2>6. CASE left # {}
    <3>1. dels' = [dels EXCEPT !.hdrs = left] /\ pc' = "delete" /\ dels \in Deletion
      BY <1>1, <2>1, <2>6 DEF TypeOK
    <3>2. dels'.hdrs = left
      BY <3>1 DEF Deletion
    <3>3. StepsLeft' = MaxScratch + 2 + Cardinality(dels'.hdrs) + Cardinality(Linked')
      BY <3>1 DEF StepsLeft
    <3>4. StepsLeft' = MaxScratch + 2 + (h - 1) + m
      BY <2>4, <2>5, <3>2, <3>3
    <3> HIDE DEF m
    <3> QED BY <1>2, <2>2, <2>3, <3>4
  <2>7. CASE left = {} /\ scratch.n = 0
    <3>1. StepsLeft' = 0
      BY <2>1, <2>7 DEF StepsLeft
    <3> HIDE DEF m
    <3> QED BY <1>2, <2>2, <2>3, <3>1
  <2>8. CASE left = {} /\ scratch.n # 0
    <3>1. pc' = "space" /\ cur' = [Idle EXCEPT !.at = 1]
      BY <2>1, <2>8
    <3>2. cur'.at = 1
      BY <3>1 DEF Idle
    <3>3. StepsLeft' = scratch.n - 1 + 2
      BY <2>1, <3>1, <3>2 DEF StepsLeft
    <3> HIDE DEF m
    <3> QED BY <1>2, <2>2, <2>3, <3>3
  <2> QED BY <2>6, <2>7, <2>8
<1>8. CASE FreeScratch
  <2>1. pc = "space" /\ pc' = "space" /\ scratch' = scratch
        /\ cur' = [cur EXCEPT !.at = cur.at + 1] /\ cur \in Call
    BY <1>1, <1>8 DEF FreeScratch, TypeOK
  <2>2. cur'.at = cur.at + 1
    BY <2>1 DEF Call
  <2>3. StepsLeft = scratch.n - cur.at + 2 /\ StepsLeft' = scratch'.n - cur'.at + 2
    BY <2>1 DEF StepsLeft
  <2>4. scratch'.n = scratch.n
    BY <2>1
  <2> QED BY <1>2, <2>2, <2>3, <2>4
<1>9. CASE WriteSpace
  <2>1. pc = "space" /\ pc' = "idle" /\ cur.at \in 1 .. scratch.n + 1
    BY <1>1, <1>9 DEF WriteSpace, TypeOK
  <2>2. StepsLeft = scratch.n - cur.at + 2 /\ StepsLeft' = 0
    BY <2>1 DEF StepsLeft
  <2> QED BY <1>2, <2>1, <2>2
<1> QED BY <1>3, <1>4, <1>5, <1>6, <1>7, <1>8, <1>9 DEF Step

(***************************************************************************)
(* A place in a call where it can go on.  In a mass deletion the slot that *)
(* comes next must be there to be found.                                   *)
(***************************************************************************)
GoesOn ==
    \/ pc \in {"length", "body", "point", "free", "space"}
    \/ /\ pc = "delete"
       /\ \/ Victims = {}
          \/ \E s \in Victims : \A t \in Victims : Rank(s) =< Rank(t)

LEMMA CallGoesOn == TypeOK /\ pc # "idle" => GoesOn
<1> SUFFICES ASSUME TypeOK, pc = "delete", Victims # {}
             PROVE  \E s \in Victims : \A t \in Victims : Rank(s) =< Rank(t)
  BY DEF TypeOK, PC, GoesOn
<1> DEFINE R == {Rank(s) : s \in Victims}
<1>1. ASSUME NEW s \in Victims PROVE Rank(s) \in Nat
  <2>1. s[1] \in Nat /\ s[2] \in Nat /\ s[3] \in Nat /\ NPrt \in Nat
    BY DMFileAssumption DEF Victims, Slot, Row, Col
  <2> QED BY <2>1 DEF Rank
<1>2. R \subseteq Nat /\ R # {}
  BY <1>1
<1> HIDE DEF R
<1>3. PICK x \in R : \A y \in R : x =< y
  BY <1>2, LeastNat
<1>4. PICK s \in Victims : x = Rank(s)
  BY DEF R
<1>5. \A t \in Victims : Rank(t) \in R
  BY DEF R
<1> QED BY <1>3, <1>4, <1>5

(***************************************************************************)
(* What CallsReturn rests on.  Every step of a call, whatever it deletes   *)
(* or writes, leaves it less to do, so that it takes no more than the      *)
(* StepsLeft it begins with; and until it returns there is a step that it  *)
(* can take: DM_DALL finds the slot or the header it deletes next.         *)
(***************************************************************************)
THEOREM CallsAreFinite ==
    Spec => /\ [](StepsLeft \in Nat /\ (StepsLeft = 0 <=> pc = "idle"))
            /\ [](pc # "idle" => GoesOn)
            /\ [][Step => StepsLeft' < StepsLeft]_vars
<1>1. CallInv => StepsLeft \in Nat /\ (StepsLeft = 0 <=> pc = "idle")
  BY StepsLeftNat
<1>2. CallInv => (pc # "idle" => GoesOn)
  BY CallGoesOn DEF CallInv, TypeInv
<1>3. CallInv /\ [Next]_vars => [Step => StepsLeft' < StepsLeft]_vars
  BY StepShortens
<1> QED BY <1>1, <1>2, <1>3, SpecCallInv, PTL DEF Spec

=============================================================================

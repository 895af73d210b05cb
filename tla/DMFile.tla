------------------------------- MODULE DMFile -------------------------------
(***************************************************************************)
(* One DM file, open for writing by one program that does not share it     *)
(* (kshare false): gemlib/dm, the routines that write and delete data and  *)
(* headers.                                                                *)
(*                                                                         *)
(* Every action is at most one FL_WRIT, so that the program may die        *)
(* between any two of them.  What the routines change in memory between    *)
(* two writes (the common blocks of dmcmn.cmn) changes with the write that *)
(* follows it.  FL_WRIT is taken to reach the file when it returns, a      *)
(* record at a time: no write is lost, torn within a record or reordered.  *)
(* That is so for integer and packed data.  Unpacked reals (DM_WFLT) wait  *)
(* in the cache, behind a pointer that is on file already: see DMCache.    *)
(*                                                                         *)
(* Headers are kept as the sets of defined rows and columns: which keys a  *)
(* header holds does not matter here, and a search by key ranges selects   *)
(* any set of defined headers.  A data header (IDTHDR) is written in front *)
(* of the data and is part of it.                                          *)
(***************************************************************************)
EXTENDS DMSpace, FiniteSetsExt

CONSTANTS
    NRow, NCol, NPrt,   \* krow, kcol, kprt: the slots of the file
    MaxFree,            \* kmfree: pairs in the list of free blocks
    MaxScratch,         \* MMSCPR: pairs in the scratch list of DM_DALL
    RecLen,             \* MBLKSZ: words in a record
    First,              \* the first word after the data pointers
    MaxWord,            \* bound: the file grows no further
    Lens,               \* lengths of data with its data header
    Val,                \* the data a caller writes: every word of it is v
    CanCrash,           \* may the program die in the middle of a call?
    CanResize,          \* may data be written over data of another length?
    NoData, Torn, NoCall

ASSUME DMFileAssumption ==
    /\ NRow \in Nat \ {0} /\ NCol \in Nat \ {0} /\ NPrt \in Nat \ {0}
    /\ MaxFree \in Nat \ {0} /\ MaxScratch \in Nat \ {0}
    /\ RecLen \in Nat \ {0}
    /\ First \in Nat \ {0} /\ MaxWord \in Nat /\ First =< MaxWord
    /\ Lens \subseteq Nat \ {0}
    /\ Val \subseteq Nat
    /\ CanCrash \in BOOLEAN /\ CanResize \in BOOLEAN

Row  == 1 .. NRow
Col  == 1 .. NCol
Slot == Row \X Col \X (1 .. NPrt)

\* The names for what is no data and no call are neither.
ASSUME NamesAssumption ==
    NoData # Torn /\ {NoData, Torn} \cap Val = {} /\ NoCall \notin Slot \X Val

Word == First .. MaxWord

VARIABLES
    mem,        \* the space of the file in memory: kpnext, knfree, kfreew
    disk,       \* the same, as last written to the data management record
    ptr,        \* file: the pointer to the data of each slot; 0 for none
    word,       \* file: the words of the data area
    rows, cols, \* the rows and columns whose header is defined
    pc,         \* where the running call is
    cur,        \* the block it writes or frees
    dels,       \* DM_DALL: the headers still to be deleted
    scratch     \* DM_DALL: kscrch and msspce

space == <<mem, disk>>
heads == <<rows, cols>>
call  == <<cur, dels, scratch>>
vars  == <<mem, disk, ptr, word, rows, cols, pc, cur, dels, scratch>>

-----------------------------------------------------------------------------
Call == [slot : Slot, start : Nat, len : Nat, val : Nat, at : Nat]
Idle == [slot |-> <<1, 1, 1>>, start |-> 0, len |-> 0, val |-> 0, at |-> 0]
Deletion == [byrow : BOOLEAN, hdrs : SUBSET (Row \cup Col)]
NoDeletion == [byrow |-> TRUE, hdrs |-> {}]

IsSpace(sp) ==
    /\ sp = [next |-> sp.next, free |-> sp.free]
    /\ sp.next \in Nat \ {0}
    /\ IsList(sp.free, MaxFree)

PC == {"idle", "length", "body", "point", "free", "delete", "space"}

TypeOK ==
    /\ IsSpace(mem) /\ IsSpace(disk)
    /\ ptr \in [Slot -> {0} \cup Word]
    /\ word \in [Word -> Nat]
    /\ rows \subseteq Row /\ cols \subseteq Col
    /\ pc \in PC
    /\ cur \in Call
    /\ pc \in {"length", "body", "point"} =>
          cur.start \in Word /\ cur.start + cur.len \in Word
    /\ pc \in {"length", "body"} =>
          cur.at > cur.start /\ cur.at =< cur.start + cur.len
    /\ pc = "free" => cur.start \in Word
    /\ pc = "space" => cur.at \in 1 .. scratch.n + 1
    /\ dels \in Deletion
    /\ IsList(scratch, MaxScratch)

\* The length of the data of a slot, as DM_RINT reads it.
OldLen(s) == IF ptr[s] = 0 THEN 0 ELSE word[ptr[s]]

\* The block a pointer stands for: the length word and the data after it.
BlockOf(s) == [len |-> word[ptr[s]] + 1, start |-> ptr[s]]

\* The space when a block has been added to its free list (DM_AFRE).
Freed(sp, blk) == [sp EXCEPT !.free = AddBlock(sp.free, MaxFree, blk)]

\* The last word of the record before.
BugRecordEnd(w) == ((w - 1) \div RecLen) * RecLen

\* The last word in the record of w (DM_WORD).
RecordEnd(w) == ((w - 1) \div RecLen + 1) * RecLen

-----------------------------------------------------------------------------
\* DM_CRET leaves a file without headers or data.
Init ==
    /\ mem = [next |-> First, free |-> NoBlocks]
    /\ disk = mem
    /\ ptr = [s \in Slot |-> 0]
    /\ word = [w \in Word |-> 0]
    /\ rows = {} /\ cols = {}
    /\ pc = "idle" /\ cur = Idle /\ dels = NoDeletion /\ scratch = NoBlocks

(***************************************************************************)
(* DM_WRWH, DM_WCLH: define a header.  DM_DCLH as GD_DGRD calls it, when   *)
(* the data of the column is gone.                                         *)
(***************************************************************************)
WriteRowHeader(r) ==
    /\ pc = "idle" /\ r \notin rows
    /\ rows' = rows \cup {r}
    /\ UNCHANGED <<space, ptr, word, cols, pc, call>>

WriteColHeader(c) ==
    /\ pc = "idle" /\ c \notin cols
    /\ cols' = cols \cup {c}
    /\ UNCHANGED <<space, ptr, word, rows, pc, call>>

DeleteColHeader(c) ==
    /\ pc = "idle" /\ c \in cols
    /\ \A s \in Slot : s[2] = c => ptr[s] = 0
    /\ cols' = cols \ {c}
    /\ UNCHANGED <<space, ptr, word, rows, pc, call>>

(***************************************************************************)
(* DM_WDTR, DM_WDTI, DM_WDTC, DM_WGB2.  Callers write under headers they   *)
(* have defined.  Data of the length that is there is written over it.     *)
(* Otherwise the old block is freed and new space is taken, by which       *)
(* DM_GSPC writes the data management record; then come the length word,   *)
(* the data a record at a time, and last the pointer.                      *)
(***************************************************************************)
Overwrite(s, n, v) ==
    /\ pc = "idle" /\ s[1] \in rows /\ s[2] \in cols
    /\ OldLen(s) = n
    /\ ptr[s] + n =< MaxWord
    /\ cur' = [slot |-> s, start |-> ptr[s], len |-> n, val |-> v,
               at |-> ptr[s] + 1]
    /\ pc' = "body"
    /\ UNCHANGED <<space, ptr, word, heads, dels, scratch>>

\* The data management record is not written when space is taken.
BugAllocate(s, n, v) ==
    /\ pc = "idle" /\ s[1] \in rows /\ s[2] \in cols
    /\ OldLen(s) # n
    /\ CanResize \/ ptr[s] = 0
    /\ LET sp    == IF OldLen(s) > 0 THEN Freed(mem, BlockOf(s)) ELSE mem
           start == GetStart(sp, n + 1)
       IN  /\ start \in Word /\ start + n =< MaxWord
           /\ mem' = GetSpace(sp, n + 1, MaxFree)
           /\ cur' = [slot |-> s, start |-> start, len |-> n, val |-> v,
                      at |-> start + 1]
    /\ pc' = "length"
    /\ UNCHANGED <<disk, ptr, word, heads, dels, scratch>>

Allocate(s, n, v) ==
    /\ pc = "idle" /\ s[1] \in rows /\ s[2] \in cols
    /\ OldLen(s) # n
    /\ CanResize \/ ptr[s] = 0
    /\ LET sp    == IF OldLen(s) > 0 THEN Freed(mem, BlockOf(s)) ELSE mem
           start == GetStart(sp, n + 1)
       IN  /\ start \in Word /\ start + n =< MaxWord
           /\ mem' = GetSpace(sp, n + 1, MaxFree)
           /\ disk' = mem'
           /\ cur' = [slot |-> s, start |-> start, len |-> n, val |-> v,
                      at |-> start + 1]
    /\ pc' = "length"
    /\ UNCHANGED <<ptr, word, heads, dels, scratch>>

\* The pointer is written before the data.
BugWriteLength ==
    /\ pc = "length"
    /\ word' = [word EXCEPT ![cur.start] = cur.len]
    /\ ptr' = [ptr EXCEPT ![cur.slot] = cur.start]
    /\ pc' = "body"
    /\ UNCHANGED <<space, heads, call>>

WriteLength ==
    /\ pc = "length"
    /\ word' = [word EXCEPT ![cur.start] = cur.len]
    /\ pc' = "body"
    /\ UNCHANGED <<space, ptr, heads, call>>

\* Data that does not fit in one record is cut short.
BugWriteBody ==
    /\ pc = "body"
    /\ word' = [w \in Word |->
                   IF w \in cur.at .. Min({RecordEnd(cur.at), cur.start + cur.len})
                   THEN cur.val ELSE word[w]]
    /\ pc' = "point"
    /\ UNCHANGED <<space, ptr, heads, call>>

WriteBody ==
    /\ pc = "body"
    /\ LET stop == cur.start + cur.len
           last == IF RecordEnd(cur.at) < stop THEN RecordEnd(cur.at) ELSE stop
       IN  /\ word' = [w \in Word |->
                          IF w \in cur.at .. last THEN cur.val ELSE word[w]]
           /\ pc' = IF last = stop THEN "point" ELSE "body"
           /\ cur' = IF last = stop THEN cur ELSE [cur EXCEPT !.at = last + 1]
    /\ UNCHANGED <<space, ptr, heads, dels, scratch>>

WritePointer ==
    /\ pc = "point"
    /\ ptr' = [ptr EXCEPT ![cur.slot] = cur.start]
    /\ pc' = "idle" /\ cur' = Idle
    /\ UNCHANGED <<space, word, heads, dels, scratch>>

(***************************************************************************)
(* DM_DDAT: blank the pointer, then free the block it pointed to.          *)
(***************************************************************************)
Unlink(s) ==
    /\ pc = "idle" /\ ptr[s] # 0
    /\ cur' = [Idle EXCEPT !.slot = s, !.start = ptr[s], !.len = word[ptr[s]]]
    /\ ptr' = [ptr EXCEPT ![s] = 0]
    /\ pc' = "free"
    /\ UNCHANGED <<space, word, heads, dels, scratch>>

FreeBlock ==
    /\ pc = "free"
    /\ mem' = Freed(mem, [len |-> cur.len + 1, start |-> cur.start])
    /\ disk' = mem'
    /\ pc' = "idle" /\ cur' = Idle
    /\ UNCHANGED <<ptr, word, heads, dels, scratch>>

(***************************************************************************)
(* DM_DALL: for each header the search selects, DM_DELT blanks the         *)
(* pointers under the defined headers of the other kind and keeps their    *)
(* blocks in the scratch list; then the header is deleted.  In the end     *)
(* DM_WSPC frees the blocks of the scratch list and writes the data        *)
(* management record.                                                      *)
(***************************************************************************)
DeleteAll(byrow, hdrs) ==
    /\ pc = "idle" /\ hdrs # {}
    /\ dels' = [byrow |-> byrow, hdrs |-> hdrs]
    /\ pc' = "delete"
    /\ UNCHANGED <<space, ptr, word, heads, cur, scratch>>

\* The header being deleted, and the slots under it that still hold data.
Doomed == Min(dels.hdrs)
\* The loop over the columns stops one short.
BugVictims ==
    {s \in Slot : /\ ptr[s] # 0
                  /\ IF dels.byrow THEN s[1] = Doomed /\ s[2] \in cols \ {NCol}
                                   ELSE s[2] = Doomed /\ s[1] \in rows}

Victims ==
    {s \in Slot : /\ ptr[s] # 0
                  /\ IF dels.byrow THEN s[1] = Doomed /\ s[2] \in cols
                                   ELSE s[2] = Doomed /\ s[1] \in rows}

\* They are visited by header of the other kind, and then by part.
Rank(s) == (IF dels.byrow THEN s[2] ELSE s[1]) * NPrt + s[3]

\* The pointer keeps its value.
BugUnlinkNext ==
    /\ pc = "delete"
    /\ \E s \in Victims :
          /\ \A t \in Victims : Rank(s) =< Rank(t)
          /\ scratch' = AddBlock(scratch, MaxScratch, BlockOf(s))
    /\ UNCHANGED <<space, ptr, word, heads, pc, cur, dels>>

UnlinkNext ==
    /\ pc = "delete"
    /\ \E s \in Victims :
          /\ \A t \in Victims : Rank(s) =< Rank(t)
          /\ ptr' = [ptr EXCEPT ![s] = 0]
          /\ scratch' = AddBlock(scratch, MaxScratch, BlockOf(s))
    /\ UNCHANGED <<space, word, heads, pc, cur, dels>>

\* The header that has been deleted is taken again.
BugDeleteHeader ==
    /\ pc = "delete" /\ Victims = {}
    /\ rows' = IF dels.byrow THEN rows \ {Doomed} ELSE rows
    /\ cols' = IF dels.byrow THEN cols ELSE cols \ {Doomed}
    /\ UNCHANGED <<space, ptr, word, scratch, pc, dels, cur>>

DeleteHeader ==
    /\ pc = "delete" /\ Victims = {}
    /\ rows' = IF dels.byrow THEN rows \ {Doomed} ELSE rows
    /\ cols' = IF dels.byrow THEN cols ELSE cols \ {Doomed}
    /\ LET left == dels.hdrs \ {Doomed}
       IN  /\ dels' = IF left = {} THEN NoDeletion
                      ELSE [dels EXCEPT !.hdrs = left]
           /\ pc' = IF left # {} THEN "delete"
                    ELSE IF scratch.n = 0 THEN "idle" ELSE "space"
           /\ cur' = IF left = {} /\ scratch.n # 0 THEN [Idle EXCEPT !.at = 1]
                     ELSE Idle
    /\ UNCHANGED <<space, ptr, word, scratch>>

FreeScratch ==
    /\ pc = "space" /\ cur.at =< scratch.n
    /\ mem' = Freed(mem, scratch.b[cur.at])
    /\ cur' = [cur EXCEPT !.at = cur.at + 1]
    /\ UNCHANGED <<disk, ptr, word, heads, pc, dels, scratch>>

WriteSpace ==
    /\ pc = "space" /\ cur.at > scratch.n
    /\ disk' = mem
    /\ scratch' = NoBlocks
    /\ pc' = "idle" /\ cur' = Idle
    /\ UNCHANGED <<mem, ptr, word, heads, dels>>

(***************************************************************************)
(* The program dies in a call.  Whoever opens the file next (DM_OPEN reads *)
(* the data management record and the headers) finds what was written.     *)
(***************************************************************************)
Crash ==
    /\ CanCrash /\ pc # "idle"
    /\ mem' = disk
    /\ pc' = "idle" /\ cur' = Idle /\ dels' = NoDeletion /\ scratch' = NoBlocks
    /\ UNCHANGED <<disk, ptr, word, heads>>

-----------------------------------------------------------------------------
Request ==
    \/ \E r \in Row : WriteRowHeader(r)
    \/ \E c \in Col : WriteColHeader(c)
    \/ \E c \in Col : DeleteColHeader(c)
    \/ \E s \in Slot, n \in Lens, v \in Val : Overwrite(s, n, v)
    \/ \E s \in Slot, n \in Lens, v \in Val : Allocate(s, n, v)
    \/ \E s \in Slot : Unlink(s)
    \/ \E hdrs \in SUBSET rows : DeleteAll(TRUE, hdrs)
    \/ \E hdrs \in SUBSET cols : DeleteAll(FALSE, hdrs)

Step ==
    \/ WriteLength
    \/ WriteBody
    \/ WritePointer
    \/ FreeBlock
    \/ UnlinkNext
    \/ DeleteHeader
    \/ FreeScratch
    \/ WriteSpace

Next == Request \/ Step \/ Crash

Spec == Init /\ [][Next]_vars

\* A call that has been made runs on: nothing in DM waits for another party.
FairSpec == Spec /\ WF_vars(Step)

-----------------------------------------------------------------------------
(***************************************************************************)
(* What a reader gets (DM_RDTR and its kin): the length, then as many      *)
(* words.  Words that no single call wrote together are Torn.              *)
(***************************************************************************)
Content(s) ==
    IF ptr[s] = 0 THEN NoData
    ELSE LET body == ptr[s] + 1 .. ptr[s] + word[ptr[s]]
             data == {word[w] : w \in body \cap Word}
         IN  IF body # {} /\ body \subseteq Word /\ \E v \in Val : data = {v}
             THEN CHOOSE v \in Val : data = {v}
             ELSE Torn

Writing == pc \in {"length", "body", "point"}

(***************************************************************************)
(* A DM file is a map from slots to data: data appears when its pointer is *)
(* written, goes when its pointer is blanked, and nothing else is touched, *)
(* whatever blocks are reused and wherever a call is cut off.              *)
(***************************************************************************)
Store == INSTANCE DMStore WITH
    store <- [s \in Slot |-> Content(s)],
    writing <- IF Writing THEN <<cur.slot, cur.val>> ELSE NoCall

Refinement == Store!Spec

-----------------------------------------------------------------------------
\* Slots whose data is in place: all but the one being written.
Held == {s \in Slot : ptr[s] # 0 /\ ~(Writing /\ s = cur.slot)}

\* The block of the call in progress, and those of the scratch list that
\* are yet to be freed.
InHand ==
    (IF Writing \/ pc = "free" THEN {[len |-> cur.len + 1, start |-> cur.start]}
     ELSE {})
    \cup {scratch.b[i] : i \in (IF pc = "space" THEN cur.at ELSE 1) .. scratch.n}

HandWords == UNION {Words(b) : b \in InHand}
HeldWords == UNION {Words(BlockOf(s)) : s \in Held}

(***************************************************************************)
(* No word has two uses.  The blocks the slots point to, the block being   *)
(* written or freed and the free blocks do not overlap, neither with the   *)
(* list in memory nor with the list that a program opening the file after  *)
(* a crash would read.                                                     *)
(***************************************************************************)
NoOverlap ==
    /\ \A s, t \in Held :
          s # t => Words(BlockOf(s)) \cap Words(BlockOf(t)) = {}
    /\ HeldWords \cap (FreeWords(mem.free) \cup FreeWords(disk.free)) = {}
    /\ HeldWords \cap HandWords = {}
    /\ HandWords \cap (FreeWords(mem.free) \cup FreeWords(disk.free)) = {}

(***************************************************************************)
(* The next free word on file is past every block that the file points to: *)
(* DM_GSPC writes the data management record before the pointer, so that   *)
(* space taken from the end of the file is never handed out twice.         *)
(***************************************************************************)
PointersBelowNext ==
    \A s \in Held : First =< ptr[s] /\ Stop(BlockOf(s)) =< disk.next

\* Both lists are what DM_GSPC relies on: in order of decreasing length (so
\* that the last entry that fits is the smallest), with no two entries that
\* touch or overlap, within the space allocated so far.
WellFormed(sp) ==
    /\ Sorted(sp.free)
    /\ Separate(sp.free)
    /\ Within(sp.free, First, sp.next)

ListsWellFormed == WellFormed(mem) /\ WellFormed(disk)

\* The words the program can account for.
Known == HeldWords \cup FreeWords(mem.free) \cup HandWords

(***************************************************************************)
(* A program that does not die loses space only when a list has no room    *)
(* for another pair, and then the smallest block there is: no larger than  *)
(* any entry that was in the list.                                         *)
(***************************************************************************)
LostIsSmallest ==
    [][ LET lost == Known \ Known'
            full == IF pc = "delete" THEN [list |-> scratch, max |-> MaxScratch]
                    ELSE [list |-> mem.free, max |-> MaxFree]
        IN  lost # {} => /\ full.list.n = full.max
                         /\ \A i \in 1 .. full.list.n :
                               Cardinality(lost) =< full.list.b[i].len
      ]_vars

(***************************************************************************)
(* Data lies under defined headers only.  What a row or column that was    *)
(* deleted left behind would come back under the next header to be written *)
(* there.                                                                  *)
(***************************************************************************)
NoOrphans == \A s \in Slot : ptr[s] # 0 => s[1] \in rows /\ s[2] \in cols

\* Every call returns, DM_DALL among them, whatever it has been asked to
\* delete.
CallsReturn == []<>(pc = "idle")

=============================================================================

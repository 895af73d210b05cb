------------------------------ MODULE DCBuffer ------------------------------
(***************************************************************************)
(* The decoder buffer (bridge/dc/dcb.c): a ring of Size bytes between the  *)
(* pipe that a decoder reads and the search for bulletins.                 *)
(*                                                                         *)
(* The pointers are offsets from sbuf.  A byte is the number of its place  *)
(* in the input, 1 for the first byte ever read: what the byte says is no  *)
(* concern of the buffer.                                                  *)
(***************************************************************************)
EXTENDS Integers, Sequences

CONSTANT Size       \* DCMXBF

ASSUME DCBufferAssumption == Size \in Nat /\ Size >= 4

VARIABLES
    ring,       \* the bytes of the buffer; 0 for none yet
    nxtfeed,    \* where the next byte read goes
    nxtpeek,    \* the next byte to be scanned
    bhead,      \* the head of the bulletin: what follows it is kept
    fed         \* how many bytes have been read so far

ringvars == <<ring, nxtfeed, nxtpeek, bhead, fed>>

Place == 0 .. Size - 1

RingType ==
    /\ ring \in [Place -> Nat]
    /\ nxtfeed \in Place /\ nxtpeek \in Place /\ bhead \in Place
    /\ fed \in Nat

\* dcb_init
RingInit ==
    /\ ring = [i \in Place |-> 0]
    /\ nxtfeed = 0 /\ nxtpeek = 0 /\ bhead = 0
    /\ fed = 0

\* The pointer is not brought round at the end of the buffer.
BugSucc(i) == i + 1

Succ(i) == IF i = Size - 1 THEN 0 ELSE i + 1

-----------------------------------------------------------------------------
(***************************************************************************)
(* dcb_put.  One place stays empty to tell a full buffer from an empty     *)
(* one.  With the head at 0 that place is the last of the buffer, and the  *)
(* test for a full buffer does not see it.                                 *)
(***************************************************************************)
IsEmpty == nxtfeed = bhead
IsFull  == nxtfeed + 1 = bhead

\* The place that is left empty is forgotten when the head is at 0.
BugTryRead ==
    IF nxtfeed < bhead THEN bhead - nxtfeed - 1 ELSE Size - nxtfeed

\* How many bytes the first read asks for.
TryRead ==
    IF nxtfeed < bhead THEN bhead - nxtfeed - 1
    ELSE IF bhead > 0 THEN Size - nxtfeed
    ELSE Size - 1 - nxtfeed

\* The next n bytes of the input go to nxtfeed and after.
Fill(n) ==
    /\ ring' = [i \in Place |-> IF i \in nxtfeed .. nxtfeed + n - 1
                                THEN fed + 1 + (i - nxtfeed) ELSE ring[i]]
    /\ nxtfeed' = IF nxtfeed + n = Size THEN 0 ELSE nxtfeed + n
    /\ fed' = fed + n
    /\ UNCHANGED <<nxtpeek, bhead>>

\* A first read of n bytes came to the end of the buffer: there is room at
\* its beginning, for which dcb_put reads again.
ReadsAgain(n) == nxtfeed >= bhead /\ nxtfeed + n = Size
TryMore == bhead - 1

-----------------------------------------------------------------------------
(***************************************************************************)
(* dcb_peekc, dcb_sbhd, dcb_sbtl, dcb_getb.  The head is set back bytes    *)
(* before the byte just scanned.  The tail is set on the byte just scanned *)
(* and the bulletin taken at once; the tail of a bulletin that ends on the *)
(* last place is -1 by then, for which dcb_getb copies nothing from the    *)
(* beginning of the buffer.                                                *)
(***************************************************************************)
AllScanned == nxtpeek = nxtfeed

HeadAt(back) == (Succ(nxtpeek) - 1 - back + Size) % Size

Scan ==
    /\ nxtpeek' = Succ(nxtpeek)
    /\ UNCHANGED <<ring, nxtfeed, bhead, fed>>

ScanHead(back) ==
    /\ nxtpeek' = Succ(nxtpeek)
    /\ bhead' = HeadAt(back)
    /\ UNCHANGED <<ring, nxtfeed, fed>>

TailAt == Succ(nxtpeek) - 1

\* The part at the beginning of the buffer is copied one byte late.
BugBulletin ==
    IF TailAt > bhead THEN [k \in 1 .. TailAt - bhead + 1 |-> ring[bhead + k - 1]]
    ELSE LET size == Size - bhead
         IN  [k \in 1 .. size + TailAt + 1 |->
                 IF k =< size THEN ring[bhead + k - 1] ELSE ring[k - size]]

\* The bytes from the head to the tail.
Bulletin ==
    IF TailAt > bhead THEN [k \in 1 .. TailAt - bhead + 1 |-> ring[bhead + k - 1]]
    ELSE LET size == Size - bhead
         IN  [k \in 1 .. size + TailAt + 1 |->
                 IF k =< size THEN ring[bhead + k - 1] ELSE ring[k - size - 1]]

ScanTail ==
    /\ nxtpeek' = Succ(nxtpeek)
    /\ bhead' = IF TailAt + 1 > Size - 1 THEN 0 ELSE TailAt + 1
    /\ UNCHANGED <<ring, nxtfeed, fed>>

-----------------------------------------------------------------------------
\* The number of places from i up to j, going round.
Span(i, j) == IF i =< j THEN j - i ELSE j - i + Size

(***************************************************************************)
(* No byte is lost.  The bytes from the head of the bulletin up to nxtfeed *)
(* are the last ones read, in their order, and those still to be scanned   *)
(* are among them: no read, however it goes round the buffer, writes over  *)
(* a byte that is still wanted.                                            *)
(***************************************************************************)
RingIntact ==
    /\ Span(bhead, nxtpeek) + Span(nxtpeek, nxtfeed) = Span(bhead, nxtfeed)
    /\ \A i \in Place :
          Span(bhead, i) < Span(bhead, nxtfeed) =>
             ring[i] = fed - Span(bhead, nxtfeed) + Span(bhead, i) + 1

=============================================================================

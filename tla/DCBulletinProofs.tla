-------------------------- MODULE DCBulletinProofs --------------------------
(***************************************************************************)
(* Theorems about DCBulletin, for every size of the buffer, every feed and *)
(* every number of lines in a header.                                      *)
(***************************************************************************)
EXTENDS DCBulletin, SequenceTheorems, FiniteSetTheorems, WellFoundedInduction,
        TLAPS

(***************************************************************************)
(* The ring: what each operation on it does to the bytes that are still    *)
(* wanted.                                                                 *)
(***************************************************************************)
\* The bytes from the head to nxtfeed are the last of those read.
Wanted == Span(bhead, nxtfeed)

\* How many bytes have been given up: all before the head.
GivenUp == fed - Wanted

\* The bytes scanned since the head.
Scanned == Span(bhead, nxtpeek)

RingInv == RingType /\ RingIntact /\ GivenUp >= 0

-----------------------------------------------------------------------------
(***************************************************************************)
(* Going round: facts about places and the distances between them.         *)
(***************************************************************************)
LEMMA ModTwice ==
  ASSUME NEW m \in Nat \ {0}, NEW x \in 0 .. 2 * m - 1
  PROVE  x % m = IF x < m THEN x ELSE x - m
<1> DEFINE q == x \div m
           r == x % m
<1>1. q \in Nat /\ r \in 0 .. m - 1 /\ x = m * q + r
  OBVIOUS
<1> HIDE DEF q, r
<1>2. CASE q = 0
  <2>1. x = r
    BY <1>1, <1>2
  <2> QED BY <2>1, <1>1 DEF r
<1>3. CASE q = 1
  <2>1. x = m + r
    BY <1>1, <1>3
  <2> QED BY <2>1, <1>1 DEF r
<1>4. CASE q >= 2
  <2>1. m * q >= m * 2
    BY <1>1, <1>4
  <2> QED BY <2>1, <1>1
<1> QED BY <1>1, <1>2, <1>3, <1>4

LEMMA SpanType ==
  ASSUME NEW i \in Place, NEW j \in Place
  PROVE  /\ Span(i, j) \in Nat /\ Span(i, j) \in Int /\ Span(i, j) < Size
         /\ Span(i, i) = 0
BY DCBufferAssumption DEF Span, Place

\* One place on, short of f.
LEMMA SpanStep ==
  ASSUME NEW b \in Place, NEW p \in Place, NEW f \in Place, p # f,
         Span(b, p) + Span(p, f) = Span(b, f)
  PROVE  /\ Succ(p) \in Place
         /\ Span(b, Succ(p)) = Span(b, p) + 1
         /\ Span(b, Succ(p)) + Span(Succ(p), f) = Span(b, f)
BY DCBufferAssumption DEF Span, Succ, Place

\* From b by h and p to f, without going past the beginning.
LEMMA SpanOrder ==
  ASSUME NEW b \in Place, NEW h \in Place, NEW p \in Place, NEW f \in Place,
         Span(b, h) + Span(h, p) = Span(b, p),
         Span(b, p) + Span(p, f) = Span(b, f)
  PROVE  /\ Span(h, p) + Span(p, f) = Span(h, f)
         /\ Span(b, h) + Span(h, f) = Span(b, f)
BY DCBufferAssumption DEF Span, Place

\* A place between h and f, seen from b.
LEMMA SpanBetween ==
  ASSUME NEW b \in Place, NEW h \in Place, NEW f \in Place, NEW i \in Place,
         Span(b, h) + Span(h, f) = Span(b, f), Span(h, i) < Span(h, f)
  PROVE  Span(b, h) + Span(h, i) = Span(b, i)
BY DCBufferAssumption DEF Span, Place

\* Some places back from p, no further than b.
LEMMA SpanBack ==
  ASSUME NEW b \in Place, NEW p \in Place, NEW n \in Nat, n =< Span(b, p)
  PROVE  LET h == IF p - n + Size < Size THEN p - n + Size ELSE p - n
         IN  h \in Place /\ Span(h, p) = n /\ Span(b, h) + Span(h, p) = Span(b, p)
BY DCBufferAssumption DEF Span, Place

\* A place that a read of n bytes at f, which stays this side of b, has
\* filled, and one that it has not.
LEMMA SpanFill ==
  ASSUME NEW b \in Place, NEW f \in Place, NEW i \in Place, NEW n \in Nat,
         n =< IF f < b THEN b - f - 1 ELSE Size - f
  PROVE  /\ Span(b, i) < Span(b, f) => i \notin f .. f + n - 1
         /\ Span(b, i) >= Span(b, f) /\ Span(b, i) < Span(b, f) + n =>
               i \in f .. f + n - 1 /\ i - f = Span(b, i) - Span(b, f)
BY DCBufferAssumption DEF Span, Place

\* A place counted from b, in the two parts of what lies across the end.
LEMMA SpanPlaces ==
  ASSUME NEW b \in Place, NEW k \in Nat \ {0}, k =< Size
  PROVE  /\ k =< Size - b => b + k - 1 \in Place /\ Span(b, b + k - 1) = k - 1
         /\ ~(k =< Size - b) => /\ k - (Size - b) - 1 \in Place
                                /\ Span(b, k - (Size - b) - 1) = k - 1
BY DCBufferAssumption DEF Span, Place

-----------------------------------------------------------------------------
LEMMA RingStart == RingInit => RingInv /\ Scanned = 0
BY DCBufferAssumption
   DEF RingInit, RingInv, RingType, RingIntact, GivenUp, Wanted, Scanned, Span, Place

\* dcb_put: a read of no more bytes than it asks for keeps the bytes that are
\* wanted, and the second read is made with the head past the beginning.
LEMMA FillKeeps ==
  ASSUME RingInv, NEW n \in Nat, n =< TryRead, Fill(n)
  PROVE  /\ RingInv' /\ GivenUp' = GivenUp /\ Scanned' = Scanned
         /\ ReadsAgain(n) => nxtfeed' = 0 /\ bhead' > 0
<1> USE DCBufferAssumption DEF RingInv, RingType
<1>1. nxtfeed' \in Place /\ bhead' = bhead /\ nxtpeek' = nxtpeek
      /\ fed' = fed + n
  BY DEF Fill, TryRead, Place
<1>2. n =< IF nxtfeed < bhead THEN bhead - nxtfeed - 1 ELSE Size - nxtfeed
  BY DEF TryRead, Place
<1>3. Wanted \in Nat /\ Wanted' = Wanted + n
  BY <1>1 DEF Fill, TryRead, Wanted, Span, Place
<1>4. ring' \in [Place -> Nat]
  <2>1. ASSUME NEW i \in Place, i \in nxtfeed .. nxtfeed + n - 1
        PROVE  fed + 1 + (i - nxtfeed) \in Nat
    BY <2>1 DEF Place
  <2> QED BY <2>1 DEF Fill
<1>5. (Span(bhead, nxtpeek) + Span(nxtpeek, nxtfeed) = Span(bhead, nxtfeed))'
  <2>1. Span(bhead, nxtpeek) + Span(nxtpeek, nxtfeed) = Span(bhead, nxtfeed)
    BY DEF RingIntact
  <2> QED BY <1>1, <2>1 DEF Fill, TryRead, Span, Place
<1>6. ASSUME NEW i \in Place, Span(bhead, i) < Wanted'
      PROVE  ring'[i] = fed' - Wanted' + Span(bhead, i) + 1
  <2>1. /\ Span(bhead, i) < Wanted => i \notin nxtfeed .. nxtfeed + n - 1
        /\ Span(bhead, i) >= Wanted =>
              i \in nxtfeed .. nxtfeed + n - 1 /\ i - nxtfeed = Span(bhead, i) - Wanted
    BY <1>2, <1>3, <1>6, SpanFill DEF Wanted
  <2>2. Span(bhead, i) \in Int
    BY SpanType
  <2>3. CASE Span(bhead, i) < Wanted
    <3>1. ring[i] = fed - Wanted + Span(bhead, i) + 1
      BY <2>3 DEF RingIntact, Wanted
    <3>2. ring'[i] = ring[i]
      BY <2>1, <2>3 DEF Fill
    <3> QED BY <3>1, <3>2, <2>2, <1>1, <1>3
  <2>4. CASE Span(bhead, i) >= Wanted
    <3>1. ring'[i] = fed + 1 + (i - nxtfeed)
      BY <2>1, <2>4 DEF Fill
    <3>2. i - nxtfeed = Span(bhead, i) - Wanted
      BY <2>1, <2>4
    <3> QED BY <3>1, <3>2, <2>2, <1>1, <1>3
  <2> QED BY <2>2, <2>3, <2>4, <1>3
<1>7. RingIntact'
  BY <1>1, <1>5, <1>6 DEF RingIntact, Wanted
<1>8. GivenUp' = GivenUp /\ Scanned' = Scanned
  BY <1>1, <1>3 DEF GivenUp, Scanned
<1>9. ReadsAgain(n) => nxtfeed' = 0 /\ bhead' > 0
  BY <1>1 DEF ReadsAgain, Fill, TryRead, Place
<1>10. fed' \in Nat
  BY <1>1
<1>11. RingType'
  BY <1>1, <1>4, <1>10
<1> QED BY <1>7, <1>8, <1>9, <1>11

\* The bytes still to be scanned lie between nxtpeek and nxtfeed.
LEMMA ScanStep ==
  ASSUME RingInv, ~AllScanned
  PROVE  /\ Succ(nxtpeek) \in Place
         /\ Span(bhead, Succ(nxtpeek)) = Scanned + 1
         /\ Span(bhead, Succ(nxtpeek)) + Span(Succ(nxtpeek), nxtfeed) = Wanted
         /\ Scanned \in Nat /\ GivenUp \in Int /\ Scanned < Wanted
<1> USE DEF RingInv, RingType, Scanned, Wanted
<1>1. Span(bhead, nxtpeek) + Span(nxtpeek, nxtfeed) = Span(bhead, nxtfeed)
  BY DEF RingIntact
<1>2. /\ Succ(nxtpeek) \in Place
      /\ Span(bhead, Succ(nxtpeek)) = Span(bhead, nxtpeek) + 1
      /\ Span(bhead, Succ(nxtpeek)) + Span(Succ(nxtpeek), nxtfeed)
            = Span(bhead, nxtfeed)
  BY <1>1, SpanStep DEF AllScanned
<1>3. /\ Span(bhead, nxtpeek) \in Nat /\ Span(bhead, nxtfeed) \in Int
      /\ Span(Succ(nxtpeek), nxtfeed) \in Nat
  BY <1>2, SpanType
<1>4. GivenUp \in Int
  BY <1>3 DEF GivenUp
<1>5. Span(bhead, nxtpeek) < Span(bhead, nxtfeed)
  BY <1>2, <1>3
<1> QED BY <1>2, <1>3, <1>4, <1>5

\* dcb_peekc.
LEMMA ScanKeeps ==
  ASSUME RingInv, ~AllScanned, Scan
  PROVE  RingInv' /\ GivenUp' = GivenUp /\ Scanned' = Scanned + 1
<1>1. nxtpeek' = Succ(nxtpeek) /\ UNCHANGED <<bhead, nxtfeed, fed, ring>>
  BY DEF Scan
<1>2. RingIntact'
  BY <1>1, ScanStep DEF RingIntact, RingInv, Wanted
<1>3. RingType'
  BY <1>1, ScanStep DEF RingInv, RingType
<1> QED BY <1>1, <1>2, <1>3, ScanStep DEF RingInv, GivenUp, Wanted, Scanned

\* Bringing the head forward to a place that has been scanned.
LEMMA HeadKeeps ==
  ASSUME RingInv, NEW h \in Place, NEW p \in Place,
         Span(bhead, h) + Span(h, p) = Span(bhead, p),
         Span(bhead, p) + Span(p, nxtfeed) = Span(bhead, nxtfeed),
         nxtpeek' = p, bhead' = h, UNCHANGED <<ring, nxtfeed, fed>>
  PROVE  /\ RingInv' /\ Scanned' = Span(h, p)
         /\ GivenUp' = GivenUp + Span(bhead, h)
<1> USE DEF RingInv, RingType
<1>1. /\ Span(h, p) + Span(p, nxtfeed) = Span(h, nxtfeed)
      /\ Span(bhead, h) + Span(h, nxtfeed) = Span(bhead, nxtfeed)
  BY SpanOrder
<1>2. /\ Span(bhead, h) \in Nat /\ Span(h, nxtfeed) \in Int
      /\ Span(bhead, nxtfeed) \in Int
  BY SpanType
<1>3. ASSUME NEW i \in Place, Span(h, i) < Span(h, nxtfeed)
      PROVE  ring[i] = fed - Span(h, nxtfeed) + Span(h, i) + 1
  <2>1. Span(bhead, h) + Span(h, i) = Span(bhead, i)
    BY <1>1, <1>3, SpanBetween
  <2>2. Span(h, i) \in Int
    BY SpanType
  <2>3. Span(bhead, i) < Span(bhead, nxtfeed)
    BY <2>1, <2>2, <1>1, <1>2, <1>3
  <2>4. ring[i] = fed - Span(bhead, nxtfeed) + Span(bhead, i) + 1
    BY <2>3 DEF RingIntact
  <2> QED BY <2>1, <2>2, <2>4, <1>1, <1>2
<1>4. RingIntact'
  BY <1>1, <1>3 DEF RingIntact
<1>5. GivenUp' = GivenUp + Span(bhead, h) /\ GivenUp \in Int
  BY <1>1, <1>2 DEF GivenUp, Wanted
<1> QED BY <1>2, <1>4, <1>5 DEF Scanned

\* dcb_sbhd: the head of a bulletin is back bytes before the one just scanned.
LEMMA ScanHeadKeeps ==
  ASSUME RingInv, ~AllScanned, NEW back \in Nat, back =< Scanned,
         ScanHead(back)
  PROVE  /\ RingInv' /\ Scanned' = back + 1 /\ GivenUp' >= GivenUp
         /\ GivenUp' = GivenUp + Scanned - back
<1> DEFINE p == Succ(nxtpeek)
           h == HeadAt(back)
<1>1. /\ p \in Place /\ Span(bhead, p) = Scanned + 1
      /\ Span(bhead, p) + Span(p, nxtfeed) = Span(bhead, nxtfeed)
      /\ Scanned \in Nat /\ GivenUp \in Int
  BY ScanStep DEF Wanted
<1>2. bhead \in Place /\ nxtfeed \in Place
  BY DEF RingInv, RingType
<1>3. bhead' = h /\ nxtpeek' = p /\ UNCHANGED <<ring, nxtfeed, fed>>
  BY DEF ScanHead
<1>4. h = (p - 1 - back + Size) % Size
  BY DEF HeadAt
<1> HIDE DEF p, h
<1>5. Scanned + 1 < Size
  BY <1>1, <1>2, SpanType
<1>6. p - 1 - back + Size \in 0 .. 2 * Size - 1 /\ Size \in Nat \ {0} /\ p \in Int
  BY <1>1, <1>5, DCBufferAssumption DEF Place
<1>7. h = IF p - 1 - back + Size < Size THEN p - 1 - back + Size ELSE p - 1 - back
  <2>1. (p - 1 - back + Size) - Size = p - 1 - back
    BY <1>6
  <2> QED BY <2>1, <1>4, <1>6, ModTwice
<1>8. back + 1 \in Nat /\ back + 1 =< Span(bhead, p)
      /\ p - 1 - back = p - (back + 1)
      /\ p - 1 - back + Size = p - (back + 1) + Size
  BY <1>1, <1>6
<1>9. /\ h \in Place /\ Span(h, p) = back + 1
      /\ Span(bhead, h) + Span(h, p) = Span(bhead, p)
  BY <1>1, <1>2, <1>7, <1>8, SpanBack
<1>10. RingInv' /\ Scanned' = Span(h, p) /\ GivenUp' = GivenUp + Span(bhead, h)
  BY <1>1, <1>3, <1>9, HeadKeeps
<1>11. Span(bhead, h) \in Nat
  BY <1>2, <1>9, SpanType
<1> QED BY <1>1, <1>9, <1>10, <1>11

\* dcb_sbtl and dcb_getb: the bulletin is given up, up to the byte scanned.
LEMMA ScanTailKeeps ==
  ASSUME RingInv, ~AllScanned, ScanTail
  PROVE  /\ RingInv' /\ Scanned' = 0
         /\ GivenUp' = GivenUp + Scanned + 1
<1> DEFINE p == Succ(nxtpeek)
<1>1. /\ p \in Place /\ Span(bhead, p) = Scanned + 1
      /\ Span(bhead, p) + Span(p, nxtfeed) = Span(bhead, nxtfeed)
      /\ Scanned \in Nat /\ GivenUp \in Int
  BY ScanStep DEF Wanted
<1>2. bhead' = p /\ nxtpeek' = p /\ UNCHANGED <<ring, nxtfeed, fed>>
  BY <1>1, DCBufferAssumption DEF ScanTail, TailAt, Place
<1> HIDE DEF p
<1>3. Span(p, p) = 0 /\ Span(bhead, p) + Span(p, p) = Span(bhead, p)
  BY <1>1, SpanType
<1>4. RingInv' /\ Scanned' = Span(p, p) /\ GivenUp' = GivenUp + Span(bhead, p)
  BY <1>1, <1>2, <1>3, HeadKeeps
<1> QED BY <1>1, <1>3, <1>4

\* dcb_getb: the bulletin is the bytes from the head to the one just scanned,
\* one after the other, though it may lie across the end of the buffer.
LEMMA BulletinBytes ==
  ASSUME RingInv, ~AllScanned, TailAt # bhead
  PROVE  Bulletin = [k \in 1 .. Scanned + 1 |-> GivenUp + k]
<1> DEFINE p == Succ(nxtpeek)
           size == Size - bhead
<1>1. /\ p \in Place /\ Span(bhead, p) = Scanned + 1
      /\ Scanned \in Nat /\ GivenUp \in Int /\ Scanned < Wanted
      /\ TailAt = p - 1 /\ bhead \in Place /\ nxtfeed \in Place /\ fed \in Nat
  BY ScanStep DEF TailAt, RingInv, RingType
<1>2. Wanted < Size /\ Wanted \in Nat
  BY <1>1, SpanType DEF Wanted
<1>3. ASSUME NEW k \in 1 .. Scanned + 1, NEW i \in Place, Span(bhead, i) = k - 1
      PROVE  ring[i] = GivenUp + k
  <2>1. Span(bhead, i) < Span(bhead, nxtfeed)
    BY <1>1, <1>2, <1>3 DEF Wanted
  <2>2. ring[i] = fed - Wanted + Span(bhead, i) + 1
    BY <2>1 DEF RingInv, RingIntact, Wanted
  <2> QED BY <2>2, <1>1, <1>2, <1>3 DEF GivenUp
<1>4. ASSUME NEW k \in 1 .. Scanned + 1
      PROVE  /\ k =< size => ring[bhead + k - 1] = GivenUp + k
             /\ ~(k =< size) => ring[k - size - 1] = GivenUp + k
  <2>1. k \in Nat \ {0} /\ k =< Size
    BY <1>1, <1>2, DCBufferAssumption
  <2>2. /\ k =< size => bhead + k - 1 \in Place /\ Span(bhead, bhead + k - 1) = k - 1
        /\ ~(k =< size) => k - size - 1 \in Place /\ Span(bhead, k - size - 1) = k - 1
    BY <2>1, <1>1, SpanPlaces
  <2> QED BY <2>2, <1>3
<1> HIDE DEF p
<1>5. CASE TailAt > bhead
  <2>1. Bulletin = [k \in 1 .. TailAt - bhead + 1 |-> ring[bhead + k - 1]]
    BY <1>5 DEF Bulletin
  <2>2. Scanned + 1 = TailAt - bhead + 1
    BY <1>1, <1>2, <1>5, DCBufferAssumption DEF Span, Place
  <2>3. ASSUME NEW k \in 1 .. Scanned + 1 PROVE k =< size
    BY <2>2, <1>1, DCBufferAssumption DEF Place
  <2> HIDE DEF size
  <2> QED BY <2>1, <2>2, <2>3, <1>4
<1>6. CASE ~(TailAt > bhead)
  <2>1. Bulletin = [k \in 1 .. size + TailAt + 1 |->
                       IF k =< size THEN ring[bhead + k - 1] ELSE ring[k - size - 1]]
    BY <1>6 DEF Bulletin
  <2>2. Scanned + 1 = size + TailAt + 1
    BY <1>1, <1>2, <1>6, DCBufferAssumption DEF Span, Place
  <2> HIDE DEF size
  <2> QED BY <2>1, <2>2, <1>4
<1> QED BY <1>5, <1>6

-----------------------------------------------------------------------------
(***************************************************************************)
(* The scanner.                                                            *)
(***************************************************************************)
\* How many bytes of a header have been seen, and so lie after the head.
Depth(st) ==
    IF st \in {"SOH_CR_CR_", "Z_C_Z_"} THEN 3
    ELSE IF st \in {"SOH_CR_", "Z_C_"} THEN 2
    ELSE IF st \in {"SOH_", "Z_"} THEN 1 ELSE 0

\* What has been delivered lies before the head.
AllGivenUp ==
    \A k \in 1 .. Len(bulls) : bulls[k][Len(bulls[k])] =< GivenUp

(***************************************************************************)
(* The inductive invariant.  RingIntact needs to know, when a header is    *)
(* found, that the three bytes before are still in the buffer (Depth), and *)
(* when a second read is made that there is a head to stop at.             *)
(***************************************************************************)
Inv ==
    /\ TypeOK
    /\ RingInv
    /\ pc = "more" => nxtfeed = 0 /\ bhead > 0
    /\ Depth(fstate) =< Scanned
    /\ Consecutive
    /\ AllGivenUp

LEMMA InitInv == Init => Inv
<1> SUFFICES ASSUME Init PROVE Inv
  OBVIOUS
<1>1. RingInv /\ Scanned = 0
  BY RingStart DEF Init
<1>2. Len(feed) \in Nat
  BY DCBulletinAssumption DEF Init
<1>3. bulls = <<>> /\ Len(bulls) = 0 /\ bulls \in Seq(Seq(1 .. Len(feed)))
  BY DEF Init
<1>4. TypeOK
  <2>1. RingType /\ fed = 0 /\ feed \in Feeds
    BY <1>1 DEF Init, RingInit, RingInv
  <2>2. sent \in 0 .. Len(feed) /\ fed =< sent
    BY <1>2, <2>1 DEF Init
  <2>3. pc \in {"out", "put", "more", "scan", "stop"}
    BY DEF Init
  <2>4. fstate \in Outside \cup Inside /\ iret \in {"0"} \cup Error
    BY DEF Init, Outside
  <2>5. ifdtyp \in {0, 1} /\ nline \in 0 .. HeadLines + 1
    BY DCBulletinAssumption DEF Init
  <2>6. closed \in BOOLEAN /\ nchar \in BOOLEAN
    BY Zenon DEF Init
  <2> QED BY <1>3, <2>1, <2>2, <2>3, <2>4, <2>5, <2>6 DEF TypeOK
<1>5. Consecutive /\ AllGivenUp
  BY <1>3 DEF Consecutive, AllGivenUp
<1> QED BY <1>1, <1>4, <1>5 DEF Inv, Init, Depth

\* Steps that leave the buffer and the bulletins alone.
LEMMA Aside ==
  ASSUME Inv, UNCHANGED <<ringvars, bulls>>
  PROVE  /\ RingInv' /\ RingType' /\ Consecutive' /\ AllGivenUp'
         /\ Scanned' = Scanned
<1>1. RingType' /\ RingIntact' /\ GivenUp' = GivenUp /\ Scanned' = Scanned
  BY DEF Inv, RingInv, ringvars, RingType, RingIntact, GivenUp, Wanted, Scanned
<1> QED BY <1>1 DEF Inv, RingInv, Consecutive, AllGivenUp

LEMMA FeedInv == Inv /\ Feed => Inv'
<1> SUFFICES ASSUME Inv, Feed PROVE Inv'
  OBVIOUS
<1>0. UNCHANGED <<ringvars, feed, pc, fstate, ifdtyp, nline, nchar, bulls, iret>>
      /\ sent' \in Nat /\ sent' >= sent /\ sent' =< Len(feed) /\ closed' \in BOOLEAN
  <2>1. Len(feed) \in Nat
    BY DCBulletinAssumption DEF Inv, TypeOK
  <2>2. sent \in Nat /\ sent =< Len(feed)
    BY <2>1 DEF Inv, TypeOK
  <2>3. CASE Close
    BY <2>2, <2>3 DEF Close
  <2>4. ASSUME NEW n \in 1 .. Len(feed), Send(n)
        PROVE  /\ UNCHANGED <<ringvars, feed, pc, fstate, ifdtyp, nline, nchar,
                              bulls, iret>>
               /\ sent' = sent + n /\ sent + n =< Len(feed) /\ closed' = closed
    BY <2>4 DEF Send
  <2>5. closed \in BOOLEAN
    BY DEF Inv, TypeOK
  <2>6. CASE \E n \in 1 .. Len(feed) : Send(n)
    <3>1. PICK n \in 1 .. Len(feed) : Send(n)
      BY <2>6
    <3>2. n \in Nat
      BY <2>1
    <3> QED BY <2>2, <2>4, <2>5, <3>1, <3>2
  <2> QED BY <2>3, <2>6 DEF Feed
<1>1. RingInv' /\ RingType' /\ Consecutive' /\ AllGivenUp' /\ Scanned' = Scanned
  BY <1>0, Aside
<1>2. Len(feed) \in Nat /\ fed \in Nat /\ sent \in Nat /\ fed =< sent
  BY DCBulletinAssumption DEF Inv, TypeOK, RingType
<1>3. TypeOK'
  BY <1>0, <1>1, <1>2 DEF Inv, TypeOK, ringvars
<1> QED BY <1>0, <1>1, <1>3 DEF Inv, ringvars

\* Between reads and scans.
LEMMA AsideInv ==
  ASSUME Inv, Call \/ Timeout \/ ReadFails \/ Overflow \/ EndOfData
  PROVE  Inv'
<1>0. /\ UNCHANGED <<ringvars, feed, sent, closed, fstate, ifdtyp, bulls>>
      /\ pc' \in {"out", "put", "scan", "stop"}
      /\ nline' \in 0 .. HeadLines + 1 /\ nchar' \in BOOLEAN
      /\ iret' \in {"0"} \cup Error
  BY DCBulletinAssumption
     DEF Call, Timeout, ReadFails, Overflow, EndOfData, Return, Top, Inv, TypeOK,
         input, Error
<1>1. RingInv' /\ RingType' /\ Consecutive' /\ AllGivenUp' /\ Scanned' = Scanned
  BY <1>0, Aside
<1>2. TypeOK'
  BY <1>0, <1>1 DEF Inv, TypeOK, ringvars
<1> QED BY <1>0, <1>1, <1>2 DEF Inv

\* A read gets no more than it asks for and no more than there is.
LEMMA ReadBound ==
  ASSUME Inv, NEW n \in Nat
  PROVE  Read(n) \in Nat /\ Read(n) =< n /\ fed + Read(n) =< sent
<1>1. sent \in Nat /\ fed \in Nat /\ fed =< sent
  BY DCBulletinAssumption DEF Inv, TypeOK, RingType
<1> QED BY <1>1 DEF Read

LEMMA FillInv ==
  ASSUME Inv, NEW n \in Nat, n =< TryRead, fed + n =< sent, Fill(n),
         UNCHANGED <<input, fstate, ifdtyp, nline, nchar, bulls>>,
         pc' \in {"more", "scan", "stop"}, pc' = "more" => ReadsAgain(n),
         iret' \in {"0"} \cup Error
  PROVE  Inv'
<1>1. /\ RingInv' /\ GivenUp' = GivenUp /\ Scanned' = Scanned
      /\ ReadsAgain(n) => nxtfeed' = 0 /\ bhead' > 0
  BY FillKeeps DEF Inv
<1>2. fed' = fed + n
  BY DEF Fill
<1>3. TypeOK'
  BY <1>1, <1>2 DEF Inv, TypeOK, RingInv, input
<1>4. Consecutive' /\ AllGivenUp'
  BY <1>1 DEF Inv, Consecutive, AllGivenUp
<1> QED BY <1>1, <1>3, <1>4 DEF Inv

LEMMA TryReadNat == Inv => TryRead \in Nat
BY DCBufferAssumption DEF Inv, RingInv, RingType, Place, TryRead

LEMMA PutInv == Inv /\ Put => Inv'
<1> SUFFICES ASSUME Inv, Put PROVE Inv'
  OBVIOUS
<1> DEFINE n == Read(TryRead)
<1>1. n \in Nat /\ n =< TryRead /\ fed + n =< sent
  BY ReadBound, TryReadNat
<1>2. Fill(n) /\ UNCHANGED <<input, fstate, ifdtyp, nline, nchar, bulls>>
  BY DEF Put
<1>3. \/ pc' = "stop" /\ iret' = "EBEND"
      \/ pc' = (IF ReadsAgain(n) THEN "more" ELSE "scan") /\ iret' = iret
  BY DEF Put, Return
<1>4. iret \in {"0"} \cup Error /\ "EBEND" \in Error
  BY DEF Inv, TypeOK, Error
<1> HIDE DEF n
<1>5. /\ pc' \in {"more", "scan", "stop"} /\ (pc' = "more" => ReadsAgain(n))
      /\ iret' \in {"0"} \cup Error
  BY <1>3, <1>4
<1> QED BY <1>1, <1>2, <1>5, FillInv

LEMMA PutMoreInv == Inv /\ PutMore => Inv'
<1> SUFFICES ASSUME Inv, PutMore PROVE Inv'
  OBVIOUS
<1> DEFINE n == Read(TryMore)
<1>1. TryMore \in Nat /\ TryMore = TryRead
  BY DCBufferAssumption
     DEF Inv, RingInv, RingType, Place, PutMore, TryMore, TryRead
<1>2. n \in Nat /\ n =< TryRead /\ fed + n =< sent
  BY <1>1, ReadBound
<1>3. Fill(n) /\ UNCHANGED <<input, fstate, ifdtyp, nline, nchar, bulls>>
      /\ pc' = "scan" /\ iret' = iret
  BY DEF PutMore
<1>4. iret \in {"0"} \cup Error
  BY DEF Inv, TypeOK
<1> HIDE DEF n
<1> QED BY <1>2, <1>3, <1>4, FillInv

-----------------------------------------------------------------------------
\* One byte goes at most one step further into a header.
LEMMA SeekDepth ==
  ASSUME Inv, SeekHeader
  PROVE  fstate' \in Outside /\ Depth(fstate') =< Depth(fstate) + 1
<1>1. fstate \in Outside
  BY DEF SeekHeader
<1>2. CASE <<fstate, Byte>> \in DOMAIN Onward
  <2>1. fstate' = Onward[<<fstate, Byte>>]
    BY <1>2 DEF SeekHeader
  <2>2. /\ fstate = "SOH_"    => fstate' = "SOH_CR_"
        /\ fstate = "SOH_CR_" => fstate' = "SOH_CR_CR_"
        /\ fstate = "Z_"      => fstate' = "Z_C_"
        /\ fstate = "Z_C_"    => fstate' = "Z_C_Z_"
    BY <1>2, <2>1 DEF Onward
  <2>3. fstate \in {"SOH_", "SOH_CR_", "Z_", "Z_C_"}
    BY <1>2 DEF Onward
  <2> QED BY <2>2, <2>3 DEF Outside, Depth
<1>3. CASE ~(<<fstate, Byte>> \in DOMAIN Onward)
  <2>1. fstate' = Restart
    BY <1>3 DEF SeekHeader
  <2>2. fstate' \in {"Z_", "SOH_", "NOT_IN_BULLETIN"}
    BY <2>1 DEF Restart
  <2> QED BY <1>1, <2>2 DEF Outside, Depth
<1> QED BY <1>2, <1>3

LEMMA SeekHeaderInv == Inv /\ SeekHeader => Inv'
<1> SUFFICES ASSUME Inv, SeekHeader PROVE Inv'
  OBVIOUS
<1>1. Scan /\ ~AllScanned /\ pc = "scan"
      /\ UNCHANGED <<input, pc, ifdtyp, nline, nchar, bulls, iret>>
  BY DEF SeekHeader, Scanning
<1>2. RingInv' /\ GivenUp' = GivenUp /\ Scanned' = Scanned + 1 /\ Scanned \in Nat
  BY <1>1, ScanKeeps, ScanStep DEF Inv
<1>3. fstate' \in Outside /\ Depth(fstate') =< Depth(fstate) + 1
  BY SeekDepth
<1>4. Depth(fstate) \in Nat /\ Depth(fstate') \in Nat
  BY DEF Depth
<1>5. Depth(fstate') =< Scanned'
  BY <1>2, <1>3, <1>4 DEF Inv
<1>6. fed' = fed
  BY <1>1 DEF Scan
<1>7. TypeOK'
  BY <1>1, <1>2, <1>3, <1>6 DEF Inv, TypeOK, RingInv, input
<1>8. Consecutive' /\ AllGivenUp'
  BY <1>1, <1>2 DEF Inv, Consecutive, AllGivenUp
<1> QED BY <1>1, <1>2, <1>5, <1>7, <1>8 DEF Inv

LEMMA FindHeaderInv == Inv /\ FindHeader => Inv'
<1> SUFFICES ASSUME Inv, FindHeader PROVE Inv'
  OBVIOUS
<1>1. ScanHead(3) /\ ~AllScanned /\ pc = "scan" /\ (WmoHead \/ AfosHead)
      /\ UNCHANGED <<input, pc, bulls, iret>>
  BY DEF FindHeader, Scanning
<1>2. 3 =< Scanned
  BY <1>1 DEF Inv, WmoHead, AfosHead, Depth
<1>3. RingInv' /\ Scanned' = 3 + 1 /\ GivenUp' >= GivenUp
  BY <1>1, <1>2, ScanHeadKeeps DEF Inv
<1>4. fstate' = "IN_BULLETIN" /\ ifdtyp' \in {0, 1}
      /\ nline' \in 0 .. HeadLines + 1 /\ nchar' \in BOOLEAN
  <2>1. fstate' = "IN_BULLETIN" /\ ifdtyp' \in {0, 1}
    BY DEF FindHeader
  <2>2. nline' \in 0 .. HeadLines + 1
    BY DCBulletinAssumption DEF FindHeader, Inv, TypeOK
  <2>3. nchar \in BOOLEAN
    BY Zenon DEF Inv, TypeOK
  <2>4. nchar' = FALSE \/ nchar' = nchar
    BY Zenon DEF FindHeader
  <2>5. nchar' \in BOOLEAN
    BY Zenon, <2>3, <2>4
  <2> QED BY <2>1, <2>2, <2>5
<1>5. fed' = fed
  BY <1>1 DEF ScanHead
<1>6. TypeOK'
  BY <1>1, <1>3, <1>4, <1>5 DEF Inv, TypeOK, RingInv, input, Inside
<1>7. GivenUp \in Int /\ GivenUp' \in Int
  <2>1. GivenUp \in Int
    BY <1>1, ScanStep DEF Inv
  <2>2. (GivenUp \in Int)'
    BY <1>3, SpanType DEF RingInv, RingType, GivenUp, Wanted
  <2> QED BY <2>1, <2>2
<1>8. ASSUME NEW k \in 1 .. Len(bulls) PROVE bulls[k][Len(bulls[k])] \in Int
  <2>1. bulls[k] \in Seq(1 .. Len(feed)) /\ bulls[k] # <<>>
    BY <1>8 DEF Inv, TypeOK, Consecutive
  <2> QED BY <2>1
<1>9. Consecutive' /\ AllGivenUp'
  BY <1>1, <1>3, <1>7, <1>8 DEF Inv, Consecutive, AllGivenUp
<1> QED BY <1>1, <1>3, <1>4, <1>6, <1>9 DEF Inv, Depth

LEMMA InBulletinInv == Inv /\ InBulletin => Inv'
<1> SUFFICES ASSUME Inv, InBulletin PROVE Inv'
  OBVIOUS
<1>1. Scan /\ ~AllScanned /\ pc = "scan"
      /\ UNCHANGED <<input, pc, ifdtyp, bulls, iret>>
  BY DEF InBulletin, Scanning
<1>2. RingInv' /\ GivenUp' = GivenUp /\ Scanned' = Scanned + 1 /\ Scanned \in Nat
  BY <1>1, ScanKeeps, ScanStep DEF Inv
<1>3. fstate' \in Inside
  <2>1. InState \in Inside
    BY DEF InState, Inside
  <2> QED BY <2>1 DEF InBulletin
<1>4. nline' \in 0 .. HeadLines + 1
  BY DCBulletinAssumption DEF InBulletin, Inv, TypeOK
<1>5. nchar' \in BOOLEAN
  BY DEF InBulletin, Inv, TypeOK
<1>6. fed' = fed
  BY <1>1 DEF Scan
<1>7. TypeOK'
  BY <1>1, <1>2, <1>3, <1>4, <1>5, <1>6 DEF Inv, TypeOK, RingInv, input
<1>8. Depth(fstate') = 0
  BY <1>3 DEF Inside, Depth
<1>9. Consecutive' /\ AllGivenUp'
  BY <1>1, <1>2 DEF Inv, Consecutive, AllGivenUp
<1> QED BY <1>1, <1>2, <1>7, <1>8, <1>9 DEF Inv

LEMMA DeliverInv == Inv /\ Deliver => Inv'
<1> SUFFICES ASSUME Inv, Deliver PROVE Inv'
  OBVIOUS
<1>1. ScanTail /\ ~AllScanned /\ pc = "scan" /\ fstate' = "START"
      /\ UNCHANGED <<input, ifdtyp, nline, nchar>>
  BY DEF Deliver, Scanning
<1>2. /\ RingInv' /\ Scanned' = 0 /\ GivenUp' = GivenUp + Scanned + 1
      /\ Scanned \in Nat /\ GivenUp \in Nat /\ Scanned < Wanted
  <2>1. GivenUp \in Int /\ GivenUp >= 0
    BY <1>1, ScanStep DEF Inv, RingInv
  <2> QED BY <1>1, <2>1, ScanTailKeeps, ScanStep DEF Inv
<1>3. /\ fed' = fed /\ Len(feed) \in Nat /\ fed \in Nat /\ fed =< Len(feed)
      /\ bulls \in Seq(Seq(1 .. Len(feed))) /\ Len(bulls) \in Nat
  BY <1>1, DCBulletinAssumption DEF ScanTail, Inv, TypeOK, RingType
<1>4. pc' \in {"out", "stop"} /\ iret' \in {"0"} \cup Error
  BY DEF Deliver, Return, Error
<1>5. ASSUME NEW k \in 1 .. Len(bulls)
      PROVE  bulls[k][Len(bulls[k])] \in Int /\ bulls[k][Len(bulls[k])] =< GivenUp
  <2>1. bulls[k] \in Seq(1 .. Len(feed)) /\ bulls[k] # <<>>
    BY <1>5 DEF Inv, TypeOK, Consecutive
  <2>2. bulls[k][Len(bulls[k])] \in Int
    BY <2>1
  <2> QED BY <2>2, <1>5 DEF Inv, AllGivenUp
<1>6. CASE TailAt = bhead
  <2>1. bulls' = bulls
    BY <1>6 DEF Deliver
  <2>2. TypeOK'
    BY <1>1, <1>2, <1>3, <1>4, <2>1 DEF Inv, TypeOK, RingInv, input, Outside
  <2>3. Consecutive' /\ AllGivenUp'
    BY <1>2, <1>5, <2>1 DEF Inv, Consecutive, AllGivenUp
  <2> QED BY <1>1, <1>2, <1>4, <2>2, <2>3 DEF Inv, Depth
<1>7. CASE TailAt # bhead
  <2> DEFINE m == Scanned + 1
             b == [k \in 1 .. m |-> GivenUp + k]
  <2>1. bulls' = Append(bulls, b)
    BY <1>1, <1>7, BulletinBytes DEF Deliver, Inv
  <2>2. m \in Nat /\ m >= 1 /\ GivenUp + m =< fed
    <3>1. GivenUp = fed - Wanted /\ Wanted \in Int
      BY SpanType DEF GivenUp, Wanted, Inv, RingInv, RingType
    <3> QED BY <1>2, <1>3, <3>1
  <2> HIDE DEF m
  <2>3. b \in [1 .. m -> 1 .. Len(feed)]
    BY <1>2, <1>3, <2>2
  <2>4. b \in Seq(1 .. Len(feed)) /\ Len(b) = m
    BY <2>2, <2>3, SeqDef
  <2>5. b # <<>> /\ b[1] = GivenUp + 1 /\ b[m] = GivenUp + m
        /\ \A i \in 1 .. m : b[i] = GivenUp + i
    BY <2>2, <2>4
  <2> HIDE DEF b
  <2>6. /\ bulls' \in Seq(Seq(1 .. Len(feed))) /\ Len(bulls') = Len(bulls) + 1
        /\ bulls'[Len(bulls) + 1] = b
        /\ \A k \in 1 .. Len(bulls) : bulls'[k] = bulls[k]
    BY <1>3, <2>1, <2>4
  <2>7. TypeOK'
    BY <1>1, <1>2, <1>3, <1>4, <2>6 DEF Inv, TypeOK, RingInv, input, Outside
  <2>8. GivenUp' = GivenUp + m
    BY <1>2 DEF m
  <2>9. ASSUME NEW k \in 1 .. Len(bulls')
        PROVE  /\ bulls'[k] # <<>>
               /\ \A i \in 1 .. Len(bulls'[k]) : bulls'[k][i] = bulls'[k][1] + i - 1
               /\ \A j \in 1 .. k - 1 : bulls'[j][Len(bulls'[j])] < bulls'[k][1]
               /\ bulls'[k][Len(bulls'[k])] =< GivenUp'
    <3>1. CASE k \in 1 .. Len(bulls)
      <4>1. bulls'[k] = bulls[k] /\ \A j \in 1 .. k - 1 : bulls'[j] = bulls[j]
        BY <1>3, <2>6, <3>1
      <4>2. /\ bulls[k] # <<>>
            /\ \A i \in 1 .. Len(bulls[k]) : bulls[k][i] = bulls[k][1] + i - 1
            /\ \A j \in 1 .. k - 1 : bulls[j][Len(bulls[j])] < bulls[k][1]
        BY <3>1 DEF Inv, Consecutive
      <4>3. bulls[k][Len(bulls[k])] =< GivenUp'
        BY <1>2, <1>5, <2>2, <2>8, <3>1
      <4> QED BY <4>1, <4>2, <4>3
    <3>2. CASE k = Len(bulls) + 1
      <4>1. bulls'[k] = b
        BY <2>6, <3>2
      <4>2. \A i \in 1 .. Len(b) : b[i] = b[1] + i - 1
        BY <1>2, <2>4, <2>5
      <4>3. ASSUME NEW j \in 1 .. k - 1 PROVE bulls'[j][Len(bulls'[j])] < b[1]
        <5>1. j \in 1 .. Len(bulls) /\ bulls'[j] = bulls[j]
          BY <1>3, <2>6, <3>2
        <5> QED BY <5>1, <1>2, <1>5, <2>5
      <4>4. b[Len(b)] =< GivenUp'
        BY <1>2, <2>2, <2>4, <2>5, <2>8
      <4> QED BY <2>5, <4>1, <4>2, <4>3, <4>4
    <3>3. k \in 1 .. Len(bulls) \/ k = Len(bulls) + 1
      BY <1>3, <2>6
    <3> QED BY <3>1, <3>2, <3>3
  <2>10. Consecutive' /\ AllGivenUp'
    BY <2>9 DEF Consecutive, AllGivenUp
  <2> QED BY <1>1, <1>2, <1>4, <2>7, <2>10 DEF Inv, Depth
<1> QED BY <1>6, <1>7

-----------------------------------------------------------------------------
LEMMA NextInv == Inv /\ [Next]_vars => Inv'
<1> SUFFICES ASSUME Inv, [Next]_vars PROVE Inv'
  OBVIOUS
<1>1. CASE Feed
  BY <1>1, FeedInv
<1>2. CASE Call \/ Timeout \/ ReadFails \/ Overflow \/ EndOfData
  BY <1>2, AsideInv
<1>3. CASE Put
  BY <1>3, PutInv
<1>4. CASE PutMore
  BY <1>4, PutMoreInv
<1>5. CASE SeekHeader
  BY <1>5, SeekHeaderInv
<1>6. CASE FindHeader
  BY <1>6, FindHeaderInv
<1>7. CASE InBulletin
  BY <1>7, InBulletinInv
<1>8. CASE Deliver
  BY <1>8, DeliverInv
<1>9. CASE UNCHANGED vars
  <2>1. RingInv' /\ RingType' /\ Consecutive' /\ AllGivenUp' /\ Scanned' = Scanned
    BY <1>9, Aside DEF vars
  <2>2. TypeOK'
    BY <1>9, <2>1 DEF Inv, TypeOK, vars, ringvars, input
  <2> QED BY <1>9, <2>1, <2>2 DEF Inv, vars, ringvars
<1> QED BY <1>1, <1>2, <1>3, <1>4, <1>5, <1>6, <1>7, <1>8, <1>9
       DEF Next, Decoder, Running

LEMMA SpecInv == Spec => []Inv
<1>1. Init => Inv
  BY InitInv
<1>2. Inv /\ [Next]_vars => Inv'
  BY NextInv
<1> QED BY <1>1, <1>2, PTL DEF Spec

\* Every pointer is a place of the buffer, and what is delivered was read.
THEOREM DecoderTypes == Spec => []TypeOK
<1>1. Inv => TypeOK
  BY DEF Inv
<1> QED BY <1>1, SpecInv, PTL

\* No read, one or two, with the head anywhere in a buffer of any size, writes
\* over a byte that dc_gbul still wants.
THEOREM NothingOverwritten == Spec => []RingIntact
<1>1. Inv => RingIntact
  BY DEF Inv, RingInv
<1> QED BY <1>1, SpecInv, PTL

\* Whatever is fed, every bulletin is one stretch of the input, after those
\* delivered before it.
THEOREM BulletinsConsecutive == Spec => []Consecutive
<1>1. Inv => Consecutive
  BY DEF Inv
<1> QED BY <1>1, SpecInv, PTL

-----------------------------------------------------------------------------
(***************************************************************************)
(* Whole bulletins.  First what a bulletin is, one byte after another: how *)
(* the lines with text in a stretch of bytes grow with the next byte.      *)
(***************************************************************************)
\* The bytes at i and after, said one by one.
LEMMA AtBytes ==
  ASSUME NEW s, NEW S, s \in Seq(S), NEW i \in Int, NEW pat, NEW T, pat \in Seq(T),
         Len(pat) >= 1
  PROVE  At(s, i, pat) <=> /\ i > 0 /\ i + Len(pat) - 1 =< Len(s)
                           /\ \A k \in 1 .. Len(pat) : s[i + k - 1] = pat[k]
<1> DEFINE n == Len(pat)
           j == i + n - 1
           sub == SubSeq(s, i, j)
<1>1. n \in Nat /\ j \in Int /\ i =< j /\ j - i + 1 = n /\ Len(s) \in Nat
  OBVIOUS
<1>2. ASSUME i > 0, j =< Len(s)
      PROVE  sub = pat <=> \A k \in 1 .. n : s[i + k - 1] = pat[k]
  <2>1. \A k \in i .. j : s[k] \in S
    BY <1>1, <1>2
  <2>2. /\ sub \in Seq(S) /\ Len(sub) = n
        /\ \A k \in 1 .. n : sub[k] = s[i + k - 1]
    BY <1>1, <2>1, SubSeqProperties
  <2> HIDE DEF sub, j, n
  <2>3. ASSUME \A k \in 1 .. n : s[i + k - 1] = pat[k] PROVE sub = pat
    <3>1. sub = [k \in 1 .. n |-> sub[k]] /\ pat = [k \in 1 .. n |-> pat[k]]
      BY <2>2 DEF n
    <3> QED BY <2>2, <2>3, <3>1
  <2> QED BY <2>2, <2>3
<1> QED BY <1>1, <1>2 DEF At

LEMMA AtThree ==
  ASSUME NEW s, NEW S, s \in Seq(S), NEW i \in Int, NEW a, NEW b, NEW c
  PROVE  At(s, i, <<a, b, c>>) <=>
            /\ i > 0 /\ i + 2 =< Len(s)
            /\ s[i] = a /\ s[i + 1] = b /\ s[i + 2] = c
<1> DEFINE pat == <<a, b, c>>
           T == {a, b, c}
<1>1. /\ pat \in Seq(T) /\ Len(pat) = 3 /\ Len(pat) >= 1
      /\ pat[1] = a /\ pat[2] = b /\ pat[3] = c
  OBVIOUS
<1> HIDE DEF pat, T
<1>2. At(s, i, pat) <=> /\ i > 0 /\ i + Len(pat) - 1 =< Len(s)
                        /\ \A k \in 1 .. Len(pat) : s[i + k - 1] = pat[k]
  <2>1. Len(pat) >= 1 /\ pat \in Seq(T)
    BY <1>1
  <2> QED BY <2>1, AtBytes
<1>3. (\A k \in 1 .. 3 : s[i + k - 1] = pat[k]) <=>
         /\ s[i + 1 - 1] = pat[1]
         /\ s[i + 2 - 1] = pat[2]
         /\ s[i + 3 - 1] = pat[3]
  OBVIOUS
<1>4. i + 1 - 1 = i /\ i + 2 - 1 = i + 1 /\ i + 3 - 1 = i + 2
  OBVIOUS
<1> QED BY <1>1, <1>2, <1>3, <1>4 DEF pat

LEMMA AtFour ==
  ASSUME NEW s, NEW S, s \in Seq(S), NEW i \in Int, NEW a, NEW b, NEW c, NEW d
  PROVE  At(s, i, <<a, b, c, d>>) <=>
            /\ i > 0 /\ i + 3 =< Len(s)
            /\ s[i] = a /\ s[i + 1] = b /\ s[i + 2] = c /\ s[i + 3] = d
<1> DEFINE pat == <<a, b, c, d>>
           T == {a, b, c, d}
<1>1. /\ pat \in Seq(T) /\ Len(pat) = 4 /\ Len(pat) >= 1
      /\ pat[1] = a /\ pat[2] = b /\ pat[3] = c /\ pat[4] = d
  OBVIOUS
<1> HIDE DEF pat, T
<1>2. At(s, i, pat) <=> /\ i > 0 /\ i + Len(pat) - 1 =< Len(s)
                        /\ \A k \in 1 .. Len(pat) : s[i + k - 1] = pat[k]
  <2>1. Len(pat) >= 1 /\ pat \in Seq(T)
    BY <1>1
  <2> QED BY <2>1, AtBytes
<1>3. (\A k \in 1 .. 4 : s[i + k - 1] = pat[k]) <=>
         /\ s[i + 1 - 1] = pat[1]
         /\ s[i + 2 - 1] = pat[2]
         /\ s[i + 3 - 1] = pat[3]
         /\ s[i + 4 - 1] = pat[4]
  OBVIOUS
<1>4. i + 1 - 1 = i /\ i + 2 - 1 = i + 1 /\ i + 3 - 1 = i + 2 /\ i + 4 - 1 = i + 3
  OBVIOUS
<1> QED BY <1>1, <1>2, <1>3, <1>4 DEF pat

\* In the bulletin that begins at h, a line ends with the byte at q.
LineAt(s, h, q) == q - 2 >= h + 4 /\ At(s, q - 2, LineEnd)

\* There is text after the last of the lines that end at or before q.
Text(s, h, q) ==
    \E k \in h + 4 .. q :
        /\ s[k] # Cr
        /\ \A i \in h + 4 .. q - 2 : At(s, i, LineEnd) => k > i + 2

\* A line end is three bytes, and two of them have no byte in common.
LEMMA LineBytes ==
  ASSUME NEW s, NEW S, s \in Seq(S), NEW i \in Int
  PROVE  /\ At(s, i, LineEnd) <=>
               /\ i > 0 /\ i + 2 =< Len(s)
               /\ s[i] = Cr /\ s[i + 1] = Cr /\ s[i + 2] = Lf
         /\ \A j \in Int : At(s, i, LineEnd) /\ At(s, j, LineEnd) /\ i < j => i + 2 < j
<1>1. ASSUME NEW k \in Int
      PROVE  At(s, k, LineEnd) <=> /\ k > 0 /\ k + 2 =< Len(s)
                                   /\ s[k] = Cr /\ s[k + 1] = Cr /\ s[k + 2] = Lf
  BY AtThree DEF LineEnd
<1>2. ASSUME NEW j \in Int, At(s, i, LineEnd), At(s, j, LineEnd), i < j PROVE i + 2 < j
  <2>1. s[i + 2] # Cr /\ s[j] = Cr /\ s[j + 1] = Cr
    BY <1>1, <1>2, DCBulletinAssumption
  <2>2. j # i + 2 /\ j + 1 # i + 2
    BY <2>1
  <2> QED BY <1>2, <2>2
<1> QED BY <1>1, <1>2

\* How text after a line end comes and goes with the next byte.
LEMMA TextStep ==
  ASSUME NEW s, NEW S, s \in Seq(S), NEW h \in Nat \ {0}, NEW q \in Nat, q >= h + 3
  PROVE  Text(s, h, q + 1) <=>
            IF LineAt(s, h, q + 1) THEN FALSE
            ELSE s[q + 1] # Cr \/ Text(s, h, q)
<1>1. CASE LineAt(s, h, q + 1)
  <2>1. q - 1 \in h + 4 .. q + 1 - 2 /\ At(s, q - 1, LineEnd)
    BY <1>1 DEF LineAt
  <2>2. ASSUME NEW k \in h + 4 .. q + 1,
               \A i \in h + 4 .. q + 1 - 2 : At(s, i, LineEnd) => k > i + 2
        PROVE  FALSE
    <3>1. k > q - 1 + 2
      BY <2>1, <2>2
    <3> QED BY <3>1
  <2> QED BY <1>1, <2>2 DEF Text
<1>2. CASE ~LineAt(s, h, q + 1)
  <2>1. \A i \in h + 4 .. q + 1 - 2 : At(s, i, LineEnd) => i \in h + 4 .. q - 2
    BY <1>2 DEF LineAt
  <2>2. ASSUME s[q + 1] # Cr PROVE Text(s, h, q + 1)
    <3>1. q + 1 \in h + 4 .. q + 1
      OBVIOUS
    <3>2. \A i \in h + 4 .. q + 1 - 2 : At(s, i, LineEnd) => q + 1 > i + 2
      BY <2>1
    <3> QED BY <2>2, <3>1, <3>2 DEF Text
  <2>3. ASSUME Text(s, h, q) PROVE Text(s, h, q + 1)
    <3>1. PICK k \in h + 4 .. q :
             /\ s[k] # Cr
             /\ \A i \in h + 4 .. q - 2 : At(s, i, LineEnd) => k > i + 2
      BY <2>3 DEF Text
    <3>2. k \in h + 4 .. q + 1
      OBVIOUS
    <3> QED BY <2>1, <3>1, <3>2 DEF Text
  <2>4. ASSUME Text(s, h, q + 1), s[q + 1] = Cr PROVE Text(s, h, q)
    <3>1. PICK k \in h + 4 .. q + 1 :
             /\ s[k] # Cr
             /\ \A i \in h + 4 .. q + 1 - 2 : At(s, i, LineEnd) => k > i + 2
      BY <2>4 DEF Text
    <3>2. k \in h + 4 .. q
      BY <2>4, <3>1
    <3>3. \A i \in h + 4 .. q - 2 : i \in h + 4 .. q + 1 - 2
      OBVIOUS
    <3> QED BY <3>1, <3>2, <3>3 DEF Text
  <2> QED BY <1>2, <2>2, <2>3, <2>4
<1> QED BY <1>1, <1>2

\* The lines with text are finitely many.
LEMMA LinesFinite ==
  ASSUME NEW s, NEW h \in Nat, NEW e \in Nat
  PROVE  IsFiniteSet(TextLines(s, h, e)) /\ Cardinality(TextLines(s, h, e)) \in Nat
<1>1. IsFiniteSet(h + 4 .. e - 3)
  BY FS_Interval
<1>2. TextLines(s, h, e) \subseteq h + 4 .. e - 3
  BY DEF TextLines
<1> QED BY <1>1, <1>2, FS_Subset, FS_CardinalityType

\* A line end after some text makes a line with text more.
LEMMA LinesStep ==
  ASSUME NEW s, NEW S, s \in Seq(S), NEW h \in Nat \ {0}, NEW q \in Nat, q >= h + 3
  PROVE  Cardinality(TextLines(s, h, q + 2)) =
            IF LineAt(s, h, q + 1) /\ Text(s, h, q)
            THEN Cardinality(TextLines(s, h, q + 1)) + 1
            ELSE Cardinality(TextLines(s, h, q + 1))
<1> DEFINE Has(j) == \E k \in h + 4 .. j - 1 :
                        /\ s[k] # Cr
                        /\ \A i \in h + 4 .. j - 1 : At(s, i, LineEnd) => k > i + 2
           old == TextLines(s, h, q + 1)
           new == TextLines(s, h, q + 2)
<1>1. old = {j \in h + 4 .. q + 1 - 3 : At(s, j, LineEnd) /\ Has(j)}
  BY DEF TextLines
<1>2. new = {j \in h + 4 .. q + 2 - 3 : At(s, j, LineEnd) /\ Has(j)}
  BY DEF TextLines
<1>3. IsFiniteSet(old) /\ Cardinality(old) \in Nat
  <2>1. q + 1 \in Nat /\ h \in Nat
    OBVIOUS
  <2> QED BY <2>1, LinesFinite
<1>4. ASSUME LineAt(s, h, q + 1) PROVE Has(q - 1) <=> Text(s, h, q)
  <2>1. At(s, q - 1, LineEnd) /\ q - 1 >= h + 4
    BY <1>4 DEF LineAt
  <2>2. s[q - 1] = Cr /\ s[q] = Cr
    <3>1. q - 1 + 1 = q
      OBVIOUS
    <3> QED BY <2>1, <3>1, LineBytes
  <2>3. \A i \in h + 4 .. q - 2 : At(s, i, LineEnd) => i + 2 < q - 1
    BY <2>1, LineBytes
  <2>4. ASSUME Has(q - 1) PROVE Text(s, h, q)
    <3>1. PICK k \in h + 4 .. q - 1 - 1 :
             /\ s[k] # Cr
             /\ \A i \in h + 4 .. q - 1 - 1 : At(s, i, LineEnd) => k > i + 2
      BY <2>4
    <3>2. k \in h + 4 .. q /\ \A i \in h + 4 .. q - 2 : i \in h + 4 .. q - 1 - 1
      OBVIOUS
    <3> QED BY <3>1, <3>2 DEF Text
  <2>5. ASSUME Text(s, h, q) PROVE Has(q - 1)
    <3>1. PICK k \in h + 4 .. q :
             /\ s[k] # Cr
             /\ \A i \in h + 4 .. q - 2 : At(s, i, LineEnd) => k > i + 2
      BY <2>5 DEF Text
    <3>2. k # q - 1 /\ k # q
      BY <2>2, <3>1
    <3>3. k \in h + 4 .. q - 1 - 1
      BY <3>2
    <3>4. \A i \in h + 4 .. q - 1 - 1 : i \in h + 4 .. q - 2
      OBVIOUS
    <3> QED BY <3>1, <3>3, <3>4
  <2> QED BY <2>4, <2>5
<1> HIDE DEF Has, old, new
<1>5. CASE LineAt(s, h, q + 1) /\ Text(s, h, q)
  <2>1. q - 1 \in new /\ q - 1 \notin old
    BY <1>1, <1>2, <1>4, <1>5 DEF LineAt
  <2>2. new = old \cup {q - 1}
    BY <1>1, <1>2, <2>1
  <2> QED BY <1>3, <1>5, <2>1, <2>2, FS_AddElement DEF old, new
<1>6. CASE ~(LineAt(s, h, q + 1) /\ Text(s, h, q))
  <2>1. q - 1 \notin new
    <3>1. ASSUME q - 1 \in new PROVE FALSE
      <4>1. At(s, q - 1, LineEnd) /\ Has(q - 1) /\ q - 1 >= h + 4
        BY <1>2, <3>1
      <4>2. LineAt(s, h, q + 1)
        BY <4>1 DEF LineAt
      <4> QED BY <1>4, <1>6, <4>1, <4>2
    <3> QED BY <3>1
  <2>2. new = old
    BY <1>1, <1>2, <2>1
  <2> QED BY <1>6, <2>2 DEF old, new
<1> QED BY <1>5, <1>6

-----------------------------------------------------------------------------
(***************************************************************************)
(* What the state of the search says of the bytes before, for the byte at  *)
(* q the last one scanned.                                                 *)
(***************************************************************************)
\* The beginning of a header has been seen.
SeenHead(s, st, q) ==
    /\ st = "SOH_"       => s[q] = Soh
    /\ st = "SOH_CR_"    => s[q - 1] = Soh /\ s[q] = Cr
    /\ st = "SOH_CR_CR_" => s[q - 2] = Soh /\ s[q - 1] = Cr /\ s[q] = Cr
    /\ st = "Z_"         => s[q] = Z
    /\ st = "Z_C_"       => s[q - 1] = Z /\ s[q] = C
    /\ st = "Z_C_Z_"     => s[q - 2] = Z /\ s[q - 1] = C /\ s[q] = Z

\* In a bulletin that began at h, the beginning of an end has been seen.
SeenTail(s, st, typ, h, q) ==
    /\ st \in {"CR_", "CR_CR_"} => q >= h + 4 /\ s[q] = Cr
    /\ st = "CR_CR_"    => q >= h + 5 /\ s[q - 1] = Cr
    /\ st = "CR_CR_NL_" => LineAt(s, h, q)
    /\ st \in {"N_", "N_N_", "N_N_N_"} => typ = 1 /\ q >= h + 4 /\ s[q] = N
    /\ st \in {"N_N_", "N_N_N_"} => q >= h + 5 /\ s[q - 1] = N
    /\ st = "N_N_N_"    => q >= h + 6 /\ s[q - 2] = N

(***************************************************************************)
(* In a WMO bulletin the states say all there is to say: whether a line    *)
(* ends here, and how many lines with text there are, up to what is        *)
(* counted.  The end has not come yet.                                     *)
(***************************************************************************)
Counted(s, st, n, h, q) ==
    /\ q >= h + 4 /\ s[q] = Cr => st \in {"CR_", "CR_CR_"}
    /\ q >= h + 5 /\ s[q - 1] = Cr /\ s[q] = Cr => st = "CR_CR_"
    /\ LineAt(s, h, q) => st = "CR_CR_NL_"
    /\ n = IF Cardinality(TextLines(s, h, q + 1)) < HeadLines
           THEN Cardinality(TextLines(s, h, q + 1)) + 1 ELSE HeadLines + 1
    /\ \A i \in h + 4 .. q : ~EndsAt(s, h, i)

\* How many bytes of the input have been scanned.
Seen == GivenUp + Scanned

ScanOK ==
    /\ pc = "out" => fstate = "START"
    /\ SeenHead(feed, fstate, Seen)
    /\ fstate \in Inside =>
          /\ Scanned >= 4
          /\ SeenTail(feed, fstate, ifdtyp, GivenUp + 1, Seen)
          /\ ifdtyp = 0 => /\ IsWmo(feed, GivenUp + 1)
                           /\ Counted(feed, fstate, nline, GivenUp + 1, Seen)
                           /\ nchar <=> Text(feed, GivenUp + 1, Seen)
          /\ ifdtyp = 1 => IsAfos(feed, GivenUp + 1)

Whole == \A k \in 1 .. Len(bulls) :
            IsBulletin(feed, bulls[k][1], bulls[k][Len(bulls[k])])

WholeInv == Inv /\ ScanOK /\ Whole

-----------------------------------------------------------------------------
\* The feed is a sequence.
LEMMA FeedIsSeq ==
  ASSUME TypeOK
  PROVE  feed \in Seq({feed[i] : i \in DOMAIN feed}) /\ Len(feed) \in Nat
BY DCBulletinAssumption DEF TypeOK

\* What is scanned next is the next byte of the input.
LEMMA ByteIs ==
  ASSUME Inv, Scanning
  PROVE  /\ Byte = feed[Seen + 1] /\ Seen + 1 =< Len(feed)
         /\ GivenUp \in Nat /\ Scanned \in Nat /\ Seen \in Nat
<1>1. RingInv /\ ~AllScanned /\ TypeOK
  BY DEF Inv, Scanning
<1>2. /\ Scanned \in Nat /\ GivenUp \in Int /\ Scanned < Wanted /\ GivenUp >= 0
      /\ nxtpeek \in Place
  BY <1>1, ScanStep DEF RingInv, RingType
<1>3. Wanted \in Int /\ fed \in Nat /\ GivenUp = fed - Wanted
  BY <1>1, SpanType DEF RingInv, RingType, Wanted, GivenUp
<1>4. ring[nxtpeek] = fed - Wanted + Scanned + 1
  BY <1>1, <1>2 DEF RingInv, RingIntact, Wanted, Scanned
<1>5. ring[nxtpeek] = Seen + 1 /\ Seen \in Nat /\ Seen + 1 =< fed
  BY <1>2, <1>3, <1>4 DEF Seen
<1>6. fed =< Len(feed)
  <2>1. Len(feed) \in Nat
    BY <1>1, FeedIsSeq
  <2> QED BY <1>1, <1>3, <2>1 DEF TypeOK
<1>7. Len(feed) \in Nat
  BY <1>1, FeedIsSeq
<1> QED BY <1>2, <1>3, <1>5, <1>6, <1>7 DEF Byte

\* One byte more of a header, or not.
LEMMA HeadStep ==
  ASSUME NEW s, NEW st, NEW q \in Nat, SeenHead(s, st, q), NEW st2,
         st2 = "SOH_"       => s[q + 1] = Soh,
         st2 = "SOH_CR_"    => st = "SOH_" /\ s[q + 1] = Cr,
         st2 = "SOH_CR_CR_" => st = "SOH_CR_" /\ s[q + 1] = Cr,
         st2 = "Z_"         => s[q + 1] = Z,
         st2 = "Z_C_"       => st = "Z_" /\ s[q + 1] = C,
         st2 = "Z_C_Z_"     => st = "Z_C_" /\ s[q + 1] = Z
  PROVE  SeenHead(s, st2, q + 1)
<1>1. q + 1 - 1 = q /\ q + 1 - 2 = q - 1
  OBVIOUS
<1> QED BY <1>1 DEF SeenHead

\* One byte more of an end, or not.
LEMMA TailStep ==
  ASSUME NEW s, NEW S, s \in Seq(S), NEW h \in Nat \ {0}, NEW q \in Nat,
         q >= h + 3, q + 1 =< Len(s),
         NEW st, NEW typ, SeenTail(s, st, typ, h, q), NEW st2,
         st2 = "CR_"       => s[q + 1] = Cr,
         st2 = "CR_CR_"    => st \in {"CR_", "CR_CR_"} /\ s[q + 1] = Cr,
         st2 = "CR_CR_NL_" => st = "CR_CR_" /\ s[q + 1] = Lf,
         st2 = "N_"        => typ = 1 /\ s[q + 1] = N,
         st2 = "N_N_"      => st = "N_" /\ s[q + 1] = N,
         st2 = "N_N_N_"    => st = "N_N_" /\ s[q + 1] = N
  PROVE  SeenTail(s, st2, typ, h, q + 1)
<1>1. q + 1 - 1 = q /\ q + 1 - 2 = q - 1 /\ q - 1 + 1 = q /\ q - 1 + 2 = q + 1
      /\ q - 1 \in Int
  OBVIOUS
<1>2. ASSUME st2 = "CR_CR_NL_" PROVE LineAt(s, h, q + 1)
  <2>1. q >= h + 5 /\ s[q - 1] = Cr /\ s[q] = Cr /\ s[q + 1] = Lf
    BY <1>2 DEF SeenTail
  <2>2. At(s, q - 1, LineEnd)
    BY <1>1, <2>1, LineBytes
  <2> QED BY <1>1, <2>1, <2>2 DEF LineAt
<1> QED BY <1>1, <1>2 DEF SeenTail

\* No line of text ends before there are four bytes after the header.
LEMMA NoLines ==
  ASSUME NEW s, NEW h \in Nat, NEW e \in Nat, e < h + 7
  PROVE  Cardinality(TextLines(s, h, e)) = 0
<1>1. TextLines(s, h, e) = {}
  BY DEF TextLines
<1> QED BY <1>1, FS_EmptySet

(***************************************************************************)
(* One byte more of a WMO bulletin that does not end there.                *)
(***************************************************************************)
LEMMA CountStep ==
  ASSUME NEW s, NEW S, s \in Seq(S), NEW h \in Nat \ {0}, NEW q \in Nat,
         q >= h + 3, q + 1 =< Len(s), IsWmo(s, h),
         NEW st, SeenTail(s, st, 0, h, q),
         NEW n, Counted(s, st, n, h, q),
         NEW st2, SeenTail(s, st2, 0, h, q + 1),
         s[q + 1] = Cr => st2 \in {"CR_", "CR_CR_"},
         s[q + 1] = Cr /\ st \in {"CR_", "CR_CR_"} => st2 = "CR_CR_",
         s[q + 1] = Lf /\ st = "CR_CR_" => st2 = "CR_CR_NL_",
         st2 \in {"IN_BULLETIN", "CR_", "CR_CR_", "CR_CR_NL_"},
         NEW n2, n2 = (IF st2 = "CR_CR_NL_" /\ Text(s, h, q) /\ n =< HeadLines
                           THEN n + 1 ELSE n),
         ~(st = "CR_CR_NL_" /\ s[q + 1] = Etx /\ n > HeadLines)
  PROVE  /\ Counted(s, st2, n2, h, q + 1)
         /\ st2 = "CR_CR_NL_" => ~Text(s, h, q + 1)
         /\ st2 = "IN_BULLETIN" => Text(s, h, q + 1)
         /\ st2 \in {"CR_", "CR_CR_"} => (Text(s, h, q + 1) <=> Text(s, h, q))
<1> DEFINE c == Cardinality(TextLines(s, h, q + 1))
           c2 == Cardinality(TextLines(s, h, q + 2))
<1>1. q + 1 - 1 = q /\ q + 1 - 2 = q - 1 /\ q - 1 + 1 = q /\ q - 1 + 2 = q + 1
      /\ q - 1 \in Int /\ HeadLines \in Nat \ {0} /\ Cr # Lf
  BY DCBulletinAssumption
<1>2. c \in Nat /\ c2 \in Nat
  <2>1. q + 1 \in Nat /\ q + 2 \in Nat /\ h \in Nat
    OBVIOUS
  <2> QED BY <2>1, LinesFinite
<1>3. LineAt(s, h, q + 1) <=> st2 = "CR_CR_NL_"
  <2>1. ASSUME LineAt(s, h, q + 1) PROVE st2 = "CR_CR_NL_"
    <3>1. q - 1 >= h + 4 /\ s[q - 1] = Cr /\ s[q] = Cr /\ s[q + 1] = Lf
      BY <1>1, <2>1, LineBytes DEF LineAt
    <3>2. st = "CR_CR_"
      BY <3>1 DEF Counted
    <3> QED BY <3>1, <3>2
  <2>2. ASSUME st2 = "CR_CR_NL_" PROVE LineAt(s, h, q + 1)
    BY <2>2 DEF SeenTail
  <2> QED BY <2>1, <2>2
<1>4. s[q + 1] = Cr <=> st2 \in {"CR_", "CR_CR_"}
  BY DEF SeenTail
<1>5. /\ st2 = "CR_CR_NL_" => ~Text(s, h, q + 1)
      /\ st2 = "IN_BULLETIN" => Text(s, h, q + 1)
      /\ st2 \in {"CR_", "CR_CR_"} => (Text(s, h, q + 1) <=> Text(s, h, q))
  <2>1. Text(s, h, q + 1) <=> IF LineAt(s, h, q + 1) THEN FALSE
                              ELSE s[q + 1] # Cr \/ Text(s, h, q)
    BY TextStep
  <2> QED BY <1>3, <1>4, <2>1
<1>6. c2 = IF st2 = "CR_CR_NL_" /\ Text(s, h, q) THEN c + 1 ELSE c
  <2>1. c2 = IF LineAt(s, h, q + 1) /\ Text(s, h, q) THEN c + 1 ELSE c
    BY LinesStep
  <2> QED BY <1>3, <2>1
<1>7. n = IF c < HeadLines THEN c + 1 ELSE HeadLines + 1
  BY DEF Counted
<1>8. ~EndsAt(s, h, q + 1)
  <2>1. ASSUME EndsAt(s, h, q + 1) PROVE FALSE
    <3>1. s[q + 1] = Etx /\ At(s, q - 2, LineEnd) /\ c >= HeadLines
      <4>1. q + 1 - 3 = q - 2
        OBVIOUS
      <4> QED BY <2>1, <4>1 DEF EndsAt
    <3>2. q + 1 >= h + 7
      <4>1. CASE q + 1 < h + 7
        <5>1. c = 0
          BY <4>1, NoLines
        <5> QED BY <1>1, <3>1, <5>1
      <4> QED BY <4>1
    <3>3. st = "CR_CR_NL_"
      BY <3>1, <3>2 DEF LineAt, Counted
    <3>4. n > HeadLines
      BY <1>1, <1>2, <1>7, <3>1
    <3> QED BY <3>1, <3>3, <3>4
  <2> QED BY <2>1
<1>9. \A i \in h + 4 .. q + 1 : ~EndsAt(s, h, i)
  <2>1. \A i \in h + 4 .. q : ~EndsAt(s, h, i)
    BY DEF Counted
  <2>2. \A i \in h + 4 .. q + 1 : i \in h + 4 .. q \/ i = q + 1
    OBVIOUS
  <2> QED BY <1>8, <2>1, <2>2
<1>10. n2 = IF c2 < HeadLines THEN c2 + 1 ELSE HeadLines + 1
  <2> HIDE DEF c, c2
  <2> QED BY <1>1, <1>2, <1>6, <1>7
<1>11. q + 1 >= h + 5 /\ s[q] = Cr /\ s[q + 1] = Cr => st2 = "CR_CR_"
  BY DEF Counted
<1>12. q + 1 + 1 = q + 2
  OBVIOUS
<1>13. Counted(s, st2, n2, h, q + 1)
  BY <1>1, <1>3, <1>4, <1>9, <1>10, <1>11, <1>12 DEF Counted
<1> QED BY <1>5, <1>13

-----------------------------------------------------------------------------
(***************************************************************************)
(* The steps of the decoder and of the feed.                               *)
(***************************************************************************)
\* Steps that scan nothing and deliver nothing.
LEMMA ScanAside ==
  ASSUME ScanOK, Whole, UNCHANGED <<feed, fstate, ifdtyp, bulls>>,
         GivenUp' = GivenUp, Scanned' = Scanned,
         fstate \in Inside => UNCHANGED <<nline, nchar>>,
         pc' = "out" => fstate = "START"
  PROVE  ScanOK' /\ Whole'
<1>1. Seen' = Seen
  BY DEF Seen
<1>2. Whole'
  BY DEF Whole
<1>3. ScanOK'
  BY <1>1 DEF ScanOK
<1> QED BY <1>2, <1>3

\* The feed goes on, reads are made, the loop goes round.
LEMMA AsideWhole ==
  ASSUME WholeInv, Inv',
         Feed \/ Call \/ Timeout \/ ReadFails \/ Overflow \/ EndOfData \/ UNCHANGED vars
  PROVE  ScanOK' /\ Whole'
<1>1. UNCHANGED <<ringvars, feed, fstate, ifdtyp, bulls>>
  BY DEF Feed, Close, Send, Call, Timeout, ReadFails, Overflow, EndOfData, input, vars
<1>2. GivenUp' = GivenUp /\ Scanned' = Scanned
  BY <1>1 DEF ringvars, GivenUp, Wanted, Scanned
<1>3. fstate \in Inside => UNCHANGED <<nline, nchar>>
  <2>1. CASE Call
    BY <2>1 DEF Call, WholeInv, ScanOK, Inside
  <2>2. CASE ~Call
    BY <2>2 DEF Feed, Close, Send, Timeout, ReadFails, Overflow, EndOfData, vars
  <2> QED BY <2>1, <2>2
<1>4. pc' = "out" => fstate = "START"
  <2>1. CASE Feed \/ UNCHANGED vars
    BY <2>1 DEF Feed, Close, Send, vars, WholeInv, ScanOK
  <2>2. CASE Call \/ Timeout \/ ReadFails \/ Overflow \/ EndOfData
    BY <2>2 DEF Call, Timeout, ReadFails, Overflow, EndOfData, Return, Top
  <2> QED BY <2>1, <2>2
<1> QED BY <1>1, <1>2, <1>3, <1>4, ScanAside DEF WholeInv

\* Reads keep what has been scanned and given up.
LEMMA ReadKeeps ==
  ASSUME Inv, Put \/ PutMore
  PROVE  GivenUp' = GivenUp /\ Scanned' = Scanned
<1>1. CASE Put
  <2> DEFINE n == Read(TryRead)
  <2>1. n \in Nat /\ n =< TryRead /\ Fill(n)
    BY <1>1, ReadBound, TryReadNat DEF Put
  <2> HIDE DEF n
  <2> QED BY <2>1, FillKeeps DEF Inv
<1>2. CASE PutMore
  <2> DEFINE n == Read(TryMore)
  <2>1. TryMore \in Nat /\ TryMore = TryRead
    BY <1>2, DCBufferAssumption
       DEF Inv, RingInv, RingType, Place, PutMore, TryMore, TryRead
  <2>2. n \in Nat /\ n =< TryRead /\ Fill(n)
    BY <1>2, <2>1, ReadBound DEF PutMore
  <2> HIDE DEF n
  <2> QED BY <2>2, FillKeeps DEF Inv
<1> QED BY <1>1, <1>2

LEMMA ReadWhole ==
  ASSUME WholeInv, Put \/ PutMore
  PROVE  ScanOK' /\ Whole'
<1>1. UNCHANGED <<feed, fstate, ifdtyp, nline, nchar, bulls>> /\ pc' # "out"
  BY DEF Put, PutMore, input, Return
<1>2. GivenUp' = GivenUp /\ Scanned' = Scanned
  BY ReadKeeps DEF WholeInv
<1> QED BY <1>1, <1>2, ScanAside DEF WholeInv

\* In search of a header.
LEMMA SeekWhole ==
  ASSUME WholeInv, SeekHeader
  PROVE  ScanOK' /\ Whole'
<1>1. Inv /\ Scanning /\ Scan /\ ~AllScanned /\ fstate \in Outside
      /\ UNCHANGED <<feed, pc, ifdtyp, nline, nchar, bulls>> /\ pc = "scan"
  BY DEF WholeInv, SeekHeader, Scanning, input
<1>2. Byte = feed[Seen + 1] /\ Seen \in Nat /\ GivenUp \in Nat /\ Scanned \in Nat
  BY <1>1, ByteIs
<1>3. GivenUp' = GivenUp /\ Scanned' = Scanned + 1
  BY <1>1, ScanKeeps DEF Inv
<1>4. Seen' = Seen + 1
  BY <1>2, <1>3 DEF Seen
<1>5. /\ fstate' = "SOH_"       => Byte = Soh
      /\ fstate' = "SOH_CR_"    => fstate = "SOH_" /\ Byte = Cr
      /\ fstate' = "SOH_CR_CR_" => fstate = "SOH_CR_" /\ Byte = Cr
      /\ fstate' = "Z_"         => Byte = Z
      /\ fstate' = "Z_C_"       => fstate = "Z_" /\ Byte = C
      /\ fstate' = "Z_C_Z_"     => fstate = "Z_C_" /\ Byte = Z
  <2>1. CASE <<fstate, Byte>> \in DOMAIN Onward
    <3>1. fstate' = Onward[<<fstate, Byte>>]
      BY <2>1 DEF SeekHeader
    <3>2. /\ fstate = "SOH_"    => Byte = Cr /\ fstate' = "SOH_CR_"
          /\ fstate = "SOH_CR_" => Byte = Cr /\ fstate' = "SOH_CR_CR_"
          /\ fstate = "Z_"      => Byte = C /\ fstate' = "Z_C_"
          /\ fstate = "Z_C_"    => Byte = Z /\ fstate' = "Z_C_Z_"
          /\ fstate \in {"SOH_", "SOH_CR_", "Z_", "Z_C_"}
      BY <2>1, <3>1 DEF Onward
    <3> QED BY <3>2
  <2>2. CASE ~(<<fstate, Byte>> \in DOMAIN Onward)
    <3>1. fstate' = Restart
      BY <2>2 DEF SeekHeader
    <3> QED BY <3>1 DEF Restart
  <2> QED BY <2>1, <2>2
<1>6. SeenHead(feed, fstate', Seen + 1)
  BY <1>2, <1>5, HeadStep DEF WholeInv, ScanOK
<1>7. fstate' \in Outside
  BY <1>1, SeekDepth
<1>8. fstate' \notin Inside
  BY <1>7 DEF Inside, Outside
<1>9. ScanOK'
  BY <1>1, <1>4, <1>6, <1>8 DEF ScanOK
<1>10. Whole'
  BY <1>1 DEF WholeInv, Whole
<1> QED BY <1>9, <1>10

\* A header is found: nothing of the bulletin has been scanned but that.
LEMMA FindWhole ==
  ASSUME WholeInv, FindHeader
  PROVE  ScanOK' /\ Whole'
<1> DEFINE h == Seen - 2
           q == Seen + 1
<1>1. Inv /\ Scanning /\ ScanHead(3) /\ ~AllScanned /\ (WmoHead \/ AfosHead)
      /\ fstate' = "IN_BULLETIN"
      /\ UNCHANGED <<feed, pc, bulls>> /\ pc = "scan"
  BY DEF WholeInv, FindHeader, Scanning, input
<1>2. /\ Byte = feed[Seen + 1] /\ Seen + 1 =< Len(feed)
      /\ Seen \in Nat /\ GivenUp \in Nat /\ Scanned \in Nat
  BY <1>1, ByteIs
<1>3. 3 =< Scanned
  BY <1>1 DEF Inv, WmoHead, AfosHead, Depth
<1>4. GivenUp' = GivenUp + Scanned - 3 /\ Scanned' = 3 + 1
  BY <1>1, <1>3, ScanHeadKeeps DEF Inv
<1>5. GivenUp' + 1 = h /\ Seen' = q /\ h \in Nat \ {0} /\ q = h + 3 /\ q =< Len(feed)
  BY <1>2, <1>3, <1>4 DEF Seen
<1>6. feed \in Seq({feed[i] : i \in DOMAIN feed}) /\ HeadLines \in Nat \ {0}
  BY <1>1, FeedIsSeq, DCBulletinAssumption DEF Inv
<1>7. SeenHead(feed, fstate, Seen)
  BY DEF WholeInv, ScanOK
<1>8. h + 1 = Seen - 1 /\ h + 2 = Seen /\ h + 3 = Seen + 1 /\ h \in Int /\ h > 0
  BY <1>2, <1>5
<1>9. WmoHead => IsWmo(feed, h)
  <2>1. ASSUME WmoHead
        PROVE  feed[h] = Soh /\ feed[h + 1] = Cr /\ feed[h + 2] = Cr /\ feed[h + 3] = Lf
    BY <1>2, <1>7, <1>8, <2>1 DEF WmoHead, SeenHead
  <2> HIDE DEF h, q
  <2> QED BY <1>5, <1>6, <1>8, <2>1, AtFour DEF IsWmo
<1>10. AfosHead => IsAfos(feed, h)
  <2>1. ASSUME AfosHead
        PROVE  feed[h] = Z /\ feed[h + 1] = C /\ feed[h + 2] = Z /\ feed[h + 3] = C
    BY <1>2, <1>7, <1>8, <2>1 DEF AfosHead, SeenHead
  <2> HIDE DEF h, q
  <2> QED BY <1>5, <1>6, <1>8, <2>1, AtFour DEF IsAfos
<1>11. SeenTail(feed, "IN_BULLETIN", ifdtyp', h, q)
  BY DEF SeenTail
<1>12. ASSUME WmoHead PROVE /\ Counted(feed, "IN_BULLETIN", 1, h, q)
                             /\ ~Text(feed, h, q)
  <2>1. Cardinality(TextLines(feed, h, q + 1)) = 0
    <3>1. h \in Nat /\ q + 1 \in Nat /\ q + 1 < h + 7
      BY <1>5
    <3> HIDE DEF h, q
    <3> QED BY <3>1, NoLines
  <2> HIDE DEF h, q
  <2>2. ~Text(feed, h, q) /\ ~LineAt(feed, h, q)
    BY <1>5 DEF Text, LineAt
  <2>3. \A i \in h + 4 .. q : ~EndsAt(feed, h, i)
    BY <1>5
  <2>4. ~(q >= h + 4) /\ ~(q >= h + 5)
    BY <1>5
  <2> QED BY <1>6, <2>1, <2>2, <2>3, <2>4 DEF Counted
<1>13. /\ WmoHead  => ifdtyp' = 0 /\ nline' = 1 /\ nchar' = FALSE
       /\ ~WmoHead => ifdtyp' = 1
  BY DEF FindHeader
<1>14. ScanOK'
  <2> HIDE DEF h, q
  <2>1. pc' # "out" /\ SeenHead(feed', fstate', Seen')
    BY <1>1 DEF SeenHead
  <2>2. Scanned' >= 4 /\ SeenTail(feed', fstate', ifdtyp', GivenUp' + 1, Seen')
    BY <1>1, <1>4, <1>5, <1>11
  <2>3. ifdtyp' = 0 => /\ IsWmo(feed', GivenUp' + 1)
                       /\ Counted(feed', fstate', nline', GivenUp' + 1, Seen')
                       /\ nchar' <=> Text(feed', GivenUp' + 1, Seen')
    <3>1. CASE WmoHead
      <4>1. IsWmo(feed', GivenUp' + 1)
        BY <1>1, <1>5, <1>9, <3>1
      <4>2. /\ Counted(feed', fstate', nline', GivenUp' + 1, Seen')
            /\ nchar' <=> Text(feed', GivenUp' + 1, Seen')
        BY <1>1, <1>5, <1>12, <1>13, <3>1
      <4> QED BY <4>1, <4>2
    <3>2. CASE ~WmoHead
      BY <1>13, <3>2
    <3> QED BY <3>1, <3>2
  <2>4. ifdtyp' = 1 => IsAfos(feed', GivenUp' + 1)
    BY <1>1, <1>5, <1>10, <1>13
  <2> QED BY <2>1, <2>2, <2>3, <2>4 DEF ScanOK
<1>15. Whole'
  BY <1>1 DEF WholeInv, Whole
<1> QED BY <1>14, <1>15

\* Where a byte inside a bulletin leads.
LEMMA InStates ==
  ASSUME fstate \in Inside
  PROVE  /\ InState \in Inside
         /\ InState = "CR_"       => Byte = Cr
         /\ InState = "CR_CR_"    => fstate \in {"CR_", "CR_CR_"} /\ Byte = Cr
         /\ InState = "CR_CR_NL_" => fstate = "CR_CR_" /\ Byte = Lf
         /\ InState = "N_"        => ifdtyp = 1 /\ Byte = N
         /\ InState = "N_N_"      => fstate = "N_" /\ Byte = N
         /\ InState = "N_N_N_"    => fstate = "N_N_" /\ Byte = N
         /\ fstate \notin {"N_", "N_N_", "N_N_N_"} /\ ifdtyp = 0 =>
               /\ InState \in {"IN_BULLETIN", "CR_", "CR_CR_", "CR_CR_NL_"}
               /\ Byte = Cr => InState \in {"CR_", "CR_CR_"}
               /\ Byte = Cr /\ fstate \in {"CR_", "CR_CR_"} => InState = "CR_CR_"
               /\ Byte = Lf /\ fstate = "CR_CR_" => InState = "CR_CR_NL_"
<1>1. Cr # Lf
  BY DCBulletinAssumption
<1>2. InState \in Inside
  BY DEF InState, Inside
<1> QED BY <1>1, <1>2 DEF InState, Inside

\* In a bulletin.
LEMMA InWhole ==
  ASSUME WholeInv, InBulletin
  PROVE  ScanOK' /\ Whole'
<1> DEFINE h == GivenUp + 1
<1>1. Inv /\ Scanning /\ Scan /\ ~AllScanned /\ fstate \in Inside /\ ~EndsHere
      /\ fstate' = InState
      /\ UNCHANGED <<feed, pc, ifdtyp, bulls>> /\ pc = "scan"
  BY DEF WholeInv, InBulletin, Scanning, input
<1>2. /\ Byte = feed[Seen + 1] /\ Seen + 1 =< Len(feed)
      /\ Seen \in Nat /\ GivenUp \in Nat /\ Scanned \in Nat
  BY <1>1, ByteIs
<1>3. GivenUp' = GivenUp /\ Scanned' = Scanned + 1
  BY <1>1, ScanKeeps DEF Inv
<1>4. Seen' = Seen + 1 /\ GivenUp' + 1 = h
  BY <1>2, <1>3 DEF Seen
<1>5. /\ Scanned >= 4 /\ SeenTail(feed, fstate, ifdtyp, h, Seen)
      /\ ifdtyp = 0 => /\ IsWmo(feed, h) /\ Counted(feed, fstate, nline, h, Seen)
                       /\ nchar <=> Text(feed, h, Seen)
      /\ ifdtyp = 1 => IsAfos(feed, h)
  BY <1>1 DEF WholeInv, ScanOK
<1>6. h \in Nat \ {0} /\ Seen >= h + 3
  BY <1>2, <1>5 DEF Seen
<1>7. feed \in Seq({feed[i] : i \in DOMAIN feed})
  BY <1>1, FeedIsSeq DEF Inv
<1> HIDE DEF h
<1>8. /\ InState \in Inside
      /\ InState = "CR_"       => Byte = Cr
      /\ InState = "CR_CR_"    => fstate \in {"CR_", "CR_CR_"} /\ Byte = Cr
      /\ InState = "CR_CR_NL_" => fstate = "CR_CR_" /\ Byte = Lf
      /\ InState = "N_"        => ifdtyp = 1 /\ Byte = N
      /\ InState = "N_N_"      => fstate = "N_" /\ Byte = N
      /\ InState = "N_N_N_"    => fstate = "N_N_" /\ Byte = N
      /\ fstate \notin {"N_", "N_N_", "N_N_N_"} /\ ifdtyp = 0 =>
            /\ InState \in {"IN_BULLETIN", "CR_", "CR_CR_", "CR_CR_NL_"}
            /\ Byte = Cr => InState \in {"CR_", "CR_CR_"}
            /\ Byte = Cr /\ fstate \in {"CR_", "CR_CR_"} => InState = "CR_CR_"
            /\ Byte = Lf /\ fstate = "CR_CR_" => InState = "CR_CR_NL_"
  BY <1>1, InStates
<1>9. SeenTail(feed, InState, ifdtyp, h, Seen + 1)
  BY <1>2, <1>5, <1>6, <1>7, <1>8, TailStep
<1>10. ASSUME ifdtyp = 0
       PROVE  /\ Counted(feed, InState, nline', h, Seen + 1)
              /\ nchar' <=> Text(feed, h, Seen + 1)
  <2>1. fstate \notin {"N_", "N_N_", "N_N_N_"}
    BY <1>5, <1>10 DEF SeenTail
  <2>2. /\ InState = "CR_CR_NL_" => nchar' = FALSE
        /\ InState = "IN_BULLETIN" => nchar' = TRUE
        /\ InState \in {"CR_", "CR_CR_"} => nchar' = nchar
    <3>1. nchar' = CASE InState = "CR_CR_NL_" -> FALSE
                     [] InState = "IN_BULLETIN" /\ fstate \notin {"N_", "N_N_", "N_N_N_"}
                        /\ ~(fstate = "IN_BULLETIN" /\ ifdtyp = 1) -> TRUE
                     [] OTHER -> nchar
      BY DEF InBulletin
    <3>2. ASSUME InState = "CR_CR_NL_" PROVE nchar' = FALSE
      BY <3>1, <3>2
    <3>3. ASSUME InState = "IN_BULLETIN" PROVE nchar' = TRUE
      BY <1>10, <2>1, <3>1, <3>3
    <3>4. ASSUME InState \in {"CR_", "CR_CR_"} PROVE nchar' = nchar
      BY <3>1, <3>4
    <3> QED BY <3>2, <3>3, <3>4
  <2>3. nline' = IF InState = "CR_CR_NL_" /\ Text(feed, h, Seen) /\ nline =< HeadLines
                 THEN nline + 1 ELSE nline
    <3>1. nchar <=> Text(feed, h, Seen)
      BY <1>5, <1>10
    <3>2. nline' = IF InState = "CR_CR_NL_" /\ nchar /\ nline =< HeadLines
                   THEN nline + 1 ELSE nline
      BY DEF InBulletin
    <3> QED BY <3>1, <3>2
  <2>4. ~(fstate = "CR_CR_NL_" /\ Byte = Etx /\ nline > HeadLines)
    BY <1>1 DEF EndsHere
  <2>5. /\ SeenTail(feed, fstate, 0, h, Seen) /\ SeenTail(feed, InState, 0, h, Seen + 1)
        /\ IsWmo(feed, h) /\ Counted(feed, fstate, nline, h, Seen)
    BY <1>5, <1>9, <1>10
  <2>6. /\ InState \in {"IN_BULLETIN", "CR_", "CR_CR_", "CR_CR_NL_"}
        /\ feed[Seen + 1] = Cr => InState \in {"CR_", "CR_CR_"}
        /\ feed[Seen + 1] = Cr /\ fstate \in {"CR_", "CR_CR_"} => InState = "CR_CR_"
        /\ feed[Seen + 1] = Lf /\ fstate = "CR_CR_" => InState = "CR_CR_NL_"
        /\ ~(fstate = "CR_CR_NL_" /\ feed[Seen + 1] = Etx /\ nline > HeadLines)
    BY <1>2, <1>8, <1>10, <2>1, <2>4
  <2>7. /\ Counted(feed, InState, nline', h, Seen + 1)
        /\ InState = "CR_CR_NL_" => ~Text(feed, h, Seen + 1)
        /\ InState = "IN_BULLETIN" => Text(feed, h, Seen + 1)
        /\ InState \in {"CR_", "CR_CR_"} =>
              (Text(feed, h, Seen + 1) <=> Text(feed, h, Seen))
    BY <1>2, <1>6, <1>7, <2>3, <2>5, <2>6, CountStep
  <2>8. nchar <=> Text(feed, h, Seen)
    BY <1>5, <1>10
  <2>9. nchar' <=> Text(feed, h, Seen + 1)
    BY <2>2, <2>6, <2>7, <2>8
  <2> QED BY <2>7, <2>9
<1>11. ScanOK'
  <2>1. pc' # "out"
    BY <1>1
  <2>2. SeenHead(feed', fstate', Seen')
    BY <1>1, <1>8 DEF SeenHead, Inside
  <2>3. Scanned' >= 4 /\ SeenTail(feed', fstate', ifdtyp', GivenUp' + 1, Seen')
    BY <1>1, <1>2, <1>3, <1>4, <1>5, <1>9
  <2>4. ifdtyp' = 0 => /\ IsWmo(feed', GivenUp' + 1)
                       /\ Counted(feed', fstate', nline', GivenUp' + 1, Seen')
                       /\ nchar' <=> Text(feed', GivenUp' + 1, Seen')
    BY <1>1, <1>4, <1>5, <1>10
  <2>5. ifdtyp' = 1 => IsAfos(feed', GivenUp' + 1)
    BY <1>1, <1>4, <1>5
  <2> QED BY <2>1, <2>2, <2>3, <2>4, <2>5 DEF ScanOK
<1>12. Whole'
  BY <1>1 DEF WholeInv, Whole
<1> QED BY <1>11, <1>12

\* What a delivery adds to the bulletins.
LEMMA DeliverAdds ==
  ASSUME Inv, Deliver
  PROVE  \/ bulls' = bulls
         \/ \E b : /\ Len(bulls') = Len(bulls) + 1 /\ Len(bulls) \in Nat
                   /\ bulls'[Len(bulls) + 1] = b
                   /\ \A k \in 1 .. Len(bulls) : bulls'[k] = bulls[k]
                   /\ b[1] = GivenUp + 1 /\ b[Len(b)] = Seen + 1
<1>1. Scanning /\ ~AllScanned /\ RingInv /\ Len(feed) \in Nat
      /\ bulls \in Seq(Seq(1 .. Len(feed)))
  BY FeedIsSeq DEF Deliver, Scanning, Inv, TypeOK
<1>2. GivenUp \in Nat /\ Scanned \in Nat /\ Seen \in Nat
  BY <1>1, ByteIs
<1>3. CASE TailAt = bhead
  BY <1>3 DEF Deliver
<1>4. CASE TailAt # bhead
  <2> DEFINE m == Scanned + 1
             b == [k \in 1 .. m |-> GivenUp + k]
  <2>1. bulls' = Append(bulls, b)
    BY <1>1, <1>4, BulletinBytes DEF Deliver
  <2>2. m \in Nat /\ m >= 1 /\ GivenUp + m = Seen + 1
    BY <1>2 DEF Seen
  <2> HIDE DEF m
  <2>3. Len(b) = m /\ b[1] = GivenUp + 1 /\ b[m] = GivenUp + m
    BY <2>2
  <2> HIDE DEF b
  <2>4. /\ Len(bulls') = Len(bulls) + 1 /\ Len(bulls) \in Nat
        /\ bulls'[Len(bulls) + 1] = b
        /\ \A k \in 1 .. Len(bulls) : bulls'[k] = bulls[k]
    BY <1>1, <2>1
  <2> QED BY <2>2, <2>3, <2>4
<1> QED BY <1>3, <1>4

\* Where the search ends there is the end of a bulletin, the first there is.
LEMMA EndIsThere ==
  ASSUME WholeInv, Scanning, fstate \in Inside, EndsHere
  PROVE  IsBulletin(feed, GivenUp + 1, Seen + 1)
<1> DEFINE h == GivenUp + 1
           e == Seen + 1
           f == e - 3
<1>1. Inv /\ TypeOK
  BY DEF WholeInv, Inv
<1>2. /\ Byte = feed[e] /\ e =< Len(feed)
      /\ Seen \in Nat /\ GivenUp \in Nat /\ Scanned \in Nat
  BY <1>1, ByteIs
<1>3. /\ Scanned >= 4 /\ SeenTail(feed, fstate, ifdtyp, h, Seen)
      /\ ifdtyp = 0 => IsWmo(feed, h) /\ Counted(feed, fstate, nline, h, Seen)
      /\ ifdtyp = 1 => IsAfos(feed, h)
  BY DEF WholeInv, ScanOK
<1>4. feed \in Seq({feed[i] : i \in DOMAIN feed}) /\ HeadLines \in Nat \ {0}
  BY <1>1, FeedIsSeq, DCBulletinAssumption
<1>5. h \in Nat \ {0} /\ Seen >= h + 3 /\ ifdtyp \in {0, 1}
  BY <1>1, <1>2, <1>3 DEF Seen, TypeOK
<1>6. /\ e \in Nat /\ f = Seen - 2 /\ f + 1 = Seen - 1 /\ f + 2 = Seen
      /\ f + 3 = e /\ f \in Int /\ f = e - 3 /\ e - 1 = Seen
  BY <1>2
<1> HIDE DEF h, e, f
<1>7. CASE fstate = "CR_CR_NL_" /\ Byte = Etx /\ nline > HeadLines
  <2>1. Seen - 2 >= h + 4 /\ At(feed, f, LineEnd) /\ e >= h + 7
    BY <1>2, <1>3, <1>5, <1>6, <1>7 DEF SeenTail, LineAt, e
  <2>2. CASE ifdtyp = 0
    <3>1. Cardinality(TextLines(feed, h, Seen + 1)) >= HeadLines
      <4>1. Cardinality(TextLines(feed, h, Seen + 1)) \in Nat
        BY <1>2, <1>5, LinesFinite
      <4> QED BY <1>3, <1>4, <1>7, <2>2, <4>1 DEF Counted
    <3>2. EndsAt(feed, h, e)
      BY <1>2, <1>3, <1>7, <2>1, <2>2, <3>1 DEF EndsAt, e, f
    <3>3. \A i \in h + 4 .. e - 1 : ~EndsAt(feed, h, i)
      BY <1>3, <1>6, <2>2 DEF Counted
    <3> QED BY <1>3, <2>2, <3>2, <3>3 DEF IsBulletin, h, e
  <2>3. CASE ifdtyp = 1
    <3>1. feed[f] = Cr /\ feed[f + 1] = Cr /\ feed[f + 2] = Lf /\ feed[f + 3] = Etx
      BY <1>2, <1>4, <1>6, <1>7, <2>1, LineBytes
    <3>2. f > 0 /\ f + 3 =< Len(feed)
      BY <1>2, <1>5, <1>6, <2>1
    <3>3. At(feed, f, <<Cr, Cr, Lf, Etx>>)
      <4>1. f \in Int /\ feed \in Seq({feed[i] : i \in DOMAIN feed})
        BY <1>4, <1>6
      <4>2. At(feed, f, <<Cr, Cr, Lf, Etx>>) <=>
               /\ f > 0 /\ f + 3 =< Len(feed)
               /\ feed[f] = Cr /\ feed[f + 1] = Cr /\ feed[f + 2] = Lf
               /\ feed[f + 3] = Etx
        BY <4>1, AtFour
      <4> QED BY <3>1, <3>2, <4>2
    <3> QED BY <1>3, <2>1, <2>3, <3>3 DEF IsBulletin, h, e, f
  <2> QED BY <1>5, <2>2, <2>3
<1>8. CASE fstate = "N_N_N_" /\ Byte = N
  <2>1. ifdtyp = 1 /\ Seen >= h + 6
        /\ feed[Seen] = N /\ feed[Seen - 1] = N /\ feed[Seen - 2] = N
    BY <1>3, <1>8 DEF SeenTail
  <2>2. f > 0 /\ f + 3 =< Len(feed) /\ e >= h + 7
    BY <1>2, <1>5, <1>6, <2>1
  <2>3. feed[f] = N /\ feed[f + 1] = N /\ feed[f + 2] = N /\ feed[f + 3] = N
    BY <1>2, <1>6, <1>8, <2>1
  <2>4. At(feed, f, <<N, N, N, N>>)
    BY <1>4, <1>6, <2>2, <2>3, AtFour
  <2> QED BY <1>3, <2>1, <2>2, <2>4 DEF IsBulletin, h, e, f
<1> QED BY <1>7, <1>8 DEF EndsHere

\* A bulletin is delivered.
LEMMA DeliverWhole ==
  ASSUME WholeInv, Deliver
  PROVE  ScanOK' /\ Whole'
<1>1. Inv /\ Scanning /\ fstate \in Inside /\ EndsHere /\ feed' = feed /\ fstate' = "START"
  BY DEF WholeInv, Deliver, input
<1>2. IsBulletin(feed, GivenUp + 1, Seen + 1)
  BY <1>1, EndIsThere
<1>3. ScanOK'
  BY <1>1 DEF ScanOK, SeenHead, Inside
<1>4. Whole'
  <2>1. CASE bulls' = bulls
    BY <1>1, <2>1 DEF WholeInv, Whole
  <2>2. ASSUME NEW b, Len(bulls') = Len(bulls) + 1, Len(bulls) \in Nat,
               bulls'[Len(bulls) + 1] = b,
               \A k \in 1 .. Len(bulls) : bulls'[k] = bulls[k],
               b[1] = GivenUp + 1, b[Len(b)] = Seen + 1
        PROVE  Whole'
    <3>1. ASSUME NEW k \in 1 .. Len(bulls')
          PROVE  IsBulletin(feed, bulls'[k][1], bulls'[k][Len(bulls'[k])])
      <4>1. CASE k = Len(bulls) + 1
        BY <1>2, <2>2, <4>1
      <4>2. CASE k \in 1 .. Len(bulls)
        BY <2>2, <4>2 DEF WholeInv, Whole
      <4> QED BY <2>2, <3>1, <4>1, <4>2
    <3> QED BY <1>1, <3>1 DEF Whole
  <2> QED BY <1>1, <2>1, <2>2, DeliverAdds
<1> QED BY <1>3, <1>4

\* The invariant at the beginning.
LEMMA InitWhole == Init => WholeInv
<1> SUFFICES ASSUME Init PROVE WholeInv
  OBVIOUS
<1>1. Inv
  BY InitInv
<1>2. ScanOK
  BY DEF Init, ScanOK, SeenHead, Inside
<1>3. Whole
  BY DEF Init, Whole
<1> QED BY <1>1, <1>2, <1>3 DEF WholeInv

\* The invariant through any step.
LEMMA NextWhole == WholeInv /\ [Next]_vars => WholeInv'
<1> SUFFICES ASSUME WholeInv, [Next]_vars PROVE WholeInv'
  OBVIOUS
<1>1. Inv'
  BY NextInv DEF WholeInv
<1>2. CASE Feed \/ Call \/ Timeout \/ ReadFails \/ Overflow \/ EndOfData \/ UNCHANGED vars
  BY <1>1, <1>2, AsideWhole DEF WholeInv
<1>3. CASE Put \/ PutMore
  BY <1>1, <1>3, ReadWhole DEF WholeInv
<1>4. CASE SeekHeader
  BY <1>1, <1>4, SeekWhole DEF WholeInv
<1>5. CASE FindHeader
  BY <1>1, <1>5, FindWhole DEF WholeInv
<1>6. CASE InBulletin
  BY <1>1, <1>6, InWhole DEF WholeInv
<1>7. CASE Deliver
  BY <1>1, <1>7, DeliverWhole DEF WholeInv
<1> QED BY <1>2, <1>3, <1>4, <1>5, <1>6, <1>7 DEF Next, Decoder, Running

(***************************************************************************)
(* Whatever is fed, in whatever pieces, a decoder gets whole bulletins,    *)
(* each from a header to the first end after it, and in their order.       *)
(***************************************************************************)
THEOREM BulletinsAreWhole == Spec => []WholeBulletins
<1>1. WholeInv => WholeBulletins
  BY DEF WholeInv, Inv, Whole, WholeBulletins
<1> QED BY <1>1, InitWhole, NextWhole, PTL DEF Spec

-----------------------------------------------------------------------------
(***************************************************************************)
(* No bulletin is missed.  First, what the definition of Taken defines: a  *)
(* set of places that satisfies its equation, which there is, as each      *)
(* place depends on three before it.                                       *)
(***************************************************************************)
\* A set of naturals has a least element: the naturals below it are the
\* smallest set of their kind.
LEMMA LeastNat ==
  ASSUME NEW T, T \subseteq Nat, T # {}
  PROVE  \E x \in T : \A y \in T : x =< y
<1> DEFINE Below(n) == 0 .. (n - 1)
<1>1. PICK t \in T : TRUE
  OBVIOUS
<1> DEFINE S == Below(t)
           U == {x \in T : x =< t}
           F == {Below(x) : x \in U}
<1>2. IsFiniteSet(S)
  BY FS_Interval
<1>3. IsWellFoundedOn(StrictSubsetOrdering(S), SUBSET S)
  BY <1>2, FS_StrictSubsetOrderingWellFounded, FS_FiniteSubsetsOfFinite
<1>4. F \subseteq SUBSET S /\ F # {}
  OBVIOUS
<1>5. PICK f \in F : \A g \in F : ~ (<<g, f>> \in StrictSubsetOrdering(S))
  <2> HIDE DEF F, S
  <2> QED BY <1>3, <1>4, WFMin
<1>6. PICK x \in U : f = Below(x)
  BY <1>5
<1>7. \A y \in U : ~ (y < x)
  <2> SUFFICES ASSUME NEW y \in U, y < x PROVE FALSE
    OBVIOUS
  <2>1. Below(y) \in F /\ Below(x) \in F
    OBVIOUS
  <2>2. Below(y) \subseteq Below(x)
    OBVIOUS
  <2>3. y \in Below(x) /\ y \notin Below(y)
    OBVIOUS
  <2>4. <<Below(y), Below(x)>> \in StrictSubsetOrdering(S)
    BY <2>1, <2>2, <2>3, <1>4 DEF StrictSubsetOrdering
  <2> QED BY <2>1, <2>4, <1>5, <1>6
<1> QED BY <1>7

\* A ^A at i that breaks off no header begun at a place of T.
Begins(s, p, T, i) ==
    /\ s[i] = Soh
    /\ \A n \in 1 .. 3 :
          i - n >= p /\ (\A k \in 1 .. n - 1 : s[i - k] = Cr) => i - n \notin T

\* The places from p to n that are taken.
AreTaken(s, p, n, T) ==
    T \subseteq p .. n /\ \A i \in p .. n : i \in T <=> Begins(s, p, T, i)

LEMMA TakenExists ==
  ASSUME NEW s, NEW p \in Nat \ {0}, NEW n \in Nat
  PROVE  \E T : AreTaken(s, p, n, T)
<1> DEFINE Bad == {m \in 0 .. n : \A T : ~AreTaken(s, p, m, T)}
<1> SUFFICES ASSUME n \in Bad PROVE FALSE
  OBVIOUS
<1>1. PICK m \in Bad : \A i \in Bad : m =< i
  <2>1. Bad \subseteq Nat /\ Bad # {}
    OBVIOUS
  <2> HIDE DEF Bad
  <2> QED BY <2>1, LeastNat
<1>2. m \in Nat /\ m >= p
  <2>1. m \in Nat /\ ~AreTaken(s, p, m, {})
    BY <1>1
  <2> QED BY <2>1 DEF AreTaken
<1>3. PICK T : AreTaken(s, p, m - 1, T)
  <2>1. m - 1 \in 0 .. n /\ m - 1 \notin Bad
    BY <1>1, <1>2
  <2> QED BY <2>1
<1> DEFINE U == IF Begins(s, p, T, m) THEN T \cup {m} ELSE T
<1>4. T \subseteq p .. m - 1 /\ U \subseteq p .. m
  BY <1>2, <1>3 DEF AreTaken
<1>5. ASSUME NEW i \in p .. m PROVE Begins(s, p, U, i) <=> Begins(s, p, T, i)
  <2>1. \A k \in 1 .. 3 : i - k \in U <=> i - k \in T
    BY <1>2
  <2> HIDE DEF U
  <2> QED BY <2>1 DEF Begins
<1>6. ASSUME NEW i \in p .. m PROVE i \in U <=> Begins(s, p, T, i)
  <2>1. CASE i = m
    <3>1. m \notin T
      BY <1>2, <1>4
    <3> QED BY <2>1, <3>1
  <2>2. CASE i # m
    <3>1. i \in p .. m - 1
      BY <1>2, <2>2
    <3> QED BY <1>3, <2>2, <3>1 DEF AreTaken
  <2> QED BY <2>1, <2>2
<1>7. AreTaken(s, p, m, U)
  <2> HIDE DEF U
  <2> QED BY <1>4, <1>5, <1>6 DEF AreTaken
<1> QED BY <1>1, <1>7

\* The places that a search from p on takes.
TakenAt(s, p) == {i \in p .. Len(s) : Taken(s, p)[i]}

LEMMA TakenIs ==
  ASSUME NEW s, Len(s) \in Nat, NEW p \in Nat \ {0}
  PROVE  AreTaken(s, p, Len(s), TakenAt(s, p))
<1> DEFINE D == p .. Len(s)
           Body(g) == [i \in D |->
                          /\ s[i] = Soh
                          /\ \A n \in 1 .. 3 :
                                i - n >= p /\ (\A k \in 1 .. n - 1 : s[i - k] = Cr)
                                   => ~g[i - n]]
<1>1. PICK T : AreTaken(s, p, Len(s), T)
  BY TakenExists
<1> DEFINE f == [i \in D |-> i \in T]
<1>2. f = Body(f)
  <2>1. ASSUME NEW i \in D
        PROVE  (i \in T) = (/\ s[i] = Soh
                            /\ \A n \in 1 .. 3 :
                                  i - n >= p /\ (\A k \in 1 .. n - 1 : s[i - k] = Cr)
                                     => ~f[i - n])
    <3>1. \A n \in 1 .. 3 : i - n >= p => i - n \in D
      OBVIOUS
    <3>2. \A n \in 1 .. 3 : i - n >= p => (f[i - n] <=> i - n \in T)
      BY <3>1
    <3>3. i \in T <=> Begins(s, p, T, i)
      BY <1>1 DEF AreTaken
    <3> DEFINE Rhs == /\ s[i] = Soh
                      /\ \A n \in 1 .. 3 :
                            i - n >= p /\ (\A k \in 1 .. n - 1 : s[i - k] = Cr)
                               => ~f[i - n]
    <3> HIDE DEF f
    <3>4. i \in T <=> Rhs
      BY <3>2, <3>3 DEF Begins
    <3>5. (i \in T) \in BOOLEAN /\ Rhs \in BOOLEAN
      OBVIOUS
    <3> HIDE DEF Rhs
    <3>6. (i \in T) = Rhs
      BY <3>4, <3>5
    <3> QED BY <3>6 DEF Rhs
  <2> QED BY <2>1
<1>3. Taken(s, p) = CHOOSE g : g = Body(g)
  BY DEF Taken
<1> HIDE DEF Body, f
<1>4. Taken(s, p) = Body(Taken(s, p))
  BY <1>2, <1>3
<1> DEFINE t == Taken(s, p)
<1>5. ASSUME NEW i \in D
      PROVE  t[i] <=> /\ s[i] = Soh
                      /\ \A n \in 1 .. 3 :
                            i - n >= p /\ (\A k \in 1 .. n - 1 : s[i - k] = Cr)
                               => ~t[i - n]
  <2>1. Body(t)[i] = (/\ s[i] = Soh
                      /\ \A n \in 1 .. 3 :
                            i - n >= p /\ (\A k \in 1 .. n - 1 : s[i - k] = Cr)
                               => ~t[i - n])
    BY DEF Body
  <2>2. t[i] = Body(t)[i]
    BY <1>4
  <2> HIDE DEF t
  <2> QED BY <2>1, <2>2
<1>6. ASSUME NEW i \in D
      PROVE  i \in TakenAt(s, p) <=> Begins(s, p, TakenAt(s, p), i)
  <2>1. \A j \in D : j \in TakenAt(s, p) <=> t[j]
    BY DEF TakenAt
  <2>2. \A n \in 1 .. 3 : i - n >= p => i - n \in D
    OBVIOUS
  <2> HIDE DEF t, D
  <2> QED BY <1>5, <2>1, <2>2 DEF Begins
<1>7. TakenAt(s, p) \subseteq D
  BY DEF TakenAt
<1> QED BY <1>6, <1>7 DEF AreTaken

\* The same, for the bytes before i one by one.
LEMMA TakenStep ==
  ASSUME NEW s, NEW p \in Nat \ {0}, NEW n \in Nat, NEW T, AreTaken(s, p, n, T),
         NEW i \in p .. n
  PROVE  i \in T <=> /\ s[i] = Soh /\ i - 1 \notin T
                     /\ ~(i - 2 \in T /\ s[i - 1] = Cr)
                     /\ ~(i - 3 \in T /\ s[i - 2] = Cr /\ s[i - 1] = Cr)
<1>1. i \in T <=> Begins(s, p, T, i)
  BY DEF AreTaken
<1>2. \A k \in 1 .. 3 : i - k \in T => i - k >= p
  BY DEF AreTaken
<1> DEFINE R(k) == \A j \in 1 .. k - 1 : s[i - j] = Cr
<1>3. (R(1) <=> TRUE) /\ (R(2) <=> s[i - 1] = Cr)
      /\ (R(3) <=> s[i - 2] = Cr /\ s[i - 1] = Cr)
  <2>1. 1 .. 1 - 1 = {} /\ 1 .. 2 - 1 = {1} /\ 1 .. 3 - 1 = {1, 2}
    OBVIOUS
  <2> QED BY <2>1
<1>4. Begins(s, p, T, i) <=>
         s[i] = Soh /\ \A k \in 1 .. 3 : i - k >= p /\ R(k) => i - k \notin T
  BY DEF Begins
<1> HIDE DEF R
<1>5. (\A k \in 1 .. 3 : i - k >= p /\ R(k) => i - k \notin T) <=>
         /\ i - 1 >= p /\ R(1) => i - 1 \notin T
         /\ i - 2 >= p /\ R(2) => i - 2 \notin T
         /\ i - 3 >= p /\ R(3) => i - 3 \notin T
  <2>1. 1 .. 3 = {1, 2, 3}
    OBVIOUS
  <2> QED BY <2>1
<1> QED BY <1>1, <1>2, <1>3, <1>4, <1>5


-----------------------------------------------------------------------------
(***************************************************************************)
(* What the state of the search says, both ways round: the search is where *)
(* a header that begins at or after p would have brought it.               *)
(***************************************************************************)
Search(s, p, st, q) ==
    LET T == TakenAt(s, p)
    IN  /\ st = "SOH_"       <=> q \in T
        /\ st = "SOH_CR_"    <=> q - 1 \in T /\ s[q] = Cr
        /\ st = "SOH_CR_CR_" <=> q - 2 \in T /\ s[q - 1] = Cr /\ s[q] = Cr
        /\ st = "Z_C_Z_" <=> q - 2 >= p /\ s[q - 2] = Z /\ s[q - 1] = C /\ s[q] = Z
        /\ st = "Z_C_"   <=> q - 1 >= p /\ s[q - 1] = Z /\ s[q] = C
        /\ st = "Z_"     <=> /\ q >= p /\ s[q] = Z
                             /\ ~(q - 2 >= p /\ s[q - 2] = Z /\ s[q - 1] = C)
        /\ \A i \in p .. q - 3 : ~IsHead(s, p, i)

\* At the beginning of a search nothing has been found.
LEMMA SearchStart ==
  ASSUME NEW s, NEW p \in Nat \ {0}
  PROVE  Search(s, p, "START", p - 1)
<1>1. TakenAt(s, p) \subseteq p .. Len(s)
  BY DEF TakenAt
<1>2. \A k \in 1 .. 3 : p - k \notin TakenAt(s, p)
  BY <1>1
<1>3. p - 1 - 1 = p - 2 /\ p - 1 - 2 = p - 3
  OBVIOUS
<1> QED BY <1>2, <1>3 DEF Search

\* The places that are taken, and the bytes of a header, one by one.
LEMMA HeadBytes ==
  ASSUME NEW s, NEW S, s \in Seq(S), NEW p \in Nat \ {0}, NEW i \in p .. Len(s)
  PROVE  /\ IsHead(s, p, i) <=> (IsWmo(s, i) /\ i \in TakenAt(s, p)) \/ IsAfos(s, i)
         /\ IsWmo(s, i) <=> /\ i + 3 =< Len(s) /\ s[i] = Soh /\ s[i + 1] = Cr
                            /\ s[i + 2] = Cr /\ s[i + 3] = Lf
         /\ IsAfos(s, i) <=> /\ i + 3 =< Len(s) /\ s[i] = Z /\ s[i + 1] = C
                             /\ s[i + 2] = Z /\ s[i + 3] = C
<1>1. i \in Int /\ i > 0
  OBVIOUS
<1>2. IsWmo(s, i) <=> /\ i > 0 /\ i + 3 =< Len(s) /\ s[i] = Soh /\ s[i + 1] = Cr
                      /\ s[i + 2] = Cr /\ s[i + 3] = Lf
  BY <1>1, AtFour DEF IsWmo
<1>3. IsAfos(s, i) <=> /\ i > 0 /\ i + 3 =< Len(s) /\ s[i] = Z /\ s[i + 1] = C
                       /\ s[i + 2] = Z /\ s[i + 3] = C
  BY <1>1, AtFour DEF IsAfos
<1>4. i \in TakenAt(s, p) <=> Taken(s, p)[i]
  BY DEF TakenAt
<1> QED BY <1>1, <1>2, <1>3, <1>4 DEF IsHead

\* One byte more that is not the last of a header.
LEMMA SearchStep ==
  ASSUME NEW s, NEW S, s \in Seq(S), NEW p \in Nat \ {0}, NEW q \in Nat,
         q >= p - 1, q + 1 =< Len(s),
         NEW st \in Outside, Search(s, p, st, q), NEW st2,
         ~(st = "SOH_CR_CR_" /\ s[q + 1] = Lf), ~(st = "Z_C_Z_" /\ s[q + 1] = C),
         st2 = IF st = "SOH_" /\ s[q + 1] = Cr THEN "SOH_CR_"
               ELSE IF st = "SOH_CR_" /\ s[q + 1] = Cr THEN "SOH_CR_CR_"
               ELSE IF st = "Z_" /\ s[q + 1] = C THEN "Z_C_"
               ELSE IF st = "Z_C_" /\ s[q + 1] = Z THEN "Z_C_Z_"
               ELSE IF s[q + 1] = Z THEN "Z_"
               ELSE IF s[q + 1] = Soh /\ st \notin {"SOH_", "SOH_CR_", "SOH_CR_CR_"}
                    THEN "SOH_"
               ELSE "NOT_IN_BULLETIN"
  PROVE  Search(s, p, st2, q + 1)
<1> DEFINE T == TakenAt(s, p)
<1>1. Len(s) \in Nat /\ AreTaken(s, p, Len(s), T)
  <2>1. Len(s) \in Nat
    OBVIOUS
  <2> QED BY <2>1, TakenIs
<1>2. T \subseteq p .. Len(s) /\ \A i \in T : s[i] = Soh
  BY <1>1 DEF AreTaken, Begins
<1>3. q + 1 - 1 = q /\ q + 1 - 2 = q - 1 /\ q + 1 - 3 = q - 2
  OBVIOUS
<1>4. q + 1 \in p .. Len(s)
  BY <1>1
<1>5. q + 1 \in T <=> /\ s[q + 1] = Soh /\ q \notin T
                      /\ ~(q - 1 \in T /\ s[q] = Cr)
                      /\ ~(q - 2 \in T /\ s[q - 1] = Cr /\ s[q] = Cr)
  <2>1. q + 1 \in T <=> /\ s[q + 1] = Soh /\ q + 1 - 1 \notin T
                        /\ ~(q + 1 - 2 \in T /\ s[q + 1 - 1] = Cr)
                        /\ ~(q + 1 - 3 \in T /\ s[q + 1 - 2] = Cr /\ s[q + 1 - 1] = Cr)
    <3> HIDE DEF T
    <3> QED BY <1>1, <1>4, TakenStep
  <2> QED BY <1>3, <2>1
<1>6. /\ st = "SOH_"       <=> q \in T
      /\ st = "SOH_CR_"    <=> q - 1 \in T /\ s[q] = Cr
      /\ st = "SOH_CR_CR_" <=> q - 2 \in T /\ s[q - 1] = Cr /\ s[q] = Cr
      /\ st = "Z_C_Z_" <=> q - 2 >= p /\ s[q - 2] = Z /\ s[q - 1] = C /\ s[q] = Z
      /\ st = "Z_C_"   <=> q - 1 >= p /\ s[q - 1] = Z /\ s[q] = C
      /\ st = "Z_"     <=> /\ q >= p /\ s[q] = Z
                           /\ ~(q - 2 >= p /\ s[q - 2] = Z /\ s[q - 1] = C)
      /\ \A i \in p .. q - 3 : ~IsHead(s, p, i)
  BY DEF Search
<1> HIDE DEF T
<1>7. Soh # Cr /\ Soh # Z /\ Soh # C /\ Cr # Z /\ Cr # C /\ Z # C
  BY DCBulletinAssumption
<1>8. /\ st2 = "SOH_"       <=> q + 1 \in T
      /\ st2 = "SOH_CR_"    <=> q \in T /\ s[q + 1] = Cr
      /\ st2 = "SOH_CR_CR_" <=> q - 1 \in T /\ s[q] = Cr /\ s[q + 1] = Cr
  BY <1>2, <1>5, <1>6, <1>7
<1>9. st2 = "Z_C_Z_" <=> q - 1 >= p /\ s[q - 1] = Z /\ s[q] = C /\ s[q + 1] = Z
  BY <1>6, <1>7
<1>10. st2 = "Z_C_" <=> q >= p /\ s[q] = Z /\ s[q + 1] = C
  <2>1. st = "Z_" \/ st = "Z_C_Z_" <=> q >= p /\ s[q] = Z
    BY <1>6
  <2> QED BY <2>1, <1>7
<1>11. st2 = "Z_" <=> /\ q + 1 >= p /\ s[q + 1] = Z
                      /\ ~(q - 1 >= p /\ s[q - 1] = Z /\ s[q] = C)
  BY <1>6, <1>7
<1>12. ASSUME NEW i \in p .. q + 1 - 3 PROVE ~IsHead(s, p, i)
  <2>1. CASE i \in p .. q - 3
    BY <1>6, <2>1
  <2>2. CASE i = q - 2
    <3>1. i \in p .. Len(s) /\ i + 1 = q - 1 /\ i + 2 = q /\ i + 3 = q + 1
      BY <1>1, <2>2
    <3>2. /\ IsHead(s, p, i) <=> (IsWmo(s, i) /\ i \in T) \/ IsAfos(s, i)
          /\ IsWmo(s, i) <=> /\ i + 3 =< Len(s) /\ s[i] = Soh /\ s[i + 1] = Cr
                             /\ s[i + 2] = Cr /\ s[i + 3] = Lf
          /\ IsAfos(s, i) <=> /\ i + 3 =< Len(s) /\ s[i] = Z /\ s[i + 1] = C
                              /\ s[i + 2] = Z /\ s[i + 3] = C
      BY <3>1, HeadBytes DEF T
    <3>3. ~(IsWmo(s, i) /\ i \in T)
      BY <1>6, <2>2, <3>1, <3>2
    <3>4. ~IsAfos(s, i)
      BY <1>6, <2>2, <3>1, <3>2
    <3> QED BY <3>2, <3>3, <3>4
  <2> QED BY <2>1, <2>2
<1> QED BY <1>3, <1>8, <1>9, <1>10, <1>11, <1>12 DEF Search, T

\* The last byte of a header: it is the first.
LEMMA SearchEnds ==
  ASSUME NEW s, NEW S, s \in Seq(S), NEW p \in Nat \ {0}, NEW q \in Nat,
         q >= p - 1, q + 1 =< Len(s),
         NEW st \in Outside, Search(s, p, st, q),
         \/ st = "SOH_CR_CR_" /\ s[q + 1] = Lf
         \/ st = "Z_C_Z_" /\ s[q + 1] = C
  PROVE  FirstHead(s, p, q - 2)
<1> DEFINE T == TakenAt(s, p)
           h == q - 2
<1>1. /\ st = "SOH_CR_CR_" => h \in T /\ s[q - 1] = Cr /\ s[q] = Cr
      /\ st = "Z_C_Z_" => h >= p /\ s[h] = Z /\ s[q - 1] = C /\ s[q] = Z
      /\ \A i \in p .. q - 3 : ~IsHead(s, p, i)
  BY DEF Search
<1>2. /\ h \in T => h \in p .. Len(s) /\ s[h] = Soh
      /\ Len(s) \in Nat
  <2>1. Len(s) \in Nat
    OBVIOUS
  <2>2. AreTaken(s, p, Len(s), T)
    BY <2>1, TakenIs
  <2> QED BY <2>1, <2>2 DEF AreTaken, Begins
<1>3. h \in p .. Len(s) /\ h + 1 = q - 1 /\ h + 2 = q /\ h + 3 = q + 1 /\ h - 1 = q - 3
  BY <1>1, <1>2
<1> HIDE DEF T, h
<1>4. IsHead(s, p, h)
  <2>1. /\ IsHead(s, p, h) <=> (IsWmo(s, h) /\ h \in T) \/ IsAfos(s, h)
        /\ IsWmo(s, h) <=> /\ h + 3 =< Len(s) /\ s[h] = Soh /\ s[h + 1] = Cr
                           /\ s[h + 2] = Cr /\ s[h + 3] = Lf
        /\ IsAfos(s, h) <=> /\ h + 3 =< Len(s) /\ s[h] = Z /\ s[h + 1] = C
                            /\ s[h + 2] = Z /\ s[h + 3] = C
    BY <1>3, HeadBytes DEF T
  <2> QED BY <2>1, <1>1, <1>2, <1>3
<1> QED BY <1>1, <1>3, <1>4 DEF FirstHead, h

-----------------------------------------------------------------------------
(***************************************************************************)
(* In an AFOS bulletin the state says how many N there are in a row, as    *)
(* long as it is clean; and no end has been overlooked.                    *)
(***************************************************************************)
Counts(s, st, h, q) ==
    /\ Clean(s, h, q) =>
          /\ q >= h + 4 /\ s[q] = N => st \in {"N_", "N_N_", "N_N_N_"}
          /\ q >= h + 5 /\ s[q - 1] = N /\ s[q] = N => st \in {"N_N_", "N_N_N_"}
          /\ q >= h + 6 /\ s[q - 2] = N /\ s[q - 1] = N /\ s[q] = N
                => st = "N_N_N_"
    /\ \A e \in h + 4 .. q : ~ClearEnd(s, h, e)

\* A header is of one kind.
LEMMA OneKind ==
  ASSUME NEW s, NEW S, s \in Seq(S), NEW h \in Nat
  PROVE  ~(IsWmo(s, h) /\ IsAfos(s, h))
<1>1. IsWmo(s, h) => s[h] = Soh
  BY AtFour DEF IsWmo
<1>2. IsAfos(s, h) => s[h] = Z
  BY AtFour DEF IsAfos
<1> QED BY <1>1, <1>2, DCBulletinAssumption

\* After its header.
LEMMA CountsStart ==
  ASSUME NEW s, NEW st, NEW h \in Nat PROVE Counts(s, st, h, h + 3)
BY DEF Counts

\* One byte more that does not end the bulletin.
LEMMA CountsStep ==
  ASSUME NEW s, NEW S, s \in Seq(S), NEW h \in Nat \ {0}, NEW q \in Nat,
         q >= h + 3, q + 1 =< Len(s), IsAfos(s, h),
         NEW st \in Inside, SeenTail(s, st, 1, h, q), Counts(s, st, h, q), NEW st2,
         s[q + 1] = N => /\ st = "IN_BULLETIN" => st2 = "N_"
                         /\ st = "N_"          => st2 = "N_N_"
                         /\ st = "N_N_"        => st2 = "N_N_N_"
                         /\ st # "N_N_N_"
  PROVE  Counts(s, st2, h, q + 1)
<1>1. q + 1 - 1 = q /\ q + 1 - 2 = q - 1 /\ q + 1 - 3 = q - 2 /\ q - 2 \in Int
      /\ q - 2 + 1 = q - 1 /\ q - 2 + 2 = q /\ q - 2 + 3 = q + 1
  OBVIOUS
<1>2. ASSUME Clean(s, h, q + 1)
      PROVE  /\ Clean(s, h, q)
             /\ s[q + 1] = N => st \in {"IN_BULLETIN", "N_", "N_N_"}
  <2>1. Clean(s, h, q)
    <3>1. \A i \in h + 4 .. q : i \in h + 4 .. q + 1
      OBVIOUS
    <3> QED BY <1>2, <3>1 DEF Clean
  <2>2. ASSUME s[q + 1] = N PROVE st \in {"IN_BULLETIN", "N_", "N_N_"}
    <3>1. q + 1 \in h + 4 .. q + 1
      OBVIOUS
    <3>2. s[q] # Cr /\ ~At(s, q - 2, LineEnd)
      BY <1>1, <1>2, <2>2, <3>1 DEF Clean
    <3>3. st \notin {"CR_", "CR_CR_", "CR_CR_NL_"}
      BY <3>2 DEF SeenTail, LineAt
    <3> QED BY <2>2, <3>3 DEF Inside
  <2> QED BY <2>1, <2>2
<1>3. ASSUME Clean(s, h, q + 1)
      PROVE  /\ q + 1 >= h + 4 /\ s[q + 1] = N => st2 \in {"N_", "N_N_", "N_N_N_"}
             /\ q + 1 >= h + 5 /\ s[q] = N /\ s[q + 1] = N
                   => st2 \in {"N_N_", "N_N_N_"}
             /\ q + 1 >= h + 6 /\ s[q - 1] = N /\ s[q] = N /\ s[q + 1] = N
                   => st2 = "N_N_N_"
  <2>1. /\ q >= h + 4 /\ s[q] = N => st \in {"N_", "N_N_", "N_N_N_"}
        /\ q >= h + 5 /\ s[q - 1] = N /\ s[q] = N => st \in {"N_N_", "N_N_N_"}
    BY <1>2, <1>3 DEF Counts
  <2>2. /\ q + 1 >= h + 5 => q >= h + 4
        /\ q + 1 >= h + 6 => q >= h + 5
    OBVIOUS
  <2> QED BY <1>2, <1>3, <2>1, <2>2
<1>4. ~ClearEnd(s, h, q + 1)
  <2>1. SUFFICES ASSUME EndsAt(s, h, q + 1), Clean(s, h, q + 1) PROVE FALSE
    BY OneKind DEF ClearEnd
  <2>2. q + 1 >= h + 7 /\ At(s, q - 2, <<N, N, N, N>>)
    BY <1>1, <2>1, OneKind DEF EndsAt
  <2>3. s[q - 2] = N /\ s[q - 1] = N /\ s[q] = N /\ s[q + 1] = N
    <3> DEFINE f == q - 2
    <3>1. f \in Int /\ f + 1 = q - 1 /\ f + 2 = q /\ f + 3 = q + 1
      BY <1>1
    <3> HIDE DEF f
    <3>2. At(s, f, <<N, N, N, N>>)
      BY <2>2 DEF f
    <3>3. s[f] = N /\ s[f + 1] = N /\ s[f + 2] = N /\ s[f + 3] = N
      BY <3>1, <3>2, AtFour
    <3> QED BY <3>1, <3>3 DEF f
  <2>4. q >= h + 6
    BY <2>2
  <2>5. st = "N_N_N_"
    BY <1>2, <2>1, <2>3, <2>4 DEF Counts
  <2> QED BY <2>3, <2>5
<1>5. \A e \in h + 4 .. q + 1 : ~ClearEnd(s, h, e)
  <2>1. \A e \in h + 4 .. q : ~ClearEnd(s, h, e)
    BY DEF Counts
  <2>2. \A e \in h + 4 .. q + 1 : e \in h + 4 .. q \/ e = q + 1
    OBVIOUS
  <2> QED BY <1>4, <2>1, <2>2
<1> QED BY <1>1, <1>3, <1>5 DEF Counts


-----------------------------------------------------------------------------
(***************************************************************************)
(* The inductive invariant.  The search goes on where the last bulletin    *)
(* ended, or is in the bulletin that begins at the first header after it;  *)
(* and dc_gbul only asks for more input, or stops for want of it, when all *)
(* it has is scanned.                                                      *)
(***************************************************************************)
Here == After(Len(bulls))

Starved == {"EBTMOUT", "EBEND"}

PlaceInv ==
    /\ fstate \in Outside => /\ GivenUp + 1 = Here
                             /\ Search(feed, Here, fstate, Seen)
    /\ fstate \in Inside  => /\ FirstHead(feed, Here, GivenUp + 1)
                             /\ ifdtyp = 1 =>
                                   Counts(feed, fstate, GivenUp + 1, Seen)

ReadInv ==
    /\ pc = "put" => AllScanned
    /\ iret \in Starved => AllScanned /\ pc = "stop"

FaithInv == WholeInv /\ PlaceInv /\ ReadInv /\ Faithful

\* The search goes on at a byte of the input.
LEMMA HereIs ==
  ASSUME Inv
  PROVE  Here \in Nat \ {0} /\ Len(bulls) \in Nat
<1>1. bulls \in Seq(Seq(1 .. Len(feed))) /\ Len(feed) \in Nat
  BY FeedIsSeq DEF Inv, TypeOK
<1>2. Len(bulls) \in Nat
  BY <1>1
<1>3. CASE Len(bulls) = 0
  BY <1>2, <1>3 DEF Here, After
<1>4. CASE Len(bulls) # 0
  <2> DEFINE b == bulls[Len(bulls)]
  <2>1. Len(bulls) \in 1 .. Len(bulls)
    BY <1>2, <1>4
  <2>2. b \in Seq(1 .. Len(feed)) /\ b # <<>>
    BY <1>1, <2>1 DEF Inv, Consecutive
  <2> HIDE DEF b
  <2>3. b[Len(b)] \in 1 .. Len(feed)
    BY <2>2
  <2> QED BY <1>1, <1>2, <1>4, <2>3 DEF Here, After, b
<1> QED BY <1>2, <1>3, <1>4

LEMMA InitFaith == Init => FaithInv
<1> SUFFICES ASSUME Init PROVE FaithInv
  OBVIOUS
<1>1. WholeInv
  BY InitWhole
<1>2. bulls = <<>> /\ Len(bulls) = 0 /\ fstate = "START" /\ pc = "out" /\ iret = "0"
  BY DEF Init
<1>3. Here = 1
  BY <1>2 DEF Here, After
<1>4. GivenUp = 0 /\ Seen = 0
  BY DCBufferAssumption
     DEF Init, RingInit, GivenUp, Wanted, Seen, Scanned, Span, Place
<1>5. Search(feed, 1, "START", 0)
  <2>1. Search(feed, 1, "START", 1 - 1)
    BY SearchStart
  <2> QED BY <2>1
<1>6. PlaceInv
  BY <1>2, <1>3, <1>4, <1>5 DEF PlaceInv, Inside
<1>7. ReadInv /\ Faithful
  BY <1>2 DEF ReadInv, Starved, Faithful
<1> QED BY <1>1, <1>6, <1>7 DEF FaithInv

\* Steps that scan nothing and deliver nothing keep the place.
LEMMA PlaceAside ==
  ASSUME PlaceInv, Faithful, UNCHANGED <<feed, fstate, ifdtyp, bulls>>,
         GivenUp' = GivenUp, Scanned' = Scanned
  PROVE  PlaceInv' /\ Faithful'
<1>1. Seen' = Seen /\ Here' = Here
  BY DEF Seen, Here, After
<1>2. PlaceInv'
  BY <1>1 DEF PlaceInv
<1>3. Faithful'
  BY DEF Faithful, After
<1> QED BY <1>2, <1>3

LEMMA AsideFaith ==
  ASSUME FaithInv,
         Feed \/ Call \/ Timeout \/ ReadFails \/ Overflow \/ EndOfData \/ UNCHANGED vars
  PROVE  PlaceInv' /\ ReadInv' /\ Faithful'
<1>1. UNCHANGED <<ringvars, feed, fstate, ifdtyp, bulls>>
  BY DEF Feed, Close, Send, Call, Timeout, ReadFails, Overflow, EndOfData, input, vars
<1>2. GivenUp' = GivenUp /\ Scanned' = Scanned /\ (AllScanned' <=> AllScanned)
  BY <1>1 DEF ringvars, GivenUp, Wanted, Scanned, AllScanned
<1>3. PlaceInv' /\ Faithful'
  BY <1>1, <1>2, PlaceAside DEF FaithInv
<1>4. ReadInv'
  <2>1. CASE Feed \/ UNCHANGED vars
    <3>1. pc' = pc /\ iret' = iret
      BY <2>1 DEF Feed, Close, Send, vars
    <3> QED BY <1>2, <3>1 DEF FaithInv, ReadInv
  <2>2. CASE Call
    <3>1. pc = "out" /\ pc' = Top /\ iret' = iret /\ fstate = "START"
      BY <2>2 DEF Call, FaithInv, WholeInv, ScanOK
    <3>2. IsEmpty => AllScanned
      <4>1. RingInv
        BY DEF FaithInv, WholeInv, Inv
      <4>2. Span(bhead, nxtpeek) + Span(nxtpeek, nxtfeed) = Span(bhead, nxtfeed)
            /\ bhead \in Place /\ nxtpeek \in Place /\ nxtfeed \in Place
        BY <4>1 DEF RingInv, RingIntact, RingType
      <4> QED BY <4>2, DCBufferAssumption DEF IsEmpty, AllScanned, Span, Place
    <3> QED BY <1>2, <3>1, <3>2 DEF FaithInv, ReadInv, Top
  <2>3. CASE Timeout
    BY <1>2, <2>3 DEF Timeout, Return, FaithInv, ReadInv
  <2>4. CASE ReadFails \/ Overflow
    BY <2>4 DEF ReadFails, Overflow, Return, ReadInv, Starved
  <2>5. CASE EndOfData
    BY <1>2, <2>5 DEF EndOfData, FaithInv, ReadInv
  <2> QED BY <2>1, <2>2, <2>3, <2>4, <2>5
<1> QED BY <1>3, <1>4

\* Reads: the end of the input is told when a read gets nothing.
LEMMA ReadFaith ==
  ASSUME FaithInv, Put \/ PutMore
  PROVE  PlaceInv' /\ ReadInv' /\ Faithful'
<1>1. UNCHANGED <<feed, fstate, ifdtyp, nline, nchar, bulls>>
  BY DEF Put, PutMore, input
<1>2. GivenUp' = GivenUp /\ Scanned' = Scanned
  BY ReadKeeps DEF FaithInv, WholeInv
<1>3. PlaceInv' /\ Faithful'
  BY <1>1, <1>2, PlaceAside DEF FaithInv
<1>4. ReadInv'
  <2>1. CASE PutMore
    BY <2>1 DEF PutMore, FaithInv, ReadInv
  <2>2. CASE Put
    <3> DEFINE n == Read(TryRead)
    <3>1. /\ pc = "put" /\ Fill(n)
          /\ IF n = 0 THEN Return("EBEND")
             ELSE /\ pc' = IF ReadsAgain(n) THEN "more" ELSE "scan"
                  /\ UNCHANGED iret
      BY <2>2 DEF Put
    <3> HIDE DEF n
    <3>2. AllScanned /\ iret \notin Starved
      BY <3>1 DEF FaithInv, ReadInv
    <3>3. n = 0 => nxtfeed' = nxtfeed /\ nxtpeek' = nxtpeek
      BY <3>1, DCBufferAssumption
         DEF Fill, FaithInv, WholeInv, Inv, RingInv, RingType, Place
    <3>4. CASE n = 0
      BY <3>1, <3>2, <3>3, <3>4 DEF Return, ReadInv, AllScanned
    <3>5. CASE n # 0
      BY <3>1, <3>2, <3>5 DEF ReadInv
    <3> QED BY <3>4, <3>5
  <2> QED BY <2>1, <2>2
<1> QED BY <1>3, <1>4

\* In search of a header.
LEMMA SeekFaith ==
  ASSUME FaithInv, SeekHeader
  PROVE  PlaceInv' /\ ReadInv' /\ Faithful'
<1>1. Inv /\ Scanning /\ Scan /\ ~AllScanned /\ fstate \in Outside
      /\ ~WmoHead /\ ~AfosHead
      /\ UNCHANGED <<feed, pc, ifdtyp, bulls, iret>> /\ pc = "scan"
  BY DEF FaithInv, WholeInv, SeekHeader, Scanning, input
<1>2. Byte = feed[Seen + 1] /\ Seen + 1 =< Len(feed)
      /\ Seen \in Nat /\ GivenUp \in Nat /\ Scanned \in Nat
  BY <1>1, ByteIs
<1>3. GivenUp' = GivenUp /\ Scanned' = Scanned + 1
  BY <1>1, ScanKeeps DEF Inv
<1>4. Seen' = Seen + 1 /\ Here' = Here /\ Here \in Nat \ {0}
  BY <1>1, <1>2, <1>3, HereIs DEF Seen, Here, After
<1>5. GivenUp + 1 = Here /\ Search(feed, Here, fstate, Seen)
  BY <1>1 DEF FaithInv, PlaceInv
<1>6. Seen >= Here - 1
  BY <1>2, <1>5 DEF Seen
<1>7. feed \in Seq({feed[i] : i \in DOMAIN feed})
  BY <1>1, FeedIsSeq DEF Inv
<1>8. fstate' = IF fstate = "SOH_" /\ Byte = Cr THEN "SOH_CR_"
                ELSE IF fstate = "SOH_CR_" /\ Byte = Cr THEN "SOH_CR_CR_"
                ELSE IF fstate = "Z_" /\ Byte = C THEN "Z_C_"
                ELSE IF fstate = "Z_C_" /\ Byte = Z THEN "Z_C_Z_"
                ELSE IF Byte = Z THEN "Z_"
                ELSE IF Byte = Soh /\ fstate \notin {"SOH_", "SOH_CR_", "SOH_CR_CR_"}
                     THEN "SOH_"
                ELSE "NOT_IN_BULLETIN"
  <2>1. CASE <<fstate, Byte>> \in DOMAIN Onward
    <3>1. fstate' = Onward[<<fstate, Byte>>]
      BY <2>1 DEF SeekHeader
    <3>2. \/ fstate = "SOH_" /\ Byte = Cr /\ fstate' = "SOH_CR_"
          \/ fstate = "SOH_CR_" /\ Byte = Cr /\ fstate' = "SOH_CR_CR_"
          \/ fstate = "Z_" /\ Byte = C /\ fstate' = "Z_C_"
          \/ fstate = "Z_C_" /\ Byte = Z /\ fstate' = "Z_C_Z_"
      BY <2>1, <3>1 DEF Onward
    <3> QED BY <3>2
  <2>2. CASE ~(<<fstate, Byte>> \in DOMAIN Onward)
    <3>1. fstate' = Restart
      BY <2>2 DEF SeekHeader
    <3>2. /\ ~(fstate = "SOH_" /\ Byte = Cr) /\ ~(fstate = "SOH_CR_" /\ Byte = Cr)
          /\ ~(fstate = "Z_" /\ Byte = C) /\ ~(fstate = "Z_C_" /\ Byte = Z)
      BY <2>2 DEF Onward
    <3> QED BY <3>1, <3>2 DEF Restart
  <2> QED BY <2>1, <2>2
<1>9. ~(fstate = "SOH_CR_CR_" /\ Byte = Lf) /\ ~(fstate = "Z_C_Z_" /\ Byte = C)
  BY <1>1 DEF WmoHead, AfosHead
<1>10. Search(feed, Here, fstate', Seen + 1)
  <2> DEFINE st2 == fstate'
  <2> HIDE DEF st2
  <2>1. Search(feed, Here, st2, Seen + 1)
    BY <1>1, <1>2, <1>4, <1>5, <1>6, <1>7, <1>8, <1>9, SearchStep DEF st2
  <2> QED BY <2>1 DEF st2
<1>11. fstate' \notin Inside
  BY <1>8 DEF Inside
<1>12. PlaceInv'
  BY <1>1, <1>3, <1>4, <1>5, <1>10, <1>11 DEF PlaceInv
<1>13. ReadInv'
  BY <1>1 DEF FaithInv, ReadInv
<1>14. Faithful'
  BY <1>1 DEF FaithInv, Faithful, After
<1> QED BY <1>12, <1>13, <1>14

\* A header is found.
LEMMA FindFaith ==
  ASSUME FaithInv, FindHeader
  PROVE  PlaceInv' /\ ReadInv' /\ Faithful'
<1>1. Inv /\ Scanning /\ ScanHead(3) /\ ~AllScanned /\ (WmoHead \/ AfosHead)
      /\ fstate' = "IN_BULLETIN" /\ fstate \in Outside
      /\ UNCHANGED <<feed, pc, bulls, iret>> /\ pc = "scan"
  BY DEF FaithInv, WholeInv, FindHeader, Scanning, input, WmoHead, AfosHead, Outside
<1>2. /\ Byte = feed[Seen + 1] /\ Seen + 1 =< Len(feed)
      /\ Seen \in Nat /\ GivenUp \in Nat /\ Scanned \in Nat
  BY <1>1, ByteIs
<1>3. 3 =< Scanned
  BY <1>1 DEF Inv, WmoHead, AfosHead, Depth
<1>4. GivenUp' = GivenUp + Scanned - 3 /\ Scanned' = 3 + 1
  BY <1>1, <1>3, ScanHeadKeeps DEF Inv
<1>5. GivenUp' + 1 = Seen - 2 /\ Seen' = Seen + 1 /\ Seen - 2 \in Nat
      /\ Seen + 1 = (Seen - 2) + 3
  BY <1>2, <1>3, <1>4 DEF Seen
<1>6. Here' = Here /\ Here \in Nat \ {0}
  BY <1>1, HereIs DEF Here, After
<1>7. GivenUp + 1 = Here /\ Search(feed, Here, fstate, Seen)
  BY <1>1 DEF FaithInv, PlaceInv
<1>8. Seen >= Here - 1
  BY <1>2, <1>7 DEF Seen
<1>9. feed \in Seq({feed[i] : i \in DOMAIN feed})
  BY <1>1, FeedIsSeq DEF Inv
<1>10. FirstHead(feed, Here, Seen - 2)
  BY <1>1, <1>2, <1>6, <1>7, <1>8, <1>9, SearchEnds DEF WmoHead, AfosHead
<1>11. Counts(feed, fstate', Seen - 2, Seen + 1)
  <2> DEFINE h == Seen - 2
             st2 == fstate'
  <2> HIDE DEF h, st2
  <2>1. Counts(feed, st2, h, h + 3)
    BY <1>5, CountsStart DEF h
  <2> QED BY <1>5, <2>1 DEF h, st2
<1>12. PlaceInv'
  BY <1>1, <1>5, <1>6, <1>10, <1>11 DEF PlaceInv, Outside
<1>13. ReadInv'
  BY <1>1 DEF FaithInv, ReadInv
<1>14. Faithful'
  BY <1>1 DEF FaithInv, Faithful, After
<1> QED BY <1>12, <1>13, <1>14

\* In a bulletin.
LEMMA InFaith ==
  ASSUME FaithInv, InBulletin
  PROVE  PlaceInv' /\ ReadInv' /\ Faithful'
<1> DEFINE h == GivenUp + 1
<1>1. Inv /\ Scanning /\ Scan /\ ~AllScanned /\ fstate \in Inside /\ ~EndsHere
      /\ fstate' = InState
      /\ UNCHANGED <<feed, pc, ifdtyp, bulls, iret>> /\ pc = "scan"
  BY DEF FaithInv, WholeInv, InBulletin, Scanning, input
<1>2. /\ Byte = feed[Seen + 1] /\ Seen + 1 =< Len(feed)
      /\ Seen \in Nat /\ GivenUp \in Nat /\ Scanned \in Nat
  BY <1>1, ByteIs
<1>3. GivenUp' = GivenUp /\ Scanned' = Scanned + 1
  BY <1>1, ScanKeeps DEF Inv
<1>4. Seen' = Seen + 1 /\ GivenUp' + 1 = h /\ Here' = Here
  BY <1>1, <1>2, <1>3 DEF Seen, Here, After
<1>5. /\ Scanned >= 4 /\ SeenTail(feed, fstate, ifdtyp, h, Seen)
      /\ ifdtyp = 1 => IsAfos(feed, h)
  BY <1>1 DEF FaithInv, WholeInv, ScanOK
<1>6. h \in Nat \ {0} /\ Seen >= h + 3
  <2>1. Scanned >= 4
    BY <1>5
  <2> QED BY <1>2, <2>1 DEF Seen
<1>7. feed \in Seq({feed[i] : i \in DOMAIN feed})
  BY <1>1, FeedIsSeq DEF Inv
<1>8. FirstHead(feed, Here, h) /\ (ifdtyp = 1 => Counts(feed, fstate, h, Seen))
  BY <1>1 DEF FaithInv, PlaceInv
<1> HIDE DEF h
<1>9. ASSUME ifdtyp = 1 PROVE Counts(feed, InState, h, Seen + 1)
  <2>1. Byte = N => /\ fstate = "IN_BULLETIN" => InState = "N_"
                    /\ fstate = "N_"          => InState = "N_N_"
                    /\ fstate = "N_N_"        => InState = "N_N_N_"
                    /\ fstate # "N_N_N_"
    <3>1. N # Cr /\ N # Lf
      BY DCBulletinAssumption
    <3>2. ~(fstate = "N_N_N_" /\ Byte = N)
      BY <1>1 DEF EndsHere
    <3> QED BY <1>9, <3>1, <3>2 DEF InState
  <2>2. IsAfos(feed, h) /\ SeenTail(feed, fstate, 1, h, Seen)
        /\ Counts(feed, fstate, h, Seen)
    BY <1>5, <1>8, <1>9
  <2> DEFINE st2 == InState
  <2>3. feed[Seen + 1] = N => /\ fstate = "IN_BULLETIN" => st2 = "N_"
                              /\ fstate = "N_"          => st2 = "N_N_"
                              /\ fstate = "N_N_"        => st2 = "N_N_N_"
                              /\ fstate # "N_N_N_"
    BY <1>2, <2>1
  <2> HIDE DEF st2
  <2>4. Counts(feed, st2, h, Seen + 1)
    BY <1>1, <1>2, <1>6, <1>7, <2>2, <2>3, CountsStep
  <2> QED BY <2>4 DEF st2
<1>10. InState \notin Outside /\ InState \in Inside
  BY <1>1, InStates DEF Inside, Outside
<1>11. PlaceInv'
  BY <1>1, <1>4, <1>8, <1>9, <1>10 DEF PlaceInv
<1>12. ReadInv'
  BY <1>1 DEF FaithInv, ReadInv
<1>13. Faithful'
  BY <1>1 DEF FaithInv, Faithful, After
<1> QED BY <1>11, <1>12, <1>13


\* A delivery: the bulletin lies in the input from the head to the byte just
\* scanned, and is never taken for an empty one.
LEMMA DeliverIs ==
  ASSUME WholeInv, Deliver
  PROVE  /\ bulls' = Append(bulls, [i \in 1 .. Scanned + 1 |-> GivenUp + i])
         /\ GivenUp' = Seen + 1 /\ Seen' = Seen + 1
<1>1. Inv /\ RingInv /\ Scanning /\ ~AllScanned /\ ScanTail /\ fstate \in Inside
  BY DEF Deliver, Scanning, WholeInv, Inv
<1>2. GivenUp \in Nat /\ Scanned \in Nat /\ Seen \in Nat
  BY <1>1, ByteIs
<1>3. Scanned >= 4
  BY <1>1 DEF WholeInv, ScanOK
<1>4. TailAt # bhead
  <2>1. nxtpeek \in Place /\ bhead \in Place
    BY <1>1 DEF RingInv, RingType
  <2>2. nxtpeek # bhead
    <3>1. Span(bhead, bhead) = 0
      BY <2>1, SpanType
    <3> QED BY <1>3, <3>1 DEF Scanned
  <2> QED BY <2>1, <2>2, DCBufferAssumption DEF TailAt, Succ, Place
<1>5. bulls' = Append(bulls, Bulletin)
  BY <1>4 DEF Deliver
<1>6. Bulletin = [i \in 1 .. Scanned + 1 |-> GivenUp + i]
  BY <1>1, <1>4, BulletinBytes
<1>7. Scanned' = 0 /\ GivenUp' = GivenUp + Scanned + 1
  BY <1>1, ScanTailKeeps
<1> QED BY <1>2, <1>5, <1>6, <1>7 DEF Seen

\* What is delivered is the bulletin that was to come.
LEMMA NextBulletin ==
  ASSUME FaithInv, Scanning, fstate \in Inside, EndsHere
  PROVE  /\ FirstHead(feed, Here, GivenUp + 1)
         /\ Seen + 1 >= GivenUp + 1 + 4
         /\ \A i \in GivenUp + 1 + 4 .. Seen : ~ClearEnd(feed, GivenUp + 1, i)
         /\ IsWmo(feed, GivenUp + 1) \/ Clean(feed, GivenUp + 1, Seen + 1)
               => EndsAt(feed, GivenUp + 1, Seen + 1)
<1> DEFINE h == GivenUp + 1
           e == Seen + 1
<1>1. WholeInv /\ Inv /\ TypeOK
  BY DEF FaithInv, WholeInv, Inv
<1>2. /\ Byte = feed[e] /\ e =< Len(feed)
      /\ Seen \in Nat /\ GivenUp \in Nat /\ Scanned \in Nat
  BY <1>1, ByteIs
<1>3. /\ Scanned >= 4 /\ ifdtyp \in {0, 1}
      /\ ifdtyp = 0 => IsWmo(feed, h) /\ Counted(feed, fstate, nline, h, Seen)
      /\ ifdtyp = 1 => IsAfos(feed, h)
  BY <1>1 DEF WholeInv, ScanOK, TypeOK
<1>4. FirstHead(feed, Here, h) /\ (ifdtyp = 1 => Counts(feed, fstate, h, Seen))
  BY DEF FaithInv, PlaceInv
<1>5. IsBulletin(feed, h, e)
  BY <1>1, EndIsThere
<1>6. h \in Nat /\ e >= h + 4 /\ e \in Nat
  <2>1. Scanned >= 4
    BY <1>3
  <2> QED BY <1>2, <2>1 DEF Seen
<1>7. feed \in Seq({feed[i] : i \in DOMAIN feed})
  BY <1>1, FeedIsSeq
<1> HIDE DEF h, e
<1>8. ~(IsWmo(feed, h) /\ IsAfos(feed, h))
  BY <1>6, <1>7, OneKind
<1>9. \A i \in h + 4 .. Seen : ~ClearEnd(feed, h, i)
  <2>1. CASE ifdtyp = 0
    BY <1>3, <2>1 DEF Counted, ClearEnd
  <2>2. CASE ifdtyp = 1
    BY <1>4, <2>2 DEF Counts
  <2> QED BY <1>3, <2>1, <2>2
<1>10. ASSUME IsWmo(feed, h) \/ Clean(feed, h, e) PROVE EndsAt(feed, h, e)
  <2>1. CASE IsWmo(feed, h)
    BY <1>5, <1>8, <2>1 DEF IsBulletin
  <2>2. CASE ~IsWmo(feed, h)
    <3>1. e >= h + 7
          /\ (At(feed, e - 3, <<N, N, N, N>>) \/ At(feed, e - 3, <<Cr, Cr, Lf, Etx>>))
      BY <1>5, <2>2 DEF IsBulletin
    <3>2. ~At(feed, e - 3, <<Cr, Cr, Lf, Etx>>)
      <4> DEFINE f == e - 3
      <4>1. f \in Int /\ f + 3 = e
        BY <1>6
      <4> HIDE DEF f
      <4>2. ASSUME At(feed, f, <<Cr, Cr, Lf, Etx>>) PROVE FALSE
        <5>1. /\ f > 0 /\ f + 3 =< Len(feed) /\ feed[f] = Cr /\ feed[f + 1] = Cr
              /\ feed[f + 2] = Lf /\ feed[f + 3] = Etx
          BY <1>7, <4>1, <4>2, AtFour
        <5>2. At(feed, f, LineEnd)
          <6>1. Len(feed) \in Nat
            BY <1>7
          <6>2. f + 2 =< Len(feed)
            BY <4>1, <5>1, <6>1
          <6> QED BY <1>7, <4>1, <5>1, <6>2, LineBytes
        <5>3. e \in h + 4 .. e /\ feed[e] \in {N, Etx}
          BY <1>6, <4>1, <5>1
        <5>4. Clean(feed, h, e)
          BY <1>10, <2>2
        <5> QED BY <5>2, <5>3, <5>4 DEF Clean, f
      <4> QED BY <4>2 DEF f
    <3> QED BY <2>2, <3>1, <3>2 DEF EndsAt
  <2> QED BY <2>1, <2>2
<1> QED BY <1>4, <1>6, <1>9, <1>10 DEF h, e

\* A bulletin is delivered.
LEMMA DeliverFaith ==
  ASSUME FaithInv, Deliver
  PROVE  PlaceInv' /\ ReadInv' /\ Faithful'
<1> DEFINE h == GivenUp + 1
           e == Seen + 1
           b == [i \in 1 .. e - h + 1 |-> h + i - 1]
           n == Len(bulls)
<1>1. WholeInv /\ Inv /\ Scanning /\ fstate \in Inside /\ EndsHere
      /\ feed' = feed /\ fstate' = "START" /\ pc = "scan"
      /\ (Return("0") \/ Return("EBEMPT"))
  BY DEF FaithInv, WholeInv, Deliver, Scanning, input
<1>2. GivenUp \in Nat /\ Scanned \in Nat /\ Seen \in Nat /\ Seen + 1 =< Len(feed)
      /\ Len(feed) \in Nat
  BY <1>1, ByteIs, FeedIsSeq DEF Inv
<1>3. bulls' = Append(bulls, b) /\ GivenUp' = e /\ Seen' = e
  <2>1. Scanned + 1 = e - h + 1 /\ \A i \in Nat : h + i - 1 = GivenUp + i
    BY <1>2 DEF Seen
  <2>2. [i \in 1 .. Scanned + 1 |-> GivenUp + i] = b
    BY <2>1
  <2> QED BY <1>1, <2>2, DeliverIs
<1>4. /\ FirstHead(feed, Here, h) /\ e >= h + 4
      /\ \A i \in h + 4 .. e - 1 : ~ClearEnd(feed, h, i)
      /\ IsWmo(feed, h) \/ Clean(feed, h, e) => EndsAt(feed, h, e)
  <2>1. e - 1 = Seen
    BY <1>2
  <2> QED BY <1>1, <2>1, NextBulletin
<1>5. h \in 1 .. Len(feed) /\ e \in 1 .. Len(feed)
  BY <1>2, <1>4
<1>6. b # <<>> /\ Len(b) = e - h + 1 /\ b[Len(b)] = e
  <2> DEFINE m == e - h + 1
  <2>1. m \in Nat /\ m >= 1 /\ h + m - 1 = e
    BY <1>2, <1>4, <1>5
  <2> HIDE DEF m
  <2>2. b = [i \in 1 .. m |-> h + i - 1]
    BY DEF m
  <2> HIDE DEF h, e, b
  <2>3. Len(b) = m /\ b[m] = h + m - 1 /\ b # <<>>
    BY <2>1, <2>2
  <2> QED BY <2>1, <2>3 DEF m
<1> HIDE DEF h, e, b, n
<1>7. n \in Nat /\ bulls \in Seq(Seq(1 .. Len(feed)))
  BY <1>1, HereIs DEF Inv, TypeOK, n
<1>8. /\ Len(bulls') = n + 1 /\ bulls'[n + 1] = b
      /\ \A k \in 1 .. n : bulls'[k] = bulls[k]
  BY <1>3, <1>7 DEF n
<1>9. \A k \in 0 .. n : After(k)' = After(k)
  <2>1. \A k \in 0 .. n : k = 0 \/ k \in 1 .. n
    BY <1>7
  <2> QED BY <1>8, <2>1 DEF After
<1>10. Here' = e + 1
  BY <1>6, <1>7, <1>8 DEF Here, After
<1>11. PlaceInv'
  <2>1. Search(feed, e + 1, "START", e)
    <3> DEFINE p == e + 1
    <3>1. p \in Nat \ {0} /\ p - 1 = e
      BY <1>2, <1>5
    <3> HIDE DEF p
    <3>2. Search(feed, p, "START", p - 1)
      BY <3>1, SearchStart
    <3> QED BY <3>1, <3>2 DEF p
  <2> QED BY <1>1, <1>3, <1>10, <2>1 DEF PlaceInv, Inside
<1>12. ReadInv'
  <2>1. pc' # "put" /\ iret' \notin Starved
    BY <1>1 DEF Return, Starved
  <2> QED BY <2>1 DEF ReadInv
<1>13. Faithful'
  <2> DEFINE Fits(k, B, p) ==
               \E g, f \in 1 .. Len(feed) :
                  /\ B = [i \in 1 .. f - g + 1 |-> g + i - 1]
                  /\ FirstHead(feed, p, g)
                  /\ f >= g + 4 /\ \A i \in g + 4 .. f - 1 : ~ClearEnd(feed, g, i)
                  /\ IsWmo(feed, g) \/ Clean(feed, g, f) => EndsAt(feed, g, f)
  <2>1. \A k \in 1 .. n : Fits(k, bulls[k], After(k - 1))
    BY DEF FaithInv, Faithful, n
  <2>2. Fits(n + 1, b, After(n))
    BY <1>4, <1>5 DEF Here, b, n
  <2> HIDE DEF Fits
  <2>3. ASSUME NEW k \in 1 .. n + 1 PROVE Fits(k, bulls'[k], After(k - 1)')
    <3>1. CASE k \in 1 .. n
      <4>1. k - 1 \in 0 .. n
        BY <1>7, <3>1
      <4> QED BY <1>8, <1>9, <2>1, <3>1, <4>1
    <3>2. CASE k = n + 1
      <4>1. k - 1 = n /\ n \in 0 .. n
        BY <1>7, <3>2
      <4> QED BY <1>8, <1>9, <2>2, <3>2, <4>1
    <3> QED BY <1>7, <3>1, <3>2
  <2> QED BY <1>1, <1>8, <2>3 DEF Faithful, Fits
<1> QED BY <1>11, <1>12, <1>13

LEMMA NextFaith == FaithInv /\ [Next]_vars => FaithInv'
<1> SUFFICES ASSUME FaithInv, [Next]_vars PROVE FaithInv'
  OBVIOUS
<1>1. WholeInv'
  BY NextWhole DEF FaithInv
<1>2. CASE Feed \/ Call \/ Timeout \/ ReadFails \/ Overflow \/ EndOfData \/ UNCHANGED vars
  BY <1>1, <1>2, AsideFaith DEF FaithInv
<1>3. CASE Put \/ PutMore
  BY <1>1, <1>3, ReadFaith DEF FaithInv
<1>4. CASE SeekHeader
  BY <1>1, <1>4, SeekFaith DEF FaithInv
<1>5. CASE FindHeader
  BY <1>1, <1>5, FindFaith DEF FaithInv
<1>6. CASE InBulletin
  BY <1>1, <1>6, InFaith DEF FaithInv
<1>7. CASE Deliver
  BY <1>1, <1>7, DeliverFaith DEF FaithInv
<1> QED BY <1>2, <1>3, <1>4, <1>5, <1>6, <1>7 DEF Next, Decoder, Running

LEMMA SpecFaith == Spec => []FaithInv
BY InitFaith, NextFaith, PTL DEF Spec

(***************************************************************************)
(* Whatever is fed, in whatever pieces, and for any size of the buffer:    *)
(* the bulletins delivered are those of the feed, none left out, each at   *)
(* the first header after the one before and up to its first end.          *)
(***************************************************************************)
THEOREM BulletinsAreThose == Spec => []Faithful
<1>1. FaithInv => Faithful
  BY DEF FaithInv
<1> QED BY <1>1, SpecFaith, PTL

(***************************************************************************)
(* When a decoder stops because no more input comes, it has delivered all  *)
(* the bulletins that are complete in what it has read.                    *)
(***************************************************************************)
THEOREM NoneIsLeft == Spec => []NothingLeft
<1>1. FaithInv => NothingLeft
  <2> SUFFICES ASSUME FaithInv, iret \in Starved, NEW h \in 1 .. fed,
                      FirstHead(feed, Here, h), NEW e \in h + 4 .. fed,
                      ClearEnd(feed, h, e)
               PROVE  FALSE
    BY DEF NothingLeft, Starved, Here
  <2>1. WholeInv /\ Inv /\ TypeOK /\ RingInv /\ AllScanned
    BY DEF FaithInv, WholeInv, Inv, ReadInv
  <2>2. Seen = fed /\ fed \in Nat /\ GivenUp \in Nat /\ Seen = GivenUp + Scanned
        /\ Scanned \in Nat
    <3>1. Scanned = Wanted /\ fed \in Nat /\ Scanned \in Nat
      BY <2>1, SpanType DEF AllScanned, Scanned, Wanted, RingInv, RingType
    <3>2. GivenUp = fed - Wanted /\ GivenUp >= 0
      BY <2>1 DEF GivenUp, RingInv
    <3> QED BY <3>1, <3>2 DEF Seen
  <2>3. Here \in Nat \ {0} /\ h \in Here .. Len(feed) /\ IsHead(feed, Here, h)
        /\ \A i \in Here .. h - 1 : ~IsHead(feed, Here, i)
    BY <2>1, HereIs DEF FirstHead
  <2>4. CASE fstate \in Outside
    <3>1. \A i \in Here .. Seen - 3 : ~IsHead(feed, Here, i)
      BY <2>4 DEF FaithInv, PlaceInv, Search
    <3>2. h \in Here .. Seen - 3
      BY <2>2, <2>3
    <3> QED BY <2>3, <3>1, <3>2
  <2>5. CASE fstate \in Inside
    <3> DEFINE g == GivenUp + 1
    <3>1. FirstHead(feed, Here, g) /\ (ifdtyp = 1 => Counts(feed, fstate, g, Seen))
      BY <2>5 DEF FaithInv, PlaceInv
    <3>2. ifdtyp \in {0, 1} /\ (ifdtyp = 0 => Counted(feed, fstate, nline, g, Seen))
      BY <2>1, <2>5 DEF WholeInv, ScanOK, TypeOK
    <3>3. g = h
      <4>1. g \in Here .. Len(feed) /\ IsHead(feed, Here, g)
            /\ \A i \in Here .. g - 1 : ~IsHead(feed, Here, i)
        BY <3>1 DEF FirstHead
      <4>2. g \in Int /\ h \in Int
        BY <2>2, <2>3
      <4> HIDE DEF g
      <4>3. ~(g < h) /\ ~(h < g)
        BY <2>3, <4>1, <4>2
      <4> QED BY <4>2, <4>3
    <3> HIDE DEF g
    <3>4. e \in g + 4 .. Seen
      BY <2>2, <3>3
    <3>5. CASE ifdtyp = 0
      BY <3>2, <3>3, <3>4, <3>5 DEF Counted, ClearEnd
    <3>6. CASE ifdtyp = 1
      BY <3>1, <3>3, <3>4, <3>6 DEF Counts
    <3> QED BY <3>2, <3>5, <3>6
  <2> QED BY <2>1, <2>4, <2>5 DEF TypeOK
<1> QED BY <1>1, SpecFaith, PTL

-----------------------------------------------------------------------------
(***************************************************************************)
(* How far a decoder is from its end, in steps, at most: a byte that is    *)
(* still to be read counts five, for it is scanned after that and may      *)
(* bring another round of the loop; a byte that is still to be scanned     *)
(* counts two, for it may be the end of a bulletin, and of the call.       *)
(***************************************************************************)
Unscanned == Span(nxtpeek, nxtfeed)

Left(where) ==
    CASE where = "stop" -> 0
      [] where = "put"  -> 1
      [] where = "scan" -> 2
      [] OTHER          -> 3

StepsLeft == 5 * (Len(feed) - fed) + 2 * Unscanned + Left(pc)

\* Between two bulletins nothing that has been scanned is kept.
LeftInv == Inv /\ (fstate = "START" => Scanned = 0)

LEMMA UnscannedType ==
  ASSUME RingInv
  PROVE  /\ Unscanned \in Nat /\ Scanned \in Nat /\ Wanted \in Nat
         /\ Scanned + Unscanned = Wanted
         /\ AllScanned <=> Unscanned = 0
<1>1. bhead \in Place /\ nxtpeek \in Place /\ nxtfeed \in Place
      /\ Span(bhead, nxtpeek) + Span(nxtpeek, nxtfeed) = Span(bhead, nxtfeed)
  BY DEF RingInv, RingType, RingIntact
<1>2. Span(nxtpeek, nxtfeed) = 0 <=> nxtpeek = nxtfeed
  BY <1>1, DCBufferAssumption DEF Span, Place
<1> QED BY <1>1, <1>2, SpanType DEF Unscanned, Scanned, Wanted, AllScanned

LEMMA StepsLeftNat == Inv => StepsLeft \in Nat
<1> SUFFICES ASSUME Inv PROVE StepsLeft \in Nat
  OBVIOUS
<1>1. Len(feed) \in Nat /\ fed \in Nat /\ fed =< Len(feed)
  BY DCBulletinAssumption DEF Inv, TypeOK, RingType
<1>2. Unscanned \in Nat
  BY UnscannedType DEF Inv
<1>3. Left(pc) \in Nat
  BY DEF Left
<1> QED BY <1>1, <1>2, <1>3 DEF StepsLeft

\* A step that leaves the input and what is scanned of it alone.
LEMMA LeftAside ==
  ASSUME Inv, UNCHANGED <<ringvars, feed>>
  PROVE  /\ StepsLeft = StepsLeft' - Left(pc') + Left(pc)
         /\ StepsLeft' \in Int /\ Scanned' = Scanned
<1> DEFINE a == 5 * (Len(feed) - fed) + 2 * Unscanned
<1>1. a \in Int /\ Left(pc) \in Nat /\ Left(pc') \in Nat
  <2>1. Len(feed) \in Nat /\ fed \in Nat
    BY DCBulletinAssumption DEF Inv, TypeOK, RingType
  <2> QED BY <2>1, UnscannedType DEF Left, Inv
<1>2. a' = a /\ Scanned' = Scanned
  BY DEF ringvars, Unscanned, Scanned
<1>3. StepsLeft = a + Left(pc) /\ StepsLeft' = a' + Left(pc')
  BY DEF StepsLeft
<1> HIDE DEF a
<1> QED BY <1>1, <1>2, <1>3

\* A step that scans a byte.
LEMMA LeftScan ==
  ASSUME Inv, RingInv', ~AllScanned, nxtpeek' = Succ(nxtpeek),
         UNCHANGED <<nxtfeed, fed, feed>>, pc = "scan", pc' \in {"scan", "out", "stop"}
  PROVE  StepsLeft' < StepsLeft
<1>1. Unscanned' = Unscanned - 1 /\ Unscanned \in Nat
  <2>1. nxtpeek \in Place /\ nxtfeed \in Place /\ nxtpeek # nxtfeed
    BY DEF Inv, RingInv, RingType, AllScanned
  <2>2. Unscanned' = Span(Succ(nxtpeek), nxtfeed)
    BY DEF Unscanned
  <2>3. Span(Succ(nxtpeek), nxtfeed) = Span(nxtpeek, nxtfeed) - 1
    BY <2>1, DCBufferAssumption DEF Span, Succ, Place
  <2> QED BY <2>2, <2>3, UnscannedType DEF Inv, Unscanned
<1>2. 5 * (Len(feed) - fed) \in Int
  BY DCBulletinAssumption DEF Inv, TypeOK, RingType
<1>3. Left(pc) = 2 /\ Left(pc') \in 0 .. 3
  BY DEF Left
<1>4. 5 * (Len(feed') - fed') = 5 * (Len(feed) - fed)
  OBVIOUS
<1> DEFINE a == 5 * (Len(feed) - fed)
<1>5. StepsLeft = a + 2 * Unscanned + 2 /\ StepsLeft' = a + 2 * (Unscanned - 1) + Left(pc')
  BY <1>1, <1>3, <1>4 DEF StepsLeft
<1> HIDE DEF a
<1> QED BY <1>1, <1>2, <1>3, <1>5 DEF a

\* A step that reads n bytes.
LEMMA LeftFill ==
  ASSUME Inv, NEW n \in Nat, n =< TryRead, Fill(n), UNCHANGED feed,
         \/ pc = "put" /\ n > 0 /\ pc' \in {"more", "scan"}
         \/ pc = "put" /\ pc' = "stop"
         \/ pc = "more" /\ pc' = "scan"
  PROVE  StepsLeft' < StepsLeft /\ Scanned' = Scanned
<1>1. RingInv' /\ GivenUp' = GivenUp /\ Scanned' = Scanned
  BY FillKeeps DEF Inv
<1>2. fed' = fed + n /\ fed \in Nat
  BY DEF Fill, Inv, RingInv, RingType
<1>3. Unscanned \in Nat /\ Scanned \in Nat /\ Wanted \in Nat
      /\ Scanned + Unscanned = Wanted
  BY UnscannedType DEF Inv
<1>4. Unscanned' \in Nat /\ Wanted' \in Nat /\ Scanned' + Unscanned' = Wanted'
  <2>1. bhead' \in Place /\ nxtpeek' \in Place /\ nxtfeed' \in Place
        /\ Span(bhead', nxtpeek') + Span(nxtpeek', nxtfeed') = Span(bhead', nxtfeed')
    BY <1>1 DEF RingInv, RingType, RingIntact
  <2> QED BY <2>1, SpanType DEF Unscanned, Scanned, Wanted
<1>5. Unscanned' = Unscanned + n
  <2>1. fed' - Wanted' = fed - Wanted
    BY <1>1 DEF GivenUp
  <2> DEFINE w1 == Wanted
             w2 == Wanted'
             u1 == Unscanned
             u2 == Unscanned'
             s1 == Scanned
  <2>2. /\ w1 \in Nat /\ w2 \in Nat /\ u1 \in Nat /\ u2 \in Nat /\ s1 \in Nat
        /\ s1 + u1 = w1 /\ s1 + u2 = w2 /\ (fed + n) - w2 = fed - w1
    BY <1>1, <1>2, <1>3, <1>4, <2>1
  <2> HIDE DEF w1, w2, u1, u2, s1
  <2>3. u2 = u1 + n
    BY <1>2, <2>2
  <2> QED BY <2>3 DEF u1, u2
<1>6. Len(feed) \in Nat
  BY DCBulletinAssumption DEF Inv, TypeOK
<1>7. Len(feed') - fed' = Len(feed) - fed - n
  BY <1>2, <1>6
<1>8. 5 * (Len(feed') - fed') = 5 * (Len(feed) - fed) - 5 * n
  BY <1>2, <1>6, <1>7
<1>9. \/ Left(pc) = 1 /\ n > 0 /\ Left(pc') =< 3
      \/ Left(pc) = 1 /\ Left(pc') = 0
      \/ Left(pc) = 3 /\ Left(pc') = 2
  BY DEF Left
<1>10. Left(pc) \in Nat /\ Left(pc') \in Nat
  BY DEF Left
<1> DEFINE a == 5 * (Len(feed) - fed)
<1>11. /\ StepsLeft = a + 2 * Unscanned + Left(pc)
       /\ StepsLeft' = a - 5 * n + 2 * (Unscanned + n) + Left(pc')
  BY <1>5, <1>8 DEF StepsLeft
<1>12. a \in Int
  BY <1>2, <1>6
<1> HIDE DEF a
<1> QED BY <1>1, <1>3, <1>9, <1>10, <1>11, <1>12

\* Every step of a decoder brings it nearer to its end.
LEMMA DecoderLeft ==
  ASSUME LeftInv, Decoder
  PROVE  StepsLeft' < StepsLeft /\ (fstate' = "START" => Scanned' = 0)
<1>1. Inv /\ (fstate = "START" => Scanned = 0)
  BY DEF LeftInv
<1>2. CASE Call \/ Timeout \/ ReadFails \/ Overflow \/ EndOfData
  <2>1. UNCHANGED <<ringvars, feed, fstate>>
    BY <1>2 DEF Call, Timeout, ReadFails, Overflow, EndOfData, input
  <2>2. Left(pc') < Left(pc)
    <3>1. CASE Call
      BY <3>1 DEF Call, Top, Left
    <3>2. CASE Timeout \/ ReadFails \/ Overflow
      BY <3>2 DEF Timeout, ReadFails, Overflow, Return, Left
    <3>3. CASE EndOfData
      <4>1. fstate = "START" => IsEmpty
        <5>1. bhead \in Place /\ nxtpeek \in Place /\ nxtpeek = nxtfeed
          BY <1>1, <3>3 DEF EndOfData, AllScanned, Inv, RingInv, RingType
        <5> QED BY <1>1, <5>1, DCBufferAssumption DEF Scanned, Span, Place, IsEmpty
      <4>2. pc = "scan" /\ pc' = "put"
        BY <3>3, <4>1 DEF EndOfData, Top
      <4> QED BY <4>2 DEF Left
    <3> QED BY <1>2, <3>1, <3>2, <3>3
  <2>3. Left(pc) \in Nat /\ Left(pc') \in Nat
    BY DEF Left
  <2> QED BY <1>1, <2>1, <2>2, <2>3, LeftAside
<1>3. CASE Put
  <2> DEFINE n == Read(TryRead)
  <2>1. n \in Nat /\ n =< TryRead
    BY <1>1, ReadBound, TryReadNat
  <2>2. /\ Fill(n) /\ pc = "put" /\ feed' = feed /\ fstate' = fstate
        /\ IF n = 0 THEN pc' = "stop" ELSE pc' \in {"more", "scan"}
    BY <1>3 DEF Put, Return, input
  <2> HIDE DEF n
  <2> QED BY <1>1, <2>1, <2>2, LeftFill
<1>4. CASE PutMore
  <2> DEFINE n == Read(TryMore)
  <2>1. TryMore \in Nat /\ TryMore = TryRead
    BY <1>1, <1>4, DCBufferAssumption
       DEF Inv, RingInv, RingType, Place, PutMore, TryMore, TryRead
  <2>2. n \in Nat /\ n =< TryRead
    BY <1>1, <2>1, ReadBound
  <2>3. Fill(n) /\ pc = "more" /\ pc' = "scan" /\ feed' = feed /\ fstate' = fstate
    BY <1>4 DEF PutMore, input
  <2> HIDE DEF n
  <2> QED BY <1>1, <2>2, <2>3, LeftFill
<1>5. CASE SeekHeader \/ FindHeader \/ InBulletin \/ Deliver
  <2>1. /\ ~AllScanned /\ pc = "scan" /\ nxtpeek' = Succ(nxtpeek)
        /\ UNCHANGED <<nxtfeed, fed, feed>> /\ pc' \in {"scan", "out", "stop"}
    BY <1>5 DEF SeekHeader, FindHeader, InBulletin, Deliver, Scanning, Scan,
                ScanHead, ScanTail, Return, input
  <2>2. Inv'
    BY <1>1, <1>5, SeekHeaderInv, FindHeaderInv, InBulletinInv, DeliverInv
  <2>3. StepsLeft' < StepsLeft
    BY <1>1, <2>1, <2>2, LeftScan DEF Inv
  <2>4. CASE SeekHeader
    <3>1. fstate' # "START"
      <4>1. CASE <<fstate, Byte>> \in DOMAIN Onward
        <5>1. fstate' = Onward[<<fstate, Byte>>]
          BY <2>4, <4>1 DEF SeekHeader
        <5>2. fstate \in {"SOH_", "SOH_CR_", "Z_", "Z_C_"}
          BY <4>1 DEF Onward
        <5> QED BY <4>1, <5>1, <5>2 DEF Onward
      <4>2. CASE ~(<<fstate, Byte>> \in DOMAIN Onward)
        BY <2>4, <4>2 DEF SeekHeader, Restart
      <4> QED BY <4>1, <4>2
    <3> QED BY <2>3, <3>1
  <2>5. CASE FindHeader
    BY <2>3, <2>5 DEF FindHeader
  <2>6. CASE InBulletin
    <3>1. InState # "START"
      BY DEF InState
    <3> QED BY <2>3, <2>6, <3>1 DEF InBulletin
  <2>7. CASE Deliver
    <3>1. Scanned' = 0
      BY <1>1, <2>1, <2>7, ScanTailKeeps DEF Deliver, Inv
    <3> QED BY <2>3, <3>1
  <2> QED BY <1>5, <2>4, <2>5, <2>6, <2>7
<1> QED BY <1>2, <1>3, <1>4, <1>5 DEF Decoder, Running

\* The feed brings nothing that was not counted.
LEMMA FeedLeft ==
  ASSUME LeftInv, Feed \/ UNCHANGED vars
  PROVE  StepsLeft' = StepsLeft /\ (fstate' = "START" => Scanned' = 0)
<1>1. UNCHANGED <<ringvars, feed, fstate, pc>>
  BY DEF Feed, Close, Send, vars, input
<1>2. /\ StepsLeft = StepsLeft' - Left(pc') + Left(pc)
      /\ StepsLeft' \in Int /\ Scanned' = Scanned
  BY <1>1, LeftAside DEF LeftInv
<1>3. Left(pc) \in Nat /\ Left(pc') = Left(pc)
  BY <1>1 DEF Left
<1> QED BY <1>1, <1>2, <1>3 DEF LeftInv

LEMMA SpecLeft == Spec => []LeftInv
<1>1. Init => LeftInv
  BY InitInv, RingStart DEF Init, LeftInv
<1>2. LeftInv /\ [Next]_vars => LeftInv'
  <2> SUFFICES ASSUME LeftInv, [Next]_vars PROVE LeftInv'
    OBVIOUS
  <2>1. Inv'
    BY NextInv DEF LeftInv
  <2>2. fstate' = "START" => Scanned' = 0
    BY DecoderLeft, FeedLeft DEF Next
  <2> QED BY <2>1, <2>2 DEF LeftInv
<1> QED BY <1>1, <1>2, PTL DEF Spec

\* What Stops rests on: no call of dc_gbul, no round of its loop and no read
\* is made for nothing, and the feed brings nothing that was not counted.
Shrinks == [][/\ Decoder => StepsLeft' < StepsLeft
              /\ Feed => StepsLeft' = StepsLeft]_vars

(***************************************************************************)
(* A decoder takes no more than a fixed number of steps for a feed, how-   *)
(* ever it is cut up: each step brings it nearer to its end, dc_gbul does  *)
(* not go round in its loop without reading, and it never reads nothing    *)
(* and goes on.                                                            *)
(***************************************************************************)
THEOREM StepsAreNumbered == Spec => [](StepsLeft \in Nat) /\ Shrinks
<1>1. LeftInv => StepsLeft \in Nat
  BY StepsLeftNat DEF LeftInv
<1>2. LeftInv /\ [Next]_vars =>
         [/\ Decoder => StepsLeft' < StepsLeft
          /\ Feed => StepsLeft' = StepsLeft]_vars
  <2> SUFFICES ASSUME LeftInv, Next
               PROVE  /\ Decoder => StepsLeft' < StepsLeft
                      /\ Feed => StepsLeft' = StepsLeft
    OBVIOUS
  <2> QED BY DecoderLeft, FeedLeft
<1> QED BY <1>1, <1>2, SpecLeft, PTL DEF Spec, Shrinks

=============================================================================

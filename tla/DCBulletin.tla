----------------------------- MODULE DCBulletin -----------------------------
(***************************************************************************)
(* A decoder's input (bridge/dc): dc_gbul searches the decoder buffer for  *)
(* bulletins while a feed, the LDM, writes a pipe.                         *)
(*                                                                         *)
(* A bulletin begins with ^A CR CR LF (WMO) or ZCZC (AFOS).  A WMO         *)
(* bulletin ends with ^C after CR CR LF, when it has more than HeadLines   *)
(* lines; an AFOS bulletin with NNNN.  A decoder calls dc_gbul until it    *)
(* returns an error, and then stops.                                       *)
(***************************************************************************)
EXTENDS DCBuffer, FiniteSets

CONSTANTS
    Feeds,                      \* what the feed may write, one of these
    Soh, Cr, Lf, Etx, Z, C, N,  \* the bytes that mean something
    HeadLines                   \* lines in the header of a WMO bulletin: 3

ASSUME DCBulletinAssumption ==
    /\ \A s \in Feeds : s \in Seq({s[i] : i \in DOMAIN s})
    /\ Soh \notin {Cr, Lf, Etx, Z, C, N} /\ Cr \notin {Lf, Etx, Z, C, N}
    /\ Lf \notin {Etx, Z, C, N} /\ Etx \notin {Z, C, N} /\ Z \notin {C, N} /\ C # N
    /\ HeadLines \in Nat \ {0}

Error == {"EBREAD", "EBTMOUT", "EBFULL", "EBEND", "EBEMPT"}

VARIABLES
    feed, sent,     \* what the feed writes, and how far it has got
    closed,         \* has the feed closed the pipe?
    pc,             \* where dc_gbul is; "out" between two calls
    fstate,         \* finite_state
    ifdtyp,         \* 0 for WMO, 1 for AFOS; kept by the caller
    nline, nchar,   \* lines in the bulletin, and whether this one has text
    bulls,          \* the bulletins delivered
    iret            \* the last return code

input == <<feed, sent, closed>>
vars == <<ringvars, input, pc, fstate, ifdtyp, nline, nchar, bulls, iret>>

Outside == {"START", "NOT_IN_BULLETIN", "SOH_", "SOH_CR_", "SOH_CR_CR_",
            "Z_", "Z_C_", "Z_C_Z_"}
Inside  == {"IN_BULLETIN", "CR_", "CR_CR_", "CR_CR_NL_", "N_", "N_N_", "N_N_N_"}

TypeOK ==
    /\ RingType
    /\ feed \in Feeds /\ sent \in 0 .. Len(feed) /\ closed \in BOOLEAN
    /\ fed =< sent
    /\ pc \in {"out", "put", "more", "scan", "stop"}
    /\ fstate \in Outside \cup Inside
    /\ ifdtyp \in {0, 1}
    /\ nline \in 0 .. HeadLines + 1 /\ nchar \in BOOLEAN
    /\ bulls \in Seq(Seq(1 .. Len(feed)))
    /\ iret \in {"0"} \cup Error

Init ==
    /\ RingInit
    /\ feed \in Feeds /\ sent = 0 /\ closed = FALSE
    /\ pc = "out" /\ fstate = "START" /\ ifdtyp = 0
    /\ nline = 0 /\ nchar = FALSE
    /\ bulls = <<>> /\ iret = "0"

-----------------------------------------------------------------------------
\* The feed writes some more bytes, and in the end closes the pipe.
Send(n) ==
    /\ ~closed /\ sent + n =< Len(feed)
    /\ sent' = sent + n
    /\ UNCHANGED <<ringvars, feed, closed, pc, fstate, ifdtyp, nline, nchar,
                   bulls, iret>>

Close ==
    /\ ~closed /\ sent = Len(feed)
    /\ closed' = TRUE
    /\ UNCHANGED <<ringvars, feed, sent, pc, fstate, ifdtyp, nline, nchar,
                   bulls, iret>>

\* How many bytes a read that asks for n gets.
Read(n) == IF n < sent - fed THEN n ELSE sent - fed

Return(code) ==
    /\ iret' = code
    /\ pc' = IF code = "0" THEN "out" ELSE "stop"

\* The pipe is only read when the buffer is empty.
BugTop == IF IsEmpty THEN "put" ELSE "scan"

\* The top of the loop: the pipe is read before the buffer is scanned,
\* unless the last bulletin was complete and there is more after it.
Top == IF fstate # "START" \/ IsEmpty THEN "put" ELSE "scan"

(***************************************************************************)
(* dc_gbul is called.  nline and nchar are not initialised: they are what  *)
(* is on the stack, until the header of a WMO bulletin sets them.          *)
(***************************************************************************)
Call ==
    /\ pc = "out"
    /\ pc' = Top
    /\ nline' \in {0, HeadLines + 1} /\ nchar' \in BOOLEAN
    /\ UNCHANGED <<ringvars, input, fstate, ifdtyp, bulls, iret>>

(***************************************************************************)
(* dcb_put: select, and then one read or two.  The retry of dc_gbul at the *)
(* end of the data is never made: its test, (ier == EBEND) < 0, is false.  *)
(***************************************************************************)
Timeout ==
    /\ pc = "put" /\ sent = fed /\ ~closed
    /\ Return("EBTMOUT")
    /\ UNCHANGED <<ringvars, input, fstate, ifdtyp, nline, nchar, bulls>>

ReadFails ==
    /\ pc \in {"put", "more"}
    /\ Return("EBREAD")
    /\ UNCHANGED <<ringvars, input, fstate, ifdtyp, nline, nchar, bulls>>

Overflow ==
    /\ pc = "put" /\ (sent > fed \/ closed) /\ IsFull
    /\ Return("EBFULL")
    /\ UNCHANGED <<ringvars, input, fstate, ifdtyp, nline, nchar, bulls>>

Put ==
    /\ pc = "put" /\ (sent > fed \/ closed) /\ ~IsFull
    /\ LET n == Read(TryRead)
       IN  /\ Fill(n)
           /\ IF n = 0 THEN Return("EBEND")
              ELSE /\ pc' = IF ReadsAgain(n) THEN "more" ELSE "scan"
                   /\ UNCHANGED iret
    /\ UNCHANGED <<input, fstate, ifdtyp, nline, nchar, bulls>>

\* The second read waits, for as long as it takes: select said that there
\* was something to read, and the first read may have had all of it.
PutMore ==
    /\ pc = "more" /\ (sent > fed \/ closed \/ TryMore = 0)
    /\ Fill(Read(TryMore))
    /\ pc' = "scan"
    /\ UNCHANGED <<input, fstate, ifdtyp, nline, nchar, bulls, iret>>

-----------------------------------------------------------------------------
(***************************************************************************)
(* The search, one byte at a time.                                         *)
(***************************************************************************)
Byte == feed[ring[nxtpeek]]
Scanning == pc = "scan" /\ ~AllScanned

\* A ^A within the beginning of an AFOS header is not taken.
BugRestart ==
    IF Byte = Z THEN "Z_"
    ELSE IF Byte = Soh /\ fstate \in {"START", "NOT_IN_BULLETIN"} THEN "SOH_"
    ELSE "NOT_IN_BULLETIN"

\* Where a byte leads that does not go on with the header being looked for.
Restart ==
    IF Byte = Z THEN "Z_"
    ELSE IF Byte = Soh /\ fstate \notin {"SOH_", "SOH_CR_", "SOH_CR_CR_"}
         THEN "SOH_"
    ELSE "NOT_IN_BULLETIN"

\* The pairs of a state and the byte that goes on with the header.
Onward ==
    [p \in {<<"SOH_", Cr>>, <<"SOH_CR_", Cr>>, <<"Z_", C>>, <<"Z_C_", Z>>} |->
        CASE p[1] = "SOH_"    -> "SOH_CR_"
          [] p[1] = "SOH_CR_" -> "SOH_CR_CR_"
          [] p[1] = "Z_"      -> "Z_C_"
          [] p[1] = "Z_C_"    -> "Z_C_Z_"]

WmoHead  == fstate = "SOH_CR_CR_" /\ Byte = Lf
AfosHead == fstate = "Z_C_Z_" /\ Byte = C
EndsHere == \/ fstate = "CR_CR_NL_" /\ Byte = Etx /\ nline > HeadLines
            \/ fstate = "N_N_N_" /\ Byte = N

SeekHeader ==
    /\ Scanning /\ fstate \in Outside /\ ~WmoHead /\ ~AfosHead
    /\ Scan
    /\ fstate' = IF <<fstate, Byte>> \in DOMAIN Onward
                 THEN Onward[<<fstate, Byte>>] ELSE Restart
    /\ UNCHANGED <<input, pc, ifdtyp, nline, nchar, bulls, iret>>

\* The counters are those of the bulletin before.
BugFindHeader ==
    /\ Scanning /\ (WmoHead \/ AfosHead)
    /\ ScanHead(3)
    /\ fstate' = "IN_BULLETIN"
    /\ ifdtyp' = IF WmoHead THEN 0 ELSE 1
    /\ UNCHANGED <<input, pc, nline, nchar, bulls, iret>>

FindHeader ==
    /\ Scanning /\ (WmoHead \/ AfosHead)
    /\ ScanHead(3)
    /\ fstate' = "IN_BULLETIN"
    /\ ifdtyp' = IF WmoHead THEN 0 ELSE 1
    /\ nline' = IF WmoHead THEN 1 ELSE nline
    /\ nchar' = IF WmoHead THEN FALSE ELSE nchar
    /\ UNCHANGED <<input, pc, bulls, iret>>

\* The state that a byte inside a bulletin leads to.
InState ==
    CASE fstate = "IN_BULLETIN" /\ Byte = N /\ ifdtyp = 1 -> "N_"
      [] fstate = "N_" /\ Byte = N                        -> "N_N_"
      [] fstate = "N_N_" /\ Byte = N                      -> "N_N_N_"
      [] fstate \in {"IN_BULLETIN", "CR_CR_NL_"} /\ Byte = Cr -> "CR_"
      [] fstate \in {"CR_", "CR_CR_"} /\ Byte = Cr        -> "CR_CR_"
      [] fstate = "CR_CR_" /\ Byte = Lf                   -> "CR_CR_NL_"
      [] OTHER                                            -> "IN_BULLETIN"

InBulletin ==
    /\ Scanning /\ fstate \in Inside /\ ~EndsHere
    /\ Scan
    /\ fstate' = InState
    /\ nline' = IF InState = "CR_CR_NL_" /\ nchar /\ nline =< HeadLines
                THEN nline + 1 ELSE nline
    /\ nchar' = CASE InState = "CR_CR_NL_" -> FALSE
                  [] InState = "IN_BULLETIN" /\ fstate \notin {"N_", "N_N_", "N_N_N_"}
                     /\ ~(fstate = "IN_BULLETIN" /\ ifdtyp = 1) -> TRUE
                  [] OTHER -> nchar
    /\ UNCHANGED <<input, pc, ifdtyp, bulls, iret>>

Deliver ==
    /\ Scanning /\ fstate \in Inside /\ EndsHere
    /\ ScanTail
    /\ fstate' = "START"
    /\ IF TailAt = bhead THEN /\ Return("EBEMPT")
                              /\ UNCHANGED bulls
       ELSE /\ Return("0")
            /\ bulls' = Append(bulls, Bulletin)
    /\ UNCHANGED <<input, ifdtyp, nline, nchar>>

\* The buffer has been scanned: back to the top of the loop.
EndOfData ==
    /\ pc = "scan" /\ AllScanned
    /\ pc' = Top
    /\ UNCHANGED <<ringvars, input, fstate, ifdtyp, nline, nchar, bulls, iret>>

-----------------------------------------------------------------------------
Running ==
    \/ Call
    \/ Timeout
    \/ Overflow
    \/ Put
    \/ PutMore
    \/ SeekHeader
    \/ FindHeader
    \/ InBulletin
    \/ Deliver
    \/ EndOfData

Decoder == Running \/ ReadFails

Feed == Close \/ \E n \in 1 .. Len(feed) : Send(n)

Next == Decoder \/ Feed

Spec == Init /\ [][Next]_vars

\* The decoder runs whenever it can; the feed may fall silent at any time, and
\* no read has to fail.
FairSpec == Spec /\ WF_vars(Running)

-----------------------------------------------------------------------------
(***************************************************************************)
(* The bulletins in a sequence of bytes, said without a scanner.           *)
(***************************************************************************)
At(s, i, pat) == i > 0 /\ i + Len(pat) - 1 =< Len(s)
                 /\ SubSeq(s, i, i + Len(pat) - 1) = pat

LineEnd == <<Cr, Cr, Lf>>
IsWmo(s, h) == At(s, h, <<Soh, Cr, Cr, Lf>>)
IsAfos(s, h) == At(s, h, <<Z, C, Z, C>>)

(***************************************************************************)
(* The ^A that a search from p on takes for the beginning of a header: not *)
(* one that breaks off a header begun with a ^A that was taken, which the  *)
(* states for that header do not look for.                                 *)
(***************************************************************************)
Taken(s, p) ==
    LET taken[i \in p .. Len(s)] ==
            /\ s[i] = Soh
            /\ \A n \in 1 .. 3 :
                  i - n >= p /\ (\A k \in 1 .. n - 1 : s[i - k] = Cr)
                     => ~taken[i - n]
    IN  taken

\* The first header at or after p begins at h.
IsHead(s, p, h) == (IsWmo(s, h) /\ Taken(s, p)[h]) \/ IsAfos(s, h)

FirstHead(s, p, h) ==
    h \in p .. Len(s) /\ IsHead(s, p, h) /\ \A i \in p .. h - 1 : ~IsHead(s, p, i)

\* The lines with text in them that end between the header and e.
TextLines(s, h, e) ==
    {j \in h + 4 .. e - 3 :
        /\ At(s, j, LineEnd)
        /\ \E k \in h + 4 .. j - 1 :
              /\ s[k] # Cr
              /\ \A i \in h + 4 .. j - 1 :
                    At(s, i, LineEnd) => k > i + 2}

EndsAt(s, h, e) ==
    IF IsWmo(s, h)
    THEN /\ s[e] = Etx /\ At(s, e - 3, LineEnd)
         /\ Cardinality(TextLines(s, h, e)) >= HeadLines
    ELSE e >= h + 7 /\ At(s, e - 3, <<N, N, N, N>>)

(***************************************************************************)
(* In an AFOS bulletin from h to e the states for the end of a line do not *)
(* swallow an N (EndsAtFourN) nor find a ^C.                               *)
(***************************************************************************)
Clean(s, h, e) ==
    \A i \in h + 4 .. e :
        /\ s[i] = N => s[i - 1] # Cr
        /\ s[i] \in {N, Etx} => ~At(s, i - 3, LineEnd)

\* An end that cannot be overlooked.
ClearEnd(s, h, e) == EndsAt(s, h, e) /\ (IsWmo(s, h) \/ Clean(s, h, e))

-----------------------------------------------------------------------------
\* Where the search goes on after the first k bulletins.
After(k) == IF k = 0 THEN 1 ELSE bulls[k][Len(bulls[k])] + 1

(***************************************************************************)
(* A decoder gets the bulletins that the feed wrote, byte for byte and in  *)
(* their order, however they were cut up into reads and wherever they lie  *)
(* in the buffer: the first begins at the first header, each of the others *)
(* at the first header after the end of the one before, and it ends at the *)
(* first end there is.  Of AFOS bulletins only a clean one has to.         *)
(***************************************************************************)
Faithful ==
    \A k \in 1 .. Len(bulls) :
        \E h, e \in 1 .. Len(feed) :
            /\ bulls[k] = [i \in 1 .. e - h + 1 |-> h + i - 1]
            /\ FirstHead(feed, After(k - 1), h)
            /\ e >= h + 4 /\ \A i \in h + 4 .. e - 1 : ~ClearEnd(feed, h, i)
            /\ IsWmo(feed, h) \/ Clean(feed, h, e) => EndsAt(feed, h, e)

(***************************************************************************)
(* Whatever the feed holds, a bulletin is one stretch of the input, and a  *)
(* later bulletin begins after the end of an earlier one: no byte of one   *)
(* turns up in another, though both have lain at the same places.          *)
(***************************************************************************)
Consecutive ==
    \A k \in 1 .. Len(bulls) :
        /\ bulls[k] # <<>>
        /\ \A i \in 1 .. Len(bulls[k]) : bulls[k][i] = bulls[k][1] + i - 1
        /\ \A j \in 1 .. k - 1 : bulls[j][Len(bulls[j])] < bulls[k][1]

\* What begins at h and ends at e is a bulletin.
IsBulletin(s, h, e) ==
    \/ /\ IsWmo(s, h) /\ EndsAt(s, h, e)
       /\ \A i \in h + 4 .. e - 1 : ~EndsAt(s, h, i)
    \/ /\ IsAfos(s, h) /\ e >= h + 7
       /\ At(s, e - 3, <<N, N, N, N>>) \/ At(s, e - 3, <<Cr, Cr, Lf, Etx>>)

(***************************************************************************)
(* Whatever the feed holds, a decoder gets whole bulletins, each after the *)
(* one before: from the four bytes of a header, a WMO bulletin up to the   *)
(* first ^C after a line end that comes after the lines of its header, an  *)
(* AFOS bulletin up to four N or, by the states for the end of a line that *)
(* it shares, a ^C.  Neither what a bulletin before has left in the states *)
(* and counters nor where reads cut the input makes a difference.          *)
(***************************************************************************)
WholeBulletins ==
    /\ Consecutive
    /\ \A k \in 1 .. Len(bulls) :
          IsBulletin(feed, bulls[k][1], bulls[k][Len(bulls[k])])

(***************************************************************************)
(* A decoder that stops for want of input has had every bulletin that was  *)
(* complete in the input it has read: none begins at the first header      *)
(* after the last that was delivered.                                      *)
(***************************************************************************)
NothingLeft ==
    iret \in {"EBTMOUT", "EBEND"} =>
        \A h \in 1 .. fed :
            FirstHead(feed, After(Len(bulls)), h) =>
                \A e \in h + 4 .. fed : ~ClearEnd(feed, h, e)

(***************************************************************************)
(* A decoder whose feed has closed the pipe comes to an end: whatever is   *)
(* left in the buffer, dc_gbul does not go round in its loop without       *)
(* reading.                                                                *)
(***************************************************************************)
Stops == closed ~> pc = "stop"

(***************************************************************************)
(* Help of the decoders, -t: if no data is received within the time limit, *)
(* the program exits.  It may be waiting in select, which has the time     *)
(* limit, and never in a read for ever.                                    *)
(***************************************************************************)
TimesOut == []<>(pc # "more")

(***************************************************************************)
(* dcgbul.c: if there are four N in a row, the bulletin is complete.       *)
(***************************************************************************)
EndsAtFourN ==
    \A k \in 1 .. Len(bulls) :
        LET text == [i \in 1 .. Len(bulls[k]) |-> feed[bulls[k][i]]]
        IN  IsAfos(text, 1) =>
                \A i \in 5 .. Len(text) - 4 : ~At(text, i, <<N, N, N, N>>)

(***************************************************************************)
(* dc.err: -7 is for a buffer that has overflowed with no end of bulletin, *)
(* -9 for the end of the input.  A decoder that is told of the end of its  *)
(* input has read all of it.                                               *)
(***************************************************************************)
EndIsEnd == iret = "EBEND" => closed /\ fed = Len(feed)

=============================================================================

------------------------------- MODULE DMWords -------------------------------
(***************************************************************************)
(* What a program may rely on of the words of its DM files, whatever       *)
(* records are in the cache: it reads the words it wrote last; a file that *)
(* has been flushed or closed holds them; and what is on file at any       *)
(* moment, which is what a crash leaves, is for each record the content it *)
(* has in the program now or what the file had already.                    *)
(*                                                                         *)
(* A read or a write that fails spoils a record, and write access that is  *)
(* given up spoils records of its file.  Of these nothing is promised      *)
(* until the file is opened again; all other records are as if nothing had *)
(* happened.                                                               *)
(***************************************************************************)
CONSTANTS Name, Rec(_), Word, Zero

VARIABLES
    now,    \* the content of each record for the program
    file,   \* the same, on file
    bad,    \* the records that are spoiled
    got     \* what the last step was and read

\* Nothing was read.
Other == got.last = "other"

Init == now = file /\ bad = {} /\ Other

Of(n) == {n} \X Rec(n)

\* The records of n that are not spoiled are for the program what they were.
Same(n) == \A r \in Rec(n) : <<n, r>> \in bad' \/ now'[n][r] = now[n][r]
AllSame == \A n \in Name : Same(n)

\* What a step puts on file, if anything, is the content of that time.
Puts(n, r) ==
    \/ <<n, r>> \in bad'
    \/ file'[n][r] \in {file[n][r], now[n][r], now'[n][r]}

Write(n, r) ==
    /\ Other' /\ bad \subseteq bad'
    /\ \A m \in Name \ {n} : Same(m)
    /\ \A s \in Rec(n) \ {r} : <<n, s>> \in bad' \/ now'[n][s] = now[n][s]
    /\ \/ <<n, r>> \in bad'
       \/ \E w \in Word : now'[n][r] = [now[n][r] EXCEPT ![w] = now'[n][r][w]]

Read(n, r) ==
    /\ bad \subseteq bad' /\ AllSame
    /\ got.last' = "read" /\ <<n, r>> \notin bad' => got'.val = now[n][r]

\* All that was written to a file reaches it.
Flush(n) ==
    /\ Other' /\ bad \subseteq bad' /\ bad' \subseteq bad \cup Of(n)
    /\ AllSame
    /\ \A r \in Rec(n) : <<n, r>> \in bad' \/ file'[n][r] = now[n][r]

\* Nothing of a closed file is left in memory.
Close(n) == Flush(n) /\ now'[n] = file'[n]

Open(n) ==
    /\ Other' /\ now[n] = file[n]
    /\ bad' \cap Of(n) = {} /\ bad \subseteq bad' \cup Of(n)
    /\ AllSame

Create(n) ==
    /\ Other' /\ bad' = bad \ Of(n)
    /\ \A r \in Rec(n) : now'[n][r] = Zero /\ file'[n][r] = Zero
    /\ \A m \in Name \ {n} : Same(m)

GiveUp(n) ==
    /\ Other' /\ bad \subseteq bad' /\ bad' \subseteq bad \cup Of(n)
    /\ now' = now

Crash == got.last' = "crash" /\ now' = file /\ file' = file /\ bad' = {}

Next ==
    /\ \A n \in Name : \A r \in Rec(n) : Puts(n, r)
    /\ \/ \E n \in Name : \E r \in Rec(n) : Read(n, r) \/ Write(n, r)
       \/ \E n \in Name : Flush(n) \/ Close(n) \/ Open(n) \/ Create(n) \/ GiveUp(n)
       \/ Crash

Spec == Init /\ [][Next]_<<now, file, bad, got>>

=============================================================================

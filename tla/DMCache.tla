------------------------------- MODULE DMCache -------------------------------
(***************************************************************************)
(* The records in memory and the file numbers of one program: gemlib/dm,   *)
(* DM_GETF, DM_OPEN, DM_CRET, DM_CLOS, DM_CHNG, DM_RREC, DM_NXTC, DM_RINT, *)
(* DM_WINT, DM_WFLT, DM_FWRT.                                              *)
(*                                                                         *)
(* All open files share MCACHE records, taken in turn.  Integers (DM_WINT) *)
(* are written through: the whole record goes to the file at once.  Reals  *)
(* (DM_WFLT) stay in memory, marked in kwrite, until DM_NXTC needs the     *)
(* place or DM_FWRT flushes the file.                                      *)
(*                                                                         *)
(* An action is one call that reads a record or writes a word of it; a     *)
(* call for several is a sequence of them.  Words of other machines, which *)
(* are translated, are left out, and so are other programs on the same     *)
(* files: a shared file is read and written like any other (FL_RSHR is     *)
(* FL_READ).  FL_READ and FL_WRIT may fail, and a record beyond the end    *)
(* cannot be read.                                                         *)
(*                                                                         *)
(* The program is often not told: DM_RREC drops the return code of DM_NXTC *)
(* and DM_CLOS that of DM_FWRT, so that a record lost on eviction or at    *)
(* the closing of its file leaves a message on the terminal only.  hurt    *)
(* keeps the records this has happened to.                                 *)
(***************************************************************************)
EXTENDS Naturals, FiniteSets

CONSTANTS
    Name,       \* the files
    Foreign,    \* those written on a machine that is not supported
    Size,       \* bound: the records each file may grow to
    Int, Real,  \* the words of a record: those written as integers, as reals
    Val,        \* what may be in a word; 0 is the blank
    MaxFile,    \* MMFILE
    MCache,     \* MCACHE
    MaxHurt,    \* bound: records spoiled by failures or by giving up access
    Absent,     \* a record beyond the end of the file
    Closed      \* lundm < 0

Word == Int \cup Real
Data == [Word -> Val]

ASSUME DMCacheAssumption ==
    /\ Foreign \subseteq Name /\ Closed \notin Name
    /\ Size \in [Name -> Nat \ {0}]
    /\ MaxFile \in Nat \ {0} /\ MCache \in Nat \ {0} /\ MaxHurt \in Nat
    /\ 0 \in Val
    /\ Absent \notin Data

Rec(n) == 1 .. Size[n]
FileNo == 1 .. MaxFile
Slot   == 1 .. MCache
Zero   == [w \in Word |-> 0]
Nothing == [last |-> "other", val |-> Zero]
Died    == [last |-> "crash", val |-> Zero]
Label  == 1             \* the record DM_RLBL reads first

VARIABLES
    disk,                           \* the files
    lundm, wflag,                   \* by file number: file, write access
    held,                           \* file numbers the program was given
    kcflno, kcrecn, kcdata, kwrite, \* the cache
    kclast,                         \* the place taken last
    got,                            \* what the last step was and read
    hurt                            \* records a failure may have spoiled

access == <<lundm, wflag, held>>
cache  == <<kcflno, kcrecn, kcdata, kwrite, kclast>>
vars   == <<disk, lundm, wflag, held, kcflno, kcrecn, kcdata, kwrite,
            kclast, got, hurt>>

TypeOK ==
    /\ \A n \in Name : disk[n] \in [Rec(n) -> Data \cup {Absent}]
    /\ lundm \in [FileNo -> Name \cup {Closed}]
    /\ wflag \in [FileNo -> BOOLEAN]
    /\ held \subseteq FileNo
    /\ kcflno \in [Slot -> FileNo \cup {0}] /\ kcrecn \in [Slot -> Nat]
    /\ kcdata \in [Slot -> Data] /\ kwrite \in [Slot -> BOOLEAN]
    /\ kclast \in Slot \cup {0}
    /\ got \in [last : {"read", "crash", "other"}, val : Data]
    /\ \A h \in hurt : h[1] \in Name /\ h[2] \in Rec(h[1])

\* IN_BDTA: no file is open and no record in memory.  There are no files but
\* the foreign ones.
Init ==
    /\ disk = [n \in Name |-> [r \in Rec(n) |->
                  IF n \in Foreign /\ r = Label THEN Zero ELSE Absent]]
    /\ got = Nothing
    /\ lundm = [f \in FileNo |-> Closed]
    /\ wflag = [f \in FileNo |-> FALSE] /\ held = {}
    /\ kcflno = [k \in Slot |-> 0] /\ kcrecn = [k \in Slot |-> 0]
    /\ kcdata = [k \in Slot |-> Zero] /\ kwrite = [k \in Slot |-> FALSE]
    /\ kclast = 0 /\ hurt = {}

-----------------------------------------------------------------------------
Of(n) == {n} \X Rec(n)

\* FL_READ and FL_WRIT may fail: what h becomes, within the bound.
Hurt(h, x) == {g \in {h \cup {x}} : Cardinality(g) =< MaxHurt}

\* The content of a record, which may not be there yet.
Shown(c) == IF c = Absent THEN Zero ELSE c

\* FL_WRIT: a write beyond the end leaves blank records before it.
Put(d, n, r, data) ==
    [d EXCEPT ![n] = [s \in Rec(n) |-> IF s = r THEN data
                                    ELSE IF s < r THEN Shown(@[s])
                                    ELSE @[s]]]

\* The record a place of the cache holds, and where it is.
Place(k) == <<lundm[kcflno[k]], kcrecn[k]>>
Holding(f, r) == {k \in Slot : kcflno[k] = f /\ kcrecn[k] = r}

\* The place is not written out before it is taken.
BugEvict(k) == {[disk |-> disk, hurt |-> hurt]}

\* DM_NXTC: a place that is to be written is written before it is taken.  A
\* record of no file (see Close) goes to no unit.
Evict(k) ==
    IF ~kwrite[k] \/ kcflno[k] = 0 THEN {[disk |-> disk, hurt |-> hurt]}
    ELSE {[disk |-> Put(disk, Place(k)[1], Place(k)[2], kcdata[k]), hurt |-> hurt]}
         \cup {[disk |-> disk, hurt |-> h] : h \in Hurt(hurt, Place(k))}

(***************************************************************************)
(* DM_RREC: the place of a record of file n, which has the number f, and   *)
(* all that changes on the way: from the cache, or read into the next      *)
(* place; blank if it cannot be read.                                      *)
(***************************************************************************)
Fetch(n, f, r) ==
    LET found == CHOOSE k \in Holding(f, r) : \A j \in Holding(f, r) : k =< j
        next  == IF kclast = MCache THEN 1 ELSE kclast + 1
        Loaded(e, h, data) ==
            [k |-> next, last |-> next, write |-> FALSE, err |-> data = Absent,
             data |-> IF data = Absent THEN Zero ELSE data, disk |-> e.disk, hurt |-> h]
    IN IF Holding(f, r) # {}
       THEN {[k |-> found, last |-> kclast, write |-> kwrite[found], err |-> FALSE,
              data |-> kcdata[found], disk |-> disk, hurt |-> hurt]}
       ELSE UNION {{Loaded(e, e.hurt, e.disk[n][r])}
                   \cup {Loaded(e, h, Absent) : h \in Hurt(e.hurt, <<n, r>>)} : e \in Evict(next)}

\* The cache with data in the place that was fetched.
Install(c, f, r, data, write) ==
    /\ kcflno' = [kcflno EXCEPT ![c.k] = f]
    /\ kcrecn' = [kcrecn EXCEPT ![c.k] = r]
    /\ kcdata' = [kcdata EXCEPT ![c.k] = data]
    /\ kwrite' = [kwrite EXCEPT ![c.k] = write]
    /\ kclast' = c.last

\* DM_RINT, DM_RFLT, for all the words of the record.
Read(f, r) ==
    \E c \in Fetch(lundm[f], f, r) :
        /\ Install(c, f, r, c.data, c.write)
        /\ disk' = c.disk /\ hurt' = c.hurt
        /\ got' = IF c.err THEN Nothing ELSE [last |-> "read", val |-> c.data]
        /\ UNCHANGED access

\* DM_WINT.  A record that could not be read is written as a blank one, and
\* one that could not be written stays in the cache.
WriteInt(f, r, w, v) ==
    \E c \in Fetch(lundm[f], f, r) :
        LET data == [c.data EXCEPT ![w] = v]
        IN  /\ wflag[f]
            /\ Install(c, f, r, data, c.write)
            /\ \/ disk' = Put(c.disk, lundm[f], r, data) /\ hurt' = c.hurt
               \/ disk' = c.disk /\ hurt' \in Hurt(c.hurt, <<lundm[f], r>>)
            /\ got' = Nothing /\ UNCHANGED access

\* The place that was taken last is marked, not that of the record.
BugWriteFlt(f, r, w, v) ==
    \E c \in Fetch(lundm[f], f, r) :
        /\ wflag[f]
        /\ kcflno' = [kcflno EXCEPT ![c.k] = f]
        /\ kcrecn' = [kcrecn EXCEPT ![c.k] = r]
        /\ kcdata' = [kcdata EXCEPT ![c.k] = [c.data EXCEPT ![w] = v]]
        /\ kwrite' = [kwrite EXCEPT ![c.k] = c.write, ![c.last] = TRUE]
        /\ kclast' = c.last
        /\ disk' = c.disk /\ hurt' = c.hurt
        /\ got' = Nothing /\ UNCHANGED access

\* DM_WFLT.
WriteFlt(f, r, w, v) ==
    \E c \in Fetch(lundm[f], f, r) :
        /\ wflag[f]
        /\ Install(c, f, r, [c.data EXCEPT ![w] = v], TRUE)
        /\ disk' = c.disk /\ hurt' = c.hurt
        /\ got' = Nothing /\ UNCHANGED access

-----------------------------------------------------------------------------
\* What DM_FWRT writes, if it may; some of it may fail.
Waiting(f) == {k \in Slot : kwrite[k] /\ kcflno[k] = f /\ wflag[f]}

Written(f, fails) ==
    LET n    == lundm[f]
        done == {k \in Waiting(f) : <<n, kcrecn[k]>> \notin fails}
        last == {s \in Rec(n) : \E k \in done : s =< kcrecn[k]}
    IN [disk EXCEPT ![n] = [s \in Rec(n) |->
           IF \E k \in done : kcrecn[k] = s
           THEN kcdata[CHOOSE k \in done : kcrecn[k] = s]
           ELSE IF s \in last THEN Shown(@[s]) ELSE @[s]]]

Failures(f) ==
    {fails \in SUBSET {Place(k) : k \in Waiting(f)} :
        fails = {} \/ Cardinality(hurt \cup fails) =< MaxHurt}

\* DM_FWRT, which the routines that free space call, and DM_CRET.
Flush(f) ==
    /\ wflag[f]
    /\ \E fails \in Failures(f) :
          disk' = Written(f, fails) /\ hurt' = hurt \cup fails
    /\ kwrite' = [k \in Slot |-> kwrite[k] /\ kcflno[k] # f]
    /\ UNCHANGED <<access, kcflno, kcrecn, kcdata, kclast>>
    /\ got' = Nothing

\* The records stay in the cache under the number.
BugKeep(f) == kcflno

\* The places are marked as lundm is.
BugForget(f) == [k \in Slot |-> IF kcflno[k] = f THEN Closed ELSE kcflno[k]]

\* The places of a file that is closed.
Forget(f) == [k \in Slot |-> IF kcflno[k] = f THEN 0 ELSE kcflno[k]]

\* DM_CLOS.  Without write access DM_FWRT does nothing, and what waits to be
\* written waits on as a record of no file.  (The content of a place of no
\* file and the access of a number not in use, which the code leaves as they
\* are and never reads, are blanked here.)
Close(f) ==
    /\ \E fails \in Failures(f) : disk' = Written(f, fails) /\ hurt' = hurt \cup fails
    /\ lundm' = [lundm EXCEPT ![f] = Closed]
    /\ wflag' = [wflag EXCEPT ![f] = FALSE]
    /\ held' = held \ {f}
    /\ kcflno' = Forget(f)
    /\ kcrecn' = [k \in Slot |-> IF kcflno[k] = f THEN 0 ELSE kcrecn[k]]
    /\ kcdata' = [k \in Slot |-> IF kcflno[k] = f THEN Zero ELSE kcdata[k]]
    /\ kwrite' = [k \in Slot |-> kwrite[k] /\ k \notin Waiting(f)]
    /\ UNCHANGED kclast
    /\ got' = Nothing

-----------------------------------------------------------------------------
\* DM_GETF gives the lowest number that is free.  No program opens a file
\* twice, or again after it was refused.
Gets(f, n) ==
    /\ lundm[f] = Closed /\ \A e \in 1 .. f - 1 : lundm[e] # Closed
    /\ \A e \in FileNo : lundm[e] # n

Grant(f, n, wr) ==
    /\ lundm' = [lundm EXCEPT ![f] = n]
    /\ wflag' = [wflag EXCEPT ![f] = wr]

\* A file whose label cannot be read keeps its number.
BugOpen(f, n, wr) ==
    /\ Gets(f, n)
    /\ \E c \in Fetch(n, f, Label) :
          /\ Install(c, IF c.err THEN 0 ELSE f, Label, c.data, c.write)
          /\ disk' = c.disk
          /\ hurt' = c.hurt \ Of(n)
          /\ Grant(f, n, wr)
          /\ held' = IF c.err \/ (wr /\ n \in Foreign) THEN held ELSE held \cup {f}
    /\ got' = Nothing

\* DM_OPEN.  If the label cannot be read the file is closed again.  A file of
\* an unknown machine is refused for writing, without being closed.
Open(f, n, wr) ==
    /\ Gets(f, n)
    /\ \E c \in Fetch(n, f, Label) :
          /\ Install(c, IF c.err THEN 0 ELSE f, Label, c.data, c.write)
          /\ disk' = c.disk
          /\ hurt' = c.hurt \ Of(n)
          /\ IF c.err THEN UNCHANGED access
             ELSE /\ Grant(f, n, wr)
                  /\ held' = IF wr /\ n \in Foreign THEN held ELSE held \cup {f}
    /\ got' = Nothing

\* DM_CRET, up to the first write (FL_DCRE).
Create(f, n) ==
    /\ Gets(f, n) /\ n \notin Foreign
    /\ disk' = [disk EXCEPT ![n] = [r \in Rec(n) |-> Absent]]
    /\ Grant(f, n, TRUE)
    /\ held' = held \cup {f}
    /\ hurt' = hurt \ Of(n)
    /\ UNCHANGED cache
    /\ got' = Nothing

\* DM_CHNG for a file that is not to be shared: the only request there is
\* (GD_SWRT).  Access is given up without a flush, and what waits is lost
\* unless DM_NXTC gets to it.
Change(f, wr) ==
    /\ wflag' = [wflag EXCEPT ![f] = wr]
    /\ hurt' = hurt \cup (IF wr THEN {} ELSE {Place(k) : k \in Waiting(f)})
    /\ Cardinality(hurt') =< MaxHurt
    /\ UNCHANGED <<disk, lundm, held, cache>>
    /\ got' = Nothing

\* The program dies and is started again.
Crash ==
    /\ lundm' = [f \in FileNo |-> Closed]
    /\ wflag' = [f \in FileNo |-> FALSE] /\ held' = {}
    /\ kcflno' = [k \in Slot |-> 0] /\ kcrecn' = [k \in Slot |-> 0]
    /\ kcdata' = [k \in Slot |-> Zero] /\ kwrite' = [k \in Slot |-> FALSE]
    /\ kclast' = 0 /\ hurt' = {}
    /\ UNCHANGED disk
    /\ got' = Died

-----------------------------------------------------------------------------
Next ==
    \/ \E f \in held : \E r \in Rec(lundm[f]) :
          \/ Read(f, r)
          \/ \E w \in Int, v \in Val : WriteInt(f, r, w, v)
          \/ \E w \in Real, v \in Val : WriteFlt(f, r, w, v)
    \/ \E f \in held : Flush(f) \/ Close(f) \/ Change(f, TRUE) \/ Change(f, FALSE)
    \/ \E f \in FileNo, n \in Name : Create(f, n) \/ Open(f, n, TRUE) \/ Open(f, n, FALSE)
    \/ Crash

Spec == Init /\ [][Next]_vars

-----------------------------------------------------------------------------
(***************************************************************************)
(* No record is in the cache twice, which would let DM_RREC find the older *)
(* copy, and no record of a closed file is found under its number again.   *)
(***************************************************************************)
OneCopy ==
    \A k \in Slot : kcflno[k] # 0 =>
        /\ lundm[kcflno[k]] # Closed
        /\ \A j \in Slot : kcflno[j] = kcflno[k] /\ kcrecn[j] = kcrecn[k] => j = k

(***************************************************************************)
(* A record of the cache that is not marked in kwrite is on file as it is, *)
(* so that DM_NXTC may take its place; unless a call failed on it.         *)
(***************************************************************************)
CleanIsWritten ==
    \A k \in Slot : kcflno[k] # 0 /\ ~kwrite[k] /\ Place(k) \notin hurt =>
        disk[Place(k)[1]][Place(k)[2]] \in {kcdata[k]} \cup (IF kcdata[k] = Zero THEN {Absent} ELSE {})

(***************************************************************************)
(* DM_NXTC and DM_FWRT write only what a number with write access has      *)
(* changed: a record that waits for a number without it, or for none, is   *)
(* one of a file whose access DM_CHNG took away.                           *)
(***************************************************************************)
WaitsWithAccess ==
    \A k \in Slot : kwrite[k] /\ kcflno[k] # 0 =>
        wflag[kcflno[k]] \/ Place(k) \in hurt

(***************************************************************************)
(* A file number that no program holds is free again, but for those of     *)
(* files that were refused for writing (DM_OPEN returns -32).              *)
(***************************************************************************)
NumbersReturn ==
    \A f \in FileNo : lundm[f] # Closed => f \in held \/ (lundm[f] \in Foreign /\ wflag[f])

\* What the program finds in a record.
Seen(n, r) ==
    LET at(k) == kcrecn[k] = r /\ kcflno[k] # 0 /\ lundm[kcflno[k]] = n
    IN IF \E k \in Slot : at(k) THEN kcdata[CHOOSE k \in Slot : at(k)]
       ELSE Shown(disk[n][r])

(***************************************************************************)
(* Whatever records are in the cache and however reads, writes of both     *)
(* kinds, flushes, closings, failures and crashes follow each other, the   *)
(* program reads what it wrote, and each failure spoils its own record.    *)
(***************************************************************************)
Words == INSTANCE DMWords WITH
    now  <- [n \in Name |-> [r \in Rec(n) |-> Seen(n, r)]],
    file <- [n \in Name |-> [r \in Rec(n) |-> Shown(disk[n][r])]],
    bad  <- hurt

ReadsWhatItWrote == Words!Spec

=============================================================================

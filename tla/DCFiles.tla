------------------------------- MODULE DCFiles -------------------------------
(***************************************************************************)
(* The output files of one decoder: bridge/dc, DC_FINT, DC_FCYL, DC_FCLS,  *)
(* and the routines that open a file, DC_OSFC, DC_OSHP, DC_OSFR, DC_OSND   *)
(* and DC_OSNM.                                                            *)
(*                                                                         *)
(* A decoder asks DC_FCYL for a file for each report and writes to the     *)
(* unit it is given.  Up to maxfil files are kept open in a list whose     *)
(* entries are numbered by age, 1 for the oldest.  A unit is a file number *)
(* of DM, the lowest that is free.  What is on the disk is not the         *)
(* decoder's alone, so a file that is opened may turn out to be of any     *)
(* kind, or bad, or not there; but a file is not removed while it is open. *)
(* The file types 1 to 5 are modelled.  Type 6, where the return code of   *)
(* FL_SWOP is overwritten by that of FL_APND, is not.                      *)
(***************************************************************************)
EXTENDS Naturals

CONSTANTS
    MaxFil,     \* maxfil: files kept open, from the command line
    MaxUnit,    \* MMFILE: file numbers there are for them
    File,       \* names a decoder asks for; none is blank
    NoFile      \* a blank name

\* The name f with an 'A' at its end, which DC_OSND and DC_OSNM make of f.
Plus(f) == <<f, "A">>
Name    == File \cup {Plus(f) : f \in File}

ASSUME DCFilesAssumption ==
    /\ MaxFil \in Nat \ {0} /\ MaxUnit \in Nat
    /\ NoFile \notin Name /\ \A f \in File : Plus(f) \notin File

VARIABLES
    iftype,                 \* the type of the files, for the decoder's life
    filopn, lunopn, numopn, \* the list: name, unit and age of each entry
    unit,                   \* the file open on each unit
    lost,                   \* units left open by DM_OPEN, closed for SF and SN
    file, lun, ok,          \* the last request: file, unit given, iret = 0
    stale                   \* history: a closed unit has been given

list   == <<filopn, lunopn, numopn>>
vars   == <<iftype, filopn, lunopn, numopn, unit, lost, file, lun, ok, stale>>

Entry  == 1 .. MaxFil
Unit   == 1 .. MaxUnit
NoUnit == 0

TypeOK ==
    /\ iftype \in {"surface", "unmerged", "merged"}
    /\ filopn \in [Entry -> Name \cup {NoFile}]
    /\ lunopn \in [Entry -> Unit \cup {NoUnit}]
    /\ numopn \in [Entry -> 0 .. MaxFil]
    /\ unit \in [Unit -> Name \cup {NoFile}]
    /\ lost \in SUBSET Unit
    /\ file \in File \cup {NoFile}
    /\ lun \in Unit \cup {NoUnit}
    /\ ok \in BOOLEAN /\ stale \in BOOLEAN

\* DC_FINT: types 1, 2 and 5 are surface files, 3 and 4 soundings.
Init ==
    /\ iftype \in {"surface", "unmerged", "merged"}
    /\ filopn = [i \in Entry |-> NoFile]
    /\ lunopn = [i \in Entry |-> NoUnit]
    /\ numopn = [i \in Entry |-> 0]
    /\ unit = [u \in Unit |-> NoFile] /\ lost = {}
    /\ file = NoFile /\ lun = NoUnit /\ ok = FALSE /\ stale = FALSE

-----------------------------------------------------------------------------
\* SF_CLOS and SN_CLOS for the units S: a lost one is not open for them.
Closed(S) == [v \in Unit |-> IF v \in S \ lost THEN NoFile ELSE unit[v]]

\* The units us once f has been opened on u.
Attach(us, u, f) == [v \in Unit |-> IF v = u THEN f ELSE us[v]]

\* DM_GETF: the lowest file number that is free, if there is one.
Lowest(us) ==
    {u \in Unit : us[u] = NoFile /\ \A v \in 1 .. u - 1 : us[v] # NoFile}

\* What opening a file may come to: the units then open and lost, the unit
\* given, and the name by which DC_FCYL will list it, blank for iret # 0.
Result(us, ls, u, n) == [unit |-> us, lost |-> ls, lun |-> u, name |-> n]

Success(us, ls, n) == {Result(Attach(us, u, n), ls, u, n) : u \in Lowest(us)}

\* SF_OFIL and SN_OFIL close a file they cannot use, but not one that DM_OPEN
\* refused for its machine, which DM_OPEN does not close either.
Failure(us, f) ==
    {Result(us, lost, NoUnit, NoFile)} \cup
    {Result(Attach(us, u, f), lost \cup {u}, NoUnit, NoFile) : u \in Lowest(us)}

\* DC_OSFC, DC_OSHP and DC_OSFR: the file is opened, or created if absent.
OpenSurface(us, f) == Failure(us, f) \cup Success(us, lost, f)

\* The merged file is left open when another is made in its place.
BugOpenUnmerged(us, f) ==
    Failure(us, f) \cup Success(us, lost, f) \cup
    UNION {Success(o.unit, lost, Plus(f)) : o \in Success(us, lost, f)}

\* DC_OSND: the same, but for a merged file, which is closed, another name is
\* tried, and its file created if there is none.  Where SN_OPNR failed that
\* may be tried, too: mrgdat then has no value.
OpenUnmerged(us, f) ==
    Failure(us, f) \cup Success(us, lost, f) \cup
    IF \E u \in Unit : us[u] = Plus(f) THEN {}
    ELSE UNION {Success(o.unit, o.lost, Plus(f)) : o \in Failure(us, f)}

\* DC_OSNM: an unmerged file is closed, and its unit given under another name.
OpenMerged(us, f) ==
    Failure(us, f) \cup Success(us, lost, f) \cup
    {Result(us, lost, u, Plus(f)) : u \in Lowest(us)}

Opening(us, f) ==
    CASE iftype = "surface"  -> OpenSurface(us, f)
      [] iftype = "unmerged" -> OpenUnmerged(us, f)
      [] iftype = "merged"   -> OpenMerged(us, f)

\* DC_FCYL returns to the decoder what opening f came to.
Answer(f, o) ==
    /\ unit' = o.unit /\ lost' = o.lost
    /\ file' = f /\ lun' = o.lun /\ ok' = (o.name # NoFile)
    /\ stale' = (stale \/ \E u \in Unit : u = o.lun /\ o.unit[u] = NoFile)
    /\ UNCHANGED iftype

\* The loops stop at the first entry they look for.
First(i, S) == i \in S /\ \A j \in S : i =< j
Holding(f)  == {i \in Entry : filopn[i] = f}
Unused      == {i \in Entry : numopn[i] = 0}

\* A file used again becomes the youngest.
BugMatch(f) ==
    \E i \in Holding(f), k \in {numopn[j] : j \in Entry} :
        /\ \A j \in Entry : numopn[j] =< k
        /\ file' = f /\ lun' = lunopn[i] /\ ok' = TRUE
        /\ numopn' = [j \in Entry |-> IF j = i THEN k
                                      ELSE IF numopn[j] > numopn[i] THEN numopn[j] - 1
                                      ELSE numopn[j]]
        /\ UNCHANGED <<iftype, filopn, lunopn, unit, lost, stale>>

\* DC_FCYL, the file is in the list.
Match(f) ==
    \E i \in Entry :
        /\ First(i, Holding(f))
        /\ file' = f /\ lun' = lunopn[i] /\ ok' = TRUE
        /\ UNCHANGED <<iftype, list, unit, lost, stale>>

\* DC_FCYL, an entry is unused: it takes the file, as the youngest.
OpenUnused(f) ==
    /\ Holding(f) = {}
    /\ \E i \in Entry, k \in {numopn[j] + 1 : j \in Entry}, o \in Opening(unit, f) :
          /\ First(i, Unused)
          /\ \A j \in Entry : numopn[j] < k
          /\ Answer(f, o)
          /\ IF o.name = NoFile THEN UNCHANGED list
             ELSE /\ filopn' = [filopn EXCEPT ![i] = o.name]
                  /\ lunopn' = [lunopn EXCEPT ![i] = o.lun]
                  /\ numopn' = [numopn EXCEPT ![i] = k]

\* The entry keeps its name and unit when the new file does not open.
BugReplaceKeeps(f) ==
    /\ Holding(f) = {} /\ Unused = {}
    /\ \E i \in {j \in Entry : numopn[j] = 1} : \E o \in Opening(Closed({lunopn[i]}), f) :
          /\ Answer(f, o)
          /\ IF o.name = NoFile THEN UNCHANGED list
             ELSE /\ filopn' = [filopn EXCEPT ![i] = o.name]
                  /\ lunopn' = [lunopn EXCEPT ![i] = o.lun]
                  /\ numopn' = [j \in Entry |-> IF j = i THEN MaxFil ELSE numopn[j] - 1]

\* The others grow older only when the new file opens.
BugReplaceCounts(f) ==
    /\ Holding(f) = {} /\ Unused = {}
    /\ \E i \in {j \in Entry : numopn[j] = 1} : \E o \in Opening(Closed({lunopn[i]}), f) :
          /\ Answer(f, o)
          /\ filopn' = [filopn EXCEPT ![i] = o.name]
          /\ lunopn' = [lunopn EXCEPT ![i] = o.lun]
          /\ numopn' = [j \in Entry |->
                           IF o.name = NoFile THEN (IF j = i THEN 0 ELSE numopn[j])
                           ELSE IF j = i THEN MaxFil ELSE numopn[j] - 1]

\* DC_FCYL, the list is full: the oldest file is closed and its entry taken,
\* or left unused if the new file does not open.  The others grow older.
ReplaceOldest(f) ==
    /\ Holding(f) = {} /\ Unused = {}
    /\ \E i \in {j \in Entry : numopn[j] = 1} : \E o \in Opening(Closed({lunopn[i]}), f) :
          /\ Answer(f, o)
          /\ filopn' = [filopn EXCEPT ![i] = o.name]
          /\ lunopn' = [lunopn EXCEPT ![i] = o.lun]
          /\ numopn' = [j \in Entry |->
                           IF j # i THEN numopn[j] - 1
                           ELSE IF o.name # NoFile THEN MaxFil ELSE 0]

\* DC_FCLS: every entry with a unit is closed and cleared.
CloseAll ==
    LET with == {i \in Entry : lunopn[i] # NoUnit}
    IN  /\ unit' = Closed({lunopn[i] : i \in with})
        /\ filopn' = [i \in Entry |-> IF i \in with THEN NoFile ELSE filopn[i]]
        /\ lunopn' = [i \in Entry |-> NoUnit]
        /\ numopn' = [i \in Entry |-> IF i \in with THEN 0 ELSE numopn[i]]
        /\ ok' = FALSE
        /\ UNCHANGED <<iftype, lost, file, lun, stale>>

Next ==
    \/ \E f \in File : Match(f) \/ OpenUnused(f) \/ ReplaceOldest(f)
    \/ CloseAll

Spec == Init /\ [][Next]_vars

-----------------------------------------------------------------------------
(***************************************************************************)
(* The ages of the entries in use are 1, 2, ... without gap or repetition: *)
(* DC_FCYL finds the file to close, and only one, by the age 1, and counts *)
(* the ages up and down separately at every opening, closing and failure.  *)
(***************************************************************************)
Ages ==
    \A i \in Entry : numopn[i] # 0 =>
        /\ \A j \in Entry : numopn[j] = numopn[i] => j = i
        /\ \A n \in 1 .. numopn[i] : \E j \in Entry : numopn[j] = n

(***************************************************************************)
(* No unit is left open but those that DM_OPEN loses, whatever opening,    *)
(* closing and failing the entries went through.  And as long as DC_OSNM   *)
(* has not given a closed unit, none is thought to be open that is not:    *)
(* each entry in use has a unit of its own on which its file is open, and  *)
(* no file is open twice.                                                  *)
(***************************************************************************)
ListIsUnits ==
    /\ \A u \in Unit : unit[u] # NoFile => u \in lost \/ \E i \in Entry : lunopn[i] = u
    /\ \A i \in Entry :
          /\ filopn[i] # NoFile <=> numopn[i] # 0
          /\ filopn[i] # NoFile <=> lunopn[i] # NoUnit
    /\ ~stale => \A i \in Entry : filopn[i] # NoFile =>
          /\ lunopn[i] \notin lost /\ unit[lunopn[i]] = filopn[i]
          /\ \A j \in Entry : filopn[j] = filopn[i] => j = i

(***************************************************************************)
(* A decoder that was told it has its file writes to that file until it    *)
(* asks for another, whether the file was found in the list, opened or put *)
(* in the place of another: to the file it asked for, or where that is a   *)
(* merged sounding and DC_OSND was to open an unmerged one, to the file    *)
(* with an 'A' at the end of its name.  It holds until DC_OSNM gives a     *)
(* closed unit; from then on reports may go to another file.               *)
(***************************************************************************)
WritesToItsFile ==
    ok /\ ~stale => /\ lun \in Unit \ lost
                   /\ \/ unit[lun] = file
                      \/ iftype = "unmerged" /\ unit[lun] = Plus(file)

(***************************************************************************)
(* The list is a queue of files in the order of their opening, which is    *)
(* nowhere written down but in the ages.  This holds of its names, also    *)
(* when the unit of one has been closed.                                   *)
(***************************************************************************)
Open == INSTANCE DCOpenFiles WITH
    Max <- MaxFil,
    Called <- [f \in File |-> {f, Plus(f)}],
    opened <- [n \in {numopn[i] : i \in Entry} \ {0} |->
                  filopn[CHOOSE i \in Entry : numopn[i] = n]]

OldestGivesWay == Open!Spec

=============================================================================

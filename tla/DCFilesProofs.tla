---------------------------- MODULE DCFilesProofs ----------------------------
(***************************************************************************)
(* Proofs about DCFiles, for a list of any size, any number of units and   *)
(* any files, of each of the types modelled.                               *)
(***************************************************************************)
EXTENDS DCFiles, FiniteSetTheorems, SequenceTheorems, TLAPS

\* A unit that was lost stays open.
LostOpen == \A u \in lost : unit[u] # NoFile

Inv == TypeOK /\ Ages /\ ListIsUnits /\ WritesToItsFile /\ LostOpen

LEMMA Constants ==
  /\ MaxFil \in Nat \ {0} /\ MaxUnit \in Nat
  /\ NoFile \notin Name /\ NoUnit \notin Unit
  /\ Entry \subseteq Nat \ {0} /\ Unit \subseteq Nat \ {0}
  /\ \A n \in 1 .. MaxFil : n \in Entry
BY DCFilesAssumption DEF Entry, Unit, NoUnit

LEMMA Names ==
  ASSUME NEW f \in File
  PROVE  f \in Name /\ Plus(f) \in Name /\ f # NoFile /\ Plus(f) # NoFile /\ Plus(f) # f
BY DCFilesAssumption DEF Name

-----------------------------------------------------------------------------
\* While an entry is unused no age is as great as the list: otherwise the
\* other entries would have all the ages.
LEMMA RoomForAge ==
  ASSUME TypeOK, Ages, NEW i \in Unused, NEW j \in Entry
  PROVE  numopn[j] < MaxFil
<1>1. numopn \in [Entry -> 0 .. MaxFil] /\ i \in Entry /\ numopn[i] = 0
  BY DEF TypeOK, Unused
<1> SUFFICES ASSUME numopn[j] = MaxFil PROVE FALSE
  BY <1>1, Constants
<1> DEFINE others == Entry \ {i}
           g == [n \in Entry |-> CHOOSE e \in Entry : numopn[e] = n]
<1>2. \A n \in Entry : \E e \in Entry : numopn[e] = n
  BY <1>1, Constants DEF Ages, Entry
<1>3. \A n \in Entry : g[n] \in Entry /\ numopn[g[n]] = n
  BY <1>2
<1>4. g \in [Entry -> others]
  BY <1>1, <1>3, Constants
<1>5. IsFiniteSet(Entry) /\ Cardinality(Entry) = MaxFil
  BY FS_Interval, Constants DEF Entry
<1>6. IsFiniteSet(others) /\ Cardinality(others) = MaxFil - 1
  BY <1>1, <1>5, FS_RemoveElement
<1>7. Cardinality(others) < Cardinality(Entry)
  BY <1>5, <1>6, Constants
<1> HIDE DEF g, others
<1>8. PICK x, y \in Entry : x # y /\ g[x] = g[y]
  BY <1>4, <1>5, <1>6, <1>7, FS_PigeonHole
<1> QED BY <1>3, <1>8

\* In a full list every age occurs.
LEMMA FullList ==
  ASSUME TypeOK, Ages, Unused = {}, NEW n \in Entry
  PROVE  \E e \in Entry : numopn[e] = n
<1> SUFFICES ASSUME \A e \in Entry : numopn[e] # n PROVE FALSE
  OBVIOUS
<1> DEFINE rest == Entry \ {n}
<1>1. numopn \in [Entry -> rest]
  <2>1. \A e \in Entry : numopn[e] \in 0 .. MaxFil /\ numopn[e] # 0
    BY DEF TypeOK, Unused
  <2>2. \A e \in Entry : numopn[e] \in rest
    BY <2>1, Constants DEF Entry
  <2> QED BY <2>2 DEF TypeOK
<1>2. IsFiniteSet(Entry) /\ Cardinality(Entry) = MaxFil
  BY FS_Interval, Constants DEF Entry
<1>3. IsFiniteSet(rest) /\ Cardinality(rest) = MaxFil - 1
  BY <1>2, FS_RemoveElement
<1>4. Cardinality(rest) < Cardinality(Entry)
  BY <1>2, <1>3, Constants
<1> HIDE DEF rest
<1>5. PICK x, y \in Entry : x # y /\ numopn[x] = numopn[y]
  BY <1>1, <1>2, <1>3, <1>4, FS_PigeonHole
<1> QED BY <1>5 DEF Ages, Unused

-----------------------------------------------------------------------------
(***************************************************************************)
(* What opening a file does to the units us, when ls are lost.             *)
(***************************************************************************)
Valid(us, ls) ==
    /\ us \in [Unit -> Name \cup {NoFile}] /\ ls \in SUBSET Unit
    /\ \A v \in ls : us[v] # NoFile

\* What was open stays open; what is open besides is lost or given.
Keeps(us, ls, o) ==
    /\ Valid(o.unit, o.lost) /\ ls \subseteq o.lost
    /\ \A v \in Unit : us[v] # NoFile => o.unit[v] = us[v]
    /\ \A v \in Unit : o.unit[v] # NoFile => us[v] # NoFile \/ v \in o.lost \/ v = o.lun
    /\ \A v \in o.lost : v \in ls \/ us[v] = NoFile

\* A free unit is given, open on n or closed.
Gives(us, o, n) ==
    /\ o.name = n /\ o.lun \in Unit /\ us[o.lun] = NoFile
    /\ o.unit[o.lun] = n /\ o.lun \notin o.lost

GivesClosed(us, o, n) ==
    /\ o.name = n /\ o.lun \in Unit /\ us[o.lun] = NoFile /\ o.unit[o.lun] = NoFile

GivesNone(o) == o.name = NoFile /\ o.lun = NoUnit

LEMMA SuccessFacts ==
  ASSUME NEW us, NEW ls, Valid(us, ls), NEW n \in Name, NEW o \in Success(us, ls, n)
  PROVE  Keeps(us, ls, o) /\ Gives(us, o, n)
<1>1. PICK u \in Lowest(us) : o = Result(Attach(us, u, n), ls, u, n)
  BY DEF Success
<1>2. u \in Unit /\ us[u] = NoFile
  BY DEF Lowest
<1>3. o.unit = Attach(us, u, n) /\ o.lost = ls /\ o.lun = u /\ o.name = n
  BY <1>1 DEF Result
<1>4. \A v \in Unit : o.unit[v] = IF v = u THEN n ELSE us[v]
  BY <1>3 DEF Attach
<1>5. n # NoFile
  BY Constants
<1>6. u \notin ls
  BY <1>2 DEF Valid
<1>7. o.unit \in [Unit -> Name \cup {NoFile}]
  BY <1>3 DEF Attach, Valid
<1>8. Valid(o.unit, o.lost)
  BY <1>3, <1>4, <1>5, <1>7 DEF Valid
<1> QED BY <1>2, <1>3, <1>4, <1>6, <1>8 DEF Keeps, Gives

LEMMA FailureFacts ==
  ASSUME NEW us, Valid(us, lost), NEW f \in Name, NEW o \in Failure(us, f)
  PROVE  Keeps(us, lost, o) /\ GivesNone(o)
<1>1. CASE o = Result(us, lost, NoUnit, NoFile)
  <2>1. o.unit = us /\ o.lost = lost /\ o.lun = NoUnit /\ o.name = NoFile
    BY <1>1 DEF Result
  <2> QED BY <2>1 DEF Keeps, GivesNone
<1>2. ASSUME NEW u \in Lowest(us), o = Result(Attach(us, u, f), lost \cup {u}, NoUnit, NoFile)
      PROVE  Keeps(us, lost, o) /\ GivesNone(o)
  <2>1. u \in Unit /\ us[u] = NoFile
    BY DEF Lowest
  <2>2. /\ o.unit = Attach(us, u, f) /\ o.lost = lost \cup {u}
        /\ o.lun = NoUnit /\ o.name = NoFile
    BY <1>2 DEF Result
  <2>3. \A v \in Unit : o.unit[v] = IF v = u THEN f ELSE us[v]
    BY <2>2 DEF Attach
  <2>4. f # NoFile
    BY Constants
  <2>5. o.unit \in [Unit -> Name \cup {NoFile}]
    BY <2>2 DEF Attach, Valid
  <2>6. Valid(o.unit, o.lost)
    BY <2>1, <2>2, <2>3, <2>4, <2>5 DEF Valid
  <2> QED BY <2>1, <2>2, <2>3, <2>6 DEF Keeps, GivesNone
<1> QED BY <1>1, <1>2 DEF Failure

\* A file that does not open, and then another that does.
LEMMA ThenSuccessFacts ==
  ASSUME NEW us, Valid(us, lost), NEW f \in Name, NEW x \in Failure(us, f),
         NEW n \in Name, NEW o \in Success(x.unit, x.lost, n)
  PROVE  Keeps(us, lost, o) /\ Gives(us, o, n)
<1>1. Keeps(us, lost, x) /\ GivesNone(x)
  BY FailureFacts
<1>2. Keeps(x.unit, x.lost, o) /\ Gives(x.unit, o, n)
  BY <1>1, SuccessFacts DEF Keeps
<1>3. x.lun \notin Unit
  BY <1>1, Constants DEF GivesNone
<1>4. \A v \in Unit : us[v] # NoFile => o.unit[v] = us[v] /\ x.unit[v] # NoFile
  BY <1>1, <1>2 DEF Keeps
<1>5. \A v \in Unit : x.unit[v] # NoFile => us[v] # NoFile \/ v \in o.lost
  BY <1>1, <1>2, <1>3 DEF Keeps
<1>6. \A v \in Unit : o.unit[v] # NoFile => us[v] # NoFile \/ v \in o.lost \/ v = o.lun
  BY <1>2, <1>5 DEF Keeps
<1>7. \A v \in o.lost : v \in lost \/ us[v] = NoFile
  BY <1>1, <1>2, <1>4 DEF Keeps, Valid
<1>8. lost \subseteq o.lost /\ Valid(o.unit, o.lost)
  BY <1>1, <1>2 DEF Keeps
<1>9. o.lun \in Unit /\ us[o.lun] = NoFile
  BY <1>2, <1>4 DEF Gives
<1> QED BY <1>2, <1>4, <1>6, <1>7, <1>8, <1>9 DEF Keeps, Gives

\* What opening f may come to, for each type.
LEMMA OpeningFacts ==
  ASSUME TypeOK, NEW us, Valid(us, lost), NEW f \in File, NEW o \in Opening(us, f)
  PROVE  /\ Keeps(us, lost, o)
         /\ \/ GivesNone(o)
            \/ Gives(us, o, f)
            \/ /\ iftype = "unmerged" /\ Gives(us, o, Plus(f))
               /\ \A v \in Unit : us[v] # Plus(f)
            \/ GivesClosed(us, o, Plus(f))
<1>1. f \in Name /\ Plus(f) \in Name
  BY Names
<1>2. ASSUME o \in Failure(us, f) PROVE Keeps(us, lost, o) /\ GivesNone(o)
  BY <1>1, <1>2, FailureFacts
<1>3. ASSUME o \in Success(us, lost, f) PROVE Keeps(us, lost, o) /\ Gives(us, o, f)
  BY <1>1, <1>3, SuccessFacts
<1>4. CASE iftype = "surface"
  BY <1>2, <1>3, <1>4 DEF Opening, OpenSurface
<1>5. CASE iftype = "unmerged"
  <2>1. o \in OpenUnmerged(us, f)
    BY <1>5 DEF Opening
  <2>2. ASSUME o \notin Failure(us, f), o \notin Success(us, lost, f)
        PROVE  /\ Keeps(us, lost, o) /\ Gives(us, o, Plus(f))
               /\ \A v \in Unit : us[v] # Plus(f)
    <3>1. /\ \A v \in Unit : us[v] # Plus(f)
          /\ \E x \in Failure(us, f) : o \in Success(x.unit, x.lost, Plus(f))
      BY <2>1, <2>2 DEF OpenUnmerged
    <3> QED BY <1>1, <3>1, ThenSuccessFacts
  <2> QED BY <1>2, <1>3, <1>5, <2>2
<1>6. CASE iftype = "merged"
  <2>1. o \in OpenMerged(us, f)
    BY <1>6 DEF Opening
  <2>2. ASSUME NEW u \in Lowest(us), o = Result(us, lost, u, Plus(f))
        PROVE  Keeps(us, lost, o) /\ GivesClosed(us, o, Plus(f))
    <3>1. u \in Unit /\ us[u] = NoFile
      BY DEF Lowest
    <3>2. o.unit = us /\ o.lost = lost /\ o.lun = u /\ o.name = Plus(f)
      BY <2>2 DEF Result
    <3> QED BY <3>1, <3>2 DEF Keeps, GivesClosed
  <2> QED BY <1>2, <1>3, <2>1, <2>2 DEF OpenMerged
<1> QED BY <1>4, <1>5, <1>6 DEF TypeOK

LEMMA InitInv == Init => Inv
<1> SUFFICES ASSUME Init PROVE Inv
  OBVIOUS
<1>1. TypeOK
  <2>1. 0 \in 0 .. MaxFil
    BY Constants
  <2>2. numopn \in [Entry -> 0 .. MaxFil]
    BY <2>1 DEF Init
  <2> QED BY <2>2 DEF Init, TypeOK
<1>2. Ages
  BY Constants DEF Init, Ages
<1>3. ListIsUnits
  BY Constants DEF Init, ListIsUnits
<1>4. WritesToItsFile /\ LostOpen
  BY DEF Init, WritesToItsFile, LostOpen
<1> QED BY <1>1, <1>2, <1>3, <1>4 DEF Inv

\* A file in the list: the list is what it was, and the entry has its unit.
LEMMA MatchInv ==
  ASSUME Inv, NEW f \in File, Match(f)
  PROVE  Inv'
<1> USE DEF Inv
<1>1. PICK i \in Entry : filopn[i] = f /\ lun' = lunopn[i]
  BY DEF Match, First, Holding
<1>2. /\ filopn' = filopn /\ lunopn' = lunopn /\ numopn' = numopn /\ unit' = unit
      /\ iftype' = iftype /\ lost' = lost /\ stale' = stale
      /\ file' = f /\ ok' = TRUE
  BY DEF Match, list
<1>3. /\ lun' \in Unit
      /\ ~stale => lun' \notin lost /\ unit[lun'] = f
  <2>1. f # NoFile
    BY Names
  <2>2. lunopn[i] # NoUnit /\ (~stale => lunopn[i] \notin lost /\ unit[lunopn[i]] = f)
    BY <1>1, <2>1 DEF ListIsUnits
  <2>3. lunopn[i] \in Unit \cup {NoUnit}
    BY DEF TypeOK
  <2> QED BY <1>1, <2>2, <2>3
<1>4. TypeOK'
  BY <1>2, <1>3 DEF TypeOK
<1>5. Ages' /\ ListIsUnits' /\ LostOpen'
  BY <1>2 DEF Ages, ListIsUnits, LostOpen
<1>6. WritesToItsFile'
  BY <1>2, <1>3 DEF WritesToItsFile
<1> QED BY <1>4, <1>5, <1>6

-----------------------------------------------------------------------------
\* What comes of opening f is entered as i, in a list without it: us are the
\* units once that of i has been closed, where i had one.
LEMMA EnterUnits ==
  ASSUME TypeOK, ListIsUnits, LostOpen, NEW f \in File, Holding(f) = {},
         NEW i \in Entry, NEW us, us = Closed({lunopn[i]}),
         NEW o \in Opening(us, f), Answer(f, o),
         filopn' = [filopn EXCEPT ![i] = o.name],
         lunopn' = [lunopn EXCEPT ![i] = o.lun],
         numopn' \in [Entry -> 0 .. MaxFil],
         \A j \in Entry : numopn'[j] = 0 <=> IF j = i THEN o.name = NoFile ELSE numopn[j] = 0
  PROVE  TypeOK' /\ ListIsUnits' /\ WritesToItsFile' /\ LostOpen'
<1>1. \A v \in Unit : us[v] = IF v = lunopn[i] /\ v \notin lost THEN NoFile ELSE unit[v]
  BY DEF Closed
<1>2. Valid(us, lost)
  <2>1. us \in [Unit -> Name \cup {NoFile}]
    BY DEF Closed, TypeOK
  <2> QED BY <2>1, <1>1 DEF Valid, TypeOK, LostOpen
<1>3. Keeps(us, lost, o)
  BY <1>2, OpeningFacts
<1>4. \/ GivesNone(o)
      \/ Gives(us, o, f)
      \/ iftype = "unmerged" /\ Gives(us, o, Plus(f)) /\ \A v \in Unit : us[v] # Plus(f)
      \/ GivesClosed(us, o, Plus(f))
  BY <1>2, OpeningFacts
<1>5. f \in Name /\ Plus(f) \in Name /\ f # NoFile /\ Plus(f) # NoFile
  BY Names
<1>6. /\ o.lun \in Unit \cup {NoUnit} /\ o.name \in Name \cup {NoFile}
      /\ o.name # NoFile <=> o.lun # NoUnit
  BY <1>4, <1>5, Constants DEF GivesNone, Gives, GivesClosed
<1>7. /\ unit' = o.unit /\ lost' = o.lost /\ file' = f /\ lun' = o.lun
      /\ ok' = (o.name # NoFile) /\ iftype' = iftype
      /\ stale' = (stale \/ \E u \in Unit : u = o.lun /\ o.unit[u] = NoFile)
  BY DEF Answer
<1>8. \A j \in Entry : /\ filopn'[j] = (IF j = i THEN o.name ELSE filopn[j])
                       /\ lunopn'[j] = (IF j = i THEN o.lun ELSE lunopn[j])
  BY DEF TypeOK
<1>9. TypeOK'
  <2>1. filopn' \in [Entry -> Name \cup {NoFile}] /\ lunopn' \in [Entry -> Unit \cup {NoUnit}]
    BY <1>6 DEF TypeOK
  <2>2. unit' \in [Unit -> Name \cup {NoFile}] /\ lost' \in SUBSET Unit
    BY <1>3, <1>7 DEF Keeps, Valid
  <2>3. ok' \in BOOLEAN /\ stale' \in BOOLEAN
    BY <1>7 DEF TypeOK
  <2> QED BY <1>6, <1>7, <2>1, <2>2, <2>3 DEF TypeOK
<1>10. LostOpen'
  BY <1>3, <1>7 DEF LostOpen, Keeps, Valid
<1>11. ~stale' => ~stale /\ ~GivesClosed(us, o, Plus(f))
  BY <1>7 DEF GivesClosed
<1>12. WritesToItsFile'
  <2> SUFFICES ASSUME ok', ~stale'
               PROVE  /\ lun' \in Unit \ lost'
                      /\ unit'[lun'] = file' \/ (iftype' = "unmerged" /\ unit'[lun'] = Plus(file'))
    BY DEF WritesToItsFile
  <2>1. o.name # NoFile
    BY <1>7
  <2>2. Gives(us, o, f) \/ (iftype = "unmerged" /\ Gives(us, o, Plus(f)))
    BY <1>4, <1>11, <2>1 DEF GivesNone
  <2>3. o.lun \in Unit \ o.lost
    BY <2>2 DEF Gives
  <2>4. o.unit[o.lun] = f \/ (iftype = "unmerged" /\ o.unit[o.lun] = Plus(f))
    BY <2>2 DEF Gives
  <2> QED BY <2>3, <2>4, <1>7
<1>13. ASSUME NEW v \in Unit, unit'[v] # NoFile
       PROVE  v \in lost' \/ \E j \in Entry : lunopn'[j] = v
  <2>1. us[v] # NoFile \/ v \in o.lost \/ v = o.lun
    BY <1>3, <1>7, <1>13 DEF Keeps
  <2>2. CASE us[v] # NoFile /\ v \notin o.lost
    <3>1. v \notin lost
      BY <2>2, <1>3 DEF Keeps
    <3>2. unit[v] # NoFile /\ v # lunopn[i]
      BY <2>2, <3>1, <1>1
    <3>3. PICK j \in Entry : lunopn[j] = v
      BY <3>1, <3>2 DEF ListIsUnits
    <3> QED BY <3>2, <3>3, <1>8
  <2>3. CASE v = o.lun
    BY <2>3, <1>8
  <2> QED BY <2>1, <2>2, <2>3, <1>7
<1>14. ASSUME NEW j \in Entry
       PROVE  /\ filopn'[j] # NoFile <=> numopn'[j] # 0
              /\ filopn'[j] # NoFile <=> lunopn'[j] # NoUnit
  <2>1. CASE j = i
    BY <2>1, <1>6, <1>8
  <2>2. CASE j # i
    <3>1. /\ filopn[j] # NoFile <=> numopn[j] # 0
          /\ filopn[j] # NoFile <=> lunopn[j] # NoUnit
      BY DEF ListIsUnits
    <3> QED BY <2>2, <3>1, <1>8
  <2> QED BY <2>1, <2>2
<1>15. ASSUME ~stale', NEW j \in Entry, j # i, filopn[j] # NoFile
       PROVE  /\ lunopn[j] \notin lost' /\ unit'[lunopn[j]] = filopn[j]
              /\ filopn[j] # o.name
  <2>1. /\ lunopn[j] # NoUnit /\ lunopn[j] \notin lost /\ unit[lunopn[j]] = filopn[j]
        /\ \A k \in Entry : filopn[k] = filopn[j] => k = j
    BY <1>11, <1>15 DEF ListIsUnits
  <2>2. lunopn[j] \in Unit
    BY <2>1 DEF TypeOK
  <2>3. lunopn[j] # lunopn[i]
    <3> SUFFICES ASSUME lunopn[j] = lunopn[i] PROVE FALSE
      OBVIOUS
    <3>1. filopn[i] # NoFile
      BY <2>1 DEF ListIsUnits
    <3>2. unit[lunopn[i]] = filopn[i]
      BY <3>1, <1>11, <1>15 DEF ListIsUnits
    <3> QED BY <2>1, <3>2, <1>15
  <2>4. us[lunopn[j]] = filopn[j]
    BY <2>1, <2>2, <2>3, <1>1
  <2>5. o.unit[lunopn[j]] = filopn[j] /\ lunopn[j] \notin o.lost
    BY <2>1, <2>2, <2>4, <1>3, <1>15 DEF Keeps
  <2>6. filopn[j] # f
    BY DEF Holding
  <2>7. filopn[j] # o.name
    BY <2>2, <2>4, <2>6, <1>4, <1>11, <1>15 DEF GivesNone, Gives
  <2> QED BY <2>5, <2>7, <1>7
<1>16. ASSUME ~stale', o.name # NoFile
       PROVE  o.lun \notin lost' /\ unit'[o.lun] = o.name
  BY <1>4, <1>7, <1>11, <1>16 DEF GivesNone, Gives
<1>17. ASSUME ~stale', NEW j \in Entry, filopn'[j] # NoFile
       PROVE  /\ lunopn'[j] \notin lost' /\ unit'[lunopn'[j]] = filopn'[j]
              /\ \A k \in Entry : filopn'[k] = filopn'[j] => k = j
  <2>1. CASE j = i
    <3>1. \A k \in Entry : k # i /\ filopn[k] # NoFile => filopn[k] # o.name
      BY <1>15, <1>17
    <3> QED BY <2>1, <3>1, <1>8, <1>16, <1>17
  <2>2. CASE j # i
    <3>1. filopn[j] # NoFile /\ filopn'[j] = filopn[j] /\ lunopn'[j] = lunopn[j]
      BY <2>2, <1>8, <1>17
    <3>2. /\ lunopn[j] \notin lost' /\ unit'[lunopn[j]] = filopn[j] /\ filopn[j] # o.name
      BY <2>2, <3>1, <1>15, <1>17
    <3>3. \A k \in Entry : filopn[k] = filopn[j] => k = j
      BY <3>1, <1>11, <1>17 DEF ListIsUnits
    <3> QED BY <3>1, <3>2, <3>3, <1>8
  <2> QED BY <2>1, <2>2
<1>18. ListIsUnits'
  BY <1>13, <1>14, <1>17 DEF ListIsUnits
<1> QED BY <1>9, <1>10, <1>12, <1>18

LEMMA OpenUnusedInv ==
  ASSUME Inv, NEW f \in File, OpenUnused(f)
  PROVE  Inv'
<1> USE DEF Inv
<1>1. PICK i \in Entry, k \in {numopn[j] + 1 : j \in Entry}, o \in Opening(unit, f) :
          /\ First(i, Unused)
          /\ \A j \in Entry : numopn[j] < k
          /\ Answer(f, o)
          /\ IF o.name = NoFile THEN UNCHANGED list
             ELSE /\ filopn' = [filopn EXCEPT ![i] = o.name]
                  /\ lunopn' = [lunopn EXCEPT ![i] = o.lun]
                  /\ numopn' = [numopn EXCEPT ![i] = k]
  BY DEF OpenUnused
<1>2. i \in Unused /\ numopn[i] = 0 /\ filopn[i] = NoFile /\ lunopn[i] = NoUnit
  BY <1>1 DEF First, Unused, ListIsUnits
<1>3. k \in 1 .. MaxFil /\ \E j \in Entry : k = numopn[j] + 1
  <2>1. PICK j \in Entry : k = numopn[j] + 1
    BY <1>1
  <2>2. numopn[j] < MaxFil /\ numopn[j] \in 0 .. MaxFil
    BY <1>2, RoomForAge DEF TypeOK
  <2> QED BY <2>1, <2>2, Constants
<1>4. Holding(f) = {}
  BY DEF OpenUnused
<1>5. unit = Closed({lunopn[i]})
  BY <1>2, Constants DEF Closed, TypeOK
<1>6. CASE o.name = NoFile
  <2>1. filopn' = filopn /\ lunopn' = lunopn /\ numopn' = numopn
    BY <1>1, <1>6 DEF list
  <2>2. o.lun = NoUnit
    <3>1. Valid(unit, lost)
      BY DEF Valid, TypeOK, LostOpen
    <3> QED BY <3>1, <1>6, OpeningFacts, Names DEF GivesNone, Gives, GivesClosed
  <2>3. /\ filopn' = [filopn EXCEPT ![i] = o.name] /\ lunopn' = [lunopn EXCEPT ![i] = o.lun]
        /\ numopn' \in [Entry -> 0 .. MaxFil]
        /\ \A j \in Entry : numopn'[j] = 0 <=> IF j = i THEN o.name = NoFile ELSE numopn[j] = 0
    BY <1>2, <1>6, <2>1, <2>2 DEF TypeOK
  <2>4. TypeOK' /\ ListIsUnits' /\ WritesToItsFile' /\ LostOpen'
    BY <1>1, <1>4, <1>5, <2>3, EnterUnits
  <2>5. Ages'
    BY <2>1 DEF Ages
  <2> QED BY <2>4, <2>5
<1>7. CASE o.name # NoFile
  <2>1. /\ filopn' = [filopn EXCEPT ![i] = o.name]
        /\ lunopn' = [lunopn EXCEPT ![i] = o.lun]
        /\ numopn' = [numopn EXCEPT ![i] = k]
    BY <1>1, <1>7
  <2>2. numopn' \in [Entry -> 0 .. MaxFil]
        /\ \A j \in Entry : numopn'[j] = IF j = i THEN k ELSE numopn[j]
    BY <2>1, <1>3 DEF TypeOK
  <2>3. \A j \in Entry : numopn'[j] = 0 <=> IF j = i THEN o.name = NoFile ELSE numopn[j] = 0
    BY <1>3, <1>7, <2>2
  <2>4. TypeOK' /\ ListIsUnits' /\ WritesToItsFile' /\ LostOpen'
    BY <1>1, <1>4, <1>5, <2>1, <2>2, <2>3, EnterUnits
  <2>5. Ages'
    <3>1. ASSUME NEW j \in Entry, numopn'[j] # 0,
                 NEW h \in Entry, numopn'[h] = numopn'[j]
          PROVE  h = j
      <4>1. j # i => numopn[j] # 0 /\ numopn[j] < k
        BY <3>1, <2>2, <1>1
      <4>2. h # i => numopn[h] < k
        BY <1>1
      <4>3. numopn[j] \in Nat /\ numopn[h] \in Nat /\ k \in Nat
        BY <1>3 DEF TypeOK
      <4>4. CASE j = i
        BY <4>4, <4>2, <4>3, <2>2, <3>1
      <4>5. CASE j # i /\ h = i
        BY <4>5, <4>1, <4>3, <2>2, <3>1
      <4>6. CASE j # i /\ h # i
        BY <4>6, <4>1, <2>2, <3>1 DEF Ages
      <4> QED BY <4>4, <4>5, <4>6
    <3>2. ASSUME NEW j \in Entry, NEW n \in 1 .. numopn'[j]
          PROVE  \E e \in Entry : numopn'[e] = n
      <4>1. ASSUME NEW j2 \in Entry, n \in 1 .. numopn[j2]
            PROVE  \E e \in Entry : numopn'[e] = n
        <5>1. PICK e \in Entry : numopn[e] = n
          BY <4>1 DEF Ages, TypeOK
        <5>2. n # 0
          BY <4>1
        <5> QED BY <5>1, <5>2, <1>2, <2>2
      <4>2. CASE j # i
        BY <4>1, <4>2, <2>2
      <4>3. CASE j = i /\ n = k
        BY <4>3, <2>2
      <4>4. CASE j = i /\ n # k
        <5>1. PICK j2 \in Entry : k = numopn[j2] + 1
          BY <1>3
        <5>2. n \in 1 .. k /\ numopn[j2] \in Nat
          BY <4>4, <2>2 DEF TypeOK
        <5>3. n \in 1 .. numopn[j2]
          BY <5>1, <5>2, <4>4
        <5> QED BY <5>3, <4>1
      <4> QED BY <4>2, <4>3, <4>4
    <3> QED BY <3>1, <3>2 DEF Ages
  <2> QED BY <2>4, <2>5
<1> QED BY <1>6, <1>7

\* What DC_FCYL does when the list is full: the entry i is closed, and the
\* file entered in its place or not.
LEMMA ReplaceOldestInv ==
  ASSUME Inv, NEW f \in File, ReplaceOldest(f)
  PROVE  Inv'
<1> USE DEF Inv
<1>i. PICK i \in {j \in Entry : numopn[j] = 1} : \E o \in Opening(Closed({lunopn[i]}), f) :
          /\ Answer(f, o)
          /\ filopn' = [filopn EXCEPT ![i] = o.name]
          /\ lunopn' = [lunopn EXCEPT ![i] = o.lun]
          /\ numopn' = [j \in Entry |->
                           IF j # i THEN numopn[j] - 1
                           ELSE IF o.name # NoFile THEN MaxFil ELSE 0]
  BY DEF ReplaceOldest
<1>1. PICK o \in Opening(Closed({lunopn[i]}), f) :
          /\ Answer(f, o)
          /\ filopn' = [filopn EXCEPT ![i] = o.name]
          /\ lunopn' = [lunopn EXCEPT ![i] = o.lun]
          /\ numopn' = [j \in Entry |->
                           IF j # i THEN numopn[j] - 1
                           ELSE IF o.name # NoFile THEN MaxFil ELSE 0]
  BY <1>i
<1>2. Holding(f) = {} /\ Unused = {}
  BY DEF ReplaceOldest
<1>4. \A j \in Entry : j # i => numopn[j] \in 2 .. MaxFil
  <2> SUFFICES ASSUME NEW j \in Entry, j # i PROVE numopn[j] \in 2 .. MaxFil
    OBVIOUS
  <2>1. numopn[j] \in 0 .. MaxFil /\ numopn[j] # 0
    BY <1>2 DEF TypeOK, Unused
  <2>2. numopn[j] # 1
    BY <1>1, <2>1 DEF Ages
  <2> QED BY <2>1, <2>2, Constants
<1>5. \A j \in Entry : numopn'[j] = IF j # i THEN numopn[j] - 1
                                    ELSE IF o.name # NoFile THEN MaxFil ELSE 0
  BY <1>1
<1>6. numopn' \in [Entry -> 0 .. MaxFil]
  <2>1. \A j \in Entry : numopn'[j] \in 0 .. MaxFil
    BY <1>4, <1>5, Constants
  <2> QED BY <2>1, <1>1
<1>7. \A j \in Entry : numopn'[j] = 0 <=> IF j = i THEN o.name = NoFile ELSE numopn[j] = 0
  BY <1>4, <1>5, Constants
<1>8. TypeOK' /\ ListIsUnits' /\ WritesToItsFile' /\ LostOpen'
  BY <1>1, <1>2, <1>6, <1>7, EnterUnits
<1>10. Ages'
  <2>1. ASSUME NEW j \in Entry, numopn'[j] # 0, NEW h \in Entry, numopn'[h] = numopn'[j]
        PROVE  h = j
    <3>1. CASE j # i /\ h # i
      <4>1. numopn[h] = numopn[j] /\ numopn[j] # 0
        BY <3>1, <1>4, <1>5, <2>1
      <4> QED BY <4>1 DEF Ages
    <3>2. CASE j # i /\ h = i
      BY <3>2, <1>4, <1>5, <2>1, Constants
    <3>3. CASE j = i /\ h # i
      BY <3>3, <1>4, <1>5, <2>1, Constants
    <3> QED BY <3>1, <3>2, <3>3
  <2>2. ASSUME NEW j \in Entry, NEW n \in 1 .. numopn'[j]
        PROVE  \E e \in Entry : numopn'[e] = n
    <3>1. ASSUME n + 1 \in Entry PROVE \E e \in Entry : numopn'[e] = n
      <4>1. PICK e \in Entry : numopn[e] = n + 1
        BY <3>1, <1>2, FullList
      <4>2. e # i
        BY <4>1, <1>1
      <4> QED BY <4>1, <4>2, <1>5
    <3>2. CASE j # i
      <4>1. n + 1 \in 1 .. MaxFil
        BY <3>2, <1>4, <1>5, Constants
      <4> QED BY <4>1, <3>1 DEF Entry
    <3>3. CASE j = i
      <4>1. o.name # NoFile /\ numopn'[i] = MaxFil
        BY <3>3, <1>5
      <4>2. n = MaxFil \/ n + 1 \in 1 .. MaxFil
        BY <3>3, <4>1, Constants
      <4> QED BY <4>1, <4>2, <3>1 DEF Entry
    <3> QED BY <3>2, <3>3
  <2> QED BY <2>1, <2>2 DEF Ages
<1> QED BY <1>8, <1>10

LEMMA CloseAllInv == Inv /\ CloseAll => Inv'
<1> SUFFICES ASSUME Inv, CloseAll PROVE Inv'
  OBVIOUS
<1> USE DEF Inv
<1>1. \A i \in Entry : (lunopn[i] # NoUnit <=> filopn[i] # NoFile)
                       /\ (lunopn[i] # NoUnit <=> numopn[i] # 0)
  BY DEF ListIsUnits
<1>2. /\ filopn' = [i \in Entry |-> NoFile]
      /\ lunopn' = [i \in Entry |-> NoUnit]
      /\ numopn' = [i \in Entry |-> 0]
  BY <1>1 DEF CloseAll
<1>3. /\ lost' = lost /\ ok' = FALSE /\ file' = file /\ lun' = lun
      /\ iftype' = iftype /\ stale' = stale
  BY DEF CloseAll
<1>4. /\ unit' \in [Unit -> Name \cup {NoFile}]
      /\ \A v \in Unit : unit'[v] = IF v \in lost THEN unit[v] ELSE NoFile
  <2> DEFINE given == {lunopn[i] : i \in {j \in Entry : lunopn[j] # NoUnit}}
  <2>1. unit' = [v \in Unit |-> IF v \in given \ lost THEN NoFile ELSE unit[v]]
    BY DEF CloseAll, Closed
  <2>2. ASSUME NEW v \in Unit, v \notin lost, unit[v] # NoFile
        PROVE  v \in given
    <3>1. PICK i \in Entry : lunopn[i] = v
      BY <2>2 DEF ListIsUnits
    <3>2. v # NoUnit
      BY Constants
    <3> QED BY <3>1, <3>2
  <2> HIDE DEF given
  <2>3. unit' \in [Unit -> Name \cup {NoFile}]
    BY <2>1 DEF TypeOK
  <2> QED BY <2>1, <2>2, <2>3
<1>5. TypeOK'
  <2>1. 0 \in 0 .. MaxFil
    BY Constants
  <2>2. numopn' \in [Entry -> 0 .. MaxFil]
    BY <1>2, <2>1
  <2> QED BY <1>2, <1>3, <1>4, <2>2 DEF TypeOK
<1>6. Ages'
  BY <1>2 DEF Ages
<1>7. ListIsUnits'
  BY <1>2, <1>3, <1>4 DEF ListIsUnits
<1>8. WritesToItsFile' /\ LostOpen'
  BY <1>3, <1>4 DEF WritesToItsFile, LostOpen, TypeOK
<1> QED BY <1>5, <1>6, <1>7, <1>8

LEMMA NextInv == Inv /\ [Next]_vars => Inv'
<1> SUFFICES ASSUME Inv, [Next]_vars PROVE Inv'
  OBVIOUS
<1>1. CASE UNCHANGED vars
  BY <1>1 DEF vars, Inv, TypeOK, Ages, ListIsUnits, WritesToItsFile, LostOpen
<1> QED BY <1>1, MatchInv, OpenUnusedInv, ReplaceOldestInv, CloseAllInv DEF Next

LEMMA SpecInv == Spec => []Inv
BY InitInv, NextInv, PTL DEF Spec

-----------------------------------------------------------------------------
(***************************************************************************)
(* Every entry, age and unit stays within its range; that no age outgrows  *)
(* the list is the pigeonhole argument of RoomForAge.                      *)
(***************************************************************************)
THEOREM FilesTypes == Spec => []TypeOK
BY SpecInv, PTL DEF Inv

(***************************************************************************)
(* The ages number the files in the list from 1 without gap or repetition, *)
(* so that DC_FCYL always finds one oldest file to close.                  *)
(***************************************************************************)
THEOREM AgesNumberFiles == Spec => []Ages
BY SpecInv, PTL DEF Inv

(***************************************************************************)
(* Only DM_OPEN leaves units open that are not in the list; and until      *)
(* DC_OSNM gives a closed unit, each listed file is open on its own unit.  *)
(***************************************************************************)
THEOREM UnitsAreListed == Spec => []ListIsUnits
BY SpecInv, PTL DEF Inv

(***************************************************************************)
(* Until DC_OSNM gives a closed unit, the unit a decoder was given is open *)
(* on the file it asked for, or on the one DC_OSND made in its place.      *)
(***************************************************************************)
THEOREM GivenUnitIsFile == Spec => []WritesToItsFile
BY SpecInv, PTL DEF Inv

-----------------------------------------------------------------------------
(***************************************************************************)
(* DCFiles implements DCOpenFiles.  Queue is the value given to opened.    *)
(***************************************************************************)
AgeSet(num) == {num[i] : i \in Entry} \ {0}

Queue(fil, num) == [n \in AgeSet(num) |-> fil[CHOOSE i \in Entry : num[i] = n]]

\* The list as Ages and ListIsUnits describe it.
Numbered(fil, num) ==
    /\ fil \in [Entry -> Name \cup {NoFile}] /\ num \in [Entry -> 0 .. MaxFil]
    /\ \A i \in Entry :
          /\ fil[i] # NoFile <=> num[i] # 0
          /\ num[i] # 0 => /\ \A j \in Entry : num[j] = num[i] => j = i
                           /\ \A n \in 1 .. num[i] : \E j \in Entry : num[j] = n

LEMMA InvNumbered ==
  /\ Inv => Numbered(filopn, numopn)
  /\ Inv' => Numbered(filopn', numopn')
BY DEF Inv, TypeOK, Ages, ListIsUnits, Numbered

\* The ages of n files are 1 to n.
LEMMA AgeSetInterval ==
  ASSUME NEW fil, NEW num, Numbered(fil, num)
  PROVE  \E m \in 0 .. MaxFil : AgeSet(num) = 1 .. m
<1> DEFINE A == AgeSet(num)
           c == Cardinality(A)
<1>1. A \subseteq 1 .. MaxFil
  BY Constants DEF AgeSet, Numbered
<1>2. IsFiniteSet(A) /\ c \in Nat /\ c =< MaxFil
  <2>1. IsFiniteSet(1 .. MaxFil) /\ Cardinality(1 .. MaxFil) = MaxFil
    BY FS_Interval, Constants
  <2> HIDE DEF A
  <2> QED BY <1>1, <2>1, FS_Subset, FS_CardinalityType
<1>3. \A n \in A : 1 .. n \subseteq A
  <2> SUFFICES ASSUME NEW n \in A, NEW k \in 1 .. n PROVE k \in A
    OBVIOUS
  <2>1. PICK i \in Entry : num[i] = n /\ n # 0
    BY DEF AgeSet
  <2>2. PICK j \in Entry : num[j] = k
    BY <2>1 DEF Numbered
  <2>3. k # 0
    BY <1>1, Constants
  <2> QED BY <2>2, <2>3 DEF AgeSet
<1>4. A \subseteq 1 .. c
  <2> SUFFICES ASSUME NEW n \in A PROVE n \in 1 .. c
    OBVIOUS
  <2>1. n \in Nat \ {0}
    BY <1>1, Constants
  <2>2. Cardinality(1 .. n) = n
    BY <2>1, FS_Interval
  <2>3. Cardinality(1 .. n) =< c
    <3> HIDE DEF A
    <3> QED BY <1>2, <1>3, FS_Subset
  <2> QED BY <2>1, <2>2, <2>3, <1>2
<1>5. A = 1 .. c
  <2>1. IsFiniteSet(1 .. c) /\ Cardinality(1 .. c) = c
    BY <1>2, FS_Interval
  <2> HIDE DEF A
  <2> QED BY <1>4, <2>1, FS_Subset
<1> QED BY <1>2, <1>5, Constants

\* The queue is a sequence of files, each at the place of its age.
LEMMA QueueSeq ==
  ASSUME NEW fil, NEW num, Numbered(fil, num)
  PROVE  /\ Queue(fil, num) \in Seq(Name)
         /\ Len(Queue(fil, num)) \in 0 .. MaxFil
         /\ AgeSet(num) = 1 .. Len(Queue(fil, num))
         /\ \A i \in Entry : num[i] # 0 => /\ num[i] \in 1 .. Len(Queue(fil, num))
                                           /\ Queue(fil, num)[num[i]] = fil[i]
         /\ \A n \in 1 .. Len(Queue(fil, num)) :
               \E i \in Entry : num[i] = n /\ num[i] # 0 /\ Queue(fil, num)[n] = fil[i]
<1>1. PICK m \in 0 .. MaxFil : AgeSet(num) = 1 .. m
  BY AgeSetInterval
<1> DEFINE At(n) == fil[CHOOSE i \in Entry : num[i] = n]
           q == [n \in 1 .. m |-> At(n)]
<1>2. Queue(fil, num) = q
  BY <1>1 DEF Queue
<1>3. m \in Nat
  BY Constants
<1>4. \A i \in Entry : num[i] # 0 => num[i] \in 1 .. m /\ At(num[i]) = fil[i] /\ fil[i] \in Name
  <2> SUFFICES ASSUME NEW i \in Entry, num[i] # 0
               PROVE  num[i] \in 1 .. m /\ At(num[i]) = fil[i] /\ fil[i] \in Name
    OBVIOUS
  <2>1. num[i] \in 1 .. m
    BY <1>1 DEF AgeSet
  <2>2. \A j \in Entry : num[j] = num[i] => j = i
    BY DEF Numbered
  <2>3. fil[i] \in Name
    BY DEF Numbered
  <2> QED BY <2>1, <2>2, <2>3
<1>5. \A n \in 1 .. m : \E i \in Entry : num[i] = n /\ num[i] # 0
  BY <1>1 DEF AgeSet
<1>6. \A n \in 1 .. m : At(n) \in Name
  BY <1>4, <1>5
<1>7. q \in Seq(Name) /\ Len(q) = m
  <2> HIDE DEF At
  <2> QED BY <1>3, <1>6
<1>8. \A n \in 1 .. m : q[n] = At(n)
  OBVIOUS
<1> HIDE DEF At, q
<1> QED BY <1>1, <1>2, <1>3, <1>4, <1>5, <1>7, <1>8

Opened == Queue(filopn, numopn)

\* The queue of a list in use at no place.
LEMMA NoneOpened ==
  ASSUME NEW fil, NEW num, \A i \in Entry : num[i] = 0
  PROVE  Queue(fil, num) = <<>>
<1>1. AgeSet(num) = {}
  BY DEF AgeSet
<1> QED BY <1>1 DEF Queue

\* A file is listed by its name or the other it may have.
LEMMA OpeningName ==
  ASSUME Inv, NEW f \in File, NEW i \in Entry,
         NEW o \in Opening(unit, f) \cup Opening(Closed({lunopn[i]}), f)
  PROVE  o.name \in {NoFile, f, Plus(f)}
<1>1. Valid(unit, lost) /\ Valid(Closed({lunopn[i]}), lost)
  BY DEF Inv, TypeOK, LostOpen, Valid, Closed
<1> QED BY <1>1, OpeningFacts DEF Inv, GivesNone, Gives, GivesClosed

LEMMA OpenUnusedQueue ==
  ASSUME Inv, Inv', NEW f \in File, OpenUnused(f)
  PROVE  Open!Open(f) \/ Opened' = Opened
<1>1. PICK i \in Entry, k \in {numopn[j] + 1 : j \in Entry}, o \in Opening(unit, f) :
          /\ First(i, Unused)
          /\ \A j \in Entry : numopn[j] < k
          /\ IF o.name = NoFile THEN UNCHANGED list
             ELSE /\ filopn' = [filopn EXCEPT ![i] = o.name]
                  /\ lunopn' = [lunopn EXCEPT ![i] = o.lun]
                  /\ numopn' = [numopn EXCEPT ![i] = k]
  BY DEF OpenUnused
<1>g. PICK g \in {NoFile, f, Plus(f)} : g = o.name
  BY OpeningName
<1>2. CASE o.name = NoFile
  BY <1>1, <1>2 DEF list, Opened
<1>3. CASE o.name # NoFile
  <2> DEFINE q == Opened
             r == Queue(filopn', numopn')
             m == Len(q)
  <2>1. Numbered(filopn, numopn) /\ Numbered(filopn', numopn')
    BY InvNumbered
  <2>2. /\ q \in Seq(Name) /\ m \in 0 .. MaxFil /\ AgeSet(numopn) = 1 .. m
        /\ \A j \in Entry : numopn[j] # 0 => numopn[j] \in 1 .. m /\ q[numopn[j]] = filopn[j]
        /\ \A n \in 1 .. m : \E j \in Entry : numopn[j] = n /\ numopn[j] # 0 /\ q[n] = filopn[j]
    BY <2>1, QueueSeq DEF Opened
  <2>3. /\ r \in Seq(Name) /\ Len(r) \in 0 .. MaxFil /\ AgeSet(numopn') = 1 .. Len(r)
        /\ \A j \in Entry : numopn'[j] # 0 => numopn'[j] \in 1 .. Len(r) /\ r[numopn'[j]] = filopn'[j]
    BY <2>1, QueueSeq
  <2>4. m \in Nat /\ Len(r) \in Nat
    BY <2>2, <2>3, Constants
  <2>5. i \in Unused /\ numopn[i] = 0
    BY <1>1 DEF First, Unused
  <2>6. \A j \in Entry : /\ numopn'[j] = (IF j = i THEN k ELSE numopn[j])
                         /\ filopn'[j] = (IF j = i THEN g ELSE filopn[j])
    BY <1>1, <1>3, <1>g DEF Inv, TypeOK
  <2>g. g \in {f, Plus(f)} /\ g \in Name
    BY <1>3, <1>g, Names
  <2>7. m < MaxFil
    <3>1. CASE m = 0
      BY <3>1, Constants
    <3>2. CASE m # 0
      <4>1. PICK j \in Entry : numopn[j] = m
        BY <3>2, <2>2, <2>4
      <4> QED BY <4>1, <2>5, RoomForAge DEF Inv
    <3> QED BY <3>1, <3>2
  <2>8. k = m + 1
    <3>1. PICK j \in Entry : k = numopn[j] + 1
      BY <1>1
    <3>2. numopn[j] =< m /\ numopn[j] \in Nat
      BY <2>2, <2>4 DEF Inv, TypeOK
    <3>3. m # 0 => \E e \in Entry : numopn[e] = m
      BY <2>2, <2>4
    <3>4. m # 0 => m < k
      BY <3>3, <1>1
    <3> QED BY <3>1, <3>2, <3>4, <2>4
  <2>9. Len(r) = m + 1
    <3>1. AgeSet(numopn') = AgeSet(numopn) \cup {k}
      <4>1. k # 0
        BY <2>4, <2>8
      <4> QED BY <4>1, <2>5, <2>6 DEF AgeSet
    <3> HIDE DEF r, q
    <3>2. 1 .. Len(r) = 1 .. m + 1
      <4>1. 1 .. m + 1 = 1 .. m \cup {m + 1}
        BY <2>4
      <4> QED BY <3>1, <4>1, <2>2, <2>3, <2>8
    <3>3. m + 1 \in 1 .. Len(r) /\ Len(r) \in 1 .. m + 1
      BY <3>2, <2>4
    <3> QED BY <3>3, <2>4
  <2>10. \A n \in 1 .. m + 1 : r[n] = IF n = m + 1 THEN g ELSE q[n]
    <3> SUFFICES ASSUME NEW n \in 1 .. m + 1
                 PROVE  r[n] = IF n = m + 1 THEN g ELSE q[n]
      OBVIOUS
    <3>1. CASE n = m + 1
      <4>1. numopn'[i] = n /\ filopn'[i] = g /\ n # 0
        BY <3>1, <2>4, <2>6, <2>8
      <4> QED BY <3>1, <4>1, <2>3
    <3>2. CASE n # m + 1
      <4>1. n \in 1 .. m
        BY <3>2, <2>4
      <4>2. PICK j \in Entry : numopn[j] = n /\ numopn[j] # 0 /\ q[n] = filopn[j]
        BY <4>1, <2>2
      <4>3. j # i
        BY <4>2, <2>5
      <4>4. numopn'[j] = n /\ numopn'[j] # 0 /\ filopn'[j] = q[n]
        BY <4>2, <4>3, <2>6
      <4> QED BY <3>2, <4>4, <2>3
    <3> QED BY <3>1, <3>2
  <2>11. r = Append(q, g)
    <3>1. /\ Append(q, g) \in Seq(Name) /\ Len(Append(q, g)) = m + 1
          /\ \A n \in 1 .. m + 1 : Append(q, g)[n] = IF n = m + 1 THEN g ELSE q[n]
      <4> HIDE DEF q
      <4> QED BY <2>2, <2>4, <2>g
    <3> HIDE DEF q, r
    <3> QED BY <3>1, <2>3, <2>9, <2>10, SeqEqual
  <2>12. \A n \in DOMAIN q : q[n] # f
    <3>1. DOMAIN q = 1 .. m
      BY <2>2
    <3>2. \A j \in Entry : filopn[j] # f
      BY DEF OpenUnused, Holding
    <3> QED BY <3>1, <3>2, <2>2
  <2>13. Opened' = Append(Opened, g)
    BY <2>11 DEF Opened
  <2>14. Len(Opened) < MaxFil
    BY <2>7
  <2>15. \A n \in DOMAIN Opened : Opened[n] # f
    BY <2>12
  <2> QED BY <2>13, <2>14, <2>15, <2>g DEF Open!Open, Open!IsOpen, Opened, Queue, AgeSet
<1> QED BY <1>2, <1>3

LEMMA ReplaceOldestQueue ==
  ASSUME Inv, Inv', NEW f \in File, ReplaceOldest(f)
  PROVE  Open!Cycle(f)
<1>i. PICK i \in {j \in Entry : numopn[j] = 1} : \E o \in Opening(Closed({lunopn[i]}), f) :
          /\ filopn' = [filopn EXCEPT ![i] = o.name]
          /\ numopn' = [j \in Entry |->
                           IF j # i THEN numopn[j] - 1
                           ELSE IF o.name # NoFile THEN MaxFil ELSE 0]
  BY DEF ReplaceOldest
<1>1. PICK o \in Opening(Closed({lunopn[i]}), f) :
          /\ filopn' = [filopn EXCEPT ![i] = o.name]
          /\ numopn' = [j \in Entry |->
                           IF j # i THEN numopn[j] - 1
                           ELSE IF o.name # NoFile THEN MaxFil ELSE 0]
  BY <1>i
<1>g. PICK g \in {NoFile, f, Plus(f)} : g = o.name
  BY OpeningName
<1> DEFINE q == Opened
           r == Queue(filopn', numopn')
<1>2. Numbered(filopn, numopn) /\ Numbered(filopn', numopn')
  BY InvNumbered
<1>3. /\ q \in Seq(Name) /\ AgeSet(numopn) = 1 .. Len(q)
      /\ \A n \in 1 .. Len(q) : \E j \in Entry : numopn[j] = n /\ q[n] = filopn[j]
  BY <1>2, QueueSeq DEF Opened
<1>4. /\ r \in Seq(Name) /\ AgeSet(numopn') = 1 .. Len(r)
      /\ \A j \in Entry : numopn'[j] # 0 => numopn'[j] \in 1 .. Len(r) /\ r[numopn'[j]] = filopn'[j]
      /\ \A n \in 1 .. Len(r) : \E j \in Entry : numopn'[j] = n /\ numopn'[j] # 0
  BY <1>2, QueueSeq
<1>5. /\ Holding(f) = {} /\ Unused = {} /\ i \in Entry /\ numopn[i] = 1
      /\ \A j \in Entry : numopn[j] \in 1 .. MaxFil
  BY Constants DEF ReplaceOldest, Unused, Inv, TypeOK
<1>6. \A j \in Entry : /\ numopn'[j] = (IF j # i THEN numopn[j] - 1
                                        ELSE IF o.name # NoFile THEN MaxFil ELSE 0)
                       /\ filopn'[j] = (IF j # i THEN filopn[j]
                                        ELSE o.name)
  BY <1>1 DEF Inv, TypeOK
<1>7. Len(q) = MaxFil
  <2>1. AgeSet(numopn) = 1 .. MaxFil
    <3>1. \A n \in 1 .. MaxFil : n \in AgeSet(numopn)
      <4> SUFFICES ASSUME NEW n \in 1 .. MaxFil PROVE n \in AgeSet(numopn)
        OBVIOUS
      <4>1. PICK e \in Entry : numopn[e] = n
        BY <1>5, Constants, FullList DEF Inv
      <4>2. n # 0
        BY Constants
      <4> QED BY <4>1, <4>2 DEF AgeSet
    <3>2. AgeSet(numopn) \subseteq 1 .. MaxFil
      BY <1>5 DEF AgeSet
    <3> QED BY <3>1, <3>2
  <2> HIDE DEF q
  <2>2. Len(q) \in Nat /\ 1 .. Len(q) = 1 .. MaxFil
    BY <2>1, <1>3
  <2>3. MaxFil \in 1 .. Len(q) /\ Len(q) \in 1 .. MaxFil
    BY <2>2, Constants
  <2> QED BY <2>2, <2>3, Constants
<1>8. \A n \in DOMAIN q : q[n] # f
  <2>1. DOMAIN q = 1 .. Len(q)
    <3> HIDE DEF q
    <3> QED BY <1>3
  <2>2. \A j \in Entry : filopn[j] # f
    BY <1>5 DEF Holding
  <2> QED BY <2>1, <2>2, <1>3
<1>9. /\ Tail(q) \in Seq(Name) /\ Len(Tail(q)) = MaxFil - 1
      /\ \A n \in 1 .. MaxFil - 1 : Tail(q)[n] = q[n + 1]
  <2> HIDE DEF q
  <2>1. q # <<>>
    BY <1>7, Constants
  <2> QED BY <1>3, <1>7, <2>1, HeadTailProperties, Constants
<1>10. \A n \in 1 .. MaxFil - 1 : n \in 1 .. Len(r) /\ r[n] = Tail(q)[n]
  <2> SUFFICES ASSUME NEW n \in 1 .. MaxFil - 1
               PROVE  n \in 1 .. Len(r) /\ r[n] = Tail(q)[n]
    OBVIOUS
  <2>1. n + 1 \in 1 .. Len(q) /\ n + 1 # 1 /\ n \in Nat \ {0}
    BY <1>7, Constants
  <2>2. PICK j \in Entry : numopn[j] = n + 1 /\ q[n + 1] = filopn[j]
    BY <2>1, <1>3
  <2>3. j # i
    BY <2>1, <2>2, <1>5
  <2>4. numopn'[j] = n /\ filopn'[j] = q[n + 1]
    BY <2>1, <2>2, <2>3, <1>6
  <2> QED BY <2>1, <2>4, <1>4, <1>9
<1>11. \A n \in 1 .. Len(r) : n =< IF o.name # NoFile THEN MaxFil ELSE MaxFil - 1
  <2> SUFFICES ASSUME NEW n \in 1 .. Len(r)
               PROVE  n =< IF o.name # NoFile THEN MaxFil ELSE MaxFil - 1
    OBVIOUS
  <2>1. PICK j \in Entry : numopn'[j] = n /\ numopn'[j] # 0
    BY <1>4
  <2> QED BY <2>1, <1>5, <1>6, Constants
<1>12. Len(r) \in Nat
  <2> HIDE DEF r
  <2> QED BY <1>4
<1>13. CASE o.name = NoFile
  <2>1. Len(r) = MaxFil - 1
    <3> DEFINE l == Len(r)
    <3>1. l \in Nat /\ MaxFil - 1 \in Nat
      BY <1>12, Constants
    <3>2. MaxFil - 1 # 0 => MaxFil - 1 =< l
      BY <3>1, <1>10
    <3>3. l # 0 => l =< MaxFil - 1
      BY <3>1, <1>11, <1>13
    <3> HIDE DEF l
    <3> QED BY <3>1, <3>2, <3>3 DEF l
  <2>2. r = Tail(q)
    <3> HIDE DEF q, r
    <3> QED BY <2>1, <1>4, <1>9, <1>10, SeqEqual
  <2>3. Opened' = Tail(Opened)
    BY <2>2 DEF Opened
  <2> QED BY <2>3, <1>7, <1>8 DEF Open!Cycle, Open!IsOpen, Opened, Queue, AgeSet
<1>14. CASE o.name # NoFile
  <2>g. g \in {f, Plus(f)} /\ g \in Name
    BY <1>14, <1>g, Names
  <2>1. MaxFil \in 1 .. Len(r) /\ r[MaxFil] = g
    <3>1. numopn'[i] = MaxFil /\ filopn'[i] = g /\ MaxFil # 0
      BY <1>5, <1>6, <1>14, <1>g, Constants
    <3> QED BY <3>1, <1>4, <1>5
  <2>2. Len(r) = MaxFil
    <3> DEFINE l == Len(r)
    <3>1. l \in Nat /\ MaxFil =< l
      BY <2>1, <1>12, Constants
    <3>2. l =< MaxFil
      BY <3>1, <1>11, <1>14, Constants
    <3> HIDE DEF l
    <3> QED BY <3>1, <3>2, Constants DEF l
  <2>3. r = Append(Tail(q), g)
    <3> DEFINE t == Tail(q)
    <3>1. t \in Seq(Name) /\ Len(t) = MaxFil - 1 /\ \A n \in 1 .. MaxFil - 1 : r[n] = t[n]
      BY <1>9, <1>10
    <3> HIDE DEF t, r
    <3>2. /\ Append(t, g) \in Seq(Name) /\ Len(Append(t, g)) = MaxFil
          /\ \A n \in 1 .. MaxFil : Append(t, g)[n] = IF n = MaxFil THEN g ELSE t[n]
      BY <3>1, <2>g, Constants
    <3>3. \A n \in 1 .. MaxFil : r[n] = Append(t, g)[n]
      BY <3>1, <3>2, <2>1, Constants
    <3>4. r = Append(t, g)
      BY <3>2, <3>3, <2>2, <1>4, SeqEqual
    <3> QED BY <3>4 DEF t
  <2>4. Opened' = Append(Tail(Opened), g)
    BY <2>3 DEF Opened
  <2> QED BY <2>4, <2>g, <1>7, <1>8 DEF Open!Cycle, Open!IsOpen, Opened, Queue, AgeSet
<1> QED BY <1>13, <1>14

LEMMA StepQueue ==
  Inv /\ Inv' /\ [Next]_vars => Open!Next \/ Opened' = Opened
<1> SUFFICES ASSUME Inv, Inv', [Next]_vars PROVE Open!Next \/ Opened' = Opened
  OBVIOUS
<1>1. ASSUME NEW f \in File, Match(f) PROVE Opened' = Opened
  BY <1>1 DEF Match, list, Opened
<1>2. ASSUME NEW f \in File, OpenUnused(f) PROVE Open!Next \/ Opened' = Opened
  BY <1>2, OpenUnusedQueue DEF Open!Next
<1>3. ASSUME NEW f \in File, ReplaceOldest(f) PROVE Open!Next
  BY <1>3, ReplaceOldestQueue DEF Open!Next
<1>4. ASSUME CloseAll PROVE Open!Next
  <2>1. \A i \in Entry : numopn'[i] = 0
    BY <1>4 DEF CloseAll, Inv, ListIsUnits
  <2>2. Opened' = <<>>
    BY <2>1, NoneOpened DEF Opened
  <2>3. Open!CloseAll
    BY <2>2 DEF Open!CloseAll, Opened, Queue, AgeSet
  <2> QED BY <2>3 DEF Open!Next
<1>5. CASE UNCHANGED vars
  BY <1>5 DEF vars, Opened
<1> QED BY <1>1, <1>2, <1>3, <1>4, <1>5 DEF Next

(***************************************************************************)
(* The list with its ages behaves as a queue of names, each the one asked  *)
(* for or the one that DC_OSND or DC_OSNM made of it: DC_FCYL takes off    *)
(* the name that was listed first, when the list is full and at no other   *)
(* time, and lists none while the name asked for is there.  It says        *)
(* nothing of the units, which may be closed.                              *)
(***************************************************************************)
THEOREM ListIsQueue == Spec => OldestGivesWay
<1>1. Init => Open!Init
  <2> SUFFICES ASSUME Init PROVE Open!Init
    OBVIOUS
  <2>1. Queue(filopn, numopn) = <<>>
    BY NoneOpened DEF Init
  <2> QED BY <2>1 DEF Open!Init, Queue, AgeSet
<1>2. Inv /\ Inv' /\ [Next]_vars => [Open!Next]_Opened
  BY StepQueue
<1>3. [Open!Next]_Opened => [Open!Next]_([n \in {numopn[i] : i \in Entry} \ {0} |->
                                             filopn[CHOOSE i \in Entry : numopn[i] = n]])
  BY DEF Opened, Queue, AgeSet
<1> QED BY <1>1, <1>2, <1>3, SpecInv, PTL DEF Spec, OldestGivesWay, Open!Spec

=============================================================================

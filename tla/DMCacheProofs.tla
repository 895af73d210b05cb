---------------------------- MODULE DMCacheProofs ----------------------------
(***************************************************************************)
(* Proofs about DMCache, for any number of files, records, words and       *)
(* places in the cache.                                                    *)
(***************************************************************************)
EXTENDS DMCache, TLAPS

\* A file system, and a set of records.
IsDisk(d) ==
    /\ d = [n \in Name |-> d[n]]
    /\ \A n \in Name : d[n] \in [Rec(n) -> Data \cup {Absent}]

IsRecords(h) == \A x \in h : \E n \in Name : \E r \in Rec(n) : x = <<n, r>>

\* Every file has one number at most, and what is in the cache is a record
\* of a file.
OneNumber ==
    /\ \A f \in held : lundm[f] # Closed
    /\ \A e, f \in FileNo : lundm[e] = lundm[f] /\ lundm[e] # Closed => e = f

InFile == \A k \in Slot : kcflno[k] # 0 => kcrecn[k] \in Rec(lundm[kcflno[k]])

Shape == TypeOK /\ IsDisk(disk) /\ IsRecords(hurt) /\ OneNumber /\ InFile /\ OneCopy

Inv == Shape /\ CleanIsWritten /\ WaitsWithAccess /\ NumbersReturn

LEMMA Constants ==
  /\ Zero \in Data /\ Absent \notin Data /\ Closed \notin Name
  /\ 0 \notin FileNo /\ FileNo \subseteq Nat /\ Slot \subseteq Nat \ {0}
  /\ \A n \in Name : Rec(n) \subseteq Nat \ {0} /\ Label \in Rec(n)
<1>1. \A n \in Name : Size[n] \in Nat \ {0}
  BY DMCacheAssumption
<1>2. Zero \in Data
  BY DMCacheAssumption DEF Zero, Data
<1> QED BY <1>1, <1>2, DMCacheAssumption DEF FileNo, Slot, Rec, Label

\* What a write leaves on file.
LEMMA PutFacts ==
  ASSUME NEW d, IsDisk(d), NEW n \in Name, NEW r \in Rec(n), NEW data \in Data
  PROVE  /\ IsDisk(Put(d, n, r, data))
         /\ Put(d, n, r, data)[n][r] = data
         /\ \A m \in Name : \A s \in Rec(m) : <<m, s>> # <<n, r>> =>
               \/ Put(d, n, r, data)[m][s] = d[m][s]
               \/ d[m][s] = Absent /\ Put(d, n, r, data)[m][s] = Zero
<1> DEFINE p == Put(d, n, r, data)
           at == [s \in Rec(n) |-> IF s = r THEN data
                                    ELSE IF s < r THEN Shown(d[n][s])
                                    ELSE d[n][s]]
<1>1. p = [d EXCEPT ![n] = at]
  BY DEF Put
<1>2. /\ p = [m \in Name |-> p[m]]
      /\ \A m \in Name : p[m] = IF m = n THEN at ELSE d[m]
  <2> HIDE DEF at, p
  <2>1. d = [m \in Name |-> d[m]]
    BY DEF IsDisk
  <2>2. [d EXCEPT ![n] = at] = [m \in Name |-> IF m = n THEN at ELSE d[m]]
    BY <2>1
  <2> QED BY <1>1, <2>2
<1>3. at \in [Rec(n) -> Data \cup {Absent}]
  BY Constants DEF IsDisk, Shown
<1>4. \A s \in Rec(n) : s # r => at[s] = d[n][s] \/ (d[n][s] = Absent /\ at[s] = Zero)
  BY DEF Shown
<1>5. at[r] = data
  OBVIOUS
<1> HIDE DEF at, p
<1>6. IsDisk(p)
  BY <1>2, <1>3 DEF IsDisk
<1>7. ASSUME NEW m \in Name, NEW s \in Rec(m), <<m, s>> # <<n, r>>
      PROVE  p[m][s] = d[m][s] \/ (d[m][s] = Absent /\ p[m][s] = Zero)
  BY <1>2, <1>4, <1>7
<1> QED BY <1>2, <1>5, <1>6, <1>7 DEF p

\* What a failure may spoil.
LEMMA HurtFacts ==
  ASSUME NEW h, IsRecords(h), NEW n \in Name, NEW r \in Rec(n), NEW g \in Hurt(h, <<n, r>>)
  PROVE  IsRecords(g) /\ g = h \cup {<<n, r>>}
BY DEF Hurt, IsRecords

LEMMA PlaceFacts ==
  ASSUME Shape, NEW k \in Slot, kcflno[k] # 0
  PROVE  /\ kcflno[k] \in FileNo /\ lundm[kcflno[k]] \in Name
         /\ kcrecn[k] \in Rec(lundm[kcflno[k]])
         /\ Place(k) = <<lundm[kcflno[k]], kcrecn[k]>>
         /\ \A j \in Slot : kcflno[j] # 0 /\ Place(j) = Place(k) => j = k
<1>1. kcflno[k] \in FileNo /\ lundm[kcflno[k]] \in Name
  BY DEF Shape, TypeOK, OneCopy
<1>2. kcrecn[k] \in Rec(lundm[kcflno[k]])
  BY DEF Shape, InFile
<1>3. ASSUME NEW j \in Slot, kcflno[j] # 0, Place(j) = Place(k) PROVE j = k
  <2>1. kcflno[j] \in FileNo /\ lundm[kcflno[j]] = lundm[kcflno[k]] /\ kcrecn[j] = kcrecn[k]
    BY <1>3 DEF Place, Shape, TypeOK
  <2>2. kcflno[j] = kcflno[k]
    BY <1>1, <2>1, Constants DEF Shape, OneNumber
  <2> QED BY <2>1, <2>2 DEF Shape, OneCopy
<1> QED BY <1>1, <1>2, <1>3 DEF Place

(***************************************************************************)
(* DM_NXTC: the record of the place is on file, or spoiled, and no other   *)
(* record has changed but from absent to blank.                            *)
(***************************************************************************)
LEMMA EvictFacts ==
  ASSUME Shape, NEW k \in Slot, NEW e \in Evict(k)
  PROVE  /\ IsDisk(e.disk) /\ IsRecords(e.hurt)
         /\ e.hurt = hurt \/ (kwrite[k] /\ kcflno[k] # 0 /\ e.hurt = hurt \cup {Place(k)})
         /\ \A m \in Name : \A s \in Rec(m) :
               \/ e.disk[m][s] = disk[m][s]
               \/ disk[m][s] = Absent /\ e.disk[m][s] = Zero
               \/ kwrite[k] /\ kcflno[k] # 0 /\ <<m, s>> = Place(k) /\ e.disk[m][s] = kcdata[k]
         /\ kwrite[k] /\ kcflno[k] # 0 /\ Place(k) \notin e.hurt =>
               e.disk[Place(k)[1]][Place(k)[2]] = kcdata[k]
<1>1. CASE ~kwrite[k] \/ kcflno[k] = 0
  BY <1>1 DEF Evict, Shape
<1>2. CASE kwrite[k] /\ kcflno[k] # 0
  <2> DEFINE n == Place(k)[1]
             r == Place(k)[2]
  <2>1. n \in Name /\ r \in Rec(n) /\ Place(k) = <<n, r>> /\ kcdata[k] \in Data
    BY <1>2, PlaceFacts DEF Shape, TypeOK
  <2>2. \/ e = [disk |-> Put(disk, n, r, kcdata[k]), hurt |-> hurt]
        \/ \E h \in Hurt(hurt, Place(k)) : e = [disk |-> disk, hurt |-> h]
    BY <1>2 DEF Evict
  <2> HIDE DEF n, r
  <2>3. CASE e = [disk |-> Put(disk, n, r, kcdata[k]), hurt |-> hurt]
    <3>1. e.disk = Put(disk, n, r, kcdata[k]) /\ e.hurt = hurt
      BY <2>3
    <3> QED BY <1>2, <2>1, <3>1, PutFacts DEF Shape
  <2>4. ASSUME NEW h \in Hurt(hurt, Place(k)), e = [disk |-> disk, hurt |-> h]
        PROVE  /\ e.disk = disk /\ e.hurt = hurt \cup {Place(k)}
               /\ IsDisk(e.disk) /\ IsRecords(e.hurt)
    <3>1. e.disk = disk /\ e.hurt = h
      BY <2>4
    <3> QED BY <3>1, <2>1, HurtFacts DEF Shape
  <2> QED BY <1>2, <2>2, <2>3, <2>4
<1> QED BY <1>1, <1>2

\* The two ways in which DM_RREC ends: the record was in the cache, or has
\* taken a place.
Found(c, f, r) ==
    /\ c.k \in Holding(f, r) /\ c.last = kclast
    /\ c.write = kwrite[c.k] /\ c.data = kcdata[c.k] /\ c.err = FALSE
    /\ c.disk = disk /\ c.hurt = hurt

Taken(c, n, f, r) ==
    /\ Holding(f, r) = {} /\ c.k \in Slot /\ c.last = c.k
    /\ c.write = FALSE /\ c.data \in Data /\ c.err \in BOOLEAN
    /\ \E e \in Evict(c.k) :
          /\ c.disk = e.disk
          /\ \/ c.hurt = e.hurt /\ c.data = Shown(e.disk[n][r]) /\ (c.err <=> e.disk[n][r] = Absent)
             \/ c.hurt = e.hurt \cup {<<n, r>>} /\ c.data = Zero /\ c.err = TRUE

LEMMA FetchCases ==
  ASSUME Shape, NEW n \in Name, NEW f \in FileNo, NEW r \in Rec(n), NEW c \in Fetch(n, f, r)
  PROVE  Found(c, f, r) \/ Taken(c, n, f, r)
<1> DEFINE found == CHOOSE k \in Holding(f, r) : \A j \in Holding(f, r) : k =< j
           next  == IF kclast = MCache THEN 1 ELSE kclast + 1
           Loaded(e, h, data) ==
             [k |-> next, last |-> next, write |-> FALSE, err |-> data = Absent,
              data |-> IF data = Absent THEN Zero ELSE data, disk |-> e.disk, hurt |-> h]
<1>1. CASE Holding(f, r) # {}
  <2>1. c = [k |-> found, last |-> kclast, write |-> kwrite[found], err |-> FALSE,
             data |-> kcdata[found], disk |-> disk, hurt |-> hurt]
    BY <1>1 DEF Fetch
  <2>2. PICK k \in Holding(f, r) : TRUE
    BY <1>1
  <2>3. \A j \in Holding(f, r) : j = k
    BY <2>2, Constants DEF Holding, Shape, OneCopy
  <2>4. k \in Nat
    BY <2>2, Constants DEF Holding
  <2>5. found \in Holding(f, r)
    <3>1. \A j \in Holding(f, r) : k =< j
      BY <2>3, <2>4
    <3> QED BY <2>2, <3>1
  <2> HIDE DEF found
  <2> QED BY <2>1, <2>5 DEF Found
<1>2. CASE Holding(f, r) = {}
  <2>1. next \in Slot
    BY DMCacheAssumption DEF Shape, TypeOK, Slot
  <2>2. PICK e \in Evict(next) :
          c = Loaded(e, e.hurt, e.disk[n][r])
          \/ \E h \in Hurt(e.hurt, <<n, r>>) : c = Loaded(e, h, Absent)
    BY <1>2 DEF Fetch
  <2>3. IsDisk(e.disk) /\ IsRecords(e.hurt)
    <3> HIDE DEF next
    <3> QED BY <2>1, <2>2, EvictFacts
  <2>4. e.disk[n][r] \in Data \cup {Absent}
    BY <2>3 DEF IsDisk
  <2> HIDE DEF next
  <2>5. CASE c = Loaded(e, e.hurt, e.disk[n][r])
    <3>1. /\ c.k = next /\ c.last = next /\ c.write = FALSE /\ (c.err <=> e.disk[n][r] = Absent)
          /\ c.err \in BOOLEAN
          /\ c.data = Shown(e.disk[n][r]) /\ c.disk = e.disk /\ c.hurt = e.hurt
      BY <2>5 DEF Shown
    <3>2. c.data \in Data
      BY <3>1, <2>4, Constants DEF Shown
    <3> QED BY <1>2, <2>1, <2>2, <3>1, <3>2 DEF Taken
  <2>6. ASSUME NEW h \in Hurt(e.hurt, <<n, r>>), c = Loaded(e, h, Absent)
        PROVE  Taken(c, n, f, r)
    <3>1. /\ c.k = next /\ c.last = next /\ c.write = FALSE /\ c.err = TRUE
          /\ c.data = Zero /\ c.disk = e.disk /\ c.hurt = h
      BY <2>6
    <3>2. h = e.hurt \cup {<<n, r>>}
      BY <2>3, HurtFacts
    <3> QED BY <1>2, <2>1, <2>2, <3>1, <3>2, Constants DEF Taken
  <2> QED BY <2>2, <2>5, <2>6
<1> QED BY <1>1, <1>2

(***************************************************************************)
(* What a fetch leaves: the record has the place c.k, alone, and what was  *)
(* in that place is on file or spoiled.  Every other record is as it was,  *)
(* in the cache and on file.                                               *)
(***************************************************************************)
Fetched(c, n, f, r) ==
    /\ c.k \in Slot /\ c.last \in Slot \cup {0} /\ c.write \in BOOLEAN
    /\ c.err \in BOOLEAN /\ c.data \in Data
    /\ IsDisk(c.disk) /\ IsRecords(c.hurt) /\ hurt \subseteq c.hurt
    /\ \A j \in Holding(f, r) : j = c.k
    /\ \A m \in Name : \A s \in Rec(m) :
          \/ c.disk[m][s] = disk[m][s]
          \/ disk[m][s] = Absent /\ c.disk[m][s] = Zero
          \/ kwrite[c.k] /\ kcflno[c.k] # 0 /\ <<m, s>> = Place(c.k)
                /\ c.disk[m][s] = kcdata[c.k]
    /\ c.write => Found(c, f, r)
    /\ \/ Found(c, f, r)
       \/ <<n, r>> \in c.hurt
       \/ c.data = Shown(c.disk[n][r])

LEMMA FetchFacts ==
  ASSUME Shape, NEW n \in Name, NEW f \in FileNo, NEW r \in Rec(n), NEW c \in Fetch(n, f, r)
  PROVE  Fetched(c, n, f, r)
<1> USE DEF Fetched
<1>1. CASE Found(c, f, r)
  <2>1. c.k \in Slot /\ kcflno[c.k] = f /\ kcrecn[c.k] = r
    BY <1>1 DEF Found, Holding
  <2>2. \A j \in Holding(f, r) : j = c.k
    BY <2>1, Constants DEF Holding, Shape, OneCopy
  <2> QED BY <1>1, <2>1, <2>2 DEF Found, Shape, TypeOK
<1>2. CASE Taken(c, n, f, r)
  <2>1. PICK e \in Evict(c.k) :
          /\ c.disk = e.disk
          /\ \/ c.hurt = e.hurt /\ c.data = Shown(e.disk[n][r])
             \/ c.hurt = e.hurt \cup {<<n, r>>}
    BY <1>2 DEF Taken
  <2>2. c.k \in Slot /\ c.last = c.k /\ c.write = FALSE /\ c.data \in Data /\ c.err \in BOOLEAN
        /\ Holding(f, r) = {}
    BY <1>2 DEF Taken
  <2>3. IsDisk(e.disk) /\ IsRecords(e.hurt) /\ hurt \subseteq e.hurt
    BY <2>2, EvictFacts
  <2>4. \A m \in Name : \A s \in Rec(m) :
               \/ e.disk[m][s] = disk[m][s]
               \/ disk[m][s] = Absent /\ e.disk[m][s] = Zero
               \/ kwrite[c.k] /\ kcflno[c.k] # 0 /\ <<m, s>> = Place(c.k) /\ e.disk[m][s] = kcdata[c.k]
    BY <2>2, EvictFacts
  <2>5. IsRecords(c.hurt)
    BY <2>1, <2>3 DEF IsRecords
  <2>6. \/ <<n, r>> \in c.hurt
        \/ c.data = Shown(c.disk[n][r])
    BY <2>1
  <2> QED BY <2>1, <2>2, <2>3, <2>4, <2>5, <2>6
<1> QED BY <1>1, <1>2, FetchCases

-----------------------------------------------------------------------------
\* What is on file of a record that is in memory as data.
OnFile(x, data) == x = data \/ (x = Absent /\ data = Zero)

LEMMA CleanFacts ==
  CleanIsWritten <=>
    \A k \in Slot : kcflno[k] # 0 /\ ~kwrite[k] /\ Place(k) \notin hurt =>
        OnFile(disk[Place(k)[1]][Place(k)[2]], kcdata[k])
BY DEF CleanIsWritten, OnFile

LEMMA InstallFacts ==
  ASSUME TypeOK, NEW c, c.k \in Slot, c.last \in Slot \cup {0},
         NEW f \in FileNo \cup {0}, NEW r \in Nat, NEW data \in Data, NEW w \in BOOLEAN,
         Install(c, f, r, data, w)
  PROVE  /\ kcflno' \in [Slot -> FileNo \cup {0}] /\ kcrecn' \in [Slot -> Nat]
         /\ kcdata' \in [Slot -> Data] /\ kwrite' \in [Slot -> BOOLEAN]
         /\ kclast' \in Slot \cup {0}
         /\ kcflno'[c.k] = f /\ kcrecn'[c.k] = r /\ kcdata'[c.k] = data /\ kwrite'[c.k] = w
         /\ \A j \in Slot \ {c.k} : /\ kcflno'[j] = kcflno[j] /\ kcrecn'[j] = kcrecn[j]
                                    /\ kcdata'[j] = kcdata[j] /\ kwrite'[j] = kwrite[j]
BY DEF Install, TypeOK

(***************************************************************************)
(* A record r of file n, which has the number f, is fetched and given the  *)
(* content data; then, it may be, written.                                 *)
(***************************************************************************)
AccessStep(n, f, r, c, data, w) ==
    /\ n \in Name /\ f \in FileNo /\ lundm[f] = n /\ r \in Rec(n)
    /\ c \in Fetch(n, f, r) /\ data \in Data /\ w \in BOOLEAN
    /\ Install(c, f, r, data, w)
    /\ UNCHANGED access
    /\ IsDisk(disk') /\ IsRecords(hurt') /\ c.hurt \subseteq hurt'
    /\ \A m \in Name : \A s \in Rec(m) : <<m, s>> # <<n, r>> =>
          disk'[m][s] = c.disk[m][s] \/ (c.disk[m][s] = Absent /\ disk'[m][s] = Zero)
    /\ w \/ <<n, r>> \in hurt' \/ OnFile(disk'[n][r], data)
    /\ disk'[n][r] = c.disk[n][r] \/ OnFile(disk'[n][r], data)
    /\ w => wflag[f] \/ <<n, r>> \in hurt'
    /\ got' \in [last : {"read", "crash", "other"}, val : Data]

LEMMA RecordsType ==
  ASSUME NEW h, IsRecords(h)
  PROVE  \A x \in h : x[1] \in Name /\ x[2] \in Rec(x[1])
<1> SUFFICES ASSUME NEW x \in h PROVE x[1] \in Name /\ x[2] \in Rec(x[1])
  OBVIOUS
<1>1. PICK n \in Name : \E r \in Rec(n) : x = <<n, r>>
  BY DEF IsRecords
<1>2. PICK r \in Rec(n) : x = <<n, r>>
  BY <1>1
<1> QED BY <1>2

LEMMA AccessInv ==
  ASSUME Inv, NEW n, NEW f, NEW r, NEW c, NEW data, NEW w, AccessStep(n, f, r, c, data, w)
  PROVE  Inv'
<1> USE DEF Inv
<1>1. /\ n \in Name /\ f \in FileNo /\ lundm[f] = n /\ r \in Rec(n) /\ r \in Nat
      /\ c \in Fetch(n, f, r) /\ data \in Data /\ w \in BOOLEAN
  BY Constants DEF AccessStep
<1>2. /\ Install(c, f, r, data, w)
      /\ lundm' = lundm /\ wflag' = wflag /\ held' = held
  BY DEF AccessStep, access
<1>3. /\ c.k \in Slot /\ c.last \in Slot \cup {0}
      /\ hurt \subseteq c.hurt
      /\ \A j \in Holding(f, r) : j = c.k
      /\ \A m \in Name : \A s \in Rec(m) :
            \/ c.disk[m][s] = disk[m][s]
            \/ disk[m][s] = Absent /\ c.disk[m][s] = Zero
            \/ kwrite[c.k] /\ kcflno[c.k] # 0 /\ <<m, s>> = Place(c.k)
  <2>1. Fetched(c, n, f, r)
    <3>1. Shape
      BY DEF Inv
    <3> HIDE DEF Inv
    <3> QED BY <3>1, <1>1, FetchFacts
  <2> QED BY <2>1 DEF Fetched
<1>4. /\ kcflno' \in [Slot -> FileNo \cup {0}] /\ kcrecn' \in [Slot -> Nat]
      /\ kcdata' \in [Slot -> Data] /\ kwrite' \in [Slot -> BOOLEAN]
      /\ kclast' \in Slot \cup {0}
      /\ kcflno'[c.k] = f /\ kcrecn'[c.k] = r /\ kcdata'[c.k] = data /\ kwrite'[c.k] = w
      /\ \A j \in Slot \ {c.k} : /\ kcflno'[j] = kcflno[j] /\ kcrecn'[j] = kcrecn[j]
                                 /\ kcdata'[j] = kcdata[j] /\ kwrite'[j] = kwrite[j]
  BY <1>1, <1>2, <1>3, InstallFacts DEF Shape
<1>5. hurt \subseteq hurt'
  BY <1>3 DEF AccessStep
<1>6. TypeOK' /\ IsDisk(disk)' /\ IsRecords(hurt)'
  <2>1. \A x \in hurt' : x[1] \in Name /\ x[2] \in Rec(x[1])
    BY RecordsType DEF AccessStep
  <2>2. \A m \in Name : disk'[m] \in [Rec(m) -> Data \cup {Absent}]
    BY DEF AccessStep, IsDisk
  <2>3. got' \in [last : {"read", "crash", "other"}, val : Data]
    BY DEF AccessStep
  <2>4. IsDisk(disk') /\ IsRecords(hurt')
    BY DEF AccessStep
  <2> QED BY <1>2, <1>4, <2>1, <2>2, <2>3, <2>4 DEF TypeOK, Shape
<1>7. OneNumber' /\ NumbersReturn'
  BY <1>2 DEF OneNumber, NumbersReturn, Shape
<1>8. InFile'
  BY <1>1, <1>2, <1>4 DEF InFile, Shape
<1>9. ASSUME NEW j \in Slot, j # c.k, kcflno[j] # 0
      PROVE  /\ Place(j)' = Place(j)
             /\ Place(j) # <<n, r>>
             /\ ~ (kcflno[j] = f /\ kcrecn[j] = r)
             /\ kcflno[c.k] # 0 => Place(j) # Place(c.k)
  <2>1. Place(j)' = Place(j)
    BY <1>2, <1>4, <1>9 DEF Place
  <2>2. ~ (kcflno[j] = f /\ kcrecn[j] = r)
    BY <1>3, <1>9 DEF Holding
  <2>3. Place(j) = <<lundm[kcflno[j]], kcrecn[j]>> /\ kcflno[j] \in FileNo
    BY <1>9, PlaceFacts
  <2>4. lundm[kcflno[j]] = n => kcflno[j] = f
    BY <1>1, <2>3, Constants DEF Shape, OneNumber
  <2>5. Place(j) # <<n, r>>
    BY <2>2, <2>3, <2>4
  <2>6. kcflno[c.k] # 0 => Place(j) # Place(c.k)
    BY <1>3, <1>9, PlaceFacts
  <2> QED BY <2>1, <2>2, <2>5, <2>6
<1>10. Place(c.k)' = <<n, r>>
  BY <1>1, <1>2, <1>4 DEF Place
<1>11. OneCopy'
  <2> SUFFICES ASSUME NEW k \in Slot, kcflno'[k] # 0
               PROVE  /\ lundm'[kcflno'[k]] # Closed
                      /\ \A j \in Slot : kcflno'[j] = kcflno'[k] /\ kcrecn'[j] = kcrecn'[k] => j = k
    BY DEF OneCopy
  <2>1. lundm'[kcflno'[k]] # Closed
    BY <1>1, <1>2, <1>4, Constants DEF Shape, OneCopy
  <2>2. ASSUME NEW j \in Slot, kcflno'[j] = kcflno'[k], kcrecn'[j] = kcrecn'[k]
        PROVE  j = k
    <3>1. CASE j # c.k /\ k # c.k
      BY <3>1, <2>2, <1>4 DEF Shape, OneCopy
    <3>2. CASE j = c.k /\ k # c.k
      BY <3>2, <2>2, <1>4, <1>9
    <3>3. CASE j # c.k /\ k = c.k
      <4>1. kcflno[j] = f /\ kcrecn[j] = r /\ kcflno[j] # 0
        BY <3>3, <2>2, <1>1, <1>4, Constants
      <4> QED BY <3>3, <4>1, <1>9
    <3> QED BY <3>1, <3>2, <3>3
  <2> QED BY <2>1, <2>2
<1>12. CleanIsWritten'
  <2> SUFFICES ASSUME NEW k \in Slot, kcflno'[k] # 0, ~kwrite'[k], Place(k)' \notin hurt'
               PROVE  OnFile(disk'[Place(k)'[1]][Place(k)'[2]], kcdata'[k])
    BY DEF CleanIsWritten, OnFile
  <2>1. CASE k = c.k
    <3>1. ~ w /\ <<n, r>> \notin hurt'
      BY <2>1, <1>4, <1>10
    <3>2. OnFile(disk'[n][r], data)
      BY <3>1 DEF AccessStep
    <3> QED BY <2>1, <3>2, <1>4, <1>10
  <2>2. CASE k # c.k
    <3>1. kcflno[k] # 0 /\ ~kwrite[k] /\ kcdata'[k] = kcdata[k]
      BY <2>2, <1>4
    <3> DEFINE m == lundm[kcflno[k]]
               s == kcrecn[k]
    <3>2. m \in Name /\ s \in Rec(m) /\ Place(k) = <<m, s>> /\ Place(k)' = <<m, s>>
      BY <2>2, <3>1, <1>9, PlaceFacts
    <3> HIDE DEF m, s
    <3>3. <<m, s>> \notin hurt /\ <<m, s>> # <<n, r>> /\ (kcflno[c.k] # 0 => <<m, s>> # Place(c.k))
      BY <2>2, <3>1, <3>2, <1>5, <1>9
    <3>4. OnFile(disk[m][s], kcdata[k])
      BY <3>1, <3>2, <3>3, CleanFacts
    <3>5. c.disk[m][s] = disk[m][s] \/ (disk[m][s] = Absent /\ c.disk[m][s] = Zero)
      BY <1>3, <3>2, <3>3
    <3>6. disk'[m][s] = c.disk[m][s] \/ (c.disk[m][s] = Absent /\ disk'[m][s] = Zero)
      BY <3>2, <3>3 DEF AccessStep
    <3>7. kcdata[k] # Absent
      BY Constants DEF Shape, TypeOK
    <3>8. OnFile(disk'[m][s], kcdata[k])
      BY <3>4, <3>5, <3>6, <3>7 DEF OnFile
    <3> QED BY <3>1, <3>2, <3>8
  <2> QED BY <2>1, <2>2
<1>13. WaitsWithAccess'
  <2> SUFFICES ASSUME NEW k \in Slot, kwrite'[k], kcflno'[k] # 0
               PROVE  wflag'[kcflno'[k]] \/ Place(k)' \in hurt'
    BY DEF WaitsWithAccess
  <2>1. CASE k = c.k
    BY <2>1, <1>2, <1>4, <1>10 DEF AccessStep
  <2>2. CASE k # c.k
    <3>1. kwrite[k] /\ kcflno[k] # 0 /\ kcflno'[k] = kcflno[k] /\ Place(k)' = Place(k)
      BY <2>2, <1>4, <1>9
    <3> QED BY <3>1, <1>2, <1>5 DEF WaitsWithAccess
  <2> QED BY <2>1, <2>2
<1> QED BY <1>6, <1>7, <1>8, <1>11, <1>12, <1>13 DEF Shape


\* A fetched record that is not to be written is on file, and one that is may be.
LEMMA FetchClean ==
  ASSUME Inv, NEW n \in Name, NEW f \in FileNo, lundm[f] = n, NEW r \in Rec(n),
         NEW c \in Fetch(n, f, r)
  PROVE  /\ Fetched(c, n, f, r)
         /\ c.write \/ <<n, r>> \in c.hurt \/ OnFile(c.disk[n][r], c.data)
         /\ c.write => wflag[f] \/ <<n, r>> \in c.hurt
<1>1. Shape
  BY DEF Inv
<1>2. Fetched(c, n, f, r)
  BY <1>1, FetchFacts
<1>3. CASE Found(c, f, r)
  <2>1. /\ c.k \in Slot /\ kcflno[c.k] = f /\ kcrecn[c.k] = r /\ c.write = kwrite[c.k]
        /\ c.data = kcdata[c.k] /\ c.disk = disk /\ c.hurt = hurt
    BY <1>3 DEF Found, Holding
  <2>2. f # 0 /\ Place(c.k) = <<n, r>>
    BY <2>1, Constants DEF Place
  <2>3. ~kwrite[c.k] /\ <<n, r>> \notin hurt => OnFile(disk[n][r], kcdata[c.k])
    BY <2>1, <2>2, CleanFacts DEF Inv
  <2>4. kwrite[c.k] => wflag[f] \/ <<n, r>> \in hurt
    BY <2>1, <2>2 DEF Inv, WaitsWithAccess
  <2> QED BY <1>2, <2>1, <2>3, <2>4
<1>4. CASE ~Found(c, f, r)
  <2>1. ~c.write /\ (<<n, r>> \in c.hurt \/ c.data = Shown(c.disk[n][r]))
    BY <1>2, <1>4 DEF Fetched
  <2>2. c.data = Shown(c.disk[n][r]) => OnFile(c.disk[n][r], c.data)
    BY DEF Shown, OnFile
  <2> QED BY <1>2, <2>1, <2>2
<1> QED BY <1>3, <1>4

\* A number the program was given.
LEMMA HeldFacts ==
  ASSUME Inv, NEW f \in held
  PROVE  f \in FileNo /\ lundm[f] \in Name
BY DEF Inv, Shape, TypeOK, OneNumber

LEMMA ReadAccess ==
  ASSUME Inv, NEW f \in held, NEW r \in Rec(lundm[f]), Read(f, r)
  PROVE  \E n \in Name : \E c \in Fetch(n, f, r) :
            /\ AccessStep(n, f, r, c, c.data, c.write)
            /\ got' = Nothing \/ got' = [last |-> "read", val |-> c.data]
<1>1. PICK n \in Name : n = lundm[f]
  BY HeldFacts
<1>2. f \in FileNo /\ r \in Rec(n)
  BY <1>1, HeldFacts
<1>3. PICK c \in Fetch(n, f, r) :
        /\ Install(c, f, r, c.data, c.write)
        /\ disk' = c.disk /\ hurt' = c.hurt
        /\ got' = IF c.err THEN Nothing ELSE [last |-> "read", val |-> c.data]
        /\ UNCHANGED access
  BY <1>1 DEF Read
<1>4. /\ Fetched(c, n, f, r)
      /\ c.write \/ <<n, r>> \in c.hurt \/ OnFile(c.disk[n][r], c.data)
      /\ c.write => wflag[f] \/ <<n, r>> \in c.hurt
  BY <1>1, <1>2, FetchClean
<1>5. got' \in [last : {"read", "crash", "other"}, val : Data]
  BY <1>3, <1>4, Constants DEF Nothing, Fetched
<1>6. AccessStep(n, f, r, c, c.data, c.write)
  BY <1>1, <1>2, <1>3, <1>4, <1>5 DEF AccessStep, Fetched
<1> QED BY <1>3, <1>6

LEMMA WriteFltAccess ==
  ASSUME Inv, NEW f \in held, NEW r \in Rec(lundm[f]), NEW u \in Real, NEW v \in Val,
         WriteFlt(f, r, u, v)
  PROVE  \E n \in Name : \E c \in Fetch(n, f, r) : \E w \in BOOLEAN :
            AccessStep(n, f, r, c, [c.data EXCEPT ![u] = v], w) /\ got' = Nothing
<1>1. PICK n \in Name : n = lundm[f]
  BY HeldFacts
<1>2. f \in FileNo /\ r \in Rec(n)
  BY <1>1, HeldFacts
<1>3. PICK c \in Fetch(n, f, r) :
        /\ wflag[f]
        /\ Install(c, f, r, [c.data EXCEPT ![u] = v], TRUE)
        /\ disk' = c.disk /\ hurt' = c.hurt
        /\ got' = Nothing /\ UNCHANGED access
  BY <1>1 DEF WriteFlt
<1>4. Fetched(c, n, f, r)
  BY <1>1, <1>2, FetchClean
<1>5. [c.data EXCEPT ![u] = v] \in Data
  BY <1>4 DEF Fetched, Data, Word
<1>6. got' \in [last : {"read", "crash", "other"}, val : Data]
  BY <1>3, Constants DEF Nothing
<1>7. AccessStep(n, f, r, c, [c.data EXCEPT ![u] = v], TRUE)
  BY <1>1, <1>2, <1>3, <1>4, <1>5, <1>6 DEF AccessStep, Fetched
<1> QED BY <1>3, <1>7

LEMMA WriteIntAccess ==
  ASSUME Inv, NEW f \in held, NEW r \in Rec(lundm[f]), NEW u \in Int, NEW v \in Val,
         WriteInt(f, r, u, v)
  PROVE  \E n \in Name : \E c \in Fetch(n, f, r) : \E w \in BOOLEAN :
            AccessStep(n, f, r, c, [c.data EXCEPT ![u] = v], w) /\ got' = Nothing
<1>1. PICK n \in Name : n = lundm[f]
  BY HeldFacts
<1>2. f \in FileNo /\ r \in Rec(n)
  BY <1>1, HeldFacts
<1>3. PICK c \in Fetch(n, f, r) :
        /\ wflag[f]
        /\ Install(c, f, r, [c.data EXCEPT ![u] = v], c.write)
        /\ \/ disk' = Put(c.disk, n, r, [c.data EXCEPT ![u] = v]) /\ hurt' = c.hurt
           \/ disk' = c.disk /\ hurt' \in Hurt(c.hurt, <<n, r>>)
        /\ got' = Nothing /\ UNCHANGED access
  BY <1>1 DEF WriteInt
<1>4. /\ Fetched(c, n, f, r)
      /\ c.write => wflag[f] \/ <<n, r>> \in c.hurt
  BY <1>1, <1>2, FetchClean
<1>5. PICK data \in Data : data = [c.data EXCEPT ![u] = v]
  BY <1>4 DEF Fetched, Data, Word
<1>6. got' \in [last : {"read", "crash", "other"}, val : Data]
  BY <1>3, Constants DEF Nothing
<1>7. /\ IsDisk(disk') /\ IsRecords(hurt') /\ c.hurt \subseteq hurt'
      /\ \A m \in Name : \A s \in Rec(m) : <<m, s>> # <<n, r>> =>
            disk'[m][s] = c.disk[m][s] \/ (c.disk[m][s] = Absent /\ disk'[m][s] = Zero)
      /\ <<n, r>> \in hurt' \/ OnFile(disk'[n][r], data)
      /\ disk'[n][r] = c.disk[n][r] \/ OnFile(disk'[n][r], data)
  <2>1. IsDisk(c.disk) /\ IsRecords(c.hurt)
    BY <1>4 DEF Fetched
  <2>2. CASE disk' = Put(c.disk, n, r, data) /\ hurt' = c.hurt
    <3>1. /\ IsDisk(Put(c.disk, n, r, data))
          /\ Put(c.disk, n, r, data)[n][r] = data
          /\ \A m \in Name : \A s \in Rec(m) : <<m, s>> # <<n, r>> =>
               \/ Put(c.disk, n, r, data)[m][s] = c.disk[m][s]
               \/ c.disk[m][s] = Absent /\ Put(c.disk, n, r, data)[m][s] = Zero
      BY <1>2, <2>1, PutFacts
    <3> QED BY <2>1, <2>2, <3>1 DEF OnFile
  <2>3. CASE disk' = c.disk /\ hurt' \in Hurt(c.hurt, <<n, r>>)
    <3>1. PICK h \in Hurt(c.hurt, <<n, r>>) : h = hurt'
      BY <2>3
    <3>2. IsRecords(h) /\ h = c.hurt \cup {<<n, r>>}
      BY <1>2, <2>1, HurtFacts
    <3> QED BY <2>1, <2>3, <3>1, <3>2
  <2> QED BY <1>3, <1>5, <2>2, <2>3
<1>8. c.write \in BOOLEAN /\ (c.write => wflag[f] \/ <<n, r>> \in hurt')
  BY <1>4, <1>7 DEF Fetched
<1>9. Install(c, f, r, data, c.write)
  BY <1>3, <1>5
<1>10. AccessStep(n, f, r, c, data, c.write)
  BY <1>1, <1>2, <1>3, <1>6, <1>7, <1>8, <1>9 DEF AccessStep
<1> QED BY <1>3, <1>5, <1>8, <1>10

-----------------------------------------------------------------------------
\* DM_FWRT: what waits is written but for what fails, and nothing else
\* changes but from absent to blank.
LEMMA WrittenFacts ==
  ASSUME Shape, NEW f \in FileNo, NEW n \in Name, lundm[f] = n, NEW fails
  PROVE  /\ IsDisk(Written(f, fails))
         /\ \A m \in Name : \A s \in Rec(m) :
               \/ Written(f, fails)[m][s] = disk[m][s]
               \/ disk[m][s] = Absent /\ Written(f, fails)[m][s] = Zero
               \/ \E k \in Waiting(f) : Place(k) = <<m, s>>
         /\ \A k \in Waiting(f) : Place(k) \notin fails =>
               Written(f, fails)[Place(k)[1]][Place(k)[2]] = kcdata[k]
<1> DEFINE done == {k \in Waiting(f) : <<n, kcrecn[k]>> \notin fails}
           last == {s \in Rec(n) : \E k \in done : s =< kcrecn[k]}
           at   == [s \in Rec(n) |->
                      IF \E k \in done : kcrecn[k] = s
                      THEN kcdata[CHOOSE k \in done : kcrecn[k] = s]
                      ELSE IF s \in last THEN Shown(disk[n][s]) ELSE disk[n][s]]
           p    == Written(f, fails)
<1>1. p = [disk EXCEPT ![n] = at]
  BY DEF Written
<1>2. \A k \in Waiting(f) : /\ k \in Slot /\ kcflno[k] # 0 /\ kcflno[k] = f
                            /\ Place(k) = <<n, kcrecn[k]>> /\ kcrecn[k] \in Rec(n)
                            /\ kcdata[k] \in Data
  <2> SUFFICES ASSUME NEW k \in Waiting(f)
               PROVE  /\ k \in Slot /\ kcflno[k] # 0 /\ kcflno[k] = f
                      /\ Place(k) = <<n, kcrecn[k]>> /\ kcrecn[k] \in Rec(n)
                      /\ kcdata[k] \in Data
    OBVIOUS
  <2>1. k \in Slot /\ kcflno[k] = f /\ kcflno[k] # 0
    BY Constants DEF Waiting
  <2>2. kcdata[k] \in Data
    BY <2>1 DEF Shape, TypeOK
  <2> QED BY <2>1, <2>2, PlaceFacts
<1>3. \A j, k \in Waiting(f) : kcrecn[j] = kcrecn[k] => j = k
  BY <1>2, PlaceFacts
<1>4. \A k \in done : at[kcrecn[k]] = kcdata[k]
  <2> SUFFICES ASSUME NEW k \in done PROVE at[kcrecn[k]] = kcdata[k]
    OBVIOUS
  <2>1. kcrecn[k] \in Rec(n)
    BY <1>2
  <2>2. \A j \in done : kcrecn[j] = kcrecn[k] => j = k
    BY <1>3
  <2>3. (CHOOSE j \in done : kcrecn[j] = kcrecn[k]) = k
    BY <2>2
  <2> QED BY <2>1, <2>3
<1>5. \A s \in Rec(n) : \/ at[s] = disk[n][s]
                        \/ disk[n][s] = Absent /\ at[s] = Zero
                        \/ \E k \in done : kcrecn[k] = s
  BY DEF Shown
<1>6. disk[n] \in [Rec(n) -> Data \cup {Absent}]
  BY DEF Shape, IsDisk
<1>7. \A s \in Rec(n) : at[s] \in Data \cup {Absent}
  <2> SUFFICES ASSUME NEW s \in Rec(n) PROVE at[s] \in Data \cup {Absent}
    OBVIOUS
  <2>1. CASE \E k \in done : kcrecn[k] = s
    <3>1. PICK k \in done : kcrecn[k] = s
      BY <2>1
    <3>2. at[s] = kcdata[k] /\ kcdata[k] \in Data
      BY <3>1, <1>4, <1>2
    <3> QED BY <3>2
  <2>2. CASE ~ \E k \in done : kcrecn[k] = s
    BY <2>2, <1>5, <1>6, Constants
  <2> QED BY <2>1, <2>2
<1>8. at \in [Rec(n) -> Data \cup {Absent}]
  BY <1>7
<1> HIDE DEF at, p
<1>9. /\ p = [m \in Name |-> p[m]]
      /\ \A m \in Name : p[m] = IF m = n THEN at ELSE disk[m]
  <2>1. disk = [m \in Name |-> disk[m]]
    BY DEF Shape, IsDisk
  <2>2. [disk EXCEPT ![n] = at] = [m \in Name |-> IF m = n THEN at ELSE disk[m]]
    BY <2>1
  <2> QED BY <1>1, <2>2
<1>10. IsDisk(p)
  BY <1>8, <1>9 DEF IsDisk, Shape
<1>11. \A m \in Name : \A s \in Rec(m) :
               \/ p[m][s] = disk[m][s]
               \/ disk[m][s] = Absent /\ p[m][s] = Zero
               \/ \E k \in Waiting(f) : Place(k) = <<m, s>>
  <2> SUFFICES ASSUME NEW m \in Name, NEW s \in Rec(m),
                      ~ \E k \in Waiting(f) : Place(k) = <<m, s>>
               PROVE  p[m][s] = disk[m][s] \/ (disk[m][s] = Absent /\ p[m][s] = Zero)
    OBVIOUS
  <2>1. CASE m # n
    BY <2>1, <1>9
  <2>2. CASE m = n
    <3>1. s \in Rec(n) /\ p[m] = at
      BY <2>2, <1>9
    <3>2. ~ \E k \in done : kcrecn[k] = s
      BY <2>2, <1>2
    <3> QED BY <2>2, <3>1, <3>2, <1>5
  <2> QED BY <2>1, <2>2
<1>12. \A k \in Waiting(f) : Place(k) \notin fails => p[Place(k)[1]][Place(k)[2]] = kcdata[k]
  BY <1>2, <1>4, <1>9
<1> QED BY <1>10, <1>11, <1>12 DEF p

\* The records that are clean on file stay so when a file is flushed, and
\* what waited and did not fail is clean.
LEMMA FlushedFacts ==
  ASSUME Inv, NEW f \in held, NEW fails \in Failures(f), NEW k \in Slot, kcflno[k] # 0,
         ~kwrite[k] \/ k \in Waiting(f), Place(k) \notin hurt, Place(k) \notin fails
  PROVE  OnFile(Written(f, fails)[Place(k)[1]][Place(k)[2]], kcdata[k])
<1>1. PICK n \in Name : n = lundm[f]
  BY HeldFacts
<1>2. Shape /\ f \in FileNo
  BY HeldFacts DEF Inv
<1> DEFINE p == Written(f, fails)
<1>3. /\ \A m \in Name : \A s \in Rec(m) :
               \/ p[m][s] = disk[m][s]
               \/ disk[m][s] = Absent /\ p[m][s] = Zero
               \/ \E j \in Waiting(f) : Place(j) = <<m, s>>
      /\ \A j \in Waiting(f) : Place(j) \notin fails =>
               p[Place(j)[1]][Place(j)[2]] = kcdata[j]
  BY <1>1, <1>2, WrittenFacts
<1> HIDE DEF p
<1>4. CASE k \in Waiting(f)
  <2>1. p[Place(k)[1]][Place(k)[2]] = kcdata[k]
    BY <1>3, <1>4
  <2> QED BY <2>1 DEF OnFile, p
<1>5. CASE ~kwrite[k]
  <2> DEFINE m == lundm[kcflno[k]]
             s == kcrecn[k]
  <2>1. /\ m \in Name /\ s \in Rec(m) /\ Place(k) = <<m, s>>
        /\ \A j \in Slot : kcflno[j] # 0 /\ Place(j) = Place(k) => j = k
    BY <1>2, PlaceFacts
  <2> HIDE DEF m, s
  <2>2. ~ \E j \in Waiting(f) : Place(j) = <<m, s>>
    BY <1>5, <2>1, <1>2, Constants DEF Waiting
  <2>3. p[m][s] = disk[m][s] \/ (disk[m][s] = Absent /\ p[m][s] = Zero)
    BY <1>3, <2>1, <2>2
  <2>4. OnFile(disk[m][s], kcdata[k])
    BY <1>5, <2>1, CleanFacts DEF Inv
  <2>5. kcdata[k] \in Data
    BY <1>2 DEF Shape, TypeOK
  <2>6. OnFile(p[m][s], kcdata[k])
    BY <2>3, <2>4, <2>5, Constants DEF OnFile
  <2> QED BY <2>1, <2>6 DEF p
<1> QED BY <1>4, <1>5

LEMMA FailuresType ==
  ASSUME Inv, NEW f \in held, NEW fails \in Failures(f)
  PROVE  IsRecords(hurt \cup fails)
<1>1. Shape
  BY DEF Inv
<1>2. \A x \in fails : \E k \in Waiting(f) : x = Place(k)
  BY DEF Failures
<1>3. \A k \in Waiting(f) : k \in Slot /\ kcflno[k] # 0
  BY HeldFacts, Constants DEF Waiting
<1>4. IsRecords(fails)
  <2> SUFFICES ASSUME NEW x \in fails PROVE \E n \in Name : \E r \in Rec(n) : x = <<n, r>>
    BY DEF IsRecords
  <2>1. PICK k \in Waiting(f) : x = Place(k)
    BY <1>2
  <2> QED BY <1>1, <1>3, <2>1, PlaceFacts
<1> QED BY <1>1, <1>4 DEF IsRecords, Shape

LEMMA FlushInv ==
  ASSUME Inv, NEW f \in held, Flush(f)
  PROVE  Inv'
<1>1. PICK fails \in Failures(f) : disk' = Written(f, fails) /\ hurt' = hurt \cup fails
  BY DEF Flush
<1>2. /\ wflag[f] /\ lundm' = lundm /\ wflag' = wflag /\ held' = held
      /\ kcflno' = kcflno /\ kcrecn' = kcrecn /\ kcdata' = kcdata /\ kclast' = kclast
      /\ kwrite' = [k \in Slot |-> kwrite[k] /\ kcflno[k] # f]
      /\ got' = Nothing
  BY DEF Flush, access
<1>3. Shape /\ f \in FileNo /\ lundm[f] \in Name
  BY HeldFacts DEF Inv
<1>4. IsDisk(disk') /\ IsRecords(hurt')
  <2>1. PICK n \in Name : n = lundm[f]
    BY <1>3
  <2> QED BY <1>1, <1>3, <2>1, WrittenFacts, FailuresType
<1>5. TypeOK'
  <2>1. \A x \in hurt' : x[1] \in Name /\ x[2] \in Rec(x[1])
    BY <1>4, RecordsType
  <2>2. \A m \in Name : disk'[m] \in [Rec(m) -> Data \cup {Absent}]
    BY <1>4 DEF IsDisk
  <2>3. kwrite' \in [Slot -> BOOLEAN]
    BY <1>2
  <2>4. got' \in [last : {"read", "crash", "other"}, val : Data]
    BY <1>2, Constants DEF Nothing
  <2> QED BY <1>2, <1>3, <2>1, <2>2, <2>3, <2>4 DEF Shape, TypeOK
<1>6. OneNumber' /\ InFile' /\ OneCopy' /\ NumbersReturn'
  BY <1>2 DEF Inv, Shape, OneNumber, InFile, OneCopy, NumbersReturn
<1>7. \A k \in Slot : Place(k)' = Place(k)
  BY <1>2 DEF Place
<1>8. CleanIsWritten'
  <2> SUFFICES ASSUME NEW k \in Slot, kcflno'[k] # 0, ~kwrite'[k], Place(k)' \notin hurt'
               PROVE  OnFile(disk'[Place(k)'[1]][Place(k)'[2]], kcdata'[k])
    BY DEF CleanIsWritten, OnFile
  <2>1. ~kwrite[k] \/ k \in Waiting(f)
    BY <1>2 DEF Waiting
  <2>2. kcflno[k] # 0 /\ Place(k) \notin hurt /\ Place(k) \notin fails
    BY <1>1, <1>2, <1>7
  <2>3. OnFile(Written(f, fails)[Place(k)[1]][Place(k)[2]], kcdata[k])
    BY <2>1, <2>2, FlushedFacts
  <2> QED BY <2>3, <1>1, <1>2, <1>7
<1>9. WaitsWithAccess'
  BY <1>1, <1>2, <1>7 DEF Inv, WaitsWithAccess
<1> QED BY <1>3, <1>4, <1>5, <1>6, <1>8, <1>9 DEF Inv, Shape

LEMMA CloseInv ==
  ASSUME Inv, NEW f \in held, Close(f)
  PROVE  Inv'
<1>1. PICK fails \in Failures(f) : disk' = Written(f, fails) /\ hurt' = hurt \cup fails
  BY DEF Close
<1>2. /\ lundm' = [lundm EXCEPT ![f] = Closed]
      /\ wflag' = [wflag EXCEPT ![f] = FALSE]
      /\ held' = held \ {f}
      /\ kcflno' = [k \in Slot |-> IF kcflno[k] = f THEN 0 ELSE kcflno[k]]
      /\ kcrecn' = [k \in Slot |-> IF kcflno[k] = f THEN 0 ELSE kcrecn[k]]
      /\ kcdata' = [k \in Slot |-> IF kcflno[k] = f THEN Zero ELSE kcdata[k]]
      /\ kwrite' = [k \in Slot |-> kwrite[k] /\ k \notin Waiting(f)]
      /\ kclast' = kclast /\ got' = Nothing
  BY DEF Close, Forget
<1>3. Shape /\ f \in FileNo /\ lundm[f] \in Name
  BY HeldFacts DEF Inv
<1>4. IsDisk(disk') /\ IsRecords(hurt')
  <2>1. PICK n \in Name : n = lundm[f]
    BY <1>3
  <2> QED BY <1>1, <1>3, <2>1, WrittenFacts, FailuresType
<1>5. TypeOK'
  <2>1. \A x \in hurt' : x[1] \in Name /\ x[2] \in Rec(x[1])
    BY <1>4, RecordsType
  <2>2. \A m \in Name : disk'[m] \in [Rec(m) -> Data \cup {Absent}]
    BY <1>4 DEF IsDisk
  <2>3. kwrite' \in [Slot -> BOOLEAN]
    BY <1>2
  <2>4. got' \in [last : {"read", "crash", "other"}, val : Data]
    BY <1>2, Constants DEF Nothing
  <2>5. /\ kcflno' \in [Slot -> FileNo \cup {0}] /\ kcrecn' \in [Slot -> Nat]
        /\ kcdata' \in [Slot -> Data]
    BY <1>2, <1>3, Constants DEF Shape, TypeOK
  <2>6. /\ lundm' \in [FileNo -> Name \cup {Closed}] /\ wflag' \in [FileNo -> BOOLEAN]
        /\ held' \subseteq FileNo /\ kclast' \in Slot \cup {0}
    BY <1>2, <1>3 DEF Shape, TypeOK
  <2> QED BY <2>1, <2>2, <2>3, <2>4, <2>5, <2>6 DEF TypeOK
<1>6. \A k \in Slot : kcflno'[k] # 0 =>
         /\ kcflno[k] # 0 /\ kcflno[k] # f /\ kcflno[k] \in FileNo
         /\ kcflno'[k] = kcflno[k] /\ kcrecn'[k] = kcrecn[k] /\ kcdata'[k] = kcdata[k]
         /\ lundm'[kcflno[k]] = lundm[kcflno[k]] /\ wflag'[kcflno[k]] = wflag[kcflno[k]]
         /\ k \notin Waiting(f)
  BY <1>2, <1>3 DEF Waiting, Shape, TypeOK
<1>7. \A e \in FileNo : lundm'[e] = IF e = f THEN Closed ELSE lundm[e]
  BY <1>2, <1>3 DEF Shape, TypeOK
<1>8. \A k \in Slot : kcflno'[k] # 0 => Place(k)' = Place(k)
  BY <1>6 DEF Place
<1>9. OneNumber'
  BY <1>2, <1>3, <1>7 DEF Shape, OneNumber, TypeOK
<1>10. InFile'
  BY <1>3, <1>6 DEF Shape, InFile
<1>11. OneCopy'
  BY <1>3, <1>6 DEF Shape, OneCopy
<1>12. NumbersReturn'
  <2> SUFFICES ASSUME NEW e \in FileNo, lundm'[e] # Closed
               PROVE  e \in held' \/ (lundm'[e] \in Foreign /\ wflag'[e])
    BY DEF NumbersReturn
  <2>1. e # f /\ lundm'[e] = lundm[e]
    BY <1>7
  <2>2. wflag'[e] = wflag[e]
    BY <1>2, <1>3, <2>1 DEF Shape, TypeOK
  <2> QED BY <1>2, <2>1, <2>2 DEF Inv, NumbersReturn
<1>13. CleanIsWritten'
  <2> SUFFICES ASSUME NEW k \in Slot, kcflno'[k] # 0, ~kwrite'[k], Place(k)' \notin hurt'
               PROVE  OnFile(disk'[Place(k)'[1]][Place(k)'[2]], kcdata'[k])
    BY DEF CleanIsWritten, OnFile
  <2>1. ~kwrite[k]
    BY <1>2, <1>6
  <2>2. kcflno[k] # 0 /\ Place(k) \notin hurt /\ Place(k) \notin fails
    BY <1>1, <1>6, <1>8
  <2>3. OnFile(Written(f, fails)[Place(k)[1]][Place(k)[2]], kcdata[k])
    BY <2>1, <2>2, FlushedFacts
  <2> QED BY <2>3, <1>1, <1>6, <1>8
<1>14. WaitsWithAccess'
  <2> SUFFICES ASSUME NEW k \in Slot, kwrite'[k], kcflno'[k] # 0
               PROVE  wflag'[kcflno'[k]] \/ Place(k)' \in hurt'
    BY DEF WaitsWithAccess
  <2>1. kwrite[k] /\ kcflno[k] # 0
    BY <1>2, <1>6
  <2>2. wflag[kcflno[k]] \/ Place(k) \in hurt
    BY <2>1 DEF Inv, WaitsWithAccess
  <2> QED BY <2>2, <1>1, <1>6, <1>8
<1> QED BY <1>3, <1>4, <1>5, <1>9, <1>10, <1>11, <1>12, <1>13, <1>14 DEF Inv, Shape


-----------------------------------------------------------------------------
\* No record of a number that is free is in the cache.
LEMMA FreeNumber ==
  ASSUME Inv, NEW f \in FileNo, NEW n \in Name, Gets(f, n)
  PROVE  /\ Shape /\ lundm[f] = Closed /\ f # 0
         /\ \A e \in FileNo : lundm[e] # n
         /\ \A k \in Slot : kcflno[k] # f
         /\ \A k \in Slot : kcflno[k] # 0 => Place(k) \notin Of(n)
         /\ f \notin held
<1>1. /\ Shape /\ lundm[f] = Closed /\ f # 0
      /\ \A e \in FileNo : lundm[e] # n
  BY Constants DEF Gets, Inv
<1>2. \A k \in Slot : kcflno[k] # f
  BY <1>1 DEF Shape, OneCopy
<1>3. ASSUME NEW k \in Slot, kcflno[k] # 0 PROVE Place(k) \notin Of(n)
  <2>1. kcflno[k] \in FileNo /\ Place(k) = <<lundm[kcflno[k]], kcrecn[k]>>
    BY <1>1, <1>3, PlaceFacts
  <2> QED BY <1>1, <2>1 DEF Of
<1>4. f \notin held
  BY <1>1 DEF Shape, OneNumber
<1> QED BY <1>1, <1>2, <1>3, <1>4

\* A number that is granted is the only one of its file.
LEMMA GrantFacts ==
  ASSUME Inv, NEW f \in FileNo, NEW n \in Name, Gets(f, n), NEW wr \in BOOLEAN, Grant(f, n, wr)
  PROVE  /\ lundm' \in [FileNo -> Name \cup {Closed}] /\ wflag' \in [FileNo -> BOOLEAN]
         /\ lundm'[f] = n /\ wflag'[f] = wr
         /\ \A e \in FileNo : e # f => lundm'[e] = lundm[e] /\ wflag'[e] = wflag[e]
         /\ \A d, e \in FileNo : lundm'[d] = lundm'[e] /\ lundm'[d] # Closed => d = e
<1>1. Shape /\ \A e \in FileNo : lundm[e] # n
  BY FreeNumber
<1>2. /\ lundm' = [lundm EXCEPT ![f] = n] /\ wflag' = [wflag EXCEPT ![f] = wr]
  BY DEF Grant
<1>3. /\ lundm' \in [FileNo -> Name \cup {Closed}] /\ wflag' \in [FileNo -> BOOLEAN]
      /\ lundm'[f] = n /\ wflag'[f] = wr
      /\ \A e \in FileNo : e # f => lundm'[e] = lundm[e] /\ wflag'[e] = wflag[e]
  BY <1>1, <1>2 DEF Shape, TypeOK
<1>4. \A d, e \in FileNo : lundm'[d] = lundm'[e] /\ lundm'[d] # Closed => d = e
  BY <1>1, <1>3 DEF Shape, OneNumber
<1> QED BY <1>3, <1>4

LEMMA CreateInv ==
  ASSUME Inv, NEW f \in FileNo, NEW n \in Name, Create(f, n)
  PROVE  Inv'
<1>1. /\ Gets(f, n)
      /\ disk' = [disk EXCEPT ![n] = [r \in Rec(n) |-> Absent]]
      /\ Grant(f, n, TRUE)
      /\ held' = held \cup {f} /\ hurt' = hurt \ Of(n)
      /\ kcflno' = kcflno /\ kcrecn' = kcrecn /\ kcdata' = kcdata /\ kwrite' = kwrite
      /\ kclast' = kclast /\ got' = Nothing
  BY DEF Create, cache
<1>2. /\ Shape /\ \A k \in Slot : kcflno[k] # f
      /\ \A k \in Slot : kcflno[k] # 0 => Place(k) \notin Of(n)
  BY <1>1, FreeNumber
<1>3. /\ lundm' \in [FileNo -> Name \cup {Closed}] /\ wflag' \in [FileNo -> BOOLEAN]
      /\ lundm'[f] = n /\ wflag'[f] = TRUE
      /\ \A e \in FileNo : e # f => lundm'[e] = lundm[e] /\ wflag'[e] = wflag[e]
      /\ \A d, e \in FileNo : lundm'[d] = lundm'[e] /\ lundm'[d] # Closed => d = e
  BY <1>1, GrantFacts
<1>4. /\ disk' = [m \in Name |-> disk'[m]]
      /\ disk'[n] = [r \in Rec(n) |-> Absent]
      /\ \A m \in Name : m # n => disk'[m] = disk[m]
  <2>1. disk = [m \in Name |-> disk[m]]
    BY <1>2 DEF Shape, IsDisk
  <2>2. [disk EXCEPT ![n] = [r \in Rec(n) |-> Absent]]
           = [m \in Name |-> IF m = n THEN [r \in Rec(n) |-> Absent] ELSE disk[m]]
    BY <2>1
  <2> QED BY <1>1, <2>2
<1>5. IsDisk(disk') /\ IsRecords(hurt')
  <2>1. \A m \in Name : disk[m] \in [Rec(m) -> Data \cup {Absent}]
    BY <1>2 DEF Shape, IsDisk
  <2>2. \A m \in Name : disk'[m] \in [Rec(m) -> Data \cup {Absent}]
    BY <1>4, <2>1
  <2>3. IsRecords(hurt')
    BY <1>1, <1>2 DEF Shape, IsRecords
  <2> QED BY <1>4, <2>2, <2>3 DEF IsDisk
<1>6. TypeOK'
  <2>1. \A x \in hurt' : x[1] \in Name /\ x[2] \in Rec(x[1])
    BY <1>5, RecordsType
  <2>2. \A m \in Name : disk'[m] \in [Rec(m) -> Data \cup {Absent}]
    BY <1>5 DEF IsDisk
  <2>3. got' \in [last : {"read", "crash", "other"}, val : Data]
    BY <1>1, Constants DEF Nothing
  <2>4. held' \subseteq FileNo
    BY <1>1, <1>2 DEF Shape, TypeOK
  <2> QED BY <1>1, <1>2, <1>3, <2>1, <2>2, <2>3, <2>4 DEF Shape, TypeOK
<1>7. \A k \in Slot : kcflno[k] # 0 =>
         /\ kcflno[k] \in FileNo /\ lundm'[kcflno[k]] = lundm[kcflno[k]]
         /\ wflag'[kcflno[k]] = wflag[kcflno[k]]
         /\ Place(k)' = Place(k)
  BY <1>1, <1>2, <1>3 DEF Shape, TypeOK, Place
<1>8. OneNumber'
  BY <1>1, <1>2, <1>3, Constants DEF Shape, TypeOK, OneNumber
<1>9. InFile'
  BY <1>1, <1>2, <1>7 DEF Shape, InFile
<1>10. OneCopy'
  BY <1>1, <1>2, <1>7 DEF Shape, OneCopy
<1>11. NumbersReturn'
  BY <1>1, <1>3 DEF Inv, NumbersReturn
<1>12. CleanIsWritten'
  <2> SUFFICES ASSUME NEW k \in Slot, kcflno'[k] # 0, ~kwrite'[k], Place(k)' \notin hurt'
               PROVE  OnFile(disk'[Place(k)'[1]][Place(k)'[2]], kcdata'[k])
    BY DEF CleanIsWritten, OnFile
  <2>1. kcflno[k] # 0 /\ ~kwrite[k] /\ Place(k) \notin hurt
    BY <1>1, <1>2, <1>7
  <2>2. OnFile(disk[Place(k)[1]][Place(k)[2]], kcdata[k])
    BY <2>1, CleanFacts DEF Inv
  <2>3. Place(k)[1] \in Name /\ Place(k)[1] # n
    <3>1. /\ lundm[kcflno[k]] \in Name /\ kcrecn[k] \in Rec(lundm[kcflno[k]])
          /\ Place(k) = <<lundm[kcflno[k]], kcrecn[k]>>
      BY <1>2, <2>1, PlaceFacts
    <3> QED BY <3>1, <1>2, <2>1 DEF Of
  <2> QED BY <1>1, <1>4, <1>7, <2>1, <2>2, <2>3
<1>13. WaitsWithAccess'
  <2> SUFFICES ASSUME NEW k \in Slot, kwrite'[k], kcflno'[k] # 0
               PROVE  wflag'[kcflno'[k]] \/ Place(k)' \in hurt'
    BY DEF WaitsWithAccess
  <2>1. kwrite[k] /\ kcflno[k] # 0 /\ kcflno'[k] = kcflno[k]
    BY <1>1
  <2>2. wflag[kcflno[k]] \/ Place(k) \in hurt
    BY <2>1 DEF Inv, WaitsWithAccess
  <2> QED BY <2>1, <2>2, <1>1, <1>2, <1>7
<1> QED BY <1>2, <1>5, <1>6, <1>8, <1>9, <1>10, <1>11, <1>12, <1>13 DEF Inv, Shape

LEMMA ChangeInv ==
  ASSUME Inv, NEW f \in held, NEW wr \in BOOLEAN, Change(f, wr)
  PROVE  Inv'
<1>1. /\ wflag' = [wflag EXCEPT ![f] = wr]
      /\ hurt' = hurt \cup (IF wr THEN {} ELSE {Place(k) : k \in Waiting(f)})
      /\ disk' = disk /\ lundm' = lundm /\ held' = held
      /\ kcflno' = kcflno /\ kcrecn' = kcrecn /\ kcdata' = kcdata /\ kwrite' = kwrite
      /\ kclast' = kclast /\ got' = Nothing
  BY DEF Change, cache
<1>2. Shape /\ f \in FileNo
  BY HeldFacts DEF Inv
<1>3. IsRecords(hurt')
  <2>1. ASSUME NEW k \in Waiting(f)
        PROVE  \E n \in Name : \E r \in Rec(n) : Place(k) = <<n, r>>
    <3>1. k \in Slot /\ kcflno[k] # 0
      BY <1>2, Constants DEF Waiting
    <3> QED BY <1>2, <3>1, PlaceFacts
  <2> QED BY <1>1, <1>2, <2>1 DEF Shape, IsRecords
<1>4. wflag' \in [FileNo -> BOOLEAN] /\ \A e \in FileNo : e # f => wflag'[e] = wflag[e]
  BY <1>1, <1>2 DEF Shape, TypeOK
<1>5. wflag'[f] = wr
  BY <1>1, <1>2 DEF Shape, TypeOK
<1>6. TypeOK'
  <2>1. \A x \in hurt' : x[1] \in Name /\ x[2] \in Rec(x[1])
    BY <1>3, RecordsType
  <2>2. got' \in [last : {"read", "crash", "other"}, val : Data]
    BY <1>1, Constants DEF Nothing
  <2> QED BY <1>1, <1>2, <1>4, <2>1, <2>2 DEF Shape, TypeOK
<1>7. \A k \in Slot : Place(k)' = Place(k)
  BY <1>1 DEF Place
<1>8. OneNumber' /\ InFile' /\ OneCopy' /\ IsDisk(disk')
  BY <1>1, <1>2 DEF Shape, OneNumber, InFile, OneCopy
<1>9. NumbersReturn'
  BY <1>1, <1>4 DEF Inv, NumbersReturn
<1>10. CleanIsWritten'
  BY <1>1, <1>7 DEF Inv, CleanIsWritten
<1>11. WaitsWithAccess'
  <2> SUFFICES ASSUME NEW k \in Slot, kwrite[k], kcflno[k] # 0
               PROVE  wflag'[kcflno[k]] \/ Place(k) \in hurt'
    BY <1>1, <1>7 DEF WaitsWithAccess
  <2>1. wflag[kcflno[k]] \/ Place(k) \in hurt
    BY DEF Inv, WaitsWithAccess
  <2>2. kcflno[k] \in FileNo
    BY <1>2, PlaceFacts
  <2>3. CASE Place(k) \in hurt
    BY <2>3, <1>1
  <2>4. CASE wflag[kcflno[k]] /\ kcflno[k] # f
    BY <2>2, <2>4, <1>4
  <2>5. CASE wflag[kcflno[k]] /\ kcflno[k] = f
    <3>1. k \in Waiting(f)
      BY <2>5 DEF Waiting
    <3> QED BY <2>5, <3>1, <1>1, <1>5
  <2> QED BY <2>1, <2>3, <2>4, <2>5
<1> QED BY <1>2, <1>3, <1>6, <1>8, <1>9, <1>10, <1>11 DEF Inv, Shape

LEMMA CrashInv ==
  ASSUME Inv, Crash
  PROVE  Inv'
<1>1. /\ lundm' = [f \in FileNo |-> Closed]
      /\ wflag' = [f \in FileNo |-> FALSE] /\ held' = {}
      /\ kcflno' = [k \in Slot |-> 0] /\ kcrecn' = [k \in Slot |-> 0]
      /\ kcdata' = [k \in Slot |-> Zero] /\ kwrite' = [k \in Slot |-> FALSE]
      /\ kclast' = 0 /\ hurt' = {} /\ disk' = disk /\ got' = Died
  BY DEF Crash
<1>2. TypeOK'
  BY <1>1, Constants DEF Inv, Shape, TypeOK, Died
<1>3. OneNumber' /\ NumbersReturn'
  BY <1>1 DEF OneNumber, NumbersReturn
<1>4. InFile' /\ OneCopy'
  BY <1>1 DEF InFile, OneCopy
<1>5. CleanIsWritten' /\ WaitsWithAccess'
  BY <1>1 DEF CleanIsWritten, WaitsWithAccess
<1>6. IsDisk(disk') /\ IsRecords(hurt')
  BY <1>1 DEF Inv, Shape, IsRecords
<1> QED BY <1>2, <1>3, <1>4, <1>5, <1>6 DEF Inv, Shape

LEMMA InitInv == Init => Inv
<1> SUFFICES ASSUME Init PROVE Inv
  OBVIOUS
<1>1. IsDisk(disk) /\ IsRecords(hurt)
  BY Constants DEF Init, IsDisk, IsRecords
<1>2. TypeOK
  BY <1>1, Constants DEF Init, TypeOK, Nothing, IsDisk
<1>3. OneNumber /\ NumbersReturn
  BY DEF Init, OneNumber, NumbersReturn
<1>4. InFile /\ OneCopy
  BY DEF Init, InFile, OneCopy
<1>5. CleanIsWritten /\ WaitsWithAccess
  BY DEF Init, CleanIsWritten, WaitsWithAccess
<1> QED BY <1>1, <1>2, <1>3, <1>4, <1>5 DEF Inv, Shape


\* The label of a file that has no number is not in the cache.
LEMMA LabelFacts ==
  ASSUME Inv, NEW f \in FileNo, NEW n \in Name, Gets(f, n), NEW c \in Fetch(n, f, Label)
  PROVE  /\ Fetched(c, n, f, Label) /\ c.write = FALSE
         /\ ~c.err => OnFile(c.disk[n][Label], c.data)
<1>1. Shape /\ Label \in Rec(n) /\ Holding(f, Label) = {}
  BY FreeNumber, Constants DEF Holding
<1>2. Fetched(c, n, f, Label)
  BY <1>1, FetchFacts
<1>3. Taken(c, n, f, Label)
  BY <1>1, FetchCases DEF Found
<1>4. PICK e \in Evict(c.k) :
        /\ c.disk = e.disk
        /\ \/ c.hurt = e.hurt /\ c.data = Shown(e.disk[n][Label]) /\ (c.err <=> e.disk[n][Label] = Absent)
           \/ c.hurt = e.hurt \cup {<<n, Label>>} /\ c.data = Zero /\ c.err = TRUE
  BY <1>3 DEF Taken
<1>5. ~c.err => OnFile(c.disk[n][Label], c.data)
  BY <1>4 DEF OnFile, Shown
<1> QED BY <1>2, <1>3, <1>5 DEF Taken

LEMMA OpenInv ==
  ASSUME Inv, NEW f \in FileNo, NEW n \in Name, NEW wr \in BOOLEAN, Open(f, n, wr)
  PROVE  Inv'
<1>1. Gets(f, n)
  BY DEF Open
<1>2. PICK c \in Fetch(n, f, Label) :
        /\ Install(c, IF c.err THEN 0 ELSE f, Label, c.data, c.write)
        /\ disk' = c.disk /\ hurt' = c.hurt \ Of(n)
        /\ IF c.err THEN UNCHANGED access
           ELSE /\ Grant(f, n, wr)
                /\ held' = IF wr /\ n \in Foreign THEN held ELSE held \cup {f}
        /\ got' = Nothing
  BY DEF Open
<1>3. /\ Shape /\ lundm[f] = Closed /\ f # 0 /\ f \notin held
      /\ \A k \in Slot : kcflno[k] # f
      /\ \A k \in Slot : kcflno[k] # 0 => Place(k) \notin Of(n)
  BY <1>1, FreeNumber
<1>4. /\ Fetched(c, n, f, Label) /\ c.write = FALSE
      /\ ~c.err => OnFile(c.disk[n][Label], c.data)
  BY <1>1, LabelFacts
<1>5. PICK g \in FileNo \cup {0} : g = IF c.err THEN 0 ELSE f
  BY Constants
<1>6. /\ c.k \in Slot /\ c.last \in Slot \cup {0} /\ c.data \in Data /\ c.write \in BOOLEAN
      /\ c.err \in BOOLEAN /\ IsDisk(c.disk) /\ IsRecords(c.hurt) /\ hurt \subseteq c.hurt
  BY <1>4 DEF Fetched
<1>7. /\ kcflno' \in [Slot -> FileNo \cup {0}] /\ kcrecn' \in [Slot -> Nat]
      /\ kcdata' \in [Slot -> Data] /\ kwrite' \in [Slot -> BOOLEAN]
      /\ kclast' \in Slot \cup {0}
      /\ kcflno'[c.k] = g /\ kcrecn'[c.k] = Label /\ kcdata'[c.k] = c.data /\ kwrite'[c.k] = FALSE
      /\ \A j \in Slot \ {c.k} : /\ kcflno'[j] = kcflno[j] /\ kcrecn'[j] = kcrecn[j]
                                 /\ kcdata'[j] = kcdata[j] /\ kwrite'[j] = kwrite[j]
  <2>1. Install(c, g, Label, c.data, c.write) /\ Label \in Nat
    BY <1>2, <1>5 DEF Label
  <2>2. TypeOK
    BY <1>3 DEF Shape
  <2> QED BY <2>1, <2>2, <1>4, <1>6, InstallFacts
\* The numbers, whether the file was opened or not.
<1>8. /\ lundm' \in [FileNo -> Name \cup {Closed}] /\ wflag' \in [FileNo -> BOOLEAN]
      /\ \A e \in FileNo : e # f => lundm'[e] = lundm[e] /\ wflag'[e] = wflag[e]
      /\ \A d, e \in FileNo : lundm'[d] = lundm'[e] /\ lundm'[d] # Closed => d = e
      /\ c.err => lundm'[f] = Closed /\ held' = held
      /\ ~c.err => /\ lundm'[f] = n /\ wflag'[f] = wr
                   /\ held' = held \cup {f} \/ (held' = held /\ wr /\ n \in Foreign)
  <2>1. CASE c.err
    <3>1. lundm' = lundm /\ wflag' = wflag /\ held' = held
      BY <2>1, <1>2 DEF access
    <3> QED BY <2>1, <3>1, <1>3 DEF Shape, TypeOK, OneNumber
  <2>2. CASE ~c.err
    <3>1. Grant(f, n, wr) /\ held' = IF wr /\ n \in Foreign THEN held ELSE held \cup {f}
      BY <2>2, <1>2
    <3>2. /\ lundm' \in [FileNo -> Name \cup {Closed}] /\ wflag' \in [FileNo -> BOOLEAN]
          /\ lundm'[f] = n /\ wflag'[f] = wr
          /\ \A e \in FileNo : e # f => lundm'[e] = lundm[e] /\ wflag'[e] = wflag[e]
          /\ \A d, e \in FileNo : lundm'[d] = lundm'[e] /\ lundm'[d] # Closed => d = e
      BY <3>1, <1>1, GrantFacts
    <3> QED BY <2>2, <3>1, <3>2
  <2> QED BY <2>1, <2>2
<1>9. IsDisk(disk') /\ IsRecords(hurt')
  BY <1>2, <1>6 DEF IsRecords
<1>10. TypeOK'
  <2>1. \A x \in hurt' : x[1] \in Name /\ x[2] \in Rec(x[1])
    BY <1>9, RecordsType
  <2>2. \A m \in Name : disk'[m] \in [Rec(m) -> Data \cup {Absent}]
    BY <1>9 DEF IsDisk
  <2>3. got' \in [last : {"read", "crash", "other"}, val : Data]
    BY <1>2, Constants DEF Nothing
  <2>4. held' \subseteq FileNo
    BY <1>3, <1>8 DEF Shape, TypeOK
  <2> QED BY <1>7, <1>8, <2>1, <2>2, <2>3, <2>4 DEF TypeOK
<1>11. OneNumber'
  BY <1>3, <1>8, Constants DEF Shape, TypeOK, OneNumber
<1>12. NumbersReturn'
  <2> SUFFICES ASSUME NEW e \in FileNo, lundm'[e] # Closed
               PROVE  e \in held' \/ (lundm'[e] \in Foreign /\ wflag'[e])
    BY DEF NumbersReturn
  <2>1. CASE e = f
    BY <2>1, <1>8
  <2>2. CASE e # f
    <3>1. e \in held \/ (lundm[e] \in Foreign /\ wflag[e])
      BY <2>2, <1>8 DEF Inv, NumbersReturn
    <3>2. held \subseteq held'
      BY <1>8
    <3> QED BY <2>2, <3>1, <3>2, <1>8
  <2> QED BY <2>1, <2>2
<1>13. \A k \in Slot \ {c.k} : kcflno'[k] # 0 =>
         /\ kcflno[k] # 0 /\ kcflno[k] # f /\ kcflno[k] \in FileNo
         /\ lundm'[kcflno[k]] = lundm[kcflno[k]] /\ wflag'[kcflno[k]] = wflag[kcflno[k]]
         /\ Place(k)' = Place(k)
  BY <1>3, <1>7, <1>8 DEF Shape, TypeOK, Place
<1>14. kcflno'[c.k] # 0 => ~c.err /\ g = f /\ Place(c.k)' = <<n, Label>>
  BY <1>5, <1>7, <1>8 DEF Place
<1>15. InFile'
  <2> SUFFICES ASSUME NEW k \in Slot, kcflno'[k] # 0 PROVE kcrecn'[k] \in Rec(lundm'[kcflno'[k]])
    BY DEF InFile
  <2>1. CASE k = c.k
    BY <2>1, <1>7, <1>8, <1>14, Constants
  <2>2. CASE k # c.k
    BY <2>2, <1>3, <1>7, <1>13 DEF Shape, InFile
  <2> QED BY <2>1, <2>2
<1>16. OneCopy'
  <2> SUFFICES ASSUME NEW k \in Slot, kcflno'[k] # 0
               PROVE  /\ lundm'[kcflno'[k]] # Closed
                      /\ \A j \in Slot : kcflno'[j] = kcflno'[k] /\ kcrecn'[j] = kcrecn'[k] => j = k
    BY DEF OneCopy
  <2>1. CASE k = c.k
    BY <2>1, <1>3, <1>7, <1>8, <1>14, Constants
  <2>2. CASE k # c.k
    <3>1. lundm'[kcflno'[k]] # Closed
      BY <2>2, <1>3, <1>7, <1>13 DEF Shape, OneCopy
    <3>2. \A j \in Slot : kcflno'[j] = kcflno'[k] /\ kcrecn'[j] = kcrecn'[k] => j = k
      <4> SUFFICES ASSUME NEW j \in Slot, kcflno'[j] = kcflno'[k], kcrecn'[j] = kcrecn'[k]
                   PROVE  j = k
        OBVIOUS
      <4>1. j # c.k
        BY <2>2, <1>7, <1>13, <1>14
      <4> QED BY <2>2, <4>1, <1>3, <1>7, <1>13 DEF Shape, OneCopy
    <3> QED BY <3>1, <3>2
  <2> QED BY <2>1, <2>2
<1>17. CleanIsWritten'
  <2> SUFFICES ASSUME NEW k \in Slot, kcflno'[k] # 0, ~kwrite'[k], Place(k)' \notin hurt'
               PROVE  OnFile(disk'[Place(k)'[1]][Place(k)'[2]], kcdata'[k])
    BY DEF CleanIsWritten, OnFile
  <2>1. CASE k = c.k
    BY <2>1, <1>2, <1>4, <1>7, <1>14
  <2>2. CASE k # c.k
    <3>1. /\ kcflno[k] # 0 /\ ~kwrite[k] /\ kcdata'[k] = kcdata[k]
          /\ Place(k)' = Place(k)
      BY <2>2, <1>7, <1>13
    <3> DEFINE m == lundm[kcflno[k]]
               s == kcrecn[k]
    <3>2. /\ m \in Name /\ s \in Rec(m) /\ Place(k) = <<m, s>>
          /\ \A j \in Slot : kcflno[j] # 0 /\ Place(j) = Place(k) => j = k
      BY <3>1, <1>3, PlaceFacts
    <3> HIDE DEF m, s
    <3>3. <<m, s>> \notin hurt
      BY <3>1, <3>2, <1>2, <1>3, <1>6
    <3>4. kcflno[c.k] # 0 => <<m, s>> # Place(c.k)
      BY <2>2, <3>2, <1>6
    <3>5. OnFile(disk[m][s], kcdata[k])
      BY <3>1, <3>2, <3>3, CleanFacts DEF Inv
    <3>6. c.disk[m][s] = disk[m][s] \/ (disk[m][s] = Absent /\ c.disk[m][s] = Zero)
      BY <1>4, <3>2, <3>4 DEF Fetched
    <3>7. kcdata[k] \in Data
      BY <1>3 DEF Shape, TypeOK
    <3>8. OnFile(c.disk[m][s], kcdata[k])
      BY <3>5, <3>6, <3>7, Constants DEF OnFile
    <3> QED BY <3>1, <3>2, <3>8, <1>2
  <2> QED BY <2>1, <2>2
<1>18. WaitsWithAccess'
  <2> SUFFICES ASSUME NEW k \in Slot, kwrite'[k], kcflno'[k] # 0
               PROVE  wflag'[kcflno'[k]] \/ Place(k)' \in hurt'
    BY DEF WaitsWithAccess
  <2>1. k # c.k
    BY <1>7
  <2>2. /\ kwrite[k] /\ kcflno[k] # 0 /\ kcflno'[k] = kcflno[k]
        /\ wflag'[kcflno[k]] = wflag[kcflno[k]] /\ Place(k)' = Place(k)
    BY <2>1, <1>7, <1>13
  <2>3. wflag[kcflno[k]] \/ Place(k) \in hurt
    BY <2>2 DEF Inv, WaitsWithAccess
  <2>4. Place(k) \in hurt => Place(k) \in hurt'
    BY <2>2, <1>2, <1>3, <1>6
  <2> QED BY <2>2, <2>3, <2>4
<1> QED BY <1>9, <1>10, <1>11, <1>12, <1>15, <1>16, <1>17, <1>18 DEF Inv, Shape

-----------------------------------------------------------------------------
LEMMA StepInv == Inv /\ [Next]_vars => Inv'
<1> SUFFICES ASSUME Inv, [Next]_vars PROVE Inv'
  OBVIOUS
<1>1. ASSUME NEW f \in held, NEW r \in Rec(lundm[f]), Read(f, r) PROVE Inv'
  BY <1>1, ReadAccess, AccessInv
<1>2. ASSUME NEW f \in held, NEW r \in Rec(lundm[f]), NEW w \in Int, NEW v \in Val,
             WriteInt(f, r, w, v)
      PROVE  Inv'
  BY <1>2, WriteIntAccess, AccessInv
<1>3. ASSUME NEW f \in held, NEW r \in Rec(lundm[f]), NEW w \in Real, NEW v \in Val,
             WriteFlt(f, r, w, v)
      PROVE  Inv'
  BY <1>3, WriteFltAccess, AccessInv
<1>4. ASSUME NEW f \in held, Flush(f) \/ Close(f) \/ Change(f, TRUE) \/ Change(f, FALSE)
      PROVE  Inv'
  BY <1>4, FlushInv, CloseInv, ChangeInv
<1>5. ASSUME NEW f \in FileNo, NEW n \in Name,
             Create(f, n) \/ Open(f, n, TRUE) \/ Open(f, n, FALSE)
      PROVE  Inv'
  BY <1>5, CreateInv, OpenInv
<1>6. CASE Crash
  BY <1>6, CrashInv
<1>7. CASE UNCHANGED vars
  <2>1. /\ disk' = disk /\ lundm' = lundm /\ wflag' = wflag /\ held' = held
        /\ kcflno' = kcflno /\ kcrecn' = kcrecn /\ kcdata' = kcdata /\ kwrite' = kwrite
        /\ kclast' = kclast /\ got' = got /\ hurt' = hurt
    BY <1>7 DEF vars
  <2>2. TypeOK' /\ OneNumber' /\ InFile' /\ OneCopy' /\ IsDisk(disk') /\ IsRecords(hurt')
    BY <2>1 DEF Inv, Shape, TypeOK, OneNumber, InFile, OneCopy
  <2>3. CleanIsWritten' /\ WaitsWithAccess' /\ NumbersReturn'
    BY <2>1 DEF Inv, CleanIsWritten, WaitsWithAccess, NumbersReturn, Place
  <2> QED BY <2>2, <2>3 DEF Inv, Shape
<1> QED BY <1>1, <1>2, <1>3, <1>4, <1>5, <1>6, <1>7 DEF Next

\* The invariant of all that follows.
THEOREM CacheInvariant == Spec => []Inv
<1> QED BY InitInv, StepInv, PTL DEF Spec

(***************************************************************************)
(* The types of the state, for any files, records and failures.            *)
(***************************************************************************)
THEOREM CacheTypes == Spec => []TypeOK
<1>1. Inv => TypeOK
  BY DEF Inv, Shape
<1> QED BY <1>1, CacheInvariant, PTL

(***************************************************************************)
(* DM_RREC finds the one copy of a record in the cache, or none: no record *)
(* has two places, whichever way it got there, and no place is under the   *)
(* number of a file that is closed (DM_CLOS, DM_OPEN).                     *)
(***************************************************************************)
THEOREM RecordsHaveOneCopy == Spec => []OneCopy
<1>1. Inv => OneCopy
  BY DEF Inv, Shape
<1> QED BY <1>1, CacheInvariant, PTL

(***************************************************************************)
(* DM_NXTC may take a place that is not marked in kwrite: its record is on *)
(* file, unless a call failed on it.                                       *)
(***************************************************************************)
THEOREM CleanPlacesAreWritten == Spec => []CleanIsWritten
<1>1. Inv => CleanIsWritten
  BY DEF Inv
<1> QED BY <1>1, CacheInvariant, PTL

(***************************************************************************)
(* What waits in memory belongs to a number with write access, or was hurt *)
(* when DM_CHNG took the access away.                                      *)
(***************************************************************************)
THEOREM WaitingHasAccess == Spec => []WaitsWithAccess
<1>1. Inv => WaitsWithAccess
  BY DEF Inv
<1> QED BY <1>1, CacheInvariant, PTL

(***************************************************************************)
(* A file number is free or the program's, but for the numbers of files    *)
(* that DM_OPEN refused.                                                   *)
(***************************************************************************)
THEOREM NumbersComeBack == Spec => []NumbersReturn
<1>1. Inv => NumbersReturn
  BY DEF Inv
<1> QED BY <1>1, CacheInvariant, PTL

-----------------------------------------------------------------------------
(***************************************************************************)
(* DMCache implements DMWords: whatever is in the cache, a program reads   *)
(* the words it wrote.                                                     *)
(***************************************************************************)
\* What Seen is: the copy in the cache, or what is on file.
Cached(k, m, s) == kcflno[k] # 0 /\ Place(k) = <<m, s>>

SeenRight ==
    \A m \in Name : \A s \in Rec(m) :
        /\ \A k \in Slot : Cached(k, m, s) => Seen(m, s) = kcdata[k]
        /\ (\A k \in Slot : ~Cached(k, m, s)) => Seen(m, s) = Shown(disk[m][s])

LEMMA SeenFacts == Shape => SeenRight
<1> SUFFICES ASSUME Shape, NEW m \in Name, NEW s \in Rec(m)
             PROVE  /\ \A k \in Slot : Cached(k, m, s) => Seen(m, s) = kcdata[k]
                    /\ (\A k \in Slot : ~Cached(k, m, s)) => Seen(m, s) = Shown(disk[m][s])
  BY DEF SeenRight
<1> DEFINE at(k) == kcrecn[k] = s /\ kcflno[k] # 0 /\ lundm[kcflno[k]] = m
<1>1. Seen(m, s) = IF \E k \in Slot : at(k) THEN kcdata[CHOOSE k \in Slot : at(k)]
                   ELSE Shown(disk[m][s])
  BY DEF Seen
<1>2. \A k \in Slot : at(k) <=> Cached(k, m, s)
  BY DEF Cached, Place
<1>3. ASSUME NEW k \in Slot, Cached(k, m, s) PROVE Seen(m, s) = kcdata[k]
  <2>1. at(k)
    BY <1>2, <1>3
  <2>2. \A j \in Slot : at(j) => j = k
    BY <1>2, <1>3, PlaceFacts DEF Cached
  <2> HIDE DEF at
  <2>3. (CHOOSE j \in Slot : at(j)) = k
    BY <2>1, <2>2
  <2> QED BY <1>1, <2>1, <2>3
<1>4. ASSUME \A k \in Slot : ~Cached(k, m, s) PROVE Seen(m, s) = Shown(disk[m][s])
  BY <1>1, <1>2, <1>4
<1> QED BY <1>3, <1>4

LEMMA SeenNext == Shape' => SeenRight'
<1> QED BY SeenFacts, PTL

\* What is on file of a record shows as the copy in the cache does.
LEMMA ShownFacts ==
  /\ \A x, d : OnFile(x, d) /\ d \in Data => Shown(x) = d
  /\ \A x, y : y = x \/ (x = Absent /\ y = Zero) => Shown(y) = Shown(x)
BY Constants DEF OnFile, Shown

(***************************************************************************)
(* A record other than the one that is fetched shows as before, whether it *)
(* stays where it is, loses its place or never had one.                    *)
(***************************************************************************)
LEMMA OthersStay ==
  ASSUME Inv, Shape', NEW n \in Name, NEW f \in FileNo, NEW r \in Rec(n), NEW c \in Fetch(n, f, r),
         kcflno'[c.k] # 0 => Place(c.k)' = <<n, r>>,
         \A j \in Slot \ {c.k} : /\ kcflno'[j] = kcflno[j] /\ kcdata'[j] = kcdata[j]
                                 /\ kcflno[j] # 0 => Place(j)' = Place(j),
         Holding(f, r) # {} => kcflno[c.k] # 0 /\ Place(c.k) = <<n, r>>,
         NEW m \in Name, NEW s \in Rec(m), <<m, s>> # <<n, r>>, <<m, s>> \notin c.hurt,
         disk'[m][s] = c.disk[m][s] \/ (c.disk[m][s] = Absent /\ disk'[m][s] = Zero)
  PROVE  /\ Seen(m, s)' = Seen(m, s)
         /\ Shown(disk'[m][s]) \in {Shown(disk[m][s]), Seen(m, s)}
<1>1. Shape
  BY DEF Inv
<1>2. Fetched(c, n, f, r)
  BY <1>1, FetchFacts
<1>3. /\ c.k \in Slot /\ <<m, s>> \notin hurt
      /\ \/ c.disk[m][s] = disk[m][s]
         \/ disk[m][s] = Absent /\ c.disk[m][s] = Zero
         \/ kwrite[c.k] /\ Cached(c.k, m, s) /\ c.disk[m][s] = kcdata[c.k]
  BY <1>2 DEF Fetched, Cached
<1>4. /\ \A k \in Slot : Cached(k, m, s) => Seen(m, s) = kcdata[k]
      /\ (\A k \in Slot : ~Cached(k, m, s)) => Seen(m, s) = Shown(disk[m][s])
  BY <1>1, SeenFacts DEF SeenRight
<1>5. /\ \A k \in Slot : Cached(k, m, s)' => Seen(m, s)' = kcdata'[k]
      /\ (\A k \in Slot : ~Cached(k, m, s)') => Seen(m, s)' = Shown(disk'[m][s])
  BY SeenNext DEF SeenRight
<1>6. Shown(disk'[m][s]) = Shown(c.disk[m][s])
  BY ShownFacts
<1>7. \A k \in Slot : kcdata[k] \in Data
  BY <1>1 DEF Shape, TypeOK
<1>8. ~ Cached(c.k, m, s)'
  BY DEF Cached
<1>9. \A j \in Slot \ {c.k} : Cached(j, m, s)' <=> Cached(j, m, s)
  BY DEF Cached
<1>10. CASE \E j \in Slot \ {c.k} : Cached(j, m, s)
  <2>1. PICK j \in Slot \ {c.k} : Cached(j, m, s)
    BY <1>10
  <2>2. ~ Cached(c.k, m, s)
    BY <1>1, <1>3, <2>1, PlaceFacts DEF Cached
  <2>3. Seen(m, s) = kcdata[j] /\ Seen(m, s)' = kcdata[j]
    BY <2>1, <1>4, <1>5, <1>9
  <2>4. Shown(c.disk[m][s]) = Shown(disk[m][s])
    BY <1>3, <2>2, ShownFacts
  <2> QED BY <1>6, <2>3, <2>4
<1>11. CASE Cached(c.k, m, s)
  <2>1. \A j \in Slot : ~Cached(j, m, s)'
    BY <1>1, <1>3, <1>8, <1>9, <1>11, PlaceFacts DEF Cached
  <2>2. Seen(m, s) = kcdata[c.k] /\ Seen(m, s)' = Shown(disk'[m][s])
    BY <1>3, <1>4, <1>5, <1>11, <2>1
  <2>3. ~ kwrite[c.k] => OnFile(disk[m][s], kcdata[c.k])
    BY <1>3, <1>11, CleanFacts DEF Inv, Cached
  <2>4. Taken(c, n, f, r)
    BY <1>1, <1>11, FetchCases DEF Found, Cached
  <2>5. PICK e \in Evict(c.k) : c.disk = e.disk /\ e.hurt \subseteq c.hurt
    BY <2>4 DEF Taken
  <2>6. /\ kwrite[c.k] => e.disk[m][s] = kcdata[c.k]
        /\ \/ e.disk[m][s] = disk[m][s]
           \/ disk[m][s] = Absent /\ e.disk[m][s] = Zero
           \/ kwrite[c.k] /\ e.disk[m][s] = kcdata[c.k]
    <3>1. Place(c.k) = <<m, s>> /\ kcflno[c.k] # 0 /\ Place(c.k)[1] = m /\ Place(c.k)[2] = s
      BY <1>11 DEF Cached
    <3>2. Place(c.k) \notin e.hurt
      BY <2>5, <3>1
    <3>3. /\ \A i \in Name : \A t \in Rec(i) :
               \/ e.disk[i][t] = disk[i][t]
               \/ disk[i][t] = Absent /\ e.disk[i][t] = Zero
               \/ kwrite[c.k] /\ kcflno[c.k] # 0 /\ <<i, t>> = Place(c.k) /\ e.disk[i][t] = kcdata[c.k]
          /\ kwrite[c.k] /\ kcflno[c.k] # 0 /\ Place(c.k) \notin e.hurt =>
               e.disk[Place(c.k)[1]][Place(c.k)[2]] = kcdata[c.k]
      BY <1>1, <1>3, EvictFacts
    <3> QED BY <3>1, <3>2, <3>3
  <2>7. Shown(c.disk[m][s]) = kcdata[c.k]
    BY <1>3, <1>7, <2>3, <2>5, <2>6, ShownFacts DEF OnFile
  <2> QED BY <1>6, <2>2, <2>7
<1>12. CASE \A j \in Slot : ~Cached(j, m, s)
  <2>1. \A j \in Slot : ~Cached(j, m, s)'
    BY <1>8, <1>9, <1>12
  <2>2. Shown(c.disk[m][s]) = Shown(disk[m][s])
    BY <1>3, <1>12, ShownFacts
  <2> QED BY <1>4, <1>5, <1>6, <1>12, <2>1, <2>2
<1> QED BY <1>10, <1>11, <1>12


(***************************************************************************)
(* A read or a write of a record leaves all others as they are, and what   *)
(* it puts on file is a content of that time.                              *)
(***************************************************************************)
LEMMA AccessSeen ==
  ASSUME Inv, Inv', NEW n, NEW f, NEW r, NEW c, NEW data, NEW w, AccessStep(n, f, r, c, data, w)
  PROVE  /\ hurt \subseteq hurt'
         /\ \A m \in Name : \A s \in Rec(m) : <<m, s>> # <<n, r>> =>
               <<m, s>> \in hurt' \/ Seen(m, s)' = Seen(m, s)
         /\ Seen(n, r)' = data
         /\ <<n, r>> \in hurt' \/ c.data = Seen(n, r)
         /\ \A m \in Name : \A s \in Rec(m) :
               <<m, s>> \in hurt' \/ Shown(disk'[m][s]) \in {Shown(disk[m][s]), Seen(m, s), Seen(m, s)'}
<1>1. /\ n \in Name /\ f \in FileNo /\ lundm[f] = n /\ r \in Rec(n) /\ r \in Nat
      /\ c \in Fetch(n, f, r) /\ data \in Data /\ w \in BOOLEAN
      /\ Install(c, f, r, data, w)
  BY Constants DEF AccessStep
<1>2. Shape /\ Shape' /\ TypeOK /\ f # 0
  BY <1>1, Constants DEF Inv, Shape
<1>3. /\ lundm' = lundm /\ c.hurt \subseteq hurt'
      /\ \A m \in Name : \A s \in Rec(m) : <<m, s>> # <<n, r>> =>
            disk'[m][s] = c.disk[m][s] \/ (c.disk[m][s] = Absent /\ disk'[m][s] = Zero)
      /\ disk'[n][r] = c.disk[n][r] \/ OnFile(disk'[n][r], data)
  BY DEF AccessStep, access
<1>4. Fetched(c, n, f, r)
  BY <1>1, <1>2, FetchFacts
<1>5. /\ c.k \in Slot /\ c.last \in Slot \cup {0} /\ hurt \subseteq c.hurt
      /\ \A j \in Holding(f, r) : j = c.k
  BY <1>4 DEF Fetched
<1>6. /\ kcflno'[c.k] = f /\ kcrecn'[c.k] = r /\ kcdata'[c.k] = data
      /\ \A j \in Slot \ {c.k} : /\ kcflno'[j] = kcflno[j] /\ kcrecn'[j] = kcrecn[j]
                                 /\ kcdata'[j] = kcdata[j]
  BY <1>1, <1>2, <1>5, InstallFacts
<1>7. Place(c.k)' = <<n, r>>
  BY <1>1, <1>3, <1>6 DEF Place
<1>8. \A j \in Slot \ {c.k} : /\ kcflno'[j] = kcflno[j] /\ kcdata'[j] = kcdata[j]
                              /\ kcflno[j] # 0 => Place(j)' = Place(j)
  BY <1>3, <1>6 DEF Place
\* The record has the place of the number f, or none.
<1>9. \A j \in Slot : Cached(j, n, r) => j \in Holding(f, r)
  <2> SUFFICES ASSUME NEW j \in Slot, Cached(j, n, r) PROVE j \in Holding(f, r)
    OBVIOUS
  <2>1. /\ kcflno[j] \in FileNo /\ lundm[kcflno[j]] = n /\ kcrecn[j] = r
    BY <1>2, PlaceFacts DEF Cached
  <2>2. kcflno[j] = f
    BY <2>1, <1>1, <1>2, Constants DEF Shape, OneNumber
  <2> QED BY <2>1, <2>2 DEF Holding
<1>10. Holding(f, r) # {} => kcflno[c.k] # 0 /\ Place(c.k) = <<n, r>>
  BY <1>1, <1>2, <1>5 DEF Holding, Place
<1>11. ASSUME NEW m \in Name, NEW s \in Rec(m), <<m, s>> # <<n, r>>, <<m, s>> \notin hurt'
       PROVE  /\ Seen(m, s)' = Seen(m, s)
              /\ Shown(disk'[m][s]) \in {Shown(disk[m][s]), Seen(m, s)}
  <2>1. <<m, s>> \notin c.hurt
    BY <1>3, <1>11
  <2>2. disk'[m][s] = c.disk[m][s] \/ (c.disk[m][s] = Absent /\ disk'[m][s] = Zero)
    BY <1>3, <1>11
  <2>3. kcflno'[c.k] # 0 => Place(c.k)' = <<n, r>>
    BY <1>7
  <2>4. n \in Name /\ f \in FileNo /\ r \in Rec(n) /\ c \in Fetch(n, f, r) /\ Shape'
    BY <1>1, <1>2
  <2> QED BY <1>8, <1>10, <1>11, <2>1, <2>2, <2>3, <2>4, OthersStay, SMTT(30)
<1>12. Seen(n, r)' = data
  <2>1. Cached(c.k, n, r)'
    BY <1>2, <1>6, <1>7 DEF Cached
  <2>2. \A k \in Slot : Cached(k, n, r)' => Seen(n, r)' = kcdata'[k]
    BY <1>1, <1>2, SeenNext DEF SeenRight
  <2> QED BY <2>1, <2>2, <1>5, <1>6
\* Of the record itself.
<1>13. /\ \A k \in Slot : Cached(k, n, r) => Seen(n, r) = kcdata[k]
       /\ (\A k \in Slot : ~Cached(k, n, r)) => Seen(n, r) = Shown(disk[n][r])
  BY <1>1, <1>2, SeenFacts DEF SeenRight
<1>14. \/ c.disk[n][r] = disk[n][r]
       \/ disk[n][r] = Absent /\ c.disk[n][r] = Zero
       \/ Cached(c.k, n, r) /\ c.disk[n][r] = kcdata[c.k]
  BY <1>1, <1>4 DEF Fetched, Cached
<1>15. \A k \in Slot : kcdata[k] \in Data
  BY <1>2 DEF TypeOK
<1>16. <<n, r>> \in hurt' \/ c.data = Seen(n, r)
  <2>1. CASE Found(c, f, r)
    <3>1. c.k \in Holding(f, r) /\ c.data = kcdata[c.k]
      BY <2>1 DEF Found
    <3>2. Cached(c.k, n, r)
      BY <3>1, <1>10 DEF Cached
    <3> QED BY <3>1, <3>2, <1>5, <1>13
  <2>2. CASE ~Found(c, f, r)
    <3>1. Holding(f, r) = {}
      BY <2>2, <1>1, <1>2, FetchCases DEF Taken
    <3>2. \A k \in Slot : ~Cached(k, n, r)
      BY <3>1, <1>9
    <3>3. <<n, r>> \in c.hurt \/ c.data = Shown(c.disk[n][r])
      BY <2>2, <1>4 DEF Fetched
    <3>4. Shown(c.disk[n][r]) = Shown(disk[n][r])
      BY <3>2, <1>5, <1>14, ShownFacts
    <3> QED BY <3>2, <3>3, <3>4, <1>3, <1>13
  <2> QED BY <2>1, <2>2
<1>17. Shown(disk'[n][r]) \in {Shown(disk[n][r]), Seen(n, r), data}
  <2>1. OnFile(disk'[n][r], data) => Shown(disk'[n][r]) = data
    BY <1>1, ShownFacts
  <2>2. Cached(c.k, n, r) => Seen(n, r) = kcdata[c.k]
    BY <1>5, <1>13
  <2>3. Cached(c.k, n, r) /\ c.disk[n][r] = kcdata[c.k] => Shown(c.disk[n][r]) = Seen(n, r)
    BY <2>2, <1>5, <1>15, ShownFacts DEF OnFile
  <2>4. Shown(c.disk[n][r]) \in {Shown(disk[n][r]), Seen(n, r)}
    BY <2>3, <1>14, ShownFacts
  <2> QED BY <2>1, <2>4, <1>3
<1>18. \A m \in Name : \A s \in Rec(m) :
          <<m, s>> \in hurt' \/ Shown(disk'[m][s]) \in {Shown(disk[m][s]), Seen(m, s), Seen(m, s)'}
  BY <1>11, <1>12, <1>17
<1> QED BY <1>3, <1>5, <1>11, <1>12, <1>16, <1>18

-----------------------------------------------------------------------------
\* The refinement mapping.
Now  == [n \in Name |-> [r \in Rec(n) |-> Seen(n, r)]]
Filed == [n \in Name |-> [r \in Rec(n) |-> Shown(disk[n][r])]]

\* Puts of every record.
AllPut ==
    \A m \in Name : \A s \in Rec(m) :
        <<m, s>> \in hurt' \/ Shown(disk'[m][s]) \in {Shown(disk[m][s]), Seen(m, s), Seen(m, s)'}

LEMMA PutsAll == AllPut => \A n \in Name : \A r \in Rec(n) : Words!Puts(n, r)
BY DEF AllPut, Words!Puts

\* Nothing was read.
LEMMA NothingRead == got' = Nothing => Words!Other'
BY DEF Nothing, Words!Other

LEMMA ReadWords ==
  ASSUME Inv, Inv', NEW f \in held, NEW r \in Rec(lundm[f]), Read(f, r)
  PROVE  Words!Next
<1>0. PICK n \in Name : \E c \in Fetch(n, f, r) :
        /\ AccessStep(n, f, r, c, c.data, c.write)
        /\ got' = Nothing \/ got' = [last |-> "read", val |-> c.data]
  BY ReadAccess
<1>1. PICK c \in Fetch(n, f, r) :
        /\ AccessStep(n, f, r, c, c.data, c.write)
        /\ got' = Nothing \/ got' = [last |-> "read", val |-> c.data]
  BY <1>0
<1>2. r \in Rec(n)
  BY <1>1 DEF AccessStep
<1>3. /\ hurt \subseteq hurt'
      /\ \A m \in Name : \A s \in Rec(m) : <<m, s>> # <<n, r>> =>
            <<m, s>> \in hurt' \/ Seen(m, s)' = Seen(m, s)
      /\ Seen(n, r)' = c.data
      /\ <<n, r>> \in hurt' \/ c.data = Seen(n, r)
      /\ AllPut
  BY <1>1, AccessSeen DEF AllPut
<1>4. \A m \in Name : \A s \in Rec(m) : <<m, s>> \in hurt' \/ Seen(m, s)' = Seen(m, s)
  BY <1>3
<1>5. Words!AllSame
  BY <1>4 DEF Words!AllSame, Words!Same
<1>6. got'.last = "read" /\ <<n, r>> \notin hurt' => got'.val = Seen(n, r)
  BY <1>1, <1>3 DEF Nothing
<1>7. Words!Read(n, r)
  BY <1>2, <1>3, <1>5, <1>6 DEF Words!Read
<1> QED BY <1>2, <1>3, <1>7, PutsAll DEF Words!Next


\* A word is written: DM_WINT and DM_WFLT alike.
LEMMA WriteWords ==
  ASSUME Inv, Inv', NEW n \in Name, NEW f, NEW r, NEW c \in Fetch(n, f, r), NEW u \in Word, NEW v \in Val,
         NEW w, AccessStep(n, f, r, c, [c.data EXCEPT ![u] = v], w), got' = Nothing
  PROVE  Words!Next
<1> DEFINE data == [c.data EXCEPT ![u] = v]
<1>1. n \in Name /\ f \in FileNo /\ r \in Rec(n) /\ AccessStep(n, f, r, c, data, w)
  BY DEF AccessStep
<1>2. c.data \in Data
  <2>1. Shape
    BY DEF Inv
  <2> QED BY <1>1, <2>1, FetchFacts DEF Fetched
<1>3. data[u] = v
  BY <1>2 DEF Data
<1> HIDE DEF data
<1>4. /\ hurt \subseteq hurt'
      /\ \A m \in Name : \A s \in Rec(m) : <<m, s>> # <<n, r>> =>
            <<m, s>> \in hurt' \/ Seen(m, s)' = Seen(m, s)
      /\ Seen(n, r)' = data
      /\ <<n, r>> \in hurt' \/ c.data = Seen(n, r)
      /\ AllPut
  BY <1>1, AccessSeen DEF AllPut
<1>5. <<n, r>> \in hurt' \/ Seen(n, r)' = [Seen(n, r) EXCEPT ![u] = Seen(n, r)'[u]]
  BY <1>3, <1>4 DEF data
<1>6. \A m \in Name \ {n} : Words!Same(m)
  BY <1>4 DEF Words!Same
<1>7. \A s \in Rec(n) \ {r} : <<n, s>> \in hurt' \/ Seen(n, s)' = Seen(n, s)
  BY <1>4
<1>8. Words!Write(n, r)
  BY <1>1, <1>4, <1>5, <1>6, <1>7, NothingRead DEF Words!Write
<1> QED BY <1>1, <1>4, <1>8, PutsAll DEF Words!Next

-----------------------------------------------------------------------------
(***************************************************************************)
(* DM_FWRT: nothing shows differently, and every record of the file is on  *)
(* file as it shows.                                                       *)
(***************************************************************************)
LEMMA FlushSeen ==
  ASSUME Inv, NEW f \in held, NEW n \in Name, n = lundm[f], NEW fails \in Failures(f)
  PROVE  /\ fails \subseteq Of(n)
         /\ \A m \in Name : \A s \in Rec(m) :
               /\ m # n => Shown(Written(f, fails)[m][s]) = Shown(disk[m][s])
               /\ m = n => \/ <<m, s>> \in hurt \cup fails
                           \/ Shown(Written(f, fails)[m][s]) = Seen(m, s)
               /\ (\A k \in Slot : ~Cached(k, m, s)) =>
                     Shown(Written(f, fails)[m][s]) = Shown(disk[m][s])
<1>1. Shape /\ f \in FileNo /\ f # 0
  BY HeldFacts, Constants DEF Inv
<1> DEFINE p == Written(f, fails)
<1>2. \A m \in Name : \A s \in Rec(m) :
         \/ p[m][s] = disk[m][s]
         \/ disk[m][s] = Absent /\ p[m][s] = Zero
         \/ \E k \in Waiting(f) : Place(k) = <<m, s>>
  BY <1>1, WrittenFacts
<1>3. \A k \in Waiting(f) : \E s \in Rec(n) : Place(k) = <<n, s>>
  <2> SUFFICES ASSUME NEW k \in Waiting(f) PROVE \E s \in Rec(n) : Place(k) = <<n, s>>
    OBVIOUS
  <2>1. k \in Slot /\ kcflno[k] = f /\ kcflno[k] # 0
    BY <1>1 DEF Waiting
  <2>2. kcrecn[k] \in Rec(lundm[kcflno[k]]) /\ Place(k) = <<lundm[kcflno[k]], kcrecn[k]>>
    BY <1>1, <2>1, PlaceFacts
  <2> QED BY <2>1, <2>2
<1>4. fails \subseteq Of(n)
  BY <1>3 DEF Failures, Of
<1>5. ASSUME NEW m \in Name, NEW s \in Rec(m), ~ \E k \in Waiting(f) : Place(k) = <<m, s>>
      PROVE  Shown(p[m][s]) = Shown(disk[m][s])
  BY <1>2, <1>5, ShownFacts
<1>6. ASSUME NEW m \in Name, NEW s \in Rec(m), m # n
      PROVE  Shown(p[m][s]) = Shown(disk[m][s])
  <2>1. ~ \E k \in Waiting(f) : Place(k) = <<m, s>>
    BY <1>3, <1>6
  <2> QED BY <2>1, <1>5
<1>7. ASSUME NEW m \in Name, NEW s \in Rec(m), \A k \in Slot : ~Cached(k, m, s)
      PROVE  Shown(p[m][s]) = Shown(disk[m][s])
  <2>1. ~ \E k \in Waiting(f) : Place(k) = <<m, s>>
    BY <1>1, <1>7 DEF Waiting, Cached
  <2> QED BY <2>1, <1>5
<1>8. ASSUME NEW s \in Rec(n), <<n, s>> \notin hurt \cup fails
      PROVE  Shown(p[n][s]) = Seen(n, s)
  <2>1. CASE \E k \in Slot : Cached(k, n, s)
    <3>1. PICK k \in Slot : Cached(k, n, s)
      BY <2>1
    <3>2. Seen(n, s) = kcdata[k] /\ kcdata[k] \in Data
      BY <1>1, <3>1, SeenFacts DEF SeenRight, Shape, TypeOK
    <3>3. kcflno[k] # 0 /\ Place(k) = <<n, s>> /\ Place(k)[1] = n /\ Place(k)[2] = s
      BY <3>1 DEF Cached
    <3>4. kcflno[k] = f
      <4>1. kcflno[k] \in FileNo /\ lundm[kcflno[k]] = n
        BY <1>1, <3>3, PlaceFacts
      <4> QED BY <4>1, <1>1, Constants DEF Shape, OneNumber
    <3>5. ~kwrite[k] \/ k \in Waiting(f)
      <4>1. kwrite[k] => wflag[kcflno[k]]
        BY <1>8, <3>3 DEF Inv, WaitsWithAccess
      <4> QED BY <4>1, <3>4 DEF Waiting
    <3>6. OnFile(p[Place(k)[1]][Place(k)[2]], kcdata[k])
      BY <1>8, <3>3, <3>5, FlushedFacts
    <3> HIDE DEF p
    <3>7. OnFile(p[n][s], kcdata[k])
      BY <3>3, <3>6
    <3> QED BY <3>2, <3>7, ShownFacts
  <2>2. CASE \A k \in Slot : ~Cached(k, n, s)
    BY <2>2, <1>1, <1>7, SeenFacts DEF SeenRight
  <2> QED BY <2>1, <2>2
<1> HIDE DEF p
<1>9. \A m \in Name : \A s \in Rec(m) :
         /\ m # n => Shown(p[m][s]) = Shown(disk[m][s])
         /\ m = n => <<m, s>> \in hurt \cup fails \/ Shown(p[m][s]) = Seen(m, s)
         /\ (\A k \in Slot : ~Cached(k, m, s)) => Shown(p[m][s]) = Shown(disk[m][s])
  BY <1>6, <1>7, <1>8
<1> QED BY <1>4, <1>9 DEF p

LEMMA FlushWords ==
  ASSUME Inv, Inv', NEW f \in held, Flush(f)
  PROVE  Words!Next
<1>1. PICK n \in Name : n = lundm[f]
  BY HeldFacts
<1>2. PICK fails \in Failures(f) : disk' = Written(f, fails) /\ hurt' = hurt \cup fails
  BY DEF Flush
<1>3. /\ lundm' = lundm /\ kcflno' = kcflno /\ kcrecn' = kcrecn /\ kcdata' = kcdata
      /\ got' = Nothing
  BY DEF Flush, access
<1>4. fails \subseteq Of(n) /\ \A m \in Name : \A s \in Rec(m) :
         /\ m # n => Shown(disk'[m][s]) = Shown(disk[m][s])
         /\ m = n => <<m, s>> \in hurt' \/ Shown(disk'[m][s]) = Seen(m, s)
         /\ (\A k \in Slot : ~Cached(k, m, s)) => Shown(disk'[m][s]) = Shown(disk[m][s])
  BY <1>1, <1>2, FlushSeen
<1>5. Shape /\ Shape'
  BY DEF Inv
<1>6. ASSUME NEW m \in Name, NEW s \in Rec(m) PROVE Seen(m, s)' = Seen(m, s)
  <2>1. \A k \in Slot : Cached(k, m, s)' <=> Cached(k, m, s)
    BY <1>3 DEF Cached, Place
  <2>2. CASE \E k \in Slot : Cached(k, m, s)
    BY <2>1, <2>2, <1>3, <1>5, SeenFacts, SeenNext DEF SeenRight
  <2>3. CASE \A k \in Slot : ~Cached(k, m, s)
    <3>1. Seen(m, s) = Shown(disk[m][s]) /\ Seen(m, s)' = Shown(disk'[m][s])
      BY <2>1, <2>3, <1>5, SeenFacts, SeenNext DEF SeenRight
    <3> QED BY <3>1, <2>3, <1>4
  <2> QED BY <2>2, <2>3
<1>7. AllPut
  BY <1>4 DEF AllPut
<1>8. Words!AllSame
  BY <1>6 DEF Words!AllSame, Words!Same
<1>9. hurt' \subseteq hurt \cup Words!Of(n)
  BY <1>2, <1>4 DEF Of, Words!Of
<1>10. Words!Flush(n)
  BY <1>2, <1>3, <1>4, <1>8, <1>9, NothingRead DEF Words!Flush
<1> QED BY <1>7, <1>10, PutsAll DEF Words!Next

LEMMA CloseWords ==
  ASSUME Inv, Inv', NEW f \in held, Close(f)
  PROVE  Words!Next
<1>1. PICK n \in Name : n = lundm[f]
  BY HeldFacts
<1>2. PICK fails \in Failures(f) : disk' = Written(f, fails) /\ hurt' = hurt \cup fails
  BY DEF Close
<1>3. /\ lundm' = [lundm EXCEPT ![f] = Closed]
      /\ kcflno' = [k \in Slot |-> IF kcflno[k] = f THEN 0 ELSE kcflno[k]]
      /\ kcrecn' = [k \in Slot |-> IF kcflno[k] = f THEN 0 ELSE kcrecn[k]]
      /\ kcdata' = [k \in Slot |-> IF kcflno[k] = f THEN Zero ELSE kcdata[k]]
      /\ got' = Nothing
  BY DEF Close, Forget
<1>4. fails \subseteq Of(n) /\ \A m \in Name : \A s \in Rec(m) :
         /\ m # n => Shown(disk'[m][s]) = Shown(disk[m][s])
         /\ m = n => <<m, s>> \in hurt' \/ Shown(disk'[m][s]) = Seen(m, s)
         /\ (\A k \in Slot : ~Cached(k, m, s)) => Shown(disk'[m][s]) = Shown(disk[m][s])
  BY <1>1, <1>2, FlushSeen
<1>5. Shape /\ Shape' /\ f \in FileNo
  BY HeldFacts DEF Inv
<1>6. /\ \A m \in Name : \A s \in Rec(m) :
            /\ \A k \in Slot : Cached(k, m, s) => Seen(m, s) = kcdata[k]
            /\ (\A k \in Slot : ~Cached(k, m, s)) => Seen(m, s) = Shown(disk[m][s])
      /\ \A m \in Name : \A s \in Rec(m) :
            /\ \A k \in Slot : Cached(k, m, s)' => Seen(m, s)' = kcdata'[k]
            /\ (\A k \in Slot : ~Cached(k, m, s)') => Seen(m, s)' = Shown(disk'[m][s])
  BY <1>5, SeenFacts, SeenNext DEF SeenRight
\* No record of the file has a place any more; the other places are as before.
<1>7. ASSUME NEW s \in Rec(n), NEW k \in Slot PROVE ~Cached(k, n, s)'
  <2> SUFFICES ASSUME kcflno'[k] # 0 PROVE Place(k)' # <<n, s>>
    BY DEF Cached
  <2>1. kcflno'[k] = kcflno[k] /\ kcflno[k] # f /\ kcflno[k] # 0 /\ kcflno[k] \in FileNo
    BY <1>3, <1>5 DEF Shape, TypeOK
  <2>2. lundm'[kcflno'[k]] = lundm[kcflno[k]]
    BY <2>1, <1>3, <1>5 DEF Shape, TypeOK
  <2>3. lundm[kcflno[k]] # n
    BY <2>1, <1>1, <1>5, Constants DEF Shape, OneNumber
  <2> QED BY <2>2, <2>3 DEF Place
<1>8. ASSUME NEW m \in Name, m # n, NEW s \in Rec(m), NEW k \in Slot
      PROVE  /\ Cached(k, m, s)' <=> Cached(k, m, s)
             /\ Cached(k, m, s) => kcdata'[k] = kcdata[k]
  <2>1. CASE kcflno[k] = f
    <3>1. kcflno'[k] = 0
      BY <2>1, <1>3
    <3>2. ~Cached(k, m, s)
      BY <2>1, <1>1, <1>8 DEF Cached, Place
    <3> QED BY <3>1, <3>2 DEF Cached
  <2>2. CASE kcflno[k] # f
    <3>1. kcflno'[k] = kcflno[k] /\ kcrecn'[k] = kcrecn[k] /\ kcdata'[k] = kcdata[k]
      BY <2>2, <1>3
    <3>2. kcflno[k] # 0 => lundm'[kcflno[k]] = lundm[kcflno[k]]
      BY <2>2, <1>3, <1>5 DEF Shape, TypeOK
    <3> QED BY <3>1, <3>2 DEF Cached, Place
  <2> QED BY <2>1, <2>2
<1>9. \A s \in Rec(n) : Seen(n, s)' = Shown(disk'[n][s])
  BY <1>6, <1>7
<1>10. ASSUME NEW m \in Name, m # n, NEW s \in Rec(m) PROVE Seen(m, s)' = Seen(m, s)
  <2>1. CASE \E k \in Slot : Cached(k, m, s)
    BY <2>1, <1>6, <1>8, <1>10
  <2>2. CASE \A k \in Slot : ~Cached(k, m, s)
    <3>1. \A k \in Slot : ~Cached(k, m, s)'
      BY <2>2, <1>8, <1>10
    <3>2. Seen(m, s) = Shown(disk[m][s]) /\ Seen(m, s)' = Shown(disk'[m][s])
      BY <2>2, <3>1, <1>6
    <3>3. Shown(disk'[m][s]) = Shown(disk[m][s])
      BY <1>4, <1>10
    <3> QED BY <3>2, <3>3
  <2> QED BY <2>1, <2>2
<1>11. \A m \in Name : \A s \in Rec(m) : <<m, s>> \in hurt' \/ Seen(m, s)' = Seen(m, s)
  BY <1>4, <1>9, <1>10
<1>12. AllPut
  BY <1>4 DEF AllPut
<1>13. Words!AllSame
  BY <1>11 DEF Words!AllSame, Words!Same
<1>14. hurt' \subseteq hurt \cup Words!Of(n)
  BY <1>2, <1>4 DEF Of, Words!Of
<1>15. Words!Flush(n)
  BY <1>2, <1>3, <1>4, <1>13, <1>14, NothingRead DEF Words!Flush
<1>16. [r \in Rec(n) |-> Seen(n, r)]' = [r \in Rec(n) |-> Shown(disk[n][r])]'
  BY <1>9
<1>17. Words!Close(n)
  BY <1>15, <1>16 DEF Words!Close
<1> QED BY <1>12, <1>17, PutsAll DEF Words!Next


-----------------------------------------------------------------------------
\* No record of a file without a number has a place.
LEMMA FreeSeen ==
  ASSUME Inv, NEW f \in FileNo, NEW n \in Name, Gets(f, n)
  PROVE  /\ \A s \in Rec(n) : \A k \in Slot : ~Cached(k, n, s)
         /\ \A s \in Rec(n) : Seen(n, s) = Shown(disk[n][s])
<1>1. Shape /\ \A k \in Slot : kcflno[k] # 0 => Place(k) \notin Of(n)
  BY FreeNumber
<1>2. ASSUME NEW s \in Rec(n), NEW k \in Slot PROVE ~Cached(k, n, s)
  BY <1>1 DEF Cached, Of
<1> QED BY <1>1, <1>2, SeenFacts DEF SeenRight

LEMMA CreateWords ==
  ASSUME Inv, Inv', NEW f \in FileNo, NEW n \in Name, Create(f, n)
  PROVE  Words!Next
<1>1. /\ Gets(f, n)
      /\ disk' = [disk EXCEPT ![n] = [r \in Rec(n) |-> Absent]]
      /\ Grant(f, n, TRUE) /\ hurt' = hurt \ Of(n)
      /\ kcflno' = kcflno /\ kcrecn' = kcrecn /\ kcdata' = kcdata /\ got' = Nothing
  BY DEF Create, cache
<1>2. Shape /\ Shape' /\ \A k \in Slot : kcflno[k] # f
  BY <1>1, FreeNumber DEF Inv
<1>3. \A k \in Slot : \A m \in Name : \A s \in Rec(m) : Cached(k, m, s)' <=> Cached(k, m, s)
  <2>1. \A e \in FileNo : e # f => lundm'[e] = lundm[e]
    BY <1>1, GrantFacts
  <2>2. \A k \in Slot : kcflno[k] # 0 => lundm'[kcflno[k]] = lundm[kcflno[k]]
    BY <2>1, <1>2 DEF Shape, TypeOK
  <2> QED BY <2>2, <1>1 DEF Cached, Place
<1>4. disk'[n] = [r \in Rec(n) |-> Absent] /\ \A m \in Name : m # n => disk'[m] = disk[m]
  <2>1. disk = [m \in Name |-> disk[m]]
    BY <1>2 DEF Shape, IsDisk
  <2>2. [disk EXCEPT ![n] = [r \in Rec(n) |-> Absent]]
           = [m \in Name |-> IF m = n THEN [r \in Rec(n) |-> Absent] ELSE disk[m]]
    BY <2>1
  <2> QED BY <1>1, <2>2
<1>5. /\ \A m \in Name : \A s \in Rec(m) :
            /\ \A k \in Slot : Cached(k, m, s) => Seen(m, s) = kcdata[k]
            /\ (\A k \in Slot : ~Cached(k, m, s)) => Seen(m, s) = Shown(disk[m][s])
      /\ \A m \in Name : \A s \in Rec(m) :
            /\ \A k \in Slot : Cached(k, m, s)' => Seen(m, s)' = kcdata'[k]
            /\ (\A k \in Slot : ~Cached(k, m, s)') => Seen(m, s)' = Shown(disk'[m][s])
  BY <1>2, SeenFacts, SeenNext DEF SeenRight
<1>6. \A s \in Rec(n) : Seen(n, s)' = Zero /\ Shown(disk'[n][s]) = Zero
  <2> SUFFICES ASSUME NEW s \in Rec(n) PROVE Seen(n, s)' = Zero /\ Shown(disk'[n][s]) = Zero
    OBVIOUS
  <2>1. \A k \in Slot : ~Cached(k, n, s)'
    BY <1>1, <1>3, FreeSeen
  <2>2. Shown(disk'[n][s]) = Zero
    BY <1>4 DEF Shown
  <2> QED BY <2>1, <2>2, <1>5
<1>7. ASSUME NEW m \in Name, m # n, NEW s \in Rec(m)
      PROVE  Seen(m, s)' = Seen(m, s) /\ Shown(disk'[m][s]) = Shown(disk[m][s])
  <2>1. disk'[m][s] = disk[m][s]
    BY <1>4, <1>7
  <2>2. CASE \E k \in Slot : Cached(k, m, s)
    BY <2>1, <2>2, <1>1, <1>3, <1>5
  <2>3. CASE \A k \in Slot : ~Cached(k, m, s)
    BY <2>1, <2>3, <1>3, <1>5
  <2> QED BY <2>1, <2>2, <2>3
<1>8. AllPut
  BY <1>6, <1>7 DEF AllPut
<1>9. \A m \in Name \ {n} : Words!Same(m)
  BY <1>7 DEF Words!Same
<1>10. hurt' = hurt \ Words!Of(n)
  BY <1>1 DEF Of, Words!Of
<1>11. Words!Create(n)
  BY <1>1, <1>6, <1>9, <1>10, NothingRead DEF Words!Create
<1> QED BY <1>8, <1>11, PutsAll DEF Words!Next

LEMMA OpenWords ==
  ASSUME Inv, Inv', NEW f \in FileNo, NEW n \in Name, NEW wr \in BOOLEAN, Open(f, n, wr)
  PROVE  Words!Next
<1>1. Gets(f, n) /\ got' = Nothing
  BY DEF Open
<1>2. PICK c \in Fetch(n, f, Label) :
        /\ Install(c, IF c.err THEN 0 ELSE f, Label, c.data, c.write)
        /\ disk' = c.disk /\ hurt' = c.hurt \ Of(n)
        /\ IF c.err THEN UNCHANGED access
           ELSE /\ Grant(f, n, wr)
                /\ held' = IF wr /\ n \in Foreign THEN held ELSE held \cup {f}
  BY DEF Open
<1>3. /\ Shape /\ Shape' /\ TypeOK /\ f # 0 /\ Label \in Rec(n) /\ Label \in Nat
      /\ \A k \in Slot : kcflno[k] # f
      /\ \A k \in Slot : kcflno[k] # 0 => Place(k) \notin Of(n)
  BY <1>1, FreeNumber, Constants DEF Inv, Shape
<1>4. /\ Fetched(c, n, f, Label) /\ c.write = FALSE
      /\ ~c.err => OnFile(c.disk[n][Label], c.data)
  BY <1>1, LabelFacts
<1>5. /\ c.k \in Slot /\ c.last \in Slot \cup {0} /\ c.data \in Data /\ c.write \in BOOLEAN
      /\ c.err \in BOOLEAN /\ hurt \subseteq c.hurt
  BY <1>4 DEF Fetched
<1>6. PICK g \in FileNo \cup {0} : g = IF c.err THEN 0 ELSE f
  BY Constants
<1>7. /\ kcflno'[c.k] = g /\ kcrecn'[c.k] = Label /\ kcdata'[c.k] = c.data
      /\ \A j \in Slot \ {c.k} : /\ kcflno'[j] = kcflno[j] /\ kcrecn'[j] = kcrecn[j]
                                 /\ kcdata'[j] = kcdata[j]
  <2>1. Install(c, g, Label, c.data, c.write)
    BY <1>2, <1>6
  <2> QED BY <2>1, <1>3, <1>5, InstallFacts
<1>8. \A e \in FileNo : e # f => lundm'[e] = lundm[e]
  <2>1. CASE c.err
    BY <2>1, <1>2 DEF access
  <2>2. CASE ~c.err
    BY <2>2, <1>1, <1>2, GrantFacts
  <2> QED BY <2>1, <2>2
<1>9. ~c.err => lundm'[f] = n
  BY <1>1, <1>2, GrantFacts
<1>10. kcflno'[c.k] # 0 => ~c.err /\ Place(c.k)' = <<n, Label>>
  BY <1>6, <1>7, <1>9 DEF Place
<1>11. \A j \in Slot \ {c.k} : /\ kcflno'[j] = kcflno[j] /\ kcdata'[j] = kcdata[j]
                               /\ kcflno[j] # 0 => Place(j)' = Place(j)
  <2>1. \A j \in Slot : kcflno[j] # 0 => lundm'[kcflno[j]] = lundm[kcflno[j]]
    BY <1>3, <1>8 DEF TypeOK
  <2> QED BY <2>1, <1>7 DEF Place
<1>12. /\ \A m \in Name : \A s \in Rec(m) :
            /\ \A k \in Slot : Cached(k, m, s)' => Seen(m, s)' = kcdata'[k]
            /\ (\A k \in Slot : ~Cached(k, m, s)') => Seen(m, s)' = Shown(disk'[m][s])
  BY <1>3, SeenNext DEF SeenRight
\* The file shows what is on it, before and after.
<1>13. \A s \in Rec(n) : Seen(n, s) = Shown(disk[n][s]) /\ \A k \in Slot : ~Cached(k, n, s)
  BY <1>1, FreeSeen
<1>14. \A s \in Rec(n) : Shown(disk'[n][s]) = Shown(disk[n][s])
  <2> SUFFICES ASSUME NEW s \in Rec(n) PROVE Shown(disk'[n][s]) = Shown(disk[n][s])
    OBVIOUS
  <2>1. \/ c.disk[n][s] = disk[n][s]
        \/ disk[n][s] = Absent /\ c.disk[n][s] = Zero
        \/ Cached(c.k, n, s)
    BY <1>4 DEF Fetched, Cached
  <2>2. \/ c.disk[n][s] = disk[n][s]
        \/ disk[n][s] = Absent /\ c.disk[n][s] = Zero
    BY <2>1, <1>5, <1>13
  <2> QED BY <2>2, <1>2, ShownFacts
<1>15. \A s \in Rec(n) : Seen(n, s)' = Shown(disk'[n][s])
  <2> SUFFICES ASSUME NEW s \in Rec(n) PROVE Seen(n, s)' = Shown(disk'[n][s])
    OBVIOUS
  <2>1. \A j \in Slot \ {c.k} : ~Cached(j, n, s)'
    BY <1>11, <1>13 DEF Cached
  <2>2. CASE Cached(c.k, n, s)'
    <3>1. ~c.err /\ s = Label
      BY <2>2, <1>10 DEF Cached
    <3>2. Shown(disk'[n][s]) = c.data
      BY <3>1, <1>2, <1>4, <1>5, ShownFacts
    <3> QED BY <2>2, <3>2, <1>5, <1>7, <1>12
  <2>3. CASE ~Cached(c.k, n, s)'
    BY <2>1, <2>3, <1>12
  <2> QED BY <2>2, <2>3
<1>16. ASSUME NEW m \in Name, m # n, NEW s \in Rec(m), <<m, s>> \notin hurt'
       PROVE  /\ Seen(m, s)' = Seen(m, s)
              /\ Shown(disk'[m][s]) \in {Shown(disk[m][s]), Seen(m, s)}
  <2>1. <<m, s>> \notin c.hurt /\ <<m, s>> # <<n, Label>>
    BY <1>2, <1>16 DEF Of
  <2>2. kcflno'[c.k] # 0 => Place(c.k)' = <<n, Label>>
    BY <1>10
  <2>3. Holding(f, Label) # {} => kcflno[c.k] # 0 /\ Place(c.k) = <<n, Label>>
    BY <1>3 DEF Holding
  <2>4. disk'[m][s] = c.disk[m][s]
    BY <1>2
  <2>5. Label \in Rec(n) /\ c \in Fetch(n, f, Label) /\ Shape'
    BY <1>2, <1>3
  <2> QED BY <1>11, <2>1, <2>2, <2>3, <2>4, <2>5, OthersStay, SMTT(30)
<1>17. AllPut
  BY <1>14, <1>16 DEF AllPut
<1>18. Words!AllSame
  BY <1>13, <1>14, <1>15, <1>16 DEF Words!AllSame, Words!Same
<1>19. hurt' \cap Words!Of(n) = {} /\ hurt \subseteq hurt' \cup Words!Of(n)
  BY <1>2, <1>5 DEF Of, Words!Of
<1>20. [r \in Rec(n) |-> Seen(n, r)] = [r \in Rec(n) |-> Shown(disk[n][r])]
  BY <1>13
<1>21. Words!Open(n)
  BY <1>1, <1>18, <1>19, <1>20, NothingRead DEF Words!Open
<1> QED BY <1>17, <1>21, PutsAll DEF Words!Next

LEMMA ChangeWords ==
  ASSUME Inv, Inv', NEW f \in held, NEW wr \in BOOLEAN, Change(f, wr)
  PROVE  Words!Next
<1>1. PICK n \in Name : n = lundm[f]
  BY HeldFacts
<1>2. /\ hurt' = hurt \cup (IF wr THEN {} ELSE {Place(k) : k \in Waiting(f)})
      /\ disk' = disk /\ lundm' = lundm /\ kcflno' = kcflno /\ kcrecn' = kcrecn
      /\ kcdata' = kcdata /\ got' = Nothing
  BY DEF Change, cache
<1>3. \A m \in Name : \A s \in Rec(m) : Seen(m, s)' = Seen(m, s)
  BY <1>2 DEF Seen
<1>4. ASSUME NEW k \in Waiting(f) PROVE Place(k) \in Of(n)
  <2>1. Shape /\ k \in Slot /\ kcflno[k] = f /\ kcflno[k] # 0
    BY HeldFacts, Constants DEF Inv, Waiting
  <2> QED BY <2>1, <1>1, PlaceFacts DEF Of
<1>5. hurt \subseteq hurt' /\ hurt' \subseteq hurt \cup Words!Of(n)
  BY <1>2, <1>4 DEF Of, Words!Of
<1>6. Now' = Now
  BY <1>3 DEF Now
<1>7. Words!GiveUp(n)
  BY <1>2, <1>5, <1>6, NothingRead DEF Words!GiveUp, Now
<1>8. AllPut
  BY <1>2 DEF AllPut
<1> QED BY <1>7, <1>8, PutsAll DEF Words!Next

LEMMA CrashWords ==
  ASSUME Inv, Inv', Crash
  PROVE  Words!Next
<1>1. /\ kcflno' = [k \in Slot |-> 0] /\ hurt' = {} /\ disk' = disk /\ got' = Died
  BY DEF Crash
<1>2. \A m \in Name : \A s \in Rec(m) : Seen(m, s)' = Shown(disk[m][s])
  BY <1>1 DEF Seen
<1>3. Now' = Filed /\ Filed' = Filed
  BY <1>1, <1>2 DEF Now, Filed
<1>4. got'.last = "crash"
  BY <1>1 DEF Died
<1>5. Words!Crash
  BY <1>1, <1>3, <1>4 DEF Words!Crash, Now, Filed
<1>6. AllPut
  BY <1>1 DEF AllPut
<1> QED BY <1>5, <1>6, PutsAll DEF Words!Next

-----------------------------------------------------------------------------
LEMMA StepWords == Inv /\ Inv' /\ [Next]_vars => [Words!Next]_<<Now, Filed, hurt, got>>
<1> SUFFICES ASSUME Inv, Inv', [Next]_vars PROVE Words!Next \/ UNCHANGED <<Now, Filed, hurt, got>>
  OBVIOUS
<1>1. ASSUME NEW f \in held, NEW r \in Rec(lundm[f]), Read(f, r) PROVE Words!Next
  BY <1>1, ReadWords
<1>2. ASSUME NEW f \in held, NEW r \in Rec(lundm[f]), NEW w \in Int, NEW v \in Val,
             WriteInt(f, r, w, v)
      PROVE  Words!Next
  BY <1>2, WriteIntAccess, WriteWords DEF Word
<1>3. ASSUME NEW f \in held, NEW r \in Rec(lundm[f]), NEW w \in Real, NEW v \in Val,
             WriteFlt(f, r, w, v)
      PROVE  Words!Next
  BY <1>3, WriteFltAccess, WriteWords DEF Word
<1>4. ASSUME NEW f \in held, Flush(f) \/ Close(f) \/ Change(f, TRUE) \/ Change(f, FALSE)
      PROVE  Words!Next
  BY <1>4, FlushWords, CloseWords, ChangeWords
<1>5. ASSUME NEW f \in FileNo, NEW n \in Name,
             Create(f, n) \/ Open(f, n, TRUE) \/ Open(f, n, FALSE)
      PROVE  Words!Next
  BY <1>5, CreateWords, OpenWords
<1>6. CASE Crash
  BY <1>6, CrashWords
<1>7. CASE UNCHANGED vars
  BY <1>7 DEF vars, Now, Filed, Seen
<1> QED BY <1>1, <1>2, <1>3, <1>4, <1>5, <1>6, <1>7 DEF Next

LEMMA InitWords == Init => Words!Init
<1> SUFFICES ASSUME Init PROVE Words!Init
  OBVIOUS
<1>1. \A n \in Name : \A r \in Rec(n) : Seen(n, r) = Shown(disk[n][r])
  BY DEF Init, Seen
<1>2. Now = Filed
  BY <1>1 DEF Now, Filed
<1> QED BY <1>2 DEF Init, Words!Init, Words!Other, Nothing, Now, Filed

(***************************************************************************)
(* The cache is transparent, for any files, records and places: a program  *)
(* reads the words it wrote last, a flush or a closing puts them on file,  *)
(* each failure and each loss of access spoils its own records and no      *)
(* other, and a crash leaves of every record a content it has had.         *)
(***************************************************************************)
THEOREM CacheIsTransparent == Spec => ReadsWhatItWrote
<1>1. Inv /\ Inv' /\ [Next]_vars => [Words!Next]_<<Now, Filed, hurt, got>>
  BY StepWords
<1>2. [Words!Next]_<<Now, Filed, hurt, got>> =>
        [Words!Next]_<<[n \in Name |-> [r \in Rec(n) |-> Seen(n, r)]],
                       [n \in Name |-> [r \in Rec(n) |-> Shown(disk[n][r])]], hurt, got>>
  BY DEF Now, Filed
<1> QED BY <1>1, <1>2, InitWords, CacheInvariant, PTL DEF Spec, ReadsWhatItWrote, Words!Spec

=============================================================================

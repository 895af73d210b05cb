---------------------------- MODULE PGUndoProofs ----------------------------
(***************************************************************************)
(* Proofs about PGUndo, for a ring and lists of every size.                *)
(***************************************************************************)
EXTENDS PGUndo, SequenceTheorems, FiniteSetTheorems, WellFoundedInduction, TLAPS

\* The elements of the steps are in the file.
OnFile ==
    \A s \in Step : undoAddItms[s] \cup undoDelItms[s] \subseteq 1 .. last

Inv == TypeOK /\ RingHolds /\ OnFile

\* The steps around a step of the ring are steps of the ring, and so is the
\* first one.
LEMMA RingSteps ==
  ASSUME NEW s \in Step \cup {None}, NEW n \in Nat \ {0}
  PROVE  /\ n =< MaxStep => After(s, n) \in Step
         /\ s # None \/ n < MaxStep => Before(s, n) \in Step
<1>1. MaxStep \in Nat \ {0} /\ None \notin Step
  BY PGUndoAssumption DEF Step
<1>2. CASE s = None
  <2>1. n \in Nat \ {0} /\ (n =< MaxStep => n - 1 \in 0 .. MaxStep - 1)
        /\ (n < MaxStep => MaxStep - 1 - n \in 0 .. MaxStep - 1)
    BY <1>1
  <2> QED BY <1>2, <2>1 DEF After, Before, Step
<1>3. CASE s # None
  <2>1. s \in Nat
    BY <1>3 DEF Step
  <2>2. s + n \in Int /\ s - n \in Int
    BY <2>1
  <2>3. \A k \in Int : k % MaxStep \in 0 .. MaxStep - 1
    BY <1>1
  <2> QED BY <1>3, <2>2, <2>3 DEF After, Before, Step
<1> QED BY <1>2, <1>3

\* So is one less than once around before a step, or before the first.
LEMMA BeforeStep ==
  ASSUME NEW s \in Step \cup {None}, NEW n \in 0 .. MaxStep - 1
  PROVE  Before(s, n) \in Step
<1>1. MaxStep \in Nat \ {0} /\ None \notin Step
  BY PGUndoAssumption DEF Step
<1>2. CASE n = 0
  <2>1. CASE s = None
    <3>1. Before(s, n) = MaxStep - 1 - n /\ MaxStep - 1 - n \in 0 .. MaxStep - 1
      BY <1>1, <2>1 DEF Before
    <3> QED BY <3>1 DEF Step
  <2>2. CASE s # None
    <3>1. s - n \in Int /\ (s - n) % MaxStep \in 0 .. MaxStep - 1
      BY <1>1, <2>2 DEF Step
    <3> QED BY <2>2, <3>1 DEF Before, Step
  <2> QED BY <2>1, <2>2
<1>3. CASE n # 0
  <2>1. n \in Nat \ {0} /\ n < MaxStep
    BY <1>1, <1>3
  <2> QED BY <2>1, RingSteps
<1> QED BY <1>2, <1>3

\* What is stored of a set of elements are elements of it.
LEMMA StoredSubset ==
  ASSUME NEW S, NEW T \in Stored(S)
  PROVE  T \subseteq S
BY DEF Stored

\* What is in the file is an element, and stays in it when it grows.
LEMMA FileElements ==
  ASSUME TypeOK, NEW n \in Nat, last + n =< MaxElem
  PROVE  /\ last \in Nat /\ MaxElem \in Nat
         /\ 1 .. last \subseteq 1 .. last + n
         /\ 1 .. last + n \subseteq Elem /\ New(n) \subseteq 1 .. last + n
<1>1. last \in Nat /\ MaxElem \in Nat
  BY PGUndoAssumption DEF TypeOK
<1> QED BY <1>1 DEF New, Elem

\* A drawing with a new step on record.  The step holds elements of the
\* file.
LEMMA RecordInv ==
  ASSUME TypeOK, OnFile, NEW n \in Nat, NEW del \in SUBSET shown, Draw(del, n),
         NEW d \in SUBSET del, NEW a \in SUBSET New(n), Record(d, a)
  PROVE  /\ shown' \subseteq 1 .. last' /\ last' \in 0 .. MaxElem
         /\ curStep' \in Step
         /\ undoAddItms' \in [Step -> SUBSET Elem] /\ undoDelItms' \in [Step -> SUBSET Elem]
         /\ OnFile'
         /\ del \subseteq Elem /\ New(n) \subseteq Elem
<1>1. /\ last \in Nat /\ MaxElem \in Nat /\ last' = last + n /\ last + n =< MaxElem
      /\ shown \subseteq 1 .. last /\ shown' = (shown \ del) \cup New(n)
  BY FileElements DEF TypeOK, Draw
<1>2. /\ 1 .. last \subseteq 1 .. last'
      /\ 1 .. last' \subseteq Elem /\ New(n) \subseteq 1 .. last'
  BY <1>1, FileElements
<1>3. d \subseteq 1 .. last' /\ a \subseteq 1 .. last' /\ d \subseteq Elem /\ a \subseteq Elem
  BY <1>1, <1>2
<1>4. curStep' \in Step
  <2>1. 1 \in Nat \ {0} /\ 1 =< MaxStep
    BY PGUndoAssumption
  <2>2. curStep \in Step \cup {None}
    BY DEF TypeOK
  <2>3. After(curStep, 1) \in Step
    BY <2>1, <2>2, RingSteps
  <2> QED BY <2>3 DEF Record
<1>5. undoAddItms' \in [Step -> SUBSET Elem] /\ undoDelItms' \in [Step -> SUBSET Elem]
  BY <1>3, <1>4 DEF Record, TypeOK
<1>6. OnFile'
  <2> SUFFICES ASSUME NEW s \in Step
               PROVE  undoAddItms'[s] \cup undoDelItms'[s] \subseteq 1 .. last'
    BY DEF OnFile
  <2>1. undoAddItms'[s] = (IF s = curStep' THEN a ELSE undoAddItms[s])
        /\ undoDelItms'[s] = (IF s = curStep' THEN d ELSE undoDelItms[s])
    BY <1>4 DEF Record, TypeOK
  <2>2. undoAddItms[s] \cup undoDelItms[s] \subseteq 1 .. last
    BY DEF OnFile
  <2> QED BY <2>1, <2>2, <1>2, <1>3
<1>7. shown' \subseteq 1 .. last' /\ del \subseteq Elem
  BY <1>1, <1>2, Zenon
<1>8. last' \in 0 .. MaxElem
  BY <1>1
<1> QED BY <1>2, <1>4, <1>5, <1>6, <1>7, <1>8

\* pgundo_endStep leaves the ring within its size, whatever it was.
LEMMA EndStepRing ==
  ASSUME TypeOK, RingHolds, EndStep
  PROVE  /\ totalUndo' \in Nat /\ totalRedo' \in Nat
         /\ undoBtn' \in BOOLEAN /\ redoBtn' \in BOOLEAN
         /\ RingHolds'
<1>1. totalUndo \in Nat /\ totalRedo \in Nat /\ totalUndo =< MaxStep /\ MaxStep \in Nat \ {0}
  BY PGUndoAssumption DEF TypeOK, RingHolds
<1>2. totalUndo' \in Nat /\ totalUndo' > 0 /\ totalUndo' =< MaxStep /\ totalRedo' = 0
  BY <1>1 DEF EndStep
<1>3. undoBtn' = TRUE /\ redoBtn' = FALSE
  BY DEF EndStep
<1>5. totalUndo' + totalRedo' =< MaxStep /\ ~ (totalRedo' > 0)
  <2>1. \A a, b \in Nat : a =< MaxStep /\ b = 0 => a + b =< MaxStep /\ ~ (b > 0)
    BY <1>1
  <2>2. totalUndo' \in Nat /\ totalRedo' \in Nat /\ totalUndo' =< MaxStep /\ totalRedo' = 0
    BY <1>2
  <2> QED BY <2>1, <2>2, Zenon
<1>6. RingHolds'
  BY <1>2, <1>3, <1>5, Zenon DEF RingHolds
<1> QED BY <1>2, <1>3, <1>6

\* The lists hold elements.
LEMMA ListedElements ==
  ASSUME NEW S \in SUBSET Step,
         undoAddItms' \in [Step -> SUBSET Elem], undoDelItms' \in [Step -> SUBSET Elem]
  PROVE  Listed(S) \subseteq Elem
BY DEF Listed

\* A step begun, filled and ended.
LEMMA EditInv ==
  ASSUME Inv, NEW del \in SUBSET shown, NEW n \in Nat, Edit(del, n), UNCHANGED astray
  PROVE  Inv'
<1> USE DEF Inv
<1>1. PICK d \in Stored(del), a \in Stored(New(n)) :
          Record(d, a) /\ loose' = loose \cup (del \ d) \cup (New(n) \ a)
  BY DEF Edit
<1>2. d \subseteq del /\ a \subseteq New(n)
  BY StoredSubset
<1>3. Draw(del, n) /\ EndStep
  BY DEF Edit
<1>4. /\ shown' \subseteq 1 .. last' /\ last' \in 0 .. MaxElem
      /\ curStep' \in Step
      /\ undoAddItms' \in [Step -> SUBSET Elem] /\ undoDelItms' \in [Step -> SUBSET Elem]
      /\ OnFile'
      /\ del \subseteq Elem /\ New(n) \subseteq Elem
  BY <1>1, <1>2, <1>3, RecordInv
<1>5. loose' \subseteq Elem
  BY <1>1, <1>4 DEF TypeOK
<1>6. /\ totalUndo' \in Nat /\ totalRedo' \in Nat
      /\ undoBtn' \in BOOLEAN /\ redoBtn' \in BOOLEAN
      /\ RingHolds'
  BY <1>3, EndStepRing
<1> QED BY <1>4, <1>5, <1>6 DEF TypeOK

\* A step begun and not ended.
LEMMA UnfinishedInv ==
  ASSUME Inv, NEW del \in SUBSET shown, NEW n \in Nat, Unfinished(del, n), UNCHANGED astray
  PROVE  Inv'
<1> USE DEF Inv
<1>1. Draw(del, n) /\ Record(del, New(n)) /\ UNCHANGED count
  BY DEF Unfinished
<1>2. /\ shown' \subseteq 1 .. last' /\ last' \in 0 .. MaxElem
      /\ curStep' \in Step
      /\ undoAddItms' \in [Step -> SUBSET Elem] /\ undoDelItms' \in [Step -> SUBSET Elem]
      /\ OnFile'
  BY <1>1, RecordInv
<1>3. loose' \subseteq Elem
  <2> DEFINE S == {After(curStep', k) : k \in 1 .. totalRedo}
  <2>1. S \subseteq Step
    <3> SUFFICES ASSUME NEW k \in 1 .. totalRedo PROVE After(curStep', k) \in Step
      OBVIOUS
    <3>1. totalRedo \in Nat /\ totalUndo \in Nat /\ totalUndo + totalRedo =< MaxStep /\ MaxStep \in Nat
      BY PGUndoAssumption DEF TypeOK, RingHolds
    <3>2. k \in Nat \ {0} /\ k =< MaxStep
      BY <3>1
    <3> QED BY <1>2, <3>2, RingSteps
  <2>2. Listed(S) \subseteq Elem
    <3> HIDE DEF S
    <3> QED BY <2>1, <1>2, ListedElements
  <2> QED BY <2>2 DEF Unfinished, TypeOK
<1>4. curStep' # None
  BY <1>2, PGUndoAssumption DEF Step
<1>5. RingHolds'
  BY <1>1, <1>4 DEF count, RingHolds
<1> QED BY <1>1, <1>2, <1>3, <1>5 DEF TypeOK, count

\* A step ended that was not begun.
LEMMA EndAloneInv ==
  ASSUME Inv, NEW e \in shown, EndAlone(e), UNCHANGED astray
  PROVE  Inv'
<1> USE DEF Inv
<1>1. /\ Draw({e}, 0) /\ EndStep
      /\ curStep' = curStep /\ undoAddItms' = undoAddItms /\ undoDelItms' = undoDelItms
  BY DEF EndAlone, steps
<1>2. curStep' \in Step \cup {None}
  BY <1>1 DEF TypeOK
<1>3. /\ last \in Nat /\ MaxElem \in Nat /\ last' = last /\ last =< MaxElem
      /\ shown' = shown \ {e} /\ e \in Elem
  <2>1. last \in Nat /\ MaxElem \in Nat /\ last + 0 =< MaxElem /\ last' = last + 0
    BY <1>1, PGUndoAssumption DEF Draw, TypeOK
  <2>2. New(0) = {}
    BY <2>1 DEF New
  <2>3. shown' = shown \ {e}
    BY <1>1, <2>2 DEF Draw
  <2>4. e \in 1 .. last
    BY DEF TypeOK
  <2> QED BY <2>1, <2>3, <2>4 DEF Elem
<1>4. loose' \subseteq Elem
  <2>1. CASE totalUndo = MaxStep
    BY <2>1, <1>3 DEF EndAlone, TypeOK
  <2>2. CASE totalUndo # MaxStep
    <3>1. Before(curStep, totalUndo) \in Step
      <4>1. totalUndo \in 0 .. MaxStep - 1 /\ curStep \in Step \cup {None}
        BY <2>2, PGUndoAssumption DEF TypeOK, RingHolds
      <4> QED BY <4>1, BeforeStep
    <3>2. Listed({Before(curStep, totalUndo)}) \subseteq Elem
      BY <3>1, <1>1, ListedElements DEF TypeOK
    <3> QED BY <2>2, <3>2, <1>3 DEF EndAlone, TypeOK
  <2> QED BY <2>1, <2>2
<1>5. /\ totalUndo' \in Nat /\ totalRedo' \in Nat
      /\ undoBtn' \in BOOLEAN /\ redoBtn' \in BOOLEAN
      /\ RingHolds'
  BY <1>1, EndStepRing
<1>6. OnFile'
  BY <1>1, <1>3 DEF OnFile
<1>7. shown' \subseteq 1 .. last' /\ last' \in 0 .. MaxElem
  BY <1>3 DEF TypeOK
<1> QED BY <1>1, <1>2, <1>4, <1>5, <1>6, <1>7 DEF TypeOK

\* Swapping the lists of a step shows elements of the file only.
LEMMA SwapInv ==
  ASSUME TypeOK, OnFile, NEW s \in Step, Swap(s), last' = last
  PROVE  /\ shown' \subseteq 1 .. last'
         /\ undoAddItms' \in [Step -> SUBSET Elem] /\ undoDelItms' \in [Step -> SUBSET Elem]
         /\ OnFile'
<1>1. undoAddItms[s] \cup undoDelItms[s] \subseteq 1 .. last
  BY DEF OnFile
<1>2. shown' \subseteq 1 .. last'
  BY <1>1 DEF Swap, TypeOK
<1>3. undoAddItms' \in [Step -> SUBSET Elem] /\ undoDelItms' \in [Step -> SUBSET Elem]
  BY DEF Swap, TypeOK
<1>4. \A t \in Step : /\ undoAddItms'[t] = (IF t = s THEN undoDelItms[s] ELSE undoAddItms[t])
                      /\ undoDelItms'[t] = (IF t = s THEN undoAddItms[s] ELSE undoDelItms[t])
  BY DEF Swap, TypeOK
<1>5. OnFile'
  BY <1>1, <1>4 DEF OnFile
<1> QED BY <1>2, <1>3, <1>5

\* One step back.
LEMMA UndoInv == Inv /\ Undo /\ UNCHANGED astray => Inv'
<1> SUFFICES ASSUME Inv, Undo, UNCHANGED astray PROVE Inv'
  OBVIOUS
<1> USE DEF Inv
<1>1. totalUndo \in Nat \ {0} /\ totalRedo \in Nat /\ curStep \in Step
  BY DEF Undo, TypeOK, RingHolds
<1>2. last' = last /\ loose' = loose /\ Swap(curStep)
  BY DEF Undo
<1>3. /\ shown' \subseteq 1 .. last'
      /\ undoAddItms' \in [Step -> SUBSET Elem] /\ undoDelItms' \in [Step -> SUBSET Elem]
      /\ OnFile'
  BY <1>1, <1>2, SwapInv
<1>4. curStep' \in Step
  <2>1. curStep # None
    BY <1>1, PGUndoAssumption DEF Step
  <2>2. Before(curStep, 1) \in Step
    BY <1>1, <2>1, RingSteps
  <2> QED BY <2>2 DEF Undo
<1>5. /\ totalUndo' \in Nat /\ totalUndo' = totalUndo - 1
      /\ totalRedo' \in Nat /\ totalRedo' = totalRedo + 1
      /\ undoBtn' \in BOOLEAN /\ redoBtn' = TRUE
  BY <1>1 DEF Undo, TypeOK
<1>6. undoBtn' <=> totalUndo' # 0
  BY Zenon DEF Undo
<1>7. RingHolds'
  <2>1. curStep' # None
    BY <1>4, PGUndoAssumption DEF Step
  <2>2. totalUndo + totalRedo =< MaxStep /\ MaxStep \in Nat
    BY PGUndoAssumption DEF RingHolds
  <2>3. totalUndo' + totalRedo' =< MaxStep /\ totalRedo' > 0 /\ (totalUndo' # 0 <=> totalUndo' > 0)
    BY <1>1, <1>5, <2>2
  <2> QED BY <1>5, <1>6, <2>1, <2>3, Zenon DEF RingHolds
<1> QED BY <1>2, <1>3, <1>4, <1>5, <1>7 DEF TypeOK

\* One step forth.
LEMMA RedoInv == Inv /\ Redo /\ UNCHANGED astray => Inv'
<1> SUFFICES ASSUME Inv, Redo, UNCHANGED astray PROVE Inv'
  OBVIOUS
<1> USE DEF Inv
<1>1. totalUndo \in Nat /\ totalRedo \in Nat \ {0} /\ curStep \in Step
  BY DEF Redo, TypeOK, RingHolds
<1>2. last' = last /\ loose' = loose /\ Swap(curStep')
  BY DEF Redo
<1>3. curStep' \in Step
  <2>1. 1 \in Nat \ {0} /\ 1 =< MaxStep
    BY PGUndoAssumption
  <2>2. After(curStep, 1) \in Step
    BY <1>1, <2>1, RingSteps
  <2> QED BY <2>2 DEF Redo
<1>4. /\ shown' \subseteq 1 .. last'
      /\ undoAddItms' \in [Step -> SUBSET Elem] /\ undoDelItms' \in [Step -> SUBSET Elem]
      /\ OnFile'
  <2> DEFINE s == curStep'
  <2>1. s \in Step /\ Swap(s)
    BY <1>2, <1>3
  <2> HIDE DEF s
  <2> QED BY <2>1, <1>2, SwapInv
<1>5. /\ totalUndo' \in Nat /\ totalUndo' = totalUndo + 1
      /\ totalRedo' \in Nat /\ totalRedo' = totalRedo - 1
      /\ redoBtn' \in BOOLEAN /\ undoBtn' = TRUE
  BY <1>1 DEF Redo, TypeOK
<1>6. redoBtn' <=> totalRedo' # 0
  BY Zenon DEF Redo
<1>7. RingHolds'
  <2>1. curStep' # None
    BY <1>3, PGUndoAssumption DEF Step
  <2>2. totalUndo + totalRedo =< MaxStep /\ MaxStep \in Nat
    BY PGUndoAssumption DEF RingHolds
  <2>3. totalUndo' + totalRedo' =< MaxStep /\ totalUndo' > 0 /\ (totalRedo' # 0 <=> totalRedo' > 0)
    BY <1>1, <1>5, <2>2
  <2> QED BY <1>5, <1>6, <2>1, <2>3, Zenon DEF RingHolds
<1> QED BY <1>2, <1>3, <1>4, <1>5, <1>7 DEF TypeOK

\* A new ring is empty.
LEMMA InitInv == Init => Inv
<1> SUFFICES ASSUME Init PROVE Inv
  OBVIOUS
<1>1. First \in 0 .. MaxElem /\ MaxStep \in Nat
  BY PGUndoAssumption
<1>2. TypeOK
  BY <1>1 DEF Init, TypeOK
<1>3. totalUndo + totalRedo =< MaxStep /\ ~ (totalUndo > 0) /\ ~ (totalRedo > 0)
  BY <1>1 DEF Init
<1>4. RingHolds
  BY <1>3, Zenon DEF Init, RingHolds
<1>5. OnFile
  BY DEF Init, OnFile
<1> QED BY <1>2, <1>4, <1>5 DEF Inv

\* All steps thrown away.
LEMMA ResetInv == Reset => Inv'
<1> SUFFICES ASSUME Reset PROVE Inv'
  OBVIOUS
<1>1. First \in 0 .. MaxElem /\ MaxStep \in Nat
  BY PGUndoAssumption
<1>2. TypeOK'
  BY <1>1 DEF Reset, TypeOK
<1>3. totalUndo' + totalRedo' =< MaxStep /\ ~ (totalUndo' > 0) /\ ~ (totalRedo' > 0)
  BY <1>1 DEF Reset
<1>4. RingHolds'
  BY <1>3, Zenon DEF Reset, RingHolds
<1>5. OnFile'
  BY DEF Reset, OnFile
<1> QED BY <1>2, <1>4, <1>5 DEF Inv

\* The invariant through any step.
LEMMA NextInv == Inv /\ [Next]_vars => Inv'
<1> SUFFICES ASSUME Inv, [Next]_vars PROVE Inv'
  OBVIOUS
<1>1. ASSUME EditOrUndo PROVE Inv'
  <2> UNCHANGED astray
    BY <1>1 DEF EditOrUndo
  <2>1. ASSUME NEW del \in SUBSET shown, NEW n \in 0 .. MaxElem - last, Edit(del, n)
        PROVE  Inv'
    <3>1. n \in Nat
      OBVIOUS
    <3> QED BY <2>1, <3>1, EditInv
  <2>2. ASSUME NEW del \in {D \in SUBSET shown : Cardinality(D) =< 1}, NEW n \in {0, 1},
               Unfinished(del, n)
        PROVE  Inv'
    <3>1. n \in Nat /\ del \in SUBSET shown
      OBVIOUS
    <3> QED BY <2>2, <3>1, UnfinishedInv
  <2>3. ASSUME NEW e \in shown, EndAlone(e) PROVE Inv'
    BY <2>3, EndAloneInv
  <2> QED BY <1>1, <2>1, <2>2, <2>3, UndoInv, RedoInv DEF EditOrUndo
<1>2. CASE UndoNothing
  <2>1. UNCHANGED state /\ astray' = TRUE
    BY <1>2 DEF UndoNothing
  <2> QED BY <2>1 DEF state, Inv, TypeOK, RingHolds, OnFile
<1>3. CASE UNCHANGED vars
  BY <1>3 DEF vars, state, Inv, TypeOK, RingHolds, OnFile
<1> QED BY <1>1, <1>2, <1>3, ResetInv DEF Next

-----------------------------------------------------------------------------
(***************************************************************************)
(* The steps that can be undone and those that can be redone together      *)
(* never exceed the ring, the buttons allow an undo or a redo exactly when *)
(* the counters say there is a step for it, and REDO only where there is a *)
(* step done last, through edits that begin or end no step, the first edit *)
(* of all among them.  UNDO has no such step then: RingHolds does not say  *)
(* it has, and the state is not followed beyond it.                        *)
(***************************************************************************)
THEOREM RingNeverOverlaps == Spec => []RingHolds
<1>1. Inv => RingHolds
  BY DEF Inv
<1> QED BY <1>1, InitInv, NextInv, PTL DEF Spec

(***************************************************************************)
(* The steps undone, redone and recorded are steps of the ring, and no     *)
(* element is shown that is not in the file: an element that is put back   *)
(* is one that was once in it, which needs OnFile.                         *)
(***************************************************************************)
THEOREM UndoTypes == Spec => []TypeOK
<1>1. Inv => TypeOK
  BY DEF Inv
<1> QED BY <1>1, InitInv, NextInv, PTL DEF Spec

-----------------------------------------------------------------------------
(***************************************************************************)
(* PGUndo implements PGHistory.  The states of the history are Back and    *)
(* Ahead.  Undoing a step and redoing it leads back only if the step       *)
(* really added what it lists as added and took away what it lists as      *)
(* taken away; Fits says so of every step in the ring, at the state it was *)
(* or will be done in, but for loose elements.                             *)
(***************************************************************************)
Undoes(D, A, S, L) == A \ L \subseteq S /\ D \cap S \subseteq L

Fits ==
    /\ \A k \in 0 .. totalUndo - 1 :
          Undoes(undoDelItms[Before(curStep, k)], undoAddItms[Before(curStep, k)], Back[k], loose)
    /\ \A k \in 1 .. totalRedo :
          Undoes(undoDelItms[After(curStep, k)], undoAddItms[After(curStep, k)], Ahead[k - 1], loose)

HistoryInv == Inv /\ Fits

\* What the values of present, past and future are.
Present == shown \ loose
Past    == [k \in 1 .. totalUndo |-> Back[totalUndo + 1 - k] \ loose]
Future  == [k \in 1 .. totalRedo |-> Ahead[k] \ loose]

\* Back and Ahead as they are defined, step by step.
BackOK ==
    /\ Back \in [0 .. totalUndo -> SUBSET Elem] /\ Back[0] = shown
    /\ \A k \in 1 .. totalUndo :
          Back[k] = (Back[k - 1] \cup undoDelItms[Before(curStep, k - 1)])
                    \ undoAddItms[Before(curStep, k - 1)]
AheadOK ==
    /\ Ahead \in [0 .. totalRedo -> SUBSET Elem] /\ Ahead[0] = shown
    /\ \A k \in 1 .. totalRedo :
          Ahead[k] = (Ahead[k - 1] \cup undoDelItms[After(curStep, k)])
                     \ undoAddItms[After(curStep, k)]

-----------------------------------------------------------------------------
\* A set of naturals has a least element: the naturals below it are the
\* smallest set of their kind.
LEMMA LeastNat ==
  ASSUME NEW T, T \subseteq Nat, T # {}
  PROVE  \E x \in T : \A y \in T : x =< y
<1> DEFINE Below(n) == 0 .. (n - 1)
<1>1. PICK t \in T : TRUE
  OBVIOUS
<1> DEFINE S == Below(t)
           U == {x \in T : x =< t}
           F == {Below(x) : x \in U}
<1>2. IsFiniteSet(S)
  BY FS_Interval
<1>3. IsWellFoundedOn(StrictSubsetOrdering(S), SUBSET S)
  BY <1>2, FS_StrictSubsetOrderingWellFounded, FS_FiniteSubsetsOfFinite
<1>4. F \subseteq SUBSET S /\ F # {}
  OBVIOUS
<1>5. PICK f \in F : \A g \in F : ~ (<<g, f>> \in StrictSubsetOrdering(S))
  <2> HIDE DEF F, S
  <2> QED BY <1>3, <1>4, WFMin
<1>6. PICK x \in U : f = Below(x)
  BY <1>5
<1>7. \A y \in U : ~ (y < x)
  <2> SUFFICES ASSUME NEW y \in U, y < x PROVE FALSE
    OBVIOUS
  <2>1. Below(y) \in F /\ Below(x) \in F
    OBVIOUS
  <2>2. Below(y) \subseteq Below(x)
    OBVIOUS
  <2>3. y \in Below(x) /\ y \notin Below(y)
    OBVIOUS
  <2>4. <<Below(y), Below(x)>> \in StrictSubsetOrdering(S)
    BY <2>1, <2>2, <2>3, <1>4 DEF StrictSubsetOrdering
  <2> QED BY <2>1, <2>4, <1>5, <1>6
<1> QED BY <1>7

\* A walk of N steps after step i: each adds the elements of D and takes away
\* those of A, but for the elements of L.
Walks(f, i, N, D, A, L) ==
    \A k \in 1 .. N : f[i + k] \ L = ((f[i + k - 1] \cup D[k]) \ A[k]) \ L

\* The same elements, but for those of L.
Alike(S, T, L) == S \ L = T \ L

\* Walks that begin alike and take the same steps stay alike, but for the
\* elements of L.
LEMMA SameWalk ==
  ASSUME NEW N \in Nat, NEW L, NEW f, NEW g, NEW i \in Nat, NEW j \in Nat, NEW D, NEW A,
         Alike(f[i], g[j], L), Walks(f, i, N, D, A, L), Walks(g, j, N, D, A, L)
  PROVE  \A k \in 0 .. N : Alike(f[i + k], g[j + k], L)
<1> USE DEF Alike
<1> DEFINE T == {k \in 0 .. N : f[i + k] \ L # g[j + k] \ L}
<1> SUFFICES ASSUME T # {} PROVE FALSE
  OBVIOUS
<1>1. PICK m \in T : \A k \in T : m =< k
  <2>1. T \subseteq Nat
    OBVIOUS
  <2> HIDE DEF T
  <2> QED BY <2>1, LeastNat
<1>2. m \in 1 .. N /\ m - 1 \in 0 .. N /\ m - 1 \notin T
  <2>1. m \in 0 .. N /\ m # 0
    OBVIOUS
  <2>2. ~ (m =< m - 1)
    BY <2>1
  <2> QED BY <1>1, <2>1, <2>2
<1>3. f[i + m - 1] \ L = g[j + m - 1] \ L
  <2>1. i + (m - 1) = i + m - 1 /\ j + (m - 1) = j + m - 1
    BY <1>2
  <2> QED BY <1>2, <2>1
<1>4. ((f[i + m - 1] \cup D[m]) \ A[m]) \ L = ((g[j + m - 1] \cup D[m]) \ A[m]) \ L
  BY <1>3
<1>5. f[i + m] \ L = g[j + m] \ L
  BY <1>2, <1>4 DEF Walks
<1> QED BY <1>5

\* There is a walk of any length.
LEMMA WalkExists ==
  ASSUME NEW N \in Nat, NEW E, NEW base \in SUBSET E,
         NEW D \in [1 .. N -> SUBSET E], NEW A \in [1 .. N -> SUBSET E]
  PROVE  \E f \in [0 .. N -> SUBSET E] : f[0] = base /\ Walks(f, 0, N, D, A, {})
<1> DEFINE Found(n) == {f \in [0 .. n -> SUBSET E] :
                           /\ f[0] = base
                           /\ \A k \in 1 .. n : f[k] = (f[k - 1] \cup D[k]) \ A[k]}
           T == {n \in 0 .. N : Found(n) = {}}
<1> SUFFICES ASSUME Found(N) = {} PROVE FALSE
  BY DEF Walks
<1>1. PICK m \in T : \A n \in T : m =< n
  <2>1. T \subseteq Nat /\ N \in T
    OBVIOUS
  <2> HIDE DEF T
  <2> QED BY <2>1, LeastNat
<1>2. m # 0
  <2>1. [k \in 0 .. 0 |-> base] \in Found(0)
    OBVIOUS
  <2> HIDE DEF Found
  <2> QED BY <2>1
<1>3. m \in 1 .. N /\ m - 1 \in 0 .. N /\ m - 1 \notin T
  <2>1. m \in 0 .. N
    OBVIOUS
  <2>2. ~ (m =< m - 1)
    BY <2>1
  <2> HIDE DEF T
  <2> QED BY <1>1, <1>2, <2>1, <2>2
<1>4. PICK f : f \in Found(m - 1)
  <2>1. Found(m - 1) # {}
    <3> HIDE DEF Found
    <3> QED BY <1>3
  <2> HIDE DEF Found
  <2> QED BY <2>1
<1> DEFINE g == [k \in 0 .. m |-> IF k = m THEN (f[m - 1] \cup D[m]) \ A[m] ELSE f[k]]
<1>5. /\ f \in [0 .. m - 1 -> SUBSET E] /\ f[0] = base
      /\ \A k \in 1 .. m - 1 : f[k] = (f[k - 1] \cup D[k]) \ A[k]
  BY <1>4
<1>6. (f[m - 1] \cup D[m]) \ A[m] \in SUBSET E
  <2>1. f[m - 1] \in SUBSET E /\ D[m] \in SUBSET E
    BY <1>3, <1>5
  <2> QED BY <2>1
<1>7. g \in [0 .. m -> SUBSET E]
  BY <1>3, <1>5, <1>6
<1>8. g[0] = base /\ \A k \in 1 .. m : g[k] = (g[k - 1] \cup D[k]) \ A[k]
  <2>1. g[0] = base
    BY <1>3, <1>5
  <2>2. ASSUME NEW k \in 1 .. m PROVE g[k] = (g[k - 1] \cup D[k]) \ A[k]
    <3>1. k - 1 \in 0 .. m /\ k - 1 # m /\ k \in 0 .. m /\ g[k - 1] = f[k - 1]
      BY <1>3
    <3>2. CASE k = m
      BY <3>1, <3>2
    <3>3. CASE k # m
      <4>1. k \in 1 .. m - 1 /\ g[k] = f[k]
        BY <1>3, <3>1, <3>3
      <4> QED BY <3>1, <4>1, <1>5
    <3> QED BY <3>2, <3>3
  <2> QED BY <2>1, <2>2
<1>9. g \in Found(m)
  <2> HIDE DEF g
  <2> QED BY <1>7, <1>8
<1> HIDE DEF Found, g
<1> QED BY <1>9, <1>1

\* A recursive definition of a walk.
Follow(f, N, base, D, A) ==
    [k \in 0 .. N |-> IF k = 0 THEN base ELSE (f[k - 1] \cup D[k]) \ A[k]]

IsCourse(N, E, base, D, A) ==
    /\ N \in Nat /\ base \in SUBSET E
    /\ D \in [1 .. N -> SUBSET E] /\ A \in [1 .. N -> SUBSET E]

\* It has a solution, and that is a walk.
LEMMA WalkFacts ==
  ASSUME NEW N, NEW E, NEW base, NEW D, NEW A, IsCourse(N, E, base, D, A)
  PROVE  /\ \E f : f = Follow(f, N, base, D, A)
         /\ \A f : f = Follow(f, N, base, D, A) =>
               /\ f \in [0 .. N -> SUBSET E] /\ f[0] = base
               /\ \A k \in 1 .. N : f[k] = (f[k - 1] \cup D[k]) \ A[k]
<1> USE DEF IsCourse
<1>1. PICK f \in [0 .. N -> SUBSET E] : f[0] = base /\ Walks(f, 0, N, D, A, {})
  BY WalkExists
<1> \A k \in 1 .. N : f[k] = (f[k - 1] \cup D[k]) \ A[k]
  BY <1>1 DEF Walks
<1>2. f = Follow(f, N, base, D, A)
  <2>1. \A k \in 0 .. N : f[k] = IF k = 0 THEN base ELSE (f[k - 1] \cup D[k]) \ A[k]
    <3> SUFFICES ASSUME NEW k \in 0 .. N, k # 0
                 PROVE  f[k] = (f[k - 1] \cup D[k]) \ A[k]
      BY <1>1
    <3>1. k \in 1 .. N
      OBVIOUS
    <3> QED BY <1>1, <3>1
  <2> QED BY <2>1 DEF Follow
<1>3. ASSUME NEW g, g = Follow(g, N, base, D, A)
      PROVE  /\ g \in [0 .. N -> SUBSET E] /\ g[0] = base
             /\ \A k \in 1 .. N : g[k] = (g[k - 1] \cup D[k]) \ A[k]
  <2>1. \A k \in 0 .. N : g[k] = IF k = 0 THEN base ELSE (g[k - 1] \cup D[k]) \ A[k]
    BY <1>3 DEF Follow
  <2>2. 0 \in 0 .. N /\ \A k \in 1 .. N : k \in 0 .. N /\ k # 0
    OBVIOUS
  <2>3. g[0] = base /\ \A k \in 1 .. N : g[k] = (g[k - 1] \cup D[k]) \ A[k]
    BY <2>1, <2>2
  <2> DEFINE L == {}
  <2>4. \A k \in 0 .. N : f[k] \ L = g[k] \ L
    <3>1. Alike(f[0], g[0], L)
      BY <1>1, <2>3 DEF Alike
    <3>2. Walks(f, 0, N, D, A, L) /\ Walks(g, 0, N, D, A, L)
      BY <1>1, <2>3 DEF Walks
    <3> HIDE DEF L
    <3>3. \A k \in 0 .. N : Alike(f[0 + k], g[0 + k], L)
      BY <3>1, <3>2, SameWalk
    <3> QED BY <3>3 DEF Alike
  <2>5. \A k \in 0 .. N : g[k] \in SUBSET E
    BY <1>1, <2>4
  <2>6. DOMAIN g = 0 .. N /\ g = [k \in 0 .. N |-> g[k]]
    BY <1>3 DEF Follow
  <2> QED BY <2>3, <2>5, <2>6
<1> QED BY <1>2, <1>3

\* The n-th step after a step of the ring, and before it.
LEMMA Around ==
  ASSUME NEW s \in Step, NEW n \in 0 .. MaxStep
  PROVE  /\ After(s, n) = IF s + n < MaxStep THEN s + n ELSE s + n - MaxStep
         /\ Before(s, n) = IF n =< s THEN s - n ELSE s - n + MaxStep
         /\ After(s, n) \in Step /\ Before(s, n) \in Step
<1>1. MaxStep \in Nat \ {0} /\ s \in Nat /\ s < MaxStep /\ n \in Nat /\ s # None
  BY PGUndoAssumption DEF Step
<1>2. \A x \in Int, q \in {-1, 0, 1} :
         x - q * MaxStep \in 0 .. MaxStep - 1 => x % MaxStep = x - q * MaxStep
  <2> SUFFICES ASSUME NEW x \in Int, NEW q \in {-1, 0, 1},
                      x - q * MaxStep \in 0 .. MaxStep - 1
               PROVE  x % MaxStep = x - q * MaxStep
    OBVIOUS
  <2> DEFINE d == x \div MaxStep
             r == x % MaxStep
  <2>1. d \in Int /\ r \in 0 .. MaxStep - 1 /\ x = MaxStep * d + r
    BY <1>1
  <2> HIDE DEF d, r
  <2>2. q \in Int /\ q * MaxStep = MaxStep * q
    BY <1>1
  <2>3. MaxStep * (d - q) = x - r - q * MaxStep
    BY <1>1, <2>1, <2>2
  <2>4. MaxStep * (d - q) < MaxStep /\ MaxStep * (d - q) > - MaxStep
    BY <1>1, <2>1, <2>2, <2>3
  <2>5. d - q = 0
    <3>1. \A z \in Int : z >= 1 => MaxStep * z >= MaxStep
      BY <1>1
    <3>2. \A z \in Int : z =< -1 => MaxStep * z =< - MaxStep
      BY <1>1
    <3> QED BY <1>1, <2>1, <2>2, <2>4, <3>1, <3>2
  <2>6. d = q
    BY <2>1, <2>2, <2>5
  <2>7. MaxStep * d = MaxStep * q
    BY <2>6
  <2>8. r = x - q * MaxStep
    BY <1>1, <2>1, <2>2, <2>7
  <2> QED BY <2>8 DEF r
<1>3. s + n \in Int /\ s - n \in Int
  BY <1>1
<1>4. After(s, n) = IF s + n < MaxStep THEN s + n ELSE s + n - MaxStep
  <2>1. (s + n) - 0 * MaxStep = s + n /\ (s + n) - 1 * MaxStep = s + n - MaxStep
    BY <1>1
  <2>2. CASE s + n < MaxStep
    <3>1. (s + n) - 0 * MaxStep \in 0 .. MaxStep - 1
      BY <1>1, <2>1, <2>2
    <3> QED BY <1>1, <1>2, <1>3, <2>1, <2>2, <3>1 DEF After
  <2>3. CASE ~(s + n < MaxStep)
    <3>1. (s + n) - 1 * MaxStep \in 0 .. MaxStep - 1
      BY <1>1, <2>1, <2>3
    <3> QED BY <1>1, <1>2, <1>3, <2>1, <2>3, <3>1 DEF After
  <2> QED BY <2>2, <2>3
<1>5. Before(s, n) = IF n =< s THEN s - n ELSE s - n + MaxStep
  <2>1. (s - n) - 0 * MaxStep = s - n /\ (s - n) - (-1) * MaxStep = s - n + MaxStep
    BY <1>1
  <2>2. CASE n =< s
    <3>1. (s - n) - 0 * MaxStep \in 0 .. MaxStep - 1
      BY <1>1, <2>1, <2>2
    <3> QED BY <1>1, <1>2, <1>3, <2>1, <2>2, <3>1 DEF Before
  <2>3. CASE ~(n =< s)
    <3>1. (s - n) - (-1) * MaxStep \in 0 .. MaxStep - 1
      BY <1>1, <2>1, <2>3
    <3> QED BY <1>1, <1>2, <1>3, <2>1, <2>3, <3>1 DEF Before
  <2> QED BY <2>2, <2>3
<1> QED BY <1>1, <1>4, <1>5 DEF Step

\* Going to the next step of the ring and back, and how far it is round.
LEMMA RoundAndBack ==
  ASSUME NEW s \in Step
  PROVE  /\ After(s, 1) \in Step /\ Before(s, 1) \in Step /\ Before(s, 0) = s
         /\ Before(After(s, 1), 1) = s /\ After(Before(s, 1), 1) = s
         /\ \A k \in 1 .. MaxStep - 1 :
               /\ Before(s, k) # s /\ After(s, k) # s
               /\ Before(s, k) \in Step /\ After(s, k) \in Step
               /\ Before(After(s, 1), k + 1) = Before(s, k)
               /\ After(Before(s, 1), k + 1) = After(s, k)
               /\ Before(Before(s, 1), k) = Before(s, k + 1)
               /\ After(After(s, 1), k) = After(s, k + 1)
<1>1. MaxStep \in Nat \ {0} /\ s \in Nat /\ s < MaxStep
  BY PGUndoAssumption DEF Step
<1> DEFINE a == After(s, 1)
           b == Before(s, 1)
<1>2. /\ a = IF s + 1 < MaxStep THEN s + 1 ELSE s + 1 - MaxStep
      /\ b = IF 1 =< s THEN s - 1 ELSE s - 1 + MaxStep
      /\ a \in Step /\ b \in Step
  <2>1. 1 \in 0 .. MaxStep
    BY <1>1
  <2> QED BY <2>1, Around
<1>3. Before(s, 0) = s
  <2>1. 0 \in 0 .. MaxStep
    BY <1>1
  <2> QED BY <1>1, <2>1, Around
<1>4. a \in Nat /\ b \in Nat
  BY <1>2 DEF Step
<1> HIDE DEF a, b
<1>5. Before(a, 1) = s /\ After(b, 1) = s
  <2>1. 1 \in 0 .. MaxStep
    BY <1>1
  <2>2. /\ Before(a, 1) = IF 1 =< a THEN a - 1 ELSE a - 1 + MaxStep
        /\ After(b, 1) = IF b + 1 < MaxStep THEN b + 1 ELSE b + 1 - MaxStep
    BY <1>2, <2>1, Around
  <2> QED BY <1>1, <1>2, <1>4, <2>2
<1>6. ASSUME NEW k \in 1 .. MaxStep - 1
      PROVE  /\ Before(s, k) # s /\ After(s, k) # s
             /\ Before(s, k) \in Step /\ After(s, k) \in Step
             /\ Before(a, k + 1) = Before(s, k)
             /\ After(b, k + 1) = After(s, k)
             /\ Before(b, k) = Before(s, k + 1)
             /\ After(a, k) = After(s, k + 1)
  <2>1. k \in 0 .. MaxStep /\ k + 1 \in 0 .. MaxStep /\ k \in Nat \ {0} /\ k < MaxStep
    BY <1>1
  <2>2. /\ After(s, k) = IF s + k < MaxStep THEN s + k ELSE s + k - MaxStep
        /\ Before(s, k) = IF k =< s THEN s - k ELSE s - k + MaxStep
        /\ After(s, k + 1) = IF s + (k + 1) < MaxStep THEN s + (k + 1) ELSE s + (k + 1) - MaxStep
        /\ Before(s, k + 1) = IF k + 1 =< s THEN s - (k + 1) ELSE s - (k + 1) + MaxStep
        /\ After(s, k) \in Step /\ Before(s, k) \in Step
    BY <2>1, Around
  <2>3. /\ After(a, k) = IF a + k < MaxStep THEN a + k ELSE a + k - MaxStep
        /\ Before(a, k + 1) = IF k + 1 =< a THEN a - (k + 1) ELSE a - (k + 1) + MaxStep
    BY <1>2, <2>1, Around
  <2>4. /\ After(b, k + 1) = IF b + (k + 1) < MaxStep THEN b + (k + 1) ELSE b + (k + 1) - MaxStep
        /\ Before(b, k) = IF k =< b THEN b - k ELSE b - k + MaxStep
    BY <1>2, <2>1, Around
  <2>5. Before(s, k) # s /\ After(s, k) # s
    BY <1>1, <2>1, <2>2
  <2>6. Before(a, k + 1) = Before(s, k) /\ After(a, k) = After(s, k + 1)
    BY <1>1, <1>2, <1>4, <2>1, <2>2, <2>3
  <2>7. After(b, k + 1) = After(s, k) /\ Before(b, k) = Before(s, k + 1)
    BY <1>1, <1>2, <1>4, <2>1, <2>2, <2>4
  <2> QED BY <2>2, <2>5, <2>6, <2>7
<1> QED BY <1>2, <1>3, <1>5, <1>6 DEF a, b

\* The counters, and the steps of the ring that are to be undone and redone.
LEMMA RingFacts ==
  ASSUME Inv
  PROVE  /\ totalUndo \in Nat /\ totalRedo \in Nat /\ totalUndo + totalRedo =< MaxStep
         /\ MaxStep \in Nat \ {0} /\ None \notin Step
         /\ curStep \in Step \cup {None}
         /\ curStep = None => totalRedo = 0
         /\ \A k \in 0 .. totalUndo - 1 : Before(curStep, k) \in Step
         /\ \A k \in 1 .. totalRedo : After(curStep, k) \in Step
<1>1. /\ totalUndo \in Nat /\ totalRedo \in Nat /\ totalUndo + totalRedo =< MaxStep
      /\ MaxStep \in Nat \ {0} /\ None \notin Step
      /\ curStep \in Step \cup {None}
      /\ curStep = None => totalRedo = 0
  <2>1. /\ totalUndo \in Nat /\ totalRedo \in Nat /\ totalUndo + totalRedo =< MaxStep
        /\ MaxStep \in Nat \ {0} /\ None \notin Step
        /\ curStep \in Step \cup {None}
    BY PGUndoAssumption DEF Inv, TypeOK, RingHolds, Step
  <2>2. curStep = None => ~ (totalRedo > 0)
    BY Zenon DEF Inv, RingHolds
  <2> QED BY <2>1, <2>2
<1>2. ASSUME NEW k \in 0 .. totalUndo - 1 PROVE Before(curStep, k) \in Step
  <2>1. k \in 0 .. MaxStep - 1
    BY <1>1
  <2> QED BY <1>1, <2>1, BeforeStep
<1>3. ASSUME NEW k \in 1 .. totalRedo PROVE After(curStep, k) \in Step
  <2>1. k \in 0 .. MaxStep /\ totalRedo # 0
    BY <1>1
  <2> QED BY <1>1, <2>1, Around
<1> QED BY <1>1, <1>2, <1>3

\* The states of the history are what Back and Ahead say.
LEMMA WalksOK == Inv => BackOK /\ AheadOK
<1> SUFFICES ASSUME Inv PROVE BackOK /\ AheadOK
  OBVIOUS
<1>1. /\ totalUndo \in Nat /\ totalRedo \in Nat
      /\ \A k \in 0 .. totalUndo - 1 : Before(curStep, k) \in Step
      /\ \A k \in 1 .. totalRedo : After(curStep, k) \in Step
  BY RingFacts
<1>2. /\ shown \in SUBSET Elem
      /\ undoAddItms \in [Step -> SUBSET Elem] /\ undoDelItms \in [Step -> SUBSET Elem]
  <2>1. 0 \in Nat /\ last + 0 =< MaxElem
    BY PGUndoAssumption DEF Inv, TypeOK
  <2> QED BY PGUndoAssumption DEF Inv, TypeOK, Elem
<1>3. BackOK
  <2> DEFINE D == [k \in 1 .. totalUndo |-> undoDelItms[Before(curStep, k - 1)]]
             A == [k \in 1 .. totalUndo |-> undoAddItms[Before(curStep, k - 1)]]
             Body(f) == [k \in 0 .. totalUndo |->
                           IF k = 0 THEN shown
                           ELSE (f[k - 1] \cup undoDelItms[Before(curStep, k - 1)])
                                \ undoAddItms[Before(curStep, k - 1)]]
             Same(f) == Follow(f, totalUndo, shown, D, A)
  <2>1. \A k \in 1 .. totalUndo : k - 1 \in 0 .. totalUndo - 1
    BY <1>1
  <2>2. IsCourse(totalUndo, Elem, shown, D, A)
    BY <1>1, <1>2, <2>1 DEF IsCourse
  <2>3. \A k \in 1 .. totalUndo : /\ D[k] = undoDelItms[Before(curStep, k - 1)]
                                  /\ A[k] = undoAddItms[Before(curStep, k - 1)]
    OBVIOUS
  <2> HIDE DEF D, A
  <2>4. \A f : Body(f) = Same(f)
    <3>1. \A k \in 0 .. totalUndo : k # 0 => k \in 1 .. totalUndo
      BY <1>1
    <3> QED BY <2>3, <3>1 DEF Follow
  <2>5. \E f : f = Same(f)
    BY <2>2, WalkFacts
  <2>6. \A f : f = Same(f) =>
               /\ f \in [0 .. totalUndo -> SUBSET Elem] /\ f[0] = shown
               /\ \A k \in 1 .. totalUndo : f[k] = (f[k - 1] \cup D[k]) \ A[k]
    BY <2>2, WalkFacts
  <2>7. Back = CHOOSE f : f = Body(f)
    BY DEF Back
  <2> HIDE DEF Body, Same
  <2>8. \E f : f = Body(f)
    BY <2>4, <2>5
  <2>9. Back = Body(Back)
    BY <2>7, <2>8
  <2>10. Back = Same(Back)
    BY <2>4, <2>9
  <2> QED BY <2>3, <2>6, <2>10 DEF BackOK
<1>4. AheadOK
  <2> DEFINE D == [k \in 1 .. totalRedo |-> undoDelItms[After(curStep, k)]]
             A == [k \in 1 .. totalRedo |-> undoAddItms[After(curStep, k)]]
             Body(f) == [k \in 0 .. totalRedo |->
                           IF k = 0 THEN shown
                           ELSE (f[k - 1] \cup undoDelItms[After(curStep, k)])
                                \ undoAddItms[After(curStep, k)]]
             Same(f) == Follow(f, totalRedo, shown, D, A)
  <2>2. IsCourse(totalRedo, Elem, shown, D, A)
    BY <1>1, <1>2 DEF IsCourse
  <2>3. \A k \in 1 .. totalRedo : /\ D[k] = undoDelItms[After(curStep, k)]
                                  /\ A[k] = undoAddItms[After(curStep, k)]
    OBVIOUS
  <2> HIDE DEF D, A
  <2>4. \A f : Body(f) = Same(f)
    <3>1. \A k \in 0 .. totalRedo : k # 0 => k \in 1 .. totalRedo
      BY <1>1
    <3> QED BY <2>3, <3>1 DEF Follow
  <2>5. \E f : f = Same(f)
    BY <2>2, WalkFacts
  <2>6. \A f : f = Same(f) =>
               /\ f \in [0 .. totalRedo -> SUBSET Elem] /\ f[0] = shown
               /\ \A k \in 1 .. totalRedo : f[k] = (f[k - 1] \cup D[k]) \ A[k]
    BY <2>2, WalkFacts
  <2>7. Ahead = CHOOSE f : f = Body(f)
    BY DEF Ahead
  <2> HIDE DEF Body, Same
  <2>8. \E f : f = Body(f)
    BY <2>4, <2>5
  <2>9. Ahead = Body(Ahead)
    BY <2>7, <2>8
  <2>10. Ahead = Same(Ahead)
    BY <2>4, <2>9
  <2> QED BY <2>3, <2>6, <2>10 DEF AheadOK
<1> QED BY <1>3, <1>4

\* The same after a step.
LEMMA WalksOKNext == Inv' => BackOK' /\ AheadOK'
BY WalksOK, PTL

-----------------------------------------------------------------------------
\* A step that fits goes on to fit when more elements are loose.
LEMMA StillUndoes ==
  ASSUME NEW D, NEW A, NEW S, NEW T, NEW L, NEW M,
         Undoes(D, A, S, L), L \subseteq M, S \ M = T \ M
  PROVE  Undoes(D, A, T, M)
BY DEF Undoes

\* A step of loose elements fits, and leads nowhere.
LEMMA LooseUndoes ==
  ASSUME NEW D, NEW A, NEW S, NEW L, D \subseteq L, A \subseteq L
  PROVE  Undoes(D, A, S, L) /\ ((S \cup D) \ A) \ L = S \ L
BY DEF Undoes

\* A step that fits can be undone, and then fits the other way round.
LEMMA Reversal ==
  ASSUME NEW D, NEW A, NEW S, NEW L, Undoes(D, A, S, L)
  PROVE  /\ ((((S \cup D) \ A) \cup A) \ D) \ L = S \ L
         /\ Undoes(A, D, (S \cup D) \ A, L)
BY DEF Undoes

\* The values of past and future are sequences.
SequencesOK ==
    /\ Present \in SUBSET Elem
    /\ Past \in Seq(SUBSET Elem) /\ Len(Past) = totalUndo /\ DOMAIN Past = 1 .. totalUndo
    /\ \A k \in 1 .. totalUndo : Past[k] = Back[totalUndo + 1 - k] \ loose
    /\ Future \in Seq(SUBSET Elem) /\ Len(Future) = totalRedo /\ DOMAIN Future = 1 .. totalRedo
    /\ \A k \in 1 .. totalRedo : Future[k] = Ahead[k] \ loose

\* They are, and their length is that of the counters.
LEMMA Sequences == Inv => SequencesOK
<1> SUFFICES ASSUME Inv PROVE SequencesOK
  OBVIOUS
<1>1. totalUndo \in Nat /\ totalRedo \in Nat
  BY RingFacts
<1>2. /\ Back \in [0 .. totalUndo -> SUBSET Elem] /\ Back[0] = shown
      /\ Ahead \in [0 .. totalRedo -> SUBSET Elem]
  BY WalksOK DEF BackOK, AheadOK
<1>3. shown \in SUBSET Elem
  BY <1>1, <1>2
<1>4. Past \in [1 .. totalUndo -> SUBSET Elem]
  <2>1. ASSUME NEW k \in 1 .. totalUndo PROVE Back[totalUndo + 1 - k] \ loose \in SUBSET Elem
    <3>1. totalUndo + 1 - k \in 0 .. totalUndo
      BY <1>1
    <3> QED BY <1>2, <3>1
  <2> QED BY <2>1 DEF Past
<1>5. Future \in [1 .. totalRedo -> SUBSET Elem]
  <2>1. ASSUME NEW k \in 1 .. totalRedo PROVE Ahead[k] \ loose \in SUBSET Elem
    <3>1. k \in 0 .. totalRedo
      BY <1>1
    <3> QED BY <1>2, <3>1
  <2> QED BY <2>1 DEF Future
<1>6. ASSUME NEW n \in Nat, NEW S, NEW s \in [1 .. n -> S]
      PROVE  s \in Seq(S) /\ Len(s) = n /\ DOMAIN s = 1 .. n
  OBVIOUS
<1>7. Past \in Seq(SUBSET Elem) /\ Len(Past) = totalUndo /\ DOMAIN Past = 1 .. totalUndo
  BY <1>1, <1>4, <1>6
<1>8. Future \in Seq(SUBSET Elem) /\ Len(Future) = totalRedo /\ DOMAIN Future = 1 .. totalRedo
  BY <1>1, <1>5, <1>6
<1>9. /\ \A k \in 1 .. totalUndo : Past[k] = Back[totalUndo + 1 - k] \ loose
      /\ \A k \in 1 .. totalRedo : Future[k] = Ahead[k] \ loose
  BY DEF Past, Future
<1> QED BY <1>3, <1>7, <1>8, <1>9 DEF SequencesOK, Present

\* The same after a step.
LEMMA SequencesNext == Inv' => SequencesOK'
BY Sequences, PTL

\* The past with the present behind it, the future with the present before.
LEMMA WithPresent ==
  ASSUME Inv
  PROVE  /\ Append(Past, Present) \in Seq(SUBSET Elem)
         /\ Len(Append(Past, Present)) = totalUndo + 1
         /\ DOMAIN Append(Past, Present) = 1 .. totalUndo + 1
         /\ \A k \in 1 .. totalUndo + 1 :
               Append(Past, Present)[k] = Back[totalUndo + 1 - k] \ loose
         /\ Len(<<Present>> \o Future) = totalRedo + 1
         /\ DOMAIN (<<Present>> \o Future) = 1 .. totalRedo + 1
         /\ \A k \in 1 .. totalRedo + 1 :
               (<<Present>> \o Future)[k] = Ahead[k - 1] \ loose
<1>1. /\ totalUndo \in Nat /\ totalRedo \in Nat /\ SequencesOK
      /\ Back[0] = shown /\ Ahead[0] = shown
  BY RingFacts, Sequences, WalksOK DEF BackOK, AheadOK
<1>2. /\ Past \in Seq(SUBSET Elem) /\ Present \in SUBSET Elem /\ Len(Past) = totalUndo
      /\ Future \in Seq(SUBSET Elem) /\ Len(Future) = totalRedo
  BY <1>1 DEF SequencesOK
<1> DEFINE S == SUBSET Elem
           t == Append(Past, Present)
           u == <<Present>> \o Future
<1>3. /\ t \in Seq(S) /\ Len(t) = totalUndo + 1
      /\ \A k \in 1 .. totalUndo : t[k] = Past[k]
      /\ t[totalUndo + 1] = Present
  <2> HIDE DEF S
  <2>1. Past \in Seq(S) /\ Present \in S
    BY <1>2 DEF S
  <2> QED BY <1>1, <1>2, <2>1, AppendProperties
<1>4. /\ u \in Seq(S) /\ Len(u) = totalRedo + 1 /\ u[1] = Present
      /\ \A k \in 2 .. totalRedo + 1 : u[k] = Future[k - 1]
  <2> HIDE DEF S
  <2>1. Future \in Seq(S) /\ <<Present>> \in Seq(S) /\ Len(<<Present>>) = 1 /\ <<Present>>[1] = Present
    BY <1>2 DEF S
  <2>2. /\ u \in Seq(S) /\ Len(u) = 1 + totalRedo
        /\ \A i \in 1 .. 1 + totalRedo : u[i] = IF i =< 1 THEN <<Present>>[i] ELSE Future[i - 1]
    BY <1>2, <2>1, ConcatProperties
  <2>3. u[1] = Present
    BY <1>1, <2>1, <2>2
  <2>4. \A k \in 2 .. totalRedo + 1 : u[k] = Future[k - 1]
    BY <1>1, <2>2
  <2> QED BY <1>1, <2>2, <2>3, <2>4
<1> HIDE DEF t, u
<1>5. ASSUME NEW k \in 1 .. totalUndo + 1 PROVE t[k] = Back[totalUndo + 1 - k] \ loose
  <2>1. CASE k = totalUndo + 1
    BY <1>1, <1>3, <2>1 DEF Present
  <2>2. CASE k # totalUndo + 1
    BY <1>1, <1>3, <2>2 DEF SequencesOK
  <2> QED BY <2>1, <2>2
<1>6. ASSUME NEW k \in 1 .. totalRedo + 1 PROVE u[k] = Ahead[k - 1] \ loose
  <2>1. CASE k = 1
    BY <1>1, <1>4, <2>1 DEF Present
  <2>2. CASE k # 1
    <3>1. k \in 2 .. totalRedo + 1 /\ k - 1 \in 1 .. totalRedo
      BY <1>1, <2>2
    <3> QED BY <1>1, <1>4, <3>1 DEF SequencesOK
  <2> QED BY <2>1, <2>2
<1>7. DOMAIN t = 1 .. totalUndo + 1 /\ DOMAIN u = 1 .. totalRedo + 1
  <2> HIDE DEF S
  <2> QED BY <1>3, <1>4
<1> QED BY <1>3, <1>4, <1>5, <1>6, <1>7 DEF t, u, S

AtMost(m, s, n) == m = IF Len(s) =< n THEN Len(s) ELSE n

\* The last states of a sequence, n of them if there are so many.
LEMMA LastStates ==
  ASSUME NEW S, NEW s \in Seq(S), NEW n \in Nat, NEW m, AtMost(m, s, n)
  PROVE  /\ DOMAIN History!LastOf(s, n) = 1 .. m
         /\ \A k \in 1 .. m : History!LastOf(s, n)[k] = s[k + Len(s) - m]
<1> USE DEF AtMost
<1>1. Len(s) \in Nat /\ DOMAIN s = 1 .. Len(s)
  OBVIOUS
<1>2. CASE Len(s) =< n
  <2>1. History!LastOf(s, n) = s /\ m = Len(s)
    BY <1>2 DEF History!LastOf
  <2>2. \A k \in 1 .. m : k + Len(s) - m = k
    BY <1>1, <2>1
  <2> QED BY <1>1, <2>1, <2>2
<1>3. CASE ~(Len(s) =< n)
  <2> DEFINE first == Len(s) - n + 1
             t == SubSeq(s, first, Len(s))
  <2>1. History!LastOf(s, n) = t /\ m = n
    BY <1>3 DEF History!LastOf
  <2>2. first \in Int /\ Len(s) \in Int /\ first >= 1 /\ first =< Len(s) + 1
    BY <1>1, <1>3
  <2>3. \A i \in first .. Len(s) : s[i] \in S
    BY <1>1, <2>2
  <2> HIDE DEF first
  <2>4. /\ t \in Seq(S) /\ Len(t) = IF first =< Len(s) THEN Len(s) - first + 1 ELSE 0
        /\ \A i \in 1 .. Len(s) - first + 1 : t[i] = s[first + i - 1]
    BY <2>2, <2>3, SubSeqProperties
  <2> HIDE DEF t
  <2>5. Len(s) - first + 1 = n /\ Len(t) = n
    BY <1>1, <1>3, <2>2, <2>4 DEF first
  <2>6. DOMAIN t = 1 .. n
    BY <2>4, <2>5
  <2>7. \A k \in 1 .. n : t[k] = s[k + Len(s) - n]
    <3> SUFFICES ASSUME NEW k \in 1 .. n PROVE t[k] = s[k + Len(s) - n]
      OBVIOUS
    <3>1. first + k - 1 = k + Len(s) - n
      BY <1>1 DEF first
    <3> QED BY <2>4, <2>5, <3>1
  <2> QED BY <2>1, <2>6, <2>7
<1> QED BY <1>2, <1>3

\* Before the first step the ring stands as if at its last one.
LEMMA Outset ==
  ASSUME NEW c \in Step \cup {None}
  PROVE  \E s \in Step : /\ After(c, 1) = After(s, 1)
                         /\ \A k \in 0 .. MaxStep - 1 : Before(c, k) = Before(s, k)
<1>1. CASE c \in Step
  BY <1>1
<1>2. CASE c \notin Step
  <2> DEFINE s == MaxStep - 1
  <2>1. /\ MaxStep \in Nat \ {0} /\ s \in Step /\ s \in Nat /\ s + 1 = MaxStep
        /\ c = None
    BY <1>2, PGUndoAssumption DEF Step
  <2> HIDE DEF s
  <2>2. After(c, 1) = After(s, 1)
    <3>1. 1 \in 0 .. MaxStep
      BY <2>1
    <3>2. After(s, 1) = IF s + 1 < MaxStep THEN s + 1 ELSE s + 1 - MaxStep
      BY <2>1, <3>1, Around
    <3>3. After(s, 1) = 0
      BY <2>1, <3>2
    <3> QED BY <2>1, <3>3 DEF After
  <2>3. ASSUME NEW k \in 0 .. MaxStep - 1 PROVE Before(c, k) = Before(s, k)
    <3>1. k \in 0 .. MaxStep /\ k =< s /\ s - k = MaxStep - 1 - k
      BY <2>1
    <3>2. Before(s, k) = s - k
      BY <2>1, <3>1, Around
    <3> QED BY <2>1, <3>1, <3>2 DEF Before
  <2> QED BY <2>1, <2>2, <2>3
<1> QED BY <1>1, <1>2

-----------------------------------------------------------------------------
(***************************************************************************)
(* What becomes of Back and Ahead when the ring is turned by one step and  *)
(* nothing but one step of it changes.                                     *)
(***************************************************************************)
\* The ring has gone on to the next step: Back is one state longer.
LEMMA BackOn ==
  ASSUME Inv, Inv', Fits, loose \subseteq loose',
         curStep' = After(curStep, 1),
         NEW N \in Nat, N =< totalUndo, N + 1 =< totalUndo', N < MaxStep,
         \A s \in Step : s # curStep' => /\ undoAddItms'[s] = undoAddItms[s]
                                         /\ undoDelItms'[s] = undoDelItms[s],
         Alike(Back'[1], Back[0], loose')
  PROVE  /\ \A k \in 0 .. N : Alike(Back'[1 + k], Back[k], loose')
         /\ \A k \in 1 .. N : Undoes(undoDelItms'[Before(curStep', k)],
                                     undoAddItms'[Before(curStep', k)], Back'[k], loose')
<1>1. /\ totalUndo \in Nat /\ totalUndo' \in Nat /\ MaxStep \in Nat \ {0}
      /\ curStep \in Step \cup {None}
  BY RingFacts DEF Inv, TypeOK
<1>2. /\ \A k \in 1 .. totalUndo :
            Back[k] = (Back[k - 1] \cup undoDelItms[Before(curStep, k - 1)])
                      \ undoAddItms[Before(curStep, k - 1)]
      /\ \A k \in 1 .. totalUndo' :
            Back'[k] = (Back'[k - 1] \cup undoDelItms'[Before(curStep', k - 1)])
                       \ undoAddItms'[Before(curStep', k - 1)]
  BY WalksOK, WalksOKNext DEF BackOK
<1>3. ASSUME NEW k \in 1 .. N
      PROVE  /\ Before(curStep', k) = Before(curStep, k - 1)
             /\ undoAddItms'[Before(curStep', k)] = undoAddItms[Before(curStep, k - 1)]
             /\ undoDelItms'[Before(curStep', k)] = undoDelItms[Before(curStep, k - 1)]
  <2>1. /\ k \in 1 .. MaxStep - 1 /\ k - 1 \in 0 .. MaxStep - 1 /\ 0 \in 0 .. MaxStep - 1
    BY <1>1
  <2>2. PICK s \in Step : /\ curStep' = After(s, 1)
                          /\ \A i \in 0 .. MaxStep - 1 : Before(curStep, i) = Before(s, i)
    BY <1>1, Outset
  <2>3. curStep' \in Step /\ Before(s, 0) = s /\ Before(curStep', 1) = s
    BY <2>2, RoundAndBack
  <2>4. Before(curStep', k) # curStep' /\ Before(curStep', k) \in Step
    BY <2>1, <2>3, RoundAndBack
  <2>5. Before(curStep', k) = Before(s, k - 1)
    <3>1. CASE k = 1
      BY <2>3, <3>1
    <3>2. CASE k # 1
      <4>1. k - 1 \in 1 .. MaxStep - 1 /\ (k - 1) + 1 = k
        BY <1>1, <2>1, <3>2
      <4>2. Before(After(s, 1), (k - 1) + 1) = Before(s, k - 1)
        BY <4>1, RoundAndBack
      <4> QED BY <2>2, <4>1, <4>2
    <3> QED BY <3>1, <3>2
  <2>6. Before(curStep', k) = Before(curStep, k - 1)
    BY <2>1, <2>2, <2>5
  <2> QED BY <2>4, <2>6
<1> DEFINE D == [k \in 1 .. N |-> undoDelItms[Before(curStep, k - 1)]]
           A == [k \in 1 .. N |-> undoAddItms[Before(curStep, k - 1)]]
<1>4. Walks(Back', 1, N, D, A, loose')
  <2> SUFFICES ASSUME NEW k \in 1 .. N
               PROVE  Back'[1 + k] = (Back'[1 + k - 1] \cup D[k]) \ A[k]
    BY DEF Walks
  <2>1. 1 + k \in 1 .. totalUndo' /\ (1 + k) - 1 = k
    BY <1>1
  <2>2. Back'[1 + k] = (Back'[k] \cup undoDelItms'[Before(curStep', k)])
                       \ undoAddItms'[Before(curStep', k)]
    BY <1>2, <2>1
  <2> QED BY <1>3, <2>1, <2>2
<1>5. Walks(Back, 0, N, D, A, loose')
  <2> SUFFICES ASSUME NEW k \in 1 .. N
               PROVE  Back[0 + k] = (Back[0 + k - 1] \cup D[k]) \ A[k]
    BY DEF Walks
  <2>1. k \in 1 .. totalUndo /\ 0 + k = k
    BY <1>1
  <2> QED BY <1>2, <2>1
<1> HIDE DEF D, A
<1>6. \A k \in 0 .. N : Alike(Back'[1 + k], Back[0 + k], loose')
  BY <1>4, <1>5, SameWalk
<1>7. \A k \in 0 .. N : Alike(Back'[1 + k], Back[k], loose')
  <2>1. \A k \in 0 .. N : 0 + k = k
    OBVIOUS
  <2> QED BY <1>6, <2>1
<1>8. ASSUME NEW k \in 1 .. N
      PROVE  Undoes(undoDelItms'[Before(curStep', k)],
                    undoAddItms'[Before(curStep', k)], Back'[k], loose')
  <2>1. k - 1 \in 0 .. totalUndo - 1 /\ k - 1 \in 0 .. N /\ 1 + (k - 1) = k
    BY <1>1
  <2>2. Alike(Back'[k], Back[k - 1], loose')
    BY <1>7, <2>1
  <2>3. Undoes(undoDelItms[Before(curStep, k - 1)], undoAddItms[Before(curStep, k - 1)],
               Back[k - 1], loose)
    BY <2>1 DEF Fits
  <2>4. Undoes(undoDelItms[Before(curStep, k - 1)], undoAddItms[Before(curStep, k - 1)],
               Back'[k], loose')
    BY <2>2, <2>3, StillUndoes DEF Alike
  <2> QED BY <1>3, <2>4
<1> QED BY <1>7, <1>8

\* The ring has gone back a step: Ahead is one state longer.
LEMMA AheadOn ==
  ASSUME Inv, Inv', Fits, loose \subseteq loose',
         curStep \in Step, curStep' = Before(curStep, 1),
         totalRedo' = totalRedo + 1, totalRedo < MaxStep,
         \A s \in Step : s # curStep => /\ undoAddItms'[s] = undoAddItms[s]
                                        /\ undoDelItms'[s] = undoDelItms[s],
         Alike(Ahead'[1], Ahead[0], loose')
  PROVE  /\ \A k \in 0 .. totalRedo : Alike(Ahead'[1 + k], Ahead[k], loose')
         /\ \A k \in 2 .. totalRedo' :
               Undoes(undoDelItms'[After(curStep', k)],
                      undoAddItms'[After(curStep', k)], Ahead'[k - 1], loose')
<1>1. totalRedo \in Nat /\ totalRedo' \in Nat /\ MaxStep \in Nat \ {0}
  BY RingFacts DEF Inv, TypeOK
<1>2. /\ \A k \in 1 .. totalRedo :
            Ahead[k] = (Ahead[k - 1] \cup undoDelItms[After(curStep, k)])
                       \ undoAddItms[After(curStep, k)]
      /\ \A k \in 1 .. totalRedo' :
            Ahead'[k] = (Ahead'[k - 1] \cup undoDelItms'[After(curStep', k)])
                        \ undoAddItms'[After(curStep', k)]
  BY WalksOK, WalksOKNext DEF AheadOK
<1>3. ASSUME NEW k \in 1 .. totalRedo
      PROVE  /\ After(curStep', k + 1) = After(curStep, k)
             /\ undoAddItms'[After(curStep', k + 1)] = undoAddItms[After(curStep, k)]
             /\ undoDelItms'[After(curStep', k + 1)] = undoDelItms[After(curStep, k)]
  <2>1. k \in 1 .. MaxStep - 1
    BY <1>1
  <2>2. /\ After(curStep, k) # curStep /\ After(curStep, k) \in Step
        /\ After(Before(curStep, 1), k + 1) = After(curStep, k)
    BY <2>1, RoundAndBack
  <2> QED BY <2>2
<1> DEFINE D == [k \in 1 .. totalRedo |-> undoDelItms[After(curStep, k)]]
           A == [k \in 1 .. totalRedo |-> undoAddItms[After(curStep, k)]]
<1>4. Walks(Ahead', 1, totalRedo, D, A, loose')
  <2> SUFFICES ASSUME NEW k \in 1 .. totalRedo
               PROVE  Ahead'[1 + k] = (Ahead'[1 + k - 1] \cup D[k]) \ A[k]
    BY DEF Walks
  <2>1. k + 1 \in 1 .. totalRedo' /\ (k + 1) - 1 = k /\ 1 + k = k + 1 /\ 1 + k - 1 = k
    BY <1>1
  <2>2. Ahead'[k + 1] = (Ahead'[k] \cup undoDelItms'[After(curStep', k + 1)])
                        \ undoAddItms'[After(curStep', k + 1)]
    BY <1>2, <2>1
  <2> QED BY <1>3, <2>1, <2>2
<1>5. Walks(Ahead, 0, totalRedo, D, A, loose')
  <2> SUFFICES ASSUME NEW k \in 1 .. totalRedo
               PROVE  Ahead[0 + k] = (Ahead[0 + k - 1] \cup D[k]) \ A[k]
    BY DEF Walks
  <2>1. 0 + k = k
    BY <1>1
  <2> QED BY <1>2, <2>1
<1> HIDE DEF D, A
<1>6. \A k \in 0 .. totalRedo : Alike(Ahead'[1 + k], Ahead[0 + k], loose')
  BY <1>1, <1>4, <1>5, SameWalk
<1>7. \A k \in 0 .. totalRedo : Alike(Ahead'[1 + k], Ahead[k], loose')
  <2>1. \A k \in 0 .. totalRedo : 0 + k = k
    OBVIOUS
  <2> QED BY <1>6, <2>1
<1>8. ASSUME NEW k \in 2 .. totalRedo'
      PROVE  Undoes(undoDelItms'[After(curStep', k)],
                    undoAddItms'[After(curStep', k)], Ahead'[k - 1], loose')
  <2> DEFINE j == k - 1
  <2>1. j \in 1 .. totalRedo /\ j + 1 = k /\ j - 1 \in 0 .. totalRedo /\ 1 + (j - 1) = j
    BY <1>1
  <2> HIDE DEF j
  <2>2. Alike(Ahead'[j], Ahead[j - 1], loose')
    BY <1>7, <2>1
  <2>3. Undoes(undoDelItms[After(curStep, j)], undoAddItms[After(curStep, j)],
               Ahead[j - 1], loose)
    BY <2>1 DEF Fits
  <2>4. Undoes(undoDelItms[After(curStep, j)], undoAddItms[After(curStep, j)],
               Ahead'[j], loose')
    BY <2>2, <2>3, StillUndoes DEF Alike
  <2>5. Undoes(undoDelItms'[After(curStep', k)], undoAddItms'[After(curStep', k)],
               Ahead'[j], loose')
    BY <1>3, <2>1, <2>4
  <2> QED BY <2>5 DEF j
<1> QED BY <1>7, <1>8

\* It has gone back: Back is one state shorter.
LEMMA BackOff ==
  ASSUME Inv, Inv', Fits, loose' = loose,
         curStep \in Step, curStep' = Before(curStep, 1),
         totalUndo > 0, totalUndo' = totalUndo - 1, shown' = Back[1],
         \A s \in Step : s # curStep => /\ undoAddItms'[s] = undoAddItms[s]
                                        /\ undoDelItms'[s] = undoDelItms[s]
  PROVE  /\ \A k \in 0 .. totalUndo' : Alike(Back'[k], Back[1 + k], loose')
         /\ \A k \in 0 .. totalUndo' - 1 :
               Undoes(undoDelItms'[Before(curStep', k)],
                      undoAddItms'[Before(curStep', k)], Back'[k], loose')
<1>1. totalUndo \in Nat \ {0} /\ totalUndo' \in Nat /\ MaxStep \in Nat \ {0} /\ totalUndo =< MaxStep
  <2>1. totalUndo \in Nat /\ totalRedo \in Nat /\ totalUndo + totalRedo =< MaxStep /\ MaxStep \in Nat \ {0}
    BY RingFacts
  <2> QED BY <2>1
<1>2. /\ \A k \in 1 .. totalUndo :
            Back[k] = (Back[k - 1] \cup undoDelItms[Before(curStep, k - 1)])
                      \ undoAddItms[Before(curStep, k - 1)]
      /\ \A k \in 1 .. totalUndo' :
            Back'[k] = (Back'[k - 1] \cup undoDelItms'[Before(curStep', k - 1)])
                       \ undoAddItms'[Before(curStep', k - 1)]
      /\ Back'[0] = shown'
  BY WalksOK, WalksOKNext DEF BackOK
<1>3. ASSUME NEW k \in 0 .. totalUndo' - 1
      PROVE  /\ Before(curStep', k) = Before(curStep, k + 1)
             /\ undoAddItms'[Before(curStep', k)] = undoAddItms[Before(curStep, k + 1)]
             /\ undoDelItms'[Before(curStep', k)] = undoDelItms[Before(curStep, k + 1)]
  <2>1. k + 1 \in 1 .. MaxStep - 1
    BY <1>1
  <2>2. curStep' \in Step /\ Before(curStep', 0) = curStep'
    BY RoundAndBack
  <2>3. Before(curStep, k + 1) # curStep /\ Before(curStep, k + 1) \in Step
    BY <2>1, RoundAndBack
  <2>4. Before(curStep', k) = Before(curStep, k + 1)
    <3>1. CASE k = 0
      BY <2>2, <3>1
    <3>2. CASE k # 0
      <4>1. k \in 1 .. MaxStep - 1
        BY <1>1, <3>2
      <4> QED BY <4>1, RoundAndBack
    <3> QED BY <3>1, <3>2
  <2> QED BY <2>3, <2>4
<1> DEFINE D == [k \in 1 .. totalUndo' |-> undoDelItms[Before(curStep, k)]]
           A == [k \in 1 .. totalUndo' |-> undoAddItms[Before(curStep, k)]]
<1>4. Walks(Back', 0, totalUndo', D, A, loose')
  <2> SUFFICES ASSUME NEW k \in 1 .. totalUndo'
               PROVE  Back'[0 + k] = (Back'[0 + k - 1] \cup D[k]) \ A[k]
    BY DEF Walks
  <2>1. k - 1 \in 0 .. totalUndo' - 1 /\ (k - 1) + 1 = k /\ 0 + k = k
    BY <1>1
  <2>2. /\ undoAddItms'[Before(curStep', k - 1)] = undoAddItms[Before(curStep, k)]
        /\ undoDelItms'[Before(curStep', k - 1)] = undoDelItms[Before(curStep, k)]
    BY <1>3, <2>1
  <2> QED BY <1>2, <2>1, <2>2
<1>5. Walks(Back, 1, totalUndo', D, A, loose')
  <2> SUFFICES ASSUME NEW k \in 1 .. totalUndo'
               PROVE  Back[1 + k] = (Back[1 + k - 1] \cup D[k]) \ A[k]
    BY DEF Walks
  <2>1. 1 + k \in 1 .. totalUndo /\ (1 + k) - 1 = k
    BY <1>1
  <2>2. Back[1 + k] = (Back[k] \cup undoDelItms[Before(curStep, k)])
                      \ undoAddItms[Before(curStep, k)]
    BY <1>2, <2>1
  <2> QED BY <2>1, <2>2
<1>6. Alike(Back'[0], Back[1], loose')
  BY <1>2 DEF Alike
<1> HIDE DEF D, A
<1>7. \A k \in 0 .. totalUndo' : Alike(Back'[0 + k], Back[1 + k], loose')
  BY <1>1, <1>4, <1>5, <1>6, SameWalk
<1>8. \A k \in 0 .. totalUndo' : Alike(Back'[k], Back[1 + k], loose')
  <2>1. \A k \in 0 .. totalUndo' : 0 + k = k
    OBVIOUS
  <2> QED BY <1>7, <2>1
<1>9. ASSUME NEW k \in 0 .. totalUndo' - 1
      PROVE  Undoes(undoDelItms'[Before(curStep', k)],
                    undoAddItms'[Before(curStep', k)], Back'[k], loose')
  <2>1. k + 1 \in 0 .. totalUndo - 1 /\ k \in 0 .. totalUndo' /\ 1 + k = k + 1
    BY <1>1
  <2>2. Alike(Back'[k], Back[k + 1], loose')
    BY <1>8, <2>1
  <2>3. Undoes(undoDelItms[Before(curStep, k + 1)], undoAddItms[Before(curStep, k + 1)],
               Back[k + 1], loose)
    BY <2>1 DEF Fits
  <2>4. Undoes(undoDelItms[Before(curStep, k + 1)], undoAddItms[Before(curStep, k + 1)],
               Back'[k], loose')
    BY <2>2, <2>3, StillUndoes DEF Alike
  <2> QED BY <1>3, <2>4
<1> QED BY <1>8, <1>9

\* It has gone on: Ahead is one state shorter.
LEMMA AheadOff ==
  ASSUME Inv, Inv', Fits, loose' = loose,
         curStep \in Step, curStep' = After(curStep, 1),
         totalRedo > 0, totalRedo' = totalRedo - 1, shown' = Ahead[1],
         \A s \in Step : s # curStep' => /\ undoAddItms'[s] = undoAddItms[s]
                                         /\ undoDelItms'[s] = undoDelItms[s]
  PROVE  /\ \A k \in 0 .. totalRedo' : Alike(Ahead'[k], Ahead[1 + k], loose')
         /\ \A k \in 1 .. totalRedo' :
               Undoes(undoDelItms'[After(curStep', k)],
                      undoAddItms'[After(curStep', k)], Ahead'[k - 1], loose')
<1>1. totalRedo \in Nat \ {0} /\ totalRedo' \in Nat /\ MaxStep \in Nat \ {0} /\ totalRedo =< MaxStep
  <2>1. totalUndo \in Nat /\ totalRedo \in Nat /\ totalUndo + totalRedo =< MaxStep /\ MaxStep \in Nat \ {0}
    BY RingFacts
  <2> QED BY <2>1
<1>2. /\ \A k \in 1 .. totalRedo :
            Ahead[k] = (Ahead[k - 1] \cup undoDelItms[After(curStep, k)])
                       \ undoAddItms[After(curStep, k)]
      /\ \A k \in 1 .. totalRedo' :
            Ahead'[k] = (Ahead'[k - 1] \cup undoDelItms'[After(curStep', k)])
                        \ undoAddItms'[After(curStep', k)]
      /\ Ahead'[0] = shown'
  BY WalksOK, WalksOKNext DEF AheadOK
<1>3. ASSUME NEW k \in 1 .. totalRedo'
      PROVE  /\ After(curStep', k) = After(curStep, k + 1)
             /\ undoAddItms'[After(curStep', k)] = undoAddItms[After(curStep, k + 1)]
             /\ undoDelItms'[After(curStep', k)] = undoDelItms[After(curStep, k + 1)]
  <2>1. k \in 1 .. MaxStep - 1
    BY <1>1
  <2>2. curStep' \in Step /\ After(curStep', k) = After(curStep, k + 1)
    BY <2>1, RoundAndBack
  <2>3. After(curStep', k) # curStep' /\ After(curStep', k) \in Step
    BY <2>1, <2>2, RoundAndBack
  <2> QED BY <2>2, <2>3
<1> DEFINE D == [k \in 1 .. totalRedo' |-> undoDelItms[After(curStep, k + 1)]]
           A == [k \in 1 .. totalRedo' |-> undoAddItms[After(curStep, k + 1)]]
<1>4. Walks(Ahead', 0, totalRedo', D, A, loose')
  <2> SUFFICES ASSUME NEW k \in 1 .. totalRedo'
               PROVE  Ahead'[0 + k] = (Ahead'[0 + k - 1] \cup D[k]) \ A[k]
    BY DEF Walks
  <2>1. 0 + k = k
    BY <1>1
  <2> QED BY <1>2, <1>3, <2>1
<1>5. Walks(Ahead, 1, totalRedo', D, A, loose')
  <2> SUFFICES ASSUME NEW k \in 1 .. totalRedo'
               PROVE  Ahead[1 + k] = (Ahead[1 + k - 1] \cup D[k]) \ A[k]
    BY DEF Walks
  <2>1. k + 1 \in 1 .. totalRedo /\ (k + 1) - 1 = k /\ 1 + k = k + 1 /\ 1 + k - 1 = k
    BY <1>1
  <2>2. Ahead[k + 1] = (Ahead[k] \cup undoDelItms[After(curStep, k + 1)])
                       \ undoAddItms[After(curStep, k + 1)]
    BY <1>2, <2>1
  <2> QED BY <2>1, <2>2
<1>6. Alike(Ahead'[0], Ahead[1], loose')
  BY <1>2 DEF Alike
<1> HIDE DEF D, A
<1>7. \A k \in 0 .. totalRedo' : Alike(Ahead'[0 + k], Ahead[1 + k], loose')
  BY <1>1, <1>4, <1>5, <1>6, SameWalk
<1>8. \A k \in 0 .. totalRedo' : Alike(Ahead'[k], Ahead[1 + k], loose')
  <2>1. \A k \in 0 .. totalRedo' : 0 + k = k
    OBVIOUS
  <2> QED BY <1>7, <2>1
<1>9. ASSUME NEW k \in 1 .. totalRedo'
      PROVE  Undoes(undoDelItms'[After(curStep', k)],
                    undoAddItms'[After(curStep', k)], Ahead'[k - 1], loose')
  <2>1. k + 1 \in 1 .. totalRedo /\ k - 1 \in 0 .. totalRedo' /\ 1 + (k - 1) = k /\ (k + 1) - 1 = k
    BY <1>1
  <2>2. Alike(Ahead'[k - 1], Ahead[k], loose')
    BY <1>8, <2>1
  <2>3. Undoes(undoDelItms[After(curStep, k + 1)], undoAddItms[After(curStep, k + 1)],
               Ahead[k], loose)
    BY <2>1 DEF Fits
  <2>4. Undoes(undoDelItms[After(curStep, k + 1)], undoAddItms[After(curStep, k + 1)],
               Ahead'[k - 1], loose')
    BY <2>2, <2>3, StillUndoes DEF Alike
  <2> QED BY <1>3, <2>4
<1> QED BY <1>8, <1>9

-----------------------------------------------------------------------------
(***************************************************************************)
(* One action of PGUndo after the other is an action of PGHistory, and     *)
(* keeps Fits.                                                             *)
(***************************************************************************)
\* When past becomes the sequence t, without what is loose now.
LEMMA PastIs ==
  ASSUME Inv', NEW t, DOMAIN t = 1 .. totalUndo',
         \A k \in 1 .. totalUndo' : Back'[totalUndo' + 1 - k] \ loose' = t[k] \ loose'
  PROVE  Past' = History!Kept(t)
<1>1. Past' = [k \in 1 .. totalUndo' |-> Back'[totalUndo' + 1 - k] \ loose']
  BY DEF Past
<1>2. History!Kept(t) = [k \in 1 .. totalUndo' |-> t[k] \ loose']
  BY DEF History!Kept
<1> QED BY <1>1, <1>2

\* Sequences are equal if they are as long and hold the same.
LEMMA SameStates ==
  ASSUME NEW S, NEW s \in Seq(S), NEW t \in Seq(S), Len(s) = Len(t),
         \A k \in 1 .. Len(s) : s[k] = t[k]
  PROVE  s = t
BY SeqEqual

\* Nothing is left to redo.
LEMMA NoFuture ==
  ASSUME Inv', totalRedo' = 0
  PROVE  Future' = <<>>
<1>1. SequencesOK'
  BY SequencesNext
<1>2. Future' \in Seq(SUBSET Elem) /\ Len(Future') = 0
  BY <1>1 DEF SequencesOK
<1> QED BY <1>2, EmptySeq

\* The step that an edit records takes it back, but for what is loose.
LEMMA RecordBack ==
  ASSUME Inv, Inv', NEW n \in Nat, NEW del \in SUBSET shown, Draw(del, n),
         NEW d \in SUBSET del, NEW a \in SUBSET New(n), Record(d, a),
         (del \ d) \cup (New(n) \ a) \subseteq loose', totalUndo' > 0
  PROVE  /\ Alike(Back'[1], Back[0], loose')
         /\ Undoes(undoDelItms'[curStep'], undoAddItms'[curStep'], Back'[0], loose')
<1>1. /\ curStep' \in Step /\ totalUndo' \in Nat
      /\ last \in Nat /\ shown \subseteq 1 .. last
      /\ shown' = (shown \ del) \cup New(n)
  <2>1. curStep' \in Step
    BY RecordInv DEF Inv
  <2> QED BY <2>1 DEF Inv, TypeOK, Draw
<1>2. New(n) \cap shown = {}
  BY <1>1 DEF New
<1>3. /\ Back[0] = shown /\ Back'[0] = shown'
      /\ \A k \in 1 .. totalUndo' :
            Back'[k] = (Back'[k - 1] \cup undoDelItms'[Before(curStep', k - 1)])
                       \ undoAddItms'[Before(curStep', k - 1)]
  BY WalksOK, WalksOKNext DEF BackOK
<1>4. undoDelItms'[curStep'] = d /\ undoAddItms'[curStep'] = a
  BY <1>1 DEF Record, Inv, TypeOK
<1>5. Back'[1] = (shown' \cup d) \ a
  <2>1. 1 \in 1 .. totalUndo' /\ 1 - 1 = 0
    BY <1>1
  <2>2. Before(curStep', 0) = curStep'
    BY <1>1, RoundAndBack
  <2> QED BY <1>3, <1>4, <2>1, <2>2
<1>6. ((shown' \cup d) \ a) \ loose' = shown \ loose'
  BY <1>1, <1>2
<1>7. a \subseteq shown' /\ d \cap shown' = {}
  BY <1>1, <1>2
<1> QED BY <1>3, <1>4, <1>5, <1>6, <1>7 DEF Alike, Undoes

\* An edit appends the present to the past and drops what was undone.
LEMMA EditHistory ==
  ASSUME HistoryInv, Inv', NEW del \in SUBSET shown, NEW n \in Nat, Edit(del, n)
  PROVE  History!Edit /\ Fits'
<1> Inv /\ Fits
  BY DEF HistoryInv
<1>1. PICK d \in Stored(del), a \in Stored(New(n)) :
          Record(d, a) /\ loose' = loose \cup (del \ d) \cup (New(n) \ a)
  BY DEF Edit
<1>2. d \subseteq del /\ a \subseteq New(n)
  BY StoredSubset
<1>3. Draw(del, n) /\ EndStep
  BY DEF Edit
<1>4. /\ totalUndo \in Nat /\ totalRedo \in Nat /\ totalUndo =< MaxStep /\ MaxStep \in Nat \ {0}
      /\ totalUndo' = IF totalUndo = MaxStep THEN MaxStep ELSE totalUndo + 1
      /\ totalRedo' = 0 /\ loose \subseteq loose'
  <2>1. /\ totalUndo \in Nat /\ totalRedo \in Nat /\ totalUndo + totalRedo =< MaxStep
        /\ MaxStep \in Nat \ {0}
    BY RingFacts
  <2> QED BY <1>1, <1>3, <2>1 DEF EndStep
<1> DEFINE N == totalUndo' - 1
<1>5. N \in Nat /\ N =< totalUndo /\ N + 1 =< totalUndo' /\ N < MaxStep /\ totalUndo' > 0
  BY <1>4
<1> HIDE DEF N
<1>6. /\ Alike(Back'[1], Back[0], loose')
      /\ Undoes(undoDelItms'[curStep'], undoAddItms'[curStep'], Back'[0], loose')
  BY <1>1, <1>2, <1>3, <1>5, RecordBack
<1>7. /\ curStep' = After(curStep, 1) /\ curStep' \in Step
      /\ \A s \in Step : s # curStep' => /\ undoAddItms'[s] = undoAddItms[s]
                                         /\ undoDelItms'[s] = undoDelItms[s]
  <2>1. curStep' \in Step
    BY <1>1, <1>2, <1>3, RecordInv DEF Inv
  <2> QED BY <1>1, <2>1 DEF Record, Inv, TypeOK
<1>8. /\ \A k \in 0 .. N : Alike(Back'[1 + k], Back[k], loose')
      /\ \A k \in 1 .. N : Undoes(undoDelItms'[Before(curStep', k)],
                                  undoAddItms'[Before(curStep', k)], Back'[k], loose')
  BY <1>4, <1>5, <1>6, <1>7, BackOn
<1>9. Fits'
  <2>1. ASSUME NEW k \in 0 .. totalUndo' - 1
        PROVE  Undoes(undoDelItms'[Before(curStep', k)],
                      undoAddItms'[Before(curStep', k)], Back'[k], loose')
    <3>1. CASE k = 0
      BY <1>6, <1>7, <3>1, RoundAndBack
    <3>2. CASE k # 0
      BY <1>8, <3>2 DEF N
    <3> QED BY <3>1, <3>2
  <2>2. 1 .. totalRedo' = {}
    BY <1>4
  <2> QED BY <2>1, <2>2 DEF Fits
<1>10. Past' = History!Kept(History!LastOf(Append(Past, Present), MaxStep))
  <2> DEFINE s == Append(Past, Present)
             t == History!LastOf(s, MaxStep)
  <2>1. /\ s \in Seq(SUBSET Elem) /\ Len(s) = totalUndo + 1
        /\ \A k \in 1 .. totalUndo + 1 : s[k] = Back[totalUndo + 1 - k] \ loose
    BY WithPresent
  <2> HIDE DEF s
  <2>2. /\ DOMAIN t = 1 .. totalUndo'
        /\ \A k \in 1 .. totalUndo' : t[k] = s[k + Len(s) - totalUndo']
    <3> DEFINE S == SUBSET Elem
    <3>1. AtMost(totalUndo', s, MaxStep) /\ s \in Seq(S) /\ MaxStep \in Nat
      BY <1>4, <2>1 DEF AtMost
    <3> HIDE DEF S
    <3> QED BY <3>1, LastStates
  <2> HIDE DEF t
  <2>3. ASSUME NEW k \in 1 .. totalUndo'
        PROVE  Back'[totalUndo' + 1 - k] \ loose' = t[k] \ loose'
    <3> DEFINE i == totalUndo' - k
               j == k + Len(s) - totalUndo'
    <3>1. /\ i \in 0 .. N /\ 1 + i = totalUndo' + 1 - k
          /\ j \in 1 .. totalUndo + 1 /\ totalUndo + 1 - j = i
      BY <1>4, <2>1 DEF N
    <3> HIDE DEF i
    <3>2. t[k] = Back[i] \ loose
      BY <2>1, <2>2, <3>1
    <3>3. Alike(Back'[1 + i], Back[i], loose')
      BY <1>8, <3>1
    <3>4. Back'[1 + i] \ loose' = (Back[i] \ loose) \ loose'
      BY <1>4, <3>3 DEF Alike
    <3> QED BY <3>1, <3>2, <3>4
  <2> QED BY <2>2, <2>3, PastIs DEF t, s
<1>11. Future' = <<>>
  BY <1>4, NoFuture
<1> QED BY <1>4, <1>9, <1>10, <1>11 DEF History!Edit, Past, Present, Future

\* A step that is begun and not ended takes the place of the one before.
LEMMA UnfinishedHistory ==
  ASSUME HistoryInv, Inv', NEW del \in SUBSET shown, NEW n \in Nat, Unfinished(del, n)
  PROVE  History!HalfEdit /\ Fits'
<1> Inv /\ Fits
  BY DEF HistoryInv
<1>1. /\ Draw(del, n) /\ Record(del, New(n))
      /\ totalUndo' = totalUndo /\ totalRedo' = totalRedo
      /\ loose' = loose \cup Listed({After(curStep', k) : k \in 1 .. totalRedo})
  BY DEF Unfinished, count
<1>2. /\ totalUndo \in Nat /\ totalRedo \in Nat /\ totalUndo + totalRedo =< MaxStep
      /\ MaxStep \in Nat \ {0} /\ loose \subseteq loose'
  BY <1>1, RingFacts
<1>3. /\ curStep' = After(curStep, 1) /\ curStep' \in Step
      /\ \A s \in Step : s # curStep' => /\ undoAddItms'[s] = undoAddItms[s]
                                         /\ undoDelItms'[s] = undoDelItms[s]
  <2>1. curStep' \in Step
    BY <1>1, RecordInv DEF Inv
  <2> QED BY <1>1, <2>1 DEF Record, Inv, TypeOK
<1>4. ASSUME totalUndo > 0
      PROVE  /\ \A k \in 0 .. totalUndo - 1 : Alike(Back'[1 + k], Back[k], loose')
             /\ \A k \in 0 .. totalUndo - 1 :
                   Undoes(undoDelItms'[Before(curStep', k)],
                          undoAddItms'[Before(curStep', k)], Back'[k], loose')
  <2> DEFINE N == totalUndo - 1
  <2>1. N \in Nat /\ N =< totalUndo /\ N + 1 =< totalUndo' /\ N < MaxStep
    BY <1>1, <1>2, <1>4
  <2> HIDE DEF N
  <2>2. /\ Alike(Back'[1], Back[0], loose')
        /\ Undoes(undoDelItms'[curStep'], undoAddItms'[curStep'], Back'[0], loose')
    <3>1. (del \ del) \cup (New(n) \ New(n)) \subseteq loose' /\ totalUndo' > 0
      BY <1>1, <1>4
    <3> QED BY <1>1, <3>1, RecordBack
  <2>3. /\ \A k \in 0 .. N : Alike(Back'[1 + k], Back[k], loose')
        /\ \A k \in 1 .. N : Undoes(undoDelItms'[Before(curStep', k)],
                                    undoAddItms'[Before(curStep', k)], Back'[k], loose')
    BY <1>2, <1>3, <2>1, <2>2, BackOn
  <2>4. Before(curStep', 0) = curStep'
    BY <1>3, RoundAndBack
  <2>5. \A k \in 0 .. N : k = 0 \/ k \in 1 .. N
    BY <2>1
  <2> QED BY <2>2, <2>3, <2>4, <2>5 DEF N
<1>5. ASSUME NEW k \in 1 .. totalRedo
      PROVE  /\ undoDelItms'[After(curStep', k)] \subseteq loose'
             /\ undoAddItms'[After(curStep', k)] \subseteq loose'
  BY <1>1 DEF Listed
<1>6. /\ Ahead'[0] = shown'
      /\ \A k \in 1 .. totalRedo :
            Ahead'[k] = (Ahead'[k - 1] \cup undoDelItms'[After(curStep', k)])
                        \ undoAddItms'[After(curStep', k)]
  BY <1>1, WalksOKNext DEF AheadOK
<1>7. \A k \in 0 .. totalRedo : Alike(Ahead'[k], shown', loose')
  <2> DEFINE D == [k \in 1 .. totalRedo |-> undoDelItms'[After(curStep', k)]]
             A == [k \in 1 .. totalRedo |-> undoAddItms'[After(curStep', k)]]
             g == [k \in 0 .. totalRedo |-> shown']
  <2>1. \A k \in 1 .. totalRedo : 0 + k = k /\ k \in 0 .. totalRedo /\ k - 1 \in 0 .. totalRedo
    BY <1>2
  <2>2. Walks(Ahead', 0, totalRedo, D, A, loose')
    BY <1>6, <2>1 DEF Walks
  <2>3. Walks(g, 0, totalRedo, D, A, loose')
    <3> SUFFICES ASSUME NEW k \in 1 .. totalRedo
                 PROVE  g[0 + k] \ loose' = ((g[0 + k - 1] \cup D[k]) \ A[k]) \ loose'
      BY DEF Walks
    <3>1. g[0 + k] = shown' /\ g[0 + k - 1] = shown'
      BY <2>1
    <3>2. ((shown' \cup D[k]) \ A[k]) \ loose' = shown' \ loose'
      BY <1>5, LooseUndoes
    <3> QED BY <3>1, <3>2
  <2>4. Alike(Ahead'[0], g[0], loose')
    BY <1>2, <1>6 DEF Alike
  <2> HIDE DEF D, A, g
  <2>5. \A k \in 0 .. totalRedo : Alike(Ahead'[0 + k], g[0 + k], loose')
    BY <1>2, <2>2, <2>3, <2>4, SameWalk
  <2>6. \A k \in 0 .. totalRedo : 0 + k = k /\ g[k] = shown'
    BY <1>2 DEF g
  <2> QED BY <2>5, <2>6
<1>8. Fits'
  <2>1. \A k \in 0 .. totalUndo' - 1 :
          Undoes(undoDelItms'[Before(curStep', k)],
                 undoAddItms'[Before(curStep', k)], Back'[k], loose')
    BY <1>1, <1>2, <1>4
  <2>2. \A k \in 1 .. totalRedo' :
          Undoes(undoDelItms'[After(curStep', k)],
                 undoAddItms'[After(curStep', k)], Ahead'[k - 1], loose')
    BY <1>1, <1>5, LooseUndoes
  <2> QED BY <2>1, <2>2 DEF Fits
<1>9. Past' = History!Kept(History!LastOf(Append(Past, Present), Len(Past)))
  <2> DEFINE s == Append(Past, Present)
             t == History!LastOf(s, Len(Past))
  <2>1. /\ s \in Seq(SUBSET Elem) /\ Len(s) = totalUndo + 1
        /\ \A k \in 1 .. totalUndo + 1 : s[k] = Back[totalUndo + 1 - k] \ loose
    BY WithPresent
  <2>2. Len(Past) = totalUndo
    BY Sequences DEF SequencesOK
  <2> HIDE DEF s
  <2>3. /\ DOMAIN t = 1 .. totalUndo
        /\ \A k \in 1 .. totalUndo : t[k] = s[k + Len(s) - totalUndo]
    <3> DEFINE S == SUBSET Elem
    <3>1. AtMost(totalUndo, s, Len(Past)) /\ s \in Seq(S) /\ Len(Past) \in Nat
      BY <1>2, <2>1, <2>2 DEF AtMost
    <3> HIDE DEF S
    <3> QED BY <3>1, LastStates
  <2> HIDE DEF t
  <2>4. ASSUME NEW k \in 1 .. totalUndo'
        PROVE  Back'[totalUndo' + 1 - k] \ loose' = t[k] \ loose'
    <3> DEFINE i == totalUndo - k
               j == k + Len(s) - totalUndo
    <3>1. /\ i \in 0 .. totalUndo - 1 /\ 1 + i = totalUndo' + 1 - k /\ totalUndo > 0
          /\ j \in 1 .. totalUndo + 1 /\ totalUndo + 1 - j = i
      BY <1>1, <1>2, <2>1
    <3> HIDE DEF i
    <3>2. t[k] = Back[i] \ loose
      BY <1>1, <2>1, <2>3, <3>1
    <3>3. Alike(Back'[1 + i], Back[i], loose')
      BY <1>4, <3>1
    <3>4. Back'[1 + i] \ loose' = (Back[i] \ loose) \ loose'
      BY <1>2, <3>3 DEF Alike
    <3> QED BY <3>1, <3>2, <3>4
  <2>5. DOMAIN t = 1 .. totalUndo'
    BY <1>1, <2>3
  <2> QED BY <2>4, <2>5, PastIs DEF t, s
<1>10. Future' = [k \in DOMAIN Future |-> Present']
  <2>1. DOMAIN Future = 1 .. totalRedo
    BY Sequences DEF SequencesOK
  <2>2. \A k \in 1 .. totalRedo : Ahead'[k] \ loose' = shown' \ loose'
    BY <1>2, <1>7 DEF Alike
  <2>3. Future' = [k \in 1 .. totalRedo |-> Ahead'[k] \ loose']
    BY <1>1 DEF Future
  <2> QED BY <2>1, <2>2, <2>3 DEF Present
<1> QED BY <1>2, <1>8, <1>9, <1>10 DEF History!HalfEdit, Past, Present, Future

\* pgconn, and others that end no step of their own: the history gets a
\* state of loose elements.
LEMMA EndAloneHistory ==
  ASSUME HistoryInv, Inv', NEW e \in shown, EndAlone(e)
  PROVE  History!VoidEdit /\ Fits'
<1> Inv /\ Fits
  BY DEF HistoryInv
<1>1. /\ Draw({e}, 0) /\ EndStep
      /\ curStep' = curStep /\ undoAddItms' = undoAddItms /\ undoDelItms' = undoDelItms
      /\ loose' = loose \cup {e} \cup (IF totalUndo = MaxStep THEN {}
                                       ELSE Listed({Before(curStep, totalUndo)}))
  BY DEF EndAlone, steps
<1>2. /\ totalUndo \in Nat /\ totalUndo =< MaxStep /\ MaxStep \in Nat \ {0}
      /\ totalUndo' = IF totalUndo = MaxStep THEN MaxStep ELSE totalUndo + 1
      /\ totalRedo' = 0 /\ loose \subseteq loose' /\ e \in loose'
  <2>1. /\ totalUndo \in Nat /\ totalRedo \in Nat /\ totalUndo + totalRedo =< MaxStep
        /\ MaxStep \in Nat \ {0}
    BY RingFacts
  <2> QED BY <1>1, <2>1 DEF EndStep
<1>3. shown' = shown \ {e}
  <2>1. last \in Nat
    BY DEF Inv, TypeOK
  <2>2. New(0) = {}
    BY <2>1 DEF New
  <2> QED BY <1>1, <2>2 DEF Draw
<1>4. /\ Back[0] = shown /\ Back'[0] = shown'
      /\ \A k \in 1 .. totalUndo :
            Back[k] = (Back[k - 1] \cup undoDelItms[Before(curStep, k - 1)])
                      \ undoAddItms[Before(curStep, k - 1)]
      /\ \A k \in 1 .. totalUndo' :
            Back'[k] = (Back'[k - 1] \cup undoDelItms[Before(curStep, k - 1)])
                       \ undoAddItms[Before(curStep, k - 1)]
  BY <1>1, WalksOK, WalksOKNext DEF BackOK
<1>5. \A k \in 0 .. totalUndo : Alike(Back'[k], Back[k], loose')
  <2> DEFINE D == [k \in 1 .. totalUndo |-> undoDelItms[Before(curStep, k - 1)]]
             A == [k \in 1 .. totalUndo |-> undoAddItms[Before(curStep, k - 1)]]
  <2>1. \A k \in 1 .. totalUndo : k \in 1 .. totalUndo' /\ 0 + k = k
    BY <1>2
  <2>2. Walks(Back', 0, totalUndo, D, A, loose')
    BY <1>4, <2>1 DEF Walks
  <2>3. Walks(Back, 0, totalUndo, D, A, loose')
    BY <1>4, <2>1 DEF Walks
  <2>4. Alike(Back'[0], Back[0], loose')
    BY <1>2, <1>3, <1>4 DEF Alike
  <2> HIDE DEF D, A
  <2>5. \A k \in 0 .. totalUndo : Alike(Back'[0 + k], Back[0 + k], loose')
    BY <1>2, <2>2, <2>3, <2>4, SameWalk
  <2>6. \A k \in 0 .. totalUndo : 0 + k = k
    OBVIOUS
  <2> QED BY <2>5, <2>6
<1>6. ASSUME totalUndo # MaxStep
      PROVE  /\ undoDelItms[Before(curStep, totalUndo)] \subseteq loose'
             /\ undoAddItms[Before(curStep, totalUndo)] \subseteq loose'
             /\ Back'[totalUndo'] \ loose' = Back[totalUndo] \ loose'
  <2>1. /\ undoDelItms[Before(curStep, totalUndo)] \subseteq loose'
        /\ undoAddItms[Before(curStep, totalUndo)] \subseteq loose'
    BY <1>1, <1>6 DEF Listed
  <2>2. totalUndo' \in 1 .. totalUndo' /\ totalUndo' - 1 = totalUndo /\ totalUndo \in 0 .. totalUndo
    BY <1>2, <1>6
  <2>3. Back'[totalUndo'] = (Back'[totalUndo] \cup undoDelItms[Before(curStep, totalUndo)])
                            \ undoAddItms[Before(curStep, totalUndo)]
    BY <1>4, <2>2
  <2>4. Back'[totalUndo'] \ loose' = Back'[totalUndo] \ loose'
    BY <2>1, <2>3, LooseUndoes
  <2>5. Alike(Back'[totalUndo], Back[totalUndo], loose')
    BY <1>5, <2>2
  <2> QED BY <2>1, <2>4, <2>5 DEF Alike
<1>7. Fits'
  <2>1. ASSUME NEW k \in 0 .. totalUndo' - 1
        PROVE  Undoes(undoDelItms[Before(curStep, k)],
                      undoAddItms[Before(curStep, k)], Back'[k], loose')
    <3>1. CASE k \in 0 .. totalUndo - 1
      <4>1. Undoes(undoDelItms[Before(curStep, k)], undoAddItms[Before(curStep, k)],
                   Back[k], loose)
        BY <3>1 DEF Fits
      <4>2. Alike(Back'[k], Back[k], loose')
        BY <1>2, <1>5, <3>1
      <4> QED BY <1>2, <4>1, <4>2, StillUndoes DEF Alike
    <3>2. CASE k \notin 0 .. totalUndo - 1
      <4>1. k = totalUndo /\ totalUndo # MaxStep
        BY <1>2, <3>2
      <4> QED BY <1>6, <4>1, LooseUndoes
    <3> QED BY <3>1, <3>2
  <2>2. 1 .. totalRedo' = {}
    BY <1>2
  <2> QED BY <1>1, <2>1, <2>2 DEF Fits
<1>8. Present' = Present \ loose'
  BY <1>2, <1>3 DEF Present
<1>9. SequencesOK
  BY Sequences
<1>10. CASE totalUndo = MaxStep
  <2>1. totalUndo' = totalUndo /\ DOMAIN Past = 1 .. totalUndo'
    BY <1>2, <1>9, <1>10 DEF SequencesOK
  <2>2. ASSUME NEW k \in 1 .. totalUndo'
        PROVE  Back'[totalUndo' + 1 - k] \ loose' = Past[k] \ loose'
    <3>1. totalUndo + 1 - k \in 0 .. totalUndo
      BY <1>2, <2>1
    <3>2. Alike(Back'[totalUndo + 1 - k], Back[totalUndo + 1 - k], loose')
      BY <1>5, <3>1
    <3>3. Past[k] = Back[totalUndo + 1 - k] \ loose
      BY <1>9, <2>1 DEF SequencesOK
    <3> QED BY <1>2, <2>1, <3>2, <3>3 DEF Alike
  <2>3. Past' = History!Kept(Past)
    BY <2>1, <2>2, PastIs
  <2>4. Future' = <<>>
    BY <1>2, NoFuture
  <2> QED BY <1>2, <1>7, <1>8, <2>3, <2>4 DEF History!VoidEdit, Past, Present, Future
<1>11. CASE totalUndo # MaxStep
  <2> DEFINE x == IF Past = <<>> THEN Present ELSE Head(Past)
             t == <<x>> \o Past
             S == SUBSET Elem
  <2>1. /\ Past \in Seq(S) /\ Present \in S /\ Len(Past) = totalUndo
        /\ totalUndo' = totalUndo + 1
    BY <1>2, <1>9, <1>11 DEF SequencesOK
  <2>2. x \in S /\ x = Back[totalUndo] \ loose
    <3>1. CASE Past = <<>>
      <4>1. totalUndo = 0
        BY <2>1, <3>1
      <4> QED BY <1>4, <2>1, <3>1, <4>1 DEF Present
    <3>2. CASE Past # <<>>
      <4>1. Head(Past) = Past[1] /\ Head(Past) \in S /\ 1 \in 1 .. totalUndo
        <5> HIDE DEF S
        <5>1. Head(Past) \in S /\ Len(Past) # 0
          BY <2>1, <3>2, HeadTailProperties, EmptySeq
        <5> QED BY <1>2, <2>1, <5>1 DEF S
      <4>2. Past[1] = Back[totalUndo + 1 - 1] \ loose /\ totalUndo + 1 - 1 = totalUndo
        BY <1>2, <1>9, <4>1 DEF SequencesOK
      <4> QED BY <3>2, <4>1, <4>2
    <3> QED BY <3>1, <3>2
  <2> HIDE DEF x
  <2>3. /\ t \in Seq(S) /\ Len(t) = totalUndo' /\ t[1] = x
        /\ \A k \in 2 .. totalUndo' : t[k] = Past[k - 1]
    <3> HIDE DEF S
    <3>1. <<x>> \in Seq(S) /\ Len(<<x>>) = 1 /\ <<x>>[1] = x
      BY <2>2
    <3>2. /\ t \in Seq(S) /\ Len(t) = 1 + totalUndo
          /\ \A i \in 1 .. 1 + totalUndo : t[i] = IF i =< 1 THEN <<x>>[i] ELSE Past[i - 1]
      BY <2>1, <3>1, ConcatProperties
    <3>3. t[1] = x
      BY <1>2, <3>1, <3>2
    <3>4. \A k \in 2 .. totalUndo' : t[k] = Past[k - 1]
      BY <1>2, <2>1, <3>2
    <3> QED BY <1>2, <2>1, <3>2, <3>3, <3>4
  <2> HIDE DEF t
  <2>4. DOMAIN t = 1 .. totalUndo'
    BY <2>3
  <2>5. ASSUME NEW k \in 1 .. totalUndo'
        PROVE  Back'[totalUndo' + 1 - k] \ loose' = t[k] \ loose'
    <3>1. CASE k = 1
      <4>1. totalUndo' + 1 - k = totalUndo'
        BY <1>2, <2>1, <3>1
      <4>2. Back'[totalUndo'] \ loose' = Back[totalUndo] \ loose'
        BY <1>6, <1>11
      <4> QED BY <1>2, <2>2, <2>3, <3>1, <4>1, <4>2
    <3>2. CASE k # 1
      <4> DEFINE i == totalUndo' + 1 - k
      <4>1. /\ k \in 2 .. totalUndo' /\ k - 1 \in 1 .. totalUndo
            /\ totalUndo + 1 - (k - 1) = i /\ i \in 0 .. totalUndo
        BY <1>2, <2>1, <3>2
      <4> HIDE DEF i
      <4>2. t[k] = Back[i] \ loose
        BY <1>9, <2>3, <4>1 DEF SequencesOK
      <4>3. Alike(Back'[i], Back[i], loose')
        BY <1>5, <4>1
      <4>4. Back'[i] \ loose' = t[k] \ loose'
        BY <1>2, <4>2, <4>3 DEF Alike
      <4> QED BY <4>4 DEF i
    <3> QED BY <3>1, <3>2
  <2>6. Past' = History!Kept(t)
    BY <2>4, <2>5, PastIs
  <2>7. Future' = <<>>
    BY <1>2, NoFuture
  <2> QED BY <1>2, <1>7, <1>8, <2>6, <2>7 DEF History!VoidEdit, Past, Present, Future, t, x
<1> QED BY <1>10, <1>11

\* The step done last is undone: the history goes back a state.
LEMMA UndoHistory ==
  ASSUME HistoryInv, Inv', Undo
  PROVE  History!Undo /\ Fits'
<1> Inv /\ Fits
  BY DEF HistoryInv
<1>1. /\ totalUndo \in Nat \ {0} /\ totalRedo \in Nat /\ totalRedo < MaxStep
      /\ MaxStep \in Nat \ {0} /\ curStep \in Step
      /\ totalUndo' = totalUndo - 1 /\ totalRedo' = totalRedo + 1
      /\ curStep' = Before(curStep, 1) /\ loose' = loose /\ Swap(curStep)
  <2>1. /\ totalUndo \in Nat /\ totalRedo \in Nat /\ totalUndo + totalRedo =< MaxStep
        /\ MaxStep \in Nat \ {0} /\ curStep \in Step \cup {None}
    BY RingFacts
  <2>2. totalUndo > 0 /\ curStep # None
    BY DEF Undo, Inv, RingHolds
  <2> QED BY <2>1, <2>2 DEF Undo
<1> DEFINE D == undoDelItms[curStep]
           A == undoAddItms[curStep]
<1>2. /\ shown' = (shown \cup D) \ A
      /\ undoDelItms'[curStep] = A /\ undoAddItms'[curStep] = D
      /\ \A s \in Step : s # curStep => /\ undoAddItms'[s] = undoAddItms[s]
                                        /\ undoDelItms'[s] = undoDelItms[s]
  BY <1>1 DEF Swap, Inv, TypeOK
<1>3. /\ Back[0] = shown /\ Ahead[0] = shown /\ Back'[0] = shown' /\ Ahead'[0] = shown'
      /\ Back[1] = (Back[0] \cup D) \ A
      /\ Ahead'[1] = (shown' \cup A) \ D
      /\ After(curStep', 1) = curStep
  <2>1. Before(curStep, 0) = curStep /\ After(curStep', 1) = curStep
    BY <1>1, RoundAndBack
  <2>2. 1 \in 1 .. totalUndo /\ 1 \in 1 .. totalRedo' /\ 1 - 1 = 0
    BY <1>1
  <2>3. Back[1] = (Back[0] \cup undoDelItms[Before(curStep, 1 - 1)])
                  \ undoAddItms[Before(curStep, 1 - 1)]
    BY <2>2, WalksOK DEF BackOK
  <2>4. Ahead'[1] = (Ahead'[1 - 1] \cup undoDelItms'[After(curStep', 1)])
                    \ undoAddItms'[After(curStep', 1)]
    BY <2>2, WalksOKNext DEF AheadOK
  <2>5. Back[0] = shown /\ Ahead[0] = shown /\ Back'[0] = shown' /\ Ahead'[0] = shown'
    BY WalksOK, WalksOKNext DEF BackOK, AheadOK
  <2> QED BY <1>2, <2>1, <2>2, <2>3, <2>4, <2>5
<1>4. Undoes(D, A, shown, loose)
  <2>1. 0 \in 0 .. totalUndo - 1 /\ Before(curStep, 0) = curStep
    BY <1>1, RoundAndBack
  <2> QED BY <1>3, <2>1 DEF Fits
<1> HIDE DEF D, A
<1>5. Alike(Ahead'[1], Ahead[0], loose') /\ Undoes(A, D, shown', loose')
  <2>1. /\ ((((shown \cup D) \ A) \cup A) \ D) \ loose = shown \ loose
        /\ Undoes(A, D, (shown \cup D) \ A, loose)
    BY <1>4, Reversal, Zenon
  <2>2. Ahead'[1] \ loose' = Ahead[0] \ loose'
    BY <1>1, <1>2, <1>3, <2>1, Zenon
  <2>3. Undoes(A, D, shown', loose')
    BY <1>1, <1>2, <2>1, Zenon
  <2> QED BY <2>2, <2>3 DEF Alike
<1>6. shown' = Back[1]
  BY <1>2, <1>3
<1>7. /\ \A k \in 0 .. totalUndo' : Alike(Back'[k], Back[1 + k], loose')
      /\ \A k \in 0 .. totalUndo' - 1 :
            Undoes(undoDelItms'[Before(curStep', k)],
                   undoAddItms'[Before(curStep', k)], Back'[k], loose')
  BY <1>1, <1>2, <1>6, BackOff
<1>8. /\ \A k \in 0 .. totalRedo : Alike(Ahead'[1 + k], Ahead[k], loose')
      /\ \A k \in 2 .. totalRedo' :
            Undoes(undoDelItms'[After(curStep', k)],
                   undoAddItms'[After(curStep', k)], Ahead'[k - 1], loose')
  BY <1>1, <1>2, <1>5, AheadOn
<1>9. Fits'
  <2>1. ASSUME NEW k \in 1 .. totalRedo'
        PROVE  Undoes(undoDelItms'[After(curStep', k)],
                      undoAddItms'[After(curStep', k)], Ahead'[k - 1], loose')
    <3>1. CASE k = 1
      <4>1. Undoes(undoDelItms'[After(curStep', 1)],
                   undoAddItms'[After(curStep', 1)], Ahead'[0], loose')
        BY <1>2, <1>3, <1>5, Zenon
      <4>2. k - 1 = 0
        BY <3>1
      <4> QED BY <3>1, <4>1, <4>2, Zenon
    <3>2. CASE k # 1
      BY <1>1, <1>8, <3>2
    <3> QED BY <3>1, <3>2
  <2> QED BY <1>7, <2>1 DEF Fits
<1>10. SequencesOK /\ SequencesOK'
  BY Sequences, SequencesNext
<1> DEFINE S == SUBSET Elem
<1>11. /\ Past \in Seq(S) /\ Len(Past) = totalUndo
       /\ Past' \in Seq(S) /\ Len(Past') = totalUndo'
       /\ Future' \in Seq(S) /\ Len(Future') = totalRedo'
  BY <1>10 DEF SequencesOK
<1>12. Past # <<>>
  <2>1. Len(<<>>) = 0
    OBVIOUS
  <2> QED BY <1>1, <1>11, <2>1
<1>13. Present' = History!Last(Past)
  <2>1. totalUndo \in 1 .. totalUndo /\ totalUndo + 1 - totalUndo = 1
    BY <1>1
  <2>2. Past[totalUndo] = Back[1] \ loose
    BY <1>10, <2>1 DEF SequencesOK
  <2> QED BY <1>1, <1>6, <1>11, <2>2 DEF History!Last, Present
<1>14. Past' = History!Front(Past)
  <2> DEFINE t == SubSeq(Past, 1, Len(Past) - 1)
  <2>1. /\ t \in Seq(S) /\ Len(t) = totalUndo'
        /\ \A k \in 1 .. totalUndo' : t[k] = Past[k]
    <3>1. 1 \in Int /\ totalUndo - 1 \in Int
      BY <1>1
    <3>2. \A i \in 1 .. totalUndo - 1 : Past[i] \in S
      BY <1>1, <1>11
    <3> HIDE DEF S
    <3>3. /\ SubSeq(Past, 1, totalUndo - 1) \in Seq(S)
          /\ Len(SubSeq(Past, 1, totalUndo - 1)) =
                IF 1 =< totalUndo - 1 THEN totalUndo - 1 - 1 + 1 ELSE 0
          /\ \A i \in 1 .. totalUndo - 1 - 1 + 1 :
                SubSeq(Past, 1, totalUndo - 1)[i] = Past[1 + i - 1]
      BY <3>1, <3>2, SubSeqProperties
    <3>4. totalUndo - 1 - 1 + 1 = totalUndo' /\ \A i \in 1 .. totalUndo' : 1 + i - 1 = i
      BY <1>1
    <3> QED BY <1>1, <1>11, <3>3, <3>4
  <2> HIDE DEF t
  <2>2. ASSUME NEW k \in 1 .. totalUndo' PROVE Past'[k] = t[k]
    <3> DEFINE i == totalUndo' + 1 - k
    <3>1. /\ i \in 0 .. totalUndo' /\ 1 + i = totalUndo + 1 - k /\ k \in 1 .. totalUndo
      BY <1>1
    <3>2. Past'[k] = Back'[i] \ loose'
      BY <1>10 DEF SequencesOK
    <3> HIDE DEF i
    <3>3. t[k] = Back[1 + i] \ loose
      BY <1>10, <2>1, <3>1 DEF SequencesOK
    <3>4. Alike(Back'[i], Back[1 + i], loose')
      BY <1>7, <3>1
    <3> QED BY <1>1, <3>2, <3>3, <3>4 DEF Alike
  <2>3. Past' = t
    <3> HIDE DEF S
    <3> QED BY <1>11, <2>1, <2>2, SameStates
  <2> QED BY <2>3 DEF History!Front, t
<1>15. Future' = <<Present>> \o Future
  <2> DEFINE u == <<Present>> \o Future
  <2>1. /\ Len(u) = totalRedo' /\ DOMAIN u = 1 .. totalRedo'
        /\ \A k \in 1 .. totalRedo' : u[k] = Ahead[k - 1] \ loose
    BY <1>1, WithPresent
  <2> HIDE DEF u
  <2>2. ASSUME NEW k \in 1 .. totalRedo' PROVE Future'[k] = u[k]
    <3>1. k - 1 \in 0 .. totalRedo /\ 1 + (k - 1) = k
      BY <1>1
    <3>2. Alike(Ahead'[k], Ahead[k - 1], loose')
      BY <1>8, <3>1
    <3>3. Future'[k] = Ahead'[k] \ loose'
      BY <1>10 DEF SequencesOK
    <3> QED BY <1>1, <2>1, <3>2, <3>3 DEF Alike
  <2>3. u \in Seq(S)
    <3>1. Present \in S /\ Future \in Seq(S)
      BY <1>10 DEF SequencesOK
    <3> HIDE DEF S
    <3>2. <<Present>> \in Seq(S)
      BY <3>1
    <3> QED BY <3>1, <3>2, ConcatProperties DEF u
  <2>4. Future' = u
    <3> HIDE DEF S
    <3> QED BY <1>11, <2>1, <2>2, <2>3, SameStates
  <2> QED BY <2>4 DEF u
<1> QED BY <1>1, <1>9, <1>12, <1>13, <1>14, <1>15
        DEF History!Undo, Past, Present, Future

\* The step that comes next is done again: the history goes on a state.
LEMMA RedoHistory ==
  ASSUME HistoryInv, Inv', Redo
  PROVE  History!Redo /\ Fits'
<1> Inv /\ Fits
  BY DEF HistoryInv
<1>1. /\ totalUndo \in Nat /\ totalRedo \in Nat \ {0} /\ totalUndo < MaxStep
      /\ MaxStep \in Nat \ {0} /\ curStep \in Step
      /\ totalUndo' = totalUndo + 1 /\ totalRedo' = totalRedo - 1
      /\ curStep' = After(curStep, 1) /\ loose' = loose /\ Swap(curStep')
  <2>1. /\ totalUndo \in Nat /\ totalRedo \in Nat /\ totalUndo + totalRedo =< MaxStep
        /\ MaxStep \in Nat \ {0} /\ curStep \in Step \cup {None}
        /\ curStep = None => totalRedo = 0
    BY RingFacts
  <2>2. totalRedo > 0
    BY DEF Redo, Inv, RingHolds
  <2> QED BY <2>1, <2>2 DEF Redo
<1>2. curStep' \in Step /\ Before(curStep', 0) = curStep'
  BY <1>1, RoundAndBack
<1> DEFINE D == undoDelItms[curStep']
           A == undoAddItms[curStep']
<1>3. /\ shown' = (shown \cup D) \ A
      /\ undoDelItms'[curStep'] = A /\ undoAddItms'[curStep'] = D
      /\ \A s \in Step : s # curStep' => /\ undoAddItms'[s] = undoAddItms[s]
                                         /\ undoDelItms'[s] = undoDelItms[s]
  BY <1>1, <1>2 DEF Swap, Inv, TypeOK
<1>4. /\ Back[0] = shown /\ Ahead[0] = shown /\ Back'[0] = shown' /\ Ahead'[0] = shown'
      /\ Ahead[1] = (Ahead[0] \cup D) \ A
      /\ Back'[1] = (shown' \cup A) \ D
  <2>1. 1 \in 1 .. totalRedo /\ 1 \in 1 .. totalUndo' /\ 1 - 1 = 0
    BY <1>1
  <2>2. Ahead[1] = (Ahead[1 - 1] \cup undoDelItms[After(curStep, 1)])
                   \ undoAddItms[After(curStep, 1)]
    BY <2>1, WalksOK DEF AheadOK
  <2>3. Back'[1] = (Back'[1 - 1] \cup undoDelItms'[Before(curStep', 1 - 1)])
                   \ undoAddItms'[Before(curStep', 1 - 1)]
    BY <2>1, WalksOKNext DEF BackOK
  <2>4. Back[0] = shown /\ Ahead[0] = shown /\ Back'[0] = shown' /\ Ahead'[0] = shown'
    BY WalksOK, WalksOKNext DEF BackOK, AheadOK
  <2> QED BY <1>1, <1>2, <1>3, <2>1, <2>2, <2>3, <2>4
<1>5. Undoes(D, A, shown, loose)
  <2>1. 1 \in 1 .. totalRedo /\ 1 - 1 = 0
    BY <1>1
  <2>2. Undoes(undoDelItms[After(curStep, 1)], undoAddItms[After(curStep, 1)],
               Ahead[1 - 1], loose)
    BY <2>1 DEF Fits
  <2> QED BY <1>1, <1>4, <2>1, <2>2
<1> HIDE DEF D, A
<1>6. Alike(Back'[1], Back[0], loose') /\ Undoes(A, D, shown', loose')
  <2>1. /\ ((((shown \cup D) \ A) \cup A) \ D) \ loose = shown \ loose
        /\ Undoes(A, D, (shown \cup D) \ A, loose)
    BY <1>5, Reversal, Zenon
  <2>2. Back'[1] \ loose' = Back[0] \ loose'
    BY <1>1, <1>3, <1>4, <2>1, Zenon
  <2>3. Undoes(A, D, shown', loose')
    BY <1>1, <1>3, <2>1, Zenon
  <2> QED BY <2>2, <2>3 DEF Alike
<1>7. shown' = Ahead[1]
  BY <1>3, <1>4
<1>8. /\ \A k \in 0 .. totalRedo' : Alike(Ahead'[k], Ahead[1 + k], loose')
      /\ \A k \in 1 .. totalRedo' :
            Undoes(undoDelItms'[After(curStep', k)],
                   undoAddItms'[After(curStep', k)], Ahead'[k - 1], loose')
  BY <1>1, <1>3, <1>7, AheadOff
<1>9. /\ \A k \in 0 .. totalUndo : Alike(Back'[1 + k], Back[k], loose')
      /\ \A k \in 1 .. totalUndo : Undoes(undoDelItms'[Before(curStep', k)],
                                          undoAddItms'[Before(curStep', k)], Back'[k], loose')
  <2>1. totalUndo =< totalUndo /\ totalUndo + 1 =< totalUndo' /\ loose \subseteq loose'
    BY <1>1
  <2> QED BY <1>1, <1>3, <1>6, <2>1, BackOn
<1>10. Fits'
  <2>1. ASSUME NEW k \in 0 .. totalUndo' - 1
        PROVE  Undoes(undoDelItms'[Before(curStep', k)],
                      undoAddItms'[Before(curStep', k)], Back'[k], loose')
    <3>1. CASE k = 0
      BY <1>2, <1>3, <1>4, <1>6, <3>1, Zenon
    <3>2. CASE k # 0
      BY <1>1, <1>9, <3>2
    <3> QED BY <3>1, <3>2
  <2> QED BY <1>8, <2>1 DEF Fits
<1>11. SequencesOK /\ SequencesOK'
  BY Sequences, SequencesNext
<1> DEFINE S == SUBSET Elem
<1>12. /\ Future \in Seq(S) /\ Len(Future) = totalRedo
       /\ Past' \in Seq(S) /\ Len(Past') = totalUndo'
       /\ Future' \in Seq(S) /\ Len(Future') = totalRedo'
  BY <1>11 DEF SequencesOK
<1>13. Future # <<>>
  <2>1. Len(<<>>) = 0
    OBVIOUS
  <2> QED BY <1>1, <1>12, <2>1
<1>14. /\ Head(Future) = Future[1] /\ Tail(Future) \in Seq(S) /\ Len(Tail(Future)) = totalRedo'
       /\ \A k \in 1 .. totalRedo' : Tail(Future)[k] = Future[k + 1]
  <2> HIDE DEF S
  <2> QED BY <1>1, <1>12, <1>13, HeadTailProperties
<1>15. Present' = Head(Future)
  <2>1. 1 \in 1 .. totalRedo
    BY <1>1
  <2>2. Future[1] = Ahead[1] \ loose
    BY <1>11, <2>1 DEF SequencesOK
  <2> QED BY <1>1, <1>7, <1>14, <2>2 DEF Present
<1>16. Future' = Tail(Future)
  <2>1. ASSUME NEW k \in 1 .. totalRedo' PROVE Future'[k] = Tail(Future)[k]
    <3>1. k + 1 \in 1 .. totalRedo /\ 1 + k = k + 1 /\ k \in 0 .. totalRedo'
      BY <1>1
    <3>2. Future'[k] = Ahead'[k] \ loose' /\ Future[k + 1] = Ahead[k + 1] \ loose
      BY <1>11, <3>1 DEF SequencesOK
    <3>3. Alike(Ahead'[k], Ahead[k + 1], loose')
      BY <1>8, <3>1
    <3> QED BY <1>1, <1>14, <3>2, <3>3 DEF Alike
  <2> HIDE DEF S
  <2> QED BY <1>12, <1>14, <2>1, SameStates
<1>17. Past' = Append(Past, Present)
  <2> DEFINE t == Append(Past, Present)
  <2>1. /\ t \in Seq(S) /\ Len(t) = totalUndo'
        /\ \A k \in 1 .. totalUndo' : t[k] = Back[totalUndo + 1 - k] \ loose
    BY <1>1, WithPresent
  <2> HIDE DEF t
  <2>2. ASSUME NEW k \in 1 .. totalUndo' PROVE Past'[k] = t[k]
    <3> DEFINE i == totalUndo + 1 - k
    <3>1. i \in 0 .. totalUndo /\ 1 + i = totalUndo' + 1 - k
      BY <1>1
    <3>2. t[k] = Back[i] \ loose
      BY <2>1
    <3> HIDE DEF i
    <3>3. Past'[k] = Back'[1 + i] \ loose'
      BY <1>11, <3>1 DEF SequencesOK
    <3>4. Alike(Back'[1 + i], Back[i], loose')
      BY <1>9, <3>1
    <3> QED BY <1>1, <3>2, <3>3, <3>4 DEF Alike
  <2>3. Past' = t
    <3> HIDE DEF S
    <3> QED BY <1>12, <2>1, <2>2, SameStates
  <2> QED BY <2>3 DEF t
<1> QED BY <1>1, <1>10, <1>13, <1>15, <1>16, <1>17
        DEF History!Redo, Past, Present, Future

\* Nothing to undo or redo: at the beginning, and when the records are
\* thrown away.
NoSteps   == Inv /\ totalUndo = 0 /\ totalRedo = 0
NoHistory == Past = <<>> /\ Future = <<>> /\ Fits

\* Without steps there is no history.
LEMMA StepsAreHistory == NoSteps => NoHistory
<1> SUFFICES ASSUME NoSteps PROVE NoHistory
  OBVIOUS
<1> USE DEF NoSteps
<1>1. /\ Past \in Seq(SUBSET Elem) /\ Len(Past) = 0
      /\ Future \in Seq(SUBSET Elem) /\ Len(Future) = 0
  BY Sequences DEF SequencesOK
<1>2. Past = <<>> /\ Future = <<>>
  BY <1>1, EmptySeq
<1> QED BY <1>2 DEF NoHistory, Fits

\* The same after a step.
LEMMA StepsAreHistoryNext == NoSteps' => NoHistory'
BY StepsAreHistory, PTL

\* The history begins empty.
LEMMA InitHistory == Init => History!Init /\ HistoryInv
<1> SUFFICES ASSUME Init PROVE History!Init /\ HistoryInv
  OBVIOUS
<1>1. NoSteps /\ loose = {}
  BY InitInv DEF Init, NoSteps
<1> QED BY <1>1, StepsAreHistory
        DEF NoSteps, NoHistory, History!Init, Past, Future, HistoryInv

\* pgundo_initUndo throws the history away.
LEMMA ResetHistory ==
  ASSUME Inv', Reset
  PROVE  History!Reset /\ Fits'
<1>1. NoSteps' /\ loose' = {}
  BY DEF Reset, NoSteps
<1> QED BY <1>1, StepsAreHistoryNext DEF NoHistory, History!Reset, Past, Future

\* Where nothing changes the history does not.
LEMMA StutterHistory ==
  ASSUME Fits, UNCHANGED state
  PROVE  UNCHANGED <<shown \ loose, Past, Future, loose>> /\ Fits'
<1>1. Back' = Back /\ Ahead' = Ahead
  BY DEF state, Back, Ahead
<1> QED BY <1>1 DEF state, Past, Future, Fits

\* Every step of PGUndo is a step of the history, or none.
LEMMA NextHistory ==
  HistoryInv /\ [Next]_vars =>
      HistoryInv' /\ [History!Next]_<<shown \ loose, Past, Future, loose>>
<1> SUFFICES ASSUME HistoryInv, [Next]_vars
             PROVE  Fits' /\ [History!Next]_<<shown \ loose, Past, Future, loose>>
  BY NextInv DEF HistoryInv
<1> Inv /\ Fits /\ Inv'
  BY NextInv DEF HistoryInv
<1>1. ASSUME EditOrUndo PROVE History!Next /\ Fits'
  <2>1. ASSUME NEW del \in SUBSET shown, NEW n \in 0 .. MaxElem - last, Edit(del, n)
        PROVE  History!Next /\ Fits'
    <3>1. n \in Nat
      OBVIOUS
    <3> QED BY <2>1, <3>1, EditHistory DEF History!Next
  <2>2. ASSUME NEW del \in {E \in SUBSET shown : Cardinality(E) =< 1}, NEW n \in {0, 1},
               Unfinished(del, n)
        PROVE  History!Next /\ Fits'
    <3>1. n \in Nat /\ del \in SUBSET shown
      OBVIOUS
    <3> QED BY <2>2, <3>1, UnfinishedHistory DEF History!Next
  <2>3. ASSUME NEW e \in shown, EndAlone(e) PROVE History!Next /\ Fits'
    BY <2>3, EndAloneHistory DEF History!Next
  <2>4. CASE Undo
    BY <2>4, UndoHistory DEF History!Next
  <2>5. CASE Redo
    BY <2>5, RedoHistory DEF History!Next
  <2> QED BY <1>1, <2>1, <2>2, <2>3, <2>4, <2>5 DEF EditOrUndo
<1>2. CASE Reset
  BY <1>2, ResetHistory DEF History!Next
<1>3. CASE UNCHANGED state
  BY <1>3, StutterHistory
<1> QED BY <1>1, <1>2, <1>3 DEF Next, UndoNothing, vars

(***************************************************************************)
(* UNDO and REDO walk along the states the drawing has had: every sequence *)
(* of edits, undone and redone, in a ring of any length, is one that       *)
(* PGHistory allows, but for loose elements and up to an undo with no step *)
(* done.                                                                   *)
(***************************************************************************)
THEOREM UndoIsHistory == Spec => WalksTheHistory
<1>1. HistoryInv /\ [Next]_vars => [History!Next]_<<shown \ loose, Past, Future, loose>>
  BY NextHistory
<1>2. HistoryInv /\ [Next]_vars => HistoryInv'
  BY NextHistory
<1> QED BY <1>1, <1>2, InitHistory, PTL DEF Spec, WalksTheHistory, History!Spec, Past, Future

=============================================================================

-------------------------------- MODULE PGUndo --------------------------------
(***************************************************************************)
(* UNDO and REDO of product generation: nmap2, nmap_pgundo.c, and the way  *)
(* the editing functions use it.                                           *)
(*                                                                         *)
(* Steps are kept in a ring of MAX_UNDO_STEPS.  Each lists the elements    *)
(* that undoing it deletes (_undoAddItms) and puts back (_undoDelItms);    *)
(* undoing or redoing a step swaps the lists.  An element is its location  *)
(* in the VG file: a new one is appended, a deleted one stays, marked.     *)
(*                                                                         *)
(* pgfrom_getUndoStep always returns IMISSD, since nothing else is ever    *)
(* put in _undoStep, so that its cases in pgundo_newStep and pgundo_undo   *)
(* are left out.  So are failures of cvg_delet and cvg_undel, and the      *)
(* button of the symbol window, which undoes and redoes without asking     *)
(* whether there is anything to undo or redo.                              *)
(***************************************************************************)
EXTENDS Integers, FiniteSets

CONSTANTS
    MaxStep,    \* MAX_UNDO_STEPS
    MaxItem,    \* MAX_EDITABLE_ELEMS - 1
    First,      \* bound: elements in the file at first
    MaxElem,    \* bound: elements the file grows to
    MaxLoose,   \* bound: elements that are not rightly on record
    None        \* IMISSD

ASSUME PGUndoAssumption ==
    /\ MaxStep \in Nat \ {0} /\ MaxItem \in Nat \ {0}
    /\ First \in Nat /\ MaxElem \in Nat /\ MaxLoose \in Nat /\ First =< MaxElem
    /\ None \notin 0 .. MaxStep

VARIABLES
    shown, last,                    \* elements not deleted; the last in the file
    undoAddItms, undoDelItms,       \* the ring
    curStep, totalUndo, totalRedo,  \* the step done last; how many to each side
    undoBtn, redoBtn,               \* what the palette lets the user do
    loose,                          \* elements that are not rightly on record
    astray                          \* pgundo_undo was called with no step done

steps == <<undoAddItms, undoDelItms>>
count == <<totalUndo, totalRedo, undoBtn, redoBtn>>
state == <<shown, last, undoAddItms, undoDelItms, curStep, totalUndo, totalRedo,
           undoBtn, redoBtn, loose>>
vars  == <<state, astray>>

Step == 0 .. MaxStep - 1
Elem == 1 .. MaxElem

TypeOK ==
    /\ shown \subseteq 1 .. last /\ last \in 0 .. MaxElem
    /\ undoAddItms \in [Step -> SUBSET Elem] /\ undoDelItms \in [Step -> SUBSET Elem]
    /\ curStep \in Step \cup {None}
    /\ totalUndo \in Nat /\ totalRedo \in Nat
    /\ undoBtn \in BOOLEAN /\ redoBtn \in BOOLEAN
    /\ loose \subseteq Elem /\ astray \in BOOLEAN

\* pgundo_initUndo.
Init ==
    /\ last = First /\ shown \in SUBSET (1 .. First)
    /\ undoAddItms = [s \in Step |-> {}] /\ undoDelItms = [s \in Step |-> {}]
    /\ curStep = None /\ totalUndo = 0 /\ totalRedo = 0
    /\ undoBtn = FALSE /\ redoBtn = FALSE
    /\ loose = {} /\ astray = FALSE

-----------------------------------------------------------------------------
\* The step does not wrap around.
BugAfter(s, n) == IF s = None THEN n - 1 ELSE s + n

\* The n-th step after s, or before it.  The first step of all, 0, has the
\* last of the ring before it.
After(s, n) == IF s = None THEN n - 1 ELSE (s + n) % MaxStep
Before(s, n) == IF s = None THEN MaxStep - 1 - n ELSE (s - n) % MaxStep

\* The steps that can be redone hang on.
BugEndStep ==
    /\ totalUndo' = IF totalUndo = MaxStep THEN MaxStep ELSE totalUndo + 1
    /\ undoBtn' = TRUE /\ UNCHANGED <<totalRedo, redoBtn>>

\* pgundo_endStep.
EndStep ==
    /\ totalUndo' = IF totalUndo = MaxStep THEN MaxStep ELSE totalUndo + 1
    /\ undoBtn' = TRUE
    /\ totalRedo' = 0 /\ redoBtn' = FALSE

\* pgundo_storeThisLoc: what a list may hold when S has been stored in it.
Stored(S) == IF Cardinality(S) =< MaxItem THEN {S}
             ELSE {T \in SUBSET S : Cardinality(T) = MaxItem}

\* New elements are appended to the file, others deleted.
New(n) == last + 1 .. last + n
Draw(del, n) ==
    /\ last + n =< MaxElem
    /\ last' = last + n
    /\ shown' = (shown \ del) \cup New(n)

\* pgundo_newStep, and the locations stored in the new step.
Record(d, a) ==
    /\ curStep' = After(curStep, 1)
    /\ undoDelItms' = [undoDelItms EXCEPT ![curStep'] = d]
    /\ undoAddItms' = [undoAddItms EXCEPT ![curStep'] = a]

Listed(S) == UNION {undoAddItms'[s] \cup undoDelItms'[s] : s \in S}

\* An editing function.  Locations that find no place in a list are dropped.
Edit(del, n) ==
    /\ Draw(del, n)
    /\ \E d \in Stored(del), a \in Stored(New(n)) :
          Record(d, a) /\ loose' = loose \cup (del \ d) \cup (New(n) \ a)
    /\ EndStep

\* One that does not get to pgundo_endStep: a point too many (pgaddpt), a GFA
\* too small (pgmdfy), a text box drawn with the middle button (pggfaw).  The
\* steps that could be redone now begin one later in the ring.
Unfinished(del, n) ==
    /\ Draw(del, n) /\ Record(del, New(n))
    /\ loose' = loose \cup Listed({After(curStep', k) : k \in 1 .. totalRedo})
    /\ UNCHANGED count

\* pgundo_endStep without pgundo_newStep: GFAs that cannot be connected
\* (pgconn).  The second is deleted all the same.  It may come before any
\* step: curStep stays IMISSD, with something to be undone.  (If the second
\* has a group, that of the first is given to the others of it, in the step
\* before; this is left out.)
EndAlone(e) ==
    /\ Draw({e}, 0) /\ EndStep /\ UNCHANGED <<steps, curStep>>
    /\ loose' = loose \cup {e} \cup (IF totalUndo = MaxStep THEN {}
                                     ELSE Listed({Before(curStep, totalUndo)}))

\* The list of the deleted is not replaced.
BugSwap(s) ==
    /\ shown' = (shown \cup undoDelItms[s]) \ undoAddItms[s]
    /\ undoAddItms' = [undoAddItms EXCEPT ![s] = undoDelItms[s]]
    /\ UNCHANGED undoDelItms

\* The elements of a step are put back and deleted, and its lists swapped.
Swap(s) ==
    /\ shown' = (shown \cup undoDelItms[s]) \ undoAddItms[s]
    /\ undoAddItms' = [undoAddItms EXCEPT ![s] = undoDelItms[s]]
    /\ undoDelItms' = [undoDelItms EXCEPT ![s] = undoAddItms[s]]

\* pgundo_undo.
Undo ==
    /\ undoBtn /\ curStep # None
    /\ Swap(curStep)
    /\ totalUndo' = totalUndo - 1
    /\ undoBtn' = (undoBtn /\ totalUndo' # 0)
    /\ totalRedo' = totalRedo + 1 /\ redoBtn' = TRUE
    /\ curStep' = Before(curStep, 1)
    /\ UNCHANGED <<last, loose>>

\* pgundo_undo with curStep = IMISSD reads, and may write, outside its
\* arrays: there is no telling what becomes of the program, and it is not
\* followed any further, until it or the ring is begun anew.
UndoNothing ==
    /\ undoBtn /\ curStep = None
    /\ astray' = TRUE /\ UNCHANGED state

\* pgundo_redo.
Redo ==
    /\ redoBtn
    /\ totalRedo' = totalRedo - 1
    /\ redoBtn' = (redoBtn /\ totalRedo' # 0)
    /\ totalUndo' = totalUndo + 1 /\ undoBtn' = TRUE
    /\ curStep' = After(curStep, 1)
    /\ Swap(curStep')
    /\ UNCHANGED <<last, loose>>

\* pgundo_initUndo, when another layer or file is taken.
Reset ==
    /\ last' = First /\ shown' \in SUBSET (1 .. First)
    /\ undoAddItms' = [s \in Step |-> {}] /\ undoDelItms' = [s \in Step |-> {}]
    /\ curStep' = None /\ totalUndo' = 0 /\ totalRedo' = 0
    /\ undoBtn' = FALSE /\ redoBtn' = FALSE
    /\ loose' = {} /\ astray' = FALSE

EditOrUndo ==
    /\ ~astray /\ UNCHANGED astray
    /\ \/ \E del \in SUBSET shown, n \in 0 .. MaxElem - last : Edit(del, n)
       \/ \E del \in {D \in SUBSET shown : Cardinality(D) =< 1}, n \in {0, 1} : Unfinished(del, n)
       \/ \E e \in shown : EndAlone(e)
       \/ Undo \/ Redo

Next ==
    /\ EditOrUndo \/ (~astray /\ UndoNothing) \/ Reset
    /\ Cardinality(loose') =< MaxLoose

Spec == Init /\ [][Next]_vars

-----------------------------------------------------------------------------
(***************************************************************************)
(* The steps to be undone and those to be redone never overlap in the      *)
(* ring, though only pgundo_endStep looks at its size; the buttons tell    *)
(* what the counters say; and REDO is on only where there is a step done   *)
(* last, which pgundo_redo takes for granted.  pgundo_undo does so too,    *)
(* but UNDO may be on without one (EndAlone): all this holds up to an undo *)
(* then (UndoNothing).                                                     *)
(***************************************************************************)
RingHolds ==
    /\ totalUndo + totalRedo =< MaxStep
    /\ undoBtn <=> totalUndo > 0
    /\ redoBtn <=> totalRedo > 0
    /\ redoBtn => curStep # None

\* The drawing k steps back, or ahead.
Back ==
    LET back[k \in 0 .. totalUndo] ==
            IF k = 0 THEN shown
            ELSE (back[k - 1] \cup undoDelItms[Before(curStep, k - 1)])
                 \ undoAddItms[Before(curStep, k - 1)]
    IN back
Ahead ==
    LET ahead[k \in 0 .. totalRedo] ==
            IF k = 0 THEN shown
            ELSE (ahead[k - 1] \cup undoDelItms[After(curStep, k)])
                 \ undoAddItms[After(curStep, k)]
    IN ahead

(***************************************************************************)
(* UNDO and REDO lead through the states the drawing has had, whatever     *)
(* sequence of edits, undone and redone, wraps around the ring; but for    *)
(* the elements of steps that were not ended or begun, or did not fit, and *)
(* up to an undo with no step done (UndoNothing).                          *)
(***************************************************************************)
History == INSTANCE PGHistory WITH
    Depth   <- MaxStep,
    present <- shown \ loose,
    past    <- [k \in 1 .. totalUndo |-> Back[totalUndo + 1 - k] \ loose],
    future  <- [k \in 1 .. totalRedo |-> Ahead[k] \ loose]

WalksTheHistory == History!Spec

=============================================================================

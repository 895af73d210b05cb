------------------------------ MODULE DMStore ------------------------------
(***************************************************************************)
(* What a DM file promises to the libraries above it (GD, SF, SN): a map   *)
(* from slots (row, column, part) to the data last written there.          *)
(*                                                                         *)
(* One call is served at a time.  A slot that held no data shows nothing   *)
(* until the call that writes it is complete.  A slot that is written over *)
(* may be seen damaged while that call runs, and stays so when the program *)
(* dies in the middle of it.  No other slot ever changes.                  *)
(***************************************************************************)
CONSTANTS
    Slot,       \* the slots of the file
    Val,        \* the data a caller writes
    NoData,     \* what a slot without data holds
    Torn,       \* what a slot holds when its data is not what anyone wrote
    NoCall      \* no write is in progress

VARIABLES
    store,      \* what a reader of each slot would get
    writing     \* the slot and the data of the write in progress

vars == <<store, writing>>

TypeOK ==
    /\ store \in [Slot -> Val \cup {NoData, Torn}]
    /\ writing \in {NoCall} \cup (Slot \X Val)

Init ==
    /\ store = [s \in Slot |-> NoData]
    /\ writing = NoCall

Begin(s, v) ==
    /\ writing = NoCall
    /\ writing' = <<s, v>>
    /\ UNCHANGED store

\* Data that is being replaced is no longer reliable.
Spoil ==
    /\ writing # NoCall
    /\ store[writing[1]] # NoData
    /\ \E d \in Val \cup {Torn} : store' = [store EXCEPT ![writing[1]] = d]
    /\ UNCHANGED writing

Finish ==
    /\ writing # NoCall
    /\ store' = [store EXCEPT ![writing[1]] = writing[2]]
    /\ writing' = NoCall

Remove(s) ==
    /\ writing = NoCall
    /\ store' = [store EXCEPT ![s] = NoData]
    /\ UNCHANGED writing

\* The program dies; the file is opened again.
Abandon ==
    /\ writing # NoCall
    /\ writing' = NoCall
    /\ UNCHANGED store

Next ==
    \/ \E s \in Slot, v \in Val : Begin(s, v)
    \/ Spoil
    \/ Finish
    \/ \E s \in Slot : Remove(s)
    \/ Abandon

Spec == Init /\ [][Next]_vars

=============================================================================

----------------------------- MODULE VersionedBlob -----------------------------
(***************************************************************************)
(* What the vault promises, as one cell: it changes by one version at a    *)
(* time, to a blob it never held, and a reader only ever learns what the   *)
(* cell holds at that moment.                                              *)
(***************************************************************************)
EXTENDS Naturals

CONSTANTS Device, Blob, None

VARIABLES
  cell,   \* the version and the blob; version 0 holds None
  held,   \* every blob the cell has held
  view    \* view[d]: what d last learned

Empty == [version |-> 0, blob |-> None]

Init == cell = Empty /\ held = {} /\ view = [d \in Device |-> Empty]

Learn(d) ==
  /\ view' = [view EXCEPT ![d] = cell]
  /\ UNCHANGED <<cell, held>>

\* Whoever replaces the blob may hear of it or not.
Replace(b) ==
  /\ b \notin held
  /\ cell' = [version |-> cell.version + 1, blob |-> b]
  /\ held' = held \cup {b}
  /\ view' = view \/ \E d \in Device : view' = [view EXCEPT ![d] = cell']

Next == (\E d \in Device : Learn(d)) \/ (\E b \in Blob : Replace(b))

Spec == Init /\ [][Next]_<<cell, held, view>>
=============================================================================

---------------------------- MODULE MCSyncSystem ----------------------------
(***************************************************************************)
(* Bounded instances of SyncSystem.                                        *)
(***************************************************************************)
EXTENDS SyncClaims, SyncRefinement, TLC

\* Every clock agrees with the server's.
MCNoSkew == [d \in Device |-> 0]

\* One device's clock is a tick ahead.
MCOneAhead == LET fast == CHOOSE d \in Device : TRUE
              IN [d \in Device |-> IF d = fast THEN 1 ELSE 0]

\* Devices, records of the LWW tables and slots are interchangeable when all
\* clocks agree.
MCSymmetry == Permutations(Device) \cup Permutations(Record \ Chat) \cup Permutations(Slot)
=============================================================================

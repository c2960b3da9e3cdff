--------------------------- MODULE SyncRefinement ---------------------------
(***************************************************************************)
(* SyncSystem implements Ledger.  A live row holds the version named by    *)
(* its blob and timestamp; what a push writes under a tombstone is not     *)
(* part of the ledger.                                                     *)
(***************************************************************************)
EXTENDS SyncSystem

CONSTANTS Unwritten, Erased

ASSUME RefinementAssumption ==
  /\ Unwritten \notin Envelope
  /\ Erased \notin Envelope
  /\ Unwritten # Erased

VersionOf(r, row) ==
  IF row.status = "absent" THEN Unwritten
  ELSE IF row.status = "tombstone" THEN Erased
  ELSE [dev |-> row.blob[1], seq |-> row.blob[2], rec |-> r, ts |-> row.ts]

L == INSTANCE Ledger WITH
  Version <- Envelope,
  register <- [r \in Record |-> VersionOf(r, db[r])]

\* Seen from outside, the devices, the network with its losses and retries
\* and the server's tables are a ledger: no interleaving of flushes, deletes,
\* faults and reloads makes a record take a version nobody saved, go back to
\* an older one or return from its deletion.
LedgerSpec == L!Spec
=============================================================================

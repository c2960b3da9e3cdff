---------------------------- MODULE MCSyncServer ----------------------------
(***************************************************************************)
(* Bounded instance of SyncServer for TLC.                                 *)
(***************************************************************************)
EXTENDS SyncServer, TLC

MCSymmetry == Permutations(Record \ Chat)
=============================================================================

---------------------------- MODULE MCWorkspace -----------------------------
(* Workspace for TLC: two users, a record of one of them. *)
EXTENDS Workspace, TLC

CONSTANTS ann, bob, r1

MCOwnerOf == [r \in {r1} |-> ann]

\* Calls are interchangeable; the users are not.
Interchangeable == Permutations(Call)
=============================================================================

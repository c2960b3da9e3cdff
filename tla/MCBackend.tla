------------------------------- MODULE MCBackend -------------------------------
(***************************************************************************)
(* Bounded instance of Backend: the image in service, the next one with a  *)
(* new migration, and one with an edited file.                             *)
(***************************************************************************)
EXTENDS Backend, TLC

MCImages == {<<"a">>, <<"a", "b">>, <<"edited">>}

\* No temporal formula, nor the fairness, tells devices or slots apart; the
\* replicas, which they do name, are not permuted.
MCSymmetry == Permutations(Device) \cup Permutations(Slot)
=============================================================================

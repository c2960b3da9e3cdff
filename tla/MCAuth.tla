------------------------------- MODULE MCAuth -------------------------------
(* Auth for TLC: tabs, emails and passphrases are interchangeable. *)
EXTENDS Auth, TLC

Interchangeable == Permutations(Tab) \cup Permutations(Email) \cup Permutations(Pass)
=============================================================================

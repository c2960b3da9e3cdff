------------------------------ MODULE MCKeyring ------------------------------
(***************************************************************************)
(* A bounded instance of Keyring.                                          *)
(***************************************************************************)
EXTENDS Keyring, TLC

\* Users and devices are interchangeable, and so are the passphrases that are
\* not empty and the phrases.
MCSymmetry ==
  Permutations(User) \cup Permutations(Device)
    \cup Permutations(Pass \ {Empty}) \cup Permutations(Phrase)
=============================================================================

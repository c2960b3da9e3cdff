------------------------------- MODULE Ledger -------------------------------
(***************************************************************************)
(* What syncing promises to the account as a whole, without devices'       *)
(* queues, requests, retries or SQL: a ledger with one register per        *)
(* record.  A register only ever takes a version some device saved, only   *)
(* moves to newer versions, and once emptied by a delete stays empty.      *)
(***************************************************************************)
EXTENDS Naturals

CONSTANTS
  Record,      \* the registers
  Chat,        \* registers that are written once
  Version,     \* the versions devices can save: [rec, ts, ...] records
  Unwritten,   \* a register nobody has written
  Erased       \* a register emptied by a delete

VARIABLES
  saved,       \* versions the devices have saved
  register     \* register[r]: Unwritten, Erased or a saved version

Init ==
  /\ saved = {}
  /\ register = [r \in Record |-> Unwritten]

\* A device saves one more version.
Save ==
  /\ \E v \in Version : saved' = saved \cup {v}
  /\ UNCHANGED register

Supersedes(r, old, v) == old = Unwritten \/ (r \notin Chat /\ old.ts < v.ts)

\* The only ways a register may change.
Publishes(r) ==
  /\ register[r] # Erased
  /\ \E v \in saved : /\ v.rec = r
                      /\ Supersedes(r, register[r], v)
                      /\ register'[r] = v

Erases(r) ==
  /\ r \notin Chat
  /\ register[r] \notin {Unwritten, Erased}
  /\ register'[r] = Erased

\* One request may publish to several registers, all at once.
Exchange ==
  /\ \A r \in Record : register'[r] = register[r] \/ Publishes(r) \/ Erases(r)
  /\ UNCHANGED saved

Next == Save \/ Exchange

Spec == Init /\ [][Next]_<<saved, register>>
=============================================================================

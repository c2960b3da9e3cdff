-------------------------------- MODULE Backend --------------------------------
(***************************************************************************)
(* The replicas of Boot serving the vault of Vault: a request runs on a    *)
(* replica that serves, and ends with it.                                  *)
(***************************************************************************)
EXTENDS Boot, Vault

\* Every replica keeps its own buckets of calls (ratelimit.go).
ASSUME BackendAssumption == Process = Replica

Init == BootInit /\ VaultInit

\* Only a replica that serves accepts a connection.
Accepts(r) == state[r] = "serving"

Call ==
  \E d \in Device :
    \/ Get(d) /\ \E r \in Replica : Accepts(r)
    \/ \E s \in Slot, r \in Replica : Accepts(r) /\ Put(d, s, r)

\* Faulty variant: Shutdown does not wait for the requests in progress, and
\* they go on in a process that is said to be down.
DownLeavingRequests(r) == (BootDie(r) \/ Drained(r)) /\ UNCHANGED vaultVars

\* A death ends the process's requests; so does a drain that has had its time.
Down(r) == (BootDie(r) \/ Drained(r)) /\ Die(r) /\ UNCHANGED lost

Serving ==
  \/ Call
  \/ \E s \in Slot : Serve(s)
  \/ \E d \in Device : Seal(d) \/ GiveUp(d)
  \/ Tick

Next ==
  \/ Serving /\ UNCHANGED bootVars
  \/ \E r \in Replica : (Start(r) \/ MigrateStep(r) \/ Drain(r)) /\ UNCHANGED vaultVars
  \/ \E r \in Replica : Down(r)

vars == <<bootVars, vaultVars>>

Fairness == \A r \in Replica : WF_vars(MigrateStep(r) /\ UNCHANGED vaultVars)

Spec == Init /\ [][Next]_vars /\ Fairness

-----------------------------------------------------------------------------

TypeOK == BootTypeOK /\ VaultTypeOK

\* A statement of the vault's runs only where its tables are: in a replica
\* that serves or drains, on a schema it has checked.
RequestsRunOnServers ==
  \A s \in Slot : req[s] # None =>
    /\ state[req[s].on] \in {"serving", "draining"}
    /\ DOMAIN image[req[s].on] \subseteq DOMAIN schema
=============================================================================

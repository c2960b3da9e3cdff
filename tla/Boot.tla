---------------------------------- MODULE Boot ----------------------------------
(***************************************************************************)
(* Replicas starting, serving and stopping: cmd/server/main.go and the     *)
(* forward-only migrations of internal/db/migrate.go.                      *)
(*                                                                         *)
(* Each boot runs one image, which carries its own migration files; a      *)
(* rolling deployment boots images that differ.  The database keeps the    *)
(* schema and the ledger schema_migrations.  A transaction is visible in   *)
(* the state of its replica alone until it commits; a session that ends    *)
(* takes its transaction and its advisory lock with it.                    *)
(***************************************************************************)
EXTENDS Naturals, Sequences

CONSTANTS
  Replica,     \* instances of the server
  Images,      \* the images deployed, each the sequence of its files' contents
  MaxBoots,    \* bound: boots of a replica
  MaxDeaths,   \* bound: statements that fail, deaths
  Nobody

Contents == UNION {{i[f] : f \in DOMAIN i} : i \in Images}

\* Files are named by number, 001_, 002_, ..., and an image carries the first
\* few: how the repository adds migrations, which the code does not enforce (a
\* ledger row is found by file name, and an image may skip or rename a file).
ASSUME BootAssumption ==
  /\ MaxBoots \in Nat /\ MaxDeaths \in Nat
  /\ Images # {} /\ \A i \in Images : i \in Seq(Contents)
  /\ Nobody \notin Replica

VARIABLES
  state,    \* state[r]: where the process stands
  image,    \* image[r]: the image it boots
  file,     \* file[r]: the file its loop has come to
  lock,     \* who holds advisory lock 724561
  ledger,   \* the checksum recorded for each migration
  schema,   \* the migrations whose changes are committed, in order
  boots,    \* boots[r] so far
  deaths    \* faults so far

fleet == <<image, boots>>
database == <<ledger, schema>>
bootVars == <<state, image, file, lock, ledger, schema, boots, deaths>>

Migrating == {"check", "begun", "executed", "recorded"}
Exited == {"down", "edited", "clashed"}
States == {"locking", "serving", "draining"} \cup Migrating \cup Exited

BootInit ==
  /\ state = [r \in Replica |-> "down"]
  /\ image \in [Replica -> Images]
  /\ file = [r \in Replica |-> 1]
  /\ lock = Nobody
  /\ ledger = <<>> /\ schema = <<>>
  /\ boots = [r \in Replica |-> 0] /\ deaths = 0

Goes(r, s) == state' = [state EXCEPT ![r] = s]
Fails == deaths < MaxDeaths /\ deaths' = deaths + 1

\* Faulty variant: the lock is a row that outlives the session.
KeptPastDeath(r) == lock' = IF lock = r /\ state[r] = "check" THEN Nobody ELSE lock

\* The session ends or the deferred unlock runs.
Released(r) == lock' = IF lock = r THEN Nobody ELSE lock

\* Migrate returns an error and main exits.
Exits(r, why) == Goes(r, why) /\ Released(r)

-----------------------------------------------------------------------------
(* Boot: configuration, pool, migrations.                                  *)

Start(r) ==
  /\ state[r] \in Exited /\ boots[r] < MaxBoots
  /\ Goes(r, "locking")
  /\ boots' = [boots EXCEPT ![r] = @ + 1]
  /\ \E i \in Images : image' = [image EXCEPT ![r] = i]
  /\ file' = [file EXCEPT ![r] = 1]
  /\ UNCHANGED <<lock, deaths>> /\ UNCHANGED database

\* Faulty variant: pg_try_advisory_lock, its answer not looked at.
LockTried(r) ==
  /\ state[r] = "locking"
  /\ lock' = IF lock = Nobody THEN r ELSE lock
  /\ Goes(r, "check")
  /\ UNCHANGED <<file, deaths>> /\ UNCHANGED fleet /\ UNCHANGED database

\* pg_advisory_lock blocks until nobody holds it; then the ledger's table is
\* made if it is not there.
Lock(r) ==
  /\ state[r] = "locking" /\ lock = Nobody
  /\ lock' = r
  /\ Goes(r, "check")
  /\ UNCHANGED <<file, deaths>> /\ UNCHANGED fleet /\ UNCHANGED database

More(r) == state[r] = "check" /\ file[r] \in DOMAIN image[r]
Applied(r) == file[r] \in DOMAIN ledger

\* Faulty variant: any checksum will do.
UnchangedUnseen(r) == Applied(r)

Unchanged(r) == Applied(r) /\ ledger[file[r]] = image[r][file[r]]

\* Already applied, unchanged.
Skip(r) ==
  /\ More(r) /\ Unchanged(r)
  /\ file' = [file EXCEPT ![r] = @ + 1]
  /\ UNCHANGED <<state, lock, deaths>> /\ UNCHANGED fleet /\ UNCHANGED database

\* Modified after being applied: the boot is refused.
Refuse(r) ==
  /\ More(r) /\ Applied(r) /\ ~Unchanged(r)
  /\ Exits(r, "edited")
  /\ UNCHANGED <<file, deaths>> /\ UNCHANGED fleet /\ UNCHANGED database

BeginTx(r) ==
  /\ More(r) /\ ~Applied(r)
  /\ Goes(r, "begun")
  /\ UNCHANGED <<file, lock, deaths>> /\ UNCHANGED fleet /\ UNCHANGED database

\* The file's statements; they fail on a schema that has them already.
Execute(r) ==
  /\ state[r] = "begun"
  /\ IF \E k \in DOMAIN schema : schema[k].file = file[r]
     THEN Exits(r, "clashed") ELSE Goes(r, "executed") /\ UNCHANGED lock
  /\ UNCHANGED <<file, deaths>> /\ UNCHANGED fleet /\ UNCHANGED database

Migrated(r) == Append(schema, [file |-> file[r], content |-> image[r][file[r]]])
Recorded(r) == [f \in DOMAIN ledger \cup {file[r]} |->
                  IF f = file[r] THEN image[r][f] ELSE ledger[f]]

\* Faulty variant: the ledger's row is written before the transaction, not in it.
RecordAhead(r) ==
  /\ state[r] = "executed"
  /\ Goes(r, "recorded") /\ ledger' = Recorded(r)
  /\ UNCHANGED <<file, lock, schema, deaths>> /\ UNCHANGED fleet

\* The ledger's row; version is its primary key.
Record(r) ==
  /\ state[r] = "executed"
  /\ IF Applied(r) THEN Exits(r, "clashed") ELSE Goes(r, "recorded") /\ UNCHANGED lock
  /\ UNCHANGED <<file, deaths>> /\ UNCHANGED fleet /\ UNCHANGED database

\* Both become visible at once.
Commit(r) ==
  /\ state[r] = "recorded"
  /\ schema' = Migrated(r) /\ ledger' = Recorded(r)
  /\ Goes(r, "check") /\ file' = [file EXCEPT ![r] = @ + 1]
  /\ UNCHANGED <<lock, deaths>> /\ UNCHANGED fleet

\* No file is left: unlock and serve, or exit under -migrate-only.
Finish(r) ==
  /\ state[r] = "check" /\ ~More(r)
  /\ Released(r)
  /\ \E s \in {"serving", "down"} : Goes(r, s)
  /\ UNCHANGED <<file, deaths>> /\ UNCHANGED fleet /\ UNCHANGED database

-----------------------------------------------------------------------------
(* Serving and stopping.                                                   *)

\* SIGTERM: no new connection is accepted, requests in progress have 15 s.
Drain(r) ==
  /\ state[r] = "serving"
  /\ Goes(r, "draining")
  /\ UNCHANGED <<file, lock, deaths>> /\ UNCHANGED fleet /\ UNCHANGED database

Drained(r) ==
  /\ state[r] = "draining"
  /\ Goes(r, "down")
  /\ UNCHANGED <<file, lock, deaths>> /\ UNCHANGED fleet /\ UNCHANGED database

\* A statement fails or the process dies, anywhere.
BootDie(r) ==
  /\ state[r] \notin Exited /\ Fails
  /\ Exits(r, "down")
  /\ UNCHANGED file /\ UNCHANGED fleet /\ UNCHANGED database

\* The loop of Migrate.
MigrateStep(r) ==
  \/ Lock(r) \/ Skip(r) \/ Refuse(r) \/ BeginTx(r) \/ Execute(r) \/ Record(r) \/ Commit(r)
  \/ Finish(r)

BootNext == \E r \in Replica : Start(r) \/ MigrateStep(r) \/ Drain(r) \/ Drained(r) \/ BootDie(r)

\* A process runs, and Postgres hands the lock to one who waits.
BootFairness == \A r \in Replica : WF_bootVars(MigrateStep(r))

BootSpec == BootInit /\ [][BootNext]_bootVars /\ BootFairness

-----------------------------------------------------------------------------
(* Properties.                                                             *)

\* Every variable has its type.
BootTypeOK ==
  /\ state \in [Replica -> States]
  /\ image \in [Replica -> Images]
  /\ file \in [Replica -> Nat \ {0}]
  /\ lock \in Replica \cup {Nobody}
  /\ ledger \in Seq(Contents)
  /\ schema \in Seq([file : Nat, content : Contents])
  /\ boots \in [Replica -> 0..MaxBoots]
  /\ deaths \in 0..MaxDeaths

\* Migrations are applied once each and in the order of their names, and the
\* ledger says exactly what was applied, whichever replica died or failed at
\* whatever statement (Migrate).
LedgerIsSchema ==
  /\ DOMAIN ledger = DOMAIN schema
  /\ \A k \in DOMAIN schema : schema[k] = [file |-> k, content |-> ledger[k]]

\* A replica that serves runs on a schema holding every migration of its
\* image, unedited, whatever images were deployed beside it.
ServesOnItsSchema ==
  \A r \in Replica : state[r] \in {"serving", "draining"} =>
    \A f \in DOMAIN image[r] : f \in DOMAIN ledger /\ ledger[f] = image[r][f]

\* No boot fails because another replica was migrating at the same time.
BootsDoNotClash == \A r \in Replica : state[r] # "clashed"

\* A boot ends: the replica serves, is refused, or exits.
BootsEnd == \A r \in Replica : state[r] = "locking" ~> state[r] \in Exited \cup {"serving"}
=============================================================================

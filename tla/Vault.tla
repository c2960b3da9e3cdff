--------------------------------- MODULE Vault ---------------------------------
(***************************************************************************)
(* One user's vault: the blob behind GET and PUT /api/vault                *)
(* (internal/api/vault.go), with the optimistic concurrency of If-Match    *)
(* and the user's bucket of sync calls.                                    *)
(*                                                                         *)
(* A PUT is up to three statements, each its own transaction: an UPDATE    *)
(* guarded by the version, a SELECT to learn why it matched nothing, an    *)
(* INSERT if there is no row.  Requests of several devices, served by      *)
(* several processes, interleave between them.                             *)
(***************************************************************************)
EXTENDS RateLimit, Sequences

CONSTANTS
  Device,      \* devices of the user
  Process,     \* server processes; each keeps buckets of its own
  Slot,        \* requests in progress at once
  MaxSeals,    \* bound: blobs a device seals
  MaxLost,     \* bound: answers given up on, failed statements and deaths
  MaxNow,      \* bound: the clock
  None

\* A sealed blob; the nonce makes each different from all others.
Blob == Device \X (1..MaxSeals)
Row == [version: Nat \ {0}, blob: Blob]
\* What a device last learned of the vault; version 0 is "no row yet".
Known == [version: Nat, blob: Blob \cup {None}]
Request ==
  [by: Device, on: Process, at: {"update", "look", "insert"},
   expected: Nat, blob: Blob, over: Blob \cup {None}]

ASSUME VaultAssumption ==
  /\ MaxSeals \in Nat /\ MaxLost \in Nat /\ MaxNow \in Nat
  /\ None \notin Row \cup Blob \cup Request \cup Slot \cup Bucket

VARIABLES
  row,      \* the row of vaults, or None
  req,      \* req[s]: the PUT in progress, or None
  waiting,  \* waiting[d]: the slot whose answer d waits for, or None
  known,    \* known[d]
  want,     \* want[d]: the blob d is trying to store, or None
  seals,    \* seals[d]: blobs sealed so far
  lost,     \* faults so far
  now,      \* the clock
  bucket,   \* bucket[p]: the user's bucket of sync calls, or None
  written,  \* history: written[v] is how version v came to be
  hits      \* history: hits[p][t], calls p has allowed by time t since it started

device == <<known, want, seals>>
calls == <<bucket, hits>>
vaultVars == <<row, req, waiting, known, want, seals, lost, now, bucket, written, hits>>

NoHits == [t \in 0..MaxNow |-> 0]

VaultInit ==
  /\ row = None
  /\ req = [s \in Slot |-> None]
  /\ waiting = [d \in Device |-> None]
  /\ known = [d \in Device |-> [version |-> 0, blob |-> None]]
  /\ want = [d \in Device |-> None]
  /\ seals = [d \in Device |-> 0]
  /\ lost = 0 /\ now = 0
  /\ bucket = [p \in Process |-> None]
  /\ written = <<>>
  /\ hits = [p \in Process |-> NoHits]

Fault == lost < MaxLost /\ lost' = lost + 1

-----------------------------------------------------------------------------
(* The devices.                                                            *)

\* The device seals an edit of what it knows.
Seal(d) ==
  /\ want[d] = None /\ seals[d] < MaxSeals
  /\ seals' = [seals EXCEPT ![d] = @ + 1]
  /\ want' = [want EXCEPT ![d] = <<d, seals[d] + 1>>]
  /\ UNCHANGED <<row, req, waiting, known, lost, now, written>> /\ UNCHANGED calls

\* GET: it starts over from what is stored.  Without a row the answer is a
\* 500, and the device learns nothing.
Get(d) ==
  /\ waiting[d] = None /\ row # None
  /\ known' = [known EXCEPT ![d] = row]
  /\ want' = [want EXCEPT ![d] = None]
  /\ UNCHANGED <<row, req, waiting, seals, lost, now, written>> /\ UNCHANGED calls

BucketOf(p) == IF bucket[p] = None THEN NewBucket(now) ELSE bucket[p]

Counted(h) == [t \in 0..MaxNow |-> IF t < now THEN h[t] ELSE h[t] + 1]

\* PUT with If-Match: the version it knows; refused without a token.
Put(d, s, p) ==
  /\ want[d] # None /\ waiting[d] = None /\ req[s] = None
  /\ Allows(BucketOf(p), now)
  /\ bucket' = [bucket EXCEPT ![p] = Spend(BucketOf(p), now)]
  /\ hits' = [hits EXCEPT ![p] = Counted(@)]
  /\ req' = [req EXCEPT ![s] =
       [by |-> d, on |-> p, at |-> "update", expected |-> known[d].version,
        blob |-> want[d], over |-> known[d].blob]]
  /\ waiting' = [waiting EXCEPT ![d] = s]
  /\ UNCHANGED <<row, lost, now, written>> /\ UNCHANGED device

\* The answer is lost, or the device gives up; it may send the PUT again.
GiveUp(d) ==
  /\ waiting[d] # None /\ Fault
  /\ waiting' = [waiting EXCEPT ![d] = None]
  /\ UNCHANGED <<row, req, now, written>> /\ UNCHANGED device /\ UNCHANGED calls

-----------------------------------------------------------------------------
(* The handler of PUT.                                                     *)

Waits(s) == req[s] # None /\ waiting[req[s].by] = s

\* The request ends; its device, if it still waits, hears of it.
Ends(s) ==
  /\ req' = [req EXCEPT ![s] = None]
  /\ waiting' = IF Waits(s) THEN [waiting EXCEPT ![req[s].by] = None] ELSE waiting

Learns(s, k) ==
  LET d == req[s].by
  IN IF Waits(s)
     THEN known' = [known EXCEPT ![d] = k] /\ want' = [want EXCEPT ![d] = None]
     ELSE UNCHANGED <<known, want>>

\* 200: the version written and the blob sent.
Stored(s, version) ==
  /\ row' = [version |-> version, blob |-> req[s].blob]
  /\ written' = Append(written, [blob |-> req[s].blob, over |-> req[s].over])
  /\ Ends(s) /\ Learns(s, row')
  /\ UNCHANGED <<seals, lost, now>> /\ UNCHANGED calls

\* 409: the answer carries a version and no blob; the device drops what it sealed.
Conflict(s) == Ends(s) /\ UNCHANGED <<row, written, seals, now>> /\ UNCHANGED calls
               /\ Learns(s, known[req[s].by])

\* 500: the device keeps what it sealed.
Broken(s) == Ends(s) /\ UNCHANGED <<row, written, now>> /\ UNCHANGED device /\ UNCHANGED calls

GoesTo(s, step) ==
  /\ req' = [req EXCEPT ![s].at = step]
  /\ UNCHANGED <<row, waiting, now, written>> /\ UNCHANGED device /\ UNCHANGED calls

At(s, step) == req[s] # None /\ req[s].at = step

\* Faulty variant: the update is not guarded by the version.
MatchesAnything(s) == row # None

Matches(s) == row # None /\ row.version = req[s].expected

Update(s) ==
  /\ At(s, "update")
  /\ IF Matches(s) THEN Stored(s, row.version + 1) ELSE GoesTo(s, "look") /\ UNCHANGED lost

\* Faulty variant: the version after the expected one is taken for one's own.
LookForOwn(s) ==
  /\ At(s, "look") /\ UNCHANGED lost
  /\ IF row = None THEN GoesTo(s, "insert")
     ELSE /\ row.version = req[s].expected + 1
          /\ Ends(s) /\ Learns(s, [version |-> row.version, blob |-> req[s].blob])
          /\ UNCHANGED <<row, written, seals, now>> /\ UNCHANGED calls

\* The SELECT; an error of its own is taken for "no row".
Look(s) ==
  /\ At(s, "look")
  /\ \/ row # None /\ Conflict(s) /\ UNCHANGED lost
     \/ /\ IF row = None THEN UNCHANGED lost ELSE Fault
        /\ IF req[s].expected = 0 THEN GoesTo(s, "insert") ELSE Conflict(s)

\* Faulty variant: insert ... on conflict do update.
Upsert(s) ==
  /\ At(s, "insert")
  /\ Stored(s, IF row = None THEN 1 ELSE row.version + 1)

\* The insert; user_id is the primary key.
Insert(s) ==
  /\ At(s, "insert")
  /\ IF row = None THEN Stored(s, 1) ELSE Broken(s) /\ UNCHANGED lost

\* A statement fails, or the context of a request given up on is cancelled.
StatementFails(s) == req[s] # None /\ Fault /\ Broken(s)
Cancelled(s) == req[s] # None /\ ~Waits(s) /\ Broken(s) /\ UNCHANGED lost

-----------------------------------------------------------------------------
(* The processes.                                                          *)

\* A process goes down: its requests end unanswered, its buckets are gone.
Die(p) ==
  /\ req' = [s \in Slot |-> IF req[s] # None /\ req[s].on = p THEN None ELSE req[s]]
  /\ waiting' = [d \in Device |->
       IF waiting[d] # None /\ req[waiting[d]].on = p THEN None ELSE waiting[d]]
  /\ bucket' = [bucket EXCEPT ![p] = None]
  /\ hits' = [hits EXCEPT ![p] = NoHits]
  /\ UNCHANGED <<row, now, written>> /\ UNCHANGED device

Tick == now < MaxNow /\ now' = now + 1
        /\ UNCHANGED <<row, req, waiting, lost, written>> /\ UNCHANGED device /\ UNCHANGED calls

\* What one request does once it has been let in.
Serve(s) == Update(s) \/ Look(s) \/ Insert(s) \/ StatementFails(s) \/ Cancelled(s)
DeviceStep(d) == Seal(d) \/ Get(d) \/ GiveUp(d)

VaultNext ==
  \/ \E d \in Device : DeviceStep(d) \/ \E s \in Slot, p \in Process : Put(d, s, p)
  \/ \E s \in Slot : Serve(s)
  \/ \E p \in Process : Fault /\ Die(p)
  \/ Tick

VaultSpec == VaultInit /\ [][VaultNext]_vaultVars

-----------------------------------------------------------------------------
(* Properties.                                                             *)

\* Every variable has its type.
VaultTypeOK ==
  /\ row \in Row \cup {None}
  /\ req \in [Slot -> Request \cup {None}]
  /\ waiting \in [Device -> Slot \cup {None}]
  /\ known \in [Device -> Known]
  /\ want \in [Device -> Blob \cup {None}]
  /\ seals \in [Device -> 0..MaxSeals]
  /\ lost \in 0..MaxLost /\ now \in 0..MaxNow
  /\ bucket \in [Process -> Bucket \cup {None}]
  /\ written \in Seq([blob : Blob, over : Blob \cup {None}])
  /\ hits \in [Process -> [0..MaxNow -> Nat]]

\* The vault was never overwritten blindly (handleVaultPut): who stored a
\* version had seen the blob of the version before it, and had sealed version
\* 1 knowing of none, whatever was retried, given up on or overtaken between
\* the three statements.
NoLostUpdate ==
  \A v \in DOMAIN written :
    written[v].over = IF v = 1 THEN None ELSE written[v - 1].blob

\* A PUT takes effect at most once, however often its device sends it again
\* after a lost answer.
StoredOnce ==
  \A v, w \in DOMAIN written : written[v].blob = written[w].blob => v = w

\* What a device knows of version v, by an answer to GET or to PUT, is what
\* version v held.
KnownIsStored ==
  \A d \in Device :
    known[d].version > 0 =>
      /\ known[d].version \in DOMAIN written
      /\ written[known[d].version].blob = known[d].blob

\* However calls arrive, between two times a process lets through at most a
\* full bucket and one call for each period between (buckets.allow): within a
\* minute, at most 2 * Burst - 1.
HitsBefore(p, t) == IF t = 0 THEN 0 ELSE hits[p][t - 1]
BurstIsBounded ==
  \A p \in Process, t, u \in 0..MaxNow :
    t <= u => hits[p][u] <= HitsBefore(p, t) + Burst + (u - t)

\* The vault keeps the promise of one versioned cell: three statements of a PUT
\* take effect in one step, and every answer tells what the cell holds.
Cell == IF row = None THEN [version |-> 0, blob |-> None] ELSE row
Promise == INSTANCE VersionedBlob WITH
  cell <- Cell, held <- {written[v].blob : v \in DOMAIN written}, view <- known
VaultIsOneCell == Promise!Spec
=============================================================================

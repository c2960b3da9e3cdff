----------------------------- MODULE SyncServer -----------------------------
(***************************************************************************)
(* The record tables behind POST /api/records/sync and DELETE              *)
(* /api/records/{type}/{id}, for one account.  Pulls and deletes select by *)
(* user_id; the upserts of a push conflict on the record id alone, so this *)
(* assumes that no two accounts use the same id (clients draw UUIDs).      *)
(*                                                                         *)
(* A push is one SQL transaction that upserts its envelopes in array       *)
(* order.  Every upsert locks its row until the commit (ON CONFLICT DO     *)
(* UPDATE locks the row even when its WHERE clause rejects it), so pushes  *)
(* are serializable and a whole push is one step here.  A delete is one    *)
(* UPDATE statement; a pull is one SELECT, which is an operator.           *)
(***************************************************************************)
EXTENDS Naturals, FiniteSets

CONSTANTS
  Device,      \* the devices signed in to the account
  Record,      \* record ids of the three synced tables
  Chat,        \* those of encrypted_chat_messages, which is append-only
  MaxSaves,    \* bound: saves per device
  MaxTs,       \* bound: the largest timestamp, in clock ticks
  PageLimit,   \* the LIMIT of one pull (500 in the handler)
  Zeroed       \* the one-byte blob a delete leaves in the row

Seqs == 1..MaxSaves
Ts == 1..MaxTs

(***************************************************************************)
(* A blob is named by the save that encrypted it: every save draws a fresh *)
(* nonce, so no two saves produce the same blob.                           *)
(***************************************************************************)
Ciphertext == Device \X Seqs
Blob == Ciphertext \cup {Zeroed}

ASSUME ServerAssumption ==
  /\ Chat \subseteq Record
  /\ MaxSaves \in Nat
  /\ MaxTs \in Nat
  /\ PageLimit \in Nat \ {0}
  /\ Zeroed \notin Ciphertext

(***************************************************************************)
(* One pushed envelope.  seq is its place in the pushing device's outbox,  *)
(* hence in the request's array; dev and seq stand for the ciphertext.     *)
(***************************************************************************)
Envelope == [dev: Device, seq: Seqs, rec: Record, ts: Ts]

\* Faulty variant: a row filled from the wrong fields.
SwappedBlobOf(e) == <<e.seq, e.dev>>

BlobOf(e) == <<e.dev, e.seq>>

Row == [status: {"absent", "live", "tombstone"}, blob: Blob, ts: 0..MaxTs]
AbsentRow == [status |-> "absent", blob |-> Zeroed, ts |-> 0]

VARIABLE db    \* db[r]: the row of record r in its table

-----------------------------------------------------------------------------
(* Push: last-writer-wins upserts decided inside SQL. *)

\* Faulty variants: the upsert without its WHERE clause, and with <> for <.
AnyReplaces(r, old, new) == r \notin Chat
OtherReplaces(r, old, new) == r \notin Chat /\ old # new

\* A stored version gives way only to a strictly newer one; a chat row
\* (ON CONFLICT DO NOTHING) never does.
Newer(r, old, new) == r \notin Chat /\ old < new

\* Faulty variant: each upsert compares with the row as it was before the push.
AppliedToStored(row, batch, r) ==
  {e \in batch : e.rec = r /\ (row.status = "absent" \/ Newer(r, row.ts, e.ts))}

\* The envelopes of a batch whose upsert of record r takes effect: newer
\* than the stored row and than every envelope of r earlier in the array.
Applied(row, batch, r) ==
  {e \in batch :
     /\ e.rec = r
     /\ row.status = "absent" \/ Newer(r, row.ts, e.ts)
     /\ \A f \in batch : f.rec = r /\ f.seq < e.seq => Newer(r, f.ts, e.ts)}

LastOf(batch) == CHOOSE e \in batch : \A f \in batch : f.seq <= e.seq

\* Faulty variant: the upsert also resets deleted_at, so a push revives a row.
RevivingStatus(row) == "live"

\* An upsert inserts a live row and never touches deleted_at of an old one.
StatusAfterPush(row) == IF row.status = "tombstone" THEN "tombstone" ELSE "live"

\* The row of r after every upsert of the batch has run.
Upserted(row, batch, r) ==
  LET hits == Applied(row, batch, r)
      last == LastOf(hits)
  IN IF hits = {}
     THEN row
     ELSE [status |-> StatusAfterPush(row), blob |-> BlobOf(last), ts |-> last.ts]

PushEnvelopes(batch) == db' = [r \in Record |-> Upserted(db[r], batch, r)]

-----------------------------------------------------------------------------
(* Delete: one guarded UPDATE.  The chat table has no updated_at or        *)
(* deleted_at column, so for a chat row the statement fails.               *)

\* Faulty variant: the WHERE clause without its comparison of timestamps.
DeletableAtAnyTime(r, ts) == r \notin Chat /\ db[r].status = "live"

Deletable(r, ts) == r \notin Chat /\ db[r].status = "live" /\ db[r].ts <= ts

DeleteRecord(r, ts) ==
  /\ Deletable(r, ts)
  /\ db' = [db EXCEPT ![r] = [status |-> "tombstone", blob |-> Zeroed, ts |-> ts]]

-----------------------------------------------------------------------------
(* Pull: the rows strictly after the cursor, one page of them.             *)

Changed(since) == {r \in Record : db[r].status # "absent" /\ since < db[r].ts}

(***************************************************************************)
(* ORDER BY 3 sorts by the third selected column, the blob.  The one-byte  *)
(* blob of a zeroed row comes before every ciphertext; ciphertexts begin   *)
(* with a random nonce, so their order is arbitrary.                       *)
(***************************************************************************)
IsPage(page, since) ==
  LET all == Changed(since) IN
  /\ page \subseteq all
  /\ Cardinality(page) = IF Cardinality(all) < PageLimit THEN Cardinality(all) ELSE PageLimit
  /\ \A p \in page, q \in all \ page : db[q].blob = Zeroed => db[p].blob = Zeroed

-----------------------------------------------------------------------------
(* The tables under arbitrary requests: any device, any well-formed array. *)

\* A request's array of (record, timestamp) pairs, from one device.
ItemOf(dev, items, i) == [dev |-> dev, seq |-> i, rec |-> items[i][1], ts |-> items[i][2]]

BatchOf(dev, items) == {ItemOf(dev, items, i) : i \in DOMAIN items}

Batches ==
  {BatchOf(dev, items) :
     dev \in Device, items \in UNION {[1..n -> Record \X Ts] : n \in 0..MaxSaves}}

ServerInit == db = [r \in Record |-> AbsentRow]

ServerNext ==
  \/ \E batch \in Batches : PushEnvelopes(batch)
  \/ \E r \in Record, ts \in Ts : DeleteRecord(r, ts)

ServerSpec == ServerInit /\ [][ServerNext]_db

-----------------------------------------------------------------------------
(* Properties. *)

\* Every row is a row.  (Checked and proved so that the others may use it.)
ServerTypeOK == db \in [Record -> Row]

RowAdvances(r, old, new) ==
  /\ old.status # "absent" => new.status # "absent"
  /\ old.status = "tombstone" => new.status = "tombstone"
  /\ old.status # "absent" => old.ts <= new.ts
  /\ (old.status = "live" /\ new.status = "live" /\ old.blob # new.blob) => old.ts < new.ts
  /\ (r \in Chat /\ old.status # "absent") => new = old

\* Whatever requests arrive in whatever order (replays, late and stale ones
\* included), no row goes back in time, disappears, comes back from its
\* tombstone or changes content under an unchanged timestamp, and a chat row
\* never changes at all (PushEnvelopes and DeleteRecord of sync.go).
RowsOnlyAdvance == [][\A r \in Record : RowAdvances(r, db[r], db'[r])]_db

\* A client that did not see the answer pushes the same batch again; the
\* replay changes nothing (engine.ts retries the whole batch, sync.go relies
\* on the strict comparison).
ReplayIsNoOp ==
  \A batch \in Batches, r \in Record :
    LET once == Upserted(db[r], batch, r) IN Upserted(once, batch, r) = once

TieFree(a, b) == \A e \in a, f \in b : e.rec = f.rec => e.ts # f.ts

Commute(a, b, r) ==
  Upserted(Upserted(db[r], a, r), b, r) = Upserted(Upserted(db[r], b, r), a, r)

\* Two batches that give no record equal timestamps leave the same rows
\* whichever arrives first (PushEnvelopes; chat rows keep the first arrival).
TieFreePushesCommute ==
  \A a, b \in Batches, r \in Record \ Chat : TieFree(a, b) => Commute(a, b, r)

\* One turn of the loop: the statement for e against the row as it stands.
UpsertOne(row, e, r) ==
  IF e.rec # r \/ (row.status # "absent" /\ ~Newer(r, row.ts, e.ts))
  THEN row
  ELSE [status |-> StatusAfterPush(row), blob |-> BlobOf(e), ts |-> e.ts]

LoopOver(row, dev, items, n, r) ==
  LET after[k \in 0..n] ==
        IF k = 0 THEN row ELSE UpsertOne(after[k - 1], ItemOf(dev, items, k), r)
  IN after[n]

\* The closed form Upserted is what the loop of PushEnvelopes computes: each
\* envelope of the array upserted against the row its predecessors left.
BatchIsALoop ==
  \A dev \in Device, r \in Record, n \in 0..MaxSaves :
    \A items \in [1..n -> Record \X Ts] :
      Upserted(db[r], BatchOf(dev, items), r) = LoopOver(db[r], dev, items, n, r)
=============================================================================

----------------------------- MODULE SyncSystem -----------------------------
(***************************************************************************)
(* The devices of one account syncing through SyncServer: the IndexedDB    *)
(* tables outbox, envelopes and meta of every device (web/src/cache/db.ts),*)
(* its flushes (web/src/sync/engine.ts, outbox.ts, merge.ts), the saves    *)
(* and deletes that feed them (web/src/domain/store.ts) and the requests   *)
(* in transit (api/client.ts, internal/api/sync.go).                       *)
(*                                                                         *)
(* Every await is a step boundary.  Nothing stops two flushes of a device  *)
(* from overlapping: the interval, the 'online' event, every save, every   *)
(* delete and every page load start one.  A slot is a flush in progress.   *)
(***************************************************************************)
EXTENDS SyncServer

CONSTANTS
  Slot,            \* overlapping flushes per device (a bound)
  BatchLimit,      \* rows drained by one flush (500 in the engine)
  TicksPerSecond,  \* clock ticks per second; a tick is a millisecond
  Skew,            \* Skew[d]: how far d's clock is ahead of the server's
  FutureTolerance, \* futureTolerance of envelope.go, in ticks
  SaveLag,         \* how old a save's timestamp can be when its row is queued
  MaxNow,          \* bound: the server's clock
  MaxFaults        \* bound: lost requests, lost answers and reloads

ASSUME SystemAssumption ==
  /\ BatchLimit \in Nat \ {0}
  /\ TicksPerSecond \in Nat \ {0}
  /\ Skew \in [Device -> Nat]
  /\ FutureTolerance \in Nat
  /\ SaveLag \in Nat
  /\ MaxNow \in Nat
  /\ MaxFaults \in Nat

Flush == Device \X Slot
Owner(f) == f[1]

VARIABLES
  now,         \* the server's clock
  saved,       \* history: every envelope a device has put in its outbox
  nextSeq,     \* nextSeq[d]: the outbox's auto-increment key
  outbox,      \* outbox[d]: queued envelopes
  working,     \* working[d]: records d saved and shows from its working table
  cache,       \* cache[d][r]: the envelopes table, what d holds of r
  cursor,      \* cursor[d]: the sync cursor in meta, 0 when unset
  dropping,    \* dropping[d]: deletes that have yet to leave their note
  dels,        \* dels[d][r]: the 'delete:' entry in meta, 0 when none
  flush,       \* flush[f]: a flush in progress
  latePush,    \* pushed batches whose client has given up on the answer
  lateDelete,  \* DELETE requests whose client has given up on the answer
  faults

clientVars == <<saved, nextSeq, outbox, working, cache, cursor, dropping, dels>>
netVars == <<latePush, lateDelete, faults>>
vars == <<db, now, saved, nextSeq, outbox, working, cache, cursor, dropping, dels,
          flush, latePush, lateDelete, faults>>

-----------------------------------------------------------------------------
(* Data. *)

\* The server prints an envelope's timestamp with RFC3339, in whole seconds.
Seconds(ts) == ts \div TicksPerSecond

Tombstone == [rec: Record, ts: 0..MaxTs]
Change == [rec: Record, gone: BOOLEAN, blob: Blob, sec: Nat]
ChangeOf(r) ==
  [rec |-> r, gone |-> db[r].status = "tombstone",
   blob |-> db[r].blob, sec |-> Seconds(db[r].ts)]

Copy == [blob: Blob, sec: Nat]
NoCopy == [blob |-> Zeroed, sec |-> 0]

FlushState ==
  [pc: {"idle", "drained", "sent", "pushed", "merging", "acked", "deleting"},
   batch: SUBSET Envelope, since: 0..MaxTs,
   page: SUBSET Change, held: SUBSET Change, next: 0..MaxTs,
   todo: SUBSET Tombstone]
NoFlush == [pc |-> "idle", batch |-> {}, since |-> 0,
            page |-> {}, held |-> {}, next |-> 0, todo |-> {}]

Clock(d) == now + Skew[d]
Accepted(ts) == ts <= now + FutureTolerance

\* The server's row already accounts for the envelope: it is in the table or
\* lost to a version at least as new.
Covered(e) ==
  /\ db[e.rec].status # "absent"
  /\ e.rec \in Chat \/ e.ts <= db[e.rec].ts

Init ==
  /\ ServerInit
  /\ now = 1
  /\ saved = {}
  /\ nextSeq = [d \in Device |-> 1]
  /\ outbox = [d \in Device |-> {}]
  /\ working = [d \in Device |-> {}]
  /\ cache = [d \in Device |-> [r \in Record |-> NoCopy]]
  /\ cursor = [d \in Device |-> 0]
  /\ dropping = [d \in Device |-> {}]
  /\ dels = [d \in Device |-> [r \in Record |-> 0]]
  /\ flush = [f \in Flush |-> NoFlush]
  /\ latePush = {}
  /\ lateDelete = {}
  /\ faults = 0

-----------------------------------------------------------------------------
(* The user: saves and deletes. *)

\* saveRecord's last two awaits: the working row, then the outbox row.
Enqueue(d, r, ts) ==
  /\ nextSeq[d] \in Seqs
  /\ ts \in Ts
  /\ LET e == [dev |-> d, seq |-> nextSeq[d], rec |-> r, ts |-> ts] IN
       /\ saved' = saved \cup {e}
       /\ outbox' = [outbox EXCEPT ![d] = @ \cup {e}]
  /\ nextSeq' = [nextSeq EXCEPT ![d] = @ + 1]
  /\ working' = [working EXCEPT ![d] = @ \cup {r}]
  /\ UNCHANGED <<db, now, cache, cursor, dropping, dels, flush>> /\ UNCHANGED netVars

\* A save is stamped before it derives its key, encrypts and waits for the
\* database; a transfer stamps its second leg before it saves the first.
Recent(time, ts) == ts <= time /\ time <= ts + SaveLag

\* A new record has a fresh random id.
Create(d, r) ==
  /\ \A e \in saved : e.rec # r
  /\ \E ts \in Ts : Recent(Clock(d), ts) /\ Enqueue(d, r, ts)

\* The pages list the cached envelopes and the rest of the working table.
Visible(d, r) == cache[d][r].blob # Zeroed \/ r \in working[d]

\* An edit is stamped one millisecond ahead of the device's clock.
Edit(d, r) ==
  /\ Visible(d, r)
  /\ r \notin Chat
  /\ \E ts \in Ts : Recent(Clock(d) + 1, ts) /\ Enqueue(d, r, ts)

\* Delete drops the cached copy and the working row first,
Delete(d, r) ==
  /\ Visible(d, r)
  /\ cache' = [cache EXCEPT ![d][r] = NoCopy]
  /\ working' = [working EXCEPT ![d] = @ \ {r}]
  /\ dropping' = [dropping EXCEPT ![d] = @ \cup {r}]
  /\ UNCHANGED <<db, now, saved, nextSeq, outbox, cursor, dels, flush>> /\ UNCHANGED netVars

\* and then leaves a note for the server, stamped only now.
NoteDelete(d, r) ==
  /\ r \in dropping[d]
  /\ Clock(d) \in Ts
  /\ dropping' = [dropping EXCEPT ![d] = @ \ {r}]
  /\ dels' = [dels EXCEPT ![d][r] = Clock(d)]
  /\ UNCHANGED <<db, now, saved, nextSeq, outbox, working, cache, cursor, flush>>
  /\ UNCHANGED netVars

-----------------------------------------------------------------------------
(* One flush, await by await. *)

Go(f, state) == flush' = [flush EXCEPT ![f] = state]

\* Faulty variant: a full batch is one row short.
IsShortBatch(batch, box) ==
  /\ batch \subseteq box
  /\ Cardinality(batch) = IF Cardinality(box) < BatchLimit THEN Cardinality(box) ELSE BatchLimit - 1
  /\ \A e \in batch, g \in box \ batch : e.seq < g.seq

\* drain: the oldest BatchLimit rows of the outbox.
IsBatch(batch, box) ==
  /\ batch \subseteq box
  /\ Cardinality(batch) = IF Cardinality(box) < BatchLimit THEN Cardinality(box) ELSE BatchLimit
  /\ \A e \in batch, g \in box \ batch : e.seq < g.seq

StartFlush(f) ==
  /\ flush[f].pc = "idle"
  /\ \E batch \in SUBSET outbox[Owner(f)] :
       /\ IsBatch(batch, outbox[Owner(f)])
       /\ Go(f, [NoFlush EXCEPT !.pc = "drained", !.batch = batch])
  /\ UNCHANGED <<db, now>> /\ UNCHANGED clientVars /\ UNCHANGED netVars

\* getCursor, then POST; an empty batch makes it a pull.
Request(f) ==
  /\ flush[f].pc = "drained"
  /\ Go(f, [flush[f] EXCEPT !.pc = "sent", !.since = cursor[Owner(f)]])
  /\ UNCHANGED <<db, now>> /\ UNCHANGED clientVars /\ UNCHANGED netVars

\* handleSync, first half: the push commits.
Commit(f) ==
  /\ flush[f].pc = "sent"
  /\ \A e \in flush[f].batch : Accepted(e.ts)
  /\ PushEnvelopes(flush[f].batch)
  /\ Go(f, [flush[f] EXCEPT !.pc = "pushed"])
  /\ UNCHANGED now /\ UNCHANGED clientVars /\ UNCHANGED netVars

\* One envelope too far in the future rejects the whole array with a 400.
Refuse(f) ==
  /\ flush[f].pc = "sent"
  /\ \E e \in flush[f].batch : ~Accepted(e.ts)
  /\ Go(f, NoFlush)
  /\ UNCHANGED <<db, now>> /\ UNCHANGED clientVars /\ UNCHANGED netVars

\* handleSync, second half: the pull and the answer.  Its cursor is the
\* largest timestamp on the page.
Reply(f) ==
  /\ flush[f].pc = "pushed"
  /\ \E page \in SUBSET Changed(flush[f].since) :
       /\ IsPage(page, flush[f].since)
       /\ \E last \in page :
            /\ \A r \in page : db[r].ts <= db[last].ts
            /\ Go(f, [NoFlush EXCEPT !.pc = "merging", !.batch = flush[f].batch,
                                     !.page = {ChangeOf(r) : r \in page},
                                     !.next = db[last].ts])
  /\ UNCHANGED <<db, now>> /\ UNCHANGED clientVars /\ UNCHANGED netVars

\* Without changes the answer has "changes": null, and the engine's loop
\* over it throws: the flush fails although its push has committed.
ReplyNull(f) ==
  /\ flush[f].pc = "pushed"
  /\ Changed(flush[f].since) = {}
  /\ Go(f, NoFlush)
  /\ UNCHANGED <<db, now>> /\ UNCHANGED clientVars /\ UNCHANGED netVars

-----------------------------------------------------------------------------
(* mergeChange, for one change of the page at a time. *)

Mergeable(f, c) ==
  /\ flush[f].pc = "merging"
  /\ flush[f].held = {}
  /\ c \in flush[f].page

\* A tombstone removes the cached copy and the working row.
MergeTombstone(f, c) ==
  /\ Mergeable(f, c)
  /\ c.gone
  /\ cache' = [cache EXCEPT ![Owner(f)][c.rec] = NoCopy]
  /\ working' = [working EXCEPT ![Owner(f)] = @ \ {c.rec}]
  /\ Go(f, [flush[f] EXCEPT !.page = @ \ {c}])
  /\ UNCHANGED <<db, now, saved, nextSeq, outbox, cursor, dropping, dels>> /\ UNCHANGED netVars

\* Client-side last-writer-wins, on timestamps in whole seconds.
HasAsNew(d, c) == cache[d][c.rec].blob # Zeroed /\ cache[d][c.rec].sec >= c.sec

SkipEnvelope(f, c) ==
  /\ Mergeable(f, c)
  /\ ~c.gone /\ HasAsNew(Owner(f), c)
  /\ Go(f, [flush[f] EXCEPT !.page = @ \ {c}])
  /\ UNCHANGED <<db, now>> /\ UNCHANGED clientVars /\ UNCHANGED netVars

\* The comparison and the put are separate IndexedDB transactions.
ChooseEnvelope(f, c) ==
  /\ Mergeable(f, c)
  /\ ~c.gone /\ ~HasAsNew(Owner(f), c)
  /\ Go(f, [flush[f] EXCEPT !.page = @ \ {c}, !.held = {c}])
  /\ UNCHANGED <<db, now>> /\ UNCHANGED clientVars /\ UNCHANGED netVars

PutEnvelope(f, c) ==
  /\ c \in flush[f].held
  /\ cache' = [cache EXCEPT ![Owner(f)][c.rec] = [blob |-> c.blob, sec |-> c.sec]]
  /\ Go(f, [flush[f] EXCEPT !.held = {}])
  /\ UNCHANGED <<db, now, saved, nextSeq, outbox, working, cursor, dropping, dels>>
  /\ UNCHANGED netVars

PutCursor(f) ==
  /\ flush[f].pc = "merging"
  /\ flush[f].page = {} /\ flush[f].held = {}
  /\ cursor' = [cursor EXCEPT ![Owner(f)] = flush[f].next]
  /\ Go(f, IF flush[f].batch = {} THEN NoFlush ELSE [flush[f] EXCEPT !.pc = "acked", !.next = 0])
  /\ UNCHANGED <<db, now, saved, nextSeq, outbox, working, cache, dropping, dels>>
  /\ UNCHANGED netVars

-----------------------------------------------------------------------------
(* The end of a flush that pushed something. *)

Pending(d) == {x \in Tombstone : x.ts # 0 /\ dels[d][x.rec] = x.ts}

\* Faulty variant: the whole queue is cleared, not the rows that were pushed.
EmptiesOutbox(f) == {}

OutboxAfter(f) == outbox[Owner(f)] \ flush[f].batch

\* removeFlushed, then the list of pending deletes (a separate read of
\* another table, which commutes with everything in between).
RemoveFlushed(f) ==
  /\ flush[f].pc = "acked"
  /\ outbox' = [outbox EXCEPT ![Owner(f)] = OutboxAfter(f)]
  /\ Go(f, [NoFlush EXCEPT !.pc = "deleting", !.todo = Pending(Owner(f))])
  /\ UNCHANGED <<db, now, saved, nextSeq, working, cache, cursor, dropping, dels>>
  /\ UNCHANGED netVars

\* The server's side of one DELETE: a 204, or a 4xx or 5xx that changes nothing.
HandleDelete(x) ==
  IF Accepted(x.ts) /\ Deletable(x.rec, x.ts)
  THEN DeleteRecord(x.rec, x.ts)
  ELSE UNCHANGED db

\* One DELETE round trip.  Whatever the status the call throws: apiFetch
\* throws on a 4xx, and on a 204 parsing its empty body as JSON does.  So
\* clearDelete is never reached and the entry stays in meta.
SendDelete(f, x) ==
  /\ flush[f].pc = "deleting"
  /\ x \in flush[f].todo
  /\ HandleDelete(x)
  /\ Go(f, [flush[f] EXCEPT !.todo = @ \ {x}])
  /\ UNCHANGED now /\ UNCHANGED clientVars /\ UNCHANGED netVars

EndFlush(f) ==
  /\ flush[f].pc = "deleting"
  /\ flush[f].todo = {}
  /\ Go(f, NoFlush)
  /\ UNCHANGED <<db, now>> /\ UNCHANGED clientVars /\ UNCHANGED netVars

-----------------------------------------------------------------------------
(* Failures. *)

\* A request given up on is dropped or handled later; a pull leaves no trace.
Late(batches) == batches \ {{}}

\* The connection breaks before the push is handled, or the server answers
\* 401, 429 or 500: the client's catch ends the flush.
LoseRequest(f) ==
  /\ faults < MaxFaults
  /\ flush[f].pc = "sent"
  /\ latePush' \in {latePush, latePush \cup Late({flush[f].batch})}
  /\ Go(f, NoFlush)
  /\ faults' = faults + 1
  /\ UNCHANGED <<db, now, lateDelete>> /\ UNCHANGED clientVars

\* The answer is lost, or the pull's query fails: the push stays committed.
LoseReply(f) ==
  /\ faults < MaxFaults
  /\ flush[f].pc = "pushed"
  /\ Go(f, NoFlush)
  /\ faults' = faults + 1
  /\ UNCHANGED <<db, now, latePush, lateDelete>> /\ UNCHANGED clientVars

\* A DELETE breaks before it is handled; the loop goes on to the next one.
LoseDelete(f, x) ==
  /\ faults < MaxFaults
  /\ flush[f].pc = "deleting"
  /\ x \in flush[f].todo
  /\ lateDelete' \in {lateDelete, lateDelete \cup {x}}
  /\ Go(f, [flush[f] EXCEPT !.todo = @ \ {x}])
  /\ faults' = faults + 1
  /\ UNCHANGED <<db, now, latePush>> /\ UNCHANGED clientVars

\* The tab reloads or dies between two awaits: the tables stay, the flushes
\* and the deletes in progress are gone, and what the flushes had sent is
\* dropped or handled later.
Reload(d) ==
  /\ faults < MaxFaults
  /\ dropping[d] # {} \/ \E f \in Flush : Owner(f) = d /\ flush[f].pc # "idle"
  /\ dropping' = [dropping EXCEPT ![d] = {}]
  /\ flush' = [f \in Flush |-> IF Owner(f) = d THEN NoFlush ELSE flush[f]]
  /\ latePush' \in {latePush, latePush \cup
       Late({flush[f].batch : f \in {g \in Flush : Owner(g) = d /\ flush[g].pc = "sent"}})}
  /\ faults' = faults + 1
  /\ UNCHANGED <<db, now, saved, nextSeq, outbox, working, cache, cursor, dels, lateDelete>>

ArriveLate(batch) ==
  /\ batch \in latePush
  /\ latePush' = latePush \ {batch}
  /\ IF \A e \in batch : Accepted(e.ts) THEN PushEnvelopes(batch) ELSE UNCHANGED db
  /\ UNCHANGED <<now, flush, lateDelete, faults>> /\ UNCHANGED clientVars

DeleteLate(x) ==
  /\ x \in lateDelete
  /\ lateDelete' = lateDelete \ {x}
  /\ HandleDelete(x)
  /\ UNCHANGED <<now, flush, latePush, faults>> /\ UNCHANGED clientVars

Tick ==
  /\ now < MaxNow
  /\ now' = now + 1
  /\ UNCHANGED <<db, flush>> /\ UNCHANGED clientVars /\ UNCHANGED netVars

-----------------------------------------------------------------------------
(* The system. *)

UserStep(d) ==
  \E r \in Record : Create(d, r) \/ Edit(d, r) \/ Delete(d, r) \/ NoteDelete(d, r)

MergeStep(f) ==
  \/ \E c \in flush[f].page :
       MergeTombstone(f, c) \/ SkipEnvelope(f, c) \/ ChooseEnvelope(f, c)
  \/ \E c \in flush[f].held : PutEnvelope(f, c)
  \/ PutCursor(f)

FlushStep(f) ==
  \/ StartFlush(f) \/ Request(f)
  \/ Commit(f) \/ Refuse(f) \/ Reply(f) \/ ReplyNull(f)
  \/ MergeStep(f)
  \/ RemoveFlushed(f)
  \/ \E x \in flush[f].todo : SendDelete(f, x)
  \/ EndFlush(f)

FaultStep ==
  \/ \E f \in Flush : LoseRequest(f) \/ LoseReply(f) \/ \E x \in flush[f].todo : LoseDelete(f, x)
  \/ \E d \in Device : Reload(d)
  \/ \E batch \in latePush : ArriveLate(batch)
  \/ \E x \in lateDelete : DeleteLate(x)

Next ==
  \/ \E d \in Device : UserStep(d)
  \/ \E f \in Flush : FlushStep(f)
  \/ FaultStep
  \/ Tick

Spec == Init /\ [][Next]_vars

(***************************************************************************)
(* Fairness.  The interval timer keeps starting flushes while the tab is   *)
(* open, an await on IndexedDB completes, the server handles what reaches  *)
(* it and time passes.  Users and failures owe nothing; there are at most  *)
(* MaxFaults failures, so the network is eventually good.                  *)
(***************************************************************************)
FairSpec ==
  /\ Spec
  /\ \A f \in Flush : WF_vars(FlushStep(f))
  /\ \A d \in Device, r \in Record : WF_vars(NoteDelete(d, r))
  /\ WF_vars(Tick)

-----------------------------------------------------------------------------
(* Properties. *)

TypeOK ==
  /\ ServerTypeOK
  /\ now \in Nat
  /\ saved \in SUBSET Envelope
  /\ nextSeq \in [Device -> Nat]
  /\ outbox \in [Device -> SUBSET Envelope]
  /\ working \in [Device -> SUBSET Record]
  /\ cache \in [Device -> [Record -> Copy]]
  /\ cursor \in [Device -> 0..MaxTs]
  /\ dropping \in [Device -> SUBSET Record]
  /\ dels \in [Device -> [Record -> 0..MaxTs]]
  /\ flush \in [Flush -> FlushState]
  /\ latePush \in SUBSET (SUBSET Envelope)
  /\ lateDelete \in SUBSET Tombstone
  /\ faults \in Nat

\* A saved envelope leaves its device's outbox only once the server's row
\* accounts for it: overlapping flushes, lost answers, requests handled after
\* the client gave up and reloads between any two awaits lose no write
\* (outbox.ts; engine.ts removes the batch after the merge).
NoLostWrite == \A e \in saved : e \in outbox[e.dev] \/ Covered(e)

Committed(r, blob, sec) ==
  \E e \in saved : e.rec = r /\ BlobOf(e) = blob /\ Seconds(e.ts) = sec /\ Covered(e)

\* What a device caches is an envelope some device saved for that record, at
\* its timestamp, and one the server has committed: no page built beside a
\* concurrent push, delete or retry puts anything else there (handleSync's
\* push and pull are separate statements; mergeChange).
CachedIsCommitted ==
  \A d \in Device, r \in Record :
    cache[d][r].blob # Zeroed => Committed(r, cache[d][r].blob, cache[d][r].sec)

\* A device gives up a cached copy only because its user deletes the record or
\* because the record is tombstoned on the server at that very moment, however
\* old the page it merges: tombstones are final (DeleteRecord, mergeChange).
CopiesGoOnlyWhenDeleted ==
  [][\A d \in Device, r \in Record :
       (cache[d][r].blob # Zeroed /\ cache'[d][r].blob = Zeroed)
         => \/ db[r].status = "tombstone"
            \/ r \in dropping'[d]]_vars

\* A cursor never runs ahead of the tables: some row is at least as new, so
\* no later version of that row can hide behind the cursor (PullChanges'
\* maxTS, the cursor put of flush and pull).
CursorWithinTables ==
  \A d \in Device : cursor[d] # 0 => \E r \in Record : cursor[d] <= db[r].ts

\* Every saved envelope reaches the server: the interval's flushes, each
\* failed one retried, get it there whatever happens to the answers (flush of
\* engine.ts).  True of a queue that fits in one batch; a full batch that
\* cannot leave the outbox keeps the rows behind it from ever being drained.
EverySaveArrives == []<>(\A e \in saved : Covered(e))

-----------------------------------------------------------------------------
(* The inductive invariant behind NoLostWrite, CachedIsCommitted and       *)
(* CopiesGoOnlyWhenDeleted.                                                *)

SavedOnce ==
  \A e \in saved : /\ e.seq < nextSeq[e.dev]
                  /\ \A g \in saved : BlobOf(e) = BlobOf(g) => e = g

SavedBy(batch, d) == \A e \in batch : e \in saved /\ e.dev = d

QueuesAreSaved ==
  /\ \A d \in Device : SavedBy(outbox[d], d)
  /\ \A batch \in latePush : \E d \in Device : SavedBy(batch, d)

RowsAreSaved ==
  \A r \in Record :
    /\ db[r].status = "live" => db[r].blob # Zeroed
    /\ db[r].blob # Zeroed =>
         /\ db[r].status # "absent"
         /\ \E e \in saved : e.rec = r /\ BlobOf(e) = db[r].blob /\ e.ts = db[r].ts

\* A change on a page is a tombstone still there or a committed envelope.
GoodChange(c) ==
  /\ c.blob # Zeroed => Committed(c.rec, c.blob, c.sec)
  /\ IF c.gone THEN db[c.rec].status = "tombstone" ELSE c.blob # Zeroed

PushDone == {"pushed", "merging", "acked"}

\* What f sends its device has saved, and once the push is done the server
\* accounts for it.
GoodFlush(f) ==
  /\ SavedBy(flush[f].batch, Owner(f))
  /\ flush[f].pc \in PushDone => \A e \in flush[f].batch : Covered(e)
  /\ \A c \in flush[f].page \cup flush[f].held : GoodChange(c)

SyncInv ==
  /\ TypeOK
  /\ SavedOnce
  /\ QueuesAreSaved
  /\ RowsAreSaved
  /\ \A f \in Flush : GoodFlush(f)
  /\ NoLostWrite
  /\ CachedIsCommitted
=============================================================================

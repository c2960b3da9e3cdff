# Formal verification of fincrypt

TLA+ models of fincrypt, TLC runs that check them on small instances, and
TLAPS proofs of their most important properties for every instance. The models
are translated from the Go and TypeScript sources; `PROJECT.json` gives, for
every definition, the lines it stands for.

- [The system](#the-system)
- [The modules](#the-modules)
- [What the runs check](#what-the-runs-check)
- [Where the code and its documents disagree](#where-the-code-and-its-documents-disagree)
- [What is proved](#what-is-proved)
- [What is not modelled](#what-is-not-modelled)
- [Plan](#plan)

## The system

fincrypt keeps a household's accounts and transactions end-to-end encrypted. A
browser client encrypts every record, keeps ciphertext in IndexedDB and syncs
it through a Go server that stores opaque rows in PostgreSQL. The server never
sees plaintext; it decides between versions by timestamp alone.

| Component | State it keeps | Operations | What makes it correct | Module |
|---|---|---|---|---|
| Record tables, `internal/db/sync.go`, `db/migrations` | one row per record: blob, `updated_at`, `deleted_at` | `PushEnvelopes`, `DeleteRecord`, `PullChanges` | rows only advance; a replay changes nothing; deletion is final; a pull misses nothing | `SyncServer` |
| Sync endpoints, `internal/api/sync.go`, `envelope.go` | none | `handleSync` (push, then pull), `handleDelete` | a batch is accepted or refused as a whole | `SyncSystem` |
| Sync engine, `web/src/sync/engine.ts` | the flushes in progress, the timer | `flush`, `pull`, `flushDeletes`, `startSync` | no write is lost; every write arrives; whatever overlaps | `SyncSystem` |
| Outbox, `outbox.ts` | tables `outbox` and `meta` (`delete:` notes) | `enqueue`, `drain`, `removeFlushed`, `pendingDeletes`, `clearDelete` | a row leaves only when the server has it | `SyncSystem` |
| Merge, `merge.ts` | table `envelopes` | `mergeChange` | the cache holds committed versions and never goes back | `SyncSystem` |
| Data layer, `domain/store.ts` | table `working`, search index | `saveRecord`, `deleteRecord`, `loadWorking`, `beginSync`, `endSync` | a save or delete reaches the outbox; plaintext is gone after lock | `SyncSystem`, `Workspace`, `Pages` |
| Key store, `stores/sessionKeys.ts` | data key, subkey cache | unlock (two ways), `getSubkey`, `lock` | rows are sealed with one user's key; no key survives a lock | `Workspace` |
| Search index, `cache/search.ts` | an index in memory | build, clear, query | holds what the unlocked user may see | `Workspace` |
| Pages, `web/src/pages` | form, list | create, edit, archive, transfer, delete | both legs of a transfer live and die together; the list is the working set | `Pages`, `SyncSystem` |
| Summaries, `domain/summaries.ts` | none | per category, per month, per budget | the three agree with each other | `Summaries` |
| Auth, `internal/auth/service.go`, `api/auth.go`, `stores/authStore.ts` | pending logins, users, client status | register and login in two steps, refresh, logout | a finish matches its own start; one account's material | `Auth` |
| Sessions, `internal/api/session.go` | two signing keys, stateless tokens | issue, verify, clear | a token is accepted until it expires or its key is gone | `Auth` |
| Key lifecycle, `crypto/lifecycle.ts`, `recovery.ts` | the two wraps of the data key | change passphrase, recover, rotate phrase | passphrase and phrase keep opening the same key | `Keyring` |
| Vault, `internal/api/vault.go` | a blob and its version | get, put with If-Match | no lost update | `Vault` |
| Rate limits, `ratelimit.go` | buckets by key | `allow`, sweep | bounded rate | `RateLimit` |
| Migrations and boot, `internal/db/migrate.go`, `cmd/server` | ledger table, advisory lock | `Migrate`, serve, drain | each file applied once, in order, across replicas and crashes | `Boot`, `Backend` |
| API client, `api/client.ts` | none | `apiFetch` | an answer means what the caller takes it for | in its callers' modules |
| Attachments, audit log, crypto, idle timer, UI | - | - | rows of their own, library calls, rendering | not modelled |

**How they interact.** A page calls `saveRecord`: the record is encrypted, put
in `working`, queued in `outbox`, and a flush starts. A flush drains up to 500
rows, POSTs them with the cursor, and the server upserts them in one
transaction; a second statement pulls the rows after the cursor, up to 500. The
client merges each change into `envelopes`, stores the new cursor, removes the
batch from the outbox and sends the pending deletes. Deletes drop the cached
copy, leave a note in `meta` and start a flush too.

A login gives the key store the data key; from then on saves and loads read it,
await WebCrypto and IndexedDB, and write. A lock clears the keys at once and
the working set some awaits later. The tables of IndexedDB belong to the
browser: every tab, and every user who signs in, shares them, as all tabs share
the session cookie. On the server side any number of replicas run the same
handlers over one database, each with its own parked logins and rate limits; a
replica migrates the database before it serves.

**What is hard.** Nothing serialises flushes: the 15-second interval, the
`online` event, every save, every delete and every page load start one, and
each is a chain of awaits over tables that the others also read and write.
Requests and answers get lost, are handled late and are retried; tabs reload in
the middle. Versions are ordered by clocks of devices that disagree. Keys are
read before an await and used after it, while the user locks or another user
signs in. A login is two requests with a parked state between them that a second
login replaces, a reaper expires and a restart forgets. A vault write is up to
three transactions. Replicas with different images boot at once and die between
any two statements. The `hazards` of `PROJECT.json` list each of these at the
line where it bites.

## The modules

| Module | What it is |
|---|---|
| `SyncServer` | The record tables of one account: push, delete, pull. Its own specification lets any well-formed request arrive at any time. |
| `SyncSystem` | EXTENDS `SyncServer`: devices with their IndexedDB tables, flushes await by await, requests in transit, failures, clocks. |
| `SyncClaims` | What comments and documents of the repository say of syncing and the code does not do. |
| `Ledger`, `SyncRefinement` | Abstract specification, one last-writer-wins register per record, and the mapping from `SyncSystem` to it. |
| `Workspace` | What one tab holds in the clear: key store, working table, search index, the calls of the data layer across their awaits, several users in turn. |
| `Auth` | Registration, login, session cookie, refresh and logout, for several tabs of one browser and a server that restarts. |
| `Keyring` | Passphrase change, phrase rotation and recovery: which secret opens which wrap. |
| `Pages` | The transactions page over the data layer: form, transfer, delete, reloads, several handlers at once. |
| `Summaries` | The summaries as operators on a list of transactions; `Pages` EXTENDS it. |
| `RateLimit`, `Vault` | A token bucket as operators, and GET and PUT of the vault statement by statement. |
| `VersionedBlob` | Abstract specification of the vault: one cell with a version, written by compare-and-swap. |
| `Boot` | Replicas booting different images over one database: advisory lock, ledger, transactions, drain, death. |
| `Backend` | `Boot` and `Vault` composed: requests run on replicas that serve. |
| `MC...` | The TLC instances: constants, symmetry sets, inputs. |
| `...Proofs` | The theorems of the module they are named after; `BackendProofs` has those of `Vault` and `Boot` too, `SyncSystemProofs` the refinement of `Ledger`. |

### SyncServer

`db[r]` is the row of record `r`: absent, live or tombstone, a blob and a
timestamp. A blob is named by the save that encrypted it (device and outbox
sequence number), since every save draws a fresh nonce; `Zeroed` is the
one-byte blob a delete writes. `Chat` is the set of record ids of the
append-only table.

- `PushEnvelopes(batch)` is the whole transaction. Every upsert takes the row's
  lock, even one its WHERE clause rejects, so two pushes are serializable. The
  loop over the array is written in closed form (`Applied`, `Upserted`): an
  envelope takes effect when it is newer than the stored row and than every
  earlier envelope of its record, and the last such one stays. `BatchIsALoop`
  compares it with the loop itself, one `UpsertOne` after the other (`LoopOver`).
- `DeleteRecord` is the guarded UPDATE. For a chat row the statement fails (the
  table has neither column), so `Deletable` is false.
- `IsPage` says which sets of rows a pull may return. The query orders by its
  third column, the blob. Ciphertexts start with a random nonce, so their order
  is arbitrary; a one-byte blob `\x00` sorts before every ciphertext (whose
  first byte may be zero too, but which is longer).

Transactions that overlap may also deadlock in PostgreSQL when they lock the
same rows in different orders; one then aborts with a 500, which for the client
is a failed request (`LoseRequest`).

### SyncSystem

| State | In the code |
|---|---|
| `outbox[d]`, `nextSeq[d]` | table `outbox`, its auto-increment key |
| `cache[d][r]`, `working[d]` | tables `envelopes` and `working` (which records it holds) |
| `cursor[d]`, `dels[d][r]` | rows `cursor` and `delete:...` of table `meta` |
| `dropping[d]` | calls of `deleteRecord` between dropping the copy and leaving the note |
| `flush[f]` | a call of `flush` in progress: where it is, its batch, the cursor it sent, the changes left to merge, the deletes left to send |
| `latePush`, `lateDelete` | requests whose client gave up on them but which the server may still handle |
| `now`, `Skew` | the server's clock and how far ahead each device's is |
| `saved` | history: everything ever queued |

The actions follow `flush` from one await to the next: `StartFlush` (drain),
`Request` (read the cursor, POST), `Commit` or `Refuse` on the server, `Reply`
or `ReplyNull`, then for each change `MergeTombstone`, `SkipEnvelope`, or
`ChooseEnvelope` and `PutEnvelope`, then `PutCursor`, `RemoveFlushed`,
`SendDelete` for each noted delete, `EndFlush`. An empty batch is `pull`: the
same steps, ending after `PutCursor`. `Create`, `Edit`, `Delete` and
`NoteDelete` are the user; `LoseRequest`, `LoseReply`, `LoseDelete`, `Reload`,
`ArriveLate` and `DeleteLate` are failures.

Modelling decisions:

- The changes of a page are merged in any order. The code merges in page order,
  which is by blob, hence arbitrary for envelopes; records on a page are
  distinct, so the order does not matter to one flush.
- Timestamps have millisecond resolution on the clients; a tick is a
  millisecond and `TicksPerSecond` ticks make the second that the answer's
  timestamps are cut to. Everything a device stamps lies within `SaveLag` of
  its clock (a save is stamped before it encrypts; the second leg of a transfer
  before the first is saved); an edit is stamped one millisecond ahead.
- `Visible` says which records a page can offer to edit or delete: cached ones
  and those in `working`. Locking empties `working`, which only takes choices
  away from the user, so it is left out here. An edit started on a row that is
  removed before it is saved needs the page's own stale list: see `Pages`.
- A request that the client gave up on is either dropped or handled at any later
  time (`latePush`, `lateDelete`). Equal batches given up on twice are one.
- `MaxSaves`, `MaxTs`, `MaxNow`, `MaxFaults` and the number of `Slot`s are
  bounds, each a guard; all of them are arbitrary in the proofs.

### Ledger and its implementation

A register is unwritten, holds a saved version, or is erased. It takes only
saved versions, only newer ones (a chat register only its first) and stays
erased once erased. The mapping reads a live row as the version its blob and
timestamp name, and a tombstone as erased: what a push writes into a tombstone
is invisible.

### Workspace

One tab, and the users who sign in to it in turn. A data key, and a subkey
derived from it, is named by its user; a sealed row by the user in its AAD and
the user whose key sealed it.

| State | In the code |
|---|---|
| `ks` | the keystore of `sessionKeys.ts`: `userId`, `recordUserId`, the data key, the cached subkey, and by which unlock it came |
| `call[c]` | a call in progress across its awaits: an unlock, `getSubkey`, `saveRecord`, `loadWorking`, `beginSync` |
| `teardown` | the `endSync` calls that past locks have begun: still importing the data layer, or clearing the tables |
| `working`, `envelopes`, `outbox` | the IndexedDB tables, shared by all users of the browser |
| `index` | the search index in memory |
| `tainted` | history: a call overlapped a lock or a change of users, or the page reloaded over a filled working table |

`Lock` empties the keystore at once; its `endSync` drops the index and then
clears the working table in later steps, since `lock` imports the data layer
first. An unlock sets the keystore after its derivation whatever has happened
meanwhile, and `CacheSubkey` writes back what `getSubkey` derived before its
await. `tainted` states a precondition, not a wish: the code has no guard
against these overlaps, and `CleanUnlessOverlapped` says what it does keep and
that a lock in peace restores it. Flushes appear
as `Merge` and `Push` only.

### Auth

The tabs of one browser, which share the cookie, and one server process with
its parked logins. A *try* names all that is random in one registration or
login, so that "the MAC of this start" and "the data key of this registration"
are values. One round trip is one step: `StartKnown` is `login/start`,
`LoginFinish` or `LoginRefused` is `login/finish`, `IdentityEcho` is
`GET /api/auth/me`, and `Unlock` the end of the key derivation, which the store
does not await before the forms can be used again. What can be lost (an answer,
or the request) is a step or a disjunct of its own. `Restart` forgets parked
logins and may bring a new signing key; `Reap` is the reaper. `rival` remembers
that another login of the account, or a restart, came between start and finish.

### Keyring

The key fields of each user (`salt`, parameters, the two wraps) and the flows
that devices run on fields they have read. No endpoint stores the result of a
flow yet, so `Fetch`, `StoreChange` and `StoreRotation` are external: they put
back exactly the fields the flow returns, and the interleavings of devices are
those that such a store would allow. The code's part is which fields a flow
reads, verifies, makes anew and leaves alone. A wrap opens under the key, user and
kind it was made with, which is what AES-GCM with its AAD guarantees.

### Summaries and Pages

`Pages` has the form, and handlers (`save`, `delete`, `load`) that go through
`saveRecord`, `deleteRecord` and `loadWorking` await by await, several at once,
because the buttons stay enabled. `SubmitPlan` is what a submit really saves:
the rows of the form's own `submit`, and then what `onSave` saves again. A
reload takes three steps: `Read` what is cached, `Collect` it and what is only
in the working set, and `Show` the list once the accounts are there too. Another
reload may do the same in between, so the list shown last need not be the one
read last; `overlapped` is the history that tells. The sync is one step here
(`Flush`), since `SyncSystem` takes it apart. The puts of one reload
(`store.ts:106`) are one step, and a save, delete or load that throws half way is
modelled only as a reload of the page.

`Summaries` has no state: its operators are functions of a list of transactions,
a set of rows `[rec, data]`, and `Pages` says that they agree on what it lists.
Outflows and inflows are sums over subsets of a list; its order does not matter
to them. Amounts are integers here; in the code they are JavaScript numbers, whose
sums may round when amounts have cents.

### RateLimit, Vault and VersionedBlob

A PUT runs up to three statements, each a transaction of its own: the guarded
UPDATE, a SELECT to find out why it matched nothing, an INSERT. Requests of
several devices on several processes interleave between them; answers are given
up on, statements fail, processes die. `written` is the history of versions, `hits` of
the calls each process let through since it started.
`VersionedBlob` promises one cell that is written by compare-and-swap and of
which every answer tells the truth; `VaultIsOneCell` is the refinement. No
client in `web/src` calls the endpoint, so the devices (`Seal`, `Get`, `Put`,
`GiveUp`) are external and do what If-Match is made for.

The sweep of `allow` deletes buckets with more tokens than their burst. No
bucket ever has, so nothing is ever deleted, and the sweep is no step.

### Boot and Backend

`Boot` follows `main`: take the advisory lock, then for each file of the image
compare the ledger, begin, execute, record, commit; then serve, drain, exit. An
uncommitted transaction is state of its replica alone. A file that has changed
since it was recorded makes the boot end (`edited`); `clashed` is an error from
a second application of the same file, which never happens
(`BootsDoNotClash`). Files are identified by their place in the list, and every
image carries the first few of the files that exist: the repository's convention
that migrations are numbered and append-only. The code finds ledger rows by file
name and does not enforce it; an image that skips, renames or reorders files is not
modelled. In `Backend` a request starts on a replica that serves and
ends with it; `Process = Replica` is an assumption there.

## What the runs check

Runs that pass:

| Run | Instance | Shows |
|---|---|---|
| `server` | 2 devices, an LWW record and a chat record, 3 timestamps, batches of up to 2 | `RowsOnlyAdvance`, `ReplayIsNoOp`, `TieFreePushesCommute`, `BatchIsALoop` |
| `two_devices` | 2 devices, an LWW record and a chat record, 1 save each, pages of 1, time passes, 1 failure | `NoLostWrite`, `CursorWithinTables`, `LedgerSpec`, `TypeOK` |
| `overlap` | 1 device, 2 overlapping flushes, 2 saves with timestamps up to a tick old, 2 ticks to a second, 1 failure | `NoLostWrite`, `CachedIsCommitted`, `CopiesGoOnlyWhenDeleted` |
| `arrival` | 2 devices, one clock ahead and no tolerance, 2 saves each, 1 failure, fair | `EverySaveArrives` |
| `auth` | 2 tabs, 2 emails, 2 passphrases, 2 tries each, a pending TTL of 1 tick and a session TTL of 2, clock up to 2, 3 signing keys one after the other | `SessionsFollowTheirStart`, `KeystoreOfOneAccount`, `PhraseShownIsStored`, `RefusedOnlyForAReason`, `RotationKeepsSessions`, `TypeOK` |
| `workspace` | 2 users, a record of one of them, 2 calls at once, 1 queued row | `RowsSealedForOneUser`, `CleanUnlessOverlapped`, `TypeOK` |
| `backend` | 2 replicas and 3 images (one file, two files, an edited file), 1 boot each, 1 death; 2 devices with 1 blob each, 2 requests at once, 1 lost answer, clock up to 2, bursts of 1 | `NoLostUpdate`, `StoredOnce`, `KnownIsStored`, `VaultIsOneCell`, `LedgerIsSchema`, `ServesOnItsSchema`, `BootsDoNotClash`, `RequestsRunOnServers`, `BurstIsBounded`, `BootsEnd`, `TypeOK` |
| `pages` | 4 records, 2 clicks, 2 handlers at once, a delete from elsewhere or a reload of the page; an outflow without a category and an inflow whose category is typed as the empty one is shown, in one month | `LegsAreOpposite`, `QuietPageListsAll`, `SummariesAddUp`, `BudgetsFollowCategories`, `TypeOK` |
| `keyring` | 2 users, 2 devices, 2 passphrases and the empty one, 2 phrases and a garbled one, 2 changes per user | `PassphraseOpensWrap`, `RecoveryWrapHasAnOpener`, `TypeOK` |

`MCDeletes.cfg` is one more instance that passes: `CopiesGoOnlyWhenDeleted`
with two devices.

Why the bounds are enough. In the sync runs the rules compare one row with one
envelope, one cached copy with one change, and one batch with the queue it was
drained from, so two versions of one record, from one or two devices, already
give every outcome; two overlapping flushes give every interleaving of a pair
of steps; one failure at any step, with a late request, gives a replay after a
newer version. Pages and batches of one row make "more than fits" happen with
two. In `auth` a race is between two logins of one account or of two accounts,
with each time limit crossed once; in `workspace` between two calls and a lock
or another user; in `backend` between two PUTs, or two boots and one death at
any statement, with an image that extends and one that contradicts the other;
in `pages` between two handlers of one page (four records are two plain entries,
or a transfer and the edit of a leg; two transfers at once need six, and lists
over several months more kinds of entries: both are left to the proofs); in `keyring` between two flows that read the same fields.
The proofs remove these bounds for the safety properties.

Symmetry is used under safety properties, and in `backend` under `BootsEnd`
too: there only devices and slots are permuted, which neither that formula nor
the fairness tells apart; the replicas, which they name, are not. No run checks
deadlock except `keyring`, in which a device can always read again: elsewhere
the counters reach their bounds and the instance simply has nothing left to do,
or flushes and locks go on for ever and the question would say nothing.

**Fairness.** `FairSpec` of `SyncSystem`, for `arrival` and `blocked_queue`:
weak fairness of each flush, since the interval keeps starting flushes while the
tab is open (`engine.ts`, `startSync`; `attempts` never slows it down), an await
on IndexedDB completes, and the server handles what reaches it. Weak fairness of
`NoteDelete`, an await too, and of `Tick`. Users and failures owe nothing, and
there are finitely many failures: from some point on the network is good, the
session valid and the tab open. Nothing is assumed about which change is merged
or which page is returned.

`Backend`, for `BootsEnd`: weak fairness of the next statement of a replica
that is migrating. The statement is sent as soon as the one before has
returned, and PostgreSQL grants the lock once it is free, which the holder's
own progress, or the end of its session when it dies, brings about. Nothing is
assumed of starts, drains, deaths, or the devices.

**Each property can fail.** For every property of every passing run,
`PROJECT.json` names a faulty variant of a definition (a dropped WHERE clause,
`<>` for `<`, a push that revives tombstones, a queue that is emptied instead
of trimmed, an unguarded update, a lock that outlives its session, a cache that
survives a lock), kept beside the definition it replaces, under which TLC finds
the property violated.

## Where the code and its documents disagree

Three runs end with a counterexample to something the repository says of
itself, each with an effect the user sees:

| Run | Claim | What happens |
|---|---|---|
| `blocked_queue` | outbox.ts:3, engine.ts:44: nothing is lost, rows are retried | When the rows that cannot go fill a batch (500), everything queued behind them is never pushed. The counterexample has batches of one: a push that leaves nothing to pull is answered `"changes": null`, and the loop over it throws before `removeFlushed`. |
| `logout` | authStore.test.ts:187: logout lands anonymous and clears the keystore | The 204 has no body to parse, so `apiFetch` throws before the store is reset; and no path of logout locks the keystore. The test's mocked answer hides both. |
| `transfers` | TransactionsPage.tsx:4: a transfer creates two linked rows | `submit` saves the two legs and then calls `props.onSubmit`, which saves the form again as a third row in no group; a plain entry is saved twice. |

`EverySaveArrives` appears twice: it holds while the queue fits in one batch
(`arrival`), and fails beyond (`blocked_queue`).

More claims fail the same way. Their configurations are kept, and TLC ends each
with a counterexample:

| Configuration | Claim | What happens |
|---|---|---|
| `MCPageOrder.cfg` (`PagesAreKeyset`) | db/sync.go:180: pages are ordered by (updated_at, id) | `order by 3` is the blob; with more than a page of changes the cursor skips rows. |
| `MCSeconds.cfg` (`SkipsOnlyOlder`) | merge.ts:2: strictly greater timestamp wins | Two edits within a second look equal to the client, which keeps the older for ever. |
| `MCRace.cfg` (`CacheNeverGoesBack`) | merge.ts:2, over time | Two flushes compare, then put; the older put comes last. |
| `MCLatePush.cfg` (`CursorSkipsNothing`) | README.md:12: data syncs across devices | An offline device's save arrives with a timestamp that other cursors have passed; they never see it. |
| `MCIdleDelete.cfg` (`NotedDeletesArrive`) | outbox.ts:39: the delete is flushed in `flush()` | With an empty outbox `flush` is a pull and sends no deletes. |
| `MCStuckDelete.cfg` (`DoneDeletesAreCleared`) | outbox.ts:71: the note goes after its DELETE | The 204 has no JSON body, so `apiFetch` throws before `clearDelete`. |
| `MCPlaintext.cfg` (`LockedLeavesNoPlaintext`) | cache/db.ts:2: the working set is cleared on lock and does not persist across reloads | It is an IndexedDB table: a reload keeps it, and a call that overlaps a lock puts rows back. |
| `MCStaleList.cfg` (`SavedRowsAreSurfaced`) | store.ts:110: rows saved and not yet in `envelopes` are surfaced too | `reload` awaits the accounts between reading its list and showing it, and two reloads may overlap. When the older one ends last, the page misses a saved row until something else reloads it. |
| `MCOfflineEdit.cfg` (`QueuedEditsAreSurfaced`) | store.ts:110, of edits | `loadWorking` puts the cached, older version over the edited row (`store.ts:106`). Offline, the edit is gone from the page until it has been pushed and pulled again. |
| `MCLoneLeg.cfg` (`DeletingTakesThePair`) | TransactionsPage.tsx:78: both legs share `transfer_group`, deleting one flags the pair | An edited leg is saved in no group (`TransactionsPage.tsx:278`), so deleting one leg no longer finds the other. |
| `MCOldSubkey.cfg` (`LockedKeysAreGone`) | sessionKeys.test.ts:49: after a lock the keys are gone | A `getSubkey` that awaits its derivation writes the subkey back after the lock. Nothing in the application calls it. |
| `MCRecoveryWrap.cfg` (`PhraseOpensRecovery`) | crypto/API.md:21: a change of passphrase wraps again under the recovery key | It wraps the recovery copy under the new passphrase key (`lifecycle.ts:72`), so the phrase opens it no more until it is rotated, which needs the phrase. |

The first six are checked with module `MCSyncSystem`, the others with
`MCWorkspace`, `MCPages` and `MCKeyring`.

Where these claims fail, the properties that do hold say less. Read them with
these limits:

- `CursorWithinTables` bounds a cursor from above. It says nothing of the rows
  that a page or a late push leaves behind the cursor (`MCPageOrder`, `MCLatePush`).
- `CleanUnlessOverlapped` leaves out, by `tainted`, the calls that overlap a lock
  or a change of users (`MCPlaintext`, `MCOldSubkey`), and says that the next
  lock in peace undoes them.
- `LegsAreOpposite` accepts a lone leg and an ungrouped third row (`MCLoneLeg`,
  `transfers`): it says that no edit, retry or double submit makes the rows of
  one group disagree.
- `QuietPageListsAll` is about the working set, which an offline edit may
  already have left (`MCOfflineEdit`), and leaves out two reloads that overlap
  (`MCStaleList`).
- `RecoveryWrapHasAnOpener` accepts the passphrase key as the opener
  (`MCRecoveryWrap`): it says that the recovery wrap is of the user's key and
  that something the user has opens it.

Also seen while modelling:

- `docs/THREAT_MODEL.md:110` names a `max(record_id)` tie-break. Versions of one
  record share their id, and nothing breaks a tie: of two pushes with equal
  timestamps the first to arrive stays. `TieFreePushesCommute` is therefore
  stated without ties.
- The upserts of a push conflict on the record id alone (`internal/db/sync.go:82`,
  `103`), not on id and user. The ids are UUIDs drawn by the clients, and
  `SyncServer` assumes that no two accounts use the same one.
- An upsert never resets `deleted_at` (`internal/db/sync.go:82`): a write newer
  than a delete loses if it arrives after the delete and wins if it arrives
  before. Its ciphertext is stored in the tombstone, whose blob
  `001_initial_schema.sql:48` says is zeroed.
- A delete with the live row's own timestamp is applied (`<=` at
  `internal/db/sync.go:172`); the comment at line 158 says it is a no-op.
- A tombstone older than a device's cursor never surfaces there
  (`internal/db/sync.go:169`, comment at 44): `MCLatePush` for a delete. This
  happens even on the device that deleted, when a merge brings the record back
  before its DELETE is sent.
- A GET of a vault that has no row is a 500: `vault.go:37` compares with a
  sentinel of its own that the driver never returns, so the branch commented
  "fresh user: empty vault at version 0" is dead. `Get` has the 500. Two first
  PUTs at once both reach the INSERT, and the loser gets a 500 instead of a 409.
- A full bucket and what it earns meanwhile allow up to twice `perMinute`, less
  one, within a minute; `session.go:185` says 10 per minute and address.
  `BurstIsBounded` is the exact bound.
- `auth.go:5` says every mutation checks the CSRF header; the route of logout
  is not wrapped.
- The comment on `endSync` (`store.ts:197`) says it stops the loop; it does not,
  so flushes go on after a lock (`Merge` and `Push` of `Workspace`).
- A stale `login/finish` pops the entry of a newer start before it compares the
  MAC, so it takes the newer login down with it (`LoginRefused`).

## What is proved

All theorems hold for every value of the constants: every set of devices,
records, tabs, users, replicas and images, every number of overlapping flushes,
calls and requests, every limit, skew and bound. The theorems are listed in
`PROJECT.json`. The assumptions are those named in the modules
(`ServerAssumption`, `SystemAssumption`, `RefinementAssumption`,
`AuthAssumption`, `WorkspaceAssumption`, `PagesAssumption`, `BurstAssumption`,
`VaultAssumption`, `BootAssumption`, `BackendAssumption`, `KeyringAssumption`): bounds and limits
are naturals, positive where zero makes no sense, and values that stand for
"nothing" are none of the things they are told apart from. TLC evaluates each.

`SyncServerProofs`: `ServerTypeCorrect`, `RowsAdvance`, `ReplayChangesNothing`,
`TieFreePushesLeaveTheSame`, `PushIsALoop`. A batch is a finite set of
naturals-indexed envelopes, so the envelopes that take effect have a last one
(`LastOfIsLast`, from the least-number principle); the rest is by cases on whether any envelope
takes effect. For commutation, both orders are shown to settle on the same row:
the stored one or the batch's newest, which is unique without ties
(`PushesSettle`, `SettledIsUnique`). `PushIsALoop` goes along the array:
`UpsertedOneMore` adds one envelope to the closed form, and the shortest prefix on
which loop and closed form differ would contradict it (`LoopIs`).

`SyncSystemProofs`: `TypeCorrect`, `InvHolds`, `NoWriteIsLost`,
`CachesAreCommitted`, `CopiesGoWhenDeleted`, `CursorsStayWithin`. `NoLostWrite`
is not inductive: whether a row may leave the outbox depends on what the flush that removes it
has pushed. The inductive invariant `SyncInv` adds

- `SavedOnce`: a sequence number names one save, so a blob names one envelope;
- `QueuesAreSaved`: outboxes and late requests hold only what one device saved;
- `RowsAreSaved`: a blob in a row is that of a saved envelope, at its timestamp;
- `GoodFlush(f)`: a flush's batch is its device's; once its push is done the
  server accounts for all of it; every change it has yet to merge is a
  tombstone still on the server or a committed envelope.

The engine of the proof is `RowAdvances`, proved of every step that touches the
tables: it makes "the server accounts for e" (`Covered`), "committed" and
"tombstoned" stable, so what a flush learnt before an await is still true after
it. Each remaining obligation then concerns one variable, and one lemma per
variable (`SavedChange`, `OutboxChange`, `CacheChange`, `DbChange`,
`LatePushChange`, `FlushChange`) says what a step can do to it. For the cursor
the invariant is `CursorInv`: the cursor that a flush carries from an answer to
its device is that of a row, which can only get newer meanwhile.

The same module has `ImplementsLedger`. Initial states map to the initial
state; a save maps to `Save`; a push or a delete maps to `Exchange`, using
`RowsAreSaved` for the version named by a blob; every other step stutters.

`AuthProofs`: `AuthIsSafe` and one theorem per property of the run. `AuthInv`
says of each tab's call (`CallOK`) that between start and finish either its own
MAC is parked, or a rival or the clock is the reason it is not, that the
material it carries is that of one account, and that a phrase it shows is the
stored one. Accounts are inserted and never changed, so material stays what it
was.

`WorkspaceProofs`: `WorkspaceIsSafe`, `RowsHaveOneUser`, `WorkspaceIsClean`.
`KeystoreIsWhole` (after a passphrase unlock the record identity is the key's
user) and `SealingIsWhole` carry it from the keystore to the row in hand and to
the outbox. `CleanUnlessOverlapped` is only about moments when nothing is under
way; `LockedClean` and `UnlockedClean` say what is still to be cleaned up, and
by whom, at every other moment.

`BackendProofs`: for the vault alone, `VaultIsSafe` and `VaultImplementsCell`.
`RowIsLast` (the row is the last version written) and `CopiesAgree` (a blob is stored by a request
before its device stops wanting it, and copies of it in flight all expect the
same version, so one of them at most can match) are what makes a PUT that was
retried take effect once.
`VaultBurstsAreBounded` is about the token buckets: `CallsInv` says that what a
bucket has given out since any moment, and the tokens it still has, stay within
its burst and what it has earned since.

Then `BootIsSafe` for `Boot` alone, `BackendIsSafe`, one theorem per safety
property of the run, and `BackendImplementsCell`.
`LoopIsLocked` says that a replica in the loop holds the lock and has found its
image applied up to its file, so nobody moves the ledger between its check and
its commit. `BackendInv` adds to both components' invariants `RunOn`, that a
request is on a replica that serves or drains; every step of `Backend` is a
step of `Boot` or leaves it alone, and a step of `Vault` or leaves it alone.

`KeyringProofs`: `KeyringIsSafe`, `PassphrasesOpen`, `RecoveryWrapsOpen`.
`KeyringInv` says the same of a row and of the fields a flow holds: both wraps
are of the user's key, the first under the passphrase, the salt and the
parameters beside it.

`PagesProofs`: `PagesTypes`, `PagesLegs`, `PagesListAll`, `PagesAddUp`,
`PagesBudgets`. `LegsAreOpposite` speaks
of the rows kept or shown; `CopiesInv` speaks of the rows that handlers hold
too, those still to be saved and those read by a reload, and says that records
and groups are numbered as they are minted. So a submit's group is in no copy
yet and its fresh records are in none, and every other step only moves copies
about, or drops some. `ListInv` says, while no reload has begun over another,
that there is at most one and that every row of the working set, as it stands
there, is on the page, in the list that reload is about to show, or waited for: a handler that is still
saving or deleting, or a reload that has not collected, will list it.

`SummariesProofs`: `TotalsAddUp`, `BudgetsAddUp`, for every finite list; that the
lists of a page are finite is an invariant of `PagesProofs`. The sums of the community
modules are folds over sets. `SubsetInduction` (a smallest subset that fails
would contradict the step from a set less one element) carries them: a sum may
take its elements in any order (`SumTakes`), be split by a condition
(`SumSplits`) and be grouped by entries (`EntriesSplit`), which is what
`byCategoryMonth`, `monthlyTotals` and `budgetStatus` do in three ways.

**Induction.** The library's induction theorems take an operator as a parameter,
which none of the provers can instantiate. Where a proof needs induction over
data (a batch of any length, a list of any size) it is by least counterexample:
`WFMin` on the naturals, applied to the set of sizes at which the claim fails.

Only model-checked: liveness (`EverySaveArrives`, `BootsEnd`), since fairness and
ENABLED are out of the prover's reach; and the claims that fail. Every other
property of a passing run is the statement of a theorem.

## What is not modelled

Listed with reasons under `components` in `PROJECT.json`:

- Attachments and the audit log: one statement each per request, on rows nothing
  else reads.
- The crypto modules: library calls; what they guarantee is built into `Keyring`
  and `Workspace`. `pickConfirmIndices`, which draws the words to be confirmed,
  has no state either.
- The idle timer: nothing in the application starts it. When it fires it calls
  `lock`, which `Workspace` allows at any time.
- Rendering, routing and the developer page; the list of budgets, which lives in
  one component and is gone with it.
- Configuration, headers, logging and health endpoints.

Within the modelled parts, these are left out: the strict parsing of envelopes
and request bodies, which every client of this repository passes, and the CSRF
header, which it always sends (a refusal is one of the ways a request fails);
a crash inside `saveRecord` between `working` and `outbox`, except in `Pages`,
where a reload can fall there; several tabs of one browser in `SyncSystem`, which
share the tables (their flushes are more `Slot`s, but a reload ends only one
tab's); several users in `SyncSystem`, and another account that pushes a record id of
this one in `SyncServer`; several server processes in `Auth`, each
of which would keep parked logins of its own (a finish on another replica is
refused, like one after a restart).

## Plan

Every component whose state can interleave has its module. What is left, in
order of importance:

1. `Auth` on several replicas: the parked login is on one of them.
2. `SyncSystem` with several users of one browser, composed with `Workspace`:
   whose rows a flush pushes after another user has signed in.
3. `Pages` with calls that throw half way, and the puts of a reload one by one.
4. Envelope parsing as a filter on shapes of requests, against what the client
   can build.

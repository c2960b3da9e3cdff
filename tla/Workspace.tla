----------------------------- MODULE Workspace ------------------------------
(***************************************************************************)
(* What one browser tab holds in the clear, and when it lets go of it: the *)
(* session keystore (web/src/stores/sessionKeys.ts), the working table of  *)
(* decrypted rows (web/src/cache/db.ts), the search index                  *)
(* (web/src/cache/search.ts) and the calls of the data layer               *)
(* (web/src/domain/store.ts) that read the keystore, await, and write.     *)
(*                                                                         *)
(* Several users may sign in to the browser in turn; the IndexedDB tables  *)
(* are shared by all of them.  What the flushes do is SyncSystem's         *)
(* business: here an envelope arrives, and a queued row stays.             *)
(***************************************************************************)
EXTENDS Naturals, FiniteSets

CONSTANTS
  User,     \* users of the browser
  Record,   \* records of one type
  OwnerOf,  \* OwnerOf[r]: the user whose record r is; ids are random
  Call,     \* calls in progress at once (a bound)
  MaxQueue, \* bound: rows waiting in the outbox
  None      \* nothing

(***************************************************************************)
(* A data key, and the subkey derived from it, is named by its user.  A    *)
(* sealed row has the user its AAD names and the user whose key sealed it. *)
(***************************************************************************)
Sealed == [aad: User, key: User, by: {"passphrase", "recovery"}]

ASSUME WorkspaceAssumption ==
  /\ OwnerOf \in [Record -> User]
  /\ None \notin User \cup Sealed
  /\ MaxQueue \in Nat

Keystore ==
  [user: User \cup {None}, record: User \cup {None}, dek: User \cup {None},
   subkey: User \cup {None}, by: {"passphrase", "recovery"}]

Calls ==
  [at: {"idle", "deriving", "unlocked", "subkey", "sealing", "queueing", "flushing",
        "decrypting", "indexing"},
   user: User \cup {None}, by: {"passphrase", "recovery"},
   row: Sealed \cup {None}, rows: SUBSET Record]
NoCall ==
  [at |-> "idle", user |-> None, by |-> "passphrase", row |-> None, rows |-> {}]

VARIABLES
  ks,         \* the keystore; locked when it has no data key
  call,       \* call[c]: a call in progress
  teardown,   \* the endSyncs of past locks: "importing" or "clearing"
  working,    \* records whose decrypted row is in the working table
  envelopes,  \* records whose ciphertext is in the envelopes table
  outbox,     \* sealed rows queued
  index,      \* records in the search index
  tainted     \* history: a call overlapped a lock or a switch of users, or a reload

memory == <<ks, call, teardown, index>>
tables == <<working, envelopes, outbox>>
vars == <<ks, call, teardown, working, envelopes, outbox, index, tainted>>

Locked == ks.dek = None

Init ==
  /\ ks = [user |-> None, record |-> None, dek |-> None, subkey |-> None, by |-> "passphrase"]
  /\ call = [c \in Call |-> NoCall]
  /\ teardown = {}
  /\ working = {} /\ envelopes = {} /\ outbox = {}
  /\ index = {}
  /\ tainted = FALSE

Go(c, state) == call' = [call EXCEPT ![c] = state]
Free(c) == call[c].at = "idle"
Quiet == \A c \in Call : Free(c)

-----------------------------------------------------------------------------
(* The keystore. *)

\* Either unlock spends a while deriving a key and unwrapping.
BeginUnlock(c, u, by) ==
  /\ Free(c)
  /\ Go(c, [NoCall EXCEPT !.at = "deriving", !.user = u, !.by = by])
  /\ UNCHANGED <<ks, teardown, index, tainted>> /\ UNCHANGED tables

\* Faulty variant: a record identity that is not given stays undefined.
UnlockedWithoutDefault(k, u, by) ==
  [k EXCEPT !.user = u, !.dek = u, !.subkey = None, !.by = by, !.record = "undefined"]

\* Then it sets the state, whatever has happened meanwhile.  Only the
\* passphrase path knows the record identity; the other leaves the last one.
Unlocked(k, u, by) ==
  [k EXCEPT !.user = u, !.dek = u, !.subkey = None, !.by = by,
            !.record = IF by = "passphrase" THEN u ELSE @]

FinishUnlock(c) ==
  /\ call[c].at = "deriving"
  /\ ks' = Unlocked(ks, call[c].user, call[c].by)
  /\ Go(c, [NoCall EXCEPT !.at = "unlocked"])
  /\ tainted' = (tainted \/ ~Locked \/ teardown # {} \/ \E d \in Call \ {c} : ~Free(d))
  /\ UNCHANGED <<teardown, index>> /\ UNCHANGED tables

\* Faulty variant: the cache of subkeys survives the lock.
LockedKeepingSubkeys(k) == [k EXCEPT !.user = None, !.dek = None]

LockedKeystore(k) == [k EXCEPT !.user = None, !.dek = None, !.subkey = None]

\* lock zeroizes the key and starts an endSync; recordUserId is not reset.
Lock ==
  /\ ks' = LockedKeystore(ks)
  /\ teardown' = teardown \cup {"importing"}
  /\ tainted' = (tainted \/ ~Quiet)
  /\ UNCHANGED <<call, index>> /\ UNCHANGED tables

\* getSubkey: the cached one, or one derived from the state read here
BeginSubkey(c) ==
  /\ Free(c) /\ ~Locked /\ ks.subkey = None
  /\ Go(c, [NoCall EXCEPT !.at = "subkey", !.user = ks.dek])
  /\ UNCHANGED <<ks, teardown, index, tainted>> /\ UNCHANGED tables

\* and written back, with the rest of the cache read then, after its await.
CacheSubkey(c) ==
  /\ call[c].at = "subkey"
  /\ ks' = [ks EXCEPT !.subkey = call[c].user]
  /\ Go(c, NoCall)
  /\ UNCHANGED <<teardown, index, tainted>> /\ UNCHANGED tables

-----------------------------------------------------------------------------
(* Saving. *)

\* saveRecord reads the keystore once: the key and the AAD's user.
BeginSave(c, r) ==
  /\ Free(c) /\ ~Locked /\ ks.record # None
  /\ OwnerOf[r] = ks.record \/ r \in working
  /\ Go(c, [NoCall EXCEPT !.at = "sealing", !.rows = {r},
              !.row = [aad |-> ks.record, key |-> ks.dek, by |-> ks.by]])
  /\ UNCHANGED <<ks, teardown, index, tainted>> /\ UNCHANGED tables

\* Sealed, the plaintext goes to the working table first
PutWorking(c) ==
  /\ call[c].at = "sealing"
  /\ working' = working \cup call[c].rows
  /\ Go(c, [call[c] EXCEPT !.at = "queueing", !.rows = {}])
  /\ UNCHANGED <<ks, teardown, envelopes, outbox, index, tainted>>

\* Faulty variant: the identity is read again when the row is queued.
RowReadAgain(c) ==
  IF ks.record = None THEN call[c].row ELSE [call[c].row EXCEPT !.aad = ks.record]

RowToQueue(c) == call[c].row

\* and the sealed row to the outbox after it.
Enqueue(c) ==
  /\ call[c].at = "queueing"
  /\ Cardinality(outbox) < MaxQueue
  /\ outbox' = outbox \cup {RowToQueue(c)}
  /\ Go(c, NoCall)
  /\ UNCHANGED <<ks, teardown, working, envelopes, index, tainted>>

-----------------------------------------------------------------------------
(* Loading. *)

\* loadWorking derives its subkey, then awaits a flush
BeginLoad(c) ==
  /\ Free(c) /\ ~Locked
  /\ Go(c, [NoCall EXCEPT !.at = "flushing", !.user = ks.dek])
  /\ UNCHANGED <<ks, teardown, index, tainted>> /\ UNCHANGED tables

\* and reads the envelopes, every user's.
ReadEnvelopes(c) ==
  /\ call[c].at = "flushing"
  /\ Go(c, [call[c] EXCEPT !.at = "decrypting", !.rows = envelopes])
  /\ UNCHANGED <<ks, teardown, index, tainted>> /\ UNCHANGED tables

\* Each row it can open goes to the working table.
OpenEnvelope(c, r) ==
  /\ call[c].at = "decrypting"
  /\ r \in call[c].rows /\ OwnerOf[r] = call[c].user
  /\ working' = working \cup {r}
  /\ Go(c, [call[c] EXCEPT !.rows = @ \ {r}])
  /\ UNCHANGED <<ks, teardown, envelopes, outbox, index, tainted>>

\* One it cannot open, another user's, makes the whole load throw.
EndLoad(c) ==
  /\ call[c].at = "decrypting"
  /\ call[c].rows = {} \/ \E r \in call[c].rows : OwnerOf[r] # call[c].user
  /\ Go(c, NoCall)
  /\ UNCHANGED <<ks, teardown, index, tainted>> /\ UNCHANGED tables

-----------------------------------------------------------------------------
(* beginSync and endSync, which follow an unlock and a lock. *)

\* beginSync acts on the user it finds, if any: it reads the working table
BeginSync(c) ==
  /\ call[c].at = "unlocked"
  /\ Go(c, IF ks.user = None THEN NoCall ELSE [NoCall EXCEPT !.at = "indexing", !.rows = working])
  /\ UNCHANGED <<ks, teardown, index, tainted>> /\ UNCHANGED tables

\* and sets the search index when it is built.
SetIndex(c) ==
  /\ call[c].at = "indexing"
  /\ index' = call[c].rows
  /\ Go(c, NoCall)
  /\ UNCHANGED <<ks, teardown, tainted>> /\ UNCHANGED tables

\* Faulty variant: the old index is left for the next build to replace.
IndexKept == index

IndexAfterEnd == {}

\* endSync drops the index
EndSync ==
  /\ "importing" \in teardown
  /\ index' = IndexAfterEnd
  /\ teardown' = (teardown \ {"importing"}) \cup {"clearing"}
  /\ UNCHANGED <<ks, call, tainted>> /\ UNCHANGED tables

\* and then clears the working table.  A lock with nothing in progress undoes
\* what an earlier overlap left behind.
ClearWorking ==
  /\ "clearing" \in teardown
  /\ working' = {}
  /\ teardown' = teardown \ {"clearing"}
  /\ tainted' = (tainted /\ ~(Quiet /\ Locked /\ teardown = {"clearing"} /\ index = {} /\ ks.subkey = None))
  /\ UNCHANGED <<ks, call, envelopes, outbox, index>>

-----------------------------------------------------------------------------
(* The environment. *)

\* A flush merges an envelope of the signed-in user, locked or not: endSync
\* does not stop the interval.
Merge(r) ==
  /\ OwnerOf[r] = ks.record
  /\ envelopes' = envelopes \cup {r}
  /\ UNCHANGED <<working, outbox, tainted>> /\ UNCHANGED memory

\* A flush pushes what is queued.
Push ==
  /\ outbox # {}
  /\ outbox' = {}
  /\ UNCHANGED <<working, envelopes, tainted>> /\ UNCHANGED memory

\* The page reloads: memory is gone, the tables are not.
Reload ==
  /\ ks' = [user |-> None, record |-> None, dek |-> None, subkey |-> None, by |-> "passphrase"]
  /\ call' = [c \in Call |-> NoCall]
  /\ teardown' = {} /\ index' = {}
  /\ tainted' = (tainted \/ working # {})
  /\ UNCHANGED tables

CallStep(c) ==
  \/ \E u \in User, by \in {"passphrase", "recovery"} : BeginUnlock(c, u, by)
  \/ FinishUnlock(c)
  \/ BeginSubkey(c) \/ CacheSubkey(c)
  \/ \E r \in Record : BeginSave(c, r)
  \/ PutWorking(c) \/ Enqueue(c)
  \/ BeginLoad(c) \/ ReadEnvelopes(c) \/ EndLoad(c)
  \/ \E r \in Record : OpenEnvelope(c, r)
  \/ BeginSync(c) \/ SetIndex(c)

Next ==
  \/ \E c \in Call : CallStep(c)
  \/ Lock \/ EndSync \/ ClearWorking
  \/ \E r \in Record : Merge(r)
  \/ Push \/ Reload

Spec == Init /\ [][Next]_vars

-----------------------------------------------------------------------------
(* Properties. *)

\* Every variable has its type.
TypeOK ==
  /\ ks \in Keystore
  /\ call \in [Call -> Calls]
  /\ teardown \subseteq {"importing", "clearing"}
  /\ working \subseteq Record /\ envelopes \subseteq Record /\ outbox \subseteq Sealed
  /\ index \subseteq Record
  /\ tainted \in BOOLEAN

\* A row queued from a passphrase session is sealed with the key of the user
\* its AAD names, whoever locks, unlocks or switches users while it is being
\* saved (saveRecord takes key and identity from one read of the keystore).  A
\* recovery session keeps the identity of whoever signed in before it.
RowsSealedForOneUser ==
  \A row \in outbox : row.by = "passphrase" => row.aad = row.key

Plain(u) == \A r \in working \cup index : OwnerOf[r] = u

\* Unless a call overlaps a lock or a change of users, or the page reloads over
\* a filled working table, a finished lock leaves neither decrypted rows nor an
\* index nor a subkey, and an unlocked tab shows and searches only the rows of
\* its user, with that user's subkey; and one lock with nothing in progress
\* restores this after any overlap (lock, endSync, clearWorking, beginSync).
CleanUnlessOverlapped ==
  ~tainted =>
    IF Locked
    THEN teardown = {} => working = {} /\ index = {} /\ ks.subkey = None
    ELSE ks.subkey \in {None, ks.dek} /\ (ks.by = "passphrase" => Plain(ks.dek))

\* The working set is cleared on lock and does not persist across reloads, says
\* the head of cache/db.ts: once the tab is locked and nothing is in progress,
\* no decrypted row is left.
LockedLeavesNoPlaintext == (Locked /\ Quiet /\ teardown = {}) => working = {}

\* sessionKeys.test.ts: after a lock the keys are gone, the cached subkey with
\* them, also when a getSubkey was waiting for its derivation.
LockedKeysAreGone == (Locked /\ Quiet) => ks.subkey = None
=============================================================================

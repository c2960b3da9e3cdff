----------------------------- MODULE SyncClaims -----------------------------
(***************************************************************************)
(* What the comments and the documents of the repository claim of syncing, *)
(* stated over SyncSystem.  Each is checked in an instance of its own and  *)
(* fails there; README.md says what each counterexample shows.             *)
(***************************************************************************)
EXTENDS SyncSystem

Quiet(d) == dropping[d] = {} /\ \A f \in Flush : Owner(f) = d => flush[f].pc = "idle"

\* sync.go on PullChanges: pages are keyset-ordered by (updated_at, id).  So
\* what a page leaves out is no older than the cursor handed out with it.
PagesAreKeyset ==
  [][\A f \in Flush :
       (flush[f].pc = "pushed" /\ flush'[f].pc = "merging") =>
         \A r \in Changed(flush[f].since) :
           ChangeOf(r) \in flush'[f].page \/ flush'[f].next <= db[r].ts]_vars

SavedAt(blob) == (CHOOSE e \in saved : BlobOf(e) = blob).ts

\* merge.ts: the client applies the server's rule, strictly greater timestamp
\* wins.  So a change is skipped only for a copy that is at least as new.
SkipsOnlyOlder ==
  [][\A f \in Flush : \A c \in flush[f].page :
       SkipEnvelope(f, c) => SavedAt(c.blob) <= SavedAt(cache[Owner(f)][c.rec].blob)]_vars

\* merge.ts, same rule over time: a cached copy is never replaced by an older
\* one, however the flushes of a device overlap.
CacheNeverGoesBack ==
  [][\A d \in Device, r \in Record :
       (cache[d][r].blob # Zeroed /\ cache'[d][r].blob # Zeroed)
         => cache[d][r].sec <= cache'[d][r].sec]_vars

\* README.md: encrypted data syncs across devices.  A quiet device holds what
\* the server has up to the device's cursor, for it will not ask for it again.
CursorSkipsNothing ==
  \A d \in Device, r \in Record :
    (Quiet(d) /\ db[r].status = "live" /\ db[r].ts < cursor[d] /\ dels[d][r] = 0)
      => cache[d][r].blob = db[r].blob

\* outbox.ts: the delete itself is flushed as a DELETE request in flush().  A
\* noted delete the server would accept is carried out.
NotedDeletesArrive ==
  \A d \in Device, r \in Record :
    (dels[d][r] # 0 /\ Deletable(r, dels[d][r])) ~> ~Deletable(r, dels[d][r])

\* outbox.ts: clearDelete removes a queued tombstone after its DELETE succeeds.
\* While the device keeps flushing batches, a note whose record is tombstoned
\* goes.
DoneDeletesAreCleared ==
  \A d \in Device, r \in Record :
    (dels[d][r] # 0 /\ db[r].status = "tombstone") ~> dels[d][r] = 0
=============================================================================

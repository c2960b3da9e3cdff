-------------------------- MODULE SyncSystemProofs --------------------------
(***************************************************************************)
(* Proofs about SyncSystem, for every number of devices, records, flushes  *)
(* in progress, failures, saves and clock skews; the last part proves that *)
(* it implements Ledger.                                                   *)
(***************************************************************************)
EXTENDS SyncRefinement, SyncServerProofs

-----------------------------------------------------------------------------
(* Data. *)

LEMMA OwnerIsDevice ==
  ASSUME NEW f \in Flush
  PROVE  Owner(f) \in Device
  BY DEF Flush, Owner

LEMMA NoFlushIsState == NoFlush \in FlushState
  BY ServerAssumption DEF NoFlush, FlushState

LEMMA ZeroIsTs == 0 \in 0..MaxTs
  BY ServerAssumption

LEMMA SecondsType ==
  ASSUME NEW ts \in Nat
  PROVE  Seconds(ts) \in Nat
  BY SystemAssumption DEF Seconds

LEMMA ChangeOfType ==
  ASSUME ServerTypeOK, NEW r \in Record
  PROVE  ChangeOf(r) \in Change
<1>1. db[r] \in Row
  BY DEF ServerTypeOK
<1>2. db[r].blob \in Blob /\ db[r].ts \in Nat
  BY <1>1, ServerAssumption DEF Row
<1>3. Seconds(db[r].ts) \in Nat
  BY <1>2, SecondsType
<1> QED
  BY <1>2, <1>3 DEF ChangeOf, Change

LEMMA FlushType ==
  ASSUME TypeOK, NEW f \in Flush
  PROVE  flush[f] \in FlushState
  BY DEF TypeOK

LEMMA GoType ==
  ASSUME TypeOK, NEW f \in Flush, NEW state \in FlushState, Go(f, state)
  PROVE  flush' \in [Flush -> FlushState]
  BY DEF TypeOK, Go

LEMMA NoCopyIsCopy == NoCopy \in Copy
  BY DEF NoCopy, Copy, Blob

-----------------------------------------------------------------------------
(* The tables, whatever step the system takes. *)

LEMMA HandleDeleteType ==
  ASSUME ServerTypeOK, NEW x \in Tombstone, HandleDelete(x)
  PROVE  ServerTypeOK' /\ \A r \in Record : RowAdvances(r, db[r], db'[r])
<1>1. x.rec \in Record /\ x.ts \in 0..MaxTs
  BY DEF Tombstone
<1>2. CASE DeleteRecord(x.rec, x.ts)
  BY <1>1, <1>2, DeleteType
<1>3. CASE UNCHANGED db
  BY <1>3, UnchangedAdvances
<1> QED
  BY <1>2, <1>3 DEF HandleDelete

-----------------------------------------------------------------------------
(* Type correctness: one lemma per action that changes more than flush. *)

LEMMA InitType == Init => TypeOK
<1> SUFFICES ASSUME Init PROVE TypeOK
  OBVIOUS
<1>1. flush \in [Flush -> FlushState]
  BY NoFlushIsState DEF Init
<1>2. cache \in [Device -> [Record -> Copy]]
  BY NoCopyIsCopy DEF Init
<1> QED
  BY <1>1, <1>2, ZeroIsTs, ServerInitType DEF Init, TypeOK

LEMMA EnqueueType ==
  ASSUME TypeOK, NEW d \in Device, NEW r \in Record, NEW ts, Enqueue(d, r, ts)
  PROVE  TypeOK'
<1> DEFINE e == [dev |-> d, seq |-> nextSeq[d], rec |-> r, ts |-> ts]
<1>1. e \in Envelope
  BY DEF Enqueue, Envelope
<1>2. saved' = saved \cup {e} /\ outbox' = [outbox EXCEPT ![d] = @ \cup {e}]
  BY DEF Enqueue
<1>3. saved' \in SUBSET Envelope /\ outbox' \in [Device -> SUBSET Envelope]
  BY <1>1, <1>2 DEF TypeOK
<1>4. nextSeq' \in [Device -> Nat]
  BY DEF TypeOK, Enqueue
<1>5. working' \in [Device -> SUBSET Record]
  BY DEF TypeOK, Enqueue
<1>6. UNCHANGED <<db, now, cache, cursor, dropping, dels, flush, latePush, lateDelete, faults>>
  BY DEF Enqueue, netVars
<1> QED
  BY <1>3, <1>4, <1>5, <1>6 DEF TypeOK, ServerTypeOK

LEMMA DeleteActionType ==
  ASSUME TypeOK, NEW d \in Device, NEW r \in Record, Delete(d, r)
  PROVE  TypeOK'
<1>1. cache' \in [Device -> [Record -> Copy]]
  BY NoCopyIsCopy DEF Delete, TypeOK
<1>2. working' \in [Device -> SUBSET Record] /\ dropping' \in [Device -> SUBSET Record]
  BY DEF Delete, TypeOK
<1> QED
  BY <1>1, <1>2 DEF Delete, TypeOK, ServerTypeOK, netVars

LEMMA NoteDeleteType ==
  ASSUME TypeOK, NEW d \in Device, NEW r \in Record, NoteDelete(d, r)
  PROVE  TypeOK'
<1>1. Clock(d) \in 0..MaxTs
  BY ServerAssumption DEF NoteDelete, Ts
<1>2. dels' \in [Device -> [Record -> 0..MaxTs]]
  BY <1>1 DEF NoteDelete, TypeOK
<1>3. dropping' \in [Device -> SUBSET Record]
  BY DEF NoteDelete, TypeOK
<1> QED
  BY <1>2, <1>3 DEF NoteDelete, TypeOK, ServerTypeOK, netVars

LEMMA CommitType ==
  ASSUME TypeOK, NEW f \in Flush, Commit(f)
  PROVE  TypeOK' /\ \A r \in Record : RowAdvances(r, db[r], db'[r])
<1>1. [flush[f] EXCEPT !.pc = "pushed"] \in FlushState /\ flush[f].batch \in SUBSET Envelope
  BY FlushType DEF FlushState
<1>2. flush' \in [Flush -> FlushState]
  <2>1. Go(f, [flush[f] EXCEPT !.pc = "pushed"])
    BY DEF Commit
  <2> QED
    BY <1>1, <2>1, GoType
<1>3. ServerTypeOK' /\ \A r \in Record : RowAdvances(r, db[r], db'[r])
  BY <1>1, PushType DEF Commit, TypeOK
<1> QED
  BY <1>2, <1>3 DEF Commit, TypeOK, clientVars, netVars

\* The steps of a flush that change no other variable.
LEMMA QuietFlushType ==
  ASSUME TypeOK, NEW f \in Flush, NEW state \in FlushState, Go(f, state),
         UNCHANGED <<db, now>>, UNCHANGED clientVars, UNCHANGED netVars
  PROVE  TypeOK'
  BY GoType DEF TypeOK, ServerTypeOK, clientVars, netVars

LEMMA StartFlushType ==
  ASSUME TypeOK, NEW f \in Flush, StartFlush(f)
  PROVE  TypeOK'
<1>1. PICK batch \in SUBSET outbox[Owner(f)] :
        Go(f, [NoFlush EXCEPT !.pc = "drained", !.batch = batch])
  BY DEF StartFlush
<1>2. batch \in SUBSET Envelope
  BY OwnerIsDevice DEF TypeOK
<1>3. [NoFlush EXCEPT !.pc = "drained", !.batch = batch] \in FlushState
  BY <1>2, NoFlushIsState DEF FlushState
<1> QED
  BY <1>1, <1>3, QuietFlushType DEF StartFlush

LEMMA ReplyType ==
  ASSUME TypeOK, NEW f \in Flush, Reply(f)
  PROVE  TypeOK'
<1> DEFINE merging(page, last) ==
      [NoFlush EXCEPT !.pc = "merging", !.batch = flush[f].batch,
                      !.page = {ChangeOf(r) : r \in page}, !.next = db[last].ts]
<1>1. PICK page \in SUBSET Changed(flush[f].since) :
        \E last \in page : Go(f, merging(page, last))
  BY DEF Reply
<1>2. PICK last \in page : Go(f, merging(page, last))
  BY <1>1
<1>3. page \subseteq Record /\ last \in Record
  BY <1>1, <1>2 DEF Changed
<1>4. {ChangeOf(r) : r \in page} \in SUBSET Change
  BY <1>3, ChangeOfType DEF TypeOK
<1>5. db[last].ts \in 0..MaxTs /\ flush[f].batch \in SUBSET Envelope
  BY <1>3 DEF TypeOK, ServerTypeOK, Row, FlushState
<1>6. merging(page, last) \in FlushState
  BY <1>4, <1>5, NoFlushIsState DEF FlushState
<1> QED
  BY <1>2, <1>6, QuietFlushType DEF Reply

LEMMA MergeType ==
  ASSUME TypeOK, NEW f \in Flush, MergeStep(f)
  PROVE  TypeOK'
<1>1. flush[f] \in FlushState /\ Owner(f) \in Device
  BY OwnerIsDevice DEF TypeOK
<1>2. ASSUME NEW c \in flush[f].page, MergeTombstone(f, c)
      PROVE  TypeOK'
  <2>1. [flush[f] EXCEPT !.page = @ \ {c}] \in FlushState
    BY <1>1 DEF FlushState
  <2>2. flush' \in [Flush -> FlushState]
    BY <1>2, <2>1, GoType DEF MergeTombstone
  <2>3. cache' \in [Device -> [Record -> Copy]]
    BY <1>2, NoCopyIsCopy DEF MergeTombstone, TypeOK
  <2>4. working' \in [Device -> SUBSET Record]
    BY <1>2 DEF MergeTombstone, TypeOK
  <2> QED
    BY <1>2, <2>2, <2>3, <2>4 DEF MergeTombstone, TypeOK, ServerTypeOK, netVars
<1>3. ASSUME NEW c \in flush[f].page, SkipEnvelope(f, c)
      PROVE  TypeOK'
  <2>1. [flush[f] EXCEPT !.page = @ \ {c}] \in FlushState
    BY <1>1 DEF FlushState
  <2> QED
    BY <1>3, <2>1, QuietFlushType DEF SkipEnvelope
<1>4. ASSUME NEW c \in flush[f].page, ChooseEnvelope(f, c)
      PROVE  TypeOK'
  <2>1. [flush[f] EXCEPT !.page = @ \ {c}, !.held = {c}] \in FlushState
    BY <1>1 DEF FlushState
  <2> QED
    BY <1>4, <2>1, QuietFlushType DEF ChooseEnvelope
<1>5. ASSUME NEW c \in flush[f].held, PutEnvelope(f, c)
      PROVE  TypeOK'
  <2>1. [flush[f] EXCEPT !.held = {}] \in FlushState /\ c \in Change
    BY <1>1 DEF FlushState
  <2>2. flush' \in [Flush -> FlushState]
    BY <1>5, <2>1, GoType DEF PutEnvelope
  <2>3. [blob |-> c.blob, sec |-> c.sec] \in Copy
    BY <2>1 DEF Change, Copy
  <2>4. cache' \in [Device -> [Record -> Copy]]
    BY <1>5, <2>3 DEF PutEnvelope, TypeOK
  <2> QED
    BY <1>5, <2>2, <2>4 DEF PutEnvelope, TypeOK, ServerTypeOK, netVars
<1>6. ASSUME PutCursor(f)
      PROVE  TypeOK'
  <2> DEFINE state == IF flush[f].batch = {}
                      THEN NoFlush ELSE [flush[f] EXCEPT !.pc = "acked", !.next = 0]
  <2>1. state \in FlushState
    <3>1. [flush[f] EXCEPT !.pc = "acked", !.next = 0] \in FlushState
      BY <1>1, ZeroIsTs DEF FlushState
    <3> QED
      BY <3>1, NoFlushIsState
  <2>2. flush' \in [Flush -> FlushState]
    <3>1. Go(f, state)
      BY <1>6 DEF PutCursor
    <3> QED
      BY <2>1, <3>1, GoType
  <2>3. cursor' \in [Device -> 0..MaxTs]
    BY <1>1, <1>6 DEF PutCursor, TypeOK, FlushState
  <2> QED
    BY <1>6, <2>2, <2>3 DEF PutCursor, TypeOK, ServerTypeOK, netVars
<1> QED
  BY <1>2, <1>3, <1>4, <1>5, <1>6 DEF MergeStep

LEMMA RemoveFlushedType ==
  ASSUME TypeOK, NEW f \in Flush, RemoveFlushed(f)
  PROVE  TypeOK'
<1>1. Pending(Owner(f)) \in SUBSET Tombstone
  BY DEF Pending
<1>2. [NoFlush EXCEPT !.pc = "deleting", !.todo = Pending(Owner(f))] \in FlushState
  BY <1>1, NoFlushIsState DEF FlushState
<1>3. flush' \in [Flush -> FlushState]
  BY <1>2, GoType DEF RemoveFlushed
<1>4. OutboxAfter(f) \in SUBSET Envelope
  BY OwnerIsDevice DEF OutboxAfter, TypeOK
<1>5. outbox' \in [Device -> SUBSET Envelope]
  BY <1>4, OwnerIsDevice DEF RemoveFlushed, TypeOK
<1> QED
  BY <1>3, <1>5 DEF RemoveFlushed, TypeOK, ServerTypeOK, netVars

LEMMA SendDeleteType ==
  ASSUME TypeOK, NEW f \in Flush, NEW x \in flush[f].todo, SendDelete(f, x)
  PROVE  TypeOK' /\ \A r \in Record : RowAdvances(r, db[r], db'[r])
<1>1. x \in Tombstone /\ [flush[f] EXCEPT !.todo = @ \ {x}] \in FlushState
  BY FlushType DEF FlushState
<1>2. ServerTypeOK' /\ \A r \in Record : RowAdvances(r, db[r], db'[r])
  BY <1>1, HandleDeleteType DEF SendDelete, TypeOK
<1>3. flush' \in [Flush -> FlushState]
  <2>1. Go(f, [flush[f] EXCEPT !.todo = @ \ {x}])
    BY DEF SendDelete
  <2> QED
    BY <1>1, <2>1, GoType
<1> QED
  BY <1>2, <1>3 DEF SendDelete, TypeOK, clientVars, netVars

LEMMA FaultType ==
  ASSUME TypeOK, FaultStep
  PROVE  TypeOK' /\ \A r \in Record : RowAdvances(r, db[r], db'[r])
<1>1. ASSUME NEW f \in Flush, LoseRequest(f)
      PROVE  TypeOK' /\ UNCHANGED db
  <2>1. flush[f].batch \in SUBSET Envelope
    BY FlushType DEF FlushState
  <2>2. latePush' \in SUBSET (SUBSET Envelope)
    BY <1>1, <2>1 DEF LoseRequest, Late, TypeOK
  <2>3. flush' \in [Flush -> FlushState]
    BY <1>1, NoFlushIsState, GoType DEF LoseRequest
  <2> QED
    BY <1>1, <2>2, <2>3 DEF LoseRequest, TypeOK, ServerTypeOK, clientVars
<1>2. ASSUME NEW f \in Flush, LoseReply(f)
      PROVE  TypeOK' /\ UNCHANGED db
  <2>1. flush' \in [Flush -> FlushState]
    BY <1>2, NoFlushIsState, GoType DEF LoseReply
  <2> QED
    BY <1>2, <2>1 DEF LoseReply, TypeOK, ServerTypeOK, clientVars
<1>3. ASSUME NEW f \in Flush, NEW x \in flush[f].todo, LoseDelete(f, x)
      PROVE  TypeOK' /\ UNCHANGED db
  <2>1. x \in Tombstone /\ [flush[f] EXCEPT !.todo = @ \ {x}] \in FlushState
    BY FlushType DEF FlushState
  <2>2. Go(f, [flush[f] EXCEPT !.todo = @ \ {x}])
    BY <1>3 DEF LoseDelete
  <2>3. flush' \in [Flush -> FlushState]
    BY <2>1, <2>2, GoType
  <2>4. lateDelete' \in SUBSET Tombstone
    BY <1>3, <2>1 DEF LoseDelete, TypeOK
  <2> QED
    BY <1>3, <2>3, <2>4 DEF LoseDelete, TypeOK, ServerTypeOK, clientVars
<1>4. ASSUME NEW d \in Device, Reload(d)
      PROVE  TypeOK' /\ UNCHANGED db
  <2>1. \A f \in Flush : flush[f].batch \in SUBSET Envelope
    BY FlushType DEF FlushState
  <2>2. latePush' \in SUBSET (SUBSET Envelope)
    BY <1>4, <2>1 DEF Reload, Late, TypeOK
  <2>3. flush' \in [Flush -> FlushState]
    BY <1>4, NoFlushIsState, FlushType DEF Reload
  <2>4. dropping' \in [Device -> SUBSET Record]
    BY <1>4 DEF Reload, TypeOK
  <2> QED
    BY <1>4, <2>2, <2>3, <2>4 DEF Reload, TypeOK, ServerTypeOK
<1>5. ASSUME NEW batch \in latePush, ArriveLate(batch)
      PROVE  TypeOK' /\ \A r \in Record : RowAdvances(r, db[r], db'[r])
  <2>1. batch \in SUBSET Envelope /\ latePush' \in SUBSET (SUBSET Envelope)
    BY <1>5 DEF ArriveLate, TypeOK
  <2>2. ServerTypeOK' /\ \A r \in Record : RowAdvances(r, db[r], db'[r])
    BY <1>5, <2>1, PushType, UnchangedAdvances DEF ArriveLate, TypeOK
  <2> QED
    BY <1>5, <2>1, <2>2 DEF ArriveLate, TypeOK, clientVars
<1>6. ASSUME NEW x \in lateDelete, DeleteLate(x)
      PROVE  TypeOK' /\ \A r \in Record : RowAdvances(r, db[r], db'[r])
  <2>1. x \in Tombstone /\ lateDelete' \in SUBSET Tombstone
    BY <1>6 DEF DeleteLate, TypeOK
  <2>2. ServerTypeOK' /\ \A r \in Record : RowAdvances(r, db[r], db'[r])
    BY <1>6, <2>1, HandleDeleteType DEF DeleteLate, TypeOK
  <2> QED
    BY <1>6, <2>1, <2>2 DEF DeleteLate, TypeOK, clientVars
<1> QED
  BY <1>1, <1>2, <1>3, <1>4, <1>5, <1>6, UnchangedAdvances DEF FaultStep, TypeOK

LEMMA FlushStepType ==
  ASSUME TypeOK, NEW f \in Flush, FlushStep(f)
  PROVE  TypeOK' /\ \A r \in Record : RowAdvances(r, db[r], db'[r])
<1>1. ASSUME UNCHANGED db
      PROVE  \A r \in Record : RowAdvances(r, db[r], db'[r])
  BY <1>1, UnchangedAdvances DEF TypeOK
<1>2. CASE StartFlush(f)
  BY <1>1, <1>2, StartFlushType DEF StartFlush
<1>3. CASE Request(f)
  <2>1. [flush[f] EXCEPT !.pc = "sent", !.since = cursor[Owner(f)]] \in FlushState
    <3>1. cursor[Owner(f)] \in 0..MaxTs
      BY OwnerIsDevice DEF TypeOK
    <3> QED
      BY <3>1, FlushType DEF FlushState
  <2> QED
    BY <1>1, <1>3, <2>1, QuietFlushType DEF Request
<1>4. CASE Commit(f)
  BY <1>4, CommitType
<1>5. CASE Refuse(f) \/ ReplyNull(f) \/ EndFlush(f)
  BY <1>1, <1>5, NoFlushIsState, QuietFlushType DEF Refuse, ReplyNull, EndFlush
<1>6. CASE Reply(f)
  BY <1>1, <1>6, ReplyType DEF Reply
<1>7. CASE MergeStep(f)
  BY <1>1, <1>7, MergeType
     DEF MergeStep, MergeTombstone, SkipEnvelope, ChooseEnvelope, PutEnvelope, PutCursor
<1>8. CASE RemoveFlushed(f)
  BY <1>1, <1>8, RemoveFlushedType DEF RemoveFlushed
<1>9. ASSUME NEW x \in flush[f].todo, SendDelete(f, x)
      PROVE  TypeOK' /\ \A r \in Record : RowAdvances(r, db[r], db'[r])
  BY <1>9, SendDeleteType
<1> QED
  BY <1>2, <1>3, <1>4, <1>5, <1>6, <1>7, <1>8, <1>9 DEF FlushStep

LEMMA Step ==
  ASSUME TypeOK, [Next]_vars
  PROVE  TypeOK' /\ \A r \in Record : RowAdvances(r, db[r], db'[r])
<1>1. ASSUME UNCHANGED db
      PROVE  \A r \in Record : RowAdvances(r, db[r], db'[r])
  BY <1>1, UnchangedAdvances DEF TypeOK
<1>2. ASSUME NEW d \in Device, NEW r \in Record, Create(d, r) \/ Edit(d, r)
      PROVE  TypeOK' /\ UNCHANGED db
  BY <1>2, EnqueueType DEF Create, Edit, Enqueue
<1>3. ASSUME NEW d \in Device, NEW r \in Record, Delete(d, r) \/ NoteDelete(d, r)
      PROVE  TypeOK' /\ UNCHANGED db
  BY <1>3, DeleteActionType, NoteDeleteType DEF Delete, NoteDelete
<1>4. CASE Tick
  BY <1>1, <1>4 DEF Tick, TypeOK, ServerTypeOK, clientVars, netVars
<1>5. CASE UNCHANGED vars
  BY <1>1, <1>5 DEF vars, TypeOK, ServerTypeOK
<1> QED
  BY <1>1, <1>2, <1>3, <1>4, <1>5, FlushStepType, FaultType DEF Next, UserStep

\* Every variable keeps its type under every interleaving of saves, deletes,
\* flushes and failures.
THEOREM TypeCorrect == Spec => []TypeOK
<1>1. TypeOK /\ [Next]_vars => TypeOK'
  BY Step
<1> QED
  BY <1>1, InitType, PTL DEF Spec

-----------------------------------------------------------------------------
(* What a step can do to each variable that the safety properties speak of. *)

LEMMA SavedChange ==
  ASSUME [Next]_vars
  PROVE  \/ \E d \in Device, r \in Record, ts \in Ts : Enqueue(d, r, ts)
         \/ UNCHANGED <<saved, nextSeq>>
<1>1. ASSUME NEW d \in Device, UserStep(d)
      PROVE  \/ \E r \in Record, ts \in Ts : Enqueue(d, r, ts)
             \/ UNCHANGED <<saved, nextSeq>>
  BY <1>1 DEF UserStep, Create, Edit, Enqueue, Delete, NoteDelete
<1>2. ASSUME NEW f \in Flush, FlushStep(f)
      PROVE  UNCHANGED <<saved, nextSeq>>
  BY <1>2 DEF FlushStep, StartFlush, Request, Commit, Refuse, Reply, ReplyNull, MergeStep,
              MergeTombstone, SkipEnvelope, ChooseEnvelope, PutEnvelope, PutCursor,
              RemoveFlushed, SendDelete, EndFlush, clientVars
<1>3. ASSUME FaultStep \/ Tick \/ UNCHANGED vars
      PROVE  UNCHANGED <<saved, nextSeq>>
  BY <1>3 DEF FaultStep, LoseRequest, LoseReply, LoseDelete, Reload, ArriveLate, DeleteLate,
              Tick, clientVars, vars
<1> QED
  BY <1>1, <1>2, <1>3 DEF Next

LEMMA OutboxChange ==
  ASSUME TypeOK, [Next]_vars, NEW d \in Device
  PROVE  /\ \A e \in outbox'[d] : e \in outbox[d] \/ (e \in saved' /\ e.dev = d)
         /\ \A e \in outbox[d] :
              \/ e \in outbox'[d]
              \/ \E f \in Flush : flush[f].pc = "acked" /\ e \in flush[f].batch
<1>1. ASSUME NEW b \in Device, NEW r \in Record, NEW ts \in Ts, Enqueue(b, r, ts)
      PROVE  /\ \A e \in outbox'[d] : e \in outbox[d] \/ (e \in saved' /\ e.dev = d)
             /\ outbox[d] \subseteq outbox'[d]
  BY <1>1 DEF Enqueue, TypeOK
<1>2. ASSUME NEW f \in Flush, RemoveFlushed(f)
      PROVE  /\ outbox'[d] \subseteq outbox[d]
             /\ \A e \in outbox[d] :
                  e \in outbox'[d] \/ (flush[f].pc = "acked" /\ e \in flush[f].batch)
  BY <1>2 DEF RemoveFlushed, OutboxAfter, TypeOK
<1>3. ASSUME NEW b \in Device, UserStep(b)
      PROVE  \/ \E r \in Record, ts \in Ts : Enqueue(b, r, ts)
             \/ UNCHANGED outbox
  BY <1>3 DEF UserStep, Create, Edit, Enqueue, Delete, NoteDelete
<1>4. ASSUME NEW f \in Flush, FlushStep(f)
      PROVE  RemoveFlushed(f) \/ UNCHANGED outbox
  BY <1>4 DEF FlushStep, StartFlush, Request, Commit, Refuse, Reply, ReplyNull, MergeStep,
              MergeTombstone, SkipEnvelope, ChooseEnvelope, PutEnvelope, PutCursor,
              SendDelete, EndFlush, clientVars
<1>5. ASSUME FaultStep \/ Tick \/ UNCHANGED vars
      PROVE  UNCHANGED outbox
  BY <1>5 DEF FaultStep, LoseRequest, LoseReply, LoseDelete, Reload, ArriveLate, DeleteLate,
              Tick, clientVars, vars
<1> QED
  BY <1>1, <1>2, <1>3, <1>4, <1>5 DEF Next

\* A copy goes when the user deletes it or a tombstone on a page removes it.
Dropped(d, r) ==
  /\ cache'[d][r] = NoCopy
  /\ \/ r \in dropping'[d]
     \/ \E f \in Flush : \E c \in flush[f].page : c.gone /\ c.rec = r

LEMMA CacheChange ==
  ASSUME TypeOK, [Next]_vars, NEW d \in Device, NEW r \in Record
  PROVE  \/ cache'[d][r] = cache[d][r]
         \/ Dropped(d, r)
         \/ \E f \in Flush : \E c \in flush[f].held :
              c.rec = r /\ cache'[d][r] = [blob |-> c.blob, sec |-> c.sec]
<1>1. cache \in [Device -> [Record -> Copy]] /\ dropping \in [Device -> SUBSET Record]
  BY DEF TypeOK
<1>2. ASSUME NEW b \in Device, UserStep(b)
      PROVE  cache'[d][r] = cache[d][r] \/ Dropped(d, r)
  <2>1. ASSUME NEW q \in Record, Delete(b, q)
        PROVE  cache'[d][r] = cache[d][r] \/ Dropped(d, r)
    <3>1. /\ cache' = [cache EXCEPT ![b][q] = NoCopy]
          /\ dropping' = [dropping EXCEPT ![b] = @ \cup {q}]
      BY <2>1 DEF Delete
    <3>2. CASE b = d /\ q = r
      BY <1>1, <3>1, <3>2 DEF Dropped
    <3>3. CASE ~(b = d /\ q = r)
      BY <1>1, <3>1, <3>3
    <3> QED
      BY <3>2, <3>3
  <2>2. ASSUME NEW q \in Record, Create(b, q) \/ Edit(b, q) \/ NoteDelete(b, q)
        PROVE  UNCHANGED cache
    BY <2>2 DEF Create, Edit, Enqueue, NoteDelete
  <2> QED
    BY <1>2, <2>1, <2>2 DEF UserStep
<1>3. ASSUME NEW f \in Flush, MergeStep(f)
      PROVE  \/ cache'[d][r] = cache[d][r]
             \/ Dropped(d, r)
             \/ \E c \in flush[f].held :
                  c.rec = r /\ cache'[d][r] = [blob |-> c.blob, sec |-> c.sec]
  <2>1. ASSUME NEW c \in flush[f].page, MergeTombstone(f, c)
        PROVE  cache'[d][r] = cache[d][r] \/ Dropped(d, r)
    <3>1. c.gone /\ cache' = [cache EXCEPT ![Owner(f)][c.rec] = NoCopy]
      BY <2>1 DEF MergeTombstone
    <3>2. CASE Owner(f) = d /\ c.rec = r
      BY <1>1, <3>1, <3>2 DEF Dropped
    <3>3. CASE ~(Owner(f) = d /\ c.rec = r)
      BY <1>1, <3>1, <3>3
    <3> QED
      BY <3>2, <3>3
  <2>2. ASSUME NEW c \in flush[f].held, PutEnvelope(f, c)
        PROVE  \/ cache'[d][r] = cache[d][r]
               \/ c.rec = r /\ cache'[d][r] = [blob |-> c.blob, sec |-> c.sec]
    BY <1>1, <2>2 DEF PutEnvelope
  <2>3. ASSUME NEW c \in flush[f].page, SkipEnvelope(f, c) \/ ChooseEnvelope(f, c)
        PROVE  UNCHANGED cache
    BY <2>3 DEF SkipEnvelope, ChooseEnvelope, clientVars
  <2>4. ASSUME PutCursor(f)
        PROVE  UNCHANGED cache
    BY <2>4 DEF PutCursor
  <2> QED
    BY <1>3, <2>1, <2>2, <2>3, <2>4 DEF MergeStep
<1>4. ASSUME NEW f \in Flush, FlushStep(f)
      PROVE  MergeStep(f) \/ UNCHANGED cache
  BY <1>4 DEF FlushStep, StartFlush, Request, Commit, Refuse, Reply, ReplyNull,
              RemoveFlushed, SendDelete, EndFlush, clientVars
<1>5. ASSUME FaultStep \/ Tick \/ UNCHANGED vars
      PROVE  UNCHANGED cache
  BY <1>5 DEF FaultStep, LoseRequest, LoseReply, LoseDelete, Reload, ArriveLate, DeleteLate,
              Tick, clientVars, vars
<1> QED
  BY <1>2, <1>3, <1>4, <1>5 DEF Next

\* Every batch that reaches the tables is one that some device saved.
LEMMA DbChange ==
  ASSUME SyncInv, [Next]_vars
  PROVE  \/ UNCHANGED db
         \/ \E x \in Tombstone : DeleteRecord(x.rec, x.ts)
         \/ \E batch \in SUBSET Envelope, d \in Device :
              SavedBy(batch, d) /\ PushEnvelopes(batch)
<1>1. ASSUME NEW f \in Flush, Commit(f)
      PROVE  \E batch \in SUBSET Envelope, d \in Device :
               SavedBy(batch, d) /\ PushEnvelopes(batch)
  <2>1. flush[f].batch \in SUBSET Envelope /\ SavedBy(flush[f].batch, Owner(f))
    BY FlushType DEF SyncInv, GoodFlush, FlushState
  <2> QED
    BY <1>1, <2>1, OwnerIsDevice DEF Commit
<1>2. ASSUME NEW f \in Flush, NEW x \in flush[f].todo, SendDelete(f, x)
      PROVE  UNCHANGED db \/ \E y \in Tombstone : DeleteRecord(y.rec, y.ts)
  <2>1. x \in Tombstone
    BY FlushType DEF SyncInv, FlushState
  <2> QED
    BY <1>2, <2>1 DEF SendDelete, HandleDelete
<1>3. ASSUME NEW f \in Flush, FlushStep(f)
      PROVE  Commit(f) \/ (\E x \in flush[f].todo : SendDelete(f, x)) \/ UNCHANGED db
  BY <1>3 DEF FlushStep, StartFlush, Request, Refuse, Reply, ReplyNull, MergeStep,
              MergeTombstone, SkipEnvelope, ChooseEnvelope, PutEnvelope, PutCursor,
              RemoveFlushed, EndFlush
<1>4. ASSUME NEW batch \in latePush, ArriveLate(batch)
      PROVE  \/ UNCHANGED db
             \/ /\ batch \in SUBSET Envelope
                /\ \E d \in Device : SavedBy(batch, d) /\ PushEnvelopes(batch)
  BY <1>4 DEF ArriveLate, SyncInv, QueuesAreSaved, TypeOK
<1>5. ASSUME NEW x \in lateDelete, DeleteLate(x)
      PROVE  UNCHANGED db \/ \E y \in Tombstone : DeleteRecord(y.rec, y.ts)
  BY <1>5 DEF DeleteLate, HandleDelete, SyncInv, TypeOK
<1>6. ASSUME FaultStep
      PROVE  \/ \E batch \in latePush : ArriveLate(batch)
             \/ \E x \in lateDelete : DeleteLate(x)
             \/ UNCHANGED db
  BY <1>6 DEF FaultStep, LoseRequest, LoseReply, LoseDelete, Reload
<1>7. ASSUME NEW d \in Device, UserStep(d)
      PROVE  UNCHANGED db
  BY <1>7 DEF UserStep, Create, Edit, Enqueue, Delete, NoteDelete
<1>8. ASSUME Tick \/ UNCHANGED vars
      PROVE  UNCHANGED db
  BY <1>8 DEF Tick, vars
<1> QED
  BY <1>1, <1>2, <1>3, <1>4, <1>5, <1>6, <1>7, <1>8 DEF Next

LEMMA LatePushChange ==
  ASSUME [Next]_vars, NEW batch \in latePush'
  PROVE  batch \in latePush \/ \E f \in Flush : batch = flush[f].batch
<1>1. ASSUME NEW d \in Device, UserStep(d)
      PROVE  UNCHANGED latePush
  BY <1>1 DEF UserStep, Create, Edit, Enqueue, Delete, NoteDelete, netVars
<1>2. ASSUME NEW f \in Flush, FlushStep(f)
      PROVE  UNCHANGED latePush
  BY <1>2 DEF FlushStep, StartFlush, Request, Commit, Refuse, Reply, ReplyNull, MergeStep,
              MergeTombstone, SkipEnvelope, ChooseEnvelope, PutEnvelope, PutCursor,
              RemoveFlushed, SendDelete, EndFlush, netVars
<1>3. ASSUME NEW f \in Flush, LoseRequest(f)
      PROVE  batch \in latePush \/ batch = flush[f].batch
  BY <1>3 DEF LoseRequest, Late
<1>4. ASSUME NEW d \in Device, Reload(d)
      PROVE  batch \in latePush \/ \E f \in Flush : batch = flush[f].batch
  BY <1>4 DEF Reload, Late
<1>5. ASSUME FaultStep
      PROVE  \/ \E f \in Flush : LoseRequest(f)
             \/ \E d \in Device : Reload(d)
             \/ latePush' \subseteq latePush
  BY <1>5 DEF FaultStep, LoseReply, LoseDelete, ArriveLate, DeleteLate
<1>6. ASSUME Tick \/ UNCHANGED vars
      PROVE  UNCHANGED latePush
  BY <1>6 DEF Tick, netVars, vars
<1> QED
  BY <1>1, <1>2, <1>3, <1>4, <1>5, <1>6 DEF Next

\* Unless f starts, commits its push or is answered, its batch and its page
\* only shrink, and nothing but a push makes its push done.
LEMMA FlushChange ==
  ASSUME TypeOK, [Next]_vars, NEW g \in Flush
  PROVE  \/ StartFlush(g) \/ Commit(g) \/ Reply(g)
         \/ /\ flush'[g].batch \subseteq flush[g].batch
            /\ flush'[g].page \cup flush'[g].held \subseteq flush[g].page \cup flush[g].held
            /\ flush'[g].pc \in PushDone => flush[g].pc \in PushDone
<1> DEFINE Shrinks ==
      /\ flush'[g].batch \subseteq flush[g].batch
      /\ flush'[g].page \cup flush'[g].held \subseteq flush[g].page \cup flush[g].held
      /\ flush'[g].pc \in PushDone => flush[g].pc \in PushDone
<1>1. flush \in [Flush -> FlushState] /\ flush[g] \in FlushState
  BY FlushType DEF TypeOK
<1>2. ASSUME flush'[g] = flush[g] \/ flush'[g] = NoFlush
      PROVE  Shrinks
  BY <1>2 DEF NoFlush, PushDone
<1>3. ASSUME NEW f \in Flush, NEW state, Go(f, state), f # g
      PROVE  Shrinks
  BY <1>1, <1>2, <1>3 DEF Go
<1>4. ASSUME NEW f \in Flush, FlushStep(f), f # g
      PROVE  Shrinks
  <2>1. \E state : Go(f, state)
    BY <1>4 DEF FlushStep, StartFlush, Request, Commit, Refuse, Reply, ReplyNull, MergeStep,
                MergeTombstone, SkipEnvelope, ChooseEnvelope, PutEnvelope, PutCursor,
                RemoveFlushed, SendDelete, EndFlush
  <2> QED
    BY <1>3, <1>4, <2>1
<1>5. ASSUME Request(g) \/ Refuse(g) \/ ReplyNull(g) \/ EndFlush(g) \/ RemoveFlushed(g)
      PROVE  Shrinks
  <2>1. CASE Refuse(g) \/ ReplyNull(g) \/ EndFlush(g)
    BY <1>1, <1>2, <2>1 DEF Refuse, ReplyNull, EndFlush, Go
  <2>2. CASE Request(g)
    <3>1. flush'[g] = [flush[g] EXCEPT !.pc = "sent", !.since = cursor[Owner(g)]]
      BY <1>1, <2>2 DEF Request, Go
    <3> QED
      BY <1>1, <3>1 DEF FlushState, PushDone
  <2>3. CASE RemoveFlushed(g)
    <3>1. flush'[g] = [NoFlush EXCEPT !.pc = "deleting", !.todo = Pending(Owner(g))]
      BY <1>1, <2>3 DEF RemoveFlushed, Go
    <3> QED
      BY <3>1 DEF NoFlush, PushDone
  <2> QED
    BY <1>5, <2>1, <2>2, <2>3
<1>6. ASSUME NEW c \in flush[g].page,
             MergeTombstone(g, c) \/ SkipEnvelope(g, c) \/ ChooseEnvelope(g, c)
      PROVE  Shrinks
  <2>1. \/ flush'[g] = [flush[g] EXCEPT !.page = @ \ {c}]
        \/ flush'[g] = [flush[g] EXCEPT !.page = @ \ {c}, !.held = {c}]
    BY <1>1, <1>6 DEF MergeTombstone, SkipEnvelope, ChooseEnvelope, Go
  <2>2. /\ flush'[g].batch = flush[g].batch
        /\ flush'[g].pc = flush[g].pc
        /\ flush'[g].page = flush[g].page \ {c}
        /\ flush'[g].held \in {flush[g].held, {c}}
    BY <1>1, <2>1 DEF FlushState
  <2> QED
    BY <1>6, <2>2
<1>7. ASSUME NEW c \in flush[g].held, PutEnvelope(g, c)
      PROVE  Shrinks
  BY <1>1, <1>7 DEF PutEnvelope, Go, FlushState
<1>8. ASSUME PutCursor(g)
      PROVE  Shrinks
  BY <1>1, <1>8 DEF PutCursor, Go, FlushState, NoFlush, PushDone
<1>9. ASSUME NEW x \in flush[g].todo, SendDelete(g, x)
      PROVE  Shrinks
  BY <1>1, <1>9 DEF SendDelete, Go, FlushState
<1>10. ASSUME NEW f \in Flush, LoseRequest(f) \/ LoseReply(f)
       PROVE  Shrinks
  BY <1>1, <1>2, <1>10 DEF LoseRequest, LoseReply, Go
<1>11. ASSUME NEW f \in Flush, NEW x \in flush[f].todo, LoseDelete(f, x)
       PROVE  Shrinks
  <2>1. Go(f, [flush[f] EXCEPT !.todo = @ \ {x}])
    BY <1>11 DEF LoseDelete
  <2>2. CASE f = g
    BY <1>1, <2>1, <2>2 DEF Go, FlushState
  <2> QED
    BY <1>3, <2>1, <2>2
<1>12. ASSUME NEW d \in Device, Reload(d)
       PROVE  Shrinks
  BY <1>1, <1>2, <1>12 DEF Reload
<1>13. ASSUME \/ \E d \in Device : UserStep(d)
              \/ \E batch \in latePush : ArriveLate(batch)
              \/ \E x \in lateDelete : DeleteLate(x)
              \/ Tick \/ UNCHANGED vars
       PROVE  Shrinks
  BY <1>2, <1>13 DEF UserStep, Create, Edit, Enqueue, Delete, NoteDelete, ArriveLate, DeleteLate,
                     Tick, vars
<1> QED
  <2>1. FlushStep(g) => Shrinks \/ StartFlush(g) \/ Commit(g) \/ Reply(g)
    BY <1>5, <1>6, <1>7, <1>8, <1>9 DEF FlushStep, MergeStep
  <2> HIDE DEF Shrinks
  <2>2. FaultStep => Shrinks
    BY <1>10, <1>11, <1>12, <1>13 DEF FaultStep
  <2>3. Shrinks \/ StartFlush(g) \/ Commit(g) \/ Reply(g)
    BY <1>4, <1>13, <2>1, <2>2 DEF Next
  <2> QED
    BY <2>3 DEF Shrinks

-----------------------------------------------------------------------------
(* What lasts: a covered envelope stays covered, a committed one committed. *)

LEMMA CoveredStays ==
  ASSUME TypeOK, TypeOK', \A r \in Record : RowAdvances(r, db[r], db'[r])
  PROVE  \A e \in Envelope : Covered(e) => Covered(e)'
<1> SUFFICES ASSUME NEW e \in Envelope, Covered(e)
             PROVE  Covered(e)'
  OBVIOUS
<1>1. e.rec \in Record /\ e.ts \in Nat
  BY ServerAssumption DEF Envelope, Ts
<1>2. db[e.rec].ts \in Nat /\ db'[e.rec].ts \in Nat
  BY <1>1, ServerAssumption DEF TypeOK, ServerTypeOK, Row
<1>3. RowAdvances(e.rec, db[e.rec], db'[e.rec])
  BY <1>1
<1> QED
  BY <1>1, <1>2, <1>3 DEF Covered, RowAdvances

LEMMA CommittedStays ==
  ASSUME TypeOK, TypeOK', saved \subseteq saved',
         \A r \in Record : RowAdvances(r, db[r], db'[r])
  PROVE  \A r, blob, sec : Committed(r, blob, sec) => Committed(r, blob, sec)'
<1> SUFFICES ASSUME NEW r, NEW blob, NEW sec, Committed(r, blob, sec)
             PROVE  Committed(r, blob, sec)'
  OBVIOUS
<1>1. PICK e \in saved : e.rec = r /\ BlobOf(e) = blob /\ Seconds(e.ts) = sec /\ Covered(e)
  BY DEF Committed
<1>2. e \in Envelope /\ e \in saved'
  BY <1>1 DEF TypeOK
<1>3. Covered(e)'
  BY <1>1, <1>2, CoveredStays
<1> QED
  BY <1>1, <1>2, <1>3 DEF Committed

\* No two saves share a sequence number, so a batch lists each row once.
LEMMA BatchIsOneEach ==
  ASSUME SavedOnce, NEW batch, NEW d \in Device, SavedBy(batch, d)
  PROVE  OneEach(batch)
  BY DEF SavedOnce, SavedBy, OneEach, BlobOf

LEMMA PushCovers ==
  ASSUME TypeOK, SavedOnce, NEW batch \in SUBSET Envelope, NEW d \in Device,
         SavedBy(batch, d), PushEnvelopes(batch)
  PROVE  \A e \in batch : Covered(e)'
<1> SUFFICES ASSUME NEW e \in batch
             PROVE  Covered(e)'
  OBVIOUS
<1>1. e.rec \in Record /\ db[e.rec] \in Row
  BY DEF Envelope, TypeOK, ServerTypeOK
<1>2. Accounts(Upserted(db[e.rec], batch, e.rec), e, e.rec)
  BY <1>1, BatchIsOneEach, UpsertedAccounts
<1>3. db'[e.rec] = Upserted(db[e.rec], batch, e.rec)
  BY <1>1 DEF PushEnvelopes
<1> QED
  BY <1>2, <1>3 DEF Covered, Accounts

-----------------------------------------------------------------------------
(* The conjuncts of SyncInv. *)

LEMMA SavedGrows ==
  ASSUME [Next]_vars
  PROVE  saved \subseteq saved'
  BY SavedChange DEF Enqueue

LEMMA SavedOnceStays ==
  ASSUME TypeOK, SavedOnce, [Next]_vars
  PROVE  SavedOnce'
<1>1. ASSUME NEW d \in Device, NEW r \in Record, NEW ts \in Ts, Enqueue(d, r, ts)
      PROVE  SavedOnce'
  <2> DEFINE new == [dev |-> d, seq |-> nextSeq[d], rec |-> r, ts |-> ts]
  <2>1. saved' = saved \cup {new} /\ nextSeq' = [nextSeq EXCEPT ![d] = @ + 1]
    BY <1>1 DEF Enqueue
  <2>2. nextSeq[d] \in Nat /\ \A e \in saved : e.dev \in Device /\ e.seq \in Nat
    BY ServerAssumption DEF TypeOK, Envelope, Seqs
  <2>3. \A e \in saved' : e.seq < nextSeq'[e.dev]
    <3>1. \A e \in saved : nextSeq'[e.dev] \in {nextSeq[e.dev], nextSeq[e.dev] + 1}
                          /\ nextSeq[e.dev] \in Nat
      BY <2>1, <2>2 DEF TypeOK
    <3>2. new.seq < nextSeq'[new.dev]
      BY <2>1, <2>2 DEF TypeOK
    <3> QED
      BY <2>1, <2>2, <3>1, <3>2 DEF SavedOnce
  <2>4. \A e \in saved : BlobOf(e) # BlobOf(new)
    BY <2>2 DEF SavedOnce, BlobOf
  <2> QED
    BY <2>1, <2>3, <2>4 DEF SavedOnce, BlobOf
<1>2. ASSUME UNCHANGED <<saved, nextSeq>>
      PROVE  SavedOnce'
  BY <1>2 DEF SavedOnce, BlobOf
<1> QED
  BY <1>1, <1>2, SavedChange

LEMMA QueuesStaySaved ==
  ASSUME SyncInv, [Next]_vars
  PROVE  QueuesAreSaved'
<1>1. saved \subseteq saved'
  BY SavedGrows
<1>2. ASSUME NEW d \in Device
      PROVE  SavedBy(outbox[d], d)'
  BY <1>1, OutboxChange DEF SyncInv, QueuesAreSaved, SavedBy
<1>3. ASSUME NEW batch \in latePush'
      PROVE  \E d \in Device : SavedBy(batch, d)'
  <2>1. \E d \in Device : SavedBy(batch, d)
    BY LatePushChange, OwnerIsDevice DEF SyncInv, QueuesAreSaved, GoodFlush
  <2> QED
    BY <1>1, <2>1 DEF SavedBy
<1> QED
  BY <1>2, <1>3 DEF QueuesAreSaved

LEMMA RowsStaySaved ==
  ASSUME SyncInv, [Next]_vars
  PROVE  RowsAreSaved'
<1> DEFINE Good(r) ==
      /\ db'[r].status = "live" => db'[r].blob # Zeroed
      /\ db'[r].blob # Zeroed =>
           /\ db'[r].status # "absent"
           /\ \E e \in saved' : e.rec = r /\ BlobOf(e) = db'[r].blob /\ e.ts = db'[r].ts
<1> SUFFICES ASSUME NEW r \in Record
             PROVE  Good(r)
  BY DEF RowsAreSaved, BlobOf
<1>1. saved \subseteq saved' /\ db \in [Record -> Row]
  BY SavedGrows DEF SyncInv, TypeOK, ServerTypeOK
<1>2. CASE db'[r] = db[r]
  BY <1>1, <1>2 DEF SyncInv, RowsAreSaved
<1>3. ASSUME NEW batch \in SUBSET Envelope, NEW d \in Device,
             SavedBy(batch, d), PushEnvelopes(batch), db'[r] # db[r]
      PROVE  Good(r)
  <2>1. db'[r] = Upserted(db[r], batch, r)
    BY <1>3 DEF PushEnvelopes
  <2>2. PICK e \in batch : /\ e.rec = r
                           /\ db'[r].status = StatusAfterPush(db[r])
                           /\ db'[r].blob = BlobOf(e)
                           /\ db'[r].ts = e.ts
    BY <1>1, <1>3, <2>1, UpsertedAdvances
  <2>3. e \in saved' /\ StatusAfterPush(db[r]) # "absent"
    BY <1>1, <1>3 DEF SavedBy, StatusAfterPush
  <2>4. BlobOf(e) # Zeroed
    BY ServerAssumption DEF Envelope, BlobOf, Ciphertext
  <2> QED
    BY <2>2, <2>3, <2>4
<1>4. ASSUME NEW x \in Tombstone, DeleteRecord(x.rec, x.ts), db'[r] # db[r]
      PROVE  Good(r)
  <2>1. db'[r] = [status |-> "tombstone", blob |-> Zeroed, ts |-> x.ts]
    BY <1>1, <1>4 DEF DeleteRecord
  <2> QED
    BY <2>1
<1> QED
  BY <1>2, <1>3, <1>4, DbChange

\* A pull copies rows that account for what they hold.
LEMMA ChangesAreGood ==
  ASSUME SyncInv, NEW r \in Record, db[r].status # "absent"
  PROVE  GoodChange(ChangeOf(r))
<1>1. /\ ChangeOf(r).rec = r /\ ChangeOf(r).blob = db[r].blob
      /\ ChangeOf(r).sec = Seconds(db[r].ts)
      /\ ChangeOf(r).gone = (db[r].status = "tombstone")
  BY DEF ChangeOf
<1>2. ASSUME db[r].blob # Zeroed
      PROVE  Committed(r, db[r].blob, Seconds(db[r].ts))
  <2>1. PICK e \in saved : e.rec = r /\ BlobOf(e) = db[r].blob /\ e.ts = db[r].ts
    BY <1>2 DEF SyncInv, RowsAreSaved
  <2>2. e.ts \in Nat
    BY <2>1, ServerAssumption DEF SyncInv, TypeOK, Envelope, Ts
  <2>3. Covered(e)
    BY <2>1, <2>2 DEF Covered
  <2> QED
    BY <2>1, <2>3 DEF Committed
<1>3. db[r].status = "tombstone" \/ db[r].blob # Zeroed
  BY DEF SyncInv, TypeOK, ServerTypeOK, Row, RowsAreSaved
<1> QED
  BY <1>1, <1>2, <1>3 DEF GoodChange

LEMMA GoodChangesStay ==
  ASSUME TypeOK, TypeOK', saved \subseteq saved',
         \A r \in Record : RowAdvances(r, db[r], db'[r])
  PROVE  \A c \in Change : GoodChange(c) => GoodChange(c)'
<1> SUFFICES ASSUME NEW c \in Change, GoodChange(c)
             PROVE  GoodChange(c)'
  OBVIOUS
<1>1. c.blob # Zeroed => Committed(c.rec, c.blob, c.sec)'
  BY CommittedStays DEF GoodChange
<1>2. c.rec \in Record
  BY DEF Change
<1>3. db[c.rec].status = "tombstone" => db'[c.rec].status = "tombstone"
  BY <1>2 DEF RowAdvances
<1> QED
  BY <1>1, <1>3 DEF GoodChange

LEMMA FlushesStayGood ==
  ASSUME SyncInv, TypeOK', \A r \in Record : RowAdvances(r, db[r], db'[r]),
         [Next]_vars, NEW g \in Flush
  PROVE  GoodFlush(g)'
<1> DEFINE Sent == \A e \in flush'[g].batch : e \in saved' /\ e.dev = Owner(g)
           Done == flush'[g].pc \in PushDone => \A e \in flush'[g].batch : Covered(e)'
           Paged == \A c \in flush'[g].page \cup flush'[g].held :
                      GoodChange(c)'
<1>1. TypeOK /\ GoodFlush(g) /\ saved \subseteq saved' /\ flush[g] \in FlushState
  BY SavedGrows, FlushType DEF SyncInv
<1>2. \A e \in Envelope : Covered(e) => Covered(e)'
  BY <1>1, CoveredStays
<1>3. \A c \in flush[g].page \cup flush[g].held : GoodChange(c)'
  BY <1>1, GoodChangesStay DEF GoodFlush, FlushState
<1>4. flush[g].batch \in SUBSET Envelope /\ flush \in [Flush -> FlushState]
  BY <1>1 DEF FlushState, TypeOK
<1>5. CASE /\ flush'[g].batch \subseteq flush[g].batch
           /\ flush'[g].page \cup flush'[g].held \subseteq flush[g].page \cup flush[g].held
           /\ flush'[g].pc \in PushDone => flush[g].pc \in PushDone
  <2>1. Sent
    BY <1>1, <1>5 DEF GoodFlush, SavedBy
  <2>2. Done
    BY <1>1, <1>2, <1>4, <1>5 DEF GoodFlush
  <2>3. Paged
    BY <1>1, <1>3, <1>5 DEF GoodFlush
  <2> QED
    BY <2>1, <2>2, <2>3 DEF GoodFlush, SavedBy
<1>6. CASE StartFlush(g)
  <2>1. PICK batch \in SUBSET outbox[Owner(g)] :
          Go(g, [NoFlush EXCEPT !.pc = "drained", !.batch = batch])
    BY <1>6 DEF StartFlush
  <2>2. flush'[g] = [NoFlush EXCEPT !.pc = "drained", !.batch = batch]
    BY <1>4, <2>1 DEF Go
  <2>3. /\ flush'[g].batch = batch /\ flush'[g].pc = "drained"
        /\ flush'[g].page = {} /\ flush'[g].held = {}
    BY <2>2 DEF NoFlush
  <2>4. Sent
    BY <1>1, <2>1, <2>3, OwnerIsDevice DEF SyncInv, QueuesAreSaved, SavedBy
  <2> QED
    BY <2>3, <2>4 DEF GoodFlush, SavedBy, PushDone
<1>7. CASE Commit(g)
  <2>1. flush'[g] = [flush[g] EXCEPT !.pc = "pushed"]
    BY <1>4, <1>7 DEF Commit, Go
  <2>2. /\ flush'[g].batch = flush[g].batch
        /\ flush'[g].page = flush[g].page /\ flush'[g].held = flush[g].held
    BY <1>1, <2>1 DEF FlushState
  <2>3. \A e \in flush[g].batch : Covered(e)'
    BY <1>1, <1>4, <1>7, PushCovers, OwnerIsDevice DEF Commit, SyncInv, GoodFlush
  <2>4. Sent /\ Paged
    BY <1>1, <1>3, <2>2 DEF GoodFlush, SavedBy
  <2> QED
    BY <2>2, <2>3, <2>4 DEF GoodFlush, SavedBy
<1>8. CASE Reply(g)
  <2>1. PICK page \in SUBSET Changed(flush[g].since) :
          \E last \in page :
            Go(g, [NoFlush EXCEPT !.pc = "merging", !.batch = flush[g].batch,
                                  !.page = {ChangeOf(r) : r \in page}, !.next = db[last].ts])
    BY <1>8 DEF Reply
  <2>2. /\ flush'[g].batch = flush[g].batch
        /\ flush'[g].page = {ChangeOf(r) : r \in page} /\ flush'[g].held = {}
    BY <1>4, <2>1 DEF Go, NoFlush
  <2>3. flush[g].pc \in PushDone
    BY <1>8 DEF Reply, PushDone
  <2>4. Sent /\ Done
    BY <1>1, <1>2, <1>4, <2>2, <2>3 DEF GoodFlush, SavedBy
  <2>5. Paged
    <3>1. \A r \in page : r \in Record /\ db[r].status # "absent" /\ ChangeOf(r) \in Change
      BY <1>1, <2>1, ChangeOfType DEF Changed, TypeOK
    <3>2. \A r \in page : GoodChange(ChangeOf(r))
      BY <3>1, ChangesAreGood
    <3>3. \A c \in Change : GoodChange(c) => GoodChange(c)'
      BY <1>1, GoodChangesStay
    <3> QED
      BY <2>2, <3>1, <3>2, <3>3
  <2> QED
    BY <2>4, <2>5 DEF GoodFlush, SavedBy
<1> QED
  BY <1>1, <1>5, <1>6, <1>7, <1>8, FlushChange

LEMMA NoWriteLost ==
  ASSUME SyncInv, TypeOK', \A r \in Record : RowAdvances(r, db[r], db'[r]), [Next]_vars
  PROVE  NoLostWrite'
<1> SUFFICES ASSUME NEW e \in saved', e \notin outbox'[e.dev]
             PROVE  Covered(e)'
  BY DEF NoLostWrite
<1>1. TypeOK /\ \A g \in Envelope : Covered(g) => Covered(g)'
  BY CoveredStays DEF SyncInv
<1>2. ASSUME NEW d \in Device, NEW r \in Record, NEW ts \in Ts, Enqueue(d, r, ts)
      PROVE  e \in saved
  BY <1>1, <1>2 DEF Enqueue, TypeOK
<1>3. e \in saved /\ e \in Envelope /\ e.dev \in Device
  BY <1>1, <1>2, SavedChange DEF TypeOK, Envelope
<1>4. CASE Covered(e)
  BY <1>1, <1>3, <1>4
<1>5. CASE e \in outbox[e.dev]
  <2>1. PICK f \in Flush : flush[f].pc = "acked" /\ e \in flush[f].batch
    BY <1>1, <1>3, <1>5, OutboxChange
  <2> QED
    BY <1>1, <1>3, <2>1 DEF SyncInv, GoodFlush, PushDone
<1> QED
  BY <1>3, <1>4, <1>5 DEF SyncInv, NoLostWrite

LEMMA CacheStaysCommitted ==
  ASSUME SyncInv, TypeOK', \A r \in Record : RowAdvances(r, db[r], db'[r]), [Next]_vars
  PROVE  CachedIsCommitted'
<1> SUFFICES ASSUME NEW d \in Device, NEW r \in Record, cache'[d][r].blob # Zeroed
             PROVE  Committed(r, cache[d][r].blob, cache[d][r].sec)'
  BY DEF CachedIsCommitted
<1>1. \A q, blob, sec : Committed(q, blob, sec) => Committed(q, blob, sec)'
  BY SavedGrows, CommittedStays DEF SyncInv
<1>2. Committed(r, cache'[d][r].blob, cache'[d][r].sec)
  <2>1. CASE cache'[d][r] = cache[d][r]
    BY <2>1 DEF SyncInv, CachedIsCommitted
  <2>2. ASSUME NEW f \in Flush, NEW c \in flush[f].held,
               c.rec = r, cache'[d][r] = [blob |-> c.blob, sec |-> c.sec]
        PROVE  Committed(r, cache'[d][r].blob, cache'[d][r].sec)
    BY <2>2 DEF SyncInv, GoodFlush, GoodChange
  <2>3. ~Dropped(d, r)
    BY DEF Dropped, NoCopy
  <2>4. \/ cache'[d][r] = cache[d][r]
        \/ \E f \in Flush : \E c \in flush[f].held :
             c.rec = r /\ cache'[d][r] = [blob |-> c.blob, sec |-> c.sec]
    <3>1. TypeOK
      BY DEF SyncInv
    <3> QED
      BY <2>3, <3>1, CacheChange
  <2> QED
    BY <2>1, <2>2, <2>4
<1> QED
  BY <1>1, <1>2

LEMMA InitInv == Init => SyncInv
<1> SUFFICES ASSUME Init PROVE SyncInv
  OBVIOUS
<1>1. \A f \in Flush : GoodFlush(f)
  BY DEF Init, GoodFlush, NoFlush, SavedBy, PushDone
<1> QED
  BY <1>1, InitType DEF Init, ServerInit, AbsentRow, SyncInv, SavedOnce, QueuesAreSaved, SavedBy,
                        RowsAreSaved, NoLostWrite, CachedIsCommitted, NoCopy

\* SyncInv is inductive: with it, NoLostWrite and CachedIsCommitted hold of
\* every interleaving.
THEOREM InvHolds == Spec => []SyncInv
<1>1. SyncInv /\ [Next]_vars => SyncInv'
  <2> SUFFICES ASSUME SyncInv, [Next]_vars
               PROVE  SyncInv'
    OBVIOUS
  <2>1. TypeOK' /\ \A r \in Record : RowAdvances(r, db[r], db'[r])
    BY Step DEF SyncInv
  <2>2. SavedOnce'
    BY SavedOnceStays DEF SyncInv
  <2>3. QueuesAreSaved' /\ RowsAreSaved'
    BY QueuesStaySaved, RowsStaySaved
  <2>4. (\A f \in Flush : GoodFlush(f))'
    BY <2>1, FlushesStayGood
  <2>5. NoLostWrite' /\ CachedIsCommitted'
    BY <2>1, NoWriteLost, CacheStaysCommitted
  <2> QED
    BY <2>1, <2>2, <2>3, <2>4, <2>5 DEF SyncInv
<1> QED
  BY <1>1, InitInv, PTL DEF Spec

\* No save is lost: it is in its device's outbox or the server accounts for it
\* (flush of engine.ts, removeFlushed of outbox.ts).
THEOREM NoWriteIsLost == Spec => []NoLostWrite
<1>1. SyncInv => NoLostWrite
  BY DEF SyncInv
<1> QED
  BY <1>1, InvHolds, PTL

\* Devices show only what some device saved and the server committed
\* (PullChanges of sync.go, mergeChange of merge.ts).
THEOREM CachesAreCommitted == Spec => []CachedIsCommitted
<1>1. SyncInv => CachedIsCommitted
  BY DEF SyncInv
<1> QED
  BY <1>1, InvHolds, PTL

\* A device gives up a copy only to its user's delete or to a tombstone that
\* is on the server at that moment (mergeChange of merge.ts, deleteRecord of
\* store.ts).
THEOREM CopiesGoWhenDeleted == Spec => CopiesGoOnlyWhenDeleted
<1>1. SyncInv /\ [Next]_vars =>
        [\A d \in Device, r \in Record :
           (cache[d][r].blob # Zeroed /\ cache'[d][r].blob = Zeroed)
             => \/ db[r].status = "tombstone"
                \/ r \in dropping'[d]]_vars
  <2> SUFFICES ASSUME SyncInv, [Next]_vars, NEW d \in Device, NEW r \in Record,
                      cache[d][r].blob # Zeroed, cache'[d][r].blob = Zeroed
               PROVE  db[r].status = "tombstone" \/ r \in dropping'[d]
    OBVIOUS
  <2>1. TypeOK
    BY DEF SyncInv
  <2>2. CASE Dropped(d, r)
    <3>1. ASSUME NEW f \in Flush, NEW c \in flush[f].page, c.gone, c.rec = r
          PROVE  db[r].status = "tombstone"
      BY <3>1 DEF SyncInv, GoodFlush, GoodChange
    <3> QED
      BY <2>2, <3>1 DEF Dropped
  <2>3. ASSUME NEW f \in Flush, NEW c \in flush[f].held,
               c.rec = r, cache'[d][r] = [blob |-> c.blob, sec |-> c.sec]
        PROVE  db[r].status = "tombstone"
    BY <2>3 DEF SyncInv, GoodFlush, GoodChange
  <2>4. \/ Dropped(d, r)
        \/ \E f \in Flush : \E c \in flush[f].held :
             c.rec = r /\ cache'[d][r] = [blob |-> c.blob, sec |-> c.sec]
    BY <2>1, CacheChange
  <2> QED
    BY <2>2, <2>3, <2>4
<1> QED
  BY <1>1, InvHolds, PTL DEF Spec, CopiesGoOnlyWhenDeleted

-----------------------------------------------------------------------------
(* Cursors: what a flush carries to its device's cursor is in the tables. *)

\* Some row that is there is at least as new.
Reached(ts) == ts # 0 => \E r \in Record : db[r].status # "absent" /\ ts <= db[r].ts

CursorInv ==
  /\ TypeOK
  /\ \A f \in Flush : Reached(flush[f].next)
  /\ \A d \in Device : Reached(cursor[d])

LEMMA ReachedStays ==
  ASSUME TypeOK, TypeOK', \A r \in Record : RowAdvances(r, db[r], db'[r])
  PROVE  \A ts \in 0..MaxTs : Reached(ts) => Reached(ts)'
<1> SUFFICES ASSUME NEW ts \in 0..MaxTs, ts # 0, NEW r \in Record,
                    db[r].status # "absent", ts <= db[r].ts
             PROVE  db'[r].status # "absent" /\ ts <= db'[r].ts
  BY DEF Reached
<1>1. db[r].ts \in Nat /\ db'[r].ts \in Nat /\ ts \in Nat
  BY ServerAssumption DEF TypeOK, ServerTypeOK, Row
<1>2. db'[r].status # "absent" /\ db[r].ts <= db'[r].ts
  BY DEF RowAdvances
<1> QED
  BY <1>1, <1>2

LEMMA CursorChange ==
  ASSUME TypeOK, [Next]_vars, NEW d \in Device
  PROVE  \/ cursor'[d] = cursor[d]
         \/ \E f \in Flush : cursor'[d] = flush[f].next
<1>1. ASSUME FaultStep \/ Tick \/ UNCHANGED vars
      PROVE  UNCHANGED cursor
  BY <1>1 DEF FaultStep, LoseRequest, LoseReply, LoseDelete, Reload, ArriveLate, DeleteLate,
              Tick, clientVars, vars
<1>2. ASSUME NEW x \in Device, UserStep(x)
      PROVE  UNCHANGED cursor
  BY <1>2 DEF UserStep, Create, Edit, Enqueue, Delete, NoteDelete
<1>3. ASSUME NEW f \in Flush, FlushStep(f)
      PROVE  PutCursor(f) \/ UNCHANGED cursor
  BY <1>3 DEF FlushStep, StartFlush, Request, Commit, Refuse, Reply, ReplyNull, MergeStep,
              MergeTombstone, SkipEnvelope, ChooseEnvelope, PutEnvelope,
              RemoveFlushed, SendDelete, EndFlush, clientVars
<1>4. ASSUME NEW f \in Flush, PutCursor(f)
      PROVE  cursor'[d] \in {cursor[d], flush[f].next}
  BY <1>4 DEF PutCursor, TypeOK
<1> QED
  BY <1>1, <1>2, <1>3, <1>4 DEF Next

\* Only the server's answer gives a flush a cursor to store.
LEMMA NextChange ==
  ASSUME TypeOK, [Next]_vars, NEW g \in Flush
  PROVE  Reply(g) \/ flush'[g].next \in {0, flush[g].next}
<1> DEFINE Kept == flush'[g].next \in {0, flush[g].next}
<1>1. flush \in [Flush -> FlushState] /\ flush[g] \in FlushState
  BY FlushType DEF TypeOK
<1>2. ASSUME flush'[g] = flush[g] \/ flush'[g] = NoFlush
      PROVE  Kept
  BY <1>2 DEF NoFlush
<1>3. ASSUME NEW f \in Flush, NEW state, Go(f, state), f # g
      PROVE  Kept
  BY <1>1, <1>2, <1>3 DEF Go
<1>4. ASSUME NEW f \in Flush, FlushStep(f), f # g
      PROVE  Kept
  <2>1. \E state : Go(f, state)
    BY <1>4 DEF FlushStep, StartFlush, Request, Commit, Refuse, Reply, ReplyNull, MergeStep,
                MergeTombstone, SkipEnvelope, ChooseEnvelope, PutEnvelope, PutCursor,
                RemoveFlushed, SendDelete, EndFlush
  <2> QED
    BY <1>3, <1>4, <2>1
<1>5. ASSUME FlushStep(g), ~Reply(g)
      PROVE  Kept
  <2>1. CASE StartFlush(g) \/ RemoveFlushed(g)
    BY <1>1, <2>1 DEF StartFlush, RemoveFlushed, Go, NoFlush
  <2>2. CASE Request(g) \/ Commit(g)
    <3>1. \/ flush'[g] = [flush[g] EXCEPT !.pc = "sent", !.since = cursor[Owner(g)]]
          \/ flush'[g] = [flush[g] EXCEPT !.pc = "pushed"]
      BY <1>1, <2>2 DEF Request, Commit, Go
    <3> QED
      BY <1>1, <3>1 DEF FlushState
  <2>3. CASE Refuse(g) \/ ReplyNull(g) \/ EndFlush(g)
    BY <1>1, <1>2, <2>3 DEF Refuse, ReplyNull, EndFlush, Go
  <2>4. CASE PutCursor(g)
    BY <1>1, <2>4 DEF PutCursor, Go, FlushState, NoFlush
  <2>5. ASSUME NEW c, \/ MergeTombstone(g, c) \/ SkipEnvelope(g, c)
                      \/ ChooseEnvelope(g, c) \/ PutEnvelope(g, c)
        PROVE  Kept
    BY <1>1, <2>5 DEF MergeTombstone, SkipEnvelope, ChooseEnvelope, PutEnvelope, Go, FlushState
  <2>6. ASSUME NEW x, SendDelete(g, x)
        PROVE  Kept
    BY <1>1, <2>6 DEF SendDelete, Go, FlushState
  <2> HIDE DEF Kept
  <2> QED
    BY <1>5, <2>1, <2>2, <2>3, <2>4, <2>5, <2>6 DEF FlushStep, MergeStep
<1>6. ASSUME FaultStep
      PROVE  Kept
  <2>1. ASSUME NEW f \in Flush, LoseRequest(f) \/ LoseReply(f)
        PROVE  Kept
    BY <1>1, <1>2, <2>1 DEF LoseRequest, LoseReply, Go
  <2>2. ASSUME NEW f \in Flush, NEW x, LoseDelete(f, x)
        PROVE  Kept
    <3>1. Go(f, [flush[f] EXCEPT !.todo = @ \ {x}])
      BY <2>2 DEF LoseDelete
    <3>2. CASE f = g
      BY <1>1, <3>1, <3>2 DEF Go, FlushState
    <3> QED
      BY <1>3, <3>1, <3>2
  <2>3. ASSUME NEW d \in Device, Reload(d)
        PROVE  Kept
    BY <1>1, <1>2, <2>3 DEF Reload
  <2>4. ASSUME \/ \E batch \in latePush : ArriveLate(batch)
               \/ \E x \in lateDelete : DeleteLate(x)
        PROVE  Kept
    BY <1>2, <2>4 DEF ArriveLate, DeleteLate
  <2> HIDE DEF Kept
  <2> QED
    BY <1>6, <2>1, <2>2, <2>3, <2>4 DEF FaultStep
<1>7. ASSUME (\E d \in Device : UserStep(d)) \/ Tick \/ UNCHANGED vars
      PROVE  Kept
  BY <1>2, <1>7 DEF UserStep, Create, Edit, Enqueue, Delete, NoteDelete, Tick, vars
<1> HIDE DEF Kept
<1>8. Reply(g) \/ Kept
  BY <1>4, <1>5, <1>6, <1>7 DEF Next
<1> QED
  BY <1>8 DEF Kept

\* The server's answer carries the timestamp of one of its rows.
LEMMA RepliesAreReached ==
  ASSUME TypeOK, NEW f \in Flush, Reply(f)
  PROVE  Reached(flush[f].next)'
<1>1. PICK page \in SUBSET Changed(flush[f].since) : \E last \in page :
        Go(f, [NoFlush EXCEPT !.pc = "merging", !.batch = flush[f].batch,
                              !.page = {ChangeOf(r) : r \in page}, !.next = db[last].ts])
  BY DEF Reply
<1>2. PICK last \in page :
        Go(f, [NoFlush EXCEPT !.pc = "merging", !.batch = flush[f].batch,
                              !.page = {ChangeOf(r) : r \in page}, !.next = db[last].ts])
  BY <1>1
<1>3. flush'[f].next = db[last].ts
  BY <1>2 DEF Go, TypeOK, NoFlush
<1>4. db' = db /\ last \in Record /\ db[last].status # "absent" /\ db[last].ts \in Nat
  BY ServerAssumption DEF Reply, Changed, TypeOK, ServerTypeOK, Row
<1> QED
  BY <1>3, <1>4 DEF Reached

\* A cursor is never ahead of every row (PullChanges of sync.go, flush and
\* pull of engine.ts).
THEOREM CursorsStayWithin == Spec => []CursorWithinTables
<1>1. Init => CursorInv
  BY InitType DEF Init, CursorInv, Reached, NoFlush
<1>2. CursorInv /\ [Next]_vars => CursorInv'
  <2> SUFFICES ASSUME CursorInv, [Next]_vars
               PROVE  CursorInv'
    OBVIOUS
  <2>1. TypeOK /\ TypeOK' /\ \A r \in Record : RowAdvances(r, db[r], db'[r])
    BY Step DEF CursorInv
  <2>2. \A ts \in 0..MaxTs : Reached(ts) => Reached(ts)'
    BY <2>1, ReachedStays
  <2>3. \A f \in Flush : Reached(flush[f].next) /\ flush[f].next \in 0..MaxTs
    BY <2>1, FlushType DEF CursorInv, FlushState
  <2>4. ASSUME NEW f \in Flush
        PROVE  Reached(flush[f].next)'
    <3>1. CASE Reply(f)
      BY <2>1, <3>1, RepliesAreReached
    <3>2. CASE flush'[f].next \in {0, flush[f].next}
      BY <2>2, <2>3, <3>2 DEF Reached
    <3> QED
      BY <2>1, <3>1, <3>2, NextChange
  <2>5. ASSUME NEW d \in Device
        PROVE  Reached(cursor[d])'
    <3>1. Reached(cursor[d]) /\ cursor[d] \in 0..MaxTs
      BY <2>1 DEF CursorInv, TypeOK
    <3>2. \E ts \in 0..MaxTs : Reached(ts) /\ cursor'[d] = ts
      BY <2>1, <2>3, <3>1, CursorChange
    <3> QED
      BY <2>2, <3>2 DEF Reached
  <2> QED
    BY <2>1, <2>4, <2>5 DEF CursorInv
<1>3. CursorInv => CursorWithinTables
  BY DEF CursorInv, Reached, CursorWithinTables
<1> QED
  BY <1>1, <1>2, <1>3, PTL DEF Spec

-----------------------------------------------------------------------------
(* SyncSystem implements Ledger.                                           *)

Register == [r \in Record |-> VersionOf(r, db[r])]

\* A live row written from an envelope stands for that envelope.
LEMMA VersionOfLive ==
  ASSUME NEW r \in Record, NEW e \in Envelope, NEW row,
         e.rec = r, row.status = "live", row.blob = BlobOf(e), row.ts = e.ts
  PROVE  VersionOf(r, row) = e
<1>1. VersionOf(r, row) = [dev |-> row.blob[1], seq |-> row.blob[2], rec |-> r, ts |-> row.ts]
  BY DEF VersionOf
<1>2. row.blob[1] = e.dev /\ row.blob[2] = e.seq
  BY DEF BlobOf
<1> QED
  BY <1>1, <1>2 DEF Envelope

LEMMA VersionKinds ==
  ASSUME NEW r, NEW row
  PROVE  /\ row.status = "absent" => VersionOf(r, row) = Unwritten
         /\ row.status = "tombstone" => VersionOf(r, row) = Erased
  BY DEF VersionOf

\* A live row is the register's version: the save that its blob names.
LEMMA LiveRowIsSaved ==
  ASSUME SyncInv, NEW r \in Record, db[r].status = "live"
  PROVE  \E e \in saved : e.rec = r /\ VersionOf(r, db[r]) = e /\ BlobOf(e) = db[r].blob
                          /\ e.ts = db[r].ts
<1>1. PICK e \in saved : e.rec = r /\ BlobOf(e) = db[r].blob /\ e.ts = db[r].ts
  BY DEF SyncInv, RowsAreSaved
<1>2. e \in Envelope
  BY <1>1 DEF SyncInv, TypeOK
<1> QED
  BY <1>1, <1>2, VersionOfLive

-----------------------------------------------------------------------------
(* One step of the system, one register. *)

LEMMA PushIsPublish ==
  ASSUME SyncInv, NEW batch \in SUBSET Envelope, NEW d \in Device,
         SavedBy(batch, d), PushEnvelopes(batch), NEW r \in Record
  PROVE  \/ VersionOf(r, db'[r]) = VersionOf(r, db[r])
         \/ /\ VersionOf(r, db[r]) # Erased
            /\ \E e \in saved : /\ e.rec = r
                               /\ L!Supersedes(r, VersionOf(r, db[r]), e)
                               /\ VersionOf(r, db'[r]) = e
<1>1. db[r] \in Row /\ saved \subseteq Envelope
  BY DEF SyncInv, TypeOK, ServerTypeOK
<1>2. db'[r] = Upserted(db[r], batch, r)
  BY DEF PushEnvelopes
<1>3. CASE db'[r] = db[r]
  BY <1>3
<1>4. CASE db'[r] # db[r]
  <2>1. PICK e \in batch : /\ e.rec = r
                           /\ db'[r].status = StatusAfterPush(db[r])
                           /\ db'[r].blob = BlobOf(e)
                           /\ db'[r].ts = e.ts
    BY <1>1, <1>2, <1>4, UpsertedAdvances
  <2>2. e \in saved /\ e \in Envelope
    BY DEF SavedBy
  <2>3. db'[r] \in Row /\ RowAdvances(r, db[r], db'[r])
    BY <1>1, <1>2, UpsertedAdvances
  <2>4. CASE db[r].status = "tombstone"
    BY <2>1, <2>4, VersionKinds DEF StatusAfterPush
  <2>5. CASE db[r].status = "absent"
    <3>1. VersionOf(r, db'[r]) = e
      BY <2>1, <2>2, <2>5, VersionOfLive DEF StatusAfterPush
    <3> QED
      BY <2>1, <2>2, <2>5, <3>1, VersionKinds, RefinementAssumption DEF L!Supersedes
  <2>6. CASE db[r].status = "live"
    <3>1. VersionOf(r, db'[r]) = e
      BY <2>1, <2>2, <2>6, VersionOfLive DEF StatusAfterPush
    <3>2. PICK g \in saved : /\ g.rec = r /\ VersionOf(r, db[r]) = g
                             /\ BlobOf(g) = db[r].blob /\ g.ts = db[r].ts
      BY <2>6, LiveRowIsSaved
    <3>3. CASE db'[r].blob = db[r].blob
      BY <2>1, <2>2, <3>1, <3>2, <3>3 DEF SyncInv, SavedOnce
    <3>4. CASE db'[r].blob # db[r].blob
      <4>1. g.ts < e.ts /\ r \notin Chat
        BY <1>4, <2>1, <2>3, <2>6, <3>2, <3>4 DEF RowAdvances, StatusAfterPush
      <4>2. g # Erased
        BY <1>1, <3>2, RefinementAssumption
      <4> QED
        BY <2>1, <2>2, <3>1, <3>2, <4>1, <4>2 DEF L!Supersedes
    <3> QED
      BY <3>3, <3>4
  <2> QED
    BY <1>1, <2>4, <2>5, <2>6 DEF Row
<1> QED
  BY <1>3, <1>4

LEMMA DeleteIsErase ==
  ASSUME SyncInv, NEW x \in Tombstone, DeleteRecord(x.rec, x.ts), NEW r \in Record
  PROVE  \/ VersionOf(r, db'[r]) = VersionOf(r, db[r])
         \/ /\ r \notin Chat
            /\ VersionOf(r, db[r]) \notin {Unwritten, Erased}
            /\ VersionOf(r, db'[r]) = Erased
<1>1. db \in [Record -> Row] /\ saved \subseteq Envelope
  BY DEF SyncInv, TypeOK, ServerTypeOK
<1>2. CASE r # x.rec
  BY <1>1, <1>2 DEF DeleteRecord
<1>3. CASE r = x.rec
  <2>1. r \notin Chat /\ db[r].status = "live" /\ db'[r].status = "tombstone"
    BY <1>1, <1>3 DEF DeleteRecord, Deletable
  <2>2. VersionOf(r, db'[r]) = Erased
    BY <2>1, VersionKinds
  <2>3. VersionOf(r, db[r]) \in Envelope
    BY <1>1, <2>1, LiveRowIsSaved
  <2> QED
    BY <2>1, <2>2, <2>3, RefinementAssumption
<1> QED
  BY <1>2, <1>3

\* SyncSystem implements Ledger: through SQL, queues, lost answers, retries
\* and reloads, a record's register only takes versions that devices saved,
\* only moves to newer ones and never returns from its deletion.
THEOREM ImplementsLedger == Spec => LedgerSpec
<1>1. Init => L!Init
  BY DEF Init, ServerInit, AbsentRow, L!Init, VersionOf
<1>2. SyncInv /\ [Next]_vars => [L!Next]_<<saved, Register>>
  <2> SUFFICES ASSUME SyncInv, [Next]_vars
               PROVE  L!Next \/ UNCHANGED <<saved, Register>>
    BY DEF Register
  <2>1. ASSUME NEW d \in Device, NEW r \in Record, NEW ts \in Ts, Enqueue(d, r, ts)
        PROVE  L!Next
    <3> DEFINE e == [dev |-> d, seq |-> nextSeq[d], rec |-> r, ts |-> ts]
    <3>1. e \in Envelope /\ saved' = saved \cup {e} /\ UNCHANGED db
      BY <2>1 DEF Enqueue, Envelope
    <3> QED
      BY <3>1 DEF L!Next, L!Save, VersionOf
  <2>2. CASE UNCHANGED <<saved, db>>
    BY <2>2 DEF Register, VersionOf
  <2>3. ASSUME UNCHANGED saved, NEW batch \in SUBSET Envelope, NEW d \in Device,
               SavedBy(batch, d), PushEnvelopes(batch)
        PROVE  L!Next
    BY <2>3, PushIsPublish DEF L!Next, L!Exchange, L!Publishes
  <2>4. ASSUME UNCHANGED saved, NEW x \in Tombstone, DeleteRecord(x.rec, x.ts)
        PROVE  L!Next
    BY <2>4, DeleteIsErase DEF L!Next, L!Exchange, L!Erases
  <2> QED
    BY <2>1, <2>2, <2>3, <2>4, SavedChange, DbChange
<1> QED
  BY <1>1, <1>2, InvHolds, PTL DEF Spec, LedgerSpec, L!Spec, Register
=============================================================================

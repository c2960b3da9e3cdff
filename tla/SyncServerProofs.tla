-------------------------- MODULE SyncServerProofs --------------------------
(***************************************************************************)
(* Proofs about SyncServer, for every set of devices and records and every *)
(* batch size.  The core is UpsertedIsLWW: after a push the row accounts   *)
(* for every envelope of the batch and has only advanced.                  *)
(***************************************************************************)
EXTENDS SyncServer, WellFoundedInduction, TLAPS

\* A batch lists each outbox row once.
OneEach(batch) == \A e, f \in batch : e.seq = f.seq => e = f

\* The row accounts for the envelope: see Covered in SyncSystem.
Accounts(row, e, r) == row.status # "absent" /\ (r \in Chat \/ e.ts <= row.ts)

LEMMA LeastNat ==
  ASSUME NEW T, T \subseteq Nat, T # {}
  PROVE  \E n \in T : \A m \in T : n <= m
<1> DEFINE R == {p \in Nat \X Nat : p[1] < p[2]}
<1>1. IsWellFoundedOn(R, Nat)
  BY NatLessThanWellFounded DEF OpToRel
<1>2. \E n \in T : \A m \in T : <<m, n>> \notin R
  <2> HIDE DEF R
  <2> QED BY <1>1, WFMin
<1>3. \A m, n \in Nat : m < n => <<m, n>> \in R
  OBVIOUS
<1>4. PICK n \in T : \A m \in T : <<m, n>> \notin R
  BY <1>2
<1>5. \A m \in T : ~(m < n)
  <2> HIDE DEF R
  <2> QED BY <1>3, <1>4
<1> QED
  BY <1>5

LEMMA LeastSeq ==
  ASSUME NEW S \in SUBSET Envelope, S # {}
  PROVE  \E e \in S : \A f \in S : e.seq <= f.seq
<1> DEFINE T == {e.seq : e \in S}
<1>1. T \subseteq Nat /\ T # {}
  BY ServerAssumption DEF Envelope, Seqs
<1>2. \E n \in T : \A m \in T : n <= m
  <2> HIDE DEF T
  <2> QED BY <1>1, LeastNat
<1> QED
  BY <1>2

LEMMA LastOfIsLast ==
  ASSUME NEW S \in SUBSET Envelope, S # {}
  PROVE  LastOf(S) \in S /\ \A f \in S : f.seq <= LastOf(S).seq
<1> DEFINE T == {MaxSaves - e.seq : e \in S}
<1>1. T \subseteq Nat /\ T # {}
  BY ServerAssumption DEF Envelope, Seqs
<1>2. \E n \in T : \A m \in T : n <= m
  <2> HIDE DEF T
  <2> QED BY <1>1, LeastNat
<1>3. PICK e \in S : \A f \in S : MaxSaves - e.seq <= MaxSaves - f.seq
  BY <1>2
<1>4. \A f \in S : f.seq <= e.seq
  BY <1>3, ServerAssumption DEF Envelope, Seqs
<1> QED
  BY <1>4 DEF LastOf

-----------------------------------------------------------------------------
(* One push, one row. *)

LEMMA AppliedIsNewer ==
  ASSUME NEW row, NEW batch \in SUBSET Envelope, NEW r \in Record
  PROVE  /\ Applied(row, batch, r) \in SUBSET Envelope
         /\ Applied(row, batch, r) \subseteq batch
         /\ \A e \in Applied(row, batch, r) :
              e.rec = r /\ (row.status = "absent" \/ Newer(r, row.ts, e.ts))
  BY DEF Applied

\* The row keeps its type and has only advanced, and what it holds is what it
\* held or an envelope of the batch.
LEMMA UpsertedAdvances ==
  ASSUME NEW row \in Row, NEW batch \in SUBSET Envelope, NEW r \in Record
  PROVE  /\ Upserted(row, batch, r) \in Row
         /\ RowAdvances(r, row, Upserted(row, batch, r))
         /\ \/ Upserted(row, batch, r) = row
            \/ \E e \in batch : /\ e.rec = r
                               /\ Upserted(row, batch, r).status = StatusAfterPush(row)
                               /\ Upserted(row, batch, r).blob = BlobOf(e)
                               /\ Upserted(row, batch, r).ts = e.ts
<1> DEFINE hits == Applied(row, batch, r)
           last == LastOf(hits)
           new == Upserted(row, batch, r)
<1>1. CASE hits = {}
  <2>1. new = row
    BY <1>1 DEF Upserted
  <2> QED
    BY <2>1 DEF RowAdvances, Row
<1>2. CASE hits # {}
  <2>1. last \in hits
    BY <1>2, AppliedIsNewer, LastOfIsLast
  <2>2. /\ last \in batch
        /\ last \in Envelope
        /\ last.rec = r
        /\ row.status = "absent" \/ Newer(r, row.ts, last.ts)
    BY <2>1, AppliedIsNewer
  <2>3. new = [status |-> StatusAfterPush(row), blob |-> BlobOf(last), ts |-> last.ts]
    BY <1>2 DEF Upserted
  <2>4. BlobOf(last) \in Blob /\ last.ts \in 0..MaxTs /\ last.ts \in Nat
    BY <2>2, ServerAssumption DEF Envelope, BlobOf, Blob, Ciphertext, Ts
  <2>5. new \in Row
    BY <2>3, <2>4 DEF Row, StatusAfterPush
  <2>6. RowAdvances(r, row, new)
    BY <2>2, <2>3, <2>4, ServerAssumption DEF RowAdvances, StatusAfterPush, Newer, Row
  <2> QED
    BY <2>2, <2>3, <2>5, <2>6
<1> QED
  BY <1>1, <1>2

\* The row accounts for every envelope of the batch: the last upsert that took
\* effect is the newest of them, whatever their order in the array.
LEMMA UpsertedAccounts ==
  ASSUME NEW row \in Row, NEW batch \in SUBSET Envelope, OneEach(batch),
         NEW r \in Record, NEW e \in batch, e.rec = r
  PROVE  Accounts(Upserted(row, batch, r), e, r)
<1> DEFINE hits == Applied(row, batch, r)
           last == LastOf(hits)
           new == Upserted(row, batch, r)
           S == {f \in batch : f.rec = r /\ (r \in Chat \/ e.ts <= f.ts)}
<1>1. RowAdvances(r, row, new) /\ new \in Row
  BY UpsertedAdvances
<1>2. e \in S /\ S \in SUBSET Envelope
  BY DEF Envelope, Ts
<1>3. PICK g \in S : \A f \in S : g.seq <= f.seq
  BY <1>2, LeastSeq
<1>4. /\ g \in batch /\ g.rec = r /\ g \in Envelope
      /\ r \in Chat \/ e.ts <= g.ts
  BY <1>2, <1>3
<1>5. \A f \in Envelope : f.ts \in Nat /\ f.seq \in Nat
  BY ServerAssumption DEF Envelope, Ts, Seqs
<1>6. CASE row.status # "absent" /\ ~Newer(r, row.ts, g.ts)
  BY <1>1, <1>4, <1>5, <1>6, ServerAssumption DEF Accounts, RowAdvances, Newer, Row
<1>7. CASE row.status = "absent" \/ Newer(r, row.ts, g.ts)
  <2>1. ASSUME NEW f \in batch, f.rec = r, f.seq < g.seq
        PROVE  Newer(r, f.ts, g.ts)
    <3>1. f \notin S
      BY <1>3, <1>4, <1>5, <2>1
    <3> QED
      BY <1>4, <1>5, <2>1, <3>1 DEF Newer
  <2>2. g \in hits
    BY <1>4, <1>7, <2>1 DEF Applied
  <2>3. last \in hits /\ g.seq <= last.seq
    BY <2>2, AppliedIsNewer, LastOfIsLast
  <2>4. last \in batch /\ last \in Envelope
    BY <2>3, AppliedIsNewer
  <2>5. last = g \/ Newer(r, g.ts, last.ts)
    BY <1>4, <1>5, <2>3, <2>4 DEF Applied, OneEach
  <2>6. new = [status |-> StatusAfterPush(row), blob |-> BlobOf(last), ts |-> last.ts]
    BY <2>2 DEF Upserted
  <2> QED
    BY <1>4, <1>5, <2>4, <2>5, <2>6 DEF Accounts, StatusAfterPush, Newer
<1> QED
  BY <1>6, <1>7

\* A row that accounts for a batch is left alone by it.
LEMMA AccountedIsNoOp ==
  ASSUME NEW row \in Row, NEW batch \in SUBSET Envelope, NEW r \in Record,
         \A e \in batch : e.rec = r => Accounts(row, e, r)
  PROVE  Upserted(row, batch, r) = row
<1>1. \A e \in Envelope : e.ts \in Nat
  BY ServerAssumption DEF Envelope, Ts
<1>2. Applied(row, batch, r) = {}
  BY <1>1, ServerAssumption DEF Applied, Accounts, Newer, Row
<1> QED
  BY <1>2 DEF Upserted

-----------------------------------------------------------------------------
(* The tables under arbitrary requests. *)

LEMMA BatchesAreBatches ==
  ASSUME NEW batch \in Batches
  PROVE  batch \in SUBSET Envelope /\ OneEach(batch)
<1>1. PICK dev \in Device, items \in UNION {[1..n -> Record \X Ts] : n \in 0..MaxSaves} :
        batch = BatchOf(dev, items)
  BY DEF Batches
<1>2. PICK n \in 0..MaxSaves : items \in [1..n -> Record \X Ts]
  BY <1>1
<1>3. \A i \in 1..n : i \in Seqs /\ items[i][1] \in Record /\ items[i][2] \in Ts
  BY <1>2, ServerAssumption DEF Seqs
<1>4. batch = {[dev |-> dev, seq |-> i, rec |-> items[i][1], ts |-> items[i][2]] : i \in 1..n}
  BY <1>1, <1>2 DEF BatchOf, ItemOf
<1> QED
  BY <1>3, <1>4 DEF Envelope, OneEach

LEMMA PushType ==
  ASSUME ServerTypeOK, NEW batch \in SUBSET Envelope, PushEnvelopes(batch)
  PROVE  ServerTypeOK' /\ \A r \in Record : RowAdvances(r, db[r], db'[r])
  BY UpsertedAdvances DEF ServerTypeOK, PushEnvelopes

LEMMA DeleteType ==
  ASSUME ServerTypeOK, NEW r \in Record, NEW ts \in 0..MaxTs, DeleteRecord(r, ts)
  PROVE  ServerTypeOK' /\ \A q \in Record : RowAdvances(q, db[q], db'[q])
<1>1. Zeroed \in Blob
  BY DEF Blob
<1>2. ServerTypeOK'
  BY <1>1 DEF ServerTypeOK, DeleteRecord, Row
<1>3. RowAdvances(r, db[r], db'[r])
  BY DEF ServerTypeOK, DeleteRecord, Deletable, Row, RowAdvances
<1>4. ASSUME NEW q \in Record, q # r
      PROVE  RowAdvances(q, db[q], db'[q])
  <2>1. db'[q] = db[q] /\ db[q] \in Row
    BY <1>4 DEF DeleteRecord, ServerTypeOK
  <2> QED
    BY <2>1, ServerAssumption DEF RowAdvances, Row
<1> QED
  BY <1>2, <1>3, <1>4

LEMMA UnchangedAdvances ==
  ASSUME ServerTypeOK, UNCHANGED db
  PROVE  ServerTypeOK' /\ \A r \in Record : RowAdvances(r, db[r], db'[r])
  BY ServerAssumption DEF ServerTypeOK, RowAdvances, Row

LEMMA ServerInitType == ServerInit => ServerTypeOK
  BY ServerAssumption DEF ServerInit, ServerTypeOK, AbsentRow, Row, Blob

LEMMA ServerStep ==
  ASSUME ServerTypeOK, [ServerNext]_db
  PROVE  ServerTypeOK' /\ \A r \in Record : RowAdvances(r, db[r], db'[r])
<1>1. ASSUME NEW batch \in Batches, PushEnvelopes(batch)
      PROVE  ServerTypeOK' /\ \A r \in Record : RowAdvances(r, db[r], db'[r])
  BY <1>1, BatchesAreBatches, PushType
<1>2. ASSUME NEW r \in Record, NEW ts \in Ts, DeleteRecord(r, ts)
      PROVE  ServerTypeOK' /\ \A q \in Record : RowAdvances(q, db[q], db'[q])
  <2>1. ts \in 0..MaxTs
    BY ServerAssumption DEF Ts
  <2> QED
    BY <1>2, <2>1, DeleteType
<1>3. CASE UNCHANGED db
  BY <1>3, UnchangedAdvances
<1> QED
  BY <1>1, <1>2, <1>3 DEF ServerNext

\* Every row keeps its type under every sequence of requests.
THEOREM ServerTypeCorrect == ServerSpec => []ServerTypeOK
<1>1. ServerTypeOK /\ [ServerNext]_db => ServerTypeOK'
  BY ServerStep
<1> QED
  BY <1>1, ServerInitType, PTL DEF ServerSpec

\* Rows only advance, whatever requests arrive in whatever order
\* (PushEnvelopes and DeleteRecord of internal/db/sync.go).
THEOREM RowsAdvance == ServerSpec => RowsOnlyAdvance
<1>1. ServerTypeOK /\ [ServerNext]_db => [\A r \in Record : RowAdvances(r, db[r], db'[r])]_db
  BY ServerStep
<1> QED
  BY <1>1, ServerTypeCorrect, PTL DEF ServerSpec, RowsOnlyAdvance

\* A batch pushed again changes nothing, which is what lets the client retry
\* a push whose answer it did not see.
THEOREM ReplayChangesNothing == ServerSpec => []ReplayIsNoOp
<1>1. ServerTypeOK => ReplayIsNoOp
  <2> SUFFICES ASSUME ServerTypeOK, NEW batch \in Batches, NEW r \in Record
               PROVE  Upserted(Upserted(db[r], batch, r), batch, r) = Upserted(db[r], batch, r)
    BY DEF ReplayIsNoOp
  <2> DEFINE once == Upserted(db[r], batch, r)
  <2>1. db[r] \in Row /\ batch \in SUBSET Envelope /\ OneEach(batch)
    BY BatchesAreBatches DEF ServerTypeOK
  <2>2. once \in Row
    BY <2>1, UpsertedAdvances
  <2>3. \A e \in batch : e.rec = r => Accounts(once, e, r)
    BY <2>1, UpsertedAccounts
  <2> HIDE DEF once
  <2>4. Upserted(once, batch, r) = once
    BY <2>1, <2>2, <2>3, AccountedIsNoOp
  <2> QED
    BY <2>4 DEF once
<1> QED
  BY <1>1, ServerTypeCorrect, PTL

-----------------------------------------------------------------------------
(* Two pushes in either order. *)

\* Of the envelopes of one record and timestamp, the first in the array.
FirstAt(e, batch) == \A f \in batch : f.rec = e.rec /\ f.ts = e.ts => e.seq <= f.seq

Written(row, e) == [status |-> StatusAfterPush(row), blob |-> BlobOf(e), ts |-> e.ts]

LEMMA UpsertedFrom ==
  ASSUME NEW row \in Row, NEW batch \in SUBSET Envelope, NEW r \in Record \ Chat,
         Upserted(row, batch, r) # row
  PROVE  \E e \in batch : /\ e.rec = r
                          /\ FirstAt(e, batch)
                          /\ row.status = "absent" \/ row.ts < e.ts
                          /\ Upserted(row, batch, r) = Written(row, e)
<1> DEFINE hits == Applied(row, batch, r)
           last == LastOf(hits)
<1>1. hits # {}
  BY DEF Upserted
<1>2. last \in hits
  BY <1>1, AppliedIsNewer, LastOfIsLast
<1>3. /\ last \in batch /\ last.rec = r
      /\ row.status = "absent" \/ row.ts < last.ts
      /\ \A f \in batch : f.rec = r /\ f.seq < last.seq => f.ts < last.ts
  BY <1>2 DEF Applied, Newer
<1>4. \A f \in Envelope : f.seq \in Nat /\ f.ts \in Nat
  BY ServerAssumption DEF Envelope, Seqs, Ts
<1>5. FirstAt(last, batch)
  BY <1>3, <1>4 DEF FirstAt
<1>6. Upserted(row, batch, r) = Written(row, last)
  BY <1>1 DEF Upserted, Written
<1> QED
  BY <1>3, <1>5, <1>6

\* What two pushes leave of a row, in terms that do not mention their order.
Settled(row, a, b, r, new) ==
  /\ \/ new = row
     \/ \E e \in a \cup b : /\ e.rec = r
                            /\ e \in a => FirstAt(e, a)
                            /\ e \in b => FirstAt(e, b)
                            /\ row.status = "absent" \/ row.ts < e.ts
                            /\ new = Written(row, e)
  /\ \A e \in a \cup b : e.rec = r => Accounts(new, e, r)

LEMMA PushesSettle ==
  ASSUME NEW row \in Row, NEW r \in Record \ Chat,
         NEW a \in SUBSET Envelope, NEW b \in SUBSET Envelope,
         OneEach(a), OneEach(b), TieFree(a, b)
  PROVE  Settled(row, a, b, r, Upserted(Upserted(row, a, r), b, r))
<1> DEFINE mid == Upserted(row, a, r)
           new == Upserted(mid, b, r)
<1>1. mid \in Row /\ RowAdvances(r, row, mid)
  BY UpsertedAdvances
<1>2. new \in Row /\ RowAdvances(r, mid, new)
  BY <1>1, UpsertedAdvances
<1>3. \A e \in Envelope : e.ts \in Nat
  BY ServerAssumption DEF Envelope, Ts
<1>4. \A e \in a : e.rec = r => Accounts(mid, e, r)
  BY UpsertedAccounts
<1>5. \A e \in b : e.rec = r => Accounts(new, e, r)
  BY <1>1, UpsertedAccounts
<1>6. \A e \in a : e.rec = r => Accounts(new, e, r)
  BY <1>1, <1>2, <1>3, <1>4, ServerAssumption DEF Accounts, RowAdvances, Row
<1>7. ASSUME mid # row
      PROVE  \E e \in a : /\ e.rec = r /\ FirstAt(e, a) /\ e \notin b
                          /\ row.status = "absent" \/ row.ts < e.ts
                          /\ mid = Written(row, e)
  BY <1>7, UpsertedFrom DEF TieFree
<1>8. StatusAfterPush(mid) = StatusAfterPush(row)
  BY <1>7 DEF Written, StatusAfterPush
<1>9. ASSUME new # mid
      PROVE  \E e \in b : /\ e.rec = r /\ FirstAt(e, b) /\ e \notin a
                          /\ row.status = "absent" \/ row.ts < e.ts
                          /\ new = Written(row, e)
  <2>1. PICK e \in b : /\ e.rec = r /\ FirstAt(e, b)
                       /\ mid.status = "absent" \/ mid.ts < e.ts
                       /\ new = Written(mid, e)
    <3> HIDE DEF mid
    <3> QED BY <1>1, <1>9, UpsertedFrom
  <2>2. row.status = "absent" \/ row.ts < e.ts
    BY <1>1, <1>3, <2>1, ServerAssumption DEF RowAdvances, Row
  <2>3. Written(mid, e) = Written(row, e)
    BY <1>8 DEF Written
  <2> QED
    BY <2>1, <2>2, <2>3 DEF TieFree
<1>10. \/ new = row
       \/ \E e \in a \cup b : /\ e.rec = r
                              /\ e \in a => FirstAt(e, a)
                              /\ e \in b => FirstAt(e, b)
                              /\ row.status = "absent" \/ row.ts < e.ts
                              /\ new = Written(row, e)
  <2> HIDE DEF mid, new
  <2> QED BY <1>7, <1>9
<1> QED
  BY <1>5, <1>6, <1>10 DEF Settled

LEMMA SettledIsUnique ==
  ASSUME NEW row \in Row, NEW r \in Record \ Chat,
         NEW a \in SUBSET Envelope, NEW b \in SUBSET Envelope,
         OneEach(a), OneEach(b), TieFree(a, b),
         NEW x, NEW y, Settled(row, a, b, r, x), Settled(row, b, a, r, y)
  PROVE  x = y
<1>1. \A e \in Envelope : e.ts \in Nat /\ e.seq \in Nat
  BY ServerAssumption DEF Envelope, Ts, Seqs
<1>2. row.ts \in Nat
  BY ServerAssumption DEF Row
<1>3. CASE x = row \/ y = row
  BY <1>1, <1>2, <1>3 DEF Settled, Accounts
<1>4. CASE x # row /\ y # row
  <2>1. PICK e \in a \cup b : /\ e.rec = r
                              /\ e \in a => FirstAt(e, a)
                              /\ e \in b => FirstAt(e, b)
                              /\ x = Written(row, e)
    BY <1>4 DEF Settled
  <2>2. PICK f \in a \cup b : /\ f.rec = r
                              /\ f \in a => FirstAt(f, a)
                              /\ f \in b => FirstAt(f, b)
                              /\ y = Written(row, f)
    BY <1>4 DEF Settled
  <2>3. e.ts <= f.ts /\ f.ts <= e.ts
    BY <2>1, <2>2 DEF Settled, Accounts, Written
  <2>4. e.ts = f.ts
    BY <1>1, <2>3
  <2>5. e = f
    BY <1>1, <2>1, <2>2, <2>4 DEF TieFree, FirstAt, OneEach
  <2> QED
    BY <2>1, <2>2, <2>5
<1> QED
  BY <1>3, <1>4

\* Pushes that give no record equal timestamps leave the same rows in either
\* order of arrival (the strict comparison in PushEnvelopes).
THEOREM TieFreePushesLeaveTheSame == ServerSpec => []TieFreePushesCommute
<1>1. ServerTypeOK => TieFreePushesCommute
  <2> SUFFICES ASSUME ServerTypeOK, NEW a \in Batches, NEW b \in Batches,
                      NEW r \in Record \ Chat, TieFree(a, b)
               PROVE  Commute(a, b, r)
    BY DEF TieFreePushesCommute
  <2>1. /\ db[r] \in Row
        /\ a \in SUBSET Envelope /\ OneEach(a)
        /\ b \in SUBSET Envelope /\ OneEach(b)
        /\ TieFree(b, a)
    BY BatchesAreBatches DEF ServerTypeOK, TieFree
  <2>2. /\ Settled(db[r], a, b, r, Upserted(Upserted(db[r], a, r), b, r))
        /\ Settled(db[r], b, a, r, Upserted(Upserted(db[r], b, r), a, r))
    BY <2>1, PushesSettle
  <2> QED
    BY <2>1, <2>2, SettledIsUnique DEF Commute
<1> QED
  BY <1>1, ServerTypeCorrect, PTL

-----------------------------------------------------------------------------
(* The loop over the array. *)

\* One more envelope at the end of the array is one more turn of the loop.
LEMMA UpsertedOneMore ==
  ASSUME NEW row \in Row, NEW batch \in SUBSET Envelope, OneEach(batch), NEW r \in Record,
         NEW e \in Envelope, \A f \in batch : f.seq < e.seq
  PROVE  Upserted(row, batch \cup {e}, r) = UpsertOne(Upserted(row, batch, r), e, r)
<1> DEFINE hits == Applied(row, batch, r)
           more == Applied(row, batch \cup {e}, r)
           new == Upserted(row, batch, r)
           fits == /\ e.rec = r
                   /\ row.status = "absent" \/ Newer(r, row.ts, e.ts)
                   /\ \A f \in batch : f.rec = r => Newer(r, f.ts, e.ts)
<1>1. \A f \in Envelope : f.seq \in Nat /\ f.ts \in Nat
  BY ServerAssumption DEF Envelope, Seqs, Ts
<1>2. /\ e \notin batch /\ hits \subseteq batch
      /\ more = IF fits THEN hits \cup {e} ELSE hits
  BY <1>1 DEF Applied
<1>3. new \in Row /\ RowAdvances(r, row, new)
      /\ \A f \in batch : f.rec = r => Accounts(new, f, r)
  BY UpsertedAdvances, UpsertedAccounts
<1>4. CASE ~fits
  <2>1. Upserted(row, batch \cup {e}, r) = new
    BY <1>2, <1>4 DEF Upserted
  <2>2. CASE e.rec # r
    BY <2>1, <2>2 DEF UpsertOne
  <2>3. CASE e.rec = r
    <3>1. new.status # "absent" /\ ~Newer(r, new.ts, e.ts)
      BY <1>1, <1>3, <1>4, <2>3, ServerAssumption DEF Accounts, RowAdvances, Newer, Row
    <3> QED
      BY <2>1, <3>1 DEF UpsertOne
  <2> QED
    BY <2>2, <2>3
<1>5. CASE fits
  <2>1. LastOf(more) = e
    <3>1. \A f \in more : f.seq <= e.seq
      BY <1>1, <1>2, <1>5
    <3>2. \A x \in more : (\A f \in more : f.seq <= x.seq) => x = e
      BY <1>1, <1>2, <1>5
    <3>3. e \in more
      BY <1>2, <1>5
    <3> HIDE DEF more
    <3> QED
      BY <3>1, <3>2, <3>3 DEF LastOf
  <2>2. Upserted(row, batch \cup {e}, r) =
          [status |-> StatusAfterPush(row), blob |-> BlobOf(e), ts |-> e.ts]
    BY <1>2, <1>5, <2>1 DEF Upserted
  <2>3. new.status = "absent" \/ Newer(r, new.ts, e.ts)
    <3>1. CASE hits = {}
      BY <1>5, <3>1 DEF Upserted
    <3>2. CASE hits # {}
      BY <1>2, <1>5, <3>2, AppliedIsNewer, LastOfIsLast DEF Upserted
    <3> QED
      BY <3>1, <3>2
  <2>4. StatusAfterPush(new) = StatusAfterPush(row)
    BY DEF Upserted, StatusAfterPush
  <2> HIDE DEF new
  <2>5. UpsertOne(new, e, r) = [status |-> StatusAfterPush(row), blob |-> BlobOf(e), ts |-> e.ts]
    BY <1>5, <2>3, <2>4 DEF UpsertOne
  <2> QED
    BY <2>2, <2>5 DEF new
<1> QED
  BY <1>4, <1>5

\* The first k envelopes of an array.
FirstOf(dev, items, k) == {ItemOf(dev, items, i) : i \in 1..k}

LEMMA FirstOfIs ==
  ASSUME NEW dev \in Device, NEW n \in 0..MaxSaves, NEW items \in [1..n -> Record \X Ts],
         NEW k \in 0..n
  PROVE  /\ FirstOf(dev, items, k) \in SUBSET Envelope /\ OneEach(FirstOf(dev, items, k))
         /\ k = 0 => FirstOf(dev, items, k) = {}
         /\ k # 0 => /\ k \in 1..n /\ k - 1 \in 0..n /\ ItemOf(dev, items, k) \in Envelope
                     /\ FirstOf(dev, items, k) =
                          FirstOf(dev, items, k - 1) \cup {ItemOf(dev, items, k)}
                     /\ \A f \in FirstOf(dev, items, k - 1) : f.seq < ItemOf(dev, items, k).seq
<1>1. n \in Nat /\ k \in Nat /\ MaxSaves \in Nat /\ 1..k \subseteq 1..n
  BY ServerAssumption
<1>2. \A i \in 1..n : ItemOf(dev, items, i) \in Envelope /\ ItemOf(dev, items, i).seq = i
  <2> SUFFICES ASSUME NEW i \in 1..n
               PROVE  ItemOf(dev, items, i) \in Envelope /\ ItemOf(dev, items, i).seq = i
    OBVIOUS
  <2>1. items[i][1] \in Record /\ items[i][2] \in Ts /\ i \in Seqs
    BY <1>1 DEF Seqs
  <2> QED
    BY <2>1 DEF ItemOf, Envelope
<1>3. FirstOf(dev, items, k) \in SUBSET Envelope /\ OneEach(FirstOf(dev, items, k))
  BY <1>1, <1>2 DEF FirstOf, OneEach
<1>4. k = 0 => FirstOf(dev, items, k) = {}
  BY DEF FirstOf
<1>5. ASSUME k # 0
      PROVE  /\ k \in 1..n /\ k - 1 \in 0..n
             /\ FirstOf(dev, items, k) = FirstOf(dev, items, k - 1) \cup {ItemOf(dev, items, k)}
             /\ \A f \in FirstOf(dev, items, k - 1) : f.seq < k
  <2>1. k \in 1..n /\ k - 1 \in 0..n /\ 1..k = (1..(k - 1)) \cup {k}
    BY <1>1, <1>5
  <2>2. \A i \in 1..(k - 1) : i \in 1..n /\ i < k
    BY <1>1
  <2> QED
    BY <1>2, <2>1, <2>2 DEF FirstOf
<1> QED
  BY <1>2, <1>3, <1>4, <1>5

\* A recursive function over 0..n is what its definition says: it exists.
LEMMA LoopIs ==
  ASSUME NEW dev, NEW items, NEW n \in Nat, NEW r, NEW row
  PROVE  \E after : /\ after[0] = row
                    /\ \A k \in 1..n : after[k] = UpsertOne(after[k - 1], ItemOf(dev, items, k), r)
                    /\ LoopOver(row, dev, items, n, r) = after[n]
<1> DEFINE Next1(f, k) == IF k = 0 THEN row ELSE UpsertOne(f[k - 1], ItemOf(dev, items, k), r)
           Runs(f, m) == f = [k \in 0..m |-> Next1(f, k)]
           T == {m \in 0..n : ~\E f : Runs(f, m)}
<1>1. T = {}
  <2> SUFFICES ASSUME T # {} PROVE FALSE
    OBVIOUS
  <2>1. PICK m \in T : \A j \in T : m <= j
    <3>1. T \subseteq Nat
      OBVIOUS
    <3> HIDE DEF T
    <3> QED
      BY <3>1, LeastNat
  <2>2. CASE m = 0
    <3> DEFINE f == [k \in 0..0 |-> row]
    <3>1. Runs(f, 0)
      OBVIOUS
    <3> QED
      BY <2>1, <2>2, <3>1
  <2>3. CASE m # 0
    <3>1. m - 1 \in 0..n /\ m - 1 \notin T /\ m \in Nat
      BY <2>1, <2>3
    <3>2. PICK f : Runs(f, m - 1)
      BY <3>1
    <3> DEFINE g == [k \in 0..m |-> IF k = m THEN UpsertOne(f[m - 1], ItemOf(dev, items, m), r)
                                    ELSE f[k]]
    <3>3. \A k \in 0..m : g[k] = Next1(g, k)
      <4> SUFFICES ASSUME NEW k \in 0..m PROVE g[k] = Next1(g, k)
        OBVIOUS
      <4>1. CASE k = m
        BY <2>3, <3>1, <4>1
      <4>2. CASE k # m
        <5>1. k \in 0..(m - 1) /\ g[k] = f[k] /\ (k # 0 => k - 1 \in 0..m /\ k - 1 # m)
          BY <3>1, <4>2
        <5>2. f[k] = Next1(f, k)
          BY <3>2, <5>1
        <5>3. k # 0 => g[k - 1] = f[k - 1]
          BY <5>1
        <5> QED
          BY <5>1, <5>2, <5>3
      <4> QED
        BY <4>1, <4>2
    <3>4. Runs(g, m)
      <4>1. g = [k \in 0..m |-> g[k]]
        OBVIOUS
      <4> HIDE DEF g
      <4> QED
        BY <3>3, <4>1
    <3> QED
      BY <2>1, <3>4
  <2> QED
    BY <2>2, <2>3
<1>2. \E f : Runs(f, n)
  BY <1>1
<1> DEFINE after == CHOOSE f : Runs(f, n)
<1>3. Runs(after, n)
  BY <1>2
<1>4. LoopOver(row, dev, items, n, r) = after[n]
  BY DEF LoopOver
<1> HIDE DEF after
<1>5. after[0] = row /\ \A k \in 1..n : after[k] = UpsertOne(after[k - 1], ItemOf(dev, items, k), r)
  BY <1>3
<1> QED
  BY <1>4, <1>5

\* A push leaves of each row what the loop of PushEnvelopes over its array
\* does, however many envelopes of one record it holds.
THEOREM PushIsALoop == ServerSpec => []BatchIsALoop
<1>1. ServerTypeOK => BatchIsALoop
  <2> SUFFICES ASSUME ServerTypeOK, NEW dev \in Device, NEW r \in Record, NEW n \in 0..MaxSaves,
                      NEW items \in [1..n -> Record \X Ts]
               PROVE  Upserted(db[r], BatchOf(dev, items), r) = LoopOver(db[r], dev, items, n, r)
    BY DEF BatchIsALoop
  <2> DEFINE row == db[r]
             First(k) == FirstOf(dev, items, k)
  <2>1. row \in Row /\ n \in Nat
    BY ServerAssumption DEF ServerTypeOK
  <2> HIDE DEF row
  <2>2. PICK after : /\ after[0] = row
                     /\ \A k \in 1..n :
                          after[k] = UpsertOne(after[k - 1], ItemOf(dev, items, k), r)
                     /\ LoopOver(row, dev, items, n, r) = after[n]
    BY <2>1, LoopIs
  <2> DEFINE T == {k \in 0..n : Upserted(row, First(k), r) # after[k]}
  <2>3. T = {}
    <3> SUFFICES ASSUME T # {} PROVE FALSE
      OBVIOUS
    <3>1. PICK m \in T : \A j \in T : m <= j
      <4>1. T \subseteq Nat
        OBVIOUS
      <4> HIDE DEF T
      <4> QED
        BY <4>1, LeastNat
    <3>2. CASE m = 0
      BY <2>1, <2>2, <3>1, <3>2, FirstOfIs DEF Upserted, Applied
    <3>3. CASE m # 0
      <4>1. /\ m \in 1..n /\ m - 1 \in 0..n /\ ItemOf(dev, items, m) \in Envelope
            /\ First(m) = First(m - 1) \cup {ItemOf(dev, items, m)}
            /\ \A f \in First(m - 1) : f.seq < ItemOf(dev, items, m).seq
        BY <3>3, FirstOfIs
      <4>2. First(m - 1) \in SUBSET Envelope /\ OneEach(First(m - 1))
        BY <4>1, FirstOfIs
      <4>3. Upserted(row, First(m - 1), r) = after[m - 1]
        <5>1. ~(m <= m - 1)
          BY <4>1
        <5> QED
          BY <3>1, <4>1, <5>1
      <4> HIDE DEF First
      <4>4. Upserted(row, First(m), r) = UpsertOne(after[m - 1], ItemOf(dev, items, m), r)
        BY <2>1, <4>1, <4>2, <4>3, UpsertedOneMore
      <4> QED
        BY <2>2, <3>1, <4>1, <4>4
    <3> QED
      BY <3>2, <3>3
  <2>4. BatchOf(dev, items) = First(n)
    BY DEF BatchOf, FirstOf
  <2> HIDE DEF First
  <2>5. Upserted(row, First(n), r) = after[n]
    BY <2>1, <2>3
  <2> QED
    BY <2>2, <2>4, <2>5 DEF row
<1> QED
  BY <1>1, ServerTypeCorrect, PTL
=============================================================================

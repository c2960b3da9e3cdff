----------------------------- MODULE BackendProofs -----------------------------
(***************************************************************************)
(* Proofs about the vault, for any number of devices, processes and        *)
(* requests; about Boot, for every fleet and every set of images; and      *)
(* about Backend: what is proved of the two alone holds when replicas that *)
(* come and go serve the vault, and no statement of the vault's runs       *)
(* before its tables are there.                                            *)
(*                                                                         *)
(* The core of the first part: whoever carries a version carries the blob  *)
(* that version held, and a blob that was stored was stored above the      *)
(* version its carriers expect, so that no copy of its PUT can match       *)
(* again.  The core of the second: a replica in the loop of Migrate holds  *)
(* the lock, so nobody else moves the ledger between its check and its     *)
(* commit.                                                                 *)
(***************************************************************************)
EXTENDS Backend, SequenceTheorems, TLAPS

-----------------------------------------------------------------------------
(* The vault.                                                              *)

Entry == [blob : Blob, over : Blob \cup {None}]

\* The version held the blob; version 0 held none.
Held(version, blob) ==
  IF version = 0 THEN blob = None
  ELSE version \in DOMAIN written /\ written[version].blob = blob

\* The row is the last version written.
RowIsLast ==
  IF row = None THEN Len(written) = 0
  ELSE Len(written) = row.version /\ written[row.version].blob = row.blob

\* What is stored was sealed.
StoredIsSealed == \A v \in DOMAIN written : written[v].blob[2] <= seals[written[v].blob[1]]

DeviceOK(d) ==
  /\ Held(known[d].version, known[d].blob)
  /\ want[d] # None => want[d][1] = d /\ want[d][2] <= seals[d]
  /\ \A v \in DOMAIN written : want[d] = written[v].blob => v > known[d].version

RequestOK(s) == req[s] # None =>
  /\ Held(req[s].expected, req[s].over)
  /\ req[s].at = "insert" => req[s].expected = 0
  /\ req[s].blob[1] = req[s].by /\ req[s].blob[2] <= seals[req[s].by]
  /\ req[s].blob = want[req[s].by] => req[s].expected = known[req[s].by].version
  /\ \A v \in DOMAIN written : req[s].blob = written[v].blob => v > req[s].expected

\* The copies of one PUT expect the same version.
CopiesAgree ==
  \A s, t \in Slot : (req[s] # None /\ req[t] # None /\ req[s].blob = req[t].blob) =>
    req[s].expected = req[t].expected

\* The inductive invariant.
VaultInv ==
  /\ VaultTypeOK /\ RowIsLast /\ NoLostUpdate /\ StoredOnce /\ StoredIsSealed
  /\ \A d \in Device : DeviceOK(d)
  /\ \A s \in Slot : RequestOK(s)
  /\ CopiesAgree

-----------------------------------------------------------------------------
(* Types. *)

LEMMA WrittenType ==
  ASSUME VaultTypeOK
  PROVE  /\ written \in Seq(Entry)
         /\ \A v \in DOMAIN written : /\ written[v] \in Entry /\ written[v].blob # None
                                    /\ written[v].blob[1] \in Device
                                    /\ written[v].blob[2] \in Nat
  <1>1. written \in Seq(Entry)
    BY DEF VaultTypeOK, Entry
  <1>2. \A v \in DOMAIN written : written[v] \in Entry
    BY <1>1
  <1>3. None \notin Blob /\ \A b \in Blob : b[1] \in Device /\ b[2] \in Nat
    BY VaultAssumption DEF Blob
  <1> QED
    BY <1>1, <1>2, <1>3 DEF Entry

LEMMA SpendType ==
  ASSUME NEW b \in Bucket, NEW t \in Nat, Allows(b, t)
  PROVE  Spend(b, t) \in Bucket
  BY BurstAssumption DEF Bucket, Allows, Spend, Earned

LEMMA BucketOfType ==
  ASSUME VaultTypeOK, NEW p \in Process
  PROVE  BucketOf(p) \in Bucket
  BY BurstAssumption DEF VaultTypeOK, BucketOf, NewBucket, Bucket

LEMMA EndsType ==
  ASSUME VaultTypeOK, NEW s \in Slot, Ends(s)
  PROVE  req' \in [Slot -> Request \cup {None}] /\ waiting' \in [Device -> Slot \cup {None}]
  BY DEF VaultTypeOK, Ends

LEMMA LearnsType ==
  ASSUME VaultTypeOK, NEW s \in Slot, req[s] # None, NEW k \in Known, Learns(s, k)
  PROVE  known' \in [Device -> Known] /\ want' \in [Device -> Blob \cup {None}]
  <1>1. req[s].by \in Device
    BY DEF VaultTypeOK, Request
  <1> QED
    BY <1>1 DEF VaultTypeOK, Learns

LEMMA StoredType ==
  ASSUME VaultTypeOK, NEW s \in Slot, req[s] # None, NEW n \in Nat \ {0}, Stored(s, n)
  PROVE  VaultTypeOK'
  <1>1. req[s] \in Request
    BY DEF VaultTypeOK
  <1>2. row' \in Row /\ row' \in Known
    BY <1>1 DEF Stored, Row, Known, Request
  <1>3. [blob |-> req[s].blob, over |-> req[s].over] \in Entry
    BY <1>1 DEF Request, Entry
  <1>4. written' \in Seq(Entry)
    BY <1>3, AppendProperties DEF Stored, VaultTypeOK, Entry
  <1>5. known' \in [Device -> Known] /\ want' \in [Device -> Blob \cup {None}]
    BY <1>2, LearnsType DEF Stored
  <1>6. req' \in [Slot -> Request \cup {None}] /\ waiting' \in [Device -> Slot \cup {None}]
    BY EndsType DEF Stored
  <1> QED
    BY <1>2, <1>4, <1>5, <1>6 DEF Stored, VaultTypeOK, calls, Entry

LEMMA ServeType ==
  ASSUME VaultTypeOK, NEW s \in Slot, Serve(s)
  PROVE  VaultTypeOK'
  <1>0. req[s] # None /\ req[s] \in Request /\ known[req[s].by] \in Known
    BY DEF Serve, Update, Look, Insert, StatementFails, Cancelled, At, VaultTypeOK, Request
  <1>1. ASSUME NEW step \in {"look", "insert"}, GoesTo(s, step), lost' \in 0..MaxLost
        PROVE  VaultTypeOK'
    <2>1. [req[s] EXCEPT !.at = step] \in Request
      BY <1>0 DEF Request
    <2> QED
      BY <1>1, <2>1 DEF GoesTo, VaultTypeOK, device, calls
  <1>2. ASSUME Conflict(s), lost' \in 0..MaxLost PROVE VaultTypeOK'
    BY <1>0, <1>2, EndsType, LearnsType DEF Conflict, VaultTypeOK, calls
  <1>3. ASSUME Broken(s), lost' \in 0..MaxLost PROVE VaultTypeOK'
    BY <1>3, EndsType DEF Broken, VaultTypeOK, device, calls
  <1>4. Fault => lost' \in 0..MaxLost
    BY VaultAssumption DEF Fault, VaultTypeOK
  <1>5. lost \in 0..MaxLost
    BY DEF VaultTypeOK
  <1>6. CASE Update(s)
    <2>1. CASE Matches(s)
      <3>1. Stored(s, row.version + 1) /\ row.version + 1 \in Nat \ {0}
        BY <1>6, <2>1 DEF Update, Matches, VaultTypeOK, Row
      <3> QED
        BY <1>0, <3>1, StoredType
    <2>2. CASE ~Matches(s)
      BY <1>1, <1>5, <1>6, <2>2 DEF Update
    <2> QED
      BY <2>1, <2>2
  <1>7. CASE Look(s)
    BY <1>1, <1>2, <1>4, <1>5, <1>7 DEF Look
  <1>8. CASE Insert(s)
    BY <1>0, <1>3, <1>5, <1>8, StoredType DEF Insert
  <1>9. CASE StatementFails(s) \/ Cancelled(s)
    BY <1>3, <1>4, <1>5, <1>9 DEF StatementFails, Cancelled
  <1> QED
    BY <1>6, <1>7, <1>8, <1>9 DEF Serve

LEMMA CountedType ==
  ASSUME NEW h \in [0..MaxNow -> Nat]
  PROVE  Counted(h) \in [0..MaxNow -> Nat]
  BY DEF Counted

LEMMA DeviceType ==
  ASSUME VaultTypeOK, NEW d \in Device,
         DeviceStep(d) \/ \E s \in Slot, p \in Process : Put(d, s, p)
  PROVE  VaultTypeOK'
  <1>1. CASE Seal(d)
    <2>1. <<d, seals[d] + 1>> \in Blob /\ seals[d] + 1 \in 0..MaxSeals
      BY <1>1, VaultAssumption DEF Seal, VaultTypeOK, Blob
    <2> QED
      BY <1>1, <2>1 DEF Seal, VaultTypeOK, calls
  <1>2. CASE Get(d)
    <2>1. row \in Known
      BY <1>2 DEF Get, VaultTypeOK, Row, Known
    <2> QED
      BY <1>2, <2>1 DEF Get, VaultTypeOK, calls
  <1>3. CASE GiveUp(d)
    <2>1. lost' \in 0..MaxLost
      BY <1>3, VaultAssumption DEF GiveUp, Fault, VaultTypeOK
    <2> QED
      BY <1>3, <2>1 DEF GiveUp, VaultTypeOK, device, calls
  <1>4. ASSUME NEW s \in Slot, NEW p \in Process, Put(d, s, p) PROVE VaultTypeOK'
    <2>1. now \in Nat /\ now \in 0..MaxNow
      BY VaultAssumption DEF VaultTypeOK
    <2>2. Spend(BucketOf(p), now) \in Bucket
      BY <1>4, <2>1, BucketOfType, SpendType DEF Put
    <2>3. [by |-> d, on |-> p, at |-> "update", expected |-> known[d].version,
           blob |-> want[d], over |-> known[d].blob] \in Request
      BY <1>4 DEF Put, VaultTypeOK, Known, Request
    <2>4. hits' \in [Process -> [0..MaxNow -> Nat]]
      <3>1. hits[p] \in [0..MaxNow -> Nat]
        BY DEF VaultTypeOK
      <3>2. Counted(hits[p]) \in [0..MaxNow -> Nat]
        BY <3>1, CountedType
      <3>3. hits' = [hits EXCEPT ![p] = Counted(hits[p])]
        BY <1>4 DEF Put
      <3> QED
        BY <3>2, <3>3 DEF VaultTypeOK
    <2>5. req' \in [Slot -> Request \cup {None}]
      <3> DEFINE q == [by |-> d, on |-> p, at |-> "update", expected |-> known[d].version,
                       blob |-> want[d], over |-> known[d].blob]
      <3>1. req' = [req EXCEPT ![s] = q]
        BY <1>4 DEF Put
      <3> HIDE DEF q
      <3>2. q \in Request
        BY <2>3 DEF q
      <3> QED
        BY <3>1, <3>2 DEF VaultTypeOK
    <2>6. bucket' \in [Process -> Bucket \cup {None}]
      BY <1>4, <2>2 DEF Put, VaultTypeOK
    <2>7. waiting' \in [Device -> Slot \cup {None}]
      BY <1>4 DEF Put, VaultTypeOK
    <2>8. UNCHANGED <<row, lost, now, written, known, want, seals>>
      BY <1>4 DEF Put, device
    <2> QED
      BY <2>4, <2>5, <2>6, <2>7, <2>8 DEF VaultTypeOK
  <1> QED
    BY <1>1, <1>2, <1>3, <1>4 DEF DeviceStep

LEMMA DieType ==
  ASSUME VaultTypeOK, NEW p \in Process, Die(p), lost' \in 0..MaxLost
  PROVE  VaultTypeOK'
  <1>1. NoHits \in [0..MaxNow -> Nat]
    BY DEF NoHits
  <1> QED
    BY <1>1 DEF Die, VaultTypeOK, device

-----------------------------------------------------------------------------
(* Storing a version. *)

\* What the writer, and a copy of its PUT, can still do after version n was
\* stored: version n is above the one they expected.
LEMMA StoredKeepsInv ==
  ASSUME VaultInv, NEW s \in Slot, req[s] # None, NEW n \in Nat \ {0}, Stored(s, n),
         n = Len(written) + 1, req[s].expected = Len(written)
  PROVE  VaultInv'
  <1> DEFINE L == Len(written)
             r == req[s]
             e == [blob |-> r.blob, over |-> r.over]
  <1>1. VaultTypeOK /\ RowIsLast /\ NoLostUpdate /\ StoredOnce /\ StoredIsSealed /\ RequestOK(s)
    BY DEF VaultInv
  <1>2. r \in Request /\ r.by \in Device /\ r.blob \in Blob /\ r.blob # None
    BY <1>1, VaultAssumption DEF VaultTypeOK, Request
  <1>3. /\ written \in Seq(Entry) /\ e \in Entry
        /\ L \in Nat /\ n = L + 1 /\ r.expected = L
    BY <1>1, <1>2 DEF VaultTypeOK, Entry, Request
  <1>4. /\ written' = Append(written, e)
        /\ DOMAIN written = 1..L /\ DOMAIN written' = 1..(L + 1)
        /\ written'[L + 1] = e
        /\ \A v \in 1..L : written'[v] = written[v]
        /\ Len(written') = L + 1
    BY <1>3, AppendProperties, LenProperties DEF Stored
  <1>5. /\ row' = [version |-> n, blob |-> r.blob] /\ row' # None
        /\ seals' = seals
    <2>1. row' = [version |-> n, blob |-> r.blob] /\ seals' = seals
      BY DEF Stored
    <2> QED
      BY <2>1, <1>2, VaultAssumption DEF Row
  <1>6. VaultTypeOK'
    BY <1>1, StoredType
  <1>7. RowIsLast'
    BY <1>3, <1>4, <1>5 DEF RowIsLast
  <1>8. r.blob \notin {written[v].blob : v \in 1..L}
    <2>1. \A v \in DOMAIN written : r.blob = written[v].blob => v > r.expected
      BY <1>1 DEF RequestOK
    <2> HIDE DEF r, e
    <2>2. ASSUME NEW v \in 1..L, r.blob = written[v].blob
          PROVE  FALSE
      <3>1. v > L
        BY <1>3, <1>4, <2>1, <2>2
      <3> QED
        BY <1>3, <3>1
    <2> QED
      BY <2>2
  <1>9. StoredOnce'
    BY <1>1, <1>3, <1>4, <1>8 DEF StoredOnce
  <1>10. IF L = 0 THEN r.over = None ELSE r.over = written[L].blob
    BY <1>1, <1>3, <1>4 DEF RequestOK, Held
  <1>11. NoLostUpdate'
    <2> SUFFICES ASSUME NEW v \in 1..(L + 1)
                 PROVE  written'[v].over = IF v = 1 THEN None ELSE written'[v - 1].blob
      BY <1>4 DEF NoLostUpdate
    <2>1. CASE v = L + 1
      <3>1. written'[v].over = r.over
        BY <1>4, <2>1
      <3>2. CASE L = 0
        BY <1>10, <2>1, <3>1, <3>2
      <3>3. CASE L # 0
        <4>1. v # 1 /\ v - 1 = L /\ L \in 1..L
          BY <1>3, <2>1, <3>3
        <4> QED
          BY <1>4, <1>10, <3>1, <3>3, <4>1
      <3> QED
        BY <3>2, <3>3
    <2>2. CASE v \in 1..L
      <3>1. written[v].over = IF v = 1 THEN None ELSE written[v - 1].blob
        BY <1>1, <1>4, <2>2 DEF NoLostUpdate
      <3>2. v = 1 \/ v - 1 \in 1..L
        BY <1>3, <2>2
      <3> QED
        BY <1>4, <2>2, <3>1, <3>2
    <2> QED
      BY <1>3, <2>1, <2>2
  <1>12. StoredIsSealed'
    <2>1. r.blob[2] <= seals[r.blob[1]]
      BY <1>1 DEF RequestOK
    <2> QED
      BY <1>1, <1>3, <1>4, <1>5, <2>1 DEF StoredIsSealed
  <1>13. \A v \in DOMAIN written : v \in DOMAIN written' /\ written'[v] = written[v]
    BY <1>3, <1>4
  <1>14. n \in DOMAIN written' /\ written'[n].blob = r.blob /\ n # 0
    BY <1>3, <1>4
  <1>15. ASSUME NEW d \in Device PROVE DeviceOK(d)'
    <2>1. DeviceOK(d) /\ known[d] \in Known
      BY <1>1 DEF VaultInv, VaultTypeOK
    <2>2. CASE known'[d] = known[d] /\ want'[d] = want[d] /\ want[d] # r.blob
      BY <1>3, <1>4, <1>5, <1>13, <2>1, <2>2 DEF DeviceOK, Known, Held
    <2>3. CASE known'[d] = known[d] /\ want'[d] = want[d] /\ want[d] = r.blob
      <3>1. d = r.by
        BY <1>1, <1>2, <2>1, <2>3 DEF RequestOK, DeviceOK
      <3>2. known[d].version = L
        BY <1>1, <1>3, <2>3, <3>1 DEF RequestOK
      <3>3. Held(known[d].version, known[d].blob)'
        BY <1>13, <2>1, <2>3 DEF DeviceOK, Held
      <3>4. \A v \in DOMAIN written' : want[d] = written'[v].blob => v > L
        BY <1>3, <1>4, <1>8, <2>3
      <3> QED
        BY <1>5, <2>1, <2>3, <3>2, <3>3, <3>4 DEF DeviceOK
    <2>4. CASE known'[d] = row' /\ want'[d] = None
      <3>1. known'[d].version = n /\ known'[d].blob = r.blob
        BY <1>5, <2>4
      <3>2. \A v \in DOMAIN written' : written'[v].blob # None
        <4>1. written' \in Seq(Entry)
          BY <1>6 DEF VaultTypeOK, Entry
        <4>2. \A v \in DOMAIN written' : written'[v] \in Entry
          BY <1>3, <1>4, <4>1
        <4>3. None \notin Blob
          BY VaultAssumption
        <4> QED
          BY <4>2, <4>3 DEF Entry
      <3> QED
        BY <1>14, <2>4, <3>1, <3>2 DEF DeviceOK, Held
    <2>5. \/ known'[d] = known[d] /\ want'[d] = want[d]
          \/ known'[d] = row' /\ want'[d] = None
      BY <1>1, <1>2 DEF Stored, Learns, VaultTypeOK
    <2> QED
      BY <2>2, <2>3, <2>4, <2>5
  <1>16. ASSUME NEW t \in Slot PROVE RequestOK(t)'
    <2> SUFFICES ASSUME req'[t] # None PROVE RequestOK(t)'
      BY DEF RequestOK
    <2>1. t # s /\ req'[t] = req[t] /\ req[t] \in Request /\ req[t].by \in Device
      BY <1>1 DEF Stored, Ends, VaultTypeOK, Request
    <2>2. RequestOK(t)
      BY DEF VaultInv
    <2>3. req[t].blob = want'[req[t].by] => req[t].expected = known'[req[t].by].version
      <3>1. req[t].blob # None
        BY <2>1, VaultAssumption DEF Request
      <3>2. \/ known'[req[t].by] = known[req[t].by] /\ want'[req[t].by] = want[req[t].by]
            \/ want'[req[t].by] = None
        BY <1>1, <1>2, <2>1 DEF Stored, Learns, VaultTypeOK
      <3> QED
        BY <2>1, <2>2, <3>1, <3>2 DEF RequestOK
    <2>4. req[t].blob = r.blob => req[t].expected = L
      BY <1>3, <2>1 DEF VaultInv, CopiesAgree
    <2>5. \A v \in DOMAIN written' : req[t].blob = written'[v].blob => v > req[t].expected
      BY <1>3, <1>4, <2>1, <2>2, <2>4 DEF RequestOK
    <2>6. Held(req[t].expected, req[t].over)'
      BY <1>13, <2>1, <2>2 DEF RequestOK, Held
    <2> QED
      BY <1>5, <2>1, <2>2, <2>3, <2>5, <2>6 DEF RequestOK
  <1>17. CopiesAgree'
    BY <1>1 DEF VaultInv, CopiesAgree, Stored, Ends, VaultTypeOK
  <1> QED
    BY <1>6, <1>7, <1>9, <1>11, <1>12, <1>15, <1>16, <1>17 DEF VaultInv

-----------------------------------------------------------------------------
(* Steps that store nothing. *)

\* What the rest of the invariant says of the versions stays.
LEMMA NothingStored ==
  ASSUME VaultInv, UNCHANGED <<row, written>>,
         \A d \in Device : seals'[d] >= seals[d], VaultTypeOK'
  PROVE  RowIsLast' /\ NoLostUpdate' /\ StoredOnce' /\ StoredIsSealed'
  <1>1. RowIsLast' /\ NoLostUpdate' /\ StoredOnce'
    BY DEF VaultInv, RowIsLast, NoLostUpdate, StoredOnce
  <1>2. StoredIsSealed'
    <2>1. ASSUME NEW v \in DOMAIN written
          PROVE  written[v].blob[1] \in Device /\ written[v].blob[2] \in Nat
      BY WrittenType DEF VaultInv
    <2>2. \A d \in Device : seals[d] \in Nat /\ seals'[d] \in Nat
      BY VaultAssumption DEF VaultInv, VaultTypeOK
    <2> QED
      BY <2>1, <2>2 DEF VaultInv, StoredIsSealed
  <1> QED
    BY <1>1, <1>2

\* Requests end or go on, devices drop what they sealed, and learn nothing.
LEMMA QuietKeepsInv ==
  ASSUME VaultInv, VaultTypeOK', UNCHANGED <<row, written, seals, known>>,
         \A d \in Device : want'[d] \in {want[d], None},
         \A s \in Slot : \/ req'[s] \in {req[s], None}
                        \/ /\ req[s] # None
                           /\ \E step \in {"look", "insert"} :
                                /\ req'[s] = [req[s] EXCEPT !.at = step]
                                /\ step = "insert" => req[s].expected = 0
  PROVE  VaultInv'
  <1>1. \A d \in Device : seals'[d] >= seals[d]
    BY VaultAssumption DEF VaultInv, VaultTypeOK
  <1>2. RowIsLast' /\ NoLostUpdate' /\ StoredOnce' /\ StoredIsSealed'
    BY <1>1, NothingStored
  <1>3. written \in Seq(Entry) /\ \A v \in DOMAIN written : written[v].blob # None
    BY WrittenType DEF VaultInv
  <1>4. ASSUME NEW d \in Device PROVE DeviceOK(d)'
    <2>1. DeviceOK(d) /\ want'[d] \in {want[d], None}
      BY DEF VaultInv
    <2> QED
      BY <1>3, <2>1 DEF DeviceOK, Held
  <1>5. ASSUME NEW s \in Slot, req'[s] # None
        PROVE  /\ req[s] # None /\ req[s] \in Request
               /\ req'[s].by = req[s].by /\ req'[s].blob = req[s].blob
               /\ req'[s].over = req[s].over /\ req'[s].expected = req[s].expected
               /\ req'[s].at = "insert" => req[s].at = "insert" \/ req[s].expected = 0
    <2>1. req[s] # None /\ req[s] \in Request
      BY <1>5 DEF VaultInv, VaultTypeOK
    <2> QED
      BY <1>5, <2>1 DEF Request
  <1>6. ASSUME NEW s \in Slot PROVE RequestOK(s)'
    <2> SUFFICES ASSUME req'[s] # None PROVE RequestOK(s)'
      BY DEF RequestOK
    <2>1. RequestOK(s) /\ req[s].by \in Device /\ req[s].blob # None
      BY <1>5, VaultAssumption DEF VaultInv, Request
    <2>2. want'[req[s].by] \in {want[req[s].by], None}
      BY <2>1
    <2> QED
      BY <1>5, <2>1, <2>2 DEF RequestOK, Held
  <1>7. CopiesAgree'
    BY <1>5 DEF VaultInv, CopiesAgree
  <1> QED
    BY <1>2, <1>4, <1>6, <1>7 DEF VaultInv

LEMMA GetKeepsInv ==
  ASSUME VaultInv, NEW d \in Device, Get(d)
  PROVE  VaultInv'
  <1>1. /\ UNCHANGED <<row, written, seals, req>> /\ row # None
        /\ known' = [known EXCEPT ![d] = row] /\ want' = [want EXCEPT ![d] = None]
    BY DEF Get
  <1>2. VaultTypeOK'
    BY DeviceType DEF DeviceStep, VaultInv
  <1>3. \A e \in Device : seals'[e] >= seals[e]
    BY <1>1, VaultAssumption DEF VaultInv, VaultTypeOK
  <1>4. RowIsLast' /\ NoLostUpdate' /\ StoredOnce' /\ StoredIsSealed'
    BY <1>1, <1>2, <1>3, NothingStored
  <1>5. row \in Row /\ written \in Seq(Entry) /\ known \in [Device -> Known]
        /\ want \in [Device -> Blob \cup {None}]
    BY <1>1 DEF VaultInv, VaultTypeOK, Entry
  <1>6. \A v \in DOMAIN written : written[v].blob # None
    BY WrittenType DEF VaultInv
  <1>7. Held(row.version, row.blob)
    <2>1. Len(written) = row.version /\ written[row.version].blob = row.blob
      BY <1>1 DEF VaultInv, RowIsLast
    <2>2. row.version \in DOMAIN written /\ row.version # 0
      BY <1>5, <2>1 DEF Row
    <2> QED
      BY <2>1, <2>2 DEF Held
  <1>8. ASSUME NEW e \in Device PROVE DeviceOK(e)'
    <2>1. CASE e = d
      <3>1. known'[e] = row /\ want'[e] = None
        BY <1>1, <1>5, <2>1
      <3>2. Held(known[e].version, known[e].blob)'
        BY <1>1, <1>7, <3>1 DEF Held
      <3> QED
        BY <1>1, <1>6, <3>1, <3>2 DEF DeviceOK
    <2>2. CASE e # d
      <3>1. known'[e] = known[e] /\ want'[e] = want[e] /\ DeviceOK(e)
        BY <1>1, <1>5, <2>2 DEF VaultInv
      <3> QED
        BY <1>1, <3>1 DEF DeviceOK, Held
    <2> QED
      BY <2>1, <2>2
  <1>9. ASSUME NEW s \in Slot PROVE RequestOK(s)'
    <2> SUFFICES ASSUME req[s] # None PROVE RequestOK(s)'
      BY <1>1 DEF RequestOK
    <2>1. req[s].by \in Device /\ req[s].blob # None /\ RequestOK(s)
      <3>1. req[s] \in Request
        BY DEF VaultInv, VaultTypeOK
      <3> QED
        BY <3>1, VaultAssumption DEF Request, VaultInv
    <2>2. CASE req[s].by = d
      <3>1. want'[req[s].by] = None
        BY <1>1, <1>5, <2>2
      <3> QED
        BY <1>1, <2>1, <3>1 DEF RequestOK, Held
    <2>3. CASE req[s].by # d
      <3>1. want'[req[s].by] = want[req[s].by] /\ known'[req[s].by] = known[req[s].by]
        BY <1>1, <1>5, <2>1, <2>3
      <3> QED
        BY <1>1, <2>1, <3>1 DEF RequestOK, Held
    <2> QED
      BY <2>2, <2>3
  <1>10. CopiesAgree'
    BY <1>1 DEF VaultInv, CopiesAgree
  <1> QED
    BY <1>2, <1>4, <1>8, <1>9, <1>10 DEF VaultInv

LEMMA SealKeepsInv ==
  ASSUME VaultInv, NEW d \in Device, Seal(d)
  PROVE  VaultInv'
  <1> DEFINE b == <<d, seals[d] + 1>>
  <1>1. /\ UNCHANGED <<row, written, known, req>>
        /\ seals' = [seals EXCEPT ![d] = @ + 1] /\ want' = [want EXCEPT ![d] = b]
    BY DEF Seal
  <1>2. VaultTypeOK'
    BY DeviceType DEF DeviceStep, VaultInv
  <1>3. /\ seals \in [Device -> Nat] /\ seals' \in [Device -> Nat]
        /\ want \in [Device -> Blob \cup {None}]
        /\ written \in Seq(Entry)
    BY <1>2, VaultAssumption DEF VaultInv, VaultTypeOK, Entry
  <1>4. seals'[d] = seals[d] + 1 /\ \A e \in Device : seals'[e] >= seals[e]
    BY <1>1, <1>3
  <1>5. RowIsLast' /\ NoLostUpdate' /\ StoredOnce' /\ StoredIsSealed'
    BY <1>1, <1>2, <1>4, NothingStored
  <1>6. \A v \in DOMAIN written : written[v].blob # b
    BY <1>3 DEF VaultInv, StoredIsSealed
  <1>7. \A s \in Slot : req[s] # None => req[s].blob # b
    <2> SUFFICES ASSUME NEW s \in Slot, req[s] # None, req[s].blob = b PROVE FALSE
      OBVIOUS
    <2>1. RequestOK(s)
      BY DEF VaultInv
    <2> QED
      BY <1>3, <2>1 DEF RequestOK
  <1>8. ASSUME NEW e \in Device PROVE DeviceOK(e)'
    <2>1. DeviceOK(e)
      BY DEF VaultInv
    <2>2. CASE e = d
      <3>1. want'[e] = b
        BY <1>1, <1>3, <2>2
      <3> QED
        BY <1>1, <1>3, <1>4, <1>6, <2>1, <2>2, <3>1 DEF DeviceOK, Held
    <2>3. CASE e # d
      <3>1. want'[e] = want[e] /\ seals'[e] = seals[e]
        BY <1>1, <1>3, <2>3
      <3> QED
        BY <1>1, <2>1, <3>1 DEF DeviceOK, Held
    <2> QED
      BY <2>2, <2>3
  <1>9. ASSUME NEW s \in Slot PROVE RequestOK(s)'
    <2> SUFFICES ASSUME req[s] # None PROVE RequestOK(s)'
      BY <1>1 DEF RequestOK
    <2>1. req[s].by \in Device /\ req[s].blob[2] \in Nat /\ RequestOK(s) /\ req[s].blob # b
      <3>1. req[s] \in Request
        BY DEF VaultInv, VaultTypeOK
      <3> QED
        BY <1>7, <3>1, VaultAssumption DEF Request, Blob, VaultInv
    <2>2. want'[req[s].by] = b \/ want'[req[s].by] = want[req[s].by]
      BY <1>1, <1>3, <2>1
    <2>3. req[s].blob[2] <= seals'[req[s].by]
      BY <1>3, <1>4, <2>1 DEF RequestOK
    <2> QED
      BY <1>1, <2>1, <2>2, <2>3 DEF RequestOK, Held
  <1>10. CopiesAgree'
    BY <1>1 DEF VaultInv, CopiesAgree
  <1> QED
    BY <1>2, <1>5, <1>8, <1>9, <1>10 DEF VaultInv

LEMMA PutKeepsInv ==
  ASSUME VaultInv, NEW d \in Device, NEW s \in Slot, NEW p \in Process, Put(d, s, p)
  PROVE  VaultInv'
  <1> DEFINE q == [by |-> d, on |-> p, at |-> "update", expected |-> known[d].version,
                   blob |-> want[d], over |-> known[d].blob]
  <1>1. /\ UNCHANGED <<row, written, known, want, seals>>
        /\ req' = [req EXCEPT ![s] = q] /\ want[d] # None
    BY DEF Put, device
  <1>2. VaultTypeOK'
    BY DeviceType DEF VaultInv
  <1>3. \A e \in Device : seals'[e] >= seals[e]
    BY <1>1, VaultAssumption DEF VaultInv, VaultTypeOK
  <1>4. RowIsLast' /\ NoLostUpdate' /\ StoredOnce' /\ StoredIsSealed'
    BY <1>1, <1>2, <1>3, NothingStored
  <1>5. ASSUME NEW e \in Device PROVE DeviceOK(e)'
    BY <1>1 DEF VaultInv, DeviceOK, Held
  <1>6. req'[s] = q /\ \A t \in Slot \ {s} : req'[t] = req[t]
    BY <1>1 DEF VaultInv, VaultTypeOK
  <1>7. DeviceOK(d)
    BY DEF VaultInv
  <1>8. ASSUME NEW t \in Slot PROVE RequestOK(t)'
    <2>1. CASE t = s
      BY <1>1, <1>6, <1>7, <2>1 DEF RequestOK, DeviceOK, Held
    <2>2. CASE t # s
      <3>1. req'[t] = req[t] /\ RequestOK(t)
        BY <1>6, <2>2 DEF VaultInv
      <3> QED
        BY <1>1, <3>1 DEF RequestOK, Held
    <2> QED
      BY <2>1, <2>2
  <1>9. ASSUME NEW t \in Slot, t # s, req[t] # None, req[t].blob = q.blob
        PROVE  req[t].expected = q.expected
    <2>1. RequestOK(t)
      BY DEF VaultInv
    <2>2. req[t].by = d
      BY <1>1, <1>7, <1>9, <2>1 DEF RequestOK, DeviceOK
    <2> QED
      BY <1>9, <2>1, <2>2 DEF RequestOK
  <1>10. CopiesAgree'
    <2> SUFFICES ASSUME NEW t \in Slot, NEW u \in Slot,
                        req'[t] # None, req'[u] # None, req'[t].blob = req'[u].blob
                 PROVE  req'[t].expected = req'[u].expected
      BY DEF CopiesAgree
    <2>1. CASE t # s /\ u # s
      BY <1>6, <2>1 DEF VaultInv, CopiesAgree
    <2>2. CASE t = s \/ u = s
      BY <1>6, <1>9, <2>2
    <2> QED
      BY <2>1, <2>2
  <1> QED
    BY <1>2, <1>4, <1>5, <1>8, <1>10 DEF VaultInv

-----------------------------------------------------------------------------
(* Every step. *)

LEMMA ServeKeepsInv ==
  ASSUME VaultInv, NEW s \in Slot, Serve(s)
  PROVE  VaultInv'
  <1>0. req[s] # None /\ req[s].by \in Device /\ VaultTypeOK'
    BY ServeType DEF Serve, Update, Look, Insert, StatementFails, Cancelled, At, VaultTypeOK,
       Request, VaultInv
  <1>1. ASSUME NEW step \in {"look", "insert"}, GoesTo(s, step),
               step = "insert" => req[s].expected = 0
        PROVE  VaultInv'
    <2>1. UNCHANGED <<row, written, seals, known, want>>
      BY <1>1 DEF GoesTo, device
    <2>2. req'[s] = [req[s] EXCEPT !.at = step] /\ \A t \in Slot \ {s} : req'[t] = req[t]
      BY <1>1 DEF GoesTo, VaultInv, VaultTypeOK
    <2>3. \A t \in Slot : \/ req'[t] \in {req[t], None}
                         \/ /\ req[t] # None
                            /\ \E e \in {"look", "insert"} :
                                 /\ req'[t] = [req[t] EXCEPT !.at = e]
                                 /\ e = "insert" => req[t].expected = 0
      BY <1>0, <1>1, <2>2
    <2> QED
      BY <1>0, <2>1, <2>3, QuietKeepsInv
  <1>2. ASSUME Ends(s), UNCHANGED <<row, written, seals, known>>,
               \A d \in Device : want'[d] \in {want[d], None}
        PROVE  VaultInv'
    <2>1. \A t \in Slot : req'[t] \in {req[t], None}
      BY <1>2 DEF Ends, VaultInv, VaultTypeOK
    <2> QED
      BY <1>0, <1>2, <2>1, QuietKeepsInv
  <1>3. Conflict(s) => VaultInv'
    <2> SUFFICES ASSUME Conflict(s) PROVE VaultInv'
      OBVIOUS
    <2>1. known' = known /\ \A d \in Device : want'[d] \in {want[d], None}
      BY <1>0 DEF Conflict, Learns, VaultInv, VaultTypeOK
    <2> QED
      BY <1>2, <2>1 DEF Conflict
  <1>4. Broken(s) => VaultInv'
    BY <1>2 DEF Broken, device
  <1>5. CASE Update(s)
    <2>1. CASE Matches(s)
      <3>1. row \in Row /\ row.version = req[s].expected /\ row.version = Len(written)
        BY <2>1 DEF Matches, VaultInv, VaultTypeOK, RowIsLast
      <3>2. Stored(s, row.version + 1) /\ row.version + 1 \in Nat \ {0}
        BY <1>5, <2>1, <3>1 DEF Update, Row
      <3> QED
        BY <1>0, <3>1, <3>2, StoredKeepsInv
    <2>2. CASE ~Matches(s)
      BY <1>1, <1>5, <2>2 DEF Update
    <2> QED
      BY <2>1, <2>2
  <1>6. CASE Look(s)
    BY <1>1, <1>3, <1>6 DEF Look
  <1>7. CASE Insert(s)
    <2>1. CASE row = None
      <3>1. Len(written) = 0
        BY <2>1 DEF VaultInv, RowIsLast
      <3>2. req[s].expected = 0
        BY <1>0, <1>7 DEF Insert, At, VaultInv, RequestOK
      <3>3. Stored(s, 1)
        BY <1>7, <2>1 DEF Insert
      <3> QED
        BY <1>0, <3>1, <3>2, <3>3, StoredKeepsInv
    <2>2. CASE row # None
      BY <1>4, <1>7, <2>2 DEF Insert
    <2> QED
      BY <2>1, <2>2
  <1>8. CASE StatementFails(s) \/ Cancelled(s)
    BY <1>4, <1>8 DEF StatementFails, Cancelled
  <1> QED
    BY <1>5, <1>6, <1>7, <1>8 DEF Serve

LEMMA DieKeepsInv ==
  ASSUME VaultInv, NEW p \in Process, Die(p), lost' \in 0..MaxLost
  PROVE  VaultInv'
  <1>1. VaultTypeOK'
    BY DieType DEF VaultInv
  <1>2. UNCHANGED <<row, written, known, want, seals>>
    BY DEF Die, device
  <1>3. \A s \in Slot : req'[s] \in {req[s], None}
    BY DEF Die
  <1> QED
    BY <1>1, <1>2, <1>3, QuietKeepsInv

LEMMA GiveUpKeepsInv ==
  ASSUME VaultInv, NEW d \in Device, GiveUp(d)
  PROVE  VaultInv'
  <1>1. VaultTypeOK'
    BY DeviceType DEF VaultInv, DeviceStep
  <1> QED
    BY <1>1, QuietKeepsInv DEF GiveUp, device

LEMMA TickKeepsInv ==
  ASSUME VaultInv, Tick
  PROVE  VaultInv'
  <1>1. now' \in 0..MaxNow
    BY VaultAssumption DEF Tick, VaultInv, VaultTypeOK
  <1>2. VaultTypeOK'
    BY <1>1 DEF Tick, VaultInv, VaultTypeOK, device, calls
  <1> QED
    BY <1>2, QuietKeepsInv DEF Tick, device

LEMMA StutterKeepsInv ==
  ASSUME VaultInv, UNCHANGED vaultVars
  PROVE  VaultInv'
  <1>1. VaultTypeOK'
    BY DEF VaultInv, VaultTypeOK, vaultVars
  <1> QED
    BY <1>1, QuietKeepsInv DEF vaultVars

LEMMA StepKeepsInv ==
  ASSUME VaultInv, [VaultNext]_vaultVars
  PROVE  VaultInv'
  <1>1. \A p \in Process : Fault /\ Die(p) => VaultInv'
    <2> SUFFICES ASSUME NEW p \in Process, Fault, Die(p) PROVE VaultInv'
      OBVIOUS
    <2>1. lost' \in 0..MaxLost
      BY VaultAssumption DEF Fault, VaultInv, VaultTypeOK
    <2> QED
      BY <2>1, DieKeepsInv
  <1> QED
    BY <1>1, SealKeepsInv, GetKeepsInv, GiveUpKeepsInv, PutKeepsInv, ServeKeepsInv,
       TickKeepsInv, StutterKeepsInv DEF VaultNext, DeviceStep

LEMMA InitHasInv ==
  ASSUME VaultInit
  PROVE  VaultInv
  <1>1. VaultTypeOK
    BY VaultAssumption DEF VaultInit, VaultTypeOK, NoHits, Known
  <1>2. written = <<>> /\ DOMAIN written = {} /\ Len(written) = 0
    BY DEF VaultInit
  <1>3. RowIsLast /\ NoLostUpdate /\ StoredOnce /\ StoredIsSealed /\ CopiesAgree
    BY <1>2 DEF VaultInit, RowIsLast, NoLostUpdate, StoredOnce, StoredIsSealed, CopiesAgree
  <1>4. \A d \in Device : DeviceOK(d)
    BY <1>2 DEF VaultInit, DeviceOK, Held
  <1>5. \A s \in Slot : RequestOK(s)
    BY DEF VaultInit, RequestOK
  <1> QED
    BY <1>1, <1>3, <1>4, <1>5 DEF VaultInv

\* What VaultInv says of the devices is KnownIsStored.
LEMMA InvKnowsStored ==
  ASSUME VaultInv
  PROVE  KnownIsStored
  <1> SUFFICES ASSUME NEW d \in Device, known[d].version > 0
               PROVE  /\ known[d].version \in DOMAIN written
                      /\ written[known[d].version].blob = known[d].blob
    BY DEF KnownIsStored
  <1>1. Held(known[d].version, known[d].blob) /\ known[d].version \in Nat
    BY DEF VaultInv, DeviceOK, VaultTypeOK, Known
  <1> QED
    BY <1>1 DEF Held

\* Whatever devices retry, give up on or overtake between the statements of a
\* PUT, and however many processes serve it, nothing is overwritten blindly,
\* no PUT takes effect twice, and what a device knows was stored (vault.go).
THEOREM VaultIsSafe ==
  VaultSpec => [](VaultTypeOK /\ NoLostUpdate /\ StoredOnce /\ KnownIsStored)
  <1>1. VaultInit => VaultInv
    BY InitHasInv
  <1>2. VaultInv /\ [VaultNext]_vaultVars => VaultInv'
    BY StepKeepsInv
  <1>3. VaultInv => VaultTypeOK /\ NoLostUpdate /\ StoredOnce /\ KnownIsStored
    BY InvKnowsStored DEF VaultInv
  <1> QED
    BY <1>1, <1>2, <1>3, PTL DEF VaultSpec

-----------------------------------------------------------------------------
(* The vault implements one versioned cell. *)

HeldBlobs == {written[v].blob : v \in DOMAIN written}

\* Storing a version is the cell's Replace, seen by the writer or by nobody.
LEMMA StoredIsReplace ==
  ASSUME VaultInv, NEW s \in Slot, req[s] # None, NEW n \in Nat \ {0}, Stored(s, n),
         n = Cell.version + 1, req[s].expected = Len(written), Cell.version = Len(written)
  PROVE  Promise!Next
  <1> DEFINE b == req[s].blob
             d == req[s].by
             e == [blob |-> req[s].blob, over |-> req[s].over]
  <1>1. req[s] \in Request /\ b \in Blob /\ d \in Device
    BY DEF VaultInv, VaultTypeOK, Request
  <1>2. RequestOK(s)
    BY DEF VaultInv
  <1>3. written \in Seq(Entry) /\ e \in Entry
    BY <1>1, WrittenType DEF VaultInv, Entry, Request
  <1>4. /\ written' = Append(written, e)
        /\ DOMAIN written = 1..Len(written) /\ DOMAIN written' = 1..(Len(written) + 1)
        /\ written'[Len(written) + 1] = e /\ Len(written) \in Nat
        /\ \A v \in 1..Len(written) : written'[v] = written[v]
    BY <1>3, AppendProperties, LenProperties DEF Stored
  <1>5. b \notin HeldBlobs
    BY <1>2, <1>4 DEF RequestOK, HeldBlobs
  <1>6. HeldBlobs' = HeldBlobs \cup {b}
    BY <1>4 DEF HeldBlobs
  <1>7. row' = [version |-> n, blob |-> b] /\ row' \in Row
    BY <1>1 DEF Stored, Row
  <1>8. Cell' = [version |-> Cell.version + 1, blob |-> b]
    BY <1>7, VaultAssumption DEF Cell
  <1>9. known' = known \/ known' = [known EXCEPT ![d] = Cell']
    BY <1>7, <1>8 DEF Stored, Learns
  <1> QED
    BY <1>1, <1>5, <1>6, <1>8, <1>9 DEF Promise!Next, Promise!Replace, HeldBlobs

LEMMA ServeIsPromised ==
  ASSUME VaultInv, NEW s \in Slot, Serve(s)
  PROVE  Promise!Next \/ UNCHANGED <<Cell, HeldBlobs, known>>
  <1>0. req[s] # None /\ req[s].by \in Device
    BY DEF Serve, Update, Look, Insert, StatementFails, Cancelled, At, VaultTypeOK,
       Request, VaultInv
  <1>1. ASSUME NEW step, GoesTo(s, step) PROVE UNCHANGED <<Cell, HeldBlobs, known>>
    BY <1>1 DEF GoesTo, device, Cell, HeldBlobs
  <1>2. Conflict(s) => UNCHANGED <<Cell, HeldBlobs, known>>
    <2> SUFFICES ASSUME Conflict(s) PROVE UNCHANGED <<Cell, HeldBlobs, known>>
      OBVIOUS
    <2>1. known' = known
      BY <1>0 DEF Conflict, Learns, VaultInv, VaultTypeOK
    <2> QED
      BY <2>1 DEF Conflict, Cell, HeldBlobs
  <1>3. Broken(s) => UNCHANGED <<Cell, HeldBlobs, known>>
    BY DEF Broken, device, Cell, HeldBlobs
  <1>4. CASE Update(s)
    <2>1. CASE Matches(s)
      <3>1. row \in Row /\ row # None /\ row.version = req[s].expected
            /\ row.version = Len(written)
        BY <2>1 DEF Matches, VaultInv, VaultTypeOK, RowIsLast
      <3>2. Cell = row
        BY <3>1 DEF Cell
      <3>3. Stored(s, row.version + 1) /\ row.version + 1 \in Nat \ {0}
        BY <1>4, <2>1, <3>1 DEF Update, Row
      <3> QED
        BY <1>0, <3>1, <3>2, <3>3, StoredIsReplace
    <2>2. CASE ~Matches(s)
      BY <1>1, <1>4, <2>2 DEF Update
    <2> QED
      BY <2>1, <2>2
  <1>5. CASE Look(s)
    BY <1>1, <1>2, <1>5 DEF Look
  <1>6. CASE Insert(s)
    <2>1. CASE row = None
      <3>1. Len(written) = 0 /\ Cell.version = 0
        BY <2>1 DEF VaultInv, RowIsLast, Cell
      <3>2. req[s].expected = 0
        BY <1>0, <1>6 DEF Insert, At, VaultInv, RequestOK
      <3>3. Stored(s, 1)
        BY <1>6, <2>1 DEF Insert
      <3> QED
        BY <1>0, <3>1, <3>2, <3>3, StoredIsReplace
    <2>2. CASE row # None
      BY <1>3, <1>6, <2>2 DEF Insert
    <2> QED
      BY <2>1, <2>2
  <1>7. CASE StatementFails(s) \/ Cancelled(s)
    BY <1>3, <1>7 DEF StatementFails, Cancelled
  <1> QED
    BY <1>4, <1>5, <1>6, <1>7 DEF Serve

\* Every other step is a Learn or changes nothing the cell shows.
LEMMA StepIsPromised ==
  ASSUME VaultInv, [VaultNext]_vaultVars
  PROVE  Promise!Next \/ UNCHANGED <<Cell, HeldBlobs, known>>
  <1>1. ASSUME NEW d \in Device, Get(d) PROVE Promise!Next
    <2>1. /\ row # None /\ UNCHANGED <<row, written>>
          /\ known' = [known EXCEPT ![d] = row]
      BY <1>1 DEF Get
    <2>2. Cell = row /\ UNCHANGED <<Cell, HeldBlobs>>
      BY <2>1 DEF Cell, HeldBlobs
    <2> QED
      BY <2>1, <2>2 DEF Promise!Next, Promise!Learn, HeldBlobs
  <1>2. ASSUME NEW d \in Device, Seal(d) \/ GiveUp(d)
        PROVE  UNCHANGED <<Cell, HeldBlobs, known>>
    BY <1>2 DEF Seal, GiveUp, device, Cell, HeldBlobs
  <1>3. ASSUME NEW d \in Device, NEW s \in Slot, NEW p \in Process, Put(d, s, p)
        PROVE  UNCHANGED <<Cell, HeldBlobs, known>>
    BY <1>3 DEF Put, device, Cell, HeldBlobs
  <1>4. ASSUME (\E p \in Process : Fault /\ Die(p)) \/ Tick
        PROVE  UNCHANGED <<Cell, HeldBlobs, known>>
    BY <1>4 DEF Die, Tick, device, Cell, HeldBlobs
  <1>5. CASE UNCHANGED vaultVars
    BY <1>5 DEF vaultVars, Cell, HeldBlobs
  <1> QED
    BY <1>1, <1>2, <1>3, <1>4, <1>5, ServeIsPromised DEF VaultNext, DeviceStep

\* The three statements of a PUT, interleaved with those of other devices and
\* ended anywhere by a death, keep the promise of one versioned cell.
THEOREM VaultImplementsCell == VaultSpec => VaultIsOneCell
  <1>1. VaultInit => Promise!Init
    BY DEF VaultInit, Promise!Init, Promise!Empty, Cell
  <1>2. VaultInit => VaultInv
    BY InitHasInv
  <1>3. VaultInv /\ [VaultNext]_vaultVars => VaultInv'
    BY StepKeepsInv
  <1>4. VaultInv /\ [VaultNext]_vaultVars =>
          [Promise!Next]_<<Cell, {written[v].blob : v \in DOMAIN written}, known>>
    BY StepIsPromised DEF HeldBlobs
  <1> QED
    BY <1>1, <1>2, <1>3, <1>4, PTL DEF VaultSpec, VaultIsOneCell, Promise!Spec

-----------------------------------------------------------------------------
(* The buckets.                                                            *)

\* The calls let through since any time, and those the bucket would let
\* through now, are within a full bucket and what was earned since.
BucketOK(p) ==
  /\ \A t \in now..MaxNow : hits[p][t] = hits[p][now]
  /\ IF bucket[p] = None THEN hits[p] = NoHits
     ELSE /\ bucket[p].last <= now
          /\ \A t \in 0..now :
               hits[p][now] + Earned(bucket[p], now) <= HitsBefore(p, t) + Burst + (now - t)

\* The inductive invariant of the buckets.
CallsInv == VaultTypeOK /\ BurstIsBounded /\ \A p \in Process : BucketOK(p)

LEMMA EarnedType ==
  ASSUME NEW b \in Bucket, NEW t \in Nat, b.last <= t
  PROVE  Earned(b, t) \in 0..Burst
  BY BurstAssumption DEF Bucket, Earned

LEMMA EarnedGrowsByOne ==
  ASSUME NEW b \in Bucket, NEW t \in Nat, b.last <= t
  PROVE  Earned(b, t + 1) <= Earned(b, t) + 1
  BY BurstAssumption DEF Bucket, Earned

\* The bucket a call finds, new or not, is within what was earned.
LEMMA BucketOfIsEarned ==
  ASSUME CallsInv, NEW p \in Process
  PROVE  /\ BucketOf(p) \in Bucket /\ BucketOf(p).last <= now
         /\ \A t \in 0..now :
              hits[p][now] + Earned(BucketOf(p), now) <= HitsBefore(p, t) + Burst + (now - t)
  <1>1. VaultTypeOK /\ BucketOK(p) /\ now \in 0..MaxNow /\ MaxNow \in Nat
    BY VaultAssumption DEF CallsInv, VaultTypeOK
  <1>2. CASE bucket[p] = None
    <2>1. BucketOf(p) = [tokens |-> Burst, last |-> now]
      BY <1>2 DEF BucketOf, NewBucket
    <2>2. BucketOf(p) \in Bucket /\ BucketOf(p).last = now /\ Earned(BucketOf(p), now) = Burst
      BY <1>1, <2>1, BurstAssumption DEF Bucket, Earned
    <2>3. \A t \in 0..MaxNow : hits[p][t] = 0
      BY <1>1, <1>2 DEF BucketOK, NoHits
    <2>4. \A t \in 0..now : HitsBefore(p, t) = 0
      BY <1>1, <2>3 DEF HitsBefore
    <2> QED
      BY <1>1, <2>2, <2>3, <2>4, BurstAssumption
  <1>3. CASE bucket[p] # None
    <2>1. BucketOf(p) = bucket[p] /\ bucket[p] \in Bucket
      BY <1>1, <1>3 DEF BucketOf, VaultTypeOK
    <2> QED
      BY <1>1, <1>3, <2>1 DEF BucketOK
  <1> QED
    BY <1>2, <1>3

LEMMA HitsType ==
  ASSUME VaultTypeOK, NEW p \in Process
  PROVE  /\ hits[p] \in [0..MaxNow -> Nat]
         /\ \A t \in 0..MaxNow : hits[p][t] \in Nat /\ HitsBefore(p, t) \in Nat
         /\ now \in 0..MaxNow /\ MaxNow \in Nat /\ now \in Nat
  BY VaultAssumption DEF VaultTypeOK, HitsBefore

\* A call let through takes one of the tokens earned.
LEMMA PutKeepsCalls ==
  ASSUME CallsInv, NEW d \in Device, NEW s \in Slot, NEW p \in Process, Put(d, s, p)
  PROVE  CallsInv'
  <1> DEFINE b == BucketOf(p)
             h == hits[p]
  <1>1. VaultTypeOK /\ VaultTypeOK' /\ now' = now
    BY DeviceType DEF CallsInv, Put
  <1>2. /\ b \in Bucket /\ b.last <= now
        /\ \A t \in 0..now : h[now] + Earned(b, now) <= HitsBefore(p, t) + Burst + (now - t)
    BY BucketOfIsEarned
  <1>3. Earned(b, now) \in 1..Burst
    BY <1>1, <1>2, EarnedType, HitsType DEF Put, Allows
  <1>4. /\ h \in [0..MaxNow -> Nat] /\ now \in 0..MaxNow /\ MaxNow \in Nat
        /\ hits' = [hits EXCEPT ![p] = Counted(h)]
        /\ bucket' = [bucket EXCEPT ![p] = Spend(b, now)]
    BY <1>1, HitsType DEF Put
  <1>5. \A t \in 0..MaxNow : hits'[p][t] = IF t < now THEN h[t] ELSE h[t] + 1
    BY <1>1, <1>4 DEF VaultTypeOK, Counted
  <1>6. ASSUME NEW q \in Process, q # p PROVE hits'[q] = hits[q] /\ bucket'[q] = bucket[q]
    BY <1>1, <1>4, <1>6 DEF VaultTypeOK
  <1>7. BucketOK(p) /\ BurstIsBounded
    BY DEF CallsInv
  <1> HIDE DEF b, h
  <1>8. \A t \in now..MaxNow : hits'[p][t] = hits'[p][now]
    BY <1>4, <1>5, <1>7 DEF BucketOK, h
  <1>9. \A t \in 0..now : HitsBefore(p, t)' = HitsBefore(p, t)
    BY <1>4, <1>5 DEF HitsBefore, h
  <1>10. BucketOK(p)'
    <2>1. bucket'[p] = [tokens |-> Earned(b, now) - 1, last |-> now]
      BY <1>1, <1>4 DEF VaultTypeOK, Spend
    <2>2. bucket'[p] \in Bucket /\ bucket'[p] # None
      <3>1. Earned(b, now) - 1 \in 0..Burst /\ now \in Nat
        BY <1>3, <1>4, BurstAssumption
      <3> QED
        BY <2>1, <3>1, VaultAssumption DEF Bucket
    <2>3. Earned(bucket'[p], now) = Earned(b, now) - 1
      BY <1>3, <1>4, <2>1, BurstAssumption DEF Earned
    <2>4. hits'[p][now] = h[now] + 1
      BY <1>4, <1>5
    <2>5. \A t \in 0..now :
            hits'[p][now] + Earned(bucket'[p], now) <= HitsBefore(p, t)' + Burst + (now - t)
      BY <1>2, <1>3, <1>4, <1>9, <2>3, <2>4
    <2> QED
      BY <1>1, <1>4, <1>8, <2>1, <2>2, <2>5 DEF BucketOK
  <1>11. BurstIsBounded'
    <2> SUFFICES ASSUME NEW q \in Process, NEW t \in 0..MaxNow, NEW u \in 0..MaxNow, t <= u
                 PROVE  hits'[q][u] <= HitsBefore(q, t)' + Burst + (u - t)
      BY DEF BurstIsBounded
    <2>1. hits[q][u] <= HitsBefore(q, t) + Burst + (u - t)
      BY <1>7 DEF BurstIsBounded
    <2>2. CASE q # p
      BY <1>6, <2>1, <2>2 DEF HitsBefore
    <2>3. CASE q = p /\ u < now
      <3>1. t \in 0..now /\ hits'[p][u] = h[u]
        BY <1>4, <1>5, <2>3
      <3> QED
        BY <1>9, <2>1, <2>3, <3>1 DEF h
    <2>4. CASE q = p /\ now <= u /\ t <= now
      <3>1. hits'[p][u] = h[now] + 1 /\ t \in 0..now
        BY <1>4, <1>5, <1>8, <2>4
      <3>2. h[now] + Earned(b, now) <= HitsBefore(p, t) + Burst + (now - t)
        BY <1>2, <3>1 
      <3>3. HitsBefore(p, t) \in Nat /\ h[now] \in Nat
        BY <1>1, <1>4, HitsType
      <3> QED
        BY <1>3, <1>4, <1>9, <2>4, <3>1, <3>2, <3>3, BurstAssumption
    <2>5. CASE q = p /\ now < t
      <3>1. hits'[p][u] = hits'[p][now] /\ HitsBefore(p, t)' = hits'[p][t - 1]
        BY <1>4, <1>8, <2>5 DEF HitsBefore
      <3>2. hits'[p][t - 1] = hits'[p][now] /\ hits'[p][now] \in Nat
        BY <1>4, <1>5, <1>8, <2>5
      <3> QED
        BY <2>5, <3>1, <3>2, BurstAssumption
    <2> QED
      BY <1>4, <2>2, <2>3, <2>4, <2>5
  <1>12. ASSUME NEW q \in Process, q # p PROVE BucketOK(q)'
    BY <1>1, <1>6, <1>12 DEF CallsInv, BucketOK, HitsBefore
  <1> QED
    BY <1>1, <1>10, <1>11, <1>12 DEF CallsInv

\* A period passes: at most one token is earned.
LEMMA TickKeepsCalls ==
  ASSUME CallsInv, Tick
  PROVE  CallsInv'
  <1>1. /\ VaultTypeOK /\ VaultTypeOK'
        /\ now' = now + 1 /\ now' \in 0..MaxNow /\ UNCHANGED <<bucket, hits>>
    BY VaultAssumption DEF CallsInv, Tick, VaultTypeOK, device, calls
  <1>2. ASSUME NEW p \in Process PROVE BucketOK(p)'
    <2>1. BucketOK(p)
      BY DEF CallsInv
    <2>2. /\ hits[p][now + 1] = hits[p][now] /\ hits[p][now] \in Nat
          /\ \A t \in 0..MaxNow : HitsBefore(p, t) \in Nat
      BY <1>1, <2>1, HitsType DEF BucketOK
    <2>3. CASE bucket[p] = None
      BY <1>1, <2>1, <2>2, <2>3, HitsType DEF BucketOK
    <2>4. CASE bucket[p] # None
      <3>1. bucket[p] \in Bucket /\ bucket[p].last <= now /\ now \in Nat
        BY <1>1, <2>1, <2>4, HitsType DEF BucketOK, VaultTypeOK
      <3>2. /\ Earned(bucket[p], now') <= Earned(bucket[p], now) + 1
            /\ Earned(bucket[p], now) \in 0..Burst
        BY <1>1, <3>1, EarnedGrowsByOne, EarnedType
      <3>3. Earned(bucket[p], now') \in 0..Burst
        <4>1. bucket[p].last <= now' /\ now' \in Nat
          BY <1>1, <3>1 DEF Bucket
        <4> QED
          BY <3>1, <4>1, EarnedType
      <3>4. ASSUME NEW t \in 0..now'
            PROVE  hits[p][now'] + Earned(bucket[p], now') <= HitsBefore(p, t)' + Burst + (now' - t)
        <4>1. CASE t \in 0..now
          <5>1. hits[p][now] + Earned(bucket[p], now) <= HitsBefore(p, t) + Burst + (now - t)
            BY <2>1, <2>4, <4>1 DEF BucketOK
          <5>2. HitsBefore(p, t)' = HitsBefore(p, t) /\ HitsBefore(p, t) \in Nat
            <6>1. t \in 0..MaxNow
              BY <1>1, <4>1, HitsType
            <6> QED
              BY <1>1, <2>2, <6>1 DEF HitsBefore
          <5>3. now' - t = (now - t) + 1 /\ now - t \in Nat
            BY <1>1, <3>1, <4>1
          <5> QED
            BY <1>1, <2>2, <3>2, <3>3, <5>1, <5>2, <5>3, BurstAssumption
        <4>2. CASE t = now'
          <5>1. HitsBefore(p, t)' = hits[p][now]
            BY <1>1, <3>1, <4>2 DEF HitsBefore
          <5>2. now' - t = 0
            BY <1>1, <4>2
          <5> HIDE <4>2
          <5> QED
            BY <1>1, <2>2, <3>3, <5>1, <5>2, BurstAssumption
        <4> QED
          BY <1>1, <3>1, <4>1, <4>2
      <3>5. \A t \in now'..MaxNow : hits[p][t] = hits[p][now']
        BY <1>1, <2>1, <2>2, <3>1, VaultAssumption DEF BucketOK
      <3>6. bucket[p].last <= now'
        BY <1>1, <3>1 DEF Bucket
      <3> QED
        BY <1>1, <2>4, <3>4, <3>5, <3>6 DEF BucketOK
    <2> QED
      BY <2>3, <2>4
  <1>3. BurstIsBounded'
    BY <1>1 DEF CallsInv, BurstIsBounded, HitsBefore
  <1> QED
    BY <1>1, <1>2, <1>3 DEF CallsInv

\* A process that goes down starts with full buckets, and has let nothing through.
LEMMA DieKeepsCalls ==
  ASSUME CallsInv, NEW p \in Process, Die(p), VaultTypeOK'
  PROVE  CallsInv'
  <1>1. /\ VaultTypeOK /\ now' = now
        /\ bucket' = [bucket EXCEPT ![p] = None] /\ hits' = [hits EXCEPT ![p] = NoHits]
    BY DEF CallsInv, Die
  <1>2. bucket'[p] = None /\ hits'[p] = NoHits /\ \A t \in 0..MaxNow : NoHits[t] = 0
    BY <1>1 DEF VaultTypeOK, NoHits
  <1>3. ASSUME NEW q \in Process, q # p PROVE hits'[q] = hits[q] /\ bucket'[q] = bucket[q]
    BY <1>1, <1>3 DEF VaultTypeOK
  <1>4. now \in 0..MaxNow /\ MaxNow \in Nat
    BY <1>1, VaultAssumption DEF VaultTypeOK
  <1>5. ASSUME NEW q \in Process PROVE BucketOK(q)'
    <2>1. CASE q = p
      BY <1>1, <1>2, <1>4, <2>1 DEF BucketOK
    <2>2. CASE q # p
      BY <1>1, <1>3, <2>2 DEF CallsInv, BucketOK, HitsBefore
    <2> QED
      BY <2>1, <2>2
  <1>6. BurstIsBounded'
    <2> SUFFICES ASSUME NEW q \in Process, NEW t \in 0..MaxNow, NEW u \in 0..MaxNow, t <= u
                 PROVE  hits'[q][u] <= HitsBefore(q, t)' + Burst + (u - t)
      BY DEF BurstIsBounded
    <2>1. CASE q = p
      <3>1. hits'[q][u] = 0 /\ HitsBefore(q, t)' = 0
        BY <1>2, <1>4, <2>1 DEF HitsBefore
      <3> QED
        BY <1>4, <3>1, BurstAssumption
    <2>2. CASE q # p
      BY <1>3, <2>2 DEF CallsInv, BurstIsBounded, HitsBefore
    <2> QED
      BY <2>1, <2>2
  <1> QED
    BY <1>5, <1>6 DEF CallsInv

LEMMA CallsStay ==
  ASSUME CallsInv, VaultTypeOK', UNCHANGED <<bucket, hits, now>>
  PROVE  CallsInv'
  BY DEF CallsInv, BurstIsBounded, BucketOK, HitsBefore

LEMMA InitHasCalls ==
  ASSUME VaultInit
  PROVE  CallsInv
  <1>1. VaultTypeOK
    BY InitHasInv DEF VaultInv
  <1>2. /\ now = 0 /\ \A p \in Process : bucket[p] = None /\ hits[p] = NoHits
        /\ \A t \in 0..MaxNow : NoHits[t] = 0
    BY DEF VaultInit, NoHits
  <1> QED
    BY <1>1, <1>2, VaultAssumption, BurstAssumption DEF CallsInv, BurstIsBounded, BucketOK, HitsBefore

LEMMA StepKeepsCalls ==
  ASSUME VaultInv, CallsInv, [VaultNext]_vaultVars
  PROVE  CallsInv'
  <1>1. VaultTypeOK'
    BY StepKeepsInv DEF VaultInv
  <1>2. ASSUME NEW d \in Device, DeviceStep(d) PROVE CallsInv'
    BY <1>1, <1>2, CallsStay DEF DeviceStep, Seal, Get, GiveUp, calls
  <1>3. ASSUME NEW s \in Slot, Serve(s) PROVE CallsInv'
    <2>1. UNCHANGED <<bucket, hits, now>>
      BY <1>3 DEF Serve, Update, Look, Insert, StatementFails, Cancelled, Stored, GoesTo,
         Conflict, Broken, calls
    <2> QED
      BY <1>1, <2>1, CallsStay
  <1>4. CASE UNCHANGED vaultVars
    BY <1>1, <1>4, CallsStay DEF vaultVars
  <1> QED
    BY <1>1, <1>2, <1>3, <1>4, PutKeepsCalls, TickKeepsCalls, DieKeepsCalls DEF VaultNext

\* However calls arrive, a process lets through at most a full bucket and one
\* call for each period (ratelimit.go, buckets.allow).
THEOREM VaultBurstsAreBounded == VaultSpec => []BurstIsBounded
  <1>1. VaultInit => VaultInv /\ CallsInv
    BY InitHasInv, InitHasCalls
  <1>2. VaultInv /\ CallsInv /\ [VaultNext]_vaultVars => VaultInv' /\ CallsInv'
    BY StepKeepsInv, StepKeepsCalls
  <1>3. CallsInv => BurstIsBounded
    BY DEF CallsInv
  <1> QED
    BY <1>1, <1>2, <1>3, PTL DEF VaultSpec

-----------------------------------------------------------------------------
(* Boot.                                                                   *)

\* Up to the file a replica has come to, its image is applied.
AppliedBelow(r, n) ==
  \A f \in DOMAIN image[r] : f < n => f \in DOMAIN ledger /\ ledger[f] = image[r][f]

InTx == {"begun", "executed", "recorded"}

\* Its loop moves under the lock, through an image applied so far; in a
\* transaction it has come to the first file that is not.
LoopIsLocked ==
  \A r \in Replica :
    /\ state[r] = "locking" => file[r] = 1
    /\ state[r] \in Migrating => lock = r /\ AppliedBelow(r, file[r])
    /\ state[r] \in InTx => file[r] \in DOMAIN image[r] /\ file[r] = Len(schema) + 1

\* The inductive invariant.
BootInv == BootTypeOK /\ LedgerIsSchema /\ LoopIsLocked /\ ServesOnItsSchema /\ BootsDoNotClash

-----------------------------------------------------------------------------

LEMMA SameBound ==
  ASSUME NEW m \in Nat, NEW n \in Nat, 1..m = 1..n
  PROVE  m = n
  <1>1. ~(m < n)
    <2> SUFFICES ASSUME m < n PROVE FALSE
      OBVIOUS
    <2>1. n \in 1..n /\ n \notin 1..m
      OBVIOUS
    <2> QED
      BY <2>1
  <1>2. ~(n < m)
    <2> SUFFICES ASSUME n < m PROVE FALSE
      OBVIOUS
    <2>1. m \in 1..m /\ m \notin 1..n
      OBVIOUS
    <2> QED
      BY <2>1
  <1> QED
    BY <1>1, <1>2

LEMMA ImageFacts ==
  ASSUME BootTypeOK, NEW r \in Replica
  PROVE  /\ image[r] \in Seq(Contents)
         /\ \A f \in DOMAIN image[r] : image[r][f] \in Contents
  <1>1. image[r] \in Images
    BY DEF BootTypeOK
  <1> QED
    BY <1>1, BootAssumption DEF Contents

\* Recording the first file that is not applied appends it to the ledger.
LEMMA RecordedIsAppend ==
  ASSUME BootInv, NEW r \in Replica, state[r] \in InTx
  PROVE  /\ Recorded(r) = Append(ledger, image[r][file[r]])
         /\ Migrated(r) = Append(schema, [file |-> Len(schema) + 1, content |-> image[r][file[r]]])
         /\ Len(ledger) = Len(schema) /\ Len(schema) \in Nat
         /\ DOMAIN ledger = 1..Len(ledger)
  <1>1. /\ file[r] \in DOMAIN image[r] /\ file[r] = Len(schema) + 1
        /\ ledger \in Seq(Contents) /\ schema \in Seq([file : Nat, content : Contents])
        /\ DOMAIN ledger = DOMAIN schema
    BY DEF BootInv, LoopIsLocked, LedgerIsSchema, BootTypeOK
  <1>2. /\ Len(ledger) \in Nat /\ DOMAIN ledger = 1..Len(ledger)
        /\ Len(schema) \in Nat /\ DOMAIN schema = 1..Len(schema)
    BY <1>1
  <1>3. Len(ledger) = Len(schema)
    BY <1>1, <1>2, SameBound
  <1>4. DOMAIN ledger \cup {file[r]} = 1..(Len(ledger) + 1)
    BY <1>1, <1>2, <1>3
  <1>5. Recorded(r) = [f \in 1..(Len(ledger) + 1) |->
                         IF f \in 1..Len(ledger) THEN ledger[f] ELSE image[r][file[r]]]
    BY <1>1, <1>2, <1>3, <1>4 DEF Recorded
  <1>6. Append(ledger, image[r][file[r]])
          = [f \in 1..(Len(ledger) + 1) |->
               IF f \in 1..Len(ledger) THEN ledger[f] ELSE image[r][file[r]]]
    BY <1>1, <1>2
  <1> QED
    BY <1>1, <1>2, <1>3, <1>5, <1>6 DEF Migrated

-----------------------------------------------------------------------------
(* One lemma per part that a step can disturb. *)

LEMMA TypeStep ==
  ASSUME BootInv, NEW r \in Replica,
         Start(r) \/ MigrateStep(r) \/ Drain(r) \/ Drained(r) \/ BootDie(r)
  PROVE  BootTypeOK'
  <1> USE DEF BootTypeOK, States, Exited, Migrating
  <1>0. BootTypeOK
    BY DEF BootInv
  <1>1. CASE Start(r)
    BY <1>0, <1>1, BootAssumption DEF Start, Goes, database
  <1>2. CASE Lock(r) \/ Refuse(r) \/ BeginTx(r)
    BY <1>0, <1>2, BootAssumption DEF Lock, Refuse, BeginTx, Goes, Exits, Released, fleet, database
  <1>5. CASE Skip(r)
    BY <1>0, <1>5 DEF Skip, fleet, database
  <1>6. CASE Execute(r) \/ Record(r)
    <2>1. /\ \E s \in {"clashed", "executed", "recorded"} : state' = [state EXCEPT ![r] = s]
          /\ lock' \in {lock, Nobody}
      BY <1>6 DEF Execute, Record, Goes, Exits, Released
    <2> QED
      BY <1>0, <1>6, <2>1 DEF Execute, Record, fleet, database
  <1>7. CASE Finish(r)
    BY <1>0, <1>7 DEF Finish, Goes, Released, fleet, database
  <1>3. CASE Commit(r)
    <2>1. /\ state[r] \in InTx /\ file[r] \in DOMAIN image[r]
          /\ image[r][file[r]] \in Contents
      BY <1>3, ImageFacts DEF Commit, InTx, BootInv, LoopIsLocked
    <2>2. /\ ledger' = Append(ledger, image[r][file[r]])
          /\ schema' = Append(schema, [file |-> Len(schema) + 1, content |-> image[r][file[r]]])
          /\ Len(schema) \in Nat
      BY <1>3, <2>1, RecordedIsAppend DEF Commit
    <2>3. ledger' \in Seq(Contents)
      BY <1>0, <2>1, <2>2, AppendProperties
    <2>4. [file |-> Len(schema) + 1, content |-> image[r][file[r]]] \in [file : Nat, content : Contents]
      BY <2>1, <2>2
    <2>5. schema' \in Seq([file : Nat, content : Contents])
      BY <1>0, <2>2, <2>4, AppendProperties
    <2> QED
      BY <1>0, <1>3, <2>3, <2>5 DEF Commit, Goes, fleet
  <1>4. CASE Drain(r) \/ Drained(r)
    BY <1>0, <1>4 DEF Drain, Drained, Goes, fleet, database
  <1>8. CASE BootDie(r)
    <2>1. deaths' \in 0..MaxDeaths
      BY <1>0, <1>8, BootAssumption DEF BootDie, Fails
    <2> QED
      BY <1>0, <1>8, <2>1 DEF BootDie, Goes, Exits, Released, fleet, database
  <1> QED
    BY <1>1, <1>2, <1>3, <1>4, <1>5, <1>6, <1>7, <1>8 DEF MigrateStep

\* What every step but Commit leaves alone.
LEMMA CommitAlone ==
  ASSUME NEW r \in Replica,
         Start(r) \/ Lock(r) \/ Skip(r) \/ Refuse(r) \/ BeginTx(r) \/ Execute(r) \/ Record(r)
           \/ Finish(r) \/ Drain(r) \/ Drained(r) \/ BootDie(r)
  PROVE  ledger' = ledger /\ schema' = schema
  BY DEF Start, Lock, Skip, Refuse, BeginTx, Execute, Record, Finish, Drain, Drained, BootDie, database

LEMMA CommitAppends ==
  ASSUME BootInv, NEW r \in Replica, Commit(r)
  PROVE  /\ ledger' \in Seq(Contents) /\ Len(ledger') = Len(ledger) + 1
         /\ Len(schema') = Len(schema) + 1 /\ Len(ledger) = Len(schema) /\ Len(ledger) \in Nat
         /\ DOMAIN ledger = 1..Len(ledger) /\ DOMAIN schema = 1..Len(schema)
         /\ DOMAIN ledger' = 1..(Len(ledger) + 1) /\ DOMAIN schema' = 1..(Len(schema) + 1)
         /\ \A k \in 1..Len(ledger) : ledger'[k] = ledger[k] /\ schema'[k] = schema[k]
         /\ ledger'[Len(ledger) + 1] = image[r][file[r]]
         /\ schema'[Len(ledger) + 1] = [file |-> Len(ledger) + 1, content |-> image[r][file[r]]]
  <1>1. /\ state[r] \in InTx /\ file[r] \in DOMAIN image[r]
        /\ image[r][file[r]] \in Contents
        /\ ledger \in Seq(Contents) /\ schema \in Seq([file : Nat, content : Contents])
    BY ImageFacts DEF Commit, InTx, BootInv, LoopIsLocked, BootTypeOK
  <1>2. /\ ledger' = Append(ledger, image[r][file[r]])
        /\ schema' = Append(schema, [file |-> Len(schema) + 1, content |-> image[r][file[r]]])
        /\ Len(ledger) = Len(schema) /\ Len(schema) \in Nat
    BY <1>1, RecordedIsAppend DEF Commit
  <1>3. [file |-> Len(schema) + 1, content |-> image[r][file[r]]] \in [file : Nat, content : Contents]
    BY <1>1, <1>2
  <1>4. /\ ledger' \in Seq(Contents) /\ Len(ledger') = Len(ledger) + 1
        /\ \A k \in 1..Len(ledger) : ledger'[k] = ledger[k]
        /\ ledger'[Len(ledger) + 1] = image[r][file[r]]
    BY <1>1, <1>2, AppendProperties
  <1>5. /\ schema' \in Seq([file : Nat, content : Contents]) /\ Len(schema') = Len(schema) + 1
        /\ \A k \in 1..Len(schema) : schema'[k] = schema[k]
        /\ schema'[Len(schema) + 1] = [file |-> Len(schema) + 1, content |-> image[r][file[r]]]
    BY <1>1, <1>2, <1>3, AppendProperties
  <1>6. /\ DOMAIN ledger = 1..Len(ledger) /\ DOMAIN schema = 1..Len(schema)
        /\ DOMAIN ledger' = 1..Len(ledger') /\ DOMAIN schema' = 1..Len(schema')
    BY <1>1, <1>4, <1>5, LenProperties
  <1> QED
    BY <1>2, <1>4, <1>5, <1>6

LEMMA LedgerStep ==
  ASSUME BootInv, NEW r \in Replica,
         Start(r) \/ MigrateStep(r) \/ Drain(r) \/ Drained(r) \/ BootDie(r)
  PROVE  LedgerIsSchema'
  <1>1. CASE Commit(r)
    <2>1. \A k \in 1..Len(ledger) : schema'[k] = [file |-> k, content |-> ledger'[k]]
      BY <1>1, CommitAppends DEF BootInv, LedgerIsSchema
    <2>2. schema'[Len(ledger) + 1] = [file |-> Len(ledger) + 1, content |-> ledger'[Len(ledger) + 1]]
      BY <1>1, CommitAppends
    <2>3. /\ DOMAIN ledger' = 1..(Len(ledger) + 1) /\ DOMAIN schema' = 1..(Len(ledger) + 1)
          /\ Len(ledger) \in Nat
      BY <1>1, CommitAppends
    <2>4. \A k \in 1..(Len(ledger) + 1) : k \in 1..Len(ledger) \/ k = Len(ledger) + 1
      BY <2>3
    <2>5. \A k \in 1..(Len(ledger) + 1) : schema'[k] = [file |-> k, content |-> ledger'[k]]
      BY <2>1, <2>2, <2>4
    <2> QED
      BY <2>3, <2>5 DEF LedgerIsSchema
  <1>2. CASE ~Commit(r)
    BY <1>2, CommitAlone DEF MigrateStep, BootInv, LedgerIsSchema
  <1> QED
    BY <1>1, <1>2

LEMMA ClashStep ==
  ASSUME BootInv, NEW r \in Replica,
         Start(r) \/ MigrateStep(r) \/ Drain(r) \/ Drained(r) \/ BootDie(r)
  PROVE  BootsDoNotClash'
  <1> USE DEF BootsDoNotClash
  <1>0. BootTypeOK /\ BootsDoNotClash
    BY DEF BootInv
  <1>1. CASE Execute(r)
    <2>1. /\ state[r] \in InTx /\ file[r] = Len(schema) + 1 /\ DOMAIN schema = 1..Len(schema)
          /\ Len(schema) \in Nat /\ \A k \in DOMAIN schema : schema[k].file = k
      BY <1>0, <1>1 DEF Execute, InTx, BootInv, LoopIsLocked, LedgerIsSchema, BootTypeOK
    <2> QED
      BY <1>0, <1>1, <2>1 DEF Execute, Goes, BootTypeOK
  <1>2. CASE Record(r)
    <2>1. /\ state[r] \in InTx /\ file[r] = Len(schema) + 1 /\ DOMAIN ledger = 1..Len(schema)
          /\ Len(schema) \in Nat
      BY <1>0, <1>2 DEF Record, InTx, BootInv, LoopIsLocked, LedgerIsSchema, BootTypeOK
    <2> QED
      BY <1>0, <1>2, <2>1 DEF Record, Applied, Goes, BootTypeOK
  <1>3. CASE Start(r) \/ Lock(r) \/ Skip(r) \/ Refuse(r) \/ BeginTx(r) \/ Commit(r)
             \/ Finish(r) \/ Drain(r) \/ Drained(r) \/ BootDie(r)
    BY <1>0, <1>3 DEF Start, Lock, Skip, Refuse, BeginTx, Commit, Finish, Drain, Drained, BootDie,
       Goes, Exits, BootTypeOK
  <1> QED
    BY <1>1, <1>2, <1>3 DEF MigrateStep

\* No step takes an applied migration out of the ledger.
LEMMA LedgerGrows ==
  ASSUME BootInv, NEW r \in Replica,
         Start(r) \/ MigrateStep(r) \/ Drain(r) \/ Drained(r) \/ BootDie(r)
  PROVE  \A f \in DOMAIN ledger : f \in DOMAIN ledger' /\ ledger'[f] = ledger[f]
  <1>1. CASE Commit(r)
    <2>1. DOMAIN ledger = 1..Len(ledger) /\ Len(ledger) \in Nat
      BY <1>1, CommitAppends
    <2>4. \A k \in 1..Len(ledger) : ledger'[k] = ledger[k]
      BY <1>1, CommitAppends
    <2>5. \A k \in 1..Len(ledger) : k \in 1..(Len(ledger) + 1)
      BY <2>1
    <2>2. \A k \in 1..Len(ledger) : k \in 1..(Len(ledger) + 1) /\ ledger'[k] = ledger[k]
      BY <2>4, <2>5
    <2>3. DOMAIN ledger' = 1..(Len(ledger) + 1)
      BY <1>1, CommitAppends
    <2> QED
      BY <2>1, <2>2, <2>3
  <1>2. CASE ~Commit(r)
    BY <1>2, CommitAlone DEF MigrateStep
  <1> QED
    BY <1>1, <1>2

\* The others' images and places stay; so does what they found applied.
LEMMA OthersStay ==
  ASSUME BootInv, NEW r \in Replica, NEW q \in Replica, q # r,
         Start(r) \/ MigrateStep(r) \/ Drain(r) \/ Drained(r) \/ BootDie(r)
  PROVE  /\ state'[q] = state[q] /\ image'[q] = image[q] /\ file'[q] = file[q]
         /\ \A n : AppliedBelow(q, n) => AppliedBelow(q, n)'
  <1>1. state'[q] = state[q] /\ image'[q] = image[q] /\ file'[q] = file[q]
    BY DEF Start, MigrateStep, Lock, Skip, Refuse, BeginTx, Execute, Record, Commit, Finish, Drain,
       Drained, BootDie, Goes, Exits, fleet, BootInv, BootTypeOK
  <1>2. \A f \in DOMAIN ledger : f \in DOMAIN ledger' /\ ledger'[f] = ledger[f]
    BY LedgerGrows
  <1> QED
    BY <1>1, <1>2 DEF AppliedBelow

\* Who moves the lock held it, or found it free.
LEMMA LockStep ==
  ASSUME BootInv, NEW r \in Replica, NEW q \in Replica, q # r, lock = q,
         Start(r) \/ MigrateStep(r) \/ Drain(r) \/ Drained(r) \/ BootDie(r)
  PROVE  lock' = q /\ ~(state[r] \in Migrating)
  <1>1. ~(state[r] \in Migrating)
    BY DEF BootInv, LoopIsLocked
  <1>2. q # Nobody
    BY BootAssumption
  <1> QED
    BY <1>1, <1>2 DEF Start, MigrateStep, Lock, Skip, Refuse, BeginTx, Execute, Record, Commit,
       Finish, Drain, Drained, BootDie, Exits, Released, Migrating, More

LEMMA LoopStep ==
  ASSUME BootInv, NEW r \in Replica,
         Start(r) \/ MigrateStep(r) \/ Drain(r) \/ Drained(r) \/ BootDie(r)
  PROVE  LoopIsLocked'
  <1>0. BootTypeOK /\ LoopIsLocked
    BY DEF BootInv
  <1>1. ASSUME NEW q \in Replica, q # r
        PROVE  /\ state'[q] = "locking" => file'[q] = 1
               /\ state'[q] \in Migrating => lock' = q /\ AppliedBelow(q, file[q])'
               /\ state'[q] \in InTx => file'[q] \in DOMAIN image'[q] /\ file'[q] = Len(schema') + 1
    <2>1. /\ state'[q] = state[q] /\ image'[q] = image[q] /\ file'[q] = file[q]
          /\ \A n : AppliedBelow(q, n) => AppliedBelow(q, n)'
      BY <1>1, OthersStay
    <2>2. AppliedBelow(q, file[q]) => AppliedBelow(q, file[q])'
      BY <2>1 DEF AppliedBelow
    <2>3. CASE state[q] \in Migrating
      <3>1. lock = q /\ AppliedBelow(q, file[q])
        BY <1>0, <2>3 DEF LoopIsLocked
      <3>2. lock' = q /\ ~(state[r] \in Migrating)
        BY <1>1, <3>1, LockStep
      <3>3. schema' = schema
        BY <3>2, CommitAlone DEF MigrateStep, Commit, Migrating
      <3> QED
        BY <1>0, <2>1, <2>2, <3>1, <3>2, <3>3 DEF LoopIsLocked
    <2>4. CASE state[q] \notin Migrating
      BY <1>0, <2>1, <2>4 DEF Migrating, InTx, LoopIsLocked
    <2> QED
      BY <2>3, <2>4
  <1>2. /\ state'[r] = "locking" => file'[r] = 1
        /\ state'[r] \in Migrating => lock' = r /\ AppliedBelow(r, file[r])'
        /\ state'[r] \in InTx => file'[r] \in DOMAIN image'[r] /\ file'[r] = Len(schema') + 1
    <2> USE DEF InTx, Migrating
    <2>0. /\ image[r] \in Seq(Contents) /\ file[r] \in Nat \ {0}
          /\ ledger \in Seq(Contents) /\ DOMAIN ledger = DOMAIN schema /\ Len(schema) \in Nat
          /\ DOMAIN ledger = 1..Len(schema) /\ DOMAIN image[r] = 1..Len(image[r])
          /\ Len(image[r]) \in Nat
      BY <1>0, ImageFacts DEF BootTypeOK, BootInv, LedgerIsSchema
    <2>1. CASE Start(r) \/ Refuse(r) \/ Finish(r) \/ Drain(r) \/ Drained(r) \/ BootDie(r)
      BY <1>0, <2>1
      DEF Start, Refuse, Finish, Drain, Drained, BootDie, Goes, Exits, Exited, BootTypeOK
    <2>2. CASE Lock(r)
      <3>1. file[r] = 1 /\ image' = image /\ file' = file /\ state'[r] = "check" /\ lock' = r
        BY <1>0, <2>2 DEF Lock, Goes, fleet, LoopIsLocked, BootTypeOK
      <3>2. AppliedBelow(r, file[r])'
        BY <2>0, <3>1 DEF AppliedBelow
      <3> QED
        BY <3>1, <3>2
    <2>3. CASE Skip(r)
      <3>1. /\ state[r] = "check" /\ state' = state /\ lock' = lock /\ image' = image
            /\ ledger' = ledger /\ schema' = schema /\ file'[r] = file[r] + 1
            /\ file[r] \in DOMAIN ledger /\ ledger[file[r]] = image[r][file[r]]
        BY <1>0, <2>3 DEF Skip, More, Unchanged, Applied, fleet, database, BootTypeOK
      <3>2. lock = r /\ AppliedBelow(r, file[r])
        BY <1>0, <3>1 DEF LoopIsLocked
      <3>3. AppliedBelow(r, file[r])'
        BY <2>0, <3>1, <3>2 DEF AppliedBelow
      <3> QED
        BY <3>1, <3>2, <3>3
    <2>4. CASE BeginTx(r)
      <3>1. /\ state[r] = "check" /\ state'[r] = "begun" /\ lock' = lock /\ image' = image
            /\ ledger' = ledger /\ schema' = schema /\ file' = file
            /\ file[r] \in DOMAIN image[r] /\ file[r] \notin DOMAIN ledger
        BY <1>0, <2>4 DEF BeginTx, More, Applied, Goes, fleet, database, BootTypeOK
      <3>2. lock = r /\ AppliedBelow(r, file[r])
        BY <1>0, <3>1 DEF LoopIsLocked
      <3>3. AppliedBelow(r, file[r])'
        BY <3>1, <3>2 DEF AppliedBelow
      <3>4. file[r] > Len(schema)
        BY <2>0, <3>1
      <3>5. ~(file[r] > Len(schema) + 1)
        <4> SUFFICES ASSUME file[r] > Len(schema) + 1 PROVE FALSE
          OBVIOUS
        <4>1. Len(schema) + 1 \in DOMAIN image[r] /\ Len(schema) + 1 < file[r]
          BY <2>0, <3>1
        <4>2. Len(schema) + 1 \in DOMAIN ledger
          BY <3>2, <4>1 DEF AppliedBelow
        <4> QED
          BY <2>0, <4>2
      <3> QED
        BY <2>0, <3>1, <3>2, <3>3, <3>4, <3>5
    <2>5. CASE Execute(r) \/ Record(r)
      <3>1. /\ state[r] \in {"begun", "executed"} /\ image' = image /\ ledger' = ledger
            /\ schema' = schema /\ file' = file
            /\ state'[r] = "clashed" \/ (state'[r] \in {"executed", "recorded"} /\ lock' = lock)
        BY <1>0, <2>5 DEF Execute, Record, Goes, Exits, fleet, database, BootTypeOK
      <3> QED
        BY <1>0, <3>1 DEF LoopIsLocked, AppliedBelow
    <2>6. CASE Commit(r)
      <3>1. /\ state[r] = "recorded" /\ state'[r] = "check" /\ lock' = lock /\ image' = image
            /\ file'[r] = file[r] + 1
        BY <1>0, <2>6 DEF Commit, Goes, fleet, BootTypeOK
      <3>2. /\ lock = r /\ AppliedBelow(r, file[r]) /\ file[r] = Len(schema) + 1
        BY <1>0, <3>1 DEF LoopIsLocked
      <3>5. /\ DOMAIN ledger' = 1..(Len(ledger) + 1) /\ Len(ledger) \in Nat /\ Len(ledger) = Len(schema)
            /\ ledger'[Len(ledger) + 1] = image[r][file[r]]
        BY <2>6, CommitAppends
      <3>6. file[r] \in DOMAIN ledger' /\ ledger'[file[r]] = image[r][file[r]]
        BY <3>2, <3>5
      <3>7. \A k \in DOMAIN ledger : k \in DOMAIN ledger' /\ ledger'[k] = ledger[k]
        BY LedgerGrows
      <3>3. /\ file[r] \in DOMAIN ledger' /\ ledger'[file[r]] = image[r][file[r]]
            /\ \A k \in DOMAIN ledger : k \in DOMAIN ledger' /\ ledger'[k] = ledger[k]
        BY <3>6, <3>7
      <3>4. AppliedBelow(r, file[r])'
        BY <2>0, <3>1, <3>2, <3>3 DEF AppliedBelow
      <3> QED
        BY <3>1, <3>2, <3>4
    <2> QED
      BY <2>1, <2>2, <2>3, <2>4, <2>5, <2>6 DEF MigrateStep
  <1> QED
    BY <1>1, <1>2 DEF LoopIsLocked

LEMMA ServesStep ==
  ASSUME BootInv, NEW r \in Replica,
         Start(r) \/ MigrateStep(r) \/ Drain(r) \/ Drained(r) \/ BootDie(r)
  PROVE  ServesOnItsSchema'
  <1>0. BootTypeOK /\ LoopIsLocked /\ ServesOnItsSchema
    BY DEF BootInv
  <1>1. \A f \in DOMAIN ledger : f \in DOMAIN ledger' /\ ledger'[f] = ledger[f]
    BY LedgerGrows
  <1>2. ASSUME NEW q \in Replica, state'[q] \in {"serving", "draining"}, NEW f \in DOMAIN image'[q]
        PROVE  f \in DOMAIN ledger' /\ ledger'[f] = image'[q][f]
    <2>1. CASE q # r
      <3>1. state'[q] = state[q] /\ image'[q] = image[q]
        BY <2>1, OthersStay
      <3> QED
        BY <1>0, <1>1, <1>2, <3>1 DEF ServesOnItsSchema
    <2>2. CASE q = r /\ Finish(r)
      <3>1. /\ state[r] = "check" /\ file[r] \notin DOMAIN image[r] /\ image' = image
            /\ file[r] \in Nat \ {0}
        BY <1>0, <2>2 DEF Finish, More, fleet, BootTypeOK
      <3>2. AppliedBelow(r, file[r])
        BY <1>0, <3>1 DEF LoopIsLocked, Migrating
      <3>3. image[r] \in Seq(Contents)
        BY <1>0, ImageFacts
      <3>4. f \in DOMAIN image[r] /\ DOMAIN image[r] = 1..Len(image[r]) /\ Len(image[r]) \in Nat
        BY <1>2, <2>2, <3>1, <3>3
      <3>5. f < file[r]
        BY <3>1, <3>4
      <3> QED
        BY <1>1, <2>2, <3>1, <3>2, <3>4, <3>5 DEF AppliedBelow
    <2>3. CASE q = r /\ ~Finish(r)
      <3>1. state[r] \in {"serving", "draining"} /\ image'[r] = image[r]
        BY <1>0, <1>2, <2>3 DEF Start, MigrateStep, Lock, Skip, Refuse, BeginTx, Execute, Record,
           Commit, Drain, Drained, BootDie, Goes, Exits, More, fleet, BootTypeOK
      <3> QED
        BY <1>0, <1>1, <1>2, <2>3, <3>1 DEF ServesOnItsSchema
    <2> QED
      BY <2>1, <2>2, <2>3
  <1> QED
    BY <1>2 DEF ServesOnItsSchema

-----------------------------------------------------------------------------
(* The theorems. *)

\* The invariant is inductive under every step of a replica.
LEMMA BootStepKeepsInv ==
  ASSUME BootInv, NEW r \in Replica,
         Start(r) \/ MigrateStep(r) \/ Drain(r) \/ Drained(r) \/ BootDie(r)
  PROVE  BootInv'
  BY TypeStep, LedgerStep, LoopStep, ServesStep, ClashStep DEF BootInv

LEMMA BootInitInv == BootInit => BootInv
  <1> SUFFICES ASSUME BootInit PROVE BootInv
    OBVIOUS
  <1>1. ledger \in Seq(Contents) /\ schema \in Seq([file : Nat, content : Contents])
    BY EmptySeq DEF BootInit
  <1>2. BootTypeOK
    BY <1>1, BootAssumption DEF BootInit, BootTypeOK, States, Exited
  <1> QED
    BY <1>2 DEF BootInit, BootInv, LedgerIsSchema, LoopIsLocked, ServesOnItsSchema, BootsDoNotClash,
       Migrating, InTx

LEMMA BootStutterInv == BootInv /\ UNCHANGED bootVars => BootInv'
  BY DEF BootInv, bootVars, BootTypeOK, LedgerIsSchema, LoopIsLocked, ServesOnItsSchema,
     BootsDoNotClash, AppliedBelow

\* Types, the ledger, the schemas served on and the absence of clashes, for
\* every fleet, every set of images and any number of deaths.
THEOREM BootIsSafe ==
  BootSpec => [](BootTypeOK /\ LedgerIsSchema /\ ServesOnItsSchema /\ BootsDoNotClash)
  <1>1. BootInv /\ [BootNext]_bootVars => BootInv'
    BY BootStepKeepsInv, BootStutterInv DEF BootNext
  <1>2. BootInv => BootTypeOK /\ LedgerIsSchema /\ ServesOnItsSchema /\ BootsDoNotClash
    BY DEF BootInv
  <1> QED
    BY <1>1, <1>2, BootInitInv, PTL DEF BootSpec

-----------------------------------------------------------------------------
(* Backend. *)

\* A request is on a replica that serves or drains.
RunOn == \A s \in Slot : req[s] # None => state[req[s].on] \in {"serving", "draining"}

\* The inductive invariant.
BackendInv == BootInv /\ VaultInv /\ RunOn

-----------------------------------------------------------------------------

\* The schema a request runs on is the one its replica checked before it served.
LEMMA RunOnSchema ==
  ASSUME BackendInv
  PROVE  RequestsRunOnServers
  <1> SUFFICES ASSUME NEW s \in Slot, req[s] # None
               PROVE  /\ state[req[s].on] \in {"serving", "draining"}
                      /\ DOMAIN image[req[s].on] \subseteq DOMAIN schema
    BY DEF RequestsRunOnServers
  <1>1. req[s].on \in Replica
    BY BackendAssumption DEF BackendInv, VaultInv, VaultTypeOK, Request
  <1>2. state[req[s].on] \in {"serving", "draining"}
    BY DEF BackendInv, RunOn
  <1> QED
    BY <1>1, <1>2 DEF BackendInv, BootInv, ServesOnItsSchema, LedgerIsSchema

\* No step of a request moves it to another replica.
LEMMA ServeStaysOn ==
  ASSUME VaultTypeOK, NEW s \in Slot, Serve(s), NEW t \in Slot, req'[t] # None
  PROVE  req[t] # None /\ req'[t].on = req[t].on
  <1>1. req[s] # None /\ req[s] \in Request
    BY DEF Serve, Update, Look, Insert, StatementFails, Cancelled, At, VaultTypeOK
  <1>2. \/ Ends(s)
        \/ \E step \in {"look", "insert"} : GoesTo(s, step)
    BY DEF Serve, Update, Look, Insert, StatementFails, Cancelled, Stored, Conflict, Broken
  <1>3. CASE Ends(s)
    BY <1>3 DEF Ends, VaultTypeOK
  <1>4. ASSUME NEW step \in {"look", "insert"}, GoesTo(s, step)
        PROVE  req[t] # None /\ req'[t].on = req[t].on
    BY <1>1, <1>4 DEF GoesTo, VaultTypeOK, Request
  <1> QED
    BY <1>2, <1>3, <1>4

LEMMA ServingKeepsInv ==
  ASSUME BackendInv, Serving, UNCHANGED bootVars
  PROVE  BackendInv'
  <1>1. BootInv'
    BY BootStutterInv DEF BackendInv
  <1>2. state' = state
    BY DEF bootVars
  <1>3. ASSUME NEW d \in Device, Get(d) PROVE VaultInv' /\ RunOn'
    BY <1>2, <1>3, GetKeepsInv DEF BackendInv, Get, RunOn
  <1>4. ASSUME NEW d \in Device, NEW s \in Slot, NEW r \in Replica, Accepts(r), Put(d, s, r)
        PROVE  VaultInv' /\ RunOn'
    <2>1. VaultInv'
      BY <1>4, BackendAssumption, PutKeepsInv DEF BackendInv
    <2>2. req'[s].on = r /\ \A t \in Slot \ {s} : req'[t] = req[t]
      BY <1>4 DEF Put, BackendInv, VaultInv, VaultTypeOK
    <2>3. RunOn'
      BY <1>2, <1>4, <2>2 DEF Accepts, BackendInv, RunOn
    <2> QED
      BY <2>1, <2>3
  <1>5. ASSUME NEW s \in Slot, Serve(s) PROVE VaultInv' /\ RunOn'
    <2>1. VaultInv'
      BY <1>5, ServeKeepsInv DEF BackendInv
    <2>2. RunOn'
      BY <1>2, <1>5, ServeStaysOn DEF BackendInv, VaultInv, RunOn
    <2> QED
      BY <2>1, <2>2
  <1>6. ASSUME NEW d \in Device, Seal(d) \/ GiveUp(d) PROVE VaultInv' /\ RunOn'
    BY <1>2, <1>6, SealKeepsInv, GiveUpKeepsInv DEF BackendInv, Seal, GiveUp, RunOn
  <1>7. Tick => VaultInv' /\ RunOn'
    BY <1>2, TickKeepsInv DEF BackendInv, Tick, RunOn
  <1> QED
    BY <1>1, <1>3, <1>4, <1>5, <1>6, <1>7 DEF Serving, Call, BackendInv

\* A replica that boots has no request; one that serves goes on to drain.
LEMMA BootingKeepsInv ==
  ASSUME BackendInv, NEW r \in Replica, Start(r) \/ MigrateStep(r) \/ Drain(r),
         UNCHANGED vaultVars
  PROVE  BackendInv'
  <1>1. BootInv'
    BY BootStepKeepsInv DEF BackendInv
  <1>2. VaultInv'
    BY StutterKeepsInv DEF BackendInv
  <1>3. ASSUME NEW q \in Replica, state[q] \in {"serving", "draining"}
        PROVE  state'[q] \in {"serving", "draining"}
    <2>1. CASE q # r
      BY <1>3, <2>1, OthersStay DEF BackendInv
    <2>2. CASE q = r
      <3>1. state[r] \notin Exited \cup Migrating \cup {"locking"}
        BY <1>3, <2>2 DEF Exited, Migrating
      <3>2. ~Start(r) /\ ~MigrateStep(r)
        BY <3>1 DEF Start, MigrateStep, Lock, Skip, Refuse, BeginTx, Execute, Record, Commit,
           Finish, More, Migrating
      <3> QED
        BY <1>3, <2>2, <3>2 DEF Drain, Goes, BackendInv, BootInv, BootTypeOK
    <2> QED
      BY <2>1, <2>2
  <1>4. RunOn'
    <2> SUFFICES ASSUME NEW s \in Slot, req[s] # None
                 PROVE  state'[req[s].on] \in {"serving", "draining"}
      BY DEF RunOn, vaultVars
    <2>1. req[s].on \in Replica
      BY BackendAssumption DEF BackendInv, VaultInv, VaultTypeOK, Request
    <2> QED
      BY <1>3, <2>1 DEF BackendInv, RunOn
  <1> QED
    BY <1>1, <1>2, <1>4 DEF BackendInv

\* A replica takes its requests with it.
LEMMA DownKeepsInv ==
  ASSUME BackendInv, NEW r \in Replica, Down(r)
  PROVE  BackendInv'
  <1>1. BootInv'
    BY BootStepKeepsInv DEF BackendInv, Down
  <1>2. VaultInv'
    BY BackendAssumption, DieKeepsInv DEF BackendInv, Down, VaultInv, VaultTypeOK
  <1>3. RunOn'
    <2> SUFFICES ASSUME NEW s \in Slot, req'[s] # None
                 PROVE  state'[req'[s].on] \in {"serving", "draining"}
      BY DEF RunOn
    <2>1. req[s] # None /\ req'[s] = req[s] /\ req[s].on # r
      BY DEF Down, Die
    <2>2. req[s].on \in Replica
      BY <2>1, BackendAssumption DEF BackendInv, VaultInv, VaultTypeOK, Request
    <2>3. state'[req[s].on] = state[req[s].on]
      BY <2>1, <2>2, OthersStay DEF BackendInv, Down
    <2> QED
      BY <2>1, <2>3 DEF BackendInv, RunOn
  <1> QED
    BY <1>1, <1>2, <1>3 DEF BackendInv

LEMMA BackendStep == BackendInv /\ [Next]_vars => BackendInv'
  <1>1. BackendInv /\ UNCHANGED vars => BackendInv'
    BY BootStutterInv, StutterKeepsInv DEF BackendInv, RunOn, vars, bootVars, vaultVars
  <1> QED
    BY <1>1, ServingKeepsInv, BootingKeepsInv, DownKeepsInv DEF Next

LEMMA BackendStart == Init => BackendInv
  BY BootInitInv, InitHasInv DEF Init, BackendInv, RunOn, VaultInit

\* A replica that can die anywhere, boot any image and drain its requests
\* keeps the vault's promises: the state of Boot and Vault together.
THEOREM BackendIsSafe == Spec => []BackendInv
  BY BackendStart, BackendStep, PTL DEF Spec

\* No statement of a request runs before its replica's schema is checked.
THEOREM RequestsFindTheirTables == Spec => []RequestsRunOnServers
  <1>1. BackendInv => RequestsRunOnServers
    BY RunOnSchema
  <1> QED
    BY <1>1, BackendIsSafe, PTL

\* Across boots, drains and deaths nothing in the vault is overwritten blindly.
THEOREM BackendLosesNoUpdate == Spec => []NoLostUpdate
  <1>1. BackendInv => NoLostUpdate
    BY DEF BackendInv, VaultInv
  <1> QED
    BY <1>1, BackendIsSafe, PTL

\* Across boots, drains and deaths no PUT takes effect twice.
THEOREM BackendStoresOnce == Spec => []StoredOnce
  <1>1. BackendInv => StoredOnce
    BY DEF BackendInv, VaultInv
  <1> QED
    BY <1>1, BackendIsSafe, PTL

\* What a device has learned of the vault was stored in it.
THEOREM BackendTellsWhatIsStored == Spec => []KnownIsStored
  <1>1. BackendInv => KnownIsStored
    BY InvKnowsStored DEF BackendInv
  <1> QED
    BY <1>1, BackendIsSafe, PTL

\* However calls arrive, and whatever boots, drains and dies, a replica lets
\* through at most a full bucket and one call for each period (ratelimit.go).
THEOREM BackendBurstsAreBounded == Spec => []BurstIsBounded
  <1>1. Init => CallsInv
    BY InitHasCalls DEF Init
  <1>2. BackendInv /\ CallsInv /\ [Next]_vars => CallsInv'
    <2> SUFFICES ASSUME BackendInv, CallsInv, [Next]_vars PROVE CallsInv'
      OBVIOUS
    <2>1. VaultInv /\ VaultTypeOK'
      BY BackendStep DEF BackendInv, VaultInv
    <2>2. ASSUME NEW r \in Replica, Down(r) PROVE CallsInv'
      BY <2>1, <2>2, BackendAssumption, DieKeepsCalls DEF Down
    <2>3. CASE Serving
      BY <2>1, <2>3, BackendAssumption, StepKeepsCalls DEF Serving, Call, VaultNext, DeviceStep
    <2>4. CASE UNCHANGED vaultVars
      BY <2>1, <2>4, StepKeepsCalls
    <2> QED
      BY <2>2, <2>3, <2>4 DEF Next, vars
  <1>3. CallsInv => BurstIsBounded
    BY DEF CallsInv
  <1> QED
    BY <1>1, <1>2, <1>3, BackendIsSafe, PTL DEF Spec

\* The ledger of migrations says what was applied, each once and in order.
THEOREM BackendLedgerIsSchema == Spec => []LedgerIsSchema
  <1>1. BackendInv => LedgerIsSchema
    BY DEF BackendInv, BootInv
  <1> QED
    BY <1>1, BackendIsSafe, PTL

\* A replica that serves has every migration of its image applied, unedited.
THEOREM BackendServesOnItsSchema == Spec => []ServesOnItsSchema
  <1>1. BackendInv => ServesOnItsSchema
    BY DEF BackendInv, BootInv
  <1> QED
    BY <1>1, BackendIsSafe, PTL

\* No boot fails because of another boot.
THEOREM BackendBootsDoNotClash == Spec => []BootsDoNotClash
  <1>1. BackendInv => BootsDoNotClash
    BY DEF BackendInv, BootInv
  <1> QED
    BY <1>1, BackendIsSafe, PTL

\* Every variable keeps its type.
THEOREM BackendTypes == Spec => []TypeOK
  <1>1. BackendInv => TypeOK
    BY DEF BackendInv, BootInv, VaultInv, TypeOK
  <1> QED
    BY <1>1, BackendIsSafe, PTL

\* The vault behind replicas that come and go is one versioned cell.
THEOREM BackendImplementsCell == Spec => VaultIsOneCell
  <1>1. BackendInv /\ [Next]_vars =>
          [Promise!Next]_<<Cell, {written[v].blob : v \in DOMAIN written}, known>>
    <2> SUFFICES ASSUME BackendInv, [Next]_vars
                 PROVE  Promise!Next \/ UNCHANGED <<Cell, HeldBlobs, known>>
      BY DEF HeldBlobs
    <2>1. VaultInv
      BY DEF BackendInv
    <2>2. ASSUME NEW r \in Replica, Down(r) PROVE UNCHANGED <<Cell, HeldBlobs, known>>
      BY <2>2 DEF Down, Die, device, Cell, HeldBlobs
    <2>3. CASE Serving
      BY <2>1, <2>3, BackendAssumption, StepIsPromised DEF Serving, Call, VaultNext, DeviceStep
    <2>4. CASE UNCHANGED vaultVars
      BY <2>1, <2>4, StepIsPromised
    <2> QED
      BY <2>2, <2>3, <2>4 DEF Next, vars
  <1>2. Init => Promise!Init
    BY DEF Init, VaultInit, Promise!Init, Promise!Empty, Cell
  <1> QED
    BY <1>1, <1>2, BackendIsSafe, PTL DEF Spec, VaultIsOneCell, Promise!Spec
=============================================================================

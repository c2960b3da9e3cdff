---------------------------- MODULE WorkspaceProofs ----------------------------
(***************************************************************************)
(* Proofs about Workspace, for any number of users, records and calls.     *)
(* The core: as long as no call has overlapped a lock or a change of       *)
(* users, every call in progress works for the user who is signed in, and  *)
(* while the tab is locked no call that could fill a table is in progress. *)
(***************************************************************************)
EXTENDS Workspace, FiniteSetTheorems, TLAPS

\* A passphrase session has one identity, and so has what it seals.
OneIdentity(row) == row # None /\ (row.by = "passphrase" => row.aad = row.key)
KeystoreIsWhole == (~Locked /\ ks.by = "passphrase") => ks.record = ks.dek
SealingIsWhole ==
  \A c \in Call : call[c].at \in {"sealing", "queueing"} => OneIdentity(call[c].row)
UnlocksSomeone == \A c \in Call : call[c].at = "deriving" => call[c].user \in User

\* A call works for u.
WorksFor(c, u) ==
  /\ call[c].at \in {"sealing", "indexing"} => \A r \in call[c].rows : OwnerOf[r] = u
  /\ call[c].at \in {"flushing", "decrypting"} => call[c].user = u

\* Locked, nothing in progress fills a table, and the teardown empties them.
LockedClean ==
  /\ \A c \in Call : call[c].at \in {"idle", "deriving"}
  /\ ks.subkey = None
  /\ "importing" \notin teardown => index = {}
  /\ teardown = {} => working = {}

\* Unlocked, everything is its user's.
UnlockedClean ==
  /\ teardown = {}
  /\ ks.subkey \in {None, ks.dek}
  /\ \A c \in Call : call[c].at = "subkey" => call[c].user = ks.dek
  /\ ks.by = "passphrase" => Plain(ks.dek) /\ \A c \in Call : WorksFor(c, ks.dek)

Clean == ~tainted => IF Locked THEN LockedClean ELSE UnlockedClean

\* The inductive invariant.
WorkspaceInv ==
  /\ TypeOK /\ KeystoreIsWhole /\ SealingIsWhole /\ UnlocksSomeone
  /\ RowsSealedForOneUser /\ Clean

-----------------------------------------------------------------------------
(* Types. *)

LEMMA CallTypes ==
  ASSUME TypeOK, NEW c \in Call
  PROVE  call[c] \in Calls /\ NoCall \in Calls
  BY DEF TypeOK, NoCall, Calls

LEMMA GoType ==
  ASSUME TypeOK, NEW c \in Call, NEW f \in Calls, Go(c, f)
  PROVE  /\ call' \in [Call -> Calls]
         /\ call'[c] = f /\ \A d \in Call \ {c} : call'[d] = call[d]
  BY DEF TypeOK, Go

LEMMA KeystoreFields ==
  ASSUME TypeOK
  PROVE  /\ ks.user \in User \cup {None} /\ ks.record \in User \cup {None}
         /\ ks.dek \in User \cup {None} /\ ks.subkey \in User \cup {None}
         /\ ks.by \in {"passphrase", "recovery"}
  BY DEF TypeOK, Keystore

\* The steps of one call that leave the keystore alone: where the call goes,
\* and what it does to the tables.
Moves(c) ==
  \/ \E u \in User, by \in {"passphrase", "recovery"} : BeginUnlock(c, u, by)
  \/ BeginSubkey(c)
  \/ \E r \in Record : BeginSave(c, r)
  \/ PutWorking(c) \/ Enqueue(c)
  \/ BeginLoad(c) \/ ReadEnvelopes(c) \/ EndLoad(c)
  \/ \E r \in Record : OpenEnvelope(c, r)
  \/ BeginSync(c) \/ SetIndex(c)

LEMMA MoveTypes ==
  ASSUME TypeOK, NEW c \in Call, Moves(c), SealingIsWhole
  PROVE  /\ \E f \in Calls : Go(c, f)
         /\ working' \subseteq Record /\ envelopes' \subseteq Record /\ outbox' \subseteq Sealed
         /\ index' \subseteq Record /\ UNCHANGED <<ks, teardown, tainted>>
  <1>0. /\ call[c] \in Calls /\ NoCall \in Calls /\ working \subseteq Record
        /\ envelopes \subseteq Record /\ outbox \subseteq Sealed /\ index \subseteq Record
    BY CallTypes DEF TypeOK
  <1>1. ASSUME NEW u \in User, NEW by \in {"passphrase", "recovery"}, BeginUnlock(c, u, by)
        PROVE  (\E f \in Calls : Go(c, f)) /\ UNCHANGED <<tables, index, ks, teardown, tainted>>
    <2>1. [NoCall EXCEPT !.at = "deriving", !.user = u, !.by = by] \in Calls
      BY DEF NoCall, Calls
    <2> QED
      BY <1>1, <2>1 DEF BeginUnlock
  <1>2. CASE BeginSubkey(c) \/ BeginLoad(c)
    <2>1. /\ [NoCall EXCEPT !.at = "subkey", !.user = ks.dek] \in Calls
          /\ [NoCall EXCEPT !.at = "flushing", !.user = ks.dek] \in Calls
      BY KeystoreFields DEF NoCall, Calls
    <2> QED
      BY <1>0, <1>2, <2>1 DEF BeginSubkey, BeginLoad, tables
  <1>3. ASSUME NEW r \in Record, BeginSave(c, r)
        PROVE  (\E f \in Calls : Go(c, f)) /\ UNCHANGED <<tables, index, ks, teardown, tainted>>
    <2>1. [aad |-> ks.record, key |-> ks.dek, by |-> ks.by] \in Sealed
      BY <1>3, KeystoreFields DEF BeginSave, Locked, Sealed
    <2>2. [NoCall EXCEPT !.at = "sealing", !.rows = {r},
             !.row = [aad |-> ks.record, key |-> ks.dek, by |-> ks.by]] \in Calls
      BY <2>1 DEF NoCall, Calls
    <2> QED
      BY <1>3, <2>2 DEF BeginSave
  <1>4. CASE PutWorking(c)
    <2>1. [call[c] EXCEPT !.at = "queueing", !.rows = {}] \in Calls /\ call[c].rows \subseteq Record
      BY <1>0 DEF Calls
    <2> QED
      BY <1>0, <1>4, <2>1 DEF PutWorking
  <1>5. CASE Enqueue(c)
    <2>1. call[c].row \in Sealed
      BY <1>0, <1>5 DEF Enqueue, SealingIsWhole, OneIdentity, Calls
    <2> QED
      BY <1>0, <1>5, <2>1 DEF Enqueue, RowToQueue
  <1>6. CASE ReadEnvelopes(c)
    <2>1. [call[c] EXCEPT !.at = "decrypting", !.rows = envelopes] \in Calls
      BY <1>0 DEF Calls
    <2> QED
      BY <1>0, <1>6, <2>1 DEF ReadEnvelopes, tables
  <1>7. ASSUME NEW r \in Record, OpenEnvelope(c, r)
        PROVE  /\ \E f \in Calls : Go(c, f)
               /\ working' \subseteq Record
               /\ UNCHANGED <<ks, teardown, envelopes, outbox, index, tainted>>
    <2>1. [call[c] EXCEPT !.rows = @ \ {r}] \in Calls
      BY <1>0 DEF Calls
    <2> QED
      BY <1>0, <1>7, <2>1 DEF OpenEnvelope
  <1>8. CASE EndLoad(c)
    BY <1>0, <1>8 DEF EndLoad, tables
  <1>9. CASE BeginSync(c)
    <2>1. [NoCall EXCEPT !.at = "indexing", !.rows = working] \in Calls
      BY <1>0 DEF NoCall, Calls
    <2> QED
      BY <1>0, <1>9, <2>1 DEF BeginSync, tables
  <1>10. CASE SetIndex(c)
    BY <1>0, <1>10 DEF SetIndex, tables, Calls
  <1> QED
    BY <1>0, <1>1, <1>2, <1>3, <1>4, <1>5, <1>6, <1>7, <1>8, <1>9, <1>10 DEF Moves, tables

LEMMA MoveType ==
  ASSUME TypeOK, NEW c \in Call, Moves(c), SealingIsWhole
  PROVE  TypeOK'
  <1>1. PICK f \in Calls : Go(c, f)
    BY MoveTypes
  <1> QED
    BY <1>1, MoveTypes, GoType DEF TypeOK

\* Which step brings a call to where it seals, queues or derives a subkey.
LEMMA MoveWhere ==
  ASSUME TypeOK, NEW c \in Call, Moves(c)
  PROVE  /\ call'[c].at = "sealing" => \E r \in Record : BeginSave(c, r)
         /\ call'[c].at = "queueing" => PutWorking(c)
         /\ call'[c].at = "subkey" => BeginSubkey(c)
         /\ call'[c].at = "deriving" => call'[c].user \in User
  <1>0. call[c] \in Calls
    BY CallTypes
  <1>2. ASSUME NEW u \in User, NEW by \in {"passphrase", "recovery"}, BeginUnlock(c, u, by)
        PROVE  call'[c].at = "deriving" /\ call'[c].user \in User
    BY <1>2 DEF BeginUnlock, Go, TypeOK, NoCall
  <1>3. BeginLoad(c) => call'[c].at = "flushing"
    BY DEF BeginLoad, Go, TypeOK, NoCall
  <1>4. Enqueue(c) \/ EndLoad(c) \/ SetIndex(c) => call'[c].at = "idle"
    BY DEF Enqueue, EndLoad, SetIndex, Go, TypeOK, NoCall
  <1>5. ReadEnvelopes(c) => call'[c].at = "decrypting"
    BY <1>0 DEF ReadEnvelopes, Go, TypeOK, Calls
  <1>6. ASSUME NEW r \in Record, OpenEnvelope(c, r) PROVE call'[c].at = "decrypting"
    BY <1>0, <1>6 DEF OpenEnvelope, Go, TypeOK, Calls
  <1>7. BeginSync(c) => call'[c].at \in {"idle", "indexing"}
    BY DEF BeginSync, Go, TypeOK, NoCall
  <1>8. ASSUME NEW r \in Record, BeginSave(c, r) PROVE call'[c].at = "sealing"
    BY <1>8 DEF BeginSave, Go, TypeOK, NoCall
  <1>9. PutWorking(c) => call'[c].at = "queueing"
    BY <1>0 DEF PutWorking, Go, TypeOK, Calls
  <1>10. BeginSubkey(c) => call'[c].at = "subkey"
    BY DEF BeginSubkey, Go, TypeOK, NoCall
  <1> QED
    BY <1>2, <1>3, <1>4, <1>5, <1>6, <1>7, <1>8, <1>9, <1>10 DEF Moves

-----------------------------------------------------------------------------
(* The calls. *)

\* What a call seals, and what it queues, has the identity of one session.
LEMMA MoveSeals ==
  ASSUME WorkspaceInv, NEW c \in Call, Moves(c)
  PROVE  SealingIsWhole' /\ RowsSealedForOneUser' /\ UnlocksSomeone'
  <1>0. TypeOK /\ SealingIsWhole /\ call[c] \in Calls
    BY CallTypes DEF WorkspaceInv
  <1>1. PICK f \in Calls : Go(c, f)
    BY <1>0, MoveTypes
  <1>2. call'[c] = f /\ \A d \in Call \ {c} : call'[d] = call[d]
    BY <1>0, <1>1, GoType
  <1>3. f.at \in {"sealing", "queueing"} => OneIdentity(f.row)
    <2>1. ASSUME NEW r \in Record, BeginSave(c, r) PROVE OneIdentity(f.row)
      <3>1. call'[c] = [NoCall EXCEPT !.at = "sealing", !.rows = {r},
                          !.row = [aad |-> ks.record, key |-> ks.dek, by |-> ks.by]]
        BY <1>0, <2>1 DEF BeginSave, Go, TypeOK
      <3>2. f.row = [aad |-> ks.record, key |-> ks.dek, by |-> ks.by]
        BY <1>2, <3>1 DEF NoCall
      <3>3. f.row \in Sealed
        BY <2>1, <3>2, KeystoreFields DEF BeginSave, Locked, Sealed, WorkspaceInv
      <3>4. f.row # None
        BY <3>3, WorkspaceAssumption
      <3> QED
        BY <2>1, <3>2, <3>4 DEF BeginSave, OneIdentity, WorkspaceInv, KeystoreIsWhole
    <2>2. CASE PutWorking(c)
      <3>1. call'[c] = [call[c] EXCEPT !.at = "queueing", !.rows = {}]
        BY <1>0, <2>2 DEF PutWorking, Go, TypeOK
      <3>2. f.row = call[c].row
        BY <1>0, <1>2, <3>1 DEF Calls
      <3> QED
        BY <2>2, <3>2 DEF PutWorking, WorkspaceInv, SealingIsWhole
    <2>3. ASSUME ~PutWorking(c), \A r \in Record : ~BeginSave(c, r)
          PROVE  f.at \notin {"sealing", "queueing"}
      BY <1>0, <1>2, <2>3, MoveWhere
    <2> QED
      BY <2>1, <2>2, <2>3
  <1>4. SealingIsWhole'
    BY <1>0, <1>2, <1>3 DEF SealingIsWhole, OneIdentity
  <1>5. RowsSealedForOneUser'
    <2>1. CASE Enqueue(c)
      <3>1. OneIdentity(call[c].row)
        BY <2>1 DEF Enqueue, WorkspaceInv, SealingIsWhole
      <3> QED
        BY <2>1, <3>1 DEF Enqueue, RowToQueue, OneIdentity, WorkspaceInv, RowsSealedForOneUser
    <2>2. CASE ~Enqueue(c)
      <3>1. outbox' = outbox
        BY <2>2 DEF Moves, BeginUnlock, BeginSubkey, BeginSave, PutWorking, BeginLoad,
           ReadEnvelopes, EndLoad, OpenEnvelope, BeginSync, SetIndex, tables
      <3> QED
        BY <3>1 DEF WorkspaceInv, RowsSealedForOneUser
    <2> QED
      BY <2>1, <2>2
  <1>6. UnlocksSomeone'
    BY <1>0, <1>2, MoveWhere DEF UnlocksSomeone, WorkspaceInv
  <1> QED
    BY <1>4, <1>5, <1>6

\* Locked, a call only begins to unlock, or is over.
LEMMA MoveLocked ==
  ASSUME WorkspaceInv, NEW c \in Call, Moves(c), ~tainted, Locked
  PROVE  LockedClean'
  <1>1. LockedClean /\ TypeOK /\ UNCHANGED <<ks, teardown, tainted>>
    BY MoveTypes DEF WorkspaceInv, Clean
  <1>2. \E u \in User, by \in {"passphrase", "recovery"} : BeginUnlock(c, u, by)
    BY <1>1 DEF LockedClean, Moves, BeginSubkey, BeginSave, PutWorking, Enqueue, BeginLoad,
       ReadEnvelopes, EndLoad, OpenEnvelope, BeginSync, SetIndex
  <1>3. UNCHANGED <<working, index>> /\ call'[c].at = "deriving"
        /\ \A d \in Call \ {c} : call'[d] = call[d]
    BY <1>1, <1>2 DEF BeginUnlock, tables, Go, TypeOK, NoCall
  <1> QED
    BY <1>1, <1>3 DEF LockedClean

\* Unlocked, a call works with what is its user's.
LEMMA MoveUnlocked ==
  ASSUME WorkspaceInv, NEW c \in Call, Moves(c), ~tainted, ~Locked
  PROVE  UnlockedClean'
  <1>1. UnlockedClean /\ TypeOK /\ SealingIsWhole /\ call[c] \in Calls /\ KeystoreIsWhole
    BY CallTypes DEF WorkspaceInv, Clean
  <1>2. UNCHANGED <<ks, teardown, tainted>>
    BY <1>1, MoveTypes
  <1>3. PICK f \in Calls : Go(c, f)
    BY <1>1, MoveTypes
  <1>4. call'[c] = f /\ \A d \in Call \ {c} : call'[d] = call[d]
    BY <1>1, <1>3, GoType
  <1>5. f.at = "subkey" => f.user = ks.dek
    <2>1. CASE BeginSubkey(c)
      BY <1>1, <1>4, <2>1 DEF BeginSubkey, Go, TypeOK, NoCall
    <2>2. CASE ~BeginSubkey(c)
      BY <1>1, <1>4, <2>2, MoveWhere
    <2> QED
      BY <2>1, <2>2
  <1>6. ASSUME ks.by = "passphrase"
        PROVE  Plain(ks.dek)' /\ WorksFor(c, ks.dek)'
    <2>0. Plain(ks.dek) /\ WorksFor(c, ks.dek) /\ ks.record = ks.dek
      BY <1>1, <1>6 DEF UnlockedClean, KeystoreIsWhole
    <2>1. ASSUME UNCHANGED <<working, index>>,
                 f.at \in {"sealing", "indexing"} => \A r \in f.rows : OwnerOf[r] = ks.dek,
                 f.at \in {"flushing", "decrypting"} => f.user = ks.dek
          PROVE  Plain(ks.dek)' /\ WorksFor(c, ks.dek)'
      BY <1>2, <1>4, <2>0, <2>1 DEF Plain, WorksFor
    <2>2. ASSUME NEW u \in User, NEW by \in {"passphrase", "recovery"}, BeginUnlock(c, u, by)
          PROVE  Plain(ks.dek)' /\ WorksFor(c, ks.dek)'
      <3>1. f.at = "deriving" /\ UNCHANGED <<working, index>>
        BY <1>1, <1>4, <2>2 DEF BeginUnlock, Go, TypeOK, NoCall, tables
      <3> QED
        BY <2>1, <3>1
    <2>3. CASE BeginSubkey(c) \/ BeginLoad(c)
      <3>1. f.at \in {"subkey", "flushing"} /\ f.user = ks.dek /\ UNCHANGED <<working, index>>
        BY <1>1, <1>4, <2>3 DEF BeginSubkey, BeginLoad, Go, TypeOK, NoCall, tables
      <3> QED
        BY <2>1, <3>1
    <2>4. ASSUME NEW r \in Record, BeginSave(c, r)
          PROVE  Plain(ks.dek)' /\ WorksFor(c, ks.dek)'
      <3>1. f.at = "sealing" /\ f.rows = {r} /\ UNCHANGED <<working, index>>
        BY <1>1, <1>4, <2>4 DEF BeginSave, Go, TypeOK, NoCall, tables
      <3>2. OwnerOf[r] = ks.dek
        BY <2>0, <2>4 DEF BeginSave, Plain
      <3> QED
        BY <2>1, <3>1, <3>2
    <2>5. CASE PutWorking(c)
      <3>1. f.at = "queueing" /\ index' = index /\ working' = working \cup call[c].rows
        BY <1>1, <1>4, <2>5 DEF PutWorking, Go, TypeOK, Calls
      <3>2. \A r \in call[c].rows : OwnerOf[r] = ks.dek
        BY <2>0, <2>5 DEF PutWorking, WorksFor
      <3> QED
        BY <1>2, <1>4, <2>0, <3>1, <3>2 DEF Plain, WorksFor
    <2>6. CASE ReadEnvelopes(c)
      <3>1. f.at = "decrypting" /\ f.user = call[c].user /\ UNCHANGED <<working, index>>
        BY <1>1, <1>4, <2>6 DEF ReadEnvelopes, Go, TypeOK, Calls, tables
      <3>2. call[c].user = ks.dek
        BY <2>0, <2>6 DEF ReadEnvelopes, WorksFor
      <3> QED
        BY <2>1, <3>1, <3>2
    <2>7. ASSUME NEW r \in Record, OpenEnvelope(c, r)
          PROVE  Plain(ks.dek)' /\ WorksFor(c, ks.dek)'
      <3>1. /\ f.at = "decrypting" /\ f.user = call[c].user
            /\ index' = index /\ working' = working \cup {r}
        BY <1>1, <1>4, <2>7 DEF OpenEnvelope, Go, TypeOK, Calls
      <3>2. call[c].user = ks.dek /\ OwnerOf[r] = ks.dek
        BY <2>0, <2>7 DEF OpenEnvelope, WorksFor
      <3> QED
        BY <1>2, <1>4, <2>0, <3>1, <3>2 DEF Plain, WorksFor
    <2>8. CASE Enqueue(c) \/ EndLoad(c)
      <3>1. f.at = "idle" /\ UNCHANGED <<working, index>>
        BY <1>1, <1>4, <2>8 DEF Enqueue, EndLoad, Go, TypeOK, NoCall, tables
      <3> QED
        BY <2>1, <3>1
    <2>9. CASE BeginSync(c)
      <3>1. UNCHANGED <<working, index>> /\ f.at \in {"idle", "indexing"}
            /\ (f.at = "indexing" => f.rows = working)
        BY <1>1, <1>4, <2>9 DEF BeginSync, Go, TypeOK, NoCall, tables
      <3> QED
        BY <2>0, <2>1, <3>1 DEF Plain
    <2>10. CASE SetIndex(c)
      <3>1. f.at = "idle" /\ working' = working /\ index' = call[c].rows
        BY <1>1, <1>4, <2>10 DEF SetIndex, Go, TypeOK, NoCall, tables
      <3>2. \A r \in call[c].rows : OwnerOf[r] = ks.dek
        BY <2>0, <2>10 DEF SetIndex, WorksFor
      <3> QED
        BY <1>2, <1>4, <2>0, <3>1, <3>2 DEF Plain, WorksFor
    <2> QED
      BY <2>2, <2>3, <2>4, <2>5, <2>6, <2>7, <2>8, <2>9, <2>10 DEF Moves
  <1>7. ASSUME NEW d \in Call, d # c, ks.by = "passphrase" PROVE WorksFor(d, ks.dek)'
    BY <1>1, <1>2, <1>4, <1>7 DEF UnlockedClean, WorksFor
  <1> QED
    BY <1>1, <1>2, <1>4, <1>5, <1>6, <1>7 DEF UnlockedClean

LEMMA MoveKeepsInv ==
  ASSUME WorkspaceInv, NEW c \in Call, Moves(c)
  PROVE  WorkspaceInv'
  <1>1. TypeOK' /\ UNCHANGED <<ks, tainted>>
    BY MoveType, MoveTypes DEF WorkspaceInv
  <1>2. KeystoreIsWhole'
    BY <1>1 DEF WorkspaceInv, KeystoreIsWhole, Locked
  <1>3. Clean'
    BY <1>1, MoveLocked, MoveUnlocked DEF Clean, Locked
  <1> QED
    BY <1>1, <1>2, <1>3, MoveSeals DEF WorkspaceInv

-----------------------------------------------------------------------------
(* The keystore and the teardown. *)

LEMMA UnlockKeepsInv ==
  ASSUME WorkspaceInv, NEW c \in Call, FinishUnlock(c)
  PROVE  WorkspaceInv'
  <1> DEFINE u == call[c].user
             by == call[c].by
  <1>0. TypeOK /\ call[c] \in Calls /\ SealingIsWhole
    BY CallTypes DEF WorkspaceInv
  <1>1. /\ call'[c] = [NoCall EXCEPT !.at = "unlocked"]
        /\ \A d \in Call \ {c} : call'[d] = call[d]
        /\ [NoCall EXCEPT !.at = "unlocked"] \in Calls /\ call' \in [Call -> Calls]
    <2>1. [NoCall EXCEPT !.at = "unlocked"] \in Calls
      BY DEF NoCall, Calls
    <2> QED
      BY <1>0, <2>1, GoType DEF FinishUnlock
  <1>2. /\ ks' = Unlocked(ks, u, by) /\ UNCHANGED <<teardown, index, working, envelopes, outbox>>
        /\ tainted' = (tainted \/ ~Locked \/ teardown # {} \/ \E d \in Call \ {c} : ~Free(d))
    BY DEF FinishUnlock, tables
  <1>3. u \in User \cup {None} /\ by \in {"passphrase", "recovery"}
    BY <1>0 DEF Calls
  <1>4. /\ ks'.dek = u /\ ks'.subkey = None /\ ks'.by = by
        /\ by = "passphrase" => ks'.record = u
        /\ ks' \in Keystore
    BY <1>0, <1>2, <1>3 DEF Unlocked, TypeOK, Keystore
  <1>5. TypeOK'
    BY <1>0, <1>1, <1>2, <1>4 DEF TypeOK
  <1>6. KeystoreIsWhole'
    BY <1>4 DEF KeystoreIsWhole
  <1>7. SealingIsWhole' /\ RowsSealedForOneUser' /\ UnlocksSomeone'
    BY <1>0, <1>1, <1>2 DEF SealingIsWhole, OneIdentity, NoCall, WorkspaceInv, RowsSealedForOneUser,
       UnlocksSomeone
  <1>8. Clean'
    <2> SUFFICES ASSUME ~tainted' PROVE IF Locked' THEN LockedClean' ELSE UnlockedClean'
      BY DEF Clean
    <2>1. ~tainted /\ Locked /\ teardown = {} /\ \A d \in Call \ {c} : call[d].at = "idle"
      BY <1>2 DEF Free
    <2>2. working = {} /\ index = {}
      BY <2>1 DEF WorkspaceInv, Clean, LockedClean
    <2>3. /\ call'[c].at = "unlocked" /\ \A d \in Call \ {c} : call'[d].at = "idle"
      BY <1>1, <2>1 DEF NoCall
    <2>4. u # None
      BY WorkspaceAssumption DEF FinishUnlock, WorkspaceInv, UnlocksSomeone
    <2> QED
      BY <1>2, <1>4, <2>1, <2>2, <2>3, <2>4 DEF UnlockedClean, Plain, WorksFor, Locked
  <1> QED
    BY <1>5, <1>6, <1>7, <1>8 DEF WorkspaceInv

\* What a step keeps of the invariant when it leaves the calls and the outbox,
\* and no session changes hands.
LEMMA SessionStays ==
  ASSUME WorkspaceInv, UNCHANGED call, outbox' \subseteq outbox,
         \/ UNCHANGED <<ks>>
         \/ ks'.dek = None
         \/ ks'.dek = ks.dek /\ ks'.by = ks.by /\ ks'.record = ks.record
  PROVE  KeystoreIsWhole' /\ SealingIsWhole' /\ RowsSealedForOneUser' /\ UnlocksSomeone'
  BY DEF WorkspaceInv, KeystoreIsWhole, SealingIsWhole, RowsSealedForOneUser, UnlocksSomeone,
     OneIdentity, Locked

LEMMA CacheSubkeyKeepsInv ==
  ASSUME WorkspaceInv, NEW c \in Call, CacheSubkey(c)
  PROVE  WorkspaceInv'
  <1>0. TypeOK /\ call[c] \in Calls /\ NoCall \in Calls
    BY CallTypes DEF WorkspaceInv
  <1>1. /\ call'[c] = NoCall /\ \A d \in Call \ {c} : call'[d] = call[d]
        /\ call' \in [Call -> Calls]
    BY <1>0, GoType DEF CacheSubkey
  <1>2. /\ ks' \in Keystore /\ ks'.dek = ks.dek /\ ks'.by = ks.by /\ ks'.record = ks.record
        /\ ks'.subkey = call[c].user
        /\ UNCHANGED <<teardown, index, tainted, working, envelopes, outbox>>
    BY <1>0 DEF CacheSubkey, tables, TypeOK, Keystore, Calls
  <1>3. TypeOK'
    BY <1>0, <1>1, <1>2 DEF TypeOK
  <1>4. KeystoreIsWhole' /\ SealingIsWhole' /\ RowsSealedForOneUser' /\ UnlocksSomeone'
    BY <1>1, <1>2 DEF WorkspaceInv, KeystoreIsWhole, SealingIsWhole, RowsSealedForOneUser,
       UnlocksSomeone, OneIdentity, Locked, NoCall
  <1>5. Clean'
    <2> SUFFICES ASSUME ~tainted PROVE IF Locked THEN LockedClean' ELSE UnlockedClean'
      BY <1>2 DEF Clean, Locked
    <2>1. ~Locked /\ UnlockedClean
      BY DEF WorkspaceInv, Clean, LockedClean, CacheSubkey
    <2>2. call[c].user = ks.dek
      BY <2>1 DEF UnlockedClean, CacheSubkey
    <2>3. ks.by = "passphrase" => Plain(ks.dek)' /\ \A d \in Call : WorksFor(d, ks.dek)'
      BY <1>1, <1>2, <2>1 DEF UnlockedClean, Plain, WorksFor, NoCall
    <2> QED
      BY <1>1, <1>2, <2>1, <2>2, <2>3 DEF UnlockedClean, NoCall
  <1> QED
    BY <1>3, <1>4, <1>5 DEF WorkspaceInv

LEMMA LockKeepsInv ==
  ASSUME WorkspaceInv, Lock
  PROVE  WorkspaceInv'
  <1>1. /\ ks' \in Keystore /\ ks'.dek = None /\ ks'.subkey = None
        /\ teardown' = teardown \cup {"importing"} /\ tainted' = (tainted \/ ~Quiet)
        /\ UNCHANGED <<call, index, working, envelopes, outbox>>
    BY DEF Lock, LockedKeystore, tables, WorkspaceInv, TypeOK, Keystore
  <1>2. TypeOK'
    BY <1>1 DEF TypeOK, WorkspaceInv
  <1>3. KeystoreIsWhole' /\ SealingIsWhole' /\ RowsSealedForOneUser' /\ UnlocksSomeone'
    BY <1>1, SessionStays
  <1>4. Clean'
    BY <1>1 DEF Clean, Locked, LockedClean, Quiet, Free
  <1> QED
    BY <1>2, <1>3, <1>4 DEF WorkspaceInv

LEMMA TeardownKeepsInv ==
  ASSUME WorkspaceInv, EndSync \/ ClearWorking
  PROVE  WorkspaceInv'
  <1>1. UNCHANGED <<ks, call, envelopes, outbox>>
    BY DEF EndSync, ClearWorking, tables
  <1>2. KeystoreIsWhole' /\ SealingIsWhole' /\ RowsSealedForOneUser' /\ UnlocksSomeone'
    BY <1>1, SessionStays
  <1>3. TypeOK'
    BY <1>1 DEF EndSync, ClearWorking, tables, IndexAfterEnd, WorkspaceInv, TypeOK
  <1>4. CASE EndSync
    <2>1. /\ index' = {} /\ UNCHANGED <<tainted, working>> /\ "importing" \in teardown
          /\ teardown' = (teardown \ {"importing"}) \cup {"clearing"}
      BY <1>4 DEF EndSync, IndexAfterEnd, tables
    <2>2. Clean'
      BY <1>1, <2>1 DEF WorkspaceInv, Clean, Locked, LockedClean, UnlockedClean
    <2> QED
      BY <1>2, <1>3, <2>2 DEF WorkspaceInv
  <1>5. CASE ClearWorking
    <2>1. /\ working' = {} /\ index' = index /\ "clearing" \in teardown
          /\ teardown' = teardown \ {"clearing"}
          /\ tainted' = (tainted /\ ~(/\ Quiet /\ Locked /\ teardown = {"clearing"} /\ index = {}
                                      /\ ks.subkey = None))
      BY <1>5 DEF ClearWorking
    <2>2. ASSUME ~tainted'
          PROVE  \/ ~tainted
                 \/ /\ Quiet /\ Locked /\ teardown = {"clearing"} /\ index = {}
                    /\ ks.subkey = None
      BY <2>1, <2>2
    <2>3. ASSUME Quiet, Locked, index = {}, ks.subkey = None
          PROVE  Locked' /\ LockedClean'
      BY <1>1, <2>1, <2>3 DEF Locked, LockedClean, Quiet, Free
    <2>4. ASSUME ~tainted PROVE Locked /\ LockedClean
      BY <2>1, <2>4 DEF WorkspaceInv, Clean, UnlockedClean
    <2>5. ASSUME ~tainted PROVE Locked' /\ LockedClean'
      BY <1>1, <2>1, <2>4, <2>5 DEF Locked, LockedClean
    <2>6. Clean'
      BY <2>2, <2>3, <2>5 DEF Clean
    <2> QED
      BY <1>2, <1>3, <2>6 DEF WorkspaceInv
  <1> QED
    BY <1>4, <1>5

\* What flushes do, and a step that changes nothing.
LEMMA FlushKeepsInv ==
  ASSUME WorkspaceInv, (\E r \in Record : Merge(r)) \/ Push \/ UNCHANGED vars
  PROVE  WorkspaceInv'
  <1>1. /\ UNCHANGED <<ks, call, teardown, index, working, tainted>>
        /\ envelopes' \subseteq Record /\ outbox' \subseteq outbox
    BY DEF Merge, Push, vars, memory, WorkspaceInv, TypeOK
  <1>2. KeystoreIsWhole' /\ SealingIsWhole' /\ RowsSealedForOneUser' /\ UnlocksSomeone'
    BY <1>1, SessionStays
  <1>3. TypeOK'
    BY <1>1 DEF WorkspaceInv, TypeOK
  <1>4. Clean'
    BY <1>1 DEF WorkspaceInv, Clean, Locked, LockedClean, UnlockedClean, Plain, WorksFor
  <1> QED
    BY <1>2, <1>3, <1>4 DEF WorkspaceInv

LEMMA ReloadKeepsInv ==
  ASSUME WorkspaceInv, Reload
  PROVE  WorkspaceInv'
  <1>1. /\ ks'.dek = None /\ ks'.subkey = None /\ teardown' = {} /\ index' = {}
        /\ tainted' = (tainted \/ working # {})
        /\ UNCHANGED <<working, envelopes, outbox>>
        /\ \A c \in Call : call'[c] = NoCall
    BY DEF Reload, tables
  <1>2. TypeOK'
    BY CallTypes DEF Reload, WorkspaceInv, TypeOK, tables, Keystore, NoCall, Calls
  <1>3. KeystoreIsWhole' /\ SealingIsWhole' /\ RowsSealedForOneUser' /\ UnlocksSomeone'
    BY <1>1 DEF KeystoreIsWhole, SealingIsWhole, RowsSealedForOneUser, UnlocksSomeone, Locked,
       NoCall, WorkspaceInv
  <1>4. Clean'
    <2>1. ~tainted' => working' = {}
      BY <1>1
    <2>2. Locked' /\ \A c \in Call : call'[c].at = "idle"
      BY <1>1 DEF Locked, NoCall
    <2> QED
      BY <1>1, <2>1, <2>2 DEF Clean, LockedClean
  <1> QED
    BY <1>2, <1>3, <1>4 DEF WorkspaceInv

LEMMA WorkspaceStep == WorkspaceInv /\ [Next]_vars => WorkspaceInv'
  BY MoveKeepsInv, UnlockKeepsInv, CacheSubkeyKeepsInv, LockKeepsInv, TeardownKeepsInv,
     FlushKeepsInv, ReloadKeepsInv DEF Next, CallStep, Moves

LEMMA WorkspaceStart == Init => WorkspaceInv
  <1> SUFFICES ASSUME Init PROVE WorkspaceInv
    OBVIOUS
  <1>1. TypeOK
    BY DEF Init, TypeOK, Keystore, NoCall, Calls
  <1> QED
    BY <1>1 DEF Init, WorkspaceInv, KeystoreIsWhole, SealingIsWhole, RowsSealedForOneUser,
       UnlocksSomeone, Locked, NoCall, Clean, LockedClean

-----------------------------------------------------------------------------
(* The results. *)

\* The inductive invariant.
THEOREM WorkspaceIsSafe == Spec => []WorkspaceInv
  BY WorkspaceStart, WorkspaceStep, PTL DEF Spec

\* Every variable keeps its type.
THEOREM WorkspaceTypes == Spec => []TypeOK
  <1>1. WorkspaceInv => TypeOK
    BY DEF WorkspaceInv
  <1> QED
    BY <1>1, WorkspaceIsSafe, PTL

\* A row is sealed with the key of the user its AAD names (saveRecord).
THEOREM RowsHaveOneUser == Spec => []RowsSealedForOneUser
  <1>1. WorkspaceInv => RowsSealedForOneUser
    BY DEF WorkspaceInv
  <1> QED
    BY <1>1, WorkspaceIsSafe, PTL

\* A lock that no call overlaps leaves nothing in the clear, and an unlocked tab
\* shows only its user's rows (lock, endSync, getSubkey, beginSync).
THEOREM WorkspaceIsClean == Spec => []CleanUnlessOverlapped
  <1>1. WorkspaceInv => CleanUnlessOverlapped
    BY DEF WorkspaceInv, Clean, LockedClean, UnlockedClean, CleanUnlessOverlapped
  <1> QED
    BY <1>1, WorkspaceIsSafe, PTL
=============================================================================

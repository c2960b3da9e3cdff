---------------------------- MODULE KeyringProofs ----------------------------
(***************************************************************************)
(* Proofs about Keyring, for any users, devices, passphrases and phrases.  *)
(* The core: every copy of a row's fields, stored or in a flow, wraps the  *)
(* user's own key twice, so that no order of stores mixes the keys of two  *)
(* secrets in one wrap.                                                    *)
(***************************************************************************)
EXTENDS Keyring, TLAPS

\* Both wraps hold the user's key, bound to the user and to their kind.
WrapsKeyOf(row, u) ==
  /\ row.wrapped.user = u /\ row.wrapped.kind = "wrapped-dek" /\ row.wrapped.dek = u
  /\ row.recovery.user = u /\ row.recovery.kind = "wrapped-dek-recovery" /\ row.recovery.dek = u

UnderPass(row, p) == row.wrapped.kek = DeriveKek(p, row.salt, row.params)

RowOK(u) ==
  /\ WrapsKeyOf(rows[u], u)
  /\ UnderPass(rows[u], secrets[u].pass)
  /\ rows[u].recovery.kek \in {DeriveRecoveryKek(secrets[u].phrase), rows[u].wrapped.kek}

FlowOK(f) ==
  /\ f.at # "idle" => WrapsKeyOf(f.row, f.user)
  /\ f.at = "changed" => UnderPass(f.row, f.pass) /\ f.row.recovery.kek = f.row.wrapped.kek
  /\ f.at = "rotated" => f.row.recovery.kek = DeriveRecoveryKek(f.phrase)

\* The inductive invariant.
KeyringInv ==
  /\ TypeOK
  /\ \A u \in User : RowOK(u)
  /\ \A d \in Device : FlowOK(flow[d])

-----------------------------------------------------------------------------
(* Keys and wraps have their types. *)

LEMMA WrapTypes ==
  ASSUME NEW dek \in User, NEW kek \in Kek, NEW u \in User
  PROVE  WrapDek(dek, kek, u) \in Wrap /\ WrapWithRecovery(dek, kek, u) \in Wrap
  BY DEF WrapDek, WrapWithRecovery, Wrap, Kind

LEMMA KekTypes ==
  ASSUME NEW p \in Pass, NEW w \in Phrase, NEW salt \in 0..MaxChanges, NEW params \in Params
  PROVE  DeriveKek(p, salt, params) \in Kek /\ DeriveRecoveryKek(w) \in Kek
  BY DEF DeriveKek, DeriveRecoveryKek, Kek

\* What a change returns, from fields that wrap the user's key.
LEMMA ChangedFacts ==
  ASSUME NEW row \in Fields, NEW u \in User, NEW p \in Pass, NEW salt \in 0..MaxChanges,
         WrapsKeyOf(row, u)
  PROVE  /\ ChangedFields(row, u, p, salt) \in Fields
         /\ WrapsKeyOf(ChangedFields(row, u, p, salt), u)
         /\ UnderPass(ChangedFields(row, u, p, salt), p)
         /\ ChangedFields(row, u, p, salt).recovery.kek = ChangedFields(row, u, p, salt).wrapped.kek
  <1>2. DeriveKek(p, salt, "default") \in Kek
    BY DEF DeriveKek, Kek, Params
  <1>3. row.wrapped.dek \in User
    BY DEF WrapsKeyOf
  <1>4. /\ WrapDek(row.wrapped.dek, DeriveKek(p, salt, "default"), u) \in Wrap
        /\ WrapWithRecovery(row.wrapped.dek, DeriveKek(p, salt, "default"), u) \in Wrap
    BY <1>2, <1>3, WrapTypes
  <1> QED
    BY <1>4 DEF ChangedFields, Fields, Params, WrapsKeyOf, UnderPass, WrapDek, WrapWithRecovery

\* What a rotation returns.
LEMMA RotatedFacts ==
  ASSUME NEW row \in Fields, NEW u \in User, NEW w \in Phrase, WrapsKeyOf(row, u)
  PROVE  /\ RotatedFields(row, u, w) \in Fields
         /\ WrapsKeyOf(RotatedFields(row, u, w), u)
         /\ RotatedFields(row, u, w).recovery.kek = DeriveRecoveryKek(w)
  <1>1. DeriveRecoveryKek(w) \in Kek
    BY DEF DeriveRecoveryKek, Kek
  <1>2. WrapWithRecovery(row.recovery.dek, DeriveRecoveryKek(w), u) \in Wrap
    BY <1>1, WrapTypes DEF WrapsKeyOf
  <1> QED
    BY <1>2 DEF RotatedFields, Fields, WrapsKeyOf, WrapWithRecovery

-----------------------------------------------------------------------------
(* Every step keeps the invariant. *)

\* A step that moves one flow and leaves the rows alone.
LEMMA FlowStep ==
  ASSUME KeyringInv, NEW d \in Device, NEW f \in Flow, FlowOK(f),
         flow' = [flow EXCEPT ![d] = f], UNCHANGED <<rows, secrets>>,
         salts' \in [User -> 0..MaxChanges],
         held' \in [Device -> [user: User, dek: User] \cup {None}]
  PROVE  KeyringInv'
  <1>1. TypeOK'
    BY DEF KeyringInv, TypeOK
  <1>2. \A u \in User : RowOK(u)'
    BY DEF KeyringInv, RowOK, WrapsKeyOf, UnderPass
  <1>3. \A e \in Device : flow'[e] = IF e = d THEN f ELSE flow[e]
    BY DEF KeyringInv, TypeOK
  <1>4. \A e \in Device : FlowOK(flow[e])'
    BY <1>3 DEF KeyringInv, FlowOK, WrapsKeyOf, UnderPass
  <1> QED
    BY <1>1, <1>2, <1>4 DEF KeyringInv

LEMMA IdleFlow == NoFlow \in Flow /\ FlowOK(NoFlow)
  BY DEF NoFlow, Flow, FlowOK

LEMMA FetchKeepsInv ==
  ASSUME KeyringInv, NEW d \in Device, NEW u \in User, Fetch(d, u)
  PROVE  KeyringInv'
  <1> DEFINE f == [at |-> "read", user |-> u, row |-> rows[u]]
  <1>1. f \in Flow
    BY DEF KeyringInv, TypeOK, Flow
  <1>2. FlowOK(f)
    BY DEF KeyringInv, RowOK, FlowOK
  <1> QED
    BY <1>1, <1>2, FlowStep DEF Fetch, KeyringInv, TypeOK

\* What a flow that is not idle carries.
LEMMA FlowFields ==
  ASSUME KeyringInv, NEW d \in Device, flow[d].at # "idle"
  PROVE  flow[d].user \in User /\ flow[d].row \in Fields /\ WrapsKeyOf(flow[d].row, flow[d].user)
  BY DEF KeyringInv, TypeOK, Flow, FlowOK

LEMMA ChangeKeepsInv ==
  ASSUME KeyringInv, NEW d \in Device, NEW old \in Pass, NEW new \in Pass,
         ChangePassphrase(d, old, new)
  PROVE  KeyringInv'
  <1> DEFINE u == flow[d].user
             row == ChangedFields(flow[d].row, u, new, salts'[u])
             f == [at |-> "changed", user |-> u, pass |-> new, row |-> row]
  <1>1. u \in User /\ flow[d].row \in Fields /\ WrapsKeyOf(flow[d].row, u)
    BY FlowFields DEF ChangePassphrase
  <1>2. salts[u] \in 0..MaxChanges /\ salts[u] < MaxChanges
    BY <1>1 DEF ChangePassphrase, KeyringInv, TypeOK
  <1>3. salts' = [salts EXCEPT ![u] = @ + 1]
    BY DEF ChangePassphrase
  <1>4. salts[u] + 1 \in 0..MaxChanges
    BY <1>2, KeyringAssumption
  <1>5. salts' \in [User -> 0..MaxChanges] /\ salts'[u] \in 0..MaxChanges
    BY <1>1, <1>3, <1>4 DEF KeyringInv, TypeOK
  <1>6. /\ row \in Fields /\ WrapsKeyOf(row, u) /\ UnderPass(row, new)
        /\ row.recovery.kek = row.wrapped.kek
    BY <1>1, <1>5, ChangedFacts
  <1>7. f \in Flow /\ FlowOK(f)
    BY <1>1, <1>6 DEF Flow, FlowOK
  <1>8. flow' = [flow EXCEPT ![d] = f] /\ UNCHANGED <<rows, held, secrets>>
    BY DEF ChangePassphrase
  <1> QED
    BY <1>5, <1>7, <1>8, FlowStep DEF KeyringInv, TypeOK

LEMMA RotateKeepsInv ==
  ASSUME KeyringInv, NEW d \in Device, NEW old \in Text, NEW new \in Text,
         RotateRecovery(d, old, new)
  PROVE  KeyringInv'
  <1> DEFINE u == flow[d].user
             row == RotatedFields(flow[d].row, u, new)
             f == [at |-> "rotated", user |-> u, phrase |-> new, row |-> row]
  <1>1. u \in User /\ flow[d].row \in Fields /\ WrapsKeyOf(flow[d].row, u)
    BY FlowFields DEF RotateRecovery
  <1>2. new \in Phrase
    BY DEF RotateRecovery
  <1>3. row \in Fields /\ WrapsKeyOf(row, u) /\ row.recovery.kek = DeriveRecoveryKek(new)
    BY <1>1, <1>2, RotatedFacts
  <1>4. f \in Flow /\ FlowOK(f)
    BY <1>1, <1>2, <1>3 DEF Flow, FlowOK
  <1>5. flow' = [flow EXCEPT ![d] = f] /\ UNCHANGED <<rows, salts, held, secrets>>
    BY DEF RotateRecovery
  <1> QED
    BY <1>4, <1>5, FlowStep DEF KeyringInv, TypeOK

LEMMA RecoverKeepsInv ==
  ASSUME KeyringInv, NEW d \in Device, NEW w \in Text, RecoverWithMnemonic(d, w)
  PROVE  KeyringInv'
  <1>1. flow[d].user \in User /\ flow[d].row.recovery.dek \in User
    BY FlowFields DEF RecoverWithMnemonic, WrapsKeyOf
  <1>2. held' \in [Device -> [user: User, dek: User] \cup {None}]
    BY <1>1 DEF RecoverWithMnemonic, KeyringInv, TypeOK
  <1> QED
    BY <1>2, IdleFlow, FlowStep DEF RecoverWithMnemonic, KeyringInv, TypeOK

LEMMA GiveUpKeepsInv ==
  ASSUME KeyringInv, NEW d \in Device, GiveUp(d)
  PROVE  KeyringInv'
  BY IdleFlow, FlowStep DEF GiveUp, KeyringInv, TypeOK

\* A step that stores good fields for one user and ends the flow.
LEMMA StoreStep ==
  ASSUME KeyringInv, NEW d \in Device, NEW u \in User, NEW row \in Fields,
         NEW p \in Pass, NEW w \in Phrase,
         rows' = [rows EXCEPT ![u] = row],
         secrets' = [secrets EXCEPT ![u] = [pass |-> p, phrase |-> w]],
         flow' = [flow EXCEPT ![d] = NoFlow], UNCHANGED <<salts, held>>,
         WrapsKeyOf(row, u), UnderPass(row, p),
         row.recovery.kek \in {DeriveRecoveryKek(w), row.wrapped.kek}
  PROVE  KeyringInv'
  <1>1. TypeOK'
    BY IdleFlow DEF KeyringInv, TypeOK
  <1>2. \A v \in User : /\ rows'[v] = IF v = u THEN row ELSE rows[v]
                        /\ secrets'[v] = IF v = u THEN [pass |-> p, phrase |-> w] ELSE secrets[v]
    BY DEF KeyringInv, TypeOK
  <1>3. ASSUME NEW v \in User PROVE RowOK(v)'
    <2>1. CASE v = u
      BY <1>2, <2>1 DEF RowOK, WrapsKeyOf, UnderPass
    <2>2. CASE v # u
      BY <1>2, <2>2 DEF KeyringInv, RowOK, WrapsKeyOf, UnderPass
    <2> QED
      BY <2>1, <2>2
  <1>4. \A e \in Device : flow'[e] = IF e = d THEN NoFlow ELSE flow[e]
    BY DEF KeyringInv, TypeOK
  <1>5. \A e \in Device : FlowOK(flow[e])'
    BY <1>4, IdleFlow DEF KeyringInv, FlowOK, WrapsKeyOf, UnderPass
  <1> QED
    BY <1>1, <1>3, <1>5 DEF KeyringInv

LEMMA StoreChangeKeepsInv ==
  ASSUME KeyringInv, NEW d \in Device, StoreChange(d)
  PROVE  KeyringInv'
  <1> DEFINE f == flow[d]
             u == f.user
             w == secrets[u].phrase
  <1>1. u \in User /\ f.row \in Fields /\ WrapsKeyOf(f.row, u) /\ f.pass \in Pass
    BY FlowFields DEF StoreChange, KeyringInv, TypeOK, Flow
  <1>2. UnderPass(f.row, f.pass) /\ f.row.recovery.kek = f.row.wrapped.kek
    BY DEF StoreChange, KeyringInv, FlowOK
  <1>3. secrets[u] \in [pass: Pass, phrase: Phrase] /\ w \in Phrase
    BY <1>1 DEF KeyringInv, TypeOK
  <1>4. secrets' = [secrets EXCEPT ![u] = [pass |-> f.pass, phrase |-> w]]
    <2>1. secrets' = [secrets EXCEPT ![u] = [secrets[u] EXCEPT !.pass = f.pass]]
      BY DEF StoreChange
    <2>2. [secrets[u] EXCEPT !.pass = f.pass] = [pass |-> f.pass, phrase |-> w]
      BY <1>3
    <2> QED
      BY <2>1, <2>2
  <1>5. /\ rows' = [rows EXCEPT ![u] = f.row]
        /\ flow' = [flow EXCEPT ![d] = NoFlow]
        /\ UNCHANGED <<salts, held>>
    BY DEF StoreChange
  <1> HIDE DEF f, u, w
  <1> QED
    BY <1>1, <1>2, <1>3, <1>4, <1>5, StoreStep

LEMMA StoreRotationKeepsInv ==
  ASSUME KeyringInv, NEW d \in Device, StoreRotation(d)
  PROVE  KeyringInv'
  <1> DEFINE f == flow[d]
             u == f.user
             p == secrets[u].pass
             row == RowRotated(rows[u], f)
  <1>1. u \in User /\ f.row \in Fields /\ WrapsKeyOf(f.row, u) /\ f.phrase \in Phrase
    BY FlowFields DEF StoreRotation, KeyringInv, TypeOK, Flow
  <1>2. f.row.recovery.kek = DeriveRecoveryKek(f.phrase)
    BY DEF StoreRotation, KeyringInv, FlowOK
  <1>3. secrets[u] \in [pass: Pass, phrase: Phrase] /\ p \in Pass
    BY <1>1 DEF KeyringInv, TypeOK
  <1>4. secrets' = [secrets EXCEPT ![u] = [pass |-> p, phrase |-> f.phrase]]
    <2>1. secrets' = [secrets EXCEPT ![u] = [secrets[u] EXCEPT !.phrase = f.phrase]]
      BY DEF StoreRotation
    <2>2. [secrets[u] EXCEPT !.phrase = f.phrase] = [pass |-> p, phrase |-> f.phrase]
      BY <1>3
    <2> QED
      BY <2>1, <2>2
  <1>5. rows[u] \in Fields /\ WrapsKeyOf(rows[u], u) /\ UnderPass(rows[u], p)
    BY <1>1 DEF KeyringInv, TypeOK, RowOK
  <1>6. row \in Fields /\ WrapsKeyOf(row, u) /\ UnderPass(row, p)
        /\ row.recovery.kek = DeriveRecoveryKek(f.phrase)
    BY <1>1, <1>2, <1>5 DEF RowRotated, Fields, WrapsKeyOf, UnderPass
  <1>7. /\ rows' = [rows EXCEPT ![u] = row]
        /\ flow' = [flow EXCEPT ![d] = NoFlow]
        /\ UNCHANGED <<salts, held>>
    BY DEF StoreRotation
  <1> HIDE DEF f, u, p, row
  <1> QED
    BY <1>1, <1>3, <1>4, <1>6, <1>7, StoreStep

LEMMA KeyringStep == KeyringInv /\ [Next]_vars => KeyringInv'
  <1> SUFFICES ASSUME KeyringInv, [Next]_vars PROVE KeyringInv'
    OBVIOUS
  <1>1. CASE UNCHANGED vars
    BY <1>1 DEF vars, KeyringInv, TypeOK, RowOK, FlowOK, WrapsKeyOf, UnderPass
  <1>2. ASSUME NEW d \in Device, NEW u \in User, Fetch(d, u) PROVE KeyringInv'
    BY <1>2, FetchKeepsInv
  <1>3. ASSUME NEW d \in Device, NEW old \in Pass, NEW new \in Pass, ChangePassphrase(d, old, new)
        PROVE  KeyringInv'
    BY <1>3, ChangeKeepsInv
  <1>4. ASSUME NEW d \in Device, NEW old \in Text, NEW new \in Text, RotateRecovery(d, old, new)
        PROVE  KeyringInv'
    BY <1>4, RotateKeepsInv
  <1>5. ASSUME NEW d \in Device, NEW w \in Text, RecoverWithMnemonic(d, w) PROVE KeyringInv'
    BY <1>5, RecoverKeepsInv
  <1>6. ASSUME NEW d \in Device, GiveUp(d) \/ StoreChange(d) \/ StoreRotation(d)
        PROVE  KeyringInv'
    BY <1>6, GiveUpKeepsInv, StoreChangeKeepsInv, StoreRotationKeepsInv
  <1> QED
    BY <1>1, <1>2, <1>3, <1>4, <1>5, <1>6 DEF Next

LEMMA KeyringStart == Init => KeyringInv
  <1> SUFFICES ASSUME Init PROVE KeyringInv
    OBVIOUS
  <1>1. secrets \in [User -> [pass: Pass, phrase: Phrase]]
    BY DEF Init
  <1>2. PICK params \in [User -> Params] :
          rows = [u \in User |-> Registered(u, secrets[u].pass, secrets[u].phrase, params[u])]
    BY DEF Init
  <1>3. ASSUME NEW u \in User PROVE rows[u] \in Fields /\ RowOK(u)
    <2> DEFINE p == secrets[u].pass
               w == secrets[u].phrase
    <2>1. p \in Pass /\ w \in Phrase /\ params[u] \in Params /\ 0 \in 0..MaxChanges
      BY <1>1, KeyringAssumption
    <2>2. DeriveKek(p, 0, params[u]) \in Kek /\ DeriveRecoveryKek(w) \in Kek
      BY <2>1, KekTypes
    <2>3. /\ WrapDek(u, DeriveKek(p, 0, params[u]), u) \in Wrap
          /\ WrapWithRecovery(u, DeriveRecoveryKek(w), u) \in Wrap
      BY <2>2, WrapTypes
    <2>4. rows[u] = Registered(u, p, w, params[u])
      BY <1>2
    <2>5. rows[u] \in Fields
      BY <2>1, <2>3, <2>4 DEF Registered, Fields
    <2>6. RowOK(u)
      BY <2>4 DEF Registered, RowOK, WrapsKeyOf, UnderPass, WrapDek, WrapWithRecovery
    <2> QED
      BY <2>5, <2>6
  <1>4. rows \in [User -> Fields]
    BY <1>2, <1>3
  <1>5. TypeOK
    BY <1>1, <1>4, IdleFlow, KeyringAssumption DEF Init, TypeOK
  <1>6. \A d \in Device : FlowOK(flow[d])
    BY IdleFlow DEF Init
  <1> QED
    BY <1>3, <1>5, <1>6 DEF KeyringInv

-----------------------------------------------------------------------------

\* Every copy of the key fields wraps the right key under the right secrets,
\* whichever devices change, rotate and recover side by side.
THEOREM KeyringIsSafe == Spec => []KeyringInv
  BY KeyringStart, KeyringStep, PTL DEF Spec

\* Every variable keeps its type.
THEOREM KeyringTypes == Spec => []TypeOK
  <1>1. KeyringInv => TypeOK
    BY DEF KeyringInv
  <1> QED
    BY <1>1, KeyringIsSafe, PTL

\* The passphrase stored last always opens the passphrase wrap, to the key
\* made at registration.
THEOREM PassphrasesOpen == Spec => []PassphraseOpensWrap
  <1>1. KeyringInv => PassphraseOpensWrap
    BY DEF KeyringInv, RowOK, WrapsKeyOf, UnderPass, PassphraseOpensWrap, PassOpens, Opens
  <1> QED
    BY <1>1, KeyringIsSafe, PTL

\* The recovery wrap always has an opener, to the same key.
THEOREM RecoveryWrapsOpen == Spec => []RecoveryWrapHasAnOpener
  <1>1. KeyringInv => RecoveryWrapHasAnOpener
    BY DEF KeyringInv, RowOK, WrapsKeyOf, RecoveryWrapHasAnOpener, Opens
  <1> QED
    BY <1>1, KeyringIsSafe, PTL
=============================================================================

------------------------------ MODULE AuthProofs ------------------------------
(***************************************************************************)
(* Proofs about Auth, for any number of tabs, accounts and tries.  The     *)
(* core: a call that waits to finish has either its own entry parked, with *)
(* the deadline its start gave it, or a reason to be refused; and what a   *)
(* page or a keystore holds of an account is one row of users, which never *)
(* changes.                                                                *)
(***************************************************************************)
EXTENDS Auth, TLAPS

\* The entry parked for a call's email is its own.
OwnParked(t) == pending[flow[t].email] # None /\ pending[flow[t].email].by = TryOf(t)

\* What a tab unlocks, or has unlocked, is of one account.
MaterialsOK(t) ==
  /\ \A m \in unlocking[t] : OneAccount(m)
  /\ keystore[t] # None => OneAccount(keystore[t])

\* What holds of one tab.
CallOK(t) ==
  /\ flow[t].at # "idle" => flow[t].email \in Email /\ flow[t].pass \in Pass /\ flow[t].n # 0
  /\ flow[t].at \in {"login", "finish"} => store[t].error = "none"
  /\ flow[t].at = "finish" =>
       /\ accounts[flow[t].email] # None
       /\ OwnParked(t) => pending[flow[t].email].deadline = flow[t].since + PendingTTL
       /\ flow[t].rival \/ flow[t].since + PendingTTL < now \/ OwnParked(t)
  /\ flow[t].at = "me" => flow[t].material # None /\ OneAccount(flow[t].material)
  /\ flow[t].at = "phrase" =>
       accounts[flow[t].email] = [pass |-> flow[t].pass, by |-> TryOf(t)]
  /\ MaterialsOK(t)

\* The inductive invariant.
AuthInv == TypeOK /\ SessionsFollowTheirStart /\ \A t \in Tab : CallOK(t)

-----------------------------------------------------------------------------
(* Types. *)

LEMMA NoneIsNothing ==
  /\ None \notin Account /\ None \notin Parked /\ None \notin Session
  /\ None \notin Material /\ None \notin Email /\ None \notin Pass
  BY AuthAssumption

LEMMA NoFlowType == NoFlow \in Flow /\ SignedOut \in Store
  BY AuthAssumption DEF NoFlow, Flow, SignedOut, Store

LEMMA TabTypes ==
  ASSUME TypeOK, NEW t \in Tab
  PROVE  /\ flow[t] \in Flow /\ store[t] \in Store /\ tries[t] \in 0..MaxTries
         /\ unlocking[t] \in SUBSET Material /\ keystore[t] \in Material \cup {None}
  BY DEF TypeOK

LEMMA TryType ==
  ASSUME TypeOK, NEW t \in Tab, flow[t].n # 0
  PROVE  TryOf(t) \in Try
  BY TabTypes, AuthAssumption DEF TryOf, Try, Flow

LEMMA RivalledType ==
  ASSUME TypeOK, NEW t \in Tab, NEW e \in Email
  PROVE  Rivalled(t, e) \in [Tab -> Flow]
  <1>1. \A u \in Tab : [flow[u] EXCEPT !.rival = TRUE] \in Flow /\ flow[u] \in Flow
    BY TabTypes DEF Flow
  <1> QED
    BY <1>1 DEF Rivalled

LEMMA GoType ==
  ASSUME TypeOK, NEW t \in Tab, NEW f \in Flow, NEW e \in Email,
         Go(t, f) \/ GoAgainst(t, e, f)
  PROVE  flow' \in [Tab -> Flow]
  <1>1. CASE Go(t, f)
    BY <1>1 DEF Go, TypeOK
  <1>2. CASE GoAgainst(t, e, f)
    <2>1. Rivalled(t, e) \in [Tab -> Flow]
      BY RivalledType
    <2> QED
      BY <1>2, <2>1 DEF GoAgainst
  <1> QED
    BY <1>1, <1>2

LEMMA StoreType ==
  ASSUME TypeOK, NEW t \in Tab, NEW why \in {"none", "credentials", "taken", "other"},
         store' = [store EXCEPT ![t].error = why]
  PROVE  store' \in [Tab -> Store]
  <1>1. [store[t] EXCEPT !.error = why] \in Store
    BY TabTypes DEF Store
  <1> QED
    BY <1>1 DEF TypeOK

LEMMA SessionType ==
  ASSUME TypeOK, NEW e \in Email, NEW since \in Nat
  PROVE  SessionFor(e, since) \in Session
  BY AuthAssumption DEF TypeOK, SessionFor, Session

LEMMA MaterialType ==
  ASSUME TypeOK, NEW e \in Email, accounts[e] # None
  PROVE  MaterialOf(e) \in Material
  BY DEF TypeOK, MaterialOf, Material, Account

LEMMA PopType ==
  ASSUME TypeOK, NEW e \in Email, Pop(e)
  PROVE  pending' \in [Email -> Parked \cup {None}]
  BY DEF TypeOK, Pop

LEMMA BeginType ==
  ASSUME TypeOK, NEW t \in Tab, NEW step \in {"login", "enroll"}, NEW e \in Email,
         NEW p \in Pass, Begin(t, step, e, p)
  PROVE  TypeOK'
  <1>1. tries[t] + 1 \in 0..MaxTries
    BY TabTypes, AuthAssumption DEF Begin
  <1>2. [NoFlow EXCEPT !.at = step, !.email = e, !.pass = p, !.n = tries[t] + 1] \in Flow
    BY <1>1, AuthAssumption DEF NoFlow, Flow
  <1>3. flow' \in [Tab -> Flow]
    BY <1>2 DEF Begin, Go, TypeOK
  <1>4. store' \in [Tab -> Store]
    BY StoreType DEF Begin
  <1> QED
    BY <1>1, <1>3, <1>4 DEF Begin, TypeOK, server, page

LEMMA FailType ==
  ASSUME TypeOK, NEW t \in Tab, NEW e \in Email, NEW why \in {"credentials", "taken", "other"},
         Fail(t, why) \/ FailAgainst(t, e, why)
  PROVE  flow' \in [Tab -> Flow] /\ store' \in [Tab -> Store]
  BY NoFlowType, GoType, StoreType DEF Fail, FailAgainst

LEMMA TabType ==
  ASSUME TypeOK, NEW t \in Tab, CallOK(t), TabStep(t)
  PROVE  TypeOK'
  <1> DEFINE f == flow[t]
  <1>0. f \in Flow /\ store[t] \in Store /\ (f.at # "idle" => f.email \in Email /\ f.pass \in Pass /\ f.n # 0)
    BY TabTypes DEF CallOK
  <1>1. CASE SubmitLogin(t) \/ SubmitRegister(t) \/ ConfirmPhrase(t)
    BY <1>0, <1>1, BeginType DEF SubmitLogin, SubmitRegister, ConfirmPhrase
  <1>2. CASE DeclinePhrase(t)
    BY <1>2, NoFlowType DEF DeclinePhrase, Go, TypeOK, server, page
  <1>3. CASE Enroll(t)
    <2>1. [pass |-> f.pass, by |-> TryOf(t)] \in Account /\ f.email \in Email
      BY <1>0, <1>3, TryType DEF Enroll, Account
    <2>2. accounts' \in [Email -> Account \cup {None}]
      BY <1>3, <2>1 DEF Enroll, TypeOK
    <2>3. CASE cookie' = SessionFor(f.email, now) /\ Go(t, [f EXCEPT !.at = "phrase"])
               /\ store' = [store EXCEPT ![t] = [status |-> "locked", user |-> f.email, error |-> "none"]]
      <3>1. cookie' \in Session
        BY <2>1, <2>3, SessionType DEF TypeOK
      <3>2. [f EXCEPT !.at = "phrase"] \in Flow
        BY <1>0 DEF Flow
      <3>3. [status |-> "locked", user |-> f.email, error |-> "none"] \in Store
        BY <2>1 DEF Store
      <3>4. flow' \in [Tab -> Flow] /\ store' \in [Tab -> Store]
        BY <2>3, <3>2, <3>3 DEF Go, TypeOK
      <3> QED
        BY <1>3, <2>2, <3>1, <3>4 DEF Enroll, TypeOK, page
    <2>4. CASE Fail(t, "other") /\ UNCHANGED cookie
      BY <1>3, <2>1, <2>2, <2>4, FailType DEF Enroll, TypeOK, page
    <2> QED
      BY <1>3, <2>3, <2>4 DEF Enroll
  <1>4. CASE EmailTaken(t) \/ StartUnknown(t) \/ RequestFails(t)
    <2>1. UNCHANGED <<now, key, accounts, pending, unlocking, keystore, cookie, tries>>
      BY <1>4 DEF EmailTaken, StartUnknown, RequestFails, server, page
    <2>2. f.email \in Email
      BY <1>0, <1>4 DEF EmailTaken, StartUnknown, RequestFails
    <2>3. flow' \in [Tab -> Flow] /\ store' \in [Tab -> Store]
      BY <1>4, <2>2, FailType DEF EmailTaken, StartUnknown, RequestFails
    <2> QED
      BY <2>1, <2>3 DEF TypeOK
  <1>5. CASE StartKnown(t)
    <2>1. f.email \in Email /\ TryOf(t) \in Try
      BY <1>0, <1>5, TryType DEF StartKnown
    <2>2. [by |-> TryOf(t), deadline |-> now + PendingTTL] \in Parked
      BY <2>1, AuthAssumption DEF Parked, TypeOK
    <2>3. pending' \in [Email -> Parked \cup {None}]
      BY <1>5, <2>1, <2>2 DEF StartKnown, TypeOK
    <2>4. [f EXCEPT !.at = "finish", !.since = now] \in Flow
      BY <1>0 DEF Flow, TypeOK
    <2>5. flow' \in [Tab -> Flow] /\ store' \in [Tab -> Store]
      <3>1. CASE GoAgainst(t, f.email, [f EXCEPT !.at = "finish", !.since = now]) /\ UNCHANGED store
        BY <2>1, <2>4, <3>1, GoType DEF TypeOK
      <3>2. CASE FailAgainst(t, f.email, "credentials")
        BY <2>1, <3>2, FailType
      <3> QED
        BY <1>5, <3>1, <3>2 DEF StartKnown
    <2> QED
      BY <1>5, <2>3, <2>5 DEF StartKnown, TypeOK, page
  <1>6. CASE LoginFinish(t)
    <2>1. f.email \in Email /\ accounts[f.email] # None /\ f.since \in Nat
      BY <1>0, <1>6 DEF LoginFinish, CallOK, Flow
    <2>2. pending' \in [Email -> Parked \cup {None}]
      BY <1>6, <2>1, PopType DEF LoginFinish
    <2>3. CASE /\ cookie' = SessionFor(f.email, f.since)
               /\ GoAgainst(t, f.email,
                    [f EXCEPT !.at = "me", !.material = MaterialOf(f.email), !.rival = FALSE])
               /\ UNCHANGED store
      <3>1. cookie' \in Session
        BY <2>1, <2>3, SessionType
      <3>2. [f EXCEPT !.at = "me", !.material = MaterialOf(f.email), !.rival = FALSE] \in Flow
        BY <1>0, <2>1, MaterialType DEF Flow
      <3>3. flow' \in [Tab -> Flow]
        BY <2>1, <2>3, <3>2, GoType
      <3> QED
        BY <1>6, <2>2, <2>3, <3>1, <3>3 DEF LoginFinish, TypeOK, page
    <2>4. CASE FailAgainst(t, f.email, "other") /\ UNCHANGED cookie
      BY <1>6, <2>1, <2>2, <2>4, FailType DEF LoginFinish, TypeOK, page
    <2> QED
      BY <1>6, <2>3, <2>4 DEF LoginFinish
  <1>7. CASE LoginRefused(t)
    <2>1. f.email \in Email
      BY <1>0, <1>7 DEF LoginRefused
    <2> QED
      BY <1>7, <2>1, PopType, FailType DEF LoginRefused, TypeOK, page
  <1>8. CASE IdentityEcho(t)
    <2>1. f.material \in Material /\ f.email \in Email
      BY <1>0, <1>8 DEF IdentityEcho, CallOK, Flow
    <2>2. CASE Verified(cookie)
      <3>1. cookie.user \in Email
        BY <2>2 DEF Verified, TypeOK, Session
      <3>2. [store[t] EXCEPT !.status = "locked", !.user = cookie.user] \in Store
        BY <1>0, <3>1 DEF Store
      <3>3. store' \in [Tab -> Store]
        BY <1>8, <2>2, <3>2 DEF IdentityEcho, TypeOK
      <3>4. unlocking' \in [Tab -> SUBSET Material]
        BY <1>8, <2>1, <2>2 DEF IdentityEcho, TypeOK
      <3>5. flow' \in [Tab -> Flow]
        BY <1>8, <2>1, <2>2, NoFlowType, GoType DEF IdentityEcho
      <3> QED
        BY <1>8, <3>3, <3>4, <3>5 DEF IdentityEcho, TypeOK, server
    <2>3. CASE ~Verified(cookie)
      BY <1>8, <2>1, <2>3, FailType DEF IdentityEcho, TypeOK, server
    <2> QED
      BY <2>2, <2>3
  <1>9. ASSUME NEW m \in unlocking[t], Unlock(t, m) PROVE TypeOK'
    <2>1. m \in Material /\ [store[t] EXCEPT !.status = "unlocked"] \in Store
      BY <1>0, TabTypes DEF Store
    <2>2. store' \in [Tab -> Store] /\ keystore' \in [Tab -> Material \cup {None}]
      BY <1>9, <2>1 DEF Unlock, TypeOK
    <2>3. unlocking' \in [Tab -> SUBSET Material]
      BY <1>9 DEF Unlock, TypeOK
    <2> QED
      BY <1>9, <2>2, <2>3 DEF Unlock, TypeOK, server
  <1>10. CASE Refresh(t)
    <2>1. Verified(cookie) => cookie.user \in Email
      BY DEF Verified, TypeOK, Session
    <2>2. store'[t] \in Store
      BY <1>0, <1>10, <2>1 DEF Refresh, Store, TypeOK
    <2>3. store' \in [Tab -> Store]
      BY <1>10, <2>2 DEF Refresh, TypeOK
    <2> QED
      BY <1>10, <2>3 DEF Refresh, TypeOK, server, page
  <1>11. CASE Logout(t)
    <2>1. [store[t] EXCEPT !.status = "anonymous", !.user = None] \in Store
      BY <1>0 DEF Store
    <2>2. store' \in [Tab -> Store] /\ cookie' \in Session \cup {None}
      BY <1>11, <2>1 DEF Logout, TypeOK
    <2> QED
      BY <1>11, <2>2 DEF Logout, TypeOK, server, page
  <1>12. CASE Reload(t)
    BY <1>12, NoFlowType DEF Reload, TypeOK, server
  <1> QED
    BY <1>1, <1>2, <1>3, <1>4, <1>5, <1>6, <1>7, <1>8, <1>9, <1>10, <1>11, <1>12 DEF TabStep

-----------------------------------------------------------------------------
(* A tab and the steps of the others. *)

\* An account, once there, stays.
AccountsStay == \A e \in Email : accounts[e] # None => accounts'[e] = accounts[e]

\* The call goes on as it was, but for the history of rivals.
SameCall(u) ==
  /\ flow'[u].at = flow[u].at /\ flow'[u].email = flow[u].email /\ flow'[u].pass = flow[u].pass
  /\ flow'[u].n = flow[u].n /\ flow'[u].since = flow[u].since
  /\ flow'[u].material = flow[u].material
  /\ flow[u].at = "finish" /\ flow[u].rival => flow'[u].rival

LEMMA TabKeepsAccounts ==
  ASSUME TypeOK, NEW t \in Tab, CallOK(t), TabStep(t) \/ Restart \/ Reap \/ Tick
  PROVE  AccountsStay
  <1>1. CASE Enroll(t)
    BY <1>1 DEF Enroll, EmailFree, TypeOK, AccountsStay
  <1>2. CASE ~Enroll(t)
    <2>1. accounts' = accounts
      BY <1>2 DEF TabStep, SubmitLogin, SubmitRegister, ConfirmPhrase, Begin, DeclinePhrase,
         EmailTaken, StartUnknown, StartKnown, LoginFinish, LoginRefused, IdentityEcho, Unlock,
         RequestFails, Refresh, Logout, Reload, Restart, Reap, Tick, server
    <2> QED
      BY <2>1 DEF AccountsStay
  <1> QED
    BY <1>1, <1>2

LEMMA OneAccountStays ==
  ASSUME TypeOK, AccountsStay, NEW m \in Material, OneAccount(m)
  PROVE  OneAccount(m)'
  BY DEF OneAccount, AccountsStay, Material

\* The entry of a call that waits to finish is left alone, or the call is told
\* of a rival and the entry is not its own any more.
EntryGoesOn(u) ==
  \/ pending'[flow[u].email] = pending[flow[u].email]
  \/ flow'[u].rival /\ pending'[flow[u].email] = None
  \/ flow'[u].rival /\ pending'[flow[u].email] # None /\ pending'[flow[u].email].by # TryOf(u)

\* What another tab does to a call: nothing, or it marks the rival.
LEMMA OthersGoOn ==
  ASSUME TypeOK, NEW t \in Tab, CallOK(t), TabStep(t), NEW u \in Tab, u # t, CallOK(u)
  PROVE  /\ SameCall(u)
         /\ store'[u] = store[u] /\ unlocking'[u] = unlocking[u] /\ keystore'[u] = keystore[u]
         /\ now' = now
         /\ flow[u].at = "finish" => EntryGoesOn(u)
  <1> DEFINE f == flow[t]
  <1>0. flow[u] \in Flow /\ flow[t] \in Flow
    BY TabTypes
  <1>1. /\ store'[u] = store[u] /\ unlocking'[u] = unlocking[u] /\ keystore'[u] = keystore[u]
        /\ now' = now
    BY DEF TypeOK, TabStep, SubmitLogin, SubmitRegister, ConfirmPhrase, Begin, DeclinePhrase, Enroll,
       EmailTaken, StartUnknown, StartKnown, LoginFinish, LoginRefused, IdentityEcho, Unlock,
       RequestFails, Refresh, Logout, Reload, server, page, Fail, FailAgainst
  <1>2. CASE StartKnown(t) \/ LoginFinish(t) \/ LoginRefused(t)
    <2>1. f.email \in Email
      BY <1>2 DEF StartKnown, LoginFinish, LoginRefused, CallOK
    <2>2. \E g : GoAgainst(t, f.email, g)
      BY <1>2 DEF StartKnown, LoginFinish, LoginRefused, FailAgainst
    <2>3. flow'[u] = Rivalled(t, f.email)[u]
      BY <2>2 DEF GoAgainst, Rivalled
    <2>4. flow'[u] = IF flow[u].at = "finish" /\ flow[u].email = f.email
                     THEN [flow[u] EXCEPT !.rival = TRUE] ELSE flow[u]
      BY <2>3 DEF Rivalled
    <2>5. \A e \in Email : e # f.email => pending'[e] = pending[e]
      BY <1>2, <2>1 DEF StartKnown, LoginFinish, LoginRefused, Pop, TypeOK
    <2>6. SameCall(u)
      BY <1>0, <2>4 DEF SameCall, Flow
    <2>7. TryOf(t) # TryOf(u)
      BY DEF TryOf
    <2>8. \/ pending'[f.email] \in {pending[f.email], None}
          \/ pending'[f.email] = [by |-> TryOf(t), deadline |-> now + PendingTTL]
      BY <1>2, <2>1 DEF StartKnown, LoginFinish, LoginRefused, Pop, TypeOK
    <2>9. ASSUME flow[u].at = "finish" PROVE EntryGoesOn(u)
      <3>1. flow[u].email \in Email
        BY <2>9 DEF CallOK
      <3>2. CASE flow[u].email # f.email
        BY <2>5, <3>1, <3>2 DEF EntryGoesOn
      <3>3. CASE flow[u].email = f.email
        <4>1. flow'[u].rival
          BY <1>0, <2>4, <2>9, <3>3 DEF Flow
        <4> QED
          BY <2>7, <2>8, <3>3, <4>1 DEF EntryGoesOn
      <3> QED
        BY <3>2, <3>3
    <2> QED
      BY <1>1, <2>6, <2>9
  <1>3. CASE ~(StartKnown(t) \/ LoginFinish(t) \/ LoginRefused(t))
    <2>1. flow'[u] = flow[u] /\ pending' = pending
      BY <1>3 DEF TypeOK, TabStep, SubmitLogin, SubmitRegister, ConfirmPhrase, Begin, DeclinePhrase,
         Enroll, EmailTaken, StartUnknown, IdentityEcho, Unlock, RequestFails, Refresh, Logout,
         Reload, server, page, Fail, Go
    <2> QED
      BY <1>1, <2>1 DEF SameCall, EntryGoesOn
  <1> QED
    BY <1>2, <1>3

\* Whatever goes on elsewhere, a tab stays as it is.
LEMMA UntouchedCallOK ==
  ASSUME TypeOK, NEW u \in Tab, CallOK(u), AccountsStay, SameCall(u),
         store'[u] = store[u], unlocking'[u] = unlocking[u], keystore'[u] = keystore[u],
         now' \in Nat, now' >= now,
         flow[u].at = "finish" =>
           \/ EntryGoesOn(u)
           \/ flow[u].since + PendingTTL < now /\ pending'[flow[u].email] = None
  PROVE  CallOK(u)'
  <1>1. flow[u] \in Flow /\ TryOf(u)' = TryOf(u)
    BY TabTypes DEF SameCall, TryOf
  <1>2. \A m \in Material : OneAccount(m) => OneAccount(m)'
    BY OneAccountStays
  <1>3. flow[u].at = "finish" =>
          /\ accounts'[flow[u].email] # None
          /\ OwnParked(u)' => pending'[flow[u].email].deadline = flow[u].since + PendingTTL
          /\ flow'[u].rival \/ flow[u].since + PendingTTL < now' \/ OwnParked(u)'
    <2> SUFFICES ASSUME flow[u].at = "finish"
                 PROVE  /\ accounts'[flow[u].email] # None
                        /\ OwnParked(u)' =>
                             pending'[flow[u].email].deadline = flow[u].since + PendingTTL
                        /\ flow'[u].rival \/ flow[u].since + PendingTTL < now' \/ OwnParked(u)'
      OBVIOUS
    <2>1. accounts'[flow[u].email] # None
      BY DEF CallOK, AccountsStay
    <2>2. OwnParked(u)' => pending'[flow[u].email] = pending[flow[u].email] /\ OwnParked(u)
      BY <1>1 DEF OwnParked, SameCall, EntryGoesOn
    <2>3. flow[u].since + PendingTTL \in Nat /\ now \in Nat
      BY <1>1, AuthAssumption DEF Flow, TypeOK
    <2>4. flow'[u].rival \/ flow[u].since + PendingTTL < now' \/ OwnParked(u)'
      <3>1. CASE pending'[flow[u].email] = pending[flow[u].email]
        BY <1>1, <2>3, <3>1 DEF CallOK, OwnParked, SameCall
      <3>2. CASE flow[u].since + PendingTTL < now
        BY <2>3, <3>2
      <3> QED
        BY <3>1, <3>2 DEF EntryGoesOn
    <2> QED
      BY <2>1, <2>2, <2>4 DEF CallOK
  <1>4. flow[u].at = "phrase" =>
          accounts'[flow[u].email] = [pass |-> flow[u].pass, by |-> TryOf(u)]
    <2> SUFFICES ASSUME flow[u].at = "phrase"
                 PROVE  accounts'[flow[u].email] = [pass |-> flow[u].pass, by |-> TryOf(u)]
      OBVIOUS
    <2>1. accounts[flow[u].email] = [pass |-> flow[u].pass, by |-> TryOf(u)]
          /\ flow[u].email \in Email /\ flow[u].n # 0
      BY DEF CallOK
    <2>2. accounts[flow[u].email] \in Account
      BY <1>1, <2>1, TryType DEF CallOK, Account
    <2> QED
      BY <2>1, <2>2, NoneIsNothing DEF AccountsStay
  <1>5. flow[u].at = "me" =>
          /\ flow[u].material # None
          /\ \A m \in Material : m = flow[u].material => OneAccount(m)'
    BY <1>1, <1>2 DEF CallOK, Flow
  <1>6. MaterialsOK(u)'
    <2>1. /\ \A m \in unlocking[u] : OneAccount(m)'
          /\ \A m \in Material : keystore[u] = m => OneAccount(m)'
      BY <1>2, TabTypes, NoneIsNothing DEF CallOK, MaterialsOK
    <2> QED
      BY <2>1, TabTypes DEF MaterialsOK, OneAccount
  <1>7. /\ flow[u].at # "idle" => flow[u].email \in Email /\ flow[u].pass \in Pass /\ flow[u].n # 0
        /\ flow[u].at \in {"login", "finish"} => store[u].error = "none"
    BY DEF CallOK
  <1> QED
    BY <1>1, <1>3, <1>4, <1>5, <1>6, <1>7 DEF CallOK, SameCall, OneAccount, Flow

-----------------------------------------------------------------------------
(* The tab that moves. *)

\* A tab without a call has only its materials to account for.
LEMMA IdleCallOK ==
  ASSUME TypeOK, NEW t \in Tab, CallOK(t), AccountsStay,
         flow'[t] = NoFlow, unlocking'[t] = unlocking[t], keystore'[t] = keystore[t]
  PROVE  CallOK(t)'
  <1>1. \A m \in Material : OneAccount(m) => OneAccount(m)'
    BY OneAccountStays
  <1>2. /\ \A m \in unlocking[t] : OneAccount(m)'
        /\ \A m \in Material : keystore[t] = m => OneAccount(m)'
    BY <1>1, TabTypes, NoneIsNothing DEF CallOK, MaterialsOK
  <1>3. MaterialsOK(t)'
    BY <1>2, TabTypes DEF MaterialsOK, OneAccount
  <1> QED
    BY <1>3 DEF CallOK, NoFlow

LEMMA TabKeepsCall ==
  ASSUME TypeOK, NEW t \in Tab, CallOK(t), TabStep(t)
  PROVE  CallOK(t)'
  <1> DEFINE f == flow[t]
  <1>0. f \in Flow /\ AccountsStay /\ TypeOK'
    BY TabTypes, TabKeepsAccounts, TabType
  <1>1. \A m \in Material : OneAccount(m) => OneAccount(m)'
    BY <1>0, OneAccountStays
  <1>2. unlocking[t] \subseteq Material /\ keystore[t] \in Material \cup {None}
    BY TabTypes
  <1>3. ASSUME UNCHANGED page
        PROVE  /\ unlocking'[t] = unlocking[t] /\ keystore'[t] = keystore[t]
               /\ MaterialsOK(t)'
    <2>1. unlocking' = unlocking /\ keystore' = keystore
      BY <1>3 DEF page
    <2>2. \A m \in unlocking[t] : OneAccount(m)'
      BY <1>1, <1>2 DEF CallOK, MaterialsOK
    <2>3. \A m \in Material : keystore[t] = m => OneAccount(m)'
      BY <1>1, <1>2, NoneIsNothing DEF CallOK, MaterialsOK
    <2> QED
      BY <1>2, <2>1, <2>2, <2>3 DEF OneAccount, MaterialsOK
  <1>4. CASE SubmitLogin(t) \/ SubmitRegister(t) \/ ConfirmPhrase(t)
    <2>1. PICK step \in {"login", "enroll"}, e \in Email, p \in Pass : Begin(t, step, e, p)
      BY <1>4 DEF SubmitLogin, SubmitRegister, ConfirmPhrase, CallOK
    <2>2. /\ flow'[t].at = step /\ flow'[t].email = e /\ flow'[t].pass = p
          /\ flow'[t].n = tries[t] + 1 /\ store'[t].error = "none"
      BY <2>1 DEF Begin, Go, NoFlow, TypeOK, Store
    <2>3. flow'[t].n # 0
      BY <2>2, TabTypes, AuthAssumption
    <2> QED
      BY <1>3, <2>1, <2>2, <2>3 DEF Begin, CallOK
  <1>5. CASE DeclinePhrase(t) \/ Reload(t)
    <2>1. CASE DeclinePhrase(t)
      <3>1. flow'[t] = NoFlow
        BY <2>1 DEF DeclinePhrase, Go, TypeOK
      <3> QED
        BY <1>0, <1>3, <2>1, <3>1, IdleCallOK DEF DeclinePhrase
    <2>2. CASE Reload(t)
      <3>1. flow'[t] = NoFlow /\ unlocking'[t] = {} /\ keystore'[t] = None
        BY <2>2 DEF Reload, TypeOK
      <3> QED
        BY <3>1 DEF CallOK, NoFlow, MaterialsOK
    <2> QED
      BY <1>5, <2>1, <2>2
  <1>6. ASSUME UNCHANGED page, flow'[t] = NoFlow PROVE CallOK(t)'
    BY <1>0, <1>3, <1>6, IdleCallOK
  <1>7. ASSUME NEW why, Fail(t, why) PROVE flow'[t] = NoFlow
    BY <1>7 DEF Fail, Go, TypeOK
  <1>8. ASSUME NEW e, NEW why, FailAgainst(t, e, why) PROVE flow'[t] = NoFlow
    BY <1>8 DEF FailAgainst, GoAgainst, Rivalled
  <1>9. CASE Enroll(t)
    <2>1. UNCHANGED page
      BY <1>9 DEF Enroll
    <2>2. CASE Fail(t, "other")
      BY <1>6, <1>7, <2>1, <2>2
    <2>3. CASE Go(t, [f EXCEPT !.at = "phrase"])
      <3>1. flow'[t] = [f EXCEPT !.at = "phrase"]
        BY <2>3 DEF Go, TypeOK
      <3>2. /\ flow'[t].at = "phrase" /\ flow'[t].email = f.email /\ flow'[t].pass = f.pass
            /\ flow'[t].n = f.n
        BY <1>0, <3>1 DEF Flow
      <3>3. f.email \in Email /\ f.pass \in Pass /\ f.n # 0
        BY <1>9 DEF Enroll, CallOK
      <3>4. accounts'[f.email] = [pass |-> f.pass, by |-> TryOf(t)]
        BY <1>9, <3>3 DEF Enroll, TypeOK
      <3>5. TryOf(t)' = TryOf(t)
        BY <3>2 DEF TryOf
      <3> QED
        BY <1>3, <2>1, <3>2, <3>3, <3>4, <3>5 DEF CallOK
    <2> QED
      BY <1>9, <2>2, <2>3 DEF Enroll
  <1>10. CASE EmailTaken(t) \/ StartUnknown(t) \/ RequestFails(t)
    <2>1. UNCHANGED page /\ \E why : Fail(t, why)
      BY <1>10 DEF EmailTaken, StartUnknown, RequestFails
    <2> QED
      BY <1>6, <1>7, <2>1
  <1>11. CASE StartKnown(t)
    <2>1. UNCHANGED page
      BY <1>11 DEF StartKnown
    <2>2. CASE FailAgainst(t, f.email, "credentials")
      BY <1>6, <1>8, <2>1, <2>2
    <2>3. CASE GoAgainst(t, f.email, [f EXCEPT !.at = "finish", !.since = now]) /\ UNCHANGED store
      <3>1. flow'[t] = [f EXCEPT !.at = "finish", !.since = now]
        BY <2>3 DEF GoAgainst, Rivalled
      <3>2. /\ flow'[t].at = "finish" /\ flow'[t].email = f.email /\ flow'[t].pass = f.pass
            /\ flow'[t].n = f.n /\ flow'[t].since = now
        BY <1>0, <3>1 DEF Flow
      <3>3. f.email \in Email /\ f.pass \in Pass /\ f.n # 0 /\ store[t].error = "none"
            /\ accounts[f.email] # None
        BY <1>11 DEF StartKnown, CallOK
      <3>4. pending'[f.email] = [by |-> TryOf(t), deadline |-> now + PendingTTL]
        BY <1>11, <3>3 DEF StartKnown, TypeOK
      <3>5. TryOf(t)' = TryOf(t)
        BY <3>2 DEF TryOf
      <3>6. pending'[f.email] # None
        <4>1. pending'[f.email] \in Parked
          BY <3>3, <3>4, TryType, AuthAssumption DEF Parked, TypeOK
        <4> QED
          BY <4>1, NoneIsNothing
      <3>7. accounts' = accounts
        BY <1>11 DEF StartKnown
      <3> QED
        BY <1>3, <2>1, <2>3, <3>2, <3>3, <3>4, <3>5, <3>6, <3>7 DEF CallOK, OwnParked
    <2> QED
      BY <1>11, <2>2, <2>3 DEF StartKnown
  <1>12. CASE LoginFinish(t)
    <2>1. UNCHANGED page
      BY <1>12 DEF LoginFinish
    <2>2. CASE FailAgainst(t, f.email, "other")
      BY <1>6, <1>8, <2>1, <2>2
    <2>3. CASE GoAgainst(t, f.email,
                 [f EXCEPT !.at = "me", !.material = MaterialOf(f.email), !.rival = FALSE])
      <3>1. flow'[t] = [f EXCEPT !.at = "me", !.material = MaterialOf(f.email), !.rival = FALSE]
        BY <2>3 DEF GoAgainst, Rivalled
      <3>2. /\ flow'[t].at = "me" /\ flow'[t].email = f.email /\ flow'[t].pass = f.pass
            /\ flow'[t].n = f.n /\ flow'[t].material = MaterialOf(f.email)
        BY <1>0, <3>1 DEF Flow
      <3>3. f.email \in Email /\ f.pass \in Pass /\ f.n # 0 /\ accounts[f.email] # None
        BY <1>12 DEF LoginFinish, CallOK
      <3>4. MaterialOf(f.email) \in Material
        BY <3>3, MaterialType
      <3>5. \A m \in Material : m = MaterialOf(f.email) => OneAccount(m)
        BY <3>3 DEF MaterialOf, OneAccount
      <3>6. \A m \in Material : m = flow'[t].material => OneAccount(m)'
        BY <1>1, <3>2, <3>5
      <3> QED
        BY <1>3, <2>1, <3>2, <3>3, <3>4, <3>6, NoneIsNothing DEF CallOK, OneAccount
    <2> QED
      BY <1>12, <2>2, <2>3 DEF LoginFinish
  <1>13. CASE LoginRefused(t)
    BY <1>6, <1>8, <1>13 DEF LoginRefused
  <1>14. CASE IdentityEcho(t)
    <2>1. keystore' = keystore /\ flow'[t] = NoFlow
      BY <1>7, <1>14 DEF IdentityEcho, Go, TypeOK
    <2>2. \A m \in unlocking'[t] : m \in unlocking[t] \/ m = f.material
      BY <1>14 DEF IdentityEcho, TypeOK
    <2>3. f.material \in Material /\ OneAccount(f.material)
      BY <1>0, <1>14 DEF IdentityEcho, CallOK, Flow
    <2>4. \A m \in unlocking'[t] : m \in Material /\ OneAccount(m)
      BY <1>2, <2>2, <2>3 DEF CallOK, MaterialsOK
    <2>5. \A m \in unlocking'[t] : OneAccount(m)'
      BY <1>1, <2>4
    <2>6. \A m \in Material : keystore[t] = m => OneAccount(m)'
      BY <1>1, <1>2, NoneIsNothing DEF CallOK, MaterialsOK
    <2>7. MaterialsOK(t)'
      BY <1>2, <2>1, <2>5, <2>6 DEF OneAccount, MaterialsOK
    <2> QED
      BY <2>1, <2>7 DEF CallOK, NoFlow
  <1>15. ASSUME NEW m \in unlocking[t], Unlock(t, m) PROVE CallOK(t)'
    <2>1. /\ UNCHANGED <<now, accounts, pending, flow>>
          /\ keystore'[t] = m /\ unlocking'[t] \subseteq unlocking[t]
      BY <1>15 DEF Unlock, TypeOK, server
    <2>2. store'[t].error = store[t].error
      BY <1>15, TabTypes DEF Unlock, TypeOK, Store
    <2> QED
      BY <2>1, <2>2 DEF CallOK, OneAccount, OwnParked, TryOf, MaterialsOK
  <1>16. CASE Refresh(t) \/ Logout(t)
    <2>1. UNCHANGED <<now, accounts, pending, flow, unlocking, keystore>> /\ f.at = "idle"
      BY <1>16 DEF Refresh, Logout, server, page
    <2> QED
      BY <2>1 DEF CallOK, OneAccount, MaterialsOK
  <1> QED
    BY <1>4, <1>5, <1>9, <1>10, <1>11, <1>12, <1>13, <1>14, <1>15, <1>16 DEF TabStep

-----------------------------------------------------------------------------
(* Every step. *)

LEMMA TabKeepsSessions ==
  ASSUME TypeOK, SessionsFollowTheirStart, NEW t \in Tab, CallOK(t), TabStep(t)
  PROVE  SessionsFollowTheirStart'
  <1> DEFINE f == flow[t]
  <1>1. \A e \in Email, since \in Nat : SessionFor(e, since) \in Session
    BY SessionType
  <1>2. CASE cookie' \in {cookie, None}
    BY <1>2 DEF SessionsFollowTheirStart
  <1>3. CASE Enroll(t) /\ cookie' = SessionFor(f.email, now)
    <2>1. cookie'.exp = now + SessionTTL /\ cookie'.since = now
      BY <1>3 DEF SessionFor
    <2> QED
      BY <2>1, AuthAssumption DEF TypeOK, SessionsFollowTheirStart
  <1>4. CASE LoginFinish(t) /\ cookie' = SessionFor(f.email, f.since)
    <2>1. cookie'.exp = now + SessionTTL /\ cookie'.since = f.since
      BY <1>4 DEF SessionFor
    <2>2. now <= f.since + PendingTTL
      BY <1>4 DEF LoginFinish, MacMatches, Poppable, CallOK, OwnParked
    <2>3. f.since \in Nat /\ now \in Nat
      BY TabTypes DEF Flow, TypeOK
    <2> QED
      BY <2>1, <2>2, <2>3, AuthAssumption DEF SessionsFollowTheirStart
  <1>5. \/ cookie' \in {cookie, None}
        \/ Enroll(t) /\ cookie' = SessionFor(f.email, now)
        \/ LoginFinish(t) /\ cookie' = SessionFor(f.email, f.since)
    BY DEF TabStep, SubmitLogin, SubmitRegister, ConfirmPhrase, Begin, DeclinePhrase, Enroll,
       EmailTaken, StartUnknown, StartKnown, LoginFinish, LoginRefused, IdentityEcho, Unlock,
       RequestFails, Refresh, Logout, Reload
  <1> QED
    BY <1>2, <1>3, <1>4, <1>5

LEMMA TabKeepsInv ==
  ASSUME AuthInv, NEW t \in Tab, TabStep(t)
  PROVE  AuthInv'
  <1>1. TypeOK /\ CallOK(t)
    BY DEF AuthInv
  <1>2. TypeOK' /\ AccountsStay /\ now \in Nat
    BY <1>1, TabType, TabKeepsAccounts DEF TypeOK
  <1>3. SessionsFollowTheirStart'
    BY <1>1, TabKeepsSessions DEF AuthInv
  <1>4. ASSUME NEW u \in Tab, u # t PROVE CallOK(u)'
    <2>1. CallOK(u)
      BY DEF AuthInv
    <2>2. /\ SameCall(u)
          /\ store'[u] = store[u] /\ unlocking'[u] = unlocking[u] /\ keystore'[u] = keystore[u]
          /\ now' = now
          /\ flow[u].at = "finish" => EntryGoesOn(u)
      BY <1>1, <1>4, <2>1, OthersGoOn
    <2> QED
      BY <1>1, <1>2, <2>1, <2>2, UntouchedCallOK
  <1>5. CallOK(t)'
    BY <1>1, TabKeepsCall
  <1> QED
    BY <1>2, <1>3, <1>4, <1>5 DEF AuthInv

\* The server's own steps: a restart, the reaper, the clock.
LEMMA ServerKeepsInv ==
  ASSUME AuthInv, Restart \/ Reap \/ Tick \/ UNCHANGED vars
  PROVE  AuthInv'
  <1>1. TypeOK /\ \A u \in Tab : CallOK(u) /\ flow[u] \in Flow
    BY TabTypes DEF AuthInv
  <1>2. UNCHANGED <<accounts, cookie, tries, store, unlocking, keystore>>
    BY DEF Restart, Reap, Tick, page, vars
  <1>3. AccountsStay
    BY <1>2 DEF AccountsStay
  <1>4. now \in Nat /\ now' \in Nat /\ now' >= now
    BY <1>1 DEF TypeOK, Restart, Reap, Tick, vars
  <1>5. CASE Restart
    <2>1. \A u \in Tab : flow'[u] = [flow[u] EXCEPT !.rival = (flow[u].at = "finish")]
      BY <1>5 DEF Restart
    <2>2. ASSUME NEW u \in Tab PROVE flow'[u] \in Flow
      BY <1>1, <2>1, Zenon DEF Flow
    <2>3. flow' \in [Tab -> Flow]
      BY <1>5, <2>2 DEF Restart
    <2>4. TypeOK'
      BY <1>1, <1>2, <1>5, <2>3, AuthAssumption DEF TypeOK, Restart
    <2>5. ASSUME NEW u \in Tab PROVE CallOK(u)'
      <3>1. SameCall(u)
        BY <1>1, <2>1 DEF SameCall, Flow
      <3>2. flow[u].at = "finish" => EntryGoesOn(u)
        BY <1>1, <1>5, <2>1 DEF Restart, EntryGoesOn, CallOK, Flow
      <3> QED
        BY <1>1, <1>2, <1>3, <1>4, <3>1, <3>2, UntouchedCallOK
    <2> QED
      BY <1>2, <2>4, <2>5 DEF AuthInv, SessionsFollowTheirStart
  <1>6. CASE Reap
    <2>1. pending' \in [Email -> Parked \cup {None}] /\ UNCHANGED <<now, key, flow>>
      BY <1>1, <1>6 DEF Reap, TypeOK
    <2>2. TypeOK'
      BY <1>1, <1>2, <2>1 DEF TypeOK
    <2>3. ASSUME NEW u \in Tab PROVE CallOK(u)'
      <3>1. SameCall(u)
        BY <2>1 DEF SameCall
      <3>2. flow[u].at = "finish" =>
              \/ EntryGoesOn(u)
              \/ flow[u].since + PendingTTL < now /\ pending'[flow[u].email] = None
        <4> SUFFICES ASSUME flow[u].at = "finish", pending'[flow[u].email] # pending[flow[u].email]
                     PROVE  \/ EntryGoesOn(u)
                            \/ flow[u].since + PendingTTL < now /\ pending'[flow[u].email] = None
          BY DEF EntryGoesOn
        <4>1. flow[u].email \in Email
          BY <1>1 DEF CallOK
        <4>2. Expired(flow[u].email) /\ pending'[flow[u].email] = None
          BY <1>6, <4>1 DEF Reap
        <4> QED
          BY <1>1, <2>1, <4>2 DEF Expired, CallOK, OwnParked, EntryGoesOn
      <3> QED
        BY <1>1, <1>2, <1>3, <1>4, <3>1, <3>2, UntouchedCallOK
    <2> QED
      BY <1>2, <2>2, <2>3 DEF AuthInv, SessionsFollowTheirStart
  <1>7. CASE Tick \/ UNCHANGED vars
    <2>1. UNCHANGED <<key, flow, pending>>
      BY <1>7 DEF Tick, vars
    <2>2. TypeOK'
      BY <1>1, <1>2, <1>4, <2>1 DEF TypeOK
    <2>3. ASSUME NEW u \in Tab PROVE CallOK(u)'
      <3>1. SameCall(u) /\ EntryGoesOn(u)
        BY <2>1 DEF SameCall, EntryGoesOn
      <3> QED
        BY <1>1, <1>2, <1>3, <1>4, <3>1, UntouchedCallOK
    <2> QED
      BY <1>2, <2>2, <2>3 DEF AuthInv, SessionsFollowTheirStart
  <1> QED
    BY <1>5, <1>6, <1>7

LEMMA AuthStep == AuthInv /\ [Next]_vars => AuthInv'
  BY TabKeepsInv, ServerKeepsInv DEF Next

LEMMA AuthStart == Init => AuthInv
  <1> SUFFICES ASSUME Init PROVE AuthInv
    OBVIOUS
  <1>1. TypeOK
    BY NoFlowType, AuthAssumption DEF Init, TypeOK
  <1>2. \A t \in Tab : CallOK(t)
    BY DEF Init, CallOK, NoFlow, MaterialsOK
  <1> QED
    BY <1>1, <1>2 DEF AuthInv, Init, SessionsFollowTheirStart

\* The inductive invariant: every call and every keystore is of one account, and
\* every finish has its entry or a reason to be refused (service.go, authStore.ts).
THEOREM AuthIsSafe == Spec => []AuthInv
  BY AuthStart, AuthStep, PTL DEF Spec

-----------------------------------------------------------------------------
(* The results. *)

\* Every variable keeps its type.
THEOREM AuthTypes == Spec => []TypeOK
  <1>1. AuthInv => TypeOK
    BY DEF AuthInv
  <1> QED
    BY <1>1, AuthIsSafe, PTL

\* No interleaving of starts, finishes, the reaper and restarts issues a session
\* later than the pending TTL after the start it answers.
THEOREM SessionsAreTimely == Spec => []SessionsFollowTheirStart
  <1>1. AuthInv => SessionsFollowTheirStart
    BY DEF AuthInv
  <1> QED
    BY <1>1, AuthIsSafe, PTL

\* A keystore never mixes the identity of one account with the key of another.
THEOREM KeystoresAreWhole == Spec => []KeystoreOfOneAccount
  <1>1. AuthInv => KeystoreOfOneAccount
    BY DEF AuthInv, CallOK, MaterialsOK, KeystoreOfOneAccount
  <1> QED
    BY <1>1, AuthIsSafe, PTL

\* The phrase a page shows is that of the account stored under its email.
THEOREM PhrasesAreStored == Spec => []PhraseShownIsStored
  <1>1. AuthInv => PhraseShownIsStored
    BY DEF AuthInv, CallOK, PhraseShownIsStored
  <1> QED
    BY <1>1, AuthIsSafe, PTL

\* A finish in time, with the right passphrase and no rival, is accepted.
THEOREM RefusalsHaveReasons == Spec => RefusedOnlyForAReason
  <1> DEFINE Refused(t) == flow[t].at = "finish" /\ store'[t].error = "credentials"
             Reason(t) == flow[t].rival \/ flow[t].since + PendingTTL < now
  <1>1. ASSUME AuthInv, [Next]_vars, NEW t \in Tab, Refused(t)
        PROVE  Reason(t)
    <2>1. CallOK(t) /\ TypeOK /\ store[t].error = "none"
      BY <1>1 DEF AuthInv, CallOK
    <2>2. LoginRefused(t)
      <3>1. store'[t] # store[t]
        BY <1>1, <2>1
      <3>2. TabStep(t)
        <4>1. ASSUME NEW u \in Tab, TabStep(u), u # t PROVE FALSE
          BY <1>1, <2>1, <3>1, <4>1, OthersGoOn DEF AuthInv
        <4>2. \E u \in Tab : TabStep(u)
          BY <1>1, <3>1 DEF Next, vars, Restart, Reap, Tick
        <4> QED
          BY <4>1, <4>2
      <3>3. ~RequestFails(t) /\ ~LoginFinish(t) /\ ~Reload(t)
        BY <1>1, <2>1 DEF TypeOK, RequestFails, LoginFinish, Reload, Fail, FailAgainst, Store,
           SignedOut
      <3>4. \A m \in unlocking[t] : ~Unlock(t, m)
        BY <1>1, <2>1 DEF TypeOK, Unlock, Store
      <3> QED
        BY <1>1, <3>2, <3>3, <3>4 DEF TabStep, SubmitLogin, SubmitRegister, ConfirmPhrase,
           DeclinePhrase, Enroll, EmailTaken, StartUnknown, StartKnown, IdentityEcho, Refresh, Logout
    <2>3. ~MacMatches(t)
      BY <2>2 DEF LoginRefused
    <2>4. flow[t].since \in Nat /\ now \in Nat
      BY <2>1, TabTypes DEF Flow, TypeOK
    <2> QED
      BY <1>1, <2>1, <2>3, <2>4, AuthAssumption DEF CallOK, OwnParked, MacMatches, Poppable
  <1>2. AuthInv /\ [Next]_vars => [\A t \in Tab : Refused(t) => Reason(t)]_vars
    BY <1>1
  <1> QED
    BY <1>2, AuthIsSafe, PTL DEF Spec, RefusedOnlyForAReason

\* A new signing key keeps the sessions that the key before it had signed, and
\* ends those of any older key.
THEOREM RotationIsExact == Spec => RotationKeepsSessions
  <1>1. ASSUME AuthInv, [Next]_vars, Verified(cookie), key' # key
        PROVE  Verified(cookie)' <=> cookie.key = key
    <2>1. Restart
      BY <1>1 DEF Next, vars, TabStep, SubmitLogin, SubmitRegister, ConfirmPhrase, Begin,
         DeclinePhrase, Enroll, EmailTaken, StartUnknown, StartKnown, LoginFinish, LoginRefused,
         IdentityEcho, Unlock, RequestFails, Refresh, Logout, Reload, Reap, Tick, server
    <2>2. key' = key + 1 /\ cookie' = cookie /\ now' = now /\ key \in Nat
      BY <1>1, <2>1 DEF Restart, AuthInv, TypeOK
    <2>3. cookie # None /\ cookie.key \in {key, key - 1} /\ now < cookie.exp
      BY <1>1 DEF Verified
    <2> QED
      BY <2>2, <2>3 DEF Verified
  <1>2. AuthInv /\ [Next]_vars =>
          [(Verified(cookie) /\ key' # key) => (Verified(cookie)' <=> cookie.key = key)]_vars
    BY <1>1
  <1> QED
    BY <1>2, AuthIsSafe, PTL DEF Spec, RotationKeepsSessions
=============================================================================

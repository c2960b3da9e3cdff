-------------------------------- MODULE Auth --------------------------------
(***************************************************************************)
(* Signing in: the OPAQUE handshakes of internal/auth/service.go, the      *)
(* session cookie of internal/api/session.go and the auth store of the web *)
(* client (web/src/stores/authStore.ts), driven by the Login and Register  *)
(* pages.                                                                  *)
(*                                                                         *)
(* The tabs are tabs of one browser: each has a store and a keystore of    *)
(* its own, all of them share the cookie.  One round trip is one step: the *)
(* client reads nothing shared between a request's handling and its        *)
(* answer, and what happens when either is lost is a step of its own.      *)
(***************************************************************************)
EXTENDS Naturals

CONSTANTS
  Tab,         \* tabs of one browser
  Email,       \* canonical (trimmed, lower-case) addresses; one user id each
  Pass,        \* passphrases
  MaxTries,    \* bound: registrations and logins begun per tab
  PendingTTL,  \* pendingTTL, in clock ticks
  SessionTTL,  \* sessionTTL
  MaxNow,      \* bound: the server's clock
  MaxKey,      \* bound: signing keys the operator ever configures
  None         \* nothing

(***************************************************************************)
(* A try names everything random in one registration or login: the kdf     *)
(* salt, the data key, its wraps and its recovery phrase, or the           *)
(* handshake's ephemeral keys and hence its client MAC.                    *)
(***************************************************************************)
Try == Tab \X (1..MaxTries)
Account == [pass: Pass, by: Try]
Parked == [by: Try, deadline: Nat]
Session == [user: Email, key: Nat, exp: Nat, since: Nat]

\* What an unlock gets: the wrap identity, the record identity and the data key.
Material == [wrap: Email, user: Email, dek: Try]

ASSUME AuthAssumption ==
  /\ MaxTries \in Nat /\ MaxNow \in Nat /\ MaxKey \in Nat
  /\ PendingTTL \in Nat /\ SessionTTL \in Nat
  /\ None \notin Account \cup Parked \cup Session \cup Material \cup Email \cup Pass

VARIABLES
  now,        \* the server's clock
  key,        \* SessionKeys[0]; SessionKeys[1] is the key before it
  accounts,   \* accounts[e]: the row of users, or None
  pending,    \* pending[e]: the parked client MAC, in memory
  cookie,     \* the browser's fincrypt_session
  tries,      \* tries[t]: registrations and logins begun so far
  flow,       \* flow[t]: the register or login call in progress
  store,      \* store[t]: status, user and error of the auth store
  unlocking,  \* unlocking[t]: unlocks waiting for Argon2id
  keystore    \* keystore[t]: what the session keystore holds

server == <<now, key, accounts, pending>>
page == <<unlocking, keystore>>
vars == <<now, key, accounts, pending, cookie, tries, flow, store, unlocking, keystore>>

Flow ==
  [at: {"idle", "login", "finish", "me", "enroll", "phrase"},
   email: Email \cup {None}, pass: Pass \cup {None}, n: 0..MaxTries, since: Nat,
   material: Material \cup {None},
   rival: BOOLEAN]    \* history: since the start, another login or a restart intervened
NoFlow ==
  [at |-> "idle", email |-> None, pass |-> None, n |-> 0, since |-> 0, material |-> None,
   rival |-> FALSE]

Store ==
  [status: {"anonymous", "locked", "unlocked"}, user: Email \cup {None},
   error: {"none", "credentials", "taken", "other"}]
SignedOut == [status |-> "anonymous", user |-> None, error |-> "none"]

Init ==
  /\ now = 0 /\ key = 1
  /\ accounts = [e \in Email |-> None]
  /\ pending = [e \in Email |-> None]
  /\ cookie = None
  /\ tries = [t \in Tab |-> 0]
  /\ flow = [t \in Tab |-> NoFlow]
  /\ store = [t \in Tab |-> SignedOut]
  /\ unlocking = [t \in Tab |-> {}]
  /\ keystore = [t \in Tab |-> None]

TryOf(t) == <<t, flow[t].n>>
Go(t, f) == flow' = [flow EXCEPT ![t] = f]
Fail(t, why) == Go(t, NoFlow) /\ store' = [store EXCEPT ![t].error = why]

-----------------------------------------------------------------------------
(* Sessions. *)

\* Faulty variant: only the signing key verifies.
VerifiedByFirstKey(c) == c # None /\ c.key = key /\ now < c.exp

\* Faulty variant: retired keys are never dropped.
VerifiedByAnyKey(c) == c # None /\ c.key \in 1..key /\ now < c.exp

\* The cookie is signed by one of the two configured keys and has not expired.
Verified(c) == c # None /\ c.key \in {key, key - 1} /\ now < c.exp

\* Faulty variant: a token without an expiry.
EndlessSessionFor(e, since) == [user |-> e, key |-> key, since |-> since]

SessionFor(e, since) == [user |-> e, key |-> key, exp |-> now + SessionTTL, since |-> since]

-----------------------------------------------------------------------------
(* Beginning a call.  The forms are disabled while one is in progress, but *)
(* not while an unlock is.                                                 *)

Begin(t, step, e, p) ==
  /\ tries[t] < MaxTries
  /\ tries' = [tries EXCEPT ![t] = @ + 1]
  /\ Go(t, [NoFlow EXCEPT !.at = step, !.email = e, !.pass = p, !.n = tries[t] + 1])
  /\ store' = [store EXCEPT ![t].error = "none"]
  /\ UNCHANGED server /\ UNCHANGED page /\ UNCHANGED <<cookie>>

SubmitLogin(t) == flow[t].at = "idle" /\ \E e \in Email, p \in Pass : Begin(t, "login", e, p)

\* register/start leaves no trace on the server; its salt goes with the try.
SubmitRegister(t) == flow[t].at = "idle" /\ \E e \in Email, p \in Pass : Begin(t, "enroll", e, p)

\* Confirming the phrase logs in with what was registered.
ConfirmPhrase(t) == flow[t].at = "phrase" /\ Begin(t, "login", flow[t].email, flow[t].pass)

DeclinePhrase(t) ==
  /\ flow[t].at = "phrase"
  /\ Go(t, NoFlow)
  /\ UNCHANGED server /\ UNCHANGED page /\ UNCHANGED <<cookie, tries, store>>

-----------------------------------------------------------------------------
(* Registration. *)

\* Faulty variant: the insert becomes an upsert.
AlwaysFree(e) == TRUE

EmailFree(e) == accounts[e] = None

\* register/finish inserts the user and starts a session; the page then shows
\* the recovery phrase.  When the answer is lost the account exists, but the
\* page reports a failure and the phrase is never shown.
Enroll(t) ==
  LET f == flow[t] IN
  /\ f.at = "enroll"
  /\ EmailFree(f.email)
  /\ accounts' = [accounts EXCEPT ![f.email] = [pass |-> f.pass, by |-> TryOf(t)]]
  /\ \/ /\ cookie' = SessionFor(f.email, now)
        /\ Go(t, [f EXCEPT !.at = "phrase"])
        /\ store' = [store EXCEPT ![t] = [status |-> "locked", user |-> f.email, error |-> "none"]]
     \/ /\ Fail(t, "other")
        /\ UNCHANGED cookie
  /\ UNCHANGED <<now, key, pending, tries>> /\ UNCHANGED page

EmailTaken(t) ==
  /\ flow[t].at = "enroll"
  /\ ~EmailFree(flow[t].email)
  /\ Fail(t, "taken")
  /\ UNCHANGED server /\ UNCHANGED page /\ UNCHANGED <<cookie, tries>>

-----------------------------------------------------------------------------
(* Login. *)

\* Another login of the same account has touched the pending entry.
Rivalled(t, e) ==
  [u \in Tab |-> IF u # t /\ flow[u].at = "finish" /\ flow[u].email = e
                 THEN [flow[u] EXCEPT !.rival = TRUE]
                 ELSE flow[u]]

GoAgainst(t, e, f) == flow' = [Rivalled(t, e) EXCEPT ![t] = f]
FailAgainst(t, e, why) == GoAgainst(t, e, NoFlow) /\ store' = [store EXCEPT ![t].error = why]

\* An unknown email is answered from a fake record, which the client rejects.
StartUnknown(t) ==
  /\ flow[t].at = "login"
  /\ accounts[flow[t].email] = None
  /\ Fail(t, "credentials")
  /\ UNCHANGED server /\ UNCHANGED page /\ UNCHANGED <<cookie, tries>>

\* login/start parks the expected MAC, in place of an earlier one.  A client
\* with the wrong passphrase finds out when it checks the server's answer.
StartKnown(t) ==
  LET f == flow[t] IN
  /\ f.at = "login"
  /\ accounts[f.email] # None
  /\ pending' = [pending EXCEPT ![f.email] = [by |-> TryOf(t), deadline |-> now + PendingTTL]]
  /\ IF accounts[f.email].pass = f.pass
     THEN GoAgainst(t, f.email, [f EXCEPT !.at = "finish", !.since = now]) /\ UNCHANGED store
     ELSE FailAgainst(t, f.email, "credentials")
  /\ UNCHANGED <<now, key, accounts, cookie, tries>> /\ UNCHANGED page

Poppable(e) == pending[e] # None /\ now <= pending[e].deadline

\* pop removes the entry it returns, and keeps an expired one for the reaper.
Pop(e) == pending' = [pending EXCEPT ![e] = IF Poppable(e) THEN None ELSE @]

\* Faulty variant: whatever was parked last vouches for any finish.
MacOfAnyStart(t) == Poppable(flow[t].email)

\* The client's MAC is the one parked by its own start.
MacMatches(t) == Poppable(flow[t].email) /\ pending[flow[t].email].by = TryOf(t)

\* Faulty variant: the record identity is that of the session's user.
MaterialOfSession(e) ==
  [wrap |-> e, user |-> IF cookie = None THEN e ELSE cookie.user, dek |-> accounts[e].by]

\* The answer to login/finish: user id, salt and wrapped key of one row.
MaterialOf(e) == [wrap |-> e, user |-> e, dek |-> accounts[e].by]

\* login/finish accepted: the cookie is set and the page has the material; or
\* the answer is lost and only the server's pending entry is gone.
LoginFinish(t) ==
  LET f == flow[t] IN
  /\ f.at = "finish"
  /\ MacMatches(t)
  /\ Pop(f.email)
  /\ \/ /\ cookie' = SessionFor(f.email, f.since)
        /\ GoAgainst(t, f.email,
             [f EXCEPT !.at = "me", !.material = MaterialOf(f.email), !.rival = FALSE])
        /\ UNCHANGED store
     \/ /\ FailAgainst(t, f.email, "other")
        /\ UNCHANGED cookie
  /\ UNCHANGED <<now, key, accounts, tries>> /\ UNCHANGED page

\* Refused with 401.  The entry is popped before its MAC is compared, so a
\* stale finish also takes a newer start's entry with it.
LoginRefused(t) ==
  /\ flow[t].at = "finish"
  /\ ~MacMatches(t)
  /\ Pop(flow[t].email)
  /\ FailAgainst(t, flow[t].email, "credentials")
  /\ UNCHANGED <<now, key, accounts, cookie, tries>> /\ UNCHANGED page

\* GET /api/auth/me is answered for whoever the cookie names by now.
IdentityEcho(t) ==
  LET f == flow[t] IN
  /\ f.at = "me"
  /\ IF Verified(cookie)
     THEN /\ store' = [store EXCEPT ![t].status = "locked", ![t].user = cookie.user]
          /\ unlocking' = [unlocking EXCEPT ![t] = @ \cup {f.material}]
          /\ Go(t, NoFlow)
     ELSE Fail(t, "credentials") /\ UNCHANGED unlocking
  /\ UNCHANGED server /\ UNCHANGED <<cookie, tries, keystore>>

\* The key is derived and unwrapped: the keystore is filled and the status
\* promoted, whatever other login the tab has begun since.
Unlock(t, m) ==
  /\ m \in unlocking[t]
  /\ unlocking' = [unlocking EXCEPT ![t] = @ \ {m}]
  /\ keystore' = [keystore EXCEPT ![t] = m]
  /\ store' = [store EXCEPT ![t].status = "unlocked"]
  /\ UNCHANGED server /\ UNCHANGED <<cookie, tries, flow>>

\* A request or the answer to a start is lost, or refused with 403, 429 or 500.
RequestFails(t) ==
  /\ flow[t].at \in {"login", "finish", "me", "enroll"}
  /\ Fail(t, "other")
  /\ UNCHANGED server /\ UNCHANGED page /\ UNCHANGED <<cookie, tries>>

-----------------------------------------------------------------------------
(* The rest of the store, and the environment. *)

\* refresh: the session's user, or anonymous after any error.
Refresh(t) ==
  /\ flow[t].at = "idle"
  /\ store' = [store EXCEPT ![t] =
       IF Verified(cookie)
       THEN [@ EXCEPT !.user = cookie.user,
                      !.status = IF @ = "unlocked" THEN "unlocked" ELSE "locked"]
       ELSE [@ EXCEPT !.user = None, !.status = "anonymous"]]
  /\ UNCHANGED server /\ UNCHANGED page /\ UNCHANGED <<cookie, tries, flow>>

\* logout: 204 clears the cookie, but the client's apiFetch cannot parse the
\* empty body and throws before the store is reset; only a 401, swallowed by
\* the API layer, resets it.  The keystore is never touched.
Logout(t) ==
  /\ flow[t].at = "idle"
  /\ IF Verified(cookie)
     THEN cookie' = None /\ UNCHANGED store
     ELSE /\ store' = [store EXCEPT ![t].status = "anonymous", ![t].user = None]
          /\ UNCHANGED cookie
  /\ UNCHANGED server /\ UNCHANGED page /\ UNCHANGED <<tries, flow>>

Reload(t) ==
  /\ flow' = [flow EXCEPT ![t] = NoFlow]
  /\ store' = [store EXCEPT ![t] = SignedOut]
  /\ unlocking' = [unlocking EXCEPT ![t] = {}]
  /\ keystore' = [keystore EXCEPT ![t] = None]
  /\ UNCHANGED server /\ UNCHANGED <<cookie, tries>>

\* A restart forgets the pending logins; it may bring a new signing key.
Restart ==
  /\ pending' = [e \in Email |-> None]
  /\ key' \in {key, key + 1} \cap 1..MaxKey
  /\ flow' = [t \in Tab |-> [flow[t] EXCEPT !.rival = flow[t].at = "finish"]]
  /\ UNCHANGED <<now, accounts, cookie, tries, store>> /\ UNCHANGED page

\* Faulty variant: the reaper drops whatever it finds.
AnyParked(e) == pending[e] # None

Expired(e) == pending[e] # None /\ pending[e].deadline < now

Reap ==
  /\ \E e \in Email : Expired(e)
  /\ pending' = [e \in Email |-> IF Expired(e) THEN None ELSE pending[e]]
  /\ UNCHANGED <<now, key, accounts, cookie, tries, flow, store>> /\ UNCHANGED page

Tick ==
  /\ now < MaxNow
  /\ now' = now + 1
  /\ UNCHANGED <<key, accounts, pending, cookie, tries, flow, store>> /\ UNCHANGED page

TabStep(t) ==
  \/ SubmitLogin(t) \/ SubmitRegister(t) \/ ConfirmPhrase(t) \/ DeclinePhrase(t)
  \/ Enroll(t) \/ EmailTaken(t)
  \/ StartUnknown(t) \/ StartKnown(t) \/ LoginFinish(t) \/ LoginRefused(t) \/ IdentityEcho(t)
  \/ \E m \in unlocking[t] : Unlock(t, m)
  \/ RequestFails(t) \/ Refresh(t) \/ Logout(t) \/ Reload(t)

Next == (\E t \in Tab : TabStep(t)) \/ Restart \/ Reap \/ Tick

Spec == Init /\ [][Next]_vars

-----------------------------------------------------------------------------
(* Properties. *)

\* Every variable has its type.
TypeOK ==
  /\ now \in Nat /\ key \in Nat
  /\ accounts \in [Email -> Account \cup {None}]
  /\ pending \in [Email -> Parked \cup {None}]
  /\ cookie \in Session \cup {None}
  /\ tries \in [Tab -> 0..MaxTries]
  /\ flow \in [Tab -> Flow]
  /\ store \in [Tab -> Store]
  /\ unlocking \in [Tab -> SUBSET Material]
  /\ keystore \in [Tab -> Material \cup {None}]

\* A session is issued only within the pending TTL of the start it finishes:
\* no interleaving of starts, finishes, the reaper and restarts lets an old
\* finish ride on a newer start's entry (pendingLogins, LoginFinish).
SessionsFollowTheirStart ==
  cookie # None => cookie.exp <= cookie.since + PendingTTL + SessionTTL

OneAccount(m) ==
  /\ m.wrap = m.user
  /\ accounts[m.user] # None
  /\ m.dek = accounts[m.user].by

\* Whatever other tabs sign in to meanwhile, a keystore holds the wrap
\* identity, the record identity and the data key of one account: records are
\* never bound to one user and encrypted with another's key (authStore.login
\* takes the material from login/finish, not from the session).
KeystoreOfOneAccount ==
  \A t \in Tab : keystore[t] # None => OneAccount(keystore[t])

\* The recovery phrase a page shows opens the account that is stored, also
\* when two tabs register the same email (RegisterFinish's unique email).
PhraseShownIsStored ==
  \A t \in Tab : flow[t].at = "phrase" =>
    accounts[flow[t].email] = [pass |-> flow[t].pass, by |-> TryOf(t)]

\* With the right passphrase, in time, with no other login of the account and
\* no restart in between, login/finish is not refused (pop, reaper).
RefusedOnlyForAReason ==
  [][\A t \in Tab :
       (flow[t].at = "finish" /\ store'[t].error = "credentials")
         => flow[t].rival \/ flow[t].since + PendingTTL < now]_vars

\* Bringing in a new signing key signs out exactly the sessions that the key
\* before the current one had signed: verifySession tries both configured keys,
\* and no older one.
RotationKeepsSessions ==
  [][(Verified(cookie) /\ key' # key) => (Verified(cookie)' <=> cookie.key = key)]_vars

\* What authStore.test.ts says of logout: it lands anonymous and clears the
\* keystore.
LogoutLandsAnonymous ==
  [][(cookie # None /\ cookie' = None)
       => \E t \in Tab : store'[t].status = "anonymous" /\ keystore'[t] = None]_vars
=============================================================================

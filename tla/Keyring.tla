------------------------------- MODULE Keyring -------------------------------
(***************************************************************************)
(* Which secret opens which wrap: changing the passphrase, rotating the    *)
(* recovery phrase and recovering with it (web/src/crypto/lifecycle.ts,    *)
(* recovery.ts, keyHierarchy.ts), over the key fields of a row of users.   *)
(*                                                                         *)
(* A flow works on the fields its device has read and returns the fields   *)
(* to store.  The server has no endpoint that stores them yet, so Fetch    *)
(* and Store stand for one: all returned fields at once, the others left   *)
(* alone.  Several devices run their flows side by side.                   *)
(***************************************************************************)
EXTENDS Naturals

CONSTANTS
  User,        \* identities wraps are bound to; u also names the data key made for u
  Device,      \* devices that run a flow
  Pass,        \* passphrases, the empty one included
  Empty,       \* the empty passphrase
  Text,        \* normalized texts a user may type as a recovery phrase
  Phrase,      \* those with twelve words of the list and a right checksum
  MaxChanges,  \* bound: passphrase changes per user
  None         \* nothing

ASSUME KeyringAssumption ==
  /\ Empty \in Pass
  /\ Phrase \subseteq Text
  /\ Pass \cap Text = {}
  /\ MaxChanges \in Nat
  /\ None \notin User

Params == {"default", "older"}   \* Argon2id cost parameters
Kind == {"wrapped-dek", "wrapped-dek-recovery"}

\* The n-th change draws the n-th salt of a user; random salts never repeat.
Kek == [secret: Pass, salt: 0..MaxChanges, params: Params] \cup [secret: Phrase]
Wrap == [kek: Kek, user: User, kind: Kind, dek: User]
Fields == [salt: 0..MaxChanges, params: Params, wrapped: Wrap, recovery: Wrap]

VARIABLES
  rows,     \* rows[u]: the key fields of u
  salts,    \* salts[u]: salts drawn for u since the registration
  flow,     \* flow[d]: the flow of a device
  held,     \* held[d]: the user asked for and the key recovered, or None
  secrets   \* history: the passphrase and phrase last stored for each user

vars == <<rows, salts, flow, held, secrets>>

Flow == [at: {"idle"}]
  \cup [at: {"read"}, user: User, row: Fields]
  \cup [at: {"changed"}, user: User, row: Fields, pass: Pass]
  \cup [at: {"rotated"}, user: User, row: Fields, phrase: Phrase]
NoFlow == [at |-> "idle"]

-----------------------------------------------------------------------------
(* Keys and wraps. *)

DeriveKek(p, salt, params) == [secret |-> p, salt |-> salt, params |-> params]
DeriveRecoveryKek(w) == [secret |-> w]

WrapDek(dek, kek, u) == [kek |-> kek, user |-> u, kind |-> "wrapped-dek", dek |-> dek]

WrapWithRecovery(dek, kek, u) ==
  [kek |-> kek, user |-> u, kind |-> "wrapped-dek-recovery", dek |-> dek]

\* A wrap opens under its own key, for its own user and as its own kind.
Opens(w, kek, u, kind) == w.kek = kek /\ w.user = u /\ w.kind = kind

PassOpens(row, p, u) == Opens(row.wrapped, DeriveKek(p, row.salt, row.params), u, "wrapped-dek")
PhraseOpens(row, w, u) ==
  w \in Phrase /\ Opens(row.recovery, DeriveRecoveryKek(w), u, "wrapped-dek-recovery")

\* Registration wraps the new key under the passphrase and under the phrase.
Registered(u, p, w, params) ==
  [salt |-> 0, params |-> params,
   wrapped |-> WrapDek(u, DeriveKek(p, 0, params), u),
   recovery |-> WrapWithRecovery(u, DeriveRecoveryKek(w), u)]

Init ==
  /\ secrets \in [User -> [pass: Pass \ {Empty}, phrase: Phrase]]
  /\ \E params \in [User -> Params] :
       rows = [u \in User |-> Registered(u, secrets[u].pass, secrets[u].phrase, params[u])]
  /\ salts = [u \in User |-> 0]
  /\ flow = [d \in Device |-> NoFlow]
  /\ held = [d \in Device |-> None]

-----------------------------------------------------------------------------
(* The flows. *)

Fetch(d, u) ==
  /\ flow[d].at = "idle"
  /\ flow' = [flow EXCEPT ![d] = [at |-> "read", user |-> u, row |-> rows[u]]]
  /\ UNCHANGED <<rows, salts, held, secrets>>

\* Faulty variant: the parameters the key was derived with are not returned.
FieldsWithoutParams(row, u, new, salt) ==
  LET kek == DeriveKek(new, salt, "default") IN
  [salt |-> salt,
   wrapped |-> WrapDek(row.wrapped.dek, kek, u),
   recovery |-> WrapWithRecovery(row.wrapped.dek, kek, u)]

\* Faulty variant: the recovery wrap is made under the salt that was read.
FieldsUnderTwoSalts(row, u, new, salt) ==
  [salt |-> salt, params |-> "default",
   wrapped |-> WrapDek(row.wrapped.dek, DeriveKek(new, salt, "default"), u),
   recovery |-> WrapWithRecovery(row.wrapped.dek, DeriveKek(new, row.salt, "default"), u)]

\* The four fields a change returns: both wraps are made under the key
\* derived from the new passphrase, the recovery wrap too.
ChangedFields(row, u, new, salt) ==
  LET kek == DeriveKek(new, salt, "default") IN
  [salt |-> salt, params |-> "default",
   wrapped |-> WrapDek(row.wrapped.dek, kek, u),
   recovery |-> WrapWithRecovery(row.wrapped.dek, kek, u)]

ChangePassphrase(d, old, new) ==
  LET f == flow[d] IN
  /\ f.at = "read"
  /\ new # old /\ new # Empty
  /\ PassOpens(f.row, old, f.user)
  /\ salts[f.user] < MaxChanges
  /\ salts' = [salts EXCEPT ![f.user] = @ + 1]
  /\ flow' = [flow EXCEPT ![d] =
       [at |-> "changed", user |-> f.user, pass |-> new,
        row |-> ChangedFields(f.row, f.user, new, salts'[f.user])]]
  /\ UNCHANGED <<rows, held, secrets>>

\* Only the recovery wrap is made anew.
RotatedFields(row, u, new) ==
  [row EXCEPT !.recovery = WrapWithRecovery(row.recovery.dek, DeriveRecoveryKek(new), u)]

RotateRecovery(d, old, new) ==
  LET f == flow[d] IN
  /\ f.at = "read"
  /\ PhraseOpens(f.row, old, f.user)
  /\ new \in Phrase
  /\ flow' = [flow EXCEPT ![d] =
       [at |-> "rotated", user |-> f.user, phrase |-> new,
        row |-> RotatedFields(f.row, f.user, new)]]
  /\ UNCHANGED <<rows, salts, held, secrets>>

RecoverWithMnemonic(d, w) ==
  LET f == flow[d] IN
  /\ f.at = "read"
  /\ PhraseOpens(f.row, w, f.user)
  /\ held' = [held EXCEPT ![d] = [user |-> f.user, dek |-> f.row.recovery.dek]]
  /\ flow' = [flow EXCEPT ![d] = NoFlow]
  /\ UNCHANGED <<rows, salts, secrets>>

\* A flow throws (wrong secret, malformed phrase, same or empty new
\* passphrase), or its result never reaches the server.
GiveUp(d) ==
  /\ flow[d].at # "idle"
  /\ flow' = [flow EXCEPT ![d] = NoFlow]
  /\ UNCHANGED <<rows, salts, held, secrets>>

StoreChange(d) ==
  LET f == flow[d] IN
  /\ f.at = "changed"
  /\ rows' = [rows EXCEPT ![f.user] = f.row]
  /\ secrets' = [secrets EXCEPT ![f.user].pass = f.pass]
  /\ flow' = [flow EXCEPT ![d] = NoFlow]
  /\ UNCHANGED <<salts, held>>

\* Faulty variant: a rotation writes back every field it has read.
RowRotatedWhole(row, f) == f.row

\* A rotation returns the recovery wrap and nothing else.
RowRotated(row, f) == [row EXCEPT !.recovery = f.row.recovery]

StoreRotation(d) ==
  LET f == flow[d] IN
  /\ f.at = "rotated"
  /\ rows' = [rows EXCEPT ![f.user] = RowRotated(@, f)]
  /\ secrets' = [secrets EXCEPT ![f.user].phrase = f.phrase]
  /\ flow' = [flow EXCEPT ![d] = NoFlow]
  /\ UNCHANGED <<salts, held>>

Next == \E d \in Device :
  \/ \E u \in User : Fetch(d, u)
  \/ \E old, new \in Pass : ChangePassphrase(d, old, new)
  \/ \E old, new \in Text : RotateRecovery(d, old, new)
  \/ \E w \in Text : RecoverWithMnemonic(d, w)
  \/ GiveUp(d) \/ StoreChange(d) \/ StoreRotation(d)

Spec == Init /\ [][Next]_vars

-----------------------------------------------------------------------------
(* Properties. *)

\* Every variable has its type.
TypeOK ==
  /\ rows \in [User -> Fields]
  /\ salts \in [User -> 0..MaxChanges]
  /\ flow \in [Device -> Flow]
  /\ held \in [Device -> [user: User, dek: User] \cup {None}]
  /\ secrets \in [User -> [pass: Pass, phrase: Phrase]]

\* However passphrase changes, rotations and their stores interleave, the
\* passphrase stored last opens the passphrase wrap under the stored salt and
\* parameters, and yields the key generated at registration: a rotation that
\* read the row before a change does not undo it (changePassphrase,
\* rotateRecovery).
PassphraseOpensWrap ==
  \A u \in User : PassOpens(rows[u], secrets[u].pass, u) /\ rows[u].wrapped.dek = u

\* The recovery wrap is never orphaned: it opens, as a recovery wrap of its
\* user and to the key generated at registration, under the phrase stored
\* last or else under the key of the stored passphrase wrap itself.
RecoveryWrapHasAnOpener ==
  \A u \in User :
    /\ \E kek \in {DeriveRecoveryKek(secrets[u].phrase), rows[u].wrapped.kek} :
         Opens(rows[u].recovery, kek, u, "wrapped-dek-recovery")
    /\ rows[u].recovery.dek = u

\* What crypto/API.md says of the recovery wrap: it is made under the recovery
\* key, so that the phrase opens it.
PhraseOpensRecovery ==
  \A u \in User : PhraseOpens(rows[u], secrets[u].phrase, u)
=============================================================================

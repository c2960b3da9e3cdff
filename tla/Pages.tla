---------------------------------- MODULE Pages ----------------------------------
(***************************************************************************)
(* The transactions page (web/src/pages/TransactionsPage.tsx) over the     *)
(* data layer (web/src/domain/store.ts) of one device: the form that       *)
(* creates, edits and transfers, the delete button and the reloads, each a *)
(* chain of awaits, and any number of them in progress at once.            *)
(*                                                                         *)
(* SyncSystem has the sync itself; here a flush that fails does nothing,   *)
(* one that succeeds pushes the outbox, pulls what changed and sends the   *)
(* deletes in one step, and a second device may delete what the server has. *)
(***************************************************************************)
EXTENDS Integers, Sequences, FiniteSets, Summaries

CONSTANTS
  MaxRec,      \* bound: records ever created
  MaxClicks,   \* bound: submits and deletes
  Flow,        \* handlers in progress at once
  Entries,     \* what is typed into the form: amount, category, month
  MaxEvents,   \* bound: reloads of the page and deletes by the other device
  Nothing, Gone

Rec == 1..MaxRec
Group == 0..MaxClicks   \* 0 is null: not a leg of a transfer
Data == [amount: Int, category: {e.category : e \in Entries}, month: {e.month : e \in Entries},
         group: Group]
Row == [rec: Rec, data: Data]

ASSUME PagesAssumption ==
  /\ MaxRec \in Nat /\ MaxClicks \in Nat /\ MaxEvents \in Nat
  /\ \A e \in Entries : e.amount \in Int
  /\ {Nothing, Gone} \cap Data = {} /\ Nothing # Gone

VARIABLES
  created,    \* record ids minted
  clicks,     \* submits and deletes so far; the group a transfer gets
  working,    \* working[r]: the decrypted row, or Nothing
  envelopes,  \* envelopes[r]: the cached copy of the server's row, or Nothing
  outbox,     \* saved rows waiting to be pushed, oldest first
  notes,      \* records with a 'delete:' entry in meta
  server,     \* server[r]: its row, Gone once tombstoned, Nothing before
  unseen,     \* records that changed on the server since the device's cursor
  rows,       \* the list the page shows
  form,       \* the open form: the record it edits, 0 for none, or Nothing
  flow,       \* flow[f]: a handler in progress
  remote, reloads,
  overlapped  \* history: the last reload of the list to begin found another in progress

tables == <<working, envelopes, outbox, notes>>
cloud == <<server, unseen, remote>>
page == <<rows, form, reloads, overlapped>>
vars == <<created, clicks, working, envelopes, outbox, notes, server, unseen, rows, form, flow,
          remote, reloads, overlapped>>

\* plan: the saves or deletes still to do, in order; half: the one begun.
\* at: how far a reload has come; got: the cached rows it has read, and then
\* the list it is about to show.
Step == [rec: Rec, data: Data]
FlowState ==
  [kind: {"idle", "save", "delete", "load"}, plan: Seq(Step), half: BOOLEAN,
   at: {"flush", "decrypt", "show"}, got: SUBSET Row]
Stage(kind, plan, at, got) == [kind |-> kind, plan |-> plan, half |-> FALSE, at |-> at, got |-> got]
Idle == Stage("idle", <<>>, "flush", {})
Loading == Stage("load", <<>>, "flush", {})

Empty == [r \in Rec |-> Nothing]

Init ==
  /\ created = 0 /\ clicks = 0
  /\ working = Empty /\ envelopes = Empty /\ outbox = <<>> /\ notes = {}
  /\ server = Empty /\ unseen = {} /\ rows = {} /\ form = Nothing
  /\ flow = [f \in Flow |-> Idle]
  /\ remote = 0 /\ reloads = 0 /\ overlapped = FALSE

Live(table) == {[rec |-> r, data |-> table[r]] : r \in {q \in Rec : table[q] \notin {Nothing, Gone}}}
Click == clicks < MaxClicks /\ clicks' = clicks + 1
Becomes(f, state) == flow' = [flow EXCEPT ![f] = state]

-----------------------------------------------------------------------------
(* The form. *)

Form(target) ==
  /\ form' = target
  /\ UNCHANGED <<created, clicks, rows, flow, reloads, overlapped>>
  /\ UNCHANGED tables /\ UNCHANGED cloud

\* The buttons stay enabled: an open form can be turned to another record.
OpenNew == form = Nothing /\ Form(0)
OpenEdit == \E row \in rows : Form(row.rec)
Cancel == form # Nothing /\ Form(Nothing)

Typed(e, amount, g) == [amount |-> amount, category |-> e.category, month |-> e.month, group |-> g]
Abs(n) == IF n < 0 THEN -n ELSE n

\* submit: the rows it saves under fresh ids, the legs of a transfer in a
\* fresh group,
FormRows(e, transfer) ==
  IF transfer THEN <<Typed(e, -Abs(e.amount), clicks + 1), Typed(e, Abs(e.amount), clicks + 1)>>
  ELSE <<Typed(e, e.amount, 0)>>

\* and then props.onSubmit has onSave save what was typed once more, over the
\* record being edited or under a fresh id,
PlanWith(e, transfer, group) ==
  LET first == FormRows(e, transfer)
      n == Len(first)
  IN [k \in 1..(n + 1) |->
        IF k <= n THEN [rec |-> created + k, data |-> first[k]]
        ELSE [rec |-> IF form = 0 THEN created + k ELSE form, data |-> Typed(e, e.amount, group)]]

\* Faulty variant: an edited leg keeps its group.
SubmitPlanKeepingGroup(e, transfer) ==
  PlanWith(e, transfer, IF form # 0 /\ working[form] # Nothing THEN working[form].group ELSE 0)

\* in no group.
SubmitPlan(e, transfer) == PlanWith(e, transfer, 0)

\* The records a plan creates: all but the one the form edits.
Fresh(plan) == {plan[k].rec : k \in DOMAIN plan} \ {form}

\* The form stays open, and can be submitted again, until the saves are done.
Submit(f, e, transfer) ==
  /\ form # Nothing /\ flow[f] = Idle /\ Click
  /\ LET plan == SubmitPlan(e, transfer)
     IN /\ created' = created + Cardinality(Fresh(plan)) /\ created' <= MaxRec
        /\ Becomes(f, Stage("save", plan, "flush", {}))
  /\ UNCHANGED page /\ UNCHANGED tables /\ UNCHANGED cloud

-----------------------------------------------------------------------------
(* The handlers, await by await. *)

Doing(f, kind) == flow[f].kind = kind /\ flow[f].plan # <<>>
Head1(f) == Head(flow[f].plan)
HalfDone(f) == Becomes(f, [flow[f] EXCEPT !.half = TRUE])
Done(f) == Becomes(f, [flow[f] EXCEPT !.half = FALSE, !.plan = Tail(@)])

\* saveRecord: the working row,
PutWorking(f) ==
  /\ Doing(f, "save") /\ ~flow[f].half
  /\ working' = [working EXCEPT ![Head1(f).rec] = Head1(f).data]
  /\ HalfDone(f)
  /\ UNCHANGED <<created, clicks, envelopes, outbox, notes>> /\ UNCHANGED page /\ UNCHANGED cloud

\* and the outbox row.
Enqueue(f) ==
  /\ Doing(f, "save") /\ flow[f].half
  /\ outbox' = Append(outbox, Head1(f))
  /\ Done(f)
  /\ UNCHANGED <<created, clicks, working, envelopes, notes>> /\ UNCHANGED page /\ UNCHANGED cloud

\* The delete button: the row, and the other leg if the list as it is now shows it.
Partners(row) ==
  {q \in rows : row.data.group # 0 /\ q.rec # row.rec /\ q.data.group = row.data.group}

Delete(f, row) ==
  /\ flow[f] = Idle /\ Click
  /\ \E plan \in IF Partners(row) = {} THEN {<<row>>} ELSE {<<row, q>> : q \in Partners(row)} :
       Becomes(f, Stage("delete", plan, "flush", {}))
  /\ UNCHANGED created /\ UNCHANGED page /\ UNCHANGED tables /\ UNCHANGED cloud

\* deleteRecord: the cached copy and the working row,
Drop(f) ==
  /\ Doing(f, "delete") /\ ~flow[f].half
  /\ envelopes' = [envelopes EXCEPT ![Head1(f).rec] = Nothing]
  /\ working' = [working EXCEPT ![Head1(f).rec] = Nothing]
  /\ HalfDone(f)
  /\ UNCHANGED <<created, clicks, outbox, notes>> /\ UNCHANGED page /\ UNCHANGED cloud

\* and the note for the server.
Note(f) ==
  /\ Doing(f, "delete") /\ flow[f].half
  /\ notes' = notes \cup {Head1(f).rec}
  /\ Done(f)
  /\ UNCHANGED <<created, clicks, working, envelopes, outbox>> /\ UNCHANGED page /\ UNCHANGED cloud

\* After its saves or deletes a handler reloads the list; a save closes the form.
Finish(f) ==
  /\ flow[f].kind \in {"save", "delete"} /\ flow[f].plan = <<>>
  /\ form' = IF flow[f].kind = "save" THEN Nothing ELSE form
  /\ Becomes(f, Loading)
  /\ overlapped' = \E g \in Flow : flow[g].kind = "load"
  /\ UNCHANGED <<created, clicks, rows, reloads>> /\ UNCHANGED tables /\ UNCHANGED cloud

Reloading(f, at) == flow[f].kind = "load" /\ flow[f].at = at
Comes(f, at, got) == Becomes(f, Stage("load", <<>>, at, got))

\* loadWorking: what is cached, read after its flush succeeded or failed,
Read(f) ==
  /\ Reloading(f, "flush") /\ Comes(f, "decrypt", Live(envelopes))
  /\ UNCHANGED <<created, clicks>> /\ UNCHANGED page /\ UNCHANGED tables /\ UNCHANGED cloud

Decrypted(f) ==
  [r \in Rec |-> LET mine == {row \in flow[f].got : row.rec = r}
                 IN IF mine = {} THEN working[r] ELSE (CHOOSE row \in mine : TRUE).data]

\* Faulty variant: only what the server has confirmed is listed.
ListedFromCache(f) == flow[f].got

\* is decrypted into the working set; rows that are only there are listed too.
Listed(f) == Live(Decrypted(f))

Collect(f) ==
  /\ Reloading(f, "decrypt")
  /\ working' = Decrypted(f) /\ Comes(f, "show", Listed(f))
  /\ UNCHANGED <<created, clicks, envelopes, outbox, notes>> /\ UNCHANGED page /\ UNCHANGED cloud

\* The list is shown once the accounts, loaded after it, are there.
Show(f) ==
  /\ Reloading(f, "show")
  /\ rows' = flow[f].got /\ Becomes(f, Idle)
  /\ UNCHANGED <<created, clicks, form, reloads, overlapped>>
  /\ UNCHANGED tables /\ UNCHANGED cloud

\* The page is reloaded: its handlers end where they are, and the list is read.
Reload ==
  /\ remote + reloads < MaxEvents /\ reloads' = reloads + 1
  /\ \E f \in Flow : flow' = [[g \in Flow |-> Idle] EXCEPT ![f] = Loading]
  /\ rows' = {} /\ form' = Nothing /\ overlapped' = FALSE
  /\ UNCHANGED <<created, clicks>> /\ UNCHANGED tables /\ UNCHANGED cloud

-----------------------------------------------------------------------------
(* The sync, as one step. *)

Queued == {outbox[k].rec : k \in DOMAIN outbox}
Last(r) == LET k == CHOOSE k \in DOMAIN outbox :
                      outbox[k].rec = r /\ \A j \in DOMAIN outbox : outbox[j].rec = r => j <= k
           IN outbox[k].data

\* The newest queued version of each record; nothing revives a tombstone.
Pushed == [r \in Rec |-> IF r \in Queued /\ server[r] # Gone THEN Last(r) ELSE server[r]]

\* Faulty variant: a tombstone is kept as a row.
MergedWithTombstones(table, changed, skipped) ==
  [r \in Rec |-> IF r \in changed \ skipped THEN table[r] ELSE envelopes[r]]

\* Changed rows are merged; one whose timestamp is of the same second as the
\* cached copy's may be skipped.
Merged(table, changed, skipped) ==
  [r \in Rec |-> IF r \in changed /\ table[r] = Gone THEN Nothing
                 ELSE IF r \in changed \ skipped THEN table[r] ELSE envelopes[r]]

\* Push, pull, and, if anything was pushed, the deletes; a note stays.
Flush ==
  LET due == unseen \cup {r \in Rec : Pushed[r] # server[r]}
      dying == IF outbox = <<>> THEN {} ELSE {r \in notes : Pushed[r] \notin {Nothing, Gone}}
  IN /\ server' = [r \in Rec |-> IF r \in dying THEN Gone ELSE Pushed[r]]
     /\ unseen' = dying
     /\ \E skipped \in SUBSET {r \in due : envelopes[r] # Nothing} :
          envelopes' = Merged(Pushed, due, skipped)
     /\ working' = [r \in Rec |-> IF r \in due /\ Pushed[r] = Gone THEN Nothing ELSE working[r]]
     /\ outbox' = <<>>
     /\ UNCHANGED <<created, clicks, notes, rows, form, flow, reloads, remote, overlapped>>

\* Another device deletes what it has pulled.
RemoteDelete ==
  /\ remote + reloads < MaxEvents /\ remote' = remote + 1
  /\ \E r \in Rec :
       /\ server[r] \notin {Nothing, Gone}
       /\ server' = [server EXCEPT ![r] = Gone] /\ unseen' = unseen \cup {r}
  /\ UNCHANGED <<created, clicks, flow>> /\ UNCHANGED page /\ UNCHANGED tables

-----------------------------------------------------------------------------

Handler(f) ==
  \/ PutWorking(f) \/ Enqueue(f) \/ Drop(f) \/ Note(f) \/ Finish(f)
  \/ Read(f) \/ Collect(f) \/ Show(f)

Next ==
  \/ OpenNew \/ OpenEdit \/ Cancel \/ Reload
  \/ \E f \in Flow :
       \/ \E e \in Entries, transfer \in BOOLEAN : Submit(f, e, transfer)
       \/ \E row \in rows : Delete(f, row)
       \/ Handler(f)
  \/ Flush \/ RemoteDelete

Spec == Init /\ [][Next]_vars

-----------------------------------------------------------------------------
(* Properties. *)

\* Every variable has its type.
TypeOK ==
  /\ created \in 0..MaxRec /\ clicks \in 0..MaxClicks
  /\ working \in [Rec -> Data \cup {Nothing}] /\ envelopes \in [Rec -> Data \cup {Nothing}]
  /\ outbox \in Seq(Row) /\ notes \subseteq Rec
  /\ server \in [Rec -> Data \cup {Nothing, Gone}] /\ unseen \subseteq Rec
  /\ rows \subseteq Row /\ form \in {0, Nothing} \cup Rec
  /\ flow \in [Flow -> FlowState]
  /\ remote \in Nat /\ reloads \in Nat /\ remote + reloads <= MaxEvents /\ overlapped \in BOOLEAN

Everywhere ==
  rows \cup Live(working) \cup Live(envelopes) \cup Live(server)
    \cup {outbox[k] : k \in DOMAIN outbox}

LegsIn(copies) ==
  \A p, q \in copies :
    (p.data.group = q.data.group /\ p.data.group # 0) =>
      IF p.rec = q.rec THEN p = q
      ELSE p.data.amount = -q.data.amount
           /\ \A x \in copies : x.data.group = p.data.group => x.rec \in {p.rec, q.rec}

\* A transfer moves what it takes (TransactionForm.submit, onSave): wherever
\* rows of one group are kept or shown, they are at most two, of opposite
\* amounts, however they were edited, pushed, reloaded or half deleted.
LegsAreOpposite == LegsIn(Everywhere)

\* When no handler is in progress and the last reload overlapped no other, the
\* page lists every row of the working set as it stands there, the last edit
\* of each, what was saved offline included (loadWorking, onSave).
QuietPageListsAll ==
  (~overlapped /\ \A f \in Flow : flow[f] = Idle) => Live(working) \subseteq rows

\* Whatever was saved, edited and deleted so far, the summaries of the listed
\* rows agree with each other and with the amounts (monthlyTotals,
\* byCategoryMonth),
SummariesAddUp == TotalsAgree(rows)

\* and so do the budgets, also when a category is typed as the empty one is
\* shown (budgetStatus, byCategoryMonth).
BudgetsFollowCategories == BudgetsAgree(rows)

\* The header of TransactionsPage.tsx: transfers create two linked rows.
TransferSavesTwoRows ==
  [][\A f \in Flow, e \in Entries : Submit(f, e, TRUE) => created' = created + 2]_vars

\* store.ts: rows saved and not yet in envelopes are surfaced too: once nothing
\* is in progress none is missing, whichever of several reloads ended last.
SavedRowsAreSurfaced ==
  (\A f \in Flow : flow[f] = Idle) =>
    \A r \in Rec : working[r] # Nothing => \E row \in rows : row.rec = r

\* The same comment, of edits: what is saved and not yet pushed is what a page
\* at rest lists, not the older version that is cached.
QueuedEditsAreSurfaced ==
  (~overlapped /\ \A f \in Flow : flow[f] = Idle) =>
    \A r \in Queued \ notes : [rec |-> r, data |-> Last(r)] \in rows

\* TransactionsPage.tsx: both legs share transfer_group, deleting one flags the
\* pair: while the legs of a transfer are still queued, once one is deleted
\* and nothing is in progress the other is gone too.
DeletingTakesThePair ==
  (\A f \in Flow : flow[f] = Idle) =>
    \A p, q \in {outbox[k] : k \in DOMAIN outbox} :
      (p.data.group = q.data.group /\ p.data.group # 0 /\ p.rec \in notes) => working[q.rec] = Nothing
=============================================================================

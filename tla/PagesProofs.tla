------------------------------ MODULE PagesProofs ------------------------------
(***************************************************************************)
(* Proofs about Pages, for any number of records, handlers and clicks.     *)
(* The core of the first part: a step only moves copies of rows about,     *)
(* except for a submit, which adds at most two rows of a group of its own. *)
(* The core of the second: what is in the working set is on the page, in a *)
(* list about to be shown, or waited for by a handler that will list it.   *)
(* The third takes what SummariesProofs says of a list to what is shown.   *)
(***************************************************************************)
EXTENDS Pages, SummariesProofs, SequenceTheorems

Held(f) == {flow[f].plan[k] : k \in DOMAIN flow[f].plan} \cup flow[f].got

\* Every copy of a row, those in the hands of a handler included.
Copies == Everywhere \cup UNION {Held(f) : f \in Flow}

\* Records and groups are numbered as they are minted.
CopiesAreNumbered == \A p \in Copies : p.rec <= created /\ p.data.group <= clicks
FormIsNumbered == form # Nothing => form \in 0..created

\* The inductive invariant of the copies.
CopiesInv == TypeOK /\ LegsIn(Copies) /\ CopiesAreNumbered /\ FormIsNumbered

Loads == {f \in Flow : flow[f].kind = "load"}
Busy == \E f \in Flow : flow[f].kind \in {"save", "delete"}
IsIn(r, list) == [rec |-> r, data |-> working[r]] \in list

\* A handler will list the row, or the only reload has, or the page shows it.
Surfaces(r) ==
  \/ Busy
  \/ IF Loads = {} THEN IsIn(r, rows)
     ELSE \A f \in Loads : flow[f].at = "show" => IsIn(r, flow[f].got)

\* The inductive invariant of the list.
ListInv ==
  ~overlapped =>
    /\ \A f, g \in Loads : f = g
    /\ \A r \in Rec : working[r] # Nothing => Surfaces(r)

-----------------------------------------------------------------------------
(* Copies of rows.                                                         *)

LEMMA LiveType ==
  ASSUME NEW table, table \in [Rec -> Data \cup {Nothing, Gone}]
  PROVE  Live(table) \subseteq Row
  BY DEF Live, Row

LEMMA HeldType ==
  ASSUME TypeOK, NEW f \in Flow
  PROVE  /\ flow[f] \in FlowState /\ flow[f].plan \in Seq(Row)
         /\ Held(f) \subseteq Row
  <1>1. flow[f] \in FlowState /\ flow[f].plan \in Seq(Row) /\ flow[f].got \subseteq Row
    BY DEF TypeOK, FlowState, Step, Row
  <1>2. \A k \in DOMAIN flow[f].plan : flow[f].plan[k] \in Row
    BY <1>1, LenProperties, ElementOfSeq
  <1> QED
    BY <1>1, <1>2 DEF Held

LEMMA CopiesType == TypeOK => Copies \subseteq Row
  <1> SUFFICES ASSUME TypeOK PROVE Copies \subseteq Row
    OBVIOUS
  <1>1. Live(working) \subseteq Row /\ Live(envelopes) \subseteq Row /\ Live(server) \subseteq Row
    <2>1. /\ working \in [Rec -> Data \cup {Nothing, Gone}]
          /\ envelopes \in [Rec -> Data \cup {Nothing, Gone}]
          /\ server \in [Rec -> Data \cup {Nothing, Gone}]
      BY DEF TypeOK
    <2> QED
      BY <2>1, LiveType
  <1>2. \A k \in DOMAIN outbox : outbox[k] \in Row
    <2>1. outbox \in Seq(Row)
      BY DEF TypeOK
    <2> QED
      BY <2>1, LenProperties, ElementOfSeq
  <1> QED
    BY <1>1, <1>2, HeldType DEF Copies, Everywhere, TypeOK

\* A step that only moves copies about keeps the invariant.
LEMMA MovingKeepsCopies ==
  ASSUME CopiesInv, TypeOK', Copies' \subseteq Copies, FormIsNumbered',
         created' = created, clicks <= clicks'
  PROVE  CopiesInv'
  <1>1. clicks \in Nat /\ clicks' \in Nat /\ \A p \in Copies : p.data.group <= clicks'
    <2>1. \A p \in Copies : p \in Row
      BY CopiesType DEF CopiesInv
    <2> QED
      BY <2>1, PagesAssumption DEF CopiesInv, TypeOK, CopiesAreNumbered, Row, Data, Group
  <1>2. LegsIn(Copies)'
    BY DEF CopiesInv, LegsIn
  <1>3. CopiesAreNumbered'
    BY <1>1 DEF CopiesInv, CopiesAreNumbered
  <1> QED
    BY <1>2, <1>3 DEF CopiesInv

LEMMA LiveIsRow ==
  ASSUME NEW table, NEW x \in Live(table)
  PROVE  /\ x.rec \in Rec /\ table[x.rec] \notin {Nothing, Gone}
         /\ x = [rec |-> x.rec, data |-> table[x.rec]]
  BY DEF Live

LEMMA TableRow ==
  ASSUME NEW table, NEW r \in Rec, table[r] \notin {Nothing, Gone}
  PROVE  [rec |-> r, data |-> table[r]] \in Live(table)
  BY DEF Live

\* Rows of a table made of those of two others are theirs.
LEMMA LiveOfBoth ==
  ASSUME NEW old, NEW table, NEW S, Live(old) \subseteq S,
         \A r \in Rec : table[r] \notin {Nothing, Gone} =>
           table[r] = old[r] \/ [rec |-> r, data |-> table[r]] \in S
  PROVE  Live(table) \subseteq S
  <1> SUFFICES ASSUME NEW x \in Live(table) PROVE x \in S
    OBVIOUS
  <1>1. x.rec \in Rec /\ table[x.rec] \notin {Nothing, Gone}
        /\ x = [rec |-> x.rec, data |-> table[x.rec]]
    BY LiveIsRow
  <1>2. CASE table[x.rec] = old[x.rec]
    <2>1. [rec |-> x.rec, data |-> old[x.rec]] \in Live(old)
      BY <1>1, <1>2, TableRow
    <2> QED
      BY <1>1, <1>2, <2>1
  <1> QED
    BY <1>1, <1>2

\* The copies by where they are.
LEMMA CopiesAre ==
  /\ rows \subseteq Copies /\ Live(working) \subseteq Copies
  /\ Live(envelopes) \subseteq Copies /\ Live(server) \subseteq Copies
  /\ \A k \in DOMAIN outbox : outbox[k] \in Copies
  /\ \A f \in Flow : Held(f) \subseteq Copies
  BY DEF Copies, Everywhere

LEMMA CopiesWithin ==
  ASSUME rows' \subseteq Copies, Live(working') \subseteq Copies,
         Live(envelopes') \subseteq Copies, Live(server') \subseteq Copies,
         \A k \in DOMAIN outbox' : outbox'[k] \in Copies,
         \A f \in Flow : Held(f)' \subseteq Copies
  PROVE  Copies' \subseteq Copies
  BY DEF Copies, Everywhere, Live

\* A step of one handler leaves what the others hold.
LEMMA BecomesHeld ==
  ASSUME TypeOK, NEW f \in Flow, NEW state, Becomes(f, state)
  PROVE  /\ flow'[f] = state
         /\ \A g \in Flow : g # f => flow'[g] = flow[g] /\ Held(g)' = Held(g)
         /\ Held(f)' = {state.plan[k] : k \in DOMAIN state.plan} \cup state.got
         /\ state \in FlowState => flow' \in [Flow -> FlowState]
  BY DEF TypeOK, Becomes, Held

LEMMA StageType ==
  ASSUME NEW kind \in {"idle", "save", "delete", "load"}, NEW plan \in Seq(Row),
         NEW at \in {"flush", "decrypt", "show"}, NEW got \in SUBSET Row
  PROVE  /\ Stage(kind, plan, at, got) \in FlowState
         /\ Stage(kind, plan, at, got).kind = kind /\ Stage(kind, plan, at, got).plan = plan
         /\ Stage(kind, plan, at, got).at = at /\ Stage(kind, plan, at, got).got = got
  BY DEF Stage, FlowState, Step, Row

LEMMA EmptyPlan == <<>> \in Seq(Row) /\ DOMAIN <<>> = {}
  BY EmptySeq

LEMMA IdleType ==
  /\ Idle \in FlowState /\ Loading \in FlowState
  /\ Idle.plan = <<>> /\ Idle.got = {} /\ Idle.kind = "idle"
  /\ Loading.plan = <<>> /\ Loading.got = {} /\ Loading.kind = "load" /\ Loading.at = "flush"
  <1> DEFINE none == <<>>
             idle == Stage("idle", none, "flush", {})
             loading == Stage("load", none, "flush", {})
  <1>1. none \in Seq(Row) /\ {} \in SUBSET Row
    BY EmptyPlan
  <1> HIDE DEF none
  <1>2. /\ idle \in FlowState /\ idle.plan = none /\ idle.got = {} /\ idle.kind = "idle"
        /\ loading \in FlowState /\ loading.plan = none /\ loading.got = {}
        /\ loading.kind = "load" /\ loading.at = "flush"
    BY <1>1, StageType
  <1> HIDE DEF idle, loading
  <1>3. Idle = idle /\ Loading = loading
    BY Zenon DEF Idle, Loading, idle, loading, none
  <1> QED
    BY <1>2, <1>3, Zenon DEF none

LEMMA HeadIsHeld ==
  ASSUME TypeOK, NEW f \in Flow, flow[f].plan # <<>>
  PROVE  /\ Head1(f) \in Row /\ Head1(f).rec \in Rec /\ Head1(f).data \in Data
         /\ Head1(f) = [rec |-> Head1(f).rec, data |-> Head1(f).data]
         /\ Head1(f) \in Held(f)
         /\ Tail(flow[f].plan) \in Seq(Row)
         /\ \A k \in DOMAIN Tail(flow[f].plan) : Tail(flow[f].plan)[k] \in Held(f)
  <1> DEFINE p == flow[f].plan
  <1>1. p \in Seq(Row)
    BY HeldType
  <1>2. /\ Len(p) \in Nat /\ Len(p) # 0 /\ DOMAIN p = 1..Len(p)
        /\ Head(p) \in Row /\ Tail(p) \in Seq(Row)
        /\ Len(Tail(p)) = Len(p) - 1 /\ \A i \in 1..Len(Tail(p)) : Tail(p)[i] = p[i + 1]
    BY <1>1, LenProperties, EmptySeq, HeadTailProperties
  <1>3. DOMAIN Tail(p) = 1..Len(Tail(p))
    BY <1>2, LenProperties
  <1>4. Head(p) = p[1] /\ 1 \in DOMAIN p
    BY <1>1, <1>2
  <1>5. \A k \in DOMAIN p : p[k] \in Held(f)
    BY DEF Held
  <1>6. \A k \in DOMAIN Tail(p) : Tail(p)[k] \in Held(f)
    <2> SUFFICES ASSUME NEW k \in DOMAIN Tail(p) PROVE Tail(p)[k] \in Held(f)
      OBVIOUS
    <2>1. k + 1 \in DOMAIN p /\ Tail(p)[k] = p[k + 1]
      BY <1>2, <1>3
    <2> QED
      BY <1>5, <2>1
  <1> QED
    BY <1>2, <1>4, <1>5, <1>6 DEF Head1, Row

\* What a handler in progress does next leaves it less to do.
LEMMA DoneHeld ==
  ASSUME TypeOK, NEW f \in Flow, flow[f].plan # <<>>, HalfDone(f) \/ Done(f)
  PROVE  /\ flow' \in [Flow -> FlowState]
         /\ \A g \in Flow : Held(g)' \subseteq Held(g) /\ flow'[g].kind = flow[g].kind
         /\ \A g \in Flow : g # f => flow'[g] = flow[g]
  <1> DEFINE half == [flow[f] EXCEPT !.half = TRUE]
             done == [flow[f] EXCEPT !.half = FALSE, !.plan = Tail(@)]
  <1>1. flow[f] \in FlowState
    BY HeldType
  <1>2. /\ half \in FlowState /\ half.plan = flow[f].plan /\ half.got = flow[f].got
        /\ half.kind = flow[f].kind
    BY <1>1 DEF FlowState
  <1>3. /\ done \in FlowState /\ done.plan = Tail(flow[f].plan) /\ done.got = flow[f].got
        /\ done.kind = flow[f].kind
    BY <1>1, HeadIsHeld DEF FlowState, Step, Row
  <1>4. flow[f].got \subseteq Held(f) /\ \A k \in DOMAIN flow[f].plan : flow[f].plan[k] \in Held(f)
    BY DEF Held
  <1> HIDE DEF half, done
  <1>5. CASE Becomes(f, half)
    BY <1>2, <1>4, <1>5, BecomesHeld
  <1>6. CASE Becomes(f, done)
    <2>1. /\ flow'[f] = done /\ flow' \in [Flow -> FlowState]
          /\ \A g \in Flow : g # f => flow'[g] = flow[g] /\ Held(g)' = Held(g)
          /\ Held(f)' = {done.plan[k] : k \in DOMAIN done.plan} \cup done.got
      BY <1>3, <1>6, BecomesHeld
    <2>2. \A k \in DOMAIN done.plan : done.plan[k] \in Held(f)
      BY <1>3, HeadIsHeld
    <2>3. Held(f)' \subseteq Held(f)
      BY <1>3, <1>4, <2>1, <2>2
    <2> QED
      BY <1>3, <2>1, <2>3
  <1> QED
    BY <1>5, <1>6 DEF HalfDone, Done, half, done

-----------------------------------------------------------------------------
(* The form.                                                               *)

LEMMA StepType ==
  ASSUME TypeOK
  PROVE  /\ MaxRec \in Nat /\ MaxClicks \in Nat /\ created \in 0..MaxRec /\ clicks \in 0..MaxClicks
         /\ created \in Nat /\ clicks \in Nat
         /\ Rec = 1..MaxRec /\ \A r \in Rec : r \in Nat /\ r # 0
         /\ \A row \in rows : row.rec \in Rec
  BY PagesAssumption DEF TypeOK, Rec, Row

LEMMA FormKeepsCopies ==
  ASSUME CopiesInv, NEW target, Form(target),
         target \in {0, Nothing} \/ \E row \in rows : target = row.rec
  PROVE  CopiesInv'
  <1>1. UNCHANGED <<created, clicks, working, envelopes, outbox, notes, server, unseen, rows,
                    flow, remote, reloads, overlapped>>
        /\ form' = target
    BY DEF Form, tables, cloud
  <1>2. \A row \in rows : row.rec <= created /\ row.rec \in Rec
    BY CopiesAre, StepType DEF CopiesInv, CopiesAreNumbered
  <1>3. TypeOK'
    BY <1>1, <1>2 DEF CopiesInv, TypeOK
  <1>4. FormIsNumbered'
    BY <1>1, <1>2, StepType DEF CopiesInv, FormIsNumbered
  <1>5. Copies' = Copies
    BY <1>1 DEF Copies, Everywhere, Live, Held
  <1> QED
    BY <1>1, <1>3, <1>4, <1>5, StepType, MovingKeepsCopies DEF CopiesInv

\* The rows a submit saves: one or two under fresh ids, and one more.
LEMMA FormRowsAre ==
  ASSUME TypeOK, clicks < MaxClicks, NEW e \in Entries, NEW transfer \in BOOLEAN
  PROVE  LET first == FormRows(e, transfer)
         IN /\ Len(first) \in {1, 2} /\ DOMAIN first = 1..Len(first)
            /\ \A k \in DOMAIN first : first[k] \in Data /\ first[k].group \in {0, clicks + 1}
            /\ Len(first) = 1 => first[1].group = 0
            /\ Len(first) = 2 => first[1].amount = -first[2].amount /\ first[2].amount = -first[1].amount
  <1>1. e.amount \in Int /\ Abs(e.amount) \in Int
    BY PagesAssumption DEF Abs
  <1>2. clicks + 1 \in Group /\ 0 \in Group
    BY StepType DEF Group
  <1>3. \A a \in Int, g \in Group :
          Typed(e, a, g) \in Data /\ Typed(e, a, g).amount = a /\ Typed(e, a, g).group = g
    BY DEF Typed, Data
  <1>4. CASE transfer
    <2>1. FormRows(e, transfer) =
            <<Typed(e, -Abs(e.amount), clicks + 1), Typed(e, Abs(e.amount), clicks + 1)>>
      BY <1>4 DEF FormRows
    <2>2. -Abs(e.amount) \in Int
      BY <1>1
    <2> QED
      BY <1>1, <1>2, <1>3, <2>1, <2>2
  <1>5. CASE ~transfer
    <2>1. FormRows(e, transfer) = <<Typed(e, e.amount, 0)>>
      BY <1>5 DEF FormRows
    <2> QED
      BY <1>1, <1>2, <1>3, <2>1
  <1> QED
    BY <1>4, <1>5

\* A submit adds rows under the next ids, its legs in the next group.
LEMMA PlanIs ==
  ASSUME TypeOK, FormIsNumbered, form # Nothing, clicks < MaxClicks,
         NEW e \in Entries, NEW transfer \in BOOLEAN, NEW plan,
         plan = SubmitPlan(e, transfer), created + Cardinality(Fresh(plan)) <= MaxRec
  PROVE  /\ created + Cardinality(Fresh(plan)) \in Nat
         /\ created <= created + Cardinality(Fresh(plan))
         /\ plan \in Seq(Row)
         /\ \A k \in DOMAIN plan : plan[k] \in Row
              /\ plan[k].rec <= created + Cardinality(Fresh(plan))
              /\ plan[k].data.group \in {0, clicks + 1}
         /\ \A j, k \in DOMAIN plan :
              plan[j].data.group # 0 /\ plan[k].data.group # 0 =>
                /\ j \in {1, 2} /\ k \in {1, 2}
                /\ plan[1].rec # plan[2].rec
                /\ j # k => plan[j].data.amount = -plan[k].data.amount
  <1> DEFINE fresh == Fresh(plan)
             first == FormRows(e, transfer)
             n == Len(first)
             m == IF form = 0 THEN n + 1 ELSE n
             last == Typed(e, e.amount, 0)
             target == IF form = 0 THEN created + (n + 1) ELSE form
  <1>1. /\ n \in {1, 2} /\ DOMAIN first = 1..n
        /\ \A k \in 1..n : first[k] \in Data /\ first[k].group \in {0, clicks + 1}
        /\ n = 1 => first[1].group = 0
        /\ n = 2 => first[1].amount = -first[2].amount /\ first[2].amount = -first[1].amount
    BY FormRowsAre
  <1>2. last \in Data /\ last.group = 0
    BY PagesAssumption, StepType DEF Typed, Data, Group
  <1>3. plan = [k \in 1..(n + 1) |->
                  IF k <= n THEN [rec |-> created + k, data |-> first[k]]
                  ELSE [rec |-> IF form = 0 THEN created + k ELSE form, data |-> last]]
    BY DEF SubmitPlan, PlanWith
  <1>5. (form = 0 /\ m = n + 1) \/ (form # 0 /\ m = n)
    OBVIOUS
  <1>12. (form = 0 /\ target = created + (n + 1)) \/ (form # 0 /\ target = form)
    OBVIOUS
  <1> HIDE DEF first, n, last, m, target
  <1>4. /\ created \in Nat /\ MaxRec \in Nat /\ form \in 0..created
        /\ DOMAIN plan = 1..(n + 1)
        /\ \A k \in 1..n : plan[k] = [rec |-> created + k, data |-> first[k]]
        /\ plan[n + 1] = [rec |-> target, data |-> last]
    <2>1. n \in Nat /\ n + 1 \in 1..(n + 1) /\ ~(n + 1 <= n)
      BY <1>1
    <2> QED
      BY <1>1, <1>3, <2>1, StepType DEF FormIsNumbered, target
  <1>11. n \in 1..2 /\ n \in Nat /\ m \in Nat /\ m \in 1..3 /\ n <= m
    BY <1>1, <1>5
  <1>14. /\ \A k \in 1..n : plan[k].rec = created + k /\ plan[k].data = first[k]
         /\ plan[n + 1].rec = target /\ plan[n + 1].data = last
    <2>1. plan[n + 1].rec = target /\ plan[n + 1].data = last
      BY <1>4
    <2>2. ASSUME NEW k \in 1..n PROVE plan[k].rec = created + k /\ plan[k].data = first[k]
      <3>1. plan[k] = [rec |-> created + k, data |-> first[k]]
        BY <1>4
      <3> QED
        BY <3>1
    <2> QED
      BY <2>1, <2>2
  <1>15. \A k \in DOMAIN plan : k \in Nat /\ k # 0 /\ (k \in 1..n \/ k = n + 1)
    BY <1>4, <1>11
  <1>6. fresh = (created + 1)..(created + m)
    <2>1. ASSUME NEW x \in fresh PROVE x \in (created + 1)..(created + m)
      <3>1. PICK k \in DOMAIN plan : x = plan[k].rec /\ x # form
        BY <2>1 DEF Fresh
      <3>2. CASE k \in 1..n
        <4>1. x = created + k
          BY <1>14, <3>1, <3>2
        <4> QED
          BY <1>4, <1>11, <3>2, <4>1
      <3>3. CASE k = n + 1
        BY <1>4, <1>5, <1>11, <1>12, <3>1, <3>3
      <3> QED
        BY <1>4, <1>11, <3>2, <3>3
    <2>2. ASSUME NEW x \in (created + 1)..(created + m) PROVE x \in fresh
      <3>1. PICK k \in 1..m : x = created + k
        <4>1. x - created \in 1..m /\ x = created + (x - created)
          BY <1>4, <1>11, <2>2
        <4> QED
          BY <4>1
      <3>2. x # form
        BY <1>4, <1>11, <3>1
      <3>3. k \in DOMAIN plan /\ plan[k].rec = x
        <4>1. CASE k \in 1..n
          BY <1>4, <1>11, <1>14, <3>1, <4>1
        <4>2. CASE k \notin 1..n
          <5>1. k = n + 1 /\ form = 0
            BY <1>5, <1>11, <4>2
          <5> QED
            BY <1>4, <1>11, <1>12, <3>1, <5>1
        <4> QED
          BY <4>1, <4>2
      <3> QED
        BY <3>2, <3>3 DEF Fresh
    <2> QED
      BY <2>1, <2>2
  <1>7. Cardinality(fresh) = m
    <2>1. created + 1 \in Int /\ created + m \in Int /\ ~(created + 1 > created + m)
          /\ (created + m) - (created + 1) + 1 = m
      BY <1>4, <1>11, <1>5
    <2> QED
      BY <1>6, <2>1, FS_Interval
  <1>8. ASSUME NEW k \in DOMAIN plan
        PROVE  /\ plan[k] \in Row /\ plan[k].rec <= created + m
               /\ plan[k].data.group \in {0, clicks + 1}
    <2>1. CASE k \in 1..n
      <3>1. created + k \in Rec /\ created + k <= created + m
        BY <1>4, <1>11, <1>5, <1>7, <2>1, StepType
      <3>2. first[k] \in Data /\ first[k].group \in {0, clicks + 1}
        BY <1>1, <2>1
      <3>3. plan[k] = [rec |-> created + k, data |-> first[k]]
        BY <1>4, <2>1
      <3> QED
        BY <1>14, <2>1, <3>1, <3>2, <3>3 DEF Row
    <2>2. CASE k = n + 1
      <3>1. target \in Rec /\ target <= created + m
        BY <1>4, <1>5, <1>7, <1>11, <1>12, StepType
      <3> QED
        BY <1>2, <1>4, <2>2, <3>1 DEF Row
    <2> QED
      BY <1>4, <1>11, <1>5, <2>1, <2>2
  <1>9. plan \in Seq(Row)
    <2>1. n + 1 \in Nat /\ plan \in [1..(n + 1) -> Row]
      BY <1>3, <1>11, <1>5, <1>8
    <2> QED
      BY <2>1, SeqDef
  <1>10. ASSUME NEW j \in DOMAIN plan, NEW k \in DOMAIN plan,
                plan[j].data.group # 0, plan[k].data.group # 0
         PROVE  /\ j \in {1, 2} /\ k \in {1, 2}
                /\ plan[1].rec # plan[2].rec
                /\ j # k => plan[j].data.amount = -plan[k].data.amount
    <2>1. j \in 1..n /\ k \in 1..n /\ n = 2
      <3>1. \A i \in DOMAIN plan : plan[i].data.group # 0 => i \in 1..n
        BY <1>2, <1>14, <1>15
      <3>2. n # 1
        <4> SUFFICES ASSUME n = 1 PROVE FALSE
          OBVIOUS
        <4>1. j = 1
          BY <1>10, <3>1
        <4>2. plan[1].data = first[1]
          BY <1>14
        <4> QED
          BY <1>1, <1>10, <4>1, <4>2
      <3> QED
        BY <1>10, <1>11, <3>1, <3>2
    <2>2. /\ plan[1].rec = created + 1 /\ plan[1].data = first[1]
          /\ plan[2].rec = created + 2 /\ plan[2].data = first[2]
      BY <1>14, <2>1
    <2>3. j \in {1, 2} /\ k \in {1, 2} /\ plan[1].rec # plan[2].rec
      BY <1>4, <2>1, <2>2
    <2>4. first[1].amount = -first[2].amount /\ first[2].amount = -first[1].amount
      BY <1>1, <2>1
    <2>5. j # k => plan[j].data.amount = -plan[k].data.amount
      <3>1. CASE j = 1 /\ k = 2
        BY <2>2, <2>4, <3>1
      <3>2. CASE j = 2 /\ k = 1
        BY <2>2, <2>4, <3>2
      <3> QED
        BY <2>3, <3>1, <3>2
    <2> QED
      BY <2>3, <2>5
  <1>13. created + m \in Nat /\ created <= created + m
    BY <1>4, <1>11
  <1> QED
    BY <1>7, <1>8, <1>9, <1>10, <1>13

LEMMA SubmitKeepsCopies ==
  ASSUME CopiesInv, NEW f \in Flow, NEW e \in Entries, NEW transfer \in BOOLEAN,
         Submit(f, e, transfer)
  PROVE  CopiesInv'
  <1>0. PICK plan : plan = SubmitPlan(e, transfer)
    OBVIOUS
  <1> DEFINE new == {plan[k] : k \in DOMAIN plan}
             c == created + Cardinality(Fresh(plan))
  <1>1. TypeOK /\ FormIsNumbered /\ form # Nothing /\ clicks < MaxClicks /\ c <= MaxRec
    BY <1>0 DEF CopiesInv, Submit, Click
  <1>2. /\ created' = c /\ clicks' = clicks + 1 /\ clicks' \in 0..MaxClicks
        /\ Becomes(f, Stage("save", plan, "flush", {}))
        /\ UNCHANGED <<working, envelopes, outbox, notes, server, unseen, remote,
                       rows, form, reloads, overlapped>>
    BY <1>0, <1>1, StepType DEF Submit, Click, page, tables, cloud
  <1>3. /\ c \in Nat /\ created <= c /\ plan \in Seq(Row)
        /\ \A k \in DOMAIN plan : plan[k] \in Row /\ plan[k].rec <= c
                                  /\ plan[k].data.group \in {0, clicks + 1}
        /\ \A j, k \in DOMAIN plan :
             plan[j].data.group # 0 /\ plan[k].data.group # 0 =>
               /\ j \in {1, 2} /\ k \in {1, 2} /\ plan[1].rec # plan[2].rec
               /\ j # k => plan[j].data.amount = -plan[k].data.amount
    BY <1>0, <1>1, PlanIs
  <1> HIDE DEF c
  <1>4. /\ flow' \in [Flow -> FlowState] /\ Held(f)' = new
        /\ \A g \in Flow : g # f => Held(g)' = Held(g)
    <2>1. Stage("save", plan, "flush", {}) \in FlowState
          /\ Stage("save", plan, "flush", {}).plan = plan /\ Stage("save", plan, "flush", {}).got = {}
      BY <1>3, StageType
    <2> QED
      BY <1>1, <1>2, <2>1, BecomesHeld
  <1>5. TypeOK'
    <2>1. c \in 0..MaxRec
      BY <1>1, <1>3, StepType
    <2> QED
      BY <1>1, <1>2, <1>4, <2>1 DEF TypeOK
  <1>6. Copies' \subseteq Copies \cup new
    BY <1>2, <1>4 DEF Copies, Everywhere, Live
  <1>7. /\ \A p \in Copies : p \in Row /\ p.rec <= c /\ p.rec \in Nat
                             /\ p.data.group \in Nat /\ p.data.group <= clicks
        /\ \A p \in new : p.rec <= c /\ p.data.group \in {0, clicks + 1}
    <2>1. \A p \in Copies : p \in Row /\ p.rec <= created /\ p.data.group <= clicks
      BY <1>1, CopiesType DEF CopiesInv, CopiesAreNumbered
    <2>2. \A p \in Row : p.rec \in Nat /\ p.data.group \in Nat
      BY PagesAssumption DEF Row, Rec, Data, Group
    <2> QED
      BY <1>1, <1>3, <2>1, <2>2, StepType
  <1>8. CopiesAreNumbered'
    <2> SUFFICES ASSUME NEW p \in Copies' PROVE p.rec <= c /\ p.data.group <= clicks + 1
      BY <1>2 DEF CopiesAreNumbered
    <2> QED
      BY <1>1, <1>6, <1>7, StepType
  <1>9. ASSUME NEW p \in new, NEW q \in new, p.data.group # 0, q.data.group # 0
        PROVE  IF p.rec = q.rec THEN p = q
               ELSE /\ p.data.amount = -q.data.amount
                    /\ \A x \in new : x.data.group # 0 => x.rec \in {p.rec, q.rec}
    <2>1. PICK j \in DOMAIN plan : p = plan[j]
      OBVIOUS
    <2>2. PICK k \in DOMAIN plan : q = plan[k]
      OBVIOUS
    <2>3. /\ j \in {1, 2} /\ k \in {1, 2} /\ plan[1].rec # plan[2].rec
          /\ j # k => plan[j].data.amount = -plan[k].data.amount
      BY <1>3, <1>9, <2>1, <2>2
    <2>4. CASE j = k
      BY <2>1, <2>2, <2>4
    <2>5. CASE j # k
      <3>1. p.rec # q.rec /\ p.data.amount = -q.data.amount
            /\ {p.rec, q.rec} = {plan[1].rec, plan[2].rec}
        BY <2>1, <2>2, <2>3, <2>5
      <3>2. ASSUME NEW i \in DOMAIN plan, plan[i].data.group # 0 PROVE i \in {1, 2}
        BY <1>3, <3>2
      <3> QED
        BY <3>1, <3>2
    <2> QED
      BY <2>4, <2>5
  <1>10. LegsIn(Copies \cup new)
    <2> SUFFICES ASSUME NEW p \in Copies \cup new, NEW q \in Copies \cup new,
                        p.data.group = q.data.group, p.data.group # 0
                 PROVE  IF p.rec = q.rec THEN p = q
                        ELSE /\ p.data.amount = -q.data.amount
                             /\ \A x \in Copies \cup new :
                                  x.data.group = p.data.group => x.rec \in {p.rec, q.rec}
      BY DEF LegsIn
    <2>1. clicks \in Nat
      BY <1>1, StepType
    <2>2. CASE p.data.group = clicks + 1
      <3>1. \A x \in Copies \cup new : x.data.group = clicks + 1 => x \in new /\ x.data.group # 0
        BY <1>7, <2>1
      <3>2. p \in new /\ q \in new /\ p.data.group # 0 /\ q.data.group # 0
        BY <2>2, <3>1
      <3> HIDE DEF new
      <3> QED
        BY <1>9, <2>2, <3>1, <3>2
    <2>3. CASE p.data.group # clicks + 1
      <3>1. \A x \in Copies \cup new : x.data.group = p.data.group => x \in Copies
        BY <1>7, <2>3
      <3>2. p \in Copies /\ q \in Copies
        BY <3>1
      <3>3. LegsIn(Copies)
        BY DEF CopiesInv
      <3> HIDE DEF new
      <3> QED
        BY <3>1, <3>2, <3>3 DEF LegsIn
    <2> QED
      BY <2>2, <2>3
  <1>11. LegsIn(Copies)'
    <2> HIDE DEF new
    <2> QED
      BY <1>6, <1>10 DEF LegsIn
  <1>12. FormIsNumbered'
    BY <1>1, <1>2, <1>3, StepType DEF FormIsNumbered
  <1> QED
    BY <1>5, <1>8, <1>11, <1>12 DEF CopiesInv

-----------------------------------------------------------------------------
(* The handlers and the sync.                                              *)

LEMMA TableUpdate ==
  ASSUME NEW T, NEW table \in [Rec -> T], NEW r \in Rec, NEW v \in T, NEW S,
         Live(table) \subseteq S,
         v \in {Nothing, Gone} \/ [rec |-> r, data |-> v] \in S
  PROVE  [table EXCEPT ![r] = v] \in [Rec -> T] /\ Live([table EXCEPT ![r] = v]) \subseteq S
  <1>1. \A q \in Rec : [table EXCEPT ![r] = v][q] = IF q = r THEN v ELSE table[q]
    OBVIOUS
  <1> QED
    BY <1>1, LiveOfBoth

LEMMA SaveStepsKeepCopies ==
  ASSUME CopiesInv, NEW f \in Flow, PutWorking(f) \/ Enqueue(f)
  PROVE  CopiesInv'
  <1> DEFINE h == Head1(f)
  <1>1. TypeOK /\ FormIsNumbered /\ flow[f].plan # <<>>
    BY DEF CopiesInv, PutWorking, Enqueue, Doing
  <1>2. /\ h \in Row /\ h.rec \in Rec /\ h.data \in Data
        /\ h = [rec |-> h.rec, data |-> h.data] /\ h \in Copies
    BY <1>1, HeadIsHeld, CopiesAre
  <1>3. /\ flow' \in [Flow -> FlowState]
        /\ \A g \in Flow : Held(g)' \subseteq Copies
    BY <1>1, DoneHeld, CopiesAre DEF PutWorking, Enqueue
  <1>4. UNCHANGED <<created, clicks, envelopes, notes, server, unseen, remote, rows, form,
                    reloads, overlapped>>
    BY DEF PutWorking, Enqueue, page, cloud
  <1> HIDE DEF h
  <1>5. /\ working' \in [Rec -> Data \cup {Nothing}] /\ Live(working') \subseteq Copies
        /\ outbox' \in Seq(Row) /\ \A k \in DOMAIN outbox' : outbox'[k] \in Copies
    <2>1. /\ working \in [Rec -> Data \cup {Nothing}] /\ outbox \in Seq(Row)
          /\ Live(working) \subseteq Copies /\ \A k \in DOMAIN outbox : outbox[k] \in Copies
      BY <1>1, CopiesAre DEF TypeOK
    <2>2. CASE PutWorking(f)
      <3>1. working' = [working EXCEPT ![h.rec] = h.data] /\ outbox' = outbox
        BY <2>2 DEF PutWorking, h
      <3>2. h.data \in Data \cup {Nothing} /\ [rec |-> h.rec, data |-> h.data] \in Copies
        BY <1>2
      <3>3. /\ [working EXCEPT ![h.rec] = h.data] \in [Rec -> Data \cup {Nothing}]
            /\ Live([working EXCEPT ![h.rec] = h.data]) \subseteq Copies
        BY <1>2, <2>1, <3>2, TableUpdate
      <3> QED
        BY <2>1, <3>1, <3>3
    <2>3. CASE Enqueue(f)
      <3>1. outbox' = Append(outbox, h) /\ working' = working
        BY <2>3 DEF Enqueue, h
      <3>2. /\ outbox' \in Seq(Row) /\ Len(outbox') = Len(outbox) + 1 /\ Len(outbox) \in Nat
            /\ \A i \in 1..Len(outbox) : outbox'[i] = outbox[i]
            /\ outbox'[Len(outbox) + 1] = h
            /\ DOMAIN outbox = 1..Len(outbox) /\ DOMAIN outbox' = 1..(Len(outbox) + 1)
        BY <1>2, <2>1, <3>1, AppendProperties, LenProperties
      <3>3. \A k \in DOMAIN outbox' : k \in 1..Len(outbox) \/ k = Len(outbox) + 1
        BY <3>2
      <3> QED
        BY <1>2, <2>1, <3>1, <3>2, <3>3
    <2> QED
      BY <2>2, <2>3
  <1>6. Copies' \subseteq Copies
    BY <1>3, <1>4, <1>5, CopiesAre, CopiesWithin
  <1>7. TypeOK'
    BY <1>1, <1>3, <1>4, <1>5 DEF TypeOK
  <1>8. FormIsNumbered'
    BY <1>1, <1>4 DEF FormIsNumbered
  <1> QED
    BY <1>1, <1>4, <1>6, <1>7, <1>8, StepType, MovingKeepsCopies

LEMMA DeleteStepsKeepCopies ==
  ASSUME CopiesInv, NEW f \in Flow, Drop(f) \/ Note(f)
  PROVE  CopiesInv'
  <1> DEFINE h == Head1(f)
  <1>1. TypeOK /\ FormIsNumbered /\ flow[f].plan # <<>>
    BY DEF CopiesInv, Drop, Note, Doing
  <1>2. h.rec \in Rec
    BY <1>1, HeadIsHeld
  <1>3. /\ flow' \in [Flow -> FlowState]
        /\ \A g \in Flow : Held(g)' \subseteq Copies
    BY <1>1, DoneHeld, CopiesAre DEF Drop, Note
  <1>4. UNCHANGED <<created, clicks, outbox, server, unseen, remote, rows, form,
                    reloads, overlapped>>
    BY DEF Drop, Note, page, cloud
  <1> HIDE DEF h
  <1>5. /\ working' \in [Rec -> Data \cup {Nothing}] /\ Live(working') \subseteq Copies
        /\ envelopes' \in [Rec -> Data \cup {Nothing}] /\ Live(envelopes') \subseteq Copies
        /\ notes' \subseteq Rec
    <2>1. /\ working \in [Rec -> Data \cup {Nothing}] /\ envelopes \in [Rec -> Data \cup {Nothing}]
          /\ Live(working) \subseteq Copies /\ Live(envelopes) \subseteq Copies /\ notes \subseteq Rec
      BY <1>1, CopiesAre DEF TypeOK
    <2>2. CASE Drop(f)
      <3>1. /\ working' = [working EXCEPT ![h.rec] = Nothing]
            /\ envelopes' = [envelopes EXCEPT ![h.rec] = Nothing] /\ notes' = notes
        BY <2>2 DEF Drop, h
      <3>2. Nothing \in Data \cup {Nothing} /\ Nothing \in {Nothing, Gone}
        OBVIOUS
      <3>3. /\ [working EXCEPT ![h.rec] = Nothing] \in [Rec -> Data \cup {Nothing}]
            /\ Live([working EXCEPT ![h.rec] = Nothing]) \subseteq Copies
        BY <1>2, <2>1, <3>2, TableUpdate
      <3>4. /\ [envelopes EXCEPT ![h.rec] = Nothing] \in [Rec -> Data \cup {Nothing}]
            /\ Live([envelopes EXCEPT ![h.rec] = Nothing]) \subseteq Copies
        BY <1>2, <2>1, <3>2, TableUpdate
      <3> QED
        BY <2>1, <3>1, <3>3, <3>4
    <2>3. CASE Note(f)
      BY <1>2, <2>1, <2>3 DEF Note, h
    <2> QED
      BY <2>2, <2>3
  <1>6. Copies' \subseteq Copies
    BY <1>3, <1>4, <1>5, CopiesAre, CopiesWithin
  <1>7. TypeOK'
    BY <1>1, <1>3, <1>4, <1>5 DEF TypeOK
  <1>8. FormIsNumbered'
    BY <1>1, <1>4 DEF FormIsNumbered
  <1> QED
    BY <1>1, <1>4, <1>6, <1>7, <1>8, StepType, MovingKeepsCopies
\* A handler that takes over copies, and nothing else of the tables.
LEMMA TakingKeepsCopies ==
  ASSUME CopiesInv, NEW f \in Flow, NEW state \in FlowState, Becomes(f, state),
         \A k \in DOMAIN state.plan : state.plan[k] \in Copies, state.got \subseteq Copies
  PROVE  /\ flow' \in [Flow -> FlowState]
         /\ \A g \in Flow : Held(g)' \subseteq Copies
         /\ /\ UNCHANGED <<created, working, envelopes, outbox, notes, server, unseen,
                           rows, form, reloads, remote, overlapped>>
            /\ clicks <= clicks' /\ clicks' \in 0..MaxClicks
            => CopiesInv'
  <1>1. TypeOK /\ FormIsNumbered
    BY DEF CopiesInv
  <1>2. /\ flow' \in [Flow -> FlowState]
        /\ \A g \in Flow : Held(g)' \subseteq Copies
    <2>1. {state.plan[k] : k \in DOMAIN state.plan} \cup state.got \subseteq Copies
      OBVIOUS
    <2> QED
      BY <1>1, <2>1, BecomesHeld, CopiesAre
  <1>3. ASSUME UNCHANGED <<created, working, envelopes, outbox, notes, server, unseen,
                           rows, form, reloads, remote, overlapped>>,
               clicks <= clicks', clicks' \in 0..MaxClicks
        PROVE  CopiesInv'
    <2>1. TypeOK'
      BY <1>1, <1>2, <1>3 DEF TypeOK
    <2>2. FormIsNumbered'
      BY <1>1, <1>3 DEF FormIsNumbered
    <2>3. /\ Live(working') = Live(working) /\ Live(envelopes') = Live(envelopes)
          /\ Live(server') = Live(server)
      BY <1>3
    <2>4. Copies' \subseteq Copies
      BY <1>2, <1>3, <2>3, CopiesAre, CopiesWithin
    <2> QED
      BY <1>3, <2>1, <2>2, <2>4, MovingKeepsCopies
  <1> QED
    BY <1>2, <1>3

LEMMA DeleteKeepsCopies ==
  ASSUME CopiesInv, NEW f \in Flow, NEW row \in rows, Delete(f, row)
  PROVE  CopiesInv'
  <1>1. TypeOK /\ rows \subseteq Row /\ rows \subseteq Copies
    BY CopiesAre DEF CopiesInv, TypeOK
  <1>2. PICK plan \in IF Partners(row) = {} THEN {<<row>>} ELSE {<<row, q>> : q \in Partners(row)} :
          Becomes(f, Stage("delete", plan, "flush", {}))
    BY DEF Delete
  <1>3. plan \in Seq(Row) /\ \A k \in DOMAIN plan : plan[k] \in Copies
    <2>1. CASE plan = <<row>>
      BY <1>1, <2>1
    <2>2. CASE \E q \in rows : plan = <<row, q>>
      BY <1>1, <2>2
    <2>3. \A q \in Partners(row) : q \in rows
      BY DEF Partners
    <2> QED
      BY <1>2, <2>1, <2>2, <2>3
  <1> DEFINE state == Stage("delete", plan, "flush", {})
  <1>4. state \in FlowState /\ state.plan = plan /\ state.got = {}
    BY <1>3, StageType
  <1>5. /\ UNCHANGED <<created, working, envelopes, outbox, notes, server, unseen,
                        rows, form, reloads, remote, overlapped>>
        /\ clicks <= clicks' /\ clicks' \in 0..MaxClicks
    <2>1. clicks' = clicks + 1 /\ clicks < MaxClicks
      BY DEF Delete, Click
    <2> QED
      BY <1>1, <2>1, StepType DEF Delete, page, tables, cloud
  <1>6. Becomes(f, state)
    BY <1>2
  <1> HIDE DEF state
  <1> QED
    BY <1>3, <1>4, <1>5, <1>6, TakingKeepsCopies

LEMMA FinishKeepsCopies ==
  ASSUME CopiesInv, NEW f \in Flow, Finish(f)
  PROVE  CopiesInv'
  <1>1. TypeOK /\ FormIsNumbered
    BY DEF CopiesInv
  <1>2. /\ UNCHANGED <<created, clicks, working, envelopes, outbox, notes, server, unseen,
                        rows, reloads, remote>>
        /\ form' \in {Nothing, form} /\ overlapped' \in BOOLEAN /\ Becomes(f, Loading)
    BY DEF Finish, tables, cloud
  <1>3. /\ flow' \in [Flow -> FlowState]
        /\ \A g \in Flow : Held(g)' \subseteq Copies
    BY <1>2, IdleType, EmptyPlan, TakingKeepsCopies
  <1>4. TypeOK'
    BY <1>1, <1>2, <1>3 DEF TypeOK
  <1>5. FormIsNumbered'
    BY <1>1, <1>2 DEF FormIsNumbered
  <1>6. /\ Live(working') = Live(working) /\ Live(envelopes') = Live(envelopes)
        /\ Live(server') = Live(server)
    BY <1>2
  <1>7. Copies' \subseteq Copies
    BY <1>2, <1>3, <1>6, CopiesAre, CopiesWithin
  <1> QED
    BY <1>1, <1>2, <1>4, <1>5, <1>7, StepType, MovingKeepsCopies

\* A stage of a reload.
LEMMA ComesType ==
  ASSUME NEW at \in {"flush", "decrypt", "show"}, NEW got, got \subseteq Row
  PROVE  LET state == Stage("load", <<>>, at, got)
         IN /\ state \in FlowState /\ DOMAIN state.plan = {} /\ state.got = got
            /\ state.kind = "load" /\ state.at = at
  <1> DEFINE none == <<>>
             stage == Stage("load", none, at, got)
  <1>1. none \in Seq(Row) /\ DOMAIN none = {} /\ got \in SUBSET Row
    BY EmptyPlan
  <1> HIDE DEF none
  <1>2. /\ stage \in FlowState /\ stage.plan = none /\ stage.got = got
        /\ stage.kind = "load" /\ stage.at = at
    BY <1>1 DEF Stage, FlowState, Step, Row
  <1> HIDE DEF stage
  <1>3. Stage("load", <<>>, at, got) = stage
    BY Zenon DEF stage, none
  <1> QED
    BY <1>1, <1>2, <1>3, Zenon

LEMMA ReadKeepsCopies ==
  ASSUME CopiesInv, NEW f \in Flow, Read(f)
  PROVE  CopiesInv'
  <1> DEFINE state == Stage("load", <<>>, "decrypt", Live(envelopes))
  <1>1. TypeOK /\ Live(envelopes) \subseteq Copies /\ Live(envelopes) \subseteq Row
    BY CopiesAre, CopiesType DEF CopiesInv
  <1>2. state \in FlowState /\ DOMAIN state.plan = {} /\ state.got = Live(envelopes)
    BY <1>1, ComesType
  <1>3. Becomes(f, state)
    BY DEF Read, Comes
  <1>4. UNCHANGED <<created, clicks, working, envelopes, outbox, notes, server, unseen,
                    rows, form, reloads, remote, overlapped>>
    BY DEF Read, page, tables, cloud
  <1>5. clicks <= clicks' /\ clicks' \in 0..MaxClicks
    BY <1>1, <1>4, StepType
  <1> HIDE DEF state
  <1> QED
    BY <1>1, <1>2, <1>3, <1>4, <1>5, TakingKeepsCopies

\* What a reload decrypts was cached when it read the cache, or is in the working set.
LEMMA DecryptedAre ==
  ASSUME CopiesInv, NEW f \in Flow
  PROVE  /\ Decrypted(f) \in [Rec -> Data \cup {Nothing}]
         /\ Live(Decrypted(f)) \subseteq Copies
         /\ \A r \in Rec : working[r] # Nothing => Decrypted(f)[r] # Nothing
  <1>1. TypeOK /\ flow[f].got \subseteq Row /\ flow[f].got \subseteq Copies
    BY HeldType, CopiesAre DEF CopiesInv, Held
  <1>2. ASSUME NEW r \in Rec
        PROVE  \/ Decrypted(f)[r] = working[r]
               \/ /\ Decrypted(f)[r] \in Data
                  /\ [rec |-> r, data |-> Decrypted(f)[r]] \in flow[f].got
    <2> DEFINE mine == {row \in flow[f].got : row.rec = r}
    <2>1. Decrypted(f)[r] = IF mine = {} THEN working[r] ELSE (CHOOSE row \in mine : TRUE).data
      BY DEF Decrypted
    <2>2. CASE mine = {}
      BY <2>1, <2>2
    <2>3. CASE mine # {}
      <3>1. PICK row : row \in mine /\ row = CHOOSE x \in mine : TRUE
        BY <2>3
      <3>2. row \in Row /\ row.rec = r /\ row \in flow[f].got /\ Decrypted(f)[r] = row.data
        BY <1>1, <2>1, <2>3, <3>1
      <3>3. row.data \in Data /\ row = [rec |-> row.rec, data |-> row.data]
        BY <3>2 DEF Row
      <3> QED
        BY <3>2, <3>3
    <2> QED
      BY <2>2, <2>3
  <1>3. Live(working) \subseteq Copies /\ working \in [Rec -> Data \cup {Nothing}]
    BY <1>1, CopiesAre DEF TypeOK
  <1>4. Decrypted(f) \in [Rec -> Data \cup {Nothing}]
    <2>1. \A r \in Rec : Decrypted(f)[r] \in Data \cup {Nothing}
      BY <1>2, <1>3
    <2> QED
      BY <2>1 DEF Decrypted
  <1>5. Live(Decrypted(f)) \subseteq Copies
    BY <1>1, <1>2, <1>3, LiveOfBoth
  <1>6. \A r \in Rec : working[r] # Nothing => Decrypted(f)[r] # Nothing
    BY <1>2, PagesAssumption
  <1> QED
    BY <1>4, <1>5, <1>6

LEMMA CollectKeepsCopies ==
  ASSUME CopiesInv, NEW f \in Flow, Collect(f)
  PROVE  CopiesInv'
  <1> DEFINE state == Stage("load", <<>>, "show", Listed(f))
  <1>1. TypeOK /\ FormIsNumbered
    BY DEF CopiesInv
  <1>2. /\ working' \in [Rec -> Data \cup {Nothing}] /\ Live(working') \subseteq Copies
        /\ Listed(f) \subseteq Copies
    BY DecryptedAre DEF Collect, Listed
  <1>3. state \in FlowState /\ DOMAIN state.plan = {} /\ state.got = Listed(f)
    BY <1>1, <1>2, CopiesType, ComesType
  <1>4. Becomes(f, state)
    BY DEF Collect, Comes
  <1>5. UNCHANGED <<created, clicks, envelopes, outbox, notes, server, unseen,
                    rows, form, reloads, remote, overlapped>>
    BY DEF Collect, page, cloud
  <1> HIDE DEF state
  <1>6. /\ flow' \in [Flow -> FlowState]
        /\ \A g \in Flow : Held(g)' \subseteq Copies
    BY <1>2, <1>3, <1>4, TakingKeepsCopies
  <1>7. TypeOK'
    BY <1>1, <1>2, <1>5, <1>6 DEF TypeOK
  <1>8. FormIsNumbered'
    BY <1>1, <1>5 DEF FormIsNumbered
  <1>9. Live(envelopes') = Live(envelopes) /\ Live(server') = Live(server)
    BY <1>5
  <1>10. Copies' \subseteq Copies
    BY <1>2, <1>5, <1>6, <1>9, CopiesAre, CopiesWithin
  <1> QED
    BY <1>1, <1>5, <1>7, <1>8, <1>10, StepType, MovingKeepsCopies

LEMMA ShowKeepsCopies ==
  ASSUME CopiesInv, NEW f \in Flow, Show(f)
  PROVE  CopiesInv'
  <1>1. TypeOK /\ FormIsNumbered /\ flow[f].got \subseteq Copies /\ flow[f].got \subseteq Row
    BY HeldType, CopiesAre DEF CopiesInv, Held
  <1>2. /\ UNCHANGED <<created, clicks, working, envelopes, outbox, notes, server, unseen,
                        form, reloads, remote, overlapped>>
        /\ rows' = flow[f].got /\ Becomes(f, Idle)
    BY DEF Show, tables, cloud
  <1>3. /\ flow' \in [Flow -> FlowState]
        /\ \A g \in Flow : Held(g)' \subseteq Copies
    BY <1>2, IdleType, EmptyPlan, TakingKeepsCopies
  <1>4. TypeOK'
    BY <1>1, <1>2, <1>3 DEF TypeOK
  <1>5. FormIsNumbered'
    BY <1>1, <1>2 DEF FormIsNumbered
  <1>6. /\ Live(working') = Live(working) /\ Live(envelopes') = Live(envelopes)
        /\ Live(server') = Live(server)
    BY <1>2
  <1>7. Copies' \subseteq Copies
    BY <1>1, <1>2, <1>3, <1>6, CopiesAre, CopiesWithin
  <1> QED
    BY <1>1, <1>2, <1>4, <1>5, <1>7, StepType, MovingKeepsCopies

LEMMA ReloadKeepsCopies ==
  ASSUME CopiesInv, Reload
  PROVE  CopiesInv'
  <1>1. TypeOK
    BY DEF CopiesInv
  <1>2. /\ UNCHANGED <<created, clicks, working, envelopes, outbox, notes, server, unseen, remote>>
        /\ rows' = {} /\ form' = Nothing /\ overlapped' = FALSE
        /\ reloads' = reloads + 1 /\ remote + reloads < MaxEvents
    BY DEF Reload, tables, cloud
  <1>3. \A g \in Flow : flow'[g] \in {Idle, Loading}
    BY DEF Reload
  <1>4. flow' \in [Flow -> FlowState] /\ \A g \in Flow : Held(g)' = {}
    <2>1. DOMAIN flow' = Flow /\ flow' = [g \in Flow |-> flow'[g]]
      BY DEF Reload
    <2>2. \A g \in Flow : DOMAIN flow'[g].plan = {} /\ flow'[g].got = {} /\ flow'[g] \in FlowState
      BY <1>3, IdleType, EmptyPlan
    <2>3. flow' \in [Flow -> FlowState]
      BY <2>1, <2>2
    <2>4. ASSUME NEW g \in Flow PROVE Held(g)' = {}
      <3>1. DOMAIN flow'[g].plan = {} /\ flow'[g].got = {}
        BY <2>2
      <3> QED
        BY <3>1 DEF Held
    <2> QED
      BY <2>3, <2>4
  <1>5. TypeOK'
    <2>1. reloads' \in Nat /\ remote + reloads' <= MaxEvents /\ {} \subseteq Row
      BY <1>1, <1>2, PagesAssumption DEF TypeOK
    <2> QED
      BY <1>1, <1>2, <1>4, <2>1 DEF TypeOK
  <1>6. FormIsNumbered'
    BY <1>2 DEF FormIsNumbered
  <1>7. /\ Live(working') = Live(working) /\ Live(envelopes') = Live(envelopes)
        /\ Live(server') = Live(server)
    BY <1>2
  <1>8. Copies' \subseteq Copies
    BY <1>2, <1>4, <1>7, CopiesAre, CopiesWithin
  <1>9. created' = created /\ clicks <= clicks'
    BY <1>1, <1>2 DEF TypeOK
  <1> QED
    BY <1>5, <1>6, <1>8, <1>9, MovingKeepsCopies

\* The version of a queued record that a push sends is one of the outbox.
LEMMA LastIsQueued ==
  ASSUME TypeOK, NEW r \in Queued
  PROVE  /\ Last(r) \in Data
         /\ \E k \in DOMAIN outbox : outbox[k] = [rec |-> r, data |-> Last(r)]
  <1> DEFINE n == Len(outbox)
             mine == {k \in DOMAIN outbox : outbox[k].rec = r}
             T == {n - k : k \in mine}
             Newest(k) == outbox[k].rec = r /\ \A j \in DOMAIN outbox : outbox[j].rec = r => j <= k
  <1>1. outbox \in Seq(Row) /\ n \in Nat /\ DOMAIN outbox = 1..n
    BY LenProperties DEF TypeOK
  <1>2. mine # {} /\ mine \subseteq 1..n
    BY <1>1 DEF Queued
  <1>3. T \subseteq Nat /\ T # {}
    BY <1>1, <1>2
  <1>4. \E t \in T : \A u \in T : t <= u
    <2> HIDE DEF T
    <2> QED
      BY <1>3, LeastNat
  <1>5. PICK k \in mine : \A j \in mine : n - k <= n - j
    BY <1>4
  <1>6. k \in DOMAIN outbox /\ Newest(k)
    <2>1. \A j \in mine : j <= k
      BY <1>1, <1>2, <1>5
    <2> QED
      BY <2>1
  <1>7. PICK i : i \in DOMAIN outbox /\ Newest(i) /\ Last(r) = outbox[i].data
    <2> DEFINE i == CHOOSE x \in DOMAIN outbox : Newest(x)
    <2>1. i \in DOMAIN outbox /\ Newest(i)
      BY <1>6
    <2>2. Last(r) = outbox[i].data
      BY DEF Last
    <2> QED
      BY <2>1, <2>2
  <1>8. outbox[i] \in Row
    BY <1>1, <1>7, ElementOfSeq
  <1> QED
    BY <1>7, <1>8 DEF Row

\* The rows a push leaves on the server were there or in the outbox.
LEMMA PushedAre ==
  ASSUME CopiesInv
  PROVE  /\ Pushed \in [Rec -> Data \cup {Nothing, Gone}]
         /\ Live(Pushed) \subseteq Copies
  <1>1. /\ TypeOK /\ server \in [Rec -> Data \cup {Nothing, Gone}]
        /\ Live(server) \subseteq Copies
    BY CopiesAre DEF CopiesInv, TypeOK
  <1>2. ASSUME NEW r \in Rec
        PROVE  \/ Pushed[r] = server[r]
               \/ Pushed[r] \in Data /\ [rec |-> r, data |-> Pushed[r]] \in Copies
    <2>1. CASE r \in Queued
      BY <1>1, <2>1, LastIsQueued, CopiesAre DEF Pushed
    <2>2. CASE r \notin Queued
      BY <2>2 DEF Pushed
    <2> QED
      BY <2>1, <2>2
  <1>3. \A r \in Rec : Pushed[r] \in Data \cup {Nothing, Gone}
    BY <1>1, <1>2
  <1>4. Pushed \in [Rec -> Data \cup {Nothing, Gone}]
    BY <1>3 DEF Pushed
  <1> QED
    BY <1>1, <1>2, <1>4, LiveOfBoth

\* The cache after a merge holds what it held or what the server has.
LEMMA MergedAre ==
  ASSUME CopiesInv, NEW due, NEW skipped
  PROVE  /\ Merged(Pushed, due, skipped) \in [Rec -> Data \cup {Nothing, Gone}]
         /\ Live(Merged(Pushed, due, skipped)) \subseteq Copies
         /\ skipped \subseteq due => Merged(Pushed, due, skipped) \in [Rec -> Data \cup {Nothing}]
  <1> DEFINE table == Merged(Pushed, due, skipped)
  <1>1. /\ envelopes \in [Rec -> Data \cup {Nothing}] /\ Live(envelopes) \subseteq Copies
        /\ Pushed \in [Rec -> Data \cup {Nothing, Gone}] /\ Live(Pushed) \subseteq Copies
    BY CopiesAre, PushedAre DEF CopiesInv, TypeOK
  <1>2. /\ table = [r \in Rec |-> table[r]]
        /\ \A r \in Rec : table[r] \in {Nothing, Pushed[r], envelopes[r]}
        /\ skipped \subseteq due => \A r \in Rec : table[r] # Gone
    BY <1>1, PagesAssumption DEF Merged
  <1> HIDE DEF table
  <1>3. table \in [Rec -> Data \cup {Nothing, Gone}]
    BY <1>1, <1>2
  <1>4. skipped \subseteq due => table \in [Rec -> Data \cup {Nothing}]
    BY <1>1, <1>2
  <1>5. Live(table) \subseteq Copies
    <2> SUFFICES ASSUME NEW r \in Rec, table[r] \notin {Nothing, Gone}
                 PROVE  table[r] = envelopes[r] \/ [rec |-> r, data |-> table[r]] \in Copies
      BY <1>1, LiveOfBoth
    <2>1. CASE table[r] = Pushed[r]
      <3>1. [rec |-> r, data |-> Pushed[r]] \in Live(Pushed)
        BY <2>1, TableRow
      <3> QED
        BY <1>1, <2>1, <3>1
    <2> QED
      BY <1>2, <2>1
  <1> QED
    BY <1>3, <1>4, <1>5 DEF table
LEMMA FlushKeepsCopies ==
  ASSUME CopiesInv, Flush
  PROVE  CopiesInv'
  <1> DEFINE due == unseen \cup {r \in Rec : Pushed[r] # server[r]}
             dying == IF outbox = <<>> THEN {} ELSE {r \in notes : Pushed[r] \notin {Nothing, Gone}}
  <1>1. TypeOK /\ FormIsNumbered
    BY DEF CopiesInv
  <1>2. PICK skipped \in SUBSET {r \in due : envelopes[r] # Nothing} :
          envelopes' = Merged(Pushed, due, skipped)
    BY DEF Flush
  <1>3. /\ server' = [r \in Rec |-> IF r \in dying THEN Gone ELSE Pushed[r]]
        /\ unseen' = dying /\ outbox' = <<>>
        /\ working' = [r \in Rec |-> IF r \in due /\ Pushed[r] = Gone THEN Nothing ELSE working[r]]
        /\ UNCHANGED <<created, clicks, notes, rows, form, flow, reloads, remote, overlapped>>
    BY DEF Flush
  <1>4. /\ Pushed \in [Rec -> Data \cup {Nothing, Gone}] /\ Live(Pushed) \subseteq Copies
        /\ working \in [Rec -> Data \cup {Nothing}] /\ Live(working) \subseteq Copies
        /\ notes \subseteq Rec
    BY <1>1, PushedAre, CopiesAre DEF TypeOK
  <1>5. envelopes' \in [Rec -> Data \cup {Nothing}] /\ Live(envelopes') \subseteq Copies
    <2>1. skipped \subseteq due
      BY <1>2
    <2> HIDE DEF due
    <2> QED
      BY <1>2, <2>1, MergedAre
  <1>6. dying \subseteq Rec
    BY <1>4
  <1> HIDE DEF due, dying
  <1>7. server' \in [Rec -> Data \cup {Nothing, Gone}] /\ Live(server') \subseteq Copies
    <2>1. \A r \in Rec : server'[r] = Gone \/ server'[r] = Pushed[r]
      BY <1>3
    <2>2. server' \in [Rec -> Data \cup {Nothing, Gone}]
      BY <1>3, <1>4
    <2> QED
      BY <1>4, <2>1, <2>2, LiveOfBoth
  <1>8. working' \in [Rec -> Data \cup {Nothing}] /\ Live(working') \subseteq Copies
    <2>1. \A r \in Rec : working'[r] = Nothing \/ working'[r] = working[r]
      BY <1>3
    <2>2. working' \in [Rec -> Data \cup {Nothing}]
      BY <1>3, <1>4
    <2> QED
      BY <1>4, <2>1, <2>2, LiveOfBoth
  <1>9. outbox' \in Seq(Row) /\ DOMAIN outbox' = {}
    BY <1>3, EmptyPlan
  <1>10. TypeOK'
    BY <1>1, <1>3, <1>5, <1>6, <1>7, <1>8, <1>9 DEF TypeOK
  <1>11. FormIsNumbered'
    BY <1>1, <1>3 DEF FormIsNumbered
  <1>12. Copies' \subseteq Copies
    <2>1. \A f \in Flow : Held(f)' \subseteq Copies
      BY <1>3, CopiesAre DEF Held
    <2> QED
      BY <1>3, <1>5, <1>7, <1>8, <1>9, <2>1, CopiesAre, CopiesWithin
  <1> QED
    BY <1>1, <1>3, <1>10, <1>11, <1>12, StepType, MovingKeepsCopies

LEMMA RemoteDeleteKeepsCopies ==
  ASSUME CopiesInv, RemoteDelete
  PROVE  CopiesInv'
  <1>1. TypeOK /\ FormIsNumbered
    BY DEF CopiesInv
  <1>2. PICK r \in Rec : server' = [server EXCEPT ![r] = Gone] /\ unseen' = unseen \cup {r}
    BY DEF RemoteDelete
  <1>3. /\ UNCHANGED <<created, clicks, flow, working, envelopes, outbox, notes, rows, form,
                        reloads, overlapped>>
        /\ remote + reloads < MaxEvents /\ remote' = remote + 1
    BY DEF RemoteDelete, page, tables
  <1>4. server' \in [Rec -> Data \cup {Nothing, Gone}] /\ Live(server') \subseteq Copies
    <2>1. server \in [Rec -> Data \cup {Nothing, Gone}] /\ Live(server) \subseteq Copies
      BY <1>1, CopiesAre DEF TypeOK
    <2>2. Gone \in Data \cup {Nothing, Gone} /\ Gone \in {Nothing, Gone}
      OBVIOUS
    <2>3. /\ [server EXCEPT ![r] = Gone] \in [Rec -> Data \cup {Nothing, Gone}]
          /\ Live([server EXCEPT ![r] = Gone]) \subseteq Copies
      BY <2>1, <2>2, TableUpdate
    <2> QED
      BY <1>2, <2>3
  <1>5. remote' \in Nat /\ remote' + reloads <= MaxEvents
    BY <1>1, <1>3, PagesAssumption DEF TypeOK
  <1>6. TypeOK'
    BY <1>1, <1>2, <1>3, <1>4, <1>5 DEF TypeOK
  <1>7. FormIsNumbered'
    BY <1>1, <1>3 DEF FormIsNumbered
  <1>8. Live(working') = Live(working) /\ Live(envelopes') = Live(envelopes)
    BY <1>3
  <1>9. \A f \in Flow : Held(f)' \subseteq Copies
    BY <1>3, CopiesAre DEF Held
  <1>10. Copies' \subseteq Copies
    BY <1>3, <1>4, <1>8, <1>9, CopiesAre, CopiesWithin
  <1> QED
    BY <1>1, <1>3, <1>6, <1>7, <1>10, StepType, MovingKeepsCopies

-----------------------------------------------------------------------------
(* The invariant of the copies.                                            *)

LEMMA NothingCopied ==
  ASSUME Init
  PROVE  CopiesInv
  <1>1. TypeOK
    <2>1. outbox \in Seq(Row)
      BY EmptyPlan DEF Init
    <2>2. /\ working \in [Rec -> Data \cup {Nothing}] /\ envelopes \in [Rec -> Data \cup {Nothing}]
          /\ server \in [Rec -> Data \cup {Nothing, Gone}]
      BY DEF Init, Empty
    <2>3. \A g \in Flow : flow[g] = Idle
      BY DEF Init
    <2>4. flow \in [Flow -> FlowState]
      BY <2>3, IdleType DEF Init
    <2>5. /\ created \in 0..MaxRec /\ clicks \in 0..MaxClicks
          /\ remote \in Nat /\ reloads \in Nat /\ remote + reloads <= MaxEvents
      BY PagesAssumption DEF Init
    <2>6. /\ notes \subseteq Rec /\ unseen \subseteq Rec /\ rows \subseteq Row
          /\ form \in {0, Nothing} \cup Rec /\ overlapped \in BOOLEAN
      BY DEF Init
    <2> QED
      BY <2>1, <2>2, <2>4, <2>5, <2>6 DEF TypeOK
  <1>2. Copies = {}
    <2>1. Live(working) = {} /\ Live(envelopes) = {} /\ Live(server) = {}
      BY DEF Init, Empty, Live
    <2>2. rows = {} /\ DOMAIN outbox = {}
      BY EmptyPlan DEF Init
    <2>3. ASSUME NEW g \in Flow PROVE Held(g) = {}
      <3>1. flow[g] = Idle
        BY DEF Init
      <3>2. DOMAIN flow[g].plan = {} /\ flow[g].got = {}
        BY <3>1, IdleType, EmptyPlan
      <3> QED
        BY <3>2 DEF Held
    <2> QED
      BY <2>1, <2>2, <2>3 DEF Copies, Everywhere
  <1>3. FormIsNumbered
    BY DEF Init, FormIsNumbered
  <1> QED
    BY <1>1, <1>2, <1>3 DEF CopiesInv, LegsIn, CopiesAreNumbered

LEMMA StutterKeepsCopies ==
  ASSUME CopiesInv, UNCHANGED vars
  PROVE  CopiesInv'
  <1>1. TypeOK /\ FormIsNumbered
    BY DEF CopiesInv
  <1>2. UNCHANGED <<created, clicks, working, envelopes, outbox, notes, server, unseen, rows,
                    form, flow, remote, reloads, overlapped>>
    BY DEF vars
  <1>3. TypeOK'
    BY <1>1, <1>2 DEF TypeOK
  <1>4. FormIsNumbered'
    BY <1>1, <1>2 DEF FormIsNumbered
  <1>5. Copies' = Copies
    BY <1>2 DEF Copies, Everywhere, Live, Held
  <1> QED
    BY <1>1, <1>2, <1>3, <1>4, <1>5, StepType, MovingKeepsCopies

LEMMA StepKeepsCopies ==
  ASSUME CopiesInv, [Next]_vars
  PROVE  CopiesInv'
  <1>1. CASE OpenNew
    BY <1>1, FormKeepsCopies DEF OpenNew
  <1>2. CASE OpenEdit
    BY <1>2, FormKeepsCopies DEF OpenEdit
  <1>3. CASE Cancel
    BY <1>3, FormKeepsCopies DEF Cancel
  <1>4. CASE Reload
    BY <1>4, ReloadKeepsCopies
  <1>5. CASE \E f \in Flow, e \in Entries, transfer \in BOOLEAN : Submit(f, e, transfer)
    BY <1>5, SubmitKeepsCopies
  <1>6. CASE \E f \in Flow : \E row \in rows : Delete(f, row)
    BY <1>6, DeleteKeepsCopies
  <1>7. CASE \E f \in Flow : Handler(f)
    <2>1. PICK f \in Flow : Handler(f)
      BY <1>7
    <2>2. CASE PutWorking(f) \/ Enqueue(f)
      BY <2>2, SaveStepsKeepCopies
    <2>3. CASE Drop(f) \/ Note(f)
      BY <2>3, DeleteStepsKeepCopies
    <2>4. CASE Finish(f)
      BY <2>4, FinishKeepsCopies
    <2>5. CASE Read(f)
      BY <2>5, ReadKeepsCopies
    <2>6. CASE Collect(f)
      BY <2>6, CollectKeepsCopies
    <2>7. CASE Show(f)
      BY <2>7, ShowKeepsCopies
    <2> QED
      BY <2>1, <2>2, <2>3, <2>4, <2>5, <2>6, <2>7 DEF Handler
  <1>8. CASE Flush
    BY <1>8, FlushKeepsCopies
  <1>9. CASE RemoteDelete
    BY <1>9, RemoteDeleteKeepsCopies
  <1>10. CASE UNCHANGED vars
    BY <1>10, StutterKeepsCopies
  <1> QED
    BY <1>1, <1>2, <1>3, <1>4, <1>5, <1>6, <1>7, <1>8, <1>9, <1>10 DEF Next

LEMMA CopiesInvariant == Spec => []CopiesInv
  <1>1. Init => CopiesInv
    BY NothingCopied
  <1>2. CopiesInv /\ [Next]_vars => CopiesInv'
    BY StepKeepsCopies
  <1> QED
    BY <1>1, <1>2, PTL DEF Spec

\* The variables keep their types, plans and half-read lists included.
THEOREM PagesTypes == Spec => []TypeOK
  <1>1. CopiesInv => TypeOK
    BY DEF CopiesInv
  <1> QED
    BY <1>1, CopiesInvariant, PTL

\* Wherever they are kept or shown, rows of one group are at most two, of opposite
\* amounts: for any number of forms, clicks, handlers in progress and flushes,
\* double submits of an open form (TransactionForm.submit) included.
THEOREM PagesLegs == Spec => []LegsAreOpposite
  <1>1. CopiesInv => LegsAreOpposite
    <2>1. Everywhere \subseteq Copies
      BY DEF Copies
    <2> QED
      BY <2>1 DEF CopiesInv, LegsAreOpposite, LegsIn
  <1> QED
    BY <1>1, CopiesInvariant, PTL
-----------------------------------------------------------------------------
(* The list.                                                               *)

LEMMA ListUntouched ==
  ASSUME ListInv, UNCHANGED <<rows, flow, overlapped>>,
         \A r \in Rec : working'[r] # Nothing => working'[r] = working[r]
  PROVE  ListInv'
  <1>1. Loads' = Loads /\ Busy' = Busy
    BY DEF Loads, Busy
  <1>2. \A r \in Rec : working'[r] # Nothing /\ Surfaces(r) => Surfaces(r)'
    BY <1>1 DEF Surfaces, IsIn
  <1> QED
    BY <1>1, <1>2 DEF ListInv

\* While a handler saves or deletes, the list it is to load is yet to come.
LEMMA ListBusy ==
  ASSUME ListInv, NEW f \in Flow, flow'[f].kind \in {"save", "delete"},
         \A g \in Flow : g # f => flow'[g] = flow[g], UNCHANGED overlapped
  PROVE  ListInv'
  <1>1. Loads' \subseteq Loads
    <2>1. \A g \in Loads' : g # f /\ g \in Flow
      BY DEF Loads
    <2> QED
      BY <2>1 DEF Loads
  <1>2. Busy'
    BY DEF Busy
  <1> QED
    BY <1>1, <1>2 DEF ListInv, Surfaces

LEMMA SavingKeepsList ==
  ASSUME TypeOK, ListInv, NEW f \in Flow,
         \/ \E e \in Entries, transfer \in BOOLEAN : Submit(f, e, transfer)
         \/ \E row \in rows : Delete(f, row)
         \/ PutWorking(f) \/ Enqueue(f) \/ Drop(f) \/ Note(f)
  PROVE  ListInv'
  <1>1. /\ flow'[f].kind \in {"save", "delete"}
        /\ \A g \in Flow : g # f => flow'[g] = flow[g]
    <2>1. CASE \E e \in Entries, transfer \in BOOLEAN : Submit(f, e, transfer)
      <3>1. PICK plan : Becomes(f, Stage("save", plan, "flush", {}))
        BY <2>1 DEF Submit
      <3> QED
        BY <3>1, BecomesHeld DEF Stage
    <2>2. CASE \E row \in rows : Delete(f, row)
      <3>1. PICK plan : Becomes(f, Stage("delete", plan, "flush", {}))
        BY <2>2 DEF Delete
      <3> QED
        BY <3>1, BecomesHeld DEF Stage
    <2>3. CASE PutWorking(f) \/ Enqueue(f) \/ Drop(f) \/ Note(f)
      <3>1. flow[f].plan # <<>> /\ flow[f].kind \in {"save", "delete"} /\ (HalfDone(f) \/ Done(f))
        BY <2>3 DEF PutWorking, Enqueue, Drop, Note, Doing
      <3> QED
        BY <3>1, DoneHeld
    <2> QED
      BY <2>1, <2>2, <2>3
  <1>2. UNCHANGED overlapped
    BY DEF Submit, Delete, PutWorking, Enqueue, Drop, Note, page
  <1> QED
    BY <1>1, <1>2, ListBusy

LEMMA FinishKeepsList ==
  ASSUME TypeOK, ListInv, NEW f \in Flow, Finish(f)
  PROVE  ListInv'
  <1>1. /\ flow'[f].kind = "load" /\ flow'[f].at = "flush"
        /\ \A g \in Flow : g # f => flow'[g] = flow[g]
    BY BecomesHeld, IdleType DEF Finish
  <1>2. ~overlapped' => Loads' = {f}
    BY <1>1 DEF Finish, Loads
  <1> QED
    BY <1>1, <1>2 DEF ListInv, Surfaces

\* A reload that goes a stage on leaves the others, and is still one.
LEMMA ComesOn ==
  ASSUME TypeOK, NEW f \in Flow, NEW at, NEW got, flow[f].kind = "load", Comes(f, at, got)
  PROVE  /\ Loads' = Loads /\ Busy' = Busy
         /\ flow'[f].at = at /\ flow'[f].got = got
         /\ \A g \in Flow : g # f => flow'[g] = flow[g]
  <1>1. /\ flow'[f].kind = "load" /\ flow'[f].at = at /\ flow'[f].got = got
        /\ \A g \in Flow : g # f => flow'[g] = flow[g]
    BY BecomesHeld DEF Comes, Stage
  <1>2. \A g \in Flow : flow'[g].kind = flow[g].kind
    BY <1>1
  <1> QED
    BY <1>1, <1>2 DEF Loads, Busy

LEMMA ReadKeepsList ==
  ASSUME TypeOK, ListInv, NEW f \in Flow, Read(f)
  PROVE  ListInv'
  <1>1. /\ Loads' = Loads /\ Busy' = Busy /\ f \in Loads
        /\ flow'[f].at = "decrypt"
        /\ UNCHANGED <<working, rows, overlapped>>
    BY ComesOn DEF Read, Reloading, Loads, page, tables
  <1> SUFFICES ASSUME ~overlapped PROVE ListInv'
    BY <1>1 DEF ListInv
  <1>2. Loads' = {f}
    BY <1>1 DEF ListInv
  <1> QED
    BY <1>1, <1>2 DEF ListInv, Surfaces

LEMMA CollectKeepsList ==
  ASSUME CopiesInv, ListInv, NEW f \in Flow, Collect(f)
  PROVE  ListInv'
  <1>1. /\ Loads' = Loads /\ Busy' = Busy /\ f \in Loads
        /\ flow'[f].got = Live(working') /\ UNCHANGED <<rows, overlapped>>
    BY ComesOn DEF CopiesInv, Collect, Reloading, Listed, Loads, page
  <1> SUFFICES ASSUME ~overlapped PROVE ListInv'
    BY <1>1 DEF ListInv
  <1>2. Loads' = {f}
    BY <1>1 DEF ListInv
  <1>3. ASSUME NEW r \in Rec, working'[r] # Nothing
        PROVE  [rec |-> r, data |-> working'[r]] \in flow'[f].got
    <2>1. working'[r] # Gone
      BY CollectKeepsCopies, PagesAssumption DEF CopiesInv, TypeOK
    <2>2. [rec |-> r, data |-> working'[r]] \in Live(working')
      BY <1>3, <2>1, TableRow
    <2> QED
      BY <1>1, <2>2
  <1>4. \A r \in Rec : working'[r] # Nothing => Surfaces(r)'
    BY <1>2, <1>3 DEF Surfaces, IsIn
  <1> QED
    BY <1>2, <1>4 DEF ListInv

LEMMA ShowKeepsList ==
  ASSUME TypeOK, ListInv, NEW f \in Flow, Show(f)
  PROVE  ListInv'
  <1>1. /\ f \in Loads /\ flow[f].at = "show" /\ rows' = flow[f].got
        /\ UNCHANGED <<working, overlapped>>
        /\ flow'[f].kind = "idle" /\ \A g \in Flow : g # f => flow'[g] = flow[g]
    BY BecomesHeld, IdleType DEF Show, Reloading, Loads, tables
  <1> SUFFICES ASSUME ~overlapped PROVE ListInv'
    BY <1>1 DEF ListInv
  <1>2. Loads = {f} /\ Loads' = {}
    <2>1. Loads = {f}
      BY <1>1 DEF ListInv
    <2> QED
      BY <1>1, <2>1 DEF Loads
  <1>3. Busy => Busy'
    <2> SUFFICES ASSUME NEW g \in Flow, flow[g].kind \in {"save", "delete"} PROVE Busy'
      BY DEF Busy
    <2>1. g # f
      BY <1>2 DEF Loads
    <2> QED
      BY <1>1, <2>1 DEF Busy
  <1>4. ASSUME NEW r \in Rec, working[r] # Nothing, ~Busy PROVE IsIn(r, rows')
    <2>1. Surfaces(r)
      BY <1>4 DEF ListInv
    <2> QED
      BY <1>1, <1>2, <1>4, <2>1 DEF Surfaces
  <1>5. \A r \in Rec : working'[r] # Nothing => Surfaces(r)'
    BY <1>1, <1>2, <1>3, <1>4 DEF Surfaces, IsIn
  <1> QED
    BY <1>2, <1>5 DEF ListInv

LEMMA ReloadKeepsList ==
  ASSUME ListInv, Reload
  PROVE  ListInv'
  <1>1. PICK f \in Flow : flow' = [[g \in Flow |-> Idle] EXCEPT ![f] = Loading]
    BY DEF Reload
  <1>2. flow'[f].kind = "load" /\ flow'[f].at = "flush"
        /\ \A g \in Flow : g # f => flow'[g].kind = "idle"
    BY <1>1, IdleType
  <1>3. Loads' = {f}
    BY <1>2 DEF Loads
  <1> QED
    BY <1>2, <1>3 DEF ListInv, Surfaces

LEMMA StepKeepsList ==
  ASSUME CopiesInv, ListInv, [Next]_vars
  PROVE  ListInv'
  <1>0. TypeOK
    BY DEF CopiesInv
  <1>1. CASE OpenNew \/ OpenEdit \/ Cancel
    <2>1. UNCHANGED <<rows, flow, overlapped, working>>
      BY <1>1 DEF OpenNew, OpenEdit, Cancel, Form, tables
    <2> QED
      BY <2>1, ListUntouched
  <1>2. CASE Reload
    BY <1>2, ReloadKeepsList
  <1>3. CASE \E f \in Flow : \/ \E e \in Entries, transfer \in BOOLEAN : Submit(f, e, transfer)
                             \/ \E row \in rows : Delete(f, row)
    BY <1>0, <1>3, SavingKeepsList
  <1>4. CASE \E f \in Flow : Handler(f)
    <2>1. PICK f \in Flow : Handler(f)
      BY <1>4
    <2>2. CASE PutWorking(f) \/ Enqueue(f) \/ Drop(f) \/ Note(f)
      BY <1>0, <2>2, SavingKeepsList
    <2>3. CASE Finish(f)
      BY <1>0, <2>3, FinishKeepsList
    <2>4. CASE Read(f)
      BY <1>0, <2>4, ReadKeepsList
    <2>5. CASE Collect(f)
      BY <2>5, CollectKeepsList
    <2>6. CASE Show(f)
      BY <1>0, <2>6, ShowKeepsList
    <2> QED
      BY <2>1, <2>2, <2>3, <2>4, <2>5, <2>6 DEF Handler
  <1>5. CASE Flush
    <2>1. UNCHANGED <<rows, flow, overlapped>>
      BY <1>5 DEF Flush
    <2>2. \A r \in Rec : working'[r] # Nothing => working'[r] = working[r]
      BY <1>5 DEF Flush
    <2> QED
      BY <2>1, <2>2, ListUntouched
  <1>6. CASE RemoteDelete
    <2>1. UNCHANGED <<rows, flow, overlapped, working>>
      BY <1>6 DEF RemoteDelete, page, tables
    <2> QED
      BY <2>1, ListUntouched
  <1>7. CASE UNCHANGED vars
    <2>1. UNCHANGED <<rows, flow, overlapped, working>>
      BY <1>7 DEF vars
    <2> QED
      BY <2>1, ListUntouched
  <1> QED
    BY <1>1, <1>2, <1>3, <1>4, <1>5, <1>6, <1>7 DEF Next

\* Unless two reloads overlap, a page at rest lists every row of the working
\* set as it stands there: whatever is saved, edited, deleted, flushed or pulled
\* while a list is on its way (loadWorking of store.ts, reload and onSave of
\* TransactionsPage.tsx).
THEOREM PagesListAll == Spec => []QuietPageListsAll
  <1>1. Init => ListInv
    <2> SUFFICES ASSUME Init
                 PROVE  (\A r \in Rec : working[r] = Nothing) /\ \A g \in Flow : flow[g].kind # "load"
      BY DEF ListInv, Loads
    <2> QED
      BY IdleType DEF Init, Empty
  <1>2. CopiesInv /\ ListInv /\ [Next]_vars => ListInv'
    BY StepKeepsList
  <1>3. ListInv => QuietPageListsAll
    <2> SUFFICES ASSUME ListInv, ~overlapped, \A f \in Flow : flow[f] = Idle
                 PROVE  Live(working) \subseteq rows
      BY DEF QuietPageListsAll
    <2>1. ~Busy /\ Loads = {}
      BY IdleType DEF Busy, Loads
    <2>2. \A r \in Rec : working[r] # Nothing => [rec |-> r, data |-> working[r]] \in rows
      BY <2>1 DEF ListInv, Surfaces, IsIn
    <2> QED
      BY <2>2 DEF Live
  <1> QED
    BY <1>1, <1>2, <1>3, CopiesInvariant, PTL DEF Spec

-----------------------------------------------------------------------------
(* The summaries of what is listed.                                        *)

\* The inductive invariant of the lists: that of a page, and those that reloads
\* have read, are finite.
ListsAreFinite == IsFiniteSet(rows) /\ \A f \in Flow : IsFiniteSet(flow[f].got)

LEMMA LiveIsFinite ==
  ASSUME NEW table
  PROVE  IsFiniteSet(Live(table))
  <1> DEFINE S == {q \in Rec : table[q] \notin {Nothing, Gone}}
             row == [r \in S |-> [rec |-> r, data |-> table[r]]]
  <1>1. IsFiniteSet(S)
    <2>1. IsFiniteSet(Rec)
      BY PagesAssumption, FS_Interval DEF Rec
    <2> QED
      BY <2>1, FS_Subset
  <1>2. row \in Surjection(S, Live(table))
    BY DEF Live, Surjection
  <1> QED
    BY <1>1, <1>2, FS_Surjection

LEMMA TakingKeepsFinite ==
  ASSUME TypeOK, ListsAreFinite, NEW f \in Flow, NEW state, Becomes(f, state),
         IsFiniteSet(state.got), UNCHANGED rows
  PROVE  ListsAreFinite'
  <1>1. flow'[f] = state /\ \A g \in Flow : g # f => flow'[g] = flow[g]
    BY BecomesHeld
  <1> QED
    BY <1>1 DEF ListsAreFinite

LEMMA PlanningKeepsFinite ==
  ASSUME TypeOK, ListsAreFinite, NEW f \in Flow,
         NEW kind, NEW plan, Becomes(f, Stage(kind, plan, "flush", {})), UNCHANGED rows
  PROVE  ListsAreFinite'
  <1> DEFINE state == Stage(kind, plan, "flush", {})
  <1>1. IsFiniteSet(state.got) /\ Becomes(f, state)
    BY FS_EmptySet DEF Stage
  <1> HIDE DEF state
  <1> QED
    BY <1>1, TakingKeepsFinite

LEMMA StepKeepsFinite ==
  ASSUME TypeOK, ListsAreFinite, [Next]_vars
  PROVE  ListsAreFinite'
  <1>1. CASE UNCHANGED <<rows, flow>>
    BY <1>1 DEF ListsAreFinite
  <1>2. CASE OpenNew \/ OpenEdit \/ Cancel \/ Flush \/ RemoteDelete \/ UNCHANGED vars
    <2>1. UNCHANGED <<rows, flow>>
      BY <1>2 DEF OpenNew, OpenEdit, Cancel, Form, Flush, RemoteDelete, page, vars
    <2> QED
      BY <1>1, <2>1
  <1>3. CASE Reload
    <2>1. rows' = {} /\ \A g \in Flow : flow'[g] \in {Idle, Loading}
      BY <1>3 DEF Reload
    <2>2. \A g \in Flow : flow'[g].got = {}
      BY <2>1, IdleType
    <2> QED
      BY <2>1, <2>2, FS_EmptySet DEF ListsAreFinite
  <1>4. ASSUME NEW f \in Flow, NEW e \in Entries, NEW transfer \in BOOLEAN, Submit(f, e, transfer)
        PROVE  ListsAreFinite'
    <2> DEFINE plan == SubmitPlan(e, transfer)
    <2>1. Becomes(f, Stage("save", plan, "flush", {})) /\ UNCHANGED rows
      BY <1>4 DEF Submit, page
    <2> HIDE DEF plan
    <2> QED
      BY <2>1, PlanningKeepsFinite
  <1>5. ASSUME NEW f \in Flow, NEW row \in rows, Delete(f, row)
        PROVE  ListsAreFinite'
    <2>1. PICK plan : Becomes(f, Stage("delete", plan, "flush", {}))
      BY <1>5 DEF Delete
    <2>2. UNCHANGED rows
      BY <1>5 DEF Delete, page
    <2> QED
      BY <2>1, <2>2, PlanningKeepsFinite
  <1>6. ASSUME NEW f \in Flow, PutWorking(f) \/ Enqueue(f) \/ Drop(f) \/ Note(f)
        PROVE  ListsAreFinite'
    <2>1. UNCHANGED rows /\ (HalfDone(f) \/ Done(f))
      BY <1>6 DEF PutWorking, Enqueue, Drop, Note, page
    <2>2. flow[f] \in FlowState
      BY DEF TypeOK
    <2> DEFINE half == [flow[f] EXCEPT !.half = TRUE]
               done == [flow[f] EXCEPT !.half = FALSE, !.plan = Tail(@)]
    <2>3. half.got = flow[f].got /\ done.got = flow[f].got
      BY <2>2 DEF FlowState
    <2>4. Becomes(f, half) \/ Becomes(f, done)
      BY <2>1 DEF HalfDone, Done
    <2> HIDE DEF half, done
    <2> QED
      BY <2>1, <2>3, <2>4, TakingKeepsFinite DEF ListsAreFinite
  <1>7. ASSUME NEW f \in Flow, Finish(f)
        PROVE  ListsAreFinite'
    <2>1. Becomes(f, Loading) /\ UNCHANGED rows
      BY <1>7 DEF Finish
    <2> QED
      BY <2>1, IdleType, FS_EmptySet, TakingKeepsFinite
  <1>8. ASSUME NEW f \in Flow, Read(f) \/ Collect(f)
        PROVE  ListsAreFinite'
    <2>1. PICK state : Becomes(f, state) /\ IsFiniteSet(state.got)
      <3>1. CASE Read(f)
        <4> DEFINE state == Stage("load", <<>>, "decrypt", Live(envelopes))
        <4>1. Becomes(f, state) /\ state.got = Live(envelopes)
          BY <3>1 DEF Read, Comes, Stage
        <4> HIDE DEF state
        <4> QED
          BY <4>1, LiveIsFinite
      <3>2. CASE Collect(f)
        <4> DEFINE state == Stage("load", <<>>, "show", Listed(f))
        <4>1. Becomes(f, state) /\ state.got = Live(Decrypted(f))
          BY <3>2 DEF Collect, Comes, Stage, Listed
        <4> HIDE DEF state
        <4> QED
          BY <4>1, LiveIsFinite
      <3> QED
        BY <1>8, <3>1, <3>2
    <2>2. UNCHANGED rows
      BY <1>8 DEF Read, Collect, page
    <2> QED
      BY <2>1, <2>2, TakingKeepsFinite
  <1>9. ASSUME NEW f \in Flow, Show(f)
        PROVE  ListsAreFinite'
    <2>1. rows' = flow[f].got /\ Becomes(f, Idle)
      BY <1>9 DEF Show
    <2>2. flow'[f] = Idle /\ \A g \in Flow : g # f => flow'[g] = flow[g]
      BY <2>1, IdleType, BecomesHeld
    <2> QED
      BY <2>1, <2>2, IdleType, FS_EmptySet DEF ListsAreFinite
  <1> QED
    BY <1>2, <1>3, <1>4, <1>5, <1>6, <1>7, <1>8, <1>9 DEF Next, Handler

LEMMA ListedIsList == Spec => []IsList(rows)
  <1>1. Init => ListsAreFinite
    <2> SUFFICES ASSUME Init PROVE rows = {} /\ \A g \in Flow : flow[g].got = {}
      BY FS_EmptySet DEF ListsAreFinite
    <2> QED
      BY IdleType DEF Init
  <1>2. TypeOK /\ ListsAreFinite /\ [Next]_vars => ListsAreFinite'
    BY StepKeepsFinite
  <1>3. TypeOK /\ ListsAreFinite => IsList(rows)
    BY DEF TypeOK, ListsAreFinite, IsList, Row, Data
  <1> QED
    BY <1>1, <1>2, <1>3, PagesTypes, PTL DEF Spec

\* The totals, the categories and the amounts that the page lists agree
\* (byCategoryMonth and monthlyTotals of summaries.ts), whatever is listed.
THEOREM PagesAddUp == Spec => []SummariesAddUp
  <1>1. IsList(rows) => SummariesAddUp
    BY TotalsAddUp DEF SummariesAddUp
  <1> QED
    BY <1>1, ListedIsList, PTL

\* What a budget counts is what the categories under its name report, whatever
\* is listed (budgetStatus and byCategoryMonth of summaries.ts).
THEOREM PagesBudgets == Spec => []BudgetsFollowCategories
  <1>1. IsList(rows) => BudgetsFollowCategories
    BY BudgetsAddUp DEF BudgetsFollowCategories
  <1> QED
    BY <1>1, ListedIsList, PTL
=============================================================================

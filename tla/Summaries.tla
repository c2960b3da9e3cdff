------------------------------- MODULE Summaries -------------------------------
(***************************************************************************)
(* The pure summaries of web/src/domain/summaries.ts over a list of        *)
(* transactions, whose amounts are integers here, so that sums are exact.  *)
(* A list is a set of rows [rec, data]: the summaries do not depend on its *)
(* order.                                                                  *)
(***************************************************************************)
EXTENDS Integers, FiniteSets, Functions

CONSTANT Uncategorized   \* the name budgetStatus gives to an empty category

Months(list) == {r.data.month : r \in list}
Of(list, m) == {r \in list : r.data.month = m}
In(list, c) == {r \in list : r.data.category = c}

\* Outflows are summed as positive amounts.
OutflowOf(r) == IF r.data.amount < 0 THEN -r.data.amount ELSE 0
InflowOf(r) == IF r.data.amount < 0 THEN 0 ELSE r.data.amount

Outflow(list) == SumFunction([r \in list |-> OutflowOf(r)])
Inflow(list) == SumFunction([r \in list |-> InflowOf(r)])

\* Faulty variant: entries are keyed by month alone.
LineByMonth(list, r) ==
  LET same == Of(list, r.data.month)
  IN [month |-> r.data.month, category |-> r.data.category,
      expense |-> Outflow(same), income |-> Inflow(same)]

\* The entry that a transaction is counted in.
LineOf(list, r) ==
  LET same == In(Of(list, r.data.month), r.data.category)
  IN [month |-> r.data.month, category |-> r.data.category,
      expense |-> Outflow(same), income |-> Inflow(same)]

ByCategoryMonth(list) == {LineOf(list, r) : r \in list}

MonthlyTotals(list) ==
  {LET out == Outflow(Of(list, m))
       in == Inflow(Of(list, m))
   IN [month |-> m, income |-> in, expense |-> out, net |-> in - out] : m \in Months(list)}

NameOf(c) == IF c = "" THEN Uncategorized ELSE c

\* Faulty variant: inflows reduce what was spent.
SpentNet(list, m, name) ==
  LET mine == {r \in Of(list, m) : NameOf(r.data.category) = name}
  IN Outflow(mine) - Inflow(mine)

Spent(list, m, name) == Outflow({r \in Of(list, m) : NameOf(r.data.category) = name})

\* The line of one budget; the ratio, for display, is left out.
BudgetLine(list, m, budget) ==
  LET actual == Spent(list, m, budget.category)
  IN [category |-> budget.category, actual |-> actual, over |-> actual > budget.cap]

-----------------------------------------------------------------------------
(* What the summaries of one list promise. *)

Expenses(lines) == SumFunction([c \in lines |-> c.expense])
Incomes(lines) == SumFunction([c \in lines |-> c.income])

\* The monthly totals, the categories and the amounts listed agree
\* (monthlyTotals, byCategoryMonth).
TotalsAgree(list) ==
  \A t \in MonthlyTotals(list) :
    LET lines == {c \in ByCategoryMonth(list) : c.month = t.month}
    IN /\ t.net = SumFunction([r \in Of(list, t.month) |-> r.data.amount])
       /\ t.expense = Expenses(lines)
       /\ t.income = Incomes(lines)

\* A budget's actual is the expense that byCategoryMonth reports in that month
\* for the categories shown under its name, and none without an entry
\* (budgetStatus).
BudgetsAgree(list) ==
  \A m \in Months(list), name \in {NameOf(r.data.category) : r \in list} :
    BudgetLine(list, m, [category |-> name, cap |-> 0]).actual =
      Expenses({c \in ByCategoryMonth(list) : c.month = m /\ NameOf(c.category) = name})
=============================================================================

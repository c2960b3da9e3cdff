----------------------------- MODULE SummariesProofs -----------------------------
(***************************************************************************)
(* Proofs about Summaries, for lists of any length.  The summaries are     *)
(* sums over sets, which the community modules define by recursion: the    *)
(* first part shows what such a sum is and how it splits, by induction     *)
(* over the subsets of a finite set.  The core of the second: the entry a  *)
(* transaction is counted in partitions a month, and what a budget counts. *)
(***************************************************************************)
EXTENDS Summaries, FiniteSetTheorems, WellFoundedInduction, TLAPS

\* A list is finite, and its amounts are integers.
IsList(list) == IsFiniteSet(list) /\ \A r \in list : r.data.amount \in Int

LEMMA LeastNat ==
  ASSUME NEW T, T \subseteq Nat, T # {}
  PROVE  \E n \in T : \A m \in T : n <= m
  <1> DEFINE R == {p \in Nat \X Nat : p[1] < p[2]}
  <1>1. IsWellFoundedOn(R, Nat)
    BY NatLessThanWellFounded DEF OpToRel
  <1>2. \E n \in T : \A m \in T : <<m, n>> \notin R
    <2> HIDE DEF R
    <2> QED
      BY <1>1, WFMin
  <1>3. \A m, n \in Nat : m < n => <<m, n>> \in R
    OBVIOUS
  <1>4. PICK n \in T : \A m \in T : <<m, n>> \notin R
    BY <1>2
  <1>5. \A m \in T : ~(m < n)
    <2> HIDE DEF R
    <2> QED
      BY <1>3, <1>4
  <1> QED
    BY <1>5

\* Induction over the subsets of a finite set: Good has each of which it has
\* all smaller ones.
LEMMA SubsetInduction ==
  ASSUME NEW S, IsFiniteSet(S), NEW Good,
         \A T \in SUBSET S : (\A U \in SUBSET T : U # T => U \in Good) => T \in Good
  PROVE  S \in Good
  <1> DEFINE bad == {T \in SUBSET S : T \notin Good}
             sizes == {Cardinality(T) : T \in bad}
  <1>1. \A T \in SUBSET S : IsFiniteSet(T) /\ Cardinality(T) \in Nat
    BY FS_Subset, FS_CardinalityType
  <1>2. bad = {}
    <2> SUFFICES ASSUME bad # {} PROVE FALSE
      OBVIOUS
    <2>1. sizes \subseteq Nat /\ sizes # {}
      BY <1>1
    <2>2. \E n \in sizes : \A m \in sizes : n <= m
      <3> HIDE DEF sizes
      <3> QED
        BY <2>1, LeastNat
    <2>3. PICK T \in bad : \A U \in bad : Cardinality(T) <= Cardinality(U)
      BY <2>2
    <2>4. ASSUME NEW U \in SUBSET T, U # T PROVE U \in Good
      <3>1. U \in SUBSET S /\ IsFiniteSet(T) /\ T \in SUBSET S
        BY <1>1, <2>3, <2>4
      <3>2. Cardinality(U) <= Cardinality(T) /\ Cardinality(U) # Cardinality(T)
        BY <1>1, <2>4, <3>1, FS_Subset
      <3>3. ~(Cardinality(T) <= Cardinality(U))
        BY <1>1, <3>1, <3>2
      <3> QED
        BY <2>3, <3>1, <3>3
    <2> QED
      BY <2>3, <2>4
  <1> QED
    BY <1>2

-----------------------------------------------------------------------------
(* Sums.                                                                   *)

Sum(f, S) == SumFunctionOnSet(f, S)
One(S) == CHOOSE x \in S : TRUE

\* The recursion behind SumFunctionOnSet is what its definition says.
LEMMA SumUnfolds ==
  ASSUME NEW f, NEW S, IsFiniteSet(S)
  PROVE  Sum(f, S) = IF S = {} THEN 0 ELSE f[One(S)] + Sum(f, S \ {One(S)})
  <1> DEFINE Turn(g, s) == IF s = {} THEN 0 ELSE f[One(s)] + g[s \ {One(s)}]
             Runs(g, T) == g = [s \in SUBSET T |-> Turn(g, s)]
             Step(T) == IF T = {} THEN 0 ELSE f[One(T)] + Sum(f, T \ {One(T)})
             Good == {T \in SUBSET S : Sum(f, T) = Step(T)}
  <1>1. \A T : Sum(f, T) = (CHOOSE g : Runs(g, T))[T]
    BY DEF Sum, SumFunctionOnSet, FoldFunctionOnSet, MapThenFoldSet, One
  <1>2. \A T : T # {} => One(T) \in T
    BY DEF One
  <1>3. ASSUME NEW T \in SUBSET S, \A U \in SUBSET T : U # T => U \in Good
        PROVE  T \in Good
    <2> DEFINE g == [s \in SUBSET T |-> Step(s)]
    <2>1. \A s \in SUBSET T : s # {} => s \ {One(s)} \in SUBSET T /\ s \ {One(s)} # T
      BY <1>2
    <2>2. \A s \in SUBSET T : g[s] = Turn(g, s)
      <3> SUFFICES ASSUME NEW s \in SUBSET T, s # {}
                   PROVE  Sum(f, s \ {One(s)}) = g[s \ {One(s)}]
        OBVIOUS
      <3> DEFINE u == s \ {One(s)}
      <3>1. u \in SUBSET T /\ u \in Good
        BY <1>3, <2>1
      <3> QED
        BY <3>1
    <2>3. Runs(g, T)
      <3>1. g = [s \in SUBSET T |-> g[s]]
        OBVIOUS
      <3> HIDE DEF g
      <3> QED
        BY <2>2, <3>1
    <2> DEFINE h == CHOOSE x : Runs(x, T)
    <2>4. Runs(h, T)
      <3> HIDE DEF g
      <3> QED
        BY <2>3
    <2> HIDE DEF h
    <2>5. \A s \in SUBSET T : h[s] = Turn(h, s)
      BY <2>4
    <2>6. h[T] = g[T]
      <3> DEFINE same == {s \in SUBSET T : h[s] = g[s]}
      <3>1. ASSUME NEW s \in SUBSET T, \A u \in SUBSET s : u # s => u \in same
            PROVE  s \in same
        <4> HIDE DEF g
        <4>1. s # {} => h[s \ {One(s)}] = g[s \ {One(s)}]
          BY <1>2, <3>1
        <4> QED
          BY <2>2, <2>5, <4>1
      <3>2. IsFiniteSet(T)
        BY FS_Subset
      <3> HIDE DEF same
      <3>3. T \in same
        BY <3>1, <3>2, SubsetInduction
      <3> QED
        BY <3>3 DEF same
    <2>7. Sum(f, T) = h[T]
      BY <1>1 DEF h
    <2> QED
      BY <2>6, <2>7
  <1> HIDE DEF Good
  <1>4. S \in Good
    BY <1>3, SubsetInduction
  <1> QED
    BY <1>4 DEF Good

LEMMA SumEmpty ==
  ASSUME NEW f
  PROVE  Sum(f, {}) = 0
  BY FS_EmptySet, SumUnfolds

\* Sums of integers are integers, and any element may be taken first.
LEMMA SumTakes ==
  ASSUME NEW S, IsFiniteSet(S), NEW f, \A x \in S : f[x] \in Int
  PROVE  Sum(f, S) \in Int /\ \A x \in S : Sum(f, S) = f[x] + Sum(f, S \ {x})
  <1> DEFINE Takes(T) == Sum(f, T) \in Int /\ \A x \in T : Sum(f, T) = f[x] + Sum(f, T \ {x})
             good == {T \in SUBSET S : Takes(T)}
  <1>1. ASSUME NEW T \in SUBSET S, \A U \in SUBSET T : U # T => U \in good
        PROVE  T \in good
    <2>1. CASE T = {}
      BY <2>1, SumEmpty
    <2>2. CASE T # {}
      <3> DEFINE y == One(T)
      <3>1. y \in T
        BY <2>2 DEF One
      <3>2. IsFiniteSet(T)
        BY FS_Subset
      <3>3. Sum(f, T) = f[y] + Sum(f, T \ {y})
        BY <2>2, <3>2, SumUnfolds
      <3> HIDE DEF y
      <3>4. T \ {y} \in good /\ f[y] \in Int
        <4>1. T \ {y} \in SUBSET T /\ T \ {y} # T
          BY <3>1
        <4> QED
          BY <1>1, <3>1, <4>1
      <3>5. ASSUME NEW x \in T, x # y
            PROVE  Sum(f, T) = f[x] + Sum(f, T \ {x})
        <4> DEFINE rest == T \ {x, y}
        <4>1. /\ x \in T \ {y} /\ y \in T \ {x}
              /\ (T \ {y}) \ {x} = rest /\ (T \ {x}) \ {y} = rest
          BY <3>1, <3>5
        <4>2. Sum(f, T \ {y}) = f[x] + Sum(f, rest)
          BY <3>4, <4>1
        <4>3. T \ {x} \in good /\ rest \in good
          <5>1. T \ {x} \in SUBSET T /\ T \ {x} # T /\ rest \in SUBSET T /\ rest # T
            BY <3>5
          <5> QED
            BY <1>1, <5>1
        <4>4. Sum(f, T \ {x}) = f[y] + Sum(f, rest)
          BY <4>1, <4>3
        <4>5. f[x] \in Int /\ f[y] \in Int /\ Sum(f, rest) \in Int
          BY <3>4, <4>3
        <4> HIDE DEF rest
        <4> QED
          BY <3>3, <4>2, <4>4, <4>5
      <3>6. Sum(f, T) \in Int
        BY <3>3, <3>4
      <3> QED
        BY <3>3, <3>5, <3>6
    <2> QED
      BY <2>1, <2>2
  <1> HIDE DEF good
  <1>2. S \in good
    BY <1>1, SubsetInduction
  <1> QED
    BY <1>2 DEF good

\* The sum of a difference.
LEMMA SumMinus ==
  ASSUME NEW S, IsFiniteSet(S), NEW f, NEW g, NEW h,
         \A x \in S : f[x] \in Int /\ g[x] \in Int /\ h[x] = f[x] - g[x]
  PROVE  Sum(h, S) = Sum(f, S) - Sum(g, S)
  <1> DEFINE good == {T \in SUBSET S : Sum(h, T) = Sum(f, T) - Sum(g, T)}
  <1>1. ASSUME NEW T \in SUBSET S, \A U \in SUBSET T : U # T => U \in good
        PROVE  T \in good
    <2>1. CASE T = {}
      BY <2>1, SumEmpty
    <2>2. CASE T # {}
      <3>1. PICK x \in T : TRUE
        BY <2>2
      <3>2. /\ IsFiniteSet(T) /\ IsFiniteSet(T \ {x}) /\ T \ {x} \in good
            /\ \A y \in T : f[y] \in Int /\ g[y] \in Int /\ h[y] \in Int
            /\ f[x] \in Int /\ g[x] \in Int /\ h[x] = f[x] - g[x]
        <4>1. T \ {x} \in SUBSET T /\ T \ {x} # T
          BY <3>1
        <4> QED
          BY <1>1, <4>1, FS_Subset
      <3>3. Sum(f, T) = f[x] + Sum(f, T \ {x}) /\ Sum(f, T \ {x}) \in Int
        BY <3>2, SumTakes
      <3>4. Sum(g, T) = g[x] + Sum(g, T \ {x}) /\ Sum(g, T \ {x}) \in Int
        BY <3>2, SumTakes
      <3>5. Sum(h, T) = h[x] + Sum(h, T \ {x})
        BY <3>2, SumTakes
      <3>6. Sum(h, T \ {x}) = Sum(f, T \ {x}) - Sum(g, T \ {x})
        BY <3>2
      <3>7. Sum(h, T) = Sum(f, T) - Sum(g, T)
        BY <3>2, <3>3, <3>4, <3>5, <3>6
      <3> QED
        BY <3>7
    <2> QED
      BY <2>1, <2>2
  <1> HIDE DEF good
  <1>2. S \in good
    BY <1>1, SubsetInduction
  <1> QED
    BY <1>2 DEF good

\* Equal summands have equal sums.
LEMMA SumSame ==
  ASSUME NEW S, IsFiniteSet(S), NEW f, NEW g, \A x \in S : f[x] \in Int /\ f[x] = g[x]
  PROVE  Sum(f, S) = Sum(g, S)
  <1> DEFINE zero == [x \in S |-> 0]
  <1>1. Sum(f, S) = Sum(f, S) - Sum(zero, S) /\ Sum(g, S) = Sum(f, S) - Sum(zero, S)
    <2>1. \A x \in S : zero[x] \in Int /\ f[x] = f[x] - zero[x] /\ g[x] = f[x] - zero[x]
      OBVIOUS
    <2> HIDE DEF zero
    <2> QED
      BY <2>1, SumMinus
  <1> QED
    BY <1>1

LEMMA SumOfZeros ==
  ASSUME NEW S, IsFiniteSet(S), NEW f, \A x \in S : f[x] = 0
  PROVE  Sum(f, S) = 0
  <1>1. Sum(f, S) = Sum(f, S) - Sum(f, S) /\ Sum(f, S) \in Int
    BY SumMinus, SumTakes
  <1> QED
    BY <1>1

\* A sum splits by any key: it is the sum, over the keys, of the sums of the
\* elements of each.
Class(T, key, k) == {x \in T : key[x] = k}

LEMMA SumSplits ==
  ASSUME NEW S, IsFiniteSet(S), NEW K, IsFiniteSet(K), NEW key \in [S -> K],
         NEW f, \A x \in S : f[x] \in Int
  PROVE  Sum(f, S) = Sum([k \in K |-> Sum(f, Class(S, key, k))], K)
  <1> DEFINE By(T) == [k \in K |-> Sum(f, Class(T, key, k))]
             good == {T \in SUBSET S : Sum(f, T) = Sum(By(T), K)}
  <1>0. \A T \in SUBSET S, k \in K : By(T)[k] = Sum(f, Class(T, key, k)) /\ By(T)[k] \in Int
    <2> SUFFICES ASSUME NEW T \in SUBSET S, NEW k \in K PROVE Sum(f, Class(T, key, k)) \in Int
      OBVIOUS
    <2>1. Class(T, key, k) \in SUBSET S
      BY DEF Class
    <2>2. IsFiniteSet(Class(T, key, k)) /\ \A x \in Class(T, key, k) : f[x] \in Int
      BY <2>1, FS_Subset
    <2> QED
      BY <2>2, SumTakes
  <1> HIDE DEF By
  <1>1. ASSUME NEW T \in SUBSET S, \A U \in SUBSET T : U # T => U \in good
        PROVE  T \in good
    <2>1. CASE T = {}
      <3>1. \A k \in K : By(T)[k] = 0
        <4>1. \A k \in K : Class(T, key, k) = {}
          BY <2>1 DEF Class
        <4> QED
          BY <1>0, <4>1, SumEmpty
      <3>2. Sum(By(T), K) = 0
        BY <3>1, SumOfZeros
      <3> QED
        BY <2>1, <3>2, SumEmpty
    <2>2. CASE T # {}
      <3>1. PICK x \in T : TRUE
        BY <2>2
      <3> DEFINE U == T \ {x}
                 c == key[x]
                 rest == K \ {c}
      <3>2. c \in K /\ U \in SUBSET S /\ U \in good /\ IsFiniteSet(T) /\ IsFiniteSet(rest)
        <4>1. U \in SUBSET T /\ U # T
          BY <3>1
        <4> QED
          BY <1>1, <3>1, <4>1, FS_Subset
      <3>3. Sum(f, T) = f[x] + Sum(f, U) /\ Sum(f, U) = Sum(By(U), K) /\ f[x] \in Int
        <4>1. \A y \in T : f[y] \in Int
          OBVIOUS
        <4> QED
          BY <3>2, <4>1, SumTakes
      <3>4. \A k \in rest : By(T)[k] = By(U)[k]
        <4>1. \A k \in rest : Class(T, key, k) = Class(U, key, k)
          BY DEF Class
        <4> QED
          BY <1>0, <3>2, <4>1
      <3>5. By(T)[c] = f[x] + By(U)[c]
        <4> DEFINE C == Class(T, key, c)
        <4>1. C \in SUBSET S /\ x \in C /\ C \ {x} = Class(U, key, c)
          BY DEF Class
        <4> HIDE DEF C
        <4>2. IsFiniteSet(C) /\ \A y \in C : f[y] \in Int
          BY <4>1, FS_Subset
        <4>3. Sum(f, C) = f[x] + Sum(f, C \ {x})
          BY <4>1, <4>2, SumTakes
        <4> QED
          BY <1>0, <3>2, <4>1, <4>3 DEF C
      <3>6. /\ \A k \in K : By(T)[k] \in Int /\ By(U)[k] \in Int
            /\ Sum(By(T), rest) \in Int
        <4>1. \A k \in K : By(T)[k] \in Int /\ By(U)[k] \in Int
          BY <1>0, <3>2
        <4>2. \A k \in rest : By(T)[k] \in Int
          BY <4>1
        <4> QED
          BY <3>2, <4>1, <4>2, SumTakes
      <3> HIDE DEF U, c
      <3>7. Sum(By(T), K) = By(T)[c] + Sum(By(T), rest) /\ Sum(By(U), K) = By(U)[c] + Sum(By(U), rest)
        BY <3>2, <3>6, SumTakes
      <3>8. Sum(By(T), rest) = Sum(By(U), rest)
        <4>1. \A k \in rest : By(T)[k] \in Int /\ By(T)[k] = By(U)[k]
          BY <3>4, <3>6
        <4> HIDE DEF rest
        <4> QED
          BY <3>2, <4>1, SumSame
      <3> HIDE DEF rest
      <3>9. Sum(f, T) = Sum(By(T), K)
        BY <3>2, <3>3, <3>5, <3>6, <3>7, <3>8
      <3> QED
        BY <3>9
    <2> QED
      BY <2>1, <2>2
  <1> HIDE DEF good
  <1>2. S \in good
    BY <1>1, SubsetInduction
  <1> QED
    BY <1>2 DEF good, By

-----------------------------------------------------------------------------
(* The summaries.                                                          *)

Outs(list) == [r \in list |-> OutflowOf(r)]
Ins(list) == [r \in list |-> InflowOf(r)]

LEMMA FlowsAre ==
  ASSUME NEW list, IsList(list), NEW T \in SUBSET list
  PROVE  /\ IsFiniteSet(T)
         /\ \A r \in T : /\ Outs(list)[r] \in Int /\ Ins(list)[r] \in Int
                        /\ r.data.amount = Ins(list)[r] - Outs(list)[r]
         /\ Outflow(T) = Sum(Outs(list), T) /\ Inflow(T) = Sum(Ins(list), T)
         /\ Outflow(T) \in Int /\ Inflow(T) \in Int
  <1>1. IsFiniteSet(T)
    BY FS_Subset DEF IsList
  <1>2. \A r \in T : /\ OutflowOf(r) \in Int /\ InflowOf(r) \in Int
                     /\ r.data.amount = InflowOf(r) - OutflowOf(r)
    BY DEF IsList, OutflowOf, InflowOf
  <1>3. Outflow(T) = Sum([r \in T |-> OutflowOf(r)], T) /\ Inflow(T) = Sum([r \in T |-> InflowOf(r)], T)
    BY DEF Outflow, Inflow, Sum, SumFunction
  <1>4. Outflow(T) = Sum(Outs(list), T)
    <2> DEFINE f == [r \in T |-> OutflowOf(r)]
    <2>1. \A r \in T : f[r] \in Int /\ f[r] = Outs(list)[r]
      BY <1>2 DEF Outs
    <2> HIDE DEF f
    <2>2. Sum(f, T) = Sum(Outs(list), T)
      BY <1>1, <2>1, SumSame
    <2> QED
      BY <1>3, <2>2 DEF f
  <1>5. Inflow(T) = Sum(Ins(list), T)
    <2> DEFINE f == [r \in T |-> InflowOf(r)]
    <2>1. \A r \in T : f[r] \in Int /\ f[r] = Ins(list)[r]
      BY <1>2 DEF Ins
    <2> HIDE DEF f
    <2>2. Sum(f, T) = Sum(Ins(list), T)
      BY <1>1, <2>1, SumSame
    <2> QED
      BY <1>3, <2>2 DEF f
  <1>6. \A r \in T : /\ Outs(list)[r] \in Int /\ Ins(list)[r] \in Int
                     /\ r.data.amount = Ins(list)[r] - Outs(list)[r]
    BY <1>2 DEF Outs, Ins
  <1> QED
    BY <1>1, <1>4, <1>5, <1>6, SumTakes

\* The sums of a set of transactions that holds all of an entry or nothing of
\* it are the sums of its entries.
LEMMA EntriesSplit ==
  ASSUME NEW list, IsList(list), NEW T \in SUBSET list,
         \A r \in T, x \in list :
           x.data.month = r.data.month /\ x.data.category = r.data.category => x \in T
  PROVE  LET lines == {LineOf(list, r) : r \in T}
         IN Outflow(T) = Expenses(lines) /\ Inflow(T) = Incomes(lines)
  <1> DEFINE lines == {LineOf(list, r) : r \in T}
             key == [r \in T |-> LineOf(list, r)]
             Same(k) == In(Of(list, k.month), k.category)
  <1>1. IsFiniteSet(T) /\ \A r \in T : Outs(list)[r] \in Int /\ Ins(list)[r] \in Int
    BY FlowsAre
  <1>2. key \in [T -> lines] /\ IsFiniteSet(lines)
    <2>1. key \in Surjection(T, lines)
      BY DEF Surjection
    <2> QED
      BY <1>1, <2>1, FS_Surjection
  <1>3. \A r \in list : /\ LineOf(list, r).month = r.data.month
                        /\ LineOf(list, r).category = r.data.category
                        /\ LineOf(list, r).expense = Outflow(Same(LineOf(list, r)))
                        /\ LineOf(list, r).income = Inflow(Same(LineOf(list, r)))
    BY DEF LineOf
  <1>4. ASSUME NEW k \in lines
        PROVE  /\ Class(T, key, k) = Same(k)
               /\ Same(k) \in SUBSET list
               /\ k.expense = Outflow(Same(k)) /\ k.income = Inflow(Same(k))
    <2>1. PICK r \in T : k = LineOf(list, r)
      OBVIOUS
    <2>2. \A x \in T : key[x] = k <=> x.data.month = k.month /\ x.data.category = k.category
      <3>1. \A x \in T : x.data.month = k.month /\ x.data.category = k.category
                         => LineOf(list, x) = k
        BY <1>3, <2>1 DEF LineOf
      <3> QED
        BY <1>3, <3>1
    <2>3. Class(T, key, k) = Same(k)
      BY <1>3, <2>1, <2>2 DEF Class, In, Of
    <2> QED
      BY <1>3, <2>1, <2>3 DEF In, Of
  <1> HIDE DEF key, lines
  <1>5. Outflow(T) = Expenses(lines)
    <2> DEFINE f == [k \in lines |-> Sum(Outs(list), Class(T, key, k))]
               g == [k \in lines |-> k.expense]
    <2>1. Sum(Outs(list), T) = Sum(f, lines)
      BY <1>1, <1>2, SumSplits
    <2>2. \A k \in lines : f[k] \in Int /\ f[k] = g[k]
      BY <1>4, FlowsAre
    <2> HIDE DEF f, g
    <2>3. Sum(f, lines) = Sum(g, lines)
      BY <1>2, <2>2, SumSame
    <2>4. Expenses(lines) = Sum(g, lines)
      BY DEF Expenses, Sum, SumFunction, g
    <2> QED
      BY <2>1, <2>3, <2>4, FlowsAre
  <1>6. Inflow(T) = Incomes(lines)
    <2> DEFINE f == [k \in lines |-> Sum(Ins(list), Class(T, key, k))]
               g == [k \in lines |-> k.income]
    <2>1. Sum(Ins(list), T) = Sum(f, lines)
      BY <1>1, <1>2, SumSplits
    <2>2. \A k \in lines : f[k] \in Int /\ f[k] = g[k]
      BY <1>4, FlowsAre
    <2> HIDE DEF f, g
    <2>3. Sum(f, lines) = Sum(g, lines)
      BY <1>2, <2>2, SumSame
    <2>4. Incomes(lines) = Sum(g, lines)
      BY DEF Incomes, Sum, SumFunction, g
    <2> QED
      BY <2>1, <2>3, <2>4, FlowsAre
  <1> QED
    BY <1>5, <1>6 DEF lines

\* The month's totals are the sums of its entries and of its amounts, for a
\* list of any length (monthlyTotals and byCategoryMonth of summaries.ts).
THEOREM TotalsAddUp == \A list : IsList(list) => TotalsAgree(list)
  <1> SUFFICES ASSUME NEW list, IsList(list), NEW t \in MonthlyTotals(list)
               PROVE  LET lines == {c \in ByCategoryMonth(list) : c.month = t.month}
                      IN /\ t.net = SumFunction([r \in Of(list, t.month) |-> r.data.amount])
                         /\ t.expense = Expenses(lines)
                         /\ t.income = Incomes(lines)
    BY DEF TotalsAgree
  <1>0. PICK m \in Months(list) :
          /\ t.month = m /\ t.net = Inflow(Of(list, m)) - Outflow(Of(list, m))
          /\ t.expense = Outflow(Of(list, m)) /\ t.income = Inflow(Of(list, m))
    BY DEF MonthlyTotals
  <1> DEFINE T == Of(list, m)
             lines == {c \in ByCategoryMonth(list) : c.month = m}
             amounts == [r \in T |-> r.data.amount]
  <1>1. T \in SUBSET list
    BY DEF Of
  <1>2. lines = {LineOf(list, r) : r \in T}
    <2>1. \A r \in list : LineOf(list, r).month = r.data.month
      BY DEF LineOf
    <2> QED
      BY <2>1 DEF ByCategoryMonth, Of
  <1>3. Outflow(T) = Expenses(lines) /\ Inflow(T) = Incomes(lines)
    <2>1. \A r \in T, x \in list : x.data.month = r.data.month => x \in T
      BY DEF Of
    <2> HIDE DEF T, lines
    <2> QED
      BY <1>1, <1>2, <2>1, EntriesSplit
  <1>4. Inflow(T) - Outflow(T) = SumFunction(amounts)
    <2>1. /\ IsFiniteSet(T)
          /\ \A r \in T : /\ Outs(list)[r] \in Int /\ Ins(list)[r] \in Int
                          /\ amounts[r] = Ins(list)[r] - Outs(list)[r]
          /\ Outflow(T) = Sum(Outs(list), T) /\ Inflow(T) = Sum(Ins(list), T)
      BY <1>1, FlowsAre
    <2>2. SumFunction(amounts) = Sum(amounts, T)
      BY DEF SumFunction, Sum
    <2> HIDE DEF amounts, T
    <2>3. Sum(amounts, T) = Sum(Ins(list), T) - Sum(Outs(list), T)
      BY <2>1, SumMinus
    <2> QED
      BY <2>1, <2>2, <2>3
  <1> QED
    BY <1>0, <1>3, <1>4

\* What a budget counts is what the entries shown under its name report, also
\* when a category is typed as the name of the empty one (budgetStatus).
THEOREM BudgetsAddUp == \A list : IsList(list) => BudgetsAgree(list)
  <1> SUFFICES ASSUME NEW list, IsList(list), NEW m, NEW name
               PROVE  Spent(list, m, name) =
                        Expenses({c \in ByCategoryMonth(list) :
                                    c.month = m /\ NameOf(c.category) = name})
    BY DEF BudgetsAgree, BudgetLine
  <1> DEFINE T == {r \in Of(list, m) : NameOf(r.data.category) = name}
             lines == {c \in ByCategoryMonth(list) : c.month = m /\ NameOf(c.category) = name}
  <1>1. T \in SUBSET list
    BY DEF Of
  <1>2. lines = {LineOf(list, r) : r \in T}
    <2>1. \A r \in list : LineOf(list, r).month = r.data.month
                          /\ LineOf(list, r).category = r.data.category
      BY DEF LineOf
    <2> QED
      BY <2>1 DEF ByCategoryMonth, Of
  <1>3. \A r \in T, x \in list :
          x.data.month = r.data.month /\ x.data.category = r.data.category => x \in T
    BY DEF Of
  <1>4. Spent(list, m, name) = Outflow(T)
    BY DEF Spent
  <1> HIDE DEF T, lines
  <1>5. Outflow(T) = Expenses(lines)
    BY <1>1, <1>2, <1>3, EntriesSplit
  <1> QED
    BY <1>4, <1>5 DEF lines
=============================================================================

--------------------------- MODULE EvaluationProofs ---------------------------
(***************************************************************************)
(* Proofs about Evaluation, for any suites, distillers and outcomes of the *)
(* queries.                                                                *)
(***************************************************************************)
EXTENDS Evaluation, FiniteSetTheorems, SequenceTheorems, WellFoundedInduction, TLAPS

(***************************************************************************)
(* Finite sets, taken apart.                                               *)
(***************************************************************************)

\* what passes from the smaller sets to a larger one holds of a finite set
LEMMA FiniteSubsets ==
  ASSUME NEW T, IsFiniteSet(T), NEW P,
         \A s \in SUBSET T : (\A u \in SUBSET s : u # s => u \in P) => s \in P
  PROVE  T \in P
<1> DEFINE Bad == {s \in SUBSET T : s \notin P}
<1>1. Bad \subseteq FiniteSubsetsOf(T)
  BY FS_Subset DEF FiniteSubsetsOf
<1>2. SUFFICES ASSUME Bad # {} PROVE FALSE
  OBVIOUS
<1>3. PICK s \in Bad : \A u \in Bad : <<u, s>> \notin StrictSubsetOrdering(T)
  <2> HIDE DEF Bad
  <2> QED BY <1>1, <1>2, FS_StrictSubsetOrderingWellFounded, WFMin
<1>4. ASSUME NEW u \in SUBSET s, u # s PROVE u \in P
  BY <1>3, <1>4 DEF StrictSubsetOrdering
<1> QED BY <1>4

\* or one element at a time
LEMMA FiniteSteps ==
  ASSUME NEW T, IsFiniteSet(T), NEW P, {} \in P,
         \A s \in SUBSET T : \A x \in T \ s : s \in P => s \cup {x} \in P
  PROVE  T \in P
<1>1. ASSUME NEW s \in SUBSET T, \A u \in SUBSET s : u # s => u \in P PROVE s \in P
  <2>1. CASE s = {}
    BY <2>1
  <2>2. CASE s # {}
    <3>1. PICK x \in s : TRUE
      BY <2>2
    <3>2. s \ {x} \in P /\ x \in T \ (s \ {x}) /\ s \ {x} \in SUBSET T
      BY <1>1
    <3>3. s = (s \ {x}) \cup {x}
      OBVIOUS
    <3> QED BY <3>2, <3>3, Zenon
  <2> QED BY <2>1, <2>2
<1> QED BY <1>1, FiniteSubsets

\* The element a fold takes first.
Taken(s) == CHOOSE x \in s : TRUE

\* f[s] is the sum over s, in whatever order.
SumsUp(f, g, T) ==
  /\ f \in [SUBSET T -> Int]
  /\ f[{}] = 0
  /\ \A s \in SUBSET T : \A x \in s : f[s] = g[x] + f[s \ {x}]

\* f[s] is the sum over s in the order of the fold.
InOrder(f, g, T) == f = [s \in SUBSET T |-> IF s = {} THEN 0 ELSE g[Taken(s)] + f[s \ {Taken(s)}]]

\* the sum over a finite set exists
LEMMA SumsExist ==
  ASSUME NEW T, IsFiniteSet(T), NEW g, \A x \in T : g[x] \in Int
  PROVE  \E f : SumsUp(f, g, T)
<1> DEFINE P == {s \in SUBSET T : \E f : SumsUp(f, g, s)}
<1>1. {} \in P
  <2>1. SumsUp([s \in SUBSET {} |-> 0], g, {})
    BY DEF SumsUp
  <2> QED BY <2>1
<1>2. ASSUME NEW s \in SUBSET T, NEW x \in T \ s, s \in P PROVE s \cup {x} \in P
  <2>1. PICK f : SumsUp(f, g, s)
    BY <1>2
  <2> DEFINE h == [u \in SUBSET (s \cup {x}) |-> IF x \in u THEN g[x] + f[u \ {x}] ELSE f[u]]
  <2>2. f \in [SUBSET s -> Int] /\ g[x] \in Int
    BY <2>1 DEF SumsUp
  <2>3. h \in [SUBSET (s \cup {x}) -> Int]
    <3>1. ASSUME NEW u \in SUBSET (s \cup {x})
          PROVE  (IF x \in u THEN g[x] + f[u \ {x}] ELSE f[u]) \in Int
      <4>1. u \ {x} \in SUBSET s /\ (x \notin u => u \in SUBSET s)
        OBVIOUS
      <4>2. f[u \ {x}] \in Int /\ (x \notin u => f[u] \in Int)
        BY <2>2, <4>1
      <4> QED BY <2>2, <4>2
    <3> QED BY <3>1
  <2>4. h[{}] = 0
    BY <2>1 DEF SumsUp
  <2>5. ASSUME NEW u \in SUBSET (s \cup {x}), NEW y \in u
        PROVE  h[u] = g[y] + h[u \ {y}]
    <3>0. u \ {y} \in SUBSET (s \cup {x}) /\ u \ {x} \in SUBSET s
      OBVIOUS
    <3>1. CASE x \notin u
      <4>1. u \in SUBSET s /\ x \notin u \ {y}
        BY <3>1
      <4>2. h[u] = f[u] /\ h[u \ {y}] = f[u \ {y}]
        BY <3>0, <3>1, <4>1
      <4> QED BY <2>1, <4>1, <4>2 DEF SumsUp
    <3>2. CASE x \in u /\ y = x
      <4>1. h[u] = g[x] + f[u \ {x}]
        BY <3>2
      <4>2. h[u \ {x}] = f[u \ {x}]
        BY <3>0, <3>2
      <4> QED BY <3>2, <4>1, <4>2
    <3>3. CASE x \in u /\ y # x
      <4>1. h[u] = g[x] + f[u \ {x}]
        BY <3>3
      <4>2. h[u \ {y}] = g[x] + f[(u \ {y}) \ {x}]
        BY <3>0, <3>3
      <4>3. f[u \ {x}] = g[y] + f[(u \ {x}) \ {y}]
        BY <2>1, <3>0, <3>3 DEF SumsUp
      <4>4. (u \ {x}) \ {y} = (u \ {y}) \ {x} /\ (u \ {x}) \ {y} \in SUBSET s
        BY <3>0
      <4>5. f[(u \ {x}) \ {y}] \in Int /\ g[y] \in Int
        BY <2>2, <4>4
      <4>6. f[u \ {x}] = g[y] + f[(u \ {x}) \ {y}] /\ h[u \ {y}] = g[x] + f[(u \ {x}) \ {y}]
        BY <4>2, <4>3, <4>4, Zenon
      <4> DEFINE rest == f[(u \ {x}) \ {y}]
      <4> HIDE DEF h, rest
      <4>7. h[u] = g[x] + (g[y] + rest) /\ h[u \ {y}] = g[x] + rest /\ rest \in Int
        BY <4>1, <4>5, <4>6 DEF rest
      <4> QED BY <2>2, <4>5, <4>7
    <3> HIDE DEF h
    <3> QED BY <3>1, <3>2, <3>3
  <2>6. SumsUp(h, g, s \cup {x})
    <3> HIDE DEF h
    <3> QED BY <2>3, <2>4, <2>5 DEF SumsUp
  <2> HIDE DEF h
  <2> QED BY <2>6
<1>3. T \in P
  <2> HIDE DEF P
  <2> QED BY <1>1, <1>2, FiniteSteps
<1> QED BY <1>3

\* there is one sum
LEMMA SumsAgree ==
  ASSUME NEW T, NEW g, NEW f, SumsUp(f, g, T), NEW U \in SUBSET T, IsFiniteSet(U),
         NEW h, SumsUp(h, g, U) \/ InOrder(h, g, U)
  PROVE  h[U] = f[U]
<1> DEFINE P == {s \in SUBSET U : h[s] = f[s]}
<1>1. h[{}] = 0
  BY DEF SumsUp, InOrder
<1>2. ASSUME NEW s \in SUBSET U, s # {} PROVE \E x \in s : h[s] = g[x] + h[s \ {x}]
  <2>1. Taken(s) \in s
    BY <1>2 DEF Taken
  <2>2. CASE SumsUp(h, g, U)
    BY <2>1, <2>2 DEF SumsUp
  <2>3. CASE InOrder(h, g, U)
    <3>1. h[s] = g[Taken(s)] + h[s \ {Taken(s)}]
      BY <1>2, <2>3 DEF InOrder
    <3> QED BY <2>1, <3>1
  <2> QED BY <2>2, <2>3
<1>3. ASSUME NEW s \in SUBSET U, \A u \in SUBSET s : u # s => u \in P PROVE s \in P
  <2>1. CASE s = {}
    BY <1>1, <2>1 DEF SumsUp
  <2>2. CASE s # {}
    <3>1. PICK x \in s : h[s] = g[x] + h[s \ {x}]
      BY <1>2, <2>2
    <3>2. h[s \ {x}] = f[s \ {x}]
      BY <1>3
    <3>3. f[s] = g[x] + f[s \ {x}]
      BY DEF SumsUp
    <3> QED BY <3>1, <3>2, <3>3
  <2> QED BY <2>1, <2>2
<1>4. U \in P
  <2> HIDE DEF P
  <2> QED BY <1>3, FiniteSubsets
<1> QED BY <1>4

\* A fold takes the elements in an order of its own, but a sum depends on none.
LEMMA FoldSums ==
  ASSUME NEW T, IsFiniteSet(T), NEW g, \A x \in T : g[x] \in Int,
         NEW f, SumsUp(f, g, T), NEW U \in SUBSET T
  PROVE  SumFunctionOnSet(g, U) = f[U]
<1> DEFINE h == CHOOSE h : InOrder(h, g, U)
<1>1. SumFunctionOnSet(g, U) = h[U]
  BY DEF SumFunctionOnSet, FoldFunctionOnSet, MapThenFoldSet, InOrder, Taken
<1>2. \E i : InOrder(i, g, U)
  <2> DEFINE i == [s \in SUBSET U |-> f[s]]
  <2>1. ASSUME NEW s \in SUBSET U
        PROVE  i[s] = IF s = {} THEN 0 ELSE g[Taken(s)] + i[s \ {Taken(s)}]
    BY DEF SumsUp, Taken
  <2>2. InOrder(i, g, U)
    BY <2>1 DEF InOrder
  <2> QED BY <2>2
<1>3. InOrder(h, g, U)
  BY <1>2
<1> HIDE DEF h
<1>4. IsFiniteSet(U)
  BY FS_Subset
<1> QED BY <1>1, <1>3, <1>4, SumsAgree

\* nothing adds up to nothing
LEMMA SumOfNone == ASSUME NEW g PROVE SumFunctionOnSet(g, {}) = 0
<1> DEFINE none == {}
<1>1. IsFiniteSet(none) /\ (\A x \in none : g[x] \in Int) /\ none \in SUBSET none
  BY FS_EmptySet
<1> HIDE DEF none
<1>2. PICK f : SumsUp(f, g, none)
  BY <1>1, SumsExist
<1>3. SumFunctionOnSet(g, none) = f[none]
  BY <1>1, <1>2, FoldSums
<1> QED BY <1>2, <1>3 DEF SumsUp, none

\* one more element adds its term
LEMMA SumStep ==
  ASSUME NEW T, IsFiniteSet(T), NEW g, \A x \in T : g[x] \in Int, NEW x \in T
  PROVE  /\ SumFunctionOnSet(g, T) \in Int
         /\ SumFunctionOnSet(g, T \ {x}) \in Int
         /\ SumFunctionOnSet(g, T) = g[x] + SumFunctionOnSet(g, T \ {x})
<1>1. PICK f : SumsUp(f, g, T)
  BY SumsExist
<1>2. SumFunctionOnSet(g, T) = f[T] /\ SumFunctionOnSet(g, T \ {x}) = f[T \ {x}]
  BY <1>1, FoldSums
<1> QED BY <1>1, <1>2 DEF SumsUp

\* a sum depends on the terms alone
LEMMA SumAgrees ==
  ASSUME NEW T, IsFiniteSet(T), NEW g, NEW h, \A x \in T : g[x] \in Int /\ h[x] = g[x]
  PROVE  SumFunctionOnSet(h, T) = SumFunctionOnSet(g, T)
<1> DEFINE P == {s \in SUBSET T : SumFunctionOnSet(h, s) = SumFunctionOnSet(g, s)}
<1>1. {} \in P
  BY SumOfNone
<1>2. ASSUME NEW s \in SUBSET T, NEW x \in T \ s, s \in P PROVE s \cup {x} \in P
  <2>1. IsFiniteSet(s \cup {x}) /\ (s \cup {x}) \ {x} = s /\ x \in s \cup {x}
    BY FS_Subset
  <2>2. \A y \in s \cup {x} : g[y] \in Int /\ h[y] \in Int
    OBVIOUS
  <2>3. /\ SumFunctionOnSet(h, s \cup {x}) = h[x] + SumFunctionOnSet(h, s)
        /\ SumFunctionOnSet(g, s \cup {x}) = g[x] + SumFunctionOnSet(g, s)
    BY <2>1, <2>2, SumStep
  <2>4. h[x] = g[x]
    OBVIOUS
  <2> QED BY <1>2, <2>3, <2>4
<1>3. T \in P
  <2> HIDE DEF P
  <2> QED BY <1>1, <1>2, FiniteSteps
<1> QED BY <1>3

\* a sum of integers is one
LEMMA SumIsInt ==
  ASSUME NEW T, IsFiniteSet(T), NEW g, \A x \in T : g[x] \in Int, NEW s \in SUBSET T
  PROVE  SumFunctionOnSet(g, s) \in Int
<1>1. PICK f : SumsUp(f, g, T)
  BY SumsExist
<1>2. SumFunctionOnSet(g, s) = f[s]
  BY <1>1, FoldSums
<1> QED BY <1>1, <1>2 DEF SumsUp

\* smaller terms have the smaller sum, and only equal terms an equal one
LEMMA SumBounded ==
  ASSUME NEW T, IsFiniteSet(T), NEW g, NEW h,
         \A x \in T : g[x] \in Int /\ h[x] \in Int /\ g[x] <= h[x]
  PROVE  /\ SumFunctionOnSet(g, T) <= SumFunctionOnSet(h, T)
         /\ SumFunctionOnSet(g, T) = SumFunctionOnSet(h, T) => \A x \in T : g[x] = h[x]
<1> DEFINE G(s) == SumFunctionOnSet(g, s)
           H(s) == SumFunctionOnSet(h, s)
           Same(s) == \A x \in s : g[x] = h[x]
           P == {s \in SUBSET T : G(s) <= H(s) /\ (G(s) = H(s) => Same(s))}
<1>1. {} \in P
  BY SumOfNone
<1>2. ASSUME NEW s \in SUBSET T, NEW x \in T \ s, s \in P PROVE s \cup {x} \in P
  <2> DEFINE t == s \cup {x}
  <2>1. IsFiniteSet(t) /\ t \ {x} = s /\ x \in t
    BY FS_Subset
  <2>2. (\A y \in t : g[y] \in Int) /\ (\A y \in t : h[y] \in Int)
    OBVIOUS
  <2>3. G(t) = g[x] + G(s) /\ H(t) = h[x] + H(s)
    BY <2>1, <2>2, SumStep
  <2>4. G(s) \in Int /\ H(s) \in Int
    BY SumIsInt
  <2>5. G(s) <= H(s) /\ (G(s) = H(s) => Same(s))
    BY <1>2
  <2>6. g[x] \in Int /\ h[x] \in Int /\ g[x] <= h[x]
    OBVIOUS
  <2>7. G(t) <= H(t) /\ (G(t) = H(t) => G(s) = H(s) /\ g[x] = h[x])
    <3> HIDE DEF G, H
    <3> QED BY <2>3, <2>4, <2>5, <2>6
  <2>8. Same(s) /\ g[x] = h[x] => Same(t)
    OBVIOUS
  <2>9. t \in SUBSET T
    OBVIOUS
  <2> HIDE DEF G, H, Same, t
  <2>10. t \in P
    BY <2>5, <2>7, <2>8, <2>9
  <2> QED BY <2>10 DEF t
<1>3. T \in P
  <2> HIDE DEF P
  <2> QED BY <1>1, <1>2, FiniteSteps
<1>4. G(T) <= H(T) /\ (G(T) = H(T) => Same(T))
  <2> HIDE DEF G, H, Same
  <2> QED BY <1>3
<1> QED BY <1>4

\* a sum of equal terms is a product
LEMMA SumOfEqual ==
  ASSUME NEW T, IsFiniteSet(T), NEW c \in Int, NEW g, \A x \in T : g[x] = c
  PROVE  SumFunctionOnSet(g, T) = c * Cardinality(T)
<1> DEFINE G(s) == SumFunctionOnSet(g, s)
           P == {s \in SUBSET T : G(s) = c * Cardinality(s)}
<1>1. {} \in P
  BY SumOfNone, FS_EmptySet
<1>2. ASSUME NEW s \in SUBSET T, NEW x \in T \ s, s \in P PROVE s \cup {x} \in P
  <2>1. IsFiniteSet(s) /\ IsFiniteSet(s \cup {x}) /\ (s \cup {x}) \ {x} = s /\ x \in s \cup {x}
    BY FS_Subset
  <2>2. \A y \in s \cup {x} : g[y] \in Int
    OBVIOUS
  <2>3. G(s \cup {x}) = g[x] + G(s)
    BY <2>1, <2>2, SumStep
  <2>4. Cardinality(s) \in Nat /\ Cardinality(s \cup {x}) = Cardinality(s) + 1
    BY <2>1, FS_AddElement, FS_CardinalityType
  <2> HIDE DEF G
  <2>5. g[x] = c /\ G(s) = c * Cardinality(s)
    BY <1>2
  <2>6. c + c * Cardinality(s) = c * (Cardinality(s) + 1)
    BY <2>4
  <2> QED BY <2>3, <2>4, <2>5, <2>6
<1>3. T \in P
  <2> HIDE DEF P
  <2> QED BY <1>1, <1>2, FiniteSteps
<1> QED BY <1>3

\* the sizes of the classes of a finite set add up to its size
LEMMA SumOfClasses ==
  ASSUME NEW A, IsFiniteSet(A), NEW S, IsFiniteSet(S), NEW f, \A x \in S : f[x] \in A
  PROVE  SumFunctionOnSet([a \in A |-> Cardinality({x \in S : f[x] = a})], A) = Cardinality(S)
<1> DEFINE class(s, a) == {x \in s : f[x] = a}
           sizes(s) == [a \in A |-> Cardinality(class(s, a))]
           P == {s \in SUBSET S : SumFunctionOnSet(sizes(s), A) = Cardinality(s)}
<1>1. ASSUME NEW s \in SUBSET S, NEW a \in A PROVE IsFiniteSet(class(s, a)) /\ sizes(s)[a] \in Nat
  BY FS_Subset, FS_CardinalityType
<1>2. {} \in P
  <2>1. \A a \in A : sizes({})[a] = 0
    <3>1. \A a \in A : class({}, a) = {}
      OBVIOUS
    <3> QED BY <3>1, FS_EmptySet
  <2>2. SumFunctionOnSet(sizes({}), A) = 0 * Cardinality(A)
    <3> HIDE DEF sizes
    <3> QED BY <2>1, SumOfEqual
  <2>3. Cardinality(A) \in Nat /\ Cardinality({}) = 0
    BY FS_CardinalityType, FS_EmptySet
  <2> HIDE DEF sizes
  <2>4. SumFunctionOnSet(sizes({}), A) = Cardinality({})
    BY <2>2, <2>3
  <2> QED BY <2>4
<1>3. ASSUME NEW s \in SUBSET S, NEW x \in S \ s, s \in P PROVE s \cup {x} \in P
  <2> DEFINE t == s \cup {x}
             b == f[x]
  <2>1. b \in A /\ IsFiniteSet(A \ {b})
    BY FS_Subset
  <2>2. \A a \in A : sizes(s)[a] \in Int /\ sizes(t)[a] \in Int
    <3>1. t \in SUBSET S
      OBVIOUS
    <3>2. \A a \in A : sizes(s)[a] \in Nat /\ sizes(t)[a] \in Nat
      <4> HIDE DEF class, sizes, t
      <4> QED BY <1>1, <3>1
    <3> HIDE DEF sizes
    <3> QED BY <3>2
  <2>3. \A a \in A \ {b} : sizes(t)[a] = sizes(s)[a]
    <3>1. \A a \in A \ {b} : class(t, a) = class(s, a)
      OBVIOUS
    <3> QED BY <3>1
  <2>4. sizes(t)[b] = sizes(s)[b] + 1
    <3>1. class(t, b) = class(s, b) \cup {x} /\ x \notin class(s, b)
      OBVIOUS
    <3>2. IsFiniteSet(class(s, b))
      BY <1>1, <2>1
    <3>3. Cardinality(class(t, b)) = Cardinality(class(s, b)) + 1
      <4> HIDE DEF class
      <4> QED BY <3>1, <3>2, FS_AddElement
    <3> QED BY <2>1, <3>3
  <2> HIDE DEF sizes
  <2>5. /\ SumFunctionOnSet(sizes(t), A) = sizes(t)[b] + SumFunctionOnSet(sizes(t), A \ {b})
        /\ SumFunctionOnSet(sizes(s), A) = sizes(s)[b] + SumFunctionOnSet(sizes(s), A \ {b})
        /\ SumFunctionOnSet(sizes(s), A \ {b}) \in Int
    BY <2>1, <2>2, SumStep
  <2>6. SumFunctionOnSet(sizes(t), A \ {b}) = SumFunctionOnSet(sizes(s), A \ {b})
    BY <2>1, <2>2, <2>3, SumAgrees
  <2>7. Cardinality(t) = Cardinality(s) + 1
    BY FS_AddElement, FS_Subset
  <2>8. SumFunctionOnSet(sizes(s), A) = Cardinality(s)
    BY <1>3
  <2>9. SumFunctionOnSet(sizes(t), A) = Cardinality(t)
    <3> HIDE DEF b, t
    <3>1. sizes(s)[b] \in Int
      BY <2>1, <2>2
    <3> QED BY <2>4, <2>5, <2>6, <2>7, <2>8, <3>1
  <2> QED BY <2>9
<1>4. S \in P
  <2> HIDE DEF P
  <2> QED BY <1>2, <1>3, FiniteSteps
<1> QED BY <1>4

-----------------------------------------------------------------------------
(* Rows by time.                                                           *)

Projects == STRING \cup {SuiteProject} \cup {CaseProject[id] : id \in DOMAIN CaseProject}

LedgerRows == [case : Nat, event : Nat, project : Projects, at : Int, text : STRING]

\* Before is a strict total order on the rows.
LEMMA BeforeOrders ==
  ASSUME NEW rows \in Seq(LedgerRows), NEW a \in DOMAIN rows, NEW b \in DOMAIN rows,
         NEW c \in DOMAIN rows
  PROVE  /\ ~Before(rows, a, a)
         /\ Before(rows, a, b) => ~Before(rows, b, a)
         /\ a # b => Before(rows, a, b) \/ Before(rows, b, a)
         /\ Before(rows, a, b) /\ Before(rows, b, c) => Before(rows, a, c)
<1>1. \A x \in DOMAIN rows : x \in Nat /\ rows[x] \in LedgerRows
  OBVIOUS
<1>2. \A x \in DOMAIN rows : rows[x].at \in Int
  BY <1>1 DEF LedgerRows
<1> QED BY <1>1, <1>2 DEF Before

\* Of finitely many rows, one comes before the others.
LEMMA FirstRow ==
  ASSUME NEW rows \in Seq(LedgerRows), NEW T \in SUBSET DOMAIN rows, IsFiniteSet(T), T # {}
  PROVE  \E m \in T : \A x \in T \ {m} : Before(rows, m, x)
<1> DEFINE First(s, m) == \A x \in s \ {m} : Before(rows, m, x)
           P == {s \in SUBSET T : s = {} \/ \E m \in s : First(s, m)}
<1>1. {} \in P
  OBVIOUS
<1>2. ASSUME NEW s \in SUBSET T, NEW x \in T \ s, s \in P PROVE s \cup {x} \in P
  <2>1. CASE s = {}
    <3>1. First(s \cup {x}, x)
      BY <2>1
    <3> QED BY <3>1
  <2>2. CASE s # {}
    <3>1. PICK m \in s : First(s, m)
      BY <1>2, <2>2
    <3>2. CASE Before(rows, m, x)
      <4>1. First(s \cup {x}, m)
        BY <3>1, <3>2
      <4> QED BY <4>1
    <3>3. CASE ~Before(rows, m, x)
      <4>1. Before(rows, x, m)
        BY <3>3, BeforeOrders
      <4>2. ASSUME NEW y \in s PROVE Before(rows, x, y)
        BY <3>1, <4>1, BeforeOrders
      <4>3. First(s \cup {x}, x)
        BY <4>2
      <4> QED BY <4>3
    <3> QED BY <3>2, <3>3
  <2> QED BY <2>1, <2>2
<1>3. T \in P
  <2> HIDE DEF P
  <2> QED BY <1>1, <1>2, FiniteSteps
<1> QED BY <1>3

\* D takes rows of S and, with one of them, all that come before it.
FromTheFront(rows, D, S) ==
  D \subseteq S /\ \A x \in D : \A y \in S : Before(rows, y, x) => y \in D

\* One can take any number of rows from the front ...
LEMMA TakeFront ==
  ASSUME NEW rows \in Seq(LedgerRows), NEW S \in SUBSET DOMAIN rows, IsFiniteSet(S),
         NEW n \in 0..Cardinality(S)
  PROVE  \E D : FromTheFront(rows, D, S) /\ Cardinality(D) = n
<1> DEFINE P == {s \in SUBSET (1..n) : \E D : FromTheFront(rows, D, S)
                                             /\ Cardinality(D) = Cardinality(s)}
<1>0. n \in Nat /\ Cardinality(S) \in Nat /\ n <= Cardinality(S)
  BY FS_CardinalityType
<1>1. {} \in P
  <2>1. FromTheFront(rows, {}, S)
    BY DEF FromTheFront
  <2> QED BY <2>1
<1>2. IsFiniteSet(1..n) /\ Cardinality(1..n) = n
  BY <1>0, FS_Interval
<1>3. ASSUME NEW s \in SUBSET (1..n), NEW x \in (1..n) \ s, s \in P PROVE s \cup {x} \in P
  <2>1. PICK D : FromTheFront(rows, D, S) /\ Cardinality(D) = Cardinality(s)
    BY <1>3
  <2>2. /\ IsFiniteSet(s) /\ IsFiniteSet(s \cup {x})
        /\ Cardinality(s \cup {x}) = Cardinality(s) + 1
        /\ Cardinality(s \cup {x}) <= n
    <3>1. IsFiniteSet(s)
      BY <1>2, FS_Subset
    <3>2. IsFiniteSet(s \cup {x}) /\ Cardinality(s \cup {x}) = Cardinality(s) + 1
      BY <3>1, FS_AddElement
    <3>3. s \cup {x} \subseteq 1..n
      OBVIOUS
    <3>4. Cardinality(s \cup {x}) <= Cardinality(1..n)
      BY <1>2, <3>3, FS_Subset
    <3> QED BY <1>2, <3>1, <3>2, <3>4
  <2>3. IsFiniteSet(D) /\ D \subseteq S /\ Cardinality(D) \in Nat
    BY <2>1, FS_Subset, FS_CardinalityType DEF FromTheFront
  <2>4. D # S
    BY <1>0, <2>1, <2>2, <2>3
  <2>5. PICK m \in S \ D : \A y \in (S \ D) \ {m} : Before(rows, m, y)
    <3>1. IsFiniteSet(S \ D) /\ S \ D # {} /\ S \ D \in SUBSET DOMAIN rows
      BY <2>3, <2>4, FS_Subset
    <3> QED BY <3>1, FirstRow
  <2>6. FromTheFront(rows, D \cup {m}, S)
    <3>1. ASSUME NEW y \in S, Before(rows, y, m) PROVE y \in D
      <4>1. y # m /\ ~Before(rows, m, y)
        BY <3>1, BeforeOrders
      <4> QED BY <2>5, <4>1
    <3> QED BY <2>1, <2>3, <3>1 DEF FromTheFront
  <2>7. Cardinality(D \cup {m}) = Cardinality(D) + 1
    BY <2>3, FS_AddElement
  <2>8. Cardinality(D \cup {m}) = Cardinality(s \cup {x})
    BY <2>1, <2>2, <2>7
  <2>9. s \cup {x} \in SUBSET (1..n)
    OBVIOUS
  <2> QED BY <2>6, <2>8, <2>9
<1>4. 1..n \in P
  <2> HIDE DEF P
  <2> QED BY <1>1, <1>2, <1>3, FiniteSteps
<1> QED BY <1>2, <1>4

\* ... and they are the ones with fewer than that many rows before them.
Foremost(rows, S, n) ==
  {id \in S : Cardinality({other \in S : Before(rows, other, id)}) < n}

\* the rows with fewer than n before them are the n first
LEMMA FrontByRank ==
  ASSUME NEW rows \in Seq(LedgerRows), NEW S \in SUBSET DOMAIN rows, IsFiniteSet(S),
         NEW n \in 0..Cardinality(S)
  PROVE  FromTheFront(rows, Foremost(rows, S, n), S) /\ Cardinality(Foremost(rows, S, n)) = n
<1> DEFINE earlier(id) == {other \in S : Before(rows, other, id)}
<1>1. PICK D : FromTheFront(rows, D, S) /\ Cardinality(D) = n
  BY TakeFront
<1>2. IsFiniteSet(D) /\ D \subseteq S /\ n \in Nat
  BY <1>1, FS_Subset, FS_CardinalityType DEF FromTheFront
<1>3. ASSUME NEW x \in D PROVE Cardinality(earlier(x)) < n
  <2>1. earlier(x) \subseteq D \ {x}
    BY <1>1, <1>2, BeforeOrders DEF FromTheFront
  <2>2. IsFiniteSet(D \ {x}) /\ Cardinality(D \ {x}) = n - 1
    BY <1>1, <1>2, FS_RemoveElement
  <2>3. Cardinality(earlier(x)) <= n - 1 /\ Cardinality(earlier(x)) \in Nat
    <3> HIDE DEF earlier
    <3> QED BY <2>1, <2>2, FS_Subset, FS_CardinalityType
  <2> QED BY <1>2, <2>3
<1>4. ASSUME NEW x \in S \ D PROVE ~(Cardinality(earlier(x)) < n)
  <2>1. D \subseteq earlier(x)
    <3>1. ASSUME NEW y \in D PROVE Before(rows, y, x)
      <4>1. x # y /\ ~Before(rows, x, y) /\ y \in S
        BY <1>1, <1>2 DEF FromTheFront
      <4> QED BY <4>1, BeforeOrders
    <3> QED BY <1>2, <3>1
  <2>2. IsFiniteSet(earlier(x))
    BY FS_Subset
  <2>3. n <= Cardinality(earlier(x)) /\ Cardinality(earlier(x)) \in Nat
    <3> HIDE DEF earlier
    <3> QED BY <1>1, <2>1, <2>2, FS_Subset, FS_CardinalityType
  <2> QED BY <1>2, <2>3
<1>5. Foremost(rows, S, n) = {id \in S : Cardinality(earlier(id)) < n}
  BY DEF Foremost
<1>6. Foremost(rows, S, n) = D
  <2> HIDE DEF earlier
  <2> QED BY <1>2, <1>3, <1>4, <1>5
<1> QED BY <1>1, <1>6

-----------------------------------------------------------------------------
(* The inductive invariant. *)

\* how many cases have their rows in the ledger, and how many were answered
Ingested ==
  IF stage \in {"start", "refused"} THEN 0
  ELSE IF stage = "ingest" THEN index - 1 ELSE index

Answered == IF stage \in {"query", "reported"} THEN index ELSE index - 1

Running == stage \notin {"start", "refused"}

SuiteOK ==
  /\ suite \in Suites /\ distiller \in Distillers
  /\ stage \in {"start", "refused", "ingest", "project", "query", "reported"}
  /\ IF Running THEN SuiteIsValid(suite) /\ index \in 1..Len(suite.cases)
     ELSE index = 1 /\ ledger = <<>>
  /\ stage \in {"query", "reported"} => index = Len(suite.cases)

\* The ledger holds the rows of the cases so far, as many as they have events.
LedgerOK ==
  /\ ledger \in Seq(LedgerRows)
  /\ \A id \in DOMAIN ledger : /\ ledger[id].case \in 1..Ingested
                              /\ ledger[id].project = Project(suite, suite.cases[ledger[id].case])
  /\ \A i \in 1..Ingested : Cardinality(OwnRows(i)) = Len(suite.cases[i].events)

\* A pass in progress; the heuristic distiller leaves nothing pending.
PassOK ==
  /\ projected \subseteq DOMAIN ledger
  /\ todo \subseteq DOMAIN ledger \ projected
  /\ offered \subseteq DOMAIN ledger
  /\ stage # "project" => todo = {} /\ offered = {} /\ seen = 0 /\ counted = 0
  /\ seen \in Nat /\ counted \in 0..seen
  /\ distiller = "heuristic" => projected \cup todo = DOMAIN ledger

\* What OwnRowsAreOffered says of a case and what it was offered.
FairShare(i, S) ==
  LET missed == OwnRows(i) \ S
      others == S \ OwnRows(i)
  IN  /\ Cardinality(missed) = Cardinality(others)
      /\ \A id \in others : /\ ledger[id].case < i
                            /\ \A own \in missed : Before(ledger, id, own)
      /\ distiller = "heuristic" => missed = {}

OfferedOK ==
  /\ stage = "project" => FairShare(index, offered)
  /\ \A i \in DOMAIN reports : /\ reports[i].offered \subseteq DOMAIN ledger
                              /\ FairShare(i, reports[i].offered)

FoundOK ==
  \A i \in DOMAIN reports :
    \A id \in reports[i].found : id \in DOMAIN ledger
                                 /\ ledger[id].project = Project(suite, suite.cases[i])

JudgedOK(judged) ==
  /\ judged.total \in Nat \ {0} /\ judged.matched \in 0..judged.total
  /\ judged.score \in 0..Units
  /\ judged.passed \in BOOLEAN
  /\ judged.passed <=> judged.score = Units
  /\ judged.passed => judged.matched = judged.total
  /\ judged.gateFailed => judged.score = 0

ReportsOK ==
  /\ DOMAIN reports = 1..Answered /\ reports = [i \in 1..Answered |-> reports[i]]
  /\ \A i \in DOMAIN reports :
       LET r == reports[i]
       IN  /\ JudgedOK(r.judged)
           /\ r.ability = suite.cases[i].ability /\ r.baseline = suite.cases[i].baseline
           /\ r.tier \in Tiers
           /\ r.seen \in Nat /\ r.projected \in 0..r.seen

\* Every row in the graph was counted once.
CountedOK ==
  SumFunction([i \in DOMAIN reports |-> reports[i].projected]) + counted = Cardinality(projected)

IInv ==
  /\ SuiteOK /\ LedgerOK /\ PassOK /\ OfferedOK /\ FoundOK /\ ReportsOK /\ CountedOK
  /\ ReportAddsUp /\ GapNeedsALoss

-----------------------------------------------------------------------------
(* The steps.                                                              *)

\* What the runner relies on once a suite is accepted.
LEMMA SuiteTypes ==
  ASSUME suite \in Suites
  PROVE  /\ Len(suite.cases) \in Nat /\ DOMAIN suite.cases = 1..Len(suite.cases)
         /\ suite.shared \in BOOLEAN
         /\ \A i \in DOMAIN suite.cases :
              LET c == suite.cases[i]
              IN  /\ c \in Cases /\ c.id \in DOMAIN CaseProject
                  /\ Project(suite, c) \in Projects
                  /\ c.expected # <<>> => Units % Len(c.expected) = 0
<1>1. suite \in [version : Nat, shared : BOOLEAN, cases : Seq(Cases)]
  BY SuitesAssumption
<1>2. suite.cases \in Seq(Cases) /\ suite.shared \in BOOLEAN
  BY <1>1
<1>3. /\ Len(suite.cases) \in Nat /\ DOMAIN suite.cases = 1..Len(suite.cases)
      /\ \A i \in DOMAIN suite.cases : suite.cases[i] \in Cases
  BY <1>2
<1>4. ASSUME NEW i \in DOMAIN suite.cases
      PROVE  /\ suite.cases[i].id \in DOMAIN CaseProject
             /\ suite.cases[i].expected # <<>> => Units % Len(suite.cases[i].expected) = 0
  BY SuitesAssumption
<1>5. ASSUME NEW i \in DOMAIN suite.cases PROVE Project(suite, suite.cases[i]) \in Projects
  <2>1. suite.cases[i].project \in STRING
    BY <1>3 DEF Cases
  <2> QED BY <1>4, <2>1 DEF Project, Projects
<1> QED BY <1>2, <1>3, <1>4, <1>5

\* the rows of a case, and how many there are
LEMMA EventTypes ==
  ASSUME suite \in Suites, SuiteIsValid(suite), NEW i \in 1..Len(suite.cases)
  PROVE  /\ Len(suite.cases[i].events) \in Nat \ {0}
         /\ DOMAIN suite.cases[i].events = 1..Len(suite.cases[i].events)
         /\ \A e \in DOMAIN suite.cases[i].events : EventRow(suite, i, e) \in LedgerRows
         /\ [e \in DOMAIN suite.cases[i].events |-> EventRow(suite, i, e)] \in Seq(LedgerRows)
         /\ Len([e \in DOMAIN suite.cases[i].events |-> EventRow(suite, i, e)])
              = Len(suite.cases[i].events)
<1> DEFINE c == suite.cases[i]
           Event == [text : STRING, at : Int]
<1>1. c \in Cases /\ i \in Nat /\ Project(suite, c) \in Projects /\ CaseIsValid(c)
  BY SuiteTypes DEF SuiteIsValid
<1>2. c.events \in Seq(Event) /\ c.events # <<>>
  BY <1>1 DEF Cases, CaseIsValid
<1>3. /\ Len(c.events) \in Nat \ {0} /\ DOMAIN c.events = 1..Len(c.events)
      /\ \A e \in DOMAIN c.events : e \in Nat /\ c.events[e] \in Event
  <2> HIDE DEF c, Event
  <2> QED BY <1>2
<1>4. ASSUME NEW e \in DOMAIN c.events PROVE EventRow(suite, i, e) \in LedgerRows
  <2>1. c.events[e].text \in STRING /\ c.events[e].at \in Int
    BY <1>3
  <2>2. e \in Nat
    BY <1>3
  <2>3. DefaultTime(i, e) \in Int
    <3> HIDE DEF c
    <3> QED BY <1>1, <2>2 DEF DefaultTime
  <2> QED BY <1>1, <2>1, <2>2, <2>3 DEF EventRow, LedgerRows
<1> DEFINE new == [e \in DOMAIN c.events |-> EventRow(suite, i, e)]
<1>5. new \in [1..Len(c.events) -> LedgerRows]
  BY <1>3, <1>4
<1>6. new \in Seq(LedgerRows) /\ Len(new) = Len(c.events)
  <2> HIDE DEF c, new
  <2> QED BY <1>3, <1>5
<1> QED BY <1>3, <1>4, <1>6

\* The new rows of a case, the first pending ones, and what both have to do
\* with each other.
LEMMA IngestRows ==
  ASSUME IInv, Ingest
  PROVE  /\ ledger' \in Seq(LedgerRows) /\ Len(ledger) \in Nat /\ Len(ledger') \in Nat
         /\ Len(ledger') = Len(ledger) + Len(case.events)
         /\ \A id \in DOMAIN ledger : id \in DOMAIN ledger' /\ ledger'[id] = ledger[id]
         /\ \A id \in DOMAIN ledger' \ DOMAIN ledger :
              ledger'[id].case = index /\ ledger'[id].project = Project(suite, case)
         /\ \A i \in 1..index - 1 : OwnRows(i)' = OwnRows(i)
         /\ OwnRows(index)' = DOMAIN ledger' \ DOMAIN ledger
         /\ IsFiniteSet(OwnRows(index)')
         /\ Cardinality(OwnRows(index)') = Len(case.events)
<1>1. /\ suite \in Suites /\ SuiteIsValid(suite) /\ index \in 1..Len(suite.cases)
      /\ index \in Nat /\ index - 1 \in Nat
      /\ stage = "ingest" /\ Ingested = index - 1
  BY SuiteTypes DEF IInv, SuiteOK, Running, Ingest, Ingested
<1> DEFINE n == Len(case.events)
           new == [e \in DOMAIN case.events |-> EventRow(suite, index, e)]
<1>2. n \in Nat \ {0} /\ new \in Seq(LedgerRows) /\ Len(new) = n /\ DOMAIN case.events = 1..n
  BY <1>1, EventTypes DEF case
<1>3. ledger \in Seq(LedgerRows) /\ Len(ledger) \in Nat /\ DOMAIN ledger = 1..Len(ledger)
  BY DEF IInv, LedgerOK
<1>4. ledger' = ledger \o new
  BY DEF Ingest
<1>5. /\ ledger' \in Seq(LedgerRows) /\ Len(ledger') = Len(ledger) + n
      /\ DOMAIN ledger' = 1..Len(ledger) + n
      /\ \A id \in 1..Len(ledger) + n :
           ledger'[id] = IF id <= Len(ledger) THEN ledger[id] ELSE new[id - Len(ledger)]
  <2>1. /\ ledger' \in Seq(LedgerRows) /\ Len(ledger') = Len(ledger) + n
        /\ \A id \in 1..Len(ledger) + n :
             ledger'[id] = IF id <= Len(ledger) THEN ledger[id] ELSE new[id - Len(ledger)]
    <3> HIDE DEF new, n
    <3> QED BY <1>2, <1>3, <1>4, ConcatProperties
  <2> HIDE DEF new, n
  <2>2. DOMAIN ledger' = 1..Len(ledger')
    BY <2>1
  <2> QED BY <2>1, <2>2
<1>6. \A e \in 1..n : new[e].case = index /\ new[e].project = Project(suite, case)
  BY <1>2 DEF EventRow, case
<1> HIDE DEF new
<1>7. \A id \in DOMAIN ledger : id \in DOMAIN ledger' /\ ledger'[id] = ledger[id]
  <2> HIDE DEF n
  <2> QED BY <1>2, <1>3, <1>5
<1>8. /\ \A id \in DOMAIN ledger' \ DOMAIN ledger :
           ledger'[id].case = index /\ ledger'[id].project = Project(suite, case)
      /\ DOMAIN ledger' \ DOMAIN ledger = Len(ledger) + 1..Len(ledger) + n
  <2> HIDE DEF n
  <2>1. DOMAIN ledger' \ DOMAIN ledger = Len(ledger) + 1..Len(ledger) + n
    BY <1>2, <1>3, <1>5
  <2>2. ASSUME NEW id \in Len(ledger) + 1..Len(ledger) + n
        PROVE  ledger'[id].case = index /\ ledger'[id].project = Project(suite, case)
    <3>1. id - Len(ledger) \in 1..n /\ ledger'[id] = new[id - Len(ledger)]
      BY <1>2, <1>3, <1>5
    <3> QED BY <1>6, <3>1
  <2> QED BY <2>1, <2>2
<1>9. \A id \in DOMAIN ledger : ledger[id].case \in 1..index - 1
  BY <1>1 DEF IInv, LedgerOK
<1>10. suite' = suite /\ index' = index
  BY DEF Ingest
<1>11. \A i \in 1..index - 1 : OwnRows(i)' = OwnRows(i)
  <2> HIDE DEF n
  <2>1. ASSUME NEW i \in 1..index - 1, NEW id \in DOMAIN ledger' \ DOMAIN ledger
        PROVE  ledger'[id].case # i
    BY <1>1, <1>8
  <2> QED BY <1>7, <2>1 DEF OwnRows
<1>12. OwnRows(index)' = DOMAIN ledger' \ DOMAIN ledger
  <2> HIDE DEF n
  <2>1. ASSUME NEW id \in DOMAIN ledger PROVE ledger'[id].case # index
    BY <1>1, <1>7, <1>9
  <2> QED BY <1>8, <1>10, <2>1 DEF OwnRows
<1>13. /\ IsFiniteSet(Len(ledger) + 1..Len(ledger) + n)
       /\ Cardinality(Len(ledger) + 1..Len(ledger) + n) = n
  <2> HIDE DEF n
  <2>1. Len(ledger) + 1 \in Int /\ Len(ledger) + n \in Int
    BY <1>2, <1>3
  <2>2. Cardinality(Len(ledger) + 1..Len(ledger) + n)
          = (Len(ledger) + n) - (Len(ledger) + 1) + 1
    BY <1>2, <1>3, <2>1, FS_Interval
  <2> QED BY <1>2, <1>3, <2>1, <2>2, FS_Interval
<1> HIDE DEF n
<1>14. IsFiniteSet(OwnRows(index)') /\ Cardinality(OwnRows(index)') = n
  BY <1>8, <1>12, <1>13, Zenon
<1>15. Len(ledger') \in Nat
  BY <1>2, <1>3, <1>5
<1> QED BY <1>3, <1>5, <1>7, <1>8, <1>11, <1>12, <1>14, <1>15 DEF n

\* Two sets as large as each other miss as many elements of each other.
LEMMA SwappedRows ==
  ASSUME NEW S, NEW T, IsFiniteSet(S), IsFiniteSet(T), Cardinality(S) = Cardinality(T)
  PROVE  /\ Cardinality(S \ T) = Cardinality(T \ S)
         /\ T \subseteq S => S \ T = {}
<1>1. /\ Cardinality(S \ T) = Cardinality(S) - Cardinality(S \cap T)
      /\ Cardinality(T \ S) = Cardinality(T) - Cardinality(T \cap S)
  BY FS_Difference
<1>2. S \cap T = T \cap S
  OBVIOUS
<1>3. Cardinality(S \ T) = Cardinality(T \ S)
  BY <1>1, <1>2
<1>4. ASSUME T \subseteq S PROVE S \ T = {}
  <2>1. T \ S = {}
    BY <1>4
  <2>2. Cardinality(S \ T) = 0 /\ IsFiniteSet(S \ T)
    BY <1>3, <2>1, FS_EmptySet, FS_Subset
  <2> QED BY <2>2, FS_EmptySet
<1> QED BY <1>3, <1>4

\* The limit takes as many rows as the case has events, from the front.
LEMMA IngestShare ==
  ASSUME IInv, Ingest
  PROVE  /\ offered' \subseteq DOMAIN ledger' \ projected
         /\ FairShare(index, offered)'
         /\ distiller = "heuristic" => projected \cup offered' = DOMAIN ledger'
<1> DEFINE n == Len(case.events)
           own == OwnRows(index)'
           pending == DOMAIN ledger' \ projected
           F == offered'
<1>1. /\ suite \in Suites /\ SuiteIsValid(suite) /\ index \in 1..Len(suite.cases)
      /\ stage = "ingest" /\ Ingested = index - 1
  BY SuiteTypes DEF IInv, SuiteOK, Running, Ingest, Ingested
<1>2. n \in Nat \ {0}
  BY <1>1, EventTypes DEF case
<1>3. F = Foremost(ledger', pending, n)
  BY DEF Ingest, FirstPending, Foremost
<1>4. /\ ledger' \in Seq(LedgerRows) /\ Len(ledger') \in Nat
      /\ own = DOMAIN ledger' \ DOMAIN ledger /\ IsFiniteSet(own) /\ Cardinality(own) = n
      /\ \A id \in DOMAIN ledger : id \in DOMAIN ledger' /\ ledger'[id] = ledger[id]
  BY IngestRows
<1>5. projected \subseteq DOMAIN ledger
  BY DEF IInv, PassOK
<1>6. own \subseteq pending
  BY <1>4, <1>5
<1>7. IsFiniteSet(pending)
  <2>1. DOMAIN ledger' = 1..Len(ledger')
    BY <1>4
  <2>2. IsFiniteSet(1..Len(ledger'))
    BY <1>4, FS_Interval
  <2> QED BY <2>1, <2>2, FS_Subset
<1> HIDE DEF own, pending, n, F
<1>8. n \in 0..Cardinality(pending)
  <2>1. n <= Cardinality(pending) /\ Cardinality(pending) \in Nat
    BY <1>4, <1>6, <1>7, FS_Subset, FS_CardinalityType
  <2> QED BY <1>2, <2>1
<1>9. pending \in SUBSET DOMAIN ledger'
  BY DEF pending
<1>10. FromTheFront(ledger', F, pending) /\ Cardinality(F) = n
  BY <1>3, <1>4, <1>7, <1>8, <1>9, FrontByRank
<1>11. F \subseteq pending /\ IsFiniteSet(F)
  BY <1>7, <1>10, FS_Subset DEF FromTheFront
<1>12. Cardinality(own \ F) = Cardinality(F \ own)
  BY <1>4, <1>10, <1>11, SwappedRows
<1>13. ASSUME NEW id \in F \ own PROVE ledger'[id].case < index
  <2>1. id \in DOMAIN ledger /\ ledger'[id] = ledger[id]
    BY <1>4, <1>11 DEF pending
  <2>2. ledger[id].case \in 1..index - 1
    BY <1>1, <2>1 DEF IInv, LedgerOK
  <2> QED BY <1>1, <2>1, <2>2
<1>14. ASSUME NEW id \in F \ own, NEW o \in own \ F PROVE Before(ledger', id, o)
  <2>1. ~Before(ledger', o, id)
    BY <1>6, <1>10, <1>14 DEF FromTheFront
  <2>2. id # o /\ id \in DOMAIN ledger' /\ o \in DOMAIN ledger'
    BY <1>6, <1>11 DEF pending
  <2> QED BY <1>4, <2>1, <2>2, BeforeOrders
<1>15. ASSUME distiller = "heuristic" PROVE pending = own /\ own \ F = {} /\ projected = DOMAIN ledger
  <2>1. projected = DOMAIN ledger
    BY <1>1, <1>15 DEF IInv, PassOK
  <2>2. pending = own
    BY <1>4, <2>1 DEF pending
  <2> QED BY <1>4, <1>10, <1>11, <2>1, <2>2, SwappedRows
<1>16. index' = index /\ distiller' = distiller
  BY DEF Ingest
<1>17. FairShare(index, offered)'
  <2>1. /\ Cardinality((OwnRows(index) \ offered)') = Cardinality((offered \ OwnRows(index))')
        /\ \A id \in (offered \ OwnRows(index))' :
             /\ ledger'[id].case < index'
             /\ \A o \in (OwnRows(index) \ offered)' : Before(ledger, id, o)'
        /\ distiller' = "heuristic" => (OwnRows(index) \ offered)' = {}
    <3>1. (OwnRows(index) \ offered)' = own \ F /\ (offered \ OwnRows(index))' = F \ own
      BY <1>16 DEF own, F
    <3>2. \A id, o : Before(ledger, id, o)' = Before(ledger', id, o)
      BY DEF Before
    <3> QED BY <1>12, <1>13, <1>14, <1>15, <1>16, <3>1, <3>2
  <2> QED BY <2>1 DEF FairShare
<1>18. ASSUME distiller = "heuristic" PROVE projected \cup F = DOMAIN ledger'
  <2>1. pending \subseteq F
    BY <1>15, <1>18
  <2> QED BY <1>4, <1>11, <1>15, <1>18, <2>1 DEF pending
<1> QED BY <1>11, <1>17, <1>18 DEF pending, F

\* What a case was offered stays a fair share of a ledger that has grown.
LEMMA ShareKept ==
  ASSUME IInv, Ingest, NEW i \in DOMAIN reports
  PROVE  (reports[i].offered \subseteq DOMAIN ledger)' /\ FairShare(i, reports[i].offered)'
<1> DEFINE S == reports[i].offered
<1>1. i \in 1..index - 1 /\ reports' = reports /\ distiller' = distiller
  BY DEF IInv, ReportsOK, Answered, Ingest
<1>2. S \subseteq DOMAIN ledger /\ FairShare(i, S)
  BY DEF IInv, OfferedOK
<1>3. /\ \A id \in DOMAIN ledger : id \in DOMAIN ledger' /\ ledger'[id] = ledger[id]
      /\ OwnRows(i)' = OwnRows(i)
  BY <1>1, IngestRows
<1> HIDE DEF S
<1>4. /\ \A id \in S \ OwnRows(i) : ledger'[id].case < i
      /\ \A id \in S \ OwnRows(i) : \A own \in OwnRows(i) \ S : Before(ledger', id, own)
  <2>1. ASSUME NEW id \in S \ OwnRows(i)
        PROVE  ledger'[id].case < i /\ \A own \in OwnRows(i) \ S : Before(ledger', id, own)
    <3>1. ledger'[id] = ledger[id] /\ ledger[id].case < i
      BY <1>2, <1>3 DEF FairShare
    <3>2. ASSUME NEW own \in OwnRows(i) \ S PROVE Before(ledger', id, own)
      <4>1. own \in DOMAIN ledger
        BY DEF OwnRows
      <4>2. ledger'[own] = ledger[own] /\ Before(ledger, id, own)
        BY <1>2, <1>3, <4>1 DEF FairShare
      <4> QED BY <3>1, <4>2 DEF Before
    <3> QED BY <3>1, <3>2
  <2> QED BY <2>1
<1>5. /\ Cardinality(OwnRows(i) \ S) = Cardinality(S \ OwnRows(i))
      /\ distiller = "heuristic" => OwnRows(i) \ S = {}
  BY <1>2 DEF FairShare
<1>6. FairShare(i, reports[i].offered)'
  <2>1. reports'[i].offered = S
    BY <1>1 DEF S
  <2>2. \A id, o : Before(ledger, id, o)' = Before(ledger', id, o)
    BY DEF Before
  <2> QED BY <1>1, <1>3, <1>4, <1>5, <2>1, <2>2 DEF FairShare
<1> QED BY <1>1, <1>2, <1>3, <1>6 DEF S

\* a case is ingested
LEMMA IngestInv == IInv /\ Ingest => IInv'
<1> SUFFICES ASSUME IInv, Ingest PROVE IInv'
  OBVIOUS
<1>1. /\ suite \in Suites /\ SuiteIsValid(suite) /\ index \in 1..Len(suite.cases)
      /\ index \in Nat
      /\ stage = "ingest" /\ stage' = "project" /\ Ingested = index - 1 /\ Ingested' = index
      /\ Answered = index - 1 /\ Answered' = index - 1
      /\ index' = index /\ suite' = suite /\ reports' = reports /\ distiller' = distiller
      /\ projected' = projected /\ counted' = counted /\ seen' = seen /\ report' = report
  BY SuiteTypes DEF IInv, SuiteOK, Running, Ingest, Ingested, Answered
<1>2. SuiteOK'
  BY <1>1 DEF IInv, SuiteOK, Running
<1>3. LedgerOK'
  <2>1. ASSUME NEW id \in DOMAIN ledger'
        PROVE  /\ ledger'[id].case \in 1..index
               /\ ledger'[id].project = Project(suite, suite.cases[ledger'[id].case])
    <3>1. CASE id \in DOMAIN ledger
      <4>1. ledger'[id] = ledger[id]
        BY <3>1, IngestRows
      <4>2. /\ ledger[id].case \in 1..index - 1
            /\ ledger[id].project = Project(suite, suite.cases[ledger[id].case])
        BY <1>1, <3>1 DEF IInv, LedgerOK
      <4> QED BY <1>1, <4>1, <4>2
    <3>2. CASE id \notin DOMAIN ledger
      BY <1>1, <3>2, IngestRows DEF case
    <3> QED BY <3>1, <3>2
  <2>2. ASSUME NEW i \in 1..index PROVE Cardinality(OwnRows(i)') = Len(suite.cases[i].events)
    <3>1. CASE i = index
      BY <1>1, <3>1, IngestRows DEF case, OwnRows
    <3>2. CASE i # index
      <4>1. i \in 1..index - 1
        BY <1>1, <3>2
      <4>2. Cardinality(OwnRows(i)) = Len(suite.cases[i].events) /\ OwnRows(i)' = OwnRows(i)
        BY <1>1, <4>1, IngestRows DEF IInv, LedgerOK
      <4> QED BY <4>2
    <3> QED BY <3>1, <3>2
  <2>3. ledger' \in Seq(LedgerRows)
    BY IngestRows
  <2>4. \A i : OwnRows(i)' = OwnRows(i)'
    OBVIOUS
  <2> QED BY <1>1, <2>1, <2>2, <2>3 DEF LedgerOK, Project
<1>4. PassOK'
  <2>1. /\ projected' \subseteq DOMAIN ledger'
        /\ todo' = offered' /\ offered' \subseteq DOMAIN ledger' \ projected
        /\ distiller = "heuristic" => projected \cup offered' = DOMAIN ledger'
    BY <1>1, IngestRows, IngestShare DEF IInv, PassOK, Ingest
  <2> QED BY <1>1, <2>1 DEF IInv, PassOK
<1>5. OfferedOK'
  BY <1>1, IngestShare, ShareKept DEF OfferedOK
<1>6. FoundOK'
  <2>1. ASSUME NEW i \in DOMAIN reports, NEW id \in reports[i].found
        PROVE  id \in DOMAIN ledger' /\ ledger'[id].project = Project(suite, suite.cases[i])
    <3>1. id \in DOMAIN ledger /\ ledger[id].project = Project(suite, suite.cases[i])
      BY DEF IInv, FoundOK
    <3> QED BY <3>1, IngestRows
  <2> QED BY <1>1, <2>1 DEF FoundOK, Project
<1>7. ReportsOK' /\ CountedOK'
  BY <1>1 DEF IInv, ReportsOK, CountedOK, JudgedOK
<1>8. ReportAddsUp' /\ GapNeedsALoss'
  BY <1>1 DEF ReportAddsUp, GapNeedsALoss
<1> QED BY <1>2, <1>3, <1>4, <1>5, <1>6, <1>7, <1>8 DEF IInv

\* nothing has been run yet
LEMMA InitInv == Init => IInv
<1> SUFFICES ASSUME Init PROVE IInv
  OBVIOUS
<1>1. /\ suite \in Suites /\ distiller \in Distillers /\ stage = "start" /\ index = 1
      /\ ledger = <<>> /\ projected = {} /\ todo = {} /\ offered = {}
      /\ seen = 0 /\ counted = 0 /\ reports = <<>> /\ Ingested = 0 /\ Answered = 0
  BY DEF Init, Ingested, Answered
<1>2. SuiteOK
  BY <1>1 DEF SuiteOK, Running
<1>3. LedgerOK /\ PassOK
  BY <1>1 DEF LedgerOK, PassOK
<1>4. OfferedOK /\ FoundOK /\ ReportsOK
  BY <1>1 DEF OfferedOK, FoundOK, ReportsOK
<1>5. CountedOK
  <2>1. SumFunction([i \in DOMAIN reports |-> reports[i].projected]) = 0
    BY <1>1, SumOfNone DEF SumFunction
  <2> QED BY <1>1, <2>1, FS_EmptySet DEF CountedOK
<1>6. ReportAddsUp /\ GapNeedsALoss
  BY <1>1 DEF ReportAddsUp, GapNeedsALoss
<1> QED BY <1>2, <1>3, <1>4, <1>5, <1>6 DEF IInv

\* a suite is validated and begun
LEMMA StartInv == IInv /\ Start => IInv'
<1> SUFFICES ASSUME IInv, Start PROVE IInv'
  OBVIOUS
<1>1. /\ suite' = suite /\ distiller' = distiller /\ index' = index /\ ledger' = ledger
      /\ projected' = projected /\ todo' = todo /\ offered' = offered /\ seen' = seen
      /\ counted' = counted /\ reports' = reports /\ report' = report
      /\ stage = "start" /\ index = 1 /\ ledger = <<>>
      /\ stage' = (IF SuiteIsValid(suite) THEN "ingest" ELSE "refused")
      /\ suite \in Suites /\ distiller \in Distillers
      /\ Ingested = 0 /\ Ingested' = 0 /\ Answered = 0 /\ Answered' = 0
  BY DEF IInv, SuiteOK, Running, Start, Ingested, Answered
<1>2. SuiteOK'
  <2>1. SuiteIsValid(suite) => 1 \in 1..Len(suite.cases)
    <3>1. suite.cases \in Seq(Cases)
      BY <1>1, SuitesAssumption
    <3> QED BY <3>1 DEF SuiteIsValid
  <2> QED BY <1>1, <2>1 DEF SuiteOK, Running, SuiteIsValid
<1>3. LedgerOK' /\ PassOK'
  BY <1>1 DEF IInv, LedgerOK, PassOK, OwnRows
<1>4. OfferedOK'
  BY <1>1 DEF IInv, ReportsOK, OfferedOK
<1>5. FoundOK' /\ ReportsOK' /\ CountedOK'
  BY <1>1 DEF IInv, FoundOK, ReportsOK, CountedOK
<1>6. ReportAddsUp' /\ GapNeedsALoss'
  BY <1>1 DEF ReportAddsUp, GapNeedsALoss
<1> QED BY <1>2, <1>3, <1>4, <1>5, <1>6 DEF IInv

\* The rows of the ledger are finitely many, and so are those in the graph; the
\* reports so far can be summed up.
LEMMA Finitely ==
  ASSUME IInv
  PROVE  /\ IsFiniteSet(DOMAIN ledger) /\ IsFiniteSet(projected)
         /\ IsFiniteSet(DOMAIN reports) /\ Answered \in Nat
         /\ SumFunction([i \in DOMAIN reports |-> reports[i].projected]) \in Int
<1>1. Len(ledger) \in Nat /\ DOMAIN ledger = 1..Len(ledger)
  BY DEF IInv, LedgerOK
<1>2. IsFiniteSet(DOMAIN ledger)
  BY <1>1, FS_Interval
<1>3. IsFiniteSet(projected)
  BY <1>2, FS_Subset DEF IInv, PassOK
<1>4. Answered \in Nat
  <2>1. index \in Nat /\ index >= 1
    BY SuiteTypes DEF IInv, SuiteOK
  <2> QED BY <2>1 DEF Answered
<1>5. IsFiniteSet(DOMAIN reports)
  <2>1. DOMAIN reports = 1..Answered
    BY DEF IInv, ReportsOK
  <2>2. IsFiniteSet(1..Answered)
    BY <1>4, FS_Interval
  <2> QED BY <2>1, <2>2
<1> DEFINE g == [i \in DOMAIN reports |-> reports[i].projected]
<1>6. \A i \in DOMAIN reports : g[i] \in Int
  BY DEF IInv, ReportsOK
<1>7. DOMAIN g = DOMAIN reports
  OBVIOUS
<1>8. SumFunction(g) \in Int
  <2> HIDE DEF g
  <2> QED BY <1>5, <1>6, <1>7, SumIsInt DEF SumFunction
<1> QED BY <1>2, <1>3, <1>4, <1>5, <1>8

\* the next of the rows to be projected is projected or rejected
LEMMA ProjectRowInv == ASSUME IInv, NEW id \in todo, ProjectRow(id) PROVE IInv'
<1>1. /\ suite' = suite /\ distiller' = distiller /\ index' = index /\ ledger' = ledger
      /\ offered' = offered /\ stage' = stage /\ reports' = reports /\ report' = report
      /\ stage = "project" /\ id \in todo /\ todo' = todo \ {id} /\ seen' = seen + 1
      /\ Ingested' = Ingested /\ Answered' = Answered
  BY DEF ProjectRow, Ingested, Answered
<1>2. \/ projected' = projected \cup {id} /\ counted' = counted + 1
      \/ projected' = projected /\ counted' = counted /\ distiller = "command"
  BY DEF ProjectRow
<1>3. SuiteOK'
  BY <1>1 DEF IInv, SuiteOK, Running
<1>4. LedgerOK'
  BY <1>1 DEF IInv, LedgerOK, OwnRows, Project
<1>5. PassOK'
  <2>1. projected \subseteq DOMAIN ledger /\ todo \subseteq DOMAIN ledger \ projected
    BY DEF IInv, PassOK
  <2>2. projected' \subseteq DOMAIN ledger /\ todo' \subseteq DOMAIN ledger \ projected'
    BY <1>1, <1>2, <2>1
  <2>3. seen' \in Nat /\ counted' \in 0..seen'
    BY <1>1, <1>2 DEF IInv, PassOK
  <2>4. distiller = "heuristic" => projected' \cup todo' = DOMAIN ledger
    BY <1>1, <1>2 DEF IInv, PassOK
  <2> QED BY <1>1, <2>2, <2>3, <2>4 DEF IInv, PassOK
<1>6. OfferedOK'
  <2>1. FairShare(index, offered) => FairShare(index, offered)'
    BY <1>1 DEF FairShare, OwnRows, Before
  <2>2. ASSUME NEW i \in DOMAIN reports
        PROVE  FairShare(i, reports[i].offered) => FairShare(i, reports[i].offered)'
    BY <1>1 DEF FairShare, OwnRows, Before
  <2> QED BY <1>1, <2>1, <2>2 DEF IInv, OfferedOK
<1>7. FoundOK' /\ ReportsOK'
  BY <1>1 DEF IInv, FoundOK, ReportsOK, Project
<1>8. CountedOK'
  <2> DEFINE sum == SumFunction([i \in DOMAIN reports |-> reports[i].projected])
  <2>1. sum \in Int /\ sum' = sum /\ IsFiniteSet(projected) /\ id \notin projected
        /\ sum + counted = Cardinality(projected) /\ counted \in Int
    BY <1>1, Finitely DEF IInv, PassOK, CountedOK
  <2> HIDE DEF sum
  <2>2. Cardinality(projected \cup {id}) = Cardinality(projected) + 1
    BY <2>1, FS_AddElement
  <2>3. sum' + counted' = Cardinality(projected')
    <3>1. CASE projected' = projected \cup {id} /\ counted' = counted + 1
      <4>1. Cardinality(projected') = Cardinality(projected) + 1
        BY <2>2, <3>1
      <4> QED BY <2>1, <3>1, <4>1
    <3>2. CASE projected' = projected /\ counted' = counted
      BY <2>1, <3>2
    <3> QED BY <1>2, <3>1, <3>2
  <2> QED BY <2>3 DEF sum, CountedOK
<1>9. ReportAddsUp' /\ GapNeedsALoss'
  BY <1>1 DEF ReportAddsUp, GapNeedsALoss
<1> QED BY <1>3, <1>4, <1>5, <1>6, <1>7, <1>8, <1>9 DEF IInv

-----------------------------------------------------------------------------
(* Judging.                                                                *)

\* The share of the expectations found is a whole number of Units and full only
\* if all were found.
LEMMA Shares ==
  ASSUME NEW total \in Nat \ {0}, NEW units \in Nat \ {0}, units % total = 0,
         NEW matched \in 0..total
  PROVE  /\ (matched * units) \div total \in 0..units
         /\ (matched * units) \div total = units <=> matched = total
<1> DEFINE k == units \div total
<1>1. k \in Nat /\ units = total * k
  OBVIOUS
<1>2. k > 0
  BY <1>1
<1> HIDE DEF k
<1>3. matched * units = total * (matched * k) /\ matched * k \in Nat
  BY <1>1
<1>4. ASSUME NEW q \in Nat PROVE (total * q) \div total = q
  OBVIOUS
<1>5. (matched * units) \div total = matched * k
  BY <1>3, <1>4
<1>6. matched * k <= total * k /\ (matched * k = total * k <=> matched = total)
  <2>1. total * k = matched * k + (total - matched) * k
    BY <1>1
  <2>2. total - matched \in Nat /\ (total - matched) * k \in Nat
    BY <1>1
  <2>3. (total - matched) * k = 0 <=> total - matched = 0
    BY <1>1, <1>2
  <2> QED BY <1>3, <2>1, <2>2, <2>3
<1> QED BY <1>1, <1>3, <1>5, <1>6

\* a verdict agrees with its score and its gate
LEMMA JudgeIsFair ==
  ASSUME suite \in Suites, NEW i \in DOMAIN suite.cases, CaseIsValid(suite.cases[i]),
         NEW found, NEW tier
  PROVE  JudgedOK(Judge(suite.cases[i], found, tier))
<1> DEFINE c == suite.cases[i]
           total == Len(c.expected)
           matched == Cardinality(Matched(c, found))
           score == (matched * Units) \div total
<1>1. c \in Cases /\ c.expected # <<>> /\ Units % total = 0 /\ Units \in Nat \ {0}
  BY SuiteTypes, SuitesAssumption DEF CaseIsValid
<1>2. c.expected \in Seq(STRING)
  BY <1>1 DEF Cases
<1>3. total \in Nat \ {0} /\ DOMAIN c.expected = 1..total
  <2> HIDE DEF c
  <2> QED BY <1>1, <1>2
<1>4. matched \in 0..total
  <2>1. Matched(c, found) \subseteq 1..total
    BY <1>3 DEF Matched
  <2>2. IsFiniteSet(1..total) /\ Cardinality(1..total) = total
    BY <1>3, FS_Interval
  <2> HIDE DEF c
  <2>3. IsFiniteSet(Matched(c, found)) /\ matched <= total
    BY <2>1, <2>2, FS_Subset
  <2>4. matched \in Nat
    BY <2>3, FS_CardinalityType
  <2> QED BY <1>3, <2>3, <2>4
<1> HIDE DEF total, matched
<1>5. score \in 0..Units /\ (score = Units <=> matched = total)
  BY <1>1, <1>3, <1>4, Shares
<1> DEFINE judged == Judge(c, found, tier)
<1>6. /\ judged.total = total /\ judged.matched = matched
      /\ judged.passed = (matched = total /\ c.tier \in {"any", tier})
      /\ judged.gateFailed = (c.tier \notin {"any", tier})
      /\ judged.score = (IF c.tier \notin {"any", tier} THEN 0 ELSE score)
  <2> HIDE DEF c
  <2> QED BY <1>3 DEF Judge, total, matched
<1> HIDE DEF judged, score
<1>7. /\ judged.passed \in BOOLEAN
      /\ judged.passed <=> matched = total /\ c.tier \in {"any", tier}
      /\ judged.gateFailed <=> c.tier \notin {"any", tier}
  <2> HIDE DEF c
  <2> QED BY <1>6
<1>8. judged.score \in 0..Units /\ (judged.passed <=> judged.score = Units)
  <2> HIDE DEF c
  <2> QED BY <1>1, <1>5, <1>6, <1>7
<1>9. judged.gateFailed => judged.score = 0
  <2> HIDE DEF c
  <2> QED BY <1>6, <1>7
<1> HIDE DEF c
<1>10. JudgedOK(judged)
  BY <1>3, <1>4, <1>6, <1>7, <1>8, <1>9 DEF JudgedOK
<1> QED BY <1>10 DEF judged, c

\* The report of a case comes after those of the cases before it.
LEMMA AskReports ==
  ASSUME IInv, Ask
  PROVE  /\ index \in Nat /\ index >= 1 /\ Answered = index - 1 /\ Answered' = index
         /\ Ingested = index /\ Ingested' = index
         /\ DOMAIN reports = 1..index - 1 /\ DOMAIN reports' = 1..index
         /\ reports' = [i \in 1..index |-> reports'[i]]
         /\ \A i \in 1..index - 1 : reports'[i] = reports[i]
         /\ \E found \in SUBSET Visible(suite, case), tier \in Tiers :
              reports'[index] = Reported(Judge(case, found, tier), found, tier)
<1>1. /\ index \in Nat /\ index >= 1 /\ index \in 1..Len(suite.cases) /\ Len(suite.cases) \in Nat
      /\ stage = "project" /\ Ingested = index /\ Answered = index - 1
  BY SuiteTypes DEF IInv, SuiteOK, Running, Ask, Ingested, Answered
<1>2. /\ stage' = IF index < Len(suite.cases) THEN "ingest" ELSE "query"
      /\ index' = IF index < Len(suite.cases) THEN index + 1 ELSE index
  BY DEF Ask
<1>3. Ingested' = index /\ Answered' = index
  <2>1. CASE index < Len(suite.cases)
    BY <1>1, <1>2, <2>1 DEF Ingested, Answered
  <2>2. CASE ~(index < Len(suite.cases))
    BY <1>1, <1>2, <2>2 DEF Ingested, Answered
  <2> QED BY <2>1, <2>2
<1>4. PICK found \in SUBSET Visible(suite, case), tier \in Tiers :
        reports' = Append(reports, Reported(Judge(case, found, tier), found, tier))
  BY DEF Ask
<1> DEFINE r == Reported(Judge(case, found, tier), found, tier)
           S == {reports[i] : i \in 1..index - 1} \cup {r}
<1>5. DOMAIN reports = 1..index - 1 /\ reports = [i \in 1..index - 1 |-> reports[i]]
  BY <1>1 DEF IInv, ReportsOK
<1>6. r \in S /\ reports \in [1..index - 1 -> S]
  <2> HIDE DEF r
  <2> QED BY <1>5
<1>7. index - 1 \in Nat
  BY <1>1
<1> HIDE DEF S, r
<1>8. reports \in Seq(S) /\ Len(reports) = index - 1
  <2>1. reports \in Seq(S)
    BY <1>6, <1>7
  <2>2. DOMAIN reports = 1..Len(reports) /\ Len(reports) \in Nat
    BY <2>1
  <2> QED BY <1>5, <1>7, <2>1, <2>2
<1>9. reports' = Append(reports, r)
  BY <1>4 DEF r
<1>10. /\ reports' \in Seq(S) /\ Len(reports') = index
       /\ \A i \in 1..index - 1 : reports'[i] = reports[i]
       /\ reports'[index] = r
  BY <1>1, <1>6, <1>8, <1>9, AppendProperties
<1>11. DOMAIN reports' = 1..index /\ reports' = [i \in 1..index |-> reports'[i]]
  BY <1>10
<1> QED BY <1>1, <1>3, <1>5, <1>10, <1>11 DEF r

\* the case is asked and judged
LEMMA AskInv == IInv /\ Ask => IInv'
<1> SUFFICES ASSUME IInv, Ask PROVE IInv'
  OBVIOUS
<1>1. /\ suite' = suite /\ distiller' = distiller /\ ledger' = ledger
      /\ projected' = projected /\ todo' = todo /\ report' = report
      /\ offered' = {} /\ seen' = 0 /\ counted' = 0
      /\ suite \in Suites /\ SuiteIsValid(suite) /\ index \in 1..Len(suite.cases)
      /\ Len(suite.cases) \in Nat
      /\ stage = "project" /\ todo = {}
  BY SuiteTypes DEF IInv, SuiteOK, Running, Ask
<1>2. \/ index < Len(suite.cases) /\ stage' = "ingest" /\ index' = index + 1
      \/ index = Len(suite.cases) /\ stage' = "query" /\ index' = index
  BY <1>1 DEF Ask
<1>3. PICK found \in SUBSET Visible(suite, case), tier \in Tiers :
        reports'[index] = Reported(Judge(case, found, tier), found, tier)
  BY AskReports
<1>4. /\ index \in Nat /\ Answered' = index /\ Ingested = index /\ Ingested' = index
      /\ DOMAIN reports = 1..index - 1 /\ DOMAIN reports' = 1..index
      /\ reports' = [i \in 1..index |-> reports'[i]]
      /\ \A i \in 1..index - 1 : reports'[i] = reports[i]
  BY AskReports
<1>5. \A i \in DOMAIN reports' : (i \in DOMAIN reports /\ i < index) \/ i = index
  BY <1>4
<1>6. SuiteOK'
  BY <1>1, <1>2, <1>4 DEF IInv, SuiteOK, Running
<1>7. LedgerOK'
  BY <1>1, <1>4 DEF IInv, LedgerOK, OwnRows, Project
<1>8. PassOK'
  <2>1. 0 \in 0..0
    OBVIOUS
  <2> QED BY <1>1, <1>2, <2>1 DEF IInv, PassOK
<1>9. OfferedOK'
  <2>1. ASSUME NEW i \in DOMAIN reports'
        PROVE  (reports[i].offered \subseteq DOMAIN ledger)' /\ FairShare(i, reports[i].offered)'
    <3>1. CASE i = index
      <4>1. reports'[i].offered = offered
        BY <1>3, <3>1 DEF Reported
      <4>2. offered \subseteq DOMAIN ledger /\ FairShare(i, offered)
        BY <1>1, <3>1 DEF IInv, PassOK, OfferedOK
      <4> QED BY <1>1, <4>1, <4>2 DEF FairShare, OwnRows, Before
    <3>2. CASE i \in DOMAIN reports /\ i < index
      <4>1. reports'[i] = reports[i]
        BY <1>4, <3>2
      <4>2. reports[i].offered \subseteq DOMAIN ledger /\ FairShare(i, reports[i].offered)
        BY <3>2 DEF IInv, OfferedOK
      <4> QED BY <1>1, <4>1, <4>2 DEF FairShare, OwnRows, Before
    <3> QED BY <1>5, <3>1, <3>2
  <2>2. stage' # "project"
    BY <1>2
  <2> QED BY <2>1, <2>2 DEF OfferedOK
<1>10. FoundOK'
  <2>1. ASSUME NEW i \in DOMAIN reports', NEW id \in reports'[i].found
        PROVE  id \in DOMAIN ledger /\ ledger[id].project = Project(suite, suite.cases[i])
    <3>1. CASE i = index
      <4>1. reports'[i].found = found
        BY <1>3, <3>1 DEF Reported
      <4>2. id \in Visible(suite, case) /\ projected \subseteq DOMAIN ledger
        BY <4>1 DEF IInv, PassOK
      <4> QED BY <3>1, <4>2 DEF Visible, case
    <3>2. CASE i \in DOMAIN reports /\ i < index
      <4>1. reports'[i] = reports[i]
        BY <1>4, <3>2
      <4> QED BY <3>2, <4>1 DEF IInv, FoundOK
    <3> QED BY <1>5, <3>1, <3>2
  <2> QED BY <1>1, <2>1 DEF FoundOK, Project
<1>11. ReportsOK'
  <2>1. ASSUME NEW i \in DOMAIN reports'
        PROVE  LET r == reports'[i]
               IN  /\ JudgedOK(r.judged)
                   /\ r.ability = suite.cases[i].ability /\ r.baseline = suite.cases[i].baseline
                   /\ r.tier \in Tiers
                   /\ r.seen \in Nat /\ r.projected \in 0..r.seen
    <3>1. CASE i = index
      <4> DEFINE judged == Judge(suite.cases[index], found, tier)
      <4>1. CaseIsValid(suite.cases[index]) /\ index \in DOMAIN suite.cases
        BY <1>1, SuiteTypes DEF SuiteIsValid
      <4>2. JudgedOK(judged)
        BY <1>1, <4>1, JudgeIsFair
      <4> HIDE DEF judged
      <4>3. reports'[i] = Reported(judged, found, tier)
        BY <1>3, <3>1 DEF judged, case
      <4>4. seen \in Nat /\ counted \in 0..seen
        BY DEF IInv, PassOK
      <4> QED BY <3>1, <4>2, <4>3, <4>4 DEF Reported, case
    <3>2. CASE i \in DOMAIN reports /\ i < index
      <4>1. reports'[i] = reports[i]
        BY <1>4, <3>2
      <4> QED BY <3>2, <4>1 DEF IInv, ReportsOK
    <3> QED BY <1>5, <3>1, <3>2
  <2> QED BY <1>1, <1>4, <2>1 DEF ReportsOK, JudgedOK
<1>12. CountedOK'
  <2> DEFINE T == 1..index
             g == [i \in DOMAIN reports |-> reports[i].projected]
             h == [i \in DOMAIN reports' |-> reports'[i].projected]
  <2>1. IsFiniteSet(T) /\ T \ {index} = DOMAIN reports /\ index \in T /\ T = DOMAIN reports'
    <3>1. T \ {index} = 1..index - 1 /\ index \in T
      BY <1>1, <1>4
    <3>2. 1 \in Int /\ index \in Int
      BY <1>4
    <3> QED BY <1>4, <3>1, <3>2, FS_Interval
  <2>2. \A i \in T : h[i] \in Int
    BY <1>4, <1>11 DEF ReportsOK
  <2>3. \A i \in T \ {index} : g[i] \in Int /\ h[i] = g[i]
    BY <1>4, <2>1, <2>2
  <2>4. h[index] = counted
    BY <1>3, <2>1 DEF Reported
  <2>5. DOMAIN g = T \ {index} /\ DOMAIN h = T
    BY <2>1
  <2> HIDE DEF T, g, h
  <2>6. /\ SumFunctionOnSet(h, T) = h[index] + SumFunctionOnSet(h, T \ {index})
        /\ SumFunctionOnSet(h, T \ {index}) \in Int
    BY <2>1, <2>2, SumStep
  <2>7. IsFiniteSet(T \ {index})
    BY <2>1, FS_Subset
  <2>8. SumFunctionOnSet(h, T \ {index}) = SumFunctionOnSet(g, T \ {index})
    BY <2>3, <2>7, SumAgrees
  <2>9. SumFunction(h) = SumFunctionOnSet(h, T) /\ SumFunction(g) = SumFunctionOnSet(g, T \ {index})
    BY <2>5 DEF SumFunction
  <2>10. SumFunction(g) + counted = Cardinality(projected)
    BY DEF IInv, CountedOK, g
  <2>11. counted \in Int
    BY DEF IInv, PassOK
  <2>12. SumFunction(h) + 0 = Cardinality(projected)
    BY <2>4, <2>6, <2>8, <2>9, <2>10, <2>11
  <2> QED BY <1>1, <2>12 DEF CountedOK, h
<1>13. ReportAddsUp' /\ GapNeedsALoss'
  BY <1>2 DEF ReportAddsUp, GapNeedsALoss
<1> QED BY <1>6, <1>7, <1>8, <1>9, <1>10, <1>11, <1>12, <1>13 DEF IInv

-----------------------------------------------------------------------------
(* Summing up.                                                             *)

\* Once every case was asked, there is a report of each.
LEMMA AllReports ==
  ASSUME IInv, stage = "query"
  PROVE  /\ Len(suite.cases) \in Nat /\ DOMAIN suite.cases = 1..Len(suite.cases)
         /\ DOMAIN reports = 1..Len(suite.cases) /\ Len(reports) = Len(suite.cases)
         /\ IsFiniteSet(DOMAIN reports) /\ Cardinality(DOMAIN reports) = Len(suite.cases)
         /\ SuiteIsValid(suite)
         /\ \A i \in DOMAIN reports :
              LET r == reports[i]
              IN  /\ JudgedOK(r.judged)
                  /\ r.ability \in Abilities /\ r.tier \in Tiers
                  /\ r.baseline = suite.cases[i].baseline /\ r.baseline \in {None} \cup 0..Units
                  /\ r.seen \in Nat /\ r.projected \in 0..r.seen
<1> DEFINE n == Len(suite.cases)
<1>1. /\ suite \in Suites /\ SuiteIsValid(suite) /\ Answered = n
      /\ n \in Nat /\ DOMAIN suite.cases = 1..n
  BY SuiteTypes DEF IInv, SuiteOK, Running, Answered
<1> HIDE DEF n
<1>2. DOMAIN reports = 1..n /\ reports = [i \in 1..n |-> reports[i]]
  BY <1>1 DEF IInv, ReportsOK
<1>3. Len(reports) = n
  <2> DEFINE S == {reports[i] : i \in 1..n}
  <2>1. reports \in [1..n -> S]
    BY <1>2
  <2> HIDE DEF S
  <2>2. reports \in Seq(S)
    BY <1>1, <2>1
  <2>3. DOMAIN reports = 1..Len(reports) /\ Len(reports) \in Nat
    BY <2>2
  <2> QED BY <1>1, <1>2, <2>3
<1>4. IsFiniteSet(1..n) /\ Cardinality(1..n) = n
  BY <1>1, FS_Interval
<1>5. ASSUME NEW i \in DOMAIN reports
      PROVE  /\ JudgedOK(reports[i].judged)
             /\ reports[i].ability \in Abilities /\ reports[i].tier \in Tiers
             /\ reports[i].baseline = suite.cases[i].baseline
             /\ reports[i].baseline \in {None} \cup 0..Units
             /\ reports[i].seen \in Nat /\ reports[i].projected \in 0..reports[i].seen
  <2>1. /\ JudgedOK(reports[i].judged)
        /\ reports[i].ability = suite.cases[i].ability /\ reports[i].tier \in Tiers
        /\ reports[i].baseline = suite.cases[i].baseline
        /\ reports[i].seen \in Nat /\ reports[i].projected \in 0..reports[i].seen
    BY DEF IInv, ReportsOK
  <2>2. suite.cases[i] \in Cases /\ CaseIsValid(suite.cases[i])
    BY <1>1, <1>2, SuiteTypes DEF SuiteIsValid
  <2>3. suite.cases[i].ability \in Abilities
    BY <2>2 DEF Cases
  <2>4. suite.cases[i].baseline \in {None} \cup 0..Units
    BY <2>2 DEF CaseIsValid
  <2> QED BY <2>1, <2>3, <2>4
<1> QED BY <1>1, <1>2, <1>3, <1>4, <1>5 DEF n

\* The losses sum up to nothing if there is none.
LEMMA GapOfLosses ==
  ASSUME IInv, stage = "query"
  PROVE  /\ Gap \in Nat
         /\ (\A i \in Compared : reports[i].baseline <= reports[i].judged.score) => Gap = 0
<1> DEFINE T == Compared
           lost(i) == (IF reports[i].baseline = None THEN Units ELSE reports[i].baseline)
                        - reports[i].judged.score
           g == [i \in Compared |-> lost(i)]
           none == [i \in Compared |-> 0]
<1>1. IsFiniteSet(T)
  BY AllReports, FS_Subset DEF Compared
<1>2. ASSUME NEW i \in T
      PROVE  reports[i].baseline \in Int /\ reports[i].judged.score \in Int
             /\ reports[i].baseline # None
  <2>1. i \in DOMAIN reports /\ reports[i].baseline # None
    BY DEF Compared
  <2>2. reports[i].baseline \in {None} \cup 0..Units /\ JudgedOK(reports[i].judged)
    BY <2>1, AllReports
  <2>3. reports[i].judged.score \in Int
    BY <2>2 DEF JudgedOK
  <2> QED BY <2>1, <2>2, <2>3
<1>3. \A i \in T : g[i] = reports[i].baseline - reports[i].judged.score
  BY <1>2
<1>4. \A i \in T : g[i] \in Int
  <2> HIDE DEF g, T
  <2> QED BY <1>2, <1>3
<1>5. Gap = (IF SumFunctionOnSet(g, T) > 0 THEN SumFunctionOnSet(g, T) ELSE 0)
  BY DEF Gap, SumFunction
<1>6. SumFunctionOnSet(none, T) = 0
  <2>1. \A i \in T : none[i] = 0
    OBVIOUS
  <2> HIDE DEF none, T
  <2>2. SumFunctionOnSet(none, T) = 0 * Cardinality(T) /\ Cardinality(T) \in Nat
    BY <1>1, <2>1, SumOfEqual, FS_CardinalityType
  <2> QED BY <2>2
<1>7. \A i \in T : none[i] = 0
  OBVIOUS
<1> HIDE DEF g, none, T
<1>8. SumFunctionOnSet(g, T) \in Int
  BY <1>1, <1>4, SumIsInt
<1>9. ASSUME \A i \in T : reports[i].baseline <= reports[i].judged.score
      PROVE  SumFunctionOnSet(g, T) <= 0
  <2>1. \A i \in T : g[i] \in Int /\ none[i] \in Int /\ g[i] <= none[i]
    BY <1>2, <1>3, <1>4, <1>7, <1>9
  <2>2. SumFunctionOnSet(g, T) <= SumFunctionOnSet(none, T)
    BY <1>1, <2>1, SumBounded
  <2> QED BY <1>6, <2>2
<1> QED BY <1>5, <1>8, <1>9 DEF T

\* The scores of the cases, and those of a suite in which every case passes.
LEMMA ScoreOfPassed ==
  ASSUME IInv, stage = "query"
  PROVE  LET cases == DOMAIN reports
             score == SumFunction([i \in cases |-> reports[i].judged.score])
         IN  /\ Passed(cases) \in 0..Len(reports)
             /\ Passed(cases) = Len(reports) => \A i \in cases : reports[i].judged.passed
             /\ Passed(cases) = Len(reports) <=> score = Units * Len(reports)
<1> DEFINE T == DOMAIN reports
           P == {i \in T : reports[i].judged.passed}
           g == [i \in T |-> reports[i].judged.score]
           full == [i \in T |-> Units]
<1>1. IsFiniteSet(T) /\ Cardinality(T) = Len(reports) /\ Len(reports) \in Nat
  BY AllReports
<1>2. Passed(T) = Cardinality(P)
  BY DEF Passed
<1>3. Units \in Int /\ \A i \in T : full[i] = Units
  BY SuitesAssumption
<1>4. \A i \in T : JudgedOK(reports[i].judged)
  BY AllReports
<1>5. \A i \in T : /\ g[i] \in Int /\ g[i] <= Units
                   /\ reports[i].judged.passed <=> g[i] = Units
  BY <1>3, <1>4, SuitesAssumption DEF JudgedOK
<1>6. SumFunction(g) = SumFunctionOnSet(g, T)
  BY DEF SumFunction
<1>7. P \subseteq T /\ (P = T <=> \A i \in T : reports[i].judged.passed)
  OBVIOUS
<1> HIDE DEF T, P, g, full
<1>8. /\ Cardinality(P) <= Cardinality(T) /\ Cardinality(P) \in Nat
      /\ Cardinality(P) = Cardinality(T) => P = T
  BY <1>1, <1>7, FS_Subset, FS_CardinalityType
<1>9. /\ SumFunctionOnSet(full, T) = Units * Cardinality(T)
      /\ SumFunctionOnSet(g, T) = SumFunctionOnSet(full, T) => \A i \in T : g[i] = full[i]
  <2>1. SumFunctionOnSet(full, T) = Units * Cardinality(T)
    BY <1>1, <1>3, SumOfEqual
  <2>2. \A i \in T : g[i] \in Int /\ full[i] \in Int /\ g[i] <= full[i]
    BY <1>3, <1>5
  <2>3. SumFunctionOnSet(g, T) = SumFunctionOnSet(full, T) => \A i \in T : g[i] = full[i]
    BY <1>1, <2>2, SumBounded
  <2> QED BY <2>1, <2>3
<1>10. ASSUME \A i \in T : g[i] = Units PROVE SumFunctionOnSet(g, T) = Units * Cardinality(T)
  BY <1>1, <1>3, <1>10, SumOfEqual
<1>11. Cardinality(P) = Cardinality(T) <=> P = T
  BY <1>8
<1>12. P = T <=> SumFunctionOnSet(g, T) = Units * Cardinality(T)
  BY <1>3, <1>5, <1>7, <1>9, <1>10
<1>13. Passed(T) = Len(reports) <=> SumFunction(g) = Units * Len(reports)
  BY <1>1, <1>2, <1>6, <1>11, <1>12
<1>14. Passed(T) \in 0..Len(reports)
  BY <1>1, <1>2, <1>8
<1>15. Passed(T) = Len(reports) => \A i \in T : reports[i].judged.passed
  BY <1>1, <1>2, <1>7, <1>11
<1> QED BY <1>13, <1>14, <1>15 DEF T, g

\* The sizes of the classes of the reports add up to the number of the reports.
LEMMA ClassesOfReports ==
  ASSUME IInv, stage = "query"
  PROVE  /\ SumFunction([a \in Abilities |-> AbilitySummary(a).cases]) = Len(reports)
         /\ SumFunction([t \in Tiers |-> TierSummary(t).requests]) = Len(reports)
         /\ SumFunction([a \in Abilities |-> AbilitySummary(a).passed]) = Passed(DOMAIN reports)
<1> DEFINE T == DOMAIN reports
           P == {i \in T : reports[i].judged.passed}
           ability == [i \in T |-> reports[i].ability]
           tier == [i \in T |-> reports[i].tier]
<1>1. /\ IsFiniteSet(T) /\ IsFiniteSet(P) /\ P \subseteq T
      /\ Cardinality(T) = Len(reports) /\ Cardinality(P) = Passed(T)
  BY AllReports, FS_Subset DEF Passed
<1>2. IsFiniteSet(Abilities) /\ IsFiniteSet(Tiers)
  <2>1. Abilities = {"recall"} \cup {"update"}
    BY DEF Abilities
  <2>2. Tiers = ({"cue_seed"} \cup {"activation"}) \cup {"active_reconstruction"}
    BY DEF Tiers
  <2>3. \A x : IsFiniteSet({x})
    BY FS_Singleton
  <2> QED BY <2>1, <2>2, <2>3, FS_Union
<1>3. \A i \in T : ability[i] \in Abilities /\ tier[i] \in Tiers
  BY AllReports
<1>4. \A a \in Abilities : /\ AbilitySummary(a).cases = Cardinality({i \in T : ability[i] = a})
                           /\ AbilitySummary(a).passed = Cardinality({i \in P : ability[i] = a})
  <2>1. ASSUME NEW a
        PROVE  /\ {i \in T : reports[i].ability = a} = {i \in T : ability[i] = a}
               /\ {i \in {i \in T : reports[i].ability = a} : reports[i].judged.passed}
                    = {i \in P : ability[i] = a}
    OBVIOUS
  <2> QED BY <2>1, Zenon DEF AbilitySummary, Passed
<1>5. \A t \in Tiers : TierSummary(t).requests = Cardinality({i \in T : tier[i] = t})
  <2>1. \A t : {i \in T : reports[i].tier = t} = {i \in T : tier[i] = t}
    OBVIOUS
  <2> QED BY <2>1, Zenon DEF TierSummary
<1> HIDE DEF T, P, ability, tier
<1>6. /\ SumFunctionOnSet([a \in Abilities |-> Cardinality({i \in T : ability[i] = a})], Abilities)
           = Cardinality(T)
      /\ SumFunctionOnSet([a \in Abilities |-> Cardinality({i \in P : ability[i] = a})], Abilities)
           = Cardinality(P)
      /\ SumFunctionOnSet([t \in Tiers |-> Cardinality({i \in T : tier[i] = t})], Tiers)
           = Cardinality(T)
  BY <1>1, <1>2, <1>3, SumOfClasses
<1>7. /\ [a \in Abilities |-> AbilitySummary(a).cases]
           = [a \in Abilities |-> Cardinality({i \in T : ability[i] = a})]
      /\ [a \in Abilities |-> AbilitySummary(a).passed]
           = [a \in Abilities |-> Cardinality({i \in P : ability[i] = a})]
      /\ [t \in Tiers |-> TierSummary(t).requests]
           = [t \in Tiers |-> Cardinality({i \in T : tier[i] = t})]
  BY <1>4, <1>5
<1>8. \A f : SumFunction(f) = SumFunctionOnSet(f, DOMAIN f)
  BY DEF SumFunction
<1> QED BY <1>1, <1>6, <1>7, <1>8 DEF T

\* What the summary of all reports comes to.
LEMMA SummariseAddsUp == ASSUME IInv, Summarise PROVE ReportAddsUp' /\ GapNeedsALoss'
<1> DEFINE T == DOMAIN reports
           n == Len(suite.cases)
           score == SumFunction([i \in T |-> reports[i].judged.score])
           total == SumFunction([i \in T |-> reports[i].judged.total])
           matched == SumFunction([i \in T |-> reports[i].judged.matched])
           sumSeen == SumFunction([i \in T |-> reports[i].seen])
           sumProjected == SumFunction([i \in T |-> reports[i].projected])
<1>1. /\ stage = "query" /\ suite' = suite /\ projected' = projected /\ reports' = reports
      /\ stage' = "reported"
  BY DEF Summarise
<1>2. /\ n \in Nat /\ DOMAIN suite.cases = 1..n /\ T = 1..n /\ Len(reports) = n
      /\ IsFiniteSet(T)
      /\ \A i \in T : /\ JudgedOK(reports[i].judged)
                      /\ reports[i].baseline = suite.cases[i].baseline
                      /\ reports[i].baseline \in {None} \cup 0..Units
                      /\ reports[i].seen \in Nat
                      /\ reports[i].projected \in 0..reports[i].seen
  BY <1>1, AllReports
<1>3. /\ report'.cases = Len(reports)
      /\ report'.passed = Passed(T) /\ report'.failed = Len(reports) - Passed(T)
      /\ report'.score = score /\ report'.total = total /\ report'.matched = matched
      /\ report'.gap = (IF Compared = {} THEN None ELSE Gap)
      /\ report'.seen = sumSeen /\ report'.projected = sumProjected
      /\ report'.abilities = [a \in Abilities |-> AbilitySummary(a)]
      /\ report'.tiers = [t \in Tiers |-> TierSummary(t)]
  <2>1. /\ [i \in T |-> [j \in T |-> reports[j].judged][i].score]
             = [i \in T |-> reports[i].judged.score]
        /\ [i \in T |-> [j \in T |-> reports[j].judged][i].total]
             = [i \in T |-> reports[i].judged.total]
        /\ [i \in T |-> [j \in T |-> reports[j].judged][i].matched]
             = [i \in T |-> reports[i].judged.matched]
    OBVIOUS
  <2> QED BY <2>1 DEF Summarise
<1>4. /\ Passed(T) \in 0..n
      /\ Passed(T) = n => \A i \in T : reports[i].judged.passed
      /\ Passed(T) = n <=> score = Units * n
  BY <1>1, <1>2, ScoreOfPassed
<1>5. sumProjected = Cardinality(projected)
  <2>1. sumProjected + 0 = Cardinality(projected) /\ sumProjected \in Int
    BY <1>1, Finitely DEF IInv, CountedOK, PassOK
  <2> HIDE DEF sumProjected
  <2> QED BY <2>1
<1>6. sumSeen >= sumProjected
  <2> DEFINE g == [i \in T |-> reports[i].projected]
             h == [i \in T |-> reports[i].seen]
  <2>1. \A i \in T : g[i] \in Int /\ h[i] \in Int /\ g[i] <= h[i]
    BY <1>2
  <2>2. DOMAIN g = T /\ DOMAIN h = T
    OBVIOUS
  <2> HIDE DEF g, h, T
  <2>3. /\ SumFunctionOnSet(g, T) <= SumFunctionOnSet(h, T)
        /\ SumFunctionOnSet(g, T) \in Int /\ SumFunctionOnSet(h, T) \in Int
    BY <1>2, <2>1, SumBounded, SumIsInt
  <2>4. SumFunction(h) >= SumFunction(g)
    BY <2>2, <2>3 DEF SumFunction
  <2> QED BY <2>4 DEF g, h
<1>7. ASSUME \A i \in T : reports[i].judged.passed PROVE matched = total
  <2> DEFINE g == [i \in T |-> reports[i].judged.matched]
             h == [i \in T |-> reports[i].judged.total]
  <2>1. g = h
    BY <1>2, <1>7 DEF JudgedOK
  <2> QED BY <2>1
<1>8. ASSUME \A i \in T : reports[i].judged.passed PROVE Compared # {} => Gap = 0
  <2>1. ASSUME NEW i \in Compared PROVE reports[i].baseline <= reports[i].judged.score
    <3>1. i \in T /\ reports[i].baseline # None
      BY DEF Compared
    <3>2. reports[i].baseline \in 0..Units /\ reports[i].judged.score = Units
      BY <1>2, <1>8, <3>1 DEF JudgedOK
    <3> QED BY <3>2, SuitesAssumption
  <2> QED BY <1>1, <2>1, GapOfLosses
<1>9. /\ SumFunction([a \in Abilities |-> report'.abilities[a].cases]) = n
      /\ SumFunction([t \in Tiers |-> report'.tiers[t].requests]) = n
      /\ SumFunction([a \in Abilities |-> report'.abilities[a].passed]) = Passed(T)
  <2>1. /\ [a \in Abilities |-> report'.abilities[a].cases]
             = [a \in Abilities |-> AbilitySummary(a).cases]
        /\ [t \in Tiers |-> report'.tiers[t].requests] = [t \in Tiers |-> TierSummary(t).requests]
        /\ [a \in Abilities |-> report'.abilities[a].passed]
             = [a \in Abilities |-> AbilitySummary(a).passed]
    BY <1>3
  <2> QED BY <1>1, <1>2, <2>1, ClassesOfReports
<1>10. Compared = {} <=> \A i \in DOMAIN suite.cases : suite.cases[i].baseline = None
  BY <1>2 DEF Compared
<1>11. Gap \in Nat /\ (Gap > 0 => \E i \in T : suite.cases[i].baseline > reports[i].judged.score)
  <2>1. ASSUME \A i \in T : ~(suite.cases[i].baseline > reports[i].judged.score) PROVE Gap = 0
    <3>1. ASSUME NEW i \in Compared PROVE reports[i].baseline <= reports[i].judged.score
      <4>1. i \in T /\ reports[i].baseline \in Int /\ reports[i].judged.score \in Int
        BY <1>2, SuitesAssumption DEF Compared, JudgedOK, None
      <4> QED BY <1>2, <2>1, <4>1
    <3> QED BY <1>1, <3>1, GapOfLosses
  <2>2. Gap \in Nat
    BY <1>1, GapOfLosses
  <2> QED BY <2>1, <2>2
<1> HIDE DEF T, n, score, total, matched, sumSeen, sumProjected
<1>12. report'.failed = 0 <=> Passed(T) = n
  BY <1>2, <1>3, <1>4
<1>13. ReportAddsUp'
  <2>1. report'.cases = n /\ report'.passed + report'.failed = n
    BY <1>2, <1>3, <1>4
  <2>2. report'.failed = 0 <=> report'.score = Units * n
    BY <1>3, <1>4, <1>12
  <2>3. report'.failed = 0 => report'.matched = report'.total /\ report'.gap \in {None, 0}
    BY <1>3, <1>4, <1>7, <1>8, <1>12
  <2>4. report'.projected = Cardinality(projected) /\ report'.seen >= report'.projected
    BY <1>3, <1>5, <1>6
  <2> QED BY <1>1, <1>3, <1>9, <2>1, <2>2, <2>3, <2>4 DEF ReportAddsUp, n
<1>14. GapNeedsALoss'
  <2>1. report'.gap = None <=> Compared = {}
    BY <1>3, <1>11 DEF None
  <2>2. report'.gap > 0 => \E i \in T : suite.cases[i].baseline > reports[i].judged.score
    BY <1>3, <1>11 DEF None
  <2> QED BY <1>1, <1>10, <2>1, <2>2 DEF GapNeedsALoss, T
<1> QED BY <1>13, <1>14

\* the report is drawn up
LEMMA SummariseInv == IInv /\ Summarise => IInv'
<1> SUFFICES ASSUME IInv, Summarise PROVE IInv'
  OBVIOUS
<1>1. /\ suite' = suite /\ distiller' = distiller /\ index' = index /\ ledger' = ledger
      /\ projected' = projected /\ todo' = todo /\ offered' = offered /\ seen' = seen
      /\ counted' = counted /\ reports' = reports
      /\ stage = "query" /\ stage' = "reported"
      /\ Ingested' = Ingested /\ Answered' = Answered
  BY DEF Summarise, Ingested, Answered
<1>2. SuiteOK' /\ PassOK'
  BY <1>1 DEF IInv, SuiteOK, Running, PassOK
<1>3. LedgerOK'
  BY <1>1 DEF IInv, LedgerOK, OwnRows, Project
<1>4. OfferedOK'
  <2>1. ASSUME NEW i \in DOMAIN reports
        PROVE  FairShare(i, reports[i].offered) => FairShare(i, reports[i].offered)'
    BY <1>1 DEF FairShare, OwnRows, Before
  <2> QED BY <1>1, <2>1 DEF IInv, OfferedOK
<1>5. FoundOK'
  BY <1>1 DEF IInv, FoundOK, Project
<1>6. ReportsOK'
  BY <1>1 DEF IInv, ReportsOK, JudgedOK
<1>7. CountedOK'
  BY <1>1 DEF IInv, CountedOK
<1> QED BY <1>2, <1>3, <1>4, <1>5, <1>6, <1>7, SummariseAddsUp DEF IInv

\* Every step of the harness keeps the invariant.
THEOREM Inductive == IInv /\ [Next]_vars => IInv'
<1> SUFFICES ASSUME IInv, [Next]_vars PROVE IInv'
  OBVIOUS
<1>1. CASE Start
  BY <1>1, StartInv
<1>2. CASE Ingest
  BY <1>2, IngestInv
<1>3. CASE \E id \in todo : ProjectRow(id)
  BY <1>3, ProjectRowInv
<1>4. CASE Ask
  BY <1>4, AskInv
<1>5. CASE Summarise
  BY <1>5, SummariseInv
<1>6. CASE UNCHANGED vars
  <2>1. Ingested' = Ingested /\ Answered' = Answered
    BY <1>6 DEF vars, Ingested, Answered
  <2>2. SuiteOK' /\ PassOK'
    BY <1>6 DEF vars, IInv, SuiteOK, Running, PassOK
  <2>3. LedgerOK'
    BY <1>6, <2>1 DEF vars, IInv, LedgerOK, OwnRows, Project
  <2>4. OfferedOK'
    <3>1. ASSUME NEW i \in DOMAIN reports
          PROVE  FairShare(i, reports[i].offered) => FairShare(i, reports[i].offered)'
      BY <1>6 DEF vars, FairShare, OwnRows, Before
    <3>2. FairShare(index, offered) => FairShare(index, offered)'
      BY <1>6 DEF vars, FairShare, OwnRows, Before
    <3> QED BY <1>6, <3>1, <3>2 DEF vars, IInv, OfferedOK
  <2>5. FoundOK' /\ CountedOK'
    BY <1>6 DEF vars, IInv, FoundOK, CountedOK, Project
  <2>6. ReportAddsUp' /\ GapNeedsALoss'
    <3>1. stage' = stage /\ report' = report /\ suite' = suite /\ projected' = projected
          /\ reports' = reports
      BY <1>6 DEF vars
    <3> QED BY <3>1 DEF IInv, ReportAddsUp, GapNeedsALoss
  <2>7. ReportsOK'
    BY <1>6, <2>1 DEF vars, IInv, ReportsOK, JudgedOK
  <2> QED BY <2>2, <2>3, <2>4, <2>5, <2>6, <2>7 DEF IInv
<1> QED BY <1>1, <1>2, <1>3, <1>4, <1>5, <1>6 DEF Next

\* every reachable state satisfies the invariant
LEMMA Invariant == Spec => []IInv
<1>1. Init => IInv
  BY InitInv
<1>2. IInv /\ [Next]_vars => IInv'
  BY Inductive
<1> QED BY <1>1, <1>2, PTL DEF Spec

\* A case is asked after its own events were shown to the distiller, but for as
\* many as rows left pending by earlier cases took up (OwnRowsAreOffered).
THEOREM OwnRowsCorrect == Spec => []OwnRowsAreOffered
<1>1. IInv => OwnRowsAreOffered
  BY DEF IInv, OfferedOK, FairShare, OwnRowsAreOffered
<1> QED BY <1>1, Invariant, PTL

\* Only its own rows bear the project of a case that has one of its own.
LEMMA OwnProject ==
  ASSUME suite \in Suites, SuiteIsValid(suite), ~suite.shared,
         NEW i \in DOMAIN suite.cases, suite.cases[i].project = "",
         NEW j \in DOMAIN suite.cases,
         suite.cases[j].project # Project(suite, suite.cases[i]),
         Project(suite, suite.cases[j]) = Project(suite, suite.cases[i])
  PROVE  j = i
<1>1. Project(suite, suite.cases[i]) = CaseProject[suite.cases[i].id]
  BY DEF Project
<1>2. suite.cases[j].project = ""
  BY DEF Project
<1>3. Project(suite, suite.cases[j]) = CaseProject[suite.cases[j].id]
  BY <1>2 DEF Project
<1>4. suite.cases[i].id \in DOMAIN CaseProject /\ suite.cases[j].id \in DOMAIN CaseProject
  BY SuiteTypes
<1>5. suite.cases[i].id = suite.cases[j].id
  BY <1>1, <1>3, <1>4, SuitesAssumption DEF IsInjective
<1> QED BY <1>5 DEF SuiteIsValid

\* A case without a shared project is answered from its own events alone, unless
\* some case names that very project (CasesAreIsolated).
THEOREM IsolatedCorrect == Spec => []CasesAreIsolated
<1>1. ASSUME IInv PROVE CasesAreIsolated
  <2>1. ASSUME NEW i \in DOMAIN reports, ~suite.shared, suite.cases[i].project = "",
               \A j \in DOMAIN suite.cases :
                 suite.cases[j].project # Project(suite, suite.cases[i]),
               NEW id \in reports[i].found
        PROVE  id \in OwnRows(i)
    <3>1. /\ index \in Nat /\ Len(suite.cases) \in Nat /\ DOMAIN suite.cases = 1..Len(suite.cases)
          /\ suite \in Suites
      BY <1>1, SuiteTypes DEF IInv, SuiteOK, Running
    <3>2. i \in 1..Answered
      BY <1>1 DEF IInv, ReportsOK
    <3>3. Running
      BY <3>1, <3>2, <1>1 DEF IInv, SuiteOK, Running, Answered
    <3>4. SuiteIsValid(suite) /\ index \in 1..Len(suite.cases)
      BY <1>1, <3>3 DEF IInv, SuiteOK
    <3>5. i \in DOMAIN suite.cases /\ Ingested \in 0..Len(suite.cases)
      BY <3>1, <3>2, <3>4 DEF Answered, Ingested
    <3>6. /\ id \in DOMAIN ledger
          /\ ledger[id].project = Project(suite, suite.cases[i])
      BY <1>1 DEF IInv, FoundOK
    <3>7. /\ ledger[id].case \in 1..Ingested
          /\ ledger[id].project = Project(suite, suite.cases[ledger[id].case])
      BY <1>1, <3>6 DEF IInv, LedgerOK
    <3>8. ledger[id].case \in DOMAIN suite.cases
      BY <3>1, <3>5, <3>7
    <3>9. ledger[id].case = i
      BY <2>1, <3>1, <3>4, <3>5, <3>6, <3>7, <3>8, OwnProject
    <3> QED BY <3>6, <3>9 DEF OwnRows
  <2> QED BY <2>1 DEF CasesAreIsolated
<1> QED BY <1>1, Invariant, PTL

\* The types of the state, case by case the judgements, and the sums of the
\* report are what the cases did (ReportIsTrue).
THEOREM ReportCorrect == Spec => []ReportIsTrue
<1>1. ASSUME IInv PROVE ReportIsTrue
  <2>1. TypeOK
    <3>1. index \in 1..Len(suite.cases) + 1
      BY <1>1, SuiteTypes DEF IInv, SuiteOK
    <3>2. \A i \in DOMAIN reports : /\ reports[i].judged.score \in 0..Units
                                   /\ reports[i].projected \in 0..reports[i].seen
      BY <1>1 DEF IInv, ReportsOK, JudgedOK
    <3> QED BY <1>1, <3>1, <3>2 DEF IInv, SuiteOK, PassOK, TypeOK
  <2>2. PassIsFullScore
    BY <1>1 DEF IInv, ReportsOK, JudgedOK, PassIsFullScore
  <2> QED BY <1>1, <2>1, <2>2 DEF IInv, ReportIsTrue
<1> QED BY <1>1, Invariant, PTL
===============================================================================

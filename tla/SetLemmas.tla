------------------------------ MODULE SetLemmas ------------------------------
(***************************************************************************)
(* Facts about finite sets that the proofs share: least and greatest       *)
(* elements, and sums over a set (MapThenSumSet).  The induction they rest *)
(* on is that a nonempty set of naturals has a least element.              *)
(***************************************************************************)
EXTENDS Integers, FiniteSets, FiniteSetsExt, FiniteSetTheorems, WellFoundedInduction, TLAPS

\* A nonempty set of naturals has a least element.
LEMMA MinOfNaturals ==
    ASSUME NEW S \in SUBSET Nat, S # {}
    PROVE  \E x \in S : \A y \in S : x <= y
<1> DEFINE Less == {ss \in Nat \X Nat : ss[1] < ss[2]}
<1>1. Less = OpToRel(<, Nat)
    BY DEF OpToRel
<1>2. IsWellFoundedOn(Less, Nat)
    BY <1>1, NatLessThanWellFounded
<1>3. PICK x \in S : \A y \in S : ~(<<y, x>> \in Less)
    <2> HIDE DEF Less
    <2> QED BY <1>2, WFMin
<1>4. ASSUME NEW y \in S PROVE x <= y
    <2>1. x \in Nat /\ y \in Nat
        OBVIOUS
    <2>2. ~(y < x)
        BY <1>3, <2>1
    <2> QED BY <2>1, <2>2
<1> QED BY <1>4

\* Induction over the naturals, for a property given as a set.
LEMMA NatSetInduction ==
    ASSUME NEW Good, 0 \in Good, \A n \in Nat : n \in Good => n + 1 \in Good
    PROVE  \A n \in Nat : n \in Good
<1> DEFINE Bad == Nat \ Good
<1> SUFFICES ASSUME Bad # {} PROVE FALSE
    OBVIOUS
<1>1. PICK b \in Bad : \A y \in Bad : b <= y
    <2>1. Bad \in SUBSET Nat
        OBVIOUS
    <2> HIDE DEF Bad
    <2> QED BY <2>1, MinOfNaturals
<1>2. b \in Nat /\ b # 0 /\ b - 1 \in Nat
    OBVIOUS
<1>3. b - 1 \in Good
    BY <1>1, <1>2
<1>4. (b - 1) + 1 \in Good
    BY <1>2, <1>3
<1> QED BY <1>2, <1>4

\* The Min of a set of naturals is attained.
LEMMA MinIsLeast ==
    ASSUME NEW S \in SUBSET Nat, S # {}
    PROVE  Min(S) \in S /\ \A y \in S : Min(S) <= y
BY MinOfNaturals DEF Min

\* The Max of a bounded set of naturals is attained.
LEMMA MaxOfBounded ==
    ASSUME NEW n \in Nat, NEW S \in SUBSET (0..n), S # {}
    PROVE  Max(S) \in S /\ \A y \in S : Max(S) >= y
<1> DEFINE T == {n - i : i \in S}
<1>1. T \in SUBSET Nat /\ T # {}
    <2>1. \A i \in S : i \in 0..n
        OBVIOUS
    <2>2. \A i \in S : n - i \in Nat
        BY <2>1
    <2> QED BY <2>2
<1>2. PICK t \in T : \A u \in T : t <= u
    <2> HIDE DEF T
    <2> QED BY <1>1, MinOfNaturals
<1>3. PICK i \in S : t = n - i
    BY <1>2
<1>4. \A y \in S : i >= y
    <2> TAKE y \in S
    <2>1. n - y \in T
        OBVIOUS
    <2>2. t <= n - y
        <3> HIDE DEF T
        <3> QED BY <2>1, <1>2
    <2>3. n \in Nat /\ i \in 0..n /\ y \in 0..n
        OBVIOUS
    <2>4. n - i <= n - y
        BY <2>2, <1>3
    <2> HIDE DEF T
    <2> QED BY <2>3, <2>4
<1> QED BY <1>3, <1>4 DEF Max

\* The same for positive numbers, such as indices.
LEMMA MaxIsGreatest ==
    ASSUME NEW n \in Nat, NEW S \in SUBSET (1..n), S # {}
    PROVE  Max(S) \in S /\ \A y \in S : Max(S) >= y
<1>1. S \in SUBSET (0..n)
    OBVIOUS
<1> QED BY <1>1, MaxOfBounded

-----------------------------------------------------------------------------
(* Sums over finite sets *)

\* The element the sum takes first.
Chosen(S) == CHOOSE x \in S : TRUE

LEMMA ChosenIsElement ==
    ASSUME NEW S, S # {}
    PROVE  Chosen(S) \in S
BY DEF Chosen

\* The subsets of W with at most n elements, and the equation that the
\* recursive function of MapThenSumSet solves on them, for the weights w.
Small(W, n) == {s \in SUBSET W : Cardinality(s) <= n}
Solves(g, D, w) == \A s \in D : g[s] = IF s = {} THEN 0 ELSE w[Chosen(s)] + g[s \ {Chosen(s)}]

\* The rest of a set is smaller than the set.
LEMMA RestIsSmaller ==
    ASSUME NEW W, IsFiniteSet(W), NEW s \in SUBSET W, NEW x \in s
    PROVE  /\ IsFiniteSet(s) /\ Cardinality(s) \in Nat
           /\ s \ {x} \in SUBSET W /\ IsFiniteSet(s \ {x})
           /\ Cardinality(s \ {x}) \in Nat /\ Cardinality(s \ {x}) = Cardinality(s) - 1
<1>1. IsFiniteSet(s)
    BY FS_Subset
<1> QED BY <1>1, FS_CardinalityType, FS_RemoveElement

LEMMA SolvableUpTo ==
    ASSUME NEW W, IsFiniteSet(W), NEW w \in [W -> Int]
    PROVE  \A n \in Nat : \E g \in [Small(W, n) -> Int] : Solves(g, Small(W, n), w)
<1> DEFINE P(n) == \E g \in [Small(W, n) -> Int] : Solves(g, Small(W, n), w)
           Bad == {n \in Nat : ~P(n)}
<1> SUFFICES ASSUME Bad # {} PROVE FALSE
    OBVIOUS
<1>1. PICK n \in Bad : \A m \in Bad : n <= m
    <2>1. Bad \in SUBSET Nat
        OBVIOUS
    <2> HIDE DEF Bad
    <2> QED BY <2>1, MinOfNaturals
<1>2. \A s \in SUBSET W : IsFiniteSet(s) /\ Cardinality(s) \in Nat /\ (Cardinality(s) = 0 <=> s = {})
    BY FS_Subset, FS_CardinalityType, FS_EmptySet
<1>3. CASE n = 0
    <2> DEFINE g == [s \in Small(W, 0) |-> 0]
    <2>1. \A s \in Small(W, 0) : s = {}
        BY <1>2 DEF Small
    <2>2. g \in [Small(W, 0) -> Int] /\ Solves(g, Small(W, 0), w)
        BY <2>1 DEF Solves
    <2> QED BY <1>1, <1>3, <2>2
<1>4. CASE n # 0
    <2>1. n \in Nat /\ n - 1 \in Nat /\ ~(n <= n - 1)
        BY <1>1, <1>4
    <2>2. P(n - 1)
        BY <1>1, <2>1
    <2>3. PICK g \in [Small(W, n - 1) -> Int] : Solves(g, Small(W, n - 1), w)
        BY <2>2
    <2> DEFINE h == [s \in Small(W, n) |-> IF s = {} THEN 0 ELSE w[Chosen(s)] + g[s \ {Chosen(s)}]]
    <2>4. ASSUME NEW s \in Small(W, n), s # {}
          PROVE  Chosen(s) \in W /\ s \ {Chosen(s)} \in Small(W, n - 1) /\ s \ {Chosen(s)} \in Small(W, n)
        <3>1. Chosen(s) \in s /\ s \in SUBSET W /\ Cardinality(s) <= n
            BY <2>4, ChosenIsElement DEF Small
        <3>2. /\ s \ {Chosen(s)} \in SUBSET W /\ Cardinality(s \ {Chosen(s)}) \in Nat
              /\ Cardinality(s) \in Nat /\ Cardinality(s \ {Chosen(s)}) = Cardinality(s) - 1
            BY <3>1, RestIsSmaller
        <3>3. Cardinality(s \ {Chosen(s)}) <= n - 1 /\ Cardinality(s \ {Chosen(s)}) <= n
            BY <2>1, <3>1, <3>2
        <3> QED BY <3>1, <3>2, <3>3 DEF Small
    <2>5. h \in [Small(W, n) -> Int]
        BY <2>4
    <2>6. ASSUME NEW s \in Small(W, n - 1) PROVE s \in Small(W, n) /\ h[s] = g[s]
        <3>1. s \in Small(W, n)
            BY <1>2, <2>1 DEF Small
        <3> QED BY <2>3, <3>1 DEF Solves
    <2>7. Solves(h, Small(W, n), w)
        <3> SUFFICES ASSUME NEW s \in Small(W, n)
                     PROVE  h[s] = IF s = {} THEN 0 ELSE w[Chosen(s)] + h[s \ {Chosen(s)}]
            BY DEF Solves
        <3> QED BY <2>4, <2>6
    <2> HIDE DEF h
    <2> QED BY <1>1, <2>5, <2>7
<1> QED BY <1>3, <1>4

\* The recursion of MapThenSumSet has a solution.
LEMMA Solvable ==
    ASSUME NEW W, IsFiniteSet(W), NEW w \in [W -> Int]
    PROVE  \E g \in [SUBSET W -> Int] : Solves(g, SUBSET W, w)
<1>1. Cardinality(W) \in Nat
    BY FS_CardinalityType
<1>2. Small(W, Cardinality(W)) = SUBSET W
    BY FS_Subset DEF Small
<1>3. \E g \in [Small(W, Cardinality(W)) -> Int] : Solves(g, Small(W, Cardinality(W)), w)
    BY <1>1, SolvableUpTo
<1> QED BY <1>2, <1>3

\* Induction over the subsets of a finite set, the property being a set.
LEMMA SetInduction ==
    ASSUME NEW S, IsFiniteSet(S), NEW Good,
           {} \in Good,
           \A T \in SUBSET S : T # {} /\ (\A x \in T : T \ {x} \in Good) => T \in Good
    PROVE  \A T \in SUBSET S : T \in Good
<1> DEFINE Bad == {n \in Nat : \E T \in SUBSET S : Cardinality(T) = n /\ T \notin Good}
<1> SUFFICES ASSUME NEW T \in SUBSET S, T \notin Good PROVE FALSE
    OBVIOUS
<1>1. IsFiniteSet(T) /\ Cardinality(T) \in Nat
    BY FS_Subset, FS_CardinalityType
<1>2. PICK n \in Bad : \A m \in Bad : n <= m
    <2>1. Bad \in SUBSET Nat /\ Cardinality(T) \in Bad
        BY <1>1
    <2> HIDE DEF Bad
    <2> QED BY <2>1, MinOfNaturals
<1>3. PICK U \in SUBSET S : Cardinality(U) = n /\ U \notin Good
    BY <1>2
<1>4. PICK x \in U : U \ {x} \notin Good
    BY <1>3
<1>5. /\ U \ {x} \in SUBSET S /\ Cardinality(U \ {x}) \in Nat
      /\ Cardinality(U \ {x}) = n - 1
    BY <1>3, <1>4, RestIsSmaller
<1>6. n - 1 \in Bad /\ n \in Nat
    BY <1>4, <1>5
<1>7. n <= n - 1
    <2> HIDE DEF Bad
    <2> QED BY <1>2, <1>6
<1> QED BY <1>6, <1>7

\* In a solution the order in which elements are taken does not matter.
LEMMA AnyElementChosen ==
    ASSUME NEW W, IsFiniteSet(W), NEW w \in [W -> Int],
           NEW g \in [SUBSET W -> Int], Solves(g, SUBSET W, w)
    PROVE  \A s \in SUBSET W : \A x \in s : g[s] = w[x] + g[s \ {x}]
<1> DEFINE Good == {s \in SUBSET W : \A x \in s : g[s] = w[x] + g[s \ {x}]}
<1>1. {} \in Good
    OBVIOUS
<1>2. ASSUME NEW s \in SUBSET W, s # {}, \A x \in s : s \ {x} \in Good
      PROVE  s \in Good
    <2> SUFFICES ASSUME NEW x \in s PROVE g[s] = w[x] + g[s \ {x}]
        OBVIOUS
    <2> DEFINE y == Chosen(s)
    <2>1. y \in s
        BY <1>2, ChosenIsElement
    <2>2. g[s] = w[y] + g[s \ {y}]
        BY <1>2 DEF Solves
    <2> HIDE DEF y
    <2>3. CASE x = y
        BY <2>2, <2>3
    <2>4. CASE x # y
        <3> DEFINE r == (s \ {x}) \ {y}
        <3>1. x \in s \ {y} /\ y \in s \ {x} /\ (s \ {y}) \ {x} = r /\ r \in SUBSET W
            BY <2>1, <2>4
        <3>2. g[s \ {y}] = w[x] + g[r] /\ g[s \ {x}] = w[y] + g[r]
            BY <1>2, <2>1, <3>1
        <3>3. w[x] \in Int /\ w[y] \in Int /\ g[r] \in Int
            BY <2>1, <3>1
        <3> QED BY <2>2, <3>2, <3>3
    <2> QED BY <2>3, <2>4
<1>3. \A s \in SUBSET W : s \in Good
    <2> HIDE DEF Good
    <2> QED BY <1>1, <1>2, SetInduction
<1> QED BY <1>3

\* Two solutions are the same.
LEMMA SolutionIsUnique ==
    ASSUME NEW W, IsFiniteSet(W), NEW w,
           NEW g, NEW h, Solves(g, SUBSET W, w), Solves(h, SUBSET W, w)
    PROVE  \A s \in SUBSET W : g[s] = h[s]
<1> DEFINE Good == {s \in SUBSET W : g[s] = h[s]}
<1>1. {} \in Good
    BY DEF Solves
<1>2. ASSUME NEW s \in SUBSET W, s # {}, \A x \in s : s \ {x} \in Good
      PROVE  s \in Good
    <2>1. g[s \ {Chosen(s)}] = h[s \ {Chosen(s)}]
        BY <1>2, ChosenIsElement
    <2> QED BY <1>2, <2>1 DEF Solves
<1>3. \A s \in SUBSET W : s \in Good
    <2> HIDE DEF Good
    <2> QED BY <1>1, <1>2, SetInduction
<1> QED BY <1>3

\* The sum of the weights of the elements of S.
Sum(w, S) == MapThenSumSet(LAMBDA x : w[x], S)

LEMMA SumIsSolution ==
    ASSUME NEW S, IsFiniteSet(S), NEW w, \A x \in S : w[x] \in Int
    PROVE  \E g \in [SUBSET S -> Int] : Solves(g, SUBSET S, w) /\ Sum(w, S) = g[S]
<1> DEFINE v == [x \in S |-> w[x]]
           Eq(g) == g = [s \in SUBSET S |-> IF s = {} THEN 0 ELSE w[Chosen(s)] + g[s \ {Chosen(s)}]]
           iter == CHOOSE g : Eq(g)
<1>1. PICK g \in [SUBSET S -> Int] : Solves(g, SUBSET S, v)
    BY Solvable
<1>2. \A s \in SUBSET S : s # {} => Chosen(s) \in S
    BY ChosenIsElement
<1>3. Eq(g)
    BY <1>1, <1>2 DEF Solves
<1>4. Eq(iter)
    BY <1>3
<1>5. Sum(w, S) = iter[S]
    BY DEF Sum, MapThenSumSet, MapThenFoldSet, Chosen
<1> HIDE DEF iter
<1>6. Solves(iter, SUBSET S, w) /\ Solves(iter, SUBSET S, v)
    BY <1>2, <1>4 DEF Solves
<1>7. iter \in [SUBSET S -> Int]
    <2>1. \A s \in SUBSET S : iter[s] = g[s]
        <3> HIDE DEF v, Eq
        <3> QED BY <1>1, <1>6, SolutionIsUnique
    <2>2. \E b : iter = [s \in SUBSET S |-> b[s]]
        BY <1>4
    <2> QED BY <2>1, <2>2
<1> QED BY <1>5, <1>6, <1>7

LEMMA SumEmpty == \A w : Sum(w, {}) = 0
<1> SUFFICES ASSUME NEW w PROVE Sum(w, {}) = 0
    OBVIOUS
<1>1. IsFiniteSet({}) /\ \A x \in {} : w[x] \in Int
    BY FS_EmptySet
<1>2. PICK g : Solves(g, SUBSET {}, w) /\ Sum(w, {}) = g[{}]
    BY <1>1, SumIsSolution
<1> QED BY <1>2 DEF Solves

\* Weights that agree on S have the same sum.
LEMMA SumOfEqual ==
    ASSUME NEW S, IsFiniteSet(S), NEW w, NEW v, \A x \in S : w[x] \in Int /\ v[x] = w[x]
    PROVE  Sum(w, S) = Sum(v, S)
<1>1. PICK g : Solves(g, SUBSET S, w) /\ Sum(w, S) = g[S]
    BY SumIsSolution
<1>2. PICK h : Solves(h, SUBSET S, v) /\ Sum(v, S) = h[S]
    BY SumIsSolution
<1>3. Solves(h, SUBSET S, w)
    <2>1. \A s \in SUBSET S : s # {} => Chosen(s) \in S
        BY ChosenIsElement
    <2> QED BY <1>2, <2>1 DEF Solves
<1>4. g[S] = h[S]
    BY <1>1, <1>3, SolutionIsUnique
<1> QED BY <1>1, <1>2, <1>4

\* Any element may be taken out of a sum.
LEMMA SumWithout ==
    ASSUME NEW S, IsFiniteSet(S), NEW w, \A y \in S : w[y] \in Int, NEW x \in S
    PROVE  /\ Sum(w, S) = w[x] + Sum(w, S \ {x})
           /\ Sum(w, S) \in Int /\ Sum(w, S \ {x}) \in Int
<1> DEFINE v == [y \in S |-> w[y]]
           T == S \ {x}
<1>1. PICK g \in [SUBSET S -> Int] : Solves(g, SUBSET S, w) /\ Sum(w, S) = g[S]
    BY SumIsSolution
<1>2. IsFiniteSet(T) /\ T \in SUBSET S
    BY FS_Subset
<1>3. PICK h \in [SUBSET T -> Int] : Solves(h, SUBSET T, w) /\ Sum(w, T) = h[T]
    <2>1. \A y \in T : w[y] \in Int
        OBVIOUS
    <2> HIDE DEF T
    <2> QED BY <1>2, <2>1, SumIsSolution
<1>4. Solves(g, SUBSET T, w)
    BY <1>1, <1>2 DEF Solves
<1>5. g[T] = h[T]
    <2> HIDE DEF T
    <2> QED BY <1>2, <1>3, <1>4, SolutionIsUnique
<1>6. Solves(g, SUBSET S, v)
    <2>1. \A s \in SUBSET S : s # {} => Chosen(s) \in S
        BY ChosenIsElement
    <2> QED BY <1>1, <2>1 DEF Solves
<1>7. g[S] = v[x] + g[S \ {x}]
    <2>1. v \in [S -> Int] /\ S \in SUBSET S
        OBVIOUS
    <2> HIDE DEF v
    <2> QED BY <1>6, <2>1, AnyElementChosen
<1> QED BY <1>1, <1>2, <1>3, <1>5, <1>7

LEMMA SumOfZeros ==
    ASSUME NEW S, IsFiniteSet(S), NEW w, \A x \in S : w[x] = 0
    PROVE  Sum(w, S) = 0
<1> DEFINE Good == {T \in SUBSET S : Sum(w, T) = 0}
<1>1. {} \in Good
    BY SumEmpty
<1>2. ASSUME NEW T \in SUBSET S, T # {}, \A x \in T : T \ {x} \in Good
      PROVE  T \in Good
    <2>1. PICK x \in T : TRUE
        BY <1>2
    <2>2. IsFiniteSet(T) /\ \A y \in T : w[y] = 0 /\ w[y] \in Int
        BY FS_Subset
    <2>3. Sum(w, T) = w[x] + Sum(w, T \ {x})
        BY <2>2, SumWithout
    <2>4. Sum(w, T \ {x}) = 0
        BY <1>2
    <2> QED BY <2>2, <2>3, <2>4
<1>3. S \in Good
    <2> HIDE DEF Good
    <2> QED BY <1>1, <1>2, SetInduction
<1> QED BY <1>3

LEMMA SumIsInt ==
    ASSUME NEW S, IsFiniteSet(S), NEW w, \A y \in S : w[y] \in Int
    PROVE  Sum(w, S) \in Int
<1>1. PICK g \in [SUBSET S -> Int] : Sum(w, S) = g[S]
    BY SumIsSolution
<1> QED BY <1>1

\* Increasing the weight of one element.
LEMMA SumIncreased ==
    ASSUME NEW S, IsFiniteSet(S), NEW w, NEW v, NEW id \in S,
           \A x \in S : w[x] \in Int /\ v[x] \in Int,
           \A x \in S \ {id} : v[x] = w[x]
    PROVE  Sum(v, S) = Sum(w, S) + (v[id] - w[id])
<1>1. Sum(w, S) = w[id] + Sum(w, S \ {id}) /\ Sum(w, S \ {id}) \in Int
    BY SumWithout
<1>2. Sum(v, S) = v[id] + Sum(v, S \ {id})
    BY SumWithout
<1>3. Sum(w, S \ {id}) = Sum(v, S \ {id})
    <2>1. IsFiniteSet(S \ {id})
        BY FS_RemoveElement
    <2>2. \A x \in S \ {id} : w[x] \in Int /\ v[x] = w[x]
        OBVIOUS
    <2> QED BY <2>1, <2>2, SumOfEqual
<1> QED BY <1>1, <1>2, <1>3

LEMMA SumIsNat ==
    ASSUME NEW S, IsFiniteSet(S), NEW w, \A y \in S : w[y] \in Nat
    PROVE  Sum(w, S) \in Nat
<1> DEFINE Good == {T \in SUBSET S : Sum(w, T) \in Nat}
<1>1. {} \in Good
    BY SumEmpty
<1>2. ASSUME NEW T \in SUBSET S, T # {}, \A x \in T : T \ {x} \in Good
      PROVE  T \in Good
    <2>1. PICK x \in T : TRUE
        BY <1>2
    <2>2. IsFiniteSet(T) /\ \A y \in T : w[y] \in Int
        BY FS_Subset
    <2>3. Sum(w, T) = w[x] + Sum(w, T \ {x})
        BY <2>2, SumWithout
    <2>4. Sum(w, T \ {x}) \in Nat
        BY <1>2
    <2> QED BY <2>3, <2>4
<1>3. \A T \in SUBSET S : T \in Good
    <2> HIDE DEF Good
    <2> QED BY <1>1, <1>2, SetInduction
<1> QED BY <1>3

\* Smaller weights have a smaller sum.
LEMMA SumIsMonotone ==
    ASSUME NEW S, IsFiniteSet(S), NEW w, NEW v,
           \A x \in S : w[x] \in Int /\ v[x] \in Int /\ w[x] <= v[x]
    PROVE  Sum(w, S) <= Sum(v, S)
<1> DEFINE Good == {T \in SUBSET S : Sum(w, T) <= Sum(v, T)}
<1>1. {} \in Good
    BY SumEmpty
<1>2. ASSUME NEW T \in SUBSET S, T # {}, \A x \in T : T \ {x} \in Good
      PROVE  T \in Good
    <2>1. PICK x \in T : TRUE
        BY <1>2
    <2>2. IsFiniteSet(T)
        BY FS_Subset
    <2>3. /\ Sum(w, T) = w[x] + Sum(w, T \ {x}) /\ Sum(w, T \ {x}) \in Int
          /\ Sum(v, T) = v[x] + Sum(v, T \ {x}) /\ Sum(v, T \ {x}) \in Int
        BY <2>2, SumWithout
    <2>4. Sum(w, T \ {x}) <= Sum(v, T \ {x})
        BY <1>2
    <2> QED BY <2>3, <2>4
<1>3. \A T \in SUBSET S : T \in Good
    <2> HIDE DEF Good
    <2> QED BY <1>1, <1>2, SetInduction
<1> QED BY <1>3

\* The sum over two disjoint sets.
LEMMA SumOfDisjoint ==
    ASSUME NEW S, IsFiniteSet(S), NEW B \in SUBSET S, NEW w, \A x \in S : w[x] \in Int
    PROVE  \A A \in SUBSET (S \ B) : Sum(w, A \cup B) = Sum(w, A) + Sum(w, B)
<1> DEFINE Good == {A \in SUBSET (S \ B) : Sum(w, A \cup B) = Sum(w, A) + Sum(w, B)}
<1>1. IsFiniteSet(B) /\ IsFiniteSet(S \ B) /\ \A A \in SUBSET (S \ B) : IsFiniteSet(A) /\ IsFiniteSet(A \cup B)
    <2>1. \A A \in SUBSET (S \ B) : A \in SUBSET S /\ A \cup B \in SUBSET S
        OBVIOUS
    <2> QED BY <2>1, FS_Subset
<1>2. Sum(w, B) \in Int
    BY <1>1, SumIsInt
<1>3. {} \in Good
    <2>1. {} \cup B = B /\ Sum(w, {}) = 0
        BY SumEmpty
    <2> QED BY <1>2, <2>1
<1>4. ASSUME NEW A \in SUBSET (S \ B), A # {}, \A x \in A : A \ {x} \in Good
      PROVE  A \in Good
    <2>1. PICK x \in A : TRUE
        BY <1>4
    <2>2. Sum(w, A) = w[x] + Sum(w, A \ {x}) /\ Sum(w, A \ {x}) \in Int
        BY <1>1, SumWithout
    <2>3. Sum(w, A \cup B) = w[x] + Sum(w, (A \cup B) \ {x})
        <3>1. IsFiniteSet(A \cup B) /\ x \in A \cup B /\ \A y \in A \cup B : w[y] \in Int
            BY <1>1
        <3> QED BY <3>1, SumWithout
    <2>4. (A \cup B) \ {x} = (A \ {x}) \cup B
        OBVIOUS
    <2>5. Sum(w, (A \ {x}) \cup B) = Sum(w, A \ {x}) + Sum(w, B)
        BY <1>4
    <2>6. w[x] \in Int
        OBVIOUS
    <2>7. Sum(w, A \cup B) = w[x] + (Sum(w, A \ {x}) + Sum(w, B))
        BY <2>3, <2>4, <2>5
    <2> QED BY <1>2, <2>2, <2>6, <2>7
<1>5. \A A \in SUBSET (S \ B) : A \in Good
    <2> DEFINE D == S \ B
    <2> HIDE DEF Good, D
    <2> SUFFICES \A A \in SUBSET D : A \in Good
        BY DEF D
    <2>1. IsFiniteSet(D) /\ \A A \in SUBSET D : A # {} /\ (\A x \in A : A \ {x} \in Good) => A \in Good
        BY <1>1, <1>4 DEF D
    <2> QED BY <1>3, <2>1, SetInduction
<1> QED BY <1>5

\* f replaces every element of A by another one of the same weight.
Renames(f, A, B, w, v) ==
    /\ B = {f[x] : x \in A} /\ \A x, y \in A : f[x] = f[y] => x = y
    /\ \A x \in A : w[x] \in Int /\ v[f[x]] = w[x]

LEMMA SumOfImage ==
    ASSUME NEW A, IsFiniteSet(A), NEW B, NEW f, NEW w, NEW v, Renames(f, A, B, w, v)
    PROVE  IsFiniteSet(B) /\ Sum(v, B) = Sum(w, A)
<1> USE DEF Renames
<1> DEFINE Im(T) == {f[x] : x \in T}
           Good == {T \in SUBSET A : IsFiniteSet(Im(T)) /\ Sum(v, Im(T)) = Sum(w, T)}
<1>1. {} \in Good
    <2>1. Im({}) = {}
        OBVIOUS
    <2> QED BY <2>1, SumEmpty, FS_EmptySet
<1>2. ASSUME NEW T \in SUBSET A, T # {}, \A x \in T : T \ {x} \in Good
      PROVE  T \in Good
    <2>1. PICK x \in T : TRUE
        BY <1>2
    <2>2. IsFiniteSet(T)
        BY FS_Subset
    <2>3. Sum(w, T) = w[x] + Sum(w, T \ {x})
        BY <2>2, SumWithout
    <2>4. Im(T \ {x}) = Im(T) \ {f[x]} /\ f[x] \in Im(T) /\ Im(T) = Im(T \ {x}) \cup {f[x]}
        OBVIOUS
    <2>5. IsFiniteSet(Im(T \ {x})) /\ Sum(v, Im(T \ {x})) = Sum(w, T \ {x})
        BY <1>2
    <2>6. IsFiniteSet(Im(T))
        <3>1. IsFiniteSet(Im(T \ {x}) \cup {f[x]})
            <4> HIDE DEF Im
            <4> QED BY <2>5, FS_AddElement
        <3> QED BY <2>4, <3>1
    <2>7. \A y \in Im(T) : v[y] \in Int
        OBVIOUS
    <2>8. Sum(v, Im(T)) = v[f[x]] + Sum(v, Im(T) \ {f[x]})
        <3> HIDE DEF Im
        <3> QED BY <2>4, <2>6, <2>7, SumWithout
    <2>9. Sum(v, Im(T)) = Sum(w, T)
        <3> HIDE DEF Im
        <3> QED BY <2>1, <2>3, <2>4, <2>5, <2>8
    <2> QED BY <2>6, <2>9
<1>3. \A T \in SUBSET A : T \in Good
    <2> HIDE DEF Good
    <2> QED BY <1>1, <1>2, SetInduction
<1>4. A \in Good /\ B = Im(A)
    BY <1>3
<1> QED BY <1>4

=============================================================================


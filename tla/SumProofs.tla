----------------------------- MODULE SumProofs ------------------------------
(***************************************************************************)
(* Induction without a predicate parameter, and what follows from it for   *)
(* the sums and the extrema that the model is built from.  A property of   *)
(* the subsets of a finite set is the set of the subsets that have it, and *)
(* an induction is the choice of a smallest subset that does not.          *)
(***************************************************************************)
EXTENDS Integers, FiniteSetsExt, FiniteSetTheorems, WellFoundedInduction, TLAPS

-----------------------------------------------------------------------------
(* Induction. *)

\* Among some subsets of a finite set one contains no other.
LEMMA SmallestSubset ==
    ASSUME NEW S, IsFiniteSet(S), NEW Bad \in SUBSET SUBSET S, Bad # {}
    PROVE  \E T \in Bad : \A U \in Bad : U \subseteq T => U = T
<1>1. Bad \subseteq FiniteSubsetsOf(S)
  BY FS_Subset DEF FiniteSubsetsOf
<1>2. PICK T \in Bad : \A U \in Bad : ~(<<U, T>> \in StrictSubsetOrdering(S))
  BY <1>1, WFMin, FS_StrictSubsetOrderingWellFounded
<1>3. \A U \in Bad : U \subseteq T => U = T
  BY <1>2 DEF StrictSubsetOrdering
<1>q. QED
  BY <1>3

\* Induction over the size of a set.
LEMMA SetInduction ==
    ASSUME NEW S, IsFiniteSet(S), NEW Good, {} \in Good,
           \A T \in SUBSET S : \A x \in T : T \ {x} \in Good => T \in Good
    PROVE  \A T \in SUBSET S : T \in Good
<1> SUFFICES ASSUME (SUBSET S) \ Good # {} PROVE FALSE
  OBVIOUS
<1>1. PICK T \in (SUBSET S) \ Good : \A U \in (SUBSET S) \ Good : U \subseteq T => U = T
  <2> DEFINE Bad == (SUBSET S) \ Good
  <2>1. Bad \in SUBSET SUBSET S /\ Bad # {}
    OBVIOUS
  <2> HIDE DEF Bad
  <2>2. \E T \in Bad : \A U \in Bad : U \subseteq T => U = T
    BY <2>1, SmallestSubset
  <2>q. QED
    BY <2>2 DEF Bad
<1>2. T # {}
  BY <1>1
<1>3. PICK x \in T : TRUE
  BY <1>2
<1>4. T \ {x} \in Good
  BY <1>1, <1>3
<1>q. QED
  BY <1>1, <1>4

\* A set of naturals has a least element: the shortest of the intervals 1 .. n.
LEMMA LeastElement ==
    ASSUME NEW Q \in SUBSET Nat, Q # {}
    PROVE  \E x \in Q : \A y \in Q : x <= y
<1>1. PICK top \in Q : TRUE
  OBVIOUS
<1> DEFINE Below == {n \in Q : n <= top}
           Bad == {1 .. n : n \in Below}
<1>2. IsFiniteSet(1 .. top)
  BY FS_Interval
<1>3. Bad \in SUBSET SUBSET (1 .. top)
  <2>1. ASSUME NEW n \in Below PROVE 1 .. n \subseteq 1 .. top
    OBVIOUS
  <2>q. QED
    BY <2>1
<1>4. Bad # {}
  BY <1>1
<1>5. PICK T \in Bad : \A U \in Bad : U \subseteq T => U = T
  <2> DEFINE Longest == 1 .. top
  <2>1. IsFiniteSet(Longest) /\ Bad \in SUBSET SUBSET Longest
    BY <1>2, <1>3
  <2> HIDE DEF Bad, Longest
  <2>q. QED
    BY <2>1, <1>4, SmallestSubset
<1>6. PICK x \in Below : T = 1 .. x
  OBVIOUS
<1>7. ASSUME NEW y \in Q, ~(x <= y) PROVE FALSE
  <2>1. y \in Below /\ y < x /\ x \in Nat /\ y \in Nat
    BY <1>7, <1>6
  <2>2. 1 .. y \subseteq T /\ 1 .. y \in Bad
    BY <2>1, <1>6
  <2>3. x \in 1 .. x /\ x \notin 1 .. y
    BY <2>1
  <2>q. QED
    BY <2>2, <2>3, <1>5, <1>6
<1>q. QED
  BY <1>6, <1>7

\* Induction over the naturals.
LEMMA NatInductionBySet ==
    ASSUME NEW Good, 0 \in Good, \A n \in Nat : n \in Good => n + 1 \in Good
    PROVE  \A n \in Nat : n \in Good
<1> SUFFICES ASSUME Nat \ Good # {} PROVE FALSE
  OBVIOUS
<1>1. PICK x \in Nat \ Good : \A y \in Nat \ Good : x <= y
  <2>1. Nat \ Good \in SUBSET Nat
    OBVIOUS
  <2>q. QED
    BY <2>1, LeastElement
<1>2. x - 1 \in Nat /\ x - 1 \in Good
  BY <1>1
<1>q. QED
  BY <1>1, <1>2

-----------------------------------------------------------------------------
(* Sums. *)

\* The function that SumFunctionOnSet chooses, over the subsets of S.
Chosen(s) == CHOOSE x \in s : TRUE

Accumulates(g, f, S) ==
    g = [s \in SUBSET S |-> IF s = {} THEN 0 ELSE f[Chosen(s)] + g[s \ {Chosen(s)}]]

LEMMA SumIsAccumulated ==
    ASSUME NEW f, NEW S
    PROVE  SumFunctionOnSet(f, S) = (CHOOSE g : Accumulates(g, f, S))[S]
BY DEF SumFunctionOnSet, FoldFunctionOnSet, MapThenFoldSet, Accumulates, Chosen

LEMMA ChosenIsIn == ASSUME NEW s, s # {} PROVE Chosen(s) \in s
BY DEF Chosen

\* What two such functions give for a set that both are defined on.
LEMMA AccumulationsAgree ==
    ASSUME NEW f, NEW S, IsFiniteSet(S), NEW A, NEW B, NEW g, NEW h,
           S \subseteq A, S \subseteq B, Accumulates(g, f, A), Accumulates(h, f, B)
    PROVE  g[S] = h[S]
<1> DEFINE Bad == {T \in SUBSET S : g[T] # h[T]}
<1> SUFFICES ASSUME Bad # {} PROVE FALSE
  OBVIOUS
<1>1. PICK T \in Bad : \A U \in Bad : U \subseteq T => U = T
  <2>1. Bad \in SUBSET SUBSET S
    OBVIOUS
  <2> HIDE DEF Bad
  <2>q. QED
    BY <2>1, SmallestSubset
<1>2. /\ g[T] = IF T = {} THEN 0 ELSE f[Chosen(T)] + g[T \ {Chosen(T)}]
      /\ h[T] = IF T = {} THEN 0 ELSE f[Chosen(T)] + h[T \ {Chosen(T)}]
  BY DEF Accumulates
<1>3. T # {} /\ T \ {Chosen(T)} \notin Bad
  BY <1>1, <1>2, ChosenIsIn
<1>4. g[T \ {Chosen(T)}] = h[T \ {Chosen(T)}]
  BY <1>3
<1>q. QED
  BY <1>2, <1>3, <1>4

\* There is such a function for every finite set.
LEMMA AccumulationExists ==
    ASSUME NEW f, NEW S, IsFiniteSet(S)
    PROVE  \E g : Accumulates(g, f, S)
<1> DEFINE Of(T) == CHOOSE g : Accumulates(g, f, T)
           Bad == {T \in SUBSET S : ~ \E g : Accumulates(g, f, T)}
<1> SUFFICES ASSUME Bad # {} PROVE FALSE
  OBVIOUS
<1>1. PICK T \in Bad : \A U \in Bad : U \subseteq T => U = T
  <2>1. Bad \in SUBSET SUBSET S
    OBVIOUS
  <2> HIDE DEF Bad
  <2>q. QED
    BY <2>1, SmallestSubset
<1>2. ASSUME NEW U \in SUBSET T, U # T PROVE Accumulates(Of(U), f, U)
  <2>1. U \notin Bad /\ U \in SUBSET S
    BY <1>1, <1>2
  <2>q. QED
    BY <2>1
<1> DEFINE Rest(s) == s \ {Chosen(s)}
           h == [s \in SUBSET T |-> IF s = {} THEN 0 ELSE f[Chosen(s)] + Of(Rest(s))[Rest(s)]]
<1> HIDE DEF Of
<1>3. ASSUME NEW U \in SUBSET T, U # T PROVE h[U] = Of(U)[U]
  <2>1. Of(U)[U] = IF U = {} THEN 0 ELSE f[Chosen(U)] + Of(U)[Rest(U)]
    BY <1>2, <1>3 DEF Accumulates
  <2>2. CASE U = {}
    BY <2>1, <2>2
  <2>3. CASE U # {}
    <3>1. Rest(U) \subseteq U /\ Rest(U) # U /\ Rest(U) # T /\ Rest(U) \in SUBSET T
      BY ChosenIsIn, <2>3
    <3>2. IsFiniteSet(Rest(U))
      BY FS_Subset, <3>1, <1>1
    <3>3. Accumulates(Of(Rest(U)), f, Rest(U)) /\ Accumulates(Of(U), f, U)
      BY <1>2, <1>3, <3>1
    <3>4. Of(U)[Rest(U)] = Of(Rest(U))[Rest(U)]
      <4> HIDE DEF Rest
      <4>q. QED
        BY AccumulationsAgree, <3>1, <3>2, <3>3
    <3>q. QED
      BY <2>1, <2>3, <3>4
  <2>q. QED
    BY <2>2, <2>3
<1>4. ASSUME NEW s \in SUBSET T, s # {} PROVE h[Rest(s)] = Of(Rest(s))[Rest(s)]
  <2>1. Rest(s) \in SUBSET T /\ Rest(s) # T
    BY ChosenIsIn, <1>4
  <2> HIDE DEF h, Rest
  <2>q. QED
    BY <1>3, <2>1
<1>5. \A s \in SUBSET T : h[s] = IF s = {} THEN 0 ELSE f[Chosen(s)] + h[Rest(s)]
  BY <1>4
<1>6. h = [s \in SUBSET T |-> IF s = {} THEN 0 ELSE f[Chosen(s)] + h[Rest(s)]]
  <2>1. h = [s \in SUBSET T |-> h[s]]
    OBVIOUS
  <2> HIDE DEF h, Rest
  <2>q. QED
    BY <1>5, <2>1
<1>7. Accumulates(h, f, T)
  <2> HIDE DEF h
  <2>q. QED
    BY <1>6 DEF Accumulates
<1>q. QED
  BY <1>1, <1>7

\* A sum over a finite set: nothing, or the chosen value and the sum of the others.
LEMMA SumUnfolds ==
    ASSUME NEW f, NEW S, IsFiniteSet(S)
    PROVE  SumFunctionOnSet(f, S) =
               IF S = {} THEN 0 ELSE f[Chosen(S)] + SumFunctionOnSet(f, S \ {Chosen(S)})
<1> DEFINE g == CHOOSE g : Accumulates(g, f, S)
           Rest == S \ {Chosen(S)}
           h == CHOOSE h : Accumulates(h, f, Rest)
<1>1. IsFiniteSet(Rest) /\ Rest \in SUBSET S
  BY FS_Subset
<1>2. Accumulates(g, f, S) /\ Accumulates(h, f, Rest)
  <2>1. Accumulates(g, f, S)
    BY AccumulationExists
  <2> HIDE DEF Rest
  <2>2. Accumulates(h, f, Rest)
    BY AccumulationExists, <1>1
  <2>q. QED
    BY <2>1, <2>2
<1>3. SumFunctionOnSet(f, S) = g[S] /\ SumFunctionOnSet(f, Rest) = h[Rest]
  BY SumIsAccumulated
<1> HIDE DEF g, h
<1>4. g[S] = IF S = {} THEN 0 ELSE f[Chosen(S)] + g[Rest]
  BY <1>2 DEF Accumulates
<1>5. g[Rest] = h[Rest]
  <2> HIDE DEF Rest
  <2>q. QED
    BY <1>1, <1>2, AccumulationsAgree
<1>q. QED
  BY <1>3, <1>4, <1>5

LEMMA SumOfNothing == ASSUME NEW f PROVE SumFunctionOnSet(f, {}) = 0
BY SumUnfolds, FS_EmptySet

\* A sum of integers is an integer.
LEMMA SumIsInteger ==
    ASSUME NEW S, IsFiniteSet(S), NEW f, \A x \in S : f[x] \in Int
    PROVE  \A T \in SUBSET S : SumFunctionOnSet(f, T) \in Int
<1> DEFINE Bad == {T \in SUBSET S : SumFunctionOnSet(f, T) \notin Int}
<1> SUFFICES ASSUME Bad # {} PROVE FALSE
  OBVIOUS
<1>1. PICK T \in Bad : \A U \in Bad : U \subseteq T => U = T
  <2>1. Bad \in SUBSET SUBSET S
    OBVIOUS
  <2> HIDE DEF Bad
  <2>q. QED
    BY <2>1, SmallestSubset
<1>2. IsFiniteSet(T)
  BY FS_Subset, <1>1
<1>3. T # {}
  <2>1. SumFunctionOnSet(f, {}) \in Int
    BY SumOfNothing
  <2>q. QED
    BY <1>1, <2>1
<1>4. SumFunctionOnSet(f, T) = f[Chosen(T)] + SumFunctionOnSet(f, T \ {Chosen(T)})
  BY SumUnfolds, <1>2, <1>3
<1>5. Chosen(T) \in S /\ T \ {Chosen(T)} \notin Bad
  BY ChosenIsIn, <1>1, <1>3
<1>q. QED
  BY <1>1, <1>4, <1>5

\* The order of summation does not matter: any element can be taken out first.
LEMMA SumWithout ==
    ASSUME NEW S, IsFiniteSet(S), NEW f, \A x \in S : f[x] \in Int, NEW x \in S
    PROVE  SumFunctionOnSet(f, S) = f[x] + SumFunctionOnSet(f, S \ {x})
<1> DEFINE Sum(T) == SumFunctionOnSet(f, T)
           Bad == {T \in SUBSET S : \E y \in T : Sum(T) # f[y] + Sum(T \ {y})}
<1> SUFFICES ASSUME Bad # {} PROVE FALSE
  OBVIOUS
<1>1. PICK T \in Bad : \A U \in Bad : U \subseteq T => U = T
  <2>1. Bad \in SUBSET SUBSET S
    OBVIOUS
  <2> HIDE DEF Bad
  <2>q. QED
    BY <2>1, SmallestSubset
<1>2. PICK y \in T : Sum(T) # f[y] + Sum(T \ {y})
  BY <1>1
<1> DEFINE c == Chosen(T)
           Others == (T \ {y}) \ {c}
<1>3. \A U \in SUBSET S : Sum(U) \in Int
  BY SumIsInteger
<1> HIDE DEF Sum
<1>4. c \in T /\ Sum(T) = f[c] + Sum(T \ {c})
  BY ChosenIsIn, SumUnfolds, FS_Subset, <1>1, <1>2 DEF Sum
<1>5. c # y
  BY <1>2, <1>4
<1>6. T \ {c} \notin Bad /\ T \ {y} \notin Bad
  BY <1>1, <1>4, <1>2
<1>7. Sum(T \ {c}) = f[y] + Sum(Others)
  <2>1. (T \ {c}) \ {y} = Others
    OBVIOUS
  <2>2. y \in T \ {c} /\ T \ {c} \in SUBSET S
    BY <1>5, <1>2, <1>1
  <2>3. Sum(T \ {c}) = f[y] + Sum((T \ {c}) \ {y})
    BY <1>6, <2>2
  <2>q. QED
    BY <2>1, <2>3
<1>8. Sum(T \ {y}) = f[c] + Sum(Others)
  BY <1>6, <1>5, <1>4, <1>1
<1>9. Sum(Others) \in Int /\ f[c] \in Int /\ f[y] \in Int
  BY <1>3, <1>1, <1>4, <1>2
<1> HIDE DEF c, Others, Bad
<1>q. QED
  BY <1>2, <1>4, <1>7, <1>8, <1>9

\* What an induction over the subsets of S needs to know of sums and sizes.
LEMMA SumStep ==
    ASSUME NEW S, IsFiniteSet(S), NEW f, \A x \in S : f[x] \in Int,
           NEW T \in SUBSET S, NEW x \in T
    PROVE  /\ SumFunctionOnSet(f, T) = f[x] + SumFunctionOnSet(f, T \ {x})
           /\ SumFunctionOnSet(f, T \ {x}) \in Int
           /\ f[x] \in Int
           /\ Cardinality(T) = Cardinality(T \ {x}) + 1
           /\ Cardinality(T \ {x}) \in Nat
<1>1. IsFiniteSet(T) /\ \A y \in T : f[y] \in Int
  BY FS_Subset
<1>2. SumFunctionOnSet(f, T) = f[x] + SumFunctionOnSet(f, T \ {x})
  BY <1>1, SumWithout
<1>3. SumFunctionOnSet(f, T \ {x}) \in Int
  BY SumIsInteger
<1>4. /\ Cardinality(T \ {x}) = Cardinality(T) - 1
      /\ Cardinality(T) \in Nat
      /\ Cardinality(T \ {x}) \in Nat
  BY <1>1, FS_RemoveElement, FS_CardinalityType
<1>q. QED
  BY <1>1, <1>2, <1>3, <1>4

\* Term by term smaller, smaller in sum.
LEMMA SumsCompare ==
    ASSUME NEW S, IsFiniteSet(S), NEW f, NEW g,
           \A x \in S : f[x] \in Int /\ g[x] \in Int /\ f[x] <= g[x]
    PROVE  SumFunctionOnSet(f, S) <= SumFunctionOnSet(g, S)
<1> DEFINE Good == {T \in SUBSET S : SumFunctionOnSet(f, T) <= SumFunctionOnSet(g, T)}
<1>1. {} \in Good
  BY SumOfNothing
<1>2. ASSUME NEW T \in SUBSET S, NEW x \in T, T \ {x} \in Good PROVE T \in Good
  <2>1. /\ SumFunctionOnSet(f, T) = f[x] + SumFunctionOnSet(f, T \ {x})
        /\ SumFunctionOnSet(f, T \ {x}) \in Int
    BY SumStep
  <2>2. /\ SumFunctionOnSet(g, T) = g[x] + SumFunctionOnSet(g, T \ {x})
        /\ SumFunctionOnSet(g, T \ {x}) \in Int
    BY SumStep
  <2>q. QED
    BY <1>2, <2>1, <2>2
<1>3. S \in Good
  <2> HIDE DEF Good
  <2>q. QED
    BY <1>1, <1>2, SetInduction
<1>q. QED
  BY <1>3

\* A sum of n values of which none exceeds b is at most n * b.
LEMMA SumAtMost ==
    ASSUME NEW S, IsFiniteSet(S), NEW f, NEW b \in Nat,
           \A x \in S : f[x] \in Int /\ f[x] <= b
    PROVE  SumFunctionOnSet(f, S) <= Cardinality(S) * b
<1> DEFINE Good == {T \in SUBSET S : SumFunctionOnSet(f, T) <= Cardinality(T) * b}
<1>1. {} \in Good
  BY SumOfNothing, FS_EmptySet
<1>2. ASSUME NEW T \in SUBSET S, NEW x \in T, T \ {x} \in Good PROVE T \in Good
  <2>1. /\ SumFunctionOnSet(f, T) = f[x] + SumFunctionOnSet(f, T \ {x})
        /\ SumFunctionOnSet(f, T \ {x}) \in Int
        /\ Cardinality(T) = Cardinality(T \ {x}) + 1
        /\ Cardinality(T \ {x}) \in Nat
    BY SumStep
  <2>2. (Cardinality(T \ {x}) + 1) * b = Cardinality(T \ {x}) * b + b
    BY <2>1
  <2>q. QED
    BY <1>2, <2>1, <2>2
<1>3. S \in Good
  <2> HIDE DEF Good
  <2>q. QED
    BY <1>1, <1>2, SetInduction
<1>q. QED
  BY <1>3

\* A sum of naturals is a natural number, and zero only if it has no positive term.
LEMMA SumIsNatural ==
    ASSUME NEW S, IsFiniteSet(S), NEW f, \A x \in S : f[x] \in Nat
    PROVE  /\ SumFunctionOnSet(f, S) \in Nat
           /\ \A x \in S : f[x] <= SumFunctionOnSet(f, S)
<1> DEFINE Good == {T \in SUBSET S : SumFunctionOnSet(f, T) \in Nat}
<1>1. {} \in Good
  BY SumOfNothing
<1>2. ASSUME NEW T \in SUBSET S, NEW x \in T, T \ {x} \in Good PROVE T \in Good
  <2>1. SumFunctionOnSet(f, T) = f[x] + SumFunctionOnSet(f, T \ {x})
    BY SumStep
  <2>q. QED
    BY <1>2, <2>1
<1>3. \A T \in SUBSET S : SumFunctionOnSet(f, T) \in Nat
  <2>1. \A T \in SUBSET S : T \in Good
    <3> HIDE DEF Good
    <3>q. QED
      BY <1>1, <1>2, SetInduction
  <2>q. QED
    BY <2>1
<1>4. ASSUME NEW x \in S PROVE f[x] <= SumFunctionOnSet(f, S)
  <2>1. SumFunctionOnSet(f, S) = f[x] + SumFunctionOnSet(f, S \ {x})
    BY SumStep
  <2>2. SumFunctionOnSet(f, S \ {x}) \in Nat
    BY <1>3
  <2>q. QED
    BY <2>1, <2>2
<1>q. QED
  BY <1>3, <1>4

\* a * k is b * t + c * u but for d.
Near(a, k, b, t, c, u, d) == a * k <= b * t + c * u + d /\ b * t + c * u <= a * k + d

LEMMA NearnessAdds ==
    ASSUME NEW a \in Nat, NEW b \in Nat, NEW c \in Nat, NEW d \in Nat,
           NEW k1 \in Int, NEW t1 \in Int, NEW u1 \in Int, Near(a, k1, b, t1, c, u1, d),
           NEW k2 \in Int, NEW t2 \in Int, NEW u2 \in Int, NEW n \in Nat,
           Near(a, k2, b, t2, c, u2, n * d)
    PROVE  Near(a, k1 + k2, b, t1 + t2, c, u1 + u2, (n + 1) * d)
<1>1. /\ a * (k1 + k2) = a * k1 + a * k2
      /\ b * (t1 + t2) = b * t1 + b * t2
      /\ c * (u1 + u2) = c * u1 + c * u2
      /\ (n + 1) * d = n * d + d
  OBVIOUS
<1>2. /\ a * k1 \in Int /\ a * k2 \in Int /\ b * t1 \in Int /\ b * t2 \in Int
      /\ c * u1 \in Int /\ c * u2 \in Int /\ n * d \in Int
  OBVIOUS
<1>q. QED
  BY <1>1, <1>2 DEF Near

\* If each a * k[x] is b * t[x] + c * u[x] but for d, so are the sums but for n * d.
LEMMA SumsRounded ==
    ASSUME NEW S, IsFiniteSet(S), NEW k, NEW t, NEW u,
           \A x \in S : k[x] \in Int /\ t[x] \in Int /\ u[x] \in Int,
           NEW a \in Nat, NEW b \in Nat, NEW c \in Nat, NEW d \in Nat,
           \A x \in S : Near(a, k[x], b, t[x], c, u[x], d)
    PROVE  Near(a, SumFunctionOnSet(k, S), b, SumFunctionOnSet(t, S),
                c, SumFunctionOnSet(u, S), Cardinality(S) * d)
<1> DEFINE Close(T) == Near(a, SumFunctionOnSet(k, T), b, SumFunctionOnSet(t, T),
                            c, SumFunctionOnSet(u, T), Cardinality(T) * d)
           Good == {T \in SUBSET S : Close(T)}
<1>1. {} \in Good
  <2>1. /\ SumFunctionOnSet(k, {}) = 0 /\ SumFunctionOnSet(t, {}) = 0
        /\ SumFunctionOnSet(u, {}) = 0 /\ Cardinality({}) = 0
    BY SumOfNothing, FS_EmptySet
  <2>2. Near(a, 0, b, 0, c, 0, 0 * d)
    BY DEF Near
  <2>q. QED
    BY <2>1, <2>2
<1>2. ASSUME NEW T \in SUBSET S, NEW x \in T, T \ {x} \in Good PROVE T \in Good
  <2> DEFINE k2 == SumFunctionOnSet(k, T \ {x})
             t2 == SumFunctionOnSet(t, T \ {x})
             u2 == SumFunctionOnSet(u, T \ {x})
             n == Cardinality(T \ {x})
  <2>1. SumFunctionOnSet(k, T) = k[x] + k2 /\ k[x] \in Int /\ k2 \in Int
    BY SumStep
  <2>2. SumFunctionOnSet(t, T) = t[x] + t2 /\ t[x] \in Int /\ t2 \in Int
    BY SumStep
  <2>3. /\ SumFunctionOnSet(u, T) = u[x] + u2 /\ u[x] \in Int /\ u2 \in Int
        /\ Cardinality(T) = n + 1 /\ n \in Nat
    BY SumStep
  <2>4. Near(a, k[x], b, t[x], c, u[x], d) /\ Near(a, k2, b, t2, c, u2, n * d)
    BY <1>2
  <2> HIDE DEF k2, t2, u2, n
  <2>5. Near(a, k[x] + k2, b, t[x] + t2, c, u[x] + u2, (n + 1) * d)
    BY <2>1, <2>2, <2>3, <2>4, NearnessAdds
  <2>q. QED
    BY <2>1, <2>2, <2>3, <2>5
<1>3. S \in Good
  <2>1. \A T \in SUBSET S : \A x \in T : T \ {x} \in Good => T \in Good
    BY <1>2
  <2> HIDE DEF Good
  <2>q. QED
    BY <1>1, <2>1, SetInduction
<1>q. QED
  BY <1>3

\* Functions that agree on a set have the same sum over it.
LEMMA SumsAgree ==
    ASSUME NEW S, IsFiniteSet(S), NEW f, NEW g, \A x \in S : f[x] \in Int /\ f[x] = g[x]
    PROVE  SumFunctionOnSet(f, S) = SumFunctionOnSet(g, S)
<1>1. SumFunctionOnSet(f, S) \in Int /\ SumFunctionOnSet(g, S) \in Int
  BY SumIsInteger
<1>2. /\ SumFunctionOnSet(f, S) <= SumFunctionOnSet(g, S)
      /\ SumFunctionOnSet(g, S) <= SumFunctionOnSet(f, S)
  BY SumsCompare
<1>q. QED
  BY <1>1, <1>2

\* A sum along an enumeration of a set is the sum over the set.
LEMMA SumAlong ==
    ASSUME NEW S, IsFiniteSet(S), NEW g, \A x, y \in S : g[x] = g[y] => x = y,
           NEW f, NEW h, \A x \in S : h[x] \in Int /\ h[x] = f[g[x]]
    PROVE  SumFunctionOnSet(h, S) = SumFunctionOnSet(f, {g[x] : x \in S})
<1> DEFINE Of(T) == {g[x] : x \in T}
           Good == {T \in SUBSET S : SumFunctionOnSet(h, T) = SumFunctionOnSet(f, Of(T))}
<1>1. {} \in Good
  <2>1. Of({}) = {}
    OBVIOUS
  <2>q. QED
    BY <2>1, SumOfNothing
<1>2. ASSUME NEW T \in SUBSET S, NEW x \in T, T \ {x} \in Good PROVE T \in Good
  <2>1. SumFunctionOnSet(h, T) = h[x] + SumFunctionOnSet(h, T \ {x})
    BY SumStep
  <2>2. Of(T) \ {g[x]} = Of(T \ {x})
    OBVIOUS
  <2>3. SumFunctionOnSet(f, Of(T)) = f[g[x]] + SumFunctionOnSet(f, Of(T) \ {g[x]})
    <3>1. IsFiniteSet(Of(S))
      <4>1. [y \in S |-> g[y]] \in Surjection(S, Of(S))
        BY DEF Surjection
      <4> HIDE DEF Of
      <4>q. QED
        BY <4>1, FS_Surjection
    <3>2. \A y \in Of(S) : f[y] \in Int
      OBVIOUS
    <3>3. Of(T) \in SUBSET Of(S) /\ g[x] \in Of(T)
      OBVIOUS
    <3> HIDE DEF Of, Good
    <3>q. QED
      BY <3>1, <3>2, <3>3, SumStep
  <2>4. h[x] = f[g[x]]
    OBVIOUS
  <2>5. SumFunctionOnSet(h, T \ {x}) = SumFunctionOnSet(f, Of(T \ {x}))
    BY <1>2
  <2> HIDE DEF Of
  <2>q. QED
    BY <2>1, <2>2, <2>3, <2>4, <2>5
<1>3. \A T \in SUBSET S : T \in Good
  <2> HIDE DEF Good
  <2>q. QED
    BY <1>1, <1>2, SetInduction
<1>q. QED
  BY <1>3

-----------------------------------------------------------------------------
(* Extrema. *)

LEMMA MinIsLeast ==
    ASSUME NEW Q \in SUBSET Nat, Q # {}
    PROVE  Min(Q) \in Q /\ \A y \in Q : Min(Q) <= y
BY LeastElement DEF Min

\* Finitely many values of a function have a greatest.
LEMMA MaxOfValues ==
    ASSUME NEW S, IsFiniteSet(S), NEW f, \A x \in S : f[x] \in Nat
    PROVE  LET M == Max({0} \cup {f[x] : x \in S})
           IN  /\ M \in Nat
               /\ M = 0 \/ \E x \in S : M = f[x]
               /\ \A x \in S : f[x] <= M
<1> DEFINE Values(T) == {0} \cup {f[x] : x \in T}
           Good == {T \in SUBSET S : \E m \in Values(T) : \A y \in Values(T) : m >= y}
<1>1. {} \in Good
  OBVIOUS
<1>2. ASSUME NEW T \in SUBSET S, NEW x \in T, T \ {x} \in Good PROVE T \in Good
  <2>1. PICK m \in Values(T \ {x}) : \A y \in Values(T \ {x}) : m >= y
    BY <1>2
  <2>2. Values(T) = Values(T \ {x}) \cup {f[x]}
    OBVIOUS
  <2>3. Values(T) \subseteq Nat
    OBVIOUS
  <2> DEFINE top == IF f[x] > m THEN f[x] ELSE m
  <2> HIDE DEF Values
  <2>4. top \in Values(T) /\ \A y \in Values(T) : top >= y
    BY <2>1, <2>2, <2>3
  <2>q. QED
    BY <2>4
<1>3. S \in Good
  <2> HIDE DEF Good
  <2>q. QED
    BY <1>1, <1>2, SetInduction
<1>4. Max(Values(S)) \in Values(S) /\ \A y \in Values(S) : Max(Values(S)) >= y
  <2> HIDE DEF Values
  <2>q. QED
    BY <1>3 DEF Max
<1>5. Values(S) \subseteq Nat
  OBVIOUS
<1>6. \A x \in S : f[x] \in Values(S)
  OBVIOUS
<1>q. QED
  BY <1>4, <1>5, <1>6

LEMMA MaxOfTwo ==
    ASSUME NEW a \in Int, NEW b \in Int
    PROVE  Max({a, b}) \in {a, b} /\ Max({a, b}) >= a /\ Max({a, b}) >= b
<1>1. \E x \in {a, b} : \A y \in {a, b} : x >= y
  OBVIOUS
<1>q. QED
  BY <1>1 DEF Max
=============================================================================

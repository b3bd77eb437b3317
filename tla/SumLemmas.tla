------------------------------ MODULE SumLemmas ------------------------------
(***************************************************************************)
(* Lemmas about sums over finite sets and sequences (SumFunctionOnSet),    *)
(* for the proofs about the shares of distributeJobs and about the draws  *)
(* and files that the records of the sampler count. The definition of a    *)
(* sum is a recursive function that takes the elements in an unspecified   *)
(* order: the lemmas show that this function exists, and that any element  *)
(* may be taken first. Induction is over the subsets of a finite set, from *)
(* the fact that strict inclusion is well-founded on them.                 *)
(***************************************************************************)
EXTENDS Functions, Integers, FiniteSets, FiniteSetTheorems, TLAPS

-----------------------------------------------------------------------------
(* Induction, stated for sets instead of predicates *)

\* A family of sets that holds a finite set whenever it holds all its strict
\* subsets holds every finite set.
LEMMA SubsetInduction ==
  ASSUME NEW S, NEW X,
         \A T \in SUBSET S :
            IsFiniteSet(T) /\ (\A U \in SUBSET T : U # T => U \in X) => T \in X
  PROVE  \A T \in SUBSET S : IsFiniteSet(T) => T \in X
<1> DEFINE F == FiniteSubsetsOf(S) \ X
<1> SUFFICES ASSUME F # {} PROVE FALSE
  BY DEF FiniteSubsetsOf
<1>1. IsWellFoundedOn(StrictSubsetOrdering(S), FiniteSubsetsOf(S))
  BY FS_StrictSubsetOrderingWellFounded
<1>2. PICK T \in F : \A U \in F : ~ (<<U, T>> \in StrictSubsetOrdering(S))
  <2> HIDE DEF F
  <2>1. F \subseteq FiniteSubsetsOf(S)
    BY DEF F
  <2> QED
    BY <1>1, <2>1, WFMin
<1>3. T \in SUBSET S /\ IsFiniteSet(T) /\ T \notin X
  BY <1>2 DEF FiniteSubsetsOf
<1>4. ASSUME NEW U \in SUBSET T, U # T PROVE U \in X
  <2>1. U \in SUBSET S /\ IsFiniteSet(U)
    BY <1>3, FS_Subset
  <2> QED
    BY <1>2, <1>3, <1>4, <2>1 DEF StrictSubsetOrdering, FiniteSubsetsOf
<1> QED
  BY <1>3, <1>4

\* A set that holds 0 and with every number the next one holds all naturals.
LEMMA NatInductionOnSet ==
  ASSUME NEW X, 0 \in X, \A n \in Nat : n \in X => n + 1 \in X
  PROVE  \A n \in Nat : n \in X
<1> DEFINE Y == {T \in SUBSET Nat : \A n \in Nat : T = 0..n => n \in X}
<1>1. ASSUME NEW T \in SUBSET Nat, \A U \in SUBSET T : U # T => U \in Y
      PROVE  T \in Y
  <2> SUFFICES ASSUME NEW n \in Nat, T = 0..n PROVE n \in X
    OBVIOUS
  <2>1. CASE n = 0
    BY <2>1
  <2>2. CASE n # 0
    <3>1. 0..(n - 1) \in SUBSET T /\ 0..(n - 1) # T /\ n - 1 \in Nat
      BY <2>2
    <3>2. n - 1 \in X
      BY <1>1, <3>1
    <3> QED
      BY <3>1, <3>2
  <2> QED
    BY <2>1, <2>2
<1> HIDE DEF Y
<1>2. \A T \in SUBSET Nat : IsFiniteSet(T) => T \in Y
  BY <1>1, SubsetInduction
<1>3. ASSUME NEW n \in Nat PROVE IsFiniteSet(0..n)
  BY FS_Interval
<1> QED
  BY <1>2, <1>3 DEF Y

-----------------------------------------------------------------------------
(* The recursive function behind a sum *)

\* The element that is taken first.
FirstOf(s) == CHOOSE x \in s : TRUE

\* g[s] is computed from the sum over s without its first element.
IsNextSum(f, g, s) == g[s] = IF s = {} THEN 0 ELSE f[FirstOf(s)] + g[s \ {FirstOf(s)}]

SumsOn(f, g, S) ==
  g = [s \in SUBSET S |-> IF s = {} THEN 0 ELSE f[FirstOf(s)] + g[s \ {FirstOf(s)}]]

LEMMA SumIsChosen ==
  ASSUME NEW f, NEW S
  PROVE  SumFunctionOnSet(f, S) = (CHOOSE g : SumsOn(f, g, S))[S]
BY DEF SumFunctionOnSet, FoldFunctionOnSet, MapThenFoldSet, SumsOn, FirstOf

\* There is a function of all subsets of a finite set that fits.
LEMMA SumsExist ==
  ASSUME NEW f, NEW S, IsFiniteSet(S)
  PROVE  \E g : SumsOn(f, g, S)
<1> DEFINE Upto(n) == {s \in SUBSET S : Cardinality(s) <= n}
           X == {n \in Nat : \E g : \A s \in Upto(n) : IsNextSum(f, g, s)}
           Step(g) == [s \in SUBSET S |-> IF s = {} THEN 0 ELSE f[FirstOf(s)] + g[s \ {FirstOf(s)}]]
<1>1. \A s \in SUBSET S : IsFiniteSet(s) /\ Cardinality(s) \in Nat
  BY FS_Subset, FS_CardinalityType
<1>2. ASSUME NEW s \in SUBSET S, s # {}
      PROVE  /\ FirstOf(s) \in s /\ s \ {FirstOf(s)} \in SUBSET S
             /\ Cardinality(s \ {FirstOf(s)}) = Cardinality(s) - 1
  <2>1. FirstOf(s) \in s
    BY <1>2 DEF FirstOf
  <2> QED
    BY <1>1, <2>1, FS_RemoveElement
<1>3. 0 \in X
  <2>1. \A s \in Upto(0) : s = {}
    BY <1>1, FS_EmptySet
  <2>2. \A s \in Upto(0) : IsNextSum(f, [s1 \in SUBSET S |-> 0], s)
    BY <2>1 DEF IsNextSum
  <2> QED
    BY <2>2
<1>4. ASSUME NEW n \in Nat, n \in X PROVE n + 1 \in X
  <2>1. PICK g : \A s \in Upto(n) : IsNextSum(f, g, s)
    BY <1>4
  <2>2. ASSUME NEW s \in Upto(n + 1) PROVE IsNextSum(f, Step(g), s)
    <3>1. CASE s = {}
      BY <3>1 DEF IsNextSum
    <3>2. CASE s # {}
      <4>1. s \ {FirstOf(s)} \in Upto(n)
        BY <1>1, <1>2, <3>2
      <4>2. Step(g)[s \ {FirstOf(s)}] = g[s \ {FirstOf(s)}]
        BY <2>1, <4>1 DEF IsNextSum
      <4> QED
        BY <3>2, <4>2 DEF IsNextSum
    <3> QED
      BY <3>1, <3>2
  <2>3. \E h : \A s \in Upto(n + 1) : IsNextSum(f, h, s)
    <3> HIDE DEF Step, Upto
    <3> QED
      BY <2>2
  <2> QED
    BY <2>3
<1>5. Cardinality(S) \in X
  <2> HIDE DEF X
  <2> QED
    BY <1>1, <1>3, <1>4, NatInductionOnSet
<1>6. PICK g : \A s \in Upto(Cardinality(S)) : IsNextSum(f, g, s)
  BY <1>5
<1>7. ASSUME NEW s \in SUBSET S PROVE IsNextSum(f, g, s)
  BY <1>1, <1>6, FS_Subset
<1>8. SumsOn(f, Step(g), S)
  <2>1. ASSUME NEW s \in SUBSET S, s # {}
        PROVE  Step(g)[s \ {FirstOf(s)}] = g[s \ {FirstOf(s)}]
    BY <1>2, <1>7, <2>1 DEF IsNextSum
  <2> QED
    BY <2>1 DEF SumsOn
<1> QED
  BY <1>8

\* Two such functions agree where both are defined.
LEMMA SumsAgree ==
  ASSUME NEW f, NEW S, NEW T \in SUBSET S, IsFiniteSet(T), NEW g, NEW h,
         SumsOn(f, g, S), SumsOn(f, h, T)
  PROVE  g[T] = h[T]
<1> DEFINE X == {U \in SUBSET T : g[U] = h[U]}
<1>1. ASSUME NEW U \in SUBSET T, \A V \in SUBSET U : V # U => V \in X
      PROVE  U \in X
  <2>1. CASE U = {}
    BY <2>1 DEF SumsOn
  <2>2. CASE U # {}
    <3>1. FirstOf(U) \in U
      BY <2>2 DEF FirstOf
    <3>2. U \ {FirstOf(U)} \in X
      BY <1>1, <3>1
    <3> QED
      BY <2>2, <3>1, <3>2 DEF SumsOn
  <2> QED
    BY <2>1, <2>2
<1> HIDE DEF X
<1>2. \A U \in SUBSET T : IsFiniteSet(U) => U \in X
  BY <1>1, SubsetInduction
<1> QED
  BY <1>2 DEF X

\* The equation of a sum.
LEMMA SumEquation ==
  ASSUME NEW f, NEW S, IsFiniteSet(S), S # {}
  PROVE  SumFunctionOnSet(f, S) = f[FirstOf(S)] + SumFunctionOnSet(f, S \ {FirstOf(S)})
<1> DEFINE T == S \ {FirstOf(S)}
           g == CHOOSE g : SumsOn(f, g, S)
           h == CHOOSE h : SumsOn(f, h, T)
<1>1. IsFiniteSet(T) /\ T \in SUBSET S
  BY FS_Subset
<1>2. SumsOn(f, g, S) /\ SumsOn(f, h, T)
  <2>1. (\E g1 : SumsOn(f, g1, S)) /\ (\E h1 : SumsOn(f, h1, T))
    BY <1>1, SumsExist
  <2> QED
    BY <2>1
<1>3. SumFunctionOnSet(f, S) = g[S] /\ SumFunctionOnSet(f, T) = h[T]
  BY SumIsChosen
<1> HIDE DEF g, h
<1>4. g[T] = h[T]
  BY <1>1, <1>2, SumsAgree
<1>5. g[S] = f[FirstOf(S)] + g[T]
  BY <1>2 DEF SumsOn
<1> QED
  BY <1>3, <1>4, <1>5

-----------------------------------------------------------------------------
(* What the proofs use *)

LEMMA SumOfNone ==
  ASSUME NEW f
  PROVE  SumFunctionOnSet(f, {}) = 0
BY DEF SumFunctionOnSet, FoldFunctionOnSet, MapThenFoldSet

\* A sum of integers is one, and any of them can be split off.
LEMMA SumWithout ==
  ASSUME NEW f, NEW S, IsFiniteSet(S), \A s \in S : f[s] \in Int
  PROVE  /\ SumFunctionOnSet(f, S) \in Int
         /\ \A x \in S : SumFunctionOnSet(f, S) = f[x] + SumFunctionOnSet(f, S \ {x})
<1> DEFINE Sm(T) == SumFunctionOnSet(f, T)
           X == {T \in SUBSET S : Sm(T) \in Int /\ \A x \in T : Sm(T) = f[x] + Sm(T \ {x})}
<1> HIDE DEF Sm
<1>1. ASSUME NEW T \in SUBSET S, IsFiniteSet(T), \A U \in SUBSET T : U # T => U \in X
      PROVE  T \in X
  <2>1. CASE T = {}
    BY <2>1, SumOfNone DEF Sm
  <2>2. CASE T # {}
    <3> DEFINE c == FirstOf(T)
    <3>1. c \in T
      BY <2>2 DEF FirstOf
    <3>2. Sm(T) = f[c] + Sm(T \ {c})
      BY <1>1, <2>2, SumEquation DEF Sm
    <3> HIDE DEF c
    <3>3. Sm(T \ {c}) \in Int /\ f[c] \in Int
      BY <1>1, <3>1
    <3>4. ASSUME NEW x \in T, x # c PROVE Sm(T) = f[x] + Sm(T \ {x})
      <4>1. (T \ {c}) \ {x} = (T \ {x}) \ {c}
        OBVIOUS
      <4>2. T \ {c} \in X /\ T \ {x} \in X
        BY <1>1, <3>1
      <4>3. Sm(T \ {c}) = f[x] + Sm((T \ {c}) \ {x})
        BY <4>2, <3>4
      <4>4. Sm(T \ {x}) = f[c] + Sm((T \ {c}) \ {x})
        BY <4>1, <4>2, <3>1, <3>4
      <4>5. (T \ {c}) \ {x} \in X
        BY <1>1, <3>1
      <4>6. Sm((T \ {c}) \ {x}) \in Int /\ f[x] \in Int
        BY <4>5
      <4> QED
        BY <3>2, <3>3, <4>3, <4>4, <4>6
    <3> QED
      BY <3>2, <3>3, <3>4
  <2> QED
    BY <2>1, <2>2
<1> HIDE DEF X
<1>2. S \in X
  BY <1>1, SubsetInduction
<1> QED
  BY <1>2 DEF X, Sm

\* Sums are compared element by element, also up to factors.
LEMMA SumCompared ==
  ASSUME NEW f, NEW g, NEW S, IsFiniteSet(S), NEW a \in Int, NEW b \in Int,
         \A s \in S : f[s] \in Int /\ g[s] \in Int /\ a * f[s] <= b * g[s]
  PROVE  a * SumFunctionOnSet(f, S) <= b * SumFunctionOnSet(g, S)
<1> DEFINE F(T) == SumFunctionOnSet(f, T)
           G(T) == SumFunctionOnSet(g, T)
           X == {T \in SUBSET S : a * F(T) <= b * G(T)}
<1> HIDE DEF F, G
<1>1. ASSUME NEW T \in SUBSET S, IsFiniteSet(T), \A U \in SUBSET T : U # T => U \in X
      PROVE  T \in X
  <2>1. CASE T = {}
    BY <2>1, SumOfNone DEF F, G
  <2>2. CASE T # {}
    <3>1. PICK x \in T : TRUE
      BY <2>2
    <3>2. a * F(T \ {x}) <= b * G(T \ {x})
      BY <1>1, <3>1
    <3>3. IsFiniteSet(T \ {x})
      BY <1>1, FS_Subset
    <3>4. F(T) = f[x] + F(T \ {x}) /\ G(T) = g[x] + G(T \ {x})
      BY <1>1, SumWithout DEF F, G
    <3>5. F(T \ {x}) \in Int /\ G(T \ {x}) \in Int /\ f[x] \in Int /\ g[x] \in Int
      BY <3>3, SumWithout DEF F, G
    <3>6. a * (f[x] + F(T \ {x})) <= b * (g[x] + G(T \ {x}))
      BY <3>2, <3>5, SMT
    <3> QED
      BY <3>4, <3>6
  <2> QED
    BY <2>1, <2>2
<1> HIDE DEF X
<1>2. S \in X
  BY <1>1, SubsetInduction
<1> QED
  BY <1>2 DEF X, F, G

\* The same functions have the same sum.
LEMMA SumOfSame ==
  ASSUME NEW f, NEW g, NEW S, IsFiniteSet(S), \A s \in S : f[s] \in Int /\ g[s] = f[s]
  PROVE  SumFunctionOnSet(g, S) = SumFunctionOnSet(f, S)
<1>1. /\ 1 * SumFunctionOnSet(f, S) <= 1 * SumFunctionOnSet(g, S)
      /\ 1 * SumFunctionOnSet(g, S) <= 1 * SumFunctionOnSet(f, S)
  <2>1. \A s \in S : f[s] \in Int /\ g[s] \in Int /\ 1 * f[s] <= 1 * g[s] /\ 1 * g[s] <= 1 * f[s]
    OBVIOUS
  <2> QED
    BY <2>1, SumCompared
<1>2. SumFunctionOnSet(f, S) \in Int /\ SumFunctionOnSet(g, S) \in Int
  BY SumWithout
<1> QED
  BY <1>1, <1>2

\* Naturals add up to a natural, and to 0 only if they all are 0.
LEMMA SumOfNaturals ==
  ASSUME NEW f, NEW S, IsFiniteSet(S), \A s \in S : f[s] \in Nat
  PROVE  /\ SumFunctionOnSet(f, S) \in Nat
         /\ SumFunctionOnSet(f, S) = 0 <=> \A s \in S : f[s] = 0
<1> DEFINE Sm(T) == SumFunctionOnSet(f, T)
<1> HIDE DEF Sm
<1>1. ASSUME NEW T \in SUBSET S PROVE Sm(T) \in Nat
  <2>1. IsFiniteSet(T) /\ \A s \in T : f[s] \in Int /\ 0 * f[s] <= 1 * f[s]
    BY FS_Subset
  <2>2. 0 * Sm(T) <= 1 * Sm(T)
    BY <2>1, SumCompared DEF Sm
  <2>3. Sm(T) \in Int
    BY <2>1, SumWithout DEF Sm
  <2> QED
    BY <2>2, <2>3
<1>2. ASSUME \A s \in S : f[s] = 0 PROVE Sm(S) = 0
  <2>1. \A s \in S : f[s] \in Int /\ 1 * f[s] <= 0 * f[s]
    BY <1>2
  <2>2. 1 * Sm(S) <= 0 * Sm(S)
    BY <2>1, SumCompared DEF Sm
  <2> QED
    BY <1>1, <2>2
<1>3. ASSUME NEW s \in S PROVE f[s] <= Sm(S)
  <2>1. Sm(S) = f[s] + Sm(S \ {s})
    BY SumWithout DEF Sm
  <2> QED
    BY <1>1, <2>1
<1> QED
  BY <1>1, <1>2, <1>3 DEF Sm

\* One number that changes changes the sum by as much.
LEMMA SumOfChanged ==
  ASSUME NEW f, NEW g, NEW S, IsFiniteSet(S), \A s \in S : f[s] \in Int,
         NEW x \in S, g[x] \in Int, \A s \in S \ {x} : g[s] = f[s]
  PROVE  SumFunctionOnSet(g, S) = SumFunctionOnSet(f, S) + (g[x] - f[x])
<1>1. IsFiniteSet(S \ {x})
  BY FS_Subset
<1>2. SumFunctionOnSet(g, S \ {x}) = SumFunctionOnSet(f, S \ {x})
  BY <1>1, SumOfSame
<1>3. SumFunctionOnSet(f, S) = f[x] + SumFunctionOnSet(f, S \ {x})
  BY SumWithout
<1>4. \A s \in S : g[s] \in Int
  OBVIOUS
<1>5. SumFunctionOnSet(g, S) = g[x] + SumFunctionOnSet(g, S \ {x})
  BY <1>4, SumWithout
<1>6. SumFunctionOnSet(f, S \ {x}) \in Int
  BY <1>1, SumWithout
<1> QED
  BY <1>2, <1>3, <1>5, <1>6

\* The sum of one number, as often as there are elements.
LEMMA SumOfEqual ==
  ASSUME NEW f, NEW S, IsFiniteSet(S), NEW c \in Int, \A s \in S : f[s] = c
  PROVE  SumFunctionOnSet(f, S) = c * Cardinality(S)
<1> DEFINE Sm(T) == SumFunctionOnSet(f, T)
           X == {T \in SUBSET S : Sm(T) = c * Cardinality(T)}
<1> HIDE DEF Sm
<1>1. ASSUME NEW T \in SUBSET S, IsFiniteSet(T), \A U \in SUBSET T : U # T => U \in X
      PROVE  T \in X
  <2>1. CASE T = {}
    BY <2>1, SumOfNone, FS_EmptySet DEF Sm
  <2>2. CASE T # {}
    <3>1. PICK x \in T : TRUE
      BY <2>2
    <3>2. Sm(T \ {x}) = c * Cardinality(T \ {x})
      BY <1>1, <3>1
    <3>3. Cardinality(T \ {x}) = Cardinality(T) - 1 /\ Cardinality(T) \in Nat
      BY <1>1, <3>1, FS_RemoveElement, FS_CardinalityType
    <3>4. Sm(T) = f[x] + Sm(T \ {x})
      BY <1>1, SumWithout DEF Sm
    <3>5. \A k \in Nat : c + (c * (k - 1)) = c * k
      OBVIOUS
    <3> QED
      BY <3>1, <3>2, <3>3, <3>4, <3>5
  <2> QED
    BY <2>1, <2>2
<1> HIDE DEF X
<1>2. S \in X
  BY <1>1, SubsetInduction
<1> QED
  BY <1>2 DEF X, Sm

\* One more number at the end.
IsAppended(g, f, n) ==
    g[n + 1] \in Int /\ \A i \in 1..n : f[i] \in Int /\ g[i] = f[i]

LEMMA SumOfAppended ==
  ASSUME NEW n \in Nat, NEW f, NEW g, IsAppended(g, f, n)
  PROVE  /\ SumFunctionOnSet(f, 1..n) \in Int
         /\ SumFunctionOnSet(g, 1..(n + 1)) = SumFunctionOnSet(f, 1..n) + g[n + 1]
<1> USE DEF IsAppended
<1>1. IsFiniteSet(1..n) /\ IsFiniteSet(1..(n + 1))
  BY FS_Interval
<1>2. (1..(n + 1)) \ {n + 1} = 1..n /\ n + 1 \in 1..(n + 1)
  OBVIOUS
<1>3. SumFunctionOnSet(g, 1..(n + 1)) = g[n + 1] + SumFunctionOnSet(g, 1..n)
  <2>1. \A i \in 1..(n + 1) : g[i] \in Int
    OBVIOUS
  <2>2. \A x \in 1..(n + 1) : SumFunctionOnSet(g, 1..(n + 1))
                               = g[x] + SumFunctionOnSet(g, (1..(n + 1)) \ {x})
    BY <1>1, <2>1, SumWithout, SMTT(30)
  <2> QED
    BY <1>2, <2>2
<1>4. SumFunctionOnSet(g, 1..n) = SumFunctionOnSet(f, 1..n)
  BY <1>1, SumOfSame
<1>5. SumFunctionOnSet(f, 1..n) \in Int
  BY <1>1, SumWithout
<1> QED
  BY <1>3, <1>4, <1>5
=============================================================================

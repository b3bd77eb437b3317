---------------------------- MODULE IntSequences ----------------------------
(***************************************************************************)
(* The combinatorial objects of the tensor library (dynare++/tl/cc):        *)
(* integer sequences, permutations, symmetries, equivalences (partitions of *)
(* the indices) and the binomial coefficients.                              *)
(*                                                                         *)
(* An IntSequence, a Permutation (its permap) and a Symmetry are sequences  *)
(* of integers; their elements count from 0 as in the code, their positions *)
(* from 1.  An Equivalence is the sequence of its classes, a class the      *)
(* increasing sequence of its elements (OrdSequence).                       *)
(***************************************************************************)
EXTENDS Loops, TLC

(* PascalTriangle::noverk, for 0 <= k <= n: the table is read at the        *)
(* smaller of k and n - k, and rows and columns are added when needed.      *)
noverk(n, k) ==
  LET kk == IF n - k < k THEN n - k ELSE k
      row[j \in 0..kk] == IF j = 0 THEN 1 ELSE (row[j - 1] * (n - j + 1)) \div j
  IN  row[kk]
-----------------------------------------------------------------------------
(* IntSequence                                                              *)

Sub(s, from, to) == SubSeq(s, from + 1, to)   \* IntSequence(s, i1, i2)

unfold(s, sy) == Flat([i \in DOMAIN sy |-> [j \in 1..sy[i] |-> s[i]]])

getSymmetry(s) ==
  Fold(LAMBDA r, i : IF i = 1 THEN <<1>>
                     ELSE IF s[i] # s[i - 1] THEN Append(r, 1)
                     ELSE [r EXCEPT ![Len(r)] = @ + 1],
       <<>>, [i \in DOMAIN s |-> i])

insertAt(s, i, pos) == Sub(s, 0, pos) \o <<i>> \o Sub(s, pos, Len(s))

(* insert: before the first element that is not less.                       *)
insert(s, i) ==
  insertAt(s, i, Cardinality({j \in DOMAIN s : \A k \in 1..j : s[k] < i}))

sort(s) == SortSeq(s, LAMBDA a, b : a < b)

isSorted(s) == \A i \in 2..Len(s) : s[i - 1] <= s[i]

lessEq(s, t) == \A i \in DOMAIN s : s[i] <= t[i]

less(s, t) == \A i \in DOMAIN s : s[i] < t[i]

isPositive(s) == \A i \in DOMAIN s : s[i] >= 0

addTo(s, f, t) == [i \in DOMAIN s |-> s[i] + f * t[i]]

(* operator<: lexicographic.                                                *)
lexLess(s, t) ==
  \E i \in 1..Len(t) : /\ Len(s) >= i - 1
                       /\ \A j \in 1..(i - 1) : s[j] = t[j]
                       /\ Len(s) = i - 1 \/ s[i] < t[i]

lexLessEq(s, t) == s = t \/ lexLess(s, t)

(* monotone: every element at least the one before it.                      *)
monotone(s) ==
  LET m[i \in DOMAIN s] ==
        IF i > 1 /\ m[i - 1] > s[i] THEN m[i - 1] ELSE s[i]
  IN  [i \in DOMAIN s |-> m[i]]

(* The parts of v of the lengths of sy.                                     *)
Block(v, sy, i) ==
  LET start == Total(SubSeq(sy, 1, i - 1)) IN Sub(v, start, start + sy[i])

pmonotone(v, sy) == Flat([i \in DOMAIN sy |-> monotone(Block(v, sy, i))])

getPrefixLength(s) ==
  CHOOSE i \in DOMAIN s : /\ \A j \in 1..i : s[j] = s[1]
                          /\ i = Len(s) \/ s[i + 1] # s[1]

(* noverseq: the sequence is accumulated in place, one binomial a step.     *)
noverseq(s) ==
  IF Len(s) < 2 THEN 1
  ELSE Product([i \in 1..(Len(s) - 1) |->
                  noverk(Total(SubSeq(s, 1, i + 1)), Total(SubSeq(s, 1, i)))])
-----------------------------------------------------------------------------
(* Permutation                                                              *)

Identity(n) == UpTo(n)

apply(per, src) == [i \in DOMAIN per |-> src[per[i] + 1]]

inverse(per) ==
  [i \in DOMAIN per |-> (CHOOSE j \in DOMAIN per : per[j] = i - 1) - 1]

Composed(p1, p2) == apply(p1, p2)   \* Permutation(p1, p2)

tailIdentity(per) ==
  Cardinality({i \in DOMAIN per : \A j \in i..Len(per) : per[j] = j - 1})

(* computeSortingMap: where each element of s stands in the sorted          *)
(* sequence, the first free place of its value.                             *)
computeSortingMap(s) ==
  [i \in DOMAIN s |->
     Cardinality({j \in DOMAIN s : s[j] < s[i] \/ (s[j] = s[i] /\ j < i)})]

(* PermutationSet: the order n + 1 inserts n at every place of each         *)
(* permutation of order n.                                                  *)
RECURSIVE PermutationSet(_)
PermutationSet(n) ==
  IF n = 1 THEN <<<<0>>>>
  ELSE LET sp == PermutationSet(n - 1)
       IN  Flat([i \in DOMAIN sp |->
                   [j \in 1..n |-> insertAt(sp[i], n - 1, j - 1)]])

getPreserving(s) ==
  SelectSeq(PermutationSet(Len(s)), LAMBDA p : apply(p, s) = s)
-----------------------------------------------------------------------------
(* Symmetry                                                                 *)

dimen(sy) == Total(sy)

findClass(sy, i) ==
  (CHOOSE j \in DOMAIN sy :
     /\ Total(SubSeq(sy, 1, j)) > i \/ j = Len(sy)
     /\ \A k \in 1..(j - 1) : Total(SubSeq(sy, 1, k)) <= i) - 1

isFull(sy) == Cardinality({i \in DOMAIN sy : sy[i] # 0}) <= 1

(* Symmetry(sy, cl): how many indices of the class fall in each variable.   *)
OfClass(sy, cl) ==
  [i \in DOMAIN sy |->
     Cardinality({k \in DOMAIN cl : findClass(sy, cl[k]) = i - 1})]

(* symiterator::operator++; the iterator of the tail works on the same      *)
(* memory.                                                                  *)
RECURSIVE NextSymmetry(_, _)
NextSymmetry(dim, run) ==
  IF run[1] = dim THEN [run EXCEPT ![1] = @ + 1]
  ELSE IF Len(run) = 2 THEN <<run[1] + 1, run[2] - 1>>
  ELSE LET r == <<run[1]>> \o NextSymmetry(dim - run[1], Tail(run))
       IN  IF r[2] = dim - r[1] + 1
             THEN [i \in DOMAIN r |->
                     IF i = 1 THEN r[1] + 1 ELSE IF i = 2 THEN 0
                     ELSE IF i = Len(r) THEN dim - (r[1] + 1) ELSE r[i]]
             ELSE r

FirstSymmetry(dim, len) == [i \in 1..len |-> IF i = len THEN dim ELSE 0]

(* SymmetrySet: from begin() to end(), bounded by the count of them.        *)
SymmetrySet(dim, len) ==
  LET run[k \in 0..noverk(dim + len - 1, dim)] ==
        IF k = 0 THEN <<FirstSymmetry(dim, len)>>
        ELSE LET s == run[k - 1]
                 n == NextSymmetry(dim, s[Len(s)])
             IN  IF n = [i \in 1..len |-> IF i = 1 THEN dim + 1 ELSE 0] THEN s
                 ELSE Append(s, n)
  IN  run[noverk(dim + len - 1, dim)]
-----------------------------------------------------------------------------
(* Equivalence                                                              *)

Elements(cl) == {cl[k] : k \in DOMAIN cl}

(* OrdSequence::operator<: by average, then by the first element, larger    *)
(* first.                                                                   *)
classLess(a, b) ==
  \/ Total(a) * Len(b) < Total(b) * Len(a)
  \/ Total(a) * Len(b) = Total(b) * Len(a) /\ a[1] > b[1]

(* Equivalence::insert: before the first class that is not less.            *)
insertClass(e, cl) ==
  insertAt(e, cl, Cardinality({j \in DOMAIN e : \A k \in 1..j : classLess(e[k], cl)}))

(* Equivalence(e, i1, i2): two classes merged.                              *)
Merged(e, i1, i2) ==
  insertClass(Gather(UpTo(Len(e)), LAMBDA k : k \notin {i1, i2}, LAMBDA k : e[k + 1]),
              sort(e[i1 + 1] \o e[i2 + 1]))

Discrete(n) == [i \in 1..n |-> <<i - 1>>]

(* addParents: every merger of two classes that is not there yet; none of   *)
(* an equivalence of two classes or one.                                    *)
addParents(acc, e) ==
  IF Len(e) <= 2 THEN acc
  ELSE Fold(LAMBDA a, p :
              LET ns == Merged(e, p[1], p[2])
              IN  IF \E k \in DOMAIN a.equis : a.equis[k] = ns THEN a
                  ELSE [equis |-> Append(a.equis, ns), added |-> Append(a.added, ns)],
            acc,
            Flat([i \in 1..Len(e) |->
                    [j \in 1..(Len(e) - i) |-> <<i - 1, i + j - 1>>]]))

(* EquivalenceSet: breadth first from the discrete one; the indiscrete one  *)
(* is put last.                                                             *)
RECURSIVE Grow(_)
Grow(acc) ==
  IF acc.added = <<>> THEN acc.equis
  ELSE LET a == addParents(acc, acc.added[1])
       IN  Grow([a EXCEPT !.added = Tail(@)])

EquivalenceSet(n) ==
  Grow(addParents([equis |-> <<Discrete(n)>>, added |-> <<>>], Discrete(n)))
    \o (IF n > 1 THEN <<<<UpTo(n)>>>> ELSE <<>>)

(* EquivalenceBundle and PermutationBundle: generated once.                 *)
CONSTANT MaxDim   \* the largest dimension TLStatic::init was asked for

getEquiv == [n \in 1..MaxDim |-> EquivalenceSet(n)]

getPerm == [n \in 1..MaxDim |-> PermutationSet(n)]

(* Equivalence::trace, plain and permuted.                                  *)
trace(e) == Flat(e)

tracePer(e, per) == Flat(apply(per, e))

(* InducedSymmetries of the classes, in the order of the permutation.       *)
InducedSymmetries(e, per, sy) ==
  [i \in DOMAIN e |-> OfClass(sy, e[per[i] + 1])]
============================================================================

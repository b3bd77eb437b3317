------------------------------- MODULE Loops -------------------------------
(* Loops over sequences and ranges, shared by the modules that translate    *)
(* algorithms.  The bound variable of the CHOOSE makes TLC compute the      *)
(* value so far before the body uses it.                                    *)
EXTENDS Integers, Sequences, FiniteSets

(* The value after op was applied to the elements of seq in order; the      *)
(* sequence is cut in halves to keep the recursion shallow.                 *)
Fold(op(_, _), base, seq) ==
  LET RECURSIVE part(_, _, _)
      part(b, lo, hi) ==
        IF lo > hi THEN b
        ELSE IF lo = hi THEN op(b, seq[lo])
        ELSE LET mid == (lo + hi) \div 2
             IN  CHOOSE v \in {part(p, mid + 1, hi) : p \in {part(b, lo, mid)}} : TRUE
  IN  part(base, 1, Len(seq))

(* 0, 1, ..., n - 1.                                                        *)
UpTo(n) == [k \in 1..n |-> k - 1]

(* The same for sums, products and concatenations.                          *)
Total(s) ==
  LET RECURSIVE part(_, _)
      part(lo, hi) == IF lo > hi THEN 0 ELSE IF lo = hi THEN s[lo]
                      ELSE LET mid == (lo + hi) \div 2 IN part(lo, mid) + part(mid + 1, hi)
  IN  part(1, Len(s))

Product(s) ==
  LET RECURSIVE part(_, _)
      part(lo, hi) == IF lo > hi THEN 1 ELSE IF lo = hi THEN s[lo]
                      ELSE LET mid == (lo + hi) \div 2 IN part(lo, mid) * part(mid + 1, hi)
  IN  part(1, Len(s))

Flat(ss) ==
  LET RECURSIVE part(_, _)
      part(lo, hi) == IF lo > hi THEN <<>> ELSE IF lo = hi THEN ss[lo]
                      ELSE LET mid == (lo + hi) \div 2 IN part(lo, mid) \o part(mid + 1, hi)
  IN  part(1, Len(ss))

(* The elements e(x) for the x of seq that satisfy test, in order.          *)
Gather(seq, test(_), e(_)) ==
  Fold(LAMBDA a, x : IF test(x) THEN Append(a, e(x)) ELSE a, <<>>, seq)

Power(b, n) == Product([k \in 1..n |-> b])

(* The elements of a set, in some order, and a sum over them.               *)
RECURSIVE Listed(_)
Listed(S) == IF S = {} THEN <<>> ELSE LET x == CHOOSE x \in S : TRUE IN <<x>> \o Listed(S \ {x})

SumOfAll(S, f(_)) == Fold(LAMBDA a, x : a + f(x), 0, Listed(S))
============================================================================

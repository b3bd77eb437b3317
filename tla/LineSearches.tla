--------------------------- MODULE LineSearches ---------------------------
(***************************************************************************)
(* The one-dimensional searches along a Newton direction: mnbrak and golden *)
(* of mex/sources/bytecode/SparseMatrix.cc, and GoldenSectionSearch of      *)
(* dynare++/src/nlsolve.cc.                                                 *)
(*                                                                         *)
(* The function is a step function, given by its values on the cells        *)
(* between increasing cuts; Fault is the value of a point that cannot be    *)
(* evaluated.                                                               *)
(***************************************************************************)
EXTENDS Loops

Fault == 100

Abs(x) == IF x < 0 THEN 0 - x ELSE x

Cell(cuts, x) == Cardinality({k \in DOMAIN cuts : cuts[k] <= x}) + 1
-----------------------------------------------------------------------------
(* mnbrak and golden.  The lambdas are in hundredths, rounded down.         *)
GLIMIT == 100

Huge == 1000000

(* compute_complete(lambda): half the sum of squares, or FALSE.             *)
Crit(f, x) == f.at[Cell(f.cuts, x)]

Gold(x) == (1618 * x) \div 1000

NotFound == [ok |-> FALSE]

(* The minimum of the parabola through the three points.                    *)
Parabola(f, b) ==
  LET fa == Crit(f, b.a)
      fb == Crit(f, b.b)
      fc == Crit(f, b.c)
      r == (b.b - b.a) * (fb - fc)
      q == (b.b - b.c) * (fb - fa)
      num == (b.b - b.c) * q - (b.b - b.a) * r
  IN  IF q = r THEN (IF num > 0 THEN 0 - Huge ELSE Huge)
      ELSE b.b - (num \div (2 * (q - r)))

Between(l, x, r) == (l < x /\ x < r) \/ (r < x /\ x < l)

Shift(b, u) == [a |-> b.b, b |-> b.c, c |-> u]

(* The loop of mnbrak.                                                      *)
RECURSIVE Bracket(_, _)
Bracket(f, b) ==
  LET u == Parabola(f, b)
      ulim == b.b + GLIMIT * (b.c - b.b)
      far(x) == x.c + Gold(x.c - x.b)
      go(x, v) == IF Crit(f, v) = Fault THEN NotFound ELSE Bracket(f, Shift(x, v))
      next == [b EXCEPT !.b = b.c, !.c = u]
  IN  IF Crit(f, b.b) <= Crit(f, b.c) THEN [ok |-> TRUE, b |-> b]
      ELSE IF Between(b.b, u, b.c)
      THEN IF Crit(f, u) = Fault THEN NotFound
           ELSE IF Crit(f, u) < Crit(f, b.c) THEN [ok |-> TRUE, b |-> [b EXCEPT !.a = b.b, !.b = u]]
           ELSE IF Crit(f, u) > Crit(f, b.b) THEN [ok |-> TRUE, b |-> [b EXCEPT !.c = u]]
           ELSE go(b, far(b))
      ELSE IF Between(b.c, u, ulim)
      THEN IF Crit(f, u) = Fault THEN NotFound
           ELSE IF Crit(f, u) < Crit(f, b.c) THEN go(next, far(next))
           ELSE go(b, u)
      ELSE IF (u >= ulim /\ ulim >= b.c) \/ (u <= ulim /\ ulim <= b.c) THEN go(b, ulim)
      ELSE go(b, far(b))

(* Downhill from the better of the first two points.                        *)
mnbrak(f, ax, bx) ==
  LET swap == Crit(f, bx) > Crit(f, ax)
      a == IF swap THEN bx ELSE ax
      b == IF swap THEN ax ELSE bx
      c == b + Gold(b - a)
  IN  IF Fault \in {Crit(f, a), Crit(f, b), Crit(f, c)} THEN NotFound
      ELSE Bracket(f, [a |-> a, b |-> b, c |-> c])

Part(x, y) == (38197 * (y - x)) \div 100000

RECURSIVE Section(_, _, _)
Section(f, s, left) ==
  LET f1 == Crit(f, s.x1)
      f2 == Crit(f, s.x2)
      right == [x0 |-> s.x1, x1 |-> s.x2, x2 |-> s.x2 + Part(s.x2, s.x3), x3 |-> s.x3]
      leftward == [x0 |-> s.x0, x1 |-> s.x1 + Part(s.x1, s.x0), x2 |-> s.x1, x3 |-> s.x2]
  IN  IF f1 = Fault \/ f2 = Fault THEN NotFound
      ELSE IF /\ 10 * Abs(s.x3 - s.x0) > Abs(s.x1) + Abs(s.x2)
              /\ f1 > 0 /\ f2 > 0 /\ left > 0 /\ s.x1 # s.x2
      THEN Section(f, IF f2 < f1 THEN right ELSE leftward, left - 1)
      ELSE [ok |-> TRUE, xmin |-> IF f1 < f2 THEN s.x1 ELSE s.x2]

golden(f, b) ==
  Section(f, IF Abs(b.c - b.b) > Abs(b.b - b.a)
             THEN [x0 |-> b.a, x1 |-> b.b, x2 |-> b.b + Part(b.b, b.c), x3 |-> b.c]
             ELSE [x0 |-> b.a, x1 |-> b.b - Part(b.a, b.b), x2 |-> b.b, x3 |-> b.c],
          100)
-----------------------------------------------------------------------------
(* GoldenSectionSearch.  A point p + q g, where g is (3 - sqrt 5)/2 and     *)
(* g^2 = 3 g - 1, is <<p, q>>.                                              *)
Millionths(x) == x[1] * 1000000 + x[2] * 381966

Less(x, y) == Millionths(x) < Millionths(y)

Plus(x, y) == <<x[1] + y[1], x[2] + y[2]>>

Minus(x, y) == <<x[1] - y[1], x[2] - y[2]>>

TimesG(x) == <<0 - x[2], x[1] + 3 * x[2]>>

(* Within a cell the function grows, so that no two values are equal.       *)
Eval(f, x) ==
  LET v == f.at[Cell(f.cuts, Millionths(x))]
  IN  IF v = Fault THEN Fault * 10000000 ELSE v * 10000000 + Millionths(x)

IsFinite(v) == v < Fault * 10000000

RECURSIVE search_for_finite(_, _, _, _)
search_for_finite(f, x1, x2, cnt) ==
  LET b == Plus(x1, TimesG(Minus(x2, x1)))
  IN  IF IsFinite(Eval(f, x2)) /\ IsFinite(Eval(f, b)) THEN [found |-> TRUE, x2 |-> x2, b |-> b]
      ELSE IF cnt = 4 THEN [found |-> FALSE, x2 |-> b, b |-> b]
      ELSE search_for_finite(f, x1, b, cnt + 1)

(* One pass of init_bracket, with the point symmetric to b about x2.        *)
M_Tried(f, x1, x2, b) ==
  LET bsym == Minus(Plus(x2, x2), b)
      f1 == Eval(f, x1)
      f2 == Eval(f, x2)
      fb == Eval(f, b)
      fbsym == Eval(f, bsym)
      ends(found, c, d) == [end |-> TRUE, found |-> found, b |-> c, x2 |-> d]
      again(c) == [end |-> FALSE, found |-> FALSE, b |-> c, x2 |-> b]
  IN  IF IsFinite(fbsym)
      THEN IF f1 > f2 /\ f2 < fbsym THEN ends(TRUE, x2, bsym)
           ELSE IF f1 > fb /\ fb < fbsym THEN ends(TRUE, b, bsym)
           ELSE IF f1 > fb /\ fb < f2 THEN ends(TRUE, b, x2)
           ELSE IF f2 > fbsym THEN ends(FALSE, bsym, x2)
           ELSE again(x1)
      ELSE IF f1 > fb /\ fb < f2 THEN ends(TRUE, b, x2)
      ELSE again(IF f1 > f2 THEN x2 ELSE x1)

Tried(f, x1, x2, b) ==
  LET bsym == Minus(Plus(x2, x2), b)
      f1 == Eval(f, x1)
      f2 == Eval(f, x2)
      fb == Eval(f, b)
      fbsym == Eval(f, bsym)
      ends(found, c, d) == [end |-> TRUE, found |-> found, b |-> c, x2 |-> d]
      again(c) == [end |-> FALSE, found |-> FALSE, b |-> c, x2 |-> b]
  IN  IF IsFinite(fbsym)
      THEN IF f1 > f2 /\ f2 < fbsym THEN ends(TRUE, x2, bsym)
           ELSE IF f1 > fb /\ fb < fbsym THEN ends(TRUE, b, bsym)
           ELSE IF f1 > fb /\ fb < f2 THEN ends(TRUE, b, x2)
           ELSE IF f1 > fbsym THEN ends(FALSE, bsym, x2)
           ELSE again(x1)
      ELSE IF f1 > fb /\ fb < f2 THEN ends(TRUE, b, x2)
      ELSE again(IF f1 > f2 THEN x2 ELSE x1)

RECURSIVE init_bracket(_, _, _, _)
init_bracket(f, x1, x2, cnt) ==
  LET s == search_for_finite(f, x1, x2, 0)
      after(t) == IF t.end \/ cnt = 4 THEN t ELSE init_bracket(f, x1, t.x2, cnt + 1)
  IN  IF ~s.found THEN [found |-> FALSE, b |-> x1, x2 |-> s.x2]
      ELSE after(Tried(f, x1, s.x2, s.b))

(* The bracket shrinks until the next point is closer than tol, here in     *)
(* millionths.                                                              *)
RECURSIVE Narrow(_, _, _, _, _)
Narrow(f, tol, x1, x2, b) ==
  LET d == Minus(Plus(x1, x2), Plus(b, b))
      dx == IF Millionths(d) < 0 THEN Minus(<<0, 0>>, d) ELSE d
      long == Less(Minus(x2, b), Minus(b, x1))
      x == IF long THEN Minus(b, dx) ELSE Plus(b, dx)
      f1 == Eval(f, x1)
      fb == Eval(f, b)
      fx == Eval(f, x)
      t == IF long THEN (IF f1 > fx /\ fx < fb THEN <<x1, b, x>> ELSE <<x, x2, b>>)
           ELSE IF f1 > fb /\ fb < fx THEN <<x1, x, b>> ELSE <<b, x2, x>>
      next(q) == IF Millionths(dx) > tol THEN Narrow(f, tol, q[1], q[2], q[3]) ELSE q[3]
  IN  IF ~IsFinite(fx) THEN x1 ELSE next(t)

search(f, tol, x1, x2) ==
  LET within(s) == IF s.found THEN Narrow(f, tol, x1, s.x2, s.b) ELSE s.b
  IN  within(init_bracket(f, x1, x2, 0))

(* NLSolver::solve.  fs[k] are the residuals between the Cauchy point (0)   *)
(* and the Newton point (1) of iteration k; getMax skips undefined numbers, *)
(* so that it is below tol also when all residuals are undefined.  The      *)
(* first guess is neither: solve throws or returns before the loop.         *)
Converged(f, x) == f.at[Cell(f.cuts, Millionths(x))] \in {1, Fault}

RECURSIVE solve(_, _, _)
solve(fs, tol, iter) ==
  IF iter = Len(fs) THEN [iter |-> iter, converged |-> FALSE, thrown |-> FALSE]
  ELSE LET f == fs[iter + 1]
           step(lambda) ==
             IF Converged(f, lambda)
             THEN [iter |-> iter + 1, converged |-> TRUE, thrown |-> FALSE, x |-> lambda]
             ELSE solve(fs, tol, iter + 1)
       IN  IF ~IsFinite(Eval(f, <<0, 0>>)) THEN [iter |-> iter, converged |-> FALSE, thrown |-> TRUE]
           ELSE step(search(f, tol, <<0, 0>>, <<1, 0>>))
============================================================================

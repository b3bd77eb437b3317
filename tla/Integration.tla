---------------------------- MODULE Integration ----------------------------
(***************************************************************************)
(* Numerical integration (dynare++/integ/cc): product, Smolyak and          *)
(* quasi Monte Carlo quadratures, whose points are shared out to workers.   *)
(*                                                                         *)
(* A quadrature is [kind, d, l, uq, scheme]; uq, the one-dimensional rules  *)
(* of all levels, is [num_points, points, weights].  An iterator is [isum,  *)
(* jseq, sig, end].                                                         *)
(***************************************************************************)
EXTENDS IntSequences

(* OneDPrecalcQuadrature: the rules of all levels in one array.             *)
Offset(uq, level) == Total(SubSeq(uq.num_points, 1, level - 1))

Point(uq, level, i) == uq.points[Offset(uq, level) + i + 1]

Weight(uq, level, i) == uq.weights[Offset(uq, level) + i + 1]

(* ParameterSignal: which coordinates may have changed.                     *)
SignalAfter(d, l) == [i \in 1..d |-> i - 1 >= l]

(* The last index is raised; one that is at its limit is carried over to    *)
(* the index before it, i being the one that was raised last (0: none).     *)
RECURSIVE Carry(_, _, _)
Carry(jseq, i, limits) ==
  IF i = 0 \/ jseq[i] # limits[i] THEN [jseq |-> jseq, i |-> i]
  ELSE Carry([k \in DOMAIN jseq |-> IF k = i THEN 0 ELSE IF k = i - 1 THEN jseq[k] + 1 ELSE jseq[k]],
             i - 1, limits)

Raised(jseq, limits) == Carry([jseq EXCEPT ![Len(jseq)] = @ + 1], Len(jseq), limits)

Signal(d, i) == SignalAfter(d, IF i > 0 THEN i - 1 ELSE 0)

Zeros(d) == [k \in 1..d |-> 0]
-----------------------------------------------------------------------------
(* SmolyakQuadrature: the summands k with l <= |k| <= l + d - 1.            *)
Levels(d, l) ==
  Gather(SymmetrySet(l - 1, d + 1), LAMBDA si : si[d + 1] <= d - 1,
         LAMBDA si : [i \in 1..d |-> si[i] + 1])

LevPoints(uq, lev) == [i \in DOMAIN lev |-> uq.num_points[lev[i]]]

CumEvals(q, isum) ==
  Total([k \in 1..isum |-> Product(LevPoints(q.uq, Levels(q.d, q.l)[k]))])

numSummands(q) == Len(Levels(q.d, q.l))

(* setPointAndWeight of smolpit.                                            *)
SmolyakWeight(q, it) ==
  LET lev == Levels(q.d, q.l)[it.isum + 1]
      m1exp == q.l + q.d - Total(lev) - 1
  IN  (IF m1exp % 2 = 0 THEN 1 ELSE -1) * noverk(q.d - 1, Total(lev) - q.l)
        * Product([i \in 1..q.d |-> Weight(q.uq, lev[i], it.jseq[i])])

(* The first summand of a worker; worker tn begins at the end.              *)
RECURSIVE FirstSummand(_, _, _)
FirstSummand(q, isum, evals) ==
  IF isum + 1 < numSummands(q) /\ CumEvals(q, isum + 2) < evals THEN FirstSummand(q, isum + 1, evals)
  ELSE isum

M_SmolyakBegin(q, ti, tn) == FirstSummand(q, 0, (CumEvals(q, numSummands(q)) * ti) \div tn)

SmolyakBegin(q, ti, tn) ==
  IF ti = tn THEN numSummands(q)
  ELSE FirstSummand(q, 0, (CumEvals(q, numSummands(q)) * ti) \div tn)
-----------------------------------------------------------------------------
(* Quasi Monte Carlo: the digits of n in a prime base, the lowest first, in *)
(* an array of fixed length; j is the index of the highest.                 *)
Primes == <<2, 3, 5, 7>>

Highest(n, base) == CHOOSE j \in 0..n : Power(base, j) <= n /\ n < Power(base, j + 1)

RadicalInverse(n, base, maxn) ==
  [base |-> base, j |-> Highest(n, base),
   coeff |-> [k \in 1..(Highest(maxn, base) + 2) |-> (n \div Power(base, k - 1)) % base]]

RECURSIVE CarryDigit(_, _, _)
CarryDigit(coeff, i, base) ==
  IF coeff[i] # base THEN [coeff |-> coeff, i |-> i]
  ELSE CarryDigit([coeff EXCEPT ![i] = 0, ![i + 1] = @ + 1], i + 1, base)

Increase(r) ==
  LET c == CarryDigit([r.coeff EXCEPT ![1] = @ + 1], 1, r.base)
  IN  [r EXCEPT !.coeff = c.coeff, !.j = IF c.i - 1 > @ THEN c.i - 1 ELSE @]

Permute(scheme, i, base, c) ==
  CASE scheme = "identity" -> c
    [] scheme = "warnock" -> (c + i) % base
    [] scheme = "reverse" -> (base - c) % base

(* The inverse, as the digits after the point.                              *)
Inverted(r, scheme) == [k \in 1..(r.j + 1) |-> Permute(scheme, k - 1, r.base, r.coeff[k])]

(* A HaltonSequence at num.                                                 *)
Halton(q, num) == [k \in 1..q.d |-> RadicalInverse(num, Primes[k], q.l)]
-----------------------------------------------------------------------------
(* Where worker ti of tn begins, and where the one before it ends.          *)
Begin(q, ti, tn) ==
  LET new == [isum |-> 0, jseq |-> Zeros(q.d), sig |-> SignalAfter(q.d, 0), end |-> FALSE]
      j0 == (ti * q.uq.num_points[q.l]) \div tn
      num == (ti * q.l) \div tn + 1
  IN  CASE q.kind = "smolyak" -> [new EXCEPT !.isum = SmolyakBegin(q, ti, tn)]
        [] q.kind = "product" ->
             IF j0 < q.uq.num_points[q.l] THEN [new EXCEPT !.jseq[1] = j0] ELSE [new EXCEPT !.end = TRUE]
        [] q.kind = "qmc" -> [new EXCEPT !.isum = num, !.jseq = Halton(q, num)]

(* operator++ of the iterators.                                             *)
Advance(q, it) ==
  LET limits == IF q.kind = "smolyak" THEN LevPoints(q.uq, Levels(q.d, q.l)[it.isum + 1])
                ELSE [k \in 1..q.d |-> q.uq.num_points[q.l]]
      c == Raised(it.jseq, limits)
      moved == [it EXCEPT !.jseq = c.jseq, !.sig = Signal(q.d, c.i)]
  IN  CASE q.kind = "smolyak" -> [moved EXCEPT !.isum = IF c.i = 0 THEN @ + 1 ELSE @]
        [] q.kind = "product" -> [moved EXCEPT !.end = (c.i = 0)]
        [] q.kind = "qmc" -> [it EXCEPT !.isum = @ + 1, !.jseq = [k \in 1..q.d |-> Increase(@[k])]]

Same(q, a, b) ==
  IF q.kind = "qmc" THEN a.isum = b.isum ELSE a.isum = b.isum /\ a.jseq = b.jseq /\ a.end = b.end

LevelOf(q, it, i) == IF q.kind = "smolyak" THEN Levels(q.d, q.l)[it.isum + 1][i] ELSE q.l

(* What is evaluated at an iterator.                                        *)
Evaluation(q, it) ==
  [sig |-> it.sig,
   p |-> IF q.kind = "qmc" THEN [i \in 1..q.d |-> Inverted(it.jseq[i], q.scheme)]
         ELSE [i \in 1..q.d |-> Point(q.uq, LevelOf(q, it, i), it.jseq[i])],
   w |-> CASE q.kind = "qmc" -> 1
           [] q.kind = "smolyak" -> SmolyakWeight(q, it)
           [] q.kind = "product" -> Product([i \in 1..q.d |-> Weight(q.uq, q.l, it.jseq[i])])]

RECURSIVE RunFrom(_, _, _)
RunFrom(q, run, end) ==
  IF Same(q, run, end) THEN <<>> ELSE <<Evaluation(q, run)>> \o RunFrom(q, Advance(q, run), end)

(* The points an IntegrationWorker evaluates; the workers' sums are added   *)
(* under the mutex of their thread group.                                   *)
Worker(q, ti, tn) == RunFrom(q, Begin(q, ti, tn), Begin(q, ti + 1, tn))

integrate(q, tn) == [ti \in 1..tn |-> Worker(q, ti - 1, tn)]
-----------------------------------------------------------------------------
numEvals(q, level) ==
  IF q.kind = "product" THEN Power(q.uq.num_points[level], q.d)
  ELSE LET at == [q EXCEPT !.l = level] IN CumEvals(at, numSummands(at))

(* The loop of designLevelForEvals: a level is tried while the last one     *)
(* fits and there are levels left.                                          *)
GoesOn(q, lev, evals, max_evals) ==
  IF q.kind = "smolyak" THEN lev < Len(q.uq.num_points) /\ evals <= max_evals
  ELSE lev < Len(q.uq.num_points) - 2 /\ evals < max_evals

RECURSIVE Design(_, _, _, _)
Design(q, lev, evals, max_evals) ==
  LET next == numEvals(q, lev + 1)
  IN  IF GoesOn(q, lev + 1, next, max_evals) THEN Design(q, lev + 1, next, max_evals)
      ELSE [lev |-> lev, evals |-> evals]

designLevelForEvals(q, max_evals) == Design(q, 1, 1, max_evals)
============================================================================

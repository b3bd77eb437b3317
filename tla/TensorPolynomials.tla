------------------------- MODULE TensorPolynomials -------------------------
(***************************************************************************)
(* Polynomials whose coefficients are fully symmetric tensors               *)
(* (t_polynomial) and the moments of the normal distribution                *)
(* (normal_moments).  A polynomial is                                       *)
(*   nr, nv   rows and variables                                            *)
(*   maxdim   the largest dimension inserted through TensorPolynomial       *)
(*   t        dimension -> tensor, the container                            *)
(* folded when f is TRUE.                                                   *)
(***************************************************************************)
EXTENDS TensorProducts

Coords(f, nv, d) == IF f THEN FFSCoords(nv, d) ELSE UFSCoords(nv, d)

Contract(f, t, nv, d, x) == IF f THEN FContract(t, nv, d, x) ELSE UContract(t, nv, d, x)

EmptyPol(f, nr, nv) == [f |-> f, nr |-> nr, nv |-> nv, maxdim |-> 0, t |-> <<>>]

(* TensorPolynomial::insert.                                                *)
Inserted(p, d, ten) ==
  [p EXCEPT !.maxdim = IF d > @ THEN d ELSE @,
            !.t = [k \in DOMAIN p.t \cup {d} |-> IF k = d THEN ten ELSE p.t[k]]]

(* PowerProvider::getNext, d times: the Kronecker power, folded by adding.  *)
PowerOf(f, v, d) ==
  LET u == URSingle([i \in 1..d |-> v]) IN IF f THEN FoldRows(u, Len(v), d) ELSE u

(* multaVec: out plus the tensor times the vector.                          *)
multaVec(out, t, v) ==
  AddCol(out, 1, MatMult(t, [nr |-> Len(v), col |-> <<v>>]).col[1])

Constant(p) == IF 0 \in DOMAIN p.t THEN p.t[0].col[1] ELSE [i \in 1..p.nr |-> 0]

evalTrad(p, v) ==
  Fold(LAMBDA o, d : IF d \in DOMAIN p.t THEN multaVec(o, p.t[d], PowerOf(p.f, v, d)) ELSE o,
       Constant(p), [d \in 1..p.maxdim |-> d])

(* evalHorner: from the highest dimension, contracting once a step.         *)
evalHorner(p, v) ==
  LET last[d \in 1..p.maxdim] ==
        IF d = p.maxdim THEN p.t[d]
        ELSE LET c == Contract(p.f, last[d + 1], p.nv, d + 1, v)
             IN  IF d \in DOMAIN p.t THEN Plus(c, 1, p.t[d]) ELSE c
  IN  IF p.maxdim = 0 THEN Constant(p) ELSE multaVec(Constant(p), last[1], v)

(* derivative: every tensor up to maxdim is multiplied.                     *)
M_derivative(p, k) ==
  [p EXCEPT !.t = [d \in DOMAIN p.t |-> IF d >= 1 THEN Times(p.t[d], d + k + 1) ELSE p.t[d]]]

derivative(p, k) ==
  [p EXCEPT !.t = [d \in DOMAIN p.t |->
                     IF d >= 1 /\ d <= p.maxdim
                       THEN Times(p.t[d], IF d > k THEN d - k ELSE 0) ELSE p.t[d]]]

(* TensorPolynomial(tp, k): the container is copied, and derivative runs    *)
(* with the maxdim of the new object, which is zero.                        *)
DerivativeOf(p, k) == derivative([p EXCEPT !.maxdim = 0], k)

(* evalPartially: an s-dimensional tensor.                                  *)
evalPartially(p, s, v) ==
  LET contracted(d) ==
        LET c[j \in 0..(d - s)] ==
              IF j = 0 THEN p.t[d] ELSE Contract(p.f, c[j - 1], p.nv, d - j + 1, v)
        IN  c[d - s]
      zero == Zeros(p.nr, Len(Coords(p.f, p.nv, s)))
  IN  Fold(LAMBDA r, d : IF d \in DOMAIN p.t THEN Plus(r, 1, contracted(d)) ELSE r,
           IF s \in DOMAIN p.t THEN Plus(zero, 1, p.t[s]) ELSE zero,
           [i \in 1..(p.maxdim - s) |-> s + i])

(* TensorPolynomial(tp, xval): the first variables are fixed at xval.  The  *)
(* slice of the fixed and free variables is contracted with a power of xval *)
(* (contractAndAdd) and multiplied by the binomial coefficient.             *)
Slice(p, d, ss, coor) ==
  IF p.f THEN FSlice(p.t[d], p.nv, ss, coor)
  ELSE Unfold2(FSlice(FoldFS(p.t[d], p.nv, d), p.nv, ss, coor), SliceDimens(ss, coor))

GSMaxOffset(f, td) == IF f THEN calcFoldMaxOffset(td) ELSE Product(td.nvmax)

contractAndAdd(f, slice, td, i, out, x) ==
  LET part(test(_)) == Dimens([j \in DOMAIN td.sym |-> IF test(j) THEN td.sym[j] ELSE 0], td.nvs)
      kp == <<setUnit(GSMaxOffset(f, part(LAMBDA j : j < i))),
              setMat([nr |-> Len(x), col |-> <<x>>]),
              setUnit(GSMaxOffset(f, part(LAMBDA j : j > i)))>>
  IN  Plus(out, 1, KronMult(slice, kp))

Fixed(p, xval) ==
  LET nv == p.nv - Len(xval)
      ss == <<Len(xval), nv>>
      coorOf(i, j) == [k \in 1..(i + j) |-> IF k <= i THEN 0 ELSE 1]
      ensured(q, j) == IF j \in DOMAIN q.t THEN q
                       ELSE Inserted(q, j, Zeros(p.nr, Len(Coords(p.f, nv, j))))
      term(q, i, j) ==
        IF i + j \notin DOMAIN p.t THEN q
        ELSE LET r == ensured(q, j)
                 sl == Times(Slice(p, i + j, ss, coorOf(i, j)), noverk(i + j, j))
             IN  [r EXCEPT !.t[j] = contractAndAdd(p.f, sl, Dimens(<<i, j>>, ss), 1, @,
                                                   PowerOf(p.f, xval, i))]
      fixed == Fold(LAMBDA q, ij : term(q, ij[1], ij[2]), EmptyPol(p.f, p.nr, nv),
                    Flat([i \in 1..p.maxdim |->
                            [j \in 1..(p.maxdim - i + 1) |-> <<i, j - 1>>]]))
  IN  Fold(LAMBDA q, j :
             IF j \notin DOMAIN p.t THEN q
             ELSE LET r == ensured(q, j)
                  IN  [r EXCEPT !.t[j] = Plus(@, 1, Slice(p, j, ss, coorOf(0, j)))],
           fixed, UpTo(p.maxdim + 1))

(* UTensorPolynomial(FTensorPolynomial) and back.                           *)
UnfoldPol(p) ==
  [p EXCEPT !.f = FALSE, !.t = [d \in DOMAIN p.t |-> UnfoldFS(p.t[d], p.nv, d)]]
FoldPol(p) ==
  [p EXCEPT !.f = TRUE, !.t = [d \in DOMAIN p.t |-> FoldFS(p.t[d], p.nv, d)]]

-----------------------------------------------------------------------------
(* UNormalMoments::generateMoments: the moment of dimension d is the sum    *)
(* over the pairings of the d indices of the permuted Kronecker power of    *)
(* the variance.                                                            *)
selectEquiv(e, d) == 2 * Len(e) = d /\ \A k \in DOMAIN e : Len(e[k]) = 2

Moment(v, nv, d) ==
  LET kronv == URSingle([i \in 1..(d \div 2) |-> v])
      c == UFSCoords(nv, d)
      pairings == SelectSeq(getEquiv[d], LAMBDA e : selectEquiv(e, d))
      place(e, k) == UOffset(apply(inverse(trace(e)), c[k]), [i \in 1..d |-> nv]) + 1
  IN  IF d = 2 THEN v
      ELSE Fold(LAMBDA m, e :
                  Fold(LAMBDA q, k : [q EXCEPT ![place(e, k)] = @ + kronv[k]],
                       m, [k \in DOMAIN c |-> k]),
                [k \in DOMAIN c |-> 0], pairings)
============================================================================

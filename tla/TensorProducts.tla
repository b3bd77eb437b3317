--------------------------- MODULE TensorProducts ---------------------------
(***************************************************************************)
(* Kronecker products (kron_prod), tensors with permuted symmetry           *)
(* (ps_tensor), containers of tensors (t_container), stacks of containers   *)
(* (stack_container, fine_container) and the pyramid product                *)
(* (pyramid_prod2): the ways the library computes a term of the Faa Di      *)
(* Bruno formula,                                                           *)
(*    out = sum over the partitions c of the indices of out into Len(t)     *)
(*          classes of  t * (kron of the derivatives of the classes of c)   *)
(* A factor of a Kronecker product is [r, c, unit, m].  A container is a    *)
(* function from symmetries to tensors, [sym -> matrix].                    *)
(***************************************************************************)
EXTENDS Tensors

setMat(m) == [r |-> m.nr, c |-> Len(m.col), unit |-> FALSE, m |-> m]

setUnit(n) == [r |-> n, c |-> n, unit |-> TRUE, m |-> Zeros(0, 0)]

RowsOf(kp, i, j) == Product([k \in 1..(j - i + 1) |-> kp[i + k - 1].r])
ColsOf(kp, i, j) == Product([k \in 1..(j - i + 1) |-> kp[i + k - 1].c])

(* KronProdAI::mult: in times (a kron I_n).                                 *)
multAI(in, a, n) ==
  [nr |-> in.nr,
   col |-> [k \in 1..(Len(a.col) * n) |->
              LET i == (k - 1) \div n + 1
                  p == (k - 1) % n
              IN  Fold(LAMBDA s, j : AddCol(s, a.col[i][j], in.col[(j - 1) * n + p + 1]),
                       [q \in 1..in.nr |-> 0], [j \in 1..a.nr |-> j])]]

(* KronProdIAI::mult: in times (I_m kron a kron I_n), block by block.       *)
multIAI(in, m, a, n) ==
  [nr |-> in.nr,
   col |-> Flat([i \in 1..m |->
                   multAI(Cols(in, (i - 1) * a.nr * n, a.nr * n), a, n).col])]

(* KronProdIA::mult.                                                        *)
multIA(in, m, a) == multIAI(in, m, a, 1)

(* KronProdAll::mult: one factor at a time, from the left; nothing is done  *)
(* for a unit factor.                                                       *)
KronMult(in, kp) ==
  IF \A i \in DOMAIN kp : kp[i].unit THEN in
  ELSE IF isZero(in) \/ \E i \in DOMAIN kp : ~kp[i].unit /\ isZero(kp[i].m)
    THEN Zeros(in.nr, ColsOf(kp, 1, Len(kp)))
  ELSE LET n == Len(kp)
           factor(x, i) ==
             IF kp[i].unit THEN x
             ELSE IF n = 1 THEN MatMult(x, kp[i].m)
             ELSE IF i = 1 THEN multAI(x, kp[i].m, RowsOf(kp, 2, n))
             ELSE IF i = n THEN multIA(x, ColsOf(kp, 1, n - 1), kp[i].m)
             ELSE multIAI(x, ColsOf(kp, 1, i - 1), kp[i].m, RowsOf(kp, i + 1, n))
       IN  Fold(factor, in, [i \in 1..n |-> i])

(* KronProdAll::multRows: one row of the product.                           *)
multRows(kp, irows) ==
  LET row(i) == IF kp[i].unit THEN [k \in 1..kp[i].c |-> IF k = irows[i] + 1 THEN 1 ELSE 0]
                ELSE [k \in 1..kp[i].c |-> kp[i].m.col[k][irows[i] + 1]]
  IN  URSingle([i \in DOMAIN kp |-> row(i)])

(* KronProdAllOptim::optimizeOrder: a bubble sort by rows / columns, the    *)
(* permutation beside it.  Every factor has a column.                       *)
Swapped(s, j) == [s EXCEPT ![j] = s[j + 1], ![j + 1] = s[j]]

optimizeOrder(kp) ==
  LET pass(o) == Fold(LAMBDA q, j :
                        IF q.kp[j].r * q.kp[j + 1].c < q.kp[j + 1].r * q.kp[j].c
                          THEN [kp |-> Swapped(q.kp, j), per |-> Swapped(q.per, j)]
                          ELSE q,
                      o, [j \in 1..(Len(kp) - 1) |-> j])
  IN  Fold(LAMBDA o, i : pass(o), [kp |-> kp, per |-> Identity(Len(kp))], kp)

NoOrder(kp) == [kp |-> kp, per |-> Identity(Len(kp))]
-----------------------------------------------------------------------------
(* Permuted symmetry                                                        *)

(* PerTensorDimens: the dimensions td with the indices permuted by per.     *)
PerDimens(td, per) == [td |-> td, per |-> per, nvmax |-> apply(per, td.nvmax)]

(* UPSTensor(td, e, p, a, kp).                                              *)
UPS(td, e, p, a, o) ==
  [ptd |-> PerDimens(td, tracePer(e, Composed(p, o.per))), t |-> KronMult(a, o.kp)]

(* UPSTensor::addTo(UGSTensor): whole blocks of columns, as long as the     *)
(* tail of the permutation is the identity.                                 *)
UPSAddTo(ups, out) ==
  LET ptd == ups.ptd
      n == Len(ptd.per)
      off == tailIdentity(ptd.per)
      cols == Product(Sub(ptd.nvmax, n - off, n))
      head == UCoords(Sub(ptd.td.nvmax, 0, n - off))
      from(b) == UOffset(apply(ptd.per, head[b] \o [i \in 1..off |-> 0]), ptd.nvmax)
  IN  [out EXCEPT !.col =
         [k \in DOMAIN out.col |->
            LET b == (k - 1) \div cols + 1
            IN  AddCol(out.col[k], 1, ups.t.col[from(b) + ((k - 1) % cols) + 1])]]

(* PerTensorDimens2: a product of folded tensors, one per class.            *)
PerDimens2(td, e, per) ==
  LET syms == InducedSymmetries(e, per, td.sym)
  IN  [td |-> td, per |-> tracePer(e, per), syms |-> syms,
       ds |-> [i \in DOMAIN syms |-> calcFoldMaxOffset(Dimens(syms[i], td.nvs))]]

(* PerTensorDimens2::calcOffset.                                            *)
PerOffset(ptd, c) ==
  LET lens == [i \in DOMAIN ptd.syms |-> dimen(ptd.syms[i])]
  IN  Fold(LAMBDA r, i : r * ptd.ds[i]
                           + calcFoldOffset(Dimens(ptd.syms[i], ptd.td.nvs), Block(c, lens, i)),
           0, [i \in DOMAIN lens |-> i])

FPS(td, e, p, a, o) ==
  [ptd |-> PerDimens2(td, e, Composed(p, o.per)), t |-> KronMult(a, o.kp)]

(* FPSTensor(td, e, p, GSSparseTensor, kp): the rows of the product that    *)
(* meet an item.                                                            *)
FPSSparse(td, e, p, items, nr, sltd, kp) ==
  LET c == UCoords(sltd.nvmax)
      hits(k) == {x \in items : x.key = getFirstIndexOf(sltd, c[k])}
      val(i, k, j, row) == LET h == {x \in hits(k) : x.r = i - 1}
                           IN  IF h = {} THEN 0 ELSE (CHOOSE x \in h : TRUE).c * row[j]
      live == SelectSeq([k \in DOMAIN c |-> k], LAMBDA k : hits(k) # {})
      rows == [q \in DOMAIN live |-> multRows(kp, c[live[q]])]
  IN  [ptd |-> PerDimens2(td, e, p),
       t |-> [nr |-> nr,
              col |-> [j \in 1..ColsOf(kp, 1, Len(kp)) |->
                         [i \in 1..nr |->
                            Total([q \in DOMAIN live |-> val(i, live[q], j, rows[q])])]]]]

FPSAddTo(fps, out) ==
  LET c == FGSCoords(fps.ptd.td)
  IN  [out EXCEPT !.col =
         [k \in DOMAIN c |->
            AddCol(out.col[k], 1, fps.t.col[PerOffset(fps.ptd, apply(fps.ptd.per, c[k])) + 1])]]

(* UPSTensor(FSSparseTensor, ss, coor): fillFromSparseOne looks every       *)
(* column up, fillFromSparseTwo spreads every item.                         *)
SliceOf(ss, coor) ==
  PerDimens(SliceDimens(ss, sort(coor)), computeSortingMap(coor))

fillFromSparseOne(items, nr, ss, coor) ==
  LET ptd == SliceOf(ss, coor)
      c == UCoords(ptd.nvmax)
      hits(k, i) == {x \in items : x.key = sort(addTo(c[k], 1, Lower(ss, coor))) /\ x.r = i - 1}
  IN  [nr |-> nr,
       col |-> [k \in DOMAIN c |->
                  [i \in 1..nr |-> IF hits(k, i) = {} THEN 0
                                   ELSE (CHOOSE x \in hits(k, i) : TRUE).c]]]

fillFromSparseTwo(items, nr, ss, coor) ==
  LET ptd == SliceOf(ss, coor)
      pp == getPreserving(coor)
      unsort == computeSortingMap(coor)
      places(x) == {UOffset(apply(pp[i], apply(unsort, x.key)), ptd.nvmax) : i \in DOMAIN pp}
      slice == SparseSlice(items, ss, sort(coor))
      hits(k, i) == {x \in slice : k - 1 \in places(x) /\ x.r = i - 1}
  IN  [nr |-> nr,
       col |-> [k \in 1..Product(ptd.nvmax) |->
                  [i \in 1..nr |-> IF hits(k, i) = {} THEN 0
                                   ELSE (CHOOSE x \in hits(k, i) : TRUE).c]]]
-----------------------------------------------------------------------------
(* Containers                                                               *)

(* The equivalences of n indices with l classes.                            *)
Equivalences(n, l) == SelectSeq(getEquiv[n], LAMBDA e : Len(e) = l)

fetchTensors(cont, sym, e) == [i \in DOMAIN e |-> cont[OfClass(sym, e[i])]]

(* UGSContainer::multAndAdd and FGSContainer::multAndAdd.                   *)
UMultAndAdd(cont, t, l, out, td) ==
  Fold(LAMBDA o, e :
         LET ts == fetchTensors(cont, td.sym, e)
             kp == optimizeOrder([i \in 1..l |-> setMat(ts[i])])
         IN  UPSAddTo(UPS(td, e, Identity(l), t, kp), o),
       out, Equivalences(Len(td.nvmax), l))

FMultAndAdd(cont, t, l, out, td) ==
  Fold(LAMBDA o, e :
         LET ts == fetchTensors(cont, td.sym, e)
             kp == optimizeOrder([i \in 1..l |-> setMat(ts[i])])
         IN  FPSAddTo(FPS(td, e, Identity(l), t, kp), o),
       out, Equivalences(Len(td.nvmax), l))
============================================================================

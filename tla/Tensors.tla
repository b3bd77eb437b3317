------------------------------ MODULE Tensors ------------------------------
(***************************************************************************)
(* The tensors of dynare++/tl/cc.  A tensor is a matrix whose columns (or   *)
(* rows, for the FR and UR tensors) are numbered by multi-indices: all of   *)
(* them in an unfolded tensor, the ones that are sorted within each block   *)
(* of symmetric indices in a folded one.  A matrix is [nr, col], its number *)
(* of rows and the sequence of its columns; dims is a TensorDimens          *)
(*   nvs    the number of variables of each block                           *)
(*   sym    the symmetry: the number of indices of each block               *)
(*   nvmax  the number of variables of each index                           *)
(* A sparse tensor is a set of items [key, r, c] (a multimap in the code).  *)
(***************************************************************************)
EXTENDS IntSequences

Zeros(nr, nc) == [nr |-> nr, col |-> [j \in 1..nc |-> [i \in 1..nr |-> 0]]]

AddCol(a, f, b) == [i \in DOMAIN a |-> a[i] + f * b[i]]

Plus(m, f, n) == [m EXCEPT !.col = [j \in DOMAIN m.col |-> AddCol(m.col[j], f, n.col[j])]]

Times(m, f) == [m EXCEPT !.col = [j \in DOMAIN m.col |->
                                    [i \in DOMAIN m.col[j] |-> f * m.col[j][i]]]]

(* ConstTwoDMatrix(m, first_col, num) and (first_row, num, m).              *)
Cols(m, first, num) == [m EXCEPT !.col = Sub(m.col, first, first + num)]

Rows(m, first, num) ==
  [m EXCEPT !.nr = num,
            !.col = [j \in DOMAIN m.col |-> Sub(m.col[j], first, first + num)]]

MatMult(a, b) ==
  [nr |-> a.nr,
   col |-> [j \in DOMAIN b.col |->
              [i \in 1..a.nr |-> Total([k \in 1..b.nr |-> a.col[k][i] * b.col[j][k]])]]]

isZero(m) == \A j \in DOMAIN m.col : \A i \in DOMAIN m.col[j] : m.col[j][i] = 0
-----------------------------------------------------------------------------
(* Indices: UTensor and FTensor                                             *)

UIncrement(v, nvmx) ==
  LET inc[i \in 0..Len(v)] ==   \* the last i indices, the carry in the first
        IF i = 0 THEN <<>>
        ELSE LET j == Len(v) - i + 1
                 t == inc[i - 1]
                 carry == i = 1 \/ t[1] = nvmx[j + 1]
                 up == IF carry THEN v[j] + 1 ELSE v[j]
             IN  <<up>> \o (IF i > 1 /\ carry THEN [t EXCEPT ![1] = 0] ELSE t)
  IN  inc[Len(v)]

M_UDecrement(v, nvmx) ==
  LET dec[i \in 0..Len(v)] ==
        IF i = 0 THEN <<>>
        ELSE LET j == Len(v) - i + 1
                 t == dec[i - 1]
                 borrow == i = 1 \/ t[1] = -1
             IN  <<IF borrow THEN v[j] - 1 ELSE v[j]>>
                   \o (IF i > 1 /\ borrow THEN [t EXCEPT ![1] = nvmx[j + 1]] ELSE t)
  IN  dec[Len(v)]

UDecrement(v, nvmx) ==
  LET dec[i \in 0..Len(v)] ==
        IF i = 0 THEN <<>>
        ELSE LET j == Len(v) - i + 1
                 t == dec[i - 1]
                 borrow == i = 1 \/ t[1] = -1
             IN  <<IF borrow THEN v[j] - 1 ELSE v[j]>>
                   \o (IF i > 1 /\ borrow THEN [t EXCEPT ![1] = nvmx[j + 1] - 1] ELSE t)
  IN  dec[Len(v)]

UOffset(v, nvmx) ==
  LET off[i \in 0..Len(v)] == IF i = 0 THEN 0 ELSE off[i - 1] * nvmx[i] + v[i]
  IN  off[Len(v)]

FDecrement(v, nv) ==
  LET i == CHOOSE k \in DOMAIN v :
             /\ \A j \in k..Len(v) : v[j] = v[Len(v)]
             /\ k = 1 \/ v[k - 1] # v[k]
  IN  [j \in DOMAIN v |-> IF j < i THEN v[j] ELSE IF j = i THEN v[j] - 1 ELSE nv - 1]

(* getOffsetRecurse: the indices that start below v[1] come first; then the *)
(* common prefix is cut and the rest is shifted.                            *)
RECURSIVE FOffset(_, _)
FOffset(v, nv) ==
  IF v = <<>> THEN 0
  ELSE LET k == Len(v)
           m == v[1]
           rest == Sub(v, getPrefixLength(v), k)
       IN  noverk(nv + k - 1, k) - noverk(nv - m + k - 1, k)
             + FOffset([i \in DOMAIN rest |-> rest[i] - m], nv - m)

(* The coordinates from begin() by the increment.                           *)
Walk(n, d, inc(_)) ==
  IF n = 0 THEN <<>>
  ELSE Fold(LAMBDA w, k : Append(w, inc(w[Len(w)])), <<[i \in 1..d |-> 0]>>, UpTo(n - 1))

FMaxOffset(nv, d) ==
  IF nv = 0 THEN (IF d = 0 THEN 1 ELSE 0) ELSE noverk(nv + d - 1, d)

UMaxOffset(nv, d) == Power(nv, d)

FFSIncrement(v, nv) == monotone(UIncrement(v, [i \in DOMAIN v |-> nv]))

FFSCoords(nv, d) == Walk(FMaxOffset(nv, d), d, LAMBDA v : FFSIncrement(v, nv))

UCoords(nvmx) == Walk(Product(nvmx), Len(nvmx), LAMBDA v : UIncrement(v, nvmx))

UFSCoords(nv, d) == UCoords([i \in 1..d |-> nv])
-----------------------------------------------------------------------------
(* TensorDimens, FGSTensor and UGSTensor                                    *)

Dimens(sym, nvs) == [nvs |-> nvs, sym |-> sym, nvmax |-> unfold(nvs, sym)]

(* The slicing constructor: coor is sorted.                                 *)
SliceDimens(ss, coor) ==
  [nvs |-> ss,
   sym |-> [i \in DOMAIN ss |-> Cardinality({k \in DOMAIN coor : coor[k] = i - 1})],
   nvmax |-> [k \in DOMAIN coor |-> ss[coor[k] + 1]]]

calcFoldMaxOffset(td) ==
  Product([i \in DOMAIN td.nvs |->
             IF td.sym[i] = 0 THEN 1 ELSE IF td.nvs[i] = 0 THEN 0
             ELSE noverk(td.nvs[i] + td.sym[i] - 1, td.sym[i])])

(* calcFoldOffset: block by block, the last block the fastest.              *)
calcFoldOffset(td, v) ==
  LET off[i \in 0..Len(td.sym)] ==
        IF i = 0 THEN 0 ELSE IF td.sym[i] = 0 THEN off[i - 1]
        ELSE off[i - 1] * FMaxOffset(td.nvs[i], td.sym[i])
               + FOffset(Block(v, td.sym, i), td.nvs[i])
  IN  off[Len(td.sym)]

FGSIncrement(td, v) == pmonotone(UIncrement(v, td.nvmax), td.sym)

FGSCoords(td) == Walk(calcFoldMaxOffset(td), Len(td.nvmax), LAMBDA v : FGSIncrement(td, v))

(* UGSTensor::getFirstIndexOf.                                              *)
getFirstIndexOf(td, v) == Flat([i \in DOMAIN td.sym |-> sort(Block(v, td.sym, i))])

(* FGSTensor(UGSTensor) and UGSTensor(FGSTensor) with unfoldData.           *)
Fold2(t, td) ==
  LET c == FGSCoords(td)
  IN  [nr |-> t.nr, col |-> [k \in DOMAIN c |-> t.col[UOffset(c[k], td.nvmax) + 1]]]

Unfold2(t, td) ==
  LET c == UCoords(td.nvmax)
  IN  [nr |-> t.nr,
       col |-> [k \in DOMAIN c |->
                  t.col[calcFoldOffset(td, getFirstIndexOf(td, c[k])) + 1]]]

(* The sums of the sizes before each stack.                                 *)
Offsets(ss) == [i \in DOMAIN ss |-> Total(SubSeq(ss, 1, i - 1))]

(* The bounds of the slice at the stacks coor.                              *)
Lower(ss, coor) == [k \in DOMAIN coor |-> Offsets(ss)[coor[k] + 1]]
Upper(ss, coor) == [k \in DOMAIN coor |-> Offsets(ss)[coor[k] + 1] + ss[coor[k] + 1] - 1]

(* getUnfoldIndexFillFactor, before the division by the number of columns:  *)
(* every key counts once for each order of its indices.                     *)
UnfoldFill(items) ==
  LET keys == Listed({x.key : x \in items})
  IN  Total([k \in DOMAIN keys |-> noverseq(getSymmetry(keys[k]))])

(* GSSparseTensor(t, ss, coor, td): the items between lb and ub.            *)
SparseSlice(items, ss, coor) ==
  LET lb == Lower(ss, coor)
      ub == Upper(ss, coor)
  IN  {[x EXCEPT !.key = addTo(@, -1, lb)] :
         x \in {y \in items : /\ lexLessEq(lb, y.key) /\ lexLessEq(y.key, ub)
                              /\ lessEq(lb, y.key) /\ lessEq(y.key, ub)}}

(* FGSTensor(GSSparseTensor).                                               *)
Densified(items, nr, td) ==
  LET at(k, i) == {x \in items : calcFoldOffset(td, x.key) = k - 1 /\ x.r = i - 1}
  IN  [nr |-> nr,
       col |-> [k \in 1..calcFoldMaxOffset(td) |->
                  [i \in 1..nr |-> IF at(k, i) = {} THEN 0
                                   ELSE (CHOOSE x \in at(k, i) : TRUE).c]]]

(* FGSTensor(FFSTensor, ss, coor, td): the columns from lb to ub, walked by *)
(* the increment.                                                           *)
FSlice(t, nv, ss, coor) ==
  LET td == SliceDimens(ss, coor)
      lb == Lower(ss, coor)
      ub == Upper(ss, coor)
      c == FFSCoords(nv, Len(coor))
      at(k) == {i \in DOMAIN c : /\ FOffset(lb, nv) < i /\ i <= FOffset(ub, nv) + 1
                                 /\ lessEq(lb, c[i]) /\ lessEq(c[i], ub)
                                 /\ calcFoldOffset(td, addTo(c[i], -1, lb)) = k - 1}
  IN  [nr |-> t.nr,
       col |-> [k \in 1..calcFoldMaxOffset(td) |->
                  IF at(k) = {} THEN [i \in 1..t.nr |-> 0]
                  ELSE t.col[CHOOSE i \in at(k) : TRUE]]]
-----------------------------------------------------------------------------
(* FFSTensor and UFSTensor: all indices symmetric                           *)

UnfoldFS(t, nv, d) ==
  LET c == UFSCoords(nv, d)
  IN  [nr |-> t.nr, col |-> [k \in DOMAIN c |-> t.col[FOffset(sort(c[k]), nv) + 1]]]

FoldFS(t, nv, d) ==
  LET c == FFSCoords(nv, d)
  IN  [nr |-> t.nr, col |-> [k \in DOMAIN c |-> t.col[UOffset(c[k], [i \in 1..d |-> nv]) + 1]]]

Scaled(f, c) == [i \in DOMAIN c |-> f * c[i]]

(* FFSTensor(t, x): one index contracted with the vector x.                 *)
FContract(t, nv, d, x) ==
  LET c == FFSCoords(nv, d - 1)
  IN  [nr |-> t.nr,
       col |-> [k \in DOMAIN c |-> [r \in 1..t.nr |->
                  Total([i \in 1..nv |-> x[i] * t.col[FOffset(insert(c[k], i - 1), nv) + 1][r]])]]]

(* UFSTensor(t, x): the blocks of nv columns.                               *)
UContract(t, nv, d, x) ==
  [nr |-> t.nr,
   col |-> [k \in 1..UMaxOffset(nv, d - 1) |-> [r \in 1..t.nr |->
              Total([i \in 1..nv |-> x[i] * t.col[(k - 1) * nv + i][r]])]]]

(* addSubTensor: a generally symmetric tensor is added where its variables  *)
(* stand among all of them.                                                 *)
Shift(td) == unfold(Offsets(td.nvs), td.sym)

FAddSub(out, nv, t, td) ==
  LET c == FGSCoords(td)
  IN  Fold(LAMBDA o, k :
             LET tar == FOffset(sort(addTo(c[k], 1, Shift(td))), nv) + 1
             IN  [o EXCEPT !.col[tar] = AddCol(@, 1, t.col[k])],
           out, [k \in DOMAIN c |-> k])

UAddSub(out, nv, t, td) ==
  LET c == UFSCoords(nv, Len(td.nvmax))
      from(k) == addTo(sort(c[k]), -1, Shift(td))
  IN  [out EXCEPT !.col =
         [k \in DOMAIN c |->
            IF isPositive(from(k)) /\ less(from(k), td.nvmax)
              THEN AddCol(out.col[k], 1, t.col[UOffset(from(k), td.nvmax) + 1])
              ELSE out.col[k]]]

(* FSSparseTensor::multColumnAndAdd: v plus the product with the single     *)
(* column of a row tensor.                                                  *)
multColumnAndAdd(items, coords, a, v) ==
  Fold(LAMBDA s, k :
         IF a[k] = 0 THEN s
         ELSE [i \in DOMAIN s |->
                 LET hit == {x \in items : x.key = sort(coords[k]) /\ x.r = i - 1}
                 IN  IF hit = {} THEN s[i] ELSE s[i] + a[k] * (CHOOSE x \in hit : TRUE).c],
       v, [k \in DOMAIN coords |-> k])
-----------------------------------------------------------------------------
(* FRTensor and URTensor: multi-indices along the rows                      *)

(* FRSingleTensor(URSingleTensor): the rows of one multi-index are added.   *)
FoldRows(a, nv, d) ==
  LET c == UFSCoords(nv, d)
  IN  [k \in 1..FMaxOffset(nv, d) |->
         Total(Gather([j \in DOMAIN c |-> j],
                      LAMBDA j : FOffset(sort(c[j]), nv) = k - 1, LAMBDA j : a[j]))]

kronMult(v1, v2) == Flat([i \in DOMAIN v1 |-> Scaled(v1[i], v2)])

(* URSingleTensor(cols): the Kronecker product, from the right.             *)
URSingle(cols) ==
  LET last[i \in DOMAIN cols] ==
        IF i = Len(cols) THEN cols[i] ELSE kronMult(cols[i], last[i + 1])
  IN  last[1]
============================================================================

-------------------------- MODULE StackContainers --------------------------
(***************************************************************************)
(* Stacks of containers (stack_container, fine_container, pyramid_prod2):   *)
(* the derivatives of z = (G, g, y, u) and of the like, and the product of  *)
(* a sparse or dense tensor f_z with them in each of the ways the library   *)
(* has.  A stack container is                                               *)
(*   kind   "X", "Z" or "G": XContainer, ZContainer, GContainer             *)
(*   old    the stack of the original container each stack refines          *)
(*   sizes  stack_sizes                                                     *)
(*   conts  the containers of the stacks that have one                      *)
(***************************************************************************)
EXTENDS TensorProducts

XContainer(g, ng) == [kind |-> "X", old |-> <<0>>, sizes |-> <<ng>>, conts |-> <<g>>]

ZContainer(gss, ngss, g, ng, ny, nu) ==
  [kind |-> "Z", old |-> UpTo(4), sizes |-> <<ngss, ng, ny, nu>>, conts |-> <<gss, g>>]

GContainer(gs, ngs, nu) ==
  [kind |-> "G", old |-> UpTo(4), sizes |-> <<ngs, nu, nu, 1>>, conts |-> <<gs>>]

(* getType of XContainer, ZContainer and GContainer; FineContainer asks the *)
(* original.                                                                *)
UnitAt(s, k) == s = [i \in 1..4 |-> IF i = k THEN 1 ELSE 0]

getType(sc, i, s) ==
  LET o == sc.old[i + 1]
      unit(k) == IF UnitAt(s, k) THEN "unit" ELSE "zero"
  IN  CASE sc.kind = "X" -> IF s[3] > 0 THEN "zero" ELSE "matrix"
      []   sc.kind = "Z" /\ o = 0 -> "matrix"
      []   sc.kind = "Z" /\ o = 1 -> IF s[3] > 0 THEN "zero" ELSE "matrix"
      []   sc.kind = "Z" /\ o = 2 -> unit(1)
      []   sc.kind = "Z" /\ o = 3 -> unit(2)
      []   sc.kind = "G" /\ o = 0 -> IF s[3] > 0 \/ UnitAt(s, 4) THEN "zero" ELSE "matrix"
      []   sc.kind = "G" /\ o = 1 -> unit(3)
      []   sc.kind = "G" /\ o = 2 -> "zero"
      []   sc.kind = "G" /\ o = 3 -> unit(4)

(* StackContainer::isZero.                                                  *)
StackIsZero(sc, i, s) ==
  \/ getType(sc, i, s) = "zero"
  \/ getType(sc, i, s) = "matrix" /\ s \notin DOMAIN sc.conts[i + 1]

(* SizeRefinement: stacks of containers longer than max are cut.            *)
RefinedSizes(n, max) ==
  LET nr == n \div max + (IF n % max # 0 THEN 1 ELSE 0)
      ss == IF nr > 0 THEN (2 * n + nr) \div (2 * nr) ELSE 0   \* round(n / nr)
  IN  [j \in 1..(nr - 1) |-> ss] \o <<n - (nr - 1) * ss>>

(* FineContainer(sc, max): the containers are cut into rows.                *)
RowsOfCont(c, first, num) == [s \in DOMAIN c |-> Rows(c[s], first, num)]

FineContainer(sc, max) ==
  LET nc == Len(sc.conts)
      ref == [i \in 1..nc |-> RefinedSizes(sc.sizes[i], max)]
  IN  [kind |-> sc.kind,
       old |-> Flat([i \in DOMAIN sc.sizes |->
                       IF i <= nc THEN [j \in DOMAIN ref[i] |-> sc.old[i]] ELSE <<sc.old[i]>>]),
       sizes |-> Flat([i \in DOMAIN sc.sizes |-> IF i <= nc THEN ref[i] ELSE <<sc.sizes[i]>>]),
       conts |-> Flat([i \in 1..nc |->
                         [j \in DOMAIN ref[i] |->
                            RowsOfCont(sc.conts[i], Total(SubSeq(ref[i], 1, j - 1)), ref[i][j])]])]

(* KronProdStack(sp, istack), for the symmetries syms of the product.       *)
KronProdStack(sc, syms, istack) ==
  [i \in DOMAIN syms |->
     IF getType(sc, istack[i], syms[i]) = "unit" THEN setUnit(sc.sizes[istack[i] + 1])
     ELSE setMat(sc.conts[istack[i] + 1][syms[i]])]

ProductIsZero(sc, syms, istack) ==
  \E i \in DOMAIN syms : StackIsZero(sc, istack[i], syms[i])
-----------------------------------------------------------------------------
(* FoldedStackContainer::multAndAddStacks and the unfolded one: the slice   *)
(* at the stacks coor, for every order of the stacks.                       *)
Unsorted(sc, coor) ==
  SelectSeq(UFSCoords(Len(sc.sizes), Len(coor)), LAMBDA ui : sort(ui) = coor)

M_sortPer(ui) == computeSortingMap(ui)

sortPer(ui) == inverse(computeSortingMap(ui))

OverStacks(sc, coor, td, out, add(_, _, _, _)) ==
  Fold(LAMBDA o, ui :
         Fold(LAMBDA q, e :
                LET p == sortPer(ui)
                    syms == InducedSymmetries(e, p, td.sym)
                IN  IF ProductIsZero(sc, syms, coor) THEN q
                    ELSE add(q, e, p, KronProdStack(sc, syms, coor)),
              o, Equivalences(Len(td.nvmax), Len(coor))),
       out, Unsorted(sc, coor))

Ordered(sym, kp) == IF isFull(sym) THEN optimizeOrder(kp) ELSE NoOrder(kp)

FStacks(sc, coor, ug, gsym, td, out) ==
  OverStacks(sc, coor, td, out, LAMBDA o, e, p, kp :
    FPSAddTo(FPS(td, e, p, ug, Ordered(gsym, kp)), o))

FStacksSparse(sc, coor, items, nr, td, out) ==
  OverStacks(sc, coor, td, out, LAMBDA o, e, p, kp :
    FPSAddTo(FPSSparse(td, e, p, items, nr, SliceDimens(sc.sizes, coor), kp), o))

UStacks(sc, coor, ug, gsym, td, out) ==
  OverStacks(sc, coor, td, out, LAMBDA o, e, p, kp :
    UPSAddTo(UPS(td, e, p, ug, Ordered(gsym, kp)), o))

(* multAndAdd(dim, c, out): the dense containers, one worker per symmetry.  *)
DenseWorkers(sc, dim, c) ==
  SelectSeq(SymmetrySet(dim, Len(sc.sizes)), LAMBDA s : s \in DOMAIN c)

DenseCoor(s) == unfold(Identity(Len(s)), s)

FDense(sc, dim, c, td, out) ==
  Fold(LAMBDA o, s : FStacks(sc, DenseCoor(s), Unfold2(c[s], Dimens(s, sc.sizes)), s, td, o),
       out, DenseWorkers(sc, dim, c))

UDense(sc, dim, c, td, out) ==
  Fold(LAMBDA o, s : UStacks(sc, DenseCoor(s), c[s], s, td, o), out, DenseWorkers(sc, dim, c))

(* The in-place rows r1 to r2 of out are replaced.                          *)
PutRows(out, r1, m) ==
  [out EXCEPT !.col = [k \in DOMAIN out.col |->
                         [i \in DOMAIN out.col[k] |->
                            IF i > r1 /\ i <= r1 + m.nr THEN m.col[k][i - r1]
                            ELSE out.col[k][i]]]]

FirstRow(items) == CHOOSE r \in {x.r : x \in items} : \A x \in items : x.r >= r
LastRow(items) == CHOOSE r \in {x.r : x \in items} : \A x \in items : x.r <= r

(* WorkerFoldMAASparse2 and WorkerUnfoldMAASparse2: a slice that is dense   *)
(* enough is made dense, and only its rows with an item are multiplied.     *)
OverSlices(sc, dim, out, work(_, _)) ==
  Fold(LAMBDA o, coor : work(o, coor), out, FFSCoords(Len(sc.sizes), dim))

NarrowStacks(sc, coor, items, nr, td, out, stacks(_, _, _)) ==
  LET slice == SparseSlice(items, sc.sizes, coor)
      sltd == SliceDimens(sc.sizes, coor)
      r1 == FirstRow(slice)
      num == LastRow(slice) - r1 + 1
  IN  IF slice = {} THEN out
      ELSE PutRows(out, r1,
                   stacks(Unfold2(Rows(Densified(slice, nr, sltd), r1, num), sltd),
                          sltd.sym, Rows(out, r1, num)))

FSparse2(sc, dim, items, nr, td, out) ==
  OverSlices(sc, dim, out, LAMBDA o, coor :
    NarrowStacks(sc, coor, items, nr, td, o,
                 LAMBDA ug, gsym, o1 : FStacks(sc, coor, ug, gsym, td, o1)))

USparse2(sc, dim, items, nr, td, out) ==
  OverSlices(sc, dim, out, LAMBDA o, coor :
    NarrowStacks(sc, coor, items, nr, td, o,
                 LAMBDA ug, gsym, o1 : UStacks(sc, coor, ug, gsym, td, o1)))

(* WorkerFoldMAASparse4: the slice stays sparse.                            *)
FSparse4(sc, dim, items, nr, td, out) ==
  OverSlices(sc, dim, out, LAMBDA o, coor :
    LET slice == SparseSlice(items, sc.sizes, coor)
    IN  IF slice = {} THEN o ELSE FStacksSparse(sc, coor, slice, nr, td, o))

(* WorkerFoldMAASparse1 and WorkerUnfoldMAASparse1: every order of the      *)
(* stacks has its slice; of the permutations only the one that the best     *)
(* order of the factors undoes is taken.                                    *)
Sparse1(sc, dim, items, nr, td, out, add(_, _, _, _)) ==
  Fold(LAMBDA o, coor :
         LET slice == fillFromSparseOne(items, nr, sc.sizes, coor)
         IN  Fold(LAMBDA q, pe :
                    LET per == pe[1]
                        e == pe[2]
                        syms == InducedSymmetries(e, Identity(dim), td.sym)
                        pc == apply(per, coor)
                        kp == optimizeOrder(KronProdStack(sc, syms, pc))
                    IN  IF ProductIsZero(sc, syms, pc) \/ apply(kp.per, per) # Identity(dim)
                          THEN q ELSE add(q, e, slice, kp),
                  o,
                  Flat([i \in DOMAIN getPerm[dim] |->
                          [j \in DOMAIN Equivalences(Len(td.nvmax), dim) |->
                             <<getPerm[dim][i], Equivalences(Len(td.nvmax), dim)[j]>>]])),
       out, UFSCoords(Len(sc.sizes), dim))

FSparse1(sc, dim, items, nr, td, out) ==
  Sparse1(sc, dim, items, nr, td, out, LAMBDA o, e, slice, kp :
    FPSAddTo(FPS(td, e, Identity(dim), slice, kp), o))

USparse1(sc, dim, items, nr, td, out) ==
  Sparse1(sc, dim, items, nr, td, out, LAMBDA o, e, slice, kp :
    UPSAddTo(UPS(td, e, Identity(dim), slice, kp), o))
-----------------------------------------------------------------------------
(* The pyramid product, multAndAddSparse3                                   *)

(* createPackedColumn: the matrix stacks on top, then one element for the   *)
(* unit stack; iu is its place in the whole column, or -1.                  *)
MatrixStacks(sc, s) ==
  Cardinality({i \in DOMAIN sc.sizes : \A j \in 1..i : getType(sc, j - 1, s) = "matrix"})

getUnitPos(sc, s) ==
  LET u == {i \in DOMAIN sc.sizes : getType(sc, i - 1, s) = "unit"}
  IN  IF dimen(s) # 1 \/ u = {} THEN 0 ELSE CHOOSE i \in u : \A j \in u : j <= i

createPackedColumn(sc, s, nvs, coor) ==
  LET top == Flat([i \in 1..MatrixStacks(sc, s) |->
                     sc.conts[i][s].col[calcFoldOffset(Dimens(s, nvs), coor) + 1]])
      up == getUnitPos(sc, s)
  IN  IF up = 0 THEN [col |-> top, iu |-> -1]
      ELSE [col |-> Append(top, 1), iu |-> Offsets(sc.sizes)[up] + coor[1]]

(* IrregTensorHeader::increment: the element of the unit stack stands after *)
(* a gap.                                                                   *)
IrregStep(h, i, v) == IF h[i].iu # -1 /\ v + 1 = Len(h[i].col) - 1 THEN h[i].iu ELSE v + 1

IrregEnd(h, i) == IF h[i].iu # -1 THEN h[i].iu + 1 ELSE Len(h[i].col)

IrregIncrement(h, v) ==
  LET inc[i \in 0..Len(v)] ==
        IF i = 0 THEN <<>>
        ELSE LET j == Len(v) - i + 1
                 t == inc[i - 1]
                 carry == i = 1 \/ t[1] = IrregEnd(h, j + 1)
             IN  <<IF carry THEN IrregStep(h, j, v[j]) ELSE v[j]>>
                   \o (IF i > 1 /\ carry THEN [t EXCEPT ![1] = 0] ELSE t)
  IN  inc[Len(v)]

(* IrregTensor and its addTo.                                               *)
IrregAddTo(sum, h, nv) ==
  LET data == URSingle([i \in DOMAIN h |-> h[i].col])
      c == Walk(Len(data), Len(h), LAMBDA v : IrregIncrement(h, v))
  IN  Fold(LAMBDA s, k : [s EXCEPT ![FOffset(sort(c[k]), nv) + 1] = @ + data[k]],
           sum, [k \in DOMAIN data |-> k])

FSparse3(sc, dim, items, nr, td, out) ==
  LET nv == Total(sc.sizes)
      c == FGSCoords(td)
      header(e, coor) ==
        LET syms == InducedSymmetries(e, Identity(dim), td.sym)
            pi == apply(trace(e), coor)
        IN  [i \in DOMAIN syms |->
               createPackedColumn(sc, syms[i], td.nvs,
                                  Block(pi, [k \in DOMAIN syms |-> dimen(syms[k])], i))]
      sumcol(coor) ==
        Fold(LAMBDA s, e : IrregAddTo(s, header(e, coor), nv),
             [k \in 1..FMaxOffset(nv, dim) |-> 0], Equivalences(Len(td.nvmax), dim))
  IN  [out EXCEPT !.col =
         [k \in DOMAIN c |->
            multColumnAndAdd(items, FFSCoords(nv, dim), sumcol(c[k]), out.col[k])]]
============================================================================

--------------------------- MODULE TensorLibrary ---------------------------
(***************************************************************************)
(* Calls of the tensor library, each with its inputs, and what the results  *)
(* must be.  A call is chosen once; its result is computed as the library   *)
(* computes it, and the invariants compare it with the definition of what   *)
(* was asked for.                                                           *)
(***************************************************************************)
EXTENDS StackContainers, TensorPolynomials

CONSTANTS
  IndexCalls,    \* dimensions of generally symmetric tensors
  Orders,        \* the numbers of indices of equivalences and permutations
  ProductCalls,  \* stack container, dimension of f_z, dimensions of the result
  SliceCalls,    \* stack sizes and stacks of a slice
  PolCalls,      \* a folded polynomial and a point
  MomentCalls,   \* a variance matrix and a dimension
  KronCalls      \* a matrix and the factors of a Kronecker product

VARIABLES call, result

vars == <<call, result>>

None == [op |-> "none"]

Init == /\ call \in [op : {"index"}, td : IndexCalls] \cup [op : {"order"}, n : Orders]
                    \cup ProductCalls \cup SliceCalls \cup PolCalls \cup MomentCalls
                    \cup KronCalls
        /\ result = None

Calls(op) == result = None /\ call.op = op /\ UNCHANGED call

(* The coordinates in the order of the increment, folded and unfolded.      *)
Enumerate ==
  /\ Calls("index")
  /\ result' = [op |-> "index", f |-> FGSCoords(call.td), u |-> UCoords(call.td.nvmax)]

Combine ==
  /\ Calls("order")
  /\ result' = [op |-> "order", equis |-> getEquiv[call.n], pers |-> getPerm[call.n],
                syms |-> SymmetrySet(call.n, 3)]

(* Each way to multiply the sparse tensor f_z with the stacks, on a result  *)
(* that starts at zero.                                                     *)
Ways(c) ==
  LET fz == Zeros(c.nr, calcFoldMaxOffset(c.td))
      uz == Zeros(c.nr, Product(c.td.nvmax))
      fine == FineContainer(c.sc, c.max)
  IN  [s1 |-> FSparse1(c.sc, c.dim, c.items, c.nr, c.td, fz),
       s2 |-> FSparse2(c.sc, c.dim, c.items, c.nr, c.td, fz),
       s3 |-> FSparse3(c.sc, c.dim, c.items, c.nr, c.td, fz),
       s4 |-> FSparse4(c.sc, c.dim, c.items, c.nr, c.td, fz),
       fine |-> FSparse4(fine, c.dim, c.items, c.nr, c.td, fz),
       u1 |-> Fold2(USparse1(c.usc, c.dim, c.items, c.nr, c.td, uz), c.td),
       u2 |-> Fold2(USparse2(c.usc, c.dim, c.items, c.nr, c.td, uz), c.td)]

MultiplySparse ==
  /\ Calls("sparse")
  /\ result' = [op |-> "sparse", ways |-> Ways(call)]

(* The dense products of a container with the stacks.                       *)
MultiplyDense ==
  /\ Calls("dense")
  /\ LET c == call
         fz == Zeros(c.nr, calcFoldMaxOffset(c.td))
         uz == Zeros(c.nr, Product(c.td.nvmax))
         ucont == [s \in DOMAIN c.dense |-> Unfold2(c.dense[s], Dimens(s, c.sc.sizes))]
     IN  result' = [op |-> "dense",
                    f |-> FDense(c.sc, c.dim, c.dense, c.td, fz),
                    u |-> Fold2(UDense(c.usc, c.dim, ucont, c.td, uz), c.td)]

(* The product of one container (FGSContainer, UGSContainer).               *)
MultiplyContainer ==
  /\ Calls("cont")
  /\ LET c == call
         l == c.dim
         std == Dimens(<<l>>, <<c.nv>>)
         ut == Unfold2(c.t, std)
         ucont == [s \in DOMAIN c.cont |-> Unfold2(c.cont[s], Dimens(s, c.td.nvs))]
     IN  result' = [op |-> "cont",
                    f |-> FMultAndAdd(c.cont, ut, l, Zeros(c.nr, calcFoldMaxOffset(c.td)), c.td),
                    u |-> Fold2(UMultAndAdd(ucont, ut, l, Zeros(c.nr, Product(c.td.nvmax)), c.td),
                                c.td)]

Fill ==
  /\ Calls("slice")
  /\ result' = [op |-> "slice",
                one |-> fillFromSparseOne(call.items, call.nr, call.ss, call.coor),
                two |-> fillFromSparseTwo(call.items, call.nr, call.ss, call.coor),
                fill |-> UnfoldFill(call.items)]

(* Every slice of a tensor between two groups of variables, put back by     *)
(* addSubTensor.                                                            *)
SumOfSlices(p, d, ss) ==
  Fold(LAMBDA o, i :
         LET coor == [k \in 1..d |-> IF k <= i THEN 0 ELSE 1]
             td == SliceDimens(ss, coor)
             sl == Slice(p, d, ss, coor)
         IN  IF p.f THEN FAddSub(o, p.nv, sl, td) ELSE UAddSub(o, p.nv, sl, td),
       Zeros(p.nr, Len(Coords(p.f, p.nv, d))), UpTo(d + 1))

Evaluate ==
  /\ Calls("pol")
  /\ LET p == call.p
         u == UnfoldPol(p)
         n == call.fix
         x == SubSeq(call.x, 1, n)
         rest == SubSeq(call.x, n + 1, p.nv)
     IN  result' = [op |-> "pol",
                    values |-> UNION {{evalTrad(a[1], a[2]), evalHorner(a[1], a[2])} :
                                        a \in {<<p, call.x>>, <<u, call.x>>, <<Fixed(p, x), rest>>,
                                               <<Fixed(u, x), rest>>, <<FoldPol(Fixed(u, x)), rest>>}},
                    sums |-> [d \in DOMAIN p.t \ {0} |-> SumOfSlices(p, d, <<n, p.nv - n>>)],
                    usums |-> [d \in DOMAIN p.t \ {0} |-> SumOfSlices(u, d, <<n, p.nv - n>>)],
                    jacob |-> evalPartially(DerivativeOf(p, 0), 1, call.x),
                    der |-> evalPartially(derivative(p, 0), 1, call.x),
                    uder |-> evalPartially(derivative(u, 0), 1, call.x)]

Moments ==
  /\ Calls("moment")
  /\ result' = [op |-> "moment", m |-> Moment(call.v, call.nv, call.d),
                f |-> FoldRows(Moment(call.v, call.nv, call.d), call.nv, call.d)]

Multiply ==
  /\ Calls("kron")
  /\ result' = [op |-> "kron", plain |-> KronMult(call.in, call.kp),
                ordered |-> optimizeOrder(call.kp)]

Returned == result # None /\ UNCHANGED vars

Next == \/ Enumerate \/ Combine \/ MultiplySparse \/ MultiplyDense
        \/ MultiplyContainer \/ Fill \/ Evaluate \/ Moments \/ Multiply \/ Returned

Spec == Init /\ [][Next]_vars
-----------------------------------------------------------------------------
(* The increments enumerate every multi-index once, the folded ones exactly *)
(* those sorted within each block, and getOffset is the number of the       *)
(* column each stands at.                                                   *)
OffsetsNumberTheIndices ==
  result.op = "index" =>
    LET td == call.td
        all == {v \in [1..Len(td.nvmax) -> 0..3] : less(v, td.nvmax)}
        folded == {v \in all : getFirstIndexOf(td, v) = v}
    IN  /\ {result.u[k] : k \in DOMAIN result.u} = all
        /\ {result.f[k] : k \in DOMAIN result.f} = folded
        /\ Len(result.f) = Cardinality(folded) /\ Len(result.u) = Cardinality(all)
        /\ \A k \in DOMAIN result.f : calcFoldOffset(td, result.f[k]) = k - 1
        /\ \A k \in DOMAIN result.u : UOffset(result.u[k], td.nvmax) = k - 1
        /\ \A k \in 2..Len(result.u) :
             UDecrement(result.u[k], td.nvmax) = result.u[k - 1]
        /\ isFull(td.sym) =>
             \A k \in 2..Len(result.f) :
               isSorted(result.f[k])
               /\ FDecrement(result.f[k], td.nvmax[1]) = result.f[k - 1]

(* The Bell numbers.                                                        *)
Bell == [n \in 1..5 |-> <<1, 2, 5, 15, 52>>[n]]

AsPartition(e) == {Elements(e[i]) : i \in DOMAIN e}

(* EquivalenceSet holds every partition of the indices once (as many as the *)
(* Bell number), PermutationSet every permutation once, and the symmetry    *)
(* iterator every symmetry once.                                            *)
CombinationsAreComplete ==
  result.op = "order" =>
    LET n == call.n
        e == result.equis
        parts == {AsPartition(e[k]) : k \in DOMAIN e}
    IN  /\ \A k \in DOMAIN e : UNION AsPartition(e[k]) = 0..(n - 1) /\ Len(trace(e[k])) = n
        /\ Cardinality(parts) = Len(e) /\ Len(e) = Bell[n]
        /\ Cardinality({result.pers[k] : k \in DOMAIN result.pers}) = Product([i \in 1..n |-> i])
        /\ {result.syms[k] : k \in DOMAIN result.syms}
             = {s \in [1..3 -> 0..n] : s[1] + s[2] + s[3] = n}
        /\ \A k \in DOMAIN result.syms :
             noverseq(result.syms[k]) * Product([i \in 1..result.syms[k][1] |-> i])
               * Product([i \in 1..result.syms[k][2] |-> i])
               * Product([i \in 1..result.syms[k][3] |-> i]) = Product([i \in 1..n |-> i])

(* A derivative of the stacked vector: row b, with respect to the variables *)
(* vs, a set of positions of the multi-index c.                             *)
SortedSet(S) == sort(CHOOSE f \in [1..Cardinality(S) -> S] : {f[i] : i \in DOMAIN f} = S)

StackDerivative(sc, td, b, c, vs) ==
  LET cl == SortedSet(vs)
      s == OfClass(td.sym, cl)
      coor == [i \in DOMAIN cl |-> c[cl[i] + 1]]
      i == CHOOSE k \in DOMAIN sc.sizes :
             Offsets(sc.sizes)[k] <= b /\ b < Offsets(sc.sizes)[k] + sc.sizes[k]
      row == b - Offsets(sc.sizes)[i]
  IN  IF StackIsZero(sc, i - 1, s) THEN 0
      ELSE IF getType(sc, i - 1, s) = "unit" THEN (IF coor[1] = row THEN 1 ELSE 0)
      ELSE sc.conts[i][s].col[calcFoldOffset(Dimens(s, td.nvs), coor) + 1][row + 1]

(* The Faa Di Bruno formula itself, for a symmetric f given by value(r, b). *)
Partitions(n, l) ==
  {P \in SUBSET (SUBSET (0..(n - 1)) \ {{}}) :
     /\ Cardinality(P) = l /\ UNION P = 0..(n - 1)
     /\ \A a, b \in P : a = b \/ a \cap b = {}}

PartitionList(n, l) ==
  LET list(P) == CHOOSE f \in [1..l -> P] : {f[i] : i \in 1..l} = P
  IN  {list(P) : P \in Partitions(n, l)}

FaaDiBruno(nr, n, l, nv, value(_, _), deriv(_, _, _), coords) ==
  LET ps == PartitionList(n, l)
      bs == UFSCoords(nv, l)
      live(r) == {k \in DOMAIN bs : value(r, bs[k]) # 0}
      term(r, b, c, p) == value(r, b) * Product([i \in 1..l |-> deriv(b[i], c, p[i])])
  IN  [nr |-> nr,
       col |-> [q \in DOMAIN coords |->
                  [r \in 1..nr |->
                     SumOfAll(ps, LAMBDA p :
                       SumOfAll(live(r - 1), LAMBDA k : term(r - 1, bs[k], coords[q], p)))]]]

ItemAt(items, r, b) ==
  LET h == {x \in items : x.key = sort(b) /\ x.r = r}
  IN  IF h = {} THEN 0 ELSE (CHOOSE x \in h : TRUE).c

(* Whatever the order of the stacks, the permutation of the factors, the    *)
(* fold and the form of the slices, each of the products of a sparse tensor *)
(* with a stack is the Faa Di Bruno sum over the partitions.                *)
SparseProductsAreFaaDiBruno ==
  result.op = "sparse" =>
    LET c == call
        ref == FaaDiBruno(c.nr, Len(c.td.nvmax), c.dim, Total(c.sc.sizes),
                          LAMBDA r, b : ItemAt(c.items, r, b),
                          LAMBDA b, v, vs : StackDerivative(c.sc, c.td, b, v, vs),
                          FGSCoords(c.td))
    IN  \A w \in DOMAIN result.ways \ {"fine"} : result.ways[w].col = ref.col

(* Cutting the stacks of a container into rows does not change a product.   *)
RefinementIsNeutral ==
  result.op = "sparse" => result.ways.fine.col = result.ways.s4.col

(* The element of a container of dense tensors at row r and index b.        *)
DenseValue(c, r, b) ==
  LET ss == c.sc.sizes
      stack(x) == CHOOSE k \in DOMAIN ss : Offsets(ss)[k] <= x /\ x < Offsets(ss)[k] + ss[k]
      sb == sort(b)
      coor == [i \in DOMAIN sb |-> stack(sb[i]) - 1]
      td == SliceDimens(ss, coor)
  IN  IF td.sym \notin DOMAIN c.dense THEN 0
      ELSE c.dense[td.sym].col[calcFoldOffset(td, addTo(sb, -1, Lower(ss, coor))) + 1][r + 1]

(* The products with dense containers (multAndAdd and the contraction with  *)
(* Kronecker products) are the same Faa Di Bruno sum.                       *)
DenseProductsAreFaaDiBruno ==
  /\ result.op = "dense" =>
       LET c == call
           ref == FaaDiBruno(c.nr, Len(c.td.nvmax), c.dim, Total(c.sc.sizes),
                             LAMBDA r, b : DenseValue(c, r, b),
                             LAMBDA b, v, vs : StackDerivative(c.sc, c.td, b, v, vs),
                             FGSCoords(c.td))
       IN  result.f.col = ref.col /\ result.u.col = ref.col
  /\ result.op = "cont" =>
       LET c == call
           deriv(b, v, vs) ==
             LET cl == SortedSet(vs)
                 s == OfClass(c.td.sym, cl)
             IN  c.cont[s].col[calcFoldOffset(Dimens(s, c.td.nvs),
                                              [i \in DOMAIN cl |-> v[cl[i] + 1]]) + 1][b + 1]
           ref == FaaDiBruno(c.nr, Len(c.td.nvmax), c.dim, c.nv,
                             LAMBDA r, b : c.t.col[FOffset(sort(b), c.nv) + 1][r + 1],
                             deriv, FGSCoords(c.td))
       IN  result.f.col = ref.col /\ result.u.col = ref.col

(* The two ways to cut a slice out of a sparse tensor give the same tensor, *)
(* and the fill factor they are chosen by counts the columns of the         *)
(* unfolded tensor that are not empty.                                      *)
SparseFillsAgree ==
  result.op = "slice" =>
    /\ result.one = result.two
    /\ LET c == UFSCoords(Total(call.ss), Len(call.coor))
           keys == {x.key : x \in call.items}
       IN  result.fill = Cardinality({k \in DOMAIN c : sort(c[k]) \in keys})

(* The sum of the monomials.                                                *)
PolAt(p, x) ==
  [r \in 1..p.nr |->
     Total([d \in 1..(p.maxdim + 1) |->
              IF d - 1 \notin DOMAIN p.t THEN 0
              ELSE LET c == UFSCoords(p.nv, d - 1)
                   IN  Total([k \in DOMAIN c |->
                                p.t[d - 1].col[FOffset(sort(c[k]), p.nv) + 1][r]
                                  * Product([i \in DOMAIN c[k] |-> x[c[k][i] + 1]])])])]

(* A polynomial has one value at a point, whether folded or unfolded,       *)
(* summed term by term (evalTrad) or by the Horner scheme (evalHorner), or  *)
(* with its first variables fixed beforehand: the sum of its monomials.     *)
EvaluationsAgree == result.op = "pol" => result.values = {PolAt(call.p, call.x)}

(* A symmetric tensor is the sum of its slices, folded or not.              *)
SlicesAddUp ==
  result.op = "pol" =>
    \A d \in DOMAIN result.sums :
      result.sums[d] = call.p.t[d] /\ result.usums[d] = UnfoldPol(call.p).t[d]

(* The gradient: the coefficient of each variable after the others are      *)
(* contracted, times the number of places it may stand at.                  *)
GradientAt(p, x) ==
  [j \in 1..p.nv |->
     [r \in 1..p.nr |->
        Total([d \in 1..p.maxdim |->
                 IF d \notin DOMAIN p.t THEN 0
                 ELSE LET c == UFSCoords(p.nv, d - 1)
                      IN  d * Total([k \in DOMAIN c |->
                                p.t[d].col[FOffset(sort(c[k] \o <<j - 1>>), p.nv) + 1][r]
                                  * Product([i \in DOMAIN c[k] |-> x[c[k][i] + 1]])])])]]

(* derivative followed by evalPartially gives the Jacobian.                 *)
DerivativeIsTheGradient ==
  result.op = "pol" => result.der.col = GradientAt(call.p, call.x)
                       /\ result.uder.col = GradientAt(call.p, call.x)

(* The polynomial made by TensorPolynomial(tp, 0), which the fixed point    *)
(* search stores as bigfder, evaluates to the Jacobian as well.             *)
JacobianIsTheGradient ==
  result.op = "pol" => result.jacob.col = GradientAt(call.p, call.x)

(* The moments are those of Isserlis: the sum over the pairings of the      *)
(* indices of the products of covariances.                                  *)
MomentsArePairings ==
  result.op = "moment" =>
    LET d == call.d
        c == UFSCoords(call.nv, d)
        pairings == {P \in SUBSET {S \in SUBSET (1..d) : Cardinality(S) = 2} :
                       Cardinality(P) = d \div 2 /\ UNION P = 1..d}
        cov(i, j) == call.v[i * call.nv + j + 1]
        first(S) == CHOOSE i \in S : \A j \in S : i <= j
        last(S) == CHOOSE i \in S : \A j \in S : j <= i
        prod(P, k) == Product([i \in 1..(d \div 2) |->
                        LET S == CHOOSE Q \in P : Cardinality({R \in P : first(R) < first(Q)}) = i - 1
                        IN  cov(c[k][first(S)], c[k][last(S)])])
    IN  \A k \in DOMAIN c : result.m[k] = SumOfAll(pairings, LAMBDA P : prod(P, k))

(* An element of the Kronecker product of the factors.                      *)
KronElement(kp, row, col) ==
  LET at(i, n(_)) == Product([k \in 1..(Len(kp) - i) |-> n(kp[i + k])])
      ri(i) == (row \div at(i, LAMBDA f : f.r)) % kp[i].r
      ci(i) == (col \div at(i, LAMBDA f : f.c)) % kp[i].c
  IN  Product([i \in DOMAIN kp |->
                 IF kp[i].unit THEN (IF ri(i) = ci(i) THEN 1 ELSE 0)
                 ELSE kp[i].m.col[ci(i) + 1][ri(i) + 1]])

(* mult of a product of Kronecker factors is the product with the whole     *)
(* matrix, unit factors and the order of the multiplications                *)
(* (KronProdAllOptim) notwithstanding.                                      *)
KronIsTheMatrixProduct ==
  result.op = "kron" =>
    /\ \A j \in DOMAIN result.plain.col : \A i \in 1..call.in.nr :
         result.plain.col[j][i] =
           Total([k \in DOMAIN call.in.col |-> call.in.col[k][i] * KronElement(call.kp, k - 1, j - 1)])
    /\ result.ordered.kp = apply(result.ordered.per, call.kp)

(* What the library enumerates is complete, without repetition and in the   *)
(* order it is numbered by: indices of tensors, equivalences, permutations, *)
(* symmetries.                                                              *)
IndicesAreComplete ==
  /\ OffsetsNumberTheIndices
  /\ CombinationsAreComplete

(* All ways to multiply a tensor with a stack of derivatives compute one    *)
(* sum: the sparse ones, with slices of either form and refined stacks, the *)
(* dense ones, and the Kronecker products they rest on.                     *)
ProductsAreFaaDiBruno ==
  /\ SparseProductsAreFaaDiBruno
  /\ RefinementIsNeutral
  /\ DenseProductsAreFaaDiBruno
  /\ SparseFillsAgree
  /\ KronIsTheMatrixProduct

(* All ways to evaluate a polynomial and its derivative agree with the sum  *)
(* of its monomials, a tensor is the sum of its slices, and the moments     *)
(* taken of a polynomial are those of the normal distribution.              *)
PolynomialsAreExact ==
  /\ EvaluationsAgree
  /\ SlicesAddUp
  /\ DerivativeIsTheGradient
  /\ MomentsArePairings
============================================================================

------------------------- MODULE CompressedColumns -------------------------
(***************************************************************************)
(* The linear systems of mex/sources/bytecode/SparseMatrix.cc in compressed *)
(* columns: how they are stacked from the Jacobian of a block, the sparse   *)
(* arithmetic, the relaxation over blocks, and the step that is taken with  *)
(* a solution.                                                              *)
(*                                                                         *)
(* A matrix is [m, n, i, j, d]: the row (from 0) and the value of each      *)
(* element, column after column, and where the columns start, as MATLAB and *)
(* UMFPACK have it.  Doubles are replaced by the integers modulo a prime,   *)
(* in which the relaxation can be checked exactly.                          *)
(***************************************************************************)
EXTENDS Loops, TLC

Q == 101

Fp(x) == x % Q

Inv(x) == CHOOSE y \in 1..(Q - 1) : Fp(x * y) = 1

Elements(A, c) == (A.j[c + 1] + 1)..A.j[c + 2]

At(A, r, c) ==
  LET ks == {k \in Elements(A, c) : A.i[k] = r}
  IN  IF ks = {} THEN 0 ELSE A.d[CHOOSE k \in ks : TRUE]

IsCsc(A) ==
  /\ Len(A.j) = A.n + 1 /\ A.j[1] = 0 /\ A.j[A.n + 1] = Len(A.i) /\ Len(A.d) = Len(A.i)
  /\ \A c \in 0..(A.n - 1) :
       /\ A.j[c + 1] <= A.j[c + 2]
       /\ \A k \in Elements(A, c) : A.i[k] \in 0..(A.m - 1)
       /\ \A k, l \in Elements(A, c) : k < l => A.i[k] < A.i[l]

(* The matrix with the given elements <<row, column>> -> value.             *)
FromDense(m, n, f) ==
  LET rows(c) == SelectSeq(UpTo(m), LAMBDA r : <<r, c>> \in DOMAIN f)
  IN  [m |-> m, n |-> n, i |-> Flat([c \in 1..n |-> rows(c - 1)]),
       j |-> [c \in 1..(n + 1) |-> Total([k \in 1..(c - 1) |-> Len(rows(k - 1))])],
       d |-> Flat([c \in 1..n |-> [k \in DOMAIN rows(c - 1) |-> f[<<rows(c - 1)[k], c - 1>>]]])]
-----------------------------------------------------------------------------
(* The column of the next element, as the arithmetic finds it; the row of   *)
(* an element behind the last is whatever is there.                         *)
RECURSIVE NextColumn(_, _, _)
NextColumn(A, col, nze) ==
  IF nze >= A.j[col + 2] /\ nze < Len(A.i) THEN NextColumn(A, col + 1, nze) ELSE col

RowAt(A, nze, junk) == IF nze < Len(A.i) THEN A.i[nze + 1] ELSE junk

(* The starts of the columns before col that have no element yet.           *)
Filled(C, col) ==
  [C EXCEPT !.j = [k \in DOMAIN @ |-> IF k - 1 > C.col /\ k - 1 <= col THEN Len(C.i) ELSE @[k]],
            !.col = IF @ < col THEN col ELSE @]

(* One element more, in the column col.                                     *)
Put(C, row, col, v) ==
  LET D == Filled(C, col)
  IN  [D EXCEPT !.i = Append(@, row), !.d = Append(@, Fp(v)), !.j[col + 2] = Len(C.i), !.col = col]

NewMatrix(m, n) == [m |-> m, n |-> n, i |-> <<>>, d |-> <<>>, j |-> [k \in 1..(n + 1) |-> 0], col |-> 0]

Closed(C, n) == LET D == Filled(C, n) IN [m |-> D.m, n |-> D.n, i |-> D.i, j |-> D.j, d |-> D.d]

RECURSIVE Merge(_, _, _, _, _, _, _, _)
Merge(A, B, a, b, A_col0, B_col0, C, junk) ==
  LET A_col == NextColumn(A, A_col0, a)
      B_col == NextColumn(B, B_col0, b)
      A_row == RowAt(A, a, junk)
      B_row == RowAt(B, b, junk)
      more == a < Len(A.i)
      both == more /\ b < Len(B.i)
      onlyA == IF A_col = B_col THEN (A_row < B_row /\ more) \/ b = Len(B.i)
               ELSE (A_col < B_col /\ more) \/ b = Len(B.i)
  IN  IF ~more /\ b = Len(B.i) THEN C
      ELSE IF A_col = B_col /\ A_row = B_row /\ both
      THEN Merge(A, B, a + 1, b + 1, A_col, B_col, Put(C, A_row, A_col, A.d[a + 1] - B.d[b + 1]), junk)
      ELSE IF onlyA THEN Merge(A, B, a + 1, b, A_col, B_col, Put(C, A_row, A_col, A.d[a + 1]), junk)
      ELSE Merge(A, B, a, b + 1, A_col, B_col, Put(C, B_row, B_col, 0 - B.d[b + 1]), junk)

Sparse_substract_SA_SB(A, B, junk) ==
  Closed(Merge(A, B, 0, 0, 0, 0, NewMatrix(A.m, B.n), junk), B.n)

(* The product of a column of A and one of B, by their sorted rows.         *)
RECURSIVE Dot(_, _, _, _, _)
Dot(A, a, aEnd, B, ends) ==
  LET b == ends[1]
  IN  IF a > aEnd \/ b > ends[2] THEN 0
      ELSE IF A.i[a] = B.i[b] THEN A.d[a] * B.d[b] + Dot(A, a + 1, aEnd, B, <<b + 1, ends[2]>>)
      ELSE IF A.i[a] < B.i[b] THEN Dot(A, a + 1, aEnd, B, ends)
      ELSE Dot(A, a, aEnd, B, <<b + 1, ends[2]>>)

(* The product of the transpose of A and B; no zeros are stored.            *)
Sparse_mult_SAT_SB(A, B) ==
  LET add(C, k) ==
        LET c == k \div A.n
            r == k % A.n
            sum == Fp(Dot(A, A.j[r + 1] + 1, A.j[r + 2], B, <<B.j[c + 1] + 1, B.j[c + 2]>>))
            D == Filled(C, c)
        IN  IF sum = 0 THEN C ELSE [D EXCEPT !.i = Append(@, r), !.d = Append(@, sum)]
  IN  Closed(Fold(add, NewMatrix(A.m, B.n), UpTo(A.n * B.n)), B.n)

(* The transpose of A times a vector.                                       *)
mult_SAT_B(A, b) ==
  [i \in 1..A.n |-> Fp(Total([k \in 1..(A.j[i + 1] - A.j[i]) |->
                                A.d[A.j[i] + k] * b[A.i[A.j[i] + k] + 1]]))]

substract_A_B(a, b) == [i \in DOMAIN a |-> Fp(a[i] - b[i])]

(* The elements are counted by rows and sorted by rows and columns.         *)
Sparse_transpose(A) ==
  LET all == {<<A.i[k], c>> : c \in 0..(A.n - 1), k \in DOMAIN A.i}
      B2 == {rc \in all : \E k \in Elements(A, rc[2]) : A.i[k] = rc[1]}
      ofRow(r) == SelectSeq(UpTo(A.n), LAMBDA c : <<r, c>> \in B2)
  IN  [m |-> A.n, n |-> A.m, i |-> Flat([r \in 1..A.m |-> ofRow(r - 1)]),
       j |-> [r \in 1..(A.m + 1) |-> Cardinality({rc \in B2 : rc[1] < r - 1})],
       d |-> Flat([r \in 1..A.m |-> [k \in DOMAIN ofRow(r - 1) |-> At(A, r - 1, ofRow(r - 1)[k])]])]
-----------------------------------------------------------------------------
(* Solve_Matlab_Relaxation.  The columns of two periods are cut into the    *)
(* blocks above, on and below the diagonal; from then on the next period    *)
(* only brings new values for the same places.                              *)
Parts == {"B1", "A2", "C1", "B2", "A3"}

BlockOf(Size, var, eq) ==
  IF var < Size THEN (IF eq < Size THEN "B1" ELSE "A2")
  ELSE IF eq < Size THEN "C1" ELSE IF eq < 2 * Size THEN "B2" ELSE "A3"

(* var is moved at most once before an element is taken, its right-hand     *)
(* side is copied then: that of the last column never is.                   *)
RECURSIVE FirstPeriods(_, _, _, _)
FirstPeriods(A, b, Size, s) ==
  IF s.var >= 2 * Size \/ s.nze >= Len(A.i) THEN s
  ELSE LET ended == A.j[s.var + 2] <= s.nze
           s1 == IF ~ended THEN s
                 ELSE IF s.var < Size THEN [s EXCEPT !.b1[s.var + 1] = b[s.var + 1], !.var = @ + 1]
                 ELSE [s EXCEPT !.b2[s.var - Size + 1] = b[s.var + 1], !.var = @ + 1]
           eq == A.i[s.nze + 1]
           x == BlockOf(Size, s1.var, eq)
           col == s1.var % Size
           D == Filled(s1.M[x], col)
           put == [D EXCEPT !.i = Append(@, eq % Size), !.d = Append(@, A.d[s.nze + 1])]
       IN  FirstPeriods(A, b, Size,
             [s1 EXCEPT !.nze = @ + 1, !.M = IF s1.var >= 2 * Size THEN @ ELSE [@ EXCEPT ![x] = put]])

(* The values of the columns of period t + 1.                               *)
RECURSIVE NextPeriod(_, _, _, _, _)
NextPeriod(A, b, Size, t, s) ==
  IF s.var >= (t + 2) * Size \/ s.nze >= Len(A.i) THEN s
  ELSE LET ended == A.j[s.var + 2] <= s.nze
           s1 == IF ended THEN [s EXCEPT !.b2[s.var - (t + 1) * Size + 1] = b[s.var + 1], !.var = @ + 1]
                 ELSE s
           eq == A.i[s.nze + 1]
           x == IF eq < (t + 1) * Size THEN "C1" ELSE IF eq < (t + 2) * Size THEN "B2" ELSE "A3"
           n == s1.fill[x] + 1
       IN  NextPeriod(A, b, Size, t,
             [s1 EXCEPT !.nze = @ + 1, !.fill[x] = n,
                        !.M[x].d = IF n > Len(@) THEN @ ELSE [@ EXCEPT ![n] = A.d[s.nze + 1]]])

(* MATLAB's inv, for one and two equations.                                 *)
inv(B) ==
  LET f == [rc \in {<<r, c>> : r, c \in 0..(B.n - 1)} |-> At(B, rc[1], rc[2])]
      det == Fp(f[<<0, 0>>] * f[<<1, 1>>] - f[<<0, 1>>] * f[<<1, 0>>])
      cof == [rc \in DOMAIN f |-> Fp(Inv(det) * (IF rc[1] = rc[2] THEN f[<<1 - rc[1], 1 - rc[1]>>]
                                                ELSE 0 - f[rc]))]
      g == IF B.n = 1 THEN [rc \in DOMAIN f |-> Inv(f[rc])] ELSE cof
      kept == {rc \in DOMAIN f : g[rc] # 0}
  IN  FromDense(B.n, B.n, [rc \in kept |-> g[rc]])

Singular(B) ==
  IF B.n = 1 THEN At(B, 0, 0) = 0
  ELSE Fp(At(B, 0, 0) * At(B, 1, 1) - At(B, 0, 1) * At(B, 1, 0)) = 0

(* One period of the forward elimination.  (The inverse of B1 is kept from  *)
(* the period before when it hardly changed; here it is computed anew.)     *)
Eliminated(A, b, Size, periods, s, t) ==
  IF s.singular \/ Singular(s.B1) THEN [s EXCEPT !.singular = TRUE]
  ELSE LET inv_t == Sparse_transpose(inv(s.B1))
           S1 == Sparse_mult_SAT_SB(inv_t, s.M["C1"])
           d1 == mult_SAT_B(inv_t, s.b1)
           A2_t == Sparse_transpose(s.A2)
           s1 == IF t = periods THEN [s EXCEPT !.d1 = d1]
                 ELSE [s EXCEPT !.d1 = d1, !.form = Append(@, <<S1, d1>>),
                                !.B1 = Sparse_substract_SA_SB(s.M["B2"], Sparse_mult_SAT_SB(A2_t, S1), 0),
                                !.b1 = substract_A_B(s.b2, mult_SAT_B(A2_t, d1))]
           renewed(q) == [q EXCEPT !.A2 = s.M["A3"], !.fill = [x \in Parts |-> 0],
                                   !.nze = IF @ < Len(A.i) THEN @ - 1 ELSE @]
       IN  NextPeriod(A, b, Size, t, renewed(s1))

(* The solution res of A res = b, as the relaxation leaves it.              *)
Solve_Matlab_Relaxation(A, b, Size, periods) ==
  LET zero == [k \in 1..Size |-> 0]
      start == FirstPeriods(A, b, Size,
                 [var |-> A.j[1], nze |-> 0, b1 |-> zero, b2 |-> zero,
                  M |-> [x \in Parts |-> NewMatrix(Size, Size)]])
      begin(M) == [var |-> start.var, nze |-> start.nze, b1 |-> start.b1, b2 |-> start.b2, M |-> M,
                   B1 |-> M["B1"], A2 |-> M["A2"], fill |-> [x \in Parts |-> 0], form |-> <<>>,
                   d1 |-> zero, singular |-> FALSE]
      done == Fold(LAMBDA s, t : Eliminated(A, b, Size, periods, s, t),
                   begin([x \in Parts |-> Closed(start.M[x], Size)]), [t \in 1..periods |-> t])
      back(form, r, k) == <<substract_A_B(form[k][2],
                                          mult_SAT_B(Sparse_transpose(form[k][1]), Head(r)))>> \o r
      solution(s) == [singular |-> s.singular,
                      res |-> IF s.singular THEN <<>>
                              ELSE Flat(Fold(LAMBDA r, k : back(s.form, r, k), <<s.d1>>,
                                             [k \in 1..(periods - 1) |-> periods - k]))]
  IN  solution(done)

-----------------------------------------------------------------------------
(* The system of one Newton step of a block: Init_UMFPACK_Sparse and        *)
(* Init_Matlab_Sparse stack the Jacobians of all periods, the _Simple       *)
(* versions take one period, and the solvers move y with the solution.      *)
(*                                                                         *)
(* k, the block: Size, periods, y_kmin, y_kmax, y_size, vara (the variables *)
(* of the block), IM, u_count_init, the coefficients u, the values y and x, *)
(* and cond: for a variable whose value is given, the exogenous variable    *)
(* solved for instead, with its column of jacob_exo (exo, jac).             *)

Lower(a, b) == IF a < b THEN a ELSE b

u_count(k) == k.u_count_init

index_vara(k, v) == k.vara[(v % k.Size) + 1] + (v \div k.Size) * k.y_size

(* Read_SparseMatrix: the file lists the derivatives; in the map they are   *)
(* sorted by variable, -lag and equation, and the constants come last.      *)
Before(a, b) ==
  \/ a.var < b.var
  \/ a.var = b.var /\ a.mlag < b.mlag
  \/ a.var = b.var /\ a.mlag = b.mlag /\ a.eq < b.eq

RECURSIVE SortedKeys(_)
SortedKeys(S) ==
  IF S = {} THEN <<>>
  ELSE LET x == CHOOSE x \in S : \A y \in S \ {x} : Before(x, y) IN <<x>> \o SortedKeys(S \ {x})

ReadColumns(Size, periods, y_kmax, file, two_boundaries) ==
  LET keys == {[var |-> file[n][2] - file[n][3] * Size, mlag |-> 0 - file[n][3], eq |-> file[n][1],
                value |-> Size + n - 1] : n \in DOMAIN file}
      constants == {[var |-> Size * (periods + y_kmax), mlag |-> 0, eq |-> j, value |-> j] :
                      j \in 0..(Size - 1)}
  IN  SortedKeys(keys \cup (IF two_boundaries THEN constants ELSE {}))

(* The system being built: the matrix, b, the coefficients and last_var.    *)
NoSystem(k, n) ==
  [i |-> <<>>, d |-> <<>>, j |-> [c \in 1..(n + 1) |-> 0], b |-> [r \in 1..n |-> 0], u |-> k.u,
   last_var |-> 0, fliped |-> FALSE, updated |-> FALSE]

Element(s, row, v) == [s EXCEPT !.i = Append(@, row), !.d = Append(@, v)]

(* A column that begins closes the one before it.                           *)
NewColumn(k, s, key, t) ==
  IF key.var = s.last_var THEN s
  ELSE [s EXCEPT !.j[2 + s.last_var + t * k.Size] = Len(s.i), !.last_var = key.var,
                 !.fliped = t = 0 /\ key.var \in DOMAIN k.cond, !.updated = FALSE]

(* The derivatives with respect to the exogenous variable take the place of *)
(* those of a given variable, once, in the first period.                    *)
Flip(k, s, key, t) ==
  IF ~(s.fliped /\ t = 0 /\ key.mlag = 0) \/ s.updated THEN s
  ELSE LET c == k.cond[key.var]
           rows == SelectSeq(UpTo(k.Size), LAMBDA r : c.jac[r + 1] # 0)
       IN  Fold(LAMBDA a, r : [Element(a, r, c.jac[r + 1]) EXCEPT
                                 !.u[r + 1] = @ - c.jac[r + 1] * k.x[c.exo]],
                [s EXCEPT !.updated = TRUE], rows)

M_Stack(k, s0, key, t) ==
  LET s == Flip(k, NewColumn(k, s0, key, t), key, t)
      lag == 0 - key.mlag
      eq == key.eq + k.Size * t
      index == key.value + (t - lag) * u_count(k)
      y(v) == k.y[index_vara(k, v) + 1]
  IN  IF key.var >= (k.periods + k.y_kmax) * k.Size THEN [s EXCEPT !.b[eq + 1] = @ + s.u[index + 1]]
      ELSE LET inside == lag <= Lower(t, k.y_kmax) /\ lag >= 0 - Lower(k.periods - (t + 1), k.y_kmin)
               outside == lag > Lower(k.periods - (t + 1), k.y_kmax) \/ lag < 0 - Lower(t, k.y_kmin)
               s1 == IF inside THEN Element(s, eq, s.u[index + 1]) ELSE s
           IN  IF ~outside THEN s1
               ELSE [s1 EXCEPT !.b[eq + 1] = @ + s.u[index + lag * u_count(k) + 1]
                                                 * y(key.var + k.Size * (k.y_kmin + t + lag))]

(* One derivative in the column of its variable in period t: it is in the   *)
(* equations of period t - lag; with a value outside the simulated periods  *)
(* it belongs to the right-hand side of period t, as do the derivatives of  *)
(* a given variable.                                                        *)
Stack(k, s0, key, t) ==
  LET s == Flip(k, NewColumn(k, s0, key, t), key, t)
      lag == 0 - key.mlag
      eq == key.eq + k.Size * t
      index == key.value + (t - lag) * u_count(k)
      y(v) == k.y[index_vara(k, v) + 1]
  IN  IF key.var >= (k.periods + k.y_kmax) * k.Size THEN [s EXCEPT !.b[eq + 1] = @ + s.u[index + 1]]
      ELSE LET inside == lag <= Lower(t, k.y_kmax) /\ lag >= 0 - Lower(k.periods - (t + 1), k.y_kmin)
               outside == lag > Lower(k.periods - (t + 1), k.y_kmax) \/ lag < 0 - Lower(t, k.y_kmin)
               row == eq - lag * k.Size
               s1 == IF ~inside THEN s
                     ELSE IF ~s.fliped THEN Element(s, row, s.u[index + 1])
                     ELSE [s EXCEPT !.b[row + 1] = @ + s.u[index + 1] * y(key.var + k.Size * (k.y_kmin + t))]
           IN  IF ~outside THEN s1
               ELSE [s1 EXCEPT !.b[eq + 1] = @ + s.u[index + lag * u_count(k) + 1]
                                                 * y(key.var + k.Size * (k.y_kmin + t + lag))]

System(s, n, nze) ==
  [A |-> [m |-> n, n |-> n, i |-> s.i, d |-> s.d, j |-> [s.j EXCEPT ![n + 1] = nze]], b |-> s.b]

(* first is last_var at the beginning of a period: -1 in                    *)
(* Init_UMFPACK_Sparse and 0 in Init_Matlab_Sparse, which knows no given    *)
(* variables.                                                               *)
StackFrom(k, first) ==
  LET n == k.periods * k.Size
      period(s, t) == Fold(LAMBDA a, key : Stack(k, a, key, t), [s EXCEPT !.last_var = first], k.IM)
      s == Fold(period, NoSystem(k, n), UpTo(k.periods))
  IN  System(s, n, Len(s.i))

Init_UMFPACK_Sparse(k) == StackFrom(k, -1)

Init_Matlab_Sparse(k) == StackFrom([k EXCEPT !.cond = <<>>], 0)

(* One period: the constants are the first coefficients.  Both builders     *)
(* stack the same system.                                                   *)
Init_Matlab_Sparse_Simple(k) ==
  LET add(s, key) == Element(IF key.var = s.last_var THEN s
                             ELSE [s EXCEPT !.j[2 + s.last_var] = Len(s.i), !.last_var = key.var],
                             key.eq, k.u[key.value + 1])
      s == Fold(add, [NoSystem(k, k.Size) EXCEPT !.b = [r \in 1..k.Size |-> k.u[r]]], k.IM)
  IN  [zero_solution |-> \A r \in 1..k.Size : s.b[r] = 0] @@ System(s, k.Size, Len(s.i))

Init_UMFPACK_Sparse_Simple(k) == Init_Matlab_Sparse_Simple(k)

(* With the solution res of A res = b the variables move by slowc times     *)
(* -(res + y); the given ones of the first period stay, and their exogenous *)
(* variables move.                                                          *)
TakeStep(k, res, slowc) ==
  LET cell(i) == index_vara(k, i - 1 + k.Size * k.y_kmin) + 1
      moved == {i \in DOMAIN res : i - 1 \notin DOMAIN k.cond}
      at(v, i) == v + slowc * (0 - (res[i] + v))
  IN  [y |-> [c \in DOMAIN k.y |-> IF \E i \in moved : cell(i) = c
                                   THEN at(k.y[c], CHOOSE i \in moved : cell(i) = c) ELSE k.y[c]],
       x |-> [e \in DOMAIN k.x |->
                IF \E v \in DOMAIN k.cond : k.cond[v].exo = e
                THEN at(k.x[e], (CHOOSE v \in DOMAIN k.cond : k.cond[v].exo = e) + 1) ELSE k.x[e]]]

(* One period alone, at it_.                                                *)
TakeStepAt(k, res, slowc, it_) ==
  LET cell(i) == k.vara[i] + it_ * k.y_size + 1
  IN  [c \in DOMAIN k.y |->
         IF \E i \in 1..k.Size : cell(i) = c
         THEN LET i == CHOOSE i \in 1..k.Size : cell(i) = c IN k.y[c] + slowc * (0 - (res[i] + k.y[c]))
         ELSE k.y[c]]
=============================================================================

------------------------ MODULE GaussianElimination ------------------------
(***************************************************************************)
(* The solver of the bytecode MEX's own: one Newton step of a block, by    *)
(* Gaussian elimination of its sparse Jacobian (SparseMatrix.cc).          *)
(*   one boundary   Simple_Init, Solve_ByteCode_Sparse_GaussianElimination *)
(*                  and simple_bksub                                       *)
(*   two boundaries Init_GE, Solve_ByteCode_Symbolic_Sparse_Gaussian-      *)
(*                  Elimination with compare, bksub with complete: all     *)
(*                  periods stacked; once three periods ran the same       *)
(*                  operations the remaining ones are replayed from the    *)
(*                  record of the last.                                    *)
(*                                                                         *)
(* Floating-point numbers are the integers modulo a prime: sums, products  *)
(* and quotients are exact, zero is what |x| < eps tests, and the order of *)
(* magnitudes, which only picks a pivot among non-zero candidates, is left *)
(* open. M_ operators are mutated forms of the definition that follows.    *)
(***************************************************************************)
EXTENDS SparseLists, FiniteSets, FiniteSetsExt

CONSTANTS OneSize,    \* Size of the one-boundary blocks
          TwoSize,    \* Size of the two-boundaries blocks
          PeriodsSet, \* periods: how many periods are stacked
          Seeds       \* one Jacobian per seed and sparsity pattern

VARIABLES prob,     \* the problem: [two, pat, seed]
          s,        \* the matrix
          u,        \* the values
          b,        \* row -> its slot of u for the right-hand side
          pivot,    \* column -> the row chosen
          lineDone,
          pc, t, i, \* next step; period and column it is about
          sym,      \* the parameter symbolic
          recorded, \* record, the operations of this period (cur), nop1,
                    \* the buffers save_op, save_opa, save_opaa (id 0: null),
                    \* the number of buffers allocated and those freed
          tbreak,
          y         \* the solution

vars == <<prob, s, u, b, pivot, lineDone, pc, t, i, sym, recorded, tbreak, y>>
-----------------------------------------------------------------------------
(* The sparsity patterns: with one boundary all those with a full diagonal, *)
(* with two a full diagonal, and lags and leads of one period.             *)
Diagonal(n) == {<<k, k, 0>> : k \in 0..(n - 1)}

OffDiagonal(n) ==
  {<<r, c, 0>> : r \in 0..(n - 1), c \in 0..(n - 1)} \ Diagonal(n)

Shifted(lag) ==
  {{}, {<<0, 0, lag>>}, {<<0, 1, lag>>}, {<<1, 0, lag>>, <<1, 1, lag>>}}

OnePatterns == {Diagonal(OneSize) \cup o : o \in SUBSET OffDiagonal(OneSize)}

TwoPatterns ==
  {Diagonal(TwoSize) \cup o \cup l \cup f :
     o \in SUBSET OffDiagonal(TwoSize), l \in Shifted(-1), f \in Shifted(1)}

-----------------------------------------------------------------------------
(* Arithmetic in place of double.                                          *)
P == 251
Mod(x) == x % P
Abs(x) == IF x < 0 THEN -x ELSE x
InvTable == [x \in 1..(P - 1) |-> CHOOSE z \in 1..(P - 1) : (x * z) % P = 1]
Div(x, z) == Mod(x * InvTable[z])

(* The block: y_kmin = y_kmax = 1. im is the map IM_i read by               *)
(* Read_SparseMatrix, the triples <<equation, variable, lag>> in the order *)
(* of its keys (equation, then variable with its lag).                     *)
Size(pr) == IF pr.two THEN TwoSize ELSE OneSize
NbPeriods(pr) == pr.periods
NbRows(pr) == Size(pr) * NbPeriods(pr)
u_count_init(pr) == Size(pr) + Len(pr.im)

Keys(n, lags) ==
  [k \in 1..(n * n * Cardinality(lags)) |->
     <<(k - 1) \div (n * Cardinality(lags)), (k - 1) % n,
       Min(lags) + (((k - 1) \div n) % Cardinality(lags))>>]

ReadIM(n, lags, pat) == SelectSeq(Keys(n, lags), LAMBDA x : x \in pat)

Coef(pr, p, eq, var, lag) ==
  IF pr.seed = 0 THEN 1
  ELSE Mod(1 + pr.seed * (7 * eq + 31 * var + 13 * (lag + 1) + 3 * p + 5)
             * (eq + var * var + lag + p + pr.seed + 2))
Rhs(pr, p, eq) == Mod(11 * eq + 17 * p + pr.seed + 1)
Boundary(pr, var) == Mod(var + 3 * pr.seed + 2)

EliminationProblems ==
  {[two |-> FALSE, periods |-> 1, seed |-> d, im |-> ReadIM(OneSize, {0}, p)] :
     p \in OnePatterns, d \in Seeds}
    \cup {[two |-> TRUE, periods |-> n, seed |-> d, im |-> ReadIM(TwoSize, -1..1, p)] :
            p \in TwoPatterns, d \in Seeds, n \in PeriodsSet}

InPeriods(pr, p, lag) == p + lag \in 0..(NbPeriods(pr) - 1)

(* The entries of the Jacobian of all periods, with their slots of u.       *)
Entries(pr) ==
  [k \in 1..(Len(pr.im) * NbPeriods(pr)) |->
     LET n == (k - 1) % Len(pr.im)
         p == (k - 1) \div Len(pr.im)
     IN  [p |-> p, eq |-> pr.im[n + 1][1], var |-> pr.im[n + 1][2],
          lag |-> pr.im[n + 1][3], u |-> Size(pr) + n + p * u_count_init(pr)]]

(* Simple_Init and Init_GE: the lists, period by period in the map's order. *)
Init_GE(pr) ==
  Fold(LAMBDA m, e :
             IF InPeriods(pr, e.p, e.lag)
               THEN AppendElem(m, e.eq + Size(pr) * e.p,
                               e.var + Size(pr) * (e.p + e.lag), e.u, e.lag)
               ELSE m,
           EmptyMatrix(NbRows(pr), u_count_init(pr) * NbPeriods(pr),
                       2 * u_count_init(pr) * NbPeriods(pr)),
           Entries(pr))

(* The slot of the right-hand side of a row.                               *)
Init_b(pr) ==
  [r \in 0..(NbRows(pr) - 1) |->
     (r % Size(pr)) + (r \div Size(pr)) * u_count_init(pr)]

(* A bound on the slots of u, past what any instance allocates.             *)
UMax == 16 * (TwoSize + 3 * TwoSize * TwoSize) * (Max(PeriodsSet) + 1)

(* The values the evaluation left in u; Init_GE adds to the right-hand side *)
(* the lags and leads that fall outside the periods.                       *)
Init_u(pr) ==
  LET E == Entries(pr)
      J == Fold(LAMBDA f, e :
             [f EXCEPT ![e.u] = Coef(pr, e.p, e.eq, e.var, e.lag)],
             [k \in 0..UMax |-> 0], E)
      B == Fold(LAMBDA f, r :
             [f EXCEPT ![Init_b(pr)[r]] = Rhs(pr, r \div Size(pr), r % Size(pr))],
             J, [r \in 1..NbRows(pr) |-> r - 1])
  IN  Fold(LAMBDA f, e :
        IF InPeriods(pr, e.p, e.lag) THEN f
        ELSE [f EXCEPT ![e.eq + e.p * u_count_init(pr)] =
                         Mod(@ + f[e.u] * Boundary(pr, e.var))],
        B, E)

NoBuf == [id |-> 0, ops |-> <<>>]

Init ==
  /\ prob \in EliminationProblems
  /\ s = Init_GE(prob)
  /\ u = Init_u(prob)
  /\ b = Init_b(prob)
  /\ pivot = [c \in 0..(NbRows(prob) - 1) |-> 0]
  /\ lineDone = [r \in 0..(NbRows(prob) - 1) |-> FALSE]
  /\ pc = "column" /\ t = 0 /\ i = 0
  /\ sym = TRUE
  /\ recorded = [record |-> FALSE, cur |-> <<>>, nop1 |-> 0, bufs |-> 0,
                 op |-> NoBuf, opa |-> NoBuf, opaa |-> NoBuf, freed |-> <<>>]
  /\ tbreak = 0
  /\ y = [k \in {} |-> 0]
-----------------------------------------------------------------------------
Periods == NbPeriods(prob)

(* Choosing the pivot of column i. The candidates are the elements of the   *)
(* column (of lag 0 with two boundaries) in rows not done yet. A row with  *)
(* that element alone goes first (the last such row); otherwise the score  *)
(* of a candidate is positive exactly when its value is not zero.          *)
Candidates ==
  SelectSeq(IF prob.two THEN At_ColLag(s, i, 0) ELSE At_Col(s, i),
            LAMBDA e : ~lineDone[s.el[e].r])

Pivots ==
  LET single == SelectSeq(Candidates, LAMBDA e : NRow(s, s.el[e].r) = 1)
  IN  IF single # <<>>
        THEN IF \A e \in ToSet(single) : u[s.el[e].u] = 0 THEN {}
             ELSE {Last(single)}
        ELSE {e \in ToSet(Candidates) : u[s.el[e].u] # 0}

(* With two boundaries, after the periods up to start_compare (here         *)
(* y_kmin), the pivot is that of the previous period shifted by one.       *)
ReusedPivot == prob.two /\ sym /\ t > 1

ReusedRow == pivot[i - Size(prob)] + Size(prob)

(* The operations recorded: [op, first, second, lag].                       *)
Op(o, f, g, lag) == [op |-> o, first |-> f, second |-> g, lag |-> lag]
IFLD == 0
IFDIV == 1
IFLESS == 2
IFSUB == 3

(* nop: IFLD and IFDIV take two integers of the record, the others three.   *)
Nop(ops) == 2 * Len(ops)
            + Len(SelectSeq(ops, LAMBDA o : o.op \in {IFLESS, IFSUB}))

(* a = [s, u, ops]. The line of the pivot and its right-hand side are       *)
(* divided by the pivot.                                                   *)
DivideLine(a, pe) ==
  LET piv == a.u[a.s.el[pe].u]
      line == At_Row(a.s, a.s.el[pe].r)
      bp == b[a.s.el[pe].r]
  IN  [a EXCEPT
         !.u = [Fold(LAMBDA v, e : [v EXCEPT ![a.s.el[e].u] = Div(@, piv)],
                         a.u, line) EXCEPT ![bp] = Div(@, piv)],
         !.ops = @ \o <<Op(IFLD, a.s.el[pe].u, 0, 0)>>
                   \o [k \in 1..Len(line) |->
                         Op(IFDIV, a.s.el[line[k]].u, 0, a.s.el[line[k]].lag)]
                   \o <<Op(IFDIV, bp, 0, 0)>>]

(* One element of the pivot's line is subtracted from a row: deleted in the *)
(* pivot's column, subtracted from the row's element in a column both      *)
(* have, and otherwise inserted. The two lines are walked together.        *)
SubtractElem(a, pe, row, subs, elem, tmpLag) ==
  LET p == a.s.el[pe]
      both == {e \in ToSet(subs) : a.s.el[e].c = p.c}
      g == Get_u(a.s)
      lag == IF p.lag > Abs(tmpLag) THEN p.lag ELSE Abs(tmpLag)
  IN  IF both = {}
        THEN [s |-> Insert(g.s, row, p.c, g.i,
                           p.c \div Size(prob) - row \div Size(prob)),
              u |-> [a.u EXCEPT ![g.i] = Mod(-(a.u[p.u] * elem))],
              ops |-> Append(a.ops, Op(IFLESS, g.i, p.u, lag))]
        ELSE IF p.c = i
          THEN [a EXCEPT !.s = Delete(a.s, row, p.c)]
          ELSE LET q == a.s.el[CHOOSE e \in both : TRUE]
               IN  [a EXCEPT !.u[q.u] = Mod(@ - a.u[p.u] * elem),
                             !.ops = Append(@, Op(IFSUB, q.u, p.u, lag))]

(* The whole row, and its right-hand side.                                  *)
SubtractLine(a, e, pivj) ==
  LET row == a.s.el[e].r
      elem == a.u[a.s.el[e].u]
      subs == At_Row(a.s, row)
      tmpLag == a.s.el[subs[1]].lag
      start == [a EXCEPT !.ops = Append(@, Op(IFLD, a.s.el[e].u, 0,
                                              Abs(a.s.el[e].lag)))]
      end == Fold(LAMBDA x, pe :
                        SubtractElem(x, pe, row, subs, elem, tmpLag),
                      start, At_Row(a.s, pivj))
  IN  [end EXCEPT !.u[b[row]] = Mod(@ - end.u[b[pivj]] * elem),
                  !.ops = Append(@, Op(IFSUB, b[row], b[pivj], Abs(tmpLag)))]

(* All rows not done that have an element in column i, which are listed     *)
(* before the first of them is changed.                                    *)
SubtractLines(a, pivj, done) ==
  Fold(LAMBDA x, e : SubtractLine(x, e, pivj), a,
           SelectSeq(At_Col(a.s, i), LAMBDA e : ~done[a.s.el[e].r]))

(* One column of the elimination with pivot pe.                             *)
Eliminate(pe) ==
  LET pivj == s.el[pe].r
      done == [lineDone EXCEPT ![pivj] = TRUE]
      a == [s |-> s, u |-> u, ops |-> recorded.cur]
      z == SubtractLines(DivideLine(a, pe), pivj, done)
  IN  /\ pivot' = [pivot EXCEPT ![i] = pivj]
      /\ lineDone' = done
      /\ s' = z.s /\ u' = z.u
      /\ recorded' = [recorded EXCEPT !.cur = z.ops]

LastColumn == i = (t + 1) * Size(prob) - 1

NextColumn ==
  /\ pc' = IF ~LastColumn THEN pc ELSE IF prob.two THEN "period" ELSE "bksub"
  /\ i' = i + 1
  /\ UNCHANGED <<prob, b, t, sym, tbreak, y>>

(* The main step of both eliminations: a pivot is chosen and its column     *)
(* eliminated.                                                             *)
ChoosePivot ==
  /\ pc = "column" /\ sym /\ ~ReusedPivot
  /\ \E pe \in Pivots : Eliminate(pe)
  /\ NextColumn

ReusePivot ==
  /\ pc = "column" /\ ReusedPivot
  /\ HasPos(s, ReusedRow, i)
  /\ u[s.el[At_Pos(s, ReusedRow, i)].u] # 0
  /\ Eliminate(At_Pos(s, ReusedRow, i))
  /\ NextColumn

(* Once symbolic is false a pivot is still chosen (the first candidate if   *)
(* all are zero, the previous row if there is none) but nothing is         *)
(* eliminated.                                                             *)
PivotOnly ==
  /\ pc = "column" /\ ~sym
  /\ \E pivj \in IF Pivots # {} THEN {s.el[e].r : e \in Pivots}
                 ELSE IF Candidates # <<>> THEN {s.el[Candidates[1]].r}
                 ELSE {pivot[i - 1]} :
       /\ pivot' = [pivot EXCEPT ![i] = pivj]
       /\ lineDone' = [lineDone EXCEPT ![pivj] = TRUE]
  /\ UNCHANGED <<s, u, recorded>>
  /\ NextColumn

(* "singular system": no candidate is non-zero, or the reused pivot is      *)
(* zero.                                                                   *)
Singular ==
  /\ pc = "column" /\ sym
  /\ IF ReusedPivot
       THEN /\ HasPos(s, ReusedRow, i)
            /\ u[s.el[At_Pos(s, ReusedRow, i)].u] = 0
       ELSE Pivots = {}
  /\ pc' = "singular"
  /\ UNCHANGED <<prob, s, u, b, pivot, lineDone, t, i, sym, recorded, tbreak, y>>
-----------------------------------------------------------------------------
(* compare: the last three periods ran the same operations on slots of u    *)
(* that move by a constant from one period to the next.                    *)
SameOps(op, opa, opaa) ==
  /\ Len(op) <= Len(opa) /\ Len(op) <= Len(opaa)
  /\ \A k \in 1..Len(op) :
       /\ op[k].op = opa[k].op /\ opa[k].op = opaa[k].op
       /\ op[k].first - opa[k].first = opa[k].first - opaa[k].first
       /\ op[k].op \in {IFLESS, IFSUB} =>
            op[k].second - opa[k].second = opa[k].second - opaa[k].second

(* The slots of u an operation uses d periods later.                        *)
First(op, opa, k, d) == op[k].first + d * (op[k].first - opa[k].first)
Second(op, opa, k, d) == op[k].second + d * (op[k].second - opa[k].second)

(* One operation replayed; a = [u, r].                                      *)
ReplayOp(a, op, opa, k, d) ==
  LET f == First(op, opa, k, d)
      g == Second(op, opa, k, d)
  IN  CASE op[k].op = IFLD -> [a EXCEPT !.r = a.u[f]]
        [] op[k].op = IFDIV -> IF a.r = 0 THEN [a EXCEPT !.zero = TRUE]
                               ELSE [a EXCEPT !.u[f] = Div(@, a.r)]
        [] op[k].op = IFSUB -> [a EXCEPT !.u[f] = Mod(@ - a.u[g] * a.r)]
        [] op[k].op = IFLESS -> [a EXCEPT !.u[f] = Mod(-(a.u[g] * a.r))]

(* The record replayed d periods later. In the last y_kmax periods the      *)
(* operations that reach past the end are left out.                        *)
M_ReplayPeriod(a, op, opa, d) ==
  Fold(LAMBDA x, k : ReplayOp(x, op, opa, k, d),
           a, [k \in 1..Len(op) |-> k])

ReplayPeriod(a, op, opa, d) ==
  LET left == Periods - t
      t1 == IF left - 1 > 1 THEN left - 1 ELSE 1
  IN  Fold(LAMBDA x, k : IF d < t1 \/ op[k].lag < left - d
                               THEN ReplayOp(x, op, opa, k, d) ELSE x,
               a, [k \in 1..Len(op) |-> k])

Replay(op, opa) ==
  Fold(LAMBDA x, d : ReplayPeriod(x, op, opa, d),
           [u |-> u, r |-> 0, zero |-> FALSE],
           [d \in 1..(Periods - t - 1) |-> d])

(* u is enlarged when the slots of the last period are past its end.        *)
Enlarged(op, opa) ==
  LET last == {First(op, opa, k, Periods - t) : k \in 1..Len(op)}
  IN  IF Max(last) >= s.uAlloc THEN s.uAlloc + Max(last) ELSE s.uAlloc

Reach(op, opa) ==
  UNION {{First(op, opa, k, d), Second(op, opa, k, d)} :
           k \in 1..Len(op), d \in 1..(Periods - t - 1)}

(* A buffer freed; the null pointer may be freed.                           *)
Free(rec, ids) ==
  [rec EXCEPT !.freed = @ \o SelectSeq(ids, LAMBDA x : x # 0)]

(* The end of a period with symbolic true, up to the break.                 *)
nop == Nop(recorded.cur)
Late == t > (35 * Periods) \div 100
SaveOp ==   \* the buffer the period recorded into
  IF recorded.record
    THEN [id |-> recorded.bufs + 1, ops |-> recorded.cur] ELSE recorded.op
Recording == recorded.record /\ nop = recorded.nop1
Repeats == /\ Recording /\ recorded.opa.id # 0 /\ recorded.opaa.id # 0
           /\ SameOps(SaveOp.ops, recorded.opa.ops, recorded.opaa.ops)

(* symbolic is switched off after 35% of the periods.                       *)
SwitchOff ==
  /\ pc = "period" /\ sym /\ Late
  /\ sym' = FALSE
  /\ recorded' = Free([recorded EXCEPT !.cur = <<>>, !.nop1 = nop,
                                       !.op = SaveOp],
                      <<recorded.opaa.id, recorded.opa.id, SaveOp.id>>)
  /\ s' = Clear_u(s)
  /\ UNCHANGED <<u, pivot, tbreak>>
  /\ pc' = IF t + 1 = Periods THEN "bksub" ELSE "column"

(* compare succeeded: the remaining periods are replayed.                   *)
ReplayRest ==
  /\ pc = "period" /\ sym /\ ~Late /\ Repeats
  /\ LET r == Replay(SaveOp.ops, recorded.opa.ops)
     IN  /\ u' = r.u
         /\ s' = [s EXCEPT !.uAlloc = Enlarged(SaveOp.ops, recorded.opa.ops),
                           !.fault = \E k \in Reach(SaveOp.ops, recorded.opa.ops) :
                             k >= Enlarged(SaveOp.ops, recorded.opa.ops)]
         /\ pc' = IF r.zero THEN "singular" ELSE "bksub"
  /\ pivot' = [c \in DOMAIN pivot |->
                 IF c < t * TwoSize THEN pivot[c]
                 ELSE pivot[(t - 1) * TwoSize + (c % TwoSize)]
                      + (c \div TwoSize - t + 1) * TwoSize]
  /\ tbreak' = t
  /\ recorded' = Free([recorded EXCEPT !.op = SaveOp],
                      <<recorded.opaa.id, recorded.opa.id, SaveOp.id>>)
  /\ UNCHANGED sym

(* The record is dropped when a period ran another number of operations.    *)
DropRecord ==
  [Free(recorded, <<recorded.opa.id, recorded.opaa.id>>)
   EXCEPT !.cur = <<>>, !.record = FALSE, !.op = SaveOp, !.opa = NoBuf,
          !.opaa = NoBuf, !.nop1 = nop,
          !.bufs = IF recorded.record THEN @ + 1 ELSE @]

(* The record of the last two periods is kept or dropped.                   *)
EndPeriod ==
  /\ pc = "period" /\ ~(sym /\ (Late \/ Repeats))
  /\ recorded' =
       IF ~sym THEN recorded
       ELSE IF Recording
         THEN [Free(recorded, IF recorded.opa.id = 0 THEN <<>>
                              ELSE <<recorded.opaa.id>>)
               EXCEPT !.cur = <<>>, !.op = SaveOp, !.opa = SaveOp,
                      !.bufs = @ + 1,
                      !.opaa = IF recorded.opa.id = 0 THEN @ ELSE recorded.opa,
                      !.nop1 = nop]
       ELSE IF nop = recorded.nop1
         THEN [recorded EXCEPT !.cur = <<>>, !.record = TRUE, !.nop1 = nop]
         ELSE DropRecord
  /\ s' = Clear_u(s)
  /\ UNCHANGED <<u, pivot, sym, tbreak>>
  /\ pc' = IF t + 1 = Periods THEN "bksub" ELSE "column"

(* The next period starts with the slots of u given back so far forgotten.  *)
Period ==
  /\ SwitchOff \/ ReplayRest \/ EndPeriod
  /\ t' = t + 1
  /\ UNCHANGED <<prob, b, lineDone, i, y>>
-----------------------------------------------------------------------------
(* Backward substitution. y is indexed as the columns are; below 0 and from *)
(* NbRows on are the boundary values.                                      *)
Rest(c) == Tail(At_Row(s, pivot[c]))

StartY ==
  [c \in (-Size(prob))..(NbRows(prob) + Size(prob) - 1) |->
     IF c \in 0..(NbRows(prob) - 1) THEN 0
     ELSE Boundary(prob, c % Size(prob))]

(* simple_bksub and the loop of bksub.                                      *)
SubstituteRow(v, c) ==
  LET sum == Fold(LAMBDA acc, e : Mod(acc + v[s.el[e].c] * u[s.el[e].u]),
                      0, Rest(c))
  IN  [v EXCEPT ![c] = Mod(-(sum + u[b[pivot[c]]]))]

(* complete: the rows of the periods from tbreak on, with the columns and   *)
(* the slots of u of the rows of period tbreak moved as they moved between *)
(* tbreak - 1 and tbreak. Leads past the end are left out.                 *)
CompleteRow(v, c) ==
  LET ti == c \div TwoSize - tbreak
      c1 == tbreak * TwoSize + (c % TwoSize)
      now == Rest(c1)
      before == Rest(c1 - TwoSize)
      Y(k) == s.el[now[k]].c + ti * (s.el[now[k]].c - s.el[before[k]].c)
      U(k) == s.el[now[k]].u + ti * (s.el[now[k]].u - s.el[before[k]].u)
      B == b[pivot[c1]] + ti * (b[pivot[c1]] - b[pivot[c1 - TwoSize]])
      sum == Fold(LAMBDA acc, k :
                        IF Y(k) < NbRows(prob) /\ Y(k) > 0
                          THEN Mod(acc + v[Y(k)] * u[U(k)]) ELSE acc,
                      0, [k \in 1..Len(now) |-> k])
  IN  [v EXCEPT ![c] = Mod(-(sum + u[B]))]

Down(from, to) == [k \in 1..(from - to + 1) |-> from - k + 1]

Bksub ==
  /\ pc = "bksub"
  /\ LET last == IF tbreak = 0 THEN NbRows(prob) ELSE tbreak * TwoSize
         top == Fold(CompleteRow, StartY, Down(NbRows(prob) - 1, last))
     IN  y' = Fold(SubstituteRow, top, Down(last - 1, 0))
  /\ pc' = "done"
  /\ UNCHANGED <<prob, s, u, b, pivot, lineDone, t, i, sym, recorded, tbreak>>

Free_GE ==
  /\ pc = "done"
  /\ s' = End_GE(s)
  /\ pc' = "ended"
  /\ UNCHANGED <<prob, u, b, pivot, lineDone, t, i, sym, recorded, tbreak, y>>

Finished == pc \in {"ended", "singular"} /\ UNCHANGED vars

Next == ChoosePivot \/ ReusePivot \/ PivotOnly \/ Singular \/ Period \/ Bksub \/ Free_GE
        \/ Finished

Spec == Init /\ [][Next]_vars
-----------------------------------------------------------------------------
(* The lists of rows and of columns describe one matrix throughout the      *)
(* elimination, and no walk ever leaves them: Insert finds no list empty,  *)
(* which rests on the pivot rule for rows with a single element.           *)
MatrixConsistent == ListsAgree(s) /\ ~s.fault

(* No element and no slot of u serves twice, although Delete gives both     *)
(* back in the middle of the walk that then inserts.                       *)
SlotsNotShared == NoSharing(s, b)

(* No buffer of recorded operations is freed twice: save_op, save_opa and   *)
(* save_opaa may be the same buffer, or one that is freed already.         *)
NoDoubleFree == IsInjective(recorded.freed)

(* The residual of one equation of the system at the solution found.        *)
Residual(p, eq) ==
  Fold(LAMBDA acc, k :
    IF prob.im[k][1] # eq THEN acc
    ELSE Mod(acc + Coef(prob, p, eq, prob.im[k][2], prob.im[k][3])
                   * y[prob.im[k][2] + (p + prob.im[k][3]) * Size(prob)]),
    Rhs(prob, p, eq), [k \in 1..Len(prob.im) |-> k])

(* The Newton step solves the linearised system, with the lists changed     *)
(* under way, the pivots reused, the later periods replayed and back       *)
(* substituted from a record; for the runs in which every period was       *)
(* eliminated or replayed.                                                 *)
StepSolvesTheSystem ==
  pc = "done" /\ sym =>
    \A p \in 0..(NbPeriods(prob) - 1), eq \in 0..(Size(prob) - 1) :
      Residual(p, eq) = 0

(* The determinant of a matrix of three rows.                               *)
Det3(m) == Mod(m[0][0] * Mod(m[1][1] * m[2][2] - m[1][2] * m[2][1])
               - m[0][1] * Mod(m[1][0] * m[2][2] - m[1][2] * m[2][0])
               + m[0][2] * Mod(m[1][0] * m[2][1] - m[1][1] * m[2][0]))

(* A one-boundary block is called singular, and Gaussian elimination gives  *)
(* up with a message, only when its matrix is singular: not because of the  *)
(* order in which rows were taken as pivots.                                *)
SingularIsSingular ==
  pc = "singular" /\ ~prob.two /\ OneSize = 3 =>
    Det3([r \in 0..2 |-> [c \in 0..2 |->
           IF <<r, c, 0>> \in ToSet(prob.im) THEN Coef(prob, 0, r, c, 0)
           ELSE 0]]) = 0

(* However elements come and go in the middle of a walk (Insert, Delete,    *)
(* the chunks of Mem_Mngr, the buffers of recorded operations): rows and    *)
(* columns list the same matrix, no slot of u is shared, and nothing is     *)
(* freed twice.                                                             *)
MemoryIsConsistent ==
  /\ MatrixConsistent
  /\ SlotsNotShared
  /\ NoDoubleFree

(* Solve_ByteCode_Sparse_GaussianElimination and its symbolic version end   *)
(* with a Newton step that solves the linearised system, or call the block  *)
(* singular because its matrix is.                                          *)
EliminationIsExact ==
  /\ StepSolvesTheSystem
  /\ SingularIsSingular
============================================================================

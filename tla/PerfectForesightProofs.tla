----------------------- MODULE PerfectForesightProofs -----------------------
(***************************************************************************)
(* Proofs about PerfectForesight, for any number of threads and periods,    *)
(* any patterns of derivatives and any of them zero: residuals and Jacobian *)
(* are those of their periods whichever thread takes which, no element is   *)
(* written behind the end of the matrix, and the zeros are removed in place *)
(* without losing, mixing or misplacing anything else.                      *)
(***************************************************************************)
EXTENDS PerfectForesight, SumLemmas

\* The derivatives that the model's equations have by their form, zero or not:
\* of equation x[3][1] in period x[1], for variable x[3][2] of period x[2].
Pattern ==
  {x \in AllPeriods \X AllPeriods \X (Variables \X Variables) :
     RowFor(x) \in Rows /\ \E n \in DOMAIN ListOf(RowFor(x)) : ListOf(RowFor(x))[n] = x[3]}

IsZero(x) == <<x[3][1], Dynvar(RowFor(x), x[3][2])>> \in problem.zeros

ColumnOf(x) == x[2] * problem.ny + x[3][2]
RowOf(x) == x[1] * problem.ny + x[3][1]
ValueIn(x) == IF IsZero(x) THEN ZeroElement ELSE DerivativeOf(x)

\* The residuals of period T are there, its derivatives are.
Evaluated(T) == T \notin unassigned /\ \A t \in Threads : place[t].T = T => place[t].step # "eval"
Stored(T) == T \notin unassigned /\ \A t \in Threads : place[t].T = T => place[t].step = "next"

\* P is where the elements of column c are, in the order of their rows; those
\* in N are not zero.
ColumnIs(c, P, N) ==
  /\ \A k, m \in P : k < m => ir[k] < ir[m]
  /\ \A k \in P : \E x \in Pattern :
       /\ ColumnOf(x) = c /\ ir[k] = RowOf(x)
       /\ Stored(x[1]) => stacked_jacobian[k] = ValueIn(x)
       /\ k \in N => ~IsZero(x)
  /\ \A x \in Pattern : ColumnOf(x) = c /\ ~IsZero(x) => \E k \in P : ir[k] = RowOf(x)

Bounds(c) == (jc[c + 1] + 1)..jc[c + 2]

Lists == {"fwrd", "current", "pred"}

\* List l has elements in the period of the column.
InUse(l) == PeriodOf(col) + Shift[l] \in AllPeriods

\* Element n of list l is in the column, in this row of the matrix.
IsHere(l, n) == InUse(l) /\ problem[l][n][2] = VariableOf(col)
RowHere(l, n) == (PeriodOf(col) + Shift[l]) * problem.ny + problem[l][n][1]

\* The lists are used up to the column.
CursorsFit ==
  /\ row \in [Lists -> Nat]
  /\ \A l \in Lists :
       /\ row[l] <= Len(problem[l])
       /\ ~InUse(l) => row[l] = 0
       /\ \A n \in 1..row[l] : problem[l][n][2] <= VariableOf(col)
       /\ \A n \in (row[l] + 1)..Len(problem[l]) : InUse(l) => problem[l][n][2] >= VariableOf(col)

\* The column that is being filled has the elements used, list by list.
OpenColumn ==
  LET P == (jc[col + 1] + 1)..Len(ir)
  IN  /\ \A k, m \in P : k < m => ir[k] < ir[m]
      /\ \A k \in P : \E l \in Lists : \E n \in 1..row[l] : IsHere(l, n) /\ ir[k] = RowHere(l, n)
      /\ \A l \in Lists : \A n \in 1..row[l] : IsHere(l, n) => \E k \in P : ir[k] = RowHere(l, n)
      /\ \A l, m \in Lists : \A n \in 1..row[l] :
           Shift[m] < Shift[l] /\ IsHere(l, n) => ~HasNext(m)

\* How often each list was used in the periods before S.
TimesUsed(l, S) ==
  IF (l = "fwrd" /\ S > 0) \/ (l = "pred" /\ S = problem.periods) THEN S - 1 ELSE S

Counted(l) == TimesUsed(l, PeriodOf(col)) * Len(problem[l]) + row[l]

PatternGrows ==
  /\ col \in 0..Columns /\ Len(jc) = col + 1
  /\ col = Columns => jc[col + 1] = Len(ir)
  /\ \A c \in 0..(col - 1) : ColumnIs(c, Bounds(c), {})
  /\ CursorsFit /\ OpenColumn
  /\ Len(ir) = Counted("fwrd") + Counted("current") + Counted("pred")

PatternIsComplete ==
  /\ Len(jc) = Columns + 1 /\ jc[Columns + 1] = Len(ir)
  /\ \A c \in 0..(Columns - 1) : ColumnIs(c, Bounds(c), {})

\* Where the elements of column c are while zeros are removed, and which of
\* them have moved.
Remaining(c) == IF c = col THEN ((jc[c + 1] + 1)..k_new) \cup ((k_orig + 1)..jc[c + 2]) ELSE Bounds(c)
Moved(c) == IF c < col THEN Bounds(c) ELSE IF c = col THEN (jc[c + 1] + 1)..k_new ELSE {}

ZerosGo ==
  /\ Len(jc) = Columns + 1
  /\ col \in 0..Columns /\ k_new \in Nat /\ k_orig \in Nat
  /\ k_new <= k_orig /\ k_orig <= Len(ir) /\ jc[col + 1] <= k_new
  /\ col < Columns => k_orig <= jc[col + 2]
  /\ col = Columns => jc[Columns + 1] = k_new
  /\ \A c \in 0..(Columns - 1) : ColumnIs(c, Remaining(c), Moved(c))

\* The bounds of the columns, and the sizes.
SizesFit ==
  /\ ir \in Seq(Int) /\ jc \in Seq(Nat) /\ jc # <<>> /\ jc[1] = 0
  /\ \A m, n \in DOMAIN jc : m <= n => jc[m] <= jc[n]
  /\ \A n \in DOMAIN jc : jc[n] <= Len(ir)
  /\ phase # "pattern" => stacked_jacobian = [k \in 1..Len(ir) |-> stacked_jacobian[k]]
  /\ ir # <<>> => Len(ir) <= nzmax

JacobianInv ==
  problem.jacobian =>
    /\ SizesFit
    /\ phase = "pattern" => PatternGrows
    /\ phase = "parallel" => PatternIsComplete
    /\ phase \in {"clean", "returned"} => ZerosGo
    /\ phase = "returned" => col = Columns
    /\ phase \in {"pattern", "parallel"} => k_orig = 0 /\ k_new = 0

Steps == {"eval", "store", "next"}

\* Each period is with one thread, with its own variables.
ThreadsInStep ==
  /\ phase = "pattern" => unassigned = AllPeriods
  /\ phase \notin {"pattern", "parallel", "off"} => unassigned = {}
  /\ phase # "parallel" => \A t \in Threads : place[t] = Idle
  /\ unassigned \subseteq AllPeriods
  /\ place \in [Threads -> {Idle} \cup [T : AllPeriods, step : Steps]]
  /\ \A t, u \in Threads : place[t].T = place[u].T => t = u \/ place[t] = Idle
  /\ \A t \in Threads : place[t].T \notin unassigned

\* The values of the dynamic variables, as a function of the problem.
InputsOf(p, T) ==
  [v \in 1..p.ndynvars |->
     LET ji == CHOOSE ji \in (0..(p.maximum_endo_lag + 1)) \X (0..(p.ny - 1)) :
                 p.lli[ji[1] + 1][ji[2] + 1] = v
         S == T + ji[1] - p.maximum_endo_lag
     IN  IF S = -1 THEN <<"y0", ji[2]>>
         ELSE IF S = p.periods THEN <<"yT", ji[2]>>
         ELSE <<"y", S, ji[2]>>]

\* The derivatives of period T.
DerivativesOf(p, T) == IF p.linear THEN <<"g1">> ELSE <<"g1", T + p.lag, InputsOf(p, T)>>

\* What a caller holds in period T, before step s.
CallerFits(p, c, T, s) ==
  /\ DOMAIN c = {"y", "compute_jacobian", "jacobian"}
  /\ c.compute_jacobian \in BOOLEAN
  /\ s = "eval" => c.y = InputsOf(p, T)
  /\ c.compute_jacobian => p.jacobian
  /\ p.jacobian /\ ~c.compute_jacobian => p.linear /\ c.jacobian = <<"g1">>
  /\ s = "store" => p.jacobian /\ c.jacobian = DerivativesOf(p, T)

CallersFit ==
  /\ callers = [t \in Threads |-> callers[t]]
  /\ \A t \in Threads : CallerFits(problem, callers[t], place[t].T, place[t].step)

ResidualsFit ==
  /\ stacked_residual = [T \in AllPeriods |-> stacked_residual[T]]
  /\ \A T \in AllPeriods : Evaluated(T) =>
       stacked_residual[T] = <<"resid", T + problem.lag, Inputs(T)>>

Phases == {"pattern", "parallel", "clean", "returned", "error", "off"}

ThreadInv ==
  /\ problem \in Problems /\ phase \in Phases
  /\ ThreadsInStep /\ CallersFit /\ ResidualsFit

\* Without the Jacobian nothing is stored.
NoMatrix == ~problem.jacobian => ir = <<>> /\ phase # "clean"

IInv == ThreadInv /\ JacobianInv /\ NoMatrix
-----------------------------------------------------------------------------
(* Columns, rows and lists *)

\* Different multiples are apart.
LEMMA Multiples ==
  ASSUME NEW n \in Nat \ {0}, NEW p \in Int, NEW q \in Int, p < q
  PROVE  p * n + n <= q * n
<1>1. (q - p - 1) * n >= 0
  OBVIOUS
<1> QED
  BY <1>1

\* Quotient and remainder of what was composed.
LEMMA Division ==
  ASSUME NEW n \in Nat \ {0}, NEW q \in Int, NEW r \in 0..(n - 1)
  PROVE  (q * n + r) \div n = q /\ (q * n + r) % n = r
<1> DEFINE c == q * n + r
           d == c \div n
           m == c % n
<1>1. c \in Int /\ d \in Int /\ m \in 0..(n - 1) /\ c = d * n + m
  OBVIOUS
<1>2. d = q
  BY <1>1, Multiples
<1> QED
  BY <1>1, <1>2

\* A number is composed of its quotient and its remainder.
LEMMA Divided ==
  ASSUME NEW n \in Nat \ {0}, NEW c \in Nat
  PROVE  /\ c \div n \in Nat /\ c % n \in 0..(n - 1)
         /\ c = (c \div n) * n + (c % n)
<1>1. c \div n \in Int /\ c % n \in 0..(n - 1) /\ c = (c \div n) * n + (c % n)
  OBVIOUS
<1>2. c \div n >= 0
  BY <1>1, Multiples
<1> QED
  BY <1>1, <1>2

\* What is known of a problem.
LEMMA ProblemFacts ==
  ASSUME problem \in Problems
  PROVE  /\ problem.ny \in Nat \ {0} /\ problem.periods \in Nat
         /\ problem.maximum_endo_lag \in {0, 1} /\ problem.lag \in Nat
         /\ problem.maximum_endo_lag = 0 => problem.pred = <<>>
         /\ problem.jacobian \in BOOLEAN /\ problem.linear \in BOOLEAN
         /\ Columns \in Nat
         /\ \A l \in Lists : IsPattern(problem, problem[l])
BY ForesightAssumption DEF IsProblem, Columns, Lists

\* Elements of the lists.
LEMMA ListFacts ==
  ASSUME problem \in Problems, NEW l \in Lists
  PROVE  /\ problem[l] \in Seq(Variables \X Variables) /\ Len(problem[l]) \in Nat
         /\ DOMAIN problem[l] = 1..Len(problem[l])
         /\ \A n \in 1..Len(problem[l]) :
              /\ problem[l][n] \in Variables \X Variables
              /\ problem[l][n][1] \in Variables /\ problem[l][n][2] \in Variables
              /\ problem[l][n] = <<problem[l][n][1], problem[l][n][2]>>
         /\ \A m, n \in 1..Len(problem[l]) :
              m < n => \/ problem[l][m][2] < problem[l][n][2]
                       \/ problem[l][m][2] = problem[l][n][2] /\ problem[l][m][1] < problem[l][n][1]
<1>1. IsPattern(problem, problem[l])
  BY ProblemFacts
<1> DEFINE list == problem[l]
<1>2. /\ list \in Seq(Variables \X Variables)
      /\ \A m, n \in DOMAIN list :
           m < n => \/ list[m][2] < list[n][2]
                    \/ list[m][2] = list[n][2] /\ list[m][1] < list[n][1]
  BY <1>1 DEF IsPattern, Variables
<1> HIDE DEF list
<1>3. DOMAIN list = 1..Len(list) /\ Len(list) \in Nat
  BY <1>2
<1>4. \A n \in 1..Len(list) : list[n] \in Variables \X Variables
  BY <1>2, <1>3
<1>5. \A n \in 1..Len(list) : /\ list[n][1] \in Variables /\ list[n][2] \in Variables
                              /\ list[n] = <<list[n][1], list[n][2]>>
  BY <1>4
<1> QED
  BY <1>2, <1>3, <1>4, <1>5 DEF list

\* The parts of a derivative.
LEMMA PatternFacts ==
  ASSUME problem \in Problems, NEW x \in Pattern
  PROVE  /\ x[1] \in AllPeriods /\ x[2] \in AllPeriods
         /\ x[3][1] \in Variables /\ x[3][2] \in Variables
         /\ x = <<x[1], x[2], <<x[3][1], x[3][2]>>>>
         /\ RowFor(x) \in Rows
         /\ x[1] \in Nat /\ x[2] \in Nat /\ x[3][1] \in Nat /\ x[3][2] \in Nat
         /\ x[1] < problem.periods /\ x[2] < problem.periods
         /\ x[3][1] < problem.ny /\ x[3][2] < problem.ny
<1>1. x \in AllPeriods \X AllPeriods \X (Variables \X Variables) /\ RowFor(x) \in Rows
  BY DEF Pattern
<1>2. /\ x[1] \in AllPeriods /\ x[2] \in AllPeriods
      /\ x[3][1] \in Variables /\ x[3][2] \in Variables
      /\ x = <<x[1], x[2], <<x[3][1], x[3][2]>>>>
  BY <1>1
<1> QED
  BY <1>1, <1>2, ProblemFacts DEF AllPeriods, Variables

\* Where a derivative belongs.
LEMMA PlaceFacts ==
  ASSUME problem \in Problems, NEW x \in Pattern
  PROVE  /\ ColumnOf(x) \in 0..(Columns - 1) /\ RowOf(x) \in Nat
         /\ PeriodOf(ColumnOf(x)) = x[2] /\ VariableOf(ColumnOf(x)) = x[3][2]
         /\ RowOf(x) >= x[1] * problem.ny /\ RowOf(x) < x[1] * problem.ny + problem.ny
         /\ RowOf(x) - x[1] * problem.ny = x[3][1]
<1> DEFINE ny == problem.ny
           T == x[1]
           S == x[2]
           e == x[3][1]
           v == x[3][2]
<1>1. /\ ny \in Nat \ {0} /\ problem.periods \in Nat /\ T \in Nat /\ S \in Nat /\ S \in Int
      /\ S < problem.periods /\ e \in 0..(ny - 1) /\ v \in 0..(ny - 1)
  BY ProblemFacts, PatternFacts DEF Variables
<1>2. ColumnOf(x) = S * ny + v /\ RowOf(x) = T * ny + e /\ Columns = problem.periods * ny
  BY DEF ColumnOf, RowOf, Columns
<1> HIDE DEF ny, T, S, e, v
<1>3. (S * ny + v) \div ny = S /\ (S * ny + v) % ny = v
  BY <1>1, Division
<1>4. S * ny + ny <= problem.periods * ny
  BY <1>1, Multiples
<1>5. S * ny \in Nat /\ T * ny \in Nat /\ problem.periods * ny \in Nat
  BY <1>1
<1>6. PeriodOf(ColumnOf(x)) = S /\ VariableOf(ColumnOf(x)) = v
  BY <1>2, <1>3 DEF PeriodOf, VariableOf, ny
<1>7. ColumnOf(x) \in 0..(Columns - 1) /\ RowOf(x) \in Nat
  BY <1>1, <1>2, <1>4, <1>5
<1>8. RowOf(x) >= T * ny /\ RowOf(x) < T * ny + ny /\ RowOf(x) - T * ny = e
  BY <1>1, <1>2, <1>5
<1> QED
  BY <1>6, <1>7, <1>8 DEF ny, T, S, e, v

\* Each place has one derivative.
LEMMA OneDerivative ==
  ASSUME problem \in Problems, NEW x \in Pattern, NEW y \in Pattern,
         ColumnOf(x) = ColumnOf(y), RowOf(x) = RowOf(y)
  PROVE  x = y
<1>1. x[2] = y[2] /\ x[3][2] = y[3][2]
  BY PlaceFacts
<1>2. /\ problem.ny \in Nat \ {0} /\ x[1] \in Int /\ y[1] \in Int
      /\ x[3][1] \in 0..(problem.ny - 1) /\ y[3][1] \in 0..(problem.ny - 1)
  BY ProblemFacts, PatternFacts
<1>3. x[1] * problem.ny + x[3][1] = y[1] * problem.ny + y[3][1]
  BY DEF RowOf
<1>4. /\ (x[1] * problem.ny + x[3][1]) \div problem.ny = x[1]
      /\ (x[1] * problem.ny + x[3][1]) % problem.ny = x[3][1]
  BY <1>2, Division
<1>5. /\ (y[1] * problem.ny + y[3][1]) \div problem.ny = y[1]
      /\ (y[1] * problem.ny + y[3][1]) % problem.ny = y[3][1]
  BY <1>2, Division
<1>6. x[1] = y[1] /\ x[3][1] = y[3][1]
  BY <1>3, <1>4, <1>5
<1> QED
  BY <1>1, <1>6, PatternFacts

\* Rows of later periods are later.
LEMMA RowsInOrder ==
  ASSUME NEW n \in Nat \ {0}, NEW p \in Int, NEW q \in Int, p < q,
         NEW e \in 0..(n - 1), NEW f \in 0..(n - 1)
  PROVE  p * n + e < q * n + f
<1>1. p * n + n <= q * n
  BY Multiples
<1>2. p * n \in Int /\ q * n \in Int
  OBVIOUS
<1> QED
  BY <1>1, <1>2

\* No derivative is the zero element.
LEMMA NotZero ==
  ASSUME NEW x
  PROVE  DerivativeOf(x) # ZeroElement
<1>1. Len(ZeroElement) = 1
  BY DEF ZeroElement
<1>2. Len(DerivativeOf(x)) = 3
  BY DEF DerivativeOf
<1> QED
  BY <1>1, <1>2

\* Shifts of the lists.
LEMMA Shifts ==
  /\ Shift["fwrd"] = -1 /\ Shift["current"] = 0 /\ Shift["pred"] = 1
  /\ \A l \in Lists : Shift[l] \in {-1, 0, 1}
BY DEF Shift, Lists

\* An element of a list gives a derivative in every period it is used.
LEMMA OfList ==
  ASSUME problem \in Problems, NEW l \in Lists, NEW n \in 1..Len(problem[l]),
         NEW S \in AllPeriods, S + Shift[l] \in AllPeriods
  PROVE  <<S + Shift[l], S, problem[l][n]>> \in Pattern
<1> DEFINE x == <<S + Shift[l], S, problem[l][n]>>
<1>1. problem[l][n] \in Variables \X Variables /\ n \in DOMAIN problem[l]
  BY ListFacts
<1>2. x \in AllPeriods \X AllPeriods \X (Variables \X Variables)
  BY <1>1
<1>3. S \in Int /\ problem.maximum_endo_lag \in {0, 1}
  BY ProblemFacts DEF AllPeriods
<1>4. RowFor(x) = problem.maximum_endo_lag - Shift[l]
  BY <1>3, Shifts DEF RowFor
<1>5. CASE l = "fwrd"
  <2>1. RowFor(x) = problem.maximum_endo_lag + 1
    BY <1>3, <1>4, <1>5, Shifts
  <2>2. RowFor(x) \in Rows /\ ListOf(RowFor(x)) = problem[l]
    BY <1>3, <1>5, <2>1 DEF Rows, ListOf
  <2> QED
    BY <1>1, <1>2, <2>2 DEF Pattern
<1>6. CASE l = "current"
  <2>1. RowFor(x) = problem.maximum_endo_lag
    BY <1>3, <1>4, <1>6, Shifts
  <2>2. RowFor(x) \in Rows /\ ListOf(RowFor(x)) = problem[l]
    BY <1>3, <1>6, <2>1 DEF Rows, ListOf
  <2> QED
    BY <1>1, <1>2, <2>2 DEF Pattern
<1>7. CASE l = "pred"
  <2>1. problem.maximum_endo_lag = 1
    <3>1. Len(problem.pred) > 0
      BY <1>7, ListFacts
    <3> QED
      BY <3>1, ProblemFacts
  <2>2. RowFor(x) = 0
    BY <1>4, <1>7, <2>1, Shifts
  <2>3. RowFor(x) \in Rows /\ ListOf(RowFor(x)) = problem[l]
    BY <1>7, <2>1, <2>2 DEF Rows, ListOf
  <2> QED
    BY <1>1, <1>2, <2>3 DEF Pattern
<1> QED
  BY <1>5, <1>6, <1>7 DEF Lists

\* Every derivative comes from one of the lists.
LEMMA InList ==
  ASSUME problem \in Problems, NEW x \in Pattern
  PROVE  \E l \in Lists : \E n \in 1..Len(problem[l]) :
           x[1] = x[2] + Shift[l] /\ problem[l][n] = x[3]
<1> DEFINE mel == problem.maximum_endo_lag
<1>1. mel \in {0, 1} /\ x[1] \in Int /\ x[2] \in Int /\ RowFor(x) \in 0..(mel + 1)
  BY ProblemFacts, PatternFacts DEF Rows
<1>2. RowFor(x) = x[2] - x[1] + mel
  BY DEF RowFor
<1>3. PICK n \in DOMAIN ListOf(RowFor(x)) : ListOf(RowFor(x))[n] = x[3]
  BY DEF Pattern
<1>4. \A l \in Lists : DOMAIN problem[l] = 1..Len(problem[l])
  BY ListFacts
<1> HIDE DEF mel
<1>5. CASE RowFor(x) = mel
  <2>1. ListOf(RowFor(x)) = problem["current"]
    BY <1>5 DEF ListOf, mel
  <2>2. x[1] = x[2] + Shift["current"]
    BY <1>1, <1>2, <1>5, Shifts
  <2> QED
    BY <1>3, <1>4, <2>1, <2>2 DEF Lists
<1>6. CASE RowFor(x) > mel
  <2>1. ListOf(RowFor(x)) = problem["fwrd"] /\ x[1] = x[2] + Shift["fwrd"]
    BY <1>1, <1>2, <1>6, Shifts DEF ListOf, mel
  <2> QED
    BY <1>3, <1>4, <2>1 DEF Lists
<1>7. CASE RowFor(x) < mel
  <2>1. ListOf(RowFor(x)) = problem["pred"] /\ x[1] = x[2] + Shift["pred"]
    BY <1>1, <1>2, <1>7, Shifts DEF ListOf, mel
  <2> QED
    BY <1>3, <1>4, <2>1 DEF Lists
<1> QED
  BY <1>1, <1>5, <1>6, <1>7

-----------------------------------------------------------------------------
(* The threads and their residuals *)

\* What depends on the problem alone.
LEMMA SameProblem ==
  ASSUME UNCHANGED problem
  PROVE  /\ AllPeriods' = AllPeriods /\ Variables' = Variables /\ Columns' = Columns
         /\ Rows' = Rows /\ Pattern' = Pattern /\ nzmax' = nzmax
         /\ \A T : Inputs(T)' = Inputs(T) /\ Inputs(T) = InputsOf(problem, T)
         /\ \A x : /\ ColumnOf(x)' = ColumnOf(x) /\ RowOf(x)' = RowOf(x)
                   /\ IsZero(x)' = IsZero(x) /\ ValueIn(x)' = ValueIn(x)
<1>1. /\ AllPeriods' = AllPeriods /\ Variables' = Variables /\ Columns' = Columns
      /\ Rows' = Rows /\ nzmax' = nzmax
  BY DEF AllPeriods, Variables, Columns, Rows, nzmax
<1>2. \A j, i : Dynvar(j, i)' = Dynvar(j, i)
  BY DEF Dynvar
<1>3. \A T, j, i : ValueOf(T, j, i)' = ValueOf(T, j, i)
  BY DEF ValueOf
<1>4. \A T : Inputs(T)' = Inputs(T) /\ Inputs(T) = InputsOf(problem, T)
  <2>1. \A T : Inputs(T) = InputsOf(problem, T)
    BY DEF Inputs, InputsOf, Dynvar, ValueOf, Rows, Variables
  <2>2. \A T : Inputs(T)' = InputsOf(problem', T)
    BY DEF Inputs, InputsOf, Dynvar, ValueOf, Rows, Variables
  <2> QED
    BY <2>1, <2>2
<1>5. \A x : RowFor(x)' = RowFor(x)
  BY DEF RowFor
<1>6. \A j : ListOf(j)' = ListOf(j)
  BY DEF ListOf
<1>7. Pattern' = Pattern
  BY <1>1, <1>5, <1>6 DEF Pattern
<1>8. \A x : ColumnOf(x)' = ColumnOf(x) /\ RowOf(x)' = RowOf(x)
  BY DEF ColumnOf, RowOf
<1>9. \A x : IsZero(x)' = IsZero(x)
  BY <1>2, <1>5 DEF IsZero
<1>10. \A x : DerivativeOf(x)' = DerivativeOf(x)
  BY <1>2, <1>4, <1>5 DEF DerivativeOf
<1>11. \A x : ValueIn(x)' = ValueIn(x)
  BY <1>9, <1>10 DEF ValueIn, ZeroElement
<1> QED
  BY <1>1, <1>4, <1>7, <1>8, <1>9, <1>11

\* Places of threads.
LEMMA PlaceOf ==
  ASSUME ThreadsInStep, NEW t \in Threads
  PROVE  /\ place[t] = Idle \/ (place[t].T \in AllPeriods /\ place[t].step \in Steps)
         /\ place[t] = [T |-> place[t].T, step |-> place[t].step]
         /\ place[t].step \in Steps => place[t] # Idle
         /\ place[t].step \notin Steps => place[t] = Idle
BY DEF ThreadsInStep, Idle, Steps

\* At first no thread has begun.
LEMMA InitThreads == ForesightInit => ThreadInv
<1> SUFFICES ASSUME ForesightInit PROVE ThreadInv
  OBVIOUS
<1>1. \A t \in Threads : place[t] = Idle
  BY DEF ForesightInit
<1>2. ThreadsInStep
  BY <1>1 DEF ForesightInit, ThreadsInStep, Idle, AllPeriods
<1>3. \A t \in Threads : callers[t] = NewCaller(problem)
  BY DEF ForesightInit
<1>4. ASSUME NEW t \in Threads
      PROVE  CallerFits(problem, callers[t], place[t].T, place[t].step)
  <2>1. problem.jacobian \in BOOLEAN
    BY ProblemFacts DEF ForesightInit
  <2> QED
    BY <1>1, <1>3, <2>1 DEF CallerFits, NewCaller, Idle
<1>5. CallersFit
  BY <1>4 DEF ForesightInit, CallersFit
<1>6. ResidualsFit
  BY DEF ForesightInit, ResidualsFit, Evaluated
<1> QED
  BY <1>2, <1>5, <1>6 DEF ThreadInv, ForesightInit, Phases

\* A caller is given a period.
LEMMA CopyFits ==
  ASSUME NEW p, NEW c, NEW T, NEW U, CallerFits(p, c, U, "idle")
  PROVE  CallerFits(p, [c EXCEPT !.y = InputsOf(p, T)], T, "eval")
<1> DEFINE d == [c EXCEPT !.y = InputsOf(p, T)]
<1>1. /\ DOMAIN d = {"y", "compute_jacobian", "jacobian"} /\ d.y = InputsOf(p, T)
      /\ d.compute_jacobian = c.compute_jacobian /\ d.jacobian = c.jacobian
  BY DEF CallerFits
<1> HIDE DEF d
<1>2. CallerFits(p, d, T, "eval")
  BY <1>1 DEF CallerFits
<1> QED
  BY <1>2 DEF d

\* It evaluates the model.
Evaluates(p, c, T) ==
  IF ~c.compute_jacobian THEN c
  ELSE [c EXCEPT !.jacobian = IF p.linear THEN <<"g1">> ELSE <<"g1", T + p.lag, c.y>>,
                 !.compute_jacobian = ~p.linear]

LEMMA EvalFits ==
  ASSUME NEW p \in Problems, NEW c, NEW T, CallerFits(p, c, T, "eval"),
         NEW s, s = IF p.jacobian THEN "store" ELSE "next"
  PROVE  CallerFits(p, Evaluates(p, c, T), T, s)
<1>1. p.linear \in BOOLEAN /\ p.jacobian \in BOOLEAN
  BY ForesightAssumption DEF IsProblem
<1>2. CASE ~c.compute_jacobian
  <2>1. Evaluates(p, c, T) = c
    BY <1>2 DEF Evaluates
  <2>2. s # "eval" /\ (s = "store" => p.jacobian)
    BY <1>1
  <2>3. p.jacobian => c.jacobian = DerivativesOf(p, T)
    BY <1>2 DEF CallerFits, DerivativesOf
  <2> QED
    BY <1>2, <2>1, <2>2, <2>3 DEF CallerFits
<1>3. CASE c.compute_jacobian
  <2> DEFINE g == DerivativesOf(p, T)
             d == [c EXCEPT !.jacobian = g, !.compute_jacobian = ~p.linear]
  <2>1. Evaluates(p, c, T) = d
    BY <1>3 DEF Evaluates, DerivativesOf, CallerFits
  <2>2. p.jacobian /\ s = "store"
    BY <1>3 DEF CallerFits
  <2>3. DOMAIN c = {"y", "compute_jacobian", "jacobian"}
    BY DEF CallerFits
  <2>4. DOMAIN d = {"y", "compute_jacobian", "jacobian"} /\ d.jacobian = g
    BY <2>3
  <2>5. d.compute_jacobian = ~p.linear
    BY <2>3
  <2> HIDE DEF d
  <2>6. p.linear => g = <<"g1">>
    BY DEF DerivativesOf
  <2> HIDE DEF g
  <2>7. d.compute_jacobian \in BOOLEAN /\ (~d.compute_jacobian => p.linear)
    BY <1>1, <2>5
  <2>8. CallerFits(p, d, T, s)
    BY <2>2, <2>4, <2>6, <2>7 DEF CallerFits, g
  <2> QED
    BY <2>1, <2>8
<1> QED
  BY <1>2, <1>3 DEF CallerFits

\* It is done with the period.
LEMMA NextFits ==
  ASSUME NEW p, NEW c, NEW T, NEW U, NEW s, NEW r, r \notin {"eval", "store"}, CallerFits(p, c, T, s)
  PROVE  CallerFits(p, c, U, r)
BY DEF CallerFits

\* The main thread leaves the others alone.
LEMMA SerialThreads ==
  ASSUME ThreadInv, UNCHANGED <<problem, parallel>>,
         \/ UNCHANGED phase
         \/ phase = "pattern" /\ phase' = "parallel"
         \/ phase = "clean" /\ phase' = "returned"
         \/ /\ phase = "parallel" /\ phase' \in {"error", "clean", "returned"}
            /\ unassigned = {} /\ \A t \in Threads : place[t] = Idle
  PROVE  ThreadInv'
<1>1. problem' \in Problems /\ phase' \in Phases
  BY DEF ThreadInv, Phases
<1>2. ThreadsInStep'
  BY SameProblem DEF ThreadInv, ThreadsInStep, parallel, Steps, Idle
<1>3. CallersFit'
  BY SameProblem DEF ThreadInv, CallersFit, parallel
<1>4. \A T : Evaluated(T)' = Evaluated(T)
  BY DEF Evaluated, parallel
<1>5. ResidualsFit'
  BY SameProblem, <1>4 DEF ThreadInv, ResidualsFit, parallel
<1> QED
  BY <1>1, <1>2, <1>3, <1>5 DEF ThreadInv

\* A thread begins one of the periods that are left.
LEMMA CopyThreads ==
  ASSUME ThreadInv, NEW t \in Threads, CopyValues(t)
  PROVE  ThreadInv'
<1> USE DEF ThreadInv
<1>1. PICK T \in unassigned :
        /\ unassigned' = unassigned \ {T}
        /\ place' = [place EXCEPT ![t] = [T |-> T, step |-> "eval"]]
        /\ callers' = [callers EXCEPT ![t].y = Inputs(T)]
  BY DEF CopyValues, CallerOf
<1>2. UNCHANGED <<problem, phase, stacked_residual>> /\ phase = "parallel" /\ place[t] = Idle
  BY DEF CopyValues
<1>3. T \in AllPeriods /\ T # -1
  BY <1>1, ProblemFacts DEF ThreadsInStep, AllPeriods
<1>4. place'[t] = [T |-> T, step |-> "eval"] /\ \A u \in Threads : u # t => place'[u] = place[u]
  BY <1>1 DEF ThreadsInStep
<1>5. ThreadsInStep'
  <2>1. place' \in [Threads -> {Idle} \cup [T : AllPeriods, step : Steps]]'
    BY <1>1, <1>2, <1>3, SameProblem DEF ThreadsInStep, Steps, Idle
  <2>2. \A u \in Threads : place[u].T # T
    BY <1>1 DEF ThreadsInStep
  <2>3. ASSUME NEW u \in Threads, NEW w \in Threads, place'[u].T = place'[w].T
        PROVE  u = w \/ place'[u] = Idle'
    BY <1>4, <2>2, <2>3 DEF ThreadsInStep, Idle
  <2>4. \A u \in Threads : place'[u].T \notin unassigned'
    BY <1>1, <1>4 DEF ThreadsInStep
  <2>5. unassigned' \subseteq AllPeriods'
    BY <1>1, <1>2, SameProblem DEF ThreadsInStep
  <2> QED
    BY <1>2, <2>1, <2>3, <2>4, <2>5 DEF ThreadsInStep
<1>6. /\ callers' = [u \in Threads |-> callers'[u]]
      /\ callers'[t] = [callers[t] EXCEPT !.y = InputsOf(problem, T)]
      /\ \A u \in Threads : u # t => callers'[u] = callers[u]
  BY <1>1, <1>2, SameProblem DEF CallersFit
<1>7. CallersFit'
  <2>1. CallerFits(problem, callers[t], place[t].T, "idle")
    BY <1>2 DEF CallersFit, Idle
  <2>2. CallerFits(problem, callers'[t], T, "eval")
    BY <1>6, <2>1, CopyFits
  <2>3. \A u \in Threads : u # t => CallerFits(problem, callers'[u], place'[u].T, place'[u].step)
    BY <1>4, <1>6 DEF CallersFit
  <2> QED
    BY <1>2, <1>4, <1>6, <2>2, <2>3 DEF CallersFit
<1>8. ASSUME NEW U \in AllPeriods, Evaluated(U)' PROVE Evaluated(U)
  <2>1. U # T
    BY <1>4, <1>8 DEF Evaluated
  <2>2. place[t].T # U
    BY <1>2, ProblemFacts DEF Idle, AllPeriods
  <2> QED
    BY <1>1, <1>4, <1>8, <2>1, <2>2 DEF Evaluated
<1>9. ResidualsFit'
  BY <1>2, <1>8, SameProblem DEF ResidualsFit
<1> QED
  BY <1>2, <1>5, <1>7, <1>9

\* It keeps the period and takes one step after the other.
LEMMA StepTaken ==
  ASSUME ThreadInv, NEW t \in Threads, NEW s \in Steps, place[t].step \in Steps,
         place' = [place EXCEPT ![t].step = s], UNCHANGED <<problem, phase, unassigned>>
  PROVE  /\ ThreadsInStep'
         /\ place'[t] = [T |-> place[t].T, step |-> s]
         /\ \A u \in Threads : place'[u].T = place[u].T /\ (u # t => place'[u] = place[u])
         /\ phase = "parallel" /\ place[t].T \in AllPeriods
<1> USE DEF ThreadInv
<1>1. place[t] = [T |-> place[t].T, step |-> place[t].step] /\ place[t].T \in AllPeriods /\ place[t] # Idle
  BY PlaceOf
<1>2. /\ place'[t] = [T |-> place[t].T, step |-> s]
      /\ \A u \in Threads : u # t => place'[u] = place[u]
  BY <1>1 DEF ThreadsInStep
<1>3. \A u \in Threads : place'[u].T = place[u].T
  BY <1>2
<1>4. phase = "parallel"
  BY <1>1 DEF ThreadsInStep
<1>5. place' \in [Threads -> {Idle} \cup [T : AllPeriods, step : Steps]]'
  BY <1>1, SameProblem DEF ThreadsInStep, Idle, Steps
<1>6. ASSUME NEW u \in Threads, NEW w \in Threads, place'[u].T = place'[w].T
      PROVE  u = w \/ place'[u] = Idle'
  <2>1. u = w \/ place[u] = Idle
    BY <1>3, <1>6 DEF ThreadsInStep
  <2> QED
    BY <1>1, <1>2, <2>1 DEF Idle
<1>7. \A u \in Threads : place'[u].T \notin unassigned'
  BY <1>3 DEF ThreadsInStep
<1>8. ThreadsInStep'
  BY <1>4, <1>5, <1>6, <1>7, SameProblem DEF ThreadsInStep
<1> QED
  BY <1>1, <1>2, <1>3, <1>4, <1>8

\* The residuals of its period are those of its variables.
LEMMA EvalThreads ==
  ASSUME ThreadInv, NEW t \in Threads, Eval(t)
  PROVE  ThreadInv'
<1> USE DEF ThreadInv
<1> DEFINE T == place[t].T
           m == callers[t]
           s == IF problem.jacobian THEN "store" ELSE "next"
<1>1. /\ place[t].step = "eval" /\ place' = [place EXCEPT ![t].step = s] /\ s \in Steps
      /\ UNCHANGED <<problem, phase, unassigned>>
  BY DEF Eval, Steps
<1>2. /\ ThreadsInStep'
      /\ place'[t] = [T |-> T, step |-> s]
      /\ \A u \in Threads : place'[u].T = place[u].T /\ (u # t => place'[u] = place[u])
      /\ T \in AllPeriods
  BY <1>1, StepTaken DEF Steps
<1>3. CallerFits(problem, m, T, "eval") /\ m.y = Inputs(T)
  BY <1>1, SameProblem DEF CallersFit, CallerFits
<1>5. /\ stacked_residual' = [stacked_residual EXCEPT ![T] = <<"resid", T + problem.lag, m.y>>]
      /\ callers' = [callers EXCEPT ![t] = Evaluates(problem, m, T)]
  BY DEF Eval, CallerOf, Evaluates
<1>6. /\ callers' = [u \in Threads |-> callers'[u]]
      /\ callers'[t] = Evaluates(problem, m, T)
      /\ \A u \in Threads : u # t => callers'[u] = callers[u]
  BY <1>5 DEF CallersFit
<1>7. CallersFit'
  <2>1. CallerFits(problem, callers'[t], T, s)
    BY <1>3, <1>6, EvalFits
  <2>2. \A u \in Threads : u # t => CallerFits(problem, callers'[u], place'[u].T, place'[u].step)
    BY <1>2, <1>6 DEF CallersFit
  <2> QED
    BY <1>1, <1>2, <1>6, <2>1, <2>2 DEF CallersFit
<1>8. \A U \in AllPeriods : Evaluated(U)' /\ U # T => Evaluated(U)
  BY <1>1, <1>2 DEF Evaluated
<1>9. /\ stacked_residual' = [U \in AllPeriods |-> stacked_residual'[U]]
      /\ stacked_residual'[T] = <<"resid", T + problem.lag, Inputs(T)>>
      /\ \A U \in AllPeriods : U # T => stacked_residual'[U] = stacked_residual[U]
  BY <1>2, <1>3, <1>5 DEF ResidualsFit
<1> HIDE DEF T
<1>10. ResidualsFit'
  BY <1>1, <1>8, <1>9, SameProblem DEF ResidualsFit
<1> QED
  BY <1>1, <1>2, <1>7, <1>10

\* Its derivatives go to the matrix.
LEMMA FillThreads ==
  ASSUME ThreadInv, NEW t \in Threads, FillJacobian(t)
  PROVE  ThreadInv'
<1> USE DEF ThreadInv
<1>1. /\ place[t].step = "store" /\ place' = [place EXCEPT ![t].step = "next"]
      /\ UNCHANGED <<problem, phase, unassigned, callers, stacked_residual>>
  BY DEF FillJacobian
<1>2. /\ ThreadsInStep'
      /\ place'[t] = [T |-> place[t].T, step |-> "next"]
      /\ \A u \in Threads : place'[u].T = place[u].T /\ (u # t => place'[u] = place[u])
  BY <1>1, StepTaken DEF Steps
<1>3. CallersFit'
  <2>1. CallerFits(problem, callers[t], place[t].T, "next")
    BY NextFits DEF CallersFit
  <2> QED
    BY <1>1, <1>2, <2>1 DEF CallersFit
<1>4. \A U : Evaluated(U)' => Evaluated(U)
  BY <1>1, <1>2 DEF Evaluated
<1>5. ResidualsFit'
  BY <1>1, <1>4, SameProblem DEF ResidualsFit
<1> QED
  BY <1>1, <1>2, <1>3, <1>5

\* It is ready for another period.
LEMMA EndThreads ==
  ASSUME ThreadInv, NEW t \in Threads, EndPeriod(t)
  PROVE  ThreadInv'
<1> USE DEF ThreadInv
<1>1. /\ place[t].step = "next" /\ place' = [place EXCEPT ![t] = Idle]
      /\ UNCHANGED <<problem, phase, unassigned, callers, stacked_residual>>
  BY DEF EndPeriod
<1>2. place'[t] = Idle /\ \A u \in Threads : u # t => place'[u] = place[u]
  BY <1>1 DEF ThreadsInStep
<1>3. ThreadsInStep'
  <2>1. place' \in [Threads -> {Idle} \cup [T : AllPeriods, step : Steps]]'
    BY <1>1, SameProblem DEF ThreadsInStep, Steps, Idle
  <2>2. -1 \notin unassigned
    BY ProblemFacts DEF ThreadsInStep, AllPeriods
  <2>3. \A u \in Threads : place'[u].T \notin unassigned'
    BY <1>1, <1>2, <2>2 DEF ThreadsInStep, Idle
  <2>4. ASSUME NEW u \in Threads, NEW w \in Threads, place'[u].T = place'[w].T, u # w
        PROVE  place'[u] = Idle'
    <3>1. CASE u = t
      BY <1>2, <3>1 DEF Idle
    <3>2. CASE u # t /\ w # t
      BY <1>2, <2>4, <3>2 DEF ThreadsInStep, Idle
    <3>3. CASE u # t /\ w = t
      <4>1. place[u].T = -1
        BY <1>2, <2>4, <3>3 DEF Idle
      <4>2. -1 \notin AllPeriods
        BY ProblemFacts DEF AllPeriods
      <4>3. place[u] = Idle
        BY <4>1, <4>2, PlaceOf
      <4> QED
        BY <1>2, <3>3, <4>3 DEF Idle
    <3> QED
      BY <3>1, <3>2, <3>3
  <2> QED
    BY <1>1, <1>2, <2>1, <2>3, <2>4, SameProblem DEF ThreadsInStep
<1>4. CallersFit'
  <2>1. CallerFits(problem, callers[t], Idle.T, Idle.step)
    BY NextFits DEF CallersFit, Idle
  <2> QED
    BY <1>1, <1>2, <2>1 DEF CallersFit
<1>5. \A U \in AllPeriods : Evaluated(U)' => Evaluated(U)
  BY <1>1, <1>2 DEF Evaluated
<1>6. ResidualsFit'
  BY <1>1, <1>5, SameProblem DEF ResidualsFit
<1> QED
  BY <1>1, <1>3, <1>4, <1>6

-----------------------------------------------------------------------------
(* Columns and threads *)

\* A column is as before if its places and rows are, and its derivatives are
\* right once they are stored.
LEMMA ColumnKept ==
  ASSUME UNCHANGED problem, NEW c, NEW P, NEW N, ColumnIs(c, P, N),
         \A k \in P : ir'[k] = ir[k],
         \A k \in P, x \in Pattern :
            /\ ColumnOf(x) = c /\ ir[k] = RowOf(x)
            /\ Stored(x[1]) => stacked_jacobian[k] = ValueIn(x)
            => (Stored(x[1])' => stacked_jacobian'[k] = ValueIn(x))
  PROVE  ColumnIs(c, P, N)'
<1> USE SameProblem
<1>1. \A k, m \in P : k < m => ir'[k] < ir'[m]
  BY DEF ColumnIs
<1>2. ASSUME NEW k \in P
      PROVE  \E x \in Pattern' :
               /\ ColumnOf(x)' = c /\ ir'[k] = RowOf(x)'
               /\ Stored(x[1])' => stacked_jacobian'[k] = ValueIn(x)'
               /\ k \in N => ~IsZero(x)'
  <2>1. PICK x \in Pattern :
          /\ ColumnOf(x) = c /\ ir[k] = RowOf(x)
          /\ Stored(x[1]) => stacked_jacobian[k] = ValueIn(x)
          /\ k \in N => ~IsZero(x)
    BY DEF ColumnIs
  <2>2. Stored(x[1])' => stacked_jacobian'[k] = ValueIn(x)
    BY <2>1
  <2> QED
    BY <2>1, <2>2
<1>3. \A x \in Pattern' : ColumnOf(x)' = c /\ ~IsZero(x)' => \E k \in P : ir'[k] = RowOf(x)'
  BY DEF ColumnIs
<1> QED
  BY <1>1, <1>2, <1>3 DEF ColumnIs

\* The bounds of the columns are numbers.
LEMMA SizeFacts ==
  ASSUME SizesFit
  PROVE  /\ jc \in Seq(Nat) /\ DOMAIN jc = 1..Len(jc) /\ Len(jc) \in Nat /\ Len(ir) \in Nat
         /\ \A n \in 1..Len(jc) : jc[n] \in Nat
<1>1. jc \in Seq(Nat) /\ ir \in Seq(Int)
  BY DEF SizesFit
<1> QED
  BY <1>1

\* The places of a column are in the matrix.
LEMMA BoundsFacts ==
  ASSUME SizesFit, NEW c \in Nat, c + 2 <= Len(jc)
  PROVE  /\ jc[c + 1] \in Nat /\ jc[c + 2] \in Nat /\ jc[c + 1] <= jc[c + 2] /\ jc[c + 2] <= Len(ir)
         /\ Bounds(c) \subseteq 1..Len(ir) /\ Bounds(c) \subseteq Nat
<1>1. c + 1 \in DOMAIN jc /\ c + 2 \in DOMAIN jc /\ c + 1 <= c + 2 /\ Len(ir) \in Nat
  BY SizeFacts
<1>2. jc[c + 1] \in Nat /\ jc[c + 2] \in Nat
  BY <1>1, SizeFacts
<1>3. jc[c + 1] <= jc[c + 2] /\ jc[c + 2] <= Len(ir)
  BY <1>1 DEF SizesFit
<1> QED
  BY <1>1, <1>2, <1>3 DEF Bounds

\* Columns do not overlap.
LEMMA BoundsApart ==
  ASSUME SizesFit, NEW c \in Nat, NEW d \in Nat, c < d, d + 2 <= Len(jc),
         NEW k \in Bounds(c), NEW m \in Bounds(d)
  PROVE  k < m
<1>1. c + 2 \in DOMAIN jc /\ d + 1 \in DOMAIN jc /\ c + 2 <= d + 1
  BY SizeFacts
<1>2. jc[c + 2] <= jc[d + 1]
  BY <1>1 DEF SizesFit
<1>3. c + 2 <= Len(jc)
  BY SizeFacts
<1>4. /\ jc[c + 1] \in Nat /\ jc[c + 2] \in Nat /\ jc[d + 1] \in Nat /\ jc[d + 2] \in Nat
  BY <1>3, BoundsFacts
<1> QED
  BY <1>2, <1>4 DEF Bounds

LEMMA OneColumn ==
  ASSUME SizesFit, NEW c \in Nat, NEW d \in Nat, c + 2 <= Len(jc), d + 2 <= Len(jc),
         NEW k \in Bounds(c), k \in Bounds(d)
  PROVE  c = d
<1>1. k \in Int
  BY BoundsFacts
<1>2. ~(c < d) /\ ~(d < c)
  BY <1>1, BoundsApart
<1> QED
  BY <1>2

\* The threads only fill the matrix.
LEMMA ParallelKept ==
  ASSUME problem \in Problems, problem.jacobian, JacobianInv, phase = "parallel",
         UNCHANGED <<problem, phase, serial>>,
         stacked_jacobian' = [k \in 1..Len(ir) |-> stacked_jacobian'[k]],
         \A c \in 0..(Columns - 1) : \A k \in Bounds(c), x \in Pattern :
            /\ ColumnOf(x) = c /\ ir[k] = RowOf(x)
            /\ Stored(x[1]) => stacked_jacobian[k] = ValueIn(x)
            => (Stored(x[1])' => stacked_jacobian'[k] = ValueIn(x))
  PROVE  JacobianInv'
<1>1. SizesFit /\ PatternIsComplete /\ k_orig = 0 /\ k_new = 0
  BY DEF JacobianInv
<1>2. UNCHANGED <<col, row, ir, jc, k_orig, k_new>>
  BY DEF serial
<1>3. SizesFit'
  BY <1>1, <1>2, SameProblem DEF SizesFit
<1>4. \A c : Bounds(c)' = Bounds(c)
  BY <1>2 DEF Bounds
<1>5. ASSUME NEW c \in 0..(Columns - 1)
      PROVE  ColumnIs(c, Bounds(c), {})'
  <2> DEFINE P == Bounds(c)
  <2>1. ColumnIs(c, P, {})
    BY <1>1 DEF PatternIsComplete
  <2>2. \A k \in P : ir'[k] = ir[k]
    BY <1>2
  <2>3. \A k \in P, x \in Pattern :
            /\ ColumnOf(x) = c /\ ir[k] = RowOf(x)
            /\ Stored(x[1]) => stacked_jacobian[k] = ValueIn(x)
            => (Stored(x[1])' => stacked_jacobian'[k] = ValueIn(x))
    BY <1>5
  <2>4. P' = P
    BY <1>4
  <2> HIDE DEF P
  <2>5. PICK Q : Q = P
    OBVIOUS
  <2>6. ColumnIs(c, Q, {})'
    BY <2>1, <2>2, <2>3, <2>5, ColumnKept
  <2> QED
    BY <2>4, <2>5, <2>6 DEF P
<1>6. PatternIsComplete'
  BY <1>1, <1>2, <1>5, SameProblem DEF PatternIsComplete
<1> QED
  BY <1>1, <1>2, <1>3, <1>6 DEF JacobianInv

\* While no derivatives are stored, nothing changes.
LEMMA IdleColumns ==
  ASSUME ThreadInv, JacobianInv, phase = "parallel",
         UNCHANGED <<problem, phase, serial, stacked_jacobian>>,
         \A T \in AllPeriods : Stored(T)' => Stored(T)
  PROVE  JacobianInv'
<1>1. problem \in Problems
  BY DEF ThreadInv
<1>2. CASE problem.jacobian
  <2>1. stacked_jacobian' = [k \in 1..Len(ir) |-> stacked_jacobian'[k]]
    BY <1>2 DEF JacobianInv, SizesFit
  <2>2. \A x \in Pattern : x[1] \in AllPeriods
    BY <1>1, PatternFacts
  <2> QED
    BY <1>1, <1>2, <2>1, <2>2, ParallelKept
<1>3. CASE ~problem.jacobian
  BY <1>3 DEF JacobianInv
<1> QED
  BY <1>2, <1>3

LEMMA CopyColumns ==
  ASSUME ThreadInv, JacobianInv, NEW t \in Threads, CopyValues(t)
  PROVE  JacobianInv'
<1>1. PICK T \in unassigned :
        /\ unassigned' = unassigned \ {T}
        /\ place' = [place EXCEPT ![t] = [T |-> T, step |-> "eval"]]
  BY DEF CopyValues
<1>2. UNCHANGED <<problem, phase, serial, stacked_jacobian>> /\ phase = "parallel" /\ place[t] = Idle
  BY DEF CopyValues
<1>3. place'[t] = [T |-> T, step |-> "eval"] /\ \A u \in Threads : u # t => place'[u] = place[u]
  BY <1>1 DEF ThreadInv, ThreadsInStep
<1>4. ASSUME NEW U \in AllPeriods, Stored(U)' PROVE Stored(U)
  <2>1. U # T
    BY <1>3, <1>4 DEF Stored
  <2>2. place[t].T # U
    BY <1>2, ProblemFacts DEF Idle, AllPeriods, ThreadInv
  <2> QED
    BY <1>1, <1>3, <1>4, <2>1, <2>2 DEF Stored
<1> QED
  BY <1>2, <1>4, IdleColumns

LEMMA EvalColumns ==
  ASSUME ThreadInv, JacobianInv, NEW t \in Threads, Eval(t)
  PROVE  JacobianInv'
<1> DEFINE s == IF problem.jacobian THEN "store" ELSE "next"
<1>1. /\ place[t].step = "eval" /\ place' = [place EXCEPT ![t].step = s] /\ s \in Steps
      /\ UNCHANGED <<problem, phase, unassigned, stacked_jacobian, serial>>
  BY DEF Eval, Steps
<1>2. /\ place'[t] = [T |-> place[t].T, step |-> s] /\ phase = "parallel"
      /\ \A u \in Threads : place'[u].T = place[u].T /\ (u # t => place'[u] = place[u])
  BY <1>1, StepTaken DEF Steps
<1>3. CASE problem.jacobian
  <2>1. place'[t].step = "store"
    BY <1>2, <1>3
  <2>2. \A T : Stored(T)' => Stored(T)
    BY <1>1, <1>2, <2>1 DEF Stored
  <2> QED
    BY <1>1, <1>2, <2>2, IdleColumns
<1>4. CASE ~problem.jacobian
  BY <1>1, <1>4 DEF JacobianInv
<1> QED
  BY <1>3, <1>4

LEMMA EndColumns ==
  ASSUME ThreadInv, JacobianInv, NEW t \in Threads, EndPeriod(t)
  PROVE  JacobianInv'
<1>1. /\ place[t].step = "next" /\ place' = [place EXCEPT ![t] = Idle]
      /\ UNCHANGED <<problem, phase, unassigned, stacked_jacobian, serial>>
  BY DEF EndPeriod
<1>2. /\ \A u \in Threads : u # t => place'[u] = place[u]
      /\ phase = "parallel"
  BY <1>1 DEF ThreadInv, ThreadsInStep, Idle
<1>3. \A T : Stored(T)' => Stored(T)
  BY <1>1, <1>2 DEF Stored
<1> QED
  BY <1>1, <1>2, <1>3, IdleColumns

\* A derivative of period T is in one of the columns the thread looks at.
LEMMA LooksAtColumn ==
  ASSUME problem \in Problems, NEW x \in Pattern
  PROVE  LET T == x[1]
             lag == problem.maximum_endo_lag
             first == IF T > lag THEN (T - lag) * problem.ny ELSE 0
             end == IF Columns < (T + 2) * problem.ny THEN Columns ELSE (T + 2) * problem.ny
         IN  /\ ColumnOf(x) \in first..(end - 1)
             /\ first..(end - 1) \subseteq 0..(Columns - 1)
<1> DEFINE T == x[1]
           S == x[2]
           v == x[3][2]
           ny == problem.ny
           lag == problem.maximum_endo_lag
           first == IF T > lag THEN (T - lag) * ny ELSE 0
           end == IF Columns < (T + 2) * ny THEN Columns ELSE (T + 2) * ny
<1>1. /\ ny \in Nat \ {0} /\ lag \in {0, 1} /\ Columns \in Nat
      /\ T \in Nat /\ S \in Nat /\ v \in Nat /\ v < ny
  BY ProblemFacts, PatternFacts
<1>2. S - T + lag \in 0..(lag + 1)
  BY PatternFacts DEF Rows, RowFor
<1>3. ColumnOf(x) = S * ny + v /\ ColumnOf(x) \in 0..(Columns - 1)
  BY PlaceFacts DEF ColumnOf
<1> HIDE DEF T, S, v, ny, lag
<1>4. S * ny \in Nat /\ (T + 2) * ny \in Nat /\ (T > lag => (T - lag) * ny \in Nat)
  BY <1>1
<1>5. S * ny + ny <= (T + 2) * ny
  <2>1. S < T + 2 /\ T + 2 \in Int /\ S \in Int
    BY <1>1, <1>2
  <2> QED
    BY <1>1, <2>1, Multiples
<1>6. (T - lag) * ny <= S * ny
  <2>1. T - lag \in Int /\ S \in Int /\ T - lag <= S
    BY <1>1, <1>2
  <2>2. CASE T - lag = S
    BY <1>4, <2>2
  <2>3. CASE T - lag < S
    <3>1. (T - lag) * ny + ny <= S * ny
      BY <1>1, <2>1, <2>3, Multiples
    <3>2. (T - lag) * ny \in Int
      BY <1>1, <2>1
    <3> QED
      BY <1>1, <1>4, <3>1, <3>2
  <2> QED
    BY <2>1, <2>2, <2>3
<1>7. ColumnOf(x) >= first
  BY <1>1, <1>3, <1>4, <1>6
<1>8. ColumnOf(x) <= end - 1
  BY <1>1, <1>3, <1>4, <1>5
<1>9. first \in Nat /\ end \in Nat /\ end <= Columns
  BY <1>1, <1>4
<1>10. ColumnOf(x) \in first..(end - 1) /\ first..(end - 1) \subseteq 0..(Columns - 1)
  <2> HIDE DEF first, end
  <2> QED
    BY <1>1, <1>3, <1>7, <1>8, <1>9
<1> QED
  BY <1>10 DEF T, S, v, ny, lag

\* The columns a thread looks at are columns of the matrix.
LEMMA PeriodLooksAt ==
  ASSUME problem \in Problems, NEW T \in AllPeriods
  PROVE  LET lag == problem.maximum_endo_lag
             first == IF T > lag THEN (T - lag) * problem.ny ELSE 0
             end == IF Columns < (T + 2) * problem.ny THEN Columns ELSE (T + 2) * problem.ny
         IN  first..(end - 1) \subseteq 0..(Columns - 1)
<1> DEFINE ny == problem.ny
           lag == problem.maximum_endo_lag
           first == IF T > lag THEN (T - lag) * ny ELSE 0
           end == IF Columns < (T + 2) * ny THEN Columns ELSE (T + 2) * ny
<1>1. ny \in Nat \ {0} /\ lag \in {0, 1} /\ Columns \in Nat /\ T \in Nat
  BY ProblemFacts DEF AllPeriods
<1> HIDE DEF ny, lag
<1>2. (T + 2) * ny \in Nat /\ (T > lag => (T - lag) * ny \in Nat)
  BY <1>1
<1>3. first \in Nat /\ end \in Nat /\ end <= Columns
  BY <1>1, <1>2
<1>4. first..(end - 1) \subseteq 0..(Columns - 1)
  <2> HIDE DEF first, end
  <2> QED
    BY <1>1, <1>3
<1> QED
  BY <1>4 DEF ny, lag

\* The rows of a period.
LEMMA RowsOfPeriod ==
  ASSUME problem \in Problems, NEW x \in Pattern, NEW T \in AllPeriods
  PROVE  RowOf(x) \in (T * problem.ny)..((T + 1) * problem.ny - 1) <=> x[1] = T
<1> DEFINE ny == problem.ny
           U == x[1]
<1>1. /\ RowOf(x) \in Nat /\ RowOf(x) >= U * ny /\ RowOf(x) < U * ny + ny
      /\ ny \in Nat \ {0} /\ T \in Int /\ U \in Int /\ T \in Nat /\ U \in Nat
  BY PlaceFacts, ProblemFacts, PatternFacts DEF AllPeriods
<1> HIDE DEF ny, U
<1>2. T * ny \in Nat /\ U * ny \in Nat /\ (T + 1) * ny = T * ny + ny
  BY <1>1
<1>3. CASE U = T
  BY <1>1, <1>2, <1>3 DEF ny, U
<1>4. CASE U < T
  <2>1. U * ny + ny <= T * ny
    BY <1>1, <1>4, Multiples
  <2> QED
    BY <1>1, <1>2, <1>4, <2>1 DEF ny, U
<1>5. CASE T < U
  <2>1. T * ny + ny <= U * ny
    BY <1>1, <1>5, Multiples
  <2> QED
    BY <1>1, <1>2, <1>5, <2>1 DEF ny, U
<1> QED
  BY <1>1, <1>3, <1>4, <1>5

\* A thread stores the derivatives of its period, each at its place, and
\* nothing else.
LEMMA FillColumns ==
  ASSUME ThreadInv, JacobianInv, NEW t \in Threads, FillJacobian(t)
  PROVE  JacobianInv'
<1> DEFINE T == place[t].T
           ny == problem.ny
           lag == problem.maximum_endo_lag
           first == IF T > lag THEN (T - lag) * ny ELSE 0
           end == IF Columns < (T + 2) * ny THEN Columns ELSE (T + 2) * ny
           at(k) == {c \in first..(end - 1) :
                       /\ jc[c + 1] < k /\ k <= jc[c + 2] /\ ir[k] >= T * ny
                       /\ \A m \in (jc[c + 1] + 1)..k : ir[m] < (T + 1) * ny}
           D(k, c) == Derivative(callers[t].jacobian, ir[k] - T * ny,
                                 Dynvar(PeriodOf(c) - (T - lag), VariableOf(c)))
<1>1. /\ place[t].step = "store" /\ place' = [place EXCEPT ![t].step = "next"]
      /\ UNCHANGED <<problem, phase, unassigned, serial>>
  BY DEF FillJacobian
<1>2. /\ phase = "parallel" /\ T \in AllPeriods
      /\ place'[t] = [T |-> T, step |-> "next"]
      /\ \A u \in Threads : place'[u].T = place[u].T /\ (u # t => place'[u] = place[u])
  BY <1>1, StepTaken DEF Steps
<1>3. problem \in Problems /\ problem.jacobian
  BY <1>1 DEF ThreadInv, CallersFit, CallerFits
<1>4. callers[t].jacobian = DerivativesOf(problem, T)
  BY <1>1 DEF ThreadInv, CallersFit, CallerFits
<1>5. stacked_jacobian' =
        [k \in DOMAIN stacked_jacobian |->
           IF at(k) # {}
           THEN D(k, CHOOSE c \in at(k) : TRUE)
           ELSE stacked_jacobian[k]]
  BY DEF FillJacobian, CallerOf
<1>6. SizesFit /\ PatternIsComplete /\ stacked_jacobian = [k \in 1..Len(ir) |-> stacked_jacobian[k]]
  BY <1>2, <1>3 DEF JacobianInv, SizesFit
<1>7. stacked_jacobian' = [k \in 1..Len(ir) |-> stacked_jacobian'[k]]
  BY <1>5, <1>6
<1>8. ASSUME NEW c \in 0..(Columns - 1), NEW k \in Bounds(c), NEW x \in Pattern,
             ColumnOf(x) = c, ir[k] = RowOf(x), Stored(x[1]) => stacked_jacobian[k] = ValueIn(x),
             Stored(x[1])'
      PROVE  stacked_jacobian'[k] = ValueIn(x)
  <2>1. k \in 1..Len(ir) /\ Columns \in Nat /\ Len(jc) = Columns + 1
    BY <1>3, <1>6, BoundsFacts, ProblemFacts DEF PatternIsComplete
  <2>2. ir[k] \in (T * ny)..((T + 1) * ny - 1) <=> x[1] = T
    BY <1>2, <1>3, <1>8, RowsOfPeriod
  <2>5. /\ ir[k] \in Int /\ T * ny \in Int /\ (T + 1) * ny \in Int
        /\ ir[k] \in (T * ny)..((T + 1) * ny - 1) <=> ir[k] >= T * ny /\ ir[k] < (T + 1) * ny
    <3>1. ir[k] \in Int
      BY <1>6, <2>1 DEF SizesFit
    <3>2. T \in Int /\ ny \in Int
      BY <1>2, <1>3, ProblemFacts DEF AllPeriods
    <3>3. T * ny \in Int /\ (T + 1) * ny \in Int
      BY <3>2
    <3> QED
      BY <3>1, <3>3
  <2>3. CASE x[1] # T
    <3>1. stacked_jacobian'[k] = stacked_jacobian[k]
      <4>1. ASSUME NEW d \in at(k) PROVE FALSE
        <5>1. d \in 0..(Columns - 1) /\ jc[d + 1] < k
          <6>1. first..(end - 1) \subseteq 0..(Columns - 1)
            BY <1>2, <1>3, PeriodLooksAt
          <6> QED
            BY <6>1
        <5>2. jc[d + 1] \in Nat
          BY <1>6, <2>1, <5>1, BoundsFacts
        <5>3. k \in (jc[d + 1] + 1)..k
          BY <2>1, <5>1, <5>2
        <5> QED
          BY <2>2, <2>3, <2>5, <5>3
      <4> QED
        BY <1>5, <1>6, <2>1, <4>1
    <3>2. Stored(x[1])
      BY <1>1, <1>2, <1>8, <2>3 DEF Stored
    <3> QED
      BY <1>8, <3>1, <3>2
  <2>4. CASE x[1] = T
    <3>1. c \in first..(end - 1) /\ first..(end - 1) \subseteq 0..(Columns - 1)
      BY <1>3, <1>8, <2>4, LooksAtColumn
    <3> HIDE DEF first, end
    <3>2. jc[c + 1] < k /\ k <= jc[c + 2]
      BY <1>6, <2>1, BoundsFacts DEF Bounds
    <3>3. c \in at(k)
      <4>1. ASSUME NEW m \in (jc[c + 1] + 1)..k PROVE ir[m] < (T + 1) * ny
        <5>1. m \in Bounds(c) /\ m \in 1..Len(ir) /\ (m = k \/ m < k)
          <6>1. jc[c + 1] \in Nat /\ jc[c + 2] \in Nat /\ Bounds(c) \subseteq 1..Len(ir)
            BY <1>6, <2>1, BoundsFacts
          <6>2. m \in Int /\ jc[c + 1] < m /\ m <= k /\ m <= jc[c + 2]
            BY <2>1, <3>2, <6>1
          <6>3. m \in Bounds(c)
            BY <6>1, <6>2 DEF Bounds
          <6> QED
            BY <2>1, <6>1, <6>2, <6>3
        <5>2. m < k => ir[m] < ir[k]
          BY <1>6, <5>1 DEF PatternIsComplete, ColumnIs
        <5>3. ir[m] \in Int
          BY <1>6, <5>1 DEF SizesFit
        <5> QED
          BY <2>2, <2>4, <2>5, <5>1, <5>2, <5>3
      <4> QED
        BY <2>2, <2>4, <2>5, <3>1, <3>2, <4>1
    <3>4. ASSUME NEW d \in at(k) PROVE d = c
      <4>1. d \in 0..(Columns - 1) /\ jc[d + 1] < k /\ k <= jc[d + 2]
        BY <3>1
      <4>2. d \in Nat /\ d + 2 <= Len(jc) /\ c \in Nat /\ c + 2 <= Len(jc)
        BY <2>1, <4>1
      <4>3. jc[d + 1] \in Nat /\ jc[d + 2] \in Nat
        BY <1>6, <4>2, BoundsFacts
      <4>4. k \in Bounds(d)
        BY <2>1, <4>1, <4>3 DEF Bounds
      <4> QED
        BY <1>6, <4>2, <4>4, OneColumn
    <3>5. (CHOOSE d \in at(k) : TRUE) = c
      BY <3>3, <3>4
    <3> HIDE DEF at
    <3>6. stacked_jacobian'[k] = D(k, c)
      BY <1>5, <1>6, <2>1, <2>2, <2>4, <3>3, <3>5
    <3>7. ir[k] - T * ny = x[3][1] /\ PeriodOf(c) = x[2] /\ VariableOf(c) = x[3][2]
      BY <1>3, <1>8, <2>4, PlaceFacts
    <3>8. PeriodOf(c) - (T - lag) = RowFor(x)
      BY <1>3, <2>4, <3>7, ProblemFacts, PatternFacts DEF RowFor
    <3>9. D(k, c) = Derivative(DerivativesOf(problem, T), x[3][1], Dynvar(RowFor(x), x[3][2]))
      BY <1>4, <3>7, <3>8
    <3>10. D(k, c) = ValueIn(x)
      BY <2>4, <3>9, SameProblem, <1>1 DEF Derivative, ValueIn, IsZero, DerivativeOf, DerivativesOf
    <3> QED
      BY <3>6, <3>10
  <2> QED
    BY <2>3, <2>4
<1> QED
  BY <1>1, <1>2, <1>3, <1>7, <1>8, ParallelKept

-----------------------------------------------------------------------------
(* The pattern of the matrix *)

\* The lists in the order in which a column takes from them.
LEMMA ShiftsDiffer == \A l, m \in Lists : Shift[l] = Shift[m] => l = m
BY Shifts DEF Lists

\* What is known while the main thread is in a column.
LEMMA ColumnFacts ==
  ASSUME problem \in Problems, col \in 0..Columns, col # Columns
  PROVE  /\ PeriodOf(col) \in AllPeriods /\ VariableOf(col) \in Variables
         /\ PeriodOf(col) \in Nat /\ VariableOf(col) \in Nat
         /\ col = PeriodOf(col) * problem.ny + VariableOf(col)
<1> DEFINE S == PeriodOf(col)
           v == VariableOf(col)
           ny == problem.ny
<1>1. ny \in Nat \ {0} /\ problem.periods \in Nat /\ col \in Nat /\ col < Columns
  BY ProblemFacts
<1>2. S \in Nat /\ v \in 0..(ny - 1) /\ col = S * ny + v
  BY <1>1, Divided DEF PeriodOf, VariableOf
<1> HIDE DEF S, v, ny
<1>3. S < problem.periods
  <2> SUFFICES ASSUME S >= problem.periods PROVE FALSE
    BY <1>1, <1>2
  <2>1. problem.periods * ny <= S * ny
    <3>1. CASE S = problem.periods
      BY <1>1, <3>1
    <3>2. CASE problem.periods < S
      <4>1. problem.periods * ny + ny <= S * ny
        BY <1>1, <1>2, <3>2, Multiples
      <4> QED
        BY <1>1, <1>2, <4>1
    <3> QED
      BY <1>1, <1>2, <3>1, <3>2
  <2>2. S * ny \in Nat /\ problem.periods * ny \in Nat
    BY <1>1, <1>2
  <2> QED
    BY <1>1, <1>2, <2>1, <2>2 DEF Columns, ny
<1> QED
  BY <1>1, <1>2, <1>3 DEF S, v, ny, AllPeriods, Variables

\* The next column: the next variable, or the first one of the next period.
LEMMA NextColumn ==
  ASSUME problem \in Problems, col \in 0..Columns, col # Columns
  PROVE  \/ /\ VariableOf(col) + 1 < problem.ny
            /\ PeriodOf(col + 1) = PeriodOf(col) /\ VariableOf(col + 1) = VariableOf(col) + 1
            /\ col + 1 # Columns
         \/ /\ VariableOf(col) + 1 = problem.ny
            /\ PeriodOf(col + 1) = PeriodOf(col) + 1 /\ VariableOf(col + 1) = 0
<1> DEFINE S == PeriodOf(col)
           v == VariableOf(col)
           ny == problem.ny
<1>1. /\ ny \in Nat \ {0} /\ problem.periods \in Nat /\ S \in Nat /\ v \in 0..(ny - 1)
      /\ col = S * ny + v /\ S \in Int /\ S + 1 \in Int /\ col \in Nat
  BY ProblemFacts, ColumnFacts DEF Variables
<1> HIDE DEF S, v, ny
<1>2. CASE v + 1 < ny
  <2>1. v + 1 \in 0..(ny - 1) /\ col + 1 = S * ny + (v + 1)
    BY <1>1, <1>2
  <2>2. (S * ny + (v + 1)) \div ny = S /\ (S * ny + (v + 1)) % ny = v + 1
    BY <1>1, <2>1, Division
  <2>3. PeriodOf(col + 1) = S /\ VariableOf(col + 1) = v + 1
    BY <2>1, <2>2 DEF PeriodOf, VariableOf, ny
  <2>4. ASSUME col + 1 = Columns PROVE FALSE
    <3>1. 0 \in 0..(ny - 1) /\ problem.periods \in Int
      BY <1>1
    <3>2. (problem.periods * ny + 0) % ny = 0
      BY <1>1, <3>1, Division
    <3>3. col + 1 = problem.periods * ny + 0
      BY <1>1, <2>4 DEF Columns, ny
    <3> QED
      BY <1>1, <2>1, <2>2, <3>2, <3>3
  <2> QED
    BY <1>2, <2>3, <2>4 DEF S, v, ny
<1>3. CASE v + 1 = ny
  <2>1. 0 \in 0..(ny - 1) /\ col + 1 = (S + 1) * ny + 0
    BY <1>1, <1>3
  <2>2. ((S + 1) * ny + 0) \div ny = S + 1 /\ ((S + 1) * ny + 0) % ny = 0
    BY <1>1, <2>1, Division
  <2>3. PeriodOf(col + 1) = S + 1 /\ VariableOf(col + 1) = 0
    BY <2>1, <2>2 DEF PeriodOf, VariableOf, ny
  <2> QED
    BY <1>3, <2>3 DEF S, v, ny
<1> QED
  BY <1>1, <1>2, <1>3 DEF S, v, ny

\* Smaller multiples of a number that may be zero.
LEMMA Products ==
  ASSUME NEW m \in Nat, NEW n \in Nat, NEW k \in Nat, m < n
  PROVE  m * k + k <= n * k /\ m * k \in Nat /\ n * k \in Nat
<1>1. (n - m - 1) * k >= 0
  OBVIOUS
<1> QED
  BY <1>1

\* As often as each list was used, there is room for its elements and those that
\* are used now.
LEMMA Room ==
  ASSUME problem \in Problems, NEW S \in AllPeriods, NEW r \in [Lists -> Nat],
         \A l \in Lists : /\ r[l] <= Len(problem[l])
                          /\ S + Shift[l] \notin AllPeriods => r[l] = 0
  PROVE  /\ TimesUsed("fwrd", S) * Len(problem["fwrd"]) + r["fwrd"]
            + (TimesUsed("current", S) * Len(problem["current"]) + r["current"])
            + (TimesUsed("pred", S) * Len(problem["pred"]) + r["pred"]) <= nzmax
         /\ \A l \in Lists : TimesUsed(l, S) * Len(problem[l]) \in Nat
<1> DEFINE p == problem.periods
           f == Len(problem["fwrd"])
           c == Len(problem["current"])
           q == Len(problem["pred"])
<1>1. p \in Nat /\ S \in Nat /\ S < p /\ f \in Nat /\ c \in Nat /\ q \in Nat
  BY ProblemFacts, ListFacts DEF AllPeriods, Lists
<1>3. AllPeriods = 0..(p - 1)
  BY DEF AllPeriods
<1>4. /\ r["fwrd"] \in Nat /\ r["current"] \in Nat /\ r["pred"] \in Nat
      /\ r["fwrd"] <= f /\ r["current"] <= c /\ r["pred"] <= q
      /\ S = 0 => r["fwrd"] = 0
      /\ S = p - 1 => r["pred"] = 0
  BY <1>1, <1>3, Shifts DEF Lists
<1>5. nzmax = p * c + (p - 1) * (q + f)
  BY DEF nzmax
<1>6. /\ TimesUsed("fwrd", S) = IF S > 0 THEN S - 1 ELSE S
      /\ TimesUsed("current", S) = S /\ TimesUsed("pred", S) = S
  BY <1>1 DEF TimesUsed
<1> HIDE DEF p, f, c, q
<1>7. S * c + r["current"] <= p * c /\ S * c \in Nat /\ p * c \in Nat
  <2>1. S * c + c <= p * c /\ S * c \in Nat /\ p * c \in Nat
    BY <1>1, Products
  <2> DEFINE a == S * c
             b == p * c
  <2>2. a + c <= b /\ a \in Nat /\ b \in Nat
    BY <2>1
  <2> HIDE DEF a, b
  <2>3. a + r["current"] <= b
    BY <1>1, <1>4, <2>2
  <2> QED
    BY <2>2, <2>3 DEF a, b
<1>8. S * q + r["pred"] <= (p - 1) * q /\ S * q \in Nat /\ (p - 1) * q \in Nat
  <2>1. CASE S = p - 1
    BY <1>1, <1>4, <2>1
  <2>2. CASE S < p - 1
    <3>1. p - 1 \in Nat
      BY <1>1
    <3>2. S * q + q <= (p - 1) * q /\ S * q \in Nat /\ (p - 1) * q \in Nat
      BY <1>1, <2>2, <3>1, Products
    <3> DEFINE a == S * q
               b == (p - 1) * q
    <3>3. a + q <= b /\ a \in Nat /\ b \in Nat
      BY <3>2
    <3> HIDE DEF a, b
    <3>4. a + r["pred"] <= b
      BY <1>1, <1>4, <3>3
    <3> QED
      BY <3>3, <3>4 DEF a, b
  <2> QED
    BY <1>1, <2>1, <2>2
<1>9. /\ TimesUsed("fwrd", S) * f + r["fwrd"] <= (p - 1) * f
      /\ TimesUsed("fwrd", S) * f \in Nat /\ (p - 1) * f \in Nat
  <2>1. CASE S = 0
    BY <1>1, <1>4, <1>6, <2>1
  <2>2. CASE S > 0
    <3>1. S - 1 \in Nat /\ p - 1 \in Nat /\ S - 1 < p - 1
      BY <1>1, <2>2
    <3>2. (S - 1) * f + f <= (p - 1) * f /\ (S - 1) * f \in Nat /\ (p - 1) * f \in Nat
      BY <1>1, <3>1, Products
    <3> DEFINE a == (S - 1) * f
               b == (p - 1) * f
    <3>3. a + f <= b /\ a \in Nat /\ b \in Nat
      BY <3>2
    <3> HIDE DEF a, b
    <3>4. a + r["fwrd"] <= b
      BY <1>1, <1>4, <3>3
    <3>5. TimesUsed("fwrd", S) * f = a
      BY <1>6, <2>2 DEF a
    <3> QED
      BY <3>3, <3>4, <3>5 DEF b
  <2> QED
    BY <1>1, <2>1, <2>2
<1>10. (p - 1) * (q + f) = (p - 1) * q + (p - 1) * f
  BY <1>1
<1>11. TimesUsed("fwrd", S) * f + r["fwrd"] + (S * c + r["current"]) + (S * q + r["pred"]) <= nzmax
  <2> DEFINE x == TimesUsed("fwrd", S) * f
             y == S * c
             z == S * q
             X == (p - 1) * f
             Y == p * c
             Z == (p - 1) * q
             u == r["fwrd"]
             v == r["current"]
             w == r["pred"]
  <2>1. /\ x \in Nat /\ y \in Nat /\ z \in Nat /\ X \in Nat /\ Y \in Nat /\ Z \in Nat
        /\ u \in Nat /\ v \in Nat /\ w \in Nat
        /\ x + u <= X /\ y + v <= Y /\ z + w <= Z
    BY <1>4, <1>7, <1>8, <1>9
  <2>2. nzmax = Y + (Z + X)
    BY <1>5, <1>10
  <2> HIDE DEF x, y, z, X, Y, Z, u, v, w
  <2>3. x + u + (y + v) + (z + w) <= nzmax
    BY <2>1, <2>2
  <2> QED
    BY <2>3 DEF x, y, z, u, v, w
<1> QED
  BY <1>6, <1>7, <1>8, <1>9, <1>11 DEF p, f, c, q, Lists

\* The columns that are complete stay so.
LEMMA OldColumns ==
  ASSUME problem \in Problems, SizesFit, NEW c \in Nat, c + 2 <= Len(jc), ColumnIs(c, Bounds(c), {}),
         UNCHANGED problem, unassigned' = AllPeriods,
         jc'[c + 1] = jc[c + 1], jc'[c + 2] = jc[c + 2],
         \A k \in 1..Len(ir) : ir'[k] = ir[k]
  PROVE  ColumnIs(c, Bounds(c), {})'
<1>1. PICK P : P = Bounds(c)
  OBVIOUS
<1>2. Bounds(c)' = P
  BY <1>1 DEF Bounds
<1>3. \A k \in P : ir'[k] = ir[k]
  BY <1>1, BoundsFacts
<1>4. \A x \in Pattern : ~Stored(x[1])'
  BY PatternFacts DEF Stored
<1>5. ColumnIs(c, P, {})'
  BY <1>1, <1>3, <1>4, ColumnKept
<1> QED
  BY <1>2, <1>5

\* The pattern takes the next element of a list.
LEMMA AddPattern ==
  ASSUME ThreadInv, JacobianInv, NEW l \in Lists, NEW before,
         \A m \in Lists : Shift[m] < Shift[l] => m \in before,
         AddElement(l, before)
  PROVE  JacobianInv'
<1> DEFINE S == PeriodOf(col)
           v == VariableOf(col)
           ny == problem.ny
           i == row[l] + 1
           r == RowHere(l, i)
           L == Len(ir)
           P == (jc[col + 1] + 1)..L
           Q == (jc[col + 1] + 1)..(L + 1)
<1>1. /\ problem \in Problems /\ problem.jacobian /\ phase = "pattern"
      /\ SizesFit /\ PatternGrows /\ k_orig = 0 /\ k_new = 0
  BY DEF AddElement, Building, ThreadInv, JacobianInv
<1>2. /\ col \in 0..Columns /\ col # Columns /\ Len(jc) = col + 1 /\ Columns \in Nat
      /\ CursorsFit /\ OpenColumn
  BY <1>1, ProblemFacts DEF PatternGrows, AddElement, Building
<1>3. /\ HasNext(l) /\ \A m \in before : ~HasNext(m)
      /\ ir' = Append(ir, r) /\ row' = [row EXCEPT ![l] = i]
      /\ UNCHANGED <<problem, phase, col, jc, k_orig, k_new>> /\ unassigned' = unassigned
  BY DEF AddElement, RowHere, parallel
<1>4. /\ InUse(l) /\ i \in 1..Len(problem[l]) /\ problem[l][i][2] = v
      /\ row[l] \in Nat /\ row \in [Lists -> Nat]
  BY <1>1, <1>2, <1>3, ListFacts DEF HasNext, InUse, CursorsFit
<1>5. /\ S \in AllPeriods /\ v \in Variables /\ S \in Nat /\ v \in Nat
      /\ ny \in Nat \ {0} /\ S + Shift[l] \in AllPeriods /\ S + Shift[l] \in Nat
  BY <1>1, <1>2, <1>4, ColumnFacts, ProblemFacts DEF InUse, AllPeriods
<1>6. r = (S + Shift[l]) * ny + problem[l][i][1] /\ problem[l][i][1] \in 0..(ny - 1) /\ r \in Int
  <2>1. r = (S + Shift[l]) * ny + problem[l][i][1]
    BY DEF RowHere
  <2>2. problem[l][i][1] \in 0..(ny - 1)
    BY <1>1, <1>4, ListFacts DEF Variables
  <2>3. (S + Shift[l]) * ny \in Int
    BY <1>5
  <2> QED
    BY <2>1, <2>2, <2>3
<1>7. /\ ir \in Seq(Int) /\ L \in Nat /\ ir' \in Seq(Int) /\ Len(ir') = L + 1 /\ ir'[L + 1] = r
      /\ \A k \in 1..L : ir'[k] = ir[k]
  BY <1>1, <1>3, <1>6 DEF SizesFit
<1>8. /\ row' \in [Lists -> Nat] /\ row'[l] = i
      /\ \A m \in Lists : m # l => row'[m] = row[m]
  BY <1>3, <1>4
<1>9. /\ \A m : InUse(m)' = InUse(m)
      /\ \A m, n : IsHere(m, n)' = IsHere(m, n) /\ RowHere(m, n)' = RowHere(m, n)
      /\ \A m \in Lists : m # l => HasNext(m)' = HasNext(m)
      /\ PeriodOf(col)' = S /\ VariableOf(col)' = v
  BY <1>3, <1>8, SameProblem DEF InUse, IsHere, RowHere, HasNext, PeriodOf, VariableOf
<1>10. CursorsFit'
  <2>1. ASSUME NEW m \in Lists
        PROVE  /\ row'[m] <= Len(problem[m])
               /\ ~InUse(m) => row'[m] = 0
               /\ \A n \in 1..row'[m] : problem[m][n][2] <= v
               /\ \A n \in (row'[m] + 1)..Len(problem[m]) : InUse(m) => problem[m][n][2] >= v
    <3>1. CASE m # l
      BY <1>2, <1>8, <3>1 DEF CursorsFit
    <3>2. CASE m = l
      <4>1. /\ row'[m] = i /\ i <= Len(problem[m]) /\ problem[m][i][2] = v /\ InUse(m)
            /\ row[m] \in Nat /\ i = row[m] + 1 /\ v \in Nat /\ Len(problem[m]) \in Nat
        BY <1>1, <1>4, <1>5, <1>8, <3>2, ListFacts
      <4>2. /\ \A n \in 1..row[m] : problem[m][n][2] <= v
            /\ \A n \in (row[m] + 1)..Len(problem[m]) : problem[m][n][2] >= v
        BY <1>2, <4>1 DEF CursorsFit
      <4>3. \A n \in 1..i : problem[m][n][2] <= v
        <5>1. \A n \in 1..i : n = i \/ n \in 1..row[m]
          BY <4>1
        <5> QED
          BY <4>1, <4>2, <5>1
      <4>4. \A n \in (i + 1)..Len(problem[m]) : n \in (row[m] + 1)..Len(problem[m])
        BY <4>1
      <4> QED
        BY <4>1, <4>2, <4>3, <4>4
    <3> QED
      BY <3>1, <3>2
  <2> QED
    BY <1>3, <1>8, <1>9, <2>1 DEF CursorsFit
<1>11. jc[col + 1] \in Nat /\ jc[col + 1] <= L
  <2>1. jc \in Seq(Nat) /\ \A n \in DOMAIN jc : jc[n] <= L
    BY <1>1 DEF SizesFit
  <2>2. col + 1 \in DOMAIN jc
    BY <1>2, <2>1
  <2> QED
    BY <2>1, <2>2
<1>12. Q = P \cup {L + 1} /\ \A k \in P : k \in 1..L /\ k < L + 1
  BY <1>7, <1>11
<1>13. OpenColumn'
  <2>1. ASSUME NEW k \in P PROVE ir[k] < r
    <3>1. PICK m \in Lists : \E n \in 1..row[m] : IsHere(m, n) /\ ir[k] = RowHere(m, n)
      BY <1>2 DEF OpenColumn
    <3>2. PICK n \in 1..row[m] : IsHere(m, n) /\ ir[k] = RowHere(m, n)
      BY <3>1
    <3>3. /\ row[m] \in Nat /\ n \in 1..Len(problem[m]) /\ S + Shift[m] \in AllPeriods
          /\ problem[m][n][1] \in 0..(ny - 1) /\ problem[m][n][2] = v
          /\ ir[k] = (S + Shift[m]) * ny + problem[m][n][1]
      <4>1. row[m] \in Nat /\ row[m] <= Len(problem[m]) /\ Len(problem[m]) \in Nat
        BY <1>1, <1>2, ListFacts DEF CursorsFit
      <4>2. n \in 1..Len(problem[m])
        BY <4>1
      <4> QED
        BY <1>1, <3>2, <4>1, <4>2, ListFacts DEF IsHere, InUse, RowHere, Variables
    <3>4. CASE m = l
      <4>1. n < i /\ n \in 1..Len(problem[l])
        BY <1>4, <3>3, <3>4
      <4>2. problem[l][n][1] < problem[l][i][1]
        <5>1. \/ problem[l][n][2] < problem[l][i][2]
              \/ problem[l][n][2] = problem[l][i][2] /\ problem[l][n][1] < problem[l][i][1]
          BY <1>1, <1>4, <4>1, ListFacts
        <5>2. problem[l][n][2] = v /\ problem[l][i][2] = v /\ v \in Nat
          BY <1>4, <1>5, <3>3, <3>4
        <5> QED
          BY <5>1, <5>2
      <4> DEFINE first == (S + Shift[l]) * ny
                 e == problem[l][n][1]
                 g == problem[l][i][1]
      <4>3. first \in Int
        BY <1>5
      <4>4. ir[k] = first + e /\ r = first + g
        BY <1>6, <3>3, <3>4
      <4>5. e \in Int /\ g \in Int /\ e < g
        BY <1>6, <3>3, <3>4, <4>2
      <4> HIDE DEF first, e, g, r
      <4> QED
        BY <4>3, <4>4, <4>5
    <3>5. CASE Shift[m] < Shift[l]
      <4>1. S + Shift[m] < S + Shift[l] /\ S + Shift[m] \in Int /\ S + Shift[l] \in Int
        BY <1>5, <3>5, Shifts
      <4> QED
        BY <1>5, <1>6, <3>3, <4>1, RowsInOrder
    <3>6. CASE Shift[l] < Shift[m]
      <4>1. ~HasNext(l)
        BY <1>2, <3>2, <3>6 DEF OpenColumn
      <4> QED
        BY <1>3, <4>1
    <3> QED
      BY <3>4, <3>5, <3>6, ShiftsDiffer, Shifts
  <2>2. \A k, m \in Q : k < m => ir'[k] < ir'[m]
    <3>1. \A k, m \in P : k < m => ir[k] < ir[m]
      BY <1>2 DEF OpenColumn
    <3> HIDE DEF P, Q, r
    <3> QED
      BY <1>7, <1>12, <2>1, <3>1 DEF P
  <2>3. ASSUME NEW k \in Q
        PROVE  \E m \in Lists : \E n \in 1..row'[m] : IsHere(m, n) /\ ir'[k] = RowHere(m, n)
    <3>1. CASE k \in P
      <4>1. PICK m \in Lists : \E n \in 1..row[m] : IsHere(m, n) /\ ir[k] = RowHere(m, n)
        BY <1>2, <3>1 DEF OpenColumn
      <4>2. PICK n \in 1..row[m] : IsHere(m, n) /\ ir[k] = RowHere(m, n)
        BY <4>1
      <4>3. n \in 1..row'[m]
        BY <1>4, <1>8
      <4> QED
        BY <1>7, <1>12, <3>1, <4>2, <4>3
    <3>2. CASE k = L + 1
      <4>1. i \in 1..row'[l] /\ IsHere(l, i)
        BY <1>4, <1>8 DEF IsHere
      <4> QED
        BY <1>7, <3>2, <4>1
    <3> QED
      BY <1>12, <3>1, <3>2
  <2>4. ASSUME NEW m \in Lists, NEW n \in 1..row'[m], IsHere(m, n)
        PROVE  \E k \in Q : ir'[k] = RowHere(m, n)
    <3>1. CASE m = l /\ n = i
      <4>1. L + 1 \in Q
        BY <1>12
      <4> QED
        BY <1>7, <3>1, <4>1
    <3>2. CASE ~(m = l /\ n = i)
      <4>1. n \in 1..row[m]
        BY <1>4, <1>8, <3>2
      <4>2. PICK k \in P : ir[k] = RowHere(m, n)
        BY <1>2, <2>4, <4>1 DEF OpenColumn
      <4> QED
        BY <1>7, <1>12, <4>2
    <3> QED
      BY <3>1, <3>2
  <2>5. ASSUME NEW h \in Lists, NEW m \in Lists, NEW n \in 1..row'[h], Shift[m] < Shift[h], IsHere(h, n)
        PROVE  ~HasNext(m)'
    <3>1. CASE h = l /\ n = i
      <4>1. ~HasNext(m) /\ m # l
        BY <1>3, <2>5, <3>1, Shifts
      <4> QED
        BY <1>9, <4>1
    <3>2. CASE ~(h = l /\ n = i)
      <4>1. n \in 1..row[h]
        BY <1>4, <1>8, <3>2
      <4>2. ~HasNext(m)
        BY <1>2, <2>5, <4>1 DEF OpenColumn
      <4>3. m # l
        BY <1>3, <4>2
      <4> QED
        BY <1>9, <4>2, <4>3
    <3> QED
      BY <3>1, <3>2
  <2>6. ((jc[col + 1] + 1)..Len(ir))' = Q
    BY <1>3, <1>7
  <2> HIDE DEF Q, P
  <2> QED
    BY <1>9, <2>2, <2>3, <2>4, <2>5, <2>6 DEF OpenColumn
<1>14. Len(ir') = Counted("fwrd")' + Counted("current")' + Counted("pred")'
  <2>1. L = Counted("fwrd") + Counted("current") + Counted("pred")
    BY <1>1 DEF PatternGrows
  <2>2. \A m \in Lists : Counted(m)' = TimesUsed(m, S) * Len(problem[m]) + row'[m]
    BY <1>3, <1>9 DEF Counted, TimesUsed
  <2>3. \A m \in Lists : TimesUsed(m, S) * Len(problem[m]) \in Nat
    BY <1>1, <1>2, <1>5, Room DEF CursorsFit, InUse
  <2>4. \A m \in Lists : m # l => Counted(m)' = Counted(m) /\ Counted(m) \in Nat
    BY <1>4, <1>8, <2>2, <2>3 DEF Counted
  <2>5. Counted(l)' = Counted(l) + 1 /\ Counted(l) \in Nat
    <3>1. Counted(l) = TimesUsed(l, S) * Len(problem[l]) + row[l]
      BY DEF Counted
    <3>2. Counted(l)' = TimesUsed(l, S) * Len(problem[l]) + (row[l] + 1)
      BY <1>8, <2>2
    <3> QED
      BY <1>4, <2>3, <3>1, <3>2
  <2>6. CASE l = "fwrd"
    BY <1>7, <2>1, <2>4, <2>5, <2>6 DEF Lists
  <2>7. CASE l = "current"
    BY <1>7, <2>1, <2>4, <2>5, <2>7 DEF Lists
  <2>8. CASE l = "pred"
    BY <1>7, <2>1, <2>4, <2>5, <2>8 DEF Lists
  <2> QED
    BY <2>6, <2>7, <2>8 DEF Lists
<1>15. Len(ir') <= nzmax
  <2>1. \A m \in Lists : row'[m] <= Len(problem[m]) /\ (S + Shift[m] \notin AllPeriods => row'[m] = 0)
    BY <1>3, <1>9, <1>10, SameProblem DEF CursorsFit, InUse
  <2>2. TimesUsed("fwrd", S) * Len(problem["fwrd"]) + row'["fwrd"]
          + (TimesUsed("current", S) * Len(problem["current"]) + row'["current"])
          + (TimesUsed("pred", S) * Len(problem["pred"]) + row'["pred"]) <= nzmax
    BY <1>1, <1>5, <1>8, <2>1, Room
  <2>3. /\ Counted("fwrd")' = TimesUsed("fwrd", S) * Len(problem["fwrd"]) + row'["fwrd"]
        /\ Counted("current")' = TimesUsed("current", S) * Len(problem["current"]) + row'["current"]
        /\ Counted("pred")' = TimesUsed("pred", S) * Len(problem["pred"]) + row'["pred"]
    BY <1>3, <1>9 DEF Counted, TimesUsed
  <2> QED
    BY <1>14, <2>2, <2>3
<1>16. SizesFit'
  BY <1>1, <1>3, <1>7, <1>15, SameProblem DEF SizesFit
<1>17. ASSUME NEW c \in 0..(col - 1)
       PROVE  ColumnIs(c, Bounds(c), {})'
  <2>1. unassigned' = AllPeriods
    BY <1>1, <1>3 DEF ThreadInv, ThreadsInStep
  <2>2. c \in Nat /\ c + 2 <= Len(jc)
    BY <1>2
  <2>3. ColumnIs(c, Bounds(c), {})
    BY <1>1 DEF PatternGrows
  <2> QED
    BY <1>1, <1>3, <1>7, <2>1, <2>2, <2>3, OldColumns
<1>18. PatternGrows'
  BY <1>2, <1>3, <1>10, <1>13, <1>14, <1>17, SameProblem DEF PatternGrows
<1> QED
  BY <1>1, <1>3, <1>16, <1>18 DEF JacobianInv

-----------------------------------------------------------------------------
(* A column of the pattern is complete *)

\* The elements of a list that are not used yet come after the column when the
\* next one does.
LEMMA NothingLeft ==
  ASSUME problem \in Problems, col \in 0..Columns, col # Columns, CursorsFit,
         NEW l \in Lists, ~HasNext(l), InUse(l),
         NEW n \in (row[l] + 1)..Len(problem[l])
  PROVE  problem[l][n][2] > VariableOf(col)
<1> DEFINE v == VariableOf(col)
           i == row[l] + 1
<1>1. row[l] \in Nat /\ Len(problem[l]) \in Nat
  BY ListFacts DEF CursorsFit
<1>2. i \in 1..Len(problem[l]) /\ n \in 1..Len(problem[l]) /\ i <= n /\ i \in i..Len(problem[l])
  BY <1>1
<1>3. problem[l][i][2] \in Nat /\ problem[l][n][2] \in Nat /\ v \in Nat
  <2>1. problem[l][i][2] \in Variables /\ problem[l][n][2] \in Variables /\ v \in Variables
    BY <1>2, ListFacts, ColumnFacts
  <2> QED
    BY <2>1, ProblemFacts DEF Variables
<1>4. problem[l][i][2] >= v
  BY <1>2 DEF CursorsFit
<1>5. row[l] < Len(problem[l])
  BY <1>1, <1>2
<1>6. problem[l][i][2] # v
  BY <1>5 DEF HasNext, InUse
<1>7. problem[l][i][2] <= problem[l][n][2]
  <2>1. CASE i = n
    BY <1>3, <2>1
  <2>2. CASE i < n
    BY <1>2, <1>3, <2>2, ListFacts
  <2> QED
    BY <1>1, <1>2, <2>1, <2>2
<1> HIDE DEF v, i
<1>8. problem[l][n][2] > v
  BY <1>3, <1>4, <1>6, <1>7
<1> QED
  BY <1>8 DEF v

\* A column from which nothing is left in the lists has all its derivatives.
LEMMA ColumnIsComplete ==
  ASSUME problem \in Problems, col \in 0..Columns, col # Columns, CursorsFit, OpenColumn,
         \A l \in Lists : ~HasNext(l), unassigned = AllPeriods
  PROVE  ColumnIs(col, (jc[col + 1] + 1)..Len(ir), {})
<1> DEFINE S == PeriodOf(col)
           v == VariableOf(col)
           P == (jc[col + 1] + 1)..Len(ir)
<1>1. /\ S \in AllPeriods /\ v \in Nat /\ col = S * problem.ny + v
  BY ColumnFacts
<1>2. \A k, m \in P : k < m => ir[k] < ir[m]
  BY DEF OpenColumn
<1>3. \A x \in Pattern : ~Stored(x[1])
  BY PatternFacts DEF Stored
<1>4. ASSUME NEW k \in P
      PROVE  \E x \in Pattern : ColumnOf(x) = col /\ ir[k] = RowOf(x)
  <2>1. PICK l \in Lists : \E n \in 1..row[l] : IsHere(l, n) /\ ir[k] = RowHere(l, n)
    BY DEF OpenColumn
  <2>2. PICK n \in 1..row[l] : IsHere(l, n) /\ ir[k] = RowHere(l, n)
    BY <2>1
  <2>3. n \in 1..Len(problem[l])
    <3>1. row[l] \in Nat /\ row[l] <= Len(problem[l]) /\ Len(problem[l]) \in Nat
      BY ListFacts DEF CursorsFit
    <3> QED
      BY <3>1
  <2>4. S + Shift[l] \in AllPeriods /\ problem[l][n][2] = v
    BY <2>2 DEF IsHere, InUse
  <2> DEFINE x == <<S + Shift[l], S, problem[l][n]>>
  <2>5. x \in Pattern
    BY <1>1, <2>3, <2>4, OfList
  <2>6. ColumnOf(x) = col
    BY <1>1, <2>4 DEF ColumnOf
  <2>7. RowOf(x) = RowHere(l, n)
    BY DEF RowOf, RowHere
  <2> QED
    BY <2>2, <2>5, <2>6, <2>7
<1>5. ASSUME NEW x \in Pattern, ColumnOf(x) = col
      PROVE  \E k \in P : ir[k] = RowOf(x)
  <2>1. PICK l \in Lists : \E n \in 1..Len(problem[l]) :
          x[1] = x[2] + Shift[l] /\ problem[l][n] = x[3]
    BY InList
  <2>2. PICK n \in 1..Len(problem[l]) : x[1] = x[2] + Shift[l] /\ problem[l][n] = x[3]
    BY <2>1
  <2>3. x[2] = S /\ x[3][2] = v
    BY <1>5, PlaceFacts
  <2>4. IsHere(l, n)
    BY <2>2, <2>3, PatternFacts DEF IsHere, InUse
  <2>5. n \in 1..row[l]
    <3> SUFFICES ASSUME n \notin 1..row[l] PROVE FALSE
      OBVIOUS
    <3>1. n \in (row[l] + 1)..Len(problem[l])
      <4>1. row[l] \in Nat /\ Len(problem[l]) \in Nat
        BY ListFacts DEF CursorsFit
      <4> QED
        BY <4>1
    <3>2. problem[l][n][2] > v
      BY <2>4, <3>1, NothingLeft DEF IsHere
    <3> QED
      BY <1>1, <2>2, <2>3, <3>2
  <2>6. PICK k \in P : ir[k] = RowHere(l, n)
    BY <2>4, <2>5 DEF OpenColumn
  <2>7. RowHere(l, n) = RowOf(x)
    BY <2>2, <2>3 DEF RowOf, RowHere
  <2> QED
    BY <2>6, <2>7
<1> HIDE DEF P
<1>6. ColumnIs(col, P, {})
  BY <1>2, <1>3, <1>4, <1>5 DEF ColumnIs
<1> QED
  BY <1>6 DEF P

\* At the last variable of a period each list has been used as often as counted.
LEMMA PeriodIsCounted ==
  ASSUME problem \in Problems, col \in 0..Columns, col # Columns, CursorsFit,
         \A l \in Lists : ~HasNext(l), VariableOf(col) + 1 = problem.ny, NEW l \in Lists
  PROVE  Counted(l) = TimesUsed(l, PeriodOf(col) + 1) * Len(problem[l])
<1> DEFINE S == PeriodOf(col)
           f == Len(problem[l])
           r == row[l]
           p == problem.periods
<1>1. S \in Nat /\ S < p /\ p \in Nat /\ f \in Nat /\ r \in Nat /\ r <= f /\ VariableOf(col) \in Nat
  BY ColumnFacts, ProblemFacts, ListFacts DEF CursorsFit, AllPeriods
<1>2. ~InUse(l) => r = 0
  BY DEF CursorsFit
<1>3. InUse(l) => r = f
  <2> SUFFICES ASSUME InUse(l), r # f PROVE FALSE
    OBVIOUS
  <2>1. r + 1 \in (r + 1)..f /\ r + 1 \in 1..f
    BY <1>1
  <2>2. problem[l][r + 1][2] > VariableOf(col)
    BY <2>1, NothingLeft
  <2>3. problem[l][r + 1][2] \in 0..(problem.ny - 1)
    BY <2>1, ListFacts DEF Variables
  <2> DEFINE w == problem[l][r + 1][2]
             v == VariableOf(col)
             n == problem.ny
  <2>4. w > v /\ w \in 0..(n - 1) /\ v + 1 = n /\ v \in Nat /\ n \in Nat
    BY <1>1, <2>2, <2>3, ProblemFacts
  <2> HIDE DEF w, v, n
  <2> QED
    BY <2>4
<1>4. InUse(l) <=> S + Shift[l] \in 0..(p - 1)
  BY DEF InUse, AllPeriods
<1>5. Counted(l) = TimesUsed(l, S) * f + r
  BY DEF Counted
<1> HIDE DEF S, f, r
<1>6. TimesUsed(l, S + 1) = IF InUse(l) THEN TimesUsed(l, S) + 1 ELSE TimesUsed(l, S)
  BY <1>1, <1>4, Shifts DEF TimesUsed, Lists
<1>7. TimesUsed(l, S) \in Int
  BY <1>1 DEF TimesUsed
<1>8. CASE InUse(l)
  <2>1. (TimesUsed(l, S) + 1) * f = TimesUsed(l, S) * f + f
    BY <1>1, <1>7
  <2> QED
    BY <1>3, <1>5, <1>6, <1>8, <2>1 DEF S, f
<1>9. CASE ~InUse(l)
  <2>1. TimesUsed(l, S) * f + 0 = TimesUsed(l, S) * f
    BY <1>1, <1>7
  <2> QED
    BY <1>2, <1>5, <1>6, <1>9, <2>1 DEF S, f
<1> QED
  BY <1>8, <1>9

\* The column ends.
LEMMA EndPattern ==
  ASSUME ThreadInv, JacobianInv, EndColumn
  PROVE  JacobianInv'
<1> DEFINE S == PeriodOf(col)
           v == VariableOf(col)
           L == Len(ir)
           P == (jc[col + 1] + 1)..L
<1>1. /\ problem \in Problems /\ problem.jacobian /\ phase = "pattern"
      /\ SizesFit /\ PatternGrows /\ k_orig = 0 /\ k_new = 0
  BY DEF EndColumn, Building, ThreadInv, JacobianInv
<1>2. /\ col \in 0..Columns /\ col # Columns /\ Len(jc) = col + 1 /\ Columns \in Nat
      /\ CursorsFit /\ OpenColumn /\ row \in [Lists -> Nat]
  BY <1>1, ProblemFacts DEF PatternGrows, EndColumn, Building, CursorsFit
<1>3. /\ \A l \in Lists : ~HasNext(l)
      /\ jc' = Append(jc, L) /\ col' = col + 1
      /\ row' = IF VariableOf(col + 1) = 0 THEN NoneUsed ELSE row
      /\ UNCHANGED <<problem, phase, ir, k_orig, k_new>> /\ unassigned' = unassigned
  BY <1>2 DEF EndColumn, parallel
<1>4. /\ S \in AllPeriods /\ v \in Variables /\ S \in Nat /\ v \in Nat /\ problem.ny \in Nat \ {0}
  BY <1>1, <1>2, ColumnFacts, ProblemFacts
<1>5. /\ jc \in Seq(Nat) /\ L \in Nat /\ jc' \in Seq(Nat) /\ Len(jc') = col + 2 /\ jc'[col + 2] = L
      /\ \A n \in 1..(col + 1) : jc'[n] = jc[n]
      /\ DOMAIN jc = 1..(col + 1) /\ DOMAIN jc' = 1..(col + 2)
  <2>1. jc \in Seq(Nat) /\ L \in Nat /\ col \in Nat
    BY <1>1, <1>2 DEF SizesFit
  <2>2. jc' \in Seq(Nat) /\ Len(jc') = Len(jc) + 1 /\ jc'[Len(jc) + 1] = L
    BY <1>3, <2>1
  <2>3. \A n \in 1..Len(jc) : jc'[n] = jc[n]
    BY <1>3, <2>1
  <2>4. DOMAIN jc = 1..Len(jc) /\ DOMAIN jc' = 1..Len(jc')
    BY <2>1, <2>2
  <2>5. Len(jc) + 1 = col + 2
    BY <1>2, <2>1
  <2> QED
    BY <1>2, <2>1, <2>2, <2>3, <2>4, <2>5
<1>6. /\ \A l : InUse(l)' = (PeriodOf(col + 1) + Shift[l] \in AllPeriods)
      /\ \A l, n : IsHere(l, n)' = (InUse(l)' /\ problem[l][n][2] = VariableOf(col + 1))
      /\ VariableOf(col)' = VariableOf(col + 1) /\ PeriodOf(col)' = PeriodOf(col + 1)
  BY <1>3, SameProblem DEF InUse, IsHere, PeriodOf, VariableOf
<1>7. unassigned = AllPeriods /\ unassigned' = AllPeriods
  BY <1>1, <1>3 DEF ThreadInv, ThreadsInStep
<1>8. jc'[1] = 0 /\ jc' # <<>>
  BY <1>1, <1>2, <1>5 DEF SizesFit
<1>9. SizesFit'
  <2>3. \A n \in 1..(col + 1) : jc'[n] \in Nat /\ jc'[n] <= L
    <3>1. \A n \in DOMAIN jc : jc[n] \in Nat /\ jc[n] <= L
      BY <1>1 DEF SizesFit
    <3> QED
      BY <1>5, <3>1
  <2>4. \A m, n \in 1..(col + 1) : m <= n => jc'[m] <= jc'[n]
    BY <1>1, <1>5 DEF SizesFit
  <2>5. \A n \in DOMAIN jc' : n \in 1..(col + 1) \/ n = col + 2
    BY <1>2, <1>5
  <2>1. ASSUME NEW m \in DOMAIN jc', NEW n \in DOMAIN jc', m <= n
        PROVE  jc'[m] <= jc'[n]
    <3>1. CASE n = col + 2
      BY <1>5, <2>3, <2>5, <3>1
    <3>2. CASE n # col + 2
      <4>1. n \in 1..(col + 1) /\ m \in 1..(col + 1)
        BY <1>2, <1>5, <2>1, <2>5, <3>2
      <4> QED
        BY <2>1, <2>4, <4>1
    <3> QED
      BY <3>1, <3>2
  <2>2. \A n \in DOMAIN jc' : jc'[n] <= L
    BY <1>5, <2>3, <2>5
  <2> QED
    BY <1>1, <1>3, <1>5, <1>8, <2>1, <2>2, SameProblem DEF SizesFit
<1>10. ASSUME NEW c \in 0..(col' - 1)
       PROVE  ColumnIs(c, Bounds(c), {})'
  <2>1. CASE c \in 0..(col - 1)
    <3>1. c \in Nat /\ c + 2 <= Len(jc) /\ c + 1 \in 1..(col + 1) /\ c + 2 \in 1..(col + 1)
      BY <1>2, <2>1
    <3>2. ColumnIs(c, Bounds(c), {})
      BY <1>1, <2>1 DEF PatternGrows
    <3>3. jc'[c + 1] = jc[c + 1] /\ jc'[c + 2] = jc[c + 2]
      BY <1>5, <3>1
    <3> QED
      BY <1>1, <1>3, <1>7, <3>1, <3>2, <3>3, OldColumns
  <2>2. CASE c = col
    <3>1. PICK Q : Q = P
      OBVIOUS
    <3>2. ColumnIs(col, Q, {})
      BY <1>1, <1>2, <1>3, <1>7, <3>1, ColumnIsComplete
    <3>3. PICK d : d = col
      OBVIOUS
    <3>4. \A x \in Pattern : ~Stored(x[1])'
      BY <1>1, <1>7, PatternFacts DEF Stored
    <3>5. ColumnIs(d, Q, {})'
      BY <1>3, <3>2, <3>3, <3>4, ColumnKept
    <3>6. Bounds(c)' = Q
      BY <1>2, <1>3, <1>5, <2>2, <3>1 DEF Bounds
    <3> QED
      BY <2>2, <3>3, <3>5, <3>6
  <2> QED
    BY <1>2, <1>3, <2>1, <2>2
<1>11. ASSUME v + 1 < problem.ny
      PROVE  /\ CursorsFit' /\ \A l \in Lists : Counted(l)' = Counted(l)
             /\ \A l \in Lists : \A n \in 1..row'[l] : ~IsHere(l, n)'
  <2>1. PeriodOf(col + 1) = S /\ VariableOf(col + 1) = v + 1 /\ row' = row
    BY <1>1, <1>2, <1>3, <1>4, <1>11, NextColumn
  <2>2. \A l \in Lists : InUse(l)' = InUse(l)
    BY <1>6, <2>1 DEF InUse
  <2>3. ASSUME NEW l \in Lists
        PROVE  /\ row[l] <= Len(problem[l])
               /\ ~InUse(l) => row[l] = 0
               /\ \A n \in 1..row[l] : problem[l][n][2] < v + 1 /\ problem[l][n][2] <= v + 1
               /\ \A n \in (row[l] + 1)..Len(problem[l]) : InUse(l) => problem[l][n][2] >= v + 1
    <3>1. row[l] \in Nat /\ Len(problem[l]) \in Nat /\ row[l] <= Len(problem[l])
      BY <1>1, <1>2, ListFacts DEF CursorsFit
    <3>2. \A n \in 1..Len(problem[l]) : problem[l][n][2] \in Nat
      BY <1>1, ListFacts, ProblemFacts DEF Variables
    <3>3. \A n \in 1..row[l] : n \in 1..Len(problem[l]) /\ problem[l][n][2] <= v
      BY <1>2, <3>1 DEF CursorsFit
    <3>4. ASSUME NEW n \in (row[l] + 1)..Len(problem[l]), InUse(l)
          PROVE  problem[l][n][2] >= v + 1
      <4>1. problem[l][n][2] > v
        BY <1>1, <1>2, <1>3, <3>4, NothingLeft
      <4>2. n \in 1..Len(problem[l])
        BY <3>1
      <4> QED
        BY <1>4, <3>2, <4>1, <4>2
    <3>5. ~InUse(l) => row[l] = 0
      BY <1>2 DEF CursorsFit
    <3>6. \A n \in 1..row[l] : problem[l][n][2] < v + 1 /\ problem[l][n][2] <= v + 1
      BY <1>4, <3>2, <3>3
    <3> QED
      BY <3>1, <3>4, <3>5, <3>6
  <2>4. CursorsFit'
    BY <1>2, <1>3, <1>6, <2>1, <2>2, <2>3 DEF CursorsFit
  <2>5. \A l \in Lists : \A n \in 1..row'[l] : ~IsHere(l, n)'
    <3>1. \A l \in Lists : \A n \in 1..row[l] : problem[l][n][2] # v + 1
      <4> SUFFICES ASSUME NEW l \in Lists, NEW n \in 1..row[l] PROVE problem[l][n][2] # v + 1
        OBVIOUS
      <4>1. problem[l][n][2] < v + 1
        BY <2>3
      <4>2. n \in 1..Len(problem[l])
        BY <1>1, <1>2, <2>3, ListFacts
      <4>3. problem[l][n][2] \in Nat
        BY <1>1, <4>2, ListFacts, ProblemFacts DEF Variables
      <4> QED
        BY <1>4, <4>1, <4>3
    <3> QED
      BY <1>6, <2>1, <3>1
  <2>6. \A l \in Lists : Counted(l)' = Counted(l)
    BY <1>3, <1>6, <2>1 DEF Counted, TimesUsed
  <2> QED
    BY <2>4, <2>5, <2>6
<1>12. ASSUME v + 1 = problem.ny
      PROVE  /\ CursorsFit' /\ \A l \in Lists : Counted(l)' = Counted(l)
             /\ \A l \in Lists : \A n \in 1..row'[l] : ~IsHere(l, n)'
  <2>1. PeriodOf(col + 1) = S + 1 /\ VariableOf(col + 1) = 0 /\ row' = NoneUsed
    BY <1>1, <1>2, <1>3, <1>4, <1>12, NextColumn
  <2>2. row' \in [Lists -> Nat] /\ \A l \in Lists : row'[l] = 0
    BY <2>1 DEF NoneUsed, Lists
  <2>3. \A l \in Lists : \A n \in (0 + 1)..Len(problem[l]) : problem[l][n][2] >= 0
    BY <1>1, ListFacts, ProblemFacts DEF Variables
  <2>4. \A l \in Lists : Len(problem[l]) >= 0
    BY <1>1, ListFacts
  <2>5. CursorsFit'
    BY <1>3, <1>6, <2>1, <2>2, <2>3, <2>4 DEF CursorsFit
  <2>6. \A l \in Lists : \A n \in 1..row'[l] : ~IsHere(l, n)'
    BY <2>2
  <2>7. ASSUME NEW l \in Lists PROVE Counted(l)' = Counted(l)
    <3>1. Counted(l) = TimesUsed(l, S + 1) * Len(problem[l])
      BY <1>1, <1>2, <1>3, <1>12, PeriodIsCounted
    <3>2. Counted(l)' = TimesUsed(l, S + 1) * Len(problem[l]) + 0
      BY <1>3, <1>6, <2>1, <2>2 DEF Counted, TimesUsed
    <3>3. TimesUsed(l, S + 1) * Len(problem[l]) \in Int
      <4>1. TimesUsed(l, S + 1) \in Int /\ Len(problem[l]) \in Int
        BY <1>1, <1>4, ListFacts DEF TimesUsed
      <4> QED
        BY <4>1
    <3> QED
      BY <3>1, <3>2, <3>3
  <2> QED
    BY <2>5, <2>6, <2>7
<1>13. /\ CursorsFit' /\ \A l \in Lists : Counted(l)' = Counted(l)
       /\ \A l \in Lists : \A n \in 1..row'[l] : ~IsHere(l, n)'
  BY <1>1, <1>2, <1>11, <1>12, NextColumn
<1>14. OpenColumn'
  <2>1. ((jc[col + 1] + 1)..Len(ir))' = {}
    BY <1>2, <1>3, <1>5
  <2>2. \A l \in Lists : \A n \in 1..row'[l] : IsHere(l, n)' => FALSE
    BY <1>13
  <2>3. \A k \in {} : FALSE
    OBVIOUS
  <2> QED
    BY <2>1, <2>2, <2>3 DEF OpenColumn
<1>15. Len(ir') = Counted("fwrd")' + Counted("current")' + Counted("pred")'
  BY <1>1, <1>3, <1>13 DEF PatternGrows, Lists
<1>16. col' \in 0..Columns /\ Len(jc') = col' + 1 /\ jc'[col' + 1] = Len(ir')
  BY <1>2, <1>3, <1>5
<1>17. PatternGrows'
  BY <1>3, <1>10, <1>13, <1>14, <1>15, <1>16, SameProblem DEF PatternGrows
<1> QED
  BY <1>1, <1>3, <1>9, <1>17 DEF JacobianInv

-----------------------------------------------------------------------------
(* The matrix between its pattern and the removal of zeros *)

\* A column is as before if its elements are.
LEMMA ColumnSame ==
  ASSUME UNCHANGED <<problem, unassigned, place>>, NEW c, NEW P, NEW N, ColumnIs(c, P, N),
         \A k \in P : ir'[k] = ir[k] /\ stacked_jacobian'[k] = stacked_jacobian[k]
  PROVE  ColumnIs(c, P, N)'
<1>1. \A T : Stored(T)' = Stored(T)
  BY DEF Stored
<1> QED
  BY <1>1, ColumnKept

\* The pattern is complete: the matrix is allocated.
LEMMA StartPattern ==
  ASSUME ThreadInv, JacobianInv, StartThreads
  PROVE  JacobianInv'
<1>1. /\ phase = "pattern" /\ phase' = "parallel"
      /\ stacked_jacobian' = [k \in DOMAIN ir |-> ZeroElement]
      /\ UNCHANGED <<problem, col, row, ir, jc, k_orig, k_new, unassigned>>
  BY DEF StartThreads, serial, parallel
<1>2. CASE problem.jacobian
  <2>1. /\ SizesFit /\ PatternGrows /\ col = Columns /\ Columns \in Nat /\ k_orig = 0 /\ k_new = 0
        /\ problem \in Problems /\ unassigned = AllPeriods
    BY <1>1, <1>2, ProblemFacts
       DEF ThreadInv, ThreadsInStep, JacobianInv, PatternGrows, StartThreads, Building
  <2>2. stacked_jacobian' = [k \in 1..Len(ir) |-> stacked_jacobian'[k]]
    BY <1>1, <2>1 DEF SizesFit
  <2>3. SizesFit'
    BY <1>1, <2>1, <2>2, SameProblem DEF SizesFit
  <2>4. Len(jc) = Columns + 1 /\ jc[Columns + 1] = Len(ir)
    BY <2>1 DEF PatternGrows
  <2>5. ASSUME NEW c \in 0..(Columns - 1)
        PROVE  ColumnIs(c, Bounds(c), {})'
    <3>1. c \in Nat /\ c + 2 <= Len(jc)
      BY <2>1, <2>4
    <3>2. ColumnIs(c, Bounds(c), {})
      BY <2>1 DEF PatternGrows
    <3> QED
      BY <1>1, <2>1, <3>1, <3>2, OldColumns
  <2>6. PatternIsComplete'
    BY <1>1, <2>4, <2>5, SameProblem DEF PatternIsComplete
  <2> QED
    BY <1>1, <2>1, <2>3, <2>6 DEF JacobianInv
<1>3. CASE ~problem.jacobian
  BY <1>1, <1>3 DEF JacobianInv
<1> QED
  BY <1>2, <1>3

\* The threads join: the removal of zeros begins with the first column.
LEMMA JoinColumns ==
  ASSUME ThreadInv, JacobianInv, Join
  PROVE  JacobianInv'
<1>1. /\ phase = "parallel" /\ col' = 0
      /\ phase' = IF error_msg THEN "error" ELSE IF problem.jacobian THEN "clean" ELSE "returned"
      /\ UNCHANGED <<problem, unassigned, place, ir, jc, stacked_jacobian, k_orig, k_new>>
  BY DEF Join, parallel
<1>2. CASE problem.jacobian
  <2>1. /\ SizesFit /\ PatternIsComplete /\ k_orig = 0 /\ k_new = 0
        /\ problem \in Problems /\ Columns \in Nat /\ Len(jc) = Columns + 1
    BY <1>1, <1>2, ProblemFacts DEF ThreadInv, JacobianInv, PatternIsComplete
  <2>2. SizesFit'
    BY <1>1, <2>1, SameProblem DEF SizesFit
  <2>3. jc[1] = 0 /\ Len(ir) \in Nat /\ (0 < Columns => jc[2] \in Nat)
    <3>1. DOMAIN jc = 1..(Columns + 1) /\ jc \in Seq(Nat) /\ ir \in Seq(Int)
      BY <2>1 DEF SizesFit
    <3> QED
      BY <2>1, <3>1 DEF SizesFit
  <2>4. ASSUME NEW c \in 0..(Columns - 1)
        PROVE  ColumnIs(c, Remaining(c), Moved(c))'
    <3>1. ColumnIs(c, Bounds(c), {})
      BY <2>1 DEF PatternIsComplete
    <3>2. Bounds(c)' = Bounds(c) /\ c \in Nat /\ c + 2 <= Len(jc)
      BY <1>1, <2>1 DEF Bounds
    <3>3. Moved(c)' = {}
      BY <1>1, <2>1, <2>3 DEF Moved
    <3>4. Remaining(c)' = Bounds(c)
      <4>1. CASE c = 0
        <5>1. Remaining(c)' = ((0 + 1)..0) \cup ((0 + 1)..jc[2])
          BY <1>1, <2>1, <2>3, <4>1 DEF Remaining
        <5>2. Bounds(c) = (0 + 1)..jc[2]
          BY <2>3, <4>1 DEF Bounds
        <5>3. (0 + 1)..0 = {}
          OBVIOUS
        <5> QED
          BY <5>1, <5>2, <5>3
      <4>2. CASE c # 0
        BY <1>1, <3>2, <4>2 DEF Remaining
      <4> QED
        BY <4>1, <4>2
    <3>5. PICK P : P = Bounds(c)
      OBVIOUS
    <3>6. ColumnIs(c, P, {})'
      BY <1>1, <3>1, <3>5, ColumnSame
    <3> QED
      BY <3>3, <3>4, <3>5, <3>6
  <2>5. ZerosGo'
    BY <1>1, <2>1, <2>3, <2>4, SameProblem DEF ZerosGo
  <2>6. phase' \in {"error", "clean"}
    BY <1>1, <1>2
  <2> QED
    BY <1>1, <2>2, <2>5, <2>6 DEF JacobianInv
<1>3. CASE ~problem.jacobian
  BY <1>1, <1>3 DEF JacobianInv
<1> QED
  BY <1>2, <1>3

\* The result is returned.
LEMMA ReturnColumns ==
  ASSUME ThreadInv, JacobianInv, Return
  PROVE  JacobianInv'
<1>1. /\ phase = "clean" /\ phase' = "returned" /\ col = Columns
      /\ UNCHANGED <<problem, unassigned, place, col, ir, jc, stacked_jacobian, k_orig, k_new>>
  BY DEF Return, serial, parallel
<1>2. CASE problem.jacobian
  <2>1. SizesFit /\ ZerosGo
    BY <1>1, <1>2 DEF JacobianInv
  <2>2. SizesFit'
    BY <1>1, <2>1, SameProblem DEF SizesFit
  <2>3. ASSUME NEW c \in 0..(Columns - 1)
        PROVE  ColumnIs(c, Remaining(c), Moved(c))'
    <3>1. Remaining(c)' = Remaining(c) /\ Moved(c)' = Moved(c)
      BY <1>1 DEF Remaining, Moved, Bounds
    <3>2. PICK P : P = Remaining(c)
      OBVIOUS
    <3>3. PICK N : N = Moved(c)
      OBVIOUS
    <3>4. ColumnIs(c, P, N)
      BY <2>1, <3>2, <3>3 DEF ZerosGo
    <3>5. ColumnIs(c, P, N)'
      BY <1>1, <3>4, ColumnSame
    <3> QED
      BY <3>1, <3>2, <3>3, <3>5
  <2>4. ZerosGo'
    BY <1>1, <2>1, <2>3, SameProblem DEF ZerosGo
  <2> QED
    BY <1>1, <2>2, <2>4, SameProblem DEF JacobianInv
<1>3. CASE ~problem.jacobian
  BY <1>1, <1>3 DEF JacobianInv
<1> QED
  BY <1>2, <1>3

-----------------------------------------------------------------------------
(* The zeros are removed *)

\* What is known while the zeros are removed.
LEMMA CleanFacts ==
  ASSUME ThreadInv, JacobianInv, NoMatrix, Cleaning
  PROVE  /\ problem.jacobian /\ problem \in Problems /\ phase = "clean" /\ SizesFit /\ ZerosGo
         /\ col \in 0..(Columns - 1) /\ col \in Nat /\ col + 2 <= Len(jc) /\ Columns \in Nat
         /\ Len(jc) = Columns + 1
         /\ k_new \in Nat /\ k_orig \in Nat /\ jc[col + 1] \in Nat /\ jc[col + 2] \in Nat
         /\ Len(ir) \in Nat
         /\ jc[col + 1] <= k_new /\ k_new <= k_orig /\ k_orig <= jc[col + 2] /\ jc[col + 2] <= Len(ir)
         /\ \A T \in AllPeriods : Stored(T)
<1>1. problem.jacobian /\ problem \in Problems /\ phase = "clean" /\ SizesFit /\ ZerosGo /\ Columns \in Nat
  BY ProblemFacts DEF ThreadInv, JacobianInv, NoMatrix, Cleaning
<1>2. /\ col \in 0..(Columns - 1) /\ col \in Nat /\ col + 2 <= Len(jc) /\ Len(jc) = Columns + 1
      /\ k_new \in Nat /\ k_orig \in Nat
      /\ jc[col + 1] <= k_new /\ k_new <= k_orig /\ k_orig <= jc[col + 2]
  BY <1>1 DEF ZerosGo, Cleaning
<1>3. jc[col + 1] \in Nat /\ jc[col + 2] \in Nat /\ jc[col + 2] <= Len(ir) /\ Len(ir) \in Nat
  BY <1>1, <1>2, BoundsFacts DEF SizesFit
<1>4. \A T \in AllPeriods : Stored(T)
  <2>1. unassigned = {} /\ \A t \in Threads : place[t] = Idle
    BY <1>1 DEF ThreadInv, ThreadsInStep
  <2>2. \A T \in AllPeriods : T # -1
    BY <1>1, ProblemFacts DEF AllPeriods
  <2> QED
    BY <2>1, <2>2 DEF Stored, Idle
<1> QED
  BY <1>1, <1>2, <1>3, <1>4

\* A column whose elements stay, while those of another one move.
LEMMA OtherColumn ==
  ASSUME UNCHANGED <<problem, unassigned, place>>, NEW c, ColumnIs(c, Remaining(c), Moved(c)),
         Remaining(c)' = Remaining(c), Moved(c)' = Moved(c),
         \A k \in Remaining(c) : ir'[k] = ir[k] /\ stacked_jacobian'[k] = stacked_jacobian[k]
  PROVE  ColumnIs(c, Remaining(c), Moved(c))'
<1>1. PICK P : P = Remaining(c)
  OBVIOUS
<1>2. PICK N : N = Moved(c)
  OBVIOUS
<1>3. ColumnIs(c, P, N)'
  BY <1>1, <1>2, ColumnSame
<1> QED
  BY <1>1, <1>2, <1>3

\* The derivative at a place whose period is stored.
LEMMA ElementOf ==
  ASSUME problem \in Problems, \A T \in AllPeriods : Stored(T),
         NEW c, NEW P, NEW N, ColumnIs(c, P, N), NEW k \in P
  PROVE  \E x \in Pattern : /\ ColumnOf(x) = c /\ ir[k] = RowOf(x)
                            /\ stacked_jacobian[k] = ValueIn(x)
                            /\ k \in N => ~IsZero(x)
BY PatternFacts DEF ColumnIs

\* A zero is left behind.
LEMMA SkipZero ==
  ASSUME problem \in Problems, \A T \in AllPeriods : Stored(T),
         NEW c, NEW P, NEW N, ColumnIs(c, P, N), NEW k \in P, stacked_jacobian[k] = ZeroElement
  PROVE  ColumnIs(c, P \ {k}, N)
<1>1. PICK z \in Pattern : ColumnOf(z) = c /\ ir[k] = RowOf(z) /\ stacked_jacobian[k] = ValueIn(z)
  BY ElementOf
<1>2. IsZero(z)
  BY <1>1, NotZero DEF ValueIn
<1>3. ASSUME NEW x \in Pattern, ColumnOf(x) = c, ~IsZero(x)
      PROVE  \E q \in P \ {k} : ir[q] = RowOf(x)
  <2>1. PICK q \in P : ir[q] = RowOf(x)
    BY <1>3 DEF ColumnIs
  <2>2. q # k
    BY <1>1, <1>2, <1>3, <2>1, OneDerivative
  <2> QED
    BY <2>1, <2>2
<1>4. /\ \A q, m \in P \ {k} : q < m => ir[q] < ir[m]
      /\ \A q \in P \ {k} : \E x \in Pattern :
           /\ ColumnOf(x) = c /\ ir[q] = RowOf(x)
           /\ Stored(x[1]) => stacked_jacobian[q] = ValueIn(x)
           /\ q \in N => ~IsZero(x)
  BY DEF ColumnIs
<1> QED
  BY <1>3, <1>4 DEF ColumnIs

\* What remains when an element is left behind.
LEMMA LeftBehind ==
  ASSUME NEW a \in Nat, NEW n \in Nat, NEW k \in Nat, NEW b \in Nat, n < k, k <= b
  PROVE  ((a + 1)..n) \cup ((k + 1)..b) = (((a + 1)..n) \cup (k..b)) \ {k}
OBVIOUS

\* An element goes on, or moves to the next place.
LEMMA MoveColumns ==
  ASSUME ThreadInv, JacobianInv, NoMatrix, MoveElement
  PROVE  JacobianInv'
<1> DEFINE k == k_orig + 1
           j == k_new + 1
           a == jc[col + 1]
           b == jc[col + 2]
<1>1. Cleaning /\ k_orig < b
  BY DEF MoveElement
<1>2. /\ problem.jacobian /\ problem \in Problems /\ phase = "clean" /\ SizesFit /\ ZerosGo
      /\ col \in 0..(Columns - 1) /\ col \in Nat /\ col + 2 <= Len(jc) /\ Columns \in Nat
      /\ Len(jc) = Columns + 1
      /\ k_new \in Nat /\ k_orig \in Nat /\ a \in Nat /\ b \in Nat /\ Len(ir) \in Nat
      /\ a <= k_new /\ k_new <= k_orig /\ k_orig <= b /\ b <= Len(ir)
      /\ \A T \in AllPeriods : Stored(T)
  BY <1>1, CleanFacts
<1>3. /\ k_orig' = k
      /\ UNCHANGED <<problem, phase, unassigned, place, col, row, jc>>
  BY DEF MoveElement, parallel
<1>4. /\ DOMAIN ir = 1..Len(ir) /\ ir \in Seq(Int)
      /\ stacked_jacobian = [m \in 1..Len(ir) |-> stacked_jacobian[m]]
  BY <1>2 DEF SizesFit
<1>5. k \in 1..Len(ir) /\ j \in 1..Len(ir) /\ j <= k /\ k <= b
  BY <1>1, <1>2
<1>6. \A T \in AllPeriods' : Stored(T)'
  BY <1>2, <1>3, SameProblem DEF Stored
<1>7. /\ \A c : Bounds(c)' = Bounds(c)
      /\ \A c : c # col => Remaining(c)' = Remaining(c) /\ Moved(c)' = Moved(c)
      /\ \A c \in Nat : c # col => Remaining(c) = Bounds(c)
      /\ Remaining(col) = ((a + 1)..k_new) \cup (k..b) /\ Moved(col) = (a + 1)..k_new
  BY <1>2, <1>3 DEF Bounds, Remaining, Moved
<1>8. ColumnIs(col, Remaining(col), Moved(col))
  BY <1>2 DEF ZerosGo
<1>9. k \in Remaining(col)
  BY <1>2, <1>5, <1>7
<1>10. ASSUME stacked_jacobian[k] = ZeroElement
       PROVE  /\ SizesFit' /\ k_new' \in Nat /\ k_new' <= k /\ a <= k_new'
              /\ \A c \in 0..(Columns - 1) : ColumnIs(c, Remaining(c), Moved(c))'
  <2>1. UNCHANGED <<ir, stacked_jacobian, k_new>>
    BY <1>10 DEF MoveElement
  <2>2. SizesFit'
    BY <1>2, <1>3, <2>1, SameProblem DEF SizesFit
  <2>3. ASSUME NEW c \in 0..(Columns - 1)
        PROVE  ColumnIs(c, Remaining(c), Moved(c))'
    <3>1. CASE c # col
      <4>1. ColumnIs(c, Remaining(c), Moved(c))
        BY <1>2 DEF ZerosGo
      <4> QED
        BY <1>3, <1>7, <2>1, <3>1, <4>1, OtherColumn
    <3>2. CASE c = col
      <4>1. Remaining(c)' = ((a + 1)..k_new) \cup ((k + 1)..b)
        BY <1>3, <2>1, <3>2 DEF Remaining
      <4>2. ((a + 1)..k_new) \cup ((k + 1)..b) = Remaining(col) \ {k}
        <5>1. a \in Nat /\ b \in Nat /\ k_new \in Nat /\ k \in Nat /\ k_new < k /\ k <= b
          BY <1>2, <1>5
        <5>2. Remaining(col) = ((a + 1)..k_new) \cup (k..b)
          BY <1>7
        <5> HIDE DEF a, b, k
        <5>3. ((a + 1)..k_new) \cup ((k + 1)..b) = (((a + 1)..k_new) \cup (k..b)) \ {k}
          BY <5>1, LeftBehind
        <5> QED
          BY <5>2, <5>3
      <4>3. Moved(c)' = Moved(col)
        BY <1>3, <2>1, <3>2 DEF Moved
      <4>4. PICK P : P = Remaining(col) \ {k}
        OBVIOUS
      <4>5. PICK N : N = Moved(col)
        OBVIOUS
      <4>6. ColumnIs(c, P, N)
        BY <1>2, <1>8, <1>9, <1>10, <3>2, <4>4, <4>5, SkipZero
      <4>7. ColumnIs(c, P, N)'
        BY <1>3, <2>1, <4>6, ColumnSame
      <4> QED
        BY <4>1, <4>2, <4>3, <4>4, <4>5, <4>7
    <3> QED
      BY <3>1, <3>2
  <2> QED
    BY <1>2, <2>1, <2>2, <2>3
<1>11. ASSUME stacked_jacobian[k] # ZeroElement
       PROVE  /\ SizesFit' /\ k_new' \in Nat /\ k_new' <= k /\ a <= k_new'
              /\ \A c \in 0..(Columns - 1) : ColumnIs(c, Remaining(c), Moved(c))'
  <2>1. /\ stacked_jacobian' = [stacked_jacobian EXCEPT ![j] = stacked_jacobian[k]]
        /\ ir' = [ir EXCEPT ![j] = ir[k]] /\ k_new' = j
    BY <1>11 DEF MoveElement
  <2>2. /\ ir' \in Seq(Int) /\ Len(ir') = Len(ir)
        /\ stacked_jacobian' = [m \in 1..Len(ir) |-> stacked_jacobian'[m]]
        /\ ir'[j] = ir[k] /\ stacked_jacobian'[j] = stacked_jacobian[k]
        /\ \A m \in 1..Len(ir) : m # j => /\ ir'[m] = ir[m]
                                          /\ stacked_jacobian'[m] = stacked_jacobian[m]
    <3>1. ir' \in Seq(Int) /\ Len(ir') = Len(ir) /\ ir'[j] = ir[k]
      BY <1>4, <1>5, <2>1
    <3>2. \A m \in 1..Len(ir) : m # j => ir'[m] = ir[m]
      BY <1>4, <1>5, <2>1
    <3>3. DOMAIN stacked_jacobian = 1..Len(ir)
      BY <1>4
    <3>4. /\ stacked_jacobian' = [m \in 1..Len(ir) |-> stacked_jacobian'[m]]
          /\ stacked_jacobian'[j] = stacked_jacobian[k]
      BY <1>5, <2>1, <3>3
    <3>5. \A m \in 1..Len(ir) : m # j => stacked_jacobian'[m] = stacked_jacobian[m]
      BY <2>1, <3>3
    <3> QED
      BY <3>1, <3>2, <3>4, <3>5
  <2>3. SizesFit'
    <3>1. ir # <<>>
      BY <1>4, <1>5
    <3> QED
      BY <1>2, <1>3, <2>2, <3>1, SameProblem DEF SizesFit
  <2>4. j \in Bounds(col)
    BY <1>2, <1>5 DEF Bounds
  <2>5. ASSUME NEW c \in 0..(Columns - 1)
        PROVE  ColumnIs(c, Remaining(c), Moved(c))'
    <3>1. CASE c # col
      <4>1. ColumnIs(c, Remaining(c), Moved(c))
        BY <1>2 DEF ZerosGo
      <4>2. c \in Nat /\ c + 2 <= Len(jc)
        BY <1>2
      <4>3. j \notin Bounds(c)
        BY <1>2, <2>4, <3>1, <4>2, OneColumn
      <4>4. Bounds(c) \subseteq 1..Len(ir)
        BY <1>2, <4>2, BoundsFacts
      <4>5. \A m \in Remaining(c) : ir'[m] = ir[m] /\ stacked_jacobian'[m] = stacked_jacobian[m]
        BY <1>7, <2>2, <3>1, <4>2, <4>3, <4>4
      <4> QED
        BY <1>3, <1>7, <3>1, <4>1, <4>5, OtherColumn
    <3>2. CASE c = col
      <4> DEFINE P == Remaining(col)
                 Q == ((a + 1)..j) \cup ((k + 1)..b)
                 N == Moved(col)
                 M == (a + 1)..j
                 f(q) == IF q = j THEN k ELSE q
      <4>1. Remaining(c)' = Q /\ Moved(c)' = M
        BY <1>2, <1>3, <2>1, <3>2 DEF Remaining, Moved
      <4>2. P = ((a + 1)..k_new) \cup (k..b) /\ N = (a + 1)..k_new
        BY <1>7
      <4>3. ASSUME NEW q \in Q
            PROVE  /\ f(q) \in P /\ ir'[q] = ir[f(q)]
                   /\ stacked_jacobian'[q] = stacked_jacobian[f(q)]
                   /\ q \in M /\ q # j => f(q) \in N
        <5>1. q \in 1..Len(ir) /\ (q # j => q \in P) /\ (q \in M /\ q # j => q \in N)
          BY <1>2, <1>5, <4>2
        <5> QED
          BY <1>9, <2>2, <5>1
      <4>4. \A q, m \in Q : q < m => f(q) < f(m)
        BY <1>2, <1>5
      <4>5. ASSUME NEW q \in P, q # k
            PROVE  q \in Q /\ f(q) = q
        BY <1>2, <1>5, <4>2, <4>5
      <4>6. k = f(j) /\ j \in Q
        BY <1>2, <1>5
      <4> HIDE DEF P, Q, N, M, f
      <4>7. ColumnIs(col, P, N)
        BY <1>8 DEF P, N
      <4>8. \A q, m \in Q : q < m => ir'[q] < ir'[m]
        BY <4>3, <4>4, <4>7 DEF ColumnIs
      <4>9. ASSUME NEW q \in Q
            PROVE  \E x \in Pattern : /\ ColumnOf(x) = col /\ ir'[q] = RowOf(x)
                                      /\ stacked_jacobian'[q] = ValueIn(x)
                                      /\ q \in M => ~IsZero(x)
        <5>1. PICK x \in Pattern : /\ ColumnOf(x) = col /\ ir[f(q)] = RowOf(x)
                                   /\ stacked_jacobian[f(q)] = ValueIn(x)
                                   /\ f(q) \in N => ~IsZero(x)
          BY <1>2, <4>3, <4>7, ElementOf
        <5>2. CASE q = j
          <6>1. ~IsZero(x)
            BY <1>11, <4>6, <5>1, <5>2 DEF ValueIn
          <6> QED
            BY <4>3, <5>1, <6>1
        <5>3. CASE q # j
          BY <4>3, <5>1, <5>3
        <5> QED
          BY <5>2, <5>3
      <4>10. ASSUME NEW x \in Pattern, ColumnOf(x) = col, ~IsZero(x)
             PROVE  \E q \in Q : ir'[q] = RowOf(x)
        <5>1. PICK q \in P : ir[q] = RowOf(x)
          BY <4>7, <4>10 DEF ColumnIs
        <5>2. CASE q = k
          BY <4>3, <4>6, <5>1, <5>2
        <5>3. CASE q # k
          BY <4>3, <4>5, <5>1, <5>3
        <5> QED
          BY <5>2, <5>3
      <4>11. PICK R : R = Q
        OBVIOUS
      <4>12. PICK O : O = M
        OBVIOUS
      <4>13. PICK d : d = col
        OBVIOUS
      <4>14. ColumnIs(d, R, O)'
        BY <1>3, <4>8, <4>9, <4>10, <4>11, <4>12, <4>13, SameProblem DEF ColumnIs
      <4> QED
        BY <3>2, <4>1, <4>11, <4>12, <4>13, <4>14
    <3> QED
      BY <3>1, <3>2
  <2>6. k_new' \in Nat /\ k_new' <= k /\ a <= k_new'
    <3>1. a \in Nat /\ k_new \in Nat /\ a <= k_new /\ j <= k
      BY <1>2, <1>5
    <3>2. k_new' = k_new + 1 /\ j = k_new + 1
      BY <2>1
    <3> HIDE DEF a, j, k
    <3> QED
      BY <3>1, <3>2
  <2> QED
    BY <2>3, <2>5, <2>6
<1>12. /\ SizesFit' /\ k_new' \in Nat /\ k_new' <= k /\ a <= k_new'
       /\ \A c \in 0..(Columns - 1) : ColumnIs(c, Remaining(c), Moved(c))'
  BY <1>10, <1>11
<1>13. Len(ir') = Len(ir)
  BY <1>4, <1>5 DEF MoveElement
<1>14. ZerosGo'
  BY <1>2, <1>3, <1>5, <1>12, <1>13, SameProblem DEF ZerosGo
<1> QED
  BY <1>2, <1>3, <1>12, <1>14 DEF JacobianInv

\* A column ends where its last element has come to.
LEMMA CloseColumns ==
  ASSUME ThreadInv, JacobianInv, NoMatrix, CloseColumn
  PROVE  JacobianInv'
<1> DEFINE a == jc[col + 1]
           b == jc[col + 2]
<1>1. Cleaning /\ k_orig >= b
  BY DEF CloseColumn
<1>2. /\ problem.jacobian /\ problem \in Problems /\ phase = "clean" /\ SizesFit /\ ZerosGo
      /\ col \in 0..(Columns - 1) /\ col \in Nat /\ col + 2 <= Len(jc) /\ Columns \in Nat
      /\ Len(jc) = Columns + 1
      /\ k_new \in Nat /\ k_orig \in Nat /\ a \in Nat /\ b \in Nat /\ Len(ir) \in Nat
      /\ a <= k_new /\ k_new <= k_orig /\ k_orig <= b /\ b <= Len(ir)
      /\ \A T \in AllPeriods : Stored(T)
  BY <1>1, CleanFacts
<1>3. k_orig = b
  BY <1>1, <1>2
<1>4. /\ jc' = [jc EXCEPT ![col + 2] = k_new] /\ col' = col + 1
      /\ UNCHANGED <<problem, phase, unassigned, place, ir, stacked_jacobian, k_orig, k_new>>
  BY DEF CloseColumn, parallel
<1>5. /\ jc \in Seq(Nat) /\ DOMAIN jc = 1..(Columns + 1)
      /\ jc' \in Seq(Nat) /\ Len(jc') = Columns + 1 /\ DOMAIN jc' = 1..(Columns + 1)
      /\ jc'[col + 2] = k_new /\ \A n \in 1..(Columns + 1) : n # col + 2 => jc'[n] = jc[n]
  <2>1. jc \in Seq(Nat) /\ DOMAIN jc = 1..(Columns + 1)
    BY <1>2 DEF SizesFit
  <2>2. jc' \in Seq(Nat) /\ Len(jc') = Len(jc) /\ DOMAIN jc' = 1..(Columns + 1)
    BY <1>2, <1>4, <2>1
  <2>3. col + 2 \in 1..(Columns + 1)
    BY <1>2
  <2>4. jc'[col + 2] = k_new /\ \A n \in 1..(Columns + 1) : n # col + 2 => jc'[n] = jc[n]
    BY <1>4, <2>1, <2>3
  <2> QED
    BY <1>2, <2>1, <2>2, <2>4
<1>6. /\ \A n \in 1..(Columns + 1) : jc[n] \in Nat /\ jc[n] <= Len(ir)
      /\ \A m, n \in 1..(Columns + 1) : m <= n => jc[m] <= jc[n]
      /\ jc[1] = 0
  <2>1. \A n \in DOMAIN jc : jc[n] \in Nat
    BY <1>5
  <2> QED
    BY <1>2, <1>5, <2>1 DEF SizesFit
<1>7. col + 1 \in 1..(Columns + 1) /\ col + 2 \in 1..(Columns + 1)
  BY <1>2
<1>8. SizesFit'
  <2>1. ASSUME NEW m \in 1..(Columns + 1), NEW n \in 1..(Columns + 1), m <= n
        PROVE  jc'[m] <= jc'[n]
    <3>1. CASE m = col + 2 /\ n = col + 2
      BY <1>2, <1>5, <3>1
    <3>2. CASE m = col + 2 /\ n # col + 2
      <4>1. b <= jc[n] /\ jc[n] \in Nat
        BY <1>6, <1>7, <2>1, <3>2
      <4> QED
        BY <1>2, <1>5, <3>2, <4>1
    <3>3. CASE m # col + 2 /\ n = col + 2
      <4>1. m <= col + 1
        BY <1>2, <2>1, <3>3
      <4>2. jc[m] <= a /\ jc[m] \in Nat
        BY <1>6, <1>7, <4>1
      <4> QED
        BY <1>2, <1>5, <3>3, <4>2
    <3>4. CASE m # col + 2 /\ n # col + 2
      BY <1>5, <1>6, <2>1, <3>4
    <3> QED
      BY <3>1, <3>2, <3>3, <3>4
  <2>2. ASSUME NEW n \in 1..(Columns + 1) PROVE jc'[n] <= Len(ir)
    <3>1. CASE n = col + 2
      BY <1>2, <1>5, <3>1
    <3>2. CASE n # col + 2
      BY <1>5, <1>6, <3>2
    <3> QED
      BY <3>1, <3>2
  <2>3. jc'[1] = 0 /\ jc' # <<>>
    <3>1. 1 \in 1..(Columns + 1) /\ 1 # col + 2
      BY <1>2
    <3> QED
      BY <1>2, <1>5, <1>6, <3>1
  <2> QED
    BY <1>2, <1>4, <1>5, <2>1, <2>2, <2>3, SameProblem DEF SizesFit
<1>9. ASSUME NEW c \in 0..(Columns - 1)
      PROVE  ColumnIs(c, Remaining(c), Moved(c))'
  <2>1. /\ ColumnIs(c, Remaining(c), Moved(c)) /\ c \in Nat
        /\ c + 1 \in 1..(Columns + 1) /\ c + 2 \in 1..(Columns + 1)
    BY <1>2 DEF ZerosGo
  <2>2. Remaining(c)' = Remaining(c) /\ Moved(c)' = Moved(c)
    <3>1. CASE c < col
      <4>1. jc'[c + 1] = jc[c + 1] /\ jc'[c + 2] = jc[c + 2]
        <5>1. c + 1 # col + 2 /\ c + 2 # col + 2
          BY <1>2, <2>1, <3>1
        <5> QED
          BY <1>5, <2>1, <5>1
      <4>2. c # col /\ c # col + 1 /\ c < col + 1
        BY <1>2, <2>1, <3>1
      <4>3. Bounds(c)' = Bounds(c)
        BY <4>1 DEF Bounds
      <4> QED
        BY <1>4, <3>1, <4>2, <4>3 DEF Remaining, Moved
    <3>2. CASE c = col
      <4>1. jc'[c + 1] = a /\ jc'[c + 2] = k_new
        BY <1>2, <1>5, <1>7, <3>2
      <4>2. Bounds(c)' = (a + 1)..k_new
        BY <4>1 DEF Bounds
      <4>3. c # col + 1 /\ c < col + 1
        BY <1>2, <3>2
      <4>4. Remaining(c)' = (a + 1)..k_new /\ Moved(c)' = (a + 1)..k_new
        BY <1>4, <4>2, <4>3 DEF Remaining, Moved
      <4>5. Remaining(c) = ((a + 1)..k_new) \cup ((b + 1)..b) /\ Moved(c) = (a + 1)..k_new
        BY <1>2, <1>3, <3>2 DEF Remaining, Moved
      <4>6. (b + 1)..b = {}
        BY <1>2
      <4> QED
        BY <4>4, <4>5, <4>6
    <3>3. CASE c = col + 1
      <4>1. jc'[c + 1] = k_new /\ jc'[c + 2] = jc[c + 2] /\ jc[c + 1] = b
        <5>1. c + 1 = col + 2 /\ c + 2 # col + 2
          BY <1>2, <3>3
        <5> QED
          BY <1>5, <2>1, <5>1
      <4>2. c # col /\ ~(c < col) /\ c = col' /\ ~(c < col')
        BY <1>2, <1>4, <3>3
      <4>3. Remaining(c)' = ((k_new + 1)..k_new) \cup ((b + 1)..jc[c + 2]) /\ Moved(c)' = (k_new + 1)..k_new
        BY <1>3, <1>4, <4>1, <4>2 DEF Remaining, Moved
      <4>4. Remaining(c) = (b + 1)..jc[c + 2] /\ Moved(c) = {}
        BY <4>1, <4>2 DEF Remaining, Moved, Bounds
      <4>5. (k_new + 1)..k_new = {}
        BY <1>2
      <4> QED
        BY <4>3, <4>4, <4>5
    <3>4. CASE c > col + 1
      <4>1. jc'[c + 1] = jc[c + 1] /\ jc'[c + 2] = jc[c + 2]
        <5>1. c + 1 # col + 2 /\ c + 2 # col + 2
          BY <1>2, <2>1, <3>4
        <5> QED
          BY <1>5, <2>1, <5>1
      <4>2. c # col /\ c # col + 1 /\ ~(c < col) /\ ~(c < col + 1)
        BY <1>2, <2>1, <3>4
      <4>3. Bounds(c)' = Bounds(c)
        BY <4>1 DEF Bounds
      <4> QED
        BY <1>4, <4>2, <4>3 DEF Remaining, Moved
    <3> QED
      BY <1>2, <2>1, <3>1, <3>2, <3>3, <3>4
  <2> QED
    BY <1>4, <2>1, <2>2, OtherColumn
<1>10. /\ col' \in 0..Columns /\ jc'[col' + 1] <= k_new
       /\ col' < Columns => k_orig <= jc'[col' + 2]
       /\ col' = Columns => jc'[Columns + 1] = k_new
  <2>1. col' \in 0..Columns /\ jc'[col' + 1] = k_new
    BY <1>2, <1>4, <1>5
  <2>2. ASSUME col' < Columns PROVE k_orig <= jc'[col' + 2]
    <3>1. col' + 2 \in 1..(Columns + 1) /\ col' + 2 # col + 2 /\ col + 2 <= col' + 2
      BY <1>2, <1>4, <2>2
    <3>2. jc'[col' + 2] = jc[col' + 2] /\ b <= jc[col' + 2]
      BY <1>5, <1>6, <1>7, <3>1
    <3> QED
      BY <1>3, <3>2
  <2> QED
    BY <1>2, <2>1, <2>2
<1>11. ZerosGo'
  BY <1>2, <1>4, <1>5, <1>9, <1>10, SameProblem DEF ZerosGo
<1> QED
  BY <1>2, <1>4, <1>8, <1>11 DEF JacobianInv

-----------------------------------------------------------------------------
(* The invariant *)

\* At first the pattern is empty.
LEMMA InitJacobian == ForesightInit => JacobianInv /\ NoMatrix
<1> SUFFICES ASSUME ForesightInit PROVE JacobianInv /\ NoMatrix
  OBVIOUS
<1>1. /\ problem \in Problems /\ col = 0 /\ row = NoneUsed /\ k_orig = 0 /\ k_new = 0
      /\ ir = <<>> /\ jc = <<0>> /\ stacked_jacobian = <<>>
      /\ phase = IF problem.periods = 0 THEN "off" ELSE "pattern"
  BY DEF ForesightInit
<1>2. /\ problem.ny \in Nat \ {0} /\ problem.periods \in Nat /\ Columns \in Nat
  BY <1>1, ProblemFacts
<1>3. Len(ir) = 0 /\ DOMAIN jc = {1} /\ jc[1] = 0 /\ Len(jc) = 1 /\ jc # <<>>
  BY <1>1
<1>4. SizesFit
  <2>1. stacked_jacobian = [k \in 1..Len(ir) |-> stacked_jacobian[k]]
    BY <1>1, <1>3
  <2>2. ir \in Seq(Int) /\ jc \in Seq(Nat)
    BY <1>1
  <2> QED
    BY <1>1, <1>3, <2>1, <2>2 DEF SizesFit
<1>5. ASSUME phase = "pattern" PROVE PatternGrows
  <2>1. problem.periods # 0
    BY <1>1, <1>5
  <2>2. PeriodOf(col) = 0 /\ VariableOf(col) = 0
    <3>1. 0 \in Int /\ 0 \in 0..(problem.ny - 1)
      BY <1>2
    <3>2. (0 * problem.ny + 0) \div problem.ny = 0 /\ (0 * problem.ny + 0) % problem.ny = 0
      BY <1>2, <3>1, Division
    <3>3. 0 * problem.ny + 0 = 0
      BY <1>2
    <3> QED
      BY <1>1, <3>2, <3>3 DEF PeriodOf, VariableOf
  <2>3. row \in [Lists -> Nat] /\ \A l \in Lists : row[l] = 0
    BY <1>1 DEF NoneUsed, Lists
  <2>4. \A l \in Lists : Len(problem[l]) \in Nat
    BY <1>1, ListFacts
  <2>5. \A l \in Lists : \A n \in (0 + 1)..Len(problem[l]) : problem[l][n][2] >= 0
    BY <1>1, <1>2, ListFacts DEF Variables
  <2>6. CursorsFit
    BY <2>2, <2>3, <2>4, <2>5 DEF CursorsFit
  <2>7. OpenColumn
    <3>1. (jc[col + 1] + 1)..Len(ir) = {}
      BY <1>1, <1>3
    <3>2. \A l \in Lists : 1..row[l] = {}
      BY <2>3
    <3> QED
      BY <3>1, <3>2 DEF OpenColumn
  <2>8. ASSUME NEW l \in Lists PROVE Counted(l) = 0
    <3>1. TimesUsed(l, 0) = 0
      BY <2>1 DEF TimesUsed
    <3>2. 0 * Len(problem[l]) + 0 = 0
      BY <2>4
    <3> QED
      BY <2>2, <2>3, <3>1, <3>2 DEF Counted
  <2>9. Len(ir) = Counted("fwrd") + Counted("current") + Counted("pred")
    BY <1>3, <2>8 DEF Lists
  <2>10. col \in 0..Columns /\ Len(jc) = col + 1 /\ jc[col + 1] = Len(ir) /\ 0..(col - 1) = {}
    BY <1>1, <1>2, <1>3
  <2> QED
    BY <2>6, <2>7, <2>9, <2>10 DEF PatternGrows
<1>6. phase \in {"pattern", "off"}
  BY <1>1
<1> QED
  BY <1>1, <1>4, <1>5, <1>6 DEF JacobianInv, NoMatrix

\* The invariant that the main thread and the other threads keep.
LEMMA NextKeepsInvariant == IInv /\ [ForesightNext]_foresight => IInv'
<1> SUFFICES ASSUME IInv, [ForesightNext]_foresight PROVE IInv'
  OBVIOUS
<1>1. ThreadInv /\ JacobianInv /\ NoMatrix
  BY DEF IInv
<1> USE DEF IInv
<1>2. CASE UNCHANGED foresight
  <2>1. /\ UNCHANGED <<problem, phase, parallel, serial, stacked_jacobian>>
        /\ UNCHANGED <<unassigned, place, col, row, ir, jc, k_orig, k_new>>
    BY <1>2 DEF foresight, parallel, serial
  <2>2. ThreadInv'
    BY <1>1, <2>1, SerialThreads
  <2>3. JacobianInv'
    <3>1. SizesFit' = SizesFit
      BY <2>1, SameProblem DEF SizesFit
    <3>2. \A T : Stored(T)' = Stored(T)
      BY <2>1 DEF Stored
    <3>3. \A c, P, N : ColumnIs(c, P, N)' = ColumnIs(c, P, N)
      BY <2>1, <3>2, SameProblem DEF ColumnIs
    <3>4. \A c : Bounds(c)' = Bounds(c) /\ Remaining(c)' = Remaining(c) /\ Moved(c)' = Moved(c)
      BY <2>1 DEF Bounds, Remaining, Moved
    <3>5. /\ \A l : InUse(l)' = InUse(l) /\ HasNext(l)' = HasNext(l) /\ Counted(l)' = Counted(l)
          /\ \A l, n : IsHere(l, n)' = IsHere(l, n) /\ RowHere(l, n)' = RowHere(l, n)
          /\ VariableOf(col)' = VariableOf(col)
      BY <2>1, SameProblem
         DEF InUse, HasNext, Counted, TimesUsed, IsHere, RowHere, PeriodOf, VariableOf
    <3>6. CursorsFit' = CursorsFit /\ OpenColumn' = OpenColumn
      BY <2>1, <3>5 DEF CursorsFit, OpenColumn
    <3>7. PatternGrows => PatternGrows'
      BY <2>1, <3>3, <3>4, <3>5, <3>6, SameProblem DEF PatternGrows
    <3>8. (PatternIsComplete => PatternIsComplete') /\ (ZerosGo => ZerosGo')
      BY <2>1, <3>3, <3>4, SameProblem DEF PatternIsComplete, ZerosGo
    <3> QED
      BY <1>1, <2>1, <3>1, <3>7, <3>8, SameProblem DEF JacobianInv
  <2> QED
    BY <1>1, <2>1, <2>2, <2>3 DEF NoMatrix
<1>3. ASSUME NEW l \in Lists, NEW before, AddElement(l, before),
             \A m \in Lists : Shift[m] < Shift[l] => m \in before
      PROVE  IInv'
  <2>1. problem.jacobian /\ phase = "pattern" /\ UNCHANGED <<problem, phase, parallel>>
    BY <1>3 DEF AddElement, Building
  <2> QED
    BY <1>1, <1>3, <2>1, SerialThreads, AddPattern DEF NoMatrix
<1>4. CASE AddElement("fwrd", {})
  BY <1>3, <1>4, Shifts DEF Lists
<1>5. CASE AddElement("current", {"fwrd"})
  BY <1>3, <1>5, Shifts DEF Lists
<1>6. CASE AddElement("pred", {"fwrd", "current"})
  BY <1>3, <1>6, Shifts DEF Lists
<1>7. CASE EndColumn
  <2>1. problem.jacobian /\ phase = "pattern" /\ UNCHANGED <<problem, phase, parallel>>
    BY <1>7 DEF EndColumn, Building
  <2> QED
    BY <1>1, <1>7, <2>1, SerialThreads, EndPattern DEF NoMatrix
<1>8. CASE StartThreads
  <2>1. phase = "pattern" /\ phase' = "parallel" /\ UNCHANGED <<problem, parallel, ir>>
    BY <1>8 DEF StartThreads, serial
  <2> QED
    BY <1>1, <1>8, <2>1, SerialThreads, StartPattern DEF NoMatrix
<1>9. ASSUME NEW t \in Threads, ThreadNext(t)
      PROVE  IInv'
  <2>1. UNCHANGED <<problem, phase, ir>>
    BY <1>9 DEF ThreadNext, CopyValues, Eval, FillJacobian, EndPeriod, serial
  <2>2. NoMatrix'
    BY <1>1, <2>1 DEF NoMatrix
  <2>3. CASE CopyValues(t)
    BY <1>1, <2>2, <2>3, CopyThreads, CopyColumns
  <2>4. CASE Eval(t)
    BY <1>1, <2>2, <2>4, EvalThreads, EvalColumns
  <2>5. CASE FillJacobian(t)
    BY <1>1, <2>2, <2>5, FillThreads, FillColumns
  <2>6. CASE EndPeriod(t)
    BY <1>1, <2>2, <2>6, EndThreads, EndColumns
  <2> QED
    BY <1>9, <2>3, <2>4, <2>5, <2>6 DEF ThreadNext
<1>10. CASE Join
  <2>1. /\ phase = "parallel" /\ unassigned = {} /\ \A t \in Threads : place[t] = Idle
        /\ phase' \in {"error", "clean", "returned"} /\ (phase' = "clean" => problem.jacobian)
        /\ UNCHANGED <<problem, parallel, ir>>
    BY <1>10 DEF Join
  <2> QED
    BY <1>1, <1>10, <2>1, SerialThreads, JoinColumns DEF NoMatrix
<1>11. CASE MoveElement
  <2>1. phase = "clean" /\ UNCHANGED <<problem, phase, parallel>>
    BY <1>11 DEF MoveElement, Cleaning
  <2> QED
    BY <1>1, <1>11, <2>1, SerialThreads, MoveColumns DEF NoMatrix
<1>12. CASE CloseColumn
  <2>1. phase = "clean" /\ UNCHANGED <<problem, phase, parallel>>
    BY <1>12 DEF CloseColumn, Cleaning
  <2> QED
    BY <1>1, <1>12, <2>1, SerialThreads, CloseColumns DEF NoMatrix
<1>13. CASE Return
  <2>1. phase = "clean" /\ phase' = "returned" /\ UNCHANGED <<problem, parallel, ir>>
    BY <1>13 DEF Return, serial
  <2> QED
    BY <1>1, <1>13, <2>1, SerialThreads, ReturnColumns DEF NoMatrix
<1> QED
  BY <1>2, <1>4, <1>5, <1>6, <1>7, <1>8, <1>9, <1>10, <1>11, <1>12, <1>13 DEF ForesightNext

\* The invariant holds in every state, for every problem and any number of
\* threads: each period is with one thread and the matrix has what was used of
\* the lists, what the threads have stored and what is left of it.
THEOREM ForesightInvariance == ForesightSpec => []IInv
<1>1. ForesightInit => IInv
  BY InitThreads, InitJacobian DEF IInv
<1> QED
  BY <1>1, NextKeepsInvariant, PTL DEF ForesightSpec

-----------------------------------------------------------------------------
(* What is returned *)

\* Residuals of perfect_foresight_problem: when it returns, every period has
\* been evaluated with its own variables, whichever threads took which periods.
THEOREM ResidualsAreExact == ForesightSpec => []ResidualsAreOfTheirPeriods
<1>1. IInv => ResidualsAreOfTheirPeriods
  <2> SUFFICES ASSUME IInv, phase = "returned"
               PROVE  stacked_residual = [T \in AllPeriods |-> <<"resid", T + problem.lag, Inputs(T)>>]
    BY DEF ResidualsAreOfTheirPeriods
  <2>1. unassigned = {} /\ \A t \in Threads : place[t] = Idle
    BY DEF IInv, ThreadInv, ThreadsInStep
  <2>2. \A T \in AllPeriods : Evaluated(T)
    BY <2>1 DEF Evaluated, Idle
  <2> QED
    BY <2>2 DEF IInv, ThreadInv, ResidualsFit
<1> QED
  BY <1>1, ForesightInvariance, PTL

\* Each element of the matrix is in a column.
LEMMA InSomeColumn ==
  ASSUME SizesFit
  PROVE  \A n \in Nat : n + 1 <= Len(jc) =>
           \A k \in 1..jc[n + 1] : \E c \in 0..(n - 1) : k \in Bounds(c)
<1> DEFINE X == {n \in Nat : n + 1 <= Len(jc) =>
                   \A k \in 1..jc[n + 1] : \E c \in 0..(n - 1) : k \in Bounds(c)}
<1>1. 0 \in X
  BY DEF SizesFit
<1>2. ASSUME NEW n \in Nat, n \in X PROVE n + 1 \in X
  <2> SUFFICES ASSUME n + 1 + 1 <= Len(jc), NEW k \in 1..jc[n + 1 + 1]
               PROVE  \E c \in 0..n : k \in Bounds(c)
    OBVIOUS
  <2>1. n + 2 <= Len(jc) /\ n + 1 + 1 = n + 2 /\ n + 1 <= Len(jc)
    BY SizeFacts
  <2>2. jc[n + 1] \in Nat /\ jc[n + 2] \in Nat
    BY <2>1, BoundsFacts
  <2>3. CASE k <= jc[n + 1]
    <3>1. k \in 1..jc[n + 1]
      BY <2>1, <2>2, <2>3
    <3>2. \E c \in 0..(n - 1) : k \in Bounds(c)
      BY <1>2, <2>1, <3>1
    <3> QED
      BY <3>2
  <2>4. CASE k > jc[n + 1]
    <3>1. k \in Bounds(n)
      BY <2>1, <2>2, <2>4 DEF Bounds
    <3> QED
      BY <3>1
  <2> QED
    BY <2>1, <2>2, <2>3, <2>4
<1> HIDE DEF X
<1>3. \A n \in Nat : n \in X
  BY <1>1, <1>2, NatInductionOnSet
<1> QED
  BY <1>3 DEF X

\* Jacobian of perfect_foresight_problem: it has one element for each derivative
\* that is not zero, in its column, by rows and with its value, and no others.
THEOREM JacobianIsExact == ForesightSpec => []StackedJacobianIsExact
<1>1. IInv => StackedJacobianIsExact
  <2> SUFFICES ASSUME IInv, phase = "returned", problem.jacobian PROVE StackedJacobianIsExact
    BY DEF StackedJacobianIsExact
  <2> DEFINE N == jc[Columns + 1]
             At(k, x) == k \in Bounds(ColumnOf(x)) /\ ir[k] = RowOf(x)
             f == [k \in 1..N |-> CHOOSE x \in NonzeroDerivatives : At(k, x)]
  <2>1. /\ problem \in Problems /\ Columns \in Nat /\ SizesFit /\ ZerosGo /\ col = Columns
        /\ Len(jc) = Columns + 1
    BY ProblemFacts DEF IInv, ThreadInv, JacobianInv, ZerosGo
  <2>2. \A T \in AllPeriods : Stored(T)
    <3>1. unassigned = {} /\ \A t \in Threads : place[t] = Idle
      BY DEF IInv, ThreadInv, ThreadsInStep
    <3>2. \A T \in AllPeriods : T # -1
      BY <2>1, ProblemFacts DEF AllPeriods
    <3> QED
      BY <3>1, <3>2 DEF Stored, Idle
  <2>3. \A c \in 0..(Columns - 1) : ColumnIs(c, Bounds(c), Bounds(c))
    <3> SUFFICES ASSUME NEW c \in 0..(Columns - 1) PROVE ColumnIs(c, Bounds(c), Bounds(c))
      OBVIOUS
    <3>1. c # col /\ c < col
      BY <2>1
    <3>2. Remaining(c) = Bounds(c) /\ Moved(c) = Bounds(c)
      BY <3>1 DEF Remaining, Moved
    <3> QED
      BY <2>1, <3>2 DEF ZerosGo
  <2>4. NonzeroDerivatives = {x \in Pattern : ~IsZero(x)}
    BY DEF NonzeroDerivatives, Pattern, IsZero
  <2>5. \A x \in NonzeroDerivatives : ColumnOf(x) \in 0..(Columns - 1) /\ x \in Pattern /\ ~IsZero(x)
    BY <2>1, <2>4, PlaceFacts
  <2>6. ASSUME NEW x \in NonzeroDerivatives
        PROVE  \E k \in Bounds(ColumnOf(x)) : ir[k] = RowOf(x)
    BY <2>3, <2>5 DEF ColumnIs
  <2>7. ASSUME NEW c \in 0..(Columns - 1), NEW k \in Bounds(c)
        PROVE  \E x \in NonzeroDerivatives :
                 ColumnOf(x) = c /\ ir[k] = RowOf(x) /\ stacked_jacobian[k] = DerivativeOf(x)
    <3>1. ColumnIs(c, Bounds(c), Bounds(c))
      BY <2>3
    <3>2. PICK x \in Pattern : /\ ColumnOf(x) = c /\ ir[k] = RowOf(x)
                               /\ stacked_jacobian[k] = ValueIn(x) /\ ~IsZero(x)
      BY <2>1, <2>2, <3>1, ElementOf
    <3> QED
      BY <2>4, <3>2 DEF ValueIn
  <2>8. ASSUME NEW c \in 0..(Columns - 1), NEW k \in Bounds(c), NEW m \in Bounds(c), ir[k] = ir[m]
        PROVE  k = m
    <3>1. \A p, q \in Bounds(c) : p < q => ir[p] < ir[q]
      BY <2>3 DEF ColumnIs
    <3>2. c \in Nat /\ c + 2 <= Len(jc)
      BY <2>1
    <3>3. k \in 1..Len(ir) /\ m \in 1..Len(ir) /\ k \in Int /\ m \in Int
      BY <2>1, <3>2, BoundsFacts
    <3>4. ir[k] \in Int /\ ir[m] \in Int
      BY <2>1, <3>3 DEF SizesFit
    <3>5. ~(k < m) /\ ~(m < k)
      BY <2>8, <3>1, <3>4
    <3> QED
      BY <3>3, <3>5
  <2>9. ASSUME NEW k, NEW x \in NonzeroDerivatives, NEW y \in NonzeroDerivatives, At(k, x), At(k, y)
        PROVE  x = y
    <3>1. ColumnOf(x) \in Nat /\ ColumnOf(y) \in Nat /\ ColumnOf(x) + 2 <= Len(jc) /\ ColumnOf(y) + 2 <= Len(jc)
      BY <2>1, <2>5
    <3>2. ColumnOf(x) = ColumnOf(y)
      BY <2>1, <2>9, <3>1, OneColumn
    <3> QED
      BY <2>1, <2>5, <2>9, <3>2, OneDerivative
  <2>10. N \in Nat /\ jc[1] = 0
    BY <2>1 DEF SizesFit
  <2>11. ASSUME NEW k \in 1..N
         PROVE  f[k] \in NonzeroDerivatives /\ At(k, f[k])
    <3>1. PICK c \in 0..(Columns - 1) : k \in Bounds(c)
      BY <2>1, InSomeColumn
    <3>2. \E x \in NonzeroDerivatives : At(k, x)
      BY <2>7, <3>1
    <3> QED
      BY <3>2
  <2>12. ASSUME NEW x \in NonzeroDerivatives
         PROVE  \E k \in 1..N : f[k] = x
    <3>1. PICK k \in Bounds(ColumnOf(x)) : ir[k] = RowOf(x)
      BY <2>6
    <3>2. At(k, x)
      BY <3>1
    <3>3. k \in 1..N
      <4>1. ColumnOf(x) \in Nat /\ ColumnOf(x) + 2 <= Len(jc) /\ ColumnOf(x) + 2 <= Columns + 1
        BY <2>1, <2>5
      <4>2. jc[ColumnOf(x) + 2] <= N
        <5>1. /\ ColumnOf(x) + 2 \in DOMAIN jc /\ Columns + 1 \in DOMAIN jc
              /\ ColumnOf(x) + 2 <= Columns + 1
          BY <2>1, <4>1, SizeFacts
        <5> QED
          BY <2>1, <5>1 DEF SizesFit
      <4>3. jc[ColumnOf(x) + 1] \in Nat /\ jc[ColumnOf(x) + 2] \in Nat
        BY <2>1, <4>1, BoundsFacts
      <4> QED
        BY <2>10, <3>1, <4>2, <4>3 DEF Bounds
    <3>4. f[k] = x
      BY <2>9, <2>11, <3>2, <3>3
    <3> QED
      BY <3>3, <3>4
  <2>13. ASSUME NEW k \in 1..N, NEW m \in 1..N, f[k] = f[m]
         PROVE  k = m
    <3>1. At(k, f[k]) /\ At(m, f[k]) /\ f[k] \in NonzeroDerivatives
      BY <2>11, <2>13
    <3> HIDE DEF f
    <3> QED
      BY <2>5, <2>8, <3>1
  <2>14. f \in [1..N -> NonzeroDerivatives]
    BY <2>11
  <2>15. ExistsBijection(1..N, NonzeroDerivatives)
    <3> HIDE DEF f
    <3>1. f \in Bijection(1..N, NonzeroDerivatives)
      BY <2>12, <2>13, <2>14 DEF Bijection, Injection, Surjection, IsInjective
    <3> QED
      BY <3>1 DEF ExistsBijection
  <2>16. Cardinality(NonzeroDerivatives) = N
    <3>1. IsFiniteSet(1..N) /\ Cardinality(1..N) = N
      BY <2>10, FS_Interval
    <3> QED
      BY <2>15, <3>1, FS_Bijection
  <2>17. ASSUME NEW x \in NonzeroDerivatives
         PROVE  \E k \in Bounds(ColumnOf(x)) : ir[k] = RowOf(x) /\ stacked_jacobian[k] = DerivativeOf(x)
    <3>1. PICK k \in Bounds(ColumnOf(x)) : ir[k] = RowOf(x)
      BY <2>6
    <3>2. PICK y \in NonzeroDerivatives :
            ColumnOf(y) = ColumnOf(x) /\ ir[k] = RowOf(y) /\ stacked_jacobian[k] = DerivativeOf(y)
      BY <2>5, <2>7, <3>1
    <3>3. x = y
      BY <2>1, <2>5, <3>1, <3>2, OneDerivative
    <3> QED
      BY <3>1, <3>2, <3>3
  <2>18. \A c \in 0..(Columns - 1) : \A k, m \in Bounds(c) : k < m => ir[k] < ir[m]
    BY <2>3 DEF ColumnIs
  <2> HIDE DEF N
  <2> QED
    BY <2>10, <2>16, <2>17, <2>18 DEF StackedJacobianIsExact, Bounds, ColumnOf, RowOf, N
<1> QED
  BY <1>1, ForesightInvariance, PTL

\* perfect_foresight_problem returns the residuals and the Jacobian of every
\* period, and writes no element behind the end of the matrix, for any pattern
\* of derivatives, any number of periods and any threads in any order.
THEOREM StackedProblem == ForesightSpec => []StackedProblemIsExact
<1>1. IInv => ElementsHaveRoom
  BY DEF IInv, JacobianInv, NoMatrix, SizesFit, ElementsHaveRoom
<1> QED
  BY <1>1, ForesightInvariance, ResidualsAreExact, JacobianIsExact, PTL DEF StackedProblemIsExact

=============================================================================

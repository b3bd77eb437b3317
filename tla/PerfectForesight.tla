-------------------------- MODULE PerfectForesight --------------------------
(***************************************************************************)
(* mex/sources/perfect_foresight_problem: the residuals of all periods of a *)
(* dynamic model and their sparse Jacobian, computed by OpenMP threads.     *)
(* Each thread has its own caller of the model (DynamicModelCaller).  What  *)
(* the main thread does before and after the parallel region is one step    *)
(* for each element and each column.                                        *)
(*                                                                         *)
(* problem: ny, periods, maximum_endo_lag (0 or 1), lag (maximum_lag), lli  *)
(* (lead_lag_incidence: a row for each of lag, current, lead; 0 if absent), *)
(* pred, current, fwrd (the nonzero derivatives as <<equation, variable>>,  *)
(* by columns), zeros (the ones that are zero at this point), jacobian (is  *)
(* wanted), linear, dll, external.  Numbers are terms: what a result is     *)
(* computed from.                                                           *)
(***************************************************************************)
EXTENDS Integers, Sequences, FiniteSets

CONSTANTS Problems, Threads

(* nzij_* come from <model>.dynamic_g1_nz, by columns; a model without lags *)
(* has no derivatives with respect to them.                                 *)
IsPattern(p, list) ==
  /\ list \in Seq((0..(p.ny - 1)) \X (0..(p.ny - 1)))
  /\ \A m, n \in DOMAIN list :
       m < n => \/ list[m][2] < list[n][2]
                \/ list[m][2] = list[n][2] /\ list[m][1] < list[n][1]

IsProblem(p) ==
  /\ p.ny \in Nat \ {0} /\ p.periods \in Nat /\ p.maximum_endo_lag \in {0, 1} /\ p.lag \in Nat
  /\ IsPattern(p, p.pred) /\ IsPattern(p, p.current) /\ IsPattern(p, p.fwrd)
  /\ p.maximum_endo_lag = 0 => p.pred = <<>>
  /\ p.jacobian \in BOOLEAN /\ p.linear \in BOOLEAN /\ p.dll \in BOOLEAN /\ p.external \in BOOLEAN

ASSUME ForesightAssumption == Threads # {} /\ \A p \in Problems : IsProblem(p)

VARIABLES
  problem,
  phase,      \* "pattern", "parallel", "clean", "returned", "error", "off"
  col,        \* the column the main thread is at
  row,        \* the elements of each list it has used in this period
  unassigned, \* the periods no thread has begun
  place,      \* for each thread: its period and step
  callers,
  stacked_residual,
  ir, jc, stacked_jacobian,
  k_orig, k_new,
  error_msg

foresight == <<problem, phase, col, row, unassigned, place, callers, stacked_residual, ir, jc,
               stacked_jacobian, k_orig, k_new, error_msg>>

serial == <<col, row, ir, jc, k_orig, k_new>>     \* the main thread's
parallel == <<unassigned, place, callers, stacked_residual, error_msg>>

ZeroElement == <<"zero">>

Idle == [T |-> -1, step |-> "idle"]

AllPeriods == 0..(problem.periods - 1)
Variables == 0..(problem.ny - 1)
Columns == problem.periods * problem.ny

(* The elements that ir and stacked_jacobian have room for.                 *)
nzmax ==
  problem.periods * Len(problem.current)
    + (problem.periods - 1) * (Len(problem.pred) + Len(problem.fwrd))

(* A call to MATLAB is never made from a parallel region.                   *)
Active ==
  IF problem.dll /\ ~problem.external THEN Threads ELSE {CHOOSE t \in Threads : TRUE}

M_CallerOf(t) == CHOOSE u \in Threads : TRUE

(* m is private to a thread.                                                *)
CallerOf(t) == t

(* y has one element for each dynamic variable.                             *)
NewCaller(p) == [y |-> [v \in 1..p.ndynvars |-> ZeroElement], compute_jacobian |-> p.jacobian,
                 jacobian |-> <<"none">>]

NoneUsed == [fwrd |-> 0, current |-> 0, pred |-> 0]

ForesightInit ==
  /\ problem \in Problems
  /\ phase = IF problem.periods = 0 THEN "off" ELSE "pattern"
  /\ col = 0 /\ row = NoneUsed /\ k_orig = 0 /\ k_new = 0
  /\ unassigned = AllPeriods
  /\ place = [t \in Threads |-> Idle]
  /\ callers = [t \in Threads |-> NewCaller(problem)]
  /\ stacked_residual = [T \in AllPeriods |-> ZeroElement]
  /\ ir = <<>> /\ jc = <<0>> /\ stacked_jacobian = <<>>
  /\ error_msg = FALSE
-----------------------------------------------------------------------------
(* The column's period and variable.                                        *)
PeriodOf(c) == c \div problem.ny
VariableOf(c) == c % problem.ny

(* The leads of the period before, the current period and the lags of the   *)
(* period after.                                                            *)
Shift == [fwrd |-> -1, current |-> 0, pred |-> 1]

(* The next element of a list is in this column.                            *)
HasNext(l) ==
  /\ PeriodOf(col) + Shift[l] \in AllPeriods
  /\ row[l] < Len(problem[l]) /\ problem[l][row[l] + 1][2] = VariableOf(col)

Building == phase = "pattern" /\ problem.jacobian /\ col < Columns

AddElement(l, before) ==
  /\ Building /\ HasNext(l) /\ \A m \in before : ~HasNext(m)
  /\ ir' = Append(ir, (PeriodOf(col) + Shift[l]) * problem.ny + problem[l][row[l] + 1][1])
  /\ row' = [row EXCEPT ![l] = @ + 1]
  /\ UNCHANGED <<parallel, problem, phase, col, jc, stacked_jacobian, k_orig, k_new>>

EndColumn ==
  /\ Building /\ \A l \in DOMAIN row : ~HasNext(l)
  /\ jc' = Append(jc, Len(ir))
  /\ col' = col + 1
  /\ row' = IF VariableOf(col + 1) = 0 THEN NoneUsed ELSE row
  /\ UNCHANGED <<parallel, problem, phase, ir, stacked_jacobian, k_orig, k_new>>

StartThreads ==
  /\ phase = "pattern" /\ ~Building /\ phase' = "parallel"
  /\ stacked_jacobian' = [k \in DOMAIN ir |-> ZeroElement]
  /\ UNCHANGED <<parallel, problem, serial>>
-----------------------------------------------------------------------------
(* The value of variable i at row j of the incidence, for period T.         *)
ValueOf(T, j, i) ==
  LET S == T + j - problem.maximum_endo_lag
  IN  IF S = -1 THEN <<"y0", i>>
      ELSE IF S = problem.periods THEN <<"yT", i>>
      ELSE <<"y", S, i>>

Rows == 0..(problem.maximum_endo_lag + 1)

Dynvar(j, i) == problem.lli[j + 1][i + 1]

(* The values of the dynamic variables in period T.                         *)
Inputs(T) ==
  [v \in 1..problem.ndynvars |->
     LET ji == CHOOSE ji \in Rows \X Variables : Dynvar(ji[1], ji[2]) = v
     IN  ValueOf(T, ji[1], ji[2])]

(* A thread begins a period and copies the values of its variables.         *)
CopyValues(t) ==
  /\ phase = "parallel" /\ t \in Active /\ place[t] = Idle
  /\ \E T \in unassigned :
       /\ unassigned' = unassigned \ {T}
       /\ place' = [place EXCEPT ![t] = [T |-> T, step |-> "eval"]]
       /\ callers' = [callers EXCEPT ![CallerOf(t)].y = Inputs(T)]
  /\ UNCHANGED <<problem, phase, stacked_residual, stacked_jacobian, error_msg, serial>>

(* eval: the residuals and, the first time or unless the model is linear,   *)
(* the derivatives at the caller's values.  A call to MATLAB may fail.      *)
Eval(t) ==
  /\ place[t].step = "eval"
  /\ place' = [place EXCEPT ![t].step = IF problem.jacobian THEN "store" ELSE "next"]
  /\ LET m == callers[CallerOf(t)]
         it == place[t].T + problem.lag
     IN  /\ stacked_residual' = [stacked_residual EXCEPT ![place[t].T] = <<"resid", it, m.y>>]
         /\ callers' = [callers EXCEPT ![CallerOf(t)] =
              IF ~m.compute_jacobian THEN m
              ELSE [m EXCEPT !.jacobian = IF problem.linear THEN <<"g1">> ELSE <<"g1", it, m.y>>,
                             !.compute_jacobian = ~problem.linear]]
  /\ error_msg' \in {error_msg, error_msg \/ ~problem.dll}
  /\ UNCHANGED <<problem, phase, unassigned, stacked_jacobian, serial>>

(* The derivative of equation eq, or zero if it happens to be.              *)
Derivative(g1, eq, v) == IF <<eq, v>> \in problem.zeros THEN ZeroElement ELSE <<g1, eq, v>>

(* The elements of the period's equations, in the columns of its variables: *)
(* each column is read until there is one of a later period.                *)
FillJacobian(t) ==
  /\ place[t].step = "store"
  /\ place' = [place EXCEPT ![t].step = "next"]
  /\ LET T == place[t].T
         ny == problem.ny
         lag == problem.maximum_endo_lag
         first == IF T > lag THEN (T - lag) * ny ELSE 0
         end == IF Columns < (T + 2) * ny THEN Columns ELSE (T + 2) * ny
         at(k) == {c \in first..(end - 1) :
                     /\ jc[c + 1] < k /\ k <= jc[c + 2] /\ ir[k] >= T * ny
                     /\ \A m \in (jc[c + 1] + 1)..k : ir[m] < (T + 1) * ny}
     IN  stacked_jacobian' =
           [k \in DOMAIN stacked_jacobian |->
              IF at(k) # {}
              THEN LET c == CHOOSE c \in at(k) : TRUE
                   IN  Derivative(callers[CallerOf(t)].jacobian, ir[k] - T * ny,
                                  Dynvar(PeriodOf(c) - (T - lag), VariableOf(c)))
              ELSE stacked_jacobian[k]]
  /\ UNCHANGED <<problem, phase, unassigned, callers, stacked_residual, error_msg, serial>>

EndPeriod(t) ==
  /\ place[t].step = "next" /\ place' = [place EXCEPT ![t] = Idle]
  /\ UNCHANGED <<problem, phase, unassigned, callers, stacked_residual, stacked_jacobian,
                 error_msg, serial>>

(* The threads join; an error is raised by the main thread.                 *)
Join ==
  /\ phase = "parallel" /\ unassigned = {} /\ \A t \in Threads : place[t] = Idle
  /\ phase' = IF error_msg THEN "error" ELSE IF problem.jacobian THEN "clean" ELSE "returned"
  /\ col' = 0
  /\ UNCHANGED <<parallel, problem, row, ir, jc, stacked_jacobian, k_orig, k_new>>
-----------------------------------------------------------------------------
(* The zeros are removed, in place: an element that is not zero moves to    *)
(* the next place, a column ends where its last element has come to.        *)
Cleaning == phase = "clean" /\ col < Columns

MoveElement ==
  /\ Cleaning /\ k_orig < jc[col + 2]
  /\ k_orig' = k_orig + 1
  /\ IF stacked_jacobian[k_orig + 1] = ZeroElement THEN UNCHANGED <<ir, stacked_jacobian, k_new>>
     ELSE /\ stacked_jacobian' =
               [stacked_jacobian EXCEPT ![k_new + 1] = stacked_jacobian[k_orig + 1]]
          /\ ir' = [ir EXCEPT ![k_new + 1] = ir[k_orig + 1]]
          /\ k_new' = k_new + 1
  /\ UNCHANGED <<parallel, problem, phase, col, row, jc>>

CloseColumn ==
  /\ Cleaning /\ k_orig >= jc[col + 2]
  /\ jc' = [jc EXCEPT ![col + 2] = k_new]
  /\ col' = col + 1
  /\ UNCHANGED <<parallel, problem, phase, row, ir, stacked_jacobian, k_orig, k_new>>

Return ==
  /\ phase = "clean" /\ col = Columns /\ phase' = "returned"
  /\ UNCHANGED <<parallel, problem, stacked_jacobian, serial>>

ThreadNext(t) == CopyValues(t) \/ Eval(t) \/ FillJacobian(t) \/ EndPeriod(t)

ForesightNext ==
  \/ AddElement("fwrd", {}) \/ AddElement("current", {"fwrd"})
  \/ AddElement("pred", {"fwrd", "current"}) \/ EndColumn \/ StartThreads
  \/ \E t \in Threads : ThreadNext(t)
  \/ Join \/ MoveElement \/ CloseColumn \/ Return

ForesightSpec == ForesightInit /\ [][ForesightNext]_foresight
-----------------------------------------------------------------------------
(* Whatever the order in which the threads take the periods and their       *)
(* steps, the residuals of a period are those of its own variables, read    *)
(* from the initial and the final condition at the ends.                    *)
ResidualsAreOfTheirPeriods ==
  phase = "returned" =>
    stacked_residual = [T \in AllPeriods |-> <<"resid", T + problem.lag, Inputs(T)>>]

(* The derivatives that are not zero: of equation x[3][1] of period x[1]    *)
(* with respect to variable x[3][2] of period x[2].                         *)
ListOf(j) == IF j = problem.maximum_endo_lag THEN problem.current
             ELSE IF j > problem.maximum_endo_lag THEN problem.fwrd ELSE problem.pred

RowFor(x) == x[2] - x[1] + problem.maximum_endo_lag

NonzeroDerivatives ==
  {x \in AllPeriods \X AllPeriods \X (Variables \X Variables) :
     /\ RowFor(x) \in Rows
     /\ \E n \in DOMAIN ListOf(RowFor(x)) : ListOf(RowFor(x))[n] = x[3]
     /\ <<x[3][1], Dynvar(RowFor(x), x[3][2])>> \notin problem.zeros}

(* A derivative of the model, evaluated in its period unless it is constant.*)
DerivativeOf(x) ==
  <<IF problem.linear THEN <<"g1">> ELSE <<"g1", x[1] + problem.lag, Inputs(x[1])>>,
    x[3][1], Dynvar(RowFor(x), x[3][2])>>

(* The Jacobian that is returned has the derivative of each equation with   *)
(* respect to each unknown at its place, and no zeros.                      *)
StackedJacobianIsExact ==
  phase = "returned" /\ problem.jacobian =>
    LET elements(c) == (jc[c + 1] + 1)..jc[c + 2]
    IN  /\ jc[1] = 0 /\ jc[Columns + 1] = Cardinality(NonzeroDerivatives)
        /\ \A c \in 0..(Columns - 1) : \A k, l \in elements(c) : k < l => ir[k] < ir[l]
        /\ \A x \in NonzeroDerivatives :
             \E k \in elements(x[2] * problem.ny + x[3][2]) :
               ir[k] = x[1] * problem.ny + x[3][1] /\ stacked_jacobian[k] = DerivativeOf(x)

(* No element is written behind the end of ir.                              *)
ElementsHaveRoom == ir # <<>> => Len(ir) <= nzmax

(* perfect_foresight_problem returns the residuals and the Jacobian of      *)
(* every period, whichever threads computed them in whichever order.        *)
StackedProblemIsExact ==
  /\ ResidualsAreOfTheirPeriods
  /\ StackedJacobianIsExact
  /\ ElementsHaveRoom
============================================================================

--------------------------- MODULE NewtonControl ---------------------------
(***************************************************************************)
(* The Newton iterations of the bytecode solver: the simple solver of one   *)
(* equation (Evaluate.cc), the blocks with one boundary, solved period by   *)
(* period, and with two boundaries, solved for all periods at once          *)
(* (Interpreter.cc, SparseMatrix.cc).                                       *)
(*                                                                         *)
(* What the equations give at a point is any of Residuals, but the same     *)
(* each time it is evaluated there: nan when some operation had no value,   *)
(* else cvg, if the largest residual is below solve_tolf, and the sum of    *)
(* squares sq.  A point is ya + slowc_save * direction: dir counts the      *)
(* directions, l the reductions of slowc_save, which began at slowc ("s")   *)
(* or at bottom ("b").                                                      *)
(*                                                                         *)
(* method: kind, algo, steady, linear, y_kmin, periods.  The algos are      *)
(* those of stack_solve_algo (solve_algo 5 to 8 of a steady state are 5, 0, *)
(* 2 and 3).                                                                *)
(***************************************************************************)
EXTENDS Integers, FiniteSets, Sequences

CONSTANTS
  Methods,
  Residuals,
  Sums,   \* sums of squares of the residuals of one period
  maxit_,
  Tenth,  \* the reduction after which slowc_save is at most 0.1
  Tiny    \* the reduction after which slowc_save is below 1e-8

(* A steady state has one period, and no blocks with two boundaries.        *)
(* UMFPACK is not used for a dynamic block with one boundary: it would      *)
(* write outside of the arrays.                                             *)
ASSUME MethodsAssumption ==
  \A m \in Methods :
    /\ m.kind \in {"off", "simple", "one", "two"} /\ m.algo \in 0..5
    /\ m.steady \in BOOLEAN /\ m.linear \in BOOLEAN
    /\ m.y_kmin \in Nat /\ m.periods \in Nat
    /\ m.kind = "one" /\ m.steady => m.periods = 1
    /\ m.kind = "two" => ~m.steady
    /\ m.kind = "one" /\ ~m.steady => m.algo \notin {0, 4}

(* Where the sum of squares is zero, no residual is above solve_tolf.       *)
ASSUME ResidualsAssumption ==
  /\ Residuals \subseteq [nan : BOOLEAN, cvg : BOOLEAN, sq : Nat]
  /\ \A v \in Residuals : v.nan \/ v.cvg \/ v.sq > 0

ASSUME SumsAssumption == Sums \subseteq Nat

VARIABLES
  method,
  pc,         \* the loop the solver is in, "off", or how it ended ("solved", "thrown")
  it_, iter,
  y, ya,      \* points
  dir,          \* the latest direction
  seen,       \* the direction found at it_ (0: zeros)
  slow,       \* slowc_save
  res,        \* res1 (nan), max_res (cvg) and res2 (sq)
  g0,
  known,      \* the values at the points that may be evaluated again
  last,       \* the last evaluation, and the last one with derivatives
  system,     \* the evaluation and the point of the last linear system
  live        \* UMFPACK's Symbolic and Numeric objects

newton == <<method, pc, it_, iter, y, ya, dir, seen, slow, res, g0, known, last, system, live>>

very_big == 1000000

Start == [n |-> 0, l |-> <<"s", 0>>]

NaN == [nan |-> TRUE, cvg |-> FALSE, sq |-> 0]
Zero == [nan |-> FALSE, cvg |-> FALSE, sq |-> 0]

Linear == method.linear

ValuesAt(p) == IF p \in DOMAIN known THEN {known[p]} ELSE Residuals

(* v is found at p, with or without derivatives.                            *)
Evaluated(p, v, derivatives) ==
  /\ v \in ValuesAt(p)
  /\ known' = LET kept == {q \in DOMAIN known : q = ya \/ q.n \in {dir, 0 - dir}}
              IN  [q \in kept \cup {p} |-> IF q = p THEN v ELSE known[q]]
  /\ last' = [at |-> p, v |-> v,
              jacobian |-> IF derivatives THEN [at |-> p, v |-> v] ELSE last.jacobian]

(* compute_complete: res2 and max_res are left as they are when res1 is NaN.*)
Unknown(r) == [nan |-> TRUE, cvg |-> r.cvg, sq |-> r.sq]

compute_complete(v) == IF v.nan THEN Unknown(res) ELSE v

Reduced(l) == <<l[1], IF l[2] < Tiny THEN l[2] + 1 ELSE l[2]>>

(* The point ya + l * direction, read at it_.                               *)
Damped(l) ==
  IF seen = 0 \/ (method.kind = "one" /\ l[2] >= Tiny) THEN ya
  ELSE [n |-> IF seen = dir THEN dir ELSE 0 - dir, l |-> l]

ThrowError == pc' = "thrown" /\ UNCHANGED <<method, it_, iter, y, ya, dir, seen, slow, res, g0, system, live>>
-----------------------------------------------------------------------------
(* Solve_LU_UMFPack analyses the matrix at the first iteration, and         *)
(* replaces the factors at the others.                                      *)
Factorised == [Symbolic |-> IF iter = 0 THEN live.Symbolic + 1 ELSE live.Symbolic,
               Numeric |-> IF iter > 0 /\ live.Numeric > 0 THEN live.Numeric ELSE live.Numeric + 1]

UsesLU == method.algo \in {0, 4}

(* Where a step writes its direction: the solvers of a block with one       *)
(* boundary write it at period 0, except Gaussian elimination.              *)
Stored(gauss) == IF method.kind = "two" \/ method.steady \/ it_ = 0 \/ gauss THEN dir + 1 ELSE seen

(* A step from y, to ya + slowc * direction.                                *)
Moved ==
  /\ dir' = dir + 1 /\ ya' = y /\ seen' = Stored(method.algo = 5)
  /\ live' = IF UsesLU THEN Factorised ELSE live
  /\ y' = [n |-> dir + 1, l |-> <<"s", 0>>]

(* GMRES and BiCGStab may fail: y stays, with the old direction.            *)
Unmoved ==
  /\ method.algo \in {2, 3}
  /\ dir' = dir + 1 /\ ya' = y /\ seen' = seen
  /\ UNCHANGED <<y, live>>

(* A zero right-hand side of a block with one boundary; Simple_Init does    *)
(* not save y.                                                              *)
ZeroSolution ==
  /\ method.kind = "one"
  /\ dir' = dir + 1 /\ seen' = Stored(FALSE)
  /\ \/ method.algo # 5 /\ ya' = y /\ y' = [n |-> dir + 1, l |-> <<"s", 0>>]
     \/ method.algo = 5 /\ ya' = ya /\ y' = [n |-> dir + 1, l |-> <<IF ya = y THEN "s" ELSE "zero", 0>>]
  /\ UNCHANGED live

(* UMFPACK, incomplete LU and Gaussian elimination may find the system      *)
(* singular; without an analysis of the matrix there are no factors.        *)
Fails == method.algo # 1

NotAnalysed == UsesLU /\ iter > 0 /\ live.Symbolic = 0

StepTaken ==
  /\ \/ Moved /\ ~NotAnalysed
     \/ Unmoved
     \/ ZeroSolution
  /\ system' = [jacobian |-> last'.jacobian, y |-> y]

-----------------------------------------------------------------------------
(* Blocks with two boundaries: the loop of simulate_a_block with            *)
(* Simulate_Newton_Two_Boundaries.                                          *)
M_Cvg(v) == v.cvg \/ v.nan

Cvg(v) == v.cvg /\ ~v.nan

Rejects(v) == v.nan \/ (iter > 0 /\ v.sq > 12 * g0)

M_GivesUp == iter = 0

GivesUp == iter = 0 \/ slow[2] >= Tiny

compute_complete_2b(v) == pc = "two" /\ Evaluated(y, v, TRUE)

(* An accepted evaluation; the loop stops after maxit_ of them.  The        *)
(* reference is what is then in res2.                                       *)
Accepted(p) ==
  /\ iter' = iter + 1 /\ g0' = res'.sq
  /\ pc' = IF p = "two" /\ iter + 1 > maxit_ THEN "thrown" ELSE p
  /\ UNCHANGED <<method, it_>>

(* After its step, algorithm 4 searches for the best length.                *)
Searches(v) ==
  method.algo = 4 /\ pc' = "search" /\ res' = v /\ UNCHANGED <<method, it_, iter, g0, slow>>

GiveUp ==
  \E v \in Residuals : compute_complete_2b(v) /\ Rejects(v) /\ GivesUp /\ ThrowError

(* A rejected step is made shorter; iter stays as it is.                    *)
Shorten ==
  \E v \in Residuals :
    /\ compute_complete_2b(v) /\ Rejects(v) /\ ~GivesUp
    /\ v.nan \/ method.algo \notin {4, 5}
    /\ slow' = Reduced(slow) /\ y' = Damped(Reduced(slow))
    /\ pc' = IF Cvg(v) THEN "done" ELSE "two"
    /\ res' = v /\ UNCHANGED <<method, it_, iter, ya, dir, seen, g0, system, live>>

FullStep == [n |-> dir, l |-> <<"full", 0>>]

(* Algorithms 4 and 5: gp0 is -g0, so the length -gp0 / (2 (res2-g0-gp0))   *)
(* is below 1/24 and slowc_save becomes bottom.  The full step is then      *)
(* taken with the value of the rejected one as the new reference, and       *)
(* try_at_iteration is never positive when it is tested.  With algorithm 5  *)
(* and slowc = 1 the full step is the one that was rejected.                *)
BackTrack ==
  \E v \in Residuals :
    /\ compute_complete_2b(v) /\ Rejects(v) /\ ~GivesUp
    /\ ~v.nan /\ method.algo \in {4, 5}
    /\ slow' = <<"b", 0>> /\ g0' = v.sq
    /\ y' = FullStep \/ (method.algo = 5 /\ y' = [n |-> dir, l |-> <<"s", 0>>])
    /\ pc' = IF Cvg(v) THEN "done" ELSE "two"
    /\ res' = v /\ UNCHANGED <<method, it_, iter, ya, dir, seen, system, live>>

Converge ==
  \E v \in Residuals :
    /\ compute_complete_2b(v) /\ ~Linear /\ ~Rejects(v) /\ Cvg(v)
    /\ res' = v /\ Accepted("done") /\ slow' = <<"s", 0>>
    /\ UNCHANGED <<y, ya, dir, seen, system, live>>

Simulate_Newton_Two_Boundaries ==
  \E v \in Residuals :
    /\ compute_complete_2b(v) /\ ~Linear /\ ~Rejects(v) /\ ~Cvg(v)
    /\ \/ StepTaken /\ Searches(v)
       \/ StepTaken /\ method.algo # 4 /\ res' = v /\ Accepted("two") /\ slow' = <<"s", 0>>
       \/ Fails /\ ThrowError

(* A linear block takes one step, unless it cannot be evaluated.            *)
SimulateLinear ==
  \E v \in Residuals :
    /\ compute_complete_2b(v) /\ Linear /\ ~Rejects(v)
    /\ \/ StepTaken /\ Searches(v)
       \/ StepTaken /\ method.algo # 4 /\ pc' = "done" /\ res' = v
          /\ UNCHANGED <<method, it_, iter, g0, slow>>
       \/ Fails /\ ThrowError

(* What the search leaves in res2: the sum of the last period alone, at the *)
(* last length it tried.  When that could not be evaluated, the sum is that *)
(* of the last period that could: of this length, of an earlier one, or     *)
(* still the sum over all periods of the accepted evaluation.               *)
LastSum(w) ==
  IF w.nan THEN Sums \cup {res.sq}
  ELSE IF method.periods = 1 THEN {w.sq}
  ELSE {sq \in Sums \cup {w.sq} : sq <= w.sq}

(* The line search stops at a length that cannot be evaluated, else slowc   *)
(* becomes the best one, which may be below 1e-8.  y stays at the last      *)
(* length tried; no derivatives are computed.                               *)
LineSearch ==
  /\ pc = "search"
  /\ y' = [n |-> dir, l |-> <<"searched", 0>>]
  /\ \E w \in Residuals : \E sq \in LastSum(w) :
       Evaluated([n |-> dir, l |-> <<"searched", 0>>], w, FALSE) /\ res' = [w EXCEPT !.sq = sq]
  /\ \/ Linear /\ pc' = "done" /\ UNCHANGED <<method, it_, iter, g0, slow>>
     \/ ~Linear /\ Accepted("two") /\ slow' \in {<<"s", 0>>, <<"s", Tiny>>}
  /\ UNCHANGED <<ya, dir, seen, system, live>>
-----------------------------------------------------------------------------
(* Blocks with one boundary: solve_linear, as it is called by               *)
(* solve_non_linear or, once in each period, for a linear block.            *)
Diverges(r) == r.nan \/ r.sq > g0

solve_linear ==
  /\ pc = "one"
  /\ \E v \in Residuals :
       LET r == compute_complete(v)
           check == iter > 0 /\ ~Linear
       IN  /\ Evaluated(y, v, TRUE) /\ res' = r
           /\ \/ r.cvg /\ ~r.nan /\ pc' = "next" /\ UNCHANGED <<y, slow>>
              \/ ~(r.cvg /\ ~r.nan) /\ ~check /\ pc' = "simulate" /\ UNCHANGED <<y, slow>>
              \/ /\ ~(r.cvg /\ ~r.nan) /\ check /\ Diverges(r)
                 /\ pc' = "nan" /\ UNCHANGED <<y, slow>>
              \/ /\ ~(r.cvg /\ ~r.nan) /\ check /\ ~Diverges(r)
                 /\ pc' = "simulate" /\ y' = Damped(slow) /\ slow' = <<"s", 0>>
  /\ UNCHANGED <<method, it_, iter, ya, dir, seen, g0, system, live>>

(* The two loops of Check_and_Correct_Previous_Iteration: until the block   *)
(* can be evaluated, then until res2 is no larger than before, where a NaN  *)
(* leaves res2 as it was.                                                   *)
NotEvaluated == pc = "nan" /\ res.nan

TooLarge == (pc = "large" \/ (pc = "nan" /\ ~res.nan)) /\ res.sq > g0 /\ slow[2] < Tenth

Correct ==
  /\ NotEvaluated \/ TooLarge
  /\ pc' = IF NotEvaluated THEN "nan" ELSE "large"
  /\ slow' = Reduced(slow) /\ y' = Damped(Reduced(slow))
  /\ \E v \in Residuals : Evaluated(Damped(Reduced(slow)), v, FALSE) /\ res' = compute_complete(v)
  /\ UNCHANGED <<method, it_, iter, ya, dir, seen, g0, system, live>>

Corrected ==
  /\ pc \in {"nan", "large"} /\ ~NotEvaluated /\ ~TooLarge
  /\ pc' = "simulate"
  /\ slow' = <<"s", 0>> /\ y' = Damped(slow)
  /\ \E v \in Residuals : Evaluated(Damped(slow), v, TRUE) /\ res' = compute_complete(v)
  /\ UNCHANGED <<method, it_, iter, ya, dir, seen, g0, system, live>>

(* A point that cannot be evaluated ends the simulation of a dynamic model, *)
(* and only gives a message in a steady state.                              *)
Simulate_One_Boundary ==
  /\ pc = "simulate"
  /\ \/ /\ res.nan => method.steady
        /\ UNCHANGED <<last, known>> /\ StepTaken
        /\ \/ Linear /\ pc' = "next" /\ UNCHANGED <<iter, g0>>
           \/ /\ ~Linear /\ iter' = iter + 1 /\ g0' = res.sq
              /\ pc' = IF iter = 0 /\ res.cvg THEN "next"
                       ELSE IF iter + 1 < maxit_ THEN "one" ELSE "thrown"
        /\ UNCHANGED <<method, it_, slow, res>>
     \/ ((res.nan /\ ~method.steady) \/ Fails) /\ ThrowError /\ UNCHANGED <<known, last>>
-----------------------------------------------------------------------------
(* One equation: solve_simple_one_periods.  res1 is set to 0 once for a     *)
(* period: after a fault it stays NaN, the length is cut down to 1e-9, and  *)
(* what is tested is the residual of the last evaluation that gave one.     *)
SimpleStep(r, l) ==
  \/ r.cvg /\ pc' = "next" /\ slow' = l /\ UNCHANGED <<y, dir, iter>>
  \/ /\ ~r.cvg /\ slow' = l /\ iter' = iter + 1
     /\ pc' = IF iter + 1 > maxit_ THEN "thrown" ELSE "simple"
     /\ \/ y' = [n |-> dir + 1, l |-> l] /\ dir' = dir + 1
        \/ UNCHANGED <<y, dir>>  \* a zero derivative

solve_simple_one_periods ==
  /\ pc = "simple"
  /\ \E v \in Residuals :
       /\ Evaluated(y, v, TRUE)
       /\ LET r == IF res.nan \/ v.nan THEN Unknown(compute_complete(v)) ELSE v
          IN  /\ res' = r /\ ya' = y
              /\ \/ (~r.nan \/ slow[2] >= Tiny) /\ SimpleStep(r, slow)
                 \/ r.nan /\ slow[2] < Tiny /\ pc' = "cut" /\ UNCHANGED <<y, dir, iter, slow>>
  /\ UNCHANGED <<method, it_, seen, g0, system, live>>

(* The division by the derivative may fail, outside of any handler.         *)
Cut ==
  /\ pc = "cut"
  /\ \E v \in Residuals :
       /\ Evaluated(y, v, TRUE)
       /\ LET r == Unknown(compute_complete(v))
              l == Reduced(slow)
          IN  /\ res' = r
              /\ \/ l[2] < Tiny /\ pc' = "cut" /\ slow' = l /\ y' = [n |-> dir, l |-> <<"cut", l[2]>>]
                    /\ UNCHANGED <<dir, iter>>
                 \/ l[2] >= Tiny /\ SimpleStep(r, l)
                 \/ pc' = "thrown" /\ UNCHANGED <<y, dir, iter, slow>>
  /\ UNCHANGED <<method, it_, ya, seen, g0, system, live>>
-----------------------------------------------------------------------------
(* The periods of a block that is solved period by period.                  *)
PeriodSolved ==
  /\ pc = "next"
  /\ slow' = IF method.kind = "simple" THEN <<"s", 0>> ELSE slow
  /\ \/ /\ it_ + 1 < method.y_kmin + method.periods
        /\ it_' = it_ + 1 /\ pc' = method.kind
        /\ iter' = (IF Linear THEN iter ELSE 0) /\ g0' = very_big
        /\ y' = Start /\ ya' = Start /\ dir' = 0 /\ seen' = 0 /\ known' = <<>>
        /\ res' = IF method.kind = "simple" THEN [res EXCEPT !.nan = FALSE] ELSE res
     \/ /\ it_ + 1 = method.y_kmin + method.periods
        /\ pc' = "done" /\ UNCHANGED <<it_, iter, y, ya, dir, seen, res, g0, known>>
  /\ UNCHANGED <<method, last, system, live>>

(* The block is left: its factors are freed.                                *)
End_Solver ==
  /\ pc = "done" /\ pc' = "solved"
  /\ live' = IF UsesLU THEN [Symbolic |-> IF live.Symbolic > 0 THEN live.Symbolic - 1 ELSE 0,
                             Numeric |-> IF live.Numeric > 0 THEN live.Numeric - 1 ELSE 0]
             ELSE live
  /\ UNCHANGED <<method, it_, iter, y, ya, dir, seen, slow, res, g0, known, last, system>>

NewtonNext == \/ GiveUp \/ Shorten \/ BackTrack \/ Converge
        \/ Simulate_Newton_Two_Boundaries \/ SimulateLinear \/ LineSearch
        \/ solve_linear \/ Correct \/ Corrected \/ Simulate_One_Boundary
        \/ solve_simple_one_periods \/ Cut \/ PeriodSolved \/ End_Solver

NoEvaluation == [at |-> Start, v |-> NaN]

(* max_res is 0 when a block begins; the residual of the simple solver is   *)
(* whatever was in its memory.                                              *)
NewtonInit ==
  /\ method \in Methods /\ pc = method.kind /\ it_ = method.y_kmin
  /\ iter = 0 /\ y = Start /\ ya = Start /\ dir = 0 /\ seen = 0
  /\ slow = <<"s", 0>> /\ g0 = very_big /\ known = <<>>
  /\ last = [at |-> Start, v |-> NaN, jacobian |-> NoEvaluation]
  /\ system = [jacobian |-> [at |-> Start, v |-> Zero], y |-> Start]
  /\ live = [Symbolic |-> 0, Numeric |-> 0]
  /\ \E c \in BOOLEAN : (c \/ method.kind = "simple") /\ res = [nan |-> FALSE, cvg |-> c, sq |-> 0]

NewtonSpec == NewtonInit /\ [][NewtonNext]_newton /\ WF_newton(NewtonNext)
-----------------------------------------------------------------------------
(* A nonlinear block (or period) that is left has its last evaluation at    *)
(* the values that are kept, finite and below the tolerance.  Exceptions:   *)
(* more than 12 residuals just below solve_tolf may be rejected and         *)
(* shortened in spite of their convergence; with algorithm 4 any converged  *)
(* point may be rejected, as it is compared with the sum of one period, and *)
(* the block is left at the full step, which was not evaluated; and a       *)
(* steady state and the simple solver go on after a point that cannot be    *)
(* evaluated.                                                               *)
LeavesAtTheSolution ==
  pc \in {"next", "done"} /\ ~Linear /\ ~(res.nan /\ method.kind = "simple")
     /\ ~(res.nan /\ method.steady) =>
    /\ last.v.cvg /\ ~last.v.nan
    /\ last.at = y \/ IF method.algo = 4 THEN y = FullStep ELSE last.v.sq > 12

(* The linear systems of a dynamic model come from points that could be     *)
(* evaluated, and a step starts where its derivatives were taken (a block   *)
(* with one boundary may have been moved back to ya meanwhile, as its       *)
(* directions are stored at period 0).                                      *)
SystemsAreOfTheCurrentPoint ==
  method.kind \in {"one", "two"} /\ ~method.steady =>
    /\ ~system.jacobian.v.nan
    /\ method.kind = "two" => system.jacobian.at = system.y

(* There is at most one analysis and one factorisation of a matrix at a     *)
(* time, and none is left when a block has been solved.                     *)
FactorsAreFreed ==
  /\ live.Symbolic <= 1 /\ live.Numeric <= 1
  /\ pc = "solved" => live = [Symbolic |-> 0, Numeric |-> 0]

(* The iterations end, with a solution or an error, although rejected steps *)
(* are not counted; only in a steady state a step may be shortened for      *)
(* ever, if it began at a point that cannot be evaluated or was not (ya is  *)
(* stale after a zero solution).                                            *)
NewtonEnds ==
  (pc \notin {"off", "solved", "thrown"})
    ~> \/ pc \in {"solved", "thrown"}
       \/ method.steady /\ (system.jacobian.v.nan \/ system.jacobian.at # system.y)

(* Through accepted, searched, shortened and rejected steps: a block is     *)
(* left after an evaluation that converged, and at its point unless that    *)
(* was rejected, steps are of the current point, and UMFPACK's objects are  *)
(* freed.                                                                   *)
SolverStateIsSound ==
  /\ LeavesAtTheSolution
  /\ SystemsAreOfTheCurrentPoint
  /\ FactorsAreFreed
============================================================================

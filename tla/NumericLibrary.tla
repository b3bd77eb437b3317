--------------------------- MODULE NumericLibrary ---------------------------
(***************************************************************************)
(* Calls of the byte code interpreter and of the other numerical parts,     *)
(* each with its inputs, and what the results must be.                      *)
(***************************************************************************)
EXTENDS BytecodeCalls, CompressedColumns

CONSTANTS
  BlockCalls,  \* one block at one period: [op, b, e]
  ModelCalls,  \* the evaluation of a model: [op, bs, g, block]
  PathCalls,   \* extended paths: [op, bs, g, n, shocks]
  PlanCalls,   \* controlled variables: [op, fbs, plans]
  SparseCalls, \* sparse arithmetic: [op, A, B, junk]
  StackCalls,  \* Newton steps of a block: [op, k, file, res, it_]
  LineCalls,   \* searches along a line: [op, f, ax, bx] or [op, fs, tol]
  QuadratureCalls \* integrals: [op, q, tn, max_evals]

VARIABLES call, result

L == INSTANCE LineSearches

I == INSTANCE Integration WITH MaxDim <- 1

vars == <<call, result>>

None == [op |-> "none"]

Init == /\ call \in BlockCalls \cup ModelCalls \cup PathCalls \cup PlanCalls \cup SparseCalls
                   \cup StackCalls \cup LineCalls \cup QuadratureCalls
        /\ result = None

Calls(op) == result = None /\ call.op = op /\ UNCHANGED call

WithCode(e, b) == [e EXCEPT !.code = BlockCode(e.steady_state, b)]

(* A block is computed, and printed.                                        *)
ComputeBlock ==
  /\ Calls("block")
  /\ \E e \in {WithCode(call.e, call.b)} :
         result' = [op |-> "block", m |-> compute_block_time(e, Machine(<<>>), 1),
                    printed |-> print_a_block(e, 1)]

Coded(g, bs) ==
  LET code == ModelCode(g.steady_state, bs) IN [g EXCEPT !.code = code, !.begin = Begins(code)]

(* A model, or one block of it, is evaluated at the given values.           *)
EvaluateModel ==
  /\ Calls("model")
  /\ result' = [op |-> "model",
                s |-> compute_blocks(Coded(call.g, call.bs), <<>>, TRUE, call.block)]

(* The periods of a block of assignments, and an extended path.             *)
SimulatePath ==
  /\ Calls("path")
  /\ \E g \in {Coded(call.g, call.bs)} :
         result' = [op |-> "path", once |-> compute_blocks(g, <<>>, FALSE, -1),
                    path |-> extended_path(g, <<>>, call.n, call.shocks, {})]

(* The plan of a conditional forecast is checked at each block.             *)
CheckPlan ==
  /\ Calls("plan")
  /\ result' = [op |-> "plan",
                s |-> Fold(LAMBDA s, fb : IF s.m.thrown THEN s
                                          ELSE check_for_controlled_exo_validity(s, fb, call.plans),
                           Interpreter(<<>>), call.fbs)]

(* Sums and products of matrices.                                           *)
SparseArithmetic ==
  /\ Calls("sparse")
  /\ result' = [op |-> "sparse", minus |-> Sparse_substract_SA_SB(call.A, call.B, call.junk),
                times |-> Sparse_mult_SAT_SB(call.A, call.B), transpose |-> Sparse_transpose(call.A)]

(* The system of a Newton step, its solution by the linear solver (call.res *)
(* solves it) or by the relaxation, and the step.                           *)
NewtonSystem ==
  /\ Calls("stack")
  /\ \E mat \in {Init_Matlab_Sparse(call.k)} :
         result' = [op |-> "stack", umf |-> Init_UMFPACK_Sparse(call.k), mat |-> mat,
                    relaxed |-> Solve_Matlab_Relaxation(mat.A, mat.b, call.k.Size, call.k.periods),
                    step |-> TakeStep(call.k, call.res, 1)]

(* The same for a block with one boundary, at a period.                     *)
SimpleSystem ==
  /\ Calls("simple")
  /\ result' = [op |-> "simple", system |-> Init_UMFPACK_Sparse_Simple(call.k),
                y |-> TakeStepAt(call.k, call.res, 1, call.it_)]

(* The step of algorithm 4: the length is bracketed, then searched for.     *)
SearchLength ==
  /\ Calls("length")
  /\ \E m \in {L!mnbrak(call.f, call.ax, call.bx)} :
         result' = [op |-> "length", m |-> m, g |-> IF m.ok THEN L!golden(call.f, m.b) ELSE m]

(* The nonlinear solver of Dynare++.                                        *)
SolveNonlinear ==
  /\ Calls("solve")
  /\ result' = [op |-> "solve", s |-> L!solve(call.fs, call.tol, 0)]

(* An integral by tn workers, and the level for a number of evaluations.    *)
Integrate ==
  /\ Calls("integrate")
  /\ result' = [op |-> "integrate", runs |-> I!integrate(call.q, call.tn),
                design |-> IF call.q.kind = "qmc" THEN <<>>
                           ELSE I!designLevelForEvals(call.q, call.max_evals)]

Returned == result # None /\ UNCHANGED vars

Next == \/ ComputeBlock \/ EvaluateModel \/ SimulatePath \/ CheckPlan
        \/ SparseArithmetic \/ NewtonSystem \/ SimpleSystem
        \/ SearchLength \/ SolveNonlinear \/ Integrate \/ Returned

Spec == Init /\ [][Next]_vars
-----------------------------------------------------------------------------
(* The statements a call of compute_block_time goes through.                *)
Through(e, b) ==
  b.model \o (IF e.no_derivative THEN <<>> ELSE IF e.evaluate THEN b.eval ELSE b.solve)

AllOperations(e, b) ==
  LET sts == Through(e, b)
  IN  UNION {Operations(e, Meaning(e, <<>>, SubSeq(sts, 1, k - 1)), sts[k].expr) : k \in DOMAIN sts}

Sound(e, b) == AllOperations(e, b) \cap DOMAIN e.faults = {}

(* The stack machine gives every residual, temporary term, derivative and   *)
(* result of an external function the value of its expression, in its place *)
(* and nothing else, leaves nothing but the derivatives of FSTPG2 on the    *)
(* stack, and skips the derivatives that are not asked for.                 *)
EvaluatorComputesTheModel ==
  result.op = "block" /\ Sound(call.e, call.b) =>
    /\ result.m.mem = BlockMeaning(call.e, <<>>, call.b)
    /\ Len(result.m.stack)
         = Len(SelectSeq(Through(call.e, call.b), LAMBDA st : st.target.tag = "FSTPG2"))
    /\ ~result.m.thrown /\ ~result.m.bad /\ result.m.message = <<>>

(* When an operation has no finite value and errors are printed, the        *)
(* message names the statement at fault; what was computed before it stays, *)
(* what comes after is not computed, and no undefined value is stored.      *)
FaultsAreLocated ==
  result.op = "block" /\ ~Sound(call.e, call.b) =>
    LET e == call.e
        sts == Through(e, call.b)
        before(k) == Meaning(e, <<>>, SubSeq(sts, 1, k - 1))
        k == CHOOSE k \in DOMAIN sts :
               /\ Operations(e, before(k), sts[k].expr) \cap DOMAIN e.faults # {}
               /\ \A i \in 1..(k - 1) :
                    Operations(e, before(i), sts[i].expr) \cap DOMAIN e.faults = {}
    IN  /\ result.m.bad /\ ~result.m.thrown
        /\ e.print_error =>
             /\ result.m.message = <<sts[k].kind, sts[k].equation>>
                                     \o (IF e.steady_state THEN <<>> ELSE <<e.it_>>)
             /\ result.m.mem = Meaning(e, before(k), <<sts[k]>>)
             /\ \A i \in DOMAIN result.m.text : result.m.text[i] # Undefined
        /\ ~e.print_error => DOMAIN result.m.mem = DOMAIN Meaning(e, <<>>, sts)

(* A printed statement reads as the expression it computes.                 *)
PrintedStatementsReadBack ==
  result.op = "block" =>
    LET sts == call.b.model \o call.b.solve \o call.b.eval
        texts == SelectSeq(result.printed, LAMBDA t : Len(t) > 2)
    IN  /\ Len(texts) = Len(sts)
        /\ \A k \in DOMAIN sts : Readable(sts[k].expr) =>
             Signed(FALSE, ReadFormula(SubSeq(texts[k], 3, Len(texts[k]))))
               = Signed(FALSE, Dated(call.e.steady_state, sts[k].expr))

(* The value of a constant expression.                                      *)
RECURSIVE Number(_)
Number(t) == CASE t[1] = "c" -> t[2]
               [] t[1] = "times" -> Number(t[2]) * Number(t[3])
               [] t[1] = "power" -> Power(Number(t[2]), Number(t[3]))

(* PowerDeriv gives the derivative of a natural power, n (n-1) ... (n-k+1)  *)
(* x^(n-k), also at zero.                                                   *)
PowerDerivIsTheDerivative ==
  result.op = "block" =>
    \A k \in DOMAIN call.b.model :
      LET t == call.b.model[k].expr
      IN  t[1] = "powerDeriv" /\ t[2][1] = "c" /\ t[3][1] = "c" /\ t[3][2] > 0 /\ Sound(call.e, call.b) =>
            LET x == t[2][2]
                n == t[3][2]
                d == t[4][2]
            IN  Number(result.m.mem[Target(call.e, call.b.model[k])])
                  = IF d > n THEN 0
                    ELSE Product([i \in 1..d |-> n - i + 1]) * Power(x, n - d)

(* The residuals of a model are found at the rows of their equations, those *)
(* of a block asked for alone in the order of its equations.                *)
ResidualsAreAtTheirEquations ==
  result.op = "model" =>
    LET g == call.g
        asked == IF call.block >= 0 THEN <<call.bs[call.block + 1]>> ELSE call.bs
        its == IF g.steady_state THEN {0} ELSE g.y_kmin..(g.y_kmin + g.periods - 1)
    IN  \A b \in {asked[i] : i \in DOMAIN asked} : \A j \in 1..b.fb.size : \A it \in its :
        \A e \in {Env(Coded(g, call.bs), b.fb, it, 0, TRUE, FALSE)} :
          LET eq == b.fb.contain[j]
              width == IF call.block >= 0 THEN b.fb.size ELSE g.y_size
              row == (IF call.block >= 0 THEN j - 1 ELSE eq.Equation) + (IF g.steady_state THEN 0 ELSE it * width)
              st == b.model[j]
              y == Cell(e, "y", eq.Variable, 0)
              wanted == IF b.fb.type \in EvaluateTypes
                        THEN <<"minus", Value(e, result.s.m.mem, st.expr), <<"ya", y[2]>>>>
                        ELSE Value(e, result.s.m.mem, st.expr)
          IN  result.s.residual[row] = wanted

(* What the blocks from k on compute when each is run over its periods.     *)
RECURSIVE Simulated(_, _, _, _)
Simulated(g, bs, mem, k) ==
  IF k > Len(bs) THEN mem
  ELSE LET at(m, it) == Meaning(Env(g, bs[k].fb, it, 0, FALSE, FALSE), m, bs[k].model)
       IN  Simulated(g, bs, Fold(at, mem, Periods(g, bs[k].fb.type = "evaluateForward")), k + 1)

(* Blocks of assignments run over the periods in the order that lets each   *)
(* period see the ones already computed; extended_path is the recursion of  *)
(* the model with one known shock at a time, and it_ is left inside the     *)
(* range.                                                                   *)
PathsAreRecursive ==
  result.op = "path" => \A g \in {Coded(call.g, call.bs)} :
    LET step(st, t) ==
          LET x == [c \in {<<"x", i>> : i \in 0..(g.col_x * g.nb_row_x - 1)} |->
                      IF c[2] % g.nb_row_x # g.y_kmin THEN Const(0)
                      ELSE LET own == {k \in DOMAIN call.shocks :
                                         call.shocks[k].exo_num - 1 = c[2] \div g.nb_row_x}
                           IN  IF own # {} THEN call.shocks[CHOOSE k \in own : TRUE].value[t + 1]
                               ELSE <<"x", c[2] + t>>]
              \* A variable's future is what the previous simulation left.
              past(m) == [c \in {<<"y", j>> : j \in 0..(g.y_size - 1)} |->
                            Holds(m, <<"y", c[2] + g.y_kmin * g.y_size>>)]
              next(m) == [mem |-> past(m) @@ m,
                          y |-> [c \in {j + (t + g.y_kmin) * g.y_size : j \in 0..(g.y_size - 1)} |->
                                   Holds(m, <<"y", (c % g.y_size) + g.y_kmin * g.y_size>>)] @@ st.y]
          IN  next(Simulated(g, call.bs, x @@ st.mem, 1))
    IN  /\ result.once.m.mem = Simulated(g, call.bs, <<>>, 1)
        /\ result.once.it_ \in g.y_kmin..(g.y_kmin + g.periods - 1)
        /\ result.path.y_save
             = Fold(step, [mem |-> <<>>, y |-> <<>>], UpTo(call.n)).y

(* A plan that passes the check gives each controlled exogenous variable to *)
(* the block that is solved for the variable it controls, and no block      *)
(* computed before that one depends on it.                                  *)
AcceptedPlansAreSolvable ==
  result.op = "plan" /\ ~result.s.m.thrown =>
    \A p \in call.plans : \A b \in DOMAIN call.fbs :
      p.exo_num \in call.fbs[b].endogenous =>
        /\ p.var_num \in call.fbs[b].exogenous /\ call.fbs[b].type \notin EvaluateTypes
        /\ \A a \in DOMAIN call.fbs \ {b} : p.var_num \notin call.fbs[a].exogenous

(* The sparse arithmetic gives well-formed matrices with the elements of    *)
(* the difference, the product and the transpose, whatever lies behind the  *)
(* arrays.                                                                  *)
SparseArithmeticIsExact ==
  result.op = "sparse" =>
    LET A == call.A
        B == call.B
    IN  /\ IsCsc(result.minus) /\ IsCsc(result.times) /\ IsCsc(result.transpose)
        /\ \A r \in 0..(A.m - 1), c \in 0..(A.n - 1) :
             /\ At(result.minus, r, c) = Fp(At(A, r, c) - At(B, r, c))
             /\ At(result.times, r, c)
                  = Fp(Total([k \in 1..A.m |-> At(A, k - 1, r) * At(B, k - 1, c)]))
             /\ At(result.transpose, c, r) = At(A, r, c)

Times(A, x, r) == Total([c \in 1..A.n |-> At(A, r, c - 1) * x[c]])

(* The linearised equation eq of period t at the values y and x.            *)
Linearised(k, file, y, x, eq, t) ==
  LET u(n) == k.u[n + t * k.u_count_init + 1]
      rows == SelectSeq([n \in DOMAIN file |-> n], LAMBDA n : file[n][1] = eq)
      value(n) == y[index_vara(k, file[n][2] + k.Size * (k.y_kmin + t)) + 1]
      exo(v) == k.cond[v].jac[eq + 1] * (x[k.cond[v].exo] - k.x[k.cond[v].exo])
  IN  u(eq) + Total([i \in DOMAIN rows |-> u(k.Size + rows[i] - 1) * value(rows[i])])
        + (IF t = 0 THEN SumOfAll(DOMAIN k.cond, exo) ELSE 0)

(* A Newton step makes all linearised equations of all periods zero, with   *)
(* given variables and the periods before and after left alone: the stacked *)
(* system is well-formed, the solution of the linear solver solves it, and  *)
(* it is put where it belongs.                                              *)
NewtonStepSolvesTheLinearisedModel ==
  /\ result.op = "stack" =>
       LET k == call.k
           n == k.Size * k.periods
           unknown == {index_vara(k, i + k.Size * k.y_kmin) + 1 : i \in 0..(n - 1) \ DOMAIN k.cond}
           systems == {result.umf} \cup (IF DOMAIN k.cond = {} THEN {result.mat} ELSE {})
       IN  /\ \A s \in systems : IsCsc(s.A) /\ \A r \in 1..n : Times(s.A, call.res, r - 1) = s.b[r]
           /\ \A eq \in 0..(k.Size - 1), t \in 0..(k.periods - 1) :
                Linearised(k, call.file, result.step.y, result.step.x, eq, t) = 0
           /\ \A c \in DOMAIN k.y \ unknown : result.step.y[c] = k.y[c]
  /\ result.op = "simple" =>
       LET k == call.k
           s == result.system
       IN  /\ IsCsc(s.A) /\ \A r \in 1..k.Size : Times(s.A, call.res, r - 1) = s.b[r]
           /\ \A r \in 1..k.Size :
                k.u[r] + Total([n \in DOMAIN call.file |->
                                  IF call.file[n][1] # r - 1 THEN 0
                                  ELSE k.u[k.Size + n]
                                         * result.y[k.vara[call.file[n][2] + 1] + call.it_ * k.y_size + 1]])
                  = 0
           /\ s.zero_solution <=> \A r \in 1..k.Size : k.u[r] = 0

(* With one lag and one lead, the relaxation solves the stacked system if   *)
(* no diagonal block becomes singular, except that the last right-hand side *)
(* is the one of the period before (or 0 when there are two periods).       *)
RelaxationSolvesTheSystem ==
  result.op = "stack" =>
    LET k == call.k
        n == k.Size * k.periods
        s == result.mat
        b == [s.b EXCEPT ![n] = IF k.periods = 2 THEN 0 ELSE s.b[n - k.Size]]
    IN  k.y_kmin <= 1 /\ k.y_kmax <= 1 /\ ~result.relaxed.singular =>
          \A r \in 1..n : Fp(Times(s.A, result.relaxed.res, r - 1)) = Fp(b[r])

(* A bracket found by mnbrak has its lowest value inside, and the length    *)
(* that golden returns lies in the bracket and is no worse.                 *)
BracketHoldsTheMinimum ==
  result.op = "length" /\ result.m.ok =>
    LET b == result.m.b
        f == call.f
        within(x) == L!Between(b.a, x, b.c) \/ x \in {b.a, b.c}
    IN  /\ within(b.b)
        /\ L!Crit(f, b.b) <= L!Crit(f, b.a) /\ L!Crit(f, b.b) <= L!Crit(f, b.c)
        /\ result.g.ok => within(result.g.xmin) /\ L!Crit(f, result.g.xmin) <= L!Crit(f, b.b)

(* The solver calls a point a solution only where all residuals are defined *)
(* and small.  A bracket of init_bracket has its lowest value inside; when  *)
(* there is none, or every point can be evaluated, the search does no worse *)
(* than the safe point.                                                     *)
SearchIsSafe ==
  result.op = "solve" =>
    /\ result.s.converged =>
         LET f == call.fs[result.s.iter]
         IN  f.at[L!Cell(f.cuts, L!Millionths(result.s.x))] = 1
    /\ \A f \in {call.fs[k] : k \in DOMAIN call.fs} :
         LET safe == L!Eval(f, <<0, 0>>)
         IN  L!IsFinite(safe) =>
             \A s \in {L!init_bracket(f, <<0, 0>>, <<1, 0>>, 0)},
                best \in {L!Eval(f, L!search(f, call.tol, <<0, 0>>, <<1, 0>>))} :
               /\ s.found => /\ L!Less(<<0, 0>>, s.b) /\ L!Less(s.b, s.x2)
                             /\ L!Eval(f, s.b) < safe /\ L!Eval(f, s.b) < L!Eval(f, s.x2)
               /\ L!IsFinite(best)
               /\ ~s.found \/ (\A c \in DOMAIN f.at : f.at[c] # L!Fault) => best <= safe

(* However the points are shared out, the workers together evaluate each    *)
(* point once with its weight: the integral is exact for the polynomials    *)
(* that the one-dimensional rules of level l, exact up to degree l - 1 (for *)
(* the functional that takes a function to its value at 2), make exact; the *)
(* points of quasi Monte Carlo are the inverses of 1, ..., l.               *)
IntegrationIsExact ==
  result.op = "integrate" =>
    LET q == call.q
        all == Flat(result.runs)
        monomial(p, a) == Product([i \in 1..q.d |-> Power(p[i], a[i])])
        degrees == {a \in [1..q.d -> 0..(q.l - 1)] : q.kind = "smolyak" => Total(a) <= q.l - 1}
    IN  IF q.kind = "qmc"
        THEN [k \in DOMAIN all |-> all[k].p]
               = [n \in 1..q.l |-> [i \in 1..q.d |->
                    I!Inverted(I!RadicalInverse(n, I!Primes[i], q.l), q.scheme)]]
        ELSE \A a \in degrees :
               Total([k \in DOMAIN all |-> all[k].w * monomial(all[k].p, a)]) = Power(2, Total(a))

(* A function is told of every coordinate that differs from the point its   *)
(* worker gave it before.                                                   *)
SignalsTellChanges ==
  result.op = "integrate" =>
    \A t \in DOMAIN result.runs : \A k \in DOMAIN result.runs[t] : \A i \in 1..call.q.d :
      LET run == result.runs[t]
      IN  (k = 1 \/ run[k].p[i] # run[k - 1].p[i]) => run[k].sig[i]

(* A level designed for a number of evaluations does not need more, and the *)
(* next level would (or no level is left; product quadratures stop two      *)
(* levels earlier).                                                         *)
DesignFitsTheBudget ==
  result.op = "integrate" /\ call.q.kind # "qmc" =>
    LET d == result.design
        top == Len(call.q.uq.num_points) - (IF call.q.kind = "smolyak" THEN 1 ELSE 3)
    IN  /\ d.evals = I!numEvals(call.q, d.lev) /\ d.evals <= call.max_evals
        /\ \/ d.lev >= top
           \/ IF call.q.kind = "smolyak" THEN I!numEvals(call.q, d.lev + 1) > call.max_evals
              ELSE I!numEvals(call.q, d.lev + 1) >= call.max_evals

(* The machine, the printer and the interpreter give the byte code the      *)
(* meaning of the model it was written from: values, faults, printed        *)
(* formulas, residuals, paths and plans.                                    *)
BytecodeMeansTheModel ==
  /\ EvaluatorComputesTheModel
  /\ FaultsAreLocated
  /\ PrintedStatementsReadBack
  /\ PowerDerivIsTheDerivative
  /\ ResidualsAreAtTheirEquations
  /\ PathsAreRecursive
  /\ AcceptedPlansAreSolvable

(* The systems that SparseMatrix.cc stacks for the linear solvers, its      *)
(* sparse arithmetic and its relaxation lead to a step that makes the       *)
(* linearised equations zero.                                               *)
LinearSystemsAreExact ==
  /\ SparseArithmeticIsExact
  /\ NewtonStepSolvesTheLinearisedModel
  /\ RelaxationSolvesTheSystem

(* mnbrak, golden and GoldenSectionSearch bracket a minimum and answer with *)
(* a point no worse, also where the function cannot be evaluated            *)
(* everywhere.                                                              *)
SearchesAreSafe ==
  /\ BracketHoldsTheMinimum
  /\ SearchIsSafe

(* The workers of a quadrature visit every point once, tell the function    *)
(* what changed since their point before, and a designed level fits its     *)
(* budget.                                                                  *)
QuadraturesAreExact ==
  /\ IntegrationIsExact
  /\ SignalsTellChanges
  /\ DesignFitsTheBudget
============================================================================

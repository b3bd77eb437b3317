----------------------------- MODULE MCNumerics -----------------------------
(* Calls of the numerical parts: small blocks of byte code with every       *)
(* instruction, models of one to three blocks, short extended paths.        *)
EXTENDS NumericLibrary, NewtonControl, PerfectForesight

Y(v, lag) == <<"endogenous", v, lag>>

X(v, lag) == <<"exogenous", v, lag>>

P(v) == <<"parameter", v, 0>>

Equation(static, k, ex) ==
  [kind |-> "ModelEquation", equation |-> k, expr |-> ex, target |-> [tag |-> "FSTPR", pos |-> k]]

TempTerm(static, k, ex) ==
  [kind |-> "TemporaryTerm", equation |-> k, expr |-> ex,
   target |-> [tag |-> IF static THEN "FSTPST" ELSE "FSTPT", pos |-> k]]

BinaryOps == {"plus", "minus", "times", "divide", "less", "greater", "lessEqual", "greaterEqual",
              "equalEqual", "different", "power", "max", "min"}

(* Trees with op at the root over every kind of operand.                    *)
Trees(op) ==
  LET a == Y(0, -1)
      b == X(1, 1)
      c == P(1)
  IN  <<<<op, a, b>>, <<op, <<"plus", a, b>>, c>>, <<op, c, <<"plus", a, b>>>>,
        <<op, <<"minus", a, b>>, <<"times", b, c>>>>, <<op, <<"uminus", a>>, <<"power", b, c>>>>,
        <<op, c, <<"uminus", <<"exp", a>>>>>>, <<op, <<"max", a, b>>, <<"T", 0>>>>,
        <<op, <<"minus", a, <<"plus", b, c>>>>, <<"less", b, Const(2)>>>>>>

Derivs(static) ==
  [solve |-> <<[kind |-> "FirstEndoDerivative", equation |-> 0, expr |-> <<"times", P(0), Y(1, 0)>>,
                target |-> [tag |-> IF static THEN "FSTPSU" ELSE "FSTPU", pos |-> 1]],
               [kind |-> "FirstEndoDerivative", equation |-> 1,
                expr |-> <<"plus", <<"u", 1>>, <<"exogenousDet", 0, -1>>>>,
                target |-> [tag |-> "FSTPG", pos |-> 0]]>>,
   eval |-> <<[kind |-> "FirstEndoDerivative", equation |-> 1, expr |-> <<"divide", Y(1, 0), P(0)>>,
               target |-> IF static THEN [tag |-> "FSTPG2", row |-> 1, col |-> 1]
                          ELSE [tag |-> "FSTPG3", row |-> 1, col |-> 1, lag |-> 0, col_pos |-> 3]]>>
            \o (IF static THEN <<>>
                ELSE <<[kind |-> "FirstExoDerivative", equation |-> 1, expr |-> <<"sqrt", X(0, 0)>>,
                        target |-> [tag |-> "FSTPG3", row |-> 0, col |-> 0, lag |-> 0, col_pos |-> 0]],
                       [kind |-> "FirstExodetDerivative", equation |-> 1, expr |-> <<"r", 0>>,
                        target |-> [tag |-> "FSTPG3", row |-> 0, col |-> 0, lag |-> 0, col_pos |-> 1]],
                       [kind |-> "FirstOtherEndoDerivative", equation |-> 0, expr |-> <<"steady", 1>>,
                        target |-> [tag |-> "FSTPG3", row |-> 1, col |-> 0, lag |-> 0, col_pos |-> 1]]>>)]

ThisBlock(static, sts) == [fb |-> [tag |-> "FBEGINBLOCK"], model |-> sts] @@ Derivs(static)

TreeBlock(static, op) ==
  ThisBlock(static, <<TempTerm(static, 0, <<"plus", P(0), Const(3)>>)>>
                      \o [k \in DOMAIN Trees(op) |-> Equation(static, k, Trees(op)[k])])

(* Functions of one and of three arguments, and powers of constants.        *)
UnaryBlock(static) ==
  LET us == <<"exp", "cos", "sin", "tan", "acos", "asin", "atan", "cosh", "sinh", "tanh", "acosh",
              "asinh", "atanh", "sqrt", "erf", "log", "uminus">>
  IN  ThisBlock(static,
        [k \in DOMAIN us |-> Equation(static, k, <<us[k], <<"minus", Y(0, 0), P(0)>>>>)]
        \o <<Equation(static, 20, <<"normcdf", Y(0, 0), P(0), <<"times", P(1), Const(2)>>>>),
             Equation(static, 21, <<"normpdf", Y(1, 1), Const(0), P(1)>>)>>)

PowerBlock(static) ==
  LET cs == <<<<0, 1, 1>>, <<0, 2, 1>>, <<0, 2, 2>>, <<0, 2, 3>>, <<2, 3, 2>>, <<2, 3, 3>>, <<1, 1, 1>>>>
  IN  ThisBlock(static,
        [k \in DOMAIN cs |->
           Equation(static, k, <<"powerDeriv", Const(cs[k][1]), Const(cs[k][2]), Const(cs[k][3])>>)]
        \o <<Equation(static, 9, <<"powerDeriv", Y(0, 0), P(0), Const(2)>>)>>)

(* External functions of two arguments, with the derivatives asked for in   *)
(* every way.                                                               *)
FCall(ftype, nb_in, nb_add) ==
  [tag |-> "FCALL", ftype |-> ftype, fname |-> "fun", nb_in |-> nb_in, nb_add |-> nb_add,
   indx |-> 1, row |-> 1, col |-> 2, arg_func |-> "fun"]

ExternalBlock(static) ==
  LET two == <<Y(0, 0), <<"plus", P(0), X(0, 0)>>>>
      ext(tgt, f, args) == [kind |-> "TemporaryTerm", equation |-> 5, target |-> tgt,
                            expr |-> <<"call", f, args>>]
      tef(n) == [tag |-> "FSTPTEF", number |-> n]
      tefd(r) == [tag |-> "FSTPTEFD", indx |-> 1, row |-> r]
      tefdd(r, c) == [tag |-> "FSTPTEFDD", indx |-> 1, row |-> r, col |-> c]
  IN  ThisBlock(static,
        <<ext(tef(1), FCall("withoutDerivative", 2, 0), two),
          Equation(static, 0, <<"times", <<"TEF", 1>>, P(0)>>),
          ext(tef(2), FCall("withFirstDerivative", 2, 0), two),
          Equation(static, 1, <<"times", <<"TEFD", 1, 2>>, <<"TEF", 2>>>>),
          ext(tef(1), FCall("withFirstAndSecondDerivative", 2, 0), two),
          Equation(static, 2, <<"times", <<"TEFDD", 1, 1, 2>>, <<"TEFD", 1, 1>>>>),
          ext(tefd(1), FCall("firstDerivative", 2, 0), <<P(0), Y(0, 0)>>),
          Equation(static, 3, <<"exp", <<"TEFD", 1, 2>>>>),
          ext(tefdd(1, 1), FCall("secondDerivative", 1, 0), <<P(1)>>),
          Equation(static, 4, <<"exp", <<"TEFDD", 1, 1, 1>>>>),
          ext(tefd(1), FCall("numericalFirstDerivative", 0, 2), two),
          Equation(static, 5, <<"exp", <<"TEFD", 1, 1>>>>),
          ext(tefdd(1, 2), FCall("numericalSecondDerivative", 0, 2), two),
          Equation(static, 6, <<"exp", <<"TEFDD", 1, 1, 2>>>>)>>)

BaseEnv(static, evaluate, no_derivative) ==
  [code |-> <<>>, evaluate |-> evaluate, no_derivative |-> no_derivative, steady_state |-> static,
   print_error |-> FALSE, it_ |-> 2, Per_u_ |-> 4, size |-> 2, y_size |-> 3, nb_row_x |-> 5,
   nb_row_xd |-> 7, span |-> 6, faults |-> <<>>]

Flags == {<<FALSE, FALSE>>, <<TRUE, FALSE>>, <<FALSE, TRUE>>}

(* A quotient that has no value, in the second of three statements.         *)
FaultBlock(static) ==
  ThisBlock(static,
    <<Equation(static, 0, <<"plus", Y(0, 0), P(0)>>),
      Equation(static, 1, <<"minus", <<"divide", P(0), Y(0, 0)>>, <<"log", P(1)>>>>),
      TempTerm(static, 1, <<"power", P(0), P(1)>>)>>)

FaultEnv(static, pe, t, kind) ==
  [BaseEnv(static, FALSE, FALSE) EXCEPT !.print_error = pe, !.faults = (t :> kind)]

FaultTerms(static) ==
  {<<"divide", <<"params", 0>>, <<"y", IF static THEN 0 ELSE 6>>>>, <<"log", <<"params", 1>>>>,
   <<"power", <<"params", 0>>, <<"params", 1>>>>}

MCBlockCalls ==
  {[op |-> "block", b |-> TreeBlock(st, o), e |-> BaseEnv(st, f[1], f[2])] :
     st \in BOOLEAN, o \in BinaryOps, f \in Flags}
  \cup {[op |-> "block", b |-> b, e |-> BaseEnv(FALSE, f[1], f[2])] :
          b \in {UnaryBlock(FALSE), PowerBlock(FALSE), ExternalBlock(FALSE)}, f \in Flags}
  \cup {[op |-> "block", b |-> b, e |-> BaseEnv(TRUE, f[1], f[2])] :
          b \in {UnaryBlock(TRUE), PowerBlock(TRUE), ExternalBlock(TRUE)}, f \in Flags}
  \cup UNION {{[op |-> "block", b |-> FaultBlock(st), e |-> FaultEnv(st, pe, t, kind)] :
                 pe \in BOOLEAN, t \in FaultTerms(st), kind \in {"inf", "nan"}} : st \in BOOLEAN}

(* Models of two variables: recursive blocks, and blocks that are solved.   *)
Begin(type, contain, endo, exo) ==
  [tag |-> "FBEGINBLOCK", type |-> type, size |-> Len(contain), contain |-> contain,
   u_count_int |-> 2, endogenous |-> endo, exogenous |-> exo]

In(eq, v) == [Equation |-> eq, Variable |-> v]

Assignment(static, v, ex) ==
  [kind |-> "ModelEquation", equation |-> v, expr |-> ex,
   target |-> IF static THEN [tag |-> "FSTPSV", type |-> "endogenous", pos |-> v]
              ELSE [tag |-> "FSTPV", type |-> "endogenous", pos |-> v, lag |-> 0]]

OfBlock(fb, sts) == [fb |-> fb, model |-> sts, solve |-> <<>>, eval |-> <<>>]

AssignBlock(static, type, eq, v, ex) ==
  OfBlock(Begin(type, <<In(eq, v)>>, {v}, {v}), <<Assignment(static, v, ex)>>)

SolveBlock(static, type, eqs, exs) ==
  OfBlock(Begin(type, eqs, {0, 1}, {0}),
          [k \in DOMAIN exs |-> Equation(static, k - 1, exs[k])])

Dims(static, y_size, kmin, periods) ==
  [code |-> <<>>, begin |-> <<>>, steady_state |-> static, print_error |-> FALSE, y_size |-> y_size,
   nb_row_x |-> 6, nb_row_xd |-> 6, col_x |-> 2, y_kmin |-> kmin, y_kmax |-> 1, periods |-> periods,
   faults |-> <<>>]

SolveTypes == {"solveForwardSimple", "solveBackwardSimple", "solveForwardComplete",
               "solveBackwardComplete", "solveTwoBoundariesSimple", "solveTwoBoundariesComplete"}

E1 == <<"minus", Y(0, 0), <<"times", P(0), Y(1, -1)>>>>

E2 == <<"minus", Y(1, 0), <<"plus", Y(0, 1), X(0, 0)>>>>

MCModelCalls ==
  {[op |-> "model", g |-> Dims(st, 3, 1, 2), block |-> -1,
    bs |-> <<SolveBlock(st, t, <<In(2, 0), In(0, 1)>>, <<E1, E2>>),
             SolveBlock(st, u, <<In(1, 2)>>, <<<<"minus", Y(2, 0), Y(1, 1)>>>>)>>] :
     st \in {FALSE}, t \in SolveTypes, u \in SolveTypes}
  \cup {[op |-> "model", g |-> Dims(TRUE, 3, 1, 2), block |-> -1,
         bs |-> <<SolveBlock(TRUE, t, <<In(2, 0), In(0, 1)>>, <<E1, E2>>),
                  AssignBlock(TRUE, u, 1, 2, <<"times", P(1), Y(0, 0)>>)>>] :
          t \in SolveTypes \ TwoBoundaries, u \in EvaluateTypes}
  \cup {[op |-> "model", g |-> Dims(st, 2, 1, 3), block |-> k,
         bs |-> <<AssignBlock(st, u, 0, 1, <<"plus", Y(1, -1), X(1, 0)>>),
                  SolveBlock(st, "solveForwardSimple", <<In(1, 0)>>, <<E1>>)>>] :
          st \in BOOLEAN, u \in EvaluateTypes, k \in {0, 1}}

MCPathCalls ==
  {[op |-> "path", g |-> Dims(FALSE, 2, 1, p), n |-> n,
    bs |-> <<AssignBlock(FALSE, "evaluateForward", 0, 0, <<"plus", Y(0, -1), X(0, 0)>>),
             AssignBlock(FALSE, u, 1, 1,
                         IF u = "evaluateForward" THEN <<"times", Y(1, -1), Y(0, 0)>>
                         ELSE <<"times", Y(1, 1), Y(0, -1)>>)>>,
    shocks |-> h] :
     p \in 1..2, n \in 1..3, u \in EvaluateTypes,
     h \in {<<>>, <<[exo_num |-> 1, value |-> <<Const(5), Const(6), Const(7)>>]>>}}

(* Plans over two or three blocks.                                          *)
MCPlanCalls ==
  {[op |-> "plan", plans |-> {[exo_num |-> v, var_num |-> w]},
    fbs |-> <<Begin(t, <<>>, {0}, a), Begin(u, <<>>, {1}, b), Begin("solveForwardSimple", <<>>, {2}, {2})>>] :
     v \in 0..2, w \in 0..2, t \in {"evaluateForward", "solveForwardSimple"},
     u \in {"evaluateBackward", "solveTwoBoundariesSimple"}, a \in SUBSET {0, 1}, b \in SUBSET {0, 1}}

(* All matrices with elements at five places of three columns.              *)
Places == {<<0, 0>>, <<2, 0>>, <<1, 1>>, <<0, 2>>, <<2, 2>>}

MCSparseCalls ==
  {[op |-> "sparse", junk |-> j, A |-> FromDense(3, 3, [p \in a |-> p[1] + 3 * p[2] + 2]),
    B |-> FromDense(3, 3, [p \in b |-> 7 * p[1] + p[2] + 1])] :
     a \in SUBSET Places, b \in SUBSET Places, j \in {0, 9}}

(* Blocks of two equations; the constants are such that the step goes to    *)
(* the values z (and w for the exogenous variables).                        *)
z(i) == ((5 * i) % 7) - 3

Coefficient(n, t) == ((3 * n + 4 * t + 1) % 9) + 1

NewtonBlock(file, periods, kmin, kmax, cond) ==
  LET Size == 2
      y_size == 3
      vara == <<2, 0>>
      count == Len(file) + Size
      y0 == [c \in 1..(y_size * (periods + kmin + kmax)) |-> ((c * c) % 5) - 2]
      x == [c \in 1..2 |-> c + 1]
      w == [c \in 1..2 |-> 4 * c - 3]
      unknown(v, t) == t \in 0..(periods - 1) /\ ~(t = 0 /\ v \in DOMAIN cond)
      at(v, t) == IF unknown(v, t) THEN z(v + Size * t) ELSE y0[vara[v + 1] + (kmin + t) * y_size + 1]
      lhs(eq, t) ==
        Total([n \in DOMAIN file |->
                 IF file[n][1] # eq THEN 0
                 ELSE Coefficient(n, t) * at(file[n][2] - file[n][3] * Size, t + file[n][3])])
          + (IF t = 0 THEN SumOfAll(DOMAIN cond, LAMBDA v : cond[v].jac[eq + 1]
                                                          * (w[cond[v].exo] - x[cond[v].exo]))
             ELSE 0)
      u == [k \in 1..(count * periods) |->
              LET n == (k - 1) % count
                  t == (k - 1) \div count
              IN  IF n < Size THEN 0 - lhs(n, t) ELSE Coefficient(n - Size + 1, t)]
  IN  [op |-> "stack", file |-> file, it_ |-> 0,
       res |-> [i \in 1..(Size * periods) |->
                  IF i - 1 \in DOMAIN cond THEN 0 - w[cond[i - 1].exo] ELSE 0 - z(i - 1)],
       k |-> [Size |-> Size, periods |-> periods, y_kmin |-> kmin, y_kmax |-> kmax, y_size |-> y_size,
              vara |-> vara, IM |-> ReadColumns(Size, periods, kmax, file, TRUE),
              u_count_init |-> count, u |-> u, y |-> y0, x |-> x, cond |-> cond]]

(* Derivatives as in the file: equation, variable + 2 lag, lag.             *)
Optional == {<<0, 1, 0>>, <<1, 0, 0>>, <<0, -2, -1>>, <<1, 3, 1>>, <<0, 3, 1>>, <<1, -2, -1>>}

Conds == {<<>>, 0 :> [exo |-> 2, jac |-> <<2, 0>>], 1 :> [exo |-> 1, jac |-> <<3, 5>>]}

TwoBoundaryCalls ==
  {NewtonBlock(<<<<0, 0, 0>>, <<1, 1, 0>>>> \o Listed(o), p, 1, 1, c) :
     o \in SUBSET Optional, p \in 2..4, c \in Conds}
  \cup {NewtonBlock(<<<<0, 0, 0>>, <<1, 1, 0>>, <<0, -4, -2>>, <<1, 3, 1>>>>, p, 2, 1, <<>>) : p \in 3..4}

SimpleCalls ==
  {LET file == <<<<0, 0, 0>>, <<1, 1, 0>>>> \o Listed(o)
       lhs(eq) == Total([n \in DOMAIN file |->
                           IF file[n][1] # eq THEN 0 ELSE Coefficient(n, 1) * zs[file[n][2] + 1]])
   IN  [op |-> "simple", file |-> file, it_ |-> it, res |-> [i \in 1..2 |-> 0 - zs[i]],
        k |-> [Size |-> 2, periods |-> 1, y_kmin |-> 0, y_kmax |-> 0, y_size |-> 3, vara |-> <<2, 0>>,
               IM |-> ReadColumns(2, 1, 0, file, FALSE), u_count_init |-> Len(file) + 2,
               u |-> [j \in 1..(Len(file) + 2) |-> IF j <= 2 THEN 0 - lhs(j - 1) ELSE Coefficient(j - 2, 1)],
               y |-> [c \in 1..9 |-> c], x |-> <<>>, cond |-> <<>>]] :
     o \in SUBSET {<<0, 1, 0>>, <<1, 0, 0>>}, it \in 0..2, zs \in {<<0, 0>>, <<4, -1>>, <<0, 6>>}}

MCStackCalls == TwoBoundaryCalls \cup SimpleCalls

(* Functions with a value on each of seven intervals, or none there.        *)
LengthCuts == <<0, 40, 80, 120, 250, 700>>

SolveCuts == <<100000, 250000, 450000, 700000, 1100000, 1400000>>

ConstantLine == [cuts |-> SolveCuts, at |-> [c \in 1..7 |-> 2]]

MCLineCalls ==
  {[op |-> "length", ax |-> -10, bx |-> 110, f |-> [cuts |-> LengthCuts, at |-> v]] :
     v \in [1..7 -> {0, 1, 2, L!Fault}]}
  \cup {[op |-> "solve", tol |-> 20000, fs |-> <<ConstantLine, [cuts |-> SolveCuts, at |-> v]>>] :
          v \in [1..7 -> {1, 2, 3, L!Fault}]}

(* Rules at the points 1, 0, -1, ... that extrapolate to 2: level l is      *)
(* exact for polynomials of degree l - 1.                                   *)
Rules(n) ==
  [num_points |-> [l \in 1..n |-> l],
   points |-> Flat([l \in 1..n |-> [k \in 1..l |-> 2 - k]]),
   weights |-> Flat([l \in 1..n |-> [k \in 1..l |-> (IF k % 2 = 1 THEN 1 ELSE -1) * I!noverk(l, k)]])]

MCQuadratureCalls ==
  {[op |-> "integrate", tn |-> tn, max_evals |-> m,
    q |-> [kind |-> kind, d |-> d, l |-> l, uq |-> Rules(6), scheme |-> "identity"]] :
     kind \in {"smolyak", "product"}, d \in 1..3, l \in 1..3, tn \in 1..4, m \in {1, 4, 9, 30}}
  \cup {[op |-> "integrate", tn |-> tn, max_evals |-> 0,
         q |-> [kind |-> "qmc", d |-> d, l |-> l, uq |-> [num_points |-> [k \in 1..l |-> k]], scheme |-> sc]] :
          d \in 1..3, l \in 1..9, tn \in 1..4, sc \in {"identity", "warnock", "reverse"}}
-----------------------------------------------------------------------------
(* The iterations of the solvers run beside the calls.                      *)
Found(c, q) == [nan |-> FALSE, cvg |-> c, sq |-> q]

NotFound == [nan |-> TRUE, cvg |-> FALSE, sq |-> 0]

MCResiduals == {NotFound, Found(TRUE, 5), Found(TRUE, 13), Found(FALSE, 1), Found(FALSE, 20),
                Found(FALSE, 400)}

Method(kind, algo, steady, linear, y_kmin, periods) ==
  [kind |-> kind, algo |-> algo, steady |-> steady, linear |-> linear, y_kmin |-> y_kmin, periods |-> periods]

(* Not UMFPACK and relaxation for a dynamic block with one boundary: they   *)
(* read outside of their arrays there.                                      *)
MCMethods ==
  {Method("off", 0, FALSE, FALSE, 0, 0), Method("simple", 0, FALSE, FALSE, 1, 2),
   Method("two", 4, FALSE, FALSE, 1, 1)}
  \cup {Method("two", a, FALSE, l, 1, 2) : a \in 0..5, l \in BOOLEAN}
  \cup {Method("one", a, TRUE, l, 0, 1) : a \in {0, 2, 3, 5}, l \in BOOLEAN}
  \cup {Method("one", a, FALSE, l, 1, 2) : a \in {2, 3, 5}, l \in BOOLEAN}

-----------------------------------------------------------------------------
(* The threads of the perfect foresight problem.                            *)

(* Two variables, the second with a lag, the first with a lead.             *)
Forward == [maximum_endo_lag |-> 1, ndynvars |-> 4, lli |-> <<<<0, 1>>, <<2, 3>>, <<4, 0>>>>,
            pred |-> <<<<0, 1>>, <<1, 1>>>>, current |-> <<<<0, 0>>, <<1, 0>>, <<1, 1>>>>,
            fwrd |-> <<<<0, 0>>>>]

(* No lags.                                                                 *)
Purely == [maximum_endo_lag |-> 0, ndynvars |-> 3, lli |-> <<<<1, 2>>, <<0, 3>>>>,
           pred |-> <<>>, current |-> <<<<0, 0>>, <<1, 1>>>>, fwrd |-> <<<<0, 1>>, <<1, 1>>>>]

Problem(p, b) == b @@
  [ny |-> 2, periods |-> p, lag |-> 1, zeros |-> {}, jacobian |-> TRUE, linear |-> FALSE,
   dll |-> TRUE, external |-> FALSE]

MCProblems ==
  {Problem(0, Purely)}
  \cup {[Problem(p, b) EXCEPT !.zeros = z0, !.linear = l] :
          p \in 1..3, b \in {Forward, Purely}, z0 \in {{}, {<<0, 1>>}, {<<1, 3>>, <<0, 4>>}},
          l \in BOOLEAN}
  \cup {[Problem(3, Forward) EXCEPT !.jacobian = j, !.dll = d, !.external = ~d] :
          j \in BOOLEAN, d \in BOOLEAN}

-----------------------------------------------------------------------------
(* The elimination of one Newton step: all patterns of a block of one       *)
(* boundary, and periods stacked and replayed with two.                     *)
CONSTANTS OneSize, TwoSize, PeriodsSet, Seeds

ASSUME GaussAssumption ==
  /\ OneSize \in Nat \ {0} /\ TwoSize \in Nat \ {0, 1}
  /\ PeriodsSet \subseteq Nat \ {0}

VARIABLES prob, matrix, values, slots, pivot, lineDone, step, period, column, sym, recorded,
          tbreak, solution

elimination == <<prob, matrix, values, slots, pivot, lineDone, step, period, column, sym, recorded,
                 tbreak, solution>>

G == INSTANCE GaussianElimination
       WITH s <- matrix, u <- values, b <- slots, pc <- step, t <- period, i <- column,
            y <- solution

NoElimination ==
  /\ step = "off" /\ prob = None /\ matrix = None /\ values = None /\ slots = None
  /\ pivot = None /\ lineDone = None /\ period = None /\ column = None /\ sym = None
  /\ recorded = None /\ tbreak = None /\ solution = None

MCInit ==
  \/ /\ NewtonInit /\ ForesightInit
     /\ \/ method.kind = "off" /\ phase = "off" /\ Init
        \/ /\ call = None /\ result = None
           /\ (method.kind = "off") # (phase = "off")
     /\ NoElimination
  \/ /\ NewtonInit /\ ForesightInit /\ method.kind = "off" /\ phase = "off"
     /\ call = None /\ result = None
     /\ G!Init

MCNext == \/ Next /\ UNCHANGED <<newton, foresight, elimination>>
          \/ NewtonNext /\ UNCHANGED <<vars, foresight, elimination>>
          \/ ForesightNext /\ UNCHANGED <<vars, newton, elimination>>
          \/ step # "off" /\ G!Next /\ UNCHANGED <<vars, newton, foresight>>
          \/ (pc \in {"solved", "thrown"} \/ phase \in {"returned", "error"})
                /\ UNCHANGED <<vars, newton, foresight, elimination>>

MCSpec == MCInit /\ [][MCNext]_<<vars, newton, foresight, elimination>>
            /\ WF_newton(NewtonNext /\ UNCHANGED <<vars, foresight, elimination>>)

(* Linear systems: assembled, relaxed and multiplied exactly; the lists,    *)
(* slots and buffers of the elimination stay consistent, and it ends with a *)
(* Newton step or with a singular block.                                    *)
SystemsAreSolvedExactly ==
  /\ LinearSystemsAreExact
  /\ step # "off" => G!MemoryIsConsistent /\ G!EliminationIsExact
=============================================================================

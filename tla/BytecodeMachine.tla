-------------------------- MODULE BytecodeMachine --------------------------
(***************************************************************************)
(* The stack machine of mex/sources/bytecode/Evaluate.cc, which evaluates   *)
(* the byte code of one block of a model at one period.                     *)
(*                                                                         *)
(* m, the machine: the stack (last element on top), the memory, the         *)
(* instruction pointer, the expression being computed (EQN), the kind of   *)
(* the last external call, whether res1 is NaN, whether a message was       *)
(* printed or an exception left the machine.                                *)
(***************************************************************************)
EXTENDS ExpressionPrinter

Rd(m, a, i) == ReadMem(m.mem, a, i)

Wr(m, a, i, v) == [m EXCEPT !.mem = WriteMem(@, a, i, v)]

Top(m) == m.stack[Len(m.stack)]

Pop(m, k) == [m EXCEPT !.stack = Drop(@, k)]

Push(m, v) == [m EXCEPT !.stack = Append(@, v)]

Store(m, a, i) == Pop(Wr(m, a, i, Top(m)), 1)

Throw(m) == [m EXCEPT !.thrown = TRUE, !.on = FALSE]

(* A floating point exception that compute_block_time catches (raised): the *)
(* location is printed, which computes the statement once more and stores   *)
(* its value, and the block is left after this instruction.                 *)
Raise(m) == [m EXCEPT !.raised = TRUE]

Caught(e, m) ==
  LET reported(loc) == [m EXCEPT !.raised = FALSE, !.on = FALSE,
                                 !.message = loc.where, !.text = loc.text, !.mem = loc.mem]
  IN  IF ~m.raised THEN m ELSE reported(error_location(e, m.mem, m.EQN, m.expr))

NumExpr(m, ins) == [m EXCEPT !.expr = m.pc, !.EQN = ins]

LoadVariable(e, m, ins) ==
  LET endo == IF e.evaluate THEN "ya" ELSE "y"
      static(a) == CASE ins.type = "parameter" -> Push(m, Rd(m, "params", ins.pos))
                     [] ins.type = "endogenous" -> Push(m, Rd(m, a, ins.pos))
                     [] ins.type \in {"exogenous", "exogenousDet"} -> Push(m, Rd(m, "x", ins.pos))
                     [] OTHER -> m
  IN  CASE ins.tag = "FLDSV" -> static(endo)
        [] ins.tag = "FLDVS" -> static("steady_y")
        [] ins.type = "parameter" -> Push(m, Rd(m, "params", ins.pos))
        [] ins.type = "endogenous" -> Push(m, Rd(m, endo, FlatIndex(e, ins.lag, ins.pos)))
        [] ins.type = "exogenous" -> Push(m, Rd(m, "x", e.it_ + ins.lag + ins.pos * e.nb_row_x))
        [] ins.type = "exogenousDet" -> Push(m, Rd(m, "x", e.it_ + ins.lag + ins.pos * e.nb_row_xd))
        [] OTHER -> m

LoadOther(e, m, ins) ==
  CASE ins.tag = "FLDT" -> Push(m, Rd(m, "T", Temporary(e, ins)))
    [] ins.tag = "FLDST" -> Push(m, Rd(m, "T", ins.pos))
    [] ins.tag = "FLDU" -> Push(m, Rd(m, "u", ins.pos + e.Per_u_))
    [] ins.tag = "FLDSU" -> Push(m, Rd(m, "u", ins.pos))
    [] ins.tag = "FLDR" -> Push(m, Rd(m, "r", ins.pos))
    [] ins.tag = "FLDZ" -> Push(m, Const(0))
    [] ins.tag = "FLDC" -> Push(m, Const(ins.value))

(* FSTPV and FSTPSV; an endogenous variable is stored in y even when the    *)
(* block is evaluated at ya.                                                *)
StoreVariable(e, m, ins) ==
  CASE ins.type = "parameter" -> Store(m, "params", ins.pos)
    [] ins.tag = "FSTPSV" -> Store(m, IF ins.type = "endogenous" THEN "y" ELSE "x", ins.pos)
    [] ins.type = "endogenous" -> Store(m, "y", FlatIndex(e, ins.lag, ins.pos))
    [] ins.type = "exogenous" -> Store(m, "x", e.it_ + ins.lag + ins.pos * e.nb_row_x)
    [] ins.type = "exogenousDet" -> Store(m, "x", e.it_ + ins.lag + ins.pos * e.nb_row_xd)

StoreOther(e, m, ins) ==
  CASE ins.tag = "FSTPT" -> Store(m, "T", Temporary(e, ins))
    [] ins.tag = "FSTPST" -> Store(m, "T", ins.pos)
    [] ins.tag = "FSTPU" -> Store(m, "u", ins.pos + e.Per_u_)
    [] ins.tag = "FSTPSU" -> Store(m, "u", ins.pos)
    [] ins.tag = "FSTPR" -> Store(m, "r", ins.pos)
    [] ins.tag = "FSTPG" -> Store(m, "g1", ins.pos)

(* The Jacobians: FSTPG2 leaves the value on the stack; the row of FSTPG3   *)
(* is the instruction's for endogenous variables of the block and that of   *)
(* the announced equation for all others.                                   *)
StoreJacobian(e, m, ins) ==
  LET at(row, col) == row + e.size * col
      kind == m.EQN.type
  IN  IF ins.tag = "FSTPG2"
      THEN IF kind # "FirstEndoDerivative" THEN Throw(m)
           ELSE Wr(m, "jacob", at(ins.row, ins.col), Top(m))
      ELSE CASE kind = "FirstEndoDerivative" -> Store(m, "jacob", at(ins.row, ins.col_pos))
             [] kind = "FirstOtherEndoDerivative" ->
                  Store(m, "jacob_other_endo", at(m.EQN.equation, ins.col_pos))
             [] kind = "FirstExoDerivative" ->
                  Store(m, "jacob_exo", at(m.EQN.equation, ins.col_pos))
             [] kind = "FirstExodetDerivative" ->
                  Store(m, "jacob_exo_det", at(m.EQN.equation, ins.col_pos))
             [] OTHER -> Throw(m)

(* pow1, divide, log1 and log10_1: an operation without a finite value      *)
(* makes res1 a NaN and is replaced by a number, or is reported when        *)
(* print_error is set; tmp has no value then.                               *)
Substitute == [power |-> <<"1e-25">>, divide |-> <<"1e70">>, log |-> <<"-1e70">>]

Checked(e, m, t) ==
  IF t \notin DOMAIN e.faults THEN Push(m, t)
  ELSE LET n == [m EXCEPT !.bad = TRUE]
       IN  IF e.print_error THEN Push(Raise(n), Undefined) ELSE Push(n, Substitute[t[1]])

(* powerDeriv finds the order of the derivative below its two arguments;    *)
(* the derivative of a natural power at zero is not left to pow.            *)
PowerDeriv(e, m0, v1, v2) ==
  LET k == Top(m0)[2]
      m == Pop(m0, 1)
      t == <<"power", v1, Dec(v2, k)>>
  IN  IF v1 = Const(0) /\ v2[1] = "c" /\ v2[2] > 0 /\ k > v2[2] THEN Push(m, Const(0))
      ELSE IF t \notin DOMAIN e.faults THEN Push(m, Falling(t, v2, k))
      ELSE LET n == [m EXCEPT !.bad = TRUE]
           IN  IF e.print_error THEN Raise(n) ELSE Push(n, Falling(Substitute.power, v2, k))

Binary(e, m0, op) ==
  LET v2 == Top(m0)
      v1 == Top(Pop(m0, 1))
      m == Pop(m0, 2)
  IN  CASE op \in PlainBinary -> Push(m, <<op, v1, v2>>)
        [] op \in {"divide", "power"} -> Checked(e, m, <<op, v1, v2>>)
        [] op = "powerDeriv" -> PowerDeriv(e, m, v1, v2)
        [] op = "equal" -> m
        [] OTHER -> Throw(m)

(* log10_1 takes the natural logarithm.                                     *)
Unary(e, m0, op) ==
  LET v1 == Top(m0)
      m == Pop(m0, 1)
  IN  CASE op \in PlainUnary -> Push(m, <<op, v1>>)
        [] op \in {"log", "log10"} -> Checked(e, m, <<"log", v1>>)
        [] OTHER -> Throw(m)

Trinary(m, op) ==
  LET n == Len(m.stack)
  IN  IF op \notin {"normcdf", "normpdf"} THEN Throw(Pop(m, 3))
      ELSE Push(Pop(m, 3), <<op, m.stack[n - 2], m.stack[n - 1], m.stack[n]>>)

WithDerivatives == {"withFirstDerivative", "withFirstAndSecondDerivative"}

(* An external function, with its first and second derivatives if it gives  *)
(* them.                                                                    *)
CallFunction(m0, ins) ==
  LET args == Last(m0.stack, ins.nb_in)
      n == ins.nb_in
      m == Push(Pop(m0, n), <<"f", ins.fname, args>>)
      firsts == IF ins.ftype \notin WithDerivatives THEN <<>>
                ELSE [i \in 1..n |-> <<i - 1>>]
      seconds == IF ins.ftype # "withFirstAndSecondDerivative" THEN <<>>
                 ELSE [k \in 1..(n * n) |-> <<(k - 1) % n, (k - 1) \div n>>]
      m1 == Fold(LAMBDA a, i : Wr(a, "TEFD", <<ins.indx, i[1]>>, <<"fd", ins.fname, args, i[1]>>),
                 m, firsts)
  IN  Fold(LAMBDA a, i : Wr(a, "TEFDD", <<ins.indx, i[1], i[2]>>,
                            <<"fdd", ins.fname, args, i[1], i[2]>>),
           m1, seconds)

(* A derivative asked from MATLAB: a numerical one of arg_func_name, whose  *)
(* arguments travel in a cell put at nb_in + nb_add of an array of which    *)
(* the first three are passed, or a function that gives all of them; the    *)
(* arguments of a second derivative are passed in the order they are        *)
(* popped.                                                                  *)
CallDerivative(m0, ins) ==
  LET n == ins.nb_in
      add == ins.nb_add
      where == IF ins.ftype = "numericalFirstDerivative" THEN <<ins.row>> ELSE <<ins.row, ins.col>>
      cell == Last(m0.stack, add)
      seen == IF n + add = 2 THEN cell ELSE <<Undefined>>
      args == Last(m0.stack, n)
      rev == [i \in 1..n |-> args[n + 1 - i]]
  IN  CASE ins.ftype \in {"numericalFirstDerivative", "numericalSecondDerivative"} ->
             Push(Pop(m0, add), <<"num", ins.arg_func, where, seen>>)
        [] ins.ftype = "firstDerivative" ->
             Fold(LAMBDA a, i : Wr(a, "TEFD", <<ins.indx, i>>, <<"fd", ins.fname, args, i>>),
                  Pop(m0, n), UpTo(n))
        [] ins.ftype = "secondDerivative" ->
             Fold(LAMBDA a, k : Wr(a, "TEFDD", <<ins.indx, k % n, k \div n>>,
                                   <<"fdd", ins.fname, rev, k % n, k \div n>>),
                  Pop(m0, n), UpTo(n * n))

Call(m, ins) ==
  LET c == [m EXCEPT !.ftype = ins.ftype]
  IN  IF ins.ftype \in WithDerivatives \cup {"withoutDerivative"} THEN CallFunction(c, ins)
      ELSE CallDerivative(c, ins)

(* The results of external calls; a derivative is on the stack only after a *)
(* numerical call.                                                          *)
ExternalTerm(m, ins) ==
  CASE ins.tag = "FSTPTEF" -> Store(m, "TEF", ins.number - 1)
    [] ins.tag = "FLDTEF" -> Push(m, Rd(m, "TEF", ins.number - 1))
    [] ins.tag = "FSTPTEFD" ->
         IF m.ftype = "numericalFirstDerivative" THEN Store(m, "TEFD", <<ins.indx, ins.row - 1>>)
         ELSE m
    [] ins.tag = "FLDTEFD" -> Push(m, Rd(m, "TEFD", <<ins.indx, ins.row - 1>>))
    [] ins.tag = "FSTPTEFDD" ->
         IF m.ftype = "numericalSecondDerivative"
         THEN Store(m, "TEFDD", <<ins.indx, ins.row - 1, ins.col - 1>>) ELSE m
    [] ins.tag = "FLDTEFDD" -> Push(m, Rd(m, "TEFDD", <<ins.indx, ins.row - 1, ins.col - 1>>))

M_Flow(e, m, ins) ==
  CASE ins.tag = "FCUML" -> Push(Pop(m, 2), <<"plus", Top(m), Top(Pop(m, 1))>>)
    [] ins.tag = "FENDBLOCK" -> [m EXCEPT !.on = FALSE]
    [] ins.tag = "FBEGINBLOCK" -> m
    [] ins.tag = "FENDEQU" -> m
    [] ins.tag = "FJMPIFEVAL" -> IF e.evaluate THEN [m EXCEPT !.pc = @ + ins.pos] ELSE m
    [] ins.tag = "FJMP" -> [m EXCEPT !.pc = @ + ins.pos]
    [] ins.tag = "FOK" -> IF m.stack # <<>> THEN Throw(m) ELSE m
    [] OTHER -> Throw(m)

Flow(e, m, ins) ==
  CASE ins.tag = "FCUML" -> Push(Pop(m, 2), <<"plus", Top(m), Top(Pop(m, 1))>>)
    [] ins.tag = "FENDBLOCK" -> [m EXCEPT !.on = FALSE]
    [] ins.tag = "FBEGINBLOCK" -> m
    [] ins.tag = "FENDEQU" -> IF e.no_derivative THEN [m EXCEPT !.on = FALSE] ELSE m
    [] ins.tag = "FJMPIFEVAL" -> IF e.evaluate THEN [m EXCEPT !.pc = @ + ins.pos] ELSE m
    [] ins.tag = "FJMP" -> [m EXCEPT !.pc = @ + ins.pos]
    [] ins.tag = "FOK" -> IF m.stack # <<>> THEN Throw(m) ELSE m
    [] OTHER -> Throw(m)

Execute(e, m, ins) ==
  CASE ins.tag = "FNUMEXPR" -> NumExpr(m, ins)
    [] ins.tag \in {"FLDV", "FLDSV", "FLDVS"} -> LoadVariable(e, m, ins)
    [] ins.tag \in {"FLDT", "FLDST", "FLDU", "FLDSU", "FLDR", "FLDZ", "FLDC"} -> LoadOther(e, m, ins)
    [] ins.tag \in {"FSTPV", "FSTPSV"} -> StoreVariable(e, m, ins)
    [] ins.tag \in {"FSTPT", "FSTPST", "FSTPU", "FSTPSU", "FSTPR", "FSTPG"} -> StoreOther(e, m, ins)
    [] ins.tag \in {"FSTPG2", "FSTPG3"} -> StoreJacobian(e, m, ins)
    [] ins.tag = "FBINARY" -> Binary(e, m, ins.op)
    [] ins.tag = "FUNARY" -> Unary(e, m, ins.op)
    [] ins.tag = "FTRINARY" -> Trinary(m, ins.op)
    [] ins.tag = "FPUSH" -> m
    [] ins.tag = "FCALL" -> Call(m, ins)
    [] ins.tag \in {"FSTPTEF", "FLDTEF", "FSTPTEFD", "FLDTEFD", "FSTPTEFDD", "FLDTEFDD"} ->
         ExternalTerm(m, ins)
    [] OTHER -> Flow(e, m, ins)

(* The loop over the instructions from m.pc on.                             *)
RECURSIVE Run(_, _)
Run(e, m) ==
  IF ~m.on THEN m
  ELSE CHOOSE v \in {Run(e, [n EXCEPT !.pc = @ + 1]) :
                       n \in {Caught(e, Execute(e, m, e.code[m.pc]))}} : TRUE

NoExpression == [tag |-> "FNUMEXPR", type |-> "none", equation |-> 0]

Machine(mem) == [stack |-> <<>>, mem |-> mem, pc |-> 1, expr |-> 0, EQN |-> NoExpression,
                 ftype |-> "withoutDerivative", bad |-> FALSE, raised |-> FALSE, on |-> TRUE,
                 message |-> <<>>, text |-> <<>>, thrown |-> FALSE]

(* compute_block_time from the instruction pc on: a new stack, what earlier *)
(* calls announced and found kept.                                          *)
compute_block_time(e, m, pc) ==
  Run(e, [m EXCEPT !.stack = <<>>, !.on = TRUE, !.pc = pc, !.ftype = "withoutDerivative"])

(* A block that only assigns: period after period, forward or backward; it_ *)
(* is left at the last one.                                                 *)
evaluate_over_periods(e, m, forward, y_kmin, periods) ==
  LET last == y_kmin + periods - 1
      its == IF e.steady_state THEN <<e.it_>>
             ELSE [k \in 1..periods |-> IF forward THEN y_kmin + k - 1 ELSE last - (k - 1)]
      at(a, it) == IF a.thrown THEN a ELSE compute_block_time([e EXCEPT !.it_ = it], a, m.pc)
  IN  [m |-> Fold(at, m, its),
       it_ |-> IF e.steady_state THEN e.it_ ELSE IF forward THEN last ELSE y_kmin]
============================================================================

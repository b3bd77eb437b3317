------------------------- MODULE ExpressionPrinter -------------------------
(***************************************************************************)
(* The memory of the byte code machine, and the printer of                  *)
(* mex/sources/bytecode/ErrorHandling.hh: it runs over one statement of the *)
(* byte code, writes it as a formula and, when asked to compute, carries    *)
(* the values out again to mark the operation that failed.                  *)
(*                                                                         *)
(* A floating point value is the term that was computed: <<"plus", a, b>>   *)
(* for a + b, <<array, index>> for what an array held when the run started, *)
(* <<"c", n>> for the constant n.  e.faults gives the operations that have  *)
(* no finite value and what they give ("inf" or "nan").  A text is a        *)
(* sequence of tokens, each a tuple; names and numbers are tokens.  The     *)
(* instructions are written by the preprocessor, which is not part of this  *)
(* repository: [tag, ...] with the arguments that the code asks them for.   *)
(*                                                                         *)
(* e, what does not change while a block is evaluated: code, evaluate,      *)
(* no_derivative, steady_state, print_error, it_, Per_u_, size, y_size,     *)
(* nb_row_x, nb_row_xd, span (periods+y_kmin+y_kmax), faults.               *)
(***************************************************************************)
EXTENDS Loops, TLC

Const(n) == <<"c", n>>

Undefined == <<"undefined">>

(* Arrays are read and written by their flat index, as in the code.         *)
ReadMem(mem, a, i) == IF <<a, i>> \in DOMAIN mem THEN mem[<<a, i>>] ELSE <<a, i>>

WriteMem(mem, a, i, v) == (<<a, i>> :> v) @@ mem

FlatIndex(e, lag, pos) == (e.it_ + lag) * e.y_size + pos

Temporary(e, ins) == ins.pos * e.span + e.it_

Dec(v, k) == IF v[1] = "c" THEN Const(v[2] - k) ELSE <<"minus", v, Const(k)>>

(* The value of powerDeriv when pow gives p: p times v2, v2-1, ...          *)
Falling(p, v2, k) == Fold(LAMBDA d, i : <<"times", d, Dec(v2, i)>>, p, UpTo(k))

PlainBinary == {"plus", "minus", "times", "less", "greater", "lessEqual", "greaterEqual",
                "equalEqual", "different", "max", "min"}

PlainUnary == {"uminus", "exp", "cos", "sin", "tan", "acos", "asin", "atan", "cosh", "sinh",
               "tanh", "acosh", "asinh", "atanh", "sqrt", "erf"}

(* The last n elements of a stack, in the order they were pushed.           *)
Last(s, n) == SubSeq(s, Len(s) - n + 1, Len(s))

Drop(s, n) == SubSeq(s, 1, Len(s) - n)
-----------------------------------------------------------------------------
(* The state of the printer: the texts and the values on the two stacks,    *)
(* the memory, the next instruction, the text of the statement (tmp_out).   *)
Tok(s) == <<<<s>>>>

Spaced == {" + ", " - ", " * ", " / ", " < ", " > ", " <= ", " >= ", " == ", " != ", " ^ ",
           ", ", " -", "$ PowerDeriv ", " = "}

HasSpace(text) == \E i \in DOMAIN text : Len(text[i]) = 1 /\ text[i][1] \in Spaced

Bracket(v) == IF HasSpace(v) THEN Tok("(") \o v \o Tok(")") ELSE v

Joined(texts) ==
  Fold(LAMBDA a, k : a \o (IF k = 0 THEN <<>> ELSE Tok(", ")) \o texts[k + 1], <<>>,
       UpTo(Len(texts)))

Apply(f, texts) == Tok(f) \o Tok("(") \o Joined(texts) \o Tok(")")

PushText(p, t) == [p EXCEPT !.texts = Append(@, t)]

PushBoth(p, t, v) ==
  [PushText(p, t) EXCEPT !.vals = IF p.compute THEN Append(@, v) ELSE @]

PopBoth(p, n) ==
  [p EXCEPT !.texts = Drop(@, n), !.vals = IF p.compute THEN Drop(@, n) ELSE @]

(* The end of a statement: its value is stored when computing.              *)
Assign(p, target, a, i) ==
  LET v == IF p.compute THEN Last(p.vals, 1)[1] ELSE Undefined
      q == PopBoth(p, 1)
  IN  [q EXCEPT !.out = target \o Tok(" = ") \o Last(p.texts, 1)[1], !.on = FALSE,
                !.mem = IF p.compute THEN WriteMem(@, a, i, v) ELSE @]

get_variable(type, pos, lag) == <<<<type, pos, lag>>>>

PrintVariable(e, p, ins) ==
  LET endo == IF e.evaluate THEN "ya" ELSE "y"
      name(lag) == get_variable(ins.type, ins.pos, lag)
      dynamic == ins.tag = "FLDV"
      steady == IF ins.tag = "FLDSV" THEN endo ELSE "steady_y"
  IN  CASE ins.type = "parameter" -> PushBoth(p, name(0), ReadMem(p.mem, "params", ins.pos))
        [] ins.type = "endogenous" ->
             IF dynamic
             THEN PushBoth(p, name(ins.lag), ReadMem(p.mem, endo, FlatIndex(e, ins.lag, ins.pos)))
             ELSE PushBoth(p, name(0), ReadMem(p.mem, steady, ins.pos))
        [] ins.type \in {"exogenous", "exogenousDet"} ->
             LET rows == IF ins.type = "exogenous" THEN e.nb_row_x ELSE e.nb_row_xd
             IN  IF dynamic
                 THEN PushBoth(p, name(ins.lag),
                               ReadMem(p.mem, "x", e.it_ + ins.lag + ins.pos * rows))
                 ELSE PushBoth(p, name(0), ReadMem(p.mem, "x", ins.pos))
        [] OTHER -> p

PrintOther(e, p, ins) ==
  LET show(a, i) == PushBoth(p, <<<<a, ins.pos>>>>, ReadMem(p.mem, a, i))
  IN  CASE ins.tag = "FLDT" -> show("T", Temporary(e, ins))
        [] ins.tag = "FLDST" -> show("T", ins.pos)
        [] ins.tag = "FLDU" -> show("u", ins.pos + e.Per_u_)
        [] ins.tag = "FLDSU" -> show("u", ins.pos)
        [] ins.tag = "FLDR" -> show("r", ins.pos)
        [] ins.tag = "FLDZ" -> PushBoth(p, <<Const(0)>>, Const(0))
        [] ins.tag = "FLDC" -> PushBoth(p, <<Const(ins.value)>>, Const(ins.value))

PrintStoreVariable(e, p, ins) ==
  LET name(lag) == get_variable(ins.type, ins.pos, lag)
      rows == IF ins.type = "exogenous" THEN e.nb_row_x ELSE e.nb_row_xd
  IN  CASE ins.type = "parameter" -> Assign(p, name(0), "params", ins.pos)
        [] ins.tag = "FSTPSV" ->
             Assign(p, name(0), IF ins.type = "endogenous" THEN "y" ELSE "x", ins.pos)
        [] ins.type = "endogenous" ->
             Assign(p, name(ins.lag), "y", FlatIndex(e, ins.lag, ins.pos))
        [] OTHER -> Assign(p, name(ins.lag), "x", e.it_ + ins.lag + ins.pos * rows)

PrintStoreOther(e, p, ins) ==
  LET to(a, i) == Assign(p, <<<<a, ins.pos>>>>, a, i)
  IN  CASE ins.tag = "FSTPT" -> to("T", Temporary(e, ins))
        [] ins.tag = "FSTPST" -> to("T", ins.pos)
        [] ins.tag = "FSTPU" -> to("u", ins.pos + e.Per_u_)
        [] ins.tag = "FSTPSU" -> to("u", ins.pos)
        [] ins.tag = "FSTPR" -> to("r", ins.pos)
        [] ins.tag = "FSTPG" -> to("g1", ins.pos)

(* Unlike the machine, the printer takes the row of every Jacobian from the *)
(* instruction, and an expression of another kind leaves its text on the    *)
(* stack.                                                                   *)
PrintStoreJacobian(e, p, ins) ==
  LET array == [FirstEndoDerivative |-> "jacob", FirstOtherEndoDerivative |-> "jacob_other_endo",
                FirstExoDerivative |-> "jacob_exo", FirstExodetDerivative |-> "jacob_exo_det"]
      at(col) == ins.row + e.size * col
  IN  IF ins.tag = "FSTPG2" THEN Assign(p, <<<<"jacob", at(ins.col)>>>>, "jacob", at(ins.col))
      ELSE IF p.etype \in DOMAIN array
      THEN Assign(p, <<<<array[p.etype], at(ins.col_pos)>>>>, array[p.etype], at(ins.col_pos))
      ELSE [p EXCEPT !.on = FALSE, !.vals = IF p.compute THEN Drop(@, 1) ELSE @]

Sign == [minus |-> " - ", times |-> " * ", less |-> " < ", greater |-> " > ",
         lessEqual |-> " <= ", greaterEqual |-> " >= ", equalEqual |-> " == ",
         different |-> " != "]

(* The operation in between, marked when its value is of the given kind.    *)
Marked(e, p, t, sign, kind) ==
  IF p.compute /\ t \in DOMAIN e.faults /\ e.faults[t] = kind
  THEN Tok("$") \o sign \o Tok("pound") ELSE sign

PrintBinary(e, p0, op) ==
  LET p == PopBoth(p0, 2)
      v1 == Last(p0.texts, 2)[1]
      v2 == Last(p0.texts, 1)[1]
      f == IF p0.compute THEN Last(p0.vals, 2) ELSE <<Undefined, Undefined>>
      t == <<op, f[1], f[2]>>
  IN  CASE op = "plus" -> PushBoth(p, v1 \o Tok(" + ") \o v2, t)
        [] op \in DOMAIN Sign -> PushBoth(p, Bracket(v1) \o Tok(Sign[op]) \o Bracket(v2), t)
        [] op = "divide" ->
             PushBoth(p, Bracket(v1) \o Marked(e, p, t, Tok(" / "), "inf") \o Bracket(v2), t)
        [] op = "power" ->
             PushBoth(p, Bracket(v1) \o Marked(e, p, t, Tok(" ^ "), "nan") \o Bracket(v2), t)
        [] op \in {"max", "min"} -> PushBoth(p, Apply(op, <<v1, v2>>), t)
        [] op = "powerDeriv" ->
             LET q == PopBoth(p, 1)
                 v3 == Last(p.texts, 1)[1]
                 k == IF p.compute THEN Last(p.vals, 1)[1][2] ELSE 0
                 w == <<"power", f[1], Dec(f[2], k)>>
                 zero == f[1] = Const(0) /\ f[2][1] = "c" /\ f[2][2] > 0 /\ k > f[2][2]
                 mark == p.compute /\ ~zero /\ w \in DOMAIN e.faults /\ e.faults[w] = "nan"
             IN  PushBoth(q, Apply(IF mark THEN "$ PowerDeriv " ELSE "PowerDeriv", <<v1, v2, v3>>),
                          IF zero THEN Const(0) ELSE Falling(w, f[2], k))
        [] OTHER -> p

(* The unary minus is put before its argument, without parentheses.         *)
PrintUnary(e, p0, op) ==
  LET p == PopBoth(p0, 1)
      v1 == Last(p0.texts, 1)[1]
      t == <<op, IF p0.compute THEN Last(p0.vals, 1)[1] ELSE Undefined>>
  IN  CASE op = "uminus" -> PushBoth(p, Tok(" -") \o v1, t)
        [] op \in {"log", "log10"} ->
             PushBoth(p, Marked(e, p, t, Tok(op), "nan") \o Tok("(") \o v1 \o Tok(")"), t)
        [] op \in PlainUnary -> PushBoth(p, Apply(op, <<v1>>), t)
        [] OTHER -> p

PrintTrinary(p, op) ==
  LET q == PopBoth(p, 3)
      f == IF p.compute THEN Last(p.vals, 3) ELSE <<Undefined, Undefined, Undefined>>
  IN  IF op \notin {"normcdf", "normpdf"} THEN q
      ELSE PushBoth(q, Apply(op, Last(p.texts, 3)), <<op, f[1], f[2], f[3]>>)

(* A derivative asked from MATLAB; only a numerical one is on the stack.    *)
PrintDerivative(p, ins) ==
  LET numeric == ins.ftype \in {"numericalFirstDerivative", "numericalSecondDerivative"}
      n == IF numeric THEN ins.nb_add ELSE ins.nb_in
      args == Last(p.texts, n)
      q == [PopBoth(p, n) EXCEPT !.ftype = ins.ftype]
      where == IF ins.ftype = "numericalFirstDerivative" THEN <<ins.row>> ELSE <<ins.row, ins.col>>
      vals == IF p.compute THEN Last(p.vals, n) ELSE <<>>
  IN  IF numeric
      THEN PushBoth(q, Tok("(") \o Tok(ins.fname) \o <<<<"at">> \o where>> \o Joined(args) \o Tok(")"),
                    <<"num", ins.arg_func, where,
                      IF ins.nb_in + ins.nb_add = 2 THEN vals ELSE <<Undefined>>>>)
      ELSE PushText(q, Apply(ins.fname, args))

(* A call is made again when computing.                                     *)
PrintCall(p, ins) ==
  LET n == ins.nb_in
      vals == IF p.compute THEN Last(p.vals, n) ELSE <<>>
  IN  IF ins.ftype \in {"withoutDerivative", "withFirstDerivative", "withFirstAndSecondDerivative"}
      THEN PushBoth([PopBoth(p, n) EXCEPT !.ftype = ins.ftype],
                    Apply(ins.fname, Last(p.texts, n)), <<"f", ins.fname, vals>>)
      ELSE PrintDerivative(p, ins)

PrintExternalTerm(p, ins) ==
  LET ends(key) == [PopBoth(p, 1) EXCEPT !.on = FALSE,
                                         !.out = <<key>> \o Tok(" = ") \o Last(p.texts, 1)[1]]
      show(a, i, key) == PushBoth(p, <<key>>, ReadMem(p.mem, a, i))
  IN  CASE ins.tag = "FSTPTEF" -> ends(<<"TEF", ins.number>>)
        [] ins.tag = "FLDTEF" -> show("TEF", ins.number - 1, <<"TEF", ins.number>>)
        [] ins.tag = "FSTPTEFD" -> ends(<<"TEFD", ins.indx, ins.row>>)
        [] ins.tag = "FLDTEFD" ->
             show("TEFD", <<ins.indx, ins.row - 1>>, <<"TEFD", ins.indx, ins.row>>)
        [] ins.tag = "FSTPTEFDD" -> ends(<<"TEFDD", ins.indx, ins.row, ins.col>>)
        [] ins.tag = "FLDTEFDD" ->
             show("TEFDD", <<ins.indx, ins.row - 1, ins.col - 1>>,
                  <<"TEFDD", ins.indx, ins.row, ins.col>>)

PrintFlow(p, ins) ==
  CASE ins.tag = "FJMPIFEVAL" -> [p EXCEPT !.on = FALSE, !.out = Tok("if (~evaluate)")]
    [] ins.tag = "FJMP" -> [p EXCEPT !.on = FALSE, !.out = Tok("else")]
    [] ins.tag = "FCUML" ->
         LET v == Last(p.texts, 2)
             f == IF p.compute THEN Last(p.vals, 2) ELSE <<Undefined, Undefined>>
         IN  PushBoth(PopBoth(p, 2), v[2] \o Tok(" + ") \o v[1], <<"plus", f[2], f[1]>>)
    [] ins.tag \in {"FENDBLOCK", "FENDEQU"} -> [p EXCEPT !.on = FALSE]
    [] ins.tag = "FOK" -> p

(* The derivatives with respect to parameters are taken for others, which   *)
(* only matters where they are stored.                                      *)
PrintNumExpr(p, ins) ==
  [p EXCEPT !.etype = CASE ins.type = "SecondParamDerivative" -> "SecondExodetDerivative"
                        [] ins.type = "ThirdParamDerivative" -> "ThirdExodetDerivative"
                        [] OTHER -> ins.type]

PrintOne(e, p, ins) ==
  CASE ins.tag = "FNUMEXPR" -> PrintNumExpr(p, ins)
    [] ins.tag \in {"FLDV", "FLDSV", "FLDVS"} -> PrintVariable(e, p, ins)
    [] ins.tag \in {"FLDT", "FLDST", "FLDU", "FLDSU", "FLDR", "FLDZ", "FLDC"} -> PrintOther(e, p, ins)
    [] ins.tag \in {"FSTPV", "FSTPSV"} -> PrintStoreVariable(e, p, ins)
    [] ins.tag \in {"FSTPT", "FSTPST", "FSTPU", "FSTPSU", "FSTPR", "FSTPG"} ->
         PrintStoreOther(e, p, ins)
    [] ins.tag \in {"FSTPG2", "FSTPG3"} -> PrintStoreJacobian(e, p, ins)
    [] ins.tag = "FBINARY" -> PrintBinary(e, p, ins.op)
    [] ins.tag = "FUNARY" -> PrintUnary(e, p, ins.op)
    [] ins.tag = "FTRINARY" -> PrintTrinary(p, ins.op)
    [] ins.tag = "FCALL" -> PrintCall(p, ins)
    [] ins.tag \in {"FSTPTEF", "FLDTEF", "FSTPTEFD", "FLDTEFD", "FSTPTEFDD", "FLDTEFDD"} ->
         PrintExternalTerm(p, ins)
    [] OTHER -> PrintFlow(p, ins)

RECURSIVE PrintRun(_, _)
PrintRun(e, p) ==
  IF ~p.on THEN p
  ELSE CHOOSE v \in {PrintRun(e, [q EXCEPT !.pc = @ + 1]) : q \in {PrintOne(e, p, e.code[p.pc])}} : TRUE

(* One statement from pc on: its text (empty when there is none), the       *)
(* memory and the instruction after it.                                     *)
print_expression(e, mem, pc, compute) ==
  PrintRun(e, [texts |-> <<>>, vals |-> <<>>, mem |-> mem, pc |-> pc, out |-> <<>>, on |-> TRUE,
               etype |-> "TemporaryTerm", ftype |-> "withoutDerivative", compute |-> compute])

(* The message: what was being computed, and the statement computed again;  *)
(* the kinds of derivatives that are not announced get none.                *)
LocatedTypes == {"TemporaryTerm", "ModelEquation", "FirstEndoDerivative",
                 "FirstOtherEndoDerivative", "FirstExoDerivative", "FirstExodetDerivative",
                 "FirstParamDerivative"}

error_location(e, mem, EQN, expr) ==
  IF EQN.type \notin LocatedTypes THEN [text |-> Tok("???"), where |-> <<>>, mem |-> mem]
  ELSE LET where == <<EQN.type, EQN.equation>> \o (IF e.steady_state THEN <<>> ELSE <<e.it_>>)
           located(p) == [text |-> p.out, mem |-> p.mem, where |-> where]
       IN  located(print_expression(e, mem, expr, TRUE))
============================================================================

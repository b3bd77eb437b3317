--------------------------- MODULE BytecodeCalls ---------------------------
(***************************************************************************)
(* What the byte code stands for: blocks of assignments, the code the       *)
(* preprocessor writes for them, and the meaning that the machine, the      *)
(* printer and the interpreter must give to it.                             *)
(*                                                                         *)
(* An expression is a tree whose leaves are the printer's tokens.  A        *)
(* statement is [kind, equation, target, expr, ...]; a block of model is    *)
(* [fb, model, solve, eval]: its equations, and the derivatives for solving *)
(* and for evaluating it.                                                   *)
(***************************************************************************)
EXTENDS BytecodeBlocks

Symbols == {"parameter", "endogenous", "exogenous", "exogenousDet"}

(* External: the code of an expression and of a statement.                  *)
RECURSIVE Compile(_, _)
Compile(static, t) ==
  LET sub(k) == Compile(static, t[k])
      args(ts) == Fold(LAMBDA a, x : a \o Compile(static, x), <<>>, ts)
      n == Len(t)
  IN  CASE t[1] = "c" -> <<[tag |-> "FLDC", value |-> t[2]]>>
        [] t[1] \in Symbols ->
             <<[tag |-> IF static THEN "FLDSV" ELSE "FLDV", type |-> t[1], pos |-> t[2], lag |-> t[3]]>>
        [] t[1] = "steady" -> <<[tag |-> "FLDVS", type |-> "endogenous", pos |-> t[2]]>>
        [] t[1] = "T" -> <<[tag |-> IF static THEN "FLDST" ELSE "FLDT", pos |-> t[2]]>>
        [] t[1] = "u" -> <<[tag |-> IF static THEN "FLDSU" ELSE "FLDU", pos |-> t[2]]>>
        [] t[1] = "r" -> <<[tag |-> "FLDR", pos |-> t[2]]>>
        [] t[1] = "TEF" -> <<[tag |-> "FLDTEF", number |-> t[2]]>>
        [] t[1] = "TEFD" -> <<[tag |-> "FLDTEFD", indx |-> t[2], row |-> t[3]]>>
        [] t[1] = "TEFDD" -> <<[tag |-> "FLDTEFDD", indx |-> t[2], row |-> t[3], col |-> t[4]]>>
        [] t[1] = "call" -> args(t[3]) \o <<t[2]>>
        [] t[1] = "powerDeriv" -> sub(4) \o sub(2) \o sub(3) \o <<[tag |-> "FBINARY", op |-> t[1]]>>
        [] n = 2 -> sub(2) \o <<[tag |-> "FUNARY", op |-> t[1]]>>
        [] n = 3 -> sub(2) \o sub(3) \o <<[tag |-> "FBINARY", op |-> t[1]]>>
        [] n = 4 -> sub(2) \o sub(3) \o sub(4) \o <<[tag |-> "FTRINARY", op |-> t[1]]>>

Statement(static, st) ==
  <<[tag |-> "FNUMEXPR", type |-> st.kind, equation |-> st.equation]>>
    \o Compile(static, st.expr) \o <<st.target>>

Statements(static, sts) == Fold(LAMBDA a, x : a \o Statement(static, x), <<>>, sts)

BlockCode(static, b) ==
  LET solve == Statements(static, b.solve)
      eval == Statements(static, b.eval)
  IN  Statements(static, b.model) \o <<[tag |-> "FENDEQU"], [tag |-> "FJMPIFEVAL", pos |-> Len(solve) + 1]>>
        \o solve \o <<[tag |-> "FJMP", pos |-> Len(eval)]>> \o eval \o <<[tag |-> "FENDBLOCK"]>>

ModelCode(static, bs) ==
  <<[tag |-> IF static THEN "FDIMST" ELSE "FDIMT", size |-> 2]>>
    \o Fold(LAMBDA a, b : a \o <<b.fb>> \o BlockCode(static, b), <<>>, bs) \o <<[tag |-> "FEND"]>>

Begins(code) == Gather([k \in DOMAIN code |-> k], LAMBDA k : code[k].tag = "FBEGINBLOCK",
                       LAMBDA k : k)
-----------------------------------------------------------------------------
(* The meaning of an expression in a period, of statements and of a block.  *)
Cell(e, a, v, lag) == <<a, v + e.y_size * (e.it_ + lag)>>

Holds(mem, c) == IF c \in DOMAIN mem THEN mem[c] ELSE c

RECURSIVE Value(_, _, _)
Value(e, mem, t) ==
  LET static == e.steady_state
      val(k) == Value(e, mem, t[k])
      ya == IF e.evaluate THEN "ya" ELSE "y"
      rows == IF t[1] = "exogenous" THEN e.nb_row_x ELSE e.nb_row_xd
      n == Len(t)
      plain == [k \in 1..n |-> IF k = 1 THEN t[1] ELSE val(k)]
  IN  CASE t[1] = "c" -> t
        [] t[1] = "parameter" -> Holds(mem, <<"params", t[2]>>)
        [] t[1] = "endogenous" ->
             Holds(mem, IF static THEN <<ya, t[2]>> ELSE Cell(e, ya, t[2], t[3]))
        [] t[1] \in {"exogenous", "exogenousDet"} ->
             Holds(mem, <<"x", IF static THEN t[2] ELSE t[2] * rows + e.it_ + t[3]>>)
        [] t[1] = "steady" -> Holds(mem, <<"steady_y", t[2]>>)
        [] t[1] = "T" -> Holds(mem, <<"T", IF static THEN t[2] ELSE t[2] * e.span + e.it_>>)
        [] t[1] = "u" -> Holds(mem, <<"u", IF static THEN t[2] ELSE t[2] + e.Per_u_>>)
        [] t[1] = "r" -> Holds(mem, t)
        [] t[1] = "TEF" -> Holds(mem, <<"TEF", t[2] - 1>>)
        [] t[1] = "TEFD" -> Holds(mem, <<"TEFD", <<t[2], t[3] - 1>>>>)
        [] t[1] = "TEFDD" -> Holds(mem, <<"TEFDD", <<t[2], t[3] - 1, t[4] - 1>>>>)
        [] t[1] = "call" ->
             LET vs == [i \in DOMAIN t[3] |-> Value(e, mem, t[3][i])]
                 ins == t[2]
             IN  IF ins.ftype = "numericalFirstDerivative" THEN <<"num", ins.arg_func, <<ins.row>>, vs>>
                 ELSE IF ins.ftype = "numericalSecondDerivative"
                 THEN <<"num", ins.arg_func, <<ins.row, ins.col>>, vs>>
                 ELSE <<"f", ins.fname, vs>>
        [] t[1] = "powerDeriv" ->
             IF val(2) = Const(0) /\ val(3)[1] = "c" /\ val(3)[2] \in 1..(t[4][2] - 1) THEN Const(0)
             ELSE Falling(<<"power", val(2), Dec(val(3), t[4][2])>>, val(3), t[4][2])
        [] OTHER -> plain

(* Where a statement puts its value.                                        *)
Target(e, st) ==
  LET ins == st.target
  IN  CASE ins.tag = "FSTPV" -> Cell(e, "y", ins.pos, ins.lag)
        [] ins.tag = "FSTPSV" -> <<"y", ins.pos>>
        [] ins.tag = "FSTPT" -> <<"T", ins.pos * e.span + e.it_>>
        [] ins.tag = "FSTPST" -> <<"T", ins.pos>>
        [] ins.tag = "FSTPU" -> <<"u", ins.pos + e.Per_u_>>
        [] ins.tag = "FSTPSU" -> <<"u", ins.pos>>
        [] ins.tag = "FSTPR" -> <<"r", ins.pos>>
        [] ins.tag = "FSTPG" -> <<"g1", ins.pos>>
        [] ins.tag = "FSTPTEF" -> <<"TEF", ins.number - 1>>
        [] ins.tag = "FSTPTEFD" -> <<"TEFD", <<ins.indx, ins.row - 1>>>>
        [] ins.tag = "FSTPTEFDD" -> <<"TEFDD", <<ins.indx, ins.row - 1, ins.col - 1>>>>
        [] ins.tag = "FSTPG2" -> <<"jacob", ins.row + e.size * ins.col>>
        [] ins.tag = "FSTPG3" ->
             <<CASE st.kind = "FirstEndoDerivative" -> "jacob"
                 [] st.kind = "FirstOtherEndoDerivative" -> "jacob_other_endo"
                 [] st.kind = "FirstExoDerivative" -> "jacob_exo"
                 [] OTHER -> "jacob_exo_det", st.equation + e.size * ins.col_pos>>

(* What a call of an external function gives beside, or without, a value.   *)
GivesDerivatives(t) ==
  t[1] = "call" /\ t[2].ftype \in WithDerivatives \cup {"firstDerivative", "secondDerivative"}

Derivatives(e, mem, t) ==
  IF ~GivesDerivatives(t) THEN <<>>
  ELSE LET n == Len(t[3])
           vs == [i \in 1..n |-> Value(e, mem, t[3][i])]
           f == t[2].fname
           first == [c \in {<<"TEFD", <<t[2].indx, i>>>> : i \in 0..(n - 1)} |->
                       <<"fd", f, vs, c[2][2]>>]
           second == [c \in {<<"TEFDD", <<t[2].indx, i, j>>>> : i, j \in 0..(n - 1)} |->
                        <<"fdd", f, vs, c[2][2], c[2][3]>>]
       IN  CASE t[2].ftype \in {"withFirstDerivative", "firstDerivative"} -> first
             [] t[2].ftype = "secondDerivative" -> second
             [] OTHER -> first @@ second

Meaning(e, mem, sts) ==
  LET after(a, st) ==
        IF GivesDerivatives(st.expr) /\ st.expr[2].ftype \notin WithDerivatives
        THEN Derivatives(e, a, st.expr) @@ a
        ELSE (Target(e, st) :> Value(e, a, st.expr)) @@ Derivatives(e, a, st.expr) @@ a
  IN  Fold(after, mem, sts)

BlockMeaning(e, mem, b) ==
  Meaning(e, mem, b.model \o (IF e.no_derivative THEN <<>> ELSE IF e.evaluate THEN b.eval ELSE b.solve))

(* The operations of an expression, as values.                              *)
RECURSIVE Operations(_, _, _)
Operations(e, mem, t) ==
  IF t[1] \in {"c", "steady", "T", "u", "r", "TEF", "TEFD", "TEFDD"} \cup Symbols THEN {}
  ELSE IF t[1] = "call" THEN UNION {Operations(e, mem, t[3][i]) : i \in DOMAIN t[3]}
  ELSE {Value(e, mem, t)} \cup UNION {Operations(e, mem, t[k]) : k \in 2..Len(t)}
-----------------------------------------------------------------------------
(* Reading a printed formula: comparisons, sums, products, signs, powers.   *)
Level == [k \in 1..4 |-> CASE k = 1 -> {" < ", " > ", " <= ", " >= ", " == ", " != "}
                           [] k = 2 -> {" + ", " - "} [] k = 3 -> {" * ", " / "} [] OTHER -> {" ^ "}]

OpName(s) == CASE s = " / " -> "divide" [] s = " ^ " -> "power" [] s = " + " -> "plus"
               [] OTHER -> CHOOSE n \in DOMAIN Sign : Sign[n] = s

IsWord(w) == Len(w) = 1

RECURSIVE ReadLevel(_, _)
RECURSIVE ReadArguments(_, _)

ReadAtom(w) ==
  IF w[1] = <<"(">>
  THEN LET r == ReadLevel(1, Tail(w)) IN [t |-> r.t, rest |-> Tail(r.rest)]
  ELSE IF IsWord(w[1]) /\ Len(w) > 1 /\ IsWord(w[2]) /\ w[2] = <<"(">>
  THEN LET r == ReadArguments(<<>>, Tail(Tail(w)))
           name == IF w[1][1] = "PowerDeriv" THEN "powerDeriv" ELSE w[1][1]
       IN  [t |-> <<name>> \o r.args, rest |-> r.rest]
  ELSE [t |-> w[1], rest |-> Tail(w)]

ReadArguments(got, w) ==
  LET r == ReadLevel(1, w)
      all == Append(got, r.t)
  IN  IF r.rest[1] = <<", ">> THEN ReadArguments(all, Tail(r.rest))
      ELSE [args |-> all, rest |-> Tail(r.rest)]

RECURSIVE ReadMore(_, _)
ReadLevel(k, w) ==
  IF k = 4 /\ w[1] = <<" -">>
  THEN LET r == ReadLevel(4, Tail(w)) IN [t |-> <<"uminus", r.t>>, rest |-> r.rest]
  ELSE ReadMore(k, IF k = 4 THEN ReadAtom(w) ELSE ReadLevel(k + 1, w))

ReadMore(k, r) ==
  IF r.rest = <<>> \/ ~IsWord(r.rest[1]) \/ r.rest[1][1] \notin Level[k] THEN r
  ELSE LET q == IF k = 4 THEN ReadAtom(Tail(r.rest)) ELSE ReadLevel(k + 1, Tail(r.rest))
       IN  ReadMore(k, [t |-> <<OpName(r.rest[1][1]), r.t, q.t>>, rest |-> q.rest])

ReadFormula(w) == ReadLevel(1, w).t

(* A sum is the list of its signed terms, however it was grouped.           *)
RECURSIVE Signed(_, _)
Signed(neg, t) ==
  LET inner(x) == IF x[1] \in {"c", "T", "u", "r", "TEF", "TEFD", "TEFDD"} \cup Symbols THEN x
                  ELSE <<x[1]>> \o [k \in 1..(Len(x) - 1) |-> Signed(FALSE, x[k + 1])]
  IN  CASE t[1] = "plus" -> Signed(neg, t[2]) \o Signed(neg, t[3])
        [] t[1] = "minus" -> Signed(neg, t[2]) \o Signed(~neg, t[3])
        [] t[1] = "uminus" -> Signed(~neg, t[2])
        [] OTHER -> <<<<neg, inner(t)>>>>

(* A static model has no leads and lags.                                    *)
RECURSIVE Dated(_, _)
Dated(static, t) ==
  IF t[1] \in {"c", "T", "u", "r", "TEF", "TEFD", "TEFDD"} THEN t
  ELSE IF t[1] \in Symbols THEN (IF static THEN <<t[1], t[2], 0>> ELSE t)
  ELSE [k \in DOMAIN t |-> IF k = 1 THEN t[1] ELSE Dated(static, t[k])]

(* The expressions the printer writes so that they can be read: a sign      *)
(* stands before a single factor, a comparison is no term of a sum, and     *)
(* constants are not negative.                                              *)
Comparisons == {"less", "greater", "lessEqual", "greaterEqual", "equalEqual", "different"}

RECURSIVE Readable(_)
Readable(t) ==
  IF t[1] \in {"c", "T", "u", "r", "TEF", "TEFD", "TEFDD"} \cup Symbols
  THEN t[1] # "c" \/ t[2] >= 0
  ELSE /\ t[1] \notin {"call", "steady"}
       /\ t[1] = "uminus" => t[2][1] \notin {"plus", "minus", "times", "divide"} \cup Comparisons
       /\ t[1] = "plus" => t[2][1] \notin Comparisons /\ t[3][1] \notin Comparisons
       /\ \A k \in 2..Len(t) : Readable(t[k])
============================================================================

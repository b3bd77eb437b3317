--------------------------- MODULE OperationTree ---------------------------
(***************************************************************************)
(* The tree of operations of the Dynare++ parser (parser/cc/tree.cc): terms *)
(* are kept once and numbered in the order of creation, with the nulary     *)
(* terms each depends on and the derivatives already taken.  A call takes   *)
(* the tree and returns [t, T]: the number of the term and the new tree.    *)
(* Where C++ leaves the order of two arguments open, the first is computed  *)
(* first: only the numbers of the new terms depend on it.                   *)
(*                                                                          *)
(* Values are the integers modulo Prime, with NaN for everything that is    *)
(* not finite: a field is enough to tell formulas apart, and every function *)
(* agrees with the real one where the code simplifies it, at zero and one.  *)
(***************************************************************************)
EXTENDS Loops, TLC

CONSTANT Prime

ASSUME PrimeAssumption == Prime \in Nat /\ Prime > 3 /\ \A k \in 2..(Prime - 1) : Prime % k # 0

zero == 0
one == 1
nan == 2
two_over_pi == 3
num_constants == 4

NaN == -1

TwoOverPi == 3

Nulary == <<"NONE", -1, -1>>

Nary(op) == IF op[3] # -1 THEN 2 ELSE IF op[2] # -1 THEN 1 ELSE 0

Op(T, t) == T.terms[t + 1]

nulary_of_term(T, t) == T.nul[t + 1]

Size(T) == Len(T.terms)

add_nulary(T) ==
  LET t == Size(T)
  IN  [t |-> t,
       T |-> [T EXCEPT !.terms = Append(@, Nulary), !.nul = Append(@, {t}),
                       !.der = Append(@, <<>>), !.last = t]]

(* The constants zero, one, NaN and 2/sqrt(pi) are the first nulary terms.  *)
NewTree ==
  Fold(LAMBDA T, k : add_nulary(T).T,
       [terms |-> <<>>, opmap |-> <<>>, nul |-> <<>>, der |-> <<>>, last |-> -1],
       UpTo(num_constants))

(* The term of an operation: the one in opmap, or a new one.                *)
Entered(T, op, nuls) ==
  IF op \in DOMAIN T.opmap THEN [t |-> T.opmap[op], T |-> T]
  ELSE [t |-> Size(T),
        T |-> [T EXCEPT !.terms = Append(@, op), !.nul = Append(@, nuls),
                        !.der = Append(@, <<>>), !.opmap = (op :> Size(T)) @@ @]]

add_unary(T, code, op) ==
  CASE op = zero /\ code \in {"UMINUS", "SIN", "TAN", "SQRT", "ERF"} -> [t |-> zero, T |-> T]
    [] op = nan \/ (op = zero /\ code = "LOG") -> [t |-> nan, T |-> T]
    [] op = zero /\ code \in {"EXP", "COS", "ERFC"} -> [t |-> one, T |-> T]
    [] OTHER -> Entered(T, <<code, op, -1>>, nulary_of_term(T, op))

(* The term a binary operation simplifies to, -1 when it does not.          *)
Simplified(code, op1, op2) ==
  CASE op1 = nan \/ op2 = nan -> nan
    [] code = "PLUS" /\ op1 = zero -> op2
    [] code \in {"PLUS", "MINUS"} /\ op2 = zero -> op1
    [] code = "TIMES" /\ zero \in {op1, op2} -> zero
    [] code = "TIMES" /\ op1 = one -> op2
    [] code = "TIMES" /\ op2 = one -> op1
    [] code = "DIVIDE" /\ op1 = op2 -> one
    [] code = "DIVIDE" /\ op1 = zero -> zero
    [] code = "DIVIDE" /\ op2 = zero -> nan
    [] code = "POWER" /\ op1 = zero -> IF op2 = zero THEN nan ELSE zero
    [] code = "POWER" /\ op2 = zero -> one
    [] code = "POWER" /\ op1 = one -> one
    [] code = "POWER" /\ op2 = one -> op1
    [] OTHER -> -1

add_binary(T, code, op1, op2) ==
  LET s == Simplified(code, op1, op2)
      swap == code \in {"TIMES", "PLUS"} /\ op1 > op2
      nuls == nulary_of_term(T, op1) \cup nulary_of_term(T, op2)
  IN  IF s # -1 THEN [t |-> s, T |-> T]
      ELSE IF code = "MINUS" /\ op1 = zero THEN add_unary(T, "UMINUS", op2)
      ELSE Entered(T, IF swap THEN <<code, op2, op1>> ELSE <<code, op1, op2>>, nuls)

register_derivative(T, t, v, tder) == [T EXCEPT !.der[t + 1] = @ @@ (v :> tder)]

(* An operation on the term r.t just entered into the tree r.T: a unary     *)
(* one, or a binary one with it on the left or on the right.                *)
Of(code, r) == add_unary(r.T, code, r.t)

LeftOf(r, code, op2) == add_binary(r.T, code, r.t, op2)

RightOf(op1, code, r) == add_binary(r.T, code, op1, r.t)

(* exp(-x^2) * 2/sqrt(pi) * dx, the derivative of erf(x).  (The code enters *)
(* the exponential before dx is known, which only changes term numbers.)    *)
ErfDerivative(T, x, dx) ==
  RightOf(two_over_pi, "TIMES",
          LeftOf(Of("EXP", Of("UMINUS", add_binary(T, "TIMES", x, x))), "TIMES", dx))

UnaryDerivative(T, t, x, dx) ==
  LET code == Op(T, t)[1]
  IN  CASE code = "UMINUS" -> add_unary(T, "UMINUS", dx)
        [] code = "LOG" -> add_binary(T, "DIVIDE", dx, x)
        [] code = "EXP" -> add_binary(T, "TIMES", t, dx)
        [] code = "SIN" -> LeftOf(add_unary(T, "COS", x), "TIMES", dx)
        [] code = "COS" -> Of("UMINUS", LeftOf(add_unary(T, "SIN", x), "TIMES", dx))
        [] code = "TAN" -> LET c == add_unary(T, "COS", x)
                           IN  RightOf(dx, "DIVIDE", LeftOf(c, "TIMES", c.t))
        [] code = "SQRT" -> RightOf(dx, "DIVIDE", add_binary(T, "PLUS", t, t))
        [] code = "ERF" -> ErfDerivative(T, x, dx)
        [] code = "ERFC" -> Of("UMINUS", ErfDerivative(T, x, dx))

BinaryDerivative(T, t, x, y, dx, dy) ==
  LET code == Op(T, t)[1]
      tms(TT, a, b) == add_binary(TT, "TIMES", a, b)
  IN  CASE code \in {"PLUS", "MINUS"} -> add_binary(T, code, dx, dy)
        [] code = "TIMES" -> LET p == tms(T, x, dy) IN RightOf(p.t, "PLUS", tms(p.T, dx, y))
        [] code = "DIVIDE" /\ dy = zero -> add_binary(T, "DIVIDE", dx, y)
        [] code = "DIVIDE" -> LET p == tms(T, dx, y)
                                  n == RightOf(p.t, "MINUS", tms(p.T, dy, x))
                              IN  RightOf(n.t, "DIVIDE", tms(n.T, y, y))
        [] code = "POWER" -> LET s == RightOf(dy, "TIMES", RightOf(t, "TIMES", add_unary(T, "LOG", x)))
                                 w == RightOf(x, "POWER", add_binary(s.T, "MINUS", y, one))
                             IN  RightOf(s.t, "PLUS", RightOf(dx, "TIMES", RightOf(y, "TIMES", w)))

RECURSIVE add_derivative(_, _, _)
add_derivative(T, t, v) ==
  LET op == Op(T, t)
      d1 == add_derivative(T, op[2], v)
      d2 == add_derivative(d1.T, op[3], v)
      registered(r) == [r EXCEPT !.T = register_derivative(@, t, v, r.t)]
  IN  CASE Nary(op) = 0 -> [t |-> IF t = v THEN one ELSE zero, T |-> T]
        [] v \notin nulary_of_term(T, t) -> [t |-> zero, T |-> T]
        [] v \in DOMAIN T.der[t + 1] -> [t |-> T.der[t + 1][v], T |-> T]
        [] Nary(op) = 1 -> registered(UnaryDerivative(d1.T, t, op[2], d1.t))
        [] OTHER -> registered(BinaryDerivative(d2.T, t, op[2], op[3], d1.t, d2.t))

(* Term t of the tree From rebuilt in T with the terms of subst replaced.   *)
(* A nulary term without a substitute stays itself, which is an error when  *)
(* the trees are different ones.                                            *)
RECURSIVE add_substitution(_, _, _, _)
add_substitution(T, t, subst, From) ==
  LET op == Op(From, t)
      a == add_substitution(T, op[2], subst, From)
      b == add_substitution(a.T, op[3], subst, From)
  IN  CASE t \in DOMAIN subst -> [t |-> subst[t], T |-> T]
        [] Nary(op) = 2 -> add_binary(b.T, op[1], a.t, b.t)
        [] Nary(op) = 1 -> add_unary(a.T, op[1], a.t)
        [] OTHER -> [t |-> t, T |-> T]

(* The nulary terms of t's ancestors, recomputed in the order of creation.  *)
M_update_nul_incidence(T, t) == [T EXCEPT !.nul[t + 1] = {t}]

update_nul_incidence(T, t) ==
  LET step(a, k) ==
        LET op == Op(T, k)
            ops == {o \in {op[2], op[3]} : o # -1}
        IN  IF k = t THEN [nul |-> [a.nul EXCEPT ![k + 1] = {k}], upd |-> a.upd \cup {k}]
            ELSE IF ops \cap a.upd = {} THEN a
            ELSE [nul |-> [a.nul EXCEPT ![k + 1] = UNION {a.nul[o + 1] : o \in ops}],
                  upd |-> a.upd \cup {k}]
      all == Fold(step, [nul |-> T.nul, upd |-> {}],
                  [k \in 1..(Size(T) - num_constants) |-> num_constants + k - 1])
  IN  [T EXCEPT !.nul = all.nul]

(* Term t becomes a nulary term; its operation may be entered again.        *)
nularify(T, t) ==
  LET N == [T EXCEPT !.opmap = [o \in DOMAIN @ \ {Op(T, t)} |-> @[o]],
                     !.terms[t + 1] = Nulary,
                     !.last = IF @ < t THEN t ELSE @]
  IN  update_nul_incidence(N, t)

forget_derivative_maps(T) == [T EXCEPT !.der = [k \in DOMAIN @ |-> <<>>]]

(* The topmost subterms of t that satisfy sel.                              *)
select_terms(T, t, sel(_)) ==
  LET RECURSIVE below(_)
      below(s) == LET op == Op(T, s)
                  IN  IF sel(s) THEN {s}
                      ELSE UNION {below(o) : o \in {o \in {op[2], op[3]} : o # -1}}
  IN  below(t)

-----------------------------------------------------------------------------
(* Arithmetic of the values.                                                *)
Inverse(x) == CHOOSE y \in 1..(Prime - 1) : (x * y) % Prime = 1

Table(code, x) ==
  CASE code = "UMINUS" -> (-x) % Prime
    [] code = "EXP" -> (1 + 2 * x + 3 * x * x) % Prime
    [] code = "SIN" -> (2 * x + 4 * x * x) % Prime
    [] code = "COS" -> (1 + 3 * x + x * x) % Prime
    [] code = "TAN" -> (4 * x + x * x * x) % Prime
    [] code = "SQRT" -> (3 * x + 2 * x * x) % Prime
    [] code = "ERF" -> (x + 5 * x * x) % Prime
    [] code = "ERFC" -> (1 + x * x * x) % Prime
    [] code = "LOG" -> IF x = 0 THEN NaN ELSE (x * x + 4) % Prime

ModPower(x, y) == Fold(LAMBDA a, k : (a * x) % Prime, 1, UpTo(y))

Apply1(code, x) == IF x = NaN THEN NaN ELSE Table(code, x)

Apply2(code, x, y) ==
  CASE NaN \in {x, y} -> NaN
    [] code = "PLUS" -> (x + y) % Prime
    [] code = "MINUS" -> (x - y) % Prime
    [] code = "TIMES" -> (x * y) % Prime
    [] code = "DIVIDE" -> IF y = 0 THEN NaN ELSE (x * Inverse(y)) % Prime
    [] code = "POWER" -> IF x = 0 /\ y = 0 THEN NaN ELSE ModPower(x, y)

-----------------------------------------------------------------------------
(* EvalTree: an evaluation holds the values of the terms whose flag is set. *)
reset_all ==
  (zero :> 0) @@ (one :> 1) @@ (nan :> NaN) @@ (two_over_pi :> TwoOverPi)

set_nulary(E, t, val) == (t :> val) @@ E

(* The value of t and the evaluation with the flags of what was needed: the *)
(* factor with fewer nulary terms comes first, and a factor or a numerator  *)
(* of zero and an exponent of zero settle the result.                       *)
RECURSIVE eval(_, _, _)
eval(T, E, t) ==
  LET op == Op(T, t)
      set(e, v) == [v |-> v, E |-> (t :> v) @@ e]
      both == LET a == eval(T, E, op[2])
                  b == eval(T, a.E, op[3])
              IN  set(b.E, Apply2(op[1], a.v, b.v))
      guarded(first, other, at, res) ==
        LET a == eval(T, E, first)
            b == eval(T, a.E, other)
        IN  IF a.v = at THEN set(a.E, res)
            ELSE set(b.E, IF first = op[2] THEN Apply2(op[1], a.v, b.v)
                          ELSE Apply2(op[1], b.v, a.v))
      fewer == Cardinality(nulary_of_term(T, op[2])) < Cardinality(nulary_of_term(T, op[3]))
  IN  CASE t \in DOMAIN E -> [v |-> E[t], E |-> E]
        [] Nary(op) = 1 -> LET a == eval(T, E, op[2]) IN set(a.E, Apply1(op[1], a.v))
        [] op[1] \in {"PLUS", "MINUS"} -> both
        [] op[1] = "TIMES" -> IF fewer THEN guarded(op[2], op[3], 0, 0)
                              ELSE guarded(op[3], op[2], 0, 0)
        [] op[1] = "DIVIDE" -> guarded(op[2], op[3], 0, 0)
        [] op[1] = "POWER" -> guarded(op[3], op[2], 0, 1)

-----------------------------------------------------------------------------
(* DefaultOperationFormatter: the assignments that compute t, those of its  *)
(* operands first, without the ones already written (stop_set).             *)
RECURSIVE format(_, _, _)
format(T, prog, t) ==
  LET op == Op(T, t)
      done(p, s) == \E k \in DOMAIN p : p[k] = s
      operand(p, o) == IF o # -1 /\ Nary(Op(T, o)) > 0 THEN format(T, p, o) ELSE p
  IN  IF done(prog, t) THEN prog
      ELSE Append(operand(operand(prog, op[2]), op[3]), t)

(* OperationStringConvertor: the tokens of a term.                          *)
RECURSIVE convert(_, _)
convert(T, t) ==
  LET op == Op(T, t)
      c2 == Op(T, op[3])[1]
      par1 == op[1] \notin {"PLUS", "MINUS"} /\ Nary(Op(T, op[2])) = 2
      par2 == IF op[1] = "PLUS" THEN FALSE
              ELSE IF op[1] = "MINUS" THEN c2 \in {"MINUS", "PLUS"}
              ELSE Nary(Op(T, op[3])) = 2
      wrap(p, s) == IF p THEN << <<"(">> >> \o s \o << <<")">> >> ELSE s
  IN  CASE Nary(op) = 0 -> << <<"n", t>> >>
        [] Nary(op) = 1 -> << <<op[1]>> >> \o wrap(TRUE, convert(T, op[2]))
        [] OTHER -> wrap(par1, convert(T, op[2])) \o << <<op[1]>> >> \o wrap(par2, convert(T, op[3]))
============================================================================

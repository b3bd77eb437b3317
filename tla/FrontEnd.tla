------------------------------ MODULE FrontEnd ------------------------------
(***************************************************************************)
(* What the front end of Dynare++ promises of the model it builds: the      *)
(* equations mean what the source says, the planner's equations are the     *)
(* first-order conditions, derivatives are the derivatives, and every       *)
(* consumer of the model (dynare3.cc, the generated Matlab functions, the   *)
(* dump) reads the right entry.  The reference is the meaning of the syntax *)
(* trees on a path of the variables, with numbers that carry derivatives    *)
(* (jets): a jet of order 0 is a value, one of order k + 1 a pair <<a, d>>  *)
(* of jets of order k.                                                      *)
(***************************************************************************)
EXTENDS DynareModel

-----------------------------------------------------------------------------
(* Consumers of the finished model.                                         *)
(* get_endo_atoms_map: the derivatives by atoms of endogenous variables.    *)
EndoAtoms(M, ord) ==
  SelectSeq(UpTo(Len(ord.der_atoms)), LAMBDA j : M.indices[ord.der_atoms[j + 1]] \in Elements(M.endovars))

(* write_der0 and write_der1: the terms the two Matlab functions compute,   *)
(* in order; write_atom_assignment: the atoms they give a value first.      *)
write_der0(M) == Fold(LAMBDA p, f : format(M.T, p, f), <<>>, M.formulas)

write_der1(M, w) ==
  Fold(LAMBDA p, i : Fold(LAMBDA q, j : LET t == derivative(w.ders[i], <<j>>)
                                        IN  IF t > 0 THEN format(M.T, q, t) ELSE q,
                          p, EndoAtoms(M, w.ord)),
       <<>>, [i \in DOMAIN w.ders |-> i])

write_atom_assignment(M) ==
  LET at(n) == {M.vars[n][ll] : ll \in DOMAIN M.vars[n]}
      used(names) == UNION {at(n) : n \in Elements(names) \cap DOMAIN M.vars}
  IN  (0..(num_constants - 1)) \cup (DOMAIN M.consts)
      \cup {index(M, n, 0) : n \in Elements(M.params)} \cup used(M.exovars) \cup used(M.endovars)

-----------------------------------------------------------------------------
(* Jets.                                                                    *)
RECURSIVE Lift(_, _)
Lift(v, k) == IF k = 0 THEN v ELSE <<Lift(v, k - 1), Lift(0, k - 1)>>

RECURSIVE Jet2(_, _, _, _)
RECURSIVE Jet1(_, _, _)
Jet1(k, code, x) ==
  LET one_less(c, z) == Jet1(k - 1, c, z)
      mul(a, b) == Jet2(k - 1, "TIMES", a, b)
      div(a, b) == Jet2(k - 1, "DIVIDE", a, b)
      v == x[1]
      d == x[2]
      cos == one_less("COS", v)
      gauss == mul(Lift(TwoOverPi, k - 1), one_less("EXP", one_less("UMINUS", mul(v, v))))
      slope == CASE code = "UMINUS" -> Lift(Prime - 1, k - 1)
                 [] code = "LOG" -> div(Lift(1, k - 1), v)
                 [] code = "EXP" -> one_less("EXP", v)
                 [] code = "SIN" -> cos
                 [] code = "COS" -> one_less("UMINUS", one_less("SIN", v))
                 [] code = "TAN" -> div(Lift(1, k - 1), mul(cos, cos))
                 [] code = "SQRT" -> div(Lift(1, k - 1), mul(Lift(2, k - 1), one_less("SQRT", v)))
                 [] code = "ERF" -> gauss
                 [] code = "ERFC" -> one_less("UMINUS", gauss)
  IN  IF k = 0 THEN Apply1(code, x)
      ELSE <<one_less(code, v), mul(slope, d)>>
Jet2(k, code, x, y) ==
  LET op(c, a, b) == Jet2(k - 1, c, a, b)
      u == x[1]
      v == y[1]
      du == x[2]
      dv == y[2]
      times(a, b) == op("TIMES", a, b)
      d == CASE code \in {"PLUS", "MINUS"} -> op(code, du, dv)
             [] code = "TIMES" -> op("PLUS", times(u, dv), times(du, v))
             [] code = "DIVIDE" -> op("DIVIDE", op("MINUS", times(du, v), times(u, dv)), times(v, v))
             [] code = "POWER" ->
                  op("PLUS", times(dv, times(op("POWER", u, v), Jet1(k - 1, "LOG", u))),
                             times(du, times(v, op("POWER", u, op("MINUS", v, Lift(1, k - 1))))))
  IN  IF k = 0 THEN Apply2(code, x, y) ELSE <<op(code, u, v), d>>

(* The jet of a term when its nulary terms have the jets V.                 *)
RECURSIVE TermJet(_, _, _, _)
TermJet(T, k, V, t) ==
  LET op == Op(T, t)
  IN  CASE Nary(op) = 0 -> V[t]
        [] Nary(op) = 1 -> Jet1(k, op[1], TermJet(T, k, V, op[2]))
        [] OTHER -> Jet2(k, op[1], TermJet(T, k, V, op[2]), TermJet(T, k, V, op[3]))

(* The jet of a syntax tree at a time on the path Y[name, time].            *)
RECURSIVE TreeJet(_, _, _, _)
TreeJet(k, Y, ast, time) ==
  CASE ast[1] = "v" -> Y[ast[2], time + ast[3]]
    [] ast[1] = "c" -> Lift(ast[2], k)
    [] ast[1] = "u" -> Jet1(k, ast[2], TreeJet(k, Y, ast[3], time))
    [] ast[1] = "b" -> Jet2(k, ast[2], TreeJet(k, Y, ast[3], time), TreeJet(k, Y, ast[4], time))

-----------------------------------------------------------------------------
(* The path: parameters are constant, everything else is scattered.         *)
Times == (-9)..9

SourceNames(s) == s.endo \o s.exo \o s.param \o [f \in DOMAIN s.eqs |-> MULT(f)]

PathValue(s, n, time, seed) ==
  LET i == Position(SourceNames(s), n) + 2
      at == time + 11
  IN  IF n \in Elements(s.param) THEN 1 + ((seed * i) % (Prime - 1))
      ELSE (seed * i + at * (at + i * i) + at) % Prime

Path(s, seed) == [n \in Elements(SourceNames(s)), time \in Times |-> PathValue(s, n, time, seed)]

Seeds == {1, 2, 4}

(* The value of a term on a path, where a variable the front end added has  *)
(* the value its own equation gives it.                                     *)
RECURSIVE ValueOnPath(_, _, _, _)
ValueOnPath(M, Y, t, time) ==
  LET op == Op(M.T, t)
      n == M.indices[t]
      at == time + lead(M, t)
      def == CHOOSE f \in Elements(M.formulas) : Op(M.T, f)[1] = "MINUS" /\ Op(M.T, f)[2] = index(M, n, 0)
  IN  CASE Nary(op) = 2 -> Apply2(op[1], ValueOnPath(M, Y, op[2], time), ValueOnPath(M, Y, op[3], time))
        [] Nary(op) = 1 -> Apply1(op[1], ValueOnPath(M, Y, op[2], time))
        [] t < num_constants -> reset_all[t]
        [] is_constant(M, t) -> M.consts[t]
        [] <<n, 0>> \in DOMAIN Y -> Y[n, at]
        [] OTHER -> ValueOnPath(M, Y, Op(M.T, def)[3], at)

(* The derivative of the Lagrangian by variable y at time zero: the sum     *)
(* over time of the discounted objective and constraints.                   *)
LagrangianSlope(s, Y, y) ==
  LET Z == [p \in DOMAIN Y |-> <<Y[p], IF p = <<y, 0>> THEN 1 ELSE 0>>]
      beta == Y[s.discount, 0]
      disc(t) == IF t >= 0 THEN Power(beta, t) % Prime ELSE Power(Inverse(beta), -t) % Prime
      term(t) == Fold(LAMBDA a, f : Jet2(1, "PLUS", a,
                                         Jet2(1, "TIMES", Z[MULT(f), t], TreeJet(1, Z, s.eqs[f], t))),
                      TreeJet(1, Z, s.objective, t), [f \in DOMAIN s.eqs |-> f])
  IN  Fold(LAMBDA a, t : Apply2("PLUS", a, Apply2("TIMES", disc(t), term(t)[2])), 0, Lags(-3, 3))

-----------------------------------------------------------------------------
(* Every operation is one term, of earlier terms, and knows exactly the     *)
(* nulary terms it depends on, also after terms were made nulary in place   *)
(* (OperationTree::opmap, nul_incidence).                                   *)
TreeIsExact ==
  LET T == model.T
  IN  \A t \in 0..(Size(T) - 1) :
        LET op == Op(T, t)
            ops == {o \in {op[2], op[3]} : o # -1}
        IN  IF ops = {} THEN T.nul[t + 1] = {t} /\ t <= T.last
            ELSE /\ T.opmap[op] = t
                 /\ \A o \in ops : o < t
                 /\ T.nul[t + 1] = UNION {T.nul[o + 1] : o \in ops}

(* The two maps of the atoms are inverse to each other and their span is    *)
(* exact, through all the moves of atoms between names                      *)
(* (DynamicAtoms::vars, indices, minlag, maxlead).                          *)
AtomsAreConsistent ==
  LET M == model
      lls == UNION {DOMAIN M.vars[n] : n \in DOMAIN M.vars}
  IN  /\ \A n \in DOMAIN M.vars : /\ M.vars[n] # <<>>
                                  /\ \A ll \in DOMAIN M.vars[n] : M.indices[M.vars[n][ll]] = n
      /\ \A t \in DOMAIN M.indices : \E ll \in DOMAIN M.vars[M.indices[t]] : M.vars[M.indices[t]][ll] = t
      /\ M.minlag = MinOf(lls, Huge)
      /\ M.maxlead = MaxOf(lls, -Huge)

(* After every transformation the equations of the file have the value the  *)
(* file gives them on any path on which the auxiliary equations hold        *)
(* (ForwSubstBuilder, AtomSubstitutions, simplification in the tree).       *)
EquationsMeanTheSame ==
  phase \in {"parsed", "planned", "forward", "ordered", "done"} /\ model.err = "none" =>
    \A seed \in Seeds : \A i \in DOMAIN Source.eqs :
      LET Y == Path(Source, seed)
          ref == TreeJet(0, Y, Source.eqs[i], 0)
      IN  ref # NaN => ValueOnPath(model, Y, model.formulas[i], 0) = ref

(* The planner's equations are the derivatives of the Lagrangian: each      *)
(* lead and lag with its discount factor and with its multiplier at the     *)
(* right time (PlannerBuilder), also once the long lags are substituted.    *)
FirstOrderConditions ==
  phase \in {"planned", "ordered"} /\ model.err = "none" /\ Source.objective # <<>> =>
    \A seed \in Seeds : \A i \in DOMAIN Source.endo :
      LET Y == Path(Source, seed)
          ref == LagrangianSlope(Source, Y, Source.endo[i])
      IN  ref # NaN => ValueOnPath(model, Y, model.formulas[Len(Source.eqs) + i], 0) = ref

(* A source with as many equations as variables (or a planner), declared    *)
(* names and a variance matrix of the right size passes check_model: the    *)
(* substitutions leave no long lead or lag, no shifted exogenous variable   *)
(* and no atom without a name.                                              *)
GoodModelsPassTheCheck ==
  phase = "refused" => Source.bad

(* Every derivative by the atoms, of each order, is the derivative of the   *)
(* equation, and the ones not stored are zero (FormulaDerivatives,          *)
(* OperationTree::add_derivative with its maps).                            *)
DerivativesAreRight ==
  phase = "done" =>
    LET vs == work.ord.der_atoms
        n == Len(vs)
        nuls == {t \in 0..(Size(model.T) - 1) : Nary(Op(model.T, t)) = 0}
        val(seed) == [t \in nuls |-> IF is_constant(model, t) THEN (model.consts @@ reset_all)[t]
                                     ELSE (seed * (t + 2) + t * t) % Prime]
        jets1(V, j) == [t \in nuls |-> <<V[t], IF t = vs[j] THEN 1 ELSE 0>>]
        jets2(V, j, k) == [t \in nuls |-> <<jets1(V, k)[t], <<IF t = vs[j] THEN 1 ELSE 0, 0>>>>]
        by(V, i, mi) == eval(model.T, V, derivative(work.ders[i], mi)).v
    IN  \A seed \in Seeds : \A i \in DOMAIN model.formulas :
          LET V == val(seed)
          IN  \A j \in 1..n :
                /\ LET r == TermJet(model.T, 1, jets1(V, j), model.formulas[i])[2]
                   IN  r # NaN => by(V, i, <<j - 1>>) = r
                /\ Order > 1 => \A k \in j..n :
                     LET r == TermJet(model.T, 2, jets2(V, j, k), model.formulas[i])[2][2]
                     IN  r # NaN => by(V, i, <<j - 1, k - 1>>) = r

(* The column a derivative is stored in is the entry of the stacked vector  *)
(* (leads, current values, lags, shocks) the atom takes its value from, and *)
(* that entry is the atom's variable in the internal order                  *)
(* (get_pos_of_all, DynareAtomValues::setValues, calcDerivatives).  A model *)
(* without exogenous variables is left out: make_internal_orderings makes   *)
(* no ordering of them, so it has no atoms to differentiate by at all.      *)
ColumnsMatchTheVector ==
  phase = "done" /\ model.exovars # <<>> =>
    LET o == work.ord.eo
        name(k) == model.endovars[o.y2outer[k] + 1]
        ny == Len(model.endovars)
        yy == [k \in 1..ny |-> <<name(k), 0>>]
        yym == [k \in 1..(o.npred + o.nboth) |-> <<name(o.nstat + k), -1>>]
        yyp == [k \in 1..(o.nboth + o.nforw) |-> <<name(o.nstat + o.npred + k), 1>>]
        xx == [k \in DOMAIN model.exovars |-> <<model.exovars[k], 0>>]
        pv == [k \in DOMAIN model.params |-> <<model.params[k], 0>>]
        stack == yyp \o yy \o yym \o xx
        V == setValues(model, work.ord, pv, yym, yy, yyp, xx)
    IN  /\ \A t \in DOMAIN model.indices : V[t] = <<model.indices[t], lead(model, t)>>
        /\ \A t \in Elements(work.ord.der_atoms) : stack[get_pos_of_all(work.ord, t) + 1] = V[t]
        /\ \A t \in DOMAIN model.indices : (\E f \in Elements(model.formulas) :
                                               t \in nulary_of_term(model.T, f))
             => t \in Elements(work.ord.der_atoms) \/ model.indices[t] \in Elements(model.params)

(* The residuals and the Jacobian the steady-state solver gets are those of *)
(* the equations with every lead and lag of a variable at its steady value  *)
(* (evaluateSystem, DynareJacobian, FormulaCustomEvaluator with the values  *)
(* it keeps between the equations).                                         *)
JacobianIsOfTheSteadySystem ==
  phase = "evaluated" =>
    LET y == work.steady
        name(k) == model.endovars[work.ord.eo.y2outer[k] + 1]
        nuls == {t \in 0..(Size(model.T) - 1) : Nary(Op(model.T, t)) = 0}
        V == SteadyValues(model, work.ord, ParamValues(model, Source), y)
        jets(k) == [t \in nuls \cap DOMAIN V |->
                      <<V[t], IF t \in DOMAIN model.indices /\ model.indices[t] = name(k) THEN 1 ELSE 0>>]
    IN  \A i \in DOMAIN model.formulas : \A k \in DOMAIN y :
          LET r == TermJet(model.T, 1, jets(k), model.formulas[i])
          IN  r[1] # NaN /\ r[2] # NaN => work.resid[i] = r[1] /\ work.jac[i][k] = r[2]

(* The multi-indices of an order, one after the other, have the offsets     *)
(* 0, 1, 2, ... and end after the last one (FoldMultiIndex::increment,      *)
(* offset, past_the_end), and the derivatives are stored in this order.     *)
OffsetsNumberTheIndices ==
  phase = "done" =>
    LET nv == Len(work.ord.der_atoms)
        count(k) == noverk[nv + k - 1, k]
        walk(k) == Fold(LAMBDA a, i : [mi |-> increment(a.mi, nv),
                                       ok |-> a.ok /\ ~past_the_end(a.mi, nv)
                                              /\ offset_recurse(a.mi, nv) = i],
                        [mi |-> [j \in 1..k |-> 0], ok |-> TRUE], UpTo(count(k)))
        sorted(d) == \A m, n \in DOMAIN d : m < n /\ Len(d[m][1]) = Len(d[n][1])
                       => offset_recurse(d[m][1], nv) < offset_recurse(d[n][1], nv)
    IN  nv \in 1..6 => /\ \A k \in 1..3 : walk(k).ok /\ past_the_end(walk(k).mi, nv)
                       /\ \A i \in DOMAIN work.ders : sorted(work.ders[i])

(* The generated functions assign every term once, after its operands, and  *)
(* have every term and atom they use (ModelSSWriter, MatlabSSWriter).       *)
ProgramsAreWellFormed ==
  phase = "done" /\ (\A n \in Elements(model.endovars) : is_referenced(model, n)) =>
    LET known == write_atom_assignment(model)
        good(p) == \A k \in DOMAIN p :
                     LET op == Op(model.T, p[k])
                     IN  /\ \A j \in 1..(k - 1) : p[j] # p[k]
                         /\ \A o \in {o \in {op[2], op[3]} : o # -1} :
                              IF Nary(Op(model.T, o)) = 0 THEN o \in known
                              ELSE \E j \in 1..(k - 1) : p[j] = o
                         /\ Nary(op) = 0 => p[k] \in known
        der1 == {derivative(work.ders[i], <<j>>) : i \in DOMAIN work.ders,
                                                  j \in Elements(EndoAtoms(model, work.ord))}
    IN  /\ good(write_der0(model)) /\ Elements(model.formulas) \subseteq Elements(write_der0(model))
        /\ good(write_der1(model, work))
        /\ der1 \ {zero} \subseteq Elements(write_der1(model, work))

(* The value of the tokens of an expression under the grammar of formula.yy *)
(* (precedences of + and -, * and /, the unary minus, ^), from position at. *)
Precedence == [PLUS |-> 1, MINUS |-> 1, TIMES |-> 2, DIVIDE |-> 2, UMINUS |-> 3, POWER |-> 4]

RECURSIVE Read(_, _, _, _)
Read(V, ts, at, least) ==
  LET tok == ts[at][1]
      inner(from, p) == Read(V, ts, from, p)
      prefix == CASE tok = "n" -> [v |-> V[ts[at][2]], at |-> at + 1]
                  [] tok = "(" -> [inner(at + 1, 1) EXCEPT !.at = @ + 1]
                  [] tok = "UMINUS" -> [inner(at + 1, 3) EXCEPT !.v = Apply1("UMINUS", @)]
                  [] OTHER -> [inner(at + 2, 1) EXCEPT !.v = Apply1(tok, @), !.at = @ + 1]
      RECURSIVE infix(_)
      infix(l) == IF l.at > Len(ts) THEN l
                  ELSE LET c == ts[l.at][1]
                           p == IF c \in DOMAIN Precedence THEN Precedence[c] ELSE 0
                           r == inner(l.at + 1, IF c = "POWER" THEN p ELSE p + 1)
                       IN  IF p < least \/ p = 0 THEN l
                           ELSE infix([v |-> Apply2(c, l.v, r.v), at |-> r.at])
  IN  infix(prefix)

(* No part of t is a power of a negated term: the dump writes -(x) ^ y for  *)
(* it, which formula.yy reads as the negation of a power.                   *)
RECURSIVE NoPowerOfNegation(_, _)
NoPowerOfNegation(T, t) ==
  LET op == Op(T, t)
  IN  /\ op[1] = "POWER" => Op(T, op[2])[1] # "UMINUS"
      /\ \A o \in {o \in {op[2], op[3]} : o # -1} : NoPowerOfNegation(T, o)

(* An equation of the dumped model file, read again by the parser, has the  *)
(* value of the equation (OperationStringConvertor::convert, dump_model).   *)
DumpReadsBack ==
  phase \in {"ordered", "done"} =>
    \A f \in Elements(model.formulas) : NoPowerOfNegation(model.T, f) =>
      LET V == [t \in nulary_of_term(model.T, f) |->
                  IF is_constant(model, t) THEN (model.consts @@ reset_all)[t]
                  ELSE (3 * t + t * t) % Prime]
          v == eval(model.T, V @@ reset_all, f).v
      IN  v # NaN => Read(V, convert(model.T, f), 1, 1).v \in {v, NaN}

(* A variable the front end added starts where its own equation puts it,    *)
(* given the initial values of the others; for a forward auxiliary whose    *)
(* definition uses another one this does not hold (calc_init evaluates all  *)
(* of them with the values known before).                                   *)
AuxiliariesStartAtTheirValue ==
  phase = "initialized" /\ work.init # <<>> =>
    LET pv == ParamValues(model, Source)
        V == SteadyValues(model, work.ord, pv, work.init)
        start(n) == V[index(model, n, 0)]
        def(n) == CHOOSE f \in Elements(model.formulas) :
                    Op(model.T, f)[1] = "MINUS" /\ Op(model.T, f)[2] = index(model, n, 0)
        fwd == {index(model, n, ll) : n \in DOMAIN work.fwd, ll \in -1..1}
    IN  \A n \in Elements(model.endovars) \ Elements(SourceNames(Source)) :
          LET v == eval(model.T, V, Op(model.T, def(n))[3]).v
          IN  v # NaN /\ (n \in DOMAIN work.fwd => nulary_of_term(model.T, work.fwd[n]) \cap fwd = {})
              => start(n) = v

(* Every number of a matrix is at its row and column, the rest of a short   *)
(* row is zero (MatrixParser, MPIterator, ParsedMatrix).                    *)
MatrixIsAsWritten ==
  phase = "initialized" =>
    LET rows == SelectSeq(Source.vcov, LAMBDA r : r # <<>>)
    IN  \A r \in DOMAIN work.vcov : \A c \in DOMAIN work.vcov[r] :
          work.vcov[r][c] = IF c <= Len(rows[r]) THEN rows[r][c] ELSE 0

(* The system MultInitSS solves for the multipliers is the planner's        *)
(* conditions at the steady state: their constant part and the coefficient  *)
(* of each multiplier, summed over leads and lags.                          *)
MultiplierSystemIsTheConditions ==
  phase = "initialized" /\ work.init # <<>> /\ Source.objective # <<>> =>
    LET fs == DOMAIN Source.eqs
        steady == [n \in Elements(Source.endo) |-> PathValue(Source, n, 0, 1)]
                  @@ [n \in Elements(Source.exo) |-> 0]
                  @@ [n \in Elements(Source.param) |-> Source.pvals[Position(Source.param, n) + 1]]
        Y(lambda) == [n \in Elements(SourceNames(Source)), time \in Times |->
                        IF n \in DOMAIN steady THEN steady[n] ELSE lambda[n[2] + 1]]
        y0 == [k \in DOMAIN work.init |->
                 LET n == model.endovars[work.ord.eo.y2outer[k] + 1]
                 IN  IF n \in DOMAIN steady THEN steady[n]
                     ELSE ValueOnPath(model, Y([f \in fs |-> 0]), index(model, n, 0), 0)]
        at == StaticSums(model, work.ord, work.static, ParamValues(model, Source), y0)
    IN  \A i \in DOMAIN Source.endo : \A lambda \in {[f \in fs |-> 0], [f \in fs |-> f + 1]} :
          LET ref == LagrangianSlope(Source, Y(lambda), Source.endo[i])
              row == Fold(LAMBDA a, f : Apply2("PLUS", a, Apply2("TIMES", at.F[i, f], lambda[f])),
                          at.b[i], [f \in fs |-> f])
          IN  ref # NaN => row = ref

(* From parsing to the check (DynareModel), through the planner's           *)
(* conditions and the substitutions of long leads and lags: the equations   *)
(* mean what the source says, the added ones are the first-order            *)
(* conditions, auxiliary variables start at the value they stand for, and a *)
(* good model is not refused.                                               *)
ModelMeansItsSource ==
  /\ EquationsMeanTheSame
  /\ FirstOrderConditions
  /\ MultiplierSystemIsTheConditions
  /\ AuxiliariesStartAtTheirValue
  /\ GoodModelsPassTheCheck

(* Derivatives taken symbolically on shared trees with cached results are   *)
(* the derivatives, are stored under the offset of their multi-index, and   *)
(* dynare3.cc reads each from the column of its variable.                   *)
DerivativesReachTheirUsers ==
  /\ DerivativesAreRight
  /\ OffsetsNumberTheIndices
  /\ ColumnsMatchTheVector
  /\ JacobianIsOfTheSteadySystem

(* Trees, atoms and what is printed of them stay consistent in long         *)
(* sequences of substitutions: the caches of OperationTree are exact, the   *)
(* maps of the atoms agree, the generated programs compute each term before *)
(* it is used, and a dump or a matrix reads back as it was.                 *)
FormulasAreConsistent ==
  /\ TreeIsExact
  /\ AtomsAreConsistent
  /\ ProgramsAreWellFormed
  /\ DumpReadsBack
  /\ MatrixIsAsWritten
============================================================================

---------------------------- MODULE DynareModel ----------------------------
(***************************************************************************)
(* What Dynare++ makes of a model file (src/dynare_model.cc): the equations *)
(* are parsed; the first-order conditions of a planner are added            *)
(* (planner_builder.cc); nonlinear terms with long leads and then long lags *)
(* are replaced by auxiliary variables (forw_subst_builder.cc,              *)
(* atom_substitutions.cc); initial values are found; the model is checked,  *)
(* differentiated and evaluated (dynare3.cc, dynare_atoms.cc).              *)
(*                                                                          *)
(* A source is a record of the declared names, the equations as syntax      *)
(* trees, the planner's objective and discount (<<>> for none), the initial *)
(* values and the variance matrix.                                          *)
(***************************************************************************)
EXTENDS FormulaParser

CONSTANTS Sources, Order

VARIABLES src, phase, model, work

vars == <<src, phase, model, work>>

Source == Sources[src]

(* What is built beside the model: the planner's terms and the definitions  *)
(* of its auxiliary variables (aux), those of the forward substitution      *)
(* (fwd), the substitutions of lags (S), the orderings, initial values and  *)
(* derivatives.                                                             *)
NoWork == [tb |-> -1, tbeta |-> -1, aux |-> <<>>, static |-> <<>>, fwd |-> <<>>,
           S |-> <<>>, ord |-> <<>>, init |-> <<>>, vcov |-> <<>>, ders |-> <<>>,
           steady |-> <<>>, resid |-> <<>>, jac |-> <<>>]

Declared(s) ==
  LET add(M, names, kind) == Fold(LAMBDA a, n : register_uniq(a, kind, n), M, names)
  IN  add(add(add(NoModel, s.endo, "endo"), s.exo, "exo"), s.param, "param")

(* The equations, then the objective, which is popped from the formulas,    *)
(* and the discount factor, which must be a parameter.                      *)
ParsedSource(s) ==
  LET M1 == Fold(LAMBDA M, e : LET r == parse(M, e) IN add_formula(r.M, r.t), Declared(s), s.eqs)
      b == parse(M1, s.objective)
      d == atom(b.M, s.discount, 0)
  IN  IF s.objective = <<>> THEN [M |-> M1, tb |-> -1, tbeta |-> -1]
      ELSE IF s.discount \notin Elements(s.param)
      THEN [M |-> Failed(b.M, "not a parameter"), tb |-> b.t, tbeta |-> -1]
      ELSE [M |-> d.M, tb |-> b.t, tbeta |-> d.t]

IsVariable(M, name) == name \in Elements(M.endovars) \cup Elements(M.exovars)

(* variable_shift_map: the atoms of the variables of a set, shifted.        *)
variable_shift_map(M, set, shift) ==
  LET shifted == SelectSeq(Listed(set), LAMBDA t : ~is_constant(M, t) /\ IsVariable(M, M.indices[t]))
      one_atom(a, t) == LET r == atom(a.M, a.M.indices[t], lead(a.M, t) + shift)
                        IN  [M |-> r.M, s |-> (t :> r.t) @@ a.s]
  IN  Fold(one_atom, [M |-> M, s |-> <<>>], shifted)

(* A term with its variables shifted.                                       *)
Shifted(M, t, shift) ==
  LET m == variable_shift_map(M, nulary_of_term(M.T, t), shift)
  IN  With(m.M, add_substitution(m.M.T, t, m.s, m.M.T))

termspan(M, t) ==
  LET atoms == {k \in nulary_of_term(M.T, t) : ~is_constant(M, k) /\ IsVariable(M, M.indices[k])}
      lls == {lead(M, k) : k \in atoms}
  IN  [lead |-> MaxOf(lls, -Huge), lag |-> MinOf(lls, Huge)]

is_constant_term(M, t) ==
  \A k \in nulary_of_term(M.T, t) : is_constant(M, k) \/ M.indices[k] \in Elements(M.params)

(* NLSelector: a variable or an operation that is not linear.               *)
NLSelector(M, t) ==
  LET op == Op(M.T, t)
  IN  /\ ~is_constant_term(M, t)
      /\ op[1] \notin {"UMINUS", "PLUS", "MINUS"}
      /\ op[1] = "TIMES" => ~is_constant_term(M, op[2]) /\ ~is_constant_term(M, op[3])
      /\ op[1] = "POWER" => {op[2], op[3]} \cap {zero, one} = {}

(* substitute_atom_for_term: t becomes the atom name(ll).                   *)
substitute_atom_for_term(M, name, ll, t) ==
  LET M1 == IF is_named_atom(M, t) THEN unassign_variable(M, M.indices[t], lead(M, t), t) ELSE M
      M2 == assign_variable(M1, name, ll, t)
  IN  [M2 EXCEPT !.T = nularify(@, t)]

-----------------------------------------------------------------------------
(* PlannerBuilder.  The derivatives of the objective b and of equation fi   *)
(* by variable yi at lead ll; only lags of the objective count.             *)
Lags(lo, hi) == [k \in 1..(hi - lo + 1) |-> lo + k - 1]

KeysB(ny, lo, hi) == Flat([y \in 1..ny |-> [k \in 1..(hi - lo + 1) |-> <<y, lo + k - 1>>]])

KeysF(ny, nf, lo, hi) ==
  Flat([y \in 1..ny |-> Flat([f \in 1..nf |-> [k \in 1..(hi - lo + 1) |-> <<y, f, lo + k - 1>>]])])

(* The table d with the entry at k set to term r.t.  A key is <<y, ll>> for *)
(* the objective (diff_b) and <<y, f, ll>> for an equation (diff_f).        *)
Put(a, k, r) == [a EXCEPT !.M = r.M, !.d = (k :> r.t) @@ @]

DerivativeBy(M, t, name, ll) ==
  IF index(M, name, ll) = -1 THEN [t |-> zero, M |-> M]
  ELSE With(M, add_derivative(M.T, t, index(M, name, ll)))

add_derivatives_of_b(a0, tb, ys, lo) ==
  Fold(LAMBDA a, k : Put(a, k, DerivativeBy(a.M, tb, ys[k[1]], k[2])), a0, KeysB(Len(ys), lo, 0))

add_derivatives_of_f(a0, ys, nf, lo, hi) ==
  Fold(LAMBDA a, k : Put(a, k, DerivativeBy(a.M, a.M.formulas[k[2]], ys[k[1]], k[3])), a0,
       KeysF(Len(ys), nf, lo, hi))

shift_derivatives_of_b(a, ny, lo) ==
  Fold(LAMBDA c, k : IF c.d[k] = zero THEN c ELSE Put(c, k, Shifted(c.M, c.d[k], -k[2])),
       a, KeysB(ny, lo, -1))

(* Derivatives by leads move back.  Those by lags move forward, and one     *)
(* that has leads already is put into an auxiliary variable first.          *)
shift_derivatives_of_f(a, ny, nf, lo, hi) ==
  LET by_key(c, k) ==
        LET ft == c.d[k]
            name == <<"AUX", k[1] - 1, k[2] - 1, -k[3]>>
            aux == atom(register_uniq(c.M, "endo", name), name, 0)
            leaded == atom(aux.M, name, -k[3])
        IN  IF ft = zero THEN c
            ELSE IF k[3] < 0 /\ termspan(c.M, ft).lead > 0
            THEN Put([c EXCEPT !.aux = (name :> ft) @@ @], k, leaded)
            ELSE Put(c, k, Shifted(c.M, ft, -k[3]))
      pair(y, f) == [k \in 1..(hi + 1) |-> <<y, f, k - 1>>] \o [k \in 1..(-lo) |-> <<y, f, lo + k - 1>>]
      keys == Flat([y \in 1..ny |-> Flat([f \in 1..nf |-> pair(y, f)])])
  IN  Fold(by_key, a, keys)

(* The powers of the discount factor: those of lags, and one over those of  *)
(* leads.                                                                   *)
BetaPower(M, tbeta, code, n) ==
  Fold(LAMBDA r, k : With(r.M, add_binary(r.M.T, code, r.t, tbeta)), [t |-> one, M |-> M], UpTo(n))

BetaMultiplied(a, tbeta, keys) ==
  LET at(k) == k[Len(k)]
      by_key(c, k) ==
        LET p == IF at(k) > 0 THEN BetaPower(c.M, tbeta, "DIVIDE", at(k))
                 ELSE BetaPower(c.M, tbeta, "TIMES", -at(k))
        IN  IF c.d[k] = zero THEN c
            ELSE Put(c, k, With(p.M, add_binary(p.M.T, "TIMES", p.t, c.d[k])))
  IN  Fold(by_key, a, keys)

MULT(f) == <<"MULT", f - 1>>

lagrange_mult_f(a, nf, keys) ==
  LET M1 == Fold(LAMBDA M, f : register_uniq(M, "endo", MULT(f + 1)), a.M, UpTo(nf))
      by_key(c, k) ==
        LET m == atom(c.M, MULT(k[2]), -k[3])
        IN  IF c.d[k] = zero THEN c
            ELSE Put(c, k, With(m.M, add_binary(m.M.T, "TIMES", m.t, c.d[k])))
  IN  Fold(by_key, [a EXCEPT !.M = M1], keys)

(* One equation per variable, the sum of its derivatives, and one per       *)
(* auxiliary variable.                                                      *)
form_equations(a, ny, nf, lo, hi) ==
  LET terms(y) == [k \in 1..(1 - lo) |-> a.d[<<y, lo + k - 1>>]]
                  \o Flat([f \in 1..nf |-> [k \in 1..(hi - lo + 1) |-> a.d[<<y, f, lo + k - 1>>]]])
      eq(MM, y) == LET r == Fold(LAMBDA s, t : With(s.M, add_binary(s.M.T, "PLUS", s.t, t)),
                                 [t |-> zero, M |-> MM], terms(y))
                   IN  add_formula(r.M, r.t)
      M1 == Fold(LAMBDA MM, y : eq(MM, y + 1), a.M, UpTo(ny))
  IN  Fold(LAMBDA MM, n : MinusFormula(MM, index(MM, n, 0), a.aux[n]), M1, Listed(DOMAIN a.aux))

(* make_static_version: the terms with every lead and lag of a name one     *)
(* atom, in a tree of their own.                                            *)
make_static_version(a) ==
  LET M == a.M
      news == Listed(DOMAIN M.consts \cup {})
      names == M.endovars \o M.exovars \o M.params
      T0 == Fold(LAMBDA T, k : add_nulary(T).T, NewTree, UpTo(Len(news) + Len(names)))
      at(k) == num_constants + k - 1
      tmap == [t \in DOMAIN M.consts |-> at(Position(news, t) + 1)]
              @@ [t \in DOMAIN M.indices |-> at(Len(news) + Position(names, M.indices[t]) + 1)]
      put(c, k, r) == [T |-> r.T, d |-> (k :> r.t) @@ c.d]
      terms == a.d @@ a.aux
      into(c, k) == put(c, k, add_substitution(c.T, terms[k], tmap, M.T))
      order == Listed({k \in DOMAIN a.d : Len(k) = 2}) \o Listed({k \in DOMAIN a.d : Len(k) = 3})
               \o Listed(DOMAIN a.aux)
      all == Fold(into, [T |-> T0, d |-> <<>>], order)
  IN  [T |-> all.T, d |-> [k \in DOMAIN a.d |-> all.d[k]], aux |-> [k \in DOMAIN a.aux |-> all.d[k]],
       consts |-> [t \in {tmap[c] : c \in DOMAIN M.consts} |->
                     M.consts[CHOOSE c \in DOMAIN M.consts : tmap[c] = t]],
       names |-> [n \in Elements(names) |-> at(Len(news) + Position(names, n) + 1)]]

(* The constructor: every endogenous variable and every equation takes part.*)
PlannerBuilder(M, tb, tbeta) ==
  LET ys == M.endovars
      ny == Len(ys)
      nf == Len(M.formulas)
      lo == M.minlag
      hi == M.maxlead
      differentiated == add_derivatives_of_f(
                          add_derivatives_of_b([M |-> M, d |-> <<>>, aux |-> <<>>], tb, ys, lo),
                          ys, nf, lo, hi)
      shifted == shift_derivatives_of_f(shift_derivatives_of_b(differentiated, ny, lo), ny, nf, lo, hi)
      discounted == BetaMultiplied(BetaMultiplied(shifted, tbeta, KeysB(ny, lo, 0)), tbeta,
                                   KeysF(ny, nf, lo, hi))
      finished(a) == [M |-> form_equations(lagrange_mult_f(a, nf, KeysF(ny, nf, lo, hi)), ny, nf, lo, hi),
                      aux |-> a.aux, static |-> make_static_version(a)]
  IN  finished(discounted)

-----------------------------------------------------------------------------
(* ForwSubstBuilder.  Term t of equation i with leads beyond one: auxiliary *)
(* variables 1, ..., lead - 1, the first the term shifted to lead one, each *)
(* the next one the lead of the one before; t becomes the lead of the last. *)
M_substitute_for_term(a, t, i, j) ==
  LET s == termspan(a.M, t)
      name == <<"AUXLD", i, j, 1>>
      lag == Shifted(a.M, t, 1 - s.lead)
      aux == atom(register_uniq(lag.M, "endo", name), name, 0)
      M1 == MinusFormula(aux.M, aux.t, lag.t)
  IN  IF s.lead <= 1 THEN a
      ELSE [M |-> substitute_atom_for_term(M1, name, 1, t), fwd |-> (name :> lag.t) @@ a.fwd]

substitute_for_term(a, t, i, j) ==
  LET s == termspan(a.M, t)
      name(ll) == <<"AUXLD", i, j, ll>>
      lag == Shifted(a.M, t, 1 - s.lead)
      first == atom(register_uniq(lag.M, "endo", name(1)), name(1), 0)
      M1 == MinusFormula(first.M, first.t, lag.t)
      next(M, k) == LET ll == k + 1
                        up == atom(M, name(ll), 1)
                        new == atom(register_uniq(up.M, "endo", name(ll + 1)), name(ll + 1), 0)
                    IN  MinusFormula(new.M, new.t, up.t)
      M2 == Fold(next, M1, UpTo(s.lead - 2))
  IN  IF s.lead <= 1 THEN a
      ELSE [M |-> substitute_atom_for_term(M2, name(s.lead - 1), 1, t),
            fwd |-> [n \in {name(ll) : ll \in 1..(s.lead - 1)} |-> lag.t] @@ a.fwd]

unassign_gt_1_leads(M) ==
  LET leads == {<<n, ll>> \in (DOMAIN M.vars) \X (2..MaxOf({M.maxlead}, 0)) :
                  n \in Elements(M.endovars) \cup Elements(M.exovars) /\ index(M, n, ll) # -1}
  IN  Fold(LAMBDA MM, p : unassign_variable(MM, p[1], p[2], index(MM, p[1], p[2])), M, Listed(leads))

ForwSubstBuilder(M) ==
  LET neq == Len(M.formulas)
      equation(a, i) ==
        LET ft == a.M.formulas[i + 1]
            nlt == Listed(select_terms(a.M.T, ft, LAMBDA t : NLSelector(a.M, t)))
        IN  IF termspan(a.M, ft).lead <= 1 THEN a
            ELSE Fold(LAMBDA c, j : substitute_for_term(c, nlt[j + 1], i, j), a, UpTo(Len(nlt)))
      forgotten(MM) == [MM EXCEPT !.T = forget_derivative_maps(@)]
      finished(a) == [M |-> forgotten(unassign_gt_1_leads(a.M)), fwd |-> a.fwd]
  IN  finished(Fold(equation, [M |-> M, fwd |-> <<>>], UpTo(neq)))

-----------------------------------------------------------------------------
(* DynareAtomValues: the values of the atoms from vectors in the internal   *)
(* order: yym holds the lagged states, yyp the leads of forward variables.  *)
setValues(M, ord, pv, yym, yy, yyp, xx) ==
  LET value(t) ==
        LET n == M.indices[t]
            ll == lead(M, t)
            i == outer2y(ord.eo, Len(M.endovars))[Position(M.endovars, n) + 1]
            x == outer2y(ord.xo, Len(M.exovars))[Position(M.exovars, n) + 1]
        IN  CASE n \in Elements(M.params) -> pv[Position(M.params, n) + 1]
              [] n \in Elements(M.exovars) -> xx[x + 1]
              [] ll = -1 -> yym[i - ord.eo.nstat + 1]
              [] ll = 0 -> yy[i + 1]
              [] OTHER -> yyp[i - ord.eo.nstat - ord.eo.npred + 1]
  IN  [t \in DOMAIN M.indices |-> value(t)] @@ M.consts @@ reset_all

(* DynareSteadyAtomValues: every lead and lag of y has y's value.           *)
SteadyValues(M, ord, pv, y) ==
  LET o == ord.eo
  IN  setValues(M, ord, pv, SubSeq(y, o.nstat + 1, o.nstat + o.npred + o.nboth), y,
                SubSeq(y, o.nstat + o.npred + 1, Len(y)), [k \in DOMAIN M.exovars |-> 0])

(* calc_params and calc_init.  The values of the parameters are those of    *)
(* their assignments; the endogenous variables have theirs, and auxiliary   *)
(* ones those of the substitution that made them.                           *)
ParamValues(M, s) == [k \in DOMAIN M.params |-> s.pvals[Position(s.param, M.params[k]) + 1]]

InitAssignments(s, S) ==
  apply_subst(Fold(LAMBDA A, p : add_assignment(A, p[1], p[2]), NoAssignments, s.initval), S)

(* Values of finite entries are kept, the others are set.                   *)
Fill(M, ord, y, name, v) ==
  LET i == outer2y(ord.eo, Len(M.endovars))[Position(M.endovars, name) + 1] + 1
  IN  IF y[i] = NaN THEN [y EXCEPT ![i] = v] ELSE y

(* DynareStaticSteadyAtomValues.                                            *)
StaticValues(M, ord, st, pv, y) ==
  LET value(n) == CASE n \in Elements(M.params) -> pv[Position(M.params, n) + 1]
                    [] n \in Elements(M.exovars) -> 0
                    [] OTHER -> y[outer2y(ord.eo, Len(M.endovars))[Position(M.endovars, n) + 1] + 1]
  IN  [t \in {st.names[n] : n \in DOMAIN st.names} |->
         value(CHOOSE n \in DOMAIN st.names : st.names[n] = t)] @@ st.consts @@ reset_all

(* MultInitSS: the planner's auxiliary variables, the sums over the leads   *)
(* of the static derivatives, and the multipliers from their least-squares  *)
(* solution, which is any number here; also for the substitutes of a        *)
(* multiplier.                                                              *)
StaticSums(M, ord, st, pv, y) ==
  LET E == StaticValues(M, ord, st, pv, y)
      sum(ks) == Fold(LAMBDA a, k : Apply2("PLUS", a, eval(st.T, E, st.d[k]).v), 0, Listed(ks))
      bs == {k \in DOMAIN st.d : Len(k) = 2}
      fs == {k \in DOMAIN st.d : Len(k) = 3}
      ys == {k[1] : k \in bs}
  IN  [b |-> [i \in ys |-> sum({k \in bs : k[1] = i})],
       F |-> [i \in ys, f \in {k[2] : k \in fs} |-> sum({k \in fs : k[1] = i /\ k[2] = f})]]

SteadySubstitution(M, ord, T, E, map, y) ==
  Fold(LAMBDA a, n : Fill(M, ord, a, n, eval(T, E, map[n]).v), y, Listed(DOMAIN map))

calc_init(M, w, s, lambda) ==
  LET ord == w.ord
      pv == ParamValues(M, s)
      user == [n \in Elements(s.param) |-> s.pvals[Position(s.param, n) + 1]]
              @@ [n \in Elements(s.exo) |-> 0]
      values(A) == LET vs == EvalAssignments(A, user)
                   IN  [k \in DOMAIN M.endovars |-> get_value(A, vs, M.endovars[ord.eo.y2outer[k] + 1])]
      mults == {MULT(f) : f \in DOMAIN s.eqs}
      names == mults \cup {p[1] : p \in UNION {w.S[n] : n \in mults \cap DOMAIN w.S}}
      with_aux(y) == SteadySubstitution(M, ord, w.static.T, StaticValues(M, ord, w.static, pv, y),
                                        w.static.aux, y)
      with_mults(y) == IF s.objective = <<>> THEN y
                       ELSE Fold(LAMBDA a, n : Fill(M, ord, a, n, lambda), with_aux(y), Listed(names))
      with_forw(y) == SteadySubstitution(M, ord, M.T, SteadyValues(M, ord, pv, y), w.fwd, y)
  IN  with_forw(with_mults(values(InitAssignments(s, w.S))))

(* check_model: the first thing that is wrong.                              *)
check_model(M, vcov) ==
  LET e == endovarspan(M)
      x == exovarspan(M)
      nuls == UNION {nulary_of_term(M.T, f) : f \in Elements(M.formulas)}
  IN  CASE Len(M.endovars) # Len(M.formulas) -> "equations"
        [] \E t \in nuls : ~is_constant(M, t) /\ ~is_named_atom(M, t) -> "dangling"
        [] M.exovars # <<>> /\ (x.lead # 0 \/ x.lag # 0) -> "exogenous lead"
        [] e.lead > 1 \/ e.lag < -1 -> "long lead"
        [] Len(vcov) \notin {0, Len(M.exovars)} -> "vcov"
        [] OTHER -> "none"

-----------------------------------------------------------------------------
(* Dynare: the system and its Jacobian at a steady state y.                 *)
evaluateSystem(M, w, pv, y) == EvalAll(M.T, SteadyValues(M, w.ord, pv, y), M.formulas)

(* DynareJacobian::load: a derivative of an equation by an atom is added to *)
(* the column of the atom's variable; atoms of exogenous variables are left *)
(* out.                                                                     *)
JacobianColumn(o, j) ==
  LET nyss == o.nboth + o.nforw
      ny == Len(o.y2outer)
  IN  IF j < nyss THEN j + o.nstat + o.npred
      ELSE IF j < nyss + ny THEN j - nyss
      ELSE IF j < EndoLength(o) THEN j - nyss - ny + o.nstat ELSE -1

Jacobian(M, w, pv, y) ==
  LET all == EvalDerivatives(M.T, SteadyValues(M, w.ord, pv, y), w.ders, w.ord.der_atoms, 1)
      load(J, d) == LET c == JacobianColumn(w.ord.eo, get_pos_of_all(w.ord, d[2][1]))
                    IN  IF c = -1 THEN J ELSE [J EXCEPT ![d[1]][c + 1] = Apply2("PLUS", @, d[3])]
  IN  Fold(load, [i \in DOMAIN M.formulas |-> [c \in DOMAIN y |-> 0]], all)

-----------------------------------------------------------------------------
Init == /\ src \in DOMAIN Sources
        /\ phase = "start"
        /\ model = NoModel
        /\ work = NoWork

(* Phase from, when no error was met, to phase to.                          *)
Moves(from, to) == /\ phase = from
                   /\ model.err = "none"
                   /\ phase' = to
                   /\ UNCHANGED src

Parse ==
  /\ Moves("start", "parsed")
  /\ \E p \in {ParsedSource(Source)} :
       /\ model' = p.M
       /\ work' = [work EXCEPT !.tb = p.tb, !.tbeta = p.tbeta]

BuildPlanner ==
  /\ work.tb # -1
  /\ Moves("parsed", "planned")
  /\ \E b \in {PlannerBuilder(model, work.tb, work.tbeta)} :
       /\ model' = b.M
       /\ work' = [work EXCEPT !.aux = b.aux, !.static = b.static]

NoPlanner ==
  /\ work.tb = -1
  /\ Moves("parsed", "planned")
  /\ UNCHANGED <<model, work>>

BuildForwSubst ==
  /\ Moves("planned", "forward")
  /\ \E b \in {ForwSubstBuilder(model)} :
       /\ model' = b.M
       /\ work' = [work EXCEPT !.fwd = b.fwd]

SubstituteLags ==
  /\ Moves("forward", "ordered")
  /\ \E Y \in {substituteAllLagsAndExo1Leads(model)} :
       LET wrong == \E n \in Elements(Y.M.endovars) : KindOf(Y.M, n) = "wrong"
       IN  /\ model' = IF wrong THEN Failed(Y.M, "wrong lag") ELSE Y.M
           /\ work' = IF wrong THEN work ELSE [work EXCEPT !.S = Y.S, !.ord = Orderings(Y.M)]

(* An exogenous variable that occurs needs the ordering of make_internal_   *)
(* orderings.                                                               *)
CalcInit ==
  LET ordered == work.ord.endo /\ (work.ord.exo \/ Elements(model.exovars) \cap DOMAIN model.vars = {})
  IN  /\ Moves("ordered", "initialized")
      /\ \E lambda \in {2, NaN} :
           /\ lambda = NaN => Source.objective # <<>>
           /\ work' = [work EXCEPT !.init = IF ordered THEN calc_init(model, work, Source, lambda) ELSE @,
                                   !.vcov = ParsedMatrix(ParseMatrix(Source.vcov))]
      /\ model' = IF ordered THEN model ELSE Failed(model, "no ordering")

CheckModel ==
  /\ phase = "initialized"
  /\ model.err = "none"
  /\ LET e == check_model(model, work.vcov)
     IN  /\ model' = [model EXCEPT !.err = e]
         /\ phase' = IF e = "none" THEN "checked" ELSE "refused"
  /\ UNCHANGED <<src, work>>

Differentiate ==
  /\ Moves("checked", "done")
  /\ \E d \in {differentiate(model, work.ord.der_atoms, Order)} :
       /\ model' = [model EXCEPT !.T = d.T]
       /\ work' = [work EXCEPT !.ders = d.ders]

(* One evaluation of the nonlinear solver, at any point.                    *)
Evaluate ==
  /\ model.exovars # <<>>
  /\ Moves("done", "evaluated")
  /\ \E seed \in {1, 4} :
       LET y == [k \in DOMAIN model.endovars |-> (seed * (k + 1) + k * k) % Prime]
           pv == ParamValues(model, Source)
       IN  work' = [work EXCEPT !.steady = y, !.resid = evaluateSystem(model, work, pv, y),
                                !.jac = Jacobian(model, work, pv, y)]
  /\ UNCHANGED model

(* An exception of the parser.                                              *)
Refuse ==
  /\ phase # "refused"
  /\ model.err # "none"
  /\ phase' = "refused"
  /\ UNCHANGED <<src, model, work>>

Next == \/ Parse \/ BuildPlanner \/ NoPlanner \/ BuildForwSubst \/ SubstituteLags
        \/ CalcInit \/ CheckModel \/ Differentiate \/ Evaluate \/ Refuse

Spec == Init /\ [][Next]_vars
============================================================================

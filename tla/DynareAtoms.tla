---------------------------- MODULE DynareAtoms ----------------------------
(***************************************************************************)
(* The atoms of a Dynare++ model (parser/cc/dynamic_atoms, fine_atoms,      *)
(* atom_substitutions, static_atoms): which nulary term stands for which    *)
(* name at which lead or lag, the kinds of the names, the internal ordering *)
(* of the variables, and the replacement of long lags and leads by          *)
(* auxiliary variables.  A model M is one record: the tree T, the equations *)
(* formulas and the maps of the atoms.  A name is a tuple.                  *)
(***************************************************************************)
EXTENDS OperationTree

(* numeric_limits<int>::max(): the span of a name that does not occur.      *)
Huge == 1000

MaxOf(S, d) == IF S = {} THEN d ELSE CHOOSE x \in S : \A y \in S : y <= x

MinOf(S, d) == IF S = {} THEN d ELSE CHOOSE x \in S : \A y \in S : x <= y

Elements(s) == {s[k] : k \in DOMAIN s}

(* The position of x in s, from zero.                                       *)
Position(s, x) == (CHOOSE k \in DOMAIN s : s[k] = x) - 1

NoModel ==
  [T |-> NewTree, formulas |-> <<>>, consts |-> <<>>, vars |-> <<>>, indices |-> <<>>,
   endovars |-> <<>>, exovars |-> <<>>, params |-> <<>>, minlag |-> Huge, maxlead |-> -Huge,
   err |-> "none"]

varnames(M) == Elements(M.endovars) \cup Elements(M.exovars) \cup Elements(M.params)

Failed(M, what) == IF M.err = "none" THEN [M EXCEPT !.err = what] ELSE M

(* register_uniq_endo, register_uniq_exo, register_uniq_param.              *)
register_uniq(M, kind, name) ==
  IF name \in varnames(M) THEN Failed(M, "not unique")
  ELSE CASE kind = "endo" -> [M EXCEPT !.endovars = Append(@, name)]
         [] kind = "exo" -> [M EXCEPT !.exovars = Append(@, name)]
         [] kind = "param" -> [M EXCEPT !.params = Append(@, name)]

is_constant(M, t) == t < num_constants \/ t \in DOMAIN M.consts

is_named_atom(M, t) == t \in DOMAIN M.indices

is_referenced(M, name) == name \in DOMAIN M.vars

index(M, name, ll) ==
  IF is_referenced(M, name) /\ ll \in DOMAIN M.vars[name] THEN M.vars[name][ll] ELSE -1

lead(M, t) ==
  LET lmap == M.vars[M.indices[t]] IN CHOOSE ll \in DOMAIN lmap : lmap[ll] = t

(* The span of a set of names: the latest lead and the earliest lag.        *)
varspan(M, names) ==
  LET lls == UNION {DOMAIN M.vars[n] : n \in names \cap DOMAIN M.vars}
  IN  [lead |-> MaxOf(lls, -Huge), lag |-> MinOf(lls, Huge)]

endovarspan(M) == varspan(M, Elements(M.endovars))

exovarspan(M) == varspan(M, Elements(M.exovars))

assign_variable(M, name, ll, t) ==
  IF is_named_atom(M, t) \/ index(M, name, ll) # -1 THEN Failed(M, "already allocated")
  ELSE LET lmap == IF is_referenced(M, name) THEN M.vars[name] ELSE <<>>
       IN  [M EXCEPT !.vars = (name :> ((ll :> t) @@ lmap)) @@ @,
                     !.indices = (t :> name) @@ @,
                     !.minlag = MinOf({ll, @}, 0), !.maxlead = MaxOf({ll, @}, 0)]

(* The atom is dropped, and the name with its last atom; the span of all    *)
(* atoms is found again when the atom was at one end of it.                 *)
unassign_variable(M, name, ll, t) ==
  LET rest == [k \in DOMAIN M.vars[name] \ {ll} |-> M.vars[name][k]]
      gone == IF DOMAIN rest = {} THEN {name} ELSE {}
      vars == [n \in DOMAIN M.vars \ gone |-> IF n = name THEN rest ELSE M.vars[n]]
      lls == UNION {DOMAIN vars[n] : n \in DOMAIN vars}
      update == ll \in {M.minlag, M.maxlead}
  IN  IF index(M, name, ll) # t THEN Failed(M, "inconsistent")
      ELSE [M EXCEPT !.vars = vars,
                     !.indices = [k \in DOMAIN M.indices \ {t} |-> M.indices[k]],
                     !.minlag = IF update THEN MinOf(lls, Huge) ELSE @,
                     !.maxlead = IF update THEN MaxOf(lls, -Huge) ELSE @]

(* FormulaParser: a call on the tree of the model.                          *)
With(M, r) == [t |-> r.t, M |-> [M EXCEPT !.T = r.T]]

(* FormulaParser::add_nulary with FineAtoms::check_variable: the term of    *)
(* name(ll), made when there is none.                                       *)
atom(M, name, ll) ==
  LET t == index(M, name, ll)
      r == add_nulary(M.T)
  IN  IF name \notin varnames(M) THEN [t |-> nan, M |-> Failed(M, "not declared")]
      ELSE IF t # -1 THEN [t |-> t, M |-> M]
      ELSE [t |-> r.t, M |-> assign_variable([M EXCEPT !.T = r.T], name, ll, r.t)]

(* The same for a number: equal numbers are one term.                       *)
constant(M, val) ==
  LET known == {t \in DOMAIN M.consts : M.consts[t] = val}
      r == add_nulary(M.T)
  IN  IF known # {} THEN [t |-> CHOOSE t \in known : TRUE, M |-> M]
      ELSE [t |-> r.t, M |-> [M EXCEPT !.T = r.T, !.consts = (r.t :> val) @@ @]]

(* The actions of the grammar for an expression.                            *)
RECURSIVE parse(_, _)
parse(M, ast) ==
  CASE ast[1] = "v" -> atom(M, ast[2], ast[3])
    [] ast[1] = "c" -> constant(M, ast[2])
    [] ast[1] = "u" -> LET a == parse(M, ast[3]) IN With(a.M, add_unary(a.M.T, ast[2], a.t))
    [] ast[1] = "b" -> LET a == parse(M, ast[3])
                           b == parse(a.M, ast[4])
                       IN  With(b.M, add_binary(b.M.T, ast[2], a.t, b.t))

add_formula(M, t) == [M EXCEPT !.formulas = Append(@, t)]

MinusFormula(M, a, b) ==
  LET r == With(M, add_binary(M.T, "MINUS", a, b)) IN add_formula(r.M, r.t)

-----------------------------------------------------------------------------
(* VarOrdering: the kind of a variable by its span.                         *)
KindOf(M, name) ==
  LET s == varspan(M, {name})
  IN  CASE s.lag = 0 /\ s.lead = 0 -> "stat"
        [] s.lag = -1 /\ s.lead < 1 -> "pred"
        [] s.lag > -1 /\ s.lead = 1 -> "forw"
        [] s.lag = -1 /\ s.lead = 1 -> "both"
        [] OTHER -> "wrong"

(* The groups of variables in the order bfspbfpb: leads of both and forward *)
(* looking variables, all variables now, lags of predetermined and both.    *)
Groups == << <<"both", 1>>, <<"forw", 1>>, <<"stat", 0>>, <<"pred", 0>>, <<"both", 0>>,
             <<"forw", 0>>, <<"pred", -1>>, <<"both", -1>> >>

(* The names of each kind keep the order of the declaration.                *)
do_general(M) ==
  LET of(kind) == SelectSeq(M.endovars, LAMBDA n : KindOf(M, n) = kind)
      slots == Flat([g \in 1..8 |-> [k \in DOMAIN of(Groups[g][1]) |->
                                       index(M, of(Groups[g][1])[k], Groups[g][2])]])
      used == SelectSeq(slots, LAMBDA t : t # -1)
      order == of("stat") \o of("pred") \o of("both") \o of("forw")
  IN  [der_atoms |-> used,
       positions |-> [t \in Elements(used) |-> Position(slots, t)],
       y2outer |-> [k \in DOMAIN order |-> Position(M.endovars, order[k])],
       nstat |-> Len(of("stat")), npred |-> Len(of("pred")),
       nboth |-> Len(of("both")), nforw |-> Len(of("forw"))]

(* The exogenous variables, by time and then by declaration.                *)
do_increasing_time(M) ==
  LET n == Len(M.exovars)
      s == exovarspan(M)
      span == s.lead - s.lag + 1
      slots == Flat([k \in 1..span |-> [i \in 1..n |-> index(M, M.exovars[i], s.lag + k - 1)]])
      used == SelectSeq(slots, LAMBDA t : t # -1)
  IN  [der_atoms |-> used, positions |-> [t \in Elements(used) |-> Position(slots, t)],
       y2outer |-> UpTo(n)]

outer2y(order, n) == [o \in 1..n |-> Position(order.y2outer, o - 1)]

NoOrder == [der_atoms |-> <<>>, positions |-> <<>>, y2outer |-> <<>>]

(* make_internal_orderings: an ordering is made when the span allows it,    *)
(* and the atoms to differentiate by when both are there.                   *)
Orderings(M) ==
  LET e == endovarspan(M)
      x == exovarspan(M)
      endo == e.lag >= -1 /\ e.lead <= 1
      exo == x.lag = 0 /\ x.lead = 0
      eo == IF endo THEN do_general(M) ELSE NoOrder
      xo == IF exo THEN do_increasing_time(M) ELSE NoOrder
  IN  [endo |-> endo, exo |-> exo, eo |-> eo, xo |-> xo,
       der_atoms |-> IF endo /\ exo THEN eo.der_atoms \o xo.der_atoms ELSE <<>>]

(* nstat + npred + nboth + nforw + nys + nyss, the length of the ordering.  *)
EndoLength(o) == o.nstat + 2 * o.npred + 3 * o.nboth + 2 * o.nforw

get_pos_of_all(ord, t) ==
  IF t \in DOMAIN ord.eo.positions THEN ord.eo.positions[t]
  ELSE EndoLength(ord.eo) + ord.xo.positions[t]

-----------------------------------------------------------------------------
(* AtomSubstitutions: S maps an old name to its [name, -shift] substitutes. *)
get_new4old(S, name, shift) ==
  LET found == IF name \in DOMAIN S THEN {p \in S[name] : p[2] = -shift} ELSE {}
  IN  IF found = {} THEN <<>> ELSE (CHOOSE p \in found : TRUE)[1]

add_subst(S, new, old, shift) ==
  (old :> ({<<new, -shift>>} \cup (IF old \in DOMAIN S THEN S[old] ELSE {}))) @@ S

(* attemptAuxName: the first name of the series that is not in use.         *)
attemptAuxName(M, name, ll) ==
  LET nth(k) == <<"lag", name, ll, k>>
  IN  nth(CHOOSE k \in 1..(Len(M.endovars) + 1) :
            nth(k) \notin varnames(M) /\ \A j \in 1..(k - 1) : nth(j) \in varnames(M))

(* makeAuxVariables: one auxiliary variable for each step from start to the *)
(* end of the name's span, each equal to the one before shifted by a step;  *)
(* the atom name(ll) becomes the atom aux(step).  Y = [M, S].               *)
makeAuxVariables(Y, name, step, start, limit) ==
  LET s == varspan(Y.M, {name})
      last == IF step = -1 THEN MaxOf({limit, s.lag}, 0) ELSE MinOf({limit, s.lead}, 0)
      first == atom(Y.M, name, start - step)
      one_step(a, k) ==
        LET ll == start + k * step
            old == get_new4old(a.S, name, ll - step)
            new == IF old # <<>> THEN old ELSE attemptAuxName(a.M, name, ll - step)
            aux == atom(register_uniq(a.M, "endo", new), new, 0)
            M1 == IF old # <<>> THEN a.M ELSE MinusFormula(aux.M, aux.t, a.prev)
            S1 == IF old # <<>> THEN a.S ELSE add_subst(a.S, new, name, ll - step)
            moved(M) ==
              LET t == index(M, name, ll)
                  fresh == atom(M, new, step)
              IN  IF t = -1 THEN [M |-> fresh.M, S |-> S1, prev |-> fresh.t]
                  ELSE [M |-> assign_variable(unassign_variable(M, name, ll, t), new, step, t),
                        S |-> S1, prev |-> t]
        IN  moved(M1)
  IN  Fold(one_step, [M |-> first.M, S |-> Y.S, prev |-> first.t], UpTo(step * (last - start) + 1))

(* The first of the names with an atom between the two leads.               *)
findName(M, names, ll1, ll2) ==
  LET hits == SelectSeq(names, LAMBDA n : is_referenced(M, n)
                                          /\ \E ll \in DOMAIN M.vars[n] : ll \in ll1..ll2)
  IN  IF hits = <<>> THEN <<>> ELSE hits[1]

RECURSIVE AuxUntilNone(_, _, _, _, _)
AuxUntilNone(Y, endo, step, start, limit) ==
  LET names == IF endo THEN Y.M.endovars ELSE Y.M.exovars
      name == IF step = -1 THEN findName(Y.M, names, limit, start)
              ELSE findName(Y.M, names, start, limit)
  IN  IF name = <<>> THEN Y
      ELSE AuxUntilNone(makeAuxVariables(Y, name, step, start, limit), endo, step, start, limit)

(* substituteAllLagsAndExo1Leads: endogenous lags before -1, then           *)
(* exogenous lags and first leads; longer leads are gone by then.           *)
substituteAllLagsAndExo1Leads(M) ==
  LET endo_lags == AuxUntilNone([M |-> M, S |-> <<>>], TRUE, -1, -2, endovarspan(M).lag)
      exo_lags(Y) == AuxUntilNone(Y, FALSE, -1, -1, exovarspan(Y.M).lag)
  IN  AuxUntilNone(exo_lags(endo_lags), FALSE, 1, 1, 1)
============================================================================

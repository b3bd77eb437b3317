--------------------------- MODULE FormulaParser ---------------------------
(***************************************************************************)
(* Derivatives of the equations and their evaluation                        *)
(* (parser/cc/formula_parser.cc), the evaluation of assignments             *)
(* (atom_assignings.cc) and the reading of matrices (matrix_parser.cc).     *)
(***************************************************************************)
EXTENDS DynareAtoms

(* FoldMultiIndex: the indices of a derivative, not decreasing.             *)
increment(mi, nvar) ==
  LET RECURSIVE carry(_, _)
      carry(d, k) == IF k > 1 /\ d[k] = nvar
                     THEN carry([d EXCEPT ![k] = 0, ![k - 1] = @ + 1], k - 1) ELSE d
      n == Len(mi)
      c == carry([mi EXCEPT ![n] = @ + 1], n)
      monotone(d, k) == IF d[k - 1] > d[k] THEN [d EXCEPT ![k] = d[k - 1]] ELSE d
  IN  IF n = 0 THEN mi ELSE Fold(monotone, c, [k \in 1..(n - 1) |-> k + 1])

past_the_end(mi, nvar) == mi = <<>> \/ mi[1] = nvar

noverk[n \in 0..60, k \in 0..4] ==
  IF k = 0 THEN 1 ELSE IF n < k THEN 0 ELSE noverk[n - 1, k - 1] + noverk[n - 1, k]

(* The number of the multi-index among those of its length.                 *)
RECURSIVE offset_recurse(_, _)
offset_recurse(data, nv) ==
  LET len == Len(data)
      m == data[1]
      prefix == CHOOSE p \in 1..len : (\A k \in 1..p : data[k] = m)
                                      /\ (p < len => data[p + 1] # m)
      rest == [k \in 1..(len - prefix) |-> data[prefix + k] - m]
  IN  IF len = 0 THEN 0
      ELSE noverk[nv + len - 1, len] - noverk[nv - m + len - 1, len] + offset_recurse(rest, nv - m)

(* FormulaDerivatives: the terms of the derivatives of f that are not zero, *)
(* order by order, each from the one with an index less.                    *)
M_FormulaDerivatives(T, vs, f, order) ==
  LET nvar == Len(vs)
      entered(a, d) == [a EXCEPT !.T = d.T, !.mi = increment(@, nvar),
                                 !.new = IF d.t # zero THEN Append(@, <<a.mi, d.t>>) ELSE @]
      one_var(a, i) ==
        entered(a, add_derivative(a.T, a.from, vs[i + 1]))
      one_run(a, e) ==
        LET fmi == Append(e[1], 0)
            start == fmi[Len(fmi)]
        IN  Fold(one_var, [a EXCEPT !.from = e[2], !.mi = fmi],
                 [k \in 1..(nvar - start) |-> start + k - 1])
      next(a, b) == [T |-> b.T, last |-> b.new, ders |-> a.ders \o b.new]
      one_order(a, k) ==
        next(a, Fold(one_run, [T |-> a.T, from |-> f, mi |-> <<>>, new |-> <<>>], a.last))
      zero_order == << <<<<>>, f>> >>
  IN  Fold(one_order, [T |-> T, last |-> zero_order, ders |-> zero_order], UpTo(order))

FormulaDerivatives(T, vs, f, order) ==
  LET nvar == Len(vs)
      entered(a, d) == [a EXCEPT !.T = d.T, !.mi = increment(@, nvar),
                                 !.new = IF d.t # zero THEN Append(@, <<a.mi, d.t>>) ELSE @]
      one_var(a, i) ==
        entered(a, add_derivative(a.T, a.from, vs[i + 1]))
      one_run(a, e) ==
        LET fmi == Append(e[1], IF e[1] = <<>> THEN 0 ELSE e[1][Len(e[1])])
            start == fmi[Len(fmi)]
        IN  Fold(one_var, [a EXCEPT !.from = e[2], !.mi = fmi],
                 [k \in 1..(nvar - start) |-> start + k - 1])
      next(a, b) == [T |-> b.T, last |-> b.new, ders |-> a.ders \o b.new]
      one_order(a, k) ==
        next(a, Fold(one_run, [T |-> a.T, from |-> f, mi |-> <<>>, new |-> <<>>], a.last))
      zero_order == << <<<<>>, f>> >>
  IN  Fold(one_order, [T |-> T, last |-> zero_order, ders |-> zero_order], UpTo(order))

(* FormulaDerivatives::derivative: the term for a multi-index.              *)
derivative(ders, mi) ==
  LET found == {k \in DOMAIN ders : ders[k][1] = mi}
  IN  IF found = {} THEN zero ELSE ders[CHOOSE k \in found : \A j \in found : k <= j][2]

(* FormulaParser::differentiate: every formula, in one tree.                *)
differentiate(M, vs, order) ==
  LET next(a, d) == [T |-> d.T, ders |-> Append(a.ders, d.ders)]
  IN  Fold(LAMBDA a, f : next(a, FormulaDerivatives(a.T, vs, f, order)),
           [T |-> M.T, ders |-> <<>>], M.formulas)

(* FormulaCustomEvaluator::eval: the terms in turn in one evaluation that   *)
(* load may change before the next one.                                     *)
EvalTerms(T, E, terms, load(_, _, _)) ==
  Fold(LAMBDA a, i : LET r == eval(T, a.E, terms[i + 1])
                     IN  [E |-> load(r.E, i, r.v), values |-> Append(a.values, r.v)],
       [E |-> E, values |-> <<>>], UpTo(Len(terms)))

EvalAll(T, E, terms) == EvalTerms(T, E, terms, LAMBDA e, i, v : e).values

(* FormulaDerEvaluator::eval: the derivatives of one order, each with its   *)
(* equation and atoms.                                                      *)
EvalDerivatives(T, E, ders, vs, order) ==
  LET of(i) == Gather(ders[i], LAMBDA e : Len(e[1]) = order,
                      LAMBDA e : <<i, [k \in 1..order |-> vs[e[1][k] + 1]],
                                   eval(T, E, e[2]).v>>)
  IN  Flat([i \in DOMAIN ders |-> of(i)])

-----------------------------------------------------------------------------
(* AtomAssignings: A = [T, names, lhs, rhs, of]: the static atoms (name to  *)
(* term), the terms assigned and their formulas in order, and the formula   *)
(* of each name.                                                            *)
NoAssignments ==
  [T |-> NewTree, names |-> <<>>, consts |-> <<>>, lhs |-> <<>>, rhs |-> <<>>, of |-> <<>>]

static_atom(A, name) ==
  LET r == add_nulary(A.T)
  IN  IF name \in DOMAIN A.names THEN [t |-> A.names[name], A |-> A]
      ELSE [t |-> r.t, A |-> [A EXCEPT !.T = r.T, !.names = (name :> r.t) @@ @]]

RECURSIVE parse_static(_, _)
parse_static(A, ast) ==
  CASE ast[1] = "v" -> static_atom(A, ast[2])
    [] ast[1] = "c" -> LET r == add_nulary(A.T)
                       IN  [t |-> r.t, A |-> [A EXCEPT !.T = r.T, !.consts = (r.t :> ast[2]) @@ @]]
    [] ast[1] = "u" -> LET a == parse_static(A, ast[3])
                           r == add_unary(a.A.T, ast[2], a.t)
                       IN  [t |-> r.t, A |-> [a.A EXCEPT !.T = r.T]]
    [] ast[1] = "b" -> LET a == parse_static(A, ast[3])
                           b == parse_static(a.A, ast[4])
                           r == add_binary(b.A.T, ast[2], a.t, b.t)
                       IN  [t |-> r.t, A |-> [b.A EXCEPT !.T = r.T]]

add_assignment(A, name, ast) ==
  LET l == static_atom(A, name)
      r == parse_static(l.A, ast)
  IN  [r.A EXCEPT !.lhs = Append(@, l.t), !.rhs = Append(@, r.t),
                  !.of = (name :> Len(r.A.rhs) + 1) @@ @]

(* apply_subst: the auxiliary variables of a name take the name's value.    *)
apply_subst(A, S) ==
  LET one_name(a, old) ==
        LET l == static_atom(a, old)
        IN  [l.A EXCEPT !.lhs = Append(@, -1), !.rhs = Append(@, l.t),
                        !.of = [p \in {q[1] : q \in S[old]} |-> Len(l.A.rhs) + 1] @@ @]
  IN  Fold(one_name, A, Listed(DOMAIN S))

(* AtomAsgnEvaluator::setValues: a name without a user value is NaN.        *)
AssignedValues(A, user) ==
  [t \in {A.names[n] : n \in DOMAIN A.names} |->
     LET n == CHOOSE n \in DOMAIN A.names : A.names[n] = t
     IN  IF n \in DOMAIN user THEN user[n] ELSE NaN]
  @@ A.consts @@ reset_all

(* The values of the formulas: each is known to the later ones.             *)
EvalAssignments(A, user) ==
  EvalTerms(A.T, AssignedValues(A, user), A.rhs,
            LAMBDA e, i, v : IF A.lhs[i + 1] >= 0 THEN set_nulary(e, A.lhs[i + 1], v) ELSE e).values

get_value(A, values, name) == IF name \in DOMAIN A.of THEN values[A.of[name]] ELSE NaN

-----------------------------------------------------------------------------
(* MatrixParser: the rows of a matrix as they are written.                  *)
add_item(P, v) ==
  LET rl == IF P.rl = <<>> THEN <<1>> ELSE [P.rl EXCEPT ![Len(P.rl)] = @ + 1]
  IN  [data |-> Append(P.data, v), rl |-> rl, nc |-> MaxOf({P.nc, rl[Len(rl)]}, 0)]

start_row(P) == [P EXCEPT !.rl = Append(@, 0)]

NoMatrix == [data |-> <<>>, rl |-> <<>>, nc |-> 0]

(* The grammar: an empty row is no row, every later one starts a new one.   *)
ParseMatrix(lines) ==
  LET rows == SelectSeq(lines, LAMBDA r : r # <<>>)
  IN  Fold(LAMBDA P, r : Fold(add_item, IF r = 1 THEN P ELSE start_row(P), rows[r]),
           NoMatrix, [r \in DOMAIN rows |-> r])

find_first_non_empty_row(rl, start) ==
  MinOf({r \in (start + 1)..Len(rl) : rl[r] # 0}, Len(rl) + 1) - 1

(* MPIterator: the row and the column of each number, into a matrix of      *)
(* zeros (ParsedMatrix).                                                    *)
ParsedMatrix(P) ==
  LET visit(a, v) ==
        LET next == [a EXCEPT !.m[a.r + 1][a.c + 1] = v, !.c = @ + 1]
        IN  IF P.rl[a.r + 1] <= next.c
            THEN [next EXCEPT !.c = 0, !.r = find_first_non_empty_row(P.rl, a.r + 1)]
            ELSE next
      start == [m |-> [r \in DOMAIN P.rl |-> [c \in 1..P.nc |-> 0]],
                r |-> find_first_non_empty_row(P.rl, 0), c |-> 0]
  IN  Fold(visit, start, P.data).m
============================================================================

---------------------------- MODULE MCFrontEnd ----------------------------
(* Sources for the front end: every pair of a unary and a binary operation  *)
(* on a small model; models with long leads and lags, of exogenous          *)
(* variables and inside nonlinear terms too; planners; and faulty files.    *)
EXTENDS FrontEnd

y == <<"y">>
z == <<"z">>
x == <<"x">>
b == <<"b">>

V(n, ll) == <<"v", n, ll>>
C(c) == <<"c", c>>
U(code, a) == <<"u", code, a>>
B(code, a, c) == <<"b", code, a, c>>
Plus(a, c) == B("PLUS", a, c)
Mul(a, c) == B("TIMES", a, c)

UnaryCodes == <<"UMINUS", "LOG", "EXP", "SIN", "COS", "TAN", "SQRT", "ERF", "ERFC">>
BinaryCodes == <<"PLUS", "MINUS", "TIMES", "DIVIDE", "POWER">>

Base == [endo |-> <<y>>, exo |-> <<x>>, param |-> <<b>>, eqs |-> <<>>, objective |-> <<>>,
         discount |-> <<>>, pvals |-> <<3>>, initval |-> << <<y, C(2)>> >>, vcov |-> << <<4>> >>,
         bad |-> FALSE]

Small(u, c) ==
  [Base EXCEPT !.eqs = << B("MINUS", B(c, U(u, V(y, -1)), B(c, Plus(V(y, 1), V(x, 0)), V(y, 1))),
                            B(c, V(b, 0), U(u, V(y, 0)))) >>]

Two(e1, e2) ==
  [Base EXCEPT !.endo = <<y, z>>, !.eqs = <<e1, e2>>,
               !.initval = << <<y, C(2)>>, <<z, Plus(V(y, 0), V(b, 0))>> >>]

LongLags == Two(Plus(V(y, -3), Mul(V(z, -2), V(y, 1))), B("MINUS", V(z, 0), Plus(V(x, -2), V(x, 0))))

LongLeads == Two(Plus(V(z, -1), Mul(V(b, 0), U("EXP", Mul(V(y, 2), V(z, 3))))),
                 B("MINUS", Plus(V(y, 2), V(z, 0)), B("POWER", V(y, 2), V(x, 1))))

ExoLeads == Two(Plus(V(y, 1), Mul(V(x, 2), V(x, -1))), B("MINUS", V(z, -1), Mul(V(x, 1), V(z, 2))))

Mixed == Two(B("DIVIDE", U("LOG", Plus(V(y, -2), V(z, 2))), Plus(V(y, 1), V(x, 0))),
             B("MINUS", V(y, 0), Plus(U("EXP", Plus(V(y, 3), V(z, 2))), Plus(V(z, 2), V(z, -2)))))

(* Every pair of leads and lags from -3 to 3, in a product and in a sum.    *)
Leads(k, l) == Two(B("MINUS", Mul(V(y, k), V(z, l)), V(x, 0)), Plus(V(y, 0), Mul(V(b, 0), V(z, l))))

Planner(obj, e) ==
  [Base EXCEPT !.endo = <<y, z>>, !.eqs = <<e>>, !.objective = obj, !.discount = b,
               !.initval = << <<y, C(2)>>, <<z, C(3)>> >>]

Ramsey1 == Planner(Plus(Mul(V(y, 0), V(z, -1)), B("POWER", V(z, 0), C(3))),
                   B("MINUS", Mul(V(y, 0), V(z, 1)), Plus(V(y, -1), V(x, 0))))

Ramsey2 == Planner(Mul(V(y, -2), V(z, 0)),
                   Plus(Mul(V(y, -1), V(z, 1)), Mul(V(y, 2), V(x, 0))))

Ramsey3 == Planner(B("MINUS", V(y, 0), Mul(V(z, 0), V(z, 0))),
                   Plus(Mul(Mul(V(y, -1), V(z, 2)), V(y, 1)), V(x, -1)))

Powers == Two(Plus(B("POWER", U("UMINUS", V(y, -1)), C(2)), V(x, 0)),
              B("MINUS", V(z, 0), B("MINUS", V(y, 0), B("MINUS", V(z, 1), B("DIVIDE", V(y, 0), Plus(V(z, -1), C(1)))))))

TwoShocks == [Two(Plus(V(y, 1), Mul(V(<<"w">>, 0), V(x, 0))), B("MINUS", V(z, -1), V(<<"w">>, -1)))
              EXCEPT !.exo = <<x, <<"w">> >>, !.vcov = << <<2>>, <<0, 3>> >>]

Ragged == [TwoShocks EXCEPT !.vcov = << <<>>, <<1, 3>>, <<>>, <<2>> >>]

NoShocks == [Two(Plus(V(y, 1), V(z, -1)), B("MINUS", V(z, 0), V(y, 0))) EXCEPT !.exo = <<>>, !.vcov = <<>>]

Bad(s) == [s EXCEPT !.bad = TRUE]

MCSources ==
  Flat([u \in 1..9 |-> [c \in 1..5 |-> Small(UnaryCodes[u], BinaryCodes[c])]])
  \o Flat([k \in 1..7 |-> [l \in 1..7 |-> Leads(k - 4, l - 4)]])
  \o << LongLags, LongLeads, ExoLeads, Mixed, Ramsey1, Ramsey2, Ramsey3, Powers, TwoShocks, Ragged, NoShocks >>
  \o << Bad([Small("EXP", "PLUS") EXCEPT !.eqs = << V(<<"u">>, 0) >>]),
        Bad([Small("EXP", "PLUS") EXCEPT !.endo = <<y, z>>]),
        Bad([Small("EXP", "PLUS") EXCEPT !.eqs = @ \o << V(y, 1) >>]),
        Bad([Small("EXP", "PLUS") EXCEPT !.eqs = << V(y, 1) >>]),
        Bad([TwoShocks EXCEPT !.vcov = << <<1>> >>]),
        Bad([Ramsey1 EXCEPT !.discount = x]),
        Bad([Small("EXP", "PLUS") EXCEPT !.param = <<b, y>>]) >>

MCOrder == 2
============================================================================

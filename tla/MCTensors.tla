----------------------------- MODULE MCTensors -----------------------------
(* The calls of TensorLibrary and the jobs of DecisionRules that are        *)
(* checked, one or the other in a behaviour.  The numbers in tensors are    *)
(* small and irregular, so that a permuted index shows.                     *)
EXTENDS TensorLibrary, DecisionRules

Num(a, b, c) == ((7 * a + 3 * b + 5 * c + a * b * c + 1) % 5) - 1

Filled(nr, nc, seed) ==
  [nr |-> nr, col |-> [j \in 1..nc |-> [i \in 1..nr |-> Num(i, j, seed)]]]

(* Symmetries of one and two blocks, two to four indices, over blocks of up *)
(* to three variables.                                                      *)
IndexCallsDef ==
  {Dimens(s, n) : s \in {<<0, 2>>, <<1, 1>>, <<2, 1>>, <<1, 2>>, <<3, 0>>, <<2, 2>>},
                  n \in {<<1, 3>>, <<2, 2>>, <<3, 1>>, <<3, 2>>}}

OrdersDef == 1..5

NoCalls == {}

(* The derivatives of (y, u, u', sigma), two variables y.                   *)
Nvs == <<2, 1, 1, 1>>

Syms == {s \in [1..4 -> 0..3] : Total(s) \in 1..3}

Cont(nr, seed) ==
  [s \in Syms |-> Filled(nr, calcFoldMaxOffset(Dimens(s, Nvs)), seed + s[1] + 2 * s[2] + 3 * s[4])]

Unfolded(c) == [s \in DOMAIN c |-> Unfold2(c[s], Dimens(s, Nvs))]

Sparse(nv, d, nr, seed) ==
  LET c == FFSCoords(nv, d)
      all == [k : DOMAIN c, r : 0..(nr - 1)]
  IN  {[key |-> c[x.k], r |-> x.r, c |-> Num(x.k, x.r, seed)] :
         x \in {y \in all : (y.k + 2 * y.r + seed) % 3 = 0}}

Z(f) == IF f THEN ZContainer(Cont(1, 1), 1, Cont(3, 2), 3, 2, 1)
        ELSE ZContainer(Unfolded(Cont(1, 1)), 1, Unfolded(Cont(3, 2)), 3, 2, 1)

G(f) == IF f THEN GContainer(Cont(2, 3), 2, 1) ELSE GContainer(Unfolded(Cont(2, 3)), 2, 1)

ProductOf(dim, sym, nr, seed) ==
  [op |-> "sparse", sc |-> Z(TRUE), usc |-> Z(FALSE), dim |-> dim, nr |-> nr, max |-> 2,
   items |-> Sparse(7, dim, nr, seed), td |-> Dimens(sym, Nvs)]

X(f) == IF f THEN XContainer(Cont(2, 3), 2) ELSE XContainer(Unfolded(Cont(2, 3)), 2)

ProductOfX(dim, sym, nr, seed) ==
  [op |-> "sparse", sc |-> X(TRUE), usc |-> X(FALSE), dim |-> dim, nr |-> nr, max |-> 1,
   items |-> Sparse(2, dim, nr, seed), td |-> Dimens(sym, Nvs)]

DenseSyms(dim) == {s \in [1..4 -> 0..dim] : Total(s) = dim /\ s[3] = 0}

DenseOf(dim, sym, nr) ==
  [op |-> "dense", sc |-> G(TRUE), usc |-> G(FALSE), dim |-> dim, nr |-> nr,
   dense |-> [s \in DenseSyms(dim) |->
                Filled(nr, calcFoldMaxOffset(Dimens(s, <<2, 1, 1, 1>>)), s[1] + s[4])],
   td |-> Dimens(sym, Nvs)]

ContOf(dim, sym, nr) ==
  [op |-> "cont", dim |-> dim, nv |-> 2, nr |-> nr, cont |-> Cont(2, 1),
   t |-> Filled(nr, FMaxOffset(2, dim), dim), td |-> Dimens(sym, Nvs)]

ProductCallsDef ==
  {ProductOf(1, s, 2, 0) : s \in {<<2, 0, 0, 0>>, <<1, 1, 0, 0>>}}
  \cup {ProductOf(2, s, 2, 1) : s \in {<<2, 0, 0, 0>>, <<1, 1, 0, 0>>, <<2, 1, 0, 0>>,
                                       <<1, 0, 0, 1>>, <<1, 0, 1, 0>>}}
  \cup {ProductOf(3, s, 1, 2) : s \in {<<2, 1, 0, 0>>}}
  \cup {ProductOfX(d, s, 2, 1) : d \in {1, 2}, s \in {<<2, 1, 0, 0>>, <<1, 0, 1, 0>>}}
  \cup {DenseOf(d, s, 1) : d \in {1, 2}, s \in {<<2, 0, 0, 0>>, <<1, 0, 1, 0>>, <<1, 1, 0, 1>>}}
  \cup {ContOf(d, s, 2) : d \in {1, 2, 3}, s \in {<<2, 1, 0, 0>>, <<3, 0, 0, 0>>, <<1, 1, 0, 1>>}}

SliceCallsDef ==
  {[op |-> "slice", items |-> Sparse(4, Len(c), 2, 1), nr |-> 2, ss |-> ss, coor |-> c] :
     ss \in {<<1, 3>>, <<2, 2>>},
     c \in {<<0, 1>>, <<1, 0>>, <<1, 1>>, <<1, 0, 1>>, <<1, 1, 0>>, <<0, 1, 0>>, <<1, 1, 1>>}}

Pol(nr, nv, dims) ==
  Fold(LAMBDA p, d : Inserted(p, d, Filled(nr, FMaxOffset(nv, d), d)),
       EmptyPol(TRUE, nr, nv), dims)

PolCallsDef ==
  {[op |-> "pol", p |-> Pol(2, 3, d), x |-> x, fix |-> f] :
     d \in {<<0, 1, 2, 3>>, <<1, 2>>, <<1, 3>>, <<2>>}, x \in {<<1, 2, -1>>, <<0, -2, 3>>},
     f \in {1, 2}}

MomentCallsDef ==
  {[op |-> "moment", v |-> v, nv |-> 2, d |-> d] :
     v \in {<<1, 2, 2, 5>>, <<2, 0, 0, 3>>}, d \in {2, 4}}

Factor(r, c, u, seed) == IF u THEN setUnit(r) ELSE setMat(Filled(r, c, seed))

KronCallsDef ==
  {[op |-> "kron", in |-> Filled(2, RowsOf(kp, 1, Len(kp)), 1), kp |-> kp] :
     kp \in {<<Factor(2, 3, a, 1), Factor(3, 1, b, 2), Factor(1, 2, c, 4)>> :
               a, b, c \in BOOLEAN}
            \cup {<<Factor(2, 1, a, 1), Factor(2, 3, b, 2)>> : a, b \in BOOLEAN}
            \cup {<<Factor(2, 3, FALSE, 1)>>}}

-----------------------------------------------------------------------------
(* Jobs of DecisionRules.  The derivatives of order i + j, k are multiples  *)
(* of (i + j)! k!, the values of a simulation of 144.                       *)
Yp(a, b, c, d) == [nstat |-> a, npred |-> b, nboth |-> c, nforw |-> d]

Derivatives(syms, nr, nvs, seed) ==
  [s \in syms |-> Times(Filled(nr, calcFoldMaxOffset(Dimens(s, nvs)), seed + s[1] + 2 * s[2] + 3 * s[4]),
                        Fact(s[1] + s[2]) * Fact(s[4]))]

SymsTo(q) == {s \in [1..4 -> 0..q] : s[3] = 0 /\ Total(s) \in 1..q}

RuleJob(q, yp, nu, sigma, syms) ==
  [kind |-> "rule", q |-> q, yp |-> yp, nu |-> nu, sigma |-> sigma,
   g |-> Derivatives(syms, ny(yp), <<nys(yp), nu, nu, 1>>, 1),
   ys |-> [i \in 1..ny(yp) |-> i], fix |-> [i \in 1..ny(yp) |-> 3 - i],
   points |-> {[ys |-> [i \in 1..nys(yp) |-> a * i - 1], u |-> [i \in 1..nu |-> b - i]] :
                 a \in {0, 2}, b \in {1, 3}}]

(* y1 is static, y2 the state: y1 = y2 + u^2, y2 = h y2 + u + e y2^2.       *)
Folded(cols) == [nr |-> 2, col |-> cols]

SimRule(h, e) ==
  [pol |-> [f |-> TRUE, nr |-> 2, nv |-> 2, maxdim |-> 2,
            t |-> (0 :> Folded(<<<<0, 0>>>>)) @@ (1 :> Folded(<<<<1, h>>, <<0, 144>>>>))
                    @@ (2 :> Folded(<<<<0, e>>, <<0, 0>>, <<144, 0>>>>))],
   ysteady |-> <<288, -144>>, yp |-> Yp(1, 1, 0, 0), nu |-> 1]

Draws == <<<< <<1>>, <<-1>>, <<2>>, <<0>> >>, << <<0>>, <<0>>, <<1>>, <<2>> >>,
           << <<-1>>, <<3>>, <<0>>, <<1>> >>>>

SimJob(kind, dr, n, per, burn, sh) ==
  [kind |-> kind, dr |-> dr, num_sim |-> n, num_per |-> per, num_burn |-> burn, shocks |-> sh,
   start |-> <<0, -144>>, factor |-> [nr |-> 1, col |-> <<<<1>>>>], draws |-> Draws]

OneShock == <<[i |-> 1, stderror |-> 1]>>

Simul(order, gk, sh) ==
  [kind |-> "simul", order |-> order, yp |-> Yp(1, 1, 0, 0), nexog |-> 1, ystart |-> <<1, 2>>,
   ysteady |-> <<0, 1>>, sh |-> sh, factor |-> [nr |-> 1, col |-> <<<<2>>>>],
   stream |-> <<<<1>>, <<-1>>, <<2>>>>, gk |-> gk]

Gk(n) == [d \in 0..n |-> Filled(2, FMaxOffset(2, d), d)]

MCJobs ==
  {RuleJob(q, yp, nu, sg, SymsTo(q)) : q \in {1, 2}, yp \in {Yp(1, 1, 1, 0), Yp(0, 1, 0, 1)},
                                       nu \in {1, 2}, sg \in {1, 2}}
  \cup {RuleJob(3, Yp(1, 0, 1, 0), 1, 1, SymsTo(3) \ {<<1, 1, 0, 1>>})}
  \cup {Simul(2, Gk(n), sh) : n \in {1, 2},
                              sh \in {<<<<1>>, <<Inf>>, <<0>>>>, <<<<Inf>>, <<5000>>, <<1>>>>, <<<<1, 1>>>>}}
  \cup {SimJob("unconditional", dr, n, 2, b, OneShock) :
          dr \in {SimRule(1, 0), SimRule(0, 1)}, n \in {1, 2}, b \in {0, 1}}
  \cup {SimJob("unconditional", SimRule(-1, 1), 3, 1, 0, OneShock),
        SimJob("unconditional", SimRule(1, 0), 2, 2, 0, <<>>)}
  \cup {SimJob("conditional", SimRule(h, e), n, 2, 0, <<>>) : h \in {1, 0}, e \in {0, 1}, n \in {1, 3}}
  \cup {SimJob("realtime", SimRule(h, e), n, p, b, <<>>) :
          h \in {1, 0}, e \in {0, 1}, n \in {1, 2}, p \in {1, 2}, b \in {0, 1}}
  \cup {SimJob("realtime", SimRule(1, 1), 3, 1, 1, <<>>),
        [SimJob("realtime", SimRule(0, 1), 2, 1, 2, <<>>)
           EXCEPT !.draws = <<Draws[1], << <<0>>, <<0>>, <<0>>, <<2>> >> >>]}

MCFreed == {<<0, -144>>, <<144, 144>>}

NoJob == [kind |-> "off"]

Off == /\ job = NoJob /\ stage = "off" /\ waiting = {} /\ control = Nothing /\ irf = <<>>
       /\ rt = Nothing /\ outcome = Nothing

MCInit == \/ Init /\ Off
          \/ call = None /\ result = None /\ RuleInit

MCNext == \/ Next /\ UNCHANGED ruleVars
          \/ RuleNext /\ UNCHANGED vars

MCSpec == MCInit /\ [][MCNext]_<<vars, ruleVars>>
============================================================================

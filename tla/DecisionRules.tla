--------------------------- MODULE DecisionRules ---------------------------
(***************************************************************************)
(* Decision rules and their simulation (dynare++/kord/decision_rule.hh and *)
(* .cc, normal_conjugate.cc, the MEX dynare_simul_).  A rule is             *)
(*   pol      the polynomial in (y*, u), y* the predetermined part of y     *)
(*   ysteady  the point its argument and value are deviations from          *)
(*   yp       the partition of y: nstat, npred, nboth, nforw                *)
(*   nu       the number of shocks                                          *)
(* Vectors are sequences of integers: derivatives, shocks and starting      *)
(* points of a job are such that every quotient is exact.  Inf stands for   *)
(* infinities and NaN alike; a value beyond Huge is one.                    *)
(***************************************************************************)
EXTENDS TensorPolynomials

CONSTANTS
  Jobs,        \* what is asked for: [kind, ...], see the actions
  MaxThreads,  \* detach_thread_group::max_parallel_threads
  Huge,        \* the largest finite value
  FreedStarts  \* what memory that was freed may hold

ASSUME RulesAssumption == MaxThreads \in Nat \ {0} /\ Huge \in Nat

Inf == Huge + 1

isFinite(v) == \A i \in DOMAIN v : v[i] # Inf

AllFinite(cols) == \A j \in DOMAIN cols : isFinite(cols[j])

(* v + f w, and f v + w / n: not finite where an argument is not.           *)
Sum2(v, f, w) == [i \in DOMAIN v |-> IF Inf \in {v[i], w[i]} THEN Inf ELSE v[i] + f * w[i]]

Mean2(m, v, n, w) ==
  [i \in DOMAIN v |-> IF Inf \in {v[i], w[i]} THEN Inf ELSE (m * v[i] + n * w[i]) \div (m + n)]

Fact(n) == Product([k \in 1..n |-> k])

Over(m, n) == [m EXCEPT !.col = [j \in DOMAIN m.col |->
                                   [i \in DOMAIN m.col[j] |-> m.col[j][i] \div n]]]

-----------------------------------------------------------------------------
(* PartitionY                                                               *)

nys(yp) == yp.npred + yp.nboth
ny(yp) == yp.nstat + nys(yp) + yp.nforw

Star(yp, y) == Sub(y, yp.nstat, yp.nstat + nys(yp))

-----------------------------------------------------------------------------
(* The tensors of a rule.  A container of derivatives maps the symmetry     *)
(* (y*, u, u', sigma) to a tensor; q is its largest dimension.              *)

AddSub(f, out, nv, t, td) == IF f THEN FAddSub(out, nv, t, td) ELSE UAddSub(out, nv, t, td)

(* The sum over k of the derivatives of order i in y and j in u.            *)
SigmaSum(g, q, sigma, i, j, zero) ==
  LET add(m, k) ==
        LET sym == <<i, j, 0, k>>
        IN  IF sym \in DOMAIN g
              THEN Plus(m, Power(sigma, k), Over(g[sym], Fact(i + j) * Fact(k))) ELSE m
  IN  Fold(add, zero, UpTo(q - i - j + 1))

M_FillTensors(f, g, q, nr, ss, sigma) ==
  LET nv == Total(ss)
      tmp(i, j) == SigmaSum(g, q, sigma, i, j,
                            Zeros(nr, GSMaxOffset(f, Dimens(<<i, j>>, ss))))
      g_yud(d) == Fold(LAMBDA o, i : AddSub(f, o, nv, tmp(i, d - i), Dimens(<<i, d - i>>, ss)),
                       Zeros(nr, Len(Coords(f, nv, d))), UpTo(d))
  IN  Fold(LAMBDA p, d : Inserted(p, d, g_yud(d)), EmptyPol(f, nr, nv), UpTo(q + 1))

(* DecisionRuleImpl::fillTensors: the slices y^i u^j of each dimension.     *)
FillTensors(f, g, q, nr, ss, sigma) ==
  LET nv == Total(ss)
      tmp(i, j) == SigmaSum(g, q, sigma, i, j,
                            Zeros(nr, GSMaxOffset(f, Dimens(<<i, j>>, ss))))
      g_yud(d) == Fold(LAMBDA o, i : AddSub(f, o, nv, tmp(i, d - i), Dimens(<<i, d - i>>, ss)),
                       Zeros(nr, Len(Coords(f, nv, d))), UpTo(d + 1))
  IN  Fold(LAMBDA p, d : Inserted(p, d, g_yud(d)), EmptyPol(f, nr, nv), UpTo(q + 1))

Rule(f, g, q, yp, nu, ys, sigma) ==
  [pol |-> FillTensors(f, g, q, ny(yp), <<nys(yp), nu>>, sigma),
   ysteady |-> ys, yp |-> yp, nu |-> nu]

(* The conversions between FoldDecisionRule and UnfoldDecisionRule.         *)
UnfoldRule(dr) == [dr EXCEPT !.pol = UnfoldPol(@)]
FoldRule(dr) == [dr EXCEPT !.pol = FoldPol(@)]

(* centralize: pol is differentiated once more for each dimension.          *)
centralize(dr, fixpoint) ==
  LET dstate == addTo(Star(dr.yp, fixpoint), -1, Star(dr.yp, dr.ysteady))
                  \o [i \in 1..dr.nu |-> 0]
      next(s, d) ==
        LET pol == derivative(s.pol, d - 1)
        IN  [pol |-> pol, new |-> Inserted(s.new, d, Over(evalPartially(pol, d, dstate), Fact(d)))]
      empty == EmptyPol(dr.pol.f, dr.pol.nr, dr.pol.nv)
  IN  [dr EXCEPT !.ysteady = fixpoint,
                 !.pol = Fold(next, [pol |-> dr.pol, new |-> empty],
                              [d \in 1..dr.pol.maxdim |-> d]).new]

(* DRFixPoint: the rule without shocks, and what it adds to y*.             *)
FixPoint(f, g, q, yp, ys, sigma) ==
  LET g_yd(d) == SigmaSum(g, q, sigma, d, 0, Zeros(ny(yp), Len(Coords(f, nys(yp), d))))
      pol == Fold(LAMBDA p, d : Inserted(p, d, g_yd(d)), EmptyPol(f, ny(yp), nys(yp)), UpTo(q + 1))
      yspol == [pol EXCEPT !.nr = nys(yp),
                           !.t = [d \in DOMAIN pol.t |-> Rows(pol.t[d], yp.nstat, nys(yp))]]
  IN  [pol |-> pol,
       bigf |-> [yspol EXCEPT !.t[1].col =
                   [j \in DOMAIN @ |-> [@[j] EXCEPT ![j] = @ - 1]]]]

-----------------------------------------------------------------------------
(* Evaluation and simulation                                                *)

(* eval: a value that is not finite makes all of them so.                   *)
Represented(v) == [i \in DOMAIN v |-> IF v[i] \in -Huge..Huge THEN v[i] ELSE Inf]

eval(em, dr, v) ==
  IF ~isFinite(v) THEN [i \in 1..ny(dr.yp) |-> Inf]
  ELSE Represented(IF em = "horner" THEN evalHorner(dr.pol, v) ELSE evalTrad(dr.pol, v))

evaluate(em, dr, ys, u) ==
  Sum2(eval(em, dr, Sum2(ys, -1, Star(dr.yp, dr.ysteady)) \o u), 1, dr.ysteady)

(* ExplicitShockRealization::get.                                           *)
ExplicitGet(sr, n) == sr[(n % Len(sr)) + 1]

ExplicitShocks(sr, np) == [n \in 0..(np - 1) |-> ExplicitGet(sr, n)]

(* RandomShockRealization::get: the next draws of the stream.               *)
RandomGet(factor, draws, n) == MatMult(factor, [nr |-> Len(factor.col), col |-> <<draws[n + 1]>>]).col[1]

M_GenGet(factor, draws, sr, n) ==
  LET e == ExplicitGet(sr, n)
      r == RandomGet(factor, draws, 0)
  IN  [j \in DOMAIN e |-> IF e[j] = Inf THEN r[j] ELSE e[j]]

(* GenShockRealization::get.                                                *)
GenGet(factor, draws, sr, n) ==
  LET e == ExplicitGet(sr, n)
      r == RandomGet(factor, draws, n)
  IN  [j \in DOMAIN e |-> IF e[j] = Inf THEN r[j] ELSE e[j]]

(* addToShock.                                                              *)
addToShock(sr, ishock, iper, val) == [sr EXCEPT ![(iper % Len(sr)) + 1][ishock] = @ + val]

(* The deviations from the steady state, period by period.                  *)
Deviations(dr, np, ystart, shocks) ==
  LET out[i \in 0..(np - 1)] ==
        eval("horner", dr, (IF i = 0 THEN addTo(Star(dr.yp, ystart), -1, Star(dr.yp, dr.ysteady))
                            ELSE Star(dr.yp, out[i - 1])) \o shocks[i])
  IN  out

(* simulate: the first value that is not finite, other than that of period  *)
(* 0, is the last one computed; zeros follow.                               *)
UntilNotFinite(out, np, dr) ==
  LET stops == {i \in 1..(np - 1) : ~isFinite(out[i])}
      i == IF stops = {} THEN np ELSE CHOOSE k \in stops : \A m \in stops : k <= m
  IN  [j \in 1..np |->
         IF j <= i THEN Sum2(out[j - 1], 1, dr.ysteady)
         ELSE IF j = i + 1 THEN out[i] ELSE [k \in 1..ny(dr.yp) |-> 0]]

simulate(dr, np, ystart, shocks) == UntilNotFinite(Deviations(dr, np, ystart, shocks), np, dr)

-----------------------------------------------------------------------------
(* Results: sets of data, with their shocks and starting points             *)

Results(nper, nburn) == [num_per |-> nper, num_burn |-> nburn, sets |-> <<>>]

Freed == <<>>   \* a view of a matrix that no longer exists

M_addDataSet(res, d, sr, st) ==
  LET kept(c) == SubSeq(c, res.num_burn + 1, res.num_burn + res.num_per)
  IN  IF AllFinite(kept(d))
        THEN [res EXCEPT !.sets = Append(@, [data |-> kept(d), shocks |-> sr, start |-> st])]
        ELSE res

(* addDataSet: the starting point of a burned simulation is a view of a     *)
(* column of d, which the worker owns.                                      *)
addDataSet(res, d, sr, st) ==
  LET kept(c) == SubSeq(c, res.num_burn + 1, res.num_burn + res.num_per)
  IN  IF AllFinite(d)
        THEN [res EXCEPT !.sets =
                Append(@, [data |-> kept(d), shocks |-> kept(sr),
                           start |-> IF res.num_burn = 0 THEN st ELSE Freed])]
        ELSE res

(* All the columns of the data.                                             *)
Observations(res) == Flat([s \in DOMAIN res.sets |-> res.sets[s].data])

SumOf(cols, n) == Fold(LAMBDA a, c : AddCol(a, 1, c), [i \in 1..n |-> 0], cols)

MeanOf(cols, n) == [i \in 1..n |-> IF Len(cols) = 0 THEN 0 ELSE SumOf(cols, n)[i] \div Len(cols)]

(* SimResultsStats::calcVcov and calcMean.                                  *)
M_calcVcov(cols, mean, n) ==
  [r \in 1..n |-> [k \in 1..n |->
     IF Len(cols) <= 1 THEN Inf
     ELSE Total([j \in DOMAIN cols |->
                   ((cols[j][r] - mean[r]) * (cols[j][k] - mean[k])) \div Len(cols)])]]

calcVcov(cols, mean, n) ==
  [r \in 1..n |-> [k \in 1..n |->
     IF Len(cols) <= 1 THEN Inf
     ELSE Total([j \in DOMAIN cols |->
                   ((cols[j][r] - mean[r]) * (cols[j][k] - mean[k])) \div (Len(cols) - 1)])]]

StatsOf(res, n) ==
  LET cols == Observations(res)
      mean == MeanOf(cols, n)
  IN  [mean |-> mean, vcov |-> calcVcov(cols, mean, n)]

(* SimResultsDynamicStats: the same period by period, variances only.       *)
Period(res, j) == [s \in DOMAIN res.sets |-> res.sets[s].data[j]]

DynamicStatsOf(res, n) ==
  LET mean == [j \in 1..res.num_per |-> MeanOf(Period(res, j), n)]
  IN  [mean |-> mean,
       variance |-> [j \in 1..res.num_per |->
                       [r \in 1..n |-> calcVcov(Period(res, j), mean[j], n)[r][r]]]]

(* SimResultsIRF::calcVariances: the scaling is applied to a copy of the    *)
(* data that is dropped.                                                    *)
IRFVariances(res, mean, n) ==
  [j \in 1..res.num_per |-> [r \in 1..n |->
     IF Len(res.sets) <= 1 THEN Inf
     ELSE Total([s \in DOMAIN res.sets |-> Power(res.sets[s].data[j][r] - mean[j][r], 2)])]]

-----------------------------------------------------------------------------
(* NormalConj                                                               *)

Diffuse(d) ==
  [mu |-> [i \in 1..d |-> 0], kappa |-> 0, nu |-> -1,
   lambda |-> [i \in 1..d |-> [j \in 1..d |-> 0]]]

(* addOuter, with the factor m / n.                                         *)
AddOuter(lambda, diff, m, n) ==
  [i \in DOMAIN lambda |-> [j \in DOMAIN lambda |->
     IF Inf \in {lambda[i][j], diff[i], diff[j]} THEN Inf
     ELSE lambda[i][j] + (m * diff[i] * diff[j]) \div n]]

Update(nc, y) ==
  LET mu == Mean2(nc.kappa, nc.mu, 1, y)
  IN  [mu |-> mu, kappa |-> nc.kappa + 1, nu |-> nc.nu + 1,
       lambda |-> AddOuter(nc.lambda, Sum2(y, -1, mu), nc.kappa, nc.kappa + 1)]

M_Merge(nc, new) ==
  LET mu == Mean2(1, nc.mu, 1, new.mu)
      lambda == [i \in DOMAIN mu |-> Sum2(nc.lambda[i], 1, new.lambda[i])]
  IN  [mu |-> mu, kappa |-> nc.kappa + new.kappa, nu |-> nc.nu + new.kappa,
       lambda |-> AddOuter(lambda, Sum2(new.mu, -1, mu), 1, 1)]

(* update with another NormalConj: without any observation the weights are  *)
(* 0/0.                                                                     *)
Merge(nc, new) ==
  LET empty == nc.kappa + new.kappa = 0
      mu == IF empty THEN [i \in DOMAIN nc.mu |-> Inf]
            ELSE Mean2(nc.kappa, nc.mu, new.kappa, new.mu)
      lambda == [i \in DOMAIN mu |-> Sum2(nc.lambda[i], 1, new.lambda[i])]
  IN  [mu |-> mu, kappa |-> nc.kappa + new.kappa, nu |-> nc.nu + new.kappa,
       lambda |-> AddOuter(lambda, Sum2(new.mu, -1, mu), 1, 1)]

getVariance(nc) ==
  LET d == Len(nc.mu)
  IN  [i \in 1..d |-> [j \in 1..d |->
         IF nc.nu <= d + 1 \/ nc.lambda[i][j] = Inf THEN Inf
         ELSE nc.lambda[i][j] \div (nc.nu - d - 1)]]

-----------------------------------------------------------------------------
(* What is asked for: rules from derivatives ("rule"), dynare_simul_        *)
(* ("simul"), and the three kinds of simulation of main.cc, whose workers   *)
(* are a detach_thread_group each.                                          *)

VARIABLES
  job,
  stage,    \* "control", "irf" or "rt" while a group runs, "done" at the end
  waiting,  \* the workers of the group that have not finished
  control,  \* SimResults
  irf,      \* the SimResultsIRF of the impulses so far, with ishock and imp
  rt,       \* RTSimResultsStats
  outcome   \* statistics, or the result of the other kinds

ruleVars == <<job, stage, waiting, control, irf, rt, outcome>>

Nothing == [op |-> "nothing"]

Groups == [conditional |-> "control", unconditional |-> "control", realtime |-> "rt"]

RuleInit ==
  /\ job \in Jobs
  /\ IF job.kind \in DOMAIN Groups
       THEN /\ stage = Groups[job.kind] /\ waiting = 1..job.num_sim
            /\ control = Results(job.num_per, job.num_burn)
            /\ rt = [nc |-> Diffuse(ny(job.dr.yp)), incomplete |-> 0, thrown |-> 0]
       ELSE stage = job.kind /\ waiting = {} /\ control = Nothing /\ rt = Nothing
  /\ irf = <<>> /\ outcome = Nothing

(* detach_thread_group::run starts the workers in order.                    *)
Runs(group, w) == /\ stage = group /\ w \in waiting
                  /\ Cardinality({v \in waiting : v < w}) < MaxThreads
                  /\ waiting' = waiting \ {w}

Stream(w, n) == RandomGet(job.factor, job.draws[w], n)

(* SimulationWorker.                                                        *)
AddSimulation(w) ==
  LET np == job.num_per + job.num_burn
      esr == [j \in 1..np |-> Stream(w, j - 1)]
      m == simulate(job.dr, np, job.start, ExplicitShocks(esr, np))
  IN  /\ Runs("control", w)
      /\ control' = addDataSet(control, m, esr, job.start)
      /\ UNCHANGED <<job, stage, irf, rt, outcome>>

(* IRFResults: each shock with a positive and a negative impulse.           *)
Impulse(k) == LET sh == job.shocks[(k + 1) \div 2]
              IN  [ishock |-> sh.i, imp |-> IF k % 2 = 1 THEN sh.stderror ELSE -sh.stderror]

StartResponses(k) ==
  IF k <= 2 * Len(job.shocks)
    THEN /\ irf' = Append(irf, Impulse(k) @@ Results(job.num_per, 0))
         /\ waiting' = DOMAIN control.sets
         /\ stage' = "irf"
    ELSE stage' = "done" /\ UNCHANGED <<irf, waiting>>

FinishSimulation ==
  /\ stage = "control" /\ waiting = {}
  /\ IF job.kind = "conditional"
       THEN /\ outcome' = [op |-> "dynamic"] @@ DynamicStatsOf(control, ny(job.dr.yp))
            /\ stage' = "done" /\ UNCHANGED <<irf, waiting>>
       ELSE /\ outcome' = [op |-> "stats", irf |-> <<>>] @@ StatsOf(control, ny(job.dr.yp))
            /\ StartResponses(1)
  /\ UNCHANGED <<job, control, rt>>

M_Respond(k, i, st) ==
  LET c == control.sets[i]
      esr == addToShock(c.shocks, irf[k].ishock, 0, irf[k].imp)
      m == simulate(job.dr, irf[k].num_per, st, ExplicitShocks(esr, irf[k].num_per))
  IN  irf' = [irf EXCEPT ![k] = addDataSet(@, [j \in DOMAIN m |->
                Sum2(m[j], -1, control.sets[Len(irf[k].sets) + 1].data[j])], esr, c.start)]

(* SimulationIRFWorker: the control with an impulse, less the control; a    *)
(* starting point that is gone may read as anything.                        *)
Respond(k, i, st) ==
  LET c == control.sets[i]
      esr == addToShock(c.shocks, irf[k].ishock, 0, irf[k].imp)
      m == simulate(job.dr, irf[k].num_per, st, ExplicitShocks(esr, irf[k].num_per))
  IN  irf' = [irf EXCEPT ![k] =
                addDataSet(@, [j \in DOMAIN m |-> Sum2(m[j], -1, c.data[j])], esr, c.start)]

AddResponse(i) ==
  /\ Runs("irf", i)
  /\ \E st \in IF control.sets[i].start = Freed THEN FreedStarts ELSE {control.sets[i].start} :
       Respond(Len(irf), i, st)
  /\ UNCHANGED <<job, stage, control, rt, outcome>>

(* calcMeans and calcVariances, then the next impulse.                      *)
FinishResponses ==
  /\ stage = "irf" /\ waiting = {}
  /\ LET n == ny(job.dr.yp)
         res == irf[Len(irf)]
         means == [j \in 1..res.num_per |-> MeanOf(Period(res, j), n)]
     IN  outcome' = [outcome EXCEPT !.irf =
                       Append(@, [means |-> means, variances |-> IRFVariances(res, means, n)])]
  /\ StartResponses(Len(irf) + 1)
  /\ UNCHANGED <<job, control, rt>>

(* RTSimulationWorker: one period after the last; a value that is not       *)
(* finite ends the simulation after it was taken into account.              *)
LastPeriod(out, last) ==
  LET stops == {i \in 0..last : ~isFinite(out[i])}
  IN  IF stops = {} THEN last ELSE CHOOSE i \in stops : \A k \in stops : i <= k

RTPath(w) ==
  LET np == job.num_burn + job.num_per + 1
  IN  Deviations(job.dr, np, job.start, [n \in 0..(np - 1) |-> Stream(w, n)])

Observed(out, ip) == [k \in 1..(ip - job.num_burn + 1) |-> out[job.num_burn + k - 1]]

Gathered(out, ip) ==
  LET short == job.num_per - ip
  IN  [nc |-> Merge(rt.nc, Fold(Update, Diffuse(ny(job.dr.yp)), Observed(out, ip))),
       incomplete |-> rt.incomplete + (IF short > 0 THEN 1 ELSE 0),
       thrown |-> rt.thrown + (IF short > 0 THEN short ELSE 0)]

AddRealTime(w) ==
  /\ Runs("rt", w)
  /\ \E out \in {RTPath(w)} :
       rt' = Gathered(out, LastPeriod(out, job.num_burn + job.num_per))
  /\ UNCHANGED <<job, stage, control, irf, outcome>>

FinishRealTime ==
  /\ stage = "rt" /\ waiting = {}
  /\ outcome' = [op |-> "rt", mean |-> Sum2(rt.nc.mu, 1, job.dr.ysteady),
                 vcov |-> getVariance(rt.nc)]
  /\ stage' = "done"
  /\ UNCHANGED <<job, waiting, control, irf, rt>>

(* The rules made of a container of derivatives, folded and unfolded, and   *)
(* their values at some points.                                             *)
Expand ==
  LET c == job
      ss == <<nys(c.yp), c.nu>>
      unfolded == [s \in DOMAIN c.g |-> Unfold2(c.g[s], Dimens(s, <<ss[1], c.nu, c.nu, 1>>))]
      g(f) == IF f THEN c.g ELSE unfolded
      rule(f) == Rule(f, g(f), c.q, c.yp, c.nu, c.ys, c.sigma)
      rules == {rule(TRUE), rule(FALSE), UnfoldRule(rule(TRUE)), FoldRule(rule(FALSE))}
      welfare == FillTensors(TRUE, [s \in DOMAIN c.g |-> Rows(c.g[s], 0, 1)], c.q, 1, ss, 1)
      fix(f) == FixPoint(f, g(f), c.q, c.yp, c.ys, c.sigma)
      dev(p) == addTo(p.ys, -1, Star(c.yp, c.ys))
      ems == {"horner", "trad"}
  IN  /\ stage = "rule"
      /\ outcome' =
           [op |-> "rule",
            values |-> [p \in c.points |-> {evaluate(em, r, p.ys, p.u) : em \in ems, r \in rules}],
            central |-> [p \in c.points |-> {evaluate(em, centralize(r, c.fix), p.ys, p.u) :
                                               em \in ems, r \in rules}],
            welfare |-> [p \in c.points |-> evalHorner(welfare, dev(p) \o p.u)],
            bigf |-> [p \in c.points |-> {evalHorner(fix(f).bigf, dev(p)) : f \in BOOLEAN}],
            fixed |-> [p \in c.points |-> {evalHorner(fix(f).pol, dev(p)) : f \in BOOLEAN}]]
      /\ stage' = "done"
      /\ UNCHANGED <<job, waiting, control, irf, rt>>

(* mexFunction of dynare_simul_.                                            *)
mexFunction ==
  LET c == job
      nv == nys(c.yp) + c.nexog
      wrong == \/ ny(c.yp) \notin {Len(c.ystart)} \cap {Len(c.ysteady)}
               \/ \E j \in DOMAIN c.sh : Len(c.sh[j]) # c.nexog
               \/ Len(c.factor.col) # c.nexog
               \/ \E d \in 0..c.order : \/ d \notin DOMAIN c.gk
                                        \/ Len(c.gk[d].col) # FMaxOffset(nv, d)
                                        \/ c.gk[d].nr # ny(c.yp)
      pol == Fold(LAMBDA p, d : Inserted(p, d, UnfoldFS(c.gk[d], nv, d)),
                  EmptyPol(FALSE, ny(c.yp), nv), UpTo(c.order + 1))
      dr == [pol |-> pol, ysteady |-> c.ysteady, yp |-> c.yp, nu |-> c.nexog]
  IN  /\ stage = "simul"
      /\ outcome' = IF wrong THEN [op |-> "error"]
                    ELSE [op |-> "simul", dr |-> dr,
                          res |-> simulate(dr, Len(c.sh), c.ystart,
                                           [n \in 0..(Len(c.sh) - 1) |->
                                              GenGet(c.factor, c.stream, c.sh, n)])]
      /\ stage' = "done"
      /\ UNCHANGED <<job, waiting, control, irf, rt>>

Finished == stage = "done" /\ UNCHANGED ruleVars

RuleNext == \/ \E w \in waiting : AddSimulation(w) \/ AddResponse(w) \/ AddRealTime(w)
            \/ FinishSimulation \/ FinishResponses \/ FinishRealTime
            \/ Expand \/ mexFunction \/ Finished

-----------------------------------------------------------------------------
(* What rules mean: the sum over the derivatives, each divided by the       *)
(* factorials of its symmetry, at a deviation y and shocks u.               *)
TermAt(g, s, yp, nu, sigma, r, y, u) ==
  LET td == Dimens(s, <<nys(yp), nu, nu, 1>>)
      t == Unfold2(g[s], td)
      cs == UCoords(td.nvmax)
      x(k, p) == IF p <= s[1] THEN y[cs[k][p] + 1] ELSE u[cs[k][p] + 1]
  IN  Total([k \in DOMAIN cs |->
               (t.col[k][r] \div (Fact(s[1]) * Fact(s[2]) * Fact(s[4]))) * Power(sigma, s[4])
                 * Product([p \in 1..(s[1] + s[2]) |-> x(k, p)])])

ExpansionAt(c, sigma, y, u) ==
  [r \in 1..ny(c.yp) |-> SumOfAll(DOMAIN c.g, LAMBDA s : TermAt(c.g, s, c.yp, c.nu, sigma, r, y, u))]

(* However a rule is stored and evaluated, it is the Taylor expansion of    *)
(* its derivatives (fillTensors, addSubTensor); a rule centralized about    *)
(* another point takes the same steps away from it; and F of the fixed      *)
(* point search is what one step without shocks adds to y*.                 *)
RulesAreExpansions ==
  outcome.op = "rule" =>
    LET c == job
        zero == [i \in 1..c.nu |-> 0]
        dev(y) == addTo(y, -1, Star(c.yp, c.ys))
        at(p) == ExpansionAt(c, c.sigma, dev(p.ys), p.u)
        still(y) == ExpansionAt(c, c.sigma, dev(y), zero)
    IN  \A p \in c.points :
          /\ outcome.values[p] = {addTo(c.ys, 1, at(p))}
          /\ outcome.central[p] = {addTo(addTo(c.fix, 1, at(p)), -1, still(Star(c.yp, c.fix)))}
          /\ outcome.welfare[p] = SubSeq(ExpansionAt(c, 1, dev(p.ys), p.u), 1, 1)
          /\ outcome.fixed[p] = {still(p.ys)}
          /\ outcome.bigf[p] = {addTo(Star(c.yp, still(p.ys)), -1, dev(p.ys))}

(* Data are a path: each period is the rule at the one before.              *)
IsPath(dr, start, shocks, data) ==
  \A j \in DOMAIN data :
    data[j] = evaluate("trad", dr, Star(dr.yp, IF j = 1 THEN start ELSE data[j - 1]), shocks[j])

PathOf(dr, start, shocks) ==
  LET y[j \in DOMAIN shocks] ==
        evaluate("trad", dr, Star(dr.yp, IF j = 1 THEN start ELSE y[j - 1]), shocks[j])
  IN  y

(* dynare_simul_ returns the path of the rule under the given shocks, with  *)
(* the draw of the period wherever one is missing; after a period that is   *)
(* not finite there are zeros.                                              *)
SimulIsAPath ==
  outcome.op = "simul" =>
    LET c == job
        shocks == [j \in DOMAIN c.sh |-> [k \in 1..c.nexog |->
                     IF c.sh[j][k] = Inf THEN RandomGet(c.factor, c.stream, j - 1)[k] ELSE c.sh[j][k]]]
        path == PathOf(outcome.dr, c.ystart, shocks)
    IN  /\ Len(outcome.res) = Len(c.sh)
        /\ \A j \in DOMAIN c.sh :
             \/ AllFinite(SubSeq(path, 1, j)) /\ outcome.res[j] = path[j]
             \/ ~AllFinite(SubSeq(path, 1, j))
                /\ (~isFinite(outcome.res[j]) \/ outcome.res[j] = [k \in 1..ny(c.yp) |-> 0])

ShocksOf(w) == [j \in 1..(job.num_per + job.num_burn) |-> Stream(w, j - 1)]

WorkerPath(w) == PathOf(job.dr, job.start, ShocksOf(w))

(* In whatever order the threads add their data, the results hold those of  *)
(* each finished simulation whose path is finite, once, with the shocks it  *)
(* was made with, less the burned periods, and nothing else.                *)
SimulationsArePaths ==
  control # Nothing /\ job.kind # "realtime" =>
    LET finished == IF stage = "control" THEN 1..job.num_sim \ waiting ELSE 1..job.num_sim
        kept(c) == SubSeq(c, job.num_burn + 1, job.num_burn + job.num_per)
        valid == {w \in finished : AllFinite(WorkerPath(w))}
    IN  /\ {[data |-> s.data, shocks |-> s.shocks] : s \in {control.sets[k] : k \in DOMAIN control.sets}}
             = {[data |-> kept(WorkerPath(w)), shocks |-> kept(ShocksOf(w))] : w \in valid}
        /\ Len(control.sets) = Cardinality(valid)
        /\ job.num_burn = 0 => \A k \in DOMAIN control.sets : control.sets[k].start = job.start

(* What is stored for an impulse is the difference between a control and    *)
(* the path from the same start under the same shocks with the impulse in   *)
(* the first period, once for each control for which that path is finite.   *)
(* It holds for controls without burned periods, whose start is kept.       *)
ResponsesAreDifferences ==
  stage \in {"irf", "done"} /\ job.kind = "unconditional" /\ job.num_burn = 0 =>
    \A k \in DOMAIN irf :
      LET hit(c) == [c.shocks EXCEPT ![1][irf[k].ishock] = @ + irf[k].imp]
          path(c) == PathOf(job.dr, job.start, hit(c))
          i(w) == control.sets[w]
          from == {w \in DOMAIN control.sets :
                     AllFinite(path(i(w))) /\ (k < Len(irf) \/ w \notin waiting)}
          response(c) == [j \in 1..job.num_per |-> addTo(path(c)[j], -1, c.data[j])]
      IN  /\ {[data |-> s.data, shocks |-> s.shocks] : s \in {irf[k].sets[m] : m \in DOMAIN irf[k].sets}}
               = {[data |-> response(i(w)), shocks |-> hit(i(w))] : w \in from}
          /\ Len(irf[k].sets) = Cardinality(from)

(* Means and covariances are those of the sample, in terms of the sums of   *)
(* values and of products.                                                  *)
IsMean(mean, cols) ==
  \A r \in DOMAIN mean : Len(cols) * mean[r] = Total([j \in DOMAIN cols |-> cols[j][r]])

IsCovariance(v, cols, r, k) ==
  LET n == Len(cols)
      sum(f(_)) == Total([j \in DOMAIN cols |-> f(cols[j])])
  IN  IF n <= 1 THEN v = Inf
      ELSE n * (n - 1) * v = n * sum(LAMBDA c : c[r] * c[k])
                               - sum(LAMBDA c : c[r]) * sum(LAMBDA c : c[k])

(* The statistics of main.cc: over all periods of the unconditional         *)
(* simulations, within each period of the conditional ones, and the mean of *)
(* the responses, over the simulations that were kept.                      *)
StatisticsAreMoments ==
  /\ outcome.op = "stats" =>
       LET cols == Observations(control)
       IN  /\ IsMean(outcome.mean, cols)
           /\ \A r, k \in DOMAIN outcome.mean : IsCovariance(outcome.vcov[r][k], cols, r, k)
           /\ \A k \in DOMAIN outcome.irf : \A j \in 1..job.num_per :
                IsMean(outcome.irf[k].means[j], Period(irf[k], j))
  /\ outcome.op = "dynamic" =>
       \A j \in 1..job.num_per :
         /\ IsMean(outcome.mean[j], Period(control, j))
         /\ \A r \in DOMAIN outcome.mean[j] :
              IsCovariance(outcome.variance[j][r], Period(control, j), r, r)

(* The observations of a real-time simulation.                              *)
RTLast(w) == LastPeriod(RTPath(w), job.num_burn + job.num_per)

RTObs(w) == [k \in 1..(RTLast(w) - job.num_burn + 1) |-> RTPath(w)[job.num_burn + k - 1]]

RTDone == IF stage = "rt" THEN 1..job.num_sim \ waiting ELSE 1..job.num_sim

RTAll == Flat([w \in 1..job.num_sim |-> IF w \in RTDone THEN RTObs(w) ELSE <<>>])

(* In whatever order the threads merge what they gathered, the mean is that *)
(* of all observations, kappa is their number and nu one less, as long as   *)
(* all are finite; only simulations that ended before the burned periods    *)
(* did, merged first, leave no mean at all.  The periods thrown are those   *)
(* from the one that was not finite on.                                     *)
RealTimeMeansAreExact ==
  job.kind = "realtime" => \A all \in {RTAll} :
    /\ rt.nc.kappa = Len(all) /\ rt.nc.nu = rt.nc.kappa - 1
    /\ AllFinite(all) /\ RTDone # {} =>
         \/ rt.nc.kappa > 0 /\ IsMean(rt.nc.mu, all)
         \/ ~isFinite(rt.nc.mu) /\ \E w \in RTDone : RTObs(w) = <<>>
    /\ job.num_burn = 0 =>
         LET gone(w) == {p \in 0..(job.num_per - 1) : p >= RTLast(w)}
         IN  /\ rt.thrown = SumOfAll(RTDone, LAMBDA w : Cardinality(gone(w)))
             /\ rt.incomplete = Cardinality({w \in RTDone : gone(w) # {}})

(* The posterior for all observations: Lambda is the sum of the outer       *)
(* products of the deviations from their mean (normal_conjugate.hh).        *)
LambdaIsTheSumOfSquares ==
  job.kind = "realtime" /\ rt.nc.kappa > 0 /\ isFinite(rt.nc.mu) =>
    \A all \in {RTAll} : \A r, k \in DOMAIN rt.nc.mu :
      LET n == Len(all)
          sum(f(_)) == Total([j \in 1..n |-> f(all[j])])
      IN  AllFinite(all) => n * rt.nc.lambda[r][k] = n * sum(LAMBDA y : y[r] * y[k])
                                     - sum(LAMBDA y : y[r]) * sum(LAMBDA y : y[k])

(* What the checks look at: the rule and the paths that mexFunction makes   *)
(* from given derivatives, and the data, responses and statistics that the  *)
(* threads gather.                                                          *)
RulesAreExact == RulesAreExpansions /\ SimulIsAPath

SimulationsAreExact ==
  SimulationsArePaths /\ ResponsesAreDifferences /\ StatisticsAreMoments /\ RealTimeMeansAreExact
============================================================================

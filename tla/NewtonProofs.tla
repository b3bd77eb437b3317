---------------------------- MODULE NewtonProofs ----------------------------
(***************************************************************************)
(* Proofs about NewtonControl, for every sequence of residuals, any limit   *)
(* on the iterations and any number of periods: the iterations are left     *)
(* after an evaluation that converged, at its point or, if it was rejected, *)
(* where the code then moves; every step starts where its derivatives were  *)
(* taken; and the factors of UMFPACK are freed.                             *)
(***************************************************************************)
EXTENDS NewtonControl, TLAPS

Kind == method.kind

Value == [nan : BOOLEAN, cvg : BOOLEAN, sq : Nat]

\* Where a block of each kind may be.
Places ==
  [off |-> {"off"}, simple |-> {"simple", "cut", "next"},
   two |-> {"two", "search"}, one |-> {"one", "nan", "large", "simulate", "next"}]

TypeOK ==
  /\ method \in Methods
  /\ pc \in {"done", "solved", "thrown"} \cup Places[Kind]
  /\ iter \in Nat /\ g0 \in Nat /\ it_ \in Nat
  /\ res \in Value
  /\ last = [at |-> last.at, v |-> last.v, jacobian |-> last.jacobian] /\ last.v \in Value
  /\ last.jacobian = [at |-> last.jacobian.at, v |-> last.jacobian.v]
  /\ last.jacobian.v \in Value

\* What a rejected step is compared with is positive, as the reference comes from
\* a point that was not yet a solution; but not after a line search, which leaves
\* the sum of one period.
ReferenceIsPositive == Kind = "two" /\ pc = "two" /\ iter > 0 /\ method.algo # 4 => g0 > 0

\* The residuals that are tested are those of the derivatives in use.
ResidualsAreCurrent ==
  /\ pc \in {"nan", "large"} => iter > 0
  /\ pc = "simulate" => (res.nan <=> last.jacobian.v.nan)
  /\ pc = "simulate" /\ iter = 0 => ~res.cvg \/ res.nan

NoFactors == [Symbolic |-> 0, Numeric |-> 0]
OneOfEach == [Symbolic |-> 1, Numeric |-> 1]

\* There are factors only after the first step of a block solved with UMFPACK.
FactorsAreKnown ==
  /\ live \in {NoFactors, OneOfEach}
  /\ live = OneOfEach => UsesLU /\ Kind \in {"one", "two"} /\ pc # "solved"
  /\ live = OneOfEach /\ pc \notin {"search", "next", "done", "thrown"} => iter > 0
  /\ Kind = "one" /\ method.steady => it_ = method.y_kmin
  /\ pc = "search" => method.algo = 4

IInv ==
  /\ TypeOK
  /\ ReferenceIsPositive
  /\ ResidualsAreCurrent
  /\ FactorsAreKnown
  /\ LeavesAtTheSolution
  /\ SystemsAreOfTheCurrentPoint

-----------------------------------------------------------------------------
\* What an evaluation leaves behind.
LEMMA Evaluation ==
  ASSUME TypeOK, NEW p, NEW v \in Residuals, NEW d \in BOOLEAN, Evaluated(p, v, d)
  PROVE  /\ last' = [at |-> p, v |-> v, jacobian |-> IF d THEN [at |-> p, v |-> v] ELSE last.jacobian]
         /\ v \in Value
BY ResidualsAssumption DEF Evaluated, TypeOK, Value

\* A sum that cannot be computed leaves the largest residual and the sum of squares.
LEMMA Completed ==
  ASSUME TypeOK, NEW v \in Residuals
  PROVE  /\ compute_complete(v) \in Value
         /\ compute_complete(v).nan = v.nan
         /\ ~v.nan => compute_complete(v) = v
         /\ Unknown(compute_complete(v)) \in Value /\ Unknown(compute_complete(v)).nan
BY ResidualsAssumption DEF compute_complete, Unknown, TypeOK, Value

\* A step allocates at most one set of factors.
LEMMA Step ==
  ASSUME IInv, StepTaken, Kind \in {"one", "two"}, pc \in {"two", "one", "simulate"}
  PROVE  /\ system' = [jacobian |-> last'.jacobian, y |-> y]
         /\ live' \in {NoFactors, OneOfEach}
         /\ live' = OneOfEach => UsesLU
<1> USE DEF IInv, FactorsAreKnown, NoFactors, OneOfEach
<1>1. system' = [jacobian |-> last'.jacobian, y |-> y]
  BY DEF StepTaken
<1>2. CASE UNCHANGED live
  BY <1>1, <1>2
<1>3. CASE UsesLU /\ live' = Factorised /\ ~NotAnalysed
  <2>1. iter \in Nat
    BY DEF TypeOK
  <2>2. CASE iter = 0
    <3>1. live = NoFactors
      BY <2>2
    <3> QED
      BY <1>1, <1>3, <2>2, <3>1 DEF Factorised
  <2>3. CASE iter > 0
    <3>1. live.Symbolic # 0
      BY <1>3, <2>3 DEF NotAnalysed
    <3>2. live = OneOfEach
      BY <3>1
    <3> QED
      BY <1>1, <1>3, <2>3, <3>2 DEF Factorised
  <2> QED
    BY <2>1, <2>2, <2>3
<1> QED
  BY <1>2, <1>3 DEF StepTaken, Moved, Unmoved, ZeroSolution

-----------------------------------------------------------------------------
LEMMA VeryBig == very_big \in Nat /\ very_big > 0
BY SMT DEF very_big

\* A block begins without a solution and without factors.
LEMMA InitIInv == NewtonInit => IInv
<1> SUFFICES ASSUME NewtonInit PROVE IInv
  OBVIOUS
<1>1. /\ Kind \in {"off", "simple", "one", "two"} /\ method.y_kmin \in Nat
  BY MethodsAssumption DEF NewtonInit, Kind
<1>2. PICK c \in BOOLEAN : res = [nan |-> FALSE, cvg |-> c, sq |-> 0]
  BY DEF NewtonInit
<1>3. res \in Value /\ ~res.nan
  BY <1>2 DEF Value
<1>4. NaN \in Value /\ NaN.nan /\ ~Zero.nan
  BY DEF NaN, Zero, Value
<1>5. TypeOK
  BY <1>1, <1>3, <1>4, VeryBig DEF NewtonInit, TypeOK, Kind, Places, NoEvaluation
<1>6. SystemsAreOfTheCurrentPoint
  BY <1>4 DEF NewtonInit, SystemsAreOfTheCurrentPoint
<1>7. FactorsAreKnown
  BY <1>1 DEF NewtonInit, FactorsAreKnown, NoFactors, OneOfEach, Kind
<1> QED
  BY <1>1, <1>5, <1>6, <1>7 DEF NewtonInit, IInv, ReferenceIsPositive, ResidualsAreCurrent,
     LeavesAtTheSolution, Kind

-----------------------------------------------------------------------------
(* Blocks with two boundaries *)

\* What the kind of a block, and its place, may be.
LEMMA Kinds ==
  ASSUME TypeOK
  PROVE  /\ Kind \in {"off", "simple", "one", "two"} /\ method.steady \in BOOLEAN
         /\ method.linear \in BOOLEAN
         /\ Kind = "one" /\ UsesLU => method.steady /\ method.periods = 1
         /\ method.y_kmin \in Nat /\ method.periods \in Nat
         /\ Kind = "two" => ~method.steady
         /\ pc \in {"two", "search"} => Kind = "two"
         /\ pc \in {"one", "nan", "large", "simulate"} => Kind = "one"
         /\ pc \in {"simple", "cut"} => Kind = "simple"
         /\ pc = "next" => Kind \in {"simple", "one"}
BY MethodsAssumption DEF TypeOK, Kind, Places, UsesLU

LEMMA GiveUpKeeps == ASSUME IInv, GiveUp PROVE IInv'
<1> USE DEF IInv
<1>1. PICK v \in Residuals : compute_complete_2b(v) /\ Rejects(v) /\ GivesUp /\ ThrowError
  BY DEF GiveUp
<1>2. /\ last' = [at |-> y, v |-> v, jacobian |-> [at |-> y, v |-> v]]
      /\ v \in Value /\ pc = "two" /\ Kind = "two"
  BY <1>1, Evaluation, Kinds DEF compute_complete_2b
<1>3. TypeOK'
  BY <1>1, <1>2 DEF ThrowError, TypeOK, Kind, Places
<1>4. FactorsAreKnown'
  BY <1>1, <1>2 DEF ThrowError, FactorsAreKnown, Kind, UsesLU
<1> QED
  BY <1>1, <1>2, <1>3, <1>4 DEF ThrowError, ReferenceIsPositive, ResidualsAreCurrent,
     LeavesAtTheSolution, SystemsAreOfTheCurrentPoint, Kind

LEMMA ShortenKeeps == ASSUME IInv, Shorten \/ BackTrack PROVE IInv'
<1> USE DEF IInv
<1>1. PICK v \in Residuals :
        /\ compute_complete_2b(v) /\ Rejects(v) /\ ~GivesUp
        /\ g0' = g0 \/ (g0' = v.sq /\ ~v.nan)
        /\ ~v.nan /\ method.algo = 4 => y' = FullStep /\ UNCHANGED dir
        /\ pc' = (IF Cvg(v) THEN "done" ELSE "two")
        /\ res' = v /\ UNCHANGED <<method, it_, iter, system, live>>
  BY DEF Shorten, BackTrack
<1>2. /\ last' = [at |-> y, v |-> v, jacobian |-> [at |-> y, v |-> v]]
      /\ v \in Value /\ pc = "two" /\ Kind = "two"
  BY <1>1, Evaluation, Kinds DEF compute_complete_2b
<1>0. iter > 0 /\ iter \in Nat
  BY <1>1 DEF GivesUp, TypeOK
<1>3. TypeOK'
  BY <1>0, <1>1, <1>2 DEF TypeOK, Kind, Places, Value
<1>4. FactorsAreKnown'
  BY <1>0, <1>1, <1>2 DEF FactorsAreKnown, Kind, UsesLU
<1>5. g0 \in Nat /\ (method.algo # 4 => g0 > 0)
  BY <1>0, <1>2 DEF ReferenceIsPositive, TypeOK
<1>6. ReferenceIsPositive'
  BY <1>0, <1>1, <1>2, <1>5, ResidualsAssumption DEF ReferenceIsPositive, Cvg, Value
<1>7. LeavesAtTheSolution'
  <2>1. CASE Cvg(v)
    <3>1. method.algo # 4 => v.sq > 12
      BY <1>0, <1>1, <1>2, <1>5, <2>1 DEF Rejects, Cvg, Value
    <3>2. method.algo = 4 => y' = FullStep'
      BY <1>1, <2>1 DEF Cvg, FullStep
    <3> QED
      BY <1>0, <1>1, <1>2, <2>1, <3>1, <3>2 DEF LeavesAtTheSolution, Cvg, Value
  <2> QED
    BY <1>1, <2>1 DEF LeavesAtTheSolution
<1> QED
  BY <1>0, <1>1, <1>2, <1>3, <1>4, <1>6, <1>7 DEF ResidualsAreCurrent, SystemsAreOfTheCurrentPoint, Kind

LEMMA ConvergeKeeps == ASSUME IInv, Converge PROVE IInv'
<1> USE DEF IInv
<1>1. PICK v \in Residuals :
        /\ compute_complete_2b(v) /\ ~Rejects(v) /\ Cvg(v) /\ res' = v /\ Accepted("done")
        /\ UNCHANGED <<y, system, live>>
  BY DEF Converge
<1>2. /\ last' = [at |-> y, v |-> v, jacobian |-> [at |-> y, v |-> v]]
      /\ v \in Value /\ pc = "two" /\ Kind = "two"
  BY <1>1, Evaluation, Kinds DEF compute_complete_2b
<1>3. TypeOK'
  BY <1>1, <1>2 DEF Accepted, TypeOK, Kind, Places, Value
<1>4. FactorsAreKnown'
  BY <1>1, <1>2 DEF Accepted, FactorsAreKnown, Kind, UsesLU
<1> QED
  BY <1>1, <1>2, <1>3, <1>4 DEF Accepted, ReferenceIsPositive, ResidualsAreCurrent, Cvg,
     LeavesAtTheSolution, SystemsAreOfTheCurrentPoint, Kind

LEMMA TwoBoundariesKeep ==
  ASSUME IInv, Simulate_Newton_Two_Boundaries \/ SimulateLinear PROVE IInv'
<1> USE DEF IInv
<1>1. PICK v \in Residuals :
        /\ compute_complete_2b(v) /\ ~Rejects(v)
        /\ \/ Fails /\ ThrowError
           \/ StepTaken /\ Searches(v)
           \/ /\ ~Linear /\ ~Cvg(v) /\ StepTaken /\ method.algo # 4
              /\ res' = v /\ Accepted("two")
           \/ Linear /\ StepTaken /\ pc' = "done" /\ res' = v
              /\ UNCHANGED <<method, it_, iter, g0, slow>>
  BY DEF Simulate_Newton_Two_Boundaries, SimulateLinear
<1>2. /\ last' = [at |-> y, v |-> v, jacobian |-> [at |-> y, v |-> v]]
      /\ v \in Value /\ pc = "two" /\ Kind = "two" /\ ~v.nan
  BY <1>1, Evaluation, Kinds DEF compute_complete_2b, Rejects
<1>3. CASE ThrowError
  <2>1. TypeOK'
    BY <1>2, <1>3 DEF ThrowError, TypeOK, Kind, Places
  <2>2. FactorsAreKnown'
    BY <1>2, <1>3 DEF ThrowError, FactorsAreKnown, Kind, UsesLU
  <2> QED
    BY <1>2, <1>3, <2>1, <2>2 DEF ThrowError, ReferenceIsPositive, ResidualsAreCurrent,
       LeavesAtTheSolution, SystemsAreOfTheCurrentPoint, Kind
<1>4. ASSUME StepTaken
      PROVE  /\ system' = [jacobian |-> [at |-> y, v |-> v], y |-> y]
             /\ live' \in {NoFactors, OneOfEach} /\ (live' = OneOfEach => UsesLU)
  BY <1>2, <1>4, Step
<1>7. CASE StepTaken /\ Searches(v)
  <2>1. pc' = "search" /\ res' = v /\ UNCHANGED <<method, it_, iter, g0, slow>>
    BY <1>7 DEF Searches
  <2>2. TypeOK'
    BY <1>2, <2>1 DEF TypeOK, Kind, Places, Value
  <2>3. FactorsAreKnown'
    BY <1>2, <1>4, <1>7, <2>1 DEF FactorsAreKnown, Kind, UsesLU, Searches
  <2> QED
    BY <1>2, <1>4, <1>7, <2>1, <2>2, <2>3 DEF ReferenceIsPositive, ResidualsAreCurrent,
       LeavesAtTheSolution, SystemsAreOfTheCurrentPoint, Kind
<1>5. CASE ~Linear /\ ~Cvg(v) /\ StepTaken /\ res' = v /\ Accepted("two")
  <2>1. /\ iter' = iter + 1 /\ g0' = v.sq /\ pc' \in {"two", "thrown"}
        /\ res' = v /\ UNCHANGED <<method, it_>> /\ iter \in Nat
    BY <1>5 DEF Accepted, TypeOK
  <2>2. TypeOK'
    BY <1>2, <2>1 DEF TypeOK, Kind, Places, Value
  <2>3. FactorsAreKnown'
    BY <1>2, <1>4, <1>5, <2>1 DEF FactorsAreKnown, Kind, UsesLU
  <2>4. ReferenceIsPositive'
    BY <1>2, <1>5, <2>1, ResidualsAssumption DEF ReferenceIsPositive, Cvg
  <2> QED
    BY <1>2, <1>4, <1>5, <2>1, <2>2, <2>3, <2>4 DEF ResidualsAreCurrent, LeavesAtTheSolution,
       SystemsAreOfTheCurrentPoint, Kind
<1>6. CASE /\ Linear /\ StepTaken /\ pc' = "done" /\ res' = v
           /\ UNCHANGED <<method, it_, iter, g0, slow>>
  <2>1. TypeOK'
    BY <1>2, <1>6 DEF TypeOK, Kind, Places, Value
  <2>2. FactorsAreKnown'
    BY <1>2, <1>4, <1>6 DEF FactorsAreKnown, Kind, UsesLU
  <2> QED
    BY <1>2, <1>4, <1>6, <2>1, <2>2 DEF ReferenceIsPositive, ResidualsAreCurrent,
       LeavesAtTheSolution, SystemsAreOfTheCurrentPoint, Kind, Linear
<1> QED
  BY <1>1, <1>3, <1>5, <1>6, <1>7

\* The line search replaces the sum of squares, and leaves the system it follows.
LEMMA LineSearchKeeps == ASSUME IInv, LineSearch PROVE IInv'
<1> USE DEF IInv
<1>0. PICK w \in Residuals : \E sq \in LastSum(w) :
        Evaluated([n |-> dir, l |-> <<"searched", 0>>], w, FALSE) /\ res' = [w EXCEPT !.sq = sq]
  BY DEF LineSearch
<1>1. PICK sq \in LastSum(w) :
        Evaluated([n |-> dir, l |-> <<"searched", 0>>], w, FALSE) /\ res' = [w EXCEPT !.sq = sq]
  BY <1>0
<1>2. /\ pc = "search" /\ UNCHANGED <<method, it_, dir, system, live>>
      /\ \/ Linear /\ pc' = "done" /\ UNCHANGED <<iter, g0>>
         \/ iter' = iter + 1 /\ g0' = res'.sq /\ pc' \in {"two", "thrown"}
  BY DEF LineSearch, Accepted
<1>3. /\ last' = [at |-> [n |-> dir, l |-> <<"searched", 0>>], v |-> w, jacobian |-> last.jacobian]
      /\ w \in Value /\ Kind = "two" /\ ~method.steady
  BY <1>1, <1>2, Evaluation, Kinds
<1>4. sq \in Nat
  BY <1>1, <1>3, SumsAssumption DEF LastSum, TypeOK, Value
<1>5. res' \in Value /\ res'.sq \in Nat
  BY <1>1, <1>3, <1>4 DEF Value
<1>6. iter \in Nat /\ method.algo = 4
  BY <1>2 DEF TypeOK, FactorsAreKnown
<1>7. TypeOK'
  BY <1>2, <1>3, <1>5, <1>6 DEF TypeOK, Kind, Places
<1>8. FactorsAreKnown'
  BY <1>2, <1>3, <1>6 DEF FactorsAreKnown, Kind, UsesLU
<1> QED
  BY <1>2, <1>3, <1>6, <1>7, <1>8 DEF ReferenceIsPositive, ResidualsAreCurrent,
     LeavesAtTheSolution, SystemsAreOfTheCurrentPoint, Kind, Linear

-----------------------------------------------------------------------------
(* Blocks with one boundary *)

LEMMA SolveLinearKeeps == ASSUME IInv, solve_linear PROVE IInv'
<1> USE DEF IInv
<1> DEFINE found(v) == compute_complete(v).cvg /\ ~compute_complete(v).nan
<1>1. PICK v \in Residuals :
        /\ Evaluated(y, v, TRUE) /\ res' = compute_complete(v)
        /\ \/ found(v) /\ pc' = "next" /\ y' = y
           \/ ~found(v) /\ pc' = "simulate"
           \/ iter > 0 /\ pc' = "nan"
  BY DEF solve_linear
<1>2. pc = "one" /\ UNCHANGED <<method, it_, iter, g0, system, live>>
  BY DEF solve_linear
<1>3. /\ last' = [at |-> y, v |-> v, jacobian |-> [at |-> y, v |-> v]]
      /\ v \in Value /\ Kind = "one"
  BY <1>1, <1>2, Evaluation, Kinds
<1>4. /\ res' \in Value /\ res'.nan = v.nan /\ (~v.nan => res' = v)
  BY <1>1, Completed
<1>5. TypeOK'
  BY <1>1, <1>2, <1>3, <1>4 DEF TypeOK, Kind, Places
<1>6. FactorsAreKnown'
  BY <1>1, <1>2, <1>3 DEF FactorsAreKnown, Kind, UsesLU
<1>7. ResidualsAreCurrent'
  BY <1>1, <1>2, <1>3, <1>4 DEF ResidualsAreCurrent
<1>8. LeavesAtTheSolution'
  BY <1>1, <1>2, <1>3, <1>4 DEF LeavesAtTheSolution
<1> QED
  BY <1>2, <1>3, <1>5, <1>6, <1>7, <1>8 DEF ReferenceIsPositive, SystemsAreOfTheCurrentPoint, Kind

LEMMA CorrectKeeps == ASSUME IInv, Correct PROVE IInv'
<1> USE DEF IInv
<1> DEFINE p == Damped(Reduced(slow))
<1>1. PICK v \in Residuals : Evaluated(p, v, FALSE) /\ res' = compute_complete(v)
  BY DEF Correct
<1>2. /\ pc \in {"nan", "large"} /\ pc' \in {"nan", "large"}
      /\ UNCHANGED <<method, it_, iter, g0, system, live>>
  BY DEF Correct, NotEvaluated, TooLarge
<1>3. last' = [at |-> p, v |-> v, jacobian |-> last.jacobian] /\ v \in Value
  BY <1>1, Evaluation
<1>4. res' \in Value /\ Kind = "one"
  BY <1>1, <1>2, Completed, Kinds
<1>5. TypeOK'
  BY <1>2, <1>3, <1>4 DEF TypeOK, Kind, Places
<1>6. FactorsAreKnown'
  BY <1>2 DEF FactorsAreKnown, Kind, UsesLU
<1> QED
  BY <1>2, <1>4, <1>5, <1>6 DEF ReferenceIsPositive, ResidualsAreCurrent, LeavesAtTheSolution,
     SystemsAreOfTheCurrentPoint, Kind

LEMMA CorrectedKeeps == ASSUME IInv, Corrected PROVE IInv'
<1> USE DEF IInv
<1> DEFINE p == Damped(slow)
<1>1. PICK v \in Residuals : Evaluated(p, v, TRUE) /\ res' = compute_complete(v)
  BY DEF Corrected
<1>2. /\ pc \in {"nan", "large"} /\ pc' = "simulate"
      /\ UNCHANGED <<method, it_, iter, g0, system, live>>
  BY DEF Corrected
<1>3. last' = [at |-> p, v |-> v, jacobian |-> [at |-> p, v |-> v]] /\ v \in Value
  BY <1>1, Evaluation
<1>4. res' \in Value /\ res'.nan = v.nan /\ Kind = "one"
  BY <1>1, <1>2, Completed, Kinds
<1>5. TypeOK'
  BY <1>2, <1>3, <1>4 DEF TypeOK, Kind, Places
<1>6. FactorsAreKnown'
  BY <1>2 DEF FactorsAreKnown, Kind, UsesLU
<1>7. ResidualsAreCurrent'
  <2>1. iter > 0
    BY <1>2 DEF ResidualsAreCurrent
  <2> QED
    BY <1>2, <1>3, <1>4, <2>1 DEF ResidualsAreCurrent
<1> QED
  BY <1>2, <1>4, <1>5, <1>6, <1>7 DEF ReferenceIsPositive, LeavesAtTheSolution,
     SystemsAreOfTheCurrentPoint, Kind

LEMMA OneBoundaryKeeps == ASSUME IInv, Simulate_One_Boundary PROVE IInv'
<1> USE DEF IInv
<1>1. pc = "simulate" /\ UNCHANGED last
  BY DEF Simulate_One_Boundary
<1>2. Kind = "one" /\ iter \in Nat /\ res \in Value
  BY <1>1, Kinds DEF TypeOK
<1>3. CASE ThrowError
  <2>1. TypeOK'
    BY <1>1, <1>2, <1>3 DEF ThrowError, TypeOK, Kind, Places
  <2>2. FactorsAreKnown'
    BY <1>1, <1>2, <1>3 DEF ThrowError, FactorsAreKnown, Kind, UsesLU
  <2> QED
    BY <1>1, <1>2, <1>3, <2>1, <2>2 DEF ThrowError, ReferenceIsPositive, ResidualsAreCurrent,
       LeavesAtTheSolution, SystemsAreOfTheCurrentPoint, Kind
<1>4. CASE ~ThrowError
  <2>1. /\ (res.nan => method.steady) /\ StepTaken
        /\ \/ Linear /\ pc' = "next" /\ UNCHANGED <<iter, g0>>
           \/ /\ ~Linear /\ iter' = iter + 1 /\ g0' = res.sq
              /\ \/ pc' = "next" /\ iter = 0 /\ res.cvg
                 \/ pc' \in {"one", "thrown"}
        /\ UNCHANGED <<method, it_, res>>
    BY <1>4 DEF Simulate_One_Boundary
  <2>2. /\ system' = [jacobian |-> last.jacobian, y |-> y]
        /\ live' \in {NoFactors, OneOfEach} /\ (live' = OneOfEach => UsesLU)
    BY <1>1, <1>2, <2>1, Step
  <2>3. iter' \in Nat /\ g0' \in Nat
    BY <1>2, <2>1 DEF TypeOK, Value
  <2>4. TypeOK'
    BY <1>1, <1>2, <2>1, <2>3 DEF TypeOK, Kind, Places
  <2>5. FactorsAreKnown'
    BY <1>2, <2>1, <2>2 DEF FactorsAreKnown, Kind, UsesLU
  <2>6. LeavesAtTheSolution'
    BY <1>1, <2>1 DEF LeavesAtTheSolution, ResidualsAreCurrent, Linear
  <2>7. SystemsAreOfTheCurrentPoint'
    BY <1>1, <1>2, <2>1, <2>2 DEF SystemsAreOfTheCurrentPoint, ResidualsAreCurrent, Kind
  <2> QED
    BY <1>2, <2>1, <2>4, <2>5, <2>6, <2>7 DEF ReferenceIsPositive, ResidualsAreCurrent, Kind
<1> QED
  BY <1>3, <1>4

-----------------------------------------------------------------------------
(* One equation *)

\* A block of one equation keeps no linear system and no factors.
LEMMA SimpleKeeps ==
  ASSUME IInv, NEW r, NEW v \in Residuals, Evaluated(y, v, TRUE), Kind = "simple",
         r \in Value, res' = r, ~r.nan => r = v,
         pc' \in {"cut", "simple", "thrown", "next"}, iter' \in Nat,
         pc' = "next" => (y' = y \/ r.nan) /\ r.cvg,
         UNCHANGED <<method, it_, g0, system, live>>
  PROVE  IInv'
<1> USE DEF IInv
<1>1. last' = [at |-> y, v |-> v, jacobian |-> [at |-> y, v |-> v]] /\ v \in Value
  BY Evaluation
<1>2. TypeOK'
  BY <1>1 DEF TypeOK, Kind, Places
<1>3. FactorsAreKnown'
  BY DEF FactorsAreKnown, Kind, UsesLU, NoFactors, OneOfEach
<1>4. LeavesAtTheSolution'
  BY <1>1 DEF LeavesAtTheSolution, Kind
<1> QED
  BY <1>2, <1>3, <1>4 DEF ReferenceIsPositive, ResidualsAreCurrent, SystemsAreOfTheCurrentPoint, Kind

LEMMA SimplePeriodKeeps == ASSUME IInv, solve_simple_one_periods PROVE IInv'
<1> DEFINE r(v) == IF res.nan \/ v.nan THEN Unknown(compute_complete(v)) ELSE v
<1>0. TypeOK /\ iter \in Nat
  BY DEF IInv, TypeOK
<1>1. PICK v \in Residuals :
        /\ Evaluated(y, v, TRUE) /\ res' = r(v)
        /\ SimpleStep(r(v), slow) \/ (pc' = "cut" /\ UNCHANGED iter)
  BY DEF solve_simple_one_periods
<1>2. pc = "simple" /\ UNCHANGED <<method, it_, g0, system, live>>
  BY DEF solve_simple_one_periods
<1>3. Kind = "simple"
  BY <1>0, <1>2, Kinds
<1>4. v \in Value /\ r(v) \in Value /\ (~r(v).nan => r(v) = v)
  BY <1>0, <1>1, Evaluation, Completed
<1>5. /\ pc' \in {"cut", "simple", "thrown", "next"} /\ iter' \in Nat
      /\ pc' = "next" => y' = y /\ r(v).cvg
  BY <1>0, <1>1 DEF SimpleStep
<1> HIDE DEF r
<1> QED
  BY <1>1, <1>2, <1>3, <1>4, <1>5, SimpleKeeps

LEMMA CutKeeps == ASSUME IInv, Cut PROVE IInv'
<1> DEFINE r(v) == Unknown(compute_complete(v))
<1>0. TypeOK /\ iter \in Nat
  BY DEF IInv, TypeOK
<1>1. PICK v \in Residuals :
        /\ Evaluated(y, v, TRUE) /\ res' = r(v)
        /\ \/ SimpleStep(r(v), Reduced(slow))
           \/ pc' \in {"cut", "thrown"} /\ UNCHANGED iter
  BY DEF Cut
<1>2. pc = "cut" /\ UNCHANGED <<method, it_, g0, system, live>>
  BY DEF Cut
<1>3. Kind = "simple"
  BY <1>0, <1>2, Kinds
<1>4. r(v) \in Value /\ r(v).nan
  BY <1>0, <1>1, Completed
<1>5. /\ pc' \in {"cut", "simple", "thrown", "next"} /\ iter' \in Nat
      /\ pc' = "next" => y' = y /\ r(v).cvg
  BY <1>0, <1>1 DEF SimpleStep
<1> HIDE DEF r
<1> QED
  BY <1>1, <1>2, <1>3, <1>4, <1>5, SimpleKeeps

-----------------------------------------------------------------------------
\* Between the periods there are no factors: UMFPACK has only one to solve.
LEMMA PeriodKeeps == ASSUME IInv, PeriodSolved PROVE IInv'
<1> USE DEF IInv
<1>1. pc = "next" /\ UNCHANGED <<method, last, system, live>>
  BY DEF PeriodSolved
<1>2. Kind \in {"simple", "one"} /\ method.y_kmin \in Nat /\ it_ \in Nat
  BY <1>1, Kinds DEF TypeOK
<1>3. CASE it_ + 1 < method.y_kmin + method.periods
  <2>1. /\ it_' = it_ + 1 /\ pc' = method.kind
        /\ iter' = (IF Linear THEN iter ELSE 0) /\ g0' = very_big
        /\ res' = (IF method.kind = "simple" THEN [res EXCEPT !.nan = FALSE] ELSE res)
    BY <1>2, <1>3, Kinds DEF PeriodSolved
  <2>2. res' \in Value
    BY <2>1 DEF TypeOK, Value
  <2>3. ~(Kind = "one" /\ method.steady)
    BY <1>2, <1>3, MethodsAssumption DEF FactorsAreKnown, Kind, TypeOK
  <2>4. live = NoFactors
    BY <1>2, <2>3, Kinds DEF FactorsAreKnown
  <2>5. TypeOK'
    BY <1>1, <1>2, <2>1, <2>2, VeryBig DEF TypeOK, Kind, Places
  <2>6. FactorsAreKnown'
    BY <1>1, <1>2, <2>1, <2>3, <2>4 DEF FactorsAreKnown, Kind, UsesLU, NoFactors, OneOfEach
  <2> QED
    BY <1>1, <1>2, <2>1, <2>5, <2>6 DEF ReferenceIsPositive, ResidualsAreCurrent,
       LeavesAtTheSolution, SystemsAreOfTheCurrentPoint, Kind
<1>4. CASE ~(it_ + 1 < method.y_kmin + method.periods)
  <2>1. pc' = "done" /\ UNCHANGED <<it_, iter, y, dir, res, g0>>
    BY <1>4 DEF PeriodSolved
  <2>2. TypeOK'
    BY <1>1, <2>1 DEF TypeOK, Kind
  <2>3. FactorsAreKnown'
    BY <1>1, <2>1 DEF FactorsAreKnown, Kind, UsesLU
  <2> QED
    BY <1>1, <1>2, <2>1, <2>2, <2>3 DEF ReferenceIsPositive, ResidualsAreCurrent,
       LeavesAtTheSolution, FullStep, SystemsAreOfTheCurrentPoint, Kind, Linear
<1> QED
  BY <1>3, <1>4

LEMMA EndKeeps == ASSUME IInv, End_Solver PROVE IInv'
<1> USE DEF IInv
<1>1. /\ pc' = "solved"
      /\ UNCHANGED <<method, it_, iter, y, res, g0, last, system>>
  BY DEF End_Solver
<1>2. live' = NoFactors
  BY DEF End_Solver, FactorsAreKnown, NoFactors, OneOfEach
<1>3. TypeOK'
  BY <1>1 DEF TypeOK, Kind
<1>4. FactorsAreKnown'
  BY <1>1, <1>2 DEF FactorsAreKnown, Kind, UsesLU, NoFactors, OneOfEach
<1> QED
  BY <1>1, <1>3, <1>4 DEF ReferenceIsPositive, ResidualsAreCurrent, LeavesAtTheSolution,
     SystemsAreOfTheCurrentPoint, Kind

LEMMA StutterKeeps == ASSUME IInv, UNCHANGED newton PROVE IInv'
BY DEF newton, IInv, TypeOK, Kind, ReferenceIsPositive, ResidualsAreCurrent, FactorsAreKnown,
   UsesLU, LeavesAtTheSolution, FullStep, SystemsAreOfTheCurrentPoint, Linear

\* The invariant is kept by every step of the solver.
LEMMA NextIInv == IInv /\ [NewtonNext]_newton => IInv'
BY GiveUpKeeps, ShortenKeeps, ConvergeKeeps, TwoBoundariesKeep, LineSearchKeeps, SolveLinearKeeps,
   CorrectKeeps, CorrectedKeeps, OneBoundaryKeeps, SimplePeriodKeeps, CutKeeps, PeriodKeeps,
   EndKeeps, StutterKeeps DEF NewtonNext

-----------------------------------------------------------------------------
\* Through every sequence of accepted, shortened and rejected steps the types,
\* the reference of the comparisons (except after a line search), the residuals and
\* the factors are right.
THEOREM Invariance == NewtonSpec => []IInv
<1>1. NewtonInit => IInv
  BY InitIInv
<1>2. IInv /\ [NewtonNext]_newton => IInv'
  BY NextIInv
<1> QED
  BY <1>1, <1>2, PTL DEF NewtonSpec

\* A block is left when an evaluation has converged, and there unless that point was
\* rejected; its linear systems are of the current point, and UMFPACK's objects are
\* freed.
THEOREM SolverSound == NewtonSpec => []SolverStateIsSound
<1>1. IInv => SolverStateIsSound
  BY DEF IInv, FactorsAreKnown, NoFactors, OneOfEach, SolverStateIsSound, FactorsAreFreed
<1> QED
  BY <1>1, Invariance, PTL
=============================================================================

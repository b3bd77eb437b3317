--------------------------- MODULE BytecodeBlocks ---------------------------
(***************************************************************************)
(* The interpreter of mex/sources/bytecode/Interpreter.cc: the blocks of a  *)
(* model are evaluated or simulated in the order of the byte code, and the  *)
(* extended path repeats the simulation period after period.                *)
(*                                                                         *)
(* g, what the interpreter was built with: code, begin (the positions of    *)
(* the FBEGINBLOCK instructions), steady_state, print_error, y_size,        *)
(* nb_row_x, nb_row_xd, col_x, y_kmin, y_kmax, periods, faults.             *)
(* s, its state: the machine m, it_, the residuals, Block_Count,            *)
(* previous_block_exogenous and whether a call failed.                      *)
(***************************************************************************)
EXTENDS BytecodeMachine

Env(g, fb, it, Per_u, evaluate, no_derivative) ==
  [code |-> g.code, evaluate |-> evaluate, no_derivative |-> no_derivative,
   steady_state |-> g.steady_state, print_error |-> g.print_error, it_ |-> it, Per_u_ |-> Per_u,
   size |-> fb.size, y_size |-> g.y_size, nb_row_x |-> g.nb_row_x, nb_row_xd |-> g.nb_row_xd,
   span |-> g.periods + g.y_kmin + g.y_kmax, faults |-> g.faults]

Periods(g, forward) ==
  [k \in 1..g.periods |-> IF forward THEN g.y_kmin + k - 1 ELSE g.y_kmin + g.periods - k]

EvaluateTypes == {"evaluateForward", "evaluateBackward"}

Backward == {"evaluateBackward", "solveBackwardSimple", "solveBackwardComplete"}

TwoBoundaries == {"solveTwoBoundariesSimple", "solveTwoBoundariesComplete"}

(* Where the residual of the j-th equation of the block goes: a block asked *)
(* for alone has its own rows; else the row is that of the equation, which  *)
(* the blocks that only assign take in periods of their own size.           *)
ResidualIndex(g, fb, block, it, j) ==
  LET width == IF g.steady_state \/ (block < 0 /\ fb.type \notin EvaluateTypes) THEN g.y_size
               ELSE fb.size
      row == IF block >= 0 THEN j - 1 ELSE fb.contain[j].Equation
  IN  IF g.steady_state THEN row ELSE it * width + row

(* What it holds: the distance between the assigned and the given values of *)
(* a variable, or what the block left in r.                                 *)
ResidualValue(g, fb, m, it, j) ==
  LET v == (IF g.steady_state THEN 0 ELSE it * g.y_size) + fb.contain[j].Variable
  IN  IF fb.type \in EvaluateTypes THEN <<"minus", Rd(m, "y", v), Rd(m, "ya", v)>>
      ELSE Rd(m, "r", j - 1)

EvaluateAt(g, s, fb, block, begining, it, Per_u) ==
  LET row(j) == ResidualIndex(g, fb, block, it, j)
      written(m) == [k \in {row(j) : j \in 1..fb.size} |->
                       ResidualValue(g, fb, m, it, CHOOSE j \in 1..fb.size : row(j) = k)]
      after(m) == [s EXCEPT !.m = m, !.it_ = it,
                            !.residual = IF m.thrown THEN @ ELSE written(m) @@ @]
  IN  IF s.m.thrown THEN s
      ELSE after(compute_block_time(Env(g, fb, it, Per_u, TRUE, FALSE), s.m, begining))

(* Every type of block, in the order of its periods; a block with two       *)
(* boundaries keeps the coefficients of each period apart.  it_ is left     *)
(* behind the last period.                                                  *)
evaluate_a_block(g, s, fb, block) ==
  LET begining == s.m.pc
      forward == fb.type \notin Backward
      Per_u(it) == IF fb.type \in TwoBoundaries THEN (it - g.y_kmin) * fb.u_count_int ELSE 0
      once == g.steady_state /\ fb.type \notin TwoBoundaries
      done == Fold(LAMBDA a, it : EvaluateAt(g, a, fb, block, begining, it, Per_u(it)), s,
                   IF once THEN <<s.it_>> ELSE Periods(g, forward))
  IN  [done EXCEPT !.it_ = IF once THEN @ ELSE IF forward THEN g.periods + g.y_kmin ELSE g.y_kmin - 1]

(* The blocks that are solved for are left to the solvers: their variables  *)
(* get the values the solver finds.                                         *)
SolvedBy(g, s, fb) ==
  LET cells == {it * g.y_size + fb.contain[j].Variable :
                  it \in IF g.steady_state THEN {0} ELSE g.y_kmin..(g.y_kmin + g.periods - 1),
                  j \in 1..fb.size}
      past == CHOOSE k \in s.m.pc..Len(g.code) :
                g.code[k].tag = "FENDBLOCK" /\ \A i \in s.m.pc..(k - 1) : g.code[i].tag # "FENDBLOCK"
  IN  [s EXCEPT !.m.mem = [c \in {<<"y", k>> : k \in cells} |-> <<"solved", c[2]>>] @@ @,
                !.m.pc = past + 1]

simulate_a_block(g, s, fb) ==
  IF fb.type \in EvaluateTypes
  THEN LET after(v) == [s EXCEPT !.m = v.m, !.it_ = v.it_]
       IN  after(evaluate_over_periods(Env(g, fb, s.it_, 0, FALSE, FALSE), s.m,
                                       fb.type = "evaluateForward", g.y_kmin, g.periods))
  ELSE IF fb.type \in TwoBoundaries /\ g.steady_state THEN [s EXCEPT !.failed = TRUE]
  ELSE SolvedBy(g, s, fb)

(* A controlled exogenous variable must be in the block of the variable it  *)
(* controls, which must be solved for, and in no earlier block; a pair is   *)
(* also refused in every block after the first one with its exogenous       *)
(* variable.                                                                *)
check_for_controlled_exo_validity(s, fb, plans) ==
  LET wrong(p) == \/ p.exo_num \in fb.endogenous /\ p.var_num \notin fb.exogenous
                  \/ p.exo_num \in fb.endogenous /\ p.var_num \in fb.exogenous
                     /\ fb.type \in EvaluateTypes
                  \/ p.var_num \in s.previous_block_exogenous
  IN  IF \E p \in plans : wrong(p) THEN [s EXCEPT !.m.thrown = TRUE]
      ELSE [s EXCEPT !.previous_block_exogenous = @ \cup fb.exogenous]

(* The statements of a block as text, up to its end.                        *)
RECURSIVE PrintedFrom(_, _)
PrintedFrom(e, pc) ==
  IF e.code[pc].tag = "FENDBLOCK" THEN <<>>
  ELSE CHOOSE v \in {(IF p.out = <<>> THEN <<>> ELSE <<p.out>>) \o PrintedFrom(e, p.pc) :
                       p \in {print_expression(e, <<>>, pc, FALSE)}} : TRUE

print_a_block(e, pc) == PrintedFrom(e, pc)

BeginBlock(g, s, how) ==
  LET fb == g.code[s.m.pc]
      s1 == [s EXCEPT !.Block_Count = @ + 1, !.m.pc = @ + 1]
      s2 == IF how.constrained THEN check_for_controlled_exo_validity(s1, fb, how.plans) ELSE s1
  IN  IF s2.m.thrown THEN s2
      ELSE IF how.evaluate
      THEN evaluate_a_block(g, IF how.block >= 0 THEN [s2 EXCEPT !.residual = <<>>] ELSE s2, fb,
                            how.block)
      ELSE simulate_a_block(g, s2, fb)

(* Block after block up to FEND, or the one block asked for; the            *)
(* instruction with the number of temporary terms leads to it.              *)
RECURSIVE Blocks(_, _, _)
Blocks(g, s, how) ==
  LET ins == g.code[s.m.pc]
      after(n) == IF how.block >= 0 \/ n.m.thrown \/ n.failed THEN n ELSE Blocks(g, n, how)
  IN  IF s.m.thrown \/ s.failed THEN s
      ELSE CASE ins.tag = "FBEGINBLOCK" -> CHOOSE v \in {after(n) : n \in {BeginBlock(g, s, how)}} : TRUE
             [] ins.tag = "FEND" -> [s EXCEPT !.m.pc = @ + 1]
             [] ins.tag \in {"FDIMT", "FDIMST"} ->
                  Blocks(g, [s EXCEPT !.m.pc = IF how.block >= 0 THEN g.begin[how.block + 1]
                                               ELSE @ + 1], how)
             [] OTHER -> [s EXCEPT !.m.thrown = TRUE]

MainLoop(g, s, how) ==
  Blocks(g, [s EXCEPT !.Block_Count = -1, !.m.pc = 1,
                      !.residual = IF how.block < 0 THEN <<>> ELSE @], how)

Interpreter(mem) == [m |-> Machine(mem), it_ |-> 0, residual |-> <<>>, Block_Count |-> -1,
                     previous_block_exogenous |-> {}, failed |-> FALSE]

compute_blocks(g, mem, evaluate, block) ==
  MainLoop(g, Interpreter(mem), [evaluate |-> evaluate, block |-> block, constrained |-> FALSE,
                                 plans |-> {}])
-----------------------------------------------------------------------------
Column(g, j, it) == it + j * g.nb_row_x

(* All shocks are unknown (zero) but those of the first simulated period.   *)
OnlyFirstShock(g, m) ==
  Fold(LAMBDA a, k : Wr(a, "x", k, IF \E j \in 0..(g.col_x - 1) : k = Column(g, j, g.y_kmin)
                                   THEN Rd(m, "x", k) ELSE Const(0)),
       m, UpTo(g.col_x * g.nb_row_x))

(* After a simulation the first simulated period becomes the past, and the  *)
(* shocks of the next period come to its place.                             *)
Advance(g, st, t) ==
  LET m == st.s.m
      y_save == [k \in {j + (t + g.y_kmin) * g.y_size : j \in 0..(g.y_size - 1)} |->
                   Rd(m, "y", (k % g.y_size) + g.y_kmin * g.y_size)] @@ st.y_save
      x_save == [k \in {Column(g, j, t + g.y_kmin) : j \in 0..(g.col_x - 1)} |->
                   Rd(m, "x", Column(g, k \div g.nb_row_x, g.y_kmin))] @@ st.x_save
      m1 == IF g.y_kmin = 0 THEN m
            ELSE Fold(LAMBDA a, j : Wr(a, "y", j, Rd(a, "y", j + g.y_kmin * g.y_size)), m,
                      UpTo(g.y_size))
      next(k) == IF k \in DOMAIN x_save THEN x_save[k] ELSE <<"x", k>>
      m2 == Fold(LAMBDA a, j : Wr(a, "x", Column(g, j, g.y_kmin), next(Column(g, j, t + 1 + g.y_kmin))),
                 m1, UpTo(g.col_x))
  IN  [s |-> [st.s EXCEPT !.m = m2], y_save |-> y_save, x_save |-> x_save]

OneStep(g, st, t, shocks, plans) ==
  LET m == Fold(LAMBDA a, h : Wr(a, "x", Column(g, h.exo_num - 1, g.y_kmin), h.value[t + 1]),
                st.s.m, shocks)
      after(s) == IF s.m.thrown THEN [st EXCEPT !.s = s] ELSE Advance(g, [st EXCEPT !.s = s], t)
  IN  after(MainLoop(g, [st.s EXCEPT !.m = m, !.previous_block_exogenous = {}],
                     [evaluate |-> FALSE, block |-> -1, constrained |-> TRUE, plans |-> plans]))

extended_path(g, mem, nb_periods, shocks, plans) ==
  LET s == Interpreter(mem)
      start == [s |-> [s EXCEPT !.m = OnlyFirstShock(g, s.m)], y_save |-> <<>>, x_save |-> <<>>]
  IN  Fold(LAMBDA a, t : IF a.s.m.thrown THEN a ELSE OneStep(g, a, t, shocks, plans), start,
           UpTo(nb_periods))
============================================================================

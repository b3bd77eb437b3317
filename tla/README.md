# TLA+ specifications of Dynare

This directory models the parts of Dynare in which something can go wrong that a
test hardly reaches, checks the models with TLC and proves central results
with TLAPS. They are of two kinds.

*Processes and files.* The **parallel toolbox** (`matlab/parallel`), by which a
master MATLAB runs jobs on slave MATLABs through nothing but files in shared
directories; the **MCMC posterior sampler** (`matlab/posterior_sampler*.m`), whose
draws are saved in files that later sessions extend or repair; the **threads** of
Dynare++ (`dynare++/utils`) and of the MEX **perfect_foresight_problem**.

*Algorithms with intricate state.* The **bytecode** MEX (a stack machine, its
interpreter and its own sparse Newton solvers), the **front end** of Dynare++
(operation trees, atoms, substitutions, the planner's problem), its **tensor
library**, its **decision rules** and their simulation, its **quadratures** and line searches. For these the models keep the
control and the bookkeeping (indices, lists, offsets, recorded operations, orders
of evaluation) exactly and replace floating-point numbers by something exact in
which the result can be compared with the definition of what is computed:
terms, small integers, or the integers modulo a prime.

## 1. Inventory

| component | state it keeps | operations | what is hard | correct means |
|---|---|---|---|---|
| `masterParallel`, strategy 0, with `fParallel`, `fMessageStatus`, `closeSlave` | the files `P_*`, `slaveParallel_input*`, `*_output_*`, `comp_status_*`, `slaveParallel_break` here and on the nodes; the master's loop indices | a call: clean up, prepare, launch, poll, copy, collect; a slave: run, report, be broken, crash, save, signal | interleaving of the master's polls with slaves' saves and deletions, remnants of earlier calls, a crash while others are being broken | a call returns the outcomes of its own jobs, and it returns |
| `masterParallel`, strategy 1, with `slaveParallel` | the same, and `P_slave_*`, `slaveJob*`, `stayalive*`; slaves outlive calls | the same, and: post a job, find out whether a slave is alive, restart it; a slave polls, expires after 20 min, leaves | a slave that leaves while a job is posted, restarting one that still runs, stale break requests | the same, and one slave per CPU |
| `distributeJobs`, `InitializeComputationalEnvironment` (sort), the ranges in `masterParallel` | the nodes, their shares | sort, share out by weight, correct for rounding, split over CPUs, drop idle CPUs, compute ranges | rounding, zero shares, renumbering | every block is run once, where the weights say |
| `posterior_sampler_initialization`, `posterior_sampler`, `posterior_sampler_core` | history file, `_mh<f>_blck<b>` files, temporary files; the record in memory | new MCMC, `load_mh_file`, `mh_recover`, draw, save, conclude | crash between any two file operations, repeated recovery, partly filled files | the files hold the chain an undisturbed run would have produced |
| `dynare++/utils/cc`: `sthread`, `pascal_triangle` | counter, condition variable, two mutexes; a growing table | run a group, add to the result, notify, return, destroy; look up, prolong | lost wake-ups, a group destroyed under a thread, a table read while it grows | no more threads than allowed, nothing lost, run returns |
| Dynare++ front end: `parser/cc`, `src/dynare_model.cc` and around | hash-consed trees with cached dependencies and derivatives; maps between atoms, names, leads; orderings | parse, substitute, build the planner's conditions, differentiate, evaluate | caches that go stale when a term becomes an atom, chains of substitutions, offsets into three vectors | the equations keep their meaning, derivatives are derivatives, every consumer reads the right entry |
| Dynare++ tensor library `tl/cc` | index numberings, tensors, stacks of containers, polynomials | number, fold, multiply in four ways, evaluate, differentiate, moments | off-by-one in numberings, permutations, ways that must agree | each way computes the Faa Di Bruno sum |
| Dynare++ decision rules `kord/decision_rule.*`, `normal_conjugate.cc`, `dynare_simul_` | a rule's polynomial and its steady state; sets of simulated data, responses, an estimate of mean and variance, each filled by the threads of a group | make a rule of derivatives, centralize, evaluate, simulate; add data, add a response, merge an estimate | threads that add in any order, values that are not finite, burned periods, updates in place | rules are Taylor expansions; data are paths of the rule with the shocks kept beside them; statistics are moments of them |
| Dynare++ integration `integ/cc`, `nlsolve` | iterators over points, ranges of workers; brackets | advance, split, signal, design a level; search | ranges that overlap, stale caches, points that cannot be evaluated | each point once; never worse than the safe point |
| MEX bytecode: `Evaluate.cc`, `Interpreter.cc`, `ErrorHandling.hh` | stack, memory, instruction pointer, `it_`, residuals | run a block, print it, evaluate or simulate a model, extended path, plans | jumps, strides, a fault in the middle of a block | every statement's value in its place; faults located |
| MEX bytecode: `SparseMatrix.cc`, `Mem_Mngr.cc` | linked rows and columns, slots of `u`, recorded operations; compressed columns; `y`, `ya`, `slowc` and the sums of residuals | insert, delete, eliminate, compare, replay, substitute back; stack, factorise; accept, shorten, reject a step | memory reused in mid-walk, replayed periods at the ends, values stale after a rejected step, loops without a counter | a step solves the linearised system; the loop ends at a solution |
| MEX perfect_foresight_problem | one caller of the model per thread, a shared residual and Jacobian | build the pattern of the Jacobian, evaluate the periods in parallel, remove zeros | data shared by threads, cursors into three sorted lists, in-place compaction | residuals and Jacobian of the right periods |
| file transfer (`dynareParallel*`) | none | copy, delete, list over ssh | unreliable shell | not modelled: one step each above |
| OccBin, extended path (MATLAB), backward models | guesses, step sizes | iterate to convergence | termination, cycles | not modelled |
| likelihood, filters, optimisers, k-order derivatives, Sylvester, other MEX kernels | matrices | linear algebra | accuracy | not modelled: numerical |
| preprocessor, dseries, reporting, particles | | | | empty submodules |

How they interact: estimation calls `posterior_sampler`, which calls
`posterior_sampler_core` directly or through `masterParallel`;
`masterParallel` calls `distributeJobs` and starts the slaves, which call the
core function it is given. Dynare++ parses a model, hands its derivatives to the
k-order solver through the tensor library, whose products run in thread groups and
share the table of binomial coefficients; the derivatives become a decision rule, which
groups of threads simulate; the bytecode interpreter hands
the residuals and derivatives that the machine computes to the solvers, which call it
back. `PROJECT.json` lists the hazards line by line.

## 2. Modules

| module | models | code it stands for |
|---|---|---|
| `ParallelDefs` | CPUs, outcomes of jobs, contents of output files | |
| `ParallelTask` | abstract: what `masterParallel` promises its caller | the promise of both strategies |
| `MasterParallel` | what both strategies share: files, clean-up, wait loop, collection, ways a job ends | `masterParallel.m` 83-220, 680-916; `fMessageStatus.m` |
| `OpenCloseStrategy` | strategy 0 | `masterParallel.m` 277-680, 896-902; `fParallel.m` |
| `AlwaysOpenStrategy` | strategy 1 | `masterParallel.m` 248-680, 891-939; `slaveParallel.m`; `closeSlave.m` 62-86 |
| `OpenCloseProofs`, `AlwaysOpenProofs` | proofs about the two strategies | |
| `DistributeJobs` | distribution of blocks | `distributeJobs.m`; `InitializeComputationalEnvironment.m` 83-110; `masterParallel.m` 248-292 |
| `DistributeProofs` | proofs about the distribution | |
| `PosteriorSampler` | sessions of the sampler | `posterior_sampler_initialization.m` 55-561; `posterior_sampler.m` 57-122, 168-197; `posterior_sampler_core.m` 122-277 |
| `SamplerProofs` | proofs about sessions, without and with crashes | |
| `ThreadGroup` | a group of detached threads that add to one result | `utils/cc/sthread.*`; the workers of `stack_container.cc`, `ps_tensor.cc` |
| `PascalTriangle` | the shared table of binomial coefficients | `utils/cc/pascal_triangle.*` |
| `ThreadProofs` | proofs about the group and about the table | |
| `PerfectForesight` | the pattern of the stacked Jacobian, OpenMP threads that fill it and the residuals, removal of its zeros | `perfect_foresight_problem.cc`, `DynamicModelCaller.*` |
| `PerfectForesightProofs` | proofs about them | |
| `Loops` | folds over sequences, used by the algorithms below | |
| `OperationTree` | hash-consed operations, derivatives, substitution, evaluation, printing | `parser/cc/tree.*` |
| `DynareAtoms` | names, leads, orderings, substitution of long lags and leads | `dynamic_atoms.cc`, `fine_atoms.cc`, `atom_substitutions.cc` |
| `FormulaParser` | multi-indices of derivatives, evaluation, assignments, matrices | `formula_parser.*`, `atom_assignings.cc`, `matrix_parser.cc` |
| `DynareModel` | a model from its source to its derivatives | `dynare_model.cc`, `planner_builder.cc`, `forw_subst_builder.cc`, `dynare_atoms.cc`, `dynare3.cc` |
| `FrontEnd` | the machine over the above, the meaning of models, the properties | parts of `dynare_model.cc`, `formula.yy` |
| `IntSequences` | sequences, permutations, symmetries, equivalences | `tl/cc/int_sequence.*`, `permutation.*`, `symmetry.*`, `equivalence.*` |
| `Tensors` | indices and numberings, folded, unfolded and sparse tensors | `tensor.*`, `fs_tensor.*`, `gs_tensor.*`, `sparse_tensor.*`, `twod_matrix.*` |
| `TensorProducts`, `StackContainers` | Kronecker products, permuted tensors, stacks and the ways to multiply with them | `kron_prod.*`, `ps_tensor.*`, `t_container.*`, `stack_container.*`, `fine_container.*`, `pyramid_prod2.cc` |
| `TensorPolynomials` | polynomials and normal moments | `t_polynomial.*`, `normal_moments.cc` |
| `TensorLibrary` | calls of the library and the properties | |
| `DecisionRules` | decision rules, simulations by groups of threads, what they gather, and the properties | `kord/decision_rule.*`, `normal_conjugate.cc`, `mex/sources/dynare_simul_/dynare_simul_.cc` |
| `ExpressionPrinter`, `BytecodeMachine` | the printer of byte code and the stack machine | `ErrorHandling.hh`, `Evaluate.cc` |
| `BytecodeBlocks` | blocks, periods, extended paths, plans | `Interpreter.cc` |
| `BytecodeCalls` | the code the preprocessor writes and what it means (the reference) | external |
| `SparseLists`, `GaussianElimination` | the linked sparse matrix, elimination with replay | `Mem_Mngr.cc`, `SparseMatrix.cc` |
| `CompressedColumns` | sparse arithmetic, relaxation, the stacked systems of a Newton step | `SparseMatrix.cc` |
| `NewtonControl` | which steps are taken, searched, shortened, rejected; the loops | `SparseMatrix.cc`, `Interpreter.cc` 357-506, `Evaluate.cc` 1492-1714 |
| `NewtonProofs` | proofs about the Newton iterations | |
| `LineSearches` | mnbrak, golden, GoldenSectionSearch and NLSolver | `SparseMatrix.cc` 1951-2097, `src/nlsolve.cc` |
| `Integration` | Smolyak, product and quasi Monte Carlo quadratures | `integ/cc` |
| `NumericLibrary` | calls of the numerical parts and the properties | |
| `SumLemmas` | sums over finite sets and induction in the form the provers can use; cited by `DistributeProofs`, `SamplerProofs`, `ThreadProofs` and `PerfectForesightProofs` | |
| `MCThreads`, `MCFrontEnd`, `MCTensors`, `MCNumerics` | the instances TLC checks | |

`OpenCloseStrategy` and `AlwaysOpenStrategy` EXTEND `MasterParallel` and
instantiate `ParallelTask` as the abstract specification they refine.
`MCThreads` composes `ThreadGroup` with `PascalTriangle`: the main thread fills
the table, then runs the group. `MCNumerics` holds four machines side by side:
it extends `NumericLibrary`, `NewtonControl` and `PerfectForesight` and
instantiates `GaussianElimination`; `MCTensors` holds `TensorLibrary` and
`DecisionRules`. A behaviour is one of any of them. Operators named `M_...` are wrong versions of the
definition that follows them; `PROJECT.json` pairs each property with one that
breaks it.

### Master and slaves

The state is the set of files plus where each process is. `pc` is the master's
place in `masterParallel`, `proc[j]` that of slave j. A file that only says
something by existing is a Boolean per CPU; an output file is a pair of the call
it belongs to and what it holds, so that output left over from an earlier call
can be told from one of this call. `done` is a history variable: the outcome each
job really had. The contents of outputs, the shell commands and the
progress display are left out; every save, deletion and copy is kept, in its
order. A local slave works in the master's directory, a remote one in its own,
from which the master copies what its snapshot (`snap`) does not list; each
remote CPU is taken to be a node of its own.

A job (the function `fname`) is the caller's. It may return, return with
`CloseAllSlaves`, throw, or report progress through `fMessageStatus`, which is
also where it learns that it should stop.

*The abstraction of time in strategy 1.* The code synchronises by pauses. The
model makes explicit which ones it needs: from a slave's decision to leave to
the deletion of its `P_slave` file less than the master's `pause(1)` goes by
(guards of `CheckAlive`, `CloseSlaveEnd`), and a slave does not reach its 20
minutes while the master, having announced a job to it, prepares that one CPU
(`PollEmpty`). `closeSlave` is meant to wait for the slaves but looks for a file
name that never exists (`int2str(j)`, `j` the imaginary unit); only its
pauses protect it, and the mutant of `OneSlavePerCpu` shows what happens when
they do not suffice. The model covers one session, from no slave at all to the
error of a crashed job.

### Distribution

`DistributeJobs` follows `distributeJobs` phase by phase over all small
clusters. The share of a node is computed in floating point by the code: where the
exact share is an integer the computed one may lie a rounding error above it,
and `ceil` then adds one. The model chooses this nondeterministically, for each
weight. The branch for too few jobs (lines 127-141) is unreachable after
`ceil`; `PlanIsWhole` would fail if it were not. The loops that give the blocks of
the nodes to their CPUs are steps: `AssignCpu` gives the next CPU of the node its
share, `CorrectNode` gives the last CPU of the node the rest and goes to the next
node, `Compact` drops a CPU without blocks. The constants are the values a
configuration file may hold: numbers of CPUs, threads and weights of a node and
first blocks are positive.

### Sampler

The disk is `hist` (the last history file), `mh` (the files of draws) and `tmp`
(the temporary files); all other variables are memory and are lost in a crash.
A draw is determined by the previous draw and the state of the generator. The
model numbers the draws and the states of an undisturbed chain; a draw made
from draw k and state k is draw k+1, one made from any other pair is `OffChain`.
Thus "the draws are those of an undisturbed run" is a plain comparison of
numbers. `MAX_nruns`, a function of memory and the number of parameters in the
code, is a constant. Two pairs of steps are merged: a draw and the save of the
temporary file after it, and the deletion of the old history files and the
writing of the new one. Octave, which cannot restore the generator, is left out.

### Threads

`ThreadGroup` has one action per access to shared state, with the mutexes
`mut_cv` and `mut_threads`, `notify_one` before the unlock, and spurious wake-ups.
A worker reads the shared result and writes it back in two steps, so that an
addition outside its mutex could be lost. The group is destroyed as soon as
`run` returns. In `PascalTriangle` each row is prolonged in a step of its own.

In `PerfectForesight` the main thread builds the pattern of the Jacobian one element
(`AddElement`) or one column (`EndColumn`) at a time, with one cursor for each of the
lists of derivatives by leads, current variables and lags. The periods are handed to the
threads in any order; each thread has a caller whose variables (`y`, the last
outputs) survive from one period to the next, as in the code. A thread stores the
derivatives of its period in one step (`FillJacobian`), as no other thread writes these
elements: it reads each column from its start to the first row of a later period, as
the code does, so that elements would be missed if a column had a later period first. Zeros are then
removed in place, one element (`MoveElement`) or column (`CloseColumn`) at a time.

In `DecisionRules` a worker's simulation and its addition under the mutex are one
step, since nothing but the addition touches what is shared; the steps of the workers of
a group come in every order the limit of threads allows. Derivatives, shocks and
starting points are chosen such that each quotient is exact; a number beyond
`Huge` stands for overflow, infinities and NaN alike.

### Algorithms

A module of an algorithm defines operators with the names of the code's
functions. They take the state as a record and return the new one; loops are
folds. An intermediate result that is used several times is passed on as a parameter,
so that it is computed once. A specification picks a call from a finite set (a source, a set
of tensors, a block) and runs it, in one step or, for the front end and
the elimination, phase by phase.

*Numbers.* What cannot be compared exactly in floating point is replaced by
something in which the same formula can be: in the front end and the solvers the
integers modulo a prime, in which each operation that the code distinguishes
(zero, one, not a number) is kept and an identity that fails is seen to fail; in the
tensor library small integers; in the byte code and in `PerfectForesight` terms, so
that a value tells what it was computed from. Magnitudes matter in three places
and are nondeterministic there: which of several non-zero pivots is taken, what the
residuals of a Newton iterate are (any of a set, but the same when the
same point is evaluated again), which sum the line search leaves behind, and whether an operation has a finite value.

*References.* A model's meaning (`FrontEnd`) is the value of its syntax trees on a
path of the variables, its derivatives those of numbers that carry
derivatives; a product of tensors is the sum over partitions of Faa Di Bruno; a
moment is a sum over pairings; a block's meaning (`BytecodeCalls`) is the
value of its expressions. None of them shares code with the model of the
implementation.

*External code.* The preprocessor writes the byte code and is not in this
repository; `BytecodeCalls` writes it from what `Evaluate.cc` and
`ErrorHandling.hh` read. UMFPACK and MATLAB's solvers are any solution of the
system they are given. Flex and bison are not modelled: a source is its syntax tree,
and the operations that the grammar's actions call are.

## 3. Runs

All bounds are constants of the `.cfg` files or definitions of the MC modules.
Several properties are conjunctions of named parts, each defined and explained on its
own in the module.

| run | shows | bounds | distinct states |
|---|---|---|---|
| `open_close` | types; no output is read before it is saved; break requests do not outlive their call; refinement of `ParallelTask`; a call returns unless a crash met a request to break | 3 CPUs (1 local), 2 calls, all outcomes | 115,471 |
| `always_open` | refinement of `ParallelTask`; one slave per CPU; an expiring slave leaves no job behind; a call returns unless a slave was lost | 2 CPUs (1 local), 3 calls, all outcomes, all slaves may expire | 138,407 |
| `distribute` | shares add up, follow the weights, cover each block, stay on watched nodes; termination | 3 nodes of up to 3 CPUs, 2 weights, 1-2 threads, 5 blocks | 51,433 |
| `sampler_recover` | after crashes and recoveries the files hold the undisturbed chain; what was saved is kept | 3 blocks, new sessions of 1 or 2 full files, 2 sessions, 3 crashes, 3 recoveries | 18,687 |
| `sampler_sessions` | every session ends, whatever a crash left; without crashes `load_mh_file` goes on exactly, also inside a file; a first file resumed from its temporary file goes on exactly | 2 blocks, lengths below, at and above a file's size, crash anywhere, 3 sessions, 2 crashes, 2 recoveries | 79,553 |
| `threads` | never more threads than allowed, no addition lost, the group outlives its threads, `run` returns; `noverk` is the binomial coefficient | 3 workers of 2 additions, 2 at a time, spurious wake-ups; 3 calls before | 36,331 |
| `pascal_race` | **violated**: an element is read that is not there yet | 2 threads, 2 calls each | |
| `front_end` | equations keep their meaning, derivatives reach their users, trees, atoms and printed formulas stay consistent | 112 sources: every unary and binary operation in pairs, leads and lags up to three, planners, faulty files | 1,099 |
| `tensors` | index numberings, products and polynomials agree with their definitions; decision rules are the Taylor expansions of their derivatives; simulated data, responses, statistics are those of the rule's paths, in whatever order threads finish | equivalences of up to 5 elements; symmetries of one and two blocks with 2 to 4 indices over up to 3 variables; products of dimension 1 to 3 with stacks of the derivatives by (y, u, u', sigma); polynomials of degree 3 in 3 variables; moments 2 and 4; rules of order 1 to 3; up to 3 simulations of up to 3 periods on 2 threads, with and without burned periods, values that overflow and missing shocks | 1,230 |
| `polynomial_derivative` | **violated**: the Jacobian of `DRFixPoint` is not the gradient | the polynomials of `tensors` | |
| `real_time_lambda` | **violated**: Lambda is not the sum of squares about the mean | the real-time simulations of `tensors` | |
| `numerics` | byte code means the model; memory stays consistent and the elimination solves the system; systems, searches and quadratures are exact; Newton leaves at the solution and ends; threads of perfect_foresight_problem | blocks with every instruction, models of 1-3 blocks, 3 Newton iterations with every sequence of residuals, 3 periods on 2 threads; elimination: 3 equations with one boundary and every pattern with a full diagonal, 2 equations over 8 and 18 periods, 3 sets of coefficients | 237,308 |

Why the bounds are enough. Two calls let anything a call leaves behind meet the
next one. Three CPUs let one job close the task, a second crash or be broken
and a third run, with local and remote ones among them. Three nodes and five blocks
contain idle nodes, equal weights, fewer blocks than CPUs and exact shares. For
the sampler, three blocks give a complete, a crashed and an untouched chain;
sessions of one and two files and files of three lines give first, middle
and last positions; the third crash hits the recovery of a recovery. Three workers
of which two may run let the main thread wait before it starts the last one
and again at the end. Eighteen periods let the elimination find three equal periods,
replay the middle ones and treat the last ones apart. The
symmetries of tensors have blocks of one, two and three equal indices, and products
reach dimension three, where equivalence classes of equal and unequal sizes occur and
the order of the factors shows. Three simulations of which two may run are added in every
order, among them one that is dropped before and one after it.
Three iterations contain an accepted step, a rejected one after it and the step
that follows; the length of a step may be reduced beyond each limit the code tests.
After a line search the last period has all of the sum of squares or none of it
(`Sums`), for blocks of one and of two periods.

The passing runs stay clear of the disagreements found, which section 4 lists: in
`sampler_recover` the first session ends at a file boundary and has at most two
files, and no session crashes while it still erases an older one;
`distribute` starts at block 1; the elimination of `numerics` asks for a solution only where every
period was eliminated or replayed. `CHECK_DEADLOCK FALSE` is used where the user may
stop calling (the parallel toolbox, the sampler) and where a behaviour ends with its
result (`distribute`, `front_end`).

*Fairness.* The master polls for ever and every process that was started goes on
(weak fairness of the master's step and of each step of a slave that is not a
mere report). A job terminates: weak fairness of *returns, throws or is broken*.
For the sampler, a session that was started goes on. Threads are scheduled, and one
that waits for a mutex that is free again and again gets it (strong fairness of each
thread's steps): operating systems do not promise it, but nothing would terminate
without it. A Newton iteration that can go on does. Nothing makes the user
call again, makes slaves expire, or makes anything crash.

## 4. Findings

Three are violated runs, with the line that says otherwise quoted in `PROJECT.json`:

* `PascalTriangle::noverk` tests and reads the table without the mutex under which
  it grows (`pascal_triangle.cc:123`).
* The polynomial built by `TensorPolynomial(tp, k)` is not differentiated
  (`t_polynomial.hh:149`).
* `NormalConj::update` takes the deviation of an observation from the mean after the mean
  was moved (`normal_conjugate.cc:75`): the variances of real-time simulations are too
  small.

The others were met while modelling; the model has them, as the code does, and the
properties are stated for what is left. Where constants are given, they make the
named property fail.

*Parallel toolbox*

* A job that crashes while the task is being closed leaves its `P_` file:
  `masterParallel` waits for ever (`fParallel.m:109`, `slaveParallel.m:170`), though
  it "exits when the task has finished on all computers of the cluster"
  (`doc/parallel/parallel.tex:665`). `ReturnsUnlessHung` says that there is
  no other way to wait for ever.
* An expired slave other than the last one is not restarted
  (`masterParallel.m:547`): the call waits for ever (`ReturnsUnlessLost`).
* A node with several CPUs and no block gets 1 and -1 blocks
  (`distributeJobs.m:155`): `EveryBlockRunOnce` in `Distribute.cfg`.
* With `fBlock > 1` the last blocks are not run (`masterParallel.m:286`):
  `EveryBlockRunOnceUnlessIdle` with `FirstBlocks = {2}`.
* With fewer blocks than CPUs the idle CPUs are dropped, but the node of the
  others is looked up with them still counted (`masterParallel.m:254`), so that
  blocks run on other nodes than the weights say. `UsedNodesAreWatched`
  shows that these nodes are at least among those the master waits for.

*Sampler*

* `mh_recover` after two or more saved files overwrites the first one and loses the
  last (`posterior_sampler_initialization.m:505`): `ConcludedIsComplete` in
  `SamplerRecover.cfg` with `NewReplics = {9}`.
* `mh_recover` of a session that continued a partly filled file replaces the
  earlier draws in it by zeros (`posterior_sampler_core.m:143`):
  `SavedDrawsAreKept` with `NewReplics = {4}`.
* A crashed session that added no file can neither be recovered nor loaded
  (`posterior_sampler_initialization.m:453`): `CrashedIsRecoverable` with
  `NewReplics = {1}`, `LoadReplics = {1}`.
* A second block is not resumed from its temporary file but skipped, because
  `neval_this_chain` still has the columns of the first
  (`posterior_sampler_core.m:151`); a crash right after a temporary file that holds
  all draws of a block has the same effect in the first block; a temporary file of a
  later file, or of a partly filled one, is resumed at a position counted from the
  start of the session (`posterior_sampler_core.m:149`).
* After a new MCMC crashed early, `load_mh_file` continues draws that no
  longer exist, as the test for their existence also matches the history file
  (`posterior_sampler_initialization.m:95`, 329): `ConcludedIsComplete`
  and `LoadedDrawsExist` in `SamplerRecover.cfg` with `"new"` added to `CrashIn` and
  `MaxSessions = 3`.

*Dynare++*

* `TensorDimens::decrement` (`gs_tensor.cc:143-166`) does not do what the comment at
  130-131 says; `TLStatic::init` locks a temporary (`tl_static.cc:57`).
* If a thread cannot be created (`sthread.cc:51`) the counter stays too high.
* The dump writes `-(x) ^ y` for a power of a negated term (`tree.cc:986-991`), which
  reads back as the negated power.
* An `AUXLD` variable whose definition uses another one stays NaN
  (`dynare_atoms.cc:250-262`); assignments that use a name before it is assigned
  keep NaN.
* A model without exogenous variables gets no ordering of them and no derivatives
  (`fine_atoms.cc:478`); declared shocks that never occur are refused; an
  endogenous variable that is not referenced makes the orderings throw.
* `FoldMultiIndex::operator<` creates an exception it does not throw
  (`formula_parser.cc:359-361`), its mapping constructor checks `i` for `mi[i]` (314);
  the DIVIDE rule of `NLSelector` is unreachable (`dynare_model.cc:665`); empty
  rows of a matrix are dropped.
* After a point that cannot be evaluated `GoldenSectionSearch` may answer
  with a worse point than the safe one (`nlsolve.cc:51-52`, 63-68).
* With burned periods `SimResults` stores a starting point that is a view of a matrix the
  worker destroys (`decision_rule.cc:111`); the responses to impulses start from it.
* `SimResultsIRF::calcVariances` divides a copy of the data and not the sums, so that
  variances of responses are sums of squares (`decision_rule.cc:321-339`).
* `NormalConj::update` with another estimate weighs two empty ones by 0/0
  (`normal_conjugate.cc:95`), after which no later simulation gives a mean.
* `RTSimulationWorker` simulates one period more than asked and takes a value that is not
  finite into the estimate (`decision_rule.cc:487-494`); `thrown_periods` leaves the
  burned periods out of account (503).
* `simulate` tests every period but the first for finite values
  (`decision_rule.hh:390`).
* `addToShock` accepts a shock index one past the last (`decision_rule.cc:569`).
* `DRFixPoint::solveNewton` "guarantees" a smaller norm of the residual (`decision_rule.hh:663`),
  but returns the last one tried when there is none.
* `designLevelForEvals` never returns the last level (`smolyak.cc:217`).

*Bytecode interpreter*

* `log10` is computed as the natural logarithm (`Evaluate.cc:100`); `PowerDeriv` is NaN at (0, 0, k).
* Residuals of evaluate-type blocks are stored with stride `size` instead of
  `y_size` when the whole model is evaluated (`Interpreter.cc:99`, 200);
  `evaluate_a_block` leaves `it_` past the range.
* The extended path moves only one period of lags (`Interpreter.cc:883`).
* `check_for_controlled_exo_validity` refuses a plan as soon as a block follows the
  controlled one (569); `ERROR_ON_EXIT` of `MainLoop` is ignored; deterministic
  exogenous variables are read from `x`.
* `solve_simple_one_periods` keeps a NaN of `res1` and may take the residual of an
  earlier period for its own (`Evaluate.cc:1499-1523`).

*Bytecode solvers* (`SparseMatrix.cc`)

* The symbolic elimination is switched off after 35% of the periods (3669): with
  fewer than about 15 the rest is never triangularised, although the message
  announces "Triangularisation at each period" (3192).
* The relaxation never copies the right-hand side of the last period (2160-2169,
  2283-2289).
* A steady-state block whose residuals are not finite may report convergence from
  an older `max_res` (3968-3978), or shorten its step for ever (3768-3779); after a
  zero solution `ya` is stale (3941-3948).
* More than 12 residuals just below `solve_tolf` may be rejected though they have
  converged (4120 with `Interpreter.cc:451-457`).
* For a dynamic block with one boundary, solved period by period, UMFPACK's solution
  is stored as if the block had two boundaries (3958), at indices past the end of
  `index_vara` (2570), and its factors are not freed from one period to the next:
  `numerics` checks these blocks with the algorithms 2, 3 and 5. Directions are
  written at period 0 (3946) but read at the current one (3775).
* With `stack_solve_algo` 4 and 5 the quotient of the back-tracking is never above
  its bottom (4151-4184), and with 4 `y` is left at the last length tried instead of
  the best (4325-4329).
* With `stack_solve_algo` 4 the line search evaluates into the members `res1`, `res2`
  and `max_res`, period by period (`Evaluate.cc:1693-1709`), before the loop keeps
  `res2` as its reference (`Interpreter.cc:461-462`). The next sum, over all periods,
  is so compared (4120) with that of the last period alone at the last length tried,
  which may be near zero, or of another length when that one could not be evaluated.
  Good steps may be rejected, and so may a point that has converged: `y` becomes
  `ya+direction` (4177-4178) and the loop ends, as `cvg` is set, at a point that was
  not evaluated.

*perfect_foresight_problem*: after a MATLAB error was trapped the outputs are used
anyway (`DynamicModelCaller.cc:140-160`).

## 5. Proofs

The theorems hold for every value of the constants that their assumptions allow;
the assumptions are named and stand where the constants are declared, and TLC
evaluates them in every run. Each specification has an inductive invariant
`IInv` (theorem `Invariance`, `Spec => []IInv`; `TableInv` and `TableInvariance` for
Pascal's triangle, `ForesightInvariance` for perfect foresight, a second one with
crashes for the sampler) with one case or lemma per action, and the properties of
the runs are derived from it.

| module | proved | for any |
|---|---|---|
| `OpenCloseProofs` | `TypeOK`, `OutputBeforeSignal`, `BreakIsForThisTask`, refinement of `ParallelTask` (`KeepsPromise`) | number of CPUs and calls, set of local CPUs, outcomes of jobs |
| `AlwaysOpenProofs` | `TypeOK`, `OneSlavePerCpu`, `UnfinishedJobHasASlave`, `OutputBeforeSignal`, `BreakIsForThisTask`, refinement of `ParallelTask` | the same, and set of slaves that may expire |
| `DistributeProofs` | `TypeOK`, `PlanIsRight`, `EveryBlockRunOnceUnlessIdle` (first block 1), `UsedNodesAreWatched` | number of nodes and blocks, positive numbers of CPUs, threads and weights |
| `ThreadProofs`, the group | `NeverTooMany`, `GroupOutlivesItsThreads`, `ResultIsComplete` | number of workers, limit, additions per worker |
| `ThreadProofs`, the table | `NoverkIsBinomial`, `ElementExists` | arguments, number of calls of one thread |
| `PerfectForesightProofs` | `StackedProblemIsExact` | number of threads, periods and variables, patterns of derivatives, zeros among them |
| `SamplerProofs` | `LoadGoesOn` (no crash); `SavedDrawsAreTheChain`, `ConcludedIsComplete`, `SessionsFindTheirFiles`, `SavedDrawsAreKept` (`RecoveryIsMeantFor`) | number of blocks, lines per file, draws per session, number of sessions, crashes and recoveries |
| `NewtonProofs` | `SolverStateIsSound` | residuals, limits, periods and kinds of blocks |

**Strategy 0.** None of the properties is inductive: that a missing `P_` file means a
saved output depends on where the slave is, and that on where the master is.
`IInv` adds three facts to the types. `OutputsAreFresh`: once the remnants are
cleaned up, output files hold exactly the outcomes of this call's jobs.
`SlavesInStep`: a slave runs only while the master waits, has its `P_` and input
files, and has no outcome before it saved one; every job of the call is running
or has an outcome. `RequestsAreFresh`: requests to close, the master's note of
who asked and broken jobs all stem from a job of this call that closed the task.
For the refinement, `StartTask` is `Call`, the three saves of an outcome are
`RunJob`, the two collections are `Return`, and all other steps stutter.

**Strategy 1.** Slaves outlive the calls, so "runs only while the master waits" is not
true here. In its place `IInv` says where every job is. `JobsInStep`: during a call
each CPU is in a stage that fits the master's place: not yet prepared, its job
posted to a slave that will look for it (or that a command will start), taken, or
over; a local slave may even have finished while the master still sleeps.
`SlavesAreKnown`: what `P_slave`, the commands and the slaves' places have to do
with one another; a slave that has made up its mind to leave is gone before the
master looks. `NothingIsLeft`: between calls no job, output or request remains.
`OneSlavePerCpu` needs all of them, as a second slave could be started by any
mistake about who is left. The pauses named in section 2 are part of the
specification, hence of what the theorems rest on.

**Distribution.** `IInv` has a part for each phase. `SharesAreRight`: while blocks
are taken from the slowest node, the shares stay at least as many as the blocks, and
in the order of the weights; `SlowestFirst`: the nodes behind the one
that gives are empty and those before it are not. With both the loop
cannot run past the first node. `CpusShareTheBlocks`: the CPUs before the one the
loops have come to hold the blocks of the nodes done and those given on
this one, none negative unless a node with several CPUs is idle.
`ListHasTheBlocks`, `UsedCpusHaveBlocks`: dropping the
empty CPUs keeps the sum. Ranges that are partial sums of positive numbers with the
right total meet each block once. The theorem about blocks has the hypothesis
`fBlock = 1`, because `masterParallel` counts the last block of a CPU without
the first one (section 4); nothing else in the proof needs it.

**Threads.** `IInv` is the types with `MutexesAreHeld` (whoever is between lock and
unlock holds the mutex, so nobody else is), `CounterCounts` (the counter is the
number of threads started that have not counted themselves out, which with the
guard of the main thread gives the limit) and `NothingIsLost` (the result is what
was added, and the one thread between reading and writing has read it).

**Pascal's triangle.** `TableInv(c)` says, place by place in `noverk`, which rows are already
as long as the first (`TableOf`) and what has been tested or made true about the
table's size (`CallOf`). That a row is prolonged correctly is Pascal's rule,
proved from the definition by falling factorials. The theorems have the
hypothesis `OneCaller(c)`: one thread calls, with arguments `k <= n`. The
run `pascal_race` shows that `ElementExists` fails with two.

**Perfect foresight.** `StackedProblemIsExact` says what the MEX returns; the proof
follows the three phases. While the pattern is built, `PatternGrows`: the columns that are closed have
exactly the elements of their variable in the periods before, of and after it, in the
order of their rows; the open column has those that the cursors have passed (`OpenColumn`), and
each cursor is at the first element of its list that is not before the column's variable
(`CursorsFit`). When a column ends, that no list has a next element in it means that
none is left. The cursors start again with each period and count what was added, which
shows that the elements fit into `nzmax` (`ElementsHaveRoom`) although the first period has
no lags and the last no leads. In the parallel region `ThreadsInStep` says that each period is with
one thread, `CallersFit` that a thread's caller holds that period's variables or, in
a linear model, derivatives that are those of every period. An
element belongs to one period by its row, so a thread that
stores its derivatives leaves those of the others alone (`FillColumns`); that it
stores all of them needs the order of rows, as it stops reading a column at the first
row of a later period. While zeros are removed, `ZerosGo`: the column that is being
worked at is in two parts, what has moved and what is still to be read, apart from
each other and from all other columns, and no non-zero element is in neither. That
the Jacobian has exactly as many elements as there are non-zero derivatives is
proved at the end from the bijection between the two. `ForesightAssumption` asks of
the preprocessor's lists (`dynamic_g1_nz`) that they are sorted by columns, which the loops that
build the pattern presume (`perfect_foresight_problem.cc:194-200`), and within them by rows,
which MATLAB asks of a sparse matrix; and that a model without lags has no
derivatives by them.

**Sampler, no crash.** `IInv` says of a history without crashes (`Undisturbed`), from the
session's place: the record announces exactly the lines that the files hold, at rest
and while a session is between two of its saves; each block holds the chain up to
the line where it goes on; the files being filled hold the next draws. Sessions of
any length may start at any line of a file.

**Sampler, crashes and recoveries.** The four properties of `sampler_recover` are proved
from a second inductive invariant, `RecoveryInvariant`. Its hypothesis on the constants,
`RecoveryIsMeantFor`, is what `SamplerRecover.cfg` satisfies and section 4 shows to be
needed: a session starts at the beginning of a file and fills one file or two, the
last session may end within a file, no crash while a new MCMC erases an old one, no
temporary files. Numbers of blocks, lines of a file, crashes and recoveries, and the
steps at which crashes come, are arbitrary, a crash during a recovery among them.
`RInv` says: there are numbers c[b] such that block b holds on disk its
first c[b] files of the session's end (`OnDisk`), which the record need not know;
a recovery has come to some block and the earlier ones already go on after their
files (`Recovers`); a session fills, in the block it has come to, the file after c[b]
with the draws and the generator that follow (`FillsNext`), or has none left to make
(`NoMore`). None of the properties is inductive without it, since a crash keeps
only the disk and the recovery rebuilds everything else from two counts:
the files there are and the files the record announces. A step of a session changes
c in one block, and one lemma per action shows that the new c fits.

**Newton.** `SolverStateIsSound` says that a block is left at the point that was
evaluated last, that systems are of the current point and that factors are freed.
Its exceptions are those of the code (section 4): a converged point may be rejected
and moved away from when its sum of squares is above 12, or, with `stack_solve_algo` 4,
in any case, and then to the full step `ya+direction` only. `IInv` adds where the
residuals and the derivatives come from, and that the reference of the comparisons is
positive, which bounds the first exception; with algorithm 4 it is whatever
`LineSearch` left (`ResidualsAreCurrent`, `ReferenceIsPositive`, `FactorsAreKnown`,
`LeavesAtTheSolution`, `SystemsAreOfTheCurrentPoint`).

**Lemmas.** `SumLemmas` proves what sums over finite sets and over sequences do when an
element is added, changed or left out. Induction is stated about sets of numbers
or of subsets instead of predicates (`NatInductionOnSet`, `SubsetInduction`), and
proved from the well-foundedness of strict inclusion of finite sets.
`ThreadProofs` uses it to show that recursive functions exist (`Iterated`).

*Only model-checked.*

* Liveness (`ReturnsUnlessHung`, `ReturnsUnlessLost`, `Terminates`, `RunReturns`,
  `EverySessionEnds`, `NewtonEnds`): the prover has no rules for fairness and ENABLED.
* The temporary file of the sampler (`TmpIsResumedExactly`), which is resumed rightly in a
  first file only (section 4).
* The algorithms: front end, tensors, decision rules, byte code, elimination,
  stacked systems, searches, quadratures. They use RECURSIVE operators (`Loops` and
  trees), which the prover's SMT backend does not take; what they compute would need
  induction over data.

## 6. Not modelled

* File transfer, cluster checks: wrappers of shell commands.
* Likelihood, filters, optimisers, k-order perturbation, Sylvester equations,
  the Newton search for the fixed point, most MEX kernels: what could be wrong is numerical.
* OccBin, the MATLAB perfect-foresight solvers, extended path, identification,
  sensitivity analysis: sequential MATLAB code around linear algebra.
* Lexers and grammars, readers of the code file, MATLAB writers, argument checks:
  layout and formatting.
* Branches of the bytecode solver that are compiled only with CUDA.
* Preprocessor, dseries, reporting, particles: empty submodules.

## 7. Plan

1. `GaussianElimination` with functions in place of the folds of `Loops`, and a proof
   that its memory stays consistent.
2. Strategy 1 across sessions: several slave instances per CPU, remnants deleted by
   `InitializeComputationalEnvironment`; the `parallel_recover` branch.
3. The sampler with parallel blocks, composed with the promise of `ParallelTask`
   and the ranges of `DistributeJobs`; `mh_initialize_from_previous_mcmc`.
4. The groups of threads of `DecisionRules` in `ThreadGroup`'s terms: that what is
   gathered does not depend on the order, for any number of simulations.

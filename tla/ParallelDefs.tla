---------------------------- MODULE ParallelDefs ----------------------------
(***************************************************************************)
(* The CPUs of a cluster, the outcomes of a job and the contents of the    *)
(* output files, shared by what masterParallel promises (ParallelTask) and *)
(* by its two strategies (OpenCloseStrategy, AlwaysOpenStrategy).          *)
(*                                                                         *)
(* A job is fname(fInputVar, fblck, nblck, ...) evaluated by a slave.      *)
(*    "ok"     it returned                                                 *)
(*    "close"  it returned with the field CloseAllSlaves: its result is    *)
(*             the result of the whole task                                *)
(*    "break"  the master asked the slave to stop it                       *)
(*    "error"  it threw any other error                                    *)
(***************************************************************************)
EXTENDS Naturals

CONSTANTS
    N,         \* the number of CPUs of the cluster
    MaxTasks   \* bound: how many times masterParallel is called

ASSUME NAssumption == N \in Nat \ {0}
ASSUME MaxTasksAssumption == MaxTasks \in Nat

CPU == 1..N

Result == {"ok", "close", "break", "error"}

\* An output file: which call it belongs to and what it holds.
Output == [t : 1..MaxTasks, o : Result]

NoOutput == [t |-> 0, o |-> "none"]

NoOutputs == [j \in CPU |-> NoOutput]

Answer == [kind : {"none", "all", "one", "crash"},
           outs : [CPU -> Output \cup {NoOutput}]]

NoAnswer == [kind |-> "none", outs |-> NoOutputs]
=============================================================================

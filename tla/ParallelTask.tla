---------------------------- MODULE ParallelTask ----------------------------
(***************************************************************************)
(* What masterParallel promises to the function that calls it, whatever    *)
(* the strategy (0, open/close, or 1, always open) it runs the slaves      *)
(* with: the task is cut in one job per CPU, every job is run at most once *)
(* and has one outcome, and the call ends only when every job has one,     *)
(* with the outcomes of this task and of no other.                         *)
(***************************************************************************)
EXTENDS ParallelDefs

VARIABLES
    running,   \* a call of masterParallel is under way
    task,      \* number of the current (or, between calls, the last) call
    totCPU,    \* the CPUs 1..totCPU have a job in this call
    done,      \* done[j]: the outcome of job j of this call, once it has one
    ret        \* what the last call returned

vars == <<running, task, totCPU, done, ret>>

Init ==
    /\ running = FALSE
    /\ task = 0
    /\ totCPU = 1
    /\ done = NoOutputs
    /\ ret = NoAnswer

Call(n) ==
    /\ ~running
    /\ task < MaxTasks
    /\ running' = TRUE
    /\ task' = task + 1
    /\ totCPU' = n
    /\ done' = NoOutputs
    /\ ret' = NoAnswer

\* A job is broken only on behalf of another job that closes the task.
RunJob(j, o) ==
    /\ running
    /\ j \in 1..totCPU
    /\ done[j] = NoOutput
    /\ o = "break" => \E k \in CPU : done[k].o = "close"
    /\ done' = [done EXCEPT ![j] = [t |-> task, o |-> o]]
    /\ UNCHANGED <<running, task, totCPU, ret>>

\* error('Remote jobs crashed')
ReturnCrash ==
    /\ \E j \in CPU : done[j].o = "error"
    /\ ret' = [kind |-> "crash", outs |-> NoOutputs]

\* One entry per CPU. A broken job has no result to give.
ReturnAll ==
    /\ \A j \in CPU : done[j].o \notin {"error", "break"}
    /\ ret' = [kind |-> "all", outs |-> done]

\* The result of the job that closed the task.
ReturnOne(k) ==
    /\ done[k].o = "close"
    /\ \A j \in CPU : done[j].o # "error"
    /\ ret' = [kind |-> "one", outs |-> [NoOutputs EXCEPT ![k] = done[k]]]

Return ==
    /\ running
    /\ \A j \in 1..totCPU : done[j] # NoOutput
    /\ ReturnCrash \/ ReturnAll \/ \E k \in CPU : ReturnOne(k)
    /\ running' = FALSE
    /\ UNCHANGED <<task, totCPU, done>>

Next ==
    \/ \E n \in CPU : Call(n)
    \/ \E j \in CPU, o \in Result : RunJob(j, o)
    \/ Return

Spec == Init /\ [][Next]_vars
=============================================================================

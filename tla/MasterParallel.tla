--------------------------- MODULE MasterParallel ---------------------------
(***************************************************************************)
(* What the two strategies of masterParallel have in common: the files     *)
(* that master and slaves exchange, the master's wait loop, the collection *)
(* of the outputs, and the ways a job ends. Master and slaves share        *)
(* nothing but files:                                                      *)
(*    P_<fname>_<j>End.txt        job j is not finished yet        P       *)
(*    slaveParallel_input<j>.mat  the master wants slave j to work input   *)
(*    <fname>_output_<j>.mat      the outcome of job j             out     *)
(*    comp_status_<fname><j>.mat  progress of job j, or its wish to close  *)
(*                                the whole task (CloseAllSlaves)  status  *)
(*    slaveParallel_break.mat     the master breaks all jobs       brk     *)
(* A local slave works in the master's directory, a remote one in a        *)
(* directory of its own, from which the master copies outputs: outM is the *)
(* master's copy. Every remote CPU is a node of its own. One save, copy or *)
(* deletion of a file is one step, and the two saves of the output of a    *)
(* job that closes the task are one: the second only drops a field.        *)
(*                                                                         *)
(* fname itself is the caller's: it returns, throws or, when it reports    *)
(* its progress through fMessageStatus, stops if it is asked to.           *)
(*                                                                         *)
(* An operator M_... is a wrong version of the one after it, with which    *)
(* TLC has to find a property violated; the specification does not use it. *)
(***************************************************************************)
EXTENDS ParallelDefs

CONSTANTS
    Local,     \* the CPUs of nodes with Local == 1
    Outcomes   \* what a job may do: a subset of {"ok", "close", "error"}

ASSUME LocalAssumption == Local \subseteq CPU
ASSUME OutcomesAssumption == Outcomes \subseteq {"ok", "close", "error"}

VARIABLES
    pc,       \* where the master is in masterParallel
    task,     \* number of the call
    totCPU,   \* number of CPUs used by this call
    scan,     \* loop index of the status loop
    who,      \* whoiamCloseAllSlaves, 0 while flag_CloseAllSlaves == 0
    ret,      \* fOutVar, or the error, of the last call
    snap,     \* the CPUs whose output PRCDirSnapshot already lists
    P, input, out, outM, status, brk,    \* the files, see above
    done      \* history: the outcome each job of this call had

master == <<pc, task, totCPU, scan, who, ret, snap>>
files == <<P, input, out, outM, status, brk>>
shared == <<master, files, done>>

Remote == CPU \ Local

Waiting == pc \in {"scan", "fetch", "check"}

SharedTypeOK ==
    /\ task \in 0..MaxTasks
    /\ totCPU \in CPU
    /\ scan \in 1..(N + 1)
    /\ who \in 0..N
    /\ ret \in Answer
    /\ snap \subseteq CPU
    /\ P \in [CPU -> BOOLEAN]
    /\ input \in [CPU -> BOOLEAN]
    /\ out \in [CPU -> Output \cup {NoOutput}]
    /\ outM \in [CPU -> Output \cup {NoOutput}]
    /\ status \in [CPU -> {"none", "progress", "close"}]
    /\ brk \in BOOLEAN
    /\ done \in [CPU -> Output \cup {NoOutput}]

\* The directories hold no remnant of an earlier session.
SharedInit ==
    /\ pc = "idle"
    /\ task = 0
    /\ totCPU = 1
    /\ scan = 1
    /\ who = 0
    /\ ret = NoAnswer
    /\ snap = {}
    /\ P = [j \in CPU |-> FALSE]
    /\ input = [j \in CPU |-> FALSE]
    /\ out = NoOutputs
    /\ outM = NoOutputs
    /\ status = [j \in CPU |-> "none"]
    /\ brk = FALSE
    /\ done = NoOutputs

-----------------------------------------------------------------------------
(* The master *)

\* A call that distributeJobs spreads over n CPUs, up to saving its inputs.
StartTask(n) ==
    /\ pc = "idle"
    /\ task < MaxTasks
    /\ pc' = "clean"
    /\ task' = task + 1
    /\ totCPU' = n
    /\ who' = 0
    /\ ret' = NoAnswer
    /\ snap' = {}
    /\ done' = NoOutputs
    /\ UNCHANGED <<scan, files>>

\* Remnants of previous runs. P_ files are deleted in the master's directory
\* only, the others everywhere.
CleanRemnants(next) ==
    /\ pc = "clean"
    /\ pc' = next
    /\ status' = [j \in CPU |-> "none"]
    /\ P' = [j \in CPU |-> IF j \in Local THEN FALSE ELSE P[j]]
    /\ out' = NoOutputs
    /\ outM' = NoOutputs
    /\ brk' = FALSE
    /\ UNCHANGED <<task, totCPU, scan, who, ret, snap, input, done>>

\* The status loop reads comp_status_<fname><scan>.mat. The first job seen to
\* ask for it makes the master break all the others (closeSlave, partial = 1).
ScanStatus ==
    /\ pc = "scan"
    /\ scan \in 1..totCPU
    /\ scan' = scan + 1
    /\ IF status[scan] = "close" /\ who = 0
       THEN who' = scan /\ brk' = TRUE
       ELSE UNCHANGED <<who, brk>>
    /\ UNCHANGED <<pc, task, totCPU, ret, snap, P, input, out, outM, status, done>>

ScanEnd ==
    /\ pc = "scan"
    /\ scan = totCPU + 1
    /\ pc' = "fetch"
    /\ UNCHANGED <<task, totCPU, scan, who, ret, snap, files, done>>

\* dynareParallelGetNewFiles copies the remote files the snapshot has not.
FetchNewFiles ==
    /\ pc = "fetch"
    /\ pc' = "check"
    /\ outM' = [j \in CPU |-> IF j \in Remote /\ j \in 1..totCPU /\ j \notin snap
                                 /\ out[j] # NoOutput
                              THEN out[j] ELSE outM[j]]
    /\ UNCHANGED <<task, totCPU, scan, who, ret, snap, P, input, out, status, brk, done>>

\* An output the master reads: in its own directory, or copied there.
Here(j) == IF j \in Local THEN out[j] ELSE outM[j]

\* A job is not finished: its P_ file is still there.
M_ScansFromZero ==
    /\ pc = "check"
    /\ \E j \in CPU : P[j]
    /\ pc' = "scan"
    /\ scan' = 0
    /\ UNCHANGED <<task, totCPU, who, ret, snap, files, done>>
NotFinished ==
    /\ pc = "check"
    /\ \E j \in CPU : P[j]
    /\ pc' = "scan"
    /\ scan' = 1
    /\ UNCHANGED <<task, totCPU, who, ret, snap, files, done>>

\* All are finished, but some outputs have to be copied first.
WaitForOutput ==
    /\ pc = "check"
    /\ \A j \in CPU : ~P[j]
    /\ \E j \in 1..totCPU : Here(j) = NoOutput
    /\ pc' = "scan"
    /\ scan' = 1
    /\ outM' = [j \in CPU |-> IF j \in Remote /\ j \in 1..totCPU /\ outM[j] = NoOutput
                              THEN out[j] ELSE outM[j]]
    /\ UNCHANGED <<task, totCPU, who, ret, snap, P, input, out, status, brk, done>>

AllFinished ==
    /\ pc = "check"
    /\ \A j \in CPU : ~P[j]
    /\ \A j \in 1..totCPU : Here(j) # NoOutput
    /\ pc' = "collect"
    /\ status' = [j \in CPU |-> IF j \in Local THEN "none" ELSE status[j]]
    /\ UNCHANGED <<task, totCPU, scan, who, ret, snap, P, input, out, outM, brk, done>>

Wait ==
    ScanStatus \/ ScanEnd \/ FetchNewFiles \/ NotFinished \/ WaitForOutput \/ AllFinished

\* The break file is withdrawn if there is one (closeSlave, partial = -1).
M_BreakIsLeft == brk' = brk
Unbreak == brk' = IF who = 0 THEN brk ELSE FALSE

\* One output at least has the field error: error('Remote jobs crashed').
\* The outputs in the master's directory are deleted, nothing else is.
CollectCrash(next) ==
    /\ pc = "collect"
    /\ \E j \in 1..totCPU : Here(j).o = "error"
    /\ pc' = next
    /\ ret' = [kind |-> "crash", outs |-> NoOutputs]
    /\ out' = [j \in CPU |-> IF j \in Local /\ j \in 1..totCPU THEN NoOutput ELSE out[j]]
    /\ outM' = [j \in CPU |-> IF j \in 1..totCPU THEN NoOutput ELSE outM[j]]
    /\ Unbreak
    /\ UNCHANGED <<task, totCPU, scan, who, snap, P, input, status, done>>

\* One entry per CPU, or the entry of the CPU that closed the task.
M_EntryOfLastCpu ==
    IF who = 0
    THEN [kind |-> "all", outs |-> [j \in CPU |-> IF j \in 1..totCPU THEN Here(j) ELSE NoOutput]]
    ELSE [kind |-> "one", outs |-> [NoOutputs EXCEPT ![totCPU] = Here(totCPU)]]
fOutVar ==
    IF who = 0
    THEN [kind |-> "all", outs |-> [j \in CPU |-> IF j \in 1..totCPU THEN Here(j) ELSE NoOutput]]
    ELSE [kind |-> "one", outs |-> [NoOutputs EXCEPT ![who] = Here(who)]]

\* Every output is loaded, and deleted in the master's directory. What is
\* done with the remote directories depends on the strategy.
Collect ==
    /\ pc = "collect"
    /\ \A j \in 1..totCPU : Here(j).o # "error"
    /\ pc' = "idle"
    /\ ret' = fOutVar
    /\ outM' = [j \in CPU |-> IF j \in 1..totCPU THEN NoOutput ELSE outM[j]]
    /\ Unbreak
    /\ UNCHANGED <<task, totCPU, scan, who, snap, done>>

-----------------------------------------------------------------------------
(* A job on CPU j, of call t *)

\* Its outcome is saved in the output file.
Save(j, t, o) ==
    /\ out' = [out EXCEPT ![j] = [t |-> t, o |-> o]]
    /\ done' = [done EXCEPT ![j] = [t |-> t, o |-> o]]

\* fMessageStatus finds that the master asked to break the job.
Asked(j) == ~input[j] \/ brk

\* fname reports its progress and goes on.
JobReports(j) ==
    /\ ~Asked(j)
    /\ status' = [status EXCEPT ![j] = "progress"]
    /\ UNCHANGED <<master, P, input, out, outM, brk, done>>

\* fMessageStatus throws 'Master asked to break the job' through fname.
M_BreakIsNotSaved(j, t) ==
    /\ Asked(j)
    /\ status' = [status EXCEPT ![j] = "progress"]
    /\ UNCHANGED <<master, P, input, out, outM, brk, done>>
JobBreaks(j, t) ==
    /\ Asked(j)
    /\ status' = [status EXCEPT ![j] = "progress"]
    /\ Save(j, t, "break")
    /\ UNCHANGED <<master, P, input, outM, brk>>

JobReturns(j, t) ==
    /\ \E o \in Outcomes \cap {"ok", "close"} :
          /\ Save(j, t, o)
          /\ status' = IF o = "close" THEN [status EXCEPT ![j] = "close"] ELSE status
    /\ UNCHANGED <<master, P, input, outM, brk>>

\* fname throws an error of its own.
JobCrashes(j, t) ==
    /\ "error" \in Outcomes
    /\ Save(j, t, "error")
    /\ UNCHANGED <<master, P, input, outM, status, brk>>

\* The handler of that error reports it through fMessageStatus.
CrashReported(j) ==
    /\ status' = [status EXCEPT ![j] = "progress"]
    /\ UNCHANGED <<master, P, input, out, outM, brk, done>>

\* The slave tells the master that the job is finished.
DeleteP(j) ==
    /\ P' = [P EXCEPT ![j] = FALSE]
    /\ UNCHANGED <<master, input, out, outM, status, brk, done>>

-----------------------------------------------------------------------------
(* What makes either strategy correct *)

\* A job's P_ file disappears only after its output is in the slave's
\* directory, as the master's wait loop assumes: while the master waits, a
\* finished job of this call has its output there, and it is its own.
OutputBeforeSignal ==
    Waiting => \A j \in 1..totCPU : ~P[j] => out[j] # NoOutput /\ out[j] = done[j]

\* The break file is out only on behalf of a job of this call that returned
\* CloseAllSlaves, and is gone when no call is under way: a job is never
\* stopped by a request addressed to an earlier one.
BreakIsForThisTask ==
    brk => who # 0 /\ pc # "idle" /\ done[who].o = "close"
=============================================================================

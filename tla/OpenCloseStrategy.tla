------------------------- MODULE OpenCloseStrategy -------------------------
(***************************************************************************)
(* masterParallel with strategy 0 (Parallel_info.leaveSlaveOpen = 0): the  *)
(* master opens one MATLAB instance per CPU, which evaluates fParallel for *)
(* one job and exits. After a call that did not crash the directories of   *)
(* the remote nodes are removed.                                           *)
(*                                                                         *)
(* An operator M_... is a wrong version of the one after it, with which    *)
(* TLC has to find a property violated; the specification does not use it. *)
(***************************************************************************)
EXTENDS MasterParallel

VARIABLE proc     \* proc[j]: where the fParallel instance of CPU j is

vars == <<shared, proc>>

\* The state of master, slaves and files of strategy 0 keeps its types.
TypeOK ==
    /\ pc \in {"idle", "clean", "prepare", "launch", "scan", "fetch", "check", "collect"}
    /\ SharedTypeOK
    /\ proc \in [CPU -> {"off", "run", "crashed", "saved", "hung"}]

Init ==
    /\ SharedInit
    /\ proc = [j \in CPU |-> "off"]

-----------------------------------------------------------------------------
(* The master *)

\* For each CPU used: its P_ file and its input file, sent to its node if
\* that is remote. No slave runs yet.
PrepareCpus ==
    /\ pc = "prepare"
    /\ pc' = "launch"
    /\ P' = [j \in CPU |-> IF j \in 1..totCPU THEN TRUE ELSE P[j]]
    /\ input' = [j \in CPU |-> IF j \in 1..totCPU THEN TRUE ELSE input[j]]
    /\ UNCHANGED <<task, totCPU, scan, who, ret, snap, out, outM, status, brk, proc, done>>

\* The snapshot of the remote directories, then sh ConcurrentCommand1.bat &
Launch ==
    /\ pc = "launch"
    /\ pc' = "scan"
    /\ scan' = 1
    /\ snap' = {j \in CPU : out[j] # NoOutput}
    /\ proc' = [j \in CPU |-> IF j \in 1..totCPU THEN "run" ELSE proc[j]]
    /\ UNCHANGED <<task, totCPU, who, ret, files, done>>

\* dynareParallelRmDir
Removed(j) == j \in Remote /\ j \in 1..totCPU

CollectAndRemove ==
    /\ Collect
    /\ out' = [j \in CPU |-> IF j \in 1..totCPU THEN NoOutput ELSE out[j]]
    /\ P' = [j \in CPU |-> IF Removed(j) THEN FALSE ELSE P[j]]
    /\ input' = [j \in CPU |-> IF Removed(j) THEN FALSE ELSE input[j]]
    /\ status' = [j \in CPU |-> IF Removed(j) THEN "none" ELSE status[j]]
    /\ UNCHANGED proc

-----------------------------------------------------------------------------
(* fParallel on CPU j *)

Goes(j, from, to) ==
    /\ proc[j] = from
    /\ proc' = [proc EXCEPT ![j] = to]

Report(j) == Goes(j, "run", "run") /\ JobReports(j)

Break(j) == Goes(j, "run", "saved") /\ JobBreaks(j, task)

Finish(j) == Goes(j, "run", "saved") /\ JobReturns(j, task)

Crash(j) == Goes(j, "run", "crashed") /\ JobCrashes(j, task)

\* Nothing catches an error that fMessageStatus throws in the handler of the
\* crash: fParallel then ends without deleting its P_ file.
M_CrashWithoutSignal(j) == Goes(j, "crashed", "off") /\ CrashReported(j)
ReportCrash(j) == Goes(j, "crashed", IF Asked(j) THEN "hung" ELSE "saved") /\ CrashReported(j)

\* The last thing it does.
Signal(j) == Goes(j, "saved", "off") /\ DeleteP(j)

-----------------------------------------------------------------------------
Master ==
    \/ PrepareCpus \/ Launch \/ CollectAndRemove
    \/ /\ CleanRemnants("prepare") \/ Wait \/ CollectCrash("idle")
       /\ UNCHANGED proc

Slave(j) ==
    Report(j) \/ Break(j) \/ Finish(j) \/ Crash(j) \/ ReportCrash(j) \/ Signal(j)

Next ==
    \/ \E n \in CPU : StartTask(n) /\ UNCHANGED proc
    \/ Master
    \/ \E j \in CPU : Slave(j)

Spec == Init /\ [][Next]_vars

\* The master polls for ever, and an instance that was started makes progress:
\* fname terminates, by returning, throwing or reporting once it is asked to.
Fairness ==
    /\ WF_vars(Master)
    /\ \A j \in CPU :
          /\ WF_vars(Break(j) \/ Finish(j) \/ Crash(j))
          /\ WF_vars(ReportCrash(j))
          /\ WF_vars(Signal(j))

FairSpec == Spec /\ Fairness

-----------------------------------------------------------------------------
(* What makes it correct *)

Promise == INSTANCE ParallelTask WITH running <- (pc # "idle")

\* Whatever order the master polls and the slaves save, report and signal in,
\* each call does what masterParallel promises: no job is run twice, no job is
\* broken but for one that closes the task, and the answer holds the outcomes
\* of the jobs of this call and nothing a previous call left behind.
KeepsPromise == Promise!Spec

\* A call that does not return has a job that crashed while it was asked to
\* break; neither a crash nor a request to break alone keeps the master waiting.
ReturnsUnlessHung == (pc # "idle") ~> (pc = "idle" \/ \E j \in CPU : proc[j] = "hung")
=============================================================================

------------------------- MODULE AlwaysOpenStrategy -------------------------
(***************************************************************************)
(* masterParallel with strategy 1 (Parallel_info.leaveSlaveOpen = 1): the  *)
(* slaves evaluate slaveParallel, which serves one job after the other and *)
(* leaves after 20 idle minutes, after a crash, or when the master tells   *)
(* it to (closeSlave). Besides the files of MasterParallel there are       *)
(*    P_slave_<j>End.txt   slave j is deemed alive               pslave    *)
(*    slaveJob<j>.mat      a job for slave j, with its inputs    slaveJob  *)
(*    stayalive<j>.txt     a remote slave is about to get a job  stayalive *)
(*                                                                         *)
(* One session is modelled: it begins with no slave, and ends with the     *)
(* error of a crashed job.                                                 *)
(*                                                                         *)
(* Time. A slave reads its files once a second, and the master sleeps one  *)
(* second between announcing a job and deciding whether the slave is       *)
(* alive. The model assumes what the code relies on: the few instructions  *)
(* from a slave's decision to leave to the deletion of its P_slave file    *)
(* take less than that second (CheckAlive, CloseSlaveEnd), and 20 minutes  *)
(* do not go by while the master prepares one CPU (PollEmpty).             *)
(*                                                                         *)
(* An operator M_... is a wrong version of the one after it, with which    *)
(* TLC has to find a property violated; the specification does not use it. *)
(***************************************************************************)
EXTENDS MasterParallel

CONSTANT Expiring   \* the CPUs whose slave may be left idle for 20 minutes

ASSUME ExpiringAssumption == Expiring \subseteq CPU

VARIABLES
    cpu,           \* loop index j of the loop that prepares the CPUs
    newInstance,   \* its value after the last CPU prepared
    commands,      \* CPUs with a command in ConcurrentCommand1.bat
    pslave, slaveJob, stayalive,   \* the files, see above
    proc,          \* proc[j]: where the slaveParallel instance of CPU j is
    job,           \* job[j]: the call whose job slave j loaded last
    old            \* old[j]: 20 minutes have gone by since slave j set t0

own == <<cpu, newInstance, commands, pslave, slaveJob, stayalive, proc, job, old>>
vars == <<shared, own>>

\* The state of master, slaves and files of strategy 1 keeps its types.
TypeOK ==
    /\ pc \in {"idle", "stopped", "closing", "clean", "post", "pause", "launch",
               "scan", "fetch", "check", "collect"}
    /\ SharedTypeOK
    /\ cpu \in CPU
    /\ newInstance \in BOOLEAN
    /\ commands \subseteq CPU
    /\ pslave \in [CPU -> BOOLEAN]
    /\ slaveJob \in [CPU -> 0..MaxTasks]
    /\ stayalive \in [CPU -> BOOLEAN]
    /\ proc \in [CPU -> {"off", "boot", "loop", "poll", "run", "crashed", "saved",
                         "broken", "leaving", "exiting", "hung"}]
    /\ job \in [CPU -> 0..MaxTasks]
    /\ old \in [CPU -> BOOLEAN]

Init ==
    /\ SharedInit
    /\ cpu = 1
    /\ newInstance = FALSE
    /\ commands = {}
    /\ pslave = [j \in CPU |-> FALSE]
    /\ slaveJob = [j \in CPU |-> 0]
    /\ stayalive = [j \in CPU |-> FALSE]
    /\ proc = [j \in CPU |-> "off"]
    /\ job = [j \in CPU |-> 0]
    /\ old = [j \in CPU |-> FALSE]

-----------------------------------------------------------------------------
(* The master *)

\* A fresh ConcurrentCommand1.bat after the clean-up.
OpenCommands ==
    /\ CleanRemnants("post")
    /\ cpu' = 1
    /\ commands' = {}
    /\ UNCHANGED <<newInstance, pslave, slaveJob, stayalive, proc, job, old>>

\* The P_ file and the job of CPU cpu. A local slave sees them at once, a
\* remote one gets a stayalive file first.
PostJob ==
    /\ pc = "post"
    /\ pc' = "pause"
    /\ IF cpu \in Local
       THEN /\ P' = [P EXCEPT ![cpu] = TRUE]
            /\ slaveJob' = [slaveJob EXCEPT ![cpu] = task]
            /\ UNCHANGED stayalive
       ELSE /\ stayalive' = [stayalive EXCEPT ![cpu] = TRUE]
            /\ UNCHANGED <<P, slaveJob>>
    /\ UNCHANGED <<task, totCPU, scan, who, ret, snap, input, out, outM, status, brk, done,
                   cpu, newInstance, commands, pslave, proc, job, old>>

\* At line 68 slave j goes on.
Stays(j) == (~old[j] /\ input[j]) \/ stayalive[j]

\* Slave j has made up its mind to leave and P_slave_<j> is still there.
OnItsWayOut(j) == proc[j] = "exiting" \/ (proc[j] = "loop" /\ ~Stays(j))

\* pause(1), then the P_slave file tells whether slave cpu is alive. If not, a
\* command is written to start it; a remote slave gets its P_ file and its job.
CheckAlive ==
    /\ pc = "pause"
    /\ ~OnItsWayOut(cpu)
    /\ newInstance' = ~pslave[cpu]
    /\ pslave' = [pslave EXCEPT ![cpu] = TRUE]
    /\ IF pslave[cpu]
       THEN UNCHANGED <<input, commands>>
       ELSE /\ input' = [input EXCEPT ![cpu] = TRUE]
            /\ commands' = commands \cup {cpu}
    /\ IF cpu \in Remote
       THEN /\ P' = [P EXCEPT ![cpu] = TRUE]
            /\ slaveJob' = [slaveJob EXCEPT ![cpu] = task]
       ELSE UNCHANGED <<P, slaveJob>>
    /\ IF cpu < totCPU
       THEN pc' = "post" /\ cpu' = cpu + 1
       ELSE pc' = "launch" /\ UNCHANGED cpu
    /\ UNCHANGED <<task, totCPU, scan, who, ret, snap, out, outM, status, brk, done,
                   stayalive, proc, job, old>>

\* Strategy==0 || newInstance: the commands are run if the last CPU needs one.
M_RunOnlyIfAllAreNew ==
    IF commands = 1..totCPU
    THEN /\ snap' = {j \in CPU : out[j] # NoOutput}
         /\ proc' = [j \in CPU |-> IF j \in commands THEN "boot" ELSE proc[j]]
    ELSE UNCHANGED <<snap, proc>>
RunCommands ==
    IF newInstance
    THEN /\ snap' = {j \in CPU : out[j] # NoOutput}
         /\ proc' = [j \in CPU |-> IF j \in commands THEN "boot" ELSE proc[j]]
    ELSE UNCHANGED <<snap, proc>>

Launch ==
    /\ pc = "launch"
    /\ pc' = "scan"
    /\ scan' = 1
    /\ RunCommands
    /\ UNCHANGED <<task, totCPU, who, ret, files, done,
                   cpu, newInstance, commands, pslave, slaveJob, stayalive, job, old>>

\* comp_status files are deleted everywhere, the remote files that are not in
\* the initial snapshot on the nodes used.
CollectAndDelete ==
    /\ Collect
    /\ out' = [j \in CPU |-> IF j \in 1..totCPU /\ (j \in Local \/ j \notin snap)
                             THEN NoOutput ELSE out[j]]
    /\ status' = [j \in CPU |-> "none"]
    /\ UNCHANGED <<P, input, own>>

\* closeSlave with partial = 0, when the caller needs no slave any more: the
\* slaves are told to leave, and the remote directories are removed. The loop
\* that should wait for them looks for a file that never exists.
CloseSlave ==
    /\ pc = "idle"
    /\ pc' = "closing"
    /\ input' = [j \in CPU |-> FALSE]
    /\ slaveJob' = [j \in CPU |-> 0]
    /\ pslave' = [j \in CPU |-> IF j \in Local THEN pslave[j] ELSE FALSE]
    /\ stayalive' = [j \in CPU |-> IF j \in Local THEN stayalive[j] ELSE FALSE]
    /\ out' = [j \in CPU |-> IF j \in Local THEN out[j] ELSE NoOutput]
    /\ UNCHANGED <<task, totCPU, scan, who, ret, snap, P, outM, status, brk, done,
                   cpu, newInstance, commands, proc, job, old>>

M_DoesNotWaitForSlaves ==
    /\ pc = "closing"
    /\ pc' = "idle"
    /\ UNCHANGED <<task, totCPU, scan, who, ret, snap, files, done, own>>
CloseSlaveEnd ==
    /\ pc = "closing"
    /\ \A j \in CPU : proc[j] \notin {"loop", "poll"}
    /\ pc' = "idle"
    /\ UNCHANGED <<task, totCPU, scan, who, ret, snap, files, done, own>>

-----------------------------------------------------------------------------
(* slaveParallel on CPU j *)

Goes(j, from, to) ==
    /\ proc[j] = from
    /\ proc' = [proc EXCEPT ![j] = to]

\* It loads its input file and sets t0.
Boot(j) ==
    /\ Goes(j, "boot", "loop")
    /\ input[j]
    /\ old' = [old EXCEPT ![j] = FALSE]
    /\ UNCHANGED <<shared, cpu, newInstance, commands, pslave, slaveJob, stayalive, job>>

\* The condition of the loop holds: t0 is set again if the master asked to stay
\* alive, then pause(1).
KeepOn(j) ==
    /\ Goes(j, "loop", "poll")
    /\ Stays(j)
    /\ stayalive' = [stayalive EXCEPT ![j] = FALSE]
    /\ old' = [old EXCEPT ![j] = IF stayalive[j] THEN FALSE ELSE old[j]]
    /\ UNCHANGED <<shared, cpu, newInstance, commands, pslave, slaveJob, job>>

Leave(j) ==
    /\ Goes(j, "loop", "exiting")
    /\ ~Stays(j)
    /\ UNCHANGED <<shared, cpu, newInstance, commands, pslave, slaveJob, stayalive, job, old>>

\* etime(clock,t0) may have passed 1200 by the time the loop is back at line 68.
MayExpire(j) ==
    \/ UNCHANGED old
    \/ j \in Expiring /\ old' = [old EXCEPT ![j] = TRUE]

PollEmpty(j) ==
    /\ Goes(j, "poll", "loop")
    /\ slaveJob[j] = 0
    /\ IF pc = "pause" /\ cpu = j THEN UNCHANGED old ELSE MayExpire(j)
    /\ UNCHANGED <<shared, cpu, newInstance, commands, pslave, slaveJob, stayalive, job>>

TakeJob(j) ==
    /\ Goes(j, "poll", "run")
    /\ slaveJob[j] # 0
    /\ job' = [job EXCEPT ![j] = slaveJob[j]]
    /\ slaveJob' = [slaveJob EXCEPT ![j] = 0]
    /\ UNCHANGED <<shared, cpu, newInstance, commands, pslave, stayalive, old>>

InJob == UNCHANGED <<cpu, newInstance, commands, pslave, slaveJob, stayalive, job, old>>

Report(j) == Goes(j, "run", "run") /\ JobReports(j) /\ InJob

Break(j) == Goes(j, "run", "broken") /\ JobBreaks(j, job[j]) /\ InJob

Finish(j) == Goes(j, "run", "saved") /\ JobReturns(j, job[j]) /\ InJob

Crash(j) == Goes(j, "run", "crashed") /\ JobCrashes(j, job[j]) /\ InJob

\* Nothing catches an error that fMessageStatus throws in the handler of the
\* crash: slaveParallel then ends without deleting its P_ and P_slave files.
ReportCrash(j) ==
    /\ Goes(j, "crashed", IF Asked(j) THEN "hung" ELSE "leaving")
    /\ CrashReported(j)
    /\ InJob

\* The job is finished. t0 is set again after a job that returned, not after a
\* broken one; a crash ends the loop.
Signal(j) ==
    /\ \/ Goes(j, "saved", "loop") /\ old' = [old EXCEPT ![j] = FALSE]
       \/ Goes(j, "broken", "loop") /\ MayExpire(j)
       \/ Goes(j, "leaving", "exiting") /\ UNCHANGED old
    /\ DeleteP(j)
    /\ UNCHANGED <<cpu, newInstance, commands, pslave, slaveJob, stayalive, job>>

M_PSlaveIsLeft(j) ==
    /\ Goes(j, "exiting", "off")
    /\ UNCHANGED <<shared, cpu, newInstance, commands, pslave, slaveJob, stayalive, job, old>>
Exit(j) ==
    /\ Goes(j, "exiting", "off")
    /\ pslave' = [pslave EXCEPT ![j] = FALSE]
    /\ UNCHANGED <<shared, cpu, newInstance, commands, slaveJob, stayalive, job, old>>

-----------------------------------------------------------------------------
Master ==
    \/ OpenCommands \/ PostJob \/ CheckAlive \/ Launch \/ CollectAndDelete \/ CloseSlaveEnd
    \/ /\ Wait \/ CollectCrash("stopped")
       /\ UNCHANGED own

JobEnds(j) == Break(j) \/ Finish(j) \/ Crash(j)

Slave(j) ==
    \/ Boot(j) \/ KeepOn(j) \/ Leave(j) \/ PollEmpty(j) \/ TakeJob(j)
    \/ Report(j) \/ JobEnds(j) \/ ReportCrash(j) \/ Signal(j) \/ Exit(j)

Next ==
    \/ \E n \in CPU : StartTask(n) /\ UNCHANGED own
    \/ CloseSlave
    \/ Master
    \/ \E j \in CPU : Slave(j)

Spec == Init /\ [][Next]_vars

\* The master polls for ever, the slaves make progress, and fname terminates.
Fairness ==
    /\ WF_vars(Master)
    /\ \A j \in CPU :
          /\ WF_vars(Boot(j) \/ KeepOn(j) \/ Leave(j) \/ PollEmpty(j) \/ TakeJob(j))
          /\ WF_vars(JobEnds(j))
          /\ WF_vars(ReportCrash(j))
          /\ WF_vars(Signal(j))
          /\ WF_vars(Exit(j))

FairSpec == Spec /\ Fairness

-----------------------------------------------------------------------------
(* What makes it correct *)

InCall == pc \notin {"idle", "stopped", "closing"}

Promise == INSTANCE ParallelTask WITH running <- InCall

\* The slaves outlive the calls, yet each call does what masterParallel
\* promises: no job is run twice, no job is broken but for one that closes the
\* task, and the answer holds the outcomes of the jobs of this call only.
KeepsPromise == Promise!Spec

\* The master never starts a second slave for a CPU whose slave still runs:
\* two would take the same jobs.
OneSlavePerCpu ==
    pc = "launch" => \A j \in commands : proc[j] = "off"

\* Slave j will not run the job it is given: it crashed while it was asked to
\* break, or the command that starts it was written but not run.
Lost(j) == proc[j] = "hung" \/ (proc[j] = "off" /\ j \in commands /\ ~newInstance)

\* A job that the master waits for has a slave to run it: one that runs it, or
\* one that will find it before it may leave. An idle slave may decide to expire
\* at any moment, and still no job is left behind but those of lost slaves.
UnfinishedJobHasASlave ==
    Waiting => \A j \in CPU : P[j] =>
        \/ slaveJob[j] = task /\ proc[j] \in {"boot", "loop", "poll"} /\ ~OnItsWayOut(j)
        \/ slaveJob[j] = 0 /\ job[j] = task
           /\ proc[j] \in {"run", "saved", "broken", "crashed", "leaving"}
        \/ Lost(j)

\* A call that does not return waits for a lost slave.
ReturnsUnlessLost == InCall ~> (~InCall \/ \E j \in CPU : Lost(j))
=============================================================================

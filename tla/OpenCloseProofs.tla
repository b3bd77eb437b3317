-------------------------- MODULE OpenCloseProofs --------------------------
(***************************************************************************)
(* Proofs about OpenCloseStrategy, for any number of CPUs, any mixture of  *)
(* local and remote ones, any number of calls and any outcome of the jobs. *)
(***************************************************************************)
EXTENDS OpenCloseStrategy, TLAPS

\* The output files of this call are the outcomes its jobs had, from the
\* moment the remnants of earlier calls are gone.
OutputsAreFresh ==
    pc \notin {"idle", "clean"} =>
        /\ out = done
        /\ \A j \in CPU : outM[j] \in {NoOutput, done[j]}

\* Where the slaves are, given where the master is.
SlavesInStep ==
    /\ pc # "idle" => task # 0
    /\ pc \in {"clean", "prepare", "launch"} => done = NoOutputs
    /\ \A j \in CPU : j \notin 1..totCPU => done[j] = NoOutput
    /\ pc = "launch" => \A j \in 1..totCPU : P[j] /\ input[j]
    /\ \A j \in CPU : proc[j] # "off" =>
          Waiting /\ j \in 1..totCPU /\ P[j] /\ input[j]
    /\ \A j \in CPU : proc[j] = "run" => done[j] = NoOutput
    /\ Waiting => \A j \in 1..totCPU : proc[j] = "run" \/ done[j] # NoOutput
    /\ pc = "collect" => \A j \in 1..totCPU : Here(j) # NoOutput /\ done[j] # NoOutput

\* Requests to break are about this call.
RequestsAreFresh ==
    /\ pc \notin {"idle", "clean"} => \A j \in CPU : status[j] = "close" => done[j].o = "close"
    /\ who # 0 => done[who].o = "close"
    /\ brk => who # 0 /\ pc # "idle"
    /\ \A j \in CPU : done[j].o = "break" => who # 0

IInv == TypeOK /\ OutputsAreFresh /\ SlavesInStep /\ RequestsAreFresh

\* The empty outputs and the empty answer of masterParallel have their types.
LEMMA NoOutputType == NoOutputs \in [CPU -> Output \cup {NoOutput}] /\ NoAnswer \in Answer
BY DEF NoOutputs, NoAnswer, Answer

\* The files and the history start empty.
LEMMA InitIInv == Init => IInv
<1> SUFFICES ASSUME Init PROVE IInv
  OBVIOUS
<1>1. TypeOK
  <2>1. brk \in BOOLEAN
    BY DEF Init, SharedInit
  <2> QED
    BY <2>1, NoOutputType, NAssumption, MaxTasksAssumption DEF Init, SharedInit,
       TypeOK, SharedTypeOK, CPU
<1>2. OutputsAreFresh
  BY DEF Init, SharedInit, OutputsAreFresh
<1>3. SlavesInStep
  BY DEF Init, SharedInit, SlavesInStep, Waiting, NoOutputs
<1>4. RequestsAreFresh
  BY DEF Init, SharedInit, RequestsAreFresh, NoOutputs, NoOutput
<1> QED
  BY <1>1, <1>2, <1>3, <1>4 DEF IInv

\* Every step of the master and of a slave preserves the invariant.
LEMMA NextIInv == IInv /\ [Next]_vars => IInv'
<1> SUFFICES ASSUME IInv, [Next]_vars PROVE IInv'
  OBVIOUS
<1> USE NAssumption, MaxTasksAssumption, LocalAssumption, OutcomesAssumption, NoOutputType
<1> USE DEF IInv, TypeOK, SharedTypeOK, CPU, NoOutput
<1>1. CASE \E n \in CPU : StartTask(n) /\ UNCHANGED proc
  <2>1. TypeOK'
    BY <1>1 DEF StartTask, files, NoOutputs, NoAnswer, SlavesInStep, Waiting
  <2>2. OutputsAreFresh'
    BY <1>1 DEF OutputsAreFresh, SlavesInStep, StartTask, files, NoOutputs, NoAnswer,
       Waiting
  <2>3. SlavesInStep'
    BY <1>1 DEF SlavesInStep, StartTask, files, NoOutputs, NoAnswer, Waiting, Here
  <2>4. RequestsAreFresh'
    BY <1>1 DEF RequestsAreFresh, SlavesInStep, StartTask, files, NoOutputs, NoAnswer,
       Waiting
  <2> QED
    BY <2>1, <2>2, <2>3, <2>4
<1>2. CASE CleanRemnants("prepare") /\ UNCHANGED proc
  <2>1. TypeOK'
    BY <1>2 DEF CleanRemnants, NoOutputs, SlavesInStep, Waiting
  <2>2. OutputsAreFresh'
    BY <1>2 DEF OutputsAreFresh, SlavesInStep, CleanRemnants, NoOutputs, Waiting
  <2>3. SlavesInStep'
    BY <1>2 DEF SlavesInStep, CleanRemnants, NoOutputs, Waiting, Here
  <2>4. RequestsAreFresh'
    BY <1>2 DEF RequestsAreFresh, SlavesInStep, CleanRemnants, NoOutputs, Waiting
  <2> QED
    BY <2>1, <2>2, <2>3, <2>4
<1>3. CASE PrepareCpus
  <2>1. TypeOK'
    BY <1>3 DEF PrepareCpus, SlavesInStep, Waiting
  <2>2. OutputsAreFresh'
    BY <1>3 DEF OutputsAreFresh, SlavesInStep, PrepareCpus, Waiting
  <2>3. SlavesInStep'
    <3>1. \A j \in 1..totCPU : P'[j] /\ input'[j]
      BY <1>3 DEF PrepareCpus
    <3>2. \A j \in CPU : proc[j] = "off"
      BY <1>3 DEF PrepareCpus, SlavesInStep, Waiting
    <3> QED
      BY <1>3, <3>1, <3>2 DEF PrepareCpus, SlavesInStep, Waiting
  <2>4. RequestsAreFresh'
    BY <1>3 DEF RequestsAreFresh, SlavesInStep, PrepareCpus, Waiting
  <2> QED
    BY <2>1, <2>2, <2>3, <2>4
<1>4. CASE Launch
  <2>1. TypeOK'
    BY <1>4 DEF Launch, files, SlavesInStep, Waiting
  <2>2. OutputsAreFresh'
    BY <1>4 DEF OutputsAreFresh, SlavesInStep, Launch, files, Waiting
  <2>3. SlavesInStep'
    <3>1. \A j \in CPU : proc[j] = "off" /\ done[j] = NoOutput
      BY <1>4 DEF Launch, SlavesInStep, Waiting, NoOutputs
    <3>2. \A j \in 1..totCPU : P'[j] /\ input'[j]
      BY <1>4 DEF Launch, SlavesInStep, files
    <3>3. \A j \in CPU : proc'[j] = IF j \in 1..totCPU THEN "run" ELSE "off"
      BY <1>4, <3>1 DEF Launch
    <3>4. done' = done /\ pc' = "scan" /\ totCPU' = totCPU /\ task' = task /\ task # 0
      BY <1>4 DEF Launch, SlavesInStep
    <3> QED
      BY <3>1, <3>2, <3>3, <3>4 DEF SlavesInStep, Waiting
  <2>4. RequestsAreFresh'
    BY <1>4 DEF RequestsAreFresh, SlavesInStep, Launch, files, Waiting
  <2> QED
    BY <2>1, <2>2, <2>3, <2>4
<1>5. CASE ScanStatus /\ UNCHANGED proc
  <2>1. TypeOK'
    <3>1. brk' \in BOOLEAN
      BY <1>5 DEF ScanStatus
    <3>2. scan' \in 1..(N + 1) /\ who' \in 0..N
      BY <1>5 DEF ScanStatus
    <3> QED
      BY <1>5, <3>1, <3>2 DEF ScanStatus
  <2>2. OutputsAreFresh'
    BY <1>5 DEF OutputsAreFresh, SlavesInStep, ScanStatus, Waiting
  <2>3. SlavesInStep'
    BY <1>5 DEF SlavesInStep, ScanStatus, Waiting, Here
  <2>4. RequestsAreFresh'
    BY <1>5 DEF RequestsAreFresh, SlavesInStep, ScanStatus, Waiting
  <2> QED
    BY <2>1, <2>2, <2>3, <2>4
<1>6. CASE ScanEnd /\ UNCHANGED proc
  <2>1. TypeOK'
    BY <1>6 DEF ScanEnd, files, SlavesInStep, Waiting
  <2>2. OutputsAreFresh'
    BY <1>6 DEF OutputsAreFresh, SlavesInStep, ScanEnd, files, Waiting
  <2>3. SlavesInStep'
    BY <1>6 DEF SlavesInStep, ScanEnd, files, Waiting, Here
  <2>4. RequestsAreFresh'
    BY <1>6 DEF RequestsAreFresh, SlavesInStep, ScanEnd, files, Waiting
  <2> QED
    BY <2>1, <2>2, <2>3, <2>4
<1>7. CASE FetchNewFiles /\ UNCHANGED proc
  <2>1. TypeOK'
    BY <1>7 DEF FetchNewFiles, Remote, Output, Result, Answer, SlavesInStep, Waiting
  <2>2. OutputsAreFresh'
    BY <1>7 DEF OutputsAreFresh, SlavesInStep, FetchNewFiles, Remote, Waiting
  <2>3. SlavesInStep'
    BY <1>7 DEF SlavesInStep, FetchNewFiles, Remote, Waiting, Here
  <2>4. RequestsAreFresh'
    BY <1>7 DEF RequestsAreFresh, SlavesInStep, FetchNewFiles, Remote, Waiting
  <2> QED
    BY <2>1, <2>2, <2>3, <2>4
<1>8. CASE NotFinished /\ UNCHANGED proc
  <2>1. TypeOK'
    BY <1>8 DEF NotFinished, files, Remote, Here, Output, Result, Answer,
       SlavesInStep, Waiting
  <2>2. OutputsAreFresh'
    BY <1>8 DEF OutputsAreFresh, SlavesInStep, NotFinished, files, Remote, Here, Waiting
  <2>3. SlavesInStep'
    BY <1>8 DEF SlavesInStep, OutputsAreFresh, NotFinished, files, Remote, Here, Waiting
  <2>4. RequestsAreFresh'
    BY <1>8 DEF RequestsAreFresh, SlavesInStep, NotFinished, files, Remote, Here,
       Waiting
  <2> QED
    BY <2>1, <2>2, <2>3, <2>4
<1>9. CASE WaitForOutput /\ UNCHANGED proc
  <2>1. TypeOK'
    BY <1>9 DEF WaitForOutput, Remote, Here, Output, Result, Answer, SlavesInStep,
       Waiting
  <2>2. OutputsAreFresh'
    BY <1>9 DEF OutputsAreFresh, SlavesInStep, WaitForOutput, Remote, Here, Waiting
  <2>3. SlavesInStep'
    BY <1>9 DEF SlavesInStep, OutputsAreFresh, WaitForOutput, Remote, Here, Waiting
  <2>4. RequestsAreFresh'
    BY <1>9 DEF RequestsAreFresh, SlavesInStep, WaitForOutput, Remote, Here, Waiting
  <2> QED
    BY <2>1, <2>2, <2>3, <2>4
<1>10. CASE AllFinished /\ UNCHANGED proc
  <2>1. TypeOK'
    BY <1>10 DEF AllFinished, Here, SlavesInStep, Waiting
  <2>2. OutputsAreFresh'
    BY <1>10 DEF OutputsAreFresh, SlavesInStep, AllFinished, Here, Waiting
  <2>3. SlavesInStep'
    BY <1>10 DEF SlavesInStep, OutputsAreFresh, AllFinished, Here, Waiting
  <2>4. RequestsAreFresh'
    BY <1>10 DEF RequestsAreFresh, SlavesInStep, AllFinished, Here, Waiting
  <2> QED
    BY <2>1, <2>2, <2>3, <2>4
<1>11. CASE CollectCrash("idle") /\ UNCHANGED proc
  <2>1. TypeOK'
    BY <1>11 DEF CollectCrash, Here, Unbreak, NoOutputs, Output, Result, Answer,
       SlavesInStep, Waiting
  <2>2. OutputsAreFresh'
    BY <1>11 DEF OutputsAreFresh, SlavesInStep, CollectCrash, Here, Unbreak,
       NoOutputs, Waiting
  <2>3. SlavesInStep'
    BY <1>11 DEF SlavesInStep, CollectCrash, Here, Unbreak, NoOutputs, Waiting
  <2>4. RequestsAreFresh'
    BY <1>11 DEF RequestsAreFresh, SlavesInStep, CollectCrash, Here, Unbreak,
       NoOutputs, Waiting
  <2> QED
    BY <2>1, <2>2, <2>3, <2>4
<1>12. CASE CollectAndRemove
  <2>1. TypeOK'
    BY <1>12 DEF CollectAndRemove, Collect, Here, fOutVar, Unbreak, Removed, Remote,
       NoOutputs, Output, Result, Answer, SlavesInStep, Waiting
  <2>2. OutputsAreFresh'
    BY <1>12 DEF OutputsAreFresh, SlavesInStep, CollectAndRemove, Collect, Here,
       fOutVar, Unbreak, Removed, Remote, NoOutputs, Waiting
  <2>3. SlavesInStep'
    BY <1>12 DEF SlavesInStep, CollectAndRemove, Collect, Here, fOutVar, Unbreak,
       Removed, Remote, NoOutputs, Waiting
  <2>4. RequestsAreFresh'
    BY <1>12 DEF RequestsAreFresh, SlavesInStep, CollectAndRemove, Collect, Here,
       fOutVar, Unbreak, Removed, Remote, NoOutputs, Waiting
  <2> QED
    BY <2>1, <2>2, <2>3, <2>4
<1>13. CASE \E j \in CPU : Report(j)
  <2>1. TypeOK'
    BY <1>13 DEF Report, Goes, JobReports, Asked, master, SlavesInStep, Waiting
  <2>2. OutputsAreFresh'
    BY <1>13 DEF OutputsAreFresh, SlavesInStep, Report, Goes, JobReports, Asked,
       master, Waiting
  <2>3. SlavesInStep'
    BY <1>13 DEF SlavesInStep, Report, Goes, JobReports, Asked, master, Waiting, Here
  <2>4. RequestsAreFresh'
    BY <1>13 DEF RequestsAreFresh, SlavesInStep, Report, Goes, JobReports, Asked,
       master, Waiting
  <2> QED
    BY <2>1, <2>2, <2>3, <2>4
<1>14. CASE \E j \in CPU : Break(j)
  <2>1. TypeOK'
    BY <1>14 DEF Break, Goes, JobBreaks, Save, Asked, master, Output, Result, Answer,
       SlavesInStep, Waiting
  <2>2. OutputsAreFresh'
    BY <1>14 DEF OutputsAreFresh, SlavesInStep, Break, Goes, JobBreaks, Save, Asked,
       master, Waiting
  <2>3. SlavesInStep'
    BY <1>14 DEF SlavesInStep, Break, Goes, JobBreaks, Save, Asked, master, Waiting,
       Here
  <2>4. RequestsAreFresh'
    BY <1>14 DEF RequestsAreFresh, SlavesInStep, Break, Goes, JobBreaks, Save, Asked,
       master, Waiting
  <2> QED
    BY <2>1, <2>2, <2>3, <2>4
<1>15. CASE \E j \in CPU : Finish(j)
  <2>1. TypeOK'
    BY <1>15 DEF Finish, Goes, JobReturns, Save, master, Output, Result, Answer,
       SlavesInStep, Waiting
  <2>2. OutputsAreFresh'
    BY <1>15 DEF OutputsAreFresh, SlavesInStep, Finish, Goes, JobReturns, Save,
       master, Waiting
  <2>3. SlavesInStep'
    BY <1>15 DEF SlavesInStep, Finish, Goes, JobReturns, Save, master, Waiting, Here
  <2>4. RequestsAreFresh'
    BY <1>15 DEF RequestsAreFresh, SlavesInStep, Finish, Goes, JobReturns, Save,
       master, Waiting
  <2> QED
    BY <2>1, <2>2, <2>3, <2>4
<1>16. CASE \E j \in CPU : Crash(j)
  <2>1. TypeOK'
    BY <1>16 DEF Crash, Goes, JobCrashes, Save, master, Output, Result, Answer,
       SlavesInStep, Waiting
  <2>2. OutputsAreFresh'
    BY <1>16 DEF OutputsAreFresh, SlavesInStep, Crash, Goes, JobCrashes, Save, master,
       Waiting
  <2>3. SlavesInStep'
    BY <1>16 DEF SlavesInStep, Crash, Goes, JobCrashes, Save, master, Waiting, Here
  <2>4. RequestsAreFresh'
    BY <1>16 DEF RequestsAreFresh, SlavesInStep, Crash, Goes, JobCrashes, Save,
       master, Waiting
  <2> QED
    BY <2>1, <2>2, <2>3, <2>4
<1>17. CASE \E j \in CPU : ReportCrash(j)
  <2>1. TypeOK'
    BY <1>17 DEF ReportCrash, Goes, CrashReported, Asked, master, SlavesInStep, Waiting
  <2>2. OutputsAreFresh'
    BY <1>17 DEF OutputsAreFresh, SlavesInStep, ReportCrash, Goes, CrashReported,
       Asked, master, Waiting
  <2>3. SlavesInStep'
    BY <1>17 DEF SlavesInStep, ReportCrash, Goes, CrashReported, Asked, master,
       Waiting, Here
  <2>4. RequestsAreFresh'
    BY <1>17 DEF RequestsAreFresh, SlavesInStep, ReportCrash, Goes, CrashReported,
       Asked, master, Waiting
  <2> QED
    BY <2>1, <2>2, <2>3, <2>4
<1>18. CASE \E j \in CPU : Signal(j)
  <2>1. TypeOK'
    BY <1>18 DEF Signal, Goes, DeleteP, master, SlavesInStep, Waiting
  <2>2. OutputsAreFresh'
    BY <1>18 DEF OutputsAreFresh, SlavesInStep, Signal, Goes, DeleteP, master, Waiting
  <2>3. SlavesInStep'
    BY <1>18 DEF SlavesInStep, Signal, Goes, DeleteP, master, Waiting, Here
  <2>4. RequestsAreFresh'
    BY <1>18 DEF RequestsAreFresh, SlavesInStep, Signal, Goes, DeleteP, master, Waiting
  <2> QED
    BY <2>1, <2>2, <2>3, <2>4
<1>19. CASE UNCHANGED vars
  <2>1. TypeOK'
    BY <1>19 DEF vars, shared, master, files, SlavesInStep, Waiting
  <2>2. OutputsAreFresh'
    BY <1>19 DEF OutputsAreFresh, SlavesInStep, vars, shared, master, files, Waiting
  <2>3. SlavesInStep'
    BY <1>19 DEF SlavesInStep, vars, shared, master, files, Waiting, Here
  <2>4. RequestsAreFresh'
    BY <1>19 DEF RequestsAreFresh, SlavesInStep, vars, shared, master, files, Waiting
  <2> QED
    BY <2>1, <2>2, <2>3, <2>4
<1> QED
  BY <1>1, <1>2, <1>3, <1>4, <1>5, <1>6, <1>7, <1>8, <1>9, <1>10, <1>11, <1>12, <1>13,
     <1>14, <1>15, <1>16, <1>17, <1>18, <1>19
     DEF Next, Master, Wait, Slave

\* The invariant holds throughout: however master and slaves interleave their
\* accesses to the shared files, those files are about the current call.
THEOREM Invariance == Spec => []IInv
BY InitIInv, NextIInv, PTL DEF Spec

\* The state of master, slaves and files keeps its types.
THEOREM TypeCorrect == Spec => []TypeOK
<1>1. IInv => TypeOK
  BY DEF IInv
<1> QED
  BY <1>1, Invariance, PTL

\* fParallel deletes its P_ file after it saved the output of this call.
THEOREM SignalSafe == Spec => []OutputBeforeSignal
<1>1. IInv => OutputBeforeSignal
  BY NAssumption DEF IInv, TypeOK, SharedTypeOK, OutputsAreFresh, SlavesInStep,
     Waiting, OutputBeforeSignal, CPU
<1> QED
  BY <1>1, Invariance, PTL

\* slaveParallel_break.mat stands for a job of this call.
THEOREM BreakSafe == Spec => []BreakIsForThisTask
<1>1. IInv => BreakIsForThisTask
  BY DEF IInv, RequestsAreFresh, BreakIsForThisTask
<1> QED
  BY <1>1, Invariance, PTL

-----------------------------------------------------------------------------
(* Strategy 0 implements the promise *)

\* Before the first call nothing has been promised.
LEMMA InitPromise == Init => Promise!Init
BY DEF Init, SharedInit, Promise!Init, NoOutputs, NoAnswer, Promise!NoOutputs,
   Promise!NoAnswer,
       CPU, Promise!CPU, NoOutput, Promise!NoOutput

\* A step of masterParallel or fParallel is a step of the promise, or none: the
\* call starts it, saving an output records an outcome, collecting returns.
LEMMA NextPromise == IInv /\ [Next]_vars => [Promise!Next]_(Promise!vars)
<1> SUFFICES ASSUME IInv, [Next]_vars PROVE [Promise!Next]_(Promise!vars)
  OBVIOUS
<1> USE NAssumption, MaxTasksAssumption, LocalAssumption, OutcomesAssumption
<1> USE DEF CPU, Promise!CPU, NoOutput, Promise!NoOutput, NoOutputs, Promise!NoOutputs,
            Promise!vars
<1>1. CASE \E n \in CPU : StartTask(n) /\ UNCHANGED proc
  BY <1>1 DEF StartTask, Promise!Next, Promise!Call, NoAnswer, Promise!NoAnswer
<1>2. CASE CleanRemnants("prepare") \/ PrepareCpus \/ Launch \/ Wait
  BY <1>2 DEF CleanRemnants, PrepareCpus, Launch, Wait, ScanStatus, ScanEnd,
              FetchNewFiles, NotFinished, WaitForOutput, AllFinished
<1>3. ASSUME pc = "collect"
      PROVE  /\ \A j \in 1..totCPU : done[j] # NoOutput /\ Here(j) = done[j]
             /\ \A j \in CPU : j \notin 1..totCPU => done[j] = NoOutput
  BY <1>3 DEF IInv, TypeOK, SharedTypeOK, SlavesInStep, OutputsAreFresh, Here
<1>4. CASE CollectCrash("idle") /\ UNCHANGED proc
  <2>1. Promise!ReturnCrash
    BY <1>3, <1>4 DEF CollectCrash, Promise!ReturnCrash, IInv, TypeOK, SharedTypeOK
  <2> QED
    BY <1>3, <1>4, <2>1 DEF CollectCrash, Promise!Next, Promise!Return
<1>5. CASE CollectAndRemove
  <2>1. CASE who = 0
    <3>1. \A j \in CPU : done[j].o \notin {"error", "break"}
      BY <1>3, <1>5, <2>1 DEF CollectAndRemove, Collect, IInv, RequestsAreFresh
    <3>2. [j \in CPU |-> IF j \in 1..totCPU THEN Here(j) ELSE NoOutput] = done
      BY <1>3, <1>5 DEF CollectAndRemove, Collect, IInv, TypeOK, SharedTypeOK
    <3>3. Promise!ReturnAll
      BY <1>5, <2>1, <3>1, <3>2 DEF CollectAndRemove, Collect, fOutVar, Unbreak,
         Promise!ReturnAll
    <3> QED
      BY <1>3, <1>5, <3>3 DEF CollectAndRemove, Collect, Promise!Next, Promise!Return
  <2>2. CASE who # 0
    <3>1. who \in 1..totCPU /\ done[who].o = "close"
      BY <1>3, <1>5, <2>2 DEF CollectAndRemove, Collect, IInv, TypeOK, SharedTypeOK,
         RequestsAreFresh
    <3>2. \A j \in CPU : done[j].o # "error"
      BY <1>3, <1>5 DEF CollectAndRemove, Collect
    <3>3. Promise!ReturnOne(who)
      BY <1>3, <1>5, <2>2, <3>1, <3>2 DEF CollectAndRemove, Collect, fOutVar, Unbreak,
         Promise!ReturnOne
    <3>4. who \in CPU
      BY <3>1 DEF IInv, TypeOK, SharedTypeOK
    <3> QED
      BY <1>3, <1>5, <3>3, <3>4 DEF CollectAndRemove, Collect, Promise!Next,
         Promise!Return
  <2> QED
    BY <2>1, <2>2
<1>6. ASSUME NEW j \in CPU, NEW o \in Result, proc[j] = "run", Save(j, task, o), UNCHANGED master,
             o = "break" => \E k \in CPU : done[k].o = "close"
      PROVE  Promise!RunJob(j, o)
  BY <1>6 DEF Save, master, Promise!RunJob, IInv, SlavesInStep, Waiting
<1>7. ASSUME NEW j \in CPU, Break(j)
      PROVE  Promise!RunJob(j, "break")
  <2>1. \E k \in CPU : done[k].o = "close"
    BY <1>7 DEF Break, Goes, JobBreaks, Asked, IInv, TypeOK, SharedTypeOK,
       SlavesInStep, RequestsAreFresh
  <2> QED
    BY <1>6, <1>7, <2>1 DEF Break, Goes, JobBreaks, Result
<1>8. ASSUME NEW j \in CPU, Finish(j)
      PROVE  \E o \in Result : Promise!RunJob(j, o)
  BY <1>6, <1>8 DEF Finish, Goes, JobReturns, Result
<1>9. ASSUME NEW j \in CPU, Crash(j)
      PROVE  Promise!RunJob(j, "error")
  BY <1>6, <1>9 DEF Crash, Goes, JobCrashes, Result
<1>10. CASE \E j \in CPU : Break(j) \/ Finish(j) \/ Crash(j)
  BY <1>7, <1>8, <1>9, <1>10 DEF Promise!Next, Result, Promise!Result
<1>11. CASE \E j \in CPU : Report(j) \/ ReportCrash(j) \/ Signal(j)
  BY <1>11 DEF Report, Goes, JobReports, ReportCrash, Goes, CrashReported, Signal,
     Goes, DeleteP, master
<1>12. CASE UNCHANGED vars
  BY <1>12 DEF vars, shared, master
<1> QED
  BY <1>1, <1>2, <1>4, <1>5, <1>10, <1>11, <1>12 DEF Next, Master, Wait, Slave

\* Every step of master or slaves is a step, or no step, of what masterParallel
\* promises: outcomes are recorded once, and returned with their own call.
THEOREM PromiseKept == Spec => KeepsPromise
BY InitPromise, NextPromise, Invariance, PTL DEF Spec, KeepsPromise, Promise!Spec
=============================================================================

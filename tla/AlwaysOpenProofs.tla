-------------------------- MODULE AlwaysOpenProofs --------------------------
(***************************************************************************)
(* Proofs about AlwaysOpenStrategy, for any number of CPUs, any mixture of *)
(* local and remote ones, any number of calls, any outcome of the jobs and *)
(* any set of slaves that may expire.                                      *)
(***************************************************************************)
EXTENDS AlwaysOpenStrategy, TLAPS

\* The CPUs that the master has prepared for this call.
Prepared ==
    {j \in CPU : \/ pc \in {"post", "pause"} /\ j < cpu
                 \/ pc \in {"launch", "scan", "fetch", "check", "collect"} /\ j <= totCPU}

\* A slave that no job keeps busy, and one that has a job of this call.
Unoccupied == {"off", "loop", "poll", "exiting"}
Occupied == {"run", "crashed", "saved", "broken", "leaving", "hung"}

\* The four stages of a job: there is none yet, it is announced, a slave has
\* taken it, the slave has told that it is finished.
NoJob(j) == ~P[j] /\ slaveJob[j] = 0 /\ done[j] = NoOutput /\ proc[j] \in Unoccupied

Pending(j) == P[j] /\ slaveJob[j] = task /\ done[j] = NoOutput

Taken(j) ==
    /\ P[j] /\ slaveJob[j] = 0 /\ job[j] = task /\ proc[j] \in Occupied
    /\ proc[j] = "run" <=> done[j] = NoOutput
    /\ proc[j] \in {"crashed", "leaving"} => done[j].o = "error"

Over(j) ==
    /\ ~P[j] /\ slaveJob[j] = 0 /\ done[j] # NoOutput
    /\ proc[j] \in Unoccupied \cup {"boot"}

\* A slave that will find its job, or a command that will start one.
Found(j) ==
    \/ proc[j] \in {"boot", "loop", "poll"} /\ ~OnItsWayOut(j)
    \/ /\ proc[j] = "off" /\ j \in commands
       /\ pc \in {"post", "pause", "launch"} \/ ~newInstance

\* A slave that will still be there when the master looks for it.
Stayed(j) == proc[j] \in {"loop", "poll"} /\ ~old[j]

\* Between calls nothing is left of the jobs.
NothingIsLeft ==
    /\ pc \in {"idle", "closing"} =>
          \A j \in CPU : ~P[j] /\ slaveJob[j] = 0 /\ proc[j] \in Unoccupied
    /\ pc = "stopped" =>
          \A j \in CPU : ~P[j] /\ slaveJob[j] = 0 /\ proc[j] \in Unoccupied \cup {"boot"}

\* During a call each CPU is in a stage that fits to where the master is. A local
\* slave may take its job, and even finish it, while the master still sleeps.
JobsInStep ==
    pc \notin {"idle", "closing", "stopped"} =>
        /\ task # 0
        /\ \A j \in CPU :
              IF j \in Prepared
              THEN Taken(j) \/ Over(j) \/ (Pending(j) /\ Found(j))
              ELSE IF pc = "pause" /\ j = cpu /\ j \in Local
              THEN \/ Taken(j)
                   \/ Over(j) /\ (done[j].o = "error" \/ Stayed(j))
                   \/ Pending(j) /\ proc[j] \in Unoccupied
              ELSE NoJob(j)

\* The P_slave file of a slave, and what it was started with.
SlavesAreKnown ==
    /\ \A j \in CPU : proc[j] \notin {"off", "exiting"} /\ pc # "closing" =>
          pslave[j] /\ input[j]
    /\ \A j \in CPU : pslave[j] /\ proc[j] = "off" /\ pc # "stopped" =>
          /\ j \in commands /\ j \in Prepared
          /\ pc \in {"post", "pause", "launch"} \/ ~newInstance
          /\ P[j] \/ done[j].o = "error"
    /\ pc \in {"post", "pause", "launch"} =>
          \A j \in commands : j \in Prepared /\ proc[j] = "off" /\ pslave[j] /\ input[j]
    /\ \A j \in CPU : proc[j] = "boot" =>
          pc \in {"scan", "fetch", "check", "collect", "stopped"} /\ (P[j] \/ done[j].o = "error")
    /\ \A j \in CPU : proc[j] \in {"broken", "hung"} => Waiting
    /\ pc \in {"post", "pause"} => cpu <= totCPU

\* The output files of this call are the outcomes its jobs had.
OutputsAreFresh ==
    pc \notin {"idle", "closing", "stopped", "clean"} =>
        /\ out = done
        /\ \A j \in CPU : outM[j] \in {NoOutput, done[j]}
        /\ pc = "collect" => \A j \in 1..totCPU : Here(j) # NoOutput /\ ~P[j]

\* Requests to break are about this call.
RequestsAreFresh ==
    /\ pc \notin {"idle", "closing", "stopped", "clean"} =>
          \A j \in CPU : status[j] = "close" => done[j].o = "close"
    /\ who # 0 => done[who].o = "close"
    /\ brk => who # 0 /\ pc \in {"scan", "fetch", "check", "collect"}
    /\ \A j \in CPU : done[j].o = "break" => who # 0

IInv == /\ TypeOK /\ NothingIsLeft /\ JobsInStep /\ SlavesAreKnown
        /\ OutputsAreFresh /\ RequestsAreFresh

\* The empty outputs and the empty answer of masterParallel have their types.
LEMMA NoOutputType == NoOutputs \in [CPU -> Output \cup {NoOutput}] /\ NoAnswer \in Answer
BY DEF NoOutputs, NoAnswer, Answer

\* A session starts with no file and no slave.
LEMMA InitIInv == Init => IInv
<1> SUFFICES ASSUME Init PROVE IInv
  OBVIOUS
<1> USE NAssumption, MaxTasksAssumption DEF Init, SharedInit, CPU
<1>1. TypeOK
  <2>1. brk \in BOOLEAN /\ newInstance \in BOOLEAN
    OBVIOUS
  <2>2. /\ task \in 0..MaxTasks /\ totCPU \in CPU
        /\ scan \in 1..(N + 1) /\ who \in 0..N /\ cpu \in CPU
    OBVIOUS
  <2> QED
    BY <2>1, <2>2, NoOutputType DEF TypeOK, SharedTypeOK
<1>2. NothingIsLeft
  BY DEF NothingIsLeft, Unoccupied
<1>3. JobsInStep
  BY DEF JobsInStep
<1>4. SlavesAreKnown
  BY DEF SlavesAreKnown
<1>5. OutputsAreFresh
  BY DEF OutputsAreFresh
<1>6. RequestsAreFresh
  BY DEF RequestsAreFresh, NoOutputs, NoOutput
<1> QED
  BY <1>1, <1>2, <1>3, <1>4, <1>5, <1>6 DEF IInv

\* A job runs only during its call, once, and before it has an outcome.
LEMMA Running ==
  ASSUME IInv, NEW j \in CPU, proc[j] = "run"
  PROVE  /\ pc \notin {"idle", "closing", "stopped", "clean", "collect"}
         /\ job[j] = task /\ task \in 1..MaxTasks /\ j \in 1..totCPU
         /\ P[j] /\ slaveJob[j] = 0 /\ done[j] = NoOutput /\ input[j] /\ pslave[j]
         /\ j \in Prepared \/ (pc = "pause" /\ j = cpu /\ j \in Local)
<1> USE NAssumption, MaxTasksAssumption, LocalAssumption
<1> USE DEF IInv, TypeOK, SharedTypeOK, CPU
<1>1. pc \notin {"idle", "closing", "stopped"}
  BY DEF NothingIsLeft, Unoccupied
<1>2. Taken(j) /\ (j \in Prepared \/ (pc = "pause" /\ j = cpu /\ j \in Local))
  BY <1>1 DEF JobsInStep, NoJob, Over, Pending, Found, Unoccupied
<1>3. input[j] /\ pslave[j]
  BY <1>1 DEF SlavesAreKnown
<1>4. pc # "collect"
  BY <1>2 DEF Taken, OutputsAreFresh, Prepared
<1>5. j \in 1..totCPU /\ pc # "clean"
  BY <1>2 DEF Prepared, SlavesAreKnown
<1> QED
  BY <1>1, <1>2, <1>3, <1>4, <1>5 DEF Taken, JobsInStep

\* The outputs the master collects are the outcomes of the jobs of its call.
LEMMA Collecting ==
  ASSUME IInv, pc = "collect"
  PROVE  /\ \A j \in 1..totCPU : Here(j) = done[j] /\ done[j] # NoOutput
         /\ \A j \in CPU : ~P[j] /\ (j \notin 1..totCPU => done[j] = NoOutput)
<1> USE NAssumption, LocalAssumption
<1> USE DEF IInv, TypeOK, SharedTypeOK, CPU
<1>1. \A j \in 1..totCPU : j \in CPU /\ Here(j) = done[j] /\ Here(j) # NoOutput /\ ~P[j]
  BY DEF OutputsAreFresh, Here
<1>2. \A j \in CPU : j \notin 1..totCPU => ~P[j] /\ done[j] = NoOutput
  BY DEF JobsInStep, Prepared, NoJob
<1> QED
  BY <1>1, <1>2

\* The steps of the master outside of its wait loop preserve the invariant.
LEMMA MasterStep ==
  ASSUME IInv,
         \/ \E n \in CPU : StartTask(n) /\ UNCHANGED own
         \/ CloseSlave
         \/ OpenCommands
         \/ PostJob
         \/ CheckAlive
         \/ Launch
         \/ CollectAndDelete
         \/ CloseSlaveEnd
         \/ CollectCrash("stopped") /\ UNCHANGED own
  PROVE  IInv'
<1> USE NAssumption, MaxTasksAssumption, LocalAssumption, OutcomesAssumption, NoOutputType
<1> USE DEF IInv, TypeOK, SharedTypeOK, CPU, NoOutput
<1>1. CASE \E n \in CPU : StartTask(n) /\ UNCHANGED own
  <2>1. TypeOK'
    BY <1>1 DEF StartTask, files, own
  <2>2. NothingIsLeft'
    BY <1>1 DEF StartTask, NothingIsLeft
  <2>3. JobsInStep'
    BY <1>1 DEF StartTask, files, own, JobsInStep, Prepared, NoJob, NothingIsLeft,
       NoOutputs
  <2>4. SlavesAreKnown'
    BY <1>1 DEF StartTask, files, own, SlavesAreKnown, Prepared, Waiting
  <2>5. OutputsAreFresh'
    BY <1>1 DEF StartTask, OutputsAreFresh
  <2>6. RequestsAreFresh'
    BY <1>1 DEF StartTask, files, RequestsAreFresh, NoOutputs
  <2> QED
    BY <2>1, <2>2, <2>3, <2>4, <2>5, <2>6
<1>2. CASE CloseSlave
  <2>1. TypeOK'
    <3>1. brk' \in BOOLEAN /\ newInstance' \in BOOLEAN
      BY <1>2 DEF CloseSlave
    <3>2. pslave' \in [CPU -> BOOLEAN] /\ input' \in [CPU -> BOOLEAN]
      BY <1>2 DEF CloseSlave
    <3>3. stayalive' \in [CPU -> BOOLEAN]
      BY <1>2 DEF CloseSlave
    <3>4. out' \in [CPU -> Output \cup {NoOutput}] /\ slaveJob' \in [CPU -> 0..MaxTasks]
      BY <1>2 DEF CloseSlave
    <3>5. /\ pc' = "closing"
          /\ UNCHANGED <<task, totCPU, scan, who, ret, snap, P, outM, status, done, cpu, commands,
                         proc, job, old>>
      BY <1>2 DEF CloseSlave
    <3> QED
      BY <3>1, <3>2, <3>3, <3>4, <3>5
  <2>2. NothingIsLeft'
    BY <1>2 DEF CloseSlave, NothingIsLeft
  <2>3. JobsInStep'
    BY <1>2 DEF CloseSlave, JobsInStep
  <2>4. SlavesAreKnown'
    BY <1>2 DEF CloseSlave, SlavesAreKnown, Prepared, Waiting
  <2>5. OutputsAreFresh'
    BY <1>2 DEF CloseSlave, OutputsAreFresh
  <2>6. RequestsAreFresh'
    BY <1>2 DEF CloseSlave, RequestsAreFresh
  <2> QED
    BY <2>1, <2>2, <2>3, <2>4, <2>5, <2>6
<1>3. CASE OpenCommands
  <2>1. TypeOK'
    <3>1. brk' \in BOOLEAN /\ newInstance' \in BOOLEAN
      BY <1>3 DEF OpenCommands, CleanRemnants
    <3>2. P' \in [CPU -> BOOLEAN]
      BY <1>3 DEF OpenCommands, CleanRemnants
    <3>3. /\ out' = NoOutputs /\ outM' = NoOutputs
          /\ status' \in [CPU -> {"none", "progress", "close"}]
      BY <1>3 DEF OpenCommands, CleanRemnants
    <3>4. /\ pc' = "post" /\ cpu' = 1 /\ commands' = {}
          /\ UNCHANGED <<task, totCPU, scan, who, ret, snap, input, done, pslave, slaveJob,
                         stayalive, proc, job, old>>
      BY <1>3 DEF OpenCommands, CleanRemnants
    <3> QED
      BY <3>1, <3>2, <3>3, <3>4
  <2>2. NothingIsLeft'
    BY <1>3 DEF OpenCommands, CleanRemnants, NothingIsLeft
  <2>3. JobsInStep'
    BY <1>3 DEF OpenCommands, CleanRemnants, JobsInStep, Prepared, NoJob
  <2>4. SlavesAreKnown'
    BY <1>3 DEF OpenCommands, CleanRemnants, SlavesAreKnown, Prepared, Waiting
  <2>5. OutputsAreFresh'
    BY <1>3 DEF OpenCommands, CleanRemnants, OutputsAreFresh, NoOutputs, JobsInStep,
       Prepared, NoJob
  <2>6. RequestsAreFresh'
    BY <1>3 DEF OpenCommands, CleanRemnants, RequestsAreFresh
  <2> QED
    BY <2>1, <2>2, <2>3, <2>4, <2>5, <2>6
<1>4. CASE PostJob
  <2>1. TypeOK'
    <3>1. brk' \in BOOLEAN /\ newInstance' \in BOOLEAN
      BY <1>4 DEF PostJob, Remote
    <3> QED
      BY <1>4, <3>1, ZenonT(30) DEF PostJob, Remote
  <2>2. NothingIsLeft'
    BY <1>4 DEF PostJob, NothingIsLeft
  <2>3. JobsInStep'
    BY <1>4, SMTT(30) DEF PostJob, JobsInStep, Prepared, NoJob, Pending, Taken, Over, Found,
       OnItsWayOut, Stays
  <2>4. SlavesAreKnown'
    BY <1>4 DEF PostJob, SlavesAreKnown, Prepared, Waiting
  <2>5. OutputsAreFresh'
    BY <1>4 DEF PostJob, OutputsAreFresh
  <2>6. RequestsAreFresh'
    BY <1>4 DEF PostJob, RequestsAreFresh
  <2> QED
    BY <2>1, <2>2, <2>3, <2>4, <2>5, <2>6
<1>5. CASE CheckAlive
  <2>1. TypeOK'
    <3>1. newInstance' \in BOOLEAN /\ pslave' \in [CPU -> BOOLEAN] /\ brk' \in BOOLEAN
      BY <1>5 DEF CheckAlive
    <3>2. input' \in [CPU -> BOOLEAN] /\ commands' \subseteq CPU
      BY <1>5, ZenonT(30) DEF CheckAlive
    <3>3. P' \in [CPU -> BOOLEAN] /\ slaveJob' \in [CPU -> 0..MaxTasks]
      BY <1>5, ZenonT(30) DEF CheckAlive
    <3>4. pc' \in {"post", "launch"} /\ cpu' \in CPU
      BY <1>5 DEF CheckAlive
    <3> QED
      BY <1>5, <3>1, <3>2, <3>3, <3>4 DEF CheckAlive
  <2>2. NothingIsLeft'
    BY <1>5 DEF CheckAlive, NothingIsLeft
  <2>3. JobsInStep'
    <3> SUFFICES ASSUME NEW j \in CPU
                 PROVE  IF j \in Prepared'
                        THEN Taken(j)' \/ Over(j)' \/ (Pending(j)' /\ Found(j)')
                        ELSE NoJob(j)'
      BY <1>5 DEF CheckAlive, JobsInStep
    <3>1. /\ pc = "pause" /\ cpu <= totCPU /\ ~OnItsWayOut(cpu)
          /\ UNCHANGED <<task, totCPU, done, proc, job, old, stayalive>>
          /\ pc' = IF cpu < totCPU THEN "post" ELSE "launch"
          /\ cpu' = IF cpu < totCPU THEN cpu + 1 ELSE cpu
      BY <1>5 DEF CheckAlive, SlavesAreKnown
    <3>2. j \in Prepared' <=> j <= cpu
      BY <3>1 DEF Prepared
    <3>3. j \in Prepared <=> j < cpu
      BY <3>1 DEF Prepared
    <3>4. CASE j # cpu
      <4>1. /\ P'[j] = P[j] /\ slaveJob'[j] = slaveJob[j] /\ input'[j] = input[j]
            /\ j \in commands => j \in commands'
        BY <1>5, <3>4 DEF CheckAlive
      <4>2. Found(j) => Found(j)'
        BY <3>1, <4>1 DEF Found, OnItsWayOut, Stays
      <4>3. IF j \in Prepared
            THEN Taken(j) \/ Over(j) \/ (Pending(j) /\ Found(j))
            ELSE NoJob(j)
        BY <3>1, <3>4 DEF JobsInStep
      <4>4. CASE j \in Prepared
        BY <3>1, <3>2, <3>3, <4>1, <4>2, <4>3, <4>4 DEF Taken, Over, Pending
      <4>5. CASE j \notin Prepared
        BY <3>1, <3>2, <3>3, <3>4, <4>1, <4>3, <4>5 DEF NoJob
      <4> QED
        BY <4>4, <4>5
    <3>5. CASE j = cpu
      <4>1. j \in Prepared' /\ j \notin Prepared
        BY <3>2, <3>3, <3>5
      <4>2. proc[j] # "exiting" /\ (proc[j] = "loop" => Stays(j))
        BY <3>1, <3>5 DEF OnItsWayOut
      <4>3. /\ ~pslave[j] => proc[j] = "off" /\ j \in commands'
            /\ pslave[j] => proc[j] # "off"
            /\ input[j] => input'[j]
        BY <1>5, <3>1, <3>5, <4>1, <4>2 DEF CheckAlive, SlavesAreKnown
      <4>4. Stays(j) => Stays(j)'
        BY <3>1, <4>3 DEF Stays
      <4>5. proc[j] \in {"off", "loop", "poll"} => Found(j)'
        BY <3>1, <4>2, <4>3, <4>4 DEF Found, OnItsWayOut
      <4>6. CASE j \in Local
        <5>1. P'[j] = P[j] /\ slaveJob'[j] = slaveJob[j]
          BY <1>5, <3>5, <4>6 DEF CheckAlive, Remote
        <5>2. Taken(j) \/ Over(j) \/ (Pending(j) /\ proc[j] \in Unoccupied)
          BY <3>1, <3>5, <4>1, <4>6 DEF JobsInStep
        <5> QED
          BY <3>1, <4>1, <4>2, <4>5, <5>1, <5>2 DEF Taken, Over, Pending, Unoccupied
      <4>7. CASE j \notin Local
        <5>1. P'[j] /\ slaveJob'[j] = task
          BY <1>5, <3>5, <4>7 DEF CheckAlive, Remote
        <5>2. NoJob(j)
          BY <3>1, <3>5, <4>1, <4>7 DEF JobsInStep
        <5> QED
          BY <3>1, <4>1, <4>2, <4>5, <5>1, <5>2 DEF NoJob, Pending, Unoccupied
      <4> QED
        BY <4>6, <4>7
    <3> QED
      BY <3>4, <3>5
  <2>4. SlavesAreKnown'
    <3>1. /\ pc = "pause" /\ cpu <= totCPU /\ ~OnItsWayOut(cpu)
          /\ UNCHANGED <<task, totCPU, done, proc, job, old, stayalive>>
          /\ pc' = IF cpu < totCPU THEN "post" ELSE "launch"
          /\ cpu' = IF cpu < totCPU THEN cpu + 1 ELSE cpu
          /\ pslave' = [pslave EXCEPT ![cpu] = TRUE]
      BY <1>5 DEF CheckAlive, SlavesAreKnown
    <3>2. \A j \in CPU : j \in Prepared' <=> j <= cpu
      BY <3>1 DEF Prepared
    <3>3. \A j \in CPU : j \in Prepared <=> j < cpu
      BY <3>1 DEF Prepared
    <3>4. /\ pslave[cpu] =>
               proc[cpu] \notin {"off", "exiting"} /\ input' = input /\ commands' = commands
          /\ ~pslave[cpu] => /\ proc[cpu] = "off" /\ commands' = commands \cup {cpu}
                             /\ input' = [input EXCEPT ![cpu] = TRUE]
      BY <1>5, <3>1, <3>3 DEF CheckAlive, SlavesAreKnown, OnItsWayOut
    <3>5. \A j \in CPU : proc[j] \notin {"off", "exiting"} => pslave'[j] /\ input'[j]
      BY <3>1, <3>4, SMTT(30) DEF SlavesAreKnown
    <3>6. \A j \in CPU : pslave'[j] /\ proc[j] = "off" =>
             j \in commands' /\ j \in Prepared' /\ (P'[j] \/ done[j].o = "error")
      <4> SUFFICES ASSUME NEW j \in CPU, pslave'[j], proc[j] = "off"
                   PROVE  j \in commands' /\ j \in Prepared' /\ (P'[j] \/ done[j].o = "error")
        OBVIOUS
      <4>1. CASE pslave[j]
        <5>1. j # cpu /\ j \in commands /\ j \in Prepared /\ (P[j] \/ done[j].o = "error")
          BY <3>1, <3>3, <4>1 DEF SlavesAreKnown
        <5>2. P'[j] = P[j]
          BY <1>5, <5>1 DEF CheckAlive
        <5> QED
          BY <3>2, <3>3, <3>4, <5>1, <5>2
      <4>2. CASE ~pslave[j]
        <5>1. j = cpu /\ j \notin Prepared /\ j \in commands' /\ j \in Prepared'
          BY <3>1, <3>2, <3>3, <3>4, <4>2
        <5>2. CASE j \in Local
          <6>1. P'[j] = P[j]
            BY <1>5, <5>1, <5>2 DEF CheckAlive, Remote
          <6>2. P[j] \/ done[j].o = "error"
            BY <3>1, <5>1, <5>2 DEF JobsInStep, Taken, Over, Pending, Stayed
          <6> QED
            BY <5>1, <6>1, <6>2
        <5>3. CASE j \notin Local
          BY <1>5, <5>1, <5>3 DEF CheckAlive, Remote
        <5> QED
          BY <5>2, <5>3
      <4> QED
        BY <4>1, <4>2
    <3>7. \A j \in commands' : j \in Prepared' /\ proc[j] = "off" /\ pslave'[j] /\ input'[j]
      <4> SUFFICES ASSUME NEW j \in commands'
                   PROVE  j \in Prepared' /\ proc[j] = "off" /\ pslave'[j] /\ input'[j]
        OBVIOUS
      <4>1. CASE j \in commands
        <5>1. j \in Prepared /\ proc[j] = "off" /\ pslave[j] /\ input[j]
          BY <3>1, <4>1 DEF SlavesAreKnown
        <5>2. j \in Prepared' /\ pslave'[j] /\ (j # cpu => input'[j])
          BY <3>1, <3>2, <3>3, <3>4, <4>1, <5>1
        <5> QED
          BY <3>3, <3>4, <5>1, <5>2
      <4>2. CASE j \notin commands
        BY <3>1, <3>2, <3>4, <4>2
      <4> QED
        BY <4>1, <4>2
    <3>8. /\ \A j \in CPU : proc[j] \notin {"boot", "broken", "hung"}
          /\ pc' = "post" => cpu' <= totCPU'
      BY <3>1 DEF SlavesAreKnown, Waiting
    <3> QED
      BY <3>1, <3>5, <3>6, <3>7, <3>8 DEF SlavesAreKnown
  <2>5. OutputsAreFresh'
    BY <1>5 DEF CheckAlive, OutputsAreFresh
  <2>6. RequestsAreFresh'
    BY <1>5 DEF CheckAlive, RequestsAreFresh
  <2> QED
    BY <2>1, <2>2, <2>3, <2>4, <2>5, <2>6
<1>6. CASE Launch
  <2>1. TypeOK'
    <3>1. brk' \in BOOLEAN /\ newInstance' \in BOOLEAN
      BY <1>6 DEF Launch, RunCommands, files
    <3>2. snap' \subseteq CPU
      BY <1>6 DEF Launch, RunCommands
    <3>3. proc' \in [CPU -> {"off", "boot", "loop", "poll", "run", "crashed", "saved",
                           "broken", "leaving", "exiting", "hung"}]
      BY <1>6 DEF Launch, RunCommands
    <3> QED
      BY <1>6, <3>1, <3>2, <3>3 DEF Launch, files
  <2>2. NothingIsLeft'
    BY <1>6 DEF Launch, RunCommands, NothingIsLeft
  <2>3. JobsInStep'
    <3>1. /\ pc = "launch" /\ pc' = "scan" /\ task # 0
          /\ UNCHANGED <<task, totCPU, P, input, done, newInstance, commands, slaveJob,
                         stayalive, job, old>>
      BY <1>6 DEF Launch, files, JobsInStep
    <3>2. \A j \in CPU : j \in Prepared' <=> j \in Prepared
      BY <3>1 DEF Prepared
    <3>3. \A j \in CPU : proc'[j] = IF newInstance /\ j \in commands THEN "boot" ELSE proc[j]
      BY <1>6 DEF Launch, RunCommands
    <3>4. \A j \in commands : j \in Prepared /\ proc[j] = "off"
      BY <3>1 DEF SlavesAreKnown
    <3> SUFFICES ASSUME NEW j \in CPU
                 PROVE  IF j \in Prepared
                        THEN Taken(j)' \/ Over(j)' \/ (Pending(j)' /\ Found(j)')
                        ELSE NoJob(j)'
      BY <3>1, <3>2 DEF JobsInStep
    <3>5. IF j \in Prepared
          THEN Taken(j) \/ Over(j) \/ (Pending(j) /\ Found(j))
          ELSE NoJob(j)
      BY <3>1 DEF JobsInStep
    <3>6. CASE newInstance /\ j \in commands
      BY <3>1, <3>3, <3>4, <3>5, <3>6 DEF Over, Pending, Taken, Found, OnItsWayOut,
         Occupied
    <3>7. CASE ~(newInstance /\ j \in commands)
      BY <3>1, <3>3, <3>5, <3>7 DEF NoJob, Over, Pending, Taken, Found, OnItsWayOut,
         Stays
    <3> QED
      BY <3>6, <3>7
  <2>4. SlavesAreKnown'
    <3>1. /\ pc = "launch" /\ pc' = "scan"
          /\ UNCHANGED <<totCPU, P, input, done, cpu, newInstance, commands, pslave>>
      BY <1>6 DEF Launch, files
    <3>2. \A j \in CPU : j \in Prepared' <=> j \in Prepared
      BY <3>1 DEF Prepared
    <3>3. \A j \in CPU : proc'[j] = IF newInstance /\ j \in commands THEN "boot" ELSE proc[j]
      BY <1>6 DEF Launch, RunCommands
    <3>4. \A j \in commands : /\ j \in Prepared /\ proc[j] = "off" /\ pslave[j] /\ input[j]
                              /\ P[j] \/ done[j].o = "error"
      <4> SUFFICES ASSUME NEW j \in commands
                   PROVE  /\ j \in Prepared /\ proc[j] = "off" /\ pslave[j] /\ input[j]
                          /\ P[j] \/ done[j].o = "error"
        OBVIOUS
      <4>1. j \in Prepared /\ proc[j] = "off" /\ pslave[j] /\ input[j]
        BY <3>1 DEF SlavesAreKnown
      <4>2. P[j] \/ done[j].o = "error"
        BY <3>1, <4>1 DEF SlavesAreKnown
      <4> QED
        BY <4>1, <4>2
    <3>5. \A j \in CPU : proc[j] \notin {"boot", "broken", "hung"}
      BY <3>1 DEF SlavesAreKnown, Waiting
    <3>6. \A j \in CPU : proc'[j] \notin {"off", "exiting"} => pslave[j] /\ input[j]
      BY <3>1, <3>3, <3>4 DEF SlavesAreKnown
    <3>7. \A j \in CPU : pslave[j] /\ proc'[j] = "off" =>
             j \in commands /\ j \in Prepared /\ ~newInstance /\ (P[j] \/ done[j].o = "error")
      BY <3>1, <3>3, <3>4 DEF SlavesAreKnown
    <3>8. \A j \in CPU : /\ proc'[j] = "boot" => P[j] \/ done[j].o = "error"
                         /\ proc'[j] \notin {"broken", "hung"}
      BY <3>3, <3>4, <3>5
    <3> QED
      BY <3>1, <3>2, <3>6, <3>7, <3>8 DEF SlavesAreKnown
  <2>5. OutputsAreFresh'
    BY <1>6 DEF Launch, RunCommands, files, OutputsAreFresh
  <2>6. RequestsAreFresh'
    BY <1>6 DEF Launch, RunCommands, files, RequestsAreFresh
  <2> QED
    BY <2>1, <2>2, <2>3, <2>4, <2>5, <2>6
<1>7. CASE CollectAndDelete
  <2>1. TypeOK'
    BY <1>7 DEF CollectAndDelete, Collect, fOutVar, Here, Unbreak, own, JobsInStep,
       Answer
  <2>2. NothingIsLeft'
    <3>1. \A j \in CPU : ~P[j] /\ done[j].o # "error"
      <4>1. pc = "collect" /\ \A j \in 1..totCPU : Here(j).o # "error"
        BY <1>7 DEF CollectAndDelete, Collect
      <4>2. \A j \in CPU : ~P[j] /\ (j \notin 1..totCPU => done[j] = NoOutput)
        BY <4>1, Collecting
      <4>3. \A j \in 1..totCPU : done[j].o # "error"
        BY <4>1, Collecting, ZenonT(30)
      <4> QED
        BY <4>2, <4>3
    <3>2. \A j \in CPU : proc[j] # "boot"
      BY <3>1 DEF SlavesAreKnown
    <3>3. \A j \in CPU : Over(j) \/ NoJob(j)
      BY <1>7, <3>1 DEF CollectAndDelete, Collect, JobsInStep, Taken, Pending
    <3> QED
      BY <1>7, <3>1, <3>2, <3>3 DEF CollectAndDelete, Collect, own, NothingIsLeft,
         Over, NoJob
  <2>3. JobsInStep'
    BY <1>7 DEF CollectAndDelete, Collect, fOutVar, Unbreak, JobsInStep
  <2>4. SlavesAreKnown'
    <3>1. \A j \in CPU : ~P[j] /\ done[j].o # "error"
      <4>1. pc = "collect" /\ \A j \in 1..totCPU : Here(j).o # "error"
        BY <1>7 DEF CollectAndDelete, Collect
      <4>2. \A j \in CPU : ~P[j] /\ (j \notin 1..totCPU => done[j] = NoOutput)
        BY <4>1, Collecting
      <4>3. \A j \in 1..totCPU : done[j].o # "error"
        BY <4>1, Collecting, ZenonT(30)
      <4> QED
        BY <4>2, <4>3
    <3>2. \A j \in CPU : ~(pslave[j] /\ proc[j] = "off") /\ proc[j] # "boot"
      BY <1>7, <3>1 DEF CollectAndDelete, Collect, SlavesAreKnown
    <3>3. \A j \in CPU : proc[j] \notin {"broken", "hung"}
      BY <1>7 DEF CollectAndDelete, Collect, SlavesAreKnown, Waiting
    <3> QED
      BY <1>7, <3>2, <3>3 DEF CollectAndDelete, Collect, own, SlavesAreKnown
  <2>5. OutputsAreFresh'
    BY <1>7 DEF CollectAndDelete, Collect, fOutVar, Unbreak, OutputsAreFresh
  <2>6. RequestsAreFresh'
    BY <1>7 DEF CollectAndDelete, Collect, fOutVar, Unbreak, RequestsAreFresh
  <2> QED
    BY <2>1, <2>2, <2>3, <2>4, <2>5, <2>6
<1>8. CASE CloseSlaveEnd
  <2>1. TypeOK'
    BY <1>8 DEF CloseSlaveEnd, files, own
  <2>2. NothingIsLeft'
    BY <1>8 DEF CloseSlaveEnd, files, own, NothingIsLeft
  <2>3. JobsInStep'
    BY <1>8 DEF CloseSlaveEnd, JobsInStep
  <2>4. SlavesAreKnown'
    BY <1>8 DEF CloseSlaveEnd, own, SlavesAreKnown, NothingIsLeft, Prepared, Unoccupied
  <2>5. OutputsAreFresh'
    BY <1>8 DEF CloseSlaveEnd, OutputsAreFresh
  <2>6. RequestsAreFresh'
    BY <1>8 DEF CloseSlaveEnd, files, RequestsAreFresh
  <2> QED
    BY <2>1, <2>2, <2>3, <2>4, <2>5, <2>6
<1>9. CASE CollectCrash("stopped") /\ UNCHANGED own
  <2>1. TypeOK'
    BY <1>9 DEF CollectCrash, Unbreak, own, Answer
  <2>2. NothingIsLeft'
    BY <1>9 DEF CollectCrash, Unbreak, own, NothingIsLeft, JobsInStep, Prepared,
       NoJob, Pending, Taken, Over, OutputsAreFresh
  <2>3. JobsInStep'
    BY <1>9 DEF CollectCrash, Unbreak, JobsInStep
  <2>4. SlavesAreKnown'
    BY <1>9 DEF CollectCrash, Unbreak, own, SlavesAreKnown, Waiting
  <2>5. OutputsAreFresh'
    BY <1>9 DEF CollectCrash, Unbreak, OutputsAreFresh
  <2>6. RequestsAreFresh'
    BY <1>9 DEF CollectCrash, Unbreak, RequestsAreFresh
  <2> QED
    BY <2>1, <2>2, <2>3, <2>4, <2>5, <2>6
<1> QED
  BY <1>1, <1>2, <1>3, <1>4, <1>5, <1>6, <1>7, <1>8, <1>9

\* The steps of the wait loop preserve the invariant.
LEMMA WaitStep == ASSUME IInv, Wait, UNCHANGED own PROVE IInv'
<1> USE NAssumption, MaxTasksAssumption, LocalAssumption, OutcomesAssumption, NoOutputType
<1> USE DEF IInv, TypeOK, SharedTypeOK, CPU, NoOutput
<1>1. CASE ScanStatus /\ UNCHANGED own
  <2>1. TypeOK'
    <3>1. brk' \in BOOLEAN /\ newInstance' \in BOOLEAN
      BY <1>1 DEF ScanStatus, own
    <3>2. scan' \in 1..(N + 1) /\ who' \in 0..N
      BY <1>1 DEF ScanStatus
    <3> QED
      BY <1>1, <3>1, <3>2 DEF ScanStatus, own
  <2>2. NothingIsLeft'
    BY <1>1 DEF ScanStatus, NothingIsLeft
  <2>3. JobsInStep'
    BY <1>1 DEF ScanStatus, own, JobsInStep, Prepared, NoJob, Pending, Taken, Over,
       Found, OnItsWayOut, Stays
  <2>4. SlavesAreKnown'
    BY <1>1 DEF ScanStatus, own, SlavesAreKnown, Prepared, Waiting
  <2>5. OutputsAreFresh'
    BY <1>1 DEF ScanStatus, OutputsAreFresh
  <2>6. RequestsAreFresh'
    BY <1>1 DEF ScanStatus, RequestsAreFresh
  <2> QED
    BY <2>1, <2>2, <2>3, <2>4, <2>5, <2>6
<1>2. CASE ScanEnd /\ UNCHANGED own
  <2>1. TypeOK'
    BY <1>2 DEF ScanEnd, files, own
  <2>2. NothingIsLeft'
    BY <1>2 DEF ScanEnd, NothingIsLeft
  <2>3. JobsInStep'
    BY <1>2 DEF ScanEnd, files, own, JobsInStep, Prepared, NoJob, Pending, Taken,
       Over, Found, OnItsWayOut, Stays
  <2>4. SlavesAreKnown'
    BY <1>2 DEF ScanEnd, files, own, SlavesAreKnown, Prepared, Waiting
  <2>5. OutputsAreFresh'
    BY <1>2 DEF ScanEnd, files, OutputsAreFresh
  <2>6. RequestsAreFresh'
    BY <1>2 DEF ScanEnd, files, RequestsAreFresh
  <2> QED
    BY <2>1, <2>2, <2>3, <2>4, <2>5, <2>6
<1>3. CASE FetchNewFiles /\ UNCHANGED own
  <2>1. TypeOK'
    BY <1>3 DEF FetchNewFiles, own
  <2>2. NothingIsLeft'
    BY <1>3 DEF FetchNewFiles, NothingIsLeft
  <2>3. JobsInStep'
    BY <1>3 DEF FetchNewFiles, own, JobsInStep, Prepared, NoJob, Pending, Taken, Over,
       Found, OnItsWayOut, Stays
  <2>4. SlavesAreKnown'
    BY <1>3 DEF FetchNewFiles, own, SlavesAreKnown, Prepared, Waiting
  <2>5. OutputsAreFresh'
    BY <1>3 DEF FetchNewFiles, OutputsAreFresh
  <2>6. RequestsAreFresh'
    BY <1>3 DEF FetchNewFiles, RequestsAreFresh
  <2> QED
    BY <2>1, <2>2, <2>3, <2>4, <2>5, <2>6
<1>4. CASE NotFinished /\ UNCHANGED own
  <2>1. TypeOK'
    <3>1. brk' \in BOOLEAN /\ newInstance' \in BOOLEAN
      BY <1>4 DEF NotFinished, files, own
    <3> QED
      BY <1>4, <3>1, SMTT(30) DEF NotFinished, files, own
  <2>2. NothingIsLeft'
    BY <1>4 DEF NotFinished, NothingIsLeft
  <2>3. JobsInStep'
    BY <1>4 DEF NotFinished, files, own, JobsInStep, Prepared, NoJob, Pending, Taken,
       Over, Found, OnItsWayOut, Stays
  <2>4. SlavesAreKnown'
    BY <1>4 DEF NotFinished, files, own, SlavesAreKnown, Prepared, Waiting
  <2>5. OutputsAreFresh'
    BY <1>4 DEF NotFinished, files, OutputsAreFresh
  <2>6. RequestsAreFresh'
    BY <1>4 DEF NotFinished, files, RequestsAreFresh
  <2> QED
    BY <2>1, <2>2, <2>3, <2>4, <2>5, <2>6
<1>5. CASE WaitForOutput /\ UNCHANGED own
  <2>1. TypeOK'
    BY <1>5 DEF WaitForOutput, own
  <2>2. NothingIsLeft'
    BY <1>5 DEF WaitForOutput, NothingIsLeft
  <2>3. JobsInStep'
    BY <1>5 DEF WaitForOutput, own, JobsInStep, Prepared, NoJob, Pending, Taken, Over
  <2>4. SlavesAreKnown'
    BY <1>5 DEF WaitForOutput, own, SlavesAreKnown, Prepared, Waiting
  <2>5. OutputsAreFresh'
    BY <1>5 DEF WaitForOutput, OutputsAreFresh
  <2>6. RequestsAreFresh'
    BY <1>5 DEF WaitForOutput, RequestsAreFresh
  <2> QED
    BY <2>1, <2>2, <2>3, <2>4, <2>5, <2>6
<1>6. CASE AllFinished /\ UNCHANGED own
  <2>1. TypeOK'
    <3>1. brk' \in BOOLEAN /\ newInstance' \in BOOLEAN
      BY <1>6 DEF AllFinished, Here, own
    <3> QED
      BY <1>6, <3>1 DEF AllFinished, Here, own
  <2>2. NothingIsLeft'
    BY <1>6 DEF AllFinished, NothingIsLeft
  <2>3. JobsInStep'
    BY <1>6 DEF AllFinished, own, JobsInStep, Prepared, NoJob, Pending, Taken, Over
  <2>4. SlavesAreKnown'
    <3>1. \A j \in CPU : proc[j] \notin {"broken", "hung"}
      BY <1>6 DEF AllFinished, SlavesAreKnown, Waiting, JobsInStep, NoJob, Taken,
         Over, Pending,
               Found, Unoccupied
    <3> QED
      BY <1>6, <3>1 DEF AllFinished, own, SlavesAreKnown, Prepared, Waiting
  <2>5. OutputsAreFresh'
    BY <1>6 DEF AllFinished, Here, OutputsAreFresh
  <2>6. RequestsAreFresh'
    BY <1>6 DEF AllFinished, RequestsAreFresh
  <2> QED
    BY <2>1, <2>2, <2>3, <2>4, <2>5, <2>6
<1> QED
  BY <1>1, <1>2, <1>3, <1>4, <1>5, <1>6 DEF Wait

\* The steps of a slave preserve the invariant.
LEMMA SlaveStep == ASSUME IInv, NEW j \in CPU, Slave(j) PROVE IInv'
<1> USE NAssumption, MaxTasksAssumption, LocalAssumption, OutcomesAssumption, NoOutputType
<1> USE DEF IInv, TypeOK, SharedTypeOK, CPU, NoOutput
<1>1. CASE Boot(j)
  <2>1. TypeOK'
    BY <1>1 DEF Boot, Goes, shared, master, files
  <2>2. NothingIsLeft'
    BY <1>1 DEF Boot, Goes, shared, master, files, NothingIsLeft, Unoccupied
  <2>3. JobsInStep'
    BY <1>1, SMTT(30) DEF Boot, Goes, shared, master, files, JobsInStep, Prepared, Unoccupied,
       Occupied, NoJob, Pending, Taken, Over, Found, Stayed, OnItsWayOut, Stays
  <2>4. SlavesAreKnown'
    BY <1>1, ZenonT(30) DEF Boot, Goes, shared, master, files, SlavesAreKnown, Prepared, Waiting
  <2>5. OutputsAreFresh'
    BY <1>1 DEF Boot, shared, master, files, OutputsAreFresh, Here
  <2>6. RequestsAreFresh'
    BY <1>1 DEF Boot, shared, master, files, RequestsAreFresh
  <2> QED
    BY <2>1, <2>2, <2>3, <2>4, <2>5, <2>6
<1>2. CASE KeepOn(j)
  <2>1. TypeOK'
    BY <1>2 DEF KeepOn, Goes, shared, master, files
  <2>2. NothingIsLeft'
    BY <1>2 DEF KeepOn, Goes, shared, master, files, NothingIsLeft, Unoccupied
  <2>3. JobsInStep'
    BY <1>2, SMTT(30) DEF KeepOn, Goes, shared, master, files, JobsInStep, Prepared, Unoccupied,
       Occupied, NoJob, Pending, Taken, Over, Found, Stayed, OnItsWayOut, Stays
  <2>4. SlavesAreKnown'
    <3>1. /\ proc[j] = "loop" /\ proc' = [proc EXCEPT ![j] = "poll"]
          /\ UNCHANGED <<pc, totCPU, P, input, done, cpu, newInstance, commands, pslave>>
      BY <1>2 DEF KeepOn, Goes, shared, master, files
    <3> QED
      BY <3>1 DEF SlavesAreKnown, Prepared, Waiting
  <2>5. OutputsAreFresh'
    BY <1>2 DEF KeepOn, shared, master, files, OutputsAreFresh, Here
  <2>6. RequestsAreFresh'
    BY <1>2 DEF KeepOn, shared, master, files, RequestsAreFresh
  <2> QED
    BY <2>1, <2>2, <2>3, <2>4, <2>5, <2>6
<1>3. CASE Leave(j)
  <2>1. TypeOK'
    BY <1>3 DEF Leave, Goes, shared, master, files
  <2>2. NothingIsLeft'
    BY <1>3 DEF Leave, Goes, shared, master, files, NothingIsLeft, Unoccupied
  <2>3. JobsInStep'
    BY <1>3 DEF Leave, Goes, shared, master, files, JobsInStep, Prepared, Unoccupied,
       Occupied, NoJob, Pending, Taken, Over, Found, Stayed, OnItsWayOut, Stays,
       SlavesAreKnown
  <2>4. SlavesAreKnown'
    BY <1>3 DEF Leave, Goes, shared, master, files, SlavesAreKnown, Prepared, Waiting
  <2>5. OutputsAreFresh'
    BY <1>3 DEF Leave, shared, master, files, OutputsAreFresh, Here
  <2>6. RequestsAreFresh'
    BY <1>3 DEF Leave, shared, master, files, RequestsAreFresh
  <2> QED
    BY <2>1, <2>2, <2>3, <2>4, <2>5, <2>6
<1>4. CASE PollEmpty(j)
  <2>1. TypeOK'
    <3>1. brk' \in BOOLEAN /\ newInstance' \in BOOLEAN
      BY <1>4 DEF PollEmpty, MayExpire, Goes, shared, master, files
    <3> QED
      BY <1>4, <3>1 DEF PollEmpty, MayExpire, Goes, shared, master, files
  <2>2. NothingIsLeft'
    BY <1>4 DEF PollEmpty, Goes, shared, master, files, NothingIsLeft, Unoccupied
  <2>3. JobsInStep'
    BY <1>4 DEF PollEmpty, MayExpire, Goes, shared, master, files, JobsInStep,
       Prepared, Unoccupied, Occupied, NoJob, Pending, Taken, Over, Found, Stayed,
       OnItsWayOut, Stays, SlavesAreKnown, Waiting
  <2>4. SlavesAreKnown'
    BY <1>4 DEF PollEmpty, Goes, shared, master, files, SlavesAreKnown, JobsInStep,
       Prepared, Waiting
  <2>5. OutputsAreFresh'
    BY <1>4 DEF PollEmpty, shared, master, files, OutputsAreFresh, Here
  <2>6. RequestsAreFresh'
    BY <1>4 DEF PollEmpty, shared, master, files, RequestsAreFresh
  <2> QED
    BY <2>1, <2>2, <2>3, <2>4, <2>5, <2>6
<1>5. CASE TakeJob(j)
  <2>1. TypeOK'
    BY <1>5 DEF TakeJob, Goes, shared, master, files
  <2>2. NothingIsLeft'
    BY <1>5 DEF TakeJob, shared, master, NothingIsLeft
  <2>3. JobsInStep'
    BY <1>5, SMTT(30) DEF TakeJob, Goes, shared, master, files, JobsInStep, Prepared, Occupied,
       NoJob, Pending, Taken, Over, Found, Stayed, OnItsWayOut, Stays
  <2>4. SlavesAreKnown'
    BY <1>5, ZenonT(30) DEF TakeJob, Goes, shared, master, files, SlavesAreKnown, Prepared, Waiting
  <2>5. OutputsAreFresh'
    BY <1>5 DEF TakeJob, shared, master, files, OutputsAreFresh, Here
  <2>6. RequestsAreFresh'
    BY <1>5 DEF TakeJob, shared, master, files, RequestsAreFresh
  <2> QED
    BY <2>1, <2>2, <2>3, <2>4, <2>5, <2>6
<1>6. CASE Report(j)
  <2>1. TypeOK'
    BY <1>6 DEF Report, Goes, JobReports, InJob, master
  <2>2. NothingIsLeft'
    BY <1>6 DEF Report, Goes, JobReports, InJob, master, NothingIsLeft
  <2>3. JobsInStep'
    BY <1>6, SMTT(30) DEF Report, Goes, JobReports, InJob, master, JobsInStep, Prepared, NoJob,
       Pending, Taken, Over, Found, Stayed, OnItsWayOut, Stays
  <2>4. SlavesAreKnown'
    BY <1>6, ZenonT(30) DEF Report, Goes, JobReports, InJob, master, SlavesAreKnown, Prepared,
       Waiting
  <2>5. OutputsAreFresh'
    BY <1>6 DEF Report, JobReports, master, OutputsAreFresh, Here
  <2>6. RequestsAreFresh'
    BY <1>6 DEF Report, JobReports, master, RequestsAreFresh
  <2> QED
    BY <2>1, <2>2, <2>3, <2>4, <2>5, <2>6
<1>7. CASE Break(j)
  <2>1. TypeOK'
    <3>1. brk' \in BOOLEAN /\ newInstance' \in BOOLEAN
      BY <1>7 DEF Break, JobBreaks, InJob
    <3>2. [t |-> job[j], o |-> "break"] \in Output
      BY <1>7, Running DEF Break, Goes, Output, Result
    <3> QED
      BY <1>7, <3>1, <3>2 DEF Break, Goes, JobBreaks, Save, InJob, master
  <2>2. NothingIsLeft'
    BY <1>7 DEF Break, Goes, JobBreaks, Save, master, NothingIsLeft, Unoccupied
  <2>3. JobsInStep'
    BY <1>7 DEF Break, Goes, JobBreaks, Save, InJob, master, JobsInStep, Prepared,
       Unoccupied, Occupied, NoJob, Pending, Taken, Over, Found, Stayed, OnItsWayOut,
       Stays
  <2>4. SlavesAreKnown'
    <3>1. pc \notin {"idle", "closing", "stopped", "clean", "collect"} /\ input[j] /\ pslave[j]
      BY <1>7, Running DEF Break, Goes
    <3>2. Waiting
      BY <1>7, <3>1 DEF Break, JobBreaks, Asked, RequestsAreFresh, Waiting
    <3> QED
      BY <1>7, <3>1, <3>2 DEF Break, Goes, JobBreaks, Save, InJob, master,
         SlavesAreKnown, Prepared, Waiting
  <2>5. OutputsAreFresh'
    <3>1. out = done /\ outM[j] = NoOutput /\ pc # "collect"
      BY <1>7, Running DEF Break, Goes, OutputsAreFresh
    <3> QED
      BY <1>7, <3>1 DEF Break, JobBreaks, Save, master, OutputsAreFresh
  <2>6. RequestsAreFresh'
    <3>1. done[j] = NoOutput /\ pc \notin {"idle", "closing", "stopped", "clean"} /\ input[j]
      BY <1>7, Running DEF Break, Goes
    <3>2. status[j] # "close" /\ who # j
      BY <3>1 DEF RequestsAreFresh
    <3>3. who # 0 /\ brk
      BY <1>7, <3>1 DEF Break, JobBreaks, Asked, RequestsAreFresh
    <3> QED
      BY <1>7, <3>1, <3>2, <3>3 DEF Break, JobBreaks, Save, master, RequestsAreFresh
  <2> QED
    BY <2>1, <2>2, <2>3, <2>4, <2>5, <2>6
<1>8. CASE Finish(j)
  <2>1. TypeOK'
    <3>1. brk' \in BOOLEAN /\ newInstance' \in BOOLEAN
      BY <1>8 DEF Finish, JobReturns, InJob, master
    <3>2. \A o \in {"ok", "close"} : [t |-> job[j], o |-> o] \in Output
      BY <1>8, Running DEF Finish, Goes, Output, Result
    <3>3. PICK o \in {"ok", "close"} :
             /\ Save(j, job[j], o)
             /\ status' = IF o = "close" THEN [status EXCEPT ![j] = "close"] ELSE status
      BY <1>8 DEF Finish, JobReturns
    <3> QED
      BY <1>8, <3>1, <3>2, <3>3 DEF Finish, Goes, JobReturns, Save, InJob, master
  <2>2. NothingIsLeft'
    BY <1>8 DEF Finish, Goes, JobReturns, Save, master, NothingIsLeft, Unoccupied
  <2>3. JobsInStep'
    <3>1. j \in Prepared \/ (pc = "pause" /\ j = cpu /\ j \in Local)
      BY <1>8, Running DEF Finish, Goes
    <3>2. /\ proc' = [proc EXCEPT ![j] = "saved"]
          /\ \E o \in {"ok", "close"} : done' = [done EXCEPT ![j] = [t |-> job[j], o |-> o]]
          /\ UNCHANGED <<pc, task, totCPU, cpu, P, input, newInstance, commands, slaveJob,
                         stayalive, job, old>>
      BY <1>8 DEF Finish, Goes, JobReturns, Save, InJob, master
    <3>3. Taken(j)'
      <4>0. proc[j] = "run"
        BY <1>8 DEF Finish, Goes
      <4>1. /\ P[j] /\ slaveJob[j] = 0
            /\ job[j] = task /\ task \in 1..MaxTasks
        BY <4>0, Running
      <4>2. done'[j].t = task /\ proc'[j] = "saved"
        BY <3>2, <4>1
      <4> QED
        BY <3>2, <4>1, <4>2 DEF Taken, Occupied
    <3>4. ASSUME NEW k \in CPU, k # j
          PROVE  /\ proc'[k] = proc[k] /\ done'[k] = done[k]
                 /\ k \in Prepared' <=> k \in Prepared
      BY <3>2, <3>4 DEF Prepared
    <3> QED
      BY <3>1, <3>2, <3>3, <3>4 DEF JobsInStep, Prepared, NoJob, Pending, Taken, Over,
         Found, Stayed, OnItsWayOut, Stays
  <2>4. SlavesAreKnown'
    BY <1>8 DEF Finish, Goes, JobReturns, Save, InJob, master, SlavesAreKnown,
       Prepared, Waiting
  <2>5. OutputsAreFresh'
    <3>1. out = done /\ outM[j] = NoOutput /\ pc # "collect"
      BY <1>8, Running DEF Finish, Goes, OutputsAreFresh
    <3> QED
      BY <1>8, <3>1 DEF Finish, JobReturns, Save, master, OutputsAreFresh
  <2>6. RequestsAreFresh'
    <3>1. done[j] = NoOutput /\ pc \notin {"idle", "closing", "stopped", "clean"} /\ input[j]
      BY <1>8, Running DEF Finish, Goes
    <3>2. status[j] # "close" /\ who # j
      BY <3>1 DEF RequestsAreFresh
    <3> QED
      BY <1>8, <3>1, <3>2 DEF Finish, JobReturns, Save, master, RequestsAreFresh
  <2> QED
    BY <2>1, <2>2, <2>3, <2>4, <2>5, <2>6
<1>9. CASE Crash(j)
  <2>1. TypeOK'
    <3>1. brk' \in BOOLEAN /\ newInstance' \in BOOLEAN
      BY <1>9 DEF Crash, JobCrashes, InJob
    <3>2. [t |-> job[j], o |-> "error"] \in Output
      BY <1>9, Running DEF Crash, Goes, Output, Result
    <3> QED
      BY <1>9, <3>1, <3>2 DEF Crash, Goes, JobCrashes, Save, InJob, master
  <2>2. NothingIsLeft'
    BY <1>9 DEF Crash, Goes, JobCrashes, Save, master, NothingIsLeft, Unoccupied
  <2>3. JobsInStep'
    BY <1>9, SMTT(30) DEF Crash, Goes, JobCrashes, Save, InJob, master, JobsInStep, Prepared,
       Unoccupied, Occupied, NoJob, Pending, Taken, Over, Found, Stayed, OnItsWayOut,
       Stays
  <2>4. SlavesAreKnown'
    <3>1. /\ proc[j] = "run" /\ proc' = [proc EXCEPT ![j] = "crashed"]
          /\ \A k \in CPU : done[k] # NoOutput => done'[k] = done[k]
          /\ \A k \in CPU \ {j} : done'[k] = done[k]
          /\ UNCHANGED <<pc, totCPU, P, input, cpu, newInstance, commands, pslave>>
      BY <1>9, Running DEF Crash, Goes, JobCrashes, Save, InJob, master, Taken, Occupied
    <3>2. \A k \in CPU : proc[k] = "off" => done'[k] = done[k]
      BY <3>1
    <3> QED
      BY <3>1, <3>2 DEF SlavesAreKnown, Prepared, Waiting
  <2>5. OutputsAreFresh'
    <3>1. out = done /\ outM[j] = NoOutput /\ pc # "collect"
      BY <1>9, Running DEF Crash, Goes, OutputsAreFresh
    <3> QED
      BY <1>9, <3>1 DEF Crash, JobCrashes, Save, master, OutputsAreFresh
  <2>6. RequestsAreFresh'
    <3>1. done[j] = NoOutput /\ pc \notin {"idle", "closing", "stopped", "clean"} /\ input[j]
      BY <1>9, Running DEF Crash, Goes
    <3>2. status[j] # "close" /\ who # j
      BY <3>1 DEF RequestsAreFresh
    <3> QED
      BY <1>9, <3>1, <3>2 DEF Crash, JobCrashes, Save, master, RequestsAreFresh
  <2> QED
    BY <2>1, <2>2, <2>3, <2>4, <2>5, <2>6
<1>10. CASE ReportCrash(j)
  <2>1. TypeOK'
    BY <1>10 DEF ReportCrash, Goes, CrashReported, InJob, master
  <2>2. NothingIsLeft'
    BY <1>10 DEF ReportCrash, Goes, CrashReported, master, NothingIsLeft, Unoccupied
  <2>3. JobsInStep'
    BY <1>10 DEF ReportCrash, Goes, CrashReported, InJob, master, JobsInStep,
       Prepared, Unoccupied, Occupied, NoJob, Pending, Taken, Over, Found, Stayed,
       OnItsWayOut, Stays
  <2>4. SlavesAreKnown'
    <3>1. /\ proc[j] = "crashed"
          /\ proc' = [proc EXCEPT ![j] = IF Asked(j) THEN "hung" ELSE "leaving"]
          /\ UNCHANGED <<pc, totCPU, P, input, done, cpu, newInstance, commands, pslave>>
      BY <1>10 DEF ReportCrash, Goes, CrashReported, InJob, master
    <3>2. pc # "closing" /\ pslave[j] /\ input[j]
      BY <3>1 DEF NothingIsLeft, SlavesAreKnown, Unoccupied
    <3>3. Asked(j) => Waiting
      <4>1. j \in CPU /\ P[j]
        BY <3>1 DEF NothingIsLeft, JobsInStep, NoJob, Taken, Over, Pending, Found,
           Unoccupied
      <4>2. pc # "collect"
        BY <4>1, Collecting
      <4> QED
        BY <3>2, <4>2 DEF Asked, RequestsAreFresh, Waiting
    <3>4. \A k \in CPU : k \in Prepared' <=> k \in Prepared
      BY <3>1 DEF Prepared
    <3> QED
      BY <3>1, <3>2, <3>3, <3>4 DEF SlavesAreKnown, Waiting
  <2>5. OutputsAreFresh'
    BY <1>10 DEF ReportCrash, CrashReported, master, OutputsAreFresh, Here
  <2>6. RequestsAreFresh'
    BY <1>10 DEF ReportCrash, CrashReported, master, RequestsAreFresh
  <2> QED
    BY <2>1, <2>2, <2>3, <2>4, <2>5, <2>6
<1>11. CASE Signal(j)
  <2>1. TypeOK'
    <3>1. brk' \in BOOLEAN /\ newInstance' \in BOOLEAN
      BY <1>11 DEF Signal, Goes, DeleteP, MayExpire, master
    <3> QED
      BY <1>11, <3>1 DEF Signal, Goes, DeleteP, MayExpire, master, Occupied
  <2>2. NothingIsLeft'
    BY <1>11 DEF Signal, Goes, DeleteP, master, NothingIsLeft, Unoccupied
  <2>3. JobsInStep'
    <3>1. /\ proc[j] \in {"saved", "broken", "leaving"}
          /\ proc' = [proc EXCEPT ![j] = IF proc[j] = "leaving" THEN "exiting" ELSE "loop"]
          /\ proc[j] = "saved" => old' = [old EXCEPT ![j] = FALSE]
          /\ \A k \in CPU \ {j} : old'[k] = old[k]
          /\ P' = [P EXCEPT ![j] = FALSE]
          /\ UNCHANGED <<pc, task, totCPU, input, done, cpu, newInstance, commands, pslave,
                         slaveJob, stayalive, job>>
      BY <1>11 DEF Signal, Goes, DeleteP, MayExpire, master
    <3> QED
      BY <3>1, SMTT(30) DEF JobsInStep, SlavesAreKnown, Waiting, NothingIsLeft,
                  Prepared, Unoccupied, Occupied, NoJob, Pending, Taken, Over,
                  Found, Stayed, OnItsWayOut, Stays
  <2>4. SlavesAreKnown'
    <3>1. /\ proc[j] \in {"saved", "broken", "leaving"}
          /\ proc' = [proc EXCEPT ![j] = IF proc[j] = "leaving" THEN "exiting" ELSE "loop"]
          /\ P' = [P EXCEPT ![j] = FALSE]
          /\ UNCHANGED <<pc, totCPU, input, done, cpu, newInstance, commands, pslave>>
      BY <1>11 DEF Signal, Goes, DeleteP, master
    <3>2. pslave[j] /\ input[j] /\ pc # "closing"
      BY <3>1 DEF NothingIsLeft, SlavesAreKnown, Unoccupied
    <3>3. \A k \in CPU : k \in Prepared' <=> k \in Prepared
      BY <3>1 DEF Prepared
    <3>4. j \notin commands \/ pc \notin {"post", "pause", "launch"}
      BY <3>1 DEF SlavesAreKnown
    <3> QED
      BY <3>1, <3>2, <3>3, <3>4 DEF SlavesAreKnown, Waiting
  <2>5. OutputsAreFresh'
    BY <1>11 DEF Signal, DeleteP, master, OutputsAreFresh, Here
  <2>6. RequestsAreFresh'
    BY <1>11 DEF Signal, DeleteP, master, RequestsAreFresh
  <2> QED
    BY <2>1, <2>2, <2>3, <2>4, <2>5, <2>6
<1>12. CASE Exit(j)
  <2>1. TypeOK'
    BY <1>12 DEF Exit, Goes, shared, master, files
  <2>2. NothingIsLeft'
    BY <1>12 DEF Exit, Goes, shared, master, files, NothingIsLeft, Unoccupied
  <2>3. JobsInStep'
    BY <1>12, SMTT(30) DEF Exit, Goes, shared, master, files, JobsInStep, Prepared, Unoccupied,
       Occupied, NoJob, Pending, Taken, Over, Found, Stayed, OnItsWayOut, Stays
  <2>4. SlavesAreKnown'
    BY <1>12 DEF Exit, Goes, shared, master, files, SlavesAreKnown, Prepared, Waiting
  <2>5. OutputsAreFresh'
    BY <1>12 DEF Exit, shared, master, files, OutputsAreFresh, Here
  <2>6. RequestsAreFresh'
    BY <1>12 DEF Exit, shared, master, files, RequestsAreFresh
  <2> QED
    BY <2>1, <2>2, <2>3, <2>4, <2>5, <2>6
<1> QED
  BY <1>1, <1>2, <1>3, <1>4, <1>5, <1>6, <1>7, <1>8, <1>9, <1>10, <1>11, <1>12 DEF
     Slave, JobEnds

\* Every step of the master and of a slave preserves the invariant.
LEMMA NextIInv == IInv /\ [Next]_vars => IInv'
<1> SUFFICES ASSUME IInv, [Next]_vars PROVE IInv'
  OBVIOUS
<1>1. CASE UNCHANGED vars
  BY <1>1 DEF vars, shared, master, files, own, IInv, TypeOK, SharedTypeOK,
     NothingIsLeft, JobsInStep,
              SlavesAreKnown, OutputsAreFresh, RequestsAreFresh, Prepared, NoJob,
              Pending, Taken,
              Over, Found, Stayed, OnItsWayOut, Stays, Waiting, Here
<1> QED
  BY <1>1, MasterStep, WaitStep, SlaveStep DEF Next, Master

-----------------------------------------------------------------------------
(* What holds in every session *)

\* The invariant holds throughout, however long the slaves outlive the calls.
THEOREM Invariance == Spec => []IInv
BY InitIInv, NextIInv, PTL DEF Spec

\* The state of master, slaves and files keeps its types.
THEOREM TypeCorrect == Spec => []TypeOK
<1>1. IInv => TypeOK
  BY DEF IInv
<1> QED
  BY <1>1, Invariance, PTL

\* The commands that the master runs start slaves only where none is left.
THEOREM OneSlaveAtATime == Spec => []OneSlavePerCpu
<1>1. IInv => OneSlavePerCpu
  BY DEF IInv, SlavesAreKnown, OneSlavePerCpu
<1> QED
  BY <1>1, Invariance, PTL

\* A job that masterParallel waits for is run by a slave, or will be found by one
\* before it leaves, whenever slaves expire, crash or are told to leave.
THEOREM JobsAreFound == Spec => []UnfinishedJobHasASlave
<1>1. IInv => UnfinishedJobHasASlave
  <2> SUFFICES ASSUME IInv, Waiting, NEW j \in CPU, P[j]
               PROVE  \/ Pending(j) /\ Found(j)
                      \/ Taken(j)
    BY DEF UnfinishedJobHasASlave, Pending, Found, Taken, Lost, Occupied, Waiting
  <2>1. \/ Taken(j) \/ Over(j) \/ (Pending(j) /\ Found(j))
        \/ NoJob(j)
    BY DEF IInv, JobsInStep, Waiting
  <2> QED
    BY <2>1 DEF Over, NoJob
<1> QED
  BY <1>1, Invariance, PTL

\* slaveParallel deletes its P_ file after it saved the output of this call.
THEOREM SignalSafe == Spec => []OutputBeforeSignal
<1>1. IInv => OutputBeforeSignal
  <2> SUFFICES ASSUME IInv, Waiting, NEW j \in 1..totCPU, ~P[j]
               PROVE  out[j] # NoOutput /\ out[j] = done[j]
    BY DEF OutputBeforeSignal
  <2>1. j \in Prepared
    BY NAssumption DEF IInv, TypeOK, SharedTypeOK, CPU, Waiting, Prepared
  <2>2. Over(j)
    BY <2>1 DEF IInv, JobsInStep, Waiting, Prepared, Taken, Pending
  <2> QED
    BY <2>2 DEF IInv, OutputsAreFresh, Waiting, Over
<1> QED
  BY <1>1, Invariance, PTL

\* slaveParallel_break.mat stands for a job of this call.
THEOREM BreakSafe == Spec => []BreakIsForThisTask
<1>1. IInv => BreakIsForThisTask
  BY DEF IInv, RequestsAreFresh, BreakIsForThisTask
<1> QED
  BY <1>1, Invariance, PTL

-----------------------------------------------------------------------------
(* Strategy 1 implements the promise *)

\* Before the first call nothing has been promised.
LEMMA InitPromise == Init => Promise!Init
BY DEF Init, SharedInit, InCall, Promise!Init, NoOutputs, NoAnswer, Promise!NoOutputs,
       Promise!NoAnswer, CPU, Promise!CPU, NoOutput, Promise!NoOutput

\* A step of masterParallel or slaveParallel is a step of the promise, or none:
\* the call starts it, saving an output records an outcome, collecting returns.
LEMMA NextPromise == IInv /\ [Next]_vars => [Promise!Next]_(Promise!vars)
<1> SUFFICES ASSUME IInv, [Next]_vars PROVE [Promise!Next]_(Promise!vars)
  OBVIOUS
<1> USE NAssumption, MaxTasksAssumption, LocalAssumption, OutcomesAssumption
<1> USE DEF CPU, Promise!CPU, NoOutput, Promise!NoOutput, NoOutputs, Promise!NoOutputs,
            Promise!vars, InCall
<1>1. CASE \E n \in CPU : StartTask(n) /\ UNCHANGED own
  BY <1>1 DEF StartTask, Promise!Next, Promise!Call, NoAnswer, Promise!NoAnswer
<1>2. CASE OpenCommands \/ PostJob \/ CheckAlive \/ Launch \/ Wait
  BY <1>2 DEF OpenCommands, CleanRemnants, PostJob, CheckAlive, Launch, Wait,
     ScanStatus,
              ScanEnd, FetchNewFiles, NotFinished, WaitForOutput, AllFinished
<1>3. CASE CloseSlave \/ CloseSlaveEnd
  BY <1>3 DEF CloseSlave, CloseSlaveEnd
<1>4. CASE CollectCrash("stopped") /\ UNCHANGED own
  <2>1. pc = "collect"
    BY <1>4 DEF CollectCrash
  <2>2. \A j \in 1..totCPU : Here(j) = done[j] /\ done[j] # NoOutput
    BY <2>1, Collecting
  <2>3. Promise!ReturnCrash
    <3>1. 1..totCPU \subseteq CPU
      BY DEF IInv, TypeOK, SharedTypeOK
    <3> QED
      BY <1>4, <2>2, <3>1 DEF CollectCrash, Promise!ReturnCrash
  <2> QED
    BY <1>4, <2>1, <2>2, <2>3 DEF CollectCrash, Promise!Next, Promise!Return
<1>5. CASE CollectAndDelete
  <2>1. pc = "collect" /\ pc' = "idle" /\ UNCHANGED <<task, totCPU, done>> /\ ret' = fOutVar
    BY <1>5 DEF CollectAndDelete, Collect
  <2>2. \A j \in 1..totCPU : Here(j) = done[j] /\ done[j] # NoOutput
    BY <2>1, Collecting
  <2>3. \A j \in CPU : j \notin 1..totCPU => done[j] = NoOutput
    BY <2>1, Collecting
  <2>4. \A j \in CPU : done[j].o # "error"
    BY <1>5, <2>2, <2>3 DEF CollectAndDelete, Collect
  <2>5. CASE who = 0
    <3>1. \A j \in CPU : done[j].o # "break"
      BY <2>5 DEF IInv, RequestsAreFresh
    <3>2. [j \in CPU |-> IF j \in 1..totCPU THEN Here(j) ELSE NoOutput] = done
      BY <2>2, <2>3 DEF IInv, TypeOK, SharedTypeOK
    <3>3. Promise!ReturnAll
      BY <2>1, <2>4, <2>5, <3>1, <3>2 DEF fOutVar, Promise!ReturnAll
    <3> QED
      BY <2>1, <2>2, <3>3 DEF Promise!Next, Promise!Return
  <2>6. CASE who # 0
    <3>1. who \in CPU /\ done[who].o = "close"
      BY <2>6 DEF IInv, TypeOK, SharedTypeOK, RequestsAreFresh
    <3>2. Here(who) = done[who]
      BY <2>2, <2>3, <3>1
    <3>3. Promise!ReturnOne(who)
      BY <2>1, <2>4, <2>6, <3>1, <3>2 DEF fOutVar, Promise!ReturnOne
    <3> QED
      BY <2>1, <2>2, <3>1, <3>3 DEF Promise!Next, Promise!Return
  <2> QED
    BY <2>5, <2>6
<1>6. ASSUME NEW j \in CPU, NEW o \in Result, proc[j] = "run", Save(j, job[j], o),
             UNCHANGED master, o = "break" => \E k \in CPU : done[k].o = "close"
      PROVE  Promise!RunJob(j, o)
  <2>1. /\ pc \notin {"idle", "closing", "stopped"} /\ job[j] = task
        /\ j \in 1..totCPU /\ done[j] = NoOutput
    BY <1>6, Running
  <2> QED
    BY <1>6, <2>1 DEF Save, master, Promise!RunJob
<1>7. ASSUME NEW j \in CPU, Break(j)
      PROVE  Promise!RunJob(j, "break")
  <2>1. proc[j] = "run" /\ input[j]
    BY <1>7, Running DEF Break, Goes
  <2>2. \E k \in CPU : done[k].o = "close"
    BY <1>7, <2>1 DEF Break, JobBreaks, Asked, IInv, TypeOK, SharedTypeOK,
       RequestsAreFresh
  <2> QED
    BY <1>6, <1>7, <2>1, <2>2 DEF Break, JobBreaks, Result
<1>8. ASSUME NEW j \in CPU, Finish(j)
      PROVE  \E o \in Result : Promise!RunJob(j, o)
  BY <1>6, <1>8 DEF Finish, Goes, JobReturns, Result
<1>9. ASSUME NEW j \in CPU, Crash(j)
      PROVE  Promise!RunJob(j, "error")
  BY <1>6, <1>9 DEF Crash, Goes, JobCrashes, Result
<1>10. CASE \E j \in CPU : JobEnds(j)
  BY <1>7, <1>8, <1>9, <1>10 DEF JobEnds, Promise!Next, Result, Promise!Result
<1>11. CASE \E j \in CPU : \/ Boot(j) \/ KeepOn(j) \/ Leave(j) \/ PollEmpty(j) \/ TakeJob(j)
                           \/ Report(j) \/ ReportCrash(j) \/ Signal(j) \/ Exit(j)
  BY <1>11 DEF Boot, KeepOn, Leave, PollEmpty, TakeJob, Report, JobReports, ReportCrash,
               CrashReported, Signal, DeleteP, Exit, shared, master
<1>12. CASE UNCHANGED vars
  BY <1>12 DEF vars, shared, master
<1> QED
  BY <1>1, <1>2, <1>3, <1>4, <1>5, <1>10, <1>11, <1>12 DEF Next, Master, Slave

\* Every step of master or slaves is a step, or no step, of what masterParallel
\* promises, although the slaves outlive the calls: outcomes are recorded once,
\* and returned with their own call.
THEOREM PromiseKept == Spec => KeepsPromise
BY InitPromise, NextPromise, Invariance, PTL DEF Spec, KeepsPromise, Promise!Spec
=============================================================================

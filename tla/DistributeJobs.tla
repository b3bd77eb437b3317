--------------------------- MODULE DistributeJobs ---------------------------
(***************************************************************************)
(* How the blocks fBlock..nBlock of a task are spread over the nodes and   *)
(* CPUs of a cluster: the nodes are sorted by weight                       *)
(* (InitializeComputationalEnvironment), distributeJobs shares the blocks  *)
(* out among nodes and then among the CPUs of each node, and               *)
(* masterParallel turns its answer into one range of blocks per CPU.       *)
(*                                                                         *)
(* distributeJobs computes the share of a node in floating point. When the *)
(* exact share is an integer the computed one may be a rounding error      *)
(* above it (7/25*25 is), and ceil then adds one: `up' is the set of node  *)
(* weights this happens to. The branch for too few jobs is left out: ceil  *)
(* never yields too few (PlanIsWhole).                                     *)
(*                                                                         *)
(* An operator M_... is a wrong version of the one after it, with which    *)
(* TLC has to find a property violated; the specification does not use it. *)
(***************************************************************************)
EXTENDS Integers, Sequences, SequencesExt, FiniteSets

CONSTANTS
    MaxNodes,     \* bound: nodes of the cluster
    Cpus,         \* numbers of CPUs a node may have: length(CPUnbr)
    Threads,      \* values of NumberOfThreadsPerJob
    Weights,      \* values of NodeWeight
    FirstBlocks,  \* values of fBlock
    MaxBlock      \* bound: nBlock

\* A cluster has nodes, a node has CPUs, a job takes threads, blocks are numbered
\* from 1 and the weights, multiples of a common unit, are shares of the work.
ASSUME NodesAssumption == MaxNodes \in Nat \ {0}
ASSUME PositiveAssumption == Cpus \cup Threads \cup Weights \cup FirstBlocks \subseteq Nat \ {0}
ASSUME BlocksAssumption == MaxBlock \in Nat

Node == [cpus : Cpus, threads : Threads, weight : Weights]

VARIABLES
    phase,         \* the part of the code that runs next
    Parallel,      \* the nodes: options_.parallel
    fBlock, nBlock,
    JobsForNode,   \* blocks of each node
    VerySlow,      \* the node blocks are taken from
    node, cpu,     \* the node and the CPU the loops have come to
    ChekOverFlow,  \* blocks of the node given to its CPUs so far
    JobsForCpu,    \* blocks of each CPU
    nBlockPerCPU,  \* blocks of each CPU used
    ranges         \* what each CPU used is told to run, and the node it is on

input == <<Parallel, fBlock, nBlock>>
loops == <<node, cpu, ChekOverFlow>>
vars == <<phase, input, JobsForNode, VerySlow, loops, JobsForCpu, nBlockPerCPU, ranges>>

BlockRange == [node : 1..MaxNodes, first : Int, last : Int]

\* The tables of distributeJobs keep their types; masterParallel is given a
\* range for each CPU used.
TypeOK ==
    /\ phase \in {"sort", "count", "share", "trim", "cpus", "compact", "dispatch", "done", "error"}
    /\ Parallel \in UNION {[1..n -> Node] : n \in 1..MaxNodes}
    /\ fBlock \in FirstBlocks
    /\ nBlock \in 1..MaxBlock
    /\ JobsForNode \in Seq(Nat)
    /\ VerySlow \in 0..MaxNodes
    /\ node \in 1..MaxNodes
    /\ cpu \in Nat \ {0}
    /\ ChekOverFlow \in Nat
    /\ JobsForCpu \in Seq(Int)
    /\ nBlockPerCPU \in Seq(Int \ {0})
    /\ ranges \in Seq(BlockRange)

Init ==
    /\ phase = "sort"
    /\ \E n \in 1..MaxNodes : Parallel \in [1..n -> Node]
    /\ fBlock \in FirstBlocks
    /\ nBlock \in fBlock..MaxBlock
    /\ JobsForNode = <<>>
    /\ VerySlow = 0
    /\ node = 1 /\ cpu = 1 /\ ChekOverFlow = 0
    /\ JobsForCpu = <<>>
    /\ nBlockPerCPU = <<>>
    /\ ranges = <<>>

Sum(s) == SumFunction(s)

nC == Len(Parallel)
NumbersOfJobs == nBlock - fBlock + 1

\* NewPosition: again and again the first node of maximal weight
Before(m, k) ==
    \/ Parallel[m].weight > Parallel[k].weight
    \/ Parallel[m].weight = Parallel[k].weight /\ m < k

SortNodes ==
    /\ phase = "sort"
    /\ phase' = "count"
    /\ Parallel' = [i \in 1..nC |->
          Parallel[CHOOSE k \in 1..nC : Cardinality({m \in 1..nC : Before(m, k)}) = i - 1]]
    /\ UNCHANGED <<fBlock, nBlock, JobsForNode, VerySlow, loops, JobsForCpu, nBlockPerCPU, ranges>>

\* The jobs node i can run at the same time, and the cumulated number.
nCPUoriginal(i) == Parallel[i].cpus \div Parallel[i].threads
nCPU(i) == Sum([k \in 1..i |-> nCPUoriginal(k)])

CountCpus ==
    /\ phase = "count"
    /\ phase' = IF \E i \in 1..nC : Parallel[i].cpus % Parallel[i].threads # 0
                THEN "error" ELSE "share"
    /\ UNCHANGED <<input, JobsForNode, VerySlow, loops, JobsForCpu, nBlockPerCPU, ranges>>

CPUWeight(i) == Parallel[i].weight * nCPUoriginal(i)

ShareOut ==
    /\ phase = "share"
    /\ phase' = "trim"
    /\ LET total == Sum([i \in 1..nC |-> CPUWeight(i)])
           quota(i) == (CPUWeight(i) * NumbersOfJobs) \div total
           exact(i) == (CPUWeight(i) * NumbersOfJobs) % total = 0
       IN \E up \in SUBSET {CPUWeight(i) : i \in 1..nC} :
             JobsForNode' = [i \in 1..nC |->
                IF exact(i) /\ CPUWeight(i) \notin up THEN quota(i) ELSE quota(i) + 1]
    /\ VerySlow' = nC
    /\ UNCHANGED <<input, loops, JobsForCpu, nBlockPerCPU, ranges>>

\* The excess is taken from the slowest node that still has blocks.
M_TrimStuck ==
    IF JobsForNode[VerySlow] = 0
    THEN UNCHANGED <<JobsForNode, VerySlow>>
    ELSE JobsForNode' = [JobsForNode EXCEPT ![VerySlow] = @ - 1] /\ UNCHANGED VerySlow
TrimStep ==
    IF JobsForNode[VerySlow] = 0
    THEN VerySlow' = VerySlow - 1 /\ UNCHANGED JobsForNode
    ELSE JobsForNode' = [JobsForNode EXCEPT ![VerySlow] = @ - 1] /\ UNCHANGED VerySlow

M_TooMany == Sum(JobsForNode) > NumbersOfJobs + 1
TooMany == Sum(JobsForNode) > NumbersOfJobs

Trim ==
    /\ phase = "trim" /\ TooMany
    /\ TrimStep
    /\ UNCHANGED <<phase, input, loops, JobsForCpu, nBlockPerCPU, ranges>>

TrimEnd ==
    /\ phase = "trim" /\ ~TooMany
    /\ phase' = "cpus"
    /\ JobsForCpu' = [c \in 1..nCPU(nC) |-> 0]
    /\ UNCHANGED <<input, JobsForNode, VerySlow, loops, nBlockPerCPU, ranges>>

\* The CPUs of a node share its blocks: each in turn gets JobAssignedCpu, until
\* the node has all it should have.
RelativePosition == nCPU(node - 1) + 1

JobAssignedCpu ==
    IF JobsForNode[node] < nCPUoriginal(node) THEN 1
    ELSE JobsForNode[node] \div nCPUoriginal(node)

MoreCpus ==
    \/ cpu = RelativePosition
    \/ cpu <= nCPU(node) /\ ChekOverFlow < JobsForNode[node]

AssignCpu ==
    /\ phase = "cpus" /\ MoreCpus
    /\ JobsForCpu' = [JobsForCpu EXCEPT ![cpu] = JobAssignedCpu]
    /\ ChekOverFlow' = ChekOverFlow + JobAssignedCpu
    /\ cpu' = cpu + 1
    /\ UNCHANGED <<phase, input, JobsForNode, VerySlow, node, nBlockPerCPU, ranges>>

\* The last CPU of the node is corrected for the difference.
CorrectNode ==
    /\ phase = "cpus" /\ ~MoreCpus
    /\ JobsForCpu' = [JobsForCpu EXCEPT ![nCPU(node)] = @ + (JobsForNode[node] - ChekOverFlow)]
    /\ ChekOverFlow' = 0
    /\ IF node < nC THEN node' = node + 1 /\ cpu' = nCPU(node) + 1 /\ UNCHANGED phase
                    ELSE phase' = "compact" /\ cpu' = 1 /\ UNCHANGED node
    /\ UNCHANGED <<input, JobsForNode, VerySlow, nBlockPerCPU, ranges>>

\* CPUs without blocks are dropped.
Compact ==
    /\ phase = "compact"
    /\ nBlockPerCPU' = IF JobsForCpu[cpu] # 0 THEN Append(nBlockPerCPU, JobsForCpu[cpu])
                       ELSE nBlockPerCPU
    /\ cpu' = cpu + 1
    /\ phase' = IF cpu < nCPU(nC) THEN "compact" ELSE "dispatch"
    /\ UNCHANGED <<input, JobsForNode, VerySlow, node, ChekOverFlow, JobsForCpu, ranges>>

totCPU == Len(nBlockPerCPU)
M_SingleJobNodesForgotten == Cardinality({i \in DOMAIN JobsForNode : JobsForNode[i] > 1})
totSLAVES == Cardinality({i \in DOMAIN JobsForNode : JobsForNode[i] # 0})

\* masterParallel: CPU j runs the blocks offset + 1 .. nblck on node indPC
indPC(j) == CHOOSE i \in 1..nC : nCPU(i) >= j /\ \A k \in 1..(i - 1) : nCPU(k) < j
offset(j) == Sum(SubSeq(nBlockPerCPU, 1, j - 1)) + fBlock - 1
M_OneBlockShort(j) == Sum(SubSeq(nBlockPerCPU, 1, j)) - 1
nblck(j) == Sum(SubSeq(nBlockPerCPU, 1, j))

Dispatch ==
    /\ phase = "dispatch"
    /\ phase' = "done"
    /\ ranges' = [j \in 1..totCPU |-> [node |-> indPC(j), first |-> offset(j) + 1, last |-> nblck(j)]]
    /\ UNCHANGED <<input, JobsForNode, VerySlow, loops, JobsForCpu, nBlockPerCPU>>

Next ==
    \/ SortNodes \/ CountCpus \/ ShareOut \/ Trim \/ TrimEnd
    \/ AssignCpu \/ CorrectNode \/ Compact \/ Dispatch

Spec == Init /\ [][Next]_vars /\ WF_vars(Next)

-----------------------------------------------------------------------------
(* What makes it correct *)

Planned == phase \in {"cpus", "compact", "dispatch", "done"}

\* After the correction for rounding, the shares of the nodes add up to the
\* number of blocks, though every share was rounded up on its own.
PlanIsWhole == Planned => Sum(JobsForNode) = NumbersOfJobs

\* Taking blocks from the slowest nodes leaves no node with fewer blocks than
\* a node that comes later and weighs no more.
PlanFollowsWeights ==
    Planned => \A i, k \in 1..nC :
        i < k /\ CPUWeight(i) >= CPUWeight(k) => JobsForNode[i] >= JobsForNode[k]

\* What distributeJobs gives out is a plan: all blocks, and no more of them to a
\* slower node.
PlanIsRight == PlanIsWhole /\ PlanFollowsWeights

\* A node with several CPUs was left without any block.
IdleNode == \E i \in 1..nC : JobsForNode[i] = 0 /\ nCPUoriginal(i) > 1

RunsOf(b) == {j \in 1..totCPU : ranges[j].first <= b /\ b <= ranges[j].last}

\* Every block fBlock..nBlock is run by one CPU, and no other block is.
EveryBlockRunOnce ==
    phase = "done" => \A b \in 1..(MaxBlock + nC) :
        Cardinality(RunsOf(b)) = IF b \in fBlock..nBlock THEN 1 ELSE 0

\* The same, unless a node with several CPUs got nothing to do.
EveryBlockRunOnceUnlessIdle == phase = "done" => IdleNode \/ EveryBlockRunOnce

\* masterParallel waits for, copies from and cleans the first totSLAVES nodes
\* only: no CPU it uses is on another node.
UsedNodesAreWatched ==
    phase = "done" /\ ~IdleNode => \A j \in 1..totCPU : ranges[j].node <= totSLAVES

\* The corrections end: every distribution is completed or refused.
Terminates == <>(phase \in {"done", "error"})
=============================================================================

--------------------------- MODULE DistributeProofs ---------------------------
(***************************************************************************)
(* Proofs about DistributeJobs, for any number of nodes, CPUs, threads and *)
(* blocks and any weights: the correction for rounding yields a plan with  *)
(* exactly the blocks of the task, in the order of the weights, whichever  *)
(* shares the floating point arithmetic rounded up.                        *)
(***************************************************************************)
EXTENDS DistributeJobs, SumLemmas

-----------------------------------------------------------------------------
(* The sort *)

Preceding(k) == {m \in 1..nC : Before(m, k)}

\* The nodes are put in an order in which each position is taken.
LEMMA PositionsAreTaken ==
  ASSUME NEW n \in Nat, Parallel \in [1..n -> Node], NEW i \in 1..n
  PROVE  \E k \in 1..nC : Cardinality({m \in 1..nC : Before(m, k)}) = i - 1
<1> DEFINE Rank == [k \in 1..n |-> Cardinality(Preceding(k))]
<1>1. nC = n
  BY DEF nC
<1>2. \A k \in 1..n : Parallel[k].weight \in Nat
  BY PositiveAssumption DEF Node
<1>3. IsFiniteSet(1..n) /\ Cardinality(1..n) = n
  BY FS_Interval
<1>4. ASSUME NEW k \in 1..n
      PROVE  IsFiniteSet(Preceding(k)) /\ Cardinality(Preceding(k)) \in 0..(n - 1)
  <2>1. Preceding(k) \in SUBSET (1..n) /\ k \notin Preceding(k)
    BY <1>1, <1>2 DEF Preceding, Before
  <2>2. Preceding(k) \subseteq 1..n /\ Preceding(k) # 1..n
    BY <2>1
  <2> QED
    BY <1>3, <2>2, FS_Subset, FS_CardinalityType
<1>5. ASSUME NEW j \in 1..n, NEW k \in 1..n, Before(j, k)
      PROVE  Rank[j] < Rank[k]
  <2>1. Preceding(j) \subseteq Preceding(k) /\ j \in Preceding(k) /\ j \notin Preceding(j)
    BY <1>1, <1>2, <1>5 DEF Preceding, Before
  <2>2. Preceding(j) \subseteq Preceding(k) /\ Preceding(j) # Preceding(k)
    BY <2>1
  <2> QED
    BY <1>4, <2>2, FS_Subset
<1>6. ASSUME NEW j \in 1..n, NEW k \in 1..n, j # k PROVE Rank[j] # Rank[k]
  <2>1. Before(j, k) \/ Before(k, j)
    BY <1>2, <1>6 DEF Before
  <2>2. Rank[j] \in Int /\ Rank[k] \in Int
    BY <1>4
  <2> QED
    BY <1>5, <2>1, <2>2
<1>7. Rank \in Injection(1..n, 0..(n - 1))
  BY <1>4, <1>6 DEF Injection, IsInjective
<1>8. IsFiniteSet(0..(n - 1)) /\ Cardinality(0..(n - 1)) = n
  BY FS_Interval
<1>9. Rank \in Surjection(1..n, 0..(n - 1))
  BY <1>3, <1>7, <1>8, FS_Injection
<1>10. \A r \in 0..(n - 1) : \E k \in 1..n : Rank[k] = r
  BY <1>9 DEF Surjection
<1>11. i - 1 \in 0..(n - 1)
  OBVIOUS
<1>12. PICK k \in 1..n : Rank[k] = i - 1
  BY <1>10, <1>11
<1> QED
  BY <1>1, <1>12 DEF Preceding

-----------------------------------------------------------------------------
(* Sums of shares *)

LEMMA SumOfShares ==
  ASSUME NEW n \in Nat, NEW s \in [1..n -> Nat]
  PROVE  /\ Sum(s) \in Nat /\ Sum(s) = SumFunctionOnSet(s, 1..n)
         /\ Sum(s) = 0 <=> \A i \in 1..n : s[i] = 0
<1>1. IsFiniteSet(1..n)
  <2>1. 1 \in Int /\ n \in Int
    OBVIOUS
  <2> QED
    BY <2>1, FS_Interval
<1>2. DOMAIN s = 1..n
  OBVIOUS
<1>3. \A i \in 1..n : s[i] \in Nat
  OBVIOUS
<1>4. /\ SumFunctionOnSet(s, 1..n) \in Nat
      /\ SumFunctionOnSet(s, 1..n) = 0 <=> \A i \in 1..n : s[i] = 0
  BY <1>1, <1>3, SumOfNaturals
<1> QED
  BY <1>2, <1>4 DEF Sum, SumFunction

\* One entry is changed.
IsAssigned(r, s, n, c, v) ==
    /\ s \in [1..n -> Int] /\ c \in 1..n /\ v \in Int
    /\ r[c] = v /\ \A i \in (1..n) \ {c} : r[i] = s[i]

LEMMA SumOfAssigned ==
  ASSUME NEW n \in Nat, NEW s, NEW r, NEW c, NEW v, IsAssigned(r, s, n, c, v)
  PROVE  SumFunctionOnSet(r, 1..n) = SumFunctionOnSet(s, 1..n) + (v - s[c])
<1> DEFINE ChangedOnly(f, g, S, x) == /\ IsFiniteSet(S) /\ x \in S /\ g[x] \in Int
                                      /\ \A i \in S : f[i] \in Int
                                      /\ \A i \in S \ {x} : g[i] = f[i]
<1>1. \A f, g, S, x : ChangedOnly(f, g, S, x)
        => SumFunctionOnSet(g, S) = SumFunctionOnSet(f, S) + (g[x] - f[x])
  BY SumOfChanged
<1>2. r[c] = v /\ ChangedOnly(s, r, 1..n, c)
  BY FS_Interval DEF IsAssigned
<1> HIDE DEF ChangedOnly
<1>3. SumFunctionOnSet(r, 1..n) = SumFunctionOnSet(s, 1..n) + (r[c] - s[c])
  BY <1>1, <1>2, Zenon
<1> QED
  BY <1>2, <1>3

LEMMA SumWithOneLess ==
  ASSUME NEW n \in Nat, NEW s \in [1..n -> Nat], NEW v \in 1..n, s[v] # 0,
         NEW r, r = [s EXCEPT ![v] = @ - 1]
  PROVE  r \in [1..n -> Nat] /\ Sum(r) = Sum(s) - 1
<1>1. r \in [1..n -> Nat] /\ s[v] - 1 \in Int /\ s[v] \in Int /\ s \in [1..n -> Int]
  OBVIOUS
<1>2. IsAssigned(r, s, n, v, s[v] - 1)
  BY <1>1 DEF IsAssigned
<1>3. SumFunctionOnSet(r, 1..n) = SumFunctionOnSet(s, 1..n) + ((s[v] - 1) - s[v])
  BY <1>1, <1>2, SumOfAssigned
<1>4. Sum(s) \in Int /\ Sum(s) = SumFunctionOnSet(s, 1..n)
  BY SumOfShares
<1>5. Sum(r) = SumFunctionOnSet(r, 1..n)
  BY <1>1, SumOfShares
<1> QED
  BY <1>1, <1>3, <1>4, <1>5

-----------------------------------------------------------------------------
(* The shares *)

\* Division with remainder.
LEMMA DivMod ==
  ASSUME NEW x \in Nat, NEW t \in Nat \ {0}
  PROVE  /\ x \div t \in Nat
         /\ x % t \in 0..(t - 1)
         /\ x = (t * (x \div t)) + (x % t)
OBVIOUS

\* A share rounded up is not below the exact one.
LEMMA RoundedUp ==
  ASSUME NEW x \in Nat, NEW t \in Nat \ {0}, NEW r \in Nat,
         r = x \div t + 1 \/ (x % t = 0 /\ r = x \div t)
  PROVE  x <= t * r
<1>1. x \div t \in Nat /\ x % t \in 0..(t - 1) /\ x = (t * (x \div t)) + (x % t)
  BY DivMod
<1>2. CASE r = x \div t
  BY <1>1, <1>2
<1>3. CASE r = x \div t + 1
  <2>1. t * (x \div t + 1) = (t * (x \div t)) + t
    BY <1>1
  <2> QED
    BY <1>1, <1>3, <2>1
<1> QED
  BY <1>2, <1>3

\* Rounding keeps the order of the shares, provided that equal ones are rounded
\* the same way.
LEMMA RoundingKeepsOrder ==
  ASSUME NEW x \in Nat, NEW y \in Nat, NEW t \in Nat \ {0}, x > y
  PROVE  /\ x \div t >= y \div t
         /\ x % t = 0 => x \div t >= y \div t + 1
<1> DEFINE p == x \div t
           q == y \div t
<1>1. /\ p \in Nat /\ x % t \in 0..(t - 1) /\ x = (t * p) + (x % t)
      /\ q \in Nat /\ y % t \in 0..(t - 1) /\ y = (t * q) + (y % t)
  BY DivMod
<1> HIDE DEF p, q
<1>2. ASSUME p < q PROVE FALSE
  <2>1. t * (p + 1) <= t * q
    BY <1>1, <1>2
  <2>2. t * (p + 1) = (t * p) + t
    BY <1>1
  <2> QED
    BY <1>1, <2>1, <2>2
<1>3. ASSUME x % t = 0, p <= q PROVE FALSE
  <2>1. t * p <= t * q
    BY <1>1, <1>3
  <2> QED
    BY <1>1, <1>3, <2>1
<1> QED
  BY <1>1, <1>2, <1>3 DEF p, q

\* The shares that ShareOut computes for n nodes of weights w and J blocks.
AreShares(s, n, w, J, up) ==
    s = [i \in 1..n |-> IF (w[i] * J) % Sum(w) = 0 /\ w[i] \notin up
                        THEN (w[i] * J) \div Sum(w) ELSE (w[i] * J) \div Sum(w) + 1]

\* They are enough blocks, and no fewer of them for a greater weight.
LEMMA SharesAreEnough ==
  ASSUME NEW n \in Nat \ {0}, NEW w \in [1..n -> Nat \ {0}], NEW J \in Nat \ {0}, NEW up,
         NEW s, AreShares(s, n, w, J, up)
  PROVE  /\ s \in [1..n -> Nat \ {0}]
         /\ Sum(s) >= J
         /\ \A i, k \in 1..n : w[i] >= w[k] => s[i] >= s[k]
<1> DEFINE total == Sum(w)
<1>0. s = [i \in 1..n |-> IF (w[i] * J) % total = 0 /\ w[i] \notin up
                          THEN (w[i] * J) \div total ELSE (w[i] * J) \div total + 1]
  BY DEF AreShares
<1>1. IsFiniteSet(1..n) /\ DOMAIN w = 1..n /\ DOMAIN s = 1..n
  BY <1>0, FS_Interval
<1>2. total \in Nat \ {0}
  <2>1. total \in Nat /\ (total = 0 <=> \A i \in 1..n : w[i] = 0)
    BY <1>1, SumOfNaturals DEF Sum, SumFunction
  <2> QED
    BY <2>1
<1> HIDE DEF total
<1>3. ASSUME NEW i \in 1..n
      PROVE  /\ w[i] * J \in Nat /\ s[i] \in Nat \ {0}
             /\ J * w[i] <= total * s[i]
  <2>1. w[i] * J \in Nat /\ w[i] * J = J * w[i]
    OBVIOUS
  <2>2. (w[i] * J) \div total \in Nat
    BY <1>2, <2>1, DivMod
  <2>3. \/ s[i] = (w[i] * J) \div total + 1
        \/ (w[i] * J) % total = 0 /\ s[i] = (w[i] * J) \div total
    BY <1>0
  <2>4. s[i] \in Nat
    BY <2>2, <2>3
  <2>5. w[i] * J <= total * s[i]
    BY <1>2, <2>1, <2>3, <2>4, RoundedUp
  <2>6. w[i] * J # 0 /\ total * 0 = 0
    BY <1>2
  <2> QED
    BY <2>1, <2>4, <2>5, <2>6
<1>4. Sum(s) >= J
  <2>1. \A i \in 1..n : w[i] \in Int /\ s[i] \in Int /\ J * w[i] <= total * s[i]
    BY <1>3
  <2>2. J * SumFunctionOnSet(w, 1..n) <= total * SumFunctionOnSet(s, 1..n)
    <3>1. J \in Int /\ total \in Int /\ IsFiniteSet(1..n)
      BY <1>1, <1>2
    <3> QED
      BY <2>1, <3>1, SumCompared, Zenon
  <2>3. SumFunctionOnSet(s, 1..n) \in Int
    BY <1>1, <2>1, SumWithout
  <2>4. J * total <= total * Sum(s) /\ Sum(s) \in Int
    BY <1>1, <2>2, <2>3 DEF Sum, SumFunction, total
  <2>5. ASSUME NEW z \in Int, z < J PROVE total * z < J * total
    BY <1>2, <2>5
  <2>6. ~ (Sum(s) < J)
    <3> DEFINE z == Sum(s)
    <3>1. J * total <= total * z /\ z \in Int
      BY <2>4
    <3>2. total * z \in Int /\ J * total \in Int
      BY <1>2, <3>1
    <3> HIDE DEF z
    <3>3. ~ (z < J)
      BY <2>5, <3>1, <3>2
    <3> QED
      BY <3>3 DEF z
  <2> QED
    BY <2>4, <2>6
<1>5. ASSUME NEW i \in 1..n, NEW k \in 1..n, w[i] >= w[k] PROVE s[i] >= s[k]
  <2>1. CASE w[i] = w[k]
    BY <1>0, <1>3, <2>1
  <2>2. CASE w[i] > w[k]
    <3>1. w[i] * J > w[k] * J
      <4>1. ASSUME NEW a \in Nat, NEW b \in Nat, a > b PROVE a * J > b * J
        BY <4>1
      <4> QED
        BY <2>2, <4>1
    <3>2. /\ (w[i] * J) \div total >= (w[k] * J) \div total
          /\ (w[i] * J) % total = 0 => (w[i] * J) \div total >= (w[k] * J) \div total + 1
      BY <1>2, <1>3, <3>1, RoundingKeepsOrder
    <3>3. (w[i] * J) \div total \in Nat /\ (w[k] * J) \div total \in Nat
      BY <1>2, <1>3, DivMod
    <3> QED
      BY <1>0, <3>2, <3>3
  <2> QED
    BY <1>5, <2>1, <2>2
<1> QED
  BY <1>0, <1>3, <1>4, <1>5

-----------------------------------------------------------------------------
(* The invariant *)

\* Between ShareOut and the end each node has a share, these are not too few, and
\* in the order of the weights.
SharesAreRight ==
    phase \in {"trim", "cpus", "compact", "dispatch", "done"} =>
        /\ JobsForNode \in [1..nC -> Nat]
        /\ Sum(JobsForNode) >= NumbersOfJobs
        /\ \A i, k \in 1..nC :
              i < k /\ CPUWeight(i) >= CPUWeight(k) => JobsForNode[i] >= JobsForNode[k]

\* Blocks are taken from a node only when those after it have none left: the nodes
\* with blocks are the first ones.
SlowestFirst ==
    /\ phase = "trim" =>
          /\ VerySlow \in 1..nC
          /\ \A k \in 1..nC : k > VerySlow => JobsForNode[k] = 0
          /\ \A k \in 1..nC : k < VerySlow => JobsForNode[k] # 0
    /\ Planned => \A i, k \in 1..nC : i < k /\ JobsForNode[i] = 0 => JobsForNode[k] = 0

\* The loops start at the first node and CPU, with nothing given out.
NothingGivenOut ==
    /\ phase \in {"sort", "count", "share", "trim"} => node = 1 /\ cpu = 1 /\ ChekOverFlow = 0
    /\ phase \in {"sort", "count", "share", "trim", "cpus"} => nBlockPerCPU = <<>>

\* No CPU has a negative number of blocks, and up to the last one none behind the
\* first totSLAVES nodes has any.
NoneBelowZero(s, last) ==
    ~IdleNode => \A c \in 1..nCPU(nC) : s[c] >= 0 /\ (c > nCPU(totSLAVES) /\ c <= last => s[c] = 0)

\* What each CPU of node i gets at first.
ShareOfCpu(i) ==
    IF JobsForNode[i] < nCPUoriginal(i) THEN 1 ELSE JobsForNode[i] \div nCPUoriginal(i)

\* The CPUs before c have the blocks of the nodes before i, and `given' ones of node i.
AreShared(i, c, given, s) ==
    /\ i \in 1..nC /\ c \in (nCPU(i - 1) + 1)..(nCPU(i) + 1)
    /\ given = ShareOfCpu(i) * (c - (nCPU(i - 1) + 1))
    /\ c > nCPU(i - 1) + 2 => given - ShareOfCpu(i) < JobsForNode[i]
    /\ s \in [1..nCPU(nC) -> Int]
    /\ \A k \in (nCPU(i - 1) + 1)..nCPU(nC) : s[k] = IF k < c THEN ShareOfCpu(i) ELSE 0
    /\ SumFunctionOnSet(s, 1..nCPU(nC)) = SumFunctionOnSet(JobsForNode, 1..(i - 1)) + given
    /\ NoneBelowZero(s, nCPU(i - 1))

CpusShareTheBlocks == phase = "cpus" => AreShared(node, cpu, ChekOverFlow, JobsForCpu)

\* The list l holds the blocks of the CPUs before c.
AreListed(c, s, l) ==
    /\ c \in 1..nCPU(nC)
    /\ s \in [1..nCPU(nC) -> Int]
    /\ SumFunctionOnSet(s, 1..nCPU(nC)) = NumbersOfJobs
    /\ NoneBelowZero(s, nCPU(nC))
    /\ Sum(l) = SumFunctionOnSet(s, 1..(c - 1))
    /\ Len(l) <= c - 1

ListHasTheBlocks == phase = "compact" => AreListed(cpu, JobsForCpu, nBlockPerCPU)

\* The CPUs used have blocks and are no more than those of the first totSLAVES nodes.
AreUsed(l) ==
    /\ l \in Seq(Int \ {0})
    /\ Len(l) <= nCPU(nC)
    /\ ~IdleNode => (\A j \in 1..Len(l) : l[j] > 0) /\ Len(l) <= nCPU(totSLAVES)

UsedCpusHaveBlocks ==
    /\ phase \in {"compact", "dispatch", "done"} => AreUsed(nBlockPerCPU)
    /\ phase \in {"dispatch", "done"} => Sum(nBlockPerCPU) = NumbersOfJobs

\* What masterParallel tells the CPUs.
RangesAreThePartialSums ==
    phase = "done" =>
        ranges = [j \in 1..totCPU |->
                     [node |-> indPC(j), first |-> offset(j) + 1, last |-> nblck(j)]]

IInv ==
    /\ \E n \in 1..MaxNodes : Parallel \in [1..n -> Node]
    /\ fBlock \in FirstBlocks /\ nBlock \in fBlock..MaxBlock
    /\ phase \notin {"sort", "count", "error"} =>
          \A i \in 1..nC : Parallel[i].cpus % Parallel[i].threads = 0
    /\ SharesAreRight
    /\ SlowestFirst
    /\ PlanIsWhole
    /\ NothingGivenOut
    /\ CpusShareTheBlocks
    /\ ListHasTheBlocks
    /\ UsedCpusHaveBlocks
    /\ RangesAreThePartialSums

\* The number of nodes and of blocks.
LEMMA Cluster ==
  ASSUME IInv
  PROVE  /\ nC \in Nat \ {0} /\ Parallel \in [1..nC -> Node]
         /\ NumbersOfJobs \in Nat \ {0}
<1>1. PICK n \in 1..MaxNodes : Parallel \in [1..n -> Node]
  BY DEF IInv
<1>2. nC = n
  BY <1>1 DEF nC
<1>3. fBlock \in Nat \ {0} /\ nBlock \in fBlock..MaxBlock
  BY PositiveAssumption DEF IInv
<1> QED
  BY <1>1, <1>2, <1>3, NodesAssumption, BlocksAssumption DEF NumbersOfJobs

LEMMA InitIInv == Init => IInv
BY DEF Init, IInv, SharesAreRight, SlowestFirst, PlanIsWhole, Planned, NothingGivenOut,
   CpusShareTheBlocks, ListHasTheBlocks, UsedCpusHaveBlocks, RangesAreThePartialSums

\* Before the shares are final nothing has been given to the CPUs.
LEMMA EarlyIInv ==
  ASSUME IInv, phase \in {"sort", "count", "share", "trim"},
         phase' \in {"count", "share", "trim", "error"},
         UNCHANGED <<loops, nBlockPerCPU>>
  PROVE  /\ PlanIsWhole' /\ NothingGivenOut' /\ CpusShareTheBlocks'
         /\ ListHasTheBlocks' /\ UsedCpusHaveBlocks' /\ RangesAreThePartialSums'
BY DEF IInv, loops, PlanIsWhole, Planned, NothingGivenOut,
   CpusShareTheBlocks, ListHasTheBlocks, UsedCpusHaveBlocks, RangesAreThePartialSums

LEMMA SortNodesIInv == IInv /\ SortNodes => IInv'
<1> SUFFICES ASSUME IInv, SortNodes PROVE IInv'
  OBVIOUS
<1>1. PICK n \in 1..MaxNodes : Parallel \in [1..n -> Node]
  BY DEF IInv
<1>2. nC = n /\ n \in Nat
  BY <1>1, NodesAssumption DEF nC
<1>3. ASSUME NEW i \in 1..n
      PROVE  (CHOOSE k \in 1..nC : Cardinality({m \in 1..nC : Before(m, k)}) = i - 1) \in 1..n
  <2>1. \E k \in 1..nC : Cardinality({m \in 1..nC : Before(m, k)}) = i - 1
    BY <1>1, <1>2, PositionsAreTaken
  <2> QED
    BY <1>2, <2>1
<1>4. Parallel' \in [1..n -> Node]
  BY <1>1, <1>2, <1>3 DEF SortNodes
<1>5. /\ phase = "sort" /\ phase' = "count"
      /\ UNCHANGED <<fBlock, nBlock, loops, nBlockPerCPU>>
  BY DEF SortNodes
<1>6. SharesAreRight' /\ SlowestFirst'
  BY <1>5 DEF SharesAreRight, SlowestFirst, Planned
<1> QED
  BY <1>4, <1>5, <1>6, EarlyIInv DEF IInv

LEMMA CountCpusIInv == IInv /\ CountCpus => IInv'
<1> SUFFICES ASSUME IInv, CountCpus PROVE IInv'
  OBVIOUS
<1>1. /\ phase = "count" /\ phase' \in {"error", "share"}
      /\ UNCHANGED <<Parallel, fBlock, nBlock, loops, nBlockPerCPU>>
  BY DEF CountCpus, input
<1>2. phase' = "share" => \A i \in 1..nC : Parallel[i].cpus % Parallel[i].threads = 0
  BY DEF CountCpus
<1>3. SharesAreRight' /\ SlowestFirst'
  BY <1>1 DEF SharesAreRight, SlowestFirst, Planned
<1> QED
  BY <1>1, <1>2, <1>3, EarlyIInv DEF IInv, nC

LEMMA ShareOutIInv == IInv /\ ShareOut => IInv'
<1> SUFFICES ASSUME IInv, ShareOut PROVE IInv'
  OBVIOUS
<1> DEFINE w == [i \in 1..nC |-> CPUWeight(i)]
           J == NumbersOfJobs
<1>1. nC \in Nat \ {0} /\ Parallel \in [1..nC -> Node] /\ J \in Nat \ {0}
  BY Cluster
<1>2. /\ phase = "share" /\ phase' = "trim" /\ VerySlow' = nC
      /\ UNCHANGED <<Parallel, fBlock, nBlock, loops, nBlockPerCPU>>
  BY DEF ShareOut, input
<1>3. w \in [1..nC -> Nat \ {0}]
  <2> SUFFICES ASSUME NEW i \in 1..nC PROVE CPUWeight(i) \in Nat \ {0}
    OBVIOUS
  <2> DEFINE c == Parallel[i].cpus
             t == Parallel[i].threads
             v == Parallel[i].weight
  <2>1. c \in Nat \ {0} /\ t \in Nat \ {0} /\ v \in Nat \ {0} /\ c % t = 0
    BY <1>1, <1>2, PositiveAssumption DEF IInv, Node
  <2>2. CPUWeight(i) = v * (c \div t)
    BY DEF CPUWeight, nCPUoriginal
  <2> HIDE DEF c, t, v
  <2>3. c \div t \in Nat /\ c = (t * (c \div t)) + (c % t)
    BY <2>1, DivMod
  <2>4. c \div t # 0
    BY <2>1, <2>3
  <2>5. \A x \in Nat \ {0} : v * x \in Nat \ {0}
    BY <2>1
  <2> QED
    BY <2>2, <2>3, <2>4, <2>5
<1>4. PICK up : AreShares(JobsForNode', nC, w, J, up)
  BY DEF ShareOut, AreShares
<1> HIDE DEF w, J
<1>5. /\ JobsForNode' \in [1..nC -> Nat \ {0}]
      /\ Sum(JobsForNode') >= J
      /\ \A i, k \in 1..nC : w[i] >= w[k] => JobsForNode'[i] >= JobsForNode'[k]
  BY <1>1, <1>3, <1>4, SharesAreEnough, Zenon
<1>6. nC' = nC /\ NumbersOfJobs' = J /\ Sum(JobsForNode)' = Sum(JobsForNode')
  BY <1>2 DEF nC, NumbersOfJobs, J, Sum
<1>7. \A i \in 1..nC : CPUWeight(i)' = w[i]
  BY <1>2 DEF CPUWeight, nCPUoriginal, w
<1>8. SharesAreRight'
  BY <1>5, <1>6, <1>7 DEF SharesAreRight
<1>9. SlowestFirst'
  BY <1>1, <1>2, <1>5, <1>6 DEF SlowestFirst, Planned
<1> QED
  BY <1>2, <1>8, <1>9, EarlyIInv DEF IInv, nC

LEMMA TrimIInv == IInv /\ Trim => IInv'
<1> SUFFICES ASSUME IInv, Trim PROVE IInv'
  OBVIOUS
<1> DEFINE v == VerySlow
<1>1. nC \in Nat \ {0} /\ Parallel \in [1..nC -> Node] /\ NumbersOfJobs \in Nat \ {0}
  BY Cluster
<1>2. /\ phase = "trim" /\ phase' = "trim" /\ Sum(JobsForNode) > NumbersOfJobs
      /\ UNCHANGED <<Parallel, fBlock, nBlock, loops, nBlockPerCPU>>
  BY DEF Trim, TooMany, input
<1>3. /\ JobsForNode \in [1..nC -> Nat] /\ v \in 1..nC
      /\ \A k \in 1..nC : k > v => JobsForNode[k] = 0
      /\ \A k \in 1..nC : k < v => JobsForNode[k] # 0
  BY <1>2 DEF IInv, SharesAreRight, SlowestFirst
<1>4. /\ nC' = nC /\ NumbersOfJobs' = NumbersOfJobs
      /\ \A i \in 1..nC : CPUWeight(i)' = CPUWeight(i)
  BY <1>2 DEF nC, NumbersOfJobs, CPUWeight, nCPUoriginal
<1>5. /\ Sum(JobsForNode) \in Nat
      /\ Sum(JobsForNode) = 0 <=> \A s \in 1..nC : JobsForNode[s] = 0
  BY <1>1, <1>3, SumOfShares
<1>6. CASE JobsForNode[v] = 0
  <2>1. VerySlow' = v - 1 /\ JobsForNode' = JobsForNode
    BY <1>6 DEF Trim, TrimStep
  <2>2. v # 1
    <3>1. ASSUME v = 1 PROVE \A s \in 1..nC : JobsForNode[s] = 0
      BY <1>1, <1>3, <1>6, <3>1
    <3> QED
      BY <1>1, <1>2, <1>5, <3>1
  <2>3. SlowestFirst'
    BY <1>1, <1>2, <1>3, <1>4, <1>6, <2>1, <2>2 DEF SlowestFirst, Planned
  <2>4. SharesAreRight'
    BY <1>2, <1>4, <2>1 DEF IInv, SharesAreRight, Sum
  <2> QED
    BY <1>2, <2>3, <2>4, EarlyIInv DEF IInv, nC
<1>7. CASE JobsForNode[v] # 0
  <2>1. JobsForNode' = [JobsForNode EXCEPT ![v] = @ - 1] /\ VerySlow' = v
    BY <1>7 DEF Trim, TrimStep
  <2>2. JobsForNode' \in [1..nC -> Nat] /\ Sum(JobsForNode') = Sum(JobsForNode) - 1
    BY <1>1, <1>3, <1>7, <2>1, SumWithOneLess, Zenon
  <2>4. Sum(JobsForNode)' >= NumbersOfJobs'
    BY <1>1, <1>2, <1>4, <1>5, <2>2 DEF Sum
  <2>5. ASSUME NEW i \in 1..nC, NEW k \in 1..nC, i < k, CPUWeight(i) >= CPUWeight(k)
        PROVE  JobsForNode'[i] >= JobsForNode'[k]
    <3>1. JobsForNode[i] >= JobsForNode[k]
      BY <1>2, <2>5 DEF IInv, SharesAreRight
    <3>2. i = v => JobsForNode[k] = 0
      BY <1>3, <2>5
    <3> QED
      BY <1>3, <1>7, <2>1, <2>5, <3>1, <3>2
  <2>6. SharesAreRight'
    BY <1>4, <2>2, <2>4, <2>5 DEF SharesAreRight
  <2>7. SlowestFirst'
    BY <1>2, <1>3, <1>4, <2>1 DEF SlowestFirst, Planned
  <2> QED
    BY <1>2, <2>6, <2>7, EarlyIInv DEF IInv, nC
<1> QED
  BY <1>6, <1>7

-----------------------------------------------------------------------------
(* The CPUs of the nodes *)

\* The cumulated numbers of CPUs, as cumsum computes them.
LEMMA CpuCounts ==
  ASSUME IInv, phase \notin {"sort", "count", "error"}
  PROVE  /\ \A i \in 1..nC : nCPUoriginal(i) \in Nat \ {0}
         /\ nCPU(0) = 0 /\ \A i \in 0..nC : nCPU(i) \in Nat
         /\ \A i \in 1..nC : nCPU(i) = nCPU(i - 1) + nCPUoriginal(i)
         /\ \A i, k \in 0..nC : i <= k => nCPU(i) <= nCPU(k)
<1> DEFINE f(i) == [k \in 1..i |-> nCPUoriginal(k)]
<1>1. nC \in Nat \ {0} /\ Parallel \in [1..nC -> Node]
  BY Cluster
<1>2. ASSUME NEW i \in 1..nC PROVE nCPUoriginal(i) \in Nat \ {0}
  <2> DEFINE c == Parallel[i].cpus
             t == Parallel[i].threads
  <2>1. c \in Nat \ {0} /\ t \in Nat \ {0} /\ c % t = 0
    BY <1>1, PositiveAssumption DEF IInv, Node
  <2>2. nCPUoriginal(i) = c \div t
    BY DEF nCPUoriginal
  <2> HIDE DEF c, t
  <2>3. c \div t \in Nat /\ c = (t * (c \div t)) + (c % t)
    BY <2>1, DivMod
  <2> QED
    BY <2>1, <2>2, <2>3
<1>3. ASSUME NEW i \in 0..nC
      PROVE  nCPU(i) = SumFunctionOnSet(f(i), 1..i) /\ IsFiniteSet(1..i) /\ nCPU(i) \in Nat
  <2>1. nCPU(i) = SumFunctionOnSet(f(i), 1..i)
    BY DEF nCPU, Sum, SumFunction
  <2>2. IsFiniteSet(1..i)
    BY <1>1, FS_Interval
  <2>3. \A k \in 1..i : f(i)[k] \in Nat
    BY <1>1, <1>2
  <2> HIDE DEF f
  <2> QED
    BY <2>1, <2>2, <2>3, SumOfNaturals
<1>4. nCPU(0) = 0
  <2>1. 1..0 = {} /\ 0 \in 0..nC
    BY <1>1
  <2> QED
    BY <1>3, <2>1, SumOfNone
<1>5. ASSUME NEW i \in 1..nC PROVE nCPU(i) = nCPU(i - 1) + nCPUoriginal(i)
  <2>1. i - 1 \in 0..nC /\ i - 1 \in Nat /\ i \in 0..nC /\ (i - 1) + 1 = i
    BY <1>1
  <2>2. IsAppended(f(i), f(i - 1), i - 1) /\ f(i)[i] = nCPUoriginal(i)
    BY <1>1, <1>2, <2>1 DEF IsAppended
  <2> HIDE DEF f
  <2>3. SumFunctionOnSet(f(i), 1..i) = SumFunctionOnSet(f(i - 1), 1..(i - 1)) + f(i)[i]
    BY <2>1, <2>2, SumOfAppended
  <2> QED
    BY <1>3, <2>1, <2>2, <2>3
<1>6. ASSUME NEW i \in 0..nC, NEW k \in 0..nC, i <= k PROVE nCPU(i) <= nCPU(k)
  <2> DEFINE X == {d \in Nat : i + d <= nC => nCPU(i) <= nCPU(i + d)}
  <2>1. 0 \in X
    <3>1. i + 0 = i
      BY <1>1
    <3>2. nCPU(i) \in Nat
      BY <1>3
    <3> QED
      BY <3>1, <3>2
  <2>2. ASSUME NEW d \in Nat, d \in X PROVE d + 1 \in X
    <3> SUFFICES ASSUME i + (d + 1) <= nC PROVE nCPU(i) <= nCPU(i + (d + 1))
      OBVIOUS
    <3>1. i + (d + 1) \in 1..nC /\ i + d \in 0..nC /\ (i + (d + 1)) - 1 = i + d
      BY <1>1
    <3>2. nCPU(i + (d + 1)) = nCPU(i + d) + nCPUoriginal(i + (d + 1))
      BY <1>5, <3>1
    <3>3. nCPU(i) <= nCPU(i + d)
      BY <1>1, <2>2
    <3>4. nCPU(i) \in Nat /\ nCPU(i + d) \in Nat /\ nCPUoriginal(i + (d + 1)) \in Nat
      BY <1>2, <1>3, <3>1
    <3> QED
      BY <3>2, <3>3, <3>4
  <2> HIDE DEF X
  <2>3. k - i \in Nat /\ i + (k - i) = k /\ i + (k - i) <= nC
    BY <1>1, <1>6
  <2>4. k - i \in X
    BY <2>1, <2>2, <2>3, NatInductionOnSet
  <2> QED
    BY <2>3, <2>4 DEF X
<1> QED
  BY <1>2, <1>3, <1>4, <1>5, <1>6

\* The nodes with blocks are the first totSLAVES nodes.
LEMMA NodesWithBlocks ==
  ASSUME IInv, Planned
  PROVE  totSLAVES \in 1..nC /\ \A i \in 1..nC : i <= totSLAVES <=> JobsForNode[i] # 0
<1> DEFINE N(k) == {i \in 1..k : JobsForNode[i] # 0}
           X == {k \in Nat : k <= nC => \E m \in 0..k : N(k) = 1..m}
<1>1. nC \in Nat \ {0} /\ NumbersOfJobs \in Nat \ {0}
  BY Cluster
<1>2. /\ JobsForNode \in [1..nC -> Nat] /\ Sum(JobsForNode) = NumbersOfJobs
      /\ \A i, k \in 1..nC : i < k /\ JobsForNode[i] = 0 => JobsForNode[k] = 0
  BY DEF IInv, SharesAreRight, SlowestFirst, PlanIsWhole, Planned
<1>3. 0 \in X
  <2>1. N(0) = 1..0
    OBVIOUS
  <2> QED
    BY <2>1
<1>4. ASSUME NEW k \in Nat, k \in X PROVE k + 1 \in X
  <2> SUFFICES ASSUME k + 1 <= nC PROVE \E m \in 0..(k + 1) : N(k + 1) = 1..m
    OBVIOUS
  <2>1. CASE JobsForNode[k + 1] = 0
    <3>1. N(k + 1) = N(k)
      BY <2>1
    <3> QED
      BY <1>1, <1>4, <3>1
  <2>2. CASE JobsForNode[k + 1] # 0
    <3>1. N(k + 1) = 1..(k + 1)
      BY <1>1, <1>2, <2>2
    <3> QED
      BY <3>1
  <2> QED
    BY <2>1, <2>2
<1>5. nC \in X
  <2> HIDE DEF X
  <2> QED
    BY <1>1, <1>3, <1>4, NatInductionOnSet
<1>6. PICK m \in 0..nC : N(nC) = 1..m
  BY <1>1, <1>5
<1>7. totSLAVES = m
  <2>1. totSLAVES = Cardinality(1..m)
    BY <1>2, <1>6 DEF totSLAVES
  <2> QED
    BY <1>1, <2>1, FS_Interval
<1>8. m # 0
  <2>1. ASSUME m = 0 PROVE \A i \in 1..nC : JobsForNode[i] = 0
    BY <1>6, <2>1
  <2> QED
    BY <1>1, <1>2, <2>1, SumOfShares
<1> QED
  BY <1>1, <1>6, <1>7, <1>8

-----------------------------------------------------------------------------
(* The blocks of a node are shared by its CPUs *)

\* n CPUs share some blocks: the first of them got q each, the last one gets what
\* is left.
IsLeft(x, jobs, n, q, served) ==
    /\ jobs \in Nat /\ n \in Nat \ {0} /\ served \in 1..n
    /\ q = IF jobs < n THEN 1 ELSE jobs \div n
    /\ served = n \/ q * served >= jobs
    /\ served > 1 => q * served - q < jobs
    /\ jobs # 0 \/ n = 1
    /\ x = (IF served = n THEN q ELSE 0) + (jobs - q * served)

LEMMA LastCpu ==
  ASSUME NEW x, NEW jobs, NEW n, NEW q, NEW served, IsLeft(x, jobs, n, q, served)
  PROVE  x \in Nat /\ (jobs = 0 => x = 0)
<1> USE DEF IsLeft
<1>1. CASE jobs < n
  BY <1>1
<1>2. CASE jobs >= n
  <2>0. q = jobs \div n
    BY <1>2
  <2>1. q \in Nat /\ jobs = (n * q) + (jobs % n) /\ jobs % n \in 0..(n - 1)
    BY <2>0, DivMod
  <2>2. q # 0
    BY <1>2, <2>1
  <2>3. q * served = served * q /\ n * q \in Nat /\ served * q \in Nat
    BY <2>1
  <2>4. ASSUME served < n PROVE FALSE
    <3>1. served * q + q <= n * q
      <4>1. (served + 1) * q <= n * q
        BY <2>1, <2>4
      <4>2. (served + 1) * q = served * q + q
        BY <2>1
      <4> QED
        BY <4>1, <4>2
    <3> QED
      BY <2>1, <2>2, <2>3, <2>4, <3>1
  <2> QED
    BY <1>2, <2>1, <2>3, <2>4
<1> QED
  BY <1>1, <1>2

\* A CPU gets at least one block, at first.
LEMMA Assigned ==
  ASSUME NEW jobs \in Nat, NEW n \in Nat \ {0}
  PROVE  (IF jobs < n THEN 1 ELSE jobs \div n) \in Nat \ {0}
<1>1. CASE jobs >= n
  <2>1. jobs \div n \in Nat /\ jobs = (n * (jobs \div n)) + (jobs % n) /\ jobs % n \in 0..(n - 1)
    BY DivMod
  <2> QED
    BY <1>1, <2>1
<1> QED
  BY <1>1

-----------------------------------------------------------------------------
(* The loops over the CPUs *)

\* What the loops do not change.
LEMMA SameCluster ==
  ASSUME UNCHANGED <<Parallel, fBlock, nBlock, JobsForNode>>
  PROVE  /\ nC' = nC /\ NumbersOfJobs' = NumbersOfJobs /\ totSLAVES' = totSLAVES
         /\ Sum(JobsForNode)' = Sum(JobsForNode)
         /\ \A i : nCPU(i)' = nCPU(i)
         /\ \A i : nCPUoriginal(i)' = nCPUoriginal(i)
         /\ IdleNode' = IdleNode
BY DEF nC, NumbersOfJobs, totSLAVES, Sum, nCPU, nCPUoriginal, IdleNode

\* The parts of the invariant about the shares are kept by the steps that follow.
LEMMA SharesStay ==
  ASSUME IInv, UNCHANGED <<Parallel, fBlock, nBlock, JobsForNode>>, Planned, Planned'
  PROVE  /\ \E n \in 1..MaxNodes : Parallel' \in [1..n -> Node]
         /\ fBlock' \in FirstBlocks /\ nBlock' \in fBlock'..MaxBlock
         /\ \A i \in 1..nC' : Parallel'[i].cpus % Parallel'[i].threads = 0
         /\ SharesAreRight' /\ SlowestFirst' /\ PlanIsWhole'
<1>1. nC' = nC /\ NumbersOfJobs' = NumbersOfJobs /\ Sum(JobsForNode)' = Sum(JobsForNode)
  BY SameCluster
<1>2. \A i : CPUWeight(i)' = CPUWeight(i)
  BY DEF CPUWeight, nCPUoriginal
<1>3. SharesAreRight'
  BY <1>1, <1>2 DEF IInv, SharesAreRight, Planned
<1>4. SlowestFirst' /\ PlanIsWhole'
  BY <1>1 DEF IInv, SlowestFirst, PlanIsWhole, Planned
<1> QED
  BY <1>1, <1>3, <1>4 DEF IInv, Planned

\* The same facts after a step.
LEMMA NextFacts ==
  ASSUME UNCHANGED <<Parallel, fBlock, nBlock, JobsForNode>>
  PROVE  /\ AreShared(node', cpu', ChekOverFlow', JobsForCpu')
               => AreShared(node, cpu, ChekOverFlow, JobsForCpu)'
         /\ AreListed(cpu', JobsForCpu', nBlockPerCPU') => AreListed(cpu, JobsForCpu, nBlockPerCPU)'
         /\ AreUsed(nBlockPerCPU') => AreUsed(nBlockPerCPU)'
<1>1. /\ nC' = nC /\ NumbersOfJobs' = NumbersOfJobs /\ totSLAVES' = totSLAVES
      /\ \A i : nCPU(i)' = nCPU(i) /\ IdleNode' = IdleNode
  BY SameCluster
<1>2. \A i : ShareOfCpu(i)' = ShareOfCpu(i)
  BY SameCluster DEF ShareOfCpu
<1>3. \A s, last : NoneBelowZero(s, last)' = NoneBelowZero(s, last)
  BY <1>1 DEF NoneBelowZero
<1>4. AreShared(node', cpu', ChekOverFlow', JobsForCpu')
         => AreShared(node, cpu, ChekOverFlow, JobsForCpu)'
  BY <1>1, <1>2, <1>3 DEF AreShared
<1>5. AreListed(cpu', JobsForCpu', nBlockPerCPU') => AreListed(cpu, JobsForCpu, nBlockPerCPU)'
  BY <1>1, <1>3 DEF AreListed, Sum
<1>6. AreUsed(nBlockPerCPU') => AreUsed(nBlockPerCPU)'
  BY <1>1 DEF AreUsed
<1> QED
  BY <1>4, <1>5, <1>6

\* The sum over the first nodes.
LEMMA SumOfFirst ==
  ASSUME NEW n \in Nat, NEW s \in [1..n -> Int], NEW i \in 1..n
  PROVE  /\ SumFunctionOnSet(s, 1..i) = SumFunctionOnSet(s, 1..(i - 1)) + s[i]
         /\ SumFunctionOnSet(s, 1..(i - 1)) \in Int
<1>1. i - 1 \in Nat /\ (i - 1) + 1 = i /\ IsAppended(s, s, i - 1)
  BY DEF IsAppended
<1> QED
  BY <1>1, SumOfAppended

\* The shares are final: the loops begin at the first CPU.
LEMMA TrimEndIInv == IInv /\ TrimEnd => IInv'
<1> SUFFICES ASSUME IInv, TrimEnd PROVE IInv'
  OBVIOUS
<1> DEFINE zeros == [c \in 1..nCPU(nC) |-> 0]
<1>1. /\ phase = "trim" /\ phase' = "cpus" /\ UNCHANGED <<Parallel, fBlock, nBlock, JobsForNode>>
      /\ JobsForCpu' = zeros /\ node' = 1 /\ cpu' = 1 /\ ChekOverFlow' = 0 /\ nBlockPerCPU' = <<>>
      /\ ~ (Sum(JobsForNode) > NumbersOfJobs)
  BY DEF TrimEnd, TooMany, input, loops, IInv, NothingGivenOut
<1>2. /\ JobsForNode \in [1..nC -> Nat] /\ nC \in Nat \ {0} /\ NumbersOfJobs \in Int
      /\ Sum(JobsForNode) >= NumbersOfJobs
  BY <1>1, Cluster DEF IInv, SharesAreRight
<1>3. Sum(JobsForNode) = NumbersOfJobs
  BY <1>1, <1>2, SumOfShares
<1>4. /\ nC' = nC /\ NumbersOfJobs' = NumbersOfJobs /\ Sum(JobsForNode)' = Sum(JobsForNode)
      /\ \A i : CPUWeight(i)' = CPUWeight(i)
  BY <1>1, SameCluster DEF CPUWeight, nCPUoriginal
<1>5. SharesAreRight'
  BY <1>1, <1>4 DEF IInv, SharesAreRight
<1>6. SlowestFirst'
  BY <1>1, <1>2, <1>4 DEF IInv, SlowestFirst, Planned
<1>7. AreShared(1, 1, 0, zeros)
  <2>1. /\ nCPU(0) = 0 /\ nCPU(nC) \in Nat /\ nCPU(1) \in Nat
        /\ nCPUoriginal(1) \in Nat \ {0} /\ JobsForNode[1] \in Nat
    BY <1>1, <1>2, CpuCounts
  <2>2. ShareOfCpu(1) \in Nat
    BY <2>1, Assigned DEF ShareOfCpu
  <2>3. SumFunctionOnSet(zeros, 1..nCPU(nC)) = 0
    <3>1. IsFiniteSet(1..nCPU(nC)) /\ \A s \in 1..nCPU(nC) : zeros[s] = 0 /\ zeros[s] \in Nat
      BY <2>1, FS_Interval
    <3> HIDE DEF zeros
    <3> QED
      BY <3>1, SumOfNaturals
  <2>4. SumFunctionOnSet(JobsForNode, 1..(1 - 1)) = 0
    <3>1. 1..(1 - 1) = {}
      OBVIOUS
    <3> QED
      BY <3>1, SumOfNone
  <2>5. zeros \in [1..nCPU(nC) -> Int] /\ \A c \in 1..nCPU(nC) : zeros[c] = 0
    OBVIOUS
  <2> HIDE DEF zeros
  <2>6. NoneBelowZero(zeros, nCPU(1 - 1))
    BY <2>5 DEF NoneBelowZero
  <2> QED
    BY <1>2, <2>1, <2>2, <2>3, <2>4, <2>5, <2>6 DEF AreShared
<1>8. CpusShareTheBlocks'
  BY <1>1, <1>7, NextFacts DEF CpusShareTheBlocks
<1> QED
  BY <1>1, <1>3, <1>4, <1>5, <1>6, <1>8 DEF IInv, PlanIsWhole, NothingGivenOut,
     ListHasTheBlocks,
     UsedCpusHaveBlocks, RangesAreThePartialSums

\* A CPU of the node gets its blocks.
LEMMA AssignCpuIInv == IInv /\ AssignCpu => IInv'
<1> SUFFICES ASSUME IInv, AssignCpu PROVE IInv'
  OBVIOUS
<1> DEFINE q == ShareOfCpu(node)
           base == nCPU(node - 1)
           T == nCPU(nC)
           s == JobsForCpu
           r == [s EXCEPT ![cpu] = q]
<1>1. /\ phase = "cpus" /\ phase' = "cpus" /\ Planned
      /\ UNCHANGED <<Parallel, fBlock, nBlock, JobsForNode, node, nBlockPerCPU>>
      /\ JobsForCpu' = r /\ ChekOverFlow' = ChekOverFlow + q /\ cpu' = cpu + 1
  BY DEF AssignCpu, JobAssignedCpu, ShareOfCpu, input, Planned
<1>2. cpu = base + 1 \/ (cpu <= nCPU(node) /\ ChekOverFlow < JobsForNode[node])
  BY DEF AssignCpu, MoreCpus, RelativePosition
<1>3. AreShared(node, cpu, ChekOverFlow, s)
  BY <1>1 DEF IInv, CpusShareTheBlocks
<1>4. /\ JobsForNode \in [1..nC -> Nat] /\ nC \in Nat \ {0} /\ node \in 1..nC
  BY <1>1, <1>3, Cluster DEF IInv, SharesAreRight, AreShared
<1>5. /\ base \in Nat /\ nCPUoriginal(node) \in Nat \ {0} /\ T \in Nat
      /\ nCPU(node) = base + nCPUoriginal(node) /\ nCPU(node) <= T
  BY <1>1, <1>4, CpuCounts
<1>6. q \in Nat \ {0}
  BY <1>4, <1>5, Assigned DEF ShareOfCpu
<1> HIDE DEF q, base, T
<1>7. /\ cpu \in (base + 1)..(nCPU(node) + 1)
      /\ ChekOverFlow = q * (cpu - (base + 1))
      /\ s \in [1..T -> Int]
      /\ \A k \in (base + 1)..T : s[k] = IF k < cpu THEN q ELSE 0
      /\ SumFunctionOnSet(s, 1..T) = SumFunctionOnSet(JobsForNode, 1..(node - 1)) + ChekOverFlow
      /\ NoneBelowZero(s, base)
  BY <1>3 DEF AreShared, q, base, T
<1>8. cpu \in (base + 1)..nCPU(node) /\ cpu \in 1..T /\ s[cpu] = 0
  BY <1>2, <1>5, <1>7
<1>9. SumFunctionOnSet(r, 1..T) = SumFunctionOnSet(s, 1..T) + q
  <2>1. IsAssigned(r, s, T, cpu, q)
    BY <1>5, <1>6, <1>7, <1>8 DEF IsAssigned
  <2> HIDE DEF r
  <2>2. SumFunctionOnSet(r, 1..T) = SumFunctionOnSet(s, 1..T) + (q - s[cpu])
    BY <1>5, <2>1, SumOfAssigned
  <2> QED
    BY <1>6, <1>8, <2>2
<1>10. SumFunctionOnSet(JobsForNode, 1..(node - 1)) \in Int
  <2>1. JobsForNode \in [1..nC -> Int]
    BY <1>4
  <2> QED
    BY <1>4, <2>1, SumOfFirst
<1>11. /\ r \in [1..T -> Int]
       /\ \A k \in (base + 1)..T : r[k] = IF k < cpu + 1 THEN q ELSE 0
  BY <1>6, <1>7, <1>8
<1>12. NoneBelowZero(r, base)
  BY <1>5, <1>6, <1>7, <1>8 DEF NoneBelowZero, T
<1>13. ChekOverFlow + q = q * ((cpu + 1) - (base + 1)) /\ ChekOverFlow \in Int
  BY <1>5, <1>6, <1>7
<1>14. AreShared(node, cpu + 1, ChekOverFlow + q, r)
  <2>1. cpu + 1 \in (base + 1)..(nCPU(node) + 1)
    BY <1>5, <1>8
  <2>2. cpu + 1 > base + 2 => (ChekOverFlow + q) - q < JobsForNode[node]
    BY <1>2, <1>5, <1>6, <1>8, <1>13
  <2>3. SumFunctionOnSet(r, 1..T)
           = SumFunctionOnSet(JobsForNode, 1..(node - 1)) + (ChekOverFlow + q)
    BY <1>6, <1>7, <1>9, <1>10, <1>13
  <2> HIDE DEF r, s
  <2> QED
    BY <1>4, <1>11, <1>12, <1>13, <2>1, <2>2, <2>3 DEF AreShared, q, base, T
<1>15. CpusShareTheBlocks'
  BY <1>1, <1>14, NextFacts DEF CpusShareTheBlocks
<1> QED
  BY <1>1, <1>15, SharesStay DEF Planned, IInv, NothingGivenOut, ListHasTheBlocks,
     UsedCpusHaveBlocks,
     RangesAreThePartialSums

\* With the correction of its last CPU a node has given out its blocks.
LEMMA NodeCorrected ==
  ASSUME IInv, phase = "cpus", ~MoreCpus, NEW r,
         r = [JobsForCpu EXCEPT ![nCPU(node)] = @ + (JobsForNode[node] - ChekOverFlow)]
  PROVE  /\ node \in 1..nC
         /\ r \in [1..nCPU(nC) -> Int]
         /\ SumFunctionOnSet(r, 1..nCPU(nC)) = SumFunctionOnSet(JobsForNode, 1..node)
         /\ NoneBelowZero(r, nCPU(node))
         /\ \A k \in (nCPU(node) + 1)..nCPU(nC) : r[k] = 0
<1> DEFINE q == ShareOfCpu(node)
           base == nCPU(node - 1)
           T == nCPU(nC)
           s == JobsForCpu
           n == nCPUoriginal(node)
           last == nCPU(node)
           jobs == JobsForNode[node]
           served == cpu - (base + 1)
           v == s[last] + (jobs - ChekOverFlow)
<1>1. cpu # base + 1 /\ ~ (cpu <= last /\ ChekOverFlow < jobs)
  BY DEF MoreCpus, RelativePosition
<1>2. Planned /\ AreShared(node, cpu, ChekOverFlow, s)
  BY DEF IInv, CpusShareTheBlocks, Planned
<1>3. /\ JobsForNode \in [1..nC -> Nat] /\ nC \in Nat \ {0} /\ node \in 1..nC /\ jobs \in Nat
  BY <1>2, Cluster DEF IInv, SharesAreRight, AreShared
<1>4. base \in Nat /\ n \in Nat \ {0} /\ T \in Nat /\ last = base + n /\ last <= T
  BY <1>3, CpuCounts
<1>5. q \in Nat \ {0} /\ q = (IF jobs < n THEN 1 ELSE jobs \div n)
  BY <1>3, <1>4, Assigned DEF ShareOfCpu
<1>6. totSLAVES \in 1..nC /\ (node <= totSLAVES <=> jobs # 0)
  BY <1>2, <1>3, NodesWithBlocks
<1>7. nCPU(totSLAVES) \in Nat /\ (node <= totSLAVES => last <= nCPU(totSLAVES))
  <2>1. totSLAVES \in 0..nC /\ node \in 0..nC
    BY <1>3, <1>6
  <2> QED
    BY <2>1, CpuCounts
<1>8. IdleNode \/ jobs # 0 \/ n = 1
  BY <1>3, <1>4 DEF IdleNode
<1>9. /\ cpu \in (base + 1)..(last + 1)
      /\ ChekOverFlow = q * (cpu - (base + 1))
      /\ cpu > base + 2 => ChekOverFlow - q < jobs
      /\ s \in [1..T -> Int]
      /\ \A k \in (base + 1)..T : s[k] = IF k < cpu THEN q ELSE 0
      /\ SumFunctionOnSet(s, 1..T) = SumFunctionOnSet(JobsForNode, 1..(node - 1)) + ChekOverFlow
      /\ NoneBelowZero(s, base)
  BY <1>2 DEF AreShared
<1>10. /\ r = [s EXCEPT ![last] = v]
  OBVIOUS
<1> HIDE DEF q, base, T, n, last, jobs
<1>11. served \in 1..n /\ ChekOverFlow = q * served /\ ChekOverFlow \in Int
  BY <1>1, <1>4, <1>5, <1>9
<1>12. served = n \/ q * served >= jobs
  BY <1>1, <1>3, <1>4, <1>9, <1>11
<1>13. served > 1 => q * served - q < jobs
  BY <1>4, <1>9, <1>11
<1>14. last \in 1..T /\ s[last] = (IF served = n THEN q ELSE 0)
  BY <1>4, <1>9, <1>11
<1> HIDE DEF served
<1>15. jobs # 0 \/ n = 1 => v \in Nat /\ (jobs = 0 => v = 0)
  <2>1. v = (IF served = n THEN q ELSE 0) + (jobs - q * served)
    BY <1>11, <1>14
  <2> HIDE DEF v
  <2>2. jobs # 0 \/ n = 1 => IsLeft(v, jobs, n, q, served)
    BY <1>3, <1>4, <1>5, <1>11, <1>12, <1>13, <2>1 DEF IsLeft
  <2>3. IsLeft(v, jobs, n, q, served) => v \in Nat /\ (jobs = 0 => v = 0)
    BY LastCpu, Zenon
  <2> QED
    BY <2>2, <2>3
<1>16. v \in Int
  <2>1. s[last] \in Int
    BY <1>9, <1>14
  <2> QED
    BY <1>3, <1>11, <2>1
<1>17. /\ r \in [1..T -> Int] /\ r[last] = v /\ \A k \in (1..T) \ {last} : r[k] = s[k]
  BY <1>9, <1>10, <1>14, <1>16
<1>18. SumFunctionOnSet(r, 1..T) = SumFunctionOnSet(JobsForNode, 1..node)
  <2>1. IsAssigned(r, s, T, last, v)
    BY <1>9, <1>14, <1>16, <1>17 DEF IsAssigned
  <2>2. SumFunctionOnSet(r, 1..T) = SumFunctionOnSet(s, 1..T) + (v - s[last])
    BY <1>4, <2>1, SumOfAssigned
  <2>3. /\ SumFunctionOnSet(JobsForNode, 1..node)
              = SumFunctionOnSet(JobsForNode, 1..(node - 1)) + jobs
        /\ SumFunctionOnSet(JobsForNode, 1..(node - 1)) \in Int
    <3>1. JobsForNode \in [1..nC -> Int]
      BY <1>3
    <3> QED
      BY <1>3, <3>1, SumOfFirst DEF jobs
  <2>4. s[last] \in Int
    BY <1>9, <1>14
  <2>5. v - s[last] = jobs - ChekOverFlow
    BY <1>3, <1>11, <2>4
  <2>6. SumFunctionOnSet(s, 1..T) = SumFunctionOnSet(JobsForNode, 1..(node - 1)) + ChekOverFlow
    BY <1>9
  <2> QED
    BY <1>3, <1>11, <2>2, <2>3, <2>5, <2>6
<1> HIDE DEF v
<1>19. NoneBelowZero(r, last)
  <2> SUFFICES ASSUME ~IdleNode, NEW c \in 1..T
               PROVE  r[c] >= 0 /\ (c > nCPU(totSLAVES) /\ c <= last => r[c] = 0)
    BY DEF NoneBelowZero, T
  <2>1. v \in Nat /\ (jobs = 0 => v = 0)
    BY <1>8, <1>15
  <2>2. s[c] >= 0 /\ (c > nCPU(totSLAVES) /\ c <= base => s[c] = 0)
    BY <1>9 DEF NoneBelowZero, T
  <2>3. CASE c = last
    BY <1>4, <1>6, <1>7, <1>17, <2>1, <2>3
  <2>4. CASE c # last
    <3>1. r[c] = s[c]
      BY <1>17, <2>4
    <3>2. ASSUME c > nCPU(totSLAVES), c <= last, c > base PROVE FALSE
      <4>1. jobs = 0
        BY <1>4, <1>6, <1>7, <3>2
      <4>2. n = 1
        BY <1>8, <4>1
      <4> QED
        BY <1>4, <2>4, <3>2, <4>2
    <3> QED
      BY <1>4, <2>2, <3>1, <3>2
  <2> QED
    BY <2>3, <2>4
<1>20. \A k \in (last + 1)..T : r[k] = 0
  BY <1>4, <1>9, <1>17
<1> QED
  BY <1>3, <1>17, <1>18, <1>19, <1>20 DEF T, last

LEMMA CorrectNodeIInv == IInv /\ CorrectNode => IInv'
<1> SUFFICES ASSUME IInv, CorrectNode PROVE IInv'
  OBVIOUS
<1> DEFINE r == JobsForCpu'
           T == nCPU(nC)
<1>1. /\ phase = "cpus" /\ ~MoreCpus /\ Planned /\ ChekOverFlow' = 0
      /\ UNCHANGED <<Parallel, fBlock, nBlock, JobsForNode, nBlockPerCPU>>
      /\ r = [JobsForCpu EXCEPT ![nCPU(node)] = @ + (JobsForNode[node] - ChekOverFlow)]
      /\ IF node < nC THEN node' = node + 1 /\ cpu' = nCPU(node) + 1 /\ phase' = "cpus"
                      ELSE phase' = "compact" /\ cpu' = 1 /\ UNCHANGED node
  BY DEF CorrectNode, input, Planned
<1>2. nBlockPerCPU = <<>>
  BY <1>1 DEF IInv, NothingGivenOut
<1>3. /\ node \in 1..nC /\ r \in [1..T -> Int]
      /\ SumFunctionOnSet(r, 1..T) = SumFunctionOnSet(JobsForNode, 1..node)
      /\ NoneBelowZero(r, nCPU(node))
      /\ \A k \in (nCPU(node) + 1)..T : r[k] = 0
  BY <1>1, NodeCorrected
<1>4. /\ JobsForNode \in [1..nC -> Nat] /\ nC \in Nat \ {0}
      /\ Sum(JobsForNode) = NumbersOfJobs
  BY <1>1, Cluster DEF IInv, SharesAreRight, PlanIsWhole
<1>5. JobsForNode \in [1..nC -> Int]
  BY <1>4
<1>6. CASE node < nC
  <2> DEFINE i == node + 1
  <2>1. i \in 1..nC /\ i - 1 = node
    BY <1>3, <1>4, <1>6
  <2>2. /\ nCPU(node) \in Nat /\ nCPU(i) = nCPU(node) + nCPUoriginal(i) /\ nCPU(i) <= T
        /\ nCPUoriginal(i) \in Nat \ {0}
    BY <1>1, <1>3, <1>4, <2>1, CpuCounts
  <2>3. ShareOfCpu(i) \in Nat
    BY <1>4, <2>1, <2>2, Assigned DEF ShareOfCpu
  <2>4. SumFunctionOnSet(JobsForNode, 1..node) \in Int
    BY <1>4, <1>5, <2>1, SumOfFirst
  <2> HIDE DEF i
  <2>5. AreShared(i, nCPU(node) + 1, 0, r)
    BY <1>3, <2>1, <2>2, <2>3, <2>4 DEF AreShared
  <2>6. CpusShareTheBlocks'
    BY <1>1, <1>6, <2>5, NextFacts DEF CpusShareTheBlocks, i
  <2> QED
    BY <1>1, <1>2, <1>6, <2>6, SharesStay DEF Planned, IInv, NothingGivenOut, ListHasTheBlocks,
       UsedCpusHaveBlocks, RangesAreThePartialSums
<1>7. CASE ~ (node < nC)
  <2>1. node = nC
    BY <1>3, <1>4, <1>7
  <2>2. T \in Nat \ {0}
    <3>1. nC \in 1..nC /\ nC - 1 \in 0..nC
      BY <1>4
    <3>2. nCPU(nC) = nCPU(nC - 1) + nCPUoriginal(nC) /\ nCPU(nC - 1) \in Nat
          /\ nCPUoriginal(nC) \in Nat \ {0}
      BY <1>1, <3>1, CpuCounts
    <3> QED
      BY <3>2
  <2>3. SumFunctionOnSet(r, 1..T) = NumbersOfJobs
    BY <1>3, <1>4, <2>1, SumOfShares
  <2>4. Sum(<<>>) = SumFunctionOnSet(r, 1..(1 - 1))
    <3>1. 1..(1 - 1) = {} /\ DOMAIN <<>> = {}
      OBVIOUS
    <3> QED
      BY <3>1, SumOfNone DEF Sum, SumFunction
  <2>5. AreListed(1, r, <<>>)
    BY <1>3, <2>1, <2>2, <2>3, <2>4 DEF AreListed
  <2>6. AreUsed(<<>>)
    <3>1. nCPU(totSLAVES) \in Nat
      <4>1. totSLAVES \in 0..nC
        BY <1>1, <1>4, NodesWithBlocks
      <4> QED
        BY <1>1, <4>1, CpuCounts
    <3> QED
      BY <2>2, <3>1 DEF AreUsed, T
  <2>7. ListHasTheBlocks' /\ UsedCpusHaveBlocks'
    BY <1>1, <1>2, <1>7, <2>5, <2>6, NextFacts DEF ListHasTheBlocks, UsedCpusHaveBlocks
  <2> QED
    BY <1>1, <1>7, <2>7, SharesStay DEF Planned, IInv, NothingGivenOut, CpusShareTheBlocks,
       RangesAreThePartialSums
<1> QED
  BY <1>6, <1>7

-----------------------------------------------------------------------------
(* The list of the CPUs used *)

LEMMA SumOfList ==
  ASSUME NEW l \in Seq(Int)
  PROVE  /\ Sum(l) = SumFunctionOnSet(l, 1..Len(l)) /\ Sum(l) \in Int
         /\ \A x \in Int : Sum(Append(l, x)) = Sum(l) + x
<1>1. /\ Len(l) \in Nat /\ DOMAIN l = 1..Len(l) /\ l \in [1..Len(l) -> Int]
  OBVIOUS
<1>2. Sum(l) = SumFunctionOnSet(l, 1..Len(l))
  BY <1>1 DEF Sum, SumFunction
<1>3. Sum(l) \in Int
  <2>1. IsFiniteSet(1..Len(l)) /\ \A j \in 1..Len(l) : l[j] \in Int
    BY <1>1, FS_Interval
  <2> QED
    BY <1>2, <2>1, SumWithout
<1>4. ASSUME NEW x \in Int PROVE Sum(Append(l, x)) = Sum(l) + x
  <2> DEFINE m == Append(l, x)
  <2>1. DOMAIN m = 1..(Len(l) + 1) /\ m[Len(l) + 1] = x /\ IsAppended(m, l, Len(l))
    BY <1>1 DEF IsAppended
  <2> HIDE DEF m
  <2>2. SumFunctionOnSet(m, 1..(Len(l) + 1)) = SumFunctionOnSet(l, 1..Len(l)) + m[Len(l) + 1]
    BY <1>1, <2>1, SumOfAppended
  <2> QED
    BY <1>2, <2>1, <2>2 DEF Sum, SumFunction, m
<1> QED
  BY <1>2, <1>3, <1>4

\* The blocks of one more CPU are listed, if it has any.
LEMMA CompactIInv == IInv /\ Compact => IInv'
<1> SUFFICES ASSUME IInv, Compact PROVE IInv'
  OBVIOUS
<1> DEFINE T == nCPU(nC)
           s == JobsForCpu
           l == nBlockPerCPU
           k == nBlockPerCPU'
<1>1. /\ phase = "compact" /\ Planned /\ cpu' = cpu + 1
      /\ UNCHANGED <<Parallel, fBlock, nBlock, JobsForNode, node, ChekOverFlow, JobsForCpu>>
      /\ k = IF s[cpu] # 0 THEN Append(l, s[cpu]) ELSE l
      /\ phase' = IF cpu < T THEN "compact" ELSE "dispatch"
  BY DEF Compact, input, Planned
<1>2. AreListed(cpu, s, l) /\ AreUsed(l)
  BY <1>1 DEF IInv, ListHasTheBlocks, UsedCpusHaveBlocks
<1>3. totSLAVES \in 0..nC /\ nC \in 0..nC /\ totSLAVES <= nC
  BY <1>1, Cluster, NodesWithBlocks
<1>4. T \in Nat /\ nCPU(totSLAVES) \in Nat
  BY <1>1, <1>3, CpuCounts
<1> HIDE DEF T
<1>5. /\ cpu \in 1..T /\ s \in [1..T -> Int] /\ s[cpu] \in Int
      /\ SumFunctionOnSet(s, 1..T) = NumbersOfJobs
      /\ NoneBelowZero(s, T)
      /\ Sum(l) = SumFunctionOnSet(s, 1..(cpu - 1))
      /\ Len(l) <= cpu - 1
  BY <1>2 DEF AreListed, T
<1>6. l \in Seq(Int) /\ l \in Seq(Int \ {0}) /\ Len(l) \in Nat
  BY <1>2 DEF AreUsed
<1>7. k \in Seq(Int \ {0})
  BY <1>1, <1>5, <1>6
<1>8. Sum(k) = SumFunctionOnSet(s, 1..cpu)
  <2>1. SumFunctionOnSet(s, 1..cpu) = SumFunctionOnSet(s, 1..(cpu - 1)) + s[cpu]
    BY <1>4, <1>5, SumOfFirst
  <2>2. Sum(Append(l, s[cpu])) = Sum(l) + s[cpu] /\ Sum(l) \in Int
    BY <1>5, <1>6, SumOfList
  <2> QED
    BY <1>1, <1>5, <2>1, <2>2
<1>9. Len(k) <= cpu /\ Len(k) <= nCPU(nC)
  BY <1>1, <1>4, <1>5, <1>6 DEF T
<1>10. AreUsed(k)
  <2> SUFFICES ASSUME ~IdleNode
               PROVE  (\A j \in 1..Len(k) : k[j] > 0) /\ Len(k) <= nCPU(totSLAVES)
    BY <1>7, <1>9 DEF AreUsed
  <2>1. (\A j \in 1..Len(l) : l[j] > 0) /\ Len(l) <= nCPU(totSLAVES)
    BY <1>2 DEF AreUsed
  <2>2. CASE s[cpu] = 0
    BY <1>1, <2>1, <2>2
  <2>3. CASE s[cpu] # 0
    <3>1. s[cpu] > 0 /\ cpu <= nCPU(totSLAVES)
      BY <1>4, <1>5, <2>3 DEF NoneBelowZero, T
    <3>2. k = Append(l, s[cpu]) /\ Len(k) = Len(l) + 1
      BY <1>1, <1>6, <2>3
    <3>3. \A j \in 1..Len(k) : k[j] > 0
      BY <1>5, <1>6, <2>1, <3>1, <3>2
    <3> QED
      BY <1>4, <1>5, <1>9, <3>1, <3>2, <3>3
  <2> QED
    BY <2>2, <2>3
<1>11. CASE cpu < T
  <2>1. AreListed(cpu + 1, s, k)
    <3>1. cpu + 1 \in 1..T /\ (cpu + 1) - 1 = cpu
      BY <1>4, <1>5, <1>11
    <3> QED
      BY <1>5, <1>8, <1>9, <3>1 DEF AreListed, T
  <2>2. ListHasTheBlocks' /\ UsedCpusHaveBlocks'
    BY <1>1, <1>10, <1>11, <2>1, NextFacts DEF ListHasTheBlocks, UsedCpusHaveBlocks
  <2> QED
    BY <1>1, <1>11, <2>2, SharesStay DEF Planned, IInv, NothingGivenOut, CpusShareTheBlocks,
       RangesAreThePartialSums
<1>12. CASE ~ (cpu < T)
  <2>1. cpu = T
    BY <1>4, <1>5, <1>12
  <2>2. Sum(k) = NumbersOfJobs /\ NumbersOfJobs' = NumbersOfJobs
    BY <1>1, <1>5, <1>8, <2>1, SameCluster
  <2>3. Sum(nBlockPerCPU)' = NumbersOfJobs'
    BY <2>2 DEF Sum
  <2>4. ListHasTheBlocks' /\ UsedCpusHaveBlocks'
    BY <1>1, <1>10, <1>12, <2>3, NextFacts DEF ListHasTheBlocks, UsedCpusHaveBlocks
  <2> QED
    BY <1>1, <1>12, <2>4, SharesStay DEF Planned, IInv, NothingGivenOut, CpusShareTheBlocks,
       RangesAreThePartialSums
<1> QED
  BY <1>11, <1>12

LEMMA DispatchIInv == IInv /\ Dispatch => IInv'
<1> SUFFICES ASSUME IInv, Dispatch PROVE IInv'
  OBVIOUS
<1>1. /\ phase = "dispatch" /\ phase' = "done" /\ Planned
      /\ UNCHANGED <<Parallel, fBlock, nBlock, JobsForNode, loops, JobsForCpu, nBlockPerCPU>>
      /\ ranges' = [j \in 1..totCPU |->
                       [node |-> indPC(j), first |-> offset(j) + 1, last |-> nblck(j)]]
  BY DEF Dispatch, input, Planned
<1>2. /\ totCPU' = totCPU /\ Sum(nBlockPerCPU)' = Sum(nBlockPerCPU)
      /\ \A j : indPC(j)' = indPC(j) /\ offset(j)' = offset(j) /\ nblck(j)' = nblck(j)
  BY <1>1 DEF totCPU, indPC, offset, nblck, nC, nCPU, nCPUoriginal, Sum
<1>3. RangesAreThePartialSums'
  BY <1>1, <1>2 DEF RangesAreThePartialSums
<1>4. NumbersOfJobs' = NumbersOfJobs
  BY <1>1, SameCluster
<1>5. UsedCpusHaveBlocks'
  BY <1>1, <1>2, <1>4, NextFacts DEF IInv, UsedCpusHaveBlocks
<1> QED
  BY <1>1, <1>3, <1>5, SharesStay DEF Planned, IInv, NothingGivenOut, CpusShareTheBlocks,
     ListHasTheBlocks

\* A step that changes nothing.
LEMMA StutterIInv == IInv /\ UNCHANGED vars => IInv'
<1> SUFFICES ASSUME IInv, UNCHANGED vars PROVE IInv'
  OBVIOUS
<1>1. UNCHANGED <<Parallel, fBlock, nBlock, JobsForNode, VerySlow, phase, node, cpu, ChekOverFlow,
                  JobsForCpu, nBlockPerCPU, ranges>>
  BY DEF vars, input, loops
<1>2. CASE Planned
  <2>1. /\ totCPU' = totCPU /\ Sum(nBlockPerCPU)' = Sum(nBlockPerCPU)
        /\ NumbersOfJobs' = NumbersOfJobs
        /\ \A j : indPC(j)' = indPC(j) /\ offset(j)' = offset(j) /\ nblck(j)' = nblck(j)
    BY <1>1 DEF totCPU, indPC, offset, nblck, nC, nCPU, nCPUoriginal, Sum, NumbersOfJobs
  <2>2. RangesAreThePartialSums'
    BY <1>1, <2>1 DEF IInv, RangesAreThePartialSums
  <2>3. CpusShareTheBlocks' /\ ListHasTheBlocks' /\ UsedCpusHaveBlocks'
    BY <1>1, <2>1, NextFacts DEF IInv, CpusShareTheBlocks, ListHasTheBlocks,
       UsedCpusHaveBlocks
  <2> QED
    BY <1>1, <1>2, <2>2, <2>3, SharesStay DEF Planned, IInv, NothingGivenOut
<1>3. CASE ~Planned
  <2>1. nC' = nC /\ NumbersOfJobs' = NumbersOfJobs /\ Sum(JobsForNode)' = Sum(JobsForNode)
        /\ \A i : CPUWeight(i)' = CPUWeight(i)
    BY <1>1 DEF nC, NumbersOfJobs, Sum, CPUWeight, nCPUoriginal
  <2>2. SharesAreRight'
    BY <1>1, <2>1 DEF IInv, SharesAreRight
  <2>3. SlowestFirst'
    BY <1>1, <1>3, <2>1 DEF IInv, SlowestFirst, Planned
  <2>4. PlanIsWhole'
    BY <1>1, <2>1 DEF IInv, PlanIsWhole, Planned
  <2> QED
    BY <1>1, <1>3, <2>1, <2>2, <2>3, <2>4 DEF IInv, NothingGivenOut,
       CpusShareTheBlocks, ListHasTheBlocks,
       UsedCpusHaveBlocks, RangesAreThePartialSums, Planned
<1> QED
  BY <1>2, <1>3

LEMMA NextIInv == IInv /\ Next => IInv'
BY SortNodesIInv, CountCpusIInv, ShareOutIInv, TrimIInv, TrimEndIInv, AssignCpuIInv,
   CorrectNodeIInv, CompactIInv, DispatchIInv DEF Next

\* The loops of distributeJobs keep the shares to what is left of the jobs, for
\* every number of nodes, CPUs and blocks and every weight.
THEOREM Invariance == Spec => []IInv
<1>1. IInv /\ [Next]_vars => IInv'
  BY NextIInv, StutterIInv
<1> QED
  BY <1>1, InitIInv, PTL DEF Spec

\* distributeJobs gives out all blocks of the task and no more, and no more of them
\* to a node that weighs less, for every cluster and every task.
THEOREM PlanRight == Spec => []PlanIsRight
<1>1. IInv => PlanIsRight
  BY DEF IInv, SharesAreRight, PlanIsRight, PlanFollowsWeights, Planned
<1> QED
  BY <1>1, Invariance, PTL

-----------------------------------------------------------------------------
(* The ranges of masterParallel *)

\* CPU j is on one of the first m nodes, if they have j CPUs.
LEMMA NodeOfCpu ==
  ASSUME IInv, phase \notin {"sort", "count", "error"}, NEW m \in 1..nC, NEW j \in 1..nCPU(m)
  PROVE  indPC(j) \in 1..m
<1> DEFINE IsNode(i) == nCPU(i) >= j /\ \A k \in 1..(i - 1) : nCPU(k) < j
           X == {d \in Nat : d <= m => (\A k \in 1..d : nCPU(k) < j) \/ (\E i \in 1..d : IsNode(i))}
<1>1. nC \in Nat \ {0}
  BY Cluster
<1>2. \A k \in 1..nC : nCPU(k) \in Nat
  <2>1. \A k \in 1..nC : k \in 0..nC
    BY <1>1
  <2> QED
    BY <2>1, CpuCounts
<1>3. 0 \in X
  OBVIOUS
<1>4. ASSUME NEW d \in Nat, d \in X PROVE d + 1 \in X
  <2> SUFFICES ASSUME d + 1 <= m, \A i \in 1..(d + 1) : ~IsNode(i)
               PROVE  \A k \in 1..(d + 1) : nCPU(k) < j
    OBVIOUS
  <2>1. \A i \in 1..d : ~IsNode(i)
    OBVIOUS
  <2> HIDE DEF IsNode
  <2>2. \A k \in 1..d : nCPU(k) < j
    BY <1>1, <1>4, <2>1
  <2>3. ~IsNode(d + 1) /\ (d + 1) - 1 = d /\ nCPU(d + 1) \in Nat
    BY <1>1, <1>2
  <2> QED
    BY <2>2, <2>3 DEF IsNode
<1> HIDE DEF X
<1>5. m \in X
  BY <1>1, <1>3, <1>4, NatInductionOnSet
<1>6. m \in 1..m /\ ~ (nCPU(m) < j)
  BY <1>1, <1>2
<1>7. PICK i \in 1..m : IsNode(i)
  BY <1>1, <1>5, <1>6 DEF X
<1>8. indPC(j) \in 1..nC /\ IsNode(indPC(j))
  BY <1>1, <1>7 DEF indPC
<1>9. ~ (indPC(j) > m)
  <2>1. ASSUME indPC(j) > m PROVE m \in 1..(indPC(j) - 1)
    BY <1>1, <1>8, <2>1
  <2> QED
    BY <1>6, <1>8, <2>1
<1> QED
  BY <1>1, <1>8, <1>9

\* masterParallel watches every node it has given blocks to, unless a node with
\* several CPUs was left idle.
THEOREM UsedNodesWatched == Spec => []UsedNodesAreWatched
<1>1. IInv => UsedNodesAreWatched
  <2> SUFFICES ASSUME IInv, phase = "done", ~IdleNode, NEW j \in 1..totCPU
               PROVE  ranges[j].node <= totSLAVES
    BY DEF UsedNodesAreWatched
  <2>1. totSLAVES \in 1..nC /\ nC \in Nat
    BY Cluster, NodesWithBlocks DEF Planned
  <2>2. nCPU(totSLAVES) \in Nat
    <3>1. totSLAVES \in 0..nC
      BY <2>1
    <3> QED
      BY <3>1, CpuCounts
  <2>3. totCPU \in Nat /\ totCPU <= nCPU(totSLAVES)
    BY DEF IInv, UsedCpusHaveBlocks, AreUsed, totCPU
  <2>4. indPC(j) \in 1..totSLAVES
    BY <2>1, <2>2, <2>3, NodeOfCpu
  <2>5. ranges[j].node = indPC(j)
    BY DEF IInv, RangesAreThePartialSums
  <2> QED
    BY <2>1, <2>4, <2>5
<1> QED
  BY <1>1, Invariance, PTL

\* Consecutive ranges, none of them empty, cover each number once.
LEMMA RangesCover ==
  ASSUME NEW m \in Nat, NEW P \in [0..m -> Int], P[0] = 0, \A j \in 1..m : P[j - 1] < P[j],
         NEW b \in Nat \ {0}
  PROVE  Cardinality({j \in 1..m : P[j - 1] + 1 <= b /\ b <= P[j]})
            = IF b <= P[m] THEN 1 ELSE 0
<1> DEFINE Covers(j) == P[j - 1] + 1 <= b /\ b <= P[j]
           X == {d \in Nat : d <= m => P[d] < b \/ \E j \in 1..d : Covers(j)}
           Y(i) == {d \in Nat : i + d <= m => P[i] <= P[i + d]}
<1>1. \A j \in 1..m : j \in 0..m /\ j - 1 \in 0..m /\ P[j] \in Int /\ P[j - 1] \in Int
  OBVIOUS
<1>2. ASSUME NEW i \in 0..m, NEW k \in 0..m, i <= k PROVE P[i] <= P[k]
  <2>1. 0 \in Y(i)
    OBVIOUS
  <2>2. ASSUME NEW d \in Nat, d \in Y(i) PROVE d + 1 \in Y(i)
    <3> SUFFICES ASSUME i + (d + 1) <= m PROVE P[i] <= P[i + (d + 1)]
      OBVIOUS
    <3>1. i + (d + 1) \in 1..m /\ (i + (d + 1)) - 1 = i + d /\ i + d \in 0..m
      OBVIOUS
    <3>2. P[i] <= P[i + d] /\ P[i + d] < P[i + (d + 1)]
      BY <2>2, <3>1
    <3> QED
      BY <3>1, <3>2
  <2> HIDE DEF Y
  <2>3. k - i \in Nat /\ i + (k - i) = k
    BY <1>2
  <2>4. k - i \in Y(i)
    BY <2>1, <2>2, <2>3, NatInductionOnSet
  <2> QED
    BY <2>3, <2>4 DEF Y
<1>3. ASSUME NEW j \in 1..m, NEW k \in 1..m, Covers(j), Covers(k), j < k PROVE FALSE
  <2>1. j \in 0..m /\ k - 1 \in 0..m /\ j <= k - 1
    BY <1>3
  <2>2. P[j] <= P[k - 1]
    BY <1>2, <2>1
  <2> QED
    BY <1>1, <1>3, <2>2
<1>4. \A j, k \in 1..m : Covers(j) /\ Covers(k) => j = k
  <2> HIDE DEF Covers
  <2> QED
    BY <1>3
<1>5. CASE b <= P[m]
  <2>1. 0 \in X
    OBVIOUS
  <2>2. ASSUME NEW d \in Nat, d \in X PROVE d + 1 \in X
    <3> SUFFICES ASSUME d + 1 <= m, ~ (P[d + 1] < b) PROVE \E j \in 1..(d + 1) : Covers(j)
      OBVIOUS
    <3>1. d + 1 \in 1..m /\ (d + 1) - 1 = d /\ d \in 0..m
      OBVIOUS
    <3>2. CASE P[d] < b
      <4>1. Covers(d + 1)
        BY <1>1, <3>1, <3>2
      <4> QED
        BY <3>1, <4>1
    <3>3. CASE ~ (P[d] < b)
      <4>1. \E j \in 1..d : Covers(j)
        BY <2>2, <3>1, <3>3
      <4> HIDE DEF Covers
      <4> QED
        BY <4>1
    <3> QED
      BY <3>2, <3>3
  <2> HIDE DEF X
  <2>3. m \in X
    BY <2>1, <2>2, NatInductionOnSet
  <2>4. PICK j \in 1..m : Covers(j)
    BY <1>5, <2>3 DEF X
  <2>5. {k \in 1..m : Covers(k)} = {j}
    <3> HIDE DEF Covers
    <3> QED
      BY <1>4, <2>4
  <2> QED
    BY <1>5, <2>5, FS_Singleton
<1>6. CASE ~ (b <= P[m])
  <2>1. ASSUME NEW j \in 1..m PROVE ~Covers(j)
    <3>1. P[j] <= P[m]
      BY <1>1, <1>2
    <3> QED
      BY <1>1, <1>6, <3>1
  <2>2. {j \in 1..m : Covers(j)} = {}
    BY <2>1
  <2> QED
    BY <1>6, <2>2, FS_EmptySet
<1> QED
  BY <1>5, <1>6

\* The blocks up to CPU j.
LEMMA SumOfPrefix ==
  ASSUME NEW l \in Seq(Int), NEW j \in 0..Len(l)
  PROVE  Sum(SubSeq(l, 1, j)) = SumFunctionOnSet(l, 1..j) /\ SumFunctionOnSet(l, 1..j) \in Int
<1> DEFINE p == SubSeq(l, 1, j)
<1>1. DOMAIN p = 1..j /\ j \in Nat /\ \A i \in 1..j : l[i] \in Int /\ p[i] = l[i]
  OBVIOUS
<1> HIDE DEF p
<1>2. IsFiniteSet(1..j)
  BY <1>1, FS_Interval
<1>3. SumFunctionOnSet(p, 1..j) = SumFunctionOnSet(l, 1..j)
  BY <1>1, <1>2, SumOfSame
<1>4. SumFunctionOnSet(l, 1..j) \in Int
  BY <1>1, <1>2, SumWithout
<1> QED
  BY <1>1, <1>3, <1>4 DEF Sum, SumFunction, p

\* A task whose first block is 1 has each of its blocks run by one CPU, and no other
\* block run, unless a node with several CPUs was left idle.
THEOREM BlocksRunOnce == Spec => [](fBlock = 1 => EveryBlockRunOnceUnlessIdle)
<1>1. IInv => (fBlock = 1 => EveryBlockRunOnceUnlessIdle)
  <2> SUFFICES ASSUME IInv, fBlock = 1, phase = "done", ~IdleNode, NEW b \in 1..(MaxBlock + nC)
               PROVE  Cardinality(RunsOf(b)) = IF b \in fBlock..nBlock THEN 1 ELSE 0
    BY DEF EveryBlockRunOnceUnlessIdle, EveryBlockRunOnce
  <2> DEFINE l == nBlockPerCPU
             m == totCPU
             P == [j \in 0..m |-> SumFunctionOnSet(l, 1..j)]
  <2>1. /\ l \in Seq(Int) /\ m \in Nat /\ m = Len(l) /\ (\A j \in 1..m : l[j] > 0)
        /\ Sum(l) = NumbersOfJobs
    BY DEF IInv, UsedCpusHaveBlocks, AreUsed, totCPU
  <2>2. nBlock \in Int /\ NumbersOfJobs = nBlock
    <3>1. nBlock \in 1..MaxBlock
      BY DEF IInv
    <3> QED
      BY <3>1, BlocksAssumption DEF NumbersOfJobs
  <2>3. b \in Nat \ {0}
    BY Cluster, BlocksAssumption
  <2> HIDE DEF l, m
  <2>4. \A j \in 0..m : P[j] = Sum(SubSeq(l, 1, j)) /\ P[j] \in Int
    BY <2>1, SumOfPrefix
  <2>5. P \in [0..m -> Int]
    BY <2>4
  <2>6. P[0] = 0
    <3>1. 1..0 = {}
      OBVIOUS
    <3> QED
      BY <2>1, <3>1, SumOfNone
  <2>7. ASSUME NEW j \in 1..m PROVE P[j - 1] < P[j]
    <3>1. l \in [1..m -> Int] /\ j - 1 \in 0..m /\ j \in 0..m
      BY <2>1
    <3>2. SumFunctionOnSet(l, 1..j) = SumFunctionOnSet(l, 1..(j - 1)) + l[j]
          /\ SumFunctionOnSet(l, 1..(j - 1)) \in Int
      BY <2>1, <3>1, SumOfFirst
    <3> QED
      BY <2>1, <3>1, <3>2
  <2>8. P[m] = nBlock
    BY <2>1, <2>2, SumOfList
  <2> HIDE DEF P
  <2>9. Cardinality({j \in 1..m : P[j - 1] + 1 <= b /\ b <= P[j]}) = IF b <= P[m] THEN 1 ELSE 0
    BY <2>1, <2>3, <2>5, <2>6, <2>7, RangesCover
  <2>10. ASSUME NEW j \in 1..m
         PROVE  ranges[j].first = P[j - 1] + 1 /\ ranges[j].last = P[j]
    <3>1. ranges[j].first = offset(j) + 1 /\ ranges[j].last = nblck(j)
      BY DEF IInv, RangesAreThePartialSums, m
    <3>2. j - 1 \in 0..m /\ j \in 0..m
      BY <2>1
    <3>3. offset(j) = P[j - 1] /\ nblck(j) = P[j]
      BY <2>4, <3>2 DEF offset, nblck, l
    <3> QED
      BY <3>1, <3>3
  <2>11. RunsOf(b) = {j \in 1..m : P[j - 1] + 1 <= b /\ b <= P[j]}
    BY <2>10 DEF RunsOf, m
  <2> QED
    BY <2>2, <2>3, <2>8, <2>9, <2>11
<1> QED
  BY <1>1, Invariance, PTL

-----------------------------------------------------------------------------
(* Types *)

\* The variables that a step changes keep their types.
LEMMA NextTypeOK == IInv /\ TypeOK /\ Next => TypeOK'
<1> SUFFICES ASSUME IInv, TypeOK, Next PROVE TypeOK'
  OBVIOUS
<1>1. IInv'
  BY NextIInv
<1>2. /\ Parallel' \in UNION {[1..n -> Node] : n \in 1..MaxNodes}
      /\ fBlock' \in FirstBlocks /\ nBlock' \in 1..MaxBlock
  <2>1. fBlock' \in Nat \ {0}
    BY <1>1, PositiveAssumption DEF IInv
  <2> QED
    BY <1>1, <2>1, BlocksAssumption DEF IInv
<1>3. phase' \in {"sort", "count", "share", "trim", "cpus", "compact", "dispatch", "done", "error"}
  BY DEF TypeOK, Next, SortNodes, CountCpus, ShareOut, Trim, TrimEnd, AssignCpu, CorrectNode,
     Compact, Dispatch
<1>4. /\ nC' \in 1..MaxNodes /\ nC \in Nat \ {0}
      /\ phase \notin {"sort", "count", "error"} => nCPU(nC) \in Nat
  <2>1. PICK n \in 1..MaxNodes : Parallel' \in [1..n -> Node]
    BY <1>1 DEF IInv
  <2>2. nC' = n
    BY <2>1, NodesAssumption DEF nC
  <2>3. nC \in 0..nC /\ nC \in Nat \ {0}
    BY Cluster
  <2> QED
    BY <2>2, <2>3, CpuCounts
<1>5. JobsForNode' \in Seq(Nat)
  <2>1. CASE phase' \in {"trim", "cpus", "compact", "dispatch", "done"}
    BY <1>1, <1>4, <2>1, NodesAssumption DEF IInv, SharesAreRight
  <2>2. CASE phase' \notin {"trim", "cpus", "compact", "dispatch", "done"}
    BY <2>2 DEF TypeOK, Next, SortNodes, CountCpus, ShareOut, Trim, TrimEnd, AssignCpu,
       CorrectNode, Compact, Dispatch
  <2> QED
    BY <2>1, <2>2
<1>6. VerySlow' \in 0..MaxNodes
  <2>1. CASE phase' = "trim"
    BY <1>1, <1>4, <2>1, NodesAssumption DEF IInv, SlowestFirst
  <2>2. CASE phase' # "trim"
    BY <2>2 DEF TypeOK, Next, SortNodes, CountCpus, ShareOut, Trim, TrimEnd, AssignCpu,
       CorrectNode, Compact, Dispatch
  <2> QED
    BY <2>1, <2>2
<1>7. node' \in 1..MaxNodes /\ cpu' \in Nat \ {0} /\ ChekOverFlow' \in Nat
  <2>1. CASE SortNodes \/ CountCpus \/ ShareOut \/ Trim \/ TrimEnd \/ Dispatch
    BY <2>1 DEF TypeOK, SortNodes, CountCpus, ShareOut, Trim, TrimEnd, Dispatch, loops
  <2>2. CASE AssignCpu
    <3>1. phase = "cpus" /\ Planned /\ AreShared(node, cpu, ChekOverFlow, JobsForCpu)
      BY <2>2 DEF IInv, CpusShareTheBlocks, AssignCpu, Planned
    <3>2. node \in 1..nC /\ JobsForNode[node] \in Nat
      BY <3>1 DEF IInv, SharesAreRight, AreShared
    <3>3. nCPUoriginal(node) \in Nat \ {0}
      BY <3>1, <3>2, CpuCounts
    <3>4. JobAssignedCpu \in Nat
      BY <3>2, <3>3, Assigned DEF JobAssignedCpu
    <3> QED
      BY <2>2, <3>4 DEF TypeOK, AssignCpu
  <2>3. CASE CorrectNode
    <3>1. node \in 1..nC
      <4>1. phase = "cpus"
        BY <2>3 DEF CorrectNode
      <4> QED
        BY <4>1 DEF IInv, CpusShareTheBlocks, AreShared
    <3>2. node \in 0..nC
      BY <1>4, <3>1
    <3>3. nCPU(node) \in Nat
      BY <2>3, <3>2, CpuCounts DEF CorrectNode
    <3>4. nC' = nC
      BY <2>3 DEF CorrectNode, input, nC
    <3> QED
      BY <1>4, <2>3, <3>1, <3>3, <3>4, NodesAssumption DEF TypeOK, CorrectNode
  <2>4. CASE Compact
    BY <2>4 DEF TypeOK, Compact
  <2> QED
    BY <2>1, <2>2, <2>3, <2>4 DEF Next
<1>8. JobsForCpu' \in Seq(Int)
  <2>1. CASE SortNodes \/ CountCpus \/ ShareOut \/ Trim \/ Compact \/ Dispatch
    BY <2>1 DEF TypeOK, SortNodes, CountCpus, ShareOut, Trim, Compact, Dispatch
  <2>2. CASE TrimEnd
    <3>1. nCPU(nC) \in Nat
      BY <1>4, <2>2 DEF TrimEnd
    <3> QED
      BY <2>2, <3>1 DEF TrimEnd
  <2>3. CASE AssignCpu \/ CorrectNode
    <3>1. /\ phase' \in {"cpus", "compact"} /\ nCPU(nC) \in Nat
          /\ UNCHANGED <<Parallel, fBlock, nBlock, JobsForNode>>
      BY <1>4, <2>3 DEF AssignCpu, CorrectNode, input
    <3>2. nCPU(nC)' = nCPU(nC)
      BY <3>1 DEF nCPU, nCPUoriginal, nC
    <3>3. JobsForCpu' \in [1..nCPU(nC)' -> Int]
      BY <1>1, <3>1 DEF IInv, CpusShareTheBlocks, ListHasTheBlocks, AreShared, AreListed
    <3> QED
      BY <3>1, <3>2, <3>3
  <2> QED
    BY <2>1, <2>2, <2>3 DEF Next
<1>9. nBlockPerCPU' \in Seq(Int \ {0})
  <2>1. CASE phase' \in {"compact", "dispatch", "done"}
    BY <1>1, <2>1 DEF IInv, UsedCpusHaveBlocks, AreUsed
  <2>2. CASE phase' \notin {"compact", "dispatch", "done"}
    BY <2>2 DEF TypeOK, Next, SortNodes, CountCpus, ShareOut, Trim, TrimEnd, AssignCpu,
       CorrectNode, Compact, Dispatch
  <2> QED
    BY <2>1, <2>2
<1>10. ranges' \in Seq(BlockRange)
  <2>1. CASE ~Dispatch
    BY <2>1 DEF TypeOK, Next, SortNodes, CountCpus, ShareOut, Trim, TrimEnd, AssignCpu,
       CorrectNode, Compact
  <2>2. CASE Dispatch
    <3> DEFINE l == nBlockPerCPU
               m == totCPU
    <3>1. /\ l \in Seq(Int) /\ m \in Nat /\ m = Len(l) /\ m <= nCPU(nC) /\ nCPU(nC) \in Nat
      BY <1>4, <2>2 DEF IInv, UsedCpusHaveBlocks, AreUsed, totCPU, Dispatch
    <3>2. nC \in 1..MaxNodes /\ fBlock \in Int
      <4>1. nC' = nC
        BY <2>2 DEF Dispatch, input, nC
      <4> QED
        BY <1>4, <4>1, PositiveAssumption DEF IInv
    <3>3. ASSUME NEW j \in 1..m
          PROVE  [node |-> indPC(j), first |-> offset(j) + 1, last |-> nblck(j)] \in BlockRange
      <4>1. nC \in 1..nC /\ j \in 1..nCPU(nC)
        BY <1>4, <3>1
      <4>2. indPC(j) \in 1..nC
        BY <2>2, <4>1, NodeOfCpu DEF Dispatch
      <4>3. j - 1 \in 0..Len(l) /\ j \in 0..Len(l)
        BY <3>1
      <4>4. offset(j) \in Int /\ nblck(j) \in Int
        BY <3>1, <3>2, <4>3, SumOfPrefix DEF offset, nblck
      <4>5. indPC(j) \in 1..MaxNodes
        BY <1>4, <3>2, <4>2, NodesAssumption
      <4> QED
        BY <4>4, <4>5 DEF BlockRange
    <3>4. ranges' = [j \in 1..m |->
                        [node |-> indPC(j), first |-> offset(j) + 1, last |-> nblck(j)]]
      BY <2>2 DEF Dispatch
    <3> HIDE DEF m
    <3> QED
      BY <3>1, <3>3, <3>4
  <2> QED
    BY <2>1, <2>2
<1> QED
  BY <1>2, <1>3, <1>5, <1>6, <1>7, <1>8, <1>9, <1>10 DEF TypeOK

\* The tables of distributeJobs and the ranges of masterParallel keep their types: a
\* CPU that is used is on a node of the cluster.
THEOREM TypeCorrect == Spec => []TypeOK
<1>1. Init => TypeOK
  <2> SUFFICES ASSUME Init PROVE TypeOK
    OBVIOUS
  <2>1. fBlock \in Nat \ {0} /\ nBlock \in 1..MaxBlock
    BY PositiveAssumption, BlocksAssumption DEF Init
  <2> QED
    BY <2>1, NodesAssumption DEF Init, TypeOK
<1>2. TypeOK /\ UNCHANGED vars => TypeOK'
  BY DEF TypeOK, vars, input, loops
<1>3. IInv /\ TypeOK /\ [Next]_vars => TypeOK'
  BY <1>2, NextTypeOK
<1> QED
  BY <1>1, <1>3, Invariance, PTL DEF Spec
=============================================================================

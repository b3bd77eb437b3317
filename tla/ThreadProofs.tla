---------------------------- MODULE ThreadProofs ----------------------------
(***************************************************************************)
(* Proofs about ThreadGroup, for any number of workers, any limit and any   *)
(* number of additions: they hold of every interleaving, spurious wake-ups  *)
(* included, and use no fairness.  And about PascalTriangle, for any        *)
(* arguments and any number of calls of one thread: the table holds         *)
(* binomial coefficients, has the element that a call reads, and noverk     *)
(* returns a binomial coefficient; with a second thread this does not hold, *)
(* as a run shows.                                                          *)
(***************************************************************************)
EXTENDS ThreadGroup, PascalTriangle, SumLemmas

\* Who holds which mutex.
MutexesAreHeld ==
  /\ mut_cv = Main <=> main \in {"loop", "test"}
  /\ \A w \in Workers : mut_cv = w <=> pc[w] \in {"count", "notify", "release"}
  /\ \A w \in Workers : mut_threads = w <=> pc[w] \in {"add", "write", "unlock"}

\* The counter counts, and the main thread starts a thread only below the limit.
CounterCounts ==
  /\ counter = Cardinality(Running) /\ counter <= max_parallel_threads
  /\ main \in {"lock", "loop"} => ~ending /\ counter < max_parallel_threads
  /\ main = "lock" => it = 0
  /\ \A w \in Workers : pc[w] = "none" <=> w > it
  /\ ending => it = N
  /\ main \in {"returned", "destroyed"} => \A w \in Workers : pc[w] = "exited"

\* What was added is in the result, or about to be written by the one thread
\* that has read it.
NothingIsLost ==
  /\ out = added
  /\ \A w \in Workers : pc[w] = "write" => read[w] = out
  /\ \A w \in Workers : pc[w] \in {"none", "work", "lock", "add", "write"} => added[w] < Adds
  /\ \A w \in Workers :
       pc[w] \in {"finish", "count", "notify", "release", "exited"} => added[w] = Adds

IInv == TypeOK /\ MutexesAreHeld /\ CounterCounts /\ NothingIsLost

-----------------------------------------------------------------------------
\* Any set of workers is finite.
LEMMA WorkersAreFinite == \A S \in SUBSET Workers : IsFiniteSet(S) /\ Cardinality(S) \in 0..N
<1>1. IsFiniteSet(Workers) /\ Cardinality(Workers) = N
  BY FS_Interval, ThreadsAssumption DEF Workers
<1> SUFFICES ASSUME NEW S \in SUBSET Workers PROVE IsFiniteSet(S) /\ Cardinality(S) \in 0..N
  OBVIOUS
<1>2. IsFiniteSet(S) /\ Cardinality(S) <= N
  BY <1>1, FS_Subset
<1>3. Cardinality(S) \in Nat
  BY <1>2, FS_CardinalityType
<1> QED
  BY <1>2, <1>3, ThreadsAssumption

\* The running threads are a finite set.
LEMMA RunningIsFinite == IsFiniteSet(Running) /\ Cardinality(Running) \in 0..N
BY WorkersAreFinite DEF Running

\* One thread more, one less, or the same.
LEMMA RunningChanges ==
  /\ \A w \in Workers : Running' = Running \cup {w} /\ w \notin Running
        => Cardinality(Running)' = Cardinality(Running) + 1
  /\ \A w \in Workers : Running' = Running \ {w} /\ w \in Running
        => Cardinality(Running)' = Cardinality(Running) - 1
  /\ Running' = Running => Cardinality(Running)' = Cardinality(Running)
<1>1. ASSUME NEW w \in Workers, Running' = Running \cup {w}, w \notin Running
      PROVE  Cardinality(Running)' = Cardinality(Running) + 1
  BY <1>1, RunningIsFinite, FS_AddElement
<1>2. ASSUME NEW w \in Workers, Running' = Running \ {w}, w \in Running
      PROVE  Cardinality(Running)' = Cardinality(Running) - 1
  BY <1>2, RunningIsFinite, FS_RemoveElement
<1> QED
  BY <1>1, <1>2

\* Before run() no thread runs and no mutex is held.
LEMMA InitIInv == Init => IInv
<1> SUFFICES ASSUME Init PROVE IInv
  OBVIOUS
<1> USE ThreadsAssumption DEF Init, Workers, Zero, None, Main
<1>1. TypeOK
  <2>1. ending \in BOOLEAN
    OBVIOUS
  <2> QED
    BY <2>1 DEF TypeOK
<1>2. MutexesAreHeld
  BY DEF MutexesAreHeld
<1>3. Running = {}
  BY DEF Running
<1>4. CounterCounts
  BY <1>3, FS_EmptySet DEF CounterCounts
<1>5. NothingIsLost
  BY DEF NothingIsLost
<1> QED
  BY <1>1, <1>2, <1>4, <1>5 DEF IInv

\* Each access of a thread to shared state preserves the invariant.
LEMMA NextIInv == IInv /\ [Next]_vars => IInv'
<1> SUFFICES ASSUME IInv, [Next]_vars PROVE IInv'
  OBVIOUS
<1> USE ThreadsAssumption DEF IInv, TypeOK, Workers, None, Main, Work, Group
<1>1. CASE Lock
  <2>1. Running' = Running
    BY <1>1 DEF Lock, Running
  <2>2. Cardinality(Running)' = Cardinality(Running)
    BY <2>1
  <2>3. TypeOK'
    BY <1>1 DEF Lock
  <2>4. MutexesAreHeld'
    BY <1>1 DEF Lock, MutexesAreHeld
  <2>5. CounterCounts'
    BY <1>1, <2>2 DEF Lock, CounterCounts
  <2>6. NothingIsLost'
    BY <1>1 DEF Lock, NothingIsLost
  <2> QED
    BY <2>3, <2>4, <2>5, <2>6
<1>2. CASE Start
  <2>1. it + 1 \in Workers /\ pc[it + 1] = "none"
    BY <1>2 DEF Start, CounterCounts
  <2>2. Running' = Running \cup {it + 1} /\ it + 1 \notin Running
    BY <1>2, <2>1 DEF Start, Running
  <2>3. counter' = Cardinality(Running)'
    BY <1>2, <2>1, <2>2, RunningChanges DEF Start, CounterCounts
  <2>4. counter' \in 0..N
    <3>1. Running' \in SUBSET Workers
      BY <2>1, <2>2 DEF Running
    <3> QED
      BY <2>3, <3>1, WorkersAreFinite
  <2>5. TypeOK'
    BY <1>2, <2>1, <2>4, SMTT(30) DEF Start
  <2>6. MutexesAreHeld'
    BY <1>2, <2>1 DEF Start, MutexesAreHeld
  <2>7. CounterCounts'
    <3>1. counter + 1 <= max_parallel_threads /\ ~ending
      BY <1>2 DEF Start, CounterCounts
    <3>2. \A w \in Workers : pc'[w] = "none" <=> w > it'
      <4> SUFFICES ASSUME NEW w \in Workers PROVE pc'[w] = "none" <=> w > it'
        OBVIOUS
      <4>1. pc[w] = "none" <=> w > it
        BY DEF CounterCounts
      <4>2. CASE w = it + 1
        BY <1>2, <4>2 DEF Start
      <4>3. CASE w # it + 1
        <5>1. pc'[w] = pc[w] /\ it' = it + 1
          BY <1>2, <4>3 DEF Start
        <5> QED
          BY <4>1, <4>3, <5>1, SMTT(30)
      <4> QED
        BY <4>2, <4>3
    <3> HIDE DEF Running
    <3> QED
      BY <1>2, <2>3, <3>1, <3>2 DEF Start, CounterCounts
  <2>8. NothingIsLost'
    BY <1>2, <2>1 DEF Start, NothingIsLost
  <2> QED
    BY <2>5, <2>6, <2>7, <2>8
<1>3. CASE EndLoop
  <2>1. Running' = Running
    BY <1>3 DEF EndLoop, Running
  <2>2. Cardinality(Running)' = Cardinality(Running)
    BY <2>1
  <2>3. ending' \in BOOLEAN
    BY <1>3 DEF EndLoop
  <2>4. TypeOK'
    BY <1>3, <2>3 DEF EndLoop
  <2>5. MutexesAreHeld'
    BY <1>3 DEF EndLoop, MutexesAreHeld
  <2>6. CounterCounts'
    BY <1>3, <2>2 DEF EndLoop, CounterCounts
  <2>7. NothingIsLost'
    BY <1>3 DEF EndLoop, NothingIsLost
  <2> QED
    BY <2>4, <2>5, <2>6, <2>7
<1>4. CASE Wait
  <2>1. Running' = Running
    BY <1>4 DEF Wait, Running
  <2>2. Cardinality(Running)' = Cardinality(Running)
    BY <2>1
  <2>3. ending' \in BOOLEAN
    BY <1>4 DEF Wait
  <2>4. TypeOK'
    BY <1>4, <2>3 DEF Wait
  <2>5. MutexesAreHeld'
    BY <1>4 DEF Wait, MutexesAreHeld
  <2>6. CounterCounts'
    BY <1>4, <2>2 DEF Wait, CounterCounts
  <2>7. NothingIsLost'
    BY <1>4 DEF Wait, NothingIsLost
  <2> QED
    BY <2>4, <2>5, <2>6, <2>7
<1>5. CASE Relock
  <2>1. Running' = Running
    BY <1>5 DEF Relock, Running
  <2>2. Cardinality(Running)' = Cardinality(Running)
    BY <2>1
  <2>3. ending' \in BOOLEAN
    BY <1>5 DEF Relock
  <2>4. TypeOK'
    BY <1>5, <2>3 DEF Relock
  <2>5. MutexesAreHeld'
    BY <1>5 DEF Relock, MutexesAreHeld
  <2>6. CounterCounts'
    BY <1>5, <2>2 DEF Relock, CounterCounts
  <2>7. NothingIsLost'
    BY <1>5 DEF Relock, NothingIsLost
  <2> QED
    BY <2>4, <2>5, <2>6, <2>7
<1>6. CASE GoOn
  <2>1. Running' = Running
    BY <1>6 DEF GoOn, Running
  <2>2. Cardinality(Running)' = Cardinality(Running)
    BY <2>1
  <2>3. ending' \in BOOLEAN
    BY <1>6 DEF GoOn
  <2>4. TypeOK'
    BY <1>6, <2>3 DEF GoOn
  <2>5. MutexesAreHeld'
    BY <1>6 DEF GoOn, MutexesAreHeld
  <2>6. CounterCounts'
    BY <1>6, <2>2 DEF GoOn, CounterCounts, Ready
  <2>7. NothingIsLost'
    BY <1>6 DEF GoOn, NothingIsLost
  <2> QED
    BY <2>4, <2>5, <2>6, <2>7
<1>7. CASE Destroy
  <2>1. Running' = Running
    BY <1>7 DEF Destroy, Running
  <2>2. Cardinality(Running)' = Cardinality(Running)
    BY <2>1
  <2>3. ending' \in BOOLEAN
    BY <1>7 DEF Destroy
  <2>4. TypeOK'
    BY <1>7, <2>3 DEF Destroy
  <2>5. MutexesAreHeld'
    BY <1>7 DEF Destroy, MutexesAreHeld
  <2>6. CounterCounts'
    BY <1>7, <2>2 DEF Destroy, CounterCounts
  <2>7. NothingIsLost'
    BY <1>7 DEF Destroy, NothingIsLost
  <2> QED
    BY <2>4, <2>5, <2>6, <2>7
<1>8. CASE Spurious
  <2>1. Running' = Running
    BY <1>8 DEF Spurious, Running
  <2>2. Cardinality(Running)' = Cardinality(Running)
    BY <2>1
  <2>3. ending' \in BOOLEAN
    BY <1>8 DEF Spurious
  <2>4. TypeOK'
    BY <1>8, <2>3 DEF Spurious
  <2>5. MutexesAreHeld'
    BY <1>8 DEF Spurious, MutexesAreHeld
  <2>6. CounterCounts'
    BY <1>8, <2>2 DEF Spurious, CounterCounts
  <2>7. NothingIsLost'
    BY <1>8 DEF Spurious, NothingIsLost
  <2> QED
    BY <2>4, <2>5, <2>6, <2>7
<1>9. CASE Return
  <2>1. Running' = Running
    BY <1>9 DEF Return, Running
  <2>2. Running = {}
    BY <1>9, RunningIsFinite, FS_EmptySet DEF Return, Ready, CounterCounts
  <2>3. \A w \in Workers : pc[w] = "exited"
    <3> SUFFICES ASSUME NEW w \in Workers PROVE pc[w] = "exited"
      OBVIOUS
    <3>1. pc[w] \in {"none", "notify", "release", "exited"}
      BY <2>2 DEF Running
    <3>2. pc[w] # "none"
      BY <1>9 DEF Return, CounterCounts
    <3>3. pc[w] \notin {"notify", "release"}
      BY <1>9 DEF Return, MutexesAreHeld
    <3> QED
      BY <3>1, <3>2, <3>3
  <2>4. MutexesAreHeld'
    BY <1>9, <2>3 DEF Return, MutexesAreHeld
  <2>5. CounterCounts'
    BY <1>9, <2>1, <2>3, RunningChanges DEF Return, CounterCounts
  <2> QED
    BY <1>9, <2>4, <2>5 DEF Return, NothingIsLost
<1>10. ASSUME NEW w \in Workers, WorkerNext(w)
      PROVE  IInv'
  <2>1. CASE Compute(w)
    <3>1. Running' = Running
      BY <2>1 DEF Compute, Goto, Running
    <3>2. Cardinality(Running)' = Cardinality(Running)
      BY <3>1
    <3>3. ending' \in BOOLEAN
      BY <2>1 DEF Compute
    <3>4. TypeOK'
      BY <2>1, <3>3 DEF Compute, Goto
    <3>5. MutexesAreHeld'
      BY <2>1 DEF Compute, Goto, MutexesAreHeld
    <3>6. CounterCounts'
      BY <2>1, <3>2 DEF Compute, Goto, CounterCounts
    <3>7. NothingIsLost'
      BY <2>1 DEF Compute, Goto, NothingIsLost
    <3> QED
      BY <3>4, <3>5, <3>6, <3>7
  <2>2. CASE LockThreads(w)
    <3>1. Running' = Running
      BY <2>2 DEF LockThreads, Goto, Running
    <3>2. Cardinality(Running)' = Cardinality(Running)
      BY <3>1
    <3>3. ending' \in BOOLEAN
      BY <2>2 DEF LockThreads
    <3>4. TypeOK'
      BY <2>2, <3>3 DEF LockThreads, Goto
    <3>5. MutexesAreHeld'
      BY <2>2, SMTT(30) DEF LockThreads, Goto, MutexesAreHeld
    <3>6. CounterCounts'
      BY <2>2, <3>2 DEF LockThreads, Goto, CounterCounts
    <3>7. NothingIsLost'
      BY <2>2 DEF LockThreads, Goto, NothingIsLost
    <3> QED
      BY <3>4, <3>5, <3>6, <3>7
  <2>3. CASE Read(w)
    <3>1. Running' = Running
      BY <2>3 DEF Read, Goto, Running
    <3>2. Cardinality(Running)' = Cardinality(Running)
      BY <3>1
    <3>3. ending' \in BOOLEAN
      BY <2>3 DEF Read
    <3>4. TypeOK'
      BY <2>3, <3>3 DEF Read, Goto
    <3>5. MutexesAreHeld'
      BY <2>3 DEF Read, Goto, MutexesAreHeld
    <3>6. CounterCounts'
      BY <2>3, <3>2 DEF Read, Goto, CounterCounts
    <3>7. NothingIsLost'
      BY <2>3 DEF Read, Goto, NothingIsLost
    <3> QED
      BY <3>4, <3>5, <3>6, <3>7
  <2>4. CASE Write(w)
    <3>1. Running' = Running
      BY <2>4 DEF Write, Goto, Running
    <3>2. Cardinality(Running)' = Cardinality(Running)
      BY <3>1
    <3>3. /\ ending' \in BOOLEAN
          /\ added[w] + 1 \in 0..Adds /\ read[w] = added
      BY <2>4 DEF Write, Goto, NothingIsLost
    <3>4. TypeOK'
      <4>1. out' \in [Workers -> 0..Adds] /\ added' \in [Workers -> 0..Adds]
        BY <2>4, <3>3 DEF Write
      <4>2. read' \in [Workers -> [Workers -> 0..Adds]]
        BY <2>4 DEF Write, Zero
      <4> QED
        BY <2>4, <3>3, <4>1, <4>2 DEF Write, Goto
    <3>5. MutexesAreHeld'
      BY <2>4 DEF Write, Goto, MutexesAreHeld
    <3>6. CounterCounts'
      BY <2>4, <3>2 DEF Write, Goto, CounterCounts
    <3>7. NothingIsLost'
      <4>1. \A v \in Workers \ {w} : pc[v] # "write"
        BY <2>4 DEF Write, Goto, MutexesAreHeld
      <4>2. out' = added'
        BY <2>4 DEF Write, Goto, NothingIsLost
      <4> QED
        BY <2>4, <4>1, <4>2 DEF Write, Goto, NothingIsLost
    <3> QED
      BY <3>4, <3>5, <3>6, <3>7
  <2>5. CASE UnlockThreads(w)
    <3>1. Running' = Running
      BY <2>5 DEF UnlockThreads, Goto, Running
    <3>2. Cardinality(Running)' = Cardinality(Running)
      BY <3>1
    <3>3. ending' \in BOOLEAN
      BY <2>5 DEF UnlockThreads
    <3>4. TypeOK'
      <4>1. pc' \in [Workers -> {"none", "work", "lock", "add", "write", "unlock", "finish",
                                 "count", "notify", "release", "exited"}]
        BY <2>5 DEF UnlockThreads, Goto
      <4>2. /\ mut_threads' \in 0..N
            /\ main' = main /\ it' = it /\ counter' = counter /\ mut_cv' = mut_cv
            /\ added' = added /\ out' = out /\ read' = read
        BY <2>5 DEF UnlockThreads
      <4> QED
        BY <3>3, <4>1, <4>2
    <3>5. MutexesAreHeld'
      BY <2>5, SMTT(30) DEF UnlockThreads, Goto, MutexesAreHeld
    <3>6. CounterCounts'
      BY <2>5, <3>2 DEF UnlockThreads, Goto, CounterCounts
    <3>7. NothingIsLost'
      BY <2>5 DEF UnlockThreads, Goto, NothingIsLost
    <3> QED
      BY <3>4, <3>5, <3>6, <3>7
  <2>6. CASE LockCv(w)
    <3>1. Running' = Running
      BY <2>6 DEF LockCv, Goto, Running
    <3>2. Cardinality(Running)' = Cardinality(Running)
      BY <3>1
    <3>3. ending' \in BOOLEAN
      BY <2>6 DEF LockCv
    <3>4. TypeOK'
      BY <2>6, <3>3 DEF LockCv, Goto
    <3>5. MutexesAreHeld'
      BY <2>6, SMTT(30) DEF LockCv, Goto, MutexesAreHeld
    <3>6. CounterCounts'
      BY <2>6, <3>2 DEF LockCv, Goto, CounterCounts
    <3>7. NothingIsLost'
      BY <2>6 DEF LockCv, Goto, NothingIsLost
    <3> QED
      BY <3>4, <3>5, <3>6, <3>7
  <2>7. CASE Notify(w)
    <3>1. Running' = Running
      BY <2>7 DEF Notify, Goto, Running
    <3>2. Cardinality(Running)' = Cardinality(Running)
      BY <3>1
    <3>3. ending' \in BOOLEAN
      BY <2>7 DEF Notify
    <3>4. TypeOK'
      BY <2>7, <3>3 DEF Notify, Goto
    <3>5. MutexesAreHeld'
      BY <2>7 DEF Notify, Goto, MutexesAreHeld
    <3>6. CounterCounts'
      BY <2>7, <3>2 DEF Notify, Goto, CounterCounts
    <3>7. NothingIsLost'
      BY <2>7 DEF Notify, Goto, NothingIsLost
    <3> QED
      BY <3>4, <3>5, <3>6, <3>7
  <2>8. CASE UnlockCv(w)
    <3>1. Running' = Running
      BY <2>8 DEF UnlockCv, Goto, Running
    <3>2. Cardinality(Running)' = Cardinality(Running)
      BY <3>1
    <3>3. ending' \in BOOLEAN
      BY <2>8 DEF UnlockCv
    <3>4. TypeOK'
      BY <2>8, <3>3, SMTT(30) DEF UnlockCv, Goto
    <3>5. MutexesAreHeld'
      BY <2>8, SMTT(30) DEF UnlockCv, Goto, MutexesAreHeld
    <3>6. CounterCounts'
      BY <2>8, <3>2 DEF UnlockCv, Goto, CounterCounts
    <3>7. NothingIsLost'
      BY <2>8 DEF UnlockCv, Goto, NothingIsLost
    <3> QED
      BY <3>4, <3>5, <3>6, <3>7
  <2>9. CASE Decrement(w)
    <3>1. Running' = Running \ {w} /\ w \in Running
      BY <2>9 DEF Decrement, Goto, Running
    <3>2. counter' = Cardinality(Running)'
      BY <2>9, <3>1, RunningChanges DEF Decrement, CounterCounts
    <3>3. counter' \in 0..N
      <4>1. Running' \in SUBSET Workers
        BY <3>1 DEF Running
      <4> QED
        BY <3>2, <4>1, WorkersAreFinite
    <3>4. TypeOK'
      <4>1. ending' \in BOOLEAN
        BY <2>9 DEF Decrement
      <4> QED
        BY <2>9, <3>3, <4>1 DEF Decrement, Goto
    <3>5. MutexesAreHeld'
      BY <2>9 DEF Decrement, Goto, MutexesAreHeld
    <3>6. CounterCounts'
      <4>1. counter' <= max_parallel_threads
        BY <2>9, <3>3 DEF Decrement, CounterCounts
      <4>2. main \in {"lock", "loop"} => counter' < max_parallel_threads
        BY <2>9, <3>3 DEF Decrement, CounterCounts
      <4> QED
        BY <2>9, <3>2, <4>1, <4>2 DEF Decrement, Goto, CounterCounts
    <3>7. NothingIsLost'
      BY <2>9 DEF Decrement, Goto, NothingIsLost
    <3> QED
      BY <3>4, <3>5, <3>6, <3>7
  <2> QED
    BY <1>10, <2>1, <2>2, <2>3, <2>4, <2>5, <2>6, <2>7, <2>8, <2>9 DEF WorkerNext
<1>11. CASE UNCHANGED vars
  <2>1. Running' = Running
    BY <1>11 DEF vars, Running
  <2> QED
    BY <1>11, <2>1, RunningChanges DEF vars, MutexesAreHeld, CounterCounts, NothingIsLost
<1> QED
  BY <1>1, <1>2, <1>3, <1>4, <1>5, <1>6, <1>7, <1>8, <1>9, <1>10, <1>11
     DEF Next, MainNext, Finished

\* The invariant holds however the threads are scheduled.
THEOREM Invariance == Spec => []IInv
BY InitIInv, NextIInv, PTL DEF Spec

\* The counter, the mutexes and the result keep their types; in particular the
\* counter of sthread.cc:63 is never decremented below zero.
THEOREM TypeCorrect == Spec => []TypeOK
<1>1. IInv => TypeOK
  BY DEF IInv
<1> QED
  BY <1>1, Invariance, PTL

\* detach_thread_group::run never lets more than max_parallel_threads threads
\* compute, and its counter is their number.
THEOREM LimitIsKept == Spec => []NeverTooMany
<1>1. IInv => NeverTooMany
  BY DEF IInv, CounterCounts, NeverTooMany
<1> QED
  BY <1>1, Invariance, PTL

\* No thread is left that could touch the group when run() has returned: as the
\* last one notifies before it unlocks mut_cv, run() cannot return in between.
THEOREM GroupIsSafe == Spec => []GroupOutlivesItsThreads
<1>1. IInv => GroupOutlivesItsThreads
  BY DEF IInv, CounterCounts, GroupOutlivesItsThreads
<1> QED
  BY <1>1, Invariance, PTL

\* The result holds every addition of every worker when run() returns.
THEOREM NoAdditionIsLost == Spec => []ResultIsComplete
<1>1. IInv => ResultIsComplete
  BY DEF IInv, TypeOK, CounterCounts, NothingIsLost, ResultIsComplete
<1> QED
  BY <1>1, Invariance, PTL

-----------------------------------------------------------------------------
(* Functions that are defined by recursion *)

\* Starting from a, the first j values of a function whose value at i + 1 the
\* function s[i] computes from that at i.
IsIterated(h, s, a, j) ==
    /\ h \in [0..j -> Int] /\ h[0] = a
    /\ \A i \in 0..(j - 1) : h[i + 1] = s[i][h[i]]

LEMMA Iterated ==
  ASSUME NEW s \in [Nat -> [Int -> Int]], NEW a \in Int
  PROVE  \E g \in [Nat -> Int] : g[0] = a /\ \A i \in Nat : g[i + 1] = s[i][g[i]]
<1> DEFINE Is(h, j) == IsIterated(h, s, a, j)
           X == {j \in Nat : \E h : Is(h, j)}
           H(j) == CHOOSE h : Is(h, j)
           g == [j \in Nat |-> H(j)[j]]
<1>1. ASSUME NEW j \in Nat PROVE Is(H(j), j)
  <2>1. 0 \in X
    <3>1. Is([i \in 0..0 |-> a], 0)
      BY DEF IsIterated
    <3> HIDE DEF Is
    <3> QED
      BY <3>1
  <2>2. ASSUME NEW i \in Nat, i \in X PROVE i + 1 \in X
    <3>1. PICK h : Is(h, i)
      BY <2>2
    <3> DEFINE e == [l \in 0..(i + 1) |-> IF l <= i THEN h[l] ELSE s[i][h[i]]]
    <3>2. h \in [0..i -> Int] /\ h[0] = a /\ \A l \in 0..(i - 1) : h[l + 1] = s[l][h[l]]
      BY <3>1 DEF IsIterated
    <3>3. s[i] \in [Int -> Int] /\ h[i] \in Int
      BY <3>2
    <3>4. e \in [0..(i + 1) -> Int] /\ e[0] = a
      BY <3>2, <3>3
    <3>5. ASSUME NEW l \in 0..((i + 1) - 1) PROVE e[l + 1] = s[l][e[l]]
      <4>1. CASE l = i
        BY <3>2, <3>5, <4>1
      <4>2. CASE l # i
        BY <3>2, <3>5, <4>2
      <4> QED
        BY <4>1, <4>2
    <3>6. Is(e, i + 1)
      BY <3>4, <3>5 DEF IsIterated
    <3> HIDE DEF Is, e
    <3> QED
      BY <3>6
  <2> HIDE DEF X
  <2>3. j \in X
    BY <2>1, <2>2, NatInductionOnSet
  <2> HIDE DEF Is
  <2>4. \E h : Is(h, j)
    BY <2>3 DEF X
  <2> QED
    BY <2>4
<1>2. ASSUME NEW j \in Nat PROVE H(j + 1)[j] = H(j)[j]
  <2> DEFINE Y == {i \in Nat : i <= j => H(j + 1)[i] = H(j)[i]}
  <2>1. Is(H(j), j) /\ Is(H(j + 1), j + 1)
    BY <1>1
  <2> HIDE DEF H
  <2>2. 0 \in Y
    BY <2>1 DEF IsIterated
  <2>3. ASSUME NEW i \in Nat, i \in Y PROVE i + 1 \in Y
    <3> SUFFICES ASSUME i + 1 <= j PROVE H(j + 1)[i + 1] = H(j)[i + 1]
      OBVIOUS
    <3>1. i \in 0..(j - 1) /\ i \in 0..((j + 1) - 1)
      OBVIOUS
    <3>2. H(j + 1)[i + 1] = s[i][H(j + 1)[i]] /\ H(j)[i + 1] = s[i][H(j)[i]]
      BY <2>1, <3>1 DEF IsIterated
    <3> QED
      BY <2>3, <3>2
  <2> HIDE DEF Y
  <2>4. j \in Y
    BY <2>2, <2>3, NatInductionOnSet
  <2> QED
    BY <2>4 DEF Y
<1>3. ASSUME NEW j \in Nat
      PROVE  H(j)[j] \in Int /\ H(0)[0] = a /\ H(j + 1)[j + 1] = s[j][H(j + 1)[j]]
  <2>1. Is(H(j), j) /\ Is(H(0), 0) /\ Is(H(j + 1), j + 1)
    BY <1>1
  <2> HIDE DEF H
  <2> QED
    BY <2>1 DEF IsIterated
<1> HIDE DEF H
<1>4. g \in [Nat -> Int] /\ g[0] = a /\ \A i \in Nat : g[i + 1] = s[i][g[i]]
  <2>1. ASSUME NEW i \in Nat PROVE g[i + 1] = s[i][g[i]]
    <3>1. g[i + 1] = H(i + 1)[i + 1] /\ g[i] = H(i)[i]
      OBVIOUS
    <3>2. H(i + 1)[i + 1] = s[i][H(i + 1)[i]] /\ H(i + 1)[i] = H(i)[i]
      BY <1>2, <1>3
    <3> QED
      BY <3>1, <3>2
  <2> QED
    BY <1>3, <2>1
<1> HIDE DEF g
<1> QED
  BY <1>4

-----------------------------------------------------------------------------
(* Falling factorials and binomial coefficients *)

LEMMA FallingIs ==
  ASSUME NEW m \in Int
  PROVE  /\ Falling(m, 0) = 1
         /\ \A j \in Nat : Falling(m, j) \in Int /\ Falling(m, j + 1) = Falling(m, j) * (m - j)
<1> DEFINE s == [i \in Nat |-> [x \in Int |-> x * (m - i)]]
           F(p) == [i \in Nat |-> IF i = 0 THEN 1 ELSE p[i - 1] * (m - i + 1)]
           q == CHOOSE p : p = F(p)
<1>1. s \in [Nat -> [Int -> Int]]
  OBVIOUS
<1> HIDE DEF s
<1>2. PICK g \in [Nat -> Int] : g[0] = 1 /\ \A i \in Nat : g[i + 1] = s[i][g[i]]
  <2>1. 1 \in Int
    OBVIOUS
  <2> QED
    BY <1>1, <2>1, Iterated, Zenon
<1>3. ASSUME NEW i \in Nat \ {0} PROVE g[i] = g[i - 1] * (m - i + 1)
  <2>1. i - 1 \in Nat /\ (i - 1) + 1 = i /\ m - (i - 1) = m - i + 1
    OBVIOUS
  <2>2. g[i] = s[i - 1][g[i - 1]]
    BY <1>2, <2>1
  <2> QED
    BY <2>1, <2>2 DEF s
<1>4. g = F(g)
  BY <1>2, <1>3
<1> HIDE DEF F
<1>5. q = F(q)
  BY <1>4
<1> HIDE DEF q
<1>6. \A j \in Nat : Falling(m, j) = q[j]
  BY DEF Falling, q, F
<1>7. q[0] = 1 /\ \A j \in Nat : q[j + 1] = q[j] * (m - j)
  <2>1. q = [i \in Nat |-> IF i = 0 THEN 1 ELSE q[i - 1] * (m - i + 1)]
    BY <1>5 DEF F
  <2>2. ASSUME NEW j \in Nat PROVE q[j + 1] = q[j] * (m - j)
    <3>1. j + 1 \in Nat /\ j + 1 # 0 /\ (j + 1) - 1 = j /\ m - (j + 1) + 1 = m - j
      OBVIOUS
    <3>2. q[j + 1] = q[(j + 1) - 1] * (m - (j + 1) + 1)
      BY <2>1, <3>1
    <3> QED
      BY <3>1, <3>2
  <2> QED
    BY <2>1, <2>2
<1>8. ASSUME NEW j \in Nat PROVE q[j] \in Int
  <2> DEFINE X == {i \in Nat : q[i] \in Int}
  <2>1. 0 \in X
    BY <1>7
  <2>2. ASSUME NEW i \in Nat, i \in X PROVE i + 1 \in X
    BY <1>7, <2>2
  <2> HIDE DEF X
  <2>3. j \in X
    BY <2>1, <2>2, NatInductionOnSet
  <2> QED
    BY <2>3 DEF X
<1> QED
  BY <1>6, <1>7, <1>8

\* (m + 1) m ... = (m + 1) (m ...)
LEMMA FallingFromNext ==
  ASSUME NEW m \in Nat, NEW j \in Nat
  PROVE  Falling(m + 1, j + 1) = (m + 1) * Falling(m, j)
<1> DEFINE X == {i \in Nat : Falling(m + 1, i + 1) = (m + 1) * Falling(m, i)}
<1>1. 0 \in X
  <2>1. Falling(m + 1, 0) = 1 /\ Falling(m + 1, 0 + 1) = Falling(m + 1, 0) * ((m + 1) - 0)
    BY FallingIs
  <2>2. Falling(m, 0) = 1
    BY FallingIs
  <2> QED
    BY <2>1, <2>2
<1>2. ASSUME NEW i \in Nat, i \in X PROVE i + 1 \in X
  <2> DEFINE f == Falling(m, i)
  <2>1. f \in Int /\ Falling(m, i + 1) = f * (m - i)
    BY FallingIs
  <2>2. Falling(m + 1, (i + 1) + 1) = Falling(m + 1, i + 1) * ((m + 1) - (i + 1))
    <3>1. m + 1 \in Int /\ i + 1 \in Nat
      OBVIOUS
    <3> QED
      BY <3>1, FallingIs
  <2>3. Falling(m + 1, i + 1) = (m + 1) * f
    BY <1>2
  <2>4. (m + 1) - (i + 1) = m - i
    OBVIOUS
  <2> HIDE DEF f
  <2>5. ((m + 1) * f) * (m - i) = (m + 1) * (f * (m - i))
    BY <2>1
  <2> QED
    BY <2>1, <2>2, <2>3, <2>4, <2>5
<1> HIDE DEF X
<1>3. j \in X
  BY <1>1, <1>2, NatInductionOnSet
<1> QED
  BY <1>3 DEF X

\* v is m over j.
IsBinomial(v, m, j) == v \in Int /\ v * Falling(j, j) = Falling(m, j)

LEMMA OverZero ==
  ASSUME NEW m \in Nat
  PROVE  IsBinomial(1, m, 0)
<1>1. Falling(0, 0) = 1 /\ Falling(m, 0) = 1
  BY FallingIs
<1> QED
  BY <1>1 DEF IsBinomial

LEMMA OverOne ==
  ASSUME NEW m \in Nat
  PROVE  IsBinomial(m, m, 1)
<1>1. /\ Falling(1, 0) = 1 /\ Falling(1, 0 + 1) = Falling(1, 0) * (1 - 0)
      /\ Falling(m, 0) = 1 /\ Falling(m, 0 + 1) = Falling(m, 0) * (m - 0)
  BY FallingIs
<1> QED
  BY <1>1 DEF IsBinomial

LEMMA OverOneLess ==
  ASSUME NEW j \in Nat
  PROVE  IsBinomial(j + 1, j + 1, j)
<1>1. Falling(j + 1, j + 1) = (j + 1) * Falling(j, j)
  BY FallingFromNext
<1>2. Falling(j + 1, j) \in Int /\ Falling(j + 1, j + 1) = Falling(j + 1, j) * ((j + 1) - j)
  BY FallingIs
<1> QED
  BY <1>1, <1>2 DEF IsBinomial

\* The rule that builds the triangle.
LEMMA Pascal ==
  ASSUME NEW m \in Nat, NEW j \in Nat, NEW a, NEW b,
         IsBinomial(a, m, j), IsBinomial(b, m, j + 1)
  PROVE  IsBinomial(a + b, m + 1, j + 1)
<1> DEFINE f == Falling(j, j)
           g == Falling(m, j)
<1>1. a \in Int /\ b \in Int /\ a * f = g /\ b * Falling(j + 1, j + 1) = Falling(m, j + 1)
  BY DEF IsBinomial
<1>2. f \in Int /\ g \in Int /\ Falling(m, j + 1) = g * (m - j)
  BY FallingIs
<1>3. Falling(j + 1, j + 1) = (j + 1) * f /\ Falling(m + 1, j + 1) = (m + 1) * g
  BY FallingFromNext
<1> HIDE DEF f, g
<1>4. a * ((j + 1) * f) = (j + 1) * (a * f)
  BY <1>1, <1>2
<1>5. (a + b) * ((j + 1) * f) = a * ((j + 1) * f) + b * ((j + 1) * f)
  BY <1>1, <1>2
<1>6. (j + 1) * g + g * (m - j) = (m + 1) * g
  BY <1>2
<1>7. a * Falling(j + 1, j + 1) = (j + 1) * g
  BY <1>1, <1>3, <1>4
<1>8. (a + b) * Falling(j + 1, j + 1) = (j + 1) * g + g * (m - j)
  BY <1>1, <1>2, <1>3, <1>5, <1>7
<1> QED
  BY <1>1, <1>3, <1>6, <1>8 DEF IsBinomial

-----------------------------------------------------------------------------
(* Rows *)

\* r is the part of row j that begins with j + 1 over j.
RowIs(r, j) == r \in Seq(Int) /\ \A i \in 1..Len(r) : IsBinomial(r[i], j + i, j)

LEMMA FirstProlonged ==
  ASSUME NEW r, RowIs(r, 1), NEW m \in Nat, m > Len(r) + 1
  PROVE  RowIs(prolongFirst(r, m), 1) /\ Len(prolongFirst(r, m)) = m - 1
<1> DEFINE e == [i \in 1..(m - Len(r) - 1) |-> Len(r) + 1 + i]
           p == r \o e
<1>1. r \in Seq(Int) /\ Len(r) \in Nat
  BY DEF RowIs
<1>2. /\ e \in Seq(Int) /\ Len(e) = m - Len(r) - 1
      /\ \A i \in 1..Len(e) : e[i] = Len(r) + 1 + i
  BY <1>1
<1> HIDE DEF e
<1>3. p \in Seq(Int) /\ Len(p) = m - 1
  BY <1>1, <1>2
<1>4. ASSUME NEW i \in 1..Len(p) PROVE IsBinomial(p[i], 1 + i, 1)
  <2>1. CASE i <= Len(r)
    BY <1>1, <1>2, <2>1 DEF RowIs
  <2>2. CASE i > Len(r)
    <3>1. i - Len(r) \in 1..Len(e) /\ p[i] = e[i - Len(r)]
      BY <1>1, <1>2, <1>3, <2>2
    <3>2. p[i] = 1 + i /\ 1 + i \in Nat
      BY <1>1, <1>2, <1>3, <3>1
    <3> QED
      BY <3>2, OverOne
  <2> QED
    BY <1>1, <1>3, <2>1, <2>2
<1>5. prolongFirst(r, m) = p
  BY DEF prolongFirst, e
<1> QED
  BY <1>3, <1>4, <1>5 DEF RowIs

LEMMA Prolonged ==
  ASSUME NEW j \in Nat, NEW r, RowIs(r, j + 1), NEW prev, RowIs(prev, j),
         Len(r) <= Len(prev), prev # <<>>
  PROVE  RowIs(prolong(r, j + 1, prev), j + 1) /\ Len(prolong(r, j + 1, prev)) = Len(prev)
<1> DEFINE first == IF r = <<>> THEN <<(j + 1) + 1>> ELSE r
           size == IF Len(prev) > Len(first) THEN Len(prev) ELSE Len(first)
           F(q) == [i \in 1..size |-> IF i <= Len(first) THEN first[i] ELSE q[i - 1] + prev[i]]
           p == CHOOSE q : q = F(q)
           L == Len(prev)
           s == [i \in Nat |-> [x \in Int |->
                   IF i + 1 <= Len(first) THEN first[i + 1]
                   ELSE IF i + 1 <= L THEN x + prev[i + 1] ELSE 0]]
<1>1. r \in Seq(Int) /\ prev \in Seq(Int) /\ L \in Nat \ {0}
  BY DEF RowIs
<1>2. RowIs(first, j + 1) /\ Len(first) \in 1..L /\ size = L
  <2>1. CASE r = <<>>
    <3>1. IsBinomial((j + 1) + 1, (j + 1) + 1, j + 1)
      BY OverOneLess
    <3> QED
      BY <1>1, <2>1, <3>1 DEF RowIs
  <2>2. CASE r # <<>>
    BY <1>1, <2>2
  <2> QED
    BY <2>1, <2>2
<1>3. prolong(r, j + 1, prev) = p
  BY DEF prolong
<1> HIDE DEF first, size
<1>4. \E q : q = F(q)
  <2>1. first \in Seq(Int)
    BY <1>2 DEF RowIs
  <2>2. s \in [Nat -> [Int -> Int]] /\ 0 \in Int
    BY <1>1, <1>2, <2>1
  <2>3. \A i \in Nat : \A x \in Int : s[i][x] =
                   IF i + 1 <= Len(first) THEN first[i + 1]
                   ELSE IF i + 1 <= L THEN x + prev[i + 1] ELSE 0
    OBVIOUS
  <2> HIDE DEF s
  <2>4. PICK g \in [Nat -> Int] : g[0] = 0 /\ \A i \in Nat : g[i + 1] = s[i][g[i]]
    BY <2>2, Iterated, Zenon
  <2> DEFINE h == [i \in 1..size |-> g[i]]
  <2>5. ASSUME NEW i \in 1..size
        PROVE  g[i] = IF i <= Len(first) THEN first[i] ELSE h[i - 1] + prev[i]
    <3>1. i - 1 \in Nat /\ (i - 1) + 1 = i /\ g[i - 1] \in Int /\ i <= L
      BY <1>1, <1>2
    <3>2. g[i] = s[i - 1][g[i - 1]]
      BY <2>4, <3>1
    <3>3. g[i] = IF i <= Len(first) THEN first[i] ELSE g[i - 1] + prev[i]
      BY <2>3, <3>1, <3>2
    <3>4. i > Len(first) => i - 1 \in 1..size
      BY <1>1, <1>2
    <3> QED
      BY <1>2, <3>1, <3>3, <3>4
  <2>6. h = F(h)
    BY <2>5
  <2> HIDE DEF h, F
  <2> QED
    BY <2>6
<1> HIDE DEF F
<1>5. p = F(p)
  BY <1>4
<1> HIDE DEF p
<1>6. /\ p = [i \in 1..L |-> p[i]]
      /\ \A i \in 1..L : p[i] = IF i <= Len(first) THEN first[i] ELSE p[i - 1] + prev[i]
  BY <1>2, <1>5 DEF F
<1>7. ASSUME NEW i \in 1..L PROVE IsBinomial(p[i], (j + 1) + i, j + 1)
  <2> DEFINE X == {l \in Nat : l + 1 <= L => IsBinomial(p[l + 1], (j + 1) + (l + 1), j + 1)}
  <2>1. 0 \in X
    <3>1. 1 \in 1..L /\ 1 \in 1..Len(first) /\ 1 <= Len(first)
      BY <1>1, <1>2
    <3>2. p[1] = first[1]
      BY <1>6, <3>1
    <3>3. IsBinomial(first[1], (j + 1) + 1, j + 1)
      BY <1>2, <3>1 DEF RowIs
    <3> QED
      BY <3>2, <3>3
  <2>2. ASSUME NEW l \in Nat, l \in X PROVE l + 1 \in X
    <3> DEFINE m == l + 1
    <3> SUFFICES ASSUME m + 1 <= L PROVE IsBinomial(p[m + 1], (j + 1) + (m + 1), j + 1)
      OBVIOUS
    <3>1. m + 1 \in 1..L /\ (m + 1) - 1 = m /\ m <= L
      BY <1>1
    <3>2. CASE m + 1 <= Len(first)
      <4>1. p[m + 1] = first[m + 1]
        BY <1>6, <3>1, <3>2
      <4>2. m + 1 \in 1..Len(first)
        BY <1>2, <3>2
      <4> HIDE DEF m
      <4> QED
        BY <1>2, <4>1, <4>2 DEF RowIs
    <3>3. CASE ~ (m + 1 <= Len(first))
      <4>1. p[m + 1] = p[m] + prev[m + 1]
        BY <1>6, <3>1, <3>3
      <4>2. IsBinomial(p[m], (j + 1) + m, j + 1)
        BY <2>2, <3>1
      <4>3. IsBinomial(prev[m + 1], j + (m + 1), j)
        BY <3>1 DEF RowIs
      <4> HIDE DEF m
      <4>4. /\ (j + 1) + m \in Nat /\ j + (m + 1) = (j + 1) + m
            /\ (j + 1) + (m + 1) = ((j + 1) + m) + 1
        BY DEF m
      <4>5. IsBinomial(prev[m + 1] + p[m], ((j + 1) + m) + 1, j + 1)
        BY <4>2, <4>3, <4>4, Pascal
      <4>6. prev[m + 1] + p[m] = p[m] + prev[m + 1]
        BY <4>2, <4>3 DEF IsBinomial
      <4> QED
        BY <4>1, <4>4, <4>5, <4>6
    <3> QED
      BY <3>2, <3>3
  <2> HIDE DEF X
  <2>3. i - 1 \in Nat /\ (i - 1) + 1 = i /\ i <= L
    BY <1>1
  <2>4. i - 1 \in X
    BY <2>1, <2>2, <2>3, NatInductionOnSet
  <2> QED
    BY <2>3, <2>4 DEF X
<1>8. \A i \in 1..L : p[i] \in Int
  BY <1>7 DEF IsBinomial
<1>9. p \in Seq(Int) /\ Len(p) = L
  BY <1>1, <1>6, <1>8
<1> QED
  BY <1>3, <1>7, <1>9 DEF RowIs

-----------------------------------------------------------------------------
(* The invariant *)

\* One thread, with arguments for which there are binomial coefficients.
OneCaller(c) ==
    /\ Callers = {c} /\ Calls \in Nat
    /\ Arguments \subseteq {a \in Nat \X Nat : a[2] <= a[1]}

Places == {"idle", "one", "along_n", "lock_n", "first", "others", "along_k", "lock_k", "rows",
           "fill", "read"}

\* The table t when the caller is at p: each row is a part of the triangle, as long
\* as the first one, but for those that are yet to be prolonged, and for the row
\* that was just added.
TableOf(t, p, r) ==
    /\ t \in Seq(Seq(Int)) /\ Len(t) >= 1 /\ Len(t[1]) >= 1
    /\ \A j \in 1..Len(t) : \/ p = "fill" /\ j = Len(t)
                            \/ /\ RowIs(t[j], j)
                               /\ Len(t[j]) = Len(t[1])
                                     \/ (p = "others" /\ j >= r /\ Len(t[j]) <= Len(t[1]))
    /\ p = "others" => r \in 2..(Len(t) + 1)
    /\ p = "rows" => r = Len(t) + 1
    /\ p = "fill" => r = Len(t) /\ r >= 2

\* What the caller at p knows of the extent of the table t.
CallOf(t, p, m, j) ==
    /\ m \in Nat /\ j \in Nat /\ j + j <= m
    /\ p = "one" => j = 0
    /\ p \notin {"idle", "one"} => j # 0
    /\ p \in {"lock_n", "first"} => m > Len(t[1]) + 1
    /\ p \in {"others", "along_k", "lock_k", "rows", "fill", "read"} => m <= Len(t[1]) + 1
    /\ p = "read" => j <= Len(t)

TableInv(c) ==
    /\ at \in [{c} -> Places] /\ n \in [{c} -> Nat] /\ k \in [{c} -> Nat]
    /\ row \in [{c} -> Nat] /\ left \in [{c} -> Int] /\ value \in [{c} -> Int]
    /\ TableOf(tr, at[c], row[c])
    /\ CallOf(tr, at[c], n[c], k[c])
    /\ at[c] = "idle" /\ left[c] < Calls => IsBinomial(value[c], n[c], k[c])

LEMMA InitTable ==
  ASSUME NEW c, OneCaller(c)
  PROVE  PascalInit => TableInv(c)
<1> SUFFICES ASSUME PascalInit PROVE TableInv(c)
  OBVIOUS
<1>1. /\ tr = <<<<2>>>> /\ at \in [{c} -> Places] /\ at[c] = "idle"
      /\ n \in [{c} -> Nat] /\ k \in [{c} -> Nat] /\ n[c] = 0 /\ k[c] = 0
      /\ row \in [{c} -> Nat] /\ left \in [{c} -> Int] /\ left[c] = Calls
      /\ value \in [{c} -> Int] /\ Calls \in Nat
  BY DEF PascalInit, OneCaller, Places
<1>2. RowIs(<<2>>, 1)
  <2>1. IsBinomial(2, 2, 1)
    BY OverOne
  <2> QED
    BY <2>1 DEF RowIs
<1>3. TableOf(tr, at[c], row[c])
  <2>1. Len(tr) = 1 /\ tr[1] = <<2>> /\ tr \in Seq(Seq(Int)) /\ Len(tr[1]) = 1
    BY <1>1
  <2> QED
    BY <1>1, <1>2, <2>1 DEF TableOf
<1> QED
  BY <1>1, <1>3 DEF TableInv, CallOf

\* The caller's place changes as an action says.
LEMMA Gone ==
  ASSUME NEW c, TableInv(c), NEW from, NEW to \in Places, Moves(c, from, to)
  PROVE  at[c] = from /\ at' \in [{c} -> Places] /\ at'[c] = to
BY DEF TableInv, Moves

LEMMA CallTable ==
  ASSUME NEW c, OneCaller(c), TableInv(c), NEW a \in Arguments, Call(c, a)
  PROVE  TableInv(c)'
<1> DEFINE j == IF a[1] - a[2] < a[2] THEN a[1] - a[2] ELSE a[2]
           to == IF j = 0 THEN "one" ELSE "along_n"
<1>1. a[1] \in Nat /\ a[2] \in Nat /\ a[2] <= a[1]
  BY DEF OneCaller
<1>2. j \in Nat /\ j + j <= a[1] /\ a[1] \in Nat
  BY <1>1
<1>3. /\ Moves(c, "idle", to) /\ n' = [n EXCEPT ![c] = a[1]] /\ k' = [k EXCEPT ![c] = j]
      /\ left' = [left EXCEPT ![c] = @ - 1] /\ UNCHANGED <<tr, row, value>>
  BY DEF Call
<1>4. (to = "one" <=> j = 0) /\ to \in {"one", "along_n"}
  OBVIOUS
<1> HIDE DEF j, to
<1>5. at[c] = "idle" /\ at' \in [{c} -> Places] /\ at'[c] = to
  <2>1. to \in Places
    BY <1>4 DEF Places
  <2> QED
    BY <1>3, <2>1, Gone
<1>6. /\ n' \in [{c} -> Nat] /\ k' \in [{c} -> Nat] /\ left' \in [{c} -> Int]
      /\ n'[c] = a[1] /\ k'[c] = j /\ row' \in [{c} -> Nat] /\ value' \in [{c} -> Int]
  BY <1>2, <1>3 DEF TableInv
<1>7. TableOf(tr', at'[c], row'[c])
  BY <1>3, <1>4, <1>5 DEF TableInv, TableOf
<1>8. CallOf(tr', at'[c], n'[c], k'[c])
  BY <1>2, <1>4, <1>5, <1>6 DEF CallOf
<1> QED
  BY <1>4, <1>5, <1>6, <1>7, <1>8 DEF TableInv

\* Steps that change neither the table nor the arguments.
LEMMA TestTable ==
  ASSUME NEW c, OneCaller(c), TableInv(c),
         ReturnOne(c) \/ TestN(c) \/ LockN(c) \/ UnlockN(c) \/ TestK(c) \/ LockK(c) \/ UnlockK(c)
  PROVE  TableInv(c)'
<1>1. /\ at[c] \in Places /\ n[c] \in Nat /\ k[c] \in Nat
      /\ TableOf(tr, at[c], row[c]) /\ CallOf(tr, at[c], n[c], k[c])
  BY DEF TableInv
<1>2. CASE ReturnOne(c)
  <2>1. at[c] = "one" /\ at' \in [{c} -> Places] /\ at'[c] = "idle"
    BY <1>2, Gone DEF ReturnOne, Places
  <2>2. value' \in [{c} -> Int] /\ value'[c] = 1 /\ UNCHANGED <<tr, n, k, row, left>>
    BY <1>2 DEF ReturnOne, TableInv
  <2>3. k[c] = 0 /\ IsBinomial(1, n[c], 0)
    BY <1>1, <2>1, OverZero DEF CallOf
  <2>4. TableOf(tr', at'[c], row'[c]) /\ CallOf(tr', at'[c], n'[c], k'[c])
    BY <1>1, <2>1, <2>2 DEF TableOf, CallOf
  <2> QED
    BY <2>1, <2>2, <2>3, <2>4 DEF TableInv
<1>3. CASE TestN(c)
  <2> DEFINE to == IF n[c] > max_n THEN "lock_n" ELSE "along_k"
  <2>1. at[c] = "along_n" /\ at' \in [{c} -> Places] /\ at'[c] = to
    <3>1. to \in Places
      BY DEF Places
    <3> QED
      BY <1>3, <3>1, Gone DEF TestN
  <2>2. UNCHANGED <<tr, n, k, row, left, value>>
    BY <1>3 DEF TestN
  <2>3. TableOf(tr', at'[c], row'[c]) /\ CallOf(tr', at'[c], n'[c], k'[c])
    BY <1>1, <2>1, <2>2 DEF TableOf, CallOf, max_n
  <2> QED
    BY <2>1, <2>2, <2>3 DEF TableInv
<1>4. CASE LockN(c)
  <2>1. at[c] = "lock_n" /\ at' \in [{c} -> Places] /\ at'[c] = "first"
    BY <1>4, Gone DEF LockN, Places
  <2>2. UNCHANGED <<tr, n, k, row, left, value>>
    BY <1>4 DEF LockN
  <2>3. TableOf(tr', at'[c], row'[c]) /\ CallOf(tr', at'[c], n'[c], k'[c])
    BY <1>1, <2>1, <2>2 DEF TableOf, CallOf
  <2> QED
    BY <2>1, <2>2, <2>3 DEF TableInv
<1>5. CASE UnlockN(c)
  <2>1. at[c] = "others" /\ at' \in [{c} -> Places] /\ at'[c] = "along_k"
    BY <1>5, Gone DEF UnlockN, Places
  <2>2. row[c] > Len(tr) /\ UNCHANGED <<tr, n, k, row, left, value>>
    BY <1>5 DEF UnlockN, max_k
  <2>3. TableOf(tr', at'[c], row'[c]) /\ CallOf(tr', at'[c], n'[c], k'[c])
    BY <1>1, <2>1, <2>2 DEF TableOf, CallOf
  <2> QED
    BY <2>1, <2>2, <2>3 DEF TableInv
<1>6. CASE TestK(c)
  <2> DEFINE to == IF k[c] > max_k THEN "lock_k" ELSE "read"
  <2>1. at[c] = "along_k" /\ at' \in [{c} -> Places] /\ at'[c] = to
    <3>1. to \in Places
      BY DEF Places
    <3> QED
      BY <1>6, <3>1, Gone DEF TestK
  <2>2. UNCHANGED <<tr, n, k, row, left, value>>
    BY <1>6 DEF TestK
  <2>3. TableOf(tr', at'[c], row'[c]) /\ CallOf(tr', at'[c], n'[c], k'[c])
    BY <1>1, <2>1, <2>2 DEF TableOf, CallOf, max_k
  <2> QED
    BY <2>1, <2>2, <2>3 DEF TableInv
<1>7. CASE LockK(c)
  <2>1. at[c] = "lock_k" /\ at' \in [{c} -> Places] /\ at'[c] = "rows"
    BY <1>7, Gone DEF LockK, Places
  <2>2. /\ row' = [row EXCEPT ![c] = Len(tr) + 1] /\ Len(tr) \in Nat
        /\ UNCHANGED <<tr, n, k, left, value>>
    BY <1>1, <1>7 DEF LockK, max_k, TableOf
  <2>3. row' \in [{c} -> Nat] /\ row'[c] = Len(tr) + 1
    BY <2>2 DEF TableInv
  <2>4. TableOf(tr', at'[c], row'[c]) /\ CallOf(tr', at'[c], n'[c], k'[c])
    BY <1>1, <2>1, <2>2, <2>3 DEF TableOf, CallOf
  <2> QED
    BY <2>1, <2>2, <2>3, <2>4 DEF TableInv
<1>8. CASE UnlockK(c)
  <2>1. at[c] = "rows" /\ at' \in [{c} -> Places] /\ at'[c] = "read"
    BY <1>8, Gone DEF UnlockK, Places
  <2>2. row[c] > k[c] /\ UNCHANGED <<tr, n, k, row, left, value>>
    BY <1>8 DEF UnlockK
  <2>3. row[c] = Len(tr) + 1 /\ Len(tr) \in Nat /\ k[c] \in Nat
    BY <1>1, <2>1 DEF TableOf, CallOf
  <2>4. k[c] <= Len(tr)
    BY <2>2, <2>3
  <2>5. TableOf(tr, "read", row[c])
    BY <1>1, <2>1 DEF TableOf
  <2>6. CallOf(tr, "read", n[c], k[c])
    BY <1>1, <2>1, <2>4 DEF CallOf
  <2> QED
    BY <2>1, <2>2, <2>5, <2>6 DEF TableInv
<1> QED
  BY <1>2, <1>3, <1>4, <1>5, <1>6, <1>7, <1>8

\* A row is replaced.
LEMMA RowReplaced ==
  ASSUME NEW t \in Seq(Seq(Int)), NEW j \in 1..Len(t), NEW r \in Seq(Int), NEW u,
         u = [t EXCEPT ![j] = r]
  PROVE  /\ u \in Seq(Seq(Int)) /\ Len(u) = Len(t) /\ u[j] = r
         /\ \A i \in 1..Len(t) : i # j => u[i] = t[i]
OBVIOUS

LEMMA FirstTable ==
  ASSUME NEW c, OneCaller(c), TableInv(c), First(c)
  PROVE  TableInv(c)'
<1> DEFINE r == prolongFirst(tr[1], n[c])
<1>1. at[c] = "first" /\ at' \in [{c} -> Places] /\ at'[c] = "others"
  BY Gone DEF First, Places
<1>2. /\ tr' = [tr EXCEPT ![1] = r] /\ row' \in [{c} -> Nat] /\ row'[c] = 2
      /\ UNCHANGED <<n, k, left, value>>
  BY DEF First, TableInv
<1>3. /\ tr \in Seq(Seq(Int)) /\ Len(tr) \in Nat \ {0} /\ Len(tr[1]) \in Nat \ {0}
      /\ (\A j \in 1..Len(tr) : RowIs(tr[j], j) /\ Len(tr[j]) = Len(tr[1]))
      /\ n[c] \in Nat /\ n[c] > Len(tr[1]) + 1
  BY <1>1 DEF TableInv, TableOf, CallOf
<1> HIDE DEF r
<1>4. RowIs(r, 1) /\ Len(r) = n[c] - 1
  <2>1. RowIs(tr[1], 1)
    BY <1>3
  <2> QED
    BY <1>3, <2>1, FirstProlonged DEF r
<1>5. /\ tr' \in Seq(Seq(Int)) /\ Len(tr') = Len(tr) /\ tr'[1] = r
      /\ \A j \in 1..Len(tr) : j # 1 => tr'[j] = tr[j]
  BY <1>2, <1>3, <1>4, RowReplaced DEF RowIs
<1>6. TableOf(tr', at'[c], row'[c])
  <2>1. ASSUME NEW j \in 1..Len(tr')
        PROVE  RowIs(tr'[j], j) /\ Len(tr'[j]) <= Len(tr'[1])
               /\ (Len(tr'[j]) = Len(tr'[1]) \/ j >= 2)
    <3>1. CASE j = 1
      BY <1>3, <1>4, <1>5, <3>1
    <3>2. CASE j # 1
      <4>1. j \in 1..Len(tr) /\ j >= 2
        BY <1>3, <1>5, <3>2
      <4>2. tr'[j] = tr[j] /\ RowIs(tr[j], j) /\ Len(tr[j]) = Len(tr[1])
        BY <1>3, <1>5, <3>2, <4>1
      <4>3. Len(tr[1]) <= Len(tr'[1])
        BY <1>3, <1>4, <1>5, SMTT(30)
      <4> QED
        BY <4>1, <4>2, <4>3
    <3> QED
      BY <3>1, <3>2
  <2>2. Len(tr'[1]) >= 1 /\ Len(tr') \in Nat \ {0}
    <3>1. n[c] - 1 >= 1 /\ Len(tr) \in Nat \ {0}
      BY <1>3
    <3>2. tr'[1] = r /\ Len(r) = n[c] - 1
      BY <1>4, <1>5
    <3> QED
      BY <1>5, <3>1, <3>2
  <2> QED
    BY <1>1, <1>2, <1>5, <2>1, <2>2 DEF TableOf
<1>7. CallOf(tr', at'[c], n'[c], k'[c])
  BY <1>1, <1>2, <1>3, <1>4, <1>5 DEF TableInv, CallOf
<1> QED
  BY <1>1, <1>2, <1>6, <1>7 DEF TableInv

LEMMA ProlongTable ==
  ASSUME NEW c, OneCaller(c), TableInv(c), Prolong(c)
  PROVE  TableInv(c)'
<1> DEFINE i == row[c]
           r == prolong(tr[i], i, tr[i - 1])
<1>1. at[c] = "others" /\ at' \in [{c} -> Places] /\ at'[c] = "others"
  BY Gone DEF Prolong, Places
<1>2. /\ tr' = [tr EXCEPT ![i] = r] /\ i <= Len(tr) /\ i \in Nat
      /\ row' \in [{c} -> Nat] /\ row'[c] = i + 1 /\ UNCHANGED <<n, k, left, value>>
  BY DEF Prolong, TableInv, max_k
<1>3. /\ tr \in Seq(Seq(Int)) /\ Len(tr) \in Nat \ {0} /\ Len(tr[1]) \in Nat \ {0}
      /\ i \in 2..Len(tr)
      /\ \A j \in 1..Len(tr) : RowIs(tr[j], j) /\ Len(tr[j]) <= Len(tr[1])
                               /\ (Len(tr[j]) = Len(tr[1]) \/ j >= i)
  <2>1. TableOf(tr, "others", i)
    BY <1>1 DEF TableInv
  <2>2. tr \in Seq(Seq(Int)) /\ Len(tr) \in Nat \ {0} /\ Len(tr[1]) \in Nat \ {0}
    BY <2>1 DEF TableOf
  <2>3. i \in 2..(Len(tr) + 1)
    BY <2>1 DEF TableOf
  <2>4. ASSUME NEW j \in 1..Len(tr)
        PROVE  RowIs(tr[j], j) /\ Len(tr[j]) <= Len(tr[1]) /\ (Len(tr[j]) = Len(tr[1]) \/ j >= i)
    BY <2>1, <2>2 DEF TableOf
  <2> QED
    BY <1>2, <2>2, <2>3, <2>4
<1> HIDE DEF i, r
<1>4. RowIs(r, i) /\ Len(r) = Len(tr[1])
  <2>1. i - 1 \in Nat /\ (i - 1) + 1 = i /\ i - 1 \in 1..Len(tr) /\ i \in 1..Len(tr)
    BY <1>3
  <2>2. RowIs(tr[i], i) /\ RowIs(tr[i - 1], i - 1) /\ Len(tr[i - 1]) = Len(tr[1])
    <3>1. RowIs(tr[i], i)
      BY <1>3, <2>1
    <3>2. RowIs(tr[i - 1], i - 1) /\ (Len(tr[i - 1]) = Len(tr[1]) \/ i - 1 >= i)
      BY <1>3, <2>1
    <3>3. ~(i - 1 >= i)
      BY <1>3
    <3> QED
      BY <3>1, <3>2, <3>3
  <2>3. Len(tr[i]) <= Len(tr[i - 1]) /\ tr[i - 1] # <<>>
    BY <1>3, <2>1, <2>2
  <2>4. RowIs(tr[i], (i - 1) + 1)
    BY <2>1, <2>2
  <2>5. /\ RowIs(prolong(tr[i], (i - 1) + 1, tr[i - 1]), (i - 1) + 1)
        /\ Len(prolong(tr[i], (i - 1) + 1, tr[i - 1])) = Len(tr[i - 1])
    BY <2>1, <2>2, <2>3, <2>4, Prolonged
  <2> QED
    BY <2>1, <2>2, <2>5 DEF r
<1>5. /\ tr' \in Seq(Seq(Int)) /\ Len(tr') = Len(tr) /\ tr'[i] = r
      /\ \A j \in 1..Len(tr) : j # i => tr'[j] = tr[j]
  <2>1. i \in 1..Len(tr) /\ r \in Seq(Int)
    BY <1>3, <1>4 DEF RowIs
  <2> QED
    BY <1>2, <1>3, <2>1, RowReplaced
<1>6. tr'[1] = tr[1]
  BY <1>3, <1>5
<1>7. TableOf(tr', at'[c], row'[c])
  <2>1. ASSUME NEW j \in 1..Len(tr')
        PROVE  RowIs(tr'[j], j) /\ Len(tr'[j]) <= Len(tr'[1])
               /\ (Len(tr'[j]) = Len(tr'[1]) \/ j >= i + 1)
    <3>1. CASE j = i
      BY <1>3, <1>4, <1>5, <1>6, <3>1
    <3>2. CASE j # i
      <4>1. j \in 1..Len(tr) /\ tr'[j] = tr[j]
        BY <1>5, <3>2
      <4>2. RowIs(tr[j], j) /\ Len(tr[j]) <= Len(tr[1]) /\ (Len(tr[j]) = Len(tr[1]) \/ j >= i)
        BY <1>3, <4>1
      <4>3. j >= i => j >= i + 1
        BY <1>2, <3>2, <4>1
      <4> QED
        BY <1>6, <4>1, <4>2, <4>3
    <3> QED
      BY <3>1, <3>2
  <2> QED
    BY <1>1, <1>2, <1>3, <1>5, <1>6, <2>1 DEF TableOf
<1>8. CallOf(tr', at'[c], n'[c], k'[c])
  BY <1>1, <1>2, <1>6 DEF TableInv, CallOf
<1> QED
  BY <1>1, <1>2, <1>7, <1>8 DEF TableInv

LEMMA AddRowTable ==
  ASSUME NEW c, OneCaller(c), TableInv(c), AddRow(c)
  PROVE  TableInv(c)'
<1>1. at[c] = "rows" /\ at' \in [{c} -> Places] /\ at'[c] = "fill"
  BY Gone DEF AddRow, Places
<1>2. tr' = Append(tr, <<2>>) /\ UNCHANGED <<n, k, row, left, value>>
  BY DEF AddRow
<1>3. /\ tr \in Seq(Seq(Int)) /\ Len(tr) \in Nat \ {0} /\ Len(tr[1]) \in Nat \ {0}
      /\ row[c] = Len(tr) + 1
      /\ \A j \in 1..Len(tr) : RowIs(tr[j], j) /\ Len(tr[j]) = Len(tr[1])
  BY <1>1 DEF TableInv, TableOf
<1>4. /\ tr' \in Seq(Seq(Int)) /\ Len(tr') = Len(tr) + 1
      /\ \A j \in 1..Len(tr) : tr'[j] = tr[j]
  <2>1. <<2>> \in Seq(Int)
    OBVIOUS
  <2> QED
    BY <1>2, <1>3, <2>1
<1>5. tr'[1] = tr[1]
  BY <1>3, <1>4
<1>6. TableOf(tr', at'[c], row'[c])
  <2>1. ASSUME NEW j \in 1..Len(tr')
        PROVE  j = Len(tr') \/ (RowIs(tr'[j], j) /\ Len(tr'[j]) = Len(tr'[1]))
    <3>1. CASE j \in 1..Len(tr)
      <4>1. tr'[j] = tr[j] /\ RowIs(tr[j], j) /\ Len(tr[j]) = Len(tr[1])
        BY <1>3, <1>4, <3>1
      <4> QED
        BY <1>5, <4>1
    <3>2. CASE j \notin 1..Len(tr)
      BY <1>3, <1>4, <3>2
    <3> QED
      BY <3>1, <3>2
  <2> QED
    BY <1>1, <1>2, <1>3, <1>4, <1>5, <2>1 DEF TableOf
<1>7. CallOf(tr', at'[c], n'[c], k'[c])
  BY <1>1, <1>2, <1>5 DEF TableInv, CallOf
<1> QED
  BY <1>1, <1>2, <1>6, <1>7 DEF TableInv

LEMMA FillRowTable ==
  ASSUME NEW c, OneCaller(c), TableInv(c), FillRow(c)
  PROVE  TableInv(c)'
<1> DEFINE i == row[c]
           r == prolong(<<>>, i, tr[i - 1])
<1>1. at[c] = "fill" /\ at' \in [{c} -> Places] /\ at'[c] = "rows"
  BY Gone DEF FillRow, Places
<1>2. /\ i \in Nat /\ row' \in [{c} -> Nat] /\ row'[c] = i + 1
      /\ tr' = [tr EXCEPT ![Len(tr)] = r] /\ UNCHANGED <<n, k, left, value>>
  BY DEF FillRow, TableInv
<1>3. /\ tr \in Seq(Seq(Int)) /\ Len(tr) \in Nat \ {0} /\ Len(tr[1]) \in Nat \ {0}
      /\ i = Len(tr) /\ i >= 2
      /\ \A j \in 1..Len(tr) : j # i => RowIs(tr[j], j) /\ Len(tr[j]) = Len(tr[1])
  BY <1>1 DEF TableInv, TableOf
<1> HIDE DEF i, r
<1>4. RowIs(r, i) /\ Len(r) = Len(tr[1])
  <2>1. i - 1 \in Nat /\ (i - 1) + 1 = i /\ i - 1 \in 1..Len(tr) /\ i - 1 # i
    BY <1>3
  <2>2. RowIs(tr[i - 1], i - 1) /\ Len(tr[i - 1]) = Len(tr[1])
    BY <1>3, <2>1
  <2>3. RowIs(<<>>, (i - 1) + 1) /\ Len(<<>>) <= Len(tr[i - 1]) /\ tr[i - 1] # <<>>
    BY <1>3, <2>2 DEF RowIs
  <2>4. /\ RowIs(prolong(<<>>, (i - 1) + 1, tr[i - 1]), (i - 1) + 1)
        /\ Len(prolong(<<>>, (i - 1) + 1, tr[i - 1])) = Len(tr[i - 1])
    BY <2>1, <2>2, <2>3, Prolonged
  <2> QED
    BY <2>1, <2>2, <2>4 DEF r
<1>5. /\ tr' \in Seq(Seq(Int)) /\ Len(tr') = Len(tr) /\ tr'[i] = r
      /\ \A j \in 1..Len(tr) : j # i => tr'[j] = tr[j]
  <2>1. i \in 1..Len(tr) /\ r \in Seq(Int)
    BY <1>3, <1>4 DEF RowIs
  <2> QED
    BY <1>2, <1>3, <2>1, RowReplaced
<1>6. tr'[1] = tr[1]
  BY <1>3, <1>5
<1>7. TableOf(tr', at'[c], row'[c])
  <2>1. ASSUME NEW j \in 1..Len(tr')
        PROVE  RowIs(tr'[j], j) /\ Len(tr'[j]) = Len(tr'[1])
    <3>1. CASE j = i
      BY <1>4, <1>5, <1>6, <3>1
    <3>2. CASE j # i
      BY <1>3, <1>5, <1>6, <3>2
    <3> QED
      BY <3>1, <3>2
  <2> QED
    BY <1>1, <1>2, <1>3, <1>5, <1>6, <2>1 DEF TableOf
<1>8. CallOf(tr', at'[c], n'[c], k'[c])
  BY <1>1, <1>2, <1>6 DEF TableInv, CallOf
<1> QED
  BY <1>1, <1>2, <1>7, <1>8 DEF TableInv

\* The element that is read.
LEMMA ElementRead ==
  ASSUME NEW c, TableInv(c), at[c] = "read"
  PROVE  Exists(c) /\ IsBinomial(tr[k[c]][n[c] - k[c]], n[c], k[c])
<1>1. /\ n[c] \in Nat /\ k[c] \in Nat \ {0} /\ k[c] + k[c] <= n[c]
      /\ n[c] <= Len(tr[1]) + 1 /\ k[c] <= Len(tr)
      /\ Len(tr) \in Nat /\ Len(tr[1]) \in Nat
      /\ \A j \in 1..Len(tr) : RowIs(tr[j], j) /\ Len(tr[j]) = Len(tr[1])
  BY DEF TableInv, TableOf, CallOf
<1>2. /\ k[c] \in 1..Len(tr) /\ n[c] - k[c] \in 1..Len(tr[1])
      /\ k[c] + (n[c] - k[c]) = n[c]
  BY <1>1
<1>3. RowIs(tr[k[c]], k[c]) /\ Len(tr[k[c]]) = Len(tr[1])
  BY <1>1, <1>2
<1>4. IsBinomial(tr[k[c]][n[c] - k[c]], k[c] + (n[c] - k[c]), k[c])
  BY <1>2, <1>3 DEF RowIs
<1> QED
  BY <1>1, <1>2, <1>3, <1>4 DEF Exists

LEMMA ReadElementTable ==
  ASSUME NEW c, OneCaller(c), TableInv(c), ReadElement(c)
  PROVE  TableInv(c)'
<1> DEFINE v == tr[k[c]][n[c] - k[c]]
<1>1. at[c] = "read" /\ at' \in [{c} -> Places] /\ at'[c] = "idle"
  BY Gone DEF ReadElement, Places
<1>2. IsBinomial(v, n[c], k[c]) /\ v \in Int
  BY <1>1, ElementRead DEF IsBinomial
<1>3. value' = [value EXCEPT ![c] = v] /\ UNCHANGED <<tr, n, k, row, left>>
  BY DEF ReadElement
<1> HIDE DEF v
<1>4. value' \in [{c} -> Int] /\ value'[c] = v
  BY <1>2, <1>3 DEF TableInv
<1>5. TableOf(tr', at'[c], row'[c]) /\ CallOf(tr', at'[c], n'[c], k'[c])
  BY <1>1, <1>3 DEF TableInv, TableOf, CallOf
<1> QED
  BY <1>1, <1>2, <1>3, <1>4, <1>5 DEF TableInv

\* The table stays a part of Pascal's triangle, large enough for the call.
THEOREM TableInvariance ==
  ASSUME NEW c, OneCaller(c)
  PROVE  PascalSpec => []TableInv(c)
<1>1. PascalInit => TableInv(c)
  BY InitTable
<1>2. TableInv(c) /\ [PascalNext]_pascal => TableInv(c)'
  <2> SUFFICES ASSUME TableInv(c), [PascalNext]_pascal PROVE TableInv(c)'
    OBVIOUS
  <2>1. CASE \E a \in Arguments : Call(c, a)
    BY <2>1, CallTable
  <2>2. CASE \/ ReturnOne(c) \/ TestN(c) \/ LockN(c) \/ UnlockN(c)
             \/ TestK(c) \/ LockK(c) \/ UnlockK(c)
    BY <2>2, TestTable
  <2>3. CASE UNCHANGED pascal
    BY <2>3 DEF pascal, TableInv, TableOf, CallOf
  <2>4. Callers = {c}
    BY DEF OneCaller
  <2> QED
    BY <2>1, <2>2, <2>3, <2>4, FirstTable, ProlongTable, AddRowTable, FillRowTable, ReadElementTable
       DEF PascalNext, Done, Step
<1> QED
  BY <1>1, <1>2, PTL DEF PascalSpec

\* What noverk returns to the only thread that calls it is a binomial coefficient, for
\* any arguments and however the table was enlarged before.
THEOREM NoverkRight ==
  ASSUME NEW c, OneCaller(c)
  PROVE  PascalSpec => []NoverkIsBinomial
<1>1. TableInv(c) => NoverkIsBinomial
  BY DEF TableInv, NoverkIsBinomial, IsBinomial, OneCaller
<1>2. PascalSpec => []TableInv(c)
  BY TableInvariance
<1> QED
  BY <1>1, <1>2, PTL

\* The element noverk reads for the only thread that calls it is in the table.
THEOREM ElementThere ==
  ASSUME NEW c, OneCaller(c)
  PROVE  PascalSpec => []ElementExists
<1>1. TableInv(c) => ElementExists
  BY ElementRead DEF ElementExists, OneCaller
<1>2. PascalSpec => []TableInv(c)
  BY TableInvariance
<1> QED
  BY <1>1, <1>2, PTL
=============================================================================

---------------------------- MODULE ThreadGroup ----------------------------
(***************************************************************************)
(* detach_thread_group::run (dynare++/utils/cc/sthread.cc): the main thread *)
(* starts a detached thread per worker, never more than max_parallel_threads*)
(* at a time, and returns when the counter of running threads is back at    *)
(* zero; the group, with its mutexes and its condition variable, is         *)
(* destroyed right after.  A worker adds to the shared result Adds times,   *)
(* under the mutex it is passed (the Worker classes of stack_container.cc). *)
(***************************************************************************)
EXTENDS Integers, FiniteSets

CONSTANTS
  N,                      \* the length of tlist
  max_parallel_threads,
  Adds                    \* how often a worker adds to the result

ASSUME ThreadsAssumption ==
  N \in Nat /\ max_parallel_threads \in Nat \ {0} /\ Adds \in Nat \ {0}

Workers == 1..N

None == 0
Main == N + 1

VARIABLES
  main,         \* where the main thread is
  ending,       \* it is in the last wait of run()
  it,           \* how many threads were started
  counter,
  mut_cv,       \* the owner of mut_cv
  mut_threads,  \* the owner of mut_threads
  pc,           \* where each worker is
  added,        \* how often each worker has added
  out,          \* the shared result: the additions it holds, per worker
  read          \* what a worker read of it before it writes

vars == <<main, ending, it, counter, mut_cv, mut_threads, pc, added, out, read>>

Zero == [w \in Workers |-> 0]

Init == /\ main = "lock" /\ ending = FALSE /\ it = 0 /\ counter = 0
        /\ mut_cv = None /\ mut_threads = None
        /\ pc = [w \in Workers |-> "none"] /\ added = Zero
        /\ out = Zero /\ read = [w \in Workers |-> Zero]

-----------------------------------------------------------------------------
(* The main thread                                                          *)

Work == <<mut_threads, added, out, read>>

Lock == /\ main = "lock" /\ mut_cv = None
        /\ main' = "loop" /\ mut_cv' = Main
        /\ UNCHANGED <<ending, it, counter, pc, Work>>

(* A thread is created and detached, then the condition is awaited.         *)
Start == /\ main = "loop" /\ it < N
         /\ counter' = counter + 1 /\ it' = it + 1
         /\ pc' = [pc EXCEPT ![it + 1] = "work"]
         /\ main' = "test"
         /\ UNCHANGED <<ending, mut_cv, Work>>

EndLoop == /\ main = "loop" /\ it = N
           /\ ending' = TRUE /\ main' = "test"
           /\ UNCHANGED <<it, counter, mut_cv, pc, Work>>

M_Ready == IF ending THEN counter = 0 ELSE counter <= max_parallel_threads

Ready == IF ending THEN counter = 0 ELSE counter < max_parallel_threads

(* cv.wait: the predicate is tested with the mutex held; the mutex is       *)
(* released and the thread blocked in one step.                             *)
Wait == /\ main = "test" /\ ~Ready
        /\ main' = "blocked" /\ mut_cv' = None
        /\ UNCHANGED <<ending, it, counter, pc, Work>>

(* A wake-up that nobody asked for.                                         *)
Spurious == /\ main = "blocked"
            /\ main' = "woken"
            /\ UNCHANGED <<ending, it, counter, mut_cv, pc, Work>>

Relock == /\ main = "woken" /\ mut_cv = None
          /\ main' = "test" /\ mut_cv' = Main
          /\ UNCHANGED <<ending, it, counter, pc, Work>>

GoOn == /\ main = "test" /\ Ready /\ ~ending
        /\ main' = "loop"
        /\ UNCHANGED <<ending, it, counter, mut_cv, pc, Work>>

(* The lock is released on return.                                          *)
Return == /\ main = "test" /\ Ready /\ ending
          /\ main' = "returned" /\ mut_cv' = None
          /\ UNCHANGED <<ending, it, counter, pc, Work>>

(* The caller leaves the scope of the group and uses the result.            *)
Destroy == /\ main = "returned"
           /\ main' = "destroyed"
           /\ UNCHANGED <<ending, it, counter, mut_cv, pc, Work>>

MainNext == \/ Lock \/ Start \/ EndLoop \/ Wait \/ Relock \/ GoOn \/ Return \/ Destroy
-----------------------------------------------------------------------------
(* A worker                                                                 *)

Group == <<main, ending, it, counter, mut_cv>>

Goto(w, from, to) == pc[w] = from /\ pc' = [pc EXCEPT ![w] = to]

(* Its product is computed, in memory of its own.                           *)
Compute(w) == Goto(w, "work", "lock") /\ UNCHANGED <<Group, Work>>

M_LockThreads(w) ==
  /\ Goto(w, "lock", "add") /\ mut_threads' = w
  /\ UNCHANGED <<Group, added, out, read>>

LockThreads(w) ==
  /\ Goto(w, "lock", "add") /\ mut_threads = None /\ mut_threads' = w
  /\ UNCHANGED <<Group, added, out, read>>

(* addTo: the result is read and written, element by element.               *)
Read(w) ==
  /\ Goto(w, "add", "write")
  /\ read' = [read EXCEPT ![w] = out]
  /\ UNCHANGED <<Group, mut_threads, added, out>>

Write(w) ==
  /\ Goto(w, "write", "unlock")
  /\ out' = [read[w] EXCEPT ![w] = @ + 1]
  /\ added' = [added EXCEPT ![w] = @ + 1]
  /\ read' = [read EXCEPT ![w] = Zero]
  /\ UNCHANGED <<Group, mut_threads>>

UnlockThreads(w) ==
  /\ Goto(w, "unlock", IF added[w] < Adds THEN "work" ELSE "finish")
  /\ mut_threads' = None
  /\ UNCHANGED <<Group, added, out, read>>

LockCv(w) ==
  /\ Goto(w, "finish", "count") /\ mut_cv = None /\ mut_cv' = w
  /\ UNCHANGED <<main, ending, it, counter, Work>>

Decrement(w) ==
  /\ Goto(w, "count", "notify") /\ counter' = counter - 1
  /\ UNCHANGED <<main, ending, it, mut_cv, Work>>

(* notify_one wakes the main thread if it is blocked.                       *)
M_NotifyNobody(w) == Goto(w, "notify", "release") /\ UNCHANGED <<Group, Work>>

M_NotifyLate(w) ==
  /\ Goto(w, "notify", "release")
  /\ mut_cv' = None
  /\ main' = IF main = "blocked" THEN "woken" ELSE main
  /\ UNCHANGED <<ending, it, counter, Work>>

Notify(w) ==
  /\ Goto(w, "notify", "release")
  /\ main' = IF main = "blocked" THEN "woken" ELSE main
  /\ UNCHANGED <<ending, it, counter, mut_cv, Work>>

UnlockCv(w) ==
  /\ Goto(w, "release", "exited") /\ mut_cv' = None
  /\ UNCHANGED <<main, ending, it, counter, Work>>

WorkerNext(w) == \/ Compute(w) \/ LockThreads(w) \/ Read(w) \/ Write(w) \/ UnlockThreads(w)
                 \/ LockCv(w) \/ Decrement(w) \/ Notify(w) \/ UnlockCv(w)

(* The run is over.                                                         *)
Finished == main = "destroyed" /\ UNCHANGED vars

Next == MainNext \/ Spurious \/ (\E w \in Workers : WorkerNext(w)) \/ Finished

(* Threads are scheduled; a thread blocked on a mutex that is free again    *)
(* and again gets it in the end.                                            *)
Fairness == /\ SF_vars(MainNext)
            /\ \A w \in Workers : SF_vars(WorkerNext(w))

Spec == Init /\ [][Next]_vars /\ Fairness
-----------------------------------------------------------------------------
(* A thread runs from its creation to the decrement of the counter.         *)
Running == {w \in Workers : pc[w] \notin {"none", "notify", "release", "exited"}}

(* The places of main and of the workers, the counter and the mutexes of    *)
(* detach_thread_group keep their types.                                    *)
TypeOK ==
  /\ main \in {"lock", "loop", "test", "blocked", "woken", "returned", "destroyed"}
  /\ ending \in BOOLEAN /\ it \in 0..N /\ counter \in 0..N
  /\ mut_cv \in 0..(N + 1) /\ mut_threads \in 0..N
  /\ pc \in [Workers -> {"none", "work", "lock", "add", "write", "unlock", "finish",
                         "count", "notify", "release", "exited"}]
  /\ added \in [Workers -> 0..Adds] /\ out \in [Workers -> 0..Adds]
  /\ read \in [Workers -> [Workers -> 0..Adds]]

(* No more threads compute than the user allowed, and the counter is their  *)
(* number at every step (sthread.cc:63).                                    *)
NeverTooMany == Cardinality(Running) <= max_parallel_threads /\ counter = Cardinality(Running)

(* When the group is destroyed no thread will touch its mutexes or its      *)
(* condition variable any more: the reason the code gives for notifying     *)
(* before unlocking.                                                        *)
GroupOutlivesItsThreads ==
  main = "destroyed" => \A w \in Workers : pc[w] = "exited"

(* After run() the result holds every addition of every worker, whatever    *)
(* the order they were made in: none overwrote another.                     *)
ResultIsComplete ==
  main \in {"returned", "destroyed"} => out = [w \in Workers |-> Adds]

(* run() returns: no wake-up is lost and no thread waits for ever.          *)
RunReturns == <>(main = "destroyed")
=============================================================================

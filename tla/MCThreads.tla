----------------------------- MODULE MCThreads -----------------------------
(* The main thread first fills the table of binomial coefficients by calls  *)
(* of its own, as TLStatic::init does, then runs a group of workers.        *)
EXTENDS ThreadGroup, PascalTriangle

all == <<vars, pascal>>

ArgumentsDef == {<<1, 1>>, <<2, 1>>, <<4, 2>>, <<5, 2>>, <<6, 3>>, <<7, 4>>, <<5, 0>>}

Filled == \A c \in Callers : at[c] = "idle" /\ left[c] = 0

MCInit == Init /\ PascalInit

MCNext == \/ ~Filled /\ (\E c \in Callers : Step(c)) /\ UNCHANGED vars
          \/ Filled /\ Next /\ UNCHANGED pascal

MCFairness ==
  /\ WF_all(~Filled /\ (\E c \in Callers : Step(c)) /\ UNCHANGED vars)
  /\ SF_all(Filled /\ MainNext /\ UNCHANGED pascal)
  /\ \A w \in Workers : SF_all(Filled /\ WorkerNext(w) /\ UNCHANGED pascal)

MCSpec == MCInit /\ [][MCNext]_all /\ MCFairness

(* Workers that call noverk while the table grows.                          *)
RaceArguments == {<<2, 1>>, <<4, 2>>, <<5, 2>>}

RaceSpec == Init /\ PascalInit /\ [][PascalNext /\ UNCHANGED vars]_all
============================================================================

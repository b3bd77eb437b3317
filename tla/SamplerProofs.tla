--------------------------- MODULE SamplerProofs ---------------------------
(***************************************************************************)
(* Proofs about PosteriorSampler, for any number of blocks, of lines of a  *)
(* file, of sessions and of draws of each.  First, as long as nothing      *)
(* crashes: a new MCMC and the sessions that load it save the draws of one *)
(* undisturbed chain, wherever in a file a session starts or ends.  Then   *)
(* with crashes and mh_recover, for the sessions the recovery is made for: *)
(* the same chain is saved, and nothing of it is lost.                     *)
(***************************************************************************)
EXTENDS PosteriorSampler, SumLemmas, SequenceTheorems

-----------------------------------------------------------------------------
(* The invariant *)

\* The lines of all files before file f, and the last draw a record announces.
LinesBefore(f) == (f - 1) * MAX_nruns
LastDrawOf(h) == LinesBefore(h.lastFile) + h.lastLine

\* What a record says of one session.
MhDraws == [n : Nat, files : Nat, lines : Int]

IsRecord(h) ==
    h \in [concluded : BOOLEAN,
           mhDraws : Seq(MhDraws),
           lastFile : Nat, lastLine : 0..MAX_nruns,
           initialSeeds : [Block -> Nat], lastSeeds : [Block -> Nat], lastPar : [Block -> Draws]]

\* The files and draws of the sessions of a record lead to the end it announces.
AddsUp(h) ==
    h.mhDraws # << >> =>
        /\ h.lastFile # 0 /\ h.lastLine # 0
        /\ DrawsAsked(h) = LastDrawOf(h)
        /\ FilesOfSessions(h, Len(h.mhDraws)) = h.lastFile

\* The first m lines of file f.
HasLines(file, f, m) ==
    /\ file.x \in Seq(Draws) /\ Len(file.x) = m
    /\ \A i \in 1..m : file.x[i] = LinesBefore(f) + i
    /\ file.seeds[f] = LinesBefore(f) + m

\* The chain up to line m of file F, in files that are full but the last one.
Holds(files, F, m) ==
    /\ DOMAIN files = 1..F
    /\ \A f \in 1..F : HasLines(files[f], f, IF f = F THEN m ELSE MAX_nruns)

\* The chain before line k of file F.
HoldsBefore(files, F, k) ==
    IF k = 1 THEN Holds(files, F - 1, MAX_nruns) ELSE Holds(files, F, k - 1)

\* Nothing runs: what the record announces is saved.
AtRest ==
    \/ hist = NoHistory /\ mh = All(NoFiles)
    \/ /\ hist.mhDraws # << >> /\ hist.concluded
       /\ \A b \in Block : /\ Holds(mh[b], hist.lastFile, hist.lastLine)
                           /\ hist.lastPar[b] = LastDrawOf(hist)
                           /\ hist.lastSeeds[b] = LastDrawOf(hist)

\* A session of n draws, from line k of file F on.
InSession(n, F, k) ==
    /\ nruns = All(n) /\ fline = All(k)
    /\ hist.mhDraws # << >>
    /\ LastDrawOf(hist) = LinesBefore(F) + k - 1 + n
    /\ hist.initialSeeds = All(LinesBefore(F) + k - 1)
    /\ mode = "new" => k = 1

\* Block b is not begun.
Waits(b, F, k) ==
    /\ newFile[b] = F
    /\ last[b] = LinesBefore(F) + k - 1
    /\ HoldsBefore(mh[b], F, k)

SizeOf(f) == Min({MAX_nruns, LastDrawOf(hist) - LinesBefore(f)})

\* Block b is done.
HasEnded(b) ==
    /\ Holds(mh[b], hist.lastFile, hist.lastLine)
    /\ rec.lastPar[b] = LastDrawOf(hist)

\* The lines 1..m of the file being filled are drawn.
Filled(f, m) ==
    /\ \A i \in 1..m : x2[i] = LinesBefore(f) + i
    /\ last[blk] = LinesBefore(f) + m
    /\ rng = LinesBefore(f) + m

\* File f of block blk is being filled.
Fills(f, n, F, k) ==
    /\ f \in Nat \ {0} /\ iter \in 1..n /\ idx \in 1..size[blk]
    /\ LinesBefore(f) + idx = LinesBefore(F) + k - 1 + iter
    /\ size[blk] = SizeOf(f)
    /\ x2 \in Seq(Draws) /\ Len(x2) = size[blk]
    /\ IF pc = "draw" THEN Filled(f, idx - 1) ELSE idx = size[blk] /\ Filled(f, idx)
    /\ Holds(mh[blk], f - 1, MAX_nruns) \/ (f = F /\ HoldsBefore(mh[blk], F, k))

Runs(n, F, k) ==
    /\ blk \in Block
    /\ \/ Fills(newFile[blk], n, F, k)
       \/ pc = "draw" /\ iter = n + 1 /\ rng = LastDrawOf(hist) /\ HasEnded(blk)

InCore(n, F, k) ==
    /\ IsRecord(rec)
    /\ rec.mhDraws = hist.mhDraws /\ rec.initialSeeds = hist.initialSeeds
    /\ rec.lastFile = hist.lastFile /\ rec.lastLine = hist.lastLine
    /\ blk \in 1..(NumberOfBlocks + 1)
    /\ \A b \in Block : b < blk => HasEnded(b) /\ rec.lastSeeds[b] = LastDrawOf(hist)
    /\ \A b \in Block : b > blk \/ (b = blk /\ pc = "block") =>
          Waits(b, F, k) /\ size[b] = SizeOf(F)
    /\ pc # "block" => Runs(n, F, k)

InType ==
    /\ IsRecord(hist) /\ AddsUp(hist)
    /\ mode \in {"new", "load"}
    /\ pc \in {"off", "new", "core", "block", "draw", "full", "write"}
    /\ DOMAIN mh = Block
    /\ newFile \in [Block -> Nat] /\ fline \in [Block -> Nat]
    /\ nruns \in [Block -> Nat] /\ size \in [Block -> Int] /\ last \in [Block -> Draws]

Undisturbed ==
    /\ InType
    /\ pc = "off" => AtRest
    /\ pc = "new" => /\ mh = All(NoFiles) /\ mode = "new"
                     /\ \E n \in NewReplics : nruns = All(n)
    /\ pc \notin {"off", "new"} =>
          \E n \in NewReplics \cup LoadReplics, F \in 1..hist.lastFile, k \in 1..MAX_nruns :
              /\ InSession(n, F, k)
              /\ pc = "core" => \A b \in Block : Waits(b, F, k)
              /\ pc # "core" => InCore(n, F, k)

IInv == crashes \in Nat /\ (crashes = 0 => Undisturbed)

-----------------------------------------------------------------------------
(* Lines and files *)

LEMMA Constants ==
  /\ MAX_nruns \in Nat \ {0} /\ NumberOfBlocks \in Nat \ {0}
  /\ NewReplics \subseteq Nat \ {0} /\ LoadReplics \subseteq Nat \ {0}
  /\ 1 \in Block /\ Block \subseteq Nat \ {0}
  /\ IsFiniteSet(Block) /\ Cardinality(Block) = NumberOfBlocks
<1>1. IsFiniteSet(1..NumberOfBlocks) /\ Cardinality(1..NumberOfBlocks) = NumberOfBlocks
  BY FS_Interval, BlocksAssumption
<1> QED
  BY <1>1, BlocksAssumption, MaxRunsAssumption, ReplicsAssumption DEF Block

LEMMA MinOfTwo ==
  ASSUME NEW a \in Int, NEW b \in Int
  PROVE  Min({a, b}) = IF a <= b THEN a ELSE b
BY DEF Min

LEMMA FilesFollow ==
  ASSUME NEW f \in Int
  PROVE  /\ LinesBefore(f) \in Int
         /\ LinesBefore(f + 1) = LinesBefore(f) + MAX_nruns
         /\ LinesBefore(f - 1) = LinesBefore(f) - MAX_nruns
         /\ LinesBefore(1) = 0
         /\ f > 0 => LinesBefore(f) >= 0
<1>1. ASSUME NEW M \in Nat
      PROVE  /\ (f - 1) * M \in Int
             /\ ((f + 1) - 1) * M = ((f - 1) * M) + M
             /\ ((f - 1) - 1) * M = ((f - 1) * M) - M
             /\ (1 - 1) * M = 0
             /\ f > 0 => (f - 1) * M >= 0
  OBVIOUS
<1> QED
  BY <1>1, Constants DEF LinesBefore

\* The lines of a file precede those of the next.
LEMMA FilesAreInOrder ==
  ASSUME NEW f \in Int, NEW g \in Int, f < g
  PROVE  LinesBefore(f) + MAX_nruns <= LinesBefore(g)
<1>1. ASSUME NEW M \in Nat
      PROVE  ((f - 1) * M) + M <= (g - 1) * M
  OBVIOUS
<1> QED
  BY <1>1, Constants DEF LinesBefore

\* A line of a file is no line of another file.
LEMMA OneLine ==
  ASSUME NEW f \in Int, NEW g \in Int, NEW i \in 1..MAX_nruns, NEW m \in 1..MAX_nruns
  PROVE  /\ LinesBefore(f) + i = LinesBefore(g) + m => f = g /\ i = m
         /\ LinesBefore(f) + i <= LinesBefore(g) + m => f <= g
<1>1. LinesBefore(f) \in Int /\ LinesBefore(g) \in Int /\ MAX_nruns \in Nat
  BY FilesFollow, Constants
<1>2. f < g => LinesBefore(f) + MAX_nruns <= LinesBefore(g)
  BY FilesAreInOrder
<1>3. g < f => LinesBefore(g) + MAX_nruns <= LinesBefore(f)
  BY FilesAreInOrder
<1> QED
  BY <1>1, <1>2, <1>3

LEMMA Products ==
  ASSUME NEW F \in Int, NEW M \in Nat, NEW a \in Nat, NEW q \in Nat, NEW r \in Int,
         a = (M * q) + r
  PROVE  /\ (a + 1 - M) - ((q - 1) * M) = r + 1
         /\ (F + q - 1) * M = ((F - 1) * M) + (a - r)
<1>1. PICK p \in Int : p = q * M
  OBVIOUS
<1>2. (q - 1) * M = p - M /\ M * q = p
  BY <1>1
<1>3. (F + q - 1) * M = ((F - 1) * M) + p
  BY <1>1
<1>4. (F - 1) * M \in Int
  OBVIOUS
<1> QED
  BY <1>2, <1>3, <1>4

\* The files and lines a session of n draws is said to end with, when it goes on
\* after line m of file F.
NewFiles(n, m) == CeilDiv(n - (MAX_nruns - m), MAX_nruns)
EndLine(n, m) == n - (MAX_nruns - m) - (NewFiles(n, m) - 1) * MAX_nruns

LEMMA Anticipated ==
  ASSUME NEW F \in Int, NEW m \in 1..MAX_nruns, NEW n \in Nat \ {0}
  PROVE  /\ NewFiles(n, m) \in Nat /\ EndLine(n, m) \in 1..MAX_nruns
         /\ LinesBefore(F + NewFiles(n, m)) + EndLine(n, m) = LinesBefore(F) + m + n
<1> DEFINE t == n - (MAX_nruns - m)
           files == NewFiles(n, m)
           lines == EndLine(n, m)
<1>1. MAX_nruns \in Nat \ {0}
  BY Constants
<1>2. PICK a : a = t + MAX_nruns - 1
  OBVIOUS
<1>3. a \in Nat /\ t = a + 1 - MAX_nruns
  BY <1>1, <1>2
<1>4. files = a \div MAX_nruns
  BY <1>2 DEF CeilDiv, NewFiles
<1> HIDE DEF files
<1>5. ASSUME NEW M \in Nat \ {0}
      PROVE  /\ a \div M \in Nat /\ a % M \in 0..(M - 1)
             /\ a = (M * (a \div M)) + (a % M)
  BY <1>3
<1>6. PICK r \in 0..(MAX_nruns - 1) : files \in Nat /\ a = (MAX_nruns * files) + r
  BY <1>1, <1>4, <1>5
<1>7. /\ (a + 1 - MAX_nruns) - ((files - 1) * MAX_nruns) = r + 1
      /\ LinesBefore(F + files) = LinesBefore(F) + (a - r)
  BY <1>1, <1>3, <1>6, Products DEF LinesBefore
<1>8. lines = r + 1
  BY <1>3, <1>7 DEF EndLine, files
<1> HIDE DEF lines
<1>9. a + 1 = n + m
  BY <1>1, <1>3
<1>10. LinesBefore(F) \in Int
  BY FilesFollow
<1>11. LinesBefore(F + files) + lines = LinesBefore(F) + m + n
  BY <1>3, <1>6, <1>7, <1>8, <1>9, <1>10
<1> QED
  BY <1>1, <1>6, <1>8, <1>11 DEF files, lines

\* What the files of a block hold, and the sums over them.
LEMMA FilesCounted ==
  ASSUME NEW b \in Block, NEW F \in Nat \ {0}, NEW m \in 1..MAX_nruns, Holds(mh[b], F, m)
  PROVE  /\ NumberOfMhFiles(b) = F
         /\ DrawsSaved(b) = LinesBefore(F) + m
<1> DEFINE s == [f \in DOMAIN mh[b] |-> Len(mh[b][f].x)]
<1>1. DOMAIN mh[b] = 1..F
  BY DEF Holds
<1>2. IsFiniteSet(1..F) /\ Cardinality(1..F) = F
  BY FS_Interval
<1>3. IsFiniteSet(1..(F - 1)) /\ Cardinality(1..(F - 1)) = F - 1
  BY FS_Interval
<1>4. \A f \in 1..F : s[f] = IF f = F THEN m ELSE MAX_nruns
  BY <1>1 DEF Holds, HasLines
<1>5. DOMAIN s = 1..F
  BY <1>1
<1> HIDE DEF s
<1>6. (1..F) \ {F} = 1..(F - 1)
  OBVIOUS
<1>7. SumFunctionOnSet(s, 1..F) = s[F] + SumFunctionOnSet(s, (1..F) \ {F})
  <2>1. \A f \in 1..F : s[f] \in Int
    BY <1>4, Constants
  <2>2. \A x \in 1..F : SumFunctionOnSet(s, 1..F) = s[x] + SumFunctionOnSet(s, (1..F) \ {x})
    BY <1>2, <2>1, SumWithout
  <2> QED
    BY <2>2
<1>8. SumFunctionOnSet(s, 1..(F - 1)) = MAX_nruns * Cardinality(1..(F - 1))
  <2>1. \A f \in 1..(F - 1) : s[f] = MAX_nruns
    BY <1>4
  <2> QED
    BY <1>3, <2>1, Constants, SumOfEqual
<1>9. ASSUME NEW M \in Nat PROVE M * (F - 1) = (F - 1) * M /\ (F - 1) * M \in Int
  OBVIOUS
<1>10. PICK p \in Int : p = MAX_nruns * Cardinality(1..(F - 1)) /\ p = LinesBefore(F)
  BY <1>3, <1>9, Constants DEF LinesBefore
<1>11. SumFunctionOnSet(s, 1..F) = LinesBefore(F) + m
  <2>1. s[F] = m
    BY <1>4
  <2>2. SumFunctionOnSet(s, 1..(F - 1)) = LinesBefore(F)
    BY <1>8, <1>10
  <2>3. SumFunctionOnSet(s, 1..F) = m + LinesBefore(F)
    BY <1>6, <1>7, <2>1, <2>2
  <2> QED
    BY <1>10, <2>3
<1> QED
  BY <1>1, <1>2, <1>5, <1>11 DEF NumberOfMhFiles, DrawsSaved, SumFunction, s

\* A record with one more session.
LEMMA SessionsAdded ==
  ASSUME NEW h, NEW j, NEW k \in Seq(MhDraws), NEW e \in MhDraws,
         h.mhDraws = k, j.mhDraws = Append(k, e)
  PROVE  /\ DrawsAsked(h) \in Int /\ DrawsAsked(j) = DrawsAsked(h) + e.n
         /\ FilesOfSessions(h, Len(k)) \in Int
         /\ FilesOfSessions(j, Len(k) + 1) = FilesOfSessions(h, Len(k)) + e.files
<1>1. PICK N \in Nat : N = Len(k)
  OBVIOUS
<1>2. /\ DOMAIN k = 1..N /\ DOMAIN Append(k, e) = 1..(N + 1)
      /\ Append(k, e)[N + 1] = e
  BY <1>1
<1>3. \A i \in 1..N : Append(k, e)[i] = k[i] /\ k[i] \in MhDraws
  <2>1. \A i \in 1..N : k[i] \in MhDraws
    BY <1>1, ElementOfSeq
  <2>2. \A i \in 1..N : Append(k, e)[i] = k[i]
    BY <1>1
  <2> QED
    BY <2>1, <2>2
<1>4. PICK f : f = [i \in 1..N |-> h.mhDraws[i].n]
  OBVIOUS
<1>5. PICK g : g = [i \in 1..(N + 1) |-> j.mhDraws[i].n]
  OBVIOUS
<1>6. IsAppended(g, f, N) /\ g[N + 1] = e.n
  BY <1>2, <1>3, <1>4, <1>5 DEF IsAppended, MhDraws
<1>7. /\ SumFunctionOnSet(f, 1..N) \in Int
      /\ SumFunctionOnSet(g, 1..(N + 1)) = SumFunctionOnSet(f, 1..N) + e.n
  BY <1>6, SumOfAppended
<1>8. /\ DrawsAsked(h) = SumFunctionOnSet(f, 1..N)
      /\ DrawsAsked(j) = SumFunctionOnSet(g, 1..(N + 1))
  BY <1>2, <1>4, <1>5 DEF DrawsAsked, SumFunction
<1>9. PICK u : u = [i \in 1..N |-> h.mhDraws[i].files]
  OBVIOUS
<1>10. PICK v : v = [i \in 1..(N + 1) |-> j.mhDraws[i].files]
  OBVIOUS
<1>11. IsAppended(v, u, N) /\ v[N + 1] = e.files
  BY <1>2, <1>3, <1>9, <1>10 DEF IsAppended, MhDraws
<1>12. /\ SumFunctionOnSet(u, 1..N) \in Int
       /\ SumFunctionOnSet(v, 1..(N + 1)) = SumFunctionOnSet(u, 1..N) + e.files
  BY <1>11, SumOfAppended
<1>13. /\ FilesOfSessions(h, N) = SumFunctionOnSet(u, 1..N)
       /\ FilesOfSessions(j, N + 1) = SumFunctionOnSet(v, 1..(N + 1))
  BY <1>9, <1>10 DEF FilesOfSessions, SumFunction
<1> QED
  BY <1>1, <1>7, <1>8, <1>12, <1>13

\* Nothing was asked for before the first session.
LEMMA NothingAsked ==
  ASSUME NEW h, h.mhDraws = << >>
  PROVE  DrawsAsked(h) = 0 /\ FilesOfSessions(h, 0) = 0
<1>1. 1..0 = {} /\ DOMAIN << >> = 1..0
  OBVIOUS
<1> QED
  BY <1>1, SumOfNone DEF DrawsAsked, FilesOfSessions, SumFunction

\* The record a session writes when it starts after line m of the last file.
LEMMA RecordAnticipated ==
  ASSUME NEW h, IsRecord(h), NEW m \in 1..MAX_nruns, NEW n \in Nat \ {0},
         LinesBefore(h.lastFile) + m >= 0, DrawsAsked(h) = LinesBefore(h.lastFile) + m,
         FilesOfSessions(h, Len(h.mhDraws)) = h.lastFile,
         NEW j, j = Anticipate(h, n, n - (MAX_nruns - m))
  PROVE  /\ IsRecord(j) /\ AddsUp(j) /\ j.mhDraws # << >>
         /\ j.lastFile \in Nat \ {0} /\ j.lastLine \in 1..MAX_nruns
         /\ LastDrawOf(j) = LinesBefore(h.lastFile) + m + n
         /\ j.initialSeeds = h.initialSeeds
<1>1. PICK F \in Nat : F = h.lastFile
  BY DEF IsRecord
<1>2. PICK k \in Seq(MhDraws) : k = h.mhDraws
  BY DEF IsRecord
<1>3. PICK files \in Nat : files = NewFiles(n, m)
  BY Anticipated
<1>4. PICK lines \in 1..MAX_nruns : lines = EndLine(n, m)
  BY Anticipated
<1>6. LinesBefore(F + files) + lines = LinesBefore(F) + m + n
  BY <1>3, <1>4, Anticipated
<1>5. PICK e : e = [n |-> n, files |-> files, lines |-> lines]
  OBVIOUS
<1>7. e \in MhDraws /\ e.n = n /\ e.files = files
  BY <1>5, Constants DEF MhDraws
<1>8. j = [h EXCEPT !.concluded = FALSE, !.mhDraws = Append(@, e),
                    !.lastFile = @ + files, !.lastLine = lines]
  BY <1>3, <1>4, <1>5 DEF Anticipate, NewFiles, EndLine
<1>9. /\ j.mhDraws = Append(k, e) /\ j.lastFile = F + files /\ j.lastLine = lines
      /\ j.initialSeeds = h.initialSeeds
  BY <1>1, <1>2, <1>8 DEF IsRecord
<1>10. Append(k, e) \in Seq(MhDraws) /\ Append(k, e) # << >>
       /\ Len(Append(k, e)) = Len(k) + 1
  BY <1>7, AppendProperties
<1>11. lines \in 0..MAX_nruns
  BY <1>6
<1>12. IsRecord(j)
  <2>1. F + files \in Nat
    BY <1>6
  <2>2. ASSUME NEW u \in Seq(MhDraws), NEW f \in Nat, NEW i \in 0..MAX_nruns, NEW r,
               r = [h EXCEPT !.concluded = FALSE, !.mhDraws = u, !.lastFile = f, !.lastLine = i]
        PROVE  IsRecord(r)
    BY <2>2 DEF IsRecord
  <2>3. j = [h EXCEPT !.concluded = FALSE, !.mhDraws = Append(k, e),
                      !.lastFile = F + files, !.lastLine = lines]
    BY <1>1, <1>2, <1>8
  <2> QED
    BY <1>10, <1>11, <2>1, <2>2, <2>3
<1>13. LastDrawOf(j) = LinesBefore(F) + m + n
  BY <1>6, <1>9 DEF LastDrawOf
<1>14. F + files # 0
  <2>1. SUFFICES ASSUME F + files = 0 PROVE FALSE
    OBVIOUS
  <2>2. LinesBefore(0) + MAX_nruns = 0
    BY FilesFollow, Constants
  <2>3. LinesBefore(F) \in Int /\ LinesBefore(F + files) \in Int /\ MAX_nruns \in Nat
    BY FilesFollow, Constants, <1>6
  <2>4. LinesBefore(F) + m >= 0
    BY <1>1
  <2> QED
    BY <1>6, <2>1, <2>2, <2>3, <2>4
<1>15. /\ DrawsAsked(h) \in Int /\ DrawsAsked(j) = DrawsAsked(h) + n
       /\ FilesOfSessions(h, Len(k)) \in Int
       /\ FilesOfSessions(j, Len(k) + 1) = FilesOfSessions(h, Len(k)) + files
  <2>1. h.mhDraws = k
    BY <1>2
  <2>2. j.mhDraws = Append(k, e)
    BY <1>9
  <2>3. e \in MhDraws
    BY <1>7
  <2>4. /\ DrawsAsked(h) \in Int /\ DrawsAsked(j) = DrawsAsked(h) + e.n
        /\ FilesOfSessions(h, Len(k)) \in Int
        /\ FilesOfSessions(j, Len(k) + 1) = FilesOfSessions(h, Len(k)) + e.files
    BY <2>1, <2>2, <2>3, SessionsAdded, ZenonT(20)
  <2> QED
    BY <1>7, <2>4
<1>16. DrawsAsked(j) = LastDrawOf(j)
  BY <1>1, <1>13, <1>15
<1>17. FilesOfSessions(j, Len(j.mhDraws)) = j.lastFile
  BY <1>1, <1>2, <1>9, <1>10, <1>15
<1>18. AddsUp(j)
  BY <1>6, <1>9, <1>14, <1>16, <1>17 DEF AddsUp
<1> QED
  BY <1>1, <1>6, <1>9, <1>10, <1>12, <1>13, <1>14, <1>18

-----------------------------------------------------------------------------
(* Between two sessions *)

LEMMA InitUndisturbed == Init => Undisturbed
<1> SUFFICES ASSUME Init PROVE Undisturbed
  OBVIOUS
<1>1. hist = NoHistory /\ mh = All(NoFiles) /\ pc = "off" /\ mode = "new"
  BY DEF Init
<1>2. IsRecord(hist)
  BY <1>1, Constants DEF IsRecord, NoHistory, All, Zero, Draws
<1>3. AddsUp(hist)
  BY <1>1 DEF AddsUp, NoHistory
<1>4. InType
  BY <1>1, <1>2, <1>3 DEF Init, InType, All, Draws
<1> QED
  BY <1>1, <1>4 DEF Undisturbed, AtRest

\* A record at rest is complete: it is no case for a recovery.
LEMMA NothingToRecover ==
  ASSUME Undisturbed
  PROVE  ~StartRecover
<1> SUFFICES ASSUME StartRecover PROVE FALSE
  OBVIOUS
<1>1. pc = "off" /\ hist.mhDraws # << >> /\ RecoverRequired
  BY DEF StartRecover
<1>2. hist # NoHistory
  BY <1>1 DEF NoHistory
<1>3. \A b \in Block : Holds(mh[b], hist.lastFile, hist.lastLine)
  BY <1>1, <1>2 DEF Undisturbed, AtRest
<1>4. /\ hist.lastFile \in Nat \ {0} /\ hist.lastLine \in 1..MAX_nruns
      /\ FilesOfSessions(hist, Len(hist.mhDraws)) = hist.lastFile
  BY <1>1, Constants DEF Undisturbed, InType, IsRecord, AddsUp
<1>5. PICK s : s = [b \in Block |-> NumberOfMhFiles(b)]
  OBVIOUS
<1>6. PICK c \in Int : c = hist.lastFile
  BY <1>4
<1>10. \A b \in Block : s[b] = c
  BY <1>3, <1>4, <1>5, <1>6, FilesCounted
<1>7. TotalNumberOfMhFiles = SumFunctionOnSet(s, Block)
  BY <1>5 DEF TotalNumberOfMhFiles, SumFunction
<1>8. SumFunctionOnSet(s, Block) = c * Cardinality(Block)
  BY <1>10, Constants, SumOfEqual
<1>9. RecoverRequired <=> TotalNumberOfMhFiles # hist.lastFile * NumberOfBlocks
  BY <1>4 DEF RecoverRequired, ExpectedNumberOfMhFilesPerBlock
<1> QED
  BY <1>1, <1>6, <1>7, <1>8, <1>9, Constants

LEMMA StartNewUndisturbed ==
  ASSUME Undisturbed, NEW n \in NewReplics, StartNew(n)
  PROVE  Undisturbed'
<1>1. /\ pc' = "new" /\ mode' = "new" /\ mh' = All(NoFiles) /\ nruns' = All(n)
      /\ UNCHANGED <<hist, newFile, fline, size, last>>
  BY DEF StartNew
<1>2. n \in Nat
  BY Constants
<1>3. InType'
  BY <1>1, <1>2 DEF Undisturbed, InType, All
<1> QED
  BY <1>1, <1>3 DEF Undisturbed

\* A session is begun where the previous one ended.
LEMMA SessionBegins ==
  ASSUME NEW n \in NewReplics \cup LoadReplics, NEW F \in Nat \ {0}, NEW k \in 1..MAX_nruns,
         InType', pc' = "core", InSession(n, F, k)',
         \A b \in Block : Waits(b, F, k)'
  PROVE  Undisturbed'
<1>1. /\ hist'.lastFile \in Nat \ {0} /\ hist'.lastLine \in 1..MAX_nruns
      /\ LastDrawOf(hist') = LinesBefore(hist'.lastFile) + hist'.lastLine
  BY Constants DEF InType, InSession, IsRecord, AddsUp, LastDrawOf
<1>2. LastDrawOf(hist') = LinesBefore(F) + k - 1 + n /\ n \in Nat \ {0}
  BY Constants DEF InSession
<1>3. LinesBefore(F) \in Int /\ LinesBefore(hist'.lastFile) \in Int
  BY <1>1, FilesFollow
<1>4. LinesBefore(F) + k <= LinesBefore(hist'.lastFile) + hist'.lastLine
  BY <1>1, <1>2, <1>3
<1>5. F <= hist'.lastFile
  BY <1>1, <1>4, OneLine
<1>6. F \in 1..hist'.lastFile
  BY <1>1, <1>5
<1> QED
  BY <1>6 DEF Undisturbed

LEMMA WriteRecordUndisturbed ==
  ASSUME Undisturbed, WriteRecord
  PROVE  Undisturbed'
<1>1. PICK n \in NewReplics : nruns = All(n)
  BY DEF Undisturbed, WriteRecord
<1>2. /\ pc = "new" /\ pc' = "core" /\ newFile' = All(1) /\ fline' = All(1) /\ last' = All(0)
      /\ hist' = Anticipate(NoHistory, nruns[1], nruns[1])
      /\ UNCHANGED <<mh, mode, nruns, size>>
  BY DEF WriteRecord
<1>3. n \in Nat \ {0} /\ nruns[1] = n /\ n = n - (MAX_nruns - MAX_nruns)
  BY <1>1, Constants DEF All
<1>4. LinesBefore(0) + MAX_nruns = 0 /\ LinesBefore(1) = 0
  BY FilesFollow, Constants
<1>5. /\ IsRecord(NoHistory) /\ NoHistory.lastFile = 0 /\ NoHistory.initialSeeds = All(0)
      /\ NoHistory.mhDraws = << >> /\ Len(NoHistory.mhDraws) = 0
  BY Constants DEF NoHistory, IsRecord, All, Zero, Draws
<1>6. DrawsAsked(NoHistory) = 0 /\ FilesOfSessions(NoHistory, 0) = 0
  BY <1>5, NothingAsked
<1>7. /\ IsRecord(hist') /\ AddsUp(hist') /\ hist'.mhDraws # << >>
      /\ LastDrawOf(hist') = LinesBefore(0) + MAX_nruns + n
      /\ hist'.initialSeeds = All(0)
  <2>1. hist' = Anticipate(NoHistory, n, n - (MAX_nruns - MAX_nruns))
    BY <1>2, <1>3
  <2>2. MAX_nruns \in 1..MAX_nruns
    BY Constants
  <2>3. LinesBefore(NoHistory.lastFile) + MAX_nruns = 0
    BY <1>4, <1>5
  <2>4. /\ LinesBefore(NoHistory.lastFile) + MAX_nruns >= 0
        /\ DrawsAsked(NoHistory) = LinesBefore(NoHistory.lastFile) + MAX_nruns
        /\ FilesOfSessions(NoHistory, Len(NoHistory.mhDraws)) = NoHistory.lastFile
    BY <1>5, <1>6, <2>3
  <2> QED
    BY <1>3, <1>5, <2>1, <2>2, <2>4, RecordAnticipated
<1>8. InType'
  BY <1>2, <1>7 DEF Undisturbed, InType, All, Draws
<1>9. mh' = All(NoFiles) /\ mode' = "new"
  BY <1>2 DEF Undisturbed
<1>10. InSession(n, 1, 1)'
  BY <1>1, <1>2, <1>3, <1>4, <1>7, <1>9 DEF InSession
<1>11. ASSUME NEW b \in Block PROVE Waits(b, 1, 1)'
  <2>1. mh'[b] = NoFiles /\ newFile'[b] = 1 /\ last'[b] = 0
    BY <1>2, <1>9 DEF All
  <2>2. HoldsBefore(NoFiles, 1, 1)
    BY DEF HoldsBefore, Holds, NoFiles
  <2> QED
    BY <1>4, <2>1, <2>2 DEF Waits
<1>12. 1 \in 1..MAX_nruns /\ 1 \in Nat \ {0} /\ n \in NewReplics \cup LoadReplics
  BY Constants
<1> QED
  BY <1>2, <1>8, <1>10, <1>11, <1>12, SessionBegins

LEMMA LoadUndisturbed ==
  ASSUME Undisturbed, NEW n \in LoadReplics, Load(n)
  PROVE  Undisturbed'
<1>1. /\ pc = "off" /\ hist.mhDraws # << >>
      /\ pc' = "core" /\ mode' = "load" /\ nruns' = All(n) /\ last' = hist.lastPar
      /\ UNCHANGED <<mh, size>>
  BY DEF Load, CanLoad
<1>2. PICK G \in Nat \ {0} : G = hist.lastFile
  BY <1>1 DEF Undisturbed, InType, IsRecord, AddsUp
<1>3. PICK m \in 1..MAX_nruns : m = hist.lastLine
  BY <1>1, Constants DEF Undisturbed, InType, IsRecord, AddsUp
<1>4. ASSUME NEW b \in Block
      PROVE  /\ Holds(mh[b], G, m)
             /\ hist.lastPar[b] = LinesBefore(G) + m /\ hist.lastSeeds[b] = LinesBefore(G) + m
  <2>1. hist # NoHistory
    BY <1>1 DEF NoHistory
  <2>2. /\ Holds(mh[b], hist.lastFile, hist.lastLine)
        /\ hist.lastPar[b] = LastDrawOf(hist) /\ hist.lastSeeds[b] = LastDrawOf(hist)
    BY <1>1, <2>1 DEF Undisturbed, AtRest
  <2>3. LastDrawOf(hist) = LinesBefore(G) + m
    BY <1>2, <1>3 DEF LastDrawOf
  <2> QED
    BY <1>2, <1>3, <2>2, <2>3, Zenon
<1>5. n \in Nat \ {0} /\ LinesBefore(G) \in Nat /\ MAX_nruns \in Nat
  <2>1. LinesBefore(G) \in Nat
    BY FilesFollow
  <2> QED
    BY <2>1, Constants
<1>6. PICK j : j = Anticipate(hist, n, n - (MAX_nruns - m))
  OBVIOUS
<1>7. hist' = [j EXCEPT !.initialSeeds = hist.lastSeeds]
  BY <1>3, <1>6 DEF Load
<1>8. IsRecord(hist) /\ AddsUp(hist)
  BY DEF Undisturbed, InType
<1>9. /\ IsRecord(j) /\ AddsUp(j) /\ j.mhDraws # << >>
      /\ LastDrawOf(j) = LinesBefore(G) + m + n
  <2>1. LinesBefore(hist.lastFile) + m >= 0
    BY <1>2, <1>5
  <2>2. /\ DrawsAsked(hist) = LinesBefore(hist.lastFile) + m
        /\ FilesOfSessions(hist, Len(hist.mhDraws)) = hist.lastFile
    BY <1>1, <1>3, <1>8 DEF AddsUp, LastDrawOf
  <2>3. /\ IsRecord(j) /\ AddsUp(j) /\ j.mhDraws # << >>
        /\ LastDrawOf(j) = LinesBefore(hist.lastFile) + m + n
    BY <1>5, <1>6, <1>8, <2>1, <2>2, RecordAnticipated
  <2> QED
    BY <1>2, <2>3
<1>10. hist.lastSeeds \in [Block -> Nat] /\ hist.lastPar \in [Block -> Draws]
  BY <1>8 DEF IsRecord
<1>11. /\ IsRecord(hist') /\ hist'.mhDraws = j.mhDraws /\ hist'.lastFile = j.lastFile
       /\ hist'.lastLine = j.lastLine /\ hist'.initialSeeds = hist.lastSeeds
  BY <1>7, <1>9, <1>10 DEF IsRecord
<1>12. AddsUp(hist') /\ LastDrawOf(hist') = LinesBefore(G) + m + n
  BY <1>9, <1>11 DEF AddsUp, LastDrawOf, DrawsAsked, FilesOfSessions
<1>13. hist.lastSeeds = All(LinesBefore(G) + m)
  BY <1>4, <1>10 DEF All
<1>14. ASSUME NEW F \in Nat \ {0}, NEW k \in 1..MAX_nruns, newFile' = All(F), fline' = All(k),
              LinesBefore(F) + k - 1 = LinesBefore(G) + m,
              \A b \in Block : HoldsBefore(mh[b], F, k)
       PROVE  Undisturbed'
  <2>1. InType'
    BY <1>1, <1>5, <1>10, <1>11, <1>12, <1>14 DEF Undisturbed, InType, All
  <2>2. InSession(n, F, k)'
    BY <1>1, <1>9, <1>11, <1>12, <1>13, <1>14 DEF InSession
  <2>3. \A b \in Block : Waits(b, F, k)'
    BY <1>1, <1>4, <1>14 DEF Waits, All
  <2>4. n \in NewReplics \cup LoadReplics
    OBVIOUS
  <2> QED
    BY <1>1, <1>14, <2>1, <2>2, <2>3, <2>4, SessionBegins
<1>15. CASE m < MAX_nruns
  <2>1. newFile' = All(G) /\ fline' = All(m + 1)
    BY <1>2, <1>3, <1>15 DEF Load, LastFileHasRoom
  <2>2. m + 1 \in 1..MAX_nruns /\ LinesBefore(G) + (m + 1) - 1 = LinesBefore(G) + m
    BY <1>5, <1>15
  <2>3. \A b \in Block : HoldsBefore(mh[b], G, m + 1)
    BY <1>4 DEF HoldsBefore
  <2> QED
    BY <1>14, <2>1, <2>2, <2>3
<1>16. CASE m = MAX_nruns
  <2>1. newFile' = All(G + 1) /\ fline' = All(1)
    BY <1>2, <1>3, <1>16 DEF Load, LastFileHasRoom
  <2>2. LinesBefore(G + 1) + 1 - 1 = LinesBefore(G) + m
    BY <1>5, <1>16, FilesFollow
  <2>3. \A b \in Block : HoldsBefore(mh[b], G + 1, 1)
    BY <1>4, <1>16 DEF HoldsBefore
  <2>4. G + 1 \in Nat \ {0} /\ 1 \in 1..MAX_nruns
    BY Constants
  <2> QED
    BY <1>14, <2>1, <2>2, <2>3, <2>4
<1> QED
  BY <1>15, <1>16, <1>5

-----------------------------------------------------------------------------
(* A session *)

\* What an action of the core has to keep.
CoreInvariant(n, F, k) ==
    /\ InType /\ InSession(n, F, k)
    /\ InCore(n, F, k) /\ pc \in {"block", "draw", "full", "write"}

LEMMA SessionFacts ==
  ASSUME InType, NEW n \in NewReplics \cup LoadReplics, NEW F \in 1..hist.lastFile,
         NEW k \in 1..MAX_nruns, InSession(n, F, k)
  PROVE  /\ n \in Nat \ {0} /\ F \in Nat \ {0} /\ LinesBefore(F) \in Nat
         /\ hist.lastFile \in Nat \ {0} /\ hist.lastLine \in 1..MAX_nruns
         /\ LastDrawOf(hist) = LinesBefore(hist.lastFile) + hist.lastLine
         /\ LinesBefore(hist.lastFile) \in Nat /\ LastDrawOf(hist) \in Nat
         /\ \A b \in Block : nruns[b] = n /\ fline[b] = k
<1>1. hist.lastFile \in Nat \ {0} /\ hist.lastLine \in 1..MAX_nruns
  BY Constants DEF InType, IsRecord, AddsUp, InSession
<1>2. F \in Nat \ {0} /\ n \in Nat \ {0}
  BY <1>1, Constants
<1>3. LinesBefore(F) \in Nat /\ LinesBefore(hist.lastFile) \in Nat
  BY <1>1, <1>2, FilesFollow
<1>4. LastDrawOf(hist) = LinesBefore(hist.lastFile) + hist.lastLine
  BY DEF LastDrawOf
<1>5. \A b \in Block : nruns[b] = n /\ fline[b] = k
  BY DEF InSession, All
<1> QED
  BY <1>1, <1>2, <1>3, <1>4, <1>5

LEMMA SizeFacts ==
  ASSUME LastDrawOf(hist) \in Int, NEW f \in Int
  PROVE  /\ SizeOf(f) \in Int /\ LinesBefore(f) \in Int
         /\ SizeOf(f) <= MAX_nruns /\ SizeOf(f) <= LastDrawOf(hist) - LinesBefore(f)
         /\ SizeOf(f) = MAX_nruns \/ SizeOf(f) = LastDrawOf(hist) - LinesBefore(f)
<1>1. LinesBefore(f) \in Int /\ MAX_nruns \in Int
  BY FilesFollow, Constants
<1> QED
  BY <1>1, MinOfTwo DEF SizeOf

LEMMA EnterCoreKeeps ==
  ASSUME InType, NEW n \in NewReplics \cup LoadReplics, NEW F \in 1..hist.lastFile,
         NEW k \in 1..MAX_nruns, InSession(n, F, k), \A b \in Block : Waits(b, F, k),
         EnterCore
  PROVE  CoreInvariant(n, F, k)'
<1>1. /\ pc' = "block" /\ rec' = hist /\ size' = [b \in Block |-> Min({MAX_nruns, fline[b] + nruns[b] - 1})]
      /\ UNCHANGED <<hist, mh, mode, newFile, fline, nruns, last>>
  BY DEF EnterCore, disk, plan
<1>2. blk' = 1
  BY DEF EnterCore, FirstBlock, InType
<1>3. ASSUME NEW b \in Block PROVE size'[b] = SizeOf(F)
  <2>1. fline[b] + nruns[b] - 1 = LastDrawOf(hist) - LinesBefore(F)
    <3>1. LastDrawOf(hist) = LinesBefore(F) + k - 1 + n
      BY DEF InSession
    <3> QED
      BY <3>1, SessionFacts
  <2> QED
    BY <1>1, <2>1 DEF SizeOf
<1>4. SizeOf(F) \in Int
  BY SessionFacts, SizeFacts
<1>5. InType'
  BY <1>1, <1>3, <1>4 DEF InType
<1>6. InSession(n, F, k)'
  BY <1>1 DEF InSession
<1>7. \A b \in Block : Waits(b, F, k)'
  BY <1>1 DEF Waits
<1>8. \A b \in Block : size'[b] = SizeOf(F)'
  BY <1>1, <1>3 DEF SizeOf
<1>9. IsRecord(rec)' /\ blk' \in 1..(NumberOfBlocks + 1) /\ \A b \in Block : ~(b < blk')
  BY <1>1, <1>2, Constants DEF InType
<1>10. InCore(n, F, k)'
  BY <1>1, <1>7, <1>8, <1>9 DEF InCore
<1> QED
  BY <1>1, <1>5, <1>6, <1>10 DEF CoreInvariant

LEMMA OpenOldFileKeeps ==
  ASSUME NEW n \in NewReplics \cup LoadReplics, NEW F \in 1..hist.lastFile,
         NEW k \in 1..MAX_nruns, CoreInvariant(n, F, k), OpenOldFile
  PROVE  CoreInvariant(n, F, k)'
<1>1. InType /\ InSession(n, F, k) /\ InCore(n, F, k)
  BY DEF CoreInvariant
<1>2. /\ pc = "block" /\ pc' = "draw" /\ blk \in Block /\ iter' = 1 /\ idx' = fline[blk]
      /\ rng' = rec.initialSeeds[blk] /\ fline[blk] > 1
      /\ x2' = mh[blk][newFile[blk]].x \o Zeros(size[blk] - fline[blk] + 1)
      /\ UNCHANGED <<hist, mh, mode, blk, newFile, fline, nruns, last, size, rec>>
  BY DEF OpenOldFile, OpensOldFile, disk, plan
<1>3. /\ n \in Nat \ {0} /\ F \in Nat \ {0} /\ LinesBefore(F) \in Nat /\ LastDrawOf(hist) \in Nat
      /\ fline[blk] = k /\ LastDrawOf(hist) = LinesBefore(F) + k - 1 + n
      /\ rng' = LinesBefore(F) + k - 1
  <2>1. rec.initialSeeds[blk] = LinesBefore(F) + k - 1
    BY <1>1, <1>2 DEF InCore, InSession, All
  <2> QED
    BY <1>1, <1>2, <2>1, SessionFacts DEF InSession
<1>4. /\ newFile[blk] = F /\ last[blk] = LinesBefore(F) + k - 1 /\ size[blk] = SizeOf(F)
      /\ HoldsBefore(mh[blk], F, k)
  <2>1. Waits(blk, F, k) /\ size[blk] = SizeOf(F)
    BY <1>1, <1>2 DEF InCore
  <2> QED
    BY <2>1 DEF Waits
<1>5. SizeOf(F) \in k..MAX_nruns
  <2>1. /\ SizeOf(F) \in Int /\ SizeOf(F) <= MAX_nruns
        /\ SizeOf(F) = MAX_nruns \/ SizeOf(F) = LastDrawOf(hist) - LinesBefore(F)
    BY <1>3, SizeFacts
  <2> QED
    BY <1>3, <2>1, Constants
<1>6. HasLines(mh[blk][F], F, k - 1)
  BY <1>2, <1>3, <1>4 DEF HoldsBefore, Holds
<1>7. /\ x2' \in Seq(Draws) /\ Len(x2') = SizeOf(F)
      /\ \A i \in 1..(k - 1) : x2'[i] = LinesBefore(F) + i
  <2>1. PICK x \in Seq(Draws) : x = mh[blk][F].x
    BY <1>6 DEF HasLines
  <2>2. PICK z : z = Zeros(SizeOf(F) - k + 1)
    OBVIOUS
  <2>3. z \in Seq(Draws) /\ Len(z) = SizeOf(F) - k + 1
    BY <1>5, <2>2 DEF Zeros, Draws
  <2>4. Len(x) = k - 1 /\ \A i \in 1..(k - 1) : x[i] = LinesBefore(F) + i
    BY <1>6, <2>1 DEF HasLines
  <2>5. x2' = x \o z
    BY <1>2, <1>3, <1>4, <2>1, <2>2
  <2>6. /\ x \o z \in Seq(Draws) /\ Len(x \o z) = Len(x) + Len(z)
        /\ \A i \in 1..Len(x) : (x \o z)[i] = x[i]
    BY <2>3, ConcatProperties
  <2> QED
    BY <1>5, <2>3, <2>4, <2>5, <2>6
<1>8. Fills(F, n, F, k)'
  <2>1. 1 \in 1..n /\ k \in 1..size[blk] /\ LinesBefore(F) + k = LinesBefore(F) + k - 1 + 1
    BY <1>3, <1>4, <1>5
  <2>2. Filled(F, k - 1)'
    BY <1>2, <1>3, <1>4, <1>7 DEF Filled
  <2>3. SizeOf(F)' = SizeOf(F)
    BY <1>2 DEF SizeOf
  <2> QED
    BY <1>2, <1>3, <1>4, <1>7, <2>1, <2>2, <2>3 DEF Fills
<1>9. Runs(n, F, k)'
  BY <1>2, <1>4, <1>8 DEF Runs
<1>10. InCore(n, F, k)'
  BY <1>1, <1>2, <1>9 DEF InCore, HasEnded, Waits, SizeOf
<1> QED
  BY <1>1, <1>2, <1>10 DEF CoreInvariant, InType, InSession

LEMMA OpenNewFileKeeps ==
  ASSUME NEW n \in NewReplics \cup LoadReplics, NEW F \in 1..hist.lastFile,
         NEW k \in 1..MAX_nruns, CoreInvariant(n, F, k), OpenNewFile
  PROVE  CoreInvariant(n, F, k)'
<1>1. InType /\ InSession(n, F, k) /\ InCore(n, F, k)
  BY DEF CoreInvariant
<1>2. /\ pc = "block" /\ pc' = "draw" /\ blk \in Block /\ iter' = 1 /\ idx' = fline[blk]
      /\ rng' = rec.initialSeeds[blk] /\ x2' = Zeros(size[blk])
      /\ ~(mode = "load" /\ fline[blk] > 1)
      /\ UNCHANGED <<hist, mh, mode, blk, newFile, fline, nruns, last, size, rec>>
  BY DEF OpenNewFile, OpensOldFile, disk, plan
<1>3. /\ n \in Nat \ {0} /\ F \in Nat \ {0} /\ LinesBefore(F) \in Nat /\ LastDrawOf(hist) \in Nat
      /\ fline[blk] = k /\ LastDrawOf(hist) = LinesBefore(F) + k - 1 + n
      /\ rng' = LinesBefore(F) + k - 1
  <2>1. rec.initialSeeds[blk] = LinesBefore(F) + k - 1
    BY <1>1, <1>2 DEF InCore, InSession, All
  <2> QED
    BY <1>1, <1>2, <2>1, SessionFacts DEF InSession
<1>4. k = 1
  BY <1>1, <1>2, <1>3 DEF InType, InSession
<1>5. /\ newFile[blk] = F /\ last[blk] = LinesBefore(F) + k - 1 /\ size[blk] = SizeOf(F)
      /\ HoldsBefore(mh[blk], F, k)
  BY <1>1, <1>2 DEF InCore, Waits
<1>6. SizeOf(F) \in Nat \ {0}
  <2>1. /\ SizeOf(F) \in Int
        /\ SizeOf(F) = MAX_nruns \/ SizeOf(F) = LastDrawOf(hist) - LinesBefore(F)
    BY <1>3, SizeFacts
  <2> QED
    BY <1>3, <2>1, Constants
<1>7. x2' \in Seq(Draws) /\ Len(x2') = SizeOf(F)
  BY <1>2, <1>5, <1>6 DEF Zeros, Draws
<1>8. Fills(F, n, F, k)'
  <2>1. 1 \in 1..n /\ k \in 1..size[blk] /\ LinesBefore(F) + k = LinesBefore(F) + k - 1 + 1
    BY <1>3, <1>4, <1>5, <1>6
  <2>2. Filled(F, k - 1)'
    BY <1>2, <1>3, <1>4, <1>5 DEF Filled
  <2>3. SizeOf(F)' = SizeOf(F)
    BY <1>2 DEF SizeOf
  <2> QED
    BY <1>2, <1>3, <1>5, <1>7, <2>1, <2>2, <2>3 DEF Fills
<1>9. Runs(n, F, k)'
  BY <1>2, <1>5, <1>8 DEF Runs
<1>10. InCore(n, F, k)'
  BY <1>1, <1>2, <1>9 DEF InCore, HasEnded, Waits, SizeOf
<1> QED
  BY <1>1, <1>2, <1>10 DEF CoreInvariant, InType, InSession

\* A line of the file that is being filled is drawn.
LEMMA RowSet ==
  ASSUME NEW x \in Seq(Draws), NEW i \in 1..Len(x), NEW d \in Draws
  PROVE  /\ SetRow(x, i, d) \in Seq(Draws) /\ Len(SetRow(x, i, d)) = Len(x)
         /\ \A c \in 1..Len(x) : SetRow(x, i, d)[c] = IF c = i THEN d ELSE x[c]
<1>1. Len(x) \in Nat /\ \A c \in 1..Len(x) : x[c] \in Draws
  BY ElementOfSeq
<1>2. Max({i, Len(x)}) = Len(x)
  BY <1>1 DEF Max
<1>3. SetRow(x, i, d) = [c \in 1..Len(x) |-> IF c = i THEN d ELSE x[c]]
  BY <1>1, <1>2 DEF SetRow
<1> QED
  BY <1>1, <1>3

LEMMA DrawKeeps ==
  ASSUME NEW n \in NewReplics \cup LoadReplics, NEW F \in 1..hist.lastFile,
         NEW k \in 1..MAX_nruns, CoreInvariant(n, F, k), Draw
  PROVE  CoreInvariant(n, F, k)'
<1>1. InType /\ InSession(n, F, k) /\ InCore(n, F, k)
  BY DEF CoreInvariant
<1>0. PICK par : par = IF last[blk] = rng THEN rng + 1 ELSE OffChain
  OBVIOUS
<1>2. /\ pc = "draw" /\ iter <= nruns[blk] /\ rng' = rng + 1
      /\ x2' = SetRow(x2, idx, par) /\ last' = [last EXCEPT ![blk] = par]
      /\ UNCHANGED <<hist, mh, mode, blk, newFile, fline, nruns, size, rec>>
      /\ IF idx = size[blk] \/ iter = nruns[blk]
         THEN pc' \in {"full", "write"} /\ iter' = iter /\ idx' = idx
         ELSE pc' = "draw" /\ iter' = iter + 1 /\ idx' = idx + 1
  BY <1>0 DEF Draw
<1>3. Runs(n, F, k) /\ blk \in Block
  BY <1>1, <1>2 DEF InCore, Runs
<1>4. /\ n \in Nat \ {0} /\ F \in Nat \ {0} /\ LinesBefore(F) \in Nat /\ LastDrawOf(hist) \in Nat
      /\ nruns[blk] = n /\ LastDrawOf(hist) = LinesBefore(F) + k - 1 + n
  BY <1>1, <1>3, SessionFacts DEF InSession
<1>5. PICK f \in Nat \ {0} : f = newFile[blk] /\ Fills(f, n, F, k)
  <2>1. Fills(newFile[blk], n, F, k)
    BY <1>2, <1>3, <1>4 DEF Runs
  <2> QED
    BY <2>1 DEF Fills
<1>6. /\ LinesBefore(f) \in Nat
      /\ SizeOf(f) \in Int /\ SizeOf(f) <= LastDrawOf(hist) - LinesBefore(f)
  <2>1. LinesBefore(f) \in Nat
    BY FilesFollow
  <2> QED
    BY <1>4, <2>1, SizeFacts
<1>7. /\ iter \in 1..n /\ idx \in 1..SizeOf(f) /\ size[blk] = SizeOf(f)
      /\ LinesBefore(f) + idx = LinesBefore(F) + k - 1 + iter
      /\ x2 \in Seq(Draws) /\ Len(x2) = SizeOf(f)
      /\ Filled(f, idx - 1)
      /\ Holds(mh[blk], f - 1, MAX_nruns) \/ (f = F /\ HoldsBefore(mh[blk], F, k))
  BY <1>2, <1>5 DEF Fills
<1>8. par = LinesBefore(f) + idx /\ par \in Draws /\ rng' = LinesBefore(f) + idx
  <2>1. last[blk] = rng /\ rng = LinesBefore(f) + (idx - 1)
    BY <1>7 DEF Filled
  <2> QED
    BY <1>0, <1>2, <1>6, <1>7, <2>1 DEF Draws
<1>18. PICK at \in 1..SizeOf(f) : at = idx
  BY <1>7
<1>9. /\ x2' \in Seq(Draws) /\ Len(x2') = SizeOf(f)
      /\ \A i \in 1..SizeOf(f) : x2'[i] = IF i = at THEN par ELSE x2[i]
  <2>1. x2' = SetRow(x2, at, par) /\ at \in 1..Len(x2)
    BY <1>2, <1>7, <1>18
  <2>2. /\ SetRow(x2, at, par) \in Seq(Draws) /\ Len(SetRow(x2, at, par)) = Len(x2)
        /\ \A i \in 1..Len(x2) : SetRow(x2, at, par)[i] = IF i = at THEN par ELSE x2[i]
    BY <1>7, <1>8, <2>1, RowSet
  <2> QED
    BY <1>7, <2>1, <2>2
<1>10. Filled(f, at)'
  <2>1. \A i \in 1..at : x2'[i] = LinesBefore(f) + i
    <3>1. SUFFICES ASSUME NEW i \in 1..at PROVE x2'[i] = LinesBefore(f) + i
      OBVIOUS
    <3>2. i \in 1..SizeOf(f)
      BY <1>6
    <3>3. CASE i = at
      BY <1>8, <1>9, <1>18, <3>2, <3>3
    <3>4. CASE i # at
      <4>1. i \in 1..(idx - 1)
        BY <1>7, <1>18, <3>4
      <4> QED
        BY <1>7, <1>9, <3>2, <3>4, <4>1 DEF Filled
    <3> QED
      BY <3>3, <3>4
  <2>2. last'[blk] = par
    BY <1>1, <1>2, <1>3 DEF InType
  <2> QED
    BY <1>2, <1>8, <1>18, <2>1, <2>2 DEF Filled
<1>11. iter = n => idx = SizeOf(f)
  BY <1>4, <1>6, <1>7, SMTT(30)
<1>12. Fills(f, n, F, k)'
  <2>1. SizeOf(f)' = SizeOf(f) /\ size'[blk'] = SizeOf(f)
    BY <1>2, <1>7 DEF SizeOf
  <2>2. CASE idx = size[blk] \/ iter = nruns[blk]
    <3>1. pc' \in {"full", "write"} /\ iter' = iter /\ idx' = idx /\ idx = SizeOf(f)
      BY <1>2, <1>4, <1>7, <1>11, <2>2
    <3>2. Filled(f, idx)'
      BY <1>10, <1>18, <3>1
    <3> QED
      BY <1>2, <1>7, <1>9, <2>1, <3>1, <3>2 DEF Fills
  <2>3. CASE ~(idx = size[blk] \/ iter = nruns[blk])
    <3>1. /\ pc' = "draw" /\ iter' = iter + 1 /\ idx' = idx + 1
          /\ iter # n /\ idx # SizeOf(f)
      BY <1>2, <1>4, <1>7, <2>3
    <3>4. iter' \in 1..n /\ idx' \in 1..SizeOf(f) /\ idx' - 1 = at
      <4>1. \A s, i, m \in Int : i \in 1..s /\ i # s => i + 1 \in 1..s
        OBVIOUS
      <4>2. n \in Int /\ SizeOf(f) \in Int /\ iter \in 1..n /\ idx \in 1..SizeOf(f)
        BY <1>4, <1>6, <1>7
      <4>3. iter + 1 \in 1..n
        BY <3>1, <4>1, <4>2
      <4>4. idx + 1 \in 1..SizeOf(f)
        BY <3>1, <4>1, <4>2
      <4> QED
        BY <1>18, <3>1, <4>3, <4>4
    <3>2. LinesBefore(f) + idx' = LinesBefore(F) + k - 1 + iter'
      <4>1. iter \in Int /\ idx \in Int /\ k \in Int
        BY <1>7
      <4>3. LinesBefore(f) \in Int /\ LinesBefore(F) \in Int
        BY <1>4, <1>6
      <4>4. LinesBefore(f) + idx = LinesBefore(F) + k - 1 + iter
        BY <1>7
      <4>2. LinesBefore(f) + (idx + 1) = LinesBefore(F) + k - 1 + (iter + 1)
        BY <4>1, <4>3, <4>4
      <4> QED
        BY <3>1, <4>2
    <3>3. Filled(f, idx - 1)'
      BY <1>10, <3>4
    <3> QED
      BY <1>2, <1>7, <1>9, <2>1, <3>1, <3>2, <3>3, <3>4 DEF Fills
  <2> QED
    BY <2>2, <2>3
<1>13. newFile'[blk'] = f
  BY <1>2, <1>5
<1>14. Runs(n, F, k)'
  BY <1>2, <1>3, <1>12, <1>13 DEF Runs
<1>15. pc' \in {"draw", "full", "write"}
  BY <1>2
<1>16. InCore(n, F, k)'
  <2>1. \A b \in Block : b < blk' => HasEnded(b)' /\ rec'.lastSeeds[b] = LastDrawOf(hist')
    BY <1>1, <1>2 DEF InCore, HasEnded
  <2>2. ASSUME NEW b \in Block, b > blk' PROVE Waits(b, F, k)' /\ size'[b] = SizeOf(F)'
    <3>1. Waits(b, F, k) /\ size[b] = SizeOf(F)
      BY <1>1, <1>2, <2>2 DEF InCore
    <3>2. last'[b] = last[b]
      <4>1. b # blk
        BY <1>2, <1>3, <2>2, Constants
      <4> QED
        BY <1>1, <1>2, <4>1 DEF InType
    <3> QED
      BY <1>2, <3>1, <3>2 DEF Waits, SizeOf
  <2> QED
    BY <1>1, <1>2, <1>14, <1>15, <2>1, <2>2 DEF InCore
<1>17. InType'
  BY <1>1, <1>2, <1>8, <1>15 DEF InType
<1> QED
  BY <1>1, <1>2, <1>15, <1>16, <1>17 DEF CoreInvariant, InSession

LEMMA DeleteTmpKeeps ==
  ASSUME NEW n \in NewReplics \cup LoadReplics, NEW F \in 1..hist.lastFile,
         NEW k \in 1..MAX_nruns, CoreInvariant(n, F, k), DeleteTmp
  PROVE  CoreInvariant(n, F, k)'
<1>1. InType /\ InSession(n, F, k) /\ InCore(n, F, k)
  BY DEF CoreInvariant
<1>2. /\ pc = "full" /\ pc' = "write"
      /\ UNCHANGED <<hist, mh, mode, blk, newFile, fline, nruns, last, size, rec, rng, x2, iter, idx>>
  BY DEF DeleteTmp, plan, chain
<1>3. Runs(n, F, k)'
  BY <1>1, <1>2 DEF InCore, Runs, Fills, Filled, SizeOf
<1>4. InCore(n, F, k)'
  BY <1>1, <1>2, <1>3 DEF InCore, HasEnded, Waits, SizeOf
<1> QED
  BY <1>1, <1>2, <1>4 DEF CoreInvariant, InType, InSession

\* A file is added to those of a block, or takes the place of the last of them.
LEMMA FileAdded ==
  ASSUME NEW files, NEW f \in Nat \ {0}, NEW m \in 1..MAX_nruns, NEW file,
         Holds(files, f - 1, MAX_nruns)
            \/ \E k \in 1..MAX_nruns : k > 1 /\ Holds(files, f, k - 1),
         HasLines(file, f, m)
  PROVE  Holds(Written(files, f, file), f, m)
<1>1. DOMAIN files \in {1..(f - 1), 1..f}
  BY DEF Holds
<1>2. \A g \in 1..(f - 1) : HasLines(files[g], g, MAX_nruns)
  BY DEF Holds
<1>3. PICK all : all = Written(files, f, file)
  OBVIOUS
<1>4. all = [g \in {f} \cup DOMAIN files |-> IF g = f THEN file ELSE files[g]]
  BY <1>3 DEF Written
<1>5. DOMAIN all = 1..f
  BY <1>1, <1>4
<1>6. \A g \in 1..f : HasLines(all[g], g, IF g = f THEN m ELSE MAX_nruns)
  <2>1. ASSUME NEW g \in 1..f, g # f PROVE g \in 1..(f - 1) /\ all[g] = files[g]
    BY <1>4, <1>5, <2>1
  <2>2. all[f] = file
    BY <1>4
  <2> QED
    BY <1>2, <2>1, <2>2
<1> QED
  BY <1>3, <1>5, <1>6 DEF Holds

LEMMA SaveFileKeeps ==
  ASSUME NEW n \in NewReplics \cup LoadReplics, NEW F \in 1..hist.lastFile,
         NEW k \in 1..MAX_nruns, CoreInvariant(n, F, k), SaveFile
  PROVE  CoreInvariant(n, F, k)'
<1>1. InType /\ InSession(n, F, k) /\ InCore(n, F, k)
  BY DEF CoreInvariant
<1>2. /\ pc = "write" /\ pc' = "draw" /\ iter' = iter + 1
      /\ UNCHANGED <<hist, mode, blk, fline, nruns, last, rng>>
  BY DEF SaveFile
<1>3. Runs(n, F, k) /\ blk \in Block
  BY <1>1, <1>2 DEF InCore, Runs
<1>4. /\ n \in Nat \ {0} /\ F \in Nat \ {0} /\ LinesBefore(F) \in Nat /\ LastDrawOf(hist) \in Nat
      /\ nruns[blk] = n /\ LastDrawOf(hist) = LinesBefore(F) + k - 1 + n
      /\ hist.lastFile \in Nat \ {0} /\ hist.lastLine \in 1..MAX_nruns
      /\ LastDrawOf(hist) = LinesBefore(hist.lastFile) + hist.lastLine
  BY <1>1, <1>3, SessionFacts DEF InSession
<1>5. PICK f \in Nat \ {0} : f = newFile[blk] /\ Fills(f, n, F, k)
  <2>1. Fills(newFile[blk], n, F, k)
    BY <1>2, <1>3 DEF Runs
  <2> QED
    BY <2>1 DEF Fills
<1>6. /\ LinesBefore(f) \in Nat /\ LinesBefore(f + 1) = LinesBefore(f) + MAX_nruns
      /\ SizeOf(f) \in Int /\ SizeOf(f) <= MAX_nruns
      /\ SizeOf(f) = MAX_nruns \/ SizeOf(f) = LastDrawOf(hist) - LinesBefore(f)
  <2>1. LinesBefore(f) \in Nat /\ LinesBefore(f + 1) = LinesBefore(f) + MAX_nruns
    BY FilesFollow
  <2> QED
    BY <1>4, <2>1, SizeFacts
<1>7. /\ iter \in 1..n /\ idx \in 1..size[blk] /\ idx = size[blk] /\ size[blk] = SizeOf(f)
      /\ LinesBefore(f) + idx = LinesBefore(F) + k - 1 + iter
      /\ x2 \in Seq(Draws) /\ Len(x2) = size[blk]
      /\ Filled(f, idx)
      /\ Holds(mh[blk], f - 1, MAX_nruns) \/ (f = F /\ HoldsBefore(mh[blk], F, k))
  BY <1>2, <1>5 DEF Fills
<1>8. PICK m \in 1..MAX_nruns : m = SizeOf(f) /\ m = idx
  <2>1. idx \in 1..SizeOf(f) /\ idx = SizeOf(f)
    BY <1>7
  <2> QED
    BY <1>6, <2>1, Constants
<1>9. /\ LinesBefore(f) + m = LinesBefore(F) + k - 1 + iter
      /\ m = MAX_nruns \/ m = LastDrawOf(hist) - LinesBefore(f)
      /\ Len(x2) = m /\ \A i \in 1..m : x2[i] = LinesBefore(f) + i
      /\ last[blk] = LinesBefore(f) + m /\ rng = LinesBefore(f) + m
  BY <1>6, <1>7, <1>8 DEF Filled
<1>10. PICK file : /\ file = [x |-> x2, seeds |-> seeds']
                   /\ mh' = [mh EXCEPT ![blk] = Written(@, f, file)]
  BY <1>5 DEF SaveFile
<1>11. HasLines(file, f, m)
  <2>1. file.x = x2 /\ file.seeds = seeds'
    BY <1>10
  <2>2. seeds' = Written(seeds, f, rng)
    BY <1>5 DEF SaveFile
  <2>3. seeds'[f] = rng
    BY <2>2 DEF Written
  <2> QED
    BY <1>7, <1>9, <2>1, <2>3 DEF HasLines
<1>12. Holds(mh'[blk], f, m)
  <2>1. \/ Holds(mh[blk], f - 1, MAX_nruns)
        \/ \E j \in 1..MAX_nruns : j > 1 /\ Holds(mh[blk], f, j - 1)
    <3>1. k = 1 \/ k > 1
      BY Constants
    <3> QED
      BY <1>7, <3>1 DEF HoldsBefore
  <2>2. mh'[blk] = Written(mh[blk], f, file)
    BY <1>1, <1>3, <1>10 DEF InType
  <2>3. Holds(Written(mh[blk], f, file), f, m)
    BY <1>11, <2>1, FileAdded
  <2> QED
    BY <2>2, <2>3
<1>13. DOMAIN mh' = Block /\ \A b \in Block : b # blk => mh'[b] = mh[b]
  BY <1>1, <1>10 DEF InType
<1>14. PICK next \in Int : /\ next = IF n - iter <= MAX_nruns THEN n - iter ELSE MAX_nruns
                           /\ size' = [size EXCEPT ![blk] = next]
                           /\ IF next # 0
                              THEN /\ x2' = Zeros(next) /\ idx' = 1
                                   /\ newFile' = [newFile EXCEPT ![blk] = f + 1]
                              ELSE newFile' = newFile
  <2>1. n - iter \in Int /\ MAX_nruns \in Int
    BY <1>4, <1>7, Constants
  <2>2. Min({n - iter, MAX_nruns}) = IF n - iter <= MAX_nruns THEN n - iter ELSE MAX_nruns
    BY <2>1, MinOfTwo
  <2>3. /\ size' = [size EXCEPT ![blk] = Min({n - iter, MAX_nruns})]
        /\ IF Min({n - iter, MAX_nruns}) # 0
           THEN /\ x2' = Zeros(Min({n - iter, MAX_nruns})) /\ idx' = 1
                /\ newFile' = [newFile EXCEPT ![blk] = f + 1]
           ELSE newFile' = newFile
    BY <1>4, <1>5 DEF SaveFile
  <2> QED
    BY <2>1, <2>2, <2>3
<1>15. /\ IsRecord(rec') /\ rec'.mhDraws = rec.mhDraws /\ rec'.initialSeeds = rec.initialSeeds
       /\ rec'.lastFile = rec.lastFile /\ rec'.lastLine = rec.lastLine
       /\ rec'.lastSeeds = rec.lastSeeds
       /\ \A b \in Block : b # blk => rec'.lastPar[b] = rec.lastPar[b]
       /\ iter = n => rec'.lastPar[blk] = LinesBefore(f) + m
  <2>1. IsRecord(rec)
    BY <1>1 DEF InCore
  <2>2. PICK d \in Draws : d = LinesBefore(f) + m
    BY <1>6 DEF Draws
  <2>3. x2[Len(x2)] = d
    BY <1>9, <2>2
  <2>4. rec' = IF iter = n THEN [rec EXCEPT !.lastPar[blk] = d] ELSE rec
    BY <1>4, <2>3 DEF SaveFile
  <2> QED
    BY <1>3, <2>1, <2>2, <2>4 DEF IsRecord
<1>16. Runs(n, F, k)'
  <2>1. CASE iter = n
    <3>1. LinesBefore(f) + m = LastDrawOf(hist)
      BY <1>4, <1>9, <2>1
    <3>2. f = hist.lastFile /\ m = hist.lastLine
      BY <1>4, <3>1, OneLine
    <3>3. HasEnded(blk)'
      BY <1>2, <1>12, <1>15, <2>1, <3>1, <3>2 DEF HasEnded
    <3> QED
      BY <1>2, <1>3, <1>9, <2>1, <3>1, <3>3 DEF Runs
  <2>2. CASE iter # n
    <3>1. m = MAX_nruns
      BY <1>4, <1>6, <1>7, <1>9, <2>2, SMTT(30)
    <3>2. /\ next \in Nat \ {0} /\ iter + 1 \in 1..n
          /\ next = IF n - iter <= MAX_nruns THEN n - iter ELSE MAX_nruns
      <4>1. n \in Int /\ iter \in 1..n /\ iter # n
        BY <1>4, <1>7, <2>2
      <4>2. n - iter \in Nat \ {0} /\ iter + 1 \in 1..n
        BY <4>1
      <4> QED
        BY <1>14, <4>2, Constants
    <3>3. LinesBefore(f + 1) = LinesBefore(F) + k - 1 + iter
      BY <1>6, <1>9, <3>1
    <3>4. SizeOf(f + 1) = next
      <4>1. LastDrawOf(hist) - LinesBefore(f + 1) = n - iter
        BY <1>4, <1>7, <3>3
      <4>2. n - iter \in Int /\ MAX_nruns \in Int
        BY <1>4, <1>7, Constants
      <4> QED
        BY <3>2, <4>1, <4>2, MinOfTwo DEF SizeOf
    <3>5. /\ x2' = Zeros(next) /\ idx' = 1 /\ newFile'[blk] = f + 1 /\ size'[blk] = next
      BY <1>1, <1>3, <1>14, <3>2 DEF InType
    <3>6. x2' \in Seq(Draws) /\ Len(x2') = next
      BY <3>2, <3>5 DEF Zeros, Draws
    <3>7. Filled(f + 1, 0)'
      BY <1>2, <1>6, <1>9, <3>1 DEF Filled
    <3>8. Filled(f + 1, idx - 1)'
      BY <3>5, <3>7
    <3>9. Holds(mh'[blk], (f + 1) - 1, MAX_nruns)
      BY <1>12, <3>1
    <3>10. LinesBefore(f + 1) + 1 = LinesBefore(F) + k - 1 + (iter + 1)
      <4>1. iter \in Int
        BY <1>7
      <4> QED
        BY <1>4, <3>3, <4>1
    <3>11. SizeOf(f + 1)' = next /\ 1 \in 1..next
      BY <1>2, <3>2, <3>4 DEF SizeOf
    <3>12. Fills(f + 1, n, F, k)'
      BY <1>2, <3>2, <3>5, <3>6, <3>8, <3>9, <3>10, <3>11 DEF Fills
    <3> QED
      BY <1>2, <1>3, <3>5, <3>12 DEF Runs
  <2> QED
    BY <2>1, <2>2
<1>17. ASSUME NEW b \in Block, b # blk
       PROVE  newFile'[b] = newFile[b] /\ size'[b] = size[b] /\ mh'[b] = mh[b]
  BY <1>1, <1>13, <1>14, <1>17 DEF InType
<1>18. InCore(n, F, k)'
  <2>1. \A b \in Block : b < blk' => HasEnded(b)' /\ rec'.lastSeeds[b] = LastDrawOf(hist')
    <3>1. SUFFICES ASSUME NEW b \in Block, b < blk
                   PROVE  HasEnded(b)' /\ rec'.lastSeeds[b] = LastDrawOf(hist)
      BY <1>2
    <3>2. b # blk
      BY <1>3, <3>1, Constants
    <3> QED
      BY <1>1, <1>2, <1>13, <1>15, <3>1, <3>2 DEF InCore, HasEnded
  <2>2. ASSUME NEW b \in Block, b > blk' PROVE Waits(b, F, k)' /\ size'[b] = SizeOf(F)'
    <3>1. Waits(b, F, k) /\ size[b] = SizeOf(F)
      BY <1>1, <1>2, <2>2 DEF InCore
    <3>2. b # blk
      BY <1>2, <1>3, <2>2, Constants
    <3> QED
      BY <1>2, <1>17, <3>1, <3>2 DEF Waits, SizeOf
  <2>3. /\ rec'.mhDraws = hist'.mhDraws /\ rec'.initialSeeds = hist'.initialSeeds
        /\ rec'.lastFile = hist'.lastFile /\ rec'.lastLine = hist'.lastLine
    BY <1>1, <1>2, <1>15 DEF InCore
  <2> QED
    BY <1>1, <1>2, <1>15, <1>16, <2>1, <2>2, <2>3 DEF InCore
<1>19. InType'
  <2>1. newFile' \in [Block -> Nat] /\ size' \in [Block -> Int]
    <3>1. newFile \in [Block -> Nat] /\ size \in [Block -> Int]
      BY <1>1 DEF InType
    <3>2. size' \in [Block -> Int]
      BY <1>14, <3>1
    <3>3. newFile' \in [Block -> Nat]
      BY <1>14, <3>1
    <3> QED
      BY <3>2, <3>3
  <2> QED
    BY <1>1, <1>2, <1>13, <2>1 DEF InType
<1> QED
  BY <1>1, <1>2, <1>18, <1>19 DEF CoreInvariant, InSession

LEMMA EndBlockKeeps ==
  ASSUME NEW n \in NewReplics \cup LoadReplics, NEW F \in 1..hist.lastFile,
         NEW k \in 1..MAX_nruns, CoreInvariant(n, F, k), EndBlock
  PROVE  CoreInvariant(n, F, k)'
<1>1. InType /\ InSession(n, F, k) /\ InCore(n, F, k)
  BY DEF CoreInvariant
<1>2. /\ pc = "draw" /\ pc' = "block" /\ iter > nruns[blk] /\ blk' = blk + 1
      /\ rec' = IF nruns[blk] # 0 THEN [rec EXCEPT !.lastSeeds[blk] = rng] ELSE rec
      /\ UNCHANGED <<hist, mh, mode, newFile, fline, nruns, last, size>>
  BY DEF EndBlock, IsDone, RecordAtTheEnd, disk, plan
<1>3. Runs(n, F, k) /\ blk \in Block
  BY <1>1, <1>2 DEF InCore, Runs
<1>4. n \in Nat \ {0} /\ nruns[blk] = n /\ LastDrawOf(hist) \in Nat
  BY <1>1, <1>3, SessionFacts
<1>5. rng = LastDrawOf(hist) /\ HasEnded(blk)
  BY <1>2, <1>3, <1>4 DEF Runs, Fills
<1>6. /\ IsRecord(rec') /\ rec'.mhDraws = rec.mhDraws /\ rec'.initialSeeds = rec.initialSeeds
      /\ rec'.lastFile = rec.lastFile /\ rec'.lastLine = rec.lastLine /\ rec'.lastPar = rec.lastPar
      /\ \A b \in Block : rec'.lastSeeds[b] = IF b = blk THEN LastDrawOf(hist) ELSE rec.lastSeeds[b]
  <2>1. PICK r \in Nat : r = rng /\ r = LastDrawOf(hist)
    BY <1>4, <1>5
  <2>2. rec' = [rec EXCEPT !.lastSeeds[blk] = r] /\ IsRecord(rec)
    BY <1>1, <1>2, <1>4, <2>1 DEF InCore
  <2> QED
    BY <1>3, <2>1, <2>2 DEF IsRecord
<1>7. blk \in 1..NumberOfBlocks /\ blk' \in 1..(NumberOfBlocks + 1)
  BY <1>2, <1>3, Constants DEF Block
<1>8. ASSUME NEW b \in Block, b < blk'
      PROVE  HasEnded(b)' /\ rec'.lastSeeds[b] = LastDrawOf(hist')
  <2>1. b = blk \/ b < blk
    BY <1>2, <1>3, <1>8, Constants
  <2>2. HasEnded(b)
    BY <1>1, <1>5, <2>1 DEF InCore
  <2>3. b # blk => rec.lastSeeds[b] = LastDrawOf(hist)
    BY <1>1, <2>1 DEF InCore
  <2> QED
    BY <1>2, <1>6, <2>2, <2>3 DEF HasEnded
<1>9. ASSUME NEW b \in Block, b > blk' \/ b = blk'
      PROVE  Waits(b, F, k)' /\ size'[b] = SizeOf(F)'
  <2>1. b > blk
    BY <1>2, <1>3, <1>9, Constants
  <2>2. Waits(b, F, k) /\ size[b] = SizeOf(F)
    BY <1>1, <2>1 DEF InCore
  <2> QED
    BY <1>2, <2>2 DEF Waits, SizeOf
<1>10. InCore(n, F, k)'
  BY <1>1, <1>2, <1>6, <1>7, <1>8, <1>9 DEF InCore
<1> QED
  BY <1>1, <1>2, <1>10 DEF CoreInvariant, InType, InSession

LEMMA ConcludeUndisturbed ==
  ASSUME NEW n \in NewReplics \cup LoadReplics, NEW F \in 1..hist.lastFile,
         NEW k \in 1..MAX_nruns, CoreInvariant(n, F, k), Conclude
  PROVE  Undisturbed'
<1>1. InType /\ InSession(n, F, k) /\ InCore(n, F, k)
  BY DEF CoreInvariant
<1>2. /\ pc' = "off" /\ mode' = "new" /\ blk = NumberOfBlocks + 1 /\ mh' = mh
      /\ hist' = [rec EXCEPT !.concluded = TRUE]
      /\ newFile' = All(1) /\ fline' = All(1) /\ nruns' = All(0) /\ last' = All(0) /\ size' = All(0)
  BY DEF Conclude, ConcludedRecord, Leave
<1>3. /\ IsRecord(hist') /\ hist'.concluded
      /\ hist'.mhDraws = rec.mhDraws /\ hist'.lastFile = rec.lastFile /\ hist'.lastLine = rec.lastLine
      /\ hist'.lastPar = rec.lastPar /\ hist'.lastSeeds = rec.lastSeeds
  BY <1>1, <1>2 DEF InCore, IsRecord
<1>4. /\ hist'.mhDraws = hist.mhDraws /\ hist'.lastFile = hist.lastFile
      /\ hist'.lastLine = hist.lastLine
  BY <1>1, <1>3 DEF InCore
<1>5. LastDrawOf(hist') = LastDrawOf(hist) /\ AddsUp(hist') /\ hist'.mhDraws # << >>
  BY <1>1, <1>4 DEF InType, InSession, AddsUp, LastDrawOf, DrawsAsked, FilesOfSessions
<1>6. InType'
  BY <1>1, <1>2, <1>3, <1>5 DEF InType, All, Draws
<1>7. ASSUME NEW b \in Block
      PROVE  /\ Holds(mh'[b], hist'.lastFile, hist'.lastLine)
             /\ hist'.lastPar[b] = LastDrawOf(hist')
             /\ hist'.lastSeeds[b] = LastDrawOf(hist')
  <2>1. b < blk
    BY <1>2, Constants DEF Block
  <2>2. HasEnded(b) /\ rec.lastSeeds[b] = LastDrawOf(hist)
    BY <1>1, <2>1 DEF InCore
  <2> QED
    BY <1>2, <1>3, <1>4, <1>5, <2>2 DEF HasEnded
<1>8. AtRest'
  BY <1>3, <1>5, <1>7 DEF AtRest
<1> QED
  BY <1>2, <1>6, <1>8 DEF Undisturbed

\* No step of a session has any other result: no recovery runs, and the file
\* that has to be opened is there.
LEMMA CoreOnly ==
  ASSUME NEW n \in NewReplics \cup LoadReplics, NEW F \in 1..hist.lastFile,
         NEW k \in 1..MAX_nruns, CoreInvariant(n, F, k), Session
  PROVE  OpenOldFile \/ OpenNewFile \/ Draw \/ DeleteTmp \/ SaveFile \/ EndBlock \/ Conclude
<1>1. InType /\ InCore(n, F, k) /\ InSession(n, F, k)
  BY DEF CoreInvariant
<1>2. pc \in {"block", "draw", "full", "write"}
  BY DEF CoreInvariant
<1>3. ~WriteRecord /\ ~EnterCore
  BY <1>2 DEF WriteRecord, EnterCore
<1>4. ~RecoverCrashedBlock /\ ~RecoverCompleteBlock /\ ~RecoverFails /\ ~RecoverEnd
  BY <1>2 DEF RecoverCrashedBlock, RecoverCompleteBlock, RecoverFails, RecoverEnd
<1>5. mode # "recover"
  BY <1>1 DEF InType
<1>6. ~ResumeTmp
  BY <1>5 DEF ResumeTmp, ResumesTmp
<1>7. ~OpenFails
  <2>1. SUFFICES ASSUME OpenFails PROVE FALSE
    OBVIOUS
  <2>2. pc = "block" /\ blk \in Block /\ fline[blk] > 1 /\ newFile[blk] \notin DOMAIN mh[blk]
    BY <1>5, <2>1 DEF OpenFails, OpensOldFile, ResumesTmp
  <2>3. fline[blk] = k /\ F \in Nat \ {0}
    BY <1>1, <2>2, SessionFacts
  <2>4. newFile[blk] = F /\ HoldsBefore(mh[blk], F, k)
    BY <1>1, <2>2 DEF InCore, Waits
  <2>5. DOMAIN mh[blk] = 1..F
    BY <2>2, <2>3, <2>4 DEF HoldsBefore, Holds
  <2> QED
    BY <2>2, <2>3, <2>4, <2>5
<1> QED
  BY <1>3, <1>4, <1>6, <1>7 DEF Session

LEMMA SessionUndisturbed ==
  ASSUME Undisturbed, Session
  PROVE  Undisturbed'
<1>1. CASE pc = "off"
  BY <1>1 DEF Session, WriteRecord, RecoverCrashedBlock, RecoverCompleteBlock,
     RecoverFails,
     RecoverEnd, EnterCore, OpenOldFile, OpenNewFile, ResumeTmp, OpenFails, Draw,
     DeleteTmp,
     SaveFile, EndBlock, Conclude
<1>2. CASE pc = "new"
  <2>1. WriteRecord
    BY <1>2 DEF Session, RecoverCrashedBlock, RecoverCompleteBlock, RecoverFails,
       RecoverEnd, EnterCore, OpenOldFile, OpenNewFile, ResumeTmp, OpenFails, Draw,
       DeleteTmp,
       SaveFile, EndBlock, Conclude
  <2> QED
    BY <2>1, WriteRecordUndisturbed
<1>3. CASE pc \notin {"off", "new"}
  <2>1. PICK n \in NewReplics \cup LoadReplics, F \in 1..hist.lastFile, k \in 1..MAX_nruns :
            /\ InSession(n, F, k)
            /\ pc = "core" => \A b \in Block : Waits(b, F, k)
            /\ pc # "core" => InCore(n, F, k)
    BY <1>3 DEF Undisturbed
  <2>2. InType
    BY DEF Undisturbed
  <2>3. ASSUME CoreInvariant(n, F, k)', hist'.lastFile = hist.lastFile PROVE Undisturbed'
    BY <2>3 DEF CoreInvariant, Undisturbed
  <2>4. CASE pc = "core"
    <3>1. EnterCore
      BY <2>4 DEF Session, WriteRecord, RecoverCrashedBlock, RecoverCompleteBlock,
         RecoverFails,
         RecoverEnd, OpenOldFile, OpenNewFile, ResumeTmp, OpenFails, Draw, DeleteTmp,
         SaveFile, EndBlock, Conclude
    <3>2. hist' = hist
      BY <3>1 DEF EnterCore, disk
    <3> QED
      BY <2>1, <2>2, <2>3, <2>4, <3>1, <3>2, EnterCoreKeeps
  <2>5. CASE pc # "core"
    <3>1. CoreInvariant(n, F, k)
      BY <1>3, <2>1, <2>2, <2>5 DEF CoreInvariant, InType
    <3>2. CASE Conclude
      BY <3>1, <3>2, ConcludeUndisturbed
    <3>3. CASE OpenOldFile \/ OpenNewFile \/ Draw \/ DeleteTmp \/ SaveFile \/ EndBlock
      <4>1. hist' = hist
        BY <3>3 DEF OpenOldFile, OpenNewFile, Draw, DeleteTmp, SaveFile, EndBlock, disk
      <4>2. CoreInvariant(n, F, k)'
        BY <3>1, <3>3, OpenOldFileKeeps, OpenNewFileKeeps, DrawKeeps, DeleteTmpKeeps,
           SaveFileKeeps, EndBlockKeeps
      <4> QED
        BY <2>3, <4>1, <4>2
    <3> QED
      BY <3>1, <3>2, <3>3, CoreOnly
  <2> QED
    BY <2>4, <2>5
<1> QED
  BY <1>1, <1>2, <1>3

-----------------------------------------------------------------------------
(* The theorems *)

\* As long as nothing crashes, the files, the records and the chains that are
\* running agree about what has been drawn, whatever the session asks for.
THEOREM Invariance == Spec => []IInv
<1>1. Init => IInv
  <2>1. Init => crashes = 0
    BY DEF Init
  <2> QED
    BY <2>1, InitUndisturbed DEF IInv
<1>2. ASSUME IInv, Next PROVE IInv'
  <2>1. CASE Crash
    <3>1. crashes' = crashes + 1
      BY <2>1 DEF Crash
    <3> QED
      BY <1>2, <3>1 DEF IInv
  <2>2. CASE (\E n \in NewReplics : StartNew(n)) \/ (\E n \in LoadReplics : Load(n))
              \/ StartRecover \/ Session
    <3>1. crashes' = crashes
      BY <2>2 DEF StartNew, Load, StartRecover, Session, WriteRecord,
         RecoverCrashedBlock,
         RecoverCompleteBlock, RecoverFails, RecoverEnd, EnterCore, OpenOldFile,
         OpenNewFile,
         ResumeTmp, OpenFails, Draw, DeleteTmp, SaveFile, EndBlock, Conclude, bounds
    <3>2. ASSUME crashes = 0 PROVE Undisturbed'
      <4>1. Undisturbed
        BY <1>2, <3>2 DEF IInv
      <4> QED
        BY <2>2, <4>1, StartNewUndisturbed, LoadUndisturbed, NothingToRecover,
           SessionUndisturbed
    <3> QED
      BY <1>2, <3>1, <3>2 DEF IInv
  <2> QED
    BY <1>2, <2>1, <2>2 DEF Next
<1>3. ASSUME IInv, UNCHANGED vars PROVE IInv'
  <2>1. /\ UNCHANGED <<hist, mh, pc, mode, blk, newFile, fline, nruns, last, size, rec>>
        /\ UNCHANGED <<rng, x2, iter, idx, crashes>>
    BY <1>3 DEF vars, disk, plan, chain, bounds
  <2>2. UNCHANGED Undisturbed
    BY <2>1 DEF Undisturbed, InType, AtRest, InSession, Waits, InCore, Runs, Fills,
       Filled,
       HasEnded, SizeOf
  <2> QED
    BY <1>3, <2>1, <2>2 DEF IInv
<1> QED
  BY <1>1, <1>2, <1>3, PTL DEF Spec

\* In any state of an undisturbed session the files of each block hold the chain.
LEMMA FilesAreTheChain ==
  ASSUME Undisturbed
  PROVE  SavedDrawsAreTheChain
<1>1. ASSUME NEW b \in Block, NEW G \in Int, NEW m \in 1..MAX_nruns, Holds(mh[b], G, m),
             NEW f \in DOMAIN mh[b], NEW l \in DOMAIN mh[b][f].x
      PROVE  mh[b][f].x[l] = (f - 1) * MAX_nruns + l
  <2>1. PICK c \in 1..MAX_nruns : HasLines(mh[b][f], f, c)
    BY <1>1, Constants DEF Holds
  <2>2. DOMAIN mh[b][f].x = 1..c
    BY <2>1 DEF HasLines
  <2> QED
    BY <2>1, <2>2 DEF HasLines, LinesBefore
<1>2. ASSUME NEW b \in Block
      PROVE  mh[b] = NoFiles \/ \E G \in Int, m \in 1..MAX_nruns : Holds(mh[b], G, m)
  <2>1. ASSUME NEW F \in Nat \ {0}, NEW k \in 1..MAX_nruns, HoldsBefore(mh[b], F, k)
        PROVE  \E G \in Int, m \in 1..MAX_nruns : Holds(mh[b], G, m)
    <3>1. CASE k = 1
      <4>1. Holds(mh[b], F - 1, MAX_nruns) /\ F - 1 \in Int /\ MAX_nruns \in 1..MAX_nruns
        BY <2>1, <3>1, Constants DEF HoldsBefore
      <4> QED
        BY <4>1
    <3>2. CASE k # 1
      <4>1. Holds(mh[b], F, k - 1) /\ k - 1 \in 1..MAX_nruns
        BY <2>1, <3>2, Constants DEF HoldsBefore
      <4> QED
        BY <4>1
    <3> QED
      BY <3>1, <3>2
  <2>2. CASE pc = "new" \/ (pc = "off" /\ mh = All(NoFiles))
    BY <2>2 DEF Undisturbed, All
  <2>3. CASE pc = "off" /\ mh # All(NoFiles)
    <3>1. hist.mhDraws # << >> /\ Holds(mh[b], hist.lastFile, hist.lastLine)
      BY <2>3 DEF Undisturbed, AtRest
    <3>2. hist.lastFile \in Int /\ hist.lastLine \in 1..MAX_nruns
      BY <3>1, Constants, SMTT(30) DEF Undisturbed, InType, IsRecord, AddsUp
    <3> QED
      BY <3>1, <3>2
  <2>4. CASE pc \notin {"off", "new"}
    <3>1. PICK n \in NewReplics \cup LoadReplics, F \in 1..hist.lastFile, k \in 1..MAX_nruns :
              /\ InSession(n, F, k)
              /\ pc = "core" => \A c \in Block : Waits(c, F, k)
              /\ pc # "core" => InCore(n, F, k)
      BY <2>4 DEF Undisturbed
    <3>2. F \in Nat \ {0} /\ hist.lastFile \in Int /\ hist.lastLine \in 1..MAX_nruns
      BY <3>1, SessionFacts DEF Undisturbed
    <3>3. \/ HoldsBefore(mh[b], F, k)
          \/ HasEnded(b)
          \/ \E f \in Nat \ {0} : Holds(mh[b], f - 1, MAX_nruns)
      <4>1. CASE pc = "core"
        BY <3>1, <4>1 DEF Waits
      <4>2. CASE pc # "core" /\ (b > blk \/ (b = blk /\ pc = "block"))
        BY <3>1, <4>2 DEF InCore, Waits
      <4>3. CASE pc # "core" /\ b < blk
        BY <3>1, <4>3 DEF InCore
      <4>4. CASE pc # "core" /\ b = blk /\ pc # "block"
        BY <3>1, <4>4 DEF InCore, Runs, Fills
      <4>5. pc = "core" \/ blk \in 1..(NumberOfBlocks + 1)
        BY <3>1 DEF InCore
      <4> QED
        BY <4>1, <4>2, <4>3, <4>4, <4>5, Constants
    <3>4. CASE HasEnded(b)
      BY <3>2, <3>4 DEF HasEnded
    <3>5. CASE \E f \in Nat \ {0} : Holds(mh[b], f - 1, MAX_nruns)
      BY <3>5, Constants
    <3> QED
      BY <2>1, <3>2, <3>3, <3>4, <3>5
  <2> QED
    BY <2>2, <2>3, <2>4
<1>3. DOMAIN NoFiles = {}
  BY DEF NoFiles
<1> QED
  BY <1>1, <1>2, <1>3 DEF SavedDrawsAreTheChain

\* A block whose files lead to the end that the record announces.
LEMMA BlockIsComplete ==
  ASSUME NEW b \in Block, hist.lastFile \in Nat \ {0}, hist.lastLine \in 1..MAX_nruns,
         DrawsAsked(hist) = LastDrawOf(hist), Holds(mh[b], hist.lastFile, hist.lastLine),
         hist.lastPar[b] = LastDrawOf(hist), hist.lastSeeds[b] = LastDrawOf(hist)
  PROVE  /\ DOMAIN mh[b] = 1..hist.lastFile
         /\ DrawsSaved(b) = DrawsAsked(hist)
         /\ Len(mh[b][hist.lastFile].x) = hist.lastLine
         /\ hist.lastPar[b] = LastDraw(b, hist.lastFile)
         /\ hist.lastSeeds[b] = SeedAfter(b, hist.lastFile)
<1>1. PICK F \in Nat \ {0} : F = hist.lastFile
  OBVIOUS
<1>2. PICK m \in 1..MAX_nruns : m = hist.lastLine
  OBVIOUS
<1>3. LastDrawOf(hist) = LinesBefore(F) + m
  BY <1>1, <1>2 DEF LastDrawOf
<1>4. Holds(mh[b], F, m)
  BY <1>1, <1>2
<1>5. DOMAIN mh[b] = 1..F /\ HasLines(mh[b][F], F, m)
  BY <1>4 DEF Holds
<1>6. DrawsSaved(b) = LinesBefore(F) + m
  BY <1>4, FilesCounted
<1>7. /\ Len(mh[b][F].x) = m /\ LastDraw(b, F) = LinesBefore(F) + m
      /\ SeedAfter(b, F) = LinesBefore(F) + m
  BY <1>5 DEF HasLines, LastDraw, SeedAfter
<1> QED
  BY <1>1, <1>2, <1>3, <1>5, <1>6, <1>7

LEMMA RecordIsComplete ==
  ASSUME Undisturbed
  PROVE  ConcludedIsComplete
<1> SUFFICES ASSUME pc = "off", hist.concluded, NEW b \in Block
             PROVE  /\ DOMAIN mh[b] = 1..hist.lastFile
                    /\ DrawsSaved(b) = DrawsAsked(hist)
                    /\ Len(mh[b][hist.lastFile].x) = hist.lastLine
                    /\ hist.lastPar[b] = LastDraw(b, hist.lastFile)
                    /\ hist.lastSeeds[b] = SeedAfter(b, hist.lastFile)
  BY DEF ConcludedIsComplete
<1>1. hist # NoHistory
  BY DEF NoHistory
<1>2. /\ hist.mhDraws # << >> /\ Holds(mh[b], hist.lastFile, hist.lastLine)
      /\ hist.lastPar[b] = LastDrawOf(hist) /\ hist.lastSeeds[b] = LastDrawOf(hist)
  BY <1>1 DEF Undisturbed, AtRest
<1>3. /\ hist.lastFile \in Nat \ {0} /\ hist.lastLine \in 1..MAX_nruns
      /\ DrawsAsked(hist) = LastDrawOf(hist)
  BY <1>2, Constants, SMTT(30) DEF Undisturbed, InType, IsRecord, AddsUp
<1> QED
  BY <1>2, <1>3, BlockIsComplete

\* Without a crash, posterior_sampler goes on exactly where it stopped: the files
\* of each block hold the draws of one undisturbed chain, and a record that says so
\* is complete, whatever the numbers of draws, blocks, lines and sessions.
THEOREM GoesOn == Spec => []LoadGoesOn
<1>1. IInv => LoadGoesOn
  BY FilesAreTheChain, RecordIsComplete DEF IInv, LoadGoesOn
<1> QED
  BY <1>1, Invariance, PTL

-----------------------------------------------------------------------------
(* Crashes and recoveries                                                   *)

(* The recovery counts files: it goes on with the one after the first file  *)
(* of the session, or with the first.  So it is right for sessions that     *)
(* start at the beginning of a file and fill two files at most: a session   *)
(* that ends within a file is the last one.  A crash of a new MCMC between  *)
(* the old files and their record, and temporary files, are left out.       *)

RecoveryIsMeantFor ==
    /\ save_tmp_file = FALSE
    /\ "new" \notin CrashIn
    /\ NewReplics \subseteq {MAX_nruns, 2 * MAX_nruns}
    /\ LoadReplics \subseteq 1..(2 * MAX_nruns)
    /\ MaxSessions <= 2 \/ LoadReplics \subseteq {MAX_nruns, 2 * MAX_nruns}

\* The files of the sessions before the last one, and the draws of the last.
FilesBefore(h) == LastFileNumberInThePreviousMh(h)
AskedLast(h) == h.mhDraws[Len(h.mhDraws)].n

\* A record whose last session can be recovered.
Regular(h) ==
    /\ IsRecord(h) /\ AddsUp(h) /\ h.mhDraws # << >>
    /\ FilesBefore(h) \in Nat
    /\ h.lastFile - FilesBefore(h) \in 1..2
    /\ LastDrawOf(h) = LinesBefore(FilesBefore(h) + 1) + AskedLast(h)
    /\ h.mhDraws[Len(h.mhDraws)].lines = h.lastLine
    /\ LastFileFullIndicator(h)
    /\ FilesBefore(h) = 0 => PreviousSessions(h) = 0

\* The record knows where block b ends.
Ends(h, b) == h.lastPar[b] = LastDrawOf(h) /\ h.lastSeeds[b] = LastDrawOf(h)

\* Block b has its first c files, those of earlier sessions among them.
OnDisk(h, files, b, c) ==
    /\ c \in FilesBefore(h)..h.lastFile
    /\ Holds(files, c, IF c = h.lastFile THEN h.lastLine ELSE MAX_nruns)
    /\ c = 0 => h.initialSeeds[b] = 0
    /\ h.concluded => c = h.lastFile /\ Ends(h, b)

\* Block b, with c files, is to be recovered.
ToRecover(b, c) ==
    /\ newFile[b] = FilesBefore(hist) + 1 /\ fline[b] = 1
    /\ nruns[b] = AskedLast(hist)
    /\ c = 0 => last[b] = 0

\* Block b, with c files, goes on with the next one, or has nothing to do.
GoesOnAfter(h, b, c) ==
    /\ fline[b] = 1
    /\ IF c = h.lastFile
       THEN nruns[b] = 0 /\ Ends(h, b)
       ELSE /\ newFile[b] = c + 1
            /\ nruns[b] = LastDrawOf(h) - LinesBefore(c + 1)
            /\ last[b] = LinesBefore(c + 1)
            /\ h.initialSeeds[b] = LinesBefore(c + 1)

\* The file after the first c of block blk is being filled.
FillsNext(c) ==
    /\ newFile[blk] = c + 1 /\ c < hist.lastFile
    /\ nruns[blk] # 0 /\ iter \in 1..nruns[blk] /\ idx \in 1..size[blk]
    /\ LinesBefore(c + 1) + idx = LastDrawOf(hist) - nruns[blk] + iter
    /\ size[blk] = SizeOf(c + 1)
    /\ x2 \in Seq(Draws) /\ Len(x2) = size[blk]
    /\ IF pc = "draw" THEN Filled(c + 1, idx - 1) ELSE idx = size[blk] /\ Filled(c + 1, idx)

\* Block blk, with c files, makes no more draws.
NoMore(c) ==
    /\ pc = "draw" /\ iter = nruns[blk] + 1 /\ c = hist.lastFile
    /\ rec.lastPar[blk] = LastDrawOf(hist)
    /\ IF nruns[blk] = 0 THEN rec.lastSeeds[blk] = LastDrawOf(hist) ELSE rng = LastDrawOf(hist)

SameSessions(h, j) ==
    /\ h.mhDraws = j.mhDraws /\ h.initialSeeds = j.initialSeeds
    /\ h.lastFile = j.lastFile /\ h.lastLine = j.lastLine

Runs2(c) ==
    /\ IsRecord(rec) /\ SameSessions(rec, hist)
    /\ blk \in 1..(NumberOfBlocks + 1)
    /\ \A b \in Block :
          /\ b < blk => c[b] = hist.lastFile /\ Ends(rec, b)
          /\ b > blk \/ (b = blk /\ pc = "block") =>
                GoesOnAfter(rec, b, c[b]) /\ size[b] = Min({MAX_nruns, nruns[b]})
    /\ pc # "block" => blk \in Block /\ (FillsNext(c[blk]) \/ NoMore(c[blk]))

Recovers(c) ==
    /\ rec = hist /\ blk \in 1..(NumberOfBlocks + 1)
    /\ \A b \in Block : IF b < blk THEN GoesOnAfter(hist, b, c[b]) ELSE ToRecover(b, c[b])

RType ==
    /\ pc \in {"off", "new", "recover", "core", "block", "draw", "write"}
    /\ mode \in {"new", "load", "recover"}
    /\ pc \in {"off", "new"} => mode = "new"
    /\ pc = "recover" => mode = "recover"
    /\ DOMAIN mh = Block /\ tmp = All(NoTmp)
    /\ newFile \in [Block -> Nat] /\ fline \in [Block -> Nat]
    /\ nruns \in [Block -> Nat] /\ size \in [Block -> Int] /\ last \in [Block -> Draws]
    /\ sessions \in Nat

\* The c[b] files of each block hold the chain, and the session goes on after
\* them.
Repaired(c) ==
    /\ \A b \in Block : OnDisk(hist, mh[b], b, c[b])
    /\ pc = "recover" => Recovers(c)
    /\ pc = "core" => /\ mode = "recover" => rec = hist
                      /\ \A b \in Block : GoesOnAfter(hist, b, c[b])
    /\ pc \in {"block", "draw", "write"} => Runs2(c)

NothingYet == pc = "off" /\ hist = NoHistory /\ mh = All(NoFiles)

Erased ==
    /\ pc = "new" /\ mh = All(NoFiles) /\ sessions # 0
    /\ \E n \in NewReplics : nruns = All(n)

UnderRepair ==
    /\ pc # "new"
    /\ Regular(hist)
    /\ sessions # 0 /\ (sessions < MaxSessions => hist.lastLine = MAX_nruns)
    /\ \E c \in [Block -> 0..hist.lastFile] : Repaired(c)

RInv == RType /\ (NothingYet \/ Erased \/ UnderRepair)

-----------------------------------------------------------------------------
(* Records and files *)

LEMMA RegularFacts ==
  ASSUME NEW h, Regular(h)
  PROVE  /\ h.lastFile \in Nat \ {0} /\ h.lastLine \in 1..MAX_nruns
         /\ FilesBefore(h) \in Nat /\ FilesBefore(h) < h.lastFile
         /\ h.lastFile <= FilesBefore(h) + 2
         /\ LastDrawOf(h) = LinesBefore(h.lastFile) + h.lastLine
         /\ LinesBefore(h.lastFile) \in Nat /\ LastDrawOf(h) \in Nat
         /\ AskedLast(h) = LastDrawOf(h) - LinesBefore(FilesBefore(h) + 1)
<1>1. h.lastFile \in Nat \ {0} /\ h.lastLine \in 1..MAX_nruns /\ FilesBefore(h) \in Nat
  BY Constants DEF Regular, IsRecord, AddsUp
<1>2. FilesBefore(h) < h.lastFile /\ h.lastFile <= FilesBefore(h) + 2
  BY <1>1 DEF Regular
<1>3. LastDrawOf(h) = LinesBefore(h.lastFile) + h.lastLine
  BY DEF LastDrawOf
<1>4. LinesBefore(h.lastFile) \in Nat /\ LinesBefore(FilesBefore(h) + 1) \in Nat
  BY <1>1, FilesFollow
<1>5. AskedLast(h) \in Nat
  <2>1. Len(h.mhDraws) \in Nat \ {0} /\ h.mhDraws \in Seq(MhDraws)
    BY DEF Regular, IsRecord
  <2>2. h.mhDraws[Len(h.mhDraws)] \in MhDraws
    BY <2>1, ElementOfSeq
  <2> QED
    BY <2>2 DEF AskedLast, MhDraws
<1>6. LastDrawOf(h) = LinesBefore(FilesBefore(h) + 1) + AskedLast(h)
  BY DEF Regular
<1> QED
  BY <1>1, <1>2, <1>3, <1>4, <1>5, <1>6

\* What the record says of sessions is all that makes it regular.
LEMMA RegularSame ==
  ASSUME NEW h, NEW j, Regular(h), IsRecord(j), j.mhDraws = h.mhDraws,
         j.lastFile = h.lastFile, j.lastLine = h.lastLine
  PROVE  /\ Regular(j) /\ FilesBefore(j) = FilesBefore(h)
         /\ LastDrawOf(j) = LastDrawOf(h) /\ AskedLast(j) = AskedLast(h)
<1>1. /\ FilesBefore(j) = FilesBefore(h) /\ LastDrawOf(j) = LastDrawOf(h)
      /\ AskedLast(j) = AskedLast(h) /\ PreviousSessions(j) = PreviousSessions(h)
  BY DEF FilesBefore, LastFileNumberInThePreviousMh, FilesOfSessions, PreviousSessions,
     LastDrawOf, AskedLast
<1>2. AddsUp(j)
  BY <1>1 DEF Regular, AddsUp, DrawsAsked, FilesOfSessions
<1>3. LastFileFullIndicator(j)
  BY <1>1 DEF Regular, LastFileFullIndicator, LastLineNumberInThePreviousMh
<1> QED
  BY <1>1, <1>2, <1>3 DEF Regular

\* The draws that a block with c files has left to make.
LEMMA LinesLeft ==
  ASSUME NEW h, Regular(h), NEW c \in Nat, c < h.lastFile
  PROVE  /\ LinesBefore(c + 1) \in Nat
         /\ LastDrawOf(h) - LinesBefore(c + 1) \in Nat \ {0}
         /\ IF c + 1 = h.lastFile
            THEN LastDrawOf(h) - LinesBefore(c + 1) = h.lastLine
            ELSE LastDrawOf(h) - LinesBefore(c + 1) > MAX_nruns
<1>1. h.lastFile \in Nat \ {0} /\ h.lastLine \in 1..MAX_nruns
  BY RegularFacts
<1>2. LastDrawOf(h) = LinesBefore(h.lastFile) + h.lastLine /\ LinesBefore(h.lastFile) \in Nat
  BY RegularFacts
<1>3. LinesBefore(c + 1) \in Nat
  BY FilesFollow
<1>4. c + 1 < h.lastFile => LinesBefore(c + 1) + MAX_nruns <= LinesBefore(h.lastFile)
  BY <1>1, FilesAreInOrder
<1> QED
  BY <1>1, <1>2, <1>3, <1>4, Constants

\* The files of a block are counted.
LEMMA FilesOfBlock ==
  ASSUME NEW b \in Block, Regular(hist), NEW c, OnDisk(hist, mh[b], b, c)
  PROVE  /\ c \in Nat /\ c <= hist.lastFile
         /\ NumberOfMhFiles(b) = c /\ DOMAIN mh[b] = 1..c
         /\ c > 0 => /\ LastDraw(b, c) = LinesBefore(c) + (IF c = hist.lastFile THEN hist.lastLine ELSE MAX_nruns)
                     /\ SeedAfter(b, c) = LastDraw(b, c)
<1>1. c \in Nat /\ c <= hist.lastFile
  BY RegularFacts DEF OnDisk
<1>2. DOMAIN mh[b] = 1..c
  BY DEF OnDisk, Holds
<1>3. Cardinality(1..c) = c
  BY <1>1, FS_Interval
<1>4. ASSUME c > 0
      PROVE  HasLines(mh[b][c], c, IF c = hist.lastFile THEN hist.lastLine ELSE MAX_nruns)
  <2>1. c \in 1..c
    BY <1>1, <1>4
  <2> QED
    BY <2>1 DEF OnDisk, Holds
<1>5. ASSUME c > 0
      PROVE  /\ LastDraw(b, c) = LinesBefore(c) + (IF c = hist.lastFile THEN hist.lastLine ELSE MAX_nruns)
             /\ SeedAfter(b, c) = LastDraw(b, c)
  <2>1. PICK m \in 1..MAX_nruns : m = IF c = hist.lastFile THEN hist.lastLine ELSE MAX_nruns
    BY RegularFacts, Constants
  <2>2. HasLines(mh[b][c], c, m)
    BY <1>4, <1>5, <2>1
  <2> QED
    BY <2>1, <2>2 DEF HasLines, LastDraw, SeedAfter
<1> QED
  BY <1>1, <1>2, <1>3, <1>5 DEF NumberOfMhFiles

LEMMA ReplicsFit ==
  ASSUME RecoveryIsMeantFor
  PROVE  /\ \A n \in NewReplics \cup LoadReplics : n \in 1..(2 * MAX_nruns)
         /\ \A n \in NewReplics : n \in {MAX_nruns, 2 * MAX_nruns}
         /\ "new" \notin CrashIn /\ save_tmp_file = FALSE
         /\ MaxSessions <= 2 \/ \A n \in LoadReplics : n \in {MAX_nruns, 2 * MAX_nruns}
<1>1. 2 * MAX_nruns \in Nat /\ MAX_nruns \in 1..(2 * MAX_nruns) /\ 2 * MAX_nruns \in 1..(2 * MAX_nruns)
  BY Constants
<1> QED
  BY <1>1 DEF RecoveryIsMeantFor

\* A record with one more session, of two files at most, that begins a file.
LEMMA RegularAnticipated ==
  ASSUME NEW h, IsRecord(h), NEW n \in 1..(2 * MAX_nruns),
         LinesBefore(h.lastFile) + MAX_nruns >= 0,
         DrawsAsked(h) = LinesBefore(h.lastFile) + MAX_nruns,
         FilesOfSessions(h, Len(h.mhDraws)) = h.lastFile,
         h.mhDraws = << >> \/ h.mhDraws[Len(h.mhDraws)].lines >= MAX_nruns,
         h.lastFile = 0 => h.mhDraws = << >>,
         NEW j, j = Anticipate(h, n, n)
  PROVE  /\ Regular(j) /\ FilesBefore(j) = h.lastFile
         /\ LastDrawOf(j) = LinesBefore(h.lastFile + 1) + n /\ AskedLast(j) = n
         /\ j.initialSeeds = h.initialSeeds /\ j.lastPar = h.lastPar /\ j.lastSeeds = h.lastSeeds
         /\ ~j.concluded
         /\ n \in {MAX_nruns, 2 * MAX_nruns} => j.lastLine = MAX_nruns
<1>1. MAX_nruns \in 1..MAX_nruns /\ n \in Nat \ {0} /\ n - (MAX_nruns - MAX_nruns) = n
  BY Constants
<1>2. PICK F \in Nat : F = h.lastFile
  BY DEF IsRecord
<1>3. /\ IsRecord(j) /\ AddsUp(j) /\ j.mhDraws # << >>
      /\ j.lastFile \in Nat \ {0} /\ j.lastLine \in 1..MAX_nruns
      /\ LastDrawOf(j) = LinesBefore(h.lastFile) + MAX_nruns + n
      /\ j.initialSeeds = h.initialSeeds
  BY <1>1, RecordAnticipated
<1>4. LastDrawOf(j) = LinesBefore(F + 1) + n /\ LinesBefore(F + 1) \in Nat
      /\ LinesBefore(F + 2) = LinesBefore(F + 1) + MAX_nruns
  <2>0. F \in Int /\ F + 1 \in Int /\ F + 1 > 0
    OBVIOUS
  <2>1. LinesBefore(F + 1) = LinesBefore(F) + MAX_nruns /\ LinesBefore(F) \in Int
    BY <2>0, FilesFollow
  <2>2. LinesBefore(F + 1) \in Nat
    <3>1. LinesBefore(F + 1) \in Int /\ (F + 1 > 0 => LinesBefore(F + 1) >= 0)
      BY <2>0, FilesFollow
    <3> QED
      BY <2>0, <3>1
  <2>3. LinesBefore((F + 1) + 1) = LinesBefore(F + 1) + MAX_nruns
    BY <2>0, FilesFollow
  <2> QED
    BY <1>1, <1>2, <1>3, <2>1, <2>2, <2>3
<1>5. LastDrawOf(j) = LinesBefore(j.lastFile) + j.lastLine
  BY DEF LastDrawOf
<1>6. j.lastFile - F \in 1..2
  <2>1. LinesBefore(F + 1) + 1 <= LinesBefore(j.lastFile) + j.lastLine
    BY <1>1, <1>4, <1>5
  <2>2. LinesBefore(j.lastFile) + j.lastLine <= LinesBefore(F + 2) + MAX_nruns
    BY <1>1, <1>4, <1>5, Constants
  <2>3. 1 \in 1..MAX_nruns
    BY Constants
  <2>4. F + 1 <= j.lastFile
    BY <1>3, <2>1, <2>3, OneLine
  <2>5. j.lastFile <= F + 2
    BY <1>1, <1>3, <2>2, OneLine
  <2> QED
    BY <1>3, <2>4, <2>5
<1>7. ASSUME n \in {MAX_nruns, 2 * MAX_nruns} PROVE j.lastLine = MAX_nruns
  <2>1. LastDrawOf(j) = LinesBefore(F + 1) + MAX_nruns \/ LastDrawOf(j) = LinesBefore(F + 2) + MAX_nruns
    BY <1>4, <1>7, Constants
  <2> QED
    BY <1>1, <1>3, <1>5, <2>1, OneLine
<1>8. PICK k \in Seq(MhDraws) : k = h.mhDraws
  BY DEF IsRecord
<1>9. PICK files : files = CeilDiv(n, MAX_nruns)
  OBVIOUS
<1>10. PICK e : e = [n |-> n, files |-> files, lines |-> n - (files - 1) * MAX_nruns]
  OBVIOUS
<1>11. j = [h EXCEPT !.concluded = FALSE, !.mhDraws = Append(@, e),
                     !.lastFile = @ + files, !.lastLine = n - (files - 1) * MAX_nruns]
  BY <1>9, <1>10 DEF Anticipate
<1>12. /\ j.mhDraws = Append(k, e) /\ j.lastLine = e.lines /\ ~j.concluded
       /\ j.lastPar = h.lastPar /\ j.lastSeeds = h.lastSeeds
  BY <1>8, <1>10, <1>11 DEF IsRecord
<1>13. PICK N \in Nat : N = Len(k)
  OBVIOUS
<1>14. /\ Len(j.mhDraws) = N + 1 /\ j.mhDraws[N + 1] = e
       /\ \A i \in 1..N : j.mhDraws[i] = h.mhDraws[i]
  <2>1. /\ Len(Append(k, e)) = N + 1 /\ Append(k, e)[N + 1] = e
        /\ \A i \in 1..N : Append(k, e)[i] = k[i]
    BY <1>13
  <2> QED
    BY <1>8, <1>12, <2>1
<1>15. PreviousSessions(j) = N /\ AskedLast(j) = n /\ j.mhDraws[Len(j.mhDraws)].lines = j.lastLine
  BY <1>10, <1>12, <1>14 DEF PreviousSessions, AskedLast
<1>16. FilesBefore(j) = h.lastFile
  <2>1. [i \in 1..N |-> j.mhDraws[i].files] = [i \in 1..N |-> h.mhDraws[i].files]
    BY <1>14
  <2>2. FilesOfSessions(j, N) = FilesOfSessions(h, N)
    BY <2>1 DEF FilesOfSessions
  <2>3. N = Len(h.mhDraws)
    BY <1>8, <1>13
  <2> QED
    BY <1>15, <2>2, <2>3 DEF FilesBefore, LastFileNumberInThePreviousMh
<1>17. LastFileFullIndicator(j)
  <2>1. CASE N = 0
    BY <1>15, <2>1 DEF LastFileFullIndicator
  <2>2. CASE N # 0
    <3>1. h.mhDraws[N].lines >= MAX_nruns
      BY <1>8, <1>13, <2>2
    <3>2. j.mhDraws[N].lines >= MAX_nruns
      BY <1>14, <2>2, <3>1
    <3> QED
      BY <1>15, <2>2, <3>2 DEF LastFileFullIndicator, LastLineNumberInThePreviousMh
  <2> QED
    BY <2>1, <2>2
<1>18. FilesBefore(j) = 0 => PreviousSessions(j) = 0
  BY <1>8, <1>13, <1>15, <1>16
<1>19. Regular(j)
  BY <1>2, <1>3, <1>4, <1>6, <1>15, <1>16, <1>17, <1>18 DEF Regular
<1> QED
  BY <1>2, <1>3, <1>4, <1>7, <1>12, <1>15, <1>16, <1>19

-----------------------------------------------------------------------------
(* Sessions begin, end and crash *)

LEMMA RInit == Init => RInv
<1> SUFFICES ASSUME Init PROVE RInv
  OBVIOUS
<1>1. NothingYet
  BY DEF Init, NothingYet
<1>2. RType
  BY DEF Init, RType, All, Draws
<1> QED
  BY <1>1, <1>2 DEF RInv

\* Whatever ends a session, what is on disk can be gone on with.
LEMMA RLeave ==
  ASSUME RInv, pc # "new", Leave, UNCHANGED <<disk, sessions>>
  PROVE  RInv'
<1>1. /\ pc' = "off" /\ mode' = "new" /\ newFile' = All(1) /\ fline' = All(1)
      /\ nruns' = All(0) /\ last' = All(0) /\ size' = All(0)
      /\ UNCHANGED <<hist, mh, tmp, sessions>>
  BY DEF Leave, disk
<1>2. RType'
  BY <1>1 DEF RInv, RType, All, Draws
<1>3. CASE NothingYet
  BY <1>1, <1>2, <1>3 DEF RInv, NothingYet
<1>4. CASE UnderRepair
  <2>1. PICK c \in [Block -> 0..hist.lastFile] : Repaired(c)
    BY <1>4 DEF UnderRepair
  <2>2. \A b \in Block : OnDisk(hist', mh'[b], b, c[b])
    BY <1>1, <2>1 DEF Repaired
  <2>3. Repaired(c)'
    BY <1>1, <2>2 DEF Repaired
  <2>4. UnderRepair'
    BY <1>1, <1>4, <2>3 DEF UnderRepair
  <2> QED
    BY <1>2, <2>4 DEF RInv
<1> QED
  BY <1>3, <1>4 DEF RInv, Erased

LEMMA RStartNew ==
  ASSUME RInv, NEW n \in NewReplics, StartNew(n)
  PROVE  RInv'
<1>1. /\ pc' = "new" /\ mode' = "new" /\ mh' = All(NoFiles) /\ tmp' = All(NoTmp)
      /\ nruns' = All(n) /\ sessions' = sessions + 1
      /\ UNCHANGED <<newFile, fline, size, last>>
  BY DEF StartNew
<1>2. n \in Nat
  BY Constants
<1>3. RType'
  BY <1>1, <1>2 DEF RInv, RType, All
<1>4. Erased'
  BY <1>1 DEF Erased, RInv, RType
<1> QED
  BY <1>3, <1>4 DEF RInv

\* What a session has to leave when it enters the core.
LEMMA RBegins ==
  ASSUME RType', pc' = "core", mode' # "recover", Regular(hist'), sessions' # 0,
         sessions' < MaxSessions => hist'.lastLine = MAX_nruns,
         ~hist'.concluded,
         NEW G \in Nat, NEW n, G = FilesBefore(hist'), n = AskedLast(hist'),
         newFile' = All(G + 1), fline' = All(1), nruns' = All(n),
         \A b \in Block : /\ Holds(mh'[b], G, MAX_nruns)
                          /\ last'[b] = LinesBefore(G + 1)
                          /\ hist'.initialSeeds[b] = LinesBefore(G + 1)
  PROVE  RInv'
<1> DEFINE c == [b \in Block |-> G]
<1>1. /\ G < hist'.lastFile /\ hist'.lastFile \in Nat
      /\ n = LastDrawOf(hist') - LinesBefore(G + 1)
  BY RegularFacts
<1>2. c \in [Block -> 0..hist'.lastFile]
  BY <1>1
<1>3. ASSUME NEW b \in Block PROVE OnDisk(hist', mh'[b], b, G)
  <2>1. G \in FilesBefore(hist')..hist'.lastFile
    BY <1>1
  <2>2. G # hist'.lastFile
    BY <1>1
  <2>3. G = 0 => hist'.initialSeeds[b] = 0
    BY FilesFollow
  <2> QED
    BY <2>1, <2>2, <2>3 DEF OnDisk
<1>4. ASSUME NEW b \in Block PROVE GoesOnAfter(hist, b, G)'
  <2>1. G # hist'.lastFile
    BY <1>1
  <2> QED
    BY <1>1, <2>1 DEF GoesOnAfter, All
<1>5. Repaired(c)'
  BY <1>3, <1>4 DEF Repaired
<1>6. UnderRepair'
  BY <1>2, <1>5 DEF UnderRepair
<1> QED
  BY <1>6 DEF RInv

LEMMA RWriteRecord ==
  ASSUME RecoveryIsMeantFor, RInv, WriteRecord
  PROVE  RInv'
<1>1. pc = "new" /\ Erased /\ RType
  BY DEF RInv, WriteRecord, NothingYet, UnderRepair
<1>2. PICK n \in NewReplics : nruns = All(n)
  BY <1>1 DEF Erased
<1>3. /\ pc' = "core" /\ newFile' = All(1) /\ fline' = All(1) /\ last' = All(0)
      /\ hist' = Anticipate(NoHistory, nruns[1], nruns[1])
      /\ UNCHANGED <<mh, tmp, mode, nruns, size, sessions>>
  BY DEF WriteRecord, bounds
<1>4. n \in 1..(2 * MAX_nruns) /\ n \in {MAX_nruns, 2 * MAX_nruns} /\ nruns[1] = n
  BY <1>2, Constants, ReplicsFit DEF All
<1>5. LinesBefore(0) + MAX_nruns = 0 /\ LinesBefore(1) = 0
  BY FilesFollow, Constants
<1>6. /\ IsRecord(NoHistory) /\ NoHistory.lastFile = 0 /\ NoHistory.initialSeeds = All(0)
      /\ NoHistory.mhDraws = << >> /\ Len(NoHistory.mhDraws) = 0
  BY Constants DEF NoHistory, IsRecord, All, Zero, Draws
<1>7. DrawsAsked(NoHistory) = 0 /\ FilesOfSessions(NoHistory, 0) = 0
  BY <1>6, NothingAsked
<1>8. /\ Regular(hist') /\ FilesBefore(hist') = 0 /\ AskedLast(hist') = n
      /\ hist'.initialSeeds = All(0) /\ ~hist'.concluded /\ hist'.lastLine = MAX_nruns
  <2>1. hist' = Anticipate(NoHistory, n, n)
    BY <1>3, <1>4
  <2>2. LinesBefore(NoHistory.lastFile) + MAX_nruns = 0
    BY <1>5, <1>6
  <2>3. /\ LinesBefore(NoHistory.lastFile) + MAX_nruns >= 0
        /\ DrawsAsked(NoHistory) = LinesBefore(NoHistory.lastFile) + MAX_nruns
        /\ FilesOfSessions(NoHistory, Len(NoHistory.mhDraws)) = NoHistory.lastFile
    BY <1>6, <1>7, <2>2
  <2> QED
    BY <1>4, <1>6, <2>1, <2>3, RegularAnticipated
<1>9. mh' = All(NoFiles) /\ mode' = "new"
  BY <1>1, <1>3 DEF Erased, RType
<1>10. RType'
  BY <1>1, <1>3, <1>9 DEF RType, All, Draws
<1>11. ASSUME NEW b \in Block
       PROVE  /\ Holds(mh'[b], 0, MAX_nruns)
              /\ last'[b] = LinesBefore(0 + 1)
              /\ hist'.initialSeeds[b] = LinesBefore(0 + 1)
  <2>1. mh'[b] = NoFiles /\ last'[b] = 0 /\ hist'.initialSeeds[b] = 0
    BY <1>3, <1>8, <1>9 DEF All
  <2>2. Holds(NoFiles, 0, MAX_nruns)
    BY DEF Holds, NoFiles
  <2> QED
    BY <1>5, <2>1, <2>2
<1>12. sessions' # 0 /\ nruns' = All(n) /\ newFile' = All(0 + 1)
  BY <1>1, <1>2, <1>3 DEF Erased
<1> QED
  BY <1>3, <1>8, <1>9, <1>10, <1>11, <1>12, RBegins

LEMMA RLoad ==
  ASSUME RecoveryIsMeantFor, RInv, NEW n \in LoadReplics, Load(n)
  PROVE  RInv'
<1>1. /\ pc = "off" /\ hist.mhDraws # << >> /\ hist.concluded /\ sessions < MaxSessions
      /\ pc' = "core" /\ mode' = "load" /\ nruns' = All(n) /\ last' = hist.lastPar
      /\ sessions' = sessions + 1
      /\ UNCHANGED <<mh, tmp, size>>
  BY DEF Load, CanLoad
<1>2. UnderRepair /\ RType
  BY <1>1 DEF RInv, NothingYet, Erased, NoHistory
<1>3. Regular(hist) /\ sessions # 0 /\ sessions \in Nat /\ hist.lastLine = MAX_nruns
  BY <1>1, <1>2 DEF UnderRepair, RType
<1>4. PICK c \in [Block -> 0..hist.lastFile] : Repaired(c)
  BY <1>2 DEF UnderRepair
<1>5. PICK G \in Nat \ {0} : G = hist.lastFile
  BY <1>3, RegularFacts
<1>6. LastDrawOf(hist) = LinesBefore(G + 1) /\ LinesBefore(G + 1) \in Nat
  <2>1. LinesBefore(G + 1) = LinesBefore(G) + MAX_nruns
    BY FilesFollow
  <2>2. LastDrawOf(hist) = LinesBefore(G) + MAX_nruns /\ LastDrawOf(hist) \in Nat
    BY <1>3, <1>5, RegularFacts
  <2> QED
    BY <2>1, <2>2
<1>7. ASSUME NEW b \in Block
      PROVE  /\ Holds(mh[b], G, MAX_nruns)
             /\ hist.lastPar[b] = LinesBefore(G + 1) /\ hist.lastSeeds[b] = LinesBefore(G + 1)
  <2>1. OnDisk(hist, mh[b], b, c[b])
    BY <1>4 DEF Repaired
  <2>2. c[b] = G /\ Ends(hist, b)
    BY <1>1, <1>5, <2>1 DEF OnDisk
  <2> QED
    BY <1>3, <1>5, <1>6, <2>1, <2>2 DEF OnDisk, Ends
<1>8. n \in 1..(2 * MAX_nruns) /\ n \in Nat
  BY Constants, ReplicsFit
<1>9. /\ newFile' = All(G + 1) /\ fline' = All(1)
      /\ hist' = [Anticipate(hist, n, n) EXCEPT !.initialSeeds = hist.lastSeeds]
  BY <1>3, <1>5, <1>8, Constants DEF Load, LastFileHasRoom
<1>10. PICK j : j = Anticipate(hist, n, n)
  OBVIOUS
<1>11. /\ Regular(j) /\ FilesBefore(j) = G /\ AskedLast(j) = n /\ ~j.concluded
       /\ n \in {MAX_nruns, 2 * MAX_nruns} => j.lastLine = MAX_nruns
  <2>1. IsRecord(hist) /\ AddsUp(hist)
    BY <1>3 DEF Regular
  <2>2. LinesBefore(G) + MAX_nruns = LastDrawOf(hist)
    BY <1>3, <1>5 DEF LastDrawOf
  <2>3. /\ LinesBefore(hist.lastFile) + MAX_nruns >= 0
        /\ DrawsAsked(hist) = LinesBefore(hist.lastFile) + MAX_nruns
        /\ FilesOfSessions(hist, Len(hist.mhDraws)) = hist.lastFile
    BY <1>1, <1>5, <1>6, <2>1, <2>2 DEF AddsUp
  <2>4. hist.mhDraws[Len(hist.mhDraws)].lines >= MAX_nruns
    BY <1>3, Constants DEF Regular
  <2> QED
    BY <1>5, <1>8, <1>10, <2>1, <2>3, <2>4, RegularAnticipated
<1>12. hist.lastSeeds \in [Block -> Nat] /\ hist.lastPar \in [Block -> Draws]
  BY <1>3 DEF Regular, IsRecord
<1>13. /\ IsRecord(hist') /\ hist'.mhDraws = j.mhDraws /\ hist'.lastFile = j.lastFile
       /\ hist'.lastLine = j.lastLine /\ hist'.initialSeeds = hist.lastSeeds
       /\ ~hist'.concluded
  <2>1. IsRecord(j)
    BY <1>11 DEF Regular
  <2>2. hist' = [j EXCEPT !.initialSeeds = hist.lastSeeds]
    BY <1>9, <1>10
  <2> QED
    BY <1>11, <1>12, <2>1, <2>2 DEF IsRecord
<1>14. Regular(hist') /\ FilesBefore(hist') = G /\ AskedLast(hist') = n
  BY <1>11, <1>13, RegularSame
<1>15. RType'
  BY <1>1, <1>2, <1>8, <1>9, <1>12 DEF RType, All
<1>16. sessions' # 0 /\ (sessions' < MaxSessions => hist'.lastLine = MAX_nruns)
  <2>1. sessions' \in Nat /\ sessions' >= 2
    BY <1>1, <1>3
  <2>2. ASSUME sessions' < MaxSessions PROVE n \in {MAX_nruns, 2 * MAX_nruns}
    <3>1. MaxSessions \in Nat
      BY BoundsAssumption
    <3>2. ~(MaxSessions <= 2)
      BY <2>1, <2>2, <3>1
    <3> QED
      BY <3>2, ReplicsFit
  <2> QED
    BY <1>11, <1>13, <2>1, <2>2
<1>17. \A b \in Block : /\ Holds(mh'[b], G, MAX_nruns)
                        /\ last'[b] = LinesBefore(G + 1)
                        /\ hist'.initialSeeds[b] = LinesBefore(G + 1)
  BY <1>1, <1>7, <1>13
<1> QED
  BY <1>1, <1>9, <1>13, <1>14, <1>15, <1>16, <1>17, RBegins

-----------------------------------------------------------------------------
(* A recovery *)

LEMMA RStartRecover ==
  ASSUME RInv, StartRecover
  PROVE  RInv'
<1>1. /\ pc = "off" /\ hist.mhDraws # << >> /\ pc' = "recover" /\ mode' = "recover" /\ blk' = 1
      /\ rec' = hist /\ nruns' = All(AskedLast(hist))
      /\ last' = IF PreviousSessions(hist) = 0 THEN All(0) ELSE hist.lastPar
      /\ UNCHANGED <<hist, mh, tmp, size, sessions>>
  BY DEF StartRecover, disk, AskedLast
<1>2. UnderRepair /\ RType
  BY <1>1 DEF RInv, NothingYet, Erased, NoHistory
<1>3. Regular(hist)
  BY <1>2 DEF UnderRepair
<1>4. /\ newFile' = All(FilesBefore(hist) + 1) /\ fline' = All(1)
  BY <1>3 DEF StartRecover, Regular, FilesBefore
<1>5. FilesBefore(hist) \in Nat /\ AskedLast(hist) \in Nat
  <2>1. FilesBefore(hist) \in Nat /\ FilesBefore(hist) < hist.lastFile
    BY <1>3, RegularFacts
  <2>2. LastDrawOf(hist) - LinesBefore(FilesBefore(hist) + 1) \in Nat
    BY <1>3, <2>1, LinesLeft
  <2> QED
    BY <1>3, <2>1, <2>2, RegularFacts
<1>6. hist.lastPar \in [Block -> Draws] /\ All(0) \in [Block -> Draws]
  BY <1>3 DEF Regular, IsRecord, All, Draws
<1>7. RType'
  BY <1>1, <1>2, <1>4, <1>5, <1>6 DEF RType, All
<1>8. PICK c \in [Block -> 0..hist.lastFile] : Repaired(c)
  BY <1>2 DEF UnderRepair
<1>9. \A b \in Block : OnDisk(hist', mh'[b], b, c[b])
  BY <1>1, <1>8 DEF Repaired
<1>10. ASSUME NEW b \in Block PROVE ToRecover(b, c[b])'
  <2>1. ASSUME c[b] = 0 PROVE last'[b] = 0
    <3>1. FilesBefore(hist) = 0
      BY <1>5, <1>8, <2>1 DEF Repaired, OnDisk
    <3> QED
      BY <1>1, <1>3, <3>1 DEF Regular, All
  <2> QED
    BY <1>1, <1>4, <2>1 DEF ToRecover, All
<1>11. blk' \in 1..(NumberOfBlocks + 1) /\ \A b \in Block : ~(b < blk')
  BY <1>1, Constants
<1>12. Recovers(c)'
  BY <1>1, <1>10, <1>11 DEF Recovers
<1>13. Repaired(c)'
  BY <1>1, <1>9, <1>12 DEF Repaired
<1>14. UnderRepair'
  BY <1>1, <1>2, <1>8, <1>13 DEF UnderRepair
<1> QED
  BY <1>7, <1>14 DEF RInv

\* What holds while blocks are prepared for the recovery.
LEMMA RecoverFacts ==
  ASSUME RInv, pc = "recover"
  PROVE  /\ RType /\ Regular(hist) /\ rec = hist /\ blk \in 1..(NumberOfBlocks + 1)
         /\ ExpectedNumberOfMhFilesPerBlock(rec) = hist.lastFile
         /\ \E c \in [Block -> 0..hist.lastFile] :
               /\ Repaired(c) /\ Recovers(c)
               /\ \A b \in Block : OnDisk(hist, mh[b], b, c[b]) /\ (IsComplete(b) <=> c[b] = hist.lastFile)
<1>1. RType /\ UnderRepair
  BY DEF RInv, NothingYet, Erased
<1>2. Regular(hist)
  BY <1>1 DEF UnderRepair
<1>3. PICK c \in [Block -> 0..hist.lastFile] : Repaired(c)
  BY <1>1 DEF UnderRepair
<1>4. Recovers(c)
  BY <1>3 DEF Repaired
<1>5. rec = hist /\ blk \in 1..(NumberOfBlocks + 1)
  BY <1>4 DEF Recovers
<1>6. ExpectedNumberOfMhFilesPerBlock(rec) = hist.lastFile
  BY <1>2, <1>5 DEF Regular, AddsUp, ExpectedNumberOfMhFilesPerBlock
<1>7. ASSUME NEW b \in Block
      PROVE  OnDisk(hist, mh[b], b, c[b]) /\ (IsComplete(b) <=> c[b] = hist.lastFile)
  <2>1. OnDisk(hist, mh[b], b, c[b])
    BY <1>3 DEF Repaired
  <2>2. c[b] \in Nat /\ c[b] <= hist.lastFile /\ NumberOfMhFiles(b) = c[b]
    BY <1>2, <2>1, FilesOfBlock
  <2>3. hist.lastFile \in Nat
    BY <1>2, RegularFacts
  <2> QED
    BY <1>6, <2>1, <2>2, <2>3 DEF IsComplete
<1> QED
  BY <1>1, <1>2, <1>3, <1>4, <1>5, <1>6, <1>7

\* One more block is prepared: the others, and what is on disk, stay.
LEMMA BlockPrepared ==
  ASSUME RInv, pc = "recover", NEW a \in Block, a = blk, NEW c \in [Block -> 0..hist.lastFile],
         Repaired(c), Recovers(c), RType', Regular(hist'),
         UNCHANGED <<mh, pc, mode, sessions>>, rec' = hist', blk' = blk + 1,
         SameSessions(hist', [hist EXCEPT !.initialSeeds = hist'.initialSeeds]),
         FilesBefore(hist') = FilesBefore(hist), LastDrawOf(hist') = LastDrawOf(hist),
         AskedLast(hist') = AskedLast(hist), hist'.concluded = hist.concluded,
         \A b \in Block : b # blk =>
            /\ hist'.initialSeeds[b] = hist.initialSeeds[b]
            /\ hist'.lastPar[b] = hist.lastPar[b] /\ hist'.lastSeeds[b] = hist.lastSeeds[b]
            /\ newFile'[b] = newFile[b] /\ fline'[b] = fline[b]
            /\ nruns'[b] = nruns[b] /\ last'[b] = last[b],
         OnDisk(hist', mh'[a], a, c[a]), GoesOnAfter(hist, a, c[a])'
  PROVE  RInv'
<1>1. /\ hist'.mhDraws = hist.mhDraws /\ hist'.lastFile = hist.lastFile
      /\ hist'.lastLine = hist.lastLine
  <2>1. IsRecord(hist)
    BY RecoverFacts DEF Regular
  <2> QED
    BY <2>1 DEF SameSessions, IsRecord
<1>2. ASSUME NEW b \in Block, b # blk PROVE OnDisk(hist', mh'[b], b, c[b])
  <2>1. OnDisk(hist, mh[b], b, c[b])
    BY DEF Repaired
  <2> QED
    BY <1>1, <1>2, <2>1 DEF OnDisk, Ends
<1>3. \A b \in Block : OnDisk(hist', mh'[b], b, c[b])
  BY <1>2
<1>4. ASSUME NEW b \in Block, b < blk PROVE GoesOnAfter(hist, b, c[b])'
  <2>1. b # blk
    BY <1>4, Constants
  <2>2. GoesOnAfter(hist, b, c[b])
    BY <1>4 DEF Recovers
  <2> QED
    BY <1>1, <2>1, <2>2 DEF GoesOnAfter, Ends
<1>5. ASSUME NEW b \in Block, b > blk PROVE ToRecover(b, c[b])'
  <2>1. b # blk
    BY <1>5, Constants
  <2>2. ToRecover(b, c[b])
    <3>1. ~(b < blk)
      BY <1>5, Constants
    <3> QED
      BY <3>1 DEF Recovers
  <2> QED
    BY <2>1, <2>2 DEF ToRecover
<1>6. blk' \in 1..(NumberOfBlocks + 1)
  BY Constants DEF Block
<1>7. ASSUME NEW b \in Block
      PROVE  IF b < blk' THEN GoesOnAfter(hist, b, c[b])' ELSE ToRecover(b, c[b])'
  <2>1. b \in Nat /\ blk \in Nat /\ blk' = blk + 1
    BY Constants
  <2>2. CASE b < blk
    BY <1>4, <2>1, <2>2
  <2>3. CASE b = blk
    BY <2>1, <2>3
  <2>4. CASE b > blk
    BY <1>5, <2>1, <2>4
  <2> QED
    BY <2>1, <2>2, <2>3, <2>4
<1>8. Recovers(c)'
  BY <1>6, <1>7 DEF Recovers
<1>9. Repaired(c)'
  BY <1>3, <1>8 DEF Repaired
<1>10. UnderRepair
  BY DEF RInv, NothingYet, Erased
<1>11. UnderRepair'
  BY <1>1, <1>9, <1>10 DEF UnderRepair
<1> QED
  BY <1>11 DEF RInv

LEMMA RRecoverCrashedBlock ==
  ASSUME RInv, RecoverCrashedBlock
  PROVE  RInv'
<1>1. /\ pc = "recover" /\ blk \in Block /\ ~IsComplete(blk)
      /\ newFile' = IF MovesOn(blk) THEN [newFile EXCEPT ![blk] = @ + 1] ELSE newFile
      /\ fline' = IF MovesOn(blk) THEN [fline EXCEPT ![blk] = 1] ELSE fline
      /\ nruns' = [nruns EXCEPT ![blk] = RunsLeft(blk)]
      /\ blk' = blk + 1
      /\ UNCHANGED <<mh, tmp, pc, mode, size, sessions>>
  BY DEF RecoverCrashedBlock, bounds
<1>0. PICK a \in Block : a = blk
  BY <1>1
<1>2. PICK c \in [Block -> 0..hist.lastFile] :
          /\ Repaired(c) /\ Recovers(c)
          /\ \A b \in Block : OnDisk(hist, mh[b], b, c[b]) /\ (IsComplete(b) <=> c[b] = hist.lastFile)
  BY <1>1, RecoverFacts
<1>3. RType /\ Regular(hist) /\ rec = hist
  BY <1>1, RecoverFacts
<1>4. PICK n \in Nat : n = c[blk] /\ NumberOfMhFiles(blk) = n /\ n < hist.lastFile
                       /\ FilesBefore(hist) <= n
  <2>1. OnDisk(hist, mh[blk], blk, c[blk]) /\ c[blk] # hist.lastFile
    BY <1>1, <1>2
  <2>2. c[blk] \in Nat /\ c[blk] <= hist.lastFile /\ NumberOfMhFiles(blk) = c[blk]
    BY <1>1, <1>3, <2>1, FilesOfBlock
  <2>3. hist.lastFile \in Nat /\ FilesBefore(hist) \in Nat
    BY <1>3, RegularFacts
  <2> QED
    BY <2>1, <2>2, <2>3 DEF OnDisk
<1>5. /\ FilesBefore(hist) \in Nat /\ hist.lastFile <= FilesBefore(hist) + 2
      /\ AskedLast(hist) = LastDrawOf(hist) - LinesBefore(FilesBefore(hist) + 1)
      /\ LastFileFullIndicator(rec)
      /\ hist.lastFile \in Nat
  BY <1>3, RegularFacts DEF Regular
<1>6. /\ newFile[blk] = FilesBefore(hist) + 1 /\ fline[blk] = 1
      /\ nruns[blk] = AskedLast(hist) /\ (n = 0 => last[blk] = 0)
  <2>1. ToRecover(blk, c[blk])
    BY <1>1, <1>2, Constants DEF Recovers
  <2> QED
    BY <1>4, <2>1 DEF ToRecover
<1>7. MovesOn(blk) <=> n = FilesBefore(hist) + 1
  BY <1>4, <1>5, <1>6 DEF MovesOn
<1>8. n = FilesBefore(hist) \/ n = FilesBefore(hist) + 1
  BY <1>4, <1>5
<1>9. /\ LinesBefore(n + 1) \in Nat /\ LastDrawOf(hist) \in Nat
      /\ LastDrawOf(hist) - LinesBefore(n + 1) \in Nat
      /\ n > 0 => LinesBefore(n + 1) = LinesBefore(n) + MAX_nruns
  <2>1. LinesBefore(n + 1) = LinesBefore(n) + MAX_nruns
    BY FilesFollow
  <2> QED
    BY <1>3, <1>4, <2>1, LinesLeft, RegularFacts
<1>10. newFile'[blk] = n + 1 /\ fline'[blk] = 1
  BY <1>1, <1>3, <1>5, <1>6, <1>7, <1>8 DEF RType
<1>11. RunsLeft(blk) = LastDrawOf(hist) - LinesBefore(n + 1)
  <2>1. ExistingDrawsInLastMCFile(blk) = 0
    BY <1>5 DEF ExistingDrawsInLastMCFile
  <2>2. LastFileNumberInThePreviousMh(rec) = FilesBefore(hist)
    BY <1>3 DEF FilesBefore
  <2>3. /\ LinesBefore(FilesBefore(hist) + 1) \in Int /\ MAX_nruns \in Int
        /\ LinesBefore((FilesBefore(hist) + 1) + 1) = LinesBefore(FilesBefore(hist) + 1) + MAX_nruns
    <3>1. FilesBefore(hist) + 1 \in Int
      BY <1>5
    <3> QED
      BY <3>1, FilesFollow, Constants
  <2>4. CASE n = 0
    <3>1. RunsLeft(blk) = nruns[blk]
      BY <1>1, <1>4, <2>4 DEF RunsLeft
    <3> QED
      BY <1>5, <1>6, <1>8, <2>4, <3>1
  <2>5. CASE n > 0
    <3>1. RunsLeft(blk) = nruns[blk] - 0 - (n - FilesBefore(hist)) * MAX_nruns
      BY <1>1, <1>4, <2>1, <2>2, <2>5 DEF RunsLeft
    <3>2. CASE n = FilesBefore(hist)
      <4>1. n - FilesBefore(hist) = 0 /\ 0 * MAX_nruns = 0
        BY <1>4, <2>3, <3>2
      <4> QED
        BY <1>5, <1>6, <1>9, <2>3, <3>1, <3>2, <4>1
    <3>3. CASE n = FilesBefore(hist) + 1
      <4>1. n - FilesBefore(hist) = 1 /\ 1 * MAX_nruns = MAX_nruns
        BY <1>5, <2>3, <3>3
      <4> QED
        BY <1>5, <1>6, <1>9, <2>3, <3>1, <3>3, <4>1
    <3> QED
      BY <1>8, <3>2, <3>3
  <2> QED
    BY <1>4, <2>4, <2>5
<1>12. IsRecord(hist)
  BY <1>3 DEF Regular
<1>13. /\ newFile' \in [Block -> Nat] /\ fline' \in [Block -> Nat] /\ nruns' \in [Block -> Nat]
       /\ \A b \in Block : b # blk => /\ newFile'[b] = newFile[b] /\ fline'[b] = fline[b]
                                      /\ nruns'[b] = nruns[b]
       /\ nruns'[blk] = LastDrawOf(hist) - LinesBefore(n + 1)
  <2>1. newFile' \in [Block -> Nat] /\ \A b \in Block : b # blk => newFile'[b] = newFile[b]
    BY <1>1, <1>3 DEF RType
  <2>2. fline' \in [Block -> Nat] /\ \A b \in Block : b # blk => fline'[b] = fline[b]
    BY <1>1, <1>3 DEF RType
  <2>3. /\ nruns' \in [Block -> Nat] /\ nruns'[blk] = RunsLeft(blk)
        /\ \A b \in Block : b # blk => nruns'[b] = nruns[b]
    BY <1>1, <1>3, <1>9, <1>11 DEF RType
  <2> QED
    BY <1>11, <2>1, <2>2, <2>3
<1>14. CASE n = 0
  <2>1. UNCHANGED <<last, rec, hist>>
    BY <1>4, <1>14 DEF RecoverCrashedBlock
  <2>2. RType'
    BY <1>1, <1>3, <1>13, <2>1 DEF RType
  <2>3. OnDisk(hist', mh'[blk], blk, c[blk])
    BY <1>1, <1>2, <2>1
  <2>4. GoesOnAfter(hist, a, c[a])'
    <3>1. LinesBefore(n + 1) = 0
      BY <1>14, FilesFollow
    <3>2. hist.initialSeeds[blk] = 0
      BY <1>1, <1>2, <1>4, <1>14 DEF OnDisk
    <3> QED
      BY <1>0, <1>1, <1>4, <1>6, <1>10, <1>13, <1>14, <2>1, <3>1, <3>2 DEF GoesOnAfter
  <2>5. SameSessions(hist', [hist EXCEPT !.initialSeeds = hist'.initialSeeds])
    BY <1>12, <2>1 DEF SameSessions, IsRecord
  <2> QED
    BY <1>0, <1>1, <1>2, <1>3, <1>13, <2>1, <2>2, <2>3, <2>4, <2>5, BlockPrepared
<1>15. CASE n > 0
  <2>1. PICK d \in Nat : d = LinesBefore(n + 1)
    BY <1>9
  <2>2. LastDraw(blk, n) = d /\ SeedAfter(blk, n) = d
    <3>1. OnDisk(hist, mh[blk], blk, n) /\ n # hist.lastFile
      BY <1>1, <1>2, <1>4, <1>5
    <3> QED
      BY <1>1, <1>3, <1>9, <1>15, <2>1, <3>1, FilesOfBlock
  <2>3. /\ last' = [last EXCEPT ![blk] = d]
        /\ rec' = [hist EXCEPT !.initialSeeds[blk] = d]
        /\ hist' = rec'
    BY <1>3, <1>4, <1>15, <2>2 DEF RecoverCrashedBlock, RecoveredRecord
  <2>4. /\ IsRecord(hist') /\ hist'.mhDraws = hist.mhDraws /\ hist'.lastFile = hist.lastFile
        /\ hist'.lastLine = hist.lastLine /\ hist'.concluded = hist.concluded
        /\ hist'.lastPar = hist.lastPar /\ hist'.lastSeeds = hist.lastSeeds
        /\ hist'.initialSeeds[blk] = d
        /\ \A b \in Block : b # blk => hist'.initialSeeds[b] = hist.initialSeeds[b]
    BY <1>1, <1>12, <2>3 DEF IsRecord
  <2>5. /\ Regular(hist') /\ FilesBefore(hist') = FilesBefore(hist)
        /\ LastDrawOf(hist') = LastDrawOf(hist) /\ AskedLast(hist') = AskedLast(hist)
    BY <1>3, <2>4, RegularSame
  <2>6. /\ last' \in [Block -> Draws] /\ last'[blk] = d
        /\ \A b \in Block : b # blk => last'[b] = last[b]
    BY <1>1, <1>3, <2>3 DEF RType, Draws
  <2>7. RType'
    BY <1>1, <1>3, <1>13, <2>6 DEF RType
  <2>8. OnDisk(hist', mh'[blk], blk, c[blk])
    <3>1. OnDisk(hist, mh[blk], blk, c[blk])
      BY <1>1, <1>2
    <3> QED
      BY <1>1, <1>4, <1>15, <2>4, <2>5, <3>1 DEF OnDisk, Ends
  <2>9. GoesOnAfter(hist, a, c[a])'
    <3>1. n # hist'.lastFile
      BY <1>4, <1>5, <2>4
    <3> QED
      BY <1>0, <1>1, <1>4, <1>10, <1>13, <2>1, <2>4, <2>5, <2>6, <3>1 DEF GoesOnAfter
  <2>10. SameSessions(hist', [hist EXCEPT !.initialSeeds = hist'.initialSeeds])
    BY <1>12, <2>4 DEF SameSessions, IsRecord
  <2> QED
    BY <1>0, <1>1, <1>2, <1>3, <1>13, <2>3, <2>4, <2>5, <2>6, <2>7, <2>8, <2>9, <2>10, BlockPrepared
<1> QED
  BY <1>4, <1>14, <1>15

LEMMA RRecoverCompleteBlock ==
  ASSUME RInv, RecoverCompleteBlock
  PROVE  RInv'
<1>1. /\ pc = "recover" /\ blk \in Block /\ IsComplete(blk)
      /\ nruns' = [nruns EXCEPT ![blk] = RunsLeft(blk)]
      /\ blk' = blk + 1
      /\ UNCHANGED <<mh, tmp, pc, mode, newFile, fline, size, sessions>>
  BY DEF RecoverCompleteBlock, bounds
<1>0. PICK a \in Block : a = blk
  BY <1>1
<1>2. PICK c \in [Block -> 0..hist.lastFile] :
          /\ Repaired(c) /\ Recovers(c)
          /\ \A b \in Block : OnDisk(hist, mh[b], b, c[b]) /\ (IsComplete(b) <=> c[b] = hist.lastFile)
  BY <1>1, RecoverFacts
<1>3. /\ RType /\ Regular(hist) /\ rec = hist
      /\ ExpectedNumberOfMhFilesPerBlock(rec) = hist.lastFile
  BY <1>1, RecoverFacts
<1>4. PICK n \in Nat \ {0} : n = c[a] /\ n = hist.lastFile
  BY <1>0, <1>1, <1>2, <1>3, RegularFacts
<1>5. PICK d \in Nat : d = LastDrawOf(hist)
  BY <1>3, RegularFacts
<1>6. LastDraw(a, n) = d /\ SeedAfter(a, n) = d
  <2>1. OnDisk(hist, mh[a], a, n)
    BY <1>2, <1>4
  <2>2. LastDrawOf(hist) = LinesBefore(n) + hist.lastLine
    BY <1>4 DEF LastDrawOf
  <2> QED
    BY <1>3, <1>4, <1>5, <2>1, <2>2, FilesOfBlock
<1>7. /\ last' = [last EXCEPT ![a] = d]
      /\ hist' = [hist EXCEPT !.lastSeeds[a] = d, !.lastPar[a] = d]
      /\ rec' = hist'
  BY <1>0, <1>3, <1>4, <1>6 DEF RecoverCompleteBlock
<1>8. IsRecord(hist) /\ d \in Draws
  BY <1>3 DEF Regular, Draws
<1>9. /\ IsRecord(hist') /\ hist'.mhDraws = hist.mhDraws /\ hist'.lastFile = hist.lastFile
      /\ hist'.lastLine = hist.lastLine /\ hist'.concluded = hist.concluded
      /\ hist'.initialSeeds = hist.initialSeeds
      /\ hist'.lastSeeds[a] = d /\ hist'.lastPar[a] = d
      /\ \A b \in Block : b # a => /\ hist'.lastPar[b] = hist.lastPar[b]
                                   /\ hist'.lastSeeds[b] = hist.lastSeeds[b]
  BY <1>7, <1>8 DEF IsRecord
<1>10. /\ Regular(hist') /\ FilesBefore(hist') = FilesBefore(hist)
       /\ LastDrawOf(hist') = LastDrawOf(hist) /\ AskedLast(hist') = AskedLast(hist)
  BY <1>3, <1>9, RegularSame
<1>11. RunsLeft(a) = 0
  BY <1>0, <1>1 DEF RunsLeft
<1>12. /\ nruns' \in [Block -> Nat] /\ nruns'[a] = 0
       /\ \A b \in Block : b # a => nruns'[b] = nruns[b]
  BY <1>0, <1>1, <1>3, <1>11 DEF RType
<1>13. last' \in [Block -> Draws] /\ \A b \in Block : b # a => last'[b] = last[b]
  BY <1>3, <1>7, <1>8 DEF RType
<1>14. RType'
  BY <1>1, <1>3, <1>12, <1>13 DEF RType
<1>15. OnDisk(hist', mh'[a], a, c[a])
  <2>1. OnDisk(hist, mh[a], a, c[a])
    BY <1>2
  <2> QED
    BY <1>1, <1>4, <1>5, <1>9, <1>10, <2>1 DEF OnDisk, Ends
<1>16. GoesOnAfter(hist, a, c[a])'
  <2>1. fline[a] = 1
    BY <1>0, <1>2, Constants DEF Recovers, ToRecover
  <2> QED
    BY <1>1, <1>4, <1>5, <1>9, <1>10, <1>12, <2>1 DEF GoesOnAfter, Ends
<1>17. SameSessions(hist', [hist EXCEPT !.initialSeeds = hist'.initialSeeds])
  BY <1>8, <1>9 DEF SameSessions, IsRecord
<1> QED
  BY <1>0, <1>1, <1>2, <1>7, <1>9, <1>10, <1>12, <1>13, <1>14, <1>15, <1>16, <1>17, BlockPrepared

LEMMA RRecoverEnd ==
  ASSUME RInv, RecoverEnd
  PROVE  RInv'
<1>1. /\ pc = "recover" /\ blk = NumberOfBlocks + 1 /\ pc' = "core"
      /\ UNCHANGED <<hist, mh, tmp, mode, newFile, fline, nruns, last, size, rec, sessions>>
  BY DEF RecoverEnd, disk, plan, bounds
<1>2. PICK c \in [Block -> 0..hist.lastFile] : Repaired(c) /\ Recovers(c)
  BY <1>1, RecoverFacts
<1>3. UnderRepair /\ RType
  BY <1>1 DEF RInv, NothingYet, Erased
<1>4. ASSUME NEW b \in Block PROVE GoesOnAfter(hist, b, c[b])'
  <2>1. b < blk
    BY <1>1, Constants DEF Block
  <2>2. GoesOnAfter(hist, b, c[b])
    BY <1>2, <2>1 DEF Recovers
  <2> QED
    BY <1>1, <2>2 DEF GoesOnAfter
<1>5. rec' = hist' /\ \A b \in Block : OnDisk(hist', mh'[b], b, c[b])
  BY <1>1, <1>2 DEF Repaired, Recovers
<1>6. Repaired(c)'
  BY <1>1, <1>4, <1>5 DEF Repaired
<1>7. UnderRepair'
  BY <1>1, <1>3, <1>6 DEF UnderRepair
<1>8. RType'
  BY <1>1, <1>3 DEF RType
<1> QED
  BY <1>7, <1>8 DEF RInv

-----------------------------------------------------------------------------
(* The core *)

\* What an action of the core has to keep, when the blocks have c[b] files.
CoreRepairs(c) ==
  /\ RType /\ Regular(hist) /\ sessions # 0
  /\ sessions < MaxSessions => hist.lastLine = MAX_nruns
  /\ c \in [Block -> 0..hist.lastFile]
  /\ \A b \in Block : OnDisk(hist, mh[b], b, c[b])
  /\ Runs2(c)
  /\ pc \in {"block", "draw", "write"}

LEMMA CoreOfInvariant ==
  ASSUME RInv, pc \in {"block", "draw", "write"}
  PROVE  \E c \in [Block -> 0..hist.lastFile] : CoreRepairs(c)
BY DEF RInv, NothingYet, Erased, UnderRepair, Repaired, CoreRepairs

LEMMA InvariantOfCore ==
  ASSUME NEW c, CoreRepairs(c)'
  PROVE  RInv'
BY DEF RInv, UnderRepair, Repaired, CoreRepairs

\* There is a first incomplete block, unless all are complete.
LEMMA FirstIncomplete ==
  ASSUME NEW S \in SUBSET Block
  PROVE  LET m == Min(S \cup {NumberOfBlocks + 1})
         IN  /\ m \in S \cup {NumberOfBlocks + 1}
             /\ \A b \in S : m <= b
<1> DEFINE T == S \cup {NumberOfBlocks + 1}
           X == {n \in Nat : \A i \in 0..n : i \notin T}
<1>1. T \subseteq Nat /\ NumberOfBlocks + 1 \in T /\ NumberOfBlocks + 1 \in Nat
  BY Constants
<1>2. \E m \in T : \A x \in T : m <= x
  <2>1. SUFFICES ASSUME \A m \in T : \E x \in T : ~(m <= x) PROVE FALSE
    OBVIOUS
  <2>2. 0 \in X
    <3>1. 0 \notin T
      BY <1>1, <2>1
    <3> QED
      BY <3>1
  <2>3. ASSUME NEW n \in Nat, n \in X PROVE n + 1 \in X
    <3>1. \A i \in 0..n : i \notin T
      BY <2>3
    <3>2. n + 1 \notin T
      <4>1. \A x \in T : ~(n + 1 <= x) => x \in 0..n
        BY <1>1
      <4> QED
        BY <2>1, <3>1, <4>1
    <3>3. \A i \in 0..(n + 1) : i \in 0..n \/ i = n + 1
      OBVIOUS
    <3> QED
      BY <3>1, <3>2, <3>3
  <2> HIDE DEF X
  <2>4. \A n \in Nat : n \in X
    BY <2>2, <2>3, NatInductionOnSet
  <2> USE DEF X
  <2>5. NumberOfBlocks + 1 \notin T
    BY <1>1, <2>4
  <2> QED
    BY <1>1, <2>5
<1>3. Min(T) \in T /\ \A x \in T : Min(T) <= x
  BY <1>2 DEF Min
<1> QED
  BY <1>3

LEMMA REnterCore ==
  ASSUME RInv, EnterCore
  PROVE  RInv'
<1>1. /\ pc = "core" /\ pc' = "block" /\ rec' = hist /\ blk' = FirstBlock
      /\ size' = [b \in Block |-> Min({MAX_nruns, fline[b] + nruns[b] - 1})]
      /\ UNCHANGED <<hist, mh, tmp, mode, newFile, fline, nruns, last, sessions>>
  BY DEF EnterCore, disk, plan, bounds
<1>2. RType /\ UnderRepair
  BY <1>1 DEF RInv, NothingYet, Erased
<1>3. PICK c \in [Block -> 0..hist.lastFile] : Repaired(c)
  BY <1>2 DEF UnderRepair
<1>4. Regular(hist)
  BY <1>2 DEF UnderRepair
<1>5. \A b \in Block : OnDisk(hist, mh[b], b, c[b]) /\ GoesOnAfter(hist, b, c[b])
  BY <1>1, <1>3 DEF Repaired
<1>6. ASSUME NEW b \in Block
      PROVE  size'[b] = Min({MAX_nruns, nruns[b]}) /\ size'[b] \in Int
  <2>1. fline[b] = 1 /\ nruns[b] \in Nat
    BY <1>2, <1>5 DEF GoesOnAfter, RType
  <2>2. fline[b] + nruns[b] - 1 = nruns[b]
    BY <2>1
  <2> QED
    BY <1>1, <2>1, <2>2, Constants, MinOfTwo
<1>7. /\ blk' \in 1..(NumberOfBlocks + 1)
      /\ \A b \in Block : b < blk' => c[b] = hist.lastFile
  <2>1. CASE mode # "recover"
    <3>1. blk' = 1 /\ \A b \in Block : ~(b < 1)
      BY <1>1, <2>1, Constants DEF FirstBlock
    <3> QED
      BY <3>1, Constants
  <2>2. CASE mode = "recover"
    <3>1. rec = hist
      BY <1>1, <1>3, <2>2 DEF Repaired
    <3>2. ExpectedNumberOfMhFilesPerBlock(rec) = hist.lastFile
      BY <1>4, <3>1 DEF Regular, AddsUp, ExpectedNumberOfMhFilesPerBlock
    <3>3. ASSUME NEW b \in Block PROVE IsComplete(b) <=> c[b] = hist.lastFile
      <4>1. c[b] \in Nat /\ c[b] <= hist.lastFile /\ NumberOfMhFiles(b) = c[b]
        BY <1>4, <1>5, FilesOfBlock
      <4>2. hist.lastFile \in Nat
        BY <1>4, RegularFacts
      <4> QED
        BY <3>2, <4>1, <4>2 DEF IsComplete
    <3>4. PICK S \in SUBSET Block : S = {b \in Block : ~IsComplete(b)}
      OBVIOUS
    <3>5. blk' = Min(S \cup {NumberOfBlocks + 1})
      BY <1>1, <2>2, <3>4 DEF FirstBlock
    <3>6. blk' \in S \cup {NumberOfBlocks + 1} /\ \A b \in S : blk' <= b
      BY <3>5, FirstIncomplete
    <3>7. blk' \in 1..(NumberOfBlocks + 1)
      BY <3>6, Constants DEF Block
    <3>8. ASSUME NEW b \in Block, b < blk' PROVE c[b] = hist.lastFile
      <4>1. b \notin S
        BY <3>6, <3>7, <3>8, Constants
      <4> QED
        BY <3>3, <3>4, <4>1
    <3> QED
      BY <3>7, <3>8
  <2> QED
    BY <2>1, <2>2
<1>8. \A b \in Block : b < blk' => c[b] = hist'.lastFile /\ Ends(rec', b)
  BY <1>1, <1>5, <1>7 DEF GoesOnAfter
<1>9. \A b \in Block : GoesOnAfter(rec, b, c[b])' /\ size'[b] = Min({MAX_nruns, nruns'[b]})
  BY <1>1, <1>5, <1>6 DEF GoesOnAfter
<1>10. IsRecord(rec') /\ SameSessions(rec', hist')
  BY <1>1, <1>4 DEF Regular, SameSessions
<1>11. Runs2(c)'
  BY <1>1, <1>7, <1>8, <1>9, <1>10 DEF Runs2
<1>12. RType'
  <2>1. size' \in [Block -> Int]
    BY <1>1, <1>6
  <2> QED
    BY <1>1, <1>2, <2>1 DEF RType
<1>13. CoreRepairs(c)'
  BY <1>1, <1>2, <1>4, <1>5, <1>11, <1>12 DEF CoreRepairs, UnderRepair
<1> QED
  BY <1>13, InvariantOfCore

\* What the session's record and the blocks that wait for their turn say.
LEMMA CoreFacts ==
  ASSUME NEW c, CoreRepairs(c)
  PROVE  /\ RType /\ Regular(hist) /\ IsRecord(rec) /\ SameSessions(rec, hist)
         /\ Regular(rec) /\ LastDrawOf(rec) = LastDrawOf(hist) /\ LastDrawOf(hist) \in Nat
         /\ hist.lastFile \in Nat \ {0} /\ hist.lastLine \in 1..MAX_nruns
         /\ LastDrawOf(hist) = LinesBefore(hist.lastFile) + hist.lastLine
         /\ \A b \in Block : /\ c[b] \in Nat /\ c[b] <= hist.lastFile
                             /\ NumberOfMhFiles(b) = c[b] /\ DOMAIN mh[b] = 1..c[b]
<1>1. RType /\ Regular(hist) /\ IsRecord(rec) /\ SameSessions(rec, hist)
  BY DEF CoreRepairs, Runs2
<1>2. Regular(rec) /\ LastDrawOf(rec) = LastDrawOf(hist)
  BY <1>1, RegularSame DEF SameSessions
<1>3. ASSUME NEW b \in Block
      PROVE  /\ c[b] \in Nat /\ c[b] <= hist.lastFile
             /\ NumberOfMhFiles(b) = c[b] /\ DOMAIN mh[b] = 1..c[b]
  <2>1. OnDisk(hist, mh[b], b, c[b])
    BY DEF CoreRepairs
  <2> QED
    BY <1>1, <2>1, FilesOfBlock
<1> QED
  BY <1>1, <1>2, <1>3, RegularFacts

LEMMA ROpenNewFile ==
  ASSUME NEW c, CoreRepairs(c), OpenNewFile
  PROVE  CoreRepairs(c)'
<1>1. /\ pc = "block" /\ pc' = "draw" /\ blk \in Block /\ iter' = 1 /\ idx' = fline[blk]
      /\ rng' = rec.initialSeeds[blk] /\ x2' = Zeros(size[blk])
      /\ UNCHANGED <<hist, mh, tmp, mode, blk, newFile, fline, nruns, last, size, rec, sessions>>
  BY DEF OpenNewFile, disk, plan, bounds
<1>2. /\ RType /\ Regular(hist) /\ SameSessions(rec, hist) /\ LastDrawOf(rec) = LastDrawOf(hist)
      /\ LastDrawOf(hist) \in Nat /\ c[blk] \in Nat /\ c[blk] <= hist.lastFile
      /\ hist.lastFile \in Nat
  BY <1>1, CoreFacts
<1>3. Runs2(c)
  BY DEF CoreRepairs
<1>4. GoesOnAfter(rec, blk, c[blk]) /\ size[blk] = Min({MAX_nruns, nruns[blk]})
  BY <1>1, <1>3 DEF Runs2
<1>5. PICK n \in Nat : n = c[blk] /\ n <= hist.lastFile
  BY <1>2
<1>6. fline[blk] = 1 /\ rec.lastFile = hist.lastFile
  BY <1>2, <1>4 DEF GoesOnAfter, SameSessions
<1>9. FillsNext(c[blk])' \/ NoMore(c[blk])'
  <2>1. CASE n = hist.lastFile
    <3>1. nruns[blk] = 0 /\ Ends(rec, blk)
      BY <1>4, <1>5, <1>6, <2>1 DEF GoesOnAfter
    <3>2. NoMore(n)'
      BY <1>1, <1>2, <2>1, <3>1 DEF NoMore, Ends
    <3> QED
      BY <1>1, <1>5, <3>2 DEF NoMore
  <2>2. CASE n # hist.lastFile
    <3>1. /\ newFile[blk] = n + 1 /\ nruns[blk] = LastDrawOf(hist) - LinesBefore(n + 1)
          /\ last[blk] = LinesBefore(n + 1) /\ rec.initialSeeds[blk] = LinesBefore(n + 1)
      BY <1>2, <1>4, <1>5, <1>6, <2>2 DEF GoesOnAfter
    <3>2. n < hist.lastFile
      BY <1>2, <1>5, <2>2
    <3>3. LinesBefore(n + 1) \in Nat /\ LastDrawOf(hist) - LinesBefore(n + 1) \in Nat \ {0}
      BY <1>2, <3>2, LinesLeft
    <3>4. size[blk] = SizeOf(n + 1)
      BY <1>4, <3>1 DEF SizeOf
    <3>5. SizeOf(n + 1) \in Nat \ {0}
      <4>1. MAX_nruns \in Int /\ LastDrawOf(hist) - LinesBefore(n + 1) \in Int
        BY <3>3, Constants
      <4> QED
        BY <3>3, <4>1, Constants, MinOfTwo DEF SizeOf
    <3>6. x2' \in Seq(Draws) /\ Len(x2') = size[blk]
      BY <1>1, <3>4, <3>5 DEF Zeros, Draws
    <3>7. Filled(n + 1, 0)'
      BY <1>1, <3>1, <3>3 DEF Filled
    <3>8. Filled(n + 1, idx - 1)'
      BY <1>1, <1>6, <3>7
    <3>9. SizeOf(n + 1)' = SizeOf(n + 1)
      BY <1>1 DEF SizeOf
    <3>10. /\ nruns[blk] # 0 /\ 1 \in 1..nruns[blk] /\ 1 \in 1..size[blk]
           /\ LinesBefore(n + 1) + 1 = LastDrawOf(hist) - nruns[blk] + 1
      BY <1>2, <3>1, <3>3, <3>4, <3>5
    <3>11. FillsNext(n)'
      BY <1>1, <1>6, <3>1, <3>2, <3>4, <3>6, <3>8, <3>9, <3>10 DEF FillsNext
    <3> QED
      BY <1>1, <1>5, <3>11 DEF FillsNext, Filled
  <2> QED
    BY <2>1, <2>2
<1>10. ASSUME NEW b \in Block, b > blk
       PROVE  GoesOnAfter(rec, b, c[b])' /\ size'[b] = Min({MAX_nruns, nruns'[b]})
  <2>1. GoesOnAfter(rec, b, c[b]) /\ size[b] = Min({MAX_nruns, nruns[b]})
    BY <1>3, <1>10 DEF Runs2
  <2> QED
    BY <1>1, <2>1 DEF GoesOnAfter, Ends
<1>11. Runs2(c)'
  BY <1>1, <1>3, <1>9, <1>10 DEF Runs2, Ends
<1>12. RType'
  BY <1>1, <1>2 DEF RType
<1> QED
  BY <1>1, <1>11, <1>12 DEF CoreRepairs

LEMMA RDraw ==
  ASSUME RecoveryIsMeantFor, NEW c, CoreRepairs(c), Draw
  PROVE  CoreRepairs(c)'
<1>0. PICK par : par = IF last[blk] = rng THEN rng + 1 ELSE OffChain
  OBVIOUS
<1>1. /\ pc = "draw" /\ iter <= nruns[blk] /\ rng' = rng + 1
      /\ x2' = SetRow(x2, idx, par) /\ last' = [last EXCEPT ![blk] = par]
      /\ UNCHANGED <<hist, mh, tmp, mode, blk, newFile, fline, nruns, size, rec, sessions>>
      /\ IF idx = size[blk] \/ iter = nruns[blk]
         THEN pc' = "write" /\ iter' = iter /\ idx' = idx
         ELSE pc' = "draw" /\ iter' = iter + 1 /\ idx' = idx + 1
  BY <1>0 DEF Draw, bounds, RecoveryIsMeantFor
<1>2. Runs2(c) /\ blk \in Block /\ (FillsNext(c[blk]) \/ NoMore(c[blk]))
  BY <1>1 DEF CoreRepairs, Runs2
<1>3. /\ RType /\ Regular(hist) /\ LastDrawOf(hist) \in Nat /\ hist.lastFile \in Nat
      /\ c[blk] \in Nat
  BY <1>2, CoreFacts
<1>4. PICK k \in Nat : k = nruns[blk]
  BY <1>2, <1>3 DEF RType
<1>5. PICK n \in Nat : n = c[blk] /\ FillsNext(n)
  BY <1>1, <1>2, <1>3, <1>4 DEF NoMore
<1>6. PICK f \in Nat \ {0} : f = n + 1
  OBVIOUS
<1>7. /\ newFile[blk] = f /\ n < hist.lastFile /\ k # 0 /\ iter \in 1..k
      /\ idx \in 1..SizeOf(f) /\ size[blk] = SizeOf(f)
      /\ LinesBefore(f) + idx = LastDrawOf(hist) - k + iter
      /\ x2 \in Seq(Draws) /\ Len(x2) = SizeOf(f)
      /\ Filled(f, idx - 1)
  BY <1>1, <1>4, <1>5, <1>6 DEF FillsNext
<1>8. /\ LinesBefore(f) \in Nat
      /\ SizeOf(f) \in Int /\ SizeOf(f) <= LastDrawOf(hist) - LinesBefore(f)
  <2>1. LinesBefore(f) \in Nat
    BY FilesFollow
  <2> QED
    BY <1>3, <2>1, SizeFacts
<1>9. par = LinesBefore(f) + idx /\ par \in Draws /\ rng' = LinesBefore(f) + idx
  <2>1. last[blk] = rng /\ rng = LinesBefore(f) + (idx - 1)
    BY <1>7 DEF Filled
  <2> QED
    BY <1>0, <1>1, <1>7, <1>8, <2>1 DEF Draws
<1>10. PICK at \in 1..SizeOf(f) : at = idx
  BY <1>7
<1>11. /\ x2' \in Seq(Draws) /\ Len(x2') = SizeOf(f)
       /\ \A i \in 1..SizeOf(f) : x2'[i] = IF i = at THEN par ELSE x2[i]
  <2>1. x2' = SetRow(x2, at, par) /\ at \in 1..Len(x2)
    BY <1>1, <1>7, <1>10
  <2>2. /\ SetRow(x2, at, par) \in Seq(Draws) /\ Len(SetRow(x2, at, par)) = Len(x2)
        /\ \A i \in 1..Len(x2) : SetRow(x2, at, par)[i] = IF i = at THEN par ELSE x2[i]
    <3>1. x2 \in Seq(Draws)
      BY <1>7
    <3>2. at \in 1..Len(x2)
      BY <2>1
    <3>3. par \in Draws
      BY <1>9
    <3> QED
      BY <3>1, <3>2, <3>3, RowSet
  <2> QED
    BY <1>7, <2>1, <2>2
<1>12. Filled(f, at)'
  <2>1. ASSUME NEW i \in 1..at PROVE x2'[i] = LinesBefore(f) + i
    <3>1. i \in 1..SizeOf(f)
      BY <1>8
    <3>2. CASE i = at
      BY <1>9, <1>10, <1>11, <3>1, <3>2
    <3>3. CASE i # at
      <4>1. i \in 1..(idx - 1)
        BY <1>7, <1>10, <3>3
      <4> QED
        BY <1>7, <1>11, <3>1, <3>3, <4>1 DEF Filled
    <3> QED
      BY <3>2, <3>3
  <2>2. last'[blk] = par
    BY <1>1, <1>2, <1>3 DEF RType
  <2> QED
    BY <1>1, <1>9, <1>10, <2>1, <2>2 DEF Filled
<1>13. iter = k => idx = SizeOf(f)
  BY <1>3, <1>4, <1>7, <1>8, SMTT(30)
<1>14. SizeOf(f)' = SizeOf(f) /\ size'[blk'] = SizeOf(f) /\ nruns'[blk'] = k
  BY <1>1, <1>4, <1>7 DEF SizeOf
<1>15. FillsNext(n)'
  <2>1. CASE idx = size[blk] \/ iter = nruns[blk]
    <3>1. pc' = "write" /\ iter' = iter /\ idx' = idx /\ idx = SizeOf(f)
      BY <1>1, <1>4, <1>7, <1>13, <2>1
    <3>2. Filled(f, idx)'
      BY <1>10, <1>12, <3>1
    <3> QED
      BY <1>1, <1>4, <1>6, <1>7, <1>11, <1>14, <3>1, <3>2 DEF FillsNext
  <2>2. CASE ~(idx = size[blk] \/ iter = nruns[blk])
    <3>1. /\ pc' = "draw" /\ iter' = iter + 1 /\ idx' = idx + 1
          /\ iter # k /\ idx # SizeOf(f)
      BY <1>1, <1>4, <1>7, <2>2
    <3>2. iter' \in 1..k /\ idx' \in 1..SizeOf(f) /\ idx' - 1 = at
      <4>1. \A s, i \in Int : i \in 1..s /\ i # s => i + 1 \in 1..s
        OBVIOUS
      <4>2. iter + 1 \in 1..k
        BY <1>7, <3>1, <4>1
      <4>3. idx + 1 \in 1..SizeOf(f)
        BY <1>7, <1>8, <3>1, <4>1
      <4> QED
        BY <1>10, <3>1, <4>2, <4>3
    <3>3. LinesBefore(f) + idx' = LastDrawOf(hist) - k + iter'
      <4>1. iter \in Int /\ idx \in Int
        BY <1>7
      <4>2. \A x, i, l, j, t \in Int : x + i = l - j + t => x + (i + 1) = l - j + (t + 1)
        OBVIOUS
      <4>3. LinesBefore(f) \in Int /\ LastDrawOf(hist) \in Int /\ k \in Int
        BY <1>3, <1>8
      <4>4. LinesBefore(f) + (idx + 1) = LastDrawOf(hist) - k + (iter + 1)
        BY <1>7, <4>1, <4>2, <4>3
      <4> QED
        BY <3>1, <4>4
    <3>4. Filled(f, idx - 1)'
      BY <1>12, <3>2
    <3> QED
      BY <1>1, <1>4, <1>6, <1>7, <1>11, <1>14, <3>1, <3>2, <3>3, <3>4 DEF FillsNext
  <2> QED
    BY <2>1, <2>2
<1>16. ASSUME NEW b \in Block, b > blk
       PROVE  GoesOnAfter(rec, b, c[b])' /\ size'[b] = Min({MAX_nruns, nruns'[b]})
  <2>1. GoesOnAfter(rec, b, c[b]) /\ size[b] = Min({MAX_nruns, nruns[b]})
    BY <1>2, <1>16 DEF Runs2
  <2>2. b # blk
    BY <1>2, <1>16, Constants
  <2>3. last'[b] = last[b]
    BY <1>1, <1>3, <2>2 DEF RType
  <2> QED
    BY <1>1, <2>1, <2>3 DEF GoesOnAfter, Ends
<1>17. pc' \in {"draw", "write"}
  BY <1>1
<1>18. Runs2(c)'
  BY <1>1, <1>2, <1>5, <1>15, <1>16, <1>17 DEF Runs2, Ends
<1>19. RType'
  <2>1. last' \in [Block -> Draws]
    BY <1>1, <1>3, <1>9 DEF RType
  <2> QED
    BY <1>1, <1>3, <1>17, <2>1 DEF RType
<1> QED
  BY <1>1, <1>17, <1>18, <1>19 DEF CoreRepairs

LEMMA RSaveFile ==
  ASSUME NEW c, CoreRepairs(c), SaveFile
  PROVE  RInv'
<1>1. /\ pc = "write" /\ pc' = "draw" /\ iter' = iter + 1
      /\ UNCHANGED <<hist, tmp, mode, blk, fline, nruns, last, rng, sessions>>
  BY DEF SaveFile, bounds
<1>2. Runs2(c) /\ blk \in Block /\ (FillsNext(c[blk]) \/ NoMore(c[blk]))
  BY <1>1 DEF CoreRepairs, Runs2
<1>3. /\ RType /\ Regular(hist) /\ IsRecord(rec) /\ SameSessions(rec, hist)
      /\ LastDrawOf(rec) = LastDrawOf(hist) /\ LastDrawOf(hist) \in Nat
      /\ hist.lastFile \in Nat \ {0} /\ hist.lastLine \in 1..MAX_nruns
      /\ LastDrawOf(hist) = LinesBefore(hist.lastFile) + hist.lastLine
      /\ c[blk] \in Nat /\ c \in [Block -> 0..hist.lastFile]
  BY <1>2, CoreFacts DEF CoreRepairs
<1>4. PICK k \in Nat : k = nruns[blk]
  BY <1>2, <1>3 DEF RType
<1>5. PICK n \in Nat : n = c[blk] /\ FillsNext(n)
  BY <1>1, <1>2, <1>3 DEF NoMore
<1>6. PICK f \in Nat \ {0} : f = n + 1
  OBVIOUS
<1>0. PICK a \in Block : a = blk
  BY <1>2
<1>7. /\ newFile[a] = f /\ n < hist.lastFile /\ k # 0 /\ iter \in 1..k
      /\ idx \in 1..SizeOf(f) /\ idx = SizeOf(f) /\ size[a] = SizeOf(f)
      /\ LinesBefore(f) + idx = LastDrawOf(hist) - k + iter
      /\ x2 \in Seq(Draws) /\ Len(x2) = SizeOf(f)
      /\ Filled(f, idx)
  BY <1>0, <1>1, <1>4, <1>5, <1>6 DEF FillsNext
<1>8. /\ LinesBefore(f) \in Nat /\ LinesBefore(f + 1) = LinesBefore(f) + MAX_nruns
      /\ SizeOf(f) \in Int /\ SizeOf(f) <= MAX_nruns
      /\ SizeOf(f) = MAX_nruns \/ SizeOf(f) = LastDrawOf(hist) - LinesBefore(f)
      /\ SizeOf(f) <= LastDrawOf(hist) - LinesBefore(f)
  <2>1. LinesBefore(f) \in Nat /\ LinesBefore(f + 1) = LinesBefore(f) + MAX_nruns
    BY FilesFollow
  <2> QED
    BY <1>3, <2>1, SizeFacts
<1>9. PICK m \in 1..MAX_nruns : m = SizeOf(f) /\ m = idx
  BY <1>7, <1>8, Constants
<1>10. /\ LinesBefore(f) + m = LastDrawOf(hist) - k + iter
       /\ Len(x2) = m /\ \A i \in 1..m : x2[i] = LinesBefore(f) + i
       /\ last[a] = LinesBefore(f) + m /\ rng = LinesBefore(f) + m
  BY <1>0, <1>7, <1>9 DEF Filled
\* The file is full, or the last one.
<1>11. IF f = hist.lastFile
       THEN m = hist.lastLine /\ LinesBefore(f) + m = LastDrawOf(hist)
       ELSE m = MAX_nruns /\ LinesBefore(f) + m < LastDrawOf(hist)
  <2>1. IF f = hist.lastFile
        THEN LastDrawOf(hist) - LinesBefore(f) = hist.lastLine
        ELSE LastDrawOf(hist) - LinesBefore(f) > MAX_nruns
    BY <1>3, <1>6, <1>7, LinesLeft
  <2> QED
    BY <1>3, <1>8, <1>9, <2>1, Constants
<1>12. PICK file : /\ file = [x |-> x2, seeds |-> seeds']
                   /\ mh' = [mh EXCEPT ![a] = Written(@, f, file)]
  BY <1>0, <1>7 DEF SaveFile
<1>13. HasLines(file, f, m)
  <2>1. file.x = x2 /\ file.seeds = seeds'
    BY <1>12
  <2>2. seeds' = Written(seeds, f, rng)
    BY <1>0, <1>7 DEF SaveFile
  <2>3. seeds'[f] = rng
    BY <2>2 DEF Written
  <2> QED
    BY <1>7, <1>10, <2>1, <2>3 DEF HasLines
<1>14. DOMAIN mh' = Block /\ \A b \in Block : b # a => mh'[b] = mh[b]
  BY <1>3, <1>12 DEF RType
<1>15. OnDisk(hist, mh'[a], a, f)
  <2>1. OnDisk(hist, mh[a], a, n)
    BY <1>0, <1>5 DEF CoreRepairs
  <2>2. n \in Nat /\ n # hist.lastFile /\ f - 1 = n
    BY <1>3, <1>6, <1>7
  <2>3. Holds(mh[a], f - 1, MAX_nruns)
    BY <2>1, <2>2 DEF OnDisk
  <2>4. Holds(Written(mh[a], f, file), f, m)
    BY <1>13, <2>3, FileAdded
  <2>5. mh'[a] = Written(mh[a], f, file)
    BY <1>3, <1>12 DEF RType
  <2>6. Holds(mh'[a], f, IF f = hist.lastFile THEN hist.lastLine ELSE MAX_nruns)
    BY <1>11, <2>4, <2>5
  <2>7. f \in FilesBefore(hist)..hist.lastFile
    <3>1. FilesBefore(hist) \in Nat /\ n \in FilesBefore(hist)..hist.lastFile
      BY <1>3, <2>1, RegularFacts DEF OnDisk
    <3> QED
      BY <1>3, <1>6, <1>7, <3>1
  <2>8. ~hist.concluded
    BY <2>1, <2>2 DEF OnDisk
  <2> QED
    BY <2>6, <2>7, <2>8 DEF OnDisk
<1>16. PICK d \in [Block -> 0..hist.lastFile] : d = [c EXCEPT ![a] = f]
  <2>1. f \in 0..hist.lastFile
    BY <1>3, <1>6, <1>7
  <2>2. c \in [Block -> 0..hist.lastFile]
    BY <1>3
  <2> QED
    BY <2>1, <2>2
<1>17. d[a] = f /\ \A b \in Block : b # a => d[b] = c[b]
  BY <1>3, <1>16
<1>18. PICK next \in Int : /\ next = IF k - iter <= MAX_nruns THEN k - iter ELSE MAX_nruns
                           /\ next = Min({MAX_nruns, k - iter})
                           /\ size' = [size EXCEPT ![a] = next]
                           /\ IF next # 0
                              THEN /\ x2' = Zeros(next) /\ idx' = 1
                                   /\ newFile' = [newFile EXCEPT ![a] = f + 1]
                              ELSE newFile' = newFile
  <2>1. k - iter \in Int /\ MAX_nruns \in Int
    BY <1>7, Constants
  <2>2. /\ Min({k - iter, MAX_nruns}) = IF k - iter <= MAX_nruns THEN k - iter ELSE MAX_nruns
        /\ Min({MAX_nruns, k - iter}) = IF k - iter <= MAX_nruns THEN k - iter ELSE MAX_nruns
    BY <2>1, MinOfTwo
  <2>3. /\ size' = [size EXCEPT ![a] = Min({k - iter, MAX_nruns})]
        /\ IF Min({k - iter, MAX_nruns}) # 0
           THEN /\ x2' = Zeros(Min({k - iter, MAX_nruns})) /\ idx' = 1
                /\ newFile' = [newFile EXCEPT ![a] = f + 1]
           ELSE newFile' = newFile
    BY <1>0, <1>4, <1>7 DEF SaveFile
  <2> QED
    BY <2>1, <2>2, <2>3
<1>19. /\ IsRecord(rec') /\ SameSessions(rec', hist) /\ rec'.lastSeeds = rec.lastSeeds
       /\ \A b \in Block : b # a => rec'.lastPar[b] = rec.lastPar[b]
       /\ iter = k => rec'.lastPar[a] = LinesBefore(f) + m
  <2>1. PICK e \in Draws : e = LinesBefore(f) + m
    BY <1>8 DEF Draws
  <2>2. x2[Len(x2)] = e
    BY <1>10, <2>1
  <2>3. rec' = IF iter = k THEN [rec EXCEPT !.lastPar[a] = e] ELSE rec
    BY <1>0, <1>4, <2>2 DEF SaveFile
  <2> QED
    BY <1>3, <2>1, <2>3 DEF IsRecord, SameSessions
<1>20. FillsNext(f)' \/ NoMore(f)'
  <2>1. CASE f = hist.lastFile
    <3>1. iter = k /\ LinesBefore(f) + m = LastDrawOf(hist)
      BY <1>3, <1>7, <1>10, <1>11, <2>1
    <3>2. NoMore(f)'
      BY <1>0, <1>1, <1>4, <1>7, <1>10, <1>19, <2>1, <3>1 DEF NoMore
    <3> QED
      BY <3>2
  <2>2. CASE f # hist.lastFile
    <3>1. m = MAX_nruns /\ LinesBefore(f) + m < LastDrawOf(hist) /\ f < hist.lastFile
      BY <1>3, <1>6, <1>7, <1>11, <2>2
    <3>2. iter \in Int /\ k - iter \in Nat \ {0} /\ iter + 1 \in 1..k
      BY <1>3, <1>7, <1>10, <3>1
    <3>3. next \in Nat \ {0}
      BY <1>18, <3>2, Constants
    <3>4. LinesBefore(f + 1) = LastDrawOf(hist) - k + iter
      BY <1>8, <1>10, <3>1
    <3>5. SizeOf(f + 1) = next
      <4>1. LastDrawOf(hist) - LinesBefore(f + 1) = k - iter
        BY <1>3, <3>2, <3>4
      <4> QED
        BY <1>18, <4>1 DEF SizeOf
    <3>6. newFile'[a] = f + 1 /\ size'[a] = next /\ x2' = Zeros(next) /\ idx' = 1
      BY <1>3, <1>18, <3>3 DEF RType
    <3>7. x2' \in Seq(Draws) /\ Len(x2') = next
      BY <3>3, <3>6 DEF Zeros, Draws
    <3>8. Filled(f + 1, 0)'
      BY <1>0, <1>1, <1>8, <1>10, <3>1 DEF Filled
    <3>9. Filled(f + 1, idx - 1)'
      BY <3>6, <3>8
    <3>10. LinesBefore(f + 1) + 1 = LastDrawOf(hist) - k + (iter + 1)
      BY <1>3, <3>2, <3>4
    <3>11. SizeOf(f + 1)' = next /\ 1 \in 1..next
      BY <1>1, <3>3, <3>5 DEF SizeOf
    <3>12. nruns'[a] = k /\ blk' = a
      BY <1>0, <1>1, <1>4
    <3>13. FillsNext(f)'
      BY <1>1, <1>7, <3>1, <3>2, <3>6, <3>7, <3>9, <3>10, <3>11, <3>12 DEF FillsNext
    <3> QED
      BY <3>13
  <2> QED
    BY <2>1, <2>2
<1>21. ASSUME NEW b \in Block, b # a
       PROVE  newFile'[b] = newFile[b] /\ size'[b] = size[b] /\ mh'[b] = mh[b]
  BY <1>3, <1>14, <1>18, <1>21 DEF RType
<1>22. LastDrawOf(rec') = LastDrawOf(hist)
  BY <1>19 DEF SameSessions, LastDrawOf
<1>23. ASSUME NEW b \in Block, b < blk PROVE d[b] = hist.lastFile /\ Ends(rec', b)
  <2>1. b # a
    BY <1>0, <1>23, Constants
  <2>2. c[b] = hist.lastFile /\ Ends(rec, b)
    BY <1>2, <1>23 DEF Runs2
  <2> QED
    BY <1>3, <1>17, <1>19, <1>22, <2>1, <2>2 DEF Ends
<1>24. ASSUME NEW b \in Block, b > blk
       PROVE  GoesOnAfter(rec, b, d[b])' /\ size'[b] = Min({MAX_nruns, nruns'[b]})
  <2>1. b # a
    BY <1>0, <1>24, Constants
  <2>2. GoesOnAfter(rec, b, c[b]) /\ size[b] = Min({MAX_nruns, nruns[b]})
    BY <1>2, <1>24 DEF Runs2
  <2>3. GoesOnAfter(rec', b, c[b])
    BY <1>3, <1>19, <1>22, <2>1, <2>2 DEF GoesOnAfter, Ends, SameSessions
  <2> QED
    BY <1>1, <1>17, <1>21, <2>1, <2>2, <2>3 DEF GoesOnAfter
<1>25. Runs2(d)'
  BY <1>0, <1>1, <1>2, <1>17, <1>19, <1>20, <1>23, <1>24 DEF Runs2
<1>26. RType'
  <2>1. newFile' \in [Block -> Nat]
    <3>1. newFile \in [Block -> Nat]
      BY <1>3 DEF RType
    <3> QED
      BY <1>18, <3>1
  <2>2. size' \in [Block -> Int]
    <3>1. size \in [Block -> Int]
      BY <1>3 DEF RType
    <3> QED
      BY <1>18, <3>1
  <2> QED
    BY <1>1, <1>3, <1>14, <2>1, <2>2 DEF RType
<1>27. ASSUME NEW b \in Block PROVE OnDisk(hist', mh'[b], b, d[b])
  <2>1. CASE b = a
    BY <1>1, <1>15, <1>17, <2>1
  <2>2. CASE b # a
    <3>1. OnDisk(hist, mh[b], b, c[b])
      BY DEF CoreRepairs
    <3> QED
      BY <1>1, <1>17, <1>21, <2>2, <3>1
  <2> QED
    BY <2>1, <2>2
<1>28. CoreRepairs(d)'
  BY <1>1, <1>16, <1>25, <1>26, <1>27 DEF CoreRepairs
<1> QED
  BY <1>28, InvariantOfCore

LEMMA REndBlock ==
  ASSUME NEW c, CoreRepairs(c), EndBlock
  PROVE  CoreRepairs(c)'
<1>1. /\ pc = "draw" /\ pc' = "block" /\ iter > nruns[blk] /\ blk' = blk + 1
      /\ rec' = IF nruns[blk] # 0 THEN [rec EXCEPT !.lastSeeds[blk] = rng] ELSE rec
      /\ UNCHANGED <<hist, mh, tmp, mode, newFile, fline, nruns, last, size, sessions>>
  BY DEF EndBlock, IsDone, RecordAtTheEnd, disk, plan, bounds
<1>2. Runs2(c) /\ blk \in Block /\ (FillsNext(c[blk]) \/ NoMore(c[blk]))
  BY <1>1 DEF CoreRepairs, Runs2
<1>3. /\ RType /\ Regular(hist) /\ IsRecord(rec) /\ SameSessions(rec, hist)
      /\ LastDrawOf(rec) = LastDrawOf(hist) /\ LastDrawOf(hist) \in Nat
  BY CoreFacts
<1>0. PICK a \in Block : a = blk
  BY <1>2
<1>4. NoMore(c[a]) /\ c[a] = hist.lastFile
  <2>1. nruns[blk] \in Nat
    BY <1>2, <1>3 DEF RType
  <2>2. ~FillsNext(c[blk])
    BY <1>1, <2>1 DEF FillsNext
  <2> QED
    BY <1>0, <1>2, <2>2 DEF NoMore
<1>5. /\ IsRecord(rec') /\ SameSessions(rec', hist) /\ rec'.lastPar = rec.lastPar
      /\ \A b \in Block : rec'.lastSeeds[b] = IF b = a THEN LastDrawOf(hist) ELSE rec.lastSeeds[b]
      /\ rec'.lastPar[a] = LastDrawOf(hist)
  <2>1. CASE nruns[blk] = 0
    BY <1>0, <1>1, <1>3, <1>4, <2>1 DEF NoMore
  <2>2. CASE nruns[blk] # 0
    <3>1. PICK r \in Nat : r = rng /\ r = LastDrawOf(hist)
      BY <1>0, <1>3, <1>4, <2>2 DEF NoMore
    <3>2. rec' = [rec EXCEPT !.lastSeeds[a] = r]
      BY <1>0, <1>1, <2>2, <3>1
    <3>3. rec.lastPar[a] = LastDrawOf(hist)
      BY <1>0, <1>4 DEF NoMore
    <3> QED
      BY <1>3, <3>1, <3>2, <3>3 DEF IsRecord, SameSessions
  <2> QED
    BY <2>1, <2>2
<1>6. LastDrawOf(rec') = LastDrawOf(hist)
  BY <1>5 DEF SameSessions, LastDrawOf
<1>7. ASSUME NEW b \in Block, b < blk' PROVE c[b] = hist'.lastFile /\ Ends(rec', b)
  <2>1. b = a \/ b < blk
    BY <1>0, <1>1, <1>7, Constants
  <2>2. CASE b = a
    BY <1>1, <1>4, <1>5, <1>6, <2>2 DEF Ends
  <2>3. CASE b # a
    <3>1. c[b] = hist.lastFile /\ Ends(rec, b)
      BY <1>2, <2>1, <2>3 DEF Runs2
    <3> QED
      BY <1>1, <1>3, <1>5, <1>6, <2>3, <3>1 DEF Ends
  <2> QED
    BY <2>2, <2>3
<1>8. ASSUME NEW b \in Block, b > blk' \/ b = blk'
      PROVE  GoesOnAfter(rec, b, c[b])' /\ size'[b] = Min({MAX_nruns, nruns'[b]})
  <2>1. b > blk /\ b # a
    BY <1>0, <1>1, <1>8, Constants
  <2>2. GoesOnAfter(rec, b, c[b]) /\ size[b] = Min({MAX_nruns, nruns[b]})
    BY <1>2, <2>1 DEF Runs2
  <2>3. GoesOnAfter(rec', b, c[b])
    BY <1>3, <1>5, <1>6, <2>1, <2>2 DEF GoesOnAfter, Ends, SameSessions
  <2> QED
    BY <1>1, <2>2, <2>3 DEF GoesOnAfter
<1>9. blk' \in 1..(NumberOfBlocks + 1)
  BY <1>1, <1>2, Constants DEF Block
<1>10. SameSessions(rec', hist')
  BY <1>1, <1>5
<1>11. Runs2(c)'
  BY <1>1, <1>5, <1>7, <1>8, <1>9, <1>10 DEF Runs2
<1>12. RType'
  BY <1>1, <1>3 DEF RType
<1> QED
  BY <1>1, <1>11, <1>12 DEF CoreRepairs

LEMMA RConclude ==
  ASSUME NEW c, CoreRepairs(c), Conclude
  PROVE  RInv'
<1>1. /\ pc = "block" /\ blk = NumberOfBlocks + 1 /\ pc' = "off" /\ mode' = "new"
      /\ hist' = [rec EXCEPT !.concluded = TRUE]
      /\ newFile' = All(1) /\ fline' = All(1) /\ nruns' = All(0) /\ last' = All(0) /\ size' = All(0)
      /\ UNCHANGED <<mh, tmp, sessions>>
  BY DEF Conclude, ConcludedRecord, Leave, bounds
<1>2. /\ RType /\ Regular(hist) /\ IsRecord(rec) /\ SameSessions(rec, hist)
      /\ LastDrawOf(rec) = LastDrawOf(hist)
  BY CoreFacts
<1>3. /\ IsRecord(hist') /\ SameSessions(hist', hist)
      /\ hist'.lastPar = rec.lastPar /\ hist'.lastSeeds = rec.lastSeeds
  BY <1>1, <1>2 DEF IsRecord, SameSessions
<1>4. /\ Regular(hist') /\ FilesBefore(hist') = FilesBefore(hist)
      /\ LastDrawOf(hist') = LastDrawOf(hist)
  BY <1>2, <1>3, RegularSame DEF SameSessions
<1>5. RType'
  BY <1>1, <1>2 DEF RType, All, Draws
<1>6. ASSUME NEW b \in Block PROVE OnDisk(hist', mh'[b], b, c[b])
  <2>1. b < blk
    BY <1>1, Constants DEF Block
  <2>2. c[b] = hist.lastFile /\ Ends(rec, b)
    BY <2>1 DEF CoreRepairs, Runs2
  <2>3. OnDisk(hist, mh[b], b, c[b])
    BY DEF CoreRepairs
  <2> QED
    BY <1>1, <1>2, <1>3, <1>4, <2>2, <2>3 DEF OnDisk, Ends, SameSessions
<1>7. Repaired(c)'
  BY <1>1, <1>6 DEF Repaired
<1>8. hist'.lastFile = hist.lastFile /\ hist'.lastLine = hist.lastLine
  BY <1>3 DEF SameSessions
<1>9. UnderRepair'
  BY <1>1, <1>4, <1>7, <1>8 DEF UnderRepair, CoreRepairs
<1> QED
  BY <1>5, <1>9 DEF RInv

\* No file is resumed in its middle.
LEMMA ROpens ==
  ASSUME NEW c, CoreRepairs(c), pc = "block"
  PROVE  ~OpenOldFile /\ ~ResumeTmp /\ ~OpenFails
<1> SUFFICES ASSUME blk \in Block PROVE ~OpensOldFile /\ ~ResumesTmp
  BY DEF OpenOldFile, ResumeTmp, OpenFails
<1>1. GoesOnAfter(rec, blk, c[blk]) /\ RType
  BY DEF CoreRepairs, Runs2
<1>2. fline[blk] = 1 /\ tmp[blk] = NoTmp
  BY <1>1 DEF GoesOnAfter, RType, All
<1> QED
  BY <1>2 DEF OpensOldFile, ResumesTmp

LEMMA RSession ==
  ASSUME RecoveryIsMeantFor, RInv, Session
  PROVE  RInv'
<1>1. CASE WriteRecord
  BY <1>1, RWriteRecord
<1>2. CASE RecoverCrashedBlock \/ RecoverCompleteBlock \/ RecoverEnd
  BY <1>2, RRecoverCrashedBlock, RRecoverCompleteBlock, RRecoverEnd
<1>3. CASE RecoverFails
  <2>1. pc # "new" /\ Leave /\ UNCHANGED <<disk, sessions>>
    BY <1>3 DEF RecoverFails, bounds
  <2> QED
    BY <2>1, RLeave
<1>4. CASE EnterCore
  BY <1>4, REnterCore
<1>5. CASE OpenOldFile \/ OpenNewFile \/ ResumeTmp \/ OpenFails
  <2>1. pc = "block"
    BY <1>5 DEF OpenOldFile, OpenNewFile, ResumeTmp, OpenFails
  <2>2. PICK c \in [Block -> 0..hist.lastFile] : CoreRepairs(c)
    BY <2>1, CoreOfInvariant
  <2>3. OpenNewFile
    BY <1>5, <2>1, <2>2, ROpens
  <2> QED
    BY <2>2, <2>3, ROpenNewFile, InvariantOfCore
<1>6. CASE Draw \/ SaveFile \/ EndBlock \/ Conclude
  <2>1. pc \in {"block", "draw", "write"}
    BY <1>6 DEF Draw, SaveFile, EndBlock, Conclude
  <2>2. PICK c \in [Block -> 0..hist.lastFile] : CoreRepairs(c)
    BY <2>1, CoreOfInvariant
  <2> QED
    BY <1>6, <2>2, RDraw, RSaveFile, REndBlock, RConclude, InvariantOfCore
<1>7. CASE DeleteTmp
  BY <1>7 DEF DeleteTmp, RInv, RType
<1> QED
  BY <1>1, <1>2, <1>3, <1>4, <1>5, <1>6, <1>7 DEF Session

LEMMA RUnchanged ==
  ASSUME RInv, UNCHANGED vars
  PROVE  RInv'
<1>1. /\ UNCHANGED <<hist, mh, tmp, pc, mode, blk, newFile, fline, nruns, last, size, rec>>
      /\ UNCHANGED <<rng, x2, iter, idx, sessions>>
  BY DEF vars, disk, plan, chain, bounds
<1>2. RType'
  BY <1>1 DEF RInv, RType
<1>3. CASE NothingYet
  BY <1>1, <1>2, <1>3 DEF RInv, NothingYet
<1>4. CASE Erased
  BY <1>1, <1>2, <1>4 DEF RInv, Erased
<1>5. CASE UnderRepair
  <2>1. PICK c \in [Block -> 0..hist.lastFile] : Repaired(c)
    BY <1>5 DEF UnderRepair
  <2>2. \A b \in Block : OnDisk(hist', mh'[b], b, c[b])
    BY <1>1, <2>1 DEF Repaired
  <2>3. ASSUME pc = "recover" PROVE Recovers(c)'
    BY <1>1, <2>1, <2>3 DEF Repaired, Recovers, GoesOnAfter, ToRecover, Ends
  <2>4. ASSUME pc = "core"
        PROVE  (mode = "recover" => rec = hist)' /\ \A b \in Block : GoesOnAfter(hist, b, c[b])'
    BY <1>1, <2>1, <2>4 DEF Repaired, GoesOnAfter, Ends
  <2>5. ASSUME pc \in {"block", "draw", "write"} PROVE Runs2(c)'
    BY <1>1, <2>1, <2>5 DEF Repaired, Runs2, GoesOnAfter, Ends, FillsNext, NoMore, Filled, SizeOf
  <2>6. Repaired(c)'
    BY <1>1, <2>2, <2>3, <2>4, <2>5 DEF Repaired
  <2>7. UnderRepair'
    BY <1>1, <1>5, <2>6 DEF UnderRepair
  <2> QED
    BY <1>2, <2>7 DEF RInv
<1> QED
  BY <1>3, <1>4, <1>5 DEF RInv

RecoveryInvariant == RecoveryIsMeantFor /\ RInv

\* The files of each block, the record and the chain that is running agree,
\* whatever crashes and whatever is recovered.
THEOREM RecoveryInvariance == RecoveryIsMeantFor /\ Spec => []RecoveryInvariant
<1>1. RecoveryIsMeantFor /\ Init => RecoveryInvariant
  BY RInit DEF RecoveryInvariant
<1>2. ASSUME RecoveryInvariant, Next PROVE RecoveryInvariant'
  <2>1. RecoveryIsMeantFor /\ RInv
    BY <1>2 DEF RecoveryInvariant
  <2>2. RInv'
    <3>1. CASE \E n \in NewReplics : StartNew(n)
      BY <2>1, <3>1, RStartNew
    <3>2. CASE \E n \in LoadReplics : Load(n)
      BY <2>1, <3>2, RLoad
    <3>3. CASE StartRecover
      BY <2>1, <3>3, RStartRecover
    <3>4. CASE Session
      BY <2>1, <3>4, RSession
    <3>5. CASE Crash
      <4>1. pc # "new" /\ Leave /\ UNCHANGED <<disk, sessions>>
        BY <2>1, <3>5 DEF Crash, RecoveryIsMeantFor
      <4> QED
        BY <2>1, <4>1, RLeave
    <3> QED
      BY <1>2, <3>1, <3>2, <3>3, <3>4, <3>5 DEF Next
  <2> QED
    BY <2>1, <2>2 DEF RecoveryInvariant, RecoveryIsMeantFor
<1>3. ASSUME RecoveryInvariant, UNCHANGED vars PROVE RecoveryInvariant'
  BY <1>3, RUnchanged DEF RecoveryInvariant, RecoveryIsMeantFor
<1> QED
  BY <1>1, <1>2, <1>3, PTL DEF Spec

-----------------------------------------------------------------------------
(* What recoveries save *)

\* Nothing is saved yet, or the first files of each block hold the chain.
LEMMA RFiles ==
  ASSUME RInv
  PROVE  \/ mh = All(NoFiles) /\ mode = "new" /\ (pc = "new" \/ hist = NoHistory)
         \/ /\ Regular(hist) /\ pc # "new"
            /\ \E c \in [Block -> 0..hist.lastFile] :
                  Repaired(c) /\ \A b \in Block : OnDisk(hist, mh[b], b, c[b])
BY DEF RInv, RType, NothingYet, Erased, UnderRepair, Repaired

LEMMA LinesAreTheChain ==
  ASSUME RInv
  PROVE  /\ SavedDrawsAreTheChain
         /\ \A b \in Block : \A f \in DOMAIN mh[b] : Len(mh[b][f].x) \in Nat
<1>1. CASE mh = All(NoFiles)
  <2>1. \A b \in Block : DOMAIN mh[b] = {}
    BY <1>1 DEF All, NoFiles
  <2> QED
    BY <2>1 DEF SavedDrawsAreTheChain
<1>2. CASE mh # All(NoFiles)
  <2>1. Regular(hist)
    BY <1>2, RFiles
  <2>2. PICK c \in [Block -> 0..hist.lastFile] : \A b \in Block : OnDisk(hist, mh[b], b, c[b])
    BY <1>2, RFiles
  <2>3. ASSUME NEW b \in Block, NEW f \in DOMAIN mh[b]
        PROVE  \E m \in 1..MAX_nruns : HasLines(mh[b][f], f, m)
    <3>1. f \in 1..c[b]
      BY <2>2 DEF OnDisk, Holds
    <3>2. \/ HasLines(mh[b][f], f, hist.lastLine)
          \/ HasLines(mh[b][f], f, MAX_nruns)
      BY <2>2, <3>1 DEF OnDisk, Holds
    <3> QED
      BY <2>1, <3>2, RegularFacts, Constants
  <2>4. ASSUME NEW b \in Block, NEW f \in DOMAIN mh[b], NEW l \in DOMAIN mh[b][f].x
        PROVE  mh[b][f].x[l] = (f - 1) * MAX_nruns + l
    <3>1. PICK m \in 1..MAX_nruns : HasLines(mh[b][f], f, m)
      BY <2>3
    <3>2. DOMAIN mh[b][f].x = 1..m
      BY <3>1 DEF HasLines
    <3> QED
      BY <3>1, <3>2 DEF HasLines, LinesBefore
  <2>5. ASSUME NEW b \in Block, NEW f \in DOMAIN mh[b] PROVE Len(mh[b][f].x) \in Nat
    BY <2>3 DEF HasLines
  <2> QED
    BY <2>4, <2>5 DEF SavedDrawsAreTheChain
<1> QED
  BY <1>1, <1>2

LEMMA ConcludedAfterRepairs ==
  ASSUME RInv
  PROVE  ConcludedIsComplete
<1> SUFFICES ASSUME pc = "off", hist.concluded, NEW b \in Block
             PROVE  /\ DOMAIN mh[b] = 1..hist.lastFile
                    /\ DrawsSaved(b) = DrawsAsked(hist)
                    /\ Len(mh[b][hist.lastFile].x) = hist.lastLine
                    /\ hist.lastPar[b] = LastDraw(b, hist.lastFile)
                    /\ hist.lastSeeds[b] = SeedAfter(b, hist.lastFile)
  BY DEF ConcludedIsComplete
<1>1. Regular(hist)
  BY RFiles DEF NoHistory
<1>2. OnDisk(hist, mh[b], b, hist.lastFile) /\ Ends(hist, b)
  <2>1. PICK c \in [Block -> 0..hist.lastFile] : OnDisk(hist, mh[b], b, c[b])
    BY RFiles DEF NoHistory
  <2> QED
    BY <2>1 DEF OnDisk
<1>3. hist.mhDraws # << >> /\ DrawsAsked(hist) = LastDrawOf(hist)
  BY <1>1 DEF Regular, AddsUp
<1>4. Holds(mh[b], hist.lastFile, hist.lastLine)
  BY <1>2 DEF OnDisk
<1> QED
  BY <1>1, <1>2, <1>3, <1>4, RegularFacts, BlockIsComplete DEF Ends

\* A block that lacks draws lacks files.
LEMMA MissingFiles ==
  ASSUME NEW b \in Block, Regular(hist), NEW n, OnDisk(hist, mh[b], b, n),
         DrawsSaved(b) < DrawsAsked(hist)
  PROVE  n < hist.lastFile
<1>1. n \in Nat /\ n <= hist.lastFile /\ hist.lastFile \in Nat \ {0} /\ hist.lastLine \in 1..MAX_nruns
  BY FilesOfBlock, RegularFacts
<1> SUFFICES ASSUME n = hist.lastFile PROVE FALSE
  BY <1>1
<1>2. Holds(mh[b], hist.lastFile, hist.lastLine)
  BY DEF OnDisk
<1>3. DrawsSaved(b) = LastDrawOf(hist)
  BY <1>1, <1>2, FilesCounted DEF LastDrawOf
<1>4. DrawsAsked(hist) = LastDrawOf(hist) /\ LastDrawOf(hist) \in Nat
  BY RegularFacts DEF Regular, AddsUp
<1> QED
  BY <1>3, <1>4

\* A sum of numbers up to N, one of which is less.
LEMMA SumOfFewer ==
  ASSUME NEW f, NEW S, IsFiniteSet(S), NEW N \in Nat, NEW a \in S, f[a] < N,
         \A s \in S : f[s] \in Nat /\ f[s] <= N
  PROVE  SumFunctionOnSet(f, S) < N * Cardinality(S)
<1> DEFINE g == [s \in S |-> N]
           T == S \ {a}
<1>1. IsFiniteSet(T)
  BY FS_Subset
<1>2. /\ SumFunctionOnSet(f, S) = f[a] + SumFunctionOnSet(f, T)
      /\ SumFunctionOnSet(f, T) \in Int
  <2>1. \A s \in S : f[s] \in Int
    OBVIOUS
  <2>2. \A x \in S : SumFunctionOnSet(f, S) = f[x] + SumFunctionOnSet(f, S \ {x})
    BY <2>1, SumWithout
  <2>3. \A s \in T : f[s] \in Int
    OBVIOUS
  <2> QED
    BY <1>1, <2>2, <2>3, SumWithout
<1>3. /\ SumFunctionOnSet(g, S) = N + SumFunctionOnSet(g, T)
      /\ SumFunctionOnSet(g, T) \in Int
  <2>1. \A s \in S : g[s] \in Int
    OBVIOUS
  <2>2. \A x \in S : SumFunctionOnSet(g, S) = g[x] + SumFunctionOnSet(g, S \ {x})
    <3> HIDE DEF g
    <3> QED
      BY <2>1, SumWithout
  <2>3. \A s \in T : g[s] \in Int
    OBVIOUS
  <2>4. SumFunctionOnSet(g, T) \in Int
    <3> HIDE DEF g
    <3> QED
      BY <1>1, <2>3, SumWithout
  <2>5. g[a] = N
    OBVIOUS
  <2> QED
    BY <2>2, <2>4, <2>5
<1>4. 1 * SumFunctionOnSet(f, T) <= 1 * SumFunctionOnSet(g, T)
  <2>1. \A s \in T : f[s] \in Int /\ g[s] \in Int /\ 1 * f[s] <= 1 * g[s]
    OBVIOUS
  <2> HIDE DEF g, T
  <2> QED
    BY <1>1, <2>1, SumCompared
<1>5. SumFunctionOnSet(g, S) = N * Cardinality(S)
  <2>1. \A s \in S : g[s] = N
    OBVIOUS
  <2> HIDE DEF g
  <2> QED
    BY <2>1, SumOfEqual
<1>6. f[a] \in Nat
  OBVIOUS
<1> HIDE DEF g, T
<1> QED
  BY <1>2, <1>3, <1>4, <1>5, <1>6

LEMMA SessionsFind ==
  ASSUME RInv
  PROVE  SessionsFindTheirFiles
<1>1. LoadedDrawsExist
  <2> SUFFICES ASSUME mode = "load", NEW b \in Block
               PROVE  1..LastFileNumberInThePreviousMh(hist) \subseteq DOMAIN mh[b]
    BY DEF LoadedDrawsExist
  <2>1. Regular(hist)
    BY RFiles
  <2>2. PICK c \in [Block -> 0..hist.lastFile] : OnDisk(hist, mh[b], b, c[b])
    BY RFiles
  <2>3. DOMAIN mh[b] = 1..c[b] /\ c[b] \in Nat
    BY <2>1, <2>2, FilesOfBlock
  <2>4. FilesBefore(hist) \in Nat /\ FilesBefore(hist) <= c[b]
    BY <2>1, <2>2, <2>3, RegularFacts DEF OnDisk
  <2> QED
    BY <2>3, <2>4 DEF FilesBefore
<1>2. CrashedIsRecoverable
  <2> SUFFICES ASSUME pc = "off", hist.mhDraws # << >>,
                      NEW a \in Block, DrawsSaved(a) < DrawsAsked(hist)
               PROVE  RecoverRequired
    BY DEF CrashedIsRecoverable
  <2>1. Regular(hist)
    BY RFiles DEF NoHistory
  <2>2. PICK c \in [Block -> 0..hist.lastFile] : \A b \in Block : OnDisk(hist, mh[b], b, c[b])
    BY RFiles DEF NoHistory
  <2>3. PICK N \in Nat : N = hist.lastFile
    BY <2>1, RegularFacts
  <2>4. PICK f : f = [b \in Block |-> NumberOfMhFiles(b)]
    OBVIOUS
  <2>5. \A b \in Block : f[b] = c[b] /\ f[b] \in Nat /\ f[b] <= N
    BY <2>1, <2>2, <2>3, <2>4, FilesOfBlock
  <2>6. f[a] < N
    BY <2>1, <2>2, <2>3, <2>5, MissingFiles
  <2>7. SumFunctionOnSet(f, Block) < N * NumberOfBlocks /\ SumFunctionOnSet(f, Block) \in Int
    <3>1. \A b \in Block : f[b] \in Int
      BY <2>5
    <3> QED
      BY <2>5, <2>6, <3>1, Constants, SumOfFewer, SumWithout
  <2>8. TotalNumberOfMhFiles = SumFunctionOnSet(f, Block)
    BY <2>4 DEF TotalNumberOfMhFiles, SumFunction
  <2>9. ExpectedNumberOfMhFilesPerBlock(hist) = N
    BY <2>1, <2>3 DEF Regular, AddsUp, ExpectedNumberOfMhFilesPerBlock
  <2>10. N * NumberOfBlocks \in Int
    BY Constants
  <2> QED
    BY <2>7, <2>8, <2>9, <2>10 DEF RecoverRequired
<1> QED
  BY <1>1, <1>2 DEF SessionsFindTheirFiles

\* What a session that loads or recovers does to the files.
LEMMA RKept ==
  ASSUME RInv, [Next]_vars
  PROVE  /\ pc' # "new" =>
                \A b \in Block : \A f \in DOMAIN mh[b] : f \in DOMAIN mh'[b] /\ mh'[b][f] = mh[b][f]
         /\ mode = "recover" => \A b \in Block : IsComplete(b) => mh'[b] = mh[b]
<1>1. CASE mh' = mh
  BY <1>1
<1>2. CASE \E n \in NewReplics : StartNew(n)
  <2>1. pc = "off" /\ pc' = "new"
    BY <1>2 DEF StartNew
  <2> QED
    BY <2>1 DEF RInv, RType
<1>3. CASE SaveFile
  <2>1. pc = "write"
    BY <1>3 DEF SaveFile
  <2>2. PICK c \in [Block -> 0..hist.lastFile] : CoreRepairs(c)
    BY <2>1, CoreOfInvariant
  <2>3. PICK a \in Block : a = blk /\ FillsNext(c[a])
    BY <2>1, <2>2 DEF CoreRepairs, Runs2, NoMore
  <2>4. c[a] \in Nat /\ NumberOfMhFiles(a) = c[a] /\ DOMAIN mh[a] = 1..c[a] /\ hist.lastFile \in Nat
    BY <2>2, CoreFacts
  <2>5. newFile[a] = c[a] + 1 /\ c[a] < hist.lastFile
    BY <2>3 DEF FillsNext
  <2>6. PICK file : mh' = [mh EXCEPT ![a] = Written(@, newFile[a], file)]
    BY <1>3, <2>3 DEF SaveFile
  <2>7. DOMAIN mh = Block
    BY DEF RInv, RType
  <2>8. \A b \in Block : b # a => mh'[b] = mh[b]
    BY <2>6, <2>7
  <2>9. mh'[a] = Written(mh[a], c[a] + 1, file)
    BY <2>5, <2>6, <2>7
  <2>10. ASSUME NEW f \in DOMAIN mh[a] PROVE f \in DOMAIN mh'[a] /\ mh'[a][f] = mh[a][f]
    <3>1. f # c[a] + 1
      BY <2>4
    <3> QED
      BY <2>9, <3>1 DEF Written
  <2>11. ~IsComplete(a)
    <3>1. SameSessions(rec, hist)
      BY <2>2, CoreFacts
    <3>2. ExpectedNumberOfMhFilesPerBlock(rec) = ExpectedNumberOfMhFilesPerBlock(hist)
      BY <3>1 DEF SameSessions, ExpectedNumberOfMhFilesPerBlock, FilesOfSessions
    <3>3. ExpectedNumberOfMhFilesPerBlock(hist) = hist.lastFile
      BY <2>2, CoreFacts DEF Regular, AddsUp, ExpectedNumberOfMhFilesPerBlock
    <3> QED
      BY <2>4, <2>5, <3>2, <3>3 DEF IsComplete
  <2> QED
    BY <2>8, <2>10, <2>11
<1>4. CASE Next /\ ~SaveFile /\ ~(\E n \in NewReplics : StartNew(n))
  <2>1. mh' = mh
    BY <1>4 DEF Next, Load, StartRecover, Crash, Session, WriteRecord, RecoverCrashedBlock,
       RecoverCompleteBlock, RecoverFails, RecoverEnd, EnterCore, OpenOldFile, OpenNewFile,
       ResumeTmp, OpenFails, Draw, DeleteTmp, EndBlock, Conclude, disk
  <2> QED
    BY <1>1, <2>1
<1>5. CASE UNCHANGED vars
  BY <1>1, <1>5 DEF vars, disk
<1> QED
  BY <1>2, <1>3, <1>4, <1>5

\* Whatever crashes and is recovered, the saved draws are those of the chain that
\* nothing disturbs: no recovery leaves rows of zeros, repeats draws or goes on
\* with the wrong draw or state of the generator.
THEOREM RecoversTheChain == RecoveryIsMeantFor /\ Spec => []SavedDrawsAreTheChain
<1>1. RecoveryInvariant => SavedDrawsAreTheChain
  BY LinesAreTheChain DEF RecoveryInvariant
<1> QED
  BY <1>1, RecoveryInvariance, PTL

\* A record that says the MCMC concluded is complete, after any crashes and
\* recoveries.
THEOREM RecoversToTheEnd == RecoveryIsMeantFor /\ Spec => []ConcludedIsComplete
<1>1. RecoveryInvariant => ConcludedIsComplete
  BY ConcludedAfterRepairs DEF RecoveryInvariant
<1> QED
  BY <1>1, RecoveryInvariance, PTL

\* A crash that leaves draws to be made is noticed by mh_recover, and a session
\* that adds draws has the files of those before it.
THEOREM CrashesAreNoticed == RecoveryIsMeantFor /\ Spec => []SessionsFindTheirFiles
<1>1. RecoveryInvariant => SessionsFindTheirFiles
  BY SessionsFind DEF RecoveryInvariant
<1> QED
  BY <1>1, RecoveryInvariance, PTL

\* No session but a new MCMC changes a saved line, and a recovery leaves the
\* chains alone that have all their files.
THEOREM RecoveryKeepsDraws == RecoveryIsMeantFor /\ Spec => SavedDrawsAreKept
<1> DEFINE A == /\ pc' # "new" =>
                       \A b \in Block : \A f \in DOMAIN mh[b] :
                           /\ f \in DOMAIN mh'[b]
                           /\ Len(mh[b][f].x) <= Len(mh'[b][f].x)
                           /\ \A l \in DOMAIN mh[b][f].x : mh'[b][f].x[l] = mh[b][f].x[l]
                /\ mode = "recover" => \A b \in Block : IsComplete(b) => mh'[b] = mh[b]
<1>1. ASSUME RecoveryInvariant, [Next]_vars PROVE [A]_vars
  <2>1. \A b \in Block : \A f \in DOMAIN mh[b] : Len(mh[b][f].x) \in Nat
    BY <1>1, LinesAreTheChain DEF RecoveryInvariant
  <2>2. /\ pc' # "new" =>
               \A b \in Block : \A f \in DOMAIN mh[b] : f \in DOMAIN mh'[b] /\ mh'[b][f] = mh[b][f]
        /\ mode = "recover" => \A b \in Block : IsComplete(b) => mh'[b] = mh[b]
    BY <1>1, RKept DEF RecoveryInvariant
  <2>3. ASSUME pc' # "new", NEW b \in Block, NEW f \in DOMAIN mh[b]
        PROVE  /\ f \in DOMAIN mh'[b]
               /\ Len(mh[b][f].x) <= Len(mh'[b][f].x)
               /\ \A l \in DOMAIN mh[b][f].x : mh'[b][f].x[l] = mh[b][f].x[l]
    BY <2>1, <2>2, <2>3
  <2> QED
    BY <2>2, <2>3
<1>2. RecoveryIsMeantFor /\ Spec => [][A]_vars
  BY <1>1, RecoveryInvariance, PTL DEF Spec
<1> QED
  BY <1>2 DEF SavedDrawsAreKept
=============================================================================

-------------------------- MODULE PosteriorSampler --------------------------
(***************************************************************************)
(* The sessions of the MCMC posterior sampler and the files they leave in  *)
(* the metropolis directory: a new MCMC, one that adds to the previous one *)
(* (load_mh_file) and one that repairs a crashed one (mh_recover), with a  *)
(* crash between any two steps. The blocks (chains) are run one after the  *)
(* other, as without the parallel option.                                  *)
(*                                                                         *)
(* On disk:                                                                *)
(*    <fname>_mh_history_<i>.mat      the last one                   hist  *)
(*    <fname>_mh<f>_blck<b>.mat       draws and rng states       mh[b][f]  *)
(*    <fname>_mh_tmp_blck<b>.mat      the file being filled        tmp[b]  *)
(*                                                                         *)
(* A draw is a function of the previous draw and of the state of the       *)
(* random number generator. The draws of a block that nothing disturbs are *)
(* numbered 1, 2, 3..., from the initial value 0, and so are the states of *)
(* the generator: draw k + 1 is what draw k and state k give. Any other    *)
(* pair gives a draw that is not on that chain.                            *)
(*                                                                         *)
(* An operator M_... is a wrong version of the one after it, with which    *)
(* TLC has to find a property violated; the specification does not use it. *)
(***************************************************************************)
EXTENDS Integers, Sequences, FiniteSetsExt, Functions

CONSTANTS
    NumberOfBlocks,   \* options_.mh_nblck
    MAX_nruns,        \* lines of a full file
    NewReplics,       \* the values of mh_replic of a new MCMC
    LoadReplics,      \* the values of mh_replic with load_mh_file
    save_tmp_file,    \* sampler_options.save_tmp_file
    RefreshRate,      \* draws between two saves of the temporary file
    CrashIn,          \* the values of pc at which a session may crash
    MaxSessions,      \* bound on the sessions that are not recoveries
    MaxRecoveries,    \* bound on the recoveries
    MaxCrashes        \* bound on the crashes

ASSUME BlocksAssumption == NumberOfBlocks \in Nat \ {0}
ASSUME MaxRunsAssumption == MAX_nruns \in Nat \ {0}
ASSUME ReplicsAssumption == NewReplics \cup LoadReplics \subseteq Nat \ {0}
ASSUME TmpAssumption == save_tmp_file \in BOOLEAN /\ RefreshRate \in Nat \ {0}
ASSUME BoundsAssumption == {MaxSessions, MaxRecoveries, MaxCrashes} \subseteq Nat

VARIABLES
    hist, mh, tmp,        \* the files, see above
    pc, mode,             \* where the session is, and which kind it is of
    blk,                  \* curr_block
    newFile, fline,       \* NewFile, FirstLine: where each block goes on
    nruns,                \* the draws each block still has to make
    size,                 \* InitSizeArray: lines of the file being filled
    last,                 \* last_draw of each block
    rec,                  \* record, the copy in memory
    rng,                  \* the state of the random number generator
    x2, seeds,            \* the file being filled and its LastSeeds
    iter, idx,            \* draw_iter, draw_index_current_file
    neval,                \* columns of neval_this_chain
    sessions, recoveries, crashes    \* counters for the bounds

disk == <<hist, mh, tmp>>
plan == <<newFile, fline, nruns, last>>
chain == <<rng, x2, seeds, iter, idx, neval>>
bounds == <<sessions, recoveries, crashes>>
vars == <<disk, pc, mode, blk, plan, size, rec, chain, bounds>>

Block == 1..NumberOfBlocks
Zero == -1          \* a row of zeros
OffChain == -2      \* a draw the undisturbed chain does not have
Draws == Nat \cup {Zero, OffChain}
Zeros(n) == [i \in 1..n |-> Zero]
NoFiles == [f \in {} |-> 0]
All(v) == [b \in Block |-> v]
NoHistory == [concluded |-> FALSE, mhDraws |-> << >>, lastFile |-> 0, lastLine |-> 0,
              initialSeeds |-> All(0), lastSeeds |-> All(0), lastPar |-> All(Zero)]
NoTmp == [x |-> << >>, seeds |-> NoFiles, neval |-> 0]

CeilDiv(a, b) == (a + b - 1) \div b

\* x2(i,:) = d: a matrix grows when a row beyond its end is assigned.
SetRow(x, i, d) ==
    [k \in 1..Max({i, Len(x)}) |->
        IF k = i THEN d ELSE IF k \in DOMAIN x THEN x[k] ELSE Zero]

\* Field or file k is given the value v, whether there was one before or not.
Written(f, k, v) == [i \in {k} \cup DOMAIN f |-> IF i = k THEN v ELSE f[i]]

\* sum(record.MhDraws(1:n,2),1): the files of the first n sessions.
FilesOfSessions(h, n) == SumFunction([i \in 1..n |-> h.mhDraws[i].files])

M_FilesOfLastSession(h) == h.mhDraws[Len(h.mhDraws)].files
ExpectedNumberOfMhFilesPerBlock(h) == FilesOfSessions(h, Len(h.mhDraws))

NumberOfMhFiles(b) == Cardinality(DOMAIN mh[b])

TotalNumberOfMhFiles == SumFunction([b \in Block |-> NumberOfMhFiles(b)])

\* Records, files of draws and temporary files keep their types, and lines and
\* files stay where the record says.
TypeOK ==
    LET IsRecord(h) ==
            /\ h.concluded \in BOOLEAN
            /\ h.mhDraws \in Seq([n : Nat, files : Nat, lines : 1..MAX_nruns])
            /\ h.lastFile \in Nat
            /\ h.lastLine \in 0..MAX_nruns
            /\ h.initialSeeds \in [Block -> Nat]
            /\ h.lastSeeds \in [Block -> Nat]
            /\ h.lastPar \in [Block -> Draws]
    IN  /\ IsRecord(hist) /\ IsRecord(rec)
        /\ pc \in {"off", "new", "recover", "core", "block", "draw", "full", "write"}
        /\ mode \in {"new", "load", "recover"}
        /\ \A b \in Block : \A f \in DOMAIN mh[b] : f \in Nat \ {0} /\ mh[b][f].x \in Seq(Draws)
        /\ \A b \in Block : tmp[b].x \in Seq(Draws)
        /\ blk \in 1..(NumberOfBlocks + 1)
        /\ newFile \in [Block -> Nat] /\ fline \in [Block -> 1..MAX_nruns]
        /\ nruns \in [Block -> Int] /\ size \in [Block -> Int]
        /\ last \in [Block -> Draws]
        /\ rng \in Nat /\ x2 \in Seq(Draws)
        /\ iter \in Nat /\ idx \in Nat /\ neval \in Nat
        /\ sessions \in 0..MaxSessions
        /\ recoveries \in 0..MaxRecoveries
        /\ crashes \in 0..MaxCrashes

Init ==
    /\ hist = NoHistory /\ mh = All(NoFiles) /\ tmp = All(NoTmp)
    /\ pc = "off"
    /\ mode = "new" /\ blk = 1
    /\ newFile = All(1) /\ fline = All(1) /\ nruns = All(0) /\ last = All(0)
    /\ size = All(0) /\ rec = NoHistory
    /\ rng = 0 /\ x2 = << >> /\ seeds = NoFiles /\ iter = 1 /\ idx = 1 /\ neval = 0
    /\ sessions = 0 /\ recoveries = 0 /\ crashes = 0

\* The session is over; its memory is lost.
Leave ==
    /\ pc' = "off"
    /\ mode' = "new" /\ blk' = 1
    /\ newFile' = All(1) /\ fline' = All(1) /\ nruns' = All(0) /\ last' = All(0)
    /\ size' = All(0) /\ rec' = NoHistory
    /\ rng' = 0 /\ x2' = << >> /\ seeds' = NoFiles /\ iter' = 1 /\ idx' = 1 /\ neval' = 0

-----------------------------------------------------------------------------
(* posterior_sampler_initialization: a new MCMC *)

\* The draws of earlier sessions are erased first, before the initial values
\* are drawn.
StartNew(n) ==
    /\ pc = "off"
    /\ sessions < MaxSessions
    /\ sessions' = sessions + 1
    /\ pc' = "new"
    /\ mode' = "new"
    /\ mh' = All(NoFiles)
    /\ tmp' = All(NoTmp)
    /\ nruns' = All(n)
    /\ UNCHANGED <<hist, blk, newFile, fline, last, size, rec, chain, recoveries, crashes>>

\* What record says a session of n draws will leave behind, toBeSaved of them
\* in files that follow those of h.
Anticipate(h, n, toBeSaved) ==
    LET files == CeilDiv(toBeSaved, MAX_nruns)
        lines == toBeSaved - (files - 1) * MAX_nruns
    IN  [h EXCEPT !.concluded = FALSE,
                  !.mhDraws = Append(@, [n |-> n, files |-> files, lines |-> lines]),
                  !.lastFile = @ + files,
                  !.lastLine = lines]

\* The history files go last, and are replaced by that of this session.
WriteRecord ==
    /\ pc = "new"
    /\ pc' = "core"
    /\ hist' = Anticipate(NoHistory, nruns[1], nruns[1])
    /\ newFile' = All(1) /\ fline' = All(1) /\ last' = All(0)
    /\ UNCHANGED <<mh, tmp, mode, blk, nruns, size, rec, chain, bounds>>

-----------------------------------------------------------------------------
(* posterior_sampler_initialization: load_mh_file *)

\* The record of an MCMC that did not finish is refused.
CanLoad == hist.mhDraws # << >> /\ hist.concluded

\* The last file of the previous session is not full.
LastFileHasRoom(h) == h.lastLine < MAX_nruns

\* That no mh file exists would be an error too, but the history file matches
\* the pattern they are looked for with.
Load(n) ==
    /\ pc = "off"
    /\ sessions < MaxSessions
    /\ sessions' = sessions + 1
    /\ CanLoad
    /\ pc' = "core"
    /\ mode' = "load"
    /\ nruns' = All(n)
    /\ last' = hist.lastPar
    /\ IF LastFileHasRoom(hist)
       THEN newFile' = All(hist.lastFile) /\ fline' = All(hist.lastLine + 1)
       ELSE newFile' = All(hist.lastFile + 1) /\ fline' = All(1)
    /\ hist' = [Anticipate(hist, n, n - (MAX_nruns - hist.lastLine))
                   EXCEPT !.initialSeeds = hist.lastSeeds]
    /\ UNCHANGED <<mh, tmp, blk, size, rec, chain, recoveries, crashes>>

-----------------------------------------------------------------------------
(* posterior_sampler_initialization: mh_recover *)

\* The sessions before the one that crashed.
PreviousSessions(h) == Len(h.mhDraws) - 1
LastFileNumberInThePreviousMh(h) == FilesOfSessions(h, PreviousSessions(h))
LastLineNumberInThePreviousMh(h) ==
    IF PreviousSessions(h) = 0 THEN 0 ELSE h.mhDraws[PreviousSessions(h)].lines
LastFileFullIndicator(h) ==
    PreviousSessions(h) = 0 \/ LastLineNumberInThePreviousMh(h) >= MAX_nruns

\* There are not as many files as expected.
RecoverRequired ==
    TotalNumberOfMhFiles # ExpectedNumberOfMhFilesPerBlock(hist) * NumberOfBlocks

\* As if the whole last session had to be redone.
StartRecover ==
    /\ pc = "off"
    /\ recoveries < MaxRecoveries
    /\ recoveries' = recoveries + 1
    /\ hist.mhDraws # << >>
    /\ RecoverRequired
    /\ pc' = "recover"
    /\ mode' = "recover"
    /\ blk' = 1
    /\ rec' = hist
    /\ nruns' = All(hist.mhDraws[Len(hist.mhDraws)].n)
    /\ last' = IF PreviousSessions(hist) = 0 THEN All(0) ELSE hist.lastPar
    /\ IF LastFileFullIndicator(hist)
       THEN newFile' = All(LastFileNumberInThePreviousMh(hist) + 1) /\ fline' = All(1)
       ELSE /\ newFile' = All(LastFileNumberInThePreviousMh(hist))
            /\ fline' = All(LastLineNumberInThePreviousMh(hist) + 1)
    /\ UNCHANGED <<disk, size, chain, sessions, crashes>>

IsComplete(b) == NumberOfMhFiles(b) >= ExpectedNumberOfMhFilesPerBlock(rec)

\* The last draw of a file and the state of the generator after it.
LastDraw(b, f) == mh[b][f].x[Len(mh[b][f].x)]
SeedAfter(b, f) == mh[b][f].seeds[f]

\* The last saved file is the one the session starts with, and is full.
M_NeverMovesOn(b) == FALSE
MovesOn(b) ==
    /\ NumberOfMhFiles(b) = newFile[b]
    /\ LastFileFullIndicator(rec) \/ Len(mh[b][newFile[b]].x) = MAX_nruns

ExistingDrawsInLastMCFile(b) ==
    IF MovesOn(b) /\ ~LastFileFullIndicator(rec)
    THEN MAX_nruns - LastLineNumberInThePreviousMh(rec) ELSE 0

\* The draws block b still has to make.
RunsLeft(b) ==
    CASE IsComplete(b) -> 0
      [] NumberOfMhFiles(b) > 0 /\ ~IsComplete(b) ->
            nruns[b] - ExistingDrawsInLastMCFile(b)
            - (NumberOfMhFiles(b) - LastFileNumberInThePreviousMh(rec)) * MAX_nruns
      [] OTHER -> nruns[b]

\* The chain goes on after its last saved file.
M_SeedIsNotReset(b) == rec
RecoveredRecord(b) == [rec EXCEPT !.initialSeeds[b] = SeedAfter(b, NumberOfMhFiles(b))]

RecoverCrashedBlock ==
    LET saved == NumberOfMhFiles(blk)
    IN  /\ pc = "recover" /\ blk \in Block
        /\ ~IsComplete(blk)
        /\ saved = 0 \/ saved \in DOMAIN mh[blk]
        /\ newFile' = IF MovesOn(blk) THEN [newFile EXCEPT ![blk] = @ + 1] ELSE newFile
        /\ fline' = IF MovesOn(blk) THEN [fline EXCEPT ![blk] = 1] ELSE fline
        /\ nruns' = [nruns EXCEPT ![blk] = RunsLeft(blk)]
        /\ IF saved > 0
           THEN /\ last' = [last EXCEPT ![blk] = LastDraw(blk, saved)]
                /\ rec' = RecoveredRecord(blk)
                /\ hist' = rec'
           ELSE UNCHANGED <<last, rec, hist>>
        /\ blk' = blk + 1
        /\ UNCHANGED <<mh, tmp, pc, mode, size, chain, bounds>>

\* Nothing is left to do for a complete chain but to note where it ends.
RecoverCompleteBlock ==
    LET saved == ExpectedNumberOfMhFilesPerBlock(rec)
    IN  /\ pc = "recover" /\ blk \in Block
        /\ IsComplete(blk)
        /\ saved \in DOMAIN mh[blk]
        /\ last' = [last EXCEPT ![blk] = LastDraw(blk, saved)]
        /\ nruns' = [nruns EXCEPT ![blk] = RunsLeft(blk)]
        /\ rec' = [rec EXCEPT !.lastSeeds[blk] = SeedAfter(blk, saved),
                              !.lastPar[blk] = LastDraw(blk, saved)]
        /\ hist' = rec'
        /\ blk' = blk + 1
        /\ UNCHANGED <<mh, tmp, pc, mode, newFile, fline, size, chain, bounds>>

\* A file that has to be loaded does not exist.
RecoverFails ==
    /\ pc = "recover" /\ blk \in Block
    /\ IF IsComplete(blk) THEN ExpectedNumberOfMhFilesPerBlock(rec) \notin DOMAIN mh[blk]
       ELSE NumberOfMhFiles(blk) > 0 /\ NumberOfMhFiles(blk) \notin DOMAIN mh[blk]
    /\ Leave
    /\ UNCHANGED <<disk, bounds>>

RecoverEnd ==
    /\ pc = "recover" /\ blk = NumberOfBlocks + 1
    /\ pc' = "core"
    /\ UNCHANGED <<disk, mode, blk, plan, size, rec, chain, bounds>>

-----------------------------------------------------------------------------
(* posterior_sampler and posterior_sampler_core *)

\* The first block that has to be run, NumberOfBlocks + 1 if none has.
FirstBlock ==
    IF mode = "recover"
    THEN Min({b \in Block : ~IsComplete(b)} \cup {NumberOfBlocks + 1}) ELSE 1

EnterCore ==
    /\ pc = "core"
    /\ pc' = "block"
    /\ blk' = FirstBlock
    /\ size' = [b \in Block |-> Min({MAX_nruns, fline[b] + nruns[b] - 1})]
    /\ rec' = hist
    /\ neval' = 0
    /\ UNCHANGED <<disk, mode, plan, rng, x2, seeds, iter, idx, bounds>>

OpensOldFile == mode = "load" /\ fline[blk] > 1
ResumesTmp == ~OpensOldFile /\ mode = "recover" /\ tmp[blk] # NoTmp

\* The draws of this session follow those of the previous one in its last
\* file, which is loaded.
OpenOldFile ==
    /\ pc = "block" /\ blk \in Block
    /\ OpensOldFile
    /\ newFile[blk] \in DOMAIN mh[blk]
    /\ pc' = "draw"
    /\ rng' = rec.initialSeeds[blk]
    /\ x2' = mh[blk][newFile[blk]].x \o Zeros(size[blk] - fline[blk] + 1)
    /\ seeds' = mh[blk][newFile[blk]].seeds
    /\ iter' = 1
    /\ idx' = fline[blk]
    /\ UNCHANGED <<disk, mode, blk, plan, size, rec, neval, bounds>>

OpenNewFile ==
    /\ pc = "block" /\ blk \in Block
    /\ ~OpensOldFile /\ ~ResumesTmp
    /\ pc' = "draw"
    /\ rng' = rec.initialSeeds[blk]
    /\ x2' = Zeros(size[blk])
    /\ seeds' = NoFiles
    /\ iter' = 1
    /\ idx' = fline[blk]
    /\ UNCHANGED <<disk, mode, blk, plan, size, rec, neval, bounds>>

\* The draws made so far are counted by the columns of neval_this_chain.
ResumeAt(t) == t.neval + 1

M_ResumesWithInitialSeed(t) == rec.initialSeeds[blk]
ResumeSeed(t) == t.seeds[newFile[blk]]

ResumeTmp ==
    /\ pc = "block" /\ blk \in Block
    /\ ResumesTmp
    /\ tmp[blk].neval <= Len(tmp[blk].x)
    /\ newFile[blk] \in DOMAIN tmp[blk].seeds
    /\ pc' = "draw"
    /\ x2' = tmp[blk].x
    /\ seeds' = tmp[blk].seeds
    /\ neval' = tmp[blk].neval
    /\ iter' = ResumeAt(tmp[blk])
    /\ idx' = ResumeAt(tmp[blk])
    /\ rng' = ResumeSeed(tmp[blk])
    /\ last' = [last EXCEPT ![blk] = x2'[neval']]
    /\ UNCHANGED <<disk, mode, blk, newFile, fline, nruns, size, rec, bounds>>

\* No such file, no such row of x2, or no such field of LastSeeds.
OpenFails ==
    /\ pc = "block" /\ blk \in Block
    /\ \/ OpensOldFile /\ newFile[blk] \notin DOMAIN mh[blk]
       \/ /\ ResumesTmp
          /\ tmp[blk].neval > Len(tmp[blk].x) \/ newFile[blk] \notin DOMAIN tmp[blk].seeds
    /\ Leave
    /\ UNCHANGED <<disk, bounds>>

\* One iteration, up to the moment the file is full or the chain is done. The
\* temporary file is saved in it.
Draw ==
    LET par == IF last[blk] = rng THEN rng + 1 ELSE OffChain
        isFull == idx = size[blk] \/ iter = nruns[blk]
        savesTmp == save_tmp_file /\ iter % RefreshRate = 0
    IN  /\ pc = "draw"
        /\ iter <= nruns[blk]
        /\ x2' = SetRow(x2, idx, par)
        /\ last' = [last EXCEPT ![blk] = par]
        /\ rng' = rng + 1
        /\ neval' = Max({neval, iter})
        /\ IF savesTmp
           THEN /\ seeds' = Written(seeds, newFile[blk], rng')
                /\ tmp' = [tmp EXCEPT ![blk] = [x |-> x2', seeds |-> seeds', neval |-> neval']]
           ELSE UNCHANGED <<seeds, tmp>>
        /\ IF isFull
           THEN pc' = (IF save_tmp_file THEN "full" ELSE "write") /\ UNCHANGED <<iter, idx>>
           ELSE iter' = iter + 1 /\ idx' = idx + 1 /\ UNCHANGED pc
        /\ UNCHANGED <<hist, mh, mode, blk, newFile, fline, nruns, size, rec, bounds>>

DeleteTmp ==
    /\ pc = "full"
    /\ pc' = "write"
    /\ tmp' = [tmp EXCEPT ![blk] = NoTmp]
    /\ UNCHANGED <<hist, mh, mode, blk, plan, size, rec, chain, bounds>>

\* The file is saved, and the next one is begun if draws are left to make.
SaveFile ==
    LET next == Min({nruns[blk] - iter, MAX_nruns})
    IN  /\ pc = "write"
        /\ pc' = "draw"
        /\ seeds' = Written(seeds, newFile[blk], rng)
        /\ mh' = [mh EXCEPT ![blk] = Written(@, newFile[blk], [x |-> x2, seeds |-> seeds'])]
        /\ rec' = IF iter = nruns[blk] THEN [rec EXCEPT !.lastPar[blk] = x2[Len(x2)]] ELSE rec
        /\ size' = [size EXCEPT ![blk] = next]
        /\ iter' = iter + 1
        /\ IF next # 0
           THEN /\ x2' = Zeros(next)
                /\ newFile' = [newFile EXCEPT ![blk] = @ + 1]
                /\ idx' = 1
           ELSE idx' = idx + 1 /\ UNCHANGED <<x2, newFile>>
        /\ UNCHANGED <<hist, tmp, mode, blk, fline, nruns, last, rng, neval, bounds>>

\* The loop over the draws of this block is over.
M_EndsOnlyAfterASave == iter > nruns[blk] /\ size[blk] = 0
IsDone == iter > nruns[blk]

M_SeedsAreNotKept == rec
RecordAtTheEnd == IF nruns[blk] # 0 THEN [rec EXCEPT !.lastSeeds[blk] = rng] ELSE rec

EndBlock ==
    /\ pc = "draw"
    /\ IsDone
    /\ pc' = "block"
    /\ blk' = blk + 1
    /\ rec' = RecordAtTheEnd
    /\ UNCHANGED <<disk, mode, plan, size, chain, bounds>>

M_RecordOfTheCoreIsLost == [hist EXCEPT !.concluded = TRUE]
ConcludedRecord == [rec EXCEPT !.concluded = TRUE]

Conclude ==
    /\ pc = "block" /\ blk = NumberOfBlocks + 1
    /\ hist' = ConcludedRecord
    /\ Leave
    /\ UNCHANGED <<mh, tmp, bounds>>

-----------------------------------------------------------------------------
\* The process dies, or the user interrupts it.
Crash ==
    /\ pc \in CrashIn
    /\ crashes < MaxCrashes
    /\ crashes' = crashes + 1
    /\ Leave
    /\ UNCHANGED <<disk, sessions, recoveries>>

Session ==
    \/ WriteRecord
    \/ RecoverCrashedBlock \/ RecoverCompleteBlock \/ RecoverFails \/ RecoverEnd
    \/ EnterCore \/ OpenOldFile \/ OpenNewFile \/ ResumeTmp \/ OpenFails
    \/ Draw \/ DeleteTmp \/ SaveFile \/ EndBlock \/ Conclude

Next ==
    \/ \E n \in NewReplics : StartNew(n)
    \/ \E n \in LoadReplics : Load(n)
    \/ StartRecover
    \/ Session
    \/ Crash

Spec == Init /\ [][Next]_vars

\* A session that was started goes on.
FairSpec == Spec /\ WF_vars(Session)

-----------------------------------------------------------------------------
(* What makes it correct *)

\* Line l of file f of any block holds the draw the undisturbed chain has
\* there: neither a continuation nor a recovery leaves rows of zeros, puts
\* draws in the wrong place, repeats them or restarts with the wrong state of
\* the generator.
SavedDrawsAreTheChain ==
    \A b \in Block : \A f \in DOMAIN mh[b] : \A l \in DOMAIN mh[b][f].x :
        mh[b][f].x[l] = (f - 1) * MAX_nruns + l

\* The draws all sessions of a record were asked for.
DrawsAsked(h) == SumFunction([i \in DOMAIN h.mhDraws |-> h.mhDraws[i].n])

\* The draws the files of a block hold.
DrawsSaved(b) == SumFunction([f \in DOMAIN mh[b] |-> Len(mh[b][f].x)])

\* When the record says that the MCMC concluded successfully, the files it
\* announces are there, they hold all the draws asked for, and the record
\* knows where each chain ends.
ConcludedIsComplete ==
    pc = "off" /\ hist.concluded =>
        \A b \in Block :
            /\ DOMAIN mh[b] = 1..hist.lastFile
            /\ DrawsSaved(b) = DrawsAsked(hist)
            /\ Len(mh[b][hist.lastFile].x) = hist.lastLine
            /\ hist.lastPar[b] = LastDraw(b, hist.lastFile)
            /\ hist.lastSeeds[b] = SeedAfter(b, hist.lastFile)

\* A crash that left draws to be made can be recovered from.
CrashedIsRecoverable ==
    pc = "off" /\ hist.mhDraws # << >> /\ ~hist.concluded
               /\ (\E b \in Block : DrawsSaved(b) < DrawsAsked(hist))
        => RecoverRequired

\* Only a new MCMC discards draws: a session that loads or recovers leaves
\* every file as it is, or adds lines to it. A recovery does not touch a chain
\* that has all its files, however many of the other chains it has to repair
\* and however often it crashes itself.
SavedDrawsAreKept ==
    [][/\ pc' # "new" =>
              \A b \in Block : \A f \in DOMAIN mh[b] :
                  /\ f \in DOMAIN mh'[b]
                  /\ Len(mh[b][f].x) <= Len(mh'[b][f].x)
                  /\ \A l \in DOMAIN mh[b][f].x : mh'[b][f].x[l] = mh[b][f].x[l]
       /\ mode = "recover" => \A b \in Block : IsComplete(b) => mh'[b] = mh[b]]_vars

\* Without a crash, sessions that load the previous ones go on exactly where
\* these ended, be it at the end of a file or inside one.
LoadGoesOn == crashes = 0 => SavedDrawsAreTheChain /\ ConcludedIsComplete

\* The files of the sessions before it are there when load_mh_file adds to them.
LoadedDrawsExist ==
    mode = "load" => \A b \in Block : 1..LastFileNumberInThePreviousMh(hist) \subseteq DOMAIN mh[b]

\* A session finds what it needs: one that goes on the files it adds to, and a
\* recovery, after any crash, a state it takes for a crashed one.
SessionsFindTheirFiles == CrashedIsRecoverable /\ LoadedDrawsExist

\* A recovery that resumes the first file of the first block from its temporary
\* file has the draws saved in it, and those only, in their lines, and goes on
\* with the line, the draw and the state of the generator that come next.
TmpIsResumedExactly ==
    [][pc = "block" /\ pc' = "draw" /\ mode = "recover" /\ tmp[blk] # NoTmp
           /\ blk = 1 /\ newFile[blk] = 1 /\ fline[blk] = 1
       => /\ \A l \in DOMAIN x2' : x2'[l] = IF l < idx' THEN l ELSE Zero
          /\ last'[blk] = idx' - 1
          /\ rng' = idx' - 1]_vars

\* A session ends, concluded or not.
EverySessionEnds == (pc # "off") ~> (pc = "off")
=============================================================================

--------------------------- MODULE CheckpointProofs ---------------------------
(***************************************************************************)
(* Restart files and frames, on any number of ranks, for any time steps,   *)
(* distance between checkpoints and number of runs that die anywhere.      *)
(*                                                                         *)
(* Two invariants.  WriterInv says where the ranks are and which files a   *)
(* run has written, whatever they hold; ContentInv, for steps of one size, *)
(* what is in the files, in memory and among the frames, unless it goes    *)
(* back to a file torn by a death.                                         *)
(***************************************************************************)
EXTENDS Checkpoint, FiniteSetTheorems, TLAPS

(* The files of the current checkpoint that rank r has closed.             *)
Closed(r) ==
  IF pc[r] \in {"solve", "done"} THEN Kinds
  ELSE IF pc[r] \in {"udg", "udg_open"} THEN {}
  ELSE IF pc[r] \in {"uhat", "uhat_open"} THEN {"udg", "wdg"}
  ELSE {"udg"}

(* A run continues a checkpoint that an earlier run had the steps for, and *)
(* a rank saves only after a step.                                         *)
RunNumbers ==
  job = "up" => runs >= 1 /\ timestepOffset <= tsteps * (runs - 1)

RankSteps ==
  job = "up" =>
    \A r \in Rank : /\ pc[r] = "solve" => currentstep + 1 < tsteps
                    /\ pc[r] # "solve" => currentstep >= 0
                    /\ udgavg[r] <= currentstep + 1

(* A run has no more steps than tsteps, which bounds the numbers of files. *)
FileNumbers ==
  \A r \in Rank, k \in Kinds, n \in Number :
    files[r][k][n] # absent => n <= tsteps * runs

(* The checkpoints of this run are whole, the last one as far as the rank  *)
(* has come.                                                               *)
CheckpointsWritten ==
  job = "up" =>
    \A r \in Rank, k \in Kinds, n \in Number :
      /\ timestepOffset < n /\ n <= CheckpointNumber
      /\ (n - timestepOffset) % saveRestart = 0
      /\ n = CheckpointNumber => k \in Closed(r)
      => files[r][k][n].is = "whole"

NoAverageRead == \A r \in Rank : avgfiles[r]["avg_np"] = absent

WriterInv ==
  /\ TypeOK
  /\ RunNumbers /\ RankSteps
  /\ FileNumbers /\ CheckpointsWritten
  /\ NoAverageRead

-----------------------------------------------------------------------------
(* What a clean solution is: it does not go back to a torn file.           *)
OneSize == \A j \in DOMAIN Dt : Dt[j] = Dt[1]

Clean(s) == ~IsPrefix(Garbage, s)

(* L steps of the one size.                                                *)
Solution(s, L) == Len(s) = L /\ \A j \in 1 .. L : s[j] = Dt[1]

FilesHoldTheirNumber ==
  \A r \in Rank, k \in Kinds, n \in Number :
    files[r][k][n].is = "whole" /\ Clean(files[r][k][n].content)
      => Solution(files[r][k][n].content, n)

MemoryContinues ==
  job = "up" =>
    /\ \A r \in Rank, k \in Kinds :
         Clean(mem[r][k]) => Solution(mem[r][k], timestepOffset + currentstep + 1)
    /\ time = (timestepOffset + currentstep + 1) * Dt[1]

(* The frames are those of a run from step o.                              *)
FramesFrom(o) ==
  \A r \in Rank : \A j \in 1 .. Len(frames[r]) :
    Clean(frames[r][j]) => Solution(frames[r][j], o + j * saveSolFreq)

FramesWritten ==
  /\ \E o \in Nat : FramesFrom(o)
  /\ job = "up" =>
       /\ FramesFrom(timestepOffset)
       /\ \A r \in Rank : Len(frames[r]) = (currentstep + 1) \div saveSolFreq

ContentInv ==
  /\ WriterInv
  /\ FilesHoldTheirNumber
  /\ MemoryContinues
  /\ FramesWritten

-----------------------------------------------------------------------------
(* The parameters.                                                         *)
LEMMA Parameters ==
  /\ tsteps \in Nat \ {0} /\ MaxRuns \in Nat /\ saveRestart \in Nat \ {0}
  /\ saveSolFreq \in Nat \ {0} /\ tsteps * MaxRuns \in Nat
  /\ \A j \in 1 .. tsteps : Dt[j] \in Nat \ {0} /\ Dt[j] \in {0} \cup ToSet(Dt)
  /\ Dt[1] \in Nat \ {0} /\ DOMAIN Dt = 1 .. tsteps
<1>1. Dt \in Seq(Nat \ {0}) /\ Dt # <<>> /\ MaxRuns \in Nat
  BY DtAssumption, MaxRunsAssumption
<1>2. tsteps \in Nat \ {0} /\ DOMAIN Dt = 1 .. tsteps
  BY <1>1 DEF tsteps
<1>3. \A j \in 1 .. tsteps : Dt[j] \in Nat \ {0}
  BY <1>1, <1>2 DEF tsteps
<1>4. \A j \in 1 .. tsteps : Dt[j] \in ToSet(Dt)
  BY <1>2 DEF ToSet
<1>5. 1 \in 1 .. tsteps
  BY <1>2
<1>6. tsteps * MaxRuns \in Nat
  BY <1>1, <1>2
<1> QED
  BY <1>1, <1>2, <1>3, <1>4, <1>5, <1>6, SaveRestartAssumption, SaveSolFreqAssumption

(* Numbers of a run do not exceed those of all runs.                       *)
LEMMA RunBound ==
  ASSUME NEW T \in Nat \ {0}, NEW n \in Nat, NEW M \in Nat, n <= M
  PROVE  /\ T * n \in Nat /\ T * n <= T * M
         /\ n >= 1 => T * (n - 1) + T = T * n
         /\ T * (n + 1) = T * n + T
  OBVIOUS

(* Between one state of a file and another.                                *)
LEMMA FileStates ==
  ASSUME NEW S, NEW f \in File(S)
  PROVE  /\ f.is \in {"absent", "torn", "whole"}
         /\ f = absent <=> f.is = "absent"
         /\ f.is = "whole" => f.content \in S
  BY DEF File, absent, torn

(* What can be written to a file.                                          *)
LEMMA NewFiles ==
  ASSUME NEW S
  PROVE  /\ absent \in File(S) /\ torn \in File(S) /\ torn # absent /\ torn.is = "torn"
         /\ \A x \in S : Holds(x) \in File(S)
         /\ \A x : Holds(x) # absent /\ Holds(x).is = "whole" /\ Holds(x).content = x
<1>1. absent \in File(S) /\ torn \in File(S)
  BY DEF File
<1>2. torn.is = "torn" /\ absent.is = "absent"
  BY DEF torn, absent
<1>3. \A x : Holds(x).is = "whole" /\ Holds(x).content = x
  BY DEF Holds
<1>4. \A x \in S : Holds(x) \in File(S)
  BY DEF Holds, File
<1> QED
  BY <1>1, <1>2, <1>3, <1>4

(* One file changes.                                                       *)
Written(F, r, k, n, f) == [F EXCEPT ![r][k][n] = f]
RestartFiles == [Rank -> [Kinds -> [Number -> File(Steps)]]]

LEMMA FileWritten ==
  ASSUME NEW F \in RestartFiles,
         NEW r \in Rank, NEW k \in Kinds, NEW n \in Number, NEW f \in File(Steps)
  PROVE  /\ Written(F, r, k, n, f) \in RestartFiles
         /\ \A q \in Rank, l \in Kinds, m \in Number :
              Written(F, r, k, n, f)[q][l][m] =
                IF q = r /\ l = k /\ m = n THEN f ELSE F[q][l][m]
<1> DEFINE S == File(Steps)
           g == [F[r][k] EXCEPT ![n] = f]
           h == [F[r] EXCEPT ![k] = g]
           G == [F EXCEPT ![r] = h]
<1>0. F \in [Rank -> [Kinds -> [Number -> S]]] /\ f \in S
  BY DEF RestartFiles
<1> HIDE DEF S
<1>1. g \in [Number -> S] /\ \A m \in Number : g[m] = IF m = n THEN f ELSE F[r][k][m]
  BY <1>0
<1>2. Written(F, r, k, n, f) = G
  BY Zenon DEF Written
<1> HIDE DEF g
<1>3. h \in [Kinds -> [Number -> S]] /\ \A l \in Kinds : h[l] = IF l = k THEN g ELSE F[r][l]
  BY <1>0, <1>1
<1> HIDE DEF h
<1>4. /\ G \in [Rank -> [Kinds -> [Number -> S]]]
      /\ \A q \in Rank : G[q] = IF q = r THEN h ELSE F[q]
  BY <1>0, <1>3
<1> HIDE DEF G
<1> QED
  BY <1>1, <1>2, <1>3, <1>4 DEF RestartFiles, S

(* A rank that saves does so under a number of its run, above the one it   *)
(* was restarted from.                                                     *)
LEMMA Saving ==
  ASSUME WriterInv, job = "up", currentstep >= 0
  PROVE  /\ CheckpointNumber \in Number /\ CheckpointNumber > timestepOffset
         /\ CheckpointNumber <= tsteps * runs
<1>1. /\ runs \in Nat /\ MaxRuns \in Nat /\ runs <= MaxRuns /\ runs >= 1
      /\ tsteps \in Nat \ {0} /\ timestepOffset \in Nat /\ currentstep \in Nat
      /\ currentstep <= tsteps - 1 /\ timestepOffset <= tsteps * (runs - 1)
  BY Parameters DEF WriterInv, TypeOK, RunNumbers, Number
<1>2. /\ tsteps * runs \in Nat /\ tsteps * runs <= tsteps * MaxRuns
      /\ tsteps * (runs - 1) + tsteps = tsteps * runs
  BY <1>1, RunBound
<1>3. tsteps * (runs - 1) \in Int /\ tsteps * MaxRuns \in Nat
  BY <1>1
<1>4. CheckpointNumber = currentstep + timestepOffset + 1
  BY DEF CheckpointNumber
<1>5. CheckpointNumber \in Nat /\ CheckpointNumber >= 1 /\ CheckpointNumber > timestepOffset
  BY <1>1, <1>4
<1>6. CheckpointNumber <= tsteps * runs
  BY <1>1, <1>2, <1>3, <1>4
<1> QED
  BY <1>2, <1>3, <1>5, <1>6 DEF Number

-----------------------------------------------------------------------------
(* Nothing is written before the first run.                                *)
LEMMA WriterInit == Init => WriterInv
<1> SUFFICES ASSUME Init PROVE WriterInv
  OBVIOUS
<1> USE Parameters, NewFiles DEF Init
<1>1. TypeOK
  <2>1. <<>> \in Steps /\ InMemory \in [Kinds -> Steps]
    BY DEF Steps, InMemory
  <2>2. files \in [Rank -> [Kinds -> [Number -> File(Steps)]]]
    OBVIOUS
  <2>3. avgfiles \in [Rank -> [{"avg_np", "solavg_np"} -> File(0 .. tsteps * MaxRuns)]]
    OBVIOUS
  <2>4. -1 \in -1 .. tsteps - 1 /\ 0 \in 0 .. MaxRuns
    OBVIOUS
  <2> QED
    BY <2>1, <2>2, <2>3, <2>4 DEF TypeOK
<1>2. RunNumbers /\ RankSteps /\ CheckpointsWritten /\ NoAverageRead
  BY DEF RunNumbers, RankSteps, CheckpointsWritten, NoAverageRead
<1>3. FileNumbers
  BY DEF FileNumbers
<1> QED
  BY <1>1, <1>2, <1>3 DEF WriterInv

(* What a read gives is a sequence of steps.                               *)
LEMMA ReadType ==
  ASSUME TypeOK, NEW r \in Rank, NEW k \in Kinds, NEW n \in Number
  PROVE  ReadBack(r, k, n) \in Steps
<1>1. files[r][k][n] \in File(Steps)
  BY DEF TypeOK
<1>2. Garbage \in Steps
  BY DEF Garbage, Steps
<1> QED
  BY <1>1, <1>2, FileStates DEF ReadBack, Content

(* A run that starts has a file for every rank, or ends at once.           *)
LEMMA WriterStart ==
  ASSUME WriterInv, NEW n \in {0} \cup Number, Start(n)
  PROVE  WriterInv'
<1>1. /\ TypeOK /\ runs \in Nat /\ runs + 1 <= MaxRuns /\ MaxRuns \in Nat
      /\ tsteps \in Nat \ {0} /\ n \in Nat
  BY Parameters DEF WriterInv, TypeOK, Start, Number
<1>2. /\ runs' = runs + 1 /\ timestepOffset' = n /\ currentstep' = -1
      /\ UNCHANGED <<files, avgfiles>>
  BY DEF Start, OffsetOf
<1>3. FileNumbers'
  <2>1. tsteps * (runs + 1) = tsteps * runs + tsteps /\ tsteps * runs \in Nat
    BY <1>1, RunBound
  <2>2. \A m \in Number : m \in Nat
    BY DEF Number
  <2> QED
    BY <1>1, <1>2, <2>1, <2>2 DEF WriterInv, FileNumbers, Number
<1>4. NoAverageRead'
  BY <1>2 DEF WriterInv, NoAverageRead
<1>5. CheckpointsWritten'
  <2>1. CheckpointNumber' = n
    BY <1>1, <1>2 DEF CheckpointNumber
  <2> QED
    BY <1>1, <1>2, <2>1 DEF CheckpointsWritten, Number
<1>6. CASE \E r \in Rank : Misses(r, n)
  <2>1. /\ UNCHANGED <<job, pc, mem, time, udgavg>> /\ job = "down"
        /\ \E late \in SUBSET Rank :
             frames' = [r \in Rank |-> IF r \in late THEN frames[r] ELSE <<>>]
    BY <1>6 DEF Start, Opened
  <2>2. frames' \in [Rank -> Seq(Steps)]
    BY <1>1, <2>1 DEF TypeOK
  <2>3. TypeOK'
    BY <1>1, <1>2, <2>1, <2>2 DEF TypeOK
  <2> QED
    BY <1>3, <1>4, <1>5, <2>1, <2>3 DEF WriterInv, RunNumbers, RankSteps
<1>7. CASE ~ \E r \in Rank : Misses(r, n)
  <2>1. /\ job' = "up" /\ frames' = [r \in Rank |-> <<>>]
        /\ pc' = [r \in Rank |-> "solve"]
        /\ mem' = [r \in Rank |-> [k \in Kinds |-> IF n = 0 THEN <<>> ELSE ReadBack(r, k, n)]]
        /\ time' = n * Dt[1]
    BY <1>7 DEF Start, Opened, RestartTime
  <2>2. udgavg' = [r \in Rank |-> 0]
    BY <1>7 DEF Start, WriterInv, NoAverageRead
  <2>3. mem' \in [Rank -> [Kinds -> Steps]]
    <3>1. \A r \in Rank, k \in Kinds : (IF n = 0 THEN <<>> ELSE ReadBack(r, k, n)) \in Steps
      <4>1. <<>> \in Steps
        BY DEF Steps
      <4> QED
        BY <1>1, <4>1, ReadType
    <3> QED
      BY <2>1, <3>1
  <2>4. time' \in Nat
    BY <1>1, <2>1, Parameters
  <2>5. TypeOK'
    <3>1. runs' \in 0 .. MaxRuns /\ currentstep' \in -1 .. tsteps - 1
      BY <1>1, <1>2
    <3> QED
      BY <1>1, <1>2, <2>1, <2>2, <2>3, <2>4, <3>1 DEF TypeOK
  <2>6. RunNumbers'
    <3>1. n <= tsteps * runs
      <4>1. CASE n = 0
        BY <1>1, <4>1, RunBound
      <4>2. CASE n # 0
        <5>1. PICK r \in Rank : TRUE
          BY RankAssumption
        <5>2. n > 0 /\ n \in Number /\ files[r]["udg"][n] # absent
          BY <1>1, <1>7, <4>2, <5>1 DEF Misses, Kinds
        <5> QED
          BY <5>1, <5>2 DEF WriterInv, FileNumbers, Kinds
      <4> QED
        BY <4>1, <4>2
    <3>2. (runs + 1) - 1 = runs /\ runs + 1 >= 1
      BY <1>1
    <3> QED
      BY <1>2, <3>1, <3>2 DEF RunNumbers
  <2>7. RankSteps'
    BY <1>1, <1>2, <2>1, <2>2 DEF RankSteps
  <2> QED
    BY <1>3, <1>4, <1>5, <2>5, <2>6, <2>7 DEF WriterInv
<1> QED
  BY <1>6, <1>7

(* All ranks have written the checkpoint of the step before.               *)
LEMMA WriterSolve == ASSUME WriterInv, SolveStep PROVE WriterInv'
<1>1. /\ TypeOK /\ job = "up" /\ \A r \in Rank : pc[r] = "solve"
      /\ currentstep' = currentstep + 1
      /\ UNCHANGED <<runs, job, timestepOffset, files, avgfiles>>
  BY DEF WriterInv, SolveStep, AllHere
<1>2. currentstep \in Int /\ currentstep >= -1 /\ currentstep + 1 < tsteps /\ tsteps \in Nat \ {0}
  BY <1>1, RankAssumption, Parameters DEF WriterInv, TypeOK, RankSteps
<1> DEFINE dt == Dt[currentstep + 2]
<1>3. dt \in Nat \ {0} /\ dt \in {0} \cup ToSet(Dt)
  <2>1. currentstep + 2 \in 1 .. tsteps
    BY <1>2
  <2> QED
    BY <2>1, Parameters
<1>4. /\ mem' = [r \in Rank |-> [k \in Kinds |-> Append(mem[r][k], dt)]]
      /\ udgavg' = [r \in Rank |-> udgavg[r] + 1] /\ time' = time + dt
      /\ pc' = [r \in Rank |-> IF CheckpointDue(currentstep') THEN "udg"
                               ELSE NextPc(currentstep')]
      /\ frames' = [r \in Rank |-> IF FrameDue(currentstep')
                                   THEN Append(frames[r], mem'[r]["udg"]) ELSE frames[r]]
  BY DEF SolveStep
<1> HIDE DEF dt
<1>5. TypeOK'
  <2>1. \A r \in Rank, k \in Kinds : Append(mem[r][k], dt) \in Steps
    BY <1>1, <1>3 DEF TypeOK, Steps
  <2>2. mem' \in [Rank -> [Kinds -> Steps]]
    BY <1>4, <2>1
  <2>3. frames' \in [Rank -> Seq(Steps)]
    <3>1. \A r \in Rank : mem'[r]["udg"] \in Steps /\ frames[r] \in Seq(Steps)
      BY <1>1, <2>2 DEF TypeOK, Kinds
    <3> QED
      BY <1>4, <3>1
  <2>4. udgavg' \in [Rank -> Nat] /\ time' \in Nat /\ currentstep' \in -1 .. tsteps - 1
    BY <1>1, <1>2, <1>3, <1>4 DEF TypeOK
  <2>5. pc' \in [Rank -> {"solve", "done", "udg", "udg_open", "avg", "avg_open",
                          "wdg", "wdg_open", "uhat", "uhat_open"}]
    BY <1>4 DEF NextPc
  <2> QED
    BY <1>1, <2>2, <2>3, <2>4, <2>5 DEF TypeOK
<1>6. RunNumbers' /\ FileNumbers' /\ NoAverageRead'
  BY <1>1 DEF WriterInv, RunNumbers, FileNumbers, NoAverageRead
<1>7. RankSteps'
  <2>1. \A r \in Rank : udgavg[r] \in Nat /\ udgavg[r] <= currentstep + 1
    BY <1>1 DEF WriterInv, TypeOK, RankSteps
  <2> QED
    BY <1>1, <1>2, <1>4, <2>1 DEF RankSteps, NextPc
<1>8. CheckpointsWritten'
  <2> SUFFICES ASSUME NEW r \in Rank, NEW k \in Kinds, NEW n \in Number,
                      timestepOffset < n, n <= CheckpointNumber',
                      (n - timestepOffset) % saveRestart = 0,
                      n = CheckpointNumber' => k \in Closed(r)'
               PROVE  files[r][k][n].is = "whole"
    BY <1>1 DEF CheckpointsWritten
  <2>1. /\ timestepOffset \in Nat /\ n \in Nat
        /\ CheckpointNumber' = CheckpointNumber + 1
        /\ CheckpointNumber = currentstep + timestepOffset + 1
        /\ CheckpointNumber \in Int
    BY <1>1, <1>2, Parameters DEF TypeOK, Number, CheckpointNumber
  <2>2. n # CheckpointNumber'
    <3>1. SUFFICES ASSUME n = CheckpointNumber' PROVE FALSE
      OBVIOUS
    <3>2. n - timestepOffset = currentstep' + 1
      BY <1>1, <1>2, <2>1, <3>1
    <3>3. CheckpointDue(currentstep')
      BY <3>2 DEF CheckpointDue
    <3>4. pc'[r] = "udg"
      BY <1>4, <3>3
    <3> QED
      BY <3>1, <3>4 DEF Closed
  <2>3. n <= CheckpointNumber
    BY <2>1, <2>2
  <2>4. k \in Closed(r)
    BY <1>1 DEF Closed
  <2> QED
    BY <1>1, <2>3, <2>4 DEF WriterInv, CheckpointsWritten
<1> QED
  BY <1>5, <1>6, <1>7, <1>8 DEF WriterInv

(* A file is emptied before it is counted as closed.                       *)
LEMMA WriterOpen ==
  ASSUME WriterInv, NEW r \in Rank, NEW k \in Kinds, OpenFile(r, k) PROVE WriterInv'
<1>1. /\ TypeOK /\ job = "up" /\ pc[r] = k /\ pc' = [pc EXCEPT ![r] = Writing[k]]
      /\ files' = [files EXCEPT ![r][k][CheckpointNumber] = torn]
      /\ UNCHANGED <<runs, job, timestepOffset, currentstep, mem, time, udgavg,
                     avgfiles, frames>>
  BY DEF WriterInv, OpenFile
<1>2. currentstep >= 0 /\ Writing[k] \in {"udg_open", "wdg_open", "uhat_open"}
  BY <1>1 DEF WriterInv, RankSteps, Kinds, Writing
<1>3. CheckpointNumber \in Number /\ CheckpointNumber <= tsteps * runs
  BY <1>1, <1>2, Saving
<1>4. /\ files' \in RestartFiles
      /\ \A q \in Rank, l \in Kinds, m \in Number :
           files'[q][l][m] = IF q = r /\ l = k /\ m = CheckpointNumber THEN torn
                             ELSE files[q][l][m]
  <2>1. /\ files \in RestartFiles
        /\ files' = Written(files, r, k, CheckpointNumber, torn)
    BY <1>1 DEF TypeOK, RestartFiles, Written
  <2>2. torn \in File(Steps)
    BY NewFiles
  <2> QED
    BY <1>3, <2>1, <2>2, FileWritten
<1>5. /\ pc'[r] = Writing[k] /\ \A q \in Rank : q # r => pc'[q] = pc[q]
      /\ pc' \in [Rank -> {"solve", "done", "udg", "udg_open", "avg", "avg_open",
                           "wdg", "wdg_open", "uhat", "uhat_open"}]
  BY <1>1, <1>2 DEF TypeOK
<1>6. TypeOK'
  BY <1>1, <1>4, <1>5 DEF TypeOK, RestartFiles
<1>7. RunNumbers' /\ NoAverageRead' /\ RankSteps'
  BY <1>1, <1>2, <1>5 DEF WriterInv, RunNumbers, NoAverageRead, RankSteps
<1>8. FileNumbers'
  BY <1>1, <1>3, <1>4 DEF WriterInv, FileNumbers
<1>9. CheckpointsWritten'
  <2>1. \A q \in Rank : Closed(q)' = Closed(q)
    BY <1>1, <1>5 DEF Closed, Kinds, Writing
  <2>2. k \notin Closed(r)
    BY <1>1 DEF Closed, Kinds
  <2>3. CheckpointNumber' = CheckpointNumber
    BY <1>1 DEF CheckpointNumber
  <2> QED
    BY <1>1, <1>4, <2>1, <2>2, <2>3 DEF WriterInv, CheckpointsWritten
<1> QED
  BY <1>6, <1>7, <1>8, <1>9 DEF WriterInv

(* A file that is closed holds the array.                                  *)
LEMMA WriterClose ==
  ASSUME WriterInv, NEW r \in Rank, NEW k \in Kinds, CloseFile(r, k) PROVE WriterInv'
<1> DEFINE next == IF k = "uhat" THEN NextPc(currentstep) ELSE After[k]
<1>1. /\ TypeOK /\ job = "up" /\ pc[r] = Writing[k] /\ pc' = [pc EXCEPT ![r] = next]
      /\ files' = [files EXCEPT ![r][k][CheckpointNumber] = Holds(mem[r][k])]
      /\ UNCHANGED <<runs, job, timestepOffset, currentstep, mem, time, udgavg,
                     avgfiles, frames>>
  BY DEF WriterInv, CloseFile
<1>2. currentstep >= 0
  BY <1>1 DEF WriterInv, RankSteps, Kinds, Writing
<1>3. CheckpointNumber \in Number /\ CheckpointNumber <= tsteps * runs
  BY <1>1, <1>2, Saving
<1>4. /\ files' \in RestartFiles
      /\ \A q \in Rank, l \in Kinds, m \in Number :
           files'[q][l][m] = IF q = r /\ l = k /\ m = CheckpointNumber THEN Holds(mem[r][k])
                             ELSE files[q][l][m]
  <2>1. Holds(mem[r][k]) \in File(Steps)
    BY <1>1, NewFiles DEF TypeOK
  <2>2. /\ files \in RestartFiles
        /\ files' = Written(files, r, k, CheckpointNumber, Holds(mem[r][k]))
    BY <1>1 DEF TypeOK, RestartFiles, Written
  <2> QED
    BY <1>3, <2>1, <2>2, FileWritten
<1>5. \/ k = "udg" /\ pc[r] = "udg_open" /\ next = "avg"
      \/ k = "wdg" /\ pc[r] = "wdg_open" /\ next = "uhat"
      \/ k = "uhat" /\ pc[r] = "uhat_open" /\ next \in {"solve", "done"}
  BY <1>1 DEF Kinds, Writing, After, NextPc
<1>6. next = "solve" => currentstep + 1 < tsteps
  BY DEF NextPc, After, Kinds
<1> HIDE DEF next
<1>7. /\ pc'[r] = next /\ \A q \in Rank : q # r => pc'[q] = pc[q]
      /\ pc' \in [Rank -> {"solve", "done", "udg", "udg_open", "avg", "avg_open",
                           "wdg", "wdg_open", "uhat", "uhat_open"}]
  BY <1>1, <1>5 DEF TypeOK
<1>8. TypeOK'
  BY <1>1, <1>4, <1>7 DEF TypeOK, RestartFiles
<1>9. RunNumbers' /\ NoAverageRead' /\ RankSteps'
  BY <1>1, <1>2, <1>6, <1>7 DEF WriterInv, RunNumbers, NoAverageRead, RankSteps
<1>10. FileNumbers'
  BY <1>1, <1>3, <1>4 DEF WriterInv, FileNumbers
<1>11. CheckpointsWritten'
  <2>1. \A q \in Rank : q # r => Closed(q)' = Closed(q)
    BY <1>7 DEF Closed
  <2>2. Closed(r)' = Closed(r) \cup {k}
    BY <1>5, <1>7 DEF Closed, Kinds
  <2>3. CheckpointNumber' = CheckpointNumber
    BY <1>1 DEF CheckpointNumber
  <2>4. Holds(mem[r][k]).is = "whole"
    BY NewFiles
  <2> SUFFICES ASSUME NEW q \in Rank, NEW l \in Kinds, NEW n \in Number,
                      timestepOffset < n, n <= CheckpointNumber,
                      (n - timestepOffset) % saveRestart = 0,
                      n = CheckpointNumber => l \in Closed(q)'
               PROVE  files'[q][l][n].is = "whole"
    BY <1>1, <2>3 DEF CheckpointsWritten
  <2>5. CASE q = r /\ l = k /\ n = CheckpointNumber
    BY <1>4, <2>4, <2>5
  <2>6. CASE ~(q = r /\ l = k /\ n = CheckpointNumber)
    <3>1. n = CheckpointNumber => l \in Closed(q)
      BY <2>1, <2>2, <2>6
    <3> QED
      BY <1>1, <1>4, <2>6, <3>1 DEF WriterInv, CheckpointsWritten
  <2> QED
    BY <2>5, <2>6
<1> QED
  BY <1>8, <1>9, <1>10, <1>11 DEF WriterInv

(* The average lies in a file of its own.                                  *)
LEMMA WriterAverage ==
  ASSUME WriterInv, NEW r \in Rank, OpenAverage(r) \/ CloseAverage(r) PROVE WriterInv'
<1> DEFINE f == IF pc[r] = "avg" THEN torn ELSE Holds(udgavg[r])
<1>1. /\ TypeOK /\ job = "up"
      /\ avgfiles' = [avgfiles EXCEPT ![r]["solavg_np"] = f]
      /\ \/ pc[r] = "avg" /\ pc' = [pc EXCEPT ![r] = "avg_open"]
         \/ pc[r] = "avg_open" /\ pc' = [pc EXCEPT ![r] = "wdg"]
      /\ UNCHANGED <<runs, job, timestepOffset, currentstep, mem, time, udgavg,
                     files, frames>>
  BY DEF WriterInv, OpenAverage, CloseAverage
<1>2. f \in File(0 .. tsteps * MaxRuns)
  <2>1. /\ udgavg[r] \in Nat /\ udgavg[r] <= currentstep + 1 /\ currentstep \in Int
        /\ currentstep + 1 <= tsteps /\ tsteps \in Nat
        /\ runs \in Nat /\ MaxRuns \in Nat /\ runs >= 1 /\ runs <= MaxRuns
    BY <1>1, Parameters DEF WriterInv, TypeOK, RankSteps, RunNumbers
  <2>2. tsteps * 1 <= tsteps * MaxRuns /\ tsteps * MaxRuns \in Nat
    BY <2>1, Parameters, RunBound
  <2>3. udgavg[r] \in 0 .. tsteps * MaxRuns
    BY <2>1, <2>2
  <2> QED
    BY <2>3, NewFiles
<1> HIDE DEF f
<1>3. /\ pc' \in [Rank -> {"solve", "done", "udg", "udg_open", "avg", "avg_open",
                           "wdg", "wdg_open", "uhat", "uhat_open"}]
      /\ \A q \in Rank : Closed(q)' = Closed(q) /\ (pc'[q] = "solve" <=> pc[q] = "solve")
  BY <1>1 DEF TypeOK, Closed
<1>4. /\ avgfiles' \in [Rank -> [{"avg_np", "solavg_np"} -> File(0 .. tsteps * MaxRuns)]]
      /\ \A q \in Rank : avgfiles'[q]["avg_np"] = avgfiles[q]["avg_np"]
  BY <1>1, <1>2 DEF TypeOK
<1>5. TypeOK' /\ NoAverageRead'
  BY <1>1, <1>3, <1>4 DEF WriterInv, TypeOK, NoAverageRead
<1>6. RunNumbers' /\ FileNumbers'
  BY <1>1 DEF WriterInv, RunNumbers, FileNumbers
<1>7. RankSteps'
  BY <1>1, <1>3 DEF WriterInv, RankSteps
<1>8. CheckpointsWritten'
  <2>1. CheckpointNumber' = CheckpointNumber
    BY <1>1 DEF CheckpointNumber
  <2> QED
    BY <1>1, <1>3, <2>1 DEF WriterInv, CheckpointsWritten
<1> QED
  BY <1>5, <1>6, <1>7, <1>8 DEF WriterInv

(* A death keeps a part of the frames.                                     *)
LEMMA WriterStop == ASSUME WriterInv, Stop PROVE WriterInv'
<1>1. /\ TypeOK /\ job' = "down" /\ pc' = [r \in Rank |-> "done"]
      /\ mem' = [r \in Rank |-> InMemory] /\ udgavg' = [r \in Rank |-> 0] /\ time' = 0
      /\ UNCHANGED <<runs, timestepOffset, currentstep, files, avgfiles>>
  BY DEF WriterInv, Stop
<1>2. frames' \in [Rank -> Seq(Steps)]
  <2>1. PICK kept \in [Rank -> 0 .. tsteps] :
           /\ \A r \in Rank : kept[r] <= Len(frames[r])
           /\ frames' = [r \in Rank |-> SubSeq(frames[r], 1, kept[r])]
    BY DEF Stop
  <2>2. ASSUME NEW r \in Rank PROVE SubSeq(frames[r], 1, kept[r]) \in Seq(Steps)
    <3>1. /\ frames[r] \in Seq(Steps) /\ kept[r] \in Nat /\ kept[r] <= Len(frames[r])
          /\ Len(frames[r]) \in Nat
      BY <1>1, <2>1, Parameters DEF TypeOK
    <3>2. \A j \in 1 .. kept[r] : frames[r][j] \in Steps
      BY <3>1
    <3> QED
      BY <3>1, <3>2
  <2> QED
    BY <2>1, <2>2
<1>3. mem' \in [Rank -> [Kinds -> Steps]]
  BY <1>1 DEF InMemory, Steps
<1>4. TypeOK'
  BY <1>1, <1>2, <1>3 DEF TypeOK
<1>5. FileNumbers' /\ NoAverageRead'
  BY <1>1 DEF WriterInv, FileNumbers, NoAverageRead
<1> QED
  BY <1>1, <1>4, <1>5 DEF WriterInv, RunNumbers, RankSteps, CheckpointsWritten

(* Every step keeps the invariant.                                         *)
LEMMA WriterStep == ASSUME WriterInv, [Next]_vars PROVE WriterInv'
<1>1. CASE UNCHANGED vars
  BY <1>1 DEF vars, WriterInv, TypeOK, RunNumbers, RankSteps, FileNumbers,
              CheckpointsWritten, NoAverageRead, Closed, CheckpointNumber
<1> QED
  BY <1>1, WriterStart, WriterSolve, WriterOpen, WriterClose, WriterAverage, WriterStop
     DEF Next

(* Where every rank is and what it has written, in every reachable state.  *)
THEOREM WriterInvariant == Spec => []WriterInv
<1>1. WriterInv /\ [Next]_vars => WriterInv'
  BY WriterStep
<1> QED
  BY <1>1, WriterInit, PTL DEF Spec

(* Only the files of the current checkpoint change, which is of a later    *)
(* step than the one the run was restarted from.                           *)
LEMMA FilesStep ==
  ASSUME WriterInv, [Next]_vars
  PROVE  \A r \in Rank, k \in Kinds, n \in Number :
           n <= timestepOffset => files'[r][k][n] = files[r][k][n]
<1> SUFFICES ASSUME files' # files
             PROVE  \A r \in Rank, k \in Kinds, n \in Number :
                      n <= timestepOffset => files'[r][k][n] = files[r][k][n]
  OBVIOUS
<1>1. PICK r \in Rank, k \in Kinds : OpenFile(r, k) \/ CloseFile(r, k)
  BY DEF Next, vars, Start, SolveStep, OpenAverage, CloseAverage, Stop
<1>2. PICK f : files' = Written(files, r, k, CheckpointNumber, f) /\ f \in File(Steps)
  <2>1. mem[r][k] \in Steps
    BY DEF WriterInv, TypeOK
  <2> QED
    BY <1>1, <2>1, NewFiles DEF OpenFile, CloseFile, Written
<1>3. job = "up" /\ currentstep >= 0
  <2>1. job = "up" /\ pc[r] # "solve"
    BY <1>1 DEF OpenFile, CloseFile, Kinds, Writing
  <2> QED
    BY <2>1 DEF WriterInv, RankSteps
<1>4. CheckpointNumber \in Number /\ CheckpointNumber > timestepOffset
  BY <1>3, Saving
<1>5. files \in RestartFiles
  BY DEF WriterInv, TypeOK, RestartFiles
<1>6. \A q \in Rank, l \in Kinds, m \in Number :
        files'[q][l][m] = IF q = r /\ l = k /\ m = CheckpointNumber THEN f ELSE files[q][l][m]
  BY <1>2, <1>4, <1>5, FileWritten
<1>7. timestepOffset \in Nat /\ \A n \in Number : n \in Nat
  BY Parameters DEF WriterInv, TypeOK, Number
<1> QED
  BY <1>4, <1>6, <1>7

(* A run leaves the checkpoint it was restarted from and the older ones    *)
(* alone: SaveSolutions names its files by the step since the beginning.   *)
THEOREM OlderCheckpointsAreKept == Spec => OlderCheckpointsKept
<1>1. WriterInv /\ [Next]_vars =>
        [\A r \in Rank : \A k \in Kinds : \A n \in Number :
           n <= timestepOffset => files'[r][k][n] = files[r][k][n]]_vars
  BY FilesStep
<1> QED
  BY <1>1, WriterInvariant, PTL DEF Spec, OlderCheckpointsKept

(* No rank writes over the next checkpoint before all have written this    *)
(* one, so that a death leaves a whole one.                                *)
THEOREM AlwaysOneToRestartFrom == Spec => []OneCheckpointAtRisk
<1>1. WriterInv => OneCheckpointAtRisk
  <2> SUFFICES ASSUME WriterInv, job = "up", NEW n \in Number, n > timestepOffset,
                      n < CheckpointNumber, (n - timestepOffset) % saveRestart = 0,
                      NEW r \in Rank, NEW k \in Kinds
               PROVE  files[r][k][n].is = "whole"
    BY DEF OneCheckpointAtRisk, Whole
  <2>1. /\ n \in Nat /\ timestepOffset \in Nat /\ CheckpointNumber \in Int
    BY Parameters DEF WriterInv, TypeOK, Number, CheckpointNumber
  <2>2. timestepOffset < n /\ n <= CheckpointNumber /\ n # CheckpointNumber
    BY <2>1
  <2> QED
    BY <2>2 DEF WriterInv, CheckpointsWritten
<1> QED
  BY <1>1, WriterInvariant, PTL

-----------------------------------------------------------------------------
(* A solution is clean when its first step is one.                         *)
LEMMA CleanStart ==
  ASSUME NEW s \in Steps PROVE Clean(s) <=> Len(s) = 0 \/ s[1] # 0
<1>1. s \in Seq({0} \cup ToSet(Dt)) /\ Len(s) \in Nat
  BY DEF Steps
<1>2. Garbage \in Seq(Nat) /\ Len(Garbage) = 1 /\ Garbage[1] = 0
  BY DEF Garbage
<1>3. CASE Len(s) = 0
  BY <1>2, <1>3 DEF Clean, IsPrefix
<1>4. CASE Len(s) # 0
  <2>1. 1 <= Len(s)
    BY <1>1, <1>4
  <2> DEFINE a == SubSeq(s, 1, 1)
             b == SubSeq(Garbage, 1, 1)
             X == Nat \cup {0} \cup ToSet(Dt)
  <2>2. a \in Seq(X) /\ b \in Seq(X) /\ Len(a) = 1 /\ Len(b) = 1 /\ a[1] = s[1] /\ b[1] = 0
    BY <1>1, <1>2, <2>1
  <2> HIDE DEF a, b, X
  <2>3. a = b <=> s[1] = 0
    <3>1. DOMAIN a = {1} /\ DOMAIN b = {1}
      BY <2>2
    <3>2. a = [j \in {1} |-> a[j]] /\ b = [j \in {1} |-> b[j]]
      BY <2>2, <3>1
    <3> QED
      BY <2>2, <3>1, <3>2
  <2>4. IsPrefix(Garbage, s) <=> a = b
    BY <1>1, <1>2, <2>1 DEF IsPrefix, a, b
  <2> QED
    BY <1>4, <2>3, <2>4 DEF Clean
<1> QED
  BY <1>3, <1>4

(* A step later.                                                           *)
LEMMA SolutionStep ==
  ASSUME NEW s \in Steps, NEW L \in Nat, NEW d \in Nat \ {0}, Append(s, d) \in Steps,
         d = Dt[1], Clean(s) => Solution(s, L), Clean(Append(s, d))
  PROVE  Solution(Append(s, d), L + 1)
<1>1. Len(s) \in Nat /\ s \in Seq({0} \cup ToSet(Dt))
  BY DEF Steps
<1>2. Len(Append(s, d)) = Len(s) + 1 /\ Append(s, d)[Len(s) + 1] = d
  BY <1>1
<1>3. \A j \in 1 .. Len(s) : Append(s, d)[j] = s[j]
  BY <1>1
<1>4. Clean(s)
  <2>1. Len(s) # 0 => Append(s, d)[1] = s[1]
    BY <1>1, <1>3
  <2>2. Len(Append(s, d)) # 0
    BY <1>1, <1>2
  <2> QED
    BY <2>1, <2>2, CleanStart
<1> QED
  BY <1>1, <1>2, <1>3, <1>4 DEF Solution

(* How often a number of steps is a multiple of d.                         *)
LEMMA Multiples ==
  ASSUME NEW c \in Nat, NEW d \in Nat \ {0}
  PROVE  /\ c \div d \in Nat
         /\ (c + 1) % d # 0 => (c + 1) \div d = c \div d
         /\ (c + 1) % d = 0 => /\ (c + 1) \div d = c \div d + 1
                               /\ c + 1 = (c \div d + 1) * d
<1> DEFINE q == c \div d
           m == c % d
           p == (c + 1) \div d
           n == (c + 1) % d
<1>1. /\ q \in Nat /\ m \in Nat /\ c = d * q + m /\ m < d
      /\ p \in Nat /\ n \in Nat /\ c + 1 = d * p + n /\ n < d
  OBVIOUS
<1> HIDE DEF q, m, p, n
<1>2. CASE m + 1 < d
  BY <1>1, <1>2
<1>3. CASE m + 1 = d
  BY <1>1, <1>3
<1> QED
  BY <1>1, <1>2, <1>3 DEF q, p, n
(* Before the first run there is nothing to hold.                          *)
LEMMA ContentInit == Init => ContentInv
<1> SUFFICES ASSUME Init PROVE ContentInv
  OBVIOUS
<1>1. FilesHoldTheirNumber
  BY NewFiles DEF Init, FilesHoldTheirNumber, absent
<1>2. MemoryContinues
  BY DEF Init, MemoryContinues
<1>3. FramesWritten
  <2>1. FramesFrom(0) /\ job # "up"
    BY DEF Init, FramesFrom
  <2> QED
    BY <2>1 DEF FramesWritten
<1> QED
  BY <1>1, <1>2, <1>3, WriterInit DEF ContentInv

(* Numbers of the steps.                                                   *)
LEMMA StepNumbers ==
  ASSUME WriterInv
  PROVE  /\ timestepOffset \in Nat /\ currentstep \in Int /\ currentstep + 1 \in Nat
         /\ timestepOffset + currentstep + 1 \in Nat
         /\ CheckpointNumber = timestepOffset + currentstep + 1
         /\ Dt[1] \in Nat \ {0} /\ saveSolFreq \in Nat \ {0}
<1>1. timestepOffset \in Nat /\ currentstep \in -1 .. tsteps - 1 /\ tsteps \in Nat
  BY Parameters DEF WriterInv, TypeOK, Number
<1> QED
  BY <1>1, Parameters DEF CheckpointNumber

(* A restart reads what the files of its number hold, and starts from the  *)
(* time of that number.                                                    *)
LEMMA ContentStart ==
  ASSUME ContentInv, NEW n \in {0} \cup Number, Start(n)
  PROVE  ContentInv'
<1>1. WriterInv'
  BY WriterStart DEF ContentInv
<1>2. n \in Nat /\ Dt[1] \in Nat
  BY Parameters DEF Number
<1>3. /\ timestepOffset' = n /\ currentstep' = -1 /\ UNCHANGED files
  BY DEF Start, OffsetOf
<1>4. FilesHoldTheirNumber'
  BY <1>3 DEF ContentInv, FilesHoldTheirNumber
<1>5. CASE \E r \in Rank : Misses(r, n)
  <2>1. /\ job = "down" /\ job' = "down"
        /\ \E late \in SUBSET Rank :
             frames' = [r \in Rank |-> IF r \in late THEN frames[r] ELSE <<>>]
    BY <1>5 DEF Start, Opened
  <2>2. PICK o \in Nat : FramesFrom(o)
    BY DEF ContentInv, FramesWritten
  <2>3. FramesFrom(o)'
    BY <2>1, <2>2 DEF FramesFrom
  <2> QED
    BY <1>1, <1>4, <2>1, <2>3 DEF ContentInv, MemoryContinues, FramesWritten
<1>6. CASE ~ \E r \in Rank : Misses(r, n)
  <2>1. /\ job' = "up" /\ frames' = [r \in Rank |-> <<>>]
        /\ mem' = [r \in Rank |-> [k \in Kinds |-> IF n = 0 THEN <<>> ELSE ReadBack(r, k, n)]]
        /\ time' = n * Dt[1]
    BY <1>6 DEF Start, Opened, RestartTime
  <2>2. n + -1 + 1 = n
    BY <1>2
  <2>3. ASSUME NEW r \in Rank, NEW k \in Kinds, Clean(mem'[r][k])
        PROVE  Solution(mem'[r][k], n)
    <3>1. CASE n = 0
      BY <2>1, <3>1 DEF Solution
    <3>2. CASE n # 0
      <4>1. n \in Number /\ mem'[r][k] = Content(files[r][k][n])
        BY <2>1, <3>2 DEF ReadBack
      <4>2. Garbage \in Steps /\ Len(Garbage) = 1 /\ Garbage[1] = 0
        BY DEF Garbage, Steps
      <4>3. ~Clean(Garbage)
        BY <4>2, CleanStart
      <4>4. files[r][k][n].is = "whole" /\ mem'[r][k] = files[r][k][n].content
        BY <2>3, <4>1, <4>3 DEF Content
      <4> QED
        BY <2>3, <4>1, <4>4 DEF ContentInv, FilesHoldTheirNumber
    <3> QED
      BY <3>1, <3>2
  <2>4. MemoryContinues'
    BY <1>3, <2>1, <2>2, <2>3 DEF MemoryContinues
  <2>5. FramesWritten'
    <3>1. \A m \in Nat : FramesFrom(m)'
      BY <2>1 DEF FramesFrom
    <3>2. (-1 + 1) \div saveSolFreq = 0
      BY Parameters
    <3> QED
      BY <1>2, <1>3, <2>1, <3>1, <3>2 DEF FramesWritten
  <2> QED
    BY <1>1, <1>4, <2>4, <2>5 DEF ContentInv
<1> QED
  BY <1>5, <1>6

(* A step lengthens the solution and the time by one size, and every       *)
(* saveSolFreq steps the frames by the solution.                           *)
LEMMA ContentSolve ==
  ASSUME OneSize, ContentInv, SolveStep
  PROVE  ContentInv'
<1>1. WriterInv' /\ WriterInv
  BY WriterSolve DEF ContentInv
<1>2. /\ job = "up" /\ job' = "up" /\ currentstep' = currentstep + 1
      /\ UNCHANGED <<timestepOffset, files>> /\ currentstep + 1 < tsteps
  BY <1>1, RankAssumption DEF SolveStep, AllHere, WriterInv, RankSteps
<1> DEFINE dt == Dt[currentstep + 2]
           c == currentstep + 1
<1>3. /\ timestepOffset \in Nat /\ currentstep \in Int /\ c \in Nat
      /\ timestepOffset + currentstep + 1 = timestepOffset + c
      /\ timestepOffset + c \in Nat /\ currentstep' + 1 = c + 1
      /\ timestepOffset + currentstep' + 1 = (timestepOffset + c) + 1
      /\ Dt[1] \in Nat \ {0} /\ saveSolFreq \in Nat \ {0}
  BY <1>1, <1>2, StepNumbers
<1>4. dt = Dt[1] /\ dt \in Nat \ {0}
  <2>1. currentstep + 2 \in DOMAIN Dt
    BY <1>2, <1>3, Parameters
  <2> QED
    BY <1>3, <2>1 DEF OneSize
<1>5. /\ mem' = [r \in Rank |-> [k \in Kinds |-> Append(mem[r][k], dt)]]
      /\ time' = time + dt
      /\ frames' = [r \in Rank |-> IF FrameDue(currentstep')
                                   THEN Append(frames[r], mem'[r]["udg"]) ELSE frames[r]]
  BY DEF SolveStep
<1> HIDE DEF dt, c
<1>6. FilesHoldTheirNumber'
  BY <1>2 DEF ContentInv, FilesHoldTheirNumber
<1>7. \A r \in Rank, k \in Kinds :
        Clean(mem'[r][k]) => Solution(mem'[r][k], (timestepOffset + c) + 1)
  <2> SUFFICES ASSUME NEW r \in Rank, NEW k \in Kinds, Clean(mem'[r][k])
               PROVE  Solution(mem'[r][k], (timestepOffset + c) + 1)
    OBVIOUS
  <2>1. mem[r][k] \in Steps /\ mem'[r][k] = Append(mem[r][k], dt) /\ mem'[r][k] \in Steps
    BY <1>1, <1>5 DEF WriterInv, TypeOK
  <2>2. Clean(mem[r][k]) => Solution(mem[r][k], timestepOffset + c)
    BY <1>2, <1>3 DEF ContentInv, MemoryContinues
  <2> QED
    BY <1>3, <1>4, <2>1, <2>2, SolutionStep
<1>8. time' = ((timestepOffset + c) + 1) * Dt[1]
  <2>1. time = (timestepOffset + c) * Dt[1]
    BY <1>2, <1>3 DEF ContentInv, MemoryContinues
  <2> QED
    BY <1>3, <1>4, <1>5, <2>1
<1>9. MemoryContinues'
  BY <1>2, <1>3, <1>7, <1>8 DEF MemoryContinues
<1>10. FramesWritten'
  <2>1. /\ FramesFrom(timestepOffset)
        /\ \A r \in Rank : frames[r] \in Seq(Steps) /\ Len(frames[r]) = c \div saveSolFreq
    BY <1>1, <1>2, <1>3 DEF ContentInv, FramesWritten, WriterInv, TypeOK, c
  <2>2. /\ c \div saveSolFreq \in Nat
        /\ (c + 1) % saveSolFreq # 0 => (c + 1) \div saveSolFreq = c \div saveSolFreq
        /\ (c + 1) % saveSolFreq = 0 =>
             /\ (c + 1) \div saveSolFreq = c \div saveSolFreq + 1
             /\ c + 1 = (c \div saveSolFreq + 1) * saveSolFreq
    BY <1>3, Multiples
  <2>3. FrameDue(currentstep') <=> (c + 1) % saveSolFreq = 0
    BY <1>3 DEF FrameDue
  <2>4. CASE (c + 1) % saveSolFreq # 0
    <3>1. \A r \in Rank : frames'[r] = frames[r]
      BY <1>5, <2>3, <2>4
    <3>2. FramesFrom(timestepOffset)'
      BY <1>2, <2>1, <3>1 DEF FramesFrom
    <3> QED
      BY <1>2, <1>3, <2>1, <2>2, <2>4, <3>1, <3>2 DEF FramesWritten
  <2>5. CASE (c + 1) % saveSolFreq = 0
    <3> DEFINE q == c \div saveSolFreq
    <3>1. ASSUME NEW r \in Rank
          PROVE  /\ Len(frames'[r]) = q + 1 /\ frames'[r][q + 1] = mem'[r]["udg"]
                 /\ \A j \in 1 .. q : frames'[r][j] = frames[r][j]
      <4>1. frames'[r] = Append(frames[r], mem'[r]["udg"]) /\ mem'[r]["udg"] \in Steps
        BY <1>1, <1>5, <2>3, <2>5 DEF WriterInv, TypeOK, Kinds
      <4> QED
        BY <2>1, <2>2, <4>1
    <3>2. q \in Nat /\ c + 1 = (q + 1) * saveSolFreq /\ (c + 1) \div saveSolFreq = q + 1
      BY <2>2, <2>5
    <3> HIDE DEF q
    <3>3. ASSUME NEW r \in Rank, NEW j \in 1 .. Len(frames'[r]), Clean(frames'[r][j])
          PROVE  Solution(frames'[r][j], timestepOffset + j * saveSolFreq)
      <4>1. CASE j = q + 1
        <5>1. timestepOffset + j * saveSolFreq = (timestepOffset + c) + 1
          BY <1>3, <3>2, <4>1
        <5>2. frames'[r][j] = mem'[r]["udg"]
          BY <3>1, <4>1
        <5>3. "udg" \in Kinds
          BY DEF Kinds
        <5> QED
          BY <1>7, <3>3, <5>1, <5>2, <5>3
      <4>2. CASE j # q + 1
        <5>1. j \in 1 .. q /\ frames'[r][j] = frames[r][j] /\ j \in 1 .. Len(frames[r])
          BY <2>1, <3>1, <3>2, <4>2 DEF q
        <5> QED
          BY <2>1, <3>3, <5>1 DEF FramesFrom
      <4> QED
        BY <4>1, <4>2
    <3>4. FramesFrom(timestepOffset)'
      BY <1>2, <3>3 DEF FramesFrom
    <3> QED
      BY <1>2, <1>3, <3>1, <3>2, <3>4 DEF FramesWritten
  <2> QED
    BY <2>4, <2>5
<1> QED
  BY <1>1, <1>6, <1>9, <1>10 DEF ContentInv

(* The file that is closed has the number of the solution in it.           *)
LEMMA ContentFile ==
  ASSUME ContentInv, NEW r \in Rank, NEW k \in Kinds, OpenFile(r, k) \/ CloseFile(r, k)
  PROVE  ContentInv'
<1>1. WriterInv' /\ WriterInv
  BY WriterOpen, WriterClose DEF ContentInv
<1>2. /\ job = "up" /\ pc[r] \notin {"solve"}
      /\ UNCHANGED <<job, timestepOffset, currentstep, mem, time, frames>>
      /\ \E f \in {torn, Holds(mem[r][k])} : files' = Written(files, r, k, CheckpointNumber, f)
  BY DEF OpenFile, CloseFile, Kinds, Writing, Written
<1>3. PICK f \in {torn, Holds(mem[r][k])} : files' = Written(files, r, k, CheckpointNumber, f)
  BY <1>2
<1>4. CheckpointNumber \in Number
  BY <1>1, <1>2, Saving DEF WriterInv, RankSteps
<1>5. \A q \in Rank, l \in Kinds, m \in Number :
        files'[q][l][m] = IF q = r /\ l = k /\ m = CheckpointNumber THEN f ELSE files[q][l][m]
  <2>1. files \in RestartFiles /\ mem[r][k] \in Steps
    BY <1>1 DEF WriterInv, TypeOK, RestartFiles
  <2>2. f \in File(Steps)
    BY <1>3, <2>1, NewFiles
  <2> QED
    BY <1>3, <1>4, <2>1, <2>2, FileWritten
<1>6. f.is = "whole" /\ Clean(f.content) => Solution(f.content, CheckpointNumber)
  <2> SUFFICES ASSUME f.is = "whole", Clean(f.content)
               PROVE  Solution(f.content, CheckpointNumber)
    OBVIOUS
  <2>1. f.content = mem[r][k]
    BY NewFiles
  <2> QED
    BY <1>1, <1>2, <2>1, StepNumbers DEF ContentInv, MemoryContinues
<1>7. FilesHoldTheirNumber'
  BY <1>5, <1>6 DEF ContentInv, FilesHoldTheirNumber
<1>8. MemoryContinues' /\ FramesWritten'
  BY <1>2 DEF ContentInv, MemoryContinues, FramesWritten, FramesFrom
<1> QED
  BY <1>1, <1>7, <1>8 DEF ContentInv

(* The average is not a part of it.                                        *)
LEMMA ContentAverage ==
  ASSUME ContentInv, NEW r \in Rank, OpenAverage(r) \/ CloseAverage(r)
  PROVE  ContentInv'
<1>1. WriterInv'
  BY WriterAverage DEF ContentInv
<1>2. UNCHANGED <<job, timestepOffset, currentstep, mem, time, files, frames>>
  BY DEF OpenAverage, CloseAverage
<1> QED
  BY <1>1, <1>2 DEF ContentInv, FilesHoldTheirNumber, MemoryContinues, FramesWritten, FramesFrom

(* What is left of the frames begins as they did.                          *)
LEMMA ContentStop == ASSUME ContentInv, Stop PROVE ContentInv'
<1>1. WriterInv' /\ WriterInv
  BY WriterStop DEF ContentInv
<1>2. job' = "down" /\ UNCHANGED files
  BY DEF Stop
<1>3. PICK kept \in [Rank -> 0 .. tsteps] :
         /\ \A r \in Rank : kept[r] <= Len(frames[r])
         /\ frames' = [r \in Rank |-> SubSeq(frames[r], 1, kept[r])]
  BY DEF Stop
<1>4. PICK o \in Nat : FramesFrom(o)
  BY DEF ContentInv, FramesWritten
<1>5. ASSUME NEW r \in Rank, NEW j \in 1 .. Len(frames'[r])
      PROVE  j \in 1 .. Len(frames[r]) /\ frames'[r][j] = frames[r][j]
  <2>1. /\ frames[r] \in Seq(Steps) /\ kept[r] \in Nat /\ kept[r] <= Len(frames[r])
        /\ frames'[r] = SubSeq(frames[r], 1, kept[r])
    BY <1>1, <1>3, Parameters DEF WriterInv, TypeOK
  <2> QED
    BY <2>1
<1>6. FramesFrom(o)'
  BY <1>4, <1>5 DEF FramesFrom
<1> QED
  BY <1>1, <1>2, <1>6 DEF ContentInv, FilesHoldTheirNumber, MemoryContinues, FramesWritten

(* Every step keeps the invariant when the steps are of one size.          *)
LEMMA ContentStep == ASSUME OneSize, ContentInv, [Next]_vars PROVE ContentInv'
<1>1. CASE UNCHANGED vars
  <2>1. WriterInv'
    BY WriterStep DEF ContentInv
  <2> QED
    BY <1>1, <2>1 DEF vars, ContentInv, FilesHoldTheirNumber, MemoryContinues,
                      FramesWritten, FramesFrom
<1> QED
  BY <1>1, ContentStart, ContentSolve, ContentFile, ContentAverage, ContentStop DEF Next

(* What files, memory and frames hold, in every reachable state.           *)
THEOREM ContentInvariant == OneSize => (Spec => []ContentInv)
<1> SUFFICES ASSUME OneSize PROVE Spec => []ContentInv
  OBVIOUS
<1>1. ContentInv /\ [Next]_vars => ContentInv'
  BY ContentStep
<1> QED
  BY <1>1, ContentInit, PTL DEF Spec

-----------------------------------------------------------------------------
(* Solutions of the same number of steps are the same.                     *)
LEMMA SameSolution ==
  ASSUME NEW L \in Nat, NEW s \in Steps, NEW t \in Steps, Solution(s, L), Solution(t, L)
  PROVE  s = t
<1>1. /\ s \in Seq({0} \cup ToSet(Dt)) /\ t \in Seq({0} \cup ToSet(Dt))
      /\ Len(s) = L /\ Len(t) = L
  BY DEF Steps, Solution
<1>2. s = [j \in 1 .. L |-> s[j]] /\ t = [j \in 1 .. L |-> t[j]]
  BY <1>1
<1>3. \A j \in 1 .. L : s[j] = t[j]
  BY DEF Solution
<1> QED
  BY <1>2, <1>3

(* The steps of one size add up to a product.                              *)
LEMMA TotalOfSolution ==
  ASSUME NEW L \in Nat, NEW s \in Steps, Solution(s, L)
  PROVE  Total(s) = L * Dt[1]
<1> DEFINE d == Dt[1]
<1>1. d \in Nat /\ s \in Seq({0} \cup ToSet(Dt)) /\ Len(s) = L
  BY Parameters DEF Steps, Solution
<1>2. DOMAIN s = 1 .. L /\ \A j \in 1 .. L : s[j] = d
  BY <1>1 DEF Solution
<1>3. UNION {{j} \X (1 .. s[j]) : j \in DOMAIN s} = (1 .. L) \X (1 .. d)
  BY <1>2
<1>4. /\ IsFiniteSet(1 .. L) /\ Cardinality(1 .. L) = L
      /\ IsFiniteSet(1 .. d) /\ Cardinality(1 .. d) = d
  <2>1. ASSUME NEW m \in Nat PROVE IsFiniteSet(1 .. m) /\ Cardinality(1 .. m) = m
    <3>1. /\ IsFiniteSet(1 .. m)
          /\ Cardinality(1 .. m) = IF 1 > m THEN 0 ELSE m - 1 + 1
      BY FS_Interval
    <3> QED
      BY <3>1
  <2> QED
    BY <1>1, <2>1
<1>5. Cardinality((1 .. L) \X (1 .. d)) = L * d
  BY <1>4, FS_Product
<1> QED
  BY <1>3, <1>5 DEF Total

(* A restarted run continues the solution and the time it was restarted    *)
(* from on every rank and in every array, when the steps are of one size   *)
(* (with others it does not: RestartTime multiplies by the first).         *)
THEOREM RunsContinue == OneSize => (Spec => []CheckpointInv)
<1> SUFFICES ASSUME OneSize PROVE Spec => []CheckpointInv
  OBVIOUS
<1>1. ContentInv => CheckpointInv
  <2> SUFFICES ASSUME ContentInv PROVE CheckpointInv
    OBVIOUS
  <2>1. TypeOK /\ WriterInv
    BY DEF ContentInv, WriterInv
  <2> DEFINE L == timestepOffset + currentstep + 1
  <2>2. L \in Nat /\ Dt[1] \in Nat
    BY <2>1, StepNumbers
  <2>3. ASSUME job = "up", Untorn, NEW r \in Rank, NEW k \in Kinds
        PROVE  mem[r][k] \in Steps /\ Solution(mem[r][k], L)
    BY <2>1, <2>3 DEF TypeOK, ContentInv, MemoryContinues, Untorn, Clean
  <2>4. job = "up" => time = L * Dt[1]
    BY DEF ContentInv, MemoryContinues
  <2> HIDE DEF L
  <2>5. RestartConsistent
    <3> SUFFICES ASSUME job = "up", Untorn, NEW r \in Rank, NEW s \in Rank,
                        NEW k \in Kinds, NEW l \in Kinds
                 PROVE  mem[r][k] = mem[s][l] /\ Len(mem[r][k]) = L
      BY DEF RestartConsistent, L
    <3>1. /\ mem[r][k] \in Steps /\ Solution(mem[r][k], L)
          /\ mem[s][l] \in Steps /\ Solution(mem[s][l], L)
      BY <2>3
    <3>2. mem[r][k] = mem[s][l]
      BY <2>2, <3>1, SameSolution
    <3> QED
      BY <3>1, <3>2 DEF Solution
  <2>6. TimeOfSolution
    <3> SUFFICES ASSUME job = "up", Untorn, NEW r \in Rank
                 PROVE  time = Total(mem[r]["udg"])
      BY DEF TimeOfSolution
    <3>1. "udg" \in Kinds
      BY DEF Kinds
    <3>2. mem[r]["udg"] \in Steps /\ Solution(mem[r]["udg"], L)
      BY <2>3, <3>1
    <3> QED
      BY <2>2, <2>4, <3>2, TotalOfSolution
  <2> QED
    BY <2>1, <2>5, <2>6 DEF CheckpointInv
<1> QED
  BY <1>1, ContentInvariant, PTL

(* The file of frames is that of one run, without a gap, on every rank,    *)
(* whatever died before: the stream is opened empty and only its end can   *)
(* be lost.                                                                *)
THEOREM FramesAreOfOneRun == OneSize => (Spec => []FramesOfOneRun)
<1> SUFFICES ASSUME OneSize PROVE Spec => []FramesOfOneRun
  OBVIOUS
<1>1. ContentInv => FramesOfOneRun
  <2> SUFFICES ASSUME ContentInv,
                      \A r \in Rank : \A k \in DOMAIN frames[r] : Clean(frames[r][k]),
                      NEW r \in Rank, NEW s \in Rank, NEW k \in DOMAIN frames[r]
               PROVE  /\ k \in DOMAIN frames[s] => frames[r][k] = frames[s][k]
                      /\ k + 1 \in DOMAIN frames[r] =>
                           Len(frames[r][k + 1]) = Len(frames[r][k]) + saveSolFreq
    BY DEF FramesOfOneRun, Clean
  <2>1. PICK o \in Nat : FramesFrom(o)
    BY DEF ContentInv, FramesWritten
  <2>2. saveSolFreq \in Nat \ {0} /\ \A q \in Rank : frames[q] \in Seq(Steps)
    BY Parameters DEF ContentInv, WriterInv, TypeOK
  <2>3. ASSUME NEW q \in Rank, NEW j \in DOMAIN frames[q]
        PROVE  /\ j \in Nat /\ frames[q][j] \in Steps
               /\ Solution(frames[q][j], o + j * saveSolFreq)
               /\ o + j * saveSolFreq \in Nat
    <3>1. j \in 1 .. Len(frames[q]) /\ frames[q][j] \in Steps /\ j \in Nat
      BY <2>2
    <3>2. j * saveSolFreq \in Nat
      BY <2>2, <3>1
    <3> QED
      BY <2>1, <3>1, <3>2 DEF FramesFrom
  <2>4. k \in DOMAIN frames[s] => frames[r][k] = frames[s][k]
    BY <2>3, SameSolution
  <2>5. ASSUME k + 1 \in DOMAIN frames[r]
        PROVE  Len(frames[r][k + 1]) = Len(frames[r][k]) + saveSolFreq
    <3>1. k \in Nat /\ Len(frames[r][k]) = o + k * saveSolFreq
      BY <2>3 DEF Solution
    <3>2. Len(frames[r][k + 1]) = o + (k + 1) * saveSolFreq
      BY <2>3, <2>5 DEF Solution
    <3>3. (k + 1) * saveSolFreq = k * saveSolFreq + saveSolFreq /\ k * saveSolFreq \in Nat
      BY <2>2, <3>1
    <3> QED
      BY <2>1, <2>2, <3>1, <3>2, <3>3
  <2> QED
    BY <2>4, <2>5
<1> QED
  BY <1>1, ContentInvariant, PTL
=============================================================================

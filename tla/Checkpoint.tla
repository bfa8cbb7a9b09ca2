------------------------------- MODULE Checkpoint -------------------------------
(***************************************************************************)
(* Checkpoints and restarts of a time-dependent run: the restart handling  *)
(* of src/backend/Main/main.cpp with InitSolution, ReadSolutions and the   *)
(* restart files of SaveSolutions (src/backend/Solution/solution.cpp), on  *)
(* all MPI ranks, for the HDG scheme with auxiliary variables w.           *)
(*                                                                         *)
(* Every saveRestart steps each rank writes its restart files one after    *)
(* the other, on its own.  The job may die between any two of these steps  *)
(* or while a file is open; the user then starts it again from a time step *)
(* of their choice.  A file is absent, torn (opened, not closed), or holds *)
(* the solution written to it.  A solution is known by the time steps that *)
(* led to it from the initial condition, a time average by the number of   *)
(* solutions summed.                                                       *)
(*                                                                         *)
(* Besides, every rank appends the solution to a file of frames, udg_np,   *)
(* through a stream that the constructor opens and that is never flushed.  *)
(***************************************************************************)
EXTENDS Integers, FiniteSets, SequencesExt

CONSTANTS
  Rank,         \* the MPI ranks
  Dt,           \* dt, the time steps given to every run (tsteps of them)
  saveRestart,  \* steps between checkpoints
  saveSolFreq,  \* steps between frames
  MaxRuns       \* bound: number of runs of the program

ASSUME RankAssumption == Rank # {}
ASSUME DtAssumption == Dt \in Seq(Nat \ {0}) /\ Dt # <<>>
ASSUME SaveRestartAssumption == saveRestart \in Nat \ {0}
ASSUME SaveSolFreqAssumption == saveSolFreq \in Nat \ {0}
ASSUME MaxRunsAssumption == MaxRuns \in Nat

tsteps == Len(Dt)
Number == 1 .. tsteps * MaxRuns  \* numbers a checkpoint can have

VARIABLES
  runs, job,       \* number of runs started; state of the job
  timestepOffset,  \* the step the run was restarted from, or 0
  currentstep,     \* the last step solved in this run; -1 before
  pc,              \* pc[r]: what rank r does
  mem,             \* mem[r]: sol.udg, sol.wdg and sol.uh
  time,            \* the local variable time of the time loop
  udgavg,          \* udgavg[r]: number of solutions summed
  files,           \* files[r][kind][n]: the restart files
  avgfiles,        \* avgfiles[r][name]: the files of the time average
  frames           \* frames[r]: the solutions written to outsol; while no job
                   \* runs, those of them that are in the file

vars == <<runs, job, timestepOffset, currentstep, pc, mem, time, udgavg,
          files, avgfiles, frames>>

absent == [is |-> "absent"]
torn == [is |-> "torn"]
Holds(x) == [is |-> "whole", content |-> x]

(* What a read of the file yields: there is no check of its length.        *)
Garbage == <<0>>
Content(f) == IF f.is = "whole" THEN f.content ELSE Garbage

Kinds == {"udg", "wdg", "uhat"}

-----------------------------------------------------------------------------
OffsetOf(n) == n

RestartTime(n) == n * Dt[1]

ReadBack_MainField(r, k, n) ==  \* mistake: only udg is read
  IF k = "udg" THEN Content(files[r][k][n]) ELSE <<>>
ReadBack(r, k, n) == Content(files[r][k][n])

Opened_Append(r) == frames[r]  \* mistake: the stream is opened with ios::app
Opened(r) == <<>>

(* A run with timestepOffset n: the constructor, which empties the file of *)
(* frames, the restart time, ReadSolutions (error() on the first rank that  *)
(* misses a file ends the job; any other rank may not have come to its     *)
(* constructor by then) and InitSolution, which looks for the time average *)
(* under "avg_np".                                                         *)
Misses(r, n) == n > 0 /\ \E k \in Kinds : files[r][k][n] = absent

Start(n) ==
  /\ job = "down"
  /\ runs < MaxRuns
  /\ runs' = runs + 1
  /\ timestepOffset' = OffsetOf(n)
  /\ currentstep' = -1
  /\ IF \E r \in Rank : Misses(r, n)
       THEN /\ \E late \in SUBSET Rank :
                 /\ \E r \in Rank \ late : Misses(r, n)
                 /\ frames' = [r \in Rank |->
                              IF r \in late THEN frames[r] ELSE Opened(r)]
            /\ UNCHANGED <<job, pc, mem, time, udgavg>>
       ELSE /\ job' = "up"
            /\ frames' = [r \in Rank |-> Opened(r)]
            /\ pc' = [r \in Rank |-> "solve"]
            /\ mem' = [r \in Rank |-> [k \in Kinds |->
                         IF n = 0 THEN <<>> ELSE ReadBack(r, k, n)]]
            /\ time' = RestartTime(n)
            /\ udgavg' = [r \in Rank |->
                 IF avgfiles[r]["avg_np"] = absent THEN 0
                 ELSE avgfiles[r]["avg_np"].content]
  /\ UNCHANGED <<files, avgfiles>>

AllHere_NoReduction ==  \* mistake: a rank does not hold up the others
  \E r \in Rank : pc[r] = "solve"
AllHere == \A r \in Rank : pc[r] = "solve"

(* One time step.  The solver reduces norms over all ranks, so that it     *)
(* completes only when all of them have come to this step.  SaveSolutions  *)
(* begins with the frame; nothing of it is sure to be in the file before   *)
(* the stream is closed, so that it need not be a step of its own.         *)
FrameDue(step) == (step + 1) % saveSolFreq = 0
CheckpointDue(step) == (step + 1) % saveRestart = 0
NextPc(step) == IF step + 1 < tsteps THEN "solve" ELSE "done"

SolveStep ==
  LET dt == Dt[currentstep + 2]
  IN
  /\ job = "up"
  /\ AllHere
  /\ currentstep' = currentstep + 1
  /\ mem' = [r \in Rank |-> [k \in Kinds |-> Append(mem[r][k], dt)]]
  /\ udgavg' = [r \in Rank |-> udgavg[r] + 1]
  /\ time' = time + dt
  /\ pc' = [r \in Rank |->
              IF CheckpointDue(currentstep') THEN "udg" ELSE NextPc(currentstep')]
  /\ frames' = [r \in Rank |->
                  IF FrameDue(currentstep') THEN Append(frames[r], mem'[r]["udg"])
                  ELSE frames[r]]
  /\ UNCHANGED <<runs, job, timestepOffset, files, avgfiles>>

(* SaveSolutions on rank r: the files are written in the order udg, the    *)
(* time average, wdg, uhat; each is opened, which empties it, and closed.  *)
CheckpointNumber_NoOffset == currentstep + 1  \* mistake: named by the run
CheckpointNumber == currentstep + timestepOffset + 1
After == [udg |-> "avg", wdg |-> "uhat"]
Writing == [udg |-> "udg_open", wdg |-> "wdg_open", uhat |-> "uhat_open"]

OpenFile(r, k) ==
  /\ job = "up"
  /\ pc[r] = k
  /\ files' = [files EXCEPT ![r][k][CheckpointNumber] = torn]
  /\ pc' = [pc EXCEPT ![r] = Writing[k]]
  /\ UNCHANGED <<runs, job, timestepOffset, currentstep, mem, time, udgavg,
                 avgfiles, frames>>

CloseFile(r, k) ==
  /\ job = "up"
  /\ pc[r] = Writing[k]
  /\ files' = [files EXCEPT ![r][k][CheckpointNumber] = Holds(mem[r][k])]
  /\ pc' = [pc EXCEPT ![r] =
              IF k = "uhat" THEN NextPc(currentstep) ELSE After[k]]
  /\ UNCHANGED <<runs, job, timestepOffset, currentstep, mem, time, udgavg,
                 avgfiles, frames>>

OpenAverage(r) ==
  /\ job = "up"
  /\ pc[r] = "avg"
  /\ avgfiles' = [avgfiles EXCEPT ![r]["solavg_np"] = torn]
  /\ pc' = [pc EXCEPT ![r] = "avg_open"]
  /\ UNCHANGED <<runs, job, timestepOffset, currentstep, mem, time, udgavg,
                 files, frames>>

CloseAverage(r) ==
  /\ job = "up"
  /\ pc[r] = "avg_open"
  /\ avgfiles' = [avgfiles EXCEPT ![r]["solavg_np"] = Holds(udgavg[r])]
  /\ pc' = [pc EXCEPT ![r] = "wdg"]
  /\ UNCHANGED <<runs, job, timestepOffset, currentstep, mem, time, udgavg,
                 files, frames>>

(* The job ends, or dies: what was in memory is lost, and with it the      *)
(* frames that a stream still held, on each rank another number of them.   *)
(* (A frame of which only a part is in the file is refused by its readers: *)
(* it is counted as lost.)                                                 *)
InMemory == [k \in Kinds |-> <<>>]
Stop ==
  /\ job = "up"
  /\ job' = "down"
  /\ pc' = [r \in Rank |-> "done"]
  /\ mem' = [r \in Rank |-> InMemory]
  /\ udgavg' = [r \in Rank |-> 0]
  /\ time' = 0
  /\ \E kept \in [Rank -> 0 .. tsteps] :
       /\ \A r \in Rank : kept[r] <= Len(frames[r])
       /\ frames' = [r \in Rank |-> SubSeq(frames[r], 1, kept[r])]
  /\ UNCHANGED <<runs, timestepOffset, currentstep, files, avgfiles>>

Init ==
  /\ runs = 0 /\ job = "down"
  /\ timestepOffset = 0 /\ currentstep = -1
  /\ pc = [r \in Rank |-> "done"]
  /\ mem = [r \in Rank |-> InMemory]
  /\ time = 0
  /\ udgavg = [r \in Rank |-> 0]
  /\ files = [r \in Rank |-> [k \in Kinds |-> [n \in Number |-> absent]]]
  /\ avgfiles = [r \in Rank |-> [f \in {"avg_np", "solavg_np"} |-> absent]]
  /\ frames = [r \in Rank |-> <<>>]

Next ==
  \/ \E n \in {0} \cup Number : Start(n)
  \/ SolveStep
  \/ \E r \in Rank : \E k \in Kinds : OpenFile(r, k) \/ CloseFile(r, k)
  \/ \E r \in Rank : OpenAverage(r) \/ CloseAverage(r)
  \/ Stop

Spec == Init /\ [][Next]_vars

-----------------------------------------------------------------------------
(* Properties.                                                             *)

Steps == Seq({0} \cup ToSet(Dt))
File(S) == {absent, torn} \cup [is : {"whole"}, content : S]

(* Every variable has its type.                                            *)
TypeOK ==
  /\ runs \in 0 .. MaxRuns /\ job \in {"up", "down"}
  /\ timestepOffset \in {0} \cup Number
  /\ currentstep \in -1 .. tsteps - 1
  /\ pc \in [Rank -> {"solve", "done", "udg", "udg_open", "avg", "avg_open",
                      "wdg", "wdg_open", "uhat", "uhat_open"}]
  /\ mem \in [Rank -> [Kinds -> Steps]]
  /\ time \in Nat
  /\ udgavg \in [Rank -> Nat]
  /\ files \in [Rank -> [Kinds -> [Number -> File(Steps)]]]
  /\ avgfiles \in [Rank -> [{"avg_np", "solavg_np"} -> File(0 .. tsteps * MaxRuns)]]
  /\ frames \in [Rank -> Seq(Steps)]

Whole(n) == \A r \in Rank : \A k \in Kinds : files[r][k][n].is = "whole"
Untorn == \A r \in Rank : \A k \in Kinds : ~IsPrefix(Garbage, mem[r][k])

(* A run continues from the step it was restarted from: on every rank the  *)
(* three arrays hold the solution of step timestepOffset plus those of the *)
(* run, unless a file it read was torn by the death of an earlier run.     *)
RestartConsistent ==
  (job = "up" /\ Untorn) =>
    /\ \A r, s \in Rank : \A k, l \in Kinds : mem[r][k] = mem[s][l]
    /\ \A r \in Rank : \A k \in Kinds :
         Len(mem[r][k]) = timestepOffset + currentstep + 1

(* A sum of steps, as the number of units of time in them.                 *)
Total(steps) == Cardinality(UNION {{j} \X (1 .. steps[j]) : j \in DOMAIN steps})

(* The time of the run is the time its solution has reached ("restart:     *)
(* Restart timestep").  With steps of one size only: see RestartTime.      *)
TimeOfSolution ==
  (job = "up" /\ Untorn) => \A r \in Rank : time = Total(mem[r]["udg"])

(* The main invariant: types, and a run that continues from what it read   *)
(* and from the time that belongs to it.                                   *)
CheckpointInv == TypeOK /\ RestartConsistent /\ TimeOfSolution

(* While a checkpoint is being written the one before it is whole on all   *)
(* ranks, so that there is always one to restart from: no rank runs ahead. *)
OneCheckpointAtRisk ==
  job = "up" =>
    \A n \in Number :
      (n > timestepOffset /\ n < CheckpointNumber /\
       (n - timestepOffset) % saveRestart = 0) => Whole(n)

(* A run never touches the checkpoint it was restarted from nor an older   *)
(* one: dying again, it loses nothing but its own work.                    *)
OlderCheckpointsKept ==
  [][\A r \in Rank : \A k \in Kinds : \A n \in Number :
       n <= timestepOffset => files'[r][k][n] = files[r][k][n]]_vars

(* The file of frames is of one run and no frame is missing from its       *)
(* middle, whatever died before: the frames two ranks have in the same     *)
(* place are of the same step, and saveSolFreq steps lie between each and  *)
(* the next.  Who reads the file knows a frame by its place alone          *)
(* (getsolutions.m), and joins the blocks of the ranks.                    *)
FramesOfOneRun ==
  (\A r \in Rank : \A k \in DOMAIN frames[r] : ~IsPrefix(Garbage, frames[r][k])) =>
    \A r, s \in Rank : \A k \in DOMAIN frames[r] :
      /\ k \in DOMAIN frames[s] => frames[r][k] = frames[s][k]
      /\ k + 1 \in DOMAIN frames[r] =>
           Len(frames[r][k + 1]) = Len(frames[r][k]) + saveSolFreq

(* A restarted run loses no frame of the run it continues.  The code does  *)
(* not have this one: open_and_write empties the file.                     *)
FramesKept ==
  [][\A r \in Rank : frames[r] # <<>> => frames'[r] # <<>>]_vars

(* "flag to read time-averaged solution udg from file": after a restart    *)
(* from step n the average goes on from the one written at step n.  The    *)
(* code does not have this one: it reads a file nothing writes.            *)
AverageContinues ==
  (job = "up" /\ Untorn) => \A r \in Rank : udgavg[r] = Len(mem[r]["udg"])
=============================================================================

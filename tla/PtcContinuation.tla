--------------------------- MODULE PtcContinuation ---------------------------
(***************************************************************************)
(* Pseudo-transient continuation to a steady state:                        *)
(* CSolution::SteadyProblem_PTC (src/backend/Solution/solution.cpp), HDG.  *)
(*                                                                         *)
(* Every pseudo-time step makes one Newton step and looks at how much a    *)
(* monitor changed.  A large change rejects the step: the solution is put  *)
(* back and the next step is ten times smaller.  A small change doubles    *)
(* the step, and a very small one looks whether the steady state is        *)
(* reached (runmode 10) or starts the steady solver (runmode 11).          *)
(*                                                                         *)
(* A solution array is abstracted to the steps whose increments it         *)
(* contains; of sol.udg the conserved components and the gradient, which   *)
(* hdgGetQ computes from them and from the trace uh, are kept apart.  The  *)
(* time step is a decimal fraction, computed with exactly.  One DIRK stage *)
(* per step (torder 1).                                                    *)
(***************************************************************************)
EXTENDS Integers, Sequences

CONSTANTS
  tsteps,   \* number of time steps; dt has this many entries
  Num0,     \* dt[0] is one of these
  Ten0      \* over ten to one of these

ASSUME TstepsAssumption == tsteps \in Nat \ {0}
ASSUME Dt0Assumption == Num0 \subseteq Nat \ {0} /\ Ten0 \subseteq Nat

Step == 0 .. tsteps - 1
Steady == tsteps  \* stands for the increments of the steady solver

VARIABLES
  runmode,       \* common.runmode: 10 or 11
  istep, pc,
  dt,            \* dt[istep], as [num |-> a, ten |-> b]: a / 10^b
  udg, q,        \* sol.udg: the first ncu components, and the gradient
  uh, u, w,      \* sol.uh, sys.u, sol.wdg
  udgprev,       \* sys.udgprev
  elapsed,       \* the steps whose dt the local variable time has added
  accepted,      \* the steps not rejected (history)
  tdep, maxiter, \* common.tdep; nonlinearSolverMaxIter: 1, or the user's
  conv_flag,
  saved,         \* the solutions SaveSolutions has appended
  end            \* why the loop ended

vars == <<runmode, istep, pc, dt, udg, q, uh, u, w, udgprev, elapsed, accepted,
          tdep, maxiter, conv_flag, saved, end>>

(* dt < 10^(-k) and dt > 10^(-k), in integers.                             *)
Below(d, k) == d.ten > k /\ d.num < 10 ^ (d.ten - k)
Above(d, k) == d.ten >= k => d.num > 10 ^ (d.ten - k)

(* hdgGetQ: the gradient from the element unknowns and the trace.          *)
GetQ == q' = udg' \cup uh'

-----------------------------------------------------------------------------
MoreSteps == istep < tsteps - 1

(* PreviousSolutions (the conserved components), UpdateSource and the      *)
(* Newton step: the system is linearised at udg and uh; u takes the        *)
(* increment and is copied to uh, from which the gradient is computed.     *)
Advance ==
  /\ pc = "step"
  /\ MoreSteps
  /\ maxiter' = "one"
  /\ udgprev' = udg
  /\ udg' = udg \cup {istep}
  /\ u' = u \cup {istep}
  /\ uh' = u'
  /\ GetQ
  /\ w' = w \cup {istep}
  /\ pc' \in {"decide", "aborted"}  \* NewtonSolver may call error()
  /\ UNCHANGED <<runmode, istep, dt, elapsed, accepted, tdep, conv_flag,
                 saved, end>>

(* The end of a step: dt[istep + 1] is set, time is advanced.              *)
NextStep(d) ==
  /\ elapsed' = elapsed \cup {istep}
  /\ dt' = d
  /\ istep' = istep + 1
  /\ pc' = "step"
  /\ UNCHANGED <<runmode, conv_flag, saved, tdep, maxiter, end>>

(* istep is set past the end: the loop ends, and time with it (the dt read *)
(* for it lies outside the array and is not used again).                   *)
LeaveLoop(why) ==
  /\ end' = why
  /\ pc' = "finish"
  /\ UNCHANGED <<runmode, istep, dt, elapsed>>

Restored_NotRestored == udg  \* mistake: the rejected increment is kept
Restored == udgprev

StepTooSmall(smaller) == Below(smaller, 8)

(* delta_monitor > 1 or alpha < 0.1: udg goes back, uh is its trace; sys.u *)
(* keeps the increment.                                                    *)
Reject ==
  LET smaller == [dt EXCEPT !.ten = @ + 1]
  IN
  /\ pc = "decide"
  /\ udg' = Restored
  /\ uh' = udg'
  /\ GetQ
  /\ IF StepTooSmall(smaller)
       THEN LeaveLoop("stalled") /\ UNCHANGED <<conv_flag, saved, tdep, maxiter>>
       ELSE NextStep(smaller)
  /\ UNCHANGED <<u, w, udgprev, accepted>>

(* A change neither large nor small, or too many GMRES iterations: the     *)
(* same dt.  A small one with a full Newton step: twice the dt.            *)
Accept(d) ==
  /\ pc = "decide"
  /\ accepted' = accepted \cup {istep}
  /\ NextStep(d)
  /\ UNCHANGED <<udg, q, uh, u, w, udgprev>>

AcceptSame == Accept(dt)
AcceptDouble == Accept([dt EXCEPT !.num = 2 * @])

(* delta_monitor < 1e-3 and dt > 1e-4: runmode 10 has found the steady     *)
(* residual, with the gradient computed again, below the tolerance         *)
(* (otherwise AcceptSame or AcceptDouble).                                 *)
SteadyReached ==
  /\ pc = "decide"
  /\ runmode = 10 /\ Above(dt, 4)
  /\ accepted' = accepted \cup {istep}
  /\ conv_flag' = 1
  /\ UNCHANGED <<udg, uh, u, w, udgprev, tdep, maxiter>>
  /\ GetQ
  /\ saved' = Append(saved, <<udg, q'>>)
  /\ LeaveLoop("steady")

(* Runmode 11: SolveProblem with tdep = 0 and the user's iteration limit;  *)
(* its InitSolution copies uh to u, its end saves.                         *)
SteadySolve ==
  /\ pc = "decide"
  /\ runmode = 11 /\ Above(dt, 4)
  /\ accepted' = accepted \cup {istep}
  /\ tdep' = 0
  /\ maxiter' = "user"
  /\ udg' = udg \cup {Steady}
  /\ uh' = uh \cup {Steady}
  /\ u' = uh'
  /\ GetQ
  /\ w' = w \cup {Steady}
  /\ \/ saved' = Append(saved, <<udg', q'>>) /\ LeaveLoop("steady")
     \/ pc' = "aborted" /\ UNCHANGED <<runmode, saved, end, istep, dt, elapsed>>
  /\ UNCHANGED <<udgprev, conv_flag>>

(* The loop condition fails.                                               *)
OutOfSteps ==
  /\ pc = "step"
  /\ ~MoreSteps
  /\ end' = "maxsteps"
  /\ pc' = "finish"
  /\ UNCHANGED <<runmode, istep, dt, udg, q, uh, u, w, udgprev, elapsed, accepted,
                 tdep, maxiter, conv_flag, saved>>

SavesAtTheEnd_MaxStepsOnly == end = "maxsteps"  \* mistake: not when stalled
SavesAtTheEnd == conv_flag = 0

(* After the loop: unless runmode 10 converged, warn and save.             *)
Finish ==
  /\ pc = "finish"
  /\ IF SavesAtTheEnd
       THEN /\ tdep' = 0
            /\ saved' = Append(saved, <<udg, q>>)
            /\ pc' = "warned"
       ELSE /\ pc' = "done"
            /\ UNCHANGED <<tdep, saved>>
  /\ UNCHANGED <<runmode, istep, dt, udg, q, uh, u, w, udgprev, elapsed, accepted,
                 maxiter, conv_flag, end>>

Init ==
  /\ runmode \in {10, 11}
  /\ istep = 0 /\ pc = "step"
  /\ dt \in [num : Num0, ten : Ten0]
  /\ udg = {} /\ q = {} /\ uh = {} /\ u = {} /\ w = {} /\ udgprev = {}
  /\ elapsed = {} /\ accepted = {}
  /\ tdep = 1 /\ maxiter = "user"
  /\ conv_flag = 0
  /\ saved = <<>>
  /\ end = "none"

Next ==
  \/ Advance
  \/ Reject \/ AcceptSame \/ AcceptDouble \/ SteadyReached \/ SteadySolve
  \/ OutOfSteps
  \/ Finish

Spec == Init /\ [][Next]_vars

-----------------------------------------------------------------------------
(* Properties.                                                             *)

Content == SUBSET (Step \cup {Steady})

(* Every variable has its type.                                            *)
TypeOK ==
  /\ runmode \in {10, 11}
  /\ istep \in Step
  /\ pc \in {"step", "decide", "finish", "warned", "done", "aborted"}
  /\ dt \in [num : Nat \ {0}, ten : Nat]
  /\ udg \in Content /\ q \in Content /\ uh \in Content /\ u \in Content /\ w \in Content
  /\ udgprev \in Content
  /\ elapsed \in SUBSET Step /\ accepted \in SUBSET Step
  /\ tdep \in {0, 1} /\ maxiter \in {"one", "user"} /\ conv_flag \in {0, 1}
  /\ saved \in Seq(Content \X Content)
  /\ end \in {"none", "steady", "stalled", "maxsteps"}

(* Between two steps the conserved components have taken exactly the       *)
(* accepted increments, however often steps are rejected in a row, and no  *)
(* accepted one is lost.                                                   *)
UdgKeepsAccepted ==
  pc \in {"step", "finish", "warned", "done"} => udg \ {Steady} = accepted

StepsMade == 0 .. istep - 1

(* The trace and the gradient have not: sys.u keeps every increment, and   *)
(* an accepted step takes both from it, so the increments rejected before  *)
(* come back with it.  They are those of the accepted steps only right     *)
(* after a rejection.                                                      *)
TraceKeepsRejected ==
  pc = "step" =>
    /\ u = StepsMade
    /\ q = uh
    /\ uh = IF istep - 1 \in accepted THEN StepsMade ELSE accepted

(* Once a step was rejected no step is made with dt below 1e-8.            *)
StepAboveFloor == pc = "step" /\ Below(dt, 8) => accepted = StepsMade

(* The main invariant: types, what the accepted and the rejected steps     *)
(* leave in the solution, and the floor of the step size.                  *)
ContinuationInv ==
  TypeOK /\ UdgKeepsAccepted /\ TraceKeepsRejected /\ StepAboveFloor

(* The result a user reads last from the file is the last solution kept.   *)
LastSavedIsFinal == pc \in {"warned", "done"} =>
  saved # <<>> /\ saved[Len(saved)] = <<udg, q>>

(* "solve the linear system:  J(u) x = -R(u)": the system is linearised at *)
(* the iterate the increment is added to.                                  *)
LinearisedAtU == pc = "step" => uh = u

(* "Revert time step": the time of a step counts the accepted steps only.  *)
(* The code does not have this one: NextStep adds rejected steps too.      *)
TimeReverted == pc = "step" => elapsed = accepted

(* "PTC reached max iterations without converging."  Nor this one:         *)
(* conv_flag stays 0 after the steady solver of runmode 11 and a stall.    *)
WarningMeansMaxSteps == pc = "warned" => end = "maxsteps"
=============================================================================

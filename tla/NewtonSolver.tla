----------------------------- MODULE NewtonSolver -----------------------------
(***************************************************************************)
(* The damped Newton method of the HDG scheme: CSolution::NewtonSolver     *)
(* (src/backend/Solution/solution.cpp) with LinearSolver and UpdateRB      *)
(* (src/backend/Solver/ptcsolver.cpp), called once per time step.          *)
(*                                                                         *)
(* The unknown is kept three times: sys.u, its copy sol.uh, and the        *)
(* element unknowns in sol.udg that are condensed out of the linear        *)
(* system.  Each is abstracted to the step lengths, in sixteenths, with    *)
(* which it has taken the increments x_1, x_2, ... of the linear solves:   *)
(* 1 :> 16 @@ 2 :> 4 stands for u_0 + x_1 + x_2/4.  The residual norm is   *)
(* one of a few levels, or not a number.                                   *)
(***************************************************************************)
EXTENDS Integers

CONSTANTS
  maxit,     \* nonlinearSolverMaxIter
  MaxCalls,  \* bound: calls of NewtonSolver (time steps)
  MaxNorm,   \* residual levels 0 .. MaxNorm; level 0 is below tol
  TooLarge,  \* the levels from here on exceed 1e6
  RBdim      \* capacity of the reduced basis

ASSUME NewtonAssumption == maxit \in Nat \ {0} /\ MaxCalls \in Nat /\ RBdim \in Nat
ASSUME NormAssumption == MaxNorm \in Nat /\ TooLarge \in 1 .. MaxNorm

Solves == 1 .. maxit * MaxCalls

VARIABLES
  u, uh, udg,  \* steps taken by sys.u, sol.uh and sol.udg
  normOf,      \* the <<uh, udg>> at which q, w and nrmr were computed
  nrm0, nrmr,  \* residual norms
  n,           \* number of linear solves so far; sys.x holds increment n
  x,           \* scale of sys.x: 16 as solved, 0 if the increment is zero
  alpha,       \* sys.alpha, in sixteenths
  it, calls, pc,
  streams,     \* the output files: "open", or "closed" by the abort
  W, U, RBcurrentdim, RBremovedind  \* see ReducedBasis

rb == <<W, U, RBcurrentdim, RBremovedind>>
vars == <<u, uh, udg, normOf, nrm0, nrmr, n, x, alpha, it, calls, pc,
          streams, W, U, RBcurrentdim, RBremovedind>>

NaN == -1
Norm == {NaN} \cup 0 .. MaxNorm

(* a < b on floating-point numbers: false when one is not a number.        *)
Less(a, b) == a # NaN /\ b # NaN /\ a < b

Increment == [solve : Solves, step : 0 .. 16]
Never == [solve |-> 0, step |-> 0]
RB == INSTANCE ReducedBasis WITH Vec <- Increment, NoVec <- Never

-----------------------------------------------------------------------------
(* ArrayAXPY and UpdateUDG with the increment of the last solve.           *)
AXPY(y, a) == [y EXCEPT ![n] = @ + a]

(* hdgGetQ, GetW and hdgAssembleResidual at the new iterate: norm r.       *)
EvaluateResidual(r) ==
  /\ normOf' = <<uh', udg'>>
  /\ nrmr' = r

(* Save the last iterate, close every stream, error().                     *)
Abort ==
  /\ streams' = "closed"
  /\ pc' = "aborted"

(* A call: the initial residual, and the abort if it is not a number.      *)
Call(r) ==
  /\ pc = "idle"
  /\ calls < MaxCalls
  /\ calls' = calls + 1
  /\ it' = 0
  /\ UNCHANGED <<u, uh, udg, nrm0, n, x, alpha, rb>>
  /\ EvaluateResidual(r)
  /\ IF r = NaN THEN Abort ELSE pc' = "solve" /\ UNCHANGED streams

(* LinearSolver: assemble at the iterate, take the guess from the basis,   *)
(* GMRES, whose result may be zero.                                        *)
Solve(zero) ==
  /\ pc = "solve"
  /\ IF RBcurrentdim > 0 THEN RB!ComputeInitialGuess(n) ELSE UNCHANGED rb
  /\ n' = n + 1
  /\ x' = IF zero THEN 0 ELSE 16
  /\ pc' = "step"
  /\ UNCHANGED <<u, uh, udg, normOf, nrm0, nrmr, alpha, it, calls, streams>>

(* The full step, its residual r, and the abort.                           *)
FullStep(r) ==
  /\ pc = "step"
  /\ alpha' = 16
  /\ u' = AXPY(u, 16)
  /\ uh' = u'
  /\ udg' = AXPY(udg, 16)
  /\ nrm0' = nrmr
  /\ EvaluateResidual(r)
  /\ IF r = NaN \/ (Less(nrmr, r) /\ r >= TooLarge)
       THEN Abort
       ELSE pc' = "search" /\ UNCHANGED streams
  /\ UNCHANGED <<n, x, it, calls, rb>>

(* nrmr > nrm0 and alpha > 0.1.                                            *)
MustHalve_NoFloor == Less(nrm0, nrmr)  \* mistake: no lower bound on alpha
MustHalve_EarlyFloor ==                \* mistake: stops at alpha = 0.125
  Less(nrm0, nrmr) /\ 10 * alpha > 32
MustHalve == Less(nrm0, nrmr) /\ 10 * alpha > 16

StepBack_OldAlpha == alpha  \* mistake: the step taken, not half of it
StepBack == alpha'

Halve(r) ==
  /\ pc = "search"
  /\ MustHalve
  /\ alpha' = alpha \div 2
  /\ u' = AXPY(u, -StepBack)
  /\ uh' = u'
  /\ udg' = AXPY(udg, -StepBack)
  /\ EvaluateResidual(r)
  /\ UNCHANGED <<nrm0, n, x, it, calls, pc, streams, rb>>

Scaled_Unscaled == x  \* mistake: the increment is not scaled
Scaled == (x * alpha) \div 16

LastIteration == it + 1 = maxit

(* The scaled increment enters the basis unless it is zero.                *)
FinishIteration ==
  /\ pc = "search"
  /\ ~MustHalve
  /\ x' = Scaled
  /\ IF RBdim > 0 /\ x' > 0
       THEN RB!UpdateRB([solve |-> n, step |-> x'])
       ELSE UNCHANGED rb
  /\ it' = it + 1
  /\ pc' = IF Less(nrmr, 1) \/ LastIteration THEN "idle" ELSE "solve"
  /\ UNCHANGED <<u, uh, udg, normOf, nrm0, nrmr, n, alpha, calls, streams>>

Init ==
  /\ u = [s \in Solves |-> 0] /\ uh = u /\ udg = u
  /\ normOf = <<uh, udg>>
  /\ nrm0 = MaxNorm /\ nrmr = MaxNorm
  /\ n = 0 /\ x = 0 /\ alpha = 16
  /\ it = 0 /\ calls = 0
  /\ pc = "idle"
  /\ streams = "open"
  /\ RB!RBInit

Next ==
  \/ \E r \in Norm : Call(r) \/ FullStep(r) \/ Halve(r)
  \/ \E zero \in BOOLEAN : Solve(zero)
  \/ FinishIteration

Spec == Init /\ [][Next]_vars

(* One sequential process: it runs on.                                     *)
FairSpec == Spec /\ WF_vars(Next)

-----------------------------------------------------------------------------
(* Properties.                                                             *)

Steps == [Solves -> 0 .. 16]

(* Every variable has its type.                                            *)
TypeOK ==
  /\ u \in Steps /\ uh \in Steps /\ udg \in Steps
  /\ normOf \in Steps \X Steps
  /\ nrm0 \in Norm /\ nrmr \in Norm
  /\ n \in 0 .. maxit * MaxCalls
  /\ x \in 0 .. 16 /\ alpha \in 0 .. 16
  /\ it \in 0 .. maxit /\ calls \in 0 .. MaxCalls
  /\ pc \in {"idle", "solve", "step", "search", "aborted"}
  /\ streams \in {"open", "closed"}
  /\ RB!RBTypeOK

(* The three copies of the unknown have taken the same steps, the line     *)
(* search leaves the step of the last increment at exactly alpha, and the  *)
(* norm that decides is that of the iterate the solver keeps.              *)
IterateConsistent ==
  /\ uh = u /\ udg = u
  /\ pc = "search" => u[n] = alpha
  /\ normOf = <<uh, udg>>

(* The main invariant: types, and the copies of the iterate consistent.    *)
NewtonInv == TypeOK /\ IterateConsistent

(* The basis holds increments as they were applied, damping included, each *)
(* at most once.                                                           *)
BasisHoldsSteps ==
  \A c \in RB!Column : W[c] # Never =>
    /\ pc # "search" => W[c].step = u[W[c].solve]
    /\ \A d \in RB!Column \ {c} : W[d] # Never => W[d].solve # W[c].solve

(* A caller that looks at alpha < 0.1, as SteadyProblem_PTC does, sees     *)
(* every iteration that ended with a larger norm than it started from.     *)
FailureVisible ==
  (pc \in {"idle", "solve"} /\ it > 0 /\ Less(nrm0, nrmr)) => 10 * alpha < 16

(* "Residual norm increases more than 1e6 or nan. Save and exit."  Holds   *)
(* of the full step only: a norm that becomes NaN in the line search of    *)
(* the last iteration is returned, so the code does not have this one.     *)
NanExits == pc = "idle" => nrmr # NaN

(* Every call returns or aborts.                                           *)
CallsEnd == []<>(pc \in {"idle", "aborted"})
=============================================================================

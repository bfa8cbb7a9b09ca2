------------------------------- MODULE PtcSolver -------------------------------
(***************************************************************************)
(* The nonlinear solver of the LDG scheme: CSolution::PTCsolver            *)
(* (src/backend/Solution/solution.cpp) with its LinearSolver and UpdateRB  *)
(* (src/backend/Solver/ptcsolver.cpp), called once per time step.          *)
(*                                                                         *)
(* A linear solve starts from a guess out of the reduced basis, evaluated  *)
(* at a trial iterate v = u + x.  A good guess is taken as it is and GMRES *)
(* is skipped; a bad one is dropped together with the basis.               *)
(*                                                                         *)
(* Iterates are numbered: u is the number of increments it has taken.  An  *)
(* increment is known by the number of its linear solve.                   *)
(***************************************************************************)
EXTENDS ReducedBasis, Sequences

CONSTANTS
  maxit,    \* nonlinearSolverMaxIter
  MaxCalls  \* bound: calls of PTCsolver (time steps)

ASSUME PtcAssumption == maxit \in Nat \ {0} /\ MaxCalls \in Nat
ASSUME PtcVecAssumption == Vec = 1 .. maxit * MaxCalls

VARIABLES
  u,          \* sys.u: increments taken
  udg,        \* the iterate sol.udg was computed for: n, or n + 1/2 (Trial)
  b,          \* the iterate the right-hand side was computed for
  n,          \* number of linear solves so far
  x,          \* sys.x: "zero", "guess" or "gmres"
  status,     \* what LinearSolver returned
  converged,  \* nrmr < tol at the last evaluation
  combined,   \* the solves whose increment was the guess (history)
  stored,     \* the solves UpdateRB has stored, in order (history)
  it, calls, pc

vars == <<W, U, RBcurrentdim, RBremovedind, u, udg, b, n, x, status,
          converged, combined, stored, it, calls, pc>>

(* Twice the iterate, so that the trial iterate u + x is 2*u + 1.          *)
At(iterate) == 2 * iterate
Trial == 2 * u + 1

-----------------------------------------------------------------------------
(* PTCsolver: the residual at the iterate of the new time step.            *)
Call ==
  /\ pc = "idle"
  /\ calls < MaxCalls
  /\ calls' = calls + 1
  /\ it' = 0
  /\ udg' = At(u)
  /\ pc' = "solve"
  /\ UNCHANGED <<rbvars, u, b, n, x, status, converged, combined, stored>>

(* LinearSolver with an empty basis: the right-hand side and x = 0.        *)
SolveFromZero ==
  /\ pc = "solve"
  /\ RBcurrentdim = 0
  /\ n' = n + 1
  /\ b' = At(u) /\ udg' = At(u)
  /\ x' = "zero"
  /\ pc' = "gmres"
  /\ UNCHANGED <<rbvars, u, status, converged, combined, stored, it, calls>>

(* With a basis: the guess, and the residual at the trial iterate.         *)
Guess ==
  /\ pc = "solve"
  /\ ComputeInitialGuess(u)
  /\ n' = n + 1
  /\ b' = At(u) /\ udg' = Trial
  /\ x' = "guess"
  /\ pc' = "guessed"
  /\ UNCHANGED <<u, status, converged, combined, stored, it, calls>>

(* Its norm exceeds 1.05 times the old one: drop the guess and the basis.  *)
(* A norm below the tolerance ends the linear solve; not a number is       *)
(* neither.                                                                *)
JudgeGuess(worse, small) ==
  /\ pc = "guessed"
  /\ IF worse THEN x' = "zero" /\ ResetRB
              ELSE UNCHANGED <<x, rbvars>>
  /\ IF small
       THEN /\ status' = 1
            /\ combined' = combined \cup {n}
            /\ pc' = "update"
       ELSE /\ pc' = "gmres"
            /\ UNCHANGED <<status, combined>>
  /\ UNCHANGED <<u, udg, b, n, converged, stored, it, calls>>

(* GMRES evaluates the residual at perturbed iterates; its x may be zero.  *)
RunGmres(zero) ==
  /\ pc = "gmres"
  /\ x' = IF zero THEN "zero" ELSE "gmres"
  /\ udg' = Trial
  /\ status' = 0
  /\ pc' = "update"
  /\ UNCHANGED <<rbvars, u, b, n, converged, combined, stored, it, calls>>

StoreIncrement_Always ==  \* mistake: a guess is stored too
  IF RBdim > 0 /\ x # "zero"
    THEN UpdateRB(n) /\ stored' = Append(stored, n)
    ELSE UNCHANGED <<rbvars, stored>>

(* The increment enters the basis unless it came from it.                  *)
StoreIncrement ==
  IF status = 0 /\ RBdim > 0 /\ x # "zero"
    THEN UpdateRB(n) /\ stored' = Append(stored, n)
    ELSE UNCHANGED <<rbvars, stored>>

EvaluatedAt_Trial ==  \* mistake: the evaluation of a good guess is reused
  IF status = 1 THEN udg ELSE At(u')
EvaluatedAt == At(u')

LastIteration == it + 1 = maxit

(* u = u + x, the residual there, the abort, the basis, the exit test.     *)
Update(tooLarge, below) ==
  /\ pc = "update"
  /\ u' = u + 1
  /\ udg' = EvaluatedAt
  /\ converged' = below
  /\ IF tooLarge
       THEN /\ pc' = "aborted"
            /\ UNCHANGED <<rbvars, stored, it>>
       ELSE /\ StoreIncrement
            /\ it' = it + 1
            /\ pc' = IF below \/ LastIteration THEN "idle" ELSE "solve"
  /\ UNCHANGED <<b, n, x, status, combined, calls>>

Init ==
  /\ RBInit
  /\ u = 0 /\ udg = 0 /\ b = 0 /\ n = 0
  /\ x = "zero" /\ status = 0 /\ converged = FALSE
  /\ combined = {} /\ stored = <<>>
  /\ it = 0 /\ calls = 0
  /\ pc = "idle"

Next ==
  \/ Call \/ SolveFromZero \/ Guess
  \/ \E worse, small \in BOOLEAN : JudgeGuess(worse, small)
  \/ \E zero \in BOOLEAN : RunGmres(zero)
  \/ \E tooLarge, below \in BOOLEAN : ~(tooLarge /\ below) /\ Update(tooLarge, below)

Spec == Init /\ [][Next]_vars

-----------------------------------------------------------------------------
(* Properties.                                                             *)

(* Every variable has its type.                                            *)
TypeOK ==
  /\ RBTypeOK
  /\ u \in 0 .. maxit * MaxCalls
  /\ udg \in 0 .. 2 * maxit * MaxCalls /\ b \in 0 .. 2 * maxit * MaxCalls
  /\ n \in 0 .. maxit * MaxCalls
  /\ x \in {"zero", "guess", "gmres"}
  /\ status \in {0, 1} /\ converged \in BOOLEAN
  /\ combined \in SUBSET Vec /\ stored \in Seq(Vec)
  /\ it \in 0 .. maxit /\ calls \in 0 .. MaxCalls
  /\ pc \in {"idle", "solve", "guessed", "gmres", "update", "aborted"}

(* Between two linear solves and on return sol.udg belongs to the iterate  *)
(* sys.u, whatever trial iterates the guess and GMRES have evaluated.      *)
UdgIsIterate == pc \in {"idle", "solve", "aborted"} => udg = At(u)

(* The main invariant: types, and udg at the iterate.                      *)
PtcInv == TypeOK /\ UdgIsIterate

(* The columns in use hold the last RBcurrentdim increments stored,        *)
(* through every wrap of the ring and every reset of it.                   *)
BasisIsRecent ==
  LET L == Len(stored)
  IN /\ RBcurrentdim <= L
     /\ {W[c] : c \in 0 .. RBcurrentdim - 1}
          = {stored[L - age] : age \in 0 .. RBcurrentdim - 1}

(* The columns are those of different linear solves and none is itself a   *)
(* combination of the others, for the matrix U'*U of the next guess is     *)
(* inverted ("fix bug here", solution.cpp).                                *)
ColumnsIndependent ==
  \A c \in 0 .. RBcurrentdim - 1 :
    /\ W[c] \notin combined
    /\ \A d \in 0 .. RBcurrentdim - 1 : c # d => W[c] # W[d]

(* Which matrices a guess mixes: the product of the newest column is with  *)
(* the Jacobian of this solve ("compute V = J(u)*W"), that of every older  *)
(* column with the Jacobian of the solve whose increment was stored next,  *)
(* and each belongs to the increment beside it.  No reset or wrap of the   *)
(* ring leaves an older product in use.                                    *)
GuessFromItsColumns ==
  LET L == Len(stored)
      IterateOf(age) == IF age = 0 THEN u ELSE stored[L - age + 1] - 1
  IN pc = "guessed" =>
       \A c, age \in 0 .. RBcurrentdim - 1 :
         W[c] = stored[L - age] => U[c] = Product(W[c], IterateOf(age))
=============================================================================

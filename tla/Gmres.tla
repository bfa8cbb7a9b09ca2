-------------------------------- MODULE Gmres --------------------------------
(***************************************************************************)
(* Restarted GMRES (src/backend/Solver/gmres.cpp): the control of the two  *)
(* overloads, the one of the LDG scheme and the one that serves HDG.       *)
(*                                                                         *)
(* Arithmetic is abstracted to what was computed from what.  A column of   *)
(* the Krylov basis v and of the Hessenberg matrix H holds the number of   *)
(* the restart cycle that computed it, 0 if none did: the arrays are       *)
(* allocated once and never cleared.  x is the columns it has been updated *)
(* with.                                                                   *)
(***************************************************************************)
EXTENDS Integers

CONSTANTS
  MaxMaxit, MaxNrest,  \* bounds of maxit and nrest
  WholeCycles          \* LDG solves are given a maxit nrest divides

ASSUME BoundsAssumption == MaxMaxit \in Nat \ {0} /\ MaxNrest \in Nat \ {0}
ASSUME WholeAssumption == WholeCycles \in BOOLEAN

VARIABLES
  maxit,      \* linearSolverMaxIter
  nrest,      \* gmresRestart
  hybrid,     \* 1: the overload with spatialScheme (HDG), 0: LDG
  pc,
  i, j,       \* column in the cycle, iterations in all
  cycle,      \* number of the restart cycle
  H,          \* H[c]: the cycle that computed column c of H and of v
  x,          \* the <<update, cycle, column>> added to x so far
  updates,    \* number of updates of x
  relError,   \* linearSolverRelError: "below" tol, "above", or "nan"
  result      \* what GMRES returns; -1 before

inputs == <<maxit, nrest, hybrid>>
vars == <<inputs, pc, i, j, cycle, H, x, updates, relError, result>>

RelErrors == {"below", "above", "nan"}

-----------------------------------------------------------------------------
UpdateSolution_OneLess(k) ==  \* mistake: the last column is left out
  /\ x' = x \cup {<<updates + 1, H[c], c>> : c \in 0 .. k - 1}
  /\ updates' = updates + 1

(* x := x + V*y with y = H^(-1) s, over columns 0 .. k.                    *)
UpdateSolution(k) ==
  /\ x' = x \cup {<<updates + 1, H[c], c>> : c \in 0 .. k}
  /\ updates' = updates + 1

Return(value) ==
  /\ pc' = "returned"
  /\ result' = value

(* The right-hand side is already below the tolerance: x = 0.  (HDG)       *)
NothingToDo ==
  /\ pc = "entry"
  /\ hybrid = 1
  /\ x' = {}
  /\ Return(0)
  /\ UNCHANGED <<inputs, i, j, cycle, H, updates, relError>>

(* The residual of the initial guess.                                      *)
Enter ==
  /\ pc = "entry"
  /\ pc' = "outer"
  /\ UNCHANGED <<inputs, i, j, cycle, H, x, updates, relError, result>>

(* A cycle starts, or all iterations are used.                             *)
StartCycle ==
  /\ pc = "outer"
  /\ j < maxit
  /\ cycle' = cycle + 1
  /\ i' = 0
  /\ pc' = "inner"
  /\ UNCHANGED <<inputs, j, H, x, updates, relError, result>>

Exhausted ==
  /\ pc = "outer"
  /\ j >= maxit
  /\ Return(j)
  /\ UNCHANGED <<inputs, i, j, cycle, H, x, updates, relError>>

InCycle == i < nrest /\ j < maxit

(* One column: product, preconditioner, orthogonalisation, Givens          *)
(* rotation, and the error estimate from it.                               *)
Column(e) ==
  /\ pc = "inner"
  /\ InCycle
  /\ H' = [H EXCEPT ![i] = cycle]
  /\ relError' = e
  /\ IF e = "below"
       THEN pc' = "converged" /\ UNCHANGED <<inputs, i, j>>
       ELSE i' = i + 1 /\ j' = j + 1 /\ UNCHANGED pc
  /\ UNCHANGED <<inputs, cycle, x, updates, result>>

UpdateAndReturn ==
  /\ pc = "converged"
  /\ UpdateSolution(i)
  /\ Return(j)
  /\ UNCHANGED <<inputs, i, j, cycle, H, relError>>

LastColumn_WholeBasis == nrest - 1  \* mistake for HDG: always nrest columns
LastColumn == IF hybrid = 1 THEN i - 1 ELSE nrest - 1

Converged_NotAbove(e) == e # "above"  \* mistake: not a number is converged
Converged(e) == e = "below"

(* The cycle is over: update x, compute the true residual, look at it.     *)
EndCycle(e) ==
  /\ pc = "inner"
  /\ ~InCycle
  /\ UpdateSolution(LastColumn)
  /\ relError' = e
  /\ IF Converged(e) THEN Return(j) ELSE pc' = "outer" /\ UNCHANGED result
  /\ UNCHANGED <<inputs, i, j, cycle, H>>

Init ==
  /\ maxit \in 1 .. MaxMaxit
  /\ nrest \in 1 .. MaxNrest
  /\ hybrid \in {0, 1}
  /\ (hybrid = 0 /\ WholeCycles) => maxit % nrest = 0
  /\ pc = "entry"
  /\ i = 0 /\ j = 0
  /\ cycle = 0
  /\ H = [c \in 0 .. nrest - 1 |-> 0]
  /\ x = {}
  /\ updates = 0
  /\ relError = "above"
  /\ result = -1

Next ==
  \/ NothingToDo \/ Enter \/ StartCycle \/ Exhausted \/ UpdateAndReturn
  \/ \E e \in RelErrors : Column(e) \/ EndCycle(e)

Spec == Init /\ [][Next]_vars

-----------------------------------------------------------------------------
(* Properties.                                                             *)

(* Every variable has its type: no column is computed beyond the nrest     *)
(* columns of H, and no iteration beyond maxit is counted.                 *)
TypeOK ==
  /\ maxit \in 1 .. MaxMaxit /\ nrest \in 1 .. MaxNrest /\ hybrid \in {0, 1}
  /\ pc \in {"entry", "outer", "inner", "converged", "returned"}
  /\ i \in 0 .. nrest /\ j \in 0 .. maxit
  /\ cycle \in 0 .. maxit
  /\ H \in [0 .. nrest - 1 -> 0 .. maxit]
  /\ x \in SUBSET ((1 .. maxit) \X (0 .. maxit) \X (0 .. nrest - 1))
  /\ updates \in 0 .. maxit
  /\ relError \in RelErrors
  /\ result \in -1 .. maxit

(* "Updates the solution vector using the computed Krylov basis and        *)
(* coefficients": the n-th update of x uses columns that cycle n computed, *)
(* none of an earlier cycle and none that was never computed.              *)
UpdateUsesComputed == \A p \in x : p[2] = p[1]

(* No column is lost: outside of a cycle, x has taken every column that    *)
(* was computed, so the iterations spent on it count.                      *)
NoColumnLost ==
  (pc \in {"outer", "returned"} /\ updates > 0) =>
    \A k \in 0 .. j - 1 :
      LET c == (k \div nrest) + 1 IN <<c, c, k % nrest>> \in x

(* The main invariant: types (no column beyond the nrest columns of H, no  *)
(* iteration beyond maxit), and no column lost.                            *)
GmresInv == TypeOK /\ NoColumnLost

(* A caller that reads the result as converged, result < maxit, is right.  *)
FewerMeansConverged ==
  (result \in 1 .. maxit - 1) => relError = "below"
=============================================================================

----------------------------- MODULE ReducedBasis -----------------------------
(***************************************************************************)
(* The reduced basis of the linear solver: a ring of at most RBdim past    *)
(* solution increments W and their products U = J(u)*W, from which each    *)
(* linear solve takes its initial guess (src/backend/Solver/ptcsolver.cpp, *)
(* src/backend/Preconditioning/preconditioner.cpp).                        *)
(*                                                                         *)
(* Only one product is recomputed per linear solve, the one of the column  *)
(* written last; the others keep the Jacobian of an earlier iterate.  So a *)
(* product is known by its increment and by the iterate of its matrix.     *)
(*                                                                         *)
(* Vectors are abstracted to their identities; columns are 0-based.        *)
(***************************************************************************)
EXTENDS Integers

CONSTANTS
  RBdim,   \* capacity of the ring
  Vec,     \* identities of solution increments
  NoVec    \* content of a column never written

ASSUME RBdimAssumption == RBdim \in Nat
ASSUME NoVecAssumption == NoVec \notin Vec

VARIABLES
  W,             \* W[c]: the increment in column c
  U,             \* U[c]: the increment and the iterate of the product J(u)*W
  RBcurrentdim,  \* columns in use
  RBremovedind   \* the column written next

rbvars == <<W, U, RBcurrentdim, RBremovedind>>

Column == 0 .. RBdim - 1

(* J(at) times the increment v; iterates are numbered.                     *)
Product(v, at) == [increment |-> v, iterate |-> at]

RBInit ==
  /\ W = [c \in Column |-> NoVec]
  /\ U = [c \in Column |-> Product(NoVec, 0)]
  /\ RBcurrentdim = 0
  /\ RBremovedind = 0

(* The column ComputeInitialGuessAndPreconditioner recomputes.             *)
LastColumn_NoWrap == RBremovedind - 1  \* mistake: the ring does not wrap
LastColumn == IF RBremovedind = 0 THEN RBcurrentdim - 1 ELSE RBremovedind - 1

(* ComputeInitialGuessAndPreconditioner: U = J(u)*W for that column, with  *)
(* the iterate sys.u of this solve; then the guess is taken from all the   *)
(* columns below RBcurrentdim.                                             *)
ComputeInitialGuess(at) ==
  /\ RBcurrentdim > 0
  /\ U' = [U EXCEPT ![LastColumn] = Product(W[LastColumn], at)]
  /\ UNCHANGED <<W, RBcurrentdim, RBremovedind>>

(* UpdateRB with an increment x # 0.                                       *)
UpdateRB(x) ==
  /\ W' = [W EXCEPT ![RBremovedind] = x]
  /\ RBcurrentdim' = IF RBcurrentdim < RBdim THEN RBcurrentdim + 1 ELSE RBcurrentdim
  /\ RBremovedind' = IF RBremovedind + 1 = RBdim THEN 0 ELSE RBremovedind + 1
  /\ UNCHANGED U

ResetRB_KeepsPosition ==  \* mistake: the position is not reset
  /\ RBcurrentdim' = 0
  /\ UNCHANGED <<W, U, RBremovedind>>

(* The LDG solver empties the basis after a guess that made things worse.  *)
ResetRB ==
  /\ RBcurrentdim' = 0
  /\ RBremovedind' = 0
  /\ UNCHANGED <<W, U>>

RBTypeOK ==
  /\ W \in [Column -> Vec \cup {NoVec}]
  /\ U \in [Column -> [increment : Vec \cup {NoVec}, iterate : Nat]]
  /\ RBcurrentdim \in 0 .. RBdim
  /\ RBremovedind \in 0 .. RBdim
=============================================================================

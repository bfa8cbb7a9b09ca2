------------------------ MODULE SynchronousEvaluation ------------------------
(***************************************************************************)
(* What the overlapped parallel evaluations promise the solver: every rank *)
(* evaluates the same sequence of iterates, the value of the n-th          *)
(* evaluation depends on the n-th iterate alone, on the rank and on its    *)
(* neighbours, and no rank is ahead of a neighbour by more than one        *)
(* evaluation.                                                             *)
(***************************************************************************)
EXTENDS Integers

CONSTANTS
  Rank,    \* the MPI ranks
  Nbr,     \* the neighbours of a rank
  MaxEval  \* number of evaluations of the run

VARIABLES
  done,    \* done[r]: evaluations rank r has completed
  sources  \* sources[r]: the iterates the last value of rank r depends on

Init ==
  /\ done = [r \in Rank |-> 0]
  /\ sources = [r \in Rank |-> {}]

Evaluate(r) ==
  /\ done[r] < MaxEval
  /\ \A k \in Nbr[r] : done[k] >= done[r]
  /\ done' = [done EXCEPT ![r] = @ + 1]
  /\ sources' = [sources EXCEPT ![r] = {done[r] + 1}]

Next == \E r \in Rank : Evaluate(r)

vars == <<done, sources>>

Spec == Init /\ [][Next]_vars

FairSpec == Spec /\ \A r \in Rank : WF_vars(Evaluate(r))
=============================================================================

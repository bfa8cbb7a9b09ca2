------------------------------ MODULE PtcSolverMC ------------------------------
(* Instance of PtcSolver for TLC: the increments are the linear solves.    *)
EXTENDS PtcSolver

Solves == 1 .. maxit * MaxCalls
=============================================================================

---------------------------- MODULE TimeSteppingMC ----------------------------
(* Instance of TimeStepping for TLC: coefficients that exercise both signs *)
(* and an absent term.                                                     *)
EXTENDS TimeStepping

SmallCoeff == {-1, 0, 1}
=============================================================================

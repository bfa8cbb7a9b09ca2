-------------------------- MODULE ResidualExchangeMC -------------------------
(* Instance of ResidualExchange for TLC: three ranks in a line, whose end  *)
(* ranks have no common neighbour but the middle and can drift apart.      *)
EXTENDS ResidualExchange

CONSTANTS r1, r2, r3

Ranks == {r1, r2, r3}
Line == [r \in Ranks |-> IF r = r2 THEN {r1, r3} ELSE {r2}]
=============================================================================

---------------------------- MODULE HdgExchangeMC ----------------------------
(* Instance of HdgExchange for TLC: a domain of two ranks, one of which    *)
(* touches a second domain of one rank.                                    *)
EXTENDS HdgExchange

CONSTANTS a1, a2, b1

Ranks == {a1, a2, b1}
InDomain == [r \in Ranks |-> CASE r = a1 -> {a2} [] r = a2 -> {a1} [] r = b1 -> {}]
AcrossInterface == [r \in Ranks |-> CASE r = a1 -> {} [] r = a2 -> {b1} [] r = b1 -> {a2}]
=============================================================================

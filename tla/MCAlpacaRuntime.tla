-------------------------- MODULE MCAlpacaRuntime --------------------------
(***************************************************************************)
(* Instances of AlpacaRuntime for TLC: at most two array elements a and b, *)
(* one scalar s and two tasks, the first of which writes everything.       *)
(***************************************************************************)
EXTENDS AlpacaRuntime

CONSTANTS a, b, s, t1, t2, none

const_War == [t \in {t1, t2} |-> IF t = t1 THEN {a, b, s} ELSE {a}]
live_War == [t \in {t1} |-> {a, b}]
=============================================================================

------------------------------- MODULE WatchMC -------------------------------
(* Instances of Watch for TLC.                                               *)
EXTENDS Watch

CONSTANTS f1, f2

\* Every write turns a healthy ledger into a corrupt one and back.
MCVerdictOf == [v \in 1..MaxVersion |-> IF v % 2 = 1 THEN "healthy" ELSE "invalid"]
=============================================================================

----------------------------- MODULE SealLedgerMC -----------------------------
(* Instances of SealLedger for TLC.                                          *)
EXTENDS SealLedger

CONSTANTS p1, p2
=============================================================================

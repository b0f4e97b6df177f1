--------------------------- MODULE RepairPublishMC ---------------------------
(* Instances of RepairPublish for TLC.                                       *)
EXTENDS RepairPublish, TLC

CONSTANTS r1, r2, tOut, tSrc

\* Version 1 rewrites the bytes and keeps the events, version 2 changes both.
MCEventsOf == [v \in Version |-> v \div 2]

\* Another program may create either file of a pair.
MCForeign == {<<"output", tOut>>, <<"manifest", tOut>>}
OneForeign == {<<"manifest", tOut>>}
NoForeign == {}

\* Every point but the windows; every point; every point but
\* the window of the output; none.
CleanInterrupts == (Stage \X (PC \ Ended)) \ InterruptWindows
AllInterrupts == Stage \X PC
UnlinkedInterrupts == AllInterrupts \ OutputWindow
NoInterrupts == {}

MCSymmetry == Permutations(Run)
=============================================================================

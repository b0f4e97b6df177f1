----------------------------- MODULE RepairRaceMC -----------------------------
(* Executors that race, in behaviours where anything may fail and in           *)
(* behaviours where nothing does.                                              *)
EXTENDS RepairPublishMC

VARIABLE calm   \* nothing fails in this behaviour: only the source may still change

RaceNext == IF calm THEN CalmNext ELSE Next

\* A process that is not killed runs on: execute takes no lock and waits for
\* nobody.  Faults and the environment are under no obligation.
RaceSpec ==
  /\ Init /\ calm \in BOOLEAN
  /\ [][RaceNext /\ UNCHANGED calm]_<<vars, calm>>
  /\ \A r \in Run : WF_vars(Execute(r))

\* Unless something fails, of the runs that race for one path at least one returns
\* its manifest: none can lose to another that then loses itself.
SomebodyWins == calm => SomeRunWins
=============================================================================

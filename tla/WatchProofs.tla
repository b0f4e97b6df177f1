----------------------------- MODULE WatchProofs -----------------------------
(***************************************************************************)
(* What the polling monitor guarantees for every set of files, every cap   *)
(* on its history and every interleaving with the agents that write,       *)
(* remove and restore the files.                                           *)
(***************************************************************************)
EXTENDS Watch, TLAPS

State == [sig : Version, stable : {0, 1}, verdict : Verdict \cup {None}]

TypeInv ==
  /\ disk \in [File -> Version]
  /\ DOMAIN states \subseteq File
  /\ \A f \in DOMAIN states : states[f] \in State
  /\ pending \subseteq File /\ seen \subseteq File /\ todo \subseteq File
  /\ pc \in {"list", "stat", "dispatch"}
  /\ told \in [File -> Verdict]

\* Eviction passes over what a poll saw, and only that can be pending then.
PendingInv ==
  /\ PendingTracked
  /\ pc = "dispatch" => pending \subseteq seen

\* A file without a verdict in the history never told anything, unless its
\* history was evicted.
UntoldHealthy ==
  \A f \in File \ forgotten :
    (f \in DOMAIN states => states[f].verdict = None) => told[f] = "healthy"

-----------------------------------------------------------------------------
\* The state of a file that is new or has changed; the others keep theirs.
LEMMA ChangedState ==
  ASSUME NEW f, StatChanged(f)
  PROVE  /\ DOMAIN states' = DOMAIN states \cup {f}
         /\ states'[f].verdict = IF f \in DOMAIN states THEN states[f].verdict ELSE None
         /\ \A g \in DOMAIN states : g # f => states'[g] = states[g]
  BY DEF StatChanged, Put

LEMMA VerdictFound ==
  ASSUME TypeInv, NEW f \in File, Present(f) PROVE VerdictOf[disk[f]] \in Verdict
  BY WatchAssumption DEF TypeInv, Present, Version

LEMMA TypeStep == ASSUME TypeInv, [Next]_vars PROVE TypeInv'
<1> USE DEF TypeInv, world
<1>1. CASE UNCHANGED vars
  BY <1>1 DEF vars
<1>2. ASSUME NEW f \in File, WriteFile(f) \/ RemoveFile(f) \/ RestoreFile(f) PROVE TypeInv'
  BY <1>2, WatchAssumption DEF WriteFile, RemoveFile, RestoreFile, Version
<1>3. CASE List
  BY <1>3, WatchAssumption DEF List
<1>4. CASE DropUnseen
  BY <1>4 DEF DropUnseen
<1>5. CASE EndPoll
  BY <1>5 DEF EndPoll, EvictAbsent
<1>6. ASSUME NEW f \in File, StatFails(f) \/ NotStable(f) PROVE TypeInv'
  BY <1>6 DEF StatFails, NotStable
<1>7. ASSUME NEW f \in File, StatChanged(f) PROVE TypeInv'
  <2>1. states'[f] = [sig |-> disk[f], stable |-> 0,
                      verdict |-> IF f \in DOMAIN states THEN states[f].verdict ELSE None]
    BY <1>7 DEF StatChanged, Put
  <2>2. states'[f] \in State
    BY <2>1 DEF State
  <2>3. DOMAIN states' = DOMAIN states \cup {f}
    BY <1>7 DEF StatChanged, Put
  <2>4. \A g \in DOMAIN states : g # f => states'[g] = states[g]
    BY <1>7 DEF StatChanged, Put
  <2>5. \A g \in DOMAIN states' : states'[g] \in State
    BY <2>2, <2>3, <2>4
  <2> QED BY <1>7, <2>3, <2>5 DEF StatChanged
<1>8. ASSUME NEW f \in File, StatSame(f) PROVE TypeInv'
  BY <1>8 DEF StatSame, SameSignature, State
<1>9. ASSUME NEW f \in File, Check(f) PROVE TypeInv'
  <2> DEFINE verdict == IF Present(f) THEN VerdictOf[disk[f]] ELSE "unreadable"
  <2>1. verdict \in Verdict
    BY VerdictFound DEF Verdict
  <2>2. states' = [states EXCEPT ![f].verdict = verdict] /\ told' \in {told, [told EXCEPT ![f] = verdict]}
    BY <1>9 DEF Check
  <2> HIDE DEF verdict
  <2> QED BY <1>9, <2>1, <2>2 DEF Check, State
<1> QED BY <1>1, <1>2, <1>3, <1>4, <1>5, <1>6, <1>7, <1>8, <1>9 DEF Next, Poll, Agents

\* Type correctness of what the proofs below need.
THEOREM TypeCorrect == Spec => []TypeInv
<1>1. Init => TypeInv
  BY WatchAssumption DEF Init, TypeInv, Version, Verdict
<1> QED BY <1>1, TypeStep, PTL DEF Spec

LEMMA PendingStep == ASSUME TypeInv, PendingInv, [Next]_vars PROVE PendingInv'
<1> USE DEF PendingInv, PendingTracked, world
<1>1. CASE UNCHANGED vars
  BY <1>1 DEF vars
<1>2. ASSUME NEW f \in File, WriteFile(f) \/ RemoveFile(f) \/ RestoreFile(f) PROVE PendingInv'
  BY <1>2 DEF WriteFile, RemoveFile, RestoreFile
<1>3. CASE List \/ DropUnseen
  BY <1>3 DEF List, DropUnseen
<1>4. CASE EndPoll
  <2>1. \A f \in DOMAIN states : f \in seen => f \in DOMAIN states'
    BY <1>4 DEF EndPoll, EvictAbsent
  <2> QED BY <1>4, <2>1 DEF EndPoll
<1>5. ASSUME NEW f \in File, StatFails(f) \/ NotStable(f) PROVE PendingInv'
  BY <1>5 DEF StatFails, NotStable
<1>6. ASSUME NEW f \in File, StatChanged(f) PROVE PendingInv'
  <2>1. DOMAIN states' = DOMAIN states \cup {f}
    BY <1>6, ChangedState
  <2> QED BY <1>6, <2>1 DEF StatChanged
<1>7. ASSUME NEW f \in File, StatSame(f) PROVE PendingInv'
  BY <1>7 DEF StatSame
<1>8. ASSUME NEW f \in File, Check(f) PROVE PendingInv'
  BY <1>8 DEF Check
<1> QED BY <1>1, <1>2, <1>3, <1>4, <1>5, <1>6, <1>7, <1>8 DEF Next, Poll, Agents

\* A file waiting to be checked always has its state, whatever the cap is.
THEOREM PendingHaveState == Spec => []PendingTracked
<1>1. Init => PendingInv
  BY DEF Init, PendingInv, PendingTracked
<1>2. TypeInv /\ PendingInv /\ [Next]_vars => PendingInv'
  BY PendingStep
<1>3. PendingInv => PendingTracked
  BY DEF PendingInv
<1> QED BY <1>1, <1>2, <1>3, TypeCorrect, PTL DEF Spec

-----------------------------------------------------------------------------
LEMMA ListenerStep ==
  ASSUME TypeInv, PendingInv, ListenerKnows, UntoldHealthy, [Next]_vars
  PROVE  ListenerKnows' /\ UntoldHealthy'
<1> USE DEF world, ListenerKnows, UntoldHealthy
<1>1. CASE UNCHANGED vars
  BY <1>1 DEF vars
<1>2. ASSUME NEW f \in File, WriteFile(f) \/ RemoveFile(f) \/ RestoreFile(f)
      PROVE  ListenerKnows' /\ UntoldHealthy'
  BY <1>2 DEF WriteFile, RemoveFile, RestoreFile
<1>3. CASE List \/ DropUnseen
  BY <1>3 DEF List, DropUnseen
<1>4. CASE EndPoll
  <2>1. PICK evicted :
          /\ states' = [f \in DOMAIN states \ evicted |-> states[f]]
          /\ forgotten' = forgotten \cup {f \in evicted : told[f] # "healthy"}
    BY <1>4 DEF EndPoll, EvictAbsent
  <2>2. told' = told
    BY <1>4 DEF EndPoll
  <2> QED BY <2>1, <2>2
<1>5. ASSUME NEW f \in File, StatFails(f) \/ NotStable(f) PROVE ListenerKnows' /\ UntoldHealthy'
  BY <1>5 DEF StatFails, NotStable
<1>6. ASSUME NEW f \in File, StatChanged(f) PROVE ListenerKnows' /\ UntoldHealthy'
  <2>1. told' = told /\ forgotten' = forgotten
    BY <1>6 DEF StatChanged
  <2>2. /\ DOMAIN states' = DOMAIN states \cup {f}
        /\ states'[f].verdict = IF f \in DOMAIN states THEN states[f].verdict ELSE None
        /\ \A g \in DOMAIN states : g # f => states'[g] = states[g]
    BY <1>6, ChangedState
  <2> QED BY <2>1, <2>2
<1>7. ASSUME NEW f \in File, StatSame(f) PROVE ListenerKnows' /\ UntoldHealthy'
  <2>1. /\ DOMAIN states' = DOMAIN states /\ told' = told /\ forgotten' = forgotten
        /\ \A g \in DOMAIN states : states'[g].verdict = states[g].verdict
    BY <1>7 DEF StatSame, TypeInv, State
  <2> QED BY <2>1
<1>8. ASSUME NEW f \in File, Check(f) PROVE ListenerKnows' /\ UntoldHealthy'
  <2> DEFINE verdict == IF Present(f) THEN VerdictOf[disk[f]] ELSE "unreadable"
             previous == states[f].verdict
             emitted == verdict # previous /\ ~ (verdict = "healthy" /\ previous = None)
  <2>1. f \in DOMAIN states
    BY <1>8 DEF Check, PendingInv, PendingTracked
  <2>2. verdict # None
    BY VerdictFound, WatchAssumption DEF Verdict
  <2>3. /\ states' = [states EXCEPT ![f].verdict = verdict]
        /\ told' = IF emitted THEN [told EXCEPT ![f] = verdict] ELSE told
        /\ forgotten' = IF emitted THEN forgotten \ {f} ELSE forgotten
    BY <1>8 DEF Check
  <2>4. ASSUME ~ emitted, f \notin forgotten PROVE told[f] = verdict
    <3>1. CASE verdict = previous
      BY <2>1, <2>2, <2>4, <3>1
    <3>2. CASE verdict = "healthy" /\ previous = None
      BY <2>1, <2>4, <3>2
    <3> QED BY <2>4, <3>1, <3>2
  <2> HIDE DEF verdict, previous, emitted
  <2>5. /\ DOMAIN states' = DOMAIN states
        /\ states'[f].verdict = verdict
        /\ \A g \in DOMAIN states : g # f => states'[g] = states[g]
    BY <2>1, <2>3 DEF TypeInv, State
  <2>6. \A g \in File : g # f => told'[g] = told[g] /\ (g \in forgotten' <=> g \in forgotten)
    BY <2>3 DEF TypeInv
  <2>7. emitted => told'[f] = verdict
    BY <2>3 DEF TypeInv
  <2>8. ~ emitted => told' = told /\ forgotten' = forgotten
    BY <2>3
  <2> QED BY <2>1, <2>2, <2>4, <2>5, <2>6, <2>7, <2>8 DEF TypeInv
<1> QED BY <1>1, <1>2, <1>3, <1>4, <1>5, <1>6, <1>7, <1>8 DEF Next, Poll, Agents

\* Every change of a verdict the monitor holds reaches the listener.  Only what
\* eviction took from the monitor is excepted: the bad verdict of an absent file,
\* from its eviction to the next announcement of that file.
THEOREM ListenerTold == Spec => []ListenerKnows
<1>1. Init => PendingInv /\ ListenerKnows /\ UntoldHealthy
  BY DEF Init, PendingInv, PendingTracked, ListenerKnows, UntoldHealthy
<1>2. TypeInv /\ PendingInv /\ ListenerKnows /\ UntoldHealthy /\ [Next]_vars
        => PendingInv' /\ ListenerKnows' /\ UntoldHealthy'
  BY PendingStep, ListenerStep
<1> QED BY <1>1, <1>2, TypeCorrect, PTL DEF Spec
=============================================================================

---------------------------- MODULE ReceiptLedger ----------------------------
(***************************************************************************)
(* What the executor promises to whoever looks at an output path: the path *)
(* is claimed by at most one run at a time, only the run that holds the    *)
(* claim publishes an output, a claim can be given back only while nothing *)
(* is published under it, and a published output stays as it is.           *)
(***************************************************************************)
CONSTANTS Run, Target, None

VARIABLES
  claim,     \* the run whose manifest stands at the path
  published  \* the run whose output stands at the path

vars == <<claim, published>>

Init ==
  /\ claim = [t \in Target |-> None]
  /\ published = [t \in Target |-> None]

Claim(t, r) ==
  /\ claim[t] = None /\ published[t] = None
  /\ claim' = [claim EXCEPT ![t] = r]
  /\ UNCHANGED published

Publish(t) ==
  /\ claim[t] # None /\ published[t] = None
  /\ published' = [published EXCEPT ![t] = claim[t]]
  /\ UNCHANGED claim

GiveBack(t) ==
  /\ claim[t] # None /\ published[t] = None
  /\ claim' = [claim EXCEPT ![t] = None]
  /\ UNCHANGED published

Next == \E t \in Target : Publish(t) \/ GiveBack(t) \/ \E r \in Run : Claim(t, r)

Spec == Init /\ [][Next]_vars
=============================================================================

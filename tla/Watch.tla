-------------------------------- MODULE Watch --------------------------------
(***************************************************************************)
(* watch.py: the polling monitor that checks a session file once it has    *)
(* been stable for one interval, while agents go on writing, removing and  *)
(* restoring files between any two of its system calls.                    *)
(*                                                                         *)
(* Every write gives a file a new (mtime, size) signature: the rewrite     *)
(* within the timestamp granularity that _snapshot_file documents as its   *)
(* limit is left out.  A version stands for bytes and signature together.  *)
(***************************************************************************)
EXTENDS Naturals, Sequences, FiniteSets

CONSTANTS
  File,             \* the files under the watched roots
  Explicit,         \* the files named as roots themselves
  MaxTracked,       \* MAX_TRACKED_FILES
  MaxVersion,       \* bound: a file is written at most MaxVersion times
  MaxRemovals,      \* bound: so many removals in all
  VerdictOf,        \* version -> verdict of checking those bytes
  None

Version == 0..MaxVersion   \* 0: not written yet
Verdict == {"healthy", "warnings", "invalid", "skipped", "unsupported", "unreadable"}

ASSUME WatchAssumption ==
  /\ Explicit \subseteq File
  /\ MaxTracked \in Nat /\ MaxVersion \in Nat /\ MaxRemovals \in Nat
  /\ VerdictOf \in [1..MaxVersion -> Verdict \ {"unreadable"}]
  /\ None \notin Verdict

VARIABLES
  disk, gone, removals,   \* versions, the files now absent, removals so far
  states,                 \* states: tracked file -> signature, stability, verdict
  order,                  \* the keys of states, least recently seen first
  pending, seen,          \* pending and seen
  pc, todo,               \* files of this poll still to stat or to dispatch
  told,                   \* the last verdict a listener was told, "healthy" at first
  restored,               \* the files that came back as they were
  forgotten               \* evicted with a bad verdict, and nothing told since

world == <<disk, gone, removals, restored>>
vars == <<world, states, order, pending, seen, pc, todo, told, forgotten>>

Init ==
  /\ disk = [f \in File |-> 0]
  /\ gone = {} /\ removals = 0
  /\ states = << >> /\ order = << >>
  /\ pending = {} /\ seen = {} /\ todo = {}
  /\ pc = "list"
  /\ told = [f \in File |-> "healthy"]
  /\ restored = {} /\ forgotten = {}

Present(f) == disk[f] # 0 /\ f \notin gone
SameSignature(f) == f \in DOMAIN states /\ states[f].sig = disk[f]
Put(f, state) == [g \in DOMAIN states \cup {f} |-> IF g = f THEN state ELSE states[g]]
MoveToEnd(f) == order' = Append(SelectSeq(order, LAMBDA g : g # f), f)

-----------------------------------------------------------------------------
(* One poll.                                                               *)

\* The walk of the roots; a file that is a root is seen even when it is absent.
List ==
  /\ pc = "list"
  /\ seen' = Explicit \cup {f \in File : Present(f)}
  /\ todo' = seen'
  /\ pc' = "stat"
  /\ UNCHANGED <<world, states, order, pending, told, forgotten>>

StatFails(f) ==
  /\ pc = "stat" /\ f \in todo /\ ~ Present(f)
  /\ todo' = todo \ {f}
  /\ UNCHANGED <<world, states, order, pending, seen, pc, told, forgotten>>

\* Mutant: a file is queued only when it is first seen.
StatChangedUnqueued(f) ==
  /\ pc = "stat" /\ f \in todo /\ Present(f)
  /\ ~ SameSignature(f)
  /\ states' = Put(f, [sig |-> disk[f], stable |-> 0,
                       verdict |-> IF f \in DOMAIN states THEN states[f].verdict ELSE None])
  /\ pending' = IF f \in DOMAIN states THEN pending ELSE pending \cup {f}
  /\ MoveToEnd(f)
  /\ todo' = todo \ {f}
  /\ UNCHANGED <<world, seen, pc, told, forgotten>>

\* A new file, or one whose signature differs: wait for it to be stable.
StatChanged(f) ==
  /\ pc = "stat" /\ f \in todo /\ Present(f)
  /\ ~ SameSignature(f)
  /\ states' = Put(f, [sig |-> disk[f], stable |-> 0,
                       verdict |-> IF f \in DOMAIN states THEN states[f].verdict ELSE None])
  /\ pending' = pending \cup {f}
  /\ MoveToEnd(f)
  /\ todo' = todo \ {f}
  /\ UNCHANGED <<world, seen, pc, told, forgotten>>

\* stable_polls only matters as "at least one".
StatSame(f) ==
  /\ pc = "stat" /\ f \in todo /\ Present(f)
  /\ SameSignature(f)
  /\ states' = [states EXCEPT ![f].stable = 1]
  /\ MoveToEnd(f)
  /\ todo' = todo \ {f}
  /\ UNCHANGED <<world, pending, seen, pc, told, forgotten>>

DropUnseen ==
  /\ pc = "stat" /\ todo = {}
  /\ pending' = pending \cap seen
  /\ todo' = pending'
  /\ pc' = "dispatch"
  /\ UNCHANGED <<world, states, order, seen, told, forgotten>>

NotStable(f) ==
  /\ pc = "dispatch" /\ f \in todo /\ states[f].stable = 0
  /\ todo' = todo \ {f}
  /\ UNCHANGED <<world, states, order, pending, seen, pc, told, forgotten>>

\* Mutant: no first verdict is announced, be it healthy or not.
CheckFirstQuiet(f) ==
  /\ pc = "dispatch" /\ f \in todo /\ states[f].stable = 1
  /\ LET verdict == IF Present(f) THEN VerdictOf[disk[f]] ELSE "unreadable"
         previous == states[f].verdict
         emitted == previous # None /\ verdict # previous
     IN  /\ states' = [states EXCEPT ![f].verdict = verdict]
         /\ told' = IF emitted THEN [told EXCEPT ![f] = verdict] ELSE told
         /\ forgotten' = IF emitted THEN forgotten \ {f} ELSE forgotten
  /\ pending' = pending \ {f}
  /\ todo' = todo \ {f}
  /\ UNCHANGED <<world, order, seen, pc>>

\* The check reads the file as it is now, not as it was when it was stat'ed.
\* The first verdict is announced unless it is healthy, a later one only if it
\* differs: a check that finds what was held already tells nothing.
Check(f) ==
  /\ pc = "dispatch" /\ f \in todo /\ states[f].stable = 1
  /\ LET verdict == IF Present(f) THEN VerdictOf[disk[f]] ELSE "unreadable"
         previous == states[f].verdict
         emitted == verdict # previous /\ ~ (verdict = "healthy" /\ previous = None)
     IN  /\ states' = [states EXCEPT ![f].verdict = verdict]
         /\ told' = IF emitted THEN [told EXCEPT ![f] = verdict] ELSE told
         /\ forgotten' = IF emitted THEN forgotten \ {f} ELSE forgotten
  /\ pending' = pending \ {f}
  /\ todo' = todo \ {f}
  /\ UNCHANGED <<world, order, seen, pc>>

\* Mutant: history is evicted whether or not the file was seen in this poll.
EvictOldest ==
  LET excess == IF Len(order) > MaxTracked THEN Len(order) - MaxTracked ELSE 0
      evicted == {order[i] : i \in 1..excess}
  IN  /\ states' = [f \in DOMAIN states \ evicted |-> states[f]]
      /\ order' = SelectSeq(order, LAMBDA f : f \notin evicted)
      /\ forgotten' = forgotten \cup {f \in evicted : told[f] # "healthy"}

\* Oldest first, only files this poll did not see, only down to the cap.
EvictAbsent ==
  LET absent(i) == {j \in 1..i : order[j] \notin seen}
      excess == IF Len(order) > MaxTracked THEN Len(order) - MaxTracked ELSE 0
      evicted == {order[i] : i \in {j \in DOMAIN order : order[j] \notin seen
                                                       /\ Cardinality(absent(j)) <= excess}}
  IN  /\ states' = [f \in DOMAIN states \ evicted |-> states[f]]
      /\ order' = SelectSeq(order, LAMBDA f : f \notin evicted)
      /\ forgotten' = forgotten \cup {f \in evicted : told[f] # "healthy"}

EndPoll ==
  /\ pc = "dispatch" /\ todo = {}
  /\ EvictAbsent
  /\ pc' = "list"
  /\ UNCHANGED <<world, pending, seen, todo, told>>

Poll ==
  \/ List \/ DropUnseen \/ EndPoll
  \/ \E f \in File : StatFails(f) \/ StatChanged(f) \/ StatSame(f) \/ NotStable(f) \/ Check(f)

-----------------------------------------------------------------------------
(* The agents.                                                             *)

WriteFile(f) ==
  /\ disk[f] < MaxVersion
  /\ disk' = [disk EXCEPT ![f] = @ + 1]
  /\ gone' = gone \ {f}
  /\ restored' = restored \ {f}
  /\ UNCHANGED <<removals, states, order, pending, seen, pc, todo, told, forgotten>>

RemoveFile(f) ==
  /\ Present(f) /\ removals < MaxRemovals
  /\ gone' = gone \cup {f}
  /\ removals' = removals + 1
  /\ UNCHANGED <<disk, restored, states, order, pending, seen, pc, todo, told, forgotten>>

\* A directory that could not be listed for a while, a file moved away and back.
RestoreFile(f) ==
  /\ f \in gone
  /\ gone' = gone \ {f}
  /\ restored' = restored \cup {f}
  /\ UNCHANGED <<disk, removals, states, order, pending, seen, pc, todo, told, forgotten>>

Agents == \E f \in File : WriteFile(f) \/ RemoveFile(f) \/ RestoreFile(f)

Next == Poll \/ Agents

Spec == Init /\ [][Next]_vars

\* The loop sleeps and polls again until it is cancelled; agents owe nothing.
FairSpec == Spec /\ WF_vars(Poll)

-----------------------------------------------------------------------------
(* Properties.                                                             *)

\* A file waiting to be checked always has its state: neither the removal of
\* the file nor the eviction of history can make states[f] a KeyError (B28,
\* "Never evict an active file between its first and stable poll").
PendingTracked ==
  /\ pending \subseteq DOMAIN states
  /\ pc = "dispatch" => todo \subseteq pending

\* A listener that starts from "healthy" knows the verdict the monitor holds: every
\* change of it is announced.  Where a bad verdict was evicted the listener knows
\* better than the monitor, until the next announcement: a file that comes back
\* healthy is checked in silence, however often (watch.py:234-237).
ListenerKnows ==
  \A f \in DOMAIN states \ forgotten :
    states[f].verdict # None => told[f] = states[f].verdict

\* A file that stays as it is ends up with the verdict of its bytes, whatever
\* happened to it and to the others, unless it was away and came back as it was.
Converges ==
  <>[](\A f \in File : Present(f) /\ f \notin restored =>
         f \in DOMAIN states /\ states[f].verdict = VerdictOf[disk[f]])
=============================================================================

---------------------------- MODULE RepairRecipes ----------------------------
(***************************************************************************)
(* The conservative recipes: which finding each one repairs, which events  *)
(* it may touch, when it applies and what it does.  A step addresses events*)
(* by their position in the source; while recipes run every event carries  *)
(* that position as its origin, and a step is relocated through it.        *)
(* proven-unique-parent-restore is left out because SL004 is always manual,*)
(* seq-renumber because it changes only the ordinals, and                  *)
(* terminal-suffix-discard because SL203 and SL005 are never repaired.     *)
(***************************************************************************)
EXTENDS SessionChecks

IsMark(e) == e.kind \in {"checkpoint", "compaction_boundary"}

\* Same kind and same payload, and not a kind that marks a position.
Alike(e, f) == e.kind = f.kind /\ ~IsMark(e) /\ e.content = f.content

Children(s, id) == {i \in DOMAIN s : s[i].parent = id}

(***************************************************************************)
(* Abstention: the events whose execution is ambiguous.                    *)
(***************************************************************************)
AmbiguousIn(s, k) ==
  LET calls == Calls(s, k)
      results == Results(s, k)
      unknown == \E c \in calls : s[c].effects = "unknown"
      unsettled == {r \in results : s[r].content = Unsettled}
  IN CASE Cardinality(calls) # 1 \/ results = {} -> calls \union results
       [] Cardinality(calls) = 1 /\ Cardinality(results) > 1 ->
            IF Cardinality({s[r].content : r \in results}) > 1 \/ unknown
            THEN calls \union results ELSE unsettled
       [] OTHER -> IF Min(results) < Min(calls) \/ unknown \/ unsettled # {}
                   THEN calls \union results ELSE {}

Ambiguous(s) ==
  LET found == UNION {AmbiguousIn(s, k) : k \in Correlations(s)}
               \union {i \in Tools(s) : s[i].corr = None}
  IN {i \in DOMAIN s : \E j \in found : s[i].id = s[j].id}

\* The tool events no conservative step may touch.
Delicate(s) == Ambiguous(s) \union {i \in Tools(s) : s[i].effects # "none"}

(***************************************************************************)
(* Where each recipe acts: the position it drops, 0 when it finds none.    *)
(***************************************************************************)
CollapseAt(step, s) ==
  IF step.at < Len(s) /\ Alike(s[step.at], s[step.at + 1]) THEN step.at + 1
  ELSE IF step.at > 1 /\ Alike(s[step.at - 1], s[step.at]) THEN step.at
  ELSE 0

ProjectionAt(step, s) ==
  LET results == Results(s, step.corr)
      later == results \ {Min(results)}
      equal == {r \in later : s[r].content = s[Min(results)].content}
  IN CASE results = {} \/ equal = {} -> 0
       [] step.at \in later -> IF step.at \in equal THEN step.at ELSE 0
       [] OTHER -> Min(equal)

DropPositions(step, s) == {step.list[i] : i \in 2 .. Len(step.list)}

SplitOnce(s, k) == k \in CleanPairs(s) /\ Cardinality(SplitBy(s, k)) = 1

(***************************************************************************)
(* The region a step declares, with the events that share an id with it,   *)
(* and whether conservative policy lets the step act there.                *)
(***************************************************************************)
HasRegion(step, s) ==
  CASE step.recipe = "identical-duplicate-collapse" -> CollapseAt(step, s) # 0
    [] step.recipe = "duplicate-projection-removal" -> ProjectionAt(step, s) # 0
    [] step.recipe = "compaction-projection-reunion" -> SplitOnce(s, step.corr)
    [] step.recipe = "torn-terminal-record-discard" -> s # <<>>
    [] OTHER -> TRUE

Region(step, s) ==
  CASE step.recipe = "identical-duplicate-collapse" ->
         LET drop == CollapseAt(step, s) IN {drop - 1, drop} \union Children(s, s[drop].id)
    [] step.recipe = "duplicate-projection-removal" ->
         LET drop == ProjectionAt(step, s)
         IN {Min(Results(s, step.corr)), drop} \union Calls(s, step.corr) \union Children(s, s[drop].id)
    [] step.recipe = "compaction-projection-reunion" -> Span(s, step.corr)
    [] step.recipe = "torn-terminal-record-discard" -> {Len(s)}
    [] OTHER -> step.list[1] .. Last(step.list)

\* Mutant: the region is the record the finding is on, without those sharing its id.
InScopeOfRecord(step, s) ==
  /\ HasRegion(step, s)
  /\ ~Refusing(UnsafeContinuations(s, TRUE))
  /\ {step.at} \intersect Delicate(s) = {}

InScope(step, s) ==
  /\ HasRegion(step, s)
  /\ ~Refusing(UnsafeContinuations(s, TRUE))
  /\ LET region == {i \in DOMAIN s : \E j \in Region(step, s) : s[i].id = s[j].id}
     IN region \intersect Delicate(s) = {}

(***************************************************************************)
(* What a step does to the events as they are now.                         *)
(***************************************************************************)
\* Mutant: the children of a dropped record become roots.
RelinkedToNone(s, from, to) ==
  [i \in DOMAIN s |-> IF s[i].parent = from THEN [s[i] EXCEPT !.parent = None] ELSE s[i]]

Relinked(s, from, to) == [i \in DOMAIN s |-> IF s[i].parent = from THEN [s[i] EXCEPT !.parent = to] ELSE s[i]]

Without(s, positions) == Picked(s, DOMAIN s \ positions)

CanDrop(step, s) ==
  LET kept == s[step.list[1]]
  IN \A i \in DropPositions(step, s) : Alike(kept, s[i]) /\ s[i].id = kept.id

\* The one boundary goes to just after the pair it split.
\* Mutant: the boundary goes one further than the pair.
ReunitedFurther(s, k) ==
  LET b == Min(SplitBy(s, k)) IN InsertAt(RemoveAt(s, b), Min({Max(Span(s, k)) + 1, Len(s)}), s[b])

Reunited(s, k) ==
  LET b == Min(SplitBy(s, k)) IN InsertAt(RemoveAt(s, b), Max(Span(s, k)), s[b])

Applicable(step, s) ==
  CASE step.recipe = "identical-duplicate-drop" -> CanDrop(step, s)
    [] OTHER -> HasRegion(step, s)

Apply(step, s) ==
  CASE step.recipe = "identical-duplicate-collapse" ->
         LET drop == CollapseAt(step, s) IN Relinked(Without(s, {drop}), s[drop].id, s[drop - 1].id)
    [] step.recipe = "duplicate-projection-removal" ->
         LET drop == ProjectionAt(step, s)
         IN Relinked(Without(s, {drop}), s[drop].id, s[Min(Results(s, step.corr))].id)
    [] step.recipe = "compaction-projection-reunion" -> Reunited(s, step.corr)
    [] OTHER -> Without(s, DropPositions(step, s))

(***************************************************************************)
(* From source positions to the positions events have now.                 *)
(***************************************************************************)
Tag(s) == [i \in DOMAIN s |-> [s[i] EXCEPT !.origin = i]]
Untag(s) == [i \in DOMAIN s |-> Body(s[i])]
Origins(s) == {s[i].origin : i \in DOMAIN s}
PositionOf(s, origin) == CHOOSE i \in DOMAIN s : s[i].origin = origin

\* The events a step addresses; a step on an undecoded line addresses none.
Addresses(step) == ({step.at} \union ToSet(step.list)) \ {0}
Relocatable(step, s) == Addresses(step) \subseteq Origins(s)

Relocate(step, s) ==
  [step EXCEPT !.at = IF step.at = 0 THEN 0 ELSE PositionOf(s, step.at),
               !.list = [i \in DOMAIN step.list |-> PositionOf(s, step.list[i])]]
=============================================================================

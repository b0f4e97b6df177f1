---------------------------- MODULE SalvageRecipes ----------------------------
(***************************************************************************)
(* The recipes that lose something: when each is planned, how much its plan*)
(* declares lost, and what it does.  All but the discard of a torn last    *)
(* line need the salvage policy, and most an acknowledgement that a tool   *)
(* may have had effects.  The amputation is only reached from SL006: SL005 *)
(* is unsupported, which blocks it under either policy.                    *)
(***************************************************************************)
EXTENDS RepairRecipes

\* Every recipe the planner can reach, in the order of their names, which breaks ties
\* in a plan.
AllRecipes ==
  <<"compaction-projection-reunion", "duplicate-projection-removal", "identical-duplicate-collapse",
    "identical-duplicate-drop", "orphan-result-drop", "side-effect-unknown-truncate",
    "torn-compaction-project", "torn-record-excision", "torn-terminal-record-discard",
    "unresolvable-branch-amputate">>

Lossy == {"orphan-result-drop", "side-effect-unknown-truncate", "torn-compaction-project",
          "torn-record-excision", "unresolvable-branch-amputate"}
NeedsAcknowledgement == {"orphan-result-drop", "side-effect-unknown-truncate", "torn-record-excision"}
OnLines == {"torn-record-excision", "torn-terminal-record-discard"}

(***************************************************************************)
(* A disconnected branch: the records that parent links of any record join *)
(* to the one at hand, where an id stands for the last record that has it. *)
(***************************************************************************)
Component(s, at) ==
  LET Unite(i, sets) ==
        LET above == IF s[i].parent \in Ids(s) THEN {Max(Occurrences(s, s[i].parent))} ELSE {}
            joined == {b \in sets : b \intersect ({i} \union above) # {}}
        IN (sets \ joined) \union {UNION joined}
  IN CHOOSE b \in FoldSet(Unite, {{i} : i \in DOMAIN s}, DOMAIN s) : at \in b

HasCheckpoint(s, at) == \E i \in Component(s, at) : s[i].kind = "checkpoint"

(***************************************************************************)
(* Tool halves on either side of a boundary.                               *)
(***************************************************************************)
Halves(s, b) ==
  LET Side(k) ==
        LET cb == {i \in Calls(s, k) : i < b}
            ca == {i \in Calls(s, k) : i > b}
            rb == {i \in Results(s, k) : i < b}
            ra == {i \in Results(s, k) : i > b}
        IN CASE cb # {} /\ ra # {} -> [leading |-> cb, trailing |-> ra]
             [] ~(cb # {} /\ ra # {}) /\ ca # {} /\ rb # {} -> [leading |-> rb, trailing |-> ca]
             [] OTHER -> [leading |-> IF ca \union rb \union ra = {} THEN cb ELSE {},
                          trailing |-> IF ca \union rb \union cb = {} THEN ra ELSE {}]
  IN [leading |-> UNION {Side(k).leading : k \in Correlations(s)},
      trailing |-> UNION {Side(k).trailing : k \in Correlations(s)}]

Tears(s, b) == s[b].kind = "compaction_boundary" /\ Halves(s, b).leading \union Halves(s, b).trailing # {}

\* The boundary goes and, with it, the smaller side; the trailing one of equal sides.
MinorityDropped(s, b) ==
  LET h == Halves(s, b)
  IN {b} \union (IF Cardinality(h.leading) < Cardinality(h.trailing) THEN h.leading ELSE h.trailing)

(***************************************************************************)
(* An orphan result: found by its id before its position, so that what     *)
(* earlier steps removed does not retarget the drop.                       *)
(***************************************************************************)
OrphanAt(step, s) ==
  LET same == Occurrences(s, step.id)
      paired == Results(s, step.corr)
  IN CASE same # {} -> Min(same)
       [] same = {} /\ step.corr # None /\ Cardinality(paired) = 1 -> Min(paired)
       [] OTHER -> step.at

OrphanDroppable(s, i) ==
  /\ s[i].kind = "tool_result"
  /\ s[i].corr = None \/ Calls(s, s[i].corr) = {}
  /\ Children(s, s[i].id) = {}

(***************************************************************************)
(* Planning: whether the salvage recipe of a finding fits, and its loss.   *)
(***************************************************************************)
SalvageRecipe(f) ==
  CASE f.code = "SL006" -> "unresolvable-branch-amputate"
    [] f.code = "SL108" -> "torn-compaction-project"
    [] f.code = "SL102" -> "side-effect-unknown-truncate"
    [] f.code = "SL101" -> "orphan-result-drop"
    [] f.code = "SL001" -> "torn-record-excision"
    [] OTHER -> ""

Fits(recipe, f, s, lines) ==
  CASE recipe = "unresolvable-branch-amputate" -> ~HasCheckpoint(s, f.at)
    [] recipe = "torn-compaction-project" -> \E b \in DOMAIN s : Tears(s, b)
    [] recipe = "orphan-result-drop" -> OrphanDroppable(s, f.at)
    [] recipe = "torn-record-excision" -> Children(s, lines[f.list[1]].id) = {}
    [] OTHER -> TRUE

\* Mutant: a truncation counts only what follows the call.
LossAfterCall(recipe, f, s) ==
  CASE recipe = "unresolvable-branch-amputate" -> Cardinality(Component(s, f.at))
    [] recipe = "torn-compaction-project" -> IF Tears(s, f.at) THEN Cardinality(MinorityDropped(s, f.at)) ELSE 1
    [] recipe = "side-effect-unknown-truncate" -> Len(s) - f.at
    [] recipe \in {"orphan-result-drop", "torn-record-excision"} -> 1
    [] OTHER -> 0

LossOf(recipe, f, s) ==
  CASE recipe = "unresolvable-branch-amputate" -> Cardinality(Component(s, f.at))
    [] recipe = "torn-compaction-project" -> IF Tears(s, f.at) THEN Cardinality(MinorityDropped(s, f.at)) ELSE 1
    [] recipe = "side-effect-unknown-truncate" -> Len(s) - f.at + 1
    [] recipe \in {"orphan-result-drop", "torn-record-excision"} -> 1
    [] OTHER -> 0

(***************************************************************************)
(* Carrying a step out on the events as they are now.                      *)
(***************************************************************************)
Salvageable(step, s) ==
  CASE step.recipe = "unresolvable-branch-amputate" ->
         ~HasCheckpoint(s, step.at) /\ Component(s, step.at) # DOMAIN s
    [] step.recipe = "torn-compaction-project" -> Tears(s, step.at)
    [] step.recipe = "side-effect-unknown-truncate" -> step.at > 1
    [] step.recipe = "orphan-result-drop" ->
         /\ OrphanAt(step, s) \in DOMAIN s
         /\ OrphanDroppable(s, OrphanAt(step, s))
         /\ None \in {step.corr, s[OrphanAt(step, s)].corr} \/ s[OrphanAt(step, s)].corr = step.corr
    [] step.recipe = "torn-record-excision" -> s # <<>> /\ (step.id = None \/ Children(s, step.id) = {})
    [] OTHER -> TRUE

Salvaged(step, s) ==
  CASE step.recipe = "unresolvable-branch-amputate" -> Without(s, Component(s, step.at))
    [] step.recipe = "torn-compaction-project" -> Without(s, MinorityDropped(s, step.at))
    [] step.recipe = "side-effect-unknown-truncate" -> SubSeq(s, 1, step.at - 1)
    [] step.recipe = "orphan-result-drop" -> Without(s, {OrphanAt(step, s)})
    [] OTHER -> s

(***************************************************************************)
(* What the report of a repair may claim.                                  *)
(***************************************************************************)
\* The word for the whole repair, from its worst step.
Pedigree(steps) ==
  CASE steps = <<>> -> "clean"
    [] \E i \in DOMAIN steps : steps[i].recipe \in Lossy -> "salvaged"
    [] OTHER -> "repaired-lossless"

\* A salvaged session is at most structurally valid, whatever its checks say.
Ceiling(level, policy) == IF policy = "salvage" /\ level = "A3" THEN "A2" ELSE level
=============================================================================

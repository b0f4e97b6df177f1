---------------------------- MODULE SessionChecks ----------------------------
(***************************************************************************)
(* What the structural checks find in a session: duplicate ids, the parent *)
(* graph, tool pairing, compaction and unsafe continuation.  A session is a*)
(* sequence of events; an event's payload is abstracted to a content that  *)
(* two events share when their payload hashes are equal.  Checkpoints that *)
(* the header of an export lists are left out, and no event names a branch *)
(* or starts a run.  A file may also hold "torn" lines, which no reader    *)
(* decodes into an event.  Positions start at 1.                           *)
(***************************************************************************)
EXTENDS Integers, Sequences, SequencesExt, FiniteSetsExt

CONSTANTS None,       \* no parent, or no correlation id
          Unsettled,  \* the content of a result whose execution is "unknown"
          MaxListed,  \* occurrences a duplicate finding lists
          IdOrder,    \* a sequence of the ids, in the order in which they sort
          Says(_)     \* of a checkpoint's content its number and hash, of a compaction's
                      \* the id it claims to cover: [number, hash, covers]

ASSUME ChecksAssumption == MaxListed \in Nat \ {0, 1}

Kind == {"message", "tool_call", "tool_result", "compaction_boundary", "checkpoint", "opaque", "unknown"}
Conversational(e) == e.kind \notin {"opaque", "compaction_boundary"}

\* Neither the bookkeeping position an event carries while recipes run nor the
\* line it was read from is part of it.
Body(e) == [e EXCEPT !.origin = 0, !.joined = FALSE]

Ids(s) == {s[i].id : i \in DOMAIN s}
Occurrences(s, id) == {i \in DOMAIN s : s[i].id = id}
OfKind(s, kind) == {i \in DOMAIN s : s[i].kind = kind}
Tools(s) == OfKind(s, "tool_call") \union OfKind(s, "tool_result")
Calls(s, k) == {i \in OfKind(s, "tool_call") : s[i].corr = k}
Results(s, k) == {i \in OfKind(s, "tool_result") : s[i].corr = k}
Correlations(s) == {s[i].corr : i \in Tools(s)} \ {None}
CleanPairs(s) == {k \in Correlations(s) : Cardinality(Calls(s, k)) = 1 /\ Cardinality(Results(s, k)) = 1}

\* From the first to the last event of a tool pair.
Span(s, k) == LET pair == Calls(s, k) \union Results(s, k) IN Min(pair) .. Max(pair)
SplitBy(s, k) == OfKind(s, "compaction_boundary") \intersect Span(s, k)

Finding(code, severity, repair, at, corr, list, count) ==
  [code |-> code, severity |-> severity, repair |-> repair, at |-> at,
   corr |-> corr, list |-> list, count |-> count]

\* The members of a set of positions in order, and the elements of a sequence there.
Ascending(S) ==
  FoldLeft(LAMBDA seq, i : IF i \in S THEN Append(seq, i) ELSE seq, <<>>, [i \in 1 .. Max(S \union {0}) |-> i])
Picked(s, positions) == LET at == Ascending(positions) IN [i \in DOMAIN at |-> s[at[i]]]

(***************************************************************************)
(* Identity and the parent graph.                                          *)
(***************************************************************************)
IdenticalAt(s, at) == \A i \in at : \A j \in at : Body(s[i]) = Body(s[j])

DuplicateIds(s) ==
  {LET at == Occurrences(s, id)
       same == IdenticalAt(s, at)
       listed == Ascending(at)
   IN Finding("SL003", IF same THEN "warning" ELSE "error", IF same THEN "deterministic" ELSE "manual",
              Min(at), None, SubSeq(listed, 1, Min({Len(listed), MaxListed})), Cardinality(at))
   : id \in {d \in Ids(s) : Cardinality(Occurrences(s, d)) > 1}}

\* The first record of an id decides its parent.
ParentOf(s, id) == s[Min(Occurrences(s, id))].parent

MissingParents(s) ==
  {Finding("SL004", "error", "manual", Min(Occurrences(s, id)), None, <<>>, 1)
   : id \in {d \in Ids(s) : ParentOf(s, d) \notin Ids(s) \union {None}}}

\* The sets of ids whose parents stay inside the set; a smallest one is a cycle.
ClosedUpwards(s) ==
  LET parent == [id \in Ids(s) |-> ParentOf(s, id)]
  IN {ring \in SUBSET Ids(s) : ring # {} /\ \A id \in ring : parent[id] \in ring}

ParentCycles(s) ==
  LET closed == ClosedUpwards(s)
  IN {Finding("SL005", "fatal", "unsupported", Min(UNION {Occurrences(s, id) : id \in ring}), None, <<>>, 1)
      : ring \in {r \in closed : \A other \in closed : other \subseteq r => other = r}}

\* Two ids that parent links of any record join, followed in either direction.
Joined(s, a, b) ==
  \A side \in SUBSET Ids(s) :
     a \in side /\ (\A i \in DOMAIN s : s[i].parent \in Ids(s) => (s[i].id \in side <=> s[i].parent \in side))
     => b \in side

\* The id that sorts first.
FirstOf(ids) == IdOrder[SelectInSeq(IdOrder, LAMBDA d : d \in ids)]

\* The ids that parent links join: the link of each id in turn unites two sets.
Branches(s) ==
  LET ids == Ids(s)
      parent == [d \in ids |-> ParentOf(s, d)]
      Unite(d, sets) ==
        LET joined == {b \in sets : d \in b \/ parent[d] \in b}
        IN (sets \ joined) \union {UNION joined}
  IN FoldSet(Unite, {{d} : d \in ids}, ids)

BranchRoot(s, branch) ==
  LET tops == {d \in branch : ParentOf(s, d) \notin Ids(s)}
  IN FirstOf(IF tops # {} THEN tops ELSE branch)

\* The largest branch is the session's; every other one in which somebody speaks
\* is reported at its root.
Disconnected(s) ==
  LET branches == Branches(s)
      Wins(a, b) == \/ Cardinality(a) > Cardinality(b)
                    \/ Cardinality(a) = Cardinality(b) /\ FirstOf({BranchRoot(s, a), BranchRoot(s, b)}) = BranchRoot(s, a)
      extra == {b \in branches : \E a \in branches \ {b} : Wins(a, b)}
  IN {Finding("SL006", "warning", "manual", Min(Occurrences(s, BranchRoot(s, b))), None, <<>>, Cardinality(b))
      : b \in {e \in extra : \E d \in e : Conversational(s[Min(Occurrences(s, d))])}}

Heads(s) ==
  LET heads == {d \in Ids(s) : /\ \A e \in Ids(s) : ParentOf(s, e) # d
                               /\ Conversational(s[Min(Occurrences(s, d))])}
  IN IF Cardinality(heads) > 1
     THEN {Finding("SL007", "warning", "manual", Min(Occurrences(s, FirstOf(heads))), None, <<>>, Cardinality(heads))}
     ELSE {}

(***************************************************************************)
(* Tool pairing.                                                           *)
(***************************************************************************)
Orphans(s) ==
  {Finding("SL101", "error", "manual", i, s[i].corr, <<>>, 1)
   : i \in {r \in OfKind(s, "tool_result") : s[r].corr = None \/ Calls(s, s[r].corr) = {}}}

Dangling(s) ==
  {Finding("SL102", "error", "manual", i, s[i].corr, <<>>, 1)
   : i \in {c \in OfKind(s, "tool_call") : s[c].corr = None \/ Results(s, s[c].corr) = {}}}

ReusedCalls(s) ==
  {Finding("SL103", "error", "manual", Min(Calls(s, k)), k, <<>>, Cardinality(Calls(s, k)))
   : k \in {c \in Correlations(s) : Cardinality(Calls(s, c)) > 1}}

MultiResults(s) ==
  {LET same == Cardinality({s[i].content : i \in Results(s, k)}) = 1
   IN Finding("SL104", "error",
              IF same /\ Cardinality(Calls(s, k)) = 1 THEN "deterministic" ELSE "manual",
              Min(Results(s, k)), k, <<>>, Cardinality(Results(s, k)))
   : k \in {c \in Correlations(s) : Cardinality(Results(s, c)) > 1}}

Reversed(s) ==
  {Finding("SL105", "error", "manual", Max(Span(s, k)), k, <<>>, 1)
   : k \in {c \in CleanPairs(s) : Min(Results(s, c)) < Min(Calls(s, c))}}

CrossBranch(s) ==
  {Finding("SL106", "error", "manual", Min(Calls(s, k)), k, <<>>, 1)
   : k \in {c \in CleanPairs(s) : ~Joined(s, s[Min(Calls(s, c))].id, s[Min(Results(s, c))].id)}}

\* Other tools and metadata may stand between a call and its result.
Between(s, k) == {i \in Span(s, k) \ Tools(s) : s[i].kind # "opaque"}

Apart(s) ==
  LET between == [k \in CleanPairs(s) |-> Between(s, k)]
  IN {Finding("SL107", "warning", "manual", Min(Calls(s, k)), k, <<>>, Cardinality(between[k]))
      : k \in {c \in DOMAIN between : between[c] # {}}}

CompactionSplits(s) ==
  LET split == [k \in CleanPairs(s) |-> SplitBy(s, k)]
  IN {Finding("SL108", "warning", IF Cardinality(split[k]) = 1 THEN "deterministic" ELSE "lossy",
              Min(split[k]), k, <<>>, Cardinality(split[k]))
      : k \in {c \in DOMAIN split : split[c] # {}}}

(***************************************************************************)
(* Checkpoints: their numbers and hashes, and what a compaction covers.    *)
(***************************************************************************)
Checkpoints(s) == OfKind(s, "checkpoint")
Number(s, i) == Says(s[i].content).number
Hash(s, i) == Says(s[i].content).hash
Numbered(s) == {i \in Checkpoints(s) : Number(s, i) # None}

\* The number skips one after the last numbered checkpoint; it may go back.
Jumps(s, i) ==
  LET before == {j \in Numbered(s) : j < i}
  IN i \in Numbered(s) /\ before # {} /\ Number(s, i) > Number(s, Max(before)) + 1

CheckpointGaps(s) ==
  {Finding("SL201", "error", "manual", i, None, <<>>, 1)
   : i \in {c \in Checkpoints(s) : Hash(s, c) = None \/ Jumps(s, c)}}

\* Checkpoints of one number; the first of them that has a hash decides.
SameNumber(s, i) == {j \in Numbered(s) : Number(s, j) = Number(s, i) /\ Hash(s, j) # None}
Diverges(s, i) == i \in Numbered(s) /\ Hash(s, i) \notin {None, Hash(s, Min(SameNumber(s, i) \union {i}))}

Divergences(s) ==
  {Finding("SL202", "error", "manual", i, None, <<>>, 1) : i \in {c \in Checkpoints(s) : Diverges(s, c)}}

\* No checkpoint follows the compaction, or a tool event comes before it does.
Uncovered(s) ==
  {b \in OfKind(s, "compaction_boundary") :
     LET later == {c \in Checkpoints(s) : c > b}
     IN later = {} \/ \E t \in Tools(s) : b < t /\ t < Min(later)}

\* Where state was lost: every checkpoint of a number that diverges counts, the
\* first of them included; a compaction counts where the format has checkpoints.
LossPoints(s, capable) ==
  {f.at : f \in CheckpointGaps(s)}
  \union {i \in Numbered(s) : \E c \in Checkpoints(s) : Diverges(s, c) /\ Number(s, c) = Number(s, i)}
  \union (IF capable THEN Uncovered(s) ELSE {})

\* SL203: a tool event follows the first loss.
UnsafeContinuations(s, capable) ==
  LET lost == LossPoints(s, capable)
      unsafe == {t \in Tools(s) : \E l \in lost : l < t}
  IN IF unsafe = {} THEN {} ELSE {Finding("SL203", "error", "manual", Min(unsafe), None, <<>>, 1)}

\* The one event with this id.
Unique(s, id) == Cardinality(Occurrences(s, id)) = 1
Where(s, id) == CHOOSE i \in Occurrences(s, id) : TRUE

\* From the event the claim names up to a root: every parent stands alone under its
\* id and before the compaction.  Going round in a circle breaks nothing.
ParentBefore(s, b, i) == Unique(s, s[i].parent) /\ Where(s, s[i].parent) < b
Upwards(s, b, leaf) ==
  LET up[n \in 0 .. b] ==
        IF n = 0 THEN {leaf}
        ELSE up[n - 1] \union {Where(s, s[i].parent) : i \in {j \in up[n - 1] : ParentBefore(s, b, j)}}
  IN up[b]

CoverageBroken(s, b) ==
  LET id == Says(s[b].content).covers
  IN \/ id \notin Ids(s)
     \/ /\ Unique(s, id)
        /\ \/ Where(s, id) >= b
           \/ \E i \in Upwards(s, b, Where(s, id)) : s[i].parent # None /\ ~ParentBefore(s, b, i)

\* A claim is skipped where it is missing or its id is not unique.
CoverageClaims(s) ==
  {Finding("SL205", "warning", "manual", b, None, <<>>, 1)
   : b \in {c \in OfKind(s, "compaction_boundary") : Says(s[c].content).covers # None /\ CoverageBroken(s, c)}}

FindingsUnder(s, capable) ==
  UNION {DuplicateIds(s), MissingParents(s), ParentCycles(s), Disconnected(s), Heads(s), Orphans(s),
         Dangling(s), ReusedCalls(s), MultiResults(s), Reversed(s), CrossBranch(s), Apart(s),
         CompactionSplits(s), CheckpointGaps(s), Divergences(s), UnsafeContinuations(s, capable),
         CoverageClaims(s)}

\* Of the formats only the canonical one has checkpoints.
Findings(s, format) == FindingsUnder(s, format = "canonical")

(***************************************************************************)
(* The lines of a file that are no events: a torn line is SL002 where it   *)
(* ends the file, unterminated, and SL001 before that.  Its finding names  *)
(* the line and no event.                                                  *)
(***************************************************************************)
TornLines(lines) == {i \in DOMAIN lines : lines[i].kind = "torn"}
Decoded(lines) == Picked(lines, DOMAIN lines \ TornLines(lines))

Damage(lines) ==
  {Finding(IF i = Len(lines) THEN "SL002" ELSE "SL001", "error",
           IF i = Len(lines) THEN "deterministic" ELSE "manual", 0, None, <<i>>, 1) : i \in TornLines(lines)}

Errors(found) == {f \in found : f.severity \in {"error", "fatal"}}
Warnings(found) == {f \in found : f.severity = "warning"}
Refusing(found) == \E f \in found : f.code = "SL203"

\* Mutant: an unfinished append is an error like others.
AssuranceOfErrors(s, found) ==
  CASE s = <<>> \/ (\E f \in found : f.code = "SL001") -> "A0"
    [] OTHER -> IF Errors(found) # {} THEN "A1" ELSE IF Warnings(found) # {} THEN "A2" ELSE "A3"

\* How far a session can be trusted, from its findings; the level a replay by the
\* reference reader adds above "A3" is not told apart from it.
Assurance(s, found) ==
  CASE s = <<>> \/ (\E f \in found : f.code \in {"SL001", "SL002"}) -> "A0"
    [] OTHER -> IF Errors(found) # {} THEN "A1" ELSE IF Warnings(found) # {} THEN "A2" ELSE "A3"
=============================================================================

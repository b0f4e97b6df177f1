---------------------------- MODULE RepairPipeline ----------------------------
(***************************************************************************)
(* A repair from the checks to the repaired copy: plan the file under a    *)
(* policy, apply all or some of the planned steps in memory to the file as *)
(* it is then, check the result again, and accept it or refuse it whole.   *)
(* A copy is emitted as a canonical session or, for a vendor's file, as    *)
(* whole lines of that file.  How an accepted copy reaches the disk is     *)
(* RepairPublish.                                                          *)
(***************************************************************************)
EXTENDS SalvageRecipes

CONSTANTS Catalogs,  \* what sessions are made of: the records, how many of them the
                     \* first file holds at most, whether one may recur, whose
                     \* format they are in, and the policies they are repaired under
          Appended,  \* the records another program may append
          MaxLen     \* bound: lines in a file

ASSUME PipelineAssumption ==
  /\ MaxLen \in Nat
  /\ \A c \in Catalogs : /\ c.upTo \in 1 .. MaxLen /\ c.recurring \in BOOLEAN
                         /\ c.format \in {"canonical", "vendor"}
                         /\ c.policies \subseteq {"conservative", "salvage"}
  /\ \A r \in Appended \union UNION {c.records : c \in Catalogs} :
       r = [id |-> r.id, parent |-> r.parent, kind |-> r.kind, corr |-> r.corr, content |-> r.content,
            effects |-> r.effects, origin |-> 0, joined |-> r.joined]

VARIABLES file,     \* the session file's lines now: its records, and torn lines
          origin,   \* what is known of the file: its format and the policy it is repaired under
          plan,     \* the plan: the source it was made for, its steps, what it left alone
          emit,     \* the format of the copy
          loaded,   \* the events the executor read
          working,  \* the events the recipes have produced so far
          todo,     \* the supplied steps not applied yet
          applied,  \* the steps applied
          pc        \* "idle", "planned", "applying", "written" or "refused"

vars == <<file, origin, plan, emit, loaded, working, todo, applied, pc>>

NoPlan == [source |-> <<>>, policy |-> "conservative", ack |-> FALSE, steps |-> <<>>, blocked |-> {}, waiting |-> {}]

(***************************************************************************)
(* The planner.                                                            *)
(***************************************************************************)
\* A step on an undecoded line names the line and the id recovered from it.
Step(recipe, f, s, lines) ==
  IF recipe \in OnLines
  THEN [recipe |-> recipe, at |-> 0, corr |-> None, list |-> <<>>, line |-> f.list[1],
        id |-> lines[f.list[1]].id, loss |-> LossOf(recipe, f, s)]
  ELSE [recipe |-> recipe, at |-> f.at, corr |-> f.corr, list |-> f.list, line |-> 0,
        id |-> s[f.at].id, loss |-> LossOf(recipe, f, s)]

\* Exactly one adjacent pair of records that are the same but for position.
AdjacentPair(f, s) ==
  f.count = 2 /\ f.list[2] = f.list[1] + 1 /\ Alike(s[f.list[1]], s[f.list[2]])

AllListed(f) == f.count = Len(f.list)

Repeated(f, s) ==
  LET results == Results(s, f.corr)
  IN \E r \in results \ {Min(results)} : s[r].content = s[Min(results)].content

\* The first registered recipe of either kind whose preconditions hold, "" when
\* there is none.
ConservativeRecipe(f, s) ==
  CASE f.code = "SL002" -> "torn-terminal-record-discard"
    [] f.code = "SL003" /\ AdjacentPair(f, s) -> "identical-duplicate-collapse"
    [] f.code = "SL003" /\ ~AdjacentPair(f, s) /\ AllListed(f) -> "identical-duplicate-drop"
    [] f.code = "SL104" /\ Repeated(f, s) -> "duplicate-projection-removal"
    [] f.code = "SL108" /\ SplitOnce(s, f.corr) -> "compaction-projection-reunion"
    [] OTHER -> ""

RecipeFor(f, s, lines, policy, ack) ==
  LET conservative == ConservativeRecipe(f, s)
      salvage == SalvageRecipe(f)
      salvages == /\ policy = "salvage" /\ salvage # ""
                  /\ salvage \in NeedsAcknowledgement => ack
                  /\ Fits(salvage, f, s, lines)
  IN IF conservative # "" THEN conservative ELSE IF salvages THEN salvage ELSE ""

\* A manual finding is taken up only when salvage has a recipe of its own for it;
\* under the conservative policy every step must stay in its scope.
Repairable(f, step, s, policy) ==
  /\ \/ f.repair = "deterministic"
     \/ f.repair \in {"manual", "lossy"} /\ policy = "salvage" /\ SalvageRecipe(f) # ""
  /\ policy = "conservative" => InScope(step, s)

\* The steps for a finding: one, or none.
StepsOf(f, s, lines, policy, ack) ==
  LET recipe == RecipeFor(f, s, lines, policy, ack)
  IN {step \in IF recipe = "" THEN {} ELSE {Step(recipe, f, s, lines)} : Repairable(f, step, s, policy)}

\* Blocked for want of an acknowledgement only, as far as the planner looked.
Waits(f, policy, ack) == policy = "salvage" /\ ~ack /\ SalvageRecipe(f) \in NeedsAcknowledgement

AllFindings(lines, format) == Findings(Decoded(lines), format) \union Damage(lines)

\* The steps of each finding together, the findings that have none, and those of
\* them an acknowledgement might change.
PlanOf(steps, policy, ack) ==
  LET found == DOMAIN steps
  IN [steps |-> UNION {steps[f] : f \in found},
      blocked |-> {f \in found : steps[f] = {}},
      waiting |-> {f \in found : Waits(f, policy, ack) /\ ~Refusing(found)}]

StepsOfAll(found, s, lines, policy, ack) ==
  [f \in found |-> IF Refusing(found) THEN {} ELSE StepsOf(f, s, lines, policy, ack)]

Planned(lines, format, policy, ack) ==
  PlanOf(StepsOfAll(AllFindings(lines, format), Decoded(lines), lines, policy, ack), policy, ack)

StepsFor(lines, format, policy, ack) == Planned(lines, format, policy, ack).steps

RankOf(step) == SelectInSeq(AllRecipes, LAMBDA name : name = step.recipe)

\* A step without an event counts as one on the first.
PlaceOf(step) == Max({step.at, 1})
Precedes(a, b) == PlaceOf(a) < PlaceOf(b) \/ (PlaceOf(a) = PlaceOf(b) /\ RankOf(a) < RankOf(b))

\* Steps in the order of a plan.  Two steps of one recipe at one position are
\* ordered by a hash of their findings, which is either order here.
PlanOrders(steps) == {order \in SetToSeqs(steps) : \A i, j \in DOMAIN order : Precedes(order[i], order[j]) => i < j}

\* A file with errors that nothing can be done about is refused.
NothingToDo(p) == p.steps = {} /\ Errors(p.blocked) # {}

\* The file is planned, or refused.  An acknowledgement that changes
\* nothing counts as none given.
Adopt(planned) ==
  \E ack \in DOMAIN planned :
    /\ ack => planned[TRUE] # planned[FALSE]
    /\ \E order \in PlanOrders(planned[ack].steps) :
         plan' = [source |-> file, policy |-> origin.policy, ack |-> ack, steps |-> order,
                  blocked |-> planned[ack].blocked, waiting |-> planned[ack].waiting]
    /\ pc' = IF NothingToDo(planned[ack]) THEN "refused" ELSE "planned"

Answers(policy) == IF policy = "salvage" THEN BOOLEAN ELSE {FALSE}

MakePlan ==
  /\ pc = "idle"
  /\ Adopt([ack \in Answers(origin.policy) |-> Planned(file, origin.format, origin.policy, ack)])
  /\ UNCHANGED <<file, origin, emit, loaded, working, todo, applied>>

SameSource == plan.source = file

\* Another program appends to the file, before or after the executor has read it.
\* (An append to a torn line completes or spoils that line instead.)
Append1 ==
  /\ pc \in {"planned", "applying"}
  /\ plan.steps # <<>>
  /\ Len(file) < MaxLen
  /\ Last(file).kind # "torn"
  /\ SameSource
  /\ \E r \in Appended : file' = Append(file, r)
  /\ UNCHANGED <<origin, plan, emit, loaded, working, todo, applied, pc>>

(***************************************************************************)
(* The executor.                                                           *)
(***************************************************************************)
Unaffected(s) == \A i \in Tools(s) : s[i].effects = "none"
Targeted(steps) == {steps[i].line : i \in DOMAIN steps}

\* A supplied plan is trusted for steps only that the planner has for these very
\* bytes.
VetPlan(steps, ack) == SameSource /\ ToSet(steps) \subseteq StepsFor(file, origin.format, plan.policy, ack)

\* The steps are the planner's, nothing forbids repairing the file, and a canonical copy would lose no undecoded line that no step discards.
Acceptable(steps, ack, as) ==
  /\ VetPlan(steps, ack)
  /\ ~Refusing(Findings(Decoded(file), origin.format))
  /\ plan.policy = "salvage" => ack \/ Unaffected(Decoded(file))
  /\ as = "canonical" => TornLines(file) \subseteq Targeted(steps)

\* A vendor's file is emitted in its own format unless asked otherwise.
EmitFormats == {"canonical", origin.format}

\* The operator supplies the plan, or the plan with some of its steps.
Load ==
  /\ pc = "planned"
  /\ \E chosen \in SUBSET DOMAIN plan.steps,
        ack \in Answers(plan.policy),
        as \in EmitFormats :
       LET steps == Picked(plan.steps, chosen)
       IN IF Acceptable(steps, ack, as)
          THEN /\ todo' = steps
               /\ emit' = as
               /\ loaded' = Decoded(file)
               /\ working' = Tag(Decoded(file))
               /\ pc' = "applying"
          ELSE /\ todo' = IF SameSource THEN steps ELSE <<>>
               /\ pc' = "refused"
               /\ UNCHANGED <<emit, loaded, working>>
  /\ UNCHANGED <<file, origin, plan, applied>>

CarriesOut(step, s) == IF step.recipe \in Lossy \union OnLines THEN Salvageable(step, s) ELSE Applicable(step, s)
Outcome(step, s) == IF step.recipe \in Lossy \union OnLines THEN Salvaged(step, s) ELSE Apply(step, s)

\* The scope is judged in the source, the recipe runs on the events as they are.
CanApply(step) ==
  /\ plan.policy = "conservative" => InScope(step, loaded)
  /\ Relocatable(step, working)
  /\ CarriesOut(Relocate(step, working), working)

ApplyStep ==
  /\ pc = "applying"
  /\ todo # <<>>
  /\ IF CanApply(Head(todo))
     THEN /\ working' = Outcome(Relocate(Head(todo), working), working)
          /\ applied' = Append(applied, Head(todo))
          /\ todo' = Tail(todo)
          /\ UNCHANGED pc
     ELSE /\ pc' = "refused"
          /\ UNCHANGED <<working, applied, todo>>
  /\ UNCHANGED <<file, origin, plan, emit, loaded>>

\* No tool result may appear more often than it did in the source.
ResultsCovered(out, src) ==
  \A id \in Ids(out) : Cardinality(Occurrences(out, id) \intersect OfKind(out, "tool_result"))
                       <= Cardinality(Occurrences(src, id) \intersect OfKind(src, "tool_result"))

\* The number of the source line an event came from; a line may hold several.
LineOf(s, i) == Cardinality({j \in 1 .. i : ~s[j].joined})

\* A vendor's file is repaired by keeping or dropping whole lines of it: the
\* lines that hold an event the recipes kept.
Projected(s, now) ==
  LET lines == {LineOf(s, now[i].origin) : i \in DOMAIN now}
  IN Picked(Tag(s), {i \in DOMAIN s : LineOf(s, i) \in lines})

\* Mutant: a line whose events the recipes changed or kept in part is emitted.
EmitsAnyway == emit = "vendor" => TornLines(plan.source) \subseteq Targeted(applied)

\* What is emitted reads back as what was repaired, with no undecoded line left.
Emits ==
  emit = "vendor" =>
    /\ Projected(loaded, working) = working
    /\ TornLines(plan.source) \subseteq Targeted(applied)

\* The copy is judged as the format it is emitted in.
Revalidate ==
  /\ pc = "applying"
  /\ todo = <<>>
  /\ pc' = IF /\ ResultsCovered(Untag(working), loaded)
              /\ Errors(Findings(Untag(working), emit)) = {}
              /\ Emits
              /\ SameSource
           THEN "written" ELSE "refused"
  /\ UNCHANGED <<file, origin, plan, emit, loaded, working, todo, applied>>

NoneRecurs(s) == Cardinality(ToSet(s)) = Len(s)

\* A line that holds several events is read and written as one.
Unbroken(s) == \A i \in DOMAIN s : s[i].joined => i > 1 /\ s[i - 1].kind # "torn" /\ s[i - 1].id = s[i].parent

Init ==
  /\ \E c \in Catalogs :
       /\ \E n \in 1 .. c.upTo : \E s \in [1 .. n -> c.records] :
            /\ c.recurring \/ NoneRecurs(s)
            /\ Unbroken(s)
            /\ file = s
       /\ \E p \in c.policies : origin = [format |-> c.format, policy |-> p]
  /\ plan = NoPlan
  /\ emit = "canonical"
  /\ loaded = <<>> /\ working = <<>> /\ todo = <<>> /\ applied = <<>>
  /\ pc = "idle"

Next == MakePlan \/ Append1 \/ Load \/ ApplyStep \/ Revalidate

Spec == Init /\ [][Next]_vars

(***************************************************************************)
(* Properties.                                                             *)
(***************************************************************************)
\* In source s, record t says all that record o does: a step may drop o for t.
StandsFor(s, t, o) ==
  /\ t < o
  /\ s[t].kind = s[o].kind /\ s[t].content = s[o].content
  /\ s[t].id = s[o].id \/ (s[t].kind = "tool_result" /\ s[t].corr = s[o].corr /\ s[t].corr # None)

Source == Decoded(plan.source)
Dropped == DOMAIN Source \ Origins(working)
Redundant(o) == \E t \in Origins(working) : StandsFor(Source, t, o)

\* Going from dropped records to their stand-ins leads from one id to another: every
\* set of ids that has the one, and with a dropped record's the id of its stand-ins,
\* has the other.
LeadsTo(from, to) ==
  \A ids \in SUBSET (Ids(Source) \union {from}) :
     /\ from \in ids
     /\ \A o \in Dropped, t \in DOMAIN Source :
          StandsFor(Source, t, o) /\ Source[o].id \in ids => Source[t].id \in ids
     => to \in ids

\* An accepted conservative copy is the planned source less redundant records:
\* every record it lacks has an earlier one in it that says the same, every record
\* it has is one of the source's, once, and a parent changed only to a record of the
\* copy, from a dropped one to its stand-in, or on from there (an id that several
\* records share may be relinked twice).  Several steps that each shift the
\* positions the later ones address, a subset of a plan, or a plan made before the
\* file grew must not leave it otherwise.
OutputDerives ==
  pc = "written" /\ plan.policy = "conservative" =>
    LET s == Source
        kept == Origins(working)
    IN /\ kept \subseteq DOMAIN s /\ Cardinality(kept) = Len(working)
       /\ \A o \in Dropped : Redundant(o)
       /\ \A i \in DOMAIN working :
            LET now == Body(working[i])
                was == Body(s[working[i].origin])
            IN /\ [now EXCEPT !.parent = was.parent] = was
               /\ \/ now.parent = was.parent
                  \/ now.parent \in Ids(working) /\ LeadsTo(was.parent, now.parent)

Losses(steps) == [i \in DOMAIN steps |-> steps[i].loss]
Lost(steps) == FoldSeq(LAMBDA x, y : x + y, 0, Losses(steps))

\* Under either policy an accepted copy lacks no more than its steps declare lost:
\* the records that nothing in it stands for, and the undecoded lines other than a
\* torn end.  The losses are counted on the source when the plan is made, the
\* records go when earlier steps have changed what belongs together.
LossDeclared ==
  pc = "written" =>
    Cardinality({o \in Dropped : ~Redundant(o)}) + Cardinality(TornLines(plan.source) \ {Len(plan.source)})
      <= Lost(applied)

\* A tool event whose execution is ambiguous, or which may have had effects, is
\* never dropped, changed, or passed by another event by a conservative step,
\* whatever the steps applied before did to the positions: each step's scope is
\* judged in the source only.
DelicateUntouched ==
  pc \in {"applying", "written"} /\ plan.policy = "conservative" =>
    \A d \in Delicate(loaded) :
       \E i \in DOMAIN working :
          /\ working[i] = [loaded[d] EXCEPT !.origin = d]
          /\ \A j \in DOMAIN working : j < i <=> working[j].origin < d

\* The events of the pairs that the steps applied reunite.
Reunion(n) == applied[n].recipe = "compaction-projection-reunion"
ReunitedSpans == UNION {Span(loaded, applied[n].corr) : n \in {m \in DOMAIN applied : Reunion(m)}}

\* Only compaction boundaries move, only from within a pair that a step applied
\* reunites, and only past events of such pairs.  (An earlier step may have left
\* another boundary in the pair than the one its step was planned for.)
BoundariesCrossOnlyTheirPairs ==
  \A i, j \in DOMAIN working :
     i < j /\ working[j].origin < working[i].origin =>
       /\ working[j].kind = "compaction_boundary" /\ working[i].kind # "compaction_boundary"
       /\ {working[i].origin, working[j].origin} \subseteq ReunitedSpans

Whole == applied \o todo = plan.steps
Reunites == \E n \in DOMAIN plan.steps : plan.steps[n].recipe = "compaction-projection-reunion"

\* A whole plan leaves nothing to plan: an accepted copy passes the idempotence
\* check of verify.
RepairSettles == pc = "written" /\ Whole => StepsFor(Untag(working), emit, plan.policy, plan.ack) = {}

=============================================================================

------------------------------ MODULE Outcome ------------------------------
(***************************************************************************)
(* The outcome guard (src/sesslint/outcome/) beside the world it reports   *)
(* on.  Work is requested at a source system and completed at a target;    *)
(* now and then someone exports a snapshot of each, and the guard judges   *)
(* the contract against the two.  The guard sees the exports and their     *)
(* metadata, never the systems: the properties compare what it says with   *)
(* what had really happened.                                               *)
(***************************************************************************)
EXTENDS OutcomeEngine

CONSTANTS
    Scenarios,      \* contracts, each with the rows and records worth trying
    MaxTime         \* the last instant

ASSUME OutcomeBounds == MaxTime \in Nat

VARIABLES
    scenario,       \* the contract in force, the shapes of the data, its bounds
    now,
    requested,      \* source rows, oldest first: [item, at, data]
    completed,      \* target records, oldest first: [item, at, data]
    report          \* the last evaluation, or NoReport

vars == <<scenario, now, requested, completed, report>>

Contract == scenario.contract
NoReport == [outcome |-> "none"]
Completeness == {"complete", "partial", "unavailable"}

(* A field that takes the instant at which the record is written. *)
Stamp == [is |-> "stamp", of |-> 0]
Stamped(shape) == [f \in DOMAIN shape |-> IF shape[f] = Stamp THEN Time(now) ELSE shape[f]]

(***************************************************************************)
(* Which contracts load (contract.contract_from_dict and _condition).      *)
(***************************************************************************)
BoundsAccepted(cond) ==
    CASE cond.type = "count" ->
           /\ \A l \in cond.low, h \in cond.high : l =< h
           /\ ~(cond.low = {0} /\ cond.high = {})
           /\ 0 \notin cond.high
      [] cond.type = "range" ->
           cond.low \cup cond.high # {} /\ \A l \in cond.low, h \in cond.high : l =< h
      [] OTHER -> TRUE

ConditionAccepted(cond, due) ==
    /\ BoundsAccepted(cond)
    /\ cond.type \in {"one_of", "route"} => Null \notin cond.values
    /\ cond.type = "route" => cond.when # {}
    /\ cond.type = "on_time" => due # "" /\ (cond.basis = "observation" => cond.field = "")
    /\ cond.type = "any_of" =>
         /\ Len(cond.branches) >= 2
         /\ \A i \in DOMAIN cond.branches :
              LET b == cond.branches[i] IN b.type # "any_of" /\ ~b.advisory /\ ~b.disabled

ContractAccepted(contract) ==
    /\ contract.conditions # <<>>
    /\ Len(contract.sourceKey) = Len(contract.targetKey)
    /\ \E c \in Range(contract.conditions) : ~c.advisory /\ ~c.disabled
    /\ \A c \in Range(contract.conditions) :
         /\ ConditionAccepted(c, contract.due)
         /\ \A i \in DOMAIN c.branches : ConditionAccepted(c.branches[i], contract.due)

(***************************************************************************)
(* The world.                                                              *)
(***************************************************************************)
Entry(shape) == [item |-> shape.item, at |-> now, data |-> Stamped(shape.data)]

Tick ==
    /\ report = NoReport
    /\ now < MaxTime
    /\ now' = now + 1
    /\ UNCHANGED <<scenario, requested, completed, report>>

(* Work is requested, for the first time or again, early enough to be late. *)
Request ==
    /\ report = NoReport
    /\ now < MaxTime
    /\ Len(requested) < scenario.maxRows
    /\ \E shape \in scenario.rows : requested' = Append(requested, Entry(shape))
    /\ UNCHANGED <<scenario, now, completed, report>>

(* The target records a result, of work requested or not. *)
Complete ==
    /\ report = NoReport
    /\ Len(completed) < scenario.maxRecords
    /\ \E shape \in scenario.records : completed' = Append(completed, Entry(shape))
    /\ UNCHANGED <<scenario, now, requested, report>>

(***************************************************************************)
(* Exports.  A complete export holds every record of its system at the     *)
(* instant it was taken, a partial one some of them ("unknown" is judged   *)
(* like "partial"); its metadata may not say when that was.                *)
(***************************************************************************)
IndicesAt(log, t) == {i \in DOMAIN log : log[i].at =< t}

Kept(log, t, completeness) ==
    CASE completeness = "complete" -> {IndicesAt(log, t)}
      [] completeness = "partial" -> SUBSET IndicesAt(log, t)
      [] completeness = "unavailable" -> {{}}

(* snapshot.Snapshot: a CSV has its header's fields, JSON those it holds. *)
Snapshot(log, kept, format, completeness, taken, observed) ==
    LET order   == SetToSortSeq(kept, <)
        records == [n \in 1..Len(order) |-> log[order[n]].data]
    IN  [records      |-> records,
         format       |-> format,
         fields       |-> IF format = "csv" THEN scenario.header ELSE UNION {DOMAIN r : r \in Range(records)},
         completeness |-> completeness,
         observed     |-> observed,
         taken        |-> taken]

(* verify_outcome: the evaluation instant is the one given, or else the    *)
(* target observation; exit 0 says VERIFIED.  An export of an earlier      *)
(* instant is still at hand, so it is enough to evaluate at the end.       *)
Evaluate ==
    /\ report = NoReport
    /\ now = MaxTime
    /\ \E sc, tc \in Completeness, st, tt \in 0..now, known \in BOOLEAN, given \in {{}, {MaxTime}} :
       \E sk \in Kept(requested, st, sc), tk \in Kept(completed, tt, tc) :
         LET observed == IF known THEN {tt} ELSE {}
             source   == Snapshot(requested, sk, scenario.sourceFormat, sc, st, {st})
             target   == Snapshot(completed, tk, scenario.targetFormat, tc, tt, observed)
             instants == IF given = {} THEN observed ELSE given
             asOf     == CHOOSE t \in instants : TRUE
             items    == Items(Contract, source, target, asOf)
         IN  /\ instants # {}
             /\ ~Refused(source, target, asOf)
             /\ report' = [outcome |-> Outcome(Contract, source, target, items),
                           items   |-> items,
                           source  |-> source,
                           target  |-> target,
                           asOf    |-> asOf]
    /\ UNCHANGED <<scenario, now, requested, completed>>

(* Another question about the same exports. *)
Discard ==
    /\ report # NoReport
    /\ report' = NoReport
    /\ UNCHANGED <<scenario, now, requested, completed>>

Init ==
    /\ scenario \in {s \in Scenarios : ContractAccepted(s.contract)}
    /\ now = 0
    /\ requested = <<>> /\ completed = <<>>
    /\ report = NoReport

Next == Tick \/ Request \/ Complete \/ Evaluate \/ Discard

Spec == Init /\ [][Next]_vars

(***************************************************************************)
(* What had really happened, told from the two systems themselves.         *)
(***************************************************************************)
(* The number a text stands for, where a number is what it is held to. *)
Meaning(value, typed) ==
    IF value.is = "digits" \/ (~typed /\ value.is \in Spellings) THEN Number(value.of) ELSE value

Same(a, aTyped, b, bTyped, trim) ==
    IF "number" \in {a.is, b.is} THEN Meaning(a, aTyped) = Meaning(b, bTyped)
    ELSE a = b \/ (trim /\ {a.is, b.is} = {"padded", "digits"} /\ a.of = b.of)

SourceTyped == scenario.sourceFormat # "csv"
TargetTyped == scenario.targetFormat # "csv"
Results(item, t) == {i \in IndicesAt(completed, t) : completed[i].item = item}

TrulyHolds(pred, data) ==
    LET there == pred.field \in DOMAIN data
        value == data[pred.field]
        among == \E w \in pred.values : Same(value, SourceTyped, w, TRUE, FALSE)
    IN  CASE pred.op = "present" -> there /\ ~IsEmpty(value)
          [] pred.op = "absent"  -> there => IsEmpty(value)
          [] pred.op = "in"      -> there /\ among
          [] pred.op = "not_in"  -> there /\ ~among
          [] pred.op = "gte"     -> there /\ value.of >= (CHOOSE w \in pred.values : TRUE).of

Eligible(row) == \A p \in Contract.eligibility : TrulyHolds(p, row.data)

(* Does one result meet a condition on its fields? *)
Fits(cond, row, data) ==
    LET there == cond.field \in DOMAIN data
        value == data[cond.field]
        optional(test) == there /\ value # Null => test
    IN  CASE cond.type = "required" -> there /\ ~IsEmpty(value)
          [] cond.type = "equals"   -> there /\ Same(row.data[cond.sourceField], SourceTyped, value, TargetTyped, cond.trim)
          [] cond.type = "one_of"   -> optional(\E w \in cond.values : Same(value, TargetTyped, w, TRUE, FALSE))
          [] cond.type = "range"    -> optional(/\ ReadNumber(value, TargetTyped, FALSE) # {}
                                                /\ \A b \in cond.low : value.of >= b
                                                /\ \A b \in cond.high : value.of =< b)
          [] cond.type = "type"     -> optional(ReadNumber(value, TargetTyped, FALSE) # {})
          [] cond.type = "route"    -> (\A p \in cond.when : TrulyHolds(p, row.data)) =>
                                          there /\ \E w \in cond.values : Same(value, TargetTyped, w, TRUE, FALSE)

(* The conditions that count results, of those there at instant t. *)
Occurred(cond, row, t) ==
    LET results == Results(row.item, t)
        start   == row.data[Contract.due].of
    IN  CASE cond.type = "exists"  -> results # {}
          [] cond.type = "count"   -> /\ \A b \in cond.low : Cardinality(results) >= b
                                      /\ \A b \in cond.high : Cardinality(results) =< b
          [] cond.type = "on_time" ->
               \E i \in results :
                  /\ completed[i].at =< start + Contract.within
                  /\ cond.basis = "target_time" => completed[i].at >= start

Occurrences == {"exists", "count", "on_time"}

(* The instant from which a missing result is a failure: its deadline. *)
Settled(row, t) ==
    LET deadlines == {d + Contract.within : d \in Instant(row.data, Contract.due)}
    IN  Max({t} \cup deadlines)

BranchMet(cond, row, t) ==
    IF cond.type \in Occurrences THEN Occurred(cond, row, t)
    ELSE \E i \in Results(row.item, t) : Fits(cond, row, completed[i].data)

BranchFailed(cond, row, t) ==
    IF cond.type \in Occurrences THEN ~Occurred(cond, row, Settled(row, t))
    ELSE \E i \in Results(row.item, t) : ~Fits(cond, row, completed[i].data)

Met(cond, row, t) ==
    IF cond.type = "any_of" THEN \E b \in Range(cond.branches) : BranchMet(b, row, t)
    ELSE \/ BranchMet(cond, row, t)
         \/ cond.type = "route" /\ \E p \in cond.when : ~TrulyHolds(p, row.data)

Failed(cond, row, t) ==
    IF cond.type = "any_of"
    THEN /\ \E b \in Range(cond.branches) : BranchFailed(b, row, t)
         /\ \A b \in Range(cond.branches) : b.type \in Occurrences => BranchFailed(b, row, t)
    ELSE BranchFailed(cond, row, t)

Decisive == {c \in Range(Contract.conditions) : ~c.advisory /\ ~c.disabled}

(* The rows the source export lists under a key. *)
Listed(k) ==
    {r \in Range(requested) : /\ r.data \in Range(report.source.records)
                              /\ Key(r.data, Contract.sourceKey) = {k}}

Judged(status) ==
    IF report = NoReport THEN {} ELSE {k \in DOMAIN report.items : report.items[k] = status}

(***************************************************************************)
(* Properties.                                                             *)
(***************************************************************************)
(* A verified item is one whose work was due and done: whatever was left   *)
(* out of either export, however late they were taken and whatever times   *)
(* the records claim, its decisive conditions had come true by then.       *)
VerifiedIsTrue ==
    \A k \in Judged("VERIFIED") : \A row \in Listed(k) :
        /\ Eligible(row)
        /\ \A c \in Decisive : Met(c, row, report.target.taken)

(* A violated item is one for which a decisive condition had come out      *)
(* false: a result that is only out of the export's sight, not due yet, or *)
(* filed without its key is no violation.  One case is set apart: a        *)
(* visible completion that is late is reported as late although a keyless  *)
(* row of the export may be the one that was in time (_on_time_check asks  *)
(* only whether the target is complete, _count_check asks for keys too).   *)
ViolatedIsFalse ==
    \A k \in Judged("VIOLATED") : \A row \in Listed(k) :
        /\ Eligible(row)
        /\ \E c \in Decisive :
             \/ Failed(c, row, report.target.taken)
             \/ /\ Unkeyed(report.target.records, Contract.targetKey) > 0
                /\ "on_time" \in {c.type} \cup {b.type : b \in Range(c.branches)}

(* A verified outcome speaks for the whole source at the instant of its    *)
(* export: no request made by then, listed or not, keyed or not, was owed  *)
(* a result that the target did not hold.                                  *)
OutcomeCovers ==
    report.outcome = "VERIFIED" =>
        \A row \in Range(requested) :
            row.at =< report.source.taken /\ Eligible(row) =>
                \A c \in Decisive : Met(c, row, report.target.taken)

(* The guard does not hide behind doubt: from complete exports with usable *)
(* keys and times, taken after every deadline, it decides each contract on *)
(* existence, number and completion time.                                  *)
Decidable ==
    LET source == report.source
        target == report.target
        starts == UNION {Instant(r, Contract.due) : r \in Range(source.records)}
    IN  /\ \A c \in Range(Contract.conditions) :
             c.type \in Occurrences /\ c.basis # "observation" /\ ~c.disabled
        /\ Contract.eligibility = {} /\ Contract.due # ""
        /\ source.completeness = "complete" /\ target.completeness = "complete"
        /\ source.records # <<>>
        /\ Unkeyed(source.records, Contract.sourceKey) = 0
        /\ Unkeyed(target.records, Contract.targetKey) = 0
        /\ \A r \in Range(source.records) : Instant(r, Contract.due) # {}
        /\ \A r, q \in Range(source.records) :
             Key(r, Contract.sourceKey) = Key(q, Contract.sourceKey) => r = q
        /\ \A o \in target.observed, t \in starts : o >= t + Contract.within
        /\ target.observed # {}
        /\ \A e \in Range(completed) :
             /\ "done" \in DOMAIN e.data /\ e.data["done"] = Time(e.at)
             /\ \A t \in starts : e.at >= t

DecidesWhenItCan ==
    report # NoReport /\ Decidable => report.outcome \notin {"INCONCLUSIVE", "PENDING"}
=============================================================================

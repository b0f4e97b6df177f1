--------------------------- MODULE OutcomeEngine ---------------------------
(***************************************************************************)
(* The outcome engine (src/sesslint/outcome/engine.py): what a contract    *)
(* says about the work items of a source snapshot, given the records of a  *)
(* target snapshot.  Pure: every operator is a function of its arguments.  *)
(*                                                                         *)
(* A field value is [is |-> sort, of |-> Int].  The sorts are those the    *)
(* engine tells apart: a JSON number, the text that spells that number     *)
(* ("digits"), another spelling of it ("spelled": 0012), a spelling it     *)
(* refuses to read as it stands ("padded": a blank before it), an instant, *)
(* any other text (0 is the empty string), null, and a nested value (0 is  *)
(* the empty list).  A record is a function from its fields to values; an  *)
(* answer that may be missing is a set with at most one element.           *)
(***************************************************************************)
EXTENDS Integers, Sequences, FiniteSets, SequencesExt

Number(n) == [is |-> "number", of |-> n]
Time(t) == [is |-> "time", of |-> t]
Null == [is |-> "null", of |-> 0]
Empty == [is |-> "text", of |-> 0]

(* engine._PRIORITY and worst: the gravest status of a set. *)
Priority == <<"VIOLATED", "INCONCLUSIVE", "PENDING", "VERIFIED", "NOT_EVALUATED", "NOT_APPLICABLE">>

Worst(statuses) ==
    IF statuses = {} THEN "NOT_EVALUATED"
    ELSE Priority[CHOOSE i \in DOMAIN Priority :
                    /\ Priority[i] \in statuses
                    /\ \A j \in 1..(i - 1) : Priority[j] \notin statuses]

(***************************************************************************)
(* Values.                                                                 *)
(***************************************************************************)
Spellings == {"digits", "spelled", "padded"}

(* _number and _read_number: text is a number only in an untyped snapshot, *)
(* padded text only when it is trimmed first.                              *)
ReadNumber(value, typed, trim) ==
    IF \/ value.is = "number"
       \/ ~typed /\ value.is \in {"digits", "spelled"}
       \/ ~typed /\ trim /\ value.is = "padded"
    THEN {value.of} ELSE {}

(* _looks_numeric *)
LooksNumeric(value, typed) == ~typed /\ value.is \in Spellings

(* _text and _normalized: the spelling two values are compared by. *)
Text(value, trim) ==
    CASE value.is \in {"null", "nested"} -> Null
      [] value.is = "number" \/ (trim /\ value.is = "padded") -> [is |-> "digits", of |-> value.of]
      [] OTHER -> value

(* _is_empty *)
IsEmpty(value) == value.is = "null" \/ (value.is \in {"text", "nested"} /\ value.of = 0)

(* parse_instant *)
Instant(record, field) ==
    IF field \in DOMAIN record /\ record[field].is = "time" THEN {record[field].of} ELSE {}

Answer(b) == IF b THEN "yes" ELSE "no"
Negate(answer) == CASE answer = "yes" -> "no" [] answer = "no" -> "yes" [] OTHER -> "unknown"

(* _Matcher.matches: does the value equal one the contract lists? *)
Matches(wanted, value, typed, trim) ==
    LET numerals == {w \in wanted : w.is = "number"}
        read     == ReadNumber(value, typed, trim)
        text     == Text(value, trim)
    IN  CASE read # {} ->
               Answer(\/ \E w \in numerals : w.of \in read
                      \/ text \in {Text(w, trim) : w \in wanted \ numerals})
          [] read = {} /\ text \in {Text(w, trim) : w \in wanted} -> "yes"
          [] OTHER -> IF numerals # {} /\ LooksNumeric(value, typed) THEN "unknown" ELSE "no"

(* _equal: text, except that a JSON number on either side compares as one. *)
Equal(source, target, trim, sourceTyped, targetTyped) ==
    LET left  == ReadNumber(source, sourceTyped, trim)
        right == ReadNumber(target, targetTyped, trim)
        same  == Text(source, trim) = Text(target, trim)
    IN  IF "number" \notin {source.is, target.is} THEN Answer(same)
        ELSE IF left # {} /\ right # {} THEN Answer(left = right)
        ELSE IF same THEN "yes"
        ELSE IF \/ left = {} /\ LooksNumeric(source, sourceTyped)
                \/ right = {} /\ LooksNumeric(target, targetTyped)
             THEN "unknown" ELSE "no"

(* _kind_ok *)
KindOk(value, kind, typed) ==
    CASE kind = "string"    -> value.is \in Spellings \cup {"text", "time"}
      [] kind = "number"    -> ReadNumber(value, typed, FALSE) # {}
      [] kind = "date-time" -> value.is = "time"

(***************************************************************************)
(* Predicates on a source record; "unknown" when it cannot be decided.     *)
(***************************************************************************)
Predicate(pred, record, ctx) ==
    LET value  == record[pred.field]
        number == ReadNumber(value, ctx.sourceTyped, FALSE)
        match  == Matches(pred.values, value, ctx.sourceTyped, FALSE)
        there  == Answer(pred.field \in DOMAIN record /\ ~IsEmpty(value))
    IN  CASE pred.op \in {"present", "absent"} ->
               IF pred.field \notin ctx.sourceFields THEN "unknown"
               ELSE IF pred.op = "present" THEN there ELSE Negate(there)
          [] pred.op \in {"in", "not_in", "gte"} /\
               (IF pred.field \in DOMAIN record THEN value.is = "nested" ELSE TRUE) -> "unknown"
          [] OTHER ->
               CASE pred.op = "in"     -> match
                 [] pred.op = "not_in" -> Negate(match)
                 [] pred.op = "gte"    -> IF number = {} THEN "unknown"
                                          ELSE Answer(\A w \in pred.values, n \in number : n >= w.of)

(* _all_predicates: a false predicate wins over an undecided one. *)
AllPredicates(preds, record, ctx) ==
    LET answers == {Predicate(p, record, ctx) : p \in preds}
    IN  IF "no" \in answers THEN "no" ELSE IF "unknown" \in answers THEN "unknown" ELSE "yes"

(* _key: the key parts as text, or nothing when one is absent or no text. *)
Key(record, fields) ==
    IF \E i \in DOMAIN fields :
          fields[i] \in DOMAIN record => record[fields[i]].is = "nested" \/ IsEmpty(record[fields[i]])
    THEN {} ELSE {[i \in DOMAIN fields |-> Text(record[fields[i]], FALSE)]}

(***************************************************************************)
(* Conditions.                                                             *)
(***************************************************************************)
(* Mutant: however old the observation is. *)
AbsenceFromStale(ctx, deadline) ==
    /\ ctx.target.completeness = "complete"
    /\ ctx.target.observed # {}
    /\ ctx.unkeyed = 0

(* Mutant: an observation at the deadline itself is too early. *)
AbsenceAfterDeadline(ctx, deadline) ==
    /\ ctx.target.completeness = "complete"
    /\ ctx.target.observed # {}
    /\ \A d \in deadline, o \in ctx.target.observed : o > d
    /\ ctx.unkeyed = 0

(* _absence_blocker: absence is proved by a complete target, observed at   *)
(* or after the deadline, in which every row has a usable key.             *)
AbsenceProvable(ctx, deadline) ==
    /\ ctx.target.completeness = "complete"
    /\ ctx.target.observed # {}
    /\ \A d \in deadline, o \in ctx.target.observed : o >= d
    /\ ctx.unkeyed = 0

(* _waiting: why a result that is not there yet cannot be judged. *)
Waiting(ctx, deadline, dueKnown) ==
    CASE ctx.target.completeness = "unavailable" \/ ~dueKnown -> "INCONCLUSIVE"
      [] \E d \in deadline : ctx.asOf < d -> "PENDING"
      [] OTHER -> "none"

(* _waiting, then _absence_blocker: the verdict on a missing result. *)
Missing(ctx, deadline, dueKnown) ==
    LET gate == Waiting(ctx, deadline, dueKnown)
    IN  CASE gate # "none" -> gate
          [] gate = "none" /\ AbsenceProvable(ctx, deadline) -> "VIOLATED"
          [] OTHER -> "INCONCLUSIVE"

Decided(answer) ==
    CASE answer = "yes" -> "VERIFIED" [] answer = "no" -> "VIOLATED" [] OTHER -> "INCONCLUSIVE"

(* _field_check, for one matched record. *)
RecordCheck(cond, record, ctx, source) ==
    LET there == cond.field \in DOMAIN record
        value == record[cond.field]
        none  == ~there \/ value.is = "null"
        lack  == IF cond.sourceField \in DOMAIN source
                 THEN source[cond.sourceField].is \in {"null", "nested"} ELSE TRUE
    IN  CASE cond.type = "required" ->
               Decided(Answer(/\ there
                              /\ value.is = "null" => cond.allowNull
                              /\ IsEmpty(value) /\ value.is # "null" => cond.allowEmpty))
          [] cond.type = "equals" ->
               IF lack THEN "INCONCLUSIVE" ELSE IF none THEN "VIOLATED"
               ELSE IF value.is = "nested" THEN "INCONCLUSIVE"
               ELSE Decided(Equal(source[cond.sourceField], value, cond.trim,
                                  ctx.sourceTyped, ctx.targetTyped))
          [] OTHER ->
               IF none THEN IF cond.type = "route" THEN "VIOLATED" ELSE "NOT_APPLICABLE"
               ELSE IF value.is = "nested" THEN "INCONCLUSIVE"
               ELSE CASE cond.type = "type" -> Decided(Answer(KindOk(value, cond.kind, ctx.targetTyped)))
                      [] cond.type \in {"one_of", "route"} ->
                           Decided(Matches(cond.values, value, ctx.targetTyped, cond.trim))
                      [] cond.type = "range" ->
                           LET number == ReadNumber(value, ctx.targetTyped, FALSE)
                           IN  Decided(Answer(/\ number # {}
                                              /\ \A n \in number, b \in cond.low : n >= b
                                              /\ \A n \in number, b \in cond.high : n =< b))

(* _field_check and _per_record: the gravest verdict over the records. *)
FieldCheck(cond, records, ctx, source) ==
    IF cond.field \notin ctx.target.fields THEN "INCONCLUSIVE"
    ELSE Worst({RecordCheck(cond, records[i], ctx, source) : i \in DOMAIN records})

(* Mutant: a keyless row is taken for no one's. *)
CountKeyedOnly(cond, matched, ctx, deadline, dueKnown) ==
    LET low  == IF cond.type = "exists" THEN 1 ELSE CHOOSE b \in cond.low : TRUE
        high == IF cond.type = "exists" THEN {} ELSE cond.high
    IN  CASE \E b \in high : matched > b -> "VIOLATED"
          [] (\A b \in high : matched =< b) /\ matched >= low /\ ctx.target.completeness = "complete" -> "VERIFIED"
          [] OTHER -> Missing(ctx, deadline, dueKnown)

(* _count_check: "exists" is a count of at least one. *)
CountCheck(cond, matched, ctx, deadline, dueKnown) ==
    LET low      == IF cond.type = "exists" THEN 1 ELSE CHOOSE b \in cond.low : TRUE
        high     == IF cond.type = "exists" THEN {} ELSE cond.high
        complete == ctx.target.completeness = "complete"
        over     == \E b \in high : matched > b
        enough   == matched >= (IF low = 0 THEN 1 ELSE low) \/ (low = 0 /\ matched = 0 /\ high # {})
    IN  CASE over -> IF complete THEN "VIOLATED" ELSE "INCONCLUSIVE"
          [] ~over /\ enough ->
               IF high = {} \/ (complete /\ ctx.unkeyed = 0) THEN "VERIFIED" ELSE "INCONCLUSIVE"
          [] OTHER -> Missing(ctx, deadline, dueKnown)

(* _on_time_check: only a completion that could have been observed counts. *)
OnTimeCheck(cond, records, ctx, deadline, dueKnown) ==
    LET due      == CHOOSE d \in deadline : TRUE
        started  == due - ctx.contract.within
        observed == ctx.target.observed
        times    == {Instant(records[i], cond.field) : i \in DOMAIN records}
        known    == UNION times
        counted  == {t \in known : started =< t /\ t =< ctx.asOf /\ \A o \in observed : t =< o}
    IN  CASE ctx.target.completeness = "unavailable" \/ ~dueKnown \/ deadline = {} -> "INCONCLUSIVE"
          [] Len(records) = 0 -> Missing(ctx, deadline, dueKnown)
          [] cond.basis = "observation" ->
               IF \E o \in observed : started =< o /\ o =< due THEN "VERIFIED" ELSE "INCONCLUSIVE"
          [] cond.field \notin ctx.target.fields -> "INCONCLUSIVE"
          [] \E t \in counted : t =< due -> "VERIFIED"
          [] (\E t \in known : t < started) \/ {} \in times -> "INCONCLUSIVE"
          [] ctx.asOf < due -> "PENDING"
          [] counted # known -> "INCONCLUSIVE"
          [] OTHER -> IF ctx.target.completeness = "complete" THEN "VIOLATED" ELSE "INCONCLUSIVE"

(* _evaluate_condition, for a condition that is no any_of. *)
EvaluateBranch(cond, source, records, ctx, deadline, dueKnown) ==
    LET applies == IF cond.type = "route" THEN AllPredicates(cond.when, source, ctx) ELSE "yes"
        gate    == Waiting(ctx, deadline, dueKnown)
    IN  CASE cond.disabled -> "NOT_EVALUATED"
          [] cond.type \in {"exists", "count"} -> CountCheck(cond, Len(records), ctx, deadline, dueKnown)
          [] cond.type = "on_time" -> OnTimeCheck(cond, records, ctx, deadline, dueKnown)
          [] applies = "no" -> "NOT_APPLICABLE"
          [] applies = "unknown" -> "INCONCLUSIVE"
          [] OTHER ->
               IF records = <<>>
               THEN IF gate = "none" THEN "NOT_EVALUATED" ELSE gate
               ELSE FieldCheck(cond, records, ctx, source)

(* any_of: one verified branch settles it, however the others stand. *)
AnyOfOrder == <<"VERIFIED", "INCONCLUSIVE", "PENDING", "VIOLATED", "NOT_EVALUATED", "NOT_APPLICABLE">>

EvaluateCondition(cond, source, records, ctx, deadline, dueKnown) ==
    LET branches == {EvaluateBranch(cond.branches[i], source, records, ctx, deadline, dueKnown) :
                        i \in DOMAIN cond.branches}
    IN  IF cond.type = "any_of" /\ ~cond.disabled
        THEN AnyOfOrder[CHOOSE i \in DOMAIN AnyOfOrder :
                          /\ AnyOfOrder[i] \in branches
                          /\ \A j \in 1..(i - 1) : AnyOfOrder[j] \notin branches]
        ELSE EvaluateBranch(cond, source, records, ctx, deadline, dueKnown)

(***************************************************************************)
(* Items.                                                                  *)
(***************************************************************************)
(* _item_verdict: a condition that could not run is never a pass. *)
ItemVerdict(contract, results) ==
    LET decisive == {results[i] : i \in {i \in DOMAIN results :
                        ~contract.conditions[i].advisory /\ ~contract.conditions[i].disabled}}
    IN  IF Worst(decisive) = "VERIFIED" /\ "NOT_EVALUATED" \in decisive
        THEN "INCONCLUSIVE" ELSE Worst(decisive)

(* Contract.relevant_source_fields, without the key. *)
RelevantFields(contract) ==
    LET own(cond) == (IF cond.sourceField = "" THEN {} ELSE {cond.sourceField})
                     \cup {p.field : p \in cond.when}
    IN  {p.field : p \in contract.eligibility}
        \cup (IF contract.due = "" THEN {} ELSE {contract.due})
        \cup UNION {own(c) \cup UNION {own(c.branches[i]) : i \in DOMAIN c.branches} :
                       c \in Range(contract.conditions)}

(* _conflicting, _identity: rows of one key differ in a field that can
   matter, in its sort (a number against its text) or in what it holds. *)
Conflicting(rows, fields) ==
    \E i \in DOMAIN rows, f \in fields :
        \/ (f \in DOMAIN rows[1]) # (f \in DOMAIN rows[i])
        \/ f \in DOMAIN rows[1] /\ f \in DOMAIN rows[i] /\ rows[1][f] # rows[i][f]

(* _evaluate_item, for the rows of one key and the records matched to it. *)
EvaluateItem(contract, ctx, rows, records) ==
    LET record   == rows[1]
        eligible == AllPredicates(contract.eligibility, record, ctx)
        start    == IF contract.due = "" THEN {} ELSE Instant(record, contract.due)
        deadline == {t + contract.within : t \in start}
        dueKnown == contract.due = "" \/ start # {}
        results  == [i \in DOMAIN contract.conditions |->
                        EvaluateCondition(contract.conditions[i], record, records, ctx, deadline, dueKnown)]
    IN  CASE Conflicting(rows, RelevantFields(contract)) -> "INCONCLUSIVE"
          [] eligible = "no" -> "NOT_APPLICABLE"
          [] eligible = "unknown" -> "INCONCLUSIVE"
          [] OTHER -> ItemVerdict(contract, results)

(***************************************************************************)
(* evaluate: items in key order, rows without a usable key inconclusive,   *)
(* and the outcome the worst of the items, but never verified while an     *)
(* item went unevaluated or the source may list more.                      *)
(***************************************************************************)
Matched(records, fields, key) == SelectSeq(records, LAMBDA r : Key(r, fields) = {key})
Unkeyed(records, fields) == Len(SelectSeq(records, LAMBDA r : Key(r, fields) = {}))

Context(contract, source, target, asOf) ==
    [contract     |-> contract,
     target       |-> target,
     asOf         |-> asOf,
     unkeyed      |-> Unkeyed(target.records, contract.targetKey),
     sourceTyped  |-> source.format # "csv",
     targetTyped  |-> target.format # "csv",
     sourceFields |-> source.fields]

Items(contract, source, target, asOf) ==
    LET ctx  == Context(contract, source, target, asOf)
        keys == UNION {Key(r, contract.sourceKey) : r \in Range(source.records)}
    IN  [k \in keys |-> EvaluateItem(contract, ctx,
                                     Matched(source.records, contract.sourceKey, k),
                                     Matched(target.records, contract.targetKey, k))]

(* A key field that no record of a snapshot that has records holds. *)
MappingBroken(contract, source, target) ==
    \/ source.records # <<>> /\ \E f \in Range(contract.sourceKey) : f \notin source.fields
    \/ target.records # <<>> /\ \E f \in Range(contract.targetKey) : f \notin target.fields

(* Mutant: as if every source export were complete. *)
OutcomeOfListed(contract, source, target, items) ==
    LET unkeyed  == Unkeyed(source.records, contract.sourceKey)
        statuses == Range(items) \cup (IF unkeyed > 0 THEN {"INCONCLUSIVE"} ELSE {})
    IN  IF Worst(statuses) = "VERIFIED" /\ "NOT_EVALUATED" \in statuses
        THEN "INCONCLUSIVE" ELSE Worst(statuses)

Outcome(contract, source, target, items) ==
    LET unkeyed  == Unkeyed(source.records, contract.sourceKey)
        statuses == Range(items) \cup (IF unkeyed > 0 THEN {"INCONCLUSIVE"} ELSE {})
        doubtful == \/ "NOT_EVALUATED" \in statuses
                    \/ source.completeness # "complete"
                    \/ MappingBroken(contract, source, target)
    IN  CASE source.completeness = "unavailable" -> "INCONCLUSIVE"
          [] Worst(statuses) = "VERIFIED" /\ doubtful -> "INCONCLUSIVE"
          [] OTHER -> Worst(statuses)

(* Refused: a snapshot observed after the evaluation instant. *)
Refused(source, target, asOf) == \E o \in source.observed \cup target.observed : o > asOf
=============================================================================

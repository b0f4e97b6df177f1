----------------------------- MODULE OutcomeMC -----------------------------
(* Contracts and data for the outcome guard, chosen so that each condition *)
(* meets values on either side of what it decides.                         *)
EXTENDS Outcome

Blank == [type |-> "exists", advisory |-> FALSE, disabled |-> FALSE, field |-> "", sourceField |-> "",
          values |-> {}, trim |-> FALSE, kind |-> "", low |-> {}, high |-> {}, allowNull |-> FALSE,
          allowEmpty |-> FALSE, when |-> {}, basis |-> "", branches |-> <<>>]

Exists == Blank
Count(low, high) == [Blank EXCEPT !.type = "count", !.low = {low}, !.high = high]
OnTime == [Blank EXCEPT !.type = "on_time", !.basis = "target_time", !.field = "done"]
Seen == [Blank EXCEPT !.type = "on_time", !.basis = "observation"]
On(type, field) == [Blank EXCEPT !.type = type, !.field = field]
AnyOf(branches) == [Blank EXCEPT !.type = "any_of", !.branches = branches]

Agreement(conditions) ==
    [sourceKey |-> <<"id">>, targetKey |-> <<"ref">>, eligibility |-> {}, due |-> "placed",
     within |-> 1, conditions |-> conditions]

Id(n) == [is |-> "digits", of |-> n]
Digits(n) == [is |-> "digits", of |-> n]
Spelled(n) == [is |-> "spelled", of |-> n]
Padded(n) == [is |-> "padded", of |-> n]
Word(n) == [is |-> "text", of |-> n]
Nested(n) == [is |-> "nested", of |-> n]
Pred(field, op, values) == [field |-> field, op |-> op, values |-> values]

Row(item, extra) == [item |-> item, data |-> extra @@ [id |-> Id(item), placed |-> Stamp]]
Result(item, extra) == [item |-> item, data |-> extra @@ [ref |-> Number(item), done |-> Stamp]]
Nothing == [f \in {} |-> Null]

Case(contract, rows, records, maxRows, maxRecords, sourceFormat) ==
    [contract |-> contract, rows |-> rows, records |-> records, maxRows |-> maxRows,
     maxRecords |-> maxRecords, header |-> {"id", "placed", "state", "amount"},
     sourceFormat |-> sourceFormat, targetFormat |-> "json"]

Keyless(item) == Result(item, [ref |-> Null])

(* Existence and number, with a row and a record that have lost their key. *)
Counting ==
    Case(Agreement(<<Exists, Count(1, {1})>>), {Row(1, Nothing), Row(2, [id |-> Empty])},
         {Result(1, Nothing), Keyless(1)}, 2, 2, "csv")

(* Punctuality, with completion times that are honest but may lack a key. *)
Punctual ==
    Case(Agreement(<<OnTime>>), {Row(1, Nothing), Row(1, [placed |-> Word(1)])},
         {Result(1, Nothing), Keyless(1)}, 2, 2, "csv")

(* Punctuality, with completion times no one could have observed. *)
Bogus ==
    Case(Agreement(<<Exists, OnTime>>), {Row(1, Nothing)},
         {Result(1, Nothing), Result(1, [done |-> Time(-1)]), Result(1, [done |-> Time(9)]),
          Result(1, [done |-> Null])}, 1, 2, "csv")

(* Either it was seen in time, or it carries the amount asked for. *)
Either ==
    Case(Agreement(<<AnyOf(<<Seen, [On("equals", "amount") EXCEPT !.sourceField = "amount"]>>)>>),
         {Row(1, [amount |-> Padded(1)]), Row(1, [amount |-> Spelled(1)])},
         {Result(1, [amount |-> Number(1)]), Result(1, [amount |-> Number(2)])}, 1, 2, "csv")

(* Amounts in every spelling. *)
Amounts(trim) ==
    Case(Agreement(<<[On("equals", "amount") EXCEPT !.sourceField = "amount", !.trim = trim], Exists>>),
         {Row(1, [amount |-> v]) : v \in {Digits(1), Spelled(1), Padded(1), Word(1)}},
         {Result(1, [amount |-> v]) : v \in {Number(1), Number(2), Digits(1), Spelled(1), Null, Nested(1)}}
         \cup {Result(1, Nothing)}, 1, 1, "csv")

(* Eligibility and a route, decided by the state of the request. *)
Routed ==
    Case([Agreement(<<[On("route", "status") EXCEPT !.values = {Word(1)},
                           !.when = {Pred("amount", "gte", {Number(2)})}],
                      [Exists EXCEPT !.advisory = TRUE]>>)
            EXCEPT !.eligibility = {Pred("state", "not_in", {Word(2)}), Pred("state", "present", {})}],
         {Row(1, [state |-> Word(s), amount |-> Number(1)]) : s \in {0, 1, 2}}
         \cup {Row(1, [state |-> Word(1), amount |-> a]) : a \in {Number(2), Spelled(2)}},
         {Result(1, [status |-> Word(s)]) : s \in {1, 2}}, 2, 1, "json")

(* Field conditions alone: nothing says that a result must exist. *)
Fields ==
    Case([Agreement(<<On("required", "status"),
                      [On("range", "amount") EXCEPT !.low = {1}, !.high = {2}],
                      [On("one_of", "status") EXCEPT !.values = {Word(1), Number(1)}],
                      [On("type", "amount") EXCEPT !.kind = "number"],
                      [Exists EXCEPT !.disabled = TRUE]>>) EXCEPT !.due = ""],
         {Row(1, Nothing), Row(2, Nothing)},
         {Result(1, [status |-> s, amount |-> a]) : s \in {Word(1), Digits(1), Empty}, a \in {Number(1), Number(3), Digits(1)}},
         2, 1, "csv")

(* A contract that decides nothing does not load. *)
Toothless == Case(Agreement(<<[Exists EXCEPT !.advisory = TRUE]>>), {Row(1, Nothing)}, {}, 1, 0, "csv")

MCScenarios == {Counting, Punctual, Bogus, Either, Amounts(TRUE), Amounts(FALSE), Routed, Fields, Toothless}
=============================================================================

------------------------------ MODULE Adapters ------------------------------
(* What the format adapters share: the state of one load, synthetic ids and    *)
(* the guard over them, the trackers, and how a load ends.  An id is a tuple:  *)
(* <<"a">> is what a vendor wrote, <<"a", "text", 0>> the id derived from it,  *)
(* <<"synthetic", 3>> the one minted for the third record.  A vendor may have  *)
(* written any of them.                                                        *)
EXTENDS RecordLines, FiniteSets

CONSTANTS
  None,           \* no id, no correlation, no ordinal, no version
  Supported,      \* versions the adapters accept
  MaxDrift        \* MAX_DRIFT_TRANSITIONS

ASSUME DriftAssumption == MaxDrift \in Nat \ {0}
ASSUME VersionAssumption == None \notin Supported

EmptyLoad ==
  [events |-> <<>>, findings |-> <<>>, real |-> {}, synthetic |-> {},
   raised |-> FALSE, sl301 |-> FALSE, unsupported |-> FALSE, baseline |-> None,
   drift |-> {}, unknown |-> {}, links |-> {}, last |-> None, lastOrdinal |-> None,
   gap |-> FALSE, tail |-> NoTail, closing |-> {}, writers |-> FALSE]

SyntheticEventId(ordinal) == <<"synthetic", ordinal>>

\* An id of one namespace that is known in the other one ends the load.
RegisterReal(load, id) ==
  [load EXCEPT !.real = @ \cup {id}, !.raised = @ \/ id \in load.synthetic]
RegisterSynthetic(load, id) ==
  [load EXCEPT !.synthetic = @ \cup {id}, !.raised = @ \/ id \in load.real]

NoCollision(load) == load.real \cap load.synthetic = {}

\* The id of a record, registered: the vendor's, else a synthetic one.
RecordId(rec, raw) == IF rec.id # None THEN rec.id ELSE SyntheticEventId(raw.ordinal)
WithRecordId(load, rec, raw) ==
  IF rec.id # None THEN RegisterReal(load, rec.id)
                   ELSE RegisterSynthetic(load, SyntheticEventId(raw.ordinal))

Report(load, code, raw) == [load EXCEPT !.findings = Append(@, Finding(code, raw))]
ReportWhen(load, condition, code, raw) ==
  IF condition THEN Report(load, code, raw) ELSE load

-----------------------------------------------------------------------------
(* Version markers and drift.                                                  *)

\* SL301 once per file, at the first marker that is not supported.
CheckVersion(load, version, raw) ==
  IF version = None \/ version \in Supported \/ load.sl301 THEN load
  ELSE [Report(load, "SL301", raw) EXCEPT !.sl301 = TRUE]

RecordDrift(load, drift) ==
  IF \E d \in load.drift : d.what = drift.what \/ Cardinality(load.drift) >= MaxDrift
  THEN load ELSE [load EXCEPT !.drift = @ \cup {drift}]

\* Mutant: no marker ever becomes the baseline.
ObserveVersionUnbased(load, version, raw) ==
  IF load.sl301 THEN [load EXCEPT !.unsupported = TRUE]
  ELSE IF version = None \/ load.baseline \in {None, version} THEN load
  ELSE RecordDrift(load, [what |-> <<load.baseline, version>>, line |-> raw.line])

\* Each supported marker becomes the baseline of the next one.
ObserveVersion(load, version, raw) ==
  IF load.sl301 THEN [load EXCEPT !.unsupported = TRUE]
  ELSE IF version = None THEN load
  ELSE IF load.baseline \in {None, version} THEN [load EXCEPT !.baseline = version]
  ELSE [RecordDrift(load, [what |-> <<load.baseline, version>>, line |-> raw.line])
        EXCEPT !.baseline = version]

\* An envelope type that only another format writes.
ObserveSignature(load, foreign, raw) ==
  IF ~foreign THEN load
  ELSE RecordDrift(load, [what |-> <<"signature">>, line |-> raw.line])

DriftFindings(load) ==
  IF load.unsupported THEN {} ELSE {[code |-> "SL304", line |-> d.line] : d \in load.drift}

\* Unknown types without semantic fields are counted, one finding per type, at
\* the line where the type first occurs.
NoteUnknown(load, raw) == [load EXCEPT !.unknown = @ \cup {raw.line}]
UnknownFindings(load) ==
  IF load.unknown = {} THEN {}
  ELSE {[code |-> "SL306", line |-> CHOOSE l \in load.unknown :
                                       \A k \in load.unknown : l <= k]}

\* Cross-file pointers, each once.
ExtractLinks(load, target) ==
  IF target = None THEN load ELSE [load EXCEPT !.links = @ \cup {target}]

-----------------------------------------------------------------------------
Event(id, parent, kind, corr, raw, original) ==
  [id |-> id, parent |-> parent, kind |-> kind, corr |-> corr, line |-> raw.line,
   offset |-> raw.offset, original |-> original]

\* Where an item of a document is said to be.
ItemRaw(i) == Raw("object", TRUE, FALSE, None, i, i, 0, 0)

\* Calls fall back to their own id, results to nothing.
CorrelationId(rec, kind, id) ==
  CASE kind = "tool_call" -> IF rec.corr # None THEN rec.corr ELSE id
    [] kind = "tool_result" -> rec.corr
    [] OTHER -> None

Emit(load, event) == [load EXCEPT !.events = Append(@, event)]

\* The tracker sees what one line added to the two lists.
NotedSince(old, load) ==
  [load EXCEPT !.tail = NoteProduced(@,
     SubSeq(load.findings, Len(old.findings) + 1, Len(load.findings)),
     SubSeq(load.events, Len(old.events) + 1, Len(load.events)))]

TornOffsets(load) == {f.offset : f \in {g \in ToSet(load.findings) : g.code = "SL002"}}

EndLoad(load, total) ==
  [load EXCEPT !.tail = FinalizeTail(@, total, TornOffsets(load)),
               !.closing = DriftFindings(load) \cup UnknownFindings(load),
               !.raised = @ \/ ~NoCollision(load)]
=============================================================================

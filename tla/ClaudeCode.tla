----------------------------- MODULE ClaudeCode -----------------------------
(* The adapter for Claude Code session files.  Records name their parents; a   *)
(* record may hold several tool calls or several results, and becomes as many  *)
(* events.                                                                     *)
EXTENDS Adapters

\* What the known types become.
ClassKinds == [message |-> "message", tool_call |-> "tool_call",
               tool_result |-> "tool_result", boundary |-> "compaction_boundary",
               attachment |-> "opaque", metadata |-> "opaque"]
RecordKind(rec) ==
  IF rec.class \in DOMAIN ClassKinds THEN ClassKinds[rec.class] ELSE "unknown"

\* Housekeeping records outside the chain, and unknown types without semantic
\* fields, yield no event.  Outside is what has no uuid, whatever else names it.
Housekeeping(rec) == rec.class = "metadata" /\ ~rec.uuid /\ ~rec.critical
HarmlessUnknown(rec) == rec.class = "newType" /\ rec.plain

\* The blocks of one kind, in the order of the record.
Blocks(rec, kind) ==
  FoldLeft(LAMBDA taken, b : IF b.kind = kind THEN Append(taken, b) ELSE taken, <<>>, rec.blocks)

-----------------------------------------------------------------------------
(* Tool calls: a chain of events, the text first, the last call in the place   *)
(* of the record.                                                              *)

\* What is appended to the id of a record: a tag and a number.
TextId(id) == id \o <<"text", 0>>
\* Mutants: an id that forgets its record, a chain that gives up its name.
CallIdByIndex(rec, id, i) ==
  LET uses == Blocks(rec, "use")
  IN CASE i = Len(uses) -> id
       [] i # Len(uses) /\ uses[i].id # None -> uses[i].id
       [] OTHER -> <<"call", i - 1>>
CallIdOfBlock(rec, id, i) ==
  LET uses == Blocks(rec, "use")
  IN IF uses[i].id # None THEN uses[i].id ELSE id \o <<"call", i - 1>>

CallId(rec, id, i) ==
  LET uses == Blocks(rec, "use")
  IN CASE i = Len(uses) -> id
       [] i # Len(uses) /\ uses[i].id # None -> uses[i].id
       [] OTHER -> id \o <<"call", i - 1>>

Register(load, id, real) ==
  IF real THEN RegisterReal(load, id) ELSE RegisterSynthetic(load, id)

\* The calls but the last register an id of their own.
RegisterCalls(load, rec, id) ==
  LET uses == Blocks(rec, "use")
  IN FoldLeft(LAMBDA l, i : Register(l, CallId(rec, id, i), uses[i].id # None),
              load, [i \in 1..Len(uses) - 1 |-> i])

CallEvents(rec, id, raw) ==
  LET uses == Blocks(rec, "use")
      hasText == Blocks(rec, "text") # <<>>
      text == IF hasText THEN <<Event(TextId(id), rec.parent, "message", None, raw, FALSE)>>
              ELSE <<>>
      parentOf(i) == CASE i > 1 -> CallId(rec, id, i - 1)
                       [] i = 1 /\ hasText -> TextId(id)
                       [] OTHER -> rec.parent
      corrOf(i) == IF uses[i].id # None THEN uses[i].id ELSE CallId(rec, id, i)
      original(i) == IF i = Len(uses) THEN rec.id # None ELSE uses[i].id # None
  IN text \o [i \in 1..Len(uses) |->
                Event(CallId(rec, id, i), parentOf(i), "tool_call", corrOf(i), raw, original(i))]

LoadCalls(load, rec, id, raw) ==
  LET texted == IF Blocks(rec, "text") = <<>> THEN load
                ELSE RegisterSynthetic(load, TextId(id))
  IN [RegisterCalls(texted, rec, id) EXCEPT !.events = @ \o CallEvents(rec, id, raw)]

-----------------------------------------------------------------------------
(* Results: siblings under the parent of the record, which keeps its id only   *)
(* when it holds one result.                                                   *)

ResultId(rec, id, i) ==
  LET results == Blocks(rec, "result")
  IN CASE Len(results) = 1 -> id
       [] Len(results) # 1 /\ results[i].id # None -> results[i].id
       [] OTHER -> id \o <<"res", i - 1>>

ResultEvents(rec, id, raw) ==
  LET results == Blocks(rec, "result")
      original(i) == IF Len(results) = 1 THEN rec.id # None ELSE results[i].id # None
  IN [i \in 1..Len(results) |->
        Event(ResultId(rec, id, i), rec.parent, "tool_result", results[i].corr, raw,
              original(i))]

LoadResults(load, rec, id, raw) ==
  LET results == Blocks(rec, "result")
      registered ==
        IF Len(results) = 1 THEN load
        ELSE FoldLeft(LAMBDA l, i : Register(l, ResultId(rec, id, i), results[i].id # None),
                      load, [i \in 1..Len(results) |-> i])
  IN [registered EXCEPT !.events = @ \o ResultEvents(rec, id, raw)]

-----------------------------------------------------------------------------
LoadPlain(load, rec, id, raw) ==
  LET kind == RecordKind(rec)
  IN Emit(load, Event(id, rec.parent, kind, CorrelationId(rec, kind, id), raw, rec.id # None))

\* The id, pointers, signature and version of every record are taken, then some
\* records are dropped, then an unknown type or a critical field is reported.
ProcessClaudeRecord(load, rec, raw) ==
  LET seq == [raw EXCEPT !.ordinal = Len(load.events)]
      id == RecordId(rec, seq)
      identified == ExtractLinks(WithRecordId(load, rec, seq), rec.link)
      signed == ObserveSignature(identified, rec.foreign, raw)
      checked == CheckVersion(signed, rec.version, raw)
      versioned == ObserveVersion(checked, IF rec.marker THEN rec.version ELSE None, raw)
      judged == ReportWhen(versioned, RecordKind(rec) = "unknown" \/ rec.critical, "SL302", raw)
  IN CASE Housekeeping(rec) -> versioned
       [] HarmlessUnknown(rec) -> NoteUnknown(versioned, raw)
       [] Blocks(rec, "use") # <<>> -> LoadCalls(judged, rec, id, raw)
       [] Blocks(rec, "use") = <<>> /\ Blocks(rec, "result") # <<>> ->
            LoadResults(judged, rec, id, raw)
       [] OTHER -> LoadPlain(judged, rec, id, raw)

ProcessClaudeLine(load, raw, terminal) ==
  LET reported == [load EXCEPT !.findings = @ \o LineFindings(raw, terminal)]
  IN NotedSince(load, IF IsDefect(raw) THEN reported
                      ELSE ProcessClaudeRecord(reported, raw.rec, raw))
=============================================================================

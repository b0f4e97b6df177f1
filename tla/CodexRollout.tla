---------------------------- MODULE CodexRollout ----------------------------
(* The adapter for Codex rollout files.  A rollout names no parents: the       *)
(* parent of an event is the one emitted before it, when nothing can have been *)
(* lost between the two.                                                       *)
EXTENDS Adapters

\* What a response_item with a known type becomes; reasoning keeps its place only.
ItemKinds == [message |-> "message", tool_call |-> "tool_call",
              tool_result |-> "tool_result", reasoning |-> "opaque"]

\* Mutant: every item of an unknown type is harmless.
ItemKindHarmless(rec) ==
  IF rec.class \in DOMAIN ItemKinds THEN ItemKinds[rec.class] ELSE "opaque"

\* An item of a type the adapter does not know is harmless without semantic fields.
ItemKind(rec) ==
  CASE rec.class \in DOMAIN ItemKinds -> ItemKinds[rec.class]
    [] rec.class = "newItem" /\ rec.plain -> "opaque"
    [] OTHER -> "unknown"

RolloutKind(rec) ==
  CASE rec.class = "compacted" -> "compaction_boundary"
    [] rec.class = "agentMessage" -> "message"
    [] rec.class = "badAgentMessage" -> "unknown"
    [] rec.class = "metadata" -> "opaque"
    [] rec.class = "newType" -> IF rec.plain THEN "opaque" ELSE "unknown"
    [] OTHER -> ItemKind(rec)

Contiguous(load, rec) ==
  /\ load.last # None
  /\ ~load.gap
  /\ \/ load.lastOrdinal = None
     \/ rec.ordinal = None
     \/ rec.ordinal = load.lastOrdinal + 1

ProcessRolloutRecord(load, rec, raw) ==
  LET id == RecordId(rec, raw)
      kind == RolloutKind(rec)
      identified == WithRecordId(load, rec, raw)
      signed == ObserveSignature(identified, rec.foreign, raw)
      versioned == ObserveVersion(CheckVersion(signed, rec.version, raw), rec.version, raw)
      linked == ExtractLinks(versioned, rec.link)
      known == IF rec.class \in {"newItem", "newType"} /\ rec.plain
               THEN NoteUnknown(linked, raw)
               ELSE ReportWhen(linked, kind = "unknown", "SL302", raw)
      critical == ReportWhen(known, rec.critical, "SL302", raw)
      parent == IF Contiguous(load, rec) THEN load.last ELSE None
  IN Emit(critical, Event(id, parent, kind, CorrelationId(rec, kind, id), raw,
                          rec.id # None))

\* Mutant: nobody remembers a damaged line.
ProcessCodexLineGapless(load, raw, terminal) ==
  LET reported == [load EXCEPT !.findings = @ \o LineFindings(raw, terminal)]
      processed == IF IsDefect(raw) THEN reported
                   ELSE [ProcessRolloutRecord(reported, raw.rec, raw) EXCEPT
                           !.last = RecordId(raw.rec, raw),
                           !.lastOrdinal = raw.rec.ordinal]
  IN NotedSince(load, processed)

\* A line that yields no event leaves a gap that nobody may link across.
ProcessCodexLine(load, raw, terminal) ==
  LET reported == [load EXCEPT !.findings = @ \o LineFindings(raw, terminal)]
      processed == IF IsDefect(raw) THEN [reported EXCEPT !.gap = TRUE]
                   ELSE [ProcessRolloutRecord(reported, raw.rec, raw) EXCEPT
                           !.last = RecordId(raw.rec, raw),
                           !.lastOrdinal = raw.rec.ordinal,
                           !.gap = FALSE]
  IN NotedSince(load, processed)
=============================================================================

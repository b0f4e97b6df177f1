---------------------------- MODULE OpenAIAgents ----------------------------
(* The adapter for OpenAI Agents exports: one item per line, or one document   *)
(* that holds the items.                                                       *)
EXTENDS Adapters

ExportKind(rec) ==
  CASE rec.class \in {"message", "tool_call", "tool_result"} -> rec.class
    [] rec.class = "compaction" -> "compaction_boundary"
    [] OTHER -> "unknown"

\* An item does not tell the next one that it reported its version: the latch of
\* the document or stream is what it was when the load began.
ProcessItem(load, rec, raw) ==
  LET seq == [raw EXCEPT !.ordinal = Len(load.events)]
      id == RecordId(rec, seq)
      kind == ExportKind(rec)
      identified == WithRecordId(load, rec, seq)
      checked == CheckVersion(identified, rec.version, raw)
      observed == IF rec.version = None THEN checked ELSE ObserveVersion(checked, rec.version, raw)
      versioned == [observed EXCEPT !.sl301 = load.sl301]
      signed == ObserveSignature(versioned, rec.foreign, raw)
      \* a role nobody knows, without a type, is taken without a word
      judged == ReportWhen(signed, rec.class = "newType" \/ rec.critical, "SL302", raw)
  IN Emit(judged, Event(id, rec.parent, kind, CorrelationId(rec, kind, id), raw,
                        rec.id # None))

ProcessOpenAILine(load, raw, terminal) ==
  LET reported == [load EXCEPT !.findings = @ \o LineFindings(raw, terminal)]
  IN NotedSince(load, IF IsDefect(raw) THEN reported
                      ELSE ProcessItem(reported, raw.rec, raw))

-----------------------------------------------------------------------------
(* One document: whatever is wrong with its text costs all of it.              *)

\* The id its version marker is reported under: number 0, and no payload, which
\* an item always has.
ExportId == <<"synthetic", 0, 0>>

\* The latch of the document's own marker silences those of its items.
OpenExport(doc, raw) ==
  LET listed == ReportWhen(EmptyLoad, raw.text = "repeated", "SL303", ItemRaw(1))
      named == IF doc.version = None THEN listed ELSE RegisterSynthetic(listed, ExportId)
  IN ObserveVersion(CheckVersion(named, doc.version, ItemRaw(1)), doc.version, ItemRaw(1))

LoadExport(doc, raw) ==
  CASE IsDefect(raw) -> Report(EmptyLoad, "SL001", ItemRaw(1))
    [] ~IsDefect(raw) /\ Len(doc.items) > MaxRecords -> [EmptyLoad EXCEPT !.raised = TRUE]
    [] OTHER -> FoldLeft(LAMBDA load, i :
                           IF doc.items[i] = None THEN Report(load, "SL001", ItemRaw(i))
                           ELSE ProcessItem(load, doc.items[i], ItemRaw(i)),
                         OpenExport(doc, raw), [i \in 1..Len(doc.items) |-> i])
=============================================================================

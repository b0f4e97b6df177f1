-------------------------- MODULE CanonicalSession --------------------------
(* The adapter for canonical sessions (load_canonical), which validates where  *)
(* the vendor adapters translate: a stream of a header and events, or one      *)
(* document.                                                                   *)
EXTENDS Adapters

CONSTANT MaxEventFindings   \* max_event_findings: what a load keeps

ASSUME KeptAssumption == MaxEventFindings \in Nat \ {0}

\* Findings that differ in nothing that is fingerprinted are kept once: those of one
\* record name different fields.  Behind the last one that is kept, none is.
Kept(findings) ==
  IF Len(findings) <= MaxEventFindings THEN findings ELSE SubSeq(findings, 1, MaxEventFindings)

\* A field that is missing or malformed is reported, and replaced so that the
\* event stays in its place.
MissingId(index) == <<"missing", index>>

FieldFindings(load, rec, raw) ==
  LET faulty == rec.faults \cap {"id", "parent", "kind", "ts", "actor", "payload", "seq"}
      named == [load EXCEPT !.findings = @ \o [k \in 1..Cardinality(faulty) |-> Finding("SL001", raw)]]
  IN ReportWhen(named, rec.critical, "SL302", raw)

ParseRecord(load, rec, index, raw) ==
  LET signed == ObserveSignature(load, rec.foreign, raw)
      checked == FieldFindings(signed, rec, raw)
      id == IF "id" \in rec.faults THEN MissingId(index) ELSE rec.id
      parent == IF "parent" \in rec.faults THEN None ELSE rec.parent
      kind == IF "kind" \in rec.faults THEN "unknown" ELSE rec.class
  IN Emit(checked, Event(id, parent, kind, rec.corr, raw, "id" \notin rec.faults))

\* The header decides whether anything of the file is read.  Its account of the
\* source, when it is an object, may say that the records name their writers; one
\* that is neither object nor text is a misfit, and reported in a document.
HeaderRefused(raw) == raw.text # "header"
ProcessHeader(load, rec, misfit, raw) ==
  LET versioned == CheckVersion(load, rec.version, raw)
      sourced == [ReportWhen(versioned, misfit, "SL001", raw)
                  EXCEPT !.unsupported = @ \/ versioned.sl301, !.writers = rec.writers]
  IN ReportWhen(sourced, rec.critical, "SL302", raw)

ProcessCanonicalLine(load, raw, terminal) ==
  LET refused == raw.ordinal = 1 /\ HeaderRefused(raw)
      reported == [load EXCEPT !.findings = @ \o LineFindings(raw, terminal)]
  IN CASE refused -> [Report(load, "SL001", raw) EXCEPT !.gap = TRUE]
       [] raw.ordinal = 1 /\ ~refused -> ProcessHeader(load, raw.rec, FALSE, raw)
       [] raw.ordinal > 1 /\ load.gap -> load
       [] raw.ordinal > 1 /\ ~load.gap /\ IsDefect(raw) -> reported
       [] OTHER -> ParseRecord(reported, raw.rec, raw.ordinal - 2, raw)

\* One document.  A refused one lacks a key or names another schema; an unlisted
\* one has events that are no list.
LoadSessionDocument(doc, raw) ==
  LET first == ItemRaw(1)
      opened == ReportWhen(EmptyLoad, raw.text = "repeated", "SL303", first)
      headed == ProcessHeader(opened, doc, doc.misfit, first)
      readable == ~IsDefect(raw) /\ ~doc.refused
  IN CASE IsDefect(raw) -> Report(EmptyLoad, "SL001", first)
       [] ~IsDefect(raw) /\ doc.refused -> Report(opened, "SL001", first)
       [] readable /\ doc.unlisted -> Report(headed, "SL001", first)
       [] readable /\ ~doc.unlisted /\ Len(doc.items) > MaxRecords ->
            [EmptyLoad EXCEPT !.raised = TRUE]
       [] OTHER -> FoldLeft(LAMBDA load, i :
                              IF doc.items[i] = None THEN Report(load, "SL001", ItemRaw(i))
                              ELSE ParseRecord(load, doc.items[i], i - 1, ItemRaw(i)),
                            headed, [i \in 1..Len(doc.items) |-> i])
=============================================================================

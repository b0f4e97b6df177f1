------------------------------- MODULE Ingest -------------------------------
(* A session file is read while the agent that owns it may still write to it:  *)
(* the source guard (source.py), the bounded reading of lines (io.py, and the  *)
(* same loop in every adapter), and what the adapter makes of each line.  The  *)
(* formats "events" (iter_events) and "claude" read the file piece by piece;   *)
(* the others take all of it first and split it afterwards; "document" is an   *)
(* OpenAI export and "session" a canonical session that is one JSON document.  *)
EXTENDS ClaudeCode, CodexRollout, OpenAIAgents, CanonicalSession

CONSTANTS
  Scenarios,    \* what may be read: [format, file, writes]
  NewLines      \* lines the agent may append

VARIABLES
  format, file,
  stamp,        \* st_mtime_ns of the file
  writes,       \* bound: writes the agent has left
  touched,      \* the file changed after it was opened
  guard,        \* SourceGuard: size, stamp and content, as far as taken
  pc,
  source,       \* what was taken of the file at once
  mapped,       \* bytes of the mapping, None when the file is not mapped
  pos,          \* the reader's position: line, bytes of it
  lineNumber, totalBytes, recordCount,
  pendingRaw,   \* one record of lookahead
  drained,      \* the oversize line whose rest is being skipped
  load

fileVars == <<file, stamp, writes, touched>>
counters == <<lineNumber, totalBytes, recordCount>>
vars == <<format, fileVars, guard, pc, source, mapped, pos, counters,
          pendingRaw, drained, load>>

Live == {"events", "claude"}
Documents == {"document", "session"}
Formats == Live \cup {"codex", "openai", "canonical"} \cup Documents
Failed == {"changed", "tooLarge", "tooMany", "headerMissing", "raised"}
Final == {"verified", "done"} \cup Failed

\* What the session files look like: lines, of which the last one may be
\* unfinished; a document is one line that holds items.
IsLine(line) ==
  /\ {"text", "size", "have", "rec"} \subseteq DOMAIN line
  /\ line.size \in Nat /\ line.have \in 1..line.size
IsFile(f) ==
  /\ IsSequence(f)
  /\ \A i \in DOMAIN f : IsLine(f[i]) /\ (i < Len(f) => Ended(f[i]))

\* A record of Claude Code holds blocks, and an id of its own is a text: a sequence of
\* parts, to which the ids of split records add one.
IsId(id) == Len(id) \in Nat /\ id = [k \in 1..Len(id) |-> id[k]]
IsRecord(rec) == IsSequence(rec.blocks) /\ (rec.id # None => IsId(rec.id))

ASSUME ScenarioAssumption ==
  /\ \A line \in NewLines : IsLine(line)
  /\ \A s \in Scenarios :
       /\ s.format \in Formats /\ s.writes \in Nat /\ IsFile(s.file)
       /\ s.format \in Documents => s.file # <<>> /\ IsSequence(s.file[1].rec.items)
       /\ s.format = "claude" =>
            \A line \in ToSet(s.file) \cup NewLines : IsRecord(line.rec)

Init ==
  \E s \in Scenarios :
    /\ format = s.format /\ file = s.file /\ writes = s.writes
    /\ stamp = 0 /\ touched = FALSE
    /\ guard = [size |-> 0, stamp |-> 0, content |-> None]
    /\ pc = "new"
    /\ source = <<>> /\ mapped = None /\ pos = <<1, 0>>
    /\ lineNumber = 0 /\ totalBytes = 0 /\ recordCount = 0
    /\ pendingRaw = NoRaw /\ drained = NoRaw
    /\ load = EmptyLoad

-----------------------------------------------------------------------------
(* The guard: guarded_iter_events takes it before it opens the file and        *)
(* compares afterwards.                                                        *)

GuardStat ==
  /\ format = "events" /\ pc = "new"
  /\ guard' = [guard EXCEPT !.size = SizeOf(file), !.stamp = stamp]
  /\ pc' = "stat"
  /\ UNCHANGED <<format, fileVars, source, mapped, pos, counters, pendingRaw, drained, load>>

GuardHash ==
  /\ pc = "stat"
  /\ guard' = [guard EXCEPT !.content = file]
  /\ pc' = "guarded"
  /\ UNCHANGED <<format, fileVars, source, mapped, pos, counters, pendingRaw, drained, load>>

VerifyStat ==
  /\ format = "events" /\ pc = "end"
  /\ pc' = IF SizeOf(file) = guard.size /\ stamp = guard.stamp THEN "restat" ELSE "changed"
  /\ UNCHANGED <<format, fileVars, guard, source, mapped, pos, counters, pendingRaw,
                 drained, load>>

VerifyHash ==
  /\ pc = "restat"
  /\ pc' = IF file = guard.content THEN "verified" ELSE "changed"
  /\ UNCHANGED <<format, fileVars, guard, source, mapped, pos, counters, pendingRaw,
                 drained, load>>

-----------------------------------------------------------------------------
(* Opening.                                                                    *)

ReadyToOpen == pc = IF format = "events" THEN "guarded" ELSE "new"

OpenTooLarge ==
  /\ ReadyToOpen /\ SizeOf(file) > MaxFile
  /\ pc' = "tooLarge"
  /\ UNCHANGED <<format, fileVars, guard, source, mapped, pos, counters, pendingRaw,
                 drained, load>>

\* A large file with long lines is mapped: the mapping keeps the length it had.
OpenLive ==
  /\ ReadyToOpen /\ format \in Live /\ SizeOf(file) <= MaxFile
  /\ mapped' \in {None, SizeOf(file)}
  /\ pc' = "read"
  /\ UNCHANGED <<format, fileVars, guard, source, pos, counters, pendingRaw, drained, load>>

Slurp ==
  /\ ReadyToOpen /\ format \notin Live /\ SizeOf(file) <= MaxFile
  /\ source' = file
  /\ pc' = "read"
  /\ UNCHANGED <<format, fileVars, guard, mapped, pos, counters, pendingRaw, drained, load>>

-----------------------------------------------------------------------------
(* One readline.                                                               *)

Lines == IF format \in Live THEN file ELSE source

\* At most size bytes of the line at pos, as far as they are written and mapped.
ReadLine(size) ==
  LET here == pos[1]
      written == IF here > Len(Lines) THEN 0 ELSE Lines[here].have
      seen == IF mapped = None THEN written ELSE Min({written, pos[2] + mapped - totalBytes})
  IN [line |-> here, from |-> pos[2], to |-> Min({seen, pos[2] + size})]

AtEnd(p) == p.line > Len(Lines) \/ PieceSize(p) = 0
Advance(p) == IF PieceEnded(Lines, p) THEN <<p.line + 1, 0>> ELSE <<p.line, p.to>>

\* Live readers ask for one byte more than a line may have; the splitters find
\* the newline and cut afterwards.
\* Canonical sessions have no limit on a line.
OverLimit(size) == format # "canonical" /\ size > MaxLine
LineLimit == IF format \in Live THEN MaxLine + 1 ELSE MaxFile

\* What the loop of iter_events does with one line; the adapters have their own.
ProcessEventLine(old, raw, terminal) ==
  LET misplaced == raw.text = "header" /\ raw.ordinal # 1
      bad == [raw EXCEPT !.text = IF misplaced THEN "refused" ELSE @]
      reported == [old EXCEPT !.findings = @ \o LineFindings(bad, terminal)]
  IN NotedSince(old,
       IF IsDefect(bad) \/ raw.text = "header" THEN reported
       ELSE Emit(reported, Event(raw.rec.id, raw.rec.parent, raw.rec.class, raw.rec.corr,
                                 raw, TRUE)))

Process(old, raw, terminal) ==
  CASE format = "events" -> ProcessEventLine(old, raw, terminal)
    [] format = "claude" -> ProcessClaudeLine(old, raw, terminal)
    [] format = "codex" -> ProcessCodexLine(old, raw, terminal)
    [] format = "openai" -> ProcessOpenAILine(old, raw, terminal)
    [] format = "canonical" -> ProcessCanonicalLine(old, raw, terminal)

\* The limit on records is compared when a record is processed, one line late;
\* canonical sessions do not count their header.
OverRecords(raw) ==
  (IF format = "canonical" THEN raw.ordinal - 1 ELSE raw.ordinal) > MaxRecords

\* With another line in hand, the pending one is processed: it is not the last.
Lookahead == IF pendingRaw = NoRaw THEN load ELSE Process(load, pendingRaw, FALSE)

\* The line in hand becomes the pending one.
Accept(raw) ==
  /\ drained' = NoRaw
  /\ IF raw.text = Blank /\ ~raw.truncated
     THEN /\ pc' = "read"
          /\ UNCHANGED <<recordCount, pendingRaw, load>>
     ELSE /\ recordCount' = recordCount + 1
          /\ IF pendingRaw # NoRaw /\ OverRecords(pendingRaw)
             THEN pc' = "tooMany" /\ UNCHANGED <<pendingRaw, load>>
             ELSE /\ pc' = "read"
                  /\ pendingRaw' = [raw EXCEPT !.ordinal = recordCount + 1]
                  /\ load' = Lookahead

\* The line in hand with its coordinates.
CurrentRaw(p) ==
  Raw(TextOf(Lines, p), PieceEnded(Lines, p), OverLimit(PieceSize(p)),
      Lines[p.line].rec, lineNumber + 1, 0, totalBytes, totalBytes + PieceSize(p))

NextLine ==
  /\ pc = "read" /\ format \notin Documents
  /\ LET p == ReadLine(LineLimit)
         end == totalBytes + PieceSize(p)
         raw == CurrentRaw(p)
     IN /\ ~AtEnd(p)
        /\ lineNumber' = lineNumber + 1
        /\ totalBytes' = end
        /\ pos' = Advance(p)
        /\ CASE end > MaxFile ->
                  pc' = "tooLarge" /\ UNCHANGED <<recordCount, pendingRaw, drained, load>>
             [] end <= MaxFile /\ raw.truncated /\ ~raw.ended /\ format \in Live ->
                  pc' = "drain" /\ drained' = raw /\ UNCHANGED <<recordCount, pendingRaw, load>>
             [] OTHER -> Accept(raw)
  /\ UNCHANGED <<format, fileVars, guard, source, mapped>>

\* Mutant: one piece of the rest is skipped, whether it ends the line or not.
DrainOnce ==
  /\ pc = "drain"
  /\ LET p == ReadLine(DrainSize)
         end == totalBytes + PieceSize(p)
         raw == [drained EXCEPT !.end = IF AtEnd(p) THEN totalBytes ELSE end]
     IN IF AtEnd(p)
        THEN Accept(raw) /\ UNCHANGED <<totalBytes, pos>>
        ELSE /\ totalBytes' = end
             /\ pos' = Advance(p)
             /\ Accept(raw)
  /\ UNCHANGED <<format, fileVars, guard, source, mapped, lineNumber>>

\* Mutant: the end of the file does not end the rest of a line.
DrainForever ==
  /\ pc = "drain"
  /\ LET p == ReadLine(DrainSize)
         end == totalBytes + PieceSize(p)
         raw == [drained EXCEPT !.end = IF AtEnd(p) THEN totalBytes ELSE end]
     IN IF AtEnd(p)
        THEN pc' = "drain" /\ UNCHANGED <<totalBytes, pos, recordCount, pendingRaw, drained, load>>
        ELSE /\ totalBytes' = end
             /\ pos' = Advance(p)
             /\ CASE end > MaxFile ->
                       pc' = "tooLarge" /\ UNCHANGED <<recordCount, pendingRaw, drained, load>>
                  [] end <= MaxFile /\ ~PieceEnded(Lines, p) ->
                       /\ pc' = "drain" /\ drained' = raw
                       /\ UNCHANGED <<recordCount, pendingRaw, load>>
                  [] OTHER -> Accept(raw)
  /\ UNCHANGED <<format, fileVars, guard, source, mapped, lineNumber>>

\* The rest of an oversize line is skipped piece by piece, up to its newline.
Drain ==
  /\ pc = "drain"
  /\ LET p == ReadLine(DrainSize)
         end == totalBytes + PieceSize(p)
         raw == [drained EXCEPT !.end = IF AtEnd(p) THEN totalBytes ELSE end]
     IN IF AtEnd(p)
        THEN Accept(raw) /\ UNCHANGED <<totalBytes, pos>>
        ELSE /\ totalBytes' = end
             /\ pos' = Advance(p)
             /\ CASE end > MaxFile ->
                       pc' = "tooLarge" /\ UNCHANGED <<recordCount, pendingRaw, drained, load>>
                  [] end <= MaxFile /\ ~PieceEnded(Lines, p) ->
                       /\ pc' = "drain" /\ drained' = raw
                       /\ UNCHANGED <<recordCount, pendingRaw, load>>
                  [] OTHER -> Accept(raw)
  /\ UNCHANGED <<format, fileVars, guard, source, mapped, lineNumber>>

\* A canonical session is split into lines first, and reported when it has none.
ReportEmpty(old) == Report(old, "SL001", Raw(Blank, FALSE, FALSE, None, 1, 1, 0, 0))

\* End of file: the pending line was the last one.
Finish ==
  /\ pc = "read" /\ format \notin Documents /\ AtEnd(ReadLine(LineLimit))
  /\ IF pendingRaw # NoRaw /\ OverRecords(pendingRaw)
     THEN pc' = "tooMany" /\ UNCHANGED load
     ELSE LET last == IF pendingRaw = NoRaw THEN load ELSE Process(load, pendingRaw, TRUE)
              ended == EndLoad(last, totalBytes)
          IN /\ load' = IF format = "canonical" /\ pendingRaw = NoRaw
                        THEN ReportEmpty(ended)
                        ELSE ended
             /\ pc' = CASE ended.raised -> "raised"
                        [] ~ended.raised /\ format = "events" ->
                             IF pendingRaw = NoRaw THEN "headerMissing" ELSE "end"
                        [] OTHER -> "done"
  /\ UNCHANGED <<format, fileVars, guard, source, mapped, pos, counters, pendingRaw, drained>>

\* A document is decoded and its items are processed in one go.
LoadDocument ==
  /\ pc = "read" /\ format \in Documents
  /\ LET raw == Raw(TextOf(source, [line |-> 1, from |-> 0, to |-> source[1].have]),
                    FALSE, FALSE, None, 1, 1, 0, 0)
     IN load' = EndLoad(IF format = "document" THEN LoadExport(source[1].rec, raw)
                        ELSE LoadSessionDocument(source[1].rec, raw), 0)
  /\ pc' = IF load'.raised THEN "raised" ELSE "done"
  /\ UNCHANGED <<format, fileVars, guard, source, mapped, pos, counters, pendingRaw, drained>>

Read == GuardStat \/ GuardHash \/ OpenTooLarge \/ OpenLive \/ Slurp \/ NextLine \/ Drain
        \/ Finish \/ LoadDocument \/ VerifyStat \/ VerifyHash

-----------------------------------------------------------------------------
(* The agent.                                                                  *)

Write(content, newStamp) ==
  /\ writes > 0 /\ pc \notin Final
  /\ writes' = writes - 1
  /\ file' = content /\ stamp' = newStamp
  /\ touched' = (touched \/ ~(pc \in {"new", "stat", "guarded"}))
  /\ UNCHANGED <<format, guard, pc, source, mapped, pos, counters, pendingRaw, drained, load>>

\* It appends a line, or a first part of one.
AppendPart ==
  /\ \A i \in DOMAIN file : Ended(file[i])
  /\ \E line \in NewLines : \E n \in 1..line.size :
       Write(Append(file, [line EXCEPT !.have = n]), stamp + 1)

AppendRest ==
  /\ file # <<>> /\ ~Ended(Last(file))
  /\ \E n \in Last(file).have + 1 .. Last(file).size :
       Write([file EXCEPT ![Len(file)].have = n], stamp + 1)

\* Somebody rewrites a line in place, perhaps within the granularity of the
\* timestamp.
Rewrite ==
  /\ \E i \in DOMAIN file, s \in {stamp, stamp + 1} :
       /\ file[i].text # "junk"
       /\ Write([file EXCEPT ![i].text = "junk"], s)

Agent == AppendPart \/ AppendRest \/ Rewrite

Next == Read \/ Agent

\* The reader runs on; the agent is under no obligation.
Spec == Init /\ [][Next]_vars /\ WF_vars(Read)
-----------------------------------------------------------------------------
(* What the file says, written down without reading it piece by piece.         *)

\* The content that a load is about: what the guard vouched for, what was taken
\* at once, or the file if nobody touched it.
Settled == pc = "verified" \/ (pc = "done" /\ (format \in Live => ~touched))

LineText(i) == TextOf(Lines, [line |-> i, from |-> 0, to |-> Lines[i].have])
Oversize(i) == OverLimit(Lines[i].have)
RecordAt == {i \in DOMAIN Lines : LineText(i) # Blank \/ Oversize(i)}
OrdinalAt(i) == Cardinality({j \in RecordAt : j <= i})

Damaged(i) ==
  \/ Oversize(i)
  \/ LineText(i) \notin Decodes
  \/ LineText(i) = "refused"
  \/ format = "events" /\ LineText(i) = "header" /\ OrdinalAt(i) # 1

\* An unterminated beginning of an object at the end of the file is an append
\* that is not finished; all other damage is damage.
Torn(i) == ~Oversize(i) /\ LineText(i) = "cut" /\ ~Ended(Lines[i])

DamageAt(i) ==
  [code |-> IF Torn(i) THEN "SL002" ELSE "SL001", line |-> i,
   offset |-> OffsetOf(Lines, i), end |-> OffsetOf(Lines, i + 1), ordinal |-> OrdinalAt(i)]

\* The findings that the load returns, and whether it dropped any: sessions of our
\* own format keep only so many.
Returned == IF format \in {"canonical", "session"} THEN Kept(load.findings) ELSE load.findings
Overflows == Returned # load.findings

\* The record an event was made of.
RecOf(e) == IF format \in Documents THEN source[1].rec.items[e.line] ELSE Lines[e.line].rec

Shown == {f \in ToSet(load.findings) : f.code \in {"SL001", "SL002"}}

\* What lies behind the first damaged line, up to a torn append.
FirstDamage == Min({i \in RecordAt : Damaged(i) /\ ~Torn(i)})
TailBytes ==
  LET torn == {i \in RecordAt : Torn(i)}
      end == IF torn = {} THEN SizeOf(Lines) ELSE OffsetOf(Lines, CHOOSE i \in torn : TRUE)
      begin == OffsetOf(Lines, FirstDamage + 1)
  IN IF end > begin THEN end - begin ELSE 0
-----------------------------------------------------------------------------
(* Properties.                                                                 *)

\* Damage is located exactly once, by line, bytes and ordinal, whatever pieces
\* the lines were read in, and a source that changed meanwhile is never vouched
\* for (io.iter_events, source.verify and the loops of the adapters).
DamageLocated ==
  Settled /\ format \notin {"canonical"} \cup Documents =>
    LET damaged == {i \in RecordAt : Damaged(i)}
    IN /\ Shown = {DamageAt(i) : i \in damaged}
       /\ \A j, k \in DOMAIN load.findings :
            j < k /\ load.findings[j] \in Shown => load.findings[j] # load.findings[k]
       /\ (\E i \in damaged : ~Torn(i)) => load.tail.bytes = TailBytes

\* Records a loader passes over on purpose: headers, what is behind a damaged
\* canonical header, housekeeping records of Claude Code.
PassedOver(i) ==
  \/ OrdinalAt(i) = 1 /\ LineText(i) = "header"
  \/ format = "canonical" /\ load.gap
  \/ format = "claude" /\ Lines[i].rec.class = "metadata" /\ ~Lines[i].rec.uuid

\* Records of types that the adapter of a vendor does not know.
NewTypes == [claude |-> {"newType"}, codex |-> {"newType", "newItem", "badAgentMessage"},
             openai |-> {"newType"}]

\* Every item of a document that was not refused gives an event or a finding.
ItemsAccounted ==
  LET doc == source[1].rec
  IN LineText(1) \in {"object", "repeated"} /\ (format = "session" => ~doc.refused /\ ~doc.unlisted) =>
       \A i \in DOMAIN doc.items :
         IF doc.items[i] = None
         THEN Overflows \/ \E f \in ToSet(Returned) : f.code = "SL001" /\ f.line = i
         ELSE \E e \in ToSet(load.events) : e.line = i

\* No record is lost and none is invented: each gives an event, a finding or a
\* place in the count of unknown types, the events come in file order from
\* records that could be read, and what could not be understood is disclosed
\* (OpenAI items of an unknown role excepted, openai_agents.py:1436; behind the last
\* finding that a canonical load keeps, damage is dropped without a word,
\* canonical.py:1024).
NothingVanishes ==
  Settled => IF format \in Documents THEN ItemsAccounted ELSE
    /\ \A i \in RecordAt :
         \/ \E e \in ToSet(load.events) : e.line = i
         \/ \E f \in ToSet(Returned) : f.line = i
         \/ Overflows
         \/ i \in load.unknown /\ \E f \in load.closing : f.code = "SL306" /\ f.line <= i
         \/ PassedOver(i)
    /\ \A e \in ToSet(load.events) :
         /\ e.line \in RecordAt /\ ~Damaged(e.line) /\ e.offset = OffsetOf(Lines, e.line)
         /\ format \in DOMAIN NewTypes /\ Lines[e.line].rec.class \in NewTypes[format] =>
              \/ \E f \in ToSet(Returned) : f.line = e.line /\ f.code = "SL302"
              \/ e.line \in load.unknown
    /\ \A j, k \in DOMAIN load.events : j < k => load.events[j].line <= load.events[k].line

\* An id that the loader made up never equals another one, unless the vendor
\* gave two records the same id (synthetic.py and the ids of split records).
MadeUpIdsAreFresh ==
  Settled /\ format \notin {"events", "canonical", "session"} =>
    \A j, k \in DOMAIN load.events :
      LET a == load.events[j]
          b == load.events[k]
      IN j < k /\ a.id = b.id =>
           \/ a.original /\ b.original
           \/ RecOf(a).id = RecOf(b).id /\ RecOf(a).id # None

\* Two codex events are linked exactly when nothing can be missing between them
\* (codex_rollout.py:1228).
LinkedIfAdjacent ==
  Settled /\ format = "codex" =>
    \A k \in DOMAIN load.events :
      LET e == load.events[k]
          before == load.events[k - 1]
          ordinal(x) == RecOf(x).ordinal
          adjacent == /\ k > 1
                      /\ \A i \in before.line + 1 .. e.line - 1 : i \notin RecordAt
                      /\ None \in {ordinal(e), ordinal(before)} \/ ordinal(e) = ordinal(before) + 1
      IN e.parent = IF adjacent THEN before.id ELSE None

\* A change of version, or a record of another format, is reported unless the
\* file has a version that is not supported, which is reported once
\* (drift.py:218, codex_rollout.py:410, claude_code.py:882).
VersionsCompared ==
  Settled /\ format \in {"codex", "claude"} =>
    LET recs == {Lines[i].rec : i \in {j \in RecordAt : ~Damaged(j)}}
        marked == {r \in recs : r.version \in Supported /\ (format = "claude" => r.marker)}
        unsupported == \E r \in recs : r.version \notin Supported \cup {None}
        changed == Cardinality({r.version : r \in marked}) > 1 \/ \E r \in recs : r.foreign
        told == {k \in DOMAIN load.findings : load.findings[k].code = "SL301"}
    IN /\ (\E f \in load.closing : f.code = "SL304") <=> changed /\ ~unsupported
       /\ Cardinality(told) = IF unsupported THEN 1 ELSE 0

\* A user record that carries several results becomes several events.
Parallel(rec) ==
  format = "claude" /\ Blocks(rec, "use") = <<>> /\ Len(Blocks(rec, "result")) > 1

\* A record that declares a parent hangs below it, all its events do, and where
\* it becomes one chain the name it was given stays on it, so that its children
\* find it (claude_code.py:1099, openai_agents.py:1303).
KeepsItsPlace ==
  Settled /\ format \in {"claude", "openai", "document"} =>
    \A first \in ToSet(load.events) :
      LET mine == {e \in ToSet(load.events) : e.line = first.line}
          rec == RecOf(first)
      IN /\ \E e \in mine : e.parent = rec.parent
         /\ \A e \in mine : e.parent # rec.parent => \E above \in mine \ {e} : above.id = e.parent
         /\ rec.id # None /\ ~Parallel(rec) => \E e \in mine : e.id = rec.id

\* A parent that names a record of the file names an event of the session.  It
\* does not when the record holds several results (claude_code.py:1200).
ParentsAreEvents ==
  Settled /\ format = "claude" =>
    \A e \in ToSet(load.events) :
      (\E above \in ToSet(load.events) : RecOf(above).id = e.parent) =>
        e.parent \in {None} \cup {above.id : above \in ToSet(load.events)}

\* However the file grows, a reader comes to an end.
ReaderEnds == <>(pc \in Final)
=============================================================================

----------------------------- MODULE IngestProofs -----------------------------
(***************************************************************************)
(* What the reader and the adapters make of a session file, for every      *)
(* file, every limit, and an agent that writes meanwhile: that damage is   *)
(* located, that no record is lost, that links, versions and places are    *)
(* what the file says, and that a report says of its rules what ran.       *)
(*                                                                         *)
(* Whatever pieces the lines are read in, the pending line is the last     *)
(* record behind which the reader has not looked, its coordinates are      *)
(* those of the file, and the load is at any moment about the records in   *)
(* front of it.                                                            *)
(***************************************************************************)
EXTENDS SessionReport, AdapterProofs

-----------------------------------------------------------------------------
(* The steps of the reader.                                                *)

\* A line in hand, whole or over the limit, with its coordinates.
LEMMA AcceptKeeps ==
  ASSUME FileOK, Streamed, Steady, pc \in AtWork, NEW h \in 1..Len(Lines), PendingUpTo(h - 1),
         NEW raw, IsRaw(raw), OfLine(raw, h), raw.end = OffsetOf(Lines, h + 1),
         Accept(raw), Lines' = Lines, format' = format
  PROVE  pc' = "tooMany" \/ (pc' = "read" /\ PendingUpTo(h)')
<1>1. /\ IsFile(Lines) /\ FileFits(Lines) /\ format \in Formats /\ Len(Lines) \in Nat
      /\ DOMAIN Lines = 1..Len(Lines) /\ h \in Nat /\ h - 1 \in Nat
  BY LinesFit, LineIs
<1>2. raw.truncated = Oversize(h) /\ (~Oversize(h) => raw.text = LineText(h)) /\ raw.line = h
  BY DEF OfLine
<1>3. h \in RecordAt <=> ~(raw.text = Blank /\ ~raw.truncated)
  BY <1>1, <1>2 DEF RecordAt
<1>4. \A j \in RecordAt : j \in Nat /\ 1 <= j
  BY <1>1, LineIs DEF RecordAt
<1>5. OrdinalAt(h) \in Nat /\ OrdinalAt(h - 1) = recordCount /\ recordCount \in Nat
      /\ OrdinalAt(h) = IF h \in RecordAt THEN recordCount + 1 ELSE recordCount
  BY <1>1, OrdinalIs DEF PendingUpTo
<1>6. CASE h \notin RecordAt
  <2>1. pc' = "read" /\ recordCount' = recordCount /\ pendingRaw' = pendingRaw /\ load' = load
    BY <1>3, <1>6 DEF Accept
  <2>2. \A j \in RecordAt : (j > h - 1 => j > h) /\ (j <= h => j <= h - 1)
    BY <1>1, <1>4, <1>6
  <2>3. PendingUpTo(h)
    <3>1. pendingRaw # NoRaw => pendingRaw.line <= h
      BY <1>1, <1>4 DEF PendingUpTo
    <3> QED BY <1>5, <1>6, <2>2, <3>1 DEF PendingUpTo
  <2>4. RecordAt' = RecordAt /\ OrdinalAt(h)' = OrdinalAt(h)
    BY SameLines
  <2>5. PendingUpTo(h)'
    BY <2>1, <2>3, <2>4, SameLoad DEF PendingUpTo
  <2> QED BY <2>1, <2>5
<1>7. CASE h \in RecordAt
  <2>1. recordCount' = recordCount + 1
    BY <1>3, <1>7 DEF Accept
  <2>2. CASE pendingRaw # NoRaw /\ OverRecords(pendingRaw)
    BY <1>3, <1>7, <2>2 DEF Accept
  <2>3. CASE ~(pendingRaw # NoRaw /\ OverRecords(pendingRaw))
    <3> DEFINE r == [raw EXCEPT !.ordinal = recordCount + 1]
    <3>1. pc' = "read" /\ pendingRaw' = r /\ load' = Lookahead
      BY <1>3, <1>7, <2>3 DEF Accept
    <3>2. RawIs(r, h) /\ r.line = h
      <4>1. r = Raw(raw.text, raw.ended, raw.truncated, raw.rec, raw.line, recordCount + 1, raw.offset, raw.end)
        BY DEF IsRaw, Raw
      <4>2. /\ r.text = raw.text /\ r.ended = raw.ended /\ r.truncated = raw.truncated /\ r.rec = raw.rec
            /\ r.line = raw.line /\ r.ordinal = recordCount + 1 /\ r.offset = raw.offset /\ r.end = raw.end
        BY <4>1 DEF Raw
      <4> HIDE DEF r
      <4>3. IsRaw(r)
        BY <4>1, <4>2 DEF IsRaw
      <4>4. OfLine(r, h)
        BY <4>2 DEF OfLine
      <4> QED BY <1>2, <1>5, <1>7, <4>2, <4>3, <4>4 DEF RawIs
    <3> HIDE DEF r
    <3>3. r # NoRaw
      <4>1. NoRaw.line = 0
        BY DEF NoRaw, Raw
      <4>2. r.line # 0
        BY <1>1, <3>2
      <4> QED BY <4>1, <4>2
    <3>4. \A j \in RecordAt : j <= h => j <= h
      OBVIOUS
    <3>5. LoadOK(load', h)
      <4>1. CASE pendingRaw = NoRaw
        <5>1. load' = EmptyLoad /\ \A j \in RecordAt : j > h - 1
          BY <3>1, <4>1 DEF Lookahead, PendingUpTo
        <5>2. Rows(h) = {}
          BY <1>1, <1>4, <5>1 DEF Rows
        <5> QED BY <5>1, <5>2, EmptyKeeps
      <4>2. CASE pendingRaw # NoRaw
        <5> DEFINE m == pendingRaw.line
        <5>1. /\ m \in RecordAt /\ m <= h - 1 /\ RawIs(pendingRaw, m) /\ LoadOK(load, m)
              /\ \A j \in RecordAt : j <= h - 1 => j <= m
          BY <4>2 DEF PendingUpTo
        <5>2. load' = Process(load, pendingRaw, FALSE)
          BY <3>1, <4>2 DEF Lookahead
        <5> HIDE DEF m
        <5>3. ~Torn(m)
          <6>1. m \in 1..Len(Lines) /\ m < Len(Lines)
            BY <1>1, <1>4, <5>1
          <6> QED BY <1>1, <6>1, LineIs DEF Torn
        <5>4. LoadOK(load', m + 1)
          BY <1>1, <5>1, <5>2, <5>3, ProcessKeeps
        <5>5. Rows(h) = Rows(m + 1)
          <6>1. \A j \in RecordAt : j < h <=> j < m + 1
            BY <1>1, <1>4, <5>1
          <6> QED BY <6>1 DEF Rows
        <5> QED BY <5>4, <5>5, SkipKeeps
      <4> QED BY <4>1, <4>2
    <3>6. RecordAt' = RecordAt /\ OrdinalAt(h)' = OrdinalAt(h)
      BY SameLines
    <3>7. LoadOK(load, h)' /\ RawIs(pendingRaw, h)'
      BY <3>1, <3>2, <3>5, SameLoad
    <3>8. PendingUpTo(h)'
      <4>1. recordCount' = OrdinalAt(h)'
        BY <1>5, <1>7, <2>1, <3>6
      <4>2. pendingRaw' # NoRaw /\ pendingRaw'.line = h
        BY <3>1, <3>2, <3>3
      <4>3. NoRaw' = NoRaw
        OBVIOUS
      <4> QED BY <1>1, <1>7, <3>6, <3>7, <4>1, <4>2, <4>3 DEF PendingUpTo
    <3> QED BY <3>1, <3>8
  <2> QED BY <2>2, <2>3
<1> QED BY <1>6, <1>7

LEMMA PendingSame ==
  ASSUME Lines' = Lines, format' = format, recordCount' = recordCount, pendingRaw' = pendingRaw,
         load' = load, NEW a, PendingUpTo(a)
  PROVE  PendingUpTo(a)'
<1>1. RecordAt' = RecordAt /\ OrdinalAt(a)' = OrdinalAt(a)
  BY SameLines
<1>2. \A m : LoadOK(load, m)' = LoadOK(load, m) /\ RawIs(pendingRaw, m)' = RawIs(pendingRaw, m)
  BY SameLoad
<1> QED BY <1>1, <1>2 DEF PendingUpTo

\* One call of readline at the beginning of a line: all of the line, or as much of
\* it as says that it is too long.
LEMMA PieceIs ==
  ASSUME FileOK, Streamed, Steady, pc = "read", PositionOK
  PROVE  LET p == ReadLine(LineLimit)
             h == pos[1]
         IN /\ AtEnd(p) <=> h > Len(Lines) \/ pos[2] # 0
            /\ ~AtEnd(p) =>
                 /\ h \in 1..Len(Lines) /\ pos[2] = 0 /\ lineNumber = h - 1
                 /\ totalBytes = OffsetOf(Lines, h)
                 /\ p = [line |-> h, from |-> 0, to |-> p.to] /\ p.line = h /\ p.from = 0
                 /\ p.to \in Nat /\ p.to <= Lines[h].have /\ PieceSize(p) = p.to
                 /\ p.to # Lines[h].have => format \in Live /\ MaxLine < p.to
<1> DEFINE p == ReadLine(LineLimit)
           h == pos[1]
<1>1. /\ FileFits(Lines) /\ IsFile(Lines) /\ format \in Formats
      /\ format \notin Live => SizeOf(Lines) <= MaxFile
      /\ Len(Lines) \in Nat
  BY LinesFit, LineIs DEF AtWork
<1>2. MaxLine \in Nat /\ MaxFile \in Nat /\ MaxLine >= 1 /\ MaxFile >= 1
  BY LimitAssumption
<1>3. LineLimit \in Nat /\ LineLimit >= 1 /\ (format \in Live => LineLimit = MaxLine + 1)
      /\ (format \notin Live => LineLimit = MaxFile)
  BY <1>2 DEF LineLimit
<1>4. h \in 1..(Len(Lines) + 1) /\ pos[2] \in Nat /\ totalBytes = OffsetOf(Lines, h) + pos[2]
  BY DEF PositionOK
<1>5. \/ pos[2] = 0 /\ lineNumber = h - 1
      \/ /\ h = Len(Lines) /\ lineNumber = Len(Lines)
         /\ pos[2] = Lines[h].have /\ ~Ended(Lines[h])
  BY DEF PositionOK
<1>6. /\ p.line = h /\ p.from = pos[2] /\ p = [line |-> p.line, from |-> p.from, to |-> p.to]
      /\ h <= Len(Lines) =>
           p.to = IF Lines[h].have <= pos[2] + LineLimit THEN Lines[h].have ELSE pos[2] + LineLimit
  <2> HIDE DEF p
  <2>1. pc \in AtWork
    BY DEF AtWork
  <2> QED BY <1>3, <2>1, ReadLineIs DEF p
<1> HIDE DEF p
<1>7. CASE h > Len(Lines)
  <2>1. AtEnd(p)
    BY <1>6, <1>7 DEF AtEnd
  <2> QED BY <1>7, <2>1 DEF p
<1>8. CASE h <= Len(Lines)
  <2>1. h \in 1..Len(Lines)
    BY <1>1, <1>4, <1>8
  <2>2. /\ Lines[h].have \in Nat /\ 1 <= Lines[h].have /\ OffsetOf(Lines, h) \in Nat
        /\ OffsetOf(Lines, h) + Lines[h].have <= SizeOf(Lines) /\ SizeOf(Lines) \in Nat
    BY <1>1, <2>1, LineIs
  <2>3. CASE pos[2] # 0
    <3>1. p.to = Lines[h].have /\ p.from = Lines[h].have
      BY <1>3, <1>5, <1>6, <1>8, <2>2, <2>3
    <3>2. AtEnd(p)
      BY <2>2, <3>1 DEF AtEnd, PieceSize
    <3> QED BY <2>3, <3>2 DEF p
  <2>4. CASE pos[2] = 0
    <3>1. p.to = IF Lines[h].have <= LineLimit THEN Lines[h].have ELSE LineLimit
      BY <1>3, <1>6, <1>8, <2>4
    <3>2. p.to \in Nat /\ 1 <= p.to /\ p.to <= Lines[h].have /\ p.from = 0
      BY <1>3, <1>6, <2>2, <2>4, <3>1
    <3>3. PieceSize(p) = p.to
      BY <3>2 DEF PieceSize
    <3>4. ~AtEnd(p)
      BY <1>1, <1>6, <2>1, <3>2, <3>3 DEF AtEnd
    <3>5. p.to # Lines[h].have => format \in Live /\ MaxLine < p.to
      BY <1>1, <1>2, <1>3, <2>2, <3>1
    <3>6. lineNumber = h - 1
      BY <1>5, <2>2, <2>4
    <3>7. totalBytes = OffsetOf(Lines, h)
      BY <1>4, <2>2, <2>4
    <3>8. p = [line |-> h, from |-> 0, to |-> p.to]
      BY <1>6, <3>2
    <3>9. ~(h > Len(Lines))
      BY <1>1, <2>1
    <3> QED BY <1>6, <2>1, <2>4, <3>2, <3>3, <3>4, <3>5, <3>6, <3>7, <3>8, <3>9 DEF p
  <2> QED BY <2>3, <2>4
<1> QED BY <1>1, <1>4, <1>7, <1>8

LEMMA NextLineKeeps ==
  ASSUME FileOK, Streamed, Steady, PositionOK, PendingOK, NextLine
  PROVE  pc' \in {"tooLarge", "tooMany"} \/ (pc' \in AtWork /\ PositionOK' /\ PendingOK')
<1> DEFINE p == ReadLine(LineLimit)
           end == totalBytes + PieceSize(p)
           raw == CurrentRaw(p)
<1>0. PICK h : h = pos[1]
  OBVIOUS
<1>1. /\ pc = "read" /\ ~AtEnd(p) /\ lineNumber' = lineNumber + 1 /\ totalBytes' = end /\ pos' = Advance(p)
      /\ CASE end > MaxFile ->
                pc' = "tooLarge" /\ UNCHANGED <<recordCount, pendingRaw, drained, load>>
           [] end <= MaxFile /\ raw.truncated /\ ~raw.ended /\ format \in Live ->
                pc' = "drain" /\ drained' = raw /\ UNCHANGED <<recordCount, pendingRaw, load>>
           [] OTHER -> Accept(raw)
      /\ UNCHANGED <<format, fileVars, source>>
  BY DEF NextLine
<1>2. Lines' = Lines /\ format' = format
  BY <1>1 DEF Lines, fileVars
<1>3. /\ h \in 1..Len(Lines) /\ pos[2] = 0 /\ lineNumber = h - 1
      /\ totalBytes = OffsetOf(Lines, h)
      /\ p = [line |-> h, from |-> 0, to |-> p.to] /\ p.line = h /\ p.from = 0
      /\ p.to \in Nat /\ p.to <= Lines[h].have /\ PieceSize(p) = p.to
      /\ p.to # Lines[h].have => format \in Live /\ MaxLine < p.to
  <2> HIDE DEF p
  <2> QED BY <1>0, <1>1, PieceIs DEF p
<1> HIDE DEF p
<1>4. /\ IsFile(Lines) /\ Len(Lines) \in Nat /\ MaxLine \in Nat /\ MaxFile \in Nat
      /\ Lines[h].have \in Nat /\ Lines[h].size \in Nat /\ Lines[h].have <= Lines[h].size
      /\ (Ended(Lines[h]) <=> Lines[h].have = Lines[h].size) /\ (h < Len(Lines) => Ended(Lines[h]))
      /\ OffsetOf(Lines, h + 1) = OffsetOf(Lines, h) + Lines[h].have
      /\ OffsetOf(Lines, h) \in Nat
  <2>1. pc \in AtWork
    BY <1>1 DEF AtWork
  <2> QED BY <1>3, <2>1, LinesFit, LineIs, LimitAssumption
<1>5. end = OffsetOf(Lines, h) + p.to /\ end \in Nat /\ lineNumber' = h /\ h \in Nat
  BY <1>1, <1>3, <1>4
<1>6. /\ raw = Raw(TextOf(Lines, p), p.to = Lines[h].size, OverLimit(p.to), Lines[h].rec, h, 0,
                   OffsetOf(Lines, h), end)
      /\ IsRaw(raw)
      /\ raw.text = TextOf(Lines, p) /\ raw.ended = (p.to = Lines[h].size)
      /\ raw.truncated = OverLimit(p.to) /\ raw.rec = Lines[h].rec /\ raw.line = h
      /\ raw.offset = OffsetOf(Lines, h) /\ raw.end = end
  <2>1. raw = Raw(TextOf(Lines, p), p.to = Lines[h].size, OverLimit(p.to), Lines[h].rec, h, 0,
                  OffsetOf(Lines, h), end)
    BY <1>3, <1>4 DEF CurrentRaw, PieceEnded
  <2> HIDE DEF raw
  <2> QED BY <2>1 DEF Raw, IsRaw
<1> HIDE DEF raw, end
<1>7. OfLine(raw, h)
  <2>1. OverLimit(p.to) = Oversize(h)
    BY <1>3, <1>4 DEF Oversize, OverLimit, Live
  <2>2. ASSUME ~Oversize(h)
        PROVE  raw.text = LineText(h) /\ raw.ended = Ended(Lines[h])
    <3>1. p.to = Lines[h].have
      BY <1>3, <2>1, <2>2 DEF OverLimit, Live
    <3> QED BY <1>3, <1>6, <3>1 DEF LineText, Ended
  <2> QED BY <1>6, <2>1, <2>2 DEF OfLine
<1>8. PendingUpTo(h - 1)
  BY <1>1, <1>3 DEF PendingOK
<1>9. Advance(p) = IF p.to = Lines[h].size THEN <<h + 1, 0>> ELSE <<h, p.to>>
  BY <1>3 DEF Advance, PieceEnded
<1>10. CASE end > MaxFile
  BY <1>1, <1>4, <1>5, <1>10
<1>11. CASE end <= MaxFile /\ raw.truncated /\ ~raw.ended /\ format \in Live
  <2>1. ~(end > MaxFile)
    BY <1>4, <1>5, <1>11
  <2>2. pc' = "drain" /\ drained' = raw /\ recordCount' = recordCount /\ pendingRaw' = pendingRaw /\ load' = load
    BY <1>1, <1>11, <2>1
  <2>3. p.to # Lines[h].size /\ MaxLine < p.to
    BY <1>6, <1>11 DEF OverLimit
  <2>4. pos' = <<h, p.to>> /\ pos'[1] = h /\ pos'[2] = p.to
    BY <1>1, <1>9, <2>3
  <2>6. OfLine(drained, pos[1])'
    <3>1. \A r, m : OfLine(r, m)' = OfLine(r, m)
      BY <1>2, SameLoad
    <3> QED BY <1>7, <2>2, <2>4, <3>1
  <2>7. PositionOK'
    <3>1. IsRaw(drained)'
      BY <1>6, <2>2 DEF IsRaw
    <3>2. /\ pos' = <<pos'[1], pos'[2]>> /\ pos'[1] \in 1..(Len(Lines') + 1) /\ pos'[2] \in Nat
      BY <1>2, <1>3, <1>4, <2>4
    <3>3. totalBytes' = OffsetOf(Lines', pos'[1]) + pos'[2]
      BY <1>1, <1>2, <1>5, <2>4
    <3>4. /\ format' \in Live /\ pos'[1] <= Len(Lines') /\ lineNumber' = pos'[1]
          /\ MaxLine < pos'[2] /\ pos'[2] <= Lines'[pos'[1]].have /\ pos'[2] < Lines'[pos'[1]].size
      BY SMTT(20), <1>2, <1>3, <1>4, <1>5, <1>11, <2>3, <2>4
    <3> QED BY <2>2, <2>6, <3>1, <3>2, <3>3, <3>4 DEF PositionOK
  <2>8. PendingOK'
    <3>1. PendingUpTo(h - 1)'
      BY <1>2, <1>8, <2>2, PendingSame
    <3> QED BY <1>5, <2>2, <3>1 DEF PendingOK
  <2> QED BY <2>2, <2>7, <2>8 DEF AtWork
<1>12. CASE ~(end > MaxFile) /\ ~(end <= MaxFile /\ raw.truncated /\ ~raw.ended /\ format \in Live)
  <2>1. Accept(raw)
    BY <1>1, <1>12
  <2>2. p.to = Lines[h].have
    <3> SUFFICES ASSUME p.to # Lines[h].have PROVE FALSE
      OBVIOUS
    <3>1. OverLimit(p.to) /\ format \in Live
      BY <1>3 DEF OverLimit, Live
    <3>2. end <= MaxFile
      BY <1>4, <1>5, <1>12
    <3>3. raw.ended
      BY <1>6, <1>12, <3>1, <3>2
    <3>4. p.to = Lines[h].size
      BY <1>6, <3>3
    <3> QED BY <1>3, <1>4, <3>4
  <2>3. raw.end = OffsetOf(Lines, h + 1)
    BY <1>4, <1>5, <1>6, <2>2
  <2>4. pc' = "tooMany" \/ (pc' = "read" /\ PendingUpTo(h)')
    <3>1. pc \in AtWork
      BY <1>1 DEF AtWork
    <3> QED BY <1>2, <1>3, <1>6, <1>7, <1>8, <2>1, <2>3, <3>1, AcceptKeeps
  <2>5. ASSUME pc' = "read" PROVE PositionOK'
    <3>1. CASE Lines[h].have = Lines[h].size
      <4>1. pos' = <<h + 1, 0>> /\ pos'[1] = h + 1 /\ pos'[2] = 0
        BY <1>1, <1>9, <2>2, <3>1
      <4>2. pos'[1] \in 1..(Len(Lines') + 1) /\ lineNumber' = pos'[1] - 1
        BY SMTT(20), <1>2, <1>3, <1>4, <1>5, <4>1
      <4>3. totalBytes' = OffsetOf(Lines', pos'[1]) + pos'[2]
        BY <1>1, <1>2, <1>4, <1>5, <2>2, <4>1
      <4> QED BY <2>5, <4>1, <4>2, <4>3 DEF PositionOK
    <3>2. CASE Lines[h].have # Lines[h].size
      <4>1. pos' = <<h, Lines[h].have>> /\ pos'[1] = h /\ pos'[2] = Lines[h].have
        BY <1>1, <1>9, <2>2, <3>2
      <4>2. ~Ended(Lines[h]) /\ h = Len(Lines)
        BY <1>3, <1>4, <3>2
      <4>3. pos'[1] \in 1..(Len(Lines') + 1) /\ lineNumber' = Len(Lines') /\ pos'[2] \in Nat
        BY <1>2, <1>3, <1>4, <1>5, <4>1, <4>2
      <4>4. totalBytes' = OffsetOf(Lines', pos'[1]) + pos'[2]
        BY <1>1, <1>2, <1>4, <1>5, <2>2, <4>1
      <4>5. pos'[1] = Len(Lines') /\ pos'[2] = Lines'[pos'[1]].have /\ ~Ended(Lines'[pos'[1]])
        BY <1>2, <4>1, <4>2
      <4> QED BY <2>5, <4>1, <4>3, <4>4, <4>5 DEF PositionOK
    <3> QED BY <3>1, <3>2
  <2>6. pc' = "read" => PendingOK'
    BY <1>5, <2>4 DEF PendingOK
  <2> QED BY <2>4, <2>5, <2>6 DEF AtWork
<1> QED BY <1>10, <1>11, <1>12

LEMMA DrainKeeps ==
  ASSUME FileOK, Streamed, Steady, PositionOK, PendingOK, Drain
  PROVE  pc' \in {"tooLarge", "tooMany"} \/ (pc' \in AtWork /\ PositionOK' /\ PendingOK')
<1> DEFINE p == ReadLine(DrainSize)
           end == totalBytes + PieceSize(p)
           raw == [drained EXCEPT !.end = IF AtEnd(p) THEN totalBytes ELSE end]
<1>0. PICK h : h = pos[1]
  OBVIOUS
<1>00. PICK n : n = pos[2]
  OBVIOUS
<1>1. /\ pc = "drain" /\ lineNumber' = lineNumber
      /\ UNCHANGED <<format, fileVars, source>>
      /\ IF AtEnd(p)
         THEN Accept(raw) /\ UNCHANGED <<totalBytes, pos>>
         ELSE /\ totalBytes' = end /\ pos' = Advance(p)
              /\ CASE end > MaxFile ->
                        pc' = "tooLarge" /\ UNCHANGED <<recordCount, pendingRaw, drained, load>>
                   [] end <= MaxFile /\ ~PieceEnded(Lines, p) ->
                        /\ pc' = "drain" /\ drained' = raw
                        /\ UNCHANGED <<recordCount, pendingRaw, load>>
                   [] OTHER -> Accept(raw)
  BY DEF Drain
<1>2. Lines' = Lines /\ format' = format
  BY <1>1 DEF Lines, fileVars
<1>3. /\ h \in 1..(Len(Lines) + 1) /\ n \in Nat /\ totalBytes = OffsetOf(Lines, h) + n
      /\ format \in Live /\ h <= Len(Lines) /\ lineNumber = h
      /\ MaxLine < n /\ n <= Lines[h].have /\ n < Lines[h].size
      /\ IsRaw(drained) /\ OfLine(drained, h) /\ pos = <<h, n>>
  BY <1>0, <1>00, <1>1 DEF PositionOK
<1>4. /\ IsFile(Lines) /\ Len(Lines) \in Nat /\ MaxLine \in Nat /\ MaxFile \in Nat /\ h \in 1..Len(Lines)
      /\ DrainSize \in Nat /\ DrainSize >= 1
      /\ Lines[h].have \in Nat /\ Lines[h].size \in Nat /\ Lines[h].have <= Lines[h].size
      /\ (Ended(Lines[h]) <=> Lines[h].have = Lines[h].size) /\ (h < Len(Lines) => Ended(Lines[h]))
      /\ OffsetOf(Lines, h + 1) = OffsetOf(Lines, h) + Lines[h].have
      /\ OffsetOf(Lines, h) \in Nat
  <2>1. pc \in AtWork
    BY <1>1 DEF AtWork
  <2>2. IsFile(Lines) /\ Len(Lines) \in Nat
    BY <2>1, LinesFit, LineIs
  <2>3. h \in 1..Len(Lines)
    BY <1>3, <2>2
  <2>4. MaxLine \in Nat /\ MaxFile \in Nat /\ DrainSize \in Nat /\ DrainSize >= 1
    BY LimitAssumption
  <2> QED BY <2>2, <2>3, <2>4, LineIs
<1>5. /\ p.line = h /\ p.from = n /\ p = [line |-> h, from |-> n, to |-> p.to]
      /\ p.to = IF Lines[h].have <= n + DrainSize THEN Lines[h].have ELSE n + DrainSize
  <2> HIDE DEF p
  <2>1. pc \in AtWork
    BY <1>1 DEF AtWork
  <2> QED BY <1>0, <1>00, <1>3, <1>4, <2>1, ReadLineIs DEF p
<1> HIDE DEF p
<1>6. /\ p.to \in Nat /\ n <= p.to /\ p.to <= Lines[h].have /\ PieceSize(p) = p.to - n
      /\ p.to = n => n = Lines[h].have
      /\ AtEnd(p) <=> n = Lines[h].have
      /\ PieceEnded(Lines, p) <=> p.to = Lines[h].size
      /\ Advance(p) = IF p.to = Lines[h].size THEN <<h + 1, 0>> ELSE <<h, p.to>>
  <2>1. p.to \in Nat /\ n <= p.to /\ p.to <= Lines[h].have /\ (p.to = n => n = Lines[h].have)
    <3>1. PICK have, to, d : have = Lines[h].have /\ to = p.to /\ d = DrainSize
      OBVIOUS
    <3>2. n \in Nat /\ n <= have
      BY <1>3, <3>1
    <3>3. have \in Nat /\ d \in Nat /\ d >= 1
      BY <1>4, <3>1
    <3>4. to = IF have <= n + d THEN have ELSE n + d
      BY <1>5, <3>1
    <3>5. to \in Nat /\ n <= to /\ to <= have /\ (to = n => n = have)
      BY <3>2, <3>3, <3>4
    <3> QED BY <3>1, <3>5
  <2>2. PieceSize(p) = p.to - n
    BY <1>5 DEF PieceSize
  <2>3. AtEnd(p) <=> n = Lines[h].have
    <3>1. PICK have, to, d : have = Lines[h].have /\ to = p.to /\ d = DrainSize
      OBVIOUS
    <3>2. n \in Nat /\ n <= have
      BY <1>3, <3>1
    <3>3. have \in Nat /\ d \in Nat /\ d >= 1
      BY <1>4, <3>1
    <3>4. to = IF have <= n + d THEN have ELSE n + d
      BY <1>5, <3>1
    <3>5. to - n = 0 <=> n = have
      BY <3>2, <3>3, <3>4
    <3>6. AtEnd(p) <=> to - n = 0
      <4>1. p.line = h /\ ~(h > Len(Lines))
        BY <1>3, <1>4, <1>5
      <4>2. PieceSize(p) = to - n
        BY <2>2, <3>1
      <4> QED BY <4>1, <4>2 DEF AtEnd
    <3> QED BY <3>1, <3>5, <3>6
  <2>4. PieceEnded(Lines, p) <=> p.to = Lines[h].size
    BY <1>5 DEF PieceEnded
  <2>5. Advance(p) = IF p.to = Lines[h].size THEN <<h + 1, 0>> ELSE <<h, p.to>>
    BY <1>5, <2>4 DEF Advance
  <2> QED BY <2>1, <2>2, <2>3, <2>4, <2>5
<1>7. end = OffsetOf(Lines, h) + p.to /\ end \in Nat /\ totalBytes \in Nat
  <2>1. totalBytes = OffsetOf(Lines, h) + n /\ n \in Nat /\ OffsetOf(Lines, h) \in Nat
    BY <1>3, <1>4
  <2>2. PieceSize(p) = p.to - n /\ p.to \in Nat
    BY <1>6
  <2> QED BY <2>1, <2>2
<1>8. IsRaw(raw) /\ OfLine(raw, h) /\ raw.end = IF AtEnd(p) THEN totalBytes ELSE end
  <2> DEFINE e == IF AtEnd(p) THEN totalBytes ELSE end
  <2> HIDE DEF e
  <2>1. raw = [drained EXCEPT !.end = e]
    BY DEF e
  <2>2. drained = Raw(drained.text, drained.ended, drained.truncated, drained.rec, drained.line,
                      drained.ordinal, drained.offset, drained.end)
    BY <1>3 DEF IsRaw
  <2> HIDE DEF raw
  <2>3. raw = Raw(drained.text, drained.ended, drained.truncated, drained.rec, drained.line,
                  drained.ordinal, drained.offset, e)
    BY <2>1, <2>2 DEF Raw
  <2>4. /\ raw.text = drained.text /\ raw.ended = drained.ended /\ raw.truncated = drained.truncated
        /\ raw.rec = drained.rec /\ raw.line = drained.line /\ raw.offset = drained.offset /\ raw.end = e
        /\ raw.ordinal = drained.ordinal
    BY <2>3 DEF Raw
  <2>5. IsRaw(raw)
    BY <2>3, <2>4 DEF IsRaw
  <2>6. OfLine(raw, h)
    BY <1>3, <2>4 DEF OfLine
  <2> QED BY <2>4, <2>5, <2>6 DEF e
<1> HIDE DEF raw, end
<1>9. PendingUpTo(h - 1)
  BY <1>1, <1>3 DEF PendingOK
<1>10. ASSUME Accept(raw), raw.end = OffsetOf(Lines, h + 1)
       PROVE  pc' = "tooMany" \/ (pc' = "read" /\ PendingUpTo(h)')
  <2>1. pc \in AtWork
    BY <1>1 DEF AtWork
  <2> QED BY <1>2, <1>4, <1>8, <1>9, <1>10, <2>1, AcceptKeeps
<1>11. ASSUME pc' = "read", PendingUpTo(h)' PROVE PendingOK'
  BY <1>1, <1>3, <1>11 DEF PendingOK
<1>12. CASE AtEnd(p)
  <2>1. Accept(raw) /\ totalBytes' = totalBytes /\ pos' = pos /\ n = Lines[h].have
    BY <1>1, <1>6, <1>12
  <2>2. raw.end = OffsetOf(Lines, h + 1)
    BY <1>3, <1>4, <1>8, <1>12, <2>1
  <2>3. pc' = "tooMany" \/ (pc' = "read" /\ PendingUpTo(h)')
    BY <1>10, <2>1, <2>2
  <2>4. ASSUME pc' = "read" PROVE PositionOK'
    <3>1. pos' = <<h, n>> /\ pos'[1] = h /\ pos'[2] = n
      BY <1>3, <2>1
    <3>2. h = Len(Lines) /\ ~Ended(Lines[h])
      BY <1>3, <1>4, <2>1
    <3>3. pos'[1] \in 1..(Len(Lines') + 1) /\ lineNumber' = Len(Lines') /\ pos'[2] \in Nat
      BY <1>1, <1>2, <1>3, <1>4, <3>1, <3>2
    <3>4. totalBytes' = OffsetOf(Lines', pos'[1]) + pos'[2]
      BY <1>2, <1>3, <2>1, <3>1
    <3>5. pos'[1] = Len(Lines') /\ pos'[2] = Lines'[pos'[1]].have /\ ~Ended(Lines'[pos'[1]])
      BY <1>2, <2>1, <3>1, <3>2
    <3> QED BY <2>4, <3>1, <3>3, <3>4, <3>5 DEF PositionOK
  <2> QED BY <1>11, <2>3, <2>4 DEF AtWork
<1>13. CASE ~AtEnd(p)
  <2>1. /\ totalBytes' = end /\ pos' = Advance(p)
        /\ CASE end > MaxFile ->
                  pc' = "tooLarge" /\ UNCHANGED <<recordCount, pendingRaw, drained, load>>
             [] end <= MaxFile /\ ~PieceEnded(Lines, p) ->
                  /\ pc' = "drain" /\ drained' = raw
                  /\ UNCHANGED <<recordCount, pendingRaw, load>>
             [] OTHER -> Accept(raw)
    BY <1>1, <1>13
  <2>2. raw.end = end
    BY <1>8, <1>13
  <2>3. CASE end > MaxFile
    BY <1>4, <1>7, <2>1, <2>3
  <2>4. CASE end <= MaxFile /\ p.to # Lines[h].size
    <3>1. ~(end > MaxFile) /\ ~PieceEnded(Lines, p)
      BY <1>4, <1>6, <1>7, <2>4
    <3>2. pc' = "drain" /\ drained' = raw /\ recordCount' = recordCount /\ pendingRaw' = pendingRaw /\ load' = load
      BY <2>1, <2>4, <3>1
    <3>3. pos' = <<h, p.to>> /\ pos'[1] = h /\ pos'[2] = p.to
      BY <1>6, <2>1, <2>4
    <3>4. OfLine(drained, pos[1])'
      <4>1. \A r, m : OfLine(r, m)' = OfLine(r, m)
        BY <1>2, SameLoad
      <4> QED BY <1>8, <3>2, <3>3, <4>1
    <3>5. PositionOK'
      <4>1. IsRaw(drained)'
        BY <1>8, <3>2 DEF IsRaw
      <4>2. pos' = <<pos'[1], pos'[2]>> /\ pos'[1] \in 1..(Len(Lines') + 1) /\ pos'[2] \in Nat
        BY <1>2, <1>3, <1>6, <3>3
      <4>3. totalBytes' = OffsetOf(Lines', pos'[1]) + pos'[2]
        BY <1>2, <1>7, <2>1, <3>3
      <4>4. /\ format' \in Live /\ pos'[1] <= Len(Lines') /\ lineNumber' = pos'[1]
            /\ MaxLine < pos'[2] /\ pos'[2] <= Lines'[pos'[1]].have /\ pos'[2] < Lines'[pos'[1]].size
        <5>1. format' \in Live /\ pos'[1] <= Len(Lines') /\ lineNumber' = pos'[1]
          BY <1>1, <1>2, <1>3, <3>3
        <5>2. p.to \in Nat /\ n <= p.to /\ p.to <= Lines[h].have
          BY <1>6
        <5>3. MaxLine < p.to /\ p.to < Lines[h].size
          <6>1. PICK to, size : to = p.to /\ size = Lines[h].size
            OBVIOUS
          <6>2. MaxLine < n /\ n <= to /\ n \in Nat /\ MaxLine \in Nat /\ to \in Nat
            BY <1>3, <1>4, <5>2, <6>1
          <6>3. MaxLine < to
            BY <6>2
          <6>4. to <= Lines[h].have /\ Lines[h].have <= size /\ to # size /\ size \in Nat
                /\ Lines[h].have \in Nat
            BY <1>4, <2>4, <5>2, <6>1
          <6>5. to < size
            BY <6>2, <6>4
          <6> QED BY <6>1, <6>3, <6>5
        <5> QED BY <1>2, <3>3, <5>1, <5>2, <5>3
      <4> QED BY <3>2, <3>4, <4>1, <4>2, <4>3, <4>4 DEF PositionOK
    <3>6. PendingOK'
      <4>1. PendingUpTo(h - 1)'
        BY <1>2, <1>9, <3>2, PendingSame
      <4> QED BY <1>1, <1>3, <3>2, <4>1 DEF PendingOK
    <3> QED BY <3>2, <3>5, <3>6 DEF AtWork
  <2>5. CASE end <= MaxFile /\ p.to = Lines[h].size
    <3>1. ~(end > MaxFile) /\ PieceEnded(Lines, p)
      BY <1>4, <1>6, <1>7, <2>5
    <3>2. Accept(raw)
      BY <2>1, <3>1
    <3>3. p.to = Lines[h].have
      BY <1>4, <1>6, <2>5
    <3>4. pc' = "tooMany" \/ (pc' = "read" /\ PendingUpTo(h)')
      BY <1>4, <1>7, <1>10, <2>2, <3>2, <3>3
    <3>5. ASSUME pc' = "read" PROVE PositionOK'
      <4>1. pos' = <<h + 1, 0>> /\ pos'[1] = h + 1 /\ pos'[2] = 0
        BY <1>6, <2>1, <2>5
      <4>2. pos'[1] \in 1..(Len(Lines') + 1) /\ lineNumber' = pos'[1] - 1
        BY SMTT(20), <1>1, <1>2, <1>3, <1>4, <4>1
      <4>3. totalBytes' = OffsetOf(Lines', pos'[1]) + pos'[2]
        BY <1>2, <1>4, <1>7, <2>1, <3>3, <4>1
      <4> QED BY <3>5, <4>1, <4>2, <4>3 DEF PositionOK
    <3> QED BY <1>11, <3>4, <3>5 DEF AtWork
  <2> QED BY <1>4, <1>7, <2>3, <2>4, <2>5
<1> QED BY <1>12, <1>13

\* What the end of the file adds.
LEMMA ClosingIs ==
  ASSUME NEW L, L.closing = DriftFindings(L) \cup UnknownFindings(L), IsSequence(L.findings), Coded(L)
  PROVE  Said(L)
<1>1. \A f \in DriftFindings(L) : f.code = "SL304"
  BY DEF DriftFindings
<1>2. \A f \in UnknownFindings(L) : f.code = "SL306"
  BY DEF UnknownFindings
<1> QED BY <1>1, <1>2 DEF Said

LEMMA Closes ==
  ASSUME NEW L, NEW n, LoadOK(L, n), NEW total
  PROVE  /\ LoadOK(EndLoad(L, total), n)
         /\ EndLoad(L, total).events = L.events /\ IsLoad(EndLoad(L, total))
         /\ total = SizeOf(Lines) => ClosedOK(EndLoad(L, total))
<1> DEFINE E == EndLoad(L, total)
           tail == FinalizeTail(L.tail, total, TornOffsets(L))
<1>1. DOMAIN L = LoadFields /\ IsSequence(L.events) /\ IsSequence(L.findings)
  BY DEF LoadOK, WhereOK, IsLoad
<1>2. /\ DOMAIN E = LoadFields /\ E.events = L.events /\ E.findings = L.findings /\ E.unknown = L.unknown
      /\ E.drift = L.drift /\ E.sl301 = L.sl301 /\ E.unsupported = L.unsupported
      /\ E.baseline = L.baseline /\ E.last = L.last /\ E.lastOrdinal = L.lastOrdinal /\ E.gap = L.gap
      /\ E.tail = tail /\ E.closing = DriftFindings(L) \cup UnknownFindings(L)
  <2> HIDE DEF tail
  <2> QED BY <1>1 DEF EndLoad, LoadFields, tail
<1> HIDE DEF E
<1>3. WhereOK(E, n) /\ ToldOK(E, n) /\ DamageOK(E, n)
  <2>1. WhereOK(E, n)
    BY <1>1, <1>2 DEF LoadOK, WhereOK, IsLoad, Coded
  <2>2. \A i : Passed(L, i) => Passed(E, i)
    BY <1>2 DEF Passed
  <2>3. ToldOK(E, n)
    BY <1>2, <2>2 DEF LoadOK, ToldOK
  <2> QED BY <1>2, <2>1, <2>3 DEF LoadOK, DamageOK
<1>4. LinkOK(E, n) /\ VersionOK(E, n) /\ PlaceOK(E)
  <2>1. LinkOK(E, n)
    <3>1. \A k : Ordinal(E, k) = Ordinal(L, k)
      BY <1>2 DEF Ordinal
    <3>2. \A k : Adjacent(E, k) <=> Adjacent(L, k)
      BY <1>2, <3>1 DEF Adjacent
    <3> QED BY <1>2, <3>1, <3>2 DEF LoadOK, LinkOK
  <2>2. VersionOK(E, n)
    BY <1>2 DEF LoadOK, VersionOK
  <2>3. \A i : Group(E, i) = Group(L, i)
    BY <1>2 DEF Group
  <2> QED BY <1>2, <2>1, <2>2, <2>3 DEF LoadOK, PlaceOK
<1>5. ASSUME format # "canonical"
      PROVE  /\ tail = [begun |-> tail.begun, end |-> tail.end, records |-> tail.records, bytes |-> tail.bytes]
             /\ tail.begun = L.tail.begun /\ tail.end = L.tail.end
             /\ L.tail.begun =>
                  LET end == IF TornOffsets(L) = {} THEN total ELSE CHOOSE o \in TornOffsets(L) : TRUE
                  IN tail.bytes = IF end > L.tail.end THEN end - L.tail.end ELSE 0
  <2>1. L.tail = [begun |-> L.tail.begun, end |-> L.tail.end, records |-> L.tail.records, bytes |-> L.tail.bytes]
        /\ L.tail.begun \in BOOLEAN
    BY <1>5 DEF LoadOK, TailOK
  <2>2. CASE ~L.tail.begun
    BY <2>1, <2>2 DEF FinalizeTail
  <2>3. CASE L.tail.begun
    <3> DEFINE end == IF TornOffsets(L) = {} THEN total ELSE CHOOSE o \in TornOffsets(L) : TRUE
               b == IF end > L.tail.end THEN end - L.tail.end ELSE 0
    <3>1. tail = [L.tail EXCEPT !.bytes = b]
      BY <2>3 DEF FinalizeTail
    <3> HIDE DEF tail, b
    <3>2. tail = [begun |-> L.tail.begun, end |-> L.tail.end, records |-> L.tail.records, bytes |-> b]
      BY <2>1, <3>1
    <3>3. tail.begun = L.tail.begun /\ tail.end = L.tail.end /\ tail.records = L.tail.records /\ tail.bytes = b
      BY <3>2
    <3> QED BY <3>2, <3>3 DEF b
  <2> QED BY <2>1, <2>2, <2>3
<1>6. TailOK(E, n)
  BY <1>2, <1>5 DEF LoadOK, TailOK
<1>7. IsLoad(E)
  BY <1>1, <1>2 DEF IsLoad
<1>8. ASSUME total = SizeOf(Lines) PROVE ClosedOK(E)
  <2>1. DriftFindings(E) = DriftFindings(L) /\ UnknownFindings(E) = UnknownFindings(L)
        /\ TornOffsets(E) = TornOffsets(L)
    BY <1>2 DEF DriftFindings, UnknownFindings, TornOffsets
  <2> HIDE DEF tail
  <2> QED BY <1>2, <1>5, <1>8, <2>1 DEF ClosedOK
<1> QED BY <1>2, <1>3, <1>4, <1>6, <1>7, <1>8 DEF LoadOK, E

LEMMA FinishKeeps ==
  ASSUME FileOK, Streamed, Steady, PositionOK, PendingOK, Finish
  PROVE  pc' \in {"tooMany", "raised", "headerMissing"} \/ (pc' \in {"end", "done"} /\ LoadedOK')
<1>1. pc = "read" /\ AtEnd(ReadLine(LineLimit)) /\ UNCHANGED <<format, fileVars, source>>
  BY DEF Finish
<1>2. Lines' = Lines /\ format' = format
  BY <1>1 DEF Lines, fileVars
<1>3. IsFile(Lines) /\ Len(Lines) \in Nat /\ FileFits(Lines) /\ format \in Formats
  <2>1. pc \in AtWork
    BY <1>1 DEF AtWork
  <2> QED BY <2>1, LinesFit, LineIs
<1>4. lineNumber = Len(Lines) /\ totalBytes = SizeOf(Lines)
  <2>1. pos[1] \in 1..(Len(Lines) + 1) /\ totalBytes = OffsetOf(Lines, pos[1]) + pos[2] /\ pos[2] \in Nat
    BY DEF PositionOK
  <2>2. pos[1] > Len(Lines) \/ pos[2] # 0
    BY <1>1, PieceIs
  <2>3. CASE pos[2] = 0 /\ lineNumber = pos[1] - 1
    <3>1. pos[1] = Len(Lines) + 1
      BY <1>3, <2>1, <2>2, <2>3
    <3>2. OffsetOf(Lines, Len(Lines) + 1) = SizeOf(Lines) /\ SizeOf(Lines) \in Nat
      BY <1>3, LineIs
    <3> QED BY <1>3, <2>1, <2>3, <3>1, <3>2
  <2>4. CASE pos[1] = Len(Lines) /\ lineNumber = Len(Lines) /\ pos[2] = Lines[pos[1]].have
    <3>1. Len(Lines) \in 1..Len(Lines)
      BY <1>3, <2>1, <2>4
    <3>2. OffsetOf(Lines, Len(Lines) + 1) = OffsetOf(Lines, Len(Lines)) + Lines[Len(Lines)].have
          /\ OffsetOf(Lines, Len(Lines) + 1) = SizeOf(Lines)
      BY <1>3, <3>1, LineIs
    <3> QED BY <2>1, <2>4, <3>2
  <2> QED BY <1>1, <2>3, <2>4 DEF PositionOK
<1>5. PendingUpTo(Len(Lines))
  BY <1>1, <1>4 DEF PendingOK
<1>6. \A j \in RecordAt : j \in Nat /\ j <= Len(Lines)
  BY <1>3, LineIs DEF RecordAt
<1> DEFINE last == IF pendingRaw = NoRaw THEN load ELSE Process(load, pendingRaw, TRUE)
           ended == EndLoad(last, totalBytes)
<1>7. CASE pendingRaw # NoRaw /\ OverRecords(pendingRaw)
  BY <1>7 DEF Finish
<1>8. CASE ~(pendingRaw # NoRaw /\ OverRecords(pendingRaw))
  <2>1. /\ load' = IF format = "canonical" /\ pendingRaw = NoRaw THEN ReportEmpty(ended) ELSE ended
        /\ pc' = CASE ended.raised -> "raised"
                   [] ~ended.raised /\ format = "events" ->
                        IF pendingRaw = NoRaw THEN "headerMissing" ELSE "end"
                   [] OTHER -> "done"
    BY <1>8 DEF Finish
  <2>2. pc' \in {"raised", "headerMissing", "end", "done"}
    BY <2>1
  <2>3. LoadOK(last, Len(Lines) + 1)
    <3>1. CASE pendingRaw = NoRaw
      <4>1. last = EmptyLoad /\ Rows(Len(Lines) + 1) = {}
        BY <1>5, <1>6, <3>1 DEF PendingUpTo, Rows
      <4> QED BY <4>1, EmptyKeeps
    <3>2. CASE pendingRaw # NoRaw
      <4>1. PICK m : m = pendingRaw.line
        OBVIOUS
      <4>2. m \in RecordAt /\ RawIs(pendingRaw, m) /\ LoadOK(load, m) /\ \A j \in RecordAt : j <= m
        BY <1>5, <1>6, <3>2, <4>1 DEF PendingUpTo
      <4>3. LoadOK(last, m + 1)
        BY <1>3, <3>2, <4>2, ProcessKeeps
      <4>4. Rows(Len(Lines) + 1) = Rows(m + 1)
        <5>1. \A j \in RecordAt : j < Len(Lines) + 1 /\ j < m + 1
          BY <1>3, <1>6, <4>2
        <5> QED BY <5>1 DEF Rows
      <4> QED BY <4>3, <4>4, SkipKeeps
    <3> QED BY <3>1, <3>2
  <2> HIDE DEF last
  <2>4. LoadOK(ended, Len(Lines) + 1) /\ ClosedOK(ended) /\ ended.events = last.events /\ IsLoad(ended)
    BY <1>4, <2>3, Closes
  <2> HIDE DEF ended
  <2>5. CASE format = "canonical" /\ pendingRaw = NoRaw
    <3>1. load' = ReportEmpty(ended) /\ last = EmptyLoad /\ RecordAt = {}
      BY <1>5, <1>6, <2>1, <2>5 DEF PendingUpTo, last
    <3>2. ended.events = << >>
      BY <2>4, <3>1 DEF EmptyLoad
    <3>3. IsLoad(load') /\ load'.events = << >> /\ Said(load')
      <4> DEFINE f == Finding("SL001", Raw(Blank, FALSE, FALSE, None, 1, 1, 0, 0))
      <4> HIDE DEF f
      <4>1. load' = [ended EXCEPT !.findings = Append(ended.findings, f)]
        BY <3>1 DEF ReportEmpty, Report, f
      <4>2. load'.events = ended.events /\ load'.findings = Append(ended.findings, f) /\ DOMAIN load' = DOMAIN ended
          /\ load'.closing = ended.closing
        BY <2>4, <4>1 DEF IsLoad, LoadFields
      <4>3. IsLoad(load') /\ load'.events = << >>
        BY <2>4, <3>2, <4>2, Appended DEF IsLoad
      <4>4. Said(ended)
        BY <2>4, ClosingIs DEF ClosedOK, LoadOK, WhereOK, IsLoad
      <4>5. f.code \in LineCodes
        BY DEF f, Finding, LineCodes
      <4>6. Coded(load')
        <5>1. /\ DOMAIN load'.findings = 1..(Len(ended.findings) + 1) /\ DOMAIN ended.findings = 1..Len(ended.findings)
              /\ Len(ended.findings) \in Nat
          BY <2>4, <4>2, Appended, LoadIs DEF IsLoad
        <5>2. load'.findings[Len(ended.findings) + 1] = f
              /\ \A k \in DOMAIN ended.findings : load'.findings[k] = ended.findings[k]
          BY <2>4, <4>2, <5>1, Appended DEF IsLoad
        <5>3. \A k \in DOMAIN load'.findings : k \in DOMAIN ended.findings \/ k = Len(ended.findings) + 1
          BY <5>1
        <5> QED BY <4>4, <4>5, <5>2, <5>3 DEF Said, Coded
      <4> QED BY <4>2, <4>3, <4>4, <4>6 DEF Said, IsLoad
    <3>4. RecordAt' = {} /\ format' = "canonical"
      BY <1>2, <2>5, <3>1, SameLines
    <3>5. IsLoad(load)' /\ Said(load)'
      BY <3>3 DEF IsLoad, Said, Coded
    <3>6. LoadedOK'
      BY <3>3, <3>4, <3>5 DEF LoadedOK
    <3> QED BY <2>2, <3>6
  <2>6. CASE ~(format = "canonical" /\ pendingRaw = NoRaw)
    <3>1. load' = ended
      BY <2>1, <2>6
    <3>2. LoadOK(load', Len(Lines) + 1) /\ ClosedOK(load')
      BY <2>4, <3>1
    <3>3. (\A L, n : LoadOK(L, n)' = LoadOK(L, n)) /\ (\A L : ClosedOK(L)' = ClosedOK(L))
      BY <1>2, SameLoad
    <3>4. LoadOK(load, Len(Lines) + 1)' /\ ClosedOK(load)'
      BY <1>2, <3>2, <3>3
    <3>5. LoadedOK'
      BY <3>4 DEF LoadedOK
    <3> QED BY <2>2, <3>5
  <2> QED BY <2>5, <2>6
<1> QED BY <1>7, <1>8

-----------------------------------------------------------------------------
(* Documents: each item gives an event in its place, or a finding.         *)

ItemCodes == {"SL001", "SL301", "SL302"}

\* What the first n items of a document have left.
Held(L, n, items) ==
  /\ IsLoad(L) /\ Coded(L)
  /\ \A i \in 1..n :
       IF items[i] = None
       THEN \E j \in DOMAIN L.findings : L.findings[j].code = "SL001" /\ L.findings[j].line = i
       ELSE \E k \in DOMAIN L.events : L.events[k].line = i
  /\ \A k \in DOMAIN L.events :
       format = "document" =>
         /\ L.events[k].parent = items[L.events[k].line].parent
         /\ items[L.events[k].line].id # None => L.events[k].id = items[L.events[k].line].id

\* What item i adds.
Added(K, X, i, item) ==
  /\ Grows(K, X, ItemRaw(i), ItemCodes)
  /\ item = None =>
       /\ X.events = K.events
       /\ \E j \in DOMAIN X.findings : X.findings[j].code = "SL001" /\ X.findings[j].line = i
  /\ item # None =>
       \E e : /\ X.events = Append(K.events, e) /\ e.line = i
              /\ format = "document" => e.parent = item.parent /\ (item.id # None => e.id = item.id)

LEMMA ItemTurn ==
  ASSUME NEW n \in Nat, NEW items, NEW K, NEW X, Held(K, n, items), Added(K, X, n + 1, items[n + 1])
  PROVE  Held(X, n + 1, items)
<1>1. IsLoad(K) /\ IsLoad(X)
  BY DEF Held, Added, Grows
<1>2. /\ Len(K.findings) \in Nat /\ DOMAIN K.findings = 1..Len(K.findings)
      /\ Len(K.events) \in Nat /\ DOMAIN K.events = 1..Len(K.events)
      /\ Len(X.findings) \in Nat /\ DOMAIN X.findings = 1..Len(X.findings)
      /\ Len(X.events) \in Nat /\ DOMAIN X.events = 1..Len(X.events)
  BY <1>1, LoadIs
<1>3. /\ \A j \in DOMAIN K.findings : j \in DOMAIN X.findings /\ X.findings[j] = K.findings[j]
      /\ \A k \in DOMAIN K.events : k \in DOMAIN X.events /\ X.events[k] = K.events[k]
  BY SMTT(20), <1>2 DEF Added, Grows
<1>4. ASSUME NEW i \in 1..n
      PROVE  IF items[i] = None
             THEN \E j \in DOMAIN X.findings : X.findings[j].code = "SL001" /\ X.findings[j].line = i
             ELSE \E k \in DOMAIN X.events : X.events[k].line = i
  BY <1>3 DEF Held
<1>0. Coded(X)
  <2>1. PICK raw, codes : raw = ItemRaw(n + 1) /\ codes = ItemCodes
    OBVIOUS
  <2>2. codes \subseteq LineCodes
    BY <2>1 DEF ItemCodes, LineCodes
  <2>3. Grows(K, X, raw, codes) /\ Coded(K)
    BY <2>1 DEF Added, Held
  <2> QED BY <1>1, <2>2, <2>3, CodedOn
<1>5. CASE items[n + 1] = None
  <2>1. X.events = K.events
        /\ \E j \in DOMAIN X.findings : X.findings[j].code = "SL001" /\ X.findings[j].line = n + 1
    BY <1>5 DEF Added
  <2>2. \A i \in 1..(n + 1) : i \in 1..n \/ i = n + 1
    OBVIOUS
  <2> QED BY <1>0, <1>1, <1>4, <1>5, <2>1, <2>2 DEF Held
<1>6. CASE items[n + 1] # None
  <2>1. PICK e : /\ X.events = Append(K.events, e) /\ e.line = n + 1
                 /\ format = "document" =>
                      /\ e.parent = items[n + 1].parent
                      /\ items[n + 1].id # None => e.id = items[n + 1].id
    BY <1>6 DEF Added
  <2>2. /\ DOMAIN X.events = 1..(Len(K.events) + 1) /\ X.events[Len(K.events) + 1] = e
    BY <1>1, <2>1, Appended DEF IsLoad
  <2>3. \E k \in DOMAIN X.events : X.events[k].line = n + 1
    <3>1. Len(K.events) + 1 \in DOMAIN X.events
      BY <1>2, <2>2
    <3> QED BY <2>1, <2>2, <3>1
  <2>4. ASSUME NEW k \in DOMAIN X.events, format = "document"
        PROVE  /\ X.events[k].parent = items[X.events[k].line].parent
               /\ items[X.events[k].line].id # None => X.events[k].id = items[X.events[k].line].id
    <3>1. CASE k = Len(K.events) + 1
      <4>1. X.events[k] = e
        BY <2>2, <3>1
      <4> QED BY <2>1, <2>4, <4>1
    <3>2. CASE k # Len(K.events) + 1
      <4>1. k \in DOMAIN K.events
        BY <1>2, <2>2, <3>2
      <4>2. X.events[k] = K.events[k]
        BY <1>3, <4>1
      <4> QED BY <2>4, <4>1, <4>2 DEF Held
    <3> QED BY <3>1, <3>2
  <2>5. \A i \in 1..(n + 1) : i \in 1..n \/ i = n + 1
    OBVIOUS
  <2> QED BY <1>0, <1>1, <1>4, <1>6, <2>3, <2>4, <2>5 DEF Held
<1> QED BY <1>5, <1>6

LEMMA ItemTurns ==
  ASSUME NEW at, NEW n \in Nat, NEW items, Held(at[0], 0, items),
         \A k \in Nat : k < n /\ IsLoad(at[k]) => Added(at[k], at[k + 1], k + 1, items[k + 1])
  PROVE  Held(at[n], n, items)
<1> DEFINE T == {k \in Nat : k <= n => Held(at[k], k, items)}
<1>1. 0 \in T
  OBVIOUS
<1>2. ASSUME NEW k \in Nat, k \in T PROVE k + 1 \in T
  <2> SUFFICES ASSUME k + 1 <= n PROVE Held(at[k + 1], k + 1, items)
    OBVIOUS
  <2>1. k < n /\ Held(at[k], k, items)
    BY <1>2
  <2>2. IsLoad(at[k])
    BY <2>1 DEF Held
  <2>3. Added(at[k], at[k + 1], k + 1, items[k + 1])
    BY <2>1, <2>2
  <2> QED BY <2>1, <2>3, ItemTurn
<1>3. Nat \subseteq T
  <2> HIDE DEF T
  <2> QED BY <1>1, <1>2, Lengths!NatSet
<1> QED BY <1>3

\* An item that is none is reported.
LEMMA NoneAdded ==
  ASSUME NEW K, IsLoad(K), NEW i
  PROVE  Added(K, Report(K, "SL001", ItemRaw(i)), i, None)
<1>1. PICK raw : raw = ItemRaw(i)
  OBVIOUS
<1>2. raw.line = i
  BY <1>1 DEF ItemRaw, Raw
<1>3. PICK codes : codes = ItemCodes
  OBVIOUS
<1>4. PICK code \in codes : code = "SL001"
  BY <1>3 DEF ItemCodes
<1>5. PICK X : X = Report(K, code, raw)
  OBVIOUS
<1>6. /\ Grows(K, X, raw, codes) /\ X.events = K.events
      /\ Len(X.findings) = Len(K.findings) + 1 /\ X.findings[Len(X.findings)] = Finding(code, raw)
  BY <1>5, ReportIs
<1>7. IsLoad(X)
  BY <1>6 DEF Grows
<1>8. Len(X.findings) \in DOMAIN X.findings
  BY <1>6, <1>7, LoadIs
<1>9. X.findings[Len(X.findings)].code = "SL001" /\ X.findings[Len(X.findings)].line = i
  BY <1>2, <1>4, <1>6 DEF Finding
<1>10. Added(K, X, i, None)
  BY <1>1, <1>3, <1>6, <1>8, <1>9 DEF Added
<1> QED BY <1>1, <1>4, <1>5, <1>10

EmptyHeld(L) == IsLoad(L) /\ Coded(L) /\ L.events = << >>

LEMMA NothingHeld ==
  ASSUME NEW L, EmptyHeld(L), NEW items
  PROVE  Held(L, 0, items)
<1>1. DOMAIN L.events = {}
  BY EmptySequence DEF EmptyHeld
<1>2. \A i : i \notin 1..0
  OBVIOUS
<1> QED BY <1>1, <1>2 DEF EmptyHeld, Held

LEMMA EmptyIs == EmptyHeld(EmptyLoad)
BY EmptySequence DEF EmptyHeld, EmptyLoad, IsLoad, LoadFields, Coded

\* So are findings alone.
LEMMA ReportedHeld ==
  ASSUME NEW L, EmptyHeld(L), NEW code \in LineCodes, NEW raw, NEW condition
  PROVE  EmptyHeld(Report(L, code, raw)) /\ EmptyHeld(ReportWhen(L, condition, code, raw))
<1>1. PICK codes : codes = LineCodes
  OBVIOUS
<1>2. IsLoad(L) /\ Coded(L) /\ L.events = << >> /\ code \in codes /\ codes \subseteq LineCodes
  BY <1>1 DEF EmptyHeld
<1>3. PICK M : M = Report(L, code, raw)
  OBVIOUS
<1>4. Grows(L, M, raw, codes) /\ M.events = L.events
  BY <1>2, <1>3, ReportIs
<1>5. Coded(M)
  BY <1>2, <1>4, CodedOn
<1>6. EmptyHeld(M)
  BY <1>2, <1>4, <1>5 DEF EmptyHeld, Grows
<1> QED BY <1>3, <1>6 DEF ReportWhen

LEMMA HeaderHeld ==
  ASSUME NEW L, EmptyHeld(L), NEW rec, NEW misfit, NEW raw
  PROVE  EmptyHeld(ProcessHeader(L, rec, misfit, raw))
<1>1. PICK codes : codes = LineCodes
  OBVIOUS
<1>2. {"SL001", "SL301", "SL302"} \subseteq codes /\ codes \subseteq LineCodes
  BY <1>1 DEF LineCodes
<1>3. IsLoad(L) /\ Coded(L) /\ L.events = << >>
  BY DEF EmptyHeld
<1>4. PICK M : M = ProcessHeader(L, rec, misfit, raw)
  OBVIOUS
<1>5. Reported(L, M, raw, codes)
  BY <1>2, <1>3, <1>4, HeaderReported
<1>6. Grows(L, M, raw, codes) /\ M.events = L.events
  BY <1>5 DEF Reported
<1>7. Coded(M)
  BY <1>2, <1>3, <1>6, CodedOn
<1> QED BY <1>3, <1>4, <1>6, <1>7 DEF EmptyHeld, Grows

LEMMA OpenHeld ==
  ASSUME NEW doc, NEW raw
  PROVE  EmptyHeld(OpenExport(doc, raw))
<1>1. PICK first, version, repeated : first = ItemRaw(1) /\ version = doc.version /\ repeated = (raw.text = "repeated")
  OBVIOUS
<1>2. PICK code, codes : code = "SL303" /\ codes = LineCodes
  OBVIOUS
<1>3. code \in LineCodes /\ "SL301" \in codes /\ codes \subseteq LineCodes
  BY <1>2 DEF LineCodes
<1>4. PICK listed : listed = ReportWhen(EmptyLoad, repeated, code, first)
  OBVIOUS
<1>5. PICK named : named = IF version = None THEN listed ELSE RegisterSynthetic(listed, ExportId)
  OBVIOUS
<1>6. PICK checked : checked = CheckVersion(named, version, first)
  OBVIOUS
<1>7. PICK opened : opened = ObserveVersion(checked, version, first)
  OBVIOUS
<1>8. OpenExport(doc, raw) = opened
  <2>1. ReportWhen(EmptyLoad, raw.text = "repeated", "SL303", ItemRaw(1)) = listed
    BY <1>1, <1>2, <1>4, Zenon
  <2> QED BY <1>1, <1>5, <1>6, <1>7, <2>1, Zenon DEF OpenExport
<1>9. EmptyHeld(listed)
  BY <1>3, <1>4, EmptyIs, ReportedHeld
<1>10. EmptyHeld(named)
  <2>1. IsLoad(listed)
    BY <1>9 DEF EmptyHeld
  <2>2. Quiet(listed, RegisterSynthetic(listed, ExportId))
    BY <2>1, RegisterIs
  <2>3. EmptyHeld(RegisterSynthetic(listed, ExportId))
    BY <1>9, <2>2 DEF EmptyHeld, Quiet, SameLists, Coded
  <2> QED BY <1>5, <1>9, <2>3
<1>11. EmptyHeld(checked)
  <2>1. IsLoad(named) /\ Coded(named) /\ named.events = << >>
    BY <1>10 DEF EmptyHeld
  <2>2. Grows(named, checked, first, codes) /\ Checked(named, checked, version)
    BY <1>3, <1>6, <2>1, CheckVersionIs
  <2>3. Coded(checked)
    BY <1>3, <2>1, <2>2, CodedOn
  <2> QED BY <2>1, <2>2, <2>3 DEF Checked, Grows, EmptyHeld
<1>12. Observed(checked, opened, version)
  BY <1>7, <1>11, ObserveVersionIs DEF EmptyHeld
<1>13. EmptyHeld(opened)
  BY <1>11, <1>12 DEF Observed, SameLists, EmptyHeld, Coded
<1> QED BY <1>8, <1>13

\* More items than records are allowed: nothing is returned.
LEMMA TooManyHeld ==
  ASSUME NEW M, M = [EmptyLoad EXCEPT !.raised = TRUE]
  PROVE  EmptyHeld(M) /\ M.raised = TRUE
<1>1. EmptyHeld(EmptyLoad)
  BY EmptyIs
<1>2. /\ DOMAIN M = LoadFields /\ M.events = EmptyLoad.events /\ M.findings = EmptyLoad.findings
      /\ M.raised = TRUE
  BY <1>1 DEF EmptyHeld, IsLoad, LoadFields
<1> QED BY <1>1, <1>2 DEF EmptyHeld, IsLoad, Coded

-----------------------------------------------------------------------------
(* An export.                                                              *)

OneItem(items, unused, L, i) ==
  IF items[i] = None THEN Report(L, "SL001", ItemRaw(i))
  ELSE ProcessItem(L, items[i], ItemRaw(i))
Items == INSTANCE FoldFacts WITH Op <- OneItem

LEMMA OneItemAdded ==
  ASSUME NEW K, IsLoad(K), NEW items, NEW i
  PROVE  Added(K, OneItem(items, items, K, i), i, items[i])
<1>1. PICK raw : raw = ItemRaw(i)
  OBVIOUS
<1>2. ItemRaw(i) = raw /\ raw.line = i
  BY <1>1 DEF ItemRaw, Raw
<1>3. CASE items[i] = None
  <2>1. OneItem(items, items, K, i) = Report(K, "SL001", ItemRaw(i))
    BY <1>1, <1>2, <1>3 DEF OneItem
  <2> QED BY <1>3, <2>1, NoneAdded
<1>4. CASE items[i] # None
  <2>1. PICK rec, codes : rec = items[i] /\ codes = ItemCodes
    OBVIOUS
  <2>2. {"SL301", "SL302"} \subseteq codes
    BY <2>1 DEF ItemCodes
  <2>3. PICK X : X = ProcessItem(K, rec, raw)
    OBVIOUS
  <2>4. ItemDone(K, X, raw, rec, codes)
    BY <2>2, <2>3, ItemIs
  <2>5. OneItem(items, items, K, i) = X
    BY <1>2, <1>4, <2>1, <2>3 DEF OneItem
  <2>6. PICK e : e = X.events[Len(K.events) + 1]
    OBVIOUS
  <2>7. /\ Grows(K, X, raw, codes) /\ X.events = Append(K.events, e) /\ e.line = i
        /\ e.parent = rec.parent /\ (rec.id # None => e.id = rec.id)
    BY <1>2, <2>4, <2>6 DEF ItemDone
  <2>8. Added(K, X, i, rec)
    BY <1>1, <1>4, <2>1, <2>7 DEF Added
  <2> QED BY <2>1, <2>5, <2>8
<1> QED BY <1>3, <1>4

LEMMA ExportHeld ==
  ASSUME NEW doc, IsSequence(doc.items), NEW raw, ~IsDefect(raw), ~(Len(doc.items) > MaxRecords)
  PROVE  Held(LoadExport(doc, raw), Len(doc.items), doc.items)
<1>1. PICK items : items = doc.items
  OBVIOUS
<1>2. PICK n \in Nat : n = Len(items)
  BY <1>1, SequenceIs
<1>3. PICK seq : seq = [i \in 1..n |-> i]
  OBVIOUS
<1>4. DOMAIN seq = 1..Len(seq) /\ Len(seq) = n /\ \A k \in 1..n : seq[k] = k
  BY <1>3, Listed
<1>5. PICK opened : opened = OpenExport(doc, raw)
  OBVIOUS
<1>8. LoadExport(doc, raw) = Items!Fold(items, items, opened, seq)
  <2>1. ~IsDefect(raw) /\ ~(Len(doc.items) > MaxRecords)
    OBVIOUS
  <2>2. LoadExport(doc, raw) =
          Items!Fold(doc.items, doc.items, OpenExport(doc, raw), [i \in 1..Len(doc.items) |-> i])
    BY <2>1 DEF LoadExport, FoldLeft, MapThenFoldSet, Max,
             Items!Fold, Items!MapThenFoldSet, Items!Max, OneItem
  <2> QED BY <1>1, <1>2, <1>3, <1>5, <2>2
<1>9. PICK at : Items!Turns(items, items, opened, seq, at) /\ at[Len(seq)] = Items!Fold(items, items, opened, seq)
  BY <1>2, <1>4, Items!FoldTurns
<1>10. Held(at[0], 0, items)
  <2>1. EmptyHeld(opened)
    BY <1>5, OpenHeld
  <2>2. at[0] = opened
    BY <1>9 DEF Items!Turns
  <2> QED BY <2>1, <2>2, NothingHeld
<1>11. ASSUME NEW k \in Nat, k < n, IsLoad(at[k]) PROVE Added(at[k], at[k + 1], k + 1, items[k + 1])
  <2>1. k + 1 \in 1..n
    BY <1>11
  <2>2. at[k + 1] = OneItem(items, items, at[k], seq[k + 1])
    BY <1>4, <1>9, <1>11 DEF Items!Turns
  <2>3. at[k + 1] = OneItem(items, items, at[k], k + 1)
    BY <1>4, <2>1, <2>2
  <2> QED BY <1>11, <2>3, OneItemAdded
<1>12. Held(at[n], n, items)
  BY <1>10, <1>11, ItemTurns
<1> QED BY <1>1, <1>2, <1>4, <1>8, <1>9, <1>12

-----------------------------------------------------------------------------
(* A canonical session in one document.                                    *)

OneRecord(items, unused, L, i) ==
  IF items[i] = None THEN Report(L, "SL001", ItemRaw(i))
  ELSE ParseRecord(L, items[i], i - 1, ItemRaw(i))
Parts == INSTANCE FoldFacts WITH Op <- OneRecord

LEMMA OneRecordAdded ==
  ASSUME NEW K, IsLoad(K), NEW items, NEW i, format # "document"
  PROVE  Added(K, OneRecord(items, items, K, i), i, items[i])
<1>1. PICK raw : raw = ItemRaw(i)
  OBVIOUS
<1>2. ItemRaw(i) = raw /\ raw.line = i
  BY <1>1 DEF ItemRaw, Raw
<1>3. CASE items[i] = None
  <2>1. OneRecord(items, items, K, i) = Report(K, "SL001", ItemRaw(i))
    BY <1>1, <1>2, <1>3 DEF OneRecord
  <2> QED BY <1>3, <2>1, NoneAdded
<1>4. CASE items[i] # None
  <2>1. PICK rec, codes, index : rec = items[i] /\ codes = ItemCodes /\ index = i - 1
    OBVIOUS
  <2>2. {"SL001", "SL302"} \subseteq codes
    BY <2>1 DEF ItemCodes
  <2>3. PICK X : X = ParseRecord(K, rec, index, raw)
    OBVIOUS
  <2>4. Parsed(K, X, raw, codes)
    BY <2>2, <2>3, ParsedIs
  <2>5. OneRecord(items, items, K, i) = X
    BY <1>2, <1>4, <2>1, <2>3 DEF OneRecord
  <2>6. PICK e : e = X.events[Len(K.events) + 1]
    OBVIOUS
  <2>7. Grows(K, X, raw, codes) /\ X.events = Append(K.events, e) /\ e.line = i
    BY <1>2, <2>4, <2>6 DEF Parsed
  <2>8. Added(K, X, i, rec)
    BY <1>1, <1>4, <2>1, <2>7 DEF Added
  <2> QED BY <2>1, <2>5, <2>8
<1> QED BY <1>3, <1>4

LEMMA SessionHeld ==
  ASSUME NEW doc, IsSequence(doc.items), NEW raw, ~IsDefect(raw), ~doc.refused, ~doc.unlisted,
         ~(Len(doc.items) > MaxRecords), format # "document"
  PROVE  Held(LoadSessionDocument(doc, raw), Len(doc.items), doc.items)
<1>1. PICK items : items = doc.items
  OBVIOUS
<1>2. PICK n \in Nat : n = Len(items)
  BY <1>1, SequenceIs
<1>3. PICK seq : seq = [i \in 1..n |-> i]
  OBVIOUS
<1>4. DOMAIN seq = 1..Len(seq) /\ Len(seq) = n /\ \A k \in 1..n : seq[k] = k
  BY <1>3, Listed
<1>5. PICK opened : opened = ReportWhen(EmptyLoad, raw.text = "repeated", "SL303", ItemRaw(1))
  OBVIOUS
<1>6. PICK headed : headed = ProcessHeader(opened, doc, doc.misfit, ItemRaw(1))
  OBVIOUS
<1>7. LoadSessionDocument(doc, raw) = Parts!Fold(items, items, headed, seq)
  <2>1. ~IsDefect(raw) /\ ~doc.refused /\ ~doc.unlisted /\ ~(Len(doc.items) > MaxRecords)
    OBVIOUS
  <2>2. LoadSessionDocument(doc, raw) =
          Parts!Fold(doc.items, doc.items,
                     ProcessHeader(ReportWhen(EmptyLoad, raw.text = "repeated", "SL303", ItemRaw(1)),
                                   doc, doc.misfit, ItemRaw(1)),
                     [i \in 1..Len(doc.items) |-> i])
    BY <2>1 DEF LoadSessionDocument, FoldLeft, MapThenFoldSet, Max,
             Parts!Fold, Parts!MapThenFoldSet, Parts!Max, OneRecord
  <2>3. ProcessHeader(ReportWhen(EmptyLoad, raw.text = "repeated", "SL303", ItemRaw(1)),
                      doc, doc.misfit, ItemRaw(1)) = headed
    BY <1>5, <1>6, Zenon
  <2> QED BY <1>1, <1>2, <1>3, <2>2, <2>3
<1>8. PICK at : Parts!Turns(items, items, headed, seq, at) /\ at[Len(seq)] = Parts!Fold(items, items, headed, seq)
  BY <1>2, <1>4, Parts!FoldTurns
<1>9. Held(at[0], 0, items)
  <2>1. PICK code, repeated, first, misfit :
           /\ code = "SL303" /\ repeated = (raw.text = "repeated") /\ first = ItemRaw(1)
           /\ misfit = doc.misfit
    OBVIOUS
  <2>2. EmptyHeld(opened)
    <3>1. code \in LineCodes
      BY <2>1 DEF LineCodes
    <3>2. EmptyHeld(ReportWhen(EmptyLoad, repeated, code, first))
      BY <3>1, EmptyIs, ReportedHeld
    <3> QED BY <1>5, <2>1, <3>2, Zenon
  <2>3. EmptyHeld(ProcessHeader(opened, doc, misfit, first))
    BY <2>2, HeaderHeld
  <2>4. EmptyHeld(headed)
    BY <1>6, <2>1, <2>3, Zenon
  <2>5. at[0] = headed
    BY <1>8 DEF Parts!Turns
  <2> QED BY <2>4, <2>5, NothingHeld
<1>10. ASSUME NEW k \in Nat, k < n, IsLoad(at[k]) PROVE Added(at[k], at[k + 1], k + 1, items[k + 1])
  <2>1. k + 1 \in 1..n
    BY <1>10
  <2>2. at[k + 1] = OneRecord(items, items, at[k], seq[k + 1])
    BY <1>4, <1>8, <1>10 DEF Parts!Turns
  <2>3. at[k + 1] = OneRecord(items, items, at[k], k + 1)
    BY <1>4, <2>1, <2>2
  <2> QED BY <1>10, <2>3, OneRecordAdded
<1>11. Held(at[n], n, items)
  BY <1>9, <1>10, ItemTurns
<1> QED BY <1>1, <1>2, <1>4, <1>7, <1>8, <1>11

LEMMA EndIs ==
  ASSUME NEW L, IsLoad(L), NEW total
  PROVE  /\ IsLoad(EndLoad(L, total)) /\ EndLoad(L, total).events = L.events
         /\ EndLoad(L, total).findings = L.findings /\ (L.raised = TRUE => EndLoad(L, total).raised)
         /\ Coded(L) => Said(EndLoad(L, total))
<1>1. PICK tail, closing, raised : /\ tail = FinalizeTail(L.tail, total, TornOffsets(L))
                                   /\ closing = DriftFindings(L) \cup UnknownFindings(L)
                                   /\ raised = (L.raised \/ ~NoCollision(L))
  OBVIOUS
<1>2. PICK E : E = [L EXCEPT !.tail = tail, !.closing = closing, !.raised = raised]
  OBVIOUS
<1>3. EndLoad(L, total) = E
  BY <1>1, <1>2 DEF EndLoad
<1>4. DOMAIN E = LoadFields /\ E.events = L.events /\ E.findings = L.findings /\ E.raised = raised /\ E.closing = closing
  BY <1>2 DEF IsLoad, LoadFields
<1>5. IsLoad(E)
  BY <1>4 DEF IsLoad
<1>6. ASSUME Coded(L) PROVE Said(E)
  <2>1. \A f \in closing : f.code \in {"SL304", "SL306"}
    BY <1>1 DEF DriftFindings, UnknownFindings
  <2> QED BY <1>4, <1>5, <1>6, <2>1 DEF Said, Coded, IsLoad
<1> QED BY <1>1, <1>3, <1>4, <1>5, <1>6

\* What is held of a document accounts for its items and keeps them in their place.
LEMMA HeldIs ==
  ASSUME NEW L, NEW items, IsSequence(items), Held(L, Len(items), items)
  PROVE  /\ \A i \in DOMAIN items :
              IF items[i] = None THEN \E f \in ToSet(L.findings) : f.code = "SL001" /\ f.line = i
                                 ELSE \E e \in ToSet(L.events) : e.line = i
         /\ format = "document" =>
              \A e \in ToSet(L.events) :
                e.parent = items[e.line].parent /\ (items[e.line].id # None => e.id = items[e.line].id)
<1>1. DOMAIN items = 1..Len(items)
  BY SequenceIs
<1>2. ASSUME NEW i \in DOMAIN items
      PROVE  IF items[i] = None THEN \E f \in ToSet(L.findings) : f.code = "SL001" /\ f.line = i
                                ELSE \E e \in ToSet(L.events) : e.line = i
  <2>1. IF items[i] = None
        THEN \E j \in DOMAIN L.findings : L.findings[j].code = "SL001" /\ L.findings[j].line = i
        ELSE \E k \in DOMAIN L.events : L.events[k].line = i
    BY <1>1 DEF Held
  <2>2. CASE items[i] = None
    <3>1. PICK j \in DOMAIN L.findings : L.findings[j].code = "SL001" /\ L.findings[j].line = i
      BY <2>1, <2>2
    <3>2. L.findings[j] \in ToSet(L.findings)
      BY DEF ToSet
    <3> QED BY <2>2, <3>1, <3>2
  <2>3. CASE items[i] # None
    <3>1. PICK k \in DOMAIN L.events : L.events[k].line = i
      BY <2>1, <2>3
    <3>2. L.events[k] \in ToSet(L.events)
      BY DEF ToSet
    <3> QED BY <2>3, <3>1, <3>2
  <2> QED BY <2>2, <2>3
<1>3. ASSUME format = "document", NEW e \in ToSet(L.events)
      PROVE  e.parent = items[e.line].parent /\ (items[e.line].id # None => e.id = items[e.line].id)
  <2>1. PICK k \in DOMAIN L.events : e = L.events[k]
    BY DEF ToSet
  <2> QED BY <1>3, <2>1 DEF Held
<1> QED BY <1>2, <1>3

LEMMA DocumentKeeps ==
  ASSUME FileOK, LoadDocument
  PROVE  pc' \in {"raised", "done"} /\ (pc' = "done" => (ItemsAccounted /\ KeepsItsPlace /\ Said(load))')
<1>1. PICK doc, raw, M :
        /\ doc = source[1].rec
        /\ raw = Raw(TextOf(source, [line |-> 1, from |-> 0, to |-> source[1].have]),
                     FALSE, FALSE, None, 1, 1, 0, 0)
        /\ M = IF format = "document" THEN LoadExport(doc, raw) ELSE LoadSessionDocument(doc, raw)
  OBVIOUS
<1>2. /\ pc = "read" /\ format \in Documents /\ load' = EndLoad(M, 0)
      /\ pc' = IF load'.raised THEN "raised" ELSE "done"
      /\ format' = format /\ source' = source
  BY <1>1 DEF LoadDocument
<1>3. format \notin Live /\ Lines = source /\ Lines' = source
  BY <1>2 DEF Documents, Live, Lines
<1>4. IsSequence(doc.items)
  <2>1. FileFits(source)
    BY <1>2, <1>3 DEF FileOK, AtWork
  <2> QED BY <1>1, <1>2, <2>1 DEF FileFits
<1>5. LineText(1)' = raw.text /\ raw.truncated = FALSE
  BY <1>1, <1>3 DEF LineText, Raw
\* A document that is read: what is said of its items.
<1>6. PICK whole \in BOOLEAN :
        whole <=> /\ raw.text \in {"object", "repeated"}
                  /\ format = "session" => ~doc.refused /\ ~doc.unlisted
  OBVIOUS
<1>61. whole => ~IsDefect(raw)
  BY <1>5, <1>6 DEF IsDefect, Undecodable, Decodes
<1>62. PICK first, code, other : first = ItemRaw(1) /\ code = "SL001" /\ other = "SL303"
  OBVIOUS
<1>63. code \in LineCodes /\ other \in LineCodes
  BY <1>62 DEF LineCodes
<1>64. EmptyHeld(EmptyLoad) /\ EmptyHeld(Report(EmptyLoad, code, first))
  BY <1>63, EmptyIs, ReportedHeld
<1>65. ASSUME M = [EmptyLoad EXCEPT !.raised = TRUE] PROVE load'.raised
  <2>1. IsLoad(M) /\ M.raised = TRUE
    BY <1>65, TooManyHeld DEF EmptyHeld
  <2> QED BY <1>2, <2>1, EndIs
<1>7. ASSUME ~load'.raised
      PROVE  /\ EmptyHeld(M) \/ Held(M, Len(doc.items), doc.items)
             /\ whole => Held(M, Len(doc.items), doc.items)
  <2>1. CASE format = "document"
    <3>1. M = LoadExport(doc, raw)
      BY <1>1, <2>1
    <3>2. CASE IsDefect(raw)
      <4>1. M = Report(EmptyLoad, "SL001", ItemRaw(1))
        BY <3>1, <3>2 DEF LoadExport
      <4>2. EmptyHeld(M)
        BY <1>62, <1>64, <4>1, Zenon
      <4> QED BY <1>61, <3>2, <4>2
    <3>3. CASE ~IsDefect(raw) /\ Len(doc.items) > MaxRecords
      <4>1. M = [EmptyLoad EXCEPT !.raised = TRUE]
        BY <3>1, <3>3 DEF LoadExport
      <4> QED BY <1>7, <1>65, <4>1
    <3>4. CASE ~IsDefect(raw) /\ ~(Len(doc.items) > MaxRecords)
      BY <1>4, <3>1, <3>4, ExportHeld
    <3> QED BY <3>2, <3>3, <3>4
  <2>2. CASE format = "session"
    <3>1. M = LoadSessionDocument(doc, raw) /\ format # "document"
      BY <1>1, <2>2
    <3>2. PICK opened : opened = ReportWhen(EmptyLoad, raw.text = "repeated", "SL303", ItemRaw(1))
      OBVIOUS
    <3>3. PICK headed : headed = ProcessHeader(opened, doc, doc.misfit, ItemRaw(1))
      OBVIOUS
    <3>4. EmptyHeld(opened) /\ EmptyHeld(Report(opened, code, first))
      <4>1. PICK repeated : repeated = (raw.text = "repeated")
        OBVIOUS
      <4>2. EmptyHeld(ReportWhen(EmptyLoad, repeated, other, first))
        BY <1>63, EmptyIs, ReportedHeld
      <4>3. EmptyHeld(opened)
        BY <1>62, <3>2, <4>1, <4>2, Zenon
      <4> QED BY <1>63, <4>3, ReportedHeld
    <3>5. EmptyHeld(Report(headed, code, first))
      <4>1. PICK misfit : misfit = doc.misfit
        OBVIOUS
      <4>2. EmptyHeld(ProcessHeader(opened, doc, misfit, first))
        BY <3>4, HeaderHeld
      <4>3. EmptyHeld(headed)
        BY <1>62, <3>3, <4>1, <4>2, Zenon
      <4> QED BY <1>63, <4>3, ReportedHeld
    <3>6. CASE IsDefect(raw)
      <4>1. M = Report(EmptyLoad, "SL001", ItemRaw(1))
        BY <3>1, <3>6 DEF LoadSessionDocument
      <4>2. EmptyHeld(M)
        BY <1>62, <1>64, <4>1, Zenon
      <4> QED BY <1>61, <3>6, <4>2
    <3>7. CASE ~IsDefect(raw) /\ doc.refused
      <4>1. M = Report(opened, "SL001", ItemRaw(1))
        BY <3>1, <3>2, <3>7 DEF LoadSessionDocument
      <4>2. EmptyHeld(M)
        BY <1>62, <3>4, <4>1, Zenon
      <4> QED BY <1>6, <2>2, <3>7, <4>2
    <3>8. CASE ~IsDefect(raw) /\ ~doc.refused /\ doc.unlisted
      <4>1. M = Report(headed, "SL001", ItemRaw(1))
        BY <3>1, <3>2, <3>3, <3>8 DEF LoadSessionDocument
      <4>2. EmptyHeld(M)
        BY <1>62, <3>5, <4>1, Zenon
      <4> QED BY <1>6, <2>2, <3>8, <4>2
    <3>9. CASE ~IsDefect(raw) /\ ~doc.refused /\ ~doc.unlisted /\ Len(doc.items) > MaxRecords
      <4>1. M = [EmptyLoad EXCEPT !.raised = TRUE]
        BY <3>1, <3>9 DEF LoadSessionDocument
      <4> QED BY <1>7, <1>65, <4>1
    <3>10. CASE ~IsDefect(raw) /\ ~doc.refused /\ ~doc.unlisted /\ ~(Len(doc.items) > MaxRecords)
      BY <1>4, <3>1, <3>10, SessionHeld
    <3> QED BY <3>6, <3>7, <3>8, <3>9, <3>10
  <2> QED BY <1>2, <2>1, <2>2 DEF Documents
<1>8. ASSUME pc' = "done" PROVE (ItemsAccounted /\ KeepsItsPlace /\ Said(load))'
  <2>1. ~load'.raised
    BY <1>2, <1>8
  <2>2. PICK items : items = doc.items
    OBVIOUS
  <2>3. ItemsAccounted'
    <3> SUFFICES ASSUME whole
                 PROVE  \A i \in DOMAIN items :
                          IF items[i] = None
                          THEN Overflows' \/ \E f \in ToSet(load'.findings) : f.code = "SL001" /\ f.line = i
                          ELSE \E e \in ToSet(load'.events) : e.line = i
      <4>1. PICK kept : kept = Returned'
        OBVIOUS
      <4>2. Overflows' <=> kept # load'.findings
        BY <4>1 DEF Overflows
      <4> QED BY <1>1, <1>2, <1>5, <1>6, <2>2, <4>1, <4>2 DEF ItemsAccounted
    <3>1. Held(M, Len(items), items)
      BY <1>7, <2>1, <2>2
    <3>2. load'.findings = M.findings /\ load'.events = M.events
      <4>1. IsLoad(M)
        BY <3>1 DEF Held
      <4> QED BY <1>2, <4>1, EndIs
    <3> QED BY <1>4, <2>2, <3>1, <3>2, HeldIs
  <2>4. KeepsItsPlace'
    <3> SUFFICES ASSUME format = "document"
                 PROVE  KeepsItsPlace'
      BY <1>2 DEF KeepsItsPlace, Documents
    <3>1. IsLoad(M) /\ (M.events = << >> \/ Held(M, Len(items), items))
      BY <1>7, <2>1, <2>2 DEF Held, EmptyHeld
    <3>2. load'.events = M.events
      BY <1>2, <3>1, EndIs
    <3>3. CASE M.events = << >>
      <4>1. ToSet(load'.events) = {}
        BY <3>2, <3>3, EmptySequence DEF ToSet
      <4> QED BY <4>1 DEF KeepsItsPlace
    <3>4. CASE Held(M, Len(items), items)
      <4>1. \A e \in ToSet(load'.events) :
              e.parent = items[e.line].parent /\ (items[e.line].id # None => e.id = items[e.line].id)
        BY <1>4, <2>2, <3>2, <3>4, HeldIs
      <4>2. \A e : RecOf(e)' = items[e.line]
        BY <1>1, <1>2, <2>2 DEF RecOf
      <4> QED BY <4>1, <4>2 DEF KeepsItsPlace
    <3> QED BY <3>1, <3>3, <3>4
  <2>5. Said(load')
    <3>1. IsLoad(M) /\ Coded(M)
      BY <1>7, <2>1 DEF Held, EmptyHeld
    <3> QED BY <1>2, <3>1, EndIs
  <2> QED BY <2>3, <2>4, <2>5
<1> QED BY <1>2, <1>8

-----------------------------------------------------------------------------
(* The invariant holds at first, and every step keeps it.                  *)

LEMMA AfterSelf ==
  ASSUME NEW f, IsFile(f)
  PROVE  After(f, f)
<1>1. Len(f) \in Nat /\ DOMAIN f = 1..Len(f) /\ \A i \in DOMAIN f : f[i].have \in Nat
  BY LineIs
<1> QED BY <1>1 DEF After

LEMMA FitsSame ==
  ASSUME format' = format, NEW f, FileFits(f)
  PROVE  FileFits(f)'
BY DEF FileFits

LEMMA PositionSame ==
  ASSUME Lines' = Lines, format' = format, pc' = pc, PositionOK,
         pos' = pos, totalBytes' = totalBytes, lineNumber' = lineNumber, drained' = drained
  PROVE  PositionOK'
<1>1. OfLine(drained, pos[1])' = OfLine(drained, pos[1])
  <2>1. PICK raw, m : raw = drained /\ m = pos[1]
    OBVIOUS
  <2>2. OfLine(raw, m)' = OfLine(raw, m)
    BY SameLoad
  <2>3. raw' = drained' /\ m' = pos[1]'
    BY <2>1
  <2> QED BY <2>1, <2>2, <2>3, SameLines DEF OfLine
<1> QED BY <1>1 DEF PositionOK, IsRaw

\* The reader has begun.
LEMMA OpenedKeeps ==
  ASSUME IsFile(Lines'), pc' = "read", pos' = <<1, 0>>, lineNumber' = 0, totalBytes' = 0, recordCount' = 0,
         pendingRaw' = NoRaw, load' = EmptyLoad
  PROVE  PositionOK' /\ PendingOK'
<1>1. /\ Len(Lines') \in Nat /\ DOMAIN Lines' = 1..Len(Lines') /\ OffsetOf(Lines', 1) = 0
  BY LineIs
<1>2. \A j \in RecordAt' : j \in 1..Len(Lines')
  BY <1>1 DEF RecordAt
<1>3. OrdinalAt(0)' = 0
  <2>1. {j \in RecordAt' : j <= 0} = {}
    BY <1>1, <1>2
  <2> QED BY <2>1, FS_EmptySet DEF OrdinalAt
<1>4. \A j \in RecordAt' : j > 0
  BY <1>1, <1>2
<1>5. PositionOK'
  <2>1. pos'[1] = 1 /\ pos'[2] = 0 /\ pos' = <<pos'[1], pos'[2]>>
    OBVIOUS
  <2> QED BY <1>1, <2>1 DEF PositionOK
<1>6. PendingUpTo(0)'
  BY <1>3, <1>4 DEF PendingUpTo
<1> QED BY <1>5, <1>6 DEF PendingOK

LEMMA InitReads ==
  ASSUME Init
  PROVE  ReadInv
<1>1. PICK s \in Scenarios : format = s.format /\ file = s.file
  BY DEF Init
<1>2. /\ pc = "new" /\ touched = FALSE /\ mapped = None /\ pos = <<1, 0>> /\ lineNumber = 0 /\ totalBytes = 0
      /\ recordCount = 0 /\ pendingRaw = NoRaw /\ load = EmptyLoad
      /\ guard = [size |-> 0, stamp |-> 0, content |-> None]
  BY DEF Init
<1>3. /\ format \in Formats /\ IsFile(file)
      /\ format \in Documents => file # << >> /\ IsSequence(file[1].rec.items)
      /\ format = "claude" => \A line \in ToSet(file) \cup NewLines : IsRecord(line.rec)
  BY <1>1, ScenarioAssumption
<1>4. FileFits(file)
  <2>1. \A i \in DOMAIN file : file[i] \in ToSet(file)
    BY DEF ToSet
  <2> QED BY <1>3, <2>1 DEF FileFits
<1>5. pc \notin AtWork /\ pc \notin Loaded /\ pc # "done" /\ pc # "verified"
  BY <1>2 DEF AtWork, Loaded
<1>6. FileOK
  BY <1>3, <1>4, <1>5 DEF FileOK
<1>7. GuardOK
  BY <1>2 DEF GuardOK
<1>8. StartOK
  BY <1>2 DEF StartOK
<1> QED BY <1>5, <1>6, <1>7, <1>8 DEF ReadInv, ReaderOK, LoadedOK, DocumentOK

\* The agent writes.
LEMMA AgentKeeps ==
  ASSUME ReadInv, Agent
  PROVE  ReadInv'
<1>1. /\ pc \notin Final /\ touched' = (touched \/ ~(pc \in Waiting))
      /\ UNCHANGED <<format, guard, pc, source, mapped, pos, counters, pendingRaw, drained, load>>
  BY DEF Agent, AppendPart, AppendRest, Rewrite, Write, Waiting
<1>2. /\ format' = format /\ guard' = guard /\ pc' = pc /\ source' = source /\ mapped' = mapped /\ pos' = pos
      /\ lineNumber' = lineNumber /\ totalBytes' = totalBytes /\ recordCount' = recordCount
      /\ pendingRaw' = pendingRaw /\ drained' = drained /\ load' = load
  BY <1>1 DEF counters
<1>3. FileOK /\ GuardOK /\ StartOK /\ ReaderOK /\ LoadedOK /\ IsFile(file)
  BY DEF ReadInv, FileOK, FileFits
<1>4. /\ Moved(file, file') /\ IsFile(file')
      /\ Len(file) <= Len(file') /\ \A i \in DOMAIN file : file'[i].rec = file[i].rec
      /\ \A i \in DOMAIN file' : i \notin DOMAIN file => \E line \in NewLines : file'[i].rec = line.rec
  BY <1>3, WriteMoves
<1>5. pc \in AtWork \cup Loaded => touched' = TRUE
  BY <1>1 DEF AtWork, Loaded, Waiting
<1>6. FileOK'
  <2>1. FileFits(file)'
    <3>1. ASSUME format \in Documents PROVE file' # << >> /\ IsSequence(file'[1].rec.items)
      <4>1. /\ file # << >> /\ IsSequence(file[1].rec.items)
        BY <1>3, <3>1 DEF FileOK, FileFits
      <4>2. /\ Len(file) \in Nat /\ DOMAIN file = 1..Len(file) /\ Len(file') \in Nat
        BY <1>3, <1>4, LineIs
      <4>3. Len(file) # 0
        BY <1>3, <4>1 DEF IsFile, IsSequence
      <4>4. 1 \in DOMAIN file /\ Len(file') # 0
        BY <1>4, <4>2, <4>3
      <4>5. file' # << >>
        BY <4>4, EmptySequence
      <4> QED BY <1>4, <4>1, <4>4, <4>5
    <3>2. ASSUME format = "claude", NEW i \in DOMAIN file' PROVE IsRecord(file'[i].rec)
      <4>1. CASE i \in DOMAIN file
        BY <1>3, <1>4, <3>2, <4>1 DEF FileOK, FileFits
      <4>2. CASE i \notin DOMAIN file
        BY <1>3, <1>4, <3>2, <4>2 DEF FileOK
      <4> QED BY <4>1, <4>2
    <3> QED BY <1>2, <1>4, <3>1, <3>2 DEF FileFits
  <2>2. pc \in AtWork \cup Loaded /\ format \notin Live => FileFits(source)'
    BY <1>2, <1>3, FitsSame DEF FileOK, FileFits
  <2> QED BY <1>2, <1>3, <1>5, <2>1, <2>2 DEF FileOK
<1>7. GuardOK'
  <2>1. ASSUME format = "events", pc \notin {"new", "stat"}
        PROVE  IsFile(guard.content) /\ After(guard.content, file') /\ Moved(guard.content, file')
    <3>1. IsFile(guard.content) /\ After(guard.content, file)
      BY <1>3, <2>1 DEF GuardOK
    <3>2. PICK f, g, h : f = guard.content /\ g = file /\ h = file'
      OBVIOUS
    <3>3. Moved(f, h)
      BY <1>3, <1>4, <3>1, <3>2, MovedOn
    <3> QED BY <3>1, <3>2, <3>3 DEF Moved
  <2>2. pc # "verified"
    BY <1>1 DEF Final
  <2> QED BY <1>2, <1>3, <2>1, <2>2 DEF GuardOK
<1>8. StartOK'
  BY <1>1, <1>2, <1>3 DEF StartOK
<1>9. ASSUME Steady', pc \in AtWork \cup Loaded PROVE Steady /\ Lines' = Lines
  BY <1>2, <1>5, <1>9 DEF Steady, Lines
<1>10. ReaderOK'
  <2> SUFFICES ASSUME Streamed, Steady', pc \in AtWork PROVE PositionOK' /\ PendingOK'
    BY <1>2 DEF ReaderOK, Streamed
  <2>1. Steady /\ Lines' = Lines /\ PositionOK /\ PendingOK
    BY <1>3, <1>9 DEF ReaderOK
  <2>2. PositionOK'
    BY <1>2, <2>1, PositionSame
  <2>3. PICK a : a = IF pc = "read" THEN lineNumber ELSE lineNumber - 1
    OBVIOUS
  <2>4. PendingUpTo(a)'
    BY <1>2, <2>1, <2>3, PendingSame DEF PendingOK
  <2> QED BY <1>2, <2>2, <2>3, <2>4 DEF PendingOK, PendingUpTo
<1>11. LoadedOK'
  <2> SUFFICES ASSUME Streamed, Steady', pc \in Loaded
               PROVE  (\/ LoadOK(load, Len(Lines) + 1) /\ ClosedOK(load)
                       \/ format = "canonical" /\ RecordAt = {} /\ IsLoad(load) /\ Said(load) /\ load.events = << >>)'
    BY <1>2 DEF LoadedOK, Streamed
  <2>1. Steady /\ Lines' = Lines
    BY <1>9
  <2>2. \/ LoadOK(load, Len(Lines) + 1) /\ ClosedOK(load)
        \/ format = "canonical" /\ RecordAt = {} /\ IsLoad(load) /\ Said(load) /\ load.events = << >>
    BY <1>3, <2>1 DEF LoadedOK
  <2>3. (\A L, n : LoadOK(L, n)' = LoadOK(L, n)) /\ (\A L : ClosedOK(L)' = ClosedOK(L)) /\ RecordAt' = RecordAt
    BY <1>2, <2>1, SameLoad, SameLines
  <2>4. /\ LoadOK(load, Len(Lines) + 1)' = LoadOK(load, Len(Lines) + 1)
        /\ ClosedOK(load)' = ClosedOK(load) /\ IsLoad(load)' = IsLoad(load) /\ Said(load)' = Said(load)
    BY <1>2, <2>1, <2>3 DEF IsLoad, Said, Coded
  <2> QED BY <1>2, <2>2, <2>3, <2>4
<1>12. DocumentOK'
  BY <1>1, <1>2 DEF DocumentOK, Final
<1> QED BY <1>6, <1>7, <1>8, <1>10, <1>11, <1>12 DEF ReadInv

\* The file is what it was.
Frame == UNCHANGED <<format, file, touched, guard, source, mapped>>

LEMMA FrameKeeps ==
  ASSUME FileOK, GuardOK, Frame
  PROVE  /\ pc \in AtWork \cup Loaded \/ pc' \notin AtWork \cup Loaded => FileOK'
         /\ (format = "events" => pc \notin {"new", "stat"}) /\ pc' \notin {"restat", "verified"} => GuardOK'
<1>1. /\ format' = format /\ file' = file /\ touched' = touched /\ guard' = guard /\ source' = source
      /\ mapped' = mapped
  BY DEF Frame
<1>2. FileFits(file)' /\ (FileFits(source) => FileFits(source)')
  BY <1>1, FitsSame DEF FileOK, FileFits
<1>3. ASSUME pc \in AtWork \cup Loaded \/ pc' \notin AtWork \cup Loaded PROVE FileOK'
  BY <1>1, <1>2, <1>3 DEF FileOK
<1>4. ASSUME format = "events" => pc \notin {"new", "stat"}, pc' \notin {"restat", "verified"} PROVE GuardOK'
  BY <1>1, <1>4 DEF GuardOK
<1> QED BY <1>3, <1>4

LEMMA QuitKeeps ==
  ASSUME ReadInv, Frame, pc' \in Failed, format = "events" => pc \notin {"new", "stat"}
  PROVE  ReadInv'
<1>1. /\ pc' \notin AtWork /\ pc' \notin Loaded /\ pc' \notin Waiting /\ pc' # "done"
      /\ pc' \notin {"restat", "verified"}
  BY DEF Failed, AtWork, Loaded, Waiting
<1>2. FileOK /\ GuardOK
  BY DEF ReadInv
<1>3. FileOK' /\ GuardOK'
  BY <1>1, <1>2, FrameKeeps
<1> QED BY <1>1, <1>3 DEF ReadInv, StartOK, ReaderOK, LoadedOK, DocumentOK

LEMMA GuardStatKeeps ==
  ASSUME ReadInv, GuardStat
  PROVE  ReadInv'
<1>1. /\ format = "events" /\ pc = "new" /\ pc' = "stat" /\ DOMAIN guard' = DOMAIN guard
      /\ UNCHANGED <<format, fileVars, source, mapped, pos, counters, pendingRaw, drained, load>>
  BY DEF GuardStat
<1>2. /\ format' = format /\ file' = file /\ touched' = touched /\ source' = source /\ mapped' = mapped
      /\ pos' = pos /\ lineNumber' = lineNumber /\ totalBytes' = totalBytes /\ recordCount' = recordCount
      /\ pendingRaw' = pendingRaw /\ load' = load
  BY <1>1 DEF fileVars, counters
<1>3. FileOK /\ GuardOK /\ StartOK
  BY DEF ReadInv
<1>4. pc' \notin AtWork /\ pc' \notin Loaded /\ pc' # "done"
  BY <1>1 DEF AtWork, Loaded
<1>5. FileOK'
  <2>1. FileFits(file)'
    BY <1>2, <1>3, FitsSame DEF FileOK, FileFits
  <2> QED BY <1>2, <1>3, <1>4, <2>1 DEF FileOK
<1>6. GuardOK'
  BY <1>1, <1>2, <1>3 DEF GuardOK
<1>7. StartOK'
  BY <1>1, <1>2, <1>3 DEF StartOK, Waiting
<1> QED BY <1>4, <1>5, <1>6, <1>7 DEF ReadInv, ReaderOK, LoadedOK, DocumentOK

LEMMA GuardHashKeeps ==
  ASSUME ReadInv, GuardHash
  PROVE  ReadInv'
<1>1. /\ pc = "stat" /\ pc' = "guarded" /\ guard' = [guard EXCEPT !.content = file]
      /\ UNCHANGED <<format, fileVars, source, mapped, pos, counters, pendingRaw, drained, load>>
  BY DEF GuardHash
<1>2. /\ format' = format /\ file' = file /\ touched' = touched /\ source' = source /\ mapped' = mapped
      /\ pos' = pos /\ lineNumber' = lineNumber /\ totalBytes' = totalBytes /\ recordCount' = recordCount
      /\ pendingRaw' = pendingRaw /\ load' = load
  BY <1>1 DEF fileVars, counters
<1>3. FileOK /\ GuardOK /\ StartOK
  BY DEF ReadInv
<1>4. pc' \notin AtWork /\ pc' \notin Loaded /\ pc' # "done" /\ pc \in Waiting
  BY <1>1 DEF AtWork, Loaded, Waiting
<1>5. FileOK'
  <2>1. FileFits(file)'
    BY <1>2, <1>3, FitsSame DEF FileOK, FileFits
  <2> QED BY <1>2, <1>3, <1>4, <2>1 DEF FileOK
<1>6. GuardOK'
  <2>1. guard'.content = file /\ "content" \in DOMAIN guard'
    BY <1>1, <1>3 DEF GuardOK
  <2>2. IsFile(file) /\ After(file, file) /\ ~touched
    BY <1>3, <1>4, AfterSelf DEF FileOK, FileFits, StartOK
  <2> QED BY <1>1, <1>2, <1>3, <2>1, <2>2 DEF GuardOK
<1>7. StartOK'
  BY <1>1, <1>2, <1>3, <1>4 DEF StartOK
<1> QED BY <1>4, <1>5, <1>6, <1>7 DEF ReadInv, ReaderOK, LoadedOK, DocumentOK

LEMMA VerifyKeeps ==
  ASSUME ReadInv, VerifyStat \/ VerifyHash
  PROVE  ReadInv'
<1>1. /\ UNCHANGED <<format, fileVars, guard, source, mapped, pos, counters, pendingRaw, drained, load>>
      /\ \/ pc' = "changed" /\ pc \in {"end", "restat"}
         \/ pc = "end" /\ format = "events" /\ pc' = "restat"
         \/ pc = "restat" /\ pc' = "verified" /\ file = guard.content
  BY DEF VerifyStat, VerifyHash
<1>2. Frame /\ format' = format /\ source' = source /\ file' = file /\ touched' = touched /\ guard' = guard /\ load' = load
  BY <1>1 DEF fileVars, Frame
<1>3. FileOK /\ GuardOK /\ LoadedOK
  BY DEF ReadInv
<1>4. CASE pc' = "changed"
  <2>1. pc' \in Failed /\ pc \notin {"new", "stat"}
    BY <1>1, <1>4 DEF Failed
  <2> QED BY <1>2, <2>1, QuitKeeps
<1>5. CASE pc' # "changed"
  <2>1. /\ pc \in Loaded /\ pc' \in Loaded /\ pc' \notin AtWork /\ pc' \notin Waiting /\ pc' # "done"
        /\ pc \notin {"new", "stat"}
    BY <1>1, <1>5 DEF Loaded, AtWork, Waiting
  <2>2. FileOK'
    BY <1>2, <1>3, <2>1, FrameKeeps
  <2>3. format = "events"
    BY <1>1, <1>3, <1>5 DEF GuardOK
  <2>4. IsFile(guard.content) /\ After(guard.content, file) /\ (touched => Moved(guard.content, file))
    BY <1>3, <2>1, <2>3 DEF GuardOK
  <2>5. ASSUME pc' = "verified" PROVE ~touched
    <3>1. file = guard.content
      BY <1>1, <2>5
    <3>2. PICK f, h : f = guard.content /\ h = file
      OBVIOUS
    <3>3. touched => f # h
      BY <1>3, <2>4, <3>2, AfterSelf, MovedOn DEF FileOK, FileFits
    <3> QED BY <3>1, <3>2, <3>3
  <2>6. GuardOK'
    BY <1>2, <1>3, <2>3, <2>4, <2>5 DEF GuardOK
  <2>7. LoadedOK'
    <3>1. Lines' = Lines
      BY <1>2 DEF Lines
    <3>2. (\A L, n : LoadOK(L, n)' = LoadOK(L, n)) /\ (\A L : ClosedOK(L)' = ClosedOK(L)) /\ RecordAt' = RecordAt
      BY <1>2, <3>1, SameLoad, SameLines
    <3>3. /\ LoadOK(load, Len(Lines) + 1)' = LoadOK(load, Len(Lines) + 1)
          /\ ClosedOK(load)' = ClosedOK(load) /\ IsLoad(load)' = IsLoad(load)
      BY <1>2, <3>1, <3>2 DEF IsLoad
    <3>4. Streamed' = Streamed /\ Steady' = Steady
      BY <1>2 DEF Streamed, Steady
    <3> QED BY <1>2, <1>3, <2>1, <3>2, <3>3, <3>4 DEF LoadedOK
  <2> QED BY <2>1, <2>2, <2>6, <2>7 DEF ReadInv, StartOK, ReaderOK, DocumentOK
<1> QED BY <1>4, <1>5

LEMMA OpenKeeps ==
  ASSUME ReadInv, OpenTooLarge \/ OpenLive \/ Slurp
  PROVE  ReadInv'
<1>1. /\ ReadyToOpen /\ UNCHANGED <<format, fileVars, guard, pos, counters, pendingRaw, drained, load>>
      /\ \/ pc' = "tooLarge" /\ UNCHANGED <<source, mapped>>
         \/ /\ pc' = "read" /\ format \in Live /\ mapped' \in {None, SizeOf(file)} /\ source' = source
         \/ /\ pc' = "read" /\ format \notin Live /\ SizeOf(file) <= MaxFile
            /\ source' = file /\ mapped' = mapped
  BY DEF OpenTooLarge, OpenLive, Slurp
<1>2. /\ format' = format /\ file' = file /\ touched' = touched /\ guard' = guard
      /\ pos' = pos /\ lineNumber' = lineNumber /\ totalBytes' = totalBytes /\ recordCount' = recordCount
      /\ pendingRaw' = pendingRaw /\ load' = load
  BY <1>1 DEF fileVars, counters
<1>3. FileOK /\ GuardOK /\ StartOK
  BY DEF ReadInv
<1>4. pc \in Waiting /\ (format = "events" => pc = "guarded")
  BY <1>1 DEF ReadyToOpen, Waiting
<1>5. CASE pc' = "tooLarge"
  <2>1. pc' \in Failed /\ Frame /\ (format = "events" => pc \notin {"new", "stat"})
    BY <1>1, <1>2, <1>4, <1>5 DEF Failed, Frame
  <2> QED BY <2>1, QuitKeeps
<1>6. CASE pc' # "tooLarge"
  <2>1. pc' = "read" /\ pc' \in AtWork /\ pc' \notin Loaded /\ pc' \notin Waiting /\ pc' # "done" /\ pc' # "verified"
    BY <1>1, <1>6 DEF AtWork, Loaded, Waiting
  <2>2. ~touched /\ mapped = None /\ FileFits(file) /\ FileFits(file)' /\ IsFile(file)
    BY <1>2, <1>3, <1>4, FitsSame DEF StartOK, FileOK, FileFits
  <2>3. format \notin Live => FileFits(source)'
    <3> SUFFICES ASSUME format \notin Live PROVE FileFits(source)'
      OBVIOUS
    <3>1. source' = file
      BY <1>1, <1>6
    <3> QED BY <1>2, <2>2, <3>1 DEF FileFits
  <2>4. FileOK'
    <3>1. format \in Live => mapped' \in {None, SizeOf(file)}
      BY <1>1, <1>6
    <3>2. format \notin Live => mapped' = None /\ SizeOf(source') <= MaxFile
      BY <1>1, <1>6, <2>2
    <3> QED BY <1>2, <1>3, <2>2, <2>3, <3>1, <3>2 DEF FileOK
  <2>5. GuardOK'
    BY <1>2, <1>3, <1>4, <2>1 DEF GuardOK
  <2>6. ReaderOK'
    <3>1. Lines' = file
      BY <1>1, <1>2, <1>6 DEF Lines
    <3>2. /\ pos' = <<1, 0>> /\ lineNumber' = 0 /\ totalBytes' = 0 /\ recordCount' = 0
          /\ pendingRaw' = NoRaw /\ load' = EmptyLoad
      BY <1>2, <1>3, <1>4 DEF StartOK
    <3>3. PositionOK' /\ PendingOK'
      BY <2>1, <2>2, <3>1, <3>2, OpenedKeeps
    <3> QED BY <3>3 DEF ReaderOK
  <2> QED BY <2>1, <2>4, <2>5, <2>6 DEF ReadInv, StartOK, LoadedOK, DocumentOK
<1> QED BY <1>5, <1>6

LEMMA WorkKeeps ==
  ASSUME ReadInv, NextLine \/ Drain \/ Finish
  PROVE  ReadInv'
<1>1. UNCHANGED <<format, fileVars, guard, source, mapped>> /\ pc \in AtWork
  BY DEF NextLine, Drain, Finish, AtWork
<1>2. Frame /\ format' = format /\ touched' = touched
  BY <1>1 DEF Frame, fileVars
<1>3. FileOK /\ GuardOK /\ ReaderOK
  BY DEF ReadInv
<1>4. /\ NextLine \/ Drain => pc' \in {"tooLarge", "tooMany", "drain", "read"}
      /\ Finish => pc' \in {"tooMany", "raised", "headerMissing", "end", "done"} /\ format \notin Documents
      /\ NextLine => format \notin Documents
  BY DEF NextLine, Drain, Finish, Accept
<1>5. CASE pc' \in Failed
  <2>1. pc \notin {"new", "stat"}
    BY <1>1 DEF AtWork
  <2> QED BY <1>2, <1>5, <2>1, QuitKeeps
<1>6. CASE pc' \notin Failed
  <2>1. /\ pc' \in AtWork \cup Loaded /\ pc' \notin Waiting /\ pc' \notin {"restat", "verified"}
        /\ NextLine \/ Drain => pc' \notin Loaded /\ pc' # "done" /\ pc' \notin {"tooLarge", "tooMany"}
        /\ Finish => pc' \notin AtWork /\ pc' \notin {"tooMany", "raised", "headerMissing"}
        /\ pc \notin {"new", "stat"}
    BY <1>1, <1>4, <1>6 DEF AtWork, Loaded, Waiting, Failed
  <2>2. FileOK' /\ GuardOK'
    BY <1>1, <1>2, <1>3, <2>1, FrameKeeps
  <2>3. StartOK'
    BY <2>1 DEF StartOK
  <2>4. Streamed' = Streamed /\ Steady' = Steady
    BY <1>2 DEF Streamed, Steady
  <2>5. Streamed /\ Steady => PositionOK /\ PendingOK
    BY <1>1, <1>3 DEF ReaderOK
  <2>6. CASE NextLine \/ Drain
    <3>1. Streamed /\ Steady => PositionOK' /\ PendingOK'
      BY <1>3, <2>1, <2>5, <2>6, NextLineKeeps, DrainKeeps
    <3>2. ReaderOK'
      BY <2>4, <3>1 DEF ReaderOK
    <3> QED BY <2>1, <2>2, <2>3, <2>6, <3>2 DEF ReadInv, LoadedOK, DocumentOK
  <2>7. CASE Finish
    <3>1. Streamed /\ Steady => LoadedOK'
      BY <1>3, <2>1, <2>5, <2>7, FinishKeeps
    <3>2. LoadedOK'
      BY <2>4, <3>1 DEF LoadedOK
    <3>3. DocumentOK'
      BY <1>2, <1>4, <2>7 DEF DocumentOK, Streamed
    <3> QED BY <2>1, <2>2, <2>3, <2>7, <3>2, <3>3 DEF ReadInv, ReaderOK
  <2> QED BY <2>6, <2>7
<1> QED BY <1>5, <1>6

LEMMA LoadDocumentKeeps ==
  ASSUME ReadInv, LoadDocument
  PROVE  ReadInv'
<1>1. /\ UNCHANGED <<format, fileVars, guard, source, mapped>> /\ pc = "read" /\ format \in Documents
  BY DEF LoadDocument
<1>2. Frame /\ format' = format
  BY <1>1 DEF Frame, fileVars
<1>3. FileOK /\ GuardOK
  BY DEF ReadInv
<1>4. pc' \in {"raised", "done"} /\ (pc' = "done" => (ItemsAccounted /\ KeepsItsPlace /\ Said(load))')
  BY <1>3, DocumentKeeps
<1>5. CASE pc' = "raised"
  <2>1. pc' \in Failed /\ pc \notin {"new", "stat"}
    BY <1>1, <1>5 DEF Failed
  <2> QED BY <1>2, <2>1, QuitKeeps
<1>6. CASE pc' = "done"
  <2>1. /\ pc \in AtWork /\ pc' \notin AtWork /\ pc' \notin Waiting /\ pc' \notin {"restat", "verified"}
        /\ pc \notin {"new", "stat"}
    BY <1>1, <1>6 DEF AtWork, Waiting
  <2>2. FileOK' /\ GuardOK'
    BY <1>2, <1>3, <2>1, FrameKeeps
  <2>3. ~Streamed'
    BY <1>1, <1>2 DEF Streamed
  <2>4. DocumentOK'
    BY <1>4, <1>6 DEF DocumentOK
  <2> QED BY <2>1, <2>2, <2>3, <2>4 DEF ReadInv, StartOK, ReaderOK, LoadedOK
<1> QED BY <1>4, <1>5, <1>6

LEMMA StillKeeps ==
  ASSUME ReadInv, UNCHANGED vars
  PROVE  ReadInv'
<1>1. /\ Frame /\ format' = format /\ pc' = pc /\ source' = source /\ file' = file /\ guard' = guard /\ load' = load
      /\ touched' = touched /\ mapped' = mapped /\ pos' = pos /\ lineNumber' = lineNumber
      /\ totalBytes' = totalBytes /\ recordCount' = recordCount /\ pendingRaw' = pendingRaw /\ drained' = drained
  BY DEF vars, Frame, fileVars, counters
<1>2. Lines' = Lines /\ Streamed' = Streamed /\ Steady' = Steady
  BY <1>1 DEF Lines, Streamed, Steady
<1>3. FileOK /\ GuardOK /\ StartOK /\ ReaderOK /\ LoadedOK /\ DocumentOK
  BY DEF ReadInv
<1>4. FileOK'
  BY <1>1, <1>3, FrameKeeps
<1>5. GuardOK'
  BY <1>1, <1>3 DEF GuardOK
<1>6. StartOK'
  BY <1>1, <1>3 DEF StartOK
<1>7. ReaderOK'
  <2> SUFFICES ASSUME Streamed, Steady, pc \in AtWork PROVE PositionOK' /\ PendingOK'
    BY <1>1, <1>2 DEF ReaderOK
  <2>1. PositionOK /\ PendingOK
    BY <1>3 DEF ReaderOK
  <2>2. PositionOK'
    BY <1>1, <1>2, <2>1, PositionSame
  <2>3. PICK a : a = IF pc = "read" THEN lineNumber ELSE lineNumber - 1
    OBVIOUS
  <2>4. PendingUpTo(a)'
    BY <1>1, <1>2, <2>1, <2>3, PendingSame DEF PendingOK
  <2> QED BY <1>1, <2>2, <2>3, <2>4 DEF PendingOK, PendingUpTo
<1>8. LoadedOK'
  <2>1. (\A L, n : LoadOK(L, n)' = LoadOK(L, n)) /\ (\A L : ClosedOK(L)' = ClosedOK(L)) /\ RecordAt' = RecordAt
    BY <1>1, <1>2, SameLoad, SameLines
  <2>2. /\ LoadOK(load, Len(Lines) + 1)' = LoadOK(load, Len(Lines) + 1)
        /\ ClosedOK(load)' = ClosedOK(load) /\ IsLoad(load)' = IsLoad(load)
    BY <1>1, <1>2, <2>1 DEF IsLoad
  <2> QED BY <1>1, <1>2, <1>3, <2>1, <2>2 DEF LoadedOK
<1>9. DocumentOK'
  <2>1. ItemsAccounted' = ItemsAccounted
    BY <1>1, <1>2 DEF ItemsAccounted, Returned, Overflows, LineText
  <2>2. \A e : RecOf(e)' = RecOf(e)
    BY <1>1, <1>2 DEF RecOf
  <2>3. \A r : Parallel(r)' = Parallel(r)
    BY <1>1, <1>2, SameLines
  <2>4. KeepsItsPlace => KeepsItsPlace'
    BY <1>1, <2>2, <2>3 DEF KeepsItsPlace, Settled
  <2> QED BY <1>1, <1>2, <1>3, <2>1, <2>4 DEF DocumentOK
<1> QED BY <1>4, <1>5, <1>6, <1>7, <1>8, <1>9 DEF ReadInv

LEMMA StepKeeps ==
  ASSUME ReadInv, [Next]_vars
  PROVE  ReadInv'
BY GuardStatKeeps, GuardHashKeeps, VerifyKeeps, OpenKeeps, WorkKeeps, LoadDocumentKeeps, AgentKeeps, StillKeeps
   DEF Next, Read

\* Every state of the reader satisfies the invariant, while a file is read, and when
\* it is judged.
THEOREM ReadAlways == CheckSpec => []ReadInv
<1>1. CheckInit => ReadInv
  BY InitReads DEF CheckInit
<1>2. ReadInv /\ [CheckNext]_<<vars, report>> => ReadInv'
  <2> SUFFICES ASSUME ReadInv, [CheckNext]_<<vars, report>> PROVE ReadInv'
    OBVIOUS
  <2>1. [Next]_vars
    BY DEF CheckNext, Judge
  <2> QED BY <2>1, StepKeeps
<1> QED BY <1>1, <1>2, PTL DEF CheckSpec

-----------------------------------------------------------------------------
(* What a finished load says of the file.                                  *)

\* All the records of the file, when it has been read to its end.
Complete == /\ LoadOK(load, Len(Lines) + 1) /\ ClosedOK(load) /\ IsFile(Lines)
            /\ Rows(Len(Lines) + 1) = RecordAt /\ format \in Formats

LEMMA SettledIs ==
  ASSUME ReadInv, Settled
  PROVE  \/ ~Streamed /\ ItemsAccounted /\ KeepsItsPlace /\ Said(load)
         \/ Streamed /\ Complete
         \/ Streamed /\ format = "canonical" /\ RecordAt = {} /\ Said(load) /\ load.events = << >>
<1>1. FileOK /\ GuardOK /\ LoadedOK /\ DocumentOK
  BY DEF ReadInv
<1>2. Steady /\ pc \in Loaded /\ (~Streamed => pc = "done")
  <2>1. CASE pc = "verified"
    <3>1. format = "events" /\ ~touched
      BY <1>1, <2>1 DEF GuardOK
    <3> QED BY <2>1, <3>1 DEF Steady, Loaded, Streamed, Documents
  <2>2. CASE pc = "done" /\ (format \in Live => ~touched)
    BY <2>2 DEF Steady, Loaded
  <2> QED BY <2>1, <2>2 DEF Settled
<1>3. ASSUME Streamed, LoadOK(load, Len(Lines) + 1), ClosedOK(load) PROVE Complete
  <2>1. IsFile(Lines) /\ format \in Formats
    BY <1>1, <1>2, LinesFit
  <2>2. \A j \in RecordAt : j < Len(Lines) + 1
    BY <2>1, LineIs DEF RecordAt
  <2>3. Rows(Len(Lines) + 1) = RecordAt
    BY <2>2 DEF Rows
  <2> QED BY <1>3, <2>1, <2>3 DEF Complete
<1> QED BY <1>1, <1>2, <1>3 DEF LoadedOK, DocumentOK

\* Whatever the file is, the reader says of it what a reader can say.
LEMMA SettledSays ==
  ASSUME ReadInv, Settled
  PROVE  Said(load)
<1>1. CASE Complete
  BY <1>1, ClosingIs DEF Complete, LoadOK, WhereOK, ClosedOK, IsLoad
<1> QED BY <1>1, SettledIs

\* Only the last line can be torn.
LEMMA OneTorn ==
  ASSUME IsFile(Lines), NEW i \in RecordAt, Torn(i)
  PROVE  i = Len(Lines)
<1>1. i \in 1..Len(Lines) /\ Len(Lines) \in Nat /\ ~Ended(Lines[i])
  BY LineIs DEF RecordAt, Torn
<1>2. ~(i < Len(Lines))
  BY <1>1, LineIs
<1> QED BY <1>1, <1>2

LEMMA TailSays ==
  ASSUME Complete, format # "canonical", NEW first \in RecordAt, Damaged(first), ~Torn(first)
  PROVE  load.tail.bytes = TailBytes
<1>1. /\ DamageOK(load, Len(Lines) + 1) /\ TailOK(load, Len(Lines) + 1) /\ ClosedOK(load)
      /\ IsFile(Lines) /\ Rows(Len(Lines) + 1) = RecordAt
  BY DEF Complete, LoadOK
<1>2. PICK B : B = {i \in RecordAt : Damaged(i) /\ ~Torn(i)}
  OBVIOUS
<1>3. Bad(Len(Lines) + 1) = B /\ first \in B
  BY <1>1, <1>2 DEF Bad
<1>4. load.tail.begun
  BY <1>1, <1>3 DEF TailOK
<1>5. PICK i \in B : (\A j \in B : i <= j) /\ load.tail.end = OffsetOf(Lines, i + 1)
  BY <1>1, <1>3, <1>4 DEF TailOK
<1>6. FirstDamage = i
  <2>1. B \in SUBSET Int
    BY <1>1, <1>2, LineIs DEF RecordAt
  <2>2. Min(B) = i
    BY <1>5, <2>1, MinIs
  <2> QED BY <1>2, <2>2 DEF FirstDamage
<1>7. PICK T, O : T = {j \in RecordAt : Torn(j)} /\ O = TornOffsets(load)
  OBVIOUS
<1>8. O = {OffsetOf(Lines, j) : j \in T}
  <2>1. ASSUME NEW o \in O PROVE \E j \in T : o = OffsetOf(Lines, j)
    <3>1. PICK f \in ToSet(load.findings) : f.code = "SL002" /\ o = f.offset
      BY <1>7, <2>1 DEF TornOffsets
    <3>2. PICK k \in DOMAIN load.findings : f = load.findings[k]
      BY DEF ToSet
    <3>3. Damaged(f.line) /\ f = DamageAt(f.line)
      BY <1>1, <3>1, <3>2 DEF DamageOK, Damage
    <3>4. f.line \in RecordAt
      BY <1>1, <3>2 DEF Complete, LoadOK, WhereOK
    <3>5. Torn(f.line) /\ f.offset = OffsetOf(Lines, f.line)
      <4>1. PICK j : j = f.line
        OBVIOUS
      <4>2. f.code = (IF Torn(j) THEN "SL002" ELSE "SL001") /\ f.offset = OffsetOf(Lines, j)
        BY <3>3, <4>1 DEF DamageAt
      <4> QED BY <3>1, <4>1, <4>2
    <3> QED BY <1>7, <3>1, <3>4, <3>5
  <2>2. ASSUME NEW j \in T PROVE OffsetOf(Lines, j) \in O
    <3>1. j \in RecordAt /\ Torn(j) /\ Damaged(j)
      BY <1>7 DEF Torn, Damaged, Decodes
    <3>2. PICK k \in DOMAIN load.findings : load.findings[k] = DamageAt(j)
      BY <1>1, <3>1 DEF DamageOK
    <3>3. load.findings[k].code = "SL002" /\ load.findings[k].offset = OffsetOf(Lines, j)
      BY <3>1, <3>2 DEF DamageAt
    <3>4. load.findings[k] \in ToSet(load.findings)
      BY DEF ToSet
    <3> QED BY <1>7, <3>3, <3>4 DEF TornOffsets
  <2> QED BY <2>1, <2>2
<1>9. PICK end : end = IF O = {} THEN SizeOf(Lines) ELSE CHOOSE o \in O : TRUE
  OBVIOUS
<1>10. end = IF T = {} THEN SizeOf(Lines) ELSE OffsetOf(Lines, CHOOSE j \in T : TRUE)
  <2>1. CASE T = {}
    BY <1>8, <1>9, <2>1
  <2>2. CASE T # {}
    <3>1. \A j \in T : j = Len(Lines)
      BY <1>1, <1>7, OneTorn
    <3>2. T = {Len(Lines)} /\ O = {OffsetOf(Lines, Len(Lines))}
      BY <1>8, <2>2, <3>1
    <3> QED BY <1>9, <2>2, <3>2
  <2> QED BY <2>1, <2>2
<1>11. load.tail.bytes = IF end > load.tail.end THEN end - load.tail.end ELSE 0
  BY <1>1, <1>4, <1>7, <1>9 DEF ClosedOK
<1>12. TailBytes = IF end > OffsetOf(Lines, i + 1) THEN end - OffsetOf(Lines, i + 1) ELSE 0
  BY <1>6, <1>7, <1>10 DEF TailBytes
<1> QED BY <1>5, <1>11, <1>12

LEMMA DamageSays ==
  ASSUME ReadInv
  PROVE  DamageLocated
<1> SUFFICES ASSUME Settled, format \notin {"canonical"} \cup Documents PROVE DamageLocated
  BY DEF DamageLocated
<1>1. Complete /\ format # "canonical"
  BY SettledIs DEF Streamed
<1>2. DamageOK(load, Len(Lines) + 1) /\ Rows(Len(Lines) + 1) = RecordAt /\ WhereOK(load, Len(Lines) + 1)
  BY <1>1 DEF Complete, LoadOK
<1>3. PICK damaged : damaged = {i \in RecordAt : Damaged(i)}
  OBVIOUS
<1>4. ASSUME NEW f \in Shown PROVE f \in {DamageAt(i) : i \in damaged}
  <2>1. f \in ToSet(load.findings) /\ f.code \in Damage
    BY DEF Shown, Damage
  <2>2. PICK k \in DOMAIN load.findings : f = load.findings[k]
    BY <2>1 DEF ToSet
  <2>3. f.line \in RecordAt
    BY <1>2, <2>2 DEF WhereOK
  <2>4. Damaged(f.line) /\ f = DamageAt(f.line)
    BY <1>1, <1>2, <2>1, <2>2 DEF DamageOK
  <2> QED BY <1>3, <2>3, <2>4
<1>5. ASSUME NEW i \in damaged PROVE DamageAt(i) \in Shown
  <2>1. PICK k \in DOMAIN load.findings : load.findings[k] = DamageAt(i)
    BY <1>1, <1>2, <1>3 DEF DamageOK
  <2>2. DamageAt(i).code \in {"SL001", "SL002"}
    BY DEF DamageAt
  <2>3. load.findings[k] \in ToSet(load.findings)
    BY DEF ToSet
  <2> QED BY <2>1, <2>2, <2>3 DEF Shown
<1>6. ASSUME NEW j \in DOMAIN load.findings, NEW k \in DOMAIN load.findings, j < k, load.findings[j] \in Shown
      PROVE  load.findings[j] # load.findings[k]
  <2> SUFFICES ASSUME load.findings[j] = load.findings[k] PROVE FALSE
    OBVIOUS
  <2>1. load.findings[j].code \in Damage /\ load.findings[k].code \in Damage
    BY <1>6 DEF Shown, Damage
  <2> QED BY <1>1, <1>2, <1>6, <2>1 DEF DamageOK
<1>7. (\E i \in damaged : ~Torn(i)) => load.tail.bytes = TailBytes
  BY <1>1, <1>3, TailSays
<1> QED BY <1>3, <1>4, <1>5, <1>6, <1>7 DEF DamageLocated

LEMMA NothingIsLost ==
  ASSUME ReadInv
  PROVE  NothingVanishes
<1> SUFFICES ASSUME Settled, Streamed PROVE NothingVanishes
  BY SettledIs DEF NothingVanishes, Streamed
<1>1. CASE RecordAt = {} /\ load.events = << >>
  <2>1. DOMAIN load.events = {} /\ ToSet(load.events) = {}
    BY <1>1, EmptySequence DEF ToSet
  <2> QED BY <1>1, <2>1 DEF NothingVanishes, Streamed
<1>2. CASE Complete
  <2>1. /\ WhereOK(load, Len(Lines) + 1) /\ ToldOK(load, Len(Lines) + 1) /\ ClosedOK(load)
        /\ Rows(Len(Lines) + 1) = RecordAt /\ IsFile(Lines)
    BY <1>2 DEF Complete, LoadOK
  <2>2. \A i \in RecordAt : i \in Nat
    BY <2>1, LineIs DEF RecordAt
  <2>3. ASSUME NEW i \in RecordAt, i \in load.unknown PROVE \E f \in load.closing : f.code = "SL306" /\ f.line <= i
    <3>1. load.unknown \in SUBSET Nat /\ load.unknown # {}
      BY <2>1, <2>2, <2>3 DEF WhereOK
    <3>2. PICK l : l = CHOOSE x \in load.unknown : \A k \in load.unknown : x <= k
      OBVIOUS
    <3>3. PICK unknown : unknown = load.unknown
      OBVIOUS
    <3>4. \E x \in unknown : \A k \in unknown : x <= k
      BY <3>1, <3>3, Least
    <3>5. \A k \in load.unknown : l <= k
      BY <3>2, <3>3, <3>4
    <3>6. PICK f : f = [code |-> "SL306", line |-> l]
      OBVIOUS
    <3>7. f \in UnknownFindings(load)
      BY <3>1, <3>2, <3>6 DEF UnknownFindings
    <3>8. f \in load.closing /\ f.code = "SL306" /\ f.line = l
      BY <2>1, <3>6, <3>7 DEF ClosedOK
    <3> QED BY <2>3, <3>5, <3>8
  <2>4. ASSUME NEW i \in RecordAt
        PROVE  \/ \E e \in ToSet(load.events) : e.line = i
               \/ \E f \in ToSet(Returned) : f.line = i
               \/ Overflows
               \/ i \in load.unknown /\ \E f \in load.closing : f.code = "SL306" /\ f.line <= i
               \/ PassedOver(i)
    <3>1. CASE \E k \in DOMAIN load.events : load.events[k].line = i
      BY <3>1 DEF ToSet
    <3>2. CASE \E k \in DOMAIN load.findings : load.findings[k].line = i
      BY <3>2 DEF ToSet, Overflows
    <3>3. CASE i \in load.unknown
      BY <2>3, <3>3
    <3>4. CASE Passed(load, i)
      BY <3>4 DEF Passed, PassedOver
    <3> QED BY <2>1, <3>1, <3>2, <3>3, <3>4 DEF ToldOK
  <2>5. ASSUME NEW e \in ToSet(load.events)
        PROVE  /\ e.line \in RecordAt /\ ~Damaged(e.line) /\ e.offset = OffsetOf(Lines, e.line)
               /\ format \in DOMAIN NewTypes /\ Lines[e.line].rec.class \in NewTypes[format] =>
                    \/ \E f \in ToSet(Returned) : f.line = e.line /\ f.code = "SL302"
                    \/ e.line \in load.unknown
    <3>1. PICK k \in DOMAIN load.events : e = load.events[k]
      BY DEF ToSet
    <3>2. e.line \in Sound(Len(Lines) + 1) /\ e.offset = OffsetOf(Lines, e.line)
      BY <2>1, <3>1 DEF WhereOK
    <3>3. e.line \in RecordAt /\ ~Damaged(e.line)
      BY <2>1, <3>2 DEF Sound
    <3>4. ASSUME format \in DOMAIN NewTypes, Lines[e.line].rec.class \in NewTypes[format]
          PROVE  \/ \E f \in ToSet(Returned) : f.line = e.line /\ f.code = "SL302"
                 \/ e.line \in load.unknown
      <4>1. \/ \E j \in DOMAIN load.findings : load.findings[j].line = e.line /\ load.findings[j].code = "SL302"
            \/ e.line \in load.unknown
        BY <2>1, <3>1, <3>4 DEF ToldOK
      <4>2. Returned = load.findings
        BY <3>4 DEF Returned, NewTypes
      <4> QED BY <4>1, <4>2 DEF ToSet
    <3> QED BY <3>2, <3>3, <3>4
  <2>6. \A j, k \in DOMAIN load.events : j < k => load.events[j].line <= load.events[k].line
    BY <2>1 DEF WhereOK
  <2> QED BY <2>4, <2>5, <2>6 DEF NothingVanishes, Streamed
<1> QED BY <1>1, <1>2, SettledIs

LEMMA LinksAreSaid ==
  ASSUME ReadInv
  PROVE  LinkedIfAdjacent
<1> SUFFICES ASSUME Settled, format = "codex", NEW k \in DOMAIN load.events
             PROVE  LET e == load.events[k]
                        before == load.events[k - 1]
                        ordinal(x) == RecOf(x).ordinal
                        adjacent == /\ k > 1
                                    /\ \A i \in before.line + 1 .. e.line - 1 : i \notin RecordAt
                                    /\ None \in {ordinal(e), ordinal(before)} \/ ordinal(e) = ordinal(before) + 1
                    IN e.parent = IF adjacent THEN before.id ELSE None
  BY DEF LinkedIfAdjacent
<1>1. Complete
  BY SettledIs DEF Streamed, Documents
<1>2. load.events[k].parent = IF Adjacent(load, k) THEN load.events[k - 1].id ELSE None
  BY <1>1 DEF Complete, LoadOK, LinkOK
<1>3. \A e : RecOf(e) = Lines[e.line].rec
  BY DEF RecOf, Documents
<1> QED BY <1>2, <1>3 DEF Adjacent, Ordinal

LEMMA PlacesAreKept ==
  ASSUME ReadInv
  PROVE  KeepsItsPlace
<1> SUFFICES ASSUME Settled, format \in {"claude", "openai", "document"} PROVE KeepsItsPlace
  BY DEF KeepsItsPlace
<1>1. CASE ~Streamed
  BY <1>1, SettledIs
<1>2. CASE Streamed
  <2>1. Complete /\ format \in {"claude", "openai"}
    BY <1>2, SettledIs DEF Streamed, Documents
  <2>2. \A e \in ToSet(load.events) : GroupFits(Group(load, e.line), Lines[e.line].rec)
    BY <2>1 DEF Complete, LoadOK, PlaceOK
  <2>3. \A e : RecOf(e) = Lines[e.line].rec
    BY <2>1 DEF RecOf, Documents
  <2> QED BY <2>2, <2>3 DEF KeepsItsPlace, GroupFits, Group
<1> QED BY <1>1, <1>2

\* A finite set has more than one element if it has two.
LEMMA MoreThanOne ==
  ASSUME NEW S, IsFiniteSet(S)
  PROVE  Cardinality(S) > 1 <=> \E x, y \in S : x # y
<1>1. CASE S = {}
  BY <1>1, FS_EmptySet
<1>2. CASE S # {}
  <2>1. PICK x \in S : TRUE
    BY <1>2
  <2>2. IsFiniteSet(S \ {x}) /\ Cardinality(S \ {x}) = Cardinality(S) - 1 /\ Cardinality(S) \in Nat
    BY FS_RemoveElement, FS_CardinalityType
  <2>3. Cardinality(S \ {x}) \in Nat /\ (Cardinality(S \ {x}) = 0 <=> S \ {x} = {})
    BY <2>2, FS_EmptySet, FS_CardinalityType
  <2>4. S \ {x} # {} <=> \E a, b \in S : a # b
    BY <2>1
  <2> QED BY <2>2, <2>3, <2>4
<1> QED BY <1>1, <1>2

\* The image of a finite set is finite.
LEMMA FiniteImage ==
  ASSUME NEW f, IsFiniteSet(DOMAIN f)
  PROVE  IsFiniteSet({f[x] : x \in DOMAIN f})
<1> DEFINE T == {f[x] : x \in DOMAIN f}
           g == [x \in DOMAIN f |-> f[x]]
<1>1. g \in Surjection(DOMAIN f, T)
  BY DEF Surjection
<1> HIDE DEF T, g
<1>2. IsFiniteSet(T)
  BY <1>1, FS_Surjection
<1> QED BY <1>2 DEF T

LEMMA VersionsAreSaid ==
  ASSUME ReadInv
  PROVE  VersionsCompared
<1> SUFFICES ASSUME Settled, format \in {"codex", "claude"} PROVE VersionsCompared
  BY DEF VersionsCompared
<1> DEFINE recs == {Lines[i].rec : i \in {j \in RecordAt : ~Damaged(j)}}
           marked == {r \in recs : r.version \in Supported /\ (format = "claude" => r.marker)}
           unsupported == \E r \in recs : r.version \notin Supported \cup {None}
           changed == Cardinality({r.version : r \in marked}) > 1 \/ \E r \in recs : r.foreign
           told == {k \in DOMAIN load.findings : load.findings[k].code = "SL301"}
           n == Len(Lines) + 1
<1>1. Complete
  BY SettledIs DEF Streamed, Documents
<1>2. VersionOK(load, n) /\ ClosedOK(load) /\ Rows(n) = RecordAt /\ IsFile(Lines)
  BY <1>1 DEF Complete, LoadOK
<1>3. Sound(n) = {j \in RecordAt : ~Damaged(j)}
  BY <1>2 DEF Sound
<1>4. unsupported <=> Unsupported(n)
  BY <1>3 DEF Unsupported
<1>5. {r.version : r \in marked} = {Lines[i].rec.version : i \in Marked(n)}
  BY <1>3 DEF Marked
<1>6. IsFiniteSet({Lines[i].rec.version : i \in Marked(n)})
  <2>1. Marked(n) \subseteq RecordAt
    BY <1>3 DEF Marked
  <2>2. IsFiniteSet(RecordAt)
    <3>1. PICK a \in Nat : a = 0
      OBVIOUS
    <3> QED BY <1>2, RecordsFinite
  <2>3. IsFiniteSet(Marked(n))
    BY <2>1, <2>2, FS_Subset
  <2>4. PICK f : f = [i \in Marked(n) |-> Lines[i].rec.version]
    OBVIOUS
  <2>5. DOMAIN f = Marked(n) /\ {f[i] : i \in DOMAIN f} = {Lines[i].rec.version : i \in Marked(n)}
    BY <2>4
  <2>6. IsFiniteSet({f[i] : i \in DOMAIN f})
    BY <2>3, <2>5, FiniteImage
  <2> QED BY <2>5, <2>6
<1>7. changed <=> Changed(n)
  <2>1. PICK V : V = {Lines[i].rec.version : i \in Marked(n)}
    OBVIOUS
  <2>2. Cardinality(V) > 1 <=> \E x, y \in V : x # y
    <3>1. IsFiniteSet(V)
      BY <1>6, <2>1
    <3> QED BY <3>1, MoreThanOne
  <2>3. (\E x, y \in V : x # y) <=> \E i, j \in Marked(n) : Lines[i].rec.version # Lines[j].rec.version
    BY <2>1
  <2>4. (\E r \in recs : r.foreign) <=> \E i \in Sound(n) : Lines[i].rec.foreign
    BY <1>3
  <2>5. Cardinality({r.version : r \in marked}) > 1 <=> Cardinality(V) > 1
    BY <1>5, <2>1
  <2> QED BY <2>2, <2>3, <2>4, <2>5 DEF Changed
<1>8. (\E f \in load.closing : f.code = "SL304") <=> changed /\ ~unsupported
  <2>1. (\E f \in load.closing : f.code = "SL304") <=> ~load.unsupported /\ load.drift # {}
    <3>1. \A f \in UnknownFindings(load) : f.code = "SL306"
      BY DEF UnknownFindings
    <3>2. (\E f \in DriftFindings(load) : f.code = "SL304") <=> ~load.unsupported /\ load.drift # {}
      <4>1. CASE load.unsupported
        BY <4>1 DEF DriftFindings
      <4>2. CASE ~load.unsupported
        <5>1. DriftFindings(load) = {[code |-> "SL304", line |-> d.line] : d \in load.drift}
          BY <4>2 DEF DriftFindings
        <5>2. ASSUME NEW d \in load.drift
              PROVE  \E f \in DriftFindings(load) : f.code = "SL304"
          <6>1. [code |-> "SL304", line |-> d.line] \in DriftFindings(load)
            BY <5>1
          <6> QED BY <6>1
        <5>3. ASSUME NEW f \in DriftFindings(load)
              PROVE  load.drift # {}
          BY <5>1
        <5> QED BY <4>2, <5>2, <5>3
      <4> QED BY <4>1, <4>2
    <3>3. load.closing = DriftFindings(load) \cup UnknownFindings(load)
      BY <1>2 DEF ClosedOK
    <3> QED BY <3>1, <3>2, <3>3
  <2>2. load.unsupported <=> Unsupported(n)
    BY <1>2 DEF VersionOK
  <2>3. ~Unsupported(n) => (load.drift # {} <=> Changed(n))
    BY <1>2 DEF VersionOK
  <2> QED BY <1>4, <1>7, <2>1, <2>2, <2>3
<1>9. Cardinality(told) = IF unsupported THEN 1 ELSE 0
  <2>1. told # {} <=> Unsupported(n)
    BY <1>2 DEF VersionOK
  <2>2. \A j, k \in told : j = k
    BY <1>2 DEF VersionOK
  <2>3. CASE told = {}
    BY <1>4, <2>1, <2>3, FS_EmptySet
  <2>4. CASE told # {}
    <3>1. PICK k \in told : TRUE
      BY <2>4
    <3>2. told = {k}
      BY <2>2, <3>1
    <3>3. Cardinality(told) = 1
      BY <3>2, FS_Singleton
    <3> QED BY <1>4, <2>1, <2>4, <3>3
  <2> QED BY <2>3, <2>4
<1> HIDE DEF told, changed, unsupported, marked, recs
<1> QED BY <1>8, <1>9 DEF VersionsCompared, told, changed, unsupported, marked, recs
-----------------------------------------------------------------------------
(* What the invariant says of a load that is complete.                     *)

\* Damage is located exactly once, by line, bytes and ordinal, in whatever pieces
\* the lines were read, whatever the limits are and whatever an agent appends
\* meanwhile (io.iter_events, source.verify, the loops of the adapters).
THEOREM DamageIsLocated == CheckSpec => []DamageLocated
BY ReadAlways, DamageSays, PTL

\* Every record of a session file gives an event, a finding or a place in the count
\* of unknown types, events come in file order and from records that could be read,
\* and what could not be understood is disclosed (the loops of all five adapters and
\* the two loaders of documents).
THEOREM NothingVanishesAlways == CheckSpec => []NothingVanishes
BY ReadAlways, NothingIsLost, PTL

\* Two codex events are linked exactly when nothing can be missing between them
\* (codex_rollout.py:1232).
THEOREM AdjacentAreLinked == CheckSpec => []LinkedIfAdjacent
BY ReadAlways, LinksAreSaid, PTL

\* A change of version is reported unless a version is not supported, and that is
\* reported once (drift.py:218, codex_rollout.py:410, claude_code.py:882).
THEOREM VersionsAreCompared == CheckSpec => []VersionsCompared
BY ReadAlways, VersionsAreSaid, PTL

\* A record that declares a parent hangs below it with all its events, and the name
\* it was given stays on its chain (claude_code.py:1099, openai_agents.py:1303).
THEOREM PlacesAreAlwaysKept == CheckSpec => []KeepsItsPlace
BY ReadAlways, PlacesAreKept, PTL

-----------------------------------------------------------------------------
(* What a report says of its rules.                                        *)

ListedRules == AllRules \ {"SL303", "SL304", "SL401", "SL402"}
OfReader == ReaderRules \cup {"SL306"}

LEMMA FamilyNames ==
  DOMAIN Families = {"identity", "graph", "ordering", "writers", "tool_pairing_1", "tool_pairing_2",
                     "checkpoint", "accounting", "size", "shape"}
BY DEF Families

\* A rule belongs to one family; no rule is a family or a reader's.
LEMMA FamilyRules ==
  ASSUME NEW F \in DOMAIN Families, NEW r \in Families[F]
  PROVE  /\ r \notin DOMAIN Families /\ r \notin OfReader
         /\ \A G \in DOMAIN Families : r \in Families[G] => G = F
<1>1. CASE F = "identity"
  BY <1>1, FamilyNames DEF Families, OfReader, ReaderRules
<1>2. CASE F = "graph"
  BY <1>2, FamilyNames DEF Families, OfReader, ReaderRules
<1>3. CASE F = "ordering"
  BY <1>3, FamilyNames DEF Families, OfReader, ReaderRules
<1>4. CASE F = "writers"
  BY <1>4, FamilyNames DEF Families, OfReader, ReaderRules
<1>5. CASE F = "tool_pairing_1"
  BY <1>5, FamilyNames DEF Families, OfReader, ReaderRules
<1>6. CASE F = "tool_pairing_2"
  BY <1>6, FamilyNames DEF Families, OfReader, ReaderRules
<1>7. CASE F = "checkpoint"
  BY <1>7, FamilyNames DEF Families, OfReader, ReaderRules
<1>8. CASE F = "accounting"
  BY <1>8, FamilyNames DEF Families, OfReader, ReaderRules
<1>9. CASE F = "size"
  BY <1>9, FamilyNames DEF Families, OfReader, ReaderRules
<1>10. CASE F = "shape"
  BY <1>10, FamilyNames DEF Families, OfReader, ReaderRules
<1> QED BY <1>1, <1>2, <1>3, <1>4, <1>5, <1>6, <1>7, <1>8, <1>9, <1>10, FamilyNames

LEMMA StructuralIs ==
  /\ \A r : r \in Structural <=> \E F \in DOMAIN Families : r \in Families[F]
  /\ \A r \in ListedRules : r \in OfReader \/ r \in Structural
  /\ \A r \in OfReader : r \notin DOMAIN Families /\ r \notin Structural
<1>1. \A r : r \in Structural <=> \E F \in DOMAIN Families : r \in Families[F]
  BY DEF Structural, Range
<1>2. \A r \in ListedRules : r \in OfReader \/ r \in Structural
  BY DEF ListedRules, AllRules, OfReader
<1>3. \A r \in OfReader : r \notin DOMAIN Families
  BY FamilyNames DEF OfReader, ReaderRules
<1>4. \A r \in OfReader : r \notin Structural
  BY <1>1, FamilyRules
<1> QED BY <1>1, <1>2, <1>3, <1>4

-----------------------------------------------------------------------------
(* Who is skipped, and why.                                                *)

Whys(skipped, rule) == {s.reason : s \in {x \in skipped : x.check = rule}}

LEMMA OneWhy ==
  ASSUME NEW S, NEW r, NEW why, Skip(r, why) \in S, \A s \in S : s.check = r => s.reason = why
  PROVE  Cardinality(Whys(S, r)) = 1
<1>1. Whys(S, r) = {why}
  BY DEF Whys, Skip
<1> QED BY <1>1, FS_Singleton

LEMMA NoWhy ==
  ASSUME NEW S, NEW r, \A s \in S : s.check # r
  PROVE  Whys(S, r) = {}
BY DEF Whys

LEMMA ReaderSkipsAre ==
  ASSUME NEW on
  PROVE  \A s \in ReaderSkips(on) : s.check \in OfReader
BY DEF ReaderSkips, Skip, OfReader, Gated, Readers, ReaderRules

LEMMA FamilySkipsAre ==
  ASSUME NEW on, NEW F
  PROVE  \A s \in FamilySkips(F, on) : (s.check = F /\ FamilyGate(F, on) # "") \/ s.check \in Families[F]
<1>1. PICK gate : gate = FamilyGate(F, on)
  OBVIOUS
<1>2. CASE gate = ""
  <2>1. FamilySkips(F, on) = {Skip(r, "deselected") : r \in Families[F] \ on}
    BY <1>1, <1>2 DEF FamilySkips
  <2>2. ASSUME NEW s \in FamilySkips(F, on) PROVE s.check \in Families[F]
    <3>1. PICK r \in Families[F] \ on : s = Skip(r, "deselected")
      BY <2>1
    <3> QED BY <3>1 DEF Skip
  <2> QED BY <2>2
<1>3. CASE gate # ""
  <2>1. FamilySkips(F, on) =
          {Skip(F, gate)} \cup {Skip(r, IF r \in on \/ gate = "version-gated" THEN gate ELSE "deselected") :
                                  r \in Families[F]}
    BY <1>1, <1>3 DEF FamilySkips
  <2>2. ASSUME NEW s \in FamilySkips(F, on) PROVE s.check = F \/ s.check \in Families[F]
    <3>1. s = Skip(F, gate) \/ \E r \in Families[F], why \in {gate, "deselected"} : s = Skip(r, why)
      BY <2>1
    <3>2. \A r, why : Skip(r, why).check = r
      BY DEF Skip
    <3> QED BY <3>1, <3>2
  <2> QED BY <1>1, <1>3, <2>2
<1> QED BY <1>2, <1>3

LEMMA SkippedParts ==
  ASSUME NEW on, NEW found, NEW s \in Skipped(on, found)
  PROVE  \/ s \in ReaderSkips(on)
         \/ \E F \in DOMAIN Families : s \in FamilySkips(F, on)
         \/ \E F \in Running(on) : Idle(F, on, found) /\ s = Skip(F, "adapter-not-applicable")
         \/ \E F \in Running(on) : \E r \in Families[F] \cap on \cap NotApplicable(found) :
              s = Skip(r, "adapter-not-applicable")
<1>1. CASE s \in FamiliesSkipped(on)
  BY <1>1 DEF FamiliesSkipped
<1>2. CASE s \notin FamiliesSkipped(on) /\ s \notin ReaderSkips(on)
  <2>1. PICK check \in TakenBack(on, found) : s = Skip(check, "adapter-not-applicable")
    BY <1>2 DEF Skipped
  <2>2. CASE check \in Rules(on) \cap NotApplicable(found)
    <3>1. PICK F \in Running(on) : check \in Families[F] \cap on
      BY <2>2 DEF Rules
    <3> QED BY <2>1, <2>2, <3>1
  <2> QED BY <2>1, <2>2 DEF TakenBack
<1> QED BY <1>1, <1>2

LEMMA SkippedHas ==
  ASSUME NEW on, NEW found
  PROVE  /\ ReaderSkips(on) \subseteq Skipped(on, found)
         /\ \A F \in DOMAIN Families : FamilySkips(F, on) \subseteq Skipped(on, found)
         /\ \A F \in Running(on) : \A r \in Families[F] \cap on \cap NotApplicable(found) :
              Skip(r, "adapter-not-applicable") \in Skipped(on, found)
<1>1. \A F \in DOMAIN Families : FamilySkips(F, on) \subseteq FamiliesSkipped(on)
  BY DEF FamiliesSkipped
<1>2. ASSUME NEW F \in Running(on), NEW r \in Families[F] \cap on \cap NotApplicable(found)
      PROVE  r \in TakenBack(on, found)
  BY DEF Rules, TakenBack
<1> QED BY <1>1, <1>2 DEF Skipped

-----------------------------------------------------------------------------
(* One rule after the other.                                               *)

\* Either it ran, or there is one reason why it did not.
Accounted(performed, skipped, on, r) ==
  IF r \in performed THEN Whys(skipped, r) = {} /\ r \in on ELSE Cardinality(Whys(skipped, r)) = 1

LEMMA ReaderAccounted ==
  ASSUME NEW on, NEW found, NEW r \in OfReader
  PROVE  Accounted(Performed(on, found), Skipped(on, found), on, r)
<1>1. r \notin DOMAIN Families /\ \A F \in DOMAIN Families : r \notin Families[F]
  BY StructuralIs
<1>2. Running(on) \subseteq DOMAIN Families
  BY DEF Running
<1>3. ASSUME NEW s \in Skipped(on, found), s.check = r PROVE s \in ReaderSkips(on)
  <2>1. \A why, x : Skip(x, why).check = x
    BY DEF Skip
  <2>2. ASSUME NEW F \in DOMAIN Families, s \in FamilySkips(F, on) PROVE FALSE
    BY <1>1, <1>3, <2>2, FamilySkipsAre
  <2> QED BY <1>1, <1>2, <1>3, <2>1, <2>2, SkippedParts
<1>4. r \in Performed(on, found) <=> r \in (Readers \cap on) \ Gated
  <2>1. r \notin Rules(on)
    BY <1>1, <1>2 DEF Rules
  <2> QED BY <1>1, <1>2, <2>1 DEF Performed
<1>5. PICK reads, gated : reads = Readers /\ gated = Gated /\ gated \subseteq reads
  BY DEF Gated, Readers, ReaderRules
<1>6. \A s \in ReaderSkips(on) : s.check = r =>
         \/ s = Skip(r, "version-gated") /\ r \in gated
         \/ s = Skip(r, "deselected") /\ r \in (reads \ on) \ gated
         \/ s = Skip(r, IF r \in on THEN "adapter-not-applicable" ELSE "deselected") /\ r \in {"SL306"} \ reads
  BY <1>5 DEF ReaderSkips, Skip
<1>7. /\ r \in gated => Skip(r, "version-gated") \in ReaderSkips(on)
      /\ r \in (reads \ on) \ gated => Skip(r, "deselected") \in ReaderSkips(on)
      /\ r \in {"SL306"} \ reads =>
           Skip(r, IF r \in on THEN "adapter-not-applicable" ELSE "deselected") \in ReaderSkips(on)
  BY <1>5 DEF ReaderSkips
<1>8. r \notin reads => r = "SL306"
  BY <1>5 DEF Readers, OfReader
<1>9. \A why : Skip(r, why).reason = why
  BY DEF Skip
<1>10. CASE r \in Performed(on, found)
  <2>1. r \in reads /\ r \in on /\ r \notin gated
    BY <1>4, <1>5, <1>10
  <2>2. \A s \in Skipped(on, found) : s.check # r
    BY <1>3, <1>6, <2>1
  <2> QED BY <1>10, <2>1, <2>2, NoWhy DEF Accounted
<1>11. CASE r \notin Performed(on, found)
  <2>1. PICK why : why = IF r \in gated THEN "version-gated" ELSE
                         IF r \in on THEN "adapter-not-applicable" ELSE "deselected"
    OBVIOUS
  <2>2. r \in gated \/ r \in (reads \ on) \ gated \/ r \in {"SL306"} \ reads
    BY <1>4, <1>5, <1>8, <1>11
  <2>3. Skip(r, why) \in Skipped(on, found)
    BY <1>5, <1>7, <2>1, <2>2, SkippedHas
  <2>4. \A s \in Skipped(on, found) : s.check = r => s.reason = why
    BY <1>3, <1>5, <1>6, <1>9, <2>1
  <2> QED BY <1>11, <2>3, <2>4, OneWhy DEF Accounted
<1> QED BY <1>10, <1>11

LEMMA GateIs ==
  ASSUME NEW on, NEW F
  PROVE  /\ FamilyGate(F, on) \in {"", "deselected", "empty-input", "version-gated"}
         /\ Families[F] \cap on = {} <=> FamilyGate(F, on) = "deselected"
         /\ Families[F] \cap on # {} /\ Analysed <=> FamilyGate(F, on) = ""
BY DEF FamilyGate, Analysed

LEMMA RuleAccounted ==
  ASSUME NEW on, NEW found, NEW F \in DOMAIN Families, NEW r \in Families[F]
  PROVE  /\ Accounted(Performed(on, found), Skipped(on, found), on, r)
         /\ r \in Performed(on, found) <=> F \in Running(on) /\ r \in on /\ r \notin NotApplicable(found)
<1>1. /\ r \notin DOMAIN Families /\ r \notin OfReader
      /\ \A G \in DOMAIN Families : r \in Families[G] => G = F
  BY FamilyRules
<1>2. Running(on) \subseteq DOMAIN Families /\ (F \in Running(on) <=> FamilyGate(F, on) = "")
  BY DEF Running
<1>3. \A why, x : Skip(x, why).check = x /\ Skip(x, why).reason = why
  BY DEF Skip
<1>4. ASSUME NEW s \in Skipped(on, found), s.check = r
      PROVE  \/ s \in FamilySkips(F, on)
             \/ F \in Running(on) /\ r \in on /\ r \in NotApplicable(found) /\ s.reason = "adapter-not-applicable"
  <2>1. s \notin ReaderSkips(on)
    BY <1>1, <1>4, ReaderSkipsAre
  <2>2. ASSUME NEW G \in DOMAIN Families, s \in FamilySkips(G, on) PROVE s \in FamilySkips(F, on)
    <3>1. r \in Families[G]
      BY <1>1, <1>4, <2>2, FamilySkipsAre
    <3> QED BY <1>1, <2>2, <3>1
  <2>3. ASSUME NEW G \in Running(on), s = Skip(G, "adapter-not-applicable") PROVE FALSE
    BY <1>1, <1>2, <1>3, <1>4, <2>3
  <2>4. ASSUME NEW G \in Running(on), NEW x \in Families[G] \cap on \cap NotApplicable(found),
               s = Skip(x, "adapter-not-applicable")
        PROVE  F \in Running(on) /\ r \in on /\ r \in NotApplicable(found) /\ s.reason = "adapter-not-applicable"
    <3>1. x = r /\ G = F
      <4>1. x = r
        BY <1>3, <1>4, <2>4
      <4>2. G \in DOMAIN Families /\ r \in Families[G]
        BY <1>2, <4>1
      <4> QED BY <1>1, <4>1, <4>2
    <3> QED BY <1>3, <2>4, <3>1
  <2> QED BY <2>1, <2>2, <2>3, <2>4, SkippedParts
<1>5. r \in Rules(on) <=> F \in Running(on) /\ r \in on
  <2>1. ASSUME r \in Rules(on) PROVE F \in Running(on) /\ r \in on
    <3>1. PICK G \in Running(on) : r \in Families[G] \cap on
      BY <2>1 DEF Rules
    <3> QED BY <1>1, <1>2, <3>1
  <2>2. ASSUME F \in Running(on), r \in on PROVE r \in Rules(on)
    BY <2>2 DEF Rules
  <2> QED BY <2>1, <2>2
<1>6. r \in TakenBack(on, found) <=> r \in Rules(on) /\ r \in NotApplicable(found)
  BY <1>1, <1>2 DEF TakenBack
<1>7. r \in Performed(on, found) <=> F \in Running(on) /\ r \in on /\ r \notin NotApplicable(found)
  <2>1. r \notin Readers
    BY <1>1 DEF Readers, OfReader
  <2> QED BY <1>1, <1>2, <1>5, <1>6, <2>1 DEF Performed
<1>8. PICK gate : gate = FamilyGate(F, on)
  OBVIOUS
<1>9. CASE gate = ""
  <2>1. FamilySkips(F, on) = {Skip(x, "deselected") : x \in Families[F] \ on}
    BY <1>8, <1>9 DEF FamilySkips
  <2>2. \A s \in FamilySkips(F, on) : s.check = r => r \notin on /\ s.reason = "deselected"
    BY <1>3, <2>1
  <2>3. CASE r \notin on
    <3>1. Skip(r, "deselected") \in Skipped(on, found)
      BY <2>1, <2>3, SkippedHas
    <3>2. \A s \in Skipped(on, found) : s.check = r => s.reason = "deselected"
      BY <1>4, <2>2, <2>3
    <3> QED BY <1>7, <2>3, <3>1, <3>2, OneWhy DEF Accounted
  <2>4. CASE r \in on /\ r \in NotApplicable(found)
    <3>1. Skip(r, "adapter-not-applicable") \in Skipped(on, found)
      BY <1>2, <1>8, <1>9, <2>4, SkippedHas
    <3>2. \A s \in Skipped(on, found) : s.check = r => s.reason = "adapter-not-applicable"
      BY <1>4, <2>2, <2>4
    <3> QED BY <1>7, <2>4, <3>1, <3>2, OneWhy DEF Accounted
  <2>5. CASE r \in on /\ r \notin NotApplicable(found)
    <3>1. \A s \in Skipped(on, found) : s.check # r
      BY <1>4, <2>2, <2>5
    <3> QED BY <1>2, <1>7, <1>8, <1>9, <2>5, <3>1, NoWhy DEF Accounted
  <2> QED BY <1>7, <2>3, <2>4, <2>5
<1>10. CASE gate # ""
  <2>1. PICK why : why = IF r \in on \/ gate = "version-gated" THEN gate ELSE "deselected"
    OBVIOUS
  <2>2. FamilySkips(F, on) =
          {Skip(F, gate)} \cup {Skip(x, IF x \in on \/ gate = "version-gated" THEN gate ELSE "deselected") :
                                  x \in Families[F]}
    BY <1>8, <1>10 DEF FamilySkips
  <2>3. Skip(r, why) \in FamilySkips(F, on)
    BY <2>1, <2>2
  <2>4. ASSUME NEW s \in FamilySkips(F, on), s.check = r PROVE s.reason = why
    <3>1. s # Skip(F, gate)
      BY <1>1, <1>3, <2>4
    <3>2. PICK x \in Families[F] : s = Skip(x, IF x \in on \/ gate = "version-gated" THEN gate ELSE "deselected")
      BY <2>2, <3>1
    <3> QED BY <1>3, <2>1, <2>4, <3>2
  <2>5. F \notin Running(on)
    BY <1>2, <1>8, <1>10
  <2>6. \A s \in Skipped(on, found) : s.check = r => s.reason = why
    BY <1>4, <2>4, <2>5
  <2>7. Skip(r, why) \in Skipped(on, found)
    BY <2>3, SkippedHas
  <2> QED BY <1>7, <2>5, <2>6, <2>7, OneWhy DEF Accounted
<1> QED BY <1>7, <1>9, <1>10

LEMMA FamilyAccounted ==
  ASSUME NEW on, NEW found, NEW F \in DOMAIN Families, Families[F] \cap Performed(on, found) # {}
  PROVE  F \in Performed(on, found) /\ Whys(Skipped(on, found), F) = {}
<1>1. PICK r \in Families[F] : r \in Performed(on, found)
  OBVIOUS
<1>2. F \in Running(on) /\ r \in on /\ r \notin NotApplicable(found)
  BY <1>1, RuleAccounted
<1>3. Running(on) \subseteq DOMAIN Families /\ FamilyGate(F, on) = ""
  BY <1>2 DEF Running
<1>4. ~Idle(F, on, found)
  BY <1>1, <1>2 DEF Idle
<1>5. \A G \in DOMAIN Families : F \notin Families[G]
  BY FamilyRules
<1>6. F \notin Rules(on)
  BY <1>3, <1>5 DEF Rules
<1>7. F \notin TakenBack(on, found)
  BY <1>4, <1>6 DEF TakenBack
<1>8. F \in Performed(on, found)
  BY <1>2, <1>7 DEF Performed
<1>9. \A why, x : Skip(x, why).check = x
  BY DEF Skip
<1>10. ASSUME NEW s \in Skipped(on, found), s.check = F PROVE FALSE
  <2>1. s \notin ReaderSkips(on)
    BY <1>10, ReaderSkipsAre, StructuralIs
  <2>2. ASSUME NEW G \in DOMAIN Families, s \in FamilySkips(G, on) PROVE FALSE
    BY <1>3, <1>5, <1>10, <2>2, FamilySkipsAre
  <2>3. ASSUME NEW G \in Running(on), Idle(G, on, found), s = Skip(G, "adapter-not-applicable") PROVE FALSE
    BY <1>4, <1>9, <1>10, <2>3
  <2>4. ASSUME NEW G \in Running(on), NEW x \in Families[G] \cap on \cap NotApplicable(found),
               s = Skip(x, "adapter-not-applicable")
        PROVE  FALSE
    BY <1>3, <1>5, <1>9, <1>10, <2>4
  <2> QED BY <2>1, <2>2, <2>3, <2>4, SkippedParts
<1> QED BY <1>8, <1>10, NoWhy

-----------------------------------------------------------------------------
(* What a rule finds bears its code.                                       *)

LEMMA CodesAre ==
  ASSUME NEW s, NEW capable
  PROVE
        /\ \A f \in Checks!DuplicateIds(s) : f.code = "SL003"
        /\ \A f \in Checks!MissingParents(s) : f.code = "SL004"
        /\ \A f \in Checks!ParentCycles(s) : f.code = "SL005"
        /\ \A f \in Checks!Disconnected(s) : f.code = "SL006"
        /\ \A f \in Checks!Heads(s) : f.code = "SL007"
        /\ \A f \in Checks!Orphans(s) : f.code = "SL101"
        /\ \A f \in Checks!Dangling(s) : f.code = "SL102"
        /\ \A f \in Checks!ReusedCalls(s) : f.code = "SL103"
        /\ \A f \in Checks!MultiResults(s) : f.code = "SL104"
        /\ \A f \in Checks!Reversed(s) : f.code = "SL105"
        /\ \A f \in Checks!CrossBranch(s) : f.code = "SL106"
        /\ \A f \in Checks!Apart(s) : f.code = "SL107"
        /\ \A f \in Checks!CompactionSplits(s) : f.code = "SL108"
        /\ \A f \in Checks!CheckpointGaps(s) : f.code = "SL201"
        /\ \A f \in Checks!Divergences(s) : f.code = "SL202"
        /\ \A f \in Checks!CoverageClaims(s) : f.code = "SL205"
        /\ \A f \in Checks!UnsafeContinuations(s, capable) : f.code = "SL203"
<1>0. \A code, severity, repair, at, corr, list, count :
        Checks!Finding(code, severity, repair, at, corr, list, count).code = code
  BY DEF Checks!Finding
<1>1. \A f \in Checks!DuplicateIds(s) : f.code = "SL003"
  <2>1. ASSUME NEW f \in Checks!DuplicateIds(s) PROVE f.code = "SL003"
    <3>1. PICK id : f = LET at == Checks!Occurrences(s, id)
                            same == Checks!IdenticalAt(s, at)
                            listed == Checks!Ascending(at)
                        IN Checks!Finding("SL003", IF same THEN "warning" ELSE "error",
                                          IF same THEN "deterministic" ELSE "manual",
                                          Checks!Min(at), None, SubSeq(listed, 1, Checks!Min({Len(listed), 2})),
                                          Checks!Cardinality(at))
      BY Zenon DEF Checks!DuplicateIds
    <3> QED BY <1>0, <3>1
  <2> QED BY <2>1
<1>2. \A f \in Checks!MissingParents(s) : f.code = "SL004"
  BY DEF Checks!MissingParents, Checks!Finding
<1>3. \A f \in Checks!ParentCycles(s) : f.code = "SL005"
  <2>1. ASSUME NEW f \in Checks!ParentCycles(s) PROVE f.code = "SL005"
    <3>1. PICK ring : f = Checks!Finding("SL005", "fatal", "unsupported",
                            Checks!Min(UNION {Checks!Occurrences(s, id) : id \in ring}), None, <<>>, 1)
      BY Zenon DEF Checks!ParentCycles
    <3> QED BY <1>0, <3>1
  <2> QED BY <2>1
<1>4. \A f \in Checks!Disconnected(s) : f.code = "SL006"
  BY DEF Checks!Disconnected, Checks!Finding
<1>5. \A f \in Checks!Heads(s) : f.code = "SL007"
  BY DEF Checks!Heads, Checks!Finding
<1>6. \A f \in Checks!Orphans(s) : f.code = "SL101"
  BY DEF Checks!Orphans, Checks!Finding
<1>7. \A f \in Checks!Dangling(s) : f.code = "SL102"
  BY DEF Checks!Dangling, Checks!Finding
<1>8. \A f \in Checks!ReusedCalls(s) : f.code = "SL103"
  BY DEF Checks!ReusedCalls, Checks!Finding
<1>9. \A f \in Checks!MultiResults(s) : f.code = "SL104"
  <2>1. ASSUME NEW f \in Checks!MultiResults(s) PROVE f.code = "SL104"
    <3>1. PICK k : f = LET same == Checks!Cardinality({s[i].content : i \in Checks!Results(s, k)}) = 1
                       IN Checks!Finding("SL104", "error",
                                         IF same /\ Checks!Cardinality(Checks!Calls(s, k)) = 1
                                         THEN "deterministic" ELSE "manual",
                                         Checks!Min(Checks!Results(s, k)), k, <<>>,
                                         Checks!Cardinality(Checks!Results(s, k)))
      BY Zenon DEF Checks!MultiResults
    <3> QED BY <1>0, <3>1
  <2> QED BY <2>1
<1>10. \A f \in Checks!Reversed(s) : f.code = "SL105"
  BY DEF Checks!Reversed, Checks!Finding
<1>11. \A f \in Checks!CrossBranch(s) : f.code = "SL106"
  BY DEF Checks!CrossBranch, Checks!Finding
<1>12. \A f \in Checks!Apart(s) : f.code = "SL107"
  BY DEF Checks!Apart, Checks!Finding
<1>13. \A f \in Checks!CompactionSplits(s) : f.code = "SL108"
  BY DEF Checks!CompactionSplits, Checks!Finding
<1>14. \A f \in Checks!CheckpointGaps(s) : f.code = "SL201"
  BY DEF Checks!CheckpointGaps, Checks!Finding
<1>15. \A f \in Checks!Divergences(s) : f.code = "SL202"
  BY DEF Checks!Divergences, Checks!Finding
<1>16. \A f \in Checks!CoverageClaims(s) : f.code = "SL205"
  BY DEF Checks!CoverageClaims, Checks!Finding
<1>17. \A f \in Checks!UnsafeContinuations(s, capable) : f.code = "SL203"
  BY DEF Checks!UnsafeContinuations, Checks!Finding
<1> QED BY <1>1, <1>2, <1>3, <1>4, <1>5, <1>6, <1>7, <1>8, <1>9, <1>10, <1>11, <1>12, <1>13, <1>14, <1>15, <1>16, <1>17

CheckerCodes == {"SL003", "SL004", "SL005", "SL006", "SL007", "SL008", "SL101", "SL102", "SL103", "SL104", "SL105",
             "SL106", "SL107", "SL108", "SL201", "SL202", "SL203", "SL205"}

LEMMA UnderCodes ==
  ASSUME NEW s, NEW capable
  PROVE  \A f \in Checks!FindingsUnder(s, capable) : f.code \in CheckerCodes
<1> SUFFICES ASSUME NEW f \in Checks!FindingsUnder(s, capable) PROVE f.code \in CheckerCodes
  OBVIOUS
<1>1. \/ f \in Checks!DuplicateIds(s) \/ f \in Checks!MissingParents(s) \/ f \in Checks!ParentCycles(s)
      \/ f \in Checks!Disconnected(s) \/ f \in Checks!Heads(s) \/ f \in Checks!Orphans(s)
      \/ f \in Checks!Dangling(s) \/ f \in Checks!ReusedCalls(s) \/ f \in Checks!MultiResults(s)
      \/ f \in Checks!Reversed(s) \/ f \in Checks!CrossBranch(s) \/ f \in Checks!Apart(s)
      \/ f \in Checks!CompactionSplits(s) \/ f \in Checks!CheckpointGaps(s) \/ f \in Checks!Divergences(s)
      \/ f \in Checks!UnsafeContinuations(s, capable) \/ f \in Checks!CoverageClaims(s)
  BY DEF Checks!FindingsUnder
<1>2. f.code \in {"SL003", "SL004", "SL005", "SL006", "SL007", "SL101", "SL102", "SL103", "SL104", "SL105",
                  "SL106", "SL107", "SL108", "SL201", "SL202", "SL203", "SL205"}
  BY <1>1, CodesAre
<1> QED BY <1>2 DEF CheckerCodes

\* A structural finding is of a rule that has something to go by.
LEMMA StructuralCodes ==
  ASSUME NEW f \in StructuralFindings
  PROVE  f.code \in CheckerCodes
<1>1. PICK s, capable : s = Seen /\ capable = CheckpointCapable
  OBVIOUS
<1>2. PICK g \in Checks!FindingsUnder(s, capable) : f = Found(g.code, g.severity)
  BY <1>1 DEF StructuralFindings
<1>3. g.code \in CheckerCodes
  BY UnderCodes
<1> QED BY <1>2, <1>3 DEF Found

LEMMA ReportedApplies ==
  ASSUME NEW found, NEW code \in CheckerCodes, code = "SL203" => \E f \in found : f.code = "SL203"
  PROVE  code \in Structural /\ code \notin NotApplicable(found)
<1>1. code \in Structural
  BY StructuralIs, FamilyNames DEF CheckerCodes, Families
<1>2. code \notin {"SL010", "SL011", "SL206", "SL207", "SL208", "SL305"}
  BY DEF CheckerCodes
<1>3. \A r \in NotApplicable(found) :
         \/ r \in {"SL010", "SL011", "SL206", "SL207", "SL208", "SL305"}
         \/ r = "SL203" /\ ~\E f \in found : f.code = "SL203"
  BY DEF NotApplicable
<1> QED BY <1>1, <1>2, <1>3

\* Nothing is returned that was not found.
LEMMA ReturnedFrom ==
  ASSUME IsSequence(load.findings)
  PROVE  ToSet(Returned) \subseteq ToSet(load.findings)
<1>1. PICK q, n : q = load.findings /\ n = MaxEventFindings
  OBVIOUS
<1>2. q \in Seq(ToSet(q)) /\ Len(q) \in Nat /\ DOMAIN q = 1..Len(q)
  BY <1>1, SequenceIs DEF IsSequence
<1>3. CASE Returned = q
  BY <1>1, <1>3
<1>4. CASE Len(q) > n /\ Returned = SubSeq(q, 1, n)
  <2>1. n \in Nat \ {0}
    BY <1>1, KeptAssumption
  <2>2. DOMAIN SubSeq(q, 1, n) = 1..n /\ \A k \in 1..n : SubSeq(q, 1, n)[k] = q[k]
    BY <1>2, <1>4, <2>1
  <2>3. 1..n \subseteq DOMAIN q
    BY <1>2, <1>4, <2>1
  <2> QED BY <1>1, <1>4, <2>2, <2>3 DEF ToSet
<1> QED BY <1>1, <1>2, <1>3, <1>4, KeptAssumption DEF Returned, Kept

\* What the reader says is no structural finding.
LEMMA ReaderCodes ==
  ASSUME Said(load), NEW critical, NEW f \in ReaderFindings(critical)
  PROVE  f.code \notin Structural
<1>1. f.code \in {"SL001", "SL002", "SL301", "SL302", "SL303", "SL304", "SL306"}
  <2>1. CASE BlankInput
    BY <2>1 DEF ReaderFindings, Found
  <2>2. CASE ~BlankInput
    <3>1. PICK g \in ToSet(Returned) \cup ReturnedClosing :
             f = Found(g.code, ReaderSeverity(g.code, critical))
      BY <2>2 DEF ReaderFindings
    <3>2. g \in ToSet(load.findings) \cup load.closing
      BY <3>1, ReturnedFrom DEF ReturnedClosing, Said
    <3>3. g.code \in LineCodes \/ g.code \in {"SL304", "SL306"}
      BY <3>2 DEF ToSet, Said, Coded
    <3> QED BY <3>1, <3>3 DEF Found, LineCodes
  <2> QED BY <2>1, <2>2
<1>2. f.code \notin {"SL303", "SL304"} => f.code \in OfReader
  BY <1>1 DEF OfReader, ReaderRules
<1>3. {"SL303", "SL304"} \cap Structural = {}
  BY StructuralIs, FamilyNames DEF Families
<1> QED BY <1>2, <1>3, StructuralIs

-----------------------------------------------------------------------------
(* The report as a whole.                                                  *)

Honest(v) ==
  /\ \A r \in ListedRules : Accounted(v.performed, v.skipped, v.asked.on, r)
  /\ \A f \in v.found : f.code \in Structural => f.code \in v.performed
  /\ \A F \in DOMAIN Families :
       Families[F] \cap v.performed # {} => F \in v.performed /\ Whys(v.skipped, F) = {}

LEMMA VerdictIs ==
  ASSUME NEW level, NEW found, NEW performed, NEW skipped, NEW asked, NEW v,
         v = Verdict(level, found, performed, skipped, asked)
  PROVE  v.found = found /\ v.performed = performed /\ v.skipped = skipped /\ v.asked = asked
BY DEF Verdict

\* Of a file that was not read no rule ran, and all of them for the same reason.
LEMMA UnreadIsHonest ==
  ASSUME NEW reason, NEW found, NEW asked, NEW v, v = NothingRead(reason, found, asked),
         \A f \in found : f.code \notin Structural
  PROVE  Honest(v)
<1>1. PICK skipped : skipped = AllSkipped(reason)
  OBVIOUS
<1>2. v.found = found /\ v.performed = {} /\ v.skipped = skipped /\ v.asked = asked
  BY <1>1, VerdictIs DEF NothingRead
<1>3. ASSUME NEW r \in ListedRules PROVE Accounted(v.performed, v.skipped, v.asked.on, r)
  <2>1. Skip(r, reason) \in skipped
    BY <1>1 DEF AllSkipped, ListedRules
  <2>2. \A s \in skipped : s.check = r => s.reason = reason
    BY <1>1 DEF AllSkipped, Skip
  <2>3. Cardinality(Whys(skipped, r)) = 1
    BY <2>1, <2>2, OneWhy
  <2> QED BY <1>2, <2>3 DEF Accounted
<1> QED BY <1>2, <1>3 DEF Honest

\* What a structural rule found, it ran for: the rules that find have something to
\* go by, and none of them runs behind the gate.
LEMMA FoundRan ==
  ASSUME NEW on, NEW structural, structural \subseteq StructuralFindings,
         NEW code \in on, Analysed, code \in CheckerCodes,
         code = "SL203" => \E f \in structural : f.code = "SL203"
  PROVE  code \in Performed(on, structural)
<1>1. code \in Structural /\ code \notin NotApplicable(structural)
  BY ReportedApplies
<1>2. PICK F \in DOMAIN Families : code \in Families[F]
  BY <1>1, StructuralIs
<1>3. F \in Running(on)
  BY <1>2, GateIs DEF Running
<1> QED BY <1>1, <1>2, <1>3, RuleAccounted

LEMMA AnalysisIsHonest ==
  ASSUME Said(load), NEW on, NEW structural, structural \subseteq StructuralFindings,
         NEW critical, NEW warned, NEW known, NEW level, NEW asked, asked.on = on,
         NEW all, all = ReaderFindings(critical)
                        \cup IF ~Analysed THEN {}
                             ELSE structural \cup IF warned THEN {Found("SL008", "warning")} ELSE {},
         NEW v, v = Verdict(level, Remaining(all, on, known), Performed(on, structural),
                            Skipped(on, structural), asked)
  PROVE  Honest(v)
<1>1. /\ v.found = Remaining(all, on, known) /\ v.performed = Performed(on, structural)
      /\ v.skipped = Skipped(on, structural) /\ v.asked.on = on
  BY VerdictIs
<1>2. ASSUME NEW r \in ListedRules PROVE Accounted(Performed(on, structural), Skipped(on, structural), on, r)
  <2>1. CASE r \in OfReader
    BY <2>1, ReaderAccounted
  <2>2. CASE r \in Structural
    <3>1. PICK F \in DOMAIN Families : r \in Families[F]
      BY <2>2, StructuralIs
    <3> QED BY <3>1, RuleAccounted
  <2> QED BY <2>1, <2>2, StructuralIs
<1>3. ASSUME NEW f \in Remaining(all, on, known), f.code \in Structural
      PROVE  f.code \in Performed(on, structural)
  <2>1. f \in all /\ f.code \in on
    BY DEF Remaining
  <2>2. f \notin ReaderFindings(critical)
    BY <1>3, ReaderCodes
  <2>3. Analysed /\ (f \in structural \/ f = Found("SL008", "warning"))
    BY <2>1, <2>2
  <2>4. f.code \in CheckerCodes /\ (f.code = "SL203" => f \in structural)
    <3>1. CASE f \in structural
      BY <3>1, StructuralCodes
    <3>2. CASE f = Found("SL008", "warning")
      BY <3>2 DEF Found, CheckerCodes
    <3> QED BY <2>3, <3>1, <3>2
  <2> QED BY <2>1, <2>3, <2>4, FoundRan
<1>4. ASSUME NEW F \in DOMAIN Families, Families[F] \cap Performed(on, structural) # {}
      PROVE  F \in Performed(on, structural) /\ Whys(Skipped(on, structural), F) = {}
  BY <1>4, FamilyAccounted
<1> QED BY ZenonT(40), <1>1, <1>2, <1>3, <1>4 DEF Honest

LEMMA HonestCovers ==
  ASSUME pc = "done" => Honest(report)
  PROVE  CoverageHonest
<1> SUFFICES ASSUME Honest(report) PROVE CoverageHonest
  BY DEF CoverageHonest
<1>1. \A r : Reasons(r) = Whys(report.skipped, r)
  BY DEF Reasons, Whys
<1> QED BY <1>1 DEF CoverageHonest, Honest, Accounted, ListedRules

\* The invariant: the report of a file that was read to its end is honest.
ReportInv == report # None /\ pc = "done" => Honest(report)

LEMMA NotStructural ==
  \A f \in {Found("SL001", "error"), Found("SL302", "error")} : f.code \notin Structural
BY StructuralIs DEF Found, OfReader, ReaderRules

LEMMA JudgeIsHonest ==
  ASSUME ReadInv, Judge, pc = "done"
  PROVE  Honest(report')
<1>1. PICK structural \in {IF pc = "done" /\ Analysed THEN StructuralFindings ELSE {}},
           reason \in Resolutions, ignored \in Deselections, known \in BOOLEAN :
             LET asked == [on |-> AllRules \ ignored, known |-> known]
             IN TooLarge(asked) \/ NotText(asked) \/ Undetected(reason, asked)
                \/ Analysis(structural, reason, asked)
  BY Zenon DEF Judge
<1>2. PICK asked : asked = [on |-> AllRules \ ignored, known |-> known]
  OBVIOUS
<1>3. TooLarge(asked) \/ NotText(asked) \/ Undetected(reason, asked) \/ Analysis(structural, reason, asked)
  BY <1>1, <1>2
<1>4. structural \subseteq StructuralFindings
  BY <1>1
<1>5. Settled
  BY DEF Judge
<1>6. CASE NotText(asked)
  <2>1. PICK found : found = Remaining({Found("SL001", "error")}, asked.on, asked.known)
    OBVIOUS
  <2>2. report' = NothingRead("adapter-not-applicable", found, asked)
    BY <1>6, <2>1 DEF NotText
  <2>3. \A f \in found : f.code \notin Structural
    BY <2>1, NotStructural DEF Remaining
  <2> QED BY <2>2, <2>3, UnreadIsHonest
<1>7. CASE Undetected(reason, asked)
  <2>1. PICK found : found = Remaining({ResolveFailure(reason)} \ {Found("SL302", "error")}, asked.on, FALSE)
    OBVIOUS
  <2>2. report' = NothingRead("adapter-not-applicable", found, asked)
    BY <1>7, <2>1 DEF Undetected
  <2>3. ResolveFailure(reason) \in {Found("SL001", "error"), Found("SL302", "error")}
    BY DEF ResolveFailure
  <2>4. \A f \in found : f.code \notin Structural
    BY <2>1, <2>3, NotStructural DEF Remaining
  <2> QED BY <2>2, <2>4, UnreadIsHonest
<1>8. CASE Analysis(structural, reason, asked)
  <2>1. PICK critical \in BOOLEAN, warned \in BOOLEAN :
           LET all == ReaderFindings(critical)
                      \cup IF ~Analysed THEN {}
                           ELSE structural \cup IF warned THEN {Found("SL008", "warning")} ELSE {}
               shown == Remaining(all, asked.on, asked.known)
           IN report' = Verdict(Checks!Assurance(load.events, shown), shown, Performed(asked.on, structural),
                                Skipped(asked.on, structural), asked)
    BY <1>8 DEF Analysis
  <2>2. PICK all : all = ReaderFindings(critical)
                         \cup IF ~Analysed THEN {}
                              ELSE structural \cup IF warned THEN {Found("SL008", "warning")} ELSE {}
    OBVIOUS
  <2>3. PICK on, level : on = asked.on /\ level = Checks!Assurance(load.events, Remaining(all, on, asked.known))
    OBVIOUS
  <2>4. report' = Verdict(level, Remaining(all, on, asked.known), Performed(on, structural),
                          Skipped(on, structural), asked)
    BY <2>1, <2>2, <2>3
  <2>5. Said(load)
    BY <1>5, SettledSays
  <2> QED BY <1>4, <2>2, <2>3, <2>4, <2>5, AnalysisIsHonest
<1>9. ~TooLarge(asked)
  BY DEF TooLarge
<1> QED BY <1>3, <1>6, <1>7, <1>8, <1>9

\* Every rule is listed once, as performed or with the one reason why it was not, and
\* what a structural rule found, it ran for (runner.py:220, api.py:467).
THEOREM CoverageIsHonest == CheckSpec => []CoverageHonest
<1>1. CheckInit => ReportInv
  BY DEF CheckInit, ReportInv
<1>2. ReadInv /\ ReportInv /\ [CheckNext]_<<vars, report>> => ReportInv'
  <2> SUFFICES ASSUME ReadInv, ReportInv, [CheckNext]_<<vars, report>>, report' # None, pc' = "done"
               PROVE  Honest(report')
    BY DEF ReportInv
  <2>1. CASE Judge
    <3>1. pc' = pc
      BY <2>1 DEF Judge, vars
    <3> QED BY <2>1, <3>1, JudgeIsHonest
  <2>2. CASE UNCHANGED <<vars, report>>
    BY <2>2 DEF ReportInv, vars
  <2>3. CASE Next /\ report = None /\ UNCHANGED report
    BY <2>3
  <2> QED BY <2>1, <2>2, <2>3 DEF CheckNext
<1>3. ReportInv => CoverageHonest
  <2> SUFFICES ASSUME ReportInv, report # None PROVE CoverageHonest
    BY DEF CoverageHonest, Judged
  <2> QED BY HonestCovers DEF ReportInv
<1> QED BY <1>1, <1>2, <1>3, ReadAlways, PTL DEF CheckSpec

-----------------------------------------------------------------------------
(* Ids that were made up.                                                  *)

Tags == {"text", "call", "res"}

\* An id that a part of a record got.
Extends(id, stem) == \E tag \in Tags, i \in Nat : id = stem \o <<tag, i>>

\* What is made up for a record that bears the number n, and may have an id.
Made(id, rec, n, L) ==
  \/ /\ rec.id = None /\ SyntheticEventId(n) \in L.synthetic
     /\ id = SyntheticEventId(n) \/ Extends(id, SyntheticEventId(n))
  \/ /\ rec.id # None /\ IsId(rec.id) /\ rec.id \in L.real
     /\ Extends(id, rec.id)

\* The id of an event is known by its sort, and made up for its record; rs has the
\* record of each line.
Sourced(e, n, L, rs) ==
  /\ e.line \in DOMAIN rs
  /\ e.original => e.id \in L.real
  /\ ~e.original => e.id \in L.synthetic /\ Made(e.id, rs[e.line], n, L)

\* No two events of records without an id have the same one.
Nameless(e, rs) == ~e.original /\ rs[e.line].id = None
Apart(es, rs) ==
  \A j, k \in DOMAIN es : j < k /\ Nameless(es[j], rs) /\ Nameless(es[k], rs) => es[j].id # es[k].id

\* The numbers below b are in use.
Fresh(L, b, rs) ==
  /\ DOMAIN L = LoadFields /\ IsSequence(L.events)
  /\ \A k \in DOMAIN L.events : \E n \in Nat : n < b /\ Sourced(L.events[k], n, L, rs)
  /\ Apart(L.events, rs)

\* Events of one record, which bears the number n.
Cluster(es, n, L, rs) ==
  /\ IsSequence(es)
  /\ \A k \in DOMAIN es : Sourced(es[k], n, L, rs)
  /\ Apart(es, rs)

\* A sequence r that is p, then q.
Joint(p, q, r) ==
  /\ IsSequence(r) /\ Len(r) = Len(p) + Len(q) /\ DOMAIN r = 1..(Len(p) + Len(q))
  /\ \A k \in 1..Len(p) : r[k] = p[k]
  /\ \A k \in 1..Len(q) : r[Len(p) + k] = q[k]

LEMMA JointIs ==
  ASSUME NEW p, NEW q, IsSequence(p), IsSequence(q), NEW r, r = p \o q
  PROVE  Joint(p, q, r)
<1>1. /\ IsSequence(p \o q) /\ Len(p \o q) = Len(p) + Len(q)
      /\ DOMAIN (p \o q) = 1..(Len(p) + Len(q))
      /\ \A k \in 1..Len(p) : (p \o q)[k] = p[k]
      /\ \A k \in 1..Len(q) : (p \o q)[Len(p) + k] = q[k]
  BY Joined
<1> QED BY <1>1 DEF Joint

LEMMA PairIs ==
  ASSUME NEW x, NEW y
  PROVE  IsSequence(<<x, y>>) /\ Len(<<x, y>>) = 2 /\ <<x, y>>[1] = x /\ <<x, y>>[2] = y
<1>1. <<x, y>> \in Seq({x, y})
  OBVIOUS
<1> QED BY <1>1, SequenceIs

LEMMA SequenceSpelt ==
  ASSUME NEW q, IsSequence(q)
  PROVE  Len(q) \in Nat /\ q = [k \in 1..Len(q) |-> q[k]]
BY DEF IsSequence

LEMMA SameSequence ==
  ASSUME NEW p, NEW q, IsSequence(p), IsSequence(q), Len(p) = Len(q), \A k \in 1..Len(p) : p[k] = q[k]
  PROVE  p = q
<1>1. PICK n : n = Len(p)
  OBVIOUS
<1>2. p = [k \in 1..n |-> p[k]] /\ q = [k \in 1..n |-> q[k]]
  BY <1>1, SequenceSpelt
<1>3. [k \in 1..n |-> p[k]] = [k \in 1..n |-> q[k]]
  BY <1>1
<1> QED BY <1>2, <1>3

\* What was appended can be taken off again.
LEMMA PairOff ==
  ASSUME NEW p, NEW q, IsSequence(p), IsSequence(q),
         NEW s, NEW t, IsSequence(s), IsSequence(t), Len(s) = 2, Len(t) = 2, p \o s = q \o t
  PROVE  p = q
<1>1. PICK c, d : c = p \o s /\ d = q \o t
  OBVIOUS
<1>2. c = d
  BY <1>1
<1>3. /\ Len(c) = Len(p) + 2 /\ (\A k \in 1..Len(p) : c[k] = p[k]) /\ \A k \in 1..2 : c[Len(p) + k] = s[k]
      /\ Len(d) = Len(q) + 2 /\ (\A k \in 1..Len(q) : d[k] = q[k]) /\ \A k \in 1..2 : d[Len(q) + k] = t[k]
  <2>1. Joint(p, s, c) /\ Joint(q, t, d)
    BY <1>1, JointIs
  <2> QED BY <2>1 DEF Joint
<1>4. PICK n \in Nat : n = Len(p)
  BY SequenceIs
<1>5. Len(q) = n
  <2>1. Len(q) \in Nat
    BY SequenceIs
  <2> QED BY <1>2, <1>3, <1>4, <2>1
<1>6. \A k \in 1..n : p[k] = q[k]
  BY <1>2, <1>3, <1>4, <1>5
<1>7. p = q
  BY <1>4, <1>5, <1>6, SameSequence
<1> QED BY <1>7

LEMMA SyntheticIs ==
  ASSUME NEW n
  PROVE  /\ IsSequence(SyntheticEventId(n)) /\ Len(SyntheticEventId(n)) = 2
         /\ SyntheticEventId(n)[1] = "synthetic" /\ SyntheticEventId(n)[2] = n
BY PairIs DEF SyntheticEventId

LEMMA IdIs ==
  ASSUME NEW id, IsId(id)
  PROVE  IsSequence(id)
BY Listed DEF IsId

\* An id that was extended is longer, and ends with a tag and a number.
LEMMA ExtendedIs ==
  ASSUME NEW id, NEW stem, IsSequence(stem), Extends(id, stem)
  PROVE  /\ IsSequence(id) /\ Len(id) = Len(stem) + 2 /\ Len(stem) \in Nat
         /\ id[Len(stem) + 1] \in Tags
<1>1. PICK tag \in Tags, i \in Nat : id = stem \o <<tag, i>>
  BY DEF Extends
<1>2. PICK s : s = <<tag, i>>
  OBVIOUS
<1>3. IsSequence(s) /\ Len(s) = 2 /\ s[1] = tag
  BY <1>2, PairIs
<1>4. id = stem \o s
  BY <1>1, <1>2
<1>5. IsSequence(id) /\ Len(id) = Len(stem) + 2 /\ \A k \in 1..2 : id[Len(stem) + k] = s[k]
  <2>1. Joint(stem, s, id)
    BY <1>3, <1>4, JointIs
  <2> QED BY <1>3, <2>1 DEF Joint
<1>6. id[Len(stem) + 1] = tag
  BY <1>3, <1>5
<1> QED BY <1>1, <1>5, <1>6, SequenceIs

LEMMA SameStem ==
  ASSUME NEW id, NEW p, NEW q, IsSequence(p), IsSequence(q), Extends(id, p), Extends(id, q)
  PROVE  p = q
<1>1. PICK a \in Tags, i \in Nat : id = p \o <<a, i>>
  BY DEF Extends
<1>2. PICK b \in Tags, j \in Nat : id = q \o <<b, j>>
  BY DEF Extends
<1>3. PICK s, t : s = <<a, i>> /\ t = <<b, j>>
  OBVIOUS
<1>4. p \o s = q \o t
  BY <1>1, <1>2, <1>3
<1>5. IsSequence(s) /\ IsSequence(t) /\ Len(s) = 2 /\ Len(t) = 2
  BY <1>3, PairIs
<1> QED BY <1>4, <1>5, PairOff

\* A synthetic id extends no id.
LEMMA SyntheticEnds ==
  ASSUME NEW n, NEW stem, IsSequence(stem), Extends(SyntheticEventId(n), stem)
  PROVE  FALSE
<1>1. PICK id : id = SyntheticEventId(n)
  OBVIOUS
<1>2. /\ Len(id) = 2 /\ id[1] = "synthetic"
      /\ Len(id) = Len(stem) + 2 /\ Len(stem) \in Nat /\ id[Len(stem) + 1] \in Tags
  <2>1. Extends(id, stem)
    BY <1>1
  <2> QED BY <1>1, <2>1, SyntheticIs, ExtendedIs
<1>3. id[1] \in Tags
  <2>1. Len(stem) + 1 = 1
    BY <1>2
  <2> QED BY <1>2, <2>1
<1> QED BY <1>2, <1>3 DEF Tags

\* Records without an id whose ids made up are the same have the same number.
LEMMA SameNumber ==
  ASSUME NEW id, NEW n, NEW m,
         id = SyntheticEventId(n) \/ Extends(id, SyntheticEventId(n)),
         id = SyntheticEventId(m) \/ Extends(id, SyntheticEventId(m))
  PROVE  n = m
<1>1. PICK p, q : p = SyntheticEventId(n) /\ q = SyntheticEventId(m)
  OBVIOUS
<1>2. IsSequence(p) /\ IsSequence(q) /\ p[2] = n /\ q[2] = m
  BY <1>1, SyntheticIs
<1>3. (id = p \/ Extends(id, p)) /\ (id = q \/ Extends(id, q))
  BY <1>1
<1>4. ~Extends(p, q) /\ ~Extends(q, p)
  BY <1>1, <1>2, SyntheticEnds
<1>5. p = q
  BY <1>2, <1>3, <1>4, SameStem
<1> QED BY <1>2, <1>5

\* Ids made up are the same for one record, or for records with the same id, as no id
\* is known in both namespaces.
LEMMA MadeApart ==
  ASSUME NEW id, NEW r, NEW s, NEW n, NEW m, NEW L, L.real \cap L.synthetic = {},
         Made(id, r, n, L), Made(id, s, m, L)
  PROVE  (r.id = s.id /\ r.id # None) \/ (r.id = None /\ s.id = None)
<1>1. ASSUME NEW x, NEW y, NEW i, NEW j, Made(id, x, i, L), Made(id, y, j, L), x.id = None, y.id # None
      PROVE  FALSE
  <2>1. PICK p : p = SyntheticEventId(i)
    OBVIOUS
  <2>2. p \in L.synthetic /\ (id = p \/ Extends(id, p)) /\ IsSequence(p)
    BY <1>1, <2>1, SyntheticIs DEF Made
  <2>3. IsSequence(y.id) /\ y.id \in L.real /\ Extends(id, y.id)
    BY <1>1, IdIs DEF Made
  <2>4. id # p
    BY <2>1, <2>3, SyntheticEnds
  <2>5. p = y.id
    BY <2>2, <2>3, <2>4, SameStem
  <2> QED BY <2>2, <2>3, <2>5
<1>2. CASE r.id # None /\ s.id # None
  <2>1. IsSequence(r.id) /\ IsSequence(s.id) /\ Extends(id, r.id) /\ Extends(id, s.id)
    BY <1>2, IdIs DEF Made
  <2>2. r.id = s.id
    BY <2>1, SameStem
  <2> QED BY <1>2, <2>2
<1> QED BY <1>1, <1>2

LEMMA FreshIsFresh ==
  ASSUME NEW L, NEW b, NEW rs, Fresh(L, b, rs), NoCollision(L),
         NEW j \in DOMAIN L.events, NEW k \in DOMAIN L.events, j < k, NEW d, d = L.events[j],
         NEW e, e = L.events[k], d.id = e.id
  PROVE  (d.original /\ e.original) \/ (rs[d.line].id = rs[e.line].id /\ rs[d.line].id # None)
<1>1. PICK n \in Nat : Sourced(d, n, L, rs)
  BY DEF Fresh
<1>2. PICK m \in Nat : Sourced(e, m, L, rs)
  BY DEF Fresh
<1>3. L.real \cap L.synthetic = {}
  BY DEF NoCollision
<1>4. d.original <=> e.original
  BY <1>1, <1>2, <1>3 DEF Sourced
<1>5. CASE ~d.original /\ ~e.original
  <2>1. PICK r, s : r = rs[d.line] /\ s = rs[e.line]
    OBVIOUS
  <2>2. Made(e.id, r, n, L) /\ Made(e.id, s, m, L)
    BY <1>1, <1>2, <1>5, <2>1 DEF Sourced
  <2>3. (r.id = s.id /\ r.id # None) \/ (r.id = None /\ s.id = None)
    BY <1>3, <2>2, MadeApart
  <2>4. ~(r.id = None /\ s.id = None)
    <3>1. Apart(L.events, rs)
      BY DEF Fresh
    <3>2. ~(Nameless(d, rs) /\ Nameless(e, rs))
      BY <3>1 DEF Apart
    <3> QED BY <1>5, <2>1, <3>2 DEF Nameless
  <2> QED BY <2>1, <2>3, <2>4
<1> QED BY Zenon, <1>4, <1>5

-----------------------------------------------------------------------------
(* Events of one more record.                                              *)

\* Ids were registered, and no events added.
Wider(K, M) ==
  /\ DOMAIN M = LoadFields /\ M.events = K.events
  /\ K.real \subseteq M.real /\ K.synthetic \subseteq M.synthetic

LEMMA WiderOn ==
  ASSUME NEW K, NEW L, NEW M, Wider(K, L), Wider(L, M)
  PROVE  Wider(K, M)
BY DEF Wider

LEMMA SourcedOn ==
  ASSUME NEW e, NEW n, NEW rs, NEW K, Sourced(e, n, K, rs),
         NEW M, K.real \subseteq M.real, K.synthetic \subseteq M.synthetic
  PROVE  Sourced(e, n, M, rs)
<1>1. ASSUME NEW r, Made(e.id, r, n, K) PROVE Made(e.id, r, n, M)
  BY <1>1 DEF Made
<1> QED BY <1>1 DEF Sourced

LEMMA NamelessMade ==
  ASSUME NEW e, NEW n, NEW rs, NEW L, Sourced(e, n, L, rs), Nameless(e, rs)
  PROVE  e.id = SyntheticEventId(n) \/ Extends(e.id, SyntheticEventId(n))
<1>1. PICK r : r = rs[e.line]
  OBVIOUS
<1>2. Made(e.id, r, n, L) /\ r.id = None
  BY <1>1 DEF Sourced, Nameless
<1> QED BY <1>2 DEF Made

LEMMA StillFresh ==
  ASSUME NEW L, NEW M, NEW rs, NEW b \in Nat, NEW c \in Nat, b <= c, Fresh(L, b, rs), Wider(L, M)
  PROVE  Fresh(M, c, rs)
<1>1. /\ DOMAIN M = LoadFields /\ M.events = L.events /\ IsSequence(L.events) /\ Apart(L.events, rs)
      /\ L.real \subseteq M.real /\ L.synthetic \subseteq M.synthetic
  BY DEF Fresh, Wider
<1>2. ASSUME NEW k \in DOMAIN L.events
      PROVE  \E n \in Nat : n < c /\ Sourced(L.events[k], n, M, rs)
  <2>1. PICK n \in Nat : n < b /\ Sourced(L.events[k], n, L, rs)
    BY DEF Fresh
  <2>2. n < c
    BY <2>1
  <2>3. Sourced(L.events[k], n, M, rs)
    BY <1>1, <2>1, SourcedOn
  <2> QED BY <2>2, <2>3
<1> QED BY <1>1, <1>2 DEF Fresh

LEMMA AddFresh ==
  ASSUME NEW L, NEW Q, NEW X, NEW rs, NEW es, NEW b \in Nat, NEW n \in Nat, NEW c \in Nat, b <= n, n < c,
         Fresh(L, b, rs), Wider(L, Q), Cluster(es, n, Q, rs),
         DOMAIN X = LoadFields, X.events = Q.events \o es, X.real = Q.real, X.synthetic = Q.synthetic
  PROVE  Fresh(X, c, rs)
<1>1. /\ Q.events = L.events /\ L.real \subseteq X.real /\ L.synthetic \subseteq X.synthetic
      /\ IsSequence(L.events) /\ Apart(L.events, rs)
  BY DEF Fresh, Wider
<1>2. IsSequence(es) /\ Apart(es, rs)
  BY DEF Cluster
<1>3. PICK ds, xs : ds = L.events /\ xs = X.events
  OBVIOUS
<1>4. PICK p, q \in Nat : p = Len(ds) /\ q = Len(es) /\ DOMAIN ds = 1..p /\ DOMAIN es = 1..q
  BY <1>1, <1>2, <1>3, SequenceIs
<1>5. /\ IsSequence(xs) /\ DOMAIN xs = 1..(p + q)
      /\ (\A k \in 1..p : xs[k] = ds[k]) /\ \A k \in 1..q : xs[p + k] = es[k]
  <2>1. Joint(ds, es, xs)
    BY <1>1, <1>2, <1>3, JointIs
  <2> QED BY <1>4, <2>1 DEF Joint
<1>6. ASSUME NEW k \in 1..p PROVE \E m \in Nat : m < b /\ Sourced(xs[k], m, X, rs)
  <2>1. PICK m \in Nat : m < b /\ Sourced(ds[k], m, L, rs)
    BY <1>3, <1>4 DEF Fresh
  <2>2. Sourced(ds[k], m, X, rs)
    BY <1>1, <2>1, SourcedOn
  <2> QED BY <1>5, <2>1, <2>2
<1>7. ASSUME NEW k \in 1..q PROVE Sourced(xs[p + k], n, X, rs)
  <2>1. Sourced(es[k], n, Q, rs)
    BY <1>4 DEF Cluster
  <2>2. Sourced(es[k], n, X, rs)
    <3>1. Q.real \subseteq X.real /\ Q.synthetic \subseteq X.synthetic
      OBVIOUS
    <3> QED BY <2>1, <3>1, SourcedOn
  <2> QED BY <1>5, <2>2
<1>8. \A k \in 1..(p + q) : k \in 1..p \/ (k - p \in 1..q /\ k = p + (k - p))
  OBVIOUS
<1>9. ASSUME NEW k \in DOMAIN xs PROVE \E m \in Nat : m < c /\ Sourced(xs[k], m, X, rs)
  <2>1. CASE k \in 1..p
    <3>1. PICK m \in Nat : m < b /\ Sourced(xs[k], m, X, rs)
      BY <1>6, <2>1
    <3>2. m < c
      BY <3>1
    <3> QED BY <3>1, <3>2
  <2>2. CASE k \notin 1..p
    <3>1. k - p \in 1..q /\ k = p + (k - p)
      BY <1>5, <1>8, <2>2
    <3>2. Sourced(xs[k], n, X, rs)
      BY <1>7, <3>1
    <3> QED BY <3>2
  <2> QED BY <2>1, <2>2
<1>10. Apart(xs, rs)
  <2> SUFFICES ASSUME NEW j \in DOMAIN xs, NEW k \in DOMAIN xs, j < k, Nameless(xs[j], rs), Nameless(xs[k], rs)
               PROVE  xs[j].id # xs[k].id
    BY DEF Apart
  <2>1. CASE k \in 1..p
    <3>1. j \in 1..p
      BY <1>5, <2>1
    <3> QED BY <1>1, <1>3, <1>4, <1>5, <2>1, <3>1 DEF Apart
  <2>2. CASE j \notin 1..p
    <3>1. PICK i \in 1..q, l \in 1..q : j = p + i /\ k = p + l /\ i < l
      <4>1. j - p \in 1..q /\ k \notin 1..p
        BY <1>5, <1>8, <2>2
      <4>2. k - p \in 1..q /\ j = p + (j - p) /\ k = p + (k - p) /\ j - p < k - p
        BY <1>5, <1>8, <4>1
      <4> QED BY <4>1, <4>2
    <3>2. xs[j] = es[i] /\ xs[k] = es[l]
      BY <1>5, <3>1
    <3> QED BY <1>2, <1>4, <3>1, <3>2 DEF Apart
  <2>3. CASE j \in 1..p /\ k \notin 1..p
    <3> SUFFICES ASSUME xs[j].id = xs[k].id PROVE FALSE
      OBVIOUS
    <3>1. PICK d, e : d = xs[j] /\ e = xs[k]
      OBVIOUS
    <3>2. PICK m \in Nat : m < b /\ Sourced(d, m, X, rs)
      BY <1>6, <2>3, <3>1
    <3>3. Sourced(e, n, X, rs)
      <4>1. k - p \in 1..q /\ k = p + (k - p)
        BY <1>5, <1>8, <2>3
      <4> QED BY <1>7, <3>1, <4>1
    <3>4. d.id = SyntheticEventId(m) \/ Extends(d.id, SyntheticEventId(m))
      BY <3>1, <3>2, NamelessMade
    <3>5. e.id = SyntheticEventId(n) \/ Extends(e.id, SyntheticEventId(n))
      BY <3>1, <3>3, NamelessMade
    <3>6. PICK id : id = d.id /\ id = e.id
      BY <3>1
    <3>7. m = n
      BY <3>4, <3>5, <3>6, SameNumber
    <3> QED BY <3>2, <3>7
  <2> QED BY <2>1, <2>2, <2>3
<1> QED BY <1>3, <1>5, <1>9, <1>10 DEF Fresh

LEMMA EmptyFresh ==
  ASSUME NEW b, NEW rs
  PROVE  Fresh(EmptyLoad, b, rs)
<1>1. /\ DOMAIN EmptyLoad = LoadFields /\ EmptyLoad.events = << >>
  BY DEF EmptyLoad, LoadFields
<1>2. IsSequence(<< >>) /\ DOMAIN << >> = {}
  BY EmptySequence
<1> QED BY <1>1, <1>2 DEF Fresh, Apart

-----------------------------------------------------------------------------
(* What registers ids, and what does not.                                  *)

LEMMA RegisterWidens ==
  ASSUME NEW K, DOMAIN K = LoadFields, NEW id
  PROVE  /\ Wider(K, RegisterReal(K, id)) /\ id \in RegisterReal(K, id).real
         /\ Wider(K, RegisterSynthetic(K, id)) /\ id \in RegisterSynthetic(K, id).synthetic
<1>1. Wider(K, RegisterReal(K, id)) /\ id \in RegisterReal(K, id).real
  BY DEF RegisterReal, Wider, LoadFields
<1>2. Wider(K, RegisterSynthetic(K, id)) /\ id \in RegisterSynthetic(K, id).synthetic
  BY DEF RegisterSynthetic, Wider, LoadFields
<1> QED BY <1>1, <1>2

\* The id of the record is known.
Identified(M, rec, n) ==
  IF rec.id # None THEN rec.id \in M.real ELSE SyntheticEventId(n) \in M.synthetic

LEMMA RecordIdWidens ==
  ASSUME NEW K, DOMAIN K = LoadFields, NEW rec, NEW raw
  PROVE  Wider(K, WithRecordId(K, rec, raw)) /\ Identified(WithRecordId(K, rec, raw), rec, raw.ordinal)
BY RegisterWidens DEF WithRecordId, Identified

LEMMA IdentifiedOn ==
  ASSUME NEW K, NEW M, NEW rec, NEW n, Identified(K, rec, n), Wider(K, M)
  PROVE  Identified(M, rec, n)
BY DEF Identified, Wider

LEMMA SameWider ==
  ASSUME NEW K, DOMAIN K = LoadFields
  PROVE  Wider(K, K)
BY DEF Wider

LEMMA LinksWiden ==
  ASSUME NEW K, DOMAIN K = LoadFields, NEW target
  PROVE  Wider(K, ExtractLinks(K, target))
BY DEF ExtractLinks, Wider, LoadFields

LEMMA ReportWidens ==
  ASSUME NEW K, DOMAIN K = LoadFields, NEW condition, NEW code, NEW raw
  PROVE  Wider(K, Report(K, code, raw)) /\ Wider(K, ReportWhen(K, condition, code, raw))
<1>1. Wider(K, Report(K, code, raw))
  BY DEF Report, Wider, LoadFields
<1> QED BY <1>1, SameWider DEF ReportWhen

LEMMA UnknownWidens ==
  ASSUME NEW K, DOMAIN K = LoadFields, NEW raw
  PROVE  Wider(K, NoteUnknown(K, raw))
BY DEF NoteUnknown, Wider, LoadFields

LEMMA DriftWidens ==
  ASSUME NEW K, DOMAIN K = LoadFields, NEW drift
  PROVE  Wider(K, RecordDrift(K, drift))
BY DEF RecordDrift, Wider, LoadFields

LEMMA SignatureWidens ==
  ASSUME NEW K, DOMAIN K = LoadFields, NEW foreign, NEW raw
  PROVE  Wider(K, ObserveSignature(K, foreign, raw))
BY DriftWidens, SameWider DEF ObserveSignature

LEMMA CheckWidens ==
  ASSUME NEW K, DOMAIN K = LoadFields, NEW version, NEW raw
  PROVE  Wider(K, CheckVersion(K, version, raw))
<1>1. PICK R : R = Report(K, "SL301", raw)
  OBVIOUS
<1>2. Wider(K, R)
  BY <1>1, ReportWidens
<1>3. Wider(R, [R EXCEPT !.sl301 = TRUE])
  BY <1>2 DEF Wider, LoadFields
<1>4. Wider(K, [R EXCEPT !.sl301 = TRUE])
  BY <1>2, <1>3, WiderOn
<1> QED BY <1>1, <1>4, SameWider DEF CheckVersion

LEMMA ObserveWidens ==
  ASSUME NEW K, DOMAIN K = LoadFields, NEW version, NEW raw
  PROVE  Wider(K, ObserveVersion(K, version, raw))
<1>1. PICK R : R = RecordDrift(K, [what |-> <<K.baseline, version>>, line |-> raw.line])
  OBVIOUS
<1>2. Wider(K, R)
  BY <1>1, DriftWidens
<1>3. Wider(R, [R EXCEPT !.baseline = version])
  BY <1>2 DEF Wider, LoadFields
<1>4. Wider(K, [R EXCEPT !.baseline = version])
  BY <1>2, <1>3, WiderOn
<1>5. Wider(K, [K EXCEPT !.unsupported = TRUE]) /\ Wider(K, [K EXCEPT !.baseline = version])
  BY DEF Wider, LoadFields
<1> QED BY <1>1, <1>4, <1>5, SameWider DEF ObserveVersion

-----------------------------------------------------------------------------
(* Records that become one event.                                          *)

\* The event that bears the id of its record.
Bears(e, rec, n, rs) ==
  /\ e.line \in DOMAIN rs /\ rs[e.line] = rec
  /\ e.id = IF rec.id # None THEN rec.id ELSE SyntheticEventId(n)
  /\ e.original <=> rec.id # None

LEMMA EventBears ==
  ASSUME NEW rec, NEW n, NEW rs, NEW raw, raw.line \in DOMAIN rs, rs[raw.line] = rec,
         NEW id, id = IF rec.id # None THEN rec.id ELSE SyntheticEventId(n),
         NEW parent, NEW kind, NEW corr
  PROVE  Bears(Event(id, parent, kind, corr, raw, rec.id # None), rec, n, rs)
<1>1. PICK o \in BOOLEAN : o = (rec.id # None)
  OBVIOUS
<1>2. PICK e : e = Event(id, parent, kind, corr, raw, o)
  OBVIOUS
<1>3. e.line = raw.line /\ e.id = id /\ e.original = o
  BY <1>2 DEF Event
<1>4. o <=> rec.id # None
  BY <1>1
<1>5. Bears(e, rec, n, rs)
  BY <1>3, <1>4 DEF Bears
<1> QED BY Zenon, <1>1, <1>2, <1>5

LEMMA BearsCluster ==
  ASSUME NEW e, NEW rec, NEW n, NEW rs, Bears(e, rec, n, rs), NEW Q, Identified(Q, rec, n)
  PROVE  Cluster(<<e>>, n, Q, rs)
<1>1. PICK es : es = <<e>>
  OBVIOUS
<1>2. IsSequence(es) /\ DOMAIN es = 1..1 /\ es[1] = e
  BY <1>1, OneElement
<1>3. Sourced(e, n, Q, rs)
  <2>1. CASE rec.id # None
    BY <2>1 DEF Bears, Identified, Sourced
  <2>2. CASE rec.id = None
    BY <2>2 DEF Bears, Identified, Sourced, Made
  <2> QED BY <2>1, <2>2
<1>4. Apart(es, rs)
  BY <1>2 DEF Apart
<1>5. Cluster(es, n, Q, rs)
  BY <1>2, <1>3, <1>4 DEF Cluster
<1> QED BY <1>1, <1>5

LEMMA AppendIs ==
  ASSUME NEW q, IsSequence(q), NEW e
  PROVE  Append(q, e) = q \o <<e>>
<1> DEFINE S == ToSet(q) \cup {e}
<1>1. q \in Seq(ToSet(q))
  BY DEF IsSequence
<1>2. q \in Seq(S) /\ e \in S
  BY <1>1
<1> HIDE DEF S
<1> QED BY <1>2

LEMMA EmitFresh ==
  ASSUME NEW L, NEW Q, NEW rs, NEW b \in Nat, NEW n \in Nat, NEW c \in Nat, b <= n, n < c,
         Fresh(L, b, rs), Wider(L, Q), NEW rec, Identified(Q, rec, n), NEW e, Bears(e, rec, n, rs)
  PROVE  /\ Fresh(Emit(Q, e), c, rs) /\ Len(Emit(Q, e).events) = Len(L.events) + 1
         /\ DOMAIN Emit(Q, e) = LoadFields
<1>1. PICK X : X = Emit(Q, e)
  OBVIOUS
<1>2. PICK es : es = <<e>>
  OBVIOUS
<1>3. IsSequence(L.events) /\ Q.events = L.events /\ DOMAIN Q = LoadFields
  BY DEF Fresh, Wider
<1>4. /\ DOMAIN X = LoadFields /\ X.real = Q.real /\ X.synthetic = Q.synthetic
      /\ X.events = Append(Q.events, e)
  BY <1>1, <1>3 DEF Emit, LoadFields
<1>5. X.events = Q.events \o es
  BY <1>2, <1>3, <1>4, AppendIs
<1>6. Cluster(es, n, Q, rs)
  BY <1>2, BearsCluster
<1>7. Fresh(X, c, rs)
  BY <1>4, <1>5, <1>6, AddFresh
<1>8. Len(X.events) = Len(L.events) + 1
  BY <1>3, <1>4, Appended
<1> QED BY <1>1, <1>4, <1>7, <1>8

\* Findings, places and the tail are beside the ids.
LEMMA AsideWidens ==
  ASSUME NEW K, DOMAIN K = LoadFields
  PROVE  /\ \A fs : Wider(K, [K EXCEPT !.findings = @ \o fs])
         /\ \A x : Wider(K, [K EXCEPT !.sl301 = x])
         /\ \A x : Wider(K, [K EXCEPT !.gap = x])
         /\ \A x, y, z : Wider(K, [K EXCEPT !.last = x, !.lastOrdinal = y, !.gap = z])
<1>1. \A fs : Wider(K, [K EXCEPT !.findings = @ \o fs])
  BY DEF Wider, LoadFields
<1>2. \A x : Wider(K, [K EXCEPT !.sl301 = x]) /\ Wider(K, [K EXCEPT !.gap = x])
  BY DEF Wider, LoadFields
<1>3. \A x, y, z : Wider(K, [K EXCEPT !.last = x, !.lastOrdinal = y, !.gap = z])
  BY DEF Wider, LoadFields
<1> QED BY <1>1, <1>2, <1>3

LEMMA NotedWidens ==
  ASSUME NEW K, NEW L, DOMAIN K = LoadFields
  PROVE  Wider(K, NotedSince(L, K))
BY DEF NotedSince, Wider, LoadFields

\* The ids of a codex record, which bears the number of its line.
LEMMA RolloutFresh ==
  ASSUME NEW K, NEW rs, NEW raw, raw.ordinal \in Nat, NEW b, b = raw.ordinal, Fresh(K, b, rs),
         NEW rec, raw.line \in DOMAIN rs, rs[raw.line] = rec
  PROVE  Fresh(ProcessRolloutRecord(K, rec, raw), b + 1, rs)
<1>1. PICK id : id = RecordId(rec, raw)
  OBVIOUS
<1>2. PICK kind : kind = RolloutKind(rec)
  OBVIOUS
<1>3. PICK I : I = WithRecordId(K, rec, raw)
  OBVIOUS
<1>4. PICK S : S = ObserveSignature(I, rec.foreign, raw)
  OBVIOUS
<1>5. PICK C : C = CheckVersion(S, rec.version, raw)
  OBVIOUS
<1>6. PICK V : V = ObserveVersion(C, rec.version, raw)
  OBVIOUS
<1>7. PICK H : H = ExtractLinks(V, rec.link)
  OBVIOUS
<1>8. PICK N : N = IF rec.class \in {"newItem", "newType"} /\ rec.plain
                   THEN NoteUnknown(H, raw) ELSE ReportWhen(H, kind = "unknown", "SL302", raw)
  OBVIOUS
<1>9. PICK Q : Q = ReportWhen(N, rec.critical, "SL302", raw)
  OBVIOUS
<1>10. PICK parent, corr : /\ parent = IF Contiguous(K, rec) THEN K.last ELSE None
                           /\ corr = CorrelationId(rec, kind, id)
  OBVIOUS
<1>11. ProcessRolloutRecord(K, rec, raw) = Emit(Q, Event(id, parent, kind, corr, raw, rec.id # None))
  BY Zenon, <1>1, <1>2, <1>3, <1>4, <1>5, <1>6, <1>7, <1>8, <1>9, <1>10 DEF ProcessRolloutRecord
<1>12. DOMAIN K = LoadFields
  BY DEF Fresh
<1>13. Wider(K, I) /\ Identified(I, rec, b)
  BY <1>3, <1>12, RecordIdWidens
<1>14. Wider(I, H)
  <2>1. Wider(I, S)
    BY <1>4, <1>13, SignatureWidens DEF Wider
  <2>2. Wider(S, C)
    BY <1>5, <2>1, CheckWidens DEF Wider
  <2>3. Wider(C, V)
    BY <1>6, <2>2, ObserveWidens DEF Wider
  <2>4. Wider(V, H)
    BY <1>7, <2>3, LinksWiden DEF Wider
  <2> QED BY <2>1, <2>2, <2>3, <2>4, WiderOn
<1>15. Wider(H, Q)
  <2>1. DOMAIN H = LoadFields
    BY <1>14 DEF Wider
  <2>2. PICK condition : condition = (kind = "unknown")
    OBVIOUS
  <2>3. Wider(H, NoteUnknown(H, raw)) /\ Wider(H, ReportWhen(H, condition, "SL302", raw))
    BY <2>1, UnknownWidens, ReportWidens
  <2>4. Wider(H, N)
    BY <1>8, <2>2, <2>3
  <2>5. Wider(N, Q)
    <3>1. DOMAIN N = LoadFields
      BY <2>4 DEF Wider
    <3> QED BY <1>9, <3>1, ReportWidens
  <2> QED BY <2>4, <2>5, WiderOn
<1>16. Wider(I, Q)
  BY <1>14, <1>15, WiderOn
<1>17. Wider(K, Q) /\ Identified(Q, rec, b)
  BY <1>13, <1>16, WiderOn, IdentifiedOn
<1>18. PICK e : e = Event(id, parent, kind, corr, raw, rec.id # None)
  OBVIOUS
<1>19. Bears(e, rec, b, rs)
  <2>1. id = IF rec.id # None THEN rec.id ELSE SyntheticEventId(b)
    BY <1>1 DEF RecordId
  <2>2. Bears(Event(id, parent, kind, corr, raw, rec.id # None), rec, b, rs)
    BY <2>1, EventBears
  <2> QED BY <1>18, <2>2
<1>20. PICK c \in Nat : c = b + 1 /\ b \in Nat /\ b <= b /\ b < c
  OBVIOUS
<1>21. Fresh(Emit(Q, e), c, rs)
  BY <1>17, <1>19, <1>20, EmitFresh
<1> QED BY <1>11, <1>18, <1>20, <1>21

\* The ids of an item, which bears its place among the events.
LEMMA ItemFresh ==
  ASSUME NEW K, NEW rs, NEW b, b = Len(K.events), Fresh(K, b, rs),
         NEW raw, "ordinal" \in DOMAIN raw, NEW rec, raw.line \in DOMAIN rs, rs[raw.line] = rec
  PROVE  Fresh(ProcessItem(K, rec, raw), Len(ProcessItem(K, rec, raw).events), rs)
<1>1. PICK seq : seq = [raw EXCEPT !.ordinal = Len(K.events)]
  OBVIOUS
<1>2. PICK id, kind, corr : id = RecordId(rec, seq) /\ kind = ExportKind(rec) /\ corr = CorrelationId(rec, kind, id)
  OBVIOUS
<1>3. PICK I : I = WithRecordId(K, rec, seq)
  OBVIOUS
<1>4. PICK C : C = CheckVersion(I, rec.version, raw)
  OBVIOUS
<1>5. PICK O : O = IF rec.version = None THEN C ELSE ObserveVersion(C, rec.version, raw)
  OBVIOUS
<1>6. PICK V : V = [O EXCEPT !.sl301 = K.sl301]
  OBVIOUS
<1>7. PICK S : S = ObserveSignature(V, rec.foreign, raw)
  OBVIOUS
<1>8. PICK Q : Q = ReportWhen(S, rec.class = "newType" \/ rec.critical, "SL302", raw)
  OBVIOUS
<1>9. ProcessItem(K, rec, raw) = Emit(Q, Event(id, rec.parent, kind, corr, raw, rec.id # None))
  BY Zenon, <1>1, <1>2, <1>3, <1>4, <1>5, <1>6, <1>7, <1>8 DEF ProcessItem
<1>10. DOMAIN K = LoadFields /\ b \in Nat
  BY SequenceIs DEF Fresh
<1>11. seq.ordinal = b
  BY <1>1
<1>12. Wider(K, I) /\ Identified(I, rec, b)
  BY <1>3, <1>10, <1>11, RecordIdWidens
<1>13. Wider(I, V)
  <2>1. Wider(I, C)
    BY <1>4, <1>12, CheckWidens DEF Wider
  <2>2. Wider(C, O)
    BY <1>5, <2>1, ObserveWidens, SameWider DEF Wider
  <2>3. Wider(O, V)
    BY <1>6, <2>2, AsideWidens DEF Wider
  <2> QED BY <2>1, <2>2, <2>3, WiderOn
<1>14. Wider(V, Q)
  <2>1. Wider(V, S)
    BY <1>7, <1>13, SignatureWidens DEF Wider
  <2>2. PICK condition : condition = (rec.class = "newType" \/ rec.critical)
    OBVIOUS
  <2>3. Wider(S, ReportWhen(S, condition, "SL302", raw))
    BY <2>1, ReportWidens DEF Wider
  <2>4. Wider(S, Q)
    BY Zenon, <1>8, <2>2, <2>3
  <2> QED BY <2>1, <2>4, WiderOn
<1>15. Wider(I, Q)
  BY <1>13, <1>14, WiderOn
<1>16. Wider(K, Q) /\ Identified(Q, rec, b)
  BY <1>12, <1>15, WiderOn, IdentifiedOn
<1>17. PICK e : e = Event(id, rec.parent, kind, corr, raw, rec.id # None)
  OBVIOUS
<1>18. Bears(e, rec, b, rs)
  <2>1. id = IF rec.id # None THEN rec.id ELSE SyntheticEventId(b)
    BY <1>2, <1>11 DEF RecordId
  <2>2. Bears(Event(id, rec.parent, kind, corr, raw, rec.id # None), rec, b, rs)
    BY <2>1, EventBears
  <2> QED BY <1>17, <2>2
<1>19. PICK c \in Nat : c = b + 1 /\ b <= b /\ b < c
  BY <1>10
<1>20. Fresh(Emit(Q, e), c, rs) /\ Len(Emit(Q, e).events) = b + 1
  BY <1>10, <1>16, <1>18, <1>19, EmitFresh
<1> QED BY <1>9, <1>17, <1>19, <1>20

-----------------------------------------------------------------------------
(* Records of Claude Code, which are split.                                *)

LEMMA PartIs ==
  ASSUME NEW stem, IsSequence(stem), NEW tag, NEW i, NEW id, id = stem \o <<tag, i>>
  PROVE  Len(stem) \in Nat /\ Len(id) = Len(stem) + 2 /\ id[Len(stem) + 1] = tag /\ id[Len(stem) + 2] = i
<1>1. PICK s : s = <<tag, i>>
  OBVIOUS
<1>2. IsSequence(s) /\ Len(s) = 2 /\ s[1] = tag /\ s[2] = i
  BY <1>1, PairIs
<1>3. Joint(stem, s, id)
  BY <1>1, <1>2, JointIs
<1>4. Len(stem) \in Nat
  BY SequenceIs
<1> QED BY <1>2, <1>3, <1>4 DEF Joint

\* A part of the record that has an id of its own, and one that got one.
Owned(e, Q) == e.original /\ e.id \in Q.real
Derived(e, id, tag, i, Q) ==
  /\ ~e.original /\ e.id \in Q.synthetic
  /\ tag \in Tags /\ i \in Nat /\ e.id = id \o <<tag, i>>

LEMMA DerivedSourced ==
  ASSUME NEW rec, rec.id # None => IsId(rec.id), NEW n, NEW Q, Identified(Q, rec, n),
         NEW id, id = IF rec.id # None THEN rec.id ELSE SyntheticEventId(n),
         NEW e, NEW rs, e.line \in DOMAIN rs, rs[e.line] = rec,
         NEW tag, NEW i, Derived(e, id, tag, i, Q)
  PROVE  Sourced(e, n, Q, rs)
<1>1. Extends(e.id, id)
  BY DEF Derived, Extends
<1>2. Made(e.id, rec, n, Q)
  <2>1. CASE rec.id # None
    BY <1>1, <2>1 DEF Made, Identified
  <2>2. CASE rec.id = None
    BY <1>1, <2>2 DEF Made, Identified
  <2> QED BY <2>1, <2>2
<1> QED BY <1>2 DEF Sourced, Derived

LEMMA BearsSourced ==
  ASSUME NEW rec, NEW n, NEW Q, Identified(Q, rec, n), NEW e, NEW rs, Bears(e, rec, n, rs)
  PROVE  Sourced(e, n, Q, rs)
<1>1. CASE rec.id # None
  BY <1>1 DEF Bears, Identified, Sourced
<1>2. CASE rec.id = None
  BY <1>2 DEF Bears, Identified, Sourced, Made
<1> QED BY <1>1, <1>2

\* The parts of a record: one of them may bear its id, the others have their own or
\* got one, of which no two are the same.
Fragments(es, rec, id, Q, n, rs, whole, tags, nums) ==
  /\ IsSequence(es)
  /\ \A k \in DOMAIN es : es[k].line \in DOMAIN rs /\ rs[es[k].line] = rec
  /\ \A k \in DOMAIN es : k = whole => Bears(es[k], rec, n, rs)
  /\ \A k \in DOMAIN es : k # whole => Owned(es[k], Q) \/ Derived(es[k], id, tags[k], nums[k], Q)
  /\ \A j, k \in DOMAIN es : j < k /\ j # whole /\ k # whole => tags[j] # tags[k] \/ nums[j] # nums[k]

LEMMA FragmentsCluster ==
  ASSUME NEW rec, rec.id # None => IsId(rec.id), NEW n, NEW Q, Identified(Q, rec, n),
         NEW id, id = IF rec.id # None THEN rec.id ELSE SyntheticEventId(n),
         NEW es, NEW rs, NEW whole, NEW tags, NEW nums, Fragments(es, rec, id, Q, n, rs, whole, tags, nums)
  PROVE  Cluster(es, n, Q, rs)
<1>1. ASSUME NEW k \in DOMAIN es PROVE Sourced(es[k], n, Q, rs)
  <2>1. PICK e, tag, i : e = es[k] /\ tag = tags[k] /\ i = nums[k]
    OBVIOUS
  <2>2. e.line \in DOMAIN rs /\ rs[e.line] = rec
    BY <2>1 DEF Fragments
  <2>3. CASE k = whole
    <3>1. Bears(e, rec, n, rs)
      BY <2>1, <2>3 DEF Fragments
    <3> QED BY <2>1, <3>1, BearsSourced
  <2>4. CASE Owned(e, Q)
    BY <2>1, <2>2, <2>4 DEF Owned, Sourced
  <2>5. CASE Derived(e, id, tag, i, Q)
    BY <2>1, <2>2, <2>5, DerivedSourced
  <2>6. k # whole => Owned(e, Q) \/ Derived(e, id, tag, i, Q)
    BY <2>1 DEF Fragments
  <2> QED BY <2>3, <2>4, <2>5, <2>6
<1>2. Apart(es, rs)
  <2> SUFFICES ASSUME NEW j \in DOMAIN es, NEW k \in DOMAIN es, j < k, Nameless(es[j], rs), Nameless(es[k], rs),
                      es[j].id = es[k].id
               PROVE  FALSE
    BY DEF Apart
  <2>1. PICK p, q : p = es[j] /\ q = es[k]
    OBVIOUS
  <2>2. rec.id = None /\ ~p.original /\ ~q.original
    BY <2>1 DEF Nameless, Fragments
  <2>3. IsSequence(id)
    BY <2>2, SyntheticIs
  <2>4. j # whole => Derived(p, id, tags[j], nums[j], Q)
    BY <2>1, <2>2 DEF Fragments, Owned
  <2>5. k # whole => Derived(q, id, tags[k], nums[k], Q)
    BY <2>1, <2>2 DEF Fragments, Owned
  <2>6. ASSUME NEW e, NEW tag, NEW i, Derived(e, id, tag, i, Q)
        PROVE  Len(id) \in Nat /\ Len(e.id) = Len(id) + 2 /\ e.id[Len(id) + 1] = tag /\ e.id[Len(id) + 2] = i
    BY <2>3, <2>6, PartIs DEF Derived
  <2>7. ASSUME NEW e, Bears(e, rec, n, rs) PROVE e.id = id
    BY <2>7 DEF Bears
  <2>8. ASSUME NEW e, NEW d, Bears(e, rec, n, rs), NEW tag, NEW i, Derived(d, id, tag, i, Q) PROVE e.id # d.id
    <3>1. e.id = id
      BY <2>7, <2>8
    <3>2. Len(id) \in Nat /\ Len(d.id) = Len(id) + 2
      BY <2>6, <2>8
    <3> QED BY <3>1, <3>2
  <2>9. CASE j = whole
    <3>1. k # whole /\ Bears(p, rec, n, rs)
      <4>1. j # k
        <5>1. DOMAIN es = 1..Len(es) /\ Len(es) \in Nat
          BY SequenceIs DEF Fragments
        <5> QED BY <5>1
      <4> QED BY <2>1, <2>9, <4>1 DEF Fragments
    <3> QED BY <2>1, <2>5, <2>8, <3>1
  <2>10. CASE k = whole
    <3>1. j # whole /\ Bears(q, rec, n, rs)
      <4>1. j # k
        <5>1. DOMAIN es = 1..Len(es) /\ Len(es) \in Nat
          BY SequenceIs DEF Fragments
        <5> QED BY <5>1
      <4> QED BY <2>1, <2>10, <4>1 DEF Fragments
    <3> QED BY <2>1, <2>4, <2>8, <3>1
  <2>11. CASE j # whole /\ k # whole
    <3>1. PICK a, b, x, y : a = tags[j] /\ b = tags[k] /\ x = nums[j] /\ y = nums[k]
      OBVIOUS
    <3>2. Derived(p, id, a, x, Q) /\ Derived(q, id, b, y, Q)
      BY <2>4, <2>5, <2>11, <3>1
    <3>3. a # b \/ x # y
      BY <2>11, <3>1 DEF Fragments
    <3>4. p.id[Len(id) + 1] = a /\ p.id[Len(id) + 2] = x /\ q.id[Len(id) + 1] = b /\ q.id[Len(id) + 2] = y
      BY <2>6, <3>2
    <3> QED BY <2>1, <3>3, <3>4
  <2> QED BY <2>9, <2>10, <2>11
<1> QED BY <1>1, <1>2 DEF Cluster, Fragments

-----------------------------------------------------------------------------
(* The ids of the parts are registered, one after the other.               *)

IdTaken(M, ids, vendors, i) == IF i \in vendors THEN ids[i] \in M.real ELSE ids[i] \in M.synthetic

LEMMA IdTurns ==
  ASSUME NEW at, NEW n \in Nat, NEW ids, NEW vendors, DOMAIN at[0] = LoadFields,
         \A k \in Nat : k < n /\ DOMAIN at[k] = LoadFields =>
           Wider(at[k], at[k + 1]) /\ IdTaken(at[k + 1], ids, vendors, k + 1)
  PROVE  Wider(at[0], at[n]) /\ \A i \in 1..n : IdTaken(at[n], ids, vendors, i)
<1> DEFINE T == {k \in Nat : k <= n => /\ Wider(at[0], at[k])
                                       /\ \A i \in 1..k : IdTaken(at[k], ids, vendors, i)}
<1>1. 0 \in T
  BY SameWider
<1>2. ASSUME NEW k \in Nat, k \in T PROVE k + 1 \in T
  <2> SUFFICES ASSUME k + 1 <= n
               PROVE  Wider(at[0], at[k + 1]) /\ \A i \in 1..(k + 1) : IdTaken(at[k + 1], ids, vendors, i)
    OBVIOUS
  <2>1. k < n /\ Wider(at[0], at[k]) /\ \A i \in 1..k : IdTaken(at[k], ids, vendors, i)
    BY <1>2
  <2>2. Wider(at[k], at[k + 1]) /\ IdTaken(at[k + 1], ids, vendors, k + 1)
    BY <2>1 DEF Wider
  <2>3. \A i \in 1..(k + 1) : i \in 1..k \/ i = k + 1
    OBVIOUS
  <2>4. \A i \in 1..k : IdTaken(at[k + 1], ids, vendors, i)
    BY <2>1, <2>2 DEF IdTaken, Wider
  <2>5. Wider(at[0], at[k + 1])
    BY <2>1, <2>2, WiderOn
  <2> QED BY <2>2, <2>3, <2>4, <2>5
<1>3. Nat \subseteq T
  <2> HIDE DEF T
  <2> QED BY <1>1, <1>2, Lengths!NatSet
<1> QED BY <1>3

LEMMA RegisterOne ==
  ASSUME NEW K, DOMAIN K = LoadFields, NEW ids, NEW vendors, NEW i, NEW id, id = ids[i],
         NEW real, real <=> i \in vendors
  PROVE  Wider(K, Register(K, id, real)) /\ IdTaken(Register(K, id, real), ids, vendors, i)
BY RegisterWidens DEF Register, IdTaken

\* The ids of the first n blocks are known.
CallsKnown(M, rec, id, blocks, n) ==
  \A i \in 1..n : IF blocks[i].id # None THEN CallId(rec, id, i) \in M.real ELSE CallId(rec, id, i) \in M.synthetic
ResultsKnown(M, rec, id, blocks, n) ==
  \A i \in 1..n : IF blocks[i].id # None THEN ResultId(rec, id, i) \in M.real ELSE ResultId(rec, id, i) \in M.synthetic

LEMMA CallsTaken ==
  ASSUME NEW L, DOMAIN L = LoadFields, NEW rec, NEW id, NEW uses, uses = Blocks(rec, "use"), IsSequence(uses),
         Len(uses) # 0, NEW n, n = Len(uses) - 1
  PROVE  Wider(L, RegisterCalls(L, rec, id)) /\ CallsKnown(RegisterCalls(L, rec, id), rec, id, uses, n)
<1>0. PICK ids, vendors : ids = [i \in 1..n |-> CallId(rec, id, i)] /\ vendors = {i \in 1..n : uses[i].id # None}
  OBVIOUS
<1>1. n \in Nat
  BY SequenceIs
<1>2. PICK seq : seq = [i \in 1..n |-> i]
  OBVIOUS
<1>3. DOMAIN seq = 1..n /\ Len(seq) = n
  BY <1>1, <1>2, Listed
<1>4. RegisterCalls(L, rec, id) = Calling!Fold(rec, id, L, seq)
  BY <1>2 DEF RegisterCalls, FoldLeft, MapThenFoldSet, Max, Calling!Fold, Calling!MapThenFoldSet, Calling!Max, RegisterCall
<1>5. PICK at : Calling!Turns(rec, id, L, seq, at) /\ at[Len(seq)] = Calling!Fold(rec, id, L, seq)
  BY <1>1, <1>3, Calling!FoldTurns
<1>6. at[0] = L
  BY <1>5 DEF Calling!Turns
<1>7. ASSUME NEW k \in Nat, k < n, DOMAIN at[k] = LoadFields
      PROVE  Wider(at[k], at[k + 1]) /\ IdTaken(at[k + 1], ids, vendors, k + 1)
  <2>1. at[k + 1] = RegisterCall(rec, id, at[k], seq[k + 1])
    BY <1>3, <1>5, <1>7 DEF Calling!Turns
  <2>2. k + 1 \in 1..n
    BY <1>1, <1>7
  <2>3. PICK i : i = k + 1
    OBVIOUS
  <2>4. seq[i] = i /\ ids[i] = CallId(rec, id, i) /\ (i \in vendors <=> uses[i].id # None)
    BY <1>0, <1>2, <2>2, <2>3
  <2>5. PICK c, o : c = CallId(rec, id, i) /\ o = (uses[i].id # None)
    OBVIOUS
  <2>6. at[i] = Register(at[k], c, o)
    BY Zenon, <2>1, <2>3, <2>4, <2>5 DEF RegisterCall
  <2>7. c = ids[i] /\ (o <=> i \in vendors)
    BY <2>4, <2>5
  <2>8. Wider(at[k], Register(at[k], c, o)) /\ IdTaken(Register(at[k], c, o), ids, vendors, i)
    BY <1>7, <2>7, RegisterOne
  <2> QED BY <2>3, <2>6, <2>8
<1>8. Wider(at[0], at[n]) /\ \A i \in 1..n : IdTaken(at[n], ids, vendors, i)
  BY <1>1, <1>6, <1>7, IdTurns
<1>9. PICK M : M = RegisterCalls(L, rec, id)
  OBVIOUS
<1>10. M = at[n]
  BY <1>3, <1>4, <1>5, <1>9
<1>11. ASSUME NEW i \in 1..n
       PROVE  IF uses[i].id # None THEN CallId(rec, id, i) \in M.real ELSE CallId(rec, id, i) \in M.synthetic
  <2>1. ids[i] = CallId(rec, id, i) /\ (i \in vendors <=> uses[i].id # None)
    BY <1>0
  <2> QED BY <1>8, <1>10, <2>1 DEF IdTaken
<1>12. CallsKnown(M, rec, id, uses, n)
  BY <1>11 DEF CallsKnown
<1> QED BY <1>6, <1>8, <1>9, <1>10, <1>12

LEMMA ResultsTaken ==
  ASSUME NEW L, DOMAIN L = LoadFields, NEW rec, NEW id, NEW results, results = Blocks(rec, "result"),
         NEW n \in Nat, NEW seq, seq = [i \in 1..n |-> i], NEW M, M = Resulting!Fold(rec, id, L, seq)
  PROVE  Wider(L, M) /\ ResultsKnown(M, rec, id, results, n)
<1>1. PICK ids, vendors : ids = [i \in 1..n |-> ResultId(rec, id, i)] /\ vendors = {i \in 1..n : results[i].id # None}
  OBVIOUS
<1>3. DOMAIN seq = 1..n /\ Len(seq) = n
  BY Listed
<1>5. PICK at : Resulting!Turns(rec, id, L, seq, at) /\ at[Len(seq)] = Resulting!Fold(rec, id, L, seq)
  BY <1>3, Resulting!FoldTurns
<1>6. at[0] = L
  BY <1>5 DEF Resulting!Turns
<1>7. ASSUME NEW k \in Nat, k < n, DOMAIN at[k] = LoadFields
      PROVE  Wider(at[k], at[k + 1]) /\ IdTaken(at[k + 1], ids, vendors, k + 1)
  <2>1. at[k + 1] = RegisterResult(rec, id, at[k], seq[k + 1])
    BY <1>3, <1>5, <1>7 DEF Resulting!Turns
  <2>2. k + 1 \in 1..n
    BY <1>7
  <2>3. PICK i : i = k + 1
    OBVIOUS
  <2>4. seq[i] = i /\ ids[i] = ResultId(rec, id, i) /\ (i \in vendors <=> results[i].id # None)
    BY <1>1, <2>2, <2>3
  <2>5. PICK c, o : c = ResultId(rec, id, i) /\ o = (results[i].id # None)
    OBVIOUS
  <2>6. at[i] = Register(at[k], c, o)
    BY Zenon, <2>1, <2>3, <2>4, <2>5 DEF RegisterResult
  <2>7. c = ids[i] /\ (o <=> i \in vendors)
    BY <2>4, <2>5
  <2>8. Wider(at[k], Register(at[k], c, o)) /\ IdTaken(Register(at[k], c, o), ids, vendors, i)
    BY <1>7, <2>7, RegisterOne
  <2> QED BY <2>3, <2>6, <2>8
<1>8. Wider(at[0], at[n]) /\ \A i \in 1..n : IdTaken(at[n], ids, vendors, i)
  BY <1>6, <1>7, IdTurns
<1>9. M = at[n]
  BY <1>3, <1>5
<1>10. ASSUME NEW i \in 1..n
       PROVE  IF results[i].id # None THEN ResultId(rec, id, i) \in M.real ELSE ResultId(rec, id, i) \in M.synthetic
  <2>1. ids[i] = ResultId(rec, id, i) /\ (i \in vendors <=> results[i].id # None)
    BY <1>1
  <2> QED BY <1>8, <1>9, <2>1 DEF IdTaken
<1>11. ResultsKnown(M, rec, id, results, n)
  BY <1>10 DEF ResultsKnown
<1> QED BY <1>6, <1>8, <1>9, <1>11

-----------------------------------------------------------------------------
(* The events of calls and of results are such parts.                      *)

\* What the ids of events are about: the record, its number and the stem.
Stem(id, rec, n) == id = IF rec.id # None THEN rec.id ELSE SyntheticEventId(n)

LEMMA EventIs ==
  ASSUME NEW id, NEW parent, NEW kind, NEW corr, NEW raw, NEW o, NEW e, e = Event(id, parent, kind, corr, raw, o)
  PROVE  e.id = id /\ e.line = raw.line /\ e.original = o
BY DEF Event

LEMMA CallEventsAre ==
  ASSUME NEW rec, NEW id, NEW raw, NEW uses, uses = Blocks(rec, "use"), NEW n \in Nat, n = Len(uses), n # 0,
         NEW h, h = IF Blocks(rec, "text") # << >> THEN 1 ELSE 0, NEW es, es = CallEvents(rec, id, raw)
  PROVE  /\ IsSequence(es) /\ DOMAIN es = 1..(h + n)
         /\ h = 1 => es[1].line = raw.line /\ es[1].id = TextId(id) /\ ~es[1].original
         /\ \A i \in 1..n : /\ es[h + i].line = raw.line /\ es[h + i].id = CallId(rec, id, i)
                            /\ es[h + i].original <=> IF i = n THEN rec.id # None ELSE uses[i].id # None
<1> DEFINE texts == Blocks(rec, "text")
           parentOf(i) == CASE i > 1 -> CallId(rec, id, i - 1)
                            [] i = 1 /\ texts # << >> -> TextId(id)
                            [] OTHER -> rec.parent
           corrOf(i) == IF uses[i].id # None THEN uses[i].id ELSE CallId(rec, id, i)
           original(i) == IF i = Len(uses) THEN rec.id # None ELSE uses[i].id # None
           made == [i \in 1..Len(uses) |-> Event(CallId(rec, id, i), parentOf(i), "tool_call", corrOf(i), raw, original(i))]
           text == Event(TextId(id), rec.parent, "message", None, raw, FALSE)
<1>1. CallEvents(rec, id, raw) = (IF texts # << >> THEN <<text>> ELSE << >>) \o made
  BY DEF CallEvents
<1>2. /\ made = [i \in 1..n |-> made[i]]
      /\ \A i \in 1..n : made[i] = Event(CallId(rec, id, i), parentOf(i), "tool_call", corrOf(i), raw, original(i))
  <2> HIDE DEF parentOf, corrOf, original
  <2> QED OBVIOUS
<1>3. \A i \in 1..n : original(i) <=> IF i = n THEN rec.id # None ELSE uses[i].id # None
  OBVIOUS
<1> HIDE DEF parentOf, corrOf, original
<1>4. PICK calls, t : calls = made /\ t = text
  OBVIOUS
<1>5. t.line = raw.line /\ t.id = TextId(id) /\ ~t.original
  <2>1. PICK o : o = FALSE
    OBVIOUS
  <2>2. t = Event(TextId(id), rec.parent, "message", None, raw, o)
    BY <1>4, <2>1
  <2>3. t.id = TextId(id) /\ t.line = raw.line /\ t.original = o
    BY <2>2, EventIs
  <2> QED BY <2>1, <2>3
<1>6. ASSUME NEW i \in 1..n
      PROVE  /\ calls[i].line = raw.line /\ calls[i].id = CallId(rec, id, i)
             /\ calls[i].original <=> IF i = n THEN rec.id # None ELSE uses[i].id # None
  <2>1. PICK c, u, v, o : c = CallId(rec, id, i) /\ u = parentOf(i) /\ v = corrOf(i) /\ o = original(i)
    OBVIOUS
  <2>2. calls[i] = Event(c, u, "tool_call", v, raw, o)
    <3> HIDE DEF made
    <3> QED BY Zenon, <1>2, <1>4, <2>1
  <2>3. calls[i].line = raw.line /\ calls[i].id = c /\ calls[i].original = o
    BY <2>2, EventIs
  <2>4. o <=> IF i = n THEN rec.id # None ELSE uses[i].id # None
    BY Zenon, <1>3, <2>1
  <2> QED BY <2>1, <2>3, <2>4
<1>7. IsSequence(calls) /\ Len(calls) = n
  <2>1. calls = [i \in 1..n |-> calls[i]]
    BY <1>2, <1>4
  <2> HIDE DEF made
  <2> QED BY <2>1, Listed
<1>8. PICK p : p = IF h = 1 THEN <<t>> ELSE << >>
  OBVIOUS
<1>9. h \in 0..1 /\ IsSequence(p) /\ Len(p) = h /\ (h = 1 => p[1] = t)
  <2>1. IsSequence(<<t>>) /\ Len(<<t>>) = 1 /\ <<t>>[1] = t /\ IsSequence(<< >>) /\ Len(<< >>) = 0
    BY OneElement, EmptySequence
  <2>2. h = 1 \/ h = 0
    OBVIOUS
  <2> QED BY <1>8, <2>1, <2>2
<1>10. es = p \o calls
  BY <1>1, <1>4, <1>8
<1> HIDE DEF made, text, texts
<1>11. Joint(p, calls, es)
  BY <1>7, <1>9, <1>10, JointIs
<1>12. /\ IsSequence(es) /\ DOMAIN es = 1..(h + n) /\ (h = 1 => es[1] = t)
       /\ \A i \in 1..n : es[h + i] = calls[i]
  BY <1>7, <1>9, <1>11 DEF Joint
<1> QED BY <1>5, <1>6, <1>12

LEMMA CallsCluster ==
  ASSUME NEW rec, rec.id # None => IsId(rec.id), NEW n, NEW id, Stem(id, rec, n), NEW raw,
         NEW uses, uses = Blocks(rec, "use"), IsSequence(uses), NEW len \in Nat, len = Len(uses), len # 0,
         NEW Q, Identified(Q, rec, n), Blocks(rec, "text") # << >> => TextId(id) \in Q.synthetic,
         NEW m, m = len - 1, CallsKnown(Q, rec, id, uses, m),
         NEW rs, raw.line \in DOMAIN rs, rs[raw.line] = rec
  PROVE  Cluster(CallEvents(rec, id, raw), n, Q, rs) /\ Len(CallEvents(rec, id, raw)) # 0
<1>1. PICK es : es = CallEvents(rec, id, raw)
  OBVIOUS
<1>2. PICK h : h = IF Blocks(rec, "text") # << >> THEN 1 ELSE 0
  OBVIOUS
<1>3. /\ IsSequence(es) /\ DOMAIN es = 1..(h + len)
      /\ h = 1 => es[1].line = raw.line /\ es[1].id = TextId(id) /\ ~es[1].original
      /\ \A i \in 1..len : /\ es[h + i].line = raw.line /\ es[h + i].id = CallId(rec, id, i)
                           /\ es[h + i].original <=> IF i = len THEN rec.id # None ELSE uses[i].id # None
  BY <1>1, <1>2, CallEventsAre
<1>4. h = 0 \/ h = 1
  BY <1>2
<1>5. PICK whole : whole = h + len
  OBVIOUS
<1>6. PICK tags : tags = [k \in 1..(h + len) |-> IF k <= h THEN "text" ELSE "call"]
  OBVIOUS
<1>7. PICK nums : nums = [k \in 1..(h + len) |-> IF k <= h THEN 0 ELSE k - h - 1]
  OBVIOUS
<1>8. ASSUME NEW k \in DOMAIN es
      PROVE  (k <= h /\ k = 1 /\ h = 1) \/ (k > h /\ k - h \in 1..len /\ k = h + (k - h))
  BY <1>3, <1>4
<1>9. ASSUME NEW k \in DOMAIN es PROVE es[k].line \in DOMAIN rs /\ rs[es[k].line] = rec
  <2>1. es[k].line = raw.line
    BY <1>3, <1>8
  <2> QED BY <2>1
<1>10. ASSUME NEW k \in DOMAIN es, k = whole PROVE Bears(es[k], rec, n, rs)
  <2>1. len \in 1..len /\ k = h + len
    BY <1>5, <1>10
  <2>2. CallId(rec, id, len) = id
    BY DEF CallId
  <2>3. PICK e : e = es[k]
    OBVIOUS
  <2>4. e.line = raw.line /\ e.id = id /\ (e.original <=> rec.id # None)
    BY <1>3, <2>1, <2>2, <2>3
  <2> QED BY <2>3, <2>4 DEF Bears, Stem
<1>11. ASSUME NEW k \in DOMAIN es, k # whole
       PROVE  Owned(es[k], Q) \/ Derived(es[k], id, tags[k], nums[k], Q)
  <2>1. PICK e, tag, i : e = es[k] /\ tag = tags[k] /\ i = nums[k]
    OBVIOUS
  <2>2. CASE k <= h
    <3>1. h = 1 /\ k = 1
      BY <1>3, <1>4, <2>2
    <3>2. e.id = TextId(id) /\ ~e.original
      BY <1>3, <2>1, <3>1
    <3>3. tag = "text" /\ i = 0
      BY <1>3, <1>6, <1>7, <2>1, <2>2
    <3>4. e.id \in Q.synthetic
      BY <1>2, <3>1, <3>2
    <3>5. e.id = id \o <<tag, i>>
      BY <3>2, <3>3 DEF TextId
    <3>6. tag \in Tags /\ i \in Nat
      BY <3>3 DEF Tags
    <3>7. Derived(e, id, tag, i, Q)
      BY <3>2, <3>4, <3>5, <3>6 DEF Derived
    <3> QED BY <2>1, <3>7
  <2>3. CASE k > h
    <3>1. PICK l : l = k - h
      OBVIOUS
    <3>2. l \in 1..(len - 1) /\ l \in 1..len /\ l # len /\ k = h + l
      BY <1>5, <1>8, <1>11, <2>3, <1>4, <3>1
    <3>3. e.id = CallId(rec, id, l) /\ (e.original <=> uses[l].id # None)
      BY <1>3, <2>1, <3>2
    <3>4. IF uses[l].id # None THEN CallId(rec, id, l) \in Q.real ELSE CallId(rec, id, l) \in Q.synthetic
      BY <3>2 DEF CallsKnown
    <3>5. CASE uses[l].id # None
      <4>1. Owned(e, Q)
        BY <3>3, <3>4, <3>5 DEF Owned
      <4> QED BY <2>1, <4>1
    <3>6. CASE uses[l].id = None
      <4>1. tag = "call" /\ i = l - 1 /\ i \in Nat /\ tag \in Tags
        <5>1. ~(k <= h) /\ k \in 1..(h + len)
          BY <1>3, <1>4, <2>3
        <5> QED BY <1>6, <1>7, <2>1, <3>1, <3>2, <5>1 DEF Tags
      <4>2. CallId(rec, id, l) = id \o <<"call", l - 1>>
        BY <3>2, <3>6 DEF CallId
      <4>3. Derived(e, id, tag, i, Q)
        BY <3>3, <3>4, <3>6, <4>1, <4>2 DEF Derived
      <4> QED BY <2>1, <4>3
    <3> QED BY <3>5, <3>6
  <2>4. k <= h \/ k > h
    BY <1>8
  <2> QED BY <2>2, <2>3, <2>4
<1>12. ASSUME NEW j \in DOMAIN es, NEW k \in DOMAIN es, j < k
       PROVE  tags[j] # tags[k] \/ nums[j] # nums[k]
  <2>1. j \in 1..(h + len) /\ k \in 1..(h + len) /\ ~(k <= h)
    BY <1>3, <1>4, <1>12
  <2>2. tags[k] = "call" /\ nums[k] = k - h - 1
    BY <1>6, <1>7, <2>1
  <2>3. CASE j <= h
    BY <1>6, <2>1, <2>2, <2>3
  <2>4. CASE ~(j <= h)
    <3>1. nums[j] = j - h - 1
      BY <1>7, <2>1, <2>4
    <3> QED BY <1>4, <1>12, <2>1, <2>2, <3>1
  <2> QED BY <2>3, <2>4
<1>13. Fragments(es, rec, id, Q, n, rs, whole, tags, nums)
  BY <1>3, <1>9, <1>10, <1>11, <1>12 DEF Fragments
<1>14. Len(es) # 0
  <2>1. 1 \in DOMAIN es /\ DOMAIN es = 1..Len(es)
    BY <1>3, <1>4, SequenceIs
  <2> QED BY <2>1
<1>15. Cluster(es, n, Q, rs)
  BY <1>13, FragmentsCluster DEF Stem
<1> QED BY <1>1, <1>14, <1>15

Answers(es, rec, id, raw, results, n) ==
  /\ IsSequence(es) /\ DOMAIN es = 1..n /\ Len(es) = n
  /\ \A i \in 1..n : /\ es[i].line = raw.line /\ es[i].id = ResultId(rec, id, i)
                     /\ es[i].original <=> IF n = 1 THEN rec.id # None ELSE results[i].id # None

LEMMA ResultEventsAre ==
  ASSUME NEW rec, NEW id, NEW raw, NEW results, results = Blocks(rec, "result"), NEW n \in Nat, n = Len(results),
         NEW es, es = ResultEvents(rec, id, raw)
  PROVE  Answers(es, rec, id, raw, results, n)
<1> DEFINE original(i) == IF Len(results) = 1 THEN rec.id # None ELSE results[i].id # None
<1>1. es = [i \in 1..n |-> Event(ResultId(rec, id, i), rec.parent, "tool_result", results[i].corr, raw, original(i))]
  BY DEF ResultEvents
<1>2. \A i \in 1..n : original(i) <=> IF n = 1 THEN rec.id # None ELSE results[i].id # None
  OBVIOUS
<1> HIDE DEF original
<1>3. es = [i \in 1..n |-> es[i]]
  BY <1>1
<1>4. IsSequence(es) /\ DOMAIN es = 1..n /\ Len(es) = n
  BY <1>3, Listed
<1>5. ASSUME NEW i \in 1..n
      PROVE  /\ es[i].line = raw.line /\ es[i].id = ResultId(rec, id, i)
             /\ es[i].original <=> IF n = 1 THEN rec.id # None ELSE results[i].id # None
  <2>1. PICK c, v, o : c = ResultId(rec, id, i) /\ v = results[i].corr /\ o = original(i)
    OBVIOUS
  <2>2. es[i] = Event(c, rec.parent, "tool_result", v, raw, o)
    BY <1>1, <2>1
  <2>3. es[i].line = raw.line /\ es[i].id = c /\ es[i].original = o
    BY <2>2, EventIs
  <2>4. o <=> IF n = 1 THEN rec.id # None ELSE results[i].id # None
    BY Zenon, <1>2, <2>1
  <2> QED BY <2>1, <2>3, <2>4
<1> QED BY <1>4, <1>5 DEF Answers

LEMMA ResultsCluster ==
  ASSUME NEW rec, rec.id # None => IsId(rec.id), NEW n, NEW id, Stem(id, rec, n), NEW raw,
         NEW results, results = Blocks(rec, "result"), NEW len \in Nat, len = Len(results), len # 0,
         NEW Q, Identified(Q, rec, n),
         len # 1 => ResultsKnown(Q, rec, id, results, len),
         NEW rs, raw.line \in DOMAIN rs, rs[raw.line] = rec
  PROVE  Cluster(ResultEvents(rec, id, raw), n, Q, rs) /\ Len(ResultEvents(rec, id, raw)) # 0
<1>1. PICK es : es = ResultEvents(rec, id, raw)
  OBVIOUS
<1>2. /\ IsSequence(es) /\ DOMAIN es = 1..len /\ Len(es) = len
      /\ \A i \in 1..len : /\ es[i].line = raw.line /\ es[i].id = ResultId(rec, id, i)
                           /\ es[i].original <=> IF len = 1 THEN rec.id # None ELSE results[i].id # None
  <2>1. Answers(es, rec, id, raw, results, len)
    BY <1>1, ResultEventsAre
  <2> QED BY <2>1 DEF Answers
<1>3. PICK whole : whole = IF len = 1 THEN 1 ELSE 0
  OBVIOUS
<1>4. PICK tags : tags = [k \in 1..len |-> "res"]
  OBVIOUS
<1>5. PICK nums : nums = [k \in 1..len |-> k - 1]
  OBVIOUS
<1>6. ASSUME NEW k \in DOMAIN es PROVE es[k].line \in DOMAIN rs /\ rs[es[k].line] = rec
  BY <1>2
<1>7. ASSUME NEW k \in DOMAIN es, k = whole PROVE Bears(es[k], rec, n, rs)
  <2>1. len = 1 /\ k = 1 /\ k \in 1..len
    BY <1>2, <1>3, <1>7
  <2>2. ResultId(rec, id, k) = id
    BY <2>1 DEF ResultId
  <2>3. PICK e : e = es[k]
    OBVIOUS
  <2>4. e.line = raw.line /\ e.id = id /\ (e.original <=> rec.id # None)
    BY <1>2, <2>1, <2>2, <2>3
  <2> QED BY <2>3, <2>4 DEF Bears, Stem
<1>8. ASSUME NEW k \in DOMAIN es, k # whole
      PROVE  Owned(es[k], Q) \/ Derived(es[k], id, tags[k], nums[k], Q)
  <2>1. PICK e, tag, i : e = es[k] /\ tag = tags[k] /\ i = nums[k]
    OBVIOUS
  <2>2. k \in 1..len /\ len # 1
    BY <1>2, <1>3, <1>8
  <2>3. e.id = ResultId(rec, id, k) /\ (e.original <=> results[k].id # None)
    BY <1>2, <2>1, <2>2
  <2>4. IF results[k].id # None THEN ResultId(rec, id, k) \in Q.real ELSE ResultId(rec, id, k) \in Q.synthetic
    BY <2>2 DEF ResultsKnown
  <2>5. CASE results[k].id # None
    <3>1. Owned(e, Q)
      BY <2>3, <2>4, <2>5 DEF Owned
    <3> QED BY <2>1, <3>1
  <2>6. CASE results[k].id = None
    <3>1. tag = "res" /\ i = k - 1 /\ i \in Nat /\ tag \in Tags
      BY <1>4, <1>5, <2>1, <2>2 DEF Tags
    <3>2. ResultId(rec, id, k) = id \o <<"res", k - 1>>
      BY <2>2, <2>6 DEF ResultId
    <3>3. Derived(e, id, tag, i, Q)
      BY <2>3, <2>4, <2>6, <3>1, <3>2 DEF Derived
    <3> QED BY <2>1, <3>3
  <2> QED BY <2>5, <2>6
<1>9. ASSUME NEW j \in DOMAIN es, NEW k \in DOMAIN es, j < k
      PROVE  tags[j] # tags[k] \/ nums[j] # nums[k]
  BY <1>2, <1>5, <1>9
<1>10. Fragments(es, rec, id, Q, n, rs, whole, tags, nums)
  BY <1>2, <1>6, <1>7, <1>8, <1>9 DEF Fragments
<1>11. Cluster(es, n, Q, rs)
  BY <1>10, FragmentsCluster DEF Stem
<1> QED BY <1>1, <1>2, <1>11

\* The next number is the number of events.
FreshAt(X, rs) == Fresh(X, Len(X.events), rs)

LEMMA ClusterFresh ==
  ASSUME NEW L, NEW rs, FreshAt(L, rs), NEW n, n = Len(L.events), NEW Q, Wider(L, Q),
         NEW es, Cluster(es, n, Q, rs), Len(es) # 0
  PROVE  FreshAt([Q EXCEPT !.events = @ \o es], rs)
<1>1. PICK X : X = [Q EXCEPT !.events = @ \o es]
  OBVIOUS
<1>2. Fresh(L, n, rs) /\ IsSequence(L.events) /\ n \in Nat
  BY SequenceIs DEF FreshAt, Fresh
<1>3. /\ DOMAIN X = LoadFields /\ X.real = Q.real /\ X.synthetic = Q.synthetic
      /\ X.events = L.events \o es /\ Q.events = L.events
  BY <1>1 DEF Wider, LoadFields
<1>4. IsSequence(es) /\ Len(es) \in Nat
  BY SequenceIs DEF Cluster
<1>5. PICK c \in Nat : c = n + Len(es)
  BY <1>2, <1>4
<1>6. Len(X.events) = c
  <2>1. PICK ds, xs : ds = L.events /\ xs = X.events
    OBVIOUS
  <2>2. Joint(ds, es, xs)
    BY <1>2, <1>3, <1>4, <2>1, JointIs
  <2> QED BY <1>5, <2>1, <2>2 DEF Joint
<1>7. n <= n /\ n < c
  BY <1>2, <1>4, <1>5
<1>8. Fresh(X, c, rs)
  BY <1>2, <1>3, <1>7, AddFresh
<1> QED BY <1>1, <1>6, <1>8 DEF FreshAt

\* A record was opened: its own id is known.
Begun(L, J, rec, id, n) == Wider(L, J) /\ Identified(J, rec, n) /\ Stem(id, rec, n)

LEMMA CallsFresh ==
  ASSUME NEW rec, IsRecord(rec), Blocks(rec, "use") # << >>, NEW L, NEW rs, FreshAt(L, rs), NEW n, n = Len(L.events),
         NEW J, NEW id, Begun(L, J, rec, id, n), NEW raw, raw.line \in DOMAIN rs, rs[raw.line] = rec
  PROVE  FreshAt(LoadCalls(J, rec, id, raw), rs)
<1>1. PICK uses : uses = Blocks(rec, "use")
  OBVIOUS
<1>2. IsSequence(uses) /\ Len(uses) \in Nat /\ Len(uses) # 0
  <2>1. IsSequence(uses) /\ uses # << >>
    BY <1>1, BlocksAre DEF IsRecord
  <2>2. Len(uses) # 0
    BY <2>1 DEF IsSequence
  <2> QED BY <2>1, <2>2, SequenceIs
<1>3. PICK len \in Nat : len = Len(uses) /\ len # 0
  BY <1>2
<1>4. PICK T : T = IF Blocks(rec, "text") = << >> THEN J ELSE RegisterSynthetic(J, TextId(id))
  OBVIOUS
<1>5. Wider(J, T) /\ (Blocks(rec, "text") # << >> => TextId(id) \in T.synthetic)
  <2>1. DOMAIN J = LoadFields
    BY DEF Begun, Wider
  <2> QED BY <1>4, <2>1, SameWider, RegisterWidens
<1>6. PICK Q : Q = RegisterCalls(T, rec, id)
  OBVIOUS
<1>7. PICK m : m = len - 1
  OBVIOUS
<1>9. Wider(T, Q) /\ CallsKnown(Q, rec, id, uses, m)
  <2>1. DOMAIN T = LoadFields /\ m = Len(uses) - 1
    BY <1>3, <1>5, <1>7 DEF Wider
  <2>2. Wider(T, RegisterCalls(T, rec, id)) /\ CallsKnown(RegisterCalls(T, rec, id), rec, id, uses, m)
    BY <1>1, <1>2, <2>1, CallsTaken
  <2> QED BY <1>6, <2>2
<1>10. PICK es : es = CallEvents(rec, id, raw)
  OBVIOUS
<1>11. Wider(J, Q) /\ Wider(L, Q) /\ Identified(Q, rec, n)
  BY <1>5, <1>9, WiderOn, IdentifiedOn DEF Begun
<1>12. Blocks(rec, "text") # << >> => TextId(id) \in Q.synthetic
  BY <1>5, <1>9 DEF Wider
<1>13. Cluster(es, n, Q, rs) /\ Len(es) # 0
  <2>1. rec.id # None => IsId(rec.id)
    BY DEF IsRecord
  <2>2. Stem(id, rec, n)
    BY DEF Begun
  <2>3. Cluster(CallEvents(rec, id, raw), n, Q, rs) /\ Len(CallEvents(rec, id, raw)) # 0
    BY <1>1, <1>2, <1>3, <1>7, <1>9, <1>11, <1>12, <2>1, <2>2, CallsCluster
  <2> QED BY <1>10, <2>3
<1>14. LoadCalls(J, rec, id, raw) = [Q EXCEPT !.events = @ \o es]
  BY <1>4, <1>6, <1>10 DEF LoadCalls
<1>15. FreshAt([Q EXCEPT !.events = @ \o es], rs)
  BY <1>11, <1>13, ClusterFresh
<1> QED BY <1>14, <1>15

LEMMA ResultsFresh ==
  ASSUME NEW rec, IsRecord(rec), Blocks(rec, "result") # << >>, NEW L, NEW rs, FreshAt(L, rs), NEW n, n = Len(L.events),
         NEW J, NEW id, Begun(L, J, rec, id, n), NEW raw, raw.line \in DOMAIN rs, rs[raw.line] = rec
  PROVE  FreshAt(LoadResults(J, rec, id, raw), rs)
<1>1. PICK results : results = Blocks(rec, "result")
  OBVIOUS
<1>2. IsSequence(results) /\ Len(results) \in Nat /\ Len(results) # 0
  <2>1. IsSequence(results) /\ results # << >>
    BY <1>1, BlocksAre DEF IsRecord
  <2>2. Len(results) # 0
    BY <2>1 DEF IsSequence
  <2> QED BY <2>1, <2>2, SequenceIs
<1>3. PICK len \in Nat : len = Len(results) /\ len # 0
  BY <1>2
<1> DEFINE blocks == Blocks(rec, "result")
           registered == IF Len(blocks) = 1 THEN J
                         ELSE FoldLeft(LAMBDA l, i : Register(l, ResultId(rec, id, i), blocks[i].id # None),
                                       J, [i \in 1..Len(blocks) |-> i])
<1>4. PICK Q : Q = registered
  OBVIOUS
<1>5. PICK es : es = ResultEvents(rec, id, raw)
  OBVIOUS
<1>6. LoadResults(J, rec, id, raw) = [Q EXCEPT !.events = @ \o es]
  <2>1. LoadResults(J, rec, id, raw) = [registered EXCEPT !.events = @ \o ResultEvents(rec, id, raw)]
    BY DEF LoadResults
  <2> HIDE DEF registered
  <2> QED BY <1>4, <1>5, <2>1
<1>7. PICK seq : seq = [i \in 1..len |-> i]
  OBVIOUS
<1>8. DOMAIN J = LoadFields
  BY DEF Begun, Wider
<1>9. Wider(J, Q) /\ (len # 1 => ResultsKnown(Q, rec, id, results, len))
  <2>1. CASE len = 1
    <3>1. Q = J
      BY <1>1, <1>3, <1>4, <2>1
    <3> QED BY <1>8, <2>1, <3>1, SameWider
  <2>2. CASE len # 1
    <3>0. len = Len(blocks)
      BY <1>1, <1>3
    <3>1. Q = FoldLeft(LAMBDA l, i : Register(l, ResultId(rec, id, i), blocks[i].id # None),
                       J, [i \in 1..len |-> i])
      BY <1>4, <2>2, <3>0
    <3>2. Q = Resulting!Fold(rec, id, J, [i \in 1..len |-> i])
      BY <3>1 DEF Resulting!Fold, RegisterResult, Resulting!MapThenFoldSet, Resulting!Max,
                  FoldLeft, MapThenFoldSet, Max
    <3>3. Q = Resulting!Fold(rec, id, J, seq)
      BY <1>7, <3>2
    <3> QED BY <1>1, <1>7, <1>8, <3>3, ResultsTaken
  <2> QED BY <2>1, <2>2
<1>10. Wider(L, Q) /\ Identified(Q, rec, n)
  BY <1>9, WiderOn, IdentifiedOn DEF Begun
<1>11. Cluster(es, n, Q, rs) /\ Len(es) # 0
  <2>1. rec.id # None => IsId(rec.id)
    BY DEF IsRecord
  <2>2. Stem(id, rec, n)
    BY DEF Begun
  <2>3. Cluster(ResultEvents(rec, id, raw), n, Q, rs) /\ Len(ResultEvents(rec, id, raw)) # 0
    BY <1>1, <1>3, <1>9, <1>10, <2>1, <2>2, ResultsCluster
  <2> QED BY <1>5, <2>3
<1>12. FreshAt([Q EXCEPT !.events = @ \o es], rs)
  BY <1>10, <1>11, ClusterFresh
<1> QED BY <1>6, <1>12

LEMMA PlainFresh ==
  ASSUME NEW rec, NEW L, NEW rs, FreshAt(L, rs), NEW n, n = Len(L.events),
         NEW J, NEW id, Begun(L, J, rec, id, n), NEW raw, raw.line \in DOMAIN rs, rs[raw.line] = rec
  PROVE  FreshAt(LoadPlain(J, rec, id, raw), rs)
<1>1. PICK kind, corr : kind = RecordKind(rec) /\ corr = CorrelationId(rec, kind, id)
  OBVIOUS
<1>2. PICK e : e = Event(id, rec.parent, kind, corr, raw, rec.id # None)
  OBVIOUS
<1>3. LoadPlain(J, rec, id, raw) = Emit(J, e)
  BY <1>1, <1>2 DEF LoadPlain
<1>4. Bears(e, rec, n, rs)
  <2>1. id = IF rec.id # None THEN rec.id ELSE SyntheticEventId(n)
    BY DEF Begun, Stem
  <2>2. Bears(Event(id, rec.parent, kind, corr, raw, rec.id # None), rec, n, rs)
    BY <2>1, EventBears
  <2> QED BY <1>2, <2>2
<1>5. Fresh(L, n, rs) /\ IsSequence(L.events) /\ n \in Nat
  BY SequenceIs DEF FreshAt, Fresh
<1>6. PICK c \in Nat : c = n + 1 /\ n <= n /\ n < c
  BY <1>5
<1>7. Fresh(Emit(J, e), c, rs) /\ Len(Emit(J, e).events) = n + 1
  <2>1. Wider(L, J) /\ Identified(J, rec, n)
    BY DEF Begun
  <2> QED BY <1>4, <1>5, <1>6, <2>1, EmitFresh
<1> QED BY <1>3, <1>6, <1>7 DEF FreshAt

LEMMA WiderFresh ==
  ASSUME NEW L, NEW rs, FreshAt(L, rs), NEW M, Wider(L, M)
  PROVE  FreshAt(M, rs)
<1>1. PICK n : n = Len(L.events)
  OBVIOUS
<1>2. Fresh(L, n, rs) /\ n \in Nat /\ n <= n
  BY <1>1, SequenceIs DEF FreshAt, Fresh
<1>3. Fresh(M, n, rs) /\ Len(M.events) = n
  BY <1>1, <1>2, StillFresh DEF Wider
<1> QED BY <1>3 DEF FreshAt

\* The ids of a Claude Code record, which bears its place among the events.
LEMMA ClaudeRecordFresh ==
  ASSUME NEW R, NEW rs, FreshAt(R, rs), NEW raw, "ordinal" \in DOMAIN raw,
         NEW rec, IsRecord(rec), raw.line \in DOMAIN rs, rs[raw.line] = rec
  PROVE  FreshAt(ProcessClaudeRecord(R, rec, raw), rs)
<1>1. PICK seq : seq = [raw EXCEPT !.ordinal = Len(R.events)]
  OBVIOUS
<1>2. PICK id : id = RecordId(rec, seq)
  OBVIOUS
<1>3. PICK I : I = WithRecordId(R, rec, seq)
  OBVIOUS
<1>4. PICK H : H = ExtractLinks(I, rec.link)
  OBVIOUS
<1>5. PICK S : S = ObserveSignature(H, rec.foreign, raw)
  OBVIOUS
<1>6. PICK C : C = CheckVersion(S, rec.version, raw)
  OBVIOUS
<1>7. PICK V : V = ObserveVersion(C, IF rec.marker THEN rec.version ELSE None, raw)
  OBVIOUS
<1>8. PICK J : J = ReportWhen(V, RecordKind(rec) = "unknown" \/ rec.critical, "SL302", raw)
  OBVIOUS
<1>9. PICK X : X = ProcessClaudeRecord(R, rec, raw)
  OBVIOUS
<1>10. X = CASE Housekeeping(rec) -> V
             [] HarmlessUnknown(rec) -> NoteUnknown(V, raw)
             [] Blocks(rec, "use") # << >> -> LoadCalls(J, rec, id, raw)
             [] Blocks(rec, "use") = << >> /\ Blocks(rec, "result") # << >> ->
                  LoadResults(J, rec, id, raw)
             [] OTHER -> LoadPlain(J, rec, id, raw)
  BY <1>1, <1>2, <1>3, <1>4, <1>5, <1>6, <1>7, <1>8, <1>9 DEF ProcessClaudeRecord
<1>11. PICK n : n = Len(R.events)
  OBVIOUS
<1>12. seq.ordinal = n /\ DOMAIN R = LoadFields
  BY <1>1, <1>11 DEF FreshAt, Fresh
<1>13. Wider(R, I) /\ Identified(I, rec, n)
  BY <1>3, <1>12, RecordIdWidens
<1>14. Wider(I, V)
  <2>1. Wider(I, H)
    BY <1>4, <1>13, LinksWiden DEF Wider
  <2>2. Wider(H, S)
    BY <1>5, <2>1, SignatureWidens DEF Wider
  <2>3. Wider(S, C)
    BY <1>6, <2>2, CheckWidens DEF Wider
  <2>4. Wider(C, V)
    BY <1>7, <2>3, ObserveWidens DEF Wider
  <2> QED BY <2>1, <2>2, <2>3, <2>4, WiderOn
<1>15. Wider(V, J)
  <2>1. PICK condition : condition = (RecordKind(rec) = "unknown" \/ rec.critical)
    OBVIOUS
  <2>2. Wider(V, ReportWhen(V, condition, "SL302", raw))
    BY <1>14, ReportWidens DEF Wider
  <2> QED BY Zenon, <1>8, <2>1, <2>2
<1>16. Wider(R, V) /\ Wider(V, NoteUnknown(V, raw))
  <2>1. Wider(R, V)
    BY <1>13, <1>14, WiderOn
  <2> QED BY <2>1, UnknownWidens DEF Wider
<1>17. Begun(R, J, rec, id, n)
  <2>1. Wider(I, J)
    BY <1>14, <1>15, WiderOn
  <2>2. Wider(R, J) /\ Identified(J, rec, n)
    BY <1>13, <2>1, WiderOn, IdentifiedOn
  <2>3. Stem(id, rec, n)
    BY <1>2, <1>12 DEF Stem, RecordId
  <2> QED BY <2>2, <2>3 DEF Begun
<1>18. PICK a, b, c, d : /\ a = NoteUnknown(V, raw) /\ b = LoadCalls(J, rec, id, raw)
                         /\ c = LoadResults(J, rec, id, raw) /\ d = LoadPlain(J, rec, id, raw)
  OBVIOUS
<1>19. FreshAt(V, rs) /\ FreshAt(a, rs)
  BY <1>16, <1>18, WiderFresh
<1>20. Blocks(rec, "use") # << >> => FreshAt(b, rs)
  BY <1>11, <1>17, <1>18, CallsFresh
<1>21. Blocks(rec, "result") # << >> => FreshAt(c, rs)
  BY <1>11, <1>17, <1>18, ResultsFresh
<1>22. FreshAt(d, rs)
  BY <1>11, <1>17, <1>18, PlainFresh
<1>23. \/ X = V \/ X = a \/ X = d
       \/ Blocks(rec, "use") # << >> /\ X = b
       \/ Blocks(rec, "result") # << >> /\ X = c
  BY <1>10, <1>18
<1>24. FreshAt(X, rs)
  BY <1>19, <1>20, <1>21, <1>22, <1>23
<1> QED BY <1>9, <1>24

-----------------------------------------------------------------------------
(* The ids of a line.                                                      *)

LEMMA NotedFresh ==
  ASSUME NEW Y, NEW rs, NEW b \in Nat, Fresh(Y, b, rs), NEW L
  PROVE  Fresh(NotedSince(L, Y), b, rs)
<1>1. Wider(Y, NotedSince(L, Y))
  BY NotedWidens DEF Fresh
<1>2. b <= b
  OBVIOUS
<1> QED BY <1>1, <1>2, StillFresh

LEMMA NotedFreshAt ==
  ASSUME NEW Y, NEW rs, FreshAt(Y, rs), NEW L
  PROVE  FreshAt(NotedSince(L, Y), rs)
<1>1. Wider(Y, NotedSince(L, Y))
  BY NotedWidens DEF FreshAt, Fresh
<1> QED BY <1>1, WiderFresh

\* A line with its record.
Holds(raw, rs) == "ordinal" \in DOMAIN raw /\ raw.line \in DOMAIN rs /\ rs[raw.line] = raw.rec

LEMMA ClaudeLineFresh ==
  ASSUME NEW L, NEW rs, FreshAt(L, rs), NEW raw, Holds(raw, rs), IsRecord(raw.rec), NEW terminal
  PROVE  FreshAt(ProcessClaudeLine(L, raw, terminal), rs)
<1>1. PICK R, rec : R = [L EXCEPT !.findings = @ \o LineFindings(raw, terminal)] /\ rec = raw.rec
  OBVIOUS
<1>2. PICK X : X = ProcessClaudeRecord(R, rec, raw)
  OBVIOUS
<1>3. PICK Y : Y = IF IsDefect(raw) THEN R ELSE X
  OBVIOUS
<1>4. ProcessClaudeLine(L, raw, terminal) = NotedSince(L, Y)
  BY <1>1, <1>2, <1>3 DEF ProcessClaudeLine
<1>5. FreshAt(R, rs)
  <2>1. Wider(L, R)
    BY <1>1, AsideWidens DEF FreshAt, Fresh
  <2> QED BY <2>1, WiderFresh
<1>6. FreshAt(X, rs)
  BY <1>1, <1>2, <1>5, ClaudeRecordFresh DEF Holds
<1> QED BY <1>3, <1>4, <1>5, <1>6, NotedFreshAt

LEMMA OpenAILineFresh ==
  ASSUME NEW L, NEW rs, FreshAt(L, rs), NEW raw, Holds(raw, rs), NEW terminal
  PROVE  FreshAt(ProcessOpenAILine(L, raw, terminal), rs)
<1>1. PICK R, rec : R = [L EXCEPT !.findings = @ \o LineFindings(raw, terminal)] /\ rec = raw.rec
  OBVIOUS
<1>2. PICK X : X = ProcessItem(R, rec, raw)
  OBVIOUS
<1>3. PICK Y : Y = IF IsDefect(raw) THEN R ELSE X
  OBVIOUS
<1>4. ProcessOpenAILine(L, raw, terminal) = NotedSince(L, Y)
  BY <1>1, <1>2, <1>3 DEF ProcessOpenAILine
<1>5. FreshAt(R, rs)
  <2>1. Wider(L, R)
    BY <1>1, AsideWidens DEF FreshAt, Fresh
  <2> QED BY <2>1, WiderFresh
<1>6. FreshAt(X, rs)
  <2>1. PICK b : b = Len(R.events)
    OBVIOUS
  <2>2. Fresh(R, b, rs)
    BY <1>5, <2>1 DEF FreshAt
  <2>3. Fresh(ProcessItem(R, rec, raw), Len(ProcessItem(R, rec, raw).events), rs)
    BY <1>1, <2>1, <2>2, ItemFresh DEF Holds
  <2> QED BY <1>2, <2>3 DEF FreshAt
<1> QED BY <1>3, <1>4, <1>5, <1>6, NotedFreshAt

LEMMA CodexLineFresh ==
  ASSUME NEW L, NEW rs, NEW b \in Nat, Fresh(L, b, rs), NEW raw, Holds(raw, rs), raw.ordinal = b, NEW terminal
  PROVE  Fresh(ProcessCodexLine(L, raw, terminal), b + 1, rs)
<1>1. PICK R, rec : R = [L EXCEPT !.findings = @ \o LineFindings(raw, terminal)] /\ rec = raw.rec
  OBVIOUS
<1>2. PICK G : G = [R EXCEPT !.gap = TRUE]
  OBVIOUS
<1>3. PICK P : P = ProcessRolloutRecord(R, rec, raw)
  OBVIOUS
<1>4. PICK X : X = [P EXCEPT !.last = RecordId(rec, raw), !.lastOrdinal = rec.ordinal, !.gap = FALSE]
  OBVIOUS
<1>5. PICK Y : Y = IF IsDefect(raw) THEN G ELSE X
  OBVIOUS
<1>6. ProcessCodexLine(L, raw, terminal) = NotedSince(L, Y)
  BY <1>1, <1>2, <1>3, <1>4, <1>5 DEF ProcessCodexLine
<1>7. PICK c \in Nat : c = b + 1 /\ b <= b /\ b <= c /\ c <= c
  OBVIOUS
<1>8. Wider(L, R)
  BY <1>1, AsideWidens DEF Fresh
<1>9. Fresh(R, b, rs) /\ DOMAIN R = LoadFields
  BY <1>7, <1>8, StillFresh DEF Wider
<1>10. Fresh(G, c, rs)
  <2>1. Wider(R, G)
    BY <1>2, <1>9, AsideWidens
  <2> QED BY <1>7, <1>9, <2>1, StillFresh
<1>11. Fresh(X, c, rs)
  <2>1. Fresh(ProcessRolloutRecord(R, rec, raw), b + 1, rs)
    BY <1>1, <1>9, RolloutFresh DEF Holds
  <2>2. Fresh(P, c, rs)
    BY <1>3, <1>7, <2>1
  <2>3. Wider(P, X)
    <3>1. DOMAIN P = LoadFields
      BY <2>2 DEF Fresh
    <3> QED BY <1>4, <3>1, AsideWidens
  <2> QED BY <1>7, <2>2, <2>3, StillFresh
<1>12. Fresh(NotedSince(L, Y), c, rs)
  BY <1>5, <1>10, <1>11, NotedFresh
<1> QED BY <1>6, <1>7, <1>12

\* The number of the next record: of its line, or its place among the events.
Numbered(L, count) == IF format = "codex" THEN count ELSE Len(L.events)

LEMMA LineFresh ==
  ASSUME format \in {"claude", "codex", "openai"}, NEW count \in Nat, NEW L, NEW rs, Fresh(L, Numbered(L, count), rs),
         NEW raw, Holds(raw, rs), raw.ordinal = count, format = "claude" => IsRecord(raw.rec), NEW terminal,
         NEW X, X = Process(L, raw, terminal)
  PROVE  Fresh(X, Numbered(X, count + 1), rs)
<1>1. CASE format = "claude"
  <2>1. FreshAt(L, rs)
    BY <1>1 DEF FreshAt, Numbered
  <2>2. FreshAt(ProcessClaudeLine(L, raw, terminal), rs)
    BY <1>1, <2>1, ClaudeLineFresh
  <2>3. X = ProcessClaudeLine(L, raw, terminal)
    BY <1>1 DEF Process
  <2> QED BY <1>1, <2>2, <2>3 DEF FreshAt, Numbered
<1>2. CASE format = "openai"
  <2>1. FreshAt(L, rs)
    BY <1>2 DEF FreshAt, Numbered
  <2>2. FreshAt(ProcessOpenAILine(L, raw, terminal), rs)
    BY <2>1, OpenAILineFresh
  <2>3. X = ProcessOpenAILine(L, raw, terminal)
    BY <1>2 DEF Process
  <2> QED BY <1>2, <2>2, <2>3 DEF FreshAt, Numbered
<1>3. CASE format = "codex"
  <2>1. Fresh(L, count, rs)
    BY <1>3 DEF Numbered
  <2>2. Fresh(ProcessCodexLine(L, raw, terminal), count + 1, rs)
    BY <2>1, CodexLineFresh
  <2>3. X = ProcessCodexLine(L, raw, terminal)
    BY <1>3 DEF Process
  <2> QED BY <1>3, <2>2, <2>3 DEF Numbered
<1> QED BY <1>1, <1>2, <1>3

-----------------------------------------------------------------------------
(* The ids of an export.                                                   *)

LEMMA OneItemFresh ==
  ASSUME NEW items, NEW K, FreshAt(K, items), NEW i \in DOMAIN items
  PROVE  FreshAt(OneItem(items, items, K, i), items)
<1>1. PICK raw : raw = ItemRaw(i)
  OBVIOUS
<1>2. raw.line = i /\ "ordinal" \in DOMAIN raw
  BY <1>1 DEF ItemRaw, Raw
<1>3. PICK N : N = Report(K, "SL001", raw)
  OBVIOUS
<1>4. FreshAt(N, items)
  <2>1. Wider(K, N)
    BY <1>3, ReportWidens DEF FreshAt, Fresh
  <2> QED BY <2>1, WiderFresh
<1>5. PICK rec : rec = items[i]
  OBVIOUS
<1>6. PICK X : X = ProcessItem(K, rec, raw)
  OBVIOUS
<1>7. FreshAt(X, items)
  <2>1. PICK b : b = Len(K.events)
    OBVIOUS
  <2>2. Fresh(K, b, items) /\ raw.line \in DOMAIN items /\ items[raw.line] = rec
    BY <1>2, <1>5, <2>1 DEF FreshAt
  <2>3. Fresh(ProcessItem(K, rec, raw), Len(ProcessItem(K, rec, raw).events), items)
    BY <1>2, <2>1, <2>2, ItemFresh
  <2> QED BY <1>6, <2>3 DEF FreshAt
<1>8. OneItem(items, items, K, i) = IF items[i] = None THEN N ELSE X
  BY <1>1, <1>3, <1>5, <1>6 DEF OneItem
<1> QED BY <1>4, <1>7, <1>8

LEMMA ItemTurnsFresh ==
  ASSUME NEW at, NEW n \in Nat, NEW items, FreshAt(at[0], items),
         \A k \in Nat : k < n /\ FreshAt(at[k], items) => FreshAt(at[k + 1], items)
  PROVE  FreshAt(at[n], items)
<1> DEFINE T == {k \in Nat : k <= n => FreshAt(at[k], items)}
<1>1. 0 \in T
  OBVIOUS
<1>2. ASSUME NEW k \in Nat, k \in T PROVE k + 1 \in T
  BY <1>2
<1>3. Nat \subseteq T
  <2> HIDE DEF T
  <2> QED BY <1>1, <1>2, Lengths!NatSet
<1> QED BY <1>3

LEMMA EmptyFreshAt ==
  ASSUME NEW rs
  PROVE  FreshAt(EmptyLoad, rs)
BY EmptyFresh DEF FreshAt

\* The document's own id is one more that is known.
LEMMA OpenWidens ==
  ASSUME NEW doc, NEW raw
  PROVE  Wider(EmptyLoad, OpenExport(doc, raw))
<1>1. PICK first, version, repeated : first = ItemRaw(1) /\ version = doc.version /\ repeated = (raw.text = "repeated")
  OBVIOUS
<1>2. PICK listed : listed = ReportWhen(EmptyLoad, repeated, "SL303", first)
  OBVIOUS
<1>3. PICK named : named = IF version = None THEN listed ELSE RegisterSynthetic(listed, ExportId)
  OBVIOUS
<1>4. PICK checked : checked = CheckVersion(named, version, first)
  OBVIOUS
<1>5. PICK opened : opened = ObserveVersion(checked, version, first)
  OBVIOUS
<1>6. OpenExport(doc, raw) = opened
  <2>1. ReportWhen(EmptyLoad, raw.text = "repeated", "SL303", ItemRaw(1)) = listed
    BY <1>1, <1>2, Zenon
  <2> QED BY <1>1, <1>3, <1>4, <1>5, <2>1, Zenon DEF OpenExport
<1>7. DOMAIN EmptyLoad = LoadFields
  BY DEF EmptyLoad, LoadFields
<1>8. Wider(EmptyLoad, listed)
  BY <1>2, <1>7, ReportWidens, SameWider DEF ReportWhen
<1>9. Wider(listed, named)
  <2>1. DOMAIN listed = LoadFields
    BY <1>8 DEF Wider
  <2>2. Wider(listed, listed) /\ Wider(listed, RegisterSynthetic(listed, ExportId))
    BY <2>1, RegisterWidens, SameWider
  <2> QED BY <1>3, <2>2
<1>10. Wider(named, checked)
  BY <1>4, <1>9, CheckWidens DEF Wider
<1>11. Wider(checked, opened)
  BY <1>5, <1>10, ObserveWidens DEF Wider
<1> QED BY <1>6, <1>8, <1>9, <1>10, <1>11, WiderOn

LEMMA ExportFresh ==
  ASSUME NEW doc, IsSequence(doc.items), NEW raw
  PROVE  FreshAt(LoadExport(doc, raw), doc.items)
<1>1. PICK items : items = doc.items
  OBVIOUS
<1>2. PICK n \in Nat : n = Len(items) /\ DOMAIN items = 1..n
  BY <1>1, SequenceIs
<1>3. PICK seq : seq = [i \in 1..n |-> i]
  OBVIOUS
<1>4. DOMAIN seq = 1..Len(seq) /\ Len(seq) = n /\ \A k \in 1..n : seq[k] = k
  BY <1>3, Listed
<1>5. PICK opened, first : opened = OpenExport(doc, raw) /\ first = ItemRaw(1)
  OBVIOUS
<1>8. FreshAt(EmptyLoad, items) /\ DOMAIN EmptyLoad = LoadFields
  BY EmptyFreshAt DEF FreshAt, Fresh
<1>9. CASE IsDefect(raw)
  <2>1. LoadExport(doc, raw) = Report(EmptyLoad, "SL001", first)
    BY <1>5, <1>9 DEF LoadExport
  <2>2. Wider(EmptyLoad, Report(EmptyLoad, "SL001", first))
    BY <1>8, ReportWidens
  <2>3. FreshAt(Report(EmptyLoad, "SL001", first), items)
    BY <1>8, <2>2, WiderFresh
  <2> QED BY <1>1, <2>1, <2>3
<1>91. CASE ~IsDefect(raw) /\ Len(doc.items) > MaxRecords
  <2>1. PICK M : M = [EmptyLoad EXCEPT !.raised = TRUE]
    OBVIOUS
  <2>2. LoadExport(doc, raw) = M
    BY <1>91, <2>1 DEF LoadExport
  <2>3. Wider(EmptyLoad, M)
    BY <1>8, <2>1 DEF Wider, LoadFields
  <2>4. FreshAt(M, items)
    BY <1>8, <2>3, WiderFresh
  <2> QED BY <1>1, <2>2, <2>4
<1>10. CASE ~IsDefect(raw) /\ ~(Len(doc.items) > MaxRecords)
  <2>1. LoadExport(doc, raw) = Items!Fold(items, items, opened, seq)
    <3>1. LoadExport(doc, raw) =
            Items!Fold(doc.items, doc.items, OpenExport(doc, raw), [i \in 1..Len(doc.items) |-> i])
      BY <1>10 DEF LoadExport, FoldLeft, MapThenFoldSet, Max,
                   Items!Fold, Items!MapThenFoldSet, Items!Max, OneItem
    <3> QED BY <1>1, <1>2, <1>3, <1>5, <3>1
  <2>2. PICK at : Items!Turns(items, items, opened, seq, at) /\ at[Len(seq)] = Items!Fold(items, items, opened, seq)
    BY <1>2, <1>4, Items!FoldTurns
  <2>3. FreshAt(at[0], items)
    <3>1. Wider(EmptyLoad, opened)
      BY <1>5, OpenWidens
    <3>2. FreshAt(opened, items)
      BY <1>8, <3>1, WiderFresh
    <3> QED BY <2>2, <3>2 DEF Items!Turns
  <2>4. ASSUME NEW k \in Nat, k < n, FreshAt(at[k], items) PROVE FreshAt(at[k + 1], items)
    <3>1. k + 1 \in DOMAIN items /\ k + 1 \in 1..n
      BY <1>2, <2>4
    <3>2. at[k + 1] = OneItem(items, items, at[k], seq[k + 1])
      BY <1>4, <2>2, <2>4 DEF Items!Turns
    <3>3. at[k + 1] = OneItem(items, items, at[k], k + 1)
      BY <1>4, <3>1, <3>2
    <3>4. FreshAt(OneItem(items, items, at[k], k + 1), items)
      BY <2>4, <3>1, OneItemFresh
    <3> QED BY <3>3, <3>4
  <2>5. FreshAt(at[n], items)
    BY <2>3, <2>4, ItemTurnsFresh
  <2> QED BY <1>1, <1>4, <2>1, <2>2, <2>5
<1> QED BY <1>9, <1>91, <1>10

-----------------------------------------------------------------------------
(* The numbers in use are below the next one, as long as the file is read.  *)

\* The record of each line, and each item of a document.
Recs == IF format \in Documents THEN source[1].rec.items ELSE [i \in DOMAIN Lines |-> Lines[i].rec]

\* The formats whose records may come without an id.
ByLine == {"claude", "codex", "openai"}
Vendors == ByLine \cup {"document"}

ReadFresh ==
  format \in ByLine /\ Steady /\ pc \in AtWork /\ pendingRaw # NoRaw =>
    pendingRaw.ordinal = recordCount /\ Fresh(load, Numbered(load, recordCount), Recs)
DoneFresh ==
  format \in Vendors /\ Steady /\ pc = "done" =>
    NoCollision(load) /\ \E b \in Nat : Fresh(load, b, Recs)
FreshInv == ReadFresh /\ DoneFresh

LEMMA RecsSame ==
  ASSUME format' = format, Lines' = Lines, source' = source
  PROVE  Recs' = Recs
BY DEF Recs

\* The pending record is one of the file.
LEMMA PendingSays ==
  ASSUME ReadInv, format \in ByLine, Steady, pc \in AtWork
  PROVE  /\ recordCount \in Nat
         /\ pendingRaw = NoRaw => load = EmptyLoad
         /\ pendingRaw # NoRaw =>
              Holds(pendingRaw, Recs) /\ (format = "claude" => IsRecord(pendingRaw.rec))
<1>1. Streamed /\ format \notin Documents
  BY DEF Streamed, Documents, ByLine
<1>2. FileOK /\ PositionOK /\ PendingOK
  BY <1>1 DEF ReadInv, ReaderOK
<1>3. FileFits(Lines) /\ IsFile(Lines)
  BY <1>2, LinesFit
<1>4. PICK a : a = (IF pc = "read" THEN lineNumber ELSE lineNumber - 1) /\ PendingUpTo(a)
  BY <1>2 DEF PendingOK
<1>5. recordCount \in Nat
  <2>1. recordCount = OrdinalAt(a)
    BY <1>4 DEF PendingUpTo
  <2>2. pos[1] \in 1..(Len(Lines) + 1) /\ Len(Lines) \in Nat /\ DOMAIN Lines = 1..Len(Lines)
    BY <1>2, <1>3, LineIs DEF PositionOK
  <2>3. a \in 0..Len(Lines)
    BY <1>2, <1>4, <2>2 DEF PositionOK, AtWork
  <2>4. CASE a = 0
    <3>1. {j \in RecordAt : j <= 0} = {}
      BY <2>2 DEF RecordAt
    <3>2. OrdinalAt(0) = 0
      BY <3>1, FS_EmptySet DEF OrdinalAt
    <3> QED BY <2>1, <2>4, <3>2
  <2>5. CASE a # 0
    <3>1. a \in 1..Len(Lines)
      BY <2>2, <2>3, <2>5
    <3> QED BY <1>3, <2>1, <3>1, OrdinalIs
  <2> QED BY <2>4, <2>5
<1>6. ASSUME pendingRaw # NoRaw
      PROVE  Holds(pendingRaw, Recs) /\ (format = "claude" => IsRecord(pendingRaw.rec))
  <2>1. PICK m : m = pendingRaw.line
    OBVIOUS
  <2>2. m \in DOMAIN Lines /\ IsRaw(pendingRaw) /\ OfLine(pendingRaw, m)
    BY <1>4, <1>6, <2>1 DEF PendingUpTo, RawIs, RecordAt
  <2>3. pendingRaw.rec = Lines[m].rec
    BY <2>2 DEF OfLine
  <2>4. "ordinal" \in DOMAIN pendingRaw
    BY <2>2 DEF IsRaw, Raw
  <2>5. PICK rs : rs = Recs
    OBVIOUS
  <2>6. m \in DOMAIN rs /\ rs[m] = Lines[m].rec
    BY <1>1, <2>2, <2>5 DEF Recs
  <2>7. format = "claude" => IsRecord(Lines[m].rec)
    BY <1>3, <2>2 DEF FileFits
  <2> QED BY <2>1, <2>3, <2>4, <2>5, <2>6, <2>7 DEF Holds
<1> QED BY <1>4, <1>5, <1>6 DEF PendingUpTo

\* What the end of a file leaves.
LEMMA EndFresh ==
  ASSUME NEW L, NEW b, NEW rs, Fresh(L, b, rs), NEW total, NEW E, E = EndLoad(L, total), ~E.raised
  PROVE  NoCollision(E) /\ Fresh(E, b, rs)
<1>1. PICK tail, closing, raised : /\ tail = FinalizeTail(L.tail, total, TornOffsets(L))
                                   /\ closing = DriftFindings(L) \cup UnknownFindings(L)
                                   /\ raised = (L.raised \/ ~NoCollision(L))
  OBVIOUS
<1>2. E = [L EXCEPT !.tail = tail, !.closing = closing, !.raised = raised]
  BY <1>1 DEF EndLoad
<1>3. DOMAIN L = LoadFields
  BY DEF Fresh
<1>4. /\ DOMAIN E = LoadFields /\ E.events = L.events /\ E.real = L.real /\ E.synthetic = L.synthetic
      /\ E.raised = raised
  BY <1>2, <1>3 DEF LoadFields
<1>5. NoCollision(E)
  BY <1>1, <1>4 DEF NoCollision
<1>6. Fresh(E, b, rs)
  BY <1>4 DEF Fresh, Sourced, Made
<1> QED BY <1>5, <1>6

\* The record in hand becomes the pending one, and the one before it is processed.
LEMMA AcceptFresh ==
  ASSUME ReadInv, ReadFresh, format \in ByLine, Steady, pc \in AtWork, NEW raw, "ordinal" \in DOMAIN raw,
         Accept(raw), Lines' = Lines, format' = format, source' = source
  PROVE  ReadFresh'
<1>1. PICK rs : rs = Recs
  OBVIOUS
<1>2. Recs' = rs
  BY <1>1, RecsSame
<1>3. PICK count \in Nat : count = recordCount
  BY PendingSays
<1>4. CASE raw.text = Blank /\ ~raw.truncated
  <2>1. recordCount' = recordCount /\ pendingRaw' = pendingRaw /\ load' = load
    BY <1>4 DEF Accept
  <2>2. pendingRaw # NoRaw => pendingRaw.ordinal = recordCount /\ Fresh(load, Numbered(load, recordCount), rs)
    BY <1>1 DEF ReadFresh
  <2>3. PICK n : n = Numbered(load, recordCount)
    OBVIOUS
  <2>4. Numbered(load, recordCount)' = n
    BY <2>1, <2>3 DEF Numbered
  <2>5. pendingRaw' # NoRaw => pendingRaw'.ordinal = recordCount' /\ Fresh(load', n, rs)
    BY <2>1, <2>2, <2>3
  <2> QED BY <1>2, <2>4, <2>5 DEF ReadFresh, Fresh
<1>5. CASE ~(raw.text = Blank /\ ~raw.truncated) /\ pendingRaw # NoRaw /\ OverRecords(pendingRaw)
  <2>1. pc' = "tooMany"
    BY <1>5 DEF Accept
  <2> QED BY <2>1 DEF ReadFresh, AtWork
<1>6. CASE ~(raw.text = Blank /\ ~raw.truncated) /\ ~(pendingRaw # NoRaw /\ OverRecords(pendingRaw))
  <2>1. recordCount' = count + 1 /\ pendingRaw' = [raw EXCEPT !.ordinal = count + 1] /\ load' = Lookahead
    BY <1>3, <1>6 DEF Accept
  <2>2. pendingRaw'.ordinal = recordCount'
    BY <2>1
  <2>3. PICK X : X = Lookahead
    OBVIOUS
  <2>4. Fresh(X, Numbered(X, count + 1), rs)
    <3>1. CASE pendingRaw = NoRaw
      <4>1. X = EmptyLoad
        BY <2>3, <3>1, PendingSays DEF Lookahead
      <4> QED BY <4>1, EmptyFresh
    <3>2. CASE pendingRaw # NoRaw
      <4>1. PICK L, r : L = load /\ r = pendingRaw
        OBVIOUS
      <4>2. Holds(r, rs) /\ (format = "claude" => IsRecord(r.rec))
        BY <1>1, <3>2, <4>1, PendingSays
      <4>3. r.ordinal = count /\ Fresh(L, Numbered(L, count), rs)
        BY <1>1, <1>3, <3>2, <4>1 DEF ReadFresh
      <4>4. X = Process(L, r, FALSE)
        BY <2>3, <3>2, <4>1 DEF Lookahead
      <4> QED BY <4>2, <4>3, <4>4, LineFresh DEF ByLine
    <3> QED BY <3>1, <3>2
  <2>5. PICK n : n = Numbered(X, count + 1)
    OBVIOUS
  <2>6. Numbered(load, recordCount)' = n
    BY <2>1, <2>3, <2>5 DEF Numbered
  <2> QED BY <1>2, <2>1, <2>2, <2>3, <2>4, <2>5, <2>6 DEF ReadFresh, Fresh
<1> QED BY <1>4, <1>5, <1>6

\* A step that leaves what is being read alone.
LEMMA WaitFresh ==
  ASSUME ReadFresh, pc \in AtWork, Recs' = Recs, format' = format, Steady' => Steady, recordCount' = recordCount,
         pendingRaw' = pendingRaw, load' = load
  PROVE  ReadFresh'
<1>1. Numbered(load, recordCount)' = Numbered(load, recordCount)
  BY DEF Numbered
<1>2. PICK n, rs : n = Numbered(load, recordCount) /\ rs = Recs
  OBVIOUS
<1> QED BY <1>1, <1>2 DEF ReadFresh, Fresh

LEMMA NextLineFresh ==
  ASSUME ReadInv, ReadFresh, NextLine
  PROVE  ReadFresh'
<1> SUFFICES ASSUME format' \in ByLine, Steady', pc' \in AtWork PROVE ReadFresh'
  BY DEF ReadFresh
<1>1. PICK p, end, raw : p = ReadLine(LineLimit) /\ end = totalBytes + PieceSize(p) /\ raw = CurrentRaw(p)
  OBVIOUS
<1>2. /\ pc = "read"
      /\ CASE end > MaxFile ->
                pc' = "tooLarge" /\ UNCHANGED <<recordCount, pendingRaw, drained, load>>
           [] end <= MaxFile /\ raw.truncated /\ ~raw.ended /\ format \in Live ->
                pc' = "drain" /\ drained' = raw /\ UNCHANGED <<recordCount, pendingRaw, load>>
           [] OTHER -> Accept(raw)
      /\ UNCHANGED <<format, fileVars, source>>
  BY <1>1 DEF NextLine
<1>3. /\ format' = format /\ source' = source /\ touched' = touched /\ Lines' = Lines /\ Recs' = Recs
      /\ format \in ByLine /\ Steady /\ pc \in AtWork
  BY <1>2, RecsSame DEF fileVars, Lines, Steady, AtWork
<1>4. pc' # "tooLarge"
  BY DEF AtWork
<1>5. (recordCount' = recordCount /\ pendingRaw' = pendingRaw /\ load' = load) \/ Accept(raw)
  BY <1>2, <1>4
<1>6. "ordinal" \in DOMAIN raw
  BY <1>1 DEF CurrentRaw, Raw
<1> QED BY <1>3, <1>5, <1>6, WaitFresh, AcceptFresh

LEMMA DrainFresh ==
  ASSUME ReadInv, ReadFresh, Drain
  PROVE  ReadFresh'
<1> SUFFICES ASSUME format' \in ByLine, Steady', pc' \in AtWork PROVE ReadFresh'
  BY DEF ReadFresh
<1>1. PICK p, end, raw : /\ p = ReadLine(DrainSize) /\ end = totalBytes + PieceSize(p)
                         /\ raw = [drained EXCEPT !.end = IF AtEnd(p) THEN totalBytes ELSE end]
  OBVIOUS
<1>2. /\ pc = "drain"
      /\ IF AtEnd(p)
         THEN Accept(raw)
         ELSE CASE end > MaxFile ->
                     pc' = "tooLarge" /\ UNCHANGED <<recordCount, pendingRaw, drained, load>>
                [] end <= MaxFile /\ ~PieceEnded(Lines, p) ->
                     /\ pc' = "drain" /\ drained' = raw
                     /\ UNCHANGED <<recordCount, pendingRaw, load>>
                [] OTHER -> Accept(raw)
      /\ UNCHANGED <<format, fileVars, source>>
  BY <1>1 DEF Drain
<1>3. /\ format' = format /\ source' = source /\ touched' = touched /\ Lines' = Lines /\ Recs' = Recs
      /\ format \in ByLine /\ Steady /\ pc \in AtWork
  BY <1>2, RecsSame DEF fileVars, Lines, Steady, AtWork
<1>4. pc' # "tooLarge"
  BY DEF AtWork
<1>5. (recordCount' = recordCount /\ pendingRaw' = pendingRaw /\ load' = load) \/ Accept(raw)
  BY <1>2, <1>4
<1>6. "ordinal" \in DOMAIN raw
  <2>1. Streamed
    BY <1>3 DEF ByLine, Streamed, Documents
  <2>2. IsRaw(drained)
    BY <1>2, <1>3, <2>1 DEF ReadInv, ReaderOK, PositionOK
  <2>3. "ordinal" \in DOMAIN drained
    BY <2>2 DEF IsRaw, Raw
  <2> QED BY <1>1, <2>3
<1> QED BY <1>3, <1>5, <1>6, WaitFresh, AcceptFresh

LEMMA FinishFresh ==
  ASSUME ReadInv, ReadFresh, Finish
  PROVE  DoneFresh'
<1> SUFFICES ASSUME format' \in Vendors, Steady', pc' = "done"
             PROVE  (NoCollision(load) /\ \E b \in Nat : Fresh(load, b, Recs))'
  BY DEF DoneFresh
<1>1. PICK last, ended : /\ last = (IF pendingRaw = NoRaw THEN load ELSE Process(load, pendingRaw, TRUE))
                         /\ ended = EndLoad(last, totalBytes)
  OBVIOUS
<1>2. /\ pc = "read" /\ format \notin Documents /\ UNCHANGED <<format, fileVars, source>>
      /\ load' = IF format = "canonical" /\ pendingRaw = NoRaw THEN ReportEmpty(ended) ELSE ended
      /\ ~ended.raised
  <2>1. ~(pendingRaw # NoRaw /\ OverRecords(pendingRaw))
    BY DEF Finish
  <2>2. pc' = CASE ended.raised -> "raised"
                [] ~ended.raised /\ format = "events" -> IF pendingRaw = NoRaw THEN "headerMissing" ELSE "end"
                [] OTHER -> "done"
    BY <1>1, <2>1 DEF Finish
  <2> QED BY <1>1, <2>1, <2>2 DEF Finish
<1>3. /\ format' = format /\ source' = source /\ touched' = touched /\ Lines' = Lines /\ Recs' = Recs
      /\ format \in ByLine /\ Steady /\ pc \in AtWork
  BY <1>2, RecsSame DEF fileVars, Lines, Steady, AtWork, Vendors, Documents
<1>4. load' = ended
  BY <1>2, <1>3 DEF ByLine
<1>5. PICK rs : rs = Recs
  OBVIOUS
<1>6. PICK count \in Nat : count = recordCount
  BY <1>3, PendingSays
<1>7. \E b \in Nat : Fresh(last, b, rs)
  <2>1. CASE pendingRaw = NoRaw
    <3>1. last = EmptyLoad
      BY <1>1, <1>3, <2>1, PendingSays
    <3> QED BY <1>6, <3>1, EmptyFresh
  <2>2. CASE pendingRaw # NoRaw
    <3>1. PICK L, r : L = load /\ r = pendingRaw
      OBVIOUS
    <3>2. Holds(r, rs) /\ (format = "claude" => IsRecord(r.rec))
      BY <1>3, <1>5, <2>2, <3>1, PendingSays
    <3>3. r.ordinal = count /\ Fresh(L, Numbered(L, count), rs)
      BY <1>3, <1>5, <1>6, <2>2, <3>1 DEF ReadFresh
    <3>4. last = Process(L, r, TRUE)
      BY <1>1, <2>2, <3>1
    <3>5. Fresh(last, Numbered(last, count + 1), rs)
      BY <1>3, <3>2, <3>3, <3>4, LineFresh DEF ByLine
    <3>6. Numbered(last, count + 1) \in Nat
      BY <3>5, SequenceIs DEF Numbered, Fresh
    <3> QED BY <3>5, <3>6
  <2> QED BY <2>1, <2>2
<1>8. PICK b \in Nat : Fresh(last, b, rs)
  BY <1>7
<1>9. NoCollision(ended) /\ Fresh(ended, b, rs)
  BY <1>1, <1>2, <1>8, EndFresh
<1>10. NoCollision(load') /\ Fresh(load', b, rs)
  BY <1>4, <1>9
<1>11. Recs' = rs
  BY <1>3, <1>5
<1> QED BY <1>10, <1>11 DEF NoCollision, Fresh

LEMMA DocumentFresh ==
  ASSUME ReadInv, LoadDocument
  PROVE  DoneFresh'
<1> SUFFICES ASSUME format' \in Vendors, pc' = "done"
             PROVE  (NoCollision(load) /\ \E b \in Nat : Fresh(load, b, Recs))'
  BY DEF DoneFresh
<1>1. PICK doc, raw : /\ doc = source[1].rec
                      /\ raw = Raw(TextOf(source, [line |-> 1, from |-> 0, to |-> source[1].have]),
                                   FALSE, FALSE, None, 1, 1, 0, 0)
  OBVIOUS
<1>2. /\ pc = "read" /\ format \in Documents /\ format' = format /\ source' = source
      /\ load' = EndLoad(IF format = "document" THEN LoadExport(doc, raw) ELSE LoadSessionDocument(doc, raw), 0)
      /\ pc' = IF load'.raised THEN "raised" ELSE "done"
  BY <1>1 DEF LoadDocument
<1>3. format = "document"
  BY <1>2 DEF Vendors, ByLine, Documents
<1>4. PICK L, E : L = LoadExport(doc, raw) /\ E = EndLoad(L, 0)
  OBVIOUS
<1>5. load' = E /\ ~E.raised
  BY <1>2, <1>3, <1>4
<1>6. IsSequence(doc.items)
  <2>1. FileOK
    BY DEF ReadInv
  <2>2. FileFits(source)
    BY <1>2, <2>1 DEF FileOK, AtWork, Documents, Live
  <2> QED BY <1>1, <1>2, <2>2 DEF FileFits
<1>7. PICK items : items = doc.items
  OBVIOUS
<1>8. FreshAt(L, items)
  BY <1>4, <1>6, <1>7, ExportFresh
<1>9. PICK b \in Nat : Fresh(L, b, items)
  BY <1>8, SequenceIs DEF FreshAt, Fresh
<1>10. NoCollision(E) /\ Fresh(E, b, items)
  BY <1>4, <1>5, <1>9, EndFresh
<1>11. Recs' = items
  BY <1>1, <1>2, <1>7 DEF Recs
<1> QED BY <1>5, <1>10, <1>11 DEF NoCollision, Fresh

\* Before the file is opened, and after its end, nothing is pending.
LEMMA IdleFresh ==
  ASSUME ReadInv, GuardStat \/ GuardHash \/ VerifyStat \/ VerifyHash \/ OpenTooLarge \/ OpenLive \/ Slurp
  PROVE  FreshInv'
<1>1. pc' # "done" /\ (pc' \in AtWork => OpenLive \/ Slurp)
  BY DEF GuardStat, GuardHash, VerifyStat, VerifyHash, OpenTooLarge, OpenLive, Slurp, AtWork
<1>2. ASSUME OpenLive \/ Slurp PROVE pendingRaw' = NoRaw
  <2>1. pc \in Waiting /\ pendingRaw' = pendingRaw
    BY <1>2 DEF OpenLive, Slurp, ReadyToOpen, Waiting
  <2> QED BY <2>1 DEF ReadInv, StartOK
<1> QED BY <1>1, <1>2 DEF FreshInv, ReadFresh, DoneFresh, NoRaw

LEMMA AgentFresh ==
  ASSUME ReadInv, FreshInv, Agent
  PROVE  FreshInv'
<1>1. /\ pc \notin Final /\ touched' = (touched \/ ~(pc \in Waiting))
      /\ UNCHANGED <<format, guard, pc, source, mapped, pos, counters, pendingRaw, drained, load>>
  BY DEF Agent, AppendPart, AppendRest, Rewrite, Write, Waiting
<1>2. /\ format' = format /\ pc' = pc /\ source' = source /\ recordCount' = recordCount
      /\ pendingRaw' = pendingRaw /\ load' = load /\ pc # "done"
  BY <1>1 DEF counters, Final
<1>3. ReadFresh'
  <2> SUFFICES ASSUME Steady', pc \in AtWork PROVE ReadFresh'
    BY <1>2 DEF ReadFresh
  <2>1. Steady /\ Lines' = Lines
    BY <1>1, <1>2 DEF Steady, Lines, AtWork, Waiting
  <2>2. Recs' = Recs
    BY <1>2, <2>1, RecsSame
  <2> QED BY <1>2, <2>1, <2>2, WaitFresh DEF FreshInv
<1> QED BY <1>2, <1>3 DEF FreshInv, DoneFresh

LEMMA StillFreshInv ==
  ASSUME FreshInv, UNCHANGED vars
  PROVE  FreshInv'
<1>1. /\ format' = format /\ pc' = pc /\ source' = source /\ file' = file /\ touched' = touched
      /\ recordCount' = recordCount /\ pendingRaw' = pendingRaw /\ load' = load
  BY DEF vars, fileVars, counters
<1>2. Lines' = Lines /\ Steady' = Steady
  BY <1>1 DEF Lines, Steady
<1>3. Recs' = Recs
  BY <1>1, <1>2, RecsSame
<1>4. ReadFresh'
  <2> SUFFICES ASSUME pc \in AtWork PROVE ReadFresh'
    BY <1>1 DEF ReadFresh
  <2> QED BY <1>1, <1>2, <1>3, WaitFresh DEF FreshInv
<1>5. DoneFresh'
  <2> SUFFICES ASSUME format \in Vendors, Steady, pc = "done"
               PROVE  (NoCollision(load) /\ \E b \in Nat : Fresh(load, b, Recs))'
    BY <1>1, <1>2 DEF DoneFresh
  <2>1. PICK b \in Nat : NoCollision(load) /\ Fresh(load, b, Recs)
    BY DEF FreshInv, DoneFresh
  <2>2. PICK rs : rs = Recs /\ rs = Recs'
    BY <1>3
  <2>3. NoCollision(load') /\ Fresh(load', b, rs)
    BY <1>1, <2>1, <2>2
  <2> QED BY <2>2, <2>3 DEF NoCollision, Fresh
<1> QED BY <1>4, <1>5 DEF FreshInv

LEMMA StepFresh ==
  ASSUME ReadInv, FreshInv, [Next]_vars
  PROVE  FreshInv'
<1>1. CASE NextLine \/ Drain
  <2>1. pc' # "done"
    BY <1>1 DEF NextLine, Drain, Accept
  <2>2. ReadFresh'
    BY <1>1, NextLineFresh, DrainFresh DEF FreshInv
  <2> QED BY <2>1, <2>2 DEF FreshInv, DoneFresh
<1>2. CASE Finish \/ LoadDocument
  <2>1. pc' \notin AtWork
    BY <1>2 DEF Finish, LoadDocument, AtWork
  <2>2. DoneFresh'
    BY <1>2, FinishFresh, DocumentFresh DEF FreshInv
  <2> QED BY <2>1, <2>2 DEF FreshInv, ReadFresh
<1> QED BY <1>1, <1>2, IdleFresh, AgentFresh, StillFreshInv DEF Next, Read

LEMMA InitFresh ==
  ASSUME Init
  PROVE  FreshInv
BY DEF Init, FreshInv, ReadFresh, DoneFresh, AtWork

\* What the invariant says of a load that is complete.
LEMMA MadeUpSays ==
  ASSUME ReadInv, FreshInv
  PROVE  MadeUpIdsAreFresh
<1> SUFFICES ASSUME Settled, format \notin {"events", "canonical", "session"},
                    NEW j \in DOMAIN load.events, NEW k \in DOMAIN load.events, j < k,
                    load.events[j].id = load.events[k].id
             PROVE  \/ load.events[j].original /\ load.events[k].original
                    \/ /\ RecOf(load.events[j]).id = RecOf(load.events[k]).id
                       /\ RecOf(load.events[j]).id # None
  BY DEF MadeUpIdsAreFresh
<1>1. PICK d, e : d = load.events[j] /\ e = load.events[k]
  OBVIOUS
<1>2. format \in Formats /\ (pc = "verified" => format = "events")
  BY DEF ReadInv, FileOK, GuardOK
<1>3. pc = "done" /\ Steady /\ format \in Vendors
  BY <1>2 DEF Settled, Steady, Formats, Live, Documents, Vendors, ByLine
<1>4. PICK b \in Nat : NoCollision(load) /\ Fresh(load, b, Recs)
  BY <1>3 DEF FreshInv, DoneFresh
<1>5. PICK L, rs : L = load /\ rs = Recs
  OBVIOUS
<1>6. (d.original /\ e.original) \/ (rs[d.line].id = rs[e.line].id /\ rs[d.line].id # None)
  <2>1. /\ Fresh(L, b, rs) /\ NoCollision(L) /\ j \in DOMAIN L.events /\ k \in DOMAIN L.events
        /\ d = L.events[j] /\ e = L.events[k] /\ d.id = e.id
    BY <1>1, <1>4, <1>5
  <2> QED BY <2>1, FreshIsFresh
<1>7. d.line \in DOMAIN rs /\ e.line \in DOMAIN rs
  BY <1>1, <1>4, <1>5 DEF Fresh, Sourced
<1>8. RecOf(d) = rs[d.line] /\ RecOf(e) = rs[e.line]
  BY <1>5, <1>7 DEF RecOf, Recs
<1> QED BY <1>1, <1>6, <1>8

\* An id that the loader made up never equals another one, unless the vendor gave two
\* records the same id: numbers are given once, and the ids made of parts of a record
\* stay apart from the vendor's (synthetic.py and the ids of split records).
THEOREM MadeUpAreFresh == CheckSpec => []MadeUpIdsAreFresh
<1>1. CheckInit => FreshInv
  BY InitFresh DEF CheckInit
<1>2. ReadInv /\ FreshInv /\ [CheckNext]_<<vars, report>> => FreshInv'
  <2> SUFFICES ASSUME ReadInv, FreshInv, [CheckNext]_<<vars, report>> PROVE FreshInv'
    OBVIOUS
  <2>1. [Next]_vars
    BY DEF CheckNext, Judge
  <2> QED BY <2>1, StepFresh
<1>3. ReadInv /\ FreshInv => MadeUpIdsAreFresh
  BY MadeUpSays
<1> QED BY <1>1, <1>2, <1>3, ReadAlways, PTL DEF CheckSpec
=============================================================================

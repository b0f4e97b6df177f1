---------------------------- MODULE RecordLines ----------------------------
(* The physical lines of a session file and what the reader (io.py) makes of   *)
(* one of them.  A line holds a text of some length, of which a writer may     *)
(* have put down a first part only; its last byte is the newline.  A piece is  *)
(* what one readline returned: the bytes from+1 .. to of a line.               *)
EXTENDS Naturals, Sequences, SequencesExt

CONSTANTS
  MaxLine,      \* limits.max_line_bytes, newline included
  DrainSize,    \* bytes read at a time behind an oversize line
  MaxFile,      \* limits.max_file_bytes
  MaxRecords    \* limits.max_records

ASSUME LimitAssumption == \A n \in {MaxLine, DrainSize, MaxFile, MaxRecords} : n \in Nat \ {0}

\* What a whole line says: nothing; a session header; one object; an object with
\* a repeated key; JSON that is no object, nested too deep or no event; the
\* beginning of an object; bytes that no continuation makes an object.  The rest
\* of a "hiding" line behind the limit would be an object by itself.
Blank == "blank"
Decodes == {"header", "object", "repeated", "refused"}
ObjectTexts == {"header", "object", "repeated", "cut"}

IsSequence(q) == q \in Seq(ToSet(q))

Ended(line) == line.have = line.size

\* Bytes of the file in front of line i, and in the whole file.
OffsetOf(file, i) == FoldLeft(LAMBDA n, l : n + l.have, 0, SubSeq(file, 1, i - 1))
SizeOf(file) == OffsetOf(file, Len(file) + 1)

PieceSize(p) == p.to - p.from
PieceEnded(file, p) == p.to = file[p.line].size

\* The text of a piece on its own.
TextOf(file, p) ==
  LET line == file[p.line]
      newlineOnly == p.from = line.size - 1
      whole == p.from = 0 /\ p.to >= line.size - 1
  IN CASE line.text = Blank \/ newlineOnly -> Blank
       [] whole -> line.text
       [] p.from = MaxLine + 1 /\ line.text = "hiding" /\ p.to >= line.size - 1 -> "object"
       [] p.from = 0 /\ line.text \in ObjectTexts -> "cut"
       [] OTHER -> "junk"

-----------------------------------------------------------------------------
(* A raw line: the first piece of a physical line with its coordinates.        *)

Raw(text, ended, truncated, rec, number, ordinal, offset, end) ==
  [text |-> text, ended |-> ended, truncated |-> truncated, rec |-> rec,
   line |-> number, ordinal |-> ordinal, offset |-> offset, end |-> end]

\* A torn append: an unterminated last line that begins an object.
IsTornAppend(raw) == ~raw.ended /\ raw.text = "cut"

DecodeDefectCode(raw, terminal) ==
  IF terminal /\ ~raw.truncated /\ IsTornAppend(raw) THEN "SL002" ELSE "SL001"

\* Why a line is no record: its length, its bytes, or its shape.
Undecodable(raw) == raw.text \notin Decodes
IsDefect(raw) == raw.truncated \/ Undecodable(raw) \/ raw.text = "refused"
DefectCode(raw, terminal) ==
  IF ~raw.truncated /\ Undecodable(raw) THEN DecodeDefectCode(raw, terminal) ELSE "SL001"

Finding(code, raw) ==
  [code |-> code, line |-> raw.line, offset |-> raw.offset, end |-> raw.end,
   ordinal |-> raw.ordinal]

\* Every adapter reports the defects of a line, then the repeated keys of what
\* it decoded, before it looks at the record.
LineFindings(raw, terminal) ==
  IF IsDefect(raw) THEN <<Finding(DefectCode(raw, terminal), raw)>>
  ELSE IF raw.text = "repeated" THEN <<Finding("SL303", raw)>>
  ELSE <<>>

\* No raw line: lines are numbered from 1.
NoRaw == Raw(Blank, FALSE, FALSE, <<>>, 0, 0, 0, 0)

-----------------------------------------------------------------------------
(* The tail that a loader which stops at the first malformed line never sees.  *)

NoTail == [begun |-> FALSE, end |-> 0, records |-> 0, bytes |-> 0]

NoteProduced(tail, findings, events) ==
  LET bad == {k \in DOMAIN findings : findings[k].code = "SL001"}
      begun == IF tail.begun \/ bad = {} THEN tail
               ELSE [tail EXCEPT !.begun = TRUE, !.end = findings[Min(bad)].end]
  IN IF begun.begun THEN [begun EXCEPT !.records = @ + Len(events)] ELSE begun

FinalizeTail(tail, total, tornAt) ==
  IF ~tail.begun THEN tail
  ELSE LET end == IF tornAt = {} THEN total ELSE CHOOSE o \in tornAt : TRUE
       IN [tail EXCEPT !.bytes = IF end > tail.end THEN end - tail.end ELSE 0]
=============================================================================

------------------------------ MODULE IngestMC ------------------------------
(* Instances of SessionReport for TLC: the lines of each vendor's files, and   *)
(* what a user may ask of a check.                                             *)
EXTENDS SessionReport

Line(text, size, rec) == [text |-> text, size |-> size, have |-> size, rec |-> rec]
Whole(rec) == Line("object", 2, rec)

\* A first part of the last line only.
CutShort(f) ==
  IF f = <<>> THEN {f}
  ELSE {[f EXCEPT ![Len(f)].have = n] : n \in 1..f[Len(f)].size}

Files(lines, n) == UNION {[1..k -> lines] : k \in 0..n}
Of(fmt, files, n) == [format : {fmt}, file : files, writes : {n}]

-----------------------------------------------------------------------------
\* The reading of lines: every kind of text, sizes around the limit of 3, a file
\* that is too large, and an agent that writes meanwhile.
Plain == [id |-> <<"a">>, uuid |-> TRUE, parent |-> None, class |-> "message", corr |-> None,
          version |-> None, marker |-> FALSE, plain |-> TRUE, critical |-> FALSE,
          foreign |-> FALSE, link |-> None, blocks |-> <<>>]

Texts == {Line("object", 2, Plain), Line("junk", 2, Plain), Line(Blank, 1, Plain),
          Line("hiding", 7, Plain), Line("cut", 3, Plain), Line("repeated", 4, Plain)}
SomeNewLines == {Line("object", 3, Plain), Line("hiding", 7, Plain)}
Headed == {<<Line("header", 2, Plain)>> \o f : f \in Files(Texts, 1)}

Reading ==
  Of("events", UNION {CutShort(f) : f \in Files(Texts, 2) \cup Headed}, 1)
  \cup Of("claude", UNION {CutShort(f) : f \in Files(Texts, 2)}, 1)
  \cup Of("events", {<<Line("object", 2, Plain), Line("refused", 2, Plain)>>}, 2)
  \cup UNION {Of(fmt, Files({Line("object", 2, Plain), Line("junk", 2, Plain),
                             Line("cut", 3, Plain), Line("hiding", 7, Plain)}, 4), 0) :
              fmt \in Live}

-----------------------------------------------------------------------------
\* Codex records: identities that meet, ordinals with a hole, versions, types
\* nobody knows.
Codex1 == [id |-> None, class |-> "message", corr |-> None, ordinal |-> None,
           version |-> None, plain |-> TRUE, critical |-> FALSE, foreign |-> FALSE,
           link |-> None]
CodexLines ==
  {Whole(r) : r \in {
     Codex1,
     [Codex1 EXCEPT !.id = <<"synthetic", 2>>, !.ordinal = 1, !.version = "old"],
     [Codex1 EXCEPT !.id = <<"a">>, !.class = "tool_call", !.ordinal = 2, !.version = "v1"],
     [Codex1 EXCEPT !.id = <<"a">>, !.class = "tool_result", !.corr = <<"a">>, !.ordinal = 3,
                    !.version = "v2"],
     [Codex1 EXCEPT !.class = "newType"],
     [Codex1 EXCEPT !.class = "newItem", !.plain = FALSE, !.link = "other"],
     [Codex1 EXCEPT !.class = "badAgentMessage", !.critical = TRUE, !.foreign = TRUE]}}
  \cup {Line("junk", 2, Codex1), Line(Blank, 1, Codex1), Line("repeated", 5, Codex1)}

\* Claude records: several calls or results in one record, ids that look made
\* up, housekeeping between them.
Block(kind, id, corr) == [kind |-> kind, id |-> id, corr |-> corr]
ClaudeLines ==
  {Whole(r) : r \in {
     Plain,
     [Plain EXCEPT !.id = None, !.uuid = FALSE, !.class = "metadata"],
     [Plain EXCEPT !.uuid = FALSE, !.class = "metadata"],
     [Plain EXCEPT !.id = None, !.class = "newType", !.version = "old", !.marker = TRUE],
     [Plain EXCEPT !.id = None, !.class = "newType", !.plain = FALSE, !.parent = <<"b">>],
     [Plain EXCEPT !.id = <<"b">>, !.parent = <<"a">>, !.class = "tool_call",
                   !.blocks = <<Block("text", None, None), Block("use", <<"t">>, None),
                                Block("use", None, None), Block("use", <<"u">>, None)>>],
     [Plain EXCEPT !.id = None, !.class = "tool_call", !.version = "v1", !.marker = TRUE,
                   !.blocks = <<Block("use", None, None), Block("use", <<"u">>, None)>>],
     [Plain EXCEPT !.id = <<"c">>, !.parent = <<"b">>, !.class = "tool_result",
                   !.blocks = <<Block("result", None, <<"u">>)>>],
     [Plain EXCEPT !.id = <<"b", "text", 0>>, !.parent = <<"c">>, !.link = "other"],
     [Plain EXCEPT !.id = <<"synthetic", 1>>, !.critical = TRUE, !.class = "boundary",
                   !.version = "v2", !.marker = TRUE, !.foreign = TRUE]}}
  \cup {Line("junk", 2, Plain)}

\* A record with two results, and one that follows it.
TwoResults ==
  [Plain EXCEPT !.id = <<"d">>, !.parent = <<"a">>, !.class = "tool_result",
                !.blocks = <<Block("result", None, <<"u">>), Block("result", None, <<"t">>)>>]
Follower == [Plain EXCEPT !.id = <<"e">>, !.parent = <<"d">>]

\* OpenAI items.
Item == [id |-> None, parent |-> None, class |-> "message", corr |-> None,
         version |-> None, critical |-> FALSE, foreign |-> FALSE]
Items ==
  {Item,
   [Item EXCEPT !.id = <<"a">>, !.class = "tool_call", !.version = "old"],
   [Item EXCEPT !.id = <<"b">>, !.parent = <<"a">>, !.class = "tool_result", !.corr = <<"a">>],
   [Item EXCEPT !.id = <<"synthetic", 1>>, !.class = "compaction"],
   [Item EXCEPT !.id = ExportId],
   [Item EXCEPT !.class = "newType", !.version = "v1", !.critical = TRUE],
   [Item EXCEPT !.class = "newRole", !.foreign = TRUE]}
Export(text, version, items) == <<Line(text, 2, [version |-> version, items |-> items])>>
Exports ==
  {Export(t, v, items) :
     t \in {"object", "junk"}, v \in {None, "old", "v1"}, items \in Files(Items \cup {None}, 2)}
  \cup {Export("repeated", v, [i \in 1..n |-> Item]) : v \in {None, "v1"}, n \in 0..4}

\* Canonical records.
Header(version, critical) == [version |-> version, critical |-> critical, writers |-> ~critical]
Record == [faults |-> {}, id |-> <<"a">>, class |-> "message", parent |-> None, corr |-> None,
           critical |-> FALSE, foreign |-> FALSE]
CanonicalLines ==
  {Line("header", 2, Header("v1", FALSE)), Line("header", 2, Header("old", TRUE)),
   Line("junk", 2, Record), Line("repeated", 6, Record)}
  \cup {Whole(r) : r \in {Record, [Record EXCEPT !.faults = {"id", "parent"}],
                          [Record EXCEPT !.faults = {"kind"}, !.critical = TRUE,
                                         !.foreign = TRUE, !.id = <<"b">>]}}
CanonicalFiles == {f \in Files(CanonicalLines, 3) :
                     \A i \in DOMAIN f : (i = 1) = (f[i].text = "header") \/ (i = 1 /\ f[i].text = "junk")}

Session(text, version, refused, unlisted, misfit, items) ==
  <<Line(text, 2, [version |-> version, critical |-> version = "old", writers |-> version = None,
                   refused |-> refused, unlisted |-> unlisted, misfit |-> misfit, items |-> items])>>
Sessions ==
  {Session("object", v, FALSE, FALSE, FALSE, items) :
     v \in {None, "old", "v1"},
     items \in Files({None, Record, [Record EXCEPT !.faults = {"id", "ts"}]}, 4)}
  \cup {Session(t, v, r, u, m, items) :
           t \in {"object", "repeated", "junk"}, v \in {"old", "v1"},
           r \in BOOLEAN, u \in BOOLEAN, m \in BOOLEAN, items \in Files({None, Record}, 1)}

Translating ==
  Of("codex", Files(CodexLines, 3), 0)
  \cup Of("claude", Files(ClaudeLines, 3), 0)
  \cup Of("claude", Files({Whole(Plain), Whole(TwoResults), Whole(Follower)}, 2), 0)
  \cup Of("openai", Files({Whole(i) : i \in Items} \cup {Line("junk", 2, Item)}, 3), 0)
  \cup Of("document", Exports, 0) \cup Of("session", Sessions, 0)
  \cup Of("canonical", CanonicalFiles, 0)

\* Scores of detection on either side of its threshold and of its margin.
SomeConfidences == {0, 2, 3, 5}

\* What a user may switch off, or be the only thing left on.
SomeDeselections ==
  {{}, {"SL301"}, {"SL001", "SL005", "SL203"}, Structural}
  \cup {AllRules \ {"SL203"}, AllRules \ {"SL206"}}

AllScenarios == Reading \cup Translating
ParallelScenarios == Of("claude", Files({Whole(Plain), Whole(TwoResults), Whole(Follower)}, 3), 0)
=============================================================================

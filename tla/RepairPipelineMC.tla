--------------------------- MODULE RepairPipelineMC ---------------------------
(* Instances of RepairPipeline for TLC: the records a session is made of.     *)
EXTENDS RepairVerify

Rec(id, parent, kind, corr, content, effects) ==
  [id |-> id, parent |-> parent, kind |-> kind, corr |-> corr, content |-> content,
   effects |-> effects, origin |-> 0, joined |-> FALSE]

\* Records of one tool call, some of which say the same as another.
Start == Rec("m", None, "message", None, "hello", "none")
Echo  == Rec("n", "m", "message", None, "hello", "none")
Call  == Rec("c", "m", "tool_call", "k", "read", "none")
Reply == Rec("r", "c", "tool_result", "k", "ok", "none")
Again == Rec("s", "r", "tool_result", "k", "ok", "none")
After == Rec("q", "s", "message", None, "thanks", "none")
Other == Rec("r", "c", "tool_result", "k", Unsettled, "none")
Write == Rec("w", "m", "tool_call", "l", "write", "unknown")

\* Two tool calls around a compaction and the checkpoints that cover it.
CallA  == Rec("c", None, "tool_call", "k", "read", "none")
ReplyA == Rec("r", "c", "tool_result", "k", "ok", "none")
CallB  == Rec("d", "c", "tool_call", "l", "read", "none")
CallW  == Rec("d", "c", "tool_call", "l", "write", "unknown")
ReplyB == Rec("t", "d", "tool_result", "l", "ok", "none")
Cut    == Rec("b", "c", "compaction_boundary", None, "cut", "none")
Cut2   == Rec("b2", "c", "compaction_boundary", None, "again", "none")
Point  == Rec("p", "c", "checkpoint", None, "one", "none")
Point2 == Rec("p2", "c", "checkpoint", None, "two", "none")

\* A checkpoint after one that is missing, and one that contradicts the first.
Skip   == Rec("p3", "c", "checkpoint", None, "four", "none")
Rival  == Rec("p4", "c", "checkpoint", None, "other one", "none")

\* The first compaction claims to cover the first call, the second what never was.
Payload(content) ==
  LET is(number, hash, covers) == [number |-> number, hash |-> hash, covers |-> covers]
  IN CASE content = "one" -> is(1, "x", None)
       [] content = "two" -> is(2, "x", None)
       [] content = "four" -> is(4, None, None)
       [] content = "other one" -> is(1, "y", None)
       [] content = "cut" -> is(None, None, "c")
       [] content = "again" -> is(None, None, "z")
       [] OTHER -> is(None, None, None)

\* Two branches, of which one calls a tool and the other holds what salvage drops.
Side   == Rec("e", None, "message", None, "aside", "none")
Stray  == Rec("x", "c", "tool_result", "z", "late", "none")
Doing  == Rec("y", "c", "tool_call", "o", "write", "unknown")
Torn   == Rec(None, None, "torn", None, "half", "none")
Named  == Rec("g", None, "torn", None, "half", "none")
Below  == Rec("h", "g", "message", None, "reply", "none")

\* An event of the line of the one before it.
OfLine(r) == [r EXCEPT !.joined = TRUE]

Catalog(records, upTo, recurring) ==
  [records |-> records, upTo |-> upTo, recurring |-> recurring, format |-> "canonical", policies |-> {"conservative"}]
Salvaging(records, upTo, format) ==
  [records |-> records, upTo |-> upTo, recurring |-> FALSE, format |-> format, policies |-> {"conservative", "salvage"}]

Names == <<"b", "b2", "c", "d", "e", "f", "g", "h", "m", "n", "p", "p2", "p3", "p4", "q", "r", "s", "t", "w", "x", "y">>

\* Every record of these twice and out of place; every one of these once.
Pairs == {Catalog({Start, Echo, Call, Reply, Again, After, Other, Write}, 5, TRUE)}
Compactions == {Catalog({CallA, ReplyA, CallB, CallW, ReplyB, Cut, Point}, 6, FALSE)}
Resumed == {Catalog({CallA, ReplyA, Cut, Point, Skip, Rival}, 4, FALSE)}
Canonical == {Salvaging({CallA, ReplyA, Stray, Doing, Named, Below}, 4, "canonical")}
Vendor == {Salvaging({Start, OfLine(Call), Reply, Again, After, Side, Torn}, 4, "vendor"),
           Salvaging({CallA, ReplyA, Cut, Stray, Torn}, 5, "vendor")}
Splits == {Salvaging({CallA, ReplyA, CallB, ReplyB, Cut, Cut2}, 4, "canonical")}
TwinsAndCompactions == UNION {Pairs, Compactions, Resumed, Canonical, Splits, Vendor}

More == {Again}
Nothing == {}

Interleaved == {Catalog({CallA, ReplyA, CallB, ReplyB, Cut, Point, Point2}, 7, FALSE)}
=============================================================================

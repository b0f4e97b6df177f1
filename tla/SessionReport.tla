---------------------------- MODULE SessionReport ----------------------------
(* What `check` reports of a session file once its adapter has read it: which  *)
(* rules ran, what they found, what of it the user asked not to see, and the   *)
(* assurance level this leads to (api.py, checks/runner.py, report.py).        *)
EXTENDS Ingest

CONSTANTS
  Deselections,   \* the sets of rules a user may switch off
  Confidences,    \* how well a file may match a format
  ConfidenceMin,  \* what its format must reach to be detected
  MarginMin,      \* and by how much it must beat the next best
  MaxJudged       \* bound: lines of a file that is checked

ASSUME ReportAssumption ==
  /\ MaxJudged \in Nat /\ Confidences \subseteq Nat
  /\ ConfidenceMin \in Nat /\ MarginMin \in 0 .. ConfidenceMin

VARIABLE report

-----------------------------------------------------------------------------
(* Rules.  A finding is its code and its severity.                             *)

ReaderRules == {"SL001", "SL002", "SL009", "SL301", "SL302"}
Families ==
  [identity |-> {"SL003"}, graph |-> {"SL004", "SL005", "SL006", "SL007"},
   ordering |-> {"SL008"}, writers |-> {"SL010"},
   tool_pairing_1 |-> {"SL101", "SL102", "SL103", "SL104"},
   tool_pairing_2 |-> {"SL105", "SL106", "SL107", "SL108"},
   checkpoint |-> {"SL201", "SL202", "SL203", "SL205", "SL206", "SL208"},
   accounting |-> {"SL204", "SL207"}, size |-> {"SL011"}, shape |-> {"SL305"}]
Structural == UNION Range(Families)
AllRules == ReaderRules \cup {"SL306"} \cup Structural \cup {"SL303", "SL304", "SL401", "SL402"}

SizeMinRecords == 8

Found(code, severity) == [code |-> code, severity |-> severity]
Skip(check, reason) == [check |-> check, reason |-> reason]
AllSkipped(reason) == {Skip(r, reason) : r \in AllRules}

-----------------------------------------------------------------------------
(* Findings.                                                                   *)

\* The events as the structural checks see them: what an event says is its record,
\* and ids sort in the order in which they come.
Seen ==
  [k \in DOMAIN load.events |->
     LET e == load.events[k]
     IN [id |-> e.id, parent |-> e.parent, kind |-> e.kind, corr |-> e.corr,
         content |-> RecOf(e), effects |-> "none", origin |-> 0, joined |-> FALSE]]

Checks == INSTANCE SessionChecks WITH
  Unsettled <- None, MaxListed <- 2,
  IdOrder <- [k \in DOMAIN load.events |-> load.events[k].id],
  Says <- LAMBDA content : [number |-> None, hash |-> None, covers |-> None]

\* Whether a session of this format can hold checkpoints after a compaction.
CheckpointCapable == format \notin {"claude", "codex"}

\* Codex writes results without a correlation id; only there they claim nothing.
StructuralFindings ==
  {Found(f.code, f.severity) :
     f \in {g \in Checks!FindingsUnder(Seen, CheckpointCapable) :
              ~(format = "codex" /\ g.code = "SL101" /\ g.corr = None)}}

\* A repeated key is an error where the adapter calls the key critical.
ReaderSeverity(code, critical) ==
  CASE code = "SL303" -> IF critical THEN "error" ELSE "warning"
    [] code = "SL304" -> "warning"
    [] code = "SL306" -> "info"
    [] OTHER -> "error"

BlankInput == load.events = <<>> /\ \A i \in DOMAIN Lines : Lines[i].text = Blank

\* Drift is noted last, as far as there is room for it.
ReturnedClosing ==
  IF format \in {"canonical", "session"} /\ Len(load.findings) >= MaxEventFindings THEN {}
  ELSE load.closing

\* Of an empty input one finding is left, whatever the adapter said.
ReaderFindings(critical) ==
  IF BlankInput THEN {Found("SL001", "error")}
  ELSE {Found(f.code, ReaderSeverity(f.code, critical)) : f \in ToSet(Returned) \cup ReturnedClosing}

\* The gate asks the adapter, not what the user wants to see.
VersionAbort == ~BlankInput /\ \E f \in ToSet(Returned) : f.code = "SL301"
Analysed == load.events # <<>> /\ ~VersionAbort

-----------------------------------------------------------------------------
(* Coverage.                                                                   *)

\* Rules that have nothing to go by in this format or session: every Claude Code load
\* says that records name their writers, a canonical session if its source said so.
NotApplicable(found) ==
  (IF format = "claude" \/ load.writers THEN {} ELSE {"SL010"})
  \cup (IF format = "codex" THEN {} ELSE {"SL206", "SL207", "SL208", "SL305"})
  \cup (IF format = "codex" \/ Len(load.events) < SizeMinRecords THEN {"SL011"} ELSE {})
  \cup (IF ~CheckpointCapable /\ ~\E f \in found : f.code = "SL203" THEN {"SL203"} ELSE {})

\* A family goes with its rules, except where only SL203 was asked for.
Idle(family, on, found) == (Families[family] \cap on) \subseteq (NotApplicable(found) \ {"SL203"})

\* Why a whole family does not run, "" when it does.
FamilyGate(family, on) ==
  CASE Families[family] \cap on = {} -> "deselected"
    [] OTHER -> CASE load.events = <<>> -> "empty-input"
                  [] VersionAbort /\ load.events # <<>> -> "version-gated"
                  [] OTHER -> ""

\* A version gate covers the rules that are switched off, too.
FamilySkips(family, on) ==
  LET gate == FamilyGate(family, on)
  IN IF gate = "" THEN {Skip(r, "deselected") : r \in Families[family] \ on}
     ELSE {Skip(family, gate)}
          \cup {Skip(r, IF r \in on \/ gate = "version-gated" THEN gate ELSE "deselected") :
                  r \in Families[family]}

Readers == ReaderRules \cup (IF format \in {"claude", "codex"} THEN {"SL306"} ELSE {})
Gated == IF VersionAbort THEN {"SL301"} ELSE {}

ReaderSkips(on) ==
  {Skip(r, "version-gated") : r \in Gated}
  \cup {Skip(r, "deselected") : r \in (Readers \ on) \ Gated}
  \cup {Skip(r, IF r \in on THEN "adapter-not-applicable" ELSE "deselected") : r \in {"SL306"} \ Readers}

Running(on) == {family \in DOMAIN Families : FamilyGate(family, on) = ""}

Rules(on) == UNION {Families[family] \cap on : family \in Running(on)}

\* What ran, and turned out not to apply.
TakenBack(on, found) ==
  {family \in Running(on) : Idle(family, on, found)} \cup (Rules(on) \cap NotApplicable(found))

\* Mutant: nothing is taken back.
PerformedOnce(on, found) == ((Readers \cap on) \ Gated) \cup Running(on) \cup Rules(on)

Performed(on, found) ==
  ((Readers \cap on) \ Gated) \cup ((Running(on) \cup Rules(on)) \ TakenBack(on, found))

FamiliesSkipped(on) == UNION {FamilySkips(family, on) : family \in DOMAIN Families}
Skipped(on, found) ==
  ReaderSkips(on) \cup FamiliesSkipped(on)
  \cup {Skip(check, "adapter-not-applicable") : check \in TakenBack(on, found)}

-----------------------------------------------------------------------------
(* Detection.  A database is no text and gets no further than the encoding     *)
(* gate (NotText).                                                             *)

\* The best and the second best score decide: the winner must be good enough, and
\* clearly better.
DetectFromHead(best, second) ==
  CASE BlankInput -> "empty"
    [] ~BlankInput /\ best < ConfidenceMin -> "low-confidence"
    [] ~BlankInput /\ best >= ConfidenceMin /\ (best - second < MarginMin \/ best = second) -> "tie"
    [] OTHER -> "resolved"

Rankings == {ranking \in Confidences \X Confidences : ranking[2] <= ranking[1]}

\* A format that is given is taken as it is.
Resolutions == {"resolved"} \cup {DetectFromHead(ranking[1], ranking[2]) : ranking \in Rankings}

ResolveFailure(reason) == Found(IF reason = "empty" THEN "SL001" ELSE "SL302", "error")

-----------------------------------------------------------------------------
(* The report.                                                                 *)

\* A baseline hides the findings that it knows.
Remaining(found, on, known) == IF known THEN {} ELSE {f \in found : f.code \in on}

Verdict(level, found, performed, skipped, asked) ==
  [level |-> level, found |-> found, performed |-> performed, skipped |-> skipped, asked |-> asked]

NothingRead(reason, found, asked) == Verdict("A0", found, {}, AllSkipped(reason), asked)

\* Larger than the limit: not read at all.
TooLarge(asked) == pc = "tooLarge" /\ report' = NothingRead("cap-exceeded", {}, asked)

\* Bytes that are no text.
NotText(asked) ==
  /\ pc = "done" /\ \E i \in DOMAIN Lines : Lines[i].text = "junk"
  /\ report' = NothingRead("adapter-not-applicable",
                           Remaining({Found("SL001", "error")}, asked.on, asked.known), asked)

\* No format was given, and the content points at none, or at several: that is not
\* held against the file, unless it is empty.
Undetected(reason, asked) ==
  /\ pc = "done" /\ reason # "resolved"
  /\ report' = NothingRead("adapter-not-applicable",
                           Remaining({ResolveFailure(reason)} \ {Found("SL302", "error")}, asked.on, FALSE),
                           asked)

\* Everything that was found, of which the findings of rules that are on are shown.
\* The advisory checks, which warn at most, may find something as well.
Analysis(structural, reason, asked) ==
  /\ pc = "done" /\ reason = "resolved"
  /\ \E critical, warned \in BOOLEAN :
       LET all == ReaderFindings(critical)
                  \cup IF ~Analysed THEN {}
                       ELSE structural \cup IF warned THEN {Found("SL008", "warning")} ELSE {}
           shown == Remaining(all, asked.on, asked.known)
       IN report' = Verdict(Checks!Assurance(load.events, shown), shown, Performed(asked.on, structural),
                            Skipped(asked.on, structural), asked)

Judge ==
  /\ report = None
  /\ format # "events"
  /\ pc = "tooLarge" \/ (Settled /\ Len(file) <= MaxJudged)
  /\ \E structural \in {IF pc = "done" /\ Analysed THEN StructuralFindings ELSE {}},
        reason \in Resolutions, ignored \in Deselections, known \in BOOLEAN :
       LET asked == [on |-> AllRules \ ignored, known |-> known]
       IN TooLarge(asked) \/ NotText(asked) \/ Undetected(reason, asked)
          \/ Analysis(structural, reason, asked)
  /\ UNCHANGED vars

CheckInit == Init /\ report = None

\* A check works on the bytes it has taken: nothing the agent writes afterwards
\* changes the report.
CheckNext == (Next /\ report = None /\ UNCHANGED report) \/ Judge

CheckSpec == CheckInit /\ [][CheckNext]_<<vars, report>> /\ WF_vars(Read /\ UNCHANGED report)
-----------------------------------------------------------------------------
(* Properties.                                                                 *)

Judged == report # None
Reasons(rule) == {s.reason : s \in {x \in report.skipped : x.check = rule}}

\* Every rule but the four the report never mentions is listed once, as performed or
\* with the one reason why it was not: no rule counts as run that was switched off,
\* gated, or taken back later for want of anything to go by.  What a structural rule
\* found, it ran for, and a family ran if one of its rules did (runner.py:220, FR-047).
CoverageHonest ==
  Judged /\ pc = "done" =>
    /\ \A r \in AllRules \ {"SL303", "SL304", "SL401", "SL402"} :
         IF r \in report.performed THEN Reasons(r) = {} /\ r \in report.asked.on
                                   ELSE Cardinality(Reasons(r)) = 1
    /\ \A f \in report.found : f.code \in Structural => f.code \in report.performed
    /\ \A family \in DOMAIN Families :
         Families[family] \cap report.performed # {} => family \in report.performed /\ Reasons(family) = {}

\* The names of the calls and of the results that the records of the file hold.
RecordsRead ==
  IF format \in Documents THEN {r \in ToSet(source[1].rec.items) : r # None}
  ELSE {Lines[i].rec : i \in {j \in RecordAt : ~Damaged(j) /\ (format = "canonical" => OrdinalAt(j) > 1)}}
CallNames(r) ==
  (IF r.class = "tool_call" THEN {r.id, r.corr} ELSE {})
  \cup (IF format = "claude" THEN {b.id : b \in ToSet(Blocks(r, "use"))} ELSE {})
ResultNames(r) ==
  IF format = "claude" THEN {b.corr : b \in ToSet(Blocks(r, "result"))}
  ELSE IF r.class = "tool_result" THEN {r.corr} ELSE {}
Named == UNION {CallNames(r) : r \in RecordsRead}
Versions ==
  IF format \in Documents THEN {source[1].rec.version}
  ELSE IF format = "canonical" THEN {Lines[i].rec.version : i \in {j \in RecordAt : LineText(j) = "header"}}
  ELSE {r.version : r \in RecordsRead}

\* Where nothing is hidden, the level is one the file deserves: above A0 no record of it
\* is damaged; above A1 its version is supported, its results answer calls of the file
\* and its records hang below records of the session (api.py:211, report.py:68).
LevelIsDeserved ==
  Judged /\ pc = "done" /\ report.asked = [on |-> AllRules, known |-> FALSE] =>
    /\ report.level # "A0" =>
         IF format \in Documents THEN LineText(1) \in {"object", "repeated"} ELSE \A i \in RecordAt : ~Damaged(i)
    /\ report.level \in {"A2", "A3"} =>
         LET named == IF format = "codex" THEN Named \cup {None} ELSE Named \ {None}
         IN /\ Versions \subseteq Supported \cup {None}
            /\ UNION {ResultNames(r) : r \in RecordsRead} \subseteq named
            /\ \A e \in ToSet(load.events) :
                 format \in {"claude", "openai", "document"} =>
                   RecOf(e).parent \in {None} \cup {above.id : above \in ToSet(load.events)}

\* A level that vouches for the structure of a session is not given to one whose
\* structure nobody looked at.  It is, when SL301 is switched off or in the
\* baseline: the gate closes, and nothing is left to lower the level (api.py:467).
StructureWasChecked ==
  Judged /\ report.level \in {"A2", "A3"} => ~\E s \in report.skipped : s.reason = "version-gated"
=============================================================================

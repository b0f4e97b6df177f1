-------------------------------- MODULE ScanMC --------------------------------
(* Instances of BatchRepair for TLC: trees, the contents of their files,      *)
(* options, and what the planner says of a content.                           *)
EXTENDS BatchRepair

Blank == [size |-> 1, enc |-> "text", format |-> None, defects |-> << >>, load |-> "ok", empty |-> FALSE, blank |-> FALSE,
          adapter |-> << >>, checks |-> << >>, session |-> None, tip |-> None, links |-> << >>,
          index |-> None]
Defect(code, severity, at) == [code |-> code, severity |-> severity, at |-> at]
Session(format, session, checks) ==
  [Blank EXCEPT !.format = format, !.session = session, !.checks = checks]
Grown(c, checks) == [c EXCEPT !.size = @ + 1, !.checks = checks]

\* A session that becomes invalid, and one that becomes too large.
A1 == [Session(Claude, "a", << >>) EXCEPT !.tip = "e1"]
A2 == Grown(A1, <<Defect("SL003", "error", 2)>>)
\* The same with a tail of zeros, as a write that is under way may leave one.
Zeros == [A1 EXCEPT !.size = @ + 1, !.enc = "nul", !.adapter = <<Defect("SL001", "error", 2)>>]
B1 == [Session(Claude, "b", <<Defect("SL006", "warning", 1)>>)
         EXCEPT !.links = <<[kind |-> "session_ref", target |-> "gone", pathy |-> FALSE, stem |-> None]>>]
B2 == [B1 EXCEPT !.size = 9]
\* Sessions that can be repaired, of which the first goes on and is refused then.
C1 == Session(Claude, "c", <<Defect("SL003", "error", 2)>>)
C2 == Grown(C1, <<Defect("SL003", "error", 2), Defect("SL005", "error", 3)>>)
D1 == Session(Claude, "d", <<Defect("SL003", "error", 1)>>)
Noise == [Blank EXCEPT !.enc = "nul", !.empty = TRUE, !.adapter = <<Defect("SL001", "error", 1)>>]

Listing(listed) == [Blank EXCEPT !.index = [kind |-> "object", rows |-> listed]]
Lines(listed)   == [Blank EXCEPT !.index = [kind |-> "lines", rows |-> listed]]
Registry(threads, edges, skips) ==
  [Blank EXCEPT !.enc = "nul",
                !.index = [kind |-> "registry", threads |-> threads, edges |-> edges, skips |-> skips]]
Row1(id, path) == [id |-> id, path |-> path]

InodeContents ==
  [f1 |-> <<A1, A2>>, f4 |-> <<A1, Zeros, A1>>, g1 |-> <<C1, C2>>, g2 |-> <<D1>>, f2 |-> <<B1, B2>>, f3 |-> <<Noise>>,
   r1 |-> <<Session(Codex, "u1", << >>)>>, r2 |-> <<[Session(Codex, None, << >>) EXCEPT !.load = "crash"]>>,
   r3 |-> <<Session(Codex, "u3", << >>)>>,
   i1 |-> <<Listing(<<Row1("a", None), Row1("b", <<"p", "b">>), Row1("x", None)>>)>>,
   i2 |-> <<Lines(<<Row1("u1", None), Row1("u2", None), Row1("u3", None), Row1("u9", None)>>)>>,
   s1 |-> <<Registry({"u1", "u9"}, {<<"u1", "u7">>}, 1)>>]

E1(name, kind, ino) == [name |-> name, kind |-> kind, ino |-> ino]

\* A project directory with an index, a second name for a file, and links: to a
\* directory above, to a file and to nothing.
Looped ==
  [root |-> "d0", closed |-> {}, writes |-> 1,
   dirs |-> [d0 |-> <<E1("a", "file", "f1"), E1("git", "builtin", "d9"), E1("l", "link", "d1"), E1("p", "dir", "d1")>>,
             d1 |-> <<E1("b", "file", "f2"), E1("i", "index", "i1"), E1("up", "link", "d0"),
                      E1("y", "link", "f1"), E1("z", "link", None)>>],
   files |-> {<<"a">>, <<"p", "b">>, <<"p", "i">>}, paths |-> {<< >>, <<"p">>}]

Project ==
  [root |-> "d0", closed |-> {}, writes |-> 1,
   dirs |-> [d0 |-> <<E1("a", "file", "f1"), E1("b", "file", "f2"), E1("c", "file", "f1"), E1("i", "index", "i1"),
                      E1("n", "file", "f3"), E1("q", "special", None)>>],
   files |-> {<<"a">>, <<"b">>, <<"c">>, <<"i">>, <<"n">>}, paths |-> {<< >>}]

\* The home of Codex: the index and the registry above, the rollouts below, one of
\* them where nobody may look.
Home ==
  [root |-> "d0", closed |-> {"d2", "d3"}, writes |-> 1,
   dirs |-> [d0 |-> <<E1("i", "index", "i2"), E1("s", "state", "s1"), E1("sessions", "dir", "d1"), E1("t", "dir", "d2")>>,
             d1 |-> <<E1("p", "dir", "d3"), E1("roll1", "file", "r1"), E1("roll2", "file", "r2")>>,
             d2 |-> << >>, d3 |-> <<E1("roll3", "file", "r3")>>],
   files |-> {<<"i">>, <<"s">>, <<"sessions", "roll1">>, <<"sessions", "roll2">>, <<"sessions", "p", "roll3">>},
   paths |-> {<< >>, <<"sessions">>, <<"sessions", "p">>, <<"t">>}]

\* More below it than is looked at.
Crowded ==
  [root |-> "d0", closed |-> {}, writes |-> 1,
   dirs |-> [d0 |-> <<E1("i", "index", "i2"), E1("s", "state", "s1"), E1("sessions", "dir", "d1")>>,
             d1 |-> <<E1("b", "file", "f2"), E1("n", "file", "f3"), E1("roll1", "file", "r1"), E1("roll2", "file", "r2")>>],
   files |-> {<<"i">>, <<"s">>} \cup {<<"sessions", n>> : n \in {"b", "n", "roll1", "roll2"}},
   paths |-> {<< >>, <<"sessions">>}]

\* One file, written until it is what it was.
Lone ==
  [root |-> "d0", closed |-> {}, writes |-> 2, dirs |-> [d0 |-> <<E1("a", "file", "f4")>>],
   files |-> {<<"a">>}, paths |-> {<< >>}]

\* The same name in two directories, and a second way to one of the files.
Twins ==
  [root |-> "d0", closed |-> {}, writes |-> 1,
   dirs |-> [d0 |-> <<E1("a", "file", "g1"), E1("n", "file", "f3"), E1("p", "dir", "d1"), E1("y", "link", "g1")>>,
             d1 |-> <<E1("a", "file", "g2"), E1("b", "file", "f2"), E1("z", "link", None)>>],
   files |-> {<<"a">>, <<"n">>, <<"p", "a">>, <<"p", "b">>}, paths |-> {<< >>, <<"p">>}]

Paths == <<<<"a">>, <<"n">>, <<"p">>, <<"p", "a">>, <<"p", "b">>, <<"p", "z">>, <<"y">>>>

PlannerSays(c) ==
  LET codes == {c.checks[i].code : i \in DOMAIN c.checks}
  IN CASE c.enc # "text" -> "fails"
       [] codes \cap {"SL005", "SL006"} # {} -> "blocked"
       [] codes = {} -> "nothing"
       [] OTHER -> "steps"

Uuids == [roll1 |-> "u1", roll2 |-> "u2", roll3 |-> "u3"]

Names == {"a", "b", "c", "i", "l", "n", "p", "q", "s", "t", "y", "z", "up", "git", "sessions", "roll1", "roll2", "roll3"}
AllNames == [n \in Names |-> TRUE]
LedgersOnly == [n \in Names |-> n \notin {"i", "s"}]
AllCodes == {"SL001", "SL003", "SL006", "SL301", "SL302", "SL401", "SL402"}

Options == [single |-> None, followSymlinks |-> FALSE, exclude |-> {}, inLayout |-> AllNames, newest |-> None, since |-> None,
            maxFiles |-> 9, maxBytes |-> 99, maxFileBytes |-> 5, enabled |-> AllCodes, allowed |-> {Claude, Codex},
            forced |-> None, skipUndetected |-> FALSE, baseline |-> None, jobs |-> 1, incremental |-> FALSE]

Cached    == [Options EXCEPT !.incremental = TRUE]
Fewer     == [Options EXCEPT !.maxFiles = 2, !.followSymlinks = TRUE, !.incremental = TRUE]
FewerJobs == [Fewer EXCEPT !.jobs = 2]
Narrow    == [Options EXCEPT !.incremental = TRUE, !.enabled = {"SL001", "SL402"}, !.exclude = {"b", "roll2"},
                             !.skipUndetected = TRUE, !.maxBytes = 2]
Newest    == [Options EXCEPT !.newest = 1, !.since = 0, !.followSymlinks = TRUE, !.inLayout = LedgersOnly]
Recent    == [Options EXCEPT !.since = 1]
One       == [Cached EXCEPT !.single = [path |-> <<"a">>, ino |-> "f1"]]
NoIndex   == [Options EXCEPT !.exclude = {"i"}]
Against   == [Options EXCEPT !.baseline = TRUE]

Case(t, a, b) ==
  [tree |-> t, options |-> [s1 |-> a, s2 |-> b], scanners |-> {"s1", "s2"}, batches |-> [b1 |-> None, b2 |-> None]]
Alone(t, a) == [Case(t, a, a) EXCEPT !.scanners = {"s1"}]
SideBySide ==
  {Case(Project, Cached, Options), Case(Looped, Fewer, FewerJobs), Case(Project, Narrow, Cached),
   Case(Home, Narrow, Cached), Case(Looped, Newest, One), Case(Project, Recent, Options), Case(Home, Options, Against), Case(Lone, Cached, Cached),
   Case(Home, NoIndex, NoIndex), Alone(Crowded, Options), Alone(Crowded, NoIndex)}

\* Batches: over directories, over named files, over what a scan reported and
\* a directory that it also names.
Request == [dirs |-> {}, paths |-> {}, fromScan |-> None, hashed |-> {}, outDir |-> "o", manifestDir |-> TRUE, dryRun |-> FALSE]
Whole      == [Request EXCEPT !.dirs = {<< >>}]
Elsewhere  == [Whole EXCEPT !.outDir = "elsewhere"]
Given      == [Request EXCEPT !.paths = {<<"a">>, <<"p", "a">>, <<"y">>}]
GivenPlain == [Given EXCEPT !.manifestDir = FALSE]
Reported   == [Request EXCEPT !.dirs = {<<"p">>}, !.fromScan = "s1", !.hashed = {<<"p", "b">>}]
Dry        == [Whole EXCEPT !.dryRun = TRUE]

Batches(scanners, a, b) ==
  [Case(Twins, Options, Options) EXCEPT !.scanners = scanners, !.batches = [b1 |-> a, b2 |-> b]]
InBatches ==
  {Batches({}, Whole, Elsewhere), Batches({}, Given, Given), Batches({}, Given, GivenPlain),
   Batches({"s1"}, Reported, Whole), Batches({}, Dry, Whole)}

SideBySideAndInBatches == SideBySide \cup InBatches
=============================================================================

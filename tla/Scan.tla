--------------------------------- MODULE Scan ---------------------------------
(***************************************************************************)
(* scan.py and cache.py: scans of one directory tree, one after another or *)
(* at the same time, over one result cache, while agents write to the      *)
(* session files.                                                          *)
(*                                                                         *)
(* The tree is a record: dirs maps an inode to the entries of a directory  *)
(* in the order of their names, an entry is [name, kind, ino].  kind is    *)
(* "file", "dir", "link" (ino is what it points at, None when it dangles), *)
(* "special", "index", "state" or "builtin" (a directory of a version      *)
(* control system, or a file sesslint itself writes).  closed holds the    *)
(* directories that cannot be listed, files and paths what is really there *)
(* below their own names, and writes bounds the writes by agents.          *)
(*                                                                         *)
(* A report is sorted by path, which nothing here depends on: results keep *)
(* the order they came in.                                                 *)
(*                                                                         *)
(* The stat of the walk, the hash for the cache and the five stages of a   *)
(* check read the file one after the other, and agents write in between.   *)
(***************************************************************************)
EXTENDS ScanLinks

CONSTANTS
  Scanner,      \* processes that scan
  Cases,        \* a tree, and the options of each scanner: what is run side by side
  Ledger,       \* inode -> the contents its file goes through, which may come back
  MaxBaselines, \* bound: baselines written
  MaxFailures   \* bound: errors of the cache

-----------------------------------------------------------------------------
(* Trees.                                                                   *)

\* What a path leads to, one name after the other; None if there is no such name.
Inside(tr, dir, name) ==
  IF dir \in DOMAIN tr.dirs THEN {e \in Range(tr.dirs[dir]) : e.name = name} ELSE {}
Child(tr, dir, name) ==
  IF Inside(tr, dir, name) = {} THEN None ELSE (CHOOSE e \in Inside(tr, dir, name) : TRUE).ino
Leads(tr, path) == FoldLeft(LAMBDA dir, name : Child(tr, dir, name), tr.root, path)

\* An entry points at what its kind says; the names in a directory differ.
Kinds == {"file", "dir", "link", "special", "index", "state", "builtin"}
PointsRight(tr, e) ==
  /\ e.kind \in Kinds
  /\ CASE e.kind \in {"builtin", "special"} -> TRUE
       [] e.kind = "dir"  -> e.ino \in DOMAIN tr.dirs
       [] e.kind = "link" -> e.ino = None \/ e.ino \in DOMAIN tr.dirs \cup DOMAIN Ledger
       [] OTHER           -> e.ino \in DOMAIN Ledger

TreeAssumption ==
  \A c \in Cases :
    /\ c.tree.root \in DOMAIN c.tree.dirs
    /\ \A d \in DOMAIN c.tree.dirs :
         LET es == c.tree.dirs[d]
         IN /\ es \in Seq(Range(es))
            /\ \A i, j \in DOMAIN es : es[i].name = es[j].name => i = j
            /\ \A i \in DOMAIN es : PointsRight(c.tree, es[i])

\* The options of every scanner; a single file that is scanned is one of the tree.
OptionsAssumption ==
  \A c \in Cases :
    /\ c.options = [s \in Scanner |-> c.options[s]]
    /\ \A s \in Scanner : /\ {"single", "baseline", "jobs"} \subseteq DOMAIN c.options[s]
                           /\ c.options[s].jobs \in Nat \ {0}
    /\ \A s \in Scanner : c.options[s].single # None =>
         /\ c.options[s].single.ino \in DOMAIN Ledger
         /\ Leads(c.tree, c.options[s].single.path) = c.options[s].single.ino

LedgerAssumption ==
  \A i \in DOMAIN Ledger : Ledger[i] \in Seq(Range(Ledger[i])) /\ Ledger[i] # << >>

ASSUME ScanAssumption == TreeAssumption /\ OptionsAssumption /\ LedgerAssumption

-----------------------------------------------------------------------------
VARIABLES
  tree,       \* the tree, chosen once
  version,    \* inode -> index of its content in Ledger[inode]
  mtimes,     \* inode -> when it was written last
  writes, baselines, failures,
  rows,       \* the cache: <<path, fingerprint>> -> [sha, result]
  baseline,   \* the baseline file and the scan it was written from, or None
  pc,         \* per scanner
  cfg,        \* its options
  walk,       \* stack, visited, seen, found, indexes, states
  results,    \* file_results
  todo,       \* candidates still to consider
  taken,      \* selected_count, cumulative_bytes, scanned_count and the number of merged wires
  file,       \* the candidate in hand with its file_sha, and the version when that was taken
  pending,    \* pending_files, in the order of submission
  wires,      \* index in pending -> the version when a worker took it, and its result
  cacheOk,    \* ScanCache._ok
  began,      \* version when the scan began
  report

agents == <<version, mtimes, writes>>
scans == <<pc, cfg, walk, results, todo, taken, file, pending, wires, cacheOk, began, report>>
faults == <<baselines, failures>>
vars == <<tree, agents, faults, rows, baseline, scans>>

Content(ino) == Ledger[ino][version[ino]]
IsDir(ino) == ino \in DOMAIN tree.dirs

NoWalk == [stack |-> << >>, visited |-> {}, seen |-> {}, found |-> << >>, indexes |-> {},
           states |-> {}, skipped |-> << >>]
NothingTaken == [selected |-> 0, bytes |-> 0, scanned |-> 0, merged |-> 0]

Init ==
  /\ \E c \in Cases : tree = c.tree /\ cfg = c.options
  /\ version = [i \in DOMAIN Ledger |-> 1]
  /\ mtimes = [i \in DOMAIN Ledger |-> 0]
  /\ writes = 0 /\ baselines = 0 /\ failures = 0
  /\ rows = << >>
  /\ baseline = None
  /\ pc = [s \in Scanner |-> "idle"]
  /\ walk = [s \in Scanner |-> NoWalk]
  /\ results = [s \in Scanner |-> << >>]
  /\ todo = [s \in Scanner |-> << >>]
  /\ taken = [s \in Scanner |-> NothingTaken]
  /\ file = [s \in Scanner |-> None]
  /\ pending = [s \in Scanner |-> << >>]
  /\ wires = [s \in Scanner |-> << >>]
  /\ cacheOk = [s \in Scanner |-> FALSE]
  /\ began = [s \in Scanner |-> version]
  /\ report = [s \in Scanner |-> None]

-----------------------------------------------------------------------------
(* The agents.                                                              *)

Write(ino) ==
  /\ writes < tree.writes /\ version[ino] < Len(Ledger[ino])
  /\ version' = [version EXCEPT ![ino] = @ + 1]
  /\ writes' = writes + 1
  /\ mtimes' = [mtimes EXCEPT ![ino] = writes']
  /\ UNCHANGED <<tree, faults, rows, baseline, scans>>

-----------------------------------------------------------------------------
(* The cache.                                                               *)

Bind(f, x, y) == [z \in DOMAIN f \cup {x} |-> IF z = x THEN y ELSE f[z]]

\* Every option that changes what the analysis of one file says; the profile gives
\* the formats that are allowed.
AnalysisFp(c) ==
  <<c.skipUndetected, c.enabled, c.allowed, c.forced, c.baseline, c.maxFileBytes>>

Row(s, path) == <<path, AnalysisFp(cfg[s])>>

\* Mutant: whatever the options were that it was stored for.
GetForAnyOptions(s, path, sha) ==
  LET known == {k \in DOMAIN rows : k[1] = path /\ rows[k].sha = sha}
  IN IF cacheOk[s] /\ known # {} THEN rows[CHOOSE k \in known : TRUE].result ELSE None

Get(s, path, sha) ==
  IF cacheOk[s] /\ Row(s, path) \in DOMAIN rows /\ rows[Row(s, path)].sha = sha
  THEN rows[Row(s, path)].result ELSE None

CacheLookup(s, path, sha) ==
  LET hit == Get(s, path, sha) IN IF hit = None THEN None ELSE [hit EXCEPT !.hit = TRUE]

\* An unreadable verdict is not stored.
Put(s, path, sha, r) ==
  IF ~cacheOk[s] \/ sha = None \/ r.verdict = "unreadable" THEN rows
  ELSE Bind(rows, Row(s, path), [sha |-> sha, result |-> r])

\* An sqlite error ends the use of the cache by this scan.
CacheFails(s) ==
  /\ cacheOk[s] /\ pc[s] \in {"select", "check", "pool"}
  /\ failures < MaxFailures
  /\ failures' = failures + 1
  /\ cacheOk' = [cacheOk EXCEPT ![s] = FALSE]
  /\ UNCHANGED <<tree, agents, baselines, rows, baseline, pc, cfg, walk, results, todo, taken, file,
                 pending, wires, began, report>>

-----------------------------------------------------------------------------
(* The walk.                                                                *)

\* A baseline that is asked for and cannot be loaded refuses the scan.
MayStart(c) == c.baseline # None => baseline # None
WithBaseline(c) == [c EXCEPT !.baseline = IF @ = None THEN None ELSE baseline.keys]

Start(s) ==
  /\ pc[s] = "idle"
  /\ cfg[s].single = None /\ MayStart(cfg[s])
  /\ cfg' = [cfg EXCEPT ![s] = WithBaseline(@)]
  /\ cacheOk' = [cacheOk EXCEPT ![s] = cfg[s].incremental]
  /\ walk' = [walk EXCEPT ![s] = [NoWalk EXCEPT !.stack = <<[ino |-> tree.root, path |-> << >>]>>,
                                                !.visited = {tree.root}]]
  /\ began' = [began EXCEPT ![s] = version]
  /\ pc' = [pc EXCEPT ![s] = "walk"]
  /\ UNCHANGED <<tree, agents, faults, rows, baseline, results, todo, taken, file, pending, wires,
                 report>>

Note(w, r) == [w EXCEPT !.skipped = Append(@, r)]

Descend(w, path, ino) ==
  IF ino \in w.visited THEN Note(w, Skipped(path, "symlink-loop-detected"))
  ELSE [w EXCEPT !.visited = @ \cup {ino}, !.stack = Append(@, [ino |-> ino, path |-> path])]

\* Mutant: a second name of a file is another file.
CandidateByName(w, path, ino, c) ==
  IF ~c.inLayout[Stem(path)] THEN w
  ELSE [w EXCEPT !.seen = @ \cup {ino},
                 !.found = Append(@, [path |-> path, ino |-> ino, size |-> Content(ino).size,
                                      mtime |-> mtimes[ino]])]

Candidate(w, path, ino, c) ==
  IF ~c.inLayout[Stem(path)] THEN w
  ELSE IF ino \in w.seen THEN Note(w, Skipped(path, "duplicate-hardlink"))
  ELSE [w EXCEPT !.seen = @ \cup {ino},
                 !.found = Append(@, [path |-> path, ino |-> ino, size |-> Content(ino).size,
                                      mtime |-> mtimes[ino]])]

FollowLink(w, path, e, c) ==
  IF ~c.followSymlinks THEN Note(w, Skipped(path, IF e.ino # None /\ IsDir(e.ino)
                                                  THEN "symlink-directory-skipped" ELSE "symlink-skipped"))
  ELSE IF e.ino = None THEN Note(w, Result(path, "unreadable", "broken-symlink", << >>))
  ELSE IF IsDir(e.ino) THEN Descend(w, path, e.ino)
  ELSE Candidate(w, path, e.ino, c)

\* One turn of the loop over the entries of a directory.
Entry(w, dir, e, c) ==
  LET path == Append(dir, e.name)
      w2   == CASE e.kind = "index" -> [w EXCEPT !.indexes = @ \cup {[path |-> path, ino |-> e.ino]}]
                [] e.kind = "state" -> [w EXCEPT !.states = @ \cup {[path |-> path, ino |-> e.ino]}]
                [] OTHER -> w
  IN IF e.kind = "builtin" \/ e.name \in c.exclude THEN w
     ELSE CASE e.kind = "special" -> Note(w, Skipped(path, "special-file-skipped"))
            [] e.kind = "dir"     -> Descend(w, path, e.ino)
            [] e.kind = "link"    -> FollowLink(w, path, e, c)
            [] OTHER              -> Candidate(w2, path, e.ino, c)

VisitDirectory(s) ==
  /\ pc[s] = "walk" /\ walk[s].stack # << >> /\ Last(walk[s].stack).ino \notin tree.closed
  /\ LET dir == Last(walk[s].stack)
         w   == [walk[s] EXCEPT !.stack = Front(@)]
     IN walk' = [walk EXCEPT ![s] = FoldLeft(LAMBDA v, e : Entry(v, dir.path, e, cfg[s]), w,
                                             tree.dirs[dir.ino])]
  /\ UNCHANGED <<tree, agents, faults, rows, baseline, pc, cfg, results, todo, taken, file, pending,
                 wires, cacheOk, began, report>>

\* scandir fails: the directory itself is a result.
VisitFails(s) ==
  /\ pc[s] = "walk" /\ walk[s].stack # << >> /\ Last(walk[s].stack).ino \in tree.closed
  /\ LET dir == Last(walk[s].stack)
         w   == [walk[s] EXCEPT !.stack = Front(@)]
     IN walk' = [walk EXCEPT ![s] = Note(w, Broken(dir.path, "unreadable", "SL001"))]
  /\ UNCHANGED <<tree, agents, faults, rows, baseline, pc, cfg, results, todo, taken, file, pending,
                 wires, cacheOk, began, report>>

\* Newest first when a limit on their number or age was asked for; ties go by name,
\* for which the order of the walk stands.
Ordered(found, c) ==
  LET Before(i, j) == found[i].mtime > found[j].mtime \/ (found[i].mtime = found[j].mtime /\ i < j)
  IN IF c.newest = None /\ c.since = None THEN {found}
     ELSE {[n \in DOMAIN found |-> found[order[n]]] :
             order \in {o \in [DOMAIN found -> DOMAIN found] : \A i, j \in DOMAIN found : i < j => Before(o[i], o[j])}}

EndWalk(s) ==
  /\ pc[s] = "walk" /\ walk[s].stack = << >>
  /\ \E q \in Ordered(walk[s].found, cfg[s]) : todo' = [todo EXCEPT ![s] = q]
  /\ results' = [results EXCEPT ![s] = walk[s].skipped]
  /\ pc' = [pc EXCEPT ![s] = "select"]
  /\ UNCHANGED <<tree, agents, faults, rows, baseline, cfg, walk, taken, file, pending, wires,
                 cacheOk, began, report>>

-----------------------------------------------------------------------------
(* The candidates.                                                          *)

\* Mutant: files handed to the pool do not count yet.
CappedInline(s, cand) ==
  LET t == taken[s] c == cfg[s]
  IN IF c.since # None /\ cand.mtime < c.since THEN "before-since"
     ELSE IF c.newest # None /\ t.selected >= c.newest THEN "newest-cap-exceeded"
     ELSE IF cand.size > c.maxFileBytes THEN "file-too-large"
     ELSE IF t.scanned >= c.maxFiles THEN "max-files-cap-exceeded"
     ELSE IF t.bytes + cand.size > c.maxBytes THEN "max-bytes-cap-exceeded"
     ELSE None

Capped(s, cand) ==
  LET t == taken[s] c == cfg[s]
  IN IF c.since # None /\ cand.mtime < c.since THEN "before-since"
     ELSE IF c.newest # None /\ t.selected >= c.newest THEN "newest-cap-exceeded"
     ELSE IF cand.size > c.maxFileBytes THEN "file-too-large"
     ELSE IF t.scanned + Len(pending[s]) >= c.maxFiles THEN "max-files-cap-exceeded"
     ELSE IF t.bytes + cand.size > c.maxBytes THEN "max-bytes-cap-exceeded"
     ELSE None

Unselected == {"before-since", "newest-cap-exceeded"}

\* A candidate the caps leave out counts as selected unless it was old or one too many.
SkipCandidate(s) ==
  /\ pc[s] = "select" /\ todo[s] # << >>
  /\ LET cand == Head(todo[s]) why == Capped(s, cand)
     IN /\ why # None
        /\ results' = [results EXCEPT ![s] = Append(@, Skipped(cand.path, why))]
        /\ taken' = [taken EXCEPT ![s].selected = @ + (IF why \in Unselected THEN 0 ELSE 1)]
  /\ todo' = [todo EXCEPT ![s] = Tail(@)]
  /\ UNCHANGED <<tree, agents, faults, rows, baseline, pc, cfg, walk, file, pending, wires, cacheOk,
                 began, report>>

\* A check that runs from one version of a file to another meets, stage after stage,
\* any versions in between.  Nobody sees which until it ends: there they are chosen.
Readings(from, to) ==
  {v \in [Stage -> from..to] : v.stat <= v.probe /\ v.probe <= v.detect /\ v.detect <= v.load /\ v.load <= v.blank}

Seen(ino, v) == [stage \in Stage |-> Ledger[ino][v[stage]]]

\* _cache_lookup: the hash is that of the file as it is now.
HashCandidate(s) ==
  /\ pc[s] = "select" /\ todo[s] # << >>
  /\ LET cand == Head(todo[s])
         sha  == IF cfg[s].incremental THEN Content(cand.ino) ELSE None
         hit  == IF sha = None THEN None ELSE CacheLookup(s, cand.path, sha)
         mine == [path |-> cand.path, ino |-> cand.ino, sha |-> sha, at |-> version[cand.ino]]
     IN /\ Capped(s, cand) = None
        /\ taken' = [taken EXCEPT ![s] = [@ EXCEPT !.selected = @ + 1, !.bytes = @ + cand.size,
                                                   !.scanned = @ + (IF hit = None THEN 0 ELSE 1)]]
        /\ results' = [results EXCEPT ![s] = IF hit = None THEN @ ELSE Append(@, hit)]
        /\ pending' = [pending EXCEPT ![s] = IF hit = None /\ cfg[s].jobs > 1 THEN Append(@, mine) ELSE @]
        /\ file' = [file EXCEPT ![s] = mine]
        /\ pc' = [pc EXCEPT ![s] = IF hit = None /\ cfg[s].jobs = 1 THEN "check" ELSE @]
  /\ todo' = [todo EXCEPT ![s] = Tail(@)]
  /\ UNCHANGED <<tree, agents, faults, rows, baseline, cfg, walk, wires, cacheOk, began, report>>

\* The check reads the file again, and its result is stored under the hash.
CheckCandidate(s) ==
  /\ pc[s] = "check"
  /\ \E v \in Readings(file[s].at, version[file[s].ino]) :
       LET f == file[s]
           r == ScanSource(f.path, Seen(f.ino, v), cfg[s])
       IN /\ results' = [results EXCEPT ![s] = Append(@, r)]
          /\ rows' = Put(s, f.path, f.sha, r)
  /\ taken' = [taken EXCEPT ![s].scanned = @ + 1]
  /\ pc' = [pc EXCEPT ![s] = "select"]
  /\ UNCHANGED <<tree, agents, faults, baseline, cfg, walk, todo, file, pending, wires, cacheOk,
                 began, report>>

-----------------------------------------------------------------------------
(* The worker pool, when more than one job is asked for.                    *)

EndSelection(s) ==
  /\ pc[s] = "select" /\ todo[s] = << >>
  /\ pc' = [pc EXCEPT ![s] = IF pending[s] # << >> THEN "pool" ELSE "merged"]
  /\ UNCHANGED <<tree, agents, faults, rows, baseline, cfg, walk, results, todo, taken, file,
                 pending, wires, cacheOk, began, report>>

Busy(s) == Cardinality({n \in DOMAIN wires[s] : wires[s][n].result = None})

\* A worker takes the next file, and later has its result.
WorkerTakes(s) ==
  /\ pc[s] = "pool" /\ Busy(s) < cfg[s].jobs /\ Len(wires[s]) < Len(pending[s])
  /\ LET f == pending[s][Len(wires[s]) + 1]
     IN wires' = [wires EXCEPT ![s] = Append(@, [result |-> None, at |-> version[f.ino]])]
  /\ UNCHANGED <<tree, agents, faults, rows, baseline, pc, cfg, walk, results, todo, taken, file,
                 pending, cacheOk, began, report>>

WorkerReturns(s, n) ==
  /\ pc[s] = "pool" /\ n \in DOMAIN wires[s] /\ wires[s][n].result = None
  /\ LET f == pending[s][n]
     IN \E v \in Readings(wires[s][n].at, version[f.ino]) :
          wires' = [wires EXCEPT ![s][n].result = ScanSource(f.path, Seen(f.ino, v), cfg[s])]
  /\ UNCHANGED <<tree, agents, faults, rows, baseline, pc, cfg, walk, results, todo, taken, file,
                 pending, cacheOk, began, report>>

\* Results are merged in the order of submission.
Merge(s) ==
  /\ pc[s] = "pool"
  /\ LET n == taken[s].merged + 1
     IN /\ n \in DOMAIN wires[s] /\ wires[s][n].result # None
        /\ results' = [results EXCEPT ![s] = Append(@, wires[s][n].result)]
        /\ rows' = Put(s, pending[s][n].path, pending[s][n].sha, wires[s][n].result)
        /\ pc' = [pc EXCEPT ![s] = IF n = Len(pending[s]) THEN "merged" ELSE @]
        /\ taken' = [taken EXCEPT ![s].scanned = @ + 1, ![s].merged = n]
  /\ UNCHANGED <<tree, agents, faults, baseline, cfg, walk, todo, file, pending, wires, cacheOk,
                 began, report>>

-----------------------------------------------------------------------------
(* The end.                                                                 *)

ClosedPaths == {p \in tree.paths : Leads(tree, p) \in tree.closed}

\* What the passes over the whole scan see of the disk.
World(s) ==
  LET Contents(paths) == [p \in paths |-> Content(Leads(tree, p)).index]
      Paths(es) == {e.path : e \in es}
  IN [files |-> tree.files, dirs |-> tree.paths, closed |-> ClosedPaths,
      indexes |-> Contents(Paths(walk[s].indexes)), states |-> Contents(Paths(walk[s].states)),
      lists |-> Contents({p \in tree.files : \E e \in Inside(tree, Leads(tree, Front(p)), Last(p)) : e.kind = "index"})]

Finish(s) ==
  /\ pc[s] = "merged"
  /\ report' = [report EXCEPT ![s] = CrossFile(results[s], World(s), cfg[s])]
  /\ cacheOk' = [cacheOk EXCEPT ![s] = FALSE]
  /\ pc' = [pc EXCEPT ![s] = "done"]
  /\ UNCHANGED <<tree, agents, faults, rows, baseline, cfg, walk, results, todo, taken, file, pending,
                 wires, began>>

\* The locals of scan_path are gone.
Leave(s) ==
  /\ walk' = [walk EXCEPT ![s] = NoWalk]
  /\ results' = [results EXCEPT ![s] = << >>]
  /\ todo' = [todo EXCEPT ![s] = << >>]
  /\ taken' = [taken EXCEPT ![s] = NothingTaken]
  /\ file' = [file EXCEPT ![s] = None]
  /\ pending' = [pending EXCEPT ![s] = << >>]
  /\ wires' = [wires EXCEPT ![s] = << >>]
  /\ cacheOk' = [cacheOk EXCEPT ![s] = FALSE]

\* The token is checked between entries, candidates and merges.  What is in the cache stays.
Cancel(s) ==
  /\ pc[s] \in {"walk", "select", "pool"}
  /\ pc' = [pc EXCEPT ![s] = "cancelled"]
  /\ Leave(s)
  /\ UNCHANGED <<tree, agents, faults, rows, baseline, cfg, began, report>>

-----------------------------------------------------------------------------
(* A scan of one file: no caps, no passes over the whole scan.              *)

StartSingle(s) ==
  /\ pc[s] = "idle"
  /\ cfg[s].single # None /\ MayStart(cfg[s])
  /\ cfg' = [cfg EXCEPT ![s] = WithBaseline(@)]
  /\ cacheOk' = [cacheOk EXCEPT ![s] = cfg[s].incremental]
  /\ LET one == cfg[s].single
     IN file' = [file EXCEPT ![s] = [path |-> one.path, ino |-> one.ino,
                                     sha |-> IF cfg[s].incremental THEN Content(one.ino) ELSE None,
                                     at |-> version[one.ino]]]
  /\ began' = [began EXCEPT ![s] = version]
  /\ pc' = [pc EXCEPT ![s] = "single"]
  /\ UNCHANGED <<tree, agents, faults, rows, baseline, walk, results, todo, taken, pending, wires,
                 report>>

\* A hit is stored again.
FinishSingle(s) ==
  /\ pc[s] = "single"
  /\ \E v \in Readings(file[s].at, version[file[s].ino]) :
       LET f   == file[s]
           hit == IF f.sha = None THEN None ELSE CacheLookup(s, f.path, f.sha)
           r   == IF hit = None THEN ScanSource(f.path, Seen(f.ino, v), cfg[s]) ELSE hit
       IN /\ results' = [results EXCEPT ![s] = <<r>>]
          /\ report' = [report EXCEPT ![s] = <<r>>]
          /\ rows' = Put(s, f.path, f.sha, r)
  /\ cacheOk' = [cacheOk EXCEPT ![s] = FALSE]
  /\ pc' = [pc EXCEPT ![s] = "done"]
  /\ UNCHANGED <<tree, agents, faults, baseline, cfg, walk, todo, taken, file, pending, wires, began>>

\* --write-baseline, from the report of a scan without one.
WriteBaselineFile(s) ==
  /\ pc[s] = "done" /\ cfg[s].baseline = None /\ baselines < MaxBaselines
  /\ baselines' = baselines + 1
  /\ baseline' = [keys |-> WriteBaseline(FlattenSeq([i \in DOMAIN report[s] |-> report[s][i].findings])),
                  of |-> cfg[s], at |-> began[s]]
  /\ UNCHANGED <<tree, agents, failures, rows, scans>>

Inodes == {e.ino : e \in UNION {Range(tree.dirs[d]) : d \in DOMAIN tree.dirs}}
AgentStep == \E ino \in DOMAIN Ledger \cap Inodes : Write(ino)

ScanStep(s) ==
  \/ Start(s) \/ VisitDirectory(s) \/ VisitFails(s) \/ EndWalk(s)
  \/ SkipCandidate(s) \/ HashCandidate(s) \/ CheckCandidate(s) \/ EndSelection(s)
  \/ WorkerTakes(s) \/ (\E n \in DOMAIN wires[s] : WorkerReturns(s, n)) \/ Merge(s)
  \/ Finish(s) \/ Cancel(s) \/ CacheFails(s)
  \/ StartSingle(s) \/ FinishSingle(s) \/ WriteBaselineFile(s)

Next == AgentStep \/ \E s \in Scanner : ScanStep(s)

Spec == Init /\ [][Next]_vars

-----------------------------------------------------------------------------
(* What a finished scan of a tree should have seen.                         *)

Enters(e, c) == /\ e.name \notin c.exclude
                /\ e.kind = "dir" \/ (e.kind = "link" /\ c.followSymlinks /\ e.ino # None /\ IsDir(e.ino))

Open(dirs) == dirs \ tree.closed

\* A set of directories that a scan does not leave, and the smallest one: what is
\* reached from the root.
Closed(dirs, c) ==
  /\ tree.root \in dirs
  /\ \A d \in Open(dirs) : \A e \in Range(tree.dirs[d]) : Enters(e, c) => e.ino \in dirs

Reached(c) ==
  {d \in DOMAIN tree.dirs : \A dirs \in SUBSET DOMAIN tree.dirs : Closed(dirs, c) => d \in dirs}

IsLedger(e, c) ==
  /\ e.name \notin c.exclude /\ c.inLayout[e.name]
  /\ e.kind \in {"file", "index", "state"}
     \/ (e.kind = "link" /\ c.followSymlinks /\ e.ino # None /\ ~IsDir(e.ino))

FilesReached(c) ==
  {e.ino : e \in {x \in UNION {Range(tree.dirs[d]) : d \in Open(Reached(c))} : IsLedger(x, c)}}

Caps == {"before-since", "newest-cap-exceeded", "max-files-cap-exceeded", "max-bytes-cap-exceeded"}
Done(s) == pc[s] = "done"
DoneTree(s) == Done(s) /\ cfg[s].single = None

\* Whatever links, loops and second names a tree has, every file a scan can reach
\* is a candidate once, has one result, and nothing else was looked at; the files
\* of a directory that could not be listed may be reached by another way.
EachFileOnce ==
  \A s \in Scanner : DoneTree(s) =>
    LET found == walk[s].found
        Once(x) == Cardinality({i \in DOMAIN report[s] : report[s][i].path = x}) = 1
    IN /\ {found[i].ino : i \in DOMAIN found} = FilesReached(cfg[s])
       /\ \A i, j \in DOMAIN found : found[i].ino = found[j].ino => i = j
       /\ \A i \in DOMAIN report[s] : Once(report[s][i].path)
       /\ \A i \in DOMAIN found : Once(found[i].path)

\* A computed result is from what the file had since the scan began.  A replayed
\* one is from what it had since it first had the bytes that this scan hashed: the
\* row was stored under the hash taken before its check, whatever that check met.
SinceHashed(s, ino, v) ==
  \E u \in 1..v.stat, w \in began[s][ino]..version[ino] : Ledger[ino][u] = Ledger[ino][w]

Timely(s, ino, v, hit) == IF hit THEN SinceHashed(s, ino, v) ELSE began[s][ino] <= v.stat

\* A result is what the analysis with the options of this scan says of contents the
\* file had one after the other, of only one if nobody wrote to it during the check,
\* and none older than the scan (scan.py:_cache_lookup, cache.py:get).  Only bytes
\* that come back can bring back a result of others.
ResultsCurrent ==
  \A s \in Scanner : pc[s] # "idle" =>
    LET names == IF cfg[s].single # None THEN {file[s]} ELSE Range(walk[s].found)
    IN \A r \in Range(results[s]) : \A f \in names :
         (f.path = r.path /\ r.reason \notin Caps) =>
            \E v \in Readings(1, version[f.ino]) :
               /\ Timely(s, f.ino, v, r.hit)
               /\ [r EXCEPT !.hit = FALSE] = ScanSource(r.path, Seen(f.ino, v), cfg[s])

\* The options that a report should depend on.
Alike(c, d) == [c EXCEPT !.jobs = 1, !.incremental = FALSE] = [d EXCEPT !.jobs = 1, !.incremental = FALSE]
Quiet(s) == began[s] = version
Shown(s) == {[r EXCEPT !.hit = FALSE] : r \in Range(report[s])}

\* No file has bytes that it had before and lost in between.
NothingBack == \A i \in DOMAIN Ledger : \A v \in 1..(version[i] - 1) : Ledger[i][v] # Ledger[i][version[i]]

\* Two scans of files that nobody changed report the same, however many jobs they
\* had, in whatever order the workers came, with a cache or without one.
SameReport ==
  NothingBack =>
    \A s, t \in Scanner :
      DoneTree(s) /\ DoneTree(t) /\ Quiet(s) /\ Quiet(t) /\ Alike(cfg[s], cfg[t]) => Shown(s) = Shown(t)

\* What nobody can list, and what is below a registry when there is too much of it:
\* there the code claims an absence it cannot know (see WalkRollouts, StateFindings).
Hidden(p) == \E d \in ClosedPaths : Under(d, p)
Overfull(s, r) ==
  /\ r.path \in DOMAIN World(s).states
  /\ Cardinality(FilesBelow(World(s), Append(Parent(r.path), "sessions"))) > MaxWalked

\* An entry of a vendor index is called dangling only when no ledger of that name
\* is on disk beside it, be it outside the scope of the scan, beyond its caps or
\* too far down to be looked for, but for the ledgers that are hidden.
DanglingIsProved ==
  \A s \in Scanner : DoneTree(s) =>
    \A r \in Range(report[s]) : \A f \in Range(r.findings) :
      (f.code = "SL402" /\ f.at[1] = "index-entry-no-file" /\ ~Overfull(s, r)) =>
         \A p \in tree.files : Under(Parent(r.path), p) /\ ~Hidden(p) =>
            f.at[2] # Stem(p) /\ f.at[2] # RolloutUuid(Stem(p))
=============================================================================

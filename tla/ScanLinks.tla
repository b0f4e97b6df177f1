------------------------------ MODULE ScanLinks ------------------------------
(***************************************************************************)
(* scan.py, the passes over a whole scan: resume links between sessions    *)
(* (SL401) and the vendor's own indexes against the files on disk (SL402). *)
(*                                                                         *)
(* A path is a sequence of names without their extensions, so that the     *)
(* last name is the stem an identifier is compared with.  A link is        *)
(* [kind, target, pathy, stem]; the stem is that of a target spelled like  *)
(* a path.                                                                 *)
(***************************************************************************)
EXTENDS ScanSource

CONSTANTS
  UuidOf,       \* the name of a rollout -> the thread id in it
  Claude, Codex, \* the formats of the two vendors with an index
  Torn,          \* a line of an index that does not parse
  MaxWalked      \* files that are looked at below a sessions directory (200 000)

Stem(path) == path[Len(path)]
Parent(path) == SubSeq(path, 1, Len(path) - 1)
Under(dir, path) == Len(path) > Len(dir) /\ SubSeq(path, 1, Len(dir)) = dir
RolloutUuid(name) == IF name \in DOMAIN UuidOf THEN UuidOf[name] ELSE None
Named(ids) == ids \ {None}

\* Findings of a whole scan are matched with the baseline by fingerprint alone.
Known(f, baseline) == baseline # None /\ Fingerprint(f) \in baseline

\* found holds pairs of the index of a result and a finding for it.
Emitted(i, found, baseline) ==
  LET mine == SelectSeq(found, LAMBDA e : e[1] = i /\ ~Known(e[2], baseline))
  IN [n \in DOMAIN mine |-> mine[n][2]]

Add(r, findings) ==
  [r EXCEPT !.findings = @ \o findings, !.warnings = @ + Count(findings, IsWarning)]

EmitAll(results, found, baseline) ==
  [i \in DOMAIN results |-> Add(results[i], Emitted(i, found, baseline))]

-----------------------------------------------------------------------------
(* SL401 *)

NamesOf(r) == Named({r.session, Stem(r.path), RolloutUuid(Stem(r.path))})

Candidates(results, link) ==
  IF link.kind = "head_ref" THEN {i \in DOMAIN results : results[i].tip = link.target}
  ELSE LET wanted == IF link.pathy THEN {link.target, link.stem} ELSE {link.target}
       IN {i \in DOMAIN results : NamesOf(results[i]) \cap wanted # {}}

\* What becomes of a link of result i.
Resolution(results, i, link) ==
  LET matched == Candidates(results, link)
      others  == matched \ {i}
  IN CASE Cardinality(others) > 1                -> "ambiguous"
       [] Cardinality(others) = 1                -> "resolved"
       [] i \in matched                          -> "itself"
       [] link.kind = "head_ref" \/ link.pathy   -> "unresolved"
       [] OTHER                                  -> "missing"

LinkFinding(results, i, k) ==
  LET resolution == Resolution(results, i, results[i].links[k])
      severity   == IF resolution = "unresolved" THEN "info" ELSE "warning"
  IN IF resolution \in {"resolved", "itself"} THEN << >>
     ELSE << <<i, Finding("SL401", severity, <<resolution, k>>, results[i].path)>> >>

LinkFindings(results) ==
  FlattenSeq([i \in DOMAIN results |->
    FlattenSeq([k \in DOMAIN results[i].links |-> LinkFinding(results, i, k)])])

ResolveCrossFileLinks(results, baseline) == EmitAll(results, LinkFindings(results), baseline)

-----------------------------------------------------------------------------
(* Reading an index.  What stands on disk is [kind, rows]: kind "object" is *)
(* one that parses, "cut" one that breaks off after its rows, and the rest  *)
(* are the ways of being unreadable.  A row is [id, path] or None for a row *)
(* that is no object; path is None or a path.                               *)

Snapshot(ok, truncated, note, entries) ==
  [ok |-> ok, truncated |-> truncated, note |-> note, entries |-> entries]

Entries(rows) == {r \in Range(rows) : r # None}
LacksId(rows) == \E r \in Range(rows) : r = None \/ r.id = None

ReadIndex(index) ==
  CASE index.kind = "absent"  -> Snapshot(TRUE, FALSE, "absent", {})
    [] index.kind = "foreign" -> Snapshot(TRUE, FALSE, "unrecognized-shape", {})
    [] index.kind = "cut"     -> Snapshot(FALSE, TRUE, "truncated", Entries(index.rows))
    [] index.kind = "object"  -> Snapshot(TRUE, FALSE, IF LacksId(index.rows) THEN "no-id" ELSE None,
                                          Entries(index.rows))
    [] OTHER                  -> Snapshot(FALSE, FALSE, index.kind, {})

\* One object a line; a line that does not parse is a cut only when it is the last.
ReadJsonlIndex(index) ==
  LET rows == index.rows
      torn == {n \in DOMAIN rows : rows[n] = Torn}
      n    == CHOOSE m \in torn : \A l \in torn : m <= l
  IN CASE torn # {} -> LET cut == n = Len(rows)
                       IN Snapshot(FALSE, cut, IF cut THEN "truncated" ELSE "malformed",
                                   Range(SubSeq(rows, 1, n - 1)))
       [] None \in Range(rows) \/ rows = << >> -> Snapshot(FALSE, FALSE, "unrecognized-shape", {})
       [] OTHER -> Snapshot(TRUE, FALSE, IF LacksId(rows) THEN "no-id" ELSE None, Range(rows))

Read(index) == IF index.kind = "lines" THEN ReadJsonlIndex(index) ELSE ReadIndex(index)

MembershipComplete(snap) == snap.ok /\ ~snap.truncated /\ snap.note = None
Forms(entry) == Named({entry.id, IF entry.path = None THEN None ELSE Stem(entry.path)})
NormalizedIds(snap) == UNION {Forms(e) : e \in snap.entries}

-----------------------------------------------------------------------------
(* SL402.  world is what is on disk: files, dirs and closed, sets of paths, *)
(* closed of the directories that cannot be listed; indexes and states,     *)
(* functions of the paths of such files that the walk has met; and lists,   *)
(* one of the paths of all indexes.                                         *)

\* os.walk passes over a directory that it cannot list, and says nothing.
FilesBelow(world, dir) ==
  {p \in world.files : Under(dir, p) /\ ~\E d \in world.closed : Under(d, p)}

\* The rollouts below the sessions directory beside an index, or None when
\* there is no such directory or too much in it.
WalkRollouts(world, home) ==
  LET dir == Append(home, "sessions")
  IN IF dir \notin world.dirs \/ Cardinality(FilesBelow(world, dir)) > MaxWalked THEN None
     ELSE {p \in FilesBelow(world, dir) : Stem(p) \in DOMAIN UuidOf}

IsMember(r, format) == r.format = format /\ r.verdict \in {"healthy", "invalid"}
Divergence(r, kind, what) == Finding("SL402", "warning", <<kind, what>>, r.path)

UnreadableIndex(r, snap) ==
  Divergence(r, IF snap.truncated THEN "index-truncated" ELSE "index-malformed", snap.note)

\* Mutant: what the scan did not look at does not exist.
ClaudeDanglingInScope(results, at, world, entry) ==
  LET beside == {i \in DOMAIN results : Parent(results[i].path) = Parent(at) /\ results[i].path # at}
  IN /\ \A i \in beside : Stem(results[i].path) \notin Forms(entry)
     /\ \A i \in beside : IsMember(results[i], Claude) => results[i].session \notin Forms(entry)

\* An entry of the index of one Claude project that names nothing, neither among
\* the results beside the index nor on disk.
ClaudeDangling(results, at, world, entry) ==
  LET beside == {i \in DOMAIN results : Parent(results[i].path) = Parent(at) /\ results[i].path # at}
  IN /\ \A i \in beside : Stem(results[i].path) \notin Forms(entry)
     /\ \A i \in beside : IsMember(results[i], Claude) => results[i].session \notin Forms(entry)
     /\ entry.path # None => entry.path \notin world.files
     /\ \A k \in Forms(entry) : Append(Parent(at), k) \notin world.files

CodexDangling(results, at, world, entry) ==
  LET rollouts == WalkRollouts(world, Parent(at))
      scope    == {i \in DOMAIN results : results[i].path \in rollouts}
      threads  == UNION {world.states[p].threads :
                           p \in {q \in DOMAIN world.states : /\ Parent(q) = Parent(at)
                                                              /\ world.states[q].kind = "registry"}}
  IN /\ \A i \in scope : RolloutUuid(Stem(results[i].path)) \notin Forms(entry)
     /\ \A i \in scope : IsMember(results[i], Codex) => results[i].session \notin Forms(entry)
     /\ \A p \in rollouts : RolloutUuid(Stem(p)) \notin Forms(entry)
     /\ Forms(entry) \cap threads = {}

Key(entry) == IF entry.id # None THEN entry.id ELSE Stem(entry.path)

\* One finding for every entry that dangles, and none for one without a name.
DanglingKeys(dangling) == {Key(e) : e \in {d \in dangling : Forms(d) # {}}}

\* A Claude index is a ledger of its directory; that of Codex lists named
\* threads only, so a file it does not list is no divergence.
Unlisted(results, at, snap) ==
  {i \in DOMAIN results :
     /\ MembershipComplete(snap)
     /\ Parent(results[i].path) = Parent(at) /\ results[i].path # at
     /\ IsMember(results[i], Claude)
     /\ Named({results[i].session, Stem(results[i].path)}) \cap NormalizedIds(snap) = {}}

IndexFindings(results, at, world) ==
  LET idx   == CHOOSE i \in DOMAIN results : results[i].path = at
      snap  == Read(world.indexes[at])
      codex == world.indexes[at].kind = "lines"
      dangling == {e \in snap.entries : IF codex THEN CodexDangling(results, at, world, e)
                                         ELSE ClaudeDangling(results, at, world, e)}
      unlisted == IF codex THEN {} ELSE Unlisted(results, at, snap)
  IN CASE \A i \in DOMAIN results : results[i].path # at -> << >>
       [] snap.note = "absent" -> << >>
       [] ~snap.ok -> << <<idx, UnreadableIndex(results[idx], snap)>> >>
       [] codex /\ WalkRollouts(world, Parent(at)) = None -> << >>
       [] OTHER -> [n \in 1..Cardinality(unlisted) |->
                      LET i == SetToSeq(unlisted)[n]
                      IN <<i, Divergence(results[i], "file-not-in-index", at)>>]
                   \o LET keys == SetToSeq(DanglingKeys(dangling))
                      IN [n \in DOMAIN keys |->
                            <<idx, Divergence(results[idx], "index-entry-no-file", keys[n])>>]

ReconcileSessionIndexes(results, world, baseline) ==
  EmitAll(results,
          FlattenSeq([n \in DOMAIN SetToSeq(DOMAIN world.indexes) |->
                        IndexFindings(results, SetToSeq(DOMAIN world.indexes)[n], world)]),
          baseline)

-----------------------------------------------------------------------------
(* The Codex registry, an sqlite file with the ids of all threads.  A state *)
(* is [kind, threads, edges, skips]; kind "registry" is one that can be     *)
(* read, "foreign" another program's database.                              *)

SpawnOrphans(state) ==
  {e \in state.edges : e[1] \notin state.threads \/ e[2] \notin state.threads}

\* The ids of the index beside a registry, when no pass over the index itself reports them.
NamedThreads(results, at, world) ==
  LET beside == {p \in DOMAIN world.lists : Parent(p) = Parent(at) /\ world.lists[p].kind = "lines"}
  IN UNION {NormalizedIds(Read(world.lists[p])) :
              p \in {q \in beside : /\ \A i \in DOMAIN results : results[i].path # q
                                    /\ MembershipComplete(Read(world.lists[q]))}}

StateFindings(results, at, world) ==
  LET db       == CHOOSE i \in DOMAIN results : results[i].path = at
      state    == world.states[at]
      walked   == WalkRollouts(world, Parent(at))
      rollouts == IF walked = None THEN {} ELSE walked   \* not provable is taken for empty
      members  == {i \in DOMAIN results : results[i].path \in rollouts /\ IsMember(results[i], Codex)}
      IdsOf(i) == Named({results[i].session, RolloutUuid(Stem(results[i].path))})
      unknown  == {i \in members : IdsOf(i) \cap state.threads = {}}
      resolvable == state.threads \cup {RolloutUuid(Stem(p)) : p \in rollouts}
                    \cup UNION {IdsOf(i) : i \in members}
      On(i, kind, what) == << <<i, Divergence(results[i], kind, what)>> >>
      Each(keys, kind, At1(_)) == LET s == SetToSeq(keys)
                                  IN FlattenSeq([n \in DOMAIN s |-> On(At1(s[n]), kind, s[n])])
  IN CASE \A i \in DOMAIN results : results[i].path # at -> << >>
       [] state.kind \in {"foreign", "absent"} -> << >>
       [] state.kind # "registry" -> On(db, "index-malformed", state.kind)
       [] OTHER -> Each(unknown, "file-not-in-index", LAMBDA i : i)
                   \o (IF SpawnOrphans(state) # {} THEN On(db, "spawn-edge-orphan", None) ELSE << >>)
                   \o (IF state.skips > 0 THEN On(db, "migration-skip-recorded", None) ELSE << >>)
                   \o Each(NamedThreads(results, at, world) \ resolvable, "index-entry-no-file",
                           LAMBDA k : db)

ReconcileStateDbs(results, world, baseline) ==
  EmitAll(results,
          FlattenSeq([n \in DOMAIN SetToSeq(DOMAIN world.states) |->
                        StateFindings(results, SetToSeq(DOMAIN world.states)[n], world)]),
          baseline)

\* The passes after the results were sorted.
CrossFile(results, world, cfg) ==
  LET linked == IF "SL401" \in cfg.enabled THEN ResolveCrossFileLinks(results, cfg.baseline)
                ELSE results
  IN IF "SL402" \in cfg.enabled
     THEN ReconcileStateDbs(ReconcileSessionIndexes(linked, world, cfg.baseline), world, cfg.baseline)
     ELSE linked
=============================================================================

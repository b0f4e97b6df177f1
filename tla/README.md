# TLA+ models of sesslint

sesslint checks the session ledgers that coding agents write (append-only
JSONL files of messages, tool calls, tool results, compactions and
checkpoints), plans repairs of them, writes a repaired copy beside the source
with a manifest as its receipt, and verifies that copy later. This directory
models the parts of it whose correctness depends on the order of things or on
many cases at once: several processes and an agent over the same files,
crashes, a plan made before and applied after a change, steps that shift the
positions later steps address, damaged lines, ids that are made up, evidence
that is incomplete.

`PROJECT.json` lists, for every definition, the source lines it translates, the
runs with their properties, a mutant of the code for each property, the
findings, the hazards and the theorems. Run a check with
`tlc -workers 2 -config RepairWhole.cfg RepairPipelineMC.tla` and a proof with
`tlapm RepairPublishProofs.tla`, from this directory.

## 1. The system

Paths are relative to `src/src/sesslint/`.

| part | state it keeps | operations | what makes it correct | where |
|---|---|---|---|---|
| repair executor, publication (`repair/executor.py`, `atomic.py`) | two names in a directory, a staging file, two flags | snapshot, preflight, write manifest, write output, roll back | never an output without its manifest; never a name replaced; nothing left after an error | `RepairPublish`, `ReceiptLedger` |
| planner (`repair/planner.py`, `preconditions.py`, `registry.py`) | none; a plan is a file that outlives the process | choose recipes, order steps | what it plans can be executed, and repairs what it says | `RepairPipeline` |
| executor, application (`repair/executor.py`, `vetting.py`, `positions.py`) | the events as repaired so far | vet, judge scope, relocate, apply, revalidate | only redundant or declared records go; positions never drift | `RepairPipeline`, `RepairRecipes` |
| recipes (`recipes_conservative.py`, `recipes_salvage.py`, `recipes_sl002.py`, `assurance.py`) | none | collapse, drop, project, reunite, truncate, amputate, excise | each touches only its region; declared loss equals what is lost | `RepairRecipes`, `SalvageRecipes` |
| abstention policy (`policy/abstention.py`) | none | ambiguous events, scope of a step | a tool call that may have had effects is left alone | `RepairRecipes` |
| write-back (`repair/writeback.py`) | none | keep or drop source lines | a vendor copy is a subsequence of the source's lines, or refused | `RepairPipeline` (`Projected`) |
| verification (`verify.py`) | none | hashes, plan fingerprint, audits, idempotence | what passes is what the repair left | `RepairVerify` |
| structural checks (`checks/identity.py`, `graph.py`, `tool_pairing_*.py`, `checkpoint.py`) | none | one function per code | each finding is what its code says | `SessionChecks` |
| check runner and report of a session (`api.py`, `checks/runner.py`, `report.py`, `adapters/detect.py`) | none | gates, families, coverage, selection, level | the report says what was looked at, and no level is better than that | `SessionReport` |
| reader (`io.py`, `source.py`) | position, a record of lookahead, tail tracker, source guard | read a line, drain, resynchronise, guard | no record lost or doubled around damage; bounded; ends | `RecordLines`, `Ingest` |
| adapters (`adapters/*`) | per-load ids, parents, versions | translate vendor records | synthetic ids stay apart; no record dropped without a finding | `Adapters`, `CodexRollout`, `ClaudeCode`, `OpenAIAgents`, `CanonicalSession` |
| scan and cache (`scan.py`, `cache.py`, `indexes.py`, `state_db.py`, `baseline.py`) | a sqlite table; a baseline file | walk, cap, look up, check, store, merge, cross-file passes | a hit is what a fresh check would say; each file once | `ScanSource`, `ScanLinks`, `Scan` |
| batch repair (`batch.py`) | names given out | choose, repair, move receipts | one file's failure leaves the others; receipts never clobbered | `BatchRepair` |
| watch monitor (`watch.py`) | history per file, pending set, LRU order | poll: list, stat, check, evict | every settled file gets the verdict of its bytes | `Watch` |
| seal ledger (`seal.py`, `cli/_seal.py`) | a hash-chained file and its lock file | append, verify | what verifies is what was written; concurrent appends keep the chain | `SealLedger` |
| outcome guard (`outcome/*`) | none | validate a contract, reconcile it with snapshots | no verdict better than its evidence | `OutcomeEngine`, `Outcome` |
| MCP server and hooks | none | one response per request | framing | not modelled |
| preview, bundle, diff, stats, triage, doctor, SARIF, HTML, completion, CLI | none | rendering, exit codes | wording and layout | not modelled |

How they interact. `check` reads a file through the reader and an adapter, runs
the checks over the events and rates what was found. `scan` does so for a tree,
with workers and a cache, and looks across the files afterwards; its report can
feed a batch. `repair` reads and checks the same way, lets the planner turn
findings into steps, and hands the plan to the executor, which reads the file
again: the plan may be minutes old, or come from somebody else, so the executor
trusts only what it derives itself. `verify` later compares source, copy and
manifest. `watch` calls `check` in a loop; `seal` records the verdicts of
`check`, `repair` and `verify`. The agent that owns the session appends to it all
the while and takes no lock. The outcome guard stands beside all of this: it
reads exports of other systems.

What is hard there: two repairs of one output path; a source that grows between
plan, snapshot and publication; a kill, an interrupt or a power loss between two
directory operations; positions of source records used after earlier steps
removed some; a step judged in one state and applied in another; a file that
grows while it is read in pieces; a result stored under a hash taken earlier; a
poll that misses a file; a ledger whose append is cut short; a deadline that
passes between two exports.

## 2. Modules

| module | models | state and actions |
|---|---|---|
| `ReceiptLedger` | what the pair of output and manifest means to a reader of the directory | `Claim`, `Publish`, `GiveBack` |
| `RepairPublish` | `execute` from the plan to the returned manifest, and `atomic_write_bytes` | `dir` is what the names refer to, `disk` what they would after a power loss, `temps` the staging files; per run `pc`, `stage`, `held` (`temp_path` set) and `flags` (`manifest_linked`, `output_replaced`). One action per system call and per assignment that an interrupt could precede |
| `SessionChecks` | the checks whose findings plan, refuse or rate a repair | operators on a sequence of events |
| `RepairRecipes` | preconditions, regions, abstention, conservative recipes, relocation | operators on a sequence of events and a step |
| `SalvageRecipes` | the recipes that lose something, with the loss each declares, and the discard of a torn end | operators |
| `RepairPipeline` | `plan` and `execute` in memory, under either policy, for canonical and vendor files | `file`, `plan`, `loaded`, `working`, `todo`, `applied`; `MakePlan`, `Append1` (the agent), `Load`, `ApplyStep`, `Revalidate` |
| `RepairVerify` | the copy and manifest that an accepted repair leaves, what may happen to the three files, and the seven checks of `verify` | `out`, `manifest`, `held`, `verdict`; `SourceGrows`, `CopyChanges`, `LossHidden`, `VerifyReads`, `VerifyJudges` |
| `RecordLines` | physical lines, and what the reader makes of a piece of one | operators |
| `Adapters` | what the format adapters share: synthetic ids and the guard over them, trackers, the end of a load | operators on a load |
| `CodexRollout`, `ClaudeCode`, `OpenAIAgents`, `CanonicalSession` | one loader each: what one record does to the load | operators on a load and a record |
| `Ingest` | reading a file piece by piece while the agent writes | `pos`, `totalBytes`, `pendingRaw` (the lookahead), `drained`, `guard`, `load`; one action per readline, stat, hash and write |
| `SessionReport` | `check` of one file, once it is read | `report`; `Judge` |
| `ScanSource` | the verdict on one source | operators on a content |
| `ScanLinks` | resume links between sessions (SL401), indexes and registry against the disk (SL402) | operators on the results of a scan |
| `Scan` | `scan_path` and its cache | per scanner `pc`, `walk`, `todo`, `pending`, `wires`, `results`; shared `rows` (the cache) and `baseline`; one action per directory, candidate, lookup, worker step and merge |
| `BatchRepair` | `repair_many`, beside scans | per batch `turn`, `hand`, `left`, `told` (rows), `assigned`; shared `outputs`, `adjacent`, `receipts`; one action per file decision and publication |
| `Watch` | `watch` | `states`, `order`, `pending`, `seen` are the code's; one action per stat, check and eviction; the agents write, remove and restore files between any two |
| `SealLedger` | `append_seal`, `verify_lines` | `lines`, `ended` (last byte is a newline), `lock`; a failed write leaves nothing, part of a line, a line without newline, or all of it |
| `OutcomeEngine` | `outcome/engine.py`: conditions, predicates, items, the outcome | operators |
| `Outcome` | contract validation, and the systems the exports are taken from | `now`, `requested`, `completed`, `report`; `Tick`, `Request`, `Complete`, `Evaluate` |
| `...MC` | constants, catalogs and symmetry for TLC; `RepairRaceMC` also the choice between calm and faulty behaviours | |
| `FoldFacts` | what a left fold computes, for an operator given as a CONSTANT; induction over a set of numbers | lemmas |
| `AdapterProofs` | what one line of a file adds to a load, under each adapter; the invariant of reader and load | lemmas |
| `RepairPublishProofs`, `WatchProofs`, `SealLedgerProofs`, `RepairPipelineProofs`, `ScanProofs`, `IngestProofs` | theorems (section 4); `ScanProofs` holds those of batches too | |

How they compose. `SessionChecks` is extended by `RepairRecipes`, that by
`SalvageRecipes`, `RepairPipeline` and `RepairVerify`: planner, revalidation and
verify use the same operators, as in the code. `SessionReport` extends `Ingest`,
which extends the four loaders, and judges the events they return with an
instance of `SessionChecks`. `BatchRepair` extends `Scan`, which extends
`ScanLinks` and `ScanSource`: a batch may repair what a scan reports.
`RepairPublish` implements `ReceiptLedger` (a refinement mapping, checked and
proved); it takes one step, `Apply`, for what `RepairPipeline` does, and
`BatchRepair` takes two, a claim and a publication, for what `RepairPublish`
does.

Abstractions.

- Bytes, hashes and JSON are values that are equal when the code's are: SHA-256
  and canonical JSON are taken to be injective.
- In `RepairPublish` the source is a version number and the bytes a run writes
  are determined by its run and the version it read.
- In `SessionChecks` an event's payload is a content that two events share when
  their payload hashes agree; what a checkpoint or a boundary says of itself
  (number, hash, coverage) is a function of its content (`Says`). In
  `SessionReport` an event's content is its record, no payload makes a claim,
  and ids sort in the order in which they come.
- Fingerprints of findings, which break ties between two steps of one recipe at
  one position, are a free choice (`PlanOrders`).
- In `Ingest` a line is the kind of its text, its size and a record; a text of
  kind "hiding" has a rest that would be an object by itself.
- In `ScanSource` a content is what each stage of the analysis finds in it. A
  path is a sequence of names; globs, times and layout tables are sets of names.
- In `Watch` each write gives a file a new signature: `_snapshot_file` documents
  that a same-size rewrite within the timestamp granularity is missed.
- In `OutcomeEngine` a field value is a sort and a number; the sorts are those
  the engine tells apart (a number, its spellings, an instant, text, null,
  nested).
- The advisory checks that `SessionReport` runs stand as one SL008
  warning that may be there or not. A4 is not told from A3. Scores of detection
  are inputs.

Definitions whose comment starts with "Mutant" are altered copies of the definition
that follows them, for testing the properties; no specification uses them.

## 3. Runs

Runs that are expected to pass:

- **publish_race**: two executors over the same or different output paths (the
  source's own included), dry or not, an agent that edits the source twice, a
  program that creates either file of the pair, errors, kills, and interrupts
  outside the windows discussed below. `FailureCleansUp`: a run that ends
  leaves both files or neither, and no staging file. `RefinesLedger`: the
  directory behaves as `ReceiptLedger`. `SomebodyWins`: where nothing fails (the
  initial choice `calm`), some run of those racing for one path returns.
- **publish_wild**: power loss, write-back of directory entries in any order,
  unlinks that fail, the rename of Windows, and interrupts everywhere except
  between the link of the output and its flag. `ReceiptBeforeOutput`,
  `CommittedPairStays`, `PublishedIsPlanned`, `OnlyOwnEntriesChange`.
- **watch**: two files over a history cap of one. `PendingTracked`: what waits
  for its check has the state the check reads. `ListenerKnows`: the last verdict that was
  announced is the one held. A check announces only what differs from the verdict held
  (`watch.py:237`), and the first of a file only if it is bad (`watch.py:234`); where a bad
  verdict was evicted, a file that comes back healthy is therefore checked in silence, and
  the property excepts it until something is announced again.
  `Converges`: a file that settles gets the verdict of its bytes, except one that
  was away and came back as it was.
- **seal_append**: two processes with two appends each and one edit of the file.
  `VerifiedIsWritten` (what verifies was written, in its place), `EditNamed` (the kind of
  the first broken line after an edit that recomputes no hash),
  `AckedInLedger`, `DivergentNeverExtended`, `LockReleased`.
- **repair_whole**: every session from six catalogs of records (redelivered and
  contradicting results, calls around compactions, checkpoints, branches with
  orphans and open calls, torn lines, a vendor's lines of several events), either
  policy, the whole plan or a part of it, on the planned file or a longer one; then
  the files change and `verify` reads them.
  `OutputDerives`: of a conservative copy, every record it lacks is said by an earlier
  one that stayed, and a parent changed only to what stands for it.
  `LossDeclared`: what nothing in the copy stands for is within the losses declared.
  `DelicateUntouched`: a conservative repair leaves the events of a call that may
  have had effects. `BoundariesCrossOnlyTheirPairs`: nothing but a boundary changes
  its order, and that only within pairs a step reunites.
  `VerifiedIsRepaired`: what passes `verify` is what the repair left.
  `HonestRepairVerifies`: an untouched copy passes, given the plan's acknowledgement, but
  for those that executor and `verify` judge as different formats. The executor
  revalidates a copy with the adapter of its source (`executor.py:706-719`, `791`), under
  which a vendor's session needs no checkpoint after a compaction (`runner.py:297-315`);
  the last check of `verify` runs without an adapter (`verify.py:972-976`) and reports
  SL203 for it. So a copy in a vendor's format that uses a tool after a compaction never
  passes `verify`, whatever the repair was, and the property says so (`JudgedTwoWays`):
  of these copies none passes, of the others all do.
- **scan_cache**: two scanners over one cache and one tree, with a session that is
  written to, also between two of the five reads of a check, and may come to hold
  bytes it held before; a cache that fails, hard links, links to directories above,
  closed directories, caps, baselines, an index and a registry. `EachFileOnce`.
  `ResultsCurrent`: a result is what the analysis says, under the options of this
  scan, of contents the file had one after the other (of one, if nobody wrote during
  the check). A computed one is from no earlier than the scan. A replayed one may be
  older: its row was stored under the hash taken before its check (`scan.py:961`, `:976`),
  and what the check then met may have gone again when the hashed bytes are back.
  It is no older than the first time that the file had those bytes (`SinceHashed`).
  `SameReport`: workers and cache change no report, as long as no file has bytes back
  that it lost in between (`NothingBack`). `DanglingIsProved`: SL402 calls dangling only
  what is not on disk, but for two cases in which the code claims more than it can
  know: ledgers in a directory that cannot be listed, which `os.walk` passes over in
  silence (`scan.py:1548`), and registries above more files than are walked, where "not
  provable" (`scan.py:1536-1539`) becomes an empty set (`scan.py:2003-2005`).
  And two batches over the same output and
  manifest directories, which fail or die at any step: `ReceiptsAccounted` (an output
  has a receipt of its own, and a row says where).
- **ingest**: every file of up to four lines of every kind and size, read in
  pieces while the agent appends or rewrites, and up to three records of each
  vendor. `DamageLocated`, `NothingVanishes` (behind the last
  of 1000 findings that a load of our own format keeps, `canonical.py:1024`, damage is
  dropped without a word; the property excepts it), `MadeUpIdsAreFresh`,
  `LinkedIfAdjacent`, `VersionsCompared`, `KeepsItsPlace` for the reader and
  the loaders; `CoverageHonest` (each rule once: performed, skipped with its
  reason, or deselected) and `LevelIsDeserved` for the report; `ReaderEnds`.
- **outcome**: nine contracts, over systems whose requests and results may be
  retried, late, without a key, misspelt, or claim times nobody could have seen.
  `VerifiedIsTrue` and `ViolatedIsFalse` compare a verdict with what had happened,
  `OutcomeCovers` compares it with the whole source; `DecidesWhenItCan`: complete evidence
  leaves nothing unknown.

Runs that find a disagreement between the code and what it says of itself, each a
finding in `PROJECT.json`:

- **publish_interrupt**: a `KeyboardInterrupt` between `os.link` and the
  assignment of the flag makes the rollback leave one file of the pair.
- **repair_settles**: a reunion can put the boundary inside another pair; the
  copy is accepted, and `verify` calls it non-idempotent.
- **ingest_parallel**: a Claude Code record with two tool results becomes two
  events, neither of which has the record's id; the record that follows names a
  parent that does not exist (SL004).
- **report_gated**: with SL301 switched off, or in the baseline, a file of an
  unsupported version is rated A3 although no structural check ran.

### Bounds and why they suffice

| bound | value | why |
|---|---|---|
| `Run`, `Target` | 2; the source's path and another | rivalry is pairwise: a third run meets a name that the first two settled; the two cases of the preflight. The theorems hold for any number |
| `MaxVersion` (publish) | 2, 0 in the finding run | one rewrite that keeps the events and one that changes them: the two hashes of the plan tell these apart |
| `File`, `MaxTracked`, `Explicit` | 2, 1, one | the smallest history that must evict; a root given as a file and one listed |
| `MaxVersion`, `MaxRemovals` (watch) | 2, 2 | a change during the debounce and one during the check; an absence in two polls |
| `stable` | saturates at 1 | the code compares `stable_polls` with 1 only |
| `MaxSeals`, `MaxEdits` | 2 each, 1 | an append before and after a failed one; one edit is what the docs promise to name. Several edits can undo each other |
| `MaxListed` | 3 | the smallest that lists a pair and cuts off a longer list (20 in the code) |
| catalogs, `upTo` | 5 of 8 records with repetition (`Pairs`), 6 of 7 (`Compactions`), 4 of 6 (`Resumed`, `Canonical`, `Splits`), 4 of 7 (`Vendor`) | three steps over a call with two results; two overlapping pairs, a boundary and its checkpoint; a cut, an amputation and an excision that meet |
| `MaxLen`, `Appended` | 6 (7 in the finding run), one record | one appended record, which changes findings or scope |
| `MaxMeddles` | 1 | every check of `verify` compares with one of three files; only repairs that changed something are meddled with |
| `Scanner`, `MaxFailures`, `MaxBaselines` | 2, 1, 1 | a row of the other scan, a cache that goes away in the middle |
| writes to a tree | 1, and 2 in the tree of one file | a content before and after it grew, or before and after a tail of zeros; bytes that are lost and come back, with a scan during each |
| `MaxWalked` (200 000 in the code) | 3 | a registry above as many files and above one more |
| trees and options | six trees, eleven cases | one loop, one hard link, one dangling link, one closed directory, one special file; every option on either side of its test |
| `Batcher`, `MaxErrors` | 2, 1 | names meet pairwise; a failure before, between or after the others. `DEFAULT_MAX_FILES` is never reached, and output and manifest directories lie outside the tree |
| `MaxLine`, `DrainSize`, `MaxFile`, `MaxRecords` | 3, 2, 14, 3 | a line at the limit, a longer one, one that takes several drains; a file and a record count over their limits |
| `writes` | 2 | an append and another write; one rewrite in place, so a file that is rewritten and restored between two reads of its hash is excluded |
| `MaxDrift` | 2 | the list of examples is cut |
| `MaxEventFindings` (1000 in the code) | 3 | a load at, below and over the cap |
| `MaxJudged` | 2 lines | the report depends on kinds of findings, not on their number |
| `Deselections`, scores | six sets; 0, 2, 3 and 5 against thresholds 3 and 2 | each gate alone, each family in part and whole; either side of the threshold and the margin |
| `MaxTime`, `within` | 2, 1 | a result before, at and after its deadline |
| rows and records (outcome) | 2 and 2 | a match, a rival match, a row without a key |

Some inputs are narrower than the code's and no bound says so: in `RepairVerify`
later reads of a file see one version, there is one profile and no malformed
manifest, and the rules that exist for Codex only (SL206-SL208, SL305), which the
executor counts and `verify` does not, report nothing; in `ScanLinks` two entries of an
index with one key give one finding, whichever comes first; in `SessionReport` a baseline holds all findings or none, a database
stops at the encoding gate, a detection that chooses the wrong adapter is not
modelled and the severity of SL303 is free; in `Outcome` the evaluation takes place
at the last instant, "unknown" completeness is judged like "partial", and the
systems only add records.

Deadlock is checked in `watch`, which polls for ever, and in `outcome`, whose clock
ends with an evaluation that can be repeated. Elsewhere the system stops: every
run of the executor ends, the appends of a sealer are bounded, a pipeline, a scan, a
batch and a check end with their reports.

### Fairness

`Watch`: weak fairness of the poll. `watch` loops until it is cancelled and does
nothing that blocks; the agents are under no obligation. `SealLedger`: weak
fairness of the append of each process, which after `flock` runs straight
through; nothing is said about who gets the lock. `RepairRaceMC`: weak fairness
of each run; the property speaks of behaviours chosen `calm`, which have no
faults: `execute` takes no lock and waits for nobody. `SessionReport`: weak fairness of
the reader, which is one loop over one file; that it ends rests on the agent's
writes being bounded. No strong fairness anywhere.

## 4. Proofs

Every theorem holds for all values of the constants, so for any number of
processes, files, records and steps, and for every interleaving.

| component | module | theorem | property | assuming |
|---|---|---|---|---|
| publication | `RepairPublishProofs` | `TypeCorrect` | `TypeOK` | |
| | | `CommittedPair` | `CommittedPairStays` | |
| | | `OnlyOwn` | `OnlyOwnEntriesChange` | |
| | | `PublishedPlanned` | `PublishedIsPlanned` | |
| | | `ReceiptFirst` | `ReceiptBeforeOutput` | no interrupt between the link of the output and its flag |
| | | `LedgerImplemented` | `RefinesLedger` | the same, and no power loss, which may take back several claims at once |
| | | `ErrorsCleanUp` | `FailureCleansUp` | no interrupt in a window, unlinks succeed, the power stays on |
| ledger of seals | `SealLedgerProofs` | `AckedStays` | `AckedInLedger` | |
| | | `TornStops` | `DivergentNeverExtended` | |
| | | `VerifiedWritten` | `VerifiedIsWritten` | at most one edit |
| | | `EditIsNamed` | `EditNamed` | at most one edit; a torn line is no entry |
| monitor | `WatchProofs` | `PendingHaveState` | `PendingTracked` | |
| | | `ListenerTold` | `ListenerKnows` | |
| planner and executor | `RepairPipelineProofs` | `OnlyBoundariesMove` | `BoundariesCrossOnlyTheirPairs` | |
| | | `DelicateStays` | `DelicateUntouched` | |
| | | `CopyDerives` | `OutputDerives` | |
| scan and cache | `ScanProofs` | `CurrentResults` | `ResultsCurrent` | |
| | | `FilesOnce` | `EachFileOnce` | |
| batches beside scans | `ScanProofs` | `AccountedReceipts` | `ReceiptsAccounted` | |
| | | `CurrentBesideBatches` | `ResultsCurrent` | |
| | | `OnceBesideBatches` | `EachFileOnce` | |
| reader and loaders | `IngestProofs` | `DamageIsLocated` | `DamageLocated` | |
| | | `NothingVanishesAlways` | `NothingVanishes` | |
| | | `AdjacentAreLinked` | `LinkedIfAdjacent` | |
| | | `VersionsAreCompared` | `VersionsCompared` | |
| | | `PlacesAreAlwaysKept` | `KeepsItsPlace` | |
| | | `MadeUpAreFresh` | `MadeUpIdsAreFresh` | |
| report of a session | `IngestProofs` | `CoverageIsHonest` | `CoverageHonest` | |

What the constants are assumed to be is said by a named ASSUME of the module that
declares them, and TLC evaluates all of these in the runs:

- `PublishAssumption`, `EntryAssumption`, `RunAssumption`, `SealAssumption`,
  `WatchAssumption`, `ChecksAssumption`: sorts, and values that differ.
  `SyncAssumption`: no power loss where a directory cannot be fsynced, as nothing
  is promised then.
- `PipelineAssumption`: a record has the fields of a record and comes from no
  earlier position; a first file has at least one line.
- `ScanAssumption`: an entry of a directory points at what its kind says, and names
  in it differ (`TreeAssumption`); there is at least one job, which `scan_path`
  checks, and a single file is one of the tree (`OptionsAssumption`); a file
  has one content or more, one after the other and not necessarily different
  (`LedgerAssumption`). Of these nothing else is assumed.
- `LimitAssumption`, `DriftAssumption`, `KeptAssumption`, `ReportAssumption`: limits are positive numbers.
  `VersionAssumption`: no version is none of the supported ones.
- `ScenarioAssumption`: what the agent writes are lines, of which only the last one of
  a file may be unfinished; a document is one value with a list of items, and a
  record of Claude Code has a list of blocks, and an id, if any, is a sequence of parts.
  Of what a record says nothing is assumed.
- `BatchAssumption`: every ledger of a tree is among its files, paths have an order,
  and what the planner may say are the four answers `repair_many` tells apart.

None of these properties is inductive. What strengthens each:

**Publication**, in layers.

1. `FlagsInv`: what a point of the program implies of the flags: the stage is
   "output" exactly when `manifest_linked` is set, `output_replaced` implies
   `manifest_linked`, and nothing is set before the first write.
2. `PairInv`: from the publication of its manifest to its rollback, a run's
   manifest stands at its name, in the directory and on the disk, and so does its
   output once `output_replaced` is set. This is what the rollback needs:
   it unlinks by name, and the name is still its own. A rival cannot take a name
   that is in use (`PublishExclusive`), which `OthersKept` turns into: a step of
   one run leaves the entries of the others. `CommittedPair` and `OnlyOwn` follow.
3. `EntryInv`: every entry belongs to a run past its snapshot, whose source had the
   planned events: `PublishedPlanned`. `PlanOk` carries the comparison of hashes
   from the snapshot to the publication.
4. `OutputInv`: an output stands only where its run set `output_replaced`, is about
   to, or is dead (`Replacing`), so that no rollback removes the manifest under it;
   and on the disk likewise, because the manifest was synced before the output was
   linked. `ReceiptFirst` follows.
5. `LedgerStep`: a step that changes the directory publishes a manifest where no
   output stands (a claim), publishes the output under the run's own manifest, or
   takes back a manifest with nothing published under it (`Replacing` again);
   the rollback of an output never finds its condition true.
6. `TidyInv`: `PairTidy` says at which points of a run its manifest and its output
   may stand at all, `StagingTidy` at which a staging file of it may exist. An error
   leads from each of these points to the end of the run over the unlinks that
   take away what stands. `ErrorsCleanUp` follows.

**Seals.** `LockInv`: only the holder of the lock is between `Lock` and its return.
`ChainInv`: while nobody has edited the file, what the holder verified still
holds when it writes: the file is intact and as long as its entry's number says,
and what it wrote and every acknowledged entry stand at their lines. For an edit
at any moment, `HeldInv` says that what processes hold in memory is sound (an
entry about to be written names the line before it by its content), `CalmInv`
that before the edit every line is as it was written or the file is not intact,
and `TamperInv` that after the edit the ledger either never verifies again,
because the line that was changed, inserted or lost in the middle contradicts the
hash of its successor, or was cut at the end and consists of written lines.
`NamedInv` adds which line that is and what it looks like to `verify_lines`:
appends under way only add behind it, and none starts on a file that does not verify.

**Monitor.** `PendingInv`: while checks are dispatched, what is pending was seen in
this poll, so that an eviction, which passes over what the poll has seen, never
takes a state that a check will read. `UntoldHealthy`: of a file without a verdict the
listener was told nothing bad, unless a bad verdict was evicted and nothing was announced
since: the check after an eviction may find the file healthy and say nothing.

**Repair.** The executor judges and relocates each step by itself, on a session
that the steps before it have shifted. `Inv` ties the parts together: the steps of
the plan are what the planner has for its source, in the planner's order
(`PlanIsMade`); the applied ones and those left are some of them, in that order
(`StepsInOrder`, `NothingYet`); what was loaded is the plan's source
(`SourceLoaded`); and what is worked on are its events, some gone, boundaries out
of order only within reunited pairs (`WorkingIsLoaded`). Of a conservative repair,
`Conserved` says in addition that

- neighbours of one kind and call that are both still there are neighbours still
  (`Adjacent`), and only what the applied steps were planned to drop is gone (`Missing`).
  This is where the order of the plan counts: the removal of a projection drops the
  second result of a call as it finds them, and that would be another than the
  planned one had a collapse or a drop at the same place come first
  (`ProjectionFirst`, `SecondPresent`);
- what is gone is said by an earlier event that is still there (`Stood`), although
  the event that stood for it at first may be gone by then too;
- delicate events are where they were, between the same events (`Untouched`): the
  scope of each step, judged in the source, has the events that the step
  takes or passes in the working session (`ScopeSpares`);
- parents changed only along stand-ins, to an event that is there (`Relinks`).

Every conservative step is a removal of one region or a reunion (`StepIs`,
`RemovesConserves`, `ReunionConserves`). The lemmas in front prove this from what
`SelectSeq`, `Max`, `Region` and `Relocate` return for sessions of any length.

**Scan.** `ScansInv`: every path the walk speaks of is a name in a directory whose
turn has come (`WalkOK`, and `TurnOK` inside a turn), so a path leads to one file;
every row of the cache, whoever stored it, holds under its key what the analysis with
the options of that key says of contents met one after the other since the file had the
hashed bytes (`RowsOK`); and what is in hand, in a worker or in its answer was hashed,
then opened, after the scan began (`Handed`, `WireOK`). The five reads of a check are
chosen when it ends, from the contents the file had since it began (`Readings`), so a step
of an agent between two of them only widens the choice (`Grows`). A hit is a row under
the bytes that the scan has just hashed: its readings begin where the file had these
bytes, perhaps for the first time, which is all that `CurrentResults` claims of it. For `FilesOnce`, `Covers`: of
every directory that was listed and could be, each entry has been met, once for each file,
and all that was met lies within the least set of directories closed under
the options of the scan (`Reached`), which an empty queue has therefore covered.
`Balanced` then follows each candidate: it is still to be considered, in hand, waits
for a worker, or has its one result, and these four are disjoint; sorting by
age permutes the candidates, capping moves them, cross-file passes keep
paths.

**Batch.** `BatchInv`: who owns an output or a manifest (`HandOK`, `OutputsOK`). An
output or a receipt is never lost or replaced, and a manifest goes only when
the batch that claimed it takes it away, which it does after a copy of it has
arrived (`Shares`); a name with a digest is that of its source, and one without
has refused no file yet, so no file is refused over a name of its own batch.
`AllInv` adds the invariants of the scans, because a batch may repair what a scan
reports.

**Reader and loaders.** `ReadInv`: where the reader stands and what it has made so far
fit together, as long as it reads the bytes it vouches for (`Steady`). Of the file,
`FileOK` and `GuardOK` say how it may have changed since the guard looked: only by
growth, or else the guard will notice or the unguarded formats make no promise. Of the
reader, `PositionOK` says that it stands in front of a line, behind an unfinished last
one, or inside of one over the limit, and that `totalBytes` is the offset of that
place. `PendingOK` says what the lookahead owes: the record in `pendingRaw` is the
last one read, its load covers exactly the records in front of it, and `recordCount`
is its ordinal. Draining an oversize line in pieces of any size changes none of
this until its end is found.

`LoadOK(L, n)` is what a load says of the records in front of line `n`. None of the
properties follows from another record by record; each needs a memory of what is behind:

- every finding and event lies where its line does, events in file order (`WhereOK`);
  each record was told, or passed over for a reason the code has (`ToldOK`);
- damage has one finding, and the tail begins behind the first damaged line that is not
  the torn end (`DamageOK`, `TailOK`), so that the sum of lost bytes, taken when the
  file has ended, is that of the lines behind it;
- `last` and `lastOrdinal` are those of the last event, and `gap` is set exactly when a record
  came after it (`LinkOK`): this decides the next link;
- the baseline is the first supported version that is marked, and the drift list is
  empty exactly as long as nothing differs from it (`VersionOK`); cutting the list to its
  first examples never empties it;
- the events of one record stand in the place of that record, as a chain or as
  siblings (`PlaceOK`).

`MadeUpIdsAreFresh` has an invariant of its own, `FreshInv`. Every event is of a record
that bears a number, and all numbers in use are below the next one (`Fresh`). Its id is
known to the guard, as a real one if the vendor gave it and as a made-up one if the loader
did, and then it is the id of that record or of that number, perhaps with a tag behind it
(`Sourced`, `Made`): a tag is appended once, so two made-up ids agree only if what they
were made from does. A load ends without a collision only if no id is of both sorts
(`NoCollision`), however closely a vendor's id imitates a made-up one.

`AdapterProofs` shows, for each adapter, what one line adds to a load: a
damaged one, a recovered one, each class of record (`LineTurn`, `DamagedLine`, `SoundLine` and the lemmas under them);
the blocks of a Claude Code record and the items of a document are folds, which
`FoldFacts` opens. `IngestProofs` shows that every step of the reader keeps `ReadInv`,
that lines the agent appends lie behind everything said so far, and what follows at
the end of the file.

**Report.** `ReportInv`: the report given after a complete read lists each rule once.
`Performed` and `Skipped` are disjoint and cover the rules that are on, because a rule
that a gate or a missing input took back is in no family's list (`Rules`, `TakenBack`,
`FamiliesSkipped`); and a structural finding exists only if its family ran. That the
reader adds no structural finding is part of `ReadInv` (`Said`), and not for granted:
both kinds end up in one list.

### What stays with TLC

- Liveness (`SomebodyWins`, `Converges`, `LockReleased`, `ReaderEnds`): fairness
  and ENABLED are out of the prover's reach.
- `LossDeclared`: it counts, under both policies, what salvage steps remove against what they
  declared when the plan was made. The conservative half is `CopyDerives`.
- `HonestRepairVerifies`, `VerifiedIsRepaired`: they rest on the seven checks of
  `verify` and on idempotence, that is on the planner finding nothing in the copy.
  `VerifiedIsRepaired` is true for `MaxMeddles` of at most 1 only.
- `SameReport` relates two scans that chose different jobs and caches;
  `DanglingIsProved` speaks of the trees of the instance.
- `LevelIsDeserved`: it is true for records whose contents are of one sort, as the
  catalogs have them. A record of new type that holds results as well may leave
  `SL302` as the only sign of them, and no adapter excludes it.
- The outcome guard (`Outcome`): its scenarios have no assumption yet that would
  say what a contract is.

Induction over data is used only in the form that `FoldFacts` gives it: the numbers
up to which a fold has a property are a set that contains 0 and successors
(`NatSet`), and that set is never an operator parameter. The models write their loops
as folds for this; no module of a proof declares a RECURSIVE operator.

## 5. What is left

Still to model: the MCP loop (one response per request over a byte stream read in
pieces, `mcp_server.py:543`), the checks on checkpoint prefixes (SL206-SL208),
run-state checkpoints, and the step cap with its renumbering step
(`planner.py:930`). Theorems worth proving next: `LossDeclared` under salvage, with
a count of what each recipe takes; `VerifiedIsRepaired` for one change to the
files; `SameReport`, from a lemma that a merge of worker results
gives what the loop without workers gives; the verdicts of `Outcome`, under an
assumption on its scenarios.

### Seen while modelling

Facts that the models are faithful to and no run is spent on.

Publication, monitor, seals:

- A SIGKILL during `atomic_write_bytes` leaves its named staging file (`Kill` keeps
  `temps`), against "zero orphaned temporary files" (`README.md:202`).
- An edit of the source after the second hash is not noticed ("immediately abort",
  `README.md:204`), harmlessly: the copy is still what was planned.
- A file absent for one poll that comes back with the same signature before its
  check is never checked, although `watch.py:215-218` says it is re-evaluated.
- Cutting whole lines off the end of a ledger of seals goes unnoticed, although
  `docs/seal.md:7-9` and `seal.py:6-8` say otherwise. A torn ledger takes no more
  entries until it is rotated.

Repair and verification:

- A result delivered twice under two findings yields steps of two recipes for one
  record (SL104 and SL003): the executor refuses the second and with it the
  plan (`docs/codes/SL104.md` against `positions.py:66`). Orphan results that repeat each
  other are refused likewise.
- Dropping the torn projection of a compaction leaves its other half as an error
  (SL101 or SL102), so that revalidation refuses every such plan (`README.md:852`).
- Two dangling calls yield two truncations; the second is refused, and the losses
  of both are declared in the plan.
- `verify --acknowledge` of a repair planned without it fails where the
  acknowledgement adds steps; a plan supplied by the user has no such retry;
  `verify` never registers the SL002 recipes itself, judges vendor output without the
  adapter (see `HonestRepairVerifies`), and reads by path again what it has hashed.
- SL202 counts the first checkpoint of a number that diverges as the point of loss;
  a checkpoint without a number of its own takes the record's.
- Removing a projection conservatively may remove a record that the coverage of
  a boundary names.
- Where two different records share an id, two removals of projections may relink a
  child twice, so that its parent is no stand-in of the one it had. The invariant of
  the proof follows parents through any number of stand-ins for this reason.
- Where two reunions meet at one boundary, the first may leave another boundary in
  the second pair: the second step moves a boundary it was not planned for.

Reader, adapters, report:

- `docs/codes/SL001.md:33` counts the records after a damaged line; the Claude
  adapter counts events, of which a record may yield several.
- Placeholders for missing canonical ids are not kept apart from written ids.
- Unguarded reads of a file that grows may report SL001 for the unfinished last
  line, or take the rest of an oversize line for a record.
- An OpenAI item of unknown role and no type has an unknown kind and no finding;
  text beside tool results is dropped; a damaged canonical header hides the rest.
- Selection, ignores and the baseline apply before the level is computed: a
  hidden SL001 gives A3. SL303, SL304, SL401 and SL402 are in no coverage. SL001 of the
  encoding gate is shown while coverage lists it as skipped. `profile.py` speaks
  of rules that are "profile-gated", coverage calls them deselected. With SL203
  alone selected for Claude Code or Codex, the family "checkpoint" counts as performed.

Scan, batch, outcome:

- A rollout in a directory that cannot be listed, or any rollout if there are too many,
  is reported as missing from disk (SL402), against the docstring of
  `_walk_rollout_files` (see `DanglingIsProved`).
- A row stored under the hash taken before the check may say what was never true of
  the hashed bytes; it is replayed when these come back (`SinceHashed`).
- A baseline written by a scan does not silence SL401 and SL402 (`README.md:549`
  against `scan.py:1667`), nor findings about unreadable files. Two state databases
  report one entry twice. Keys of version 2 are shared by directories of equal
  parent and basename.
- An error of `mkdir` or `unlink` in `batch.py:308`, `:340` and `:357` ends the whole
  batch, although one file's failure is "never fatal" (`batch.py:235`). A
  cancellation inside `apply_plan` becomes a row "refused" (`batch.py:320`). If
  three flat names meet and two are links to one session, the third is refused.
- A visible completion that is late is violated although a keyless record of the
  target may be the one that was in time (`engine.py:786`); `ViolatedIsFalse`
  excepts it.

## 6. Not modelled, and why

- Rendering (preview of a write-back, reports, SARIF, HTML, bundle, diff, stats,
  triage, doctor, completion, the command line): wording and layout. Tables of refusals
  and error classes are texts.
- Canonicalisation and hashing are trusted to be injective; the canonical model is
  value types.
- `seq-renumber` changes ordinals that no modelled check reads, and
  `proven-unique-parent-restore` can never be planned, because SL004 is classified
  manual. `overwrite=True` of `atomic_write_bytes` is used by single writers only.
- The advisory checks (SL008-SL011, SL204, SL305) are one-pass warnings over
  single records; SL206-SL208 warn about prefixes. None of them plans or refuses a repair.
- The MCP server and the hooks are one-threaded loops over stdin; secret scanning
  is string matching.
- The parsing of plan files, of CSV and of version 1 baselines; the single-file
  flow of the command line around a batch.

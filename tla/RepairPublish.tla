---------------------------- MODULE RepairPublish ----------------------------
(***************************************************************************)
(* The executor of sesslint (repair/executor.py, execute) publishing the   *)
(* pair "repaired output + manifest" with atomic.py's atomic_write_bytes,  *)
(* run by several processes at once over one source file that somebody     *)
(* else is still appending to.                                             *)
(*                                                                         *)
(* A Run is one call of execute in a process of its own.  The recipes run  *)
(* in memory and are one step here (they are the subject of other          *)
(* modules); what is kept step by step is every read of the source, every  *)
(* check of a name and every change of the directory, with the places      *)
(* where an OSError, a KeyboardInterrupt, a SIGKILL or a power loss may    *)
(* come in between.                                                        *)
(***************************************************************************)
EXTENDS Naturals, FiniteSets

CONSTANTS
  Run,               \* calls of execute, one process each
  Target,            \* output paths a user may name, the source's own included
  SourcePath,        \* the path of the source ledger
  MaxVersion,        \* bound: the source is rewritten at most MaxVersion times
  EventsOf,          \* version of the source bytes -> the events they parse to
  ForeignNames,      \* names another program may create
  InterruptAt,       \* <<stage, pc>> where a KeyboardInterrupt may arrive
  Posix,             \* os.link + unlink (TRUE) or os.rename (FALSE)
  DirSyncWorks,      \* _sync_dir really reaches the disk (never on Windows)
  UnlinkMayFail,     \* an unlink may raise the OSError the code swallows
  PowerLossPossible, \* the machine, not only a process, may stop
  None, Foreign      \* no directory entry; an entry no run of ours made

Version == 0..MaxVersion
Stage == {"manifest", "output"}
Name == Stage \X Target
Writing == {"create", "assign", "link", "unlink", "sync", "return"}
Undoing == {"unwind", "undoManifest", "undoOutput"}
Ended == {"done", "reported", "failed", "dead"}
PC == {"new", "planned", "snapped", "checked", "applied", "post"}
        \cup Writing \cup Undoing \cup Ended

ASSUME PublishAssumption ==
  /\ MaxVersion \in Nat
  /\ EventsOf \in [Version -> Version]
  /\ SourcePath \in Target
  /\ ForeignNames \subseteq Name
  /\ InterruptAt \subseteq Stage \X PC
  /\ Posix \in BOOLEAN /\ DirSyncWorks \in BOOLEAN
  /\ UnlinkMayFail \in BOOLEAN /\ PowerLossPossible \in BOOLEAN
  /\ None # Foreign

\* The bytes a run writes are determined by the snapshot it read; "run" says
\* whose they are, and a manifest binds the output of its own run.
Entry == [run : Run, src : Version]

\* Nothing is promised over a power loss where _sync_dir does not work.
ASSUME SyncAssumption == PowerLossPossible => DirSyncWorks

ASSUME EntryAssumption == None \notin Entry /\ Foreign \notin Entry

ASSUME RunAssumption == None \notin Run

VARIABLES
  source,  \* the version of the source bytes
  dir,     \* what each name refers to
  disk,    \* what it would refer to after a power loss
  temps,   \* staging files that exist: <<run, stage>>
  pc, job, stage,
  held,    \* runs whose atomic_write_bytes has temp_path # None
  flags    \* manifest_linked and output_replaced, the stages a run has set

vars == <<source, dir, disk, temps, pc, job, stage, held, flags>>
files == <<dir, disk, temps>>
locals == <<job, stage, held, flags>>

Job == [target : Target, plan : Version, snap : Version, dry : BOOLEAN]

TypeOK ==
  /\ source \in Version
  /\ dir \in [Name -> Entry \cup {None, Foreign}]
  /\ disk \in [Name -> Entry \cup {None, Foreign}]
  /\ temps \subseteq Run \X Stage
  /\ pc \in [Run -> PC]
  /\ job \in [Run -> Job]
  /\ stage \in [Run -> Stage]
  /\ held \subseteq Run
  /\ flags \in [Run -> SUBSET Stage]

Init ==
  /\ source = 0
  /\ dir = [n \in Name |-> IF n = <<"output", SourcePath>> THEN Foreign ELSE None]
  /\ disk = dir
  /\ temps = {}
  /\ pc = [r \in Run |-> "new"]
  /\ job \in [Run -> [target : Target, plan : {0}, snap : {0}, dry : BOOLEAN]]
  /\ stage = [r \in Run |-> "manifest"]
  /\ held = {}
  /\ flags = [r \in Run |-> {}]

GoTo(r, from, to) == pc[r] = from /\ pc' = [pc EXCEPT ![r] = to]
Mine(r) == [run |-> r, src |-> job[r].snap]
NameOf(r) == <<stage[r], job[r].target>>
ManifestOf(r) == <<"manifest", job[r].target>>
OutputOf(r) == <<"output", job[r].target>>

-----------------------------------------------------------------------------
(* Steps 1 to 5 of execute: nothing is written yet.                        *)

\* The caller plans over the source as it is now; execute comes later.
MakePlan(r) ==
  /\ GoTo(r, "new", "planned")
  /\ job' = [job EXCEPT ![r].plan = source]
  /\ UNCHANGED <<source, files, stage, held, flags>>

\* Mutant: the plan's source hash is not compared.
SnapshotUncompared(r) ==
  /\ GoTo(r, "planned", "snapped")
  /\ job' = [job EXCEPT ![r].snap = source]
  /\ UNCHANGED <<source, files, stage, held, flags>>

\* Mutant: the job records something that is no version of the source.
SnapshotNext(r) ==
  /\ EventsOf[job[r].plan] = EventsOf[source]
  /\ GoTo(r, "planned", "snapped")
  /\ job' = [job EXCEPT ![r].snap = source + 1]
  /\ UNCHANGED <<source, files, stage, held, flags>>

\* The single read every later step works from (B19), then the comparison of
\* plan.source_hash with the hash of the bytes and with that of the events.
Snapshot(r) ==
  /\ EventsOf[job[r].plan] = EventsOf[source]
  /\ GoTo(r, "planned", "snapped")
  /\ job' = [job EXCEPT ![r].snap = source]
  /\ UNCHANGED <<source, files, stage, held, flags>>

SnapshotMismatch(r) ==
  /\ EventsOf[job[r].plan] # EventsOf[source]
  /\ GoTo(r, "planned", "failed")
  /\ UNCHANGED <<source, files, locals>>

DestinationFree(r) ==
  /\ job[r].target # SourcePath
  /\ dir[OutputOf(r)] = None
  /\ dir[ManifestOf(r)] = None

Preflight(r) ==
  /\ job[r].dry \/ DestinationFree(r)
  /\ GoTo(r, "snapped", "checked")
  /\ UNCHANGED <<source, files, locals>>

PreflightRefused(r) ==
  /\ ~ job[r].dry /\ ~ DestinationFree(r)
  /\ GoTo(r, "snapped", "failed")
  /\ UNCHANGED <<source, files, locals>>

\* Recipes, revalidation and the manifest, all in memory; a dry run stops.
Apply(r) ==
  /\ GoTo(r, "checked", IF job[r].dry THEN "reported" ELSE "applied")
  /\ UNCHANGED <<source, files, locals>>

\* Abstention, vetting, a failed validation, a cancelled token: an error
\* raised before the first write leaves nothing behind.
Refuse(r) ==
  /\ pc[r] \in {"planned", "snapped", "checked", "applied"}
  /\ pc' = [pc EXCEPT ![r] = "failed"]
  /\ UNCHANGED <<source, files, locals>>

\* The second hash of the source, taken just before the publication.
PostHash(r) ==
  /\ source = job[r].snap
  /\ GoTo(r, "applied", "create")
  /\ UNCHANGED <<source, files, locals>>

PostHashDiffers(r) ==
  /\ source # job[r].snap
  /\ GoTo(r, "applied", "failed")
  /\ UNCHANGED <<source, files, locals>>

-----------------------------------------------------------------------------
(* atomic_write_bytes, called for the manifest and then for the output.    *)

\* NamedTemporaryFile(delete=False): the file exists before temp_path names it.
CreateTemp(r) ==
  /\ GoTo(r, "create", "assign")
  /\ temps' = temps \cup {<<r, stage[r]>>}
  /\ UNCHANGED <<source, dir, disk, locals>>

WriteTemp(r) ==
  /\ GoTo(r, "assign", "link")
  /\ held' = held \cup {r}
  /\ UNCHANGED <<source, files, job, stage, flags>>

\* Mutant: os.replace, which takes the place of an existing entry.
PublishReplacing(r) ==
  /\ GoTo(r, "link", "unlink")
  /\ dir' = [dir EXCEPT ![NameOf(r)] = Mine(r)]
  /\ temps' = IF Posix THEN temps ELSE temps \ {<<r, stage[r]>>}
  /\ UNCHANGED <<source, disk, locals>>

\* os.link or os.rename, refusing an existing name.
PublishExclusive(r) ==
  /\ dir[NameOf(r)] = None
  /\ GoTo(r, "link", "unlink")
  /\ dir' = [dir EXCEPT ![NameOf(r)] = Mine(r)]
  /\ temps' = IF Posix THEN temps ELSE temps \ {<<r, stage[r]>>}
  /\ UNCHANGED <<source, disk, locals>>

PublishExists(r) ==
  /\ dir[NameOf(r)] # None
  /\ GoTo(r, "link", "unwind")
  /\ UNCHANGED <<source, files, locals>>

\* temp_path.unlink(), its OSError swallowed; then temp_path = None.
UnlinkTemp(r) ==
  /\ GoTo(r, "unlink", "sync")
  /\ \/ temps' = temps \ {<<r, stage[r]>>}
     \/ UnlinkMayFail /\ UNCHANGED temps
  /\ held' = held \ {r}
  /\ UNCHANGED <<source, dir, disk, job, stage, flags>>

\* Mutant: the directory is not fsynced.
SyncDirSkipped(r) ==
  /\ GoTo(r, "sync", "return")
  /\ UNCHANGED <<source, files, locals>>

SyncDir(r) ==
  /\ GoTo(r, "sync", "return")
  /\ disk' = IF DirSyncWorks THEN dir ELSE disk
  /\ UNCHANGED <<source, dir, temps, locals>>

\* Mutant: after the manifest the manifest is written again.
ReturnSameStage(r) ==
  /\ GoTo(r, "return", IF stage[r] = "manifest" THEN "create" ELSE "post")
  /\ flags' = [flags EXCEPT ![r] = @ \cup {stage[r]}]
  /\ UNCHANGED <<source, files, job, stage, held>>

\* Back in execute: manifest_linked = True and on to the output, or
\* output_replaced = True and on to the end.
Return(r) ==
  /\ GoTo(r, "return", IF stage[r] = "manifest" THEN "create" ELSE "post")
  /\ flags' = [flags EXCEPT ![r] = @ \cup {stage[r]}]
  /\ stage' = [stage EXCEPT ![r] = "output"]
  /\ UNCHANGED <<source, files, job, held>>

ReturnManifest(r) ==
  /\ GoTo(r, "post", "done")
  /\ UNCHANGED <<source, files, locals>>

\* Disk full, no permission, a missing directory, cross-device: before the
\* publication any call of atomic_write_bytes may raise an OSError.
OsError(r) ==
  /\ pc[r] \in {"create", "assign", "link"}
  /\ pc' = [pc EXCEPT ![r] = "unwind"]
  /\ held' = IF pc[r] = "assign" THEN held \cup {r} ELSE held
  /\ UNCHANGED <<source, files, job, stage, flags>>

-----------------------------------------------------------------------------
(* The except BaseException clauses, inner one first.                      *)

Unwind(r) ==
  /\ GoTo(r, "unwind", "undoManifest")
  /\ \/ temps' = IF r \in held THEN temps \ {<<r, stage[r]>>} ELSE temps
     \/ UnlinkMayFail /\ UNCHANGED temps
  /\ held' = held \ {r}
  /\ UNCHANGED <<source, dir, disk, job, stage, flags>>

\* A name is unlinked if it exists: the code does not look at whose it is.
Remove(n) ==
  \/ dir' = [dir EXCEPT ![n] = None]
  \/ UnlinkMayFail /\ dir' = dir

\* Mutants: no rollback; a rollback that forgets manifest_linked; one that
\* forgets output_replaced.
UndoManifestNever(r) ==
  /\ GoTo(r, "undoManifest", "undoOutput")
  /\ UNCHANGED <<source, files, locals>>

UndoManifestUnlinked(r) ==
  /\ GoTo(r, "undoManifest", "undoOutput")
  /\ IF "output" \notin flags[r] /\ dir[ManifestOf(r)] # None
       THEN Remove(ManifestOf(r))
       ELSE dir' = dir
  /\ UNCHANGED <<source, disk, temps, locals>>

UndoManifestReplaced(r) ==
  /\ GoTo(r, "undoManifest", "undoOutput")
  /\ IF "manifest" \in flags[r] /\ dir[ManifestOf(r)] # None
       THEN Remove(ManifestOf(r))
       ELSE dir' = dir
  /\ UNCHANGED <<source, disk, temps, locals>>

UndoManifest(r) ==
  /\ GoTo(r, "undoManifest", "undoOutput")
  /\ IF flags[r] = {"manifest"} /\ dir[ManifestOf(r)] # None
       THEN Remove(ManifestOf(r))
       ELSE dir' = dir
  /\ UNCHANGED <<source, disk, temps, locals>>

UndoOutput(r) ==
  /\ GoTo(r, "undoOutput", "failed")
  /\ IF "output" \in flags[r] /\ dir[OutputOf(r)] # None /\ dir[ManifestOf(r)] = None
       THEN Remove(OutputOf(r))
       ELSE dir' = dir
  /\ UNCHANGED <<source, disk, temps, locals>>

\* KeyboardInterrupt is no Exception: it unwinds through the same clauses, and
\* inside a clause it skips the rest of it.
Interrupt(r) ==
  /\ pc[r] \notin Ended \cup {"new"}
  /\ <<stage[r], pc[r]>> \in InterruptAt
  /\ pc' = [pc EXCEPT ![r] = IF @ \in Writing THEN "unwind"
                             ELSE IF @ \in {"unwind", "post"} THEN "undoManifest"
                             ELSE "failed"]
  /\ UNCHANGED <<source, files, locals>>

-----------------------------------------------------------------------------
(* What happens around the runs.                                           *)

Kill(r) ==
  /\ pc[r] \notin Ended \cup {"new"}
  /\ pc' = [pc EXCEPT ![r] = "dead"]
  /\ UNCHANGED <<source, files, locals>>

\* Every name is afterwards what it was or what the disk last held of it.
PowerLoss ==
  /\ PowerLossPossible
  /\ \E r \in Run : pc[r] \notin Ended
  /\ \E lost \in SUBSET {n \in Name : dir[n] # disk[n]} :
       dir' = [n \in Name |-> IF n \in lost THEN disk[n] ELSE dir[n]]
  /\ disk' = dir'
  /\ pc' = [r \in Run |-> IF pc[r] \in Ended THEN pc[r] ELSE "dead"]
  /\ UNCHANGED <<source, temps, locals>>

\* The operating system may write a directory entry back at any time.
WriteBack(n) ==
  /\ PowerLossPossible
  /\ disk[n] # dir[n]
  /\ disk' = [disk EXCEPT ![n] = dir[n]]
  /\ UNCHANGED <<source, dir, temps, pc, locals>>

EditSource ==
  /\ source < MaxVersion
  /\ source' = source + 1
  /\ UNCHANGED <<files, pc, locals>>

CreateForeign(n) ==
  /\ n \in ForeignNames /\ dir[n] = None
  /\ dir' = [dir EXCEPT ![n] = Foreign]
  /\ UNCHANGED <<source, disk, temps, pc, locals>>

-----------------------------------------------------------------------------
Execute(r) ==
  \/ MakePlan(r) \/ Snapshot(r) \/ SnapshotMismatch(r) \/ Preflight(r)
  \/ PreflightRefused(r) \/ Apply(r) \/ PostHash(r) \/ PostHashDiffers(r)
  \/ CreateTemp(r) \/ WriteTemp(r) \/ PublishExclusive(r) \/ PublishExists(r)
  \/ UnlinkTemp(r) \/ SyncDir(r) \/ Return(r) \/ ReturnManifest(r)
  \/ Unwind(r) \/ UndoManifest(r) \/ UndoOutput(r)

Fault(r) == Refuse(r) \/ OsError(r) \/ Interrupt(r) \/ Kill(r)

Environment ==
  \/ PowerLoss
  \/ EditSource
  \/ \E n \in Name : WriteBack(n) \/ CreateForeign(n)

Next == Environment \/ \E r \in Run : Execute(r) \/ Fault(r)

Spec == Init /\ [][Next]_vars

\* The processes when nothing fails: only the source may still change.
CalmNext == EditSource \/ \E r \in Run : Execute(r)

-----------------------------------------------------------------------------
(* Properties.                                                             *)

\* The points where an interrupt finds a name published and its flag unset, or
\* a file created and temp_path unset, or the cleanup itself under way.
InterruptWindows ==
  Stage \X ({"assign", "unlink", "sync", "return"} \cup Undoing)

\* The part of them between the link of the output and output_replaced = True.
OutputWindow == {"output"} \X {"unlink", "sync", "return"}

\* An output that a repair published never stands without the manifest of the
\* same repair beside it: the manifest is linked first and removed last
\* (executor.py publishes it before the output and undoes it only when the
\* output was not replaced), whatever else races, fails or is killed.
ReceiptBeforeOutput ==
  \A t \in Target :
    dir[<<"output", t>>] \in Entry =>
      dir[<<"manifest", t>>] = dir[<<"output", t>>]

\* A repair that returned its manifest to the caller keeps both its files, for
\* ever: no rival's cleanup, no later run and no power loss takes one away.
CommittedPairStays ==
  \A r \in Run : pc[r] = "done" =>
    \A n \in {ManifestOf(r), OutputOf(r)} :
      dir[n] = Mine(r) /\ (DirSyncWorks => disk[n] = Mine(r))

\* "Atomic repair invariant: never leave output or manifest orphaned"
\* (executor.py): a run that ends, and was not killed, leaves both its files or
\* neither, whatever error or interrupt ended it.
NeverOrphaned ==
  \A r \in Run : pc[r] \in {"failed", "done"} =>
    (dir[ManifestOf(r)] = Mine(r) <=> dir[OutputOf(r)] = Mine(r))

\* The same outside the windows, and with no staging file left ("temporary file
\* is immediately unlinked if write or rename fails", atomic.py).
FailureCleansUp ==
  /\ NeverOrphaned
  /\ \A r \in Run, s \in Stage : pc[r] \in {"failed", "done"} => <<r, s>> \notin temps

\* No run ever replaces an existing name, or removes one that it did not make
\* itself, although its cleanup unlinks by name: the source, the files of
\* other programs and the pair of a rival over the same path are safe.
OnlyOwnEntriesChange ==
  [][\A r \in Run : Execute(r) =>
       \A n \in Name : dir'[n] # dir[n] =>
         \/ dir[n] = None /\ dir'[n] = Mine(r)
         \/ dir[n] = Mine(r) /\ dir'[n] = None]_vars

\* The published bytes come from the events the plan was made over, even when
\* somebody rewrites the source between planning, hashing and publishing.
PublishedIsPlanned ==
  \A n \in Name : dir[n] \in Entry =>
    EventsOf[dir[n].src] = EventsOf[job[dir[n].run].plan]

\* Runs racing for one path cannot all lose: once one of them starts to
\* publish, some run over that path returns a manifest.
SomeRunWins ==
  \A t \in Target :
    (\E r \in Run : job[r].target = t /\ pc[r] = "create")
      ~> (\E r \in Run : job[r].target = t /\ pc[r] = "done")

\* What the pair is to its readers (ReceiptLedger): a path is claimed by one
\* run, published by the run that claimed it, and never given to another one.
EntryRun(e) == IF e \in Entry THEN e.run ELSE None
Ledger == INSTANCE ReceiptLedger WITH
  claim <- [t \in Target |-> EntryRun(dir[<<"manifest", t>>])],
  published <- [t \in Target |-> EntryRun(dir[<<"output", t>>])]
RefinesLedger == Ledger!Spec
=============================================================================

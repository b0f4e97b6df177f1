------------------------- MODULE RepairPublishProofs -------------------------
(***************************************************************************)
(* What RepairPublish guarantees for every set of runs and paths, every    *)
(* interleaving, and every interrupt, kill and power loss.                 *)
(***************************************************************************)
EXTENDS RepairPublish, TLAPS

Early == {"new", "planned", "snapped", "checked", "applied"}

\* What each point of the program knows of the flags it has set.
FlagsOf(r) ==
  /\ pc[r] \in Early => flags[r] = {}
  /\ stage[r] = "output" <=> "manifest" \in flags[r]
  /\ "output" \in flags[r] => "manifest" \in flags[r]
  /\ stage[r] = "output" /\ pc[r] \in Writing => flags[r] = {"manifest"}
  /\ pc[r] \in {"post", "done"} => "output" \in flags[r]

FlagsInv == \A r \in Run : FlagsOf(r)

\* From the publication of its manifest to the rollback, if there is one, the
\* manifest at its path is the run's own.
Holds(r) ==
  /\ stage[r] = "output"
  /\ \/ pc[r] \in Writing \cup {"unwind", "undoManifest"}
     \/ "output" \in flags[r]

Present(r, n) == dir[n] = Mine(r)
Durable(r, n) == DirSyncWorks => disk[n] = Mine(r)

RunInv(r) ==
  /\ pc[r] \in {"unlink", "sync", "return"} => Present(r, NameOf(r))
  /\ pc[r] = "return" => Durable(r, NameOf(r))
  /\ Holds(r) => Present(r, ManifestOf(r)) /\ Durable(r, ManifestOf(r))
  /\ "output" \in flags[r] => Present(r, OutputOf(r)) /\ Durable(r, OutputOf(r))

PairInv == \A r \in Run : RunInv(r)

-----------------------------------------------------------------------------
LEMMA MineType == ASSUME TypeOK, NEW r \in Run PROVE Mine(r) \in Entry
  BY DEF TypeOK, Mine, Entry, Job

LEMMA MineDiffers ==
  ASSUME NEW r \in Run, NEW q \in Run, Mine(r) = Mine(q) PROVE r = q
<1>1. Mine(r).run = r /\ Mine(q).run = q
  BY DEF Mine
<1> QED BY <1>1

LEMMA GoToType ==
  ASSUME TypeOK, NEW r \in Run, NEW from, NEW to \in PC, GoTo(r, from, to)
  PROVE  pc' \in [Run -> PC]
  BY DEF TypeOK, GoTo

LEMMA NamesType ==
  ASSUME TypeOK, NEW r \in Run
  PROVE  NameOf(r) \in Name /\ ManifestOf(r) \in Name /\ OutputOf(r) \in Name
  BY DEF TypeOK, NameOf, ManifestOf, OutputOf, Name, Stage, Job

\* Type correctness: every step of execute, of the rollback and of the world
\* around it keeps the variables in their types.
THEOREM TypeCorrect == Spec => []TypeOK
<1> USE PublishAssumption DEF Version, files, locals
<1>1. Init => TypeOK
  BY DEF Init, TypeOK, Name, Stage, Job, PC
<1>2. TypeOK /\ [Next]_vars => TypeOK'
  <2> SUFFICES ASSUME TypeOK, [Next]_vars PROVE TypeOK'
    OBVIOUS
  <2> USE DEF TypeOK
  <2>1. CASE UNCHANGED vars
    BY <2>1 DEF vars
  <2>2. CASE Environment
    <3>1. CASE PowerLoss
      BY <3>1 DEF PowerLoss, PC, Ended
    <3>2. CASE EditSource
      BY <3>2 DEF EditSource
    <3>3. ASSUME NEW n \in Name, WriteBack(n) PROVE TypeOK'
      BY <3>3 DEF WriteBack
    <3>4. ASSUME NEW n \in Name, CreateForeign(n) PROVE TypeOK'
      BY <3>4 DEF CreateForeign
    <3> QED BY <2>2, <3>1, <3>2, <3>3, <3>4 DEF Environment
  <2>3. ASSUME NEW r \in Run, Fault(r) PROVE TypeOK'
    <3>1. CASE Refuse(r)
      BY <3>1 DEF Refuse, PC, Ended
    <3>2. CASE OsError(r)
      BY <3>2 DEF OsError, PC, Undoing
    <3>3. CASE Interrupt(r)
      <4>1. pc' \in [Run -> PC]
        BY <3>3 DEF Interrupt, PC, Undoing, Ended
      <4> QED BY <3>3, <4>1 DEF Interrupt
    <3>4. CASE Kill(r)
      BY <3>4 DEF Kill, PC, Ended
    <3> QED BY <2>3, <3>1, <3>2, <3>3, <3>4 DEF Fault
  <2>4. ASSUME NEW r \in Run, Execute(r) PROVE TypeOK'
    <3>1. /\ \A from : \A to \in PC : GoTo(r, from, to) => pc' \in [Run -> PC]
          /\ NameOf(r) \in Name /\ ManifestOf(r) \in Name /\ OutputOf(r) \in Name
          /\ Mine(r) \in Entry
          /\ stage[r] \in Stage
      BY GoToType, NamesType, MineType
    <3>2. {"planned", "snapped", "checked", "applied", "post", "failed", "done", "reported",
           "create", "assign", "link", "unlink", "sync", "return",
           "unwind", "undoManifest", "undoOutput"} \subseteq PC
      BY DEF PC, Ended, Writing, Undoing
    <3>3. CASE MakePlan(r)
      <4>1. job' \in [Run -> Job]
        BY <3>3 DEF MakePlan, Job
      <4> QED BY <3>1, <3>2, <3>3, <4>1 DEF MakePlan
    <3>4. CASE Snapshot(r)
      <4>1. job' \in [Run -> Job]
        BY <3>4 DEF Snapshot, Job
      <4> QED BY <3>1, <3>2, <3>4, <4>1 DEF Snapshot
    <3>5. CASE SnapshotMismatch(r) \/ Preflight(r) \/ PreflightRefused(r)
      BY <3>1, <3>2, <3>5 DEF SnapshotMismatch, Preflight, PreflightRefused
    <3>6. CASE Apply(r)
      BY <3>1, <3>2, <3>6 DEF Apply
    <3>7. CASE PostHash(r) \/ PostHashDiffers(r) \/ PublishExists(r) \/ ReturnManifest(r)
      BY <3>1, <3>2, <3>7 DEF PostHash, PostHashDiffers, PublishExists, ReturnManifest
    <3>8. CASE CreateTemp(r) \/ WriteTemp(r)
      BY <3>1, <3>2, <3>8 DEF CreateTemp, WriteTemp
    <3>9. CASE UnlinkTemp(r)
      BY <3>1, <3>2, <3>9 DEF UnlinkTemp
    <3>10. CASE Unwind(r)
      BY <3>1, <3>2, <3>10 DEF Unwind
    <3>11. CASE PublishExclusive(r)
      BY <3>1, <3>2, <3>11 DEF PublishExclusive
    <3>12. CASE SyncDir(r)
      BY <3>1, <3>2, <3>12 DEF SyncDir
    <3>13. CASE Return(r)
      BY <3>1, <3>2, <3>13 DEF Return, Stage
    <3>14. CASE UndoManifest(r)
      BY <3>1, <3>2, <3>14 DEF UndoManifest, Remove
    <3>15. CASE UndoOutput(r)
      BY <3>1, <3>2, <3>15 DEF UndoOutput, Remove
    <3> QED BY <2>4, <3>3, <3>4, <3>5, <3>6, <3>7, <3>8, <3>9, <3>10, <3>11,
               <3>12, <3>13, <3>14, <3>15 DEF Execute
  <2> QED BY <2>1, <2>2, <2>3, <2>4 DEF Next
<1> QED BY <1>1, <1>2, PTL DEF Spec

-----------------------------------------------------------------------------
(* A step of a run, and what it can do to another run.                     *)

Others(r) ==
  \A q \in Run \ {r} :
    /\ pc'[q] = pc[q] /\ stage'[q] = stage[q]
    /\ flags'[q] = flags[q] /\ job'[q] = job[q]

LEMMA OthersKept ==
  ASSUME TypeOK, NEW r \in Run, Execute(r) \/ Fault(r) PROVE Others(r)
<1> USE DEF TypeOK, Others, files, locals, GoTo
<1>1. CASE Fault(r)
  BY <1>1 DEF Fault, Refuse, OsError, Interrupt, Kill
<1>2. CASE MakePlan(r) \/ Snapshot(r) \/ SnapshotMismatch(r) \/ Preflight(r)
           \/ PreflightRefused(r) \/ Apply(r) \/ PostHash(r) \/ PostHashDiffers(r)
  BY <1>2 DEF MakePlan, Snapshot, SnapshotMismatch, Preflight, PreflightRefused,
              Apply, PostHash, PostHashDiffers
<1>3. CASE CreateTemp(r) \/ WriteTemp(r) \/ PublishExclusive(r) \/ PublishExists(r)
           \/ UnlinkTemp(r) \/ SyncDir(r)
  BY <1>3 DEF CreateTemp, WriteTemp, PublishExclusive, PublishExists, UnlinkTemp, SyncDir
<1>4. CASE Return(r) \/ ReturnManifest(r) \/ Unwind(r) \/ UndoManifest(r) \/ UndoOutput(r)
  BY <1>4 DEF Return, ReturnManifest, Unwind, UndoManifest, UndoOutput
<1> QED BY <1>1, <1>2, <1>3, <1>4 DEF Execute

LEMMA FlagsCorrect ==
  ASSUME TypeOK, FlagsInv, [Next]_vars PROVE FlagsInv'
<1> USE DEF TypeOK, FlagsOf, Early, Writing, files, locals
<1>1. CASE UNCHANGED vars
  BY <1>1 DEF FlagsInv, vars
<1>2. CASE Environment
  BY <1>2 DEF FlagsInv, Environment, PowerLoss, EditSource, WriteBack, CreateForeign, Ended
<1>3. ASSUME NEW r \in Run, Execute(r) \/ Fault(r) PROVE FlagsInv'
  <2>1. ASSUME NEW q \in Run, q # r PROVE FlagsOf(q)'
    BY <1>3, <2>1, OthersKept DEF Others, FlagsInv
  <2>2. FlagsOf(r)'
    <3>1. FlagsOf(r)
      BY DEF FlagsInv
    <3>2. CASE Fault(r)
      <4>1. CASE Refuse(r) \/ OsError(r) \/ Kill(r)
        BY <3>1, <4>1 DEF Refuse, OsError, Kill
      <4>2. CASE Interrupt(r)
        BY <3>1, <4>2 DEF Interrupt
      <4> QED BY <3>2, <4>1, <4>2 DEF Fault
    <3> USE DEF GoTo
    <3>3. CASE MakePlan(r) \/ Snapshot(r) \/ SnapshotMismatch(r) \/ Preflight(r)
               \/ PreflightRefused(r) \/ Apply(r) \/ PostHash(r) \/ PostHashDiffers(r)
      BY <3>1, <3>3 DEF MakePlan, Snapshot, SnapshotMismatch, Preflight, PreflightRefused,
              Apply, PostHash, PostHashDiffers, Stage
    <3>4. CASE CreateTemp(r) \/ WriteTemp(r) \/ PublishExclusive(r) \/ PublishExists(r)
               \/ UnlinkTemp(r) \/ SyncDir(r)
      BY <3>1, <3>4 DEF CreateTemp, WriteTemp, PublishExclusive, PublishExists, UnlinkTemp, SyncDir
    <3>5. CASE Return(r)
      BY <3>1, <3>5 DEF Return, Stage
    <3>6. CASE ReturnManifest(r) \/ Unwind(r) \/ UndoManifest(r) \/ UndoOutput(r)
      BY <3>1, <3>6 DEF ReturnManifest, Unwind, UndoManifest, UndoOutput
    <3> QED BY <1>3, <3>2, <3>3, <3>4, <3>5, <3>6 DEF Execute
  <2> QED BY <2>1, <2>2 DEF FlagsInv
<1> QED BY <1>1, <1>2, <1>3 DEF Next

-----------------------------------------------------------------------------
(* The directory: a run changes only what is nobody's or its own.          *)

OwnChange(r) ==
  \A n \in Name : dir'[n] # dir[n] =>
    \/ dir[n] = None /\ dir'[n] = Mine(r)
    \/ dir[n] = Mine(r) /\ dir'[n] = None

\* When the rollback of the manifest runs, the manifest is the run's own: its
\* flag was set, so it holds the path.  The rollback of the output never runs:
\* an output that was replaced still has its manifest.
LEMMA OwnStep ==
  ASSUME TypeOK, FlagsInv, PairInv, NEW r \in Run, Execute(r) PROVE OwnChange(r)
<1> USE DEF OwnChange, files
<1>1. FlagsOf(r) /\ RunInv(r)
  BY DEF FlagsInv, PairInv
<1>2. Mine(r) # None
  BY MineType, EntryAssumption
<1>3. CASE PublishExclusive(r)
  BY <1>3 DEF PublishExclusive, TypeOK
<1>4. CASE UndoManifest(r)
  <2>1. flags[r] = {"manifest"} => dir[ManifestOf(r)] = Mine(r)
    BY <1>1, <1>4 DEF FlagsOf, RunInv, UndoManifest, GoTo, Holds, Present
  <2> QED BY <1>4, <2>1 DEF UndoManifest, Remove, TypeOK
<1>5. CASE UndoOutput(r)
  <2>1. "output" \in flags[r] => dir[ManifestOf(r)] = Mine(r)
    BY <1>1, <1>5 DEF FlagsOf, RunInv, Holds, Present
  <2> QED BY <1>2, <1>5, <2>1 DEF UndoOutput
<1>6. CASE UNCHANGED dir
  BY <1>6
<1>7. PublishExclusive(r) \/ UndoManifest(r) \/ UndoOutput(r) \/ UNCHANGED dir
  BY DEF Execute, MakePlan, Snapshot, SnapshotMismatch, Preflight, PreflightRefused,
         Apply, PostHash, PostHashDiffers, CreateTemp, WriteTemp, PublishExists,
         UnlinkTemp, SyncDir, Return, ReturnManifest, Unwind
<1> QED BY <1>3, <1>4, <1>5, <1>6, <1>7

LEMMA DiskStep ==
  ASSUME NEW r \in Run, Execute(r)
  PROVE  disk' = disk \/ (DirSyncWorks /\ disk' = dir /\ dir' = dir)
<1> USE DEF files
<1>1. CASE SyncDir(r)
  BY <1>1 DEF SyncDir
<1> QED BY <1>1 DEF Execute, MakePlan, Snapshot, SnapshotMismatch, Preflight, PreflightRefused,
         Apply, PostHash, PostHashDiffers, CreateTemp, WriteTemp, PublishExists, PublishExclusive,
         UnlinkTemp, Return, ReturnManifest, Unwind, UndoManifest, UndoOutput

\* What a run relies on stays when the step keeps the run's own state, its own
\* entries, and on the disk those of them that the directory has as well.
LEMMA Framed ==
  ASSUME TypeOK, NEW q \in Run, RunInv(q),
         pc'[q] = pc[q], stage'[q] = stage[q], flags'[q] = flags[q], job'[q] = job[q],
         \A n \in Name : dir[n] = Mine(q) => dir'[n] = Mine(q),
         \A n \in Name : dir[n] = Mine(q) /\ disk[n] = Mine(q) => disk'[n] = Mine(q)
  PROVE  RunInv(q)'
<1>1. Mine(q)' = Mine(q) /\ NameOf(q)' = NameOf(q)
      /\ ManifestOf(q)' = ManifestOf(q) /\ OutputOf(q)' = OutputOf(q)
  BY DEF Mine, NameOf, ManifestOf, OutputOf
<1>2. NameOf(q) \in Name /\ ManifestOf(q) \in Name /\ OutputOf(q) \in Name
  BY NamesType
<1> QED BY <1>1, <1>2 DEF RunInv, Holds, Present, Durable

LEMMA PairOfOthers ==
  ASSUME TypeOK, FlagsInv, PairInv, NEW r \in Run, Execute(r), NEW q \in Run, q # r
  PROVE  RunInv(q)'
<1>1. RunInv(q) /\ OwnChange(r) /\ Mine(q) # Mine(r) /\ Mine(q) # None
  BY OwnStep, MineDiffers, MineType, EntryAssumption DEF PairInv
<1>2. \A n \in Name : dir[n] = Mine(q) => dir'[n] = Mine(q)
  BY <1>1 DEF OwnChange
<1>3. \A n \in Name : dir[n] = Mine(q) /\ disk[n] = Mine(q) => disk'[n] = Mine(q)
  BY DiskStep
<1>4. /\ pc'[q] = pc[q] /\ stage'[q] = stage[q]
      /\ flags'[q] = flags[q] /\ job'[q] = job[q]
  BY OthersKept DEF Others
<1> QED BY <1>1, <1>2, <1>3, <1>4, Framed

LEMMA PairOfRun ==
  ASSUME TypeOK, FlagsInv, FlagsInv', PairInv, NEW r \in Run, Execute(r)
  PROVE  RunInv(r)'
<1> USE DEF files, locals, GoTo
<1>1. FlagsOf(r) /\ FlagsOf(r)' /\ RunInv(r)
  BY DEF FlagsInv, PairInv
<1>2. NameOf(r) \in Name /\ ManifestOf(r) \in Name /\ OutputOf(r) \in Name
  BY NamesType
<1>3. CASE MakePlan(r) \/ Snapshot(r) \/ SnapshotMismatch(r) \/ Preflight(r)
           \/ PreflightRefused(r) \/ Apply(r) \/ PostHash(r) \/ PostHashDiffers(r)
  <2>1. pc[r] \in Early /\ flags'[r] = flags[r] /\ stage'[r] = stage[r]
        /\ pc'[r] \notin {"unlink", "sync", "return"}
    BY <1>3 DEF MakePlan, Snapshot, SnapshotMismatch, Preflight, PreflightRefused,
                Apply, PostHash, PostHashDiffers, Early, TypeOK
  <2>2. flags'[r] = {} /\ stage'[r] # "output"
    BY <1>1, <2>1 DEF FlagsOf
  <2> QED BY <2>1, <2>2 DEF RunInv, Holds
<1>4. ASSUME job' = job, stage' = stage
      PROVE  /\ Mine(r)' = Mine(r) /\ NameOf(r)' = NameOf(r)
             /\ ManifestOf(r)' = ManifestOf(r) /\ OutputOf(r)' = OutputOf(r)
  BY <1>4 DEF Mine, NameOf, ManifestOf, OutputOf
<1>5. CASE CreateTemp(r) \/ WriteTemp(r) \/ PublishExists(r) \/ UnlinkTemp(r)
           \/ ReturnManifest(r) \/ Unwind(r)
  <2>1. /\ job' = job /\ stage' = stage /\ flags' = flags /\ dir' = dir /\ disk' = disk
        /\ pc[r] # "return" /\ pc'[r] \notin {"unlink", "return"}
        /\ pc'[r] = "sync" => pc[r] = "unlink"
        /\ Holds(r)' => Holds(r)
    BY <1>1, <1>5 DEF CreateTemp, WriteTemp, PublishExists, UnlinkTemp, ReturnManifest, Unwind,
                      TypeOK, Holds, Writing, FlagsOf
  <2> QED BY <1>1, <1>4, <2>1 DEF RunInv, Present, Durable
<1>6. CASE PublishExclusive(r)
  <2>1. /\ job' = job /\ stage' = stage /\ flags' = flags /\ disk' = disk
        /\ dir[NameOf(r)] = None /\ dir' = [dir EXCEPT ![NameOf(r)] = Mine(r)]
        /\ pc[r] = "link" /\ pc'[r] = "unlink"
    BY <1>6 DEF PublishExclusive, TypeOK
  <2>2. Holds(r)' => Holds(r)
    BY <2>1 DEF Holds, Writing
  <2>3. "output" \notin flags'[r]
    BY <1>1, <2>1 DEF FlagsOf, Writing, TypeOK, Stage
  <2>4. dir'[NameOf(r)] = Mine(r)
        /\ (dir[ManifestOf(r)] = Mine(r) => dir'[ManifestOf(r)] = Mine(r))
    BY <1>2, <2>1 DEF TypeOK
  <2> QED BY <1>1, <1>4, <2>1, <2>2, <2>3, <2>4 DEF RunInv, Present, Durable
<1>7. CASE SyncDir(r)
  <2>1. /\ job' = job /\ stage' = stage /\ flags' = flags /\ dir' = dir
        /\ disk' = IF DirSyncWorks THEN dir ELSE disk
        /\ pc[r] = "sync" /\ pc'[r] = "return"
    BY <1>7 DEF SyncDir, TypeOK
  <2>2. Holds(r)' => Holds(r)
    BY <2>1 DEF Holds, Writing
  <2> QED BY <1>1, <1>4, <2>1, <2>2 DEF RunInv, Present, Durable
<1>8. CASE Return(r)
  <2>1. /\ job' = job /\ dir' = dir /\ disk' = disk
        /\ pc[r] = "return" /\ pc'[r] \in {"create", "post"}
        /\ flags'[r] = flags[r] \cup {stage[r]} /\ stage[r] \in Stage
        /\ stage'[r] = "output"
    BY <1>8 DEF Return, TypeOK
  <2>2. Present(r, NameOf(r)) /\ Durable(r, NameOf(r))
    BY <1>1, <2>1 DEF RunInv
  <2>3. Mine(r)' = Mine(r) /\ ManifestOf(r)' = ManifestOf(r) /\ OutputOf(r)' = OutputOf(r)
    BY <2>1 DEF Mine, ManifestOf, OutputOf
  <2>4. CASE stage[r] = "manifest"
    <3>1. NameOf(r) = ManifestOf(r) /\ "output" \notin flags'[r]
      BY <1>1, <2>1, <2>4 DEF NameOf, ManifestOf, FlagsOf
    <3> QED BY <2>1, <2>2, <2>3, <3>1 DEF RunInv, Present, Durable
  <2>5. CASE stage[r] = "output"
    <3>1. NameOf(r) = OutputOf(r) /\ Holds(r)
      BY <2>1, <2>5 DEF NameOf, OutputOf, Holds, Writing
    <3> QED BY <1>1, <2>1, <2>2, <2>3, <3>1 DEF RunInv, Present, Durable
  <2> QED BY <2>1, <2>4, <2>5 DEF Stage
<1>9. CASE UndoManifest(r)
  <2>1. /\ job' = job /\ stage' = stage /\ flags' = flags /\ disk' = disk
        /\ pc'[r] = "undoOutput" /\ pc[r] = "undoManifest"
        /\ flags[r] # {"manifest"} => dir' = dir
    BY <1>9 DEF UndoManifest, TypeOK
  <2>2. Holds(r)' => "output" \in flags[r] /\ Holds(r) /\ dir' = dir
    BY <2>1 DEF Holds, Writing
  <2>3. "output" \in flags[r] => dir' = dir
    BY <2>1
  <2> QED BY <1>1, <1>4, <2>1, <2>2, <2>3 DEF RunInv, Present, Durable
<1>10. CASE UndoOutput(r)
  <2>1. /\ job' = job /\ stage' = stage /\ flags' = flags /\ disk' = disk
        /\ pc'[r] = "failed" /\ pc[r] = "undoOutput"
        /\ dir[ManifestOf(r)] # None \/ "output" \notin flags[r] => dir' = dir
    BY <1>10 DEF UndoOutput, TypeOK
  <2>2. "output" \in flags[r] => Holds(r) /\ dir[ManifestOf(r)] # None
    BY <1>1, MineType, EntryAssumption DEF Holds, FlagsOf, RunInv, Present
  <2>3. Holds(r)' => Holds(r)
    BY <2>1 DEF Holds, Writing
  <2> QED BY <1>1, <1>4, <2>1, <2>2, <2>3 DEF RunInv, Present, Durable
<1> QED BY <1>3, <1>5, <1>6, <1>7, <1>8, <1>9, <1>10 DEF Execute

\* Faults change no file and leave every run where it was or on its way out.
LEMMA PairOfFault ==
  ASSUME TypeOK, FlagsInv, FlagsInv', PairInv, NEW r \in Run, Fault(r), NEW q \in Run
  PROVE  RunInv(q)'
<1> USE DEF files, locals
<1>1. /\ job' = job /\ stage' = stage /\ flags' = flags /\ dir' = dir /\ disk' = disk
      /\ pc'[q] = pc[q] \/ pc'[q] \in {"failed", "dead", "unwind", "undoManifest"}
  BY DEF Fault, Refuse, OsError, Interrupt, Kill, TypeOK
<1>2. Mine(q)' = Mine(q) /\ NameOf(q)' = NameOf(q)
      /\ ManifestOf(q)' = ManifestOf(q) /\ OutputOf(q)' = OutputOf(q)
  BY <1>1 DEF Mine, NameOf, ManifestOf, OutputOf
<1>3. Holds(q)' => Holds(q)
  <2>1. CASE Interrupt(r) /\ q = r
    BY <1>1, <2>1 DEF Interrupt, TypeOK, Holds, FlagsInv, FlagsOf, PC, Undoing, Writing
  <2>2. CASE OsError(r) /\ q = r
    BY <1>1, <2>2 DEF OsError, TypeOK, Holds, Writing
  <2>3. CASE Refuse(r) \/ Kill(r) \/ q # r
    BY <1>1, <2>3, OthersKept DEF Refuse, Kill, TypeOK, Holds, Others, Writing
  <2> QED BY <2>1, <2>2, <2>3 DEF Fault
<1> QED BY <1>1, <1>2, <1>3 DEF PairInv, RunInv, Present, Durable

LEMMA PairOfEnvironment ==
  ASSUME TypeOK, PairInv, Environment, NEW q \in Run PROVE RunInv(q)'
<1> USE DEF files, locals
<1>0. RunInv(q) /\ Mine(q) # None
  BY MineType, EntryAssumption DEF PairInv
<1>1. CASE PowerLoss
  <2>1. /\ job' = job /\ stage' = stage /\ flags' = flags
        /\ pc'[q] = pc[q] \/ pc'[q] = "dead"
        /\ pc[q] \in Writing => pc'[q] = "dead"
        /\ \A n \in Name : dir'[n] \in {dir[n], disk[n]}
        /\ disk' = dir' /\ DirSyncWorks
    BY <1>1, SyncAssumption DEF PowerLoss, Ended, TypeOK, Writing
  <2>2. Mine(q)' = Mine(q) /\ ManifestOf(q)' = ManifestOf(q) /\ OutputOf(q)' = OutputOf(q)
    BY <2>1 DEF Mine, ManifestOf, OutputOf
  <2>3. Holds(q)' => Holds(q)
    BY <2>1 DEF Holds, Writing
  <2>4. pc'[q] \notin {"unlink", "sync", "return"}
    BY <2>1 DEF Writing
  <2> QED BY <1>0, <2>1, <2>2, <2>3, <2>4, NamesType DEF RunInv, Present, Durable
<1>2. CASE EditSource
  BY <1>0, <1>2, Framed DEF EditSource
<1>3. ASSUME NEW n \in Name, WriteBack(n) PROVE RunInv(q)'
  BY <1>0, <1>3, Framed DEF WriteBack, TypeOK
<1>4. ASSUME NEW n \in Name, CreateForeign(n) PROVE RunInv(q)'
  BY <1>0, <1>4, Framed DEF CreateForeign, TypeOK
<1> QED BY <1>1, <1>2, <1>3, <1>4 DEF Environment

THEOREM PairCorrect == Spec => [](FlagsInv /\ PairInv)
<1>1. Init => FlagsInv /\ PairInv
  BY DEF Init, FlagsInv, FlagsOf, PairInv, RunInv, Holds, Early, Writing
<1>2. TypeOK /\ FlagsInv /\ PairInv /\ [Next]_vars => FlagsInv' /\ PairInv'
  <2> SUFFICES ASSUME TypeOK, FlagsInv, PairInv, [Next]_vars PROVE FlagsInv' /\ PairInv'
    OBVIOUS
  <2>1. FlagsInv'
    BY FlagsCorrect
  <2>2. CASE UNCHANGED vars
    <3>1. ASSUME NEW q \in Run PROVE RunInv(q)'
      BY <2>2, Framed DEF vars, PairInv
    <3> QED BY <2>1, <3>1 DEF PairInv
  <2>3. CASE Environment
    BY <2>1, <2>3, PairOfEnvironment DEF PairInv
  <2>4. ASSUME NEW r \in Run, Execute(r) PROVE PairInv'
    BY <2>1, <2>4, PairOfOthers, PairOfRun DEF PairInv
  <2>5. ASSUME NEW r \in Run, Fault(r) PROVE PairInv'
    BY <2>1, <2>5, PairOfFault DEF PairInv
  <2> QED BY <2>1, <2>2, <2>3, <2>4, <2>5 DEF Next
<1> QED BY <1>1, <1>2, TypeCorrect, PTL DEF Spec

\* A repair that returned its manifest keeps both its files, on the disk as
\* well where the directory fsync works, whatever happens afterwards.
THEOREM CommittedPair == Spec => []CommittedPairStays
<1>1. FlagsInv /\ PairInv => CommittedPairStays
  BY DEF FlagsInv, FlagsOf, PairInv, RunInv, Holds, Present, Durable, CommittedPairStays
<1> QED BY <1>1, PairCorrect, PTL

\* No step of execute replaces a name or removes one that is not its own.
THEOREM OnlyOwn == Spec => OnlyOwnEntriesChange
<1>1. TypeOK /\ FlagsInv /\ PairInv =>
        [\A r \in Run : Execute(r) =>
           \A n \in Name : dir'[n] # dir[n] =>
             \/ dir[n] = None /\ dir'[n] = Mine(r)
             \/ dir[n] = Mine(r) /\ dir'[n] = None]_vars
  BY OwnStep DEF OwnChange
<1> QED BY <1>1, TypeCorrect, PairCorrect, PTL DEF OnlyOwnEntriesChange

-----------------------------------------------------------------------------
(* Whose an entry is, on the directory and on the disk.                    *)

EntryOk(n, e) ==
  e \in Entry =>
    /\ e = Mine(e.run) /\ n[2] = job[e.run].target
    /\ pc[e.run] \notin Early
    /\ EventsOf[e.src] = EventsOf[job[e.run].plan]

\* Past the comparison of the source hashes snapshot and plan agree.
PlanOk(r) ==
  pc[r] \in (Early \ {"new", "planned"}) \cup Writing =>
    EventsOf[job[r].snap] = EventsOf[job[r].plan]

EntryInv ==
  /\ \A r \in Run : PlanOk(r)
  /\ \A n \in Name : EntryOk(n, dir[n]) /\ EntryOk(n, disk[n])

\* A run that has left the early steps does not return to them, and only they
\* write its job.
LEMMA JobSettled ==
  ASSUME TypeOK, [Next]_vars, NEW q \in Run, pc[q] \notin Early
  PROVE  pc'[q] \notin Early /\ job'[q] = job[q]
<1> USE DEF files, locals
<1>1. CASE UNCHANGED vars
  BY <1>1 DEF vars
<1>2. CASE Environment
  BY <1>2 DEF Environment, PowerLoss, EditSource, WriteBack, CreateForeign, Early, TypeOK
<1>3. ASSUME NEW r \in Run, Execute(r) \/ Fault(r), r # q
      PROVE  pc'[q] \notin Early /\ job'[q] = job[q]
  BY <1>3, OthersKept DEF Others
<1>4. CASE Fault(q)
  BY <1>4 DEF Fault, Refuse, OsError, Interrupt, Kill, TypeOK, Early
<1>5. CASE Execute(q)
  BY <1>5 DEF Execute, MakePlan, Snapshot, SnapshotMismatch, Preflight, PreflightRefused,
     Apply, PostHash, PostHashDiffers, CreateTemp, WriteTemp, PublishExclusive, PublishExists,
     UnlinkTemp, SyncDir, Return, ReturnManifest, Unwind, UndoManifest, UndoOutput,
     GoTo, TypeOK, Early
<1> QED BY <1>1, <1>2, <1>3, <1>4, <1>5 DEF Next

LEMMA EntryOkKept ==
  ASSUME TypeOK, [Next]_vars, NEW n \in Name, NEW e, EntryOk(n, e)
  PROVE  EntryOk(n, e)'
<1> SUFFICES ASSUME e \in Entry PROVE EntryOk(n, e)'
  BY DEF EntryOk
<1>1. e.run \in Run
  BY DEF Entry
<1>2. pc'[e.run] \notin Early /\ job'[e.run] = job[e.run]
  BY <1>1, JobSettled DEF EntryOk
<1> QED BY <1>2 DEF EntryOk, Mine

\* Where the entries of the next state come from.
LEMMA EntrySource ==
  ASSUME TypeOK, [Next]_vars, NEW n \in Name
  PROVE  /\ \/ dir'[n] \in {dir[n], disk[n], None, Foreign}
            \/ \E r \in Run : /\ pc[r] = "link" /\ n = NameOf(r)
                              /\ dir'[n] = Mine(r) /\ UNCHANGED <<job, disk>>
                              /\ pc'[r] = "unlink"
         /\ disk'[n] \in {disk[n], dir[n], dir'[n]}
<1> USE DEF files, locals, TypeOK
<1>1. CASE UNCHANGED vars
  BY <1>1 DEF vars
<1>2. CASE Environment
  BY <1>2 DEF Environment, PowerLoss, EditSource, WriteBack, CreateForeign
<1>3. ASSUME NEW r \in Run, Fault(r) PROVE dir' = dir /\ disk' = disk
  BY <1>3 DEF Fault, Refuse, OsError, Interrupt, Kill
<1>4. ASSUME NEW r \in Run, PublishExclusive(r)
      PROVE  /\ \/ dir'[n] = dir[n]
                \/ n = NameOf(r) /\ dir'[n] = Mine(r)
             /\ pc[r] = "link" /\ pc'[r] = "unlink" /\ UNCHANGED <<job, disk>>
  BY <1>4 DEF PublishExclusive, GoTo
<1>5. ASSUME NEW r \in Run, UndoManifest(r) \/ UndoOutput(r)
      PROVE  dir'[n] \in {dir[n], None} /\ disk' = disk
  BY <1>5 DEF UndoManifest, UndoOutput, Remove
<1>6. ASSUME NEW r \in Run, Execute(r), ~ PublishExclusive(r), ~ UndoManifest(r), ~ UndoOutput(r)
      PROVE  dir' = dir /\ disk' \in {dir, disk}
  BY <1>6 DEF Execute, MakePlan, Snapshot, SnapshotMismatch, Preflight, PreflightRefused,
     Apply, PostHash, PostHashDiffers, CreateTemp, WriteTemp, PublishExists,
     UnlinkTemp, SyncDir, Return, ReturnManifest, Unwind
<1> QED BY <1>1, <1>2, <1>3, <1>4, <1>5, <1>6 DEF Next

LEMMA PlanOkKept ==
  ASSUME TypeOK, [Next]_vars, NEW q \in Run, PlanOk(q) PROVE PlanOk(q)'
<1> USE DEF files, locals, TypeOK, PlanOk, Early, Writing
<1>1. CASE UNCHANGED vars
  BY <1>1 DEF vars
<1>2. CASE Environment
  BY <1>2 DEF Environment, PowerLoss, EditSource, WriteBack, CreateForeign
<1>3. ASSUME NEW r \in Run, Execute(r) \/ Fault(r), r # q PROVE PlanOk(q)'
  BY <1>3, OthersKept DEF Others
<1>4. CASE Fault(q)
  BY <1>4 DEF Fault, Refuse, OsError, Interrupt, Kill
<1>5. CASE MakePlan(q) \/ Snapshot(q)
  BY <1>5 DEF MakePlan, Snapshot, GoTo, Job
<1>6. CASE Execute(q) /\ ~ MakePlan(q) /\ ~ Snapshot(q)
  <2>1. job' = job
    BY <1>6 DEF Execute, SnapshotMismatch, Preflight, PreflightRefused,
     Apply, PostHash, PostHashDiffers, CreateTemp, WriteTemp, PublishExclusive, PublishExists,
     UnlinkTemp, SyncDir, Return, ReturnManifest, Unwind, UndoManifest, UndoOutput
  <2>2. pc'[q] \in (Early \ {"new", "planned"}) \cup Writing =>
          pc[q] \in (Early \ {"new", "planned"}) \cup Writing
    BY <1>6 DEF Execute, SnapshotMismatch, Preflight, PreflightRefused,
     Apply, PostHash, PostHashDiffers, CreateTemp, WriteTemp, PublishExclusive, PublishExists,
     UnlinkTemp, SyncDir, Return, ReturnManifest, Unwind, UndoManifest, UndoOutput, GoTo
  <2> QED BY <2>1, <2>2
<1> QED BY <1>1, <1>2, <1>3, <1>4, <1>5, <1>6 DEF Next

THEOREM EntryCorrect == Spec => []EntryInv
<1>1. Init => EntryInv
  BY EntryAssumption DEF Init, EntryInv, EntryOk, PlanOk, Early, Writing
<1>2. TypeOK /\ EntryInv /\ [Next]_vars => EntryInv'
  <2> SUFFICES ASSUME TypeOK, EntryInv, [Next]_vars PROVE EntryInv'
    OBVIOUS
  <2>1. ASSUME NEW r \in Run PROVE PlanOk(r)'
    BY PlanOkKept DEF EntryInv
  <2>2. ASSUME NEW n \in Name PROVE EntryOk(n, dir[n])'
    <3>1. CASE dir'[n] \in {None, Foreign}
      BY <3>1, EntryAssumption DEF EntryOk
    <3>2. CASE dir'[n] \in {dir[n], disk[n]}
      <4>1. EntryOk(n, dir'[n])
        BY <3>2 DEF EntryInv
      <4>2. ASSUME NEW e, EntryOk(n, e), e = dir'[n] PROVE EntryOk(n, dir[n])'
        BY <4>2, EntryOkKept DEF EntryOk
      <4> QED BY <4>1, <4>2
    <3>3. ASSUME NEW r \in Run, pc[r] = "link", n = NameOf(r), dir'[n] = Mine(r),
                 UNCHANGED <<job, disk>>, pc'[r] = "unlink"
          PROVE  EntryOk(n, dir[n])'
      <4>1. Mine(r) \in Entry /\ Mine(r).run = r /\ Mine(r).src = job[r].snap /\ n[2] = job[r].target
        BY <3>3, MineType DEF Mine, NameOf
      <4>2. EventsOf[job[r].snap] = EventsOf[job[r].plan]
        BY <3>3 DEF EntryInv, PlanOk, Writing
      <4> QED BY <3>3, <4>1, <4>2 DEF EntryOk, Mine, Early
    <3> QED BY <3>1, <3>2, <3>3, EntrySource
  <2>3. ASSUME NEW n \in Name PROVE EntryOk(n, disk[n])'
    <3>1. CASE disk'[n] = dir'[n]
      BY <2>2, <3>1 DEF EntryOk
    <3>2. CASE disk'[n] \in {dir[n], disk[n]}
      <4>1. EntryOk(n, disk'[n])
        BY <3>2 DEF EntryInv
      <4>2. ASSUME NEW e, EntryOk(n, e), e = disk'[n] PROVE EntryOk(n, disk[n])'
        BY <4>2, EntryOkKept DEF EntryOk
      <4> QED BY <4>1, <4>2
    <3> QED BY <3>1, <3>2, EntrySource
  <2> QED BY <2>1, <2>2, <2>3 DEF EntryInv
<1> QED BY <1>1, <1>2, TypeCorrect, PTL DEF Spec

\* What is published comes from the events the plan was made over.
THEOREM PublishedPlanned == Spec => []PublishedIsPlanned
<1>1. EntryInv => PublishedIsPlanned
  BY DEF EntryInv, EntryOk, PublishedIsPlanned
<1> QED BY <1>1, EntryCorrect, PTL

-----------------------------------------------------------------------------
(* The output never stands alone, if no interrupt falls between the link   *)
(* of the output and output_replaced = True.                               *)

\* A run whose output is out will set output_replaced, has set it, or is dead.
Replacing(r) ==
  \/ "output" \in flags[r]
  \/ stage[r] = "output" /\ pc[r] \in {"unlink", "sync", "return", "dead"}

ReplacingOk(e) == e \in Entry => Replacing(e.run)

PairAt(o, m) ==
  /\ dir[o] \in Entry => dir[m] = dir[o] /\ (DirSyncWorks => disk[m] = dir[o])
  /\ DirSyncWorks /\ disk[o] \in Entry => dir[m] = disk[o] /\ disk[m] = disk[o]

OutputInv ==
  \A t \in Target :
    LET o == <<"output", t>>
    IN  ReplacingOk(dir[o]) /\ ReplacingOk(disk[o]) /\ PairAt(o, <<"manifest", t>>)

LEMMA ReplacingKept ==
  ASSUME TypeOK, [Next]_vars, InterruptAt \cap OutputWindow = {},
         NEW q \in Run, Replacing(q)
  PROVE  Replacing(q)'
<1> USE DEF files, locals, TypeOK, Replacing
<1>1. CASE UNCHANGED vars
  BY <1>1 DEF vars
<1>2. CASE Environment
  BY <1>2 DEF Environment, PowerLoss, EditSource, WriteBack, CreateForeign, Ended
<1>3. ASSUME NEW r \in Run, Execute(r) \/ Fault(r), r # q PROVE Replacing(q)'
  BY <1>3, OthersKept DEF Others
<1>4. CASE Fault(q)
  <2>1. CASE Refuse(q) \/ OsError(q) \/ Kill(q)
    BY <2>1 DEF Refuse, OsError, Kill, Ended
  <2>2. CASE Interrupt(q)
    <3>1. <<stage[q], pc[q]>> \notin OutputWindow /\ pc[q] # "dead" /\ flags' = flags
      BY <2>2 DEF Interrupt, Ended
    <3>2. ~ (stage[q] = "output" /\ pc[q] \in {"unlink", "sync", "return", "dead"})
      BY <3>1 DEF OutputWindow
    <3> QED BY <3>1, <3>2
  <2> QED BY <1>4, <2>1, <2>2 DEF Fault
<1>5. CASE Execute(q)
  BY <1>5 DEF Execute, MakePlan, Snapshot, SnapshotMismatch, Preflight, PreflightRefused,
     Apply, PostHash, PostHashDiffers, CreateTemp, WriteTemp, PublishExclusive, PublishExists,
     UnlinkTemp, SyncDir, Return, ReturnManifest, Unwind, UndoManifest, UndoOutput, GoTo
<1> QED BY <1>1, <1>2, <1>3, <1>4, <1>5 DEF Next

\* The pair at a path, step by step.
LEMMA PairAtKept ==
  ASSUME TypeOK, FlagsInv, PairInv, OutputInv, [Next]_vars, NEW t \in Target
  PROVE  PairAt(<<"output", t>>, <<"manifest", t>>)'
<1> SUFFICES ASSUME NEW o, NEW m, o = <<"output", t>>, m = <<"manifest", t>>
             PROVE  PairAt(o, m)'
  OBVIOUS
<1> USE DEF files, locals
<1>0. o \in Name /\ m \in Name /\ o # m
  BY DEF Name, Stage
<1>1. PairAt(o, m) /\ ReplacingOk(dir[o]) /\ ReplacingOk(disk[o])
  BY DEF OutputInv
<1>2. CASE dir' = dir /\ disk' = disk
  BY <1>1, <1>2 DEF PairAt
<1>3. CASE Environment
  <2>1. CASE PowerLoss
    BY <1>0, <1>1, <2>1, SyncAssumption DEF PowerLoss, PairAt, TypeOK
  <2>2. CASE EditSource
    BY <1>2, <2>2 DEF EditSource
  <2>3. ASSUME NEW n \in Name, WriteBack(n) PROVE PairAt(o, m)'
    BY <1>0, <1>1, <2>3 DEF WriteBack, PairAt, TypeOK
  <2>4. ASSUME NEW n \in Name, CreateForeign(n) PROVE PairAt(o, m)'
    BY <1>0, <1>1, <2>4, EntryAssumption DEF CreateForeign, PairAt, TypeOK
  <2> QED BY <1>3, <2>1, <2>2, <2>3, <2>4 DEF Environment
<1>4. ASSUME NEW r \in Run, Fault(r) PROVE PairAt(o, m)'
  BY <1>2, <1>4 DEF Fault, Refuse, OsError, Interrupt, Kill
<1>5. ASSUME NEW r \in Run, PublishExclusive(r) PROVE PairAt(o, m)'
  <2>1. /\ dir[NameOf(r)] = None /\ disk' = disk /\ pc[r] = "link"
        /\ dir' = [dir EXCEPT ![NameOf(r)] = Mine(r)]
        /\ stage[r] \in Stage
    BY <1>5 DEF PublishExclusive, GoTo, TypeOK
  <2>2. CASE NameOf(r) = m
    BY <1>0, <1>1, <2>1, <2>2, EntryAssumption DEF PairAt, TypeOK
  <2>3. CASE NameOf(r) = o
    <3>1. stage[r] = "output" /\ ManifestOf(r) = m
      BY <2>3 DEF NameOf, ManifestOf
    <3>2. dir[m] = Mine(r) /\ (DirSyncWorks => disk[m] = Mine(r))
      BY <2>1, <3>1 DEF PairInv, RunInv, Holds, Writing, Present, Durable
    <3> QED BY <1>0, <1>1, <2>1, <2>3, <3>2 DEF PairAt, TypeOK
  <2>4. CASE NameOf(r) \notin {o, m}
    BY <1>0, <1>1, <2>1, <2>4 DEF PairAt, TypeOK
  <2> QED BY <2>2, <2>3, <2>4
<1>6. ASSUME NEW r \in Run, UndoManifest(r) PROVE PairAt(o, m)'
  <2>1. CASE dir' = dir
    BY <1>2, <1>6, <2>1 DEF UndoManifest
  <2>2. CASE dir' # dir
    <3>1. /\ dir' = [dir EXCEPT ![ManifestOf(r)] = None] /\ disk' = disk
          /\ flags[r] = {"manifest"} /\ pc[r] = "undoManifest"
      BY <1>6, <2>2 DEF UndoManifest, Remove, GoTo
    <3>2. dir[ManifestOf(r)] = Mine(r) /\ Mine(r).run = r /\ ~ Replacing(r)
      BY <3>1 DEF FlagsInv, FlagsOf, PairInv, RunInv, Holds, Present, Mine, Replacing
    <3>3. CASE ManifestOf(r) = m
      <4>1. dir[o] \notin Entry
        BY <1>1, <3>2, <3>3 DEF PairAt, ReplacingOk
      <4>2. DirSyncWorks => disk[o] \notin Entry
        BY <1>1, <3>2, <3>3 DEF PairAt, ReplacingOk
      <4> QED BY <1>0, <3>1, <3>3, <4>1, <4>2 DEF PairAt, TypeOK
    <3>4. CASE ManifestOf(r) # m
      <4>1. ManifestOf(r) # o
        BY DEF ManifestOf
      <4> QED BY <1>0, <1>1, <3>1, <3>4, <4>1 DEF PairAt, TypeOK
    <3> QED BY <3>3, <3>4
  <2> QED BY <2>1, <2>2
<1>7. ASSUME NEW r \in Run, UndoOutput(r) PROVE PairAt(o, m)'
  <2>1. OwnChange(r)
    BY <1>7, OwnStep DEF Execute
  <2>2. "output" \in flags[r] => dir[ManifestOf(r)] = Mine(r) /\ Mine(r) # None
    BY MineType, EntryAssumption DEF FlagsInv, FlagsOf, PairInv, RunInv, Holds, Present
  <2>3. dir' = dir /\ disk' = disk
    BY <1>7, <2>2 DEF UndoOutput
  <2> QED BY <1>2, <2>3
<1>8. ASSUME NEW r \in Run, Execute(r), ~ PublishExclusive(r), ~ UndoManifest(r), ~ UndoOutput(r)
      PROVE  PairAt(o, m)'
  <2>1. dir' = dir
    BY <1>8 DEF Execute, MakePlan, Snapshot, SnapshotMismatch, Preflight, PreflightRefused,
     Apply, PostHash, PostHashDiffers, CreateTemp, WriteTemp, PublishExists,
     UnlinkTemp, SyncDir, Return, ReturnManifest, Unwind
  <2>2. disk' = disk \/ (DirSyncWorks /\ disk' = dir)
    BY <1>8, DiskStep
  <2> QED BY <1>1, <2>1, <2>2 DEF PairAt
<1>9. CASE UNCHANGED vars
  BY <1>2, <1>9 DEF vars
<1> QED BY <1>3, <1>4, <1>5, <1>6, <1>7, <1>8, <1>9 DEF Next

LEMMA ReplacingOkKept ==
  ASSUME TypeOK, OutputInv, [Next]_vars, InterruptAt \cap OutputWindow = {}, NEW t \in Target
  PROVE  ReplacingOk(dir[<<"output", t>>])' /\ ReplacingOk(disk[<<"output", t>>])'
<1> SUFFICES ASSUME NEW o, o = <<"output", t>>
             PROVE  ReplacingOk(dir[o])' /\ ReplacingOk(disk[o])'
  OBVIOUS
<1>0. o \in Name
  BY DEF Name, Stage
<1>1. ASSUME NEW e, e = dir[o] \/ e = disk[o], e \in Entry PROVE Replacing(e.run)'
  <2>1. Replacing(e.run) /\ e.run \in Run
    BY <1>1 DEF OutputInv, ReplacingOk, Entry
  <2> QED BY <2>1, ReplacingKept
<1>2. ASSUME NEW r \in Run, pc[r] = "link", o = NameOf(r), dir'[o] = Mine(r), pc'[r] = "unlink",
             UNCHANGED <<job, disk>>
      PROVE  Replacing(r)' /\ Mine(r).run = r
  <2>1. stage[r] = "output"
    BY <1>2 DEF NameOf
  <2>2. stage'[r] = "output"
    <3>1. CASE \E q \in Run : q # r /\ (Execute(q) \/ Fault(q))
      BY <3>1, <2>1, OthersKept DEF Others
    <3>2. CASE Execute(r) \/ Fault(r)
      BY <1>2, <2>1, <3>2 DEF Execute, Fault, MakePlan, Snapshot, SnapshotMismatch, Preflight,
        PreflightRefused, Apply, PostHash, PostHashDiffers, CreateTemp, WriteTemp,
        PublishExclusive, PublishExists, UnlinkTemp, SyncDir, Return, ReturnManifest, Unwind,
        UndoManifest, UndoOutput, Refuse, OsError, Interrupt, Kill, GoTo, locals
    <3>3. CASE UNCHANGED vars \/ Environment
      BY <2>1, <3>3 DEF vars, Environment, PowerLoss, EditSource, WriteBack, CreateForeign, locals
    <3> QED BY <3>1, <3>2, <3>3 DEF Next
  <2> QED BY <1>2, <2>2 DEF Replacing, Mine
<1>3. ReplacingOk(dir[o])'
  BY <1>0, <1>1, <1>2, EntrySource, EntryAssumption DEF ReplacingOk
<1>4. ReplacingOk(disk[o])'
  BY <1>0, <1>1, <1>3, EntrySource, EntryAssumption DEF ReplacingOk
<1> QED BY <1>3, <1>4

THEOREM OutputCorrect ==
  ASSUME InterruptAt \cap OutputWindow = {}
  PROVE  Spec => []OutputInv
<1>1. Init => OutputInv
  BY EntryAssumption, PublishAssumption DEF Init, OutputInv, ReplacingOk, PairAt, Name, Stage
<1>2. TypeOK /\ FlagsInv /\ PairInv /\ OutputInv /\ [Next]_vars => OutputInv'
  BY PairAtKept, ReplacingOkKept DEF OutputInv
<1> QED BY <1>1, <1>2, TypeCorrect, PairCorrect, PTL DEF Spec

\* An output that a repair published never stands without the manifest of the
\* same repair, in the directory or after a power loss.
THEOREM ReceiptFirst ==
  ASSUME InterruptAt \cap OutputWindow = {}
  PROVE  Spec => []ReceiptBeforeOutput
<1>1. OutputInv => ReceiptBeforeOutput
  BY DEF OutputInv, PairAt, ReceiptBeforeOutput
<1> QED BY <1>1, OutputCorrect, PTL

-----------------------------------------------------------------------------
(* The directory is a receipt ledger.  A power loss may take back the      *)
(* claims of several paths at once, which is no single step of a ledger.   *)

LEMMA RunOfMine ==
  ASSUME TypeOK, NEW r \in Run
  PROVE  EntryRun(Mine(r)) = r /\ r # None /\ EntryRun(None) = None /\ EntryRun(Foreign) = None
<1>1. Mine(r) \in Entry
  BY MineType
<1> QED BY <1>1, EntryAssumption, RunAssumption DEF EntryRun, Mine

\* A claim: only a manifest appears, where no output stands.
LEMMA ManifestOut ==
  ASSUME TypeOK, OutputInv, NEW r \in Run, PublishExclusive(r), stage[r] = "manifest"
  PROVE  Ledger!Next
<1> DEFINE t == job[r].target
<1>1. t \in Target /\ ManifestOf(r) \in Name /\ NameOf(r) = ManifestOf(r) /\ ManifestOf(r) = <<"manifest", t>>
  BY NamesType DEF TypeOK, Job, NameOf, ManifestOf
<1>2. dir[<<"manifest", t>>] = None /\ dir' = [dir EXCEPT ![<<"manifest", t>>] = Mine(r)]
  BY <1>1 DEF PublishExclusive
<1>3. dir[<<"output", t>>] \notin Entry
  BY <1>1, <1>2, EntryAssumption DEF OutputInv, PairAt
<1>4. \A u \in Target : dir'[<<"manifest", u>>] = IF u = t THEN Mine(r) ELSE dir[<<"manifest", u>>]
  BY <1>1, <1>2 DEF TypeOK, Name, Stage
<1>5. \A u \in Target : dir'[<<"output", u>>] = dir[<<"output", u>>]
  BY <1>1, <1>2 DEF TypeOK, Name, Stage
<1> HIDE DEF t
<1>6. Ledger!Claim(t, r)
  <2>1. EntryRun(dir[<<"manifest", t>>]) = None /\ EntryRun(dir[<<"output", t>>]) = None
    BY <1>2, <1>3, RunOfMine DEF EntryRun
  <2>2. \A u \in Target :
          EntryRun(dir'[<<"manifest", u>>]) = IF u = t THEN r ELSE EntryRun(dir[<<"manifest", u>>])
    BY <1>4, RunOfMine
  <2>3. \A u \in Target : EntryRun(dir'[<<"output", u>>]) = EntryRun(dir[<<"output", u>>])
    BY <1>5
  <2> QED BY <1>1, <2>1, <2>2, <2>3 DEF Ledger!Claim
<1> QED BY <1>1, <1>6 DEF Ledger!Next

\* A publication: the output of the run whose manifest stands at the path.
LEMMA OutputOut ==
  ASSUME TypeOK, FlagsInv, PairInv, NEW r \in Run, PublishExclusive(r), stage[r] = "output"
  PROVE  Ledger!Next
<1> DEFINE t == job[r].target
<1>1. t \in Target /\ NameOf(r) = <<"output", t>> /\ ManifestOf(r) = <<"manifest", t>>
  BY DEF TypeOK, Job, NameOf, ManifestOf
<1>2. dir[<<"output", t>>] = None /\ dir' = [dir EXCEPT ![<<"output", t>>] = Mine(r)]
  BY <1>1 DEF PublishExclusive
<1>3. dir[<<"manifest", t>>] = Mine(r)
  BY <1>1 DEF PairInv, RunInv, Holds, Present, PublishExclusive, GoTo, Writing
<1>4. \A u \in Target : dir'[<<"output", u>>] = IF u = t THEN Mine(r) ELSE dir[<<"output", u>>]
  BY <1>1, <1>2 DEF TypeOK, Name, Stage
<1>5. \A u \in Target : dir'[<<"manifest", u>>] = dir[<<"manifest", u>>]
  BY <1>1, <1>2 DEF TypeOK, Name, Stage
<1> HIDE DEF t
<1>6. Ledger!Publish(t)
  <2>1. EntryRun(dir[<<"manifest", t>>]) = r /\ EntryRun(dir[<<"output", t>>]) = None /\ r # None
    BY <1>2, <1>3, RunOfMine
  <2>2. \A u \in Target :
          EntryRun(dir'[<<"output", u>>]) = IF u = t THEN r ELSE EntryRun(dir[<<"output", u>>])
    BY <1>4, RunOfMine
  <2>3. \A u \in Target : EntryRun(dir'[<<"manifest", u>>]) = EntryRun(dir[<<"manifest", u>>])
    BY <1>5
  <2> QED BY <1>1, <2>1, <2>2, <2>3 DEF Ledger!Publish
<1> QED BY <1>1, <1>6 DEF Ledger!Next

\* A claim given back: the rollback runs only while nothing is published.
LEMMA ManifestBack ==
  ASSUME TypeOK, FlagsInv, PairInv, OutputInv, NEW r \in Run, UndoManifest(r), dir' # dir
  PROVE  Ledger!Next
<1> DEFINE t == job[r].target
<1>1. t \in Target /\ ManifestOf(r) = <<"manifest", t>> /\ <<"output", t>> \in Name
  BY DEF TypeOK, Job, ManifestOf, Name, Stage
<1>2. pc[r] = "undoManifest" /\ flags[r] = {"manifest"} /\ dir' = [dir EXCEPT ![<<"manifest", t>>] = None]
  BY <1>1 DEF UndoManifest, Remove, GoTo
<1>3. dir[<<"manifest", t>>] = Mine(r)
  BY <1>1, <1>2 DEF FlagsInv, FlagsOf, PairInv, RunInv, Holds, Present
<1>4. dir[<<"output", t>>] \notin Entry
  <2>1. ~ Replacing(r)
    BY <1>2 DEF Replacing
  <2>2. dir[<<"output", t>>] \in Entry => dir[<<"output", t>>] = Mine(r)
    BY <1>1, <1>3 DEF OutputInv, PairAt
  <2>3. Mine(r).run = r
    BY DEF Mine
  <2> QED BY <2>1, <2>2, <2>3, <1>1 DEF OutputInv, ReplacingOk
<1>5. \A u \in Target : dir'[<<"manifest", u>>] = IF u = t THEN None ELSE dir[<<"manifest", u>>]
  BY <1>1, <1>2 DEF TypeOK, Name, Stage
<1>6. \A u \in Target : dir'[<<"output", u>>] = dir[<<"output", u>>]
  BY <1>1, <1>2 DEF TypeOK, Name, Stage
<1> HIDE DEF t
<1>7. Ledger!GiveBack(t)
  BY <1>1, <1>3, <1>4, <1>5, <1>6, RunOfMine DEF Ledger!GiveBack, EntryRun
<1> QED BY <1>1, <1>7 DEF Ledger!Next

\* Every step of the executor and its surroundings is a step of the ledger or none.
LEMMA LedgerStep ==
  ASSUME ~ PowerLossPossible, TypeOK, FlagsInv, PairInv, OutputInv, [Next]_vars
  PROVE  [Ledger!Next]_(Ledger!vars)
<1>1. CASE UNCHANGED dir
  BY <1>1 DEF Ledger!vars
<1>2. CASE Environment
  <2>1. CASE UNCHANGED dir
    BY <2>1, <1>1
  <2>2. ASSUME NEW n \in Name, CreateForeign(n) PROVE UNCHANGED Ledger!vars
    <3>1. \A k \in Name : EntryRun(dir'[k]) = EntryRun(dir[k])
      BY <2>2, EntryAssumption DEF CreateForeign, TypeOK, EntryRun
    <3> QED BY <3>1 DEF Ledger!vars, Name, Stage
  <2> QED BY <1>2, <2>1, <2>2 DEF Environment, PowerLoss, EditSource, WriteBack, files
<1>3. ASSUME NEW r \in Run, Fault(r) PROVE UNCHANGED dir
  BY <1>3 DEF Fault, Refuse, OsError, Interrupt, Kill, files
<1>4. ASSUME NEW r \in Run, Execute(r), dir' # dir PROVE Ledger!Next
  <2>1. PublishExclusive(r) \/ UndoManifest(r) \/ UndoOutput(r)
    BY <1>4 DEF Execute, MakePlan, Snapshot, SnapshotMismatch, Preflight, PreflightRefused,
       Apply, PostHash, PostHashDiffers, CreateTemp, WriteTemp, PublishExists,
       UnlinkTemp, SyncDir, Return, ReturnManifest, Unwind, files
  <2>2. ~ UndoOutput(r)
    <3>1. "output" \in flags[r] => dir[ManifestOf(r)] = Mine(r)
      BY DEF FlagsInv, FlagsOf, PairInv, RunInv, Holds, Present
    <3> QED BY <3>1, <1>4, MineType, EntryAssumption DEF UndoOutput
  <2>3. stage[r] \in Stage
    BY DEF TypeOK
  <2> QED BY <1>4, <2>1, <2>2, <2>3, ManifestOut, OutputOut, ManifestBack DEF Stage
<1> QED BY <1>1, <1>2, <1>3, <1>4 DEF Next, vars, files

\* Between machine failures the executor implements the receipt ledger.
THEOREM LedgerImplemented ==
  ASSUME InterruptAt \cap OutputWindow = {}, ~ PowerLossPossible
  PROVE  Spec => RefinesLedger
<1>1. Init => Ledger!Init
  <2> SUFFICES ASSUME Init PROVE Ledger!Init
    OBVIOUS
  <2>1. \A n \in Name : EntryRun(dir[n]) = None
    BY EntryAssumption DEF Init, EntryRun
  <2> QED BY <2>1 DEF Ledger!Init, Name, Stage
<1>2. TypeOK /\ FlagsInv /\ PairInv /\ OutputInv /\ [Next]_vars => [Ledger!Next]_(Ledger!vars)
  BY LedgerStep
<1> QED BY <1>1, <1>2, TypeCorrect, PairCorrect, OutputCorrect, PTL DEF Spec, RefinesLedger, Ledger!Spec

-----------------------------------------------------------------------------
(***************************************************************************)
(* What a repair that ends in an error leaves behind: nothing, for every   *)
(* set of runs and paths, as long as no interrupt falls into one of the    *)
(* windows, no unlink fails and the machine stays up.                      *)
(***************************************************************************)

\* Where a manifest, an output or a staging file of a run may stand at all.
ManifestUp(r) ==
  \/ "output" \in flags[r]
  \/ pc[r] = "dead"
  \/ stage[r] = "manifest" /\ pc[r] \in {"unlink", "sync", "return"}
  \/ stage[r] = "output" /\ pc[r] \in Writing \cup {"unwind", "undoManifest"}

OutputUp(r) ==
  \/ "output" \in flags[r]
  \/ pc[r] = "dead"
  \/ stage[r] = "output" /\ pc[r] \in {"unlink", "sync", "return"}

PairTidy(r) ==
  /\ dir[ManifestOf(r)] = Mine(r) => ManifestUp(r)
  /\ dir[OutputOf(r)] = Mine(r) => OutputUp(r)

\* A staging file is one that temp_path names when the cleanup comes to it.
StagingTidy(r) ==
  /\ \A s \in Stage : <<r, s>> \in temps =>
       s = stage[r] /\ pc[r] \in {"assign", "link", "unlink", "unwind", "dead"}
  /\ pc[r] \in {"link", "unlink"} => r \in held
  /\ pc[r] = "unwind" /\ <<r, stage[r]>> \in temps => r \in held

TidyInv == \A r \in Run : PairTidy(r) /\ StagingTidy(r)

-----------------------------------------------------------------------------
(* The staging files.                                                      *)

LEMMA StagingOfOthers ==
  ASSUME TypeOK, NEW r \in Run, Execute(r) \/ Fault(r), NEW q \in Run, q # r, StagingTidy(q)
  PROVE  StagingTidy(q)'
<1> USE DEF files, locals
<1>1. \A s \in Stage : <<q, s>> \in temps' => <<q, s>> \in temps
  BY DEF Execute, Fault, Refuse, OsError, Interrupt, Kill,
     MakePlan, Snapshot, SnapshotMismatch, Preflight, PreflightRefused,
     Apply, PostHash, PostHashDiffers, CreateTemp, WriteTemp, PublishExclusive, PublishExists,
     UnlinkTemp, SyncDir, Return, ReturnManifest, Unwind, UndoManifest, UndoOutput
<1>2. q \in held => q \in held'
  BY DEF Execute, Fault, Refuse, OsError, Interrupt, Kill,
     MakePlan, Snapshot, SnapshotMismatch, Preflight, PreflightRefused,
     Apply, PostHash, PostHashDiffers, CreateTemp, WriteTemp, PublishExclusive, PublishExists,
     UnlinkTemp, SyncDir, Return, ReturnManifest, Unwind, UndoManifest, UndoOutput
<1>3. pc'[q] = pc[q] /\ stage'[q] = stage[q]
  BY OthersKept DEF Others
<1>4. stage[q] \in Stage
  BY DEF TypeOK
<1> QED BY <1>1, <1>2, <1>3, <1>4 DEF StagingTidy

LEMMA StagingOfRun ==
  ASSUME TypeOK, ~ UnlinkMayFail, InterruptAt \cap InterruptWindows = {},
         NEW r \in Run, Execute(r) \/ Fault(r), StagingTidy(r)
  PROVE  StagingTidy(r)'
<1> USE DEF TypeOK, StagingTidy, Stage, files, locals
<1>1. CASE MakePlan(r) \/ Snapshot(r) \/ SnapshotMismatch(r) \/ Preflight(r)
           \/ PreflightRefused(r) \/ Apply(r) \/ PostHash(r) \/ PostHashDiffers(r)
  BY <1>1 DEF MakePlan, Snapshot, SnapshotMismatch, Preflight, PreflightRefused,
              Apply, PostHash, PostHashDiffers, GoTo
<1>2. CASE CreateTemp(r)
  BY <1>2 DEF CreateTemp, GoTo
<1>3. CASE WriteTemp(r) \/ PublishExclusive(r) \/ PublishExists(r)
  BY <1>3 DEF WriteTemp, PublishExclusive, PublishExists, GoTo
<1>4. CASE UnlinkTemp(r) \/ Unwind(r)
  BY <1>4 DEF UnlinkTemp, Unwind, GoTo
<1>5. CASE SyncDir(r) \/ Return(r) \/ ReturnManifest(r) \/ UndoManifest(r) \/ UndoOutput(r)
  BY <1>5 DEF SyncDir, Return, ReturnManifest, UndoManifest, UndoOutput, GoTo
<1>6. CASE Refuse(r) \/ OsError(r) \/ Kill(r)
  BY <1>6 DEF Refuse, OsError, Kill
<1>7. CASE Interrupt(r)
  <2>1. pc[r] \notin {"assign", "unlink", "sync", "return"} \cup Undoing
    BY <1>7 DEF Interrupt, InterruptWindows
  <2> QED BY <1>7, <2>1 DEF Interrupt, Writing, Undoing, Ended
<1> QED BY <1>1, <1>2, <1>3, <1>4, <1>5, <1>6, <1>7 DEF Execute, Fault

-----------------------------------------------------------------------------
(* The pair.                                                               *)

LEMMA PairTidyFramed ==
  ASSUME TypeOK, NEW q \in Run, PairTidy(q),
         pc'[q] = pc[q] \/ pc'[q] = "dead",
         stage'[q] = stage[q], flags'[q] = flags[q], job'[q] = job[q],
         \A n \in Name : dir'[n] = Mine(q) => dir[n] = Mine(q)
  PROVE  PairTidy(q)'
<1>1. Mine(q)' = Mine(q) /\ ManifestOf(q)' = ManifestOf(q) /\ OutputOf(q)' = OutputOf(q)
  BY DEF Mine, ManifestOf, OutputOf
<1>2. ManifestOf(q) \in Name /\ OutputOf(q) \in Name
  BY NamesType
<1> QED BY <1>1, <1>2 DEF PairTidy, ManifestUp, OutputUp

LEMMA PairTidyOfOthers ==
  ASSUME TypeOK, FlagsInv, PairInv, NEW r \in Run, Execute(r) \/ Fault(r),
         NEW q \in Run, q # r, PairTidy(q)
  PROVE  PairTidy(q)'
<1>1. Mine(q) # Mine(r) /\ Mine(q) # None
  BY MineDiffers, MineType, EntryAssumption
<1>2. CASE Execute(r)
  <2>1. \A n \in Name : dir'[n] = Mine(q) => dir[n] = Mine(q)
    BY <1>1, <1>2, OwnStep DEF OwnChange
  <2> QED BY <2>1, OthersKept, PairTidyFramed DEF Others
<1>3. CASE Fault(r)
  <2>1. dir' = dir
    BY <1>3 DEF Fault, Refuse, OsError, Interrupt, Kill, files
  <2> QED BY <2>1, OthersKept, PairTidyFramed DEF Others
<1> QED BY <1>2, <1>3

LEMMA PairTidyOfRun ==
  ASSUME TypeOK, TypeOK', FlagsInv, FlagsInv', PairInv, EntryInv, EntryInv',
         ~ UnlinkMayFail, NEW r \in Run, Execute(r), PairTidy(r)
  PROVE  PairTidy(r)'
<1> USE DEF files, locals
<1>1. FlagsOf(r) /\ FlagsOf(r)' /\ RunInv(r) /\ Mine(r) # None /\ Mine(r).run = r
  BY MineType, EntryAssumption DEF FlagsInv, PairInv, Mine
<1>2. NameOf(r) \in Name /\ ManifestOf(r) \in Name /\ OutputOf(r) \in Name
  BY NamesType
<1>3. stage[r] \in Stage
  BY DEF TypeOK
<1>4. CASE MakePlan(r) \/ Snapshot(r) \/ SnapshotMismatch(r) \/ Preflight(r)
           \/ PreflightRefused(r) \/ Apply(r) \/ PostHash(r) \/ PostHashDiffers(r)
  <2>1. pc[r] \in Early /\ dir' = dir
    BY <1>4 DEF MakePlan, Snapshot, SnapshotMismatch, Preflight, PreflightRefused,
                Apply, PostHash, PostHashDiffers, Early, GoTo
  <2>2. Mine(r)' \in Entry /\ Mine(r)'.run = r
    BY <2>1, MineType DEF TypeOK, Mine, Entry, Job
  <2>3. \A n \in Name : dir[n] \in Entry => dir[n].run # r
    BY <2>1 DEF EntryInv, EntryOk
  <2>4. ManifestOf(r)' \in Name /\ OutputOf(r)' \in Name
    BY <2>1 DEF TypeOK, ManifestOf, OutputOf, Name, Stage, Job
  <2>5. dir'[ManifestOf(r)'] # Mine(r)' /\ dir'[OutputOf(r)'] # Mine(r)'
    BY <2>1, <2>2, <2>3, <2>4
  <2> QED BY <2>5 DEF PairTidy
<1>5. ASSUME job' = job
      PROVE  Mine(r)' = Mine(r) /\ ManifestOf(r)' = ManifestOf(r) /\ OutputOf(r)' = OutputOf(r)
  BY <1>5 DEF Mine, ManifestOf, OutputOf
<1>6. CASE CreateTemp(r) \/ WriteTemp(r) \/ PublishExists(r) \/ UnlinkTemp(r) \/ SyncDir(r)
           \/ ReturnManifest(r) \/ Unwind(r)
  <2>1. /\ job' = job /\ stage' = stage /\ flags' = flags /\ dir' = dir
    BY <1>6 DEF CreateTemp, WriteTemp, PublishExists, UnlinkTemp, SyncDir, ReturnManifest, Unwind
  <2>2. (ManifestUp(r) => ManifestUp(r)') /\ (OutputUp(r) => OutputUp(r)')
    BY <1>1, <1>3, <1>6, <2>1 DEF ManifestUp, OutputUp, Writing, FlagsOf, TypeOK, GoTo, Stage,
         CreateTemp, WriteTemp, PublishExists, UnlinkTemp, SyncDir, ReturnManifest, Unwind
  <2> QED BY <1>5, <2>1, <2>2 DEF PairTidy
<1>7. CASE PublishExclusive(r)
  <2>1. /\ job' = job /\ stage' = stage /\ flags' = flags
        /\ dir' = [dir EXCEPT ![NameOf(r)] = Mine(r)]
        /\ pc[r] = "link" /\ pc'[r] = "unlink"
    BY <1>7 DEF PublishExclusive, TypeOK, GoTo
  <2>2. ManifestUp(r)'
    BY <1>3, <2>1 DEF ManifestUp, Writing, Stage
  <2>3. CASE stage[r] = "output"
    BY <2>1, <2>2, <2>3 DEF PairTidy, OutputUp
  <2>4. CASE stage[r] = "manifest"
    <3>1. dir'[OutputOf(r)] = dir[OutputOf(r)]
      BY <1>2, <2>1, <2>4 DEF NameOf, OutputOf, TypeOK
    <3>2. dir[OutputOf(r)] # Mine(r)
      BY <1>1, <2>1, <2>4 DEF PairTidy, OutputUp, FlagsOf
    <3> QED BY <1>5, <2>1, <2>2, <3>1, <3>2 DEF PairTidy
  <2> QED BY <1>3, <2>3, <2>4 DEF Stage
<1>8. CASE Return(r)
  <2>1. /\ job' = job /\ dir' = dir /\ pc[r] = "return"
        /\ pc'[r] = (IF stage[r] = "manifest" THEN "create" ELSE "post")
        /\ flags'[r] = flags[r] \cup {stage[r]} /\ stage'[r] = "output"
    BY <1>8 DEF Return, TypeOK, GoTo
  <2>2. (ManifestUp(r) => ManifestUp(r)') /\ (OutputUp(r) => OutputUp(r)')
    BY <1>1, <1>3, <2>1 DEF ManifestUp, OutputUp, Writing, FlagsOf, Stage
  <2> QED BY <1>5, <2>1, <2>2 DEF PairTidy
<1>9. CASE UndoManifest(r)
  <2>1. /\ job' = job /\ stage' = stage /\ flags' = flags
        /\ pc[r] = "undoManifest" /\ pc'[r] = "undoOutput"
    BY <1>9 DEF UndoManifest, TypeOK, GoTo
  <2>2. CASE "output" \in flags[r]
    BY <2>1, <2>2 DEF PairTidy, ManifestUp, OutputUp
  <2>3. CASE "output" \notin flags[r]
    <3>1. dir[OutputOf(r)] # Mine(r)
      BY <2>1, <2>3 DEF PairTidy, OutputUp
    <3>2. dir'[OutputOf(r)] # Mine(r)
      BY <1>1, <1>2, <1>9, <3>1 DEF UndoManifest, Remove, TypeOK
    <3>3. dir'[ManifestOf(r)] # Mine(r)
      <4>1. CASE stage[r] = "output"
        <5>1. flags[r] = {"manifest"}
          BY <1>1, <2>3, <4>1 DEF FlagsOf, TypeOK, Stage
        <5> QED BY <1>1, <1>2, <1>9, <5>1 DEF UndoManifest, Remove, TypeOK
      <4>2. CASE stage[r] = "manifest"
        <5>1. flags[r] # {"manifest"}
          BY <1>1, <4>2 DEF FlagsOf
        <5>2. dir[ManifestOf(r)] # Mine(r)
          BY <2>1, <2>3, <4>2 DEF PairTidy, ManifestUp
        <5> QED BY <1>9, <5>1, <5>2 DEF UndoManifest
      <4> QED BY <1>3, <4>1, <4>2 DEF Stage
    <3> QED BY <1>5, <2>1, <3>2, <3>3 DEF PairTidy
  <2> QED BY <2>2, <2>3
<1>10. CASE UndoOutput(r)
  <2>1. /\ job' = job /\ stage' = stage /\ flags' = flags
        /\ pc[r] = "undoOutput" /\ pc'[r] = "failed"
    BY <1>10 DEF UndoOutput, TypeOK, GoTo
  <2>2. "output" \in flags[r] => dir[ManifestOf(r)] # None
    BY <1>1 DEF FlagsOf, RunInv, Holds, Present
  <2>3. dir' = dir
    BY <1>10, <2>2 DEF UndoOutput
  <2>4. (ManifestUp(r) => ManifestUp(r)') /\ (OutputUp(r) => OutputUp(r)')
    BY <2>1 DEF ManifestUp, OutputUp, Writing
  <2> QED BY <1>5, <2>1, <2>3, <2>4 DEF PairTidy
<1> QED BY <1>4, <1>6, <1>7, <1>8, <1>9, <1>10 DEF Execute

LEMMA PairTidyOfFault ==
  ASSUME TypeOK, FlagsInv, InterruptAt \cap InterruptWindows = {},
         NEW r \in Run, Fault(r), PairTidy(r)
  PROVE  PairTidy(r)'
<1>1. /\ job' = job /\ stage' = stage /\ flags' = flags /\ dir' = dir
  BY DEF Fault, Refuse, OsError, Interrupt, Kill, files, locals
<1>2. Mine(r)' = Mine(r) /\ ManifestOf(r)' = ManifestOf(r) /\ OutputOf(r)' = OutputOf(r)
  BY <1>1 DEF Mine, ManifestOf, OutputOf
<1>3. FlagsOf(r) /\ stage[r] \in Stage
  BY DEF FlagsInv, TypeOK
<1>4. (ManifestUp(r) => ManifestUp(r)') /\ (OutputUp(r) => OutputUp(r)')
  <2>1. CASE Refuse(r) \/ OsError(r) \/ Kill(r)
    BY <1>1, <1>3, <2>1 DEF Refuse, OsError, Kill, ManifestUp, OutputUp, Writing, TypeOK, Stage
  <2>2. CASE Interrupt(r)
    <3>1. pc[r] \notin {"assign", "unlink", "sync", "return"} \cup Undoing
      BY <1>3, <2>2 DEF Interrupt, InterruptWindows
    <3> QED BY <1>1, <1>3, <2>2, <3>1 DEF Interrupt, ManifestUp, OutputUp, Writing, Undoing,
                                          Ended, FlagsOf, TypeOK, Stage
  <2> QED BY <2>1, <2>2 DEF Fault
<1> QED BY <1>1, <1>2, <1>4 DEF PairTidy

-----------------------------------------------------------------------------
LEMMA TidyOfEnvironment ==
  ASSUME TypeOK, Environment, ~ PowerLossPossible, NEW q \in Run, PairTidy(q), StagingTidy(q)
  PROVE  PairTidy(q)' /\ StagingTidy(q)'
<1>1. Mine(q) # Foreign
  BY MineType, EntryAssumption
<1>2. /\ job' = job /\ stage' = stage /\ flags' = flags /\ pc' = pc
      /\ temps' = temps /\ held' = held
      /\ \A n \in Name : dir'[n] = Mine(q) => dir[n] = Mine(q)
  BY <1>1 DEF Environment, PowerLoss, EditSource, WriteBack, CreateForeign, files, locals, TypeOK
<1> QED BY <1>2, PairTidyFramed DEF StagingTidy

\* An error leaves nothing behind: a run that ended has published both its
\* files or neither, and no staging file of it is left, whoever raced with it.
THEOREM ErrorsCleanUp ==
  ASSUME InterruptAt \cap InterruptWindows = {}, ~ UnlinkMayFail, ~ PowerLossPossible
  PROVE  Spec => []FailureCleansUp
<1>1. Init => TidyInv
  <2> SUFFICES ASSUME Init, NEW r \in Run PROVE PairTidy(r) /\ StagingTidy(r)
    BY DEF TidyInv
  <2>1. job[r] \in Job
    BY PublishAssumption DEF Init, Job, Version
  <2>2. Mine(r) \in Entry /\ ManifestOf(r) \in Name /\ OutputOf(r) \in Name
    BY <2>1 DEF Mine, Entry, Job, ManifestOf, OutputOf, Name, Stage
  <2>3. \A n \in Name : dir[n] \notin Entry
    BY EntryAssumption DEF Init
  <2> QED BY <2>2, <2>3 DEF Init, PairTidy, StagingTidy
<1>2. TypeOK /\ TypeOK' /\ FlagsInv /\ FlagsInv' /\ PairInv /\ EntryInv /\ EntryInv' /\ TidyInv /\ [Next]_vars
        => TidyInv'
  <2> SUFFICES ASSUME TypeOK, TypeOK', FlagsInv, FlagsInv', PairInv, EntryInv, EntryInv', TidyInv,
                      [Next]_vars, NEW q \in Run
               PROVE  PairTidy(q)' /\ StagingTidy(q)'
    BY DEF TidyInv
  <2>1. PairTidy(q) /\ StagingTidy(q)
    BY DEF TidyInv
  <2>2. CASE UNCHANGED vars
    BY <2>1, <2>2, PairTidyFramed DEF vars, StagingTidy
  <2>3. CASE Environment
    BY <2>1, <2>3, TidyOfEnvironment
  <2>4. ASSUME NEW r \in Run, Execute(r) \/ Fault(r), r # q PROVE PairTidy(q)' /\ StagingTidy(q)'
    BY <2>1, <2>4, PairTidyOfOthers, StagingOfOthers
  <2>5. CASE Execute(q)
    BY <2>1, <2>5, PairTidyOfRun, StagingOfRun
  <2>6. CASE Fault(q)
    BY <2>1, <2>6, PairTidyOfFault, StagingOfRun
  <2> QED BY <2>2, <2>3, <2>4, <2>5, <2>6 DEF Next
<1>3. FlagsInv /\ PairInv /\ TidyInv => FailureCleansUp
  <2> SUFFICES ASSUME FlagsInv, PairInv, TidyInv, NEW r \in Run, pc[r] \in {"failed", "done"}
               PROVE  /\ dir[ManifestOf(r)] = Mine(r) <=> dir[OutputOf(r)] = Mine(r)
                      /\ \A s \in Stage : <<r, s>> \notin temps
    BY DEF FailureCleansUp, NeverOrphaned
  <2>1. FlagsOf(r) /\ RunInv(r) /\ PairTidy(r) /\ StagingTidy(r)
    BY DEF FlagsInv, PairInv, TidyInv
  <2>2. CASE "output" \in flags[r]
    BY <2>1, <2>2 DEF FlagsOf, RunInv, Holds, Present, StagingTidy
  <2>3. CASE "output" \notin flags[r]
    BY <2>1, <2>3 DEF PairTidy, ManifestUp, OutputUp, Writing, StagingTidy
  <2> QED BY <2>2, <2>3
<1> QED BY <1>1, <1>2, <1>3, TypeCorrect, PairCorrect, EntryCorrect, PTL DEF Spec
=============================================================================

----------------------------- MODULE BatchRepair -----------------------------
(***************************************************************************)
(* batch.py: repairs of many files into one output directory, after and    *)
(* beside the scans whose reports name the files, beside one another, and  *)
(* beside agents that append.  What execute() does with one pair of output *)
(* and manifest is RepairPublish; here it is a claim of the manifest and a *)
(* publication of the output, as in ReceiptLedger.                         *)
(*                                                                         *)
(* The output and manifest directories are outside the tree.  A receipt is *)
(* a manifest: [src, content, out, by], the session that was repaired, its *)
(* bytes, the name of the output and the batch.                            *)
(***************************************************************************)
EXTENDS Scan

CONSTANTS
  Batcher,     \* processes that repair batches
  PlanOf(_),   \* content -> what the planner says of it: "fails", "blocked", "nothing" or "steps"
  PathOrder,   \* the paths of all trees in the order of their texts
  MaxErrors    \* bound: repairs and relocations that fail for a reason not modelled

\* The entry that a path names in a tree, or None.
EntryIn(tr, path) ==
  LET there == Inside(tr, Leads(tr, Front(path)), Last(path))
  IN IF there = {} THEN None ELSE CHOOSE e \in there : TRUE

\* What a link points at has a name of its own, and every path stands once in the
\* order.
PathsAssumption ==
  /\ PathOrder \in Seq(Range(PathOrder))
  /\ \A i, j \in DOMAIN PathOrder : PathOrder[i] = PathOrder[j] => i = j
  /\ \A c \in Cases :
       /\ c.scanners \subseteq Scanner
       /\ None \notin c.tree.files
       /\ \A d \in DOMAIN c.tree.dirs : \A e \in Range(c.tree.dirs[d]) :
            e.ino \in DOMAIN Ledger => \E p \in c.tree.files : EntryIn(c.tree, p).ino = e.ino

\* What the planner says, and None, are not other reasons for a row.
PlannerAssumption ==
  /\ \A i \in DOMAIN Ledger : \A x \in Range(Ledger[i]) : PlanOf(x) \in {"fails", "blocked", "nothing", "steps"}
  /\ None \notin {"exists", "unresolvable-path"}

ASSUME BatchAssumption == PathsAssumption /\ PlannerAssumption

-----------------------------------------------------------------------------
VARIABLES
  asked,      \* the scanners at work, and the request of each batch
  turn,       \* per batch: where its loop stands
  hand,       \* the file in hand: its path, the bytes planned for, its output
  left,       \* the files still to come
  told,       \* the rows of the report
  assigned,   \* the output names given out
  outputs,    \* names of outputs -> what they were made from
  adjacent,   \* names of outputs -> the manifest beside them
  receipts,   \* the manifest directory: digest of a source -> manifest
  errors      \* bounded by MaxErrors

local == <<turn, hand, left, told, assigned>>
shared == <<outputs, adjacent, receipts>>
batchVars == <<asked, local, shared, errors>>

-----------------------------------------------------------------------------
(* Files and names.                                                         *)

EntryAt(path) == EntryIn(tree, path)
IsFile(path) == path # << >> /\ EntryAt(path) # None /\ EntryAt(path).ino \in DOMAIN Ledger
InodeAt(path) == EntryAt(path).ino

\* resolve(): a link is the file it points at.
Resolve(path) == IF path \in tree.files THEN path ELSE CHOOSE p \in tree.files : InodeAt(p) = InodeAt(path)

Without(f, x) == Restrict(f, DOMAIN f \ {x})

\* iter_batch_files: links are not followed, and directories that cannot be listed
\* are passed over.
IterFiles(dir) ==
  {p \in tree.files :
     /\ Under(dir, p)
     /\ EntryAt(p).kind \in {"file", "index", "state"}
     /\ \A n \in Len(dir) + 1 .. Len(p) - 1 :
          EntryAt(SubSeq(p, 1, n)).kind = "dir" /\ EntryAt(SubSeq(p, 1, n)).ino \notin tree.closed}

\* Paths in a report are shortened; a hashed directory cannot be found again.
FromScan(order) == IF order.fromScan = None THEN {} ELSE {r.path : r \in Range(report[order.fromScan])}
Unresolvable(order) == FromScan(order) \cap order.hashed

BatchFiles(order) == UNION {IterFiles(d) : d \in order.dirs} \cup order.paths \cup (FromScan(order) \ order.hashed)

\* sorted(), of paths.
Sorted(paths) == FoldLeft(LAMBDA q, p : IF p \in paths THEN Append(q, p) ELSE q, << >>, PathOrder)

\* A single directory is the root that the output directory mirrors.
CommonRoot(order) ==
  IF order.paths = {} /\ Cardinality(order.dirs) = 1 THEN CHOOSE d \in order.dirs : TRUE ELSE None

OutputFor(path, order) ==
  LET root == CommonRoot(order)
      real == Resolve(path)
      mirrored == root # None /\ Under(root, real)
  IN [dir |-> order.outDir, name |-> Stem(path), digest |-> None,
      under |-> IF mirrored THEN SubSeq(real, Len(root) + 1, Len(real) - 1) ELSE << >>]

\* Mutant: names are taken as they come.
NameTaken(b, path) == OutputFor(path, asked.batches[b])

\* A name given out already gets the digest of the source in front.
NameGiven(b, path) ==
  LET out == OutputFor(path, asked.batches[b])
  IN IF out \in assigned[b] THEN [out EXCEPT !.digest = Resolve(path)] ELSE out

-----------------------------------------------------------------------------
(* The loop over the files.                                                 *)

ReportRow(path, outcome, reason, out, receipt) ==
  [path |-> path, outcome |-> outcome, reason |-> reason, out |-> out, receipt |-> receipt]

StartBatch(b) ==
  LET order == asked.batches[b]
  IN /\ turn[b] = "idle"
     /\ order # None
     /\ order.fromScan # None => pc[order.fromScan] = "done"
     /\ left' = [left EXCEPT ![b] = Sorted(BatchFiles(order))]
     /\ turn' = [turn EXCEPT ![b] = "next"]
     /\ UNCHANGED <<hand, told, assigned, shared, errors>>

\* The row of the first file, and on to the next one.
Tell(b, row) ==
  /\ told' = [told EXCEPT ![b] = Append(@, row)]
  /\ left' = [left EXCEPT ![b] = Tail(@)]
  /\ turn' = [turn EXCEPT ![b] = "next"]
  /\ hand' = [hand EXCEPT ![b] = None]

AtFile(b) == turn[b] = "next" /\ left[b] # << >>

SourceMissing(b) ==
  /\ AtFile(b) /\ ~IsFile(Head(left[b]))
  /\ Tell(b, ReportRow(Head(left[b]), "skipped", "source-missing", None, None))
  /\ UNCHANGED <<assigned, shared, errors>>

Judgement(b) == PlanOf(Content(InodeAt(Head(left[b]))))

NotEligible(b) ==
  /\ AtFile(b) /\ IsFile(Head(left[b])) /\ Judgement(b) # "steps"
  /\ Tell(b, ReportRow(Head(left[b]), "skipped", Judgement(b), None, None))
  /\ UNCHANGED <<assigned, shared, errors>>

DryRun(b) ==
  /\ AtFile(b) /\ IsFile(Head(left[b])) /\ Judgement(b) = "steps" /\ asked.batches[b].dryRun
  /\ Tell(b, ReportRow(Head(left[b]), "eligible", None, None, None))
  /\ UNCHANGED <<assigned, shared, errors>>

\* The plan binds the bytes of the one read that it was computed from.
Eligible(b) ==
  LET path == Head(left[b])
      out == NameGiven(b, path)
  IN /\ AtFile(b) /\ IsFile(path) /\ Judgement(b) = "steps" /\ ~asked.batches[b].dryRun
     /\ hand' = [hand EXCEPT ![b] = [src |-> Resolve(path), content |-> Content(InodeAt(path)), out |-> out, by |-> b]]
     /\ assigned' = [assigned EXCEPT ![b] = @ \cup {out}]
     /\ turn' = [turn EXCEPT ![b] = "planned"]
     /\ UNCHANGED <<left, told, shared, errors>>

-----------------------------------------------------------------------------
(* The repair of one file: apply_plan.                                      *)

Refused(b, reason) == Tell(b, ReportRow(Head(left[b]), "refused", reason, hand[b].out, None))

\* The source is read again twice, and the names are looked at, before anything is
\* written.  It may still change after the last look.
Stale(b) ==
  /\ turn[b] \in {"planned", "clear"} /\ Content(InodeAt(Head(left[b]))) # hand[b].content
  /\ Refused(b, "stale")
  /\ UNCHANGED <<assigned, shared, errors>>

NameInUse(b) ==
  /\ turn[b] = "planned" /\ hand[b].out \in DOMAIN outputs \cup DOMAIN adjacent
  /\ Refused(b, "exists")
  /\ UNCHANGED <<assigned, shared, errors>>

Preflight(b) ==
  /\ turn[b] = "planned" /\ Content(InodeAt(Head(left[b]))) = hand[b].content
  /\ hand[b].out \notin DOMAIN outputs \cup DOMAIN adjacent
  /\ turn' = [turn EXCEPT ![b] = "clear"]
  /\ UNCHANGED <<hand, left, told, assigned, shared, errors>>

\* Anything else that makes execute() raise; it leaves nothing (RepairPublish).
RepairFails(b) ==
  /\ turn[b] \in {"planned", "clear", "claimed"} /\ errors < MaxErrors
  /\ errors' = errors + 1
  /\ adjacent' = IF turn[b] = "claimed" THEN Without(adjacent, hand[b].out) ELSE adjacent
  /\ Refused(b, "error")
  /\ UNCHANGED <<assigned, outputs, receipts>>

ClaimManifest(b) ==
  /\ turn[b] = "clear"
  /\ IF hand[b].out \in DOMAIN adjacent
     THEN Refused(b, "exists") /\ UNCHANGED adjacent
     ELSE /\ adjacent' = Bind(adjacent, hand[b].out, hand[b])
          /\ turn' = [turn EXCEPT ![b] = "claimed"]
          /\ UNCHANGED <<hand, left, told>>
  /\ UNCHANGED <<assigned, outputs, receipts, errors>>

PublishOutput(b) ==
  /\ turn[b] = "claimed"
  /\ IF hand[b].out \in DOMAIN outputs
     THEN Refused(b, "exists") /\ adjacent' = Without(adjacent, hand[b].out) /\ UNCHANGED outputs
     ELSE /\ outputs' = Bind(outputs, hand[b].out, hand[b])
          /\ turn' = [turn EXCEPT ![b] = "published"]
          /\ UNCHANGED <<hand, left, told, adjacent>>
  /\ UNCHANGED <<assigned, receipts, errors>>

-----------------------------------------------------------------------------
(* The receipt moves to the manifest directory, if there is one.            *)

Repaired(b, reason, receipt) == Tell(b, ReportRow(Head(left[b]), "repaired", reason, hand[b].out, receipt))

ReceiptStays(b) ==
  /\ turn[b] = "published" /\ ~asked.batches[b].manifestDir
  /\ Repaired(b, None, "adjacent")
  /\ UNCHANGED <<assigned, shared, errors>>

\* Mutant: the receipt of another output of this source is replaced.
CopyReceiptOver(b) ==
  /\ turn[b] = "published" /\ asked.batches[b].manifestDir
  /\ receipts' = Bind(receipts, hand[b].src, adjacent[hand[b].out])
  /\ turn' = [turn EXCEPT ![b] = "copied"]
  /\ UNCHANGED <<hand, left, told, assigned, outputs, adjacent, errors>>

CopyReceipt(b) ==
  /\ turn[b] = "published" /\ asked.batches[b].manifestDir
  /\ hand[b].src \notin DOMAIN receipts
  /\ receipts' = Bind(receipts, hand[b].src, adjacent[hand[b].out])
  /\ turn' = [turn EXCEPT ![b] = "copied"]
  /\ UNCHANGED <<hand, left, told, assigned, outputs, adjacent, errors>>

\* The source has a receipt there already, or the copy fails.
RelocationRefused(b) ==
  /\ turn[b] = "published" /\ asked.batches[b].manifestDir
  /\ IF hand[b].src \in DOMAIN receipts THEN UNCHANGED errors
     ELSE errors < MaxErrors /\ errors' = errors + 1
  /\ Repaired(b, "manifest-relocation-refused", "adjacent")
  /\ UNCHANGED <<assigned, shared>>

UnlinkAdjacent(b) ==
  /\ turn[b] = "copied"
  /\ adjacent' = Without(adjacent, hand[b].out)
  /\ Repaired(b, None, "relocated")
  /\ UNCHANGED <<assigned, outputs, receipts, errors>>

Lost(row) == row.reason = "unresolvable-path"

\* The report, with the names that could not be resolved.
EndBatch(b) ==
  /\ turn[b] = "next" /\ left[b] = << >>
  /\ LET lost == Sorted(Unresolvable(asked.batches[b]))
     IN told' = [told EXCEPT ![b] = @ \o [i \in DOMAIN lost |-> ReportRow(lost[i], "skipped", "unresolvable-path", None, None)]]
  /\ turn' = [turn EXCEPT ![b] = "done"]
  /\ UNCHANGED <<hand, left, assigned, shared, errors>>

\* Killed, cancelled between two files, or ended by an error that the loop does not
\* catch: a directory that cannot be made, a receipt that cannot be unlinked.
Die(b) ==
  /\ turn[b] \notin {"idle", "done", "dead"} /\ errors < MaxErrors
  /\ errors' = errors + 1
  /\ turn' = [turn EXCEPT ![b] = "dead"]
  /\ UNCHANGED <<hand, left, told, assigned, shared>>

-----------------------------------------------------------------------------
BatchStep(b) ==
  /\ \/ StartBatch(b) \/ SourceMissing(b) \/ NotEligible(b) \/ DryRun(b) \/ Eligible(b)
     \/ Stale(b) \/ NameInUse(b) \/ Preflight(b) \/ RepairFails(b) \/ ClaimManifest(b) \/ PublishOutput(b)
     \/ ReceiptStays(b) \/ CopyReceipt(b) \/ RelocationRefused(b) \/ UnlinkAdjacent(b)
     \/ EndBatch(b) \/ Die(b)
  /\ UNCHANGED <<vars, asked>>

BatchInit ==
  /\ Init
  /\ \E c \in Cases : c.tree = tree /\ c.options = cfg /\ asked = [scanners |-> c.scanners, batches |-> c.batches]
  /\ turn = [b \in Batcher |-> "idle"]
  /\ hand = [b \in Batcher |-> None]
  /\ left = [b \in Batcher |-> << >>]
  /\ told = [b \in Batcher |-> << >>]
  /\ assigned = [b \in Batcher |-> {}]
  /\ outputs = << >> /\ adjacent = << >> /\ receipts = << >>
  /\ errors = 0

BatchNext ==
  \/ (AgentStep \/ \E s \in asked.scanners : ScanStep(s)) /\ UNCHANGED batchVars
  \/ \E b \in Batcher : BatchStep(b)

BatchSpec == BatchInit /\ [][BatchNext]_<<vars, batchVars>>

-----------------------------------------------------------------------------
Holds(f, x, y) == x \in DOMAIN f /\ f[x] = y

\* Whatever two batches do to each other's names and wherever one of them dies, an
\* output has a receipt, beside it or in the manifest directory, that tells what it
\* was made from: none is replaced by that of another output of its source.  A
\* report names the receipts where they are, lists each file once beside the names it
\* could not resolve, and refuses no session over a name that the batch itself gave to
\* another (batch.py:338).
ReceiptsAccounted ==
  /\ \A out \in DOMAIN outputs :
       Holds(adjacent, out, outputs[out]) \/ Holds(receipts, outputs[out].src, outputs[out])
  /\ \A b \in Batcher : \A i \in DOMAIN told[b] :
       LET row == told[b][i]
       IN /\ \A j \in DOMAIN told[b] :
               told[b][j].path = row.path /\ (Lost(told[b][j]) <=> Lost(row)) => i = j
          /\ row.outcome = "repaired" =>
               /\ row.out \in DOMAIN outputs
               /\ outputs[row.out].by = b /\ outputs[row.out].src = Resolve(row.path)
               /\ row.receipt = "adjacent" => Holds(adjacent, row.out, outputs[row.out])
               /\ row.receipt = "relocated" => Holds(receipts, Resolve(row.path), outputs[row.out])
          /\ row.reason = "exists" /\ row.out \in DOMAIN outputs =>
               outputs[row.out].by # b \/ outputs[row.out].src = Resolve(row.path)
=============================================================================

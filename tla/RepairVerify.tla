---------------------------- MODULE RepairVerify ----------------------------
(***************************************************************************)
(* A repair and its later verification: what the accepted repair leaves on *)
(* disk (the copy and a manifest of what was done), what may happen to the *)
(* three files afterwards, and the seven checks of verify.  Verify hashes  *)
(* the bytes it read first, but decodes both files again by their paths.   *)
(* A copy of a vendor's file reads back as the events it was made from.    *)
(***************************************************************************)
EXTENDS RepairPipeline

CONSTANTS MaxMeddles  \* bound: changes to the three files after the repair

ASSUME VerifyAssumption == MaxMeddles \in Nat

VARIABLES out,       \* the lines of the repaired copy
          manifest,  \* what the manifest beside it says
          held,      \* what verify was given and read: both files' bytes, the
                     \* acknowledgement, and whether the executed plan came along
          verdict,   \* "none", "passed" or "failed"
          meddled    \* changes so far to the files

verifyVars == <<out, manifest, held, verdict, meddled>>

NotRead == [source |-> <<>>, out |-> <<>>, ack |-> FALSE, planned |-> FALSE]

(***************************************************************************)
(* The manifest.                                                           *)
(***************************************************************************)
RecipesOf(steps) == [i \in DOMAIN steps |-> steps[i].recipe]
Times(x, s) == Cardinality({i \in DOMAIN s : s[i] = x})

\* What the fingerprint of a plan covers: two plans of the same steps have them
\* in the same order.
Fingerprint(source, policy, steps, p) ==
  [source |-> source, policy |-> policy, steps |-> steps, blocked |-> p.blocked, waiting |-> p.waiting]

Executed == Fingerprint(plan.source, plan.policy, ToSet(applied), plan)

\* What the checks of a format say of a copy; undecoded lines are stream findings.
Report(lines, format) ==
  LET Of(found) == [level |-> Assurance(Decoded(lines), found),
                    errors |-> Cardinality(Errors(found)), warnings |-> Cardinality(Warnings(found))]
  IN Of(AllFindings(lines, format))

\* A canonical session holds the events and nothing of where they came from.
DumpCanonical(events) == Untag(events)

Copy ==
  IF emit = "vendor"
  THEN LET lines == Projected(loaded, working) IN [i \in DOMAIN lines |-> [lines[i] EXCEPT !.origin = 0]]
  ELSE DumpCanonical(working)

BuildManifest(copy, report) ==
  [source |-> plan.source, out |-> copy, plan |-> Executed, policy |-> plan.policy, loss |-> Losses(applied),
   actions |-> RecipesOf(applied), pedigree |-> Pedigree(applied),
   report |-> report, ceiling |-> Ceiling(report.level, plan.policy)]

NoManifest ==
  [source |-> <<>>, out |-> <<>>, plan |-> Fingerprint(<<>>, "conservative", {}, NoPlan), policy |-> "conservative",
   loss |-> <<>>, actions |-> <<>>, pedigree |-> "clean",
   report |-> [level |-> "A0", errors |-> 0, warnings |-> 0], ceiling |-> "A0"]

Repair ==
  /\ Next
  /\ IF pc # "written" /\ pc' = "written"
     THEN out' = Copy /\ manifest' = BuildManifest(out', Report(out', emit))
     ELSE UNCHANGED <<out, manifest>>
  /\ UNCHANGED <<held, verdict, meddled>>

(***************************************************************************)
(* What others do to the files once the repair is done.                    *)
(***************************************************************************)
\* Only of a repair that changed something; the others differ in nothing checked.
Meddles ==
  /\ pc = "written" /\ verdict = "none" /\ applied # <<>> /\ meddled < MaxMeddles
  /\ meddled' = meddled + 1
  /\ UNCHANGED <<origin, plan, emit, loaded, working, todo, applied, pc, held, verdict>>

\* The session goes on; the manifest may be edited to agree.
SourceGrows ==
  /\ Meddles
  /\ Len(file) < MaxLen
  /\ \E r \in Appended : file' = Append(file, r)
  /\ manifest' \in {manifest, [manifest EXCEPT !.source = file']}
  /\ UNCHANGED out

\* The copy is used, or cut; the manifest may be edited to agree.
CopyChanges ==
  /\ Meddles
  /\ \/ \E r \in Appended : out' = Append(out, r)
     \/ out # <<>> /\ out' = Front(out)
  /\ manifest' \in {manifest, [manifest EXCEPT !.out = out']}
  /\ UNCHANGED file

LossHidden ==
  /\ Meddles
  /\ manifest.loss # <<>>
  /\ manifest' = [manifest EXCEPT !.loss = [i \in DOMAIN manifest.loss |-> 0]]
  /\ UNCHANGED <<file, out>>

(***************************************************************************)
(* Verify.  The steps it has are those applied once the second check, that *)
(* of the plan, passes; without that it fails whatever the others say.     *)
(***************************************************************************)
VerifyReads ==
  /\ pc = "written" /\ held = NotRead
  /\ \E planned \in BOOLEAN, ack \in Answers(manifest.policy) :
       held' = [source |-> file, out |-> out, ack |-> ack, planned |-> planned]
  /\ UNCHANGED <<vars, out, manifest, verdict, meddled>>

SourceHash == held.source = manifest.source
OutputHash == held.out = manifest.out

\* The plans for the source as it is now, without and with an acknowledgement.
Rebuilt ==
  LET Of(p) == Fingerprint(held.source, manifest.policy, p.steps, p)
  IN [ack \in Answers(manifest.policy) |-> Of(Planned(file, origin.format, manifest.policy, ack))]

\* Without a plan, an acknowledgement the manifest does not record is tried too.
EffectiveAck(rebuilt) ==
  held.ack \/ (/\ ~held.planned /\ manifest.policy = "salvage"
               /\ rebuilt[FALSE] # manifest.plan /\ rebuilt[TRUE] = manifest.plan)

\* Every step of a supplied plan must be one planned for the source now.
Vetted(rebuilt) == held.source = plan.source /\ ToSet(applied) \subseteq rebuilt[held.ack].steps

PlanFingerprint(rebuilt) ==
  IF held.planned THEN Vetted(rebuilt) /\ Executed = manifest.plan
  ELSE rebuilt[EffectiveAck(rebuilt)] = manifest.plan

\* The steps carried out again: what they make of s, or that one cannot be.
Replay(steps, s) ==
  LET after[n \in 0 .. Len(steps)] ==
        IF n = 0 THEN [ok |-> TRUE, events |-> Tag(s)]
        ELSE LET was == after[n - 1].events
             IN IF after[n - 1].ok /\ Relocatable(steps[n], was) /\ CarriesOut(Relocate(steps[n], was), was)
                THEN [ok |-> TRUE, events |-> Outcome(Relocate(steps[n], was), was)]
                ELSE [ok |-> FALSE, events |-> was]
  IN after[Len(steps)]

\* Mutant: the copy is not compared with the replay.
ReplayRuns(replayed) == replayed.ok

TransformationAudit(replayed) ==
  /\ out # <<>> => Decoded(out) # <<>>
  /\ \A name \in ToSet(AllRecipes) : Times(name, manifest.actions) = Times(name, RecipesOf(applied))
  /\ replayed.ok
  /\ Untag(replayed.events) = Untag(Decoded(out))
  /\ emit = "canonical" => TornLines(out) = {}

LossAudit == manifest.loss = Losses(applied)

\* The report is one of the canonical checks, whatever the format of the copy.
AssuranceAudit(report) ==
  /\ manifest.pedigree = Pedigree(applied)
  /\ manifest.report = report
  /\ manifest.ceiling = Ceiling(report.level, manifest.policy)

Idempotence(ack) == StepsFor(Decoded(out), emit, manifest.policy, ack) = {}

Passes(rebuilt) ==
  /\ SourceHash /\ PlanFingerprint(rebuilt) /\ OutputHash
  /\ TransformationAudit(Replay(applied, Decoded(file))) /\ LossAudit
  /\ AssuranceAudit(Report(out, "canonical")) /\ Idempotence(EffectiveAck(rebuilt))

VerifyJudges ==
  /\ held # NotRead /\ verdict = "none"
  /\ verdict' = IF Passes(Rebuilt) THEN "passed" ELSE "failed"
  /\ UNCHANGED <<vars, out, manifest, held, meddled>>

VerifyInit ==
  /\ Init
  /\ out = <<>> /\ manifest = NoManifest
  /\ held = NotRead /\ verdict = "none" /\ meddled = 0

VerifyNext == Repair \/ SourceGrows \/ CopyChanges \/ LossHidden \/ VerifyReads \/ VerifyJudges

VerifySpec == VerifyInit /\ [][VerifyNext]_<<vars, verifyVars>>

(***************************************************************************)
(* Properties.                                                             *)
(***************************************************************************)
\* Whatever was done to one of the files before or while verify ran, also with the
\* manifest edited to agree, a copy that passes is the one the repair emitted, of
\* the source it was emitted for, with the loss the applied steps declared.
VerifiedIsRepaired ==
  verdict = "passed" => /\ held.out = Copy /\ held.source = plan.source
                        /\ manifest.loss = Losses(applied)

\* A vendor's copy in which a tool was used after a compaction: the executor holds
\* that to be normal, the audit takes the missing checkpoint for an error.
JudgedTwoWays == emit = "vendor" /\ UnsafeContinuations(Decoded(out), TRUE) # {}

\* A repair by a whole plan passes verify when nobody touched the files, unless
\* the plan reunites a pair (RepairSettles): the checks made before the copy is
\* accepted agree with the ones verify makes of it without the executor's state,
\* but for the copies that the two judge as different formats, which never pass.
HonestRepairVerifies ==
  /\ verdict # "none" /\ meddled = 0 /\ Whole /\ ~Reunites
  /\ held.ack = plan.ack \/ (~held.ack /\ ~held.planned)
  => (verdict = "passed" <=> ~JudgedTwoWays)
=============================================================================

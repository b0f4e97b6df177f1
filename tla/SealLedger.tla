------------------------------ MODULE SealLedger ------------------------------
(***************************************************************************)
(* seal.py: the hash-chained ledger of verdicts, appended to by several    *)
(* processes under an advisory lock, killed or out of disk space in the    *)
(* middle of an append, and edited by somebody who takes no lock.          *)
(*                                                                         *)
(* SHA-256 over the canonical JSON of an entry is taken to be injective.   *)
(***************************************************************************)
EXTENDS Integers, Sequences, SequencesExt, FiniteSetsExt

CONSTANTS
  Sealer,     \* processes that append
  MaxSeals,   \* bound: appends each of them starts
  MaxEdits,   \* bound: edits of the file
  None, Torn  \* no holder of the lock; a line that is not valid JSON

ASSUME SealAssumption ==
  /\ MaxSeals \in Nat /\ MaxEdits \in Nat
  /\ None \notin Sealer

\* What an entry seals: whose outcome it is, and whether it rotates a ledger.
Body == [by : Sealer, n : 1..MaxSeals, genesis : BOOLEAN, edited : BOOLEAN]

GENESIS == "GENESIS"
EntryHash(seq, prev, body) == <<seq, prev, body>>
BuildEntry(seq, prev, body) ==
  [seq |-> seq, prev |-> prev, body |-> body, hash |-> EntryHash(seq, prev, body)]

VARIABLES
  lines,    \* the lines of the file
  ended,    \* its last byte is a newline, or it is empty
  lock,     \* the holder of the flock
  pc, count, body, entry,   \* per sealer: step, appends, subject, line to write
  acked,    \* entries append_seal returned
  written,  \* every whole entry that reached the file, in order
  edits     \* the edits made, by kind

file == <<lines, ended>>
vars == <<lines, ended, lock, pc, count, body, entry, acked, written, edits>>

IsEntry(e) ==
  /\ e # Torn
  /\ DOMAIN e = {"seq", "prev", "body", "hash"}
  /\ e.seq \in Nat \ {0} /\ e.body \in Body

TypeOK ==
  /\ \A i \in DOMAIN lines : lines[i] = Torn \/ IsEntry(lines[i])
  /\ ended \in BOOLEAN
  /\ lock \in Sealer \cup {None}
  /\ pc \in [Sealer -> {"idle", "wait", "locked", "append", "sealed", "failed"}]
  /\ count \in [Sealer -> 0..MaxSeals]
  /\ \A p \in Sealer : body[p] \in Body /\ (pc[p] = "append" => IsEntry(entry[p]))
  /\ \A e \in acked : IsEntry(e)
  /\ edits \in Seq({"body", "drop", "swap", "tear", "cut"})

Init ==
  /\ lines = << >> /\ ended = TRUE
  /\ lock = None
  /\ pc = [p \in Sealer |-> "idle"]
  /\ count = [p \in Sealer |-> 0]
  /\ body \in [Sealer -> [by : {CHOOSE p \in Sealer : TRUE}, n : {1},
                          genesis : {FALSE}, edited : {FALSE}]]
  /\ entry = [p \in Sealer |-> Torn]
  /\ acked = {} /\ written = << >> /\ edits = << >>

-----------------------------------------------------------------------------
(* verify_lines.                                                           *)

\* Mutants: the hash is not recomputed; the sequence numbers are not compared.
KindAtUnhashed(ls, i) ==
  IF ls[i] = Torn THEN "malformed-line"
  ELSE IF ls[i].seq # i THEN "seq-gap"
  ELSE IF ls[i].prev # (IF i = 1 THEN GENESIS ELSE ls[i - 1].hash) THEN "chain-break"
  ELSE "ok"
KindAtUnnumbered(ls, i) ==
  IF ls[i] = Torn THEN "malformed-line"
  ELSE IF ls[i].prev # (IF i = 1 THEN GENESIS ELSE ls[i - 1].hash) THEN "chain-break"
  ELSE IF ls[i].hash # EntryHash(ls[i].seq, ls[i].prev, ls[i].body) THEN "hash-mismatch"
  ELSE "ok"

\* Why line i does not follow the intact lines before it; "ok" if it does.
KindAt(ls, i) ==
  IF ls[i] = Torn THEN "malformed-line"
  ELSE IF ls[i].seq # i THEN "seq-gap"
  ELSE IF ls[i].prev # (IF i = 1 THEN GENESIS ELSE ls[i - 1].hash) THEN "chain-break"
  ELSE IF ls[i].hash # EntryHash(ls[i].seq, ls[i].prev, ls[i].body) THEN "hash-mismatch"
  ELSE "ok"

Divergent(ls) == {i \in DOMAIN ls : \E j \in 1..i : KindAt(ls, j) # "ok"}
Intact(ls) == Divergent(ls) = {}
FirstKind(ls) == IF Intact(ls) THEN "ok" ELSE KindAt(ls, Min(Divergent(ls)))

-----------------------------------------------------------------------------
(* append_seal.                                                            *)

GoTo(p, from, to) == pc[p] = from /\ pc' = [pc EXCEPT ![p] = to]

Start(p) ==
  /\ count[p] < MaxSeals
  /\ GoTo(p, "idle", "wait")
  /\ count' = [count EXCEPT ![p] = @ + 1]
  /\ \E genesis \in BOOLEAN :
       body' = [body EXCEPT ![p] = [by |-> p, n |-> count'[p], genesis |-> genesis, edited |-> FALSE]]
  /\ UNCHANGED <<file, lock, entry, acked, written, edits>>

\* Mutant: the lock is not taken.
LockNothing(p) ==
  /\ GoTo(p, "wait", "locked")
  /\ UNCHANGED <<file, lock, count, body, entry, acked, written, edits>>

Lock(p) ==
  /\ lock = None
  /\ GoTo(p, "wait", "locked")
  /\ lock' = p
  /\ UNCHANGED <<file, count, body, entry, acked, written, edits>>

MayExtend(p) == Intact(lines) /\ (body[p].genesis => lines = << >>)

NextEntry(p) ==
  BuildEntry(Len(lines) + 1, IF lines = << >> THEN GENESIS ELSE Last(lines).hash, body[p])

\* Mutants: a last line that does not parse starts the chain anew; seq from 0.
VerifyNothing(p) ==
  /\ body[p].genesis => lines = << >>
  /\ GoTo(p, "locked", "append")
  /\ entry' = [entry EXCEPT ![p] =
       IF lines # << >> /\ Last(lines) = Torn
       THEN BuildEntry(Len(lines) + 1, GENESIS, body[p]) ELSE NextEntry(p)]
  /\ UNCHANGED <<file, lock, count, body, acked, written, edits>>

\* One read of the ledger: the chain is verified and the entry built on it.
Verify(p) ==
  /\ MayExtend(p)
  /\ GoTo(p, "locked", "append")
  /\ entry' = [entry EXCEPT ![p] = NextEntry(p)]
  /\ UNCHANGED <<file, lock, count, body, acked, written, edits>>

VerifyRefuses(p) ==
  /\ ~ MayExtend(p)
  /\ GoTo(p, "locked", "failed")
  /\ UNCHANGED <<file, lock, count, body, entry, acked, written, edits>>

\* A single write of the line, after a newline if the file does not end in one.
Append1(p) ==
  /\ lines' = Append(lines, entry[p])
  /\ written' = Append(written, entry[p])

WriteLine(p) ==
  /\ GoTo(p, "append", "sealed")
  /\ Append1(p)
  /\ ended' = TRUE
  /\ UNCHANGED <<lock, count, body, entry, acked, edits>>

\* The write or the fsync fails, or the process dies in it: nothing, a prefix
\* of the line, the line without its newline, or all of it is in the file.
WriteFails(p) ==
  /\ GoTo(p, "append", "failed")
  /\ \/ UNCHANGED <<file, written>>
     \/ lines' = lines /\ written' = written /\ ~ ended /\ ended' = TRUE
     \/ lines' = Append(lines, Torn) /\ written' = written /\ ended' = FALSE
     \/ Append1(p) /\ ended' \in BOOLEAN
  /\ UNCHANGED <<lock, count, body, entry, acked, edits>>

Return(p) ==
  /\ GoTo(p, "sealed", "idle")
  /\ acked' = acked \cup {entry[p]}
  /\ lock' = IF lock = p THEN None ELSE lock
  /\ UNCHANGED <<file, count, body, entry, written, edits>>

\* Mutant: an error leaves the lock taken.
RaiseLocked(p) ==
  /\ GoTo(p, "failed", "idle")
  /\ UNCHANGED <<file, lock, count, body, entry, acked, written, edits>>

Raise(p) ==
  /\ GoTo(p, "failed", "idle")
  /\ lock' = IF lock = p THEN None ELSE lock
  /\ UNCHANGED <<file, count, body, entry, acked, written, edits>>

\* The operating system releases the lock of a process that dies.
Kill(p) ==
  /\ pc[p] # "idle"
  /\ pc' = [pc EXCEPT ![p] = "idle"]
  /\ lock' = IF lock = p THEN None ELSE lock
  /\ UNCHANGED <<file, count, body, entry, acked, written, edits>>

AppendSeal(p) ==
  \/ Lock(p) \/ Verify(p) \/ VerifyRefuses(p) \/ WriteLine(p) \/ WriteFails(p)
  \/ Return(p) \/ Raise(p)

-----------------------------------------------------------------------------
(* Somebody edits the file.                                                *)

Edit(kind, new) ==
  /\ Len(edits) < MaxEdits
  /\ lines' = new
  /\ edits' = Append(edits, kind)
  /\ ended' = (ended \/ kind = "cut")
  /\ UNCHANGED <<lock, pc, count, body, entry, acked, written>>

EditBody(i) ==
  /\ lines[i] # Torn
  /\ Edit("body", [lines EXCEPT ![i].body.edited = TRUE])

DropLine(i) == i < Len(lines) /\ Edit("drop", RemoveAt(lines, i))

SwapLines(i) ==
  /\ i < Len(lines)
  /\ Edit("swap", [lines EXCEPT ![i] = lines[i + 1], ![i + 1] = lines[i]])

\* The end of the last line is cut off, or the last line is.
TearTail(i) == i = Len(lines) /\ Edit("tear", [lines EXCEPT ![i] = Torn])
CutTail(i) == i = Len(lines) /\ Edit("cut", Front(lines))

Editor ==
  \E i \in DOMAIN lines :
    EditBody(i) \/ DropLine(i) \/ SwapLines(i) \/ TearTail(i) \/ CutTail(i)

Next == Editor \/ \E p \in Sealer : Start(p) \/ AppendSeal(p) \/ Kill(p)

Spec == Init /\ [][Next]_vars

\* A sealer that got the lock goes on; nothing is assumed about who gets it.
FairSpec == Spec /\ \A p \in Sealer : WF_vars(AppendSeal(p))

-----------------------------------------------------------------------------
(* Properties.                                                             *)

\* A ledger that verifies is what was written, all of it and in order: a line
\* edited, dropped, swapped or torn, with appends going on, does not go by.  Whole
\* lines cut off the end do, but what is left was still written.
VerifiedIsWritten ==
  Intact(lines) => IF edits = <<"cut">> THEN ToSet(lines) \subseteq ToSet(written)
                   ELSE lines = written

\* While nobody edits the file, every entry append_seal returned stands at its
\* own line, however many processes append, fail or die.
AckedInLedger ==
  edits = << >> => \A e \in acked : e.seq \in DOMAIN lines /\ lines[e.seq] = e

\* "a divergent ledger is never extended": an interrupted append stops the
\* ledger for good instead of being buried under later lines.
DivergentNeverExtended ==
  [][edits' = << >> /\ Len(lines') > Len(lines) => Intact(lines)]_vars

\* One edit is named as what it is (docs/seal.md, "Detected").
EditNamed ==
  Len(edits) = 1 =>
    /\ edits[1] = "body" => FirstKind(lines) = "hash-mismatch"
    /\ edits[1] \in {"drop", "swap"} => FirstKind(lines) \in {"seq-gap", "malformed-line"}
    /\ edits[1] = "tear" => FirstKind(lines) = "malformed-line"

\* Whoever holds the lock lets go of it, on every path out of append_seal.
LockReleased == lock # None ~> lock = None
=============================================================================

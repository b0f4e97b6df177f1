--------------------------- MODULE SealLedgerProofs ---------------------------
(***************************************************************************)
(* What append_seal guarantees for every number of processes and appends:  *)
(* failing and dying ones included, as long as nobody edits the file.      *)
(***************************************************************************)
EXTENDS SealLedger, TLAPS

\* The lines that can be in the file or that a process is about to write; what
\* they are does not matter, only that the file is a sequence of them.
FileInv == \E S : lines \in Seq(S)

\* Past Lock a process holds the lock, until it returns, raises or dies.
Inside == {"locked", "append", "sealed"}
LockInv == \A p \in Sealer : pc[p] \in Inside => lock = p

StepInv ==
  /\ pc \in [Sealer -> {"idle", "wait", "locked", "append", "sealed", "failed"}]
  /\ entry = [p \in Sealer |-> entry[p]]
  /\ \E K : edits \in Seq(K)

\* What the holder verified still holds when it writes, and what it wrote still
\* stands when it returns.
ChainInv ==
  edits = << >> =>
    /\ FileInv
    /\ \A p \in Sealer : pc[p] = "append" => Intact(lines) /\ entry[p].seq = Len(lines) + 1
    /\ \A p \in Sealer : pc[p] = "sealed" => entry[p].seq \in DOMAIN lines /\ lines[entry[p].seq] = entry[p]
    /\ \A e \in acked : e.seq \in DOMAIN lines /\ lines[e.seq] = e

SealInv == LockInv /\ StepInv /\ ChainInv

-----------------------------------------------------------------------------
\* A sequence over some set stays one when any line is appended.
LEMMA AppendKeeps ==
  ASSUME NEW s, NEW e, \E S : s \in Seq(S)
  PROVE  /\ \E S : Append(s, e) \in Seq(S)
         /\ Len(s) \in Nat /\ Len(Append(s, e)) = Len(s) + 1
         /\ DOMAIN s = 1..Len(s) /\ DOMAIN Append(s, e) = 1..(Len(s) + 1)
         /\ \A i \in DOMAIN s : Append(s, e)[i] = s[i]
         /\ Append(s, e)[Len(s) + 1] = e
<1>1. PICK S : s \in Seq(S)
  OBVIOUS
<1> DEFINE T == S \cup {e}
<1>2. s \in Seq(T) /\ e \in T
  BY <1>1
<1>3. Append(s, e) \in Seq(T)
  BY <1>2
<1>4. Len(s) \in Nat /\ DOMAIN s = 1..Len(s)
  BY <1>2
<1> HIDE DEF T
<1>5. Len(Append(s, e)) = Len(s) + 1 /\ DOMAIN Append(s, e) = 1..(Len(s) + 1)
  BY <1>2, <1>3
<1>6. \A i \in DOMAIN s : Append(s, e)[i] = s[i]
  BY <1>2, <1>4
<1>7. Append(s, e)[Len(s) + 1] = e
  BY <1>2, <1>4
<1> QED BY <1>3, <1>4, <1>5, <1>6, <1>7

-----------------------------------------------------------------------------
LEMMA InitSeal == Init => SealInv
<1> SUFFICES ASSUME Init PROVE SealInv
  OBVIOUS
<1>1. lines \in Seq({}) /\ edits \in Seq({}) /\ acked = {}
  BY DEF Init
<1>2. LockInv /\ ChainInv
  BY <1>1 DEF Init, LockInv, ChainInv, FileInv, Inside
<1>3. StepInv
  BY <1>1 DEF Init, StepInv
<1> QED BY <1>2, <1>3 DEF SealInv

\* Whoever else is past Lock when p is, is p.
LEMMA Alone ==
  ASSUME LockInv, NEW p \in Sealer, NEW q \in Sealer, pc[p] \in Inside, pc[q] \in Inside
  PROVE  q = p
  BY DEF LockInv

LEMMA LockKept ==
  ASSUME LockInv, StepInv, Next PROVE LockInv'
<1> USE DEF LockInv, StepInv, Inside, GoTo
<1>1. CASE Editor
  BY <1>1 DEF Editor, EditBody, DropLine, SwapLines, TearTail, CutTail, Edit
<1>2. ASSUME NEW p \in Sealer, Start(p) PROVE LockInv'
  BY <1>2 DEF Start
<1>3. ASSUME NEW p \in Sealer, Lock(p) PROVE LockInv'
  BY <1>3, SealAssumption DEF Lock
<1>4. ASSUME NEW p \in Sealer, Verify(p) \/ VerifyRefuses(p) PROVE LockInv'
  BY <1>4 DEF Verify, VerifyRefuses
<1>5. ASSUME NEW p \in Sealer, WriteLine(p) \/ WriteFails(p) PROVE LockInv'
  BY <1>5 DEF WriteLine, WriteFails
<1>6. ASSUME NEW p \in Sealer, Return(p) \/ Raise(p) \/ Kill(p) PROVE LockInv'
  BY <1>6 DEF Return, Raise, Kill
<1> QED BY <1>1, <1>2, <1>3, <1>4, <1>5, <1>6 DEF Next, AppendSeal

LEMMA StepKept ==
  ASSUME StepInv, Next PROVE StepInv'
<1> USE DEF GoTo
<1>1. CASE Editor
  <2>1. PICK kind : edits' = Append(edits, kind) /\ UNCHANGED <<pc, entry>>
    BY <1>1 DEF Editor, EditBody, DropLine, SwapLines, TearTail, CutTail, Edit
  <2>2. \E K : edits' \in Seq(K)
    BY <2>1, AppendKeeps DEF StepInv
  <2> QED BY <2>1, <2>2 DEF StepInv
<1>2. ASSUME NEW p \in Sealer, Start(p) \/ Kill(p) PROVE StepInv'
  BY <1>2 DEF StepInv, Start, Kill
<1>3. ASSUME NEW p \in Sealer, Verify(p) PROVE StepInv'
  BY <1>3 DEF StepInv, Verify
<1>4. ASSUME NEW p \in Sealer, AppendSeal(p), ~ Verify(p) PROVE StepInv'
  BY <1>4 DEF StepInv, AppendSeal, Lock, VerifyRefuses, WriteLine, WriteFails, Return, Raise
<1> QED BY <1>1, <1>2, <1>3, <1>4 DEF Next, AppendSeal

\* A line that stands where it was is not disturbed by another one after it.
LEMMA StandsOn ==
  ASSUME FileInv, NEW e, NEW new, e.seq \in DOMAIN lines, lines[e.seq] = e, lines' = Append(lines, new)
  PROVE  e.seq \in DOMAIN lines' /\ lines'[e.seq] = e
<1>1. /\ Len(lines) \in Nat
      /\ DOMAIN lines = 1..Len(lines) /\ DOMAIN lines' = 1..(Len(lines) + 1)
      /\ \A i \in DOMAIN lines : lines'[i] = lines[i]
  BY AppendKeeps DEF FileInv
<1>2. DOMAIN lines \subseteq DOMAIN lines'
  BY <1>1
<1> QED BY <1>1, <1>2

\* A step that appends at most one line, made by a process between Verify and
\* its end, after which that process is no longer about to write.
LEMMA WriteKept ==
  ASSUME LockInv, StepInv, ChainInv, NEW p \in Sealer, WriteLine(p) \/ WriteFails(p)
  PROVE  ChainInv'
<1> SUFFICES ASSUME edits = << >> PROVE ChainInv'
  BY DEF ChainInv, WriteLine, WriteFails
<1>1. /\ pc[p] = "append"
      /\ pc' \in {[pc EXCEPT ![p] = "sealed"], [pc EXCEPT ![p] = "failed"]}
      /\ UNCHANGED <<entry, acked, edits>>
      /\ lines' = lines \/ \E new : lines' = Append(lines, new)
  BY DEF WriteLine, WriteFails, Append1, GoTo, file
<1>2. FileInv /\ entry[p].seq = Len(lines) + 1
  BY <1>1 DEF ChainInv
<1>3. FileInv'
  <2>1. CASE lines' = lines
    BY <2>1, <1>2 DEF FileInv
  <2>2. ASSUME NEW new, lines' = Append(lines, new) PROVE FileInv'
    <3>1. \E S : Append(lines, new) \in Seq(S)
      BY <1>2, AppendKeeps DEF FileInv
    <3> QED BY <3>1, <2>2 DEF FileInv
  <2> QED BY <2>1, <2>2, <1>1
<1>4. ASSUME NEW q \in Sealer, pc'[q] = "append" PROVE FALSE
  <2>1. q # p /\ pc[q] = "append"
    BY <1>1, <1>4 DEF StepInv
  <2> QED BY <2>1, <1>1, Alone DEF Inside
<1>5. ASSUME NEW q \in Sealer, pc'[q] = "sealed"
      PROVE  entry'[q].seq \in DOMAIN lines' /\ lines'[entry'[q].seq] = entry'[q]
  <2>1. CASE q # p
    <3>1. pc[q] = "sealed"
      BY <1>1, <1>5, <2>1 DEF StepInv
    <3> QED BY <3>1, <2>1, <1>1, Alone DEF Inside
  <2>2. CASE q = p
    <3>1. lines' = Append(lines, entry[p])
      BY <2>2, <1>1, <1>5 DEF WriteLine, WriteFails, Append1, GoTo, StepInv
    <3>2. DOMAIN lines' = 1..(Len(lines) + 1) /\ lines'[Len(lines) + 1] = entry[p] /\ Len(lines) \in Nat
      BY <3>1, <1>2, AppendKeeps DEF FileInv
    <3> QED BY <3>2, <1>1, <1>2, <2>2
  <2> QED BY <2>1, <2>2
<1>6. ASSUME NEW e \in acked' PROVE e.seq \in DOMAIN lines' /\ lines'[e.seq] = e
  <2>1. e \in acked /\ e.seq \in DOMAIN lines /\ lines[e.seq] = e
    BY <1>1, <1>6 DEF ChainInv
  <2> QED BY <2>1, <1>1, <1>2, StandsOn
<1> QED BY <1>3, <1>4, <1>5, <1>6, <1>1 DEF ChainInv

\* The other steps leave the file as it is.
LEMMA ChainKept ==
  ASSUME LockInv, StepInv, ChainInv, Next PROVE ChainInv'
<1>1. CASE Editor
  <2>1. PICK kind : edits' = Append(edits, kind)
    BY <1>1 DEF Editor, EditBody, DropLine, SwapLines, TearTail, CutTail, Edit
  <2>2. Len(edits') = Len(edits) + 1 /\ Len(edits) \in Nat
    BY <2>1, AppendKeeps DEF StepInv
  <2>3. edits' # << >>
    BY <2>2
  <2> QED BY <2>3 DEF ChainInv
<1>2. ASSUME NEW p \in Sealer, WriteLine(p) \/ WriteFails(p) PROVE ChainInv'
  BY <1>2, WriteKept
<1>3. ASSUME NEW p \in Sealer, Verify(p) PROVE ChainInv'
  <2> SUFFICES ASSUME edits = << >> PROVE ChainInv'
    BY <1>3 DEF ChainInv, Verify
  <2>1. /\ pc[p] = "locked" /\ pc' = [pc EXCEPT ![p] = "append"] /\ Intact(lines)
        /\ entry' = [entry EXCEPT ![p] = NextEntry(p)] /\ UNCHANGED <<lines, acked, edits>>
    BY <1>3 DEF Verify, MayExtend, GoTo, file
  <2>2. NextEntry(p).seq = Len(lines) + 1
    BY DEF NextEntry, BuildEntry
  <2>3. \A q \in Sealer : q # p => pc[q] \notin Inside
    BY <2>1, Alone DEF Inside
  <2>4. \A q \in Sealer : pc'[q] = "append" => q = p
    BY <2>1, <2>3 DEF StepInv, Inside
  <2>5. \A q \in Sealer : pc'[q] # "sealed"
    BY <2>1, <2>3 DEF StepInv, Inside
  <2>6. entry'[p].seq = Len(lines) + 1
    BY <2>1, <2>2 DEF StepInv
  <2>7. Intact(lines)' /\ FileInv'
    BY <2>1 DEF ChainInv, FileInv, Intact, Divergent, KindAt
  <2> QED BY <2>1, <2>4, <2>5, <2>6, <2>7 DEF ChainInv
<1>4. ASSUME NEW p \in Sealer, Return(p) PROVE ChainInv'
  <2> SUFFICES ASSUME edits = << >> PROVE ChainInv'
    BY <1>4 DEF ChainInv, Return
  <2>1. /\ pc[p] = "sealed" /\ pc' = [pc EXCEPT ![p] = "idle"]
        /\ acked' = acked \cup {entry[p]} /\ UNCHANGED <<lines, entry, edits>>
    BY <1>4 DEF Return, GoTo, file
  <2>2. Intact(lines)' = Intact(lines) /\ FileInv' = FileInv
    BY <2>1 DEF FileInv, Intact, Divergent, KindAt
  <2>3. \A q \in Sealer : pc'[q] \in {"append", "sealed"} => pc[q] = pc'[q]
    BY <2>1 DEF StepInv
  <2> QED BY <2>1, <2>2, <2>3 DEF ChainInv
<1>5. ASSUME NEW p \in Sealer, Start(p) \/ Lock(p) \/ VerifyRefuses(p) \/ Raise(p) \/ Kill(p)
      PROVE  ChainInv'
  <2> SUFFICES ASSUME edits = << >> PROVE ChainInv'
    BY <1>5 DEF ChainInv, Start, Lock, VerifyRefuses, Raise, Kill
  <2>1. UNCHANGED <<lines, entry, edits, acked>>
    BY <1>5 DEF Start, Lock, VerifyRefuses, Raise, Kill, file
  <2>2. Intact(lines)' = Intact(lines) /\ FileInv' = FileInv
    BY <2>1 DEF FileInv, Intact, Divergent, KindAt
  <2>3. \A q \in Sealer : pc'[q] \in {"append", "sealed"} => pc[q] = pc'[q]
    BY <1>5 DEF Start, Lock, VerifyRefuses, Raise, Kill, GoTo, StepInv
  <2> QED BY <2>1, <2>2, <2>3 DEF ChainInv
<1> QED BY <1>1, <1>2, <1>3, <1>4, <1>5 DEF Next, AppendSeal

-----------------------------------------------------------------------------
\* The chain invariant holds for every number of processes and appends.
THEOREM ChainCorrect == Spec => []SealInv
<1>1. SealInv /\ [Next]_vars => SealInv'
  <2>1. CASE UNCHANGED vars
    BY <2>1 DEF vars, file, SealInv, LockInv, StepInv, ChainInv, FileInv, Intact, Divergent, KindAt
  <2>2. CASE Next
    BY <2>2, LockKept, StepKept, ChainKept DEF SealInv
  <2> QED BY <2>1, <2>2
<1> QED BY <1>1, InitSeal, PTL DEF Spec

\* Every entry that append_seal returned stands at its own line for good, while
\* nobody edits the file: appends neither lose, overwrite nor renumber one.
THEOREM AckedStays == Spec => []AckedInLedger
<1>1. SealInv => AckedInLedger
  BY DEF SealInv, ChainInv, AckedInLedger
<1> QED BY <1>1, ChainCorrect, PTL

\* A ledger that does not verify, after a torn append for instance, gets no
\* further line: what the lock holder verified is still so when it writes.
THEOREM TornStops == Spec => DivergentNeverExtended
<1>1. ASSUME SealInv, [Next]_vars, edits' = << >>, Len(lines') > Len(lines) PROVE Intact(lines)
  <2>1. edits = << >>
    <3>1. CASE Editor
      <4>1. PICK kind : edits' = Append(edits, kind)
        BY <3>1 DEF Editor, EditBody, DropLine, SwapLines, TearTail, CutTail, Edit
      <4>2. Len(edits') = Len(edits) + 1 /\ Len(edits) \in Nat
        BY <4>1, AppendKeeps DEF SealInv, StepInv
      <4> QED BY <4>2, <1>1
    <3>2. CASE ~ Editor
      BY <3>2, <1>1 DEF Next, vars, AppendSeal, Start, Kill, Lock, Verify, VerifyRefuses, WriteLine,
         WriteFails, Return, Raise
    <3> QED BY <3>1, <3>2
  <2>2. FileInv
    BY <2>1, <1>1 DEF SealInv, ChainInv
  <2>3. Len(lines) \in Nat
    BY <2>2 DEF FileInv
  <2>4. lines' # lines
    BY <2>3, <1>1
  <2>5. ~ Editor
    <3>1. ASSUME Editor PROVE \E kind : edits' = Append(edits, kind)
      BY <3>1 DEF Editor, EditBody, DropLine, SwapLines, TearTail, CutTail, Edit
    <3>2. ASSUME NEW kind, edits' = Append(edits, kind) PROVE FALSE
      <4>1. Len(edits') = Len(edits) + 1
        BY <3>2, AppendKeeps, <1>1 DEF SealInv, StepInv
      <4> QED BY <4>1, <2>1, <1>1
    <3> QED BY <3>1, <3>2
  <2>6. PICK p \in Sealer : pc[p] = "append"
    BY <2>4, <2>5, <1>1 DEF Next, vars, file, AppendSeal, Start, Kill, Lock, Verify, VerifyRefuses,
       WriteLine, WriteFails, Return, Raise, GoTo
  <2> QED BY <2>6, <2>1, <1>1 DEF SealInv, ChainInv
<1>2. SealInv /\ [Next]_vars => [edits' = << >> /\ Len(lines') > Len(lines) => Intact(lines)]_vars
  BY <1>1
<1> QED BY <1>2, ChainCorrect, PTL DEF Spec, DivergentNeverExtended

-----------------------------------------------------------------------------
(***************************************************************************)
(* What verifying the ledger shows when somebody may have edited it once,  *)
(* for every number of processes that go on appending, fail or die.        *)
(***************************************************************************)

\* An entry as append_seal builds it, and its subject as Start does.
Unedited(b) == b = [by |-> b.by, n |-> b.n, genesis |-> b.genesis, edited |-> FALSE]
Sound(e) == e = BuildEntry(e.seq, e.prev, e.body) /\ Unedited(e.body)

HeldInv ==
  /\ body = [p \in Sealer |-> body[p]]
  /\ \A p \in Sealer : Unedited(body[p]) /\ (pc[p] = "append" => Sound(entry[p]))

SomeSeq(s) == \E S : s \in Seq(S)
Covered == \A i \in DOMAIN lines : lines[i] = Torn \/ \E j \in DOMAIN written : written[j] = lines[i]

\* Before an edit: whole lines are sound and numbered by their place, and the
\* file is what was written unless a torn line made it divergent.
CalmInv ==
  edits = << >> =>
    /\ \A i \in DOMAIN lines : lines[i] = Torn \/ (Sound(lines[i]) /\ lines[i].seq = i)
    /\ lines = written \/ ~ Intact(lines)

\* After it: the divergence it made stays, or it cut off the end.
TamperInv ==
  /\ SomeSeq(lines) /\ SomeSeq(written)
  /\ CalmInv
  /\ edits \in {<< >>, <<"cut">>} => Covered
  /\ edits \notin {<< >>, <<"cut">>} => ~ Intact(lines)

-----------------------------------------------------------------------------
(* Divergence.                                                             *)

LEMMA AppendSome ==
  ASSUME NEW s, NEW e, SomeSeq(s)
  PROVE  /\ SomeSeq(Append(s, e))
         /\ Len(s) \in Nat /\ Len(Append(s, e)) = Len(s) + 1
         /\ DOMAIN s = 1..Len(s) /\ DOMAIN Append(s, e) = 1..(Len(s) + 1)
         /\ \A i \in DOMAIN s : Append(s, e)[i] = s[i]
         /\ Append(s, e)[Len(s) + 1] = e
<1>1. \E S : s \in Seq(S)
  BY DEF SomeSeq
<1>2. /\ \E S : Append(s, e) \in Seq(S)
      /\ Len(s) \in Nat /\ Len(Append(s, e)) = Len(s) + 1
      /\ DOMAIN s = 1..Len(s) /\ DOMAIN Append(s, e) = 1..(Len(s) + 1)
      /\ \A i \in DOMAIN s : Append(s, e)[i] = s[i]
      /\ Append(s, e)[Len(s) + 1] = e
  BY <1>1, AppendKeeps, Zenon
<1> QED BY <1>2 DEF SomeSeq

LEMMA IntactLines ==
  ASSUME NEW ls, SomeSeq(ls)
  PROVE  Intact(ls) <=> \A i \in DOMAIN ls : KindAt(ls, i) = "ok"
<1>1. DOMAIN ls = 1..Len(ls) /\ Len(ls) \in Nat
  BY DEF SomeSeq
<1>2. ASSUME NEW i \in DOMAIN ls PROVE i \in 1..i /\ \A j \in 1..i : j \in DOMAIN ls
  BY <1>1
<1> QED BY <1>2 DEF Intact, Divergent

\* A line says the same of itself whatever is appended after it.
LEMMA DivergenceStays ==
  ASSUME NEW ls, NEW e, SomeSeq(ls), ~ Intact(ls) PROVE ~ Intact(Append(ls, e))
<1>1. /\ SomeSeq(Append(ls, e)) /\ Len(ls) \in Nat
      /\ DOMAIN ls = 1..Len(ls) /\ DOMAIN Append(ls, e) = 1..(Len(ls) + 1)
      /\ \A i \in DOMAIN ls : Append(ls, e)[i] = ls[i]
  BY AppendSome
<1>2. PICK i \in DOMAIN ls : KindAt(ls, i) # "ok"
  BY IntactLines
<1>3. i \in DOMAIN Append(ls, e) /\ Append(ls, e)[i] = ls[i]
  BY <1>1
<1>4. i # 1 => Append(ls, e)[i - 1] = ls[i - 1]
  BY <1>1
<1>5. KindAt(Append(ls, e), i) # "ok"
  BY <1>2, <1>3, <1>4 DEF KindAt
<1> QED BY <1>1, <1>3, <1>5, IntactLines

LEMMA TornDiverges ==
  ASSUME NEW ls, SomeSeq(ls), NEW i \in DOMAIN ls, ls[i] = Torn PROVE ~ Intact(ls)
  BY IntactLines DEF KindAt

LEMMA MisnumberedDiverges ==
  ASSUME NEW ls, SomeSeq(ls), NEW i \in DOMAIN ls, ls[i].seq # i PROVE ~ Intact(ls)
  BY IntactLines DEF KindAt

\* The hash of an entry binds its body.
LEMMA EditedBody ==
  ASSUME NEW e, Sound(e), NEW d, d = [e EXCEPT !.body.edited = TRUE]
  PROVE  d.hash # EntryHash(d.seq, d.prev, d.body)
<1>1. e = [seq |-> e.seq, prev |-> e.prev, body |-> e.body, hash |-> EntryHash(e.seq, e.prev, e.body)]
  BY DEF Sound, BuildEntry
<1>2. e.body.edited = FALSE /\ "edited" \in DOMAIN e.body
  BY DEF Sound, Unedited
<1>3. d.hash = EntryHash(e.seq, e.prev, e.body) /\ d.body = [e.body EXCEPT !.edited = TRUE]
  BY <1>1
<1>4. d.body.edited = TRUE
  BY <1>2, <1>3
<1> QED BY <1>2, <1>3, <1>4 DEF EntryHash

-----------------------------------------------------------------------------
(* Appends.                                                                *)

LEMMA HeldKept == ASSUME StepInv, HeldInv, Next PROVE HeldInv'
<1> USE DEF HeldInv
<1>1. CASE Editor
  BY <1>1 DEF Editor, EditBody, DropLine, SwapLines, TearTail, CutTail, Edit
<1>2. ASSUME NEW p \in Sealer, Start(p) PROVE HeldInv'
  <2>1. PICK genesis \in BOOLEAN :
          body' = [body EXCEPT ![p] = [by |-> p, n |-> count'[p], genesis |-> genesis, edited |-> FALSE]]
    BY <1>2 DEF Start
  <2>2. \A q \in Sealer : body'[q] = body[q] \/ Unedited(body'[q])
    BY <2>1 DEF Unedited
  <2>3. \A q \in Sealer : Unedited(body'[q])
    BY <2>2
  <2>4. \A q \in Sealer : pc'[q] = "append" => pc[q] = "append"
    BY <1>2 DEF Start, GoTo, StepInv
  <2> QED BY <1>2, <2>3, <2>4 DEF Start, Unedited
<1>3. ASSUME NEW p \in Sealer, Verify(p) PROVE HeldInv'
  <2>1. /\ body' = body /\ entry' = [entry EXCEPT ![p] = NextEntry(p)]
        /\ pc' = [pc EXCEPT ![p] = "append"]
    BY <1>3 DEF Verify, GoTo
  <2>2. Sound(NextEntry(p))
    BY DEF NextEntry, Sound, BuildEntry
  <2>3. \A q \in Sealer : pc'[q] = "append" => Sound(entry'[q])
    BY <2>1, <2>2 DEF StepInv
  <2> QED BY <2>1, <2>3
<1>4. ASSUME NEW p \in Sealer, AppendSeal(p) \/ Kill(p), ~ Verify(p) PROVE HeldInv'
  <2>1. body' = body /\ entry' = entry
    BY <1>4 DEF AppendSeal, Lock, VerifyRefuses, WriteLine, WriteFails, Return, Raise, Kill
  <2>2. \A q \in Sealer : pc'[q] = "append" => pc[q] = "append"
    BY <1>4 DEF AppendSeal, Lock, VerifyRefuses, WriteLine, WriteFails, Return, Raise, Kill, GoTo, StepInv
  <2> QED BY <2>1, <2>2
<1> QED BY <1>1, <1>2, <1>3, <1>4 DEF Next, AppendSeal

\* What a write leaves in the file: nothing new, a torn line, or the entry.
LEMMA WriteCases ==
  ASSUME NEW p \in Sealer, WriteLine(p) \/ WriteFails(p)
  PROVE  /\ pc[p] = "append" /\ edits' = edits
         /\ \/ lines' = lines /\ written' = written
            \/ lines' = Append(lines, Torn) /\ written' = written
            \/ lines' = Append(lines, entry[p]) /\ written' = Append(written, entry[p])
  BY DEF WriteLine, WriteFails, Append1, GoTo, file

LEMMA TamperOfWrite ==
  ASSUME SealInv, HeldInv, TamperInv, NEW p \in Sealer, WriteLine(p) \/ WriteFails(p)
  PROVE  TamperInv'
<1>1. SomeSeq(lines) /\ SomeSeq(written) /\ edits' = edits /\ pc[p] = "append"
  BY WriteCases DEF TamperInv
<1>2. Sound(entry[p])
  BY <1>1 DEF HeldInv
<1>3. edits = << >> => entry[p].seq = Len(lines) + 1 /\ Intact(lines)
  BY <1>1 DEF SealInv, ChainInv
<1>4. CASE lines' = lines /\ written' = written
  BY <1>1, <1>4 DEF TamperInv, SomeSeq, CalmInv, Covered, Intact, Divergent, KindAt
<1>5. ASSUME NEW e \in {Torn, entry[p]}, lines' = Append(lines, e), written' \in {written, Append(written, e)},
             e # Torn => written' = Append(written, e)
      PROVE  /\ SomeSeq(lines') /\ SomeSeq(written')
             /\ edits \in {<< >>, <<"cut">>} => Covered'
             /\ edits \notin {<< >>, <<"cut">>} => ~ Intact(lines')
             /\ edits = << >> =>
                  \A i \in DOMAIN lines' : lines'[i] = Torn \/ (Sound(lines'[i]) /\ lines'[i].seq = i)
  <2>1. /\ SomeSeq(lines') /\ Len(lines) \in Nat
        /\ DOMAIN lines = 1..Len(lines) /\ DOMAIN lines' = 1..(Len(lines) + 1)
        /\ \A i \in DOMAIN lines : lines'[i] = lines[i]
        /\ lines'[Len(lines) + 1] = e
    BY <1>1, <1>5, AppendSome
  <2>2. /\ SomeSeq(written') /\ DOMAIN written \subseteq DOMAIN written'
        /\ \A j \in DOMAIN written : written'[j] = written[j]
        /\ e # Torn => \E j \in DOMAIN written' : written'[j] = e
    <3>1. /\ SomeSeq(Append(written, e)) /\ Len(written) \in Nat
          /\ DOMAIN written = 1..Len(written) /\ DOMAIN Append(written, e) = 1..(Len(written) + 1)
          /\ \A j \in DOMAIN written : Append(written, e)[j] = written[j]
          /\ Append(written, e)[Len(written) + 1] = e
      BY <1>1, AppendSome
    <3>2. CASE written' = written /\ e = Torn
      BY <1>1, <3>2
    <3>3. CASE written' = Append(written, e)
      <4>1. Len(written) + 1 \in DOMAIN written'
        BY <3>1, <3>3
      <4> QED BY <3>1, <3>3, <4>1
    <3> QED BY <1>5, <3>2, <3>3
  <2>3. \A i \in DOMAIN lines' : i \in DOMAIN lines \/ i = Len(lines) + 1
    BY <2>1
  <2>4. edits \in {<< >>, <<"cut">>} => Covered'
    <3> SUFFICES ASSUME Covered, NEW i \in DOMAIN lines', lines'[i] # Torn
                 PROVE  \E j \in DOMAIN written' : written'[j] = lines'[i]
      BY DEF TamperInv, Covered
    <3>1. CASE i \in DOMAIN lines
      BY <2>1, <2>2, <3>1 DEF Covered
    <3>2. CASE i = Len(lines) + 1
      BY <2>1, <2>2, <3>2
    <3> QED BY <2>3, <3>1, <3>2
  <2>5. edits \notin {<< >>, <<"cut">>} => ~ Intact(lines')
    BY <1>1, <1>5, DivergenceStays DEF TamperInv
  <2>6. ASSUME edits = << >>, NEW i \in DOMAIN lines'
        PROVE  lines'[i] = Torn \/ (Sound(lines'[i]) /\ lines'[i].seq = i)
    BY <1>2, <1>3, <1>5, <2>1, <2>3, <2>6 DEF TamperInv, CalmInv
  <2> QED BY <2>1, <2>2, <2>4, <2>5, <2>6
<1>6. CASE lines' = Append(lines, Torn) /\ written' = written
  <2>1. /\ SomeSeq(lines') /\ Len(lines) + 1 \in DOMAIN lines' /\ lines'[Len(lines) + 1] = Torn
    BY <1>1, <1>6, AppendSome
  <2>2. ~ Intact(lines')
    BY <2>1, TornDiverges
  <2>3. Intact(lines)' = Intact(lines')
    OBVIOUS
  <2> QED BY <1>1, <1>5, <1>6, <2>2, <2>3 DEF TamperInv, CalmInv
<1>7. CASE lines' = Append(lines, entry[p]) /\ written' = Append(written, entry[p])
  <2>1. edits = << >> => lines = written
    BY <1>3 DEF TamperInv, CalmInv
  <2> QED BY <1>1, <1>5, <1>7, <2>1 DEF TamperInv, CalmInv
<1> QED BY <1>4, <1>6, <1>7, WriteCases

-----------------------------------------------------------------------------
(* The edit.                                                               *)

LEMMA FrontLines ==
  ASSUME NEW s, SomeSeq(s), s # << >>
  PROVE  /\ SomeSeq(Front(s)) /\ DOMAIN Front(s) \subseteq DOMAIN s
         /\ \A i \in DOMAIN Front(s) : Front(s)[i] = s[i]
<1>1. PICK S : s \in Seq(S)
  BY DEF SomeSeq
<1>2. Len(s) \in Nat \ {0} /\ DOMAIN s = 1..Len(s)
  BY <1>1
<1>3. Front(s) \in Seq(S) /\ Len(Front(s)) = Len(s) - 1 /\ \A i \in 1..(Len(s) - 1) : Front(s)[i] = s[i]
  BY <1>1, <1>2 DEF Front
<1> QED BY <1>2, <1>3 DEF SomeSeq

\* The line that follows a dropped one moves into its place.
LEMMA DroppedLine ==
  ASSUME NEW s, SomeSeq(s), NEW i \in DOMAIN s, i < Len(s)
  PROVE  /\ SomeSeq(RemoveAt(s, i)) /\ i \in DOMAIN RemoveAt(s, i) /\ RemoveAt(s, i)[i] = s[i + 1]
         /\ \A j \in 1..(i - 1) : RemoveAt(s, i)[j] = s[j]
<1>1. PICK S : s \in Seq(S)
  BY DEF SomeSeq
<1>2. Len(s) \in Nat /\ i \in 1..Len(s)
  BY <1>1
<1> DEFINE a == SubSeq(s, 1, i - 1)
           b == SubSeq(s, i + 1, Len(s))
<1>3. a \in Seq(S) /\ Len(a) = i - 1 /\ \A j \in 1..(i - 1) : a[j] = s[j]
  BY <1>1, <1>2
<1>4. b \in Seq(S) /\ Len(b) = Len(s) - i /\ b[1] = s[i + 1]
  BY <1>1, <1>2
<1> HIDE DEF a, b
<1>5. a \o b \in Seq(S) /\ Len(a \o b) = Len(s) - 1 /\ (a \o b)[i] = b[1]
  BY <1>2, <1>3, <1>4
<1>6. RemoveAt(s, i) = a \o b
  BY DEF RemoveAt, a, b
<1>7. DOMAIN (a \o b) = 1..(Len(s) - 1)
  BY <1>5
<1>8. \A j \in 1..(i - 1) : (a \o b)[j] = s[j]
  BY <1>2, <1>3, <1>4
<1> QED BY <1>2, <1>4, <1>5, <1>6, <1>7, <1>8 DEF SomeSeq

\* Lines that are torn, or sound and numbered by their place, as in CalmInv.
Placed == \A i \in DOMAIN lines : lines[i] = Torn \/ (Sound(lines[i]) /\ lines[i].seq = i)

LEMMA EditDiverges ==
  ASSUME SomeSeq(lines), Placed, NEW i \in DOMAIN lines,
         EditBody(i) \/ DropLine(i) \/ SwapLines(i) \/ TearTail(i)
  PROVE  SomeSeq(lines') /\ ~ Intact(lines')
<1>1. PICK S : lines \in Seq(S)
  BY DEF SomeSeq
<1>2. Len(lines) \in Nat /\ DOMAIN lines = 1..Len(lines)
  BY <1>1
<1>3. CASE EditBody(i)
  <2>1. lines[i] # Torn /\ lines' = [lines EXCEPT ![i] = [lines[i] EXCEPT !.body.edited = TRUE]]
    BY <1>3 DEF EditBody, Edit
  <2> DEFINE d == [lines[i] EXCEPT !.body.edited = TRUE]
  <2>2. d.hash # EntryHash(d.seq, d.prev, d.body)
    BY <2>1, EditedBody DEF Placed
  <2> HIDE DEF d
  <2>3. lines' = [lines EXCEPT ![i] = d]
    BY <2>1 DEF d
  <2>4. lines' \in Seq(S \cup {d}) /\ i \in DOMAIN lines' /\ lines'[i] = d
    BY <1>1, <2>3
  <2>5. KindAt(lines', i) # "ok"
    BY <2>2, <2>4 DEF KindAt
  <2> QED BY <2>4, <2>5, IntactLines DEF SomeSeq
<1>4. ASSUME SomeSeq(lines'), NEW j \in DOMAIN lines', j + 1 \in DOMAIN lines, j \in Nat,
             lines'[j] = lines[j + 1]
      PROVE  ~ Intact(lines')
  <2>1. CASE lines[j + 1] = Torn
    BY <1>4, <2>1, TornDiverges
  <2>2. CASE lines[j + 1].seq = j + 1
    BY <1>4, <2>2, MisnumberedDiverges
  <2> QED BY <1>4, <2>1, <2>2 DEF Placed
<1>5. CASE DropLine(i)
  <2>1. i < Len(lines) /\ lines' = RemoveAt(lines, i)
    BY <1>5 DEF DropLine, Edit
  <2>2. SomeSeq(lines') /\ i \in DOMAIN lines' /\ lines'[i] = lines[i + 1] /\ i + 1 \in DOMAIN lines /\ i \in Nat
    BY <1>2, <2>1, DroppedLine
  <2> QED BY <1>4, <2>2
<1>6. CASE SwapLines(i)
  <2>1. i < Len(lines) /\ lines' = [lines EXCEPT ![i] = lines[i + 1], ![i + 1] = lines[i]]
    BY <1>6 DEF SwapLines, Edit
  <2>2. i + 1 \in DOMAIN lines /\ i \in Nat
    BY <1>2, <2>1
  <2>3. lines' \in Seq(S) /\ i \in DOMAIN lines' /\ lines'[i] = lines[i + 1]
    BY <1>1, <1>2, <2>1, <2>2
  <2> QED BY <1>4, <2>2, <2>3 DEF SomeSeq
<1>7. CASE TearTail(i)
  <2>1. lines' = [lines EXCEPT ![i] = Torn]
    BY <1>7 DEF TearTail, Edit
  <2>2. lines' \in Seq(S \cup {Torn}) /\ i \in DOMAIN lines' /\ lines'[i] = Torn
    BY <1>1, <2>1
  <2>3. SomeSeq(lines')
    BY <2>2 DEF SomeSeq
  <2> QED BY <2>2, <2>3, TornDiverges
<1> QED BY <1>3, <1>5, <1>6, <1>7

LEMMA TamperOfEdit ==
  ASSUME MaxEdits =< 1, StepInv, TamperInv, Editor PROVE TamperInv'
<1>1. PICK i \in DOMAIN lines : EditBody(i) \/ DropLine(i) \/ SwapLines(i) \/ TearTail(i) \/ CutTail(i)
  BY DEF Editor
<1>2. Len(edits) < MaxEdits /\ written' = written
  BY <1>1 DEF EditBody, DropLine, SwapLines, TearTail, CutTail, Edit
<1>3. edits = << >>
  <2>1. PICK K : edits \in Seq(K)
    BY DEF StepInv
  <2> QED BY <1>2, <2>1, SealAssumption
<1>4. Placed /\ Covered /\ SomeSeq(lines) /\ SomeSeq(written)
  BY <1>3 DEF TamperInv, CalmInv, Placed
<1>5. CASE CutTail(i)
  <2>1. lines' = Front(lines) /\ edits' = <<"cut">>
    BY <1>3, <1>5 DEF CutTail, Edit
  <2>2. lines # << >>
    OBVIOUS
  <2>3. SomeSeq(lines') /\ DOMAIN lines' \subseteq DOMAIN lines /\ \A j \in DOMAIN lines' : lines'[j] = lines[j]
    BY <1>4, <2>1, <2>2, FrontLines
  <2>4. Covered'
    BY <1>2, <1>4, <2>3 DEF Covered
  <2>5. edits' # << >>
    BY <2>1
  <2> QED BY <1>2, <1>4, <2>1, <2>3, <2>4, <2>5 DEF TamperInv, CalmInv
<1>6. CASE EditBody(i) \/ DropLine(i) \/ SwapLines(i) \/ TearTail(i)
  <2>1. SomeSeq(lines') /\ ~ Intact(lines')
    BY <1>4, <1>6, EditDiverges
  <2>2. PICK kind \in {"body", "drop", "swap", "tear"} : edits' = <<kind>>
    BY <1>3, <1>6 DEF EditBody, DropLine, SwapLines, TearTail, Edit
  <2>3. edits' # << >> /\ edits' # <<"cut">>
    BY <2>2
  <2> QED BY <1>2, <1>4, <2>1, <2>3 DEF TamperInv, CalmInv
<1> QED BY <1>1, <1>5, <1>6

-----------------------------------------------------------------------------
(* What the first divergence is.                                           *)

Follows(ls, e) == e.prev = (IF ls = << >> THEN GENESIS ELSE Last(ls).hash)

\* Before an edit only the last line can be wrong, torn by an append that died.
LinkInv ==
  edits = << >> =>
    /\ \A p \in Sealer : pc[p] = "append" => Follows(lines, entry[p])
    /\ \A i \in DOMAIN lines : KindAt(lines, i) = "ok" \/ (lines[i] = Torn /\ i = Len(lines))

Marks == [body |-> {"hash-mismatch"}, drop |-> {"seq-gap", "malformed-line"},
          swap |-> {"seq-gap", "malformed-line"}, tear |-> {"malformed-line"}]

FirstAt(ls, i, kinds) ==
  /\ \A j \in 1..(i - 1) : KindAt(ls, j) = "ok"
  /\ KindAt(ls, i) \in kinds

\* A line that does not parse is not an entry.
TornIsNoEntry ==
  \A seq, prev, b, hash : Torn # [seq |-> seq, prev |-> prev, body |-> b, hash |-> hash]

\* The line the edit spoilt is the first that does not follow.
NamedInv ==
  \A kind \in DOMAIN Marks :
    edits = <<kind>> => \E i \in DOMAIN lines : FirstAt(lines, i, Marks[kind])

LEMMA FirstNamed ==
  ASSUME NEW ls, SomeSeq(ls), NEW i \in DOMAIN ls, NEW kinds, "ok" \notin kinds, FirstAt(ls, i, kinds)
  PROVE  FirstKind(ls) \in kinds
<1>1. Len(ls) \in Nat /\ DOMAIN ls = 1..Len(ls)
  BY DEF SomeSeq
<1>2. \A k \in DOMAIN ls : k \in Divergent(ls) <=> k >= i
  <2>1. \A k \in DOMAIN ls : k >= i => i \in 1..k
    BY <1>1
  <2>2. \A k \in DOMAIN ls : ~ (k >= i) => \A j \in 1..k : j \in 1..(i - 1)
    BY <1>1
  <2> QED BY <2>1, <2>2 DEF Divergent, FirstAt
<1>3. i \in Divergent(ls) /\ \A k \in Divergent(ls) : i =< k /\ k \in Int
  BY <1>1, <1>2 DEF Divergent
<1>4. Min(Divergent(ls)) = i
  <2> DEFINE D == Divergent(ls)
  <2>1. i \in Int /\ i \in D /\ \A k \in D : i =< k /\ k \in Int
    BY <1>1, <1>3
  <2> HIDE DEF D
  <2>2. \A x \in D : (\A y \in D : x =< y) => x = i
    BY <2>1
  <2>3. Min(D) = i
    BY <2>1, <2>2 DEF Min
  <2> QED BY <2>3 DEF D
<1>5. ~ Intact(ls)
  BY <1>3 DEF Intact
<1> QED BY <1>4, <1>5 DEF FirstKind, FirstAt

\* What is appended leaves the lines before it as they are.
LEMMA KindKept ==
  ASSUME NEW ls, NEW e, SomeSeq(ls), NEW i \in DOMAIN ls
  PROVE  i \in DOMAIN Append(ls, e) /\ KindAt(Append(ls, e), i) = KindAt(ls, i)
<1>1. /\ Len(ls) \in Nat /\ DOMAIN ls = 1..Len(ls) /\ DOMAIN Append(ls, e) = 1..(Len(ls) + 1)
      /\ \A j \in DOMAIN ls : Append(ls, e)[j] = ls[j]
  BY AppendSome
<1>2. Append(ls, e)[i] = ls[i] /\ (i # 1 => Append(ls, e)[i - 1] = ls[i - 1])
  BY <1>1
<1> QED BY <1>1, <1>2 DEF KindAt

LEMMA FirstKept ==
  ASSUME NEW ls, NEW e, SomeSeq(ls), NEW i \in DOMAIN ls, NEW kinds, FirstAt(ls, i, kinds)
  PROVE  i \in DOMAIN Append(ls, e) /\ FirstAt(Append(ls, e), i, kinds)
<1>1. \A j \in 1..(i - 1) : j \in DOMAIN ls
  BY DEF SomeSeq
<1> QED BY <1>1, KindKept DEF FirstAt

\* An entry built on the intact lines follows them.
LEMMA EntryFollows ==
  ASSUME TornIsNoEntry, NEW ls, NEW e, SomeSeq(ls), Sound(e), e.seq = Len(ls) + 1, Follows(ls, e)
  PROVE  KindAt(Append(ls, e), Len(ls) + 1) = "ok"
<1>1. /\ Len(ls) \in Nat /\ DOMAIN ls = 1..Len(ls)
      /\ \A j \in DOMAIN ls : Append(ls, e)[j] = ls[j]
      /\ Append(ls, e)[Len(ls) + 1] = e
  BY AppendSome
<1>2. e.hash = EntryHash(e.seq, e.prev, e.body) /\ e # Torn
  <2>1. e = [seq |-> e.seq, prev |-> e.prev, body |-> e.body, hash |-> EntryHash(e.seq, e.prev, e.body)]
    BY DEF Sound, BuildEntry
  <2> QED BY <2>1 DEF TornIsNoEntry
<1>3. e.prev = (IF Len(ls) + 1 = 1 THEN GENESIS ELSE Append(ls, e)[Len(ls) + 1 - 1].hash)
  <2>1. CASE ls = << >>
    BY <2>1 DEF Follows
  <2>2. CASE ls # << >>
    <3>1. Len(ls) # 0
      BY <2>2 DEF SomeSeq
    <3>2. Len(ls) + 1 - 1 = Len(ls) /\ Len(ls) \in DOMAIN ls /\ Len(ls) + 1 # 1
      BY <1>1, <3>1
    <3> QED BY <1>1, <2>2, <3>2 DEF Follows, Last
  <2> QED BY <2>1, <2>2
<1> DEFINE a == Append(ls, e)
           n == Len(ls) + 1
<1>4. a[n] = e /\ e.seq = n /\ e # Torn /\ e.prev = (IF n = 1 THEN GENESIS ELSE a[n - 1].hash)
  <2>1. a[n] = e /\ e.seq = n
    BY <1>1
  <2>2. e.prev = (IF n = 1 THEN GENESIS ELSE a[n - 1].hash)
    BY <1>3
  <2> QED BY <1>2, <2>1, <2>2
<1> HIDE DEF a, n
<1>5. KindAt(a, n) = "ok"
  BY <1>2, <1>4 DEF KindAt
<1> QED BY <1>5 DEF a, n

LEMMA LinkOfWrite ==
  ASSUME TornIsNoEntry, SealInv, HeldInv, TamperInv, LinkInv, NamedInv, NEW p \in Sealer, WriteLine(p) \/ WriteFails(p)
  PROVE  LinkInv' /\ NamedInv'
<1>1. SomeSeq(lines) /\ edits' = edits /\ pc[p] = "append" /\ pc' = [pc EXCEPT ![p] = pc'[p]] /\ pc'[p] # "append"
      /\ entry' = entry
  BY WriteCases DEF TamperInv, WriteLine, WriteFails, GoTo, SealInv, StepInv
<1>2. PICK e : lines' = lines \/ (lines' = Append(lines, e) /\ e \in {Torn, entry[p]})
  BY WriteCases
<1>3. NamedInv'
  <2> SUFFICES ASSUME NEW kind \in DOMAIN Marks, edits = <<kind>>
               PROVE  \E i \in DOMAIN lines' : FirstAt(lines', i, Marks[kind])
    BY <1>1 DEF NamedInv, FirstAt, KindAt, EntryHash
  <2>1. PICK i \in DOMAIN lines : FirstAt(lines, i, Marks[kind])
    BY DEF NamedInv
  <2>2. CASE lines' = lines
    BY <2>1, <2>2
  <2>3. CASE lines' = Append(lines, e)
    BY <1>1, <2>1, <2>3, FirstKept
  <2> QED BY <1>2, <2>2, <2>3
<1>4. ASSUME edits' = << >> PROVE \A q \in Sealer : pc'[q] # "append"
  BY <1>1 DEF SealInv, LockInv, StepInv, Inside
<1>5. ASSUME edits' = << >>, NEW i \in DOMAIN lines'
      PROVE  KindAt(lines', i) = "ok" \/ (lines'[i] = Torn /\ i = Len(lines'))
  <2>1. Intact(lines) /\ Follows(lines, entry[p]) /\ Sound(entry[p]) /\ entry[p].seq = Len(lines) + 1
    BY <1>1, <1>5 DEF SealInv, ChainInv, LinkInv, HeldInv
  <2>2. CASE lines' = lines
    BY <1>1, <1>5, <2>2 DEF LinkInv
  <2>3. CASE lines' = Append(lines, e) /\ e \in {Torn, entry[p]}
    <3>1. /\ Len(lines) \in Nat /\ DOMAIN lines = 1..Len(lines)
          /\ DOMAIN lines' = 1..(Len(lines) + 1) /\ Len(lines') = Len(lines) + 1
          /\ lines'[Len(lines) + 1] = e
      BY <1>1, <2>3, AppendSome
    <3>2. CASE i \in DOMAIN lines
      BY <1>1, <2>1, <2>3, <3>2, KindKept, IntactLines
    <3>3. CASE i = Len(lines) + 1
      BY <1>1, <2>1, <2>3, <3>1, <3>3, EntryFollows
    <3> QED BY <3>1, <3>2, <3>3
  <2> QED BY <1>2, <2>2, <2>3
<1> QED BY <1>3, <1>4, <1>5 DEF LinkInv

LEMMA LinkOfEdit ==
  ASSUME MaxEdits =< 1, TornIsNoEntry, SealInv, TamperInv, LinkInv, Editor
  PROVE  LinkInv' /\ NamedInv'
<1>1. PICK i \in DOMAIN lines : EditBody(i) \/ DropLine(i) \/ SwapLines(i) \/ TearTail(i) \/ CutTail(i)
  BY DEF Editor
<1>2. edits = << >>
  <2>1. PICK K : edits \in Seq(K)
    BY DEF SealInv, StepInv
  <2>2. Len(edits) < MaxEdits
    BY <1>1 DEF EditBody, DropLine, SwapLines, TearTail, CutTail, Edit
  <2> QED BY <2>1, <2>2, SealAssumption
<1>3. PICK S : lines \in Seq(S)
  BY DEF TamperInv, SomeSeq
<1>4. Len(lines) \in Nat /\ DOMAIN lines = 1..Len(lines) /\ i \in 1..Len(lines)
  BY <1>3
<1>5. Placed
  BY <1>2 DEF TamperInv, CalmInv, Placed
<1>6. \A j \in DOMAIN lines : KindAt(lines, j) = "ok" \/ (lines[j] = Torn /\ j = Len(lines))
  BY <1>2 DEF LinkInv
<1>7. edits' # << >>
  BY <1>1, <1>2 DEF EditBody, DropLine, SwapLines, TearTail, CutTail, Edit
<1>8. LinkInv'
  BY <1>7 DEF LinkInv
<1>9. ASSUME NEW kinds, KindAt(lines', i) \in kinds, i \in DOMAIN lines',
             \A j \in 1..(i - 1) : lines'[j] = lines[j]
      PROVE  \E k \in DOMAIN lines' : FirstAt(lines', k, kinds)
  <2> SUFFICES ASSUME NEW j \in 1..(i - 1) PROVE KindAt(lines', j) = "ok"
    BY <1>9 DEF FirstAt
  <2>1. KindAt(lines, j) = "ok"
    BY <1>4, <1>6
  <2>2. lines'[j] = lines[j] /\ (j # 1 => lines'[j - 1] = lines[j - 1])
    BY <1>4, <1>9
  <2> QED BY <2>1, <2>2 DEF KindAt
<1>10. CASE EditBody(i)
  <2>1. /\ lines[i] # Torn /\ edits' = <<"body">>
        /\ lines' = [lines EXCEPT ![i] = [lines[i] EXCEPT !.body.edited = TRUE]]
    BY <1>2, <1>10 DEF EditBody, Edit
  <2> DEFINE d == [lines[i] EXCEPT !.body.edited = TRUE]
  <2>2. Sound(lines[i]) /\ KindAt(lines, i) = "ok"
    BY <1>5, <1>6, <2>1 DEF Placed
  <2>3. d.hash # EntryHash(d.seq, d.prev, d.body)
    BY <2>2, EditedBody
  <2>4. d.seq = lines[i].seq /\ d.prev = lines[i].prev /\ d # Torn
    <3>1. lines[i] = BuildEntry(lines[i].seq, lines[i].prev, lines[i].body)
      BY <2>2 DEF Sound
    <3> DEFINE e == lines[i]
    <3>2. e = [seq |-> e.seq, prev |-> e.prev, body |-> e.body, hash |-> EntryHash(e.seq, e.prev, e.body)]
      BY <3>1 DEF BuildEntry
    <3> HIDE DEF e
    <3> DEFINE h == EntryHash(e.seq, e.prev, e.body)
    <3> HIDE DEF h
    <3>3. [e EXCEPT !.body.edited = TRUE] =
            [seq |-> e.seq, prev |-> e.prev, body |-> [e.body EXCEPT !.edited = TRUE], hash |-> h]
      <4> DEFINE b == [e.body EXCEPT !.edited = TRUE]
      <4>1. [e EXCEPT !.body.edited = TRUE] = [e EXCEPT !.body = b]
        BY Zenon
      <4> HIDE DEF b
      <4>2. e = [seq |-> e.seq, prev |-> e.prev, body |-> e.body, hash |-> h]
        BY <3>2 DEF h
      <4>3. ASSUME NEW q, NEW r, NEW c, e = [seq |-> q, prev |-> r, body |-> c, hash |-> h]
            PROVE  [e EXCEPT !.body = b] = [seq |-> q, prev |-> r, body |-> b, hash |-> h]
        BY <4>3
      <4> QED BY <4>1, <4>2, <4>3 DEF b
    <3>4. [e EXCEPT !.body.edited = TRUE] # Torn
      BY <3>3 DEF TornIsNoEntry
    <3> QED BY <3>3, <3>4 DEF e
  <2> HIDE DEF d
  <2>5. lines' = [lines EXCEPT ![i] = d]
    BY <2>1 DEF d
  <2>6. /\ DOMAIN lines' = DOMAIN lines /\ lines'[i] = d
        /\ \A j \in DOMAIN lines \ {i} : lines'[j] = lines[j]
    BY <1>3, <2>5
  <2>7. \A j \in 1..(i - 1) : j \in DOMAIN lines \ {i} /\ lines'[j] = lines[j]
    BY <1>4, <2>6
  <2>8. i # 1 => lines'[i - 1].hash = lines[i - 1].hash
    BY <1>4, <2>7
  <2>9. KindAt(lines', i) = "hash-mismatch"
    BY <2>1, <2>2, <2>3, <2>4, <2>6, <2>8 DEF KindAt
  <2>10. \E k \in DOMAIN lines' : FirstAt(lines', k, {"hash-mismatch"})
    BY <1>9, <2>6, <2>7, <2>9
  <2> QED BY <1>8, <2>1, <2>10 DEF NamedInv, Marks
<1>11. ASSUME i \in DOMAIN lines', i + 1 \in DOMAIN lines, lines'[i] = lines[i + 1],
              \A j \in 1..(i - 1) : lines'[j] = lines[j]
       PROVE  \E k \in DOMAIN lines' : FirstAt(lines', k, {"seq-gap", "malformed-line"})
  <2>1. lines'[i] = Torn \/ lines'[i].seq # i
    BY <1>4, <1>5, <1>11 DEF Placed
  <2>2. KindAt(lines', i) \in {"seq-gap", "malformed-line"}
    BY <2>1 DEF KindAt
  <2> QED BY <1>9, <1>11, <2>2
<1>12. CASE DropLine(i)
  <2>1. i < Len(lines) /\ lines' = RemoveAt(lines, i) /\ edits' = <<"drop">>
    BY <1>2, <1>12 DEF DropLine, Edit
  <2>2. i \in DOMAIN lines' /\ lines'[i] = lines[i + 1] /\ i + 1 \in DOMAIN lines
    BY <1>3, <1>4, <2>1, DroppedLine DEF SomeSeq
  <2>3. \A j \in 1..(i - 1) : lines'[j] = lines[j]
    BY <1>3, <1>4, <2>1, DroppedLine DEF SomeSeq
  <2>4. \E k \in DOMAIN lines' : FirstAt(lines', k, {"seq-gap", "malformed-line"})
    BY <1>11, <2>2, <2>3
  <2>5. Marks["drop"] = {"seq-gap", "malformed-line"} /\ \A kind : edits' = <<kind>> => kind = "drop"
    BY <2>1 DEF Marks
  <2> QED BY <1>8, <2>4, <2>5 DEF NamedInv
<1>13. CASE SwapLines(i)
  <2>1. /\ i < Len(lines) /\ edits' = <<"swap">>
        /\ lines' = [lines EXCEPT ![i] = lines[i + 1], ![i + 1] = lines[i]]
    BY <1>2, <1>13 DEF SwapLines, Edit
  <2>2. i + 1 \in DOMAIN lines
    BY <1>4, <2>1
  <2>3. i \in DOMAIN lines' /\ lines'[i] = lines[i + 1]
    BY <1>3, <1>4, <2>1, <2>2
  <2>4. \A j \in 1..(i - 1) : lines'[j] = lines[j]
    BY <1>3, <1>4, <2>1, <2>2
  <2>5. \E k \in DOMAIN lines' : FirstAt(lines', k, {"seq-gap", "malformed-line"})
    BY <1>11, <2>2, <2>3, <2>4
  <2>6. Marks["swap"] = {"seq-gap", "malformed-line"} /\ \A kind : edits' = <<kind>> => kind = "swap"
    BY <2>1 DEF Marks
  <2> QED BY <1>8, <2>5, <2>6 DEF NamedInv
<1>14. CASE TearTail(i)
  <2>1. lines' = [lines EXCEPT ![i] = Torn] /\ edits' = <<"tear">>
    BY <1>2, <1>14 DEF TearTail, Edit
  <2>2. i \in DOMAIN lines' /\ lines'[i] = Torn /\ \A j \in 1..(i - 1) : lines'[j] = lines[j]
    BY <1>3, <1>4, <2>1
  <2>3. KindAt(lines', i) = "malformed-line"
    BY <2>2 DEF KindAt
  <2>4. \E k \in DOMAIN lines' : FirstAt(lines', k, {"malformed-line"})
    BY <1>9, <2>2, <2>3
  <2> QED BY <1>8, <2>1, <2>4 DEF NamedInv, Marks
<1>15. CASE CutTail(i)
  <2>1. edits' = <<"cut">>
    BY <1>2, <1>15 DEF CutTail, Edit
  <2> QED BY <1>8, <2>1 DEF NamedInv, Marks
<1> QED BY <1>1, <1>10, <1>12, <1>13, <1>14, <1>15

-----------------------------------------------------------------------------
LEMMA TamperKept ==
  ASSUME MaxEdits =< 1, SealInv, HeldInv, TamperInv, [Next]_vars PROVE TamperInv'
<1>1. CASE Editor
  BY <1>1, TamperOfEdit DEF SealInv
<1>2. ASSUME NEW p \in Sealer, WriteLine(p) \/ WriteFails(p) PROVE TamperInv'
  BY <1>2, TamperOfWrite
<1>3. CASE UNCHANGED <<lines, written, edits>>
  BY <1>3 DEF TamperInv, SomeSeq, CalmInv, Covered, Intact, Divergent, KindAt
<1>4. ASSUME NEW p \in Sealer, Start(p) \/ AppendSeal(p) \/ Kill(p), ~ WriteLine(p), ~ WriteFails(p)
      PROVE  UNCHANGED <<lines, written, edits>>
  BY <1>4 DEF Start, AppendSeal, Lock, Verify, VerifyRefuses, Return, Raise, Kill, file
<1> QED BY <1>1, <1>2, <1>3, <1>4 DEF Next, vars, file

LEMMA TamperStays == ASSUME MaxEdits =< 1 PROVE Spec => [](HeldInv /\ TamperInv)
<1>1. Init => HeldInv /\ TamperInv
  <2> SUFFICES ASSUME Init PROVE HeldInv /\ TamperInv
    OBVIOUS
  <2>1. HeldInv
    BY DEF Init, HeldInv, Unedited
  <2>2. lines \in Seq({}) /\ written \in Seq({}) /\ lines = written /\ edits = << >> /\ DOMAIN lines = {}
    BY DEF Init
  <2> QED BY <2>1, <2>2 DEF TamperInv, SomeSeq, CalmInv, Covered
<1>2. SealInv /\ HeldInv /\ TamperInv /\ [Next]_vars => HeldInv' /\ TamperInv'
  <2> SUFFICES ASSUME SealInv, HeldInv, TamperInv, [Next]_vars PROVE HeldInv'
    BY TamperKept
  <2>1. CASE UNCHANGED vars
    BY <2>1 DEF vars, HeldInv, Unedited, Sound, BuildEntry
  <2> QED BY <2>1, HeldKept DEF SealInv
<1> QED BY <1>1, <1>2, ChainCorrect, PTL DEF Spec

\* A ledger that verifies holds what was written and nothing else, although
\* somebody edited it once and processes went on appending: an edited, dropped,
\* swapped or torn line never verifies again, and a cut leaves written lines.
THEOREM VerifiedWritten ==
  ASSUME MaxEdits =< 1 PROVE Spec => []VerifiedIsWritten
<1>1. TamperInv => VerifiedIsWritten
  <2> SUFFICES ASSUME TamperInv, Intact(lines)
               PROVE  IF edits = <<"cut">> THEN ToSet(lines) \subseteq ToSet(written) ELSE lines = written
    BY DEF VerifiedIsWritten
  <2>1. edits \in {<< >>, <<"cut">>}
    BY DEF TamperInv
  <2>2. CASE edits = << >>
    BY <2>2 DEF TamperInv, CalmInv
  <2>3. CASE edits = <<"cut">>
    <3>1. \A i \in DOMAIN lines : lines[i] # Torn
      BY TornDiverges DEF TamperInv
    <3> QED BY <2>3, <3>1 DEF TamperInv, Covered, ToSet
  <2> QED BY <2>1, <2>2, <2>3
<1> QED BY <1>1, TamperStays, PTL

-----------------------------------------------------------------------------
LEMMA LinkKept ==
  ASSUME MaxEdits =< 1, TornIsNoEntry, SealInv, HeldInv, TamperInv, LinkInv, NamedInv, [Next]_vars
  PROVE  LinkInv' /\ NamedInv'
<1>1. CASE Editor
  BY <1>1, LinkOfEdit
<1>2. ASSUME NEW p \in Sealer, WriteLine(p) \/ WriteFails(p) PROVE LinkInv' /\ NamedInv'
  BY <1>2, LinkOfWrite
<1>3. ASSUME UNCHANGED <<lines, edits>>,
             edits = << >> => \A p \in Sealer : pc'[p] = "append" => Follows(lines, entry'[p])
      PROVE  LinkInv' /\ NamedInv'
  BY <1>3 DEF LinkInv, NamedInv, FirstAt, KindAt, Follows
<1>4. ASSUME NEW p \in Sealer, Verify(p) PROVE LinkInv' /\ NamedInv'
  <2>1. UNCHANGED <<lines, edits>> /\ entry' = [entry EXCEPT ![p] = NextEntry(p)] /\ pc' = [pc EXCEPT ![p] = "append"]
    BY <1>4 DEF Verify, GoTo, file
  <2>2. Follows(lines, NextEntry(p))
    BY DEF NextEntry, BuildEntry, Follows
  <2>3. edits = << >> => \A q \in Sealer : pc'[q] = "append" => Follows(lines, entry'[q])
    BY <2>1, <2>2 DEF LinkInv, SealInv, StepInv
  <2> QED BY <1>3, <2>1, <2>3
<1>5. ASSUME NEW p \in Sealer, Start(p) \/ AppendSeal(p) \/ Kill(p), ~ Verify(p), ~ WriteLine(p), ~ WriteFails(p)
      PROVE  LinkInv' /\ NamedInv'
  <2>1. UNCHANGED <<lines, edits, entry>>
    BY <1>5 DEF Start, AppendSeal, Lock, VerifyRefuses, Return, Raise, Kill, file
  <2>2. \A q \in Sealer : pc'[q] = "append" => pc[q] = "append"
    BY <1>5 DEF Start, AppendSeal, Lock, VerifyRefuses, Return, Raise, Kill, GoTo, SealInv, StepInv
  <2> QED BY <1>3, <2>1, <2>2 DEF LinkInv
<1>6. CASE UNCHANGED vars
  BY <1>3, <1>6 DEF vars, file, LinkInv
<1> QED BY <1>1, <1>2, <1>4, <1>5, <1>6 DEF Next

\* One edit is named as what it is, however many processes append before and
\* after it: an edited body as a hash mismatch, a dropped or swapped line by the
\* sequence numbers, a torn end as a line that does not parse.
THEOREM EditIsNamed ==
  ASSUME MaxEdits =< 1, TornIsNoEntry PROVE Spec => []EditNamed
<1>1. Init => LinkInv /\ NamedInv
  <2> SUFFICES ASSUME Init PROVE LinkInv /\ NamedInv
    OBVIOUS
  <2>1. edits = << >> /\ DOMAIN lines = {} /\ \A p \in Sealer : pc[p] = "idle"
    BY DEF Init
  <2> QED BY <2>1 DEF LinkInv, NamedInv
<1>2. SealInv /\ HeldInv /\ TamperInv /\ LinkInv /\ NamedInv /\ [Next]_vars => LinkInv' /\ NamedInv'
  BY LinkKept
<1>3. StepInv /\ TamperInv /\ NamedInv => EditNamed
  <2> SUFFICES ASSUME StepInv, TamperInv, NamedInv, Len(edits) = 1
               PROVE  \A kind \in DOMAIN Marks : edits[1] = kind => FirstKind(lines) \in Marks[kind]
    BY DEF EditNamed, Marks
  <2> TAKE kind \in DOMAIN Marks
  <2> HAVE edits[1] = kind
  <2>1. edits = <<kind>>
    BY DEF StepInv
  <2>2. PICK i \in DOMAIN lines : FirstAt(lines, i, Marks[kind])
    BY <2>1 DEF NamedInv
  <2>3. "ok" \notin Marks[kind]
    BY DEF Marks
  <2> QED BY <2>2, <2>3, FirstNamed DEF TamperInv
<1> QED BY <1>1, <1>2, <1>3, TamperStays, ChainCorrect, PTL DEF Spec, SealInv
=============================================================================

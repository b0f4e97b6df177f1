------------------------------ MODULE ScanProofs ------------------------------
(***************************************************************************)
(* That no scan reports a stale result, and that each reports every file   *)
(* it can reach once, for every tree, every number of scanners, files,     *)
(* writes and errors, with a cache or without one.  And that every         *)
(* repaired output keeps a receipt of its own and that a batch tells the   *)
(* truth about it, for every number of batches over the same directories,  *)
(* wherever they stop, while the scans beside them are as true as they are *)
(* alone.                                                                  *)
(***************************************************************************)
EXTENDS BatchRepair, FiniteSetTheorems, TLAPS

\* The two folds of the scan, for the facts about folds: the loop over the entries
\* of a directory, and the way along a path.
Enter(path, c, w, e) == Entry(w, path, e, c)
Way(tr, unused, dir, name) == Child(tr, dir, name)
Loop == INSTANCE FoldFacts WITH Op <- Enter
Walked == INSTANCE FoldFacts WITH Op <- Way

-----------------------------------------------------------------------------
(* Sequences.                                                              *)

SomeSeq(q) == \E S : q \in Seq(S)

LEMMA Appended ==
  ASSUME NEW q, NEW x, SomeSeq(q)
  PROVE  /\ SomeSeq(Append(q, x)) /\ Range(Append(q, x)) = Range(q) \cup {x}
         /\ Len(q) \in Nat /\ DOMAIN q = 1..Len(q) /\ DOMAIN Append(q, x) = 1..(Len(q) + 1)
         /\ Len(Append(q, x)) = Len(q) + 1
         /\ \A i \in DOMAIN q : Append(q, x)[i] = q[i]
         /\ Append(q, x)[Len(q) + 1] = x
<1>1. PICK S : q \in Seq(S)
  BY DEF SomeSeq
<1> DEFINE T == S \cup {x}
           a == Append(q, x)
<1>2. q \in Seq(T) /\ x \in T
  BY <1>1
<1>3. a \in Seq(T) /\ Len(q) \in Nat /\ DOMAIN q = 1..Len(q)
  BY <1>2
<1> HIDE DEF T
<1>4. Len(a) = Len(q) + 1 /\ DOMAIN a = 1..(Len(q) + 1) /\ a[Len(q) + 1] = x
  BY <1>2, <1>3
<1>5. \A i \in DOMAIN q : a[i] = q[i]
  BY <1>2, <1>3
<1> HIDE DEF a
<1>6. Range(a) = Range(q) \cup {x}
  <2>1. \A y \in Range(a) : y \in Range(q) \cup {x}
    BY <1>3, <1>4, <1>5 DEF Range
  <2>2. x \in Range(a)
    BY <1>3, <1>4 DEF Range
  <2>3. \A y \in Range(q) : y \in Range(a)
    BY <1>3, <1>4, <1>5 DEF Range
  <2> QED BY <2>1, <2>2, <2>3
<1> QED BY <1>3, <1>4, <1>5, <1>6 DEF SomeSeq, a

LEMMA Popped ==
  ASSUME NEW q, SomeSeq(q), q # << >>
  PROVE  /\ SomeSeq(Front(q)) /\ Range(q) = Range(Front(q)) \cup {Last(q)}
         /\ Len(q) \in DOMAIN q /\ Last(q) = q[Len(q)]
         /\ DOMAIN Front(q) = DOMAIN q \ {Len(q)}
         /\ \A i \in DOMAIN Front(q) : Front(q)[i] = q[i]
<1>1. PICK S : q \in Seq(S)
  BY DEF SomeSeq
<1>2. Len(q) \in Nat \ {0} /\ DOMAIN q = 1..Len(q)
  BY <1>1
<1> DEFINE f == Front(q)
<1>3. f \in Seq(S) /\ Len(f) = Len(q) - 1 /\ \A i \in 1..(Len(q) - 1) : f[i] = q[i]
  BY <1>1, <1>2 DEF Front
<1>4. DOMAIN f = 1..(Len(q) - 1)
  <2>1. DOMAIN f = 1..Len(f)
    BY <1>3
  <2> QED BY <1>3, <2>1
<1>5. Last(q) = q[Len(q)]
  BY DEF Last
<1> HIDE DEF f
<1>6. Range(q) = Range(f) \cup {Last(q)}
  BY <1>2, <1>3, <1>4, <1>5 DEF Range
<1>7. DOMAIN f = DOMAIN q \ {Len(q)}
  BY <1>2, <1>4
<1> QED BY <1>2, <1>3, <1>4, <1>5, <1>6, <1>7 DEF SomeSeq, f

LEMMA Rest ==
  ASSUME NEW q, SomeSeq(q), q # << >>
  PROVE  /\ Head(q) \in Range(q) /\ SomeSeq(Tail(q)) /\ Range(Tail(q)) \subseteq Range(q)
<1>1. PICK S : q \in Seq(S)
  BY DEF SomeSeq
<1>2. Len(q) \in Nat \ {0} /\ DOMAIN q = 1..Len(q) /\ Head(q) = q[1]
  BY <1>1
<1> DEFINE t == Tail(q)
<1>3. t \in Seq(S) /\ Len(t) = Len(q) - 1 /\ \A i \in 1..(Len(q) - 1) : t[i] = q[i + 1]
  BY <1>1, <1>2
<1>4. DOMAIN t = 1..(Len(q) - 1)
  BY <1>2, <1>3
<1> HIDE DEF t
<1>5. ASSUME NEW y \in Range(t) PROVE y \in Range(q)
  <2>1. PICK i \in 1..(Len(q) - 1) : y = q[i + 1]
    BY <1>3, <1>4 DEF Range
  <2>2. i + 1 \in DOMAIN q
    BY <1>2
  <2> QED BY <2>1, <2>2 DEF Range
<1>6. Head(q) \in Range(q)
  BY <1>2 DEF Range
<1> QED BY <1>3, <1>5, <1>6 DEF SomeSeq, t

\* A path tells its last name and what is above it.
LEMMA PathsDiffer ==
  ASSUME NEW p, SomeSeq(p), NEW x, NEW q, SomeSeq(q), NEW y, Append(p, x) = Append(q, y)
  PROVE  p = q /\ x = y
<1> DEFINE a == Append(p, x)
           b == Append(q, y)
<1>1. /\ Len(p) \in Nat /\ DOMAIN p = 1..Len(p) /\ Len(a) = Len(p) + 1
      /\ \A i \in DOMAIN p : a[i] = p[i]
      /\ a[Len(p) + 1] = x
  BY Appended
<1>2. /\ Len(q) \in Nat /\ DOMAIN q = 1..Len(q) /\ Len(b) = Len(q) + 1
      /\ \A i \in DOMAIN q : b[i] = q[i]
      /\ b[Len(q) + 1] = y
  BY Appended
<1>3. a = b
  OBVIOUS
<1> HIDE DEF a, b
<1>4. Len(p) = Len(q)
  <2>1. Len(p) + 1 = Len(q) + 1
    BY <1>1, <1>2, <1>3
  <2>2. Len(p) \in Nat /\ Len(q) \in Nat
    BY <1>1, <1>2
  <2> QED BY <2>1, <2>2
<1>5. x = y /\ DOMAIN p = DOMAIN q
  BY <1>1, <1>2, <1>3, <1>4
<1>6. \A i \in DOMAIN p : p[i] = q[i]
  BY <1>1, <1>2, <1>3, <1>5
<1>7. p = [i \in DOMAIN p |-> p[i]] /\ q = [i \in DOMAIN q |-> q[i]]
  BY DEF SomeSeq
<1> QED BY <1>5, <1>6, <1>7

LEMMA PathNotRoot ==
  ASSUME NEW p, SomeSeq(p), NEW x PROVE Append(p, x) # << >>
<1>1. Len(Append(p, x)) = Len(p) + 1 /\ Len(p) \in Nat
  BY Appended
<1> QED BY <1>1

LEMMA LeadsOn ==
  ASSUME NEW tr, NEW path, SomeSeq(path), NEW name
  PROVE  Leads(tr, Append(path, name)) = Child(tr, Leads(tr, path), name)
<1>1. PICK S : path \in Seq(S)
  BY DEF SomeSeq
<1>2. path \in Seq(S \cup {name}) /\ name \in S \cup {name}
  BY <1>1
<1>3. \A p : Leads(tr, p) = Walked!Fold(tr, None, tr.root, p)
  BY DEF Leads, Way, Walked!Fold, FoldLeft, MapThenFoldSet, Walked!MapThenFoldSet,
         Max, Walked!Max
<1> QED BY <1>2, <1>3, Walked!FoldAppend DEF Way

LEMMA LeadsRoot == ASSUME NEW tr PROVE Leads(tr, << >>) = tr.root
<1>1. Leads(tr, << >>) = Walked!Fold(tr, None, tr.root, << >>)
  BY DEF Leads, Way, Walked!Fold, FoldLeft, MapThenFoldSet, Walked!MapThenFoldSet,
         Max, Walked!Max
<1>2. DOMAIN << >> = 1..Len(<< >>) /\ Len(<< >>) = 0
  OBVIOUS
<1>3. PICK at : Walked!Turns(tr, None, tr.root, << >>, at) /\ at[Len(<< >>)] = Walked!Fold(tr, None, tr.root, << >>)
  BY <1>2, Walked!FoldTurns
<1> QED BY <1>1, <1>2, <1>3 DEF Walked!Turns

-----------------------------------------------------------------------------
(* The verdict on one source.                                              *)

\* The options that an analysis reads are those of its fingerprint.
Pick(findings, codes) == SelectSeq(findings, LAMBDA f : f.code \in codes)

\* Classify, of what it reads.
Judged(path, x, kept, format) ==
  LET res == Result(path, "healthy", None, kept)
  IN [res EXCEPT !.verdict = IF \E f \in Range(kept) : f.code = "SL301" THEN "unsupported"
                             ELSE IF res.errors > 0 THEN "invalid" ELSE "healthy",
                 !.format = format, !.session = x.session, !.tip = x.tip, !.links = x.links]
Kept(found, known) == IF known = None THEN found ELSE FilterFindings(found, known)

LEMMA SameAnalysis ==
  ASSUME NEW c, NEW d, AnalysisFp(c) = AnalysisFp(d), NEW path, NEW seen
  PROVE  ScanSource(path, seen, c) = ScanSource(path, seen, d)
<1>1. /\ c.skipUndetected = d.skipUndetected /\ c.enabled = d.enabled /\ c.allowed = d.allowed
      /\ c.forced = d.forced /\ c.baseline = d.baseline /\ c.maxFileBytes = d.maxFileBytes
  BY DEF AnalysisFp
<1>2. \A q, o : Enabled(q, o) = Pick(q, o.enabled)
  BY DEF Enabled, Pick
<1>3. \A q : Enabled(q, c) = Enabled(q, d)
  BY <1>1, <1>2
<1>4. \A x : Format(x, c) = Format(x, d) /\ Oversize(x, c) = Oversize(x, d)
  BY <1>1 DEF Format, Oversize
<1>5. \A x : Undetected(path, x, c) = Undetected(path, x, d)
  BY <1>1, <1>3 DEF Undetected
<1>6. Classify(path, seen, c) = Classify(path, seen, d)
  <2> DEFINE Found(o) == Enabled(LoadedFindings(path, seen), o) \o At(path, Enabled(seen.load.checks, o))
  <2>1. \A o : Classify(path, seen, o) = Judged(path, seen.load, Kept(Found(o), o.baseline), Format(seen.detect, o))
    BY DEF Classify, Judged, Kept
  <2>2. Found(c) = Found(d)
    BY <1>3
  <2> QED BY <1>1, <1>4, <2>1, <2>2
<1>7. Detected(path, seen, c) = Detected(path, seen, d)
  BY <1>1, <1>4, <1>6 DEF Detected
<1> QED BY <1>4, <1>5, <1>7 DEF ScanSource

\* What a result says of itself: its path, and that it was not replayed.
Fresh(r, path) ==
  /\ r = [k \in DOMAIN r |-> r[k]] /\ {"path", "hit"} \subseteq DOMAIN r
  /\ r.path = path /\ r.hit = FALSE

LEMMA ResultFresh ==
  ASSUME NEW path, NEW verdict, NEW reason, NEW findings
  PROVE  Fresh(Result(path, verdict, reason, findings), path)
<1> DEFINE n == Count(findings, IsError)
           m == Count(findings, IsWarning)
<1>1. Result(path, verdict, reason, findings) =
        [path |-> path, verdict |-> verdict, reason |-> reason, findings |-> findings,
         errors |-> n, warnings |-> m,
         hit |-> FALSE, format |-> None, session |-> None, tip |-> None, links |-> << >>]
  BY DEF Result
<1> HIDE DEF n, m
<1> QED BY <1>1 DEF Fresh

LEMMA SourceFresh ==
  ASSUME NEW path, NEW seen, NEW c PROVE Fresh(ScanSource(path, seen, c), path)
<1>1. \A why : Fresh(Skipped(path, why), path)
  BY ResultFresh DEF Skipped
<1>2. \A verdict, code : Fresh(Broken(path, verdict, code), path)
  BY ResultFresh DEF Broken
<1>3. Fresh(Undetected(path, seen.detect, c), path)
  BY <1>1, ResultFresh DEF Undetected
<1>4. Fresh(Classify(path, seen, c), path)
  <2>1. PICK r, v, f, n, t, k : /\ Fresh(r, path)
                                /\ Classify(path, seen, c) = [r EXCEPT !.verdict = v, !.format = f, !.session = n, !.tip = t, !.links = k]
    BY ZenonT(40), ResultFresh DEF Classify
  <2> DEFINE z == [r EXCEPT !.verdict = v, !.format = f, !.session = n, !.tip = t, !.links = k]
  <2>2. /\ z = [y \in DOMAIN z |-> z[y]] /\ DOMAIN z = DOMAIN r
        /\ z.path = r.path /\ z.hit = r.hit
    BY <2>1 DEF Fresh
  <2> HIDE DEF z
  <2>3. Fresh(z, path)
    BY <2>1, <2>2 DEF Fresh
  <2> QED BY <2>1, <2>3 DEF z
<1>5. Fresh(Detected(path, seen, c), path)
  BY <1>1, <1>2, <1>4 DEF Detected
<1> QED BY <1>1, <1>2, <1>3, <1>5 DEF ScanSource

LEMMA FreshUnhit ==
  ASSUME NEW r, NEW path, Fresh(r, path) PROVE [r EXCEPT !.hit = FALSE] = r /\ r.path = path
  BY DEF Fresh

\* A stored result that is replayed differs from the fresh one in its flag only.
Unhit(r, y) == [r EXCEPT !.hit = FALSE] = y

LEMMA Replayed ==
  ASSUME NEW r, NEW path, NEW y, Fresh(y, path), Unhit(r, y),
         NEW h, DOMAIN h = DOMAIN r, \A x \in DOMAIN r : h[x] = IF x = "hit" THEN TRUE ELSE r[x]
  PROVE  h.path = path /\ h.hit = TRUE /\ Unhit(h, y)
<1>1. DOMAIN r = DOMAIN y /\ "path" \in DOMAIN y /\ "hit" \in DOMAIN y /\ y.path = path
  BY DEF Fresh, Unhit
<1>2. r.path = path
  BY <1>1 DEF Unhit
<1>3. h.path = path /\ h.hit = TRUE
  BY <1>1, <1>2 DEF Unhit
<1>4. [h EXCEPT !.hit = FALSE] = [r EXCEPT !.hit = FALSE]
  OBVIOUS
<1> QED BY <1>3, <1>4 DEF Unhit

-----------------------------------------------------------------------------
(* What holds of the tree, the options, the contents and the walk.         *)

During(s, i) == {v \in DOMAIN Ledger[i] : began[s][i] <= v /\ v <= version[i]}

\* What an entry of the list of candidates says of its file.
FoundOK(s, f) ==
  /\ f.ino \in DOMAIN Ledger /\ Leads(tree, f.path) = f.ino
  /\ \E v \in During(s, f.ino) : f.size = Ledger[f.ino][v].size

Shaped(w) ==
  DOMAIN w = {"stack", "visited", "seen", "found", "indexes", "states", "skipped"}

WalkFits(s, w) ==
  /\ Shaped(w)
  /\ SomeSeq(w.stack) /\ SomeSeq(w.found) /\ SomeSeq(w.skipped)
  /\ \A i, j \in DOMAIN w.stack : w.stack[i].ino = w.stack[j].ino => i = j
  /\ \A d \in Range(w.stack) : /\ d.ino \in w.visited /\ d.ino \in DOMAIN tree.dirs
                               /\ SomeSeq(d.path) /\ Leads(tree, d.path) = d.ino
  /\ \A f \in Range(w.found) : FoundOK(s, f)
  /\ \A f \in Range(w.found) : \A x \in Range(w.skipped) \cup Range(w.stack) : f.path # x.path

\* A path that the walk has something to say of was met in a directory whose turn
\* has been, and no directory has two.
Claims(w) == {x.path : x \in Range(w.stack) \cup Range(w.found) \cup Range(w.skipped)}
Stacked(w) == {d.ino : d \in Range(w.stack)}
Listed(w) == w.visited \ Stacked(w)
Placed(dirs, p) == p = << >> \/ Leads(tree, Front(p)) \in dirs

WalkOK(s, w) == WalkFits(s, w) /\ \A p \in Claims(w) : Placed(Listed(w), p)

\* After n turns of the loop over the entries of dir.
TurnOK(s, dir, n, w) ==
  /\ WalkFits(s, w)
  /\ \A p \in Claims(w) : \/ Placed(Listed(w) \ {dir.ino}, p)
                          \/ \E m \in 1..n : p = Append(dir.path, tree.dirs[dir.ino][m].name)
  /\ dir.ino \in Listed(w) /\ dir.ino \in DOMAIN tree.dirs
  /\ SomeSeq(dir.path) /\ Leads(tree, dir.path) = dir.ino

TreeOK ==
  /\ tree.root \in DOMAIN tree.dirs
  /\ \A d \in DOMAIN tree.dirs :
       LET es == tree.dirs[d]
       IN /\ SomeSeq(es)
          /\ \A i, j \in DOMAIN es : es[i].name = es[j].name => i = j
          /\ \A i \in DOMAIN es : PointsRight(tree, es[i])

ClockOK ==
  /\ DOMAIN version = DOMAIN Ledger /\ DOMAIN began = Scanner
  /\ \A i \in DOMAIN Ledger : version[i] \in DOMAIN Ledger[i]
  /\ \A s \in Scanner : \A i \in DOMAIN Ledger : began[s][i] \in Nat /\ began[s][i] <= version[i]

LEMMA Contents ==
  ASSUME LedgerAssumption
  PROVE  \A i \in DOMAIN Ledger : /\ DOMAIN Ledger[i] \subseteq Nat /\ 1 \in DOMAIN Ledger[i]
                                  /\ DOMAIN Ledger[i] = 1..Len(Ledger[i]) /\ Len(Ledger[i]) \in Nat
<1> TAKE i \in DOMAIN Ledger
<1> DEFINE q == Ledger[i]
<1>1. q \in Seq(Range(q)) /\ q # << >>
  BY DEF LedgerAssumption
<1> HIDE DEF q
<1>2. Len(q) \in Nat \ {0} /\ DOMAIN q = 1..Len(q)
  BY <1>1
<1> QED BY <1>2 DEF q

LEMMA NowDuring ==
  ASSUME LedgerAssumption, ClockOK, NEW s \in Scanner, NEW i \in DOMAIN Ledger
  PROVE  version[i] \in During(s, i) /\ Content(i) = Ledger[i][version[i]]
BY Contents DEF ClockOK, During, Content

\* What a check of one time meets is what a check of a longer time may meet.
LEMMA ReadingsGrow ==
  ASSUME NEW early \in Nat, NEW from \in Nat, NEW to \in Nat, NEW late \in Nat, early <= from, to <= late,
         NEW v \in Readings(from, to)
  PROVE  v \in Readings(early, late) /\ v.stat \in Nat /\ from <= v.stat
<1>1. v \in [Stage -> from..to]
  BY DEF Readings
<1>2. v \in [Stage -> early..late]
  BY <1>1
<1>3. v.stat \in from..to
  BY <1>1 DEF Stage
<1> QED BY <1>2, <1>3 DEF Readings

-----------------------------------------------------------------------------
(* One turn of the walk.                                                   *)

LEMMA Parted ==
  ASSUME NEW p, SomeSeq(p), NEW x
  PROVE  Append(p, x) # << >> /\ Front(Append(p, x)) = p
<1>1. Append(p, x) # << >> /\ SomeSeq(Append(p, x)) /\ Len(Append(p, x)) = Len(p) + 1
  BY Appended, PathNotRoot
<1>2. /\ SomeSeq(p) /\ DOMAIN p = 1..Len(p) /\ Len(p) \in Nat
      /\ DOMAIN Append(p, x) = 1..(Len(p) + 1)
      /\ \A i \in DOMAIN p : Append(p, x)[i] = p[i]
  BY Appended
<1> DEFINE f == Front(Append(p, x))
<1>3. /\ SomeSeq(f) /\ DOMAIN f = DOMAIN Append(p, x) \ {Len(p) + 1}
      /\ \A i \in DOMAIN f : f[i] = Append(p, x)[i]
  BY <1>1, Popped
<1> HIDE DEF f
<1>4. DOMAIN f = DOMAIN p
  BY <1>2, <1>3
<1>5. f = [i \in DOMAIN f |-> f[i]] /\ p = [i \in DOMAIN p |-> p[i]]
  BY <1>2, <1>3 DEF SomeSeq
<1>6. \A i \in DOMAIN p : f[i] = p[i]
  BY <1>2, <1>3, <1>4
<1>7. f = p
  BY <1>4, <1>5, <1>6
<1> QED BY <1>1, <1>7 DEF f

\* The path of an entry leads to what the entry points at.
LEMMA EntryLeads ==
  ASSUME TreeOK, NEW dir, dir.ino \in DOMAIN tree.dirs, SomeSeq(dir.path), Leads(tree, dir.path) = dir.ino,
         NEW n \in DOMAIN tree.dirs[dir.ino]
  PROVE  Leads(tree, Append(dir.path, tree.dirs[dir.ino][n].name)) = tree.dirs[dir.ino][n].ino
<1> DEFINE es == tree.dirs[dir.ino]
           name == es[n].name
           some == Inside(tree, dir.ino, name)
<1>1. Leads(tree, Append(dir.path, name)) = Child(tree, dir.ino, name)
  BY LeadsOn
<1>2. \A i, j \in DOMAIN es : es[i].name = es[j].name => i = j
  BY DEF TreeOK
<1>3. some = {es[n]}
  <2>1. \A e \in some : \E i \in DOMAIN es : e = es[i] /\ es[i].name = name
    BY DEF Inside, Range
  <2>2. es[n] \in some
    BY DEF Inside, Range
  <2> HIDE DEF some
  <2>3. \A e \in some : e = es[n]
    BY <1>2, <2>1
  <2> QED BY <2>2, <2>3
<1>4. Child(tree, dir.ino, name) = (CHOOSE e \in some : TRUE).ino /\ some # {}
  BY <1>3 DEF Child
<1> HIDE DEF some
<1>5. (CHOOSE e \in some : TRUE) = es[n]
  BY <1>3
<1> QED BY <1>1, <1>4, <1>5

\* The path of the next entry is a new one.
LEMMA NewPath ==
  ASSUME TreeOK, NEW s, NEW dir, NEW n \in Nat, NEW w, TurnOK(s, dir, n, w),
         n + 1 \in DOMAIN tree.dirs[dir.ino]
  PROVE  Append(dir.path, tree.dirs[dir.ino][n + 1].name) \notin Claims(w)
<1> DEFINE es == tree.dirs[dir.ino]
           path == Append(dir.path, es[n + 1].name)
<1>1. SomeSeq(dir.path) /\ dir.ino \in DOMAIN tree.dirs /\ Leads(tree, dir.path) = dir.ino
  BY DEF TurnOK
<1>2. path # << >> /\ Leads(tree, Front(path)) = dir.ino
  BY <1>1, Parted
<1>3. ~Placed(Listed(w) \ {dir.ino}, path)
  BY <1>2 DEF Placed
<1>4. SomeSeq(es) /\ \A i, j \in DOMAIN es : es[i].name = es[j].name => i = j
  BY <1>1 DEF TreeOK
<1>5. DOMAIN es = 1..Len(es) /\ Len(es) \in Nat
  BY <1>4, Appended
<1>6. ASSUME NEW m \in 1..n, path = Append(dir.path, es[m].name) PROVE FALSE
  <2>1. es[m].name = es[n + 1].name
    BY <1>1, <1>6, PathsDiffer
  <2>2. m \in DOMAIN es /\ n + 1 \in DOMAIN es /\ m # n + 1
    BY <1>5
  <2> HIDE DEF es
  <2> QED BY <1>4, <2>1, <2>2
<1>7. path \in Claims(w) => \/ Placed(Listed(w) \ {dir.ino}, path)
                            \/ \E m \in 1..n : path = Append(dir.path, es[m].name)
  BY DEF TurnOK
<1> HIDE DEF path
<1> QED BY <1>3, <1>6, <1>7 DEF path

\* A path, a directory or a candidate that is new keeps the walk in order.
LEMMA NoteFits ==
  ASSUME NEW s, NEW w, WalkFits(s, w), NEW r, \A f \in Range(w.found) : f.path # r.path
  PROVE  WalkFits(s, Note(w, r)) /\ Claims(Note(w, r)) = Claims(w) \cup {r.path} /\ Listed(Note(w, r)) = Listed(w)
<1> DEFINE v == Note(w, r)
<1>1. /\ v.stack = w.stack /\ v.visited = w.visited /\ v.found = w.found
      /\ v.skipped = Append(w.skipped, r)
      /\ Shaped(v)
  BY DEF Note, WalkFits, Shaped
<1> HIDE DEF v
<1>2. SomeSeq(v.skipped) /\ Range(v.skipped) = Range(w.skipped) \cup {r}
  BY <1>1, Appended DEF WalkFits
<1>4. WalkFits(s, v)
  BY <1>1, <1>2 DEF WalkFits
<1>5. Claims(v) = Claims(w) \cup {r.path}
  BY <1>1, <1>2 DEF Claims
<1>6. Listed(v) = Listed(w)
  BY <1>1 DEF Listed, Stacked
<1> QED BY <1>4, <1>5, <1>6 DEF v

LEMMA PushFits ==
  ASSUME NEW s, NEW w, WalkFits(s, w), NEW d, NEW path, d = [ino |-> d.ino, path |-> path],
         path \notin Claims(w), d.ino \notin w.visited, d.ino \in DOMAIN tree.dirs,
         SomeSeq(path), Leads(tree, path) = d.ino,
         NEW v, Shaped(v), v.stack = Append(w.stack, d), v.visited = w.visited \cup {d.ino},
         v.found = w.found, v.skipped = w.skipped
  PROVE  WalkFits(s, v) /\ Claims(v) = Claims(w) \cup {path} /\ Listed(v) = Listed(w)
<1>2. /\ SomeSeq(v.stack) /\ Range(v.stack) = Range(w.stack) \cup {d}
      /\ Len(w.stack) \in Nat /\ DOMAIN w.stack = 1..Len(w.stack) /\ DOMAIN v.stack = 1..(Len(w.stack) + 1)
      /\ \A i \in DOMAIN w.stack : v.stack[i] = w.stack[i]
      /\ v.stack[Len(w.stack) + 1] = d
  BY Appended DEF WalkFits
<1>3. d.path = path /\ \A f \in Range(w.found) : f.path # path
  BY DEF Claims
<1>4. d.ino \notin Stacked(w)
  BY DEF Stacked, WalkFits
<1>5. \A i \in DOMAIN w.stack : w.stack[i].ino # d.ino
  BY <1>4 DEF Stacked, Range
<1>6. \A i, j \in DOMAIN v.stack : v.stack[i].ino = v.stack[j].ino => i = j
  <2> TAKE i, j \in DOMAIN v.stack
  <2> HAVE v.stack[i].ino = v.stack[j].ino
  <2>1. \A m \in DOMAIN v.stack : m \in DOMAIN w.stack \/ m = Len(w.stack) + 1
    BY <1>2
  <2>2. \A m, k \in DOMAIN w.stack : w.stack[m].ino = w.stack[k].ino => m = k
    BY DEF WalkFits
  <2> QED BY <1>2, <1>5, <2>1, <2>2
<1>7. WalkFits(s, v)
  BY <1>2, <1>3, <1>6 DEF WalkFits
<1>8. Claims(v) = Claims(w) \cup {path}
  BY <1>2, <1>3 DEF Claims
<1>9. Stacked(v) = Stacked(w) \cup {d.ino}
  BY <1>2 DEF Stacked
<1>10. Listed(v) = Listed(w)
  BY <1>9 DEF Listed
<1> QED BY <1>7, <1>8, <1>10

LEMMA FindFits ==
  ASSUME NEW s, NEW w, WalkFits(s, w), NEW f, FoundOK(s, f), f.path \notin Claims(w),
         NEW v, Shaped(v), v.stack = w.stack, v.visited = w.visited, v.found = Append(w.found, f),
         v.skipped = w.skipped
  PROVE  WalkFits(s, v) /\ Claims(v) = Claims(w) \cup {f.path} /\ Listed(v) = Listed(w)
<1>2. SomeSeq(v.found) /\ Range(v.found) = Range(w.found) \cup {f}
  BY Appended DEF WalkFits
<1>3. \A x \in Range(w.skipped) \cup Range(w.stack) : x.path # f.path
  BY DEF Claims
<1>4. WalkFits(s, v)
  BY <1>2, <1>3 DEF WalkFits
<1>5. Claims(v) = Claims(w) \cup {f.path}
  BY <1>2 DEF Claims
<1>6. Listed(v) = Listed(w)
  BY DEF Listed, Stacked
<1> QED BY <1>4, <1>5, <1>6

LEMMA AsideFits ==
  ASSUME NEW s, NEW w, WalkFits(s, w), NEW v,
         v = w \/ (\E x : v = [w EXCEPT !.indexes = x]) \/ (\E x : v = [w EXCEPT !.states = x])
  PROVE  WalkFits(s, v) /\ Claims(v) = Claims(w) /\ Listed(v) = Listed(w)
<1>1. /\ v.stack = w.stack /\ v.visited = w.visited /\ v.found = w.found /\ v.skipped = w.skipped
      /\ Shaped(v)
  BY DEF WalkFits, Shaped
<1> QED BY <1>1 DEF WalkFits, Claims, Listed, Stacked

-----------------------------------------------------------------------------
(* The cases of an entry.                                                  *)

\* What one entry at path does to the walk: nothing, or something new about path.
Moves(s, path, w, v) ==
  WalkFits(s, v) /\ Claims(v) \subseteq Claims(w) \cup {path} /\ Listed(v) = Listed(w)

LEMMA NoteMoves ==
  ASSUME NEW s, NEW w, WalkFits(s, w), NEW path, path \notin Claims(w), NEW why
  PROVE  /\ Moves(s, path, w, Note(w, Skipped(path, why)))
         /\ \A verdict : Moves(s, path, w, Note(w, Result(path, verdict, why, << >>)))
<1>1. ASSUME NEW verdict PROVE Result(path, verdict, why, << >>).path = path
  <2>1. Fresh(Result(path, verdict, why, << >>), path)
    BY ResultFresh
  <2> QED BY <2>1 DEF Fresh
<1>2. \A f \in Range(w.found) : f.path # path
  BY DEF Claims
<1>3. \A verdict : Moves(s, path, w, Note(w, Result(path, verdict, why, << >>)))
  BY <1>1, <1>2, NoteFits DEF Moves
<1> QED BY <1>3 DEF Skipped

LEMMA DescendMoves ==
  ASSUME NEW s, NEW w, WalkFits(s, w), NEW path, path \notin Claims(w), NEW ino, ino \in DOMAIN tree.dirs,
         SomeSeq(path), Leads(tree, path) = ino
  PROVE  Moves(s, path, w, Descend(w, path, ino))
<1>1. CASE ino \in w.visited
  BY <1>1, NoteMoves DEF Descend
<1>2. CASE ino \notin w.visited
  <2> DEFINE d == [ino |-> ino, path |-> path]
             v == [w EXCEPT !.visited = @ \cup {ino}, !.stack = Append(@, d)]
  <2>1. Descend(w, path, ino) = v
    BY <1>2 DEF Descend
  <2>2. d.ino = ino /\ d = [ino |-> d.ino, path |-> path]
    OBVIOUS
  <2>3. /\ v.stack = Append(w.stack, d) /\ v.visited = w.visited \cup {ino} /\ v.found = w.found
        /\ v.skipped = w.skipped /\ Shaped(v)
    <3>1. Shaped(w)
      BY DEF WalkFits
    <3> QED BY <3>1 DEF Shaped
  <2> HIDE DEF d, v
  <2>4. d.ino \notin w.visited /\ d.ino \in DOMAIN tree.dirs /\ Leads(tree, path) = d.ino
    BY <1>2, <2>2
  <2>5. WalkFits(s, v) /\ Claims(v) = Claims(w) \cup {path} /\ Listed(v) = Listed(w)
    BY <2>2, <2>3, <2>4, PushFits
  <2> QED BY <2>1, <2>5 DEF Moves
<1> QED BY <1>1, <1>2

LEMMA CandidateMoves ==
  ASSUME LedgerAssumption, ClockOK, NEW s \in Scanner, NEW w, WalkFits(s, w), NEW path, path \notin Claims(w),
         NEW ino \in DOMAIN Ledger, Leads(tree, path) = ino, NEW c
  PROVE  Moves(s, path, w, Candidate(w, path, ino, c))
<1> DEFINE f == [path |-> path, ino |-> ino, size |-> Content(ino).size, mtime |-> mtimes[ino]]
           seen == w.seen \cup {ino}
           v == [w EXCEPT !.seen = seen, !.found = Append(@, f)]
<1>1. f.path = path /\ f.ino = ino /\ f.size = Content(ino).size
  OBVIOUS
<1>2. Candidate(w, path, ino, c) \in {w, Note(w, Skipped(path, "duplicate-hardlink")), v}
  BY DEF Candidate
<1>3. FoundOK(s, f)
  <2> HIDE DEF f
  <2> QED BY <1>1, NowDuring DEF FoundOK
<1>4. Moves(s, path, w, v)
  <2>1. /\ v.stack = w.stack /\ v.visited = w.visited /\ v.found = Append(w.found, f)
        /\ v.skipped = w.skipped /\ Shaped(v)
    <3>1. Shaped(w)
      BY DEF WalkFits
    <3> QED BY <3>1 DEF Shaped
  <2> HIDE DEF f, seen, v
  <2>2. WalkFits(s, v) /\ Claims(v) = Claims(w) \cup {f.path} /\ Listed(v) = Listed(w)
    BY <1>1, <1>3, <2>1, FindFits
  <2> QED BY <1>1, <2>2 DEF Moves
<1>5. Moves(s, path, w, Note(w, Skipped(path, "duplicate-hardlink")))
  BY NoteMoves
<1>6. Moves(s, path, w, w)
  BY DEF Moves
<1> HIDE DEF v
<1> QED BY <1>2, <1>4, <1>5, <1>6

LEMMA EntryMoves ==
  ASSUME LedgerAssumption, ClockOK, NEW s \in Scanner, NEW w, WalkFits(s, w), NEW dir, NEW e, NEW path,
         path = Append(dir, e.name), SomeSeq(path), path \notin Claims(w), Leads(tree, path) = e.ino,
         PointsRight(tree, e), NEW c
  PROVE  Moves(s, path, w, Entry(w, dir, e, c))
<1>1. CASE e.kind = "builtin" \/ e.name \in c.exclude
  <2>1. Entry(w, dir, e, c) = w
    BY <1>1 DEF Entry
  <2> QED BY <2>1 DEF Moves
<1>2. CASE e.kind = "special" /\ e.name \notin c.exclude
  BY <1>2, NoteMoves DEF Entry
<1>3. CASE e.kind = "dir" /\ e.name \notin c.exclude
  <2>1. e.ino \in DOMAIN tree.dirs
    BY <1>3 DEF PointsRight
  <2> QED BY <1>3, <2>1, DescendMoves DEF Entry
<1>4. CASE e.kind = "link" /\ e.name \notin c.exclude
  <2> DEFINE why == IF e.ino # None /\ IsDir(e.ino) THEN "symlink-directory-skipped" ELSE "symlink-skipped"
  <2>1. Entry(w, dir, e, c) = FollowLink(w, path, e, c)
    BY <1>4 DEF Entry
  <2>2. e.ino = None \/ e.ino \in DOMAIN tree.dirs \cup DOMAIN Ledger
    BY <1>4 DEF PointsRight
  <2>3. CASE ~c.followSymlinks
    <3>1. FollowLink(w, path, e, c) = Note(w, Skipped(path, why))
      BY <2>3 DEF FollowLink
    <3> HIDE DEF why
    <3> QED BY <2>1, <3>1, NoteMoves
  <2>4. CASE c.followSymlinks /\ e.ino = None
    <3>1. FollowLink(w, path, e, c) = Note(w, Result(path, "unreadable", "broken-symlink", << >>))
      BY <2>4 DEF FollowLink
    <3> QED BY <2>1, <3>1, NoteMoves
  <2>5. CASE c.followSymlinks /\ e.ino # None /\ IsDir(e.ino)
    <3>1. FollowLink(w, path, e, c) = Descend(w, path, e.ino) /\ e.ino \in DOMAIN tree.dirs
      BY <2>5 DEF FollowLink, IsDir
    <3> QED BY <2>1, <3>1, DescendMoves
  <2>6. CASE c.followSymlinks /\ e.ino # None /\ ~IsDir(e.ino)
    <3>1. e.ino \in DOMAIN Ledger
      BY <2>2, <2>6 DEF IsDir
    <3>2. FollowLink(w, path, e, c) = Candidate(w, path, e.ino, c)
      BY <2>6 DEF FollowLink
    <3> QED BY <2>1, <3>1, <3>2, CandidateMoves
  <2> QED BY <2>3, <2>4, <2>5, <2>6
<1>5. CASE e.kind \notin {"builtin", "special", "dir", "link"} /\ e.name \notin c.exclude
  <2>1. PICK v : /\ v = w \/ (\E x : v = [w EXCEPT !.indexes = x]) \/ (\E x : v = [w EXCEPT !.states = x])
                 /\ Entry(w, dir, e, c) = Candidate(v, path, e.ino, c)
    <3> DEFINE at == {[path |-> path, ino |-> e.ino]}
               v1 == [w EXCEPT !.indexes = @ \cup at]
               v2 == [w EXCEPT !.states = @ \cup at]
    <3>1. \E x : v1 = [w EXCEPT !.indexes = x]
      OBVIOUS
    <3>2. \E x : v2 = [w EXCEPT !.states = x]
      OBVIOUS
    <3>3. Entry(w, dir, e, c) \in {Candidate(w, path, e.ino, c), Candidate(v1, path, e.ino, c), Candidate(v2, path, e.ino, c)}
      BY <1>5 DEF Entry
    <3> HIDE DEF v1, v2
    <3> QED BY <3>1, <3>2, <3>3
  <2>2. WalkFits(s, v) /\ Claims(v) = Claims(w) /\ Listed(v) = Listed(w)
    BY <2>1, AsideFits
  <2>3. e.ino \in DOMAIN Ledger
    BY <1>5 DEF PointsRight
  <2>4. Moves(s, path, v, Candidate(v, path, e.ino, c))
    BY <2>2, <2>3, CandidateMoves
  <2> QED BY <2>1, <2>2, <2>4 DEF Moves
<1> QED BY <1>1, <1>2, <1>3, <1>4, <1>5

-----------------------------------------------------------------------------
(* A directory of the walk.                                                *)

LEMMA TurnKeeps ==
  ASSUME LedgerAssumption, TreeOK, ClockOK, NEW s \in Scanner, NEW dir, NEW n \in Nat, NEW w,
         TurnOK(s, dir, n, w), n + 1 \in DOMAIN tree.dirs[dir.ino], NEW c
  PROVE  TurnOK(s, dir, n + 1, Entry(w, dir.path, tree.dirs[dir.ino][n + 1], c))
<1> DEFINE e == tree.dirs[dir.ino][n + 1]
           path == Append(dir.path, e.name)
           v == Entry(w, dir.path, e, c)
<1>1. /\ WalkFits(s, w) /\ dir.ino \in Listed(w) /\ dir.ino \in DOMAIN tree.dirs
      /\ SomeSeq(dir.path) /\ Leads(tree, dir.path) = dir.ino
      /\ \A p \in Claims(w) : \/ Placed(Listed(w) \ {dir.ino}, p)
                              \/ \E m \in 1..n : p = Append(dir.path, tree.dirs[dir.ino][m].name)
  BY DEF TurnOK
<1>2. SomeSeq(path)
  BY <1>1, Appended
<1>3. path \notin Claims(w)
  BY NewPath
<1>4. Leads(tree, path) = e.ino
  BY <1>1, EntryLeads
<1>5. PointsRight(tree, e)
  BY <1>1 DEF TreeOK
<1>6. path = Append(dir.path, e.name)
  OBVIOUS
<1>7. Moves(s, path, w, v)
  <2> HIDE DEF path, e
  <2> QED BY <1>1, <1>2, <1>3, <1>4, <1>5, <1>6, EntryMoves
<1> HIDE DEF v
<1>8. WalkFits(s, v) /\ Claims(v) \subseteq Claims(w) \cup {path} /\ Listed(v) = Listed(w)
  BY <1>7 DEF Moves
<1>9. n + 1 \in 1..(n + 1) /\ \A m \in 1..n : m \in 1..(n + 1)
  OBVIOUS
<1>10. ASSUME NEW p \in Claims(v)
       PROVE  \/ Placed(Listed(v) \ {dir.ino}, p)
              \/ \E m \in 1..(n + 1) : p = Append(dir.path, tree.dirs[dir.ino][m].name)
  <2>1. CASE p = path
    BY <1>9, <2>1
  <2>2. CASE p \in Claims(w)
    <3> HIDE DEF path, e
    <3> QED BY <1>1, <1>8, <1>9, <2>2
  <2> QED BY <1>8, <2>1, <2>2
<1> HIDE DEF path
<1>11. TurnOK(s, dir, n + 1, v)
  BY <1>1, <1>8, <1>10 DEF TurnOK
<1> QED BY <1>11 DEF v

\* After the last turn the directory has been listed.
LEMMA LoopKeeps ==
  ASSUME LedgerAssumption, TreeOK, ClockOK, NEW s \in Scanner, NEW dir, NEW w, TurnOK(s, dir, 0, w), NEW c
  PROVE  WalkOK(s, Loop!Fold(dir.path, c, w, tree.dirs[dir.ino]))
<1> DEFINE es == tree.dirs[dir.ino]
           loop == Loop!Fold(dir.path, c, w, es)
<1>1. SomeSeq(es) /\ dir.ino \in DOMAIN tree.dirs
  BY DEF TurnOK, TreeOK
<1>2. DOMAIN es = 1..Len(es) /\ Len(es) \in Nat
  BY <1>1, Appended
<1>3. PICK at : Loop!Turns(dir.path, c, w, es, at) /\ at[Len(es)] = loop
  <2> HIDE DEF es
  <2> QED BY <1>2, Loop!FoldTurns
<1> HIDE DEF loop
<1> DEFINE N == {n \in Nat : n =< Len(es) => TurnOK(s, dir, n, at[n])}
<1>4. 0 \in N
  BY <1>3 DEF Loop!Turns
<1>5. ASSUME NEW n \in Nat, n \in N PROVE n + 1 \in N
  <2> SUFFICES ASSUME n + 1 =< Len(es) PROVE TurnOK(s, dir, n + 1, at[n + 1])
    OBVIOUS
  <2>1. n < Len(es) /\ n + 1 \in DOMAIN es
    BY <1>2
  <2>2. TurnOK(s, dir, n, at[n])
    BY <1>2, <1>5, <2>1
  <2>3. at[n + 1] = Entry(at[n], dir.path, es[n + 1], c)
    BY <1>3, <2>1 DEF Loop!Turns, Enter
  <2> QED BY <2>1, <2>2, <2>3, TurnKeeps
<1>6. Nat \subseteq N
  <2> HIDE DEF N
  <2> QED BY <1>4, <1>5, Loop!NatSet
<1>7. TurnOK(s, dir, Len(es), loop)
  BY <1>2, <1>3, <1>6
<1>8. ASSUME NEW p \in Claims(loop) PROVE Placed(Listed(loop), p)
  <2>1. CASE Placed(Listed(loop) \ {dir.ino}, p)
    BY <2>1 DEF Placed
  <2>2. CASE \E m \in 1..Len(es) : p = Append(dir.path, es[m].name)
    <3>1. PICK m \in 1..Len(es) : p = Append(dir.path, es[m].name)
      BY <2>2
    <3>2. Front(p) = dir.path
      BY <1>7, <3>1, Parted DEF TurnOK
    <3> QED BY <1>7, <3>2 DEF TurnOK, Placed
  <2> QED BY <1>7, <2>1, <2>2 DEF TurnOK
<1>9. WalkOK(s, loop)
  BY <1>7, <1>8 DEF TurnOK, WalkOK
<1> QED BY <1>9 DEF loop

\* The walk without the directory on top of its stack.
Pops(w, v) ==
  /\ Shaped(v) /\ v.stack = Front(w.stack) /\ v.visited = w.visited /\ v.found = w.found
  /\ v.skipped = w.skipped

LEMMA PopIs ==
  ASSUME NEW s, NEW w, WalkOK(s, w) PROVE Pops(w, [w EXCEPT !.stack = Front(@)])
<1>1. Shaped(w)
  BY DEF WalkOK, WalkFits
<1> QED BY <1>1 DEF Shaped, Pops

LEMMA PopKeeps ==
  ASSUME NEW s \in Scanner, NEW w, WalkOK(s, w), w.stack # << >>,
         NEW v, Pops(w, v), NEW dir, dir = Last(w.stack)
  PROVE  /\ TurnOK(s, dir, 0, v)
         /\ \A f \in Range(v.found) : f.path # dir.path
         /\ dir.path \in Claims(w) /\ Claims(v) \subseteq Claims(w)
         /\ Listed(v) = Listed(w) \cup {dir.ino}
<1>1. WalkFits(s, w) /\ \A p \in Claims(w) : Placed(Listed(w), p)
  BY DEF WalkOK
<1>2. /\ v.stack = Front(w.stack) /\ v.visited = w.visited /\ v.found = w.found
      /\ v.skipped = w.skipped /\ Shaped(v)
  BY DEF Pops
<1> DEFINE q == w.stack
<1>20. SomeSeq(q) /\ q # << >>
  BY <1>1 DEF WalkFits
<1>21. /\ SomeSeq(Front(q)) /\ Range(q) = Range(Front(q)) \cup {Last(q)}
      /\ Len(q) \in DOMAIN q /\ Last(q) = q[Len(q)]
      /\ DOMAIN Front(q) = DOMAIN q \ {Len(q)}
      /\ \A i \in DOMAIN Front(q) : Front(q)[i] = q[i]
  <2> HIDE DEF q
  <2> QED BY <1>20, Popped
<1>3. /\ SomeSeq(v.stack) /\ Range(w.stack) = Range(v.stack) \cup {dir}
      /\ Len(w.stack) \in DOMAIN w.stack /\ dir = w.stack[Len(w.stack)]
      /\ DOMAIN v.stack = DOMAIN w.stack \ {Len(w.stack)}
      /\ \A i \in DOMAIN v.stack : v.stack[i] = w.stack[i]
  BY <1>21, <1>2
<1>4. \A i, j \in DOMAIN w.stack : w.stack[i].ino = w.stack[j].ino => i = j
  BY <1>1 DEF WalkFits
<1>5. WalkFits(s, v)
  BY <1>1, <1>2, <1>3, <1>4 DEF WalkFits
<1>6. \A d \in Range(v.stack) : d.ino # dir.ino
  BY <1>3, <1>4 DEF Range
<1>7. Stacked(v) = Stacked(w) \ {dir.ino} /\ dir.ino \in Stacked(w)
  BY <1>3, <1>6 DEF Stacked
<1>8. /\ dir.ino \in w.visited /\ dir.ino \in DOMAIN tree.dirs /\ SomeSeq(dir.path)
      /\ Leads(tree, dir.path) = dir.ino
  BY <1>1, <1>3 DEF WalkFits
<1>9. Listed(v) = Listed(w) \cup {dir.ino} /\ Listed(v) \ {dir.ino} = Listed(w)
  BY <1>2, <1>7, <1>8 DEF Listed
<1>10. Claims(v) \subseteq Claims(w) /\ dir.path \in Claims(w)
  BY <1>2, <1>3 DEF Claims
<1>11. \A f \in Range(v.found) : f.path # dir.path
  BY <1>1, <1>2, <1>3 DEF WalkFits
<1>12. TurnOK(s, dir, 0, v)
  BY <1>1, <1>5, <1>8, <1>9, <1>10 DEF TurnOK
<1> QED BY <1>9, <1>10, <1>11, <1>12

LEMMA FailKeeps ==
  ASSUME NEW s \in Scanner, NEW w, WalkOK(s, w), w.stack # << >>,
         NEW v, Pops(w, v), NEW r, r.path = Last(w.stack).path
  PROVE  WalkOK(s, Note(v, r))
<1> DEFINE dir == Last(w.stack)
<1>1. /\ TurnOK(s, dir, 0, v) /\ \A f \in Range(v.found) : f.path # dir.path
      /\ dir.path \in Claims(w) /\ Claims(v) \subseteq Claims(w)
      /\ Listed(v) = Listed(w) \cup {dir.ino}
  BY PopKeeps
<1> HIDE DEF dir
<1>2. r.path = dir.path
  BY DEF dir
<1>3. WalkFits(s, v)
  BY <1>1 DEF TurnOK
<1>4. WalkFits(s, Note(v, r)) /\ Claims(Note(v, r)) = Claims(v) \cup {r.path} /\ Listed(Note(v, r)) = Listed(v)
  BY <1>1, <1>2, <1>3, NoteFits
<1>5. \A p \in Claims(w) : Placed(Listed(w), p)
  BY DEF WalkOK
<1>6. \A p \in Claims(w) : Placed(Listed(w) \cup {dir.ino}, p)
  BY <1>5 DEF Placed
<1>7. \A p \in Claims(Note(v, r)) : p \in Claims(w)
  BY <1>1, <1>2, <1>4
<1> QED BY <1>1, <1>4, <1>6, <1>7 DEF WalkOK

LEMMA VisitKeeps ==
  ASSUME LedgerAssumption, TreeOK, ClockOK, NEW s \in Scanner, WalkOK(s, walk[s]), VisitDirectory(s),
         s \in DOMAIN walk
  PROVE  WalkOK(s, walk'[s])
<1> DEFINE dir == Last(walk[s].stack)
           v == [walk[s] EXCEPT !.stack = Front(@)]
<1>1. walk'[s] = Loop!Fold(dir.path, cfg[s], v, tree.dirs[dir.ino])
  BY DEF VisitDirectory, Loop!Fold, Enter, FoldLeft, MapThenFoldSet, Loop!MapThenFoldSet,
         Max, Loop!Max
<1>2. TurnOK(s, dir, 0, v)
  <2>1. Pops(walk[s], v)
    BY PopIs
  <2>2. walk[s].stack # << >>
    BY DEF VisitDirectory
  <2> HIDE DEF v
  <2> QED BY <2>1, <2>2, PopKeeps
<1> HIDE DEF dir, v
<1> QED BY <1>1, <1>2, LoopKeeps

LEMMA FirstWalk ==
  ASSUME TreeOK, NEW s \in Scanner,
         NEW w, w = [NoWalk EXCEPT !.stack = <<[ino |-> tree.root, path |-> << >>]>>, !.visited = {tree.root}]
  PROVE  WalkOK(s, w)
<1> DEFINE d == [ino |-> tree.root, path |-> << >>]
<1>1. /\ w.stack = <<d>> /\ w.visited = {tree.root} /\ w.found = << >> /\ w.skipped = << >>
      /\ Shaped(w) /\ d.ino = tree.root /\ d.path = << >>
  BY DEF NoWalk, Shaped
<1> HIDE DEF d
<1>2. SomeSeq(<< >>) /\ SomeSeq(<<d>>) /\ Range(<< >>) = {} /\ Range(<<d>>) = {d} /\ DOMAIN <<d>> = {1}
  <2>1. << >> \in Seq({d}) /\ <<d>> \in Seq({d})
    OBVIOUS
  <2>2. SomeSeq(<< >>) /\ SomeSeq(<<d>>)
    BY <2>1 DEF SomeSeq
  <2>3. DOMAIN << >> = {} /\ DOMAIN <<d>> = {1} /\ <<d>>[1] = d
    OBVIOUS
  <2>4. Range(<< >>) = {} /\ Range(<<d>>) = {d}
    BY <2>3 DEF Range
  <2> QED BY <2>2, <2>3, <2>4
<1>3. Leads(tree, << >>) = tree.root /\ tree.root \in DOMAIN tree.dirs
  BY LeadsRoot DEF TreeOK
<1>4. WalkFits(s, w)
  BY <1>1, <1>2, <1>3 DEF WalkFits
<1>5. \A p \in Claims(w) : p = << >>
  BY <1>1, <1>2 DEF Claims
<1> QED BY <1>4, <1>5 DEF WalkOK, Placed

-----------------------------------------------------------------------------
(* The inductive invariant.                                                *)

\* The files whose results a scan is to report.
Names(s) == IF cfg[s].single # None THEN {file[s]} ELSE Range(walk[s].found)

\* It is what the analysis says of what was met since the file was hashed, or since
\* the scan began.
Stored(path, i, sha, r, c) ==
  \E u \in DOMAIN Ledger[i] : \E v \in Readings(u, version[i]) :
    /\ sha = None \/ sha = Ledger[i][u]
    /\ Unhit(r, ScanSource(path, Seen(i, v), c))
Current(s, i, r) ==
  \E v \in Readings(1, version[i]) :
    Timely(s, i, v, r.hit) /\ Unhit(r, ScanSource(r.path, Seen(i, v), cfg[s]))

ResultOK(s, r) ==
  r.reason \notin Caps => \A f \in Names(s) : f.path = r.path => Current(s, f.ino, r)

\* A file in hand, hashed since the scan began, and what a worker made of it later.
Handed(s, f) ==
  /\ f.ino \in DOMAIN Ledger /\ Leads(tree, f.path) = f.ino
  /\ f.at \in During(s, f.ino) /\ (f.sha = None \/ f.sha = Ledger[f.ino][f.at])

WireOK(s, f, w) ==
  /\ w.at \in During(s, f.ino) /\ f.at <= w.at
  /\ w.result # None =>
       \E v \in Readings(w.at, version[f.ino]) : w.result = ScanSource(f.path, Seen(f.ino, v), cfg[s])

\* A row holds the verdict on what was met after the file was hashed.
RowOK(k, row) ==
  /\ Leads(tree, k[1]) \in DOMAIN Ledger
  /\ \E d : AnalysisFp(d) = k[2] /\ Stored(k[1], Leads(tree, k[1]), row.sha, row.result, d)

RowsFit(q) == \A k \in DOMAIN q : RowOK(k, q[k])
RowsOK == RowsFit(rows)

Selecting == {"select", "check", "pool", "merged"}

SelectOK(s) ==
  /\ \A f \in Range(walk[s].found) : FoundOK(s, f)
  /\ SomeSeq(todo[s]) /\ Range(todo[s]) \subseteq Range(walk[s].found)
  /\ SomeSeq(results[s]) /\ \A r \in Range(results[s]) : ResultOK(s, r)
  /\ SomeSeq(pending[s]) /\ \A f \in Range(pending[s]) : Handed(s, f)
  /\ pc[s] = "check" => Handed(s, file[s])
  /\ SomeSeq(wires[s]) /\ Len(wires[s]) <= Len(pending[s])
  /\ \A n \in DOMAIN wires[s] : WireOK(s, pending[s][n], wires[s][n])

ScanOK(s) ==
  /\ pc[s] \in {"idle", "walk", "single", "done", "cancelled"} \cup Selecting
  /\ pc[s] \in {"idle", "walk", "single", "cancelled"} =>
       results[s] = << >> /\ pending[s] = << >> /\ wires[s] = << >>
  /\ pc[s] = "walk" => cfg[s].single = None /\ WalkOK(s, walk[s])
  /\ pc[s] = "single" => cfg[s].single # None /\ Handed(s, file[s])
  /\ pc[s] \in Selecting => cfg[s].single = None /\ SelectOK(s)
  /\ pc[s] = "done" => /\ \A f \in Names(s) : f.ino \in DOMAIN Ledger
                       /\ \A r \in Range(results[s]) : ResultOK(s, r)

ChosenOK ==
  /\ DOMAIN cfg = Scanner
  /\ \A s \in Scanner :
       /\ {"single", "baseline", "jobs"} \subseteq DOMAIN cfg[s] /\ cfg[s].jobs \in Nat \ {0}
       /\ cfg[s].single # None =>
            cfg[s].single.ino \in DOMAIN Ledger /\ Leads(tree, cfg[s].single.path) = cfg[s].single.ino

ShapeOK ==
  /\ DOMAIN pc = Scanner /\ DOMAIN walk = Scanner /\ DOMAIN results = Scanner /\ DOMAIN todo = Scanner
  /\ DOMAIN file = Scanner /\ DOMAIN pending = Scanner /\ DOMAIN wires = Scanner

\* Who is where, what it has been told, and that all of it was so since it began.
ScansInv == TreeOK /\ ChosenOK /\ ClockOK /\ ShapeOK /\ RowsOK /\ \A s \in Scanner : ScanOK(s)

-----------------------------------------------------------------------------
(* What a step of somebody else leaves as it was.                          *)

Grows == tree' = tree /\ \A i \in DOMAIN Ledger : version[i] <= version'[i]

LEMMA DuringGrows ==
  ASSUME LedgerAssumption, ClockOK, ClockOK', Grows, NEW s \in Scanner, began'[s] = began[s], NEW i \in DOMAIN Ledger
  PROVE  During(s, i) \subseteq During(s, i)'
<1>1. /\ DOMAIN Ledger[i] \subseteq Nat /\ version[i] \in Nat /\ version'[i] \in Nat
      /\ version[i] <= version'[i]
  BY Contents DEF ClockOK, Grows
<1> QED BY <1>1 DEF During

\* Time passes: what was met stays met.
LEMMA StoredGrows ==
  ASSUME LedgerAssumption, ClockOK, ClockOK', Grows, NEW i \in DOMAIN Ledger,
         NEW path, NEW sha, NEW r, NEW c, Stored(path, i, sha, r, c)
  PROVE  Stored(path, i, sha, r, c)'
<1>1. /\ DOMAIN Ledger[i] \subseteq Nat /\ version[i] \in Nat /\ version'[i] \in Nat
      /\ version[i] <= version'[i]
  BY Contents DEF ClockOK, Grows
<1>2. PICK u \in DOMAIN Ledger[i] : \E v \in Readings(u, version[i]) :
        (sha = None \/ sha = Ledger[i][u]) /\ Unhit(r, ScanSource(path, Seen(i, v), c))
  BY DEF Stored
<1>3. PICK v \in Readings(u, version[i]) :
        (sha = None \/ sha = Ledger[i][u]) /\ Unhit(r, ScanSource(path, Seen(i, v), c))
  BY <1>2
<1>4. u \in Nat /\ u <= u
  BY <1>1
<1>5. v \in Readings(u, version'[i])
  BY <1>1, <1>4, ReadingsGrow
<1> QED BY <1>3, <1>5 DEF Stored, Seen

LEMMA CurrentGrows ==
  ASSUME LedgerAssumption, ClockOK, ClockOK', Grows, NEW s \in Scanner, began'[s] = began[s], cfg'[s] = cfg[s],
         NEW i \in DOMAIN Ledger, NEW r, Current(s, i, r)
  PROVE  Current(s, i, r)'
<1>1. /\ DOMAIN Ledger[i] \subseteq Nat /\ version[i] \in Nat /\ version'[i] \in Nat
      /\ version[i] <= version'[i] /\ began[s][i] \in Nat
  BY Contents DEF ClockOK, Grows
<1>2. PICK v \in Readings(1, version[i]) :
        Timely(s, i, v, r.hit) /\ Unhit(r, ScanSource(r.path, Seen(i, v), cfg[s]))
  BY DEF Current
<1>21. 1 \in Nat /\ 1 <= 1
  OBVIOUS
<1>3. v \in Readings(1, version'[i])
  BY <1>1, <1>2, <1>21, ReadingsGrow
<1>4. SinceHashed(s, i, v) => SinceHashed(s, i, v)'
  BY <1>1 DEF SinceHashed
<1>5. Timely(s, i, v, r.hit)'
  BY <1>2, <1>4 DEF Timely
<1> QED BY <1>2, <1>3, <1>5 DEF Current

LEMMA RowGrows ==
  ASSUME LedgerAssumption, ClockOK, ClockOK', Grows, NEW k, NEW row, RowOK(k, row)
  PROVE  RowOK(k, row)'
<1>1. PICK i \in DOMAIN Ledger : i = Leads(tree, k[1])
  BY DEF RowOK
<1>2. PICK path, sha, r : path = k[1] /\ sha = row.sha /\ r = row.result
  OBVIOUS
<1>3. PICK d : AnalysisFp(d) = k[2] /\ Stored(path, i, sha, r, d)
  BY <1>1, <1>2 DEF RowOK
<1>4. Stored(path, i, sha, r, d)'
  BY <1>3, StoredGrows
<1>5. tree' = tree
  BY DEF Grows
<1> QED BY <1>1, <1>2, <1>3, <1>4, <1>5 DEF RowOK

LEMMA FoundGrows ==
  ASSUME LedgerAssumption, ClockOK, ClockOK', Grows, NEW s \in Scanner, began'[s] = began[s], NEW f, FoundOK(s, f)
  PROVE  FoundOK(s, f)'
BY DuringGrows DEF FoundOK, Grows

LEMMA HandedGrows ==
  ASSUME LedgerAssumption, ClockOK, ClockOK', Grows, NEW s \in Scanner, began'[s] = began[s], NEW f, Handed(s, f)
  PROVE  Handed(s, f)'
BY DuringGrows DEF Handed, Grows

LEMMA WireGrows ==
  ASSUME LedgerAssumption, ClockOK, ClockOK', Grows, NEW s \in Scanner, began'[s] = began[s], cfg'[s] = cfg[s],
         NEW f, f.ino \in DOMAIN Ledger, NEW w, WireOK(s, f, w)
  PROVE  WireOK(s, f, w)'
<1>1. PICK i \in DOMAIN Ledger : i = f.ino
  OBVIOUS
<1>2. /\ DOMAIN Ledger[i] \subseteq Nat /\ version[i] \in Nat /\ version'[i] \in Nat
      /\ version[i] <= version'[i]
  BY Contents DEF ClockOK, Grows
<1>3. PICK at \in Nat : at = w.at
  BY <1>1, <1>2 DEF WireOK, During
<1>4. w.at \in During(s, f.ino)'
  BY <1>1, DuringGrows DEF WireOK
<1>5. ASSUME w.result # None
      PROVE  \E v \in Readings(w.at, version'[f.ino]) : w.result = ScanSource(f.path, Seen(f.ino, v), cfg[s])
  <2>1. PICK v \in Readings(at, version[i]) : w.result = ScanSource(f.path, Seen(f.ino, v), cfg[s])
    BY <1>1, <1>3, <1>5 DEF WireOK
  <2>2. v \in Readings(at, version'[i])
    BY <1>2, <1>3, ReadingsGrow
  <2> QED BY <1>1, <1>3, <2>1, <2>2
<1> QED BY <1>4, <1>5 DEF WireOK, Seen

LEMMA ResultGrows ==
  ASSUME LedgerAssumption, ClockOK, ClockOK', Grows, NEW s \in Scanner, began'[s] = began[s], cfg'[s] = cfg[s],
         Names(s)' \subseteq Names(s), \A f \in Names(s) : f.ino \in DOMAIN Ledger, NEW r, ResultOK(s, r)
  PROVE  ResultOK(s, r)'
<1>1. ASSUME r.reason \notin Caps, NEW f \in Names(s)', f.path = r.path PROVE Current(s, f.ino, r)'
  <2>1. PICK i \in DOMAIN Ledger : i = f.ino
    OBVIOUS
  <2>2. Current(s, i, r)
    BY <1>1, <2>1 DEF ResultOK
  <2>3. Current(s, i, r)'
    BY <2>2, CurrentGrows
  <2> QED BY <2>1, <2>3
<1> QED BY <1>1 DEF ResultOK

LEMMA WalkGrows ==
  ASSUME LedgerAssumption, ClockOK, ClockOK', Grows, NEW s \in Scanner, began'[s] = began[s], NEW w, WalkOK(s, w)
  PROVE  WalkOK(s, w)'
<1>1. WalkFits(s, w)'
  BY FoundGrows DEF WalkOK, WalkFits, Grows
<1> QED BY <1>1 DEF WalkOK, Placed, Grows

Unmoved(s) ==
  /\ pc'[s] = pc[s] /\ cfg'[s] = cfg[s] /\ walk'[s] = walk[s] /\ results'[s] = results[s]
  /\ todo'[s] = todo[s] /\ file'[s] = file[s] /\ pending'[s] = pending[s] /\ wires'[s] = wires[s]
  /\ began'[s] = began[s]

LEMMA SelectNames ==
  ASSUME NEW s, cfg[s].single = None, SelectOK(s)
  PROVE  Names(s) = Range(walk[s].found) /\ \A f \in Names(s) : f.ino \in DOMAIN Ledger
BY DEF Names, SelectOK, FoundOK

LEMMA UnmovedKeeps ==
  ASSUME LedgerAssumption, ClockOK, ClockOK', Grows, NEW s \in Scanner, Unmoved(s), ScanOK(s)
  PROVE  ScanOK(s)'
<1>1. /\ pc'[s] = pc[s] /\ cfg'[s] = cfg[s] /\ walk'[s] = walk[s] /\ results'[s] = results[s]
      /\ todo'[s] = todo[s] /\ file'[s] = file[s] /\ pending'[s] = pending[s] /\ wires'[s] = wires[s]
      /\ began'[s] = began[s]
  BY DEF Unmoved
<1>2. Names(s)' = Names(s)
  BY <1>1 DEF Names
<1>3. CASE pc[s] \in {"idle", "cancelled"}
  BY <1>1, <1>3 DEF ScanOK, Selecting
<1>4. CASE pc[s] = "walk"
  <2>1. cfg[s].single = None /\ WalkOK(s, walk[s])
    BY <1>4 DEF ScanOK
  <2>2. WalkOK(s, walk[s])'
    BY <1>1, <2>1, WalkGrows
  <2> QED BY <1>1, <1>4, <2>1, <2>2 DEF ScanOK, Selecting
<1>5. CASE pc[s] = "single"
  <2>1. cfg[s].single # None /\ Handed(s, file[s])
    BY <1>5 DEF ScanOK
  <2>2. Handed(s, file[s])'
    BY <1>1, <2>1, HandedGrows
  <2> QED BY <1>1, <1>5, <2>1, <2>2 DEF ScanOK, Selecting
<1>6. CASE pc[s] \in Selecting
  <2>1. cfg[s].single = None /\ SelectOK(s)
    BY <1>6 DEF ScanOK
  <2>2. \A f \in Range(walk[s].found) : FoundOK(s, f)'
    BY <1>1, <2>1, FoundGrows DEF SelectOK
  <2>3. \A r \in Range(results[s]) : ResultOK(s, r)'
    BY <1>1, <1>2, <2>1, SelectNames, ResultGrows DEF SelectOK
  <2>4. \A f \in Range(pending[s]) : Handed(s, f)'
    BY <1>1, <2>1, HandedGrows DEF SelectOK
  <2>5. pc[s] = "check" => Handed(s, file[s])'
    BY <1>1, <2>1, HandedGrows DEF SelectOK
  <2>6. ASSUME NEW n \in DOMAIN wires[s] PROVE WireOK(s, pending[s][n], wires[s][n])'
    <3>1. SomeSeq(pending[s]) /\ SomeSeq(wires[s]) /\ Len(wires[s]) <= Len(pending[s])
      BY <2>1 DEF SelectOK
    <3>2. n \in DOMAIN pending[s]
      <4>1. /\ DOMAIN pending[s] = 1..Len(pending[s]) /\ Len(pending[s]) \in Nat
            /\ DOMAIN wires[s] = 1..Len(wires[s]) /\ Len(wires[s]) \in Nat
        BY <3>1, Appended
      <4> QED BY <3>1, <4>1
    <3>3. pending[s][n] \in Range(pending[s])
      BY <3>2 DEF Range
    <3>4. pending[s][n].ino \in DOMAIN Ledger /\ WireOK(s, pending[s][n], wires[s][n])
      BY <2>1, <3>3 DEF SelectOK, Handed
    <3> DEFINE g == pending[s][n]
               w == wires[s][n]
    <3>5. (pending[s][n])' = g /\ (wires[s][n])' = w
      BY <1>1
    <3> HIDE DEF g, w
    <3> QED BY <1>1, <3>4, <3>5, WireGrows DEF g, w
  <2>7. SelectOK(s)'
    BY <1>1, <2>1, <2>2, <2>3, <2>4, <2>5, <2>6 DEF SelectOK
  <2> QED BY <1>1, <1>6, <2>1, <2>7 DEF ScanOK, Selecting
<1>7. CASE pc[s] = "done"
  <2>1. \A r \in Range(results[s]) : ResultOK(s, r)'
    BY <1>1, <1>2, <1>7, ResultGrows DEF ScanOK
  <2> QED BY <1>1, <1>2, <1>7, <2>1 DEF ScanOK, Selecting
<1> QED BY <1>3, <1>4, <1>5, <1>6, <1>7 DEF ScanOK

-----------------------------------------------------------------------------
(* The cache.                                                              *)

\* A verdict on what was met since the file was hashed is a good row.
LEMMA PutKeeps ==
  ASSUME RowsOK, NEW s \in Scanner, NEW path, NEW i \in DOMAIN Ledger, Leads(tree, path) = i,
         NEW sha, NEW r, Stored(path, i, sha, r, cfg[s])
  PROVE  RowsFit(Put(s, path, sha, r))
<1>1. CASE Put(s, path, sha, r) = rows
  BY <1>1 DEF RowsOK
<1>2. CASE sha # None /\ Put(s, path, sha, r) = Bind(rows, Row(s, path), [sha |-> sha, result |-> r])
  <2> DEFINE row == [sha |-> sha, result |-> r]
             key == Row(s, path)
             q == Bind(rows, key, row)
  <2>1. key[1] = path /\ key[2] = AnalysisFp(cfg[s])
    BY DEF Row
  <2>2. row.sha = sha /\ row.result = r
    OBVIOUS
  <2>3. DOMAIN q = DOMAIN rows \cup {key} /\ \A k \in DOMAIN q : q[k] = IF k = key THEN row ELSE rows[k]
    BY DEF Bind
  <2> HIDE DEF row, key, q
  <2>4. RowOK(key, row)
    BY <1>2, <2>1, <2>2 DEF RowOK
  <2>5. RowsFit(q)
    BY <2>3, <2>4 DEF RowsOK, RowsFit
  <2> QED BY <1>2, <2>5 DEF q, row, key
<1> QED BY <1>1, <1>2 DEF Put

\* A hit is the verdict on what was met after the file had, for the first time or
\* not, the bytes that it was hashed with since this scan began.
LEMMA HitCurrent ==
  ASSUME LedgerAssumption, ClockOK, RowsOK, NEW s \in Scanner, NEW path, NEW i \in DOMAIN Ledger,
         Leads(tree, path) = i, NEW u \in During(s, i), NEW sha, sha # None, sha = Ledger[i][u],
         CacheLookup(s, path, sha) # None
  PROVE  /\ CacheLookup(s, path, sha).path = path
         /\ Stored(path, i, sha, CacheLookup(s, path, sha), cfg[s])
         /\ Current(s, i, CacheLookup(s, path, sha))
<1> DEFINE row == rows[Row(s, path)]
           r == row.result
           hit == CacheLookup(s, path, sha)
<1>1. Row(s, path) \in DOMAIN rows /\ row.sha = sha /\ hit = [r EXCEPT !.hit = TRUE]
  BY DEF CacheLookup, Get
<1>2. Row(s, path)[1] = path /\ Row(s, path)[2] = AnalysisFp(cfg[s])
  BY DEF Row
<1>3. RowOK(Row(s, path), row)
  BY <1>1 DEF RowsOK, RowsFit
<1> HIDE DEF row
<1>4. PICK d : AnalysisFp(d) = AnalysisFp(cfg[s]) /\ Stored(path, i, sha, r, d)
  BY <1>1, <1>2, <1>3 DEF RowOK
<1> HIDE DEF r, hit
<1>41. PICK first \in DOMAIN Ledger[i] : \E v \in Readings(first, version[i]) :
         sha = Ledger[i][first] /\ Unhit(r, ScanSource(path, Seen(i, v), d))
  BY <1>4 DEF Stored
<1>5. PICK v \in Readings(first, version[i]) :
        sha = Ledger[i][first] /\ Unhit(r, ScanSource(path, Seen(i, v), d))
  BY <1>41
<1>6. PICK y : y = ScanSource(path, Seen(i, v), cfg[s])
  OBVIOUS
<1>7. Fresh(y, path) /\ Unhit(r, y)
  BY <1>4, <1>5, <1>6, SourceFresh, SameAnalysis
<1>8. hit.path = path /\ hit.hit = TRUE /\ Unhit(hit, y)
  <2>1. DOMAIN hit = DOMAIN r /\ \A x \in DOMAIN r : hit[x] = IF x = "hit" THEN TRUE ELSE r[x]
    BY <1>1 DEF hit
  <2> QED BY <1>7, <2>1, Replayed
<1>9. Stored(path, i, sha, hit, cfg[s])
  BY <1>5, <1>6, <1>8 DEF Stored
<1>10. /\ first \in Nat /\ 1 <= first /\ version[i] \in Nat /\ version[i] <= version[i] /\ first <= first
       /\ u \in began[s][i]..version[i]
  BY Contents DEF ClockOK, During
<1>11. v \in Readings(1, version[i]) /\ v.stat \in Nat /\ first <= v.stat
  BY <1>10, ReadingsGrow
<1>12. SinceHashed(s, i, v)
  <2>1. first \in 1..v.stat
    BY <1>10, <1>11
  <2> QED BY <1>5, <1>10, <2>1 DEF SinceHashed
<1>13. Current(s, i, hit)
  BY <1>6, <1>8, <1>11, <1>12 DEF Current, Timely
<1> QED BY <1>8, <1>9, <1>13 DEF hit

\* A verdict on what was met since the file was hashed, or taken by a worker.
LEMMA CheckCurrent ==
  ASSUME LedgerAssumption, ClockOK, NEW s \in Scanner, NEW f, Handed(s, f),
         NEW at \in During(s, f.ino), f.at <= at, NEW v \in Readings(at, version[f.ino]),
         NEW r, r = ScanSource(f.path, Seen(f.ino, v), cfg[s])
  PROVE  /\ r.path = f.path /\ Stored(f.path, f.ino, f.sha, r, cfg[s]) /\ Current(s, f.ino, r)
<1>1. PICK i, path, sha, first :
        i \in DOMAIN Ledger /\ i = f.ino /\ path = f.path /\ sha = f.sha /\ first = f.at
  BY DEF Handed
<1>2. /\ first \in DOMAIN Ledger[i] /\ (sha = None \/ sha = Ledger[i][first]) /\ first <= at
      /\ v \in Readings(at, version[i]) /\ at \in During(s, i)
  BY <1>1 DEF Handed, During
<1>3. /\ first \in Nat /\ 1 <= first /\ at \in Nat /\ version[i] \in Nat /\ version[i] <= version[i]
      /\ began[s][i] \in Nat /\ began[s][i] <= at /\ 1 <= at
  <2>1. DOMAIN Ledger[i] = 1..Len(Ledger[i]) /\ Len(Ledger[i]) \in Nat
    BY <1>1, Contents
  <2>2. at \in DOMAIN Ledger[i] /\ began[s][i] <= at
    BY <1>2 DEF During
  <2>3. version[i] \in DOMAIN Ledger[i] /\ began[s][i] \in Nat
    BY <1>1 DEF ClockOK
  <2> QED BY <1>2, <2>1, <2>2, <2>3
<1>4. v \in Readings(first, version[i]) /\ v \in Readings(1, version[i]) /\ v.stat \in Nat /\ at <= v.stat
  BY <1>2, <1>3, ReadingsGrow
<1>5. PICK y : y = ScanSource(path, Seen(i, v), cfg[s])
  OBVIOUS
<1>6. r = y
  BY <1>1, <1>5
<1>7. Fresh(y, path)
  BY <1>5, SourceFresh
<1>8. y.path = path /\ y.hit = FALSE /\ Unhit(y, y)
  BY <1>7, FreshUnhit DEF Fresh, Unhit
<1>9. Stored(path, i, sha, y, cfg[s])
  BY <1>2, <1>4, <1>5, <1>8 DEF Stored
<1>10. Timely(s, i, v, y.hit)
  BY <1>3, <1>4, <1>8 DEF Timely
<1>11. Current(s, i, y)
  BY <1>4, <1>5, <1>8, <1>10 DEF Current
<1> QED BY <1>1, <1>6, <1>8, <1>9, <1>11

\* A check may meet the same content all the way.
LEMMA MetOne ==
  ASSUME NEW u \in Nat, NEW to \in Nat, u <= to PROVE \E v \in Readings(u, to) : v.stat = u
<1> DEFINE v == [stage \in Stage |-> u]
<1>1. v \in [Stage -> u..to] /\ v.stat = u /\ v.probe = u /\ v.detect = u /\ v.load = u /\ v.blank = u
  BY DEF Stage
<1> HIDE DEF v
<1>2. v \in Readings(u, to)
  BY <1>1 DEF Readings
<1> QED BY <1>1, <1>2

\* A verdict on what a file had since the scan began is one to report, because all
\* names of the scan that read alike lead to one file.
LEMMA VerdictOK ==
  ASSUME NEW s, NEW i, NEW path, Leads(tree, path) = i, \A f \in Names(s) : Leads(tree, f.path) = f.ino,
         NEW r, r.path = path, Current(s, i, r)
  PROVE  ResultOK(s, r)
BY DEF ResultOK

-----------------------------------------------------------------------------
(* One step of one scan.                                                   *)

LEMMA StepKeeps ==
  ASSUME LedgerAssumption, ScansInv, NEW s \in Scanner, tree' = tree, version' = version,
         ShapeOK', DOMAIN began' = Scanner, began'[s] \in {began[s], version}, ChosenOK',
         \A t \in Scanner \ {s} : Unmoved(t), RowsOK', ScanOK(s)'
  PROVE  ScansInv'
<1>1. TreeOK' /\ Grows
  <2>1. \A i \in DOMAIN Ledger : version[i] <= version[i]
    BY Contents DEF ScansInv, ClockOK
  <2> QED BY <2>1 DEF ScansInv, TreeOK, Grows, PointsRight
<1>2. ClockOK'
  <2>1. ASSUME NEW t \in Scanner, NEW i \in DOMAIN Ledger PROVE began'[t][i] \in Nat /\ began'[t][i] <= version[i]
    <3>1. version[i] \in Nat /\ began[t][i] \in Nat /\ began[t][i] <= version[i]
      BY Contents DEF ScansInv, ClockOK
    <3>2. began'[t] \in {began[t], version}
      BY DEF Unmoved
    <3> QED BY <3>1, <3>2
  <2> QED BY <2>1 DEF ScansInv, ClockOK
<1>3. \A t \in Scanner \ {s} : ScanOK(t)'
  BY <1>1, <1>2, UnmovedKeeps DEF ScansInv
<1> QED BY <1>1, <1>2, <1>3 DEF ScansInv

\* A step of s, after its start, that leaves the other scans and the agents alone.
Frame(s) ==
  /\ tree' = tree /\ version' = version /\ cfg' = cfg /\ began' = began
  /\ ShapeOK' /\ \A t \in Scanner \ {s} : Unmoved(t)

LEMMA FrameKeeps ==
  ASSUME LedgerAssumption, ScansInv, NEW s \in Scanner, Frame(s), rows' = rows \/ RowsOK', ScanOK(s)'
  PROVE  ScansInv'
<1>1. RowsOK'
  BY DEF RowsOK, RowsFit, RowOK, Stored, ScansInv, Frame
<1>2. ChosenOK'
  BY DEF ChosenOK, ScansInv, Frame
<1>3. DOMAIN began' = Scanner /\ began'[s] \in {began[s], version}
  BY DEF ClockOK, ScansInv, Frame
<1> QED BY <1>1, <1>2, <1>3, StepKeeps DEF Frame

\* What was so in this scan is so after a step in which no time passes.
LEMMA FrameSame ==
  ASSUME NEW s \in Scanner, Frame(s)
  PROVE  /\ \A i : During(s, i)' = During(s, i)
         /\ \A f : FoundOK(s, f)' = FoundOK(s, f)
         /\ \A f : Handed(s, f)' = Handed(s, f)
         /\ \A f, w : WireOK(s, f, w)' = WireOK(s, f, w)
         /\ Names(s)' = Names(s) => \A r : ResultOK(s, r) => ResultOK(s, r)'
         /\ \A w : WalkOK(s, w) => WalkOK(s, w)'
<1>1. tree' = tree /\ version' = version /\ cfg' = cfg /\ began' = began
  BY DEF Frame
<1>2. \A i : During(s, i)' = During(s, i)
  BY <1>1 DEF During
<1>3. \A f : FoundOK(s, f)' = FoundOK(s, f)
  BY <1>1, <1>2 DEF FoundOK
<1>4. \A f : Handed(s, f)' = Handed(s, f)
  BY <1>1, <1>2 DEF Handed
<1>5. \A f, w : WireOK(s, f, w)' = WireOK(s, f, w)
  BY <1>1, <1>2 DEF WireOK, Seen
<1>51. ASSUME NEW i, NEW r, Current(s, i, r) PROVE Current(s, i, r)'
  <2>1. PICK v \in Readings(1, version[i]) :
          Timely(s, i, v, r.hit) /\ Unhit(r, ScanSource(r.path, Seen(i, v), cfg[s]))
    BY <1>51 DEF Current
  <2>2. Timely(s, i, v, r.hit)'
    BY <1>1, <2>1 DEF Timely, SinceHashed
  <2> QED BY <1>1, <2>1, <2>2 DEF Current
<1>6. ASSUME Names(s)' = Names(s), NEW r, ResultOK(s, r) PROVE ResultOK(s, r)'
  BY ZenonT(40), <1>51, <1>6 DEF ResultOK
<1>7. \A w : WalkOK(s, w) => WalkOK(s, w)'
  BY <1>1, <1>3 DEF WalkOK, WalkFits, Placed
<1> QED BY <1>2, <1>3, <1>4, <1>5, <1>6, <1>7

LEMMA AtWalk ==
  ASSUME ScansInv, NEW s \in Scanner, pc[s] = "walk"
  PROVE  cfg[s].single = None /\ WalkOK(s, walk[s]) /\ results[s] = << >> /\ pending[s] = << >> /\ wires[s] = << >>
BY DEF ScansInv, ScanOK

LEMMA VisitDirectoryKeeps ==
  ASSUME LedgerAssumption, ScansInv, NEW s \in Scanner, VisitDirectory(s)
  PROVE  ScansInv'
<1>1. Frame(s) /\ rows' = rows
  BY DEF ScansInv, ShapeOK, Frame, Unmoved, VisitDirectory, agents, faults
<1>2. /\ pc[s] = "walk" /\ pc'[s] = "walk" /\ cfg'[s] = cfg[s]
      /\ results'[s] = results[s] /\ pending'[s] = pending[s] /\ wires'[s] = wires[s]
  BY DEF VisitDirectory
<1>3. WalkOK(s, walk'[s])
  BY <1>2, AtWalk, VisitKeeps DEF ScansInv, ShapeOK
<1>4. WalkOK(s, walk[s])'
  BY <1>1, <1>3, FrameSame
<1>5. ScanOK(s)'
  BY <1>2, <1>4, AtWalk DEF ScanOK, Selecting
<1> QED BY <1>1, <1>5, FrameKeeps

LEMMA VisitFailsKeeps ==
  ASSUME LedgerAssumption, ScansInv, NEW s \in Scanner, VisitFails(s)
  PROVE  ScansInv'
<1>1. Frame(s) /\ rows' = rows
  BY DEF ScansInv, ShapeOK, Frame, Unmoved, VisitFails, agents, faults
<1>2. /\ pc[s] = "walk" /\ pc'[s] = "walk" /\ cfg'[s] = cfg[s]
      /\ results'[s] = results[s] /\ pending'[s] = pending[s] /\ wires'[s] = wires[s]
  BY DEF VisitFails
<1>3. WalkOK(s, walk'[s])
  <2> DEFINE v == [walk[s] EXCEPT !.stack = Front(@)]
             r == Broken(Last(walk[s].stack).path, "unreadable", "SL001")
  <2>1. walk'[s] = Note(v, r) /\ walk[s].stack # << >>
    <3>1. s \in DOMAIN walk
      BY DEF ScansInv, ShapeOK
    <3>2. walk' = [walk EXCEPT ![s] = Note(v, r)]
      BY DEF VisitFails
    <3>3. walk[s].stack # << >>
      BY DEF VisitFails
    <3> HIDE DEF v, r
    <3> QED BY <3>1, <3>2, <3>3
  <2>2. r.path = Last(walk[s].stack).path
    <3>1. \A path : Fresh(Broken(path, "unreadable", "SL001"), path)
      BY ResultFresh DEF Broken
    <3> QED BY <3>1 DEF Fresh
  <2>3. Pops(walk[s], v)
    BY <1>2, AtWalk, PopIs
  <2> HIDE DEF v, r
  <2> QED BY <1>2, <2>1, <2>2, <2>3, AtWalk, FailKeeps
<1>4. WalkOK(s, walk[s])'
  BY <1>1, <1>3, FrameSame
<1>5. ScanOK(s)'
  BY <1>2, <1>4, AtWalk DEF ScanOK, Selecting
<1> QED BY <1>1, <1>5, FrameKeeps

\* The candidates in whatever order.
LEMMA OrderedSame ==
  ASSUME NEW found, SomeSeq(found), NEW c, NEW q \in Ordered(found, c)
  PROVE  SomeSeq(q) /\ Range(q) \subseteq Range(found)
<1>1. CASE q = found
  BY <1>1
<1>2. CASE \E o \in [DOMAIN found -> DOMAIN found] : q = [n \in DOMAIN found |-> found[o[n]]]
  <2>1. PICK o \in [DOMAIN found -> DOMAIN found] : q = [n \in DOMAIN found |-> found[o[n]]]
    BY <1>2
  <2>2. DOMAIN found = 1..Len(found) /\ Len(found) \in Nat
    BY Appended
  <2>3. \A n \in DOMAIN found : found[o[n]] \in Range(found)
    BY <2>1 DEF Range
  <2>4. q \in Seq(Range(found))
    BY <2>1, <2>2, <2>3
  <2>5. \A x \in Range(q) : x \in Range(found)
    BY <2>1, <2>3 DEF Range
  <2> QED BY <2>4, <2>5 DEF SomeSeq
<1> QED BY <1>1, <1>2 DEF Ordered

LEMMA EndWalkKeeps ==
  ASSUME LedgerAssumption, ScansInv, NEW s \in Scanner, EndWalk(s)
  PROVE  ScansInv'
<1>1. Frame(s) /\ rows' = rows
  BY DEF ScansInv, ShapeOK, Frame, Unmoved, EndWalk, agents, faults
<1>2. /\ pc[s] = "walk" /\ pc'[s] = "select" /\ cfg'[s] = cfg[s] /\ walk'[s] = walk[s]
      /\ results'[s] = walk[s].skipped /\ pending'[s] = pending[s] /\ wires'[s] = wires[s]
      /\ todo'[s] \in Ordered(walk[s].found, cfg[s])
  BY DEF EndWalk, ScansInv, ShapeOK
<1>3. WalkFits(s, walk[s]) /\ cfg[s].single = None /\ pending[s] = << >> /\ wires[s] = << >>
  BY <1>2, AtWalk DEF WalkOK
<1>4. \A f \in Range(walk[s].found) : FoundOK(s, f)'
  BY <1>1, <1>3, FrameSame DEF WalkFits
<1>5. SomeSeq(todo'[s]) /\ Range(todo'[s]) \subseteq Range(walk[s].found)
  BY <1>2, <1>3, OrderedSame DEF WalkFits
<1>6. ASSUME NEW r \in Range(walk[s].skipped) PROVE ResultOK(s, r)'
  <2>1. Names(s)' = Range(walk[s].found)
    BY <1>2, <1>3 DEF Names
  <2> QED BY <1>3, <2>1 DEF ResultOK, WalkFits
<1>7. SomeSeq(<< >>) /\ Range(<< >>) = {} /\ DOMAIN << >> = {} /\ Len(<< >>) = 0
  <2>1. << >> \in Seq({})
    OBVIOUS
  <2> QED BY <2>1 DEF SomeSeq, Range
<1>8. SelectOK(s)'
  BY <1>2, <1>3, <1>4, <1>5, <1>6, <1>7 DEF SelectOK, WalkFits
<1>9. ScanOK(s)'
  BY <1>2, <1>3, <1>8 DEF ScanOK, Selecting
<1> QED BY <1>1, <1>9, FrameKeeps

-----------------------------------------------------------------------------
(* The candidates.                                                         *)

LEMMA AtSelect ==
  ASSUME ScansInv, NEW s \in Scanner, pc[s] \in Selecting
  PROVE  /\ cfg[s].single = None /\ SelectOK(s) /\ Names(s) = Range(walk[s].found)
         /\ \A f \in Names(s) : f.ino \in DOMAIN Ledger /\ Leads(tree, f.path) = f.ino
BY DEF ScansInv, ScanOK, Selecting, Names, SelectOK, FoundOK

\* What the end of a step has to show when the walk is over and stays as it is.
LEMMA SelectKeeps ==
  ASSUME LedgerAssumption, ScansInv, NEW s \in Scanner, Frame(s), pc[s] \in Selecting, pc'[s] \in Selecting,
         rows' = rows \/ RowsOK', walk'[s] = walk[s],
         SomeSeq(todo'[s]), Range(todo'[s]) \subseteq Range(todo[s]),
         SomeSeq(results'[s]), \A r \in Range(results'[s]) : r \in Range(results[s]) \/ ResultOK(s, r),
         SomeSeq(pending'[s]), \A f \in Range(pending'[s]) : f \in Range(pending[s]) \/ Handed(s, f),
         pc'[s] = "check" => Handed(s, file'[s]),
         SomeSeq(wires'[s]), Len(wires'[s]) <= Len(pending'[s]),
         \A n \in DOMAIN wires'[s] : WireOK(s, pending'[s][n], wires'[s][n])
  PROVE  ScansInv'
<1>1. cfg[s].single = None /\ SelectOK(s) /\ cfg'[s] = cfg[s]
  BY AtSelect DEF Frame
<1>2. Names(s)' = Names(s)
  BY <1>1 DEF Names
<1>3. /\ \A f \in Range(walk[s].found) : FoundOK(s, f)'
      /\ \A r \in Range(results'[s]) : ResultOK(s, r)'
      /\ \A f \in Range(pending'[s]) : Handed(s, f)'
  BY <1>1, <1>2, FrameSame DEF SelectOK
<1>4. \A i : During(s, i)' = During(s, i)
  BY FrameSame
<1>5. pc'[s] = "check" => Handed(s, file[s])'
  BY <1>4 DEF Handed, Frame
<1>6. ASSUME NEW n \in DOMAIN wires'[s] PROVE WireOK(s, pending[s][n], wires[s][n])'
  <2>1. PICK f, w : f = pending'[s][n] /\ w = wires'[s][n]
    OBVIOUS
  <2>2. WireOK(s, f, w)'
    BY <2>1, FrameSame
  <2> QED BY <2>1, <2>2 DEF WireOK
<1>7. SelectOK(s)'
  BY <1>1, <1>3, <1>5, <1>6 DEF SelectOK
<1>8. ScanOK(s)'
  BY <1>1, <1>7 DEF ScanOK, Selecting
<1> QED BY <1>8, FrameKeeps

LEMMA SkipCandidateKeeps ==
  ASSUME LedgerAssumption, ScansInv, NEW s \in Scanner, SkipCandidate(s)
  PROVE  ScansInv'
<1> DEFINE cand == Head(todo[s])
           why == Capped(s, cand)
           r == Skipped(cand.path, why)
<1>1. Frame(s) /\ rows' = rows
  BY DEF ScansInv, ShapeOK, Frame, Unmoved, SkipCandidate, agents, faults
<1>2. /\ pc[s] = "select" /\ pc'[s] = "select" /\ walk'[s] = walk[s] /\ todo[s] # << >> /\ why # None
      /\ todo'[s] = Tail(todo[s]) /\ results'[s] = Append(results[s], r)
      /\ pending'[s] = pending[s] /\ wires'[s] = wires[s]
  BY DEF SkipCandidate, ScansInv, ShapeOK
<1>3. pc[s] \in Selecting /\ pc'[s] \in Selecting
  BY <1>2 DEF Selecting
<1>4. SelectOK(s) /\ \A f \in Names(s) : f.ino \in DOMAIN Ledger /\ Leads(tree, f.path) = f.ino
  BY <1>3, AtSelect
<1>5. SomeSeq(todo[s]) /\ Range(todo[s]) \subseteq Range(walk[s].found) /\ SomeSeq(results[s])
  BY <1>4 DEF SelectOK
<1>6. cand \in Range(todo[s]) /\ SomeSeq(Tail(todo[s])) /\ Range(Tail(todo[s])) \subseteq Range(todo[s])
  BY <1>2, <1>5, Rest
<1>7. FoundOK(s, cand)
  BY <1>4, <1>5, <1>6 DEF SelectOK
<1>8. ResultOK(s, r)
  <2>1. Fresh(r, cand.path) /\ r.reason = why
    <3> HIDE DEF cand, why
    <3> QED BY ResultFresh DEF Skipped, Result
  <2>2. CASE why \in Caps
    BY <2>1, <2>2 DEF ResultOK
  <2>3. CASE why \notin Caps
    <3>1. why = "file-too-large" /\ cand.size > cfg[s].maxFileBytes
      BY <1>2, <2>3 DEF Capped, Caps
    <3>2. PICK v \in During(s, cand.ino) : cand.size = Ledger[cand.ino][v].size
      BY <1>7 DEF FoundOK
    <3>3. ASSUME NEW m, m.stat = v PROVE r = ScanSource(cand.path, Seen(cand.ino, m), cfg[s])
      <4>1. Seen(cand.ino, m).stat = Ledger[cand.ino][v]
        BY <3>3 DEF Seen, Stage
      <4> QED BY <3>1, <3>2, <4>1 DEF ScanSource, Oversize
    <3> HIDE DEF r, why, cand
    <3>4. r.path = cand.path /\ r.hit = FALSE /\ Unhit(r, r)
      BY <2>1, FreshUnhit DEF Fresh, Unhit
    <3>5. cand.ino \in DOMAIN Ledger /\ Leads(tree, cand.path) = cand.ino
      BY <1>7 DEF FoundOK
    <3>6. v \in Nat /\ 1 <= v /\ version[cand.ino] \in Nat /\ v <= version[cand.ino] /\ v <= v
      BY <3>2, <3>5, Contents DEF ScansInv, ClockOK, During
    <3>7. PICK m \in Readings(v, version[cand.ino]) : m.stat = v
      BY <3>6, MetOne
    <3>8. m \in Readings(1, version[cand.ino])
      BY <3>6, ReadingsGrow
    <3>9. Timely(s, cand.ino, m, r.hit)
      BY <3>2, <3>4, <3>7 DEF Timely, During
    <3>10. Current(s, cand.ino, r)
      BY <3>3, <3>4, <3>7, <3>8, <3>9 DEF Current
    <3> QED BY <1>4, <3>4, <3>5, <3>10, VerdictOK
  <2> QED BY <2>2, <2>3
<1> HIDE DEF r, why, cand
<1>9. SomeSeq(results'[s]) /\ Range(results'[s]) = Range(results[s]) \cup {r}
  BY <1>2, <1>5, Appended
<1> QED BY <1>1, <1>2, <1>3, <1>4, <1>6, <1>8, <1>9, SelectKeeps DEF SelectOK

LEMMA HashCandidateKeeps ==
  ASSUME LedgerAssumption, ScansInv, NEW s \in Scanner, HashCandidate(s)
  PROVE  ScansInv'
<1> DEFINE cand == Head(todo[s])
           sha  == IF cfg[s].incremental THEN Content(cand.ino) ELSE None
           hit  == IF sha = None THEN None ELSE CacheLookup(s, cand.path, sha)
           mine == [path |-> cand.path, ino |-> cand.ino, sha |-> sha, at |-> version[cand.ino]]
<1>1. Frame(s) /\ rows' = rows
  BY DEF ScansInv, ShapeOK, Frame, Unmoved, HashCandidate, agents, faults
<1>2. /\ pc[s] = "select" /\ pc'[s] \in {"select", "check"} /\ walk'[s] = walk[s] /\ todo[s] # << >>
      /\ todo'[s] = Tail(todo[s]) /\ wires'[s] = wires[s] /\ file'[s] = mine
      /\ results'[s] = IF hit = None THEN results[s] ELSE Append(results[s], hit)
      /\ pending'[s] \in {pending[s], Append(pending[s], mine)}
  <2>1. /\ s \in DOMAIN pc /\ s \in DOMAIN walk /\ s \in DOMAIN todo /\ s \in DOMAIN wires /\ s \in DOMAIN file
        /\ s \in DOMAIN results /\ s \in DOMAIN pending
    BY DEF ScansInv, ShapeOK
  <2> QED BY <2>1 DEF HashCandidate
<1>3. pc[s] \in Selecting /\ pc'[s] \in Selecting
  BY <1>2 DEF Selecting
<1>4. SelectOK(s) /\ \A f \in Names(s) : f.ino \in DOMAIN Ledger /\ Leads(tree, f.path) = f.ino
  BY <1>3, AtSelect
<1>5. /\ SomeSeq(todo[s]) /\ Range(todo[s]) \subseteq Range(walk[s].found) /\ SomeSeq(results[s])
      /\ SomeSeq(pending[s]) /\ SomeSeq(wires[s]) /\ Len(wires[s]) <= Len(pending[s])
  BY <1>4 DEF SelectOK
<1>6. cand \in Range(todo[s]) /\ SomeSeq(Tail(todo[s])) /\ Range(Tail(todo[s])) \subseteq Range(todo[s])
  BY <1>2, <1>5, Rest
<1>7. cand.ino \in DOMAIN Ledger /\ Leads(tree, cand.path) = cand.ino
  BY <1>4, <1>5, <1>6 DEF SelectOK, FoundOK
<1>8. ClockOK /\ RowsOK
  BY DEF ScansInv
<1>9. version[cand.ino] \in During(s, cand.ino) /\ Content(cand.ino) = Ledger[cand.ino][version[cand.ino]]
  BY <1>7, <1>8, NowDuring
<1>10. sha = None \/ sha = Ledger[cand.ino][version[cand.ino]]
  BY <1>9
<1>11. mine.path = cand.path /\ mine.ino = cand.ino /\ mine.sha = sha /\ mine.at = version[cand.ino]
  OBVIOUS
<1> HIDE DEF mine
<1>12. Handed(s, mine)
  BY <1>7, <1>9, <1>10, <1>11 DEF Handed
<1>13. hit # None => ResultOK(s, hit)
  <2> HAVE hit # None
  <2>1. sha # None /\ hit = CacheLookup(s, cand.path, sha)
    OBVIOUS
  <2> HIDE DEF hit, sha, cand
  <2>2. hit.path = cand.path /\ Current(s, cand.ino, hit)
    BY <1>7, <1>8, <1>9, <1>10, <2>1, HitCurrent
  <2> QED BY <1>4, <1>7, <2>2, VerdictOK
<1> HIDE DEF hit, sha, cand
<1>14. SomeSeq(results'[s]) /\ \A r \in Range(results'[s]) : r \in Range(results[s]) \/ ResultOK(s, r)
  <2>1. SomeSeq(Append(results[s], hit)) /\ Range(Append(results[s], hit)) = Range(results[s]) \cup {hit}
    BY <1>5, Appended
  <2> QED BY <1>2, <1>5, <1>13, <2>1
<1>15. /\ SomeSeq(pending'[s]) /\ Range(pending'[s]) \subseteq Range(pending[s]) \cup {mine}
       /\ Len(wires[s]) <= Len(pending'[s])
       /\ \A n \in DOMAIN wires[s] : pending'[s][n] = pending[s][n]
  <2> DEFINE q == Append(pending[s], mine)
  <2>1. /\ SomeSeq(q) /\ Range(q) = Range(pending[s]) \cup {mine} /\ Len(q) = Len(pending[s]) + 1
        /\ Len(pending[s]) \in Nat /\ DOMAIN pending[s] = 1..Len(pending[s])
        /\ \A n \in DOMAIN pending[s] : q[n] = pending[s][n]
    BY <1>5, Appended
  <2>2. DOMAIN wires[s] = 1..Len(wires[s]) /\ Len(wires[s]) \in Nat
    BY <1>5, Appended
  <2> HIDE DEF q
  <2>3. DOMAIN wires[s] \subseteq DOMAIN pending[s] /\ Len(wires[s]) <= Len(pending[s]) + 1
    BY <1>5, <2>1, <2>2
  <2> QED BY <1>2, <1>5, <2>1, <2>3 DEF q
<1>16. \A n \in DOMAIN wires'[s] : WireOK(s, pending'[s][n], wires'[s][n])
  BY <1>2, <1>4, <1>15 DEF SelectOK
<1>17. /\ SomeSeq(todo'[s]) /\ Range(todo'[s]) \subseteq Range(todo[s])
       /\ SomeSeq(wires'[s]) /\ Len(wires'[s]) <= Len(pending'[s])
  BY <1>2, <1>5, <1>6, <1>15
<1>18. \A f \in Range(pending'[s]) : f \in Range(pending[s]) \/ Handed(s, f)
  BY <1>12, <1>15
<1>19. pc'[s] = "check" => Handed(s, file'[s])
  BY <1>2, <1>12
<1>20. walk'[s] = walk[s]
  BY <1>2
<1> QED BY <1>1, <1>3, <1>14, <1>15, <1>16, <1>17, <1>18, <1>19, <1>20, SelectKeeps

LEMMA CheckCandidateKeeps ==
  ASSUME LedgerAssumption, ScansInv, NEW s \in Scanner, CheckCandidate(s)
  PROVE  ScansInv'
<1> DEFINE f == file[s]
<1>1. Frame(s)
  BY DEF ScansInv, ShapeOK, Frame, Unmoved, CheckCandidate, agents, faults
<1>2. /\ pc[s] = "check" /\ pc'[s] = "select" /\ walk'[s] = walk[s] /\ todo'[s] = todo[s]
      /\ pending'[s] = pending[s] /\ wires'[s] = wires[s]
  <2>1. s \in DOMAIN pc
    BY DEF ScansInv, ShapeOK
  <2> QED BY <2>1 DEF CheckCandidate
<1>21. PICK v, r :
         /\ v \in Readings(f.at, version[f.ino])
         /\ r = ScanSource(f.path, Seen(f.ino, v), cfg[s])
         /\ results'[s] = Append(results[s], r) /\ rows' = Put(s, f.path, f.sha, r)
  <2>1. s \in DOMAIN results
    BY DEF ScansInv, ShapeOK
  <2> QED BY <2>1 DEF CheckCandidate
<1>3. pc[s] \in Selecting /\ pc'[s] \in Selecting
  BY <1>2 DEF Selecting
<1>4. SelectOK(s) /\ \A g \in Names(s) : g.ino \in DOMAIN Ledger /\ Leads(tree, g.path) = g.ino
  BY <1>3, AtSelect
<1>5. /\ SomeSeq(todo[s]) /\ SomeSeq(results[s]) /\ SomeSeq(pending[s]) /\ SomeSeq(wires[s])
      /\ Len(wires[s]) <= Len(pending[s]) /\ Handed(s, f)
      /\ \A n \in DOMAIN wires[s] : WireOK(s, pending[s][n], wires[s][n])
  BY <1>2, <1>4 DEF SelectOK
<1>6. ClockOK /\ RowsOK
  BY DEF ScansInv
<1>7. f.ino \in DOMAIN Ledger /\ Leads(tree, f.path) = f.ino /\ f.at \in During(s, f.ino)
  BY <1>5 DEF Handed
<1> HIDE DEF f
<1>8. f.at <= f.at
  BY <1>7, Contents DEF During
<1>9. r.path = f.path /\ Stored(f.path, f.ino, f.sha, r, cfg[s]) /\ Current(s, f.ino, r)
  BY <1>5, <1>6, <1>7, <1>8, <1>21, CheckCurrent
<1>11. ResultOK(s, r)
  BY <1>4, <1>7, <1>9, VerdictOK
<1>12. RowsFit(rows')
  BY <1>6, <1>7, <1>9, <1>21, PutKeeps
<1>13. RowsOK'
  BY <1>1, <1>12 DEF RowsOK, RowsFit, RowOK, Stored, Frame
<1>14. SomeSeq(results'[s]) /\ Range(results'[s]) = Range(results[s]) \cup {r}
  BY <1>5, <1>21, Appended
<1>15. \A x \in Range(results'[s]) : x \in Range(results[s]) \/ ResultOK(s, x)
  BY <1>11, <1>14
<1>16. /\ SomeSeq(todo'[s]) /\ Range(todo'[s]) \subseteq Range(todo[s]) /\ SomeSeq(pending'[s]) /\ SomeSeq(wires'[s])
       /\ \A x \in Range(pending'[s]) : x \in Range(pending[s])
       /\ pc'[s] # "check" /\ walk'[s] = walk[s] /\ Len(wires'[s]) <= Len(pending'[s])
       /\ \A n \in DOMAIN wires'[s] : WireOK(s, pending'[s][n], wires'[s][n])
  BY <1>2, <1>5
<1> QED BY <1>1, <1>3, <1>13, <1>14, <1>15, <1>16, SelectKeeps

LEMMA EndSelectionKeeps ==
  ASSUME LedgerAssumption, ScansInv, NEW s \in Scanner, EndSelection(s)
  PROVE  ScansInv'
<1>1. Frame(s) /\ rows' = rows
  BY DEF ScansInv, ShapeOK, Frame, Unmoved, EndSelection, agents, faults
<1>2. /\ pc[s] = "select" /\ pc'[s] \in {"pool", "merged"} /\ walk'[s] = walk[s] /\ todo'[s] = todo[s]
      /\ results'[s] = results[s] /\ pending'[s] = pending[s] /\ wires'[s] = wires[s]
  BY DEF EndSelection, ScansInv, ShapeOK
<1>3. pc[s] \in Selecting /\ pc'[s] \in Selecting /\ pc'[s] # "check"
  BY <1>2 DEF Selecting
<1>4. SelectOK(s)
  BY <1>3, AtSelect
<1> QED BY <1>1, <1>2, <1>3, <1>4, SelectKeeps DEF SelectOK

-----------------------------------------------------------------------------
(* The pool.                                                               *)

LEMMA WorkerTakesKeeps ==
  ASSUME LedgerAssumption, ScansInv, NEW s \in Scanner, WorkerTakes(s)
  PROVE  ScansInv'
<1> DEFINE g == pending[s][Len(wires[s]) + 1]
           w == [result |-> None, at |-> version[g.ino]]
<1>1. Frame(s) /\ rows' = rows
  BY DEF ScansInv, ShapeOK, Frame, Unmoved, WorkerTakes, agents, faults
<1>2. /\ pc[s] = "pool" /\ pc'[s] = "pool" /\ walk'[s] = walk[s] /\ todo'[s] = todo[s]
      /\ results'[s] = results[s] /\ pending'[s] = pending[s]
      /\ wires'[s] = Append(wires[s], w) /\ Len(wires[s]) < Len(pending[s])
  BY DEF WorkerTakes, ScansInv, ShapeOK
<1>3. pc[s] \in Selecting /\ pc'[s] \in Selecting /\ pc'[s] # "check"
  BY <1>2 DEF Selecting
<1>4. SelectOK(s)
  BY <1>3, AtSelect
<1>5. SomeSeq(wires[s]) /\ SomeSeq(pending[s])
  BY <1>4 DEF SelectOK
<1>6. w.result = None /\ w.at = version[g.ino]
  OBVIOUS
<1> HIDE DEF w
<1>7. /\ SomeSeq(wires'[s]) /\ Len(wires'[s]) = Len(wires[s]) + 1 /\ DOMAIN wires'[s] = 1..(Len(wires[s]) + 1)
      /\ DOMAIN wires[s] = 1..Len(wires[s]) /\ Len(wires[s]) \in Nat /\ wires'[s][Len(wires[s]) + 1] = w
      /\ \A n \in DOMAIN wires[s] : wires'[s][n] = wires[s][n]
  BY <1>2, <1>5, Appended
<1>8. Len(pending[s]) \in Nat
  BY <1>5, Appended
<1>9. ASSUME NEW n \in DOMAIN wires'[s] PROVE WireOK(s, pending'[s][n], wires'[s][n])
  <2>1. CASE n \in DOMAIN wires[s]
    BY <1>2, <1>4, <1>7, <2>1 DEF SelectOK
  <2>2. CASE n = Len(wires[s]) + 1
    <3>1. n \in DOMAIN pending[s] /\ g = pending[s][n]
      BY <1>2, <1>5, <1>7, <1>8, <2>2, Appended
    <3>2. Handed(s, g)
      BY <1>4, <3>1 DEF SelectOK, Range
    <3> HIDE DEF g
    <3>3. version[g.ino] \in During(s, g.ino) /\ g.at <= version[g.ino]
      BY <3>2, NowDuring DEF ScansInv, Handed, During
    <3>4. WireOK(s, g, w)
      BY <1>6, <3>3 DEF WireOK
    <3> QED BY <1>2, <1>7, <2>2, <3>1, <3>4
  <2> QED BY <1>7, <2>1, <2>2
<1>10. Len(wires'[s]) <= Len(pending'[s])
  BY <1>2, <1>7, <1>8
<1> QED BY <1>1, <1>2, <1>3, <1>4, <1>7, <1>9, <1>10, SelectKeeps DEF SelectOK

LEMMA WorkerReturnsKeeps ==
  ASSUME LedgerAssumption, ScansInv, NEW s \in Scanner, NEW n \in DOMAIN wires[s], WorkerReturns(s, n)
  PROVE  ScansInv'
<1> DEFINE f == pending[s][n]
<1>1. Frame(s) /\ rows' = rows
  BY DEF ScansInv, ShapeOK, Frame, Unmoved, WorkerReturns, agents, faults
<1>2. /\ pc[s] = "pool" /\ pc'[s] = "pool" /\ walk'[s] = walk[s] /\ todo'[s] = todo[s]
      /\ results'[s] = results[s] /\ pending'[s] = pending[s]
  BY DEF WorkerReturns, ScansInv, ShapeOK
<1>21. PICK v, w :
         /\ v \in Readings(wires[s][n].at, version[f.ino])
         /\ w = [wires[s][n] EXCEPT !.result = ScanSource(f.path, Seen(f.ino, v), cfg[s])]
         /\ wires'[s] = [wires[s] EXCEPT ![n] = w]
  <2>1. s \in DOMAIN wires
    BY DEF ScansInv, ShapeOK
  <2> QED BY <2>1 DEF WorkerReturns
<1>3. pc[s] \in Selecting /\ pc'[s] \in Selecting /\ pc'[s] # "check"
  BY <1>2 DEF Selecting
<1>4. SelectOK(s)
  BY <1>3, AtSelect
<1>5. SomeSeq(wires[s]) /\ SomeSeq(pending[s]) /\ Len(wires[s]) <= Len(pending[s])
  BY <1>4 DEF SelectOK
<1>6. /\ DOMAIN wires[s] = 1..Len(wires[s]) /\ Len(wires[s]) \in Nat
      /\ DOMAIN pending[s] = 1..Len(pending[s]) /\ Len(pending[s]) \in Nat
  BY <1>5, Appended
<1>7. n \in DOMAIN pending[s]
  BY <1>5, <1>6
<1>8. Handed(s, f)
  BY <1>4, <1>7 DEF SelectOK, Range
<1>10. WireOK(s, f, w)
  <2>1. WireOK(s, f, wires[s][n])
    BY <1>4 DEF SelectOK
  <2> HIDE DEF f
  <2>2. w.at = wires[s][n].at /\ (w.result # None => w.result = ScanSource(f.path, Seen(f.ino, v), cfg[s]))
    BY <1>21
  <2>3. v \in Readings(w.at, version[f.ino])
    BY <1>21, <2>2
  <2> QED BY <2>1, <2>2, <2>3 DEF WireOK
<1>11. /\ SomeSeq(wires'[s]) /\ Len(wires'[s]) = Len(wires[s]) /\ DOMAIN wires'[s] = DOMAIN wires[s]
       /\ \A m \in DOMAIN wires[s] : wires'[s][m] = IF m = n THEN w ELSE wires[s][m]
  <2> DEFINE q == wires[s]
             p == [q EXCEPT ![n] = w]
  <2>1. PICK S : q \in Seq(S)
    BY <1>5 DEF SomeSeq
  <2>2. q \in Seq(S \cup {w}) /\ n \in DOMAIN q
    BY <2>1
  <2> HIDE DEF q
  <2>3. p \in Seq(S \cup {w}) /\ Len(p) = Len(q) /\ DOMAIN p = DOMAIN q
    BY <2>2
  <2>4. \A m \in DOMAIN q : p[m] = IF m = n THEN w ELSE q[m]
    OBVIOUS
  <2>5. wires'[s] = p
    BY <1>21 DEF q
  <2> HIDE DEF p
  <2> QED BY <2>3, <2>4, <2>5 DEF q, SomeSeq
<1>12. \A m \in DOMAIN wires'[s] : WireOK(s, pending'[s][m], wires'[s][m])
  BY <1>2, <1>4, <1>10, <1>11 DEF SelectOK
<1> QED BY <1>1, <1>2, <1>3, <1>4, <1>11, <1>12, SelectKeeps DEF SelectOK

LEMMA MergeKeeps ==
  ASSUME LedgerAssumption, ScansInv, NEW s \in Scanner, Merge(s)
  PROVE  ScansInv'
<1> DEFINE n == taken[s].merged + 1
           f == pending[s][n]
           w == wires[s][n]
           r == w.result
<1>1. Frame(s)
  BY DEF ScansInv, ShapeOK, Frame, Unmoved, Merge, agents, faults
<1>2. /\ pc[s] = "pool" /\ pc'[s] \in {"pool", "merged"} /\ walk'[s] = walk[s] /\ todo'[s] = todo[s]
      /\ pending'[s] = pending[s] /\ wires'[s] = wires[s]
      /\ n \in DOMAIN wires[s] /\ r # None
      /\ results'[s] = Append(results[s], r)
      /\ rows' = Put(s, f.path, f.sha, r)
  <2>1. s \in DOMAIN pc /\ s \in DOMAIN results
    BY DEF ScansInv, ShapeOK
  <2> QED BY <2>1 DEF Merge
<1>3. pc[s] \in Selecting /\ pc'[s] \in Selecting
  BY <1>2 DEF Selecting
<1>4. SelectOK(s) /\ \A g \in Names(s) : g.ino \in DOMAIN Ledger /\ Leads(tree, g.path) = g.ino
  BY <1>3, AtSelect
<1>5. /\ SomeSeq(todo[s]) /\ SomeSeq(results[s]) /\ SomeSeq(pending[s]) /\ SomeSeq(wires[s])
      /\ Len(wires[s]) <= Len(pending[s])
      /\ \A m \in DOMAIN wires[s] : WireOK(s, pending[s][m], wires[s][m])
  BY <1>4 DEF SelectOK
<1>6. ClockOK /\ RowsOK
  BY DEF ScansInv
<1>7. Handed(s, f)
  <2>1. /\ DOMAIN wires[s] = 1..Len(wires[s]) /\ Len(wires[s]) \in Nat
        /\ DOMAIN pending[s] = 1..Len(pending[s]) /\ Len(pending[s]) \in Nat
    BY <1>5, Appended
  <2> HIDE DEF n
  <2>2. n \in DOMAIN pending[s]
    BY <1>2, <1>5, <2>1
  <2> QED BY <1>4, <2>2 DEF SelectOK, Range
<1>8. WireOK(s, f, w)
  BY <1>2, <1>5
<1>9. f.ino \in DOMAIN Ledger /\ Leads(tree, f.path) = f.ino
  BY <1>7 DEF Handed
<1>10. /\ w.at \in During(s, f.ino) /\ f.at <= w.at
       /\ \E v \in Readings(w.at, version[f.ino]) : r = ScanSource(f.path, Seen(f.ino, v), cfg[s])
  BY <1>2, <1>8 DEF WireOK
<1>12. rows' = Put(s, f.path, f.sha, r) /\ results'[s] = Append(results[s], r)
  BY <1>2
<1> HIDE DEF r, w, f, n
<1>13. r.path = f.path /\ Stored(f.path, f.ino, f.sha, r, cfg[s]) /\ Current(s, f.ino, r)
  BY <1>6, <1>7, <1>10, CheckCurrent
<1>14. RowsFit(Put(s, f.path, f.sha, r))
  BY <1>6, <1>9, <1>13, PutKeeps
<1>15. RowsOK'
  BY <1>1, <1>12, <1>14 DEF RowsOK, RowsFit, RowOK, Stored, Frame
<1>16. ResultOK(s, r)
  BY <1>4, <1>9, <1>13, VerdictOK
<1>17. SomeSeq(results'[s]) /\ Range(results'[s]) = Range(results[s]) \cup {r}
  BY <1>5, <1>12, Appended
<1>18. \A x \in Range(results'[s]) : x \in Range(results[s]) \/ ResultOK(s, x)
  BY <1>16, <1>17
<1>19. /\ SomeSeq(todo'[s]) /\ Range(todo'[s]) \subseteq Range(todo[s]) /\ SomeSeq(pending'[s]) /\ SomeSeq(wires'[s])
       /\ \A x \in Range(pending'[s]) : x \in Range(pending[s])
       /\ pc'[s] # "check" /\ walk'[s] = walk[s] /\ Len(wires'[s]) <= Len(pending'[s])
       /\ \A m \in DOMAIN wires'[s] : WireOK(s, pending'[s][m], wires'[s][m])
  BY <1>2, <1>5
<1> QED BY <1>1, <1>3, <1>15, <1>17, <1>18, <1>19, SelectKeeps

-----------------------------------------------------------------------------
(* The end of a scan, and what goes wrong.                                 *)

LEMMA FinishKeeps ==
  ASSUME LedgerAssumption, ScansInv, NEW s \in Scanner, Finish(s)
  PROVE  ScansInv'
<1>1. Frame(s) /\ rows' = rows
  BY DEF ScansInv, ShapeOK, Frame, Unmoved, Finish, agents, faults
<1>2. pc[s] = "merged" /\ pc'[s] = "done" /\ cfg'[s] = cfg[s] /\ walk'[s] = walk[s] /\ file'[s] = file[s] /\ results'[s] = results[s]
  BY DEF Finish, ScansInv, ShapeOK
<1>3. SelectOK(s) /\ \A f \in Names(s) : f.ino \in DOMAIN Ledger
  BY <1>2, AtSelect DEF Selecting
<1>4. Names(s)' = Names(s)
  BY <1>2 DEF Names
<1>5. \A r \in Range(results[s]) : ResultOK(s, r)'
  BY <1>1, <1>3, <1>4, FrameSame DEF SelectOK
<1>6. ScanOK(s)'
  BY <1>2, <1>3, <1>4, <1>5 DEF ScanOK, Selecting
<1> QED BY <1>1, <1>6, FrameKeeps

LEMMA CancelKeeps ==
  ASSUME LedgerAssumption, ScansInv, NEW s \in Scanner, Cancel(s)
  PROVE  ScansInv'
<1>1. Frame(s) /\ rows' = rows
  BY DEF ScansInv, ShapeOK, Frame, Unmoved, Cancel, Leave, agents, faults
<1>2. pc'[s] = "cancelled" /\ results'[s] = << >> /\ pending'[s] = << >> /\ wires'[s] = << >>
  BY DEF Cancel, Leave, ScansInv, ShapeOK
<1>3. ScanOK(s)'
  BY <1>2 DEF ScanOK, Selecting
<1> QED BY <1>1, <1>3, FrameKeeps

\* The cache, the bounds and the baseline file are not part of what is known.
LEMMA AsideKeeps ==
  ASSUME LedgerAssumption, ScansInv, tree' = tree, version' = version, rows' = rows,
         UNCHANGED <<pc, cfg, walk, results, todo, file, pending, wires, began>>
  PROVE  ScansInv'
<1>1. ShapeOK' /\ ChosenOK' /\ TreeOK' /\ ClockOK' /\ RowsOK'
  BY DEF ScansInv, ShapeOK, ChosenOK, TreeOK, PointsRight, ClockOK, RowsOK, RowsFit, RowOK, Stored
<1>2. Grows
  <2>1. \A i \in DOMAIN Ledger : version[i] <= version[i]
    BY Contents DEF ScansInv, ClockOK
  <2> QED BY <2>1 DEF Grows
<1>3. \A s \in Scanner : ScanOK(s)'
  BY <1>1, <1>2, UnmovedKeeps DEF ScansInv, Unmoved
<1> QED BY <1>1, <1>3 DEF ScansInv

LEMMA WriteKeeps ==
  ASSUME LedgerAssumption, ScansInv, NEW ino \in DOMAIN Ledger, Write(ino)
  PROVE  ScansInv'
<1>1. /\ tree' = tree /\ rows' = rows /\ pc' = pc /\ cfg' = cfg /\ walk' = walk /\ results' = results /\ todo' = todo
      /\ file' = file /\ pending' = pending /\ wires' = wires /\ began' = began
      /\ version' = [version EXCEPT ![ino] = @ + 1] /\ version[ino] < Len(Ledger[ino])
  BY DEF Write, faults, scans
<1>2. \A i \in DOMAIN Ledger : /\ version[i] \in Nat /\ version[i] <= version'[i] /\ version'[i] \in DOMAIN Ledger[i]
  <2> TAKE i \in DOMAIN Ledger
  <2>1. /\ DOMAIN Ledger[i] = 1..Len(Ledger[i]) /\ Len(Ledger[i]) \in Nat
        /\ version[i] \in DOMAIN Ledger[i] /\ DOMAIN version = DOMAIN Ledger
    BY Contents DEF ScansInv, ClockOK
  <2>2. version'[i] = IF i = ino THEN version[i] + 1 ELSE version[i]
    BY <1>1, <2>1
  <2> QED BY <1>1, <2>1, <2>2
<1>3. ClockOK'
  <2>1. \A s \in Scanner : \A i \in DOMAIN Ledger : began[s][i] \in Nat /\ began[s][i] <= version[i]
    BY DEF ScansInv, ClockOK
  <2>2. \A i \in DOMAIN Ledger : version'[i] \in Nat
    BY <1>2, Contents
  <2>3. \A s \in Scanner : \A i \in DOMAIN Ledger : began[s][i] <= version'[i]
    BY <1>2, <2>1, <2>2
  <2> QED BY <1>1, <1>2, <2>1, <2>3 DEF ScansInv, ClockOK
<1>4. Grows
  BY <1>1, <1>2 DEF Grows
<1>5. ShapeOK' /\ ChosenOK' /\ TreeOK'
  BY <1>1 DEF ScansInv, ShapeOK, ChosenOK, TreeOK, PointsRight
<1>6. \A s \in Scanner : ScanOK(s)'
  BY <1>1, <1>3, <1>4, UnmovedKeeps DEF ScansInv, Unmoved
<1>7. ASSUME NEW k \in DOMAIN rows PROVE RowOK(k, rows[k])'
  <2> DEFINE row == rows[k]
  <2>1. RowOK(k, row)
    BY DEF ScansInv, RowsOK, RowsFit
  <2>2. row' = row
    BY <1>1
  <2> HIDE DEF row
  <2>3. RowOK(k, row)'
    BY <1>3, <1>4, <2>1, <2>2, RowGrows DEF ScansInv
  <2> QED BY <2>3 DEF row
<1>8. RowsOK'
  BY <1>1, <1>7 DEF RowsOK, RowsFit
<1> QED BY <1>3, <1>5, <1>6, <1>8 DEF ScansInv

-----------------------------------------------------------------------------
(* The start of a scan, and the scan of a single file.                     *)

LEMMA WithBaselineIs ==
  ASSUME NEW c, {"single", "baseline", "jobs"} \subseteq DOMAIN c
  PROVE  DOMAIN WithBaseline(c) = DOMAIN c /\ WithBaseline(c).single = c.single /\ WithBaseline(c).jobs = c.jobs
BY DEF WithBaseline

LEMMA BegunKeeps ==
  ASSUME LedgerAssumption, ScansInv, NEW s \in Scanner, tree' = tree, version' = version, rows' = rows,
         cfg' = [cfg EXCEPT ![s] = WithBaseline(@)], began' = [began EXCEPT ![s] = version],
         ShapeOK', \A t \in Scanner \ {s} : pc'[t] = pc[t] /\ walk'[t] = walk[t] /\ results'[t] = results[t]
                     /\ todo'[t] = todo[t] /\ file'[t] = file[t] /\ pending'[t] = pending[t] /\ wires'[t] = wires[t],
         ScanOK(s)'
  PROVE  ScansInv'
<1>1. ChosenOK
  BY DEF ScansInv
<1>2. cfg'[s] = WithBaseline(cfg[s]) /\ DOMAIN cfg' = Scanner /\ \A t \in Scanner \ {s} : cfg'[t] = cfg[t]
  BY <1>1 DEF ChosenOK
<1>3. DOMAIN cfg'[s] = DOMAIN cfg[s] /\ cfg'[s].single = cfg[s].single /\ cfg'[s].jobs = cfg[s].jobs
  BY <1>1, <1>2, WithBaselineIs DEF ChosenOK
<1>4. ChosenOK'
  BY <1>1, <1>2, <1>3 DEF ChosenOK
<1>5. DOMAIN began' = Scanner /\ began'[s] = version /\ \A t \in Scanner \ {s} : began'[t] = began[t]
  BY DEF ScansInv, ClockOK
<1>6. \A t \in Scanner \ {s} : Unmoved(t)
  BY <1>2, <1>5 DEF Unmoved
<1>7. RowsOK'
  BY DEF ScansInv, RowsOK, RowsFit, RowOK, Stored
<1> QED BY <1>4, <1>5, <1>6, <1>7, StepKeeps

LEMMA StartKeeps ==
  ASSUME LedgerAssumption, ScansInv, NEW s \in Scanner, Start(s)
  PROVE  ScansInv'
<1> DEFINE w == [NoWalk EXCEPT !.stack = <<[ino |-> tree.root, path |-> << >>]>>, !.visited = {tree.root}]
<1>1. /\ tree' = tree /\ version' = version /\ rows' = rows
      /\ cfg' = [cfg EXCEPT ![s] = WithBaseline(@)] /\ began' = [began EXCEPT ![s] = version]
      /\ walk' = [walk EXCEPT ![s] = w] /\ pc' = [pc EXCEPT ![s] = "walk"]
      /\ UNCHANGED <<results, todo, file, pending, wires>>
      /\ pc[s] = "idle" /\ cfg[s].single = None
  BY DEF Start, agents, faults
<1>2. ShapeOK /\ ChosenOK /\ TreeOK /\ ScanOK(s)
  BY DEF ScansInv
<1>3. pc'[s] = "walk" /\ walk'[s] = w /\ results'[s] = << >> /\ pending'[s] = << >> /\ wires'[s] = << >>
  BY <1>1, <1>2 DEF ShapeOK, ScanOK
<1>4. cfg'[s].single = None
  BY <1>1, <1>2, WithBaselineIs DEF ChosenOK
<1>5. WalkOK(s, w)
  <2> DEFINE v == w
  <2>1. TreeOK /\ v = w
    BY <1>2
  <2> QED BY <2>1, FirstWalk
<1> HIDE DEF w
<1>6. WalkOK(s, walk[s])'
  <2>1. WalkFits(s, walk[s])'
    <3>1. Range(w.found) = {}
      BY DEF w, NoWalk, Range
    <3> QED BY <1>1, <1>3, <1>5, <3>1 DEF WalkOK, WalkFits, FoundOK
  <2> QED BY <1>1, <1>3, <1>5, <2>1 DEF WalkOK, Placed
<1>7. ScanOK(s)'
  BY <1>3, <1>4, <1>6 DEF ScanOK, Selecting
<1>8. ShapeOK' /\ \A t \in Scanner \ {s} : pc'[t] = pc[t] /\ walk'[t] = walk[t]
  BY <1>1, <1>2 DEF ShapeOK
<1> QED BY <1>1, <1>7, <1>8, BegunKeeps

LEMMA StartSingleKeeps ==
  ASSUME LedgerAssumption, ScansInv, NEW s \in Scanner, StartSingle(s)
  PROVE  ScansInv'
<1> DEFINE one == cfg[s].single
           sha == IF cfg[s].incremental THEN Content(one.ino) ELSE None
           f   == [path |-> one.path, ino |-> one.ino, sha |-> sha, at |-> version[one.ino]]
<1>1. /\ tree' = tree /\ version' = version /\ rows' = rows
      /\ cfg' = [cfg EXCEPT ![s] = WithBaseline(@)] /\ began' = [began EXCEPT ![s] = version]
      /\ file' = [file EXCEPT ![s] = f] /\ pc' = [pc EXCEPT ![s] = "single"]
      /\ UNCHANGED <<walk, results, todo, pending, wires>>
      /\ pc[s] = "idle" /\ one # None
  BY DEF StartSingle, agents, faults
<1>2. ShapeOK /\ ChosenOK /\ ClockOK /\ ScanOK(s)
  BY DEF ScansInv
<1>3. pc'[s] = "single" /\ file'[s] = f /\ results'[s] = << >> /\ pending'[s] = << >> /\ wires'[s] = << >>
  BY <1>1, <1>2 DEF ShapeOK, ScanOK
<1>4. cfg'[s].single = one
  BY <1>1, <1>2, WithBaselineIs DEF ChosenOK
<1>5. one.ino \in DOMAIN Ledger /\ Leads(tree, one.path) = one.ino
  BY <1>1, <1>2 DEF ChosenOK
<1>6. /\ f.path = one.path /\ f.ino = one.ino /\ f.at = version[one.ino]
      /\ f.sha = None \/ f.sha = Ledger[one.ino][version[one.ino]]
  BY DEF Content
<1>7. began'[s] = version /\ version[one.ino] \in DOMAIN Ledger[one.ino] /\ version[one.ino] <= version[one.ino]
  BY <1>1, <1>2, <1>5, Contents DEF ClockOK
<1> HIDE DEF f, one
<1>8. Handed(s, file[s])'
  BY <1>1, <1>3, <1>5, <1>6, <1>7 DEF Handed, During
<1>9. ScanOK(s)'
  BY <1>1, <1>3, <1>4, <1>8 DEF ScanOK, Selecting
<1>10. ShapeOK' /\ \A t \in Scanner \ {s} : pc'[t] = pc[t] /\ file'[t] = file[t]
  BY <1>1, <1>2 DEF ShapeOK
<1> QED BY <1>1, <1>9, <1>10, BegunKeeps

LEMMA FinishSingleKeeps ==
  ASSUME LedgerAssumption, ScansInv, NEW s \in Scanner, FinishSingle(s)
  PROVE  ScansInv'
<1> DEFINE f   == file[s]
           hit == IF f.sha = None THEN None ELSE CacheLookup(s, f.path, f.sha)
           i == f.ino
           path == f.path
           sha == f.sha
<1>1. Frame(s)
  BY DEF ScansInv, ShapeOK, Frame, Unmoved, FinishSingle, agents, faults
<1>2. pc[s] = "single" /\ pc'[s] = "done" /\ cfg'[s] = cfg[s] /\ file'[s] = f
  <2>1. s \in DOMAIN pc
    BY DEF ScansInv, ShapeOK
  <2> QED BY <2>1 DEF FinishSingle, Frame
<1>21. PICK v, r :
         /\ v \in Readings(f.at, version[i])
         /\ r = IF hit = None THEN ScanSource(path, Seen(i, v), cfg[s]) ELSE hit
         /\ results'[s] = <<r>> /\ rows' = Put(s, path, sha, r)
  <2>1. s \in DOMAIN results
    BY DEF ScansInv, ShapeOK
  <2> QED BY <2>1 DEF FinishSingle
<1>3. cfg[s].single # None /\ Handed(s, f) /\ ClockOK /\ RowsOK
  BY <1>2 DEF ScansInv, ScanOK
<1>4. i \in DOMAIN Ledger /\ Leads(tree, path) = i /\ f.at \in During(s, i) /\ (sha = None \/ sha = Ledger[i][f.at])
  BY <1>3 DEF Handed
<1>5. f.at <= f.at
  <2> HIDE DEF i
  <2> QED BY <1>4, Contents DEF During
<1>6. Names(s) = {f} /\ \A g \in Names(s) : Leads(tree, g.path) = g.ino
  BY <1>3, <1>4 DEF Names
<1>7. r.path = path /\ Stored(path, i, sha, r, cfg[s]) /\ Current(s, i, r)
  <2>1. CASE hit = None
    <3>1. r = ScanSource(path, Seen(i, v), cfg[s])
      BY <1>21, <2>1
    <3> HIDE DEF hit, f
    <3> QED BY <1>3, <1>4, <1>5, <1>21, <3>1, CheckCurrent
  <2>2. CASE hit # None
    <3>1. sha # None /\ hit = CacheLookup(s, path, sha) /\ r = hit
      BY <1>21, <2>2
    <3> HIDE DEF hit, i, path, sha
    <3> QED BY <1>3, <1>4, <2>2, <3>1, HitCurrent
  <2> QED BY <2>1, <2>2
<1> HIDE DEF hit, i, path, sha
<1>10. RowsFit(Put(s, path, sha, r))
  BY <1>3, <1>4, <1>7, PutKeeps
<1>11. RowsOK'
  BY <1>1, <1>10, <1>21 DEF RowsOK, RowsFit, RowOK, Stored, Frame
<1>12. ResultOK(s, r)
  BY <1>4, <1>6, <1>7, VerdictOK
<1>13. Names(s)' = Names(s)
  BY <1>2, <1>3 DEF Names
<1>14. \A x : ResultOK(s, x) => ResultOK(s, x)'
  BY <1>1, <1>13, FrameSame
<1>15. Range(results'[s]) = {r}
  <2>1. DOMAIN <<r>> = {1} /\ <<r>>[1] = r
    OBVIOUS
  <2> QED BY <1>21, <2>1 DEF Range
<1>16. \A g \in Names(s)' : g.ino \in DOMAIN Ledger
  BY <1>4, <1>6, <1>13 DEF i
<1>17. ASSUME NEW x \in Range(results'[s]) PROVE ResultOK(s, x)'
  <2>1. ResultOK(s, x)
    BY <1>12, <1>15
  <2> QED BY <1>14, <2>1
<1>18. ScanOK(s)'
  BY <1>2, <1>16, <1>17 DEF ScanOK, Selecting
<1> QED BY <1>1, <1>11, <1>18, FrameKeeps

-----------------------------------------------------------------------------
(* The invariant.                                                          *)

LEMMA TreesFit ==
  ASSUME ScanAssumption, Init PROVE TreeOK /\ ChosenOK
<1>1. PICK c \in Cases : tree = c.tree /\ cfg = c.options
  BY DEF Init
<1>2. tree.root \in DOMAIN tree.dirs
  BY <1>1 DEF ScanAssumption, TreeAssumption
<1>3. ASSUME NEW d \in DOMAIN tree.dirs
      PROVE  /\ SomeSeq(tree.dirs[d])
             /\ \A i, j \in DOMAIN tree.dirs[d] : tree.dirs[d][i].name = tree.dirs[d][j].name => i = j
             /\ \A i \in DOMAIN tree.dirs[d] : PointsRight(tree, tree.dirs[d][i])
  BY <1>1 DEF ScanAssumption, TreeAssumption, SomeSeq
<1>4. TreeOK
  BY <1>2, <1>3 DEF TreeOK
<1>5. cfg = [s \in Scanner |-> c.options[s]]
  BY <1>1 DEF ScanAssumption, OptionsAssumption
<1>6. DOMAIN cfg = Scanner
  BY <1>5
<1>7. /\ \A s \in Scanner : {"single", "baseline", "jobs"} \subseteq DOMAIN cfg[s] /\ cfg[s].jobs \in Nat \ {0}
      /\ \A s \in Scanner : cfg[s].single # None =>
           cfg[s].single.ino \in DOMAIN Ledger /\ Leads(tree, cfg[s].single.path) = cfg[s].single.ino
  BY <1>1 DEF ScanAssumption, OptionsAssumption
<1>8. ChosenOK
  BY <1>6, <1>7 DEF ChosenOK
<1> QED BY <1>4, <1>8

LEMMA InitKeeps ==
  ASSUME ScanAssumption, Init PROVE ScansInv
<1>1. TreeOK /\ ChosenOK
  BY TreesFit
<1>2. LedgerAssumption
  BY DEF ScanAssumption
<1>3. ClockOK
  <2>1. \A i \in DOMAIN Ledger : 1 \in DOMAIN Ledger[i]
    BY <1>2, Contents
  <2>2. version = [i \in DOMAIN Ledger |-> 1] /\ began = [s \in Scanner |-> version]
    BY DEF Init
  <2> QED BY <2>1, <2>2 DEF ClockOK
<1>4. ShapeOK /\ RowsOK
  BY DEF Init, ShapeOK, RowsOK, RowsFit
<1>5. \A s \in Scanner : pc[s] = "idle" /\ results[s] = << >> /\ pending[s] = << >> /\ wires[s] = << >>
  BY DEF Init
<1>6. \A s \in Scanner : ScanOK(s)
  BY <1>5 DEF ScanOK, Selecting
<1> QED BY <1>1, <1>3, <1>4, <1>6 DEF ScansInv

LEMMA ScanStepKeeps ==
  ASSUME LedgerAssumption, ScansInv, NEW s \in Scanner, ScanStep(s) PROVE ScansInv'
<1>1. CASE Start(s) \/ StartSingle(s)
  BY <1>1, StartKeeps, StartSingleKeeps
<1>2. CASE VisitDirectory(s) \/ VisitFails(s) \/ EndWalk(s)
  BY <1>2, VisitDirectoryKeeps, VisitFailsKeeps, EndWalkKeeps
<1>3. CASE SkipCandidate(s) \/ HashCandidate(s) \/ CheckCandidate(s) \/ EndSelection(s)
  BY <1>3, SkipCandidateKeeps, HashCandidateKeeps, CheckCandidateKeeps, EndSelectionKeeps
<1>4. CASE WorkerTakes(s) \/ Merge(s) \/ \E n \in DOMAIN wires[s] : WorkerReturns(s, n)
  BY <1>4, WorkerTakesKeeps, MergeKeeps, WorkerReturnsKeeps
<1>5. CASE Finish(s) \/ Cancel(s) \/ FinishSingle(s)
  BY <1>5, FinishKeeps, CancelKeeps, FinishSingleKeeps
<1>6. CASE CacheFails(s) \/ WriteBaselineFile(s)
  BY <1>6, AsideKeeps DEF CacheFails, WriteBaselineFile, agents, scans
<1> QED BY <1>1, <1>2, <1>3, <1>4, <1>5, <1>6 DEF ScanStep

LEMMA NextKeeps ==
  ASSUME LedgerAssumption, ScansInv, [Next]_vars PROVE ScansInv'
<1>1. CASE AgentStep
  BY <1>1, WriteKeeps DEF AgentStep
<1>2. CASE \E s \in Scanner : ScanStep(s)
  BY <1>2, ScanStepKeeps
<1>3. CASE UNCHANGED vars
  BY <1>3, AsideKeeps DEF vars, agents, scans
<1> QED BY <1>1, <1>2, <1>3 DEF Next

LEMMA InvCurrent ==
  ASSUME LedgerAssumption, ScansInv PROVE ResultsCurrent
<1> SUFFICES ASSUME NEW s \in Scanner, pc[s] # "idle", NEW r \in Range(results[s]), NEW f \in Names(s),
                    f.path = r.path, r.reason \notin Caps
             PROVE  \E v \in Readings(1, version[f.ino]) :
                      /\ Timely(s, f.ino, v, r.hit)
                      /\ [r EXCEPT !.hit = FALSE] = ScanSource(r.path, Seen(f.ino, v), cfg[s])
  BY DEF ResultsCurrent, Names
<1>1. ScanOK(s)
  BY DEF ScansInv
<1>2. pc[s] \in Selecting \cup {"done"}
  <2>1. results[s] # << >>
    BY DEF Range
  <2> QED BY <1>1, <2>1 DEF ScanOK
<1>3. ResultOK(s, r)
  BY <1>1, <1>2, AtSelect DEF ScanOK, SelectOK
<1>4. Current(s, f.ino, r)
  BY <1>3 DEF ResultOK
<1> QED BY <1>4 DEF Current, Unhit

\* No scan, whatever its options, its jobs and its luck with the cache, and whatever
\* other scans and the agents do meanwhile, reports a verdict that the analysis with
\* its own options does not give for what the file had, stage after stage.  A
\* computed result is from what it had since the scan began; one that the cache
\* replays, from what it had since it first had the bytes that this scan hashed
\* (scan.py:_cache_lookup, cache.py:get).
THEOREM CurrentResults == Spec => []ResultsCurrent
<1> USE ScanAssumption
<1>1. Init => ScansInv
  BY InitKeeps
<1>2. ScansInv /\ [Next]_vars => ScansInv'
  BY NextKeeps DEF ScanAssumption
<1>3. ScansInv => ResultsCurrent
  BY InvCurrent DEF ScanAssumption
<1> QED BY <1>1, <1>2, <1>3, PTL DEF Spec

-----------------------------------------------------------------------------
(* Once, by path.                                                          *)

Paths(q) == {x.path : x \in Range(q)}
NoTwice(q) == \A i, j \in DOMAIN q : q[i].path = q[j].path => i = j

LEMMA OnceMore ==
  ASSUME NEW q, SomeSeq(q), NoTwice(q), NEW x, x.path \notin Paths(q)
  PROVE  NoTwice(Append(q, x)) /\ Paths(Append(q, x)) = Paths(q) \cup {x.path}
<1>1. /\ Range(Append(q, x)) = Range(q) \cup {x}
      /\ Len(q) \in Nat /\ DOMAIN q = 1..Len(q) /\ DOMAIN Append(q, x) = 1..(Len(q) + 1)
      /\ \A i \in DOMAIN q : Append(q, x)[i] = q[i]
      /\ Append(q, x)[Len(q) + 1] = x
  BY Appended
<1> DEFINE a == Append(q, x)
<1>2. \A i \in DOMAIN q : q[i].path # x.path
  BY DEF Paths, Range
<1>3. Paths(a) = Paths(q) \cup {x.path}
  BY <1>1 DEF Paths
<1>4. \A i \in DOMAIN a : i \in DOMAIN q \/ i = Len(q) + 1
  BY <1>1
<1> HIDE DEF a
<1>5. NoTwice(a)
  <2> SUFFICES ASSUME NEW i \in DOMAIN a, NEW j \in DOMAIN a, a[i].path = a[j].path PROVE i = j
    BY DEF NoTwice
  <2>1. CASE i \in DOMAIN q /\ j \in DOMAIN q
    BY <1>1, <2>1 DEF NoTwice, a
  <2>2. CASE i \in DOMAIN q /\ j = Len(q) + 1
    BY <1>1, <1>2, <2>2 DEF a
  <2>3. CASE j \in DOMAIN q /\ i = Len(q) + 1
    BY <1>1, <1>2, <2>3 DEF a
  <2> QED BY <1>4, <2>1, <2>2, <2>3
<1> QED BY <1>3, <1>5 DEF a

LEMMA OnceLess ==
  ASSUME NEW q, SomeSeq(q), NoTwice(q), q # << >>
  PROVE  /\ NoTwice(Tail(q)) /\ Paths(q) = Paths(Tail(q)) \cup {Head(q).path} /\ Head(q).path \notin Paths(Tail(q))
<1>1. PICK S : q \in Seq(S)
  BY DEF SomeSeq
<1> DEFINE t == Tail(q)
<1>2. Len(q) \in Nat \ {0} /\ DOMAIN q = 1..Len(q) /\ Head(q) = q[1]
  BY <1>1
<1>3. t \in Seq(S) /\ Len(t) = Len(q) - 1 /\ \A i \in 1..(Len(q) - 1) : t[i] = q[i + 1]
  BY <1>1, <1>2
<1>4. DOMAIN t = 1..(Len(q) - 1)
  BY <1>2, <1>3
<1> HIDE DEF t
<1>5. \A i \in DOMAIN t : i \in Int /\ i + 1 \in DOMAIN q /\ i + 1 # 1 /\ t[i] = q[i + 1]
  BY <1>2, <1>3, <1>4
<1>6. NoTwice(t)
  BY <1>5 DEF NoTwice
<1>7. 1 \in DOMAIN q
  BY <1>2
<1>8. Head(q).path \notin Paths(t)
  BY <1>2, <1>5, <1>7 DEF Paths, Range, NoTwice
<1>9. \A i \in DOMAIN q : i = 1 \/ (i - 1 \in DOMAIN t /\ (i - 1) + 1 = i)
  BY <1>2, <1>4
<1>10. \A x \in Range(q) : x = Head(q) \/ x \in Range(t)
  <2> TAKE x \in Range(q)
  <2>1. PICK i \in DOMAIN q : x = q[i]
    BY DEF Range
  <2>2. CASE i = 1
    BY <1>2, <2>1, <2>2
  <2>3. CASE i - 1 \in DOMAIN t /\ (i - 1) + 1 = i
    <3>1. t[i - 1] = x
      BY <1>5, <2>1, <2>3
    <3> QED BY <2>3, <3>1 DEF Range
  <2> QED BY <1>9, <2>2, <2>3
<1>11. Range(t) \subseteq Range(q) /\ Head(q) \in Range(q)
  BY Rest DEF t
<1>12. Paths(q) = Paths(t) \cup {Head(q).path}
  BY <1>10, <1>11 DEF Paths
<1> QED BY <1>6, <1>8, <1>12 DEF t

LEMMA OnceFront ==
  ASSUME NEW q, SomeSeq(q), NoTwice(q), q # << >>
  PROVE  /\ NoTwice(Front(q)) /\ Paths(q) = Paths(Front(q)) \cup {Last(q).path} /\ Last(q).path \notin Paths(Front(q))
<1> DEFINE t == Front(q)
<1>1. /\ Range(q) = Range(t) \cup {Last(q)}
      /\ Len(q) \in DOMAIN q /\ Last(q) = q[Len(q)]
      /\ DOMAIN t = DOMAIN q \ {Len(q)}
      /\ \A i \in DOMAIN t : t[i] = q[i]
  BY Popped
<1> HIDE DEF t
<1>2. NoTwice(t)
  BY <1>1 DEF NoTwice
<1>3. Last(q).path \notin Paths(t)
  BY <1>1 DEF NoTwice, Paths, Range
<1>4. Paths(q) = Paths(t) \cup {Last(q).path}
  BY <1>1 DEF Paths
<1> QED BY <1>2, <1>3, <1>4 DEF t

\* An order that never puts two places in one: every place is in it.
LEMMA OrderComplete ==
  ASSUME NEW n \in Nat, NEW o \in [1..n -> 1..n], \A i, j \in 1..n : o[i] = o[j] => i = j
  PROVE  \A k \in 1..n : \E i \in 1..n : o[i] = k
<1>1. IsFiniteSet(1..n)
  BY FS_Interval
<1>2. o \in Injection(1..n, 1..n)
  BY DEF Injection, IsInjective
<1>3. o \in Surjection(1..n, 1..n)
  BY <1>1, <1>2, FS_Injection
<1> QED BY <1>3 DEF Surjection

-----------------------------------------------------------------------------
(* The walk reaches what there is to reach.                                *)

\* What the walk has to say by a path or of an inode, it says once.
WalkOnce(w) ==
  /\ NoTwice(w.stack) /\ NoTwice(w.found) /\ NoTwice(w.skipped)
  /\ Paths(w.stack) \cap Paths(w.skipped) = {}
  /\ w.seen = {f.ino : f \in Range(w.found)}
  /\ \A i, j \in DOMAIN w.found : w.found[i].ino = w.found[j].ino => i = j
  /\ \A f \in Range(w.found) : f.mtime \in Nat
  /\ \A r \in Range(w.skipped) : "path" \in DOMAIN r

\* It goes nowhere else.
WalkWithin(c, w) == tree.root \in w.visited /\ w.visited \subseteq Reached(c) /\ w.seen \subseteq FilesReached(c)

\* What entry e leads to has been met.
Taken(c, w, e) == (Enters(e, c) => e.ino \in w.visited) /\ (IsLedger(e, c) => e.ino \in w.seen)

Covers(c, w) ==
  /\ WalkOnce(w) /\ WalkWithin(c, w)
  /\ \A d \in Listed(w) \ tree.closed : \A e \in Range(tree.dirs[d]) : Taken(c, w, e)

\* After n turns of the loop over the entries of dir.
TurnCovers(c, dir, n, w) ==
  /\ WalkOnce(w) /\ WalkWithin(c, w)
  /\ \A d \in Listed(w) \ (tree.closed \cup {dir.ino}) : \A e \in Range(tree.dirs[d]) : Taken(c, w, e)
  /\ \A m \in 1..n : Taken(c, w, tree.dirs[dir.ino][m])
  /\ dir.ino \notin tree.closed /\ dir.ino \in Reached(c)

LEMMA ReachedOn ==
  ASSUME TreeOK, NEW c, NEW d \in Reached(c) \ tree.closed, NEW e \in Range(tree.dirs[d]), Enters(e, c)
  PROVE  e.ino \in Reached(c)
<1>1. e.ino \in DOMAIN tree.dirs
  <2>1. d \in DOMAIN tree.dirs
    BY DEF Reached
  <2>2. PICK i \in DOMAIN tree.dirs[d] : e = tree.dirs[d][i]
    BY DEF Range
  <2>3. PointsRight(tree, e)
    BY <2>1, <2>2 DEF TreeOK
  <2> QED BY <2>3 DEF PointsRight, Enters, IsDir
<1>2. ASSUME NEW dirs \in SUBSET DOMAIN tree.dirs, Closed(dirs, c) PROVE e.ino \in dirs
  <2>1. d \in dirs
    BY <1>2 DEF Reached
  <2> QED BY <1>2, <2>1 DEF Closed, Open
<1> QED BY <1>1, <1>2 DEF Reached

LEMMA FilesOn ==
  ASSUME NEW c, NEW d \in Reached(c) \ tree.closed, NEW e \in Range(tree.dirs[d]), IsLedger(e, c)
  PROVE  e.ino \in FilesReached(c)
<1>1. d \in Open(Reached(c))
  BY DEF Open
<1>2. e \in UNION {Range(tree.dirs[x]) : x \in Open(Reached(c))}
  BY <1>1
<1> QED BY <1>2 DEF FilesReached

LEMMA RootReached ==
  ASSUME TreeOK, NEW c PROVE tree.root \in Reached(c)
BY DEF TreeOK, Reached, Closed

\* When nothing is left to visit, the walk has met every directory and every file.
LEMMA AllReached ==
  ASSUME TreeOK, NEW c, NEW w, Covers(c, w), Stacked(w) = {}
  PROVE  w.seen = FilesReached(c)
<1>1. Listed(w) = w.visited
  BY DEF Listed
<1>2. tree.root \in w.visited /\ w.visited \subseteq Reached(c) /\ w.seen \subseteq FilesReached(c)
  BY DEF Covers, WalkWithin
<1>3. \A d \in w.visited \ tree.closed : \A e \in Range(tree.dirs[d]) : Taken(c, w, e)
  BY <1>1 DEF Covers
<1>4. Closed(w.visited, c)
  BY <1>2, <1>3 DEF Closed, Open, Taken
<1>5. w.visited \in SUBSET DOMAIN tree.dirs
  BY <1>2 DEF Reached
<1>6. Reached(c) \subseteq w.visited
  BY <1>4, <1>5 DEF Reached
<1>7. ASSUME NEW x \in FilesReached(c) PROVE x \in w.seen
  <2>1. PICK e \in UNION {Range(tree.dirs[d]) : d \in Open(Reached(c))} : IsLedger(e, c) /\ x = e.ino
    BY DEF FilesReached
  <2>2. PICK d \in Open(Reached(c)) : e \in Range(tree.dirs[d])
    BY <2>1
  <2>3. d \in w.visited \ tree.closed
    BY <1>6, <2>2 DEF Open
  <2> QED BY <1>3, <2>1, <2>2, <2>3 DEF Taken
<1> QED BY <1>2, <1>7

-----------------------------------------------------------------------------
(* The cases of an entry, once more.                                       *)

Stays(w, v) ==
  v.stack = w.stack /\ v.visited = w.visited /\ v.seen = w.seen /\ v.found = w.found /\ v.skipped = w.skipped
Notes(w, path, v) ==
  /\ v.stack = w.stack /\ v.visited = w.visited /\ v.seen = w.seen /\ v.found = w.found
  /\ \E r : r.path = path /\ "path" \in DOMAIN r /\ v.skipped = Append(w.skipped, r)
Pushes(w, path, ino, v) ==
  /\ v.seen = w.seen /\ v.found = w.found /\ v.skipped = w.skipped
  /\ v.visited = w.visited \cup {ino}
  /\ \E d : d.path = path /\ d.ino = ino /\ v.stack = Append(w.stack, d)
Finds(w, path, ino, v) ==
  /\ v.stack = w.stack /\ v.visited = w.visited /\ v.skipped = w.skipped
  /\ ino \notin w.seen /\ v.seen = w.seen \cup {ino}
  /\ \E f : f.path = path /\ f.ino = ino /\ f.mtime = mtimes[ino] /\ v.found = Append(w.found, f)

\* What one entry at path does to the walk.
Does(c, e, w, path, v) ==
  /\ \/ Stays(w, v) \/ Notes(w, path, v)
     \/ Enters(e, c) /\ Pushes(w, path, e.ino, v)
     \/ IsLedger(e, c) /\ Finds(w, path, e.ino, v)
  /\ Taken(c, v, e)

LEMMA NoteDoes ==
  ASSUME NEW w, Shaped(w), NEW path, NEW why
  PROVE  /\ Notes(w, path, Note(w, Skipped(path, why)))
         /\ \A verdict : Notes(w, path, Note(w, Result(path, verdict, why, << >>)))
<1>1. ASSUME NEW verdict PROVE Notes(w, path, Note(w, Result(path, verdict, why, << >>)))
  <2> DEFINE r == Result(path, verdict, why, << >>)
             v == Note(w, r)
  <2>1. r.path = path /\ "path" \in DOMAIN r
    <3>1. Fresh(r, path)
      BY ResultFresh
    <3> HIDE DEF r
    <3> QED BY <3>1 DEF Fresh
  <2> HIDE DEF r
  <2>2. /\ v.stack = w.stack /\ v.visited = w.visited /\ v.seen = w.seen /\ v.found = w.found
        /\ v.skipped = Append(w.skipped, r)
    BY DEF Note, Shaped
  <2> HIDE DEF v
  <2> QED BY <2>1, <2>2 DEF Notes, v, r
<1> QED BY <1>1 DEF Skipped

LEMMA DescendDoes ==
  ASSUME NEW w, Shaped(w), NEW path, NEW ino
  PROVE  LET v == Descend(w, path, ino)
         IN ino \in v.visited /\ (Notes(w, path, v) \/ Pushes(w, path, ino, v))
<1> DEFINE v == Descend(w, path, ino)
<1>1. CASE ino \in w.visited
  <2>1. v = Note(w, Skipped(path, "symlink-loop-detected"))
    BY <1>1 DEF Descend
  <2>2. Notes(w, path, v)
    BY <2>1, NoteDoes
  <2> QED BY <1>1, <2>2 DEF Notes
<1>2. CASE ino \notin w.visited
  <2> DEFINE d == [ino |-> ino, path |-> path]
  <2>1. v = [w EXCEPT !.visited = @ \cup {ino}, !.stack = Append(@, d)]
    BY <1>2 DEF Descend
  <2>2. d.path = path /\ d.ino = ino
    OBVIOUS
  <2> HIDE DEF d
  <2>3. /\ v.seen = w.seen /\ v.found = w.found /\ v.skipped = w.skipped
        /\ v.visited = w.visited \cup {ino} /\ v.stack = Append(w.stack, d)
    BY <2>1 DEF Shaped
  <2> HIDE DEF v
  <2>4. Pushes(w, path, ino, v) /\ ino \in v.visited
    BY <2>2, <2>3 DEF Pushes
  <2> QED BY <2>4 DEF v
<1> QED BY <1>1, <1>2

LEMMA CandidateDoes ==
  ASSUME NEW w, Shaped(w), NEW path, NEW ino, NEW c
  PROVE  LET v == Candidate(w, path, ino, c)
         IN IF c.inLayout[Stem(path)] THEN ino \in v.seen /\ (Notes(w, path, v) \/ Finds(w, path, ino, v))
            ELSE Stays(w, v)
<1> DEFINE v == Candidate(w, path, ino, c)
<1>1. CASE ~c.inLayout[Stem(path)]
  BY <1>1 DEF Candidate, Stays
<1>2. CASE c.inLayout[Stem(path)] /\ ino \in w.seen
  <2>1. v = Note(w, Skipped(path, "duplicate-hardlink"))
    BY <1>2 DEF Candidate
  <2>2. Notes(w, path, v)
    BY <2>1, NoteDoes
  <2> HIDE DEF v
  <2>3. ino \in v.seen
    BY <1>2, <2>2 DEF Notes
  <2> QED BY <1>2, <2>2, <2>3 DEF v
<1>3. CASE c.inLayout[Stem(path)] /\ ino \notin w.seen
  <2> DEFINE f == [path |-> path, ino |-> ino, size |-> Content(ino).size, mtime |-> mtimes[ino]]
  <2>1. v = [w EXCEPT !.seen = @ \cup {ino}, !.found = Append(@, f)]
    BY <1>3 DEF Candidate
  <2>2. f.path = path /\ f.ino = ino /\ f.mtime = mtimes[ino]
    OBVIOUS
  <2> HIDE DEF f
  <2>3. /\ v.stack = w.stack /\ v.visited = w.visited /\ v.skipped = w.skipped
        /\ v.seen = w.seen \cup {ino} /\ v.found = Append(w.found, f)
    BY <2>1 DEF Shaped
  <2> HIDE DEF v
  <2>4. Finds(w, path, ino, v) /\ ino \in v.seen
    BY <1>3, <2>2, <2>3 DEF Finds
  <2> QED BY <1>3, <2>4 DEF v
<1> QED BY <1>1, <1>2, <1>3

LEMMA EntryDoes ==
  ASSUME NEW w, Shaped(w), NEW dir, SomeSeq(dir), NEW e, PointsRight(tree, e), NEW c, NEW path, path = Append(dir, e.name)
  PROVE  Does(c, e, w, path, Entry(w, dir, e, c))
<1> DEFINE v == Entry(w, dir, e, c)
<1>1. Stem(path) = e.name
  <2>1. Len(path) = Len(dir) + 1 /\ path[Len(dir) + 1] = e.name
    BY Appended
  <2> QED BY <2>1 DEF Stem
<1>2. CASE e.kind = "builtin" \/ e.name \in c.exclude
  <2>1. v = w
    BY <1>2 DEF Entry
  <2>2. ~Enters(e, c) /\ ~IsLedger(e, c)
    BY <1>2 DEF Enters, IsLedger
  <2> QED BY <2>1, <2>2 DEF Does, Stays, Taken
<1>3. CASE e.kind = "special" /\ e.name \notin c.exclude
  <2>1. v = Note(w, Skipped(path, "special-file-skipped"))
    BY <1>3 DEF Entry
  <2>2. ~Enters(e, c) /\ ~IsLedger(e, c)
    BY <1>3 DEF Enters, IsLedger
  <2>3. Notes(w, path, v)
    BY <2>1, NoteDoes
  <2> HIDE DEF v
  <2>4. Does(c, e, w, path, v)
    BY <2>2, <2>3 DEF Does, Taken
  <2> QED BY <2>4 DEF v
<1>4. ASSUME Enters(e, c), ~IsLedger(e, c), v = Descend(w, path, e.ino)
      PROVE  Does(c, e, w, path, v)
  <2>1. e.ino \in v.visited /\ (Notes(w, path, v) \/ Pushes(w, path, e.ino, v))
    BY <1>4, DescendDoes
  <2> HIDE DEF v
  <2> QED BY <1>4, <2>1 DEF Does, Taken
<1>5. ASSUME ~Enters(e, c), e.name \notin c.exclude,
             e.kind \in {"file", "index", "state"} \/ (e.kind = "link" /\ c.followSymlinks /\ e.ino # None /\ ~IsDir(e.ino)),
             NEW u, Shaped(u), Stays(w, u), v = Candidate(u, path, e.ino, c)
      PROVE  Does(c, e, w, path, v)
  <2>1. IF c.inLayout[e.name] THEN e.ino \in v.seen /\ (Notes(u, path, v) \/ Finds(u, path, e.ino, v))
        ELSE Stays(u, v)
    BY <1>1, <1>5, CandidateDoes
  <2>2. IsLedger(e, c) <=> c.inLayout[e.name]
    BY <1>5 DEF IsLedger
  <2> HIDE DEF v
  <2>3. CASE c.inLayout[e.name]
    <3>1. Notes(w, path, v) \/ Finds(w, path, e.ino, v)
      <4>1. /\ w.stack = u.stack /\ w.visited = u.visited /\ w.seen = u.seen
            /\ w.found = u.found /\ w.skipped = u.skipped
        BY <1>5 DEF Stays
      <4>2. Notes(u, path, v) => Notes(w, path, v)
        BY <4>1 DEF Notes
      <4>3. Finds(u, path, e.ino, v) => Finds(w, path, e.ino, v)
        BY <4>1 DEF Finds
      <4> QED BY <2>1, <2>3, <4>2, <4>3
    <3> QED BY <1>5, <2>1, <2>2, <2>3, <3>1 DEF Does, Taken
  <2>4. CASE ~c.inLayout[e.name]
    <3>1. Stays(w, v)
      BY <1>5, <2>1, <2>4 DEF Stays
    <3> QED BY <1>5, <2>2, <2>4, <3>1 DEF Does, Taken
  <2> QED BY <2>3, <2>4
<1>6. CASE e.kind = "dir" /\ e.name \notin c.exclude
  <2>1. Enters(e, c) /\ ~IsLedger(e, c) /\ v = Descend(w, path, e.ino)
    BY <1>6 DEF Enters, IsLedger, Entry
  <2> QED BY <1>4, <2>1
<1>7. CASE e.kind = "link" /\ e.name \notin c.exclude
  <2> DEFINE why == IF e.ino # None /\ IsDir(e.ino) THEN "symlink-directory-skipped" ELSE "symlink-skipped"
  <2>1. v = FollowLink(w, path, e, c)
    BY <1>7 DEF Entry
  <2>2. CASE ~c.followSymlinks \/ e.ino = None
    <3>1. v \in {Note(w, Skipped(path, why)), Note(w, Result(path, "unreadable", "broken-symlink", << >>))}
      BY <2>1, <2>2 DEF FollowLink
    <3> HIDE DEF why
    <3>2. Notes(w, path, v)
      BY <3>1, NoteDoes
    <3>3. ~Enters(e, c) /\ ~IsLedger(e, c)
      BY <1>7, <2>2 DEF Enters, IsLedger
    <3> HIDE DEF v
    <3>4. Does(c, e, w, path, v)
      BY <3>2, <3>3 DEF Does, Taken
    <3> QED BY <3>4 DEF v
  <2>3. CASE c.followSymlinks /\ e.ino # None /\ IsDir(e.ino)
    <3>1. Enters(e, c) /\ ~IsLedger(e, c) /\ v = Descend(w, path, e.ino)
      BY <1>7, <2>1, <2>3 DEF Enters, IsLedger, FollowLink
    <3> QED BY <1>4, <3>1
  <2>4. CASE c.followSymlinks /\ e.ino # None /\ ~IsDir(e.ino)
    <3>1. ~Enters(e, c) /\ v = Candidate(w, path, e.ino, c)
      BY <1>7, <2>1, <2>4 DEF Enters, FollowLink
    <3>2. Stays(w, w)
      BY DEF Stays
    <3> HIDE DEF v
    <3>3. Does(c, e, w, path, v)
      BY <1>5, <1>7, <2>4, <3>1, <3>2
    <3> QED BY <3>3 DEF v
  <2> QED BY <2>2, <2>3, <2>4
<1>8. CASE e.kind \notin {"builtin", "special", "dir", "link"} /\ e.name \notin c.exclude
  <2> DEFINE at == {[path |-> path, ino |-> e.ino]}
             v1 == [w EXCEPT !.indexes = @ \cup at]
             v2 == [w EXCEPT !.states = @ \cup at]
  <2>1. v \in {Candidate(w, path, e.ino, c), Candidate(v1, path, e.ino, c), Candidate(v2, path, e.ino, c)}
    BY <1>8 DEF Entry
  <2>2. /\ Shaped(v1) /\ Stays(w, v1) /\ Shaped(v2) /\ Stays(w, v2) /\ Stays(w, w)
    BY DEF Shaped, Stays
  <2>3. ~Enters(e, c) /\ e.kind \in {"file", "index", "state"}
    BY <1>8 DEF Enters, PointsRight, Kinds
  <2>4. PICK u : Shaped(u) /\ Stays(w, u) /\ v = Candidate(u, path, e.ino, c)
    <3> HIDE DEF v, v1, v2
    <3> QED BY <2>1, <2>2
  <2> HIDE DEF v
  <2>5. Does(c, e, w, path, v)
    BY <1>5, <1>8, <2>3, <2>4
  <2> QED BY <2>5 DEF v
<1> QED BY <1>2, <1>3, <1>6, <1>7, <1>8

-----------------------------------------------------------------------------
(* A turn, and a directory.                                                *)

TimesOK == \A i \in DOMAIN Ledger : mtimes[i] \in Nat

LEMMA LedgerFile ==
  ASSUME NEW e, PointsRight(tree, e), NEW c, IsLedger(e, c) PROVE e.ino \in DOMAIN Ledger
BY DEF IsLedger, PointsRight, IsDir

\* What has been met stays met.
LEMMA MetStays ==
  ASSUME NEW c, NEW w, NEW v, w.visited \subseteq v.visited, w.seen \subseteq v.seen, NEW e, Taken(c, w, e)
  PROVE  Taken(c, v, e)
BY DEF Taken

LEMMA DoesOnce ==
  ASSUME TimesOK, NEW s, NEW w, WalkFits(s, w), WalkOnce(w), NEW path, path \notin Claims(w),
         NEW e, PointsRight(tree, e), NEW c, NEW v, Does(c, e, w, path, v)
  PROVE  WalkOnce(v) /\ w.visited \subseteq v.visited /\ w.seen \subseteq v.seen
<1>1. SomeSeq(w.stack) /\ SomeSeq(w.found) /\ SomeSeq(w.skipped)
  BY DEF WalkFits
<1>2. /\ NoTwice(w.stack) /\ NoTwice(w.found) /\ NoTwice(w.skipped)
      /\ Paths(w.stack) \cap Paths(w.skipped) = {}
      /\ w.seen = {f.ino : f \in Range(w.found)}
      /\ \A i, j \in DOMAIN w.found : w.found[i].ino = w.found[j].ino => i = j
      /\ \A f \in Range(w.found) : f.mtime \in Nat
      /\ \A r \in Range(w.skipped) : "path" \in DOMAIN r
  BY DEF WalkOnce
<1>3. path \notin Paths(w.stack) /\ path \notin Paths(w.found) /\ path \notin Paths(w.skipped)
  BY DEF Claims, Paths
<1>4. CASE Stays(w, v)
  BY <1>4 DEF Stays, WalkOnce
<1>5. CASE Notes(w, path, v)
  <2>1. PICK r : r.path = path /\ "path" \in DOMAIN r /\ v.skipped = Append(w.skipped, r)
    BY <1>5 DEF Notes
  <2>2. v.stack = w.stack /\ v.visited = w.visited /\ v.seen = w.seen /\ v.found = w.found
    BY <1>5 DEF Notes
  <2>3. NoTwice(v.skipped) /\ Paths(v.skipped) = Paths(w.skipped) \cup {path}
    BY <1>1, <1>2, <1>3, <2>1, OnceMore
  <2>4. Range(v.skipped) = Range(w.skipped) \cup {r}
    BY <1>1, <2>1, Appended
  <2> QED BY <1>2, <1>3, <2>1, <2>2, <2>3, <2>4 DEF WalkOnce
<1>6. CASE Pushes(w, path, e.ino, v)
  <2>1. PICK d : d.path = path /\ d.ino = e.ino /\ v.stack = Append(w.stack, d)
    BY <1>6 DEF Pushes
  <2>2. v.visited = w.visited \cup {e.ino} /\ v.seen = w.seen /\ v.found = w.found /\ v.skipped = w.skipped
    BY <1>6 DEF Pushes
  <2>3. NoTwice(v.stack) /\ Paths(v.stack) = Paths(w.stack) \cup {path}
    BY <1>1, <1>2, <1>3, <2>1, OnceMore
  <2> QED BY <1>2, <1>3, <2>2, <2>3 DEF WalkOnce
<1>7. CASE IsLedger(e, c) /\ Finds(w, path, e.ino, v)
  <2>1. PICK f : f.path = path /\ f.ino = e.ino /\ f.mtime = mtimes[e.ino] /\ v.found = Append(w.found, f)
    BY <1>7 DEF Finds
  <2>2. /\ v.stack = w.stack /\ v.visited = w.visited /\ v.skipped = w.skipped
        /\ e.ino \notin w.seen /\ v.seen = w.seen \cup {e.ino}
    BY <1>7 DEF Finds
  <2>3. NoTwice(v.found)
    BY <1>1, <1>2, <1>3, <2>1, OnceMore
  <2> DEFINE k == Len(w.found) + 1
  <2>4. /\ Range(v.found) = Range(w.found) \cup {f}
        /\ Len(w.found) \in Nat /\ DOMAIN w.found = 1..Len(w.found) /\ DOMAIN v.found = 1..k
        /\ \A i \in DOMAIN w.found : v.found[i] = w.found[i]
        /\ v.found[k] = f
    BY <1>1, <2>1, Appended
  <2>5. f.mtime \in Nat
    BY <1>7, <2>1, LedgerFile DEF TimesOK
  <2>6. v.seen = {x.ino : x \in Range(v.found)}
    BY <1>2, <2>1, <2>2, <2>4
  <2>7. \A i \in DOMAIN w.found : w.found[i].ino # e.ino
    BY <1>2, <2>2 DEF Range
  <2>8. \A i \in DOMAIN v.found : i \in DOMAIN w.found \/ i = k
    BY <2>4
  <2> HIDE DEF k
  <2>9. \A i, j \in DOMAIN v.found : v.found[i].ino = v.found[j].ino => i = j
    <3> TAKE i, j \in DOMAIN v.found
    <3> HAVE v.found[i].ino = v.found[j].ino
    <3>1. CASE i \in DOMAIN w.found /\ j \in DOMAIN w.found
      BY <1>2, <2>4, <3>1
    <3>2. CASE i \in DOMAIN w.found /\ j = k
      BY <2>1, <2>4, <2>7, <3>2
    <3>3. CASE i = k /\ j \in DOMAIN w.found
      BY <2>1, <2>4, <2>7, <3>3
    <3> QED BY <2>8, <3>1, <3>2, <3>3
  <2> QED BY <1>2, <2>2, <2>3, <2>4, <2>5, <2>6, <2>9 DEF WalkOnce
<1> QED BY <1>4, <1>5, <1>6, <1>7 DEF Does, Stays, Notes, Pushes, Finds
LEMMA TurnMeets ==
  ASSUME LedgerAssumption, TreeOK, ClockOK, TimesOK, NEW s \in Scanner, NEW dir, NEW n \in Nat, NEW w,
         TurnOK(s, dir, n, w), n + 1 \in DOMAIN tree.dirs[dir.ino], NEW c, TurnCovers(c, dir, n, w)
  PROVE  TurnCovers(c, dir, n + 1, Entry(w, dir.path, tree.dirs[dir.ino][n + 1], c))
<1> DEFINE e == tree.dirs[dir.ino][n + 1]
           path == Append(dir.path, e.name)
           v == Entry(w, dir.path, e, c)
<1>1. /\ WalkFits(s, w) /\ dir.ino \in DOMAIN tree.dirs
      /\ SomeSeq(dir.path) /\ Leads(tree, dir.path) = dir.ino
  BY DEF TurnOK
<1>2. path \notin Claims(w) /\ SomeSeq(path) /\ Leads(tree, path) = e.ino
  BY <1>1, NewPath, Appended, EntryLeads
<1>3. PointsRight(tree, e) /\ e \in Range(tree.dirs[dir.ino])
  BY <1>1 DEF TreeOK, Range
<1>4. path = Append(dir.path, e.name) /\ v = Entry(w, dir.path, e, c)
  OBVIOUS
<1> HIDE DEF path, e, v
<1>5. Does(c, e, w, path, v)
  BY <1>1, <1>3, <1>4, EntryDoes DEF WalkFits
<1>6. Listed(v) = Listed(w)
  <2>1. Moves(s, path, w, v)
    BY <1>1, <1>2, <1>3, <1>4, EntryMoves
  <2> QED BY <2>1 DEF Moves
<1>7. /\ WalkOnce(w) /\ WalkWithin(c, w)
      /\ \A d \in Listed(w) \ (tree.closed \cup {dir.ino}) : \A x \in Range(tree.dirs[d]) : Taken(c, w, x)
      /\ \A m \in 1..n : Taken(c, w, tree.dirs[dir.ino][m])
      /\ dir.ino \notin tree.closed /\ dir.ino \in Reached(c)
  BY DEF TurnCovers
<1>8. WalkOnce(v) /\ w.visited \subseteq v.visited /\ w.seen \subseteq v.seen
  BY <1>1, <1>2, <1>3, <1>5, <1>7, DoesOnce
<1>9. WalkWithin(c, v)
  <2>1. Enters(e, c) => e.ino \in Reached(c)
    BY <1>3, <1>7, ReachedOn
  <2>2. IsLedger(e, c) => e.ino \in FilesReached(c)
    BY <1>3, <1>7, FilesOn
  <2> QED BY <1>5, <1>7, <2>1, <2>2 DEF Does, Stays, Notes, Pushes, Finds, WalkWithin
<1>10. \A d \in Listed(v) \ (tree.closed \cup {dir.ino}) : \A x \in Range(tree.dirs[d]) : Taken(c, v, x)
  BY <1>6, <1>7, <1>8, MetStays
<1>11. \A m \in 1..(n + 1) : Taken(c, v, tree.dirs[dir.ino][m])
  <2> TAKE m \in 1..(n + 1)
  <2>1. CASE m \in 1..n
    BY <1>7, <1>8, <2>1, MetStays
  <2>2. CASE m = n + 1
    BY <1>5, <2>2 DEF Does, e
  <2> QED BY <2>1, <2>2
<1>12. TurnCovers(c, dir, n + 1, v)
  BY <1>7, <1>8, <1>9, <1>10, <1>11 DEF TurnCovers
<1> QED BY <1>12 DEF v, e

LEMMA LoopMeets ==
  ASSUME LedgerAssumption, TreeOK, ClockOK, TimesOK, NEW s \in Scanner, NEW dir, NEW w, TurnOK(s, dir, 0, w), NEW c,
         TurnCovers(c, dir, 0, w)
  PROVE  Covers(c, Loop!Fold(dir.path, c, w, tree.dirs[dir.ino]))
<1> DEFINE es == tree.dirs[dir.ino]
           loop == Loop!Fold(dir.path, c, w, es)
<1>1. SomeSeq(es) /\ dir.ino \in DOMAIN tree.dirs
  BY DEF TurnOK, TreeOK
<1>2. DOMAIN es = 1..Len(es) /\ Len(es) \in Nat
  BY <1>1, Appended
<1>3. PICK at : Loop!Turns(dir.path, c, w, es, at) /\ at[Len(es)] = loop
  <2> HIDE DEF es
  <2> QED BY <1>2, Loop!FoldTurns
<1> HIDE DEF loop
<1> DEFINE N == {n \in Nat : n =< Len(es) => TurnOK(s, dir, n, at[n]) /\ TurnCovers(c, dir, n, at[n])}
<1>4. 0 \in N
  BY <1>3 DEF Loop!Turns
<1>5. ASSUME NEW n \in Nat, n \in N PROVE n + 1 \in N
  <2> SUFFICES ASSUME n + 1 =< Len(es) PROVE TurnOK(s, dir, n + 1, at[n + 1]) /\ TurnCovers(c, dir, n + 1, at[n + 1])
    OBVIOUS
  <2>1. n < Len(es) /\ n + 1 \in DOMAIN es
    BY <1>2
  <2>2. TurnOK(s, dir, n, at[n]) /\ TurnCovers(c, dir, n, at[n])
    BY <1>2, <1>5, <2>1
  <2>3. at[n + 1] = Entry(at[n], dir.path, es[n + 1], c)
    BY <1>3, <2>1 DEF Loop!Turns, Enter
  <2>4. TurnOK(s, dir, n + 1, at[n + 1])
    BY <2>1, <2>2, <2>3, TurnKeeps
  <2>5. TurnCovers(c, dir, n + 1, at[n + 1])
    BY <2>1, <2>2, <2>3, TurnMeets
  <2> QED BY <2>4, <2>5
<1>6. Nat \subseteq N
  <2> HIDE DEF N
  <2> QED BY <1>4, <1>5, Loop!NatSet
<1>7. TurnCovers(c, dir, Len(es), loop)
  BY <1>2, <1>3, <1>6
<1>8. \A x \in Range(es) : Taken(c, loop, x)
  <2> TAKE x \in Range(es)
  <2>1. PICK m \in 1..Len(es) : x = es[m]
    BY <1>2 DEF Range
  <2> QED BY <1>7, <2>1 DEF TurnCovers
<1>9. \A d \in Listed(loop) \ tree.closed : \A x \in Range(tree.dirs[d]) : Taken(c, loop, x)
  BY <1>7, <1>8 DEF TurnCovers
<1>10. Covers(c, loop)
  BY <1>7, <1>9 DEF Covers, TurnCovers
<1> QED BY <1>10 DEF loop

\* The directory that is taken from the stack is one of those to be reached.
LEMMA PopMeets ==
  ASSUME NEW s \in Scanner, NEW w, WalkOK(s, w), w.stack # << >>, NEW c, Covers(c, w),
         NEW v, Pops(w, v), v.seen = w.seen, NEW dir, dir = Last(w.stack)
  PROVE  /\ WalkOnce(v) /\ WalkWithin(c, v) /\ dir.ino \in Reached(c) /\ dir.path \notin Paths(v.stack) \cup Paths(v.skipped)
         /\ \A d \in Listed(v) \ (tree.closed \cup {dir.ino}) : \A e \in Range(tree.dirs[d]) : Taken(c, v, e)
<1>1. /\ v.stack = Front(w.stack) /\ v.visited = w.visited /\ v.found = w.found /\ v.skipped = w.skipped
  BY DEF Pops
<1>2. WalkOnce(w) /\ WalkWithin(c, w) /\ SomeSeq(w.stack)
  BY DEF Covers, WalkOK, WalkFits
<1>3. /\ NoTwice(Front(w.stack)) /\ Paths(w.stack) = Paths(Front(w.stack)) \cup {Last(w.stack).path}
      /\ Last(w.stack).path \notin Paths(Front(w.stack))
  BY <1>2, OnceFront DEF WalkOnce
<1>4. NoTwice(v.stack) /\ Paths(w.stack) = Paths(v.stack) \cup {dir.path} /\ dir.path \notin Paths(v.stack)
  BY <1>1, <1>3
<1>5. WalkOnce(v) /\ dir.path \notin Paths(v.skipped)
  BY <1>1, <1>2, <1>4 DEF WalkOnce
<1>6. WalkWithin(c, v)
  BY <1>1, <1>2 DEF WalkWithin
<1>7. dir \in Range(w.stack)
  BY <1>2, Popped
<1>8. dir.ino \in Reached(c)
  BY <1>2, <1>7 DEF WalkWithin, WalkOK, WalkFits
<1>9. Listed(v) = Listed(w) \cup {dir.ino}
  BY PopKeeps
<1>10. \A d \in Listed(v) \ (tree.closed \cup {dir.ino}) : \A e \in Range(tree.dirs[d]) : Taken(c, v, e)
  BY <1>1, <1>9, MetStays DEF Covers
<1> QED BY <1>4, <1>5, <1>6, <1>8, <1>10

LEMMA VisitMeets ==
  ASSUME LedgerAssumption, TreeOK, ClockOK, TimesOK, NEW s \in Scanner, WalkOK(s, walk[s]), Covers(cfg[s], walk[s]),
         VisitDirectory(s), s \in DOMAIN walk
  PROVE  Covers(cfg[s], walk'[s])
<1> DEFINE dir == Last(walk[s].stack)
           v == [walk[s] EXCEPT !.stack = Front(@)]
<1>1. walk'[s] = Loop!Fold(dir.path, cfg[s], v, tree.dirs[dir.ino])
  BY DEF VisitDirectory, Loop!Fold, Enter, FoldLeft, MapThenFoldSet, Loop!MapThenFoldSet,
         Max, Loop!Max
<1>2. Pops(walk[s], v) /\ v.seen = walk[s].seen
  <2>1. Shaped(walk[s])
    BY DEF WalkOK, WalkFits
  <2> QED BY <2>1, PopIs DEF Shaped
<1>3. walk[s].stack # << >> /\ dir.ino \notin tree.closed
  BY DEF VisitDirectory
<1>4. dir = Last(walk[s].stack)
  OBVIOUS
<1> HIDE DEF v, dir
<1>5. TurnOK(s, dir, 0, v)
  BY <1>2, <1>3, <1>4, PopKeeps
<1>6. /\ WalkOnce(v) /\ WalkWithin(cfg[s], v) /\ dir.ino \in Reached(cfg[s])
      /\ \A d \in Listed(v) \ (tree.closed \cup {dir.ino}) : \A e \in Range(tree.dirs[d]) : Taken(cfg[s], v, e)
  BY <1>2, <1>3, <1>4, PopMeets
<1>7. TurnCovers(cfg[s], dir, 0, v)
  BY <1>3, <1>6 DEF TurnCovers
<1> QED BY <1>1, <1>5, <1>7, LoopMeets

LEMMA FailMeets ==
  ASSUME NEW s \in Scanner, NEW w, WalkOK(s, w), w.stack # << >>, NEW c, Covers(c, w), Last(w.stack).ino \in tree.closed,
         NEW v, Pops(w, v), v.seen = w.seen, NEW r, r.path = Last(w.stack).path, "path" \in DOMAIN r
  PROVE  Covers(c, Note(v, r))
<1> DEFINE dir == Last(w.stack)
           u == Note(v, r)
<1>1. /\ WalkOnce(v) /\ WalkWithin(c, v) /\ dir.path \notin Paths(v.stack) \cup Paths(v.skipped)
      /\ \A d \in Listed(v) \ (tree.closed \cup {dir.ino}) : \A e \in Range(tree.dirs[d]) : Taken(c, v, e)
  BY PopMeets
<1>2. SomeSeq(v.skipped)
  BY DEF Pops, WalkOK, WalkFits
<1>3. /\ u.stack = v.stack /\ u.visited = v.visited /\ u.found = v.found /\ u.seen = v.seen
      /\ u.skipped = Append(v.skipped, r)
  BY DEF Note, Pops, Shaped
<1>4. r.path = dir.path /\ dir.ino \in tree.closed
  OBVIOUS
<1> HIDE DEF u, dir
<1>5. NoTwice(u.skipped) /\ Paths(u.skipped) = Paths(v.skipped) \cup {dir.path} /\ Range(u.skipped) = Range(v.skipped) \cup {r}
  BY <1>1, <1>2, <1>3, <1>4, OnceMore, Appended DEF WalkOnce
<1>6. WalkOnce(u)
  BY <1>1, <1>3, <1>5 DEF WalkOnce
<1>7. WalkWithin(c, u) /\ Listed(u) = Listed(v)
  BY <1>1, <1>3 DEF WalkWithin, Listed, Stacked
<1>8. \A d \in Listed(u) \ tree.closed : \A e \in Range(tree.dirs[d]) : Taken(c, u, e)
  BY <1>1, <1>3, <1>4, <1>7, MetStays
<1>9. Covers(c, u)
  BY <1>6, <1>7, <1>8 DEF Covers
<1> QED BY <1>9 DEF u

LEMMA FirstCovers ==
  ASSUME TreeOK, NEW c,
         NEW w, w = [NoWalk EXCEPT !.stack = <<[ino |-> tree.root, path |-> << >>]>>, !.visited = {tree.root}]
  PROVE  Covers(c, w)
<1> DEFINE d == [ino |-> tree.root, path |-> << >>]
<1>1. /\ w.stack = <<d>> /\ w.visited = {tree.root} /\ w.found = << >> /\ w.skipped = << >> /\ w.seen = {}
      /\ d.ino = tree.root
  BY DEF NoWalk
<1> HIDE DEF d
<1>2. DOMAIN << >> = {} /\ DOMAIN <<d>> = {1} /\ <<d>>[1] = d
  OBVIOUS
<1>3. Range(<< >>) = {} /\ Range(<<d>>) = {d}
  BY <1>2 DEF Range
<1>4. WalkOnce(w)
  BY <1>1, <1>2, <1>3 DEF WalkOnce, NoTwice, Paths
<1>5. WalkWithin(c, w)
  BY <1>1, RootReached DEF WalkWithin
<1>6. Listed(w) = {}
  BY <1>1, <1>3 DEF Listed, Stacked
<1> QED BY <1>4, <1>5, <1>6 DEF Covers
-----------------------------------------------------------------------------
(* Every candidate is in one place.                                        *)

\* What waits for a worker or for its turn to be merged.
Unmerged(q, m) == {q[n].path : n \in {k \in DOMAIN q : k > m}}

\* A candidate is still to be considered, waits, is in hand or has its result.
Balanced(at, res, ahead, waiting, m, f, found) ==
  /\ SomeSeq(res) /\ SomeSeq(ahead) /\ SomeSeq(waiting) /\ m \in Nat
  /\ NoTwice(res) /\ NoTwice(ahead) /\ NoTwice(waiting)
  /\ \A r \in Range(res) : "path" \in DOMAIN r
  /\ Paths(res) \cap Paths(ahead) = {} /\ Paths(ahead) \cap Paths(waiting) = {} /\ Paths(res) \cap Unmerged(waiting, m) = {}
  /\ at = "check" => f.path \notin Paths(res) \cup Paths(ahead) \cup Paths(waiting)
  /\ \A x \in Paths(found) : x \in Paths(res) \cup Paths(ahead) \cup Unmerged(waiting, m) \/ (at = "check" /\ x = f.path)
  /\ at \in {"select", "check"} => m = 0
  /\ at \in {"pool", "merged"} => ahead = << >>
  /\ at = "merged" => Unmerged(waiting, m) = {}

LEMMA AllUnmerged == ASSUME NEW q, SomeSeq(q) PROVE Unmerged(q, 0) = Paths(q)
<1>1. DOMAIN q = 1..Len(q) /\ Len(q) \in Nat
  BY Appended
<1>2. \A n \in DOMAIN q : n > 0
  BY <1>1
<1>3. {k \in DOMAIN q : k > 0} = DOMAIN q
  BY <1>2
<1> QED BY <1>3 DEF Unmerged, Paths, Range

LEMMA BalanceResult ==
  ASSUME NEW res, NEW ahead, NEW waiting, NEW m, NEW f, NEW found, Balanced("select", res, ahead, waiting, m, f, found),
         ahead # << >>, NEW r, r.path = Head(ahead).path, "path" \in DOMAIN r, NEW g
  PROVE  Balanced("select", Append(res, r), Tail(ahead), waiting, m, g, found)
<1> DEFINE x == Head(ahead).path
           more == Append(res, r)
           rest == Tail(ahead)
<1>1. SomeSeq(res) /\ NoTwice(res) /\ SomeSeq(ahead) /\ NoTwice(ahead) /\ SomeSeq(waiting) /\ m = 0
  BY DEF Balanced
<1>2. NoTwice(rest) /\ Paths(ahead) = Paths(rest) \cup {x} /\ x \notin Paths(rest) /\ SomeSeq(rest)
  BY <1>1, OnceLess, Rest
<1>3. Paths(res) \cap Paths(ahead) = {} /\ Paths(ahead) \cap Paths(waiting) = {} /\ Unmerged(waiting, m) = Paths(waiting)
  BY <1>1, AllUnmerged DEF Balanced
<1>4. NoTwice(more) /\ Paths(more) = Paths(res) \cup {x} /\ SomeSeq(more) /\ Range(more) = Range(res) \cup {r}
  BY <1>1, <1>2, <1>3, OnceMore, Appended
<1> HIDE DEF x, more, rest
<1>5. x \notin Paths(waiting)
  BY <1>2, <1>3
<1>6. Balanced("select", more, rest, waiting, m, g, found)
  BY <1>2, <1>3, <1>4, <1>5 DEF Balanced
<1> QED BY <1>6 DEF more, rest

LEMMA BalanceWaiting ==
  ASSUME NEW res, NEW ahead, NEW waiting, NEW m, NEW f, NEW found, Balanced("select", res, ahead, waiting, m, f, found),
         ahead # << >>, NEW y, y.path = Head(ahead).path, NEW g
  PROVE  Balanced("select", res, Tail(ahead), Append(waiting, y), m, g, found)
<1> DEFINE x == Head(ahead).path
           more == Append(waiting, y)
           rest == Tail(ahead)
<1>1. SomeSeq(res) /\ NoTwice(waiting) /\ SomeSeq(ahead) /\ NoTwice(ahead) /\ SomeSeq(waiting) /\ m = 0
  BY DEF Balanced
<1>2. NoTwice(rest) /\ Paths(ahead) = Paths(rest) \cup {x} /\ x \notin Paths(rest) /\ SomeSeq(rest)
  BY <1>1, OnceLess, Rest
<1>3. Paths(res) \cap Paths(ahead) = {} /\ Paths(ahead) \cap Paths(waiting) = {} /\ Unmerged(waiting, m) = Paths(waiting)
  BY <1>1, AllUnmerged DEF Balanced
<1>4. NoTwice(more) /\ Paths(more) = Paths(waiting) \cup {x} /\ SomeSeq(more)
  BY <1>1, <1>2, <1>3, OnceMore, Appended
<1>5. Unmerged(more, m) = Paths(more)
  BY <1>1, <1>4, AllUnmerged
<1> HIDE DEF x, more, rest
<1>6. Balanced("select", res, rest, more, m, g, found)
  BY <1>2, <1>3, <1>4, <1>5 DEF Balanced
<1> QED BY <1>6 DEF more, rest

LEMMA BalanceHand ==
  ASSUME NEW res, NEW ahead, NEW waiting, NEW m, NEW f, NEW found, Balanced("select", res, ahead, waiting, m, f, found),
         ahead # << >>, NEW g, g.path = Head(ahead).path
  PROVE  Balanced("check", res, Tail(ahead), waiting, m, g, found)
<1> DEFINE x == Head(ahead).path
           rest == Tail(ahead)
<1>1. SomeSeq(ahead) /\ NoTwice(ahead) /\ SomeSeq(waiting) /\ m = 0
  BY DEF Balanced
<1>2. NoTwice(rest) /\ Paths(ahead) = Paths(rest) \cup {x} /\ x \notin Paths(rest) /\ SomeSeq(rest)
  BY <1>1, OnceLess, Rest
<1> HIDE DEF x, rest
<1>3. g.path = x
  BY DEF x
<1>4. Balanced("check", res, rest, waiting, m, g, found)
  BY <1>2, <1>3 DEF Balanced
<1> QED BY <1>4 DEF rest

LEMMA BalanceChecked ==
  ASSUME NEW res, NEW ahead, NEW waiting, NEW m, NEW f, NEW found, Balanced("check", res, ahead, waiting, m, f, found),
         NEW r, r.path = f.path, "path" \in DOMAIN r
  PROVE  Balanced("select", Append(res, r), ahead, waiting, m, f, found)
<1> DEFINE more == Append(res, r)
<1>1. /\ SomeSeq(res) /\ NoTwice(res) /\ SomeSeq(waiting) /\ m = 0
      /\ f.path \notin Paths(res) \cup Paths(ahead) \cup Paths(waiting)
  BY DEF Balanced
<1>2. NoTwice(more) /\ Paths(more) = Paths(res) \cup {f.path} /\ SomeSeq(more) /\ Range(more) = Range(res) \cup {r}
  BY <1>1, OnceMore, Appended
<1>3. Unmerged(waiting, m) = Paths(waiting)
  BY <1>1, AllUnmerged
<1> HIDE DEF more
<1>4. Balanced("select", more, ahead, waiting, m, f, found)
  BY <1>1, <1>2, <1>3 DEF Balanced
<1> QED BY <1>4 DEF more

LEMMA BalanceSelected ==
  ASSUME NEW res, NEW ahead, NEW waiting, NEW m, NEW f, NEW found, Balanced("select", res, ahead, waiting, m, f, found),
         ahead = << >>
  PROVE  Balanced(IF waiting # << >> THEN "pool" ELSE "merged", res, ahead, waiting, m, f, found)
<1>1. waiting = << >> => Unmerged(waiting, m) = {}
  BY DEF Unmerged
<1> QED BY <1>1 DEF Balanced

LEMMA BalanceMerged ==
  ASSUME NEW res, NEW ahead, NEW waiting, NEW m, NEW f, NEW found, Balanced("pool", res, ahead, waiting, m, f, found),
         m + 1 \in DOMAIN waiting, NEW r, r.path = waiting[m + 1].path, "path" \in DOMAIN r
  PROVE  Balanced(IF m + 1 = Len(waiting) THEN "merged" ELSE "pool", Append(res, r), ahead, waiting, m + 1, f, found)
<1> DEFINE x == waiting[m + 1].path
           more == Append(res, r)
<1>1. /\ SomeSeq(res) /\ NoTwice(res) /\ SomeSeq(waiting) /\ NoTwice(waiting) /\ m \in Nat /\ ahead = << >>
      /\ Paths(res) \cap Unmerged(waiting, m) = {}
  BY DEF Balanced
<1>2. DOMAIN waiting = 1..Len(waiting) /\ Len(waiting) \in Nat
  BY <1>1, Appended
<1>3. \A k \in DOMAIN waiting : k > m <=> (k = m + 1 \/ k > m + 1)
  BY <1>1, <1>2
<1>4. Unmerged(waiting, m) = Unmerged(waiting, m + 1) \cup {x}
  BY <1>3 DEF Unmerged
<1>5. \A k \in DOMAIN waiting : k > m + 1 => k # m + 1
  BY <1>1, <1>2
<1>6. x \notin Unmerged(waiting, m + 1)
  <2> SUFFICES ASSUME x \in Unmerged(waiting, m + 1) PROVE FALSE
    OBVIOUS
  <2>1. PICK k \in DOMAIN waiting : k > m + 1 /\ waiting[k].path = waiting[m + 1].path
    BY DEF Unmerged
  <2>2. k = m + 1
    BY <1>1, <2>1 DEF NoTwice
  <2> QED BY <1>5, <2>1, <2>2
<1>7. m + 1 = Len(waiting) => Unmerged(waiting, m + 1) = {}
  <2>1. m + 1 = Len(waiting) => \A k \in DOMAIN waiting : ~(k > m + 1)
    BY <1>2
  <2> QED BY <2>1 DEF Unmerged
<1>8. x \notin Paths(res) /\ m + 1 \in Nat
  BY <1>1, <1>4
<1>9. NoTwice(more) /\ Paths(more) = Paths(res) \cup {x} /\ SomeSeq(more) /\ Range(more) = Range(res) \cup {r}
  BY <1>1, <1>8, OnceMore, Appended
<1>10. Paths(ahead) = {}
  BY <1>1 DEF Paths, Range
<1> HIDE DEF x, more
<1>11. Balanced(IF m + 1 = Len(waiting) THEN "merged" ELSE "pool", more, ahead, waiting, m + 1, f, found)
  BY <1>1, <1>4, <1>6, <1>7, <1>8, <1>9, <1>10 DEF Balanced
<1> QED BY <1>11 DEF more

\* In whatever order the candidates are.
LEMMA OrderedOnce ==
  ASSUME NEW found, SomeSeq(found), NoTwice(found), \A f \in Range(found) : f.mtime \in Nat, NEW c, NEW q \in Ordered(found, c)
  PROVE  NoTwice(q) /\ Paths(q) = Paths(found)
<1> DEFINE n == Len(found)
           Before(i, j) == found[i].mtime > found[j].mtime \/ (found[i].mtime = found[j].mtime /\ i < j)
<1>1. CASE q = found
  BY <1>1
<1>2. CASE \E o \in [DOMAIN found -> DOMAIN found] :
             /\ \A i, j \in DOMAIN found : i < j => Before(o[i], o[j])
             /\ q = [k \in DOMAIN found |-> found[o[k]]]
  <2>1. PICK o \in [DOMAIN found -> DOMAIN found] :
             /\ \A i, j \in DOMAIN found : i < j => Before(o[i], o[j])
             /\ q = [k \in DOMAIN found |-> found[o[k]]]
    BY <1>2
  <2>2. DOMAIN found = 1..n /\ n \in Nat
    BY Appended
  <2>3. \A k \in DOMAIN found : found[k].mtime \in Nat /\ k \in Nat /\ ~Before(k, k)
    <3> TAKE k \in DOMAIN found
    <3>1. found[k].mtime \in Nat /\ k \in Nat
      BY <2>2 DEF Range
    <3> DEFINE t == found[k].mtime
    <3>2. ~(t > t) /\ ~(k < k)
      BY <3>1
    <3> QED BY <3>1, <3>2
  <2> HIDE DEF Before
  <2>4. \A i, j \in DOMAIN found : o[i] = o[j] => i = j
    <3> TAKE i, j \in DOMAIN found
    <3> HAVE o[i] = o[j]
    <3>1. o[i] \in DOMAIN found /\ ~Before(o[i], o[j]) /\ ~Before(o[j], o[i])
      BY <2>3
    <3>2. ~(i < j) /\ ~(j < i)
      BY <2>1, <3>1
    <3>3. i \in Nat /\ j \in Nat
      BY <2>3
    <3> QED BY <3>2, <3>3
  <2>5. \A k \in DOMAIN found : \E i \in DOMAIN found : o[i] = k
    <3>1. n \in Nat /\ o \in [1..n -> 1..n] /\ \A i, j \in 1..n : o[i] = o[j] => i = j
      BY <2>2, <2>4
    <3> HIDE DEF n
    <3>2. \A k \in 1..n : \E i \in 1..n : o[i] = k
      BY <3>1, OrderComplete
    <3> QED BY <2>2, <3>2
  <2>6. DOMAIN q = DOMAIN found /\ \A i \in DOMAIN found : q[i] = found[o[i]] /\ o[i] \in DOMAIN found
    BY <2>1
  <2>7. NoTwice(q)
    BY <2>4, <2>6 DEF NoTwice
  <2>8. \A x \in Range(found) : x \in Range(q)
    BY <2>5, <2>6 DEF Range
  <2>9. \A x \in Range(q) : x \in Range(found)
    BY <2>6 DEF Range
  <2> QED BY <2>7, <2>8, <2>9 DEF Paths
<1> QED BY <1>1, <1>2 DEF Ordered

-----------------------------------------------------------------------------
(* The passes over the whole scan keep what results there are.             *)

SamePaths(q, p) == DOMAIN q = DOMAIN p /\ \A i \in DOMAIN q : q[i].path = p[i].path /\ "path" \in DOMAIN q[i]

LEMMA AddSame ==
  ASSUME NEW r, "path" \in DOMAIN r, NEW findings
  PROVE  Add(r, findings).path = r.path /\ "path" \in DOMAIN Add(r, findings)
BY DEF Add

LEMMA EmitSame ==
  ASSUME NEW p, NEW q, SamePaths(p, q), NEW found, NEW b PROVE SamePaths(EmitAll(p, found, b), q)
<1> DEFINE e == EmitAll(p, found, b)
<1>1. DOMAIN e = DOMAIN p /\ \A i \in DOMAIN p : e[i] = Add(p[i], Emitted(i, found, b))
  BY DEF EmitAll
<1> HIDE DEF e
<1>2. \A i \in DOMAIN p : e[i].path = p[i].path /\ "path" \in DOMAIN e[i]
  BY <1>1, AddSame DEF SamePaths
<1> QED BY <1>1, <1>2 DEF SamePaths, e

LEMMA CrossSame ==
  ASSUME NEW q, SamePaths(q, q), NEW world, NEW c PROVE SamePaths(CrossFile(q, world, c), q)
<1> DEFINE linked == IF "SL401" \in c.enabled THEN ResolveCrossFileLinks(q, c.baseline) ELSE q
           listed == ReconcileSessionIndexes(linked, world, c.baseline)
           spawned == ReconcileStateDbs(listed, world, c.baseline)
<1>1. SamePaths(linked, q)
  BY EmitSame DEF ResolveCrossFileLinks
<1>2. CrossFile(q, world, c) \in {linked, spawned}
  BY DEF CrossFile
<1> HIDE DEF linked
<1>3. SamePaths(listed, q)
  BY <1>1, EmitSame DEF ReconcileSessionIndexes
<1> HIDE DEF listed
<1>4. SamePaths(spawned, q)
  BY <1>3, EmitSame DEF ReconcileStateDbs
<1> HIDE DEF spawned
<1> QED BY <1>1, <1>2, <1>4

LEMMA SameOnce ==
  ASSUME NEW p, NEW q, SamePaths(p, q), NoTwice(q) PROVE NoTwice(p) /\ Paths(p) = Paths(q)
BY DEF SamePaths, NoTwice, Paths, Range
-----------------------------------------------------------------------------
(* The invariant, of every file once.                                      *)

\* The walk has found what there was to find, each file by one name.
Ended(s) ==
  /\ {f.ino : f \in Range(walk[s].found)} = FilesReached(cfg[s])
  /\ \A i, j \in DOMAIN walk[s].found : walk[s].found[i].ino = walk[s].found[j].ino => i = j

Tracked(s) == Balanced(pc[s], results[s], todo[s], pending[s], taken[s].merged, file[s], walk[s].found)

Reported(s) == NoTwice(report[s]) /\ Paths(walk[s].found) \subseteq Paths(report[s])

OnceOK(s) ==
  /\ pc[s] \in {"idle", "walk"} => taken[s] = NothingTaken
  /\ pc[s] = "walk" => Covers(cfg[s], walk[s])
  /\ pc[s] \in Selecting => Ended(s) /\ Tracked(s)
  /\ pc[s] = "done" /\ cfg[s].single = None => Ended(s) /\ Reported(s)

OnceInv ==
  /\ DOMAIN taken = Scanner /\ DOMAIN report = Scanner /\ \A s \in Scanner : "merged" \in DOMAIN taken[s]
  /\ DOMAIN mtimes = DOMAIN Ledger /\ writes \in Nat /\ TimesOK
  /\ \A s \in Scanner : OnceOK(s)

UnmovedToo(t) ==
  /\ pc'[t] = pc[t] /\ cfg'[t] = cfg[t] /\ walk'[t] = walk[t] /\ results'[t] = results[t]
  /\ todo'[t] = todo[t] /\ file'[t] = file[t] /\ pending'[t] = pending[t]
  /\ taken'[t] = taken[t] /\ report'[t] = report[t]

\* What can be reached is a matter of the tree.
LEMMA ReachStays ==
  ASSUME tree' = tree
  PROVE  /\ \A c : FilesReached(c)' = FilesReached(c)
         /\ \A c, w : Covers(c, w)' = Covers(c, w)
<1>1. \A c, e : Enters(e, c)' = Enters(e, c) /\ IsLedger(e, c)' = IsLedger(e, c)
  BY DEF Enters, IsLedger, IsDir
<1>2. \A dirs : Open(dirs)' = Open(dirs)
  BY DEF Open
<1>3. \A c, dirs : Closed(dirs, c)' = Closed(dirs, c)
  BY <1>1, <1>2 DEF Closed
<1>4. \A c : Reached(c)' = Reached(c)
  BY <1>3 DEF Reached
<1>5. \A c : FilesReached(c)' = FilesReached(c)
  BY <1>1, <1>2, <1>4 DEF FilesReached
<1>6. \A c, w, e : Taken(c, w, e)' = Taken(c, w, e)
  BY <1>1 DEF Taken
<1>7. \A c, w : WalkWithin(c, w)' = WalkWithin(c, w)
  BY <1>4, <1>5 DEF WalkWithin
<1>8. \A c, w : Covers(c, w)' = Covers(c, w)
  BY <1>6, <1>7 DEF Covers
<1> QED BY <1>5, <1>8

LEMMA OnceStays ==
  ASSUME tree' = tree, NEW s, UnmovedToo(s), OnceOK(s) PROVE OnceOK(s)'
<1>1. /\ pc'[s] = pc[s] /\ cfg'[s] = cfg[s] /\ walk'[s] = walk[s] /\ results'[s] = results[s]
      /\ todo'[s] = todo[s] /\ file'[s] = file[s] /\ pending'[s] = pending[s]
      /\ taken'[s] = taken[s] /\ report'[s] = report[s]
  BY DEF UnmovedToo
<1>2. Ended(s) => Ended(s)'
  BY <1>1, ReachStays DEF Ended
<1>3. (Tracked(s) => Tracked(s)') /\ (Reported(s) => Reported(s)')
  BY <1>1 DEF Tracked, Reported
<1>4. pc[s] = "walk" => Covers(cfg[s], walk[s])'
  <2> HAVE pc[s] = "walk"
  <2>1. Covers(cfg[s], walk[s])
    BY DEF OnceOK
  <2> QED BY <1>1, <2>1, ReachStays
<1> QED BY <1>1, <1>2, <1>3, <1>4 DEF OnceOK

\* A step of s that leaves the agents and the other scans alone.
FrameOnce(s) ==
  /\ tree' = tree /\ mtimes' = mtimes /\ writes' = writes
  /\ DOMAIN taken' = Scanner /\ DOMAIN report' = Scanner /\ "merged" \in DOMAIN taken'[s]
  /\ \A t \in Scanner \ {s} : UnmovedToo(t)

LEMMA FrameOnceKeeps ==
  ASSUME OnceInv, NEW s \in Scanner, FrameOnce(s), OnceOK(s)' PROVE OnceInv'
<1>1. \A t \in Scanner \ {s} : OnceOK(t)'
  BY OnceStays DEF OnceInv, FrameOnce
<1>2. \A t \in Scanner : "merged" \in DOMAIN taken'[t]
  BY DEF OnceInv, FrameOnce, UnmovedToo
<1> QED BY <1>1, <1>2 DEF OnceInv, FrameOnce, TimesOK

\* A step among the candidates.
LEMMA TrackKeeps ==
  ASSUME OnceInv, NEW s \in Scanner, FrameOnce(s), pc[s] \in Selecting, cfg'[s] = cfg[s], walk'[s] = walk[s],
         pc'[s] \in Selecting,
         Balanced(pc'[s], results'[s], todo'[s], pending'[s], taken'[s].merged, file'[s], walk[s].found)
  PROVE  OnceInv'
<1>1. Ended(s)
  BY DEF OnceInv, OnceOK
<1>2. Ended(s)'
  BY <1>1, ReachStays DEF Ended, FrameOnce
<1>3. Tracked(s)'
  BY DEF Tracked
<1>4. OnceOK(s)'
  BY <1>2, <1>3 DEF OnceOK, Selecting
<1> QED BY <1>4, FrameOnceKeeps

LEMMA OnceTracked ==
  ASSUME OnceInv, NEW s \in Scanner, pc[s] \in Selecting
  PROVE  Balanced(pc[s], results[s], todo[s], pending[s], taken[s].merged, file[s], walk[s].found)
BY DEF OnceInv, OnceOK, Tracked

-----------------------------------------------------------------------------
(* The steps.                                                              *)

LEMMA VisitDirectoryOnce ==
  ASSUME LedgerAssumption, ScansInv, OnceInv, NEW s \in Scanner, VisitDirectory(s) PROVE OnceInv'
<1>1. FrameOnce(s)
  BY DEF ScansInv, ShapeOK, OnceInv, FrameOnce, UnmovedToo, VisitDirectory, agents, faults
<1>2. pc[s] = "walk" /\ pc'[s] = "walk" /\ cfg'[s] = cfg[s] /\ taken'[s] = taken[s]
  BY DEF VisitDirectory
<1>3. Covers(cfg[s], walk'[s])
  <2>1. Covers(cfg[s], walk[s]) /\ TimesOK /\ TreeOK /\ ClockOK /\ s \in DOMAIN walk
    BY <1>2 DEF OnceInv, OnceOK, ScansInv, ShapeOK
  <2> QED BY <1>2, <2>1, AtWalk, VisitMeets
<1>4. Covers(cfg[s], walk[s])'
  BY <1>1, <1>2, <1>3, ReachStays DEF FrameOnce
<1>5. OnceOK(s)'
  BY <1>2, <1>4 DEF OnceOK, OnceInv, Selecting
<1> QED BY <1>1, <1>5, FrameOnceKeeps

LEMMA VisitFailsOnce ==
  ASSUME LedgerAssumption, ScansInv, OnceInv, NEW s \in Scanner, VisitFails(s) PROVE OnceInv'
<1>1. FrameOnce(s)
  BY DEF ScansInv, ShapeOK, OnceInv, FrameOnce, UnmovedToo, VisitFails, agents, faults
<1>2. pc[s] = "walk" /\ pc'[s] = "walk" /\ cfg'[s] = cfg[s] /\ taken'[s] = taken[s]
  BY DEF VisitFails
<1>3. Covers(cfg[s], walk'[s])
  <2> DEFINE v == [walk[s] EXCEPT !.stack = Front(@)]
             r == Broken(Last(walk[s].stack).path, "unreadable", "SL001")
  <2>1. walk'[s] = Note(v, r) /\ walk[s].stack # << >> /\ Last(walk[s].stack).ino \in tree.closed
    <3>1. s \in DOMAIN walk
      BY DEF ScansInv, ShapeOK
    <3>2. walk' = [walk EXCEPT ![s] = Note(v, r)]
      BY DEF VisitFails
    <3>3. walk[s].stack # << >> /\ Last(walk[s].stack).ino \in tree.closed
      BY DEF VisitFails
    <3> HIDE DEF v, r
    <3> QED BY <3>1, <3>2, <3>3
  <2>2. r.path = Last(walk[s].stack).path /\ "path" \in DOMAIN r
    <3>1. \A path : Fresh(Broken(path, "unreadable", "SL001"), path)
      BY ResultFresh DEF Broken
    <3> QED BY <3>1 DEF Fresh
  <2>3. WalkOK(s, walk[s]) /\ Covers(cfg[s], walk[s])
    BY <1>2, AtWalk DEF OnceInv, OnceOK
  <2>4. Pops(walk[s], v) /\ v.seen = walk[s].seen
    <3>1. Shaped(walk[s])
      BY <2>3 DEF WalkOK, WalkFits
    <3> QED BY <2>3, <3>1, PopIs DEF Shaped
  <2> HIDE DEF v, r
  <2> QED BY <2>1, <2>2, <2>3, <2>4, FailMeets
<1>4. Covers(cfg[s], walk[s])'
  BY <1>1, <1>2, <1>3, ReachStays DEF FrameOnce
<1>5. OnceOK(s)'
  BY <1>2, <1>4 DEF OnceOK, OnceInv, Selecting
<1> QED BY <1>1, <1>5, FrameOnceKeeps

LEMMA EndWalkOnce ==
  ASSUME LedgerAssumption, ScansInv, OnceInv, NEW s \in Scanner, EndWalk(s) PROVE OnceInv'
<1> DEFINE w == walk[s]
           q == todo'[s]
<1>1. FrameOnce(s)
  BY DEF ScansInv, ShapeOK, OnceInv, FrameOnce, UnmovedToo, EndWalk, agents, faults
<1>2. /\ pc[s] = "walk" /\ pc'[s] = "select" /\ cfg'[s] = cfg[s] /\ walk'[s] = w /\ taken'[s] = taken[s]
      /\ results'[s] = w.skipped /\ pending'[s] = pending[s] /\ w.stack = << >>
      /\ q \in Ordered(w.found, cfg[s])
  BY DEF EndWalk, ScansInv, ShapeOK
<1>3. WalkFits(s, w) /\ Covers(cfg[s], w) /\ taken[s].merged = 0 /\ pending[s] = << >> /\ TreeOK
  <2>1. taken[s] = NothingTaken
    BY <1>2 DEF OnceInv, OnceOK
  <2>2. taken[s].merged = 0
    BY <2>1 DEF NothingTaken
  <2> QED BY <1>2, <2>2, AtWalk DEF OnceInv, OnceOK, WalkOK, ScansInv
<1>4. WalkOnce(w)
  BY <1>3 DEF Covers
<1>5. Ended(s)
  <2>1. Stacked(w) = {}
    BY <1>2 DEF Stacked, Range
  <2>2. w.seen = FilesReached(cfg[s])
    BY <1>3, <2>1, AllReached
  <2> QED BY <1>4, <2>2 DEF Ended, WalkOnce
<1>6. SomeSeq(q) /\ NoTwice(q) /\ Paths(q) = Paths(w.found)
  BY <1>2, <1>3, <1>4, OrderedSame, OrderedOnce DEF WalkFits, WalkOnce
<1>7. Paths(w.skipped) \cap Paths(w.found) = {} /\ SomeSeq(w.skipped)
  BY <1>3 DEF WalkFits, Paths
<1>8. SomeSeq(<< >>) /\ Paths(<< >>) = {} /\ Unmerged(<< >>, 0) = {} /\ NoTwice(<< >>)
  <2>1. << >> \in Seq({}) /\ DOMAIN << >> = {}
    OBVIOUS
  <2> QED BY <2>1 DEF SomeSeq, Paths, Range, Unmerged, NoTwice
<1> HIDE DEF q, w
<1>9. Balanced("select", w.skipped, q, << >>, 0, file'[s], w.found)
  BY <1>4, <1>6, <1>7, <1>8 DEF Balanced, WalkOnce
<1>10. Tracked(s)'
  BY <1>2, <1>3, <1>9 DEF Tracked, q
<1>11. Ended(s)'
  BY <1>1, <1>2, <1>5, ReachStays DEF Ended, FrameOnce, w
<1>12. OnceOK(s)'
  BY <1>2, <1>10, <1>11 DEF OnceOK, Selecting
<1> QED BY <1>1, <1>12, FrameOnceKeeps

LEMMA SkipCandidateOnce ==
  ASSUME LedgerAssumption, ScansInv, OnceInv, NEW s \in Scanner, SkipCandidate(s) PROVE OnceInv'
<1> DEFINE cand == Head(todo[s])
           r == Skipped(cand.path, Capped(s, cand))
<1>1. FrameOnce(s)
  BY DEF ScansInv, ShapeOK, OnceInv, FrameOnce, UnmovedToo, SkipCandidate, agents, faults
<1>2. /\ pc[s] = "select" /\ pc'[s] = "select" /\ cfg'[s] = cfg[s] /\ walk'[s] = walk[s] /\ todo[s] # << >>
      /\ todo'[s] = Tail(todo[s]) /\ results'[s] = Append(results[s], r)
      /\ pending'[s] = pending[s] /\ file'[s] = file[s]
  BY DEF SkipCandidate, ScansInv, ShapeOK
<1>3. taken'[s].merged = taken[s].merged
  BY DEF SkipCandidate, OnceInv
<1>4. r.path = cand.path /\ "path" \in DOMAIN r
  <2> HIDE DEF cand
  <2>1. Fresh(r, cand.path)
    BY ResultFresh DEF Skipped
  <2> QED BY <2>1 DEF Fresh
<1>5. Balanced("select", results[s], todo[s], pending[s], taken[s].merged, file[s], walk[s].found)
  BY <1>2, OnceTracked DEF Selecting
<1> HIDE DEF r
<1>6. Balanced("select", Append(results[s], r), Tail(todo[s]), pending[s], taken[s].merged, file[s], walk[s].found)
  BY <1>2, <1>4, <1>5, BalanceResult
<1> QED BY <1>1, <1>2, <1>3, <1>6, TrackKeeps DEF Selecting
\* What the cache replays for a candidate, like what an analysis says, is about its path.
LEMMA HitNamed ==
  ASSUME LedgerAssumption, ScansInv, NEW s \in Scanner, NEW f, f.ino \in DOMAIN Ledger, Leads(tree, f.path) = f.ino,
         NEW sha, sha # None, sha = Content(f.ino), CacheLookup(s, f.path, sha) # None
  PROVE  CacheLookup(s, f.path, sha).path = f.path /\ "path" \in DOMAIN CacheLookup(s, f.path, sha)
<1> DEFINE hit == CacheLookup(s, f.path, sha)
           i == f.ino
           path == f.path
<1>1. ClockOK /\ RowsOK
  BY DEF ScansInv
<1>2. version[i] \in During(s, i) /\ sha = Ledger[i][version[i]]
  BY <1>1, NowDuring
<1>3. i \in DOMAIN Ledger /\ Leads(tree, path) = i /\ CacheLookup(s, path, sha) # None
  OBVIOUS
<1> HIDE DEF i, path, hit
<1>4. CacheLookup(s, path, sha).path = path /\ Current(s, i, CacheLookup(s, path, sha))
  BY <1>1, <1>2, <1>3, HitCurrent
<1>5. PICK v : Unhit(hit, ScanSource(hit.path, Seen(i, v), cfg[s]))
  BY <1>4 DEF hit, path, Current
<1>6. Fresh(ScanSource(hit.path, Seen(i, v), cfg[s]), hit.path)
  BY SourceFresh
<1>7. "path" \in DOMAIN hit
  BY <1>5, <1>6 DEF Unhit, Fresh
<1> QED BY <1>4, <1>7 DEF hit, path

LEMMA SourceNamed ==
  ASSUME NEW path, NEW x, NEW c PROVE ScanSource(path, x, c).path = path /\ "path" \in DOMAIN ScanSource(path, x, c)
<1>1. Fresh(ScanSource(path, x, c), path)
  BY SourceFresh
<1> QED BY <1>1 DEF Fresh

LEMMA HashCandidateOnce ==
  ASSUME LedgerAssumption, ScansInv, OnceInv, NEW s \in Scanner, HashCandidate(s) PROVE OnceInv'
<1> DEFINE cand == Head(todo[s])
           sha  == IF cfg[s].incremental THEN Content(cand.ino) ELSE None
           hit  == IF sha = None THEN None ELSE CacheLookup(s, cand.path, sha)
           mine == [path |-> cand.path, ino |-> cand.ino, sha |-> sha, at |-> version[cand.ino]]
<1>1. FrameOnce(s)
  BY DEF ScansInv, ShapeOK, OnceInv, FrameOnce, UnmovedToo, HashCandidate, agents, faults
<1>2. /\ pc[s] = "select" /\ cfg'[s] = cfg[s] /\ walk'[s] = walk[s] /\ todo[s] # << >>
      /\ todo'[s] = Tail(todo[s]) /\ file'[s] = mine
      /\ results'[s] = IF hit = None THEN results[s] ELSE Append(results[s], hit)
      /\ pending'[s] = IF hit = None /\ cfg[s].jobs > 1 THEN Append(pending[s], mine) ELSE pending[s]
      /\ pc'[s] = IF hit = None /\ cfg[s].jobs = 1 THEN "check" ELSE pc[s]
  <2>1. /\ s \in DOMAIN pc /\ s \in DOMAIN walk /\ s \in DOMAIN todo /\ s \in DOMAIN file
        /\ s \in DOMAIN results /\ s \in DOMAIN pending
    BY DEF ScansInv, ShapeOK
  <2> QED BY <2>1 DEF HashCandidate
<1>3. taken'[s].merged = taken[s].merged
  BY DEF HashCandidate, OnceInv
<1>4. cfg[s].jobs \in Nat \ {0}
  BY DEF ScansInv, ChosenOK
<1>5. Balanced("select", results[s], todo[s], pending[s], taken[s].merged, file[s], walk[s].found)
  BY <1>2, OnceTracked DEF Selecting
<1>6. cand.ino \in DOMAIN Ledger /\ Leads(tree, cand.path) = cand.ino
  <2>1. SelectOK(s) /\ SomeSeq(todo[s])
    BY <1>2, AtSelect DEF Selecting, SelectOK
  <2>2. cand \in Range(todo[s])
    BY <1>2, <2>1, Rest
  <2> QED BY <2>1, <2>2 DEF SelectOK, FoundOK
<1>7. hit # None => hit.path = cand.path /\ "path" \in DOMAIN hit
  <2> HAVE hit # None
  <2>1. sha # None /\ hit = CacheLookup(s, cand.path, sha) /\ sha = Content(cand.ino)
    OBVIOUS
  <2> HIDE DEF hit, sha, cand
  <2> QED BY <1>6, <2>1, HitNamed
<1>8. mine.path = cand.path
  OBVIOUS
<1> HIDE DEF mine, hit, sha
<1>9. CASE hit # None
  <2>1. Balanced("select", Append(results[s], hit), Tail(todo[s]), pending[s], taken[s].merged, mine, walk[s].found)
    BY <1>2, <1>5, <1>7, <1>9, BalanceResult
  <2>2. /\ pc'[s] = "select" /\ results'[s] = Append(results[s], hit) /\ todo'[s] = Tail(todo[s])
        /\ pending'[s] = pending[s] /\ file'[s] = mine
    BY <1>2, <1>9
  <2> QED BY <1>1, <1>2, <1>3, <2>1, <2>2, TrackKeeps DEF Selecting
<1>10. CASE hit = None /\ cfg[s].jobs > 1
  <2>1. Balanced("select", results[s], Tail(todo[s]), Append(pending[s], mine), taken[s].merged, mine, walk[s].found)
    BY <1>2, <1>5, <1>8, BalanceWaiting
  <2>2. /\ pc'[s] = "select" /\ results'[s] = results[s] /\ todo'[s] = Tail(todo[s])
        /\ pending'[s] = Append(pending[s], mine) /\ file'[s] = mine
    BY <1>2, <1>4, <1>10
  <2> QED BY <1>1, <1>2, <1>3, <2>1, <2>2, TrackKeeps DEF Selecting
<1>11. CASE hit = None /\ cfg[s].jobs = 1
  <2>1. Balanced("check", results[s], Tail(todo[s]), pending[s], taken[s].merged, mine, walk[s].found)
    BY <1>2, <1>5, <1>8, BalanceHand
  <2>2. /\ pc'[s] = "check" /\ results'[s] = results[s] /\ todo'[s] = Tail(todo[s])
        /\ pending'[s] = pending[s] /\ file'[s] = mine
    BY <1>2, <1>11
  <2> QED BY <1>1, <1>2, <1>3, <2>1, <2>2, TrackKeeps DEF Selecting
<1>12. cfg[s].jobs > 1 \/ cfg[s].jobs = 1
  BY <1>4
<1> QED BY <1>9, <1>10, <1>11, <1>12

LEMMA CheckCandidateOnce ==
  ASSUME LedgerAssumption, ScansInv, OnceInv, NEW s \in Scanner, CheckCandidate(s) PROVE OnceInv'
<1>1. FrameOnce(s)
  BY DEF ScansInv, ShapeOK, OnceInv, FrameOnce, UnmovedToo, CheckCandidate, agents, faults
<1>2. /\ pc[s] = "check" /\ pc'[s] = "select" /\ cfg'[s] = cfg[s] /\ walk'[s] = walk[s] /\ todo'[s] = todo[s]
      /\ pending'[s] = pending[s] /\ file'[s] = file[s]
  <2>1. s \in DOMAIN pc
    BY DEF ScansInv, ShapeOK
  <2> QED BY <2>1 DEF CheckCandidate
<1>21. PICK v, r : r = ScanSource(file[s].path, Seen(file[s].ino, v), cfg[s]) /\ results'[s] = Append(results[s], r)
  <2>1. s \in DOMAIN results
    BY DEF ScansInv, ShapeOK
  <2> QED BY <2>1 DEF CheckCandidate
<1>3. taken'[s].merged = taken[s].merged
  BY DEF CheckCandidate, OnceInv
<1>4. r.path = file[s].path /\ "path" \in DOMAIN r
  BY <1>21, SourceNamed
<1>5. Balanced("check", results[s], todo[s], pending[s], taken[s].merged, file[s], walk[s].found)
  BY <1>2, OnceTracked DEF Selecting
<1>6. Balanced("select", Append(results[s], r), todo[s], pending[s], taken[s].merged, file[s], walk[s].found)
  BY <1>4, <1>5, BalanceChecked
<1> QED BY <1>1, <1>2, <1>21, <1>3, <1>6, TrackKeeps DEF Selecting

LEMMA EndSelectionOnce ==
  ASSUME LedgerAssumption, ScansInv, OnceInv, NEW s \in Scanner, EndSelection(s) PROVE OnceInv'
<1>1. FrameOnce(s)
  BY DEF ScansInv, ShapeOK, OnceInv, FrameOnce, UnmovedToo, EndSelection, agents, faults
<1>2. /\ pc[s] = "select" /\ pc'[s] = (IF pending[s] # << >> THEN "pool" ELSE "merged") /\ cfg'[s] = cfg[s]
      /\ walk'[s] = walk[s] /\ todo'[s] = todo[s] /\ results'[s] = results[s] /\ pending'[s] = pending[s]
      /\ file'[s] = file[s] /\ taken'[s] = taken[s] /\ todo[s] = << >>
  BY DEF EndSelection, ScansInv, ShapeOK
<1>3. Balanced("select", results[s], todo[s], pending[s], taken[s].merged, file[s], walk[s].found)
  BY <1>2, OnceTracked DEF Selecting
<1>4. Balanced(pc'[s], results[s], todo[s], pending[s], taken[s].merged, file[s], walk[s].found)
  BY <1>2, <1>3, BalanceSelected
<1>5. pc[s] \in Selecting /\ pc'[s] \in Selecting
  BY <1>2 DEF Selecting
<1> QED BY <1>1, <1>2, <1>4, <1>5, TrackKeeps

LEMMA MergeOnce ==
  ASSUME LedgerAssumption, ScansInv, OnceInv, NEW s \in Scanner, Merge(s) PROVE OnceInv'
<1> DEFINE m == taken[s].merged
           r == wires[s][m + 1].result
<1>1. FrameOnce(s)
  BY DEF ScansInv, ShapeOK, OnceInv, FrameOnce, UnmovedToo, Merge, agents, faults
<1>2. /\ pc[s] = "pool" /\ cfg'[s] = cfg[s] /\ walk'[s] = walk[s] /\ todo'[s] = todo[s] /\ file'[s] = file[s]
      /\ pending'[s] = pending[s] /\ results'[s] = Append(results[s], r)
      /\ m + 1 \in DOMAIN wires[s] /\ r # None
      /\ pc'[s] = IF m + 1 = Len(pending[s]) THEN "merged" ELSE "pool"
  <2>1. s \in DOMAIN pc /\ s \in DOMAIN results
    BY DEF ScansInv, ShapeOK
  <2> QED BY <2>1 DEF Merge
<1>3. taken'[s].merged = m + 1
  <2>1. taken' = [taken EXCEPT ![s].scanned = @ + 1, ![s].merged = m + 1] /\ s \in DOMAIN taken
    BY DEF Merge, OnceInv
  <2>2. "merged" \in DOMAIN taken[s]
    BY DEF OnceInv
  <2> QED BY <2>1, <2>2
<1>4. SomeSeq(pending[s]) /\ SomeSeq(wires[s]) /\ Len(wires[s]) <= Len(pending[s]) /\ WireOK(s, pending[s][m + 1], wires[s][m + 1])
  BY <1>2, AtSelect DEF Selecting, SelectOK
<1>5. m + 1 \in DOMAIN pending[s]
  <2>1. /\ DOMAIN wires[s] = 1..Len(wires[s]) /\ Len(wires[s]) \in Nat
        /\ DOMAIN pending[s] = 1..Len(pending[s]) /\ Len(pending[s]) \in Nat
    BY <1>4, Appended
  <2> HIDE DEF m
  <2> QED BY <1>2, <1>4, <2>1
<1>6. r.path = pending[s][m + 1].path /\ "path" \in DOMAIN r
  <2>1. \E v : r = ScanSource(pending[s][m + 1].path, Seen(pending[s][m + 1].ino, v), cfg[s])
    BY <1>2, <1>4 DEF WireOK
  <2> HIDE DEF r, m
  <2> QED BY <2>1, SourceNamed
<1>7. Balanced("pool", results[s], todo[s], pending[s], m, file[s], walk[s].found)
  BY <1>2, OnceTracked DEF Selecting
<1> HIDE DEF r, m
<1>8. Balanced(pc'[s], Append(results[s], r), todo[s], pending[s], m + 1, file[s], walk[s].found)
  BY <1>2, <1>5, <1>6, <1>7, BalanceMerged
<1>9. pc[s] \in Selecting /\ pc'[s] \in Selecting
  BY <1>2 DEF Selecting
<1> QED BY <1>1, <1>2, <1>3, <1>8, <1>9, TrackKeeps

LEMMA FinishOnce ==
  ASSUME LedgerAssumption, ScansInv, OnceInv, NEW s \in Scanner, Finish(s) PROVE OnceInv'
<1> DEFINE q == CrossFile(results[s], World(s), cfg[s])
<1>1. FrameOnce(s)
  BY DEF ScansInv, ShapeOK, OnceInv, FrameOnce, UnmovedToo, Finish, agents, faults
<1>2. /\ pc[s] = "merged" /\ pc'[s] = "done" /\ cfg'[s] = cfg[s] /\ walk'[s] = walk[s] /\ report'[s] = q
  BY DEF Finish, ScansInv, ShapeOK, OnceInv
<1>3. Balanced("merged", results[s], todo[s], pending[s], taken[s].merged, file[s], walk[s].found) /\ Ended(s)
  BY <1>2, OnceTracked DEF Selecting, OnceInv, OnceOK
<1>4. SamePaths(results[s], results[s])
  BY <1>3 DEF Balanced, SamePaths, Range
<1>5. SamePaths(q, results[s])
  BY <1>4, CrossSame
<1>6. NoTwice(q) /\ Paths(q) = Paths(results[s])
  BY <1>3, <1>5, SameOnce DEF Balanced
<1>7. Paths(walk[s].found) \subseteq Paths(results[s])
  <2>1. todo[s] = << >> /\ Unmerged(pending[s], taken[s].merged) = {}
    BY <1>3 DEF Balanced
  <2>2. Paths(todo[s]) = {}
    BY <2>1 DEF Paths, Range
  <2> QED BY <1>3, <2>1, <2>2 DEF Balanced
<1> HIDE DEF q
<1>8. Reported(s)'
  BY <1>2, <1>6, <1>7 DEF Reported
<1>9. Ended(s)'
  BY <1>1, <1>2, <1>3, ReachStays DEF Ended, FrameOnce
<1>10. OnceOK(s)'
  BY <1>2, <1>8, <1>9 DEF OnceOK, Selecting
<1> QED BY <1>1, <1>10, FrameOnceKeeps

LEMMA AwayOnce ==
  ASSUME LedgerAssumption, ScansInv, OnceInv, NEW s \in Scanner, Cancel(s) \/ StartSingle(s) \/ FinishSingle(s) PROVE OnceInv'
<1>1. CASE Cancel(s)
  <2>1. FrameOnce(s)
    BY <1>1 DEF ScansInv, ShapeOK, OnceInv, FrameOnce, UnmovedToo, Cancel, Leave, NothingTaken, agents, faults
  <2>2. pc'[s] = "cancelled"
    BY <1>1 DEF Cancel, ScansInv, ShapeOK
  <2>3. OnceOK(s)'
    BY <2>2 DEF OnceOK, Selecting
  <2> QED BY <2>1, <2>3, FrameOnceKeeps
<1>2. CASE StartSingle(s)
  <2>1. FrameOnce(s)
    BY <1>2 DEF ScansInv, ShapeOK, ChosenOK, OnceInv, FrameOnce, UnmovedToo, StartSingle, agents, faults
  <2>2. pc'[s] = "single"
    BY <1>2 DEF StartSingle, ScansInv, ShapeOK
  <2>3. OnceOK(s)'
    BY <2>2 DEF OnceOK, Selecting
  <2> QED BY <2>1, <2>3, FrameOnceKeeps
<1>3. CASE FinishSingle(s)
  <2>1. FrameOnce(s)
    BY <1>3 DEF ScansInv, ShapeOK, OnceInv, FrameOnce, UnmovedToo, FinishSingle, agents, faults
  <2>2. pc'[s] = "done" /\ cfg'[s] = cfg[s] /\ pc[s] = "single"
    BY <1>3 DEF FinishSingle, ScansInv, ShapeOK
  <2>3. cfg[s].single # None
    BY <2>2 DEF ScansInv, ScanOK
  <2>4. OnceOK(s)'
    BY <2>2, <2>3 DEF OnceOK, Selecting
  <2> QED BY <2>1, <2>4, FrameOnceKeeps
<1> QED BY <1>1, <1>2, <1>3

LEMMA StartOnce ==
  ASSUME LedgerAssumption, ScansInv, OnceInv, NEW s \in Scanner, Start(s) PROVE OnceInv'
<1> DEFINE w == [NoWalk EXCEPT !.stack = <<[ino |-> tree.root, path |-> << >>]>>, !.visited = {tree.root}]
<1>1. FrameOnce(s)
  BY DEF ScansInv, ShapeOK, ChosenOK, OnceInv, FrameOnce, UnmovedToo, Start, agents, faults
<1>2. pc[s] = "idle" /\ pc'[s] = "walk" /\ walk'[s] = w /\ taken'[s] = taken[s] /\ tree' = tree
  BY DEF Start, ScansInv, ShapeOK
<1>3. Covers(cfg'[s], w)
  <2> DEFINE v == w
  <2>1. TreeOK /\ v = w
    BY DEF ScansInv
  <2> QED BY <2>1, FirstCovers
<1> HIDE DEF w
<1>4. Covers(cfg[s], walk[s])'
  BY <1>2, <1>3, ReachStays
<1>5. OnceOK(s)'
  BY <1>2, <1>4 DEF OnceOK, OnceInv, Selecting
<1> QED BY <1>1, <1>5, FrameOnceKeeps

\* What the workers, the cache and the baseline file have is not part of what is counted.
LEMMA AsideOnce ==
  ASSUME OnceInv, tree' = tree,
         UNCHANGED <<mtimes, writes, pc, cfg, walk, results, todo, file, pending, taken, report>>
  PROVE  OnceInv'
<1>1. \A s \in Scanner : OnceOK(s)'
  BY OnceStays DEF OnceInv, UnmovedToo
<1> QED BY <1>1 DEF OnceInv, TimesOK

LEMMA WriteOnce ==
  ASSUME OnceInv, NEW ino \in DOMAIN Ledger, Write(ino) PROVE OnceInv'
<1>1. /\ tree' = tree /\ UNCHANGED <<pc, cfg, walk, results, todo, file, pending, taken, report>>
      /\ writes' = writes + 1 /\ mtimes' = [mtimes EXCEPT ![ino] = writes']
  BY DEF Write, scans
<1>2. \A s \in Scanner : OnceOK(s)'
  BY <1>1, OnceStays DEF OnceInv, UnmovedToo
<1>3. writes' \in Nat
  BY <1>1 DEF OnceInv
<1>4. DOMAIN mtimes' = DOMAIN Ledger /\ TimesOK'
  BY <1>1, <1>3 DEF OnceInv, TimesOK
<1> QED BY <1>1, <1>2, <1>3, <1>4 DEF OnceInv

LEMMA InitOnce == ASSUME Init PROVE OnceInv
<1>1. \A s \in Scanner : pc[s] = "idle" /\ taken[s] = NothingTaken
  BY DEF Init
<1>2. \A s \in Scanner : OnceOK(s) /\ "merged" \in DOMAIN taken[s]
  BY <1>1 DEF OnceOK, Selecting, NothingTaken
<1> QED BY <1>2 DEF OnceInv, Init, TimesOK

LEMMA ScanStepOnce ==
  ASSUME LedgerAssumption, ScansInv, OnceInv, NEW s \in Scanner, ScanStep(s) PROVE OnceInv'
<1>1. CASE Start(s) \/ StartSingle(s) \/ FinishSingle(s) \/ Cancel(s)
  BY <1>1, StartOnce, AwayOnce
<1>2. CASE VisitDirectory(s) \/ VisitFails(s) \/ EndWalk(s)
  BY <1>2, VisitDirectoryOnce, VisitFailsOnce, EndWalkOnce
<1>3. CASE SkipCandidate(s) \/ HashCandidate(s) \/ CheckCandidate(s) \/ EndSelection(s)
  BY <1>3, SkipCandidateOnce, HashCandidateOnce, CheckCandidateOnce, EndSelectionOnce
<1>4. CASE Merge(s) \/ Finish(s)
  BY <1>4, MergeOnce, FinishOnce
<1>5. CASE WorkerTakes(s) \/ \E n \in DOMAIN wires[s] : WorkerReturns(s, n)
  BY <1>5, AsideOnce DEF WorkerTakes, WorkerReturns, agents
<1>6. CASE CacheFails(s) \/ WriteBaselineFile(s)
  BY <1>6, AsideOnce DEF CacheFails, WriteBaselineFile, agents, scans
<1> QED BY <1>1, <1>2, <1>3, <1>4, <1>5, <1>6 DEF ScanStep

LEMMA NextOnce ==
  ASSUME LedgerAssumption, ScansInv, OnceInv, [Next]_vars PROVE OnceInv'
<1>1. CASE AgentStep
  BY <1>1, WriteOnce DEF AgentStep
<1>2. CASE \E s \in Scanner : ScanStep(s)
  BY <1>2, ScanStepOnce
<1>3. CASE UNCHANGED vars
  BY <1>3, AsideOnce DEF vars, agents, scans
<1> QED BY <1>1, <1>2, <1>3 DEF Next

LEMMA InvOnce == ASSUME OnceInv PROVE EachFileOnce
<1> SUFFICES ASSUME NEW s \in Scanner, pc[s] = "done", cfg[s].single = None
             PROVE  LET found == walk[s].found
                        Once(x) == Cardinality({i \in DOMAIN report[s] : report[s][i].path = x}) = 1
                    IN /\ {found[i].ino : i \in DOMAIN found} = FilesReached(cfg[s])
                       /\ \A i, j \in DOMAIN found : found[i].ino = found[j].ino => i = j
                       /\ \A i \in DOMAIN report[s] : Once(report[s][i].path)
                       /\ \A i \in DOMAIN found : Once(found[i].path)
  BY DEF EachFileOnce, DoneTree, Done
<1> DEFINE found == walk[s].found
           Once(x) == Cardinality({i \in DOMAIN report[s] : report[s][i].path = x}) = 1
<1>1. Ended(s) /\ Reported(s)
  BY DEF OnceInv, OnceOK
<1>2. {found[i].ino : i \in DOMAIN found} = FilesReached(cfg[s])
  BY <1>1 DEF Ended, Range
<1>3. \A i, j \in DOMAIN found : found[i].ino = found[j].ino => i = j
  BY <1>1 DEF Ended
<1>4. ASSUME NEW i \in DOMAIN report[s] PROVE Once(report[s][i].path)
  <2>1. {j \in DOMAIN report[s] : report[s][j].path = report[s][i].path} = {i}
    BY <1>1 DEF Reported, NoTwice
  <2>2. Cardinality({i}) = 1
    BY FS_Singleton
  <2> QED BY <2>1, <2>2
<1>5. ASSUME NEW i \in DOMAIN found PROVE Once(found[i].path)
  <2>1. found[i].path \in Paths(report[s])
    BY <1>1 DEF Reported, Paths, Range
  <2>2. PICK j \in DOMAIN report[s] : found[i].path = report[s][j].path
    BY <2>1 DEF Paths, Range
  <2> QED BY <1>4, <2>2
<1> QED BY <1>2, <1>3, <1>4, <1>5

\* Whatever links, loops, second names and closed directories a tree has, whatever
\* the caps, the jobs and the luck with the cache, and whatever else goes on: a scan
\* that ends has looked at every file it can reach, by one name, and at no other, and
\* has one result for it and for every path it speaks of (scan.py:scan_path).
THEOREM FilesOnce == Spec => []EachFileOnce
<1> USE ScanAssumption
<1>1. Init => ScansInv /\ OnceInv
  BY InitKeeps, InitOnce
<1>2. ScansInv /\ OnceInv /\ [Next]_vars => (ScansInv /\ OnceInv)'
  BY NextKeeps, NextOnce DEF ScanAssumption
<1>3. OnceInv => EachFileOnce
  BY InvOnce
<1> QED BY <1>1, <1>2, <1>3, PTL DEF Spec

\* The fold that sorts paths.
Take(paths, unused, q, p) == IF p \in paths THEN Append(q, p) ELSE q
Sorting == INSTANCE FoldFacts WITH Op <- Take

-----------------------------------------------------------------------------
(* Sequences.                                                              *)

Once(q) == SomeSeq(q) /\ \A i, j \in DOMAIN q : q[i] = q[j] => i = j

LEMMA AppendOnce ==
  ASSUME NEW q, Once(q), NEW x, x \notin Range(q)
  PROVE  Once(Append(q, x))
<1> DEFINE a == Append(q, x)
<1>1. /\ SomeSeq(a) /\ Len(q) \in Nat /\ DOMAIN q = 1..Len(q) /\ DOMAIN a = 1..(Len(q) + 1)
      /\ \A i \in DOMAIN q : a[i] = q[i]
      /\ a[Len(q) + 1] = x
  BY Appended DEF Once
<1> HIDE DEF a
<1>2. ASSUME NEW i \in DOMAIN a, NEW j \in DOMAIN a, a[i] = a[j] PROVE i = j
  <2>1. \A k \in DOMAIN a : k \in DOMAIN q \/ k = Len(q) + 1
    BY <1>1
  <2>2. \A k \in DOMAIN q : a[k] # x
    BY <1>1 DEF Range
  <2>3. \A k, l \in DOMAIN q : a[k] = a[l] => k = l
    BY <1>1 DEF Once
  <2> QED BY <1>1, <1>2, <2>1, <2>2, <2>3
<1> QED BY <1>1, <1>2 DEF Once, a

LEMMA TailOnce ==
  ASSUME NEW q, Once(q), q # << >>
  PROVE  Once(Tail(q)) /\ Range(Tail(q)) \subseteq Range(q) /\ Head(q) \notin Range(Tail(q)) /\ Head(q) \in Range(q)
<1>1. PICK S : q \in Seq(S)
  BY DEF Once, SomeSeq
<1>2. Len(q) \in Nat \ {0} /\ DOMAIN q = 1..Len(q) /\ Head(q) = q[1]
  BY <1>1
<1> DEFINE t == Tail(q)
<1>3. t \in Seq(S) /\ Len(t) = Len(q) - 1 /\ \A i \in 1..(Len(q) - 1) : t[i] = q[i + 1]
  BY <1>1, <1>2
<1>4. DOMAIN t = 1..(Len(q) - 1)
  BY <1>2, <1>3
<1>5. SomeSeq(t) /\ Range(t) \subseteq Range(q) /\ Head(q) \in Range(q)
  BY Rest DEF Once
<1> HIDE DEF t
<1>6. \A i \in DOMAIN t : i \in Nat /\ i + 1 \in DOMAIN q /\ i + 1 # 1 /\ t[i] = q[i + 1]
  BY <1>2, <1>3, <1>4
<1>7. 1 \in DOMAIN q
  BY <1>2
<1>8. ASSUME NEW i \in DOMAIN t, NEW j \in DOMAIN t, t[i] = t[j] PROVE i = j
  <2>1. i + 1 = j + 1
    BY <1>6, <1>8 DEF Once
  <2> QED BY <1>6, <2>1
<1>9. \A i \in DOMAIN t : t[i] # Head(q)
  BY <1>2, <1>6, <1>7 DEF Once
<1> QED BY <1>5, <1>8, <1>9 DEF Once, Range, t

\* A sorted list has each of the paths at most once, and no others.
LEMMA SortedOnce ==
  ASSUME BatchAssumption, NEW paths
  PROVE  Once(Sorted(paths)) /\ Range(Sorted(paths)) \subseteq paths
<1> DEFINE k == Len(PathOrder)
<1>1. Sorted(paths) = Sorting!Fold(paths, None, << >>, PathOrder)
  BY DEF Sorted, Take, Sorting!Fold, FoldLeft, MapThenFoldSet, Sorting!MapThenFoldSet,
         Max, Sorting!Max
<1>2. /\ DOMAIN PathOrder = 1..k /\ k \in Nat
      /\ \A i, j \in DOMAIN PathOrder : PathOrder[i] = PathOrder[j] => i = j
  BY DEF BatchAssumption, PathsAssumption
<1>3. PICK at : Sorting!Turns(paths, None, << >>, PathOrder, at) /\ at[k] = Sorting!Fold(paths, None, << >>, PathOrder)
  BY <1>2, Sorting!FoldTurns
<1> HIDE DEF k
<1>4. at[0] = << >> /\ \A n \in Nat : n < k => at[n + 1] = Take(paths, None, at[n], PathOrder[n + 1])
  BY <1>3 DEF Sorting!Turns, k
<1> DEFINE S == {n \in Nat : n =< k => /\ Once(at[n]) /\ Range(at[n]) \subseteq paths
                                       /\ \A y \in Range(at[n]) : \E i \in 1..n : y = PathOrder[i]}
<1>5. 0 \in S
  <2>1. Once(<< >>) /\ Range(<< >>) = {}
    BY DEF Once, SomeSeq, Range
  <2> QED BY <1>4, <2>1
<1>6. ASSUME NEW n \in Nat, n \in S PROVE n + 1 \in S
  <2> SUFFICES ASSUME n + 1 =< k
               PROVE  /\ Once(at[n + 1]) /\ Range(at[n + 1]) \subseteq paths
                      /\ \A y \in Range(at[n + 1]) : \E i \in 1..(n + 1) : y = PathOrder[i]
    OBVIOUS
  <2> DEFINE x == PathOrder[n + 1]
             q == at[n]
  <2>1. /\ Once(q) /\ Range(q) \subseteq paths
        /\ \A y \in Range(q) : \E i \in 1..n : y = PathOrder[i]
        /\ at[n + 1] = Take(paths, None, q, x)
    BY <1>2, <1>4, <1>6
  <2>2. \A i \in 1..n : i \in 1..(n + 1) /\ i \in DOMAIN PathOrder /\ i # n + 1 /\ n + 1 \in DOMAIN PathOrder
    BY <1>2
  <2>3. x \notin Range(q) /\ n + 1 \in 1..(n + 1)
    BY <1>2, <2>1, <2>2
  <2>4. CASE x \in paths
    <3>1. at[n + 1] = Append(q, x)
      BY <2>1, <2>4 DEF Take
    <3>2. Once(Append(q, x)) /\ Range(Append(q, x)) = Range(q) \cup {x}
      <4> HIDE DEF x, q
      <4> QED BY <2>1, <2>3, AppendOnce, Appended DEF Once
    <3> QED BY <2>1, <2>2, <2>3, <2>4, <3>1, <3>2
  <2>5. CASE x \notin paths
    <3>1. at[n + 1] = q
      BY <2>1, <2>5 DEF Take
    <3> QED BY <2>1, <2>2, <3>1
  <2> QED BY <2>4, <2>5
<1>7. Nat \subseteq S
  <2> HIDE DEF S
  <2> QED BY <1>5, <1>6, Sorting!NatSet
<1>8. k \in S
  BY <1>2, <1>7
<1> QED BY <1>1, <1>2, <1>3, <1>8

-----------------------------------------------------------------------------
(* The inductive invariant.                                                *)

\* Between the choice of a file and its row.
InHand == {"planned", "clear", "claimed", "published", "copied"}

\* A path that is a file resolves to one that None is not.
TreeNamed ==
  /\ None \notin tree.files
  /\ \A d \in DOMAIN tree.dirs : \A e \in Range(tree.dirs[d]) :
       e.ino \in DOMAIN Ledger => \E p \in tree.files : InodeAt(p) = e.ino

Functions ==
  /\ DOMAIN turn = Batcher /\ DOMAIN hand = Batcher /\ DOMAIN left = Batcher
  /\ DOMAIN told = Batcher /\ DOMAIN assigned = Batcher

\* Every output has a receipt; it has a name that its batch gave out, and a name
\* with a digest is that of its source.
Accounted(o) ==
  Holds(adjacent, o, outputs[o]) \/ Holds(receipts, outputs[o].src, outputs[o])
NamedBy(o, b) == outputs[o].by = b => o \in assigned[b] /\ o.digest \in {None, outputs[o].src}
OutputsOK == \A o \in DOMAIN outputs : Accounted(o) /\ \A b \in Batcher : NamedBy(o, b)

\* What a row says stays true.
RepairedOK(b, r) ==
  r.outcome = "repaired" =>
    /\ r.out \in DOMAIN outputs /\ outputs[r.out].by = b /\ outputs[r.out].src = Resolve(r.path)
    /\ r.receipt = "adjacent" => Holds(adjacent, r.out, outputs[r.out])
    /\ r.receipt = "relocated" => Holds(receipts, Resolve(r.path), outputs[r.out])
RefusedOK(b, r) ==
  r.reason = "exists" =>
    /\ r.out \in assigned[b] /\ r.out.digest \in {None, Resolve(r.path)}
    /\ r.out \in DOMAIN outputs => outputs[r.out].by # b \/ outputs[r.out].src = Resolve(r.path)
RowTrue(b, r) == RepairedOK(b, r) /\ RefusedOK(b, r)

\* The file in hand, and who owns its output and its manifest.
HandOK(b) ==
  turn[b] \in InHand =>
    LET h == hand[b]
    IN /\ left[b] # << >>
       /\ h.by = b /\ h.src = Resolve(Head(left[b]))
       /\ h.out \in assigned[b] /\ h.out.digest \in {None, h.src}
       /\ h.out.digest = None => \A r \in Range(told[b]) : r.reason = "exists" => r.out # h.out
       /\ turn[b] = "planned" /\ h.out \in DOMAIN outputs =>
            outputs[h.out].by # b \/ outputs[h.out].src = h.src
       /\ turn[b] \in {"clear", "claimed"} /\ h.out \in DOMAIN outputs => outputs[h.out].by # b
       /\ turn[b] \in {"claimed", "published", "copied"} => Holds(adjacent, h.out, h)
       /\ turn[b] \in {"published", "copied"} =>
            /\ Holds(outputs, h.out, h)
            /\ \A r \in Range(told[b]) : r.outcome = "repaired" => r.out # h.out
       /\ turn[b] = "copied" => Holds(receipts, h.src, h)

\* The rows of a batch, and the files still to come.
Apart(q) == \A i, j \in DOMAIN q : q[i].path = q[j].path /\ (Lost(q[i]) <=> Lost(q[j])) => i = j
Ahead(b) ==
  turn[b] \notin {"idle", "done"} =>
    /\ Once(left[b])
    /\ \A r \in Range(told[b]) : ~ Lost(r) /\ r.path \notin Range(left[b])
ListOK(b) ==
  /\ SomeSeq(told[b]) /\ Apart(told[b])
  /\ turn[b] = "idle" => told[b] = << >>
  /\ Ahead(b)

BatchOK(b) == ListOK(b) /\ HandOK(b) /\ \A r \in Range(told[b]) : RowTrue(b, r)

BatchInv == TreeNamed /\ Functions /\ OutputsOK /\ \A b \in Batcher : BatchOK(b)

-----------------------------------------------------------------------------
(* What the other batches see of a step.                                   *)

\* Outputs and receipts are never lost or replaced; a manifest goes only when the
\* batch that claimed it takes it away.
Shares(b) ==
  LET h == hand[b]
  IN /\ \A o \in DOMAIN outputs : Holds(outputs', o, outputs[o])
     /\ \A o \in DOMAIN outputs' :
          o \in DOMAIN outputs \/ (/\ turn[b] = "claimed" /\ o = h.out /\ outputs'[o] = h
                                   /\ adjacent' = adjacent)
     /\ \A x \in DOMAIN receipts : Holds(receipts', x, receipts[x])
     /\ \A o \in DOMAIN adjacent :
          Holds(adjacent', o, adjacent[o]) \/ (turn[b] \in {"claimed", "copied"} /\ o = h.out)

Own(b) ==
  /\ tree' = tree
  /\ DOMAIN turn' = Batcher /\ DOMAIN hand' = Batcher /\ DOMAIN left' = Batcher
  /\ DOMAIN told' = Batcher /\ DOMAIN assigned' = Batcher
  /\ assigned[b] \subseteq assigned'[b]
  /\ \A c \in Batcher : c # b =>
       /\ turn'[c] = turn[c] /\ hand'[c] = hand[c] /\ left'[c] = left[c]
       /\ told'[c] = told[c] /\ assigned'[c] = assigned[c]

LEMMA ResolveSame ==
  ASSUME tree' = tree PROVE (\A p : Resolve(p)' = Resolve(p)) /\ (TreeNamed => TreeNamed')
<1>1. \A p : InodeAt(p)' = InodeAt(p)
  BY DEF InodeAt, EntryAt, EntryIn
<1>2. \A p : Resolve(p)' = Resolve(p)
  BY DEF Resolve, InodeAt, EntryAt, EntryIn
<1>3. TreeNamed => TreeNamed'
  BY <1>1 DEF TreeNamed
<1> QED BY <1>2, <1>3

LEMMA OutputsKeep ==
  ASSUME BatchInv, NEW b \in Batcher, Shares(b), Own(b)
  PROVE  OutputsOK'
<1>1. HandOK(b) /\ OutputsOK
  BY DEF BatchInv, BatchOK
<1>2. \A c \in Batcher : assigned[c] \subseteq assigned'[c]
  BY DEF Own
<1>3. ASSUME NEW o \in DOMAIN outputs' PROVE Accounted(o)'
  <2>1. CASE o \in DOMAIN outputs
    <3>1. outputs'[o] = outputs[o] /\ Accounted(o)
      BY <1>1, <2>1 DEF Shares, Holds, OutputsOK
    <3>2. CASE Holds(receipts, outputs[o].src, outputs[o])
      BY <3>1, <3>2 DEF Shares, Holds, Accounted
    <3>3. CASE Holds(adjacent, o, outputs[o]) /\ Holds(adjacent', o, adjacent[o])
      BY <3>1, <3>3 DEF Holds, Accounted
    <3>4. CASE /\ Holds(adjacent, o, outputs[o]) /\ ~ Holds(adjacent', o, adjacent[o])
               /\ ~ Holds(receipts, outputs[o].src, outputs[o])
      <4>1. turn[b] \in {"claimed", "copied"} /\ o = hand[b].out
        BY <3>4 DEF Shares, Holds
      <4>2. adjacent[o] = hand[b] /\ hand[b].by = b
        BY <1>1, <4>1 DEF HandOK, InHand, Holds
      <4>3. outputs[o] = hand[b]
        BY <3>4, <4>2 DEF Holds
      <4>4. turn[b] = "copied"
        BY <1>1, <2>1, <4>1, <4>2, <4>3 DEF HandOK, InHand
      <4>5. Holds(receipts, hand[b].src, hand[b])
        BY <1>1, <4>4 DEF HandOK, InHand
      <4> QED BY <3>4, <4>3, <4>5
    <3> QED BY <3>1, <3>2, <3>3, <3>4 DEF Accounted
  <2>2. CASE o \notin DOMAIN outputs
    <3>1. turn[b] = "claimed" /\ o = hand[b].out /\ outputs'[o] = hand[b] /\ adjacent' = adjacent
      BY <2>2 DEF Shares
    <3>2. Holds(adjacent, o, hand[b])
      BY <1>1, <3>1 DEF HandOK, InHand
    <3> QED BY <3>1, <3>2 DEF Holds, Accounted
  <2> QED BY <2>1, <2>2
<1>4. ASSUME NEW o \in DOMAIN outputs', NEW c \in Batcher PROVE NamedBy(o, c)'
  <2>1. CASE o \in DOMAIN outputs
    <3>1. outputs'[o] = outputs[o] /\ NamedBy(o, c)
      BY <1>1, <2>1 DEF Shares, Holds, OutputsOK
    <3> QED BY <1>2, <3>1 DEF NamedBy
  <2>2. CASE o \notin DOMAIN outputs
    <3>1. turn[b] = "claimed" /\ o = hand[b].out /\ outputs'[o] = hand[b]
      BY <2>2 DEF Shares
    <3>2. hand[b].by = b /\ o \in assigned[b] /\ o.digest \in {None, hand[b].src}
      BY <1>1, <3>1 DEF HandOK, InHand
    <3> QED BY <1>2, <3>1, <3>2 DEF NamedBy
  <2> QED BY <2>1, <2>2
<1> QED BY <1>3, <1>4 DEF OutputsOK

\* A row of any batch, told before the step.
LEMMA RowsKeep ==
  ASSUME BatchInv, NEW b \in Batcher, Shares(b), Own(b), NEW c \in Batcher
  PROVE  \A r : r \in Range(told[c]) /\ RowTrue(c, r) => RowTrue(c, r)'
<1> SUFFICES ASSUME NEW r, r \in Range(told[c]), RowTrue(c, r) PROVE RowTrue(c, r)'
  OBVIOUS
<1>1. HandOK(b) /\ Resolve(r.path)' = Resolve(r.path) /\ assigned[c] \subseteq assigned'[c]
  BY ResolveSame DEF BatchInv, BatchOK, Own
<1>2. ASSUME r.outcome = "repaired" PROVE RepairedOK(c, r)'
  <2>1. /\ r.out \in DOMAIN outputs /\ outputs[r.out].by = c /\ outputs[r.out].src = Resolve(r.path)
        /\ r.receipt = "adjacent" => Holds(adjacent, r.out, outputs[r.out])
        /\ r.receipt = "relocated" => Holds(receipts, Resolve(r.path), outputs[r.out])
    BY <1>2 DEF RowTrue, RepairedOK
  <2>2. Holds(outputs', r.out, outputs[r.out])
    BY <2>1 DEF Shares
  <2>3. ASSUME r.receipt = "adjacent" PROVE Holds(adjacent', r.out, outputs[r.out])
    <3>1. Holds(adjacent, r.out, outputs[r.out])
      BY <2>1, <2>3
    <3>2. CASE Holds(adjacent', r.out, adjacent[r.out])
      BY <3>1, <3>2 DEF Holds
    <3>3. CASE turn[b] \in {"claimed", "copied"} /\ r.out = hand[b].out
      <4>1. adjacent[r.out] = hand[b] /\ hand[b].by = b
        BY <1>1, <3>3 DEF HandOK, InHand, Holds
      <4>2. c = b
        BY <2>1, <3>1, <4>1 DEF Holds
      <4>3. turn[b] = "copied"
        BY <1>1, <2>1, <3>3, <4>2 DEF HandOK, InHand
      <4>4. \A x \in Range(told[b]) : x.outcome = "repaired" => x.out # hand[b].out
        BY <1>1, <4>3 DEF HandOK, InHand
      <4> QED BY <1>2, <3>3, <4>2, <4>4
    <3> QED BY <3>1, <3>2, <3>3 DEF Shares, Holds
  <2>4. ASSUME r.receipt = "relocated" PROVE Holds(receipts', Resolve(r.path), outputs[r.out])
    BY <2>1, <2>4 DEF Shares, Holds
  <2> QED BY <1>1, <2>1, <2>2, <2>3, <2>4 DEF RepairedOK, Holds
<1>3. ASSUME r.reason = "exists" PROVE RefusedOK(c, r)'
  <2>1. /\ r.out \in assigned[c] /\ r.out.digest \in {None, Resolve(r.path)}
        /\ r.out \in DOMAIN outputs => outputs[r.out].by # c \/ outputs[r.out].src = Resolve(r.path)
    BY <1>3 DEF RowTrue, RefusedOK
  <2>2. ASSUME r.out \in DOMAIN outputs', outputs'[r.out].by = c PROVE outputs'[r.out].src = Resolve(r.path)
    <3>1. CASE r.out \in DOMAIN outputs
      BY <2>1, <2>2, <3>1 DEF Shares, Holds
    <3>2. CASE r.out \notin DOMAIN outputs
      <4>1. turn[b] = "claimed" /\ r.out = hand[b].out /\ outputs'[r.out] = hand[b]
        BY <2>2, <3>2 DEF Shares
      <4>2. hand[b].by = b
        BY <1>1, <4>1 DEF HandOK, InHand
      <4>3. c = b
        BY <2>2, <4>1, <4>2
      <4>4. hand[b].out.digest # None /\ hand[b].out.digest \in {None, hand[b].src}
        BY <1>1, <1>3, <4>1, <4>3 DEF HandOK, InHand
      <4> QED BY <2>1, <4>1, <4>4
    <3> QED BY <3>1, <3>2
  <2> QED BY <1>1, <2>1, <2>2 DEF RefusedOK
<1> QED BY <1>2, <1>3 DEF RowTrue, RepairedOK, RefusedOK

\* The batches that do not take the step.
LEMMA OthersKeep ==
  ASSUME BatchInv, NEW b \in Batcher, Shares(b), Own(b), NEW c \in Batcher, c # b
  PROVE  BatchOK(c)'
<1>1. /\ turn'[c] = turn[c] /\ hand'[c] = hand[c] /\ left'[c] = left[c]
      /\ told'[c] = told[c] /\ assigned'[c] = assigned[c]
  BY DEF Own
<1>2. HandOK(b) /\ BatchOK(c) /\ \A p : Resolve(p)' = Resolve(p)
  BY ResolveSame DEF BatchInv, BatchOK, Own
<1>3. ListOK(c)'
  BY <1>1, <1>2 DEF BatchOK, ListOK, Ahead
<1>4. \A r : r \in Range(told[c]) /\ RowTrue(c, r) => RowTrue(c, r)'
  BY RowsKeep
<1>5. \A r \in Range(told'[c]) : RowTrue(c, r)'
  BY <1>1, <1>2, <1>4 DEF BatchOK
<1>6. HandOK(c)'
  <2> DEFINE h == hand[c]
  <2> SUFFICES ASSUME turn[c] \in InHand PROVE HandOK(c)'
    BY <1>1 DEF HandOK
  <2>1. /\ left[c] # << >> /\ h.by = c /\ h.src = Resolve(Head(left[c]))
        /\ h.out \in assigned[c] /\ h.out.digest \in {None, h.src}
        /\ h.out.digest = None => \A r \in Range(told[c]) : r.reason = "exists" => r.out # h.out
        /\ turn[c] = "planned" /\ h.out \in DOMAIN outputs =>
             outputs[h.out].by # c \/ outputs[h.out].src = h.src
        /\ turn[c] \in {"clear", "claimed"} /\ h.out \in DOMAIN outputs => outputs[h.out].by # c
        /\ turn[c] \in {"claimed", "published", "copied"} => Holds(adjacent, h.out, h)
        /\ turn[c] \in {"published", "copied"} =>
             /\ Holds(outputs, h.out, h)
             /\ \A r \in Range(told[c]) : r.outcome = "repaired" => r.out # h.out
        /\ turn[c] = "copied" => Holds(receipts, h.src, h)
    BY <1>2 DEF BatchOK, HandOK
  <2>2. ASSUME h.out \in DOMAIN outputs', outputs'[h.out].by = c
        PROVE  h.out \in DOMAIN outputs /\ outputs'[h.out] = outputs[h.out]
    <3>1. CASE h.out \in DOMAIN outputs
      BY <3>1 DEF Shares, Holds
    <3>2. CASE h.out \notin DOMAIN outputs
      <4>1. turn[b] = "claimed" /\ outputs'[h.out] = hand[b]
        BY <2>2, <3>2 DEF Shares
      <4>2. hand[b].by = b
        BY <1>2, <4>1 DEF HandOK, InHand
      <4> QED BY <2>2, <4>1, <4>2
    <3> QED BY <3>1, <3>2
  <2>3. ASSUME Holds(adjacent, h.out, h) PROVE Holds(adjacent', h.out, h)
    <3>1. CASE Holds(adjacent', h.out, adjacent[h.out])
      BY <2>3, <3>1 DEF Holds
    <3>2. CASE turn[b] \in {"claimed", "copied"} /\ h.out = hand[b].out
      <4>1. Holds(adjacent, hand[b].out, hand[b]) /\ hand[b].by = b
        BY <1>2, <3>2 DEF HandOK, InHand
      <4> QED BY <2>1, <2>3, <3>2, <4>1 DEF Holds
    <3> QED BY <2>3, <3>1, <3>2 DEF Shares, Holds
  <2>4. Holds(outputs, h.out, h) => Holds(outputs', h.out, h)
    BY DEF Shares, Holds
  <2>5. Holds(receipts, h.src, h) => Holds(receipts', h.src, h)
    BY DEF Shares, Holds
  <2>6. hand'[c] = h
    BY <1>1
  <2> HIDE DEF h
  <2> QED BY <1>1, <1>2, <2>1, <2>2, <2>3, <2>4, <2>5, <2>6 DEF HandOK
<1> QED BY <1>3, <1>5, <1>6 DEF BatchOK

\* A step of one batch keeps the invariant if it keeps that batch's part.
LEMMA OwnKeeps ==
  ASSUME BatchInv, NEW b \in Batcher, Shares(b), Own(b), BatchOK(b)'
  PROVE  BatchInv'
<1>1. \A c \in Batcher : BatchOK(c)'
  BY OthersKeep
<1>2. OutputsOK'
  BY OutputsKeep
<1>3. TreeNamed' /\ Functions'
  BY ResolveSame DEF BatchInv, Own, Functions
<1> QED BY <1>1, <1>2, <1>3 DEF BatchInv

-----------------------------------------------------------------------------
(* The steps of a batch.                                                   *)

LEMMA ApartOn ==
  ASSUME NEW q, SomeSeq(q), Apart(q), NEW row, \A r \in Range(q) : r.path # row.path
  PROVE  Apart(Append(q, row))
<1> DEFINE a == Append(q, row)
<1>1. /\ Len(q) \in Nat /\ DOMAIN q = 1..Len(q) /\ DOMAIN a = 1..(Len(q) + 1)
      /\ \A i \in DOMAIN q : a[i] = q[i]
      /\ a[Len(q) + 1] = row
  BY Appended
<1> HIDE DEF a
<1>2. \A k \in DOMAIN a : k \in DOMAIN q \/ k = Len(q) + 1
  BY <1>1
<1>3. \A k \in DOMAIN q : a[k] = q[k] /\ a[k].path # row.path
  BY <1>1 DEF Range
<1> QED BY <1>1, <1>2, <1>3 DEF Apart, a

\* The step that ends the turn of a file.
LEMMA TellKeeps ==
  ASSUME BatchInv, NEW b \in Batcher, Shares(b), tree' = tree, assigned' = assigned,
         turn[b] \in InHand \cup {"next"}, left[b] # << >>,
         NEW row, Tell(b, row), row.path = Head(left[b]), ~ Lost(row), RowTrue(b, row)'
  PROVE  BatchInv'
<1>1. Functions /\ BatchOK(b)
  BY DEF BatchInv
<1>2. Own(b)
  BY <1>1 DEF Own, Functions, Tell
<1>3. turn'[b] = "next" /\ told'[b] = Append(told[b], row) /\ left'[b] = Tail(left[b])
  BY <1>1 DEF Functions, Tell
<1>4. /\ SomeSeq(told[b]) /\ Apart(told[b]) /\ Once(left[b])
      /\ \A r \in Range(told[b]) : ~ Lost(r) /\ r.path \notin Range(left[b])
  BY <1>1 DEF BatchOK, ListOK, Ahead, InHand
<1>5. /\ Once(Tail(left[b])) /\ Range(Tail(left[b])) \subseteq Range(left[b])
      /\ row.path \notin Range(Tail(left[b])) /\ row.path \in Range(left[b])
  BY <1>4, TailOnce
<1>6. SomeSeq(told'[b]) /\ Range(told'[b]) = Range(told[b]) \cup {row}
  BY <1>3, <1>4, Appended
<1>7. Apart(Append(told[b], row))
  BY <1>4, <1>5, ApartOn
<1>8. ListOK(b)'
  <2>1. Apart(told[b])'
    BY <1>3, <1>7 DEF Apart, Lost
  <2> QED BY <1>3, <1>4, <1>5, <1>6, <2>1 DEF ListOK, Ahead, Once, Lost
<1>9. \A r : r \in Range(told[b]) /\ RowTrue(b, r) => RowTrue(b, r)'
  BY <1>2, RowsKeep
<1>10. \A r \in Range(told'[b]) : RowTrue(b, r)'
  BY <1>1, <1>6, <1>9 DEF BatchOK
<1>11. HandOK(b)'
  BY <1>3 DEF HandOK, InHand
<1> QED BY <1>2, <1>8, <1>10, <1>11, OwnKeeps DEF BatchOK

\* A step within the turn of a file.
LEMMA GoKeeps ==
  ASSUME BatchInv, NEW b \in Batcher, Shares(b), Own(b), told' = told, left' = left,
         turn[b] \notin {"idle", "done"}, turn'[b] \notin {"idle", "done"}, HandOK(b)'
  PROVE  BatchInv'
<1>1. BatchOK(b)
  BY DEF BatchInv
<1>2. ListOK(b)'
  BY <1>1 DEF BatchOK, ListOK, Ahead
<1>3. \A r : r \in Range(told[b]) /\ RowTrue(b, r) => RowTrue(b, r)'
  BY RowsKeep
<1>4. \A r \in Range(told'[b]) : RowTrue(b, r)'
  BY <1>1, <1>3 DEF BatchOK
<1> QED BY <1>2, <1>4, OwnKeeps DEF BatchOK

LEMMA NothingShared ==
  ASSUME UNCHANGED shared, NEW b PROVE Shares(b)
BY DEF shared, Shares, Holds

\* The bytes of a file are some content of its inode.
LEMMA FileIs ==
  ASSUME BatchInv, ClockOK, NEW path, IsFile(path)
  PROVE  /\ InodeAt(path) \in DOMAIN Ledger
         /\ Content(InodeAt(path)) \in Range(Ledger[InodeAt(path)])
         /\ Resolve(path) # None
<1>1. InodeAt(path) \in DOMAIN Ledger /\ EntryAt(path) # None
  BY DEF IsFile, InodeAt
<1>2. Content(InodeAt(path)) \in Range(Ledger[InodeAt(path)])
  BY <1>1 DEF ClockOK, Content, Range
<1>3. Resolve(path) # None
  <2>1. TreeNamed
    BY DEF BatchInv
  <2>2. CASE path \in tree.files
    BY <2>1, <2>2 DEF Resolve, TreeNamed
  <2>3. CASE path \notin tree.files
    <3> DEFINE dir == Leads(tree, Front(path))
    <3>1. EntryAt(path) \in Inside(tree, dir, Last(path))
      BY <1>1 DEF EntryAt, EntryIn
    <3>2. dir \in DOMAIN tree.dirs /\ EntryAt(path) \in Range(tree.dirs[dir])
      BY <3>1 DEF Inside
    <3>3. \E p \in tree.files : InodeAt(p) = InodeAt(path)
      BY <1>1, <2>1, <3>2 DEF TreeNamed, InodeAt
    <3>4. Resolve(path) \in tree.files
      BY <2>3, <3>3 DEF Resolve
    <3> QED BY <2>1, <3>4 DEF TreeNamed
  <2> QED BY <2>2, <2>3
<1> QED BY <1>1, <1>2, <1>3

LEMMA BindHolds ==
  ASSUME NEW f, NEW x, NEW y
  PROVE  /\ DOMAIN Bind(f, x, y) = DOMAIN f \cup {x} /\ Holds(Bind(f, x, y), x, y)
         /\ \A z \in DOMAIN f : z # x => Holds(Bind(f, x, y), z, f[z])
BY DEF Bind, Holds

LEMMA WithoutHolds ==
  ASSUME NEW f, NEW x
  PROVE  \A z \in DOMAIN f : z # x => Holds(Without(f, x), z, f[z])
BY DEF Without, Restrict, Holds

\* Rows that say nothing of outputs.
LEMMA PlainKeeps ==
  ASSUME BatchInv, NEW b \in Batcher, Shares(b), tree' = tree, assigned' = assigned,
         turn[b] \in InHand \cup {"next"}, left[b] # << >>,
         NEW row, Tell(b, row), row.path = Head(left[b]),
         row.outcome # "repaired", row.reason \notin {"exists", "unresolvable-path"}
  PROVE  BatchInv'
<1>1. RowTrue(b, row)'
  BY DEF RowTrue, RepairedOK, RefusedOK
<1> QED BY <1>1, TellKeeps DEF Lost

LEMMA SkipKeeps ==
  ASSUME BatchAssumption, BatchInv, ClockOK, NEW b \in Batcher, UNCHANGED vars,
         SourceMissing(b) \/ NotEligible(b) \/ DryRun(b)
  PROVE  BatchInv'
<1>1. Shares(b) /\ tree' = tree /\ assigned' = assigned /\ turn[b] = "next" /\ left[b] # << >>
  BY NothingShared DEF SourceMissing, NotEligible, DryRun, AtFile, vars
<1>2. CASE SourceMissing(b)
  <2>1. PICK row : row = ReportRow(Head(left[b]), "skipped", "source-missing", None, None)
    OBVIOUS
  <2>2. Tell(b, row) /\ row.path = Head(left[b]) /\ row.outcome = "skipped" /\ row.reason = "source-missing"
    BY <1>2, <2>1 DEF SourceMissing, ReportRow
  <2> QED BY <1>1, <2>2, PlainKeeps
<1>3. CASE NotEligible(b)
  <2>1. PICK row : row = ReportRow(Head(left[b]), "skipped", Judgement(b), None, None)
    OBVIOUS
  <2>2. Tell(b, row) /\ row.path = Head(left[b]) /\ row.outcome = "skipped" /\ row.reason = Judgement(b)
    BY <1>3, <2>1 DEF NotEligible, ReportRow
  <2>3. Judgement(b) \in {"fails", "blocked", "nothing", "steps"}
    BY <1>3, FileIs DEF NotEligible, Judgement, BatchAssumption, PlannerAssumption
  <2> QED BY <1>1, <2>2, <2>3, PlainKeeps
<1>4. CASE DryRun(b)
  <2>1. PICK row : row = ReportRow(Head(left[b]), "eligible", None, None, None)
    OBVIOUS
  <2>2. Tell(b, row) /\ row.path = Head(left[b]) /\ row.outcome = "eligible" /\ row.reason = None
    BY <1>4, <2>1 DEF DryRun, ReportRow
  <2>3. row.reason \notin {"exists", "unresolvable-path"}
    BY <2>2 DEF BatchAssumption, PlannerAssumption
  <2> QED BY <1>1, <2>2, <2>3, PlainKeeps
<1> QED BY <1>2, <1>3, <1>4

\* A name that the batch has given out already is that of another source only if it
\* has no digest, and is not given out again.
LEMMA EligibleKeeps ==
  ASSUME BatchInv, ClockOK, NEW b \in Batcher, UNCHANGED vars, Eligible(b)
  PROVE  BatchInv'
<1> DEFINE path == Head(left[b])
           out == NameGiven(b, path)
           plain == OutputFor(path, asked.batches[b])
<1>1. /\ Functions /\ BatchOK(b) /\ OutputsOK
      /\ tree' = tree /\ turn[b] = "next" /\ left[b] # << >> /\ Resolve(path) # None
  BY FileIs DEF BatchInv, Eligible, AtFile, vars
<1>2. /\ hand' = [hand EXCEPT ![b] = [src |-> Resolve(path), content |-> Content(InodeAt(path)), out |-> out, by |-> b]]
      /\ assigned' = [assigned EXCEPT ![b] = @ \cup {out}]
      /\ turn' = [turn EXCEPT ![b] = "planned"]
      /\ told' = told /\ left' = left /\ UNCHANGED shared
  BY DEF Eligible
<1>3. \A p : Resolve(p)' = Resolve(p)
  BY <1>1, ResolveSame
<1>4. plain.digest = None /\ out = IF plain \in assigned[b] THEN [plain EXCEPT !.digest = Resolve(path)] ELSE plain
  BY DEF OutputFor, NameGiven
<1>5. out.digest \in {None, Resolve(path)} /\ (out.digest = None => out \notin assigned[b])
  <2>1. DOMAIN plain = {"dir", "name", "digest", "under"}
    BY DEF OutputFor
  <2> HIDE DEF plain, out, path
  <2> QED BY <1>1, <1>4, <2>1
<1> HIDE DEF path, out, plain
<1>6. \A r \in Range(told[b]) : r.reason = "exists" => r.out \in assigned[b]
  BY <1>1 DEF BatchOK, RowTrue, RefusedOK
<1>7. ASSUME out \in DOMAIN outputs, outputs[out].by = b PROVE outputs[out].src = Resolve(path)
  <2>1. out \in assigned[b] /\ out.digest \in {None, outputs[out].src}
    BY <1>1, <1>7 DEF OutputsOK, NamedBy
  <2> QED BY <1>5, <2>1
<1>8. Own(b) /\ Shares(b)
  <2>1. Own(b)
    BY <1>1, <1>2 DEF Own, Functions
  <2> QED BY <1>2, <2>1, NothingShared
<1>9. /\ turn'[b] = "planned" /\ assigned'[b] = assigned[b] \cup {out}
      /\ hand'[b].src = Resolve(path) /\ hand'[b].out = out /\ hand'[b].by = b
  BY <1>1, <1>2 DEF Functions
<1>10. HandOK(b)'
  BY <1>1, <1>2, <1>3, <1>5, <1>6, <1>7, <1>9 DEF HandOK, InHand, shared, path
<1> QED BY <1>1, <1>2, <1>8, <1>9, <1>10, GoKeeps

\* Refusals before the manifest is claimed.
LEMMA RefusalKeeps ==
  ASSUME BatchInv, NEW b \in Batcher, UNCHANGED vars,
         Stale(b) \/ NameInUse(b)
  PROVE  BatchInv'
<1>1. /\ HandOK(b) /\ UNCHANGED shared
      /\ Shares(b) /\ tree' = tree /\ assigned' = assigned /\ turn[b] \in InHand /\ left[b] # << >>
  BY NothingShared DEF BatchInv, BatchOK, HandOK, Stale, NameInUse, InHand, vars
<1>2. CASE Stale(b)
  <2>1. PICK row : row = ReportRow(Head(left[b]), "refused", "stale", hand[b].out, None)
    OBVIOUS
  <2>2. Tell(b, row) /\ row.path = Head(left[b]) /\ row.outcome = "refused" /\ row.reason = "stale"
    BY <1>2, <2>1 DEF Stale, Refused, ReportRow
  <2> QED BY <1>1, <2>2, PlainKeeps
<1>3. CASE NameInUse(b)
  <2>1. PICK row : row = ReportRow(Head(left[b]), "refused", "exists", hand[b].out, None)
    OBVIOUS
  <2>2. /\ Tell(b, row) /\ row.path = Head(left[b]) /\ row.outcome = "refused" /\ row.reason = "exists"
        /\ row.out = hand[b].out
    BY <1>3, <2>1 DEF NameInUse, Refused, ReportRow
  <2>3. RefusedOK(b, row)
    BY <1>1, <1>3, <2>2 DEF HandOK, NameInUse, RefusedOK
  <2>4. RowTrue(b, row)'
    BY <1>1, <2>2, <2>3, ResolveSame DEF RowTrue, RepairedOK, RefusedOK, shared
  <2> QED BY <1>1, <2>2, <2>4, TellKeeps DEF Lost
<1> QED BY <1>2, <1>3

LEMMA PreflightKeeps ==
  ASSUME BatchInv, NEW b \in Batcher, UNCHANGED vars, Preflight(b) PROVE BatchInv'
<1>1. Functions /\ HandOK(b) /\ tree' = tree
  BY DEF BatchInv, BatchOK, vars
<1>2. /\ turn[b] = "planned" /\ turn' = [turn EXCEPT ![b] = "clear"] /\ hand[b].out \notin DOMAIN outputs
      /\ UNCHANGED <<hand, left, told, assigned, shared>>
  BY DEF Preflight
<1>3. Own(b) /\ Shares(b) /\ turn'[b] = "clear"
  <2>1. Own(b) /\ turn'[b] = "clear"
    BY <1>1, <1>2 DEF Own, Functions
  <2> QED BY <1>2, <2>1, NothingShared
<1>4. HandOK(b)'
  BY <1>1, <1>2, <1>3, ResolveSame DEF HandOK, InHand, shared
<1> QED BY <1>2, <1>3, <1>4, GoKeeps

\* Only the batch that claimed a manifest takes it away.
LEMMA TakenAway ==
  ASSUME NEW b \in Batcher, turn[b] \in {"claimed", "copied"},
         outputs' = outputs, receipts' = receipts,
         adjacent' = adjacent \/ adjacent' = Without(adjacent, hand[b].out)
  PROVE  Shares(b)
<1>1. \A o \in DOMAIN adjacent : o # hand[b].out => Holds(adjacent', o, adjacent[o])
  BY WithoutHolds DEF Holds
<1> QED BY <1>1 DEF Shares, Holds

LEMMA RepairFailsKeeps ==
  ASSUME BatchInv, NEW b \in Batcher, UNCHANGED vars, RepairFails(b) PROVE BatchInv'
<1>1. /\ turn[b] \in InHand /\ left[b] # << >> /\ tree' = tree /\ assigned' = assigned
      /\ outputs' = outputs /\ receipts' = receipts
  BY DEF BatchInv, BatchOK, HandOK, RepairFails, InHand, vars
<1>2. Shares(b)
  <2>1. CASE turn[b] = "claimed"
    BY <1>1, <2>1, TakenAway DEF RepairFails
  <2>2. CASE turn[b] # "claimed"
    BY <1>1, <2>2, NothingShared DEF RepairFails, shared
  <2> QED BY <2>1, <2>2
<1>3. PICK row : row = ReportRow(Head(left[b]), "refused", "error", hand[b].out, None)
  OBVIOUS
<1>4. Tell(b, row) /\ row.path = Head(left[b]) /\ row.outcome = "refused" /\ row.reason = "error"
  BY <1>3 DEF RepairFails, Refused, ReportRow
<1> QED BY <1>1, <1>2, <1>4, PlainKeeps

\* A refusal for a name that another batch took in the meantime.
LEMMA NameLost ==
  ASSUME BatchInv, NEW b \in Batcher, tree' = tree, assigned' = assigned, outputs' = outputs,
         Shares(b), turn[b] \in {"clear", "claimed"}, Refused(b, "exists")
  PROVE  BatchInv'
<1>1. HandOK(b) /\ turn[b] \in InHand /\ left[b] # << >> /\ \A p : Resolve(p)' = Resolve(p)
  BY ResolveSame DEF BatchInv, BatchOK, HandOK, InHand
<1>2. PICK row : row = ReportRow(Head(left[b]), "refused", "exists", hand[b].out, None)
  OBVIOUS
<1>3. /\ Tell(b, row) /\ row.path = Head(left[b]) /\ row.outcome = "refused" /\ row.reason = "exists"
      /\ row.out = hand[b].out
  BY <1>2 DEF Refused, ReportRow
<1>4. RefusedOK(b, row)
  BY <1>1, <1>3 DEF HandOK, InHand, RefusedOK
<1>5. RowTrue(b, row)'
  BY <1>1, <1>3, <1>4 DEF RowTrue, RepairedOK, RefusedOK
<1> QED BY <1>1, <1>3, <1>5, TellKeeps DEF Lost

LEMMA ClaimManifestKeeps ==
  ASSUME BatchInv, NEW b \in Batcher, UNCHANGED vars, ClaimManifest(b) PROVE BatchInv'
<1>1. /\ Functions /\ HandOK(b) /\ tree' = tree /\ turn[b] = "clear"
      /\ UNCHANGED <<assigned, outputs, receipts>>
  BY DEF BatchInv, BatchOK, ClaimManifest, vars
<1> DEFINE h == hand[b]
<1>2. CASE h.out \in DOMAIN adjacent
  <2>1. Refused(b, "exists") /\ UNCHANGED shared
    BY <1>1, <1>2 DEF ClaimManifest, shared
  <2> QED BY <1>1, <2>1, NothingShared, NameLost
<1>3. CASE h.out \notin DOMAIN adjacent
  <2>1. /\ adjacent' = Bind(adjacent, h.out, h) /\ turn' = [turn EXCEPT ![b] = "claimed"]
        /\ UNCHANGED <<hand, left, told>>
    BY <1>3 DEF ClaimManifest
  <2>2. Holds(adjacent', h.out, h) /\ \A o \in DOMAIN adjacent : Holds(adjacent', o, adjacent[o])
    BY <1>3, <2>1, BindHolds
  <2>3. Own(b) /\ turn'[b] = "claimed"
    BY <1>1, <2>1 DEF Own, Functions
  <2>4. Shares(b)
    BY <1>1, <2>2 DEF Shares, Holds
  <2>5. HandOK(b)'
    BY <1>1, <2>1, <2>2, <2>3, ResolveSame DEF HandOK, InHand
  <2> QED BY <1>1, <2>1, <2>3, <2>4, <2>5, GoKeeps
<1> QED BY <1>2, <1>3

LEMMA PublishOutputKeeps ==
  ASSUME BatchInv, NEW b \in Batcher, UNCHANGED vars, PublishOutput(b) PROVE BatchInv'
<1>1. /\ Functions /\ HandOK(b) /\ tree' = tree /\ turn[b] = "claimed"
      /\ UNCHANGED <<assigned, receipts>>
  BY DEF BatchInv, BatchOK, PublishOutput, vars
<1> DEFINE h == hand[b]
<1>2. CASE h.out \in DOMAIN outputs
  <2>1. Refused(b, "exists") /\ adjacent' = Without(adjacent, h.out) /\ outputs' = outputs
    BY <1>2 DEF PublishOutput
  <2> QED BY <1>1, <2>1, TakenAway, NameLost
<1>3. CASE h.out \notin DOMAIN outputs
  <2>1. /\ outputs' = Bind(outputs, h.out, h) /\ turn' = [turn EXCEPT ![b] = "published"]
        /\ UNCHANGED <<hand, left, told, adjacent>>
    BY <1>3 DEF PublishOutput
  <2>2. /\ Holds(outputs', h.out, h) /\ \A o \in DOMAIN outputs : Holds(outputs', o, outputs[o])
        /\ DOMAIN outputs' = DOMAIN outputs \cup {h.out}
    BY <1>3, <2>1, BindHolds
  <2>3. Own(b) /\ turn'[b] = "published"
    BY <1>1, <2>1 DEF Own, Functions
  <2>4. Shares(b)
    BY <1>1, <2>1, <2>2 DEF Shares, Holds
  <2>5. \A r \in Range(told[b]) : r.outcome = "repaired" => r.out \in DOMAIN outputs
    BY DEF BatchInv, BatchOK, RowTrue, RepairedOK
  <2>6. HandOK(b)'
    BY <1>1, <1>3, <2>1, <2>2, <2>3, <2>5, ResolveSame DEF HandOK, InHand
  <2> QED BY <1>1, <2>1, <2>3, <2>4, <2>6, GoKeeps
<1> QED BY <1>2, <1>3

\* The row of a file that was repaired.
LEMMA RepairedKeeps ==
  ASSUME BatchAssumption, BatchInv, NEW b \in Batcher, tree' = tree, assigned' = assigned, outputs' = outputs, Shares(b),
         turn[b] \in {"published", "copied"}, NEW reason, reason \notin {"exists", "unresolvable-path"}, NEW receipt,
         Repaired(b, reason, receipt),
         receipt = "adjacent" => Holds(adjacent', hand[b].out, hand[b]),
         receipt = "relocated" => Holds(receipts', hand[b].src, hand[b])
  PROVE  BatchInv'
<1>1. HandOK(b) /\ turn[b] \in InHand /\ left[b] # << >> /\ \A p : Resolve(p)' = Resolve(p)
  BY ResolveSame DEF BatchInv, BatchOK, HandOK, InHand
<1>2. PICK row : row = ReportRow(Head(left[b]), "repaired", reason, hand[b].out, receipt)
  OBVIOUS
<1>3. /\ Tell(b, row) /\ row.path = Head(left[b]) /\ row.outcome = "repaired" /\ row.reason = reason
      /\ row.out = hand[b].out /\ row.receipt = receipt
  BY <1>2 DEF Repaired, ReportRow
<1>4. Holds(outputs', row.out, hand[b]) /\ hand[b].by = b /\ hand[b].src = Resolve(row.path)
  BY <1>1, <1>3 DEF HandOK, InHand
<1>5. RowTrue(b, row)'
  BY <1>1, <1>3, <1>4 DEF RowTrue, RepairedOK, RefusedOK, Holds
<1> QED BY <1>1, <1>3, <1>5, TellKeeps DEF Lost

LEMMA ReceiptKeeps ==
  ASSUME BatchAssumption, BatchInv, NEW b \in Batcher, UNCHANGED vars,
         ReceiptStays(b) \/ RelocationRefused(b) \/ UnlinkAdjacent(b)
  PROVE  BatchInv'
<1>1. /\ HandOK(b) /\ tree' = tree /\ assigned' = assigned /\ outputs' = outputs /\ receipts' = receipts
      /\ None \notin {"exists", "unresolvable-path"}
  BY DEF BatchInv, BatchOK, ReceiptStays, RelocationRefused, UnlinkAdjacent, shared, vars,
         BatchAssumption, PlannerAssumption
<1>2. CASE ReceiptStays(b)
  <2>1. turn[b] = "published" /\ UNCHANGED shared /\ Repaired(b, None, "adjacent")
    BY <1>2 DEF ReceiptStays
  <2>2. Holds(adjacent', hand[b].out, hand[b])
    BY <1>1, <2>1 DEF HandOK, InHand, shared
  <2> QED BY <1>1, <2>1, <2>2, NothingShared, RepairedKeeps
<1>3. CASE RelocationRefused(b)
  <2>1. turn[b] = "published" /\ UNCHANGED shared /\ Repaired(b, "manifest-relocation-refused", "adjacent")
    BY <1>3 DEF RelocationRefused
  <2>2. Holds(adjacent', hand[b].out, hand[b])
    BY <1>1, <2>1 DEF HandOK, InHand, shared
  <2> QED BY <1>1, <2>1, <2>2, NothingShared, RepairedKeeps
<1>4. CASE UnlinkAdjacent(b)
  <2>1. turn[b] = "copied" /\ adjacent' = Without(adjacent, hand[b].out) /\ Repaired(b, None, "relocated")
    BY <1>4 DEF UnlinkAdjacent
  <2>2. Holds(receipts', hand[b].src, hand[b])
    BY <1>1, <2>1 DEF HandOK, InHand
  <2> QED BY <1>1, <2>1, <2>2, TakenAway, RepairedKeeps
<1> QED BY <1>2, <1>3, <1>4

LEMMA CopyReceiptKeeps ==
  ASSUME BatchInv, NEW b \in Batcher, UNCHANGED vars, CopyReceipt(b) PROVE BatchInv'
<1> DEFINE h == hand[b]
<1>1. /\ Functions /\ HandOK(b) /\ tree' = tree /\ turn[b] = "published" /\ h.src \notin DOMAIN receipts
      /\ receipts' = Bind(receipts, h.src, adjacent[h.out]) /\ turn' = [turn EXCEPT ![b] = "copied"]
      /\ UNCHANGED <<hand, left, told, assigned, outputs, adjacent>>
  BY DEF BatchInv, BatchOK, CopyReceipt, vars
<1>2. adjacent[h.out] = h
  BY <1>1 DEF HandOK, InHand, Holds
<1>3. Holds(receipts', h.src, h) /\ \A x \in DOMAIN receipts : Holds(receipts', x, receipts[x])
  BY <1>1, <1>2, BindHolds
<1>4. Own(b) /\ turn'[b] = "copied"
  BY <1>1 DEF Own, Functions
<1>5. Shares(b)
  BY <1>1, <1>3 DEF Shares, Holds
<1>6. HandOK(b)'
  BY <1>1, <1>3, <1>4, ResolveSame DEF HandOK, InHand
<1> QED BY <1>1, <1>4, <1>5, <1>6, GoKeeps

LEMMA StartBatchKeeps ==
  ASSUME BatchAssumption, BatchInv, NEW b \in Batcher, UNCHANGED vars, StartBatch(b) PROVE BatchInv'
<1>1. /\ Functions /\ BatchOK(b) /\ tree' = tree /\ turn[b] = "idle"
      /\ left' = [left EXCEPT ![b] = Sorted(BatchFiles(asked.batches[b]))] /\ turn' = [turn EXCEPT ![b] = "next"]
      /\ UNCHANGED <<hand, told, assigned, shared>>
  BY DEF BatchInv, StartBatch, vars
<1>2. Own(b) /\ turn'[b] = "next" /\ left'[b] = Sorted(BatchFiles(asked.batches[b])) /\ told'[b] = told[b]
  BY <1>1 DEF Own, Functions
<1>3. Shares(b)
  BY <1>1, NothingShared
<1>4. told[b] = << >> /\ SomeSeq(told[b]) /\ Apart(told[b])
  BY <1>1 DEF BatchOK, ListOK
<1>5. Range(told'[b]) = {}
  BY <1>2, <1>4 DEF Range
<1>6. Once(left'[b])
  BY <1>2, SortedOnce
<1>7. ListOK(b)'
  <2>1. Apart(told[b])'
    BY <1>2, <1>4 DEF Apart
  <2> QED BY <1>2, <1>4, <1>5, <1>6, <2>1 DEF ListOK, Ahead, Once
<1> QED BY <1>2, <1>3, <1>5, <1>7, OwnKeeps DEF BatchOK, HandOK, InHand

\* The rows of a report followed by those of the names that could not be resolved.
LEMMA ApartMore ==
  ASSUME NEW q, SomeSeq(q), Apart(q), \A r \in Range(q) : ~ Lost(r),
         NEW lost, Once(lost), NEW more, more = [i \in DOMAIN lost |-> ReportRow(lost[i], "skipped", "unresolvable-path", None, None)]
  PROVE  /\ SomeSeq(q \o more) /\ Apart(q \o more)
         /\ \A r \in Range(q \o more) : r \in Range(q) \/ (r.outcome = "skipped" /\ r.reason = "unresolvable-path")
<1>1. PICK S : q \in Seq(S)
  BY DEF SomeSeq
<1>2. PICK L : lost \in Seq(L)
  BY DEF Once, SomeSeq
<1> DEFINE T == S \cup Range(more)
           a == q \o more
<1>3. Len(lost) \in Nat /\ DOMAIN lost = 1..Len(lost) /\ DOMAIN more = 1..Len(lost)
  BY <1>2
<1>4. \A i \in DOMAIN lost : more[i] = ReportRow(lost[i], "skipped", "unresolvable-path", None, None)
  OBVIOUS
<1>5. \A i \in DOMAIN lost : more[i].path = lost[i] /\ more[i].outcome = "skipped" /\ more[i].reason = "unresolvable-path"
  BY <1>4 DEF ReportRow
<1>6. q \in Seq(T) /\ more \in Seq(T) /\ Len(more) = Len(lost)
  <2>1. more = [i \in 1..Len(lost) |-> more[i]] /\ \A i \in 1..Len(lost) : more[i] \in T
    BY <1>3 DEF Range
  <2> HIDE DEF T
  <2>2. q \in Seq(T)
    <3>1. Len(q) \in Nat /\ q = [i \in 1..Len(q) |-> q[i]] /\ \A i \in 1..Len(q) : q[i] \in S
      BY <1>1
    <3>2. \A i \in 1..Len(q) : q[i] \in T
      BY <3>1 DEF T
    <3> QED BY <3>1, <3>2
  <2>3. more \in Seq(T)
    BY <1>3, <2>1
  <2> QED BY <1>3, <2>2, <2>3
<1> HIDE DEF T
<1>7. /\ a \in Seq(T) /\ Len(q) \in Nat /\ DOMAIN q = 1..Len(q) /\ DOMAIN a = 1..(Len(q) + Len(lost))
      /\ \A i \in 1..(Len(q) + Len(lost)) : a[i] = IF i <= Len(q) THEN q[i] ELSE more[i - Len(q)]
  BY <1>3, <1>6
<1> HIDE DEF a
<1>8. ASSUME NEW i \in DOMAIN a
      PROVE  \/ i \in DOMAIN q /\ a[i] = q[i] /\ ~ Lost(a[i])
             \/ /\ i - Len(q) \in DOMAIN lost /\ i \in Nat /\ a[i] = more[i - Len(q)]
                /\ Lost(a[i]) /\ a[i].path = lost[i - Len(q)] /\ a[i].outcome = "skipped"
  <2>1. CASE i <= Len(q)
    <3>1. i \in DOMAIN q /\ a[i] = q[i]
      BY <1>3, <1>7, <2>1
    <3> QED BY <3>1 DEF Range
  <2>2. CASE ~ (i <= Len(q))
    <3>1. i - Len(q) \in DOMAIN lost /\ i \in Nat /\ a[i] = more[i - Len(q)]
      BY <1>3, <1>7, <2>2
    <3> QED BY <1>5, <3>1 DEF Lost
  <2> QED BY <2>1, <2>2
<1>9. ASSUME NEW i \in DOMAIN a, NEW j \in DOMAIN a, a[i].path = a[j].path, Lost(a[i]) <=> Lost(a[j])
      PROVE  i = j
  <2>1. CASE Lost(a[i])
    <3>1. /\ i - Len(q) \in DOMAIN lost /\ j - Len(q) \in DOMAIN lost /\ lost[i - Len(q)] = lost[j - Len(q)]
          /\ i \in Nat /\ j \in Nat
      BY <1>8, <1>9, <2>1
    <3>2. i - Len(q) = j - Len(q)
      BY <3>1 DEF Once
    <3> QED BY <1>7, <3>1, <3>2
  <2>2. CASE ~ Lost(a[i])
    <3>1. i \in DOMAIN q /\ a[i] = q[i] /\ j \in DOMAIN q /\ a[j] = q[j]
      BY <1>8, <1>9, <2>2
    <3> QED BY <1>9, <3>1 DEF Apart
  <2> QED BY <2>1, <2>2
<1>10. \A r \in Range(a) : r \in Range(q) \/ (r.outcome = "skipped" /\ r.reason = "unresolvable-path")
  BY <1>8 DEF Range, Lost
<1> QED BY <1>7, <1>9, <1>10 DEF a, Apart, SomeSeq

LEMMA EndBatchKeeps ==
  ASSUME BatchAssumption, BatchInv, NEW b \in Batcher, UNCHANGED vars, EndBatch(b) PROVE BatchInv'
<1>1. PICK lost, more :
        /\ lost = Sorted(Unresolvable(asked.batches[b]))
        /\ more = [i \in DOMAIN lost |-> ReportRow(lost[i], "skipped", "unresolvable-path", None, None)]
  OBVIOUS
<1>2. /\ Functions /\ BatchOK(b) /\ tree' = tree /\ turn[b] = "next"
      /\ told' = [told EXCEPT ![b] = @ \o more] /\ turn' = [turn EXCEPT ![b] = "done"]
      /\ UNCHANGED <<hand, left, assigned, shared>>
  BY <1>1 DEF BatchInv, EndBatch, vars
<1>3. Own(b) /\ turn'[b] = "done" /\ told'[b] = told[b] \o more
  BY <1>2 DEF Own, Functions
<1>4. Shares(b)
  BY <1>2, NothingShared
<1>5. SomeSeq(told[b]) /\ Apart(told[b]) /\ \A r \in Range(told[b]) : ~ Lost(r)
  BY <1>2 DEF BatchOK, ListOK, Ahead
<1>6. Once(lost)
  BY <1>1, SortedOnce
<1>7. /\ SomeSeq(told'[b]) /\ Apart(told'[b])
      /\ \A r \in Range(told'[b]) : r \in Range(told[b]) \/ (r.outcome = "skipped" /\ r.reason = "unresolvable-path")
  BY <1>1, <1>3, <1>5, <1>6, ApartMore
<1>8. ListOK(b)'
  <2>1. Apart(told[b])'
    BY <1>7 DEF Apart, Lost
  <2> QED BY <1>3, <1>7, <2>1 DEF ListOK, Ahead
<1>9. \A r : r \in Range(told[b]) /\ RowTrue(b, r) => RowTrue(b, r)'
  BY <1>3, <1>4, RowsKeep
<1>10. \A r \in Range(told'[b]) : RowTrue(b, r)'
  <2>1. \A r : r.outcome = "skipped" /\ r.reason = "unresolvable-path" => RowTrue(b, r)'
    BY DEF RowTrue, RepairedOK, RefusedOK
  <2> QED BY <1>2, <1>7, <1>9, <2>1 DEF BatchOK
<1> QED BY <1>3, <1>4, <1>8, <1>10, OwnKeeps DEF BatchOK, HandOK, InHand

LEMMA DieKeeps ==
  ASSUME BatchInv, NEW b \in Batcher, UNCHANGED vars, Die(b) PROVE BatchInv'
<1>1. /\ Functions /\ tree' = tree /\ turn[b] \notin {"idle", "done"} /\ turn' = [turn EXCEPT ![b] = "dead"]
      /\ UNCHANGED <<hand, left, told, assigned, shared>>
  BY DEF BatchInv, Die, vars
<1>2. Own(b) /\ turn'[b] = "dead"
  BY <1>1 DEF Own, Functions
<1>3. HandOK(b)'
  BY <1>2 DEF HandOK, InHand
<1> QED BY <1>1, <1>2, <1>3, NothingShared, GoKeeps

LEMMA BatchStepKeeps ==
  ASSUME BatchAssumption, BatchInv, ClockOK, NEW b \in Batcher, BatchStep(b) PROVE BatchInv'
<1>1. UNCHANGED vars
  BY DEF BatchStep
<1>2. CASE StartBatch(b) \/ EndBatch(b) \/ Die(b)
  BY <1>1, <1>2, StartBatchKeeps, EndBatchKeeps, DieKeeps
<1>3. CASE SourceMissing(b) \/ NotEligible(b) \/ DryRun(b)
  BY <1>1, <1>3, SkipKeeps
<1>4. CASE Eligible(b) \/ Stale(b) \/ NameInUse(b) \/ Preflight(b) \/ RepairFails(b)
  BY <1>1, <1>4, EligibleKeeps, RefusalKeeps, PreflightKeeps, RepairFailsKeeps
<1>5. CASE ClaimManifest(b) \/ PublishOutput(b) \/ CopyReceipt(b)
  BY <1>1, <1>5, ClaimManifestKeeps, PublishOutputKeeps, CopyReceiptKeeps
<1>6. CASE ReceiptStays(b) \/ RelocationRefused(b) \/ UnlinkAdjacent(b)
  BY <1>1, <1>6, ReceiptKeeps
<1> QED BY <1>2, <1>3, <1>4, <1>5, <1>6 DEF BatchStep

-----------------------------------------------------------------------------
(* Batches beside scans and agents.                                        *)

\* Nothing but the tree that a batch relies on is in the hands of scans and agents.
LEMMA AloneKeeps ==
  ASSUME BatchInv, tree' = tree, UNCHANGED batchVars PROVE BatchInv'
<1>1. /\ turn' = turn /\ hand' = hand /\ left' = left /\ told' = told /\ assigned' = assigned
      /\ outputs' = outputs /\ adjacent' = adjacent /\ receipts' = receipts
  BY DEF batchVars, local, shared
<1>2. (\A p : Resolve(p)' = Resolve(p)) /\ TreeNamed'
  BY ResolveSame DEF BatchInv
<1>3. OutputsOK' /\ Functions'
  BY <1>1 DEF BatchInv, OutputsOK, Accounted, NamedBy, Functions
<1>4. ASSUME NEW b \in Batcher PROVE BatchOK(b)'
  <2>1. BatchOK(b)
    BY DEF BatchInv
  <2>2. ListOK(b)'
    BY <1>1, <2>1 DEF BatchOK, ListOK, Ahead
  <2>3. HandOK(b)'
    BY <1>1, <1>2, <2>1 DEF BatchOK, HandOK
  <2>4. \A r : RowTrue(b, r) => RowTrue(b, r)'
    BY <1>1, <1>2 DEF RowTrue, RepairedOK, RefusedOK
  <2> QED BY <1>1, <2>1, <2>2, <2>3, <2>4 DEF BatchOK
<1> QED BY <1>2, <1>3, <1>4 DEF BatchInv

LEMMA TreeStays ==
  ASSUME AgentStep \/ \E s \in Scanner : ScanStep(s) PROVE tree' = tree
<1>1. CASE AgentStep
  BY <1>1 DEF AgentStep, Write
<1>2. ASSUME NEW s \in Scanner, ScanStep(s) PROVE tree' = tree
  BY <1>2 DEF ScanStep, Start, VisitDirectory, VisitFails, EndWalk, SkipCandidate, HashCandidate, CheckCandidate,
     EndSelection, WorkerTakes, WorkerReturns, Merge, Finish, Cancel, CacheFails, StartSingle, FinishSingle, WriteBaselineFile
<1> QED BY <1>1, <1>2

AskedOK == asked.scanners \subseteq Scanner
AllInv == ScansInv /\ OnceInv /\ AskedOK /\ BatchInv

LEMMA BatchInitKeeps ==
  ASSUME ScanAssumption, BatchAssumption, BatchInit PROVE AllInv
<1>1. ScansInv /\ OnceInv
  BY InitKeeps, InitOnce DEF BatchInit
<1>2. PICK c \in Cases : c.tree = tree /\ asked = [scanners |-> c.scanners, batches |-> c.batches]
  BY DEF BatchInit
<1>3. AskedOK
  BY <1>2 DEF AskedOK, BatchAssumption, PathsAssumption
<1>4. /\ None \notin c.tree.files
      /\ \A d \in DOMAIN c.tree.dirs : \A e \in Range(c.tree.dirs[d]) :
            e.ino \in DOMAIN Ledger => \E p \in c.tree.files : EntryIn(c.tree, p).ino = e.ino
  BY DEF BatchAssumption, PathsAssumption
<1>5. TreeNamed
  BY <1>2, <1>4 DEF TreeNamed, InodeAt, EntryAt
<1>6. Functions /\ OutputsOK
  BY DEF BatchInit, Functions, OutputsOK
<1>7. ASSUME NEW b \in Batcher PROVE BatchOK(b)
  <2>1. turn[b] = "idle" /\ told[b] = << >>
    BY DEF BatchInit
  <2>2. Range(told[b]) = {} /\ SomeSeq(told[b])
    BY <2>1 DEF Range, SomeSeq
  <2>3. Apart(told[b])
    BY <2>1 DEF Apart
  <2> QED BY <2>1, <2>2, <2>3 DEF BatchOK, ListOK, Ahead, HandOK, InHand
<1> QED BY <1>1, <1>3, <1>5, <1>6, <1>7 DEF AllInv, BatchInv

LEMMA BatchNextKeeps ==
  ASSUME ScanAssumption, BatchAssumption, AllInv, [BatchNext]_<<vars, batchVars>> PROVE AllInv'
<1>1. ScansInv /\ OnceInv /\ AskedOK /\ BatchInv /\ ClockOK /\ LedgerAssumption
  BY DEF AllInv, ScansInv, ScanAssumption
<1>2. CASE (AgentStep \/ \E s \in asked.scanners : ScanStep(s)) /\ UNCHANGED batchVars
  <2>1. AgentStep \/ \E s \in Scanner : ScanStep(s)
    BY <1>1, <1>2 DEF AskedOK
  <2>2. ScansInv' /\ OnceInv'
    BY <1>1, <2>1, NextKeeps, NextOnce DEF Next
  <2>3. BatchInv'
    BY <1>1, <1>2, <2>1, TreeStays, AloneKeeps
  <2> QED BY <1>1, <1>2, <2>2, <2>3 DEF AllInv, AskedOK, batchVars
<1>3. CASE \E b \in Batcher : BatchStep(b)
  <2>1. PICK b \in Batcher : BatchStep(b)
    BY <1>3
  <2>2. UNCHANGED vars /\ asked' = asked
    BY <2>1 DEF BatchStep
  <2>3. ScansInv' /\ OnceInv'
    BY <1>1, <2>2, NextKeeps, NextOnce
  <2>4. BatchInv'
    BY <1>1, <2>1, BatchStepKeeps
  <2> QED BY <1>1, <2>2, <2>3, <2>4 DEF AllInv, AskedOK
<1>4. CASE UNCHANGED <<vars, batchVars>>
  <2>1. ScansInv' /\ OnceInv'
    BY <1>1, <1>4, NextKeeps, NextOnce
  <2>2. tree' = tree /\ asked' = asked
    BY <1>4 DEF vars, batchVars
  <2>3. BatchInv'
    BY <1>1, <1>4, <2>2, AloneKeeps
  <2> QED BY <1>1, <2>1, <2>2, <2>3 DEF AllInv, AskedOK
<1> QED BY <1>2, <1>3, <1>4 DEF BatchNext

LEMMA InvAccounted ==
  ASSUME BatchInv PROVE ReceiptsAccounted
<1>1. \A o \in DOMAIN outputs : Holds(adjacent, o, outputs[o]) \/ Holds(receipts, outputs[o].src, outputs[o])
  BY DEF BatchInv, OutputsOK, Accounted
<1>2. ASSUME NEW b \in Batcher, NEW i \in DOMAIN told[b]
      PROVE  LET row == told[b][i]
             IN /\ \A j \in DOMAIN told[b] :
                     told[b][j].path = row.path /\ (Lost(told[b][j]) <=> Lost(row)) => i = j
                /\ row.outcome = "repaired" =>
                     /\ row.out \in DOMAIN outputs
                     /\ outputs[row.out].by = b /\ outputs[row.out].src = Resolve(row.path)
                     /\ row.receipt = "adjacent" => Holds(adjacent, row.out, outputs[row.out])
                     /\ row.receipt = "relocated" => Holds(receipts, Resolve(row.path), outputs[row.out])
                /\ row.reason = "exists" /\ row.out \in DOMAIN outputs =>
                     outputs[row.out].by # b \/ outputs[row.out].src = Resolve(row.path)
  <2> DEFINE row == told[b][i]
  <2>1. row \in Range(told[b])
    BY DEF Range
  <2>2. Apart(told[b]) /\ RowTrue(b, row)
    BY <2>1 DEF BatchInv, BatchOK, ListOK
  <2>3. \A j \in DOMAIN told[b] : told[b][j].path = row.path /\ (Lost(told[b][j]) <=> Lost(row)) => i = j
    BY <2>2 DEF Apart
  <2> HIDE DEF row
  <2> QED BY <2>2, <2>3 DEF RowTrue, RepairedOK, RefusedOK, row
<1> QED BY <1>1, <1>2 DEF ReceiptsAccounted

\* For any number of batches over the same output and manifest directories, beside
\* scans and agents and wherever each of them dies, every output has the receipt of
\* what it was made from, and no batch's report says otherwise (batch.py:repair_many).
THEOREM AccountedReceipts == BatchSpec => []ReceiptsAccounted
<1> USE ScanAssumption, BatchAssumption
<1>1. BatchInit => AllInv
  BY BatchInitKeeps
<1>2. AllInv /\ [BatchNext]_<<vars, batchVars>> => AllInv'
  BY BatchNextKeeps
<1>3. AllInv => ReceiptsAccounted
  BY InvAccounted DEF AllInv
<1> QED BY <1>1, <1>2, <1>3, PTL DEF BatchSpec

\* Nor does a scan beside batches report a stale verdict.
THEOREM CurrentBesideBatches == BatchSpec => []ResultsCurrent
<1> USE ScanAssumption, BatchAssumption
<1>1. BatchInit => AllInv
  BY BatchInitKeeps
<1>2. AllInv /\ [BatchNext]_<<vars, batchVars>> => AllInv'
  BY BatchNextKeeps
<1>3. AllInv => ResultsCurrent
  BY InvCurrent DEF AllInv, ScanAssumption
<1> QED BY <1>1, <1>2, <1>3, PTL DEF BatchSpec

\* And it reports every file it can reach once.
THEOREM OnceBesideBatches == BatchSpec => []EachFileOnce
<1> USE ScanAssumption, BatchAssumption
<1>1. BatchInit => AllInv
  BY BatchInitKeeps
<1>2. AllInv /\ [BatchNext]_<<vars, batchVars>> => AllInv'
  BY BatchNextKeeps
<1>3. AllInv => EachFileOnce
  BY InvOnce DEF AllInv
<1> QED BY <1>1, <1>2, <1>3, PTL DEF BatchSpec
===============================================================================

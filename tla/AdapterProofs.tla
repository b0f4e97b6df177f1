---------------------------- MODULE AdapterProofs ----------------------------
(***************************************************************************)
(* What an adapter adds to the load when it processes one line of a        *)
(* session file, for every line and every limit: findings and events that  *)
(* say where they come from, the damage the line has, the links, versions  *)
(* and places of its record, and nothing else.  The invariant that the     *)
(* lines read so far and the load fit together is stated here; that the    *)
(* reader keeps it is the subject of IngestProofs.                         *)
(***************************************************************************)
EXTENDS Ingest, FiniteSetTheorems, TLAPS

-----------------------------------------------------------------------------
(* Sequences.                                                              *)

LEMMA SequenceIs ==
  ASSUME NEW q
  PROVE  /\ IsSequence(q) => Len(q) \in Nat /\ DOMAIN q = 1..Len(q)
         /\ \A S : q \in Seq(S) => IsSequence(q)
<1>1. ASSUME IsSequence(q) PROVE Len(q) \in Nat /\ DOMAIN q = 1..Len(q)
  BY <1>1 DEF IsSequence
<1>2. ASSUME NEW S, q \in Seq(S) PROVE q \in Seq(ToSet(q))
  <2>1. Len(q) \in Nat /\ q \in [1..Len(q) -> S] /\ DOMAIN q = 1..Len(q)
    BY <1>2
  <2>2. \A i \in 1..Len(q) : q[i] \in ToSet(q)
    BY <2>1 DEF ToSet
  <2>3. q \in [1..Len(q) -> ToSet(q)]
    BY <2>1, <2>2
  <2> QED BY <2>1, <2>3
<1> QED BY <1>1, <1>2 DEF IsSequence

LEMMA EmptySequence == IsSequence(<< >>) /\ Len(<< >>) = 0 /\ DOMAIN << >> = {}
<1>1. << >> \in Seq({}) /\ Len(<< >>) = 0
  OBVIOUS
<1>2. IsSequence(<< >>)
  BY <1>1, SequenceIs
<1>3. DOMAIN << >> = 1..0
  BY <1>1, <1>2, SequenceIs
<1> QED BY <1>1, <1>2, <1>3

LEMMA OneElement ==
  ASSUME NEW x
  PROVE  IsSequence(<<x>>) /\ Len(<<x>>) = 1 /\ DOMAIN <<x>> = 1..1 /\ <<x>>[1] = x
<1>1. <<x>> \in Seq({x})
  OBVIOUS
<1> QED BY <1>1, SequenceIs

LEMMA Appended ==
  ASSUME NEW q, NEW x, IsSequence(q)
  PROVE  /\ IsSequence(Append(q, x)) /\ Len(Append(q, x)) = Len(q) + 1
         /\ DOMAIN Append(q, x) = 1..(Len(q) + 1)
         /\ \A k \in 1..Len(q) : Append(q, x)[k] = q[k]
         /\ Append(q, x)[Len(q) + 1] = x
<1> DEFINE S == ToSet(q) \cup {x}
<1>1. q \in Seq(ToSet(q))
  BY DEF IsSequence
<1>2. q \in Seq(S) /\ x \in S
  BY <1>1
<1>3. Append(q, x) \in Seq(S)
  BY <1>2
<1> HIDE DEF S
<1>4. IsSequence(Append(q, x))
  BY <1>3, SequenceIs
<1> QED BY <1>2, <1>4, SequenceIs

LEMMA Joined ==
  ASSUME NEW p, NEW q, IsSequence(p), IsSequence(q)
  PROVE  /\ IsSequence(p \o q) /\ Len(p \o q) = Len(p) + Len(q)
         /\ DOMAIN (p \o q) = 1..(Len(p) + Len(q))
         /\ \A k \in 1..Len(p) : (p \o q)[k] = p[k]
         /\ \A k \in 1..Len(q) : (p \o q)[Len(p) + k] = q[k]
<1> DEFINE S == ToSet(p) \cup ToSet(q)
<1>1. p \in Seq(ToSet(p)) /\ q \in Seq(ToSet(q))
  BY DEF IsSequence
<1>2. p \in Seq(S) /\ q \in Seq(S)
  BY <1>1
<1> HIDE DEF S
<1>3. p \o q \in Seq(S)
  BY <1>2
<1>4. IsSequence(p \o q)
  BY <1>3, SequenceIs
<1> QED BY <1>2, <1>4, SequenceIs

LEMMA Behind ==
  ASSUME NEW p, NEW n \in Nat, IsSequence(p), n <= Len(p)
  PROVE  LET s == SubSeq(p, n + 1, Len(p))
         IN /\ IsSequence(s) /\ Len(s) = Len(p) - n /\ DOMAIN s = 1..(Len(p) - n)
            /\ \A k \in 1..(Len(p) - n) : s[k] = p[n + k]
<1>1. p \in Seq(ToSet(p)) /\ Len(p) \in Nat
  BY SequenceIs DEF IsSequence
<1>2. SubSeq(p, n + 1, Len(p)) \in Seq(ToSet(p))
  BY <1>1
<1>3. IsSequence(SubSeq(p, n + 1, Len(p)))
  BY <1>2, SequenceIs
<1>4. Len(SubSeq(p, n + 1, Len(p))) = Len(p) - n
  BY <1>1
<1>5. \A k \in 1..(Len(p) - n) : SubSeq(p, n + 1, Len(p))[k] = p[n + k]
  BY <1>1
<1> QED BY <1>3, <1>4, <1>5, SequenceIs

LEMMA MinOfTwo ==
  ASSUME NEW a \in Int, NEW b \in Int
  PROVE  Min({a, b}) = IF a <= b THEN a ELSE b
<1> DEFINE m == IF a <= b THEN a ELSE b
<1>1. m \in {a, b} /\ \A x \in {a, b} : m <= x
  OBVIOUS
<1>2. \A x \in {a, b} : (\A y \in {a, b} : x <= y) => x = m
  OBVIOUS
<1> HIDE DEF m
<1>3. Min({a, b}) = m
  BY <1>1, <1>2 DEF Min
<1> QED BY <1>3 DEF m

LEMMA MinIs ==
  ASSUME NEW S \in SUBSET Int, NEW x \in S, \A y \in S : x <= y
  PROVE  Min(S) = x
<1>1. \A z \in S : (\A y \in S : z <= y) => z = x
  OBVIOUS
<1> QED BY <1>1 DEF Min

-----------------------------------------------------------------------------
(* Offsets.                                                                *)

Count(unused, unused2, n, l) == n + l.have
Lengths == INSTANCE FoldFacts WITH Op <- Count

LEMMA OffsetTurns ==
  ASSUME NEW f, IsFile(f)
  PROVE  /\ OffsetOf(f, 1) = 0
         /\ \A i \in 1..Len(f) : OffsetOf(f, i + 1) = OffsetOf(f, i) + f[i].have
<1>1. IsSequence(f) /\ f \in Seq(ToSet(f)) /\ Len(f) \in Nat /\ DOMAIN f = 1..Len(f)
  BY SequenceIs DEF IsFile, IsSequence
<1>2. ASSUME NEW s PROVE OffsetOf(f, s) = Lengths!Fold(0, 0, 0, SubSeq(f, 1, s - 1))
  BY DEF OffsetOf, Lengths!Fold, Count, FoldLeft, MapThenFoldSet, Lengths!MapThenFoldSet,
         Max, Lengths!Max
<1>3. OffsetOf(f, 1) = 0
  <2>1. SubSeq(f, 1, 1 - 1) = << >>
    BY <1>1
  <2>2. DOMAIN << >> = 1..Len(<< >>) /\ Len(<< >>) = 0
    BY EmptySequence, SequenceIs
  <2>3. PICK at : Lengths!Turns(0, 0, 0, << >>, at) /\ at[Len(<< >>)] = Lengths!Fold(0, 0, 0, << >>)
    BY <2>2, Lengths!FoldTurns
  <2> QED BY <1>2, <2>1, <2>2, <2>3 DEF Lengths!Turns
<1>4. ASSUME NEW i \in 1..Len(f) PROVE OffsetOf(f, i + 1) = OffsetOf(f, i) + f[i].have
  <2> DEFINE s == SubSeq(f, 1, i - 1)
  <2>1. s \in Seq(ToSet(f)) /\ f[i] \in ToSet(f)
    BY <1>1 DEF ToSet
  <2>2. SubSeq(f, 1, (i + 1) - 1) = Append(s, f[i])
    BY <1>1
  <2> HIDE DEF s
  <2>3. Lengths!Fold(0, 0, 0, Append(s, f[i])) = Count(0, 0, Lengths!Fold(0, 0, 0, s), f[i])
    BY <2>1, Lengths!FoldAppend
  <2> QED BY <1>2, <2>2, <2>3 DEF Count, s
<1> QED BY <1>3, <1>4

LEMMA OffsetIs ==
  ASSUME NEW f, IsFile(f)
  PROVE  /\ \A i \in 1..(Len(f) + 1) : OffsetOf(f, i) \in Nat
         /\ \A i \in 1..(Len(f) + 1) : OffsetOf(f, i) <= SizeOf(f)
         /\ SizeOf(f) = OffsetOf(f, Len(f) + 1)
<1>1. Len(f) \in Nat /\ DOMAIN f = 1..Len(f) /\ \A i \in 1..Len(f) : f[i].have \in Nat
  BY SequenceIs DEF IsFile, IsLine
<1>2. \A i \in 1..Len(f) : OffsetOf(f, i + 1) = OffsetOf(f, i) + f[i].have
  BY OffsetTurns
<1> DEFINE S == {n \in Nat : n <= Len(f) => OffsetOf(f, n + 1) \in Nat}
<1>3. 0 \in S
  BY OffsetTurns
<1>4. ASSUME NEW n \in Nat, n \in S PROVE n + 1 \in S
  <2> SUFFICES ASSUME n + 1 <= Len(f) PROVE OffsetOf(f, (n + 1) + 1) \in Nat
    OBVIOUS
  <2>1. n + 1 \in 1..Len(f) /\ OffsetOf(f, n + 1) \in Nat
    BY <1>1, <1>4
  <2> QED BY <1>1, <1>2, <2>1
<1>5. Nat \subseteq S
  <2> HIDE DEF S
  <2> QED BY <1>3, <1>4, Lengths!NatSet
<1>6. ASSUME NEW i \in 1..(Len(f) + 1) PROVE OffsetOf(f, i) \in Nat
  <2>1. i - 1 \in Nat /\ i - 1 <= Len(f) /\ (i - 1) + 1 = i
    BY <1>1
  <2> QED BY <1>5, <2>1
<1> HIDE DEF S
<1> DEFINE T == {n \in Nat : n <= Len(f) => OffsetOf(f, Len(f) + 1 - n) <= OffsetOf(f, Len(f) + 1)}
<1>7. 0 \in T
  BY <1>1, <1>6
<1>8. ASSUME NEW n \in Nat, n \in T PROVE n + 1 \in T
  <2> SUFFICES ASSUME n + 1 <= Len(f) PROVE OffsetOf(f, Len(f) + 1 - (n + 1)) <= OffsetOf(f, Len(f) + 1)
    OBVIOUS
  <2> DEFINE i == Len(f) + 1 - (n + 1)
  <2>1. i \in 1..Len(f) /\ i + 1 = Len(f) + 1 - n /\ i \in 1..(Len(f) + 1) /\ i + 1 \in 1..(Len(f) + 1)
        /\ Len(f) + 1 \in 1..(Len(f) + 1) /\ n <= Len(f)
    BY <1>1
  <2>2. OffsetOf(f, i + 1) <= OffsetOf(f, Len(f) + 1)
    BY <1>8, <2>1
  <2>3. OffsetOf(f, i + 1) = OffsetOf(f, i) + f[i].have /\ f[i].have \in Nat
    BY <1>1, <1>2, <2>1
  <2>4. OffsetOf(f, i) \in Nat /\ OffsetOf(f, i + 1) \in Nat /\ OffsetOf(f, Len(f) + 1) \in Nat
    BY <1>6, <2>1
  <2> HIDE DEF i
  <2>5. OffsetOf(f, i) <= OffsetOf(f, Len(f) + 1)
    BY <2>2, <2>3, <2>4
  <2> QED BY <2>5 DEF i
<1>9. Nat \subseteq T
  <2> HIDE DEF T
  <2> QED BY <1>7, <1>8, Lengths!NatSet
<1>10. ASSUME NEW i \in 1..(Len(f) + 1) PROVE OffsetOf(f, i) <= OffsetOf(f, Len(f) + 1)
  <2>1. Len(f) + 1 - i \in Nat /\ Len(f) + 1 - i <= Len(f) /\ Len(f) + 1 - (Len(f) + 1 - i) = i
    BY <1>1
  <2> HIDE DEF T
  <2>2. Len(f) + 1 - i \in T
    BY <1>9, <2>1
  <2> QED BY <2>1, <2>2 DEF T
<1> QED BY <1>6, <1>10 DEF SizeOf

-----------------------------------------------------------------------------
(* How a file may have grown.                                              *)

After(old, new) ==
  /\ Len(old) <= Len(new)
  /\ \A i \in DOMAIN old :
       old[i].have <= new[i].have /\ (old[i].text = "junk" => new[i].text = "junk")
Moved(old, new) ==
  /\ After(old, new)
  /\ \/ Len(old) < Len(new)
     \/ \E i \in DOMAIN old : old[i].have < new[i].have
     \/ \E i \in DOMAIN old : old[i].text # "junk" /\ new[i].text = "junk"

\* Nothing that has changed is the same: growth goes one way only.
LEMMA MovedOn ==
  ASSUME NEW f, NEW g, NEW h, IsFile(f), IsFile(g), IsFile(h), After(f, g), Moved(g, h)
  PROVE  Moved(f, h) /\ f # h /\ After(f, f)
<1>1. /\ Len(f) \in Nat /\ DOMAIN f = 1..Len(f) /\ \A i \in DOMAIN f : f[i].have \in Nat
      /\ Len(g) \in Nat /\ DOMAIN g = 1..Len(g) /\ \A i \in DOMAIN g : g[i].have \in Nat
      /\ Len(h) \in Nat /\ DOMAIN h = 1..Len(h) /\ \A i \in DOMAIN h : h[i].have \in Nat
  BY SequenceIs DEF IsFile, IsLine
<1>2. \A i \in DOMAIN f : i \in DOMAIN g /\ i \in DOMAIN h
  BY <1>1 DEF After, Moved
<1>3. After(f, h)
  BY <1>1, <1>2 DEF After, Moved
<1>4. Moved(f, h)
  BY <1>1, <1>2, <1>3 DEF After, Moved
<1>5. f # h
  BY <1>1, <1>4 DEF After, Moved
<1> QED BY <1>1, <1>4, <1>5 DEF After

\* What the agent does to the lines of a file.
LEMMA WriteMoves ==
  ASSUME Agent, IsFile(file)
  PROVE  /\ Moved(file, file') /\ IsFile(file')
         /\ Len(file) <= Len(file') /\ \A i \in DOMAIN file : file'[i].rec = file[i].rec
         /\ \A i \in DOMAIN file' : i \notin DOMAIN file => \E line \in NewLines : file'[i].rec = line.rec
<1>1. Len(file) \in Nat /\ DOMAIN file = 1..Len(file) /\ IsSequence(file)
      /\ \A i \in 1..Len(file) : IsLine(file[i]) /\ (i < Len(file) => Ended(file[i]))
  BY SequenceIs DEF IsFile
<1>2. CASE AppendPart
  <2>0. PICK line \in NewLines : \E n \in 1..line.size : file' = Append(file, [line EXCEPT !.have = n])
    BY <1>2 DEF AppendPart, Write
  <2>1. PICK n \in 1..line.size : file' = Append(file, [line EXCEPT !.have = n])
    BY <2>0
  <2> DEFINE l == [line EXCEPT !.have = n]
  <2>2. IsLine(line)
    BY ScenarioAssumption
  <2>3. IsLine(l) /\ l.rec = line.rec
    BY <2>2 DEF IsLine
  <2> HIDE DEF l
  <2>4. file' = Append(file, l)
    BY <2>1 DEF l
  <2>5. /\ IsSequence(file') /\ Len(file') = Len(file) + 1 /\ DOMAIN file' = 1..(Len(file) + 1)
        /\ \A k \in 1..Len(file) : file'[k] = file[k]
        /\ file'[Len(file) + 1] = l
    BY <1>1, <2>4, Appended
  <2>6. \A i \in 1..Len(file) : Ended(file[i]) /\ file[i].have \in Nat
    BY <1>1, <1>2 DEF AppendPart, IsLine
  <2>7. IsFile(file')
    <3> SUFFICES ASSUME NEW i \in 1..(Len(file) + 1)
                 PROVE  IsLine(file'[i]) /\ (i < Len(file') => Ended(file'[i]))
      BY <2>5 DEF IsFile
    <3>1. CASE i = Len(file) + 1
      BY <1>1, <2>3, <2>5, <3>1
    <3>2. CASE i \in 1..Len(file)
      BY <1>1, <2>5, <2>6, <3>2
    <3> QED BY <1>1, <3>1, <3>2
  <2>8. Moved(file, file')
    BY <1>1, <2>5, <2>6 DEF Moved, After
  <2> QED BY <1>1, <2>3, <2>5, <2>7, <2>8
<1>3. CASE AppendRest
  <2>1. PICK n \in Last(file).have + 1 .. Last(file).size : file' = [file EXCEPT ![Len(file)].have = n]
    BY <1>3 DEF AppendRest, Write
  <2>2. file # << >> /\ Last(file) = file[Len(file)] /\ Len(file) \in 1..Len(file)
    <3>1. file # << >>
      BY <1>3 DEF AppendRest
    <3>2. Len(file) # 0
      BY <1>1, <3>1 DEF IsSequence
    <3> QED BY <1>1, <3>1, <3>2 DEF Last
  <2>3. IsLine(file[Len(file)])
    BY <1>1, <2>2
  <2>4. PICK l :
          /\ IsLine(l) /\ l.rec = file[Len(file)].rec /\ l.text = file[Len(file)].text
          /\ file[Len(file)].have < l.have /\ l.have \in Nat /\ file[Len(file)].have \in Nat
          /\ file' = [file EXCEPT ![Len(file)] = l]
    <3> DEFINE l == [file[Len(file)] EXCEPT !.have = n]
    <3>1. IsLine(l) /\ l.rec = file[Len(file)].rec /\ l.text = file[Len(file)].text
          /\ file[Len(file)].have < l.have /\ l.have \in Nat /\ file[Len(file)].have \in Nat
      BY <2>1, <2>2, <2>3 DEF IsLine
    <3>2. file' = [file EXCEPT ![Len(file)] = l]
      BY <2>1
    <3> QED BY <3>1, <3>2
  <2>6. /\ IsSequence(file') /\ Len(file') = Len(file) /\ DOMAIN file' = DOMAIN file
        /\ \A k \in 1..Len(file) : file'[k] = IF k = Len(file) THEN l ELSE file[k]
    <3> DEFINE S == ToSet(file) \cup {l}
    <3>1. file \in Seq(S)
      <4>1. file \in Seq(ToSet(file))
        BY <1>1 DEF IsSequence
      <4> QED BY <4>1
    <3>2. l \in S
      OBVIOUS
    <3> HIDE DEF S
    <3>3. file' \in Seq(S)
      BY <2>2, <2>4, <3>1, <3>2
    <3>4. IsSequence(file')
      BY <3>3, SequenceIs
    <3> QED BY <1>1, <2>2, <2>4, <3>1, <3>4
  <2>7. IsFile(file')
    <3> SUFFICES ASSUME NEW i \in 1..Len(file)
                 PROVE  IsLine(file'[i]) /\ (i < Len(file) => Ended(file'[i]))
      BY <1>1, <2>6 DEF IsFile
    <3>1. CASE i = Len(file)
      BY <1>1, <2>4, <2>6, <3>1
    <3>2. CASE i # Len(file)
      BY <1>1, <2>6, <3>2
    <3> QED BY <3>1, <3>2
  <2>8. \A i \in 1..Len(file) : file[i].have \in Nat
    BY <1>1 DEF IsLine
  <2>9. \A i \in DOMAIN file : file[i].have <= file'[i].have /\ (file[i].text = "junk" => file'[i].text = "junk")
    BY <1>1, <2>4, <2>6, <2>8
  <2>10. Len(file) \in DOMAIN file /\ file[Len(file)].have < file'[Len(file)].have
    BY <1>1, <2>2, <2>4, <2>6
  <2>13. DOMAIN file' = DOMAIN file /\ Len(file) <= Len(file')
    <3>1. Len(file') = Len(file)
      BY <2>6
    <3>2. DOMAIN file' = DOMAIN file
      BY <2>6
    <3>3. Len(file) \in Nat
      BY <1>1
    <3> QED BY <3>1, <3>2, <3>3
  <2>11. Moved(file, file')
    <3>1. After(file, file')
      BY <2>9, <2>13 DEF After
    <3>2. \E i \in DOMAIN file : file[i].have < file'[i].have
      BY <2>10
    <3> QED BY <3>1, <3>2 DEF Moved
  <2>12. \A i \in DOMAIN file : file'[i].rec = file[i].rec
    BY <1>1, <2>4, <2>6
  <2> QED BY <2>7, <2>11, <2>12, <2>13
<1>4. CASE Rewrite
  <2>1. PICK i \in DOMAIN file : file[i].text # "junk" /\ file' = [file EXCEPT ![i].text = "junk"]
    BY <1>4 DEF Rewrite, Write
  <2> DEFINE l == [file[i] EXCEPT !.text = "junk"]
  <2>2. IsLine(file[i])
    BY <1>1, <2>1
  <2>3. IsLine(l) /\ l.rec = file[i].rec /\ l.text = "junk" /\ file[i].have = l.have /\ l.size = file[i].size
    BY <2>2 DEF IsLine
  <2>4. file' = [file EXCEPT ![i] = l]
    BY <2>1
  <2> HIDE DEF l
  <2>5. /\ IsSequence(file') /\ Len(file') = Len(file) /\ DOMAIN file' = DOMAIN file
        /\ \A k \in 1..Len(file) : file'[k] = IF k = i THEN l ELSE file[k]
    <3> DEFINE S == ToSet(file) \cup {l}
    <3>1. file \in Seq(S)
      <4>1. file \in Seq(ToSet(file))
        BY <1>1 DEF IsSequence
      <4> QED BY <4>1
    <3>2. l \in S
      OBVIOUS
    <3> HIDE DEF S
    <3>3. file' \in Seq(S)
      BY <1>1, <2>4, <3>1, <3>2
    <3>4. IsSequence(file')
      BY <3>3, SequenceIs
    <3> QED BY <1>1, <2>1, <2>4, <3>1, <3>4
  <2>6. IsFile(file')
    <3> SUFFICES ASSUME NEW k \in 1..Len(file)
                 PROVE  IsLine(file'[k]) /\ (k < Len(file) => Ended(file'[k]))
      BY <1>1, <2>5 DEF IsFile
    <3> QED BY <1>1, <2>3, <2>5 DEF Ended
  <2>7. \A k \in 1..Len(file) : file[k].have \in Nat
    BY <1>1 DEF IsLine
  <2>8. Moved(file, file')
    BY <1>1, <2>1, <2>3, <2>5, <2>7 DEF Moved, After
  <2> QED BY <1>1, <2>3, <2>5, <2>6, <2>8
<1> QED BY <1>2, <1>3, <1>4 DEF Agent

-----------------------------------------------------------------------------
(* The invariant: the reader.                                              *)

Steady == format \in Live => ~touched
Waiting == {"new", "stat", "guarded"}
AtWork == {"read", "drain"}
Loaded == {"end", "restat", "verified", "done"}
Streamed == format \notin Documents

FileFits(f) ==
  /\ IsFile(f)
  /\ format \in Documents => f # << >> /\ IsSequence(f[1].rec.items)
  /\ format = "claude" => \A i \in DOMAIN f : IsRecord(f[i].rec)

\* What is read is what the guard saw, or the reader is not to be believed.
FileOK ==
  /\ format \in Formats
  /\ FileFits(file)
  /\ format = "claude" => \A line \in NewLines : IsRecord(line.rec)
  /\ pc \in AtWork \cup Loaded =>
       IF format \in Live THEN ~touched => mapped \in {None, SizeOf(file)}
                          ELSE mapped = None /\ FileFits(source) /\ SizeOf(source) <= MaxFile
GuardOK ==
  /\ "content" \in DOMAIN guard
  /\ pc \in {"restat", "verified"} => format = "events"
  /\ format = "events" =>
       /\ pc \notin {"new", "stat"} =>
            /\ IsFile(guard.content) /\ After(guard.content, file)
            /\ touched => Moved(guard.content, file)
       /\ pc = "verified" => ~touched

\* Nothing has been read yet.
StartOK ==
  pc \in Waiting =>
    /\ ~touched /\ mapped = None
    /\ pos = <<1, 0>> /\ lineNumber = 0 /\ totalBytes = 0 /\ recordCount = 0
    /\ pendingRaw = NoRaw /\ load = EmptyLoad

IsRaw(raw) ==
  raw = Raw(raw.text, raw.ended, raw.truncated, raw.rec, raw.line, raw.ordinal, raw.offset, raw.end)

\* The first piece of line m with its coordinates, but for the ordinal and the end.
OfLine(raw, m) ==
  /\ raw.line = m /\ raw.rec = Lines[m].rec /\ raw.offset = OffsetOf(Lines, m)
  /\ raw.truncated = Oversize(m)
  /\ ~Oversize(m) => raw.text = LineText(m) /\ raw.ended = Ended(Lines[m])
RawIs(raw, m) ==
  /\ IsRaw(raw) /\ OfLine(raw, m)
  /\ raw.ordinal = OrdinalAt(m) /\ raw.end = OffsetOf(Lines, m + 1)

\* The position: in front of a line, behind the unfinished last one, or inside of a
\* line over the limit.
PositionOK ==
  /\ pos = <<pos[1], pos[2]>> /\ pos[1] \in 1..(Len(Lines) + 1) /\ pos[2] \in Nat
  /\ totalBytes = OffsetOf(Lines, pos[1]) + pos[2]
  /\ pc = "read" =>
       \/ pos[2] = 0 /\ lineNumber = pos[1] - 1
       \/ /\ pos[1] = Len(Lines) /\ lineNumber = Len(Lines)
          /\ pos[2] = Lines[pos[1]].have /\ ~Ended(Lines[pos[1]])
  /\ pc = "drain" =>
       /\ format \in Live /\ pos[1] <= Len(Lines) /\ lineNumber = pos[1]
       /\ MaxLine < pos[2] /\ pos[2] <= Lines[pos[1]].have /\ pos[2] < Lines[pos[1]].size
       /\ IsRaw(drained) /\ OfLine(drained, pos[1])

-----------------------------------------------------------------------------
(* The invariant: a load is about the records in front of line n.          *)

Rows(n) == {i \in RecordAt : i < n}
Sound(n) == {i \in Rows(n) : ~Damaged(i)}
Bad(n) == {i \in Rows(n) : Damaged(i) /\ ~Torn(i)}

LoadFields ==
  {"events", "findings", "real", "synthetic", "raised", "sl301", "unsupported", "baseline", "drift",
   "unknown", "links", "last", "lastOrdinal", "gap", "tail", "closing", "writers"}
IsLoad(L) == DOMAIN L = LoadFields /\ IsSequence(L.events) /\ IsSequence(L.findings)

FindingAt(code, i) ==
  [code |-> code, line |-> i, offset |-> OffsetOf(Lines, i), end |-> OffsetOf(Lines, i + 1),
   ordinal |-> OrdinalAt(i)]

\* What a reader says of a line.
LineCodes == {"SL001", "SL002", "SL301", "SL302", "SL303"}
Coded(L) == \A k \in DOMAIN L.findings : L.findings[k].code \in LineCodes

\* What it says in the end, of the whole file as well.
Said(L) == IsSequence(L.findings) /\ Coded(L) /\ \A f \in L.closing : f.code \in {"SL304", "SL306"}

\* What was made of the lines says where it comes from.
WhereOK(L, n) ==
  /\ IsLoad(L) /\ Coded(L)
  /\ \A k \in DOMAIN L.findings :
       L.findings[k].line \in Rows(n) /\ L.findings[k] = FindingAt(L.findings[k].code, L.findings[k].line)
  /\ \A k \in DOMAIN L.events :
       L.events[k].line \in Sound(n) /\ L.events[k].offset = OffsetOf(Lines, L.events[k].line)
  /\ \A j, k \in DOMAIN L.events : j < k => L.events[j].line <= L.events[k].line
  /\ L.unknown \subseteq Rows(n)

Passed(L, i) ==
  \/ OrdinalAt(i) = 1 /\ LineText(i) = "header"
  \/ format = "canonical" /\ L.gap
  \/ format = "claude" /\ Lines[i].rec.class = "metadata" /\ ~Lines[i].rec.uuid

ToldOK(L, n) ==
  /\ \A i \in Rows(n) :
       \/ \E k \in DOMAIN L.events : L.events[k].line = i
       \/ \E k \in DOMAIN L.findings : L.findings[k].line = i
       \/ i \in L.unknown
       \/ Passed(L, i)
  /\ \A k \in DOMAIN L.events :
       format \in DOMAIN NewTypes /\ Lines[L.events[k].line].rec.class \in NewTypes[format] =>
         \/ \E j \in DOMAIN L.findings : L.findings[j].line = L.events[k].line /\ L.findings[j].code = "SL302"
         \/ L.events[k].line \in L.unknown

\* Damage so far, and where the tail begins.
Damage == {"SL001", "SL002"}
DamageOK(L, n) ==
  format # "canonical" =>
    /\ \A i \in Rows(n) : Damaged(i) => \E k \in DOMAIN L.findings : L.findings[k] = DamageAt(i)
    /\ \A k \in DOMAIN L.findings : L.findings[k].code \in Damage =>
         Damaged(L.findings[k].line) /\ L.findings[k] = DamageAt(L.findings[k].line)
    /\ \A j, k \in DOMAIN L.findings :
         j < k /\ L.findings[j].code \in Damage /\ L.findings[k].code \in Damage =>
           L.findings[j].line # L.findings[k].line
TailOK(L, n) ==
  format # "canonical" =>
    /\ L.tail = [begun |-> L.tail.begun, end |-> L.tail.end, records |-> L.tail.records, bytes |-> L.tail.bytes]
    /\ L.tail.begun \in BOOLEAN /\ (L.tail.begun <=> Bad(n) # {})
    /\ L.tail.begun =>
         \E i \in Bad(n) : (\A j \in Bad(n) : i <= j) /\ L.tail.end = OffsetOf(Lines, i + 1)

Ordinal(L, k) == Lines[L.events[k].line].rec.ordinal
Adjacent(L, k) ==
  /\ k > 1
  /\ \A i \in L.events[k - 1].line + 1 .. L.events[k].line - 1 : i \notin RecordAt
  /\ None \in {Ordinal(L, k), Ordinal(L, k - 1)} \/ Ordinal(L, k) = Ordinal(L, k - 1) + 1
LinkOK(L, n) ==
  format = "codex" =>
    /\ \A k \in DOMAIN L.events :
         L.events[k].parent = IF Adjacent(L, k) THEN L.events[k - 1].id ELSE None
    /\ Len(L.events) = 0 => L.last = None
    /\ Len(L.events) # 0 =>
         /\ L.last = L.events[Len(L.events)].id /\ L.lastOrdinal = Ordinal(L, Len(L.events))
         /\ L.gap <=> \E i \in Rows(n) : i > L.events[Len(L.events)].line

\* Versions so far.
Marked(n) ==
  {i \in Sound(n) : Lines[i].rec.version \in Supported /\ (format = "claude" => Lines[i].rec.marker)}
Unsupported(n) == \E i \in Sound(n) : Lines[i].rec.version \notin Supported \cup {None}
Changed(n) ==
  \/ \E i, j \in Marked(n) : Lines[i].rec.version # Lines[j].rec.version
  \/ \E i \in Sound(n) : Lines[i].rec.foreign
VersionOK(L, n) ==
  format \in {"codex", "claude"} =>
    /\ (L.sl301 <=> Unsupported(n)) /\ (L.unsupported <=> Unsupported(n))
    /\ (\E k \in DOMAIN L.findings : L.findings[k].code = "SL301") <=> Unsupported(n)
    /\ \A j, k \in DOMAIN L.findings : L.findings[j].code = "SL301" /\ L.findings[k].code = "SL301" => j = k
    /\ ~Unsupported(n) =>
         /\ L.baseline = None => Marked(n) = {}
         /\ L.baseline # None => \E i \in Marked(n) : Lines[i].rec.version = L.baseline
         /\ L.drift = {} => ~Changed(n)
         /\ L.drift # {} => Changed(n)

\* The events of one record are a chain or siblings, in the place of the record.
GroupFits(es, rec) ==
  /\ \E e \in es : e.parent = rec.parent
  /\ \A e \in es : e.parent # rec.parent => \E above \in es \ {e} : above.id = e.parent
  /\ rec.id # None /\ ~Parallel(rec) => \E e \in es : e.id = rec.id
Group(L, i) == {e \in ToSet(L.events) : e.line = i}
PlaceOK(L) ==
  format \in {"claude", "openai"} =>
    \A e \in ToSet(L.events) : GroupFits(Group(L, e.line), Lines[e.line].rec)

LoadOK(L, n) ==
  /\ WhereOK(L, n) /\ ToldOK(L, n) /\ DamageOK(L, n) /\ TailOK(L, n)
  /\ LinkOK(L, n) /\ VersionOK(L, n) /\ PlaceOK(L)

\* What is added when the file has ended.
ClosedOK(L) ==
  /\ L.closing = DriftFindings(L) \cup UnknownFindings(L)
  /\ format # "canonical" /\ L.tail.begun =>
       LET torn == TornOffsets(L)
           end == IF torn = {} THEN SizeOf(Lines) ELSE CHOOSE o \in torn : TRUE
       IN L.tail.bytes = IF end > L.tail.end THEN end - L.tail.end ELSE 0

-----------------------------------------------------------------------------
(* The invariant, together.                                                *)

\* Lines up to a have been read to their end.
PendingUpTo(a) ==
  /\ recordCount = OrdinalAt(a)
  /\ pendingRaw = NoRaw => (\A j \in RecordAt : j > a) /\ load = EmptyLoad
  /\ pendingRaw # NoRaw =>
       /\ pendingRaw.line \in RecordAt /\ pendingRaw.line <= a
       /\ \A j \in RecordAt : j <= a => j <= pendingRaw.line
       /\ RawIs(pendingRaw, pendingRaw.line) /\ LoadOK(load, pendingRaw.line)
PendingOK == PendingUpTo(IF pc = "read" THEN lineNumber ELSE lineNumber - 1)

ReaderOK == Streamed /\ Steady /\ pc \in AtWork => PositionOK /\ PendingOK
LoadedOK ==
  Streamed /\ Steady /\ pc \in Loaded =>
    \/ LoadOK(load, Len(Lines) + 1) /\ ClosedOK(load)
    \/ format = "canonical" /\ RecordAt = {} /\ IsLoad(load) /\ Said(load) /\ load.events = << >>
DocumentOK == ~Streamed /\ pc = "done" => ItemsAccounted /\ KeepsItsPlace /\ Said(load)

ReadInv == FileOK /\ GuardOK /\ StartOK /\ ReaderOK /\ LoadedOK /\ DocumentOK

-----------------------------------------------------------------------------
(* As long as the lines and the format are the same, so is all that is     *)
(* said of them.                                                           *)

LEMMA SameLines ==
  ASSUME Lines' = Lines, format' = format
  PROVE  /\ \A i : LineText(i)' = LineText(i) /\ Oversize(i)' = Oversize(i)
         /\ RecordAt' = RecordAt
         /\ \A i : OrdinalAt(i)' = OrdinalAt(i)
         /\ \A i : Damaged(i)' = Damaged(i) /\ Torn(i)' = Torn(i)
         /\ \A i : DamageAt(i)' = DamageAt(i)
         /\ \A c, i : FindingAt(c, i)' = FindingAt(c, i)
         /\ \A r : Parallel(r)' = Parallel(r)
<1>1. ASSUME NEW i PROVE LineText(i)' = LineText(i) /\ Oversize(i)' = Oversize(i)
  BY DEF LineText, Oversize, OverLimit
<1>2. RecordAt' = RecordAt
  BY <1>1 DEF RecordAt
<1>3. ASSUME NEW i PROVE OrdinalAt(i)' = OrdinalAt(i)
  BY <1>2 DEF OrdinalAt
<1>4. ASSUME NEW i PROVE Damaged(i)' = Damaged(i) /\ Torn(i)' = Torn(i)
  BY <1>1, <1>3 DEF Damaged, Torn
<1>5. ASSUME NEW i PROVE DamageAt(i)' = DamageAt(i)
  BY <1>3, <1>4 DEF DamageAt
<1>6. ASSUME NEW c, NEW i PROVE FindingAt(c, i)' = FindingAt(c, i)
  BY <1>3 DEF FindingAt
<1>7. ASSUME NEW r PROVE Parallel(r)' = Parallel(r)
  BY DEF Parallel
<1> QED BY <1>1, <1>2, <1>3, <1>4, <1>5, <1>6, <1>7

LEMMA SameRows ==
  ASSUME Lines' = Lines, format' = format
  PROVE  /\ \A n : Rows(n)' = Rows(n) /\ Sound(n)' = Sound(n) /\ Bad(n)' = Bad(n)
         /\ \A n : Marked(n)' = Marked(n)
         /\ \A n : Unsupported(n)' = Unsupported(n) /\ Changed(n)' = Changed(n)
         /\ \A L, i : Passed(L, i)' = Passed(L, i)
         /\ \A L, k : Adjacent(L, k)' = Adjacent(L, k) /\ Ordinal(L, k)' = Ordinal(L, k)
         /\ \A es, r : GroupFits(es, r)' = GroupFits(es, r)
<1>1. ASSUME NEW n PROVE Rows(n)' = Rows(n)
  BY SameLines DEF Rows
<1>2. ASSUME NEW n PROVE Sound(n)' = Sound(n) /\ Bad(n)' = Bad(n)
  BY <1>1, SameLines DEF Sound, Bad
<1>3. ASSUME NEW n PROVE Marked(n)' = Marked(n)
  BY <1>2 DEF Marked
<1>4. ASSUME NEW n PROVE Unsupported(n)' = Unsupported(n) /\ Changed(n)' = Changed(n)
  BY <1>2, <1>3 DEF Unsupported, Changed
<1>5. ASSUME NEW L, NEW i PROVE Passed(L, i)' = Passed(L, i)
  BY SameLines DEF Passed
<1>6. ASSUME NEW L, NEW k PROVE Adjacent(L, k)' = Adjacent(L, k) /\ Ordinal(L, k)' = Ordinal(L, k)
  BY SameLines DEF Adjacent, Ordinal
<1>7. ASSUME NEW es, NEW r PROVE GroupFits(es, r)' = GroupFits(es, r)
  BY SameLines DEF GroupFits
<1> QED BY <1>1, <1>2, <1>3, <1>4, <1>5, <1>6, <1>7

LEMMA SameLoad ==
  ASSUME Lines' = Lines, format' = format
  PROVE  /\ \A L, n : LoadOK(L, n)' = LoadOK(L, n)
         /\ \A L : ClosedOK(L)' = ClosedOK(L)
         /\ \A raw, m : OfLine(raw, m)' = OfLine(raw, m) /\ RawIs(raw, m)' = RawIs(raw, m)
<1>1. ASSUME NEW L, NEW n PROVE WhereOK(L, n)' = WhereOK(L, n)
  BY SameLines, SameRows DEF WhereOK
<1>2. ASSUME NEW L, NEW n PROVE ToldOK(L, n)' = ToldOK(L, n)
  BY SameLines, SameRows DEF ToldOK
<1>3. ASSUME NEW L, NEW n PROVE DamageOK(L, n)' = DamageOK(L, n) /\ TailOK(L, n)' = TailOK(L, n)
  BY SameLines, SameRows DEF DamageOK, TailOK
<1>4. ASSUME NEW L, NEW n PROVE LinkOK(L, n)' = LinkOK(L, n)
  BY SameLines, SameRows DEF LinkOK
<1>5. ASSUME NEW L, NEW n PROVE VersionOK(L, n)' = VersionOK(L, n)
  BY SameLines, SameRows DEF VersionOK
<1>6. ASSUME NEW L PROVE PlaceOK(L)' = PlaceOK(L)
  BY SameLines, SameRows DEF PlaceOK
<1>7. ASSUME NEW L PROVE ClosedOK(L)' = ClosedOK(L)
  BY DEF ClosedOK
<1>8. ASSUME NEW raw, NEW m PROVE OfLine(raw, m)' = OfLine(raw, m) /\ RawIs(raw, m)' = RawIs(raw, m)
  BY SameLines DEF OfLine, RawIs
<1> QED BY <1>1, <1>2, <1>3, <1>4, <1>5, <1>6, <1>7, <1>8 DEF LoadOK

-----------------------------------------------------------------------------
(* Lines.                                                                  *)

LEMMA LinesFit ==
  ASSUME FileOK, pc \in AtWork \cup Loaded, Steady
  PROVE  /\ FileFits(Lines) /\ IsFile(Lines) /\ format \in Formats
         /\ mapped \in {None, SizeOf(Lines)}
         /\ format \notin Live => mapped = None /\ SizeOf(Lines) <= MaxFile
BY DEF FileOK, FileFits, Lines, Steady

LEMMA LineIs ==
  ASSUME NEW f, IsFile(f)
  PROVE  /\ Len(f) \in Nat /\ DOMAIN f = 1..Len(f)
         /\ \A i \in 1..Len(f) :
              /\ f[i].have \in Nat /\ f[i].size \in Nat /\ 1 <= f[i].have /\ f[i].have <= f[i].size
              /\ (Ended(f[i]) <=> f[i].have = f[i].size) /\ (i < Len(f) => Ended(f[i]))
              /\ OffsetOf(f, i + 1) = OffsetOf(f, i) + f[i].have
              /\ OffsetOf(f, i) \in Nat /\ OffsetOf(f, i + 1) \in Nat /\ OffsetOf(f, i + 1) <= SizeOf(f)
         /\ OffsetOf(f, 1) = 0 /\ OffsetOf(f, Len(f) + 1) = SizeOf(f) /\ SizeOf(f) \in Nat
<1>1. Len(f) \in Nat /\ DOMAIN f = 1..Len(f)
  BY SequenceIs DEF IsFile
<1>2. OffsetOf(f, Len(f) + 1) = SizeOf(f) /\ SizeOf(f) \in Nat /\ OffsetOf(f, 1) = 0
  BY <1>1, OffsetIs, OffsetTurns
<1>3. ASSUME NEW i \in 1..Len(f)
      PROVE  /\ f[i].have \in Nat /\ f[i].size \in Nat /\ 1 <= f[i].have /\ f[i].have <= f[i].size
             /\ (Ended(f[i]) <=> f[i].have = f[i].size) /\ (i < Len(f) => Ended(f[i]))
  BY <1>1, <1>3 DEF IsFile, IsLine, Ended
<1>4. ASSUME NEW i \in 1..Len(f)
      PROVE  /\ OffsetOf(f, i + 1) = OffsetOf(f, i) + f[i].have
             /\ OffsetOf(f, i) \in Nat /\ OffsetOf(f, i + 1) \in Nat /\ OffsetOf(f, i + 1) <= SizeOf(f)
  <2>1. i \in 1..(Len(f) + 1) /\ i + 1 \in 1..(Len(f) + 1)
    BY <1>1
  <2> QED BY <2>1, OffsetIs, OffsetTurns
<1> QED BY <1>1, <1>2, <1>3, <1>4

LEMMA RecordsFinite ==
  ASSUME IsFile(Lines), NEW a \in Nat
  PROVE  /\ RecordAt \subseteq 1..Len(Lines) /\ IsFiniteSet(RecordAt)
         /\ IsFiniteSet({j \in RecordAt : j <= a}) /\ OrdinalAt(a) \in Nat
<1>1. RecordAt \subseteq 1..Len(Lines) /\ Len(Lines) \in Nat
  BY LineIs DEF RecordAt
<1>2. IsFiniteSet(1..Len(Lines))
  BY <1>1, FS_Interval
<1>3. IsFiniteSet(RecordAt)
  BY <1>1, <1>2, FS_Subset
<1>4. IsFiniteSet({j \in RecordAt : j <= a})
  BY <1>3, FS_Subset
<1>5. OrdinalAt(a) \in Nat
  BY <1>4, FS_CardinalityType DEF OrdinalAt
<1> QED BY <1>1, <1>3, <1>4, <1>5

\* Ordinals count the records.
LEMMA OrdinalIs ==
  ASSUME IsFile(Lines), NEW i \in 1..Len(Lines)
  PROVE  /\ OrdinalAt(0) = 0
         /\ i \in RecordAt => OrdinalAt(i) = OrdinalAt(i - 1) + 1
         /\ i \notin RecordAt => OrdinalAt(i) = OrdinalAt(i - 1)
         /\ OrdinalAt(i) \in Nat /\ OrdinalAt(i - 1) \in Nat
<1>1. Len(Lines) \in Nat /\ i \in Nat /\ i - 1 \in Nat /\ \A j \in RecordAt : j \in Nat /\ 1 <= j
  BY LineIs DEF RecordAt
<1>2. OrdinalAt(0) = 0
  <2>1. {j \in RecordAt : j <= 0} = {}
    BY <1>1
  <2> QED BY <2>1, FS_EmptySet DEF OrdinalAt
<1>3. OrdinalAt(i) \in Nat /\ OrdinalAt(i - 1) \in Nat /\ IsFiniteSet({j \in RecordAt : j <= i - 1})
  BY <1>1, RecordsFinite
<1>4. ASSUME i \in RecordAt PROVE OrdinalAt(i) = OrdinalAt(i - 1) + 1
  <2>1. {j \in RecordAt : j <= i} = {j \in RecordAt : j <= i - 1} \cup {i} /\ i \notin {j \in RecordAt : j <= i - 1}
    <3>1. \A j \in RecordAt : j <= i <=> (j <= i - 1 \/ j = i)
      BY <1>1
    <3>2. ~(i <= i - 1)
      BY <1>1
    <3> QED BY <1>4, <3>1, <3>2
  <2> QED BY <1>3, <2>1, FS_AddElement DEF OrdinalAt
<1>5. ASSUME i \notin RecordAt PROVE OrdinalAt(i) = OrdinalAt(i - 1)
  <2>1. {j \in RecordAt : j <= i} = {j \in RecordAt : j <= i - 1}
    BY <1>1, <1>5
  <2> QED BY <2>1 DEF OrdinalAt
<1> QED BY <1>2, <1>3, <1>4, <1>5

-----------------------------------------------------------------------------
(* Reading.                                                                *)

\* Neither the mapping nor the pieces hide anything of the line at hand.
LEMMA ReadLineIs ==
  ASSUME FileOK, Streamed, Steady, pc \in AtWork, PositionOK, NEW size \in Nat
  PROVE  LET p == ReadLine(size)
         IN /\ p.line = pos[1] /\ p.from = pos[2]
            /\ p = [line |-> p.line, from |-> p.from, to |-> p.to]
            /\ pos[1] <= Len(Lines) =>
                 p.to = IF Lines[pos[1]].have <= pos[2] + size THEN Lines[pos[1]].have ELSE pos[2] + size
<1> DEFINE here == pos[1]
           p == ReadLine(size)
<1>1. IsFile(Lines) /\ mapped \in {None, SizeOf(Lines)}
  BY LinesFit
<1>2. p.line = here /\ p.from = pos[2] /\ p = [line |-> p.line, from |-> p.from, to |-> p.to]
  BY DEF ReadLine
<1>3. ASSUME here <= Len(Lines)
      PROVE  p.to = IF Lines[here].have <= pos[2] + size THEN Lines[here].have ELSE pos[2] + size
  <2> DEFINE have == Lines[here].have
             seen == IF mapped = None THEN have ELSE Min({have, pos[2] + mapped - totalBytes})
  <2>1. here \in 1..Len(Lines) /\ pos[2] \in Nat /\ totalBytes = OffsetOf(Lines, here) + pos[2]
    BY <1>1, <1>3, LineIs DEF PositionOK
  <2>2. have \in Nat /\ OffsetOf(Lines, here) \in Nat /\ SizeOf(Lines) \in Nat
        /\ OffsetOf(Lines, here) + have <= SizeOf(Lines)
    BY <1>1, <2>1, LineIs
  <2>3. p.to = Min({seen, pos[2] + size})
    <3>1. ~(here > Len(Lines))
      BY <1>1, <2>1, LineIs
    <3>2. (IF here > Len(Lines) THEN 0 ELSE have) = have
      BY <3>1
    <3> QED BY <3>2 DEF ReadLine
  <2>4. seen = have
    <3>1. CASE mapped = None
      BY <3>1
    <3>2. CASE mapped = SizeOf(Lines) /\ mapped # None
      <4>1. pos[2] + mapped - totalBytes \in Int /\ have <= pos[2] + mapped - totalBytes
        BY <2>1, <2>2, <3>2
      <4> QED BY <2>2, <3>2, <4>1, MinOfTwo
    <3> QED BY <1>1, <3>1, <3>2
  <2>5. pos[2] + size \in Int
    BY <2>1
  <2> HIDE DEF seen
  <2> QED BY <2>2, <2>3, <2>4, <2>5, MinOfTwo
<1> QED BY <1>2, <1>3

LEMMA SkipKeeps ==
  ASSUME NEW L, NEW n, NEW k, Rows(k) = Rows(n), LoadOK(L, n)
  PROVE  LoadOK(L, k)
<1>1. Sound(k) = Sound(n) /\ Bad(k) = Bad(n)
  BY DEF Sound, Bad
<1>2. Marked(k) = Marked(n) /\ Unsupported(k) = Unsupported(n) /\ Changed(k) = Changed(n)
  BY <1>1 DEF Marked, Unsupported, Changed
<1>3. WhereOK(L, k) /\ ToldOK(L, k) /\ DamageOK(L, k) /\ LinkOK(L, k)
  BY <1>1 DEF LoadOK, WhereOK, ToldOK, DamageOK, LinkOK
<1>4. TailOK(L, k) /\ VersionOK(L, k)
  BY <1>1, <1>2 DEF LoadOK, TailOK, VersionOK
<1> QED BY <1>3, <1>4 DEF LoadOK

LEMMA EmptyKeeps ==
  ASSUME NEW n, Rows(n) = {}
  PROVE  LoadOK(EmptyLoad, n)
<1>1. /\ EmptyLoad.events = << >> /\ EmptyLoad.findings = << >> /\ EmptyLoad.unknown = {}
      /\ EmptyLoad.drift = {} /\ EmptyLoad.sl301 = FALSE /\ EmptyLoad.unsupported = FALSE
      /\ EmptyLoad.baseline = None /\ EmptyLoad.last = None /\ EmptyLoad.tail = NoTail
      /\ DOMAIN EmptyLoad = LoadFields
  BY DEF EmptyLoad, LoadFields
<1>2. IsSequence(<< >>) /\ Len(<< >>) = 0 /\ DOMAIN << >> = {}
  BY EmptySequence
<1>3. Sound(n) = {} /\ Bad(n) = {} /\ Marked(n) = {} /\ Unsupported(n) = FALSE /\ Changed(n) = FALSE
  BY DEF Sound, Bad, Marked, Unsupported, Changed
<1>4. WhereOK(EmptyLoad, n) /\ ToldOK(EmptyLoad, n) /\ DamageOK(EmptyLoad, n) /\ LinkOK(EmptyLoad, n)
  BY <1>1, <1>2, <1>3 DEF WhereOK, Coded, ToldOK, DamageOK, LinkOK, IsLoad
<1>5. TailOK(EmptyLoad, n)
  BY <1>1, <1>3 DEF TailOK, NoTail
<1>6. VersionOK(EmptyLoad, n)
  BY <1>1, <1>2, <1>3 DEF VersionOK
<1>7. PlaceOK(EmptyLoad)
  BY <1>1, <1>2 DEF PlaceOK, ToSet
<1> QED BY <1>4, <1>5, <1>6, <1>7 DEF LoadOK

-----------------------------------------------------------------------------
(* What the helpers of the adapters do to a load.                          *)

\* The step from L to M is about one raw line: what was there stays, and what
\* is new says where it comes from.
Grows(L, M, raw, codes) ==
  /\ IsLoad(M)
  /\ Len(L.findings) <= Len(M.findings)
  /\ \A k \in 1..Len(L.findings) : M.findings[k] = L.findings[k]
  /\ \A k \in 1..Len(M.findings) : k > Len(L.findings) => \E c \in codes : M.findings[k] = Finding(c, raw)
  /\ Len(L.events) <= Len(M.events)
  /\ \A k \in 1..Len(L.events) : M.events[k] = L.events[k]
  /\ \A k \in 1..Len(M.events) :
       k > Len(L.events) => M.events[k].line = raw.line /\ M.events[k].offset = raw.offset
  /\ L.unknown \subseteq M.unknown /\ M.unknown \subseteq L.unknown \cup {raw.line}

SameVersion(L, M) ==
  /\ M.sl301 = L.sl301 /\ M.unsupported = L.unsupported
  /\ M.baseline = L.baseline /\ M.drift = L.drift
SamePlace(L, M) == M.last = L.last /\ M.lastOrdinal = L.lastOrdinal /\ M.gap = L.gap /\ M.tail = L.tail
SameLists(L, M) == M.events = L.events /\ M.findings = L.findings /\ M.unknown = L.unknown
Quiet(L, M) == IsLoad(M) /\ SameLists(L, M) /\ SameVersion(L, M) /\ SamePlace(L, M)

LEMMA LoadIs ==
  ASSUME NEW L, IsLoad(L)
  PROVE  /\ Len(L.findings) \in Nat /\ DOMAIN L.findings = 1..Len(L.findings)
         /\ Len(L.events) \in Nat /\ DOMAIN L.events = 1..Len(L.events)
BY SequenceIs DEF IsLoad

LEMMA GrowsOn ==
  ASSUME NEW L, NEW M, NEW N, NEW raw, NEW codes, IsLoad(L), Grows(L, M, raw, codes), Grows(M, N, raw, codes)
  PROVE  Grows(L, N, raw, codes)
<1>1. /\ Len(L.findings) \in Nat /\ Len(M.findings) \in Nat /\ Len(N.findings) \in Nat
      /\ Len(L.events) \in Nat /\ Len(M.events) \in Nat /\ Len(N.events) \in Nat
  BY LoadIs DEF Grows
<1>2. ASSUME NEW k \in 1..Len(N.findings), k > Len(L.findings)
      PROVE  \E c \in codes : N.findings[k] = Finding(c, raw)
  <2>1. CASE k <= Len(M.findings)
    <3>1. k \in 1..Len(M.findings) /\ N.findings[k] = M.findings[k]
      BY <1>1, <2>1 DEF Grows
    <3> QED BY <1>2, <3>1 DEF Grows
  <2>2. CASE k > Len(M.findings)
    BY <2>2 DEF Grows
  <2> QED BY <1>1, <2>1, <2>2
<1>3. ASSUME NEW k \in 1..Len(N.events), k > Len(L.events)
      PROVE  N.events[k].line = raw.line /\ N.events[k].offset = raw.offset
  <2>1. CASE k <= Len(M.events)
    <3>1. k \in 1..Len(M.events) /\ N.events[k] = M.events[k]
      BY <1>1, <2>1 DEF Grows
    <3> QED BY <1>3, <3>1 DEF Grows
  <2>2. CASE k > Len(M.events)
    BY <2>2 DEF Grows
  <2> QED BY <1>1, <2>1, <2>2
<1>4. /\ Len(L.findings) <= Len(N.findings) /\ Len(L.events) <= Len(N.events)
      /\ \A k \in 1..Len(L.findings) : N.findings[k] = L.findings[k]
      /\ \A k \in 1..Len(L.events) : N.events[k] = L.events[k]
  BY <1>1 DEF Grows
<1>5. L.unknown \subseteq N.unknown /\ N.unknown \subseteq L.unknown \cup {raw.line} /\ IsLoad(N)
  BY DEF Grows
<1> QED BY <1>2, <1>3, <1>4, <1>5 DEF Grows

LEMMA QuietGrows ==
  ASSUME NEW L, NEW M, NEW raw, NEW codes, IsLoad(L), IsLoad(M), SameLists(L, M)
  PROVE  Grows(L, M, raw, codes)
<1>1. Len(L.findings) \in Nat /\ Len(L.events) \in Nat
  BY LoadIs
<1> QED BY <1>1 DEF Grows, SameLists

LEMMA MoreCodes ==
  ASSUME NEW L, NEW M, NEW raw, NEW A, NEW B, Grows(L, M, raw, A), A \subseteq B
  PROVE  Grows(L, M, raw, B)
BY DEF Grows

LEMMA RegisterIs ==
  ASSUME NEW L, IsLoad(L), NEW id
  PROVE  Quiet(L, RegisterReal(L, id)) /\ Quiet(L, RegisterSynthetic(L, id))
<1>1. Quiet(L, RegisterReal(L, id))
  BY DEF RegisterReal, Quiet, SameLists, SameVersion, SamePlace, IsLoad, LoadFields
<1>2. Quiet(L, RegisterSynthetic(L, id))
  BY DEF RegisterSynthetic, Quiet, SameLists, SameVersion, SamePlace, IsLoad, LoadFields
<1> QED BY <1>1, <1>2

LEMMA RecordIdIs ==
  ASSUME NEW L, IsLoad(L), NEW rec, NEW raw
  PROVE  Quiet(L, WithRecordId(L, rec, raw))
BY RegisterIs DEF WithRecordId

LEMMA LinksAre ==
  ASSUME NEW L, IsLoad(L), NEW target
  PROVE  Quiet(L, ExtractLinks(L, target))
BY DEF ExtractLinks, Quiet, SameLists, SameVersion, SamePlace, IsLoad, LoadFields

LEMMA SignatureIs ==
  ASSUME NEW L, IsLoad(L), NEW foreign, NEW raw
  PROVE  LET M == ObserveSignature(L, foreign, raw)
         IN /\ IsLoad(M) /\ SameLists(L, M) /\ SamePlace(L, M)
            /\ M.sl301 = L.sl301 /\ M.unsupported = L.unsupported /\ M.baseline = L.baseline
            /\ (M.drift # {} <=> L.drift # {} \/ foreign)
<1> DEFINE d == [what |-> <<"signature">>, line |-> raw.line]
           M == ObserveSignature(L, foreign, raw)
<1> HIDE DEF d
<1>1. M = IF ~foreign \/ (\E x \in L.drift : x.what = d.what \/ Cardinality(L.drift) >= MaxDrift)
          THEN L ELSE [L EXCEPT !.drift = @ \cup {d}]
  BY DEF ObserveSignature, RecordDrift, d
<1> HIDE DEF M
<1>2. CASE ~foreign \/ (\E x \in L.drift : x.what = d.what \/ Cardinality(L.drift) >= MaxDrift)
  BY <1>1, <1>2 DEF SameLists, SamePlace, M
<1>3. CASE ~(~foreign \/ (\E x \in L.drift : x.what = d.what \/ Cardinality(L.drift) >= MaxDrift))
  <2>1. M = [L EXCEPT !.drift = L.drift \cup {d}]
    BY <1>1, <1>3
  <2>2. /\ DOMAIN M = LoadFields /\ SameLists(L, M) /\ SamePlace(L, M)
        /\ M.sl301 = L.sl301 /\ M.unsupported = L.unsupported /\ M.baseline = L.baseline
        /\ M.drift = L.drift \cup {d}
    BY <2>1 DEF SameLists, SamePlace, IsLoad, LoadFields
  <2> QED BY <1>3, <2>2 DEF IsLoad, SameLists, M
<1> QED BY <1>2, <1>3

LEMMA ReportIs ==
  ASSUME NEW L, IsLoad(L), NEW codes, NEW code \in codes, NEW raw
  PROVE  LET M == Report(L, code, raw)
         IN /\ Grows(L, M, raw, codes) /\ M.events = L.events /\ SameVersion(L, M) /\ SamePlace(L, M)
            /\ M.unknown = L.unknown
            /\ M.findings = Append(L.findings, Finding(code, raw))
            /\ Len(M.findings) = Len(L.findings) + 1 /\ M.findings[Len(M.findings)] = Finding(code, raw)
<1> DEFINE M == Report(L, code, raw)
           f == Finding(code, raw)
<1> HIDE DEF f
<1>1. /\ DOMAIN M = LoadFields /\ M.events = L.events /\ SameVersion(L, M) /\ SamePlace(L, M)
      /\ M.unknown = L.unknown /\ M.findings = Append(L.findings, f)
  BY DEF Report, IsLoad, SameVersion, SamePlace, LoadFields, f
<1> HIDE DEF M
<1>2. /\ IsSequence(M.findings) /\ Len(M.findings) = Len(L.findings) + 1
      /\ \A k \in 1..Len(L.findings) : M.findings[k] = L.findings[k]
      /\ M.findings[Len(L.findings) + 1] = f
  BY <1>1, Appended DEF IsLoad
<1>3. IsLoad(M) /\ Len(L.findings) \in Nat /\ Len(L.events) \in Nat
  BY <1>1, <1>2, LoadIs DEF IsLoad
<1>4. \A k \in 1..Len(M.findings) : k > Len(L.findings) => M.findings[k] = f
  BY <1>2, <1>3
<1>5. Grows(L, M, raw, codes)
  BY <1>1, <1>2, <1>3, <1>4 DEF Grows, f
<1> QED BY <1>1, <1>2, <1>3, <1>5 DEF M, f

LEMMA ReportWhenIs ==
  ASSUME NEW L, IsLoad(L), NEW condition, NEW codes, NEW code \in codes, NEW raw
  PROVE  LET M == ReportWhen(L, condition, code, raw)
         IN /\ Grows(L, M, raw, codes) /\ M.events = L.events /\ SameVersion(L, M) /\ SamePlace(L, M)
            /\ M.unknown = L.unknown
            /\ condition => Len(M.findings) > Len(L.findings) /\ M.findings[Len(M.findings)] = Finding(code, raw)
<1>1. CASE condition
  <2> DEFINE M == Report(L, code, raw)
  <2>1. ReportWhen(L, condition, code, raw) = M
    BY <1>1 DEF ReportWhen
  <2>2. /\ Grows(L, M, raw, codes) /\ M.events = L.events /\ SameVersion(L, M) /\ SamePlace(L, M)
        /\ M.unknown = L.unknown
        /\ Len(M.findings) = Len(L.findings) + 1 /\ M.findings[Len(M.findings)] = Finding(code, raw)
    BY ReportIs
  <2> HIDE DEF M
  <2>3. Len(M.findings) > Len(L.findings)
    BY <2>2, LoadIs
  <2> QED BY <2>1, <2>2, <2>3
<1>2. CASE ~condition
  BY <1>2, QuietGrows DEF ReportWhen, SameVersion, SamePlace, SameLists
<1> QED BY <1>1, <1>2

LEMMA UnknownIs ==
  ASSUME NEW L, IsLoad(L), NEW raw, NEW codes
  PROVE  LET M == NoteUnknown(L, raw)
         IN /\ Grows(L, M, raw, codes) /\ M.events = L.events /\ M.findings = L.findings
            /\ SameVersion(L, M) /\ SamePlace(L, M) /\ raw.line \in M.unknown
<1> DEFINE M == NoteUnknown(L, raw)
<1>1. /\ DOMAIN M = LoadFields /\ M.events = L.events /\ M.findings = L.findings
      /\ SameVersion(L, M) /\ SamePlace(L, M) /\ M.unknown = L.unknown \cup {raw.line}
  BY DEF NoteUnknown, IsLoad, SameVersion, SamePlace, LoadFields
<1> HIDE DEF M
<1>2. IsLoad(M) /\ Len(L.findings) \in Nat /\ Len(L.events) \in Nat
  BY <1>1, LoadIs DEF IsLoad
<1>3. Grows(L, M, raw, codes)
  BY <1>1, <1>2 DEF Grows
<1> QED BY <1>1, <1>3 DEF M

\* More events, of the line at hand.
MoreEvents(L, M, es, raw, codes) ==
  /\ Grows(L, M, raw, codes) /\ M.findings = L.findings /\ M.unknown = L.unknown
  /\ SameVersion(L, M) /\ SamePlace(L, M) /\ M.events = L.events \o es
  /\ Len(M.events) = Len(L.events) + Len(es)
  /\ \A k \in 1..Len(es) : M.events[Len(L.events) + k] = es[k]

LEMMA EventsJoin ==
  ASSUME NEW L, IsLoad(L), NEW es, IsSequence(es), NEW raw, NEW codes,
         \A k \in 1..Len(es) : es[k].line = raw.line /\ es[k].offset = raw.offset
  PROVE  MoreEvents(L, [L EXCEPT !.events = @ \o es], es, raw, codes)
<1>0. PICK M : M = [L EXCEPT !.events = @ \o es]
  OBVIOUS
<1>1. /\ DOMAIN M = LoadFields /\ M.findings = L.findings /\ M.unknown = L.unknown
      /\ SameVersion(L, M) /\ SamePlace(L, M) /\ M.events = L.events \o es
  BY <1>0 DEF IsLoad, SameVersion, SamePlace, LoadFields
<1>2. /\ IsSequence(M.events) /\ Len(M.events) = Len(L.events) + Len(es)
      /\ \A k \in 1..Len(L.events) : M.events[k] = L.events[k]
      /\ \A k \in 1..Len(es) : M.events[Len(L.events) + k] = es[k]
  BY <1>1, Joined DEF IsLoad
<1>3. IsLoad(M) /\ Len(L.findings) \in Nat /\ Len(L.events) \in Nat /\ Len(es) \in Nat
  BY <1>1, <1>2, LoadIs, SequenceIs DEF IsLoad
<1>4. ASSUME NEW k \in 1..Len(M.events), k > Len(L.events)
      PROVE  M.events[k].line = raw.line /\ M.events[k].offset = raw.offset
  <2>1. k - Len(L.events) \in 1..Len(es) /\ k = Len(L.events) + (k - Len(L.events))
    BY <1>2, <1>3, <1>4
  <2> QED BY <1>2, <2>1
<1>5. Grows(L, M, raw, codes)
  BY <1>1, <1>2, <1>3, <1>4 DEF Grows
<1> QED BY <1>0, <1>1, <1>2, <1>5 DEF MoreEvents

\* One more event, of one line, and nothing else.
Emits(L, M, e, raw, codes) ==
  /\ Grows(L, M, raw, codes) /\ M.findings = L.findings /\ M.unknown = L.unknown
  /\ SameVersion(L, M) /\ SamePlace(L, M) /\ M.events = Append(L.events, e)
  /\ Len(M.events) = Len(L.events) + 1 /\ M.events[Len(M.events)] = e

LEMMA EmitIs ==
  ASSUME NEW L, IsLoad(L), NEW e, NEW raw, NEW codes, e.line = raw.line, e.offset = raw.offset,
         NEW M, M = Emit(L, e)
  PROVE  Emits(L, M, e, raw, codes)
<1>1. /\ DOMAIN M = LoadFields /\ M.findings = L.findings /\ M.unknown = L.unknown
      /\ SameVersion(L, M) /\ SamePlace(L, M) /\ M.events = Append(L.events, e)
  BY DEF Emit, IsLoad, SameVersion, SamePlace, LoadFields
<1>2. /\ IsSequence(M.events) /\ Len(M.events) = Len(L.events) + 1
      /\ \A k \in 1..Len(L.events) : M.events[k] = L.events[k]
      /\ M.events[Len(L.events) + 1] = e
  BY <1>1, Appended DEF IsLoad
<1>3. IsLoad(M) /\ Len(L.findings) \in Nat /\ Len(L.events) \in Nat
  BY <1>1, <1>2, LoadIs DEF IsLoad
<1>4. \A k \in 1..Len(M.events) : k > Len(L.events) => k = Len(L.events) + 1
  BY <1>2, <1>3
<1>5. Grows(L, M, raw, codes)
  BY <1>1, <1>2, <1>3, <1>4 DEF Grows
<1> QED BY <1>1, <1>2, <1>5 DEF Emits

\* Findings of one line, in front of whatever the record gives.
MoreFindings(L, M, fs, raw, codes) ==
  /\ Grows(L, M, raw, codes) /\ M.events = L.events /\ M.unknown = L.unknown
  /\ SameVersion(L, M) /\ SamePlace(L, M) /\ M.findings = L.findings \o fs
  /\ Len(M.findings) = Len(L.findings) + Len(fs)
  /\ \A k \in 1..Len(fs) : M.findings[Len(L.findings) + k] = fs[k]

LEMMA FindingsJoin ==
  ASSUME NEW L, IsLoad(L), NEW fs, IsSequence(fs), NEW raw, NEW codes,
         \A k \in 1..Len(fs) : \E c \in codes : fs[k] = Finding(c, raw)
  PROVE  MoreFindings(L, [L EXCEPT !.findings = @ \o fs], fs, raw, codes)
<1>0. PICK M : M = [L EXCEPT !.findings = @ \o fs]
  OBVIOUS
<1>1. /\ DOMAIN M = LoadFields /\ M.events = L.events /\ M.unknown = L.unknown
      /\ SameVersion(L, M) /\ SamePlace(L, M) /\ M.findings = L.findings \o fs
  BY <1>0 DEF IsLoad, SameVersion, SamePlace, LoadFields
<1>2. /\ IsSequence(M.findings) /\ Len(M.findings) = Len(L.findings) + Len(fs)
      /\ \A k \in 1..Len(L.findings) : M.findings[k] = L.findings[k]
      /\ \A k \in 1..Len(fs) : M.findings[Len(L.findings) + k] = fs[k]
  BY <1>1, Joined DEF IsLoad
<1>3. IsLoad(M) /\ Len(L.findings) \in Nat /\ Len(L.events) \in Nat /\ Len(fs) \in Nat
  BY <1>1, <1>2, LoadIs, SequenceIs DEF IsLoad
<1>4. ASSUME NEW k \in 1..Len(M.findings), k > Len(L.findings)
      PROVE  \E c \in codes : M.findings[k] = Finding(c, raw)
  <2>1. k - Len(L.findings) \in 1..Len(fs) /\ k = Len(L.findings) + (k - Len(L.findings))
    <3>1. Len(M.findings) = Len(L.findings) + Len(fs)
      BY <1>2
    <3>2. Len(L.findings) \in Nat /\ Len(fs) \in Nat
      BY <1>3
    <3> QED BY <1>4, <3>1, <3>2
  <2> QED BY <1>2, <2>1
<1>5. Grows(L, M, raw, codes)
  BY <1>1, <1>2, <1>3, <1>4 DEF Grows
<1> QED BY <1>0, <1>1, <1>2, <1>5 DEF MoreFindings

-----------------------------------------------------------------------------
(* Versions.                                                               *)

LEMMA RowsNext ==
  ASSUME IsFile(Lines), NEW m \in RecordAt
  PROVE  /\ m \in Nat /\ Rows(m + 1) = Rows(m) \cup {m} /\ m \notin Rows(m)
         /\ ~Damaged(m) => Sound(m + 1) = Sound(m) \cup {m} /\ Bad(m + 1) = Bad(m)
         /\ Damaged(m) => Sound(m + 1) = Sound(m)
         /\ Damaged(m) /\ Torn(m) => Bad(m + 1) = Bad(m)
         /\ Damaged(m) /\ ~Torn(m) => Bad(m + 1) = Bad(m) \cup {m}
<1>1. \A j \in RecordAt : j \in Nat
  BY LineIs DEF RecordAt
<1>2. \A j \in RecordAt : (j < m + 1 <=> j < m \/ j = m) /\ ~(m < m)
  BY <1>1
<1>3. Rows(m + 1) = Rows(m) \cup {m} /\ m \notin Rows(m)
  BY <1>2 DEF Rows
<1>4. ~Damaged(m) => Sound(m + 1) = Sound(m) \cup {m} /\ Bad(m + 1) = Bad(m)
  BY <1>3 DEF Sound, Bad
<1>5. Damaged(m) => Sound(m + 1) = Sound(m)
  BY <1>3 DEF Sound
<1>6. Damaged(m) /\ Torn(m) => Bad(m + 1) = Bad(m)
  BY <1>3 DEF Bad
<1>7. Damaged(m) /\ ~Torn(m) => Bad(m + 1) = Bad(m) \cup {m}
  BY <1>3 DEF Bad
<1> QED BY <1>1, <1>3, <1>4, <1>5, <1>6, <1>7

Announced(L) == {k \in DOMAIN L.findings : L.findings[k].code = "SL301"}

LEMMA AnnouncedSame ==
  ASSUME NEW L, NEW M, NEW raw, NEW codes, IsLoad(L), Grows(L, M, raw, codes), "SL301" \notin codes
  PROVE  Announced(M) = Announced(L)
<1>1. /\ Len(L.findings) \in Nat /\ DOMAIN L.findings = 1..Len(L.findings)
      /\ Len(M.findings) \in Nat /\ DOMAIN M.findings = 1..Len(M.findings)
      /\ Len(L.findings) <= Len(M.findings)
  BY LoadIs DEF Grows
<1>2. ASSUME NEW k \in 1..Len(M.findings), k > Len(L.findings) PROVE M.findings[k].code # "SL301"
  <2>1. PICK c \in codes : M.findings[k] = Finding(c, raw)
    BY <1>2 DEF Grows
  <2>2. M.findings[k].code = c
    BY <2>1 DEF Finding
  <2> QED BY <2>2
<1>3. \A k \in 1..Len(L.findings) : k \in 1..Len(M.findings) /\ M.findings[k] = L.findings[k]
  BY <1>1 DEF Grows
<1>4. \A k \in 1..Len(M.findings) : k > Len(L.findings) \/ k \in 1..Len(L.findings)
  BY <1>1
<1> QED BY <1>1, <1>2, <1>3, <1>4 DEF Announced

\* What one look at a version does to a load.
Checked(L, M, version) ==
  /\ M.events = L.events /\ M.unknown = L.unknown /\ SamePlace(L, M)
  /\ M.unsupported = L.unsupported /\ M.baseline = L.baseline /\ M.drift = L.drift
  /\ IF version = None \/ version \in Supported \/ L.sl301
     THEN M = L
     ELSE M.sl301 /\ Announced(M) = Announced(L) \cup {Len(L.findings) + 1}
Observed(L, M, version) ==
  /\ IsLoad(M) /\ SameLists(L, M) /\ SamePlace(L, M) /\ M.sl301 = L.sl301
  /\ L.sl301 => M.unsupported = TRUE
  /\ ~L.sl301 => M.unsupported = L.unsupported
  /\ ~L.sl301 /\ version = None => M.baseline = L.baseline /\ M.drift = L.drift
  /\ ~L.sl301 /\ version # None =>
       /\ M.baseline = version
       /\ L.baseline \in {None, version} => M.drift = L.drift
       /\ L.baseline \notin {None, version} => M.drift # {}

LEMMA CheckVersionIs ==
  ASSUME NEW L, IsLoad(L), NEW version, NEW raw, NEW codes, "SL301" \in codes
  PROVE  /\ Grows(L, CheckVersion(L, version, raw), raw, codes)
         /\ Checked(L, CheckVersion(L, version, raw), version)
<1> DEFINE M == CheckVersion(L, version, raw)
<1>1. CASE version = None \/ version \in Supported \/ L.sl301
  BY <1>1, QuietGrows DEF CheckVersion, Checked, SameLists, SamePlace
<1>2. CASE ~(version = None \/ version \in Supported \/ L.sl301)
  <2> DEFINE R == Report(L, "SL301", raw)
  <2>1. M = [R EXCEPT !.sl301 = TRUE]
    BY <1>2 DEF CheckVersion
  <2>2. /\ Grows(L, R, raw, codes) /\ R.events = L.events /\ SameVersion(L, R) /\ SamePlace(L, R)
        /\ R.unknown = L.unknown
        /\ Len(R.findings) = Len(L.findings) + 1 /\ R.findings[Len(R.findings)] = Finding("SL301", raw)
    BY ReportIs
  <2> HIDE DEF R, M
  <2>3. IsLoad(R)
    BY <2>2 DEF Grows
  <2>4. /\ DOMAIN M = LoadFields /\ M.events = R.events /\ M.findings = R.findings /\ M.unknown = R.unknown
        /\ SamePlace(R, M) /\ M.unsupported = R.unsupported /\ M.baseline = R.baseline /\ M.drift = R.drift
        /\ M.sl301 = TRUE
    BY <2>1, <2>3 DEF IsLoad, LoadFields, SamePlace
  <2>5. IsLoad(M)
    BY <2>3, <2>4 DEF IsLoad
  <2>6. Grows(L, M, raw, codes)
    BY <2>2, <2>4, <2>5 DEF Grows
  <2>7. Announced(M) = Announced(L) \cup {Len(L.findings) + 1}
    <3>1. /\ Len(L.findings) \in Nat /\ DOMAIN L.findings = 1..Len(L.findings)
          /\ DOMAIN M.findings = 1..(Len(L.findings) + 1)
      BY <2>2, <2>4, <2>5, LoadIs
    <3>2. M.findings[Len(L.findings) + 1].code = "SL301"
      BY <2>2, <2>4 DEF Finding
    <3>3. \A k \in 1..Len(L.findings) : M.findings[k] = L.findings[k]
      BY <2>6 DEF Grows
    <3>4. \A k : k \in 1..(Len(L.findings) + 1) <=> k \in 1..Len(L.findings) \/ k = Len(L.findings) + 1
      BY <3>1
    <3> QED BY <3>1, <3>2, <3>3, <3>4 DEF Announced
  <2> QED BY <1>2, <2>2, <2>4, <2>6, <2>7 DEF Checked, SameVersion, SamePlace, M
<1> QED BY <1>1, <1>2

LEMMA ObserveVersionIs ==
  ASSUME NEW L, IsLoad(L), NEW version, NEW raw
  PROVE  Observed(L, ObserveVersion(L, version, raw), version)
<1> DEFINE M == ObserveVersion(L, version, raw)
<1>1. CASE L.sl301
  <2>1. M = [L EXCEPT !.unsupported = TRUE]
    BY <1>1 DEF ObserveVersion
  <2>2. DOMAIN M = LoadFields /\ SameLists(L, M) /\ SamePlace(L, M) /\ M.sl301 = L.sl301 /\ M.unsupported = TRUE
    BY <2>1 DEF IsLoad, LoadFields, SameLists, SamePlace
  <2> HIDE DEF M
  <2>3. IsLoad(M)
    BY <2>2 DEF IsLoad, SameLists
  <2> QED BY <1>1, <2>2, <2>3 DEF Observed, M
<1>2. CASE ~L.sl301 /\ version = None
  BY <1>2 DEF Observed, ObserveVersion, SameLists, SamePlace
<1>3. CASE ~L.sl301 /\ version # None /\ L.baseline \in {None, version}
  <2>1. M = [L EXCEPT !.baseline = version]
    BY <1>3 DEF ObserveVersion
  <2>2. /\ DOMAIN M = LoadFields /\ SameLists(L, M) /\ SamePlace(L, M) /\ M.sl301 = L.sl301
        /\ M.unsupported = L.unsupported /\ M.baseline = version /\ M.drift = L.drift
    BY <2>1 DEF IsLoad, LoadFields, SameLists, SamePlace
  <2> HIDE DEF M
  <2>3. IsLoad(M)
    BY <2>2 DEF IsLoad, SameLists
  <2> QED BY <1>3, <2>2, <2>3 DEF Observed, M
<1>4. CASE ~L.sl301 /\ version # None /\ L.baseline \notin {None, version}
  <2> DEFINE d == [what |-> <<L.baseline, version>>, line |-> raw.line]
             R == RecordDrift(L, d)
  <2>1. M = [R EXCEPT !.baseline = version]
    BY <1>4 DEF ObserveVersion
  <2> HIDE DEF d
  <2>2. /\ DOMAIN R = LoadFields /\ SameLists(L, R) /\ SamePlace(L, R) /\ R.sl301 = L.sl301
        /\ R.unsupported = L.unsupported /\ R.drift # {}
    <3>1. CASE \E x \in L.drift : x.what = d.what \/ Cardinality(L.drift) >= MaxDrift
      <4>1. R = L
        BY <3>1 DEF RecordDrift
      <4> QED BY <3>1, <4>1 DEF IsLoad, SameLists, SamePlace
    <3>2. CASE ~\E x \in L.drift : x.what = d.what \/ Cardinality(L.drift) >= MaxDrift
      <4>1. R = [L EXCEPT !.drift = L.drift \cup {d}]
        BY <3>2 DEF RecordDrift
      <4> HIDE DEF R
      <4>2. R.drift = L.drift \cup {d}
        BY <4>1 DEF IsLoad, LoadFields
      <4> QED BY <4>1, <4>2 DEF IsLoad, LoadFields, SameLists, SamePlace
    <3> QED BY <3>1, <3>2
  <2> HIDE DEF R, M
  <2>3. /\ DOMAIN M = LoadFields /\ SameLists(L, M) /\ SamePlace(L, M) /\ M.sl301 = L.sl301
        /\ M.unsupported = L.unsupported /\ M.baseline = version /\ M.drift = R.drift
    BY <2>1, <2>2 DEF LoadFields, SameLists, SamePlace
  <2>4. IsLoad(M)
    BY <2>3 DEF IsLoad, SameLists
  <2> QED BY <1>4, <2>2, <2>3, <2>4 DEF Observed, M
<1> QED BY <1>1, <1>2, <1>3, <1>4

\* What one sound record says of its version and of its format is taken in.
LEMMA VersionTurn ==
  ASSUME IsFile(Lines), NEW m \in RecordAt, ~Damaged(m), format \in {"codex", "claude"},
         NEW codes, "SL301" \in codes,
         NEW K, IsLoad(K), VersionOK(K, m), NEW raw, NEW rec, Lines[m].rec = rec,
         NEW marker, format = "claude" /\ ~rec.marker => marker = None,
         ~(format = "claude" /\ ~rec.marker) => marker = rec.version
  PROVE  LET O == ObserveVersion(CheckVersion(ObserveSignature(K, rec.foreign, raw), rec.version, raw), marker, raw) IN
         /\ Grows(K, O, raw, codes) /\ O.events = K.events /\ O.unknown = K.unknown /\ SamePlace(K, O)
         /\ VersionOK(O, m + 1)
<1>91. PICK S : S = ObserveSignature(K, rec.foreign, raw)
  OBVIOUS
<1>92. PICK C : C = CheckVersion(S, rec.version, raw)
  OBVIOUS
<1>0. PICK fires \in BOOLEAN : fires <=> ~(rec.version = None \/ rec.version \in Supported \/ S.sl301)
  OBVIOUS
<1>1. /\ IsLoad(S) /\ SameLists(K, S) /\ SamePlace(K, S)
      /\ S.sl301 = K.sl301 /\ S.unsupported = K.unsupported /\ S.baseline = K.baseline
      /\ (S.drift # {} <=> K.drift # {} \/ rec.foreign)
  BY <1>91, SignatureIs
<1>2. PICK O : O = ObserveVersion(C, marker, raw)
  OBVIOUS
<1>3. /\ Grows(S, C, raw, codes) /\ C.events = S.events /\ C.unknown = S.unknown /\ SamePlace(S, C)
      /\ C.unsupported = S.unsupported /\ C.baseline = S.baseline /\ C.drift = S.drift
      /\ fires => C.sl301 /\ Announced(C) = Announced(S) \cup {Len(S.findings) + 1}
      /\ ~fires => C = S
  <2>1. Grows(S, C, raw, codes) /\ Checked(S, C, rec.version)
    BY <1>1, <1>92, CheckVersionIs
  <2> QED BY <1>0, <2>1 DEF Checked
<1>4. IsLoad(C)
  BY <1>3 DEF Grows
<1>5. /\ IsLoad(O) /\ SameLists(C, O) /\ SamePlace(C, O) /\ O.sl301 = C.sl301
      /\ C.sl301 => O.unsupported = TRUE
      /\ ~C.sl301 => O.unsupported = C.unsupported
      /\ ~C.sl301 /\ marker = None => O.baseline = C.baseline /\ O.drift = C.drift
      /\ ~C.sl301 /\ marker # None =>
           /\ O.baseline = marker
           /\ C.baseline \in {None, marker} => O.drift = C.drift
           /\ C.baseline \notin {None, marker} => O.drift # {}
  <2>1. Observed(C, O, marker)
    BY <1>2, <1>4, ObserveVersionIs
  <2> QED BY <2>1 DEF Observed
<1>6. Grows(K, O, raw, codes) /\ O.events = K.events /\ O.unknown = K.unknown /\ SamePlace(K, O)
  <2>1. Grows(K, S, raw, codes) /\ Grows(C, O, raw, codes)
    BY <1>1, <1>4, <1>5, QuietGrows
  <2>2. Grows(K, C, raw, codes)
    BY <1>1, <1>3, <2>1, GrowsOn
  <2>3. Grows(K, O, raw, codes)
    BY <2>1, <2>2, GrowsOn
  <2> QED BY <1>1, <1>3, <1>5, <2>3 DEF SameLists, SamePlace
<1>7. /\ K.sl301 <=> Unsupported(m)
      /\ K.unsupported <=> Unsupported(m)
      /\ Announced(K) # {} <=> Unsupported(m)
      /\ \A j, k \in Announced(K) : j = k
      /\ ~Unsupported(m) =>
           /\ K.baseline = None => Marked(m) = {}
           /\ K.baseline # None => \E i \in Marked(m) : Lines[i].rec.version = K.baseline
           /\ K.drift = {} => ~Changed(m)
           /\ K.drift # {} => Changed(m)
  BY DEF VersionOK, Announced
<1>8. Announced(S) = Announced(K) /\ Announced(O) = Announced(C)
  BY <1>1, <1>5 DEF Announced, SameLists
<1>9. Sound(m + 1) = Sound(m) \cup {m}
  BY RowsNext
<1>10. /\ Unsupported(m + 1) <=> Unsupported(m) \/ rec.version \notin Supported \cup {None}
       /\ Marked(m + 1) = Marked(m) \cup IF marker \in Supported THEN {m} ELSE {}
  <2>1. Unsupported(m + 1) <=> Unsupported(m) \/ rec.version \notin Supported \cup {None}
    BY <1>9 DEF Unsupported
  <2>2. rec.version \in Supported /\ (format = "claude" => rec.marker) <=> marker \in Supported
    BY VersionAssumption
  <2>3. Marked(m + 1) = Marked(m) \cup IF marker \in Supported THEN {m} ELSE {}
    BY <1>9, <2>2 DEF Marked
  <2> QED BY <2>1, <2>3
<1>11. marker \in Supported => marker = rec.version /\ marker # None
  BY VersionAssumption
<1>12. O.sl301 <=> Unsupported(m + 1)
  BY <1>0, <1>1, <1>3, <1>5, <1>7, <1>10
<1>13. O.unsupported <=> Unsupported(m + 1)
  BY <1>0, <1>1, <1>3, <1>5, <1>7, <1>10
<1>14. (Announced(O) # {} <=> Unsupported(m + 1)) /\ \A j, k \in Announced(O) : j = k
  <2>1. CASE fires
    <3>1. Announced(K) = {} /\ rec.version \notin Supported \cup {None}
      BY <1>0, <1>1, <1>7, <2>1
    <3>2. Announced(O) = {Len(S.findings) + 1}
      BY <1>3, <1>8, <2>1, <3>1
    <3> QED BY <1>10, <3>1, <3>2
  <2>2. CASE ~fires
    <3>1. Announced(O) = Announced(K)
      BY <1>3, <1>8, <2>2
    <3>2. Unsupported(m + 1) <=> Unsupported(m)
      BY <1>0, <1>1, <1>7, <1>10, <2>2
    <3> QED BY <1>7, <3>1, <3>2
  <2> QED BY <1>0, <2>1, <2>2
<1>15. ASSUME ~Unsupported(m + 1)
       PROVE  /\ O.baseline = None => Marked(m + 1) = {}
              /\ O.baseline # None => \E i \in Marked(m + 1) : Lines[i].rec.version = O.baseline
              /\ O.drift = {} => ~Changed(m + 1)
              /\ O.drift # {} => Changed(m + 1)
  <2>1. ~Unsupported(m) /\ rec.version \in Supported \cup {None} /\ ~K.sl301 /\ C = S /\ ~C.sl301
    BY <1>0, <1>1, <1>3, <1>7, <1>10, <1>15
  <2>2. Changed(m + 1) <=> \/ Changed(m)
                           \/ rec.foreign
                           \/ marker \in Supported /\ \E i \in Marked(m) : Lines[i].rec.version # marker
    <3>1. (\E i \in Sound(m + 1) : Lines[i].rec.foreign) <=> (\E i \in Sound(m) : Lines[i].rec.foreign) \/ rec.foreign
      BY <1>9
    <3>2. (\E i, j \in Marked(m + 1) : Lines[i].rec.version # Lines[j].rec.version)
          <=> \/ \E i, j \in Marked(m) : Lines[i].rec.version # Lines[j].rec.version
              \/ marker \in Supported /\ \E i \in Marked(m) : Lines[i].rec.version # marker
      <4>1. CASE marker \in Supported
        <5>1. Marked(m + 1) = Marked(m) \cup {m} /\ Lines[m].rec.version = marker
          BY <1>10, <1>11, <4>1
        <5> QED BY <4>1, <5>1
      <4>2. CASE marker \notin Supported
        <5>1. Marked(m + 1) = Marked(m)
          BY <1>10, <4>2
        <5> QED BY <4>2, <5>1
      <4> QED BY <4>1, <4>2
    <3> QED BY <3>1, <3>2 DEF Changed
  <2>3. CASE marker = None
    <3>1. O.baseline = K.baseline /\ O.drift = S.drift /\ Marked(m + 1) = Marked(m) /\ marker \notin Supported
      BY <1>1, <1>5, <1>10, <1>11, <2>1, <2>3
    <3> QED BY <1>1, <1>7, <2>1, <2>2, <3>1
  <2>4. CASE marker # None
    <3>1. marker \in Supported /\ marker = rec.version /\ O.baseline = marker /\ Marked(m + 1) = Marked(m) \cup {m}
      BY <1>5, <1>10, <2>1, <2>4
    <3>2. CASE K.baseline \in {None, marker}
      <4>1. O.drift = S.drift
        BY <1>1, <1>5, <2>1, <2>4, <3>2
      <4>2. K.drift = {} => ~\E i \in Marked(m) : Lines[i].rec.version # marker
        <5> SUFFICES ASSUME K.drift = {}, NEW i \in Marked(m) PROVE Lines[i].rec.version = marker
          OBVIOUS
        <5>1. K.baseline = marker /\ ~Changed(m)
          BY <1>7, <2>1, <3>2
        <5>2. PICK j \in Marked(m) : Lines[j].rec.version = marker
          BY <1>7, <2>1, <2>4, <5>1
        <5> QED BY <5>1, <5>2 DEF Changed
      <4>3. O.baseline # None => \E i \in Marked(m + 1) : Lines[i].rec.version = O.baseline
        BY <3>1
      <4>4. K.drift # {} => Changed(m)
        BY <1>7, <2>1
      <4>5. (\E i \in Marked(m) : Lines[i].rec.version # marker) => Changed(m)
        BY <1>7, <2>1, <4>2
      <4>6. K.drift = {} => ~Changed(m)
        BY <1>7, <2>1
      <4> QED BY <1>1, <2>2, <2>4, <3>1, <4>1, <4>2, <4>3, <4>4, <4>5, <4>6
    <3>3. CASE K.baseline \notin {None, marker}
      <4>1. O.drift # {}
        BY <1>1, <1>5, <2>1, <2>4, <3>3
      <4>2. PICK i \in Marked(m) : Lines[i].rec.version = K.baseline
        BY <1>7, <2>1, <3>3
      <4>3. Changed(m + 1)
        BY <2>2, <3>1, <3>3, <4>2
      <4> QED BY <2>4, <3>1, <4>1, <4>3
    <3> QED BY <3>2, <3>3
  <2> QED BY <2>3, <2>4
<1>16. VersionOK(O, m + 1)
  <2>1. (\E k \in DOMAIN O.findings : O.findings[k].code = "SL301") <=> Unsupported(m + 1)
    BY <1>14 DEF Announced
  <2>2. \A j, k \in DOMAIN O.findings : O.findings[j].code = "SL301" /\ O.findings[k].code = "SL301" => j = k
    <3> SUFFICES ASSUME NEW j \in DOMAIN O.findings, NEW k \in DOMAIN O.findings,
                        O.findings[j].code = "SL301", O.findings[k].code = "SL301"
                 PROVE  j = k
      OBVIOUS
    <3>1. j \in Announced(O) /\ k \in Announced(O)
      BY DEF Announced
    <3> QED BY <1>14, <3>1
  <2> QED BY <1>12, <1>13, <1>15, <2>1, <2>2 DEF VersionOK
<1> QED BY <1>91, <1>92, <1>2, <1>6, <1>16

\* A step that says nothing of versions.
LEMMA VersionSame ==
  ASSUME NEW L, NEW M, NEW raw, NEW codes, IsLoad(L), Grows(L, M, raw, codes), "SL301" \notin codes,
         SameVersion(L, M), NEW n, VersionOK(L, n)
  PROVE  VersionOK(M, n)
<1>1. Announced(M) = Announced(L)
  BY AnnouncedSame
<1>2. (\E k \in DOMAIN M.findings : M.findings[k].code = "SL301")
      <=> (\E k \in DOMAIN L.findings : L.findings[k].code = "SL301")
  BY <1>1 DEF Announced
<1>3. ASSUME \A j, k \in DOMAIN L.findings : L.findings[j].code = "SL301" /\ L.findings[k].code = "SL301" => j = k
      PROVE  \A j, k \in DOMAIN M.findings : M.findings[j].code = "SL301" /\ M.findings[k].code = "SL301" => j = k
  BY <1>1, <1>3 DEF Announced
<1> QED BY <1>2, <1>3 DEF VersionOK, SameVersion

-----------------------------------------------------------------------------
(* What the pending line says.                                             *)

LEMMA RawSays ==
  ASSUME IsFile(Lines), NEW m \in RecordAt, NEW raw, RawIs(raw, m), NEW terminal \in BOOLEAN, Torn(m) => terminal
  PROVE  /\ m \in 1..Len(Lines) /\ m \in Nat
         /\ raw.line = m /\ raw.offset = OffsetOf(Lines, m) /\ raw.rec = Lines[m].rec /\ raw.ordinal = OrdinalAt(m)
         /\ \A code : Finding(code, raw) = FindingAt(code, m)
         /\ ~Oversize(m) => raw.text = LineText(m)
         /\ Torn(m) => Damaged(m)
         /\ format # "events" => (IsDefect(raw) <=> Damaged(m))
         /\ DamageAt(m) = FindingAt(IF Torn(m) THEN "SL002" ELSE "SL001", m)
         /\ IsDefect(raw) => LineFindings(raw, terminal) = <<DamageAt(m)>>
         /\ ~IsDefect(raw) => LineFindings(raw, terminal) = IF raw.text = "repeated" THEN <<Finding("SL303", raw)>> ELSE << >>
<1>1. m \in 1..Len(Lines) /\ m \in Nat
  BY LineIs DEF RecordAt
<1>2. /\ raw.line = m /\ raw.offset = OffsetOf(Lines, m) /\ raw.rec = Lines[m].rec /\ raw.ordinal = OrdinalAt(m)
      /\ raw.end = OffsetOf(Lines, m + 1) /\ raw.truncated = Oversize(m)
      /\ ~Oversize(m) => raw.text = LineText(m) /\ raw.ended = Ended(Lines[m])
  BY DEF RawIs, OfLine
<1>3. \A code : Finding(code, raw) = FindingAt(code, m)
  BY <1>2 DEF Finding, FindingAt
<1>4. DamageAt(m) = FindingAt(IF Torn(m) THEN "SL002" ELSE "SL001", m)
  BY DEF DamageAt, FindingAt
<1>5. Torn(m) => Damaged(m)
  BY DEF Torn, Damaged, Decodes
<1>6. ASSUME format # "events" PROVE IsDefect(raw) <=> Damaged(m)
  <2>1. CASE Oversize(m)
    BY <1>2, <2>1 DEF IsDefect, Damaged
  <2>2. CASE ~Oversize(m)
    BY <1>2, <1>6, <2>2 DEF IsDefect, Damaged, Undecodable, Decodes
  <2> QED BY <2>1, <2>2
<1>7. ASSUME IsDefect(raw) PROVE LineFindings(raw, terminal) = <<DamageAt(m)>>
  <2>1. DefectCode(raw, terminal) = IF Torn(m) THEN "SL002" ELSE "SL001"
    <3>1. CASE Oversize(m)
      BY <1>2, <3>1 DEF DefectCode, Torn
    <3>2. CASE ~Oversize(m) /\ Torn(m)
      <4>1. raw.text = "cut" /\ ~raw.ended /\ ~raw.truncated /\ terminal
        BY <1>2, <3>2 DEF Torn
      <4> QED BY <3>2, <4>1 DEF DefectCode, DecodeDefectCode, IsTornAppend, Undecodable, Decodes
    <3>3. CASE ~Oversize(m) /\ ~Torn(m)
      <4>1. ~IsTornAppend(raw)
        BY <1>2, <3>3 DEF Torn, IsTornAppend
      <4> QED BY <3>3, <4>1 DEF DefectCode, DecodeDefectCode
    <3> QED BY <3>1, <3>2, <3>3
  <2> QED BY <1>3, <1>4, <1>7, <2>1 DEF LineFindings
<1>8. ASSUME ~IsDefect(raw)
      PROVE  LineFindings(raw, terminal) = IF raw.text = "repeated" THEN <<Finding("SL303", raw)>> ELSE << >>
  BY <1>8 DEF LineFindings
<1> QED BY <1>1, <1>2, <1>3, <1>4, <1>5, <1>6, <1>7, <1>8

-----------------------------------------------------------------------------
(* What every adapter has in common: one more line.                        *)

\* The findings of a step are the damage of a line, or have nothing to do with it.
Located(L, M, m, codes) ==
  \/ Damaged(m) /\ M.findings = Append(L.findings, DamageAt(m)) /\ M.events = L.events
  \/ ~Damaged(m) /\ codes \cap Damage = {}

\* The line leaves something to be seen.
LeftBehind(L, M, m) ==
  /\ \/ \E k \in DOMAIN M.events : M.events[k].line = m
     \/ \E k \in DOMAIN M.findings : M.findings[k].line = m
     \/ m \in M.unknown
     \/ Passed(M, m)
  /\ Len(L.events) < Len(M.events) /\ format \in DOMAIN NewTypes /\ Lines[m].rec.class \in NewTypes[format] =>
       \/ \E j \in DOMAIN M.findings : M.findings[j].line = m /\ M.findings[j].code = "SL302"
       \/ m \in M.unknown

LEMMA FindingAtIs ==
  ASSUME NEW code, NEW i
  PROVE  /\ FindingAt(code, i).code = code /\ FindingAt(code, i).line = i
         /\ FindingAt(code, i).end = OffsetOf(Lines, i + 1)
BY DEF FindingAt

\* What was said before and what is said of this line.
LEMMA CodedOn ==
  ASSUME NEW L, NEW M, NEW raw, NEW codes, codes \subseteq LineCodes, IsLoad(L), Coded(L), Grows(L, M, raw, codes)
  PROVE  Coded(M)
<1>1. /\ Len(L.findings) \in Nat /\ DOMAIN L.findings = 1..Len(L.findings)
      /\ IsLoad(M) /\ Len(M.findings) \in Nat /\ DOMAIN M.findings = 1..Len(M.findings)
  BY LoadIs DEF Grows
<1>2. ASSUME NEW k \in 1..Len(M.findings) PROVE M.findings[k].code \in LineCodes
  <2>1. CASE k <= Len(L.findings)
    <3>1. k \in 1..Len(L.findings) /\ M.findings[k] = L.findings[k]
      BY <1>1, <2>1 DEF Grows
    <3> QED BY <1>1, <3>1 DEF Coded
  <2>2. CASE k > Len(L.findings)
    <3>1. PICK c \in codes : M.findings[k] = Finding(c, raw)
      BY <2>2 DEF Grows
    <3>2. M.findings[k].code = c
      BY <3>1 DEF Finding
    <3> QED BY <3>1, <3>2
  <2> QED BY <1>1, <2>1, <2>2
<1> QED BY <1>1, <1>2 DEF Coded

LEMMA WhereTurn ==
  ASSUME IsFile(Lines), NEW m \in RecordAt, NEW raw, RawIs(raw, m),
         NEW L, WhereOK(L, m), NEW M, NEW codes, codes \subseteq LineCodes, Grows(L, M, raw, codes),
         Len(L.events) < Len(M.events) => ~Damaged(m)
  PROVE  WhereOK(M, m + 1)
<1>1. /\ Len(L.findings) \in Nat /\ DOMAIN L.findings = 1..Len(L.findings)
      /\ Len(L.events) \in Nat /\ DOMAIN L.events = 1..Len(L.events)
  BY LoadIs DEF WhereOK
<1>2. /\ IsLoad(M) /\ Len(M.findings) \in Nat /\ DOMAIN M.findings = 1..Len(M.findings)
      /\ Len(M.events) \in Nat /\ DOMAIN M.events = 1..Len(M.events)
  BY LoadIs DEF Grows
<1>3. /\ m \in Nat /\ Rows(m + 1) = Rows(m) \cup {m}
      /\ ~Damaged(m) => Sound(m + 1) = Sound(m) \cup {m}
      /\ Damaged(m) => Sound(m + 1) = Sound(m)
  BY RowsNext
<1>4. \A i \in Rows(m) : i \in Nat /\ i < m
  BY LineIs DEF Rows, RecordAt
<1>5. raw.line = m /\ raw.offset = OffsetOf(Lines, m) /\ \A code : Finding(code, raw) = FindingAt(code, m)
  BY DEF RawIs, OfLine, Finding, FindingAt
<1>6. ASSUME NEW k \in 1..Len(M.findings)
      PROVE  M.findings[k].line \in Rows(m + 1) /\ M.findings[k] = FindingAt(M.findings[k].code, M.findings[k].line)
  <2>1. CASE k <= Len(L.findings)
    <3>1. k \in 1..Len(L.findings) /\ M.findings[k] = L.findings[k]
      BY <1>1, <2>1 DEF Grows
    <3>2. L.findings[k].line \in Rows(m) /\ L.findings[k] = FindingAt(L.findings[k].code, L.findings[k].line)
      BY <1>1, <3>1 DEF WhereOK
    <3> QED BY <1>3, <3>1, <3>2
  <2>2. CASE k > Len(L.findings)
    <3>1. PICK c \in codes : M.findings[k] = Finding(c, raw)
      BY <2>2 DEF Grows
    <3> QED BY <1>3, <1>5, <3>1, FindingAtIs
  <2> QED BY <1>1, <1>2, <2>1, <2>2
<1>7. ASSUME NEW k \in 1..Len(M.events)
      PROVE  M.events[k].line \in Sound(m + 1) /\ M.events[k].offset = OffsetOf(Lines, M.events[k].line)
  <2>1. CASE k <= Len(L.events)
    <3>1. k \in 1..Len(L.events) /\ M.events[k] = L.events[k]
      BY <1>1, <2>1 DEF Grows
    <3>2. L.events[k].line \in Sound(m) /\ L.events[k].offset = OffsetOf(Lines, L.events[k].line)
      BY <1>1, <3>1 DEF WhereOK
    <3> QED BY <1>3, <3>1, <3>2
  <2>2. CASE k > Len(L.events)
    <3>1. M.events[k].line = raw.line /\ M.events[k].offset = raw.offset
      BY <2>2 DEF Grows
    <3>2. ~Damaged(m)
      BY <1>1, <1>2, <2>2
    <3> QED BY <1>3, <1>5, <3>1, <3>2
  <2> QED BY <1>1, <1>2, <2>1, <2>2
<1>8. ASSUME NEW j \in 1..Len(M.events), NEW k \in 1..Len(M.events), j < k
      PROVE  M.events[j].line <= M.events[k].line
  <2>1. CASE k <= Len(L.events)
    <3>1. j \in 1..Len(L.events) /\ k \in 1..Len(L.events) /\ M.events[j] = L.events[j] /\ M.events[k] = L.events[k]
      BY <1>1, <1>8, <2>1 DEF Grows
    <3> QED BY <1>1, <1>8, <3>1 DEF WhereOK
  <2>2. CASE k > Len(L.events)
    <3>1. M.events[k].line = m
      BY <1>5, <2>2 DEF Grows
    <3>2. M.events[j].line \in Rows(m + 1)
      BY <1>7 DEF Sound
    <3> QED BY <1>3, <1>4, <3>1, <3>2
  <2> QED BY <1>1, <1>2, <2>1, <2>2
<1>9. M.unknown \subseteq Rows(m + 1)
  <2>1. L.unknown \subseteq Rows(m)
    BY DEF WhereOK
  <2>2. M.unknown \subseteq L.unknown \cup {m}
    BY <1>5 DEF Grows
  <2> QED BY <1>3, <2>1, <2>2
<1>10. Coded(M)
  BY CodedOn DEF WhereOK
<1> QED BY <1>2, <1>6, <1>7, <1>8, <1>9, <1>10 DEF WhereOK

LEMMA ToldTurn ==
  ASSUME IsFile(Lines), NEW m \in RecordAt, NEW raw, RawIs(raw, m),
         NEW L, WhereOK(L, m), ToldOK(L, m), NEW M, NEW codes, Grows(L, M, raw, codes),
         format = "canonical" /\ L.gap => M.gap, LeftBehind(L, M, m)
  PROVE  ToldOK(M, m + 1)
<1>1. /\ Len(L.findings) \in Nat /\ DOMAIN L.findings = 1..Len(L.findings)
      /\ Len(L.events) \in Nat /\ DOMAIN L.events = 1..Len(L.events)
  BY LoadIs DEF WhereOK
<1>2. /\ Len(M.findings) \in Nat /\ DOMAIN M.findings = 1..Len(M.findings)
      /\ Len(M.events) \in Nat /\ DOMAIN M.events = 1..Len(M.events)
  BY LoadIs DEF Grows
<1>3. Rows(m + 1) = Rows(m) \cup {m}
  BY RowsNext
<1>4. /\ \A k \in DOMAIN L.findings : k \in DOMAIN M.findings /\ M.findings[k] = L.findings[k]
      /\ \A k \in DOMAIN L.events : k \in DOMAIN M.events /\ M.events[k] = L.events[k]
      /\ L.unknown \subseteq M.unknown
  BY <1>1, <1>2 DEF Grows
<1>5. \A i : Passed(L, i) => Passed(M, i)
  BY DEF Passed
<1>6. ASSUME NEW i \in Rows(m + 1)
      PROVE  \/ \E k \in DOMAIN M.events : M.events[k].line = i
             \/ \E k \in DOMAIN M.findings : M.findings[k].line = i
             \/ i \in M.unknown
             \/ Passed(M, i)
  <2>1. CASE i \in Rows(m)
    <3>1. \/ \E k \in DOMAIN L.events : L.events[k].line = i
          \/ \E k \in DOMAIN L.findings : L.findings[k].line = i
          \/ i \in L.unknown
          \/ Passed(L, i)
      BY <2>1 DEF ToldOK
    <3> QED BY <1>4, <1>5, <3>1
  <2>2. CASE i = m
    BY <2>2 DEF LeftBehind
  <2> QED BY <1>3, <2>1, <2>2
<1>7. ASSUME NEW k \in DOMAIN M.events, format \in DOMAIN NewTypes,
             Lines[M.events[k].line].rec.class \in NewTypes[format]
      PROVE  \/ \E j \in DOMAIN M.findings : M.findings[j].line = M.events[k].line /\ M.findings[j].code = "SL302"
             \/ M.events[k].line \in M.unknown
  <2>1. CASE k <= Len(L.events)
    <3>1. k \in DOMAIN L.events /\ M.events[k] = L.events[k]
      BY <1>1, <1>2, <1>4, <2>1
    <3>2. \/ \E j \in DOMAIN L.findings : L.findings[j].line = L.events[k].line /\ L.findings[j].code = "SL302"
          \/ L.events[k].line \in L.unknown
      BY <1>7, <3>1 DEF ToldOK
    <3> QED BY <1>4, <3>1, <3>2
  <2>2. CASE k > Len(L.events)
    <3>1. M.events[k].line = m
      BY <1>2, <2>2 DEF Grows, RawIs, OfLine
    <3>2. Len(L.events) < Len(M.events)
      BY <1>1, <1>2, <2>2
    <3> QED BY <1>7, <3>1, <3>2 DEF LeftBehind
  <2> QED BY <1>1, <1>2, <2>1, <2>2
<1> QED BY <1>6, <1>7 DEF ToldOK

LEMMA DamageTurn ==
  ASSUME IsFile(Lines), NEW m \in RecordAt, NEW raw, RawIs(raw, m),
         NEW L, WhereOK(L, m), DamageOK(L, m), NEW M, NEW codes, Grows(L, M, raw, codes), Located(L, M, m, codes)
  PROVE  DamageOK(M, m + 1)
<1> SUFFICES ASSUME format # "canonical" PROVE DamageOK(M, m + 1)
  BY DEF DamageOK
<1>1. /\ Len(L.findings) \in Nat /\ DOMAIN L.findings = 1..Len(L.findings)
      /\ Len(M.findings) \in Nat /\ DOMAIN M.findings = 1..Len(M.findings)
  BY LoadIs DEF WhereOK, Grows
<1>2. m \in Nat /\ Rows(m + 1) = Rows(m) \cup {m} /\ m \notin Rows(m)
  BY RowsNext
<1>3. \A k \in DOMAIN L.findings : k \in DOMAIN M.findings /\ M.findings[k] = L.findings[k]
  BY <1>1 DEF Grows
<1>4. DamageAt(m).line = m /\ DamageAt(m).code \in Damage
  BY DEF DamageAt, Damage
<1>5. \A k \in DOMAIN M.findings : k \in DOMAIN L.findings \/ k > Len(L.findings)
  BY <1>1
<1>6. /\ \A i \in Rows(m) : Damaged(i) => \E k \in DOMAIN L.findings : L.findings[k] = DamageAt(i)
      /\ \A k \in DOMAIN L.findings : L.findings[k].code \in Damage =>
           Damaged(L.findings[k].line) /\ L.findings[k] = DamageAt(L.findings[k].line)
      /\ \A j, k \in DOMAIN L.findings :
           j < k /\ L.findings[j].code \in Damage /\ L.findings[k].code \in Damage =>
             L.findings[j].line # L.findings[k].line
  BY DEF DamageOK
<1>7. CASE Damaged(m) /\ M.findings = Append(L.findings, DamageAt(m))
  <2>1. Len(M.findings) = Len(L.findings) + 1 /\ M.findings[Len(L.findings) + 1] = DamageAt(m)
    BY <1>7, Appended DEF WhereOK, IsLoad
  <2>2. \A k \in DOMAIN M.findings : k > Len(L.findings) => M.findings[k] = DamageAt(m)
    BY <1>1, <2>1
  <2>3. Len(L.findings) + 1 \in DOMAIN M.findings
    BY <1>1, <2>1
  <2>4. \A i \in Rows(m + 1) : Damaged(i) => \E k \in DOMAIN M.findings : M.findings[k] = DamageAt(i)
    BY <1>2, <1>3, <1>6, <2>1, <2>3
  <2>5. \A k \in DOMAIN M.findings : M.findings[k].code \in Damage =>
           Damaged(M.findings[k].line) /\ M.findings[k] = DamageAt(M.findings[k].line)
    BY <1>3, <1>4, <1>5, <1>6, <1>7, <2>2
  <2>6. ASSUME NEW j \in DOMAIN M.findings, NEW k \in DOMAIN M.findings, j < k,
               M.findings[j].code \in Damage, M.findings[k].code \in Damage
        PROVE  M.findings[j].line # M.findings[k].line
    <3>1. CASE k \in DOMAIN L.findings
      <4>1. j \in DOMAIN L.findings
        BY <1>1, <2>6, <3>1
      <4> QED BY <1>3, <1>6, <2>6, <3>1, <4>1
    <3>2. CASE k > Len(L.findings)
      <4>1. j \in DOMAIN L.findings /\ M.findings[j] = L.findings[j]
        BY <1>1, <1>3, <2>1, <2>6, <3>2
      <4>2. L.findings[j].line \in Rows(m)
        BY <4>1 DEF WhereOK
      <4>3. M.findings[k].line = m
        BY <1>4, <2>2, <3>2
      <4> QED BY <1>2, <4>1, <4>2, <4>3
    <3> QED BY <1>5, <3>1, <3>2
  <2> QED BY <2>4, <2>5, <2>6 DEF DamageOK
<1>8. CASE ~Damaged(m) /\ codes \cap Damage = {}
  <2>1. ASSUME NEW k \in DOMAIN M.findings, M.findings[k].code \in Damage PROVE k \in DOMAIN L.findings
    <3> SUFFICES ASSUME k > Len(L.findings) PROVE FALSE
      BY <1>5
    <3>1. PICK c \in codes : M.findings[k] = Finding(c, raw)
      BY <1>1 DEF Grows
    <3>2. M.findings[k].code = c
      BY <3>1 DEF Finding
    <3> QED BY <1>8, <2>1, <3>2
  <2>2. \A i \in Rows(m + 1) : Damaged(i) => \E k \in DOMAIN M.findings : M.findings[k] = DamageAt(i)
    BY <1>2, <1>3, <1>6, <1>8
  <2>3. \A k \in DOMAIN M.findings : M.findings[k].code \in Damage =>
           Damaged(M.findings[k].line) /\ M.findings[k] = DamageAt(M.findings[k].line)
    BY <1>3, <1>6, <2>1
  <2>4. \A j, k \in DOMAIN M.findings :
           j < k /\ M.findings[j].code \in Damage /\ M.findings[k].code \in Damage =>
             M.findings[j].line # M.findings[k].line
    BY <1>3, <1>6, <2>1
  <2> QED BY <2>2, <2>3, <2>4 DEF DamageOK
<1> QED BY <1>7, <1>8 DEF Located

-----------------------------------------------------------------------------
(* The tail.                                                               *)

LEMMA NotedIs ==
  ASSUME NEW L, NEW M, IsLoad(M)
  PROVE  /\ IsLoad(NotedSince(L, M)) /\ SameLists(M, NotedSince(L, M)) /\ SameVersion(M, NotedSince(L, M))
         /\ NotedSince(L, M).last = M.last /\ NotedSince(L, M).lastOrdinal = M.lastOrdinal
         /\ NotedSince(L, M).gap = M.gap
         /\ NotedSince(L, M).tail =
              NoteProduced(M.tail, SubSeq(M.findings, Len(L.findings) + 1, Len(M.findings)),
                                   SubSeq(M.events, Len(L.events) + 1, Len(M.events)))
<1>1. PICK t : t = NoteProduced(M.tail, SubSeq(M.findings, Len(L.findings) + 1, Len(M.findings)),
                                        SubSeq(M.events, Len(L.events) + 1, Len(M.events)))
  OBVIOUS
<1>2. PICK N : N = [M EXCEPT !.tail = t]
  OBVIOUS
<1>3. NotedSince(L, M) = N
  BY <1>1, <1>2 DEF NotedSince
<1>4. /\ DOMAIN N = LoadFields /\ SameLists(M, N) /\ SameVersion(M, N) /\ N.tail = t
      /\ N.last = M.last /\ N.lastOrdinal = M.lastOrdinal /\ N.gap = M.gap
  BY <1>2 DEF IsLoad, LoadFields, SameLists, SameVersion
<1>5. IsLoad(N)
  BY <1>4 DEF IsLoad, SameLists
<1> QED BY <1>1, <1>3, <1>4, <1>5

\* The tail begins behind the first finding that is damage and no torn append.
LEMMA TailTurn ==
  ASSUME IsFile(Lines), format # "canonical", NEW m \in RecordAt, NEW raw, RawIs(raw, m),
         NEW L, WhereOK(L, m), TailOK(L, m), NEW M, NEW codes, Grows(L, M, raw, codes),
         M.tail = L.tail, Located(L, M, m, codes), Torn(m) => Damaged(m)
  PROVE  TailOK(NotedSince(L, M), m + 1)
<1> DEFINE l == Len(L.findings)
           fs == SubSeq(M.findings, l + 1, Len(M.findings))
           es == SubSeq(M.events, Len(L.events) + 1, Len(M.events))
           bad == {k \in DOMAIN fs : fs[k].code = "SL001"}
           N == NotedSince(L, M)
<1>1. l \in Nat /\ Len(M.findings) \in Nat /\ l <= Len(M.findings) /\ IsSequence(M.findings) /\ IsLoad(M)
  BY LoadIs DEF WhereOK, Grows, IsLoad
<1>2. /\ DOMAIN fs = 1..(Len(M.findings) - l)
      /\ \A k \in 1..(Len(M.findings) - l) : fs[k] = M.findings[l + k]
  BY <1>1, Behind
<1>3. N.tail = NoteProduced(L.tail, fs, es)
  BY <1>1, NotedIs
<1> HIDE DEF fs, es, N
<1>4. CASE Damaged(m) /\ ~Torn(m)
  <2>1. codes \cap Damage # {}  \/ M.findings = Append(L.findings, DamageAt(m))
    BY <1>4 DEF Located
  <2>2. M.findings = Append(L.findings, DamageAt(m))
    BY <1>4 DEF Located
  <2>3. Len(M.findings) = l + 1 /\ M.findings[l + 1] = DamageAt(m)
    BY <2>2, Appended DEF WhereOK, IsLoad
  <2>4. DOMAIN fs = 1..1 /\ fs[1] = DamageAt(m)
    BY <1>1, <1>2, <2>3
  <2>5. DamageAt(m).code = "SL001" /\ DamageAt(m).end = OffsetOf(Lines, m + 1)
    BY <1>4 DEF DamageAt
  <2>6. bad = {1}
    BY <2>4, <2>5
  <2>7. Min(bad) = 1
    <3>1. {1} \in SUBSET Int /\ 1 \in {1} /\ \A y \in {1} : 1 <= y
      OBVIOUS
    <3> HIDE DEF bad
    <3> QED BY <2>6, <3>1, MinIs
  <2>8. Bad(m + 1) = Bad(m) \cup {m} /\ \A j \in Bad(m) : j \in Nat /\ j < m
    <3>1. \A j \in RecordAt : j \in Nat
      BY LineIs DEF RecordAt
    <3> QED BY <1>4, <3>1, RowsNext DEF Bad, Rows
  <2>81. m \in Nat
    BY RowsNext
  <2> HIDE DEF bad
  <2>9. CASE L.tail.begun
    <3>1. N.tail = [L.tail EXCEPT !.records = @ + Len(es)]
      BY <1>3, <2>9 DEF NoteProduced, bad
    <3>2. PICK i \in Bad(m) : (\A j \in Bad(m) : i <= j) /\ L.tail.end = OffsetOf(Lines, i + 1)
      BY <2>9 DEF TailOK
    <3>3. i \in Bad(m + 1) /\ \A j \in Bad(m + 1) : i <= j
      BY <2>8, <2>81, <3>2
    <3>4. L.tail = [begun |-> L.tail.begun, end |-> L.tail.end, records |-> L.tail.records, bytes |-> L.tail.bytes]
          /\ L.tail.begun \in BOOLEAN
      BY DEF TailOK
    <3>5. N.tail = [begun |-> L.tail.begun, end |-> L.tail.end, records |-> L.tail.records + Len(es), bytes |-> L.tail.bytes]
      BY <3>1, <3>4
    <3>6. N.tail.end = OffsetOf(Lines, i + 1) /\ N.tail.begun = TRUE
      BY <2>9, <3>2, <3>4, <3>5
    <3> QED BY <3>3, <3>5, <3>6 DEF TailOK, N
  <2>10. CASE ~L.tail.begun
    <3>1. fs[Min(bad)].end = OffsetOf(Lines, m + 1) /\ bad # {}
      BY <2>4, <2>5, <2>6, <2>7
    <3>2. L.tail = [begun |-> L.tail.begun, end |-> L.tail.end, records |-> L.tail.records, bytes |-> L.tail.bytes]
          /\ L.tail.begun = FALSE /\ Bad(m) = {}
      BY <2>10 DEF TailOK
    <3>3. N.tail = [[L.tail EXCEPT !.begun = TRUE, !.end = fs[Min(bad)].end] EXCEPT !.records = @ + Len(es)]
      <4>1. [L.tail EXCEPT !.begun = TRUE, !.end = fs[Min(bad)].end].begun = TRUE
        BY <3>2
      <4> QED BY <1>3, <2>10, <3>1, <4>1 DEF NoteProduced, bad
    <3>4. N.tail = [begun |-> TRUE, end |-> OffsetOf(Lines, m + 1), records |-> L.tail.records + Len(es), bytes |-> L.tail.bytes]
      BY <3>1, <3>2, <3>3
    <3>5. Bad(m + 1) = {m} /\ m <= m
      BY <2>8, <2>81, <3>2
    <3>6. N.tail.begun = TRUE /\ N.tail.end = OffsetOf(Lines, m + 1)
          /\ N.tail = [begun |-> N.tail.begun, end |-> N.tail.end, records |-> N.tail.records, bytes |-> N.tail.bytes]
      BY <3>4
    <3>7. \E i \in Bad(m + 1) : (\A j \in Bad(m + 1) : i <= j) /\ N.tail.end = OffsetOf(Lines, i + 1)
      BY <3>5, <3>6
    <3>8. Bad(m + 1) # {}
      BY <3>5
    <3> QED BY <3>6, <3>7, <3>8 DEF TailOK, N
  <2> QED BY <2>9, <2>10
<1>5. CASE ~(Damaged(m) /\ ~Torn(m))
  <2>1. bad = {}
    <3> SUFFICES ASSUME NEW k \in 1..(Len(M.findings) - l), fs[k].code = "SL001" PROVE FALSE
      BY <1>2
    <3>1. fs[k] = M.findings[l + k] /\ l + k \in 1..Len(M.findings) /\ l + k > l
      BY <1>1, <1>2
    <3>2. PICK c \in codes : M.findings[l + k] = Finding(c, raw)
      BY <3>1 DEF Grows
    <3>3. c = "SL001"
      BY <3>1, <3>2 DEF Finding
    <3>4. codes \cap Damage # {}
      BY <3>2, <3>3 DEF Damage
    <3>5. Damaged(m) /\ M.findings = Append(L.findings, DamageAt(m))
      BY <3>4 DEF Located
    <3>6. Len(M.findings) = l + 1 /\ M.findings[l + 1] = DamageAt(m)
      BY <3>5, Appended DEF WhereOK, IsLoad
    <3>7. k = 1
      BY <1>1, <3>6
    <3>8. DamageAt(m).code = "SL002"
      BY <1>5, <3>5 DEF DamageAt
    <3> QED BY <3>1, <3>6, <3>7, <3>8
  <2>2. Bad(m + 1) = Bad(m)
    BY <1>5, RowsNext
  <2> HIDE DEF bad
  <2>3. N.tail = IF L.tail.begun THEN [L.tail EXCEPT !.records = @ + Len(es)] ELSE L.tail
    BY <1>3, <2>1 DEF NoteProduced, bad
  <2>4. L.tail = [begun |-> L.tail.begun, end |-> L.tail.end, records |-> L.tail.records, bytes |-> L.tail.bytes]
    BY DEF TailOK
  <2>5. N.tail = [begun |-> N.tail.begun, end |-> N.tail.end, records |-> N.tail.records, bytes |-> N.tail.bytes]
        /\ N.tail.begun = L.tail.begun /\ N.tail.end = L.tail.end
    <3>1. CASE L.tail.begun
      <4>1. N.tail = [begun |-> L.tail.begun, end |-> L.tail.end, records |-> L.tail.records + Len(es), bytes |-> L.tail.bytes]
        BY <2>3, <2>4, <3>1
      <4> QED BY <4>1
    <3>2. CASE ~L.tail.begun
      <4>1. N.tail = L.tail
        BY <2>3, <3>2
      <4> QED BY <2>4, <4>1
    <3> QED BY <3>1, <3>2
  <2> QED BY <2>2, <2>5 DEF TailOK, N
<1> QED BY <1>4, <1>5

\* What does not depend on the tail is the same once it is noted.
LEMMA NotedKeeps ==
  ASSUME NEW L, NEW M, IsLoad(M), NEW n
  PROVE  /\ WhereOK(M, n) => WhereOK(NotedSince(L, M), n)
         /\ ToldOK(M, n) => ToldOK(NotedSince(L, M), n)
         /\ DamageOK(M, n) => DamageOK(NotedSince(L, M), n)
         /\ LinkOK(M, n) => LinkOK(NotedSince(L, M), n)
         /\ VersionOK(M, n) => VersionOK(NotedSince(L, M), n)
         /\ PlaceOK(M) => PlaceOK(NotedSince(L, M))
<1>0. PICK N : N = NotedSince(L, M)
  OBVIOUS
<1>1. /\ IsLoad(N) /\ N.events = M.events /\ N.findings = M.findings /\ N.unknown = M.unknown
      /\ N.sl301 = M.sl301 /\ N.unsupported = M.unsupported /\ N.baseline = M.baseline /\ N.drift = M.drift
      /\ N.last = M.last /\ N.lastOrdinal = M.lastOrdinal /\ N.gap = M.gap
  BY <1>0, NotedIs DEF SameLists, SameVersion
<1>2. WhereOK(M, n) => WhereOK(N, n)
  BY <1>1 DEF WhereOK, Coded
<1>3. ToldOK(M, n) => ToldOK(N, n)
  BY <1>1 DEF ToldOK, Passed
<1>4. DamageOK(M, n) => DamageOK(N, n)
  BY <1>1 DEF DamageOK
<1>5. LinkOK(M, n) => LinkOK(N, n)
  <2>1. \A k : Adjacent(N, k) = Adjacent(M, k) /\ Ordinal(N, k) = Ordinal(M, k)
    BY <1>1 DEF Adjacent, Ordinal
  <2> QED BY <1>1, <2>1 DEF LinkOK
<1>6. VersionOK(M, n) => VersionOK(N, n)
  BY <1>1 DEF VersionOK
<1>7. PlaceOK(M) => PlaceOK(N)
  BY <1>1 DEF PlaceOK, Group
<1> QED BY <1>0, <1>2, <1>3, <1>4, <1>5, <1>6, <1>7

\* One line of a stream that is no canonical session, all that adapters share.
LEMMA LineTurn ==
  ASSUME IsFile(Lines), format # "canonical", NEW m \in RecordAt, NEW raw, RawIs(raw, m), Torn(m) => Damaged(m),
         NEW L, LoadOK(L, m), NEW M, NEW codes, codes \subseteq LineCodes, Grows(L, M, raw, codes),
         M.tail = L.tail, Located(L, M, m, codes), LeftBehind(L, M, m), LinkOK(M, m + 1), VersionOK(M, m + 1), PlaceOK(M)
  PROVE  LoadOK(NotedSince(L, M), m + 1)
<1>1. WhereOK(L, m) /\ ToldOK(L, m) /\ DamageOK(L, m) /\ TailOK(L, m)
  BY DEF LoadOK
<1>2. Len(L.events) < Len(M.events) => ~Damaged(m)
  <2>1. Len(L.events) \in Nat
    BY <1>1, LoadIs DEF WhereOK
  <2> QED BY <2>1 DEF Located
<1>3. WhereOK(M, m + 1)
  BY <1>1, <1>2, WhereTurn
<1>4. ToldOK(M, m + 1)
  BY <1>1, ToldTurn
<1>5. DamageOK(M, m + 1)
  BY <1>1, DamageTurn
<1>6. TailOK(NotedSince(L, M), m + 1)
  BY <1>1, TailTurn
<1>7. IsLoad(M)
  BY DEF Grows
<1>8. PICK n : n = m + 1
  OBVIOUS
<1>9. LoadOK(NotedSince(L, M), n)
  BY <1>3, <1>4, <1>5, <1>6, <1>7, <1>8, NotedKeeps DEF LoadOK
<1> QED BY <1>8, <1>9

-----------------------------------------------------------------------------
(* A line that cannot be read: every adapter reports it and goes on.       *)

LEMMA AppendIsJoin ==
  ASSUME NEW q, IsSequence(q), NEW x
  PROVE  q \o <<x>> = Append(q, x)
<1> DEFINE S == ToSet(q) \cup {x}
<1>1. q \in Seq(ToSet(q))
  BY DEF IsSequence
<1>2. q \in Seq(S) /\ x \in S
  BY <1>1
<1> HIDE DEF S
<1> QED BY <1>2

Recorded(L, R, m, raw) ==
  /\ Grows(L, R, raw, Damage) /\ R.findings = Append(L.findings, DamageAt(m))
  /\ R.events = L.events /\ R.unknown = L.unknown /\ SameVersion(L, R) /\ SamePlace(L, R)

LEMMA DamageReported ==
  ASSUME NEW m, NEW raw, NEW codes, codes = Damage, DamageAt(m) \in {Finding(c, raw) : c \in codes}, NEW L, IsLoad(L)
  PROVE  Recorded(L, [L EXCEPT !.findings = @ \o <<DamageAt(m)>>], m, raw)
<1> DEFINE fs == <<DamageAt(m)>>
<1>1. PICK M : M = [L EXCEPT !.findings = @ \o fs]
  OBVIOUS
<1>2. IsSequence(fs) /\ \A k \in 1..Len(fs) : \E c \in codes : fs[k] = Finding(c, raw)
  BY OneElement
<1> HIDE DEF fs
<1>3. /\ Grows(L, M, raw, codes) /\ M.events = L.events /\ M.unknown = L.unknown
      /\ SameVersion(L, M) /\ SamePlace(L, M) /\ M.findings = L.findings \o fs
  <2>1. MoreFindings(L, [L EXCEPT !.findings = @ \o fs], fs, raw, codes)
    BY <1>2, FindingsJoin
  <2> QED BY <1>1, <2>1 DEF MoreFindings
<1>4. L.findings \o fs = Append(L.findings, DamageAt(m))
  BY AppendIsJoin DEF IsLoad, fs
<1> QED BY <1>1, <1>3, <1>4 DEF Recorded, fs

\* Nothing is said of versions where no record could be read.
LEMMA NoVersion ==
  ASSUME IsFile(Lines), NEW m \in RecordAt, Damaged(m), NEW L, VersionOK(L, m)
  PROVE  VersionOK(L, m + 1)
<1>1. Sound(m + 1) = Sound(m)
  BY RowsNext
<1>2. Marked(m + 1) = Marked(m) /\ Unsupported(m + 1) = Unsupported(m) /\ Changed(m + 1) = Changed(m)
  BY <1>1 DEF Marked, Unsupported, Changed
<1> QED BY <1>2 DEF VersionOK

LEMMA SamePlaces ==
  ASSUME NEW L, NEW M, M.events = L.events, PlaceOK(L)
  PROVE  PlaceOK(M)
BY DEF PlaceOK, Group

LEMMA DamagedLeaves ==
  ASSUME NEW m, NEW raw, NEW L, IsLoad(L), NEW R, Recorded(L, R, m, raw)
  PROVE  LeftBehind(L, R, m)
<1>1. Len(L.events) \in Nat /\ R.events = L.events /\ ~(Len(L.events) < Len(R.events))
  BY LoadIs DEF Recorded
<1>2. Len(R.findings) \in DOMAIN R.findings /\ R.findings[Len(R.findings)] = DamageAt(m)
  <2>1. /\ Len(R.findings) = Len(L.findings) + 1 /\ R.findings[Len(L.findings) + 1] = DamageAt(m)
        /\ DOMAIN R.findings = 1..(Len(L.findings) + 1)
    BY Appended DEF Recorded, IsLoad
  <2>2. Len(L.findings) \in Nat
    BY LoadIs
  <2> QED BY <2>1, <2>2
<1>3. DamageAt(m).line = m
  BY DEF DamageAt
<1> QED BY <1>1, <1>2, <1>3 DEF LeftBehind

LEMMA DamagedLine ==
  ASSUME IsFile(Lines), format \in {"events", "claude", "openai"}, NEW m \in RecordAt, NEW raw, RawIs(raw, m),
         Damaged(m), NEW L, LoadOK(L, m), NEW R, Recorded(L, R, m, raw)
  PROVE  LoadOK(NotedSince(L, R), m + 1)
<1>1. IsLoad(L) /\ VersionOK(L, m) /\ PlaceOK(L)
  BY DEF LoadOK, WhereOK
<1>2. Grows(L, R, raw, Damage) /\ R.tail = L.tail /\ Located(L, R, m, Damage) /\ "SL301" \notin Damage
      /\ SameVersion(L, R) /\ R.events = L.events
  BY DEF Recorded, SamePlace, Located, Damage
<1>3. LeftBehind(L, R, m)
  BY <1>1, DamagedLeaves
<1>4. VersionOK(R, m + 1)
  <2>1. VersionOK(L, m + 1)
    BY <1>1, NoVersion
  <2>2. PICK codes : codes = Damage
    OBVIOUS
  <2>3. PICK n : n = m + 1
    OBVIOUS
  <2>4. VersionOK(R, n)
    BY <1>1, <1>2, <2>1, <2>2, <2>3, VersionSame
  <2> QED BY <2>3, <2>4
<1>5. PlaceOK(R)
  BY <1>1, <1>2, SamePlaces
<1>6. LinkOK(R, m + 1)
  BY DEF LinkOK
<1>7. Damage \subseteq LineCodes
  BY DEF Damage, LineCodes
<1> QED BY <1>2, <1>3, <1>4, <1>5, <1>6, <1>7, LineTurn

\* A line that can be read: at most a finding of its repeated keys.
Opened(L, R, raw, codes) ==
  /\ Grows(L, R, raw, codes) /\ R.events = L.events /\ R.unknown = L.unknown
  /\ SameVersion(L, R) /\ SamePlace(L, R)

LEMMA SoundOpened ==
  ASSUME NEW raw, NEW codes, "SL303" \in codes, NEW L, IsLoad(L), NEW terminal, ~IsDefect(raw)
  PROVE  Opened(L, [L EXCEPT !.findings = @ \o LineFindings(raw, terminal)], raw, codes)
<1>1. PICK fs : fs = LineFindings(raw, terminal)
  OBVIOUS
<1>2. PICK M : M = [L EXCEPT !.findings = @ \o fs]
  OBVIOUS
<1>3. fs = IF raw.text = "repeated" THEN <<Finding("SL303", raw)>> ELSE << >>
  BY <1>1 DEF LineFindings
<1>4. IsSequence(fs) /\ \A k \in 1..Len(fs) : \E c \in codes : fs[k] = Finding(c, raw)
  <2>1. CASE raw.text = "repeated"
    <3>1. fs = <<Finding("SL303", raw)>>
      BY <1>3, <2>1
    <3>2. IsSequence(fs) /\ Len(fs) = 1 /\ fs[1] = Finding("SL303", raw)
      BY <3>1, OneElement
    <3>3. \A k \in 1..1 : k = 1
      OBVIOUS
    <3> QED BY <3>2, <3>3
  <2>2. CASE raw.text # "repeated"
    <3>1. fs = << >>
      BY <1>3, <2>2
    <3> QED BY <3>1, EmptySequence
  <2> QED BY <2>1, <2>2
<1>5. /\ Grows(L, M, raw, codes) /\ M.events = L.events /\ M.unknown = L.unknown
      /\ SameVersion(L, M) /\ SamePlace(L, M)
  <2>1. MoreFindings(L, [L EXCEPT !.findings = @ \o fs], fs, raw, codes)
    BY <1>4, FindingsJoin
  <2> QED BY <1>2, <2>1 DEF MoreFindings
<1> QED BY <1>1, <1>2, <1>5 DEF Opened

\* What was read of a sound line, with the events it gives.
LEMMA SoundLine ==
  ASSUME IsFile(Lines), format # "canonical", NEW m \in RecordAt, NEW raw, RawIs(raw, m), ~Damaged(m),
         Torn(m) => Damaged(m), NEW L, LoadOK(L, m), NEW M, NEW codes, Grows(L, M, raw, codes), M.tail = L.tail,
         codes \cap Damage = {}, codes \subseteq LineCodes, LeftBehind(L, M, m), LinkOK(M, m + 1), VersionOK(M, m + 1), PlaceOK(M)
  PROVE  LoadOK(NotedSince(L, M), m + 1)
<1>1. Located(L, M, m, codes)
  BY DEF Located
<1> QED BY <1>1, LineTurn

LEMMA EventLeaves ==
  ASSUME NEW m, NEW raw, raw.line = m, NEW K, IsLoad(K), NEW e, e.line = raw.line, e.offset = raw.offset,
         NEW L, format \in DOMAIN NewTypes /\ Lines[m].rec.class \in NewTypes[format] =>
                  \/ \E j \in DOMAIN K.findings : K.findings[j].line = m /\ K.findings[j].code = "SL302"
                  \/ m \in K.unknown
  PROVE  LeftBehind(L, Emit(K, e), m)
<1>1. PICK M : M = Emit(K, e)
  OBVIOUS
<1>2. PICK codes : codes = {}
  OBVIOUS
<1>3. /\ Grows(K, M, raw, codes) /\ M.findings = K.findings /\ M.unknown = K.unknown
      /\ Len(M.events) = Len(K.events) + 1 /\ M.events[Len(M.events)] = e
  <2>1. Emits(K, M, e, raw, codes)
    BY <1>1, EmitIs
  <2> QED BY <2>1 DEF Emits
<1>4. Len(M.events) \in DOMAIN M.events
  <2>1. IsLoad(M)
    BY <1>3 DEF Grows
  <2>2. DOMAIN M.events = 1..Len(M.events) /\ Len(K.events) \in Nat
    BY <2>1, LoadIs
  <2> QED BY <1>3, <2>2
<1>5. \E k \in DOMAIN M.events : M.events[k].line = m
  BY <1>3, <1>4
<1> QED BY <1>1, <1>3, <1>5 DEF LeftBehind

-----------------------------------------------------------------------------
(* The events of a session by themselves.                                  *)

LEMMA BadSays ==
  ASSUME IsFile(Lines), format = "events", NEW m \in RecordAt, NEW raw, RawIs(raw, m),
         NEW terminal \in BOOLEAN, Torn(m) => terminal
  PROVE  LET misplaced == raw.text = "header" /\ raw.ordinal # 1
             bad == [raw EXCEPT !.text = IF misplaced THEN "refused" ELSE @]
         IN /\ IsDefect(bad) <=> Damaged(m)
            /\ Damaged(m) => LineFindings(bad, terminal) = <<DamageAt(m)>>
            /\ ~Damaged(m) => bad = raw
<1>1. PICK misplaced \in BOOLEAN : misplaced <=> raw.text = "header" /\ raw.ordinal # 1
  OBVIOUS
<1>2. PICK bad : bad = [raw EXCEPT !.text = IF misplaced THEN "refused" ELSE @]
  OBVIOUS
<1>3. /\ raw.ordinal = OrdinalAt(m) /\ DamageAt(m) = FindingAt(IF Torn(m) THEN "SL002" ELSE "SL001", m)
      /\ \A code : Finding(code, raw) = FindingAt(code, m)
      /\ ~Oversize(m) => raw.text = LineText(m)
      /\ IsDefect(raw) => LineFindings(raw, terminal) = <<DamageAt(m)>>
  BY RawSays
<1>4. IsRaw(raw) /\ raw.truncated = Oversize(m)
  BY DEF RawIs, OfLine
<1>5. CASE misplaced
  <2>1. /\ bad.text = "refused" /\ bad.truncated = raw.truncated
        /\ Finding("SL001", bad) = Finding("SL001", raw)
    BY <1>2, <1>4, <1>5 DEF IsRaw, Raw, Finding
  <2>2. Damaged(m)
    BY <1>1, <1>3, <1>5 DEF Damaged
  <2>3. ~Torn(m)
    BY <1>1, <1>3, <1>5 DEF Torn
  <2>4. IsDefect(bad) /\ DefectCode(bad, terminal) = "SL001"
    BY <2>1 DEF IsDefect, DefectCode, Undecodable, Decodes
  <2>5. LineFindings(bad, terminal) = <<DamageAt(m)>>
    BY <1>3, <2>1, <2>3, <2>4 DEF LineFindings
  <2> QED BY <1>1, <1>2, <2>2, <2>4, <2>5
<1>6. CASE ~misplaced
  <2>1. bad = raw
    BY <1>2, <1>4, <1>6 DEF IsRaw, Raw
  <2>2. IsDefect(raw) <=> Damaged(m)
    <3>1. CASE Oversize(m)
      BY <1>4, <3>1 DEF IsDefect, Damaged
    <3>2. CASE ~Oversize(m)
      BY <1>1, <1>3, <1>4, <1>6, <3>2 DEF IsDefect, Damaged, Undecodable, Decodes
    <3> QED BY <3>1, <3>2
  <2> QED BY <1>1, <1>2, <1>3, <2>1, <2>2
<1> QED BY <1>5, <1>6

LEMMA EventKeeps ==
  ASSUME IsFile(Lines), format = "events", NEW m \in RecordAt, NEW raw, RawIs(raw, m),
         NEW L, LoadOK(L, m), NEW terminal \in BOOLEAN, Torn(m) => terminal
  PROVE  LoadOK(ProcessEventLine(L, raw, terminal), m + 1)
<1>1. PICK misplaced \in BOOLEAN : misplaced <=> raw.text = "header" /\ raw.ordinal # 1
  OBVIOUS
<1>2. PICK bad : bad = [raw EXCEPT !.text = IF misplaced THEN "refused" ELSE @]
  OBVIOUS
<1>3. PICK R : R = [L EXCEPT !.findings = @ \o LineFindings(bad, terminal)]
  OBVIOUS
<1>4. PICK e : e = Event(raw.rec.id, raw.rec.parent, raw.rec.class, raw.rec.corr, raw, TRUE)
  OBVIOUS
<1>5. ProcessEventLine(L, raw, terminal) =
        NotedSince(L, IF IsDefect(bad) \/ raw.text = "header" THEN R ELSE Emit(R, e))
  BY <1>1, <1>2, <1>3, <1>4 DEF ProcessEventLine
<1>6. /\ IsDefect(bad) <=> Damaged(m)
      /\ Damaged(m) => LineFindings(bad, terminal) = <<DamageAt(m)>>
      /\ ~Damaged(m) => bad = raw
  BY <1>1, <1>2, BadSays
<1>7. /\ raw.line = m /\ raw.ordinal = OrdinalAt(m) /\ (Torn(m) => Damaged(m))
      /\ DamageAt(m) = FindingAt(IF Torn(m) THEN "SL002" ELSE "SL001", m)
      /\ \A code : Finding(code, raw) = FindingAt(code, m)
      /\ ~Oversize(m) => raw.text = LineText(m)
  BY RawSays
<1>8. IsLoad(L)
  BY DEF LoadOK, WhereOK
<1>9. \A M, n : LinkOK(M, n) /\ VersionOK(M, n) /\ PlaceOK(M)
  BY DEF LinkOK, VersionOK, PlaceOK
<1>10. CASE Damaged(m)
  <2>1. R = [L EXCEPT !.findings = @ \o <<DamageAt(m)>>]
    BY <1>3, <1>6, <1>10
  <2>2. PICK codes : codes = Damage
    OBVIOUS
  <2>3. DamageAt(m) \in {Finding(c, raw) : c \in codes}
    BY <1>7, <2>2 DEF Damage
  <2>4. Recorded(L, R, m, raw)
    BY <1>8, <2>1, <2>2, <2>3, DamageReported
  <2>5. ProcessEventLine(L, raw, terminal) = NotedSince(L, R)
    BY <1>5, <1>6, <1>10
  <2>6. LoadOK(NotedSince(L, R), m + 1)
    BY <1>10, <2>4, DamagedLine
  <2> QED BY <2>5, <2>6
<1>11. CASE ~Damaged(m)
  <2>1. PICK codes : codes = {"SL303"}
    OBVIOUS
  <2>2. codes \cap Damage = {} /\ codes \subseteq LineCodes /\ "SL303" \in codes
    BY <2>1 DEF Damage, LineCodes
  <2>3. Opened(L, R, raw, codes)
    BY <1>3, <1>6, <1>8, <1>11, <2>2, SoundOpened
  <2>4. Grows(L, R, raw, codes) /\ R.tail = L.tail /\ IsLoad(R) /\ R.events = L.events
    BY <2>3 DEF Opened, SamePlace, Grows
  <2>5. CASE raw.text = "header"
    <3>1. ProcessEventLine(L, raw, terminal) = NotedSince(L, R)
      BY <1>5, <2>5
    <3>2. Passed(R, m)
      <4>1. ~Oversize(m)
        BY <1>11 DEF Damaged
      <4>2. LineText(m) = "header"
        BY <1>7, <2>5, <4>1
      <4> QED BY <1>11, <4>2 DEF Passed, Damaged
    <3>3. LeftBehind(L, R, m)
      BY <3>2 DEF LeftBehind, NewTypes
    <3>4. LoadOK(NotedSince(L, R), m + 1)
      BY <1>7, <1>9, <1>11, <2>2, <2>4, <3>3, SoundLine
    <3> QED BY <3>1, <3>4
  <2>6. CASE raw.text # "header"
    <3>1. ProcessEventLine(L, raw, terminal) = NotedSince(L, Emit(R, e))
      BY <1>5, <1>6, <1>11, <2>6
    <3>2. e.line = raw.line /\ e.offset = raw.offset
      BY <1>4 DEF Event
    <3>3. PICK M : M = Emit(R, e)
      OBVIOUS
    <3>4. Grows(R, M, raw, codes) /\ SamePlace(R, M)
      <4>1. Emits(R, M, e, raw, codes)
        BY <2>4, <3>2, <3>3, EmitIs
      <4> QED BY <4>1 DEF Emits
    <3>5. Grows(L, M, raw, codes) /\ M.tail = L.tail
      BY <1>8, <2>4, <3>4, GrowsOn DEF SamePlace
    <3>6. LeftBehind(L, M, m)
      <4>1. format \notin DOMAIN NewTypes
        BY DEF NewTypes
      <4> QED BY <1>7, <2>4, <3>2, <3>3, <4>1, EventLeaves
    <3>7. LoadOK(NotedSince(L, M), m + 1)
      BY <1>7, <1>9, <1>11, <2>2, <3>5, <3>6, SoundLine
    <3> QED BY <3>1, <3>3, <3>7
  <2> QED BY <2>5, <2>6
<1> QED BY <1>10, <1>11

-----------------------------------------------------------------------------
(* Codex rollouts.                                                         *)

LEMMA QuietIs ==
  ASSUME NEW L, NEW M, IsLoad(L), Quiet(L, M), NEW raw, NEW codes
  PROVE  /\ Grows(L, M, raw, codes) /\ IsLoad(M) /\ M.events = L.events /\ M.findings = L.findings
         /\ M.unknown = L.unknown /\ SamePlace(L, M)
         /\ \A n : VersionOK(L, n) => VersionOK(M, n)
<1>1. IsLoad(M) /\ SameLists(L, M) /\ SameVersion(L, M) /\ SamePlace(L, M)
  BY DEF Quiet
<1>2. Grows(L, M, raw, codes)
  BY <1>1, QuietGrows
<1>3. \A n : VersionOK(L, n) => VersionOK(M, n)
  BY <1>1 DEF VersionOK, SameLists, SameVersion
<1> QED BY <1>1, <1>2, <1>3 DEF SameLists

\* A record whose type is new is disclosed.
Disclosed(K, m) ==
  format \in DOMAIN NewTypes /\ Lines[m].rec.class \in NewTypes[format] =>
    \/ \E j \in DOMAIN K.findings : K.findings[j].line = m /\ K.findings[j].code = "SL302"
    \/ m \in K.unknown

\* A finding on a new type, or one more on a critical field.
Assessed(K, M, raw) ==
  /\ Grows(K, M, raw, {"SL302"}) /\ M.events = K.events /\ SameVersion(K, M) /\ SamePlace(K, M)

LEMMA JudgedOn ==
  ASSUME NEW K, NEW M, NEW N, NEW raw, IsLoad(K), Assessed(K, M, raw), Assessed(M, N, raw)
  PROVE  Assessed(K, N, raw)
<1>1. PICK codes : codes = {"SL302"}
  OBVIOUS
<1>2. Grows(K, N, raw, codes)
  BY <1>1, GrowsOn DEF Assessed
<1> QED BY <1>1, <1>2 DEF Assessed, SameVersion, SamePlace

\* Its line is told.
Told(M, raw) == \E j \in DOMAIN M.findings : M.findings[j].line = raw.line /\ M.findings[j].code = "SL302"

LEMMA JudgeTells ==
  ASSUME NEW K, IsLoad(K), NEW raw
  PROVE  Assessed(K, Report(K, "SL302", raw), raw) /\ Told(Report(K, "SL302", raw), raw)
<1>1. PICK codes : codes = {"SL302"}
  OBVIOUS
<1>2. PICK M : M = Report(K, "SL302", raw)
  OBVIOUS
<1>3. /\ Grows(K, M, raw, codes) /\ M.events = K.events /\ SameVersion(K, M) /\ SamePlace(K, M)
      /\ Len(M.findings) = Len(K.findings) + 1 /\ M.findings[Len(M.findings)] = Finding("SL302", raw)
  <2>1. PICK code \in codes : code = "SL302"
    BY <1>1
  <2>2. M = Report(K, code, raw)
    BY <1>2, <2>1
  <2>3. LET P == Report(K, code, raw)
        IN /\ Grows(K, P, raw, codes) /\ P.events = K.events /\ SameVersion(K, P) /\ SamePlace(K, P)
           /\ Len(P.findings) = Len(K.findings) + 1 /\ P.findings[Len(P.findings)] = Finding(code, raw)
    BY ReportIs
  <2> QED BY <2>1, <2>2, <2>3
<1>4. IsLoad(M)
  BY <1>3 DEF Grows
<1>5. Len(M.findings) \in DOMAIN M.findings
  <2>1. Len(K.findings) \in Nat /\ Len(M.findings) \in Nat /\ DOMAIN M.findings = 1..Len(M.findings)
    BY <1>4, LoadIs
  <2> QED BY <1>3, <2>1
<1>6. M.findings[Len(M.findings)].line = raw.line /\ M.findings[Len(M.findings)].code = "SL302"
  BY <1>3 DEF Finding
<1>7. Told(M, raw)
  BY <1>5, <1>6 DEF Told
<1> QED BY <1>1, <1>2, <1>3, <1>7 DEF Assessed

LEMMA JudgeIs ==
  ASSUME NEW K, IsLoad(K), NEW condition, NEW raw
  PROVE  Assessed(K, ReportWhen(K, condition, "SL302", raw), raw)
<1>1. CASE condition
  BY <1>1, JudgeTells DEF ReportWhen
<1>2. CASE ~condition
  <2>1. PICK codes : codes = {"SL302"}
    OBVIOUS
  <2>2. SameLists(K, K)
    BY DEF SameLists
  <2>3. Grows(K, K, raw, codes)
    BY <2>2, QuietGrows
  <2> QED BY <1>2, <2>1, <2>3 DEF ReportWhen, Assessed, SameVersion, SamePlace
<1> QED BY <1>1, <1>2

\* What was disclosed stays disclosed.
LEMMA StaysDisclosed ==
  ASSUME NEW K, NEW M, NEW raw, NEW codes, IsLoad(K), Grows(K, M, raw, codes), NEW m, Disclosed(K, m)
  PROVE  Disclosed(M, m)
<1>1. /\ Len(K.findings) \in Nat /\ DOMAIN K.findings = 1..Len(K.findings)
      /\ Len(M.findings) \in Nat /\ DOMAIN M.findings = 1..Len(M.findings)
  BY LoadIs DEF Grows
<1>2. \A j \in DOMAIN K.findings : j \in DOMAIN M.findings /\ M.findings[j] = K.findings[j]
  BY <1>1 DEF Grows
<1>3. K.unknown \subseteq M.unknown
  BY DEF Grows
<1> QED BY <1>2, <1>3 DEF Disclosed

\* Versions are not touched by a finding on a type.
LEMMA JudgedVersion ==
  ASSUME NEW K, NEW M, NEW raw, IsLoad(K), Assessed(K, M, raw), NEW n, VersionOK(K, n)
  PROVE  VersionOK(M, n)
<1>1. PICK codes : codes = {"SL302"}
  OBVIOUS
<1>2. Grows(K, M, raw, codes) /\ "SL301" \notin codes /\ SameVersion(K, M)
  BY <1>1 DEF Assessed
<1> QED BY <1>2, VersionSame

Rolled(K, X, m, raw, codes) ==
  /\ Grows(K, X, raw, codes) /\ VersionOK(X, m + 1) /\ X.tail = K.tail /\ Disclosed(X, m)
  /\ X.events = Append(K.events, X.events[Len(K.events) + 1])
  /\ X.events[Len(K.events) + 1].line = m
  /\ X.events[Len(K.events) + 1].id = RecordId(Lines[m].rec, raw)
  /\ X.events[Len(K.events) + 1].parent = IF Contiguous(K, Lines[m].rec) THEN K.last ELSE None

LEMMA RolloutIs ==
  ASSUME IsFile(Lines), format = "codex", NEW m \in RecordAt, ~Damaged(m), NEW raw, raw.line = m,
         NEW codes, {"SL301", "SL302", "SL303"} \subseteq codes,
         NEW K, IsLoad(K), VersionOK(K, m), NEW rec, Lines[m].rec = rec
  PROVE  Rolled(K, ProcessRolloutRecord(K, rec, raw), m, raw, codes)
<1> DEFINE kind == RolloutKind(rec)
           id == RecordId(rec, raw)
           parent == IF Contiguous(K, rec) THEN K.last ELSE None
           e == Event(id, parent, kind, CorrelationId(rec, kind, id), raw, rec.id # None)
<1>1. PICK I : I = WithRecordId(K, rec, raw)
  OBVIOUS
<1>2. PICK O : O = ObserveVersion(CheckVersion(ObserveSignature(I, rec.foreign, raw), rec.version, raw), rec.version, raw)
  OBVIOUS
<1>3. PICK H : H = ExtractLinks(O, rec.link)
  OBVIOUS
<1>4. PICK N : N = IF rec.class \in {"newItem", "newType"} /\ rec.plain THEN NoteUnknown(H, raw)
                   ELSE ReportWhen(H, kind = "unknown", "SL302", raw)
  OBVIOUS
<1>5. PICK C : C = ReportWhen(N, rec.critical, "SL302", raw)
  OBVIOUS
<1>6. PICK X : X = Emit(C, e)
  OBVIOUS
<1>7. ProcessRolloutRecord(K, rec, raw) = X
  BY <1>1, <1>2, <1>3, <1>4, <1>5, <1>6 DEF ProcessRolloutRecord
<1> HIDE DEF e, kind
<1>8. /\ Grows(K, I, raw, codes) /\ IsLoad(I) /\ I.events = K.events /\ SamePlace(K, I) /\ VersionOK(I, m)
  <2>1. Quiet(K, I)
    BY <1>1, RecordIdIs
  <2> QED BY <2>1, QuietIs
<1>9. /\ Grows(I, O, raw, codes) /\ O.events = I.events /\ SamePlace(I, O) /\ VersionOK(O, m + 1)
  <2>1. PICK marker : marker = rec.version
    OBVIOUS
  <2>2. /\ format = "claude" /\ ~rec.marker => marker = None
        /\ ~(format = "claude" /\ ~rec.marker) => marker = rec.version
    BY <2>1
  <2>3. "SL301" \in codes /\ format \in {"codex", "claude"}
    OBVIOUS
  <2>4. O = ObserveVersion(CheckVersion(ObserveSignature(I, rec.foreign, raw), rec.version, raw), marker, raw)
    BY <1>2, <2>1
  <2>5. LET P == ObserveVersion(CheckVersion(ObserveSignature(I, rec.foreign, raw), rec.version, raw), marker, raw) IN
         /\ Grows(I, P, raw, codes) /\ P.events = I.events /\ P.unknown = I.unknown /\ SamePlace(I, P)
         /\ VersionOK(P, m + 1)
    BY <1>8, <2>2, <2>3, VersionTurn
  <2> QED BY <2>4, <2>5
<1>10. /\ Grows(O, H, raw, codes) /\ IsLoad(H) /\ IsLoad(O) /\ H.events = O.events /\ SamePlace(O, H)
       /\ VersionOK(H, m + 1)
  <2>1. IsLoad(O)
    BY <1>9 DEF Grows
  <2>2. Quiet(O, H)
    BY <1>3, <2>1, LinksAre
  <2>3. PICK n : n = m + 1
    OBVIOUS
  <2>4. VersionOK(H, n)
    BY <1>9, <2>1, <2>2, <2>3, QuietIs
  <2> QED BY <2>1, <2>2, <2>3, <2>4, QuietIs
<1>11. Assessed(H, N, raw) /\ Disclosed(N, m)
  <2>1. CASE rec.class \in {"newItem", "newType"} /\ rec.plain
    <3>1. N = NoteUnknown(H, raw)
      BY <1>4, <2>1
    <3>2. PICK few : few = {"SL302"}
      OBVIOUS
    <3>3. Grows(H, N, raw, few) /\ N.events = H.events /\ SameVersion(H, N) /\ SamePlace(H, N) /\ raw.line \in N.unknown
      BY <1>10, <3>1, UnknownIs
    <3> QED BY <3>2, <3>3 DEF Assessed, Disclosed
  <2>2. CASE ~(rec.class \in {"newItem", "newType"} /\ rec.plain)
    <3>1. N = ReportWhen(H, kind = "unknown", "SL302", raw)
      BY <1>4, <2>2
    <3>2. Assessed(H, N, raw)
      BY <1>10, <3>1, JudgeIs
    <3>4. kind = "unknown" => Told(N, raw)
      BY <1>10, <3>1, JudgeTells DEF ReportWhen
    <3>3. rec.class \in NewTypes["codex"] => kind = "unknown"
      <4>1. rec.class \in {"newType", "newItem", "badAgentMessage"} =>
              kind = "unknown"
        <5>1. CASE rec.class = "newType"
          BY <2>2, <5>1 DEF kind, RolloutKind
        <5>2. CASE rec.class = "newItem"
          BY <2>2, <5>2 DEF kind, RolloutKind, ItemKind, ItemKinds
        <5>3. CASE rec.class = "badAgentMessage"
          BY <5>3 DEF kind, RolloutKind
        <5> QED BY <5>1, <5>2, <5>3
      <4> QED BY <4>1 DEF NewTypes
    <3> QED BY <3>2, <3>3, <3>4 DEF Disclosed, Told
  <2> QED BY <2>1, <2>2
<1>12. Assessed(H, C, raw) /\ Disclosed(C, m)
  <2>1. IsLoad(N)
    BY <1>11 DEF Assessed, Grows
  <2>2. Assessed(N, C, raw)
    BY <1>5, <2>1, JudgeIs
  <2>3. Assessed(H, C, raw)
    BY <1>10, <1>11, <2>2, JudgedOn
  <2>4. PICK few : few = {"SL302"}
    OBVIOUS
  <2>5. Grows(N, C, raw, few)
    BY <2>2, <2>4 DEF Assessed
  <2> QED BY <1>11, <2>1, <2>3, <2>5, StaysDisclosed
<1>13. IsLoad(C) /\ Grows(K, C, raw, codes) /\ VersionOK(C, m + 1) /\ C.tail = K.tail /\ C.events = K.events
  <2>1. IsLoad(C)
    BY <1>12 DEF Assessed, Grows
  <2>2. PICK few : few = {"SL302"}
    OBVIOUS
  <2>3. Grows(H, C, raw, few) /\ few \subseteq codes
    BY <1>12, <2>2 DEF Assessed
  <2>4. Grows(H, C, raw, codes)
    BY <2>3, MoreCodes
  <2>5. Grows(K, O, raw, codes)
    BY <1>8, <1>9, GrowsOn
  <2>6. Grows(K, H, raw, codes)
    BY <1>10, <2>5, GrowsOn
  <2>7. Grows(K, C, raw, codes)
    BY <2>4, <2>6, GrowsOn
  <2>8. PICK n : n = m + 1
    OBVIOUS
  <2>9. VersionOK(C, n)
    BY <1>10, <1>12, <2>8, JudgedVersion
  <2> QED BY <1>8, <1>9, <1>10, <1>12, <2>1, <2>7, <2>8, <2>9 DEF Assessed, SamePlace
<1>14. e.line = raw.line /\ e.offset = raw.offset /\ e.id = id /\ e.parent = parent
  BY DEF e, Event
<1>15. PICK n : n = m + 1
  OBVIOUS
<1>16. PICK few : few = {"SL302"}
  OBVIOUS
<1>17. /\ Grows(C, X, raw, codes) /\ Grows(C, X, raw, few) /\ SameVersion(C, X) /\ SamePlace(C, X)
       /\ X.findings = C.findings /\ X.unknown = C.unknown
       /\ X.events = Append(C.events, e) /\ Len(X.events) = Len(C.events) + 1 /\ X.events[Len(X.events)] = e
  <2>1. Emits(C, X, e, raw, codes) /\ Emits(C, X, e, raw, few)
    BY <1>6, <1>13, <1>14, EmitIs
  <2> QED BY <2>1 DEF Emits
<1>18. Grows(K, X, raw, codes)
  BY <1>13, <1>17, GrowsOn
<1>19. VersionOK(X, n)
  <2>1. "SL301" \notin few
    BY <1>16
  <2> QED BY <1>13, <1>15, <1>17, <2>1, VersionSame
<1>20. Disclosed(X, m)
  BY <1>12, <1>17 DEF Disclosed
<1>21. /\ X.events = Append(K.events, X.events[Len(K.events) + 1])
       /\ X.events[Len(K.events) + 1] = e
  BY <1>13, <1>17
<1>22. X.tail = K.tail
  BY <1>13, <1>17 DEF SamePlace
<1> QED BY <1>7, <1>14, <1>15, <1>18, <1>19, <1>20, <1>21, <1>22 DEF Rolled

LEMMA GapIs ==
  ASSUME NEW X, IsLoad(X)
  PROVE  LET M == [X EXCEPT !.gap = TRUE]
         IN /\ IsLoad(M) /\ SameLists(X, M) /\ SameVersion(X, M)
            /\ M.tail = X.tail /\ M.last = X.last /\ M.lastOrdinal = X.lastOrdinal /\ M.gap = TRUE
<1>1. PICK M : M = [X EXCEPT !.gap = TRUE]
  OBVIOUS
<1>2. /\ DOMAIN M = LoadFields /\ SameLists(X, M) /\ SameVersion(X, M)
      /\ M.tail = X.tail /\ M.last = X.last /\ M.lastOrdinal = X.lastOrdinal /\ M.gap = TRUE
  BY <1>1 DEF IsLoad, LoadFields, SameLists, SameVersion
<1>3. IsLoad(M)
  BY <1>2 DEF IsLoad, SameLists
<1> QED BY <1>1, <1>2, <1>3

Remembers(X, M, id, ordinal) ==
  /\ IsLoad(M) /\ SameLists(X, M) /\ SameVersion(X, M)
  /\ M.tail = X.tail /\ M.last = id /\ M.lastOrdinal = ordinal /\ M.gap = FALSE

LEMMA LastIs ==
  ASSUME NEW X, IsLoad(X), NEW id, NEW ordinal
  PROVE  Remembers(X, [X EXCEPT !.last = id, !.lastOrdinal = ordinal, !.gap = FALSE], id, ordinal)
<1>1. PICK M : M = [X EXCEPT !.last = id, !.lastOrdinal = ordinal, !.gap = FALSE]
  OBVIOUS
<1>2. /\ DOMAIN M = LoadFields /\ SameLists(X, M) /\ SameVersion(X, M)
      /\ M.tail = X.tail /\ M.last = id /\ M.lastOrdinal = ordinal /\ M.gap = FALSE
  BY <1>1 DEF IsLoad, LoadFields, SameLists, SameVersion
<1>3. IsLoad(M)
  BY <1>2 DEF IsLoad, SameLists
<1> QED BY <1>1, <1>2, <1>3 DEF Remembers

\* A line that gives no event leaves a gap.
LEMMA GapTurn ==
  ASSUME IsFile(Lines), NEW m \in RecordAt, NEW L, WhereOK(L, m), LinkOK(L, m),
         NEW M, M.events = L.events, M.last = L.last, M.lastOrdinal = L.lastOrdinal, M.gap = TRUE
  PROVE  LinkOK(M, m + 1)
<1> SUFFICES ASSUME format = "codex" PROVE LinkOK(M, m + 1)
  BY DEF LinkOK
<1>1. Len(L.events) \in Nat /\ DOMAIN L.events = 1..Len(L.events)
  BY LoadIs DEF WhereOK
<1>2. \A k : Adjacent(M, k) = Adjacent(L, k) /\ Ordinal(M, k) = Ordinal(L, k)
  BY DEF Adjacent, Ordinal
<1>3. ASSUME Len(L.events) # 0 PROVE \E i \in Rows(m + 1) : i > L.events[Len(L.events)].line
  <2>1. L.events[Len(L.events)].line \in Rows(m)
    BY <1>1, <1>3 DEF WhereOK, Sound
  <2>2. m \in Nat /\ Rows(m + 1) = Rows(m) \cup {m}
    BY RowsNext
  <2>3. \A i \in Rows(m) : i \in Nat /\ i < m
    BY LineIs DEF Rows, RecordAt
  <2> QED BY <2>1, <2>2, <2>3
<1> QED BY <1>2, <1>3 DEF LinkOK

\* An event is linked to the one before it, if nothing can be missing.
LEMMA LinkTurn ==
  ASSUME IsFile(Lines), NEW m \in RecordAt, NEW L, WhereOK(L, m), LinkOK(L, m), NEW rec, Lines[m].rec = rec,
         NEW e, e.line = m, e.parent = IF Contiguous(L, rec) THEN L.last ELSE None,
         NEW M, M.events = Append(L.events, e), M.last = e.id, M.lastOrdinal = rec.ordinal, M.gap = FALSE
  PROVE  LinkOK(M, m + 1)
<1> SUFFICES ASSUME format = "codex" PROVE LinkOK(M, m + 1)
  BY DEF LinkOK
<1> DEFINE n == Len(L.events)
<1>1. n \in Nat /\ DOMAIN L.events = 1..n
  BY LoadIs DEF WhereOK
<1>2. /\ Len(M.events) = n + 1 /\ DOMAIN M.events = 1..(n + 1) /\ M.events[n + 1] = e
      /\ \A k \in 1..n : M.events[k] = L.events[k]
  BY Appended DEF WhereOK, IsLoad
<1>3. m \in Nat /\ Rows(m + 1) = Rows(m) \cup {m} /\ \A i \in Rows(m) : i \in Nat /\ i < m
  <2>1. \A i \in Rows(m) : i \in Nat /\ i < m
    BY LineIs DEF Rows, RecordAt
  <2> QED BY <2>1, RowsNext
<1> HIDE DEF n
<1>4. ASSUME NEW k \in 1..n
      PROVE  M.events[k].parent = IF Adjacent(M, k) THEN M.events[k - 1].id ELSE None
  <2>1. L.events[k].parent = IF Adjacent(L, k) THEN L.events[k - 1].id ELSE None
    BY <1>1 DEF LinkOK
  <2>2. M.events[k] = L.events[k] /\ (k > 1 => k - 1 \in 1..n /\ M.events[k - 1] = L.events[k - 1])
    BY <1>1, <1>2
  <2>3. Adjacent(M, k) <=> Adjacent(L, k)
    BY <2>2 DEF Adjacent, Ordinal
  <2> QED BY <2>1, <2>2, <2>3 DEF Adjacent
<1>5. e.parent = IF Adjacent(M, n + 1) THEN M.events[n].id ELSE None
  <2>1. CASE n = 0
    <3>1. L.last = None
      BY <2>1 DEF LinkOK, n
    <3>2. ~Adjacent(M, n + 1)
      BY <2>1 DEF Adjacent
    <3>3. ~Contiguous(L, rec)
      BY <3>1 DEF Contiguous
    <3> QED BY <3>2, <3>3
  <2>2. CASE n # 0
    <3>1. /\ L.last = L.events[n].id /\ L.lastOrdinal = Ordinal(L, n)
          /\ L.gap <=> \E i \in Rows(m) : i > L.events[n].line
      BY <2>2 DEF LinkOK, n
    <3>2. M.events[n] = L.events[n] /\ n \in 1..n /\ L.events[n].line \in Rows(m) /\ (n + 1) - 1 = n /\ n + 1 > 1
      BY <1>1, <1>2, <2>2 DEF WhereOK, Sound
    <3>3. Ordinal(M, n + 1) = rec.ordinal /\ Ordinal(M, n) = L.lastOrdinal
      BY <1>2, <3>1, <3>2 DEF Ordinal
    <3>4. (\A i \in L.events[n].line + 1 .. m - 1 : i \notin RecordAt) <=> ~L.gap
      <4> PICK b : b = L.events[n].line
        OBVIOUS
      <4>1. b \in Nat /\ b < m
        BY <1>3, <3>2
      <4>2. \A i \in RecordAt : i \in Nat
        BY LineIs DEF RecordAt
      <4>3. ASSUME NEW i \in RecordAt PROVE i \in b + 1 .. m - 1 <=> i < m /\ i > b
        <5>1. i \in Nat /\ m \in Nat /\ b \in Nat
          BY <1>3, <4>1, <4>2
        <5> QED BY <5>1
      <4> QED BY <3>1, <4>3 DEF Rows
    <3>5. Adjacent(M, n + 1) <=>
            ~L.gap /\ (None \in {rec.ordinal, L.lastOrdinal} \/ rec.ordinal = L.lastOrdinal + 1)
      BY <1>2, <3>2, <3>3, <3>4 DEF Adjacent
    <3>6. Contiguous(L, rec) <=>
            L.last # None /\ ~L.gap /\ (None \in {rec.ordinal, L.lastOrdinal} \/ rec.ordinal = L.lastOrdinal + 1)
      BY DEF Contiguous
    <3> QED BY <3>1, <3>2, <3>5, <3>6
  <2> QED BY <2>1, <2>2
<1>6. \A k \in DOMAIN M.events : M.events[k].parent = IF Adjacent(M, k) THEN M.events[k - 1].id ELSE None
  <2>1. \A k \in 1..(n + 1) : k \in 1..n \/ k = n + 1
    BY <1>1
  <2>2. (n + 1) - 1 = n
    BY <1>1
  <2> QED BY <1>2, <1>4, <1>5, <2>1, <2>2
<1>7. M.lastOrdinal = Ordinal(M, n + 1) /\ M.last = M.events[n + 1].id
  BY <1>2 DEF Ordinal
<1>8. ~\E i \in Rows(m + 1) : i > M.events[n + 1].line
  BY <1>2, <1>3
<1>9. n + 1 # 0
  BY <1>1
<1> QED BY <1>2, <1>6, <1>7, <1>8, <1>9 DEF LinkOK

LEMMA CodexKeeps ==
  ASSUME IsFile(Lines), format = "codex", NEW m \in RecordAt, NEW raw, RawIs(raw, m),
         NEW L, LoadOK(L, m), NEW terminal \in BOOLEAN, Torn(m) => terminal
  PROVE  LoadOK(ProcessCodexLine(L, raw, terminal), m + 1)
<1>1. PICK R : R = [L EXCEPT !.findings = @ \o LineFindings(raw, terminal)]
  OBVIOUS
<1>2. PICK X : X = ProcessRolloutRecord(R, raw.rec, raw)
  OBVIOUS
<1>3. ProcessCodexLine(L, raw, terminal) =
        NotedSince(L, IF IsDefect(raw) THEN [R EXCEPT !.gap = TRUE]
                      ELSE [X EXCEPT !.last = RecordId(raw.rec, raw), !.lastOrdinal = raw.rec.ordinal, !.gap = FALSE])
  BY <1>1, <1>2 DEF ProcessCodexLine
<1>4. /\ raw.line = m /\ raw.rec = Lines[m].rec /\ (Torn(m) => Damaged(m)) /\ (IsDefect(raw) <=> Damaged(m))
      /\ DamageAt(m) = FindingAt(IF Torn(m) THEN "SL002" ELSE "SL001", m)
      /\ \A code : Finding(code, raw) = FindingAt(code, m)
      /\ IsDefect(raw) => LineFindings(raw, terminal) = <<DamageAt(m)>>
  BY RawSays
<1>5. IsLoad(L) /\ WhereOK(L, m) /\ LinkOK(L, m) /\ VersionOK(L, m)
  BY DEF LoadOK, WhereOK
<1>6. \A M : PlaceOK(M)
  BY DEF PlaceOK
<1>7. CASE Damaged(m)
  <2>1. R = [L EXCEPT !.findings = @ \o <<DamageAt(m)>>]
    BY <1>1, <1>4, <1>7
  <2>2. PICK codes : codes = Damage
    OBVIOUS
  <2>3. DamageAt(m) \in {Finding(c, raw) : c \in codes}
    BY <1>4, <2>2 DEF Damage
  <2>4. Recorded(L, R, m, raw)
    BY <1>5, <2>1, <2>2, <2>3, DamageReported
  <2>5. PICK M : M = [R EXCEPT !.gap = TRUE]
    OBVIOUS
  <2>6. IsLoad(R) /\ Grows(L, R, raw, codes) /\ "SL301" \notin codes
    BY <2>2, <2>4 DEF Recorded, Grows, Damage
  <2>7. /\ IsLoad(M) /\ SameLists(R, M) /\ SameVersion(R, M)
        /\ M.tail = R.tail /\ M.last = R.last /\ M.lastOrdinal = R.lastOrdinal /\ M.gap = TRUE
    BY <2>5, <2>6, GapIs
  <2>8. Grows(L, M, raw, codes)
    <3>1. Grows(R, M, raw, codes)
      BY <2>6, <2>7, QuietGrows
    <3> QED BY <1>5, <2>6, <3>1, GrowsOn
  <2>9. Located(L, M, m, codes)
    BY <1>7, <2>4, <2>7 DEF Located, Recorded, SameLists
  <2>10. LeftBehind(L, M, m)
    <3>1. LeftBehind(L, R, m)
      BY <1>5, <2>4, DamagedLeaves
    <3> QED BY <2>7, <3>1 DEF LeftBehind, SameLists, Passed
  <2>11. LinkOK(M, m + 1)
    <3>1. M.events = L.events /\ M.last = L.last /\ M.lastOrdinal = L.lastOrdinal /\ M.gap = TRUE
      BY <2>4, <2>7 DEF Recorded, SameLists, SamePlace
    <3> QED BY <1>5, <3>1, GapTurn
  <2>12. VersionOK(M, m + 1)
    <3>1. VersionOK(L, m + 1)
      BY <1>5, <1>7, NoVersion
    <3>2. SameVersion(L, M)
      BY <2>4, <2>7 DEF Recorded, SameVersion
    <3>3. PICK n : n = m + 1
      OBVIOUS
    <3>4. VersionOK(M, n)
      BY <1>5, <2>6, <2>8, <3>1, <3>2, <3>3, VersionSame
    <3> QED BY <3>3, <3>4
  <2>13. M.tail = L.tail
    BY <2>4, <2>7 DEF Recorded, SamePlace
  <2>14. LoadOK(NotedSince(L, M), m + 1)
    <3>1. codes \subseteq LineCodes
      BY <2>2 DEF Damage, LineCodes
    <3> QED BY <1>4, <1>6, <2>8, <2>9, <2>10, <2>11, <2>12, <2>13, <3>1, LineTurn
  <2> QED BY <1>3, <1>4, <1>7, <2>5, <2>14
<1>8. CASE ~Damaged(m)
  <2>1. PICK codes : codes = {"SL301", "SL302", "SL303"}
    OBVIOUS
  <2>2. /\ codes \cap Damage = {} /\ codes \subseteq LineCodes
        /\ "SL303" \in codes /\ {"SL301", "SL302", "SL303"} \subseteq codes
    BY <2>1 DEF Damage, LineCodes
  <2>3. Opened(L, R, raw, codes)
    BY <1>1, <1>4, <1>5, <1>8, <2>2, SoundOpened
  <2>4. Grows(L, R, raw, codes) /\ IsLoad(R) /\ R.events = L.events /\ SamePlace(L, R)
    BY <2>3 DEF Opened, Grows
  <2>5. VersionOK(R, m)
    <3>1. PICK few : few = {"SL303"}
      OBVIOUS
    <3>2. Opened(L, R, raw, few) /\ "SL301" \notin few
      BY <1>1, <1>4, <1>5, <1>8, <3>1, SoundOpened
    <3> QED BY <1>5, <3>2, VersionSame DEF Opened
  <2>6. Rolled(R, X, m, raw, codes)
    <3>1. PICK rec : rec = raw.rec
      OBVIOUS
    <3>2. Lines[m].rec = rec /\ X = ProcessRolloutRecord(R, rec, raw)
      BY <1>2, <1>4, <3>1
    <3> QED BY <1>4, <1>8, <2>2, <2>4, <2>5, <3>2, RolloutIs
  <2>7. PICK e : e = X.events[Len(R.events) + 1]
    OBVIOUS
  <2>8. /\ Grows(R, X, raw, codes) /\ VersionOK(X, m + 1) /\ X.tail = R.tail /\ Disclosed(X, m)
        /\ X.events = Append(R.events, e) /\ e.line = m /\ e.id = RecordId(Lines[m].rec, raw)
        /\ e.parent = IF Contiguous(R, Lines[m].rec) THEN R.last ELSE None
        /\ IsLoad(X)
    BY <2>6, <2>7 DEF Rolled, Grows
  <2>91. PICK id : id = RecordId(raw.rec, raw)
    OBVIOUS
  <2>92. PICK ordinal : ordinal = raw.rec.ordinal
    OBVIOUS
  <2>9. PICK M : M = [X EXCEPT !.last = id, !.lastOrdinal = ordinal, !.gap = FALSE]
    OBVIOUS
  <2>10. /\ IsLoad(M) /\ SameLists(X, M) /\ SameVersion(X, M)
         /\ M.tail = X.tail /\ M.last = e.id /\ M.lastOrdinal = Lines[m].rec.ordinal /\ M.gap = FALSE
    <3>1. /\ IsLoad(M) /\ SameLists(X, M) /\ SameVersion(X, M)
          /\ M.tail = X.tail /\ M.last = id /\ M.lastOrdinal = ordinal /\ M.gap = FALSE
      <4>1. Remembers(X, [X EXCEPT !.last = id, !.lastOrdinal = ordinal, !.gap = FALSE], id, ordinal)
        BY <2>8, LastIs
      <4>2. Remembers(X, M, id, ordinal)
        BY <2>9, <4>1
      <4> QED BY <4>2 DEF Remembers
    <3> QED BY <1>4, <2>8, <2>91, <2>92, <3>1
  <2>11. Grows(L, M, raw, codes)
    <3>1. Grows(X, M, raw, codes)
      BY <2>8, <2>10, QuietGrows
    <3>2. Grows(L, X, raw, codes)
      BY <1>5, <2>4, <2>8, GrowsOn
    <3> QED BY <1>5, <3>1, <3>2, GrowsOn
  <2>12. LinkOK(M, m + 1)
    <3>1. M.events = Append(L.events, e)
      BY <2>4, <2>8, <2>10 DEF SameLists
    <3>2. Contiguous(R, Lines[m].rec) <=> Contiguous(L, Lines[m].rec)
      BY <2>4 DEF Contiguous, SamePlace
    <3>3. e.parent = IF Contiguous(L, Lines[m].rec) THEN L.last ELSE None
      BY <2>4, <2>8, <3>2 DEF SamePlace
    <3>4. PICK rec : rec = Lines[m].rec
      OBVIOUS
    <3> QED BY <1>5, <2>8, <2>10, <3>1, <3>3, <3>4, LinkTurn
  <2>13. VersionOK(M, m + 1)
    BY <2>8, <2>10 DEF VersionOK, SameLists, SameVersion
  <2>14. LeftBehind(L, M, m)
    <3>1. M.events = X.events /\ M.findings = X.findings /\ M.unknown = X.unknown
      BY <2>10 DEF SameLists
    <3>2. /\ Len(X.events) = Len(R.events) + 1 /\ X.events[Len(R.events) + 1] = e
          /\ DOMAIN X.events = 1..(Len(R.events) + 1) /\ Len(R.events) \in Nat
      BY <2>4, <2>8, Appended, LoadIs DEF IsLoad
    <3>3. \E k \in DOMAIN M.events : M.events[k].line = m
      <4>1. Len(R.events) + 1 \in DOMAIN X.events
        BY <3>2
      <4> QED BY <2>8, <3>1, <3>2, <4>1
    <3> QED BY <2>8, <3>1, <3>3 DEF LeftBehind, Disclosed
  <2>15. M.tail = L.tail
    BY <2>4, <2>8, <2>10 DEF SamePlace
  <2>16. LoadOK(NotedSince(L, M), m + 1)
    BY <1>4, <1>6, <1>8, <2>2, <2>11, <2>12, <2>13, <2>14, <2>15, SoundLine
  <2> QED BY <1>3, <1>4, <1>8, <2>9, <2>91, <2>92, <2>16
<1> QED BY <1>7, <1>8

-----------------------------------------------------------------------------
(* OpenAI items.                                                           *)

\* The events of a line are put into its place, and no other line's are.
LEMMA PlaceTurn ==
  ASSUME IsFile(Lines), NEW m \in RecordAt, NEW L, WhereOK(L, m), PlaceOK(L),
         NEW es, IsSequence(es), \A k \in DOMAIN es : es[k].line = m, GroupFits(ToSet(es), Lines[m].rec),
         NEW M, M.events = L.events \o es
  PROVE  PlaceOK(M)
<1> SUFFICES ASSUME format \in {"claude", "openai"} PROVE PlaceOK(M)
  BY DEF PlaceOK
<1>1. /\ Len(L.events) \in Nat /\ DOMAIN L.events = 1..Len(L.events) /\ IsSequence(L.events)
      /\ Len(es) \in Nat /\ DOMAIN es = 1..Len(es)
  BY LoadIs, SequenceIs DEF WhereOK, IsLoad
<1>2. /\ DOMAIN M.events = 1..(Len(L.events) + Len(es))
      /\ \A k \in 1..Len(L.events) : M.events[k] = L.events[k]
      /\ \A k \in 1..Len(es) : M.events[Len(L.events) + k] = es[k]
  BY <1>1, Joined
<1>3. m \in Nat /\ \A e \in ToSet(L.events) : e.line # m
  <2>1. \A i \in Rows(m) : i \in Nat /\ i < m
    BY LineIs DEF Rows, RecordAt
  <2>2. m \in Nat
    BY RowsNext
  <2>3. \A k \in DOMAIN L.events : L.events[k].line \in Rows(m)
    BY DEF WhereOK, Sound
  <2>4. \A k \in DOMAIN L.events : L.events[k].line # m
    BY <2>1, <2>2, <2>3
  <2> QED BY <2>2, <2>4 DEF ToSet
<1>4. ToSet(M.events) = ToSet(L.events) \cup ToSet(es)
  <2>1. ASSUME NEW k \in 1..(Len(L.events) + Len(es)) PROVE M.events[k] \in ToSet(L.events) \cup ToSet(es)
    <3>1. CASE k \in 1..Len(L.events)
      BY <1>1, <1>2, <3>1 DEF ToSet
    <3>2. CASE k \notin 1..Len(L.events)
      <4>1. k - Len(L.events) \in 1..Len(es) /\ k = Len(L.events) + (k - Len(L.events))
        BY <1>1, <3>2
      <4>2. M.events[k] = es[k - Len(L.events)]
        BY <1>2, <4>1
      <4> QED BY <1>1, <4>1, <4>2 DEF ToSet
    <3> QED BY <3>1, <3>2
  <2>2. ASSUME NEW k \in 1..Len(L.events) PROVE L.events[k] \in ToSet(M.events)
    <3>1. k \in 1..(Len(L.events) + Len(es))
      BY <1>1
    <3> QED BY <1>2, <3>1 DEF ToSet
  <2>3. ASSUME NEW k \in 1..Len(es) PROVE es[k] \in ToSet(M.events)
    <3>1. Len(L.events) + k \in 1..(Len(L.events) + Len(es))
      BY <1>1
    <3> QED BY <1>2, <3>1 DEF ToSet
  <2> QED BY ZenonT(40), <1>1, <1>2, <2>1, <2>2, <2>3 DEF ToSet
<1>5. \A e \in ToSet(es) : e.line = m
  BY DEF ToSet
<1>6. Group(M, m) = ToSet(es)
  BY <1>3, <1>4, <1>5 DEF Group
<1>7. \A i : i # m => Group(M, i) = Group(L, i)
  BY <1>4, <1>5 DEF Group
<1>8. ASSUME NEW e \in ToSet(M.events) PROVE GroupFits(Group(M, e.line), Lines[e.line].rec)
  <2>1. CASE e \in ToSet(es)
    BY <1>5, <1>6, <2>1
  <2>2. CASE e \in ToSet(L.events)
    <3>1. GroupFits(Group(L, e.line), Lines[e.line].rec) /\ e.line # m
      BY <1>3, <2>2 DEF PlaceOK
    <3> QED BY <1>7, <3>1
  <2> QED BY <1>4, <2>1, <2>2
<1> QED BY <1>8 DEF PlaceOK

LEMMA OneFits ==
  ASSUME NEW e, NEW rec, e.parent = rec.parent, rec.id # None => e.id = rec.id
  PROVE  GroupFits(ToSet(<<e>>), rec)
<1>1. ToSet(<<e>>) = {e}
  <2>1. DOMAIN <<e>> = 1..1 /\ <<e>>[1] = e /\ \A k \in 1..1 : k = 1
    BY OneElement
  <2> QED BY <2>1 DEF ToSet
<1> QED BY <1>1 DEF GroupFits

\* One item gives one event.
ItemDone(K, X, raw, rec, codes) ==
  /\ Grows(K, X, raw, codes) /\ X.tail = K.tail
  /\ X.events = Append(K.events, X.events[Len(K.events) + 1])
  /\ X.events[Len(K.events) + 1].line = raw.line
  /\ X.events[Len(K.events) + 1].parent = rec.parent
  /\ rec.id # None => X.events[Len(K.events) + 1].id = rec.id
  /\ rec.class = "newType" => Told(X, raw)

LEMMA LatchIs ==
  ASSUME NEW L, IsLoad(L), NEW b
  PROVE  /\ IsLoad([L EXCEPT !.sl301 = b]) /\ SameLists(L, [L EXCEPT !.sl301 = b])
         /\ SamePlace(L, [L EXCEPT !.sl301 = b])
<1>1. PICK M : M = [L EXCEPT !.sl301 = b]
  OBVIOUS
<1>2. DOMAIN M = LoadFields /\ SameLists(L, M) /\ SamePlace(L, M)
  BY <1>1 DEF IsLoad, LoadFields, SameLists, SamePlace
<1>3. IsLoad(M)
  BY <1>2 DEF IsLoad, SameLists
<1> QED BY <1>1, <1>2, <1>3

LEMMA ItemIs ==
  ASSUME NEW raw, NEW codes, {"SL301", "SL302"} \subseteq codes, NEW K, IsLoad(K), NEW rec
  PROVE  ItemDone(K, ProcessItem(K, rec, raw), raw, rec, codes)
<1>1. PICK seq : seq = [raw EXCEPT !.ordinal = Len(K.events)]
  OBVIOUS
<1>2. PICK id : id = RecordId(rec, seq)
  OBVIOUS
<1>3. PICK kind : kind = ExportKind(rec)
  OBVIOUS
<1>4. PICK I : I = WithRecordId(K, rec, seq)
  OBVIOUS
<1>5. PICK C : C = CheckVersion(I, rec.version, raw)
  OBVIOUS
<1>6. PICK O : O = IF rec.version = None THEN C ELSE ObserveVersion(C, rec.version, raw)
  OBVIOUS
<1>7. PICK V : V = [O EXCEPT !.sl301 = K.sl301]
  OBVIOUS
<1>8. PICK S : S = ObserveSignature(V, rec.foreign, raw)
  OBVIOUS
<1>9. PICK J : J = ReportWhen(S, rec.class = "newType" \/ rec.critical, "SL302", raw)
  OBVIOUS
<1>10. PICK e : e = Event(id, rec.parent, kind, CorrelationId(rec, kind, id), raw, rec.id # None)
  OBVIOUS
<1>11. PICK X : X = Emit(J, e)
  OBVIOUS
<1>12. ProcessItem(K, rec, raw) = X
  BY <1>1, <1>2, <1>3, <1>4, <1>5, <1>6, <1>7, <1>8, <1>9, <1>10, <1>11 DEF ProcessItem
<1>13. Grows(K, I, raw, codes) /\ IsLoad(I) /\ I.events = K.events /\ SamePlace(K, I)
  <2>1. Quiet(K, I)
    BY <1>4, RecordIdIs
  <2> QED BY <2>1, QuietIs
<1>14. Grows(I, C, raw, codes) /\ IsLoad(C) /\ C.events = I.events /\ SamePlace(I, C)
  <2>1. Grows(I, C, raw, codes) /\ Checked(I, C, rec.version)
    BY <1>5, <1>13, CheckVersionIs
  <2> QED BY <2>1 DEF Checked, Grows
<1>15. IsLoad(O) /\ SameLists(C, O) /\ SamePlace(C, O)
  <2>1. CASE rec.version = None
    BY <1>6, <1>14, <2>1 DEF SameLists, SamePlace
  <2>2. CASE rec.version # None
    <3>1. Observed(C, O, rec.version)
      BY <1>6, <1>14, <2>2, ObserveVersionIs
    <3> QED BY <3>1 DEF Observed
  <2> QED BY <2>1, <2>2
<1>16. IsLoad(V) /\ SameLists(O, V) /\ SamePlace(O, V)
  BY <1>7, <1>15, LatchIs
<1>17. IsLoad(S) /\ SameLists(V, S) /\ SamePlace(V, S)
  BY <1>8, <1>16, SignatureIs
<1>18. SameLists(C, S) /\ SamePlace(C, S)
  BY <1>15, <1>16, <1>17 DEF SameLists, SamePlace
<1>19. Grows(K, S, raw, codes) /\ S.events = K.events /\ SamePlace(K, S)
  <2>1. Grows(C, S, raw, codes)
    BY <1>14, <1>17, <1>18, QuietGrows
  <2>2. Grows(K, C, raw, codes)
    BY <1>13, <1>14, GrowsOn
  <2>3. Grows(K, S, raw, codes)
    BY <2>1, <2>2, GrowsOn
  <2> QED BY <1>13, <1>14, <1>18, <2>3 DEF SameLists, SamePlace
<1>20. Assessed(S, J, raw) /\ (rec.class = "newType" => Told(J, raw))
  <2>1. Assessed(S, J, raw)
    BY <1>9, <1>17, JudgeIs
  <2>2. rec.class = "newType" => J = Report(S, "SL302", raw)
    BY <1>9 DEF ReportWhen
  <2> QED BY <1>17, <2>1, <2>2, JudgeTells
<1>21. Grows(K, J, raw, codes) /\ IsLoad(J) /\ J.events = K.events /\ SamePlace(K, J)
  <2>1. PICK few : few = {"SL302"}
    OBVIOUS
  <2>2. Grows(S, J, raw, few) /\ few \subseteq codes
    BY <1>20, <2>1 DEF Assessed
  <2>3. Grows(S, J, raw, codes)
    BY <2>2, MoreCodes
  <2>4. Grows(K, J, raw, codes)
    BY <1>19, <2>3, GrowsOn
  <2> QED BY <1>19, <1>20, <2>4 DEF Assessed, Grows, SamePlace
<1>22. e.line = raw.line /\ e.offset = raw.offset /\ e.id = id /\ e.parent = rec.parent
  BY <1>10 DEF Event
<1>23. /\ Grows(J, X, raw, codes) /\ X.findings = J.findings /\ SamePlace(J, X)
       /\ X.events = Append(J.events, e) /\ Len(X.events) = Len(J.events) + 1 /\ X.events[Len(X.events)] = e
  <2>1. Emits(J, X, e, raw, codes)
    BY <1>11, <1>21, <1>22, EmitIs
  <2> QED BY <2>1 DEF Emits
<1>24. Grows(K, X, raw, codes) /\ X.tail = K.tail
  BY <1>21, <1>23, GrowsOn DEF SamePlace
<1>25. X.events = Append(K.events, e) /\ X.events[Len(K.events) + 1] = e
  BY <1>21, <1>23
<1>26. rec.id # None => id = rec.id
  BY <1>2 DEF RecordId
<1>27. rec.class = "newType" => Told(X, raw)
  BY <1>20, <1>23 DEF Told
<1> QED BY <1>12, <1>22, <1>24, <1>25, <1>26, <1>27 DEF ItemDone

LEMMA OpenAIKeeps ==
  ASSUME IsFile(Lines), format = "openai", NEW m \in RecordAt, NEW raw, RawIs(raw, m),
         NEW L, LoadOK(L, m), NEW terminal \in BOOLEAN, Torn(m) => terminal
  PROVE  LoadOK(ProcessOpenAILine(L, raw, terminal), m + 1)
<1>1. PICK R : R = [L EXCEPT !.findings = @ \o LineFindings(raw, terminal)]
  OBVIOUS
<1>2. PICK X : X = ProcessItem(R, raw.rec, raw)
  OBVIOUS
<1>3. ProcessOpenAILine(L, raw, terminal) = NotedSince(L, IF IsDefect(raw) THEN R ELSE X)
  BY <1>1, <1>2 DEF ProcessOpenAILine
<1>4. /\ raw.line = m /\ raw.rec = Lines[m].rec /\ (Torn(m) => Damaged(m)) /\ (IsDefect(raw) <=> Damaged(m))
      /\ DamageAt(m) = FindingAt(IF Torn(m) THEN "SL002" ELSE "SL001", m)
      /\ \A code : Finding(code, raw) = FindingAt(code, m)
      /\ IsDefect(raw) => LineFindings(raw, terminal) = <<DamageAt(m)>>
  BY RawSays
<1>5. IsLoad(L) /\ WhereOK(L, m) /\ PlaceOK(L)
  BY DEF LoadOK, WhereOK
<1>6. \A M, n : LinkOK(M, n) /\ VersionOK(M, n)
  BY DEF LinkOK, VersionOK
<1>7. CASE Damaged(m)
  <2>1. R = [L EXCEPT !.findings = @ \o <<DamageAt(m)>>]
    BY <1>1, <1>4, <1>7
  <2>2. PICK codes : codes = Damage
    OBVIOUS
  <2>3. DamageAt(m) \in {Finding(c, raw) : c \in codes}
    BY <1>4, <2>2 DEF Damage
  <2>4. Recorded(L, R, m, raw)
    BY <1>5, <2>1, <2>2, <2>3, DamageReported
  <2>5. LoadOK(NotedSince(L, R), m + 1)
    BY <1>7, <2>4, DamagedLine
  <2> QED BY <1>3, <1>4, <1>7, <2>5
<1>8. CASE ~Damaged(m)
  <2>1. PICK codes : codes = {"SL301", "SL302", "SL303"}
    OBVIOUS
  <2>2. /\ codes \cap Damage = {} /\ codes \subseteq LineCodes
        /\ "SL303" \in codes /\ {"SL301", "SL302"} \subseteq codes
    BY <2>1 DEF Damage, LineCodes
  <2>3. Opened(L, R, raw, codes)
    BY <1>1, <1>4, <1>5, <1>8, <2>2, SoundOpened
  <2>4. Grows(L, R, raw, codes) /\ IsLoad(R) /\ R.events = L.events /\ SamePlace(L, R)
    BY <2>3 DEF Opened, Grows
  <2>5. PICK rec : rec = raw.rec
    OBVIOUS
  <2>6. ItemDone(R, X, raw, rec, codes)
    BY <1>2, <2>2, <2>4, <2>5, ItemIs
  <2>7. PICK e : e = X.events[Len(R.events) + 1]
    OBVIOUS
  <2>8. /\ Grows(R, X, raw, codes) /\ X.tail = R.tail /\ IsLoad(X)
        /\ X.events = Append(R.events, e) /\ e.line = m /\ e.parent = rec.parent
        /\ rec.id # None => e.id = rec.id
        /\ rec.class = "newType" => Told(X, raw)
    BY <1>4, <2>6, <2>7 DEF ItemDone, Grows
  <2>9. Grows(L, X, raw, codes) /\ X.tail = L.tail
    BY <1>5, <2>4, <2>8, GrowsOn DEF SamePlace
  <2>10. PlaceOK(X)
    <3>1. X.events = L.events \o <<e>>
      BY <1>5, <2>4, <2>8, AppendIsJoin DEF IsLoad
    <3>2. IsSequence(<<e>>) /\ \A k \in DOMAIN <<e>> : <<e>>[k].line = m
      <4>1. \A k \in 1..1 : k = 1
        OBVIOUS
      <4> QED BY <2>8, <4>1, OneElement
    <3>3. GroupFits(ToSet(<<e>>), Lines[m].rec)
      BY <1>4, <2>5, <2>8, OneFits
    <3>4. PICK es : es = <<e>>
      OBVIOUS
    <3> QED BY <1>5, <3>1, <3>2, <3>3, <3>4, PlaceTurn
  <2>11. LeftBehind(L, X, m)
    <3>1. /\ Len(X.events) = Len(R.events) + 1 /\ X.events[Len(R.events) + 1] = e
          /\ DOMAIN X.events = 1..(Len(R.events) + 1) /\ Len(R.events) \in Nat
      BY <2>4, <2>8, Appended, LoadIs DEF IsLoad
    <3>2. \E k \in DOMAIN X.events : X.events[k].line = m
      <4>1. Len(R.events) + 1 \in DOMAIN X.events
        BY <3>1
      <4> QED BY <2>8, <3>1, <4>1
    <3>3. Lines[m].rec.class \in NewTypes["openai"] => Told(X, raw)
      BY <1>4, <2>5, <2>8 DEF NewTypes
    <3> QED BY <1>4, <3>2, <3>3 DEF LeftBehind, Told
  <2>12. LoadOK(NotedSince(L, X), m + 1)
    BY <1>4, <1>6, <1>8, <2>2, <2>9, <2>10, <2>11, SoundLine
  <2> QED BY <1>3, <1>4, <1>8, <2>12
<1> QED BY <1>7, <1>8

-----------------------------------------------------------------------------
(* Claude Code records: the blocks, and the events of one record.          *)

LEMMA Listed ==
  ASSUME NEW n \in Nat, NEW q, q = [i \in 1..n |-> q[i]]
  PROVE  IsSequence(q) /\ Len(q) = n /\ DOMAIN q = 1..n
<1> DEFINE S == {q[i] : i \in 1..n}
<1>1. q \in [1..n -> S]
  OBVIOUS
<1> HIDE DEF S
<1>2. q \in Seq(S)
  BY <1>1
<1>3. IsSequence(q)
  BY <1>2, SequenceIs
<1>4. DOMAIN q = 1..n
  BY <1>1
<1>5. Len(q) = n
  BY <1>1, <1>2
<1> QED BY <1>3, <1>4, <1>5

LEMMA Least ==
  ASSUME NEW S \in SUBSET Nat, S # {}
  PROVE  \E x \in S : \A y \in S : x <= y
<1> SUFFICES ASSUME ~\E x \in S : \A y \in S : x <= y PROVE FALSE
  OBVIOUS
<1> DEFINE T == {n \in Nat : \A y \in S : n < y}
<1>1. 0 \in T
  BY 0 \in Nat
<1>2. ASSUME NEW n \in Nat, n \in T PROVE n + 1 \in T
  <2>1. \A y \in S : n + 1 <= y
    BY <1>2
  <2>2. n + 1 \notin S
    BY <2>1
  <2>3. \A y \in S : y \in Nat /\ y # n + 1
    BY <2>2
  <2> QED BY <2>1, <2>3
<1>3. Nat \subseteq T
  <2> HIDE DEF T
  <2> QED BY <1>1, <1>2, Lengths!NatSet
<1>4. PICK y \in S : TRUE
  OBVIOUS
<1>5. y \in T /\ y \in Nat
  BY <1>3, <1>4
<1> QED BY <1>4, <1>5

\* Each event below the one before it: one chain in the place of the record.
LEMMA ChainFits ==
  ASSUME NEW es, IsSequence(es), Len(es) # 0, NEW rec, es[1].parent = rec.parent,
         \A k \in DOMAIN es : k # 1 => es[k].parent = es[k - 1].id,
         rec.id # None => \E k \in DOMAIN es : es[k].id = rec.id
  PROVE  GroupFits(ToSet(es), rec)
<1>1. Len(es) \in Nat /\ DOMAIN es = 1..Len(es) /\ 1 \in DOMAIN es
  BY SequenceIs
<1>2. \E e \in ToSet(es) : e.parent = rec.parent
  BY <1>1 DEF ToSet
<1>3. ASSUME NEW e \in ToSet(es), e.parent # rec.parent
      PROVE  \E above \in ToSet(es) \ {e} : above.id = e.parent
  <2> DEFINE S == {k \in DOMAIN es : es[k] = e}
  <2>1. S \in SUBSET Nat /\ S # {}
    BY <1>1, <1>3 DEF ToSet
  <2>2. PICK k \in S : \A j \in S : k <= j
    <3> HIDE DEF S
    <3> QED BY <2>1, Least
  <2>3. k \in DOMAIN es /\ es[k] = e /\ k # 1
    BY <1>3, <2>2
  <2>4. k - 1 \in DOMAIN es /\ ~(k <= k - 1)
    BY <1>1, <2>3
  <2>5. es[k - 1] # e
    BY <2>2, <2>4
  <2>6. es[k - 1] \in ToSet(es) \ {e} /\ es[k - 1].id = e.parent
    BY <2>3, <2>4, <2>5 DEF ToSet
  <2> QED BY <2>6
<1>4. rec.id # None => \E e \in ToSet(es) : e.id = rec.id
  BY DEF ToSet
<1> QED BY <1>2, <1>3, <1>4 DEF GroupFits

\* Siblings.
LEMMA SiblingsFit ==
  ASSUME NEW es, IsSequence(es), Len(es) # 0, NEW rec, \A k \in DOMAIN es : es[k].parent = rec.parent,
         rec.id # None /\ ~Parallel(rec) => \E k \in DOMAIN es : es[k].id = rec.id
  PROVE  GroupFits(ToSet(es), rec)
<1>1. 1 \in DOMAIN es
  BY SequenceIs
<1>2. \A e \in ToSet(es) : e.parent = rec.parent
  BY DEF ToSet
<1>3. rec.id # None /\ ~Parallel(rec) => \E e \in ToSet(es) : e.id = rec.id
  BY DEF ToSet
<1>4. es[1] \in ToSet(es)
  BY <1>1 DEF ToSet
<1> QED BY <1>2, <1>3, <1>4 DEF GroupFits

Taken(kind, unused, taken, b) == IF b.kind = kind THEN Append(taken, b) ELSE taken
Taking == INSTANCE FoldFacts WITH Op <- Taken

LEMMA BlocksAre ==
  ASSUME NEW rec, IsSequence(rec.blocks), NEW kind
  PROVE  IsSequence(Blocks(rec, kind))
<1>1. Len(rec.blocks) \in Nat /\ DOMAIN rec.blocks = 1..Len(rec.blocks)
  BY SequenceIs
<1>2. PICK base : base = << >>
  OBVIOUS
<1>3. Blocks(rec, kind) = Taking!Fold(kind, kind, base, rec.blocks)
  BY <1>2 DEF Blocks, FoldLeft, MapThenFoldSet, Max, Taking!Fold, Taking!MapThenFoldSet, Taking!Max, Taken
<1>4. PICK at : Taking!Turns(kind, kind, base, rec.blocks, at)
                /\ at[Len(rec.blocks)] = Taking!Fold(kind, kind, base, rec.blocks)
  <2>1. PICK blocks : blocks = rec.blocks
    OBVIOUS
  <2> QED BY <1>1, <2>1, Taking!FoldTurns
<1> DEFINE T == {n \in Nat : n <= Len(rec.blocks) => IsSequence(at[n])}
<1>5. 0 \in T
  BY <1>2, <1>4, EmptySequence DEF Taking!Turns
<1>6. ASSUME NEW n \in Nat, n \in T PROVE n + 1 \in T
  <2> SUFFICES ASSUME n + 1 <= Len(rec.blocks) PROVE IsSequence(at[n + 1])
    OBVIOUS
  <2>1. n < Len(rec.blocks) /\ IsSequence(at[n])
    BY <1>1, <1>6
  <2>2. at[n + 1] = Taken(kind, kind, at[n], rec.blocks[n + 1])
    BY <1>4, <2>1 DEF Taking!Turns
  <2> QED BY <2>1, <2>2, Appended DEF Taken
<1>7. Nat \subseteq T
  <2> HIDE DEF T
  <2> QED BY <1>5, <1>6, Lengths!NatSet
<1> QED BY <1>1, <1>3, <1>4, <1>7

\* Ids are taken without a word.
LEMMA QuietOn ==
  ASSUME NEW L, NEW M, NEW N, IsLoad(L), Quiet(L, M), Quiet(M, N)
  PROVE  Quiet(L, N)
BY DEF Quiet, SameLists, SameVersion, SamePlace

LEMMA QuietTurns ==
  ASSUME NEW at, NEW k \in Nat, IsLoad(at[0]),
         \A n \in Nat : n < k /\ IsLoad(at[n]) => Quiet(at[n], at[n + 1])
  PROVE  Quiet(at[0], at[k])
<1> DEFINE T == {n \in Nat : n <= k => Quiet(at[0], at[n])}
<1>1. 0 \in T
  BY DEF Quiet, SameLists, SameVersion, SamePlace
<1>2. ASSUME NEW n \in Nat, n \in T PROVE n + 1 \in T
  <2> SUFFICES ASSUME n + 1 <= k PROVE Quiet(at[0], at[n + 1])
    OBVIOUS
  <2>1. n < k /\ Quiet(at[0], at[n])
    BY <1>2
  <2>2. Quiet(at[n], at[n + 1])
    BY <2>1 DEF Quiet
  <2> QED BY <2>1, <2>2, QuietOn
<1>3. Nat \subseteq T
  <2> HIDE DEF T
  <2> QED BY <1>1, <1>2, Lengths!NatSet
<1> QED BY <1>3

LEMMA RegisterQuiet ==
  ASSUME NEW L, IsLoad(L), NEW id, NEW real
  PROVE  Quiet(L, Register(L, id, real))
BY RegisterIs DEF Register

RegisterCall(rec, id, l, i) ==
  Register(l, CallId(rec, id, i), Blocks(rec, "use")[i].id # None)
Calling == INSTANCE FoldFacts WITH Op <- RegisterCall
RegisterResult(rec, id, l, i) ==
  Register(l, ResultId(rec, id, i), Blocks(rec, "result")[i].id # None)
Resulting == INSTANCE FoldFacts WITH Op <- RegisterResult

LEMMA CallsQuiet ==
  ASSUME NEW L, IsLoad(L), NEW rec, NEW id, IsSequence(Blocks(rec, "use")), Len(Blocks(rec, "use")) # 0
  PROVE  Quiet(L, RegisterCalls(L, rec, id))
<1>1. PICK n : n = Len(Blocks(rec, "use")) - 1
  OBVIOUS
<1>2. n \in Nat
  BY <1>1, SequenceIs
<1>3. PICK seq : seq = [i \in 1..n |-> i]
  OBVIOUS
<1>4. DOMAIN seq = 1..Len(seq) /\ Len(seq) \in Nat
  BY <1>2, <1>3, Listed
<1>5. RegisterCalls(L, rec, id) = Calling!Fold(rec, id, L, seq)
  BY <1>1, <1>3 DEF RegisterCalls, FoldLeft, MapThenFoldSet, Max, Calling!Fold, Calling!MapThenFoldSet, Calling!Max, RegisterCall
<1>6. PICK at : Calling!Turns(rec, id, L, seq, at) /\ at[Len(seq)] = Calling!Fold(rec, id, L, seq)
  BY <1>4, Calling!FoldTurns
<1>7. at[0] = L
  BY <1>6 DEF Calling!Turns
<1>8. ASSUME NEW k \in Nat, k < Len(seq), IsLoad(at[k]) PROVE Quiet(at[k], at[k + 1])
  <2>1. at[k + 1] = RegisterCall(rec, id, at[k], seq[k + 1])
    BY <1>6, <1>8 DEF Calling!Turns
  <2> QED BY <1>8, <2>1, RegisterQuiet DEF RegisterCall
<1>9. PICK len \in Nat : len = Len(seq)
  BY <1>4
<1>10. Quiet(at[0], at[len])
  BY <1>7, <1>8, <1>9, QuietTurns
<1> QED BY <1>5, <1>6, <1>7, <1>9, <1>10

LEMMA ResultsQuiet ==
  ASSUME NEW L, IsLoad(L), NEW rec, NEW id, NEW n \in Nat
  PROVE  Quiet(L, Resulting!Fold(rec, id, L, [i \in 1..n |-> i]))
<1>3. PICK seq : seq = [i \in 1..n |-> i]
  OBVIOUS
<1>4. DOMAIN seq = 1..Len(seq) /\ Len(seq) \in Nat
  BY <1>3, Listed
<1>6. PICK at : Resulting!Turns(rec, id, L, seq, at) /\ at[Len(seq)] = Resulting!Fold(rec, id, L, seq)
  BY <1>4, Resulting!FoldTurns
<1>7. at[0] = L
  BY <1>6 DEF Resulting!Turns
<1>8. ASSUME NEW k \in Nat, k < Len(seq), IsLoad(at[k]) PROVE Quiet(at[k], at[k + 1])
  <2>1. at[k + 1] = RegisterResult(rec, id, at[k], seq[k + 1])
    BY <1>6, <1>8 DEF Resulting!Turns
  <2> QED BY <1>8, <2>1, RegisterQuiet DEF RegisterResult
<1>9. PICK len \in Nat : len = Len(seq)
  BY <1>4
<1>10. Quiet(at[0], at[len])
  BY <1>7, <1>8, <1>9, QuietTurns
<1> QED BY <1>3, <1>6, <1>7, <1>9, <1>10

\* The events of one record, all of its line.
OfRecord(es, rec, raw) ==
  /\ IsSequence(es) /\ Len(es) # 0
  /\ \A k \in 1..Len(es) : es[k].line = raw.line /\ es[k].offset = raw.offset
  /\ GroupFits(ToSet(es), rec)

LEMMA CallEventsFit ==
  ASSUME NEW rec, NEW raw, NEW id, rec.id # None => id = rec.id,
         IsSequence(Blocks(rec, "use")), Len(Blocks(rec, "use")) # 0
  PROVE  OfRecord(CallEvents(rec, id, raw), rec, raw)
<1>1. PICK uses : uses = Blocks(rec, "use")
  OBVIOUS
<1>2. PICK n : n = Len(uses)
  OBVIOUS
<1>3. n \in Nat /\ n # 0
  BY <1>1, <1>2, SequenceIs
<1> DEFINE texts == Blocks(rec, "text")
           blocks == Blocks(rec, "use")
           parentOf(i) == CASE i > 1 -> CallId(rec, id, i - 1)
                            [] i = 1 /\ texts # << >> -> TextId(id)
                            [] OTHER -> rec.parent
           corrOf(i) == IF blocks[i].id # None THEN blocks[i].id ELSE CallId(rec, id, i)
           original(i) == IF i = Len(blocks) THEN rec.id # None ELSE blocks[i].id # None
           made == [i \in 1..Len(blocks) |-> Event(CallId(rec, id, i), parentOf(i), "tool_call", corrOf(i), raw, original(i))]
           text == Event(TextId(id), rec.parent, "message", None, raw, FALSE)
<1>4. CallEvents(rec, id, raw) = (IF texts # << >> THEN <<text>> ELSE << >>) \o made
  BY DEF CallEvents
<1>5. /\ made = [i \in 1..n |-> made[i]]
      /\ \A i \in 1..n : made[i] = Event(CallId(rec, id, i), parentOf(i), "tool_call", corrOf(i), raw, original(i))
  <2>1. Len(blocks) = n
    BY <1>1, <1>2
  <2> HIDE DEF blocks, parentOf, corrOf, original
  <2> QED BY <2>1
<1>6. /\ \A i \in 1..n : i # 1 => parentOf(i) = CallId(rec, id, i - 1)
      /\ parentOf(1) = IF texts # << >> THEN TextId(id) ELSE rec.parent
  <2>1. \A i \in 1..n : i # 1 => i > 1
    BY <1>3
  <2>2. ~(1 > 1)
    OBVIOUS
  <2> QED BY <2>1, <2>2
<1> HIDE DEF blocks, parentOf, corrOf, original
<1>7. PICK hasText \in BOOLEAN : hasText <=> texts # << >>
  OBVIOUS
<1>8. PICK calls, t : calls = made /\ t = text
  OBVIOUS
<1>8a. PICK es : es = CallEvents(rec, id, raw)
  OBVIOUS
<1>8b. /\ \A i \in 1..n : /\ calls[i].line = raw.line /\ calls[i].offset = raw.offset
                            /\ calls[i].id = CallId(rec, id, i) /\ calls[i].parent = parentOf(i)
       /\ t.line = raw.line /\ t.offset = raw.offset /\ t.parent = rec.parent /\ t.id = TextId(id)
  <2>1. calls = made /\ t = Event(TextId(id), rec.parent, "message", None, raw, FALSE)
    BY <1>8
  <2> HIDE DEF made, text, texts
  <2>2. \A i \in 1..n : calls[i] = Event(CallId(rec, id, i), parentOf(i), "tool_call", corrOf(i), raw, original(i))
    BY <1>5, <2>1
  <2>3. ASSUME NEW i \in 1..n
        PROVE  /\ calls[i].line = raw.line /\ calls[i].offset = raw.offset
               /\ calls[i].id = CallId(rec, id, i) /\ calls[i].parent = parentOf(i)
    <3>1. PICK c, u, v : c = CallId(rec, id, i) /\ u = parentOf(i) /\ v = corrOf(i)
      OBVIOUS
    <3>2. calls[i] = Event(c, u, "tool_call", v, raw, original(i))
      BY <2>2, <3>1
    <3>3. /\ calls[i].line = raw.line /\ calls[i].offset = raw.offset
          /\ calls[i].id = c /\ calls[i].parent = u
      BY <3>2 DEF Event
    <3> QED BY <3>1, <3>3
  <2>4. t.line = raw.line /\ t.offset = raw.offset /\ t.parent = rec.parent /\ t.id = TextId(id)
    BY <2>1 DEF Event
  <2> QED BY <2>3, <2>4
<1>8c. es = (IF hasText THEN <<t>> ELSE << >>) \o calls
  BY <1>4, <1>7, <1>8, <1>8a
<1>9. /\ IsSequence(calls) /\ Len(calls) = n /\ DOMAIN calls = 1..n
      /\ \A i \in 1..n : calls[i].line = raw.line /\ calls[i].offset = raw.offset
      /\ \A i \in 1..n : calls[i].id = CallId(rec, id, i)
      /\ \A i \in 1..n : i # 1 => calls[i].parent = CallId(rec, id, i - 1)
      /\ calls[1].parent = IF hasText THEN t.id ELSE rec.parent
  <2>1. calls = [i \in 1..n |-> calls[i]]
    BY <1>5, <1>8
  <2> HIDE DEF made, text, texts
  <2>2. IsSequence(calls) /\ Len(calls) = n /\ DOMAIN calls = 1..n
    BY <1>3, <2>1, Listed
  <2>3. 1 \in 1..n
    BY <1>3
  <2> QED BY <1>6, <1>7, <1>8b, <2>2, <2>3
<1> HIDE DEF made, text, texts
<1>10. CallId(rec, id, n) = id
  BY <1>1, <1>2 DEF CallId
<1>11. t.line = raw.line /\ t.offset = raw.offset /\ t.parent = rec.parent
  BY <1>8b
<1>12. CASE hasText
  <2>1. IsSequence(<<t>>) /\ Len(<<t>>) = 1 /\ <<t>>[1] = t
    BY OneElement
  <2>2. es = <<t>> \o calls
    BY <1>8c, <1>12
  <2>3. /\ IsSequence(es) /\ Len(es) = 1 + n /\ DOMAIN es = 1..(1 + n)
        /\ es[1] = t /\ \A k \in 1..n : es[1 + k] = calls[k]
    <3>1. PICK p : p = <<t>>
      OBVIOUS
    <3>2. IsSequence(p) /\ Len(p) = 1 /\ p[1] = t /\ es = p \o calls
      BY <2>1, <2>2, <3>1
    <3>3. /\ IsSequence(p \o calls) /\ Len(p \o calls) = Len(p) + Len(calls)
          /\ DOMAIN (p \o calls) = 1..(Len(p) + Len(calls))
          /\ \A k \in 1..Len(p) : (p \o calls)[k] = p[k]
          /\ \A k \in 1..Len(calls) : (p \o calls)[Len(p) + k] = calls[k]
      <4>1. IsSequence(calls)
        BY <1>9
      <4>2. IsSequence(p)
        BY <3>2
      <4> QED BY <4>1, <4>2, Joined
    <3> QED BY <1>9, <3>2, <3>3
  <2>4. \A k \in 1..(1 + n) : k # 1 => k - 1 \in 1..n /\ k = 1 + (k - 1)
    BY <1>3
  <2>5. \A k \in DOMAIN es : k # 1 => es[k] = calls[k - 1]
    BY <2>3, <2>4
  <2>6. \A k \in DOMAIN es : k # 1 => es[k].parent = es[k - 1].id
    <3> SUFFICES ASSUME NEW k \in DOMAIN es, k # 1 PROVE es[k].parent = es[k - 1].id
      OBVIOUS
    <3>1. k \in 1..(1 + n) /\ k - 1 \in 1..n /\ es[k] = calls[k - 1]
      BY <2>3, <2>4, <2>5
    <3>2. CASE k = 2
      BY <1>9, <1>12, <2>3, <3>1, <3>2
    <3>3. CASE k # 2
      <4>1. k - 1 \in DOMAIN es /\ k - 1 # 1 /\ (k - 1) - 1 \in 1..n
        BY <1>3, <2>3, <3>1, <3>3
      <4>2. es[k - 1] = calls[(k - 1) - 1]
        BY <2>5, <4>1
      <4> QED BY <1>9, <3>1, <4>1, <4>2
    <3> QED BY <3>2, <3>3
  <2>7. rec.id # None => \E k \in DOMAIN es : es[k].id = rec.id
    <3>1. 1 + n \in DOMAIN es /\ n \in 1..n
      BY <1>3, <2>3
    <3>2. es[1 + n].id = id
      BY <1>9, <1>10, <2>3, <3>1
    <3> QED BY <3>1, <3>2
  <2>8. Len(es) # 0 /\ es[1].parent = rec.parent
    BY <1>3, <1>11, <2>3
  <2>9. GroupFits(ToSet(es), rec)
    BY <2>3, <2>6, <2>7, <2>8, ChainFits
  <2>10. \A k \in 1..Len(es) : es[k].line = raw.line /\ es[k].offset = raw.offset
    BY <1>9, <1>11, <2>3, <2>4, <2>5
  <2> QED BY <1>8a, <2>3, <2>8, <2>9, <2>10 DEF OfRecord
<1>13. CASE ~hasText
  <2>1. es = << >> \o calls
    BY <1>8c, <1>13
  <2>2. /\ IsSequence(es) /\ Len(es) = n /\ DOMAIN es = 1..n /\ \A k \in 1..n : es[k] = calls[k]
    <3>1. PICK p : p = << >>
      OBVIOUS
    <3>2. IsSequence(p) /\ Len(p) = 0 /\ es = p \o calls
      BY <2>1, <3>1, EmptySequence
    <3>3. /\ IsSequence(p \o calls) /\ Len(p \o calls) = Len(p) + Len(calls)
          /\ DOMAIN (p \o calls) = 1..(Len(p) + Len(calls))
          /\ \A k \in 1..Len(calls) : (p \o calls)[Len(p) + k] = calls[k]
      <4>1. IsSequence(calls)
        BY <1>9
      <4>2. IsSequence(p)
        BY <3>2
      <4> QED BY <4>1, <4>2, Joined
    <3>4. 0 + n = n /\ \A k \in 1..n : 0 + k = k
      BY <1>3
    <3> QED BY <1>9, <3>2, <3>3, <3>4
  <2>3. \A k \in DOMAIN es : k # 1 => es[k].parent = es[k - 1].id
    <3> SUFFICES ASSUME NEW k \in 1..n, k # 1 PROVE es[k].parent = es[k - 1].id
      BY <2>2
    <3>1. k - 1 \in 1..n
      BY <1>3
    <3> QED BY <1>9, <2>2, <3>1
  <2>4. rec.id # None => \E k \in DOMAIN es : es[k].id = rec.id
    <3>1. n \in 1..n
      BY <1>3
    <3>2. es[n].id = id
      BY <1>9, <1>10, <2>2, <3>1
    <3> QED BY <2>2, <3>1, <3>2
  <2>5. Len(es) # 0 /\ es[1].parent = rec.parent
    <3>1. 1 \in 1..n
      BY <1>3
    <3> QED BY <1>3, <1>9, <1>13, <2>2, <3>1
  <2>6. GroupFits(ToSet(es), rec)
    BY <2>2, <2>3, <2>4, <2>5, ChainFits
  <2>7. \A k \in 1..Len(es) : es[k].line = raw.line /\ es[k].offset = raw.offset
    BY <1>9, <2>2
  <2> QED BY <1>8a, <2>2, <2>5, <2>6, <2>7 DEF OfRecord
<1> QED BY <1>12, <1>13

LEMMA ResultEventsFit ==
  ASSUME format = "claude", NEW rec, NEW raw, NEW id, rec.id # None => id = rec.id,
         IsSequence(Blocks(rec, "result")), Len(Blocks(rec, "result")) # 0,
         Blocks(rec, "use") = << >>
  PROVE  OfRecord(ResultEvents(rec, id, raw), rec, raw)
<1>1. PICK results : results = Blocks(rec, "result")
  OBVIOUS
<1>2. PICK n : n = Len(results)
  OBVIOUS
<1>3. n \in Nat /\ n # 0
  BY <1>1, <1>2, SequenceIs
<1> DEFINE original(i) == IF Len(results) = 1 THEN rec.id # None ELSE results[i].id # None
<1>4. PICK es : es = [i \in 1..n |-> Event(ResultId(rec, id, i), rec.parent, "tool_result", results[i].corr, raw, original(i))]
  OBVIOUS
<1>5. es = ResultEvents(rec, id, raw)
  BY <1>1, <1>2, <1>4 DEF ResultEvents
<1>6. IsSequence(es) /\ Len(es) = n /\ DOMAIN es = 1..n
  <2>1. es = [i \in 1..n |-> es[i]]
    BY <1>4
  <2> QED BY <1>3, <2>1, Listed
<1>7. \A i \in 1..n : /\ es[i].line = raw.line /\ es[i].offset = raw.offset
                      /\ es[i].id = ResultId(rec, id, i) /\ es[i].parent = rec.parent
  <2>1. \A i \in 1..n : es[i] = Event(ResultId(rec, id, i), rec.parent, "tool_result", results[i].corr, raw, original(i))
    BY <1>4
  <2> HIDE DEF original
  <2>2. ASSUME NEW i \in 1..n
        PROVE  /\ es[i].line = raw.line /\ es[i].offset = raw.offset
               /\ es[i].id = ResultId(rec, id, i) /\ es[i].parent = rec.parent
    <3>1. PICK c : c = ResultId(rec, id, i)
      OBVIOUS
    <3>2. es[i] = Event(c, rec.parent, "tool_result", results[i].corr, raw, original(i))
      BY <2>1, <3>1
    <3>3. /\ es[i].line = raw.line /\ es[i].offset = raw.offset
          /\ es[i].id = c /\ es[i].parent = rec.parent
      BY <3>2 DEF Event
    <3> QED BY <3>1, <3>3
  <2> QED BY <2>2
<1>8. rec.id # None /\ ~Parallel(rec) => \E k \in DOMAIN es : es[k].id = rec.id
  <2> SUFFICES ASSUME rec.id # None, ~Parallel(rec) PROVE \E k \in DOMAIN es : es[k].id = rec.id
    OBVIOUS
  <2>1. n = 1
    <3>1. ~(n > 1)
      BY <1>1, <1>2 DEF Parallel
    <3> QED BY <1>3, <3>1
  <2>2. ResultId(rec, id, 1) = id
    BY <1>1, <1>2, <2>1 DEF ResultId
  <2>3. 1 \in DOMAIN es
    BY <1>6, <2>1
  <2> QED BY <1>6, <1>7, <2>2, <2>3
<1>9. GroupFits(ToSet(es), rec)
  BY <1>3, <1>6, <1>7, <1>8, SiblingsFit
<1> QED BY <1>3, <1>5, <1>6, <1>7, <1>9 DEF OfRecord

-----------------------------------------------------------------------------
(* Claude Code records, one by one.                                        *)

\* What one line did to a load, all that the invariant asks of it.
Settles(L, X, m, raw, codes) ==
  /\ Grows(L, X, raw, codes) /\ X.tail = L.tail /\ VersionOK(X, m + 1)
  /\ LeftBehind(L, X, m) /\ PlaceOK(X)

\* The load before the events of the record are added.
Ready(L, J, m, rec, raw, codes) ==
  /\ Grows(L, J, raw, codes) /\ J.events = L.events /\ J.tail = L.tail
  /\ VersionOK(J, m + 1) /\ (rec.class = "newType" => Told(J, raw))

LEMMA AddEvents ==
  ASSUME IsFile(Lines), format = "claude", NEW m \in RecordAt, NEW raw, raw.line = m, NEW codes,
         NEW L, WhereOK(L, m), PlaceOK(L), NEW rec, Lines[m].rec = rec,
         NEW J, Ready(L, J, m, rec, raw, codes), NEW Q, Quiet(J, Q),
         NEW es, OfRecord(es, rec, raw)
  PROVE  Settles(L, [Q EXCEPT !.events = @ \o es], m, raw, codes)
<1>1. PICK X : X = [Q EXCEPT !.events = @ \o es]
  OBVIOUS
<1>2. /\ IsLoad(L) /\ IsLoad(J) /\ Grows(L, J, raw, codes) /\ J.events = L.events /\ J.tail = L.tail
      /\ VersionOK(J, m + 1) /\ (rec.class = "newType" => Told(J, raw))
  BY DEF Ready, Grows, WhereOK
<1>3. PICK n : n = m + 1
  OBVIOUS
<1>4. /\ Grows(J, Q, raw, codes) /\ IsLoad(Q) /\ Q.events = L.events /\ Q.findings = J.findings
      /\ Q.tail = L.tail /\ VersionOK(Q, n)
  <2>1. VersionOK(J, n)
    BY <1>2, <1>3
  <2> QED BY <1>2, <2>1, QuietIs DEF SamePlace
<1>5. /\ IsSequence(es) /\ Len(es) # 0 /\ Len(es) \in Nat /\ DOMAIN es = 1..Len(es) /\ GroupFits(ToSet(es), rec)
      /\ \A k \in 1..Len(es) : es[k].line = raw.line /\ es[k].offset = raw.offset
  BY SequenceIs DEF OfRecord
<1>6. \A some : MoreEvents(Q, X, es, raw, some)
  <2>1. ASSUME NEW some PROVE MoreEvents(Q, X, es, raw, some)
    <3>1. MoreEvents(Q, [Q EXCEPT !.events = @ \o es], es, raw, some)
      BY <1>4, <1>5, EventsJoin
    <3> QED BY <1>1, <3>1
  <2> QED BY <2>1
<1>7. /\ Grows(Q, X, raw, codes) /\ X.findings = J.findings /\ SameVersion(Q, X) /\ X.tail = L.tail
      /\ X.events = L.events \o es /\ Len(X.events) = Len(L.events) + Len(es)
      /\ X.events[Len(L.events) + 1] = es[1]
  <2>1. 1 \in 1..Len(es)
    BY <1>5
  <2>2. MoreEvents(Q, X, es, raw, codes)
    BY <1>6
  <2> QED BY <1>4, <2>1, <2>2 DEF MoreEvents, SamePlace
<1>8. Grows(L, X, raw, codes)
  <2>1. Grows(L, Q, raw, codes)
    BY <1>2, <1>4, GrowsOn
  <2> QED BY <1>2, <1>7, <2>1, GrowsOn
<1>9. VersionOK(X, n)
  <2>1. PICK none : none = {}
    OBVIOUS
  <2>2. Grows(Q, X, raw, none) /\ "SL301" \notin none
    BY <1>6, <2>1 DEF MoreEvents
  <2> QED BY <1>4, <1>7, <2>2, VersionSame
<1>10. PlaceOK(X)
  <2>1. \A k \in DOMAIN es : es[k].line = m
    BY <1>5
  <2> QED BY <1>5, <1>7, <2>1, PlaceTurn
<1>11. LeftBehind(L, X, m)
  <2>1. Len(L.events) + 1 \in DOMAIN X.events
    <3>1. IsLoad(X)
      BY <1>7 DEF Grows
    <3>2. Len(L.events) \in Nat /\ DOMAIN X.events = 1..Len(X.events)
      BY <1>2, <3>1, LoadIs
    <3> QED BY <1>5, <1>7, <3>2
  <2>2. es[1].line = m
    BY <1>5
  <2>3. \E k \in DOMAIN X.events : X.events[k].line = m
    BY <1>7, <2>1, <2>2
  <2>4. Lines[m].rec.class \in NewTypes["claude"] => Told(X, raw)
    BY <1>2, <1>7 DEF NewTypes, Told
  <2> QED BY <2>3, <2>4 DEF LeftBehind, Told
<1> QED BY <1>1, <1>3, <1>7, <1>8, <1>9, <1>10, <1>11 DEF Settles

\* The id, the pointers, the signature and the version of a record.
Versioned(R, V, m, raw, codes) ==
  /\ Grows(R, V, raw, codes) /\ V.events = R.events /\ V.tail = R.tail /\ VersionOK(V, m + 1)

LEMMA VersionedIs ==
  ASSUME IsFile(Lines), format = "claude", NEW m \in RecordAt, ~Damaged(m), NEW raw, raw.line = m,
         NEW codes, "SL301" \in codes, NEW K, IsLoad(K), VersionOK(K, m), NEW rec, Lines[m].rec = rec, NEW seq
  PROVE  Versioned(K,
           ObserveVersion(CheckVersion(ObserveSignature(ExtractLinks(WithRecordId(K, rec, seq), rec.link),
                                                        rec.foreign, raw), rec.version, raw),
                          IF rec.marker THEN rec.version ELSE None, raw), m, raw, codes)
<1>1. PICK I : I = WithRecordId(K, rec, seq)
  OBVIOUS
<1>2. PICK H : H = ExtractLinks(I, rec.link)
  OBVIOUS
<1>3. PICK marker : marker = IF rec.marker THEN rec.version ELSE None
  OBVIOUS
<1>4. PICK V : V = ObserveVersion(CheckVersion(ObserveSignature(H, rec.foreign, raw), rec.version, raw), marker, raw)
  OBVIOUS
<1>5. /\ Grows(K, I, raw, codes) /\ IsLoad(I) /\ I.events = K.events /\ SamePlace(K, I) /\ VersionOK(I, m)
  <2>1. Quiet(K, I)
    BY <1>1, RecordIdIs
  <2> QED BY <2>1, QuietIs
<1>6. /\ Grows(I, H, raw, codes) /\ IsLoad(H) /\ H.events = I.events /\ SamePlace(I, H) /\ VersionOK(H, m)
  <2>1. Quiet(I, H)
    BY <1>2, <1>5, LinksAre
  <2> QED BY <1>5, <2>1, QuietIs
<1>7. /\ Grows(H, V, raw, codes) /\ V.events = H.events /\ SamePlace(H, V) /\ VersionOK(V, m + 1)
  <2>2. /\ format = "claude" /\ ~rec.marker => marker = None
        /\ ~(format = "claude" /\ ~rec.marker) => marker = rec.version
    BY <1>3
  <2>3. format \in {"codex", "claude"}
    OBVIOUS
  <2>4. LET P == ObserveVersion(CheckVersion(ObserveSignature(H, rec.foreign, raw), rec.version, raw), marker, raw) IN
         /\ Grows(H, P, raw, codes) /\ P.events = H.events /\ P.unknown = H.unknown /\ SamePlace(H, P)
         /\ VersionOK(P, m + 1)
    BY <1>6, <2>2, <2>3, VersionTurn
  <2> QED BY <1>4, <2>4
<1>8. Grows(K, V, raw, codes)
  <2>1. Grows(K, H, raw, codes)
    BY <1>5, <1>6, GrowsOn
  <2> QED BY <1>7, <2>1, GrowsOn
<1>9. Versioned(K, V, m, raw, codes)
  BY <1>5, <1>6, <1>7, <1>8 DEF Versioned, SamePlace
<1> QED BY <1>1, <1>2, <1>3, <1>4, <1>9

\* Records that give no event.
LEMMA PassedSettles ==
  ASSUME IsFile(Lines), format = "claude", NEW m \in RecordAt, NEW raw, raw.line = m, NEW codes,
         NEW L, WhereOK(L, m), PlaceOK(L), NEW rec, Lines[m].rec = rec, Housekeeping(rec),
         NEW V, Versioned(L, V, m, raw, codes)
  PROVE  Settles(L, V, m, raw, codes)
<1>1. PlaceOK(V)
  BY SamePlaces DEF Versioned
<1>2. Passed(V, m)
  BY DEF Housekeeping, Passed
<1>3. ~(Len(L.events) < Len(V.events))
  <2>1. V.events = L.events /\ Len(L.events) \in Nat
    BY LoadIs DEF Versioned, WhereOK
  <2> QED BY <2>1
<1>4. LeftBehind(L, V, m)
  BY <1>2, <1>3 DEF LeftBehind
<1> QED BY <1>1, <1>4 DEF Settles, Versioned

LEMMA UnknownSettles ==
  ASSUME IsFile(Lines), format = "claude", NEW m \in RecordAt, NEW raw, raw.line = m, NEW codes,
         NEW L, WhereOK(L, m), PlaceOK(L), NEW V, Versioned(L, V, m, raw, codes)
  PROVE  Settles(L, NoteUnknown(V, raw), m, raw, codes)
<1>1. PICK X : X = NoteUnknown(V, raw)
  OBVIOUS
<1>2. IsLoad(V) /\ IsLoad(L)
  BY DEF Versioned, Grows, WhereOK
<1>3. \A some : /\ Grows(V, X, raw, some) /\ X.events = V.events
                /\ SameVersion(V, X) /\ SamePlace(V, X) /\ raw.line \in X.unknown
  BY <1>1, <1>2, UnknownIs
<1>4. PICK n : n = m + 1
  OBVIOUS
<1>5. VersionOK(X, n)
  <2>1. PICK none : none = {}
    OBVIOUS
  <2>2. Grows(V, X, raw, none) /\ "SL301" \notin none /\ SameVersion(V, X)
    BY <1>3, <2>1
  <2>3. VersionOK(V, n)
    BY <1>4 DEF Versioned
  <2> QED BY <1>2, <2>2, <2>3, VersionSame
<1>6. Grows(L, X, raw, codes) /\ X.events = L.events /\ X.tail = L.tail
  <2>1. Grows(V, X, raw, codes) /\ Grows(L, V, raw, codes)
    BY <1>3 DEF Versioned
  <2>2. Grows(L, X, raw, codes)
    BY <1>2, <2>1, GrowsOn
  <2> QED BY <1>3, <2>2 DEF Versioned, SamePlace
<1>7. PlaceOK(X)
  BY <1>6, SamePlaces
<1>8. LeftBehind(L, X, m)
  <2>1. ~(Len(L.events) < Len(X.events))
    <3>1. Len(L.events) \in Nat
      BY <1>2, LoadIs
    <3> QED BY <1>6, <3>1
  <2> QED BY <1>3, <2>1 DEF LeftBehind
<1> QED BY <1>1, <1>4, <1>5, <1>6, <1>7, <1>8 DEF Settles

\* An unknown type or a critical field is reported.
LEMMA ReadyIs ==
  ASSUME NEW m, NEW raw, NEW codes, "SL302" \in codes, NEW L, IsLoad(L),
         NEW V, Versioned(L, V, m, raw, codes), NEW rec
  PROVE  Ready(L, ReportWhen(V, RecordKind(rec) = "unknown" \/ rec.critical, "SL302", raw), m, rec, raw, codes)
<1>1. PICK J : J = ReportWhen(V, RecordKind(rec) = "unknown" \/ rec.critical, "SL302", raw)
  OBVIOUS
<1>2. IsLoad(V) /\ Grows(L, V, raw, codes) /\ V.events = L.events /\ V.tail = L.tail /\ VersionOK(V, m + 1)
  BY DEF Versioned, Grows
<1>3. Assessed(V, J, raw)
  BY <1>1, <1>2, JudgeIs
<1>4. rec.class = "newType" => Told(J, raw)
  <2>1. ASSUME rec.class = "newType" PROVE RecordKind(rec) = "unknown"
    <3>1. rec.class \notin DOMAIN ClassKinds
      BY <2>1 DEF ClassKinds
    <3> QED BY <3>1 DEF RecordKind
  <2>2. rec.class = "newType" => J = Report(V, "SL302", raw)
    BY <1>1, <2>1 DEF ReportWhen
  <2> QED BY <1>2, <2>2, JudgeTells
<1>5. PICK few : few = {"SL302"}
  OBVIOUS
<1>6. Grows(V, J, raw, few) /\ few \subseteq codes /\ J.events = V.events /\ J.tail = V.tail
  BY <1>3, <1>5 DEF Assessed, SamePlace
<1>7. Grows(L, J, raw, codes)
  <2>1. Grows(V, J, raw, codes)
    BY <1>6, MoreCodes
  <2> QED BY <1>2, <2>1, GrowsOn
<1>8. PICK n : n = m + 1
  OBVIOUS
<1>9. VersionOK(J, n)
  BY <1>2, <1>3, <1>8, JudgedVersion
<1>10. Ready(L, J, m, rec, raw, codes)
  BY <1>2, <1>4, <1>6, <1>7, <1>8, <1>9 DEF Ready
<1> QED BY <1>1, <1>10

LEMMA CallsSettle ==
  ASSUME IsFile(Lines), format = "claude", NEW m \in RecordAt, NEW raw, raw.line = m, NEW codes,
         NEW L, WhereOK(L, m), PlaceOK(L), NEW rec, Lines[m].rec = rec, IsSequence(rec.blocks),
         NEW J, Ready(L, J, m, rec, raw, codes), NEW id, rec.id # None => id = rec.id,
         Blocks(rec, "use") # << >>
  PROVE  Settles(L, LoadCalls(J, rec, id, raw), m, raw, codes)
<1>1. IsSequence(Blocks(rec, "use")) /\ Len(Blocks(rec, "use")) # 0
  <2>1. IsSequence(Blocks(rec, "use"))
    BY BlocksAre
  <2> QED BY <2>1 DEF IsSequence
<1>2. PICK T : T = IF Blocks(rec, "text") = << >> THEN J ELSE RegisterSynthetic(J, TextId(id))
  OBVIOUS
<1>3. IsLoad(J)
  BY DEF Ready, Grows
<1>4. Quiet(J, T)
  <2>1. T = J \/ T = RegisterSynthetic(J, TextId(id))
    BY <1>2
  <2>2. Quiet(J, J)
    BY <1>3 DEF Quiet, SameLists, SameVersion, SamePlace
  <2> QED BY <1>3, <2>1, <2>2, RegisterIs
<1>5. PICK Q : Q = RegisterCalls(T, rec, id)
  OBVIOUS
<1>6. Quiet(J, Q)
  <2>1. IsLoad(T)
    BY <1>4 DEF Quiet
  <2>2. Quiet(T, Q)
    BY <1>1, <1>5, <2>1, CallsQuiet
  <2> QED BY <1>3, <1>4, <2>2, QuietOn
<1>7. PICK es : es = CallEvents(rec, id, raw)
  OBVIOUS
<1>8. OfRecord(es, rec, raw)
  BY <1>1, <1>7, CallEventsFit
<1>9. Settles(L, [Q EXCEPT !.events = @ \o es], m, raw, codes)
  BY <1>6, <1>8, AddEvents
<1>10. LoadCalls(J, rec, id, raw) = [Q EXCEPT !.events = @ \o es]
  BY <1>2, <1>5, <1>7 DEF LoadCalls
<1> QED BY <1>9, <1>10

LEMMA ResultsSettle ==
  ASSUME IsFile(Lines), format = "claude", NEW m \in RecordAt, NEW raw, raw.line = m, NEW codes,
         NEW L, WhereOK(L, m), PlaceOK(L), NEW rec, Lines[m].rec = rec, IsSequence(rec.blocks),
         NEW J, Ready(L, J, m, rec, raw, codes), NEW id, rec.id # None => id = rec.id,
         Blocks(rec, "use") = << >>, Blocks(rec, "result") # << >>
  PROVE  Settles(L, LoadResults(J, rec, id, raw), m, raw, codes)
<1>1. IsSequence(Blocks(rec, "result")) /\ Len(Blocks(rec, "result")) # 0
  <2>1. IsSequence(Blocks(rec, "result"))
    BY BlocksAre
  <2> QED BY <2>1 DEF IsSequence
<1> DEFINE results == Blocks(rec, "result")
           registered == IF Len(results) = 1 THEN J
                         ELSE FoldLeft(LAMBDA l, i : Register(l, ResultId(rec, id, i), results[i].id # None),
                                              J, [i \in 1..Len(results) |-> i])
<1>2. PICK Q : Q = registered
  OBVIOUS
<1>3. PICK es : es = ResultEvents(rec, id, raw)
  OBVIOUS
<1>4. LoadResults(J, rec, id, raw) = [registered EXCEPT !.events = @ \o ResultEvents(rec, id, raw)]
  BY DEF LoadResults
<1>5. IsLoad(J)
  BY DEF Ready, Grows
<1>6. Quiet(J, Q)
  <2>1. CASE Len(results) = 1
    <3>1. Q = J
      BY <1>2, <2>1
    <3> QED BY <1>5, <3>1 DEF Quiet, SameLists, SameVersion, SamePlace
  <2>2. CASE Len(results) # 1
    <3>1. PICK n : n = Len(results)
      OBVIOUS
    <3>2. Q = FoldLeft(LAMBDA l, i : Register(l, ResultId(rec, id, i), results[i].id # None),
                              J, [i \in 1..n |-> i])
      BY <1>2, <2>2, <3>1
    <3>3. Q = Resulting!Fold(rec, id, J, [i \in 1..n |-> i])
      BY <3>2 DEF Resulting!Fold, RegisterResult, Resulting!MapThenFoldSet, Resulting!Max,
                  FoldLeft, MapThenFoldSet, Max
    <3> QED BY <1>1, <1>5, <3>1, <3>3, ResultsQuiet
  <2> QED BY <2>1, <2>2
<1>7. OfRecord(es, rec, raw)
  BY <1>1, <1>3, ResultEventsFit
<1>8. Settles(L, [Q EXCEPT !.events = @ \o es], m, raw, codes)
  BY <1>6, <1>7, AddEvents
<1> QED BY <1>2, <1>3, <1>4, <1>8

LEMMA PlainSettles ==
  ASSUME IsFile(Lines), format = "claude", NEW m \in RecordAt, NEW raw, raw.line = m, NEW codes,
         NEW L, WhereOK(L, m), PlaceOK(L), NEW rec, Lines[m].rec = rec,
         NEW J, Ready(L, J, m, rec, raw, codes), NEW id, rec.id # None => id = rec.id
  PROVE  Settles(L, LoadPlain(J, rec, id, raw), m, raw, codes)
<1>1. PICK kind, corr : kind = RecordKind(rec) /\ corr = CorrelationId(rec, kind, id)
  OBVIOUS
<1>2. PICK e : e = Event(id, rec.parent, kind, corr, raw, rec.id # None)
  OBVIOUS
<1>3. IsLoad(J)
  BY DEF Ready, Grows
<1>4. e.line = raw.line /\ e.offset = raw.offset /\ e.id = id /\ e.parent = rec.parent
  BY <1>2 DEF Event
<1>5. PICK es : es = <<e>>
  OBVIOUS
<1>6. OfRecord(es, rec, raw)
  <2>1. IsSequence(es) /\ Len(es) = 1 /\ es[1] = e
    BY <1>5, OneElement
  <2>2. \A k \in 1..1 : k = 1
    OBVIOUS
  <2>3. GroupFits(ToSet(es), rec)
    BY <1>4, <1>5, OneFits
  <2> QED BY <1>4, <2>1, <2>2, <2>3 DEF OfRecord
<1>7. Quiet(J, J)
  BY <1>3 DEF Quiet, SameLists, SameVersion, SamePlace
<1>8. Settles(L, [J EXCEPT !.events = @ \o es], m, raw, codes)
  BY <1>6, <1>7, AddEvents
<1>9. Emit(J, e) = [J EXCEPT !.events = @ \o es]
  <2>1. J.events \o <<e>> = Append(J.events, e)
    BY <1>3, AppendIsJoin DEF IsLoad
  <2> QED BY <1>5, <2>1 DEF Emit
<1>10. LoadPlain(J, rec, id, raw) = Emit(J, e)
  BY <1>1, <1>2 DEF LoadPlain
<1> QED BY <1>8, <1>9, <1>10

LEMMA ClaudeRecordIs ==
  ASSUME IsFile(Lines), format = "claude", NEW m \in RecordAt, ~Damaged(m), NEW raw, raw.line = m,
         NEW codes, {"SL301", "SL302"} \subseteq codes,
         NEW L, WhereOK(L, m), PlaceOK(L), NEW R, Opened(L, R, raw, codes), VersionOK(R, m),
         NEW rec, Lines[m].rec = rec, IsSequence(rec.blocks)
  PROVE  Settles(L, ProcessClaudeRecord(R, rec, raw), m, raw, codes)
<1>1. PICK seq : seq = [raw EXCEPT !.ordinal = Len(R.events)]
  OBVIOUS
<1>2. PICK id : id = RecordId(rec, seq)
  OBVIOUS
<1>3. PICK V : V = ObserveVersion(CheckVersion(ObserveSignature(ExtractLinks(WithRecordId(R, rec, seq), rec.link),
                                                                rec.foreign, raw), rec.version, raw),
                                  IF rec.marker THEN rec.version ELSE None, raw)
  OBVIOUS
<1>4. PICK J : J = ReportWhen(V, RecordKind(rec) = "unknown" \/ rec.critical, "SL302", raw)
  OBVIOUS
<1>5. PICK X : X = ProcessClaudeRecord(R, rec, raw)
  OBVIOUS
<1>6. X = CASE Housekeeping(rec) -> V
            [] HarmlessUnknown(rec) -> NoteUnknown(V, raw)
            [] Blocks(rec, "use") # << >> -> LoadCalls(J, rec, id, raw)
            [] Blocks(rec, "use") = << >> /\ Blocks(rec, "result") # << >> ->
                 LoadResults(J, rec, id, raw)
            [] OTHER -> LoadPlain(J, rec, id, raw)
  BY <1>1, <1>2, <1>3, <1>4, <1>5 DEF ProcessClaudeRecord
<1>7. IsLoad(L) /\ IsLoad(R) /\ Grows(L, R, raw, codes) /\ R.events = L.events /\ R.tail = L.tail
  BY DEF WhereOK, Opened, Grows, SamePlace
<1>8. Versioned(L, V, m, raw, codes)
  <2>1. "SL301" \in codes
    OBVIOUS
  <2>2. Versioned(R,
           ObserveVersion(CheckVersion(ObserveSignature(ExtractLinks(WithRecordId(R, rec, seq), rec.link),
                                                        rec.foreign, raw), rec.version, raw),
                          IF rec.marker THEN rec.version ELSE None, raw), m, raw, codes)
    BY <1>7, <2>1, VersionedIs
  <2>3. Versioned(R, V, m, raw, codes)
    BY <1>3, <2>2
  <2>4. Grows(R, V, raw, codes) /\ V.events = R.events /\ V.tail = R.tail /\ VersionOK(V, m + 1)
    BY <2>3 DEF Versioned
  <2>5. Grows(L, V, raw, codes)
    BY <1>7, <2>4, GrowsOn
  <2> QED BY <1>7, <2>4, <2>5 DEF Versioned
<1>9. Ready(L, J, m, rec, raw, codes)
  <2>1. Ready(L, ReportWhen(V, RecordKind(rec) = "unknown" \/ rec.critical, "SL302", raw), m, rec, raw, codes)
    BY <1>7, <1>8, ReadyIs
  <2> QED BY <1>4, <2>1
<1>10. rec.id # None => id = rec.id
  BY <1>2 DEF RecordId
<1>11. Housekeeping(rec) => Settles(L, V, m, raw, codes)
  BY <1>8, PassedSettles
<1>12. Settles(L, NoteUnknown(V, raw), m, raw, codes)
  <2>1. Settles(L, NoteUnknown(V, raw), m, raw, codes)
    BY <1>8, UnknownSettles
  <2> QED BY <2>1
<1>13. Blocks(rec, "use") # << >> => Settles(L, LoadCalls(J, rec, id, raw), m, raw, codes)
  BY <1>9, <1>10, CallsSettle
<1>14. Blocks(rec, "use") = << >> /\ Blocks(rec, "result") # << >> =>
         Settles(L, LoadResults(J, rec, id, raw), m, raw, codes)
  BY <1>9, <1>10, ResultsSettle
<1>15. Settles(L, LoadPlain(J, rec, id, raw), m, raw, codes)
  BY <1>9, <1>10, PlainSettles
<1>16. Settles(L, X, m, raw, codes)
  <2>1. PICK a, b, c, d : /\ a = NoteUnknown(V, raw) /\ b = LoadCalls(J, rec, id, raw)
                          /\ c = LoadResults(J, rec, id, raw) /\ d = LoadPlain(J, rec, id, raw)
    OBVIOUS
  <2>2. CASE Housekeeping(rec) /\ X = V
    BY <1>11, <2>2
  <2>3. CASE X = a
    BY <1>12, <2>1, <2>3
  <2>4. CASE Blocks(rec, "use") # << >> /\ X = b
    BY <1>13, <2>1, <2>4
  <2>5. CASE Blocks(rec, "use") = << >> /\ Blocks(rec, "result") # << >> /\ X = c
    BY <1>14, <2>1, <2>5
  <2>6. CASE X = d
    BY <1>15, <2>1, <2>6
  <2> QED BY <1>6, <2>1, <2>2, <2>3, <2>4, <2>5, <2>6
<1> QED BY <1>5, <1>16

LEMMA ClaudeKeeps ==
  ASSUME FileFits(Lines), format = "claude", NEW m \in RecordAt, NEW raw, RawIs(raw, m),
         NEW L, LoadOK(L, m), NEW terminal \in BOOLEAN, Torn(m) => terminal
  PROVE  LoadOK(ProcessClaudeLine(L, raw, terminal), m + 1)
<1>0. IsFile(Lines) /\ \A i \in DOMAIN Lines : IsRecord(Lines[i].rec)
  BY DEF FileFits
<1>1. PICK R : R = [L EXCEPT !.findings = @ \o LineFindings(raw, terminal)]
  OBVIOUS
<1>2. PICK X : X = ProcessClaudeRecord(R, raw.rec, raw)
  OBVIOUS
<1>3. ProcessClaudeLine(L, raw, terminal) = NotedSince(L, IF IsDefect(raw) THEN R ELSE X)
  BY <1>1, <1>2 DEF ProcessClaudeLine
<1>4. /\ raw.line = m /\ raw.rec = Lines[m].rec /\ (Torn(m) => Damaged(m)) /\ (IsDefect(raw) <=> Damaged(m))
      /\ DamageAt(m) = FindingAt(IF Torn(m) THEN "SL002" ELSE "SL001", m)
      /\ \A code : Finding(code, raw) = FindingAt(code, m)
      /\ IsDefect(raw) => LineFindings(raw, terminal) = <<DamageAt(m)>>
  BY <1>0, RawSays
<1>5. IsLoad(L) /\ WhereOK(L, m) /\ PlaceOK(L) /\ VersionOK(L, m)
  BY DEF LoadOK, WhereOK
<1>6. \A M, n : LinkOK(M, n)
  BY DEF LinkOK
<1>7. CASE Damaged(m)
  <2>1. R = [L EXCEPT !.findings = @ \o <<DamageAt(m)>>]
    BY <1>1, <1>4, <1>7
  <2>2. PICK codes : codes = Damage
    OBVIOUS
  <2>3. DamageAt(m) \in {Finding(c, raw) : c \in codes}
    BY <1>4, <2>2 DEF Damage
  <2>4. Recorded(L, R, m, raw)
    BY <1>5, <2>1, <2>2, <2>3, DamageReported
  <2>5. LoadOK(NotedSince(L, R), m + 1)
    BY <1>0, <1>7, <2>4, DamagedLine
  <2> QED BY <1>3, <1>4, <1>7, <2>5
<1>8. CASE ~Damaged(m)
  <2>1. PICK codes : codes = {"SL301", "SL302", "SL303"}
    OBVIOUS
  <2>2. /\ codes \cap Damage = {} /\ codes \subseteq LineCodes
        /\ "SL303" \in codes /\ {"SL301", "SL302"} \subseteq codes
    BY <2>1 DEF Damage, LineCodes
  <2>3. Opened(L, R, raw, codes)
    BY <1>1, <1>4, <1>5, <1>8, <2>2, SoundOpened
  <2>4. Grows(L, R, raw, codes) /\ IsLoad(R) /\ R.events = L.events /\ SamePlace(L, R)
    BY <2>3 DEF Opened, Grows
  <2>5. VersionOK(R, m)
    <3>1. PICK few : few = {"SL303"}
      OBVIOUS
    <3>2. Opened(L, R, raw, few) /\ "SL301" \notin few
      BY <1>1, <1>4, <1>5, <1>8, <3>1, SoundOpened
    <3> QED BY <1>5, <3>2, VersionSame DEF Opened
  <2>6. Settles(L, X, m, raw, codes)
    <3>1. PICK rec : rec = raw.rec
      OBVIOUS
    <3>2. Lines[m].rec = rec /\ X = ProcessClaudeRecord(R, rec, raw)
      BY <1>2, <1>4, <3>1
    <3>3. IsSequence(rec.blocks)
      <4>1. m \in DOMAIN Lines
        BY DEF RecordAt
      <4> QED BY <1>0, <3>2, <4>1 DEF IsRecord
    <3>4. raw.line = m /\ {"SL301", "SL302"} \subseteq codes
      BY <1>4, <2>2
    <3>5. Settles(L, ProcessClaudeRecord(R, rec, raw), m, raw, codes)
      BY <1>0, <1>5, <1>8, <2>3, <2>5, <3>2, <3>3, <3>4, ClaudeRecordIs
    <3> QED BY <3>2, <3>5
  <2>7. LoadOK(NotedSince(L, X), m + 1)
    BY <1>0, <1>4, <1>6, <1>8, <2>2, <2>6, SoundLine DEF Settles
  <2> QED BY <1>3, <1>4, <1>8, <2>7
<1> QED BY <1>7, <1>8

-----------------------------------------------------------------------------
(* Canonical sessions: what is malformed is reported, the event stays.     *)

FieldNames == {"id", "parent", "kind", "ts", "actor", "payload", "seq"}

LEMMA FaultsCount ==
  ASSUME NEW faults
  PROVE  Cardinality(faults \cap FieldNames) \in Nat
<1>1. IsFiniteSet({}) /\ \A S, x : IsFiniteSet(S) => IsFiniteSet(S \cup {x})
  BY FS_EmptySet, FS_AddElement
<1>2. PICK a, b, c : a = {"id"} /\ b = {"id", "parent"} /\ c = {"id", "parent", "kind"}
  OBVIOUS
<1>3. PICK d, e, f : /\ d = {"id", "parent", "kind", "ts"} /\ e = {"id", "parent", "kind", "ts", "actor"}
                     /\ f = {"id", "parent", "kind", "ts", "actor", "payload"}
  OBVIOUS
<1>4. IsFiniteSet(a)
  <2>1. a = {} \cup {"id"}
    BY <1>2
  <2> QED BY <1>1, <2>1
<1>5. IsFiniteSet(b)
  <2>1. b = a \cup {"parent"}
    BY <1>2
  <2> QED BY <1>1, <1>4, <2>1
<1>6. IsFiniteSet(c)
  <2>1. c = b \cup {"kind"}
    BY <1>2
  <2> QED BY <1>1, <1>5, <2>1
<1>7. IsFiniteSet(d)
  <2>1. d = c \cup {"ts"}
    BY <1>2, <1>3
  <2> QED BY <1>1, <1>6, <2>1
<1>8. IsFiniteSet(e)
  <2>1. e = d \cup {"actor"}
    BY <1>3
  <2> QED BY <1>1, <1>7, <2>1
<1>9. IsFiniteSet(f)
  <2>1. f = e \cup {"payload"}
    BY <1>3
  <2> QED BY <1>1, <1>8, <2>1
<1>10. IsFiniteSet(FieldNames)
  <2>1. FieldNames = f \cup {"seq"}
    BY <1>3 DEF FieldNames
  <2> QED BY <1>1, <1>9, <2>1
<1>11. IsFiniteSet(faults \cap FieldNames)
  BY <1>10, FS_Subset
<1> QED BY <1>11, FS_CardinalityType

\* The findings of a record, whose lists are those of the load but for them.
Reported(K, M, raw, codes) ==
  /\ Grows(K, M, raw, codes) /\ M.events = K.events /\ M.unknown = K.unknown /\ SamePlace(K, M)

LEMMA ReportedOn ==
  ASSUME NEW K, NEW M, NEW N, NEW raw, NEW codes, IsLoad(K), Reported(K, M, raw, codes), Reported(M, N, raw, codes)
  PROVE  Reported(K, N, raw, codes)
<1>1. Grows(K, N, raw, codes)
  BY GrowsOn DEF Reported
<1> QED BY <1>1 DEF Reported, SamePlace

LEMMA ReportedWhen ==
  ASSUME NEW K, IsLoad(K), NEW condition, NEW codes, NEW code \in codes, NEW raw
  PROVE  Reported(K, ReportWhen(K, condition, code, raw), raw, codes)
<1>1. PICK M : M = ReportWhen(K, condition, code, raw)
  OBVIOUS
<1>2. CASE condition
  <2>1. M = Report(K, code, raw)
    BY <1>1, <1>2 DEF ReportWhen
  <2>2. Grows(K, M, raw, codes) /\ M.events = K.events /\ SamePlace(K, M) /\ M.unknown = K.unknown
    BY <2>1, ReportIs
  <2> QED BY <1>1, <2>2 DEF Reported
<1>3. CASE ~condition
  <2>1. M = K
    BY <1>1, <1>3 DEF ReportWhen
  <2>2. SameLists(K, K) /\ SamePlace(K, K)
    BY DEF SameLists, SamePlace
  <2>3. Grows(K, M, raw, codes)
    BY <2>1, <2>2, QuietGrows
  <2> QED BY <1>1, <2>1, <2>2, <2>3 DEF Reported, SameLists
<1> QED BY <1>2, <1>3

LEMMA FieldsReported ==
  ASSUME NEW K, IsLoad(K), NEW rec, NEW raw, NEW codes, {"SL001", "SL302"} \subseteq codes
  PROVE  Reported(K, FieldFindings(K, rec, raw), raw, codes)
<1>1. PICK n : n = Cardinality(rec.faults \cap FieldNames)
  OBVIOUS
<1>2. n \in Nat
  <2>1. PICK faults : faults = rec.faults
    OBVIOUS
  <2> QED BY <1>1, <2>1, FaultsCount
<1>3. PICK fs : fs = [k \in 1..n |-> Finding("SL001", raw)]
  OBVIOUS
<1>4. PICK N : N = [K EXCEPT !.findings = @ \o fs]
  OBVIOUS
<1>5. PICK M : M = ReportWhen(N, rec.critical, "SL302", raw)
  OBVIOUS
<1>6. FieldFindings(K, rec, raw) = M
  <2>1. Cardinality(rec.faults \cap {"id", "parent", "kind", "ts", "actor", "payload", "seq"}) = n
    BY <1>1 DEF Cardinality, FieldNames
  <2> QED BY <1>3, <1>4, <1>5, <2>1 DEF FieldFindings
<1>7. Reported(K, N, raw, codes)
  <2>1. fs = [k \in 1..n |-> fs[k]] /\ \A k \in 1..n : fs[k] = Finding("SL001", raw)
    BY <1>3
  <2>2. IsSequence(fs) /\ Len(fs) = n
    BY <1>2, <2>1, Listed
  <2>3. \A k \in 1..Len(fs) : \E c \in codes : fs[k] = Finding(c, raw)
    BY <2>1, <2>2
  <2>4. MoreFindings(K, [K EXCEPT !.findings = @ \o fs], fs, raw, codes)
    BY <2>2, <2>3, FindingsJoin
  <2> QED BY <1>4, <2>4 DEF MoreFindings, Reported
<1>8. Reported(N, M, raw, codes)
  <2>1. IsLoad(N)
    BY <1>7 DEF Reported, Grows
  <2>2. PICK code \in codes : code = "SL302"
    OBVIOUS
  <2>3. M = ReportWhen(N, rec.critical, code, raw)
    BY <1>5, <2>2
  <2> QED BY <2>1, <2>3, ReportedWhen
<1>9. Reported(K, M, raw, codes)
  BY <1>7, <1>8, ReportedOn
<1> QED BY <1>6, <1>9

\* One record gives one event.
Parsed(K, X, raw, codes) ==
  /\ Grows(K, X, raw, codes) /\ SamePlace(K, X) /\ X.unknown = K.unknown
  /\ X.events = Append(K.events, X.events[Len(K.events) + 1])
  /\ X.events[Len(K.events) + 1].line = raw.line

LEMMA ParsedIs ==
  ASSUME NEW K, IsLoad(K), NEW rec, NEW index, NEW raw, NEW codes, {"SL001", "SL302"} \subseteq codes
  PROVE  Parsed(K, ParseRecord(K, rec, index, raw), raw, codes)
<1>1. PICK S : S = ObserveSignature(K, rec.foreign, raw)
  OBVIOUS
<1>2. PICK C : C = FieldFindings(S, rec, raw)
  OBVIOUS
<1>3. PICK id, parent, kind : /\ id = IF "id" \in rec.faults THEN MissingId(index) ELSE rec.id
                              /\ parent = IF "parent" \in rec.faults THEN None ELSE rec.parent
                              /\ kind = IF "kind" \in rec.faults THEN "unknown" ELSE rec.class
  OBVIOUS
<1>4. PICK e : e = Event(id, parent, kind, rec.corr, raw, "id" \notin rec.faults)
  OBVIOUS
<1>5. ParseRecord(K, rec, index, raw) = Emit(C, e)
  BY <1>1, <1>2, <1>3, <1>4 DEF ParseRecord
<1>6. IsLoad(S) /\ SameLists(K, S) /\ SamePlace(K, S)
  BY <1>1, SignatureIs
<1>7. Reported(K, S, raw, codes)
  BY <1>6, QuietGrows DEF Reported, SameLists
<1>8. Reported(K, C, raw, codes)
  <2>1. Reported(S, C, raw, codes)
    BY <1>2, <1>6, FieldsReported
  <2> QED BY <1>7, <2>1, ReportedOn
<1>9. PICK X : X = Emit(C, e)
  OBVIOUS
<1>10. IsLoad(C) /\ Grows(K, C, raw, codes) /\ C.events = K.events /\ SamePlace(K, C) /\ C.unknown = K.unknown
  BY <1>8 DEF Reported, Grows
<1>11. e.line = raw.line /\ e.offset = raw.offset
  BY <1>4 DEF Event
<1>12. /\ Grows(C, X, raw, codes) /\ SamePlace(C, X) /\ X.unknown = C.unknown
       /\ X.events = Append(C.events, e) /\ Len(X.events) = Len(C.events) + 1 /\ X.events[Len(X.events)] = e
  <2>1. Emits(C, X, e, raw, codes)
    BY <1>9, <1>10, <1>11, EmitIs
  <2> QED BY <2>1 DEF Emits
<1>13. Grows(K, X, raw, codes) /\ SamePlace(K, X)
  BY <1>10, <1>12, GrowsOn DEF SamePlace
<1>14. X.events = Append(K.events, e) /\ X.events[Len(K.events) + 1] = e
  BY <1>10, <1>12
<1>15. Parsed(K, X, raw, codes)
  BY <1>10, <1>11, <1>12, <1>13, <1>14 DEF Parsed
<1> QED BY <1>5, <1>9, <1>15

LEMMA HeaderReported ==
  ASSUME NEW K, IsLoad(K), NEW rec, NEW misfit, NEW raw, NEW codes,
         {"SL001", "SL301", "SL302"} \subseteq codes
  PROVE  Reported(K, ProcessHeader(K, rec, misfit, raw), raw, codes)
<1>1. PICK C : C = CheckVersion(K, rec.version, raw)
  OBVIOUS
<1>2. PICK S : S = ReportWhen(C, misfit, "SL001", raw)
  OBVIOUS
<1>21. PICK b : b = (S.unsupported \/ C.sl301)
  OBVIOUS
<1>22. PICK w : w = rec.writers
  OBVIOUS
<1>3. PICK U : U = [S EXCEPT !.unsupported = b, !.writers = w]
  OBVIOUS
<1>4. PICK M : M = ReportWhen(U, rec.critical, "SL302", raw)
  OBVIOUS
<1>5. ProcessHeader(K, rec, misfit, raw) = M
  <2>1. [S EXCEPT !.unsupported = @ \/ C.sl301, !.writers = rec.writers] = U
    BY <1>21, <1>22, <1>3
  <2> QED BY <1>1, <1>2, <1>4, <2>1 DEF ProcessHeader
<1>6. Reported(K, C, raw, codes)
  <2>1. PICK version : version = rec.version
    OBVIOUS
  <2>2. Grows(K, C, raw, codes) /\ Checked(K, C, version)
    BY <1>1, <2>1, CheckVersionIs
  <2> QED BY <2>2 DEF Reported, Checked
<1>61. Reported(C, S, raw, codes)
  <2>1. PICK code \in codes : code = "SL001"
    OBVIOUS
  <2>2. S = ReportWhen(C, misfit, code, raw)
    BY <1>2, <2>1
  <2>3. IsLoad(C)
    BY <1>6 DEF Reported, Grows
  <2> QED BY <2>2, <2>3, ReportedWhen
<1>7. IsLoad(S)
  BY <1>61 DEF Reported, Grows
<1>8. IsLoad(U) /\ SameLists(S, U) /\ SamePlace(S, U)
  <2>1. DOMAIN U = LoadFields /\ SameLists(S, U) /\ SamePlace(S, U)
    BY <1>3, <1>7 DEF IsLoad, LoadFields, SameLists, SamePlace
  <2> QED BY <1>7, <2>1 DEF IsLoad, SameLists
<1>9. Reported(S, U, raw, codes)
  BY <1>7, <1>8, QuietGrows DEF Reported, SameLists
<1>10. Reported(U, M, raw, codes)
  <2>1. PICK code \in codes : code = "SL302"
    OBVIOUS
  <2>2. M = ReportWhen(U, rec.critical, code, raw)
    BY <1>4, <2>1
  <2> QED BY <1>8, <2>2, ReportedWhen
<1>11. Reported(K, M, raw, codes)
  <2>1. Reported(K, U, raw, codes)
    BY <1>6, <1>61, <1>9, ReportedOn
  <2> QED BY <1>10, <2>1, ReportedOn
<1> QED BY <1>5, <1>11

\* A canonical session stops where its header is refused, and nowhere else.
LEMMA CanonicalTurn ==
  ASSUME IsFile(Lines), format = "canonical", NEW m \in RecordAt, NEW raw, RawIs(raw, m),
         NEW L, LoadOK(L, m), NEW M, NEW codes, codes \subseteq LineCodes, Grows(L, M, raw, codes),
         Len(L.events) < Len(M.events) => ~Damaged(m), L.gap => M.gap,
         \/ \E k \in DOMAIN M.events : M.events[k].line = m
         \/ \E k \in DOMAIN M.findings : M.findings[k].line = m
         \/ Passed(M, m)
  PROVE  LoadOK(M, m + 1)
<1>1. WhereOK(L, m) /\ ToldOK(L, m)
  BY DEF LoadOK
<1>2. WhereOK(M, m + 1)
  BY <1>1, WhereTurn
<1>3. ToldOK(M, m + 1)
  <2>1. LeftBehind(L, M, m)
    BY DEF LeftBehind, NewTypes
  <2> QED BY <1>1, <2>1, ToldTurn
<1>4. DamageOK(M, m + 1) /\ TailOK(M, m + 1) /\ LinkOK(M, m + 1) /\ VersionOK(M, m + 1) /\ PlaceOK(M)
  BY DEF DamageOK, TailOK, LinkOK, VersionOK, PlaceOK
<1> QED BY <1>2, <1>3, <1>4 DEF LoadOK

LEMMA CanonicalKeeps ==
  ASSUME IsFile(Lines), format = "canonical", NEW m \in RecordAt, NEW raw, RawIs(raw, m),
         NEW L, LoadOK(L, m), NEW terminal \in BOOLEAN, Torn(m) => terminal
  PROVE  LoadOK(ProcessCanonicalLine(L, raw, terminal), m + 1)
<1>1. PICK R : R = [L EXCEPT !.findings = @ \o LineFindings(raw, terminal)]
  OBVIOUS
<1>2. PICK F : F = Report(L, "SL001", raw)
  OBVIOUS
<1>3. PICK G : G = [F EXCEPT !.gap = TRUE]
  OBVIOUS
<1>4. PICK H : H = ProcessHeader(L, raw.rec, FALSE, raw)
  OBVIOUS
<1>5. PICK X : X = ParseRecord(R, raw.rec, raw.ordinal - 2, raw)
  OBVIOUS
<1>6. PICK M : M = ProcessCanonicalLine(L, raw, terminal)
  OBVIOUS
<1>7. /\ raw.line = m /\ raw.rec = Lines[m].rec /\ (Torn(m) => Damaged(m)) /\ (IsDefect(raw) <=> Damaged(m))
      /\ DamageAt(m) = FindingAt(IF Torn(m) THEN "SL002" ELSE "SL001", m)
      /\ \A code : Finding(code, raw) = FindingAt(code, m)
      /\ IsDefect(raw) => LineFindings(raw, terminal) = <<DamageAt(m)>>
      /\ raw.ordinal = OrdinalAt(m) /\ (~Oversize(m) => raw.text = LineText(m))
  BY RawSays
<1>8. IsLoad(L) /\ Len(L.events) \in Nat /\ ~(Len(L.events) < Len(L.events))
  <2>1. IsLoad(L)
    BY DEF LoadOK, WhereOK
  <2> QED BY <2>1, LoadIs
<1>9. raw.ordinal = 1 \/ raw.ordinal > 1
  <2>1. m \in 1..Len(Lines)
    BY LineIs DEF RecordAt
  <2>2. OrdinalAt(m - 1) \in Nat /\ OrdinalAt(m) = OrdinalAt(m - 1) + 1
    BY <2>1, OrdinalIs
  <2> QED BY <1>7, <2>2
<1>10. ~Oversize(m)
  BY DEF Oversize, OverLimit
<1>11. PICK codes : codes = {"SL001", "SL002", "SL301", "SL302", "SL303"}
  OBVIOUS
<1>111. codes \subseteq LineCodes
  BY <1>11 DEF LineCodes
<1>12. ~(raw.ordinal = 1 /\ raw.ordinal > 1)
  OBVIOUS
<1>13. CASE raw.ordinal = 1 /\ HeaderRefused(raw)
  <2>1. M = G
    <3>1. M = [Report(L, "SL001", raw) EXCEPT !.gap = TRUE]
      BY <1>6, <1>13 DEF ProcessCanonicalLine
    <3>2. Report(L, "SL001", raw) = F
      BY <1>2
    <3> QED BY <1>3, <3>1, <3>2
  <2>2. Grows(L, F, raw, codes) /\ F.events = L.events /\ SamePlace(L, F)
        /\ Len(F.findings) = Len(L.findings) + 1 /\ F.findings[Len(F.findings)] = Finding("SL001", raw)
    <3>1. PICK code \in codes : code = "SL001"
      BY <1>11
    <3>2. F = Report(L, code, raw)
      BY <1>2, <3>1
    <3>3. LET P == Report(L, code, raw)
          IN /\ Grows(L, P, raw, codes) /\ P.events = L.events /\ SamePlace(L, P)
             /\ Len(P.findings) = Len(L.findings) + 1 /\ P.findings[Len(P.findings)] = Finding(code, raw)
      BY <1>8, ReportIs
    <3> QED BY <3>1, <3>2, <3>3
  <2>3. IsLoad(F)
    BY <2>2 DEF Grows
  <2>4. IsLoad(G) /\ SameLists(F, G) /\ G.gap = TRUE
    BY <1>3, <2>3, GapIs
  <2>5. Grows(L, G, raw, codes)
    <3>1. Grows(F, G, raw, codes)
      BY <2>3, <2>4, QuietGrows
    <3> QED BY <1>8, <2>2, <3>1, GrowsOn
  <2>6. \E k \in DOMAIN G.findings : G.findings[k].line = m
    <3>1. Len(F.findings) \in DOMAIN F.findings
      <4>1. /\ Len(L.findings) \in Nat /\ Len(F.findings) \in Nat /\ DOMAIN F.findings = 1..Len(F.findings)
        BY <1>8, <2>3, LoadIs
      <4> QED BY <2>2, <4>1
    <3>2. F.findings[Len(F.findings)].line = m
      BY <1>7, <2>2 DEF Finding
    <3> QED BY <2>4, <3>1, <3>2 DEF SameLists
  <2>7. G.events = L.events
    BY <2>2, <2>4 DEF SameLists
  <2>8. LoadOK(G, m + 1)
    BY <1>8, <2>4, <2>5, <2>6, <2>7, <1>111, CanonicalTurn
  <2> QED BY <1>6, <2>1, <2>8
<1>14. CASE raw.ordinal = 1 /\ ~HeaderRefused(raw)
  <2>1. M = H
    BY <1>4, <1>6, <1>12, <1>14 DEF ProcessCanonicalLine
  <2>2. Reported(L, H, raw, codes)
    <3>1. PICK rec : rec = raw.rec
      OBVIOUS
    <3>2. Reported(L, ProcessHeader(L, rec, FALSE, raw), raw, codes)
      BY <1>8, <1>11, HeaderReported
    <3> QED BY <1>4, <3>1, <3>2
  <2>3. Passed(H, m)
    BY <1>7, <1>10, <1>14 DEF Passed, HeaderRefused
  <2>4. Grows(L, H, raw, codes) /\ H.events = L.events /\ H.gap = L.gap
    BY <2>2 DEF Reported, SamePlace
  <2>5. LoadOK(H, m + 1)
    BY <1>8, <2>3, <2>4, <1>111, CanonicalTurn
  <2> QED BY <1>6, <2>1, <2>5
<1>15. CASE raw.ordinal > 1 /\ L.gap
  <2>1. M = L
    BY <1>6, <1>12, <1>15 DEF ProcessCanonicalLine
  <2>2. Grows(L, L, raw, codes)
    <3>1. SameLists(L, L)
      BY DEF SameLists
    <3> QED BY <1>8, <3>1, QuietGrows
  <2>3. Passed(L, m)
    BY <1>15 DEF Passed
  <2>4. LoadOK(L, m + 1)
    BY <1>8, <2>2, <2>3, <1>111, CanonicalTurn
  <2> QED BY <1>6, <2>1, <2>4
<1>16. CASE raw.ordinal > 1 /\ ~L.gap /\ IsDefect(raw)
  <2>1. M = R
    BY <1>1, <1>6, <1>12, <1>16 DEF ProcessCanonicalLine
  <2>2. Recorded(L, R, m, raw)
    <3>1. R = [L EXCEPT !.findings = @ \o <<DamageAt(m)>>]
      BY <1>1, <1>7, <1>16
    <3>2. PICK some : some = Damage
      OBVIOUS
    <3>3. DamageAt(m) \in {Finding(c, raw) : c \in some}
      BY <1>7, <3>2 DEF Damage
    <3> QED BY <1>8, <3>1, <3>2, <3>3, DamageReported
  <2>3. Grows(L, R, raw, codes)
    <3>1. Damage \subseteq codes
      BY <1>11 DEF Damage
    <3>2. PICK some : some = Damage
      OBVIOUS
    <3>3. Grows(L, R, raw, some)
      BY <2>2, <3>2 DEF Recorded
    <3> QED BY <3>1, <3>2, <3>3, MoreCodes
  <2>4. R.events = L.events /\ R.gap = L.gap
    BY <2>2 DEF Recorded, SamePlace
  <2>5. \E k \in DOMAIN R.findings : R.findings[k].line = m
    <3>1. LeftBehind(L, R, m)
      BY <1>8, <2>2, DamagedLeaves
    <3>2. /\ Len(R.findings) = Len(L.findings) + 1 /\ R.findings[Len(L.findings) + 1] = DamageAt(m)
          /\ DOMAIN R.findings = 1..(Len(L.findings) + 1) /\ Len(L.findings) \in Nat
      BY <1>8, <2>2, Appended, LoadIs DEF Recorded, IsLoad
    <3>3. DamageAt(m).line = m
      BY DEF DamageAt
    <3>4. Len(L.findings) + 1 \in DOMAIN R.findings
      BY <3>2
    <3> QED BY <3>2, <3>3, <3>4
  <2>6. LoadOK(R, m + 1)
    BY <1>8, <2>3, <2>4, <2>5, <1>111, CanonicalTurn
  <2> QED BY <1>6, <2>1, <2>6
<1>17. CASE raw.ordinal > 1 /\ ~L.gap /\ ~IsDefect(raw)
  <2>1. M = X
    BY <1>1, <1>5, <1>6, <1>12, <1>17 DEF ProcessCanonicalLine
  <2>2. Opened(L, R, raw, codes)
    <3>1. "SL303" \in codes
      BY <1>11
    <3> QED BY <1>1, <1>8, <1>17, <3>1, SoundOpened
  <2>3. IsLoad(R) /\ Grows(L, R, raw, codes) /\ R.events = L.events /\ R.gap = L.gap
    BY <2>2 DEF Opened, Grows, SamePlace
  <2>4. Parsed(R, X, raw, codes)
    <3>1. PICK rec, index : rec = raw.rec /\ index = raw.ordinal - 2
      OBVIOUS
    <3>2. {"SL001", "SL302"} \subseteq codes
      BY <1>11
    <3>3. Parsed(R, ParseRecord(R, rec, index, raw), raw, codes)
      BY <2>3, <3>2, ParsedIs
    <3> QED BY <1>5, <3>1, <3>3
  <2>5. Grows(L, X, raw, codes) /\ X.gap = L.gap
    <3>1. Grows(R, X, raw, codes) /\ X.gap = R.gap
      BY <2>4 DEF Parsed, SamePlace
    <3> QED BY <1>8, <2>3, <3>1, GrowsOn
  <2>6. \E k \in DOMAIN X.events : X.events[k].line = m
    <3>1. PICK e : e = X.events[Len(R.events) + 1]
      OBVIOUS
    <3>2. X.events = Append(L.events, e) /\ e.line = m
      BY <1>7, <2>3, <2>4, <3>1 DEF Parsed
    <3>3. DOMAIN X.events = 1..(Len(L.events) + 1) /\ X.events[Len(L.events) + 1] = e
      BY <1>8, <3>2, Appended DEF IsLoad
    <3>4. Len(L.events) + 1 \in DOMAIN X.events
      BY <1>8, <3>3
    <3> QED BY <3>2, <3>3, <3>4
  <2>7. LoadOK(X, m + 1)
    BY <1>7, <1>17, <2>5, <2>6, <1>111, CanonicalTurn
  <2> QED BY <1>6, <2>1, <2>7
<1> QED BY <1>9, <1>13, <1>14, <1>15, <1>16, <1>17

-----------------------------------------------------------------------------
(* Whatever the format, a line that is processed keeps the load sound.     *)

LEMMA ProcessKeeps ==
  ASSUME FileFits(Lines), format \in Formats, Streamed, NEW m \in RecordAt, NEW raw, RawIs(raw, m),
         NEW L, LoadOK(L, m), NEW terminal \in BOOLEAN, Torn(m) => terminal
  PROVE  LoadOK(Process(L, raw, terminal), m + 1)
<1>1. IsFile(Lines)
  BY DEF FileFits
<1>2. format \in {"events", "claude", "codex", "openai", "canonical"}
  BY DEF Formats, Live, Documents, Streamed
<1>3. CASE format = "events"
  <2>1. LoadOK(ProcessEventLine(L, raw, terminal), m + 1)
    BY <1>1, <1>3, EventKeeps
  <2> QED BY <1>3, <2>1 DEF Process
<1>4. CASE format = "claude"
  <2>1. LoadOK(ProcessClaudeLine(L, raw, terminal), m + 1)
    BY <1>4, ClaudeKeeps
  <2> QED BY <1>4, <2>1 DEF Process
<1>5. CASE format = "codex"
  <2>1. LoadOK(ProcessCodexLine(L, raw, terminal), m + 1)
    BY <1>1, <1>5, CodexKeeps
  <2> QED BY <1>5, <2>1 DEF Process
<1>6. CASE format = "openai"
  <2>1. LoadOK(ProcessOpenAILine(L, raw, terminal), m + 1)
    BY <1>1, <1>6, OpenAIKeeps
  <2> QED BY <1>6, <2>1 DEF Process
<1>7. CASE format = "canonical"
  <2>1. LoadOK(ProcessCanonicalLine(L, raw, terminal), m + 1)
    BY <1>1, <1>7, CanonicalKeeps
  <2> QED BY <1>7, <2>1 DEF Process
<1> QED BY <1>2, <1>3, <1>4, <1>5, <1>6, <1>7
=============================================================================

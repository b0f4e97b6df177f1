------------------------- MODULE RepairPipelineProofs -------------------------
(***************************************************************************)
(* What a repair leaves of a session, for every session, every policy and  *)
(* every part of a plan: only boundaries move, only redundant records go,  *)
(* and no event of a call that may have had effects is touched by a        *)
(* conservative repair.  Proved with verify and with what others do to the *)
(* files beside it.  The first part is about the steps one at a time: what *)
(* the planner has checked of the events a step names, and what is left of *)
(* them where the step is carried out.                                     *)
(***************************************************************************)
EXTENDS RepairVerify, FiniteSetTheorems, SequenceTheorems, TLAPS

\* The fold that lists the members of a set of positions.
Take(members, unused, seq, i) == IF i \in members THEN Append(seq, i) ELSE seq
Listing == INSTANCE FoldFacts WITH Op <- Take

-----------------------------------------------------------------------------
(* Least and greatest members.                                             *)

\* The largest of some positions, and the smallest, are among them.
LEMMA MaxIs ==
  ASSUME NEW n \in Nat, NEW T \in SUBSET (0..n), T # {}
  PROVE  Max(T) \in T /\ \A x \in T : x =< Max(T)
<1> DEFINE S == {m \in Nat : \A U \in SUBSET (0..m) : U # {} => \E x \in U : \A y \in U : y =< x}
<1>1. 0 \in S
  <2> SUFFICES ASSUME NEW U \in SUBSET (0..0), U # {} PROVE \E x \in U : \A y \in U : y =< x
    OBVIOUS
  <2>1. \A y \in U : y = 0
    OBVIOUS
  <2>2. PICK x \in U : TRUE
    OBVIOUS
  <2> QED BY <2>1, <2>2
<1>2. ASSUME NEW m \in Nat, m \in S PROVE m + 1 \in S
  <2> SUFFICES ASSUME NEW U \in SUBSET (0..(m + 1)), U # {} PROVE \E x \in U : \A y \in U : y =< x
    OBVIOUS
  <2>1. CASE m + 1 \in U
    BY <2>1
  <2>2. CASE m + 1 \notin U
    <3>1. U \in SUBSET (0..m)
      BY <2>2
    <3> QED BY <1>2, <3>1
  <2> QED BY <2>1, <2>2
<1>3. Nat \subseteq S
  <2> HIDE DEF S
  <2> QED BY <1>1, <1>2, Listing!NatSet
<1>4. PICK x \in T : \A y \in T : y =< x
  BY <1>3
<1> QED BY <1>4 DEF Max

LEMMA MinIs ==
  ASSUME NEW T \in SUBSET Nat, T # {}
  PROVE  Min(T) \in T /\ \A x \in T : Min(T) =< x
<1> DEFINE S == {m \in Nat : \A U \in SUBSET Nat : (\E z \in U : z =< m) => \E x \in U : \A y \in U : x =< y}
<1>1. 0 \in S
  OBVIOUS
<1>2. ASSUME NEW m \in Nat, m \in S PROVE m + 1 \in S
  <2> SUFFICES ASSUME NEW U \in SUBSET Nat, NEW z \in U, z =< m + 1 PROVE \E x \in U : \A y \in U : x =< y
    OBVIOUS
  <2>1. CASE \E w \in U : w =< m
    BY <1>2, <2>1
  <2>2. CASE ~ \E w \in U : w =< m
    <3>1. \A y \in U : z =< y
      BY <2>2
    <3> QED BY <3>1
  <2> QED BY <2>1, <2>2
<1>3. Nat \subseteq S
  <2> HIDE DEF S
  <2> QED BY <1>1, <1>2, Listing!NatSet
<1>4. PICK x \in T : \A y \in T : x =< y
  <2>1. PICK z \in T : z \in Nat
    OBVIOUS
  <2>2. z \in S
    BY <1>3, <2>1
  <2>3. z =< z
    BY <2>1
  <2> QED BY <2>2, <2>3
<1> QED BY <1>4 DEF Min

-----------------------------------------------------------------------------
(* Sequences, and the part of one that a set of positions picks.           *)

\* A sequence, whatever its elements are.
Sequence(s) == Len(s) \in Nat /\ DOMAIN s = 1..Len(s) /\ s = [i \in 1..Len(s) |-> s[i]]
\* Positions in order.
Rising(q) == \A i, j \in DOMAIN q : i < j => q[i] < q[j]

\* Members of Seq(S), and functions on an interval, are sequences.
LEMMA FromSeq ==
  ASSUME NEW S, NEW s \in Seq(S)
  PROVE  Sequence(s)
BY DEF Sequence

LEMMA FromFunction ==
  ASSUME NEW k \in Nat, NEW S, NEW s \in [1..k -> S]
  PROVE  Sequence(s) /\ Len(s) = k /\ DOMAIN s = 1..k /\ s \in Seq(S)
BY DEF Sequence

\* What Picked rests on: the positions come out in order, each of them.
LEMMA AscendingIs ==
  ASSUME NEW n \in Nat, NEW members \in SUBSET (1..n)
  PROVE  /\ Ascending(members) \in Seq(members) /\ Rising(Ascending(members))
         /\ \A x \in members : \E i \in DOMAIN Ascending(members) : Ascending(members)[i] = x
<1> DEFINE m == Max(members \union {0})
           base == [i \in 1..m |-> i]
<1>1. m \in Nat /\ \A x \in members : x =< m
  <2>1. members \union {0} \in SUBSET (0..n) /\ members \union {0} # {}
    OBVIOUS
  <2>2. Max(members \union {0}) \in members \union {0} /\ \A x \in members \union {0} : x =< Max(members \union {0})
    BY <2>1, MaxIs
  <2>3. \A x \in members \union {0} : x \in Nat
    OBVIOUS
  <2> QED BY <2>2, <2>3
<1>2. \A x \in members : x \in Nat
  OBVIOUS
<1>3. Ascending(members) = Listing!Fold(members, None, << >>, base)
  BY DEF Ascending, Take, Listing!Fold, FoldLeft, MapThenFoldSet, Listing!MapThenFoldSet,
         Max, Listing!Max
<1> HIDE DEF m
<1>4. base \in Seq(Nat) /\ Len(base) = m /\ DOMAIN base = 1..Len(base) /\ \A i \in 1..m : base[i] = i
  BY <1>1
<1> HIDE DEF base
<1>5. PICK at : Listing!Turns(members, None, << >>, base, at) /\ at[m] = Listing!Fold(members, None, << >>, base)
  BY <1>1, <1>4, Listing!FoldTurns
<1>6. at[0] = << >> /\ \A k \in Nat : k < m => at[k + 1] = Take(members, None, at[k], k + 1)
  BY <1>1, <1>4, <1>5 DEF Listing!Turns
<1> DEFINE S == {k \in Nat : k =< m => /\ at[k] \in Seq(members) /\ Rising(at[k])
                                       /\ \A i \in DOMAIN at[k] : at[k][i] =< k
                                       /\ \A x \in members : x =< k => \E i \in DOMAIN at[k] : at[k][i] = x}
<1>7. 0 \in S
  <2>1. << >> \in Seq(members) /\ Rising(<< >>) /\ DOMAIN << >> = {}
    BY DEF Rising
  <2>2. \A x \in members : ~ (x =< 0)
    OBVIOUS
  <2> QED BY <1>6, <2>1, <2>2
<1>8. ASSUME NEW k \in Nat, k \in S PROVE k + 1 \in S
  <2> SUFFICES ASSUME k + 1 =< m
               PROVE  /\ at[k + 1] \in Seq(members) /\ Rising(at[k + 1])
                      /\ \A i \in DOMAIN at[k + 1] : at[k + 1][i] =< k + 1
                      /\ \A x \in members : x =< k + 1 => \E i \in DOMAIN at[k + 1] : at[k + 1][i] = x
    OBVIOUS
  <2> DEFINE q == at[k]
             a == at[k + 1]
  <2>1. k < m /\ a = Take(members, None, q, k + 1)
    BY <1>1, <1>6
  <2>2. /\ q \in Seq(members) /\ Rising(q) /\ \A i \in DOMAIN q : q[i] =< k
        /\ \A x \in members : x =< k => \E i \in DOMAIN q : q[i] = x
    BY <1>1, <1>8, <2>1
  <2> HIDE DEF q, a
  <2>3. CASE k + 1 \in members
    <3>1. a = Append(q, k + 1)
      BY <2>1, <2>3 DEF Take
    <3>2. /\ a \in Seq(members) /\ Len(q) \in Nat /\ DOMAIN q = 1..Len(q) /\ DOMAIN a = 1..(Len(q) + 1)
          /\ \A i \in DOMAIN q : a[i] = q[i] /\ q[i] \in members
          /\ a[Len(q) + 1] = k + 1
      BY <2>2, <2>3, <3>1
    <3>3. \A i \in DOMAIN a : i \in DOMAIN q \/ i = Len(q) + 1
      BY <3>2
    <3>4. \A i \in DOMAIN q : a[i] \in Nat /\ a[i] =< k /\ a[i] < k + 1
      <4>1. \A i \in DOMAIN q : q[i] \in Nat
        BY <1>2, <3>2
      <4> QED BY <2>2, <3>2, <4>1
    <3>5. Rising(a)
      <4> SUFFICES ASSUME NEW i \in DOMAIN a, NEW j \in DOMAIN a, i < j PROVE a[i] < a[j]
        BY DEF Rising
      <4>1. i \in DOMAIN q
        BY <3>2, <3>3
      <4> QED BY <2>2, <3>2, <3>3, <3>4, <4>1 DEF Rising
    <3>6. \A i \in DOMAIN a : a[i] =< k + 1
      BY <3>2, <3>3, <3>4
    <3>7. ASSUME NEW x \in members, x =< k + 1 PROVE \E i \in DOMAIN a : a[i] = x
      <4>1. x =< k \/ x = k + 1
        BY <3>7
      <4> QED BY <2>2, <3>2, <4>1
    <3> QED BY <3>2, <3>5, <3>6, <3>7 DEF a
  <2>4. CASE k + 1 \notin members
    <3>1. a = q
      BY <2>1, <2>4 DEF Take
    <3>2. \A x \in members : x =< k + 1 => x =< k
      BY <2>4
    <3>3. \A i \in DOMAIN q : q[i] =< k + 1
      <4>1. \A i \in DOMAIN q : q[i] \in members
        BY <2>2
      <4>2. \A i \in DOMAIN q : q[i] \in Nat /\ q[i] =< k
        BY <1>2, <2>2, <4>1
      <4> QED BY <4>2
    <3> QED BY <2>2, <3>1, <3>2, <3>3 DEF a
  <2> QED BY <2>3, <2>4
<1>9. m \in S
  <2> HIDE DEF S
  <2> QED BY <1>1, <1>7, <1>8, Listing!NatSet
<1> QED BY <1>1, <1>3, <1>5, <1>9

\* The events at some positions, in their order.
LEMMA PickedIs ==
  ASSUME NEW s, Sequence(s), NEW P \in SUBSET DOMAIN s
  PROVE  \E m : /\ Sequence(m) /\ Rising(m) /\ \A i \in DOMAIN m : m[i] \in P
                /\ \A x \in P : \E i \in DOMAIN m : m[i] = x
                /\ Sequence(Picked(s, P)) /\ DOMAIN Picked(s, P) = DOMAIN m
                /\ \A i \in DOMAIN m : Picked(s, P)[i] = s[m[i]]
<1> DEFINE m == Ascending(P)
<1>1. Len(s) \in Nat /\ P \in SUBSET (1..Len(s))
  BY DEF Sequence
<1>2. m \in Seq(P) /\ Rising(m) /\ \A x \in P : \E i \in DOMAIN m : m[i] = x
  BY <1>1, AscendingIs
<1>3. Picked(s, P) = [i \in DOMAIN m |-> s[m[i]]]
  BY DEF Picked
<1> HIDE DEF m
<1>4. Sequence(m) /\ \A i \in DOMAIN m : m[i] \in P
  BY <1>2, FromSeq
<1>5. Sequence(Picked(s, P))
  <2> DEFINE T == {s[m[i]] : i \in DOMAIN m}
  <2>1. Picked(s, P) \in [1..Len(m) -> T] /\ Len(m) \in Nat
    BY <1>3, <1>4 DEF Sequence
  <2> HIDE DEF T
  <2> QED BY <2>1, FromFunction
<1> QED BY <1>2, <1>3, <1>4, <1>5

\* Moving the element at b to e, which comes after it.
LEMMA MovedIs ==
  ASSUME NEW s, Sequence(s), NEW b \in DOMAIN s, NEW e \in DOMAIN s, b < e
  PROVE  LET v == InsertAt(RemoveAt(s, b), e, s[b])
         IN /\ Sequence(v) /\ DOMAIN v = DOMAIN s
            /\ \A i \in DOMAIN s : v[i] = IF i < b \/ e < i THEN s[i] ELSE IF i = e THEN s[b] ELSE s[i + 1]
<1> DEFINE T == {s[i] : i \in DOMAIN s}
           k == Len(s)
           r == RemoveAt(s, b)
           v == InsertAt(r, e, s[b])
<1>1. k \in Nat /\ DOMAIN s = 1..k /\ s \in [1..k -> T]
  BY DEF Sequence
<1>2. s \in Seq(T) /\ s[b] \in T
  BY <1>1, FromFunction
<1>3. b \in 1..k /\ e \in 1..k
  BY <1>1
<1> HIDE DEF T, k
<1>4. r \in Seq(T) /\ Len(r) = k - 1 /\ \A i \in 1..(k - 1) : r[i] = IF i < b THEN s[i] ELSE s[i + 1]
  <2> DEFINE x == SubSeq(s, 1, b - 1)
             y == SubSeq(s, b + 1, k)
  <2>1. Len(s) = k
    BY DEF k
  <2>2. x \in Seq(T) /\ Len(x) = b - 1 /\ \A i \in 1..(b - 1) : x[i] = s[i]
    BY <1>1, <1>2, <1>3, <2>1
  <2>3. y \in Seq(T) /\ Len(y) = k - b /\ \A i \in 1..(k - b) : y[i] = s[i + b]
    BY <1>1, <1>2, <1>3, <2>1
  <2>4. r = x \o y
    BY <2>1 DEF RemoveAt, r
  <2> HIDE DEF x, y, r
  <2>5. /\ r \in Seq(T) /\ Len(r) = (b - 1) + (k - b)
        /\ \A i \in 1..((b - 1) + (k - b)) : r[i] = IF i =< b - 1 THEN x[i] ELSE y[i - (b - 1)]
    <3>1. x \o y \in Seq(T) /\ Len(x \o y) = Len(x) + Len(y)
          /\ \A i \in 1..(Len(x) + Len(y)) : (x \o y)[i] = IF i =< Len(x) THEN x[i] ELSE y[i - Len(x)]
      BY <2>2, <2>3, ConcatProperties
    <3> QED BY <2>2, <2>3, <2>4, <3>1
  <2>6. ASSUME NEW i \in 1..(k - 1) PROVE r[i] = IF i < b THEN s[i] ELSE s[i + 1]
    <3>1. CASE i < b
      BY <1>1, <1>3, <2>2, <2>5, <3>1
    <3>2. CASE ~ (i < b)
      <4>1. r[i] = y[i - (b - 1)] /\ i - (b - 1) \in 1..(k - b)
        BY <1>1, <1>3, <2>5, <3>2
      <4>2. (i - (b - 1)) + b = i + 1
        BY <1>3
      <4> QED BY <2>3, <3>2, <4>1, <4>2
    <3> QED BY <3>1, <3>2
  <2> QED BY <1>1, <1>3, <2>5, <2>6
<1> HIDE DEF r
<1>5. /\ v \in Seq(T) /\ Len(v) = k
      /\ \A i \in 1..k : v[i] = IF i < e THEN r[i] ELSE IF i = e THEN s[b] ELSE r[i - 1]
  <2> DEFINE x == SubSeq(r, 1, e - 1)
             y == SubSeq(r, e, Len(r))
             c == <<s[b]>>
  <2>1. x \in Seq(T) /\ Len(x) = e - 1 /\ \A i \in 1..(e - 1) : x[i] = r[i]
    BY <1>1, <1>3, <1>4
  <2>2. y \in Seq(T) /\ Len(y) = k - e /\ \A i \in 1..(k - e) : y[i] = r[i + e - 1]
    BY SMTT(20), <1>1, <1>3, <1>4
  <2>3. c \in Seq(T) /\ Len(c) = 1 /\ c[1] = s[b]
    BY <1>2
  <2>4. v = x \o c \o y
    BY DEF InsertAt
  <2> DEFINE z == x \o c
  <2> HIDE DEF x, y, c, v
  <2>5. z \in Seq(T) /\ Len(z) = e /\ \A i \in 1..e : z[i] = IF i < e THEN x[i] ELSE s[b]
    <3>1. x \o c \in Seq(T) /\ Len(x \o c) = Len(x) + Len(c)
          /\ \A i \in 1..(Len(x) + Len(c)) : (x \o c)[i] = IF i =< Len(x) THEN x[i] ELSE c[i - Len(x)]
      BY <2>1, <2>3, ConcatProperties
    <3>2. Len(z) = (e - 1) + 1 /\ \A i \in 1..((e - 1) + 1) : z[i] = IF i =< e - 1 THEN x[i] ELSE c[i - (e - 1)]
      BY <2>1, <2>3, <3>1
    <3>3. \A i \in 1..e : ~ (i =< e - 1) => i = e /\ i - (e - 1) = 1
      BY <1>1, <1>3
    <3> QED BY <1>1, <1>3, <2>3, <3>1, <3>2, <3>3
  <2> HIDE DEF z
  <2>6. v = z \o y
    BY <2>4 DEF z
  <2>7. /\ v \in Seq(T) /\ Len(v) = e + (k - e)
        /\ \A i \in 1..(e + (k - e)) : v[i] = IF i =< e THEN z[i] ELSE y[i - e]
    <3>1. z \o y \in Seq(T) /\ Len(z \o y) = Len(z) + Len(y)
          /\ \A i \in 1..(Len(z) + Len(y)) : (z \o y)[i] = IF i =< Len(z) THEN z[i] ELSE y[i - Len(z)]
      BY <2>2, <2>5, ConcatProperties
    <3> QED BY <2>2, <2>5, <2>6, <3>1
  <2>8. ASSUME NEW i \in 1..k PROVE v[i] = IF i < e THEN r[i] ELSE IF i = e THEN s[b] ELSE r[i - 1]
    <3>1. CASE i =< e
      <4>1. i \in 1..e /\ v[i] = z[i]
        BY <1>1, <1>3, <2>7, <3>1
      <4>2. i < e => i \in 1..(e - 1)
        BY <1>3, <4>1
      <4> QED BY <1>3, <2>1, <2>5, <3>1, <4>1, <4>2
    <3>2. CASE i > e
      <4>1. v[i] = y[i - e] /\ i - e \in 1..(k - e)
        BY <1>1, <1>3, <2>7, <3>2
      <4>2. (i - e) + e - 1 = i - 1
        BY <1>3
      <4> QED BY <1>3, <2>2, <3>2, <4>1, <4>2
    <3> QED BY <1>3, <3>1, <3>2
  <2> QED BY <1>1, <1>3, <2>7, <2>8
<1> HIDE DEF v
<1>6. Sequence(v) /\ DOMAIN v = 1..k
  BY <1>5, FromSeq DEF Sequence
<1>7. ASSUME NEW i \in DOMAIN s
      PROVE  v[i] = IF i < b \/ e < i THEN s[i] ELSE IF i = e THEN s[b] ELSE s[i + 1]
  <2>1. CASE i < e
    <3>1. i \in 1..(k - 1) /\ i \in 1..k
      BY <1>1, <1>3, <2>1
    <3> QED BY <1>3, <1>4, <1>5, <2>1, <3>1
  <2>2. CASE i = e
    BY <1>3, <1>5, <2>2
  <2>3. CASE i > e
    <3>1. i - 1 \in 1..(k - 1) /\ i \in 1..k /\ ~ (i - 1 < b) /\ (i - 1) + 1 = i
      BY <1>1, <1>3, <2>3
    <3>2. v[i] = r[i - 1]
      BY <1>3, <1>5, <2>3, <3>1
    <3>3. r[i - 1] = s[i]
      BY <1>4, <3>1
    <3> QED BY <2>3, <3>2, <3>3
  <2> QED BY <1>1, <1>3, <2>1, <2>2, <2>3
<1> QED BY <1>1, <1>6, <1>7 DEF v, r

-----------------------------------------------------------------------------
(***************************************************************************)
(* Events, and sequences of some of the events of a session.               *)
(***************************************************************************)
\* An event has the fields of an event.
Fields(e) == e = [id |-> e.id, parent |-> e.parent, kind |-> e.kind, corr |-> e.corr, content |-> e.content,
                  effects |-> e.effects, origin |-> e.origin, joined |-> e.joined]

\* The same but for the parent and the origin.
Same(e, f) ==
  /\ Fields(e) /\ Fields(f)
  /\ e.id = f.id /\ e.kind = f.kind /\ e.corr = f.corr /\ e.content = f.content
  /\ e.effects = f.effects /\ e.joined = f.joined

\* A sequence of events.
Events(w) == Sequence(w) /\ \A i \in DOMAIN w : Fields(w[i])

\* Events of s, each once and with its position in s as its origin.
From(w, s) ==
  /\ Sequence(w)
  /\ \A i \in DOMAIN w : w[i].origin \in DOMAIN s /\ Same(w[i], s[w[i].origin])
  /\ \A i, j \in DOMAIN w : w[i].origin = w[j].origin => i = j

\* v is w without some events, m says where each of its events was.
Keeps(v, w, m) ==
  /\ Sequence(v) /\ Sequence(m) /\ Rising(m) /\ DOMAIN v = DOMAIN m
  /\ \A i \in DOMAIN m : m[i] \in DOMAIN w /\ v[i].origin = w[m[i]].origin /\ Same(v[i], w[m[i]])

\* The event at j came before the one at i.
Crossed(w, i, j) == i < j /\ w[j].origin < w[i].origin

\* Only boundaries have, and events of these spans.
CrossWithin(w, spans) ==
  \A i, j \in DOMAIN w :
     Crossed(w, i, j) => /\ w[j].kind = "compaction_boundary" /\ w[i].kind # "compaction_boundary"
                         /\ w[i].origin \in spans /\ w[j].origin \in spans

\* Positions, as the provers need them.
LEMMA Order ==
  ASSUME NEW w, Sequence(w)
  PROVE  /\ \A i \in DOMAIN w : i \in Nat /\ 1 =< i /\ i =< Len(w)
         /\ \A i \in Nat : 1 =< i /\ i =< Len(w) => i \in DOMAIN w
         /\ \A i, j \in DOMAIN w : i < j \/ j < i \/ i = j
         /\ Len(w) \in Nat
BY DEF Sequence

\* Events that stay keep their order, and what is known of them.
LEMMA KeepsOrder ==
  ASSUME NEW v, NEW w, NEW m, Sequence(w), Keeps(v, w, m), NEW i \in DOMAIN m, NEW j \in DOMAIN m
  PROVE  /\ i < j <=> m[i] < m[j]
         /\ i = j <=> m[i] = m[j]
<1>1. i \in Nat /\ j \in Nat /\ m[i] \in Nat /\ m[j] \in Nat
  BY Order DEF Keeps
<1>2. i < j => m[i] < m[j]
  BY DEF Keeps, Rising
<1>3. j < i => m[j] < m[i]
  BY DEF Keeps, Rising
<1> QED BY <1>1, <1>2, <1>3

LEMMA KeepsFrom ==
  ASSUME NEW v, NEW w, NEW m, NEW s, From(w, s), Keeps(v, w, m)
  PROVE  From(v, s)
<1>1. Sequence(v) /\ DOMAIN v = DOMAIN m
  BY DEF Keeps
<1>2. ASSUME NEW i \in DOMAIN v PROVE v[i].origin \in DOMAIN s /\ Same(v[i], s[v[i].origin])
  BY <1>1 DEF Keeps, From, Same
<1>3. ASSUME NEW i \in DOMAIN v, NEW j \in DOMAIN v, v[i].origin = v[j].origin PROVE i = j
  <2>1. m[i] \in DOMAIN w /\ m[j] \in DOMAIN w /\ v[i].origin = w[m[i]].origin /\ v[j].origin = w[m[j]].origin
    BY <1>1 DEF Keeps
  <2>2. m[i] = m[j]
    BY <1>3, <2>1 DEF From
  <2> QED BY <1>1, <2>2, KeepsOrder DEF From
<1> QED BY <1>1, <1>2, <1>3 DEF From

LEMMA KeepsCross ==
  ASSUME NEW v, NEW w, NEW m, NEW spans, Sequence(w), CrossWithin(w, spans), Keeps(v, w, m)
  PROVE  CrossWithin(v, spans)
<1> SUFFICES ASSUME NEW i \in DOMAIN v, NEW j \in DOMAIN v, Crossed(v, i, j)
             PROVE  /\ v[j].kind = "compaction_boundary" /\ v[i].kind # "compaction_boundary"
                    /\ v[i].origin \in spans /\ v[j].origin \in spans
  BY DEF CrossWithin
<1>1. /\ i \in DOMAIN m /\ j \in DOMAIN m /\ m[i] \in DOMAIN w /\ m[j] \in DOMAIN w
      /\ v[i].origin = w[m[i]].origin /\ v[j].origin = w[m[j]].origin
      /\ v[i].kind = w[m[i]].kind /\ v[j].kind = w[m[j]].kind
  BY DEF Keeps, Same
<1>2. m[i] < m[j]
  BY <1>1, KeepsOrder DEF Crossed
<1>3. Crossed(w, m[i], m[j])
  BY <1>1, <1>2 DEF Crossed
<1> QED BY <1>1, <1>3 DEF CrossWithin

\* An event is the same as itself.
LEMMA SameItself ==
  ASSUME NEW e, Fields(e)
  PROVE  Same(e, e)
BY DEF Same

\* u is w without the events at these positions.
Leaves(u, w, P, m) ==
  /\ Keeps(u, w, m)
  /\ \A i \in DOMAIN m : m[i] \notin P /\ u[i] = w[m[i]]
  /\ \A x \in DOMAIN w \ P : \E i \in DOMAIN m : m[i] = x

\* What Without leaves.
LEMMA WithoutIs ==
  ASSUME NEW w, Events(w), NEW P
  PROVE  \E m : Leaves(Without(w, P), w, P, m)
<1> DEFINE Q == DOMAIN w \ P
           u == Without(w, P)
<1>1. u = Picked(w, Q) /\ Q \in SUBSET DOMAIN w /\ Sequence(w)
  BY DEF Without, Events
<1> HIDE DEF Q, u
<1>2. PICK m : /\ Sequence(m) /\ Rising(m) /\ \A i \in DOMAIN m : m[i] \in Q
               /\ \A x \in Q : \E i \in DOMAIN m : m[i] = x
               /\ Sequence(Picked(w, Q)) /\ DOMAIN Picked(w, Q) = DOMAIN m
               /\ \A i \in DOMAIN m : Picked(w, Q)[i] = w[m[i]]
  BY <1>1, PickedIs
<1>3. \A i \in DOMAIN m : m[i] \in DOMAIN w /\ u[i] = w[m[i]] /\ Same(u[i], w[m[i]])
  BY <1>1, <1>2, SameItself DEF Events
<1>4. Keeps(u, w, m)
  BY <1>1, <1>2, <1>3 DEF Keeps
<1> QED BY <1>1, <1>2, <1>3, <1>4 DEF Q, u, Leaves

\* Dropping some events and relinking what hung below one id to another.
LEMMA RemovedIs ==
  ASSUME NEW w, Events(w), NEW P, NEW from, NEW to
  PROVE  LET v == Relinked(Without(w, P), from, to)
         IN \E m : /\ Keeps(v, w, m)
                   /\ \A i \in DOMAIN m : /\ m[i] \notin P
                                          /\ v[i].parent = IF w[m[i]].parent = from THEN to ELSE w[m[i]].parent
                   /\ \A x \in DOMAIN w \ P : \E i \in DOMAIN m : m[i] = x
<1> DEFINE u == Without(w, P)
           v == Relinked(u, from, to)
<1>0. PICK m : Leaves(u, w, P, m)
  BY WithoutIs
<1> HIDE DEF u
<1>1. /\ Keeps(u, w, m)
      /\ \A i \in DOMAIN m : m[i] \notin P /\ u[i] = w[m[i]]
      /\ \A x \in DOMAIN w \ P : \E i \in DOMAIN m : m[i] = x
  BY <1>0 DEF Leaves
<1>2. Sequence(u) /\ DOMAIN u = DOMAIN m /\ \A i \in DOMAIN m : m[i] \in DOMAIN w
  BY <1>1 DEF Keeps
<1>3. v = [i \in DOMAIN u |-> IF u[i].parent = from THEN [u[i] EXCEPT !.parent = to] ELSE u[i]]
  BY DEF Relinked
<1> HIDE DEF v
<1>4. Sequence(v) /\ DOMAIN v = DOMAIN m
  <2> DEFINE T == {v[i] : i \in DOMAIN u}
  <2>1. v \in [1..Len(u) -> T] /\ Len(u) \in Nat
    BY <1>2, <1>3 DEF Sequence
  <2> HIDE DEF T
  <2> QED BY <1>2, <1>3, <2>1, FromFunction
<1>5. ASSUME NEW i \in DOMAIN m
      PROVE  /\ v[i].origin = w[m[i]].origin /\ Same(v[i], w[m[i]])
             /\ v[i].parent = IF w[m[i]].parent = from THEN to ELSE w[m[i]].parent
  <2> DEFINE e == v[i]
             f == w[m[i]]
  <2>1. Fields(f) /\ u[i] = f
    BY <1>1, <1>2 DEF Events
  <2>2. e = IF f.parent = from THEN [f EXCEPT !.parent = to] ELSE f
    BY <1>2, <1>3, <2>1
  <2> HIDE DEF e, f
  <2>3. e.origin = f.origin /\ Same(e, f) /\ e.parent = IF f.parent = from THEN to ELSE f.parent
    <3>1. CASE f.parent = from
      <4>1. e = [id |-> f.id, parent |-> to, kind |-> f.kind, corr |-> f.corr, content |-> f.content,
                 effects |-> f.effects, origin |-> f.origin, joined |-> f.joined]
        BY <2>1, <2>2, <3>1 DEF Fields
      <4> QED BY <2>1, <3>1, <4>1 DEF Same, Fields
    <3>2. CASE f.parent # from
      BY <2>1, <2>2, <3>2 DEF Same
    <3> QED BY <3>1, <3>2
  <2> QED BY <2>3 DEF e, f
<1>6. Keeps(v, w, m)
  BY <1>1, <1>4, <1>5 DEF Keeps
<1> QED BY <1>1, <1>5, <1>6 DEF u, v

\* The first events only.
LEMMA CutIs ==
  ASSUME NEW w, Events(w), NEW n \in Nat, n =< Len(w)
  PROVE  \E m : Keeps(SubSeq(w, 1, n), w, m)
<1> DEFINE T == {w[i] : i \in DOMAIN w}
           v == SubSeq(w, 1, n)
           m == [i \in 1..n |-> i]
<1>1. Len(w) \in Nat /\ DOMAIN w = 1..Len(w) /\ w \in [1..Len(w) -> T]
  BY DEF Events, Sequence
<1>2. w \in Seq(T)
  BY <1>1, FromFunction
<1> HIDE DEF T
<1>3. v \in Seq(T) /\ Len(v) = n /\ \A i \in 1..n : v[i] = w[i]
  BY <1>1, <1>2
<1>4. m \in [1..n -> Nat] /\ \A i \in 1..n : m[i] = i
  OBVIOUS
<1> HIDE DEF v, m
<1>5. Sequence(v) /\ DOMAIN v = 1..n
  BY <1>3, FromSeq
<1>6. Sequence(m) /\ DOMAIN m = 1..n /\ Rising(m)
  BY <1>4, FromFunction DEF Rising
<1>7. \A i \in 1..n : m[i] \in DOMAIN w /\ v[i] = w[m[i]]
  BY <1>1, <1>3, <1>4
<1>8. \A i \in 1..n : Same(v[i], w[m[i]])
  BY <1>7, SameItself DEF Events
<1>9. Keeps(v, w, m)
  BY <1>5, <1>6, <1>7, <1>8 DEF Keeps
<1> QED BY <1>9 DEF v

-----------------------------------------------------------------------------
(***************************************************************************)
(* The reunion: a boundary goes to the end of the pair it split.           *)
(***************************************************************************)
\* Where the event now at i was before the one at b went to e.
Before(i, b, e) == IF i < b \/ e < i THEN i ELSE IF i = e THEN b ELSE i + 1

\* v is w with the event at b moved to e.
Moved(v, w, b, e) ==
  /\ Sequence(v) /\ Sequence(w) /\ DOMAIN v = DOMAIN w
  /\ b \in DOMAIN w /\ e \in DOMAIN w /\ b < e
  /\ \A i \in DOMAIN w : v[i] = w[Before(i, b, e)]

\* Moving one event is a permutation that only this event and those it passes notice.
LEMMA BeforeIs ==
  ASSUME NEW v, NEW w, NEW b, NEW e, Moved(v, w, b, e)
  PROVE  /\ \A i \in DOMAIN w : Before(i, b, e) \in DOMAIN w
         /\ \A x \in DOMAIN w : \E i \in DOMAIN w : Before(i, b, e) = x
         /\ \A i, j \in DOMAIN w : Before(i, b, e) = Before(j, b, e) => i = j
         /\ \A i, j \in DOMAIN w : i < j => \/ Before(i, b, e) < Before(j, b, e)
                                            \/ Before(j, b, e) = b /\ b < Before(i, b, e) /\ Before(i, b, e) =< e
<1> DEFINE n == Len(w)
<1>1. DOMAIN w = 1..n /\ n \in Nat
  BY DEF Moved, Sequence
<1> HIDE DEF n
<1>2. b \in 1..n /\ e \in 1..n /\ b < e
  BY <1>1 DEF Moved
<1>3. \A i \in 1..n : Before(i, b, e) \in 1..n
  BY <1>1, <1>2 DEF Before
<1>4. ASSUME NEW x \in 1..n PROVE \E i \in 1..n : Before(i, b, e) = x
  <2>1. CASE x < b \/ e < x
    <3>1. Before(x, b, e) = x
      BY <2>1 DEF Before
    <3> QED BY <3>1
  <2>2. CASE x = b
    <3>1. Before(e, b, e) = x
      BY <1>1, <1>2, <2>2 DEF Before
    <3> QED BY <1>2, <3>1
  <2>3. CASE b < x /\ x =< e
    <3>1. x - 1 \in 1..n /\ Before(x - 1, b, e) = x
      BY <1>1, <1>2, <2>3 DEF Before
    <3> QED BY <3>1
  <2> QED BY <1>1, <1>2, <2>1, <2>2, <2>3
<1>5. \A i, j \in 1..n : Before(i, b, e) = Before(j, b, e) => i = j
  BY <1>1, <1>2 DEF Before
<1>6. \A i, j \in 1..n : i < j => \/ Before(i, b, e) < Before(j, b, e)
                                  \/ Before(j, b, e) = b /\ b < Before(i, b, e) /\ Before(i, b, e) =< e
  BY <1>1, <1>2 DEF Before
<1> QED BY <1>1, <1>3, <1>4, <1>5, <1>6

\* Positions are finitely many.
LEMMA FinitePositions ==
  ASSUME NEW s, Sequence(s), NEW S \in SUBSET DOMAIN s
  PROVE  IsFiniteSet(S)
<1>1. IsFiniteSet(1..Len(s)) /\ DOMAIN s = 1..Len(s)
  BY FS_Interval DEF Sequence
<1> QED BY <1>1, FS_Subset

\* The one position of a set.
LEMMA SingleIs ==
  ASSUME NEW s, Sequence(s), NEW S \in SUBSET DOMAIN s, Cardinality(S) = 1
  PROVE  \E x \in DOMAIN s : S = {x} /\ Min(S) = x
<1>1. IsFiniteSet(S)
  BY FinitePositions
<1>2. PICK x : S = {x}
  BY <1>1, FS_Singleton
<1>3. S \in SUBSET Nat /\ S # {}
  BY <1>2, Order
<1>4. Min(S) \in S
  BY <1>3, MinIs
<1> QED BY <1>2, <1>4

\* The two events of a clean pair, and what lies between them.
LEMMA SpanIs ==
  ASSUME NEW s, Sequence(s), NEW k \in CleanPairs(s)
  PROVE  \E lo, hi \in DOMAIN s : /\ lo < hi /\ Span(s, k) = lo..hi
                                  /\ Calls(s, k) \union Results(s, k) = {lo, hi}
                                  /\ Max(lo..hi) = hi
<1> DEFINE pair == Calls(s, k) \union Results(s, k)
<1>1. /\ Cardinality(Calls(s, k)) = 1 /\ Cardinality(Results(s, k)) = 1
      /\ Calls(s, k) \in SUBSET DOMAIN s /\ Results(s, k) \in SUBSET DOMAIN s
  BY DEF CleanPairs, Calls, Results, OfKind
<1>2. PICK c \in DOMAIN s : Calls(s, k) = {c}
  BY <1>1, SingleIs
<1>3. PICK r \in DOMAIN s : Results(s, k) = {r}
  BY <1>1, SingleIs
<1>4. c # r
  BY <1>2, <1>3 DEF Calls, Results, OfKind
<1>5. pair = {c, r} /\ c \in Nat /\ r \in Nat /\ c =< Len(s) /\ r =< Len(s) /\ Len(s) \in Nat
  BY <1>2, <1>3, Order
<1> HIDE DEF pair
<1>6. pair \in SUBSET Nat /\ pair \in SUBSET (0..Len(s)) /\ pair # {}
  BY <1>5
<1>7. Min(pair) \in pair /\ \A x \in pair : Min(pair) =< x
  BY <1>6, MinIs
<1>8. Max(pair) \in pair /\ \A x \in pair : x =< Max(pair)
  BY <1>5, <1>6, MaxIs
<1>9. PICK lo, hi \in DOMAIN s : lo = Min(pair) /\ hi = Max(pair)
  BY <1>5, <1>7, <1>8
<1>10. lo < hi /\ pair = {lo, hi} /\ lo \in Nat /\ hi \in Nat
  <2>1. \A x \in pair : x \in Nat /\ lo =< x /\ x =< hi
    BY <1>5, <1>7, <1>8, <1>9
  <2>2. lo \in pair /\ hi \in pair
    BY <1>7, <1>8, <1>9
  <2>3. lo # hi
    BY <1>4, <1>5, <2>1, <2>2
  <2> QED BY <1>5, <2>1, <2>2, <2>3
<1>11. Max(lo..hi) = hi
  <2>1. lo..hi \in SUBSET (0..hi) /\ lo..hi # {} /\ hi \in lo..hi
    BY <1>10
  <2>2. Max(lo..hi) \in lo..hi /\ \A x \in lo..hi : x =< Max(lo..hi)
    BY <1>10, <2>1, MaxIs
  <2> QED BY <1>10, <2>1, <2>2
<1> QED BY <1>9, <1>10, <1>11 DEF Span, pair

\* A reunion moves a boundary of the pair past events of the pair only.  Positions may have
\* shifted since the step was planned: the pair is looked for in the events as they are.
LEMMA ReunitedIs ==
  ASSUME NEW w, NEW s, NEW spans, NEW k, Sequence(s), From(w, s), CrossWithin(w, spans),
         SplitOnce(w, k), k \in CleanPairs(s)
  PROVE  \E b, e : /\ Moved(Reunited(w, k), w, b, e)
                   /\ w[b].kind = "compaction_boundary"
                   /\ w[b].origin \in Span(s, k) \/ \E i \in DOMAIN w : Crossed(w, i, b)
                   /\ \A x \in DOMAIN w : b < x /\ x =< e =>
                        w[x].kind # "compaction_boundary" /\ w[x].origin \in Span(s, k)
                   /\ w[e].kind # "compaction_boundary" /\ w[e].corr = k
                   /\ \A x \in DOMAIN w : w[x].kind = w[e].kind /\ w[x].corr = k => x =< e
<1>1. Sequence(w) /\ k \in CleanPairs(w) /\ Cardinality(SplitBy(w, k)) = 1
  BY DEF From, SplitOnce
<1>2. PICK lo \in DOMAIN w, hi \in DOMAIN w : /\ lo < hi /\ Span(w, k) = lo..hi
                                              /\ Calls(w, k) \union Results(w, k) = {lo, hi}
                                              /\ Max(lo..hi) = hi
  BY <1>1, SpanIs
<1>3. PICK l \in DOMAIN s, h \in DOMAIN s : /\ l < h /\ Span(s, k) = l..h
                                            /\ Calls(s, k) \union Results(s, k) = {l, h}
  BY SpanIs
<1>4. SplitBy(w, k) = OfKind(w, "compaction_boundary") \intersect (lo..hi) /\ SplitBy(w, k) \in SUBSET DOMAIN w
  BY <1>2 DEF SplitBy, OfKind
<1>5. PICK b \in DOMAIN w : SplitBy(w, k) = {b} /\ Min(SplitBy(w, k)) = b
  BY <1>1, <1>4, SingleIs
<1>6. /\ \A i \in DOMAIN w : i \in Nat /\ w[i].origin \in Nat
      /\ \A i \in DOMAIN s : i \in Nat
      /\ \A i \in DOMAIN w : w[i].origin \in DOMAIN s /\ w[i].kind = s[w[i].origin].kind /\ w[i].corr = s[w[i].origin].corr
  BY <1>1, Order DEF From, Same
<1>7. /\ w[b].kind = "compaction_boundary" /\ b \in lo..hi
      /\ \A x \in DOMAIN w : x \in lo..hi /\ w[x].kind = "compaction_boundary" => x = b
  BY <1>4, <1>5 DEF OfKind
<1>8. \A x \in DOMAIN w : x \in {lo, hi} <=> w[x].kind \in {"tool_call", "tool_result"} /\ w[x].corr = k
  BY <1>2 DEF Calls, Results, OfKind
<1>9. \A x \in DOMAIN s : x \in {l, h} <=> s[x].kind \in {"tool_call", "tool_result"} /\ s[x].corr = k
  BY <1>3 DEF Calls, Results, OfKind
<1>10. lo < b /\ b < hi
  <2>1. b # lo /\ b # hi
    BY <1>7, <1>8
  <2> QED BY <1>6, <1>7, <2>1
<1>11. w[lo].origin = l /\ w[hi].origin = h
  <2>1. w[lo].origin \in {l, h} /\ w[hi].origin \in {l, h}
    BY <1>6, <1>8, <1>9
  <2>2. w[lo].origin # w[hi].origin
    BY <1>2, <1>6 DEF From
  <2>3. ~ Crossed(w, lo, hi)
    BY <1>8 DEF CrossWithin
  <2> QED BY <1>2, <1>3, <1>6, <2>1, <2>2, <2>3 DEF Crossed
<1>12. ASSUME NEW x \in DOMAIN w, b < x, x =< hi
       PROVE  w[x].kind # "compaction_boundary" /\ w[x].origin \in Span(s, k)
  <2>1. x \in lo..hi /\ x # b /\ lo < x
    BY <1>6, <1>10, <1>12
  <2>2. w[x].kind # "compaction_boundary"
    BY <1>7, <2>1
  <2>3. ~ Crossed(w, lo, x)
    BY <2>2 DEF CrossWithin
  <2>4. ~ Crossed(w, x, hi)
    BY <1>8 DEF CrossWithin
  <2>5. x < hi \/ x = hi
    BY <1>6, <1>12
  <2>6. l =< w[x].origin /\ w[x].origin =< h
    BY <1>3, <1>6, <1>11, <2>1, <2>3, <2>4, <2>5 DEF Crossed
  <2> QED BY <1>3, <1>6, <2>2, <2>6
<1>13. w[b].origin \in Span(s, k) \/ \E i \in DOMAIN w : Crossed(w, i, b)
  <2> SUFFICES ASSUME ~ Crossed(w, lo, b) PROVE w[b].origin \in Span(s, k)
    OBVIOUS
  <2>1. ~ Crossed(w, b, hi)
    BY <1>8 DEF CrossWithin
  <2> QED BY <1>3, <1>6, <1>10, <1>11, <2>1 DEF Crossed
<1>14. Reunited(w, k) = InsertAt(RemoveAt(w, b), hi, w[b])
  BY <1>2, <1>5 DEF Reunited
<1>15. Moved(Reunited(w, k), w, b, hi)
  BY <1>1, <1>10, <1>14, MovedIs DEF Moved, Before
<1>16. /\ w[hi].kind # "compaction_boundary" /\ w[hi].corr = k
       /\ \A x \in DOMAIN w : w[x].kind = w[hi].kind /\ w[x].corr = k => x =< hi
  BY <1>2, <1>6, <1>8
<1> QED BY <1>7, <1>12, <1>13, <1>15, <1>16

\* A boundary that moves so keeps the events, and crosses events of the pair only.
LEMMA MovedFrom ==
  ASSUME NEW v, NEW w, NEW b, NEW e, NEW s, From(w, s), Moved(v, w, b, e)
  PROVE  From(v, s)
<1>1. \A i \in DOMAIN v : Before(i, b, e) \in DOMAIN w /\ v[i] = w[Before(i, b, e)] /\ i \in DOMAIN w
  BY BeforeIs DEF Moved
<1>2. \A i, j \in DOMAIN v : v[i].origin = v[j].origin => i = j
  BY <1>1, BeforeIs DEF From
<1> QED BY <1>1, <1>2 DEF From, Moved

LEMMA MovedCross ==
  ASSUME NEW v, NEW w, NEW b, NEW e, NEW spans, NEW more, NEW span,
         Moved(v, w, b, e), CrossWithin(w, spans),
         \A x \in DOMAIN w : w[x].origin \in spans \/ w[x].origin \in span => w[x].origin \in more,
         w[b].kind = "compaction_boundary",
         w[b].origin \in span \/ \E i \in DOMAIN w : Crossed(w, i, b),
         \A x \in DOMAIN w : b < x /\ x =< e => w[x].kind # "compaction_boundary" /\ w[x].origin \in span
  PROVE  CrossWithin(v, more)
<1> SUFFICES ASSUME NEW i \in DOMAIN v, NEW j \in DOMAIN v, Crossed(v, i, j)
             PROVE  /\ v[j].kind = "compaction_boundary" /\ v[i].kind # "compaction_boundary"
                    /\ v[i].origin \in more /\ v[j].origin \in more
  BY DEF CrossWithin
<1> DEFINE x == Before(i, b, e)
           y == Before(j, b, e)
<1>1. /\ b \in DOMAIN w /\ x \in DOMAIN w /\ y \in DOMAIN w /\ v[i] = w[x] /\ v[j] = w[y]
      /\ x < y \/ (y = b /\ b < x /\ x =< e)
  BY BeforeIs DEF Moved, Crossed
<1> HIDE DEF x, y
<1>2. CASE x < y
  <2>1. Crossed(w, x, y)
    BY <1>1, <1>2 DEF Crossed
  <2> QED BY <1>1, <2>1 DEF CrossWithin
<1>3. CASE y = b /\ b < x /\ x =< e
  <2>1. w[b].origin \in more
    BY <1>1 DEF CrossWithin
  <2> QED BY <1>1, <1>3, <2>1
<1> QED BY <1>1, <1>2, <1>3

-----------------------------------------------------------------------------
(***************************************************************************)
(* What a step can be: there are finitely many, of findings whose code     *)
(* tells which check they are of.                                          *)
(***************************************************************************)
\* Where a finding or step may point.
Places(s) == {Min(S) : S \in SUBSET DOMAIN s} \union DOMAIN s \union {0}
Corrs(s) == {s[i].corr : i \in DOMAIN s} \union {None}
Listed(S) == SubSeq(Ascending(S), 1, Min({Len(Ascending(S)), MaxListed}))
Lists(s, lines) == {Listed(S) : S \in SUBSET DOMAIN s} \union {<<i>> : i \in DOMAIN lines} \union {<<>>}

Within(f, s, lines) == f.at \in Places(s) /\ f.corr \in Corrs(s) /\ f.list \in Lists(s, lines)

\* What the findings tell that conservative steps are planned for.
LEMMA DuplicateIs ==
  ASSUME NEW s, NEW f \in DuplicateIds(s)
  PROVE  \E at \in SUBSET DOMAIN s :
           /\ \E id : at = Occurrences(s, id)
           /\ Cardinality(at) > 1
           /\ f.code = "SL003" /\ f.at = Min(at) /\ f.corr = None /\ f.list = Listed(at) /\ f.count = Cardinality(at)
           /\ f.repair = "deterministic" => IdenticalAt(s, at)
<1>1. PICK id \in Ids(s) :
        LET at == Occurrences(s, id)
            same == IdenticalAt(s, at)
            listed == Ascending(at)
        IN /\ Cardinality(at) > 1
           /\ f = Finding("SL003", IF same THEN "warning" ELSE "error", IF same THEN "deterministic" ELSE "manual",
                          Min(at), None, SubSeq(listed, 1, Min({Len(listed), MaxListed})), Cardinality(at))
  BY DEF DuplicateIds
<1> DEFINE at == Occurrences(s, id)
<1>2. at \in SUBSET DOMAIN s
  BY DEF Occurrences
<1>3. f.code = "SL003" /\ f.at = Min(at) /\ f.corr = None /\ f.list = Listed(at) /\ f.count = Cardinality(at)
  BY <1>1 DEF Finding, Listed
<1>4. f.repair = "deterministic" => IdenticalAt(s, at)
  BY <1>1 DEF Finding
<1> QED BY <1>1, <1>2, <1>3, <1>4

LEMMA MultiResultIs ==
  ASSUME NEW s, NEW f \in MultiResults(s)
  PROVE  \E k \in Correlations(s) :
           /\ Cardinality(Results(s, k)) > 1
           /\ f.code = "SL104" /\ f.at = Min(Results(s, k)) /\ f.corr = k /\ f.list = <<>>
           /\ f.count = Cardinality(Results(s, k))
           /\ f.repair = "deterministic" => Cardinality({s[i].content : i \in Results(s, k)}) = 1
           /\ f = LET same == Cardinality({s[i].content : i \in Results(s, k)}) = 1
                  IN Finding("SL104", "error",
                             IF same /\ Cardinality(Calls(s, k)) = 1 THEN "deterministic" ELSE "manual",
                             Min(Results(s, k)), k, <<>>, Cardinality(Results(s, k)))
<1>1. PICK k \in Correlations(s) :
        /\ Cardinality(Results(s, k)) > 1
        /\ f = LET same == Cardinality({s[i].content : i \in Results(s, k)}) = 1
               IN Finding("SL104", "error",
                          IF same /\ Cardinality(Calls(s, k)) = 1 THEN "deterministic" ELSE "manual",
                          Min(Results(s, k)), k, <<>>, Cardinality(Results(s, k)))
  BY DEF MultiResults
<1>2. /\ f.code = "SL104" /\ f.at = Min(Results(s, k)) /\ f.corr = k /\ f.list = <<>>
      /\ f.count = Cardinality(Results(s, k))
  BY <1>1 DEF Finding
<1>3. f.repair = "deterministic" => Cardinality({s[i].content : i \in Results(s, k)}) = 1
  BY <1>1 DEF Finding
<1> QED BY <1>1, <1>2, <1>3

\* Every finding that is of no duplicate id and of no torn line.
Plain(f, s, code) == f.code = code /\ f.at \in Places(s) /\ f.corr \in Corrs(s) /\ f.list = <<>>

\* Where a finding points to.
LEMMA CorrelationIs ==
  ASSUME NEW s, NEW k \in Correlations(s)
  PROVE  k \in Corrs(s) /\ k # None
BY DEF Correlations, Corrs, Tools, OfKind

LEMMA PlaceIs ==
  ASSUME NEW s, NEW S \in SUBSET DOMAIN s
  PROVE  Min(S) \in Places(s) /\ \A i \in DOMAIN s : i \in Places(s) /\ s[i].corr \in Corrs(s)
BY DEF Places, Corrs

\* No other finding has the code of a conservative recipe.
LEMMA GraphFindings ==
  ASSUME NEW s, NEW f
  PROVE  /\ f \in MissingParents(s) => Plain(f, s, "SL004")
         /\ f \in ParentCycles(s) => Plain(f, s, "SL005")
         /\ f \in Disconnected(s) => Plain(f, s, "SL006")
         /\ f \in Heads(s) => Plain(f, s, "SL007")
<1>0. \A id : Occurrences(s, id) \in SUBSET DOMAIN s
  BY DEF Occurrences
<1>1. \A id : Min(Occurrences(s, id)) \in Places(s)
  BY <1>0, PlaceIs
<1>2. None \in Corrs(s)
  BY DEF Corrs
<1>3. f \in MissingParents(s) => Plain(f, s, "SL004")
  <2> SUFFICES ASSUME NEW id, f = Finding("SL004", "error", "manual", Min(Occurrences(s, id)), None, <<>>, 1)
               PROVE Plain(f, s, "SL004")
    BY DEF MissingParents
  <2> QED BY <1>1, <1>2 DEF Plain, Finding
<1>4. f \in ParentCycles(s) => Plain(f, s, "SL005")
  <2> SUFFICES ASSUME NEW ring, f = Finding("SL005", "fatal", "unsupported", Min(UNION {Occurrences(s, id) : id \in ring}), None, <<>>, 1)
               PROVE Plain(f, s, "SL005")
    BY DEF ParentCycles
  <2>1. UNION {Occurrences(s, id) : id \in ring} \in SUBSET DOMAIN s
    BY <1>0
  <2>2. Min(UNION {Occurrences(s, id) : id \in ring}) \in Places(s)
    BY <2>1, PlaceIs
  <2> QED BY <1>2, <2>2 DEF Plain, Finding
<1>5. f \in Disconnected(s) => Plain(f, s, "SL006")
  <2> SUFFICES ASSUME NEW b, f = Finding("SL006", "warning", "manual", Min(Occurrences(s, BranchRoot(s, b))), None, <<>>, Cardinality(b))
               PROVE Plain(f, s, "SL006")
    BY DEF Disconnected
  <2> QED BY <1>1, <1>2 DEF Plain, Finding
<1>6. f \in Heads(s) => Plain(f, s, "SL007")
  <2> SUFFICES ASSUME NEW id, NEW n, f = Finding("SL007", "warning", "manual", Min(Occurrences(s, id)), None, <<>>, n)
               PROVE Plain(f, s, "SL007")
    BY DEF Heads
  <2> QED BY <1>1, <1>2 DEF Plain, Finding
<1> QED BY <1>3, <1>4, <1>5, <1>6

LEMMA PairFindings ==
  ASSUME NEW s, Sequence(s), NEW f
  PROVE  /\ f \in Orphans(s) => Plain(f, s, "SL101")
         /\ f \in Dangling(s) => Plain(f, s, "SL102")
         /\ f \in ReusedCalls(s) => Plain(f, s, "SL103")
         /\ f \in MultiResults(s) => Plain(f, s, "SL104")
         /\ f \in Reversed(s) => Plain(f, s, "SL105")
         /\ f \in CrossBranch(s) => Plain(f, s, "SL106")
         /\ f \in Apart(s) => Plain(f, s, "SL107")
         /\ f \in CompactionSplits(s) => Plain(f, s, "SL108")
<1>1. \A k : Calls(s, k) \in SUBSET DOMAIN s /\ Results(s, k) \in SUBSET DOMAIN s /\ SplitBy(s, k) \in SUBSET DOMAIN s
  BY DEF Calls, Results, SplitBy, OfKind
<1>2. \A k : Min(Calls(s, k)) \in Places(s) /\ Min(Results(s, k)) \in Places(s) /\ Min(SplitBy(s, k)) \in Places(s)
  BY <1>1, PlaceIs
<1>3. \A k \in CleanPairs(s) : k \in Corrs(s)
  BY CorrelationIs DEF CleanPairs
<1>4. \A i \in DOMAIN s : i \in Places(s) /\ s[i].corr \in Corrs(s)
  BY PlaceIs
<1>5. f \in Orphans(s) => Plain(f, s, "SL101")
  <2> SUFFICES ASSUME NEW i \in DOMAIN s, f = Finding("SL101", "error", "manual", i, s[i].corr, <<>>, 1)
               PROVE Plain(f, s, "SL101")
    BY DEF Orphans, OfKind
  <2> QED BY <1>4 DEF Plain, Finding
<1>6. f \in Dangling(s) => Plain(f, s, "SL102")
  <2> SUFFICES ASSUME NEW i \in DOMAIN s, f = Finding("SL102", "error", "manual", i, s[i].corr, <<>>, 1)
               PROVE Plain(f, s, "SL102")
    BY DEF Dangling, OfKind
  <2> QED BY <1>4 DEF Plain, Finding
<1>7. f \in ReusedCalls(s) => Plain(f, s, "SL103")
  <2> SUFFICES ASSUME NEW k \in Correlations(s), f = Finding("SL103", "error", "manual", Min(Calls(s, k)), k, <<>>, Cardinality(Calls(s, k)))
               PROVE Plain(f, s, "SL103")
    BY DEF ReusedCalls
  <2>1. k \in Corrs(s)
    BY CorrelationIs
  <2> QED BY <1>2, <2>1 DEF Plain, Finding
<1>8. f \in MultiResults(s) => Plain(f, s, "SL104")
  <2> SUFFICES ASSUME f \in MultiResults(s) PROVE Plain(f, s, "SL104")
    OBVIOUS
  <2>1. PICK k \in Correlations(s) : f.code = "SL104" /\ f.at = Min(Results(s, k)) /\ f.corr = k /\ f.list = <<>>
    BY MultiResultIs
  <2>2. k \in Corrs(s)
    BY CorrelationIs
  <2> QED BY <1>2, <2>1, <2>2 DEF Plain
<1>9. f \in Reversed(s) => Plain(f, s, "SL105")
  <2> SUFFICES ASSUME NEW k \in CleanPairs(s), f = Finding("SL105", "error", "manual", Max(Span(s, k)), k, <<>>, 1)
               PROVE Plain(f, s, "SL105")
    BY DEF Reversed
  <2>1. Max(Span(s, k)) \in Places(s)
    BY <1>4, SpanIs
  <2> QED BY <1>3, <2>1 DEF Plain, Finding
<1>10. f \in CrossBranch(s) => Plain(f, s, "SL106")
  <2> SUFFICES ASSUME NEW k \in CleanPairs(s), f = Finding("SL106", "error", "manual", Min(Calls(s, k)), k, <<>>, 1)
               PROVE Plain(f, s, "SL106")
    BY DEF CrossBranch
  <2> QED BY <1>2, <1>3 DEF Plain, Finding
<1>11. f \in Apart(s) => Plain(f, s, "SL107")
  <2> SUFFICES ASSUME NEW k \in CleanPairs(s), NEW n, f = Finding("SL107", "warning", "manual", Min(Calls(s, k)), k, <<>>, n)
               PROVE Plain(f, s, "SL107")
    BY DEF Apart
  <2> QED BY <1>2, <1>3 DEF Plain, Finding
<1>12. f \in CompactionSplits(s) => Plain(f, s, "SL108")
  <2> SUFFICES ASSUME NEW k \in CleanPairs(s), NEW repair, NEW n,
                      f = Finding("SL108", "warning", repair, Min(SplitBy(s, k)), k, <<>>, n)
               PROVE Plain(f, s, "SL108")
    BY DEF CompactionSplits
  <2> QED BY <1>2, <1>3 DEF Plain, Finding
<1> QED BY <1>5, <1>6, <1>7, <1>8, <1>9, <1>10, <1>11, <1>12

LEMMA StateFindings ==
  ASSUME NEW s, NEW f, NEW capable
  PROVE  /\ f \in CheckpointGaps(s) => Plain(f, s, "SL201")
         /\ f \in Divergences(s) => Plain(f, s, "SL202")
         /\ f \in UnsafeContinuations(s, capable) => Plain(f, s, "SL203")
         /\ f \in CoverageClaims(s) => Plain(f, s, "SL205")
<1>1. None \in Corrs(s)
  BY DEF Corrs
<1>2. \A i \in DOMAIN s : i \in Places(s)
  BY PlaceIs
<1>3. f \in CheckpointGaps(s) => Plain(f, s, "SL201")
  <2> SUFFICES ASSUME NEW i \in DOMAIN s, f = Finding("SL201", "error", "manual", i, None, <<>>, 1) PROVE Plain(f, s, "SL201")
    BY DEF CheckpointGaps, Checkpoints, OfKind
  <2> QED BY <1>1, <1>2 DEF Plain, Finding
<1>4. f \in Divergences(s) => Plain(f, s, "SL202")
  <2> SUFFICES ASSUME NEW i \in DOMAIN s, f = Finding("SL202", "error", "manual", i, None, <<>>, 1) PROVE Plain(f, s, "SL202")
    BY DEF Divergences, Checkpoints, OfKind
  <2> QED BY <1>1, <1>2 DEF Plain, Finding
<1>5. f \in UnsafeContinuations(s, capable) => Plain(f, s, "SL203")
  <2> SUFFICES ASSUME NEW unsafe \in SUBSET DOMAIN s, f = Finding("SL203", "error", "manual", Min(unsafe), None, <<>>, 1)
               PROVE Plain(f, s, "SL203")
    BY DEF UnsafeContinuations, Tools, OfKind
  <2>1. Min(unsafe) \in Places(s)
    BY PlaceIs
  <2> QED BY <1>1, <2>1 DEF Plain, Finding
<1>6. f \in CoverageClaims(s) => Plain(f, s, "SL205")
  <2> SUFFICES ASSUME NEW i \in DOMAIN s, f = Finding("SL205", "warning", "manual", i, None, <<>>, 1) PROVE Plain(f, s, "SL205")
    BY DEF CoverageClaims, OfKind
  <2> QED BY <1>1, <1>2 DEF Plain, Finding
<1> QED BY <1>3, <1>4, <1>5, <1>6

LEMMA FindingIs ==
  ASSUME NEW lines, NEW format, NEW s, Sequence(s), NEW f \in Findings(s, format) \union Damage(lines)
  PROVE  /\ Within(f, s, lines)
         /\ f.code = "SL003" => f \in DuplicateIds(s)
         /\ f.code = "SL104" => f \in MultiResults(s)
         /\ f.code = "SL108" => f \in CompactionSplits(s)
<1>1. ASSUME NEW code, Plain(f, s, code) PROVE Within(f, s, lines)
  BY <1>1 DEF Plain, Within, Lists
<1>2. CASE f \in Damage(lines)
  <2> PICK i \in DOMAIN lines : f.code \in {"SL001", "SL002"} /\ f.at = 0 /\ f.corr = None /\ f.list = <<i>>
    BY <1>2 DEF Damage, TornLines, Finding
  <2>1. Within(f, s, lines)
    BY DEF Within, Places, Corrs, Lists
  <2> QED BY <2>1
<1>3. CASE f \in DuplicateIds(s)
  <2>1. PICK at \in SUBSET DOMAIN s : f.code = "SL003" /\ f.at = Min(at) /\ f.corr = None /\ f.list = Listed(at)
    BY <1>3, DuplicateIs
  <2>2. f.at \in Places(s) /\ f.corr \in Corrs(s) /\ f.list \in Lists(s, lines)
    BY <2>1, PlaceIs DEF Corrs, Lists
  <2> QED BY <1>3, <2>1, <2>2 DEF Within
<1>4. CASE f \in MultiResults(s)
  <2>1. Plain(f, s, "SL104")
    BY <1>4, PairFindings
  <2> QED BY <1>1, <1>4, <2>1 DEF Plain
<1>5. CASE f \in CompactionSplits(s)
  <2>1. Plain(f, s, "SL108")
    BY <1>5, PairFindings
  <2> QED BY <1>1, <1>5, <2>1 DEF Plain
<1>6. CASE \E code \in {"SL004", "SL005", "SL006", "SL007", "SL101", "SL102", "SL103", "SL105", "SL106", "SL107",
                        "SL201", "SL202", "SL203", "SL205"} : Plain(f, s, code)
  BY <1>1, <1>6 DEF Plain
<1>70. PICK capable : capable = (format = "canonical")
  OBVIOUS
<1>71. Findings(s, format) = FindingsUnder(s, capable)
  BY <1>70, Zenon DEF Findings
<1>7. f \in Findings(s, format) => \/ f \in MissingParents(s) \/ f \in ParentCycles(s) \/ f \in Disconnected(s) \/ f \in Heads(s)
                           \/ f \in Orphans(s) \/ f \in Dangling(s) \/ f \in ReusedCalls(s) \/ f \in Reversed(s)
                           \/ f \in CrossBranch(s) \/ f \in Apart(s) \/ f \in CheckpointGaps(s) \/ f \in Divergences(s)
                           \/ f \in UnsafeContinuations(s, capable) \/ f \in CoverageClaims(s)
                           \/ f \in DuplicateIds(s) \/ f \in MultiResults(s) \/ f \in CompactionSplits(s)
  BY <1>71 DEF FindingsUnder
<1>8. f \in MissingParents(s) \/ f \in ParentCycles(s) \/ f \in Disconnected(s) \/ f \in Heads(s)
      => \E code \in {"SL004", "SL005", "SL006", "SL007"} : Plain(f, s, code)
  BY GraphFindings
<1>9. f \in Orphans(s) \/ f \in Dangling(s) \/ f \in ReusedCalls(s) \/ f \in Reversed(s) \/ f \in CrossBranch(s) \/ f \in Apart(s)
      => \E code \in {"SL101", "SL102", "SL103", "SL105", "SL106", "SL107"} : Plain(f, s, code)
  BY PairFindings
<1>10. f \in CheckpointGaps(s) \/ f \in Divergences(s) \/ f \in UnsafeContinuations(s, capable) \/ f \in CoverageClaims(s)
       => \E code \in {"SL201", "SL202", "SL203", "SL205"} : Plain(f, s, code)
  BY StateFindings
<1> QED BY <1>2, <1>3, <1>4, <1>5, <1>6, <1>7, <1>8, <1>9, <1>10

-----------------------------------------------------------------------------
\* Why a step was planned.
PlannedFor(step, f, lines, format, policy, ack) ==
  /\ f \in Findings(Decoded(lines), format) \union Damage(lines)
  /\ step = Step(RecipeFor(f, Decoded(lines), lines, policy, ack), f, Decoded(lines), lines)
  /\ RecipeFor(f, Decoded(lines), lines, policy, ack) # ""
  /\ Repairable(f, step, Decoded(lines), policy)

\* A step is the step of a finding.
LEMMA StepIs ==
  ASSUME NEW lines, NEW format, NEW policy, NEW ack, NEW step \in StepsFor(lines, format, policy, ack)
  PROVE  \E f : PlannedFor(step, f, lines, format, policy, ack)
<1> DEFINE found == AllFindings(lines, format)
           s == Decoded(lines)
           steps == StepsOfAll(found, s, lines, policy, ack)
<1>1. StepsFor(lines, format, policy, ack) = UNION {steps[f] : f \in DOMAIN steps}
  BY DEF StepsFor, Planned, PlanOf
<1>2. DOMAIN steps = found /\ \A f \in found : steps[f] = IF Refusing(found) THEN {} ELSE StepsOf(f, s, lines, policy, ack)
  BY DEF StepsOfAll
<1> HIDE DEF found, s, steps
<1>3. PICK f \in found : step \in StepsOf(f, s, lines, policy, ack)
  BY <1>1, <1>2
<1>4. /\ RecipeFor(f, s, lines, policy, ack) # ""
      /\ step = Step(RecipeFor(f, s, lines, policy, ack), f, s, lines)
      /\ Repairable(f, step, s, policy)
  BY <1>3 DEF StepsOf
<1> QED BY <1>3, <1>4 DEF PlannedFor, found, s, AllFindings

Names ==
  {"compaction-projection-reunion", "duplicate-projection-removal", "identical-duplicate-collapse",
   "identical-duplicate-drop", "orphan-result-drop", "side-effect-unknown-truncate", "torn-compaction-project",
   "torn-record-excision", "torn-terminal-record-discard", "unresolvable-branch-amputate", ""}

\* The recipes there are, "" being none.
LEMMA RecipeNames ==
  ASSUME NEW f, NEW s, NEW lines, NEW format, NEW policy, NEW ack
  PROVE  RecipeFor(f, s, lines, policy, ack) \in Names
<1>1. ConservativeRecipe(f, s) \in Names
  BY DEF ConservativeRecipe, Names
<1>2. SalvageRecipe(f) \in Names
  BY DEF SalvageRecipe, Names
<1>3. "" \in Names
  BY DEF Names
<1> QED BY <1>1, <1>2, <1>3 DEF RecipeFor

\* Images of finite sets, and sets of up to four elements, are finite.
LEMMA FiniteImage ==
  ASSUME NEW f, IsFiniteSet(DOMAIN f)
  PROVE  IsFiniteSet({f[x] : x \in DOMAIN f})
<1> DEFINE T == {f[x] : x \in DOMAIN f}
           g == [x \in DOMAIN f |-> f[x]]
<1>1. g \in Surjection(DOMAIN f, T)
  BY DEF Surjection
<1> HIDE DEF T, g
<1>2. IsFiniteSet(T)
  BY <1>1, FS_Surjection
<1> QED BY <1>2 DEF T

\* Of a file there are finitely many findings, so finitely many steps.
LEMMA FiniteWithin ==
  ASSUME NEW s, NEW lines, Sequence(s), Sequence(lines)
  PROVE  IsFiniteSet(Places(s)) /\ IsFiniteSet(Corrs(s)) /\ IsFiniteSet(Lists(s, lines))
<1>1. IsFiniteSet(DOMAIN s) /\ IsFiniteSet(DOMAIN lines)
  BY FinitePositions
<1>2. IsFiniteSet(SUBSET DOMAIN s)
  BY <1>1, FS_SUBSET
<1>3. IsFiniteSet({Min(S) : S \in SUBSET DOMAIN s})
  <2> DEFINE f == [S \in SUBSET DOMAIN s |-> Min(S)]
  <2>1. DOMAIN f = SUBSET DOMAIN s /\ \A S \in SUBSET DOMAIN s : f[S] = Min(S)
    OBVIOUS
  <2> HIDE DEF f
  <2>2. IsFiniteSet({f[S] : S \in DOMAIN f})
    BY <1>2, <2>1, FiniteImage
  <2>3. {f[S] : S \in DOMAIN f} = {Min(S) : S \in SUBSET DOMAIN s}
    BY <2>1
  <2> QED BY <2>2, <2>3
<1>4. IsFiniteSet({Listed(S) : S \in SUBSET DOMAIN s})
  <2> DEFINE f == [S \in SUBSET DOMAIN s |-> Listed(S)]
  <2>1. DOMAIN f = SUBSET DOMAIN s /\ \A S \in SUBSET DOMAIN s : f[S] = Listed(S)
    OBVIOUS
  <2> HIDE DEF f
  <2>2. IsFiniteSet({f[S] : S \in DOMAIN f})
    BY <1>2, <2>1, FiniteImage
  <2>3. {f[S] : S \in DOMAIN f} = {Listed(S) : S \in SUBSET DOMAIN s}
    BY <2>1
  <2> QED BY <2>2, <2>3
<1>5. IsFiniteSet({s[i].corr : i \in DOMAIN s})
  <2> DEFINE f == [i \in DOMAIN s |-> s[i].corr]
  <2>1. DOMAIN f = DOMAIN s /\ \A i \in DOMAIN s : f[i] = s[i].corr
    OBVIOUS
  <2> HIDE DEF f
  <2>2. IsFiniteSet({f[i] : i \in DOMAIN f})
    BY <1>1, <2>1, FiniteImage
  <2>3. {f[i] : i \in DOMAIN f} = {s[i].corr : i \in DOMAIN s}
    BY <2>1
  <2> QED BY <2>2, <2>3
<1>6. IsFiniteSet({<<i>> : i \in DOMAIN lines})
  <2> DEFINE f == [i \in DOMAIN lines |-> <<i>>]
  <2>1. DOMAIN f = DOMAIN lines /\ \A i \in DOMAIN lines : f[i] = <<i>>
    OBVIOUS
  <2> HIDE DEF f
  <2>2. IsFiniteSet({f[i] : i \in DOMAIN f})
    BY <1>1, <2>1, FiniteImage
  <2>3. {f[i] : i \in DOMAIN f} = {<<i>> : i \in DOMAIN lines}
    BY <2>1
  <2> QED BY <2>2, <2>3
<1>7. IsFiniteSet({0}) /\ IsFiniteSet({None}) /\ IsFiniteSet({<< >>})
  BY FS_Singleton
<1>8. IsFiniteSet({Min(S) : S \in SUBSET DOMAIN s} \union DOMAIN s)
  BY <1>1, <1>3, FS_Union
<1>9. IsFiniteSet({Listed(S) : S \in SUBSET DOMAIN s} \union {<<i>> : i \in DOMAIN lines})
  BY <1>4, <1>6, FS_Union
<1>10. IsFiniteSet(Places(s))
  BY <1>7, <1>8, FS_Union DEF Places
<1>11. IsFiniteSet(Corrs(s))
  BY <1>5, <1>7, FS_Union DEF Corrs
<1>12. IsFiniteSet(Lists(s, lines))
  BY <1>7, <1>9, FS_Union DEF Lists
<1> QED BY <1>10, <1>11, <1>12

LEMMA FewAreFinite == \A a, b, c, d : IsFiniteSet({a, b, c, d})
<1> TAKE a, b, c, d
<1>1. IsFiniteSet({a}) /\ IsFiniteSet({b}) /\ IsFiniteSet({c}) /\ IsFiniteSet({d})
  BY FS_Singleton
<1>2. IsFiniteSet({a} \union {b}) /\ IsFiniteSet({c} \union {d})
  BY <1>1, FS_Union
<1>3. IsFiniteSet(({a} \union {b}) \union ({c} \union {d}))
  BY <1>2, FS_Union
<1>4. ({a} \union {b}) \union ({c} \union {d}) = {a, b, c, d}
  OBVIOUS
<1> QED BY <1>3, <1>4

LEMMA StepsFinite ==
  ASSUME NEW lines, NEW format, NEW policy, NEW ack, Sequence(lines), Sequence(Decoded(lines))
  PROVE  IsFiniteSet(StepsFor(lines, format, policy, ack))
<1> DEFINE s == Decoded(lines)
           D == (Names \X Places(s)) \X (Corrs(s) \X Lists(s, lines))
           g == [x \in D |-> Step(x[1][1], [at |-> x[1][2], corr |-> x[2][1], list |-> x[2][2]], s, lines)]
           T == {g[x] : x \in DOMAIN g}
<1>1. IsFiniteSet(Names)
  <2> DEFINE A == {"compaction-projection-reunion", "duplicate-projection-removal", "identical-duplicate-collapse",
                   "identical-duplicate-drop"}
             B == {"orphan-result-drop", "side-effect-unknown-truncate", "torn-compaction-project",
                   "torn-record-excision"}
             C == {"torn-terminal-record-discard", "unresolvable-branch-amputate", "", "compaction-projection-reunion"}
  <2>1. IsFiniteSet(A) /\ IsFiniteSet(B) /\ IsFiniteSet(C)
    BY FewAreFinite
  <2>2. Names = (A \union B) \union C
    BY DEF Names
  <2> HIDE DEF A, B, C
  <2>3. IsFiniteSet(A \union B)
    BY <2>1, FS_Union
  <2> QED BY <2>1, <2>2, <2>3, FS_Union
<1>2. IsFiniteSet(D)
  <2>1. IsFiniteSet(Places(s)) /\ IsFiniteSet(Corrs(s)) /\ IsFiniteSet(Lists(s, lines))
    BY FiniteWithin
  <2> HIDE DEF s
  <2>2. IsFiniteSet(Names \X Places(s))
    BY <1>1, <2>1, FS_Product
  <2>3. IsFiniteSet(Corrs(s) \X Lists(s, lines))
    BY <2>1, FS_Product
  <2> QED BY <2>2, <2>3, FS_Product
<1> HIDE DEF s, D
<1>3. DOMAIN g = D
  OBVIOUS
<1>4. IsFiniteSet(T)
  <2> HIDE DEF g
  <2> QED BY <1>2, <1>3, FiniteImage
<1>5. ASSUME NEW step \in StepsFor(lines, format, policy, ack) PROVE step \in T
  <2>1. PICK f : PlannedFor(step, f, lines, format, policy, ack)
    BY StepIs
  <2> DEFINE r == RecipeFor(f, s, lines, policy, ack)
             h == [at |-> f.at, corr |-> f.corr, list |-> f.list]
             x == <<<<r, f.at>>, <<f.corr, f.list>>>>
  <2>2. f \in Findings(s, format) \union Damage(lines) /\ step = Step(r, f, s, lines)
    BY <2>1 DEF PlannedFor, s
  <2>3. Within(f, s, lines)
    BY <2>2, FindingIs DEF s
  <2>4. r \in Names
    BY RecipeNames
  <2>5. x \in D
    BY <2>3, <2>4 DEF D, Within
  <2>6. g[x] = Step(r, h, s, lines)
    <3>1. x[1][1] = r /\ x[1][2] = f.at /\ x[2][1] = f.corr /\ x[2][2] = f.list
      OBVIOUS
    <3> HIDE DEF x, r
    <3> QED BY <2>5, <3>1
  <2>7. Step(r, h, s, lines) = Step(r, f, s, lines)
    <3>1. h.at = f.at /\ h.corr = f.corr /\ h.list = f.list
      OBVIOUS
    <3> HIDE DEF h, r, x
    <3>2. LossOf(r, h, s) = LossOf(r, f, s)
      BY <3>1 DEF LossOf
    <3> QED BY <3>1, <3>2 DEF Step
  <2> HIDE DEF g, x, r, h
  <2> QED BY <1>3, <2>2, <2>5, <2>6, <2>7
<1> HIDE DEF T
<1>6. StepsFor(lines, format, policy, ack) \in SUBSET T
  BY <1>5
<1> QED BY <1>4, <1>6, FS_Subset

\* The order of a plan: each step once, none before one that precedes it.
LEMMA OrderIs ==
  ASSUME NEW S, IsFiniteSet(S), NEW order \in PlanOrders(S)
  PROVE  /\ Sequence(order)
         /\ \A i \in DOMAIN order : order[i] \in S
         /\ \A i, j \in DOMAIN order : i < j => order[i] # order[j] /\ ~ Precedes(order[j], order[i])
<1> DEFINE n == Cardinality(S)
<1>1. n \in Nat
  BY FS_CardinalityType
<1>2. order \in [1..n -> S] /\ \A i, j \in 1..n : i # j => order[i] # order[j]
  BY DEF PlanOrders, SetToSeqs
<1>3. \A i, j \in DOMAIN order : Precedes(order[i], order[j]) => i < j
  BY DEF PlanOrders
<1> HIDE DEF n
<1>4. Sequence(order) /\ DOMAIN order = 1..n
  BY <1>1, <1>2, FromFunction
<1>5. \A i, j \in 1..n : i < j => ~ (j < i) /\ i # j
  BY <1>1
<1> QED BY <1>2, <1>3, <1>4, <1>5

-----------------------------------------------------------------------------
(***************************************************************************)
(* What the planner knows of the events its conservative steps name.       *)
(***************************************************************************)
\* The same but for where they came from.
Alikes(e, f) ==
  /\ e.id = f.id /\ e.parent = f.parent /\ e.kind = f.kind /\ e.corr = f.corr
  /\ e.content = f.content /\ e.effects = f.effects

\* A step to collapse the duplicate after the event at hand.
Collapses(step, s) ==
  /\ step.at \in DOMAIN s /\ step.at + 1 \in DOMAIN s
  /\ Alike(s[step.at], s[step.at + 1]) /\ Alikes(s[step.at], s[step.at + 1])
  /\ {step.at, step.at + 1} \subseteq ToSet(step.list)

\* A step to drop all duplicates but the first.
Drops(step, s) ==
  /\ Sequence(step.list) /\ Rising(step.list) /\ 2 \in DOMAIN step.list
  /\ step.list[1] = step.at
  /\ \A i \in DOMAIN step.list : step.list[i] \in DOMAIN s /\ Alikes(s[step.at], s[step.list[i]])

\* A step to remove a result that repeats an earlier one of its call.
Projects(step, s) ==
  /\ step = [recipe |-> "duplicate-projection-removal", at |-> Min(Results(s, step.corr)), corr |-> step.corr,
             list |-> <<>>, line |-> 0, id |-> s[Min(Results(s, step.corr))].id, loss |-> 0]
  /\ step.corr # None
  /\ step.at \in Results(s, step.corr)
  /\ Results(s, step.corr) \ {step.at} # {}
  /\ \A i, j \in Results(s, step.corr) : s[i].content = s[j].content

\* Events with one body differ at most in where they came from.
LEMMA BodyIs ==
  ASSUME NEW e, NEW f, Fields(e), Fields(f), Body(e) = Body(f)
  PROVE  Alikes(e, f)
<1>1. ASSUME NEW x, Fields(x)
      PROVE  /\ Body(x).id = x.id /\ Body(x).parent = x.parent /\ Body(x).kind = x.kind /\ Body(x).corr = x.corr
             /\ Body(x).content = x.content /\ Body(x).effects = x.effects
  <2>1. x = [id |-> x.id, parent |-> x.parent, kind |-> x.kind, corr |-> x.corr, content |-> x.content,
             effects |-> x.effects, origin |-> x.origin, joined |-> x.joined]
    BY <1>1 DEF Fields
  <2>2. DOMAIN x = {"id", "parent", "kind", "corr", "content", "effects", "origin", "joined"}
    BY <2>1
  <2> QED BY <2>2 DEF Body
<1> QED BY <1>1 DEF Alikes

\* A set of two or more has another member beside each.
LEMMA TwoMembers ==
  ASSUME NEW S, Cardinality(S) > 1, IsFiniteSet(S), NEW x \in S
  PROVE  \E y \in S : y # x
<1> SUFFICES ASSUME \A y \in S : y = x PROVE FALSE
  OBVIOUS
<1>1. S = {x}
  OBVIOUS
<1>2. Cardinality(S) = 1
  BY <1>1, FS_Singleton
<1> QED BY <1>2

\* A duplicate finding lists the first of its events, in order.
LEMMA ListedIs ==
  ASSUME NEW s, Sequence(s), NEW at \in SUBSET DOMAIN s, Cardinality(at) > 1
  PROVE  /\ Sequence(Listed(at)) /\ Rising(Listed(at)) /\ 2 \in DOMAIN Listed(at) /\ 1 \in DOMAIN Listed(at)
         /\ Listed(at)[1] = Min(at) /\ Min(at) \in at
         /\ \A i \in DOMAIN Listed(at) : Listed(at)[i] \in at
<1> DEFINE q == Ascending(at)
           m == Min({Len(q), MaxListed})
<1>1. IsFiniteSet(at) /\ at \in SUBSET (1..Len(s)) /\ Len(s) \in Nat
  BY FinitePositions DEF Sequence
<1>2. q \in Seq(at) /\ Rising(q) /\ \A x \in at : \E i \in DOMAIN q : q[i] = x
  BY <1>1, AscendingIs
<1>3. Listed(at) = SubSeq(q, 1, m)
  BY DEF Listed
<1> HIDE DEF q
<1>4. at # {}
  <2> SUFFICES ASSUME at = {} PROVE FALSE
    OBVIOUS
  <2>1. Cardinality(at) = 0
    BY FS_EmptySet
  <2> QED BY <2>1
<1>5. at \in SUBSET Nat
  BY <1>1
<1>6. Min(at) \in at /\ \A x \in at : Min(at) =< x
  BY <1>4, <1>5, MinIs
<1>7. PICK y \in at : y # Min(at)
  BY <1>1, <1>6, TwoMembers
<1>8. Len(q) \in Nat /\ DOMAIN q = 1..Len(q) /\ \A i \in DOMAIN q : q[i] \in at
  BY <1>2
<1>9. PICK i \in DOMAIN q : q[i] = Min(at)
  BY <1>2, <1>6
<1>10. PICK j \in DOMAIN q : q[j] = y
  BY <1>2
<1>11. Len(q) >= 2
  BY <1>7, <1>8, <1>9, <1>10
<1>12. q[1] = Min(at)
  <2>1. 1 \in DOMAIN q
    BY <1>8, <1>11
  <2>2. i = 1 \/ q[1] < q[i]
    BY <1>2, <1>8, <1>9, <2>1 DEF Rising
  <2>3. Min(at) =< q[1] /\ q[1] \in Nat /\ Min(at) \in Nat
    BY <1>5, <1>6, <1>8, <2>1
  <2> QED BY <1>9, <2>2, <2>3
<1>13. m \in Nat /\ 2 =< m /\ m =< Len(q)
  <2>1. MaxListed \in Nat /\ MaxListed >= 2
    BY ChecksAssumption
  <2>2. {Len(q), MaxListed} \in SUBSET Nat /\ {Len(q), MaxListed} # {}
    BY <1>8, <2>1
  <2>3. m \in {Len(q), MaxListed} /\ \A x \in {Len(q), MaxListed} : m =< x
    BY <2>2, MinIs
  <2> HIDE DEF m
  <2> QED BY <1>8, <1>11, <2>1, <2>3
<1> HIDE DEF m
<1>14. /\ SubSeq(q, 1, m) \in Seq(at) /\ Len(SubSeq(q, 1, m)) = m
       /\ \A n \in 1..m : SubSeq(q, 1, m)[n] = q[n]
  BY <1>2, <1>8, <1>13
<1> DEFINE l == Listed(at)
<1>15. l \in Seq(at) /\ Len(l) = m /\ \A n \in 1..m : l[n] = q[n]
  BY <1>3, <1>14
<1> HIDE DEF l
<1>16. Sequence(l) /\ DOMAIN l = 1..m /\ \A n \in DOMAIN l : l[n] \in at
  BY <1>15, FromSeq
<1>17. \A n \in 1..m : n \in DOMAIN q
  BY <1>8, <1>13
<1>18. Rising(l)
  BY <1>2, <1>15, <1>16, <1>17 DEF Rising
<1>19. 1 \in DOMAIN l /\ 2 \in DOMAIN l /\ l[1] = q[1]
  BY <1>13, <1>15, <1>16
<1> QED BY <1>6, <1>12, <1>16, <1>18, <1>19 DEF l

-----------------------------------------------------------------------------

\* What a step takes over from its finding.
LEMMA StepFields ==
  ASSUME NEW step, NEW f, NEW lines, NEW format, NEW policy, NEW ack, PlannedFor(step, f, lines, format, policy, ack)
  PROVE  /\ step.recipe = RecipeFor(f, Decoded(lines), lines, policy, ack)
         /\ step.recipe \in OnLines => step.at = 0 /\ step.list = <<>>
         /\ step.recipe \notin OnLines =>
              step = [recipe |-> step.recipe, at |-> f.at, corr |-> f.corr, list |-> f.list, line |-> 0,
                      id |-> Decoded(lines)[f.at].id, loss |-> LossOf(step.recipe, f, Decoded(lines))]
<1> DEFINE r == RecipeFor(f, Decoded(lines), lines, policy, ack)
<1>1. step = Step(r, f, Decoded(lines), lines)
  BY DEF PlannedFor
<1> HIDE DEF r
<1>2. step.recipe = r
  BY <1>1 DEF Step
<1> QED BY <1>1, <1>2 DEF Step, r

\* What the planner checked for each conservative recipe, its scope included.
LEMMA RecipeIs ==
  ASSUME NEW step, NEW f, NEW lines, NEW format, NEW policy, NEW ack, PlannedFor(step, f, lines, format, policy, ack)
  PROVE  LET s == Decoded(lines)
         IN /\ step.recipe = "compaction-projection-reunion" => f.code = "SL108" /\ SplitOnce(s, f.corr)
            /\ step.recipe = "identical-duplicate-collapse" => f.code = "SL003" /\ AdjacentPair(f, s)
            /\ step.recipe = "identical-duplicate-drop" => f.code = "SL003"
            /\ step.recipe = "duplicate-projection-removal" => f.code = "SL104"
            /\ policy = "conservative" =>
                 /\ step.recipe \in {"compaction-projection-reunion", "duplicate-projection-removal",
                                     "identical-duplicate-collapse", "identical-duplicate-drop",
                                     "torn-terminal-record-discard"}
                 /\ f.repair = "deterministic" /\ InScope(step, s)
<1> DEFINE s == Decoded(lines)
           c == ConservativeRecipe(f, s)
           v == SalvageRecipe(f)
<1>1. step.recipe = RecipeFor(f, s, lines, policy, ack) /\ step.recipe # ""
  <2>1. step.recipe = RecipeFor(f, s, lines, policy, ack)
    BY StepFields
  <2> QED BY <2>1 DEF PlannedFor
<1>2. step.recipe = c \/ (step.recipe = v /\ policy = "salvage")
  BY <1>1 DEF RecipeFor
<1>3. /\ c = "compaction-projection-reunion" => f.code = "SL108" /\ SplitOnce(s, f.corr)
      /\ c = "identical-duplicate-collapse" => f.code = "SL003" /\ AdjacentPair(f, s)
      /\ c = "identical-duplicate-drop" => f.code = "SL003"
      /\ c = "duplicate-projection-removal" => f.code = "SL104"
      /\ c \in {"compaction-projection-reunion", "duplicate-projection-removal",
                "identical-duplicate-collapse", "identical-duplicate-drop", "torn-terminal-record-discard", ""}
  BY DEF ConservativeRecipe
<1>4. v \notin {"compaction-projection-reunion", "duplicate-projection-removal",
                "identical-duplicate-collapse", "identical-duplicate-drop"}
  BY DEF SalvageRecipe
<1>5. policy = "conservative" => f.repair = "deterministic" /\ InScope(step, s)
  BY DEF PlannedFor, Repairable
<1> HIDE DEF s, c, v
<1>6. policy = "conservative" => step.recipe = c /\ c # ""
  BY <1>1, <1>2
<1>7. step.recipe \in {"compaction-projection-reunion", "duplicate-projection-removal",
                       "identical-duplicate-collapse", "identical-duplicate-drop"} => step.recipe = c
  BY <1>2, <1>4
<1> QED BY <1>3, <1>5, <1>6, <1>7 DEF s

\* What is true in the source of the events that each conservative step names.
LEMMA ReunionPlanned ==
  ASSUME NEW lines, NEW format, NEW policy, NEW ack, NEW step \in StepsFor(lines, format, policy, ack),
         step.recipe = "compaction-projection-reunion"
  PROVE  SplitOnce(Decoded(lines), step.corr)
<1>1. PICK f : PlannedFor(step, f, lines, format, policy, ack)
  BY StepIs
<1>2. step.recipe \notin OnLines
  BY DEF OnLines
<1>3. step.corr = f.corr
  BY <1>1, <1>2, StepFields
<1> QED BY <1>1, <1>3, RecipeIs

LEMMA CollapsePlanned ==
  ASSUME NEW lines, NEW format, NEW ack, NEW step \in StepsFor(lines, format, "conservative", ack), Events(Decoded(lines)),
         step.recipe = "identical-duplicate-collapse"
  PROVE  Collapses(step, Decoded(lines))
<1> DEFINE s == Decoded(lines)
<1>1. PICK f : PlannedFor(step, f, lines, format, "conservative", ack)
  BY StepIs
<1>2. step.recipe \notin OnLines
  BY DEF OnLines
<1>3. step.at = f.at /\ step.list = f.list
  BY <1>1, <1>2, StepFields
<1>4. f.code = "SL003" /\ AdjacentPair(f, s) /\ f.repair = "deterministic"
  BY <1>1, RecipeIs
<1>5. Sequence(s) /\ \A i \in DOMAIN s : Fields(s[i])
  BY DEF Events
<1>6. f \in DuplicateIds(s)
  BY <1>1, <1>4, <1>5, FindingIs DEF PlannedFor
<1> HIDE DEF s
<1>7. PICK at \in SUBSET DOMAIN s : /\ Cardinality(at) > 1 /\ f.at = Min(at) /\ f.list = Listed(at)
                                    /\ f.repair = "deterministic" => IdenticalAt(s, at)
  BY <1>6, DuplicateIs
<1>8. /\ 1 \in DOMAIN f.list /\ 2 \in DOMAIN f.list /\ f.list[1] = Min(at)
      /\ \A i \in DOMAIN f.list : f.list[i] \in at
  BY <1>5, <1>7, ListedIs
<1>9. step.at = f.list[1] /\ step.at + 1 = f.list[2] /\ Alike(s[step.at], s[step.at + 1])
  BY <1>3, <1>4, <1>7, <1>8 DEF AdjacentPair
<1>10. step.at \in at /\ step.at + 1 \in at
  BY <1>8, <1>9
<1>11. Body(s[step.at]) = Body(s[step.at + 1])
  BY <1>4, <1>7, <1>10 DEF IdenticalAt
<1>12. Alikes(s[step.at], s[step.at + 1])
  BY <1>5, <1>10, <1>11, BodyIs
<1>13. {step.at, step.at + 1} \subseteq ToSet(step.list)
  BY <1>3, <1>8, <1>9 DEF ToSet
<1> QED BY <1>9, <1>10, <1>12, <1>13 DEF Collapses, s

LEMMA DropPlanned ==
  ASSUME NEW lines, NEW format, NEW ack, NEW step \in StepsFor(lines, format, "conservative", ack), Events(Decoded(lines)),
         step.recipe = "identical-duplicate-drop"
  PROVE  Drops(step, Decoded(lines))
<1> DEFINE s == Decoded(lines)
<1>1. PICK f : PlannedFor(step, f, lines, format, "conservative", ack)
  BY StepIs
<1>2. step.recipe \notin OnLines
  BY DEF OnLines
<1>3. step.at = f.at /\ step.list = f.list
  BY <1>1, <1>2, StepFields
<1>4. f.code = "SL003" /\ f.repair = "deterministic"
  BY <1>1, RecipeIs
<1>5. Sequence(s) /\ \A i \in DOMAIN s : Fields(s[i])
  BY DEF Events
<1>6. f \in DuplicateIds(s)
  BY <1>1, <1>4, <1>5, FindingIs DEF PlannedFor
<1> HIDE DEF s
<1>7. PICK at \in SUBSET DOMAIN s : /\ Cardinality(at) > 1 /\ f.at = Min(at) /\ f.list = Listed(at)
                                    /\ f.repair = "deterministic" => IdenticalAt(s, at)
  BY <1>6, DuplicateIs
<1>8. /\ Sequence(f.list) /\ Rising(f.list) /\ 2 \in DOMAIN f.list /\ f.list[1] = Min(at) /\ Min(at) \in at
      /\ \A i \in DOMAIN f.list : f.list[i] \in at
  BY <1>5, <1>7, ListedIs
<1>9. ASSUME NEW i \in DOMAIN f.list PROVE Alikes(s[step.at], s[f.list[i]])
  <2>1. Body(s[step.at]) = Body(s[f.list[i]])
    BY <1>3, <1>4, <1>7, <1>8 DEF IdenticalAt
  <2> QED BY <1>3, <1>5, <1>7, <1>8, <2>1, BodyIs
<1> QED BY <1>3, <1>7, <1>8, <1>9 DEF Drops, s

LEMMA ProjectionPlanned ==
  ASSUME NEW lines, NEW format, NEW ack, NEW step \in StepsFor(lines, format, "conservative", ack), Events(Decoded(lines)),
         step.recipe = "duplicate-projection-removal"
  PROVE  Projects(step, Decoded(lines))
<1> DEFINE s == Decoded(lines)
<1>1. PICK f : PlannedFor(step, f, lines, format, "conservative", ack)
  BY StepIs
<1>2. step.recipe \notin OnLines
  BY DEF OnLines
<1>3. step = [recipe |-> step.recipe, at |-> f.at, corr |-> f.corr, list |-> f.list, line |-> 0,
              id |-> s[f.at].id, loss |-> LossOf(step.recipe, f, s)]
  BY <1>1, <1>2, StepFields
<1>4. f.code = "SL104" /\ f.repair = "deterministic"
  BY <1>1, RecipeIs
<1>5. Sequence(s)
  BY DEF Events
<1>6. f \in MultiResults(s)
  BY <1>1, <1>4, <1>5, FindingIs DEF PlannedFor
<1> HIDE DEF s
<1>7. PICK k \in Correlations(s) :
        /\ Cardinality(Results(s, k)) > 1 /\ f.at = Min(Results(s, k)) /\ f.corr = k /\ f.list = <<>>
        /\ f.repair = "deterministic" => Cardinality({s[i].content : i \in Results(s, k)}) = 1
  BY ZenonT(40), <1>6, MultiResultIs
<1>8. LossOf(step.recipe, f, s) = 0
  BY DEF LossOf
<1> DEFINE R == Results(s, k)
<1>9. R \in SUBSET DOMAIN s
  BY DEF Results, OfKind
<1>10. IsFiniteSet(R) /\ R \in SUBSET Nat
  BY <1>5, <1>9, FinitePositions, Order
<1>11. R # {}
  <2> SUFFICES ASSUME R = {} PROVE FALSE
    OBVIOUS
  <2>1. Cardinality(R) = 0
    BY FS_EmptySet
  <2> QED BY <1>7, <2>1
<1> HIDE DEF R
<1>12. Min(R) \in R
  BY <1>10, <1>11, MinIs
<1>13. R \ {Min(R)} # {}
  BY <1>7, <1>10, <1>12, TwoMembers DEF R
<1>14. \A i, j \in R : s[i].content = s[j].content
  <2> DEFINE C == {s[i].content : i \in R}
             g == [i \in R |-> s[i].content]
  <2>1. IsFiniteSet(C)
    <3>1. DOMAIN g = R /\ C = {g[i] : i \in DOMAIN g}
      OBVIOUS
    <3> HIDE DEF g, C
    <3> QED BY <1>10, <3>1, FiniteImage
  <2>2. Cardinality(C) = 1
    BY <1>4, <1>7 DEF R
  <2>3. \A i \in R : s[i].content \in C
    OBVIOUS
  <2> HIDE DEF C
  <2>4. PICK x : C = {x}
    BY <2>1, <2>2, FS_Singleton
  <2> QED BY <2>3, <2>4
<1>15. /\ step = [recipe |-> "duplicate-projection-removal", at |-> Min(R), corr |-> k,
                  list |-> <<>>, line |-> 0, id |-> s[Min(R)].id, loss |-> 0]
  BY <1>3, <1>7, <1>8 DEF R
<1>16. step.corr = k /\ step.at = Min(R)
  BY <1>15
<1>17. k # None
  BY CorrelationIs
<1> QED BY <1>12, <1>13, <1>14, <1>15, <1>16, <1>17 DEF Projects, s, R

-----------------------------------------------------------------------------
(***************************************************************************)
(* What a step does, under either policy.                                  *)
(***************************************************************************)
\* A step is a record of these fields.
StepShape(step) ==
  step = [recipe |-> step.recipe, at |-> step.at, corr |-> step.corr, list |-> step.list, line |-> step.line,
          id |-> step.id, loss |-> step.loss]

\* A step is a record; relocating it changes its positions only.
LEMMA ShapeOfStep ==
  ASSUME NEW lines, NEW format, NEW policy, NEW ack, NEW step \in StepsFor(lines, format, policy, ack)
  PROVE  StepShape(step)
<1>1. PICK f : PlannedFor(step, f, lines, format, policy, ack)
  BY StepIs
<1>2. \E r : step = Step(r, f, Decoded(lines), lines)
  BY <1>1 DEF PlannedFor
<1> QED BY <1>2 DEF Step, StepShape

LEMMA RelocatedFields ==
  ASSUME NEW step, NEW w, StepShape(step)
  PROVE  LET r == Relocate(step, w)
         IN /\ r.recipe = step.recipe /\ r.corr = step.corr /\ r.id = step.id
            /\ r.at = IF step.at = 0 THEN 0 ELSE PositionOf(w, step.at)
            /\ r.list = [i \in DOMAIN step.list |-> PositionOf(w, step.list[i])]
<1>1. DOMAIN step = {"recipe", "at", "corr", "list", "line", "id", "loss"}
  BY DEF StepShape
<1> QED BY <1>1 DEF Relocate

\* The event that came from a position.
LEMMA PositionIs ==
  ASSUME NEW w, NEW o \in Origins(w)
  PROVE  PositionOf(w, o) \in DOMAIN w /\ w[PositionOf(w, o)].origin = o
BY DEF Origins, PositionOf

\* Events that came from a session are events.
LEMMA FromEvents ==
  ASSUME NEW w, NEW s, From(w, s)
  PROVE  Events(w)
BY DEF From, Events, Same

\* Every recipe but the reunion leaves some of the events, in their order.
LEMMA OutcomeKeeps ==
  ASSUME NEW step, NEW w, Events(w), StepShape(step), Relocatable(step, w),
         CarriesOut(Relocate(step, w), w), step.recipe # "compaction-projection-reunion"
  PROVE  \E m : Keeps(Outcome(Relocate(step, w), w), w, m)
<1> DEFINE r == Relocate(step, w)
           v == Outcome(r, w)
<1> SUFFICES \E m : Keeps(v, w, m)
  OBVIOUS
<1>1. r.recipe = step.recipe /\ r.at = IF step.at = 0 THEN 0 ELSE PositionOf(w, step.at)
  BY RelocatedFields
<1>2. CarriesOut(r, w)
  OBVIOUS
<1>3. step.at # 0 => step.at \in Origins(w)
  BY DEF Relocatable, Addresses
<1>4. r.at # 0 => r.at \in DOMAIN w
  BY <1>1, <1>3, PositionIs
<1> HIDE DEF r
<1>5. Len(w) \in Nat /\ DOMAIN w = 1..Len(w)
  BY DEF Events, Sequence
<1>6. \A P : \E m : Keeps(Without(w, P), w, m)
  BY WithoutIs DEF Leaves
<1>7. \A P, from, to : \E m : Keeps(Relinked(Without(w, P), from, to), w, m)
  BY RemovedIs
<1>8. \E m : Keeps(w, w, m)
  <2>1. \E m : Keeps(SubSeq(w, 1, Len(w)), w, m)
    BY <1>5, CutIs
  <2>2. SubSeq(w, 1, Len(w)) = w
    <3> DEFINE T == {w[i] : i \in DOMAIN w}
    <3>1. w \in [1..Len(w) -> T]
      BY DEF Events, Sequence
    <3> HIDE DEF T
    <3>2. w \in Seq(T)
      BY <1>5, <3>1, FromFunction
    <3> QED BY <3>2, SubSeqFull
  <2> QED BY <2>1, <2>2
<1>9. CASE r.recipe \in Lossy \union OnLines
  <2>1. v = Salvaged(r, w) /\ Salvageable(r, w)
    BY <1>2, <1>9 DEF Outcome, CarriesOut
  <2>2. CASE r.recipe = "side-effect-unknown-truncate"
    <3>1. v = SubSeq(w, 1, r.at - 1) /\ r.at > 1
      BY <2>1, <2>2 DEF Salvaged, Salvageable
    <3>2. r.at \in 1..Len(w) \/ r.at = 0
      BY <1>4, <1>5
    <3>3. r.at - 1 \in Nat /\ r.at - 1 =< Len(w)
      BY <1>5, <3>1, <3>2
    <3> HIDE DEF v
    <3> QED BY <3>1, <3>3, CutIs
  <2>3. CASE r.recipe # "side-effect-unknown-truncate"
    <3>1. v = w \/ \E P : v = Without(w, P)
      BY <2>1, <2>3 DEF Salvaged
    <3> HIDE DEF v
    <3> QED BY <1>6, <1>8, <3>1
  <2> QED BY <2>2, <2>3
<1>10. CASE r.recipe \notin Lossy \union OnLines
  <2>1. v = Apply(r, w)
    BY <1>10 DEF Outcome
  <2>2. (\E P : v = Without(w, P)) \/ \E P, from, to : v = Relinked(Without(w, P), from, to)
    BY <1>1, <2>1 DEF Apply
  <2> HIDE DEF v
  <2> QED BY <1>6, <1>7, <2>2
<1> QED BY <1>9, <1>10

\* The reunion needs a pair split once, also where it is carried out.
LEMMA ReunionIs ==
  ASSUME NEW step, NEW w, StepShape(step),
         CarriesOut(Relocate(step, w), w), step.recipe = "compaction-projection-reunion"
  PROVE  SplitOnce(w, step.corr) /\ Outcome(Relocate(step, w), w) = Reunited(w, step.corr)
<1> DEFINE r == Relocate(step, w)
<1>1. r.recipe = step.recipe /\ r.corr = step.corr
  BY RelocatedFields
<1>2. CarriesOut(r, w)
  OBVIOUS
<1> HIDE DEF r
<1>3. r.recipe \notin Lossy \union OnLines
  BY <1>1 DEF Lossy, OnLines
<1>4. SplitOnce(w, r.corr)
  BY <1>1, <1>2, <1>3 DEF CarriesOut, Applicable, HasRegion
<1>5. Outcome(r, w) = Reunited(w, r.corr)
  BY <1>1, <1>3 DEF Outcome, Apply
<1> QED BY <1>1, <1>4, <1>5 DEF r

\* What the executor starts from.
LEMMA TagIs ==
  ASSUME NEW s, Events(s)
  PROVE  /\ From(Tag(s), s) /\ DOMAIN Tag(s) = DOMAIN s
         /\ \A i \in DOMAIN s : Tag(s)[i].origin = i /\ Tag(s)[i].parent = s[i].parent
         /\ \A i, j \in DOMAIN s : ~ Crossed(Tag(s), i, j)
<1> DEFINE w == Tag(s)
<1>1. w = [i \in DOMAIN s |-> [s[i] EXCEPT !.origin = i]]
  BY DEF Tag
<1>2. Len(s) \in Nat /\ DOMAIN s = 1..Len(s)
  BY DEF Events, Sequence
<1> HIDE DEF w
<1>3. Sequence(w) /\ DOMAIN w = DOMAIN s
  <2> DEFINE T == {w[i] : i \in DOMAIN s}
  <2>1. w \in [1..Len(s) -> T]
    BY <1>1, <1>2
  <2> HIDE DEF T
  <2> QED BY <1>1, <1>2, <2>1, FromFunction
<1>4. ASSUME NEW i \in DOMAIN s PROVE w[i].origin = i /\ w[i].parent = s[i].parent /\ Same(w[i], s[i])
  <2> DEFINE e == w[i]
             f == s[i]
  <2>1. Fields(f) /\ e = [f EXCEPT !.origin = i]
    BY <1>1 DEF Events
  <2> HIDE DEF e, f
  <2>2. e = [id |-> f.id, parent |-> f.parent, kind |-> f.kind, corr |-> f.corr, content |-> f.content,
             effects |-> f.effects, origin |-> i, joined |-> f.joined]
    BY <2>1 DEF Fields
  <2>3. e.origin = i /\ e.parent = f.parent /\ Same(e, f)
    BY <2>1, <2>2 DEF Same, Fields
  <2> QED BY <2>3 DEF e, f
<1>5. From(w, s)
  BY <1>3, <1>4 DEF From
<1>6. \A i, j \in DOMAIN s : ~ Crossed(w, i, j)
  BY <1>2, <1>4 DEF Crossed
<1> QED BY <1>3, <1>4, <1>5, <1>6 DEF w

\* The events of a file are events.
LEMMA DecodedIs ==
  ASSUME NEW lines, Events(lines)
  PROVE  Events(Decoded(lines))
<1> DEFINE P == DOMAIN lines \ TornLines(lines)
<1>1. Decoded(lines) = Picked(lines, P) /\ P \in SUBSET DOMAIN lines /\ Sequence(lines)
  BY DEF Decoded, Events
<1> HIDE DEF P
<1>2. PICK m : /\ \A i \in DOMAIN m : m[i] \in P
               /\ Sequence(Picked(lines, P)) /\ DOMAIN Picked(lines, P) = DOMAIN m
               /\ \A i \in DOMAIN m : Picked(lines, P)[i] = lines[m[i]]
  BY <1>1, PickedIs
<1> QED BY <1>1, <1>2 DEF Events

-----------------------------------------------------------------------------
(***************************************************************************)
(* The steps of a plan, in its order.                                      *)
(***************************************************************************)
LEMMA TailIs ==
  ASSUME NEW q, Sequence(q), q # <<>>
  PROVE  /\ 1 \in DOMAIN q /\ Head(q) = q[1] /\ Sequence(Tail(q))
         /\ \A i \in DOMAIN Tail(q) : i \in Nat /\ i + 1 \in DOMAIN q /\ 1 < i + 1 /\ Tail(q)[i] = q[i + 1]
<1> DEFINE T == {q[i] : i \in DOMAIN q}
<1>1. Len(q) \in Nat /\ DOMAIN q = 1..Len(q) /\ q \in [1..Len(q) -> T]
  BY DEF Sequence
<1> HIDE DEF T
<1>2. q \in Seq(T)
  BY <1>1, FromFunction
<1>3. Len(q) # 0
  BY <1>2, EmptySeq
<1>4. Head(q) = q[1] /\ Tail(q) \in Seq(T) /\ Len(Tail(q)) = Len(q) - 1 /\ \A i \in 1..(Len(q) - 1) : Tail(q)[i] = q[i + 1]
  BY <1>2, <1>3, HeadTailProperties
<1>5. Sequence(Tail(q)) /\ DOMAIN Tail(q) = 1..(Len(q) - 1)
  BY <1>4, FromSeq DEF Sequence
<1> QED BY <1>1, <1>3, <1>4, <1>5

\* A sequence with one more element.
LEMMA AppendIs ==
  ASSUME NEW q, Sequence(q), NEW x
  PROVE  /\ Sequence(Append(q, x))
         /\ \A i \in DOMAIN q : i \in DOMAIN Append(q, x) /\ Append(q, x)[i] = q[i]
         /\ \A i \in DOMAIN Append(q, x) : i \in DOMAIN q \/ Append(q, x)[i] = x
         /\ \E i \in DOMAIN Append(q, x) : Append(q, x)[i] = x
<1> DEFINE T == {q[i] : i \in DOMAIN q} \union {x}
           a == Append(q, x)
<1>1. Len(q) \in Nat /\ DOMAIN q = 1..Len(q) /\ q \in [1..Len(q) -> T] /\ x \in T
  BY DEF Sequence
<1> HIDE DEF T
<1>2. q \in Seq(T)
  BY <1>1, FromFunction
<1>3. a \in Seq(T) /\ Len(a) = Len(q) + 1 /\ a[Len(q) + 1] = x /\ \A i \in 1..Len(q) : a[i] = q[i]
  BY <1>1, <1>2, AppendProperties
<1> HIDE DEF a
<1>4. Sequence(a) /\ DOMAIN a = 1..(Len(q) + 1)
  BY <1>3, FromSeq DEF Sequence
<1>5. \A i \in 1..(Len(q) + 1) : i \in 1..Len(q) \/ i = Len(q) + 1
  BY <1>1
<1>6. Len(q) + 1 \in 1..(Len(q) + 1) /\ \A i \in 1..Len(q) : i \in 1..(Len(q) + 1)
  BY <1>1
<1>7. /\ Sequence(a)
      /\ \A i \in DOMAIN q : i \in DOMAIN a /\ a[i] = q[i]
      /\ \A i \in DOMAIN a : i \in DOMAIN q \/ a[i] = x
      /\ \E i \in DOMAIN a : a[i] = x
  BY <1>1, <1>3, <1>4, <1>5, <1>6
<1> QED BY <1>7 DEF a

\* The empty sequence.
LEMMA NothingIs == Sequence(<<>>) /\ DOMAIN <<>> = {} /\ Events(<<>>)
<1>1. <<>> \in Seq({})
  OBVIOUS
<1>2. DOMAIN <<>> = {}
  OBVIOUS
<1> QED BY <1>1, <1>2, FromSeq DEF Events

\* Steps of S, each once and none before one that precedes it.
Ordered(q, S) ==
  /\ Sequence(q)
  /\ \A i \in DOMAIN q : q[i] \in S
  /\ \A i, j \in DOMAIN q : i < j => q[i] # q[j] /\ ~ Precedes(q[j], q[i])

\* Those applied come before those still to do.
Progress(done, left, S) ==
  /\ Sequence(done) /\ Ordered(left, S)
  /\ \A i \in DOMAIN done : done[i] \in S
  /\ \A i \in DOMAIN done, j \in DOMAIN left : done[i] # left[j] /\ ~ Precedes(left[j], done[i])

\* Steps taken from a plan, all or some, keep its order.
LEMMA NothingOrdered ==
  ASSUME NEW S
  PROVE  Ordered(<<>>, S) /\ Progress(<<>>, <<>>, S)
BY NothingIs DEF Ordered, Progress

LEMMA PickedOrdered ==
  ASSUME NEW q, NEW S, Ordered(q, S), NEW P \in SUBSET DOMAIN q
  PROVE  Ordered(Picked(q, P), S)
<1>1. Sequence(q)
  BY DEF Ordered
<1>2. PICK m : /\ Sequence(m) /\ Rising(m) /\ \A i \in DOMAIN m : m[i] \in P
               /\ Sequence(Picked(q, P)) /\ DOMAIN Picked(q, P) = DOMAIN m
               /\ \A i \in DOMAIN m : Picked(q, P)[i] = q[m[i]]
  BY <1>1, PickedIs
<1>3. \A i, j \in DOMAIN m : i < j => m[i] < m[j]
  BY <1>2 DEF Rising
<1> QED BY <1>2, <1>3 DEF Ordered

\* What is done and what is left, as steps are carried out.
LEMMA NothingDone ==
  ASSUME NEW q, NEW S, Ordered(q, S)
  PROVE  Progress(<<>>, q, S)
BY NothingIs DEF Progress

LEMMA OneMoreDone ==
  ASSUME NEW done, NEW left, NEW S, Progress(done, left, S), left # <<>>
  PROVE  /\ Progress(Append(done, Head(left)), Tail(left), S)
         /\ Head(left) \in S /\ 1 \in DOMAIN left /\ Head(left) = left[1]
<1> DEFINE x == Head(left)
           d == Append(done, x)
           l == Tail(left)
<1>1. Sequence(done) /\ Sequence(left)
  BY DEF Progress, Ordered
<1>2. /\ 1 \in DOMAIN left /\ x = left[1] /\ Sequence(l)
      /\ \A i \in DOMAIN l : i \in Nat /\ i + 1 \in DOMAIN left /\ 1 < i + 1 /\ l[i] = left[i + 1]
  BY <1>1, TailIs
<1> HIDE DEF x, l
<1>3. /\ Sequence(d)
      /\ \A i \in DOMAIN d : (i \in DOMAIN done /\ d[i] = done[i]) \/ d[i] = x
  BY <1>1, AppendIs
<1> HIDE DEF d
<1>4. x \in S
  BY <1>2 DEF Progress, Ordered
<1>5. Ordered(l, S)
  <2>1. \A i \in DOMAIN l : l[i] \in S
    BY <1>2 DEF Progress, Ordered
  <2>2. ASSUME NEW i \in DOMAIN l, NEW j \in DOMAIN l, i < j PROVE l[i] # l[j] /\ ~ Precedes(l[j], l[i])
    <3>1. i + 1 < j + 1
      BY <1>2, <2>2
    <3> QED BY <1>2, <3>1 DEF Progress, Ordered
  <2> QED BY <1>2, <2>1, <2>2 DEF Ordered
<1>6. \A i \in DOMAIN d : d[i] \in S
  BY <1>3, <1>4 DEF Progress
<1>7. ASSUME NEW i \in DOMAIN d, NEW j \in DOMAIN l PROVE d[i] # l[j] /\ ~ Precedes(l[j], d[i])
  <2>1. CASE i \in DOMAIN done /\ d[i] = done[i]
    BY <1>2, <2>1 DEF Progress
  <2>2. CASE d[i] = x
    BY <1>2, <2>2 DEF Progress, Ordered
  <2> QED BY <1>3, <2>1, <2>2
<1>8. Progress(d, l, S)
  BY <1>3, <1>5, <1>6, <1>7 DEF Progress
<1> QED BY <1>2, <1>4, <1>8 DEF x, d, l

\* A plan lists the steps of the planner in its order.
LEMMA PlannedOrder ==
  ASSUME NEW lines, NEW format, NEW policy, NEW ack, Events(lines), NEW order \in PlanOrders(StepsFor(lines, format, policy, ack))
  PROVE  Ordered(order, StepsFor(lines, format, policy, ack))
<1>1. Sequence(lines) /\ Sequence(Decoded(lines))
  BY DecodedIs DEF Events
<1> DEFINE S == StepsFor(lines, format, policy, ack)
<1>2. IsFiniteSet(S)
  BY <1>1, StepsFinite
<1> HIDE DEF S
<1>3. order \in PlanOrders(S)
  BY DEF S
<1>4. Ordered(order, S)
  BY <1>2, <1>3, OrderIs DEF Ordered
<1> QED BY <1>4 DEF S

\* An executor that has read nothing.
LEMMA NothingFrom ==
  ASSUME NEW s, NEW spans
  PROVE  From(<<>>, s) /\ CrossWithin(<<>>, spans)
BY NothingIs DEF From, CrossWithin

\* One step, of events that stand as the invariant says.
LEMMA StepKeeps ==
  ASSUME NEW lines, NEW format, NEW policy, NEW ack, NEW step \in StepsFor(lines, format, policy, ack), NEW s, s = Decoded(lines),
         Events(s), NEW w, From(w, s), NEW spans, CrossWithin(w, spans),
         NEW more, \A o : o \in spans \/ (step.recipe = "compaction-projection-reunion" /\ o \in Span(s, step.corr)) => o \in more,
         Relocatable(step, w), CarriesOut(Relocate(step, w), w)
  PROVE  From(Outcome(Relocate(step, w), w), s) /\ CrossWithin(Outcome(Relocate(step, w), w), more)
<1> DEFINE v == Outcome(Relocate(step, w), w)
<1> SUFFICES From(v, s) /\ CrossWithin(v, more)
  OBVIOUS
<1>1. StepShape(step) /\ Events(w) /\ Sequence(w) /\ Sequence(s)
  BY ShapeOfStep, FromEvents DEF Events
<1>2. CASE step.recipe # "compaction-projection-reunion"
  <2>1. PICK m : Keeps(v, w, m)
    BY <1>1, <1>2, OutcomeKeeps
  <2> HIDE DEF v
  <2>2. From(v, s)
    BY <2>1, KeepsFrom
  <2>3. CrossWithin(v, spans)
    BY <1>1, <2>1, KeepsCross
  <2> QED BY <2>2, <2>3 DEF CrossWithin
<1>3. CASE step.recipe = "compaction-projection-reunion"
  <2> DEFINE k == step.corr
  <2>1. SplitOnce(s, k)
    BY <1>3, ReunionPlanned
  <2>2. SplitOnce(w, k) /\ v = Reunited(w, k)
    BY <1>1, <1>3, ReunionIs
  <2> HIDE DEF v
  <2>3. k \in CleanPairs(s)
    BY <2>1 DEF SplitOnce
  <2>4. \A o : o \in spans \/ o \in Span(s, k) => o \in more
    BY <1>3
  <2> HIDE DEF k
  <2>5. PICK b, e : /\ Moved(Reunited(w, k), w, b, e)
                    /\ w[b].kind = "compaction_boundary"
                    /\ w[b].origin \in Span(s, k) \/ \E i \in DOMAIN w : Crossed(w, i, b)
                    /\ \A x \in DOMAIN w : b < x /\ x =< e =>
                         w[x].kind # "compaction_boundary" /\ w[x].origin \in Span(s, k)
    BY <1>1, <2>2, <2>3, ReunitedIs
  <2>6. Moved(v, w, b, e)
    BY <2>2, <2>5
  <2>7. From(v, s)
    BY <2>6, MovedFrom
  <2> DEFINE span == Span(s, k)
  <2> HIDE DEF span
  <2>8. /\ w[b].origin \in span \/ \E i \in DOMAIN w : Crossed(w, i, b)
        /\ \A x \in DOMAIN w : b < x /\ x =< e => w[x].kind # "compaction_boundary" /\ w[x].origin \in span
        /\ \A x \in DOMAIN w : w[x].origin \in spans \/ w[x].origin \in span => w[x].origin \in more
    BY <2>4, <2>5 DEF span
  <2>9. CrossWithin(v, more)
    BY <2>5, <2>6, <2>8, MovedCross
  <2> QED BY <2>7, <2>9
<1> QED BY <1>2, <1>3

-----------------------------------------------------------------------------
(***************************************************************************)
(* What conservative steps keep, of the events w that are left of s.       *)
(***************************************************************************)
\* Neighbours of one kind and call stay neighbours.
Adjacent(w, s) ==
  \A i \in DOMAIN w :
     LET a == w[i].origin
     IN a + 1 \in Origins(w) /\ s[a].kind = s[a + 1].kind /\ s[a].corr = s[a + 1].corr /\ s[a].kind # "compaction_boundary"
        => i + 1 \in DOMAIN w /\ w[i + 1].origin = a + 1

\* The second result of a call.
Second(s, k) == Min(Results(s, k) \ {Min(Results(s, k))})

\* The step drops the event at o.
Gone(step, s, o) ==
  \/ step.recipe = "identical-duplicate-collapse" /\ o = step.at + 1
  \/ step.recipe = "identical-duplicate-drop" /\ \E i \in DOMAIN step.list : i # 1 /\ o = step.list[i]
  \/ step.recipe = "duplicate-projection-removal" /\ o = Second(s, step.corr)

\* Only the steps done have dropped events.
Missing(w, s, done) == \A o \in DOMAIN s \ Origins(w) : \E n \in DOMAIN done : Gone(done[n], s, o)

\* The event at t says all that the one at o does, and is no result of another call.
Covers(s, t, o) ==
  /\ t < o /\ s[t].kind = s[o].kind /\ s[t].content = s[o].content
  /\ Alikes(s[t], s[o]) \/ (s[t].kind = "tool_result" /\ s[t].corr = s[o].corr /\ s[t].corr # None)

\* Every event that is gone is covered by one that is there.
Stood(w, s) == \A o \in DOMAIN s \ Origins(w) : \E t \in Origins(w) : Covers(s, t, o)

\* Delicate events are where they were.
Untouched(w, s) ==
  \A d \in Delicate(s) :
     \E i \in DOMAIN w : /\ w[i].origin = d /\ w[i].parent = s[d].parent
                         /\ \A j \in DOMAIN w : j < i <=> w[j].origin < d

\* The ids have, with that of an event that is gone, the ids of those that stand for it.
Closed(ids, s, gone) ==
  \A o \in gone, t \in DOMAIN s : StandsFor(s, t, o) /\ s[o].id \in ids => s[t].id \in ids

\* From one id, the events that are gone lead to another (LeadsTo).
Leads(s, gone, from, to) == \A ids \in SUBSET (Ids(s) \union {from}) : from \in ids /\ Closed(ids, s, gone) => to \in ids

\* A parent that changed leads to one that is there.
Relinks(w, s) ==
  \A i \in DOMAIN w :
     LET was == s[w[i].origin].parent
     IN w[i].parent = was \/ (w[i].parent \in Ids(w) /\ Leads(s, DOMAIN s \ Origins(w), was, w[i].parent))

\* v is w without the events at the positions P, each of which one that stays
\* covers, and with what hung below from hanging below to.
Removal(v, w, s, step, m, P, from, to) ==
  /\ Keeps(v, w, m)
  /\ \A i \in DOMAIN m : /\ m[i] \notin P
                         /\ v[i].parent = IF w[m[i]].parent = from THEN to ELSE w[m[i]].parent
  /\ \A x \in DOMAIN w \ P : \E i \in DOMAIN m : m[i] = x
  /\ \A x \in P : /\ x \in DOMAIN w /\ w[x].origin \notin Delicate(s) /\ Gone(step, s, w[x].origin)
                  /\ \E y \in DOMAIN w \ P : /\ Covers(s, w[y].origin, w[x].origin)
                                             /\ w[y].id = w[x].id \/ (w[x].id = from /\ w[y].id = to)
  /\ \/ from = to
     \/ /\ \E x \in P, y \in DOMAIN w \ P : w[x].id = from /\ w[y].id = to /\ Covers(s, w[y].origin, w[x].origin)
        /\ \A d \in Delicate(s) : s[d].parent # from

\* Dropping events keeps neighbours, and so does a boundary that moves out of a pair.
LEMMA KeepsAdjacent ==
  ASSUME NEW v, NEW w, NEW m, NEW s, Sequence(s), From(w, s), Keeps(v, w, m), Adjacent(w, s)
  PROVE  Adjacent(v, s)
<1> SUFFICES ASSUME NEW i \in DOMAIN v, NEW a, a = v[i].origin, a + 1 \in Origins(v),
                    s[a].kind = s[a + 1].kind, s[a].corr = s[a + 1].corr, s[a].kind # "compaction_boundary"
             PROVE  i + 1 \in DOMAIN v /\ v[i + 1].origin = a + 1
  BY DEF Adjacent
<1>1. Sequence(v) /\ Sequence(m) /\ DOMAIN v = DOMAIN m /\ Sequence(w)
  BY DEF Keeps, From
<1>2. PICK j \in DOMAIN v : v[j].origin = a + 1
  BY DEF Origins
<1>3. m[i] \in DOMAIN w /\ w[m[i]].origin = a /\ m[j] \in DOMAIN w /\ w[m[j]].origin = a + 1
  BY <1>1, <1>2 DEF Keeps
<1>4. a + 1 \in Origins(w)
  BY <1>3 DEF Origins
<1>5. m[i] + 1 \in DOMAIN w /\ w[m[i] + 1].origin = a + 1
  BY <1>3, <1>4 DEF Adjacent
<1>6. m[j] = m[i] + 1
  BY <1>3, <1>5 DEF From
<1>7. i \in Nat /\ j \in Nat /\ m[i] \in Nat /\ m[j] \in Nat
  BY <1>1, <1>2, <1>3, Order
<1>8. i < j
  BY <1>1, <1>2, <1>6, <1>7, KeepsOrder
<1>9. i + 1 \in DOMAIN m
  BY <1>1, <1>2, <1>7, <1>8, Order
<1>10. m[i] < m[i + 1] /\ m[i + 1] \in Nat
  <2>1. i < i + 1
    BY <1>7
  <2>2. m[i + 1] \in DOMAIN w
    BY <1>9 DEF Keeps
  <2> QED BY <1>1, <1>9, <2>1, <2>2, KeepsOrder, Order
<1>11. ~ (i + 1 < j)
  <2> SUFFICES ASSUME i + 1 < j PROVE FALSE
    OBVIOUS
  <2>1. m[i + 1] < m[j]
    BY <1>1, <1>2, <1>9, KeepsOrder
  <2> QED BY <1>6, <1>7, <1>10, <2>1
<1>12. j = i + 1
  BY <1>7, <1>8, <1>11
<1> QED BY <1>2, <1>12

LEMMA MovedAdjacent ==
  ASSUME NEW v, NEW w, NEW b, NEW e, NEW s, NEW k, From(w, s), Moved(v, w, b, e), Adjacent(w, s),
         w[b].kind = "compaction_boundary", w[e].corr = k,
         \A x \in DOMAIN w : w[x].kind = w[e].kind /\ w[x].corr = k => x =< e
  PROVE  Adjacent(v, s)
<1> SUFFICES ASSUME NEW i \in DOMAIN v, NEW a, a = v[i].origin, a + 1 \in Origins(v),
                    s[a].kind = s[a + 1].kind, s[a].corr = s[a + 1].corr, s[a].kind # "compaction_boundary"
             PROVE  i + 1 \in DOMAIN v /\ v[i + 1].origin = a + 1
  BY DEF Adjacent
<1> DEFINE x == Before(i, b, e)
<1>1. Sequence(w) /\ DOMAIN v = DOMAIN w /\ b \in DOMAIN w /\ e \in DOMAIN w /\ b < e
  BY DEF Moved
<1>2. x \in DOMAIN w /\ w[x].origin = a
  BY <1>1, BeforeIs DEF Moved
<1>3. a + 1 \in Origins(w)
  <2>1. PICK j \in DOMAIN v : v[j].origin = a + 1
    BY DEF Origins
  <2>2. Before(j, b, e) \in DOMAIN w /\ w[Before(j, b, e)].origin = a + 1
    BY <1>1, <2>1, BeforeIs DEF Moved
  <2> QED BY <2>2 DEF Origins
<1> HIDE DEF x
<1>4. x + 1 \in DOMAIN w /\ w[x + 1].origin = a + 1
  BY <1>2, <1>3 DEF Adjacent
<1>5. /\ w[x].kind = s[a].kind /\ w[x].corr = s[a].corr
      /\ w[x + 1].kind = s[a + 1].kind /\ w[x + 1].corr = s[a + 1].corr
  BY <1>2, <1>4 DEF From, Same
<1>6. x # b /\ x + 1 # b
  BY <1>5
<1>7. x # e
  <2> SUFFICES ASSUME x = e PROVE FALSE
    OBVIOUS
  <2>1. x + 1 =< e
    BY <1>4, <1>5
  <2> QED BY <1>1, <1>2, <2>1, Order
<1>8. DOMAIN w = 1..Len(w) /\ Len(w) \in Nat
  BY <1>1 DEF Sequence
<1>9. i + 1 \in DOMAIN w /\ Before(i + 1, b, e) = x + 1
  <2>1. i \in 1..Len(w) /\ b \in 1..Len(w) /\ e \in 1..Len(w) /\ x = Before(i, b, e)
    BY <1>1, <1>8 DEF x
  <2>2. x \in Nat /\ x + 1 =< Len(w)
    BY <1>4, <1>8, <2>1, <1>2
  <2> HIDE DEF x
  <2> QED BY <1>1, <1>6, <1>7, <1>8, <2>1, <2>2 DEF Before
<1> QED BY <1>1, <1>4, <1>9 DEF Moved

\* A boundary that moves leaves the same events, and the delicate ones where they were.
LEMMA MovedOrigins ==
  ASSUME NEW v, NEW w, NEW b, NEW e, Moved(v, w, b, e)
  PROVE  Origins(v) = Origins(w) /\ Ids(v) = Ids(w)
<1>1. DOMAIN v = DOMAIN w /\ \A i \in DOMAIN w : Before(i, b, e) \in DOMAIN w /\ v[i] = w[Before(i, b, e)]
  BY BeforeIs DEF Moved
<1>2. \A x \in DOMAIN w : \E i \in DOMAIN w : Before(i, b, e) = x
  BY BeforeIs
<1>3. ASSUME NEW x \in DOMAIN w PROVE \E i \in DOMAIN v : v[i] = w[x]
  BY <1>1, <1>2
<1> QED BY <1>1, <1>3 DEF Origins, Ids

LEMMA MovedRelinks ==
  ASSUME NEW v, NEW w, NEW b, NEW e, NEW s, Moved(v, w, b, e), Relinks(w, s)
  PROVE  Relinks(v, s)
<1>1. DOMAIN v = DOMAIN w /\ \A i \in DOMAIN w : Before(i, b, e) \in DOMAIN w /\ v[i] = w[Before(i, b, e)]
  BY BeforeIs DEF Moved
<1> QED BY <1>1, MovedOrigins DEF Relinks

LEMMA MovedUntouched ==
  ASSUME NEW v, NEW w, NEW b, NEW e, NEW s, NEW span, Moved(v, w, b, e), From(w, s), Sequence(s), Untouched(w, s),
         w[b].origin \in span \/ \E i \in DOMAIN w : Crossed(w, i, b),
         \A x \in DOMAIN w : b < x /\ x =< e => w[x].origin \in span,
         span \intersect Delicate(s) = {}
  PROVE  Untouched(v, s)
<1> SUFFICES ASSUME NEW d \in Delicate(s)
             PROVE  \E i \in DOMAIN v : /\ v[i].origin = d /\ v[i].parent = s[d].parent
                                        /\ \A j \in DOMAIN v : j < i <=> v[j].origin < d
  BY DEF Untouched
<1>1. PICK x \in DOMAIN w : /\ w[x].origin = d /\ w[x].parent = s[d].parent
                            /\ \A j \in DOMAIN w : j < x <=> w[j].origin < d
  BY DEF Untouched
<1>2. /\ DOMAIN v = DOMAIN w /\ Sequence(w)
      /\ \A i \in DOMAIN w : Before(i, b, e) \in DOMAIN w /\ v[i] = w[Before(i, b, e)]
      /\ \A i \in DOMAIN w : i \in Nat
  BY BeforeIs, Order DEF Moved
<1>3. PICK i \in DOMAIN w : Before(i, b, e) = x
  BY BeforeIs
<1>4. x # b
  <2> SUFFICES ASSUME x = b PROVE FALSE
    OBVIOUS
  <2>1. w[b].origin \notin span
    BY <1>1
  <2>2. PICK y \in DOMAIN w : Crossed(w, y, b)
    BY <2>1
  <2>3. y < b /\ w[b].origin < w[y].origin /\ w[b].origin = d
    BY <1>1, <2>2 DEF Crossed
  <2>4. w[y].origin < d
    BY <1>1, <2>2, <2>3
  <2>5. w[y].origin \in Nat /\ w[b].origin \in Nat
    BY <2>2, Order DEF From, Moved
  <2> QED BY <2>3, <2>4, <2>5
<1>5. ~ (b < x /\ x =< e)
  BY <1>1
<1>6. ASSUME NEW j \in DOMAIN w PROVE j < i <=> Before(j, b, e) < x
  <2>1. Before(j, b, e) \in DOMAIN w /\ x \in Nat /\ Before(j, b, e) \in Nat /\ i \in Nat /\ j \in Nat
    BY <1>2
  <2>2. CASE j < i
    BY <1>3, <1>4, <2>2, BeforeIs
  <2>3. CASE i < j
    <3>1. x < Before(j, b, e)
      BY <1>3, <1>5, <2>3, BeforeIs
    <3> QED BY <2>1, <2>3, <3>1
  <2>4. CASE i = j
    BY <1>3, <2>1, <2>4
  <2> QED BY <2>1, <2>2, <2>3, <2>4
<1> QED BY <1>1, <1>2, <1>3, <1>6

-----------------------------------------------------------------------------

\* An event that says the same stands for another, and so does one that stands for it.
LEMMA CoversIs ==
  ASSUME NEW s, Sequence(s), NEW o \in DOMAIN s, NEW t \in DOMAIN s, NEW u \in DOMAIN s, Covers(s, t, o)
  PROVE  StandsFor(s, t, o) /\ (Covers(s, u, t) => Covers(s, u, o))
<1>1. StandsFor(s, t, o)
  BY DEF Covers, StandsFor, Alikes
<1>2. Covers(s, u, t) => u < o
  BY Order DEF Covers
<1>3. Covers(s, u, t) => Covers(s, u, o)
  BY <1>2 DEF Covers, Alikes
<1> QED BY <1>1, <1>3

\* What a removal leaves.
LEMMA RemovalOrigins ==
  ASSUME NEW v, NEW w, NEW s, NEW step, NEW m, NEW P, NEW from, NEW to, Removal(v, w, s, step, m, P, from, to), From(w, s)
  PROVE  /\ Origins(v) \subseteq Origins(w) /\ Origins(w) \subseteq DOMAIN s
         /\ \A x \in DOMAIN w \ P : w[x].origin \in Origins(v) /\ w[x].id \in Ids(v)
         /\ \A o \in Origins(w) \ Origins(v) : \E x \in P : w[x].origin = o
         /\ \A x \in P : w[x].origin \notin Origins(v)
<1>1. \A i \in DOMAIN v : i \in DOMAIN m /\ m[i] \in DOMAIN w /\ m[i] \notin P /\ v[i].origin = w[m[i]].origin /\ v[i].id = w[m[i]].id
  BY DEF Removal, Keeps, Same
<1>2. \A x \in DOMAIN w \ P : \E i \in DOMAIN v : m[i] = x
  BY DEF Removal, Keeps
<1>3. Origins(v) \subseteq Origins(w)
  BY <1>1 DEF Origins
<1>4. Origins(w) \subseteq DOMAIN s
  BY DEF Origins, From
<1>5. \A x \in DOMAIN w \ P : w[x].origin \in Origins(v) /\ w[x].id \in Ids(v)
  BY <1>1, <1>2 DEF Origins, Ids
<1>6. ASSUME NEW o \in Origins(w) \ Origins(v) PROVE \E x \in P : w[x].origin = o
  BY <1>5 DEF Origins
<1>7. ASSUME NEW x \in P PROVE w[x].origin \notin Origins(v)
  <2> SUFFICES ASSUME NEW i \in DOMAIN v, v[i].origin = w[x].origin PROVE FALSE
    BY DEF Origins
  <2>1. x \in DOMAIN w
    BY DEF Removal
  <2> QED BY <1>1, <2>1 DEF From
<1> QED BY <1>3, <1>4, <1>5, <1>6, <1>7

\* A removal keeps what all conservative steps keep.
LEMMA RemovalMissing ==
  ASSUME NEW v, NEW w, NEW s, NEW step, NEW m, NEW P, NEW from, NEW to, Removal(v, w, s, step, m, P, from, to), From(w, s),
         NEW done, Sequence(done), Missing(w, s, done)
  PROVE  Missing(v, s, Append(done, step))
<1> SUFFICES ASSUME NEW o \in DOMAIN s \ Origins(v) PROVE \E n \in DOMAIN Append(done, step) : Gone(Append(done, step)[n], s, o)
  BY DEF Missing
<1>1. CASE o \in Origins(w)
  <2>1. PICK x \in P : w[x].origin = o
    BY <1>1, RemovalOrigins
  <2>2. Gone(step, s, o)
    BY <2>1 DEF Removal
  <2> QED BY <2>2, AppendIs
<1>2. CASE o \notin Origins(w)
  <2>1. PICK n \in DOMAIN done : Gone(done[n], s, o)
    BY <1>2 DEF Missing
  <2> QED BY <2>1, AppendIs
<1> QED BY <1>1, <1>2

LEMMA RemovalStood ==
  ASSUME NEW v, NEW w, NEW s, NEW step, NEW m, NEW P, NEW from, NEW to, Removal(v, w, s, step, m, P, from, to), From(w, s),
         Sequence(s), Stood(w, s)
  PROVE  Stood(v, s)
<1>1. ASSUME NEW o \in Origins(w) \ Origins(v) PROVE \E t \in Origins(v) : Covers(s, t, o)
  <2>1. PICK x \in P : w[x].origin = o
    BY <1>1, RemovalOrigins
  <2>2. PICK y \in DOMAIN w \ P : Covers(s, w[y].origin, w[x].origin)
    BY DEF Removal
  <2> QED BY <2>1, <2>2, RemovalOrigins
<1>2. ASSUME NEW o \in DOMAIN s \ Origins(w) PROVE \E t \in Origins(v) : Covers(s, t, o)
  <2>1. PICK t \in Origins(w) : Covers(s, t, o)
    BY DEF Stood
  <2>2. CASE t \in Origins(v)
    BY <2>1, <2>2
  <2>3. CASE t \notin Origins(v)
    <3>1. PICK u \in Origins(v) : Covers(s, u, t)
      BY <1>1, <2>3
    <3>2. t \in DOMAIN s /\ u \in DOMAIN s
      BY RemovalOrigins
    <3>3. Covers(s, u, o)
      BY <2>1, <3>1, <3>2, CoversIs
    <3> QED BY <3>3
  <2> QED BY <2>2, <2>3
<1> QED BY <1>1, <1>2 DEF Stood

LEMMA RemovalUntouched ==
  ASSUME NEW v, NEW w, NEW s, NEW step, NEW m, NEW P, NEW from, NEW to, Removal(v, w, s, step, m, P, from, to), From(w, s),
         Untouched(w, s)
  PROVE  Untouched(v, s)
<1> SUFFICES ASSUME NEW d \in Delicate(s)
             PROVE  \E i \in DOMAIN v : /\ v[i].origin = d /\ v[i].parent = s[d].parent
                                        /\ \A j \in DOMAIN v : j < i <=> v[j].origin < d
  BY DEF Untouched
<1>1. PICK x \in DOMAIN w : /\ w[x].origin = d /\ w[x].parent = s[d].parent
                            /\ \A j \in DOMAIN w : j < x <=> w[j].origin < d
  BY DEF Untouched
<1>2. x \notin P
  BY <1>1 DEF Removal
<1>3. Keeps(v, w, m) /\ Sequence(w) /\ DOMAIN v = DOMAIN m
  BY DEF Removal, From, Keeps
<1>4. PICK i \in DOMAIN m : m[i] = x
  BY <1>2 DEF Removal
<1>5. v[i].origin = d
  BY <1>1, <1>3, <1>4 DEF Keeps
<1>6. v[i].parent = s[d].parent
  BY <1>1, <1>4 DEF Removal
<1>7. ASSUME NEW j \in DOMAIN v PROVE j < i <=> v[j].origin < d
  <2>1. j < i <=> m[j] < m[i]
    BY <1>3, <1>4, KeepsOrder
  <2>2. m[j] \in DOMAIN w /\ v[j].origin = w[m[j]].origin
    BY <1>3 DEF Keeps
  <2> QED BY <1>1, <1>4, <2>1, <2>2
<1> QED BY <1>3, <1>4, <1>5, <1>6, <1>7

LEMMA RemovalRelinks ==
  ASSUME NEW v, NEW w, NEW s, NEW step, NEW m, NEW P, NEW from, NEW to, Removal(v, w, s, step, m, P, from, to), From(w, s),
         Sequence(s), Relinks(w, s)
  PROVE  Relinks(v, s)
<1> DEFINE before == DOMAIN s \ Origins(w)
           after == DOMAIN s \ Origins(v)
<1>0. before \subseteq after
  BY RemovalOrigins
<1>1. \A ids : Closed(ids, s, after) => Closed(ids, s, before)
  BY <1>0 DEF Closed
<1> SUFFICES ASSUME NEW i \in DOMAIN v, NEW was, was = s[v[i].origin].parent, v[i].parent # was
             PROVE  v[i].parent \in Ids(v) /\ Leads(s, after, was, v[i].parent)
  BY DEF Relinks
<1> DEFINE p == w[m[i]].parent
<1>2. i \in DOMAIN m /\ m[i] \in DOMAIN w /\ was = s[w[m[i]].origin].parent
  BY DEF Removal, Keeps
<1>3. p = was \/ (p \in Ids(w) /\ Leads(s, before, was, p))
  BY <1>2 DEF Relinks
<1>4. v[i].parent = IF p = from THEN to ELSE p
  BY <1>2 DEF Removal
<1> HIDE DEF before, after, p
<1>5. ASSUME NEW ids \in SUBSET (Ids(s) \union {was}), was \in ids, Closed(ids, s, after) PROVE p \in ids
  BY <1>1, <1>3, <1>5 DEF Leads
<1>6. \A x \in DOMAIN w : w[x].origin \in DOMAIN s /\ w[x].id = s[w[x].origin].id
  BY DEF From, Same
<1>7. CASE p = from /\ from # to
  <2>1. PICK x \in P, y \in DOMAIN w \ P : w[x].id = from /\ w[y].id = to /\ Covers(s, w[y].origin, w[x].origin)
    BY <1>7 DEF Removal
  <2>2. x \in DOMAIN w /\ y \in DOMAIN w /\ v[i].parent = to
    BY <1>4, <1>7 DEF Removal
  <2>3. to \in Ids(v)
    BY <2>1, RemovalOrigins
  <2>4. w[x].origin \in after
    BY <1>6, <2>2, RemovalOrigins DEF after
  <2>5. StandsFor(s, w[y].origin, w[x].origin)
    BY <1>6, <2>1, <2>2, CoversIs
  <2>6. ASSUME NEW ids \in SUBSET (Ids(s) \union {was}), was \in ids, Closed(ids, s, after) PROVE to \in ids
    <3>1. from \in ids
      BY <1>5, <1>7, <2>6
    <3> QED BY <1>6, <2>1, <2>2, <2>4, <2>5, <2>6, <3>1 DEF Closed
  <2> QED BY <2>2, <2>3, <2>6 DEF Leads
<1>8. CASE ~ (p = from /\ from # to)
  <2>1. v[i].parent = p
    BY <1>4, <1>8
  <2>2. p \in Ids(w)
    BY <1>3, <2>1
  <2>3. PICK x \in DOMAIN w : w[x].id = p
    BY <2>2 DEF Ids
  <2>4. p \in Ids(v)
    <3>1. CASE x \notin P
      BY <2>3, <3>1, RemovalOrigins
    <3>2. CASE x \in P
      <4>1. PICK y \in DOMAIN w \ P : w[y].id = w[x].id \/ (w[x].id = from /\ w[y].id = to)
        BY <3>2 DEF Removal
      <4>2. w[y].id = p
        BY <1>8, <2>3, <4>1
      <4> QED BY <4>2, RemovalOrigins
    <3> QED BY <3>1, <3>2
  <2> QED BY <1>5, <2>1, <2>4 DEF Leads
<1> QED BY <1>7, <1>8

-----------------------------------------------------------------------------
\* Names of the recipes decide between steps at one place.
LEMMA RecipeOrder ==
  /\ DOMAIN AllRecipes = 1..10 /\ Len(AllRecipes) = 10
  /\ AllRecipes[1] = "compaction-projection-reunion"
  /\ AllRecipes[2] = "duplicate-projection-removal"
  /\ AllRecipes[3] = "identical-duplicate-collapse"
  /\ AllRecipes[4] = "identical-duplicate-drop"
<1>1. Len(AllRecipes) = 10
  BY DEF AllRecipes
<1>2. DOMAIN AllRecipes = 1..10
  BY DEF AllRecipes
<1> QED BY <1>1, <1>2 DEF AllRecipes

LEMMA RankIs ==
  ASSUME NEW step
  PROVE  /\ step.recipe = "duplicate-projection-removal" => RankOf(step) = 2
         /\ step.recipe = "identical-duplicate-collapse" => RankOf(step) = 3
         /\ step.recipe = "identical-duplicate-drop" => RankOf(step) = 4
<1> DEFINE I == {i \in 1..Len(AllRecipes) : AllRecipes[i] = step.recipe}
<1>1. RankOf(step) = IF I # {} THEN Min(I) ELSE 0
  BY DEF RankOf, SelectInSeq, Min
<1>2. Len(AllRecipes) = 10
  BY RecipeOrder
<1> HIDE DEF I
<1>3. ASSUME NEW n \in 1..10, n \in I, \A i \in 1..10 : i < n => i \notin I PROVE RankOf(step) = n
  <2>1. I \subseteq 1..10
    BY <1>2 DEF I
  <2>2. Min(I) \in I /\ Min(I) =< n
    BY <1>3, <2>1, MinIs
  <2>3. Min(I) \in 1..10 /\ ~ (Min(I) < n)
    BY <1>3, <2>1, <2>2
  <2>4. Min(I) = n
    BY <2>2, <2>3
  <2>5. RankOf(step) = Min(I)
    BY <1>1, <1>3
  <2> QED BY <2>4, <2>5
<1>4. \A i \in 1..10 : i \in I <=> AllRecipes[i] = step.recipe
  BY <1>2 DEF I
<1>5. \A i \in 1..10 : i < 4 => i = 1 \/ i = 2 \/ i = 3
  OBVIOUS
<1>6. step.recipe = "duplicate-projection-removal" => 2 \in I /\ 1 \notin I
  BY <1>4, RecipeOrder
<1>7. step.recipe = "identical-duplicate-collapse" => 3 \in I /\ 2 \notin I /\ 1 \notin I
  BY <1>4, RecipeOrder
<1>8. step.recipe = "identical-duplicate-drop" => 4 \in I /\ 3 \notin I /\ 2 \notin I /\ 1 \notin I
  BY <1>4, RecipeOrder
<1> QED BY <1>3, <1>5, <1>6, <1>7, <1>8

\* Of the steps at one place, that of a projection is first.
LEMMA ProjectionFirst ==
  ASSUME NEW p, NEW q, p.at \in Nat, q.at = p.at, 1 =< p.at, p.recipe = "duplicate-projection-removal",
         q.recipe \in {"identical-duplicate-collapse", "identical-duplicate-drop"}
  PROVE  Precedes(p, q)
<1>1. RankOf(p) = 2 /\ RankOf(q) \in {3, 4}
  BY RankIs
<1>2. PlaceOf(p) = PlaceOf(q)
  BY DEF PlaceOf
<1> QED BY <1>1, <1>2 DEF Precedes

-----------------------------------------------------------------------------
(***************************************************************************)
(* Projections: which result a step drops, in the source and where it is   *)
(* carried out.                                                            *)
(***************************************************************************)
LEMMA ResultPositions ==
  ASSUME NEW s, Sequence(s), NEW k
  PROVE  /\ Results(s, k) \subseteq DOMAIN s /\ Results(s, k) \subseteq Nat
         /\ \A i \in Results(s, k) : i \in DOMAIN s /\ s[i].kind = "tool_result" /\ s[i].corr = k
         /\ \A i \in DOMAIN s : s[i].kind = "tool_result" /\ s[i].corr = k => i \in Results(s, k)
<1>1. \A i \in Results(s, k) : i \in DOMAIN s /\ s[i].kind = "tool_result" /\ s[i].corr = k
  BY DEF Results, OfKind
<1>2. \A i \in DOMAIN s : s[i].kind = "tool_result" /\ s[i].corr = k => i \in Results(s, k)
  BY DEF Results, OfKind
<1> QED BY <1>1, <1>2, Order

\* The second result of a call in the source of a step that removes a projection.
LEMMA SecondIs ==
  ASSUME NEW s, Sequence(s), NEW step, Projects(step, s)
  PROVE  LET r == Second(s, step.corr)
         IN /\ step.at = Min(Results(s, step.corr)) /\ step.at \in Results(s, step.corr)
            /\ r \in Results(s, step.corr) /\ step.at < r
            /\ \A i \in Results(s, step.corr) : step.at =< i /\ (i = step.at \/ r =< i)
            /\ s[r].content = s[step.at].content
<1> DEFINE results == Results(s, step.corr)
           r == Second(s, step.corr)
<1>1. step.at = Min(results) /\ step.at \in results /\ results \ {step.at} # {} /\ step.recipe = "duplicate-projection-removal"
  BY DEF Projects
<1>2. results \in SUBSET Nat /\ results \ {step.at} \in SUBSET Nat
  BY ResultPositions
<1>3. r = Min(results \ {step.at})
  BY <1>1 DEF Second
<1>4. \A i, j \in results : s[i].content = s[j].content
  BY DEF Projects
<1> HIDE DEF results, r
<1>5. \A i \in results : step.at =< i
  BY <1>1, <1>2, MinIs
<1>6. r \in results \ {step.at} /\ \A i \in results \ {step.at} : r =< i
  BY <1>1, <1>2, <1>3, MinIs
<1>7. step.at < r
  <2>1. step.at \in Nat /\ r \in Nat /\ r # step.at
    BY <1>1, <1>2, <1>6
  <2>2. step.at =< r
    BY <1>5, <1>6
  <2> QED BY <2>1, <2>2
<1> QED BY <1>1, <1>4, <1>5, <1>6, <1>7 DEF results, r

\* Nothing applied before has dropped the second result: a step at the same place
\* that would have comes later in the plan.
LEMMA SecondPresent ==
  ASSUME NEW lines, NEW format, NEW ack, Events(Decoded(lines)), NEW s, s = Decoded(lines), NEW w, From(w, s),
         NEW done, NEW left, Progress(done, left, StepsFor(lines, format, "conservative", ack)), Missing(w, s, done),
         NEW step, left # <<>>, step = Head(left), step.recipe = "duplicate-projection-removal"
  PROVE  Second(s, step.corr) \in Origins(w)
<1> DEFINE S == StepsFor(lines, format, "conservative", ack)
           r == Second(s, step.corr)
<1>0. Sequence(s)
  BY DEF Events
<1>1. step \in S /\ 1 \in DOMAIN left /\ step = left[1]
  BY OneMoreDone
<1>2. Projects(step, s)
  BY <1>1, ProjectionPlanned
<1>3. /\ step.at \in Results(s, step.corr) /\ step.at = Min(Results(s, step.corr))
      /\ r \in Results(s, step.corr) /\ step.at < r
      /\ \A i \in Results(s, step.corr) : step.at =< i /\ (i = step.at \/ r =< i)
  BY <1>0, <1>2, SecondIs
<1>4. /\ \A i \in DOMAIN s : s[i].kind = "tool_result" /\ s[i].corr = step.corr => i \in Results(s, step.corr)
      /\ \A i \in Results(s, step.corr) : i \in DOMAIN s /\ i \in Nat /\ 1 =< i /\ s[i].kind = "tool_result" /\ s[i].corr = step.corr
  BY <1>0, ResultPositions, Order
<1> SUFFICES ASSUME r \notin Origins(w) PROVE FALSE
  OBVIOUS
<1>5. PICK n \in DOMAIN done : Gone(done[n], s, r)
  BY <1>3, <1>4 DEF Missing
<1>6. PICK q : q = done[n]
  OBVIOUS
<1>7. q \in S /\ q # step /\ ~ Precedes(step, q)
  BY <1>1, <1>5, <1>6 DEF Progress
<1> HIDE DEF r
<1>8. ASSUME q.at \in DOMAIN s, Alikes(s[q.at], s[r]), q.at < r,
             q.recipe \in {"identical-duplicate-collapse", "identical-duplicate-drop"}
      PROVE  FALSE
  <2>1. q.at \in Results(s, step.corr)
    BY <1>3, <1>4, <1>8 DEF Alikes
  <2>2. q.at = step.at
    BY <1>3, <1>4, <1>8, <2>1
  <2> QED BY <1>3, <1>4, <1>7, <1>8, <2>2, ProjectionFirst
<1>9. CASE q.recipe = "identical-duplicate-collapse" /\ r = q.at + 1
  <2>1. Collapses(q, s)
    BY <1>7, <1>9, CollapsePlanned
  <2>2. q.at \in DOMAIN s /\ Alikes(s[q.at], s[r]) /\ q.at < r
    BY <1>0, <1>9, <2>1, Order DEF Collapses
  <2> QED BY <1>8, <1>9, <2>2
<1>10. CASE q.recipe = "identical-duplicate-drop" /\ \E i \in DOMAIN q.list : i # 1 /\ r = q.list[i]
  <2>1. Drops(q, s)
    BY <1>7, <1>10, DropPlanned
  <2>2. PICK i \in DOMAIN q.list : i # 1 /\ r = q.list[i]
    BY <1>10
  <2>3. 1 \in DOMAIN q.list /\ 1 < i
    BY <2>1, <2>2, Order DEF Drops
  <2>4. q.at \in DOMAIN s /\ Alikes(s[q.at], s[r]) /\ q.at < r
    BY <2>1, <2>2, <2>3 DEF Drops, Rising
  <2> QED BY <1>8, <1>10, <2>4
<1>11. CASE q.recipe = "duplicate-projection-removal" /\ r = Second(s, q.corr)
  <2>1. Projects(q, s)
    BY <1>7, <1>11, ProjectionPlanned
  <2>2. r \in Results(s, q.corr)
    BY <1>0, <1>11, <2>1, SecondIs
  <2>3. q.corr = step.corr
    BY <1>0, <1>3, <1>4, <2>2, ResultPositions
  <2>4. q = step
    BY <1>2, <2>1, <2>3 DEF Projects
  <2> QED BY <1>7, <2>4
<1> QED BY <1>5, <1>6, <1>9, <1>10, <1>11 DEF Gone

\* Only boundaries are passed, and only by others: events of one kind keep their order.
LEMMA KindOrder ==
  ASSUME NEW s, Sequence(s), NEW w, From(w, s), NEW spans, CrossWithin(w, spans),
         NEW i \in DOMAIN w, NEW j \in DOMAIN w, w[i].kind = w[j].kind, w[i].origin < w[j].origin
  PROVE  i < j
<1>1. w[i].origin \in Nat /\ w[j].origin \in Nat
  BY Order DEF From
<1>2. ~ (j < i)
  BY <1>1 DEF CrossWithin, Crossed
<1>3. i # j
  BY <1>1
<1> QED BY <1>2, <1>3, Order DEF From

\* An event is, but for its parent, the one it came from.
LEMMA OriginIs ==
  ASSUME NEW s, NEW w, From(w, s), NEW i \in DOMAIN w
  PROVE  /\ w[i].origin \in DOMAIN s /\ w[i].origin \in Origins(w)
         /\ w[i].id = s[w[i].origin].id /\ w[i].kind = s[w[i].origin].kind /\ w[i].corr = s[w[i].origin].corr
         /\ w[i].content = s[w[i].origin].content
         /\ \A o \in Origins(w) : o = w[i].origin => PositionOf(w, o) = i
<1>1. w[i].origin \in Origins(w)
  BY DEF Origins
<1>2. \A o \in Origins(w) : PositionOf(w, o) \in DOMAIN w /\ w[PositionOf(w, o)].origin = o
  BY PositionIs
<1> QED BY <1>1, <1>2 DEF From, Same

\* Where the step is carried out, it finds the same two results.
LEMMA ProjectionIs ==
  ASSUME NEW s, Sequence(s), NEW w, From(w, s), NEW spans, CrossWithin(w, spans),
         NEW step, Projects(step, s), step.at \in Origins(w), Second(s, step.corr) \in Origins(w),
         NEW here, here.corr = step.corr, here.at = PositionOf(w, step.at)
  PROVE  /\ Min(Results(w, step.corr)) = PositionOf(w, step.at)
         /\ ProjectionAt(here, w) = PositionOf(w, Second(s, step.corr))
<1> DEFINE k == step.corr
           r == Second(s, k)
           p == PositionOf(w, step.at)
           d == PositionOf(w, r)
           R == Results(w, k)
           later == R \ {Min(R)}
<1>0. Sequence(w)
  BY DEF From
<1>1. /\ step.at \in Results(s, k) /\ r \in Results(s, k) /\ step.at < r
      /\ \A i \in Results(s, k) : step.at =< i /\ (i = step.at \/ r =< i)
  BY SecondIs
<1>2. p \in DOMAIN w /\ w[p].origin = step.at /\ d \in DOMAIN w /\ w[d].origin = r
  BY PositionIs
<1>3. \A i \in R : i \in DOMAIN w /\ i \in Nat /\ w[i].kind = "tool_result" /\ w[i].corr = k /\ w[i].origin \in Results(s, k)
  <2>1. \A i \in R : i \in DOMAIN w /\ i \in Nat /\ w[i].kind = "tool_result" /\ w[i].corr = k
    BY <1>0, ResultPositions
  <2>2. \A i \in DOMAIN w : w[i].origin \in DOMAIN s /\ w[i].kind = s[w[i].origin].kind /\ w[i].corr = s[w[i].origin].corr
    BY OriginIs
  <2>3. \A i \in DOMAIN s : s[i].kind = "tool_result" /\ s[i].corr = k => i \in Results(s, k)
    BY ResultPositions
  <2> QED BY <2>1, <2>2, <2>3
<1>4. p \in R /\ d \in R
  BY <1>0, <1>1, <1>2, ResultPositions, OriginIs
<1>5. \A i \in R : w[i].origin = step.at => i = p
  BY <1>2, <1>3 DEF From
<1>6. \A i \in R : w[i].origin = r => i = d
  BY <1>2, <1>3 DEF From
<1>7. \A i \in Results(s, k) : i \in Nat
  BY ResultPositions
<1> HIDE DEF k, r, p, d, R
<1>8. ASSUME NEW i \in R PROVE p =< i /\ (i = p \/ d =< i)
  <2>1. CASE w[i].origin = step.at
    BY <1>3, <1>5, <2>1
  <2>2. CASE w[i].origin # step.at
    <3>1. r =< w[i].origin /\ step.at < w[i].origin
      BY <1>1, <1>3, <1>7, <2>2
    <3>2. p < i
      BY <1>2, <1>3, <1>4, <3>1, KindOrder
    <3>3. d =< i
      <4>1. CASE w[i].origin = r
        BY <1>3, <1>6, <4>1
      <4>2. CASE w[i].origin # r
        <5>1. r < w[i].origin
          BY <1>1, <1>3, <1>7, <3>1, <4>2
        <5>2. d < i
          BY <1>2, <1>3, <1>4, <5>1, KindOrder
        <5> QED BY <1>3, <1>4, <5>2
      <4> QED BY <4>1, <4>2
    <3> QED BY <1>3, <1>4, <3>2, <3>3
  <2> QED BY <2>1, <2>2
<1>9. p < d
  BY <1>1, <1>2, <1>3, <1>4, KindOrder
<1>10. R \in SUBSET Nat /\ R # {}
  BY <1>3, <1>4
<1>11. Min(R) = p
  <2>1. Min(R) \in R /\ Min(R) =< p
    BY <1>4, <1>10, MinIs
  <2> QED BY <1>3, <1>4, <1>8, <2>1
<1>12. \A i \in R : w[i].content = w[p].content
  <2>1. \A i, j \in Results(s, k) : s[i].content = s[j].content
    BY DEF Projects, k
  <2> QED BY <1>3, <1>4, <2>1, OriginIs
<1>13. {i \in later : w[i].content = w[Min(R)].content} = later
  BY <1>11, <1>12
<1>14. later = R \ {p} /\ d \in later
  BY <1>3, <1>4, <1>9, <1>11
<1>15. Min(later) = d
  <2>1. later \in SUBSET Nat /\ later # {}
    BY <1>3, <1>14
  <2>2. Min(later) \in later /\ Min(later) =< d
    BY <1>14, <2>1, MinIs
  <2> QED BY <1>3, <1>4, <1>8, <1>14, <2>2
<1>16. here.at \notin later /\ R # {} /\ later # {}
  BY <1>4, <1>14 DEF p
<1>17. ProjectionAt(here, w) = Min(later)
  <2>1. R = Results(w, here.corr)
    BY DEF R, k
  <2> HIDE DEF later
  <2>2. later = R \ {Min(R)}
    BY DEF later
  <2> QED BY <1>13, <1>16, <2>1, <2>2 DEF ProjectionAt
<1> QED BY <1>11, <1>15, <1>17 DEF k, r, p, d, R

-----------------------------------------------------------------------------
(***************************************************************************)
(* Each conservative recipe but the reunion is a removal.                  *)
(***************************************************************************)
Removes(v, w, s, step) == \E m, P, from, to : Removal(v, w, s, step, m, P, from, to)

\* v is w without the events at P, and with from replaced by to as a parent.
Taken(v, w, m, P, from, to) ==
  /\ Keeps(v, w, m)
  /\ \A i \in DOMAIN m : m[i] \notin P /\ v[i].parent = IF w[m[i]].parent = from THEN to ELSE w[m[i]].parent
  /\ \A x \in DOMAIN w \ P : \E i \in DOMAIN m : m[i] = x

\* What is left when some events go and their children are relinked.
LEMMA TakenIs ==
  ASSUME NEW w, Events(w), NEW P, NEW from, NEW to
  PROVE  \E m : Taken(Relinked(Without(w, P), from, to), w, m, P, from, to)
BY RemovedIs DEF Taken

\* Conservative steps stay in their scope, which has nothing delicate in it.
LEMMA ScopeIs ==
  ASSUME NEW lines, NEW format, NEW ack, NEW step \in StepsFor(lines, format, "conservative", ack)
  PROVE  /\ InScope(step, Decoded(lines)) /\ StepShape(step)
         /\ step.recipe \in {"compaction-projection-reunion", "duplicate-projection-removal",
                             "identical-duplicate-collapse", "identical-duplicate-drop",
                             "torn-terminal-record-discard"}
<1>1. PICK f : PlannedFor(step, f, lines, format, "conservative", ack)
  BY StepIs
<1> QED BY <1>1, RecipeIs, ShapeOfStep

LEMMA ScopeSpares ==
  ASSUME NEW step, NEW s, InScope(step, s), NEW i \in Region(step, s), i \in DOMAIN s
  PROVE  i \notin Delicate(s)
BY DEF InScope

\* Each recipe is a removal, where it is carried out on events that stand as they should.
LEMMA CollapseRemoves ==
  ASSUME NEW s, Events(s), NEW w, From(w, s), Adjacent(w, s), NEW step, StepShape(step),
         step.recipe = "identical-duplicate-collapse", Collapses(step, s), InScope(step, s), Relocatable(step, w)
  PROVE  Removes(Outcome(Relocate(step, w), w), w, s, step)
<1> DEFINE a == step.at
           p == PositionOf(w, a)
<1>0. Sequence(s) /\ Sequence(w) /\ Events(w)
  BY FromEvents DEF Events
<1>1. /\ a \in DOMAIN s /\ a + 1 \in DOMAIN s /\ a \in Nat /\ 1 =< a
      /\ Alike(s[a], s[a + 1]) /\ Alikes(s[a], s[a + 1])
  BY <1>0, Order DEF Collapses
<1>2. a \in Origins(w) /\ a + 1 \in Origins(w)
  BY <1>1 DEF Relocatable, Addresses, Collapses
<1>3. p \in DOMAIN w /\ w[p].origin = a /\ p \in Nat /\ 1 =< p
  BY <1>0, <1>2, PositionIs, Order
<1> HIDE DEF p
<1>4. p + 1 \in DOMAIN w /\ w[p + 1].origin = a + 1
  BY <1>1, <1>2, <1>3 DEF Adjacent, Alike, Alikes, IsMark
<1>5. Alike(w[p], w[p + 1]) /\ w[p].id = w[p + 1].id
  BY <1>1, <1>3, <1>4, OriginIs DEF Alike, Alikes, IsMark
<1>6. PICK here : here = Relocate(step, w)
  OBVIOUS
<1>7. here.recipe = "identical-duplicate-collapse" /\ here.at = p
  <2>1. here.recipe = step.recipe /\ here.at = IF step.at = 0 THEN 0 ELSE PositionOf(w, step.at)
    BY <1>6, RelocatedFields
  <2>2. step.at # 0
    BY <1>1
  <2> QED BY <2>1, <2>2 DEF p
<1>8. p < Len(w) /\ a < Len(s)
  BY <1>0, <1>1, <1>3, <1>4, Order
<1>9. CollapseAt(here, w) = p + 1 /\ CollapseAt(step, s) = a + 1
  BY <1>1, <1>5, <1>7, <1>8 DEF CollapseAt
<1>10. (p + 1) - 1 = p
  BY <1>3
<1>11. Outcome(here, w) = Relinked(Without(w, {p + 1}), w[p + 1].id, w[p].id)
  BY <1>7, <1>9, <1>10 DEF Outcome, Lossy, OnLines, Apply
<1>12. PICK m : Taken(Outcome(here, w), w, m, {p + 1}, w[p + 1].id, w[p].id)
  BY <1>0, <1>11, TakenIs
<1>13. a + 1 \notin Delicate(s)
  <2>1. a + 1 \in Region(step, s)
    BY <1>9 DEF Region
  <2> QED BY <1>1, <2>1, ScopeSpares
<1>14. Gone(step, s, a + 1)
  BY DEF Gone
<1>15. Covers(s, a, a + 1)
  BY <1>1 DEF Covers, Alike
<1>16. p \in DOMAIN w \ {p + 1}
  BY <1>3
<1>17. Removal(Outcome(here, w), w, s, step, m, {p + 1}, w[p + 1].id, w[p].id)
  BY <1>3, <1>4, <1>5, <1>12, <1>13, <1>14, <1>15, <1>16 DEF Removal, Taken
<1> QED BY <1>6, <1>17 DEF Removes

LEMMA DropRemoves ==
  ASSUME NEW s, Events(s), NEW w, From(w, s), NEW step, StepShape(step),
         step.recipe = "identical-duplicate-drop", Drops(step, s), InScope(step, s), Relocatable(step, w)
  PROVE  Removes(Outcome(Relocate(step, w), w), w, s, step)
<1> DEFINE list == step.list
<1>0. Sequence(s) /\ Sequence(w) /\ Events(w) /\ Sequence(list)
  BY FromEvents DEF Events, Drops
<1>1. /\ \A i \in DOMAIN list : i \in Nat /\ 1 =< i /\ i =< Len(list)
      /\ Len(list) \in Nat /\ DOMAIN list = 1..Len(list) /\ 1 \in DOMAIN list /\ Len(list) \in DOMAIN list
  BY <1>0, Order DEF Drops
<1>2. \A i \in DOMAIN list : list[i] \in DOMAIN s /\ list[i] \in Nat /\ 1 =< list[i] /\ Alikes(s[list[1]], s[list[i]])
  BY <1>0, Order DEF Drops
<1>3. \A i, j \in DOMAIN list : i < j => list[i] < list[j]
  BY DEF Drops, Rising
<1>4. \A i \in DOMAIN list : list[i] \in Origins(w)
  BY <1>1, <1>2 DEF Relocatable, Addresses, ToSet
<1>5. PICK here : here = Relocate(step, w)
  OBVIOUS
<1>6. here.recipe = "identical-duplicate-drop" /\ here.list = [i \in DOMAIN list |-> PositionOf(w, list[i])]
  BY <1>5, RelocatedFields
<1> HIDE DEF list
<1>7. \A i \in DOMAIN list : here.list[i] \in DOMAIN w /\ w[here.list[i]].origin = list[i]
  BY <1>4, <1>6, PositionIs
<1>8. Len(here.list) = Len(list)
  BY <1>1, <1>6
<1>9. PICK P : P = DropPositions(here, w)
  OBVIOUS
<1>10. P = {here.list[i] : i \in 2..Len(list)}
  BY <1>8, <1>9 DEF DropPositions
<1>11. Outcome(here, w) = Without(w, P)
  BY <1>6, <1>9 DEF Outcome, Lossy, OnLines, Apply
<1>12. PICK m : Leaves(Without(w, P), w, P, m)
  BY <1>0, WithoutIs
<1>13. here.list[1] \in DOMAIN w \ P
  <2> SUFFICES ASSUME here.list[1] \in P PROVE FALSE
    BY <1>1, <1>7
  <2>1. PICK i \in 2..Len(list) : here.list[1] = here.list[i]
    BY <1>10
  <2>2. i \in DOMAIN list /\ 1 < i
    BY <1>1, <2>1
  <2>3. list[1] = list[i] /\ list[1] < list[i] /\ list[1] \in Nat
    BY <1>1, <1>2, <1>3, <1>7, <2>1, <2>2
  <2> QED BY <2>3
<1>14. ASSUME NEW x \in P
       PROVE  /\ x \in DOMAIN w /\ w[x].origin \notin Delicate(s) /\ Gone(step, s, w[x].origin)
              /\ Covers(s, w[here.list[1]].origin, w[x].origin) /\ w[here.list[1]].id = w[x].id
  <2>1. PICK i \in 2..Len(list) : x = here.list[i]
    BY <1>10
  <2>2. i \in DOMAIN list /\ i # 1 /\ 1 < i
    BY <1>1, <2>1
  <2>3. x \in DOMAIN w /\ w[x].origin = list[i] /\ here.list[1] \in DOMAIN w /\ w[here.list[1]].origin = list[1]
    BY <1>1, <1>7, <2>1, <2>2
  <2>4. Gone(step, s, list[i])
    BY <2>2 DEF Gone, list
  <2>5. list[1] =< list[i] /\ list[i] =< list[Len(list)]
    BY <1>1, <1>2, <1>3, <2>2
  <2>6. list[i] \in Region(step, s)
    <3>1. Last(step.list) = list[Len(list)]
      BY DEF Last, list
    <3>2. Region(step, s) = list[1]..list[Len(list)]
      BY <3>1 DEF Region, list
    <3> QED BY <1>1, <1>2, <2>2, <2>5, <3>2
  <2>7. list[i] \notin Delicate(s)
    BY <1>2, <2>2, <2>6, ScopeSpares
  <2>8. Alikes(s[list[1]], s[list[i]]) /\ list[1] < list[i]
    BY <1>1, <1>2, <1>3, <2>2
  <2>9. Covers(s, list[1], list[i])
    BY <2>8 DEF Covers, Alikes
  <2>10. w[here.list[1]].id = w[x].id
    BY <2>3, <2>8, OriginIs DEF Alikes
  <2> QED BY <2>3, <2>4, <2>7, <2>9, <2>10
<1>15. PICK v : v = Outcome(here, w)
  OBVIOUS
<1>16. /\ Keeps(v, w, m)
       /\ \A i \in DOMAIN m : m[i] \notin P /\ v[i].parent = IF w[m[i]].parent = None THEN None ELSE w[m[i]].parent
       /\ \A x \in DOMAIN w \ P : \E i \in DOMAIN m : m[i] = x
  BY <1>11, <1>12, <1>15 DEF Leaves
<1>17. Removal(v, w, s, step, m, P, None, None)
  BY <1>13, <1>14, <1>16 DEF Removal
<1> QED BY <1>5, <1>15, <1>17 DEF Removes

-----------------------------------------------------------------------------
LEMMA ProjectionRemoves ==
  ASSUME NEW s, Events(s), NEW w, From(w, s), NEW spans, CrossWithin(w, spans), NEW step, StepShape(step),
         step.recipe = "duplicate-projection-removal", Projects(step, s), InScope(step, s),
         Relocatable(step, w), Second(s, step.corr) \in Origins(w)
  PROVE  Removes(Outcome(Relocate(step, w), w), w, s, step)
<1> DEFINE k == step.corr
           a == step.at
           r == Second(s, k)
           p == PositionOf(w, a)
           d == PositionOf(w, r)
<1>0. Sequence(s) /\ Sequence(w) /\ Events(w)
  BY FromEvents DEF Events
<1>1. /\ a = Min(Results(s, k)) /\ a \in Results(s, k) /\ r \in Results(s, k) /\ a < r
      /\ \A i \in Results(s, k) : a =< i /\ (i = a \/ r =< i)
      /\ s[r].content = s[a].content
  BY <1>0, SecondIs
<1>2. /\ a \in DOMAIN s /\ a \in Nat /\ 1 =< a /\ r \in DOMAIN s /\ r \in Nat
      /\ s[a].kind = "tool_result" /\ s[r].kind = "tool_result" /\ s[a].corr = k /\ s[r].corr = k /\ k # None
  <2>1. a \in DOMAIN s /\ r \in DOMAIN s /\ s[a].kind = "tool_result" /\ s[r].kind = "tool_result"
        /\ s[a].corr = k /\ s[r].corr = k
    BY <1>0, <1>1, ResultPositions
  <2> QED BY <1>0, <2>1, Order DEF Projects
<1>3. a \in Origins(w)
  BY <1>2 DEF Relocatable, Addresses
<1>4. PICK here : here = Relocate(step, w)
  OBVIOUS
<1>5. here.recipe = "duplicate-projection-removal" /\ here.corr = k /\ here.at = p
  <2>1. here.recipe = step.recipe /\ here.corr = step.corr /\ here.at = IF step.at = 0 THEN 0 ELSE PositionOf(w, step.at)
    BY <1>4, RelocatedFields
  <2>2. step.at # 0
    BY <1>2
  <2> QED BY <2>1, <2>2
<1>6. Min(Results(w, k)) = p /\ ProjectionAt(here, w) = d
  BY <1>0, <1>3, <1>5, ProjectionIs
<1>7. p \in DOMAIN w /\ w[p].origin = a /\ d \in DOMAIN w /\ w[d].origin = r
  BY <1>3, PositionIs
\* In the source the step finds the same result, and spares what is delicate.
<1>8. ProjectionAt(step, s) = r
  <2> DEFINE R == Results(s, k)
             later == R \ {a}
  <2>2. R \in SUBSET Nat
    BY <1>0, ResultPositions
  <2>3. \A i \in R : s[i].content = s[a].content
    BY <1>1 DEF Projects
  <2>4. r \in later /\ later \in SUBSET Nat
    BY <1>1, <1>2, <2>2
  <2>5. {i \in later : s[i].content = s[a].content} = later
    BY <2>3
  <2> HIDE DEF R
  <2>6. Min(later) = r
    BY <1>1 DEF Second, R
  <2>7. ProjectionAt(step, s) = Min(later)
    <3>1. Min(R) = a /\ R = Results(s, step.corr) /\ R # {} /\ later # {} /\ step.at \notin later
      BY <1>1, <2>4 DEF R
    <3> QED BY <2>5, <3>1 DEF ProjectionAt
  <2> QED BY <2>6, <2>7
<1>9. r \notin Delicate(s)
  <2>1. r \in Region(step, s)
    BY <1>8 DEF Region
  <2> QED BY <1>2, <2>1, ScopeSpares
<1>10. \A e \in Delicate(s) : s[e].parent # s[r].id
  <2> SUFFICES ASSUME NEW e \in Delicate(s), s[e].parent = s[r].id PROVE FALSE
    OBVIOUS
  <2>1. e \in DOMAIN s
    BY DEF Delicate, Ambiguous, Tools, OfKind
  <2>2. e \in Region(step, s)
    BY <1>8, <2>1 DEF Region, Children
  <2> QED BY <2>1, <2>2, ScopeSpares
<1> HIDE DEF k, a, r, p, d
<1>11. w[d].id = s[r].id /\ p # d
  <2>1. w[d].id = s[w[d].origin].id
    BY <1>7, OriginIs
  <2>2. a # r
    BY <1>1, <1>2
  <2> QED BY <1>7, <2>1, <2>2
<1>12. Outcome(here, w) = Relinked(Without(w, {d}), w[d].id, w[p].id)
  <2>1. Outcome(here, w) = Apply(here, w)
    BY <1>5 DEF Outcome, Lossy, OnLines
  <2>2. Apply(here, w) = LET drop == ProjectionAt(here, w)
                         IN Relinked(Without(w, {drop}), w[drop].id, w[Min(Results(w, here.corr))].id)
    BY <1>5 DEF Apply
  <2> QED BY <1>5, <1>6, <2>1, <2>2
<1>13. PICK m : Taken(Outcome(here, w), w, m, {d}, w[d].id, w[p].id)
  BY <1>0, <1>12, TakenIs
<1>14. Gone(step, s, r)
  BY DEF Gone, r, k
<1>15. Covers(s, a, r)
  BY <1>1, <1>2 DEF Covers
<1>16. p \in DOMAIN w \ {d}
  BY <1>7, <1>11
<1>17. \A e \in Delicate(s) : s[e].parent # w[d].id
  BY <1>10, <1>11
<1>18. Removal(Outcome(here, w), w, s, step, m, {d}, w[d].id, w[p].id)
  BY <1>7, <1>9, <1>13, <1>14, <1>15, <1>16, <1>17 DEF Removal, Taken
<1> QED BY <1>4, <1>18 DEF Removes

\* Steps on undecoded lines leave the events alone.
LEMMA TornRemoves ==
  ASSUME NEW s, NEW w, From(w, s), NEW step, StepShape(step), step.recipe = "torn-terminal-record-discard"
  PROVE  Removes(Outcome(Relocate(step, w), w), w, s, step)
<1>1. PICK here : here = Relocate(step, w)
  OBVIOUS
<1>2. here.recipe = "torn-terminal-record-discard"
  BY <1>1, RelocatedFields
<1>3. Outcome(here, w) = w
  BY <1>2 DEF Outcome, Lossy, OnLines, Salvaged
<1>4. Events(w) /\ Sequence(w)
  BY FromEvents DEF From
<1> DEFINE m == [i \in 1..Len(w) |-> i]
<1>5. Sequence(m) /\ DOMAIN m = DOMAIN w /\ \A i \in DOMAIN m : m[i] = i
  <2>1. Len(w) \in Nat /\ DOMAIN w = 1..Len(w) /\ m \in [1..Len(w) -> 1..Len(w)]
    BY <1>4 DEF Sequence
  <2> QED BY <2>1, FromFunction
<1> HIDE DEF m
<1>6. Rising(m)
  BY <1>5 DEF Rising
<1>7. Keeps(w, w, m)
  BY <1>4, <1>5, <1>6, SameItself DEF Keeps, Events
<1>8. Removal(w, w, s, step, m, {}, None, None)
  BY <1>5, <1>7 DEF Removal
<1> QED BY <1>1, <1>3, <1>8 DEF Removes

\* What all conservative steps together keep.
Conserves(w, s, done) == Adjacent(w, s) /\ Missing(w, s, done) /\ Stood(w, s) /\ Untouched(w, s) /\ Relinks(w, s)

\* So every step keeps what conservative steps keep.
LEMMA RemovesConserves ==
  ASSUME NEW s, Sequence(s), NEW w, From(w, s), NEW v, NEW step, Removes(v, w, s, step),
         NEW done, Sequence(done), Conserves(w, s, done)
  PROVE  Conserves(v, s, Append(done, step))
<1>1. PICK m, P, from, to : Removal(v, w, s, step, m, P, from, to)
  BY DEF Removes
<1>2. Keeps(v, w, m)
  BY <1>1 DEF Removal
<1>3. Adjacent(v, s)
  BY <1>2, KeepsAdjacent DEF Conserves
<1>4. Missing(v, s, Append(done, step))
  BY <1>1, RemovalMissing DEF Conserves
<1>5. Stood(v, s)
  BY <1>1, RemovalStood DEF Conserves
<1>6. Untouched(v, s)
  BY <1>1, RemovalUntouched DEF Conserves
<1>7. Relinks(v, s)
  BY <1>1, RemovalRelinks DEF Conserves
<1> QED BY <1>3, <1>4, <1>5, <1>6, <1>7 DEF Conserves

\* A reunion keeps it as well.
LEMMA ReunionConserves ==
  ASSUME NEW s, Events(s), NEW w, From(w, s), NEW spans, CrossWithin(w, spans), NEW step, StepShape(step),
         step.recipe = "compaction-projection-reunion", step.corr \in CleanPairs(s), InScope(step, s),
         CarriesOut(Relocate(step, w), w), NEW done, Sequence(done), Conserves(w, s, done)
  PROVE  Conserves(Outcome(Relocate(step, w), w), s, Append(done, step))
<1>0. Sequence(s)
  BY DEF Events
<1>1. SplitOnce(w, step.corr) /\ Outcome(Relocate(step, w), w) = Reunited(w, step.corr)
  BY ReunionIs
<1>2. PICK v : v = Reunited(w, step.corr)
  OBVIOUS
<1>3. PICK b, e : /\ Moved(v, w, b, e)
                  /\ w[b].kind = "compaction_boundary"
                  /\ w[b].origin \in Span(s, step.corr) \/ \E i \in DOMAIN w : Crossed(w, i, b)
                  /\ \A x \in DOMAIN w : b < x /\ x =< e =>
                       w[x].kind # "compaction_boundary" /\ w[x].origin \in Span(s, step.corr)
                  /\ w[e].kind # "compaction_boundary" /\ w[e].corr = step.corr
                  /\ \A x \in DOMAIN w : w[x].kind = w[e].kind /\ w[x].corr = step.corr => x =< e
  BY <1>0, <1>1, <1>2, ReunitedIs
<1>4. Span(s, step.corr) \intersect Delicate(s) = {}
  <2>1. Region(step, s) = Span(s, step.corr)
    BY DEF Region
  <2>2. \A i \in Delicate(s) : i \in DOMAIN s
    BY DEF Delicate, Ambiguous, Tools, OfKind
  <2> QED BY <2>1, <2>2, ScopeSpares
<1>5. Adjacent(v, s)
  BY <1>3, MovedAdjacent DEF Conserves
<1>6. Origins(v) = Origins(w)
  BY <1>3, MovedOrigins
<1>7. Missing(v, s, Append(done, step))
  BY <1>6, AppendIs DEF Missing, Conserves
<1>8. Stood(v, s)
  BY <1>6 DEF Stood, Conserves
<1>9. Untouched(v, s)
  <2>1. \A x \in DOMAIN w : b < x /\ x =< e => w[x].origin \in Span(s, step.corr)
    BY <1>3
  <2>2. PICK span : span = Span(s, step.corr)
    OBVIOUS
  <2> QED BY <1>0, <1>3, <1>4, <2>1, <2>2, MovedUntouched DEF Conserves
<1>10. Relinks(v, s)
  BY <1>3, MovedRelinks DEF Conserves
<1> QED BY <1>1, <1>2, <1>5, <1>7, <1>8, <1>9, <1>10 DEF Conserves

\* The next step of a plan, whatever part of the plan was carried out before it.
LEMMA StepConserves ==
  ASSUME NEW lines, NEW format, NEW ack, NEW s, s = Decoded(lines), Events(s), NEW w, From(w, s), NEW spans, CrossWithin(w, spans),
         NEW done, NEW left, Progress(done, left, StepsFor(lines, format, "conservative", ack)), left # <<>>,
         NEW step, step = Head(left), Relocatable(step, w), CarriesOut(Relocate(step, w), w), Conserves(w, s, done)
  PROVE  Conserves(Outcome(Relocate(step, w), w), s, Append(done, step))
<1>0. Sequence(s) /\ Sequence(done) /\ Events(Decoded(lines))
  BY DEF Events, Progress
<1>1. step \in StepsFor(lines, format, "conservative", ack)
  BY OneMoreDone
<1>2. /\ InScope(step, s) /\ StepShape(step)
      /\ step.recipe \in {"compaction-projection-reunion", "duplicate-projection-removal",
                          "identical-duplicate-collapse", "identical-duplicate-drop", "torn-terminal-record-discard"}
  BY <1>1, ScopeIs
<1>3. CASE step.recipe = "compaction-projection-reunion"
  <2>1. step.corr \in CleanPairs(s)
    BY <1>1, <1>3, ReunionPlanned DEF SplitOnce
  <2> QED BY <1>0, <1>2, <1>3, <2>1, ReunionConserves
<1>4. CASE step.recipe # "compaction-projection-reunion"
  <2> SUFFICES Removes(Outcome(Relocate(step, w), w), w, s, step)
    BY <1>0, RemovesConserves
  <2>1. CASE step.recipe = "duplicate-projection-removal"
    <3>1. Projects(step, s)
      BY <1>0, <1>1, <2>1, ProjectionPlanned
    <3>2. Second(s, step.corr) \in Origins(w)
      BY <1>0, <2>1, SecondPresent DEF Conserves
    <3> QED BY <1>2, <2>1, <3>1, <3>2, ProjectionRemoves
  <2>2. CASE step.recipe = "identical-duplicate-collapse"
    <3>1. Collapses(step, s)
      BY <1>0, <1>1, <2>2, CollapsePlanned
    <3> QED BY <1>2, <2>2, <3>1, CollapseRemoves DEF Conserves
  <2>3. CASE step.recipe = "identical-duplicate-drop"
    <3>1. Drops(step, s)
      BY <1>0, <1>1, <2>3, DropPlanned
    <3> QED BY <1>2, <2>3, <3>1, DropRemoves
  <2>4. CASE step.recipe = "torn-terminal-record-discard"
    BY <1>2, <2>4, TornRemoves
  <2> QED BY <1>2, <1>4, <2>1, <2>2, <2>3, <2>4
<1> QED BY <1>3, <1>4

\* Nothing has changed when the executor starts.
LEMMA StartConserves ==
  ASSUME NEW s, Events(s)
  PROVE  Conserves(Tag(s), s, <<>>)
<1>0. Sequence(s)
  BY DEF Events
<1>1. /\ DOMAIN Tag(s) = DOMAIN s
      /\ \A i \in DOMAIN s : Tag(s)[i].origin = i /\ Tag(s)[i].parent = s[i].parent
  BY TagIs
<1>2. Origins(Tag(s)) = DOMAIN s
  BY <1>1 DEF Origins
<1>3. Adjacent(Tag(s), s)
  BY <1>1, <1>2 DEF Adjacent
<1>4. Missing(Tag(s), s, <<>>) /\ Stood(Tag(s), s)
  BY <1>2 DEF Missing, Stood
<1>5. Untouched(Tag(s), s)
  <2>1. \A d \in Delicate(s) : d \in DOMAIN s
    BY DEF Delicate, Ambiguous, Tools, OfKind
  <2> QED BY <1>1, <2>1 DEF Untouched
<1>6. Relinks(Tag(s), s)
  BY <1>1 DEF Relinks
<1> QED BY <1>3, <1>4, <1>5, <1>6 DEF Conserves

\* An event with the parent it had is the one it was.
LEMMA WholeRecord ==
  ASSUME NEW w, NEW s, From(w, s), NEW i \in DOMAIN w, w[i].parent = s[w[i].origin].parent
  PROVE  w[i] = [s[w[i].origin] EXCEPT !.origin = w[i].origin]
<1> DEFINE e == w[i]
           f == s[w[i].origin]
<1>1. Same(e, f) /\ e.parent = f.parent
  BY DEF From
<1> HIDE DEF e, f
<1>2. PICK g : g = [f EXCEPT !.origin = e.origin]
  OBVIOUS
<1>3. g = [id |-> f.id, parent |-> f.parent, kind |-> f.kind, corr |-> f.corr, content |-> f.content,
           effects |-> f.effects, origin |-> e.origin, joined |-> f.joined]
  BY <1>1, <1>2 DEF Same, Fields
<1>4. e = g
  BY <1>1, <1>3 DEF Same, Fields
<1> QED BY <1>2, <1>4 DEF e, f

\* No event of the source is in the copy twice.
LEMMA OriginsCounted ==
  ASSUME NEW w, NEW s, From(w, s)
  PROVE  Cardinality(Origins(w)) = Len(w)
<1>1. Len(w) \in Nat /\ DOMAIN w = 1..Len(w)
  BY DEF From, Sequence
<1> DEFINE S == 1..Len(w)
           f == [i \in S |-> w[i].origin]
<1>2. f \in [S -> Origins(w)]
  BY <1>1 DEF Origins
<1>3. \A i, j \in S : f[i] = f[j] => i = j
  BY <1>1 DEF From
<1>4. \A o \in Origins(w) : \E i \in S : f[i] = o
  BY <1>1 DEF Origins
<1>5. IsFiniteSet(S) /\ Cardinality(S) = Len(w)
  <2>1. 1 \in Int /\ Len(w) \in Int /\ IsFiniteSet(S) /\ Cardinality(S) = IF 1 > Len(w) THEN 0 ELSE Len(w) - 1 + 1
    BY <1>1, FS_Interval
  <2> QED BY <1>1, <2>1
<1> HIDE DEF S, f
<1>6. f \in Bijection(S, Origins(w))
  BY <1>2, <1>3, <1>4 DEF Bijection, Injection, Surjection, IsInjective
<1>7. ExistsBijection(S, Origins(w))
  BY <1>6 DEF ExistsBijection
<1> QED BY <1>5, <1>7, FS_Bijection

\* An event of the copy is that of the source but for its parent.
LEMMA BodyAgrees ==
  ASSUME NEW w, NEW s, From(w, s), NEW i \in DOMAIN w
  PROVE  /\ [Body(w[i]) EXCEPT !.parent = Body(s[w[i].origin]).parent] = Body(s[w[i].origin])
         /\ Body(w[i]).parent = w[i].parent /\ Body(s[w[i].origin]).parent = s[w[i].origin].parent
<1> DEFINE e == w[i]
           f == s[w[i].origin]
<1>1. Same(e, f)
  BY DEF From
<1> HIDE DEF e, f
<1>2. PICK g, h : g = Body(e) /\ h = Body(f)
  OBVIOUS
<1>3. g = [id |-> e.id, parent |-> e.parent, kind |-> e.kind, corr |-> e.corr, content |-> e.content,
           effects |-> e.effects, origin |-> 0, joined |-> FALSE]
  BY <1>1, <1>2 DEF Same, Fields, Body
<1>4. h = [id |-> f.id, parent |-> f.parent, kind |-> f.kind, corr |-> f.corr, content |-> f.content,
           effects |-> f.effects, origin |-> 0, joined |-> FALSE]
  BY <1>1, <1>2 DEF Same, Fields, Body
<1>5. PICK k : k = [g EXCEPT !.parent = h.parent]
  OBVIOUS
<1>6. k = [id |-> e.id, parent |-> h.parent, kind |-> e.kind, corr |-> e.corr, content |-> e.content,
           effects |-> e.effects, origin |-> 0, joined |-> FALSE]
  BY <1>3, <1>5
<1>7. g.parent = e.parent /\ h.parent = f.parent
  BY <1>3, <1>4
<1>8. k = h
  BY <1>1, <1>4, <1>6, <1>7 DEF Same
<1> QED BY <1>2, <1>5, <1>7, <1>8 DEF e, f

(***************************************************************************)
(* The inductive invariant.                                                *)
(***************************************************************************)
\* The steps the planner has for the plan's source.
Steps == StepsFor(plan.source, origin.format, plan.policy, plan.ack)

PlanIsMade == Events(file) /\ Events(plan.source) /\ Ordered(plan.steps, Steps)
StepsInOrder == Progress(applied, todo, Steps)
NothingYet == pc \in {"idle", "planned"} => todo = <<>> /\ applied = <<>> /\ loaded = <<>> /\ working = <<>>
SourceLoaded == pc \in {"applying", "written"} => loaded = Decoded(plan.source)
WorkingIsLoaded == Events(loaded) /\ From(working, loaded) /\ CrossWithin(working, ReunitedSpans)

Inv == PlanIsMade /\ StepsInOrder /\ NothingYet /\ SourceLoaded /\ WorkingIsLoaded

\* The invariant holds at first and is kept by every action.
LEMMA InitInv == Init => Inv
<1> SUFFICES ASSUME Init PROVE Inv
  OBVIOUS
<1>1. PICK c \in Catalogs : \E n \in 1 .. c.upTo : \E s \in [1 .. n -> c.records] : file = s
  BY DEF Init
<1>2. PICK n \in 1 .. c.upTo : file \in [1 .. n -> c.records]
  BY <1>1
<1>3. n \in Nat
  BY <1>1, <1>2, PipelineAssumption
<1>4. \A r \in c.records : Fields(r)
  <2>1. c.records \subseteq UNION {d.records : d \in Catalogs}
    OBVIOUS
  <2>2. ASSUME NEW r \in c.records PROVE Fields(r)
    <3>1. r = [id |-> r.id, parent |-> r.parent, kind |-> r.kind, corr |-> r.corr, content |-> r.content,
               effects |-> r.effects, origin |-> 0, joined |-> r.joined]
      BY <2>1, PipelineAssumption
    <3>2. r.origin = 0
      BY <3>1
    <3> QED BY <3>1, <3>2 DEF Fields
  <2> QED BY <2>2
<1>5. Events(file)
  <2>1. Sequence(file) /\ DOMAIN file = 1..n
    BY <1>2, <1>3, FromFunction
  <2> QED BY <1>2, <1>4, <2>1 DEF Events
<1>6. plan = NoPlan /\ plan.source = <<>> /\ plan.steps = <<>>
  BY DEF Init, NoPlan
<1>7. PlanIsMade
  BY <1>5, <1>6, NothingIs, NothingOrdered DEF PlanIsMade
<1>8. todo = <<>> /\ applied = <<>> /\ loaded = <<>> /\ working = <<>> /\ pc = "idle"
  BY DEF Init
<1>9. StepsInOrder
  BY <1>8, NothingOrdered DEF StepsInOrder
<1>10. WorkingIsLoaded
  BY <1>8, NothingIs, NothingFrom DEF WorkingIsLoaded
<1> QED BY <1>7, <1>8, <1>9, <1>10 DEF Inv, NothingYet, SourceLoaded

LEMMA MakePlanInv == Inv /\ MakePlan => Inv'
<1> SUFFICES ASSUME Inv, MakePlan PROVE Inv'
  OBVIOUS
<1>1. pc = "idle" /\ todo = <<>> /\ applied = <<>> /\ loaded = <<>> /\ working = <<>>
  BY DEF Inv, NothingYet, MakePlan
<1>2. /\ file' = file /\ origin' = origin /\ todo' = todo /\ applied' = applied /\ loaded' = loaded /\ working' = working
      /\ pc' \in {"planned", "refused"}
  BY DEF MakePlan, Adopt
<1>3. \E policy, ack : \E order \in PlanOrders(StepsFor(file, origin.format, policy, ack)) :
        plan'.source = file /\ plan'.policy = policy /\ plan'.ack = ack /\ plan'.steps = order
  <2> DEFINE planned == [ack \in Answers(origin.policy) |-> Planned(file, origin.format, origin.policy, ack)]
  <2>1. \A ack \in DOMAIN planned : planned[ack].steps = StepsFor(file, origin.format, origin.policy, ack)
    BY DEF StepsFor
  <2>2. Adopt(planned)
    BY DEF MakePlan
  <2> HIDE DEF planned
  <2>3. PICK ack \in DOMAIN planned : \E order \in PlanOrders(planned[ack].steps) :
          plan' = [source |-> file, policy |-> origin.policy, ack |-> ack, steps |-> order,
                   blocked |-> planned[ack].blocked, waiting |-> planned[ack].waiting]
    BY <2>2 DEF Adopt
  <2>4. PICK order \in PlanOrders(planned[ack].steps) :
          plan' = [source |-> file, policy |-> origin.policy, ack |-> ack, steps |-> order,
                   blocked |-> planned[ack].blocked, waiting |-> planned[ack].waiting]
    BY <2>3
  <2>5. order \in PlanOrders(StepsFor(file, origin.format, origin.policy, ack))
    BY <2>1
  <2>6. plan'.source = file /\ plan'.policy = origin.policy /\ plan'.ack = ack /\ plan'.steps = order
    BY <2>4
  <2> QED BY <2>5, <2>6
<1>4. Ordered(plan'.steps, StepsFor(plan'.source, origin'.format, plan'.policy, plan'.ack)) /\ plan'.source = file
  <2>1. PICK policy, ack, order : /\ order \in PlanOrders(StepsFor(file, origin.format, policy, ack))
                                  /\ plan'.source = file /\ plan'.policy = policy /\ plan'.ack = ack /\ plan'.steps = order
    BY <1>3
  <2>2. Events(file)
    BY DEF Inv, PlanIsMade
  <2>3. PICK f, format : f = file /\ format = origin.format
    OBVIOUS
  <2>31. order \in PlanOrders(StepsFor(f, format, policy, ack))
    BY <2>1, <2>3
  <2>4. Ordered(order, StepsFor(f, format, policy, ack))
    BY <2>2, <2>3, <2>31, PlannedOrder
  <2>5. StepsFor(f, format, policy, ack) = StepsFor(plan'.source, origin'.format, plan'.policy, plan'.ack)
    BY <1>2, <2>1, <2>3
  <2> QED BY <2>1, <2>3, <2>4, <2>5
<1>5. PlanIsMade'
  BY <1>2, <1>4 DEF Inv, PlanIsMade, Steps
<1>6. StepsInOrder'
  BY <1>1, <1>2, NothingOrdered DEF StepsInOrder
<1>7. WorkingIsLoaded'
  BY <1>1, <1>2, NothingIs, NothingFrom DEF WorkingIsLoaded
<1> QED BY <1>1, <1>2, <1>5, <1>6, <1>7 DEF Inv, NothingYet, SourceLoaded

LEMMA GrowInv ==
  ASSUME Inv, \E r \in Appended : file' = Append(file, r), UNCHANGED <<origin, plan, loaded, working, todo, applied, pc>>
  PROVE  Inv'
<1>1. UNCHANGED <<origin, plan, loaded, working, todo, applied, pc>>
  OBVIOUS
<1>2. PICK r \in Appended : file' = Append(file, r)
  OBVIOUS
<1>3. Fields(r)
  <2>1. r = [id |-> r.id, parent |-> r.parent, kind |-> r.kind, corr |-> r.corr, content |-> r.content,
             effects |-> r.effects, origin |-> 0, joined |-> r.joined]
    BY PipelineAssumption
  <2>2. r.origin = 0
    BY <2>1
  <2> QED BY <2>1, <2>2 DEF Fields
<1>4. Sequence(file) /\ \A i \in DOMAIN file : Fields(file[i])
  BY DEF Inv, PlanIsMade, Events
<1>5. PICK f, g : f = file /\ g = Append(f, r)
  OBVIOUS
<1>6. Events(g)
  BY <1>3, <1>4, <1>5, AppendIs DEF Events
<1>7. Events(file')
  BY <1>2, <1>5, <1>6
<1> QED BY <1>1, <1>7 DEF Inv, PlanIsMade, StepsInOrder, Steps, NothingYet, SourceLoaded, WorkingIsLoaded, ReunitedSpans, Reunion

LEMMA LoadInv == Inv /\ Load => Inv'
<1> SUFFICES ASSUME Inv, Load PROVE Inv'
  OBVIOUS
<1>1. pc = "planned" /\ todo = <<>> /\ applied = <<>> /\ loaded = <<>> /\ working = <<>>
  BY DEF Inv, NothingYet, Load
<1>2. file' = file /\ origin' = origin /\ plan' = plan /\ applied' = applied
  BY DEF Load
<1>3. PICK chosen \in SUBSET DOMAIN plan.steps :
        \/ /\ SameSource
           /\ todo' = Picked(plan.steps, chosen) /\ loaded' = Decoded(file) /\ working' = Tag(Decoded(file))
           /\ pc' = "applying"
        \/ /\ todo' \in {Picked(plan.steps, chosen), <<>>} /\ loaded' = loaded /\ working' = working
           /\ pc' = "refused"
  BY DEF Load, Acceptable, VetPlan
<1>4. PlanIsMade'
  BY <1>2 DEF Inv, PlanIsMade, Steps
<1>5. Ordered(Picked(plan.steps, chosen), Steps)
  BY PickedOrdered DEF Inv, PlanIsMade
<1>6. Ordered(todo', Steps)
  BY <1>3, <1>5, NothingOrdered
<1>7. Progress(<<>>, todo', Steps)
  BY <1>6, NothingDone
<1>8. StepsInOrder'
  BY <1>1, <1>2, <1>7 DEF StepsInOrder, Steps
<1>9. WorkingIsLoaded' /\ SourceLoaded'
  <2>1. CASE SameSource /\ loaded' = Decoded(file) /\ working' = Tag(Decoded(file))
    <3>1. Events(Decoded(file))
      BY DecodedIs DEF Inv, PlanIsMade
    <3>2. /\ From(Tag(Decoded(file)), Decoded(file)) /\ DOMAIN Tag(Decoded(file)) = DOMAIN Decoded(file)
          /\ \A i, j \in DOMAIN Decoded(file) : ~ Crossed(Tag(Decoded(file)), i, j)
      BY <3>1, TagIs
    <3>3. \A spans : CrossWithin(Tag(Decoded(file)), spans)
      BY <3>2 DEF CrossWithin
    <3> QED BY <1>2, <2>1, <3>1, <3>2, <3>3 DEF WorkingIsLoaded, SourceLoaded, SameSource
  <2>2. CASE loaded' = loaded /\ working' = working /\ pc' = "refused"
    BY <1>1, <2>2, NothingIs, NothingFrom DEF WorkingIsLoaded, SourceLoaded
  <2> QED BY <1>3, <2>1, <2>2
<1>10. NothingYet'
  BY <1>3 DEF NothingYet
<1> QED BY <1>4, <1>8, <1>9, <1>10 DEF Inv

\* What is known of a step that is carried out.
LEMMA AppliedStep ==
  ASSUME Inv, pc = "applying", todo # <<>>, CanApply(Head(todo))
  PROVE  /\ Head(todo) \in Steps /\ Relocatable(Head(todo), working)
         /\ CarriesOut(Relocate(Head(todo), working), working)
         /\ loaded = Decoded(plan.source) /\ Events(loaded) /\ From(working, loaded)
         /\ CrossWithin(working, ReunitedSpans)
<1>1. Head(todo) \in Steps
  BY OneMoreDone DEF Inv, StepsInOrder
<1> QED BY <1>1 DEF Inv, SourceLoaded, WorkingIsLoaded, CanApply

LEMMA ApplyInv == Inv /\ ApplyStep => Inv'
<1> SUFFICES ASSUME Inv, ApplyStep PROVE Inv'
  OBVIOUS
<1>1. pc = "applying" /\ todo # <<>> /\ UNCHANGED <<file, origin, plan, loaded>>
  BY DEF ApplyStep
<1>2. CASE CanApply(Head(todo))
  <2>1. /\ working' = Outcome(Relocate(Head(todo), working), working)
        /\ applied' = Append(applied, Head(todo)) /\ todo' = Tail(todo) /\ pc' = pc
    BY <1>2 DEF ApplyStep
  <2>2. Progress(applied', todo', Steps)
    BY <1>1, <2>1, OneMoreDone DEF Inv, StepsInOrder
  <2>3. StepsInOrder'
    BY <1>1, <2>2 DEF StepsInOrder, Steps
  <2>4. PICK step, s, w, spans, more :
          step = Head(todo) /\ s = loaded /\ w = working /\ spans = ReunitedSpans /\ more = ReunitedSpans'
    OBVIOUS
  <2>5. \A o : o \in spans \/ (step.recipe = "compaction-projection-reunion" /\ o \in Span(s, step.corr)) => o \in more
    <3>1. Sequence(applied)
      BY DEF Inv, StepsInOrder, Progress
    <3>2. /\ \A i \in DOMAIN applied : i \in DOMAIN applied' /\ applied'[i] = applied[i]
          /\ \E i \in DOMAIN applied' : applied'[i] = step
      BY <2>1, <2>4, <3>1, AppendIs
    <3>3. spans = UNION {Span(s, applied[n].corr) : n \in {m \in DOMAIN applied : applied[m].recipe = "compaction-projection-reunion"}}
      BY <2>4 DEF ReunitedSpans, Reunion
    <3>4. more = UNION {Span(s, applied'[n].corr) : n \in {m \in DOMAIN applied' : applied'[m].recipe = "compaction-projection-reunion"}}
      BY <1>1, <2>4 DEF ReunitedSpans, Reunion
    <3>5. ASSUME NEW o \in spans PROVE o \in more
      <4>1. PICK n \in DOMAIN applied : applied[n].recipe = "compaction-projection-reunion" /\ o \in Span(s, applied[n].corr)
        BY <3>3, <3>5
      <4> QED BY <3>2, <3>4, <4>1
    <3>6. ASSUME NEW o, step.recipe = "compaction-projection-reunion", o \in Span(s, step.corr) PROVE o \in more
      BY <3>2, <3>4, <3>6
    <3> QED BY <3>5, <3>6
  <2>6. /\ step \in Steps /\ Relocatable(step, w) /\ CarriesOut(Relocate(step, w), w)
        /\ s = Decoded(plan.source) /\ Events(s) /\ From(w, s) /\ CrossWithin(w, spans)
    BY <1>1, <1>2, <2>4, AppliedStep
  <2>7. PICK lines, format, policy, ack : lines = plan.source /\ format = origin.format /\ policy = plan.policy /\ ack = plan.ack
    OBVIOUS
  <2>8. step \in StepsFor(lines, format, policy, ack) /\ s = Decoded(lines)
    BY <2>6, <2>7 DEF Steps
  <2>9. From(Outcome(Relocate(step, w), w), s) /\ CrossWithin(Outcome(Relocate(step, w), w), more)
    BY <2>5, <2>6, <2>8, StepKeeps
  <2>10. From(working', loaded') /\ CrossWithin(working', ReunitedSpans') /\ Events(loaded')
    BY <1>1, <2>1, <2>4, <2>6, <2>9
  <2>11. WorkingIsLoaded'
    BY <2>10 DEF WorkingIsLoaded
  <2> QED BY <1>1, <2>1, <2>3, <2>11 DEF Inv, PlanIsMade, Steps, NothingYet, SourceLoaded
<1>3. CASE ~ CanApply(Head(todo))
  <2>1. UNCHANGED <<working, applied, todo>> /\ pc' = "refused"
    BY <1>3 DEF ApplyStep
  <2> QED BY <1>1, <2>1 DEF Inv, PlanIsMade, Steps, StepsInOrder, NothingYet, SourceLoaded, WorkingIsLoaded, ReunitedSpans, Reunion
<1> QED BY <1>2, <1>3

LEMMA RevalidateInv == Inv /\ Revalidate => Inv'
<1> SUFFICES ASSUME Inv, Revalidate PROVE Inv'
  OBVIOUS
<1>1. pc = "applying" /\ pc' \in {"written", "refused"} /\ UNCHANGED <<file, origin, plan, loaded, working, todo, applied>>
  BY DEF Revalidate
<1> QED BY <1>1 DEF Inv, PlanIsMade, Steps, StepsInOrder, NothingYet, SourceLoaded, WorkingIsLoaded, ReunitedSpans, Reunion

LEMMA SameInv == Inv /\ UNCHANGED vars => Inv'
BY DEF vars, Inv, PlanIsMade, Steps, StepsInOrder, NothingYet, SourceLoaded, WorkingIsLoaded, ReunitedSpans, Reunion

LEMMA NextInv == Inv /\ [Next]_vars => Inv'
<1> SUFFICES ASSUME Inv, [Next]_vars PROVE Inv'
  OBVIOUS
<1>1. CASE MakePlan
  BY <1>1, MakePlanInv
<1>2. CASE Append1
  BY <1>2, GrowInv DEF Append1
<1>3. CASE Load
  BY <1>3, LoadInv
<1>4. CASE ApplyStep
  BY <1>4, ApplyInv
<1>5. CASE Revalidate
  BY <1>5, RevalidateInv
<1>6. CASE UNCHANGED vars
  BY <1>6, SameInv
<1> QED BY <1>1, <1>2, <1>3, <1>4, <1>5, <1>6 DEF Next

\* Another program appending to the source of a repair already written.
Grows == (\E r \in Appended : file' = Append(file, r)) /\ UNCHANGED <<origin, plan, emit, loaded, working, todo, applied, pc>>

\* Verify, and what others do to the files, leave the executor alone.
LEMMA VerifyStep == [VerifyNext]_<<vars, verifyVars>> => [Next]_vars \/ Grows
<1> SUFFICES ASSUME [VerifyNext]_<<vars, verifyVars>> PROVE [Next]_vars \/ Grows
  OBVIOUS
<1>1. CASE Repair
  BY <1>1 DEF Repair
<1>2. CASE SourceGrows
  BY <1>2 DEF SourceGrows, Meddles, Grows
<1>3. CASE CopyChanges
  BY <1>3 DEF CopyChanges, Meddles, vars
<1>4. CASE LossHidden
  BY <1>4 DEF LossHidden, Meddles, vars
<1>5. CASE VerifyReads \/ VerifyJudges \/ UNCHANGED <<vars, verifyVars>>
  BY <1>5 DEF VerifyReads, VerifyJudges
<1> QED BY <1>1, <1>2, <1>3, <1>4, <1>5 DEF VerifyNext

LEMMA CrossFromInv == Inv => BoundariesCrossOnlyTheirPairs
BY DEF Inv, WorkingIsLoaded, CrossWithin, Crossed, BoundariesCrossOnlyTheirPairs

\* Repair never reorders a session but for compaction boundaries, and those only within
\* pairs it reunites: for every session, either policy, every part of a plan in its order, and
\* whatever is appended meanwhile (BoundariesCrossOnlyTheirPairs; compaction-projection-reunion
\* is the only recipe that moves an event).
THEOREM OnlyBoundariesMove == VerifySpec => []BoundariesCrossOnlyTheirPairs
<1>1. VerifyInit => Inv
  BY InitInv DEF VerifyInit
<1>2. Inv /\ [VerifyNext]_<<vars, verifyVars>> => Inv'
  BY VerifyStep, NextInv, GrowInv DEF Grows
<1> QED BY <1>1, <1>2, CrossFromInv, PTL DEF VerifySpec

-----------------------------------------------------------------------------
(***************************************************************************)
(* What a conservative repair conserves.                                   *)
(***************************************************************************)
\* A conservative repair has kept what its steps keep.
Conserved == pc \in {"applying", "written"} /\ plan.policy = "conservative" => Conserves(working, loaded, applied)

\* What conservative steps keep is kept by every action.
LEMMA InitConserved == Init => Conserved
BY DEF Init, Conserved

LEMMA LoadConserved == Inv /\ Load => Conserved'
<1> SUFFICES ASSUME Inv, Load, pc' = "applying" PROVE Conserves(working', loaded', applied')
  BY DEF Conserved, Load
<1>1. loaded' = Decoded(file) /\ working' = Tag(Decoded(file)) /\ applied' = <<>>
  BY DEF Load, Inv, NothingYet
<1>2. Events(Decoded(file))
  BY DecodedIs DEF Inv, PlanIsMade
<1> QED BY <1>1, <1>2, StartConserves

LEMMA ApplyConserved == Inv /\ Conserved /\ ApplyStep => Conserved'
<1> SUFFICES ASSUME Inv, Conserved, ApplyStep PROVE Conserved'
  OBVIOUS
<1>1. pc = "applying" /\ todo # <<>> /\ UNCHANGED <<plan, loaded>>
  BY DEF ApplyStep
<1>2. CASE CanApply(Head(todo)) /\ plan.policy = "conservative"
  <2>1. /\ working' = Outcome(Relocate(Head(todo), working), working)
        /\ applied' = Append(applied, Head(todo))
    BY <1>2 DEF ApplyStep
  <2>2. PICK step, s, w, spans, lines, format, ack, done, left :
          /\ step = Head(todo) /\ s = loaded /\ w = working /\ spans = ReunitedSpans
          /\ lines = plan.source /\ format = origin.format /\ ack = plan.ack /\ done = applied /\ left = todo
    OBVIOUS
  <2>3. /\ Relocatable(step, w) /\ CarriesOut(Relocate(step, w), w)
        /\ s = Decoded(lines) /\ Events(s) /\ From(w, s) /\ CrossWithin(w, spans)
    BY <1>1, <1>2, <2>2, AppliedStep
  <2>4. Progress(done, left, StepsFor(lines, format, "conservative", ack))
    BY <1>2, <2>2 DEF Inv, StepsInOrder, Steps
  <2>5. left # <<>> /\ step = Head(left) /\ Conserves(w, s, done)
    BY <1>1, <1>2, <2>2 DEF Conserved
  <2>6. Conserves(Outcome(Relocate(step, w), w), s, Append(done, step))
    BY <2>3, <2>4, <2>5, StepConserves
  <2>7. Conserves(working', loaded', applied')
    BY <1>1, <2>1, <2>2, <2>6
  <2> QED BY <2>7 DEF Conserved
<1>3. CASE ~ CanApply(Head(todo)) \/ plan.policy # "conservative"
  BY <1>1, <1>3 DEF ApplyStep, Conserved
<1> QED BY <1>2, <1>3

LEMMA NextConserved == Inv /\ Conserved /\ [Next]_vars => Conserved'
<1> SUFFICES ASSUME Inv, Conserved, [Next]_vars PROVE Conserved'
  OBVIOUS
<1>1. CASE MakePlan
  BY <1>1 DEF MakePlan, Adopt, Conserved
<1>2. CASE Append1
  BY <1>2 DEF Append1, Conserved
<1>3. CASE Load
  BY <1>3, LoadConserved
<1>4. CASE ApplyStep
  BY <1>4, ApplyConserved
<1>5. CASE Revalidate
  BY <1>5 DEF Revalidate, Conserved
<1>6. CASE UNCHANGED vars
  BY <1>6 DEF vars, Conserved
<1> QED BY <1>1, <1>2, <1>3, <1>4, <1>5, <1>6 DEF Next

\* Both parts of the inductive invariant.
LEMMA AlwaysConserved == VerifySpec => [](Inv /\ Conserved)
<1>1. VerifyInit => Inv /\ Conserved
  BY InitInv, InitConserved DEF VerifyInit
<1>2. Inv /\ Conserved /\ [VerifyNext]_<<vars, verifyVars>> => (Inv /\ Conserved)'
  <2> SUFFICES ASSUME Inv, Conserved, [VerifyNext]_<<vars, verifyVars>> PROVE (Inv /\ Conserved)'
    OBVIOUS
  <2>1. CASE [Next]_vars
    BY <2>1, NextInv, NextConserved
  <2>2. CASE Grows
    BY <2>2, GrowInv DEF Grows, Conserved
  <2> QED BY <2>1, <2>2, VerifyStep
<1> QED BY <1>1, <1>2, PTL DEF VerifySpec

\* A conservative repair never drops, changes, relinks or passes a tool event whose execution
\* is ambiguous or which may have had effects, although its steps judge their scope in the
\* source and run on events that earlier steps have shifted (DelicateUntouched; the abstention
\* policy of the executor).
THEOREM DelicateStays == VerifySpec => []DelicateUntouched
<1>1. Inv /\ Conserved => DelicateUntouched
  <2> SUFFICES ASSUME Inv, Conserved, pc \in {"applying", "written"}, plan.policy = "conservative", NEW d \in Delicate(loaded)
               PROVE  \E i \in DOMAIN working : /\ working[i] = [loaded[d] EXCEPT !.origin = d]
                                                /\ \A j \in DOMAIN working : j < i <=> working[j].origin < d
    BY DEF DelicateUntouched
  <2>1. Untouched(working, loaded)
    BY DEF Conserved, Conserves
  <2>2. PICK i \in DOMAIN working : /\ working[i].origin = d /\ working[i].parent = loaded[d].parent
                                    /\ \A j \in DOMAIN working : j < i <=> working[j].origin < d
    BY <2>1 DEF Untouched
  <2>3. From(working, loaded)
    BY DEF Inv, WorkingIsLoaded
  <2>4. working[i] = [loaded[working[i].origin] EXCEPT !.origin = working[i].origin]
    BY <2>2, <2>3, WholeRecord
  <2> QED BY <2>2, <2>4
<1> QED BY <1>1, AlwaysConserved, PTL

\* An accepted conservative copy is the planned source less redundant records: whatever is
\* missing is said by an earlier record that stayed, and a parent only ever follows the records
\* dropped to those that stand for them (OutputDerives; collapse, drop and projection removal,
\* in the order of the plan).
THEOREM CopyDerives == VerifySpec => []OutputDerives
<1>1. Inv /\ Conserved => OutputDerives
  <2> SUFFICES ASSUME Inv, Conserved, pc = "written", plan.policy = "conservative"
               PROVE  /\ Origins(working) \subseteq DOMAIN Source /\ Cardinality(Origins(working)) = Len(working)
                      /\ \A o \in Dropped : Redundant(o)
                      /\ \A i \in DOMAIN working :
                           LET now == Body(working[i])
                               was == Body(Source[working[i].origin])
                           IN /\ [now EXCEPT !.parent = was.parent] = was
                              /\ \/ now.parent = was.parent
                                 \/ now.parent \in Ids(working) /\ LeadsTo(was.parent, now.parent)
    BY DEF OutputDerives
  <2>1. loaded = Source /\ From(working, Source) /\ Conserves(working, Source, applied) /\ Sequence(Source)
    BY DEF Inv, SourceLoaded, WorkingIsLoaded, Conserved, Source, Events
  <2>2. Origins(working) \subseteq DOMAIN Source
    BY <2>1 DEF Origins, From
  <2>3. Cardinality(Origins(working)) = Len(working)
    BY <2>1, OriginsCounted
  <2>4. ASSUME NEW o \in Dropped PROVE Redundant(o)
    <3>1. PICK t \in Origins(working) : Covers(Source, t, o)
      BY <2>1 DEF Dropped, Conserves, Stood
    <3>2. StandsFor(Source, t, o)
      BY <2>1, <2>2, <3>1, CoversIs DEF Dropped
    <3> QED BY <3>2 DEF Redundant
  <2>5. ASSUME NEW i \in DOMAIN working
        PROVE  \/ working[i].parent = Source[working[i].origin].parent
               \/ working[i].parent \in Ids(working) /\ LeadsTo(Source[working[i].origin].parent, working[i].parent)
    BY <2>1 DEF Conserves, Relinks, Leads, Closed, LeadsTo, Dropped
  <2>6. ASSUME NEW i \in DOMAIN working
        PROVE  /\ [Body(working[i]) EXCEPT !.parent = Body(Source[working[i].origin]).parent] = Body(Source[working[i].origin])
               /\ Body(working[i]).parent = working[i].parent
               /\ Body(Source[working[i].origin]).parent = Source[working[i].origin].parent
    BY <2>1, BodyAgrees
  <2> QED BY <2>2, <2>3, <2>4, <2>5, <2>6
<1> QED BY <1>1, AlwaysConserved, PTL
===============================================================================

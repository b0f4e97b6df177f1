------------------------------- MODULE FoldFacts -------------------------------
(***************************************************************************)
(* What FoldLeft computes, for an operator with two parameters that the    *)
(* fold does not change: the value after the last of Len(seq) turns, each  *)
(* of which takes the value before it and the next element.                *)
(*                                                                         *)
(* Induction is over a set of numbers, so that no theorem needs an         *)
(* operator as its parameter; the operator of a fold is a CONSTANT, which  *)
(* the module that cites these facts instantiates.                         *)
(***************************************************************************)
EXTENDS Naturals, Sequences, Folds, WellFoundedInduction, TLAPS

CONSTANT Op(_, _, _, _)

\* FoldLeft of SequencesExt, spelled out: an instance of this module is lighter
\* without a copy of that one.
Max(S) == CHOOSE x \in S : \A y \in S : x >= y
Fold(p, q, base, seq) ==
  MapThenFoldSet(LAMBDA e, v : Op(p, q, v, e), base,
                 LAMBDA i : seq[i], LAMBDA s : Max(s), DOMAIN seq)

-----------------------------------------------------------------------------
(* Induction.                                                              *)

LessThan == {pair \in Nat \X Nat : pair[1] < pair[2]}

\* A set of numbers with 0, and with the successor of each, has them all.
LEMMA NatSet ==
  ASSUME NEW S, 0 \in S, \A n \in Nat : n \in S => n + 1 \in S
  PROVE  Nat \subseteq S
<1>1. IsWellFoundedOn(LessThan, Nat)
  BY NatLessThanWellFounded DEF OpToRel, LessThan
<1> DEFINE T == Nat \ S
<1> SUFFICES ASSUME T # {} PROVE FALSE
  OBVIOUS
<1>2. PICK x \in T : \A y \in T : ~ (<<y, x>> \in LessThan)
  <2>1. T \subseteq Nat
    OBVIOUS
  <2> HIDE DEF T
  <2> QED BY <1>1, <2>1, WFMin
<1>3. x # 0 /\ x - 1 \in Nat /\ x - 1 < x
  OBVIOUS
<1>4. <<x - 1, x>> \in LessThan
  BY <1>3 DEF LessThan
<1> QED BY <1>2, <1>3, <1>4

-----------------------------------------------------------------------------
(* The recursive function behind a fold is defined.                        *)

Turn(p, q, base, seq, g, s) ==
  IF s = {} THEN base ELSE Op(p, q, g[s \ {Max(s)}], seq[Max(s)])
IsFold(p, q, base, seq, n, g) ==
  g = [s \in SUBSET (1..n) |-> Turn(p, q, base, seq, g, s)]

LEMMA MaxOfUpTo ==
  ASSUME NEW n \in Nat, NEW s \in SUBSET (1..(n + 1)), n + 1 \in s
  PROVE  Max(s) = n + 1 /\ s \ {Max(s)} \in SUBSET (1..n)
<1>1. n + 1 \in s /\ \A x \in s : n + 1 >= x
  OBVIOUS
<1>2. \A x \in s : (\A y \in s : x >= y) => x = n + 1
  OBVIOUS
<1>3. Max(s) = n + 1
  BY <1>1, <1>2 DEF Max
<1> QED BY <1>3

LEMMA FoldDefined ==
  ASSUME NEW p, NEW q, NEW base, NEW seq, NEW n \in Nat
  PROVE  \E g : IsFold(p, q, base, seq, n, g)
<1> DEFINE S == {m \in Nat : \E g : IsFold(p, q, base, seq, m, g)}
<1>1. 0 \in S
  <2> DEFINE g == [s \in SUBSET (1..0) |-> base]
  <2>1. \A s \in SUBSET (1..0) : Turn(p, q, base, seq, g, s) = base
    BY DEF Turn
  <2> HIDE DEF g
  <2>2. g = [s \in SUBSET (1..0) |-> Turn(p, q, base, seq, g, s)]
    BY <2>1 DEF g
  <2> QED BY <2>2 DEF IsFold
<1>2. ASSUME NEW m \in Nat, m \in S PROVE m + 1 \in S
  <2>1. PICK g : IsFold(p, q, base, seq, m, g)
    BY <1>2
  <2> DEFINE h == [s \in SUBSET (1..(m + 1)) |->
                     IF m + 1 \in s THEN Op(p, q, g[s \ {m + 1}], seq[m + 1]) ELSE g[s]]
  <2>2. \A s \in SUBSET (1..m) : s \in SUBSET (1..(m + 1)) /\ h[s] = g[s] /\ g[s] = Turn(p, q, base, seq, g, s)
    BY <2>1 DEF IsFold
  <2>3. \A s \in SUBSET (1..(m + 1)) : h[s] = IF m + 1 \in s THEN Op(p, q, g[s \ {m + 1}], seq[m + 1]) ELSE g[s]
    OBVIOUS
  <2>4. DOMAIN h = SUBSET (1..(m + 1)) /\ h = [s \in SUBSET (1..(m + 1)) |-> h[s]]
    OBVIOUS
  <2> HIDE DEF h
  <2>5. ASSUME NEW s \in SUBSET (1..(m + 1)) PROVE h[s] = Turn(p, q, base, seq, h, s)
    <3>1. CASE m + 1 \in s
      <4>1. Max(s) = m + 1 /\ s \ {Max(s)} \in SUBSET (1..m)
        BY <3>1, MaxOfUpTo
      <4> QED BY <2>2, <2>3, <3>1, <4>1 DEF Turn
    <3>2. CASE m + 1 \notin s
      <4>1. s \in SUBSET (1..m)
        BY <3>2
      <4> DEFINE r == s \ {Max(s)}
      <4>2. r \in SUBSET (1..m)
        BY <4>1
      <4> HIDE DEF r
      <4>3. h[s] = Turn(p, q, base, seq, g, s) /\ h[r] = g[r]
        BY <2>2, <4>1, <4>2
      <4> QED BY <4>3 DEF Turn, r
    <3> QED BY <3>1, <3>2
  <2>6. IsFold(p, q, base, seq, m + 1, h)
    BY <2>4, <2>5 DEF IsFold
  <2> QED BY <2>6
<1>3. Nat \subseteq S
  <2> HIDE DEF S
  <2> QED BY <1>1, <1>2, NatSet
<1> QED BY <1>3

-----------------------------------------------------------------------------
(* The turns.                                                              *)

\* at[n] is the value after n turns.
Turns(p, q, base, seq, at) ==
  /\ at[0] = base
  /\ \A n \in Nat : n < Len(seq) => at[n + 1] = Op(p, q, at[n], seq[n + 1])

\* A fold is the value after as many turns as there are elements: what every turn
\* keeps, the fold keeps.
THEOREM FoldTurns ==
  ASSUME NEW p, NEW q, NEW base, NEW seq, DOMAIN seq = 1..Len(seq), Len(seq) \in Nat
  PROVE  \E at : Turns(p, q, base, seq, at) /\ at[Len(seq)] = Fold(p, q, base, seq)
<1> DEFINE g == CHOOSE f : IsFold(p, q, base, seq, Len(seq), f)
<1>1. Fold(p, q, base, seq) = g[1..Len(seq)]
  BY DEF Fold, MapThenFoldSet, IsFold, Turn
<1>2. IsFold(p, q, base, seq, Len(seq), g)
  BY FoldDefined
<1> HIDE DEF g
<1>3. \A s \in SUBSET (1..Len(seq)) : g[s] = Turn(p, q, base, seq, g, s)
  BY <1>2 DEF IsFold
<1> DEFINE at == [n \in Nat |-> g[1..n]]
<1>4. at[0] = base
  <2>1. {} \in SUBSET (1..Len(seq)) /\ 1..0 = {}
    OBVIOUS
  <2>2. g[{}] = base
    BY <1>3, <2>1 DEF Turn
  <2> QED BY <2>1, <2>2
<1>5. ASSUME NEW n \in Nat, n < Len(seq) PROVE at[n + 1] = Op(p, q, at[n], seq[n + 1])
  <2>1. \A i \in 1..(n + 1) : i \in 1..Len(seq)
    BY <1>5
  <2>2. 1..(n + 1) \in SUBSET (1..Len(seq)) /\ n + 1 \in 1..(n + 1) /\ 1..(n + 1) \in SUBSET (1..(n + 1))
    BY <2>1
  <2>3. Max(1..(n + 1)) = n + 1
    BY <2>2, MaxOfUpTo
  <2>4. (1..(n + 1)) \ {n + 1} = 1..n
    OBVIOUS
  <2>5. g[1..(n + 1)] = Op(p, q, g[1..n], seq[n + 1])
    BY <1>3, <2>2, <2>3, <2>4 DEF Turn
  <2> QED BY <2>5
<1>6. at[Len(seq)] = Fold(p, q, base, seq)
  BY <1>1
<1> HIDE DEF at
<1> QED BY <1>4, <1>5, <1>6 DEF Turns

\* One more element is one more turn.
THEOREM FoldAppend ==
  ASSUME NEW p, NEW q, NEW base, NEW T, NEW seq \in Seq(T), NEW e \in T
  PROVE  Fold(p, q, base, Append(seq, e)) = Op(p, q, Fold(p, q, base, seq), e)
<1> DEFINE t == Append(seq, e)
           k == Len(seq)
<1>1. /\ k \in Nat /\ DOMAIN seq = 1..k
      /\ Len(t) = k + 1 /\ DOMAIN t = 1..(k + 1) /\ t[k + 1] = e
      /\ \A n \in 1..k : t[n] = seq[n]
  OBVIOUS
<1> HIDE DEF t, k
<1>2. PICK at : Turns(p, q, base, t, at) /\ at[k + 1] = Fold(p, q, base, t)
  BY <1>1, FoldTurns
<1>3. PICK by : Turns(p, q, base, seq, by) /\ by[k] = Fold(p, q, base, seq)
  BY <1>1, FoldTurns DEF k
<1> DEFINE S == {n \in Nat : n =< k => at[n] = by[n]}
<1>4. 0 \in S
  BY <1>2, <1>3 DEF Turns
<1>5. ASSUME NEW n \in Nat, n \in S PROVE n + 1 \in S
  <2> SUFFICES ASSUME n + 1 =< k PROVE at[n + 1] = by[n + 1]
    OBVIOUS
  <2>1. n < k /\ n < k + 1 /\ n + 1 \in 1..k /\ at[n] = by[n]
    BY <1>1, <1>5
  <2> QED BY <1>1, <1>2, <1>3, <2>1 DEF Turns, k
<1>6. Nat \subseteq S
  <2> HIDE DEF S
  <2> QED BY <1>4, <1>5, NatSet
<1>7. at[k] = by[k]
  BY <1>1, <1>6
<1>8. at[k + 1] = Op(p, q, at[k], e)
  BY <1>1, <1>2 DEF Turns
<1> QED BY <1>2, <1>3, <1>7, <1>8 DEF t
===============================================================================

----------------------------- MODULE DataInduction -----------------------------
(* Induction over numbers, and what it proves of the folds of sequences.    *)
(* The induction is stated for a set, not for an operator: what is to be    *)
(* proved of i is that i is in {i \in 1 .. n : ...}.                        *)
EXTENDS SequencesExt, FiniteSetTheorems, TLAPS

(* A set of numbers that is not empty has a least one: 0 .. k, for k in the *)
(* set, are finite sets, of which one has none of the others inside.        *)
LEMMA LeastOfSet ==
    ASSUME NEW T \in SUBSET Nat, T # {}
    PROVE  \E m \in T : \A k \in T : m <= k
  <1> DEFINE Below == {0 .. k : k \in T}
             R     == StrictSubsetOrdering(Nat)
             F     == FiniteSubsetsOf(Nat)
  <1>1. IsWellFoundedOn(R, F)
    BY FS_StrictSubsetOrderingWellFounded
  <1>2. Below \subseteq F
    <2> SUFFICES ASSUME NEW k \in T PROVE 0 .. k \in F
      OBVIOUS
    <2>1. IsFiniteSet(0 .. k)
      BY FS_Interval
    <2> QED BY <2>1 DEF FiniteSubsetsOf
  <1>3. Below # {}
    OBVIOUS
  <1>4. PICK m \in T : \A k \in T : ~ (<<0 .. k, 0 .. m>> \in R)
    <2>1. PICK x \in Below : \A y \in Below : ~ (<<y, x>> \in R)
      <3> HIDE DEF Below, R, F
      <3> QED BY <1>1, <1>2, <1>3, WFMin
    <2> QED BY <2>1
  <1>5. ASSUME NEW k \in T, k < m PROVE FALSE
    <2>1. 0 .. k \subseteq 0 .. m /\ 0 .. k # 0 .. m /\ 0 .. k \subseteq Nat /\ 0 .. m \subseteq Nat
      <3>1. m \in 0 .. m /\ m \notin 0 .. k
        BY <1>5
      <3> QED BY <1>5, <3>1
    <2>2. <<0 .. k, 0 .. m>> \in R
      BY <2>1 DEF StrictSubsetOrdering
    <2> QED BY <1>4, <2>2
  <1> QED BY <1>5

(* What holds of 1, and of i + 1 when it holds of i, holds of 1 .. n.       *)
LEMMA IntervalInduction ==
    ASSUME NEW n \in Nat, NEW S, n >= 1 => 1 \in S,
           \A i \in 1 .. n - 1 : i \in S => i + 1 \in S
    PROVE  1 .. n \subseteq S
  <1> DEFINE T == (1 .. n) \ S
  <1> SUFFICES ASSUME T # {} PROVE FALSE
    OBVIOUS
  <1>1. PICK m \in T : \A k \in T : m <= k
    <2>1. T \in SUBSET Nat
      OBVIOUS
    <2> HIDE DEF T
    <2> QED BY <2>1, LeastOfSet
  <1>2. m # 1 /\ m \in 1 .. n
    OBVIOUS
  <1>3. m - 1 \in 1 .. n - 1 /\ m - 1 \notin T
    BY <1>1, <1>2
  <1> QED BY <1>2, <1>3

-----------------------------------------------------------------------------
(* Recursion *)

(* What starts at x and goes on from i to i + 1 by step exists up to any n  *)
(* and stays in the set that step maps to itself.                           *)
Recurs(g, n, x, step) == g[1] = x /\ \A i \in 1 .. n - 1 : g[i + 1] = step[<<i, g[i]>>]

LEMMA RecursionExists ==
    ASSUME NEW n \in Nat, n >= 1, NEW S, NEW x \in S, NEW step \in [(1 .. n) \X S -> S]
    PROVE  \E g \in [1 .. n -> S] : Recurs(g, n, x, step)
  <1> DEFINE A == {i \in 1 .. n : \E g \in [1 .. i -> S] : Recurs(g, i, x, step)}
  <1>1. 1 \in A
    <2>1. Recurs([j \in 1 .. 1 |-> x], 1, x, step)
      BY DEF Recurs
    <2> QED BY <2>1
  <1>2. ASSUME NEW i \in 1 .. n - 1, i \in A PROVE i + 1 \in A
    <2>1. PICK g \in [1 .. i -> S] : Recurs(g, i, x, step)
      BY <1>2
    <2> DEFINE h == [j \in 1 .. i + 1 |-> IF j = i + 1 THEN step[<<i, g[i]>>] ELSE g[j]]
    <2>2. i \in 1 .. i /\ i \in 1 .. n /\ i + 1 \in 1 .. n
      OBVIOUS
    <2>3. h \in [1 .. i + 1 -> S]
      <3>1. step[<<i, g[i]>>] \in S
        BY <2>2
      <3>2. \A j \in 1 .. i + 1 : j # i + 1 => g[j] \in S
        OBVIOUS
      <3> QED BY <3>1, <3>2
    <2>4. h[1] = x
      BY <2>1, <2>2 DEF Recurs
    <2>5. ASSUME NEW j \in 1 .. (i + 1) - 1 PROVE h[j + 1] = step[<<j, h[j]>>]
      <3>1. h[j] = g[j]
        BY <2>2
      <3>2. CASE j = i
        <4>1. h[i + 1] = step[<<i, g[i]>>]
          OBVIOUS
        <4> HIDE DEF h
        <4> QED BY <3>1, <3>2, <4>1
      <3>3. CASE j # i
        <4>1. j \in 1 .. i - 1 /\ j + 1 # i + 1 /\ j + 1 \in 1 .. i + 1
          BY <2>2, <3>3
        <4>2. h[j + 1] = g[j + 1]
          BY <4>1
        <4> QED BY <2>1, <3>1, <4>1, <4>2 DEF Recurs
      <3> QED BY <3>2, <3>3
    <2> HIDE DEF h
    <2>6. Recurs(h, i + 1, x, step)
      BY <2>4, <2>5 DEF Recurs
    <2> QED BY <2>2, <2>3, <2>6
  <1> HIDE DEF A
  <1>3. 1 .. n \subseteq A
    BY <1>1, <1>2, IntervalInduction
  <1>4. n \in 1 .. n
    OBVIOUS
  <1> QED BY <1>3, <1>4 DEF A

(* The same from 0 on.                                                      *)
Recurs0(g, n, x, step) == g[0] = x /\ \A i \in 1 .. n : g[i] = step[<<i, g[i - 1]>>]

LEMMA RecursionFrom ==
    ASSUME NEW n \in Nat, NEW S, NEW x \in S, NEW step \in [(1 .. n) \X S -> S]
    PROVE  \E g \in [0 .. n -> S] : Recurs0(g, n, x, step)
  <1> DEFINE m == n + 1
             next == [w \in (1 .. m) \X S |-> IF w[1] <= n THEN step[<<w[1], w[2]>>] ELSE x]
  <1>1. m \in Nat /\ m >= 1 /\ m - 1 = n
    OBVIOUS
  <1>2. next \in [(1 .. m) \X S -> S]
    <2> SUFFICES ASSUME NEW w \in (1 .. m) \X S, w[1] <= n
                 PROVE  step[<<w[1], w[2]>>] \in S
      OBVIOUS
    <2>1. w[1] \in 1 .. n /\ w[2] \in S
      OBVIOUS
    <2> QED BY <2>1
  <1>3. \A i \in 1 .. n : \A v \in S : next[<<i, v>>] = step[<<i, v>>]
    <2> SUFFICES ASSUME NEW i \in 1 .. n, NEW v \in S PROVE next[<<i, v>>] = step[<<i, v>>]
      OBVIOUS
    <2>1. i \in 1 .. m /\ i <= n
      OBVIOUS
    <2>2. <<i, v>> \in (1 .. m) \X S
      BY <2>1
    <2> QED BY <2>1, <2>2
  <1> HIDE DEF next, m
  <1>4. PICK f \in [1 .. m -> S] : Recurs(f, m, x, next)
    BY <1>1, <1>2, RecursionExists
  <1> DEFINE g == [i \in 0 .. n |-> f[i + 1]]
  <1>5. \A i \in 0 .. n : i + 1 \in 1 .. m /\ f[i + 1] \in S
    <2>1. \A i \in 0 .. n : i + 1 \in 1 .. m
      BY <1>1
    <2> QED BY <2>1
  <1>6. g \in [0 .. n -> S] /\ g[0] = x
    BY <1>4, <1>5 DEF Recurs
  <1>7. ASSUME NEW i \in 1 .. n PROVE g[i] = step[<<i, g[i - 1]>>]
    <2>1. i - 1 \in 0 .. n /\ i \in 0 .. n /\ (i - 1) + 1 = i /\ i \in 1 .. m - 1
      BY <1>1
    <2>2. g[i] = f[i + 1] /\ g[i - 1] = f[i] /\ f[i] \in S
      <3>1. g[i - 1] = f[(i - 1) + 1] /\ f[(i - 1) + 1] \in S
        BY <1>5, <2>1
      <3> QED BY <2>1, <3>1
    <2>3. f[i + 1] = next[<<i, f[i]>>]
      BY <1>4, <2>1 DEF Recurs
    <2> QED BY <1>3, <2>2, <2>3
  <1> HIDE DEF g
  <1> QED BY <1>6, <1>7 DEF Recurs0

(* Whatever is 0 .. n's, and goes on inside S, stays there.                 *)
LEMMA StaysIn ==
    ASSUME NEW n \in Nat, NEW S, NEW h, h[0] \in S, \A i \in 1 .. n : h[i - 1] \in S => h[i] \in S
    PROVE  \A i \in 0 .. n : h[i] \in S
  <1> DEFINE m == n + 1
             A == {i \in 1 .. m : h[i - 1] \in S}
  <1>1. m \in Nat /\ m - 1 = n /\ 1 \in A
    OBVIOUS
  <1>2. \A i \in 1 .. m - 1 : i \in A => i + 1 \in A
    <2> SUFFICES ASSUME NEW i \in 1 .. n, i \in A PROVE i + 1 \in A
      BY <1>1
    <2>1. h[i] \in S /\ (i + 1) - 1 = i /\ i + 1 \in 1 .. m
      OBVIOUS
    <2> QED BY <2>1
  <1> HIDE DEF A, m
  <1>3. 1 .. m \subseteq A
    BY <1>1, <1>2, IntervalInduction
  <1>4. ASSUME NEW i \in 0 .. n PROVE h[i] \in S
    <2>1. i + 1 \in 1 .. m /\ (i + 1) - 1 = i
      BY DEF m
    <2>2. i + 1 \in A
      BY <1>3, <2>1
    <2> QED BY <2>1, <2>2 DEF A
  <1> QED BY <1>4

(* What each of 1 .. n says, and then what the later one says that it goes  *)
(* on with, exists and is a sequence.                                       *)
GoesOn(f, n, says, next) ==
    f = [w \in 1 .. n |-> IF next[w] = 0 THEN says[w] ELSE says[w] \o f[next[w]]]

LEMMA GoesOnFrom ==
    ASSUME NEW n \in Nat, NEW S, NEW says \in [1 .. n -> Seq(S)], NEW next \in [1 .. n -> 0 .. n],
           \A w \in 1 .. n : next[w] # 0 => next[w] > w
    PROVE  /\ \E f : GoesOn(f, n, says, next)
           /\ \A f : GoesOn(f, n, says, next) => f \in [1 .. n -> Seq(S)]
  <1> DEFINE Says(f, w) == IF next[w] = 0 THEN says[w] ELSE says[w] \o f[next[w]]
             A == {i \in 1 .. n : \E f \in [n + 1 - i .. n -> Seq(S)] :
                                     \A w \in n + 1 - i .. n : f[w] = Says(f, w)}
  <1>0. n \in Nat /\ \A i \in 1 .. n : n + 1 - i \in 1 .. n
    OBVIOUS
  <1>1. n >= 1 => 1 \in A
    <2> SUFFICES ASSUME n >= 1 PROVE 1 \in A
      OBVIOUS
    <2>1. n \in 1 .. n /\ 1 \in 1 .. n /\ n + 1 - 1 = n
      OBVIOUS
    <2>2. next[n] = 0 /\ says[n] \in Seq(S)
      <3>1. next[n] \in 0 .. n
        BY <2>1
      <3> QED BY <2>1, <3>1
    <2> DEFINE g == [w \in n .. n |-> says[n]]
    <2>3. g \in [n .. n -> Seq(S)]
      BY <2>2
    <2>4. \A w \in n .. n : g[w] = Says(g, w)
      BY <2>2
    <2> HIDE DEF g, Says
    <2> QED BY <2>1, <2>3, <2>4
  <1>2. ASSUME NEW i \in 1 .. n - 1, i \in A PROVE i + 1 \in A
    <2> DEFINE m == n + 1 - i
               k == n + 1 - (i + 1)
    <2>1. k \in 1 .. n /\ m = k + 1 /\ i + 1 \in 1 .. n /\ k \in Nat
      OBVIOUS
    <2>2. PICK f \in [m .. n -> Seq(S)] : \A w \in m .. n : f[w] = Says(f, w)
      BY <1>2
    <2> HIDE DEF m, k
    <2> DEFINE v == Says(f, k)
               g == [w \in k .. n |-> IF w = k THEN v ELSE f[w]]
    <2>3. v \in Seq(S)
      <3>1. says[k] \in Seq(S) /\ next[k] \in 0 .. n /\ (next[k] # 0 => next[k] > k)
        BY <2>1
      <3>2. CASE next[k] = 0
        BY <3>1, <3>2
      <3>3. CASE next[k] # 0
        <4>1. next[k] \in m .. n
          BY <2>1, <3>1, <3>3
        <4>2. f[next[k]] \in Seq(S)
          BY <4>1
        <4> QED BY <3>1, <3>3, <4>2
      <3> QED BY <3>2, <3>3
    <2>4. g \in [k .. n -> Seq(S)]
      <3> SUFFICES ASSUME NEW w \in k .. n, w # k PROVE f[w] \in Seq(S)
        BY <2>3
      <3>1. w \in m .. n
        BY <2>1
      <3> QED BY <3>1
    <2>5. \A w \in m .. n : w \in k .. n /\ g[w] = f[w]
      <3> HIDE DEF v
      <3> QED BY <2>1
    <2>6. g[k] = v
      <3> HIDE DEF v
      <3>1. k \in k .. n
        BY <2>1
      <3> QED BY <3>1
    <2>7. ASSUME NEW w \in k .. n PROVE g[w] = Says(g, w)
      <3> HIDE DEF g
      <3>1. w \in 1 .. n /\ next[w] \in 0 .. n /\ (next[w] # 0 => next[w] > w)
        BY <2>1
      <3>2. next[w] # 0 => next[w] \in m .. n
        BY <2>1, <3>1
      <3>3. Says(g, w) = Says(f, w)
        BY <2>5, <3>2
      <3>4. CASE w = k
        BY <2>6, <3>3, <3>4
      <3>5. CASE w # k
        <4>1. w \in m .. n
          BY <2>1, <3>5
        <4> QED BY <2>2, <2>5, <3>3, <4>1
      <3> QED BY <3>4, <3>5
    <2> HIDE DEF g, Says
    <2> QED BY <2>1, <2>4, <2>7 DEF k
  <1> HIDE DEF A
  <1>3. 1 .. n \subseteq A
    BY <1>1, <1>2, IntervalInduction
  <1>4. \E f \in [1 .. n -> Seq(S)] : \A w \in 1 .. n : f[w] = Says(f, w)
    <2>1. CASE n = 0
      <3> DEFINE g == [w \in 1 .. n |-> <<>>]
      <3>1. g \in [1 .. n -> Seq(S)] /\ \A w \in 1 .. n : g[w] = Says(g, w)
        BY <2>1
      <3> HIDE DEF g, Says
      <3> QED BY <3>1
    <2>2. CASE n # 0
      <3>1. n \in 1 .. n /\ n + 1 - n = 1
        BY <2>2
      <3>2. n \in A
        BY <1>3, <3>1
      <3> HIDE DEF Says
      <3> QED BY <3>1, <3>2 DEF A
    <2> QED BY <2>1, <2>2
  <1>5. \E f : GoesOn(f, n, says, next)
    <2>1. PICK f \in [1 .. n -> Seq(S)] : \A w \in 1 .. n : f[w] = Says(f, w)
      BY <1>4
    <2>2. f = [w \in 1 .. n |-> Says(f, w)]
      <3> HIDE DEF Says
      <3> QED BY <2>1
    <2> QED BY <2>2 DEF GoesOn
  <1>6. ASSUME NEW f, GoesOn(f, n, says, next) PROVE f \in [1 .. n -> Seq(S)]
    <2>1. PICK g \in [1 .. n -> Seq(S)] : \A w \in 1 .. n : g[w] = Says(g, w)
      BY <1>4
    <2>2. \A w \in 1 .. n : f[w] = Says(f, w)
      BY <1>6 DEF GoesOn
    <2> DEFINE B == {i \in 1 .. n : \A w \in n + 1 - i .. n : f[w] = g[w]}
    <2>3. ASSUME NEW w \in 1 .. n, \A v \in w + 1 .. n : f[v] = g[v] PROVE f[w] = g[w]
      <3>1. next[w] # 0 => next[w] \in w + 1 .. n
        BY <1>0
      <3>2. Says(f, w) = Says(g, w)
        BY <2>3, <3>1
      <3> HIDE DEF Says
      <3> QED BY <2>1, <2>2, <3>2
    <2>4. n >= 1 => 1 \in B
      <3> SUFFICES ASSUME n >= 1 PROVE f[n] = g[n]
        OBVIOUS
      <3> QED BY <2>3
    <2>5. ASSUME NEW i \in 1 .. n - 1, i \in B PROVE i + 1 \in B
      <3> DEFINE k == n + 1 - (i + 1)
      <3>1. k \in 1 .. n /\ n + 1 - i = k + 1 /\ i + 1 \in 1 .. n
        OBVIOUS
      <3> HIDE DEF k
      <3>2. \A v \in k + 1 .. n : f[v] = g[v]
        BY <2>5, <3>1
      <3>3. f[k] = g[k]
        BY <2>3, <3>1, <3>2
      <3>4. \A v \in k .. n : f[v] = g[v]
        <4>1. \A v \in k .. n : v = k \/ v \in k + 1 .. n
          BY <3>1
        <4> QED BY <3>2, <3>3, <4>1
      <3> QED BY <3>1, <3>4 DEF k
    <2> HIDE DEF B
    <2>6. 1 .. n \subseteq B
      BY <1>0, <2>4, <2>5, IntervalInduction
    <2>7. \A w \in 1 .. n : f[w] \in Seq(S)
      <3> SUFFICES ASSUME NEW w \in 1 .. n PROVE f[w] = g[w]
        OBVIOUS
      <3>1. n \in 1 .. n /\ n + 1 - n = 1
        OBVIOUS
      <3>2. n \in B
        BY <2>6, <3>1
      <3> QED BY <3>1, <3>2 DEF B
    <2> QED BY <1>6, <2>7 DEF GoesOn
  <1> QED BY <1>5, <1>6

-----------------------------------------------------------------------------
(* Sequences *)

(* A function on 1 .. n, even one given by an equation in itself, is a       *)
(* sequence.                                                                *)
LEMMA SeqOfFunction ==
    ASSUME NEW n \in Nat, NEW V, NEW f, \A k \in 1 .. n : f[k] \in V,
           f = [k \in 1 .. n |-> f[k]]
    PROVE  f \in Seq(V) /\ Len(f) = n
  <1>1. f \in [1 .. n -> V]
    OBVIOUS
  <1> QED BY <1>1

-----------------------------------------------------------------------------
(* FlattenSeq *)

(* FlattenSeq is the last of the concatenations of the first sequences.     *)
LEMMA FlattenIs ==
    ASSUME NEW S, NEW ps \in Seq(Seq(S)), ps # <<>>,
           NEW g \in [1 .. Len(ps) -> Seq(S)],
           g[1] = ps[1], \A i \in 2 .. Len(ps) : g[i] = g[i - 1] \o ps[i]
    PROVE  FlattenSeq(ps) = g[Len(ps)]
  <1> DEFINE n == Len(ps)
             Flat(f) == f = [i \in 1 .. n |-> IF i = 1 THEN ps[i] ELSE f[i - 1] \o ps[i]]
             h == CHOOSE f : Flat(f)
  <1>1. n \in Nat /\ n >= 1
    OBVIOUS
  <1>2. Flat(g)
    <2>1. \A i \in 1 .. n : g[i] = IF i = 1 THEN ps[i] ELSE g[i - 1] \o ps[i]
      <3> SUFFICES ASSUME NEW i \in 1 .. n, i # 1 PROVE g[i] = g[i - 1] \o ps[i]
        OBVIOUS
      <3>1. i \in 2 .. Len(ps)
        BY <1>1
      <3> QED BY <3>1
    <2> QED BY <2>1
  <1>3. Flat(h)
    BY <1>2
  <1>4. FlattenSeq(ps) = h[n]
    BY <1>1 DEF FlattenSeq
  <1> HIDE DEF h
  <1>5. 1 .. n \subseteq {i \in 1 .. n : h[i] = g[i]}
    <2> DEFINE A == {i \in 1 .. n : h[i] = g[i]}
    <2>1. 1 \in A
      BY <1>1, <1>3
    <2>2. ASSUME NEW i \in 1 .. n - 1, i \in A PROVE i + 1 \in A
      <3>1. i + 1 \in 1 .. n /\ i + 1 \in 2 .. Len(ps) /\ (i + 1) - 1 = i /\ i + 1 # 1
        BY <1>1
      <3>2. h[i + 1] = h[i] \o ps[i + 1]
        BY <1>3, <3>1
      <3>3. g[i + 1] = g[i] \o ps[i + 1]
        BY <3>1
      <3> QED BY <2>2, <3>1, <3>2, <3>3
    <2> HIDE DEF A
    <2>3. 1 .. n \subseteq A
      BY <1>1, <2>1, <2>2, IntervalInduction
    <2> QED BY <2>3 DEF A
  <1> QED
    <2>1. n \in 1 .. n
      BY <1>1
    <2> QED BY <1>4, <1>5, <2>1

(* There are such concatenations.                                           *)
Concatenates(g, ps, i) ==
    g[1] = ps[1] /\ \A j \in 2 .. i : g[j] = g[j - 1] \o ps[j]

LEMMA FlattenExists ==
    ASSUME NEW S, NEW ps \in Seq(Seq(S)), ps # <<>>
    PROVE  \E g \in [1 .. Len(ps) -> Seq(S)] :
              Concatenates(g, ps, Len(ps)) /\ FlattenSeq(ps) = g[Len(ps)]
  <1> DEFINE n == Len(ps)
             A == {i \in 1 .. n : \E g \in [1 .. i -> Seq(S)] : Concatenates(g, ps, i)}
  <1>1. n \in Nat /\ n >= 1 /\ n \in 1 .. n /\ \A i \in 1 .. n : ps[i] \in Seq(S)
    OBVIOUS
  <1>2. 1 \in A
    <2> DEFINE g == [i \in 1 .. 1 |-> ps[1]]
    <2>1. g \in [1 .. 1 -> Seq(S)] /\ Concatenates(g, ps, 1)
      BY <1>1 DEF Concatenates
    <2> QED BY <1>1, <2>1
  <1>3. ASSUME NEW i \in 1 .. n - 1, i \in A PROVE i + 1 \in A
    <2>1. PICK g \in [1 .. i -> Seq(S)] : Concatenates(g, ps, i)
      BY <1>3
    <2> DEFINE k == i + 1
               h == [j \in 1 .. k |-> IF j = k THEN g[i] \o ps[k] ELSE g[j]]
    <2>2. k \in 1 .. n /\ k \in Nat /\ i \in 1 .. i /\ i = k - 1 /\ k # 1 /\ i \in 1 .. k
      BY <1>1
    <2>3. g[i] \o ps[k] \in Seq(S)
      <3>1. g[i] \in Seq(S) /\ ps[k] \in Seq(S)
        BY <1>1, <2>2
      <3> QED BY <3>1
    <2>4. h \in [1 .. k -> Seq(S)]
      <3> SUFFICES ASSUME NEW j \in 1 .. k, j # k PROVE g[j] \in Seq(S)
        BY <2>3
      <3> QED BY <2>2
    <2>5. h[1] = ps[1]
      BY <2>1, <2>2 DEF Concatenates
    <2>6. \A j \in 2 .. k : h[j] = h[j - 1] \o ps[j]
      <3> SUFFICES ASSUME NEW j \in 2 .. k PROVE h[j] = h[j - 1] \o ps[j]
        OBVIOUS
      <3>1. CASE j = k
        <4>1. h[k] = g[i] \o ps[k] /\ h[i] = g[i]
          BY <2>2
        <4> QED BY <2>2, <3>1, <4>1
      <3>2. CASE j # k
        <4>1. j \in 2 .. i /\ j \in 1 .. k /\ j - 1 \in 1 .. k /\ j - 1 # k
          BY <2>2, <3>2
        <4>2. h[j] = g[j] /\ h[j - 1] = g[j - 1]
          BY <3>2, <4>1
        <4>3. g[j] = g[j - 1] \o ps[j]
          BY <2>1, <4>1 DEF Concatenates
        <4> QED BY <4>2, <4>3
      <3> QED BY <3>1, <3>2
    <2> HIDE DEF h, k
    <2> QED BY <2>2, <2>4, <2>5, <2>6 DEF Concatenates, k
  <1> HIDE DEF A
  <1>4. 1 .. n \subseteq A
    BY <1>1, <1>2, <1>3, IntervalInduction
  <1>5. PICK g \in [1 .. n -> Seq(S)] : Concatenates(g, ps, n)
    BY <1>1, <1>4 DEF A
  <1>6. FlattenSeq(ps) = g[n]
    BY <1>5, FlattenIs DEF Concatenates
  <1> QED BY <1>5, <1>6
=============================================================================

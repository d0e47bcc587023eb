--------------------------- MODULE StringSearch_proof ---------------------------
(* What the searching functions of StringSearch return, for all texts.      *)
(* A scan is a recursive function of the position it is at.  Of each it is   *)
(* shown that what it should return solves its equation, and that nothing   *)
(* else does: by induction on how far the scan has to go.                   *)
EXTENDS MCStringSearch, DataInduction

-----------------------------------------------------------------------------
(* Windows, occurrences, the first and the last *)

LEMMA WindowIs ==
    ASSUME NEW S, NEW s \in Seq(S), NEW p \in Nat, NEW n \in Nat, p + n <= Len(s)
    PROVE  /\ Window(s, p, n) \in Seq(S) /\ Len(Window(s, p, n)) = n
           /\ \A k \in 1 .. n : Window(s, p, n)[k] = s[p + k]
  <1>1. CASE n = 0
    BY <1>1 DEF Window
  <1>2. CASE n # 0
    BY <1>2 DEF Window
  <1> QED BY <1>1, <1>2

LEMMA SeqEqual ==
    ASSUME NEW S, NEW u \in Seq(S), NEW v \in Seq(S), Len(u) = Len(v),
           \A k \in 1 .. Len(v) : u[k] = v[k]
    PROVE  u = v
  OBVIOUS

(* Occurrence, character by character.                                      *)
Matches(s, sub, p) == \A k \in 1 .. Len(sub) : s[p + k] = sub[k]

LEMMA OccursIs ==
    ASSUME NEW S, NEW s \in Seq(S), NEW sub \in Seq(S), NEW p \in Nat, p + Len(sub) <= Len(s)
    PROVE  Occurs(s, sub, p) <=> Matches(s, sub, p)
  <1> DEFINE w == Window(s, p, Len(sub))
  <1>1. Len(sub) \in Nat
    OBVIOUS
  <1>2. w \in Seq(S) /\ Len(w) = Len(sub) /\ \A k \in 1 .. Len(sub) : w[k] = s[p + k]
    BY <1>1, WindowIs
  <1>3. Occurs(s, sub, p) <=> w = sub
    BY DEF Occurs
  <1> HIDE DEF w
  <1>4. ASSUME \A k \in 1 .. Len(sub) : s[p + k] = sub[k] PROVE w = sub
    BY <1>2, <1>4, SeqEqual
  <1>5. ASSUME w = sub PROVE \A k \in 1 .. Len(sub) : s[p + k] = sub[k]
    BY <1>2, <1>5
  <1> QED BY <1>3, <1>4, <1>5 DEF Matches

LEMMA OccurrencesIs ==
    ASSUME NEW s, NEW sub, sub # <<>>, NEW x, NEW y
    PROVE  Occurrences(s, sub, x, y) = {p \in x .. y - Len(sub) : Occurs(s, sub, p)}
  BY DEF Occurrences

LEMMA FirstOfIs ==
    ASSUME NEW T \in SUBSET Nat
    PROVE  /\ T = {} => FirstOf(T) = -1
           /\ T # {} => FirstOf(T) \in T /\ \A k \in T : FirstOf(T) <= k
           /\ \A m \in T : (\A k \in T : m <= k) => FirstOf(T) = m
  <1>1. ASSUME T # {} PROVE FirstOf(T) \in T /\ \A k \in T : FirstOf(T) <= k
    <2>1. \E m \in T : \A k \in T : m <= k
      BY <1>1, LeastOfSet
    <2>2. FirstOf(T) = CHOOSE m \in T : \A k \in T : m <= k
      BY <1>1 DEF FirstOf, Min
    <2> QED BY <2>1, <2>2
  <1>2. T = {} => FirstOf(T) = -1
    BY DEF FirstOf
  <1> QED
    <2>1. ASSUME NEW m \in T, \A k \in T : m <= k PROVE FirstOf(T) = m
      <3>1. FirstOf(T) \in T /\ FirstOf(T) <= m /\ m <= FirstOf(T)
        BY <1>1, <2>1
      <3>2. \A k \in T : k \in Int
        OBVIOUS
      <3> DEFINE l == FirstOf(T)
      <3>3. l \in Int /\ m \in Int /\ l <= m /\ m <= l
        BY <3>1, <3>2
      <3> HIDE DEF l
      <3>4. l = m
        BY ONLY <3>3
      <3> QED BY <3>4 DEF l
    <2> QED BY <1>1, <1>2, <2>1

(* A set of numbers that is not empty and has an upper bound has a greatest.*)
LEMMA GreatestOfSet ==
    ASSUME NEW n \in Nat, NEW T \in SUBSET (0 .. n), T # {}
    PROVE  \E m \in T : \A k \in T : k <= m
  <1> DEFINE R == {i \in 0 .. n : n - i \in T}
  <1>1. PICK r \in R : \A i \in R : r <= i
    <2>1. R \in SUBSET Nat /\ R # {}
      <3>1. PICK k \in T : TRUE
        OBVIOUS
      <3>2. k \in 0 .. n /\ n - k \in 0 .. n /\ n - (n - k) = k
        OBVIOUS
      <3>3. n - k \in R
        BY <3>2
      <3>4. R \subseteq Nat
        OBVIOUS
      <3> HIDE DEF R
      <3> QED BY <3>3, <3>4
    <2> HIDE DEF R
    <2> QED BY <2>1, LeastOfSet
  <1>2. n - r \in T
    OBVIOUS
  <1>3. ASSUME NEW k \in T PROVE k <= n - r
    <2>1. n - k \in R /\ k \in Int
      OBVIOUS
    <2> QED BY <1>1, <2>1
  <1> QED BY <1>2, <1>3

LEMMA LastOfIs ==
    ASSUME NEW n \in Nat, NEW T \in SUBSET (0 .. n)
    PROVE  /\ T = {} => LastOf(T) = -1
           /\ T # {} => LastOf(T) \in T /\ \A k \in T : k <= LastOf(T)
           /\ \A m \in T : (\A k \in T : k <= m) => LastOf(T) = m
  <1>1. ASSUME T # {} PROVE LastOf(T) \in T /\ \A k \in T : k <= LastOf(T)
    <2>1. \E m \in T : \A k \in T : k <= m
      BY <1>1, GreatestOfSet
    <2>2. \E m \in T : \A k \in T : m >= k
      BY <2>1
    <2>3. LastOf(T) = CHOOSE m \in T : \A k \in T : m >= k
      BY <1>1 DEF LastOf, Max
    <2>4. LastOf(T) \in T /\ \A k \in T : LastOf(T) >= k
      BY <2>2, <2>3
    <2> QED BY <2>4
  <1>2. T = {} => LastOf(T) = -1
    BY DEF LastOf
  <1> QED
    <2>1. ASSUME NEW m \in T, \A k \in T : k <= m PROVE LastOf(T) = m
      <3>1. LastOf(T) \in T /\ m <= LastOf(T) /\ LastOf(T) <= m
        BY <1>1, <2>1
      <3>2. \A k \in T : k \in Int
        OBVIOUS
      <3> DEFINE l == LastOf(T)
      <3>3. l \in Int /\ m \in Int /\ l <= m /\ m <= l
        BY <3>1, <3>2
      <3> HIDE DEF l
      <3>4. l = m
        BY ONLY <3>3
      <3> QED BY <3>4 DEF l
    <2> QED BY <1>1, <1>2, <2>1

-----------------------------------------------------------------------------
(* Find *)

FindNext(s, sub, y, p) == Min({q \in p .. y : q = y \/ s[q + 1] = sub[1]})

FindStep(s, sub, y, f, p) ==
    IF p = y THEN -1
    ELSE IF StartsWith(Window(s, p, y - p), sub) THEN p
    ELSE f[FindNext(s, sub, y, p + 1)]

FindSolves(s, sub, x, y, f) == f = [p \in x .. y |-> FindStep(s, sub, y, f, p)]

FindScan(s, sub, x, y) == CHOOSE f : FindSolves(s, sub, x, y, f)

LEMMA FindUnfolds ==
    ASSUME NEW s, NEW sub, NEW start, NEW end
    PROVE  Find(s, sub, start, end) =
              IF sub = <<>> \/ Len(s) < Len(sub) \/ Bound(start, Len(s)) >= EndBound(end, Len(s))
              THEN -1
              ELSE FindScan(s, sub, Bound(start, Len(s)), EndBound(end, Len(s)))[Bound(start, Len(s))]
  BY DEF Find, FindScan, FindSolves, FindStep, FindNext

(* What is asked: texts of numbers and bounds inside the text.              *)
Bounded(s, sub, x, y) ==
    s \in Seq(Nat) /\ sub \in Seq(Nat) /\ sub # <<>> /\ x \in Nat /\ y \in 0 .. Len(s)

(* Where sub begins: its first character is there.                          *)
LEMMA BeginsWithFirst ==
    ASSUME NEW s, NEW sub, NEW x, NEW y, Bounded(s, sub, x, y),
           NEW p \in Occurrences(s, sub, x, y)
    PROVE  /\ p \in Nat /\ p >= x /\ p + Len(sub) <= y /\ p < y /\ Len(sub) \in Nat
           /\ s[p + 1] = sub[1]
  <1>1. Len(sub) \in Nat /\ Len(sub) >= 1 /\ x \in Nat /\ y \in Nat /\ y <= Len(s)
    BY DEF Bounded
  <1>2. p \in x .. y - Len(sub) /\ Occurs(s, sub, p)
    BY OccurrencesIs DEF Bounded
  <1>3. p \in Nat /\ p + Len(sub) <= Len(s)
    BY <1>1, <1>2
  <1>4. \A k \in 1 .. Len(sub) : s[p + k] = sub[k]
    <2>1. Matches(s, sub, p)
      BY <1>2, <1>3, OccursIs DEF Bounded
    <2> QED BY <2>1 DEF Matches
  <1> QED BY <1>1, <1>2, <1>4

(* The test at a position is that sub occurs there, before the end.         *)
LEMMA StartsIsOccurs ==
    ASSUME NEW s, NEW sub, NEW x, NEW y, Bounded(s, sub, x, y), NEW p \in x .. y - 1
    PROVE  StartsWith(Window(s, p, y - p), sub) <=> p \in Occurrences(s, sub, x, y)
  <1> DEFINE w == Window(s, p, y - p)
  <1>1. Len(sub) \in Nat /\ Len(sub) >= 1 /\ x \in Nat /\ y \in Nat /\ y <= Len(s) /\ p \in Nat /\ y - p \in Nat /\ p + (y - p) <= Len(s)
    BY DEF Bounded
  <1>2. Len(w) = y - p /\ \A k \in 1 .. y - p : w[k] = s[p + k]
    <2> DEFINE n == y - p
    <2>1. n \in Nat /\ p + n <= Len(s) /\ s \in Seq(Nat)
      BY <1>1 DEF Bounded
    <2> HIDE DEF n
    <2>2. p \in Nat
      BY <1>1
    <2>3. Len(Window(s, p, n)) = n /\ \A k \in 1 .. n : Window(s, p, n)[k] = s[p + k]
      BY ONLY <2>1, <2>2, WindowIs
    <2> QED BY <2>3 DEF n
  <1>3. StartsWith(w, sub) <=> Len(sub) <= y - p /\ \A k \in 1 .. Len(sub) : w[k] = sub[k]
    BY <1>2 DEF StartsWith
  <1> HIDE DEF w
  <1>4. CASE Len(sub) <= y - p
    <2>1. StartsWith(w, sub) <=> \A k \in 1 .. Len(sub) : s[p + k] = sub[k]
      <3>1. \A k \in 1 .. Len(sub) : w[k] = s[p + k]
        BY <1>1, <1>2, <1>4
      <3> QED BY <1>3, <1>4, <3>1
    <2>2. p + Len(sub) <= Len(s) /\ p \in x .. y - Len(sub)
      BY <1>1, <1>4
    <2>3. Occurs(s, sub, p) <=> \A k \in 1 .. Len(sub) : s[p + k] = sub[k]
      <3>1. Occurs(s, sub, p) <=> Matches(s, sub, p)
        BY <1>1, <2>2, OccursIs DEF Bounded
      <3> QED BY <3>1 DEF Matches
    <2>4. p \in Occurrences(s, sub, x, y) <=> Occurs(s, sub, p)
      BY <2>2, OccurrencesIs DEF Bounded
    <2> QED BY <2>1, <2>3, <2>4 DEF w
  <1>5. CASE ~ (Len(sub) <= y - p)
    <2>1. p \notin x .. y - Len(sub)
      BY <1>1, <1>5
    <2> QED BY <1>3, <1>5, <2>1, OccurrencesIs DEF Bounded, w
  <1> QED BY <1>4, <1>5

LEMMA FindNextIs ==
    ASSUME NEW s, NEW sub, NEW x, NEW y, Bounded(s, sub, x, y), NEW p \in x .. y
    PROVE  /\ FindNext(s, sub, y, p) \in p .. y
           /\ \A q \in p .. FindNext(s, sub, y, p) - 1 : s[q + 1] # sub[1]
  <1> DEFINE T == {q \in p .. y : q = y \/ s[q + 1] = sub[1]}
             m == FindNext(s, sub, y, p)
  <1>1. y \in Nat /\ p \in Nat /\ y \in T /\ T \in SUBSET Nat
    BY DEF Bounded
  <1>2. \E k \in T : \A j \in T : k <= j
    <2> HIDE DEF T
    <2> QED BY <1>1, LeastOfSet
  <1>3. m \in T /\ \A j \in T : m <= j
    BY <1>2 DEF FindNext, Min
  <1> HIDE DEF m
  <1>4. m \in p .. y
    BY <1>3
  <1>5. ASSUME NEW q \in p .. m - 1 PROVE s[q + 1] # sub[1]
    <2>1. q \in p .. y /\ q < m /\ q \in Int /\ m \in Int
      BY <1>1, <1>4
    <2>2. q \notin T
      <3> HIDE DEF T
      <3> QED BY <1>3, <2>1
    <2> QED BY <2>1, <2>2
  <1> QED BY <1>4, <1>5 DEF m


(* What the scan looks for from where it is.                                *)
FirstFrom(s, sub, y, p) == FirstOf(Occurrences(s, sub, p, y))

LEMMA FirstFromStep ==
    ASSUME NEW s, NEW sub, NEW x, NEW y, Bounded(s, sub, x, y), NEW p \in x .. y
    PROVE  FirstFrom(s, sub, y, p) =
             IF p = y THEN -1
             ELSE IF StartsWith(Window(s, p, y - p), sub) THEN p
             ELSE FirstFrom(s, sub, y, FindNext(s, sub, y, p + 1))
  <1>1. x \in Nat /\ y \in Nat /\ p \in Nat /\ p \in p .. y /\ Bounded(s, sub, p, y)
    BY DEF Bounded
  <1>2. Occurrences(s, sub, p, y) \in SUBSET Nat
    BY <1>1, BeginsWithFirst
  <1>3. CASE p = y
    <2>1. Occurrences(s, sub, p, y) = {}
      BY <1>1, <1>3, BeginsWithFirst
    <2> QED BY <1>2, <1>3, <2>1, FirstOfIs DEF FirstFrom
  <1>4. CASE p # y /\ StartsWith(Window(s, p, y - p), sub)
    <2>1. p \in Occurrences(s, sub, p, y)
      <3>1. p \in p .. y - 1
        BY <1>1, <1>4
      <3> QED BY <1>1, <1>4, <3>1, StartsIsOccurs
    <2>2. \A k \in Occurrences(s, sub, p, y) : p <= k
      BY <1>1, BeginsWithFirst
    <2>3. FirstOf(Occurrences(s, sub, p, y)) = p
      BY <1>2, <2>1, <2>2, FirstOfIs
    <2> QED BY <1>4, <2>3 DEF FirstFrom
  <1>5. CASE p # y /\ ~ StartsWith(Window(s, p, y - p), sub)
    <2> DEFINE q == FindNext(s, sub, y, p + 1)
    <2>1. p \in p .. y - 1 /\ p + 1 \in p .. y
      BY <1>1, <1>5
    <2>2. q \in p + 1 .. y /\ \A r \in p + 1 .. q - 1 : s[r + 1] # sub[1]
      BY <1>1, <2>1, FindNextIs
    <2> HIDE DEF q
    <2>3. q \in p .. y /\ Bounded(s, sub, q, y)
      BY <1>1, <2>2 DEF Bounded
    <2>4. p \notin Occurrences(s, sub, p, y)
      BY <1>1, <1>5, <2>1, StartsIsOccurs
    <2>5. ASSUME NEW k \in Occurrences(s, sub, p, y) PROVE k \in Occurrences(s, sub, q, y)
      <3>1. k \in Nat /\ k >= p /\ k + Len(sub) <= y /\ Len(sub) \in Nat /\ s[k + 1] = sub[1]
        BY <1>1, BeginsWithFirst
      <3>2. k # p
        BY <2>4
      <3>3. k \notin p + 1 .. q - 1
        BY <2>2, <3>1
      <3>4. k \in q .. y - Len(sub)
        BY <1>1, <2>2, <3>1, <3>2, <3>3
      <3>5. Occurs(s, sub, k)
        BY OccurrencesIs DEF Bounded
      <3> QED BY <3>4, <3>5, OccurrencesIs DEF Bounded
    <2>6. ASSUME NEW k \in Occurrences(s, sub, q, y) PROVE k \in Occurrences(s, sub, p, y)
      <3>1. k \in Nat /\ k >= q /\ k + Len(sub) <= y /\ Len(sub) \in Nat
        BY <2>3, BeginsWithFirst
      <3>2. k \in p .. y - Len(sub)
        BY <1>1, <2>2, <3>1
      <3>3. Occurs(s, sub, k)
        BY OccurrencesIs DEF Bounded
      <3> QED BY <3>2, <3>3, OccurrencesIs DEF Bounded
    <2>7. Occurrences(s, sub, p, y) = Occurrences(s, sub, q, y)
      BY <2>5, <2>6
    <2> QED BY <1>5, <2>7 DEF FirstFrom, q
  <1> QED BY <1>3, <1>4, <1>5


LEMMA FindScanIs ==
    ASSUME NEW s, NEW sub, NEW x, NEW y, Bounded(s, sub, x, y), x <= y
    PROVE  FindScan(s, sub, x, y)[x] = FirstFrom(s, sub, y, x)
  <1> DEFINE F(p) == FirstFrom(s, sub, y, p)
             q(p) == FindNext(s, sub, y, p + 1)
             h    == FindScan(s, sub, x, y)
  <1>1. x \in Nat /\ y \in Nat
    BY DEF Bounded
  <1>2. \A p \in x .. y : p # y => q(p) \in p + 1 .. y /\ q(p) \in x .. y
    <2> SUFFICES ASSUME NEW p \in x .. y, p # y PROVE q(p) \in p + 1 .. y /\ q(p) \in x .. y
      OBVIOUS
    <2>1. p + 1 \in x .. y
      BY <1>1
    <2>2. q(p) \in p + 1 .. y
      BY <2>1, FindNextIs
    <2> HIDE DEF q
    <2> QED BY <1>1, <2>2
  <1>3. \E f : FindSolves(s, sub, x, y, f)
    <2> DEFINE f == [p \in x .. y |-> F(p)]
    <2>1. ASSUME NEW p \in x .. y PROVE f[p] = FindStep(s, sub, y, f, p)
      <3>1. p # y => f[q(p)] = F(q(p))
        <4> HIDE DEF F, q
        <4> QED BY <1>2
      <3>2. f[p] = F(p)
        OBVIOUS
      <3>3. F(p) = IF p = y THEN -1
                   ELSE IF StartsWith(Window(s, p, y - p), sub) THEN p ELSE F(q(p))
        BY FirstFromStep
      <3> HIDE DEF f, F
      <3> QED BY <3>1, <3>2, <3>3 DEF FindStep
    <2>2. FindSolves(s, sub, x, y, f)
      BY <2>1 DEF FindSolves
    <2> QED BY <2>2
  <1>4. FindSolves(s, sub, x, y, h)
    BY <1>3 DEF FindScan
  <1>5. \A p \in x .. y : h[p] = IF p = y THEN -1
                                 ELSE IF StartsWith(Window(s, p, y - p), sub) THEN p
                                 ELSE h[q(p)]
    <2> HIDE DEF h
    <2> QED BY <1>4 DEF FindSolves, FindStep
  <1>6. \A p \in x .. y : F(p) = IF p = y THEN -1
                                 ELSE IF StartsWith(Window(s, p, y - p), sub) THEN p
                                 ELSE F(q(p))
    BY FirstFromStep
  <1> DEFINE n == y - x + 1
             A == {i \in 1 .. n : \A p \in x .. y : y - p < i => h[p] = F(p)}
  <1>7. n \in Nat /\ n \in 1 .. n /\ 1 \in 1 .. n
    BY <1>1
  <1>8. 1 \in A
    <2> SUFFICES ASSUME NEW p \in x .. y, y - p < 1 PROVE h[p] = F(p)
      BY <1>7
    <2>1. p = y
      BY <1>1
    <2> HIDE DEF h, F
    <2> QED BY <1>5, <1>6, <2>1
  <1>9. ASSUME NEW i \in 1 .. n - 1, i \in A PROVE i + 1 \in A
    <2> SUFFICES ASSUME NEW p \in x .. y, y - p < i + 1 PROVE h[p] = F(p)
      BY <1>7
    <2>1. p # y => h[q(p)] = F(q(p))
      <3> SUFFICES ASSUME p # y PROVE h[q(p)] = F(q(p))
        OBVIOUS
      <3>1. q(p) \in x .. y /\ y - q(p) < i
        <4>1. q(p) \in p + 1 .. y /\ q(p) \in x .. y
          BY <1>2
        <4> HIDE DEF q
        <4> QED BY <1>1, <4>1
      <3> HIDE DEF h, F, q
      <3> QED BY <1>9, <3>1
    <2> HIDE DEF h, F, q
    <2> QED BY <1>5, <1>6, <2>1
  <1>10. 1 .. n \subseteq A
    <2> HIDE DEF n, A
    <2> QED BY <1>7, <1>8, <1>9, IntervalInduction
  <1>11. x \in x .. y /\ y - x < n
    BY <1>1
  <1> HIDE DEF h, F, n
  <1> QED BY <1>7, <1>10, <1>11 DEF h, F

(* String_find returns the first occurrence between its bounds, or -1.      *)
THEOREM FindIs ==
    ASSUME NEW s \in Seq(Nat), NEW sub \in Seq(Nat), NEW start, NEW end,
           Bound(start, Len(s)) \in Nat, EndBound(end, Len(s)) \in 0 .. Len(s)
    PROVE  Find(s, sub, start, end) =
             FirstOf(Occurrences(s, sub, Bound(start, Len(s)), EndBound(end, Len(s))))
  <1> DEFINE x == Bound(start, Len(s))
             y == EndBound(end, Len(s))
  <1> HIDE DEF x, y
  <1>1. x \in Nat /\ y \in 0 .. Len(s) /\ y \in Nat
    BY DEF x, y
  <1>2. Find(s, sub, start, end) =
          IF sub = <<>> \/ Len(s) < Len(sub) \/ x >= y THEN -1 ELSE FindScan(s, sub, x, y)[x]
    BY FindUnfolds DEF x, y
  <1>3. CASE sub = <<>> \/ Len(s) < Len(sub) \/ x >= y
    <2>1. Occurrences(s, sub, x, y) = {}
      <3>1. CASE sub = <<>>
        BY <3>1 DEF Occurrences
      <3>2. CASE sub # <<>>
        <4>1. Bounded(s, sub, x, y)
          BY <1>1, <3>2 DEF Bounded
        <4> SUFFICES ASSUME NEW p \in Occurrences(s, sub, x, y) PROVE FALSE
          OBVIOUS
        <4>2. p \in Nat /\ p >= x /\ p + Len(sub) <= y /\ p < y /\ Len(sub) \in Nat
          BY <4>1, BeginsWithFirst
        <4> QED BY <1>1, <1>3, <3>2, <4>2
      <3> QED BY <3>1, <3>2
    <2>2. FirstOf(Occurrences(s, sub, x, y)) = -1
      BY <2>1 DEF FirstOf
    <2> QED BY <1>2, <1>3, <2>2 DEF x, y
  <1>4. CASE ~ (sub = <<>> \/ Len(s) < Len(sub) \/ x >= y)
    <2>1. Bounded(s, sub, x, y) /\ x <= y
      BY <1>1, <1>4 DEF Bounded
    <2>2. FindScan(s, sub, x, y)[x] = FirstFrom(s, sub, y, x)
      BY <2>1, FindScanIs
    <2> QED BY <1>2, <1>4, <2>2 DEF FirstFrom, x, y
  <1> QED BY <1>3, <1>4


-----------------------------------------------------------------------------
(* Rfind *)

RfindNext(s, sub, low, p) ==
    Max({q \in low .. p : q = low \/ s[q - Len(sub) + 1] = sub[1]})

RfindStep(s, sub, x, f, p) ==
    IF p = x + Len(sub) - 1 THEN -1
    ELSE IF EndsWith(Window(s, x, p - x), sub) THEN p - Len(sub)
    ELSE f[RfindNext(s, sub, x + Len(sub) - 1, p - 1)]

RfindSolves(s, sub, x, y, f) ==
    f = [p \in x + Len(sub) - 1 .. y |-> RfindStep(s, sub, x, f, p)]

RfindScan(s, sub, x, y) == CHOOSE f : RfindSolves(s, sub, x, y, f)

LEMMA RfindUnfolds ==
    ASSUME NEW s, NEW sub, NEW start, NEW end
    PROVE  Rfind(s, sub, start, end) =
              IF Len(sub) = 0 \/ Len(s) < Len(sub)
                   \/ Bound(start, Len(s)) + Len(sub) > EndBound(end, Len(s))
              THEN -1
              ELSE RfindScan(s, sub, Bound(start, Len(s)), EndBound(end, Len(s)))
                        [EndBound(end, Len(s))]
  BY DEF Rfind, RfindScan, RfindSolves, RfindStep, RfindNext

(* The test at a position is that sub occurs so as to end there.            *)
LEMMA EndsIsOccurs ==
    ASSUME NEW s, NEW sub, NEW x, NEW y, Bounded(s, sub, x, y), NEW p \in x + Len(sub) .. y
    PROVE  EndsWith(Window(s, x, p - x), sub) <=> p - Len(sub) \in Occurrences(s, sub, x, p)
  <1> DEFINE n == Len(sub)
             m == p - x
             w == Window(s, x, m)
             k0 == p - n
  <1>1. n \in Nat /\ n >= 1 /\ x \in Nat /\ y \in Nat /\ y <= Len(s) /\ p \in Nat /\ m \in Nat
        /\ n <= m /\ x + m <= Len(s) /\ k0 \in Nat /\ k0 + n <= Len(s) /\ k0 \in x .. p - n
        /\ s \in Seq(Nat) /\ sub \in Seq(Nat) /\ sub # <<>>
    BY DEF Bounded
  <1>2. m - n + x = k0 /\ m \in Int /\ n \in Int
    BY <1>1
  <1> HIDE DEF n, m, w, k0
  <1>3. Len(Window(s, x, m)) = m /\ \A k \in 1 .. m : Window(s, x, m)[k] = s[x + k]
    BY ONLY <1>1, WindowIs
  <1>4. Len(w) = m /\ \A k \in 1 .. m : w[k] = s[x + k]
    BY <1>3 DEF w
  <1>5. EndsWith(w, sub) <=> n <= m /\ \A k \in 1 .. n : w[m - n + k] = sub[k]
    BY <1>4 DEF EndsWith, n
  <1>6. \A k \in 1 .. n : w[m - n + k] = s[k0 + k]
    <2> SUFFICES ASSUME NEW k \in 1 .. n PROVE w[m - n + k] = s[k0 + k]
      OBVIOUS
    <2>1. m - n + k \in 1 .. m /\ x + (m - n + k) = k0 + k
      BY <1>1, <1>2
    <2> QED BY <1>4, <2>1
  <1>7. Occurs(s, sub, k0) <=> \A k \in 1 .. n : s[k0 + k] = sub[k]
    <2>1. s \in Seq(Nat) /\ sub \in Seq(Nat) /\ k0 \in Nat /\ k0 + Len(sub) <= Len(s)
      BY <1>1 DEF n
    <2>2. Occurs(s, sub, k0) <=> Matches(s, sub, k0)
      BY ONLY <2>1, OccursIs
    <2> QED BY <2>2 DEF Matches, n
  <1>8. k0 \in Occurrences(s, sub, x, p) <=> Occurs(s, sub, k0)
    <2>1. sub # <<>> /\ k0 \in x .. p - Len(sub)
      BY <1>1 DEF n
    <2> QED BY ONLY <2>1, OccurrencesIs
  <1>9. EndsWith(w, sub) <=> k0 \in Occurrences(s, sub, x, p)
    BY <1>1, <1>5, <1>6, <1>7, <1>8
  <1> QED BY <1>9 DEF w, m, k0, n

LEMMA RfindNextIs ==
    ASSUME NEW s, NEW sub, NEW low \in Nat, NEW p \in Nat, low <= p, Len(sub) \in Nat
    PROVE  /\ RfindNext(s, sub, low, p) \in low .. p
           /\ \A q \in RfindNext(s, sub, low, p) + 1 .. p : s[q - Len(sub) + 1] # sub[1]
  <1> DEFINE T == {q \in low .. p : q = low \/ s[q - Len(sub) + 1] = sub[1]}
             m == RfindNext(s, sub, low, p)
  <1>1. low \in T /\ T \in SUBSET (0 .. p)
    OBVIOUS
  <1>2. \E k \in T : \A j \in T : k >= j
    <2> HIDE DEF T
    <2>1. PICK k \in T : \A j \in T : j <= k
      BY <1>1, GreatestOfSet
    <2> QED BY <2>1
  <1>3. m \in T /\ \A j \in T : m >= j
    BY <1>2 DEF RfindNext, Max
  <1> HIDE DEF m
  <1>4. m \in low .. p
    BY <1>3
  <1>5. ASSUME NEW q \in m + 1 .. p PROVE s[q - Len(sub) + 1] # sub[1]
    <2>1. q \in low .. p /\ q > m /\ q \in Int /\ m \in Int
      BY <1>4
    <2>2. q \notin T
      <3> HIDE DEF T
      <3> QED BY <1>3, <2>1
    <2> QED BY <2>1, <2>2
  <1> QED BY <1>4, <1>5 DEF m

LastTo(s, sub, x, p) == LastOf(Occurrences(s, sub, x, p))

LEMMA LastToStep ==
    ASSUME NEW s, NEW sub, NEW x, NEW y, Bounded(s, sub, x, y), x + Len(sub) <= y,
           NEW p \in x + Len(sub) - 1 .. y
    PROVE  LastTo(s, sub, x, p) =
             IF p = x + Len(sub) - 1 THEN -1
             ELSE IF EndsWith(Window(s, x, p - x), sub) THEN p - Len(sub)
             ELSE LastTo(s, sub, x, RfindNext(s, sub, x + Len(sub) - 1, p - 1))
  <1> DEFINE n == Len(sub)
  <1>1. n \in Nat /\ n >= 1 /\ x \in Nat /\ y \in Nat /\ p \in Nat /\ Bounded(s, sub, x, p)
    BY DEF Bounded
  <1>2. \A k \in Occurrences(s, sub, x, p) :
            k \in Nat /\ k >= x /\ k + n <= p /\ s[k + 1] = sub[1]
    BY <1>1, BeginsWithFirst
  <1> HIDE DEF n
  <1>3. Occurrences(s, sub, x, p) \in SUBSET (0 .. p)
    BY <1>1, <1>2
  <1>4. CASE p = x + n - 1
    <2>1. Occurrences(s, sub, x, p) = {}
      BY <1>1, <1>2, <1>4
    <2> QED BY <1>1, <1>3, <1>4, <2>1, LastOfIs DEF LastTo, n
  <1>5. CASE p # x + n - 1 /\ EndsWith(Window(s, x, p - x), sub)
    <2>1. p - n \in Occurrences(s, sub, x, p)
      <3>1. p \in x + n .. y
        BY <1>1, <1>5 DEF n
      <3> QED BY <1>5, <3>1, EndsIsOccurs DEF n
    <2>2. \A k \in Occurrences(s, sub, x, p) : k <= p - n
      BY <1>1, <1>2
    <2>3. LastOf(Occurrences(s, sub, x, p)) = p - n
      BY <1>1, <1>3, <2>1, <2>2, LastOfIs
    <2> QED BY <1>5, <2>3 DEF LastTo, n
  <1>6. CASE p # x + n - 1 /\ ~ EndsWith(Window(s, x, p - x), sub)
    <2> DEFINE low == x + n - 1
               q   == RfindNext(s, sub, low, p - 1)
    <2>1. p \in x + n .. y /\ low \in Nat /\ p - 1 \in Nat /\ low <= p - 1
      BY <1>1, <1>6 DEF n
    <2>2. q \in low .. p - 1 /\ \A r \in q + 1 .. p - 1 : s[r - n + 1] # sub[1]
      <3> HIDE DEF low
      <3>1. Len(sub) \in Nat
        BY <1>1 DEF n
      <3> QED BY <2>1, <3>1, RfindNextIs DEF n
    <2> HIDE DEF q
    <2>3. q \in Nat /\ q <= p /\ q <= y /\ Bounded(s, sub, x, q)
      BY <1>1, <2>1, <2>2 DEF Bounded
    <2>4. p - n \notin Occurrences(s, sub, x, p)
      BY <1>6, <2>1, EndsIsOccurs DEF n
    <2>5. ASSUME NEW k \in Occurrences(s, sub, x, p) PROVE k \in Occurrences(s, sub, x, q)
      <3>1. k \in Nat /\ k >= x /\ k + n <= p /\ s[k + 1] = sub[1]
        BY <1>2
      <3>2. k # p - n
        BY <2>4
      <3>3. k + n \notin q + 1 .. p - 1
        <4> DEFINE r == k + n
        <4>1. r - n + 1 = k + 1
          BY <1>1, <3>1
        <4>2. r \in q + 1 .. p - 1 => s[r - n + 1] # sub[1]
          BY <2>2
        <4> HIDE DEF r
        <4>3. r \notin q + 1 .. p - 1
          BY ONLY <3>1, <4>1, <4>2
        <4> QED BY <4>3 DEF r
      <3>4. k \in x .. q - n
        BY <1>1, <2>1, <2>2, <3>1, <3>2, <3>3
      <3>5. Occurs(s, sub, k)
        BY <1>1, OccurrencesIs DEF Bounded
      <3> QED BY <1>1, <3>4, <3>5, OccurrencesIs DEF Bounded, n
    <2>6. ASSUME NEW k \in Occurrences(s, sub, x, q) PROVE k \in Occurrences(s, sub, x, p)
      <3>1. k \in Nat /\ k >= x /\ k + n <= q
        BY <2>3, BeginsWithFirst DEF n
      <3>2. k \in x .. p - n
        BY <1>1, <2>3, <3>1
      <3>3. Occurs(s, sub, k)
        BY <1>1, OccurrencesIs DEF Bounded
      <3> QED BY <1>1, <3>2, <3>3, OccurrencesIs DEF Bounded, n
    <2>7. Occurrences(s, sub, x, p) = Occurrences(s, sub, x, q)
      BY <2>5, <2>6
    <2> QED BY <1>6, <2>7 DEF LastTo, q, n
  <1> QED BY <1>4, <1>5, <1>6


LEMMA RfindScanIs ==
    ASSUME NEW s, NEW sub, NEW x, NEW y, Bounded(s, sub, x, y), x + Len(sub) <= y
    PROVE  RfindScan(s, sub, x, y)[y] = LastTo(s, sub, x, y)
  <1> DEFINE low  == x + Len(sub) - 1
             F(p) == LastTo(s, sub, x, p)
             q(p) == RfindNext(s, sub, low, p - 1)
             h    == RfindScan(s, sub, x, y)
  <1>1. low \in Nat /\ y \in Nat /\ low < y /\ Len(sub) \in Nat
    BY DEF Bounded
  <1>2. \A p \in low .. y : p # low => q(p) \in low .. p - 1 /\ q(p) \in low .. y
    <2> SUFFICES ASSUME NEW p \in low .. y, p # low PROVE q(p) \in low .. p - 1 /\ q(p) \in low .. y
      OBVIOUS
    <2> HIDE DEF low
    <2>1. p - 1 \in Nat /\ low <= p - 1 /\ p \in Nat
      BY <1>1
    <2>2. q(p) \in low .. p - 1
      BY <1>1, <2>1, RfindNextIs
    <2> HIDE DEF q
    <2> QED BY <1>1, <2>1, <2>2
  <1>3. \A p \in low .. y : F(p) = IF p = low THEN -1
                                   ELSE IF EndsWith(Window(s, x, p - x), sub) THEN p - Len(sub)
                                   ELSE F(q(p))
    BY LastToStep
  <1>4. \E f : RfindSolves(s, sub, x, y, f)
    <2> DEFINE f == [p \in low .. y |-> F(p)]
    <2>1. ASSUME NEW p \in low .. y PROVE f[p] = RfindStep(s, sub, x, f, p)
      <3>1. p # low => f[q(p)] = F(q(p))
        <4> HIDE DEF F, q, low
        <4> QED BY <1>2
      <3>2. f[p] = F(p)
        OBVIOUS
      <3> HIDE DEF f, F
      <3> QED BY <1>3, <3>1, <3>2 DEF RfindStep
    <2>2. RfindSolves(s, sub, x, y, f)
      BY <2>1 DEF RfindSolves
    <2> QED BY <2>2
  <1>5. RfindSolves(s, sub, x, y, h)
    BY <1>4 DEF RfindScan
  <1>6. \A p \in low .. y : h[p] = IF p = low THEN -1
                                   ELSE IF EndsWith(Window(s, x, p - x), sub) THEN p - Len(sub)
                                   ELSE h[q(p)]
    <2> HIDE DEF h
    <2> QED BY <1>5 DEF RfindSolves, RfindStep
  <1> DEFINE n == y - low + 1
             A == {i \in 1 .. n : \A p \in low .. y : p - low < i => h[p] = F(p)}
  <1> HIDE DEF low
  <1>7. n \in Nat /\ n \in 1 .. n /\ 1 \in 1 .. n
    BY <1>1
  <1>8. 1 \in A
    <2> SUFFICES ASSUME NEW p \in low .. y, p - low < 1 PROVE h[p] = F(p)
      BY <1>7
    <2>1. p = low
      BY <1>1
    <2> HIDE DEF h, F
    <2> QED BY <1>3, <1>6, <2>1
  <1>9. ASSUME NEW i \in 1 .. n - 1, i \in A PROVE i + 1 \in A
    <2> SUFFICES ASSUME NEW p \in low .. y, p - low < i + 1 PROVE h[p] = F(p)
      BY <1>7
    <2>1. p # low => h[q(p)] = F(q(p))
      <3> SUFFICES ASSUME p # low PROVE h[q(p)] = F(q(p))
        OBVIOUS
      <3>1. q(p) \in low .. y /\ q(p) - low < i
        <4>1. q(p) \in low .. p - 1 /\ q(p) \in low .. y
          BY <1>2
        <4> HIDE DEF q
        <4> QED BY <1>1, <4>1
      <3> HIDE DEF h, F, q
      <3> QED BY <1>9, <3>1
    <2> HIDE DEF h, F, q
    <2> QED BY <1>3, <1>6, <2>1
  <1>10. 1 .. n \subseteq A
    <2> HIDE DEF n, A
    <2> QED BY <1>7, <1>8, <1>9, IntervalInduction
  <1>11. y \in low .. y /\ y - low < n
    BY <1>1
  <1> HIDE DEF h, F, n
  <1> QED BY <1>7, <1>10, <1>11 DEF h, F

(* String_rfind returns the last occurrence between its bounds, or -1.      *)
THEOREM RfindIs ==
    ASSUME NEW s \in Seq(Nat), NEW sub \in Seq(Nat), NEW start, NEW end,
           Bound(start, Len(s)) \in Nat, EndBound(end, Len(s)) \in 0 .. Len(s)
    PROVE  Rfind(s, sub, start, end) =
             LastOf(Occurrences(s, sub, Bound(start, Len(s)), EndBound(end, Len(s))))
  <1> DEFINE x == Bound(start, Len(s))
             y == EndBound(end, Len(s))
  <1> HIDE DEF x, y
  <1>1. x \in Nat /\ y \in 0 .. Len(s) /\ y \in Nat /\ Len(sub) \in Nat /\ (Len(sub) = 0 <=> sub = <<>>)
    BY DEF x, y
  <1>2. Rfind(s, sub, start, end) =
          IF Len(sub) = 0 \/ Len(s) < Len(sub) \/ x + Len(sub) > y THEN -1
          ELSE RfindScan(s, sub, x, y)[y]
    BY RfindUnfolds DEF x, y
  <1>3. CASE Len(sub) = 0 \/ Len(s) < Len(sub) \/ x + Len(sub) > y
    <2>1. Occurrences(s, sub, x, y) = {}
      <3>1. CASE sub = <<>>
        BY <3>1 DEF Occurrences
      <3>2. CASE sub # <<>>
        <4>1. Bounded(s, sub, x, y)
          BY <1>1, <3>2 DEF Bounded
        <4> SUFFICES ASSUME NEW p \in Occurrences(s, sub, x, y) PROVE FALSE
          OBVIOUS
        <4>2. p \in Nat /\ p >= x /\ p + Len(sub) <= y
          BY <4>1, BeginsWithFirst
        <4> QED BY <1>1, <1>3, <3>2, <4>2
      <3> QED BY <3>1, <3>2
    <2>2. LastOf(Occurrences(s, sub, x, y)) = -1
      BY <2>1 DEF LastOf
    <2> QED BY <1>2, <1>3, <2>2 DEF x, y
  <1>4. CASE ~ (Len(sub) = 0 \/ Len(s) < Len(sub) \/ x + Len(sub) > y)
    <2>1. Bounded(s, sub, x, y) /\ x + Len(sub) <= y
      BY <1>1, <1>4 DEF Bounded
    <2>2. RfindScan(s, sub, x, y)[y] = LastTo(s, sub, x, y)
      BY <2>1, RfindScanIs
    <2> QED BY <1>2, <1>4, <2>2 DEF LastTo, x, y
  <1> QED BY <1>3, <1>4


-----------------------------------------------------------------------------
(* Count: the largest number of positions that are n or more apart *)

ApartIn(T, n) == {qs \in SUBSET T : Apart(qs, n)}

LEMMA SmallSets ==
    ASSUME NEW y \in Nat, NEW T \in SUBSET (0 .. y), NEW qs \in SUBSET T
    PROVE  IsFiniteSet(qs) /\ Cardinality(qs) \in 0 .. y + 1
  <1>1. IsFiniteSet(0 .. y) /\ Cardinality(0 .. y) = y + 1
    BY FS_Interval
  <1>2. qs \subseteq 0 .. y
    OBVIOUS
  <1>3. IsFiniteSet(qs) /\ Cardinality(qs) <= y + 1
    BY <1>1, <1>2, FS_Subset
  <1>4. Cardinality(qs) \in Nat
    BY <1>3, FS_CardinalityType
  <1> QED BY <1>3, <1>4

LEMMA MostApartIs ==
    ASSUME NEW y \in Nat, NEW T \in SUBSET (0 .. y), NEW n \in Nat
    PROVE  /\ MostApart(T, n) \in Nat
           /\ \E qs \in ApartIn(T, n) : Cardinality(qs) = MostApart(T, n)
           /\ \A qs \in ApartIn(T, n) : Cardinality(qs) <= MostApart(T, n)
  <1> DEFINE C == {Cardinality(ps) : ps \in ApartIn(T, n)}
  <1>1. C \in SUBSET (0 .. y + 1)
    BY SmallSets DEF ApartIn
  <1>2. C # {}
    <2>1. {} \in ApartIn(T, n)
      BY DEF ApartIn, Apart
    <2> QED BY <2>1
  <1>3. MostApart(T, n) = CHOOSE x \in C : \A z \in C : x >= z
    BY DEF MostApart, Max, ApartIn
  <1>4. \E x \in C : \A z \in C : x >= z
    <2> HIDE DEF C
    <2>1. y + 1 \in Nat
      OBVIOUS
    <2>2. PICK x \in C : \A z \in C : z <= x
      BY <1>1, <1>2, <2>1, GreatestOfSet
    <2> QED BY <2>2
  <1>5. MostApart(T, n) \in C /\ \A z \in C : MostApart(T, n) >= z
    <2> HIDE DEF C
    <2> QED BY <1>3, <1>4
  <1>6. MostApart(T, n) \in Nat
    <2> HIDE DEF C
    <2>1. \A c \in C : c \in 0 .. y + 1
      BY <1>1
    <2>2. \A c \in C : c \in Nat
      BY <2>1
    <2> QED BY <1>5, <2>2
  <1>7. \A qs \in ApartIn(T, n) : Cardinality(qs) \in C
    OBVIOUS
  <1>8. \E qs \in ApartIn(T, n) : Cardinality(qs) = MostApart(T, n)
    BY <1>5
  <1> HIDE DEF C
  <1> QED BY <1>5, <1>6, <1>7, <1>8

(* The first of the positions belongs to a largest choice: the rest is a    *)
(* largest choice of those that are n or more behind it.                    *)
LEMMA FirstIsChosen ==
    ASSUME NEW y \in Nat, NEW T \in SUBSET (0 .. y), NEW n \in Nat \ {0},
           NEW m \in T, \A k \in T : m <= k
    PROVE  MostApart(T, n) = 1 + MostApart({k \in T : m + n <= k}, n)
  <1> DEFINE R == {k \in T : m + n <= k}
             best == MostApart(T, n)
             rest == MostApart(R, n)
  <1>1. R \in SUBSET (0 .. y) /\ R \subseteq T /\ m \in Nat /\ m \notin R /\ \A k \in T : k \in Nat
    <2>1. \A k \in T : k \in 0 .. y
      OBVIOUS
    <2>2. \A k \in T : k \in Nat
      BY <2>1
    <2>3. m \in Nat /\ m \notin R
      BY <2>2
    <2>4. R \subseteq T
      OBVIOUS
    <2> QED BY <2>2, <2>3, <2>4
  <1>2. /\ rest \in Nat
        /\ \E qs \in ApartIn(R, n) : Cardinality(qs) = rest
        /\ \A qs \in ApartIn(R, n) : Cardinality(qs) <= rest
    <2> HIDE DEF R
    <2> QED BY <1>1, MostApartIs
  <1>3. /\ best \in Nat
        /\ \E qs \in ApartIn(T, n) : Cardinality(qs) = best
        /\ \A qs \in ApartIn(T, n) : Cardinality(qs) <= best
    BY MostApartIs
  <1>4. best >= rest + 1
    <2>1. PICK qs \in ApartIn(R, n) : Cardinality(qs) = rest
      BY <1>2
    <2>2. qs \subseteq R /\ Apart(qs, n) /\ m \notin qs
      BY <1>1 DEF ApartIn
    <2>3. IsFiniteSet(qs)
      BY <1>1, <2>2, SmallSets
    <2>4. Cardinality(qs \cup {m}) = rest + 1
      BY <2>1, <2>2, <2>3, FS_AddElement
    <2>5. qs \cup {m} \in ApartIn(T, n)
      <3>1. qs \cup {m} \subseteq T
        BY <1>1, <2>2
      <3>2. Apart(qs \cup {m}, n)
        <4> SUFFICES ASSUME NEW p \in qs \cup {m}, NEW q \in qs \cup {m}, p < q
                     PROVE  p + n <= q
          BY DEF Apart
        <4>1. p \in T /\ q \in T /\ m <= p /\ m <= q /\ p \in Nat /\ q \in Nat
          <5>1. p \in T /\ q \in T
            BY <3>1
          <5> QED BY <1>1, <5>1
        <4>2. q # m
          BY <1>1, <4>1
        <4>3. q \in qs
          BY <4>2
        <4>4. CASE p = m
          BY <2>2, <4>3, <4>4
        <4>5. CASE p # m
          BY <2>2, <4>3, <4>5 DEF Apart
        <4> QED BY <4>4, <4>5
      <3> QED BY <3>1, <3>2 DEF ApartIn
    <2> HIDE DEF best, rest
    <2> QED BY <1>3, <2>4, <2>5
  <1>5. best <= rest + 1
    <2>1. PICK qs \in ApartIn(T, n) : Cardinality(qs) = best
      BY <1>3
    <2>2. qs \subseteq T /\ Apart(qs, n) /\ qs \in SUBSET Nat
      BY DEF ApartIn
    <2>3. CASE qs = {}
      <3>1. Cardinality(qs) = 0
        BY <2>3, FS_EmptySet
      <3> QED BY <1>2, <2>1, <3>1
    <2>4. CASE qs # {}
      <3>1. PICK r \in qs : \A k \in qs : r <= k
        BY <2>2, <2>4, LeastOfSet
      <3>2. IsFiniteSet(qs)
        BY <2>2, SmallSets
      <3>3. IsFiniteSet(qs \ {r}) /\ Cardinality(qs \ {r}) = best - 1
        BY <2>1, <3>2, FS_RemoveElement
      <3>4. qs \ {r} \in ApartIn(R, n)
        <4>1. ASSUME NEW k \in qs \ {r} PROVE k \in R
          <5>1. k \in T /\ r \in T /\ k \in Nat /\ r \in Nat /\ r < k /\ m <= r
            BY <2>2, <3>1
          <5>2. r + n <= k
            BY <2>2, <5>1 DEF Apart
          <5> QED BY <1>1, <5>1, <5>2
        <4>2. Apart(qs \ {r}, n)
          BY <2>2 DEF Apart
        <4> HIDE DEF R
        <4> QED BY <4>1, <4>2 DEF ApartIn
      <3> HIDE DEF best, rest
      <3> QED BY <1>2, <1>3, <3>3, <3>4
    <2> QED BY <2>3, <2>4
  <1> HIDE DEF best, rest
  <1>6. best = 1 + rest
    BY <1>2, <1>3, <1>4, <1>5
  <1> QED BY <1>6 DEF best, rest

LEMMA NoneApart ==
    ASSUME NEW n \in Nat
    PROVE  MostApart({}, n) = 0
  <1>1. {} \in SUBSET (0 .. 0) /\ 0 \in Nat
    OBVIOUS
  <1>2. PICK qs \in ApartIn({}, n) : Cardinality(qs) = MostApart({}, n)
    BY <1>1, MostApartIs
  <1>3. qs = {}
    BY DEF ApartIn
  <1> QED BY <1>2, <1>3, FS_EmptySet


-----------------------------------------------------------------------------
(* Count: what it finds in the rest of the text *)

LEMMA OccurrencesInRest ==
    ASSUME NEW s, NEW sub, NEW y, NEW p, Bounded(s, sub, p, y), p <= y, NEW k \in Nat
    PROVE  k \in Occurrences(Window(s, p, y - p), sub, 0, y - p) <=>
           p + k \in Occurrences(s, sub, p, y)
  <1> DEFINE n == Len(sub)
             m == y - p
             w == Window(s, p, m)
             l == p + k
  <1>1. /\ s \in Seq(Nat) /\ sub \in Seq(Nat) /\ sub # <<>>
        /\ n \in Nat /\ n >= 1 /\ p \in Nat /\ y \in Nat /\ y <= Len(s) /\ m \in Nat
        /\ l \in Nat /\ p + m <= Len(s) /\ y = p + m /\ l = p + k
    BY DEF Bounded
  <1>2. l - p = k
    BY <1>1
  <1> HIDE DEF n, m, w, l
  <1>3. Window(s, p, m) \in Seq(Nat) /\ Len(Window(s, p, m)) = m
        /\ \A i \in 1 .. m : Window(s, p, m)[i] = s[p + i]
    BY ONLY <1>1, WindowIs
  <1>4. w \in Seq(Nat) /\ Len(w) = m /\ \A i \in 1 .. m : w[i] = s[p + i]
    BY <1>3 DEF w
  <1>5. k \in 0 .. m - n <=> l \in p .. y - n
    BY <1>1, <1>2
  <1>6. ASSUME k \in 0 .. m - n PROVE Occurs(w, sub, k) <=> Occurs(s, sub, l)
    <2>1. k + n <= m /\ l + n <= Len(s)
      BY <1>1, <1>6
    <2>2. Occurs(w, sub, k) <=> \A i \in 1 .. n : w[k + i] = sub[i]
      <3>1. w \in Seq(Nat) /\ sub \in Seq(Nat) /\ k \in Nat /\ k + Len(sub) <= Len(w)
        BY <1>1, <1>4, <2>1 DEF n
      <3>2. Occurs(w, sub, k) <=> Matches(w, sub, k)
        BY ONLY <3>1, OccursIs
      <3> QED BY <3>2 DEF Matches, n
    <2>3. Occurs(s, sub, l) <=> \A i \in 1 .. n : s[l + i] = sub[i]
      <3>1. s \in Seq(Nat) /\ sub \in Seq(Nat) /\ l \in Nat /\ l + Len(sub) <= Len(s)
        BY <1>1, <2>1 DEF n
      <3>2. Occurs(s, sub, l) <=> Matches(s, sub, l)
        BY ONLY <3>1, OccursIs
      <3> QED BY <3>2 DEF Matches, n
    <2>4. \A i \in 1 .. n : w[k + i] = s[l + i]
      <3> SUFFICES ASSUME NEW i \in 1 .. n PROVE w[k + i] = s[l + i]
        OBVIOUS
      <3>1. k + i \in 1 .. m /\ p + (k + i) = l + i
        BY <1>1, <2>1
      <3> QED BY <1>4, <3>1
    <2> QED BY <2>2, <2>3, <2>4
  <1>7. k \in Occurrences(w, sub, 0, m) <=> k \in 0 .. m - n /\ Occurs(w, sub, k)
    BY ONLY <1>1 DEF Occurrences, n
  <1>8. l \in Occurrences(s, sub, p, y) <=> l \in p .. y - n /\ Occurs(s, sub, l)
    BY ONLY <1>1 DEF Occurrences, n
  <1>9. k \in Occurrences(w, sub, 0, m) <=> l \in Occurrences(s, sub, p, y)
    BY <1>5, <1>6, <1>7, <1>8
  <1> QED BY <1>9 DEF w, m, l

LEMMA FindInRest ==
    ASSUME NEW s, NEW sub, NEW y, NEW p, Bounded(s, sub, p, y), p <= y
    PROVE  Find(Window(s, p, y - p), sub, 0, y - p) =
             IF Occurrences(s, sub, p, y) = {} THEN -1 ELSE FirstFrom(s, sub, y, p) - p
  <1> DEFINE m == y - p
             w == Window(s, p, m)
             O == Occurrences(s, sub, p, y)
             R == Occurrences(w, sub, 0, m)
             loc == Find(w, sub, 0, m)
  <1>1. /\ s \in Seq(Nat) /\ sub \in Seq(Nat) /\ sub # <<>> /\ p \in Nat /\ y \in Nat
        /\ y <= Len(s) /\ m \in Nat /\ p + m <= Len(s)
    BY DEF Bounded
  <1>2. w \in Seq(Nat) /\ Len(w) = m
    <2> HIDE DEF m
    <2>1. Window(s, p, m) \in Seq(Nat) /\ Len(Window(s, p, m)) = m
      BY ONLY <1>1, WindowIs
    <2> QED BY <2>1
  <1>3. \A k \in Nat : k \in R <=> p + k \in O
    BY OccurrencesInRest
  <1>4. \A l \in O : l \in Nat /\ l >= p /\ l - p \in Nat /\ p + (l - p) = l
    <2> SUFFICES ASSUME NEW l \in O PROVE l \in Nat /\ l >= p /\ l - p \in Nat /\ p + (l - p) = l
      OBVIOUS
    <2>1. l \in Nat /\ l >= p
      BY BeginsWithFirst
    <2> QED BY <1>1, <2>1
  <1>5. R \in SUBSET Nat
    <2>1. Bounded(w, sub, 0, m)
      BY <1>1, <1>2 DEF Bounded
    <2> HIDE DEF w, m
    <2> QED BY <2>1, BeginsWithFirst
  <1>6. loc = FirstOf(R)
    <2>1. Bound(0, m) = 0 /\ EndBound(m, m) = m
      BY <1>1 DEF Bound, EndBound
    <2> HIDE DEF w, m
    <2>2. Bound(0, Len(w)) = 0 /\ EndBound(m, Len(w)) = m /\ 0 \in Nat /\ m \in 0 .. Len(w)
      BY <1>1, <1>2, <2>1
    <2>3. loc = FirstOf(Occurrences(w, sub, Bound(0, Len(w)), EndBound(m, Len(w))))
      <3>1. w \in Seq(Nat) /\ sub \in Seq(Nat)
            /\ Bound(0, Len(w)) \in Nat /\ EndBound(m, Len(w)) \in 0 .. Len(w)
        BY <1>1, <1>2, <2>2
      <3> QED BY ONLY <3>1, FindIs
    <2> QED BY <2>2, <2>3
  <1>7. loc = IF O = {} THEN -1 ELSE FirstOf(O) - p
    <2> HIDE DEF O, R, w, m
    <2>1. CASE O = {}
      <3>1. R = {}
        BY <1>3, <1>5, <2>1
      <3> QED BY <1>5, <1>6, <2>1, <3>1, FirstOfIs
    <2>2. CASE O # {}
      <3> DEFINE f == FirstOf(O)
      <3>1. O \in SUBSET Nat
        BY <1>4
      <3>2. f \in O /\ \A l \in O : f <= l
        BY <2>2, <3>1, FirstOfIs
      <3> HIDE DEF f
      <3>3. f - p \in Nat /\ f \in Nat /\ p + (f - p) = f
        BY <1>4, <3>2
      <3>4. f - p \in R
        BY <1>3, <3>2, <3>3
      <3>5. ASSUME NEW k \in R PROVE f - p <= k
        <4>1. k \in Nat
          BY <1>5
        <4>2. f <= p + k
          BY <1>3, <3>2, <4>1
        <4> QED BY <1>1, <3>3, <4>1, <4>2
      <3>6. FirstOf(R) = f - p
        BY <1>5, <3>4, <3>5, FirstOfIs
      <3> QED BY <1>6, <2>2, <3>6 DEF f
    <2> QED BY <2>1, <2>2
  <1> QED BY <1>7 DEF FirstFrom


-----------------------------------------------------------------------------
(* Count *)

CountStep(s, sub, y, f, p) ==
    LET loc == Find(Window(s, p, y - p), sub, 0, y - p)
    IN  IF loc < 0 THEN 0
        ELSE IF p + loc < y - Len(sub) THEN 1 + f[p + loc + Len(sub)]
        ELSE 1

CountSolves(s, sub, x, y, f) == f = [p \in x .. y |-> CountStep(s, sub, y, f, p)]

CountScan(s, sub, x, y) == CHOOSE f : CountSolves(s, sub, x, y, f)

LEMMA CountUnfolds ==
    ASSUME NEW s, NEW sub, NEW start, NEW end
    PROVE  Count(s, sub, start, end) =
              IF sub = <<>> \/ s = <<>> \/ Bound(start, Len(s)) >= EndBound(end, Len(s))
              THEN 0
              ELSE CountScan(s, sub, Bound(start, Len(s)), EndBound(end, Len(s)))
                        [Bound(start, Len(s))]
  BY DEF Count, CountScan, CountSolves, CountStep

(* How many it has still to find from where it is.                          *)
MostFrom(s, sub, y, p) == MostApart(Occurrences(s, sub, p, y), Len(sub))

(* Whether one is found, where the next search begins, and what is counted. *)
FindsMore(s, sub, y, p) == Occurrences(s, sub, p, y) # {}
GoesOnAt(s, sub, y, p) == FirstFrom(s, sub, y, p) + Len(sub)

LEMMA MostFromStep ==
    ASSUME NEW s, NEW sub, NEW x, NEW y, Bounded(s, sub, x, y), NEW p \in x .. y
    PROVE  /\ FindsMore(s, sub, y, p) => GoesOnAt(s, sub, y, p) \in p + 1 .. y
           /\ MostFrom(s, sub, y, p) =
                IF FindsMore(s, sub, y, p) THEN 1 + MostFrom(s, sub, y, GoesOnAt(s, sub, y, p)) ELSE 0
  <1> DEFINE n == Len(sub)
             O == Occurrences(s, sub, p, y)
             m == FirstFrom(s, sub, y, p)
             N == Occurrences(s, sub, m + n, y)
  <1>1. n \in Nat \ {0} /\ x \in Nat /\ y \in Nat /\ p \in Nat /\ p <= y /\ Bounded(s, sub, p, y) /\ sub # <<>>
    BY DEF Bounded
  <1>2. \A k \in O : k \in Nat /\ k >= p /\ k + n <= y
    BY <1>1, BeginsWithFirst
  <1> HIDE DEF n
  <1>3. O \in SUBSET (0 .. y) /\ O \in SUBSET Nat
    BY <1>1, <1>2
  <1>4. CASE O = {}
    <2>1. MostApart(O, n) = 0
      BY <1>1, <1>4, NoneApart
    <2> QED BY <1>4, <2>1 DEF FindsMore, MostFrom, n
  <1>5. CASE O # {}
    <2>1. m \in O /\ \A k \in O : m <= k
      <3> HIDE DEF O
      <3> QED BY <1>3, <1>5, FirstOfIs DEF FirstFrom, O
    <2>2. m \in Nat /\ m >= p /\ m + n <= y /\ m + n \in p + 1 .. y /\ m + n \in Nat
      <3> HIDE DEF m, O
      <3> QED BY <1>1, <1>2, <2>1
    <2>3. N = {k \in O : m + n <= k}
      <3>1. Bounded(s, sub, m + n, y)
        BY <1>1, <2>2 DEF Bounded
      <3> HIDE DEF m
      <3>2. \A k \in N : k \in Nat /\ k >= m + n /\ k + n <= y
        BY <3>1, BeginsWithFirst DEF n
      <3>3. \A k \in N : k \in O
        <4> SUFFICES ASSUME NEW k \in N PROVE k \in O
          OBVIOUS
        <4>1. k \in p .. y - n
          BY <1>1, <2>2, <3>2
        <4> QED BY ONLY <1>1, <4>1, k \in N DEF Occurrences, n
      <3>4. \A k \in O : m + n <= k => k \in N
        <4> SUFFICES ASSUME NEW k \in O, m + n <= k PROVE k \in N
          OBVIOUS
        <4>1. k \in m + n .. y - n
          BY <1>1, <1>2, <2>2
        <4> QED BY ONLY <1>1, <4>1, k \in O DEF Occurrences, n
      <3> HIDE DEF N, O
      <3> QED BY <3>2, <3>3, <3>4
    <2>4. MostApart(O, n) = 1 + MostApart({k \in O : m + n <= k}, n)
      <3> HIDE DEF O, m
      <3> QED BY <1>1, <1>3, <2>1, FirstIsChosen
    <2>5. MostApart(O, n) = 1 + MostApart(N, n)
      <3> HIDE DEF O, N
      <3> QED BY <2>3, <2>4
    <2> QED BY <1>5, <2>2, <2>5 DEF FindsMore, GoesOnAt, MostFrom, n
  <1> QED BY <1>4, <1>5

(* A step of the tally, in the same words.                                  *)
LEMMA CountStepIs ==
    ASSUME NEW s, NEW sub, NEW x, NEW y, Bounded(s, sub, x, y), NEW p \in x .. y, NEW f
    PROVE  CountStep(s, sub, y, f, p) =
             IF ~ FindsMore(s, sub, y, p) THEN 0
             ELSE IF GoesOnAt(s, sub, y, p) < y THEN 1 + f[GoesOnAt(s, sub, y, p)] ELSE 1
  <1> DEFINE n   == Len(sub)
             loc == Find(Window(s, p, y - p), sub, 0, y - p)
             m   == FirstFrom(s, sub, y, p)
  <1>1. n \in Nat /\ p \in Nat /\ y \in Nat /\ p <= y /\ Bounded(s, sub, p, y)
    BY DEF Bounded
  <1>2. loc = IF FindsMore(s, sub, y, p) THEN m - p ELSE -1
    BY <1>1, FindInRest DEF FindsMore
  <1>3. ASSUME FindsMore(s, sub, y, p) PROVE m \in Nat /\ m >= p
    <2>1. Occurrences(s, sub, p, y) \in SUBSET Nat
          /\ \A k \in Occurrences(s, sub, p, y) : k \in Nat /\ k >= p
      BY <1>1, BeginsWithFirst
    <2>2. m \in Occurrences(s, sub, p, y)
      BY <1>3, <2>1, FirstOfIs DEF FindsMore, FirstFrom
    <2> HIDE DEF m
    <2> QED BY <2>1, <2>2
  <1>4. CountStep(s, sub, y, f, p) =
          IF loc < 0 THEN 0 ELSE IF p + loc < y - n THEN 1 + f[p + loc + n] ELSE 1
    BY DEF CountStep
  <1> HIDE DEF n, loc, m
  <1>5. CASE ~ FindsMore(s, sub, y, p)
    BY <1>2, <1>4, <1>5
  <1>6. CASE FindsMore(s, sub, y, p)
    <2>1. loc = m - p /\ m \in Nat /\ m >= p
      BY <1>2, <1>3, <1>6
    <2>2. ~ (loc < 0) /\ p + loc + n = m + n /\ (p + loc < y - n <=> m + n < y)
      BY <1>1, <2>1
    <2>3. GoesOnAt(s, sub, y, p) = m + n
      BY DEF GoesOnAt, m, n
    <2> QED BY <1>4, <1>6, <2>2, <2>3
  <1> QED BY <1>5, <1>6

LEMMA MostAtEnd ==
    ASSUME NEW s, NEW sub, NEW x, NEW y, Bounded(s, sub, x, y)
    PROVE  MostFrom(s, sub, y, y) = 0
  <1>1. Bounded(s, sub, y, y) /\ Len(sub) \in Nat /\ y \in Nat
    BY DEF Bounded
  <1>2. Occurrences(s, sub, y, y) = {}
    BY <1>1, BeginsWithFirst
  <1> QED BY <1>1, <1>2, NoneApart DEF MostFrom

LEMMA CountScanIs ==
    ASSUME NEW s, NEW sub, NEW x, NEW y, Bounded(s, sub, x, y), x <= y
    PROVE  CountScan(s, sub, x, y)[x] = MostFrom(s, sub, y, x)
  <1> DEFINE F(p) == MostFrom(s, sub, y, p)
             q(p) == GoesOnAt(s, sub, y, p)
             found(p) == FindsMore(s, sub, y, p)
             h    == CountScan(s, sub, x, y)
  <1>1. x \in Nat /\ y \in Nat
    BY DEF Bounded
  <1>2. \A p \in x .. y : found(p) => q(p) \in p + 1 .. y /\ q(p) \in x .. y /\ q(p) \in Nat
    <2> SUFFICES ASSUME NEW p \in x .. y, found(p) PROVE q(p) \in p + 1 .. y /\ q(p) \in x .. y /\ q(p) \in Nat
      OBVIOUS
    <2>1. q(p) \in p + 1 .. y
      BY MostFromStep
    <2> HIDE DEF q
    <2> QED BY <1>1, <2>1
  <1>3. \A p \in x .. y : F(p) = IF ~ found(p) THEN 0
                                 ELSE IF q(p) < y THEN 1 + F(q(p)) ELSE 1
    <2> SUFFICES ASSUME NEW p \in x .. y
                 PROVE  F(p) = IF ~ found(p) THEN 0 ELSE IF q(p) < y THEN 1 + F(q(p)) ELSE 1
      OBVIOUS
    <2>1. F(p) = IF found(p) THEN 1 + F(q(p)) ELSE 0
      BY MostFromStep
    <2>2. F(y) = 0
      BY MostAtEnd
    <2> HIDE DEF F, q, found
    <2>3. found(p) /\ ~ (q(p) < y) => q(p) = y
      BY <1>1, <1>2
    <2> QED BY <2>1, <2>2, <2>3
  <1>4. \A f : \A p \in x .. y :
            CountStep(s, sub, y, f, p) = IF ~ found(p) THEN 0
                                         ELSE IF q(p) < y THEN 1 + f[q(p)] ELSE 1
    BY CountStepIs
  <1>5. \E f : CountSolves(s, sub, x, y, f)
    <2> DEFINE f == [p \in x .. y |-> F(p)]
    <2>1. ASSUME NEW p \in x .. y PROVE f[p] = CountStep(s, sub, y, f, p)
      <3>1. found(p) => f[q(p)] = F(q(p))
        <4> HIDE DEF F, q, found
        <4> QED BY <1>2
      <3>2. f[p] = F(p)
        OBVIOUS
      <3> HIDE DEF f, F, found, q
      <3> QED BY <1>3, <1>4, <3>1, <3>2
    <2>2. CountSolves(s, sub, x, y, f)
      BY <2>1 DEF CountSolves
    <2> QED BY <2>2
  <1>6. CountSolves(s, sub, x, y, h)
    BY <1>5 DEF CountScan
  <1>7. \A p \in x .. y : h[p] = IF ~ found(p) THEN 0
                                 ELSE IF q(p) < y THEN 1 + h[q(p)] ELSE 1
    <2> HIDE DEF h, found, q
    <2>1. \A p \in x .. y : h[p] = CountStep(s, sub, y, h, p)
      BY <1>6 DEF CountSolves
    <2> QED BY <1>4, <2>1
  <1> HIDE DEF h, F, found, q
  <1> DEFINE n == y - x + 1
             A == {i \in 1 .. n : \A p \in x .. y : y - p < i => h[p] = F(p)}
  <1>8. n \in Nat /\ n \in 1 .. n /\ 1 \in 1 .. n
    BY <1>1
  <1>9. 1 \in A
    <2> SUFFICES ASSUME NEW p \in x .. y, y - p < 1 PROVE h[p] = F(p)
      BY <1>8
    <2>1. ~ (found(p) /\ q(p) < y)
      BY <1>1, <1>2
    <2> QED BY <1>3, <1>7, <2>1
  <1>10. ASSUME NEW i \in 1 .. n - 1, i \in A PROVE i + 1 \in A
    <2> SUFFICES ASSUME NEW p \in x .. y, y - p < i + 1 PROVE h[p] = F(p)
      BY <1>8
    <2>1. found(p) => h[q(p)] = F(q(p))
      <3> SUFFICES ASSUME found(p) PROVE h[q(p)] = F(q(p))
        OBVIOUS
      <3>1. q(p) \in x .. y /\ y - q(p) < i
        <4>1. q(p) \in p + 1 .. y /\ q(p) \in x .. y
          BY <1>2
        <4> QED BY <1>1, <4>1
      <3> QED BY <1>10, <3>1
    <2> QED BY <1>3, <1>7, <2>1
  <1>11. 1 .. n \subseteq A
    <2> HIDE DEF n, A
    <2> QED BY <1>8, <1>9, <1>10, IntervalInduction
  <1>12. x \in x .. y /\ y - x < n
    BY <1>1
  <1> HIDE DEF n
  <1> QED BY <1>8, <1>11, <1>12 DEF h, F

(* String_count: the occurrences taken from the left are as many as any     *)
(* choice of occurrences between the bounds that do not overlap.            *)
THEOREM CountIs ==
    ASSUME NEW s \in Seq(Nat), NEW sub \in Seq(Nat), NEW start, NEW end,
           Bound(start, Len(s)) \in Nat, EndBound(end, Len(s)) \in 0 .. Len(s)
    PROVE  Count(s, sub, start, end) =
             MostApart(Occurrences(s, sub, Bound(start, Len(s)), EndBound(end, Len(s))), Len(sub))
  <1> DEFINE x == Bound(start, Len(s))
             y == EndBound(end, Len(s))
  <1> HIDE DEF x, y
  <1>1. x \in Nat /\ y \in 0 .. Len(s) /\ y \in Nat /\ Len(sub) \in Nat
    BY DEF x, y
  <1>2. Count(s, sub, start, end) =
          IF sub = <<>> \/ s = <<>> \/ x >= y THEN 0 ELSE CountScan(s, sub, x, y)[x]
    BY CountUnfolds DEF x, y
  <1>3. CASE sub = <<>> \/ s = <<>> \/ x >= y
    <2>1. Occurrences(s, sub, x, y) = {}
      <3>1. CASE sub = <<>>
        BY <3>1 DEF Occurrences
      <3>2. CASE sub # <<>>
        <4>1. Bounded(s, sub, x, y)
          BY <1>1, <3>2 DEF Bounded
        <4> SUFFICES ASSUME NEW p \in Occurrences(s, sub, x, y) PROVE FALSE
          OBVIOUS
        <4>2. p \in Nat /\ p >= x /\ p < y
          BY <4>1, BeginsWithFirst
        <4>3. s = <<>> => y = 0
          BY <1>1
        <4> QED BY <1>1, <1>3, <3>2, <4>2, <4>3
      <3> QED BY <3>1, <3>2
    <2>2. MostApart(Occurrences(s, sub, x, y), Len(sub)) = 0
      BY <1>1, <2>1, NoneApart
    <2> QED BY <1>2, <1>3, <2>2 DEF x, y
  <1>4. CASE ~ (sub = <<>> \/ s = <<>> \/ x >= y)
    <2>1. Bounded(s, sub, x, y) /\ x <= y
      BY <1>1, <1>4 DEF Bounded
    <2>2. CountScan(s, sub, x, y)[x] = MostFrom(s, sub, y, x)
      BY <2>1, CountScanIs
    <2> QED BY <1>2, <1>4, <2>2 DEF MostFrom, x, y
  <1> QED BY <1>3, <1>4


-----------------------------------------------------------------------------
(* Slice: its arithmetic.  The slice goes from first towards last, in steps *)
(* of t, and d characters are in between.                                   *)

LEMMA Truncated ==
    ASSUME NEW n \in Nat \ {0}, NEW x \in Int, x <= 0
    PROVE  Rem(x, n) \in 1 - n .. 0
  <1> DEFINE y == - x
             q == y \div n
  <1>1. y \in Nat /\ x = - y
    OBVIOUS
  <1>2. y = n * q + (y % n) /\ y % n \in 0 .. n - 1 /\ q \in Int
    BY <1>1
  <1>3. Quot(x, n) = - q
    <2>1. CASE x = 0
      <3>1. 0 \div n = 0 /\ n \in Int /\ ~ (n < 0)
        OBVIOUS
      <3>2. y = 0
        <4> HIDE DEF y, q
        <4> QED BY <1>1, <2>1
      <3>3. q = 0
        BY <3>1, <3>2
      <3>4. Quot(0, n) = - (0 \div n)
        BY <3>1 DEF Quot, Abs
      <3> QED BY <2>1, <3>1, <3>3, <3>4
    <2>2. CASE x # 0
      BY <2>2 DEF Quot, Abs
    <2> QED BY <2>1, <2>2
  <1> HIDE DEF q
  <1>4. n * (- q) = - (n * q) /\ n * q \in Int
    BY <1>2
  <1>5. Rem(x, n) = x - n * (- q)
    BY <1>3 DEF Rem
  <1>6. Rem(x, n) = - (y % n)
    BY <1>1, <1>2, <1>4, <1>5
  <1> QED BY <1>2, <1>6

(* The first place is one of the text, and so is the one before last.       *)
LEMMA SliceInside ==
    ASSUME NEW n \in Nat \ {0}, NEW start \in Int, start < n, NEW end \in Int, end <= n,
           NEW step \in Int
    PROVE  /\ SliceStart(start, n) \in 0 .. n - 1
           /\ SliceEnd(end, step, n) \in -1 .. n
  <1>1. SliceStart(start, n) \in 0 .. n - 1
    <2>1. CASE start < 0
      <3>1. Rem(start + 1, n) \in 1 - n .. 0
        BY <2>1, Truncated
      <3> QED BY <2>1, <3>1 DEF SliceStart, Position
    <2>2. CASE start >= 0
      BY <2>2 DEF SliceStart, Position
    <2> QED BY <2>1, <2>2
  <1>2. SliceEnd(end, step, n) \in -1 .. n
    <2>1. CASE end < 0
      <3>1. Rem(end + 1, n) \in 1 - n .. 0
        BY <2>1, Truncated
      <3>2. n + Rem(end + 1, n) \in 1 .. n
        BY <3>1
      <3> QED BY <2>1, <3>2 DEF SliceEnd, Dir
    <2>2. CASE end >= 0
      BY <2>2 DEF SliceEnd, Dir
    <2> QED BY <2>1, <2>2
  <1> QED BY <1>1, <1>2

(* Wherever the bounds are, the slice goes from a number to a number.       *)
LEMMA BoundsAre ==
    ASSUME NEW n \in Nat \ {0}, NEW start \in Int, NEW end \in Int, NEW step \in Int
    PROVE  SliceStart(start, n) \in Int /\ SliceEnd(end, step, n) \in Int
  <1>1. SliceStart(start, n) \in Int
    <2>1. CASE start < 0
      <3>1. Rem(start + 1, n) \in 1 - n .. 0
        BY <2>1, Truncated
      <3> QED BY <2>1, <3>1 DEF SliceStart, Position
    <2>2. CASE start >= 0
      BY <2>2 DEF SliceStart, Position
    <2> QED BY <2>1, <2>2
  <1>2. SliceEnd(end, step, n) \in Int
    <2>1. CASE end < 0
      <3>1. Rem(end + 1, n) \in 1 - n .. 0
        BY <2>1, Truncated
      <3> QED BY <2>1, <3>1 DEF SliceEnd, Dir
    <2>2. CASE end >= 0
      BY <2>2 DEF SliceEnd, Dir
    <2> QED BY <2>1, <2>2
  <1> QED BY <1>1, <1>2

(* How many steps of t stay below d.                                        *)
LEMMA StepsBelow ==
    ASSUME NEW d \in Nat \ {0}, NEW t \in Nat \ {0}
    PROVE  /\ (d - 1) \div t + 1 \in 1 .. d
           /\ \A k \in Nat : d - k * t > 0 <=> k < (d - 1) \div t + 1
  <1> DEFINE e == d - 1
             q == e \div t
             r == e % t
  <1>1. e \in Nat /\ q \in Int /\ r \in 0 .. t - 1 /\ e = t * q + r
    OBVIOUS
  <1>2. q \in Nat
    OBVIOUS
  <1> HIDE DEF q, r
  <1>3. \A k \in Int : k >= 0 => t * k >= k
    <2> SUFFICES ASSUME NEW k \in Int, k >= 0 PROVE t * k >= k
      OBVIOUS
    <2>1. (t - 1) * k >= 0 /\ t * k = (t - 1) * k + k
      OBVIOUS
    <2> QED BY <2>1
  <1>4. q + 1 \in 1 .. d
    <2>1. t * q >= q /\ t * q \in Int
      BY <1>2, <1>3
    <2> QED BY <1>1, <1>2, <2>1
  <1>5. ASSUME NEW k \in Nat PROVE d - k * t > 0 <=> k < q + 1
    <2>1. k * t = t * k /\ t * k \in Int /\ t * q \in Int
      BY <1>2
    <2>2. CASE k <= q
      <3>1. t * (q - k) >= 0 /\ t * q = t * k + t * (q - k) /\ t * (q - k) \in Int
        BY <1>2, <2>2
      <3>2. d - k * t > 0
        BY <1>1, <2>1, <3>1
      <3> QED BY <1>2, <2>2, <3>2
    <2>3. CASE k > q
      <3>1. t * (k - q - 1) >= 0 /\ t * k = t * q + t + t * (k - q - 1) /\ t * (k - q - 1) \in Int
        BY <1>2, <2>3
      <3>2. ~ (d - k * t > 0)
        BY <1>1, <2>1, <3>1
      <3> QED BY <1>2, <2>3, <3>2
    <2> QED BY <1>2, <2>2, <2>3
  <1> QED BY <1>4, <1>5 DEF q

(* The size asked for, in these terms; and when a step is still inside.     *)
Gap(s, start, end, step) ==
    (SliceEnd(end, step, Len(s)) - SliceStart(start, Len(s))) * Dir(step)

LEMMA StepsAre ==
    ASSUME NEW S, NEW s \in Seq(S), s # <<>>, NEW start \in Int, NEW end \in Int,
           NEW step \in Int, ~ SliceIsError(s, start, end, step)
    PROVE  /\ SliceSize(s, start, end, step) \in Nat \ {0}
           /\ \A k \in Nat :
                (SliceEnd(end, step, Len(s)) - (SliceStart(start, Len(s)) + k * SliceStep(step)))
                     * Dir(step) > 0
                <=> k < SliceSize(s, start, end, step)
  <1> DEFINE n     == Len(s)
             first == SliceStart(start, n)
             last  == SliceEnd(end, step, n)
             st    == SliceStep(step)
             dir   == Dir(step)
             d     == (last - first) * dir
             t     == st * dir
             c     == SliceSize(s, start, end, step)
  <1>1. n \in Nat \ {0} /\ first \in Int /\ last \in Int
    <2>1. n \in Nat \ {0}
      OBVIOUS
    <2> QED BY <2>1, BoundsAre
  <1>2. \/ dir = 1 /\ st \in Nat \ {0} /\ st = t
        \/ dir = -1 /\ - st \in Nat \ {0} /\ - st = t /\ st \in Int
    BY DEF Dir, SliceStep
  <1>3. d > 0
    BY <1>1, <1>2 DEF SliceIsError
  <1>4. c = Quot(last - first - dir, st) + 1
    BY DEF SliceSize
  <1> HIDE DEF first, last, st, dir, c
  <1>5. d \in Nat \ {0} /\ t \in Nat \ {0}
    BY <1>1, <1>2, <1>3, SMTT(20)
  <1>6. Quot(last - first - dir, st) = (d - 1) \div t
    <2>1. CASE dir = 1
      <3>1. last - first - dir = d - 1 /\ d - 1 \in Nat /\ st = t
        BY <1>1, <1>2, <1>5, <2>1
      <3> HIDE DEF d, t
      <3> QED BY <1>5, <3>1 DEF Quot, Abs
    <2>2. CASE dir = -1
      <3>1. last - first - dir = - (d - 1) /\ d - 1 \in Nat /\ st = - t
        BY <1>1, <1>2, <1>5, <2>2
      <3> HIDE DEF d, t
      <3>2. CASE d = 1
        <4>1. last - first - dir = 0 /\ (d - 1) \div t = 0 /\ 0 \div t = 0
          BY <1>5, <3>1, <3>2
        <4> QED BY <1>5, <3>1, <3>2, <4>1 DEF Quot, Abs
      <3>3. CASE d # 1
        BY <1>5, <3>1, <3>3 DEF Quot, Abs
      <3> QED BY <3>2, <3>3
    <2> QED BY <1>2, <2>1, <2>2
  <1>7. c = (d - 1) \div t + 1
    BY <1>4, <1>6
  <1> HIDE DEF d, t
  <1>8. c \in 1 .. d /\ \A k \in Nat : d - k * t > 0 <=> k < c
    BY <1>5, <1>7, StepsBelow
  <1>9. ASSUME NEW k \in Nat PROVE (last - (first + k * st)) * dir = d - k * t
    <2>1. k * st \in Int /\ k * (- st) = - (k * st)
      BY <1>2
    <2>2. CASE dir = 1
      BY <1>1, <1>2, <2>1, <2>2, SMTT(20) DEF d
    <2>3. CASE dir = -1
      <3>1. k * t = - (k * st)
        BY <1>2, <2>1, <2>3
      <3> QED BY <1>1, <2>1, <2>3, <3>1 DEF d
    <2> QED BY <1>2, <2>2, <2>3
  <1>10. \A k \in Nat : (last - (first + k * st)) * dir > 0 <=> k < c
    BY <1>8, <1>9
  <1>11. c \in Nat \ {0}
    BY <1>5, <1>8
  <1> QED BY <1>10, <1>11 DEF first, last, st, dir, c

(* So the room asked for is at most the text, if that is all that is read.  *)
LEMMA SizeIsSteps ==
    ASSUME NEW S, NEW s \in Seq(S), NEW start \in Int, NEW end \in Int, NEW step \in Int,
           ~ SliceIsError(s, start, end, step), SliceReadsText(s, start, end, step)
    PROVE  /\ SliceSize(s, start, end, step) \in 1 .. Len(s)
           /\ \A k \in Nat :
                (SliceEnd(end, step, Len(s)) - (SliceStart(start, Len(s)) + k * SliceStep(step)))
                     * Dir(step) > 0
                <=> k < SliceSize(s, start, end, step)
  <1> DEFINE n     == Len(s)
             first == SliceStart(start, n)
             st    == SliceStep(step)
             c     == SliceSize(s, start, end, step)
             j     == c - 1
             m     == j * st
  <1>1. s # <<>> /\ n \in Nat
    BY DEF SliceReadsText
  <1>2. /\ c \in Nat \ {0}
        /\ \A k \in Nat :
                (SliceEnd(end, step, n) - (first + k * st)) * Dir(step) > 0 <=> k < c
    BY <1>1, StepsAre
  <1>3. first + 0 * st \in 0 .. n - 1 /\ first + m \in 0 .. n - 1
    <2>1. 0 \in 0 .. c - 1 /\ j \in 0 .. c - 1
      BY <1>2
    <2> HIDE DEF j, c, first, st, n
    <2> QED BY <2>1 DEF SliceReadsText, c, first, st, n
  <1>4. first \in Int
    BY <1>1, BoundsAre
  <1>5. st \in Int /\ (st >= 1 \/ st <= -1)
    BY DEF SliceStep
  <1>6. first \in 0 .. n - 1
    <2> HIDE DEF first, st, n, m
    <2> QED BY <1>3, <1>4, <1>5
  <1>7. m \in Int /\ (m >= j \/ - m >= j) /\ j \in Nat /\ c = j + 1
    <2>1. j \in Nat /\ c = j + 1
      BY <1>2
    <2> HIDE DEF j, st
    <2>2. CASE st >= 1
      <3>1. j * (st - 1) >= 0 /\ j * st = j * (st - 1) + j
        BY <1>5, <2>1, <2>2
      <3> QED BY <1>5, <2>1, <3>1
    <2>3. CASE st <= -1
      <3>1. j * (- st - 1) >= 0 /\ - (j * st) = j * (- st - 1) + j
        BY <1>5, <2>1, <2>3
      <3> QED BY <1>5, <2>1, <3>1
    <2> QED BY <1>5, <2>2, <2>3
  <1>8. c \in 1 .. n
    <2> HIDE DEF first, m, n, j, c
    <2> QED BY <1>1, <1>3, <1>6, <1>7
  <1> QED BY <1>2, <1>8


-----------------------------------------------------------------------------
(* Slice: its loop *)

SliceFrom(s, start, end, step, f, k) ==
    LET p == SliceStart(start, Len(s)) + k * SliceStep(step)
    IN  IF (SliceEnd(end, step, Len(s)) - p) * Dir(step) <= 0 \/ k = Len(s) + 1 THEN <<>>
        ELSE << s[p + 1] >> \o f[k + 1]

SliceSolves(s, start, end, step, f) ==
    f = [k \in 0 .. Len(s) + 1 |-> SliceFrom(s, start, end, step, f, k)]

SliceLoop(s, start, end, step) == CHOOSE f : SliceSolves(s, start, end, step, f)

LEMMA SliceUnfolds ==
    ASSUME NEW s, NEW start, NEW end, NEW step
    PROVE  Slice(s, start, end, step) = SliceLoop(s, start, end, step)[0]
  BY DEF Slice, SliceLoop, SliceSolves, SliceFrom

(* The characters from the k-th to the c-th, where a tells the k-th.        *)
From(f, k, c) == [i \in 1 .. c - k |-> f[k + i - 1]]

LEMMA FromIs ==
    ASSUME NEW T, NEW f \in [Nat -> T], NEW k \in Nat, NEW c \in Nat, k <= c
    PROVE  /\ From(f, k, c) \in Seq(T) /\ Len(From(f, k, c)) = c - k
           /\ \A i \in 1 .. c - k : From(f, k, c)[i] = f[k + i - 1]
  <1> DEFINE m == c - k
             w == From(f, k, c)
  <1>1. m \in Nat /\ \A i \in 1 .. m : k + i - 1 \in Nat
    OBVIOUS
  <1> HIDE DEF m
  <1>2. w = [i \in 1 .. m |-> f[k + i - 1]]
    BY DEF From, m
  <1> HIDE DEF w
  <1>3. w \in [1 .. m -> T]
    BY <1>1, <1>2
  <1>4. w \in Seq(T) /\ Len(w) = m
    BY <1>1, <1>3
  <1>5. \A i \in 1 .. m : w[i] = f[k + i - 1]
    BY <1>2
  <1> QED BY <1>4, <1>5 DEF w, m

LEMMA FirstOfFrom ==
    ASSUME NEW T, NEW f \in [Nat -> T], NEW k \in Nat, NEW c \in Nat, k < c
    PROVE  From(f, k, c) = << f[k] >> \o From(f, k + 1, c)
  <1> DEFINE w == From(f, k, c)
             v == From(f, k + 1, c)
             u == << f[k] >>
             m == c - k
             l == c - (k + 1)
  <1>1. m \in Nat /\ l \in Nat /\ m = 1 + l /\ k + 1 \in Nat /\ k + 1 <= c /\ k <= c
    OBVIOUS
  <1> HIDE DEF w, v, m, l
  <1>2. w \in Seq(T) /\ Len(w) = m /\ \A i \in 1 .. m : w[i] = f[k + i - 1]
    <2>1. w \in Seq(T)
      BY <1>1, FromIs DEF w
    <2>2. Len(w) = m
      BY <1>1, FromIs DEF w, m
    <2>3. w = [i \in 1 .. m |-> f[k + i - 1]]
      BY DEF w, m, From
    <2> QED BY <2>1, <2>2, <2>3
  <1>3. v \in Seq(T) /\ Len(v) = l /\ \A i \in 1 .. l : v[i] = f[k + 1 + i - 1]
    <2>1. v \in Seq(T)
      BY <1>1, FromIs DEF v
    <2>2. v = [i \in 1 .. l |-> f[k + 1 + i - 1]]
      BY DEF v, l, From
    <2>3. Len(v) = l
      BY <1>1, <2>1, <2>2
    <2> QED BY <2>1, <2>2, <2>3
  <1>4. u \in Seq(T) /\ Len(u) = 1 /\ u[1] = f[k]
    OBVIOUS
  <1> HIDE DEF u
  <1>5. u \o v \in Seq(T) /\ Len(u \o v) = m /\ \A i \in 1 .. m : (u \o v)[i] = IF i <= 1 THEN u[i] ELSE v[i - 1]
    <2>1. u \in Seq(T) /\ v \in Seq(T)
      BY <1>3, <1>4
    <2>2. u \o v \in Seq(T)
      BY ONLY <2>1
    <2>3. Len(u \o v) = Len(u) + Len(v)
      BY ONLY <2>1
    <2>4. \A i \in 1 .. Len(u) + Len(v) :
                (u \o v)[i] = IF i <= Len(u) THEN u[i] ELSE v[i - Len(u)]
      BY ONLY <2>1
    <2>5. Len(u) = 1 /\ Len(u) + Len(v) = m
      BY <1>1, <1>3, <1>4
    <2> QED BY <2>2, <2>3, <2>4, <2>5
  <1>6. ASSUME NEW i \in 1 .. m PROVE (u \o v)[i] = w[i]
    <2>1. CASE i = 1
      <3>1. k + i - 1 = k
        BY <2>1
      <3> QED BY <1>2, <1>4, <1>5, <2>1, <3>1
    <2>2. CASE i # 1
      <3>1. i - 1 \in 1 .. l /\ k + 1 + (i - 1) - 1 = k + i - 1 /\ ~ (i <= 1)
        BY <1>1, <2>2
      <3>2. v[i - 1] = f[k + i - 1]
        BY <1>3, <3>1
      <3> QED BY <1>2, <1>5, <3>1, <3>2
    <2> QED BY <2>1, <2>2
  <1>7. w = u \o v
    BY <1>2, <1>5, <1>6, SeqEqual
  <1> QED BY <1>7 DEF w, u, v

(* The characters the loop of String_slice copies.                          *)
SliceAt(s, start, step) ==
    [k \in Nat |-> s[SliceStart(start, Len(s)) + k * SliceStep(step) + 1]]

(* The loop of String_slice goes on to append until its size is reached.    *)
LEMMA SliceIsFrom ==
    ASSUME NEW S, NEW s \in Seq(S), NEW start \in Int, NEW end \in Int, NEW step \in Int,
           ~ SliceIsError(s, start, end, step), SliceReadsText(s, start, end, step)
    PROVE  LET c == SliceSize(s, start, end, step)
           IN  /\ Slice(s, start, end, step) = From(SliceAt(s, start, step), 0, c)
               /\ Len(Slice(s, start, end, step)) = c
  <1> DEFINE c == SliceSize(s, start, end, step)
             N == Len(s) + 1
             at    == SliceAt(s, start, step)
             g(k)  == From(at, k, c)
             h == SliceLoop(s, start, end, step)
             Next1(f, k) == IF k < c THEN << at[k] >> \o f[k + 1] ELSE <<>>
  <1>1. N \in Nat /\ c \in 1 .. N - 1 /\ c \in Nat
    BY SizeIsSteps
  <1>2. ASSUME NEW f, NEW k \in 0 .. N
        PROVE  SliceFrom(s, start, end, step, f, k) = Next1(f, k)
    <2> DEFINE p == SliceStart(start, Len(s)) + k * SliceStep(step)
               x == (SliceEnd(end, step, Len(s)) - p) * Dir(step)
    <2>1. x > 0 <=> k < c
      BY <1>1, SizeIsSteps
    <2>2. x \in Int
      <3>1. SliceStart(start, Len(s)) \in Int /\ SliceEnd(end, step, Len(s)) \in Int
        <4>1. Len(s) \in Nat \ {0}
          BY DEF SliceReadsText
        <4> QED BY <4>1, BoundsAre
      <3>2. SliceStep(step) \in Int /\ Dir(step) \in Int /\ k \in Int
        BY DEF SliceStep, Dir
      <3> QED BY <3>1, <3>2
    <2>3. SliceFrom(s, start, end, step, f, k) =
            IF x <= 0 \/ k = N THEN <<>> ELSE << at[k] >> \o f[k + 1]
      BY DEF SliceFrom, SliceAt
    <2> HIDE DEF x, at, c
    <2>4. x <= 0 <=> ~ (k < c)
      BY <2>1, <2>2
    <2>5. k = N => ~ (k < c)
      BY <1>1
    <2> QED BY <2>3, <2>4, <2>5
  <1> HIDE DEF c, at
  <1> DEFINE T == {at[k] : k \in Nat}
  <1>3. at \in [Nat -> T]
    BY DEF at, SliceAt
  <1> HIDE DEF T
  <1>4. \A k \in 0 .. N : g(k) = IF k < c THEN << at[k] >> \o g(k + 1) ELSE <<>>
    <2> SUFFICES ASSUME NEW k \in 0 .. N
                 PROVE  g(k) = IF k < c THEN << at[k] >> \o g(k + 1) ELSE <<>>
      OBVIOUS
    <2>1. k \in Nat
      BY <1>1
    <2>2. CASE k < c
      BY <1>1, <1>3, <2>1, <2>2, FirstOfFrom
    <2>3. CASE ~ (k < c)
      <3>1. 1 .. c - k = {}
        BY <1>1, <2>3
      <3> QED BY <2>3, <3>1 DEF From
    <2> QED BY <2>2, <2>3
  <1>5. Len(g(0)) = c
    <2>1. 0 \in Nat /\ c \in Nat /\ 0 <= c /\ c - 0 = c
      BY <1>1
    <2>2. From(at, 0, c) = [i \in 1 .. c |-> at[0 + i - 1]]
      BY <2>1 DEF From
    <2>3. ASSUME NEW d \in Nat, NEW f, NEW w, w = [i \in 1 .. d |-> f[0 + i - 1]]
          PROVE  Len(w) = d
      BY ONLY <2>3
    <2> QED BY <2>1, <2>2, <2>3
  <1> HIDE DEF g, h
  <1>6. \E f : SliceSolves(s, start, end, step, f)
    <2> DEFINE f == [k \in 0 .. N |-> g(k)]
    <2>1. ASSUME NEW k \in 0 .. N PROVE f[k] = SliceFrom(s, start, end, step, f, k)
      <3>1. k < c => f[k + 1] = g(k + 1)
        BY <1>1
      <3>2. f[k] = g(k)
        OBVIOUS
      <3> HIDE DEF f
      <3> QED BY <1>2, <1>4, <3>1, <3>2
    <2>2. SliceSolves(s, start, end, step, f)
      BY <2>1 DEF SliceSolves
    <2> QED BY <2>2
  <1>7. \A k \in 0 .. N : h[k] = Next1(h, k)
    <2>1. SliceSolves(s, start, end, step, h)
      BY <1>6 DEF SliceLoop, h
    <2>2. \A k \in 0 .. N : h[k] = SliceFrom(s, start, end, step, h, k)
      BY <2>1 DEF SliceSolves
    <2> HIDE DEF N, Next1
    <2> QED BY <1>2, <2>2
  <1> DEFINE A == {i \in 1 .. N + 1 : \A k \in 0 .. N : N - k < i => h[k] = g(k)}
  <1>8. N + 1 \in Nat /\ 1 \in 1 .. N + 1 /\ N + 1 \in 1 .. N + 1
    BY <1>1
  <1>9. 1 \in A
    <2> SUFFICES ASSUME NEW k \in 0 .. N, N - k < 1 PROVE h[k] = g(k)
      BY <1>8
    <2>1. ~ (k < c)
      BY <1>1
    <2> QED BY <1>4, <1>7, <2>1
  <1>10. ASSUME NEW i \in 1 .. (N + 1) - 1, i \in A PROVE i + 1 \in A
    <2> SUFFICES ASSUME NEW k \in 0 .. N, N - k < i + 1 PROVE h[k] = g(k)
      BY <1>8
    <2>1. k < c => h[k + 1] = g(k + 1)
      <3> SUFFICES ASSUME k < c PROVE h[k + 1] = g(k + 1)
        OBVIOUS
      <3>1. k + 1 \in 0 .. N /\ N - (k + 1) < i
        BY <1>1
      <3> QED BY <1>10, <3>1
    <2> QED BY <1>4, <1>7, <2>1
  <1>11. 1 .. N + 1 \subseteq A
    <2> DEFINE M == N + 1
    <2> HIDE DEF N, A
    <2>1. M \in Nat /\ M \in 1 .. M /\ 1 \in 1 .. M /\ \A i \in 1 .. M - 1 : i \in A => i + 1 \in A
      BY <1>8, <1>10
    <2> HIDE DEF M
    <2>2. 1 .. M \subseteq A
      BY <1>9, <2>1, IntervalInduction
    <2> QED BY <2>2 DEF M
  <1>12. h[0] = g(0)
    <2>1. 0 \in 0 .. N /\ N - 0 < N + 1
      BY <1>1
    <2> QED BY <1>8, <1>11, <2>1
  <1> QED BY <1>5, <1>12, SliceUnfolds DEF h, c, g, at

(* All of them are of the text, where the bounds are.                       *)
LEMMA SlicePlaces ==
    ASSUME NEW S, NEW s \in Seq(S), s # <<>>, NEW start \in Int, start < Len(s),
           NEW end \in Int, end <= Len(s), NEW step \in Int,
           ~ SliceIsError(s, start, end, step), NEW k \in Nat,
           k < SliceSize(s, start, end, step)
    PROVE  SliceStart(start, Len(s)) + k * SliceStep(step) \in 0 .. Len(s) - 1
  <1> DEFINE n     == Len(s)
             first == SliceStart(start, n)
             last  == SliceEnd(end, step, n)
             m     == k * SliceStep(step)
  <1>1. n \in Nat \ {0} /\ first \in 0 .. n - 1 /\ last \in -1 .. n
    <2>1. n \in Nat \ {0} /\ start < n /\ end <= n
      OBVIOUS
    <2> HIDE DEF n
    <2> QED BY <2>1, SliceInside
  <1>2. (last - (first + m)) * Dir(step) > 0
    BY StepsAre
  <1> HIDE DEF n, first, last
  <1>3. CASE step >= 0
    <2>1. SliceStep(step) \in Nat /\ Dir(step) = 1
      BY <1>3 DEF SliceStep, Dir
    <2>2. m \in Nat
      BY <2>1
    <2> HIDE DEF m
    <2> QED BY <1>1, <1>2, <2>1, <2>2 DEF n, first, m
  <1>4. CASE step < 0
    <2>1. SliceStep(step) = step /\ Dir(step) = -1
      BY <1>4 DEF SliceStep, Dir
    <2>2. m \in Int /\ m <= 0
      <3>1. \A x \in Int : x < 0 => k * x \in Int /\ k * x <= 0
        OBVIOUS
      <3> QED BY <1>4, <2>1, <3>1
    <2> HIDE DEF m
    <2> QED BY <1>1, <1>2, <2>1, <2>2 DEF n, first, m
  <1> QED BY <1>3, <1>4

LEMMA SliceReadsInside ==
    ASSUME NEW S, NEW s \in Seq(S), s # <<>>, NEW start \in Int, start < Len(s),
           NEW end \in Int, end <= Len(s), NEW step \in Int,
           ~ SliceIsError(s, start, end, step)
    PROVE  SliceReadsText(s, start, end, step)
  <1>1. SliceSize(s, start, end, step) \in Nat
    BY StepsAre
  <1>2. ASSUME NEW k \in 0 .. SliceSize(s, start, end, step) - 1
        PROVE  SliceStart(start, Len(s)) + k * SliceStep(step) \in 0 .. Len(s) - 1
    <2>1. k \in Nat /\ k < SliceSize(s, start, end, step)
      BY <1>1
    <2> QED BY <2>1, SlicePlaces
  <1> QED BY <1>2 DEF SliceReadsText

(* String_slice: the loop appends as many characters as were asked room for,*)
(* whatever the bounds, if it reads nothing behind the text.                *)
THEOREM SliceSizeIs ==
    ASSUME NEW S, NEW s \in Seq(S), NEW start \in Int, NEW end \in Int, NEW step \in Int,
           ~ SliceIsError(s, start, end, step), SliceReadsText(s, start, end, step)
    PROVE  SliceSize(s, start, end, step) = Len(Slice(s, start, end, step))
  BY SliceIsFrom

(* And what it has appended is a text.                                      *)
LEMMA SliceIsText ==
    ASSUME NEW S, NEW s \in Seq(S), NEW start \in Int, NEW end \in Int, NEW step \in Int,
           ~ SliceIsError(s, start, end, step), SliceReadsText(s, start, end, step)
    PROVE  /\ Slice(s, start, end, step) \in Seq(S)
           /\ Len(Slice(s, start, end, step)) \in 1 .. Len(s)
  <1> DEFINE c == SliceSize(s, start, end, step)
             at == SliceAt(s, start, step)
             w == Slice(s, start, end, step)
  <1>1. c \in 1 .. Len(s) /\ c \in Nat
    BY SizeIsSteps
  <1>2. w = From(at, 0, c) /\ Len(w) = c
    BY SliceIsFrom
  <1>3. w = [i \in 1 .. c |-> at[i - 1]]
    <2>1. c - 0 = c /\ \A i \in 1 .. c : 0 + i - 1 = i - 1
      BY <1>1
    <2> HIDE DEF c, w, at
    <2> QED BY <1>2, <2>1 DEF From
  <1>4. ASSUME NEW i \in 1 .. c PROVE at[i - 1] \in S
    <2> DEFINE k == i - 1
    <2>1. k \in Nat /\ k < c
      BY <1>1
    <2> HIDE DEF k
    <2>2. SliceStart(start, Len(s)) + k * SliceStep(step) \in 0 .. Len(s) - 1
      <3>1. k \in 0 .. SliceSize(s, start, end, step) - 1
        BY <1>1, <2>1 DEF c
      <3> QED BY <3>1 DEF SliceReadsText
    <2> DEFINE p == SliceStart(start, Len(s)) + k * SliceStep(step)
    <2>3. at[k] = s[p + 1]
      BY <2>1 DEF SliceAt
    <2>4. p + 1 \in 1 .. Len(s)
      <3>1. Len(s) \in Nat
        OBVIOUS
      <3> HIDE DEF p
      <3> QED BY <2>2, <3>1 DEF p
    <2> HIDE DEF p, at
    <2> QED BY <2>3, <2>4 DEF k
  <1> HIDE DEF c, at, w
  <1>5. w \in [1 .. c -> S]
    BY <1>3, <1>4
  <1> QED BY <1>1, <1>2, <1>5 DEF w

-----------------------------------------------------------------------------
(* The properties of MCStringSearch, for texts and bounds of any size.      *)

Asked ==
    /\ str \in Seq(Nat) /\ pattern \in Seq(Nat)
    /\ left \in Int /\ left <= Len(str)
    /\ right \in Int /\ right <= Len(str)
    /\ stride \in Int

LEMMA AskedAlways == Asking => []Asked
  <1>1. AskNothing => Asked
    <2> SUFFICES ASSUME AskNothing PROVE Asked
      OBVIOUS
    <2>1. ASSUME NEW n \in Nat, NEW t \in TextsUpTo(n) PROVE t \in Seq(Nat)
      <3>1. PICK k \in 0 .. n : t \in [1 .. k -> Alphabet]
        BY DEF TextsUpTo
      <3>2. k \in Nat
        OBVIOUS
      <3>3. Alphabet \subseteq Nat
        BY AlphabetAssumption
      <3>4. t \in [1 .. k -> Nat]
        BY <3>1, <3>3
      <3> QED BY <3>2, <3>4
    <2>2. str \in Seq(Nat) /\ pattern \in Seq(Nat)
      BY <2>1, SizesAssumption DEF AskNothing
    <2> QED BY <2>2 DEF AskNothing, Asked
  <1>2. Asked /\ [Ask]_question => Asked'
    <2> SUFFICES ASSUME Asked, [Ask]_question PROVE Asked'
      OBVIOUS
    <2>1. Len(str) \in Nat /\ \A x \in Positions(str) : x \in Int /\ x <= Len(str)
      BY DEF Asked, Positions
    <2>2. CASE AskFrom
      BY <2>1, <2>2 DEF AskFrom, Asked
    <2>3. CASE AskTo
      BY <2>1, <2>3 DEF AskTo, Asked
    <2>4. CASE AskEvery
      BY <2>4, SizesAssumption DEF AskEvery, Asked
    <2>5. CASE UNCHANGED question
      BY <2>5 DEF question, Asked
    <2> QED BY <2>2, <2>3, <2>4, <2>5 DEF Ask
  <1> QED BY <1>1, <1>2, PTL DEF Asking

(* Between one before the text around and its end, the bounds are places of *)
(* the text: a negative one is its beginning.                               *)
LEMMA BoundsInside ==
    ASSUME Asked, Searchable
    PROVE  Bound(left, Len(str)) \in Nat /\ EndBound(right, Len(str)) \in 0 .. Len(str)
  <1> DEFINE n == Len(str)
  <1>1. n \in Nat /\ n > 0 /\ left \in Int /\ left <= n /\ left > - n
        /\ right \in Int /\ right <= n /\ right > - n
    BY DEF Asked, Searchable
  <1> HIDE DEF n
  <1>2. ASSUME NEW x \in Int, x > - n, x < 0 PROVE Bound(x, n) = 0
    <2>1. (- x) \div n = 0
      BY <1>1, <1>2
    <2>2. Quot(x, n) = 0
      BY <1>1, <1>2, <2>1 DEF Quot, Abs
    <2>3. Rem(x, n) = x
      BY <1>1, <2>2 DEF Rem
    <2> QED BY <1>1, <1>2, <2>2, <2>3 DEF Bound
  <1>3. ASSUME NEW x \in Int, x >= 0 PROVE Bound(x, n) = x
    BY <1>3 DEF Bound
  <1>4. Bound(left, n) \in Nat
    BY <1>1, <1>2, <1>3
  <1>5. Bound(right, n) \in 0 .. n
    BY <1>1, <1>2, <1>3
  <1>6. EndBound(right, n) \in 0 .. n
    BY <1>1, <1>5 DEF EndBound
  <1> QED BY <1>4, <1>6 DEF n

(* String_find returns the first occurrence between its bounds, or -1,      *)
(* although the scan skips what cannot begin one.                           *)
THEOREM FindsFirst == Asking => []FindIsFirst
  <1>1. Asked => FindIsFirst
    BY BoundsInside, FindIs DEF FindIsFirst, Found, LeftBound, RightBound, Asked
  <1> QED BY <1>1, AskedAlways, PTL

(* String_rfind returns the last occurrence between its bounds, or -1.      *)
THEOREM RfindsLast == Asking => []RfindIsLast
  <1>1. Asked => RfindIsLast
    BY BoundsInside, RfindIs DEF RfindIsLast, Found, LeftBound, RightBound, Asked
  <1> QED BY <1>1, AskedAlways, PTL

(* String_count counts as many occurrences as can be chosen that do not     *)
(* overlap.                                                                 *)
THEOREM CountsMost == Asking => []CountIsMost
  <1>1. Asked => CountIsMost
    BY BoundsInside, CountIs DEF CountIsMost, Found, LeftBound, RightBound, Asked
  <1> QED BY <1>1, AskedAlways, PTL

(* String_slice asks for exactly the room that its characters take.         *)
THEOREM SlicesFit == Asking => []SliceFits
  <1>1. Asked => SliceFits
    <2> SUFFICES ASSUME Asked, Sliceable
                 PROVE  SliceSize(str, left, right, stride) = Len(Slice(str, left, right, stride))
      BY DEF SliceFits
    <2>1. SliceReadsText(str, left, right, stride)
      BY SliceReadsInside DEF Sliceable, Asked
    <2> QED BY <2>1, SliceSizeIs DEF Sliceable, Asked
  <1> QED BY <1>1, AskedAlways, PTL

-----------------------------------------------------------------------------
(* What Strings needs of texts: counting from the right, windows, pieces    *)
(* and their joining, and the occurrences of a word that do not overlap.    *)

LEMMA MappedText ==
    ASSUME NEW s \in Seq(Nat), NEW t, DOMAIN t = DOMAIN s, \A k \in DOMAIN s : t[k] \in Nat,
           t = [k \in DOMAIN s |-> t[k]]
    PROVE  t \in Seq(Nat) /\ Len(t) = Len(s)
  <1>1. Len(s) \in Nat /\ DOMAIN s = 1 .. Len(s)
    OBVIOUS
  <1>2. t \in [1 .. Len(s) -> Nat]
    BY <1>1
  <1> QED BY <1>1, <1>2

(* A part of a text is a text, and no longer.                               *)
LEMMA PartIs ==
    ASSUME NEW s \in Seq(Nat), NEW a \in 0 .. Len(s), NEW b \in 0 .. Len(s)
    PROVE  /\ SubSeq(s, a + 1, b) \in Seq(Nat)
           /\ Len(SubSeq(s, a + 1, b)) = (IF a <= b THEN b - a ELSE 0)
           /\ Len(SubSeq(s, a + 1, b)) <= Len(s)
           /\ IsPrefix(SubSeq(s, 1, b), s)
  <1>1. Len(s) \in Nat /\ a \in Nat /\ b \in Nat
    OBVIOUS
  <1>2. SubSeq(s, a + 1, b) \in Seq(Nat) /\ Len(SubSeq(s, a + 1, b)) = (IF a <= b THEN b - a ELSE 0)
    BY <1>1
  <1> DEFINE t == SubSeq(s, 1, b)
  <1>3. t \in Seq(Nat) /\ Len(t) = b
    BY <1>1
  <1> HIDE DEF t
  <1>4. SubSeq(t, 1, b) = t
    BY <1>1, <1>3
  <1>5. IsPrefix(t, s)
    BY <1>1, <1>3, <1>4 DEF IsPrefix, t
  <1> QED BY <1>1, <1>2, <1>5 DEF t

(* The k-th character copied is the one at from[k]: an earlier copy where   *)
(* that has been written over.                                              *)
Onto(s, from, n, got) ==
    got = [k \in 0 .. n - 1 |-> IF from[k] < k THEN got[from[k]] ELSE s[from[k] + 1]]

LEMMA OntoIs ==
    ASSUME NEW V, NEW s \in Seq(V), NEW n \in Nat, n >= 1, NEW from \in [0 .. n - 1 -> 0 .. Len(s) - 1]
    PROVE  LET got == CHOOSE f : Onto(s, from, n, f)
           IN  \A k \in 0 .. n - 1 : got[k] \in V
  <1> DEFINE Next1(f, k) == IF from[k] < k THEN f[from[k]] ELSE s[from[k] + 1]
             A == {i \in 1 .. n : \E f \in [0 .. i - 1 -> V] : \A k \in 0 .. i - 1 : f[k] = Next1(f, k)}
  <1>0. \A k \in 0 .. n - 1 : s[from[k] + 1] \in V /\ from[k] \in Nat
    <2> SUFFICES ASSUME NEW k \in 0 .. n - 1 PROVE s[from[k] + 1] \in V /\ from[k] \in Nat
      OBVIOUS
    <2>1. from[k] \in 0 .. Len(s) - 1 /\ Len(s) \in Nat
      OBVIOUS
    <2>2. from[k] + 1 \in 1 .. Len(s) /\ from[k] \in Nat
      BY <2>1
    <2> QED BY <2>2
  <1>1. 1 \in A
    <2> DEFINE f == [k \in 0 .. 0 |-> s[from[0] + 1]]
    <2>1. f \in [0 .. 0 -> V] /\ 0 \in 0 .. n - 1
      BY <1>0
    <2>2. \A k \in 0 .. 0 : f[k] = Next1(f, k)
      BY <1>0, <2>1
    <2>3. 1 \in 1 .. n /\ 1 - 1 = 0
      OBVIOUS
    <2> HIDE DEF f, Next1
    <2> QED BY <2>1, <2>2, <2>3
  <1>2. ASSUME NEW i \in 1 .. n - 1, i \in A PROVE i + 1 \in A
    <2>1. PICK f \in [0 .. i - 1 -> V] : \A k \in 0 .. i - 1 : f[k] = Next1(f, k)
      BY <1>2
    <2> DEFINE v == Next1(f, i)
               g == [k \in 0 .. i |-> IF k = i THEN v ELSE f[k]]
    <2>2. i \in 0 .. n - 1 /\ i \in 0 .. i /\ i \in Nat
      OBVIOUS
    <2>3. v \in V
      <3>1. from[i] \in Nat /\ s[from[i] + 1] \in V
        BY <1>0, <2>2
      <3>2. from[i] < i => from[i] \in 0 .. i - 1
        BY <2>2, <3>1
      <3> QED BY <3>1, <3>2
    <2>4. g \in [0 .. i -> V]
      <3>1. \A k \in 0 .. i : k # i => k \in 0 .. i - 1
        BY <2>2
      <3> HIDE DEF v
      <3> QED BY <2>3, <3>1
    <2>5. ASSUME NEW k \in 0 .. i PROVE g[k] = Next1(g, k)
      <3>1. from[k] < k => from[k] \in 0 .. i - 1 /\ from[k] \in 0 .. i /\ from[k] # i
        <4>1. k \in 0 .. n - 1
          BY <2>2
        <4>2. from[k] \in Nat
          BY <1>0, <4>1
        <4> QED BY <2>2, <4>2, SMTT(30)
      <3>2. from[k] < k => g[from[k]] = f[from[k]]
        BY <3>1
      <3>3. g[k] = Next1(f, k)
        <4>1. CASE k = i
          BY <2>2, <4>1
        <4>2. CASE k # i
          <5>1. k \in 0 .. i - 1
            BY <2>2, <4>2
          <5> QED BY <2>1, <4>2, <5>1
        <4> QED BY <4>1, <4>2
      <3> HIDE DEF g
      <3> QED BY <3>2, <3>3
    <2>6. i + 1 \in 1 .. n /\ (i + 1) - 1 = i
      BY <2>2
    <2> HIDE DEF g, Next1
    <2> QED BY <2>4, <2>5, <2>6
  <1>3. n \in A
    <2>1. 1 .. n \subseteq A
      <3> HIDE DEF A
      <3> QED BY <1>1, <1>2, IntervalInduction
    <2>2. n \in 1 .. n
      OBVIOUS
    <2> HIDE DEF A
    <2> QED BY <2>1, <2>2
  <1>4. \E f : Onto(s, from, n, f)
    <2>1. PICK f \in [0 .. n - 1 -> V] : \A k \in 0 .. n - 1 : f[k] = Next1(f, k)
      BY <1>3
    <2>2. f = [k \in 0 .. n - 1 |-> f[k]]
      OBVIOUS
    <2>3. f = [k \in 0 .. n - 1 |-> Next1(f, k)]
      BY <2>1, <2>2
    <2> QED BY <2>3 DEF Onto
  <1> DEFINE h == CHOOSE f : Onto(s, from, n, f)
  <1>5. Onto(s, from, n, h)
    BY <1>4
  <1> HIDE DEF h
  <1>6. \A k \in 0 .. n - 1 : h[k] = Next1(h, k)
    BY <1>5 DEF Onto
  <1> DEFINE B == {i \in 1 .. n : \A k \in 0 .. i - 1 : h[k] \in V}
  <1>7. 1 \in B
    <2>1. 0 \in 0 .. n - 1 /\ 1 \in 1 .. n /\ 1 - 1 = 0 /\ from[0] \in Nat /\ s[from[0] + 1] \in V
      BY <1>0
    <2>2. h[0] \in V
      BY <1>6, <2>1
    <2> QED BY <2>1, <2>2
  <1>8. ASSUME NEW i \in 1 .. n - 1, i \in B PROVE i + 1 \in B
    <2>1. i \in 0 .. n - 1 /\ i + 1 \in 1 .. n /\ (i + 1) - 1 = i
      OBVIOUS
    <2>2. h[i] \in V
      <3>1. from[i] \in Nat /\ s[from[i] + 1] \in V
        BY <1>0, <2>1
      <3>2. from[i] < i => from[i] \in 0 .. i - 1
        BY <2>1, <3>1
      <3> QED BY <1>6, <1>8, <2>1, <3>1, <3>2
    <2>3. \A k \in 0 .. i : k = i \/ k \in 0 .. i - 1
      BY <2>1
    <2> QED BY <1>8, <2>1, <2>2, <2>3
  <1>9. n \in B
    <2>1. 1 .. n \subseteq B
      <3> HIDE DEF B
      <3> QED BY <1>7, <1>8, IntervalInduction
    <2>2. n \in 1 .. n
      OBVIOUS
    <2> HIDE DEF B
    <2> QED BY <2>1, <2>2
  <1> QED BY <1>9 DEF h

LEMMA BoundsOf ==
    ASSUME NEW n \in Nat, NEW a \in 0 .. n
    PROVE  Bound(a, n) = a /\ EndBound(n, n) = n
  BY DEF Bound, EndBound

LEMMA OccurrencesAreIn ==
    ASSUME NEW s \in Seq(Nat), NEW sub \in Seq(Nat), NEW x \in Nat, NEW y \in 0 .. Len(s)
    PROVE  /\ Occurrences(s, sub, x, y) \in SUBSET (0 .. y)
           /\ \A p \in Occurrences(s, sub, x, y) : p + Len(sub) <= Len(s) /\ p <= Len(s)
  <1>1. Len(s) \in Nat /\ Len(sub) \in Nat /\ y \in Nat
    OBVIOUS
  <1>2. \A p \in Occurrences(s, sub, x, y) : p \in x .. y - Len(sub)
    BY DEF Occurrences
  <1> HIDE DEF Occurrences
  <1> QED BY <1>1, <1>2

LEMMA CountIsNat ==
    ASSUME NEW s \in Seq(Nat), NEW sub \in Seq(Nat)
    PROVE  /\ Count(s, sub, 0, Len(s)) \in Nat
           /\ Count(s, sub, 0, Len(s)) > 0 =>
                 Len(sub) <= Len(s) /\ Len(sub) >= 1 /\ s # <<>>
  <1> DEFINE Hits == Occurrences(s, sub, 0, Len(s))
  <1>0. Len(s) \in Nat /\ Len(sub) \in Nat
    OBVIOUS
  <1>1. Bound(0, Len(s)) = 0 /\ EndBound(Len(s), Len(s)) = Len(s)
    BY <1>0, BoundsOf
  <1>2. Count(s, sub, 0, Len(s)) = MostApart(Hits, Len(sub))
    <2>1. Bound(0, Len(s)) \in Nat /\ EndBound(Len(s), Len(s)) \in 0 .. Len(s)
      BY <1>0, <1>1
    <2> QED BY <1>1, <2>1, CountIs
  <1>3. Hits \in SUBSET (0 .. Len(s)) /\ \A p \in Hits : p + Len(sub) <= Len(s)
    BY <1>0, OccurrencesAreIn
  <1> HIDE DEF Hits
  <1>4. MostApart(Hits, Len(sub)) \in Nat
    BY <1>0, <1>3, MostApartIs
  <1>5. ASSUME Count(s, sub, 0, Len(s)) > 0
        PROVE  Len(sub) <= Len(s) /\ Len(sub) >= 1 /\ s # <<>>
    <2>1. Hits # {}
      <3> SUFFICES ASSUME Hits = {} PROVE FALSE
        OBVIOUS
      <3>1. MostApart({}, Len(sub)) = 0
        BY <1>0, NoneApart
      <3>2. Count(s, sub, 0, Len(s)) = 0
        BY <1>2, <3>1
      <3> QED BY <1>5, <3>2
    <2>2. Len(sub) <= Len(s)
      <3>1. PICK p \in Hits : TRUE
        BY <2>1
      <3>2. p \in Nat /\ p + Len(sub) <= Len(s)
        BY <1>0, <1>3
      <3> QED BY <1>0, <3>2
    <2>3. sub # <<>> /\ s # <<>>
      BY <1>1, <1>5, CountUnfolds
    <2> QED BY <1>0, <2>2, <2>3
  <1> QED BY <1>2, <1>4, <1>5

LEMMA FindIsIn ==
    ASSUME NEW s \in Seq(Nat), NEW sub \in Seq(Nat), NEW a \in 0 .. Len(s)
    PROVE  Find(s, sub, a, Len(s)) \in Int /\ Find(s, sub, a, Len(s)) >= -1
           /\ (Find(s, sub, a, Len(s)) # -1 => Find(s, sub, a, Len(s)) + Len(sub) <= Len(s))
  <1> DEFINE Hits == Occurrences(s, sub, a, Len(s))
  <1>0. Len(s) \in Nat /\ Len(sub) \in Nat /\ a \in Nat /\ Len(s) \in 0 .. Len(s)
    OBVIOUS
  <1>1. Bound(a, Len(s)) = a /\ EndBound(Len(s), Len(s)) = Len(s)
    BY <1>0, BoundsOf
  <1>2. Find(s, sub, a, Len(s)) = FirstOf(Hits)
    BY <1>0, <1>1, FindIs
  <1>3. Hits \in SUBSET (0 .. Len(s)) /\ \A p \in Hits : p + Len(sub) <= Len(s)
    BY <1>0, OccurrencesAreIn
  <1> HIDE DEF Hits
  <1>4. Hits \in SUBSET Nat
    BY <1>3
  <1>5. (Hits = {} => FirstOf(Hits) = -1) /\ (Hits # {} => FirstOf(Hits) \in Hits)
    BY <1>4, FirstOfIs
  <1> DEFINE f == FirstOf(Hits)
  <1> HIDE DEF f
  <1>6. f \in Nat \/ f = -1
    BY <1>4, <1>5 DEF f
  <1>7. f # -1 => f + Len(sub) <= Len(s)
    BY <1>3, <1>5 DEF f
  <1>8. Find(s, sub, a, Len(s)) = f
    BY <1>2 DEF f
  <1> QED BY <1>6, <1>7, <1>8

LEMMA PieceIs ==
    ASSUME NEW s \in Seq(Nat), NEW a \in 0 .. Len(s), NEW b \in Int, b <= Len(s)
    PROVE  SubSeq(s, a + 1, b) \in Seq(Nat)
  <1>1. CASE b >= 0
    <2>1. b \in 0 .. Len(s)
      BY <1>1
    <2> QED BY <2>1, PartIs
  <1>2. CASE b < 0
    <2>1. a + 1 > b /\ a + 1 \in Int
      BY <1>2
    <2>2. SubSeq(s, a + 1, b) = <<>>
      BY <2>1
    <2> QED BY <2>2
  <1> QED BY <1>1, <1>2

LEMMA DividesInto ==
    ASSUME NEW e \in Nat, NEW n \in Nat \ {0}
    PROVE  e \div n \in Nat /\ e % n \in 0 .. n - 1 /\ e = n * (e \div n) + (e % n)
  OBVIOUS

(* An end of -1 is the end of the text, or before all where that is the     *)
(* only other place.                                                        *)
LEMMA RfindIsIn ==
    ASSUME NEW t \in Seq(Nat), NEW old \in Seq(Nat), t # <<>>, NEW e \in -1 .. Len(t)
    PROVE  Rfind(t, old, 0, e) \in -1 .. Len(t)
  <1> DEFINE n == Len(t)
             m == Len(old)
             y == EndBound(e, n)
  <1>0. n \in Nat /\ n >= 1 /\ m \in Nat /\ e \in -1 .. n
    OBVIOUS
  <1> HIDE DEF n, m
  <1>1. Bound(0, n) = 0
    BY DEF Bound
  <1>2. y \in 0 .. n \/ y = -2
    <2>1. CASE e # -1
      <3>1. Bound(e, n) = e
        BY <1>0, <2>1 DEF Bound
      <3> QED BY <1>0, <2>1, <3>1 DEF EndBound
    <2>2. CASE e = -1
      <3> DEFINE q == 1 \div n
      <3>1. Quot(-1, n) = - q
        BY <1>0 DEF Quot, Abs
      <3>2. q \in 0 .. 1 /\ (n = 1 => q = 1) /\ (n > 1 => q = 0)
        <4> DEFINE r == 1 % n
        <4>1. q \in Nat /\ r \in 0 .. n - 1 /\ 1 = n * q + r
          <5>1. n \in Nat \ {0} /\ 1 \in Nat
            BY <1>0
          <5>2. 1 \div n \in Nat /\ 1 % n \in 0 .. n - 1 /\ 1 = n * (1 \div n) + (1 % n)
            BY ONLY <5>1, DividesInto, Zenon
          <5> QED BY <5>2
        <4> HIDE DEF q, r
        <4>2. (n - 1) * q >= 0 /\ n * q = (n - 1) * q + q /\ (n - 1) * q \in Int
          BY <1>0, <4>1
        <4>3. q \in 0 .. 1
          BY <1>0, <4>1, <4>2
        <4>4. CASE q = 0
          BY <1>0, <4>1, <4>4
        <4>5. CASE q = 1
          BY <1>0, <4>1, <4>5
        <4> QED BY <4>3, <4>4, <4>5
      <3> HIDE DEF q
      <3>3. CASE n = 1
        <4>1. Rem(-1, n) = 0
          BY <3>1, <3>2, <3>3 DEF Rem
        <4>2. Bound(-1, n) = -2
          <5>1. Quot(-1, n) = -1
            BY <3>1, <3>2, <3>3
          <5>2. Bound(-1, n) = -1 + n * Quot(-1, n) - Rem(-1, n)
            BY DEF Bound
          <5> QED BY <3>3, <4>1, <5>1, <5>2
        <4> QED BY <2>2, <4>2 DEF EndBound
      <3>4. CASE n > 1
        <4>1. Quot(-1, n) = 0
          BY <3>1, <3>2, <3>4
        <4>2. Rem(-1, n) = -1
          BY <1>0, <4>1 DEF Rem
        <4>3. Bound(-1, n) = 0
          <5>1. Bound(-1, n) = -1 + n * Quot(-1, n) - Rem(-1, n)
            BY DEF Bound
          <5> QED BY <1>0, <4>1, <4>2, <5>1
        <4> QED BY <1>0, <2>2, <4>3 DEF EndBound
      <3> QED BY <1>0, <3>3, <3>4
    <2> QED BY <2>1, <2>2
  <1>3. CASE y \in 0 .. n
    <2> DEFINE Hits == Occurrences(t, old, 0, y)
    <2>1. Rfind(t, old, 0, e) = LastOf(Hits)
      <3>1. Bound(0, Len(t)) \in Nat /\ EndBound(e, Len(t)) \in 0 .. Len(t)
        BY <1>1, <1>3 DEF n
      <3> QED BY <1>1, <3>1, RfindIs DEF n
    <2>2. Hits \in SUBSET (0 .. y) /\ y \in Nat
      <3>1. y \in 0 .. Len(t) /\ y \in Nat
        BY <1>0, <1>3 DEF n
      <3> HIDE DEF y
      <3> QED BY <3>1, OccurrencesAreIn
    <2> HIDE DEF Hits
    <2>3. (Hits = {} => LastOf(Hits) = -1) /\ (Hits # {} => LastOf(Hits) \in Hits)
      <3> HIDE DEF y
      <3> QED BY <2>2, LastOfIs
    <2>4. LastOf(Hits) = -1 \/ LastOf(Hits) \in 0 .. y
      BY <2>2, <2>3
    <2> HIDE DEF y
    <2>5. LastOf(Hits) \in -1 .. n
      BY <1>0, <1>3, <2>4
    <2> QED BY <2>1, <2>5 DEF n
  <1>4. CASE y = -2
    <2>1. Bound(0, n) + m > y
      <3> HIDE DEF y
      <3> QED BY <1>0, <1>1, <1>2, <1>4
    <2>2. Rfind(t, old, 0, e) = -1
      BY <2>1, RfindUnfolds DEF y, n, m
    <2> QED BY <1>0, <2>2 DEF n
  <1> QED BY <1>2, <1>3, <1>4

(* The last of the positions belongs to a largest choice as well: the rest  *)
(* is a largest choice of those that are n or more before it.               *)
LEMMA LastIsChosen ==
    ASSUME NEW y \in Nat, NEW hits \in SUBSET (0 .. y), NEW n \in Nat \ {0},
           NEW m \in hits, \A k \in hits : k <= m
    PROVE  MostApart(hits, n) = 1 + MostApart({k \in hits : k + n <= m}, n)
  <1> DEFINE R == {k \in hits : k + n <= m}
             best == MostApart(hits, n)
             rest == MostApart(R, n)
  <1>1. R \in SUBSET (0 .. y) /\ R \subseteq hits /\ m \in Nat /\ m \notin R /\ \A k \in hits : k \in Nat
    <2>1. \A k \in hits : k \in 0 .. y
      OBVIOUS
    <2>2. \A k \in hits : k \in Nat
      BY <2>1
    <2>3. m \in Nat /\ m \notin R
      BY <2>2
    <2>4. R \subseteq hits
      OBVIOUS
    <2> QED BY <2>2, <2>3, <2>4
  <1>2. /\ rest \in Nat
        /\ \E qs \in ApartIn(R, n) : Cardinality(qs) = rest
        /\ \A qs \in ApartIn(R, n) : Cardinality(qs) <= rest
    <2> HIDE DEF R
    <2> QED BY <1>1, MostApartIs
  <1>3. /\ best \in Nat
        /\ \E qs \in ApartIn(hits, n) : Cardinality(qs) = best
        /\ \A qs \in ApartIn(hits, n) : Cardinality(qs) <= best
    BY MostApartIs
  <1>4. best >= rest + 1
    <2>1. PICK qs \in ApartIn(R, n) : Cardinality(qs) = rest
      BY <1>2
    <2>2. qs \subseteq R /\ Apart(qs, n) /\ m \notin qs
      BY <1>1 DEF ApartIn
    <2>3. IsFiniteSet(qs)
      BY <1>1, <2>2, SmallSets
    <2>4. Cardinality(qs \cup {m}) = rest + 1
      BY <2>1, <2>2, <2>3, FS_AddElement
    <2>5. qs \cup {m} \in ApartIn(hits, n)
      <3>1. qs \cup {m} \subseteq hits
        BY <1>1, <2>2
      <3>2. Apart(qs \cup {m}, n)
        <4> SUFFICES ASSUME NEW p \in qs \cup {m}, NEW q \in qs \cup {m}, p < q
                     PROVE  p + n <= q
          BY DEF Apart
        <4>1. p \in hits /\ q \in hits /\ p <= m /\ q <= m /\ p \in Nat /\ q \in Nat
          <5>1. p \in hits /\ q \in hits
            BY <3>1
          <5> QED BY <1>1, <5>1
        <4>2. p # m
          BY <1>1, <4>1
        <4>3. p \in qs
          BY <4>2
        <4>4. CASE q = m
          BY <2>2, <4>3, <4>4
        <4>5. CASE q # m
          BY <2>2, <4>3, <4>5 DEF Apart
        <4> QED BY <4>4, <4>5
      <3> QED BY <3>1, <3>2 DEF ApartIn
    <2> HIDE DEF best, rest
    <2> QED BY <1>3, <2>4, <2>5
  <1>5. best <= rest + 1
    <2>1. PICK qs \in ApartIn(hits, n) : Cardinality(qs) = best
      BY <1>3
    <2>2. qs \subseteq hits /\ Apart(qs, n) /\ qs \in SUBSET Nat
      BY DEF ApartIn
    <2>3. CASE qs = {}
      <3>1. Cardinality(qs) = 0
        BY <2>3, FS_EmptySet
      <3> QED BY <1>2, <2>1, <3>1
    <2>4. CASE qs # {}
      <3>1. PICK r \in qs : \A k \in qs : k <= r
        <4>1. qs \in SUBSET (0 .. y)
          BY <2>2
        <4> QED BY <2>4, <4>1, GreatestOfSet
      <3>2. IsFiniteSet(qs)
        BY <2>2, SmallSets
      <3>3. IsFiniteSet(qs \ {r}) /\ Cardinality(qs \ {r}) = best - 1
        BY <2>1, <3>2, FS_RemoveElement
      <3>4. qs \ {r} \in ApartIn(R, n)
        <4>1. ASSUME NEW k \in qs \ {r} PROVE k \in R
          <5>1. k \in hits /\ r \in hits /\ k \in Nat /\ r \in Nat /\ k < r /\ r <= m
            BY <2>2, <3>1
          <5>2. k + n <= r
            BY <2>2, <5>1 DEF Apart
          <5> QED BY <1>1, <5>1, <5>2
        <4>2. Apart(qs \ {r}, n)
          BY <2>2 DEF Apart
        <4> HIDE DEF R
        <4> QED BY <4>1, <4>2 DEF ApartIn
      <3> HIDE DEF best, rest
      <3> QED BY <1>2, <1>3, <3>3, <3>4
    <2> QED BY <2>3, <2>4
  <1> HIDE DEF best, rest
  <1>6. best = 1 + rest
    BY <1>2, <1>3, <1>4, <1>5
  <1> QED BY <1>6 DEF best, rest

(* How many occurrences rfind can still find before position e.             *)
Left(t, old, e) == MostApart(Occurrences(t, old, 0, e), Len(old))

LEMMA LeftIs ==
    ASSUME NEW t \in Seq(Nat), NEW old \in Seq(Nat), NEW e \in 0 .. Len(t)
    PROVE  /\ Left(t, old, e) \in Nat
           /\ Left(t, old, e) > 0 => old # <<>> /\ e > 0 /\ Occurrences(t, old, 0, e) # {}
  <1> DEFINE Hits == Occurrences(t, old, 0, e)
             n == Len(old)
  <1>1. n \in Nat /\ e \in Nat /\ (old # <<>> => n >= 1)
    OBVIOUS
  <1>2. Hits \in SUBSET (0 .. e)
    BY OccurrencesAreIn
  <1>3. Hits # {} => old # <<>> /\ e > 0
    <2> SUFFICES ASSUME NEW p \in Hits PROVE old # <<>> /\ e > 0
      OBVIOUS
    <2>1. old # <<>> /\ p \in 0 .. e - n
      BY DEF Occurrences
    <2> HIDE DEF n
    <2> QED BY <1>1, <2>1
  <1> HIDE DEF Hits, n
  <1>4. MostApart(Hits, n) \in Nat /\ MostApart({}, n) = 0
    BY <1>1, <1>2, MostApartIs, NoneApart
  <1>5. MostApart(Hits, n) > 0 => Hits # {}
    <2> SUFFICES ASSUME Hits = {} PROVE ~ (MostApart(Hits, n) > 0)
      OBVIOUS
    <2>1. MostApart(Hits, n) = 0
      BY <1>4
    <2> QED BY <2>1
  <1> QED BY <1>3, <1>4, <1>5 DEF Left, Hits, n

(* One more is found, the last, and one less is left before it.             *)
LEMMA RfindTakesOne ==
    ASSUME NEW t \in Seq(Nat), NEW old \in Seq(Nat), NEW e \in 0 .. Len(t), Left(t, old, e) > 0
    PROVE  LET p == Rfind(t, old, 0, e)
           IN  p \in Nat /\ p + Len(old) <= e /\ p \in 0 .. Len(t) /\ Left(t, old, p) = Left(t, old, e) - 1
  <1> DEFINE Hits == Occurrences(t, old, 0, e)
             n == Len(old)
             p == Rfind(t, old, 0, e)
  <1>1. n \in Nat \ {0} /\ e \in Nat /\ e > 0 /\ old # <<>> /\ Hits # {} /\ Len(t) \in Nat /\ e <= Len(t)
    BY LeftIs
  <1>2. Hits \in SUBSET (0 .. e) /\ Hits = {k \in 0 .. e - n : Occurs(t, old, k)}
    BY <1>1, OccurrencesAreIn, OccurrencesIs
  <1>3. p = LastOf(Hits)
    <2>1. Bound(0, Len(t)) = 0 /\ EndBound(e, Len(t)) = e
      BY <1>1 DEF Bound, EndBound
    <2>2. Bound(0, Len(t)) \in Nat /\ EndBound(e, Len(t)) \in 0 .. Len(t)
      BY <1>1, <2>1
    <2> QED BY <2>1, <2>2, RfindIs
  <1> HIDE DEF Hits, p
  <1>4. p \in Hits /\ \A k \in Hits : k <= p
    BY <1>1, <1>2, <1>3, LastOfIs
  <1>5. p \in 0 .. e - n
    BY <1>2, <1>4
  <1> HIDE DEF n
  <1>6. p \in Nat /\ p + n <= e /\ p \in 0 .. Len(t)
    BY <1>1, <1>5
  <1>7. MostApart(Hits, n) = 1 + MostApart({k \in Hits : k + n <= p}, n)
    <2>1. Hits \in SUBSET (0 .. e) /\ e \in Nat /\ n \in Nat \ {0}
      BY <1>1, <1>2 DEF n
    <2> QED BY ONLY <2>1, <1>4, LastIsChosen, ZenonT(30)
  <1>8. Occurrences(t, old, 0, p) = {k \in Hits : k + n <= p}
    <2>1. Occurrences(t, old, 0, p) = {k \in 0 .. p - n : Occurs(t, old, k)}
      BY <1>1, OccurrencesIs DEF n
    <2>2. \A k \in 0 .. p - n : k \in 0 .. e - n /\ k + n <= p
      BY <1>1, <1>6
    <2>3. \A k \in 0 .. e - n : k + n <= p => k \in 0 .. p - n
      BY <1>1, <1>6
    <2> QED BY <1>2, <2>1, <2>2, <2>3
  <1>9. Left(t, old, p) = Left(t, old, e) - 1
    <2>1. Left(t, old, p) \in Nat
      BY <1>6, LeftIs
    <2>2. Left(t, old, e) = 1 + Left(t, old, p)
      BY <1>7, <1>8 DEF Left, Hits, n
    <2> QED BY <2>1, <2>2
  <1> QED BY <1>6, <1>9 DEF p, n

(* It does not look behind e.                                               *)
LEMMA RfindLooksBefore ==
    ASSUME NEW t \in Seq(Nat), NEW u \in Seq(Nat), Len(u) = Len(t), NEW old \in Seq(Nat),
           NEW e \in 1 .. Len(t), \A k \in 1 .. e : u[k] = t[k]
    PROVE  Rfind(u, old, 0, e) = Rfind(t, old, 0, e)
  <1> DEFINE n == Len(old)
  <1>1. n \in Nat /\ e \in Nat /\ e > 0 /\ Len(t) \in Nat /\ e <= Len(t)
    OBVIOUS
  <1>2. Bound(0, Len(t)) = 0 /\ EndBound(e, Len(t)) = e
    BY <1>1 DEF Bound, EndBound
  <1>3. Bound(0, Len(t)) \in Nat /\ EndBound(e, Len(t)) \in 0 .. Len(t)
    BY <1>1, <1>2
  <1>4. /\ Rfind(t, old, 0, e) = LastOf(Occurrences(t, old, 0, e))
        /\ Rfind(u, old, 0, e) = LastOf(Occurrences(u, old, 0, e))
    <2>1. Rfind(t, old, 0, e) = LastOf(Occurrences(t, old, 0, e))
      BY <1>2, <1>3, RfindIs
    <2>2. Bound(0, Len(u)) = 0 /\ EndBound(e, Len(u)) = e
          /\ Bound(0, Len(u)) \in Nat /\ EndBound(e, Len(u)) \in 0 .. Len(u)
      BY <1>2, <1>3
    <2>3. Rfind(u, old, 0, e) = LastOf(Occurrences(u, old, 0, e))
      BY <2>2, RfindIs
    <2> QED BY <2>1, <2>3
  <1>5. Occurrences(u, old, 0, e) = Occurrences(t, old, 0, e)
    <2>1. ASSUME NEW p \in 0 .. e - n PROVE Occurs(u, old, p) <=> Occurs(t, old, p)
      <3> HIDE DEF n
      <3>1. p \in Nat /\ p + n <= e /\ p + n <= Len(t)
        BY <1>1
      <3>2. p + Len(old) <= Len(t) /\ p + Len(old) <= Len(u)
        BY <3>1 DEF n
      <3>3. /\ Occurs(t, old, p) <=> Matches(t, old, p)
            /\ Occurs(u, old, p) <=> Matches(u, old, p)
        BY <3>1, <3>2, OccursIs
      <3>4. \A k \in 1 .. n : u[p + k] = t[p + k]
        <4>1. \A k \in 1 .. n : p + k \in 1 .. e
          BY <1>1, <3>1
        <4> QED BY <4>1
      <3> QED BY <3>3, <3>4 DEF Matches, n
    <2> QED BY <2>1 DEF Occurrences
  <1> QED BY <1>4, <1>5

(* So with Count, from the left, as many as there are from the right.       *)
LEMMA CountIsLeft ==
    ASSUME NEW t \in Seq(Nat), NEW old \in Seq(Nat)
    PROVE  Count(t, old, 0, Len(t)) = Left(t, old, Len(t))
  <1>1. Len(t) \in Nat
    OBVIOUS
  <1>2. Bound(0, Len(t)) = 0 /\ EndBound(Len(t), Len(t)) = Len(t)
    BY <1>1, BoundsOf
  <1>3. Bound(0, Len(t)) \in Nat /\ EndBound(Len(t), Len(t)) \in 0 .. Len(t)
    BY <1>1, <1>2
  <1> QED BY <1>2, <1>3, CountIs DEF Left

LEMMA OneRest ==
    ASSUME NEW n \in Nat, n > 0, NEW a \in Int, NEW b \in Int, NEW r \in 0 .. n - 1, a = n * b + r
    PROVE  a % n = r
  <1> DEFINE c == a \div n
             s == a % n
  <1>1. c \in Int /\ s \in 0 .. n - 1 /\ a = n * c + s
    OBVIOUS
  <1> HIDE DEF c, s
  <1>2. n * (b - c) = s - r
    BY <1>1
  <1>3. ASSUME NEW e \in Int, e >= 1 PROVE n * e >= n
    BY <1>3
  <1>4. ~ (b - c >= 1)
    BY <1>1, <1>2, <1>3
  <1>5. n * (c - b) = r - s
    BY <1>1
  <1>6. ~ (c - b >= 1)
    BY <1>1, <1>3, <1>5
  <1>7. b = c
    BY <1>1, <1>4, <1>6
  <1> QED BY <1>1, <1>7 DEF s

(* A place below 0 counts round from the end: it is taken modulo the size.  *)
LEMMA PlaceBelow ==
    ASSUME NEW n \in Nat \ {0}, NEW loc \in Int, loc < 0
    PROVE  Position(loc, n) = loc % n /\ loc % n \in 0 .. n - 1
  <1> DEFINE q == Quot(loc + 1, n)
             r == Rem(loc + 1, n)
  <1>1. r \in 1 - n .. 0
    BY Truncated
  <1>2. q \in Int
    <2>1. Abs(loc + 1) \in Nat /\ Abs(n) = n /\ n \in Nat \ {0}
      BY DEF Abs
    <2>2. Abs(loc + 1) \div n \in Int
      BY <2>1, DividesInto
    <2> DEFINE k == Abs(loc + 1) \div n
    <2>3. q \in {k, - k}
      BY <2>1 DEF Quot
    <2> HIDE DEF q
    <2> QED BY <2>2, <2>3
  <1>3. r = (loc + 1) - n * q
    BY DEF Rem
  <1> DEFINE p == n - 1 + r
             b == q - 1
  <1>4. Position(loc, n) = p
    BY DEF Position
  <1> HIDE DEF q, r
  <1>5. p \in 0 .. n - 1 /\ b \in Int
    BY <1>1, <1>2
  <1>6. loc = n * b + p
    <2>1. n * b = n * q - n /\ n * q \in Int
      BY <1>2
    <2> HIDE DEF b
    <2> QED BY <1>1, <1>2, <1>3, <2>1
  <1> HIDE DEF p, b
  <1>7. loc % n = p
    BY <1>5, <1>6, OneRest
  <1> QED BY <1>4, <1>5, <1>7

(* count counts some where there is one.                                    *)
LEMMA CountsSome ==
    ASSUME NEW s \in Seq(Nat), NEW sub \in Seq(Nat), NEW e \in {0, Len(s)}
    PROVE  Count(s, sub, 0, e) > 0 <=> Occurrences(s, sub, 0, Len(s)) # {}
  <1> DEFINE Hits == Occurrences(s, sub, 0, Len(s))
             n == Len(sub)
  <1>0. Len(s) \in Nat /\ n \in Nat /\ (sub # <<>> => n \in Nat \ {0})
    OBVIOUS
  <1>1. Bound(0, Len(s)) = 0 /\ EndBound(e, Len(s)) = Len(s)
    BY <1>0 DEF Bound, EndBound
  <1>2. Count(s, sub, 0, e) = MostApart(Hits, n)
    <2>1. Bound(0, Len(s)) \in Nat /\ EndBound(e, Len(s)) \in 0 .. Len(s)
      BY <1>0, <1>1
    <2> QED BY <1>1, <2>1, CountIs
  <1>3. Hits \in SUBSET (0 .. Len(s)) /\ (Hits # {} => n \in Nat \ {0})
    <2>1. Hits # {} => sub # <<>>
      BY DEF Occurrences
    <2> QED BY <1>0, <2>1, OccurrencesAreIn
  <1> HIDE DEF Hits, n
  <1>4. CASE Hits = {}
    <2>1. MostApart({}, n) = 0
      BY <1>0, NoneApart
    <2>2. Count(s, sub, 0, e) = 0
      BY <1>2, <1>4, <2>1
    <2> QED BY <1>4, <2>2 DEF Hits
  <1>5. CASE Hits # {}
    <2>1. PICK m \in Hits : \A k \in Hits : k <= m
      BY <1>0, <1>3, <1>5, GreatestOfSet
    <2> DEFINE rest == {k \in Hits : k + n <= m}
    <2>2. MostApart(Hits, n) = 1 + MostApart(rest, n)
      BY <1>0, <1>3, <1>5, <2>1, LastIsChosen, ZenonT(30)
    <2>3. rest \in SUBSET (0 .. Len(s))
      BY <1>3
    <2> HIDE DEF rest
    <2>4. MostApart(rest, n) \in Nat
      BY <1>0, <2>3, MostApartIs
    <2> QED BY <1>2, <1>5, <2>2, <2>4 DEF Hits
  <1> QED BY <1>4, <1>5

LEMMA StartsIsPrefix ==
    ASSUME NEW s \in Seq(Nat), NEW t \in Seq(Nat)
    PROVE  StartsWith(s, t) <=> IsPrefix(t, s)
  <1>0. Len(s) \in Nat /\ Len(t) \in Nat
    OBVIOUS
  <1>1. CASE Len(t) <= Len(s)
    <2> DEFINE u == SubSeq(s, 1, Len(t))
    <2>1. u \in Seq(Nat) /\ Len(u) = Len(t) /\ \A k \in 1 .. Len(t) : u[k] = s[k]
      BY <1>0, <1>1
    <2>2. SubSeq(t, 1, Len(t)) = t
      OBVIOUS
    <2> HIDE DEF u
    <2>3. ASSUME \A k \in 1 .. Len(t) : s[k] = t[k] PROVE t = u
      <3>1. \A k \in 1 .. Len(u) : t[k] = u[k]
        BY <2>1, <2>3
      <3> QED BY <2>1, <3>1, SeqEqual
    <2>4. ASSUME t = u PROVE \A k \in 1 .. Len(t) : s[k] = t[k]
      BY <2>1, <2>4
    <2> QED BY <1>1, <2>2, <2>3, <2>4 DEF StartsWith, IsPrefix, u
  <1>2. CASE ~ (Len(t) <= Len(s))
    BY <1>2 DEF StartsWith, IsPrefix
  <1> QED BY <1>1, <1>2

LEMMA ReversedIs ==
    ASSUME NEW s \in Seq(Nat)
    PROVE  /\ Reverse(s) \in Seq(Nat) /\ Len(Reverse(s)) = Len(s)
           /\ \A k \in 1 .. Len(s) : Reverse(s)[k] = s[Len(s) + 1 - k]
  <1>1. Len(s) \in Nat /\ \A k \in 1 .. Len(s) : Len(s) - k + 1 \in 1 .. Len(s) /\ Len(s) + 1 - k \in 1 .. Len(s)
    OBVIOUS
  <1>2. \A k \in 1 .. Len(s) : (Len(s) - k) + 1 = Len(s) + 1 - k /\ s[Len(s) + 1 - k] \in Nat
    BY <1>1
  <1> QED BY <1>1, <1>2 DEF Reverse

LEMMA EndsIsSuffix ==
    ASSUME NEW s \in Seq(Nat), NEW t \in Seq(Nat)
    PROVE  EndsWith(s, t) <=> IsPrefix(Reverse(t), Reverse(s))
  <1> DEFINE m == Len(s)
             n == Len(t)
             r == Reverse(s)
             u == Reverse(t)
  <1>1. m \in Nat /\ n \in Nat
    OBVIOUS
  <1>2. /\ r \in Seq(Nat) /\ Len(r) = m /\ \A k \in 1 .. m : r[k] = s[m + 1 - k]
        /\ u \in Seq(Nat) /\ Len(u) = n /\ \A k \in 1 .. n : u[k] = t[n + 1 - k]
    BY ReversedIs
  <1> HIDE DEF r, u
  <1>3. IsPrefix(u, r) <=> StartsWith(r, u)
    BY <1>2, StartsIsPrefix
  <1>4. StartsWith(r, u) <=> n <= m /\ \A k \in 1 .. n : r[k] = u[k]
    BY <1>2 DEF StartsWith
  <1>5. CASE n <= m
    <2> HIDE DEF m, n
    <2>1. \A k \in 1 .. n : r[k] = s[m + 1 - k] /\ u[k] = t[n + 1 - k]
      BY <1>1, <1>2, <1>5
    <2>2. ASSUME \A k \in 1 .. n : r[k] = u[k] PROVE \A k \in 1 .. n : s[m - n + k] = t[k]
      <3> SUFFICES ASSUME NEW k \in 1 .. n PROVE s[m - n + k] = t[k]
        OBVIOUS
      <3> DEFINE l == n + 1 - k
      <3>1. l \in 1 .. n /\ m + 1 - l = m - n + k /\ n + 1 - l = k
        BY <1>1
      <3> HIDE DEF l
      <3> QED BY <2>1, <2>2, <3>1
    <2>3. ASSUME \A k \in 1 .. n : s[m - n + k] = t[k] PROVE \A k \in 1 .. n : r[k] = u[k]
      <3> SUFFICES ASSUME NEW k \in 1 .. n PROVE r[k] = u[k]
        OBVIOUS
      <3> DEFINE l == n + 1 - k
      <3>1. l \in 1 .. n /\ m - n + l = m + 1 - k
        BY <1>1
      <3> HIDE DEF l
      <3>2. s[m - n + l] = t[l]
        BY <2>3, <3>1
      <3> QED BY <2>1, <3>1, <3>2 DEF l
    <2> QED BY <1>3, <1>4, <1>5, <2>2, <2>3 DEF EndsWith, m, n, r, u
  <1>6. CASE ~ (n <= m)
    BY <1>3, <1>4, <1>6 DEF EndsWith, r, u
  <1> QED BY <1>5, <1>6

(* The one begins with the other. *)
Begins(s, t) == Len(t) <= Len(s) /\ \A k \in 1 .. Len(t) : s[k] = t[k]

(* What a concatenation is part by part.                                    *)
Adds(f, ps) == /\ f \in [0 .. Len(ps) -> Seq(Nat)] /\ f[0] = <<>>
               /\ \A r \in 1 .. Len(ps) : f[r] = f[r - 1] \o ps[r]

LEMMA FlattenAdds ==
    ASSUME NEW ps \in Seq(Seq(Nat))
    PROVE  \E f : Adds(f, ps) /\ FlattenSeq(ps) = f[Len(ps)]
  <1> DEFINE n == Len(ps)
  <1>0. n \in Nat
    OBVIOUS
  <1>1. CASE n = 0
    <2> DEFINE f == [r \in 0 .. n |-> <<>>]
    <2>0. ps = <<>>
      BY <1>1
    <2>1. f \in [0 .. n -> Seq(Nat)] /\ f[0] = <<>> /\ f[n] = <<>> /\ 1 .. n = {}
      BY <1>1
    <2>2. FlattenSeq(ps) = <<>>
      BY <1>1, <2>0, Zenon DEF FlattenSeq
    <2> HIDE DEF f
    <2> QED BY <2>1, <2>2 DEF Adds
  <1>2. CASE n # 0
    <2>1. PICK g \in [1 .. n -> Seq(Nat)] : Concatenates(g, ps, n) /\ FlattenSeq(ps) = g[n]
      BY <1>2, FlattenExists
    <2> DEFINE f == [r \in 0 .. n |-> IF r = 0 THEN <<>> ELSE g[r]]
    <2>2. f \in [0 .. n -> Seq(Nat)] /\ f[0] = <<>> /\ f[n] = g[n]
      <3>1. ASSUME NEW r \in 0 .. n, r # 0 PROVE g[r] \in Seq(Nat)
        <4>1. r \in 1 .. n
          BY <1>0, <3>1
        <4> QED BY <4>1
      <3>2. 0 \in 0 .. n /\ n \in 0 .. n
        BY <1>0
      <3> HIDE DEF n
      <3> QED BY <1>2, <3>1, <3>2
    <2>3. ASSUME NEW r \in 1 .. n PROVE f[r] = f[r - 1] \o ps[r]
      <3>1. CASE r = 1
        <4>1. f[1] = g[1] /\ f[r - 1] = <<>> /\ g[1] = ps[1] /\ ps[1] \in Seq(Nat)
          BY <1>0, <2>1, <3>1 DEF Concatenates
        <4> HIDE DEF f
        <4> DEFINE x == ps[1]
        <4>2. x \in Seq(Nat) /\ f[r] = x /\ f[r - 1] = <<>> /\ ps[r] = x
          BY <3>1, <4>1
        <4> HIDE DEF x
        <4>3. <<>> \o x = x
          BY <4>2
        <4> QED BY <4>2, <4>3
      <3>2. CASE r # 1
        <4>1. r \in 2 .. n /\ r - 1 \in 0 .. n /\ r - 1 # 0 /\ r \in 0 .. n /\ r # 0
          BY <1>0, <3>2
        <4>2. g[r] = g[r - 1] \o ps[r]
          BY <2>1, <4>1 DEF Concatenates
        <4> QED BY <4>1, <4>2
      <3> QED BY <3>1, <3>2
    <2> HIDE DEF f
    <2> QED BY <2>1, <2>2, <2>3 DEF Adds
  <1> QED BY <1>1, <1>2

LEMMA AddsBegins ==
    ASSUME NEW ps \in Seq(Seq(Nat)), NEW f, Adds(f, ps)
    PROVE  \A r \in 0 .. Len(ps) : Begins(f[Len(ps)], f[r])
  <1> DEFINE n == Len(ps)
             S == {TRUE}
             h == [i \in 0 .. n |-> Begins(f[n], f[n - i])]
  <1>0. n \in Nat /\ \A r \in 0 .. n : f[r] \in Seq(Nat) /\ Len(f[r]) \in Nat
    BY DEF Adds
  <1>1. ASSUME NEW r \in 1 .. n
        PROVE  Len(f[r - 1]) <= Len(f[r]) /\ \A k \in 1 .. Len(f[r - 1]) : f[r][k] = f[r - 1][k]
    <2> DEFINE a == f[r - 1]
               b == ps[r]
    <2>1. a \in Seq(Nat) /\ b \in Seq(Nat) /\ f[r] = a \o b
      <3>1. r - 1 \in 0 .. n
        BY <1>0
      <3>2. a \in Seq(Nat)
        BY <1>0, <3>1
      <3>3. b \in Seq(Nat)
        OBVIOUS
      <3>4. f[r] = f[r - 1] \o ps[r]
        BY DEF Adds
      <3> QED BY <3>2, <3>3, <3>4
    <2> HIDE DEF a, b
    <2>2. Len(a) <= Len(a \o b) /\ \A k \in 1 .. Len(a) : (a \o b)[k] = a[k]
      BY <2>1
    <2> QED BY <2>1, <2>2 DEF a
  <1>2. h[0] \in S
    <2>1. 0 \in 0 .. n /\ n - 0 = n /\ n \in 0 .. n
      BY <1>0
    <2>2. Begins(f[n], f[n])
      BY <1>0, <2>1 DEF Begins
    <2> QED BY <2>1, <2>2
  <1>3. ASSUME NEW i \in 1 .. n, h[i - 1] \in S PROVE h[i] \in S
    <2> DEFINE r == n - (i - 1)
    <2>1. r \in 1 .. n /\ r \in 0 .. n /\ r - 1 \in 0 .. n /\ r - 1 = n - i /\ i \in 0 .. n
          /\ i - 1 \in 0 .. n /\ n \in 0 .. n
      BY <1>0
    <2>2. Begins(f[n], f[r])
      BY <1>3, <2>1
    <2> HIDE DEF r
    <2>3. Begins(f[n], f[r - 1])
      <3>1. Len(f[r - 1]) \in Nat /\ Len(f[r]) \in Nat /\ Len(f[n]) \in Nat
        BY <1>0, <2>1
      <3>2. Len(f[r - 1]) <= Len(f[r]) /\ \A k \in 1 .. Len(f[r - 1]) : f[r][k] = f[r - 1][k]
        BY <1>1, <2>1
      <3>3. \A k \in 1 .. Len(f[r - 1]) : k \in 1 .. Len(f[r])
        BY <3>1, <3>2
      <3> HIDE DEF n
      <3> QED BY <2>2, <3>1, <3>2, <3>3 DEF Begins
    <2> QED BY <2>1, <2>3
  <1> HIDE DEF S
  <1>4. \A i \in 0 .. n : h[i] \in S
    <2> HIDE DEF h, n
    <2> QED BY <1>0, <1>2, <1>3, StaysIn
  <1> SUFFICES ASSUME NEW r \in 0 .. n PROVE Begins(f[n], f[r])
    OBVIOUS
  <1>5. n - r \in 0 .. n /\ n - (n - r) = r
    BY <1>0
  <1> QED BY <1>4, <1>5 DEF S

LEMMA BehindFirst ==
    ASSUME NEW p \in Seq(Nat), NEW x \in Seq(Nat), NEW k \in 1 .. Len(x)
    PROVE  (p \o x)[Len(p) + k] = x[k]
  <1>1. Len(p) \in Nat /\ Len(x) \in Nat
    OBVIOUS
  <1>2. Len(p) + k \in 1 .. Len(p) + Len(x) /\ Len(p) + k > Len(p) /\ (Len(p) + k) - Len(p) = k
    BY <1>1
  <1> QED BY <1>2

(* From where is written next on, the buffer holds the text w.              *)
TextFrom(v, w) == \A i \in v.write .. Len(w) - 1 : v.buf.cells[i] = w[i + 1]

LEMMA Divided ==
    ASSUME NEW t \in Nat \ {0}, NEW e \in Nat, e % t = 0
    PROVE  \E q \in Nat : e = q * t
  <1> DEFINE q == e \div t
  <1>1. q \in Nat
    OBVIOUS
  <1>2. q \in Int /\ e = t * q + (e % t)
    OBVIOUS
  <1> HIDE DEF q
  <1>3. e = q * t
    BY <1>1, <1>2
  <1> QED BY <1>1, <1>3

(* There are c steps of t from a on up to last.                             *)
UpTo(a, last, t, c) == \A k \in Nat : last - (a + k * t) > 0 <=> k < c

LEMMA StepsTake ==
    ASSUME NEW a \in Nat, NEW last \in Nat, a < last, NEW t \in Nat \ {0}, NEW c \in Nat,
           UpTo(a, last, t, c)
    PROVE  Cardinality({p \in a .. last - 1 : (p - a) % t = 0}) = c
  <1> DEFINE taken == {p \in a .. last - 1 : (p - a) % t = 0}
             f == [k \in 1 .. c |-> a + (k - 1) * t]
  <1>0. \A k \in Nat : last - (a + k * t) > 0 <=> k < c
    BY DEF UpTo
  <1>1. ASSUME NEW k \in 1 .. c PROVE f[k] \in taken
    <2> DEFINE j == k - 1
               e == j * t
    <2>1. j \in Nat /\ j < c
      OBVIOUS
    <2> HIDE DEF j
    <2>2. e \in Nat /\ e = t * j + 0
      BY <2>1
    <2>3. last - (a + e) > 0
      BY <1>0, <2>1
    <2>4. e % t = 0
      BY <2>1, <2>2, OneRest, 0 \in 0 .. t - 1
    <2> HIDE DEF e
    <2>5. a + e \in a .. last - 1 /\ (a + e) - a = e
      BY <2>2, <2>3
    <2>6. f[k] = a + e
      BY DEF e, j
    <2> QED BY <2>4, <2>5, <2>6
  <1>2. ASSUME NEW p \in taken PROVE \E k \in 1 .. c : f[k] = p
    <2> DEFINE e == p - a
    <2>1. e \in Nat /\ e % t = 0 /\ p = a + e /\ p \in a .. last - 1
      OBVIOUS
    <2> HIDE DEF e
    <2>2. PICK q \in Nat : e = q * t
      BY <2>1, Divided
    <2> DEFINE x == q * t
    <2>3. last - (a + x) > 0 /\ x = e
      BY <2>1, <2>2
    <2>4. q < c
      BY <1>0, <2>3
    <2> HIDE DEF x
    <2>5. q + 1 \in 1 .. c /\ (q + 1) - 1 = q
      BY <2>2, <2>4
    <2>6. f[q + 1] = a + x
      BY <2>5 DEF x
    <2> HIDE DEF f
    <2>7. f[q + 1] = p
      BY <2>1, <2>3, <2>6
    <2> QED BY <2>5, <2>7
  <1>3. ASSUME NEW k \in 1 .. c, NEW j \in 1 .. c, f[k] = f[j] PROVE k = j
    <2> DEFINE u == (k - 1) * t
               v == (j - 1) * t
    <2>1. u \in Int /\ v \in Int /\ a + u = a + v
      BY <1>3
    <2>2. u = v
      BY <2>1
    <2> DEFINE b == k - 1
               d == j - 1
    <2>3. b \in Nat /\ d \in Nat /\ t * b = t * d /\ k = b + 1 /\ j = d + 1
      BY <2>2
    <2> HIDE DEF b, d, u, v
    <2>4. ASSUME NEW g \in Int, g >= 1 PROVE t * g >= 1
      BY <2>4
    <2>5. t * (b - d) = 0 /\ t * (d - b) = 0
      BY <2>3
    <2>6. ~ (b - d >= 1) /\ ~ (d - b >= 1)
      BY <2>3, <2>4, <2>5
    <2> QED BY <2>3, <2>6
  <1>4. f \in [1 .. c -> taken]
    <2> DEFINE y(k) == a + (k - 1) * t
    <2>1. \A k \in 1 .. c : y(k) \in taken
      BY <1>1
    <2>2. f = [k \in 1 .. c |-> y(k)]
      OBVIOUS
    <2> HIDE DEF f, y, taken
    <2> QED BY <2>1, <2>2
  <1> HIDE DEF f, taken
  <1>5. f \in Surjection(1 .. c, taken)
    BY <1>2, <1>4 DEF Surjection
  <1>6. f \in Injection(1 .. c, taken)
    BY <1>3, <1>4 DEF Injection, IsInjective
  <1>7. IsFiniteSet(1 .. c) /\ Cardinality(1 .. c) = c
    BY FS_Interval
  <1> QED BY <1>5, <1>6, <1>7, FS_Surjection DEF taken

LEMMA SliceErrs ==
    ASSUME NEW s \in Seq(Nat), s # <<>>, NEW start \in Nat, NEW end \in Nat, NEW step \in Nat
    PROVE  SliceIsError(s, start, end, step) <=> start >= (IF end = 0 THEN Len(s) ELSE end)
  <1> DEFINE last == IF end = 0 THEN Len(s) ELSE end
  <1>1. last \in Nat
    OBVIOUS
  <1>2. /\ SliceStart(start, Len(s)) = start /\ Dir(step) = 1
        /\ SliceEnd(end, step, Len(s)) = last
    BY DEF SliceStart, Position, Dir, SliceEnd
  <1> HIDE DEF last
  <1>3. SliceIsError(s, start, end, step) <=> start >= last
    BY <1>1, <1>2 DEF SliceIsError
  <1> QED BY <1>3 DEF last

(* What is cut off the front or the end of one or two parts.                *)
LEMMA FewParts ==
    ASSUME NEW S, NEW ta \in S, NEW tb \in S
    PROVE  /\ SubSeq(<<ta>>, 2, 1) = <<>>
           /\ SubSeq(<<ta, tb>>, 2, 2) = <<tb>>
           /\ SubSeq(<<ta, tb>>, 1, 1) = <<ta>>
           /\ SubSeq(<<ta, tb>>, 3, 2) = <<>>
  <1>1. SubSeq(<<ta>>, 2, 1) = <<>> /\ SubSeq(<<ta, tb>>, 3, 2) = <<>>
    <2>1. ASSUME NEW s \in Seq(S) PROVE SubSeq(s, Len(s) + 1, Len(s)) = <<>>
      OBVIOUS
    <2> DEFINE r == <<ta>>
               p == <<ta, tb>>
    <2>2. r \in Seq(S) /\ Len(r) = 1 /\ p \in Seq(S) /\ Len(p) = 2 /\ 1 + 1 = 2 /\ 2 + 1 = 3
      OBVIOUS
    <2> HIDE DEF r, p
    <2>3. SubSeq(r, 2, 1) = <<>> /\ SubSeq(p, 3, 2) = <<>>
      BY <2>1, <2>2, Zenon
    <2> QED BY <2>3 DEF r, p
  <1>2. ASSUME NEW s \in Seq(S), NEW m \in 1 .. Len(s) PROVE SubSeq(s, m, m) = <<s[m]>>
    <2> DEFINE q == SubSeq(s, m, m)
    <2>1. q \in Seq(S) /\ Len(q) = 1
      OBVIOUS
    <2>2. q[1] = s[m]
      OBVIOUS
    <2> HIDE DEF q
    <2>3. q = <<s[m]>>
      BY <2>1, <2>2
    <2> QED BY <2>3 DEF q
  <1>3. <<ta, tb>>[1] = ta /\ <<ta, tb>>[2] = tb /\ <<ta, tb>> \in Seq(S) /\ Len(<<ta, tb>>) = 2
    OBVIOUS
  <1> DEFINE p == <<ta, tb>>
  <1> HIDE DEF p
  <1>4. p \in Seq(S) /\ 1 \in 1 .. Len(p) /\ 2 \in 1 .. Len(p) /\ p[1] = ta /\ p[2] = tb
    BY <1>3 DEF p
  <1>5. SubSeq(p, 1, 1) = <<p[1]>> /\ SubSeq(p, 2, 2) = <<p[2]>>
    BY <1>2, <1>4, Zenon
  <1>6. SubSeq(p, 1, 1) = <<ta>> /\ SubSeq(p, 2, 2) = <<tb>>
    BY <1>4, <1>5
  <1> QED BY <1>1, <1>6 DEF p

(* Where the first separator is from a on.                                  *)
FirstSep(s, sep, a) == FirstOf(Occurrences(s, sep, a, Len(s)))

(* f gives the pieces of what of s is behind each position.                 *)
CutsUp(f, s, sep) ==
    \A a \in 0 .. Len(s) :
        \/ /\ Occurrences(s, sep, a, Len(s)) = {}
           /\ f[a] = << Window(s, a, Len(s) - a) >>
        \/ /\ Occurrences(s, sep, a, Len(s)) # {} /\ Len(sep) >= 1
           /\ FirstSep(s, sep, a) \in a .. Len(s) - Len(sep) /\ Occurs(s, sep, FirstSep(s, sep, a))
           /\ f[a] = << Window(s, a, FirstSep(s, sep, a) - a) >>
                        \o f[FirstSep(s, sep, a) + Len(sep)]

LEMMA FirstSepIs ==
    ASSUME NEW s \in Seq(Nat), NEW sep \in Seq(Nat), NEW a \in 0 .. Len(s)
    PROVE  LET p == FirstSep(s, sep, a)
           IN  \/ Occurrences(s, sep, a, Len(s)) = {} /\ p = -1
               \/ /\ Occurrences(s, sep, a, Len(s)) # {} /\ Len(sep) >= 1
                  /\ p \in a .. Len(s) - Len(sep) /\ Occurs(s, sep, p)
  <1> DEFINE O == Occurrences(s, sep, a, Len(s))
  <1>0. Len(s) \in Nat /\ Len(sep) \in Nat /\ (sep # <<>> => Len(sep) >= 1)
    OBVIOUS
  <1>1. sep # <<>> => O = {q \in a .. Len(s) - Len(sep) : Occurs(s, sep, q)}
    BY OccurrencesIs
  <1>2. O # {} => sep # <<>>
    BY DEF Occurrences
  <1>3. O \in SUBSET Nat
    BY <1>0, <1>1, <1>2
  <1> HIDE DEF O
  <1>4. CASE O = {}
    BY <1>3, <1>4, FirstOfIs DEF FirstSep, O
  <1>5. CASE O # {}
    <2>1. FirstOf(O) \in O
      BY <1>3, <1>5, FirstOfIs
    <2> QED BY <1>0, <1>1, <1>2, <1>5, <2>1 DEF FirstSep, O
  <1> QED BY <1>4, <1>5

(* The pieces are found one behind the other.                               *)
LEMMA PiecesCut ==
    ASSUME NEW s \in Seq(Nat), NEW sep \in Seq(Nat)
    PROVE  \E f \in [0 .. Len(s) -> Seq(Seq(Nat))] : CutsUp(f, s, sep) /\ Pieces(s, sep) = f[0]
  <1> DEFINE n == Len(s)
             m == Len(sep)
             P(a) == FirstSep(s, sep, a)
             X(a) == << Window(s, a, n - a) >>
             Y(a) == << Window(s, a, P(a) - a) >>
             G(f, a) == IF P(a) < 0 THEN X(a) ELSE Y(a) \o f[P(a) + m]
             F(f) == [a \in 0 .. n |-> G(f, a)]
             u == CHOOSE f : f = F(f)
             l == n + 1
             says == [w \in 1 .. l |-> IF P(w - 1) < 0 THEN X(w - 1) ELSE Y(w - 1)]
             next == [w \in 1 .. l |-> IF P(w - 1) < 0 THEN 0 ELSE P(w - 1) + m + 1]
  <1>0. n \in Nat /\ m \in Nat /\ l \in Nat
    OBVIOUS
  <1>1. Pieces(s, sep) = u[0]
    BY Zenon DEF Pieces, FirstSep
  <1>2. ASSUME NEW a \in 0 .. n
        PROVE  \/ P(a) = -1
               \/ m >= 1 /\ P(a) \in a .. n - m
    BY FirstSepIs
  <1>3. ASSUME NEW a \in 0 .. n
        PROVE  X(a) \in Seq(Seq(Nat)) /\ (P(a) >= 0 => Y(a) \in Seq(Seq(Nat)))
    <2>1. a \in Nat /\ n - a \in Nat /\ a + (n - a) <= n
      BY <1>0
    <2>2. Window(s, a, n - a) \in Seq(Nat)
      BY <2>1, WindowIs
    <2>3. ASSUME P(a) >= 0 PROVE Window(s, a, P(a) - a) \in Seq(Nat)
      <3> DEFINE p == P(a)
      <3>1. (p = -1 \/ (m >= 1 /\ p \in a .. n - m)) /\ p >= 0
        BY <1>2, <2>3
      <3> HIDE DEF p, n, m
      <3>2. p - a \in Nat /\ a + (p - a) <= n
        BY <1>0, <2>1, <3>1
      <3>3. Window(s, a, p - a) \in Seq(Nat)
        BY <2>1, <3>2, WindowIs DEF n
      <3> QED BY <3>3 DEF p
    <2> QED BY <2>2, <2>3
  <1> HIDE DEF P, X, Y, n, m
  <1>4. /\ says \in [1 .. l -> Seq(Seq(Nat))]
        /\ next \in [1 .. l -> 0 .. l]
        /\ \A w \in 1 .. l : next[w] # 0 => next[w] > w
    <2>0. ASSUME NEW w \in 1 .. l
          PROVE  /\ w - 1 \in 0 .. n
                 /\ P(w - 1) < 0 \/ (m >= 1 /\ P(w - 1) \in w - 1 .. n - m)
      <3>1. w - 1 \in 0 .. n
        BY <1>0
      <3> QED BY <1>2, <3>1
    <2>1. ASSUME NEW w \in 1 .. l PROVE (IF P(w - 1) < 0 THEN X(w - 1) ELSE Y(w - 1)) \in Seq(Seq(Nat))
      <3>1. w - 1 \in 0 .. n
        BY <2>0
      <3>2. P(w - 1) < 0 \/ P(w - 1) >= 0
        BY <1>0, <2>0
      <3> QED BY <1>3, <3>1, <3>2
    <2>2. ASSUME NEW w \in 1 .. l
          PROVE  LET q == IF P(w - 1) < 0 THEN 0 ELSE P(w - 1) + m + 1
                 IN  q \in 0 .. l /\ (q # 0 => q > w)
      <3> DEFINE p == P(w - 1)
      <3>1. p < 0 \/ (m >= 1 /\ p \in w - 1 .. n - m)
        BY <2>0
      <3> HIDE DEF p
      <3>2. (IF p < 0 THEN 0 ELSE p + m + 1) \in 0 .. l
        BY <1>0, <3>1
      <3>3. ~ (p < 0) => p + m + 1 > w
        BY <1>0, <3>1
      <3> QED BY <3>2, <3>3 DEF p
    <2> QED BY <2>1, <2>2
  <1> HIDE DEF says, next
  <1>5. ASSUME NEW f, NEW g, \A a \in 0 .. n : f[a] = g[a + 1], NEW w \in 1 .. l
        PROVE  G(f, w - 1) = IF next[w] = 0 THEN says[w] ELSE says[w] \o g[next[w]]
    <2> DEFINE p == P(w - 1)
    <2>1. w - 1 \in 0 .. n
      BY <1>0
    <2>2. p = -1 \/ (m >= 1 /\ p \in w - 1 .. n - m)
      BY <1>2, <2>1
    <2>3. /\ next[w] = IF p < 0 THEN 0 ELSE p + m + 1
          /\ says[w] = IF p < 0 THEN X(w - 1) ELSE Y(w - 1)
      BY DEF next, says
    <2> HIDE DEF p
    <2>4. CASE p = -1
      <3>1. p < 0
        BY <2>4
      <3>2. next[w] = 0 /\ says[w] = X(w - 1)
        BY <2>3, <3>1
      <3>3. G(f, w - 1) = X(w - 1)
        BY <3>1, Zenon DEF p
      <3> HIDE DEF G
      <3> QED BY <3>2, <3>3
    <2>5. CASE m >= 1 /\ p \in w - 1 .. n - m
      <3>1. ~ (p < 0) /\ p + m \in 0 .. n /\ p + m + 1 # 0
        BY <1>0, <2>1, <2>5
      <3>2. next[w] = p + m + 1 /\ says[w] = Y(w - 1)
        BY <2>3, <3>1
      <3>3. G(f, w - 1) = Y(w - 1) \o f[p + m]
        BY <3>1, Zenon DEF p
      <3>4. f[p + m] = g[p + m + 1]
        BY <1>5, <3>1
      <3> HIDE DEF G
      <3> QED BY <3>1, <3>2, <3>3, <3>4
    <2> QED BY <2>2, <2>4, <2>5
  <1> HIDE DEF G
  <1>6. PICK g : GoesOn(g, l, says, next)
    BY <1>0, <1>4, GoesOnFrom
  <1>7. \E f : f = F(f)
    <2> DEFINE f == [a \in 0 .. n |-> g[a + 1]]
    <2>1. \A a \in 0 .. n : f[a] = g[a + 1]
      OBVIOUS
    <2>2. f = [a \in 0 .. n |-> f[a]]
      OBVIOUS
    <2> HIDE DEF f
    <2>3. ASSUME NEW a \in 0 .. n PROVE f[a] = G(f, a)
      <3> DEFINE w == a + 1
      <3>1. w \in 1 .. l /\ w - 1 = a
        BY <1>0
      <3> HIDE DEF w
      <3>2. G(f, w - 1) = IF next[w] = 0 THEN says[w] ELSE says[w] \o g[next[w]]
        BY <1>5, <2>1, <3>1
      <3>3. g[w] = IF next[w] = 0 THEN says[w] ELSE says[w] \o g[next[w]]
        BY <1>6, <3>1 DEF GoesOn
      <3>4. f[a] = g[w]
        BY <2>1 DEF w
      <3> QED BY <3>1, <3>2, <3>3, <3>4
    <2>4. f = F(f)
      BY <2>2, <2>3
    <2> QED BY <2>4
  <1>8. u = F(u)
    <2> HIDE DEF F
    <2> QED BY <1>7
  <1> HIDE DEF u
  <1>9. \A a \in 0 .. n : u[a] = G(u, a)
    BY <1>8
  <1>10. u \in [0 .. n -> Seq(Seq(Nat))]
    <2> DEFINE h == [w \in 1 .. l |-> u[w - 1]]
    <2>1. \A a \in 0 .. n : a + 1 \in 1 .. l /\ a + 1 - 1 = a
      BY <1>0
    <2>2. \A a \in 0 .. n : u[a] = h[a + 1]
      BY <2>1
    <2>3. \A w \in 1 .. l : h[w] = u[w - 1] /\ w - 1 \in 0 .. n
      BY <1>0
    <2>4. h = [w \in 1 .. l |-> h[w]]
      OBVIOUS
    <2> HIDE DEF h
    <2>5. \A w \in 1 .. l : h[w] = IF next[w] = 0 THEN says[w] ELSE says[w] \o h[next[w]]
      BY <1>5, <1>9, <2>2, <2>3, SMTT(30)
    <2>6. GoesOn(h, l, says, next)
      BY <2>4, <2>5 DEF GoesOn
    <2>7. h \in [1 .. l -> Seq(Seq(Nat))]
      BY <1>0, <1>4, <2>6, GoesOnFrom
    <2> QED BY <1>8, <2>1, <2>2, <2>7
  <1>11. CutsUp(u, s, sep)
    <2> SUFFICES ASSUME NEW a \in 0 .. n
                 PROVE  \/ /\ Occurrences(s, sep, a, n) = {}
                           /\ u[a] = X(a)
                        \/ /\ Occurrences(s, sep, a, n) # {} /\ m >= 1
                           /\ P(a) \in a .. n - m /\ Occurs(s, sep, P(a))
                           /\ u[a] = Y(a) \o u[P(a) + m]
      BY Zenon DEF CutsUp, X, Y, P, n, m
    <2>1. \/ Occurrences(s, sep, a, n) = {} /\ P(a) = -1
          \/ /\ Occurrences(s, sep, a, n) # {} /\ m >= 1
             /\ P(a) \in a .. n - m /\ Occurs(s, sep, P(a))
      BY FirstSepIs DEF P, n, m
    <2>2. u[a] = IF P(a) < 0 THEN X(a) ELSE Y(a) \o u[P(a) + m]
      BY <1>9, Zenon DEF G
    <2>3. P(a) \in a .. n - m => ~ (P(a) < 0)
      BY <1>0
    <2>4. P(a) = -1 => P(a) < 0
      OBVIOUS
    <2> QED BY <2>1, <2>2, <2>3, <2>4
  <1> QED BY <1>1, <1>10, <1>11 DEF n

LEMMA Associates ==
    ASSUME NEW x \in Seq(Nat), NEW y \in Seq(Nat), NEW z \in Seq(Nat)
    PROVE  x \o (y \o z) = (x \o y) \o z
  <1> DEFINE u == x \o (y \o z)
             v == (x \o y) \o z
  <1>1. u \in Seq(Nat) /\ v \in Seq(Nat) /\ Len(u) = Len(v)
    OBVIOUS
  <1>2. \A i \in 1 .. Len(u) : u[i] = v[i]
    BY SMTT(30)
  <1> HIDE DEF u, v
  <1>3. u = v
    BY <1>1, <1>2, SeqEqual
  <1> QED BY <1>3 DEF u, v

LEMMA InFront ==
    ASSUME NEW V, NEW x \in V, NEW q \in Seq(V)
    PROVE  /\ <<x>> \o q \in Seq(V) /\ Len(<<x>> \o q) = Len(q) + 1 /\ (<<x>> \o q)[1] = x
           /\ \A i \in 1 .. Len(q) : (<<x>> \o q)[i + 1] = q[i]
  <1>1. ASSUME NEW t \in Seq(V)
        PROVE  /\ t \o q \in Seq(V) /\ Len(t \o q) = Len(t) + Len(q)
               /\ \A j \in 1 .. Len(t) : (t \o q)[j] = t[j]
               /\ \A j \in 1 .. Len(t) + Len(q) : j > Len(t) => (t \o q)[j] = q[j - Len(t)]
    OBVIOUS
  <1> DEFINE e == <<x>>
             u == e \o q
  <1>2. e \in Seq(V) /\ Len(e) = 1 /\ e[1] = x /\ Len(q) \in Nat /\ 1 \in 1 .. 1
    OBVIOUS
  <1> HIDE DEF e, u
  <1>3. /\ u \in Seq(V) /\ Len(u) = 1 + Len(q) /\ u[1] = e[1]
        /\ \A j \in 1 .. 1 + Len(q) : j > 1 => u[j] = q[j - 1]
    <2>1. /\ u \in Seq(V) /\ Len(u) = Len(e) + Len(q)
          /\ \A j \in 1 .. Len(e) : u[j] = e[j]
          /\ \A j \in 1 .. Len(e) + Len(q) : j > Len(e) => u[j] = q[j - Len(e)]
      BY <1>1, <1>2, Zenon DEF u
    <2> QED BY <1>2, <2>1
  <1>4. 1 + Len(q) = Len(q) + 1
    BY <1>2
  <1>5. \A i \in 1 .. Len(q) : i + 1 \in 1 .. 1 + Len(q) /\ i + 1 > 1 /\ i + 1 - 1 = i
    BY <1>2
  <1>6. \A i \in 1 .. Len(q) : u[i + 1] = q[i]
    BY <1>3, <1>5
  <1> QED BY <1>2, <1>3, <1>4, <1>6 DEF u, e

(* The parts of Joined, the separator put before each but the first.        *)
Parts(ps, by) == [i \in DOMAIN ps |-> IF i = 1 THEN ps[1] ELSE by \o ps[i]]

LEMMA PartsAre ==
    ASSUME NEW ps \in Seq(Seq(Nat)), NEW by \in Seq(Nat)
    PROVE  /\ Parts(ps, by) \in Seq(Seq(Nat)) /\ Len(Parts(ps, by)) = Len(ps)
           /\ \A i \in 1 .. Len(ps) : Parts(ps, by)[i] = IF i = 1 THEN ps[1] ELSE by \o ps[i]
           /\ Joined(ps, by) = FlattenSeq(Parts(ps, by))
  <1>1. DOMAIN ps = 1 .. Len(ps) /\ Len(ps) \in Nat
    OBVIOUS
  <1>2. \A i \in 1 .. Len(ps) : (IF i = 1 THEN ps[1] ELSE by \o ps[i]) \in Seq(Nat)
    <2> SUFFICES ASSUME NEW i \in 1 .. Len(ps) PROVE (IF i = 1 THEN ps[1] ELSE by \o ps[i]) \in Seq(Nat)
      OBVIOUS
    <2>1. ps[i] \in Seq(Nat)
      OBVIOUS
    <2> DEFINE t == ps[i]
    <2> HIDE DEF t
    <2>2. t \in Seq(Nat) /\ by \o t \in Seq(Nat)
      BY <2>1 DEF t
    <2> QED BY <2>2 DEF t
  <1>3. Parts(ps, by) \in [1 .. Len(ps) -> Seq(Nat)]
    BY <1>1, <1>2 DEF Parts
  <1>4. Parts(ps, by) \in Seq(Seq(Nat)) /\ Len(Parts(ps, by)) = Len(ps)
    <2> DEFINE q == Parts(ps, by)
    <2>1. q = [k \in 1 .. Len(ps) |-> q[k]] /\ \A k \in 1 .. Len(ps) : q[k] \in Seq(Nat)
      <3> HIDE DEF q
      <3> QED BY <1>3 DEF q
    <2> HIDE DEF q
    <2>2. q \in Seq(Seq(Nat)) /\ Len(q) = Len(ps)
      BY <1>1, <2>1, SeqOfFunction
    <2> QED BY <2>2 DEF q
  <1>5. Joined(ps, by) = FlattenSeq(Parts(ps, by))
    BY Zenon DEF Joined, Parts
  <1>6. \A i \in 1 .. Len(ps) : Parts(ps, by)[i] = IF i = 1 THEN ps[1] ELSE by \o ps[i]
    BY <1>1 DEF Parts
  <1> QED BY <1>4, <1>5, <1>6

(* A part in front of others, of which the first gets something more.       *)
PutInFront(rs, x, by, qs) ==
    /\ Len(qs) >= 1 /\ Len(rs) = Len(qs) + 1
    /\ rs[1] = x /\ rs[2] = by \o qs[1] /\ \A i \in 2 .. Len(qs) : rs[i + 1] = qs[i]

LEMMA FlattenMore ==
    ASSUME NEW x \in Seq(Nat), NEW by \in Seq(Nat), NEW qs \in Seq(Seq(Nat)),
           NEW rs \in Seq(Seq(Nat)), PutInFront(rs, x, by, qs)
    PROVE  FlattenSeq(rs) = x \o (by \o FlattenSeq(qs))
  <1> DEFINE n == Len(qs)
             l == n + 1
  <1>0. /\ n \in Nat /\ n >= 1 /\ l \in Nat /\ n = Len(qs) /\ Len(rs) = l
        /\ rs[1] = x /\ rs[2] = by \o qs[1] /\ \A i \in 2 .. n : rs[i + 1] = qs[i]
    BY DEF PutInFront
  <1> HIDE DEF n
  <1>3. PICK f : Adds(f, qs) /\ FlattenSeq(qs) = f[n]
    BY FlattenAdds DEF n
  <1>4. /\ \A r \in 0 .. n : f[r] \in Seq(Nat)
        /\ f[0] = <<>>
        /\ \A r \in 1 .. n : f[r] = f[r - 1] \o qs[r]
    BY <1>3 DEF Adds, n
  <1> DEFINE g == [i \in 1 .. l |-> IF i = 1 THEN x ELSE x \o (by \o f[i - 1])]
  <1>5. \A r \in 0 .. n : x \o (by \o f[r]) \in Seq(Nat)
    <2> SUFFICES ASSUME NEW r \in 0 .. n PROVE x \o (by \o f[r]) \in Seq(Nat)
      OBVIOUS
    <2> DEFINE t == f[r]
    <2>1. t \in Seq(Nat)
      BY <1>4
    <2> HIDE DEF t
    <2>2. x \o (by \o t) \in Seq(Nat)
      BY <2>1
    <2> QED BY <2>2 DEF t
  <1>6. g \in [1 .. l -> Seq(Nat)] /\ g[1] = x /\ \A i \in 2 .. l : g[i] = x \o (by \o f[i - 1])
    <2>1. \A i \in 1 .. l : i - 1 \in 0 .. n
      BY <1>0
    <2>2. 1 \in 1 .. l
      BY <1>0
    <2>3. \A i \in 2 .. l : i \in 1 .. l /\ i # 1
      BY <1>0
    <2> QED BY <1>5, <2>1, <2>2, <2>3
  <1> HIDE DEF g
  <1>7. g[1] = rs[1]
    BY <1>0, <1>6
  <1>8. ASSUME NEW i \in 2 .. l PROVE g[i] = g[i - 1] \o rs[i]
    <2> DEFINE j == i - 1
               p == qs[j]
               t == f[j - 1]
    <2>1. j \in 1 .. n /\ j + 1 = i /\ j - 1 \in 0 .. n
      BY <1>0
    <2>2. g[i] = x \o (by \o f[j]) /\ f[j] = t \o p
      BY <1>4, <1>6, <2>1
    <2>3. p \in Seq(Nat) /\ t \in Seq(Nat)
      <3>1. j \in 1 .. Len(qs)
        BY <1>0, <2>1
      <3>2. p \in Seq(Nat)
        BY <3>1
      <3> HIDE DEF j
      <3>3. t \in Seq(Nat)
        BY <1>4, <2>1
      <3> QED BY <3>2, <3>3
    <2>4. CASE j = 1
      <3>1. t = <<>> /\ g[i - 1] = x
        BY <1>4, <1>6, <2>4
      <3>3. rs[i] = by \o p
        <4>1. i = 2 /\ p = qs[1]
          BY <2>1, <2>4
        <4> QED BY <1>0, <4>1
      <3> HIDE DEF p, t, j
      <3>2. t \o p = p
        BY <2>3, <3>1
      <3> QED BY <2>2, <3>1, <3>2, <3>3
    <2>5. CASE j # 1
      <3>1. j \in 2 .. n /\ j \in 2 .. l
        BY <1>0, <2>1, <2>5
      <3>2. rs[i] = p /\ g[i - 1] = x \o (by \o t)
        BY <1>0, <1>6, <2>1, <3>1
      <3> HIDE DEF p, t, j
      <3> DEFINE b == by \o t
      <3>3. b \in Seq(Nat)
        BY <2>3
      <3>4. by \o (t \o p) = b \o p
        BY <2>3, Associates
      <3> HIDE DEF b
      <3>5. x \o (b \o p) = (x \o b) \o p
        BY <2>3, <3>3, Associates
      <3>6. g[i] = x \o (b \o p)
        BY <2>2, <3>4, Zenon
      <3>7. g[i - 1] = x \o b
        BY <3>2, Zenon DEF b
      <3> QED BY <3>2, <3>5, <3>6, <3>7, Zenon
    <2> QED BY <2>4, <2>5
  <1>9. FlattenSeq(rs) = g[l]
    <2>1. rs # <<>>
      <3>1. Len(rs) # 0 /\ Len(<<>>) = 0
        BY <1>0
      <3> QED BY <3>1
    <2>2. \A i \in 2 .. Len(rs) : g[i] = g[i - 1] \o rs[i]
      BY <1>0, <1>8
    <2>3. g \in [1 .. Len(rs) -> Seq(Nat)]
      BY <1>0, <1>6
    <2>4. FlattenSeq(rs) = g[Len(rs)]
      BY <1>7, <2>1, <2>2, <2>3, FlattenIs
    <2> QED BY <1>0, <2>4
  <1>10. l \in 2 .. l /\ l - 1 = n
    BY <1>0
  <1>11. g[l] = x \o (by \o f[n])
    BY <1>6, <1>10
  <1> QED BY <1>3, <1>9, <1>11

LEMMA JoinedMore ==
    ASSUME NEW x \in Seq(Nat), NEW ps \in Seq(Seq(Nat)), Len(ps) >= 1, NEW by \in Seq(Nat)
    PROVE  Joined(<<x>> \o ps, by) = x \o (by \o Joined(ps, by))
  <1> DEFINE all == <<x>> \o ps
             n == Len(ps)
             qs == Parts(ps, by)
             rs == Parts(all, by)
  <1>0. n \in Nat \ {0} /\ all \in Seq(Seq(Nat)) /\ Len(all) = n + 1 /\ all[1] = x
        /\ \A i \in 1 .. n : all[i + 1] = ps[i]
    <2>1. n \in Nat \ {0}
      OBVIOUS
    <2> HIDE DEF n
    <2> QED BY <2>1, InFront DEF n
  <1> HIDE DEF all
  <1>1. /\ qs \in Seq(Seq(Nat)) /\ Len(qs) = n /\ Joined(ps, by) = FlattenSeq(qs)
        /\ \A i \in 1 .. n : qs[i] = IF i = 1 THEN ps[1] ELSE by \o ps[i]
    BY PartsAre
  <1> HIDE DEF n
  <1>2. /\ rs \in Seq(Seq(Nat)) /\ Len(rs) = n + 1 /\ Joined(all, by) = FlattenSeq(rs)
        /\ \A i \in 1 .. n + 1 : rs[i] = IF i = 1 THEN all[1] ELSE by \o all[i]
    <2> DEFINE l == n + 1
    <2>1. Len(all) = l
      BY <1>0
    <2> HIDE DEF l
    <2>2. /\ rs \in Seq(Seq(Nat)) /\ Len(rs) = l /\ Joined(all, by) = FlattenSeq(rs)
          /\ \A i \in 1 .. l : rs[i] = IF i = 1 THEN all[1] ELSE by \o all[i]
      BY <1>0, <2>1, PartsAre
    <2> QED BY <2>2 DEF l
  <1> HIDE DEF qs, rs
  <1>3. rs[1] = x
    BY <1>0, <1>2
  <1>4. ASSUME NEW i \in 1 .. n PROVE rs[i + 1] = by \o ps[i]
    <2>1. i + 1 \in 1 .. n + 1 /\ i + 1 # 1
      BY <1>0
    <2> QED BY <1>0, <1>2, <2>1
  <1>5. 1 \in 1 .. n /\ 1 + 1 = 2 /\ \A i \in 2 .. n : i \in 1 .. n /\ i # 1
    BY <1>0
  <1>6. PutInFront(rs, x, by, qs)
    <2>1. rs[2] = by \o qs[1]
      BY <1>1, <1>4, <1>5
    <2>2. ASSUME NEW i \in 2 .. n PROVE rs[i + 1] = qs[i]
      <3>1. i \in 1 .. n /\ i # 1
        BY <1>5
      <3> QED BY <1>1, <1>4, <3>1
    <2> QED BY <1>0, <1>1, <1>2, <1>3, <2>1, <2>2 DEF PutInFront
  <1>7. FlattenSeq(rs) = x \o (by \o FlattenSeq(qs))
    BY <1>1, <1>2, <1>6, FlattenMore
  <1> QED BY <1>1, <1>2, <1>7 DEF all

LEMMA BothParts ==
    ASSUME NEW u \in Seq(Nat), NEW v \in Seq(Nat)
    PROVE  <<u>> \o <<v>> = <<u, v>>
  <1> DEFINE q == <<u>> \o <<v>>
  <1>1. <<u>> \in Seq(Seq(Nat)) /\ <<v>> \in Seq(Seq(Nat)) /\ Len(<<u>>) = 1 /\ Len(<<v>>) = 1
    OBVIOUS
  <1>2. q \in Seq(Seq(Nat)) /\ Len(q) = 2 /\ q[1] = u /\ q[2] = v
    BY <1>1
  <1> HIDE DEF q
  <1>3. q = <<u, v>>
    BY <1>2
  <1> QED BY <1>3 DEF q

LEMMA OnlyOne ==
    ASSUME NEW V, NEW q \in Seq(V), Len(q) = 1
    PROVE  q = <<q[1]>> /\ q[1] \in V
  OBVIOUS

LEMMA OneOf ==
    ASSUME NEW V, NEW q \in Seq(V), NEW k \in 1 .. Len(q)
    PROVE  SubSeq(q, k, k) = <<q[k]>>
  <1> DEFINE t == SubSeq(q, k, k)
  <1>1. t \in Seq(V) /\ Len(t) = 1
    OBVIOUS
  <1>2. t[1] = q[k]
    OBVIOUS
  <1> HIDE DEF t
  <1>3. t = <<q[k]>>
    BY <1>1, <1>2
  <1> QED BY <1>3 DEF t

LEMMA RestIs ==
    ASSUME NEW V, NEW q \in Seq(V), NEW n \in Nat, Len(q) = n + 1
    PROVE  /\ SubSeq(q, 2, Len(q)) \in Seq(V) /\ Len(SubSeq(q, 2, Len(q))) = n
           /\ \A i \in 1 .. n : SubSeq(q, 2, Len(q))[i] = q[i + 1]
  <1>1. Len(q) \in Nat
    OBVIOUS
  <1>2. SubSeq(q, 2, Len(q)) \in Seq(V) /\ Len(SubSeq(q, 2, Len(q))) = n
    BY <1>1
  <1>3. ASSUME NEW i \in 1 .. n PROVE SubSeq(q, 2, Len(q))[i] = q[i + 1]
    BY <1>1
  <1> QED BY <1>2, <1>3

LEMMA AppendTwo ==
    ASSUME NEW V, NEW u \in V, NEW v \in V
    PROVE  Append(<<u>>, v) = <<u, v>>
  <1> DEFINE e == <<u>>
             t == Append(e, v)
  <1>1. e \in Seq(V) /\ Len(e) = 1 /\ e[1] = u
    OBVIOUS
  <1> HIDE DEF e
  <1>2. t \in Seq(V) /\ Len(t) = 2 /\ t[1] = u /\ t[2] = v
    <2>1. ASSUME NEW d \in Seq(V)
          PROVE  /\ Append(d, v) \in Seq(V) /\ Len(Append(d, v)) = Len(d) + 1
                 /\ Append(d, v)[Len(d) + 1] = v /\ \A k \in 1 .. Len(d) : Append(d, v)[k] = d[k]
      OBVIOUS
    <2>2. t \in Seq(V) /\ Len(t) = Len(e) + 1 /\ t[Len(e) + 1] = v /\ \A k \in 1 .. Len(e) : t[k] = e[k]
      BY <1>1, <2>1, Zenon
    <2> HIDE DEF t
    <2> QED BY <1>1, <2>2
  <1> HIDE DEF t
  <1>3. t = <<u, v>>
    BY <1>2
  <1> QED BY <1>3 DEF t, e

LEMMA ConcatIs ==
    ASSUME NEW x \in Seq(Nat), NEW y \in Seq(Nat)
    PROVE  /\ x \o y \in Seq(Nat) /\ Len(x \o y) = Len(x) + Len(y)
           /\ \A k \in 1 .. Len(x) : (x \o y)[k] = x[k]
           /\ \A k \in 1 .. Len(x) + Len(y) : k > Len(x) => (x \o y)[k] = y[k - Len(x)]
  OBVIOUS

(* The l characters from a on are the i of them and the j from b on.        *)
TwoWindows(s, a, b, i, j, l) == Window(s, a, l) = Window(s, a, i) \o Window(s, b, j)

LEMMA WindowSplits ==
    ASSUME NEW s \in Seq(Nat), NEW a \in Nat, NEW b \in Nat, NEW i \in Nat, NEW j \in Nat, NEW l \in Nat,
           b = a + i, l = i + j, a + l <= Len(s)
    PROVE  TwoWindows(s, a, b, i, j, l)
  <1> DEFINE w == Window(s, a, l)
             x == Window(s, a, i)
             y == Window(s, b, j)
             t == x \o y
  <1>0. Len(s) \in Nat /\ a + i <= Len(s) /\ b + j <= Len(s)
    OBVIOUS
  <1>1. w \in Seq(Nat) /\ Len(w) = l /\ \A k \in 1 .. l : w[k] = s[a + k]
    BY WindowIs
  <1>2. x \in Seq(Nat) /\ Len(x) = i /\ \A k \in 1 .. i : x[k] = s[a + k]
    BY <1>0, WindowIs
  <1>3. y \in Seq(Nat) /\ Len(y) = j /\ \A k \in 1 .. j : y[k] = s[b + k]
    BY <1>0, WindowIs
  <1> HIDE DEF w, x, y
  <1>4. /\ t \in Seq(Nat) /\ Len(t) = Len(x) + Len(y)
        /\ \A k \in 1 .. Len(x) : t[k] = x[k]
        /\ \A k \in 1 .. Len(x) + Len(y) : k > Len(x) => t[k] = y[k - Len(x)]
    BY <1>2, <1>3, ConcatIs
  <1> HIDE DEF t
  <1>6. ASSUME NEW k \in 1 .. l PROVE t[k] = w[k]
    <2>1. CASE k <= i
      <3>1. k \in 1 .. i
        BY <2>1
      <3> QED BY <1>1, <1>2, <1>4, <3>1
    <2>2. CASE k > i
      <3> DEFINE r == k - i
      <3>1. r \in 1 .. j /\ b + r = a + k /\ k \in 1 .. i + j
        BY <2>2
      <3>2. t[k] = y[r]
        BY <1>2, <1>3, <1>4, <2>2, <3>1
      <3> HIDE DEF r
      <3> QED BY <1>1, <1>3, <3>1, <3>2
    <2> QED BY <2>1, <2>2
  <1>7. t = w
    <2>1. \A k \in 1 .. Len(w) : t[k] = w[k]
      BY <1>1, <1>6
    <2>2. Len(t) = Len(w)
      BY <1>1, <1>2, <1>3, <1>4
    <2> QED BY <1>1, <1>4, <2>1, <2>2, SeqEqual
  <1> QED BY <1>7 DEF t, w, x, y, TwoWindows

(* A text around an occurrence of sep.                                      *)
LEMMA AroundSep ==
    ASSUME NEW s \in Seq(Nat), NEW sep \in Seq(Nat), NEW a \in Nat, NEW p \in Nat, a <= p,
           p + Len(sep) <= Len(s), Occurs(s, sep, p)
    PROVE  Window(s, a, Len(s) - a) =
              Window(s, a, p - a) \o (sep \o Window(s, p + Len(sep), Len(s) - (p + Len(sep))))
  <1> DEFINE m == Len(sep)
             q == p + m
             l == Len(s) - a
             i == p - a
             j == Len(s) - p
             k == Len(s) - q
  <1>0. /\ m \in Nat /\ q \in Nat /\ l \in Nat /\ i \in Nat /\ j \in Nat /\ k \in Nat
        /\ p = a + i /\ l = i + j /\ a + l <= Len(s) /\ q = p + m /\ j = m + k /\ p + j <= Len(s)
    OBVIOUS
  <1>1. Window(s, p, m) = sep
    BY Zenon DEF Occurs
  <1> HIDE DEF m, q, l, i, j, k
  <1>2. Window(s, a, l) = Window(s, a, i) \o Window(s, p, j)
    <2>1. /\ a \in Nat /\ p \in Nat /\ i \in Nat /\ j \in Nat /\ l \in Nat
          /\ p = a + i /\ l = i + j /\ a + l <= Len(s)
      BY <1>0
    <2>2. TwoWindows(s, a, p, i, j, l)
      BY <2>1, WindowSplits
    <2> QED BY <2>2 DEF TwoWindows
  <1>3. Window(s, p, j) = Window(s, p, m) \o Window(s, q, k)
    <2>1. q \in Nat /\ m \in Nat /\ k \in Nat /\ j \in Nat /\ q = p + m /\ j = m + k /\ p + j <= Len(s)
      BY <1>0
    <2>2. TwoWindows(s, p, q, m, k, j)
      BY <2>1, WindowSplits
    <2> QED BY <2>2 DEF TwoWindows
  <1>4. Window(s, a, l) = Window(s, a, i) \o (sep \o Window(s, q, k))
    BY <1>1, <1>2, <1>3, Zenon
  <1> QED BY <1>4 DEF m, q, l, i, j, k

(* Where the first cut is. *)
LEMMA FindFirst ==
    ASSUME NEW s \in Seq(Nat), NEW sep \in Seq(Nat)
    PROVE  Find(s, sep, 0, Len(s)) = FirstSep(s, sep, 0)
  <1>0. Len(s) \in Nat /\ Len(s) \in 0 .. Len(s) /\ 0 \in Nat
    OBVIOUS
  <1>1. Bound(0, Len(s)) = 0 /\ EndBound(Len(s), Len(s)) = Len(s)
    BY <1>0, BoundsOf
  <1> QED BY <1>0, <1>1, FindIs DEF FirstSep

Spots(t, old) == Occurrences(t, old, 0, Len(t))

LEMMA SpotsAre ==
    ASSUME NEW t \in Seq(Nat), NEW old \in Seq(Nat)
    PROVE  /\ Spots(t, old) \in SUBSET (0 .. Len(t))
           /\ \A p \in Spots(t, old) :
                 p \in Nat /\ p + Len(old) <= Len(t) /\ Len(old) >= 1 /\ Occurs(t, old, p)
           /\ \A a, e \in 0 .. Len(t) :
                 Occurrences(t, old, a, e) = {p \in Spots(t, old) : a <= p /\ p + Len(old) <= e}
  <1> DEFINE l == Len(t)
             m == Len(old)
  <1>0. l \in Nat /\ m \in Nat /\ (old # <<>> => m >= 1)
    OBVIOUS
  <1>1. CASE old = <<>>
    <2>1. \A a, e : Occurrences(t, old, a, e) = {}
      BY <1>1 DEF Occurrences
    <2> QED BY <2>1 DEF Spots
  <1>2. CASE old # <<>>
    <2>1. \A a, e : Occurrences(t, old, a, e) = {p \in a .. e - m : Occurs(t, old, p)}
      BY <1>2, OccurrencesIs
    <2> HIDE DEF m, l
    <2>2. Spots(t, old) = {p \in 0 .. l - m : Occurs(t, old, p)}
      BY <2>1 DEF Spots, l
    <2>3. \A p \in 0 .. l - m : p \in Nat /\ p + m <= l /\ p \in 0 .. l
      BY <1>0
    <2>4. ASSUME NEW a \in 0 .. l, NEW e \in 0 .. l
          PROVE  Occurrences(t, old, a, e) = {p \in Spots(t, old) : a <= p /\ p + m <= e}
      <3>1. \A p \in a .. e - m : p \in 0 .. l - m /\ a <= p /\ p + m <= e
        BY <1>0
      <3>2. \A p \in 0 .. l - m : a <= p /\ p + m <= e => p \in a .. e - m
        BY <1>0
      <3> QED BY <2>1, <2>2, <3>1, <3>2
    <2> QED BY <1>0, <1>2, <2>2, <2>3, <2>4 DEF m, l
  <1> QED BY <1>1, <1>2

(* Of positions that are apart none is left out.                            *)
LEMMA ApartCounts ==
    ASSUME NEW y \in Nat, NEW Hits \in SUBSET (0 .. y), NEW n \in Nat, Apart(Hits, n)
    PROVE  MostApart(Hits, n) = Cardinality(Hits)
  <1>1. /\ MostApart(Hits, n) \in Nat
        /\ \E qs \in ApartIn(Hits, n) : Cardinality(qs) = MostApart(Hits, n)
        /\ \A qs \in ApartIn(Hits, n) : Cardinality(qs) <= MostApart(Hits, n)
    BY MostApartIs
  <1>2. IsFiniteSet(Hits) /\ Cardinality(Hits) \in Nat
    <2>1. IsFiniteSet(Hits) /\ Cardinality(Hits) \in 0 .. y + 1
      BY SmallSets
    <2> QED BY <2>1
  <1>3. Hits \in ApartIn(Hits, n)
    BY DEF ApartIn
  <1>4. ASSUME NEW qs \in ApartIn(Hits, n)
        PROVE  Cardinality(qs) <= Cardinality(Hits)
    <2>1. qs \subseteq Hits
      BY DEF ApartIn
    <2> QED BY <1>2, <2>1, FS_Subset
  <1> QED BY <1>1, <1>2, <1>3, <1>4

(* The first that is not before a.                                          *)
LEMMA FirstSpot ==
    ASSUME NEW t \in Seq(Nat), NEW old \in Seq(Nat), NEW a \in 0 .. Len(t),
           Occurrences(t, old, a, Len(t)) # {}
    PROVE  LET p == FirstSep(t, old, a)
           IN  p \in Spots(t, old) /\ a <= p /\ \A q \in Spots(t, old) : a <= q => p <= q
  <1> DEFINE Hits == Occurrences(t, old, a, Len(t))
             p == FirstSep(t, old, a)
  <1>1. Len(t) \in 0 .. Len(t)
    OBVIOUS
  <1>2. Hits = {q \in Spots(t, old) : a <= q /\ q + Len(old) <= Len(t)}
    BY <1>1, SpotsAre
  <1>3. Hits = {q \in Spots(t, old) : a <= q}
    BY <1>2, SpotsAre
  <1> HIDE DEF Hits
  <1>4. Hits \in SUBSET Nat
    BY <1>3, SpotsAre
  <1>5. p \in Hits /\ \A q \in Hits : p <= q
    BY <1>4, FirstOfIs DEF FirstSep, Hits
  <1> QED BY <1>3, <1>5

(* t with new at the positions P.                                           *)
ChangedAt(u, t, P, new) ==
    /\ Len(u) = Len(t)
    /\ \A p \in P : \A j \in 1 .. Len(new) : u[p + j] = new[j]
    /\ \A k \in 1 .. Len(t) : (\A p \in P : k \notin p + 1 .. p + Len(new)) => u[k] = t[k]

(* n characters at each of P are apart from k characters at a.              *)
Misses(P, n, a, k) == \A p \in P : p + n <= a \/ a + k <= p

(* What no position changes is as it was.                                   *)
LEMMA Unchanged ==
    ASSUME NEW t \in Seq(Nat), NEW u \in Seq(Nat), NEW new \in Seq(Nat), NEW P \in SUBSET Nat,
           ChangedAt(u, t, P, new), NEW a \in Nat, NEW n \in Nat, a + n <= Len(t),
           Misses(P, Len(new), a, n)
    PROVE  Window(u, a, n) = Window(t, a, n)
  <1> DEFINE x == Window(u, a, n)
             y == Window(t, a, n)
  <1>1. Len(u) = Len(t) /\ Len(t) \in Nat /\ Len(new) \in Nat
    BY DEF ChangedAt
  <1>2. /\ x \in Seq(Nat) /\ Len(x) = n /\ \A k \in 1 .. n : x[k] = u[a + k]
        /\ y \in Seq(Nat) /\ Len(y) = n /\ \A k \in 1 .. n : y[k] = t[a + k]
    <2>1. a + n <= Len(u)
      BY <1>1
    <2>2. x \in Seq(Nat) /\ Len(x) = n /\ \A k \in 1 .. n : x[k] = u[a + k]
      BY <2>1, WindowIs
    <2>3. y \in Seq(Nat) /\ Len(y) = n /\ \A k \in 1 .. n : y[k] = t[a + k]
      BY WindowIs
    <2> QED BY <2>2, <2>3
  <1> HIDE DEF x, y
  <1>3. ASSUME NEW k \in 1 .. n PROVE u[a + k] = t[a + k]
    <2> DEFINE m == Len(new)
    <2> HIDE DEF m
    <2>1. a + k \in 1 .. Len(t)
      BY <1>1
    <2>2. ASSUME NEW p \in P PROVE a + k \notin p + 1 .. p + m
      <3>1. p \in Nat /\ m \in Nat /\ (p + m <= a \/ a + n <= p)
        BY <1>1 DEF m, Misses
      <3> QED BY <3>1
    <2> QED BY <2>1, <2>2 DEF ChangedAt, m
  <1>4. x = y
    BY <1>2, <1>3, SeqEqual
  <1> QED BY <1>4 DEF x, y

(* And where one is, there is new.                                          *)
LEMMA ChangedThere ==
    ASSUME NEW t \in Seq(Nat), NEW u \in Seq(Nat), NEW new \in Seq(Nat), NEW P \in SUBSET Nat,
           ChangedAt(u, t, P, new), NEW p \in P, p + Len(new) <= Len(t)
    PROVE  Window(u, p, Len(new)) = new
  <1> DEFINE x == Window(u, p, Len(new))
             n == Len(new)
  <1>1. Len(u) = Len(t) /\ n \in Nat /\ p \in Nat
    BY DEF ChangedAt
  <1>2. x \in Seq(Nat) /\ Len(x) = n /\ \A k \in 1 .. n : x[k] = u[p + k]
    BY <1>1, WindowIs
  <1> HIDE DEF x
  <1>3. \A k \in 1 .. n : x[k] = new[k]
    BY <1>2 DEF ChangedAt
  <1>4. x = new
    BY <1>2, <1>3, SeqEqual
  <1> QED BY <1>4 DEF x

(* The parts of Replaced: new before the first n pieces but one, old before *)
(* the others.                                                              *)
Either(i, n, old, new) == IF i <= n THEN new ELSE old

Replacing(ps, old, new, n) ==
    [i \in DOMAIN ps |-> IF i = 1 THEN ps[1] ELSE Either(i - 1, n, old, new) \o ps[i]]

TakesTurns(rs, ps, old, new, n) ==
    /\ rs \in Seq(Seq(Nat)) /\ Len(rs) = Len(ps)
    /\ \A i \in 1 .. Len(ps) :
          rs[i] = IF i = 1 THEN ps[1] ELSE Either(i - 1, n, old, new) \o ps[i]

LEMMA ReplacingIs ==
    ASSUME NEW ps \in Seq(Seq(Nat)), NEW old \in Seq(Nat), NEW new \in Seq(Nat), NEW n \in Nat
    PROVE  TakesTurns(Replacing(ps, old, new, n), ps, old, new, n)
  <1> DEFINE F(i) == IF i = 1 THEN ps[1] ELSE Either(i - 1, n, old, new) \o ps[i]
             rs == Replacing(ps, old, new, n)
  <1>1. DOMAIN ps = 1 .. Len(ps) /\ Len(ps) \in Nat
    OBVIOUS
  <1>2. \A i \in 1 .. Len(ps) : F(i) \in Seq(Nat)
    <2> SUFFICES ASSUME NEW i \in 1 .. Len(ps) PROVE F(i) \in Seq(Nat)
      OBVIOUS
    <2> DEFINE t == ps[i]
    <2>1. t \in Seq(Nat)
      OBVIOUS
    <2> HIDE DEF t
    <2>2. new \o t \in Seq(Nat) /\ old \o t \in Seq(Nat)
      BY <2>1
    <2> QED BY <2>1, <2>2 DEF t, Either
  <1>3. rs \in [1 .. Len(ps) -> Seq(Nat)] /\ \A i \in 1 .. Len(ps) : rs[i] = F(i)
    <2>1. rs = [i \in 1 .. Len(ps) |-> F(i)]
      BY <1>1, Zenon DEF Replacing
    <2> HIDE DEF rs, F
    <2> QED BY <1>2, <2>1
  <1>4. rs \in Seq(Seq(Nat)) /\ Len(rs) = Len(ps)
    <2> HIDE DEF rs
    <2>1. rs = [k \in 1 .. Len(ps) |-> rs[k]] /\ \A k \in 1 .. Len(ps) : rs[k] \in Seq(Nat)
      BY <1>3
    <2> QED BY <1>1, <2>1, SeqOfFunction
  <1> QED BY <1>3, <1>4 DEF TakesTurns

OneLess(n) == IF n = 0 THEN 0 ELSE n - 1

TakesOne(x, ps, old, new, n) ==
    FlattenSeq(Replacing(<<x>> \o ps, old, new, n)) =
        x \o (Either(1, n, old, new) \o FlattenSeq(Replacing(ps, old, new, OneLess(n))))

LEMMA ReplacingMore ==
    ASSUME NEW x \in Seq(Nat), NEW ps \in Seq(Seq(Nat)), Len(ps) >= 1, NEW old \in Seq(Nat),
           NEW new \in Seq(Nat), NEW n \in Nat
    PROVE  TakesOne(x, ps, old, new, n)
  <1> DEFINE all == <<x>> \o ps
             l == Len(ps)
             m == OneLess(n)
             qs == Replacing(ps, old, new, m)
             rs == Replacing(all, old, new, n)
             by == Either(1, n, old, new)
  <1>0. l \in Nat \ {0} /\ all \in Seq(Seq(Nat)) /\ Len(all) = l + 1 /\ all[1] = x
        /\ \A i \in 1 .. l : all[i + 1] = ps[i]
    <2>1. l \in Nat \ {0}
      OBVIOUS
    <2> HIDE DEF l
    <2> QED BY <2>1, InFront DEF l
  <1>m. m \in Nat /\ (n = m + 1 \/ (n = 0 /\ m = 0))
    BY DEF OneLess
  <1> HIDE DEF all, m
  <1>1. /\ qs \in Seq(Seq(Nat)) /\ Len(qs) = l
        /\ \A i \in 1 .. l : qs[i] = IF i = 1 THEN ps[1] ELSE Either(i - 1, m, old, new) \o ps[i]
    BY <1>m, ReplacingIs DEF TakesTurns
  <1> HIDE DEF l
  <1>2. /\ rs \in Seq(Seq(Nat)) /\ Len(rs) = l + 1
        /\ \A i \in 1 .. l + 1 : rs[i] = IF i = 1 THEN all[1] ELSE Either(i - 1, n, old, new) \o all[i]
    <2>1. TakesTurns(rs, all, old, new, n)
      BY <1>0, ReplacingIs, Zenon
    <2> HIDE DEF rs
    <2> DEFINE k == l + 1
    <2>3. Len(all) = k
      BY <1>0
    <2> HIDE DEF k
    <2>2. /\ rs \in Seq(Seq(Nat)) /\ Len(rs) = k
          /\ \A i \in 1 .. k : rs[i] = IF i = 1 THEN all[1] ELSE Either(i - 1, n, old, new) \o all[i]
      BY <2>1, <2>3 DEF TakesTurns
    <2> QED BY <2>2 DEF k
  <1> HIDE DEF qs, rs
  <1>3. rs[1] = x
    BY <1>0, <1>2
  <1>4. ASSUME NEW i \in 1 .. l PROVE rs[i + 1] = Either(i, n, old, new) \o ps[i]
    <2>1. i + 1 \in 1 .. l + 1 /\ i + 1 # 1 /\ (i + 1) - 1 = i
      BY <1>0
    <2> QED BY <1>0, <1>2, <2>1
  <1>5. 1 \in 1 .. l /\ 1 + 1 = 2 /\ \A i \in 2 .. l : i \in 1 .. l /\ i # 1
    BY <1>0
  <1>6. Either(1, n, old, new) = by /\ \A i \in 2 .. l : Either(i, n, old, new) = Either(i - 1, m, old, new)
    <2>1. ASSUME NEW i \in 2 .. l PROVE (i <= n) <=> (i - 1 <= m)
      BY <1>0, <1>m
    <2> QED BY <2>1 DEF Either
  <1>7. by \in Seq(Nat)
    BY DEF Either
  <1> HIDE DEF by
  <1>8. rs[2] = by \o qs[1] /\ \A i \in 2 .. l : rs[i + 1] = qs[i]
    <2>1. rs[2] = by \o qs[1]
      BY <1>1, <1>4, <1>5, <1>6
    <2>2. ASSUME NEW i \in 2 .. l PROVE rs[i + 1] = qs[i]
      <3>1. i \in 1 .. l /\ i # 1
        BY <1>5
      <3>2. rs[i + 1] = Either(i - 1, m, old, new) \o ps[i]
        BY <1>4, <1>6, <3>1
      <3> QED BY <1>1, <3>1, <3>2
    <2> QED BY <2>1, <2>2
  <1>9. FlattenSeq(rs) = x \o (by \o FlattenSeq(qs))
    <2>1. PutInFront(rs, x, by, qs)
      BY <1>0, <1>1, <1>2, <1>3, <1>8 DEF PutInFront
    <2> QED BY <1>1, <1>2, <1>7, <2>1, FlattenMore
  <1> QED BY <1>9 DEF TakesOne, all, by, qs, rs, m

(* The occurrences of old between a and e.                                  *)
Within(t, old, a, e) == {p \in Spots(t, old) : a <= p /\ p + Len(old) <= e}

LEMMA WithinIs ==
    ASSUME NEW t \in Seq(Nat), NEW old \in Seq(Nat), NEW a, NEW e
    PROVE  /\ Within(t, old, a, e) \in SUBSET (0 .. Len(t)) /\ IsFiniteSet(Within(t, old, a, e))
           /\ Cardinality(Within(t, old, a, e)) \in Nat
           /\ Within(t, old, a, e) \subseteq Spots(t, old)
  <1>1. Within(t, old, a, e) \in SUBSET (0 .. Len(t)) /\ Within(t, old, a, e) \subseteq Spots(t, old)
    BY SpotsAre DEF Within
  <1>2. Len(t) \in Nat
    OBVIOUS
  <1> HIDE DEF Within
  <1>3. IsFiniteSet(Within(t, old, a, e)) /\ Cardinality(Within(t, old, a, e)) \in 0 .. Len(t) + 1
    BY <1>1, <1>2, SmallSets
  <1> QED BY <1>1, <1>2, <1>3

(* From the first that is not before a on.                                  *)
OneAndRest(t, old, a, b, e) ==
    Cardinality(Within(t, old, a, e)) =
       (IF b <= e THEN 1 ELSE 0) + Cardinality(Within(t, old, b, e))

LEMMA WithinFirst ==
    ASSUME NEW t \in Seq(Nat), NEW old \in Seq(Nat), Apart(Spots(t, old), Len(old)),
           NEW a \in Nat, NEW e \in Int, NEW p \in Spots(t, old), a <= p,
           \A q \in Spots(t, old) : a <= q => p <= q
    PROVE  OneAndRest(t, old, a, p + Len(old), e)
  <1> DEFINE m == Len(old)
             b == p + m
             S == Spots(t, old)
             A == Within(t, old, a, e)
             B == Within(t, old, b, e)
  <1> SUFFICES Cardinality(A) = (IF b <= e THEN 1 ELSE 0) + Cardinality(B)
    BY DEF OneAndRest
  <1>1. m \in Nat /\ m >= 1 /\ p \in Nat /\ \A q \in S : q \in Nat
    BY SpotsAre
  <1>2. IsFiniteSet(B) /\ Cardinality(B) \in Nat
    BY WithinIs
  <1>3. \A q \in S : (a <= q) <=> (q = p \/ b <= q)
    <2> SUFFICES ASSUME NEW q \in S PROVE (a <= q) <=> (q = p \/ b <= q)
      OBVIOUS
    <2>1. a <= q => p <= q
      OBVIOUS
    <2>2. p < q => b <= q
      BY DEF Apart
    <2>3. q \in Nat /\ p \in Nat /\ m \in Nat /\ a <= p
      BY <1>1
    <2> HIDE DEF S, m
    <2> QED BY <2>1, <2>2, <2>3
  <1>4. p \notin B
    <2>1. ~ (b <= p)
      BY <1>1
    <2> QED BY <2>1 DEF Within
  <1>5. CASE b <= e
    <2>1. A = B \cup {p}
      BY <1>3, <1>5 DEF Within
    <2> HIDE DEF A, B
    <2>2. Cardinality(A) = Cardinality(B) + 1
      BY <1>2, <1>4, <2>1, FS_AddElement
    <2> QED BY <1>2, <1>5, <2>2 DEF A, B, b, m
  <1>6. CASE ~ (b <= e)
    <2>1. A = B
      BY <1>3, <1>6 DEF Within
    <2> QED BY <1>2, <1>6, <2>1
  <1> QED BY <1>5, <1>6

(* No occurrence reaches over a; and p is the first from a on.              *)
ClearAt(t, old, a) == \A q \in Spots(t, old) : q < a => q + Len(old) <= a

Foremost(t, old, a, p) == \A q \in Spots(t, old) : a <= q => p <= q

(* u behind a, piece by piece.                                              *)
Pieced(f, u, t, old, new, a, e) ==
    /\ Len(f[a]) = 1 + Cardinality(Within(t, old, a, Len(t)))
    /\ FlattenSeq(Replacing(f[a], old, new, Cardinality(Within(t, old, a, e)))) =
          Window(u, a, Len(t) - a)

LEMMA PiecedMore ==
    ASSUME NEW t \in Seq(Nat), NEW u \in Seq(Nat), NEW old \in Seq(Nat), NEW new \in Seq(Nat),
           Len(new) = Len(old), NEW e \in 0 .. Len(t), ChangedAt(u, t, Within(t, old, 0, e), new),
           Apart(Spots(t, old), Len(old)),
           NEW a \in 0 .. Len(t), ClearAt(t, old, a),
           NEW p \in Spots(t, old), a <= p, Foremost(t, old, a, p),
           NEW f, f[p + Len(old)] \in Seq(Seq(Nat)), Pieced(f, u, t, old, new, p + Len(old), e),
           f[a] = << Window(t, a, p - a) >> \o f[p + Len(old)]
    PROVE  Pieced(f, u, t, old, new, a, e)
  <1> USE DEF ClearAt, Foremost
  <1> DEFINE l == Len(t)
             m == Len(old)
             b == p + m
             x == Window(t, a, p - a)
             ps == f[b]
             P == Within(t, old, 0, e)
             n == Cardinality(Within(t, old, a, e))
             k == Cardinality(Within(t, old, b, e))
             by == Window(u, p, m)
  <1>0. /\ l \in Nat /\ a \in Nat /\ m \in Nat /\ m >= 1 /\ p \in Nat /\ b \in Nat /\ b <= l /\ a <= p
        /\ p - a \in Nat /\ a + (p - a) = p /\ e \in Nat /\ e <= l /\ p <= l /\ Len(u) = l /\ Len(new) = m
    <2>1. m \in Nat /\ m >= 1 /\ p \in Nat /\ b <= l
      BY SpotsAre
    <2>2. Len(u) = l /\ l \in Nat
      BY DEF ChangedAt
    <2>3. a \in Nat /\ e \in Nat /\ e <= l /\ Len(new) = m
      BY <2>2
    <2> HIDE DEF m, l
    <2>4. b \in Nat /\ p - a \in Nat /\ a + (p - a) = p /\ p <= l
      BY <2>1, <2>2, <2>3
    <2> QED BY <2>1, <2>2, <2>3, <2>4 DEF l
  <1>1. /\ Len(ps) = 1 + Cardinality(Within(t, old, b, l))
        /\ FlattenSeq(Replacing(ps, old, new, k)) = Window(u, b, l - b)
    BY DEF Pieced
  <1>2. n \in Nat /\ k \in Nat /\ Cardinality(Within(t, old, b, l)) \in Nat
    BY WithinIs
  <1>3. n = (IF b <= e THEN 1 ELSE 0) + k
    <2>0. a \in Nat /\ e \in Int /\ \A q \in Spots(t, old) : a <= q => p <= q
      BY <1>0
    <2>1. OneAndRest(t, old, a, b, e)
      BY <2>0, WithinFirst
    <2> QED BY <2>1 DEF OneAndRest
  <1>4. Cardinality(Within(t, old, a, l)) = 1 + Cardinality(Within(t, old, b, l))
    <2>1. l \in Int /\ b <= l
      BY <1>0
    <2>2. Cardinality(Within(t, old, a, l)) =
             (IF b <= l THEN 1 ELSE 0) + Cardinality(Within(t, old, b, l))
      <3>1. OneAndRest(t, old, a, b, l)
        <4>1. a \in Nat /\ \A q \in Spots(t, old) : a <= q => p <= q
          BY <1>0
        <4> QED BY <2>1, <4>1, WithinFirst
      <3> QED BY <3>1 DEF OneAndRest
    <2> QED BY <2>1, <2>2
  <1>5. x \in Seq(Nat) /\ ps \in Seq(Seq(Nat)) /\ f[a] = <<x>> \o ps
    <2>1. a + (p - a) <= l
      BY <1>0
    <2>2. x \in Seq(Nat)
      BY <1>0, <2>1, WindowIs
    <2> QED BY <2>2
  <1>6. P \in SUBSET Nat /\ \A q \in P : q \in Spots(t, old) /\ q + m <= e
    BY SpotsAre DEF Within
  <1>7. \A q \in Spots(t, old) : q \in Nat /\ (q < p => q + m <= p) /\ (a <= q => p <= q)
    BY SpotsAre DEF Apart
  <1>8. Window(u, a, p - a) = x
    <2>1. ASSUME NEW q \in P PROVE q + m <= a \/ a + (p - a) <= q
      <3>1. q \in Spots(t, old) /\ q \in Nat
        BY <1>6, <1>7
      <3>2. CASE q < a
        BY <3>1, <3>2
      <3>3. CASE a <= q
        BY <1>0, <1>7, <3>1, <3>3
      <3> QED BY <1>0, <3>1, <3>2, <3>3
    <2> HIDE DEF P
    <2> DEFINE i == p - a
    <2>2. Misses(P, Len(new), a, i)
      BY <1>0, <2>1 DEF Misses
    <2>3. a + i <= Len(t) /\ i \in Nat /\ ChangedAt(u, t, P, new)
      BY <1>0 DEF P
    <2> HIDE DEF i
    <2>4. Window(u, a, i) = Window(t, a, i)
      <3>1. /\ t \in Seq(Nat) /\ u \in Seq(Nat) /\ new \in Seq(Nat) /\ P \in SUBSET Nat /\ a \in Nat
        BY <1>0, <1>6
      <3> QED BY ONLY <2>2, <2>3, <3>1, Unchanged, SMTT(30)
    <2> QED BY <2>4 DEF i
  <1>9. by = IF b <= e THEN new ELSE old
    <2>1. CASE b <= e
      <3>1. p \in P
        BY <1>0, <2>1 DEF Within
      <3> HIDE DEF P
      <3>2. ChangedAt(u, t, P, new) /\ p + Len(new) <= Len(t)
        BY <1>0 DEF P
      <3>3. Window(u, p, Len(new)) = new
        BY <1>6, <3>1, <3>2, ChangedThere, Zenon
      <3> QED BY <2>1, <3>3
    <2>2. CASE ~ (b <= e)
      <3>1. ASSUME NEW q \in P PROVE q + m <= p
        <4>1. q \in Spots(t, old) /\ q \in Nat /\ q + m <= e
          BY <1>6, <1>7
        <4>2. q < p
          BY <1>0, <2>2, <4>1
        <4> QED BY <1>7, <4>1, <4>2
      <3> HIDE DEF P
      <3>2. /\ ChangedAt(u, t, P, new) /\ p + m <= Len(t)
            /\ Misses(P, Len(new), p, m)
        BY <1>0, <3>1 DEF P, Misses
      <3>3. Window(u, p, m) = Window(t, p, m)
        <4> HIDE DEF m
        <4>1. /\ t \in Seq(Nat) /\ u \in Seq(Nat) /\ new \in Seq(Nat) /\ P \in SUBSET Nat
              /\ p \in Nat /\ m \in Nat
          BY <1>0, <1>6
        <4> QED BY ONLY <3>2, <4>1, Unchanged
      <3>4. Occurs(t, old, p)
        BY SpotsAre
      <3> QED BY <2>2, <3>3, <3>4 DEF Occurs
    <2> QED BY <2>1, <2>2
  <1>10. Window(u, a, l - a) = x \o (by \o Window(u, b, l - b))
    <2> DEFINE y == by
    <2>1. y \in Seq(Nat) /\ Len(y) = m
      <3> HIDE DEF m
      <3>1. p + m <= Len(u)
        BY <1>0
      <3> QED BY <1>0, <3>1, WindowIs
    <2>2. Occurs(u, y, p)
      BY <2>1 DEF Occurs
    <2> HIDE DEF y
    <2>3. p + Len(y) <= Len(u) /\ a \in Nat /\ p \in Nat /\ a <= p /\ u \in Seq(Nat)
      BY <1>0, <2>1
    <2>4. Window(u, a, Len(u) - a) =
             Window(u, a, p - a) \o (y \o Window(u, p + Len(y), Len(u) - (p + Len(y))))
      BY ONLY <2>1, <2>2, <2>3, AroundSep, Zenon
    <2> QED BY <1>0, <1>8, <2>1, <2>4 DEF y
  <1>11. k = OneLess(n) /\ by = Either(1, n, old, new)
    <2>1. CASE b <= e
      <3>1. n = 1 + k /\ by = new
        BY <1>3, <1>9, <2>1
      <3> HIDE DEF n, k, by
      <3> QED BY <1>2, <3>1 DEF OneLess, Either
    <2>2. CASE ~ (b <= e)
      <3>1. ASSUME NEW q \in Spots(t, old), b <= q PROVE ~ (q + m <= e)
        BY <1>0, <1>7, <2>2, <3>1
      <3>2. Within(t, old, b, e) = {}
        BY <3>1 DEF Within
      <3>3. k = 0
        BY <3>2, FS_EmptySet
      <3> QED BY <1>3, <1>9, <2>2, <3>3 DEF OneLess, Either
    <2> QED BY <2>1, <2>2
  <1>12. FlattenSeq(Replacing(<<x>> \o ps, old, new, n)) =
            x \o (by \o FlattenSeq(Replacing(ps, old, new, k)))
    <2>1. Len(ps) >= 1
      BY <1>1, <1>2
    <2> HIDE DEF x, ps, n
    <2>2. TakesOne(x, ps, old, new, n)
      <3>1. x \in Seq(Nat) /\ ps \in Seq(Seq(Nat)) /\ n \in Nat /\ old \in Seq(Nat) /\ new \in Seq(Nat)
        BY <1>2, <1>5
      <3> QED BY <2>1, <3>1, ReplacingMore
    <2> HIDE DEF k, by
    <2> QED BY <1>11, <2>2 DEF TakesOne
  <1>13. Len(f[a]) = 1 + Len(ps)
    <2> HIDE DEF x, ps
    <2>1. Len(<<x>> \o ps) = Len(ps) + 1 /\ Len(ps) \in Nat
      BY <1>5, InFront
    <2> QED BY <1>5, <2>1
  <1> HIDE DEF x, ps, by, n, k, b, l
  <1>14. FlattenSeq(Replacing(f[a], old, new, n)) = Window(u, a, l - a)
    BY <1>1, <1>5, <1>10, <1>12, Zenon
  <1> QED BY <1>1, <1>4, <1>13, <1>14 DEF Pieced, n, l

(* The last occurrence that ends by e; and x is u with new at p.            *)
LastSpot(t, old, e, p) ==
    /\ p \in Spots(t, old) /\ p + Len(old) <= e
    /\ \A q \in Spots(t, old) : q + Len(old) <= e => q <= p

PutAt(x, u, p, new) ==
    /\ x \in Seq(Nat) /\ Len(x) = Len(u)
    /\ \A j \in 1 .. Len(new) : x[p + j] = new[j]
    /\ \A k \in 1 .. Len(u) : k \notin p + 1 .. p + Len(new) => x[k] = u[k]

LEMMA RfindsSpot ==
    ASSUME NEW t \in Seq(Nat), NEW old \in Seq(Nat), NEW e \in 0 .. Len(t), Left(t, old, e) > 0
    PROVE  LastSpot(t, old, e, Rfind(t, old, 0, e)) /\ e > 0
  <1> DEFINE Hits == Occurrences(t, old, 0, e)
             S == Spots(t, old)
             p == Rfind(t, old, 0, e)
             l == Len(t)
  <1>1. e \in Nat /\ e > 0 /\ Hits # {} /\ l \in Nat /\ e <= l
    BY LeftIs
  <1>2. p = LastOf(Hits)
    <2>1. Bound(0, l) = 0 /\ EndBound(e, l) = e
      BY <1>1 DEF Bound, EndBound
    <2>2. Bound(0, l) \in Nat /\ EndBound(e, l) \in 0 .. l
      BY <1>1, <2>1
    <2> QED BY <2>1, <2>2, RfindIs
  <1>3. Hits \in SUBSET (0 .. e)
    BY <1>1, OccurrencesAreIn
  <1>4. Hits = {q \in S : 0 <= q /\ q + Len(old) <= e}
    <2>1. \A x, y \in 0 .. Len(t) :
             Occurrences(t, old, x, y) = {q \in Spots(t, old) : x <= q /\ q + Len(old) <= y}
      BY SpotsAre
    <2>2. 0 \in 0 .. Len(t) /\ e \in 0 .. Len(t)
      BY <1>1
    <2> QED BY <2>1, <2>2
  <1>5. \A q \in S : q \in Nat
    BY SpotsAre
  <1> HIDE DEF Hits, p, S
  <1>6. p \in Hits /\ \A k \in Hits : k <= p
    BY <1>1, <1>2, <1>3, LastOfIs
  <1>7. p \in S /\ p + Len(old) <= e
    BY <1>4, <1>6
  <1>8. \A q \in S : q + Len(old) <= e => q <= p
    BY <1>4, <1>5, <1>6
  <1> QED BY <1>1, <1>7, <1>8 DEF LastSpot, S, p

(* All that was to be changed before, and one more in front of that.        *)
LEMMA ChangedMore ==
    ASSUME NEW t \in Seq(Nat), NEW u \in Seq(Nat), NEW new \in Seq(Nat), NEW P \in SUBSET Nat,
           ChangedAt(u, t, P, new), NEW p \in Nat, p + Len(new) <= Len(t),
           \A q \in P : p + Len(new) <= q /\ q + Len(new) <= Len(t),
           NEW x, PutAt(x, u, p, new)
    PROVE  ChangedAt(x, t, P \cup {p}, new)
  <1> DEFINE n == Len(new)
             l == Len(t)
             Q == P \cup {p}
  <1>0. n \in Nat /\ l \in Nat /\ p + n <= l /\ Len(u) = l /\ Len(x) = l
    BY DEF ChangedAt, PutAt
  <1>1. ASSUME NEW q \in Q, NEW j \in 1 .. n PROVE x[q + j] = new[j]
    <2>1. CASE q = p
      BY <2>1 DEF PutAt
    <2>2. CASE q \in P
      <3>1. u[q + j] = new[j] /\ q \in Nat
        BY <2>2 DEF ChangedAt
      <3>2. p + n <= q /\ q + n <= l
        BY <2>2
      <3> HIDE DEF n, l
      <3>3. q + j \in 1 .. l /\ q + j \notin p + 1 .. p + n
        BY <1>0, <3>1, <3>2
      <3>4. x[q + j] = u[q + j]
        BY <1>0, <3>3 DEF PutAt, n, l
      <3> QED BY <3>1, <3>4
    <2> QED BY <2>1, <2>2
  <1>2. ASSUME NEW k \in 1 .. l, \A q \in Q : k \notin q + 1 .. q + n PROVE x[k] = t[k]
    <2>1. u[k] = t[k]
      BY <1>2 DEF ChangedAt
    <2>2. k \notin p + 1 .. p + n
      BY <1>2
    <2>3. x[k] = u[k]
      BY <1>0, <2>2 DEF PutAt
    <2> QED BY <2>1, <2>3
  <1> HIDE DEF Q
  <1> QED BY <1>0, <1>1, <1>2 DEF ChangedAt, n, l, Q

(* The occurrences up to end that have been read; and the buffer holds t    *)
(* with new in their place.                                                 *)
ReadSpots(t, old, end, read) == {q \in Within(t, old, 0, end) : read <= q}

(* One more has been read.                                                  *)
LEMMA ReadSpotsMore ==
    ASSUME NEW t \in Seq(Nat), NEW old \in Seq(Nat), Apart(Spots(t, old), Len(old)),
           NEW end \in 0 .. Len(t), NEW read \in 0 .. end, read = end \/ read \in Spots(t, old),
           NEW p, LastSpot(t, old, read, p)
    PROVE  ReadSpots(t, old, end, p) = ReadSpots(t, old, end, read) \cup {p}
  <1> DEFINE S == Spots(t, old)
             n == Len(old)
             W == Within(t, old, 0, end)
  <1>0. end \in Nat /\ read \in Nat /\ read <= end /\ n \in Nat
    <2>1. Len(t) \in Nat
      OBVIOUS
    <2> QED BY <2>1
  <1>1. p \in S /\ p + n <= read /\ \A q \in S : q + n <= read => q <= p
    BY DEF LastSpot
  <1>2. \A q \in S : q \in Nat /\ n >= 1
    BY SpotsAre
  <1>3. \A q \in S : q \in W <=> q + n <= end
    <2>1. \A q \in S : 0 <= q
      BY <1>2
    <2> QED BY <2>1 DEF Within
  <1>4. ASSUME NEW q \in W, p <= q PROVE q = p \/ read <= q
    <2>1. q \in S /\ q \in Nat /\ q + n <= end
      <3>1. q \in S
        BY DEF Within
      <3> QED BY <1>2, <1>3, <3>1
    <2>2. CASE q + n <= read
      BY <1>1, <1>2, <1>4, <2>1, <2>2
    <2>3. CASE ~ (q + n <= read) /\ read \in S
      <3>1. q < read => q + n <= read
        BY <2>1, <2>3 DEF Apart
      <3> QED BY <1>0, <2>1, <2>3, <3>1
    <2>4. CASE ~ (q + n <= read) /\ read = end
      BY <2>1, <2>4
    <2> QED BY <2>2, <2>3, <2>4
  <1>5. p \in W /\ p \in Nat /\ p <= p
    <2>1. p + n <= end /\ p \in Nat
      BY <1>0, <1>1, <1>2
    <2> QED BY <1>1, <1>3, <2>1
  <1>6. ASSUME NEW q \in W, read <= q PROVE p <= q
    <2>1. q \in Nat
      BY <1>2 DEF Within
    <2>2. p <= read
      BY <1>0, <1>1, <1>2
    <2> QED BY <1>0, <1>5, <1>6, <2>1, <2>2
  <1> HIDE DEF W
  <1> QED BY <1>4, <1>5, <1>6 DEF ReadSpots, W

(* Where no two overlap, as many are left as there are.                     *)
LEMMA LeftCounts ==
    ASSUME NEW t \in Seq(Nat), NEW old \in Seq(Nat), Apart(Spots(t, old), Len(old)),
           NEW e \in 0 .. Len(t)
    PROVE  Left(t, old, e) = Cardinality(Within(t, old, 0, e))
  <1> DEFINE W == Within(t, old, 0, e)
  <1>1. Occurrences(t, old, 0, e) = W
    <2>1. \A x, y \in 0 .. Len(t) :
             Occurrences(t, old, x, y) = {q \in Spots(t, old) : x <= q /\ q + Len(old) <= y}
      BY SpotsAre
    <2>2. 0 \in 0 .. Len(t) /\ e \in 0 .. Len(t) /\ Len(t) \in Nat
      OBVIOUS
    <2> QED BY <2>1, <2>2 DEF Within
  <1>2. W \in SUBSET (0 .. Len(t)) /\ W \subseteq Spots(t, old)
    BY WithinIs
  <1>3. Apart(W, Len(old))
    BY <1>2 DEF Apart
  <1> HIDE DEF W
  <1>4. MostApart(W, Len(old)) = Cardinality(W)
    BY <1>2, <1>3, ApartCounts, Len(t) \in Nat, Len(old) \in Nat
  <1> QED BY <1>1, <1>4 DEF Left, W

(* replace does what the header says, where old and new are of one length,  *)
(* no two occurrences of old overlap and no more of them are asked for than *)
(* there are.                                                               *)
Fits(t, old, new, count) ==
    LET times == Count(t, old, 0, Len(t))
    IN  times > 0 => Len(new) = Len(old) /\ count <= times /\ Apart(Spots(t, old), Len(old))

LEMMA NoSpots ==
    ASSUME NEW t \in Seq(Nat), NEW old \in Seq(Nat), Count(t, old, 0, Len(t)) = 0
    PROVE  Apart(Spots(t, old), Len(old))
  <1>1. Len(t) \in {0, Len(t)}
    OBVIOUS
  <1>2. ~ (Count(t, old, 0, Len(t)) > 0)
    OBVIOUS
  <1>3. Spots(t, old) = {}
    BY <1>1, <1>2, CountsSome DEF Spots
  <1> QED BY <1>3 DEF Apart
=============================================================================

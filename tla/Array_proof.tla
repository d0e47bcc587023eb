------------------------------ MODULE Array_proof ------------------------------
(* Theorems about Array, for every size, every set of values, places and    *)
(* steps, and any number of iterators.                                      *)
EXTENDS Array, SequenceTheorems, TLAPS

(* Where an iterator may be: its bounds are inside the array, and cur has   *)
(* not gone past the end it makes for.                                      *)
Bounded(i) ==
    \/ /\ i.step > 0
       /\ 0 <= i.start /\ i.start <= i.cur /\ i.cur <= i.stop /\ i.stop <= size
    \/ /\ i.step < 0
       /\ -1 <= i.stop /\ i.stop <= i.cur /\ i.cur <= i.start /\ i.start < size

(* What i has returned is v: VisitsInSteps of one iterator.                 *)
Visits(i, v) ==
    /\ \A k \in DOMAIN v : v[k] = i.start + (k - 1) * i.step /\ Before(i, v[k])
    /\ IF Done(i) THEN ~ Before(i, i.start + Len(v) * i.step)
                  ELSE i.cur = i.start + Len(v) * i.step

(* i is an iterator of the array, made when its direction was d.            *)
OfArray(i, d) ==
    IF d THEN i.start = size - 1 /\ i.stop = -1 /\ i.step = -1
         ELSE i.start = 0 /\ i.stop = size /\ i.step = 1

IterInv ==
    \A it \in Iterators : iters[it] # NULL =>
        /\ Bounded(iters[it])
        /\ Visits(iters[it], visited[it])
        /\ made[it] # NULL => OfArray(iters[it], made[it])

Unmade == \A it \in Iterators : iters[it] = NULL => made[it] = NULL /\ visited[it] = <<>>

IInv == TypeOK /\ IterInv /\ Unmade

-----------------------------------------------------------------------------
(* One iterator *)

LEMMA TimesNext ==
    ASSUME NEW n \in Int, NEW s \in Int
    PROVE  (n + 1) * s = n * s + s /\ n * s \in Int
  OBVIOUS

(* An iterator that has just begun, at start.                               *)
LEMMA BeginVisits ==
    ASSUME NEW i \in Iterator, Bounded(i), i.cur = i.start
    PROVE  Visits(i, <<>>)
  <1>1. i.start \in Int /\ i.stop \in Int /\ i.step \in Int /\ i.start + 0 * i.step = i.start
    BY DEF Iterator
  <1>2. Len(<<>>) = 0 /\ DOMAIN <<>> = {}
    OBVIOUS
  <1> QED
    BY <1>1, <1>2 DEF Visits, Done, Before, Bounded

(* A step stays in the bounds and never stops short of an element.          *)
LEMMA StepVisits ==
    ASSUME NEW i \in Iterator, Bounded(i), ~ Done(i), NEW v \in Seq(Int), Visits(i, v)
    PROVE  LET j == [i EXCEPT !.cur = Stepped(i)]
           IN  /\ j \in Iterator /\ Bounded(j)
               /\ Visits(j, Append(v, i.cur))
  <1> DEFINE j == [i EXCEPT !.cur = Stepped(i)]
             w == Append(v, i.cur)
             n == Len(v)
  <1>1. i.start \in Int /\ i.cur \in Int /\ i.stop \in Int /\ i.step \in Int /\ i.step # 0
    BY DEF Iterator
  <1>2. Stepped(i) \in Int
    BY <1>1 DEF Stepped
  <1>3. /\ j \in Iterator /\ j.start = i.start /\ j.stop = i.stop /\ j.step = i.step
        /\ j.cur = Stepped(i)
    BY <1>2 DEF Iterator
  <1>4. Bounded(j)
    BY <1>1, <1>3 DEF Bounded, Stepped, Done
  <1>5. n \in Nat /\ w \in Seq(Int) /\ Len(w) = n + 1 /\ w[n + 1] = i.cur
        /\ \A k \in 1 .. n : w[k] = v[k]
    BY <1>1
  <1>6. i.cur = i.start + n * i.step /\ Before(i, i.cur)
    BY <1>1 DEF Visits, Bounded, Before, Done
  <1> HIDE DEF j, w
  <1>7. (n + 1) * i.step = n * i.step + i.step /\ n * i.step \in Int
    <2>1. n \in Int /\ i.step \in Int
      BY <1>1, <1>5
    <2> QED BY ONLY <2>1, TimesNext
  <1>8. \A k \in DOMAIN w : w[k] = j.start + (k - 1) * j.step /\ Before(j, w[k])
    <2> SUFFICES ASSUME NEW k \in 1 .. n + 1
                 PROVE  w[k] = j.start + (k - 1) * j.step /\ Before(j, w[k])
      BY <1>5
    <2>1. CASE k = n + 1
      BY <1>1, <1>3, <1>5, <1>6, <2>1 DEF Before
    <2>2. CASE k \in 1 .. n
      <3>1. v[k] = i.start + (k - 1) * i.step /\ Before(i, v[k])
        BY <2>2 DEF Visits
      <3> QED BY <1>3, <1>5, <2>2, <3>1 DEF Before
    <2> QED BY <1>5, <2>1, <2>2
  <1>9. IF Done(j) THEN ~ Before(j, j.start + Len(w) * j.step)
                   ELSE j.cur = j.start + Len(w) * j.step
    <2> DEFINE e == i.start + (n + 1) * i.step
    <2>1. e = i.cur + i.step /\ e \in Int
      BY <1>1, <1>6, <1>7, SMTT(20)
    <2>2. j.start + Len(w) * j.step = e
      BY <1>3, <1>5
    <2> HIDE DEF e
    <2>3. IF Done(j) THEN ~ Before(j, e) ELSE j.cur = e
      BY <1>1, <1>3, <2>1 DEF Done, Before, Stepped, Bounded
    <2> QED BY <2>2, <2>3
  <1> QED
    BY <1>3, <1>4, <1>8, <1>9 DEF Visits, j, w

-----------------------------------------------------------------------------
(* The invariant *)

(* The iterator that the array makes is of the array, and inside it.        *)
LEMMA AroundOfArray ==
    ASSUME size \in Nat, reversed \in BOOLEAN
    PROVE  /\ Around \in Iterator /\ Bounded(Around) /\ Around.cur = Around.start
           /\ OfArray(Around, reversed)
  BY DEF Around, Iterator, Bounded, OfArray

(* Whatever begins inside the array, and is of it if it is said to be, may  *)
(* be begun.                                                                *)
LEMMA BeginKeeps ==
    ASSUME IInv, NEW it \in Iterators, NEW i \in Iterator,
           Bounded(i), i.cur = i.start,
           NEW direction \in BOOLEAN \cup {NULL},
           direction # NULL => OfArray(i, direction),
           Begin(it, i, direction)
    PROVE  IInv'
  <1>1. size' = size /\ iters' = [iters EXCEPT ![it] = i]
        /\ made' = [made EXCEPT ![it] = direction] /\ visited' = [visited EXCEPT ![it] = <<>>]
    BY DEF Begin
  <1>2. TypeOK'
    BY <1>1 DEF IInv, TypeOK, Begin, Positions
  <1>3. IterInv'
    <2> SUFFICES ASSUME NEW k \in Iterators, iters'[k] # NULL
                 PROVE  (/\ Bounded(iters[k]) /\ Visits(iters[k], visited[k])
                         /\ made[k] # NULL => OfArray(iters[k], made[k]))'
      BY DEF IterInv
    <2>1. CASE k = it
      <3>1. iters'[k] = i /\ made'[k] = direction /\ visited'[k] = <<>>
        BY <1>1, <2>1 DEF IInv, TypeOK
      <3>2. Visits(i, <<>>)
        BY BeginVisits
      <3> QED BY <1>1, <3>1, <3>2 DEF Visits, Bounded, OfArray, Done, Before
    <2>2. CASE k # it
      <3>1. iters'[k] = iters[k] /\ made'[k] = made[k] /\ visited'[k] = visited[k]
        BY <1>1, <2>2 DEF IInv, TypeOK
      <3> QED BY <1>1, <3>1 DEF IInv, IterInv, Visits, Bounded, OfArray, Done, Before
    <2> QED BY <2>1, <2>2
  <1>4. Unmade'
    BY <1>1, NullAssumption DEF IInv, TypeOK, Unmade
  <1> QED BY <1>2, <1>3, <1>4 DEF IInv

LEMMA InitInv == Init => IInv
  <1> SUFFICES ASSUME Init PROVE IInv
    OBVIOUS
  <1>1. TypeOK
    <2>1. visited \in [Iterators -> Seq(Int)]
      BY DEF Init
    <2>2. reversed \in BOOLEAN /\ undefined \in BOOLEAN
      BY DEF Init
    <2>3. iters \in [Iterators -> Iterator \cup {NULL}]
          /\ made \in [Iterators -> BOOLEAN \cup {NULL}]
      BY DEF Init
    <2> QED BY <2>1, <2>2, <2>3 DEF Init, TypeOK
  <1>2. IterInv /\ Unmade
    BY DEF Init, IterInv, Unmade
  <1> QED BY <1>1, <1>2 DEF IInv

(* What leaves the iterators, and the size, alone keeps all that is said of *)
(* them.                                                                    *)
LEMMA SameIterators ==
    ASSUME IInv, UNCHANGED <<size, iters, made, visited>>
    PROVE  IterInv' /\ Unmade'
  BY DEF IInv, IterInv, Unmade, Visits, Bounded, OfArray, Done, Before

(* Division has one quotient and one remainder.                             *)
LEMMA OneQuotient ==
    ASSUME NEW n \in Nat, n > 0, NEW a \in Int, NEW b \in Int, NEW r \in 0 .. n - 1, a = n * b + r
    PROVE  a % n = r
  <1> DEFINE c == a \div n
             s == a % n
  <1>1. c \in Int /\ s \in 0 .. n - 1 /\ a = n * c + s
    OBVIOUS
  <1> HIDE DEF c, s
  <1>2. n * (b - c) = s - r
    BY <1>1
  <1>3. ASSUME NEW e \in Int, e >= 1 PROVE n * e >= n
    BY <1>3
  <1>4. ~ (b - c >= 1)
    BY <1>1, <1>2, <1>3
  <1>5. n * (c - b) = r - s
    BY <1>1
  <1>6. ~ (c - b >= 1)
    BY <1>1, <1>3, <1>5
  <1>7. b = c
    BY <1>1, <1>4, <1>6
  <1> QED BY <1>1, <1>7 DEF s

(* A place below 0 counts round from the end (array.h:29-31): the place is  *)
(* taken modulo the size.                                                   *)
LEMMA WrappedIsPlace ==
    ASSUME NEW n \in Nat, n > 0, NEW loc \in Int, loc < 0
    PROVE  Wrapped(loc, n) \in 0 .. n - 1 /\ Wrapped(loc, n) = loc % n
  <1> DEFINE m == - (loc + 1)
             q == m \div n
             r == n - 1 - (m % n)
  <1>1. m \in Nat /\ loc = - m - 1
    OBVIOUS
  <1>2. m = n * q + (m % n) /\ m % n \in 0 .. n - 1 /\ q \in Int
    BY <1>1
  <1>3. Quot(loc + 1, n) = - q
    <2>1. CASE loc + 1 = 0
      <3>1. m = 0 /\ q = 0
        BY <1>1, <2>1
      <3>2. (loc + 1) \div n = 0
        BY <2>1
      <3> QED BY <2>1, <3>1, <3>2 DEF Quot
    <2>2. CASE loc + 1 # 0
      BY <2>2 DEF Quot
    <2> QED BY <2>1, <2>2
  <1>4. Wrapped(loc, n) = loc - (- q - 1) * n
    BY <1>3 DEF Wrapped
  <1>5. r \in 0 .. n - 1
    BY <1>2
  <1> HIDE DEF q
  <1>6. (- q - 1) * n = - (n * q) - n /\ n * (- q - 1) = - (n * q) - n /\ n * q \in Int
    BY <1>2
  <1>7. Wrapped(loc, n) = r
    BY <1>1, <1>2, <1>4, <1>6
  <1>8. loc = n * (- q - 1) + r /\ - q - 1 \in Int
    BY <1>1, <1>2, <1>6
  <1> HIDE DEF r
  <1>9. loc % n = r
    BY <1>5, <1>8, OneQuotient
  <1> QED BY <1>5, <1>7, <1>9

(* The place that get and set go to is in the array.                        *)
LEMMA PlaceInside ==
    ASSUME size \in Nat, NEW loc \in Int, Exists(loc)
    PROVE  Wrapped(loc, size) \in Positions
  <1>1. CASE loc >= 0
    BY <1>1 DEF Wrapped, Exists, Positions
  <1>2. CASE loc < 0
    BY <1>2, WrappedIsPlace DEF Exists, Positions
  <1> QED BY <1>1, <1>2

LEMMA AtInside ==
    ASSUME size \in Nat, reversed \in BOOLEAN, NEW loc \in Int, Exists(loc)
    PROVE  At(loc) \in Positions
  BY PlaceInside DEF At, Mirrored, Positions

LEMMA StepInv == IInv /\ [Next]_vars => IInv'
  <1> SUFFICES ASSUME IInv, [Next]_vars PROVE IInv'
    OBVIOUS
  <1>0. /\ size \in Nat /\ reversed \in BOOLEAN /\ array \in [Positions -> Values]
        /\ iters \in [Iterators -> Iterator \cup {NULL}]
        /\ made \in [Iterators -> BOOLEAN \cup {NULL}]
        /\ visited \in [Iterators -> Seq(Int)]
    BY SizesAssumption DEF IInv, TypeOK
  <1>1. ASSUME NEW loc \in Locations, Get(loc) PROVE IInv'
    <2>1. TypeOK'
      BY <1>1 DEF IInv, TypeOK, Get, Positions
    <2> QED BY <1>1, <2>1, SameIterators DEF IInv, Get
  <1>2. ASSUME NEW loc \in Locations, NEW val \in Values, Set(loc, val) PROVE IInv'
    <2>1. array' \in [Positions -> Values]
      <3>1. CASE Exists(loc)
        <4>1. loc \in Int
          BY LocationAssumption
        <4>2. At(loc) \in Positions
          BY <1>0, <3>1, <4>1, AtInside
        <4> QED BY <1>0, <1>2, <3>1, <4>2 DEF Set
      <3>2. CASE ~ Exists(loc)
        BY <1>0, <1>2, <3>2 DEF Set
      <3> QED BY <3>1, <3>2
    <2>2. TypeOK'
      BY <1>2, <2>1 DEF IInv, TypeOK, Set, Positions
    <2> QED BY <1>2, <2>2, SameIterators DEF IInv, Set
  <1>3. CASE Reverse
    <2>1. TypeOK'
      BY <1>3 DEF IInv, TypeOK, Reverse, Positions
    <2> QED BY <1>3, <2>1, SameIterators DEF IInv, Reverse
  <1>4. ASSUME NEW it \in Iterators, Iter(it) PROVE IInv'
    <2>1. /\ Around \in Iterator /\ Bounded(Around) /\ Around.cur = Around.start
          /\ OfArray(Around, reversed)
      BY <1>0, AroundOfArray
    <2>2. Begin(it, Around, reversed)
      BY <1>4 DEF Iter
    <2> QED BY <1>0, <2>1, <2>2, BeginKeeps
  <1>5. ASSUME NEW it \in Iterators, NEW start \in Positions,
               NEW stop \in Positions \cup {-1, size}, NEW step \in Steps,
               Make(it, start, stop, step)
        PROVE  IInv'
    <2> DEFINE i == [start |-> start, cur |-> start, stop |-> stop, step |-> step]
    <2>1. start \in Int /\ stop \in Int /\ step \in Int \ {0}
      BY <1>0, StepsAssumption DEF Positions
    <2>2. i \in Iterator /\ i.cur = i.start
      BY <2>1 DEF Iterator
    <2>3. Bounded(i)
      BY <1>5, <2>1 DEF Make, Bounded
    <2>4. Begin(it, i, NULL)
      BY <1>5 DEF Make
    <2> QED BY <2>2, <2>3, <2>4, BeginKeeps
  <1>6. ASSUME NEW it \in Iterators, NEW from \in Iterators, Restart(it, from) PROVE IInv'
    <2> DEFINE i == Restarted(iters[from])
    <2>1. /\ iters[from] \in Iterator /\ Bounded(iters[from])
          /\ made[from] # NULL => OfArray(iters[from], made[from])
      BY <1>0, <1>6 DEF IInv, IterInv, Restart
    <2>2. /\ i \in Iterator /\ i.cur = i.start /\ i.start = iters[from].start
          /\ i.stop = iters[from].stop /\ i.step = iters[from].step
      BY <2>1 DEF Iterator, Restarted
    <2>3. Begin(it, i, made[from])
      BY <1>6 DEF Restart
    <2> HIDE DEF i
    <2>4. Bounded(i)
      BY <1>0, <2>1, <2>2 DEF Bounded, Iterator
    <2>5. made[from] # NULL => OfArray(i, made[from])
      BY <2>1, <2>2 DEF OfArray
    <2> QED BY <1>0, <2>2, <2>3, <2>4, <2>5, BeginKeeps
  <1>7. ASSUME NEW it \in Iterators, NextEnds(it) PROVE IInv'
    <2>1. TypeOK'
      BY <1>7 DEF IInv, TypeOK, NextEnds, Positions
    <2> QED BY <1>7, <2>1, SameIterators DEF IInv, NextEnds
  <1>8. ASSUME NEW it \in Iterators, NextElement(it) PROVE IInv'
    <2> DEFINE j == [iters[it] EXCEPT !.cur = Stepped(iters[it])]
               w == Append(visited[it], iters[it].cur)
    <2>1. /\ iters[it] \in Iterator /\ Bounded(iters[it]) /\ ~ Done(iters[it])
          /\ visited[it] \in Seq(Int) /\ Visits(iters[it], visited[it])
      BY <1>0, <1>8 DEF IInv, IterInv, NextElement
    <2>2. j \in Iterator /\ Bounded(j) /\ Visits(j, w)
      BY <2>1, StepVisits
    <2>3. w \in Seq(Int) /\ j.start = iters[it].start /\ j.stop = iters[it].stop
          /\ j.step = iters[it].step
      BY <2>1 DEF Iterator
    <2>4. /\ iters' = [iters EXCEPT ![it] = j] /\ visited' = [visited EXCEPT ![it] = w]
          /\ UNCHANGED <<size, array, reversed, made, undefined>>
      BY <1>8 DEF NextElement
    <2> HIDE DEF j, w
    <2>5. TypeOK'
      BY <2>2, <2>3, <2>4 DEF IInv, TypeOK, Positions
    <2>6. IterInv'
      <3> SUFFICES ASSUME NEW k \in Iterators, iters'[k] # NULL
                   PROVE  (/\ Bounded(iters[k]) /\ Visits(iters[k], visited[k])
                           /\ made[k] # NULL => OfArray(iters[k], made[k]))'
        BY DEF IterInv
      <3>1. CASE k = it
        <4>1. iters'[k] = j /\ visited'[k] = w /\ made'[k] = made[it]
          BY <1>0, <2>4, <3>1
        <4>2. made[it] # NULL => OfArray(iters[it], made[it])
          BY <1>8 DEF IInv, IterInv, NextElement
        <4>3. (Bounded(iters[k]) /\ Visits(iters[k], visited[k]))'
          BY <2>2, <2>4, <4>1 DEF Visits, Bounded, Done, Before
        <4>4. (made[k] # NULL => OfArray(iters[k], made[k]))'
          BY <2>3, <2>4, <4>1, <4>2 DEF OfArray
        <4> QED BY <4>3, <4>4
      <3>2. CASE k # it
        <4>1. iters'[k] = iters[k] /\ visited'[k] = visited[k] /\ made'[k] = made[k]
          BY <1>0, <2>4, <3>2
        <4> QED
          BY <2>4, <4>1 DEF IInv, IterInv, Visits, Bounded, OfArray, Done, Before
      <3> QED BY <3>1, <3>2
    <2>7. Unmade'
      BY <1>0, <1>8, <2>2, <2>4, NullAssumption, ZenonT(30) DEF IInv, Unmade, NextElement
    <2> QED BY <2>5, <2>6, <2>7 DEF IInv
  <1>9. CASE Contains
    <2>1. TypeOK'
      BY <1>9 DEF IInv, TypeOK, Contains, Positions
    <2> QED BY <1>9, <2>1, SameIterators DEF IInv, Contains
  <1>10. CASE UNCHANGED vars
    <2>1. TypeOK'
      BY <1>10 DEF IInv, TypeOK, vars, Positions
    <2> QED BY <1>10, <2>1, SameIterators DEF IInv, vars
  <1> QED
    BY <1>1, <1>2, <1>3, <1>4, <1>5, <1>6, <1>7, <1>8, <1>9, <1>10 DEF Next, Step

LEMMA Invariant == Spec => []IInv
  <1> QED BY InitInv, StepInv, PTL DEF Spec

-----------------------------------------------------------------------------
(* What the iterators promise *)

LEMMA InvPointers == IInv => PointersInside
  <1> SUFFICES ASSUME IInv, NEW it \in Iterators, iters[it] # NULL, ~ Done(iters[it])
               PROVE  iters[it].cur \in Positions
    BY DEF PointersInside
  <1>1. size \in Nat /\ iters[it] \in Iterator /\ Bounded(iters[it])
    BY SizesAssumption DEF IInv, TypeOK, IterInv
  <1>2. iters[it].start \in Int /\ iters[it].cur \in Int /\ iters[it].stop \in Int
    BY <1>1 DEF Iterator
  <1> QED BY <1>1, <1>2 DEF Bounded, Done, Positions

LEMMA InvVisits == IInv => VisitsInSteps
  BY DEF IInv, IterInv, VisitsInSteps, Visits

(* An iterator of the array has been to the first places in its direction,  *)
(* and, when it is done, to all.                                            *)
LEMMA OfArrayVisits ==
    ASSUME size \in Nat, NEW i \in Iterator, Bounded(i), NEW v \in Seq(Int), Visits(i, v),
           NEW d \in BOOLEAN, OfArray(i, d)
    PROVE  /\ \A k \in DOMAIN v : k \in 1 .. size /\ v[k] = IF d THEN size - k ELSE k - 1
           /\ Done(i) => Len(v) = size
  <1>1. Len(v) \in Nat /\ DOMAIN v = 1 .. Len(v)
    OBVIOUS
  <1>2. CASE d
    <2>1. i.start = size - 1 /\ i.stop = -1 /\ i.step = -1
      BY <1>2 DEF OfArray
    <2>2. ASSUME NEW k \in DOMAIN v PROVE k \in 1 .. size /\ v[k] = size - k
      BY <1>1, <2>1 DEF Visits, Before
    <2>3. ASSUME Done(i) PROVE Len(v) = size
      <3>1. ~ (i.start + Len(v) * i.step > -1)
        BY <2>1, <2>3 DEF Visits, Before
      <3>2. Len(v) >= size
        BY <1>1, <2>1, <3>1
      <3>3. Len(v) # 0 => Len(v) \in DOMAIN v
        BY <1>1
      <3>4. Len(v) # 0 => Len(v) \in 1 .. size
        BY <2>2, <3>3
      <3> DEFINE n == Len(v)
      <3>5. n \in Nat /\ n >= size /\ (n # 0 => n \in 1 .. size)
        BY <1>1, <3>2, <3>4
      <3> HIDE DEF n
      <3>6. n = size
        BY <3>5
      <3> QED BY <3>6 DEF n
    <2> QED BY <1>2, <2>2, <2>3
  <1>3. CASE ~ d
    <2>1. i.start = 0 /\ i.stop = size /\ i.step = 1
      BY <1>3 DEF OfArray
    <2>2. ASSUME NEW k \in DOMAIN v PROVE k \in 1 .. size /\ v[k] = k - 1
      BY <1>1, <2>1 DEF Visits, Before
    <2>3. ASSUME Done(i) PROVE Len(v) = size
      <3>1. ~ (i.start + Len(v) * i.step < size)
        BY <2>1, <2>3 DEF Visits, Before
      <3>2. Len(v) >= size
        BY <1>1, <2>1, <3>1
      <3>3. Len(v) # 0 => Len(v) \in DOMAIN v
        BY <1>1
      <3>4. Len(v) # 0 => Len(v) \in 1 .. size
        BY <2>2, <3>3
      <3> DEFINE n == Len(v)
      <3>5. n \in Nat /\ n >= size /\ (n # 0 => n \in 1 .. size)
        BY <1>1, <3>2, <3>4
      <3> HIDE DEF n
      <3>6. n = size
        BY <3>5
      <3> QED BY <3>6 DEF n
    <2> QED BY <1>3, <2>2, <2>3
  <1> QED BY <1>2, <1>3

LEMMA InvIterates == IInv => IteratesAsGet /\ IteratesOverAll
  <1> SUFFICES ASSUME IInv, NEW it \in Iterators, made[it] # NULL
               PROVE  /\ \A k \in DOMAIN visited[it] :
                            visited[it][k] = IF made[it] = reversed THEN At(k - 1) ELSE At(size - k)
                      /\ Done(iters[it]) => Len(visited[it]) = size
    BY DEF IteratesAsGet, IteratesOverAll
  <1> DEFINE i == iters[it]
             d == made[it]
             v == visited[it]
  <1>1. size \in Nat /\ reversed \in BOOLEAN /\ d \in BOOLEAN /\ v \in Seq(Int)
    BY SizesAssumption DEF IInv, TypeOK
  <1>2. i # NULL
    BY DEF IInv, Unmade
  <1>3. i \in Iterator /\ Bounded(i) /\ Visits(i, v) /\ OfArray(i, d)
    BY <1>2 DEF IInv, TypeOK, IterInv
  <1> HIDE DEF i, d, v
  <1>4. /\ \A k \in DOMAIN v : k \in 1 .. size /\ v[k] = IF d THEN size - k ELSE k - 1
        /\ Done(i) => Len(v) = size
    BY <1>1, <1>3, OfArrayVisits
  <1>5. ASSUME NEW k \in 1 .. size
        PROVE  /\ At(k - 1) = IF reversed THEN size - k ELSE k - 1
               /\ At(size - k) = IF reversed THEN k - 1 ELSE size - k
    BY <1>1 DEF At, Mirrored, Wrapped
  <1>6. ASSUME NEW k \in DOMAIN v
        PROVE  v[k] = IF d = reversed THEN At(k - 1) ELSE At(size - k)
    <2>1. k \in 1 .. size /\ v[k] = IF d THEN size - k ELSE k - 1
      BY <1>4
    <2>2. /\ At(k - 1) = IF reversed THEN size - k ELSE k - 1
          /\ At(size - k) = IF reversed THEN k - 1 ELSE size - k
      BY <1>5, <2>1
    <2>3. CASE d /\ reversed
      BY <1>1, <2>1, <2>2, <2>3
    <2>4. CASE d /\ ~ reversed
      BY <1>1, <2>1, <2>2, <2>4
    <2>5. CASE ~ d /\ reversed
      BY <1>1, <2>1, <2>2, <2>5
    <2>6. CASE ~ d /\ ~ reversed
      BY <1>1, <2>1, <2>2, <2>6
    <2> QED BY <1>1, <2>3, <2>4, <2>5, <2>6
  <1> QED BY <1>4, <1>6 DEF i, d, v

(* No iterator leaves the array (array.h:75), whatever its step and bounds, *)
(* and however often it is begun anew or the array reversed under it.       *)
THEOREM IteratorsStayInside == Spec => []PointersInside
  BY Invariant, InvPointers, PTL

(* Every iterator returns its start and what is whole steps from it, and is *)
(* done exactly when there is no more before its stop (array.h:70-90).      *)
THEOREM IteratorsStep == Spec => []VisitsInSteps
  BY Invariant, InvVisits, PTL

(* The iterator that the array makes goes where get goes, in the direction  *)
(* in which it was made, and is done when it has been everywhere            *)
(* (array.h:123-128).                                                       *)
THEOREM IteratorsFollowGet == Spec => [](IteratesAsGet /\ IteratesOverAll)
  BY Invariant, InvIterates, PTL

-----------------------------------------------------------------------------
(* The array implements SequenceInterface *)

(* The elements in the order of their places.                               *)
Elements == [k \in 1 .. size |-> array[At(k - 1)]]

LEMMA ElementsSeq ==
    ASSUME IInv
    PROVE  /\ size \in Nat /\ Elements \in Seq(Values) /\ Len(Elements) = size
           /\ DOMAIN Elements = 1 .. size
           /\ Elements = [k \in 1 .. size |-> array[Mirrored(k - 1)]]
  <1>1. size \in Nat /\ reversed \in BOOLEAN /\ array \in [Positions -> Values]
    BY SizesAssumption DEF IInv, TypeOK
  <1>2. \A k \in 1 .. size : At(k - 1) = Mirrored(k - 1) /\ Mirrored(k - 1) \in Positions
    BY <1>1 DEF At, Wrapped, Mirrored, Positions
  <1>3. Elements \in [1 .. size -> Values]
    BY <1>1, <1>2 DEF Elements
  <1>4. Elements \in Seq(Values) /\ Len(Elements) = size
    BY <1>1, <1>3, SeqDef, LenProperties
  <1> QED BY <1>1, <1>2, <1>3, <1>4 DEF Elements

LEMMA InitInterface == Init => Interface!Init
  <1> SUFFICES ASSUME Init PROVE Interface!Init
    OBVIOUS
  <1>1. Elements \in Seq(Values)
    BY InitInv, ElementsSeq
  <1> QED BY <1>1 DEF Init, Interface!Init, Elements

(* The places that exist, and which element is there.                       *)
LEMMA SamePlaces ==
    ASSUME IInv, NEW loc \in Int
    PROVE  /\ Exists(loc) <=> Interface!Exists(loc)
           /\ Exists(loc) => /\ Interface!At(loc) \in 1 .. size
                             /\ Interface!At(loc) = Wrapped(loc, size) + 1
                             /\ Elements[Interface!At(loc)] = array[At(loc)]
  <1>1. /\ size \in Nat /\ Elements \in Seq(Values) /\ Len(Elements) = size
        /\ Elements = [k \in 1 .. size |-> array[Mirrored(k - 1)]]
    BY ElementsSeq
  <1>2. Elements = <<>> <=> size = 0
    BY <1>1
  <1>3. Exists(loc) <=> loc < size /\ (loc < 0 => size # 0)
    <2>1. CASE loc >= 0
      BY <1>1, <2>1 DEF Exists, Wrapped
    <2>2. CASE loc < 0 /\ size # 0
      BY <1>1, <2>2, WrappedIsPlace DEF Exists
    <2>3. CASE loc < 0 /\ size = 0
      BY <2>3 DEF Exists
    <2> QED BY <1>1, <2>1, <2>2, <2>3
  <1>4. Interface!Exists(loc) <=> loc < size /\ (loc < 0 => size # 0)
    BY <1>1, <1>2 DEF Interface!Exists, Elements
  <1>5. ASSUME Exists(loc)
        PROVE  Wrapped(loc, size) = (IF loc < 0 THEN loc % size ELSE loc)
               /\ Wrapped(loc, size) \in 0 .. size - 1
    <2>1. CASE loc >= 0
      BY <1>1, <1>5, <2>1 DEF Exists, Wrapped
    <2>2. CASE loc < 0
      BY <1>1, <1>5, <2>2, WrappedIsPlace DEF Exists
    <2> QED BY <2>1, <2>2
  <1>6. Interface!At(loc) = (IF loc < 0 THEN loc % size ELSE loc) + 1
    BY <1>1 DEF Interface!At, Elements
  <1>7. ASSUME Exists(loc)
        PROVE  Elements[Wrapped(loc, size) + 1] = array[At(loc)]
    BY <1>1, <1>5, <1>7 DEF At
  <1>8. Exists(loc) <=> Interface!Exists(loc)
    BY ONLY <1>3, <1>4
  <1>9. ASSUME Exists(loc)
        PROVE  /\ Interface!At(loc) \in 1 .. size
               /\ Interface!At(loc) = Wrapped(loc, size) + 1
               /\ Elements[Interface!At(loc)] = array[At(loc)]
    <2>1. Wrapped(loc, size) \in 0 .. size - 1 /\ Interface!At(loc) = Wrapped(loc, size) + 1
      BY <1>5, <1>6, <1>9
    <2>2. Wrapped(loc, size) + 1 \in 1 .. size
      BY <1>1, <2>1
    <2> QED BY <1>7, <1>9, <2>1, <2>2
  <1> QED BY <1>8, <1>9

LEMMA StepInterface == IInv /\ IInv' /\ [Next]_vars => [Interface!Next]_(Interface!vars)
  <1> SUFFICES ASSUME IInv, IInv', [Next]_vars
               PROVE  Interface!Next \/ UNCHANGED <<Elements, call, result>>
    BY DEF Interface!vars, Elements
  <1>0. /\ size \in Nat /\ reversed \in BOOLEAN /\ array \in [Positions -> Values]
        /\ Elements \in Seq(Values) /\ Len(Elements) = size /\ DOMAIN Elements = 1 .. size
        /\ Elements = [k \in 1 .. size |-> array[Mirrored(k - 1)]]
    BY ElementsSeq DEF IInv, TypeOK
  <1>00. /\ size' \in Nat
         /\ Elements' = [k \in 1 .. size' |->
                            array'[IF reversed' THEN size' - 1 - (k - 1) ELSE k - 1]]
    <2>1. size' \in Nat
      BY SizesAssumption DEF IInv, TypeOK
    <2>2. \A k \in 1 .. size' : At(k - 1)' = IF reversed' THEN size' - 1 - (k - 1) ELSE k - 1
      BY <2>1 DEF At, Wrapped, Mirrored
    <2> QED BY <2>1, <2>2 DEF Elements
  <1>1. ASSUME NEW loc \in Locations, Get(loc) PROVE Interface!Next
    <2>1. Interface!Get(loc)
      BY <1>0, <1>1, SamePlaces, LocationAssumption
      DEF Get, Interface!Get, Elements, At, Mirrored, Wrapped
    <2> QED BY <1>1, <2>1 DEF Get, Interface!Next
  <1>2. ASSUME NEW loc \in Locations, NEW val \in Values, Set(loc, val) PROVE Interface!Next
    <2>1. Interface!Set(loc, val)
      <3>1. CASE ~ Exists(loc)
        BY <1>0, <1>2, <3>1, SamePlaces, LocationAssumption
        DEF Set, Interface!Set, Elements, At, Mirrored, Wrapped
      <3>2. CASE Exists(loc)
        <4> DEFINE w == Wrapped(loc, size)
        <4>1. Interface!Exists(loc) /\ Interface!At(loc) = w + 1 /\ w + 1 \in 1 .. size
          BY <3>2, SamePlaces, LocationAssumption
        <4>2. /\ array' = [array EXCEPT ![Mirrored(w)] = val] /\ result' = 0
              /\ size' = size /\ reversed' = reversed
          BY <1>2, <3>2 DEF Set, At
        <4> HIDE DEF w
        <4>3. Elements' = [k \in 1 .. size |-> array'[Mirrored(k - 1)]]
          BY <1>00, <4>2 DEF Mirrored
        <4>4. w \in 0 .. size - 1
          BY <3>2, <1>0, PlaceInside, LocationAssumption DEF w, Positions
        <4>5. \A k \in 1 .. size : /\ Mirrored(k - 1) \in Positions
                                   /\ Mirrored(k - 1) = Mirrored(w) <=> k = w + 1
          BY <1>0, <4>4 DEF Mirrored, Positions
        <4>6. \A k \in 1 .. size :
                 array'[Mirrored(k - 1)] = IF k = w + 1 THEN val ELSE Elements[k]
          BY <1>0, <4>2, <4>5
        <4>7. Elements' = [Elements EXCEPT ![w + 1] = val]
          BY <1>0, <4>3, <4>6
        <4> QED BY <4>1, <4>2, <4>7 DEF Interface!Set, Elements
      <3> QED BY <3>1, <3>2
    <2> QED BY <1>2, <2>1 DEF Set, Interface!Next
  <1>3. CASE Reverse
    <2>1. Elements' = Interface!Reverse(Elements)
      <3>1. size' = size /\ array' = array /\ reversed' = ~ reversed
        BY <1>3 DEF Reverse
      <3>2. \A k \in 1 .. size :
               /\ Len(Elements) - k + 1 \in 1 .. size
               /\ Mirrored(Len(Elements) - k + 1 - 1)
                     = IF ~ reversed THEN size - 1 - (k - 1) ELSE k - 1
        BY <1>0 DEF Mirrored
      <3>3. Elements' = [k \in 1 .. size |->
                           array[IF ~ reversed THEN size - 1 - (k - 1) ELSE k - 1]]
        BY <1>00, <3>1
      <3>4. \A k \in 1 .. size : Elements'[k] = Elements[Len(Elements) - k + 1]
        BY <1>0, <3>2, <3>3
      <3> QED BY <1>0, <3>3, <3>4 DEF Interface!Reverse
    <2>2. Interface!Reversal
      BY <1>3, <2>1 DEF Reverse, Interface!Reversal, Elements
    <2> QED BY <1>3, <2>2 DEF Reverse, Interface!Next
  <1>4. ASSUME NEW it \in Iterators, NextEnds(it) PROVE Interface!Next
    <2>1. Interface!Iterated
      BY <1>0, <1>4 DEF NextEnds, Interface!Iterated, Elements, At, Wrapped, Mirrored
    <2> QED BY <1>4, <2>1 DEF NextEnds, Interface!Next
  <1>5. ASSUME NEW it \in Iterators, NextElement(it) PROVE Interface!Next
    <2> DEFINE p == iters[it].cur
    <2>1. p \in Positions
      BY <1>5, InvPointers DEF NextElement, PointersInside
    <2>2. result' = array[p] /\ Elements' = Elements
      BY <1>5 DEF NextElement, Elements, At, Mirrored, Wrapped
    <2> HIDE DEF p
    <2>3. PICK k \in 1 .. size : Mirrored(k - 1) = p
      <3>1. CASE reversed
        <4> DEFINE k == size - p
        <4>1. k \in 1 .. size /\ size - 1 - (k - 1) = p
          BY <1>0, <2>1 DEF Positions
        <4>2. Mirrored(k - 1) = p
          BY <3>1, <4>1 DEF Mirrored
        <4> QED BY <4>1, <4>2
      <3>2. CASE ~ reversed
        <4> DEFINE k == p + 1
        <4>1. k \in 1 .. size /\ k - 1 = p
          BY <1>0, <2>1 DEF Positions
        <4>2. Mirrored(k - 1) = p
          BY <3>2, <4>1 DEF Mirrored
        <4> QED BY <4>1, <4>2
      <3> QED BY <3>1, <3>2
    <2>4. Elements[k] = array[p]
      BY <1>0, <2>3
    <2>5. result' \in Interface!Range(Elements)
      BY <1>0, <2>3, <2>4, <2>2 DEF Interface!Range
    <2>6. Interface!Iterated
      BY <2>2, <2>5 DEF Interface!Iterated, Elements
    <2> QED BY <1>5, <2>6 DEF NextElement, Interface!Next
  <1>6. ASSUME UNCHANGED <<size, array, reversed, call, result>>
        PROVE  UNCHANGED <<Elements, call, result>>
    BY <1>6 DEF Elements, At, Mirrored, Wrapped
  <1>7. ASSUME NEW it \in Iterators, NEW i, NEW d, Begin(it, i, d)
        PROVE  UNCHANGED <<size, array, reversed, call, result>>
    BY <1>7 DEF Begin
  <1> QED
    BY <1>1, <1>2, <1>3, <1>4, <1>5, <1>6, <1>7
    DEF Next, Step, Iter, Make, Restart, Contains, vars

(* The array, read and set by places that count from either end, reversed   *)
(* or not, and iterated over, is the sequence that sequence.h promises.     *)
THEOREM ImplementsSequence == Spec => InterfaceSpec
  BY InitInterface, StepInterface, Invariant, PTL
  DEF Spec, InterfaceSpec, Interface!Spec

=============================================================================

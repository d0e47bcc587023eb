----------------------------- MODULE Strings_proof -----------------------------
(* Theorems about Strings.  The inductive invariant Shaped says what the     *)
(* Strings are; each call is shown to keep it, and to be Steady, that is to  *)
(* let buffers only grow, and Sparing, that is to leave read-only Strings    *)
(* alone.  A call that goes on writing to Strings it reads, or to one buffer *)
(* again and again, is a recursive function in the model: such a function    *)
(* exists, and what each of its steps keeps it keeps.                        *)
EXTENDS Strings, StringSearch_proof

-----------------------------------------------------------------------------
(* The inductive invariant *)

Rec == [text : Seq(Nat), capacity : Int, null : BOOLEAN]

(* What a call that frees nothing may do to a buffer: the caller's stays,   *)
(* an allocated one only grows, and a String yet to be allocated gets one.  *)
Grown(s, r) ==
    /\ s.capacity < 0 => r.capacity = s.capacity
    /\ r.capacity >= s.capacity
    /\ r.capacity = s.capacity => r.null = s.null

(* What any call may do to a String that is only read.                      *)
Spared(s, r) == ~ Mutable(s) => ~ Mutable(r) /\ IsPrefix(r.text, s.text)

(* The inductive invariant.  A String that is not the caller's own can be   *)
(* freed, and before it is made, and afterwards, it has no buffer.          *)
Shaped ==
    /\ strings \in [Names -> Rec]
    /\ \A d \in Names : Sound(strings[d])
    /\ caller \in Callers /\ live \subseteq Names
    /\ \A d \in Pointers : /\ Allocatable(strings[d])
                           /\ d \notin live => strings[d] = RESIZABLE_STRING

(* What all calls do but those that make, free or change in place.          *)
Steady ==
    /\ strings' \in [Names -> Rec]
    /\ \A d \in Names : Sound(strings'[d]) /\ Grown(strings[d], strings'[d])
    /\ \A d \in Names \ live : strings'[d] = strings[d]
    /\ live' = live

Sparing == \A d \in Names : Spared(strings[d], strings'[d])

-----------------------------------------------------------------------------
(* The words of a caller *)

LEMMA CharsAreNat == Seq(Chars) \subseteq Seq(Nat)
  <1> SUFFICES ASSUME NEW t \in Seq(Chars) PROVE t \in Seq(Nat)
    OBVIOUS
  <1>1. t \in [1 .. Len(t) -> Chars] /\ Len(t) \in Nat
    OBVIOUS
  <1>2. Chars \subseteq Nat
    BY DEF Chars
  <1>3. t \in [1 .. Len(t) -> Nat]
    BY <1>1, <1>2
  <1> QED BY <1>1, <1>3

LEMMA CallerIs ==
    ASSUME Shaped
    PROVE  /\ Words \subseteq Seq(Nat) /\ caller.numbers \subseteq Int
           /\ \A w \in Words : ToSet(w) \subseteq Nat
           /\ caller.longest \in Nat
  <1>1. caller \in Caller
    BY ConstantsAssumption DEF Shaped
  <1>2. Words \subseteq Seq(Chars)
    BY <1>1 DEF Caller, Words
  <1>3. Words \subseteq Seq(Nat)
    BY <1>2, CharsAreNat
  <1>4. \A w \in Seq(Nat) : \A k \in DOMAIN w : w[k] \in Nat
    OBVIOUS
  <1>5. \A w \in Words : ToSet(w) \subseteq Nat
    BY <1>3, <1>4 DEF ToSet
  <1> QED BY <1>1, <1>3, <1>5 DEF Caller

LEMMA RecIs ==
    ASSUME NEW s \in Rec
    PROVE  /\ s.text \in Seq(Nat) /\ Len(s.text) \in Nat /\ s.capacity \in Int
           /\ s.null \in BOOLEAN /\ Capacity(s) \in Nat
           /\ DOMAIN s = {"text", "capacity", "null"}
           /\ s = [text |-> s.text, capacity |-> s.capacity, null |-> s.null]
  BY DEF Rec, Capacity, Abs

LEMMA PrefixOfItself ==
    ASSUME NEW t \in Seq(Nat)
    PROVE  IsPrefix(t, t) /\ IsPrefix(<<>>, t)
  <1>1. IsPrefix(t, t)
    BY DEF IsPrefix
  <1>2. IsPrefix(<<>>, t)
    <2>1. Len(<<>>) = 0 /\ Len(t) \in Nat
      OBVIOUS
    <2>2. SubSeq(<<>>, 1, 0) = <<>> /\ SubSeq(t, 1, 0) = <<>>
      OBVIOUS
    <2> QED BY <2>1, <2>2 DEF IsPrefix
  <1> QED BY <1>1, <1>2

-----------------------------------------------------------------------------
(* Room *)

LEMMA WithRoomIs ==
    ASSUME NEW s \in Rec, Sound(s), NEW n \in Int, CanHold(s, n)
    PROVE  LET r == WithRoom(s, n)
           IN  /\ r \in Rec /\ Sound(r) /\ r.text = s.text /\ Capacity(r) >= n
               /\ Capacity(r) >= Capacity(s) /\ Grown(s, r)
               /\ Mutable(s) <=> Mutable(r)
               /\ ~ Mutable(s) => r = s
               /\ r.null => s.null
  <1> DEFINE r == WithRoom(s, n)
             c == NewCapacity(s, n)
  <1>1. CASE HasRoom(s, n)
    <2>1. r = s
      BY <1>1 DEF WithRoom
    <2> HIDE DEF r
    <2>2. Capacity(s) >= n /\ Capacity(s) \in Nat
      BY <1>1, RecIs DEF HasRoom
    <2>3. Grown(s, s)
      BY RecIs DEF Grown
    <2> QED BY <2>1, <2>2, <2>3 DEF r
  <1>2. CASE ~ HasRoom(s, n)
    <2>1. Allocatable(s) /\ Mutable(s) /\ s.capacity >= 0 /\ Capacity(s) = s.capacity
          /\ s.capacity < n /\ s.capacity \in Int
      BY <1>2, RecIs DEF CanHold, Allocatable, HasRoom, Capacity, Abs, Mutable
    <2>2. c \in Int /\ c >= n
      <3> DEFINE p == s.capacity * STRING_GROWTH_FACTOR
      <3>1. p \in Int /\ STRING_MIN_ALLOC \in Int
        BY <2>1, ConstantsAssumption
      <3> HIDE DEF p
      <3>2. c = IF n < STRING_MIN_ALLOC THEN STRING_MIN_ALLOC ELSE IF n < p THEN p ELSE n
        BY DEF NewCapacity, p
      <3> HIDE DEF c
      <3> QED BY <3>1, <3>2
    <2> HIDE DEF c
    <2>3. r = [text |-> s.text, capacity |-> c, null |-> FALSE]
      <3>1. r = [s EXCEPT !.capacity = c, !.null = FALSE]
        BY <1>2 DEF WithRoom, Resized, c
      <3> HIDE DEF r
      <3> QED BY <3>1, RecIs
    <2> HIDE DEF r
    <2>4. r \in Rec /\ r.capacity = c /\ r.text = s.text /\ r.null = FALSE
      BY <2>2, <2>3, RecIs DEF Rec
    <2>5. Capacity(r) = c /\ c > s.capacity /\ c # 0 /\ Mutable(r)
      BY <2>1, <2>2, <2>4 DEF Capacity, Abs, Mutable
    <2>6. Grown(s, r)
      BY <2>1, <2>2, <2>4, <2>5 DEF Grown
    <2>7. Len(s.text) <= s.capacity
      BY <2>1 DEF Sound
    <2>8. Sound(r)
      BY <2>1, <2>2, <2>4, <2>5, <2>7, RecIs DEF Sound
    <2> QED BY <2>1, <2>2, <2>4, <2>5, <2>6, <2>8 DEF r
  <1> QED BY <1>1, <1>2

(* A text in the place of another, in a String that has or gets the room.   *)
LEMMA PutIn ==
    ASSUME NEW s \in Rec, NEW t \in Seq(Nat), Mutable(s) => Len(t) <= Capacity(s),
           s.null => s.capacity = 0
    PROVE  LET r == [s EXCEPT !.text = t]
           IN  r \in Rec /\ Sound(r) /\ Grown(s, r) /\ r.text = t /\ (Mutable(r) <=> Mutable(s))
  <1> DEFINE r == [s EXCEPT !.text = t]
  <1>1. r = [text |-> t, capacity |-> s.capacity, null |-> s.null]
    BY RecIs
  <1> HIDE DEF r
  <1>2. r \in Rec /\ r.text = t /\ r.capacity = s.capacity /\ r.null = s.null
    BY <1>1, RecIs DEF Rec
  <1>3. Capacity(r) = Capacity(s) /\ (Mutable(r) <=> Mutable(s))
    BY <1>2 DEF Capacity, Mutable
  <1>4. Sound(r)
    BY <1>2, <1>3 DEF Sound
  <1>5. Grown(s, r)
    BY <1>2, RecIs DEF Grown
  <1> QED BY <1>2, <1>3, <1>4, <1>5 DEF r

LEMMA GrownTwice ==
    ASSUME NEW s \in Rec, NEW r \in Rec, NEW q \in Rec, Grown(s, r), Grown(r, q)
    PROVE  Grown(s, q)
  BY RecIs DEF Grown

LEMMA WrittenIs ==
    ASSUME NEW s \in Rec, Sound(s), NEW t \in Seq(Nat), CanHold(s, Len(t))
    PROVE  LET r == Written(s, t)
           IN  /\ r \in Rec /\ Sound(r) /\ Grown(s, r) /\ r.text = t
               /\ Mutable(r) <=> Mutable(s)
  <1> DEFINE q == WithRoom(s, Len(t))
             r == [q EXCEPT !.text = t]
  <1>1. /\ q \in Rec /\ Sound(q) /\ Capacity(q) >= Len(t) /\ Grown(s, q)
        /\ Mutable(s) <=> Mutable(q)
    BY WithRoomIs
  <1>2. Written(s, t) = r
    BY DEF Written
  <1> HIDE DEF q
  <1>3. Len(t) <= Capacity(q) /\ (q.null => q.capacity = 0)
    BY <1>1, RecIs DEF Sound
  <1>4. r \in Rec /\ Sound(r) /\ Grown(q, r) /\ r.text = t /\ (Mutable(r) <=> Mutable(q))
    BY <1>1, <1>3, PutIn
  <1> HIDE DEF r
  <1>5. Grown(s, r)
    BY <1>1, <1>4, GrownTwice
  <1> QED BY <1>1, <1>2, <1>4, <1>5

-----------------------------------------------------------------------------
(* Calls that change one String, or none *)

LEMMA NoneChanged ==
    ASSUME Shaped, UNCHANGED <<strings, live>>
    PROVE  Steady /\ Sparing
  <1>1. \A d \in Names : Grown(strings[d], strings[d])
    BY RecIs DEF Grown, Shaped
  <1>2. \A d \in Names : IsPrefix(strings[d].text, strings[d].text)
    BY PrefixOfItself, RecIs DEF Shaped
  <1> QED BY <1>1, <1>2 DEF Shaped, Steady, Sparing, Spared

LEMMA OneChanged ==
    ASSUME Shaped, UNCHANGED live, NEW d \in live, NEW r \in Rec, Sound(r),
           Grown(strings[d], r), Set(d, r)
    PROVE  Steady /\ (Spared(strings[d], r) => Sparing)
  <1>1. d \in Names /\ strings' = [strings EXCEPT ![d] = r]
    BY DEF Shaped, Set
  <1>2. \A e \in Names : strings'[e] = IF e = d THEN r ELSE strings[e]
    BY <1>1 DEF Shaped
  <1>3. strings' \in [Names -> Rec]
    BY <1>1 DEF Shaped
  <1>4. \A e \in Names : Grown(strings[e], strings[e])
    BY RecIs DEF Grown, Shaped
  <1>5. \A e \in Names : Spared(strings[e], strings[e])
    BY PrefixOfItself, RecIs DEF Shaped, Spared
  <1>6. Steady
    BY <1>2, <1>3, <1>4 DEF Shaped, Steady
  <1>7. Spared(strings[d], r) => Sparing
    BY <1>2, <1>5 DEF Sparing
  <1> QED BY <1>6, <1>7

LEMMA WriteIs ==
    ASSUME Shaped, NEW d \in live, NEW t \in Seq(Nat), Write(d, t)
    PROVE  Steady /\ Sparing
  <1>1. CASE UNCHANGED <<strings, live>>
    BY <1>1, NoneChanged
  <1>2. CASE Mutable(strings[d]) /\ CanHold(strings[d], Len(t)) /\ UNCHANGED live
             /\ Set(d, Written(strings[d], t))
    <2> DEFINE r == Written(strings[d], t)
    <2>1. strings[d] \in Rec /\ Sound(strings[d])
      BY DEF Shaped
    <2>2. r \in Rec /\ Sound(r) /\ Grown(strings[d], r)
      BY <1>2, <2>1, WrittenIs
    <2>3. Spared(strings[d], r)
      BY <1>2 DEF Spared
    <2> HIDE DEF r
    <2> QED BY <1>2, <2>2, <2>3, OneChanged DEF r
  <1> QED BY <1>1, <1>2 DEF Write

(* What RoomKept says of a step.                                            *)
Roomed ==
    \A d \in Names :
        /\ strings[d].capacity < 0 => strings'[d].capacity = strings[d].capacity
        /\ strings'[d].capacity < strings[d].capacity => call'[1] \in {"dest", "del"}

LEMMA SteadyIs ==
    ASSUME Shaped, Steady, UNCHANGED <<caller, declared>>
    PROVE  Shaped' /\ Roomed
  <1>1. \A d \in Names : Grown(strings[d], strings'[d]) /\ strings[d] \in Rec /\ strings'[d] \in Rec
    BY DEF Shaped, Steady
  <1>2. Roomed
    <2> SUFFICES ASSUME NEW d \in Names
                 PROVE  /\ strings[d].capacity < 0 => strings'[d].capacity = strings[d].capacity
                        /\ ~ (strings'[d].capacity < strings[d].capacity)
      BY DEF Roomed
    <2> QED BY <1>1, RecIs DEF Grown
  <1>3. \A d \in Names : Allocatable(strings[d]) => Allocatable(strings'[d])
    <2> SUFFICES ASSUME NEW d \in Names, Allocatable(strings[d]) PROVE Allocatable(strings'[d])
      OBVIOUS
    <2> DEFINE s == strings[d]
               r == strings'[d]
    <2>1. Grown(s, r) /\ s \in Rec /\ r \in Rec /\ Allocatable(s)
      BY <1>1
    <2> HIDE DEF s, r
    <2>2. s.capacity \in Int /\ r.capacity \in Int
      BY <2>1, RecIs
    <2>3. Allocatable(r)
      BY <2>1, <2>2 DEF Grown, Allocatable
    <2> QED BY <2>3 DEF r
  <1>4. Pointers' = Pointers
    BY DEF Pointers
  <1>5. \A d \in Pointers : Allocatable(strings'[d]) /\ (d \notin live => strings'[d] = RESIZABLE_STRING)
    BY <1>3 DEF Shaped, Steady, Pointers
  <1> QED BY <1>2, <1>4, <1>5 DEF Shaped, Steady

LEMMA StringIs ==
    ASSUME Shaped, NEW d \in live
    PROVE  /\ d \in Names /\ strings[d] \in Rec /\ Sound(strings[d])
           /\ Text(d) \in Seq(Nat) /\ Len(Text(d)) \in Nat /\ Text(d) = strings[d].text
  BY RecIs DEF Shaped, Text

-----------------------------------------------------------------------------
(* Making and freeing *)

LEMMA MadeOne ==
    ASSUME Shaped, NEW d \in Names \ live, d \in Pointers, NEW s \in Rec, Made(d, s),
           Sound(s), Allocatable(s), UNCHANGED <<caller, declared>>
    PROVE  Shaped' /\ Roomed /\ Sparing
  <1>1. strings[d] = RESIZABLE_STRING
    BY DEF Shaped
  <1>2. strings' = [strings EXCEPT ![d] = s] /\ live' = live \cup {d}
    BY DEF Made, Set
  <1>3. \A e \in Names : strings'[e] = IF e = d THEN s ELSE strings[e]
    BY <1>2 DEF Shaped
  <1>4. strings' \in [Names -> Rec] /\ Pointers' = Pointers
    BY <1>2 DEF Shaped, Pointers
  <1>5. Shaped'
    BY <1>2, <1>3, <1>4 DEF Shaped
  <1>6. RESIZABLE_STRING.capacity = 0 /\ Mutable(RESIZABLE_STRING) /\ s.capacity >= 0
    BY RecIs DEF RESIZABLE_STRING, Mutable, Allocatable
  <1>7. Roomed
    <2> SUFFICES ASSUME NEW e \in Names
                 PROVE  /\ strings[e].capacity < 0 => strings'[e].capacity = strings[e].capacity
                        /\ ~ (strings'[e].capacity < strings[e].capacity)
      BY DEF Roomed
    <2>1. strings[e].capacity \in Int /\ s.capacity \in Int
      BY RecIs DEF Shaped
    <2> QED BY <1>1, <1>3, <1>6, <2>1
  <1>8. Sparing
    <2>1. \A e \in Names : IsPrefix(strings[e].text, strings[e].text)
      BY PrefixOfItself, RecIs DEF Shaped
    <2> QED BY <1>1, <1>3, <1>6, <2>1 DEF Sparing, Spared
  <1> QED BY <1>5, <1>7, <1>8

LEMMA NewIs ==
    ASSUME Shaped, NEW d \in Pointers, NEW t \in Words, New(d, t)
    PROVE  Shaped' /\ Roomed /\ Sparing
  <1>0. UNCHANGED <<caller, declared>> /\ d \in Names \ live
    BY DEF New, Calling, Pointers
  <1>1. CASE UNCHANGED <<strings, live>>
    BY <1>0, <1>1, NoneChanged, SteadyIs
  <1>2. CASE Made(d, [text |-> t, capacity |-> Len(t) + 1, null |-> FALSE])
    <2> DEFINE s == [text |-> t, capacity |-> Len(t) + 1, null |-> FALSE]
    <2>1. t \in Seq(Nat) /\ Len(t) \in Nat
      BY CallerIs
    <2>2. s \in Rec /\ s.text = t /\ s.capacity = Len(t) + 1 /\ s.null = FALSE
      BY <2>1 DEF Rec
    <2> HIDE DEF s
    <2>3. Sound(s) /\ Allocatable(s)
      BY <2>1, <2>2 DEF Sound, Allocatable, Capacity, Abs
    <2> QED BY <1>0, <1>2, <2>2, <2>3, MadeOne DEF s
  <1> QED BY <1>1, <1>2 DEF New, NotMade, Crashes

LEMMA NewEmptyIs ==
    ASSUME Shaped, NEW d \in Pointers, NEW n \in caller.numbers, NewEmpty(d, n)
    PROVE  Shaped' /\ Roomed /\ Sparing
  <1>0. UNCHANGED <<caller, declared>> /\ d \in Names \ live /\ n \in Int
    BY CallerIs DEF NewEmpty, Calling, Pointers
  <1>1. CASE UNCHANGED <<strings, live>>
    BY <1>0, <1>1, NoneChanged, SteadyIs
  <1>2. CASE n >= 0 /\ Made(d, [text |-> <<>>, capacity |-> n, null |-> n = 0])
    <2> DEFINE b == (n = 0)
               s == [text |-> <<>>, capacity |-> n, null |-> b]
    <2>1. b \in BOOLEAN
      OBVIOUS
    <2>2. b <=> n = 0
      OBVIOUS
    <2> HIDE DEF b
    <2>3. s \in Rec /\ s.text = <<>> /\ s.capacity = n /\ s.null = b
      BY <1>0, <2>1 DEF Rec
    <2> HIDE DEF s
    <2>4. Len(s.text) = 0
      BY <2>3
    <2>5. Sound(s) /\ Allocatable(s)
      BY <1>0, <1>2, <2>2, <2>3, <2>4 DEF Sound, Allocatable, Capacity, Abs
    <2>6. Made(d, s)
      BY <1>2 DEF s, b
    <2> QED BY <1>0, <2>3, <2>5, <2>6, MadeOne
  <1> QED BY <1>1, <1>2 DEF NewEmpty, NotMade, Crashes

(* Without its text a String has room enough.                               *)
LEMMA EmptiedIs ==
    ASSUME NEW s \in Rec, Sound(s)
    PROVE  LET r == [s EXCEPT !.text = <<>>]
           IN  /\ r \in Rec /\ Sound(r) /\ Grown(s, r) /\ r.text = <<>>
               /\ Mutable(r) <=> Mutable(s)
               /\ Spared(s, r)
  <1> DEFINE r == [s EXCEPT !.text = <<>>]
  <1>1. <<>> \in Seq(Nat) /\ Len(<<>>) = 0
    OBVIOUS
  <1>2. 0 <= Capacity(s) /\ (s.null => s.capacity = 0)
    BY RecIs DEF Sound
  <1>3. r \in Rec /\ Sound(r) /\ Grown(s, r) /\ r.text = <<>> /\ (Mutable(r) <=> Mutable(s))
    BY <1>1, <1>2, PutIn
  <1>4. Spared(s, r)
    BY <1>3, PrefixOfItself, RecIs DEF Spared
  <1> QED BY <1>3, <1>4

LEMMA DestroyedIs ==
    ASSUME NEW s \in Rec, Sound(s)
    PROVE  /\ Destroyed(s) \in Rec /\ Sound(Destroyed(s)) /\ Spared(s, Destroyed(s))
           /\ s.capacity < 0 => Destroyed(s).capacity = s.capacity
           /\ Allocatable(s) => Destroyed(s) = RESIZABLE_STRING
  <1>1. CASE Allocatable(s)
    <2>1. Destroyed(s) = RESIZABLE_STRING /\ Mutable(s) /\ ~ (s.capacity < 0)
      BY <1>1, RecIs DEF Destroyed, Allocatable, Mutable
    <2>2. RESIZABLE_STRING \in Rec /\ Sound(RESIZABLE_STRING)
      <3>1. <<>> \in Seq(Nat) /\ Len(<<>>) = 0
        OBVIOUS
      <3>2. RESIZABLE_STRING \in Rec
        BY <3>1 DEF RESIZABLE_STRING, Rec
      <3>3. RESIZABLE_STRING.text = <<>> /\ RESIZABLE_STRING.capacity = 0
        BY DEF RESIZABLE_STRING
      <3> QED BY <3>1, <3>2, <3>3 DEF Sound, Capacity, Abs
    <2> QED BY <2>1, <2>2 DEF Spared
  <1>2. CASE ~ Allocatable(s)
    <2> DEFINE r == [s EXCEPT !.text = <<>>]
    <2>1. Destroyed(s) = r /\ r.capacity = s.capacity
      BY <1>2, RecIs DEF Destroyed
    <2>2. r \in Rec /\ Sound(r) /\ Spared(s, r)
      BY EmptiedIs
    <2> HIDE DEF r
    <2> QED BY <1>2, <2>1, <2>2
  <1> QED BY <1>1, <1>2

LEMMA FreedOne ==
    ASSUME Shaped, NEW d \in live, Set(d, Destroyed(strings[d])), call'[1] \in {"dest", "del"},
           live' = live \/ (live' = live \ {d} /\ d \in Pointers), UNCHANGED <<caller, declared>>
    PROVE  Shaped' /\ Roomed /\ Sparing
  <1> DEFINE r == Destroyed(strings[d])
  <1>1. d \in Names /\ strings' = [strings EXCEPT ![d] = r]
    BY DEF Shaped, Set
  <1>2. /\ r \in Rec /\ Sound(r) /\ Spared(strings[d], r)
        /\ strings[d].capacity < 0 => r.capacity = strings[d].capacity
        /\ Allocatable(strings[d]) => r = RESIZABLE_STRING
    BY DestroyedIs, StringIs
  <1> HIDE DEF r
  <1>3. \A e \in Names : strings'[e] = IF e = d THEN r ELSE strings[e]
    BY <1>1 DEF Shaped
  <1>4. strings' \in [Names -> Rec] /\ Pointers' = Pointers
    BY <1>1, <1>2 DEF Shaped, Pointers
  <1>5. Allocatable(RESIZABLE_STRING)
    BY DEF Allocatable, RESIZABLE_STRING
  <1>6. Shaped'
    <2>1. \A e \in Names : Sound(strings'[e])
      BY <1>2, <1>3 DEF Shaped
    <2>2. Pointers \subseteq Names /\ caller' \in Callers /\ live' \subseteq Names
      BY DEF Pointers, Shaped
    <2>3. \A e \in Pointers : Allocatable(strings'[e])
      <3> SUFFICES ASSUME NEW e \in Pointers PROVE Allocatable(strings'[e])
        OBVIOUS
      <3>1. Allocatable(strings[e]) /\ e \in Names
        BY <2>2 DEF Shaped
      <3>2. CASE e = d
        BY <1>2, <1>3, <1>5, <3>1, <3>2
      <3>3. CASE e # d
        BY <1>3, <3>1, <3>3
      <3> QED BY <3>2, <3>3
    <2>4. \A e \in Pointers : e \notin live' => strings'[e] = RESIZABLE_STRING
      <3> SUFFICES ASSUME NEW e \in Pointers, e \notin live' PROVE strings'[e] = RESIZABLE_STRING
        OBVIOUS
      <3>1. Allocatable(strings[e]) /\ e \in Names /\ (e \notin live => strings[e] = RESIZABLE_STRING)
        BY <2>2 DEF Shaped
      <3> QED BY <1>2, <1>3, <3>1
    <2> QED BY <1>4, <2>1, <2>2, <2>3, <2>4 DEF Shaped
  <1>7. Sparing
    <2>1. \A e \in Names : IsPrefix(strings[e].text, strings[e].text)
      BY PrefixOfItself, RecIs DEF Shaped
    <2> QED BY <1>2, <1>3, <2>1 DEF Sparing, Spared
  <1>8. Roomed
    <2> SUFFICES ASSUME NEW e \in Names
                 PROVE  strings[e].capacity < 0 => strings'[e].capacity = strings[e].capacity
      BY DEF Roomed
    <2> QED BY <1>2, <1>3
  <1> QED BY <1>6, <1>7, <1>8

LEMMA FreesAre ==
    ASSUME Shaped, NEW d \in live, Dest(d) \/ Del(d)
    PROVE  Shaped' /\ Roomed /\ Sparing
  <1>1. CASE Dest(d)
    BY <1>1, FreedOne DEF Dest, Calling
  <1>2. CASE Del(d)
    BY <1>2, FreedOne DEF Del, Calling
  <1> QED BY <1>1, <1>2

LEMMA ClearIs ==
    ASSUME Shaped, NEW d \in live, Clear(d)
    PROVE  Steady /\ Sparing
  <1> DEFINE r == [strings[d] EXCEPT !.text = <<>>]
  <1>1. r \in Rec /\ Sound(r) /\ Grown(strings[d], r) /\ Spared(strings[d], r)
    BY EmptiedIs, StringIs
  <1>2. Set(d, r) /\ UNCHANGED live
    BY DEF Clear
  <1> HIDE DEF r
  <1> QED BY <1>1, <1>2, OneChanged

-----------------------------------------------------------------------------
(* Copying *)

LEMMA CopyIs ==
    ASSUME Shaped, NEW d \in live \cup {NULL}, NEW o \in live, Copy(d, o)
    PROVE  Steady /\ Sparing
  <1>1. CASE UNCHANGED <<strings, live>>
    BY <1>1, NoneChanged
  <1>2. CASE d # NULL /\ Write(d, Text(o))
    BY <1>2, StringIs, WriteIs
  <1> QED BY <1>1, <1>2 DEF Copy

LEMMA AppendIs ==
    ASSUME Shaped, NEW d \in live, NEW c \in UNION {ToSet(w) : w \in Words}, Append_(d, c)
    PROVE  Steady /\ Sparing
  <1>1. c \in Nat /\ Text(d) \in Seq(Nat)
    BY CallerIs, StringIs
  <1>2. Append(Text(d), c) \in Seq(Nat)
    BY <1>1
  <1> QED BY <1>2, WriteIs DEF Append_

LEMMA ExtendIs ==
    ASSUME Shaped, NEW d \in live, NEW o \in live, Extend(d, o)
    PROVE  Steady /\ Sparing
  <1>1. Text(d) \in Seq(Nat) /\ Text(o) \in Seq(Nat)
    BY StringIs
  <1>2. Text(d) \o Text(o) \in Seq(Nat)
    BY <1>1
  <1> QED BY <1>2, WriteIs DEF Extend

LEMMA CstrIs ==
    ASSUME Shaped, NEW d \in live, Cstr(d)
    PROVE  Steady /\ Sparing
  <1> DEFINE s == strings[d]
             n == Len(Text(d)) + 1
             r == WithRoom(s, n)
  <1>1. CASE UNCHANGED <<strings, live>>
    BY <1>1, NoneChanged
  <1>2. CASE Mutable(s) /\ CanHold(s, n) /\ Set(d, r) /\ UNCHANGED live
    <2>1. s \in Rec /\ Sound(s) /\ n \in Int
      BY StringIs
    <2>2. r \in Rec /\ Sound(r) /\ Grown(s, r)
      <3> HIDE DEF s, n
      <3> QED BY <1>2, <2>1, WithRoomIs
    <2>3. Spared(s, r)
      BY <1>2 DEF Spared
    <2> HIDE DEF r
    <2> QED BY <1>2, <2>2, <2>3, OneChanged
  <1> QED BY <1>1, <1>2 DEF Cstr

-----------------------------------------------------------------------------
(* Changing in place *)

(* A text that is no longer than the one that was there.                    *)
LEMMA InPlaceIs ==
    ASSUME Shaped, NEW d \in live, NEW t \in Seq(Nat), Len(t) <= Len(Text(d)), InPlace(d, t)
    PROVE  Steady /\ (Mutable(strings[d]) \/ IsPrefix(t, Text(d)) => Sparing)
  <1> DEFINE s == strings[d]
             r == [s EXCEPT !.text = t]
  <1>1. s \in Rec /\ Sound(s) /\ Text(d) = s.text
    BY StringIs
  <1>2. Mutable(s) => Len(t) <= Capacity(s)
    BY <1>1, RecIs DEF Sound
  <1>3. s.null => s.capacity = 0
    BY <1>1 DEF Sound
  <1>4. r \in Rec /\ Sound(r) /\ Grown(s, r) /\ r.text = t /\ (Mutable(r) <=> Mutable(s))
    <2> HIDE DEF s
    <2> QED BY <1>1, <1>2, <1>3, PutIn
  <1>5. Set(d, r) /\ UNCHANGED live
    BY DEF InPlace
  <1> HIDE DEF r
  <1>6. Mutable(s) \/ IsPrefix(t, Text(d)) => Spared(s, r)
    BY <1>1, <1>4 DEF Spared
  <1> QED BY <1>4, <1>5, <1>6, OneChanged

LEMMA CasesAre ==
    ASSUME Shaped, NEW d \in live, Lower_(d) \/ Upper_(d)
    PROVE  Steady
  <1>0. Text(d) \in Seq(Nat) /\ \A k \in DOMAIN Text(d) : Text(d)[k] \in Nat
    BY StringIs
  <1>1. CASE Lower_(d)
    <2> DEFINE t == [k \in DOMAIN Text(d) |-> Lower(Text(d)[k])]
    <2>0. \A v \in Nat : Lower(v) \in Nat
      BY DEF Lower
    <2>1. \A k \in DOMAIN Text(d) : t[k] \in Nat
      BY <1>0, <2>0
    <2>2. t \in Seq(Nat) /\ Len(t) = Len(Text(d))
      BY <1>0, <2>1, MappedText
    <2>3. InPlace(d, t)
      BY <1>1 DEF Lower_
    <2> HIDE DEF t
    <2> QED BY <1>0, <2>2, <2>3, InPlaceIs
  <1>2. CASE Upper_(d)
    <2> DEFINE t == [k \in DOMAIN Text(d) |-> Upper(Text(d)[k])]
    <2>0. \A v \in Nat : Upper(v) \in Nat
      BY DEF Upper
    <2>1. \A k \in DOMAIN Text(d) : t[k] \in Nat
      BY <1>0, <2>0
    <2>2. t \in Seq(Nat) /\ Len(t) = Len(Text(d))
      BY <1>0, <2>1, MappedText
    <2>3. InPlace(d, t)
      BY <1>2 DEF Upper_
    <2> HIDE DEF t
    <2> QED BY <1>0, <2>2, <2>3, InPlaceIs
  <1> QED BY <1>1, <1>2

LEMMA PutIs ==
    ASSUME Shaped, NEW d \in live, NEW loc, NEW c \in UNION {ToSet(w) : w \in Words},
           Put(d, loc, c)
    PROVE  Steady
  <1>0. /\ Text(d) \in Seq(Nat) /\ Len(Text(d)) \in Nat /\ c \in Nat
        /\ \A k \in DOMAIN Text(d) : Text(d)[k] \in Nat
    BY StringIs, CallerIs
  <1>1. CASE UNCHANGED <<strings, live>>
    BY <1>1, NoneChanged
  <1>2. CASE InPlace(d, [Text(d) EXCEPT ![Position(loc, Len(Text(d))) + 1] = c])
    <2> DEFINE x == Position(loc, Len(Text(d))) + 1
               t == [Text(d) EXCEPT ![x] = c]
    <2> HIDE DEF x
    <2>1. t \in Seq(Nat) /\ Len(t) = Len(Text(d))
      <3>1. DOMAIN t = DOMAIN Text(d) /\ t = [k \in DOMAIN Text(d) |-> t[k]]
        OBVIOUS
      <3>2. \A k \in DOMAIN Text(d) : t[k] \in Nat
        BY <1>0
      <3> HIDE DEF t
      <3> QED BY <1>0, <3>1, <3>2, MappedText
    <2>2. InPlace(d, t) /\ Len(t) <= Len(Text(d))
      BY <1>0, <1>2, <2>1 DEF x
    <2> HIDE DEF t
    <2> QED BY <2>1, <2>2, InPlaceIs
  <1> QED BY <1>1, <1>2 DEF Put

(* What strip looks for is there, since the ends of the text are.           *)
LEMMA StrippedIs ==
    ASSUME NEW s \in Seq(Nat), NEW chars
    PROVE  /\ LeftStripped(s, chars) \in Seq(Nat) /\ RightStripped(s, chars) \in Seq(Nat)
           /\ Len(LeftStripped(s, chars)) <= Len(s) /\ Len(RightStripped(s, chars)) <= Len(s)
           /\ chars = <<>> => LeftStripped(s, chars) = s /\ RightStripped(s, chars) = s
  <1> DEFINE n == Len(s)
             L == {p \in 0 .. n : p = n \/ ~ CharIn(chars, s[p + 1])}
             R == {p \in 0 .. n : p = 0 \/ ~ CharIn(chars, s[p])}
  <1>1. n \in Nat /\ n \in L /\ 0 \in R /\ L \in SUBSET (0 .. n) /\ R \in SUBSET (0 .. n)
        /\ L \in SUBSET Nat
    <2>1. n \in Nat
      OBVIOUS
    <2> HIDE DEF n
    <2> QED BY <2>1
  <1>2. ASSUME chars = <<>> PROVE 0 \in L /\ n \in R
    <2>1. \A c : ~ CharIn(chars, c)
      BY <1>2 DEF CharIn
    <2> HIDE DEF n
    <2> QED BY <1>1, <2>1
  <1>3. LeftStripped(s, chars) = SubSeq(s, Min(L) + 1, n) /\ RightStripped(s, chars) = SubSeq(s, 1, Max(R))
    BY DEF LeftStripped, RightStripped
  <1> HIDE DEF n, L, R
  <1>4. Min(L) \in L /\ \A p \in L : Min(L) <= p
    <2>1. \E m \in L : \A p \in L : m <= p
      BY <1>1, LeastOfSet
    <2> QED BY <2>1 DEF Min
  <1>5. Max(R) \in R /\ \A p \in R : Max(R) >= p
    <2>1. \E m \in R : \A p \in R : p <= m
      BY <1>1, GreatestOfSet
    <2>2. \E m \in R : \A p \in R : m >= p
      BY <1>1, <2>1
    <2> QED BY <2>2 DEF Max
  <1>6. Min(L) \in 0 .. n /\ Max(R) \in 0 .. n
    BY <1>1, <1>4, <1>5
  <1>7. /\ LeftStripped(s, chars) \in Seq(Nat) /\ RightStripped(s, chars) \in Seq(Nat)
        /\ Len(LeftStripped(s, chars)) <= Len(s) /\ Len(RightStripped(s, chars)) <= Len(s)
    <2>1. n \in 0 .. Len(s) /\ Min(L) \in 0 .. Len(s) /\ Max(R) \in 0 .. Len(s) /\ 0 \in 0 .. Len(s)
      BY <1>1, <1>6 DEF n
    <2>2. SubSeq(s, Min(L) + 1, n) \in Seq(Nat) /\ Len(SubSeq(s, Min(L) + 1, n)) <= Len(s)
      BY <2>1, PartIs
    <2>3. SubSeq(s, 0 + 1, Max(R)) \in Seq(Nat) /\ Len(SubSeq(s, 0 + 1, Max(R))) <= Len(s)
      BY <2>1, PartIs
    <2>4. 0 + 1 = 1
      OBVIOUS
    <2> QED BY <1>3, <2>2, <2>3, <2>4
  <1>8. ASSUME chars = <<>> PROVE LeftStripped(s, chars) = s /\ RightStripped(s, chars) = s
    <2>1. Min(L) = 0 /\ Max(R) = n
      BY <1>1, <1>2, <1>4, <1>5, <1>6, <1>8
    <2>2. SubSeq(s, 1, n) = s /\ 0 + 1 = 1
      BY DEF n
    <2> QED BY <1>3, <2>1, <2>2
  <1> QED BY <1>7, <1>8

LEMMA StripIs ==
    ASSUME Shaped, NEW d \in live, NEW op \in {"strip", "lstrip", "rstrip"}, NEW chars,
           Strip(op, d, chars)
    PROVE  Steady /\ Sparing
  <1> DEFINE c == Stripping(chars)
             u == Text(d)
             t == Stripped(op, u, c)
             trimmed == RightStripped(u, c)
  <1>1. CASE UNCHANGED <<strings, live>>
    BY <1>1, NoneChanged
  <1>2. CASE (u = <<>> \/ c = <<>> \/ Mutable(strings[d])) /\ InPlace(d, t)
    <2>1. u \in Seq(Nat) /\ Len(u) \in Nat
      BY StringIs
    <2> HIDE DEF u
    <2>2. /\ trimmed \in Seq(Nat) /\ Len(trimmed) <= Len(u) /\ (c = <<>> => trimmed = u)
          /\ LeftStripped(u, c) \in Seq(Nat) /\ Len(LeftStripped(u, c)) <= Len(u)
          /\ c = <<>> => LeftStripped(u, c) = u
      <3> HIDE DEF c
      <3> QED BY <2>1, StrippedIs
    <2>3. /\ LeftStripped(trimmed, c) \in Seq(Nat) /\ Len(LeftStripped(trimmed, c)) <= Len(trimmed)
          /\ c = <<>> => LeftStripped(trimmed, c) = trimmed
      <3> HIDE DEF c, trimmed
      <3> QED BY <2>2, StrippedIs
    <2>4. t \in Seq(Nat) /\ Len(t) <= Len(u) /\ (c = <<>> => t = u)
      <3>1. t \in {LeftStripped(u, c), trimmed, LeftStripped(trimmed, c)}
        BY DEF Stripped
      <3>2. Len(trimmed) \in Nat /\ Len(LeftStripped(trimmed, c)) \in Nat
        BY <2>2, <2>3
      <3> HIDE DEF t, c, trimmed
      <3> QED BY <2>1, <2>2, <2>3, <3>1, <3>2
    <2>5. u = <<>> => t = u
      <3> SUFFICES ASSUME u = <<>> PROVE t = u
        OBVIOUS
      <3>1. Len(t) = 0
        <4>1. Len(u) = 0 /\ Len(t) \in Nat
          BY <2>4
        <4> HIDE DEF t
        <4> QED BY <2>4, <4>1
      <3> HIDE DEF t
      <3> QED BY <2>4, <3>1
    <2>6. Mutable(strings[d]) \/ IsPrefix(t, u)
      <3> HIDE DEF t, c
      <3> QED BY <1>2, <2>1, <2>4, <2>5, PrefixOfItself
    <2> HIDE DEF t
    <2> QED BY <1>2, <2>4, <2>6, InPlaceIs DEF u
  <1> QED BY <1>1, <1>2 DEF Strip

-----------------------------------------------------------------------------
(* A slice of a String onto itself *)

LEMMA SliceOntoIs ==
    ASSUME NEW V, NEW s \in Seq(V), NEW start \in Int, NEW end \in Int, NEW step \in Int,
           ~ SliceIsError(s, start, end, step), SliceReadsText(s, start, end, step)
    PROVE  /\ SliceOnto(s, start, end, step) \in Seq(V)
           /\ Len(SliceOnto(s, start, end, step)) = Len(Slice(s, start, end, step))
  <1> DEFINE n == Len(Slice(s, start, end, step))
             from == [k \in 0 .. n - 1 |-> SliceStart(start, Len(s)) + k * SliceStep(step)]
             got == CHOOSE f : Onto(s, from, n, f)
             w == [k \in 1 .. n |-> got[k - 1]]
  <1>1. n \in 1 .. Len(s) /\ n \in Nat /\ n >= 1
    BY SliceIsText
  <1>2. n = SliceSize(s, start, end, step)
    BY SliceSizeIs
  <1>3. from \in [0 .. n - 1 -> 0 .. Len(s) - 1]
    <2>1. ASSUME NEW k \in 0 .. n - 1
          PROVE  SliceStart(start, Len(s)) + k * SliceStep(step) \in 0 .. Len(s) - 1
      <3>1. k \in 0 .. SliceSize(s, start, end, step) - 1
        BY <1>2
      <3> HIDE DEF n
      <3> QED BY <3>1 DEF SliceReadsText
    <2> QED BY <2>1
  <1>4. SliceOnto(s, start, end, step) = w
    <2> DEFINE g == CHOOSE f : f = [k \in 0 .. n - 1 |->
                      IF SliceStart(start, Len(s)) + k * SliceStep(step) < k
                      THEN f[SliceStart(start, Len(s)) + k * SliceStep(step)]
                      ELSE s[SliceStart(start, Len(s)) + k * SliceStep(step) + 1]]
    <2>1. SliceOnto(s, start, end, step) = [k \in 1 .. n |-> g[k - 1]]
      BY DEF SliceOnto
    <2>2. ASSUME NEW f
          PROVE  Onto(s, from, n, f) <=>
                   f = [k \in 0 .. n - 1 |->
                      IF SliceStart(start, Len(s)) + k * SliceStep(step) < k
                      THEN f[SliceStart(start, Len(s)) + k * SliceStep(step)]
                      ELSE s[SliceStart(start, Len(s)) + k * SliceStep(step) + 1]]
      BY DEF Onto
    <2>3. g = got
      BY <2>2
    <2> HIDE DEF g, got
    <2> QED BY <2>1, <2>3
  <1>5. \A k \in 0 .. n - 1 : got[k] \in V
    <2> HIDE DEF n, from
    <2> QED BY <1>1, <1>3, OntoIs
  <1> HIDE DEF n, got
  <1>6. \A k \in 1 .. n : w[k] \in V
    BY <1>1, <1>5
  <1> HIDE DEF w
  <1>7. w \in Seq(V) /\ Len(w) = n
    <2>1. w = [k \in 1 .. n |-> w[k]]
      BY DEF w
    <2> QED BY <1>1, <1>6, <2>1, SeqOfFunction
  <1> QED BY <1>4, <1>7, Zenon DEF n

LEMMA SliceActionIs ==
    ASSUME Shaped, NEW d \in live, NEW o \in live, NEW start \in caller.numbers,
           NEW end \in caller.numbers, NEW step \in caller.numbers,
           Slice_(d, o, start, end, step)
    PROVE  Steady /\ Sparing
  <1>1. CASE UNCHANGED <<strings, live>>
    BY <1>1, NoneChanged
  <1>2. CASE /\ SliceReadsText(Text(o), start, end, step)
             /\ ~ SliceIsError(Text(o), start, end, step)
             /\ Write(d, IF d = o THEN SliceOnto(Text(o), start, end, step)
                         ELSE Slice(Text(o), start, end, step))
    <2> DEFINE s == Text(o)
    <2>1. start \in Int /\ end \in Int /\ step \in Int /\ s \in Seq(Nat)
      BY CallerIs, StringIs
    <2>2. ~ SliceIsError(s, start, end, step) /\ SliceReadsText(s, start, end, step)
      BY <1>2
    <2> HIDE DEF s
    <2>3. SliceOnto(s, start, end, step) \in Seq(Nat)
      BY <2>1, <2>2, SliceOntoIs
    <2>4. Slice(s, start, end, step) \in Seq(Nat)
      BY <2>1, <2>2, SliceIsText
    <2> DEFINE t == IF d = o THEN SliceOnto(s, start, end, step) ELSE Slice(s, start, end, step)
    <2>5. t \in Seq(Nat) /\ Write(d, t)
      BY <1>2, <2>3, <2>4 DEF s
    <2> HIDE DEF t
    <2> QED BY <2>5, WriteIs
  <1> QED BY <1>1, <1>2 DEF Slice_, SliceBehind, Crashes

-----------------------------------------------------------------------------
(* Partition *)

LEMMA TwoChanged ==
    ASSUME Shaped, UNCHANGED live, NEW d \in live, NEW u \in Seq(Nat), Len(u) <= Len(Text(d)),
           IsPrefix(u, Text(d)), NEW e \in live, NEW r \in Rec, Sound(r),
           Grown(strings[e], r), Mutable(strings[e]),
           strings' = [strings EXCEPT ![d].text = u, ![e] = r]
    PROVE  Steady /\ Sparing
  <1> DEFINE s == strings[d]
             q == [s EXCEPT !.text = u]
  <1>1. s \in Rec /\ Sound(s) /\ Text(d) = s.text /\ d \in Names /\ e \in Names
    BY StringIs
  <1>2. Mutable(s) => Len(u) <= Capacity(s)
    BY <1>1, RecIs DEF Sound
  <1>3. s.null => s.capacity = 0
    BY <1>1 DEF Sound
  <1>4. q \in Rec /\ Sound(q) /\ Grown(s, q) /\ q.text = u /\ (Mutable(q) <=> Mutable(s))
    <2> HIDE DEF s
    <2> QED BY <1>1, <1>2, <1>3, PutIn
  <1>5. strings' = [strings EXCEPT ![d] = q, ![e] = r]
    OBVIOUS
  <1> HIDE DEF q
  <1>6. \A n \in Names : strings'[n] = IF n = e THEN r ELSE IF n = d THEN q ELSE strings[n]
    BY <1>1, <1>5 DEF Shaped
  <1>7. strings' \in [Names -> Rec]
    BY <1>1, <1>4, <1>5 DEF Shaped
  <1>8. \A n \in Names : Grown(strings[n], strings[n])
    BY RecIs DEF Grown, Shaped
  <1>9. \A n \in Names : Spared(strings[n], strings[n])
    BY PrefixOfItself, RecIs DEF Shaped, Spared
  <1>10. Spared(s, q) /\ Spared(strings[e], r)
    BY <1>1, <1>4 DEF Spared
  <1>11. Steady
    BY <1>1, <1>4, <1>6, <1>7, <1>8 DEF Shaped, Steady
  <1>12. Sparing
    BY <1>6, <1>9, <1>10 DEF Sparing
  <1> QED BY <1>11, <1>12

LEMMA CutAtIs ==
    ASSUME Shaped, UNCHANGED live, NEW d \in live, NEW sep \in Seq(Nat),
           NEW p \in 0 .. Len(Text(d)) - Len(sep), NEW suffix \in live \cup {NULL},
           CutAt(d, p, sep, suffix)
    PROVE  Steady /\ Sparing
  <1> DEFINE s == Text(d)
             a == p + Len(sep)
             n == Len(s) - Len(sep) - p
             t == Window(s, a, n)
             x == strings[suffix]
             u == IF t = <<>> THEN s ELSE SubSeq(s, 1, p)
             r == Written(x, t)
  <1>1. s \in Seq(Nat) /\ Len(s) \in Nat /\ s = strings[d].text /\ d \in Names
    BY StringIs
  <1>2. p \in 0 .. Len(s) /\ a \in Nat /\ n \in Nat /\ a + n <= Len(s)
    <2> DEFINE l == Len(s)
               m == Len(sep)
    <2>1. l \in Nat /\ m \in Nat /\ p \in 0 .. l - m
      BY <1>1
    <2> HIDE DEF s, l, m
    <2>2. p \in 0 .. l /\ p + m \in Nat /\ l - m - p \in Nat /\ (p + m) + (l - m - p) <= l
      BY <2>1
    <2> QED BY <2>2 DEF l, m
  <1>3. t \in Seq(Nat)
    <2> HIDE DEF s, a, n
    <2> QED BY <1>1, <1>2, WindowIs
  <1>4. CASE UNCHANGED strings
    BY <1>4, NoneChanged
  <1>5. CASE /\ suffix # NULL /\ Mutable(x) /\ CanHold(x, Len(t))
             /\ strings' = [strings EXCEPT ![d].text = IF t = <<>> THEN @ ELSE SubSeq(@, 1, p),
                                           ![suffix] = Written(x, t)]
    <2>1. suffix \in live /\ x \in Rec /\ Sound(x)
      BY <1>5, StringIs
    <2>2. r \in Rec /\ Sound(r) /\ Grown(x, r)
      <3> HIDE DEF t, x
      <3> QED BY <1>3, <1>5, <2>1, WrittenIs
    <2>3. strings' = [strings EXCEPT ![d].text = u, ![suffix] = r]
      BY <1>1, <1>5
    <2>4. u \in Seq(Nat) /\ Len(u) <= Len(s) /\ IsPrefix(u, s)
      <3> DEFINE v == SubSeq(s, 1, p)
      <3>1. v \in Seq(Nat) /\ Len(v) <= Len(s) /\ IsPrefix(v, s)
        <4>1. 0 \in 0 .. Len(s) /\ 0 + 1 = 1
          BY <1>1
        <4> HIDE DEF s
        <4>2. SubSeq(s, 0 + 1, p) \in Seq(Nat) /\ Len(SubSeq(s, 0 + 1, p)) <= Len(s) /\ IsPrefix(SubSeq(s, 1, p), s)
          BY <1>1, <1>2, <4>1, PartIs
        <4> QED BY <4>1, <4>2
      <3>2. IsPrefix(s, s) /\ Len(s) <= Len(s)
        BY <1>1, PrefixOfItself
      <3> HIDE DEF v, t, s
      <3> QED BY <1>1, <3>1, <3>2 DEF v
    <2> HIDE DEF u, r
    <2> QED BY <1>5, <2>1, <2>2, <2>3, <2>4, TwoChanged DEF x, s
  <1> QED BY <1>4, <1>5 DEF CutAt

LEMMA NotCutIs ==
    ASSUME Shaped, UNCHANGED live, NEW suffix \in live \cup {NULL}, NotCut(suffix)
    PROVE  Steady /\ Sparing
  <1>1. CASE UNCHANGED strings
    BY <1>1, NoneChanged
  <1>2. CASE suffix # NULL /\ Set(suffix, [strings[suffix] EXCEPT !.text = <<>>])
    <2> DEFINE r == [strings[suffix] EXCEPT !.text = <<>>]
    <2>1. suffix \in live
      BY <1>2
    <2>2. r \in Rec /\ Sound(r) /\ Grown(strings[suffix], r) /\ Spared(strings[suffix], r)
      BY <2>1, EmptiedIs, StringIs
    <2>3. Set(suffix, r)
      BY <1>2
    <2> HIDE DEF r
    <2> QED BY <2>1, <2>2, <2>3, OneChanged
  <1> QED BY <1>1, <1>2 DEF NotCut

LEMMA PlacesOfCuts ==
    ASSUME NEW s \in Seq(Nat), NEW sep \in Seq(Nat), Len(sep) <= Len(s)
    PROVE  /\ PartitionAt(s, sep) \in 0 .. Len(s) - Len(sep)
           /\ RpartitionAt(s, sep) \in 0 .. Len(s) - Len(sep)
  <1> DEFINE n == Len(s) - Len(sep)
             L == {p \in 0 .. n : p = n \/ Occurs(s, sep, p)}
             R == {p \in 0 .. n : p = 0 \/ Occurs(s, sep, p)}
  <1>1. n \in Nat
    OBVIOUS
  <1>2. PartitionAt(s, sep) = Min(L) /\ RpartitionAt(s, sep) = Max(R)
    BY DEF PartitionAt, RpartitionAt
  <1>3. n \in L /\ 0 \in R /\ L \in SUBSET Nat /\ R \in SUBSET (0 .. n) /\ L \subseteq 0 .. n
    <2> HIDE DEF n
    <2> QED BY <1>1
  <1> HIDE DEF n, L, R
  <1>4. Min(L) \in L
    <2>1. \E m \in L : \A p \in L : m <= p
      BY <1>3, LeastOfSet
    <2> QED BY <2>1 DEF Min
  <1>5. Max(R) \in R
    <2>1. \E m \in R : \A p \in R : p <= m
      BY <1>1, <1>3, GreatestOfSet
    <2>2. \E m \in R : \A p \in R : m >= p
      BY <1>1, <1>3, <2>1
    <2> QED BY <2>2 DEF Max
  <1> QED BY <1>2, <1>3, <1>4, <1>5 DEF n

LEMMA PartitionsAre ==
    ASSUME Shaped, NEW d \in live, NEW sep \in caller.words, NEW suffix \in live \cup {NULL},
           Partition(d, sep, suffix) \/ Rpartition(d, sep, suffix)
    PROVE  Steady /\ Sparing
  <1>1. UNCHANGED live
    BY DEF Partition, Rpartition
  <1>2. CASE NotCut(suffix)
    BY <1>1, <1>2, NotCutIs
  <1>3. ASSUME sep # NULL, ~ (Len(Text(d)) < Len(sep)), NEW p, CutAt(d, p, sep, suffix),
               p \in {PartitionAt(Text(d), sep), RpartitionAt(Text(d), sep)}
        PROVE  Steady /\ Sparing
    <2>1. sep \in Seq(Nat) /\ Text(d) \in Seq(Nat)
      BY <1>3, CallerIs, StringIs DEF Words
    <2>2. Len(sep) <= Len(Text(d))
      BY <1>3, <2>1
    <2>3. p \in 0 .. Len(Text(d)) - Len(sep)
      BY <1>3, <2>1, <2>2, PlacesOfCuts
    <2> QED BY <1>1, <1>3, <2>1, <2>3, CutAtIs
  <1> QED BY <1>2, <1>3 DEF Partition, Rpartition

-----------------------------------------------------------------------------
(* Split *)

LEMMA CutsAre ==
    ASSUME NEW s \in Seq(Nat), NEW sep \in Seq(Nat), Len(sep) >= 1, Len(sep) <= Len(s),
           NEW n \in Nat, n >= 1
    PROVE  Cuts(s, sep, n) \in Seq(Seq(Nat)) /\ Len(Cuts(s, sep, n)) = n
  <1> DEFINE l == Len(s)
             m == Len(sep)
             P == 0 .. l
             At(v) == Find(s, sep, v, Len(s)) + Len(sep)
             Walks(f) == f = [i \in 0 .. n - 1 |-> IF i = 0 THEN 0 ELSE At(f[i - 1])]
             from == CHOOSE f : Walks(f)
             piece(i) == IF i = n - 1 THEN Window(s, from[i], Len(s) - from[i])
                         ELSE Window(s, from[i], from[i + 1] - Len(sep) - from[i])
             all == [k \in 1 .. n |-> piece(k - 1)]
  <1>0. l \in Nat /\ m \in Nat /\ m >= 1 /\ m <= l /\ n - 1 \in Nat /\ 0 \in P
    OBVIOUS
  <1>1. \A v \in P : At(v) \in P
    <2> SUFFICES ASSUME NEW v \in 0 .. Len(s) PROVE At(v) \in P
      OBVIOUS
    <2> DEFINE p == Find(s, sep, v, Len(s))
    <2>1. p \in Int /\ p >= -1 /\ (p # -1 => p + m <= l)
      BY FindIsIn
    <2> HIDE DEF p
    <2>2. p + m \in 0 .. l
      <3> HIDE DEF l, m
      <3> QED BY <1>0, <2>1
    <2> QED BY <2>2 DEF p
  <1>2. \E f : Walks(f)
    <2> DEFINE step == [w \in (1 .. n - 1) \X P |-> At(w[2])]
    <2>1. step \in [(1 .. n - 1) \X P -> P]
      <3> HIDE DEF P, At
      <3> QED BY <1>1
    <2>2. \A i \in 1 .. n - 1 : \A v \in P : step[<<i, v>>] = At(v)
      <3> HIDE DEF P, At
      <3> QED OBVIOUS
    <2> HIDE DEF step
    <2>3. PICK g \in [0 .. n - 1 -> P] : Recurs0(g, n - 1, 0, step)
      <3> DEFINE N == n - 1
      <3>1. N \in Nat /\ 0 \in P /\ step \in [(1 .. N) \X P -> P]
        BY <1>0, <2>1
      <3> HIDE DEF P, N
      <3>2. \E g \in [0 .. N -> P] : Recurs0(g, N, 0, step)
        BY <3>1, RecursionFrom
      <3> QED BY <3>2 DEF N
    <2>4. \A i \in 0 .. n - 1 : g[i] = IF i = 0 THEN 0 ELSE At(g[i - 1])
      <3> SUFFICES ASSUME NEW i \in 0 .. n - 1, i # 0 PROVE g[i] = At(g[i - 1])
        BY <2>3 DEF Recurs0
      <3>1. i \in 1 .. n - 1 /\ i - 1 \in 0 .. n - 1
        OBVIOUS
      <3>2. g[i - 1] \in P
        <4> HIDE DEF P
        <4> QED BY <3>1
      <3> HIDE DEF P, At
      <3> QED BY <2>2, <2>3, <3>1, <3>2 DEF Recurs0
    <2>5. Walks(g)
      <3> HIDE DEF P, At
      <3> QED BY <2>4
    <2> QED BY <2>5
  <1>3. Walks(from)
    <2> HIDE DEF Walks
    <2> QED BY <1>2
  <1>4. Cuts(s, sep, n) = all
    BY DEF Cuts
  <1> HIDE DEF from
  <1>5. \A i \in 0 .. n - 1 : from[i] \in P
    <2>1. from[0] = 0 /\ \A i \in 1 .. n - 1 : from[i] = At(from[i - 1])
      <3> HIDE DEF At
      <3> QED BY <1>0, <1>3
    <2>2. \A i \in 1 .. n - 1 : from[i - 1] \in P => from[i] \in P
      <3> HIDE DEF At, P
      <3> QED BY <1>1, <2>1
    <2>3. from[0] \in P
      BY <1>0, <2>1
    <2> HIDE DEF P
    <2> QED BY <1>0, <2>2, <2>3, StaysIn
  <1>6. \A i \in 0 .. n - 1 : piece(i) \in Seq(Nat)
    <2> SUFFICES ASSUME NEW i \in 0 .. n - 1 PROVE piece(i) \in Seq(Nat)
      OBVIOUS
    <2>1. from[i] \in 0 .. Len(s)
      BY <1>5
    <2>2. CASE i = n - 1
      <3> DEFINE b == from[i] + (Len(s) - from[i])
      <3>1. b \in Int /\ b <= Len(s)
        BY <1>0, <2>1
      <3>2. SubSeq(s, from[i] + 1, b) \in Seq(Nat)
        <4> HIDE DEF b
        <4> QED BY <2>1, <3>1, PieceIs
      <3> QED BY <2>2, <3>2 DEF Window
    <2>3. CASE i # n - 1
      <3> DEFINE b == from[i] + (from[i + 1] - Len(sep) - from[i])
      <3>1. from[i + 1] \in 0 .. l
        <4>1. i + 1 \in 0 .. n - 1
          BY <1>0, <2>3
        <4> QED BY <1>5, <4>1
      <3>2. b \in Int /\ b <= Len(s)
        BY <1>0, <2>1, <3>1, SMTT(30)
      <3>3. SubSeq(s, from[i] + 1, b) \in Seq(Nat)
        <4> HIDE DEF b
        <4> QED BY <2>1, <3>2, PieceIs
      <3> QED BY <2>3, <3>3 DEF Window
    <2> HIDE DEF piece
    <2> QED BY <2>2, <2>3
  <1>7. all \in Seq(Seq(Nat)) /\ Len(all) = n
    <2>1. \A k \in 1 .. n : all[k] \in Seq(Nat)
      <3>1. \A k \in 1 .. n : k - 1 \in 0 .. n - 1
        BY <1>0
      <3> HIDE DEF piece
      <3> QED BY <1>6, <3>1
    <2>2. all = [k \in 1 .. n |-> all[k]]
      <3> HIDE DEF piece
      <3> QED OBVIOUS
    <2> HIDE DEF all
    <2> QED BY <2>1, <2>2, SeqOfFunction
  <1> QED BY <1>4, <1>7

LEMMA FilledIs ==
    ASSUME Shaped, UNCHANGED live, NEW list \in Seq(live), NEW pieces \in Seq(Seq(Nat)),
           Len(pieces) <= Len(list), NEW k \in 0 .. Len(pieces), Fill(list, pieces, k),
           strings' = Filled(list, pieces, k)
    PROVE  Steady /\ Sparing
  <1> DEFINE Takes(d) == Mutable(strings[d]) /\ \E i \in 1 .. k : list[i] = d
             of(d) == CHOOSE i \in 1 .. k : list[i] = d
  <1>1. \A i \in 1 .. k : list[i] \in live /\ pieces[i] \in Seq(Nat)
    <2> SUFFICES ASSUME NEW i \in 1 .. k PROVE list[i] \in live /\ pieces[i] \in Seq(Nat)
      OBVIOUS
    <2>1. i \in 1 .. Len(list) /\ i \in 1 .. Len(pieces)
      OBVIOUS
    <2> QED BY <2>1
  <1>2. \A d \in Names : strings[d] \in Rec /\ Sound(strings[d])
    BY DEF Shaped
  <1>3. \A d \in Names : Takes(d) =>
            /\ Written(strings[d], pieces[of(d)]) \in Rec /\ Sound(Written(strings[d], pieces[of(d)]))
            /\ Grown(strings[d], Written(strings[d], pieces[of(d)])) /\ d \in live
    <2> SUFFICES ASSUME NEW d \in Names, Takes(d)
                 PROVE  /\ Written(strings[d], pieces[of(d)]) \in Rec
                        /\ Sound(Written(strings[d], pieces[of(d)]))
                        /\ Grown(strings[d], Written(strings[d], pieces[of(d)])) /\ d \in live
      OBVIOUS
    <2> DEFINE i == of(d)
    <2>1. i \in 1 .. k /\ list[i] = d
      OBVIOUS
    <2> HIDE DEF i
    <2>2. pieces[i] \in Seq(Nat) /\ d \in live
      BY <1>1, <2>1
    <2>3. CanHold(strings[d], Len(pieces[i]))
      <3>1. CASE pieces[i] = <<>>
        <4>1. Len(pieces[i]) = 0 /\ Capacity(strings[d]) >= 0
          BY <1>2, <3>1, RecIs, SMTT(30)
        <4> QED BY <4>1 DEF CanHold, HasRoom
      <3>2. CASE pieces[i] # <<>>
        BY <2>1, <3>2 DEF Fill
      <3> QED BY <3>1, <3>2
    <2>4. /\ Written(strings[d], pieces[i]) \in Rec /\ Sound(Written(strings[d], pieces[i]))
          /\ Grown(strings[d], Written(strings[d], pieces[i]))
      BY <1>2, <2>2, <2>3, WrittenIs
    <2> QED BY <2>2, <2>4 DEF i
  <1>4. strings' = [d \in Names |-> IF Takes(d) THEN Written(strings[d], pieces[of(d)]) ELSE strings[d]]
    BY DEF Filled
  <1> DEFINE new(d) == Written(strings[d], pieces[of(d)])
  <1>5. \A d \in Names : strings'[d] = IF Takes(d) THEN new(d) ELSE strings[d]
    <2> HIDE DEF Takes
    <2> QED BY <1>4
  <1>6. strings' = [d \in Names |-> strings'[d]]
    <2> HIDE DEF Takes, of
    <2> QED BY <1>4
  <1>7. \A d \in Names : Takes(d) => Mutable(strings[d])
    OBVIOUS
  <1> HIDE DEF Takes
  <1>8. \A d \in Names : Takes(d) => new(d) \in Rec /\ Sound(new(d)) /\ Grown(strings[d], new(d)) /\ d \in live
    BY <1>3
  <1> HIDE DEF new
  <1>9. \A d \in Names : strings'[d] \in Rec
    BY <1>2, <1>5, <1>8
  <1>10. strings' \in [Names -> Rec]
    BY <1>6, <1>9
  <1>11. \A d \in Names : Grown(strings[d], strings[d])
    BY RecIs DEF Grown, Shaped
  <1>12. Steady
    BY <1>2, <1>5, <1>8, <1>10, <1>11 DEF Shaped, Steady
  <1>13. Sparing
    <2>1. \A d \in Names : IsPrefix(strings[d].text, strings[d].text)
      BY PrefixOfItself, RecIs DEF Shaped
    <2> QED BY <1>5, <1>7, <2>1 DEF Sparing, Spared
  <1> QED BY <1>12, <1>13

LEMMA ListsAre == Lists \subseteq Seq(live)
  <1> SUFFICES ASSUME NEW l \in BoundedSeq(live, 2) PROVE l \in Seq(live)
    BY DEF Lists
  <1>1. PICK m \in 0 .. 2 : l \in [1 .. m -> live]
    BY DEF BoundedSeq, SeqOf
  <1> QED BY <1>1

LEMMA SplitIs ==
    ASSUME Shaped, NEW d \in live, NEW w \in caller.words, NEW l \in Lists, Split(l, d, w)
    PROVE  Steady /\ Sparing
  <1> DEFINE s == Text(d)
             sep == IF w = NULL THEN WHITESPACE ELSE w
             count == Count(s, sep, 0, Len(s))
             n == Least(count, Len(l) - 1) + 1
             pieces == Cuts(s, sep, n)
  <1>1. CASE UNCHANGED <<strings, live>>
    BY <1>1, NoneChanged
  <1>2. ASSUME l # <<>>, count >= 1, UNCHANGED live,
               NEW k \in 0 .. Len(pieces), Fill(l, pieces, k), strings' = Filled(l, pieces, k)
        PROVE  Steady /\ Sparing
    <2>1. s \in Seq(Nat) /\ sep \in Seq(Nat) /\ l \in Seq(live)
      <3>1. WHITESPACE \in Seq(Nat)
        BY DEF WHITESPACE
      <3>2. w # NULL => w \in Seq(Nat)
        BY CallerIs DEF Words
      <3> QED BY <3>1, <3>2, StringIs, ListsAre
    <2>2. count \in Nat /\ Len(sep) <= Len(s) /\ Len(sep) >= 1
      <3> HIDE DEF s, sep
      <3>1. count \in Nat /\ (count > 0 => Len(sep) <= Len(s) /\ Len(sep) >= 1)
        BY <2>1, CountIsNat
      <3> HIDE DEF count
      <3> QED BY <1>2, <3>1
    <2>3. n \in Nat /\ n >= 1 /\ n <= Len(l)
      <3>1. Len(l) \in Nat /\ Len(l) >= 1
        BY <1>2, <2>1
      <3> HIDE DEF count
      <3> QED BY <1>2, <2>2, <3>1 DEF Least
    <2>4. pieces \in Seq(Seq(Nat)) /\ Len(pieces) = n
      <3> HIDE DEF s, sep, n
      <3> QED BY <2>1, <2>2, <2>3, CutsAre
    <2> HIDE DEF pieces, n
    <2>5. Len(pieces) <= Len(l)
      BY <2>3, <2>4
    <2> QED BY <1>2, <2>1, <2>4, <2>5, FilledIs
  <1>3. \/ UNCHANGED <<strings, live>>
        \/ /\ l # <<>> /\ count >= 1 /\ UNCHANGED live
           /\ \E k \in 0 .. Len(pieces) : Fill(l, pieces, k) /\ strings' = Filled(l, pieces, k)
    BY DEF Split, SplitOnto, Crashes
  <1> HIDE DEF pieces, count
  <1> QED BY <1>1, <1>2, <1>3

LEMMA SplitNewIs ==
    ASSUME Shaped, NEW has, NEW d, NEW w, SplitNew(has, d, w)
    PROVE  Steady /\ Sparing
  <1>1. UNCHANGED <<strings, live>>
    BY DEF SplitNew, NotMade, Crashes
  <1> QED BY <1>1, NoneChanged

-----------------------------------------------------------------------------
(* Join *)

LEMMA JoinedSizeIs ==
    ASSUME Shaped, NEW list \in Seq(live), list # <<>>, NEW sep \in Seq(Nat)
    PROVE  JoinedSize(list, sep) \in Nat
  <1> DEFINE n == Len(list)
             m == Len(sep)
             len(i) == Len(Text(list[i]))
             Sums(f) == f = [i \in 1 .. n |-> len(i) + (IF i = 1 THEN 0 ELSE f[i - 1] + m)]
             upto == CHOOSE f : Sums(f)
  <1>1. n \in Nat /\ n >= 1 /\ m \in Nat
    OBVIOUS
  <1>2. \A i \in 1 .. n : len(i) \in Nat
    <2> SUFFICES ASSUME NEW i \in 1 .. n PROVE len(i) \in Nat
      OBVIOUS
    <2>1. list[i] \in live
      OBVIOUS
    <2> QED BY <2>1, StringIs
  <1>3. JoinedSize(list, sep) = upto[n]
    BY DEF JoinedSize
  <1> HIDE DEF n, m, len
  <1>4. \E f : Sums(f)
    <2> DEFINE step == [w \in (1 .. n) \X Nat |-> IF w[1] < n THEN len(w[1] + 1) + (w[2] + m) ELSE 0]
    <2>1. step \in [(1 .. n) \X Nat -> Nat]
      <3> SUFFICES ASSUME NEW w \in (1 .. n) \X Nat, w[1] < n
                   PROVE  len(w[1] + 1) + (w[2] + m) \in Nat
        BY <1>1
      <3>1. w[1] \in 1 .. n /\ w[2] \in Nat
        OBVIOUS
      <3>2. w[1] + 1 \in 1 .. n
        BY <1>1, <3>1
      <3> QED BY <1>1, <1>2, <3>1, <3>2, SMTT(30)
    <2>2. \A i \in 1 .. n - 1 : \A v \in Nat : step[<<i, v>>] = len(i + 1) + (v + m)
      <3> SUFFICES ASSUME NEW i \in 1 .. n - 1, NEW v \in Nat
                   PROVE  step[<<i, v>>] = len(i + 1) + (v + m)
        OBVIOUS
      <3>1. i \in 1 .. n /\ i < n
        BY <1>1
      <3> QED BY <3>1
    <2> HIDE DEF step
    <2>3. 1 \in 1 .. n /\ len(1) \in Nat
      BY <1>1, <1>2
    <2>4. PICK g \in [1 .. n -> Nat] : Recurs(g, n, len(1), step)
      BY <1>1, <2>1, <2>3, RecursionExists
    <2>5. \A i \in 1 .. n : g[i] = len(i) + (IF i = 1 THEN 0 ELSE g[i - 1] + m)
      <3> SUFFICES ASSUME NEW i \in 1 .. n
                   PROVE  g[i] = len(i) + (IF i = 1 THEN 0 ELSE g[i - 1] + m)
        OBVIOUS
      <3>1. CASE i = 1
        BY <2>3, <2>4, <3>1 DEF Recurs
      <3>2. CASE i # 1
        <4>1. i - 1 \in 1 .. n - 1 /\ (i - 1) + 1 = i /\ i - 1 \in 1 .. n
          BY <1>1, <3>2
        <4>2. g[(i - 1) + 1] = step[<<i - 1, g[i - 1]>>]
          BY <2>4, <4>1 DEF Recurs
        <4>3. step[<<i - 1, g[i - 1]>>] = len((i - 1) + 1) + (g[i - 1] + m)
          BY <2>2, <4>1
        <4> QED BY <3>2, <4>1, <4>2, <4>3
      <3> QED BY <3>1, <3>2
    <2>6. Sums(g)
      BY <2>5
    <2> QED BY <2>6
  <1>5. Sums(upto)
    <2> HIDE DEF Sums
    <2> QED BY <1>4
  <1> HIDE DEF upto
  <1>6. 1 .. n \subseteq {i \in 1 .. n : upto[i] \in Nat}
    <2> DEFINE A == {i \in 1 .. n : upto[i] \in Nat}
    <2>1. 1 \in A
      BY <1>1, <1>2, <1>5
    <2>2. ASSUME NEW i \in 1 .. n - 1, i \in A PROVE i + 1 \in A
      <3>1. i + 1 \in 1 .. n /\ i + 1 # 1 /\ (i + 1) - 1 = i
        BY <1>1
      <3>2. upto[i + 1] = len(i + 1) + (upto[i] + m)
        BY <1>5, <3>1
      <3>3. len(i + 1) \in Nat /\ upto[i] \in Nat
        BY <1>2, <2>2, <3>1
      <3> QED BY <1>1, <3>1, <3>2, <3>3
    <2> HIDE DEF A
    <2>3. 1 .. n \subseteq A
      BY <1>1, <2>1, <2>2, IntervalInduction
    <2> QED BY <2>3 DEF A
  <1>7. n \in 1 .. n
    BY <1>1
  <1> QED BY <1>3, <1>6, <1>7

(* What a String may have become in a call that writes to it.               *)
Successors(s) == {x \in Rec : Sound(x) /\ Grown(s, x)}

LEMMA ExtendedIs ==
    ASSUME NEW s0 \in Rec, NEW s \in Successors(s0), NEW t \in Seq(Nat)
    PROVE  Extended(s, t) \subseteq Successors(s0)
  <1> DEFINE u == s.text \o t
             r == Written(s, u)
  <1>1. s \in Rec /\ Sound(s) /\ Grown(s0, s) /\ u \in Seq(Nat)
    BY RecIs DEF Successors
  <1> HIDE DEF u
  <1> SUFFICES ASSUME NEW x \in Extended(s, t), x # s PROVE x \in Successors(s0)
    OBVIOUS
  <1>2. x = r /\ CanHold(s, Len(x.text))
    BY DEF Extended, u
  <1>3. r.text = u
    <2> DEFINE q == WithRoom(s, Len(u))
    <2>1. q = s \/ q = [s EXCEPT !.capacity = NewCapacity(s, Len(u)), !.null = FALSE]
      BY DEF WithRoom, Resized
    <2>2. DOMAIN s = {"text", "capacity", "null"}
      BY <1>1, RecIs
    <2>3. "text" \in DOMAIN q
      <3> HIDE DEF q
      <3> QED BY <2>1, <2>2
    <2>4. r = [q EXCEPT !.text = u]
      BY DEF Written
    <2> HIDE DEF q, r
    <2> QED BY <2>3, <2>4
  <1>4. r \in Rec /\ Sound(r) /\ Grown(s, r)
    <2>1. CanHold(s, Len(u))
      BY <1>2, <1>3
    <2> QED BY <1>1, <2>1, WrittenIs
  <1> HIDE DEF r
  <1>5. Grown(s0, r)
    BY <1>1, <1>4, GrownTwice
  <1> QED BY <1>2, <1>4, <1>5 DEF Successors

LEMMA JoinedOntoIs ==
    ASSUME Shaped, NEW list \in Seq(live), list # <<>>, NEW sep \in Seq(Nat), NEW d,
           NEW s \in Rec, Sound(s)
    PROVE  JoinedOnto(d, s, sep, list) \subseteq Successors(s)
  <1> DEFINE n == Len(list)
             G == Successors(s)
             W == SUBSET G
             part(i, x) == IF list[i] = d THEN x.text ELSE Text(list[i])
             Parted(A) == UNION {Extended(y, sep) : y \in A}
             Next1(i, A) == UNION {Extended(x, part(i, x)) : x \in IF i = 1 THEN A ELSE Parted(A)}
             first == {[s EXCEPT !.text = <<>>]}
             Joins(f) == f = [i \in 0 .. n |->
                IF i = 0 THEN first
                ELSE UNION {Extended(x, part(i, x)) :
                        x \in IF i = 1 THEN f[0]
                              ELSE UNION {Extended(y, sep) : y \in f[i - 1]}}]
             upto == CHOOSE f : Joins(f)
  <1>1. n \in Nat /\ n >= 1
    OBVIOUS
  <1>2. \A i \in 1 .. n : \A x \in G : part(i, x) \in Seq(Nat)
    <2> SUFFICES ASSUME NEW i \in 1 .. n, NEW x \in G PROVE part(i, x) \in Seq(Nat)
      OBVIOUS
    <2>1. list[i] \in live
      OBVIOUS
    <2>2. Text(list[i]) \in Seq(Nat) /\ x.text \in Seq(Nat)
      BY <2>1, StringIs, RecIs DEF Successors
    <2> QED BY <2>2
  <1>3. first \in W
    <2> DEFINE r == [s EXCEPT !.text = <<>>]
    <2>1. r \in Rec /\ Sound(r) /\ Grown(s, r)
      BY EmptiedIs
    <2> HIDE DEF r
    <2>2. r \in G
      BY <2>1 DEF Successors
    <2> HIDE DEF G
    <2>3. {r} \in SUBSET G
      BY <2>2
    <2> QED BY <2>3 DEF r
  <1>4. \A i \in 1 .. n : \A A \in W : Next1(i, A) \in W
    <2> SUFFICES ASSUME NEW i \in 1 .. n, NEW A \in W PROVE Next1(i, A) \in W
      OBVIOUS
    <2>1. \A y \in G : Extended(y, sep) \subseteq G
      BY ExtendedIs
    <2>2. \A x \in G : Extended(x, part(i, x)) \subseteq G
      <3> SUFFICES ASSUME NEW x \in G PROVE Extended(x, part(i, x)) \subseteq G
        OBVIOUS
      <3>1. part(i, x) \in Seq(Nat)
        BY <1>2
      <3> HIDE DEF part
      <3> QED BY <3>1, ExtendedIs
    <2> HIDE DEF G, part
    <2>3. Parted(A) \subseteq G
      BY <2>1
    <2> HIDE DEF Parted
    <2> QED BY <2>2, <2>3
  <1>5. JoinedOnto(d, s, sep, list) = upto[n]
    BY DEF JoinedOnto
  <1>6. \A f : Joins(f) <=> f = [i \in 0 .. n |-> IF i = 0 THEN first ELSE Next1(i, f[i - 1])]
    <2> SUFFICES ASSUME NEW f
                 PROVE  [i \in 0 .. n |->
                           IF i = 0 THEN first
                           ELSE UNION {Extended(x, part(i, x)) :
                              x \in IF i = 1 THEN f[0]
                                    ELSE UNION {Extended(y, sep) : y \in f[i - 1]}}]
                        = [i \in 0 .. n |-> IF i = 0 THEN first ELSE Next1(i, f[i - 1])]
      OBVIOUS
    <2>1. ASSUME NEW i \in 0 .. n
          PROVE  (IF i = 0 THEN first
                  ELSE UNION {Extended(x, part(i, x)) :
                              x \in IF i = 1 THEN f[0]
                                    ELSE UNION {Extended(y, sep) : y \in f[i - 1]}})
                 = (IF i = 0 THEN first ELSE Next1(i, f[i - 1]))
      <3>1. CASE i = 1
        <4>1. i - 1 = 0 /\ i # 0
          BY <3>1
        <4> HIDE DEF part, first
        <4> QED BY <3>1, <4>1
      <3>2. CASE i # 1
        <4> HIDE DEF part, first
        <4> QED BY <3>2
      <3> QED BY <3>1, <3>2
    <2> HIDE DEF part, first
    <2> QED BY <2>1
  <1> HIDE DEF G, W, part, Parted, first, n, Next1
  <1>7. \E f : Joins(f)
    <2> DEFINE step == [w \in (1 .. n) \X W |-> Next1(w[1], w[2])]
    <2>1. step \in [(1 .. n) \X W -> W]
      <3> SUFFICES ASSUME NEW w \in (1 .. n) \X W PROVE Next1(w[1], w[2]) \in W
        OBVIOUS
      <3>1. w[1] \in 1 .. n /\ w[2] \in W
        OBVIOUS
      <3> QED BY <1>4, <3>1
    <2>2. \A i \in 1 .. n : \A v \in W : step[<<i, v>>] = Next1(i, v)
      OBVIOUS
    <2> HIDE DEF step
    <2>3. PICK g \in [0 .. n -> W] : Recurs0(g, n, first, step)
      BY <1>1, <1>3, <2>1, RecursionFrom
    <2>4. \A i \in 0 .. n : g[i] = IF i = 0 THEN first ELSE Next1(i, g[i - 1])
      <3> SUFFICES ASSUME NEW i \in 0 .. n, i # 0 PROVE g[i] = Next1(i, g[i - 1])
        BY <2>3 DEF Recurs0
      <3>1. i \in 1 .. n /\ i - 1 \in 0 .. n
        BY <1>1
      <3>2. g[i - 1] \in W
        BY <3>1
      <3> QED BY <2>2, <2>3, <3>1, <3>2 DEF Recurs0
    <2> HIDE DEF Joins
    <2>5. g = [i \in 0 .. n |-> IF i = 0 THEN first ELSE Next1(i, g[i - 1])]
      BY <2>4
    <2> QED BY <1>6, <2>5
  <1>8. Joins(upto)
    <2> HIDE DEF Joins
    <2> QED BY <1>7
  <1> HIDE DEF upto, Joins
  <1>9. \A i \in 0 .. n : upto[i] \in W
    <2>1. upto = [i \in 0 .. n |-> IF i = 0 THEN first ELSE Next1(i, upto[i - 1])]
      BY <1>6, <1>8
    <2>2. upto[0] = first /\ \A i \in 1 .. n : upto[i] = Next1(i, upto[i - 1])
      <3>1. 0 \in 0 .. n /\ \A i \in 1 .. n : i \in 0 .. n /\ i # 0
        BY <1>1
      <3> QED BY <2>1, <3>1
    <2>3. upto[0] \in W /\ \A i \in 1 .. n : upto[i - 1] \in W => upto[i] \in W
      BY <1>3, <1>4, <2>2
    <2> QED BY <1>1, <2>3, StaysIn
  <1>10. n \in 0 .. n
    BY <1>1
  <1> QED BY <1>5, <1>9, <1>10 DEF G, W

LEMMA JoinIs ==
    ASSUME Shaped, NEW d \in live, NEW w \in caller.words, NEW l \in Lists, Join(d, w, l)
    PROVE  Steady /\ Sparing
  <1> DEFINE sep == IF w = NULL THEN <<>> ELSE w
             size == JoinedSize(l, sep)
             s == strings[d]
             r == WithRoom(s, size)
  <1>0. UNCHANGED live
    BY DEF Join
  <1>1. CASE UNCHANGED strings
    BY <1>0, <1>1, NoneChanged
  <1>2. CASE Set(d, [strings[d] EXCEPT !.text = <<>>])
    <2> DEFINE x == [strings[d] EXCEPT !.text = <<>>]
    <2>1. x \in Rec /\ Sound(x) /\ Grown(strings[d], x) /\ Spared(strings[d], x)
      BY EmptiedIs, StringIs
    <2>2. Set(d, x)
      BY <1>2
    <2> HIDE DEF x
    <2> QED BY <1>0, <2>1, <2>2, OneChanged
  <1>3. ASSUME l # <<>>, Mutable(s), CanHold(s, size), NEW x \in JoinedOnto(d, r, sep, l), Set(d, x)
        PROVE  Steady /\ Sparing
    <2>1. sep \in Seq(Nat) /\ l \in Seq(live) /\ s \in Rec /\ Sound(s)
      <3>1. w # NULL => w \in Seq(Nat)
        BY CallerIs DEF Words
      <3>2. <<>> \in Seq(Nat)
        OBVIOUS
      <3> QED BY <3>1, <3>2, StringIs, ListsAre
    <2> HIDE DEF sep
    <2>2. size \in Int
      BY <1>3, <2>1, JoinedSizeIs
    <2> HIDE DEF size
    <2>3. r \in Rec /\ Sound(r) /\ Grown(s, r)
      <3> HIDE DEF s
      <3> QED BY <1>3, <2>1, <2>2, WithRoomIs
    <2> HIDE DEF r
    <2>4. x \in Successors(r)
      BY <1>3, <2>1, <2>3, JoinedOntoIs
    <2>5. x \in Rec /\ Sound(x) /\ Grown(r, x)
      BY <2>4 DEF Successors
    <2>6. Grown(s, x)
      <3> HIDE DEF s
      <3> QED BY <2>1, <2>3, <2>5, GrownTwice
    <2>7. Spared(s, x)
      BY <1>3 DEF Spared
    <2> QED BY <1>0, <1>3, <2>5, <2>6, <2>7, OneChanged
  <1>4. \/ UNCHANGED strings
        \/ Set(d, [strings[d] EXCEPT !.text = <<>>])
        \/ /\ l # <<>> /\ Mutable(s) /\ CanHold(s, size)
           /\ \E x \in JoinedOnto(d, r, sep, l) : Set(d, x)
    BY DEF Join
  <1> HIDE DEF r, size, sep
  <1> QED BY <1>1, <1>2, <1>3, <1>4

-----------------------------------------------------------------------------
(* The buffer during a call *)

(* Buffers of m characters. *)
Bufs(m) == [cells : [0 .. m - 1 -> Nat], ok : BOOLEAN]

LEMMA BufIs ==
    ASSUME NEW m \in Nat, NEW b \in Bufs(m)
    PROVE  /\ b.cells \in [0 .. m - 1 -> Nat] /\ DOMAIN b.cells = 0 .. m - 1
           /\ \A i \in 0 .. m - 1 : b.cells[i] \in Nat
           /\ b.ok \in BOOLEAN
           /\ DOMAIN b = {"cells", "ok"} /\ b = [cells |-> b.cells, ok |-> b.ok]
  BY DEF Bufs

LEMMA BadBuf ==
    ASSUME NEW m \in Nat, NEW b \in Bufs(m)
    PROVE  [b EXCEPT !.ok = FALSE] \in Bufs(m) /\ [b EXCEPT !.ok = FALSE].ok = FALSE
  <1> DEFINE f == FALSE
             r == [b EXCEPT !.ok = f]
  <1>1. f \in BOOLEAN
    OBVIOUS
  <1> HIDE DEF f
  <1>2. r = [cells |-> b.cells, ok |-> f]
    BY BufIs
  <1> HIDE DEF r
  <1>3. r \in Bufs(m) /\ r.ok = f
    BY <1>1, <1>2, BufIs DEF Bufs
  <1> QED BY <1>3 DEF r, f

LEMMA GoodBuf ==
    ASSUME NEW m \in Nat, NEW b \in Bufs(m), NEW c \in [0 .. m - 1 -> Nat]
    PROVE  [b EXCEPT !.cells = c] \in Bufs(m) /\ [b EXCEPT !.cells = c].cells = c
           /\ [b EXCEPT !.cells = c].ok = b.ok
  <1> DEFINE r == [b EXCEPT !.cells = c]
  <1>1. r = [cells |-> c, ok |-> b.ok]
    BY BufIs
  <1> HIDE DEF r
  <1>2. r \in Bufs(m) /\ r.cells = c /\ r.ok = b.ok
    BY <1>1, BufIs DEF Bufs
  <1> QED BY <1>2 DEF r

Room(s) == Max({Capacity(s), Len(s.text)})

LEMMA BufferIs ==
    ASSUME NEW s \in Rec
    PROVE  /\ Room(s) \in Nat /\ Room(s) >= Capacity(s) /\ Room(s) >= Len(s.text)
           /\ Buffer(s) \in Bufs(Room(s))
           /\ \A k \in 1 .. Len(s.text) : Buffer(s).cells[k - 1] = s.text[k]
  <1> DEFINE c == Capacity(s)
             l == Len(s.text)
             n == Room(s)
             f == [i \in 0 .. n - 1 |-> IF i < l THEN s.text[i + 1] ELSE Junk]
  <1>1. c \in Nat /\ l \in Nat /\ s.text \in Seq(Nat)
    BY RecIs
  <1>2. \A k \in 1 .. l : s.text[k] \in Nat
    BY <1>1
  <1>3. n \in Nat /\ n >= c /\ n >= l
    <2> HIDE DEF c, l
    <2>1. Max({c, l}) \in {c, l} /\ \A x \in {c, l} : Max({c, l}) >= x
      <3>1. \E m \in {c, l} : \A x \in {c, l} : m >= x
        BY <1>1
      <3> QED BY <3>1 DEF Max
    <2>2. n = Max({c, l})
      BY DEF Room, c, l
    <2> HIDE DEF n
    <2> QED BY <1>1, <2>1, <2>2
  <1>4. Buffer(s) = [cells |-> f, ok |-> TRUE]
    BY DEF Buffer, Room
  <1> HIDE DEF n, c, l
  <1>5. f \in [0 .. n - 1 -> Nat]
    <2> SUFFICES ASSUME NEW i \in 0 .. n - 1, i < l PROVE s.text[i + 1] \in Nat
      BY DEF Junk
    <2>1. i + 1 \in 1 .. l
      BY <1>1, <1>3
    <2> QED BY <1>2, <2>1
  <1>6. \A k \in 1 .. l : f[k - 1] = s.text[k]
    <2> SUFFICES ASSUME NEW k \in 1 .. l PROVE f[k - 1] = s.text[k]
      OBVIOUS
    <2>1. k - 1 \in 0 .. n - 1 /\ k - 1 < l /\ (k - 1) + 1 = k
      BY <1>1, <1>3
    <2> QED BY <2>1
  <1> HIDE DEF f
  <1>7. Buffer(s) \in Bufs(n) /\ Buffer(s).cells = f
    BY <1>4, <1>5 DEF Bufs
  <1> QED BY <1>3, <1>6, <1>7 DEF n, c, l

LEMMA CoversIs ==
    ASSUME NEW m \in Nat, NEW b \in Bufs(m), NEW p \in Int, NEW n \in Int, Covers(b, p, n)
    PROVE  n \in Nat /\ (n > 0 => p >= 0 /\ p + n <= m) /\ \A i \in p .. p + n - 1 : i \in 0 .. m - 1
  <1>1. n \in Nat /\ (n > 0 => p \in 0 .. m - 1 /\ p + n - 1 \in 0 .. m - 1)
    BY BufIs DEF Covers
  <1> QED BY <1>1

LEMMA MovedIs ==
    ASSUME NEW m \in Nat, NEW b \in Bufs(m), NEW to \in Int, NEW from \in Int, NEW n \in Int
    PROVE  /\ Moved(b, to, from, n) \in Bufs(m)
           /\ Moved(b, to, from, n).ok =>
                 b.ok /\ n \in Nat /\ (n > 0 => to >= 0)
                 /\ (n = 0 => Moved(b, to, from, n).cells = b.cells)
  <1> DEFINE c == [i \in 0 .. m - 1 |->
                      IF i \in to .. to + n - 1 THEN b.cells[i - to + from] ELSE b.cells[i]]
             r == [b EXCEPT !.cells = c]
  <1>1. CASE ~ (b.ok /\ Covers(b, to, n) /\ Covers(b, from, n))
    BY <1>1, BadBuf DEF Moved
  <1>2. CASE b.ok /\ Covers(b, to, n) /\ Covers(b, from, n)
    <2>1. n \in Nat /\ (n > 0 => to >= 0) /\ \A i \in from .. from + n - 1 : i \in 0 .. m - 1
      BY <1>2, CoversIs
    <2>2. c \in [0 .. m - 1 -> Nat]
      <3> SUFFICES ASSUME NEW i \in 0 .. m - 1, i \in to .. to + n - 1
                   PROVE  b.cells[i - to + from] \in Nat
        BY BufIs
      <3>1. i - to + from \in from .. from + n - 1
        OBVIOUS
      <3> QED BY <2>1, <3>1, BufIs
    <2>3. Moved(b, to, from, n) = r
      BY <1>2, BufIs DEF Moved
    <2>4. n = 0 => c = b.cells
      <3> SUFFICES ASSUME n = 0 PROVE c = b.cells
        OBVIOUS
      <3>1. \A i \in 0 .. m - 1 : i \notin to .. to + n - 1
        OBVIOUS
      <3>2. \A i \in 0 .. m - 1 : c[i] = b.cells[i]
        BY <3>1
      <3> HIDE DEF c
      <3> QED BY <2>2, <3>2, BufIs, SMTT(30)
    <2> HIDE DEF c
    <2>5. r \in Bufs(m) /\ r.cells = c /\ r.ok = b.ok
      BY <2>2, GoodBuf
    <2> HIDE DEF r
    <2> QED BY <1>2, <2>1, <2>3, <2>4, <2>5
  <1> QED BY <1>1, <1>2

LEMMA StoredIs ==
    ASSUME NEW m \in Nat, NEW b \in Bufs(m), NEW to \in Int, NEW t \in Seq(Nat)
    PROVE  /\ Stored(b, to, t) \in Bufs(m)
           /\ Stored(b, to, t).ok =>
                 b.ok /\ (Len(t) > 0 => to >= 0)
                 /\ (Len(t) = 0 => Stored(b, to, t).cells = b.cells)
  <1> DEFINE n == Len(t)
             c == [i \in 0 .. m - 1 |-> IF i \in to .. to + n - 1 THEN t[i - to + 1] ELSE b.cells[i]]
             r == [b EXCEPT !.cells = c]
  <1>0. n \in Nat /\ \A k \in 1 .. n : t[k] \in Nat
    OBVIOUS
  <1>1. CASE ~ (b.ok /\ Covers(b, to, n))
    BY <1>1, BadBuf DEF Stored
  <1>2. CASE b.ok /\ Covers(b, to, n)
    <2>1. n > 0 => to >= 0
      BY <1>0, <1>2, CoversIs
    <2>2. c \in [0 .. m - 1 -> Nat]
      <3> SUFFICES ASSUME NEW i \in 0 .. m - 1, i \in to .. to + n - 1
                   PROVE  t[i - to + 1] \in Nat
        BY BufIs
      <3>1. i - to + 1 \in 1 .. n
        <4> HIDE DEF n
        <4> QED BY <1>0
      <3> QED BY <1>0, <3>1
    <2>3. Stored(b, to, t) = r
      BY <1>2, BufIs DEF Stored
    <2>4. n = 0 => c = b.cells
      <3> SUFFICES ASSUME n = 0 PROVE c = b.cells
        OBVIOUS
      <3>1. \A i \in 0 .. m - 1 : i \notin to .. to + n - 1
        <4> HIDE DEF n
        <4> QED OBVIOUS
      <3>2. \A i \in 0 .. m - 1 : c[i] = b.cells[i]
        BY <3>1
      <3> HIDE DEF c
      <3> QED BY <2>2, <3>2, BufIs
    <2> HIDE DEF c
    <2>5. r \in Bufs(m) /\ r.cells = c /\ r.ok = b.ok
      BY <2>2, GoodBuf
    <2> HIDE DEF r
    <2> QED BY <1>2, <2>1, <2>3, <2>4, <2>5
  <1> QED BY <1>1, <1>2

LEMMA ContentIs ==
    ASSUME NEW m \in Nat, NEW b \in Bufs(m), NEW n \in Nat, n <= m
    PROVE  Content(b, n) \in Seq(Nat) /\ Len(Content(b, n)) = n
  <1> DEFINE f == [k \in 1 .. n |-> b.cells[k - 1]]
  <1>1. \A k \in 1 .. n : k - 1 \in 0 .. m - 1
    OBVIOUS
  <1>2. \A k \in 1 .. n : f[k] \in Nat
    BY <1>1, BufIs
  <1>3. f = [k \in 1 .. n |-> f[k]] /\ Content(b, n) = f
    BY DEF Content
  <1> HIDE DEF f
  <1> QED BY <1>2, <1>3, SeqOfFunction

(* A call that rewrites a String, in place or in the room made for it.      *)
LEMMA RewriteIs ==
    ASSUME Shaped, UNCHANGED live, NEW d \in live, NEW size \in Int, CanHold(strings[d], size),
           NEW n \in Nat, n <= Room(WithRoom(strings[d], size)),
           Mutable(strings[d]) => n <= Capacity(WithRoom(strings[d], size)),
           NEW b \in Bufs(Room(WithRoom(strings[d], size))),
           ~ Mutable(strings[d]) /\ b.ok => IsPrefix(Content(b, n), Text(d)),
           Rewrite(d, WithRoom(strings[d], size), b, n)
    PROVE  Steady /\ Sparing
  <1> DEFINE s == strings[d]
             q == WithRoom(s, size)
             t == Content(b, n)
             r == [q EXCEPT !.text = t]
  <1>1. s \in Rec /\ Sound(s) /\ Text(d) = s.text /\ d \in Names
    BY StringIs
  <1> HIDE DEF s
  <1>2. /\ q \in Rec /\ Sound(q) /\ Grown(s, q)
        /\ Mutable(s) <=> Mutable(q)
    BY <1>1, WithRoomIs DEF s
  <1>3. Room(q) \in Nat
    BY <1>2, BufferIs
  <1>4. n <= Room(q) /\ b \in Bufs(Room(q)) /\ (Mutable(s) => n <= Capacity(q))
    BY DEF s
  <1> HIDE DEF q
  <1>5. t \in Seq(Nat) /\ Len(t) = n
    BY <1>3, <1>4, ContentIs
  <1> HIDE DEF t
  <1>6. r \in Rec /\ Sound(r) /\ Grown(q, r) /\ r.text = t /\ (Mutable(r) <=> Mutable(q))
    <2>1. Mutable(q) => Len(t) <= Capacity(q)
      BY <1>2, <1>4, <1>5
    <2>2. q.null => q.capacity = 0
      BY <1>2 DEF Sound
    <2> QED BY <1>2, <1>5, <2>1, <2>2, PutIn
  <1> HIDE DEF r
  <1>7. Grown(s, r)
    BY <1>1, <1>2, <1>6, GrownTwice
  <1>8. Set(d, IF b.ok THEN r ELSE s)
    BY DEF Rewrite, r, t, q, s
  <1>9. CASE b.ok
    <2>1. Spared(s, r)
      BY <1>1, <1>2, <1>6, <1>9 DEF Spared, t, s
    <2> QED BY <1>6, <1>7, <1>8, <1>9, <2>1, OneChanged DEF s
  <1>10. CASE ~ b.ok
    <2>1. Grown(s, s) /\ Spared(s, s)
      BY <1>1, RecIs, PrefixOfItself DEF Grown, Spared
    <2> QED BY <1>1, <1>8, <1>10, <2>1, OneChanged DEF s
  <1> QED BY <1>9, <1>10

-----------------------------------------------------------------------------
(* Tabs *)

LEMMA TabsFit ==
    ASSUME NEW s \in Seq(Nat), NEW tabsize \in Nat
    PROVE  LET tabs == Cardinality({k \in DOMAIN s : s[k] = TAB})
           IN  Len(s) + tabs * (tabsize - 1) \in Nat
  <1> DEFINE Tabs == {k \in DOMAIN s : s[k] = TAB}
             c == Cardinality(Tabs)
             n == Len(s)
  <1>1. n \in Nat /\ DOMAIN s = 1 .. n
    OBVIOUS
  <1>2. IsFiniteSet(1 .. n) /\ Cardinality(1 .. n) = n
    <2> HIDE DEF n
    <2>1. IsFiniteSet(1 .. n) /\ Cardinality(1 .. n) = IF 1 > n THEN 0 ELSE n - 1 + 1
      BY <1>1, FS_Interval
    <2> QED BY <1>1, <2>1
  <1>3. c \in Nat /\ c <= n
    <2>1. Tabs \subseteq 1 .. n
      BY <1>1
    <2> HIDE DEF Tabs, n
    <2>2. IsFiniteSet(Tabs) /\ Cardinality(Tabs) <= Cardinality(1 .. n)
      BY <1>2, <2>1, FS_Subset
    <2>3. Cardinality(Tabs) \in Nat
      BY <2>2, FS_CardinalityType
    <2> QED BY <1>2, <2>2, <2>3
  <1> HIDE DEF c, n
  <1>4. n + c * (tabsize - 1) \in Nat
    <2>1. CASE tabsize = 0
      <3>1. c * (0 - 1) = 0 - c
        BY <1>3
      <3> QED BY <1>1, <1>3, <2>1, <3>1
    <2>2. CASE tabsize # 0
      <3> DEFINE t == tabsize - 1
      <3>1. t \in Nat
        BY <2>2
      <3> HIDE DEF t
      <3>2. c * t \in Nat
        BY <1>3, <3>1
      <3>3. n + c * t \in Nat
        BY <1>1, <3>2
      <3> QED BY <3>3 DEF t
    <2> QED BY <2>1, <2>2
  <1> QED BY <1>4 DEF c, n

(* The loop, character by character from the last: what is written for it.  *)
Widened(c, n) == IF c = TAB THEN [k \in 1 .. n |-> SPACE] ELSE << c >>

TabStep(read, v, n) ==
    IF read = -1 \/ ~ v.buf.ok THEN v
    ELSE LET t == Widened(v.buf.cells[read], n)
         IN  [buf |-> Stored(v.buf, v.write - Len(t), t), write |-> v.write - Len(t)]

(* from[read + 1] is what the loop has made when it comes to read.          *)
TabSteps(from, s, size, n) ==
    /\ from[Len(s.text)] = [buf |-> Buffer(s), write |-> size]
    /\ \A read \in -1 .. Len(s.text) - 1 : from[read] = TabStep(read, from[read + 1], n)
    /\ \A read \in -1 .. Len(s.text) : from[read] \in [buf : Bufs(Room(s)), write : Int]
    /\ TabsExpanded(s, size, n) = from[-1].buf

LEMMA TabsUnfold ==
    ASSUME NEW s \in Rec, NEW size \in Int, NEW n \in Nat
    PROVE  \E from : TabSteps(from, s, size, n)
  <1> DEFINE l == Len(s.text)
             m == Room(s)
             S == [buf : Bufs(m), write : Int]
             text(c) == IF c = TAB THEN [k \in 1 .. n |-> SPACE] ELSE << c >>
             Put1(read, v) ==
                [buf   |-> Stored(v.buf, v.write - Len(text(v.buf.cells[read])), text(v.buf.cells[read])),
                 write |-> v.write - Len(text(v.buf.cells[read]))]
             Next1(read, v) == IF read = -1 \/ ~ v.buf.ok THEN v ELSE Put1(read, v)
             start == [buf |-> Buffer(s), write |-> size]
             Solves1(f) == f = [read \in -1 .. l |-> IF read = l THEN start ELSE Next1(read, f[read + 1])]
             from == CHOOSE f : Solves1(f)
  <1>1. l \in Nat /\ m \in Nat /\ l <= m
    BY RecIs, BufferIs
  <1>2. start \in S
    BY BufferIs
  <1>3. \A c \in Nat : text(c) \in Seq(Nat) /\ Len(text(c)) \in Nat
    <2> SUFFICES ASSUME NEW c \in Nat PROVE text(c) \in Seq(Nat)
      OBVIOUS
    <2> DEFINE f == [k \in 1 .. n |-> SPACE]
    <2>1. f \in Seq(Nat)
      <3>1. f = [k \in 1 .. n |-> f[k]] /\ \A k \in 1 .. n : f[k] \in Nat
        BY DEF SPACE
      <3> HIDE DEF f
      <3> QED BY <3>1, SeqOfFunction
    <2>2. << c >> \in Seq(Nat)
      OBVIOUS
    <2> QED BY <2>1, <2>2
  <1>4. TabsExpanded(s, size, n) = from[-1].buf
    <2> DEFINE raw(f, read) ==
                 IF read = Len(s.text) THEN [buf |-> Buffer(s), write |-> size]
                 ELSE LET next == f[read + 1]
                          c    == IF read = -1 THEN TAB ELSE next.buf.cells[read]
                          t    == IF c = TAB THEN [k \in 1 .. n |-> SPACE] ELSE << c >>
                      IN  IF read = -1 \/ ~ next.buf.ok THEN next
                          ELSE [buf   |-> Stored(next.buf, next.write - Len(t), t),
                                write |-> next.write - Len(t)]
               Given(f) == f = [read \in -1 .. Len(s.text) |-> raw(f, read)]
               given == CHOOSE f : Given(f)
    <2>1. ASSUME NEW f, NEW read \in -1 .. l
          PROVE  raw(f, read) = IF read = l THEN start ELSE Next1(read, f[read + 1])
      <3>1. CASE read = l
        BY <3>1
      <3>2. CASE read # l /\ read = -1
        BY <3>2
      <3>3. CASE read # l /\ read # -1
        <4> DEFINE next == f[read + 1]
                   x == next.buf.cells[read]
                   y == IF read = -1 THEN TAB ELSE x
                   t == IF y = TAB THEN [k \in 1 .. n |-> SPACE] ELSE << y >>
                   got == IF read = l THEN start
                          ELSE IF read = -1 \/ ~ next.buf.ok THEN next
                          ELSE [buf   |-> Stored(next.buf, next.write - Len(t), t),
                                write |-> next.write - Len(t)]
        <4>1. raw(f, read) = got
          OBVIOUS
        <4>2. y = x
          BY <3>3
        <4> HIDE DEF y
        <4>3. t = text(x)
          BY <4>2
        <4> HIDE DEF t, text, start, x
        <4>4. got = IF read = l THEN start ELSE Next1(read, next)
          BY <3>3, <4>3 DEF x
        <4> HIDE DEF got, Next1, raw
        <4> QED BY <4>1, <4>4
      <3> QED BY <3>1, <3>2, <3>3
    <2>2. TabsExpanded(s, size, n) = given[-1].buf
      BY DEF TabsExpanded
    <2>3. \A f : Given(f) <=> Solves1(f)
      <3> HIDE DEF start, Next1, raw
      <3> QED BY <2>1
    <2> HIDE DEF Given, Solves1
    <2>4. given = from
      BY <2>3
    <2> HIDE DEF given, from
    <2> QED BY <2>2, <2>4
  <1>5. \A read \in -1 .. l - 1 : \A v \in S : Next1(read, v) \in S
    <2> SUFFICES ASSUME NEW read \in -1 .. l - 1, NEW v \in S, read # -1, v.buf.ok
                 PROVE  Put1(read, v) \in S
      OBVIOUS
    <2> DEFINE c == v.buf.cells[read]
               t == text(c)
    <2>1. v.buf \in Bufs(m) /\ v.write \in Int
      OBVIOUS
    <2>2. c \in Nat
      <3>1. read \in 0 .. m - 1
        BY <1>1
      <3> HIDE DEF m
      <3> QED BY <1>1, <2>1, <3>1, BufIs
    <2> HIDE DEF c
    <2>3. t \in Seq(Nat) /\ Len(t) \in Nat
      BY <1>3, <2>2
    <2> HIDE DEF t, text, m
    <2> DEFINE to == v.write - Len(t)
    <2>4. to \in Int
      BY <2>1, <2>3
    <2> HIDE DEF to
    <2>5. Stored(v.buf, to, t) \in Bufs(m)
      BY <1>1, <2>1, <2>3, <2>4, StoredIs
    <2>6. [buf |-> Stored(v.buf, to, t), write |-> to] \in S
      BY <2>4, <2>5
    <2> QED BY <2>6 DEF to, t, c
  <1> HIDE DEF Next1, S, start, m, l, text, Put1
  <1>6. \E f : Solves1(f)
    <2> DEFINE N == l + 1
               step == [w \in (1 .. N) \X S |-> Next1(l - w[1], w[2])]
    <2>1. N \in Nat /\ N = l + 1
      BY <1>1
    <2> HIDE DEF N
    <2>2. step \in [(1 .. N) \X S -> S]
      <3> SUFFICES ASSUME NEW w \in (1 .. N) \X S PROVE Next1(l - w[1], w[2]) \in S
        OBVIOUS
      <3>1. w[1] \in 1 .. N /\ w[2] \in S
        OBVIOUS
      <3>2. l - w[1] \in -1 .. l - 1
        BY <1>1, <2>1, <3>1
      <3> QED BY <1>5, <3>1, <3>2
    <2>3. \A i \in 1 .. N : \A v \in S : step[<<i, v>>] = Next1(l - i, v)
      OBVIOUS
    <2> HIDE DEF step
    <2>4. PICK g \in [0 .. N -> S] : Recurs0(g, N, start, step)
      BY <1>2, <2>1, <2>2, RecursionFrom
    <2> DEFINE f == [read \in -1 .. l |-> g[l - read]]
    <2>5. \A read \in -1 .. l : f[read] = IF read = l THEN start ELSE Next1(read, f[read + 1])
      <3> SUFFICES ASSUME NEW read \in -1 .. l
                   PROVE  f[read] = IF read = l THEN start ELSE Next1(read, f[read + 1])
        OBVIOUS
      <3>1. CASE read = l
        <4>1. l - read = 0
          BY <1>1, <3>1
        <4>2. f[read] = g[0]
          BY <4>1
        <4> QED BY <2>4, <3>1, <4>2 DEF Recurs0
      <3>2. CASE read # l
        <4> DEFINE i == l - read
        <4>1. i \in 1 .. N /\ i - 1 \in 0 .. N /\ l - (read + 1) = i - 1 /\ l - i = read
              /\ read + 1 \in -1 .. l
          BY <1>1, <2>1, <3>2
        <4>2. f[read] = g[i]
          OBVIOUS
        <4>3. f[read + 1] = g[i - 1] /\ g[i - 1] \in S
          BY <4>1
        <4> HIDE DEF f, i
        <4>4. g[i] = step[<<i, g[i - 1]>>]
          BY <2>4, <4>1 DEF Recurs0
        <4> QED BY <2>3, <3>2, <4>1, <4>2, <4>3, <4>4
      <3> QED BY <3>1, <3>2
    <2>6. f = [read \in -1 .. l |-> IF read = l THEN start ELSE Next1(read, f[read + 1])]
      <3>1. f = [read \in -1 .. l |-> f[read]]
        OBVIOUS
      <3> HIDE DEF f
      <3> QED BY <2>5, <3>1
    <2> HIDE DEF f
    <2> QED BY <2>6
  <1>7. Solves1(from)
    <2> HIDE DEF Solves1
    <2> QED BY <1>6
  <1> HIDE DEF from
  <1>8. from[l] = start /\ \A read \in -1 .. l - 1 : from[read] = Next1(read, from[read + 1])
    <2>1. l \in -1 .. l /\ \A read \in -1 .. l - 1 : read \in -1 .. l /\ read # l
      BY <1>1
    <2> QED BY <1>7, <2>1
  <1>9. ASSUME NEW read \in -1 .. l PROVE from[read] \in S
    <2> DEFINE N == l + 1
               h == [i \in 0 .. N |-> from[l - i]]
    <2>1. N \in Nat /\ N = l + 1
      BY <1>1
    <2> HIDE DEF N
    <2>2. h[0] \in S
      <3>1. 0 \in 0 .. N /\ l - 0 = l
        BY <1>1, <2>1
      <3> QED BY <1>2, <1>8, <3>1
    <2>3. \A i \in 1 .. N : h[i - 1] \in S => h[i] \in S
      <3> SUFFICES ASSUME NEW i \in 1 .. N, h[i - 1] \in S PROVE h[i] \in S
        OBVIOUS
      <3> DEFINE r == l - i
      <3>1. r \in -1 .. l - 1 /\ l - (i - 1) = r + 1 /\ i \in 0 .. N /\ i - 1 \in 0 .. N
        BY <1>1, <2>1
      <3>2. h[i] = from[r] /\ h[i - 1] = from[r + 1]
        BY <3>1
      <3> HIDE DEF h, r
      <3>3. from[r] = Next1(r, from[r + 1])
        BY <1>8, <3>1
      <3> QED BY <1>5, <3>1, <3>2, <3>3
    <2>4. l - read \in 0 .. N /\ l - (l - read) = read
      BY <1>1, <2>1
    <2>5. h[l - read] = from[read]
      BY <2>4
    <2> HIDE DEF h
    <2>6. \A i \in 0 .. N : h[i] \in S
      BY <2>1, <2>2, <2>3, StaysIn
    <2> QED BY <2>4, <2>5, <2>6
  <1>10. \A read, v : Next1(read, v) = TabStep(read, v, n)
    <2> SUFFICES ASSUME NEW read, NEW v PROVE Next1(read, v) = TabStep(read, v, n)
      OBVIOUS
    <2> DEFINE c == v.buf.cells[read]
               t == Widened(c, n)
               r == [buf |-> Stored(v.buf, v.write - Len(t), t), write |-> v.write - Len(t)]
    <2>1. text(c) = t
      BY DEF text, Widened
    <2> HIDE DEF text, t
    <2>2. Put1(read, v) = r
      BY <2>1, Zenon DEF Put1, c
    <2>3. TabStep(read, v, n) = IF read = -1 \/ ~ v.buf.ok THEN v ELSE r
      BY Zenon DEF TabStep, t, c
    <2> HIDE DEF r
    <2> QED BY <2>2, <2>3, Zenon DEF Next1
  <1>11. \A read \in -1 .. l - 1 : from[read] = TabStep(read, from[read + 1], n)
    BY <1>8, <1>10, Zenon
  <1>12. from[l] = start /\ \A read \in -1 .. l : from[read] \in S
    BY <1>8, <1>9
  <1>13. TabSteps(from, s, size, n)
    BY <1>4, <1>11, <1>12, Zenon DEF S, m, l, start, TabSteps
  <1> QED BY <1>13, Zenon

LEMMA TabsExpandedIs ==
    ASSUME NEW s \in Rec, NEW size \in Int, NEW n \in Nat
    PROVE  TabsExpanded(s, size, n) \in Bufs(Room(s))
  <1>1. PICK from : TabSteps(from, s, size, n)
    BY TabsUnfold, Zenon
  <1>2. -1 \in -1 .. Len(s.text)
    BY RecIs
  <1> QED BY <1>1, <1>2 DEF TabSteps

LEMMA ExpandTabsIs ==
    ASSUME Shaped, NEW d \in live, NEW tabsize \in caller.numbers \cap 0 .. 255,
           ExpandTabs(d, tabsize)
    PROVE  Steady /\ Sparing
  <1> DEFINE s == strings[d]
             tabs == Cardinality({k \in DOMAIN s.text : s.text[k] = TAB})
             size == Len(s.text) + tabs * (tabsize - 1)
             q == WithRoom(s, size)
             b == TabsExpanded(q, size, tabsize)
  <1>0. UNCHANGED live /\ tabsize \in Nat
    <2>1. UNCHANGED live
      BY Zenon DEF ExpandTabs
    <2>2. tabsize \in Nat
      OBVIOUS
    <2> QED BY <2>1, <2>2
  <1>1. CASE UNCHANGED strings
    BY <1>0, <1>1, NoneChanged
  <1>2. CASE Mutable(s) /\ CanHold(s, size) /\ Rewrite(d, q, b, size)
    <2>1. s \in Rec /\ Sound(s) /\ s.text \in Seq(Nat)
      BY StringIs
    <2>2. size \in Nat
      BY <1>0, <2>1, TabsFit
    <2> HIDE DEF size
    <2>3. size \in Int
      BY <2>2
    <2>4. q \in Rec /\ Capacity(q) >= size
      <3> HIDE DEF s
      <3> QED BY <1>2, <2>1, <2>3, WithRoomIs
    <2>5. b \in Bufs(Room(q)) /\ Room(q) \in Nat /\ Room(q) >= Capacity(q) /\ Capacity(q) \in Nat
      <3> HIDE DEF q
      <3> QED BY <1>0, <2>3, <2>4, TabsExpandedIs, BufferIs, RecIs
    <2>6. size <= Room(q)
      <3> HIDE DEF q
      <3> QED BY <2>2, <2>4, <2>5
    <2> HIDE DEF b
    <2> QED BY <1>0, <1>2, <2>2, <2>3, <2>4, <2>5, <2>6, RewriteIs
  <1>3. UNCHANGED strings \/ (Mutable(s) /\ CanHold(s, size) /\ Rewrite(d, q, b, size))
    BY ZenonT(60) DEF ExpandTabs
  <1> HIDE DEF b, q, size
  <1> QED BY <1>1, <1>2, <1>3

-----------------------------------------------------------------------------
(* Replace *)

(* The loop that skips the occurrences that stay.                           *)
LEMMA BackFinds ==
    ASSUME NEW t \in Seq(Nat), NEW old \in Seq(Nat), t # <<>>, NEW n \in Nat
    PROVE  \E found : /\ found[0] = Len(t)
                      /\ \A i \in 1 .. n : found[i] = Rfind(t, old, 0, found[i - 1])
                      /\ Back(t, old, n) = found[n]
  <1> DEFINE P == -1 .. Len(t)
             At(v) == Rfind(t, old, 0, v)
             Finds(f) == f = [k \in 0 .. n |-> IF k = 0 THEN Len(t) ELSE At(f[k - 1])]
             found == CHOOSE f : Finds(f)
  <1>0. Len(t) \in P
    <2>1. Len(t) \in Nat
      OBVIOUS
    <2> QED BY <2>1
  <1>1. \A v \in P : At(v) \in P
    BY RfindIsIn
  <1>2. Back(t, old, n) = found[n]
    BY DEF Back
  <1> HIDE DEF P, At
  <1>3. \E f : Finds(f)
    <2> DEFINE step == [w \in (1 .. n) \X P |-> At(w[2])]
    <2>1. step \in [(1 .. n) \X P -> P]
      BY <1>1
    <2>2. \A i \in 1 .. n : \A v \in P : step[<<i, v>>] = At(v)
      OBVIOUS
    <2> HIDE DEF step
    <2> DEFINE x == Len(t)
    <2>3. x \in P
      BY <1>0
    <2> HIDE DEF x
    <2>4. PICK g \in [0 .. n -> P] : Recurs0(g, n, x, step)
      BY <2>1, <2>3, RecursionFrom
    <2>5. \A i \in 0 .. n : g[i] = IF i = 0 THEN x ELSE At(g[i - 1])
      <3> SUFFICES ASSUME NEW i \in 0 .. n, i # 0 PROVE g[i] = At(g[i - 1])
        BY <2>4 DEF Recurs0
      <3>1. i \in 1 .. n /\ i - 1 \in 0 .. n
        OBVIOUS
      <3>2. g[i - 1] \in P
        BY <3>1
      <3> QED BY <2>2, <2>4, <3>1, <3>2 DEF Recurs0
    <2>6. Finds(g)
      BY <2>5 DEF x
    <2> QED BY <2>6
  <1>4. Finds(found)
    <2> HIDE DEF Finds
    <2> QED BY <1>3
  <1> HIDE DEF found
  <1>5. found[0] = Len(t) /\ \A i \in 1 .. n : found[i] = At(found[i - 1])
    BY <1>4
  <1> QED BY <1>2, <1>5 DEF At

LEMMA BackIs ==
    ASSUME NEW t \in Seq(Nat), NEW old \in Seq(Nat), t # <<>>, NEW n \in Nat
    PROVE  Back(t, old, n) \in -1 .. Len(t)
  <1> DEFINE P == -1 .. Len(t)
  <1>1. PICK found : /\ found[0] = Len(t)
                     /\ \A i \in 1 .. n : found[i] = Rfind(t, old, 0, found[i - 1])
                     /\ Back(t, old, n) = found[n]
    BY BackFinds
  <1>2. found[0] \in P
    <2>1. Len(t) \in Nat
      OBVIOUS
    <2> QED BY <1>1, <2>1
  <1>3. \A i \in 1 .. n : found[i - 1] \in P => found[i] \in P
    BY <1>1, RfindIsIn
  <1> HIDE DEF P
  <1>4. \A i \in 0 .. n : found[i] \in P
    BY <1>2, <1>3, StaysIn
  <1> QED BY <1>1, <1>4 DEF P

(* What replace works on: a buffer and how far it has read and written; and *)
(* when the text is to become nothing, it has written nothing.              *)
Rewriting(m, l, cells, none) ==
    {v \in [buf : Bufs(m), read : -1 .. l, write : Int] :
        none /\ v.buf.ok => v.buf.cells = cells /\ v.write <= 0}

(* One occurrence after another, from the last: how the loop begins, and    *)
(* what it does for each.                                                   *)
ReplaceFrom(s, old, new, count, times) ==
    LET size == Len(s.text)
        end   == Back(s.text, old, IF times > count THEN times - count ELSE 0)
        first == size + count * (Len(new) - Len(old)) - (size - end)
    IN  [buf |-> Moved(Buffer(s), first, end, size - end), read |-> end, write |-> first]

ReplaceStep(v, old, new, size) ==
    LET next == Rfind(Content(v.buf, size), old, 0, v.read)
        copy == v.read - next - Len(old)
        to   == v.write - copy
    IN  IF ~ v.buf.ok THEN v
        ELSE [buf   |-> Stored(Moved(v.buf, to, next + Len(old), copy), to - Len(new), new),
              read  |-> next,
              write |-> to - Len(new)]

Replaces(state, s, old, new, count, times) ==
    /\ state[0] = ReplaceFrom(s, old, new, count, times)
    /\ \A i \in 1 .. count : state[i] = ReplaceStep(state[i - 1], old, new, Len(s.text))
    /\ ReplacedIn(s, old, new, count, times) = state[count].buf

LEMMA ReplacedUnfolds ==
    ASSUME NEW s \in Rec, s.text # <<>>, NEW old \in Seq(Nat), NEW new \in Seq(Nat),
           NEW count \in Nat, NEW times \in Nat
    PROVE  \E state :
              /\ Replaces(state, s, old, new, count, times)
              /\ \A i \in 0 .. count :
                    state[i] \in Rewriting(Room(s), Len(s.text), Buffer(s).cells,
                                          Len(s.text) + count * (Len(new) - Len(old)) <= 0)
  <1> DEFINE size == Len(s.text)
             back == IF times > count THEN times - count ELSE 0
             end == Back(s.text, old, back)
             grown == size + count * (Len(new) - Len(old))
             first == size + count * (Len(new) - Len(old)) - (size - end)
             m == Room(s)
             cells == Buffer(s).cells
             none == grown <= 0
             S == Rewriting(m, size, cells, none)
             start == [buf |-> Moved(Buffer(s), first, end, size - end), read |-> end, write |-> first]
             next(v) == Rfind(Content(v.buf, size), old, 0, v.read)
             copy(v) == v.read - next(v) - Len(old)
             to(v) == v.write - copy(v)
             Step1(v) == IF ~ v.buf.ok THEN v
                         ELSE [buf   |-> Stored(Moved(v.buf, to(v), next(v) + Len(old), copy(v)),
                                                to(v) - Len(new), new),
                               read  |-> next(v),
                               write |-> to(v) - Len(new)]
             Goes(f) == f = [i \in 0 .. count |-> IF i = 0 THEN start ELSE Step1(f[i - 1])]
             state == CHOOSE f : Goes(f)
  <1>0. /\ size \in Nat /\ size >= 1 /\ Len(new) \in Nat /\ Len(old) \in Nat
        /\ s.text \in Seq(Nat) /\ m \in Nat /\ size <= m /\ Buffer(s) \in Bufs(m)
    BY RecIs, BufferIs
  <1>1. end \in -1 .. size
    <2>1. back \in Nat
      OBVIOUS
    <2> HIDE DEF back
    <2> QED BY <1>0, <2>1, BackIs
  <1>2. grown \in Int /\ first = grown - (size - end)
    <2> DEFINE x == Len(new) - Len(old)
    <2>1. x \in Int
      BY <1>0
    <2> HIDE DEF x
    <2>2. count * x \in Int
      BY <2>1
    <2> HIDE DEF size
    <2> HIDE DEF end
    <2>3. size + count * x \in Int /\ size + count * x - (size - end) = (size + count * x) - (size - end)
      <3> DEFINE y == count * x
      <3>1. y \in Int /\ size \in Int /\ end \in Int
        BY <1>0, <1>1, <2>2
      <3> HIDE DEF y
      <3>2. size + y \in Int /\ size + y - (size - end) = (size + y) - (size - end)
        BY <3>1
      <3> QED BY <3>2 DEF y
    <2> QED BY <2>3 DEF x
  <1>3. ReplacedIn(s, old, new, count, times) = state[count].buf
    BY DEF ReplacedIn
  <1>4. start \in S
    <2> HIDE DEF end, grown, m, size, first
    <2> DEFINE b == Moved(Buffer(s), first, end, size - end)
    <2>1. first \in Int /\ end \in Int /\ size - end \in Int
      BY <1>0, <1>1, <1>2
    <2>2. /\ b \in Bufs(m)
          /\ b.ok => /\ size - end \in Nat /\ (size - end > 0 => first >= 0)
                     /\ size - end = 0 => b.cells = cells
      <3> HIDE DEF first
      <3> QED BY <1>0, <2>1, MovedIs
    <2> HIDE DEF b, cells
    <2>3. none /\ b.ok => b.cells = cells /\ first <= 0
      BY <1>0, <1>1, <1>2, <2>2
    <2>4. start = [buf |-> b, read |-> end, write |-> first]
      BY DEF b
    <2> HIDE DEF start, first, none
    <2>5. start \in [buf : Bufs(m), read : -1 .. size, write : Int]
      BY <1>1, <2>1, <2>2, <2>4
    <2>6. start.buf = b /\ start.write = first
      BY <2>4
    <2> QED BY <2>3, <2>5, <2>6 DEF Rewriting
  <1>5. ASSUME NEW v \in S PROVE Step1(v) \in S
    <2>1. CASE ~ v.buf.ok
      BY <2>1
    <2>2. CASE v.buf.ok
      <3> DEFINE n == next(v)
                 c == copy(v)
                 t == to(v)
                 b1 == Moved(v.buf, t, n + Len(old), c)
                 b2 == Stored(b1, t - Len(new), new)
                 r == [buf |-> b2, read |-> n, write |-> t - Len(new)]
      <3>1. /\ v.buf \in Bufs(m) /\ v.read \in -1 .. size /\ v.write \in Int
            /\ none => v.buf.cells = cells /\ v.write <= 0
        BY <2>2 DEF Rewriting
      <3>2. n \in -1 .. size
        <4> DEFINE u == Content(v.buf, size)
        <4>1. u \in Seq(Nat) /\ Len(u) = size
          <5> HIDE DEF m, size
          <5> QED BY <1>0, <3>1, ContentIs
        <4> HIDE DEF u
        <4>2. u # <<>> /\ v.read \in -1 .. Len(u)
          <5> HIDE DEF size
          <5> QED BY <1>0, <3>1, <4>1
        <4>3. Rfind(u, old, 0, v.read) \in -1 .. Len(u)
          BY <4>1, <4>2, RfindIsIn
        <4> HIDE DEF size
        <4> QED BY <4>1, <4>3 DEF u
      <3>3. c = v.read - n - Len(old) /\ t = v.write - c
        OBVIOUS
      <3> HIDE DEF n, c, t, m, size, cells, none
      <3>4. c \in Int /\ t \in Int /\ n + Len(old) \in Int /\ t - Len(new) \in Int
        <4>1. v.read \in Int /\ v.write \in Int /\ n \in Int /\ Len(old) \in Int /\ Len(new) \in Int
          BY <1>0, <3>1, <3>2
        <4>2. c \in Int
          BY <3>3, <4>1
        <4> QED BY <3>3, <4>1, <4>2
      <3>5. /\ b1 \in Bufs(m)
            /\ b1.ok => c \in Nat /\ (c > 0 => t >= 0) /\ (c = 0 => b1.cells = v.buf.cells)
        <4> DEFINE from == n + Len(old)
        <4>1. from \in Int
          BY <3>4
        <4> HIDE DEF from
        <4>2. /\ Moved(v.buf, t, from, c) \in Bufs(m)
              /\ Moved(v.buf, t, from, c).ok =>
                    /\ c \in Nat /\ (c > 0 => t >= 0)
                    /\ c = 0 => Moved(v.buf, t, from, c).cells = v.buf.cells
          BY <1>0, <3>1, <3>4, <4>1, MovedIs
        <4> QED BY <4>2 DEF from
      <3> HIDE DEF b1
      <3>6. /\ b2 \in Bufs(m)
            /\ b2.ok => /\ b1.ok /\ (Len(new) > 0 => t - Len(new) >= 0)
                        /\ Len(new) = 0 => b2.cells = b1.cells
        <4> DEFINE where == t - Len(new)
        <4>1. where \in Int
          BY <3>4
        <4> HIDE DEF where
        <4>2. /\ Stored(b1, where, new) \in Bufs(m)
              /\ Stored(b1, where, new).ok =>
                    /\ b1.ok /\ (Len(new) > 0 => where >= 0)
                    /\ Len(new) = 0 => Stored(b1, where, new).cells = b1.cells
          BY <1>0, <3>5, <4>1, StoredIs
        <4> QED BY <4>2 DEF where
      <3> HIDE DEF b2
      <3>7. none /\ b2.ok => b2.cells = cells /\ t - Len(new) <= 0
        <4> SUFFICES ASSUME none, b2.ok PROVE b2.cells = cells /\ t - Len(new) <= 0
          OBVIOUS
        <4>1. v.write <= 0 /\ v.buf.cells = cells /\ b1.ok
          BY <3>1, <3>6
        <4>2. c = 0
          BY <3>1, <3>3, <3>4, <3>5, <4>1
        <4>3. t <= 0 /\ b1.cells = cells
          BY <3>1, <3>3, <3>5, <4>1, <4>2
        <4>4. Len(new) = 0
          BY <1>0, <3>4, <3>6, <4>3
        <4> QED BY <3>4, <3>6, <4>3, <4>4
      <3>8. r \in [buf : Bufs(m), read : -1 .. size, write : Int]
        BY <3>2, <3>4, <3>6
      <3>9. r.buf = b2 /\ r.write = t - Len(new)
        OBVIOUS
      <3>10. Step1(v) = r
        BY <2>2 DEF n, c, t, b1, b2
      <3> HIDE DEF r
      <3> QED BY <3>7, <3>8, <3>9, <3>10 DEF Rewriting
    <2> HIDE DEF Step1
    <2> QED BY <2>1, <2>2
  <1> HIDE DEF start, S, Step1
  <1>6. \E f : Goes(f)
    <2> DEFINE step == [w \in (1 .. count) \X S |-> Step1(w[2])]
    <2>1. step \in [(1 .. count) \X S -> S]
      BY <1>5
    <2>2. \A i \in 1 .. count : \A v \in S : step[<<i, v>>] = Step1(v)
      OBVIOUS
    <2> HIDE DEF step
    <2>3. PICK g \in [0 .. count -> S] : Recurs0(g, count, start, step)
      BY <1>4, <2>1, RecursionFrom
    <2>4. \A i \in 0 .. count : g[i] = IF i = 0 THEN start ELSE Step1(g[i - 1])
      <3> SUFFICES ASSUME NEW i \in 0 .. count, i # 0 PROVE g[i] = Step1(g[i - 1])
        BY <2>3 DEF Recurs0
      <3>1. i \in 1 .. count /\ i - 1 \in 0 .. count
        OBVIOUS
      <3>2. g[i - 1] \in S
        BY <3>1
      <3> QED BY <2>2, <2>3, <3>1, <3>2 DEF Recurs0
    <2>5. Goes(g)
      BY <2>4
    <2> QED BY <2>5
  <1>7. Goes(state)
    <2> HIDE DEF Goes
    <2> QED BY <1>6
  <1> HIDE DEF state
  <1>8. state[0] = start /\ \A i \in 1 .. count : state[i] = Step1(state[i - 1])
    BY <1>7
  <1>9. \A i \in 0 .. count : state[i] \in S
    <2>1. state[0] \in S /\ \A i \in 1 .. count : state[i - 1] \in S => state[i] \in S
      BY <1>4, <1>5, <1>8
    <2> QED BY <2>1, StaysIn
  <1>10. start = ReplaceFrom(s, old, new, count, times)
    BY Zenon DEF start, ReplaceFrom, first, end, back, size
  <1>11. \A v : Step1(v) = ReplaceStep(v, old, new, Len(s.text))
    BY Zenon DEF Step1, ReplaceStep, next, copy, to, size
  <1>12. Replaces(state, s, old, new, count, times)
    BY <1>3, <1>8, <1>10, <1>11, Zenon DEF Replaces
  <1>13. S = Rewriting(Room(s), Len(s.text), Buffer(s).cells,
                     Len(s.text) + count * (Len(new) - Len(old)) <= 0)
    BY Zenon DEF S, m, size, cells, none, grown
  <1> QED BY <1>9, <1>12, <1>13, Zenon

LEMMA ReplacedInIs ==
    ASSUME NEW s \in Rec, s.text # <<>>, NEW old \in Seq(Nat), NEW new \in Seq(Nat),
           NEW count \in Nat, NEW times \in Nat
    PROVE  /\ ReplacedIn(s, old, new, count, times) \in Bufs(Room(s))
           /\ Len(s.text) + count * (Len(new) - Len(old)) <= 0 =>
                (ReplacedIn(s, old, new, count, times).ok =>
                    ReplacedIn(s, old, new, count, times).cells = Buffer(s).cells)
  <1> DEFINE none == Len(s.text) + count * (Len(new) - Len(old)) <= 0
             S == Rewriting(Room(s), Len(s.text), Buffer(s).cells, none)
             b == ReplacedIn(s, old, new, count, times)
  <1>1. PICK state : /\ Replaces(state, s, old, new, count, times)
                     /\ \A i \in 0 .. count : state[i] \in S
    BY ReplacedUnfolds, Zenon
  <1>2. b = state[count].buf
    BY <1>1, Zenon DEF Replaces
  <1> HIDE DEF b, none
  <1>3. state[count] \in S
    BY <1>1
  <1>4. b \in Bufs(Room(s)) /\ (none /\ b.ok => b.cells = Buffer(s).cells)
    BY <1>2, <1>3 DEF Rewriting
  <1> QED BY <1>4 DEF b, none

LEMMA ReplaceIs ==
    ASSUME Shaped, NEW d \in live, NEW old \in Words, NEW new \in Words,
           NEW count \in caller.numbers, Replace(d, old, new, count)
    PROVE  Steady /\ Sparing
  <1> DEFINE s == strings[d]
             l == Len(s.text)
             times == Count(s.text, old, 0, Len(s.text))
             n == IF count = -1 THEN times ELSE count
             size == Len(s.text) + n * (Len(new) - Len(old))
             q == WithRoom(s, size)
             b == ReplacedIn(q, old, new, n, times)
  <1>0. UNCHANGED live
    BY DEF Replace
  <1>1. CASE UNCHANGED strings
    BY <1>0, <1>1, NoneChanged
  <1>2. CASE n > 0 /\ times > 0 /\ CanHold(s, size) /\ Rewrite(d, q, b, l)
    <2>1. /\ s \in Rec /\ Sound(s) /\ s.text \in Seq(Nat) /\ Text(d) = s.text
          /\ old \in Seq(Nat) /\ new \in Seq(Nat) /\ count \in Int
      BY StringIs, CallerIs
    <2>2. times \in Nat /\ s.text # <<>>
      <3> HIDE DEF s
      <3>1. times \in Nat /\ (times > 0 => s.text # <<>>)
        BY <2>1, CountIsNat
      <3> QED BY <1>2, <3>1
    <2> HIDE DEF times, s
    <2>3. n \in Nat
      BY <1>2, <2>1, <2>2
    <2> HIDE DEF n
    <2>4. size \in Int
      <3> DEFINE x == Len(new) - Len(old)
      <3>1. x \in Int /\ Len(s.text) \in Int
        BY <2>1
      <3> HIDE DEF x
      <3>2. n * x \in Int
        BY <2>3, <3>1
      <3>3. Len(s.text) + n * x \in Int
        BY <3>1, <3>2
      <3> QED BY <3>3 DEF x
    <2> HIDE DEF size
    <2>5. /\ q \in Rec /\ q.text = s.text /\ Capacity(q) >= Capacity(s)
          /\ ~ Mutable(s) => q = s
      BY <1>2, <2>1, <2>4, WithRoomIs
    <2> HIDE DEF q
    <2>6. /\ b \in Bufs(Room(q))
          /\ size <= 0 => (b.ok => b.cells = Buffer(q).cells)
      <3>1. q.text # <<>>
        BY <2>2, <2>5
      <3>2. /\ b \in Bufs(Room(q))
            /\ Len(q.text) + n * (Len(new) - Len(old)) <= 0 => (b.ok => b.cells = Buffer(q).cells)
        <4> DEFINE x == ReplacedIn(q, old, new, n, times)
                   z == Len(q.text) + n * (Len(new) - Len(old))
        <4>1. /\ x \in Bufs(Room(q))
              /\ z <= 0 => (x.ok => x.cells = Buffer(q).cells)
          BY <2>1, <2>2, <2>3, <2>5, <3>1, ReplacedInIs, ZenonT(60)
        <4> QED BY <4>1 DEF b
      <3> HIDE DEF b
      <3> QED BY <2>5, <3>2 DEF size
    <2> HIDE DEF b
    <2>7. /\ l \in Nat /\ l <= Room(q) /\ Room(q) \in Nat
          /\ \A k \in 1 .. l : Buffer(q).cells[k - 1] = s.text[k]
      BY <2>5, BufferIs, RecIs
    <2>8. Mutable(s) => l <= Capacity(q)
      <3>1. Capacity(q) \in Nat /\ Capacity(s) \in Nat /\ l \in Nat
        BY <2>1, <2>5, RecIs
      <3> QED BY <2>1, <2>5, <3>1 DEF Sound
    <2>9. ASSUME ~ Mutable(s), b.ok PROVE IsPrefix(Content(b, l), Text(d))
      <3>1. size <= 0
        <4>1. s.capacity = 0 /\ ~ s.null
          BY <2>9 DEF Mutable
        <4>2. Capacity(s) = 0 /\ ~ Allocatable(s)
          BY <4>1 DEF Capacity, Abs, Allocatable
        <4> QED BY <1>2, <2>4, <4>2 DEF CanHold, HasRoom
      <3>2. \A k \in 1 .. l : b.cells[k - 1] = s.text[k]
        BY <2>6, <2>7, <2>9, <3>1
      <3> DEFINE c == Content(b, l)
      <3>3. c \in Seq(Nat) /\ Len(c) = l
        <4> HIDE DEF l
        <4> QED BY <2>6, <2>7, ContentIs
      <3>4. \A k \in 1 .. l : c[k] = s.text[k]
        BY <3>2 DEF Content
      <3> HIDE DEF c
      <3>5. c = s.text
        BY <2>1, <3>3, <3>4, SeqEqual
      <3> QED BY <2>1, <3>5, PrefixOfItself DEF c
    <2> HIDE DEF l
    <2>10. Rewrite(d, q, b, l) /\ CanHold(s, size)
      BY <1>2
    <2> QED BY <1>0, <2>4, <2>6, <2>7, <2>8, <2>9, <2>10, RewriteIs DEF q, s
  <1>3. \/ UNCHANGED strings
        \/ n > 0 /\ times > 0 /\ CanHold(s, size) /\ Rewrite(d, q, b, l)
    BY DEF Replace
  <1> HIDE DEF b, q, size, n, times
  <1> QED BY <1>1, <1>2, <1>3

-----------------------------------------------------------------------------
(* Accesses inside the buffer *)

(* What is written inside the buffer leaves what is before it.              *)
LEMMA CoversWithin ==
    ASSUME NEW m \in Nat, NEW b \in Bufs(m), NEW p \in Nat, NEW n \in Nat, p + n <= m
    PROVE  Covers(b, p, n)
  <1>1. n > 0 => p \in 0 .. m - 1 /\ p + n - 1 \in 0 .. m - 1
    OBVIOUS
  <1> QED BY <1>1, BufIs DEF Covers

LEMMA StoredKeeps ==
    ASSUME NEW m \in Nat, NEW b \in Bufs(m), b.ok, NEW to \in Nat, NEW t \in Seq(Nat),
           to + Len(t) <= m
    PROVE  /\ Stored(b, to, t).ok
           /\ \A i \in 0 .. to - 1 : Stored(b, to, t).cells[i] = b.cells[i]
  <1> DEFINE n == Len(t)
             c == [i \in 0 .. m - 1 |-> IF i \in to .. to + n - 1 THEN t[i - to + 1] ELSE b.cells[i]]
             r == [b EXCEPT !.cells = c]
  <1>0. n \in Nat /\ to + n <= m
    OBVIOUS
  <1>1. Stored(b, to, t) = r
    <2>1. Covers(b, to, n)
      <3> HIDE DEF n
      <3> QED BY <1>0, CoversWithin
    <2> QED BY <2>1, BufIs DEF Stored
  <1>2. \A i \in 0 .. to - 1 : c[i] = b.cells[i]
    <2> HIDE DEF n
    <2>1. \A i \in 0 .. to - 1 : i \in 0 .. m - 1 /\ i \notin to .. to + n - 1
      BY <1>0
    <2> QED BY <2>1
  <1>3. r.ok /\ r.cells = c
    <2> HIDE DEF c
    <2>1. DOMAIN b = {"cells", "ok"}
      BY DEF Bufs
    <2> QED BY <2>1
  <1> HIDE DEF r, c
  <1> QED BY <1>1, <1>2, <1>3

LEMMA MovedKeeps ==
    ASSUME NEW m \in Nat, NEW b \in Bufs(m), b.ok, NEW to \in Nat, NEW from \in Nat, NEW n \in Nat,
           to + n <= m, from + n <= m
    PROVE  /\ Moved(b, to, from, n).ok
           /\ \A i \in 0 .. to - 1 : Moved(b, to, from, n).cells[i] = b.cells[i]
  <1> DEFINE c == [i \in 0 .. m - 1 |->
                      IF i \in to .. to + n - 1 THEN b.cells[i - to + from] ELSE b.cells[i]]
             r == [b EXCEPT !.cells = c]
  <1>1. Moved(b, to, from, n) = r
    <2>1. Covers(b, to, n) /\ Covers(b, from, n)
      BY CoversWithin
    <2> QED BY <2>1, BufIs DEF Moved
  <1>2. \A i \in 0 .. to - 1 : c[i] = b.cells[i]
    <2>1. \A i \in 0 .. to - 1 : i \in 0 .. m - 1 /\ i \notin to .. to + n - 1
      OBVIOUS
    <2> QED BY <2>1
  <1>3. r.ok /\ r.cells = c
    <2> HIDE DEF c
    <2>1. DOMAIN b = {"cells", "ok"}
      BY DEF Bufs
    <2> QED BY <2>1
  <1> HIDE DEF r, c
  <1> QED BY <1>1, <1>2, <1>3

-----------------------------------------------------------------------------
(* Tabs that are expanded inside the buffer *)

(* The tabs among the first r characters.                                   *)
TabsIn(t, r) == Cardinality({k \in 1 .. r : t[k] = TAB})

LEMMA TabsAre ==
    ASSUME NEW t, NEW r \in Nat
    PROVE  /\ TabsIn(t, r) \in Nat /\ TabsIn(t, 0) = 0
           /\ TabsIn(t, r + 1) = TabsIn(t, r) + (IF t[r + 1] = TAB THEN 1 ELSE 0)
  <1> DEFINE S == {k \in 1 .. r : t[k] = TAB}
             S1 == {k \in 1 .. r + 1 : t[k] = TAB}
  <1>1. IsFiniteSet(S) /\ Cardinality(S) \in Nat
    <2>1. IsFiniteSet(1 .. r)
      BY FS_Interval
    <2>2. IsFiniteSet(S)
      BY <2>1, FS_Subset
    <2> HIDE DEF S
    <2> QED BY <2>2, FS_CardinalityType
  <1>2. TabsIn(t, 0) = 0
    <2>1. {k \in 1 .. 0 : t[k] = TAB} = {}
      OBVIOUS
    <2> QED BY <2>1, FS_EmptySet DEF TabsIn
  <1>3. CASE t[r + 1] = TAB
    <2>1. S1 = S \cup {r + 1} /\ r + 1 \notin S
      BY <1>3
    <2> HIDE DEF S, S1
    <2>2. Cardinality(S1) = Cardinality(S) + 1
      BY <1>1, <2>1, FS_AddElement
    <2> QED BY <1>1, <1>2, <1>3, <2>2 DEF TabsIn, S, S1
  <1>4. CASE t[r + 1] # TAB
    <2>1. S1 = S
      <3>1. ASSUME NEW k \in 1 .. r + 1, t[k] = TAB PROVE k \in 1 .. r
        BY <1>4, <3>1
      <3> QED BY <3>1
    <2>2. TabsIn(t, r + 1) = TabsIn(t, r)
      BY <2>1 DEF TabsIn
    <2> HIDE DEF S, S1
    <2>3. TabsIn(t, r) \in Nat
      BY <1>1 DEF TabsIn, S
    <2> QED BY <1>2, <1>4, <2>2, <2>3
  <1> QED BY <1>3, <1>4

LEMMA WidenedIs ==
    ASSUME NEW c \in Nat, NEW n \in Nat
    PROVE  Widened(c, n) \in Seq(Nat) /\ Len(Widened(c, n)) = IF c = TAB THEN n ELSE 1
  <1> DEFINE f == [k \in 1 .. n |-> SPACE]
  <1>1. f \in Seq(Nat) /\ Len(f) = n
    <2>1. f = [k \in 1 .. n |-> f[k]] /\ \A k \in 1 .. n : f[k] \in Nat
      BY DEF SPACE
    <2> HIDE DEF f
    <2> QED BY <2>1, SeqOfFunction
  <1>2. << c >> \in Seq(Nat) /\ Len(<< c >>) = 1
    OBVIOUS
  <1>3. Widened(c, n) = IF c = TAB THEN f ELSE << c >>
    BY DEF Widened
  <1> HIDE DEF f
  <1> QED BY <1>1, <1>2, <1>3

(* With r characters yet to be read, they and what will be written for them *)
(* lie before what has been written.                                        *)
TabsToGo(v, m, t, r, n) ==
    /\ v \in [buf : Bufs(m), write : Int] /\ v.buf.ok
    /\ v.write = r + TabsIn(t, r) * (n - 1) /\ v.write <= m
    /\ \A k \in 1 .. r : v.buf.cells[k - 1] = t[k]

LEMMA TabStepGoes ==
    ASSUME NEW m \in Nat, NEW t \in Seq(Nat), NEW n \in Nat \ {0}, NEW r \in 1 .. Len(t), NEW v,
           TabsToGo(v, m, t, r, n), Len(t) <= m
    PROVE  TabsToGo(TabStep(r - 1, v, n), m, t, r - 1, n)
  <1> DEFINE b == v.buf
             c == b.cells[r - 1]
             x == Widened(c, n)
             to == v.write - Len(x)
             tabs == TabsIn(t, r - 1)
             e == n - 1
             q == r - 1
  <1>0. /\ b \in Bufs(m) /\ b.ok /\ v.write \in Int /\ v.write <= m
        /\ v.write = r + TabsIn(t, r) * e
        /\ \A k \in 1 .. r : b.cells[k - 1] = t[k]
    BY DEF TabsToGo
  <1>1. r \in Nat /\ r >= 1 /\ q \in Nat /\ e \in Nat /\ n = e + 1 /\ r = q + 1 /\ q # -1
    OBVIOUS
  <1>2. c = t[r] /\ t[r] \in Nat
    BY <1>0, <1>1, SMTT(30)
  <1>3. /\ tabs \in Nat
        /\ TabsIn(t, r) = tabs + (IF c = TAB THEN 1 ELSE 0)
    <2>1. q + 1 = r
      BY <1>1
    <2> HIDE DEF q
    <2>2. TabsIn(t, q) \in Nat /\ TabsIn(t, r) = TabsIn(t, q) + (IF t[r] = TAB THEN 1 ELSE 0)
      BY <1>1, <2>1, TabsAre
    <2> QED BY <1>2, <2>2 DEF q
  <1> HIDE DEF c
  <1>4. x \in Seq(Nat) /\ Len(x) = IF c = TAB THEN n ELSE 1
    <2>1. c \in Nat
      BY <1>2
    <2> QED BY <2>1, WidenedIs
  <1>5. TabStep(r - 1, v, n) = [buf |-> Stored(b, to, x), write |-> to]
    BY <1>0, <1>1, Zenon DEF TabStep, c, x, to, b, q
  <1> HIDE DEF tabs, x, b
  <1>6. tabs * e \in Nat /\ (tabs + 1) * e = tabs * e + e
    BY <1>1, <1>3
  <1> HIDE DEF e
  <1>7. to = q + tabs * e
    <2> DEFINE y == tabs * e
               z == (tabs + 1) * e
    <2>1. y \in Nat /\ z = y + e /\ 0 + tabs = tabs
      BY <1>3, <1>6
    <2>2. CASE c = TAB
      <3>1. v.write = r + z /\ Len(x) = n
        BY <1>0, <1>3, <1>4, <2>2
      <3> HIDE DEF z, y
      <3>2. to = v.write - Len(x)
        OBVIOUS
      <3> HIDE DEF to, q
      <3>3. to = q + y
        BY <1>1, <2>1, <3>1, <3>2
      <3> QED BY <3>3 DEF y
    <2>3. CASE c # TAB
      <3>1. v.write = r + y /\ Len(x) = 1
        BY <1>0, <1>3, <1>4, <2>1, <2>3
      <3> HIDE DEF z, y
      <3>2. to = v.write - Len(x)
        OBVIOUS
      <3> HIDE DEF to, q
      <3>3. to = q + y
        BY <1>1, <2>1, <3>1, <3>2
      <3> QED BY <3>3 DEF y
    <2> QED BY <2>2, <2>3
  <1>8. Len(x) \in Nat /\ to + Len(x) = v.write
    BY <1>0, <1>4
  <1> HIDE DEF to
  <1>9. to \in Nat /\ to >= q /\ to + Len(x) <= m /\ to <= m
    <2> DEFINE y == tabs * e
    <2>1. y \in Nat /\ to = q + y
      BY <1>6, <1>7
    <2> HIDE DEF y
    <2>2. to \in Nat /\ to >= q
      BY <1>1, <2>1
    <2> HIDE DEF q
    <2>3. Len(x) \in Nat /\ to + Len(x) <= m
      BY <1>0, <1>8
    <2> QED BY <2>2, <2>3
  <1>10. /\ Stored(b, to, x) \in Bufs(m) /\ Stored(b, to, x).ok
         /\ \A i \in 0 .. to - 1 : Stored(b, to, x).cells[i] = b.cells[i]
    <2>1. m \in Nat /\ b \in Bufs(m) /\ b.ok /\ to \in Nat /\ to \in Int /\ x \in Seq(Nat)
          /\ to + Len(x) <= m
      BY <1>0, <1>4, <1>9
    <2>2. Stored(b, to, x) \in Bufs(m)
      BY ONLY <2>1, StoredIs
    <2> QED BY ONLY <2>1, <2>2, StoredKeeps
  <1>11. \A k \in 1 .. q : Stored(b, to, x).cells[k - 1] = t[k]
    <2> SUFFICES ASSUME NEW k \in 1 .. q PROVE Stored(b, to, x).cells[k - 1] = t[k]
      OBVIOUS
    <2>1. k - 1 \in 0 .. to - 1 /\ k \in 1 .. r
      BY <1>1, <1>9
    <2> QED BY <1>0, <1>10, <2>1
  <1> DEFINE got == [buf |-> Stored(b, to, x), write |-> to]
  <1>12. got \in [buf : Bufs(m), write : Int] /\ got.buf = Stored(b, to, x) /\ got.write = to
    BY <1>9, <1>10
  <1> HIDE DEF got
  <1>13. got.write = q + TabsIn(t, q) * (n - 1)
    BY <1>7, <1>12 DEF tabs, e
  <1>14. TabsToGo(got, m, t, q, n)
    BY <1>9, <1>10, <1>11, <1>12, <1>13 DEF TabsToGo
  <1> QED BY <1>5, <1>14 DEF got, q

(* So all accesses of expand_tabs are inside, where no tab is to become     *)
(* nothing and there is room for what it makes.                             *)
LEMMA TabsInside ==
    ASSUME NEW s \in Rec, NEW n \in Nat \ {0},
           Len(s.text) + TabsIn(s.text, Len(s.text)) * (n - 1) <= Room(s)
    PROVE  TabsExpanded(s, Len(s.text) + TabsIn(s.text, Len(s.text)) * (n - 1), n).ok
  <1> DEFINE t == s.text
             l == Len(t)
             m == Room(s)
             size == l + TabsIn(t, l) * (n - 1)
  <1>0. /\ t \in Seq(Nat) /\ l \in Nat /\ m \in Nat /\ l <= m /\ Buffer(s) \in Bufs(m)
        /\ \A k \in 1 .. l : Buffer(s).cells[k - 1] = t[k]
        /\ Buffer(s).ok
    BY RecIs, BufferIs DEF Buffer
  <1>1. size \in Int /\ size <= m
    <2> DEFINE tabs == TabsIn(t, l)
               e == n - 1
    <2>1. tabs \in Nat /\ e \in Nat
      BY <1>0, TabsAre
    <2> HIDE DEF tabs, e
    <2>2. tabs * e \in Int
      BY <2>1
    <2> DEFINE y == tabs * e
    <2>3. y \in Int
      BY <2>2
    <2> HIDE DEF y, l
    <2>4. l + y \in Int
      BY <1>0, <2>3
    <2>5. size = l + y
      BY DEF y, tabs, e
    <2>6. size <= m
      BY DEF l
    <2> HIDE DEF size, m
    <2> QED BY <2>4, <2>5, <2>6
  <1>1a. size \in Int /\ n \in Nat
    BY <1>1
  <1>1b. PICK from : TabSteps(from, s, size, n)
    <2> HIDE DEF size
    <2> QED BY <1>1a, TabsUnfold, Zenon
  <1>2. /\ from[l] = [buf |-> Buffer(s), write |-> size]
        /\ \A read \in -1 .. l - 1 : from[read] = TabStep(read, from[read + 1], n)
        /\ \A read \in -1 .. l : from[read] \in [buf : Bufs(m), write : Int]
        /\ TabsExpanded(s, size, n) = from[-1].buf
    <2> HIDE DEF size
    <2> QED BY <1>1b, Zenon DEF TabSteps
  <1> HIDE DEF size
  <1>3. TabsToGo(from[l], m, t, l, n)
    <2>1. /\ from[l] \in [buf : Bufs(m), write : Int]
          /\ from[l].buf = Buffer(s) /\ from[l].write = size
      <3> DEFINE z == [buf |-> Buffer(s), write |-> size]
      <3>1. z \in [buf : Bufs(m), write : Int] /\ z.buf = Buffer(s) /\ z.write = size
        BY <1>0, <1>1
      <3> HIDE DEF z
      <3> QED BY <1>2, <3>1 DEF z
    <2>2. size = l + TabsIn(t, l) * (n - 1)
      BY DEF size
    <2> HIDE DEF m, l, t
    <2> QED BY <1>0, <1>1, <2>1, <2>2, Zenon DEF TabsToGo
  <1> DEFINE h == [i \in 0 .. l |-> TabsToGo(from[l - i], m, t, l - i, n)]
             S == {TRUE}
  <1>4. h[0] \in S
    <2>1. 0 \in 0 .. l /\ l - 0 = l
      BY <1>0
    <2> QED BY <1>3, <2>1
  <1>5. ASSUME NEW i \in 1 .. l, h[i - 1] \in S PROVE h[i] \in S
    <2> DEFINE r == l - (i - 1)
    <2>1. r \in 1 .. l /\ r - 1 = l - i /\ i - 1 \in 0 .. l /\ i \in 0 .. l
          /\ l - i \in -1 .. l - 1 /\ (l - i) + 1 = r
      BY <1>0
    <2>2. TabsToGo(from[r], m, t, r, n)
      BY <1>5, <2>1
    <2> HIDE DEF r
    <2>3. from[l - i] = TabStep(l - i, from[r], n)
      BY <1>2, <2>1
    <2>4. TabsToGo(TabStep(r - 1, from[r], n), m, t, r - 1, n)
      BY <1>0, <2>1, <2>2, TabStepGoes
    <2>5. TabsToGo(from[l - i], m, t, l - i, n)
      BY <2>1, <2>3, <2>4
    <2> QED BY <2>1, <2>5
  <1> HIDE DEF S
  <1>6. \A i \in 0 .. l : h[i] \in S
    <2> HIDE DEF h
    <2> QED BY <1>0, <1>4, <1>5, StaysIn
  <1>7. from[0].buf.ok
    <2>1. l \in 0 .. l /\ l - l = 0
      BY <1>0
    <2>2. TabsToGo(from[0], m, t, 0, n)
      BY <1>6, <2>1 DEF S
    <2> QED BY <2>2 DEF TabsToGo
  <1>8. from[-1] = from[0]
    <2>1. -1 \in -1 .. l - 1 /\ -1 + 1 = 0
      BY <1>0
    <2>2. from[-1] = TabStep(-1, from[0], n)
      BY <1>2, <2>1
    <2> QED BY <2>2 DEF TabStep
  <1>9. TabsExpanded(s, size, n) = from[-1].buf
    BY <1>2
  <1>10. TabsExpanded(s, size, n).ok
    BY <1>7, <1>8, <1>9
  <1> QED BY <1>10, Zenon DEF size

-----------------------------------------------------------------------------
(* Replacing inside the buffer *)

(* Back skips as many occurrences as it is asked to, if there are so many.  *)
LEMMA BackTakes ==
    ASSUME NEW t \in Seq(Nat), NEW old \in Seq(Nat), t # <<>>, NEW n \in Nat,
           n <= Left(t, old, Len(t))
    PROVE  /\ Back(t, old, n) \in 0 .. Len(t)
           /\ Left(t, old, Back(t, old, n)) = Left(t, old, Len(t)) - n
  <1> DEFINE l == Len(t)
             all == Left(t, old, l)
             S == {TRUE}
  <1>1. l \in Nat /\ l \in 0 .. l /\ all \in Nat /\ n <= all
    <2>1. Len(t) \in Nat
      OBVIOUS
    <2>2. Len(t) \in 0 .. Len(t)
      BY <2>1
    <2> QED BY <2>1, <2>2, LeftIs
  <1>2. PICK found : /\ found[0] = Len(t)
                     /\ \A i \in 1 .. n : found[i] = Rfind(t, old, 0, found[i - 1])
                     /\ Back(t, old, n) = found[n]
    BY BackFinds
  <1> HIDE DEF all
  <1> DEFINE Takes(i) == found[i] \in 0 .. l /\ Left(t, old, found[i]) = all - i
             h == [i \in 0 .. n |-> Takes(i)]
  <1>3. h[0] \in S
    <2>1. 0 \in 0 .. n /\ found[0] = l /\ all - 0 = all
      BY <1>1, <1>2
    <2>2. Takes(0)
      BY <1>1, <2>1 DEF all
    <2> QED BY <2>1, <2>2
  <1>4. ASSUME NEW i \in 1 .. n, h[i - 1] \in S PROVE h[i] \in S
    <2> DEFINE e == found[i - 1]
    <2>1. i - 1 \in 0 .. n /\ i \in 0 .. n /\ all - (i - 1) > 0 /\ (all - (i - 1)) - 1 = all - i
      BY <1>1
    <2>2. e \in 0 .. Len(t) /\ Left(t, old, e) = all - (i - 1)
      BY <1>4, <2>1
    <2>3. found[i] = Rfind(t, old, 0, e)
      BY <1>2
    <2> HIDE DEF e
    <2>4. Left(t, old, e) > 0
      BY <2>1, <2>2
    <2>5. Rfind(t, old, 0, e) \in 0 .. Len(t)
          /\ Left(t, old, Rfind(t, old, 0, e)) = Left(t, old, e) - 1
      BY <2>2, <2>4, RfindTakesOne
    <2>6. Takes(i)
      BY <2>1, <2>2, <2>3, <2>5
    <2> QED BY <2>1, <2>6
  <1>5. \A i \in 0 .. n : h[i] \in S
    <2> HIDE DEF h, S
    <2> QED BY <1>3, <1>4, StaysIn
  <1>6. Takes(n)
    <2>1. n \in 0 .. n
      OBVIOUS
    <2> QED BY <1>5, <2>1
  <1> QED BY <1>2, <1>6 DEF all

(* With r occurrences yet to be replaced, the text before the last of them  *)
(* is as it was, and there is room for e more characters for each.          *)
ReplacesToGo(v, m, t, old, e, r) ==
    /\ v \in [buf : Bufs(m), read : -1 .. Len(t), write : Int] /\ v.buf.ok
    /\ v.read \in 0 .. Len(t) /\ Left(t, old, v.read) = r
    /\ v.write = v.read + r * e /\ v.write <= m
    /\ \A k \in 1 .. v.read : v.buf.cells[k - 1] = t[k]

LEMMA ReplaceStepGoes ==
    ASSUME NEW m \in Nat, NEW t \in Seq(Nat), Len(t) <= m, NEW old \in Seq(Nat), NEW new \in Seq(Nat),
           Len(new) >= Len(old), NEW r \in Nat \ {0}, NEW v,
           ReplacesToGo(v, m, t, old, Len(new) - Len(old), r)
    PROVE  ReplacesToGo(ReplaceStep(v, old, new, Len(t)), m, t, old, Len(new) - Len(old), r - 1)
  <1> DEFINE b == v.buf
             l == Len(t)
             lo == Len(old)
             ln == Len(new)
             e == ln - lo
             read == v.read
             u == Content(b, l)
             p == Rfind(u, old, 0, read)
             copy == read - p - lo
             to == v.write - copy
             at == to - ln
             b1 == Moved(b, to, p + lo, copy)
             b2 == Stored(b1, at, new)
             got == [buf |-> b2, read |-> p, write |-> at]
  <1>0. /\ b \in Bufs(m) /\ b.ok /\ v.write \in Int /\ v.write <= m
        /\ read \in 0 .. l /\ Left(t, old, read) = r
        /\ v.write = read + r * e
        /\ \A k \in 1 .. read : b.cells[k - 1] = t[k]
    BY Zenon DEF ReplacesToGo
  <1>1. l \in Nat /\ lo \in Nat /\ ln \in Nat /\ e \in Nat /\ ln = lo + e /\ l <= m
    OBVIOUS
  <1>2. ReplaceStep(v, old, new, Len(t)) = got
    BY <1>0, Zenon DEF ReplaceStep, got, b2, b1, at, to, copy, p, u, read, b, l, lo, ln
  <1>3. u \in Seq(Nat) /\ Len(u) = l /\ \A k \in 1 .. l : u[k] = b.cells[k - 1]
    <2>1. \A k \in 1 .. l : u[k] = b.cells[k - 1]
      BY DEF Content
    <2> HIDE DEF b, l
    <2> QED BY <1>0, <1>1, <2>1, ContentIs
  <1> HIDE DEF got, b2, b1, at, to, copy, u, b
  <1>4. read \in 1 .. l
    <2>1. Left(t, old, read) > 0
      BY <1>0
    <2>2. read > 0
      BY <1>0, <2>1, LeftIs
    <2> HIDE DEF read, l
    <2> QED BY <1>0, <1>1, <2>2
  <1>5. p = Rfind(t, old, 0, read)
    <2>1. \A k \in 1 .. read : u[k] = t[k]
      <3>1. \A k \in 1 .. read : k \in 1 .. l
        BY <1>1, <1>4
      <3> QED BY <1>0, <1>3, <3>1
    <2> HIDE DEF read
    <2> QED BY <1>3, <1>4, <2>1, RfindLooksBefore
  <1>6. p \in Nat /\ p + lo <= read /\ p \in 0 .. l /\ Left(t, old, p) = r - 1
    <2>1. Left(t, old, read) > 0
      BY <1>0
    <2> HIDE DEF p, read
    <2> QED BY <1>0, <1>5, <2>1, RfindTakesOne
  <1> HIDE DEF p, l, lo, ln, read
  <1>7. copy \in Nat /\ p + lo + copy = read /\ read \in Nat /\ read <= l
    <2>1. read \in 0 .. l
      BY <1>0
    <2> HIDE DEF e
    <2>2. read \in Nat /\ read <= l /\ p \in Nat /\ lo \in Nat /\ p + lo <= read
      BY <1>1, <1>6, <2>1
    <2>3. copy = read - p - lo
      BY DEF copy
    <2> HIDE DEF copy
    <2> QED BY ONLY <2>2, <2>3
  <1>8. r * e \in Nat /\ (r - 1) * e \in Nat /\ r * e = (r - 1) * e + e /\ e \in Nat /\ ln = lo + e
    <2> HIDE DEF e
    <2>1. r - 1 \in Nat /\ r = (r - 1) + 1
      OBVIOUS
    <2> DEFINE q == r - 1
    <2> HIDE DEF q
    <2>2. q \in Nat /\ r = q + 1 /\ e \in Nat /\ ln = lo + e
      BY <1>1, <2>1 DEF q
    <2>3. q * e \in Nat /\ (q + 1) * e = q * e + e
      BY <2>2
    <2>4. r * e = q * e + e /\ r * e \in Nat
      BY <2>2, <2>3
    <2> QED BY <2>2, <2>3, <2>4 DEF q
  <1> HIDE DEF e
  <1>9. /\ to \in Nat /\ to + copy <= m /\ p + lo + copy <= m /\ p + lo \in Nat
        /\ at \in Nat /\ at = p + (r - 1) * e /\ at >= p /\ at + ln <= m /\ at <= to /\ at <= m
    <2> DEFINE x == r * e
               y == (r - 1) * e
    <2>1. x \in Nat /\ y \in Nat /\ x = y + e /\ e \in Nat /\ ln = lo + e
      BY <1>8
    <2>2. v.write = read + x
      BY <1>0
    <2> HIDE DEF x, y
    <2>3. to = p + lo + x
      BY <1>1, <1>6, <1>7, <2>1, <2>2 DEF to
    <2>4. at = p + y
      BY <1>1, <1>6, <2>1, <2>3 DEF at
    <2>5. to + copy = v.write
      BY <1>1, <1>6, <1>7, <2>1, <2>2, <2>3
    <2>6. at + ln = to
      BY <1>1, <1>6, <2>1, <2>3, <2>4
    <2>7. at = p + (r - 1) * e
      BY <2>4 DEF y
    <2> QED BY <1>0, <1>1, <1>6, <1>7, <2>1, <2>3, <2>4, <2>5, <2>6, <2>7
  <1>10. b1 \in Bufs(m) /\ b1.ok /\ \A i \in 0 .. to - 1 : b1.cells[i] = b.cells[i]
    <2> DEFINE from == p + lo
    <2>1. /\ m \in Nat /\ b \in Bufs(m) /\ b.ok /\ to \in Nat /\ to \in Int /\ from \in Nat /\ from \in Int
          /\ copy \in Nat /\ copy \in Int /\ to + copy <= m /\ from + copy <= m
      BY <1>0, <1>7, <1>9
    <2>2. b1 = Moved(b, to, from, copy)
      BY DEF b1
    <2> HIDE DEF from
    <2>3. Moved(b, to, from, copy) \in Bufs(m)
      BY ONLY <2>1, MovedIs
    <2>4. /\ Moved(b, to, from, copy).ok
          /\ \A i \in 0 .. to - 1 : Moved(b, to, from, copy).cells[i] = b.cells[i]
      <3>1. ASSUME NEW f \in Nat, f + copy <= m
            PROVE  /\ Moved(b, to, f, copy).ok
                   /\ \A i \in 0 .. to - 1 : Moved(b, to, f, copy).cells[i] = b.cells[i]
        BY ONLY <2>1, <3>1, MovedKeeps
      <3> QED BY <2>1, <3>1
    <2> QED BY <2>2, <2>3, <2>4
  <1>11. b2 \in Bufs(m) /\ b2.ok /\ \A i \in 0 .. at - 1 : b2.cells[i] = b1.cells[i]
    <2>1. /\ m \in Nat /\ b1 \in Bufs(m) /\ b1.ok /\ at \in Nat /\ at \in Int /\ new \in Seq(Nat)
          /\ at + Len(new) <= m
      BY <1>9, <1>10 DEF ln
    <2>2. b2 = Stored(b1, at, new)
      BY DEF b2
    <2>3. Stored(b1, at, new) \in Bufs(m)
      BY ONLY <2>1, StoredIs
    <2> QED BY ONLY <2>1, <2>2, <2>3, StoredKeeps
  <1>12. \A k \in 1 .. p : b2.cells[k - 1] = t[k]
    <2> SUFFICES ASSUME NEW k \in 1 .. p PROVE b2.cells[k - 1] = t[k]
      OBVIOUS
    <2>1. k - 1 \in 0 .. at - 1 /\ k - 1 \in 0 .. to - 1 /\ k \in 1 .. read
      <3>1. p \in Nat /\ at \in Nat /\ to \in Nat /\ read \in Nat /\ p <= at /\ at <= to /\ p <= read
        <4>1. p \in Nat /\ lo \in Nat /\ p + lo <= read /\ read \in Nat
          BY <1>1, <1>6, <1>7
        <4>2. p <= read
          BY ONLY <4>1
        <4> QED BY <1>9, <4>1, <4>2
      <3>2. k \in 1 .. p
        OBVIOUS
      <3> QED BY ONLY <3>1, <3>2
    <2> QED BY <1>0, <1>10, <1>11, <2>1
  <1>13. /\ got \in [buf : Bufs(m), read : -1 .. l, write : Int]
         /\ got.buf = b2 /\ got.read = p /\ got.write = at
    <2>1. p \in -1 .. l
      BY <1>1, <1>6
    <2> QED BY <1>9, <1>11, <2>1 DEF got
  <1>14. ReplacesToGo(got, m, t, old, e, r - 1)
    BY <1>6, <1>9, <1>11, <1>12, <1>13 DEF ReplacesToGo, l
  <1> QED BY <1>2, <1>14 DEF e, ln, lo

LEMMA ReplaceFromGoes ==
    ASSUME NEW s \in Rec, s.text # <<>>, NEW old \in Seq(Nat), NEW new \in Seq(Nat),
           Len(new) >= Len(old), NEW count \in Nat, NEW times \in Nat,
           times = Left(s.text, old, Len(s.text)), count <= times,
           Len(s.text) + count * (Len(new) - Len(old)) <= Room(s)
    PROVE  ReplacesToGo(ReplaceFrom(s, old, new, count, times), Room(s), s.text, old,
                        Len(new) - Len(old), count)
  <1> DEFINE t == s.text
             l == Len(t)
             m == Room(s)
             e == Len(new) - Len(old)
             y == count * e
             back == IF times > count THEN times - count ELSE 0
             end == Back(t, old, back)
             first == l + y - (l - end)
             b == Moved(Buffer(s), first, end, l - end)
             got == [buf |-> b, read |-> end, write |-> first]
  <1>1. ReplaceFrom(s, old, new, count, times) = got
    BY Zenon DEF ReplaceFrom, got, b, first, end, back, y, e, l, t
  <1>2. /\ t \in Seq(Nat) /\ l \in Nat /\ m \in Nat /\ l <= m /\ Buffer(s) \in Bufs(m)
        /\ \A k \in 1 .. l : Buffer(s).cells[k - 1] = t[k]
        /\ Buffer(s).ok
    BY RecIs, BufferIs DEF Buffer
  <1>3. back \in Nat /\ back <= times /\ times - back = count
    OBVIOUS
  <1> HIDE DEF back
  <1>4. end \in 0 .. l /\ Left(t, old, end) = count
    <2>1. t \in Seq(Nat) /\ t # <<>> /\ back \in Nat /\ back <= Left(t, old, Len(t))
      BY <1>2, <1>3
    <2>2. end \in 0 .. Len(t) /\ Left(t, old, end) = Left(t, old, Len(t)) - back
      BY ONLY <2>1, BackTakes, old \in Seq(Nat)
    <2> HIDE DEF end
    <2> QED BY <1>3, <2>2
  <1>5. y \in Nat /\ l + y <= m
    <2>1. e \in Nat
      OBVIOUS
    <2>2. l + y <= m
      BY Zenon DEF y, e, l, t, m
    <2> HIDE DEF e, l, m
    <2> QED BY <2>1, <2>2
  <1> HIDE DEF end, l, m, t
  <1>6. /\ l - end \in Nat /\ end \in Nat /\ end <= l /\ first = end + y /\ first \in Nat
        /\ first + (l - end) <= m /\ end + (l - end) <= m /\ first <= m /\ end <= first
    <2> HIDE DEF y
    <2>1. end \in Nat /\ end <= l /\ l \in Nat /\ y \in Nat /\ m \in Nat /\ l + y <= m
      BY <1>2, <1>4, <1>5
    <2>2. first = l + y - (l - end)
      OBVIOUS
    <2> HIDE DEF first
    <2> QED BY ONLY <2>1, <2>2
  <1> HIDE DEF first
  <1>7. b \in Bufs(m) /\ b.ok /\ \A i \in 0 .. first - 1 : b.cells[i] = Buffer(s).cells[i]
    <2> DEFINE n == l - end
               b0 == Buffer(s)
    <2>1. /\ m \in Nat /\ b0 \in Bufs(m) /\ b0.ok /\ first \in Nat /\ first \in Int
          /\ end \in Nat /\ end \in Int /\ n \in Nat /\ n \in Int /\ first + n <= m /\ end + n <= m
      BY <1>2, <1>6
    <2>2. b = Moved(b0, first, end, n)
      OBVIOUS
    <2> HIDE DEF b, n, b0
    <2>3. Moved(b0, first, end, n) \in Bufs(m)
      BY ONLY <2>1, MovedIs
    <2>4. ASSUME NEW f \in Nat, f + n <= m
          PROVE  /\ Moved(b0, first, f, n).ok
                 /\ \A i \in 0 .. first - 1 : Moved(b0, first, f, n).cells[i] = b0.cells[i]
      BY ONLY <2>1, <2>4, MovedKeeps
    <2>5. /\ Moved(b0, first, end, n).ok
          /\ \A i \in 0 .. first - 1 : Moved(b0, first, end, n).cells[i] = b0.cells[i]
      BY <2>1, <2>4
    <2> QED BY <2>2, <2>3, <2>5 DEF b0
  <1> HIDE DEF b
  <1>8. \A k \in 1 .. end : b.cells[k - 1] = t[k]
    <2> SUFFICES ASSUME NEW k \in 1 .. end PROVE b.cells[k - 1] = t[k]
      OBVIOUS
    <2>1. k - 1 \in 0 .. first - 1 /\ k \in 1 .. l
      <3>1. end \in Nat /\ first \in Nat /\ l \in Nat /\ end <= first /\ end <= l /\ k \in 1 .. end
        BY <1>2, <1>6
      <3> QED BY ONLY <3>1
    <2> QED BY <1>2, <1>7, <2>1
  <1>9. /\ got \in [buf : Bufs(m), read : -1 .. l, write : Int]
        /\ got.buf = b /\ got.read = end /\ got.write = first
    <2>1. end \in -1 .. l
      BY <1>2, <1>4
    <2> QED BY <1>6, <1>7, <2>1
  <1> HIDE DEF got
  <1>10. got.write = got.read + count * e
    BY <1>6, <1>9 DEF y
  <1>11. ReplacesToGo(got, m, t, old, e, count)
    <2> HIDE DEF e, y
    <2>1. got \in [buf : Bufs(m), read : -1 .. Len(t), write : Int]
      BY <1>9 DEF l
    <2>2. got.buf.ok /\ got.read \in 0 .. Len(t) /\ Left(t, old, got.read) = count /\ got.write <= m
      BY <1>4, <1>6, <1>7, <1>9 DEF l
    <2>3. \A k \in 1 .. got.read : got.buf.cells[k - 1] = t[k]
      BY <1>8, <1>9
    <2> QED BY <1>10, <2>1, <2>2, <2>3, Zenon DEF ReplacesToGo
  <1> QED BY <1>1, <1>11 DEF m, t, e

(* All accesses of replace are inside, where no more is to be replaced than  *)
(* there is, by no less, and there is room for it.                          *)
LEMMA ReplacedInside ==
    ASSUME NEW s \in Rec, s.text # <<>>, NEW old \in Seq(Nat), NEW new \in Seq(Nat),
           Len(new) >= Len(old), NEW count \in Nat, NEW times \in Nat,
           times = Left(s.text, old, Len(s.text)), count <= times,
           Len(s.text) + count * (Len(new) - Len(old)) <= Room(s)
    PROVE  ReplacedIn(s, old, new, count, times).ok
  <1> DEFINE t == s.text
             l == Len(t)
             m == Room(s)
             e == Len(new) - Len(old)
             none == Len(s.text) + count * (Len(new) - Len(old)) <= 0
             S == {TRUE}
  <1>0. t \in Seq(Nat) /\ l \in Nat /\ m \in Nat /\ l <= m
    BY RecIs, BufferIs
  <1>1. PICK state : /\ Replaces(state, s, old, new, count, times)
                     /\ \A i \in 0 .. count : state[i] \in Rewriting(Room(s), Len(s.text), Buffer(s).cells, none)
    BY ReplacedUnfolds, Zenon
  <1>2. /\ state[0] = ReplaceFrom(s, old, new, count, times)
        /\ \A i \in 1 .. count : state[i] = ReplaceStep(state[i - 1], old, new, l)
        /\ ReplacedIn(s, old, new, count, times) = state[count].buf
    BY <1>1, Zenon DEF Replaces, l, t
  <1> DEFINE h == [i \in 0 .. count |-> ReplacesToGo(state[i], m, t, old, e, count - i)]
  <1>3. h[0] \in S
    <2>1. 0 \in 0 .. count /\ count - 0 = count
      OBVIOUS
    <2>2. ReplacesToGo(ReplaceFrom(s, old, new, count, times), m, t, old, e, count)
      BY ReplaceFromGoes
    <2> HIDE DEF m, t, e
    <2>3. ReplacesToGo(state[0], m, t, old, e, count - 0)
      BY <1>2, <2>1, <2>2
    <2> QED BY <2>1, <2>3
  <1>4. ASSUME NEW i \in 1 .. count, h[i - 1] \in S PROVE h[i] \in S
    <2> DEFINE r == count - (i - 1)
    <2>1. r \in Nat \ {0} /\ r - 1 = count - i /\ i - 1 \in 0 .. count /\ i \in 0 .. count
      OBVIOUS
    <2>2. ReplacesToGo(state[i - 1], m, t, old, e, r)
      BY <1>4, <2>1
    <2> HIDE DEF r
    <2>3. state[i] = ReplaceStep(state[i - 1], old, new, Len(t))
      BY <1>2
    <2>4. ReplacesToGo(ReplaceStep(state[i - 1], old, new, Len(t)), m, t, old, e, r - 1)
      <3> HIDE DEF t, m
      <3>1. m \in Nat /\ t \in Seq(Nat) /\ Len(t) <= m
        BY <1>0 DEF l
      <3> QED BY <2>1, <2>2, <3>1, ReplaceStepGoes
    <2>5. ReplacesToGo(state[i], m, t, old, e, count - i)
      BY <2>1, <2>3, <2>4
    <2> QED BY <2>1, <2>5
  <1>5. \A i \in 0 .. count : h[i] \in S
    <2> HIDE DEF h, S
    <2> QED BY <1>3, <1>4, StaysIn
  <1>6. ReplacesToGo(state[count], m, t, old, e, count - count)
    <2>1. count \in 0 .. count
      OBVIOUS
    <2> QED BY <1>5, <2>1
  <1>7. state[count].buf.ok
    BY <1>6, Zenon DEF ReplacesToGo
  <1> QED BY <1>2, <1>7

LEMMA ExpandTabsInside ==
    ASSUME Shaped, NEW d \in live, NEW tabsize \in caller.numbers \cap 0 .. 255,
           ExpandTabs(d, tabsize), tabsize > 0
    PROVE  ~ undefined'
  <1> DEFINE s == strings[d]
             tabs == Cardinality({k \in DOMAIN s.text : s.text[k] = TAB})
             size == Len(s.text) + tabs * (tabsize - 1)
             q == WithRoom(s, size)
             b == TabsExpanded(q, size, tabsize)
  <1>0. ~ undefined /\ tabsize \in Nat \ {0}
    <2>1. ~ undefined
      BY Zenon DEF ExpandTabs, Calling
    <2>2. tabsize \in Nat \ {0}
      OBVIOUS
    <2> QED BY <2>1, <2>2
  <1>1. \/ UNCHANGED undefined
        \/ Mutable(s) /\ CanHold(s, size) /\ Rewrite(d, q, b, size)
    BY ZenonT(60) DEF ExpandTabs, Returns
  <1>2. CASE Mutable(s) /\ CanHold(s, size) /\ Rewrite(d, q, b, size)
    <2>1. s \in Rec /\ Sound(s) /\ s.text \in Seq(Nat) /\ Len(s.text) \in Nat
      BY StringIs
    <2>2. size \in Nat
      BY <1>0, <2>1, TabsFit
    <2>3. tabs = TabsIn(s.text, Len(s.text))
      <3>1. DOMAIN s.text = 1 .. Len(s.text)
        BY <2>1
      <3> QED BY <3>1 DEF TabsIn
    <2>4. size = Len(s.text) + TabsIn(s.text, Len(s.text)) * (tabsize - 1)
      BY <2>3, Zenon
    <2> HIDE DEF size, s
    <2>5. q \in Rec /\ Capacity(q) >= size /\ q.text = s.text
      <3>1. size \in Int
        BY <2>2
      <3> QED BY <1>2, <2>1, <3>1, WithRoomIs
    <2> HIDE DEF q
    <2>6. size <= Room(q)
      <3>1. Room(q) \in Nat /\ Room(q) >= Capacity(q) /\ Capacity(q) \in Nat
        BY <2>5, BufferIs, RecIs
      <3> QED BY <2>2, <2>5, <3>1
    <2>7. b.ok
      <3>1. size = Len(q.text) + TabsIn(q.text, Len(q.text)) * (tabsize - 1)
        BY <2>4, <2>5, Zenon
      <3>2. Len(q.text) + TabsIn(q.text, Len(q.text)) * (tabsize - 1) <= Room(q)
        BY <2>6, <3>1, Zenon
      <3>3. TabsExpanded(q, Len(q.text) + TabsIn(q.text, Len(q.text)) * (tabsize - 1), tabsize).ok
        BY <1>0, <2>5, <3>2, TabsInside, Zenon
      <3> QED BY <3>1, <3>3, Zenon
    <2> HIDE DEF b
    <2> QED BY <1>2, <2>7 DEF Rewrite
  <1> HIDE DEF b, q, size
  <1> QED BY <1>0, <1>1, <1>2

LEMMA ReplaceInside ==
    ASSUME Shaped, NEW d \in live, NEW old \in Words, NEW new \in Words,
           NEW count \in caller.numbers, Replace(d, old, new, count),
           LET times == Count(Text(d), old, 0, Len(Text(d)))
           IN  times > 0 => count <= times /\ Len(new) >= Len(old)
    PROVE  ~ undefined'
  <1> DEFINE s == strings[d]
             l == Len(s.text)
             times == Count(s.text, old, 0, Len(s.text))
             n == IF count = -1 THEN times ELSE count
             e == Len(new) - Len(old)
             size == Len(s.text) + n * e
             q == WithRoom(s, size)
             b == ReplacedIn(q, old, new, n, times)
  <1>0. ~ undefined
    BY Zenon DEF Replace, Calling
  <1>1. \/ UNCHANGED undefined
        \/ n > 0 /\ times > 0 /\ CanHold(s, size) /\ Rewrite(d, q, b, l)
    BY DEF Replace, Returns
  <1>2. CASE n > 0 /\ times > 0 /\ CanHold(s, size) /\ Rewrite(d, q, b, l)
    <2>1. /\ s \in Rec /\ Sound(s) /\ s.text \in Seq(Nat) /\ Text(d) = s.text
          /\ old \in Seq(Nat) /\ new \in Seq(Nat) /\ count \in Int
      BY StringIs, CallerIs
    <2>2. times \in Nat /\ s.text # <<>> /\ times = Left(s.text, old, Len(s.text))
          /\ count <= times /\ Len(new) >= Len(old)
      <3>1. count <= times /\ Len(new) >= Len(old)
        BY <1>2, <2>1
      <3> HIDE DEF s
      <3>2. times \in Nat /\ (times > 0 => s.text # <<>>)
        BY <2>1, CountIsNat
      <3>3. times = Left(s.text, old, Len(s.text))
        BY <2>1, CountIsLeft
      <3> QED BY <1>2, <3>1, <3>2, <3>3
    <2> HIDE DEF times, s
    <2>3. n \in Nat /\ n <= times
      BY <1>2, <2>1, <2>2
    <2> HIDE DEF n
    <2>4. e \in Nat
      BY <2>1, <2>2
    <2> HIDE DEF e
    <2>5. size \in Int
      <3>1. n * e \in Int /\ Len(s.text) \in Int
        BY <2>1, <2>3, <2>4
      <3> DEFINE y == n * e
      <3> HIDE DEF y
      <3>2. y \in Int
        BY <3>1 DEF y
      <3>3. Len(s.text) + y \in Int
        BY <3>1, <3>2
      <3> QED BY <3>3 DEF y
    <2> HIDE DEF size
    <2>6. q \in Rec /\ q.text = s.text /\ Capacity(q) >= size
      BY <1>2, <2>1, <2>5, WithRoomIs
    <2> HIDE DEF q
    <2>7. size <= Room(q)
      <3>1. Room(q) \in Nat /\ Room(q) >= Capacity(q) /\ Capacity(q) \in Nat
        BY <2>6, BufferIs, RecIs
      <3> QED BY <2>5, <2>6, <3>1
    <2>8. b.ok
      <3>1. size = Len(q.text) + n * (Len(new) - Len(old))
        BY <2>6, Zenon DEF size, e
      <3>2. Len(q.text) + n * (Len(new) - Len(old)) <= Room(q)
        BY <2>7, <3>1, Zenon
      <3>3. q.text # <<>> /\ times = Left(q.text, old, Len(q.text))
        BY <2>2, <2>6
      <3> QED BY <2>1, <2>2, <2>3, <2>6, <3>2, <3>3, ReplacedInside, ZenonT(60)
    <2> HIDE DEF b
    <2> QED BY <1>2, <2>8 DEF Rewrite
  <1> HIDE DEF b, q, size, n, times
  <1> QED BY <1>0, <1>1, <1>2

(* A split that touches what is not there is one into the String itself.    *)
LEMMA SplitInside ==
    ASSUME Shaped, NEW o \in live, NEW w \in caller.words, NEW l \in Lists, Split(l, o, w)
    PROVE  undefined' => o \in ToSet(l)
  <1> DEFINE s     == Text(o)
             sep   == IF w = NULL THEN WHITESPACE ELSE w
             count == Count(s, sep, 0, Len(s))
             own   == {k \in 1 .. Least(count + 1, Len(l)) : l[k] = o /\ Mutable(strings[o])}
  <1>1. ~ undefined
    BY Zenon DEF Split, Calling
  <1>2. \/ UNCHANGED undefined
        \/ \E k \in own : TRUE
    BY ZenonT(60) DEF Split, Returns
  <1>3. ASSUME NEW k \in own PROVE o \in ToSet(l)
    <2>1. s \in Seq(Nat) /\ sep \in Seq(Nat) /\ l \in Seq(live)
      <3>1. WHITESPACE \in Seq(Nat)
        BY DEF WHITESPACE
      <3>2. w # NULL => w \in Seq(Nat)
        BY CallerIs DEF Words
      <3> QED BY <3>1, <3>2, StringIs, ListsAre
    <2>2. count \in Nat
      <3> HIDE DEF s, sep
      <3> QED BY <2>1, CountIsNat
    <2>3. k \in 1 .. Least(count + 1, Len(l)) /\ l[k] = o
      OBVIOUS
    <2> HIDE DEF count, own
    <2>4. k \in 1 .. Len(l)
      BY <2>1, <2>2, <2>3 DEF Least
    <2> QED BY <2>1, <2>3, <2>4 DEF ToSet
  <1> QED BY <1>1, <1>2, <1>3

-----------------------------------------------------------------------------
(* The steps *)

LEMMA StartIs == Init => Shaped
  <1> SUFFICES ASSUME Init PROVE Shaped
    OBVIOUS
  <1>1. caller \in Caller /\ \A s \in caller.given : Sound(s)
    BY ConstantsAssumption DEF Init
  <1>2. RESIZABLE_STRING \in Rec /\ Sound(RESIZABLE_STRING) /\ Allocatable(RESIZABLE_STRING)
    <2>1. <<>> \in Seq(Nat) /\ Len(<<>>) = 0
      OBVIOUS
    <2>2. RESIZABLE_STRING \in Rec
      BY <2>1 DEF RESIZABLE_STRING, Rec
    <2>3. RESIZABLE_STRING.text = <<>> /\ RESIZABLE_STRING.capacity = 0 /\ RESIZABLE_STRING.null
      BY DEF RESIZABLE_STRING
    <2> QED BY <2>1, <2>2, <2>3 DEF Sound, Capacity, Abs, Allocatable
  <1>3. \A s \in caller.given : s \in Rec /\ Sound(s)
    <2> SUFFICES ASSUME NEW s \in caller.given PROVE s \in Rec
      BY <1>1
    <2>1. s \in String
      BY <1>1 DEF Caller
    <2>2. s = [text |-> s.text, capacity |-> s.capacity, null |-> s.null]
          /\ s.text \in Seq(Chars) /\ s.capacity \in Int /\ s.null \in BOOLEAN
      BY <2>1 DEF String
    <2>3. s.text \in Seq(Nat)
      BY <2>2, CharsAreNat
    <2> QED BY <2>2, <2>3 DEF Rec
  <1>4. strings \in [Names -> Rec] /\ \A d \in Names : Sound(strings[d])
    BY <1>2, <1>3 DEF Init
  <1>5. live \subseteq Names /\ declared = live
    BY DEF Init, kSubset
  <1>6. \A d \in Pointers : strings[d] = RESIZABLE_STRING
    BY DEF Init
  <1>7. caller \in Callers
    BY DEF Init
  <1> QED BY <1>2, <1>4, <1>5, <1>6, <1>7 DEF Shaped

LEMMA StepIs ==
    ASSUME Shaped, Next
    PROVE  /\ Shaped' /\ Roomed
           /\ call'[1] \notin {"lower", "upper", "set"} => Sparing
  <1> DEFINE Holds == /\ Shaped' /\ Roomed
                      /\ call'[1] \notin {"lower", "upper", "set"} => Sparing
  <1>1. ASSUME Steady, Sparing, UNCHANGED <<caller, declared>> PROVE Holds
    BY <1>1, SteadyIs
  <1>2. ASSUME Steady, UNCHANGED <<caller, declared>>, call'[1] \in {"lower", "upper", "set"}
        PROVE  Holds
    BY <1>2, SteadyIs
  <1>3. ASSUME Looked PROVE Holds
    BY <1>1, <1>3, NoneChanged DEF Looked
  <1>4. ASSUME NEW d \in Pointers, NEW t \in Words, New(d, t) PROVE Holds
    BY <1>4, NewIs
  <1>5. ASSUME NEW d \in Pointers, NEW n \in caller.numbers, NewEmpty(d, n) PROVE Holds
    BY <1>5, NewEmptyIs
  <1>6. ASSUME NEW c, Calling(c) PROVE UNCHANGED <<caller, declared>> /\ call' = c
    BY <1>6 DEF Calling
  <1> HIDE DEF Holds
  <1>7. ASSUME NEW d \in live, Dest(d) \/ Del(d) PROVE Holds
    BY <1>7, FreesAre DEF Holds
  <1>8. ASSUME NEW d \in live, Clear(d) PROVE Holds
    <2>1. UNCHANGED <<caller, declared>>
      BY <1>6, <1>8 DEF Clear
    <2> QED BY <1>1, <1>8, <2>1, ClearIs
  <1>9. ASSUME NEW d \in live, Cstr(d) PROVE Holds
    <2>1. UNCHANGED <<caller, declared>>
      BY <1>6, <1>9 DEF Cstr
    <2> QED BY <1>1, <1>9, <2>1, CstrIs
  <1>10. ASSUME NEW d \in live, Lower_(d) \/ Upper_(d) PROVE Holds
    <2>1. UNCHANGED <<caller, declared>> /\ call'[1] \in {"lower", "upper", "set"}
      BY <1>6, <1>10 DEF Lower_, Upper_
    <2> QED BY <1>2, <1>10, <2>1, CasesAre
  <1>11. ASSUME NEW c, NEW n, Reads(c, n) PROVE Holds
    <2>1. UNCHANGED <<caller, declared>> /\ UNCHANGED <<strings, live>>
      BY <1>6, <1>11 DEF Reads
    <2> QED BY <1>1, <2>1, NoneChanged
  <1>12. ASSUME NEW d \in live, NEW c \in UNION {ToSet(w) : w \in Words}, Append_(d, c) PROVE Holds
    <2>1. UNCHANGED <<caller, declared>>
      BY <1>6, <1>12 DEF Append_
    <2> QED BY <1>1, <1>12, <2>1, AppendIs
  <1>13. ASSUME NEW d \in live, NEW c \in UNION {ToSet(w) : w \in Words}, NEW n, Put(d, n, c)
         PROVE  Holds
    <2>1. UNCHANGED <<caller, declared>> /\ call'[1] \in {"lower", "upper", "set"}
      BY <1>6, <1>13 DEF Put
    <2> QED BY <1>2, <1>13, <2>1, PutIs
  <1>14. ASSUME NEW d \in live \cup {NULL}, NEW o \in live, Copy(d, o) PROVE Holds
    <2>1. UNCHANGED <<caller, declared>>
      BY <1>6, <1>14 DEF Copy
    <2> QED BY <1>1, <1>14, <2>1, CopyIs
  <1>15. ASSUME NEW d \in live, NEW o \in live, Extend(d, o) PROVE Holds
    <2>1. UNCHANGED <<caller, declared>>
      BY <1>6, <1>15 DEF Extend
    <2> QED BY <1>1, <1>15, <2>1, ExtendIs
  <1>16. ASSUME NEW d \in live, NEW o \in live, NEW start \in caller.numbers,
                NEW end \in caller.numbers, NEW step \in caller.numbers,
                Slice_(d, o, start, end, step)
         PROVE  Holds
    <2>1. UNCHANGED <<caller, declared>>
      BY <1>6, <1>16 DEF Slice_
    <2> QED BY <1>1, <1>16, <2>1, SliceActionIs
  <1>17. ASSUME NEW d \in live, NEW w \in Words, NEW new \in Words, NEW n \in caller.numbers,
                Replace(d, w, new, n)
         PROVE  Holds
    <2>1. UNCHANGED <<caller, declared>>
      BY <1>6, <1>17 DEF Replace
    <2> QED BY <1>1, <1>17, <2>1, ReplaceIs
  <1>18. ASSUME NEW d \in live, NEW w, NEW op \in {"strip", "lstrip", "rstrip"}, Strip(op, d, w)
         PROVE  Holds
    <2>1. UNCHANGED <<caller, declared>>
      BY <1>6, <1>18 DEF Strip
    <2> QED BY <1>1, <1>18, <2>1, StripIs
  <1>19. ASSUME NEW d \in live, NEW w \in caller.words, NEW l \in Lists, Join(d, w, l)
         PROVE  Holds
    <2>1. UNCHANGED <<caller, declared>>
      BY <1>6, <1>19 DEF Join
    <2> QED BY <1>1, <1>19, <2>1, JoinIs
  <1>20. ASSUME NEW d \in live, NEW w \in caller.words, NEW l \in Lists, Split(l, d, w)
         PROVE  Holds
    <2>1. UNCHANGED <<caller, declared>>
      BY <1>6, <1>20 DEF Split
    <2> QED BY <1>1, <1>20, <2>1, SplitIs
  <1>21. ASSUME NEW d, NEW w, NEW has, SplitNew(has, d, w) PROVE Holds
    <2>1. UNCHANGED <<caller, declared>>
      BY <1>6, <1>21 DEF SplitNew
    <2> QED BY <1>1, <1>21, <2>1, SplitNewIs
  <1>22. ASSUME NEW d \in live, NEW w \in caller.words, NEW o \in live \cup {NULL},
                Partition(d, w, o) \/ Rpartition(d, w, o)
         PROVE  Holds
    <2>1. UNCHANGED <<caller, declared>>
      BY <1>6, <1>22 DEF Partition, Rpartition
    <2> QED BY <1>1, <1>22, <2>1, PartitionsAre
  <1>23. ASSUME NEW d, NEW w, NEW new, NEW n, ReplaceNull(d, w, new, n) PROVE Holds
    <2>1. UNCHANGED <<caller, declared>> /\ UNCHANGED <<strings, live>>
      BY <1>6, <1>23 DEF ReplaceNull
    <2> QED BY <1>1, <2>1, NoneChanged
  <1>24. ASSUME NEW d \in live, NEW n \in caller.numbers \cap 0 .. 255, ExpandTabs(d, n)
         PROVE  Holds
    <2>1. UNCHANGED <<caller, declared>>
      BY <1>6, <1>24, Zenon DEF ExpandTabs
    <2> QED BY <1>1, <1>24, <2>1, ExpandTabsIs
  <1>25. ASSUME NEW d \in live,
                \/ \E n \in caller.numbers : Get_(d, n)
                \/ \E o \in live : Compare_(d, o)
                \/ \E w \in Words : In(d, w) \/ StartsWith_(d, w) \/ EndsWith_(d, w)
         PROVE  Holds
    BY <1>11, <1>25, Zenon DEF Get_, Compare_, In, StartsWith_, EndsWith_
  <1>26. ASSUME NEW d \in live, Copy(NULL, d) \/ \E o \in live : Copy(d, o) PROVE Holds
    <2>1. NULL \in live \cup {NULL} /\ d \in live \cup {NULL}
      OBVIOUS
    <2> QED BY <1>14, <1>26, <2>1
  <1>27. ASSUME NEW d \in live,
                \/ Dest(d) \/ Del(d) \/ Clear(d) \/ Cstr(d) \/ Lower_(d) \/ Upper_(d)
                \/ \E c \in UNION {ToSet(w) : w \in Words} :
                      Append_(d, c) \/ \E n \in caller.numbers : Put(d, n, c)
                \/ \E o \in live : Extend(d, o)
                \/ \E o \in live : \E start, end, step \in caller.numbers :
                      Slice_(d, o, start, end, step)
         PROVE  Holds
    BY <1>7, <1>8, <1>9, <1>10, <1>12, <1>13, <1>15, <1>16, <1>27, Zenon
  <1>28. ASSUME NEW d \in live,
                \/ \E w \in Words : \E new \in Words, n \in caller.numbers : Replace(d, w, new, n)
                \/ \E n \in caller.numbers \cap 0 .. 255 : ExpandTabs(d, n)
                \/ \E w \in caller.words :
                      \/ \E op \in {"strip", "lstrip", "rstrip"} : Strip(op, d, w)
                      \/ \E l \in Lists : Join(d, w, l) \/ Split(l, d, w)
                      \/ \E has \in BOOLEAN : SplitNew(has, d, w)
                      \/ \E o \in live \cup {NULL} : Partition(d, w, o) \/ Rpartition(d, w, o)
                      \/ \E new \in caller.words, n \in caller.numbers : ReplaceNull(d, w, new, n)
         PROVE  Holds
    BY <1>17, <1>18, <1>19, <1>20, <1>21, <1>22, <1>23, <1>24, <1>28, Zenon
  <1>29. Holds
    <2> DEFINE AnyCall(d) ==
              \/ Dest(d) \/ Del(d) \/ Clear(d) \/ Cstr(d) \/ Lower_(d) \/ Upper_(d)
              \/ \E n \in caller.numbers : Get_(d, n)
              \/ \E c \in UNION {ToSet(w) : w \in Words} :
                    Append_(d, c) \/ \E n \in caller.numbers : Put(d, n, c)
              \/ \E o \in live :
                    \/ Compare_(d, o) \/ Copy(d, o) \/ Extend(d, o)
                    \/ \E start, end, step \in caller.numbers : Slice_(d, o, start, end, step)
              \/ Copy(NULL, d)
              \/ \E w \in Words :
                    \/ In(d, w) \/ StartsWith_(d, w) \/ EndsWith_(d, w)
                    \/ \E new \in Words, n \in caller.numbers : Replace(d, w, new, n)
              \/ \E w \in caller.words :
                    \/ \E op \in {"strip", "lstrip", "rstrip"} : Strip(op, d, w)
                    \/ \E l \in Lists : Join(d, w, l) \/ Split(l, d, w)
                    \/ \E has \in BOOLEAN : SplitNew(has, d, w)
                    \/ \E o \in live \cup {NULL} : Partition(d, w, o) \/ Rpartition(d, w, o)
                    \/ \E new \in caller.words, n \in caller.numbers : ReplaceNull(d, w, new, n)
              \/ \E n \in caller.numbers \cap 0 .. 255 : ExpandTabs(d, n)
    <2>1. ASSUME NEW d \in live, AnyCall(d) PROVE Holds
      BY <1>25, <1>26, <1>27, <1>28, <2>1, ZenonT(60)
    <2>2. \/ Looked
          \/ \E d \in Pointers, t \in Words : New(d, t)
          \/ \E d \in Pointers, n \in caller.numbers : NewEmpty(d, n)
          \/ \E d \in live : AnyCall(d)
      BY DEF Next
    <2> HIDE DEF AnyCall
    <2> QED BY <1>3, <1>4, <1>5, <2>1, <2>2, Zenon
  <1> QED BY <1>29 DEF Holds

(* However the calls of a caller are mixed and whichever of them fail, the  *)
(* Strings stay what the inductive invariant says.                          *)
LEMMA StaysShaped == Spec => []Shaped
  <1>1. Shaped /\ [Next]_vars => Shaped'
    <2> SUFFICES ASSUME Shaped, [Next]_vars PROVE Shaped'
      OBVIOUS
    <2>1. CASE Next
      BY <2>1, StepIs
    <2>2. CASE UNCHANGED vars
      BY <2>2 DEF vars, Shaped, Pointers
    <2> QED BY <2>1, <2>2
  <1> QED BY StartIs, <1>1, PTL DEF Spec

(* strings.c never lets a text outgrow the buffer it is in, whichever calls  *)
(* a program makes, in any order, with one String for two purposes or NULL,  *)
(* and whichever allocations fail: also where the code goes on after a call  *)
(* that was refused, or reads what it has already written over.              *)
THEOREM CapacitySuffices == Spec => []WithinCapacity
  <1>1. Shaped => WithinCapacity
    BY DEF Shaped, WithinCapacity
  <1> QED BY StaysShaped, <1>1, PTL

(* The sign of the capacity is kept by all calls (strings.c:243, 464-472):   *)
(* an array of the caller is never reallocated or freed, and an allocated    *)
(* buffer shrinks only when String_dest or String_del gives it back.         *)
THEOREM RoomStays == Spec => RoomKept
  <1>1. Shaped /\ [Next]_vars => [Roomed]_vars
    BY StepIs
  <1>2. [Roomed]_vars => [\A d \in Names :
        /\ strings[d].capacity < 0 => strings'[d].capacity = strings[d].capacity
        /\ strings'[d].capacity < strings[d].capacity => call'[1] \in {"dest", "del"}]_vars
    BY DEF Roomed
  <1> QED BY StaysShaped, <1>1, <1>2, PTL DEF Spec, RoomKept

(* What strings.h:40-42 says of a String of capacity 0: in any sequence of   *)
(* calls but String_lower, String_upper and String_set, which do not ask, a  *)
(* read-only text is at most cut short, never written to.                    *)
THEOREM LiteralsStay == Spec => ReadOnlyKept
  <1>1. Sparing => \A d \in Names : Kept(d)
    BY DEF Sparing, Spared, Kept, Text
  <1>2. Shaped /\ [Next]_vars =>
            [call'[1] \notin {"lower", "upper", "set"} => \A d \in Names : Kept(d)]_vars
    BY StepIs, <1>1
  <1> QED BY StaysShaped, <1>2, PTL DEF Spec, ReadOnlyKept

-----------------------------------------------------------------------------
(* Inside the buffers *)

(* Of all other calls, those that access what is not there are named.       *)
LEMMA StepIsInside ==
    ASSUME Shaped, Next, Asks, DefinedElsewhere
    PROVE  DefinedElsewhere'
  <1>1. ASSUME ~ undefined, UNCHANGED undefined PROVE DefinedElsewhere'
    BY <1>1 DEF DefinedElsewhere
  <1>2. ASSUME ~ undefined' PROVE DefinedElsewhere'
    BY <1>2 DEF DefinedElsewhere
  <1>3. ASSUME NEW c, Calling(c) PROVE ~ undefined /\ call' = c
    BY <1>3 DEF Calling
  <1>4. ASSUME Looked PROVE DefinedElsewhere'
    BY <1>1, <1>4 DEF Looked
  <1>5. ASSUME NEW d, NEW t, New(d, t) PROVE DefinedElsewhere'
    <2>1. call'[1] = "new"
      BY <1>3, <1>5 DEF New
    <2> QED BY <2>1 DEF DefinedElsewhere
  <1>6. ASSUME NEW d, NEW n, NewEmpty(d, n) PROVE DefinedElsewhere'
    <2>1. call'[1] = "new_empty"
      BY <1>3, <1>6 DEF NewEmpty
    <2> QED BY <2>1 DEF DefinedElsewhere
  <1>7. ASSUME NEW d, NEW w, NEW has, SplitNew(has, d, w) PROVE DefinedElsewhere'
    <2>1. call'[1] = "split_new"
      BY <1>3, <1>7 DEF SplitNew
    <2> QED BY <2>1 DEF DefinedElsewhere
  <1>8. ASSUME NEW d, Dest(d) \/ Del(d) \/ Clear(d) \/ Cstr(d) \/ Lower_(d) \/ Upper_(d)
        PROVE  DefinedElsewhere'
    <2>1. ~ undefined /\ UNCHANGED undefined
      BY <1>8, Zenon DEF Dest, Del, Clear, Cstr, Lower_, Upper_, Calling, Returns
    <2> QED BY <1>1, <2>1
  <1>9. ASSUME NEW c, NEW n, Reads(c, n) PROVE DefinedElsewhere'
    <2>1. ~ undefined /\ UNCHANGED undefined
      BY <1>9, Zenon DEF Reads, Calling, Returns
    <2> QED BY <1>1, <2>1
  <1>10. ASSUME NEW d, NEW t, Write(d, t) PROVE UNCHANGED undefined
    BY <1>10, Zenon DEF Write, Returns
  <1>11. ASSUME NEW d, NEW o, NEW c, Append_(d, c) \/ Copy(d, o) \/ Extend(d, o)
         PROVE  DefinedElsewhere'
    <2>1. ~ undefined /\ UNCHANGED undefined
      BY <1>10, <1>11, Zenon DEF Append_, Copy, Extend, Calling, Returns
    <2> QED BY <1>1, <2>1
  <1>12. ASSUME NEW d, NEW n, NEW c, Put(d, n, c) PROVE DefinedElsewhere'
    <2>1. ~ undefined /\ UNCHANGED undefined
      BY <1>12, Zenon DEF Put, Calling, Returns
    <2> QED BY <1>1, <2>1
  <1>13. ASSUME NEW d \in live, NEW o \in live, NEW start \in caller.numbers,
                NEW end \in caller.numbers, NEW step \in caller.numbers,
                Slice_(d, o, start, end, step)
         PROVE  DefinedElsewhere'
    <2>1. ~ undefined /\ call' = <<"slice", d, o, start, end, step>>
      BY <1>3, <1>13, Zenon DEF Slice_
    <2> DEFINE s == Text(o)
               Behind == s = <<>> \/ start >= Len(s) \/ end > Len(s)
    <2>2. ASSUME ~ SliceReadsText(s, start, end, step), ~ SliceIsError(s, start, end, step)
          PROVE  Behind
      <3>1. start \in Int /\ end \in Int /\ step \in Int /\ s \in Seq(Nat)
        BY CallerIs, StringIs
      <3>2. Len(s) \in Nat
        BY <3>1
      <3> HIDE DEF s
      <3> QED BY <2>2, <3>1, <3>2, SliceReadsInside
    <2>3. \/ UNCHANGED undefined
          \/ Behind /\ UNCHANGED strings
      BY <1>10, <1>13, <2>2, Zenon DEF Slice_, SliceBehind, Crashes, Returns
    <2>4. CASE Behind /\ UNCHANGED strings
      <3>1. /\ call'[1] = "slice" /\ call'[3] = o /\ call'[4] = start /\ call'[5] = end
            /\ Text(o)' = s
        BY <2>1, <2>4 DEF Text
      <3> QED BY <2>4, <3>1, Zenon DEF DefinedElsewhere
    <2> QED BY <1>1, <2>1, <2>3, <2>4
  <1>14. ASSUME NEW d \in live, NEW w \in Words, NEW new \in Words, NEW n \in caller.numbers,
                Replace(d, w, new, n)
         PROVE  DefinedElsewhere'
    <2>1. call' = <<"replace", d, w, new, n>>
      BY <1>3, <1>14, Zenon DEF Replace
    <2>2. /\ call'[1] = "replace" /\ call'[2] = d /\ call'[3] = w /\ call'[4] = new /\ call'[5] = n
          /\ NULL \notin {w, new}
      BY <2>1 DEF Words
    <2>3. LET times == Count(Text(d), w, 0, Len(Text(d)))
          IN  times > 0 => n <= times /\ Len(new) >= Len(w)
      BY <2>2 DEF Asks
    <2> QED BY <1>2, <1>14, <2>3, ReplaceInside
  <1>15. ASSUME NEW d, NEW w, NEW op, Strip(op, d, w) PROVE DefinedElsewhere'
    <2>1. ~ undefined /\ UNCHANGED undefined
      BY <1>15, Zenon DEF Strip, Calling, Returns
    <2> QED BY <1>1, <2>1
  <1>16. ASSUME NEW d, NEW w, NEW l, Join(d, w, l) PROVE DefinedElsewhere'
    <2>1. ~ undefined /\ UNCHANGED undefined
      BY <1>16, Zenon DEF Join, Calling, Returns
    <2> QED BY <1>1, <2>1
  <1>17. ASSUME NEW d \in live, NEW w \in caller.words, NEW l \in Lists, Split(l, d, w)
         PROVE  DefinedElsewhere'
    <2>1. call' = <<"split", l, d, w>>
      BY <1>3, <1>17, Zenon DEF Split
    <2>2. call'[1] = "split" /\ call'[2] = l /\ call'[3] = d
      BY <2>1
    <2>3. undefined' => d \in ToSet(l)
      BY <1>17, SplitInside
    <2> QED BY <2>2, <2>3 DEF DefinedElsewhere
  <1>18. ASSUME NEW d, NEW w, NEW o, Partition(d, w, o) \/ Rpartition(d, w, o)
         PROVE  DefinedElsewhere'
    <2>1. ASSUME NEW p, CutAt(d, p, w, o) PROVE UNCHANGED undefined
      BY <2>1, Zenon DEF CutAt, Returns
    <2>2. ASSUME NotCut(o) PROVE UNCHANGED undefined
      BY <2>2, Zenon DEF NotCut, Returns
    <2>3. ~ undefined /\ UNCHANGED undefined
      BY <1>18, <2>1, <2>2, Zenon DEF Partition, Rpartition, Calling
    <2> QED BY <1>1, <2>3
  <1>19. ASSUME NEW d, NEW w, NEW new, NEW n, ReplaceNull(d, w, new, n) PROVE DefinedElsewhere'
    <2>1. ~ undefined /\ UNCHANGED undefined
      BY <1>19, Zenon DEF ReplaceNull, Calling, Returns
    <2> QED BY <1>1, <2>1
  <1>20. ASSUME NEW d \in live, NEW n \in caller.numbers \cap 0 .. 255, ExpandTabs(d, n)
         PROVE  DefinedElsewhere'
    <2>1. call' = <<"expand_tabs", d, n>>
      BY <1>3, <1>20, Zenon DEF ExpandTabs
    <2>2. n > 0
      BY <2>1 DEF Asks
    <2> QED BY <1>2, <1>20, <2>2, ExpandTabsInside
  <1>21. ASSUME NEW d \in live,
                \/ \E n \in caller.numbers : Get_(d, n)
                \/ \E o \in live : Compare_(d, o)
                \/ \E w \in Words : In(d, w) \/ StartsWith_(d, w) \/ EndsWith_(d, w)
         PROVE  DefinedElsewhere'
    BY <1>9, <1>21, Zenon DEF Get_, Compare_, In, StartsWith_, EndsWith_
  <1> QED
    BY <1>4, <1>5, <1>6, <1>7, <1>8, <1>11, <1>12, <1>13, <1>14, <1>15, <1>16, <1>17, <1>18,
       <1>19, <1>20, <1>21, ZenonT(60) DEF Next

(* strings.c accesses nothing outside the buffers it was given, nor slices  *)
(* what is behind a text, in any sequence of calls, but where String_new    *)
(* gets no memory, where split has to allocate its Strings or is given the  *)
(* String it splits, and where an empty text is sliced, or one from or to a *)
(* bound beyond its end; as long as no tab is to become nothing and no more *)
(* occurrences are to be replaced than there are, nor by a shorter text.    *)
THEOREM StaysInside == Spec /\ [][Asks]_vars => []DefinedElsewhere
  <1>1. Init => DefinedElsewhere
    BY DEF Init, DefinedElsewhere
  <1>2. Shaped /\ DefinedElsewhere /\ [Next /\ Asks]_vars => DefinedElsewhere'
    <2>1. Shaped /\ DefinedElsewhere /\ Next /\ Asks => DefinedElsewhere'
      BY StepIsInside
    <2>2. DefinedElsewhere /\ UNCHANGED vars => DefinedElsewhere'
      BY DEF vars, DefinedElsewhere, Text
    <2> QED BY <2>1, <2>2
  <1>3. [Next]_vars /\ [Asks]_vars => [Next /\ Asks]_vars
    OBVIOUS
  <1> QED BY StaysShaped, <1>1, <1>2, <1>3, PTL DEF Spec

(* What a step may ask for, where it is a replace with both words or an     *)
(* expand_tabs.                                                             *)
AsksOf ==
    \/ call'[1] \notin {"expand_tabs", "replace"}
    \/ call'[1] = "replace" /\ NULL \in {call'[3], call'[4]}
    \/ \E d \in live, w \in Words, new \in Words, n \in caller.numbers :
          call' = <<"replace", d, w, new, n>> /\ "replace" \in caller.calls
    \/ \E d \in live, n \in caller.numbers \cap 0 .. 255 :
          call' = <<"expand_tabs", d, n>> /\ "expand_tabs" \in caller.calls

LEMMA NextAsks ==
    ASSUME Shaped, Next
    PROVE  AsksOf
  <1>1. ASSUME NEW c, Calling(c) PROVE call' = c /\ c[1] \in caller.calls
    BY <1>1 DEF Calling
  <1>2. ASSUME NEW c, Calling(c), c[1] \notin {"expand_tabs", "replace"} PROVE AsksOf
    BY <1>1, <1>2 DEF AsksOf
  <1>3. ASSUME Looked PROVE AsksOf
    <2>1. call'[1] = "none"
      BY <1>3 DEF Looked, None
    <2> QED BY <2>1 DEF AsksOf
  <1>4. ASSUME NEW d, NEW t, New(d, t) \/ NewEmpty(d, t) PROVE AsksOf
    BY <1>2, <1>4 DEF New, NewEmpty
  <1>5. ASSUME NEW d, Dest(d) \/ Del(d) \/ Clear(d) PROVE AsksOf
    BY <1>2, <1>5 DEF Dest, Del, Clear
  <1>6. ASSUME NEW d, Cstr(d) \/ Lower_(d) \/ Upper_(d) PROVE AsksOf
    BY <1>2, <1>6 DEF Cstr, Lower_, Upper_
  <1>7. ASSUME NEW d, NEW o, Get_(d, o) \/ Compare_(d, o) PROVE AsksOf
    BY <1>2, <1>7 DEF Get_, Compare_, Reads
  <1>8. ASSUME NEW d, NEW o, In(d, o) \/ StartsWith_(d, o) \/ EndsWith_(d, o) PROVE AsksOf
    BY <1>2, <1>8 DEF In, StartsWith_, EndsWith_, Reads
  <1>9. ASSUME NEW d, NEW o, Append_(d, o) \/ Copy(d, o) \/ Extend(d, o) PROVE AsksOf
    BY <1>2, <1>9 DEF Append_, Copy, Extend
  <1>10. ASSUME NEW d, NEW n, NEW c, Put(d, n, c) PROVE AsksOf
    BY <1>2, <1>10 DEF Put
  <1>11. ASSUME NEW d, NEW o, NEW start, NEW end, NEW step, Slice_(d, o, start, end, step)
         PROVE  AsksOf
    <2>1. Calling(<<"slice", d, o, start, end, step>>)
      BY <1>11, Zenon DEF Slice_
    <2> QED BY <1>2, <2>1
  <1>12. ASSUME NEW d, NEW w, NEW op \in {"strip", "lstrip", "rstrip"}, Strip(op, d, w) PROVE AsksOf
    <2>1. Calling(<<op, d, w>>)
      BY <1>12, Zenon DEF Strip
    <2> QED BY <1>2, <2>1
  <1>13. ASSUME NEW d, NEW w, NEW l, Join(d, w, l) \/ Split(l, d, w) \/ SplitNew(l, d, w) PROVE AsksOf
    <2>1. \/ Calling(<<"join", d, w, l>>) \/ Calling(<<"split", l, d, w>>)
          \/ Calling(<<"split_new", l, d, w>>)
      BY <1>13, Zenon DEF Join, Split, SplitNew
    <2> QED BY <1>2, <2>1
  <1>14. ASSUME NEW d, NEW w, NEW o, Partition(d, w, o) \/ Rpartition(d, w, o) PROVE AsksOf
    <2>1. Calling(<<"partition", d, w, o>>) \/ Calling(<<"rpartition", d, w, o>>)
      BY <1>14, Zenon DEF Partition, Rpartition
    <2> QED BY <1>2, <2>1
  <1>15. ASSUME NEW d, NEW w, NEW new, NEW n, ReplaceNull(d, w, new, n) PROVE AsksOf
    <2>1. call' = <<"replace", d, w, new, n>> /\ NULL \in {w, new}
      BY <1>1, <1>15, Zenon DEF ReplaceNull
    <2>2. call'[1] = "replace" /\ NULL \in {call'[3], call'[4]}
      BY <2>1
    <2> QED BY <2>2 DEF AsksOf
  <1>16. ASSUME NEW d \in live, NEW w \in Words, NEW new \in Words, NEW n \in caller.numbers,
                Replace(d, w, new, n)
         PROVE  AsksOf
    <2>1. call' = <<"replace", d, w, new, n>> /\ <<"replace", d, w, new, n>>[1] \in caller.calls
      BY <1>1, <1>16, Zenon DEF Replace
    <2>2. /\ call'[1] = "replace" /\ call'[2] = d /\ call'[3] = w /\ call'[4] = new /\ call'[5] = n
          /\ "replace" \in caller.calls
      BY <2>1
    <2> QED BY <2>1, <2>2, Zenon DEF AsksOf
  <1>17. ASSUME NEW d \in live, NEW n \in caller.numbers \cap 0 .. 255, ExpandTabs(d, n)
         PROVE  AsksOf
    <2>1. call' = <<"expand_tabs", d, n>> /\ <<"expand_tabs", d, n>>[1] \in caller.calls
      BY <1>1, <1>17, Zenon DEF ExpandTabs
    <2>2. call'[1] = "expand_tabs" /\ call'[3] = n /\ "expand_tabs" \in caller.calls
      BY <2>1
    <2> QED BY <2>1, <2>2, Zenon DEF AsksOf
  <1> QED
    BY <1>3, <1>4, <1>5, <1>6, <1>7, <1>8, <1>9, <1>10, <1>11, <1>12, <1>13, <1>14, <1>15, <1>16,
       <1>17, ZenonT(60) DEF Next

(* Careful callers ask for nothing else.                                    *)
LEMMA CarefulAsks ==
    ASSUME Careful, Shaped, Next
    PROVE  Asks
  <1>1. AsksOf /\ caller \in Callers
    BY NextAsks DEF Shaped
  <1>2. CASE \/ call'[1] \notin {"expand_tabs", "replace"}
             \/ call'[1] = "replace" /\ NULL \in {call'[3], call'[4]}
    BY <1>2 DEF Asks
  <1>3. ASSUME NEW d \in live, NEW w \in Words, NEW new \in Words, NEW n \in caller.numbers,
               call' = <<"replace", d, w, new, n>>, "replace" \in caller.calls
        PROVE  Asks
    <2>1. /\ call'[1] = "replace" /\ call'[2] = d /\ call'[3] = w /\ call'[4] = new /\ call'[5] = n
      BY <1>3
    <2>2. n <= 1 /\ Len(new) >= Len(w)
      BY <1>1, <1>3 DEF Careful, Words
    <2> DEFINE times == Count(Text(d), w, 0, Len(Text(d)))
    <2>3. times \in Nat /\ n \in Int
      <3>1. Text(d) \in Seq(Nat) /\ w \in Seq(Nat) /\ n \in Int
        BY CallerIs, StringIs
      <3> QED BY <3>1, CountIsNat
    <2> HIDE DEF times
    <2>4. times > 0 => n <= times /\ Len(new) >= Len(w)
      BY <2>2, <2>3
    <2> QED BY <2>1, <2>4 DEF Asks, times
  <1>4. ASSUME NEW d \in live, NEW n \in caller.numbers \cap 0 .. 255,
               call' = <<"expand_tabs", d, n>>, "expand_tabs" \in caller.calls
        PROVE  Asks
    <2>1. call'[1] = "expand_tabs" /\ call'[3] = n
      BY <1>4
    <2>2. 0 \notin caller.numbers
      BY <1>1, <1>4, Zenon DEF Careful
    <2>3. n > 0
      <3>1. n \in 0 .. 255 /\ n \in caller.numbers
        OBVIOUS
      <3>2. n # 0
        BY <2>2, <3>1
      <3> QED BY <3>1, <3>2
    <2> QED BY <2>1, <2>3 DEF Asks
  <1> QED BY <1>1, <1>2, <1>3, <1>4, Zenon DEF AsksOf

(* So it is, with the same exceptions, for all sequences of calls of callers *)
(* that have no tab size of 0 and replace, one occurrence or all, by texts   *)
(* that are not shorter: those of which the model checker looked at all      *)
(* states are such callers.                                                  *)
THEOREM CarefulStaysInside ==
    ASSUME Careful
    PROVE  Spec => []DefinedElsewhere
  <1>1. Careful
    OBVIOUS
  <1>2. Shaped /\ [Next]_vars => [Asks]_vars
    BY <1>1, CarefulAsks
  <1> QED BY StaysShaped, StaysInside, <1>2, PTL DEF Spec

-----------------------------------------------------------------------------
(* The texts of the Strings *)

Shown == [d \in Names |-> Text(d)]

(* Between calls nothing is returned, so that a String_new that does not    *)
(* return has returned nothing.                                             *)
Answered == call = None => ret = 0

LEMMA ShownIs ==
    ASSUME Shaped, NEW d \in Names
    PROVE  Shown[d] = Text(d) /\ Text(d) \in Seq(Nat)
  BY RecIs DEF Shown, Shaped, Text

LEMMA ShownKept ==
    ASSUME UNCHANGED strings
    PROVE  UNCHANGED Shown
  BY DEF Shown, Text

LEMMA ShownBecomes ==
    ASSUME Shaped, NEW d \in Names, NEW r, Set(d, r), NEW t, r.text = t
    PROVE  T!Becomes(d, t)
  <1>1. \A e \in Names : strings'[e] = IF e = d THEN r ELSE strings[e]
    BY DEF Shaped, Set
  <1>2. Shown' = [e \in Names |-> strings'[e].text]
    BY DEF Shown, Text
  <1>3. Shown = [e \in Names |-> strings[e].text]
    BY DEF Shown, Text
  <1>4. Shown' = [Shown EXCEPT ![d] = t]
    BY <1>1, <1>2, <1>3
  <1> QED BY <1>4 DEF T!Becomes, Shown

LEMMA CallingSays ==
    ASSUME NEW c, Calling(c), NEW n, ret' = n
    PROVE  T!Says(c, n)
  BY DEF Calling, T!Says, T!None, None

LEMMA WriteEdits ==
    ASSUME Shaped, NEW c, Calling(c), NEW d \in Names, NEW t \in Seq(Nat), Write(d, t)
    PROVE  T!Edit(c, d, t)
  <1>1. CASE Set(d, Written(strings[d], t)) /\ CanHold(strings[d], Len(t)) /\ ret' = 0
    <2>1. Written(strings[d], t).text = t
      BY <1>1, WrittenIs DEF Shaped
    <2>2. T!Becomes(d, t) /\ T!Says(c, 0)
      BY <1>1, <2>1, ShownBecomes, CallingSays
    <2> QED BY <2>2 DEF T!Edit
  <1>2. CASE UNCHANGED strings /\ ret' = Len(t)
    <2>1. UNCHANGED Shown /\ T!Says(c, Len(t))
      BY <1>2, ShownKept, CallingSays
    <2> QED BY <2>1 DEF T!Edit, Shown
  <1> QED BY <1>1, <1>2 DEF Write, Returns

LEMMA ReadsLooks ==
    ASSUME NEW c, NEW n, Calling(c), UNCHANGED strings, ret' = n
    PROVE  T!Looks(c, n)
  <1>1. UNCHANGED Shown /\ T!Says(c, n)
    BY ShownKept, CallingSays
  <1> QED BY <1>1 DEF T!Looks, Shown

(* A call of which Texts says only which Strings it leaves alone.           *)
LEMMA LeavesOpen ==
    ASSUME NEW c, Calling(c), NEW ds, \A e \in Names \ ds : strings'[e] = strings[e]
    PROVE  T!Open(c, ds)
  <1>1. call = T!None /\ call' = c
    BY DEF Calling, T!None, None
  <1>2. Shown' = [e \in Names |-> IF e \in ds THEN Shown'[e] ELSE Shown[e]]
    <2>1. \A e \in Names : Shown'[e] = strings'[e].text /\ Shown[e] = strings[e].text
      BY DEF Shown, Text
    <2>2. Shown' = [e \in Names |-> Shown'[e]]
      BY DEF Shown
    <2>3. \A e \in Names : Shown'[e] = IF e \in ds THEN Shown'[e] ELSE Shown[e]
      BY <2>1
    <2> HIDE DEF Shown
    <2> QED BY <2>2, <2>3
  <1> QED BY <1>1, <1>2 DEF T!Open, Shown

LEMMA ChangesOne ==
    ASSUME Shaped, NEW d, (\E r : Set(d, r)) \/ UNCHANGED strings
    PROVE  \A e \in Names \ {d} : strings'[e] = strings[e]
  BY DEF Shaped, Set

LEMMA LookedLooks ==
    ASSUME Looked
    PROVE  T!Looked
  <1>1. UNCHANGED Shown
    BY ShownKept DEF Looked
  <1> QED BY <1>1 DEF Looked, T!Looked, T!None, None, Shown

LEMMA NewMakes ==
    ASSUME Shaped, Answered, NEW d \in Pointers, NEW t, New(d, t)
    PROVE  T!Make(<<"new", d, t>>, d, t)
  <1> DEFINE c == <<"new", d, t>>
  <1>0. Calling(c) /\ d \in Names /\ ret = 0
    BY DEF New, Pointers, Answered, Calling
  <1> HIDE DEF c
  <1>1. CASE Made(d, [text |-> t, capacity |-> Len(t) + 1, null |-> FALSE])
    <2> DEFINE r == [text |-> t, capacity |-> Len(t) + 1, null |-> FALSE]
    <2>1. r.text = t /\ Set(d, r) /\ ret' = 0
      BY <1>1 DEF Made, Returns
    <2> HIDE DEF r
    <2>2. T!Becomes(d, t) /\ T!Says(c, 0)
      BY <1>0, <2>1, ShownBecomes, CallingSays
    <2> QED BY <2>2 DEF T!Make, T!Attempt, c
  <1>2. CASE UNCHANGED strings /\ ret' = -1
    BY <1>0, <1>2, ReadsLooks DEF T!Looks, T!Make, T!Attempt, c
  <1>3. CASE UNCHANGED strings /\ ret' = 0
    BY <1>0, <1>3, ReadsLooks DEF T!Looks, T!Make, c
  <1> QED BY <1>0, <1>1, <1>2, <1>3 DEF New, NotMade, Crashes, Returns

LEMMA NewEmptyMakes ==
    ASSUME Shaped, Answered, NEW d \in Pointers, NEW n \in caller.numbers, NewEmpty(d, n)
    PROVE  T!MakeEmpty(<<"new_empty", d, n>>, d, n)
  <1> DEFINE c == <<"new_empty", d, n>>
  <1>0. Calling(c) /\ d \in Names /\ ret = 0 /\ n \in Int
    BY CallerIs DEF NewEmpty, Pointers, Answered, Calling
  <1> HIDE DEF c
  <1>1. CASE n >= 0 /\ Made(d, [text |-> <<>>, capacity |-> n, null |-> n = 0])
    <2> DEFINE b == (n = 0)
               r == [text |-> <<>>, capacity |-> n, null |-> b]
    <2> HIDE DEF b
    <2>1. r.text = <<>>
      OBVIOUS
    <2>2. Set(d, r) /\ ret' = 0
      BY <1>1 DEF Made, Returns, b
    <2> HIDE DEF r
    <2>3. T!Becomes(d, <<>>) /\ T!Says(c, 0)
      BY <1>0, <2>1, <2>2, ShownBecomes, CallingSays
    <2> QED BY <1>0, <1>1, <2>3 DEF T!MakeEmpty, T!Make, T!Attempt, c
  <1>2. CASE UNCHANGED strings /\ ret' = -1
    BY <1>0, <1>2, ReadsLooks DEF T!Looks, T!MakeEmpty, T!Make, T!Attempt, c
  <1>3. CASE n >= 0 /\ UNCHANGED strings /\ ret' = 0
    BY <1>0, <1>3, ReadsLooks DEF T!Looks, T!MakeEmpty, T!Make, c
  <1> QED BY <1>0, <1>1, <1>2, <1>3 DEF NewEmpty, NotMade, Crashes, Returns

LEMMA ClearsEmpty ==
    ASSUME Shaped, NEW d \in live, NEW op, Calling(<<op, d>>), NEW r, Set(d, r), r.text = <<>>,
           ret' = 0
    PROVE  T!Empty(op, d)
  <1>1. d \in Names
    BY DEF Shaped
  <1>2. T!Says(<<op, d>>, 0)
    BY CallingSays
  <1>3. T!Becomes(d, <<>>)
    BY <1>1, ShownBecomes
  <1> QED BY <1>2, <1>3 DEF T!Empty

LEMMA EmptiesEmpty ==
    ASSUME Shaped, NEW d \in live
    PROVE  /\ Dest(d) => T!Empty("dest", d)
           /\ Del(d) => T!Empty("del", d)
           /\ Clear(d) => T!Empty("clear", d)
  <1> DEFINE s == strings[d]
  <1>0. s \in Rec
    BY StringIs
  <1> HIDE DEF s
  <1>1. [s EXCEPT !.text = <<>>].text = <<>>
    BY <1>0, RecIs
  <1>2. Destroyed(s).text = <<>>
    BY <1>1 DEF Destroyed, RESIZABLE_STRING
  <1>3. ASSUME Dest(d) PROVE T!Empty("dest", d)
    BY <1>2, <1>3, ClearsEmpty DEF Dest, Returns, s
  <1>4. ASSUME Del(d) PROVE T!Empty("del", d)
    BY <1>2, <1>4, ClearsEmpty DEF Del, Returns, s
  <1>5. ASSUME Clear(d) PROVE T!Empty("clear", d)
    BY <1>1, <1>5, ClearsEmpty DEF Clear, Returns, s
  <1> QED BY <1>3, <1>4, <1>5

LEMMA CopyCopies ==
    ASSUME Shaped, NEW d \in live \cup {NULL}, NEW o \in live, Copy(d, o)
    PROVE  T!Copy(d, o)
  <1> DEFINE c == <<"copy", d, o>>
  <1>0. Calling(c) /\ o \in Names /\ Text(o) \in Seq(Nat) /\ Shown[o] = Text(o)
    BY StringIs, ShownIs DEF Copy
  <1>1. CASE d # NULL /\ Write(d, Text(o))
    <2>1. d \in Names
      BY <1>1 DEF Shaped
    <2>2. T!Edit(c, d, Text(o))
      BY <1>0, <1>1, <2>1, WriteEdits
    <2> QED BY <1>0, <1>1, <2>2 DEF T!Copy, Shown
  <1>2. CASE d = NULL /\ UNCHANGED strings /\ ret' = Len(Text(o))
    <2>1. T!Looks(c, Len(Text(o)))
      BY <1>0, <1>2, ReadsLooks
    <2> QED BY <1>0, <1>2, <2>1 DEF T!Copy, Shown
  <1> QED BY <1>1, <1>2 DEF Copy, Returns

LEMMA AppendAppends ==
    ASSUME Shaped, NEW d \in live, NEW c \in UNION {ToSet(w) : w \in Words}, Append_(d, c)
    PROVE  T!Append_(d, c)
  <1>1. c \in Nat /\ Text(d) \in Seq(Nat) /\ d \in Names /\ Shown[d] = Text(d)
    BY CallerIs, StringIs, ShownIs
  <1>2. Append(Text(d), c) \in Seq(Nat) /\ Append(Text(d), c) = Text(d) \o << c >>
    BY <1>1
  <1>3. T!Edit(<<"append", d, c>>, d, Append(Text(d), c))
    BY <1>1, <1>2, WriteEdits DEF Append_
  <1> QED BY <1>1, <1>2, <1>3 DEF T!Append_, Shown

LEMMA ExtendExtends ==
    ASSUME Shaped, NEW d \in live, NEW o \in live, Extend(d, o)
    PROVE  T!Extend(d, o)
  <1>1. /\ Text(d) \in Seq(Nat) /\ Text(o) \in Seq(Nat) /\ d \in Names /\ o \in Names
        /\ Shown[d] = Text(d) /\ Shown[o] = Text(o)
    BY StringIs, ShownIs
  <1>2. Text(d) \o Text(o) \in Seq(Nat)
    BY <1>1
  <1>3. T!Edit(<<"extend", d, o>>, d, Text(d) \o Text(o))
    BY <1>1, <1>2, WriteEdits DEF Extend
  <1> QED BY <1>1, <1>3 DEF T!Extend, Shown

LEMMA CstrKeepsText ==
    ASSUME Shaped, NEW d \in live, Cstr(d)
    PROVE  T!Cstr(d)
  <1> DEFINE s == strings[d]
             n == Len(Text(d)) + 1
  <1>0. s \in Rec /\ Sound(s) /\ d \in Names /\ n \in Int /\ Text(d) = s.text /\ Shown[d] = Text(d)
    BY StringIs, ShownIs
  <1>1. CASE CanHold(s, n) /\ Set(d, WithRoom(s, n)) /\ ret' = 0
    <2> HIDE DEF n, s
    <2>1. WithRoom(s, n).text = Text(d)
      BY <1>0, <1>1, WithRoomIs
    <2>2. T!Becomes(d, Text(d)) /\ T!Says(<<"cstr", d>>, 0)
      BY <1>0, <1>1, <2>1, ShownBecomes, CallingSays DEF Cstr
    <2>3. Shown' = [Shown EXCEPT ![d] = Shown[d]]
      BY <1>0, <2>2 DEF T!Becomes, Shown
    <2>4. UNCHANGED Shown
      BY <2>3, <1>0 DEF Shown
    <2> QED BY <2>2, <2>4 DEF T!Cstr, Shown
  <1>2. CASE UNCHANGED strings /\ ret' = -1
    BY <1>2, ReadsLooks DEF T!Cstr, T!Looks, Cstr
  <1> QED BY <1>1, <1>2 DEF Cstr, Returns

LEMMA RecasesAre ==
    ASSUME Shaped, NEW d \in live
    PROVE  /\ Lower_(d) => T!Recase("lower", d)
           /\ Upper_(d) => T!Recase("upper", d)
  <1>0. d \in Names /\ Text(d) \in Seq(Nat) /\ Shown[d] = Text(d) /\ strings[d] \in Rec
    BY StringIs, ShownIs
  <1>1. ASSUME NEW t PROVE [strings[d] EXCEPT !.text = t].text = t
    BY <1>0, RecIs
  <1>2. ASSUME Lower_(d) PROVE T!Recase("lower", d)
    <2> DEFINE t == [k \in DOMAIN Text(d) |-> Lower(Text(d)[k])]
               r == [strings[d] EXCEPT !.text = t]
    <2>1. Calling(<<"lower", d>>) /\ Set(d, r) /\ ret' = 0
      BY <1>2 DEF Lower_, InPlace, Returns
    <2>2. r.text = t
      BY <1>1
    <2> HIDE DEF r
    <2>3. T!Becomes(d, t) /\ T!Says(<<"lower", d>>, 0)
      BY <1>0, <2>1, <2>2, ShownBecomes, CallingSays
    <2> QED BY <1>0, <2>3 DEF T!Recase, Shown, Lower
  <1>3. ASSUME Upper_(d) PROVE T!Recase("upper", d)
    <2> DEFINE t == [k \in DOMAIN Text(d) |-> Upper(Text(d)[k])]
               r == [strings[d] EXCEPT !.text = t]
    <2>1. Calling(<<"upper", d>>) /\ Set(d, r) /\ ret' = 0
      BY <1>3 DEF Upper_, InPlace, Returns
    <2>2. r.text = t
      BY <1>1
    <2> HIDE DEF r
    <2>3. T!Becomes(d, t) /\ T!Says(<<"upper", d>>, 0)
      BY <1>0, <2>1, <2>2, ShownBecomes, CallingSays
    <2> QED BY <1>0, <2>3 DEF T!Recase, Shown, Upper
  <1> QED BY <1>2, <1>3

LEMMA PlaceIs ==
    ASSUME NEW s \in Seq(Nat), NEW loc \in Int
    PROVE  /\ Inside(s, loc) <=> s # <<>> /\ loc < Len(s)
           /\ Inside(s, loc) => /\ Position(loc, Len(s)) + 1 = T!Place(s, loc)
                                /\ T!Place(s, loc) \in 1 .. Len(s)
  <1>1. Len(s) \in Nat /\ (s # <<>> => Len(s) \in Nat \ {0})
    OBVIOUS
  <1>2. CASE loc < 0 /\ s # <<>>
    BY <1>1, <1>2, PlaceBelow DEF Inside, T!Place
  <1>3. CASE loc >= 0 \/ s = <<>>
    BY <1>1, <1>3 DEF Inside, Position, T!Place
  <1> QED BY <1>2, <1>3

LEMMA GetLooks ==
    ASSUME Shaped, NEW d \in live, NEW loc \in caller.numbers, Get_(d, loc)
    PROVE  T!Look(<<"get", d, loc>>)
  <1> DEFINE c == <<"get", d, loc>>
             n == Get(Text(d), loc)
  <1>0. d \in Names /\ Text(d) \in Seq(Nat) /\ Shown[d] = Text(d) /\ loc \in Int /\ Len(Text(d)) \in Nat
    BY StringIs, ShownIs, CallerIs
  <1>1. T!Looks(c, n)
    BY ReadsLooks DEF Get_, Reads, Returns
  <1>2. n = IF Text(d) = <<>> \/ loc >= Len(Text(d)) THEN -1 ELSE Text(d)[T!Place(Text(d), loc)]
    BY <1>0, PlaceIs DEF Get
  <1>3. c[1] = "get" /\ c[2] = d /\ c[3] = loc
    OBVIOUS
  <1> HIDE DEF c, n
  <1> QED BY <1>0, <1>1, <1>2, <1>3 DEF T!Look, Shown, c

LEMMA PutPuts ==
    ASSUME Shaped, NEW d \in live, NEW loc \in caller.numbers, NEW v, Put(d, loc, v)
    PROVE  T!Put(d, loc, v)
  <1> DEFINE c == <<"set", d, loc, v>>
             s == Text(d)
             p == Position(loc, Len(s)) + 1
  <1>0. /\ d \in Names /\ s \in Seq(Nat) /\ Shown[d] = s /\ loc \in Int /\ Len(s) \in Nat
        /\ strings[d] \in Rec /\ Calling(c)
    BY StringIs, ShownIs, CallerIs DEF Put
  <1>1. CASE Inside(s, loc) /\ InPlace(d, [s EXCEPT ![p] = v]) /\ ret' = Get(s, loc)
    <2>1. p = T!Place(s, loc) /\ s # <<>> /\ loc < Len(s)
      BY <1>0, <1>1, PlaceIs
    <2>2. Get(s, loc) = s[p]
      BY <1>1 DEF Get
    <2> HIDE DEF p
    <2> DEFINE t == [s EXCEPT ![p] = v]
               r == [strings[d] EXCEPT !.text = t]
    <2>3. Set(d, r)
      BY <1>1 DEF InPlace
    <2> HIDE DEF t
    <2>4. r.text = t
      BY <1>0, RecIs
    <2> HIDE DEF r
    <2>5. T!Becomes(d, t) /\ T!Says(c, s[p])
      BY <1>0, <1>1, <2>2, <2>3, <2>4, ShownBecomes, CallingSays
    <2>6. Len(s) > 0 /\ loc < Len(s)
      BY <1>0, <2>1
    <2> HIDE DEF s
    <2> QED BY <1>0, <2>1, <2>5, <2>6 DEF T!Put, Shown, t, s
  <1>2. CASE ~ Inside(s, loc) /\ UNCHANGED strings /\ ret' = -1
    <2>1. T!Looks(c, -1)
      BY <1>0, <1>2, ReadsLooks
    <2> QED BY <2>1 DEF T!Put, T!Looks
  <1> QED BY <1>1, <1>2 DEF Put, Returns

LEMMA SplitNewNothing ==
    ASSUME NEW has, NEW o, NEW sep, SplitNew(has, o, sep)
    PROVE  T!SplitNew(<<"split_new", has, o, sep>>)
  <1>1. Calling(<<"split_new", has, o, sep>>) /\ UNCHANGED strings
    BY DEF SplitNew, NotMade, Crashes
  <1> QED BY <1>1, LeavesOpen DEF T!SplitNew

LEMMA ReplaceNullLooks ==
    ASSUME NEW d, NEW old, NEW new, NEW n, ReplaceNull(d, old, new, n)
    PROVE  T!Replace(d, old, new, n)
  <1>1. T!Looks(<<"replace", d, old, new, n>>, -1)
    BY ReadsLooks DEF ReplaceNull, Returns
  <1> QED BY <1>1 DEF T!Replace, ReplaceNull

(* Texts means the same by its words as Strings by its own.                 *)
LEMMA SameWords ==
    /\ \A s, sub, a, b : T!Occurrences(s, sub, a, b) = Occurrences(s, sub, a, b)
    /\ \A s, sub, p : T!Occurs(s, sub, p) = Occurs(s, sub, p)
    /\ \A s, p, n : T!Window(s, p, n) = Window(s, p, n)
    /\ \A S : T!FirstOf(S) = FirstOf(S) /\ T!LastOf(S) = LastOf(S)
    /\ \A s, t : T!IsPrefix(s, t) = IsPrefix(s, t)
    /\ T!WHITESPACE = WHITESPACE
    /\ \A s : T!ToSet(s) = ToSet(s)
  BY DEF T!Occurrences, Occurrences, T!Occurs, Occurs, T!Window, Window, T!FirstOf, FirstOf,
         T!LastOf, LastOf, T!Min, T!Max, Min, Max, T!IsPrefix, IsPrefix, T!WHITESPACE, WHITESPACE,
         T!ToSet, ToSet

LEMMA LooksAre ==
    ASSUME Shaped, NEW d \in live, NEW w \in Words
    PROVE  /\ In(d, w) => T!Look(<<"in", d, w>>)
           /\ StartsWith_(d, w) => T!Look(<<"starts_with", d, w>>)
           /\ EndsWith_(d, w) => T!Look(<<"ends_with", d, w>>)
  <1> DEFINE s == Text(d)
  <1>0. d \in Names /\ s \in Seq(Nat) /\ Shown[d] = s /\ w \in Seq(Nat)
    BY StringIs, ShownIs, CallerIs
  <1>1. ASSUME In(d, w) PROVE T!Look(<<"in", d, w>>)
    <2> DEFINE c == <<"in", d, w>>
    <2>1. T!Looks(c, Bit(Count(s, w, 0, 0) > 0))
      BY <1>1, ReadsLooks DEF In, Reads, Returns
    <2>2. Bit(Count(s, w, 0, 0) > 0) = T!Bit(T!Occurrences(s, w, 0, Len(s)) # {})
      <3>1. Count(s, w, 0, 0) > 0 <=> T!Occurrences(s, w, 0, Len(s)) # {}
        BY <1>0, CountsSome, SameWords
      <3> QED BY <3>1 DEF Bit, T!Bit
    <2>3. c[1] = "in" /\ c[2] = d /\ c[3] = w
      OBVIOUS
    <2> HIDE DEF c, s
    <2> QED BY <1>0, <2>1, <2>2, <2>3, Zenon DEF T!Look, Shown, c
  <1>2. ASSUME StartsWith_(d, w) PROVE T!Look(<<"starts_with", d, w>>)
    <2> DEFINE c == <<"starts_with", d, w>>
    <2>1. T!Looks(c, Bit(StartsWith(s, w)))
      BY <1>2, ReadsLooks DEF StartsWith_, Reads, Returns
    <2>2. Bit(StartsWith(s, w)) = T!Bit(T!IsPrefix(w, s))
      <3>1. StartsWith(s, w) <=> T!IsPrefix(w, s)
        BY <1>0, StartsIsPrefix, SameWords
      <3> QED BY <3>1 DEF Bit, T!Bit
    <2>3. c[1] = "starts_with" /\ c[2] = d /\ c[3] = w
      OBVIOUS
    <2> HIDE DEF c, s
    <2> QED BY <1>0, <2>1, <2>2, <2>3, Zenon DEF T!Look, Shown, c
  <1>3. ASSUME EndsWith_(d, w) PROVE T!Look(<<"ends_with", d, w>>)
    <2> DEFINE c == <<"ends_with", d, w>>
    <2>1. T!Looks(c, Bit(EndsWith(s, w)))
      BY <1>3, ReadsLooks DEF EndsWith_, Reads, Returns
    <2>2. Bit(EndsWith(s, w)) = T!Bit(T!IsSuffix(w, s))
      <3>1. EndsWith(s, w) <=> IsPrefix(Reverse(w), Reverse(s))
        BY <1>0, EndsIsSuffix
      <3>2. T!IsSuffix(w, s) <=> IsPrefix(Reverse(w), Reverse(s))
        BY SameWords DEF T!IsSuffix, T!Reverse, Reverse
      <3> QED BY <3>1, <3>2 DEF Bit, T!Bit
    <2>3. c[1] = "ends_with" /\ c[2] = d /\ c[3] = w
      OBVIOUS
    <2> HIDE DEF c, s
    <2> QED BY <1>0, <2>1, <2>2, <2>3, Zenon DEF T!Look, Shown, c
  <1> QED BY <1>1, <1>2, <1>3

LEMMA ComparesInOrder ==
    ASSUME NEW a \in Seq(Nat), NEW b \in Seq(Nat)
    PROVE  Compare(a, b) = T!Order(a, b)
  <1> DEFINE m == Len(a)
             n == Len(b)
             l == IF m <= n THEN m ELSE n
             differs == {k \in 1 .. l : a[k] # b[k]}
             k == CHOOSE i \in differs : \A j \in differs : i <= j
  <1>1. m \in Nat /\ n \in Nat /\ l \in Nat
    OBVIOUS
  <1>2. T!Min({m, n}) = l
    <2>1. l \in {m, n} /\ \A y \in {m, n} : l <= y
      BY <1>1
    <2> DEFINE c == CHOOSE x \in {m, n} : \A y \in {m, n} : x <= y
    <2>2. c \in {m, n} /\ \A y \in {m, n} : c <= y
      BY <2>1
    <2> HIDE DEF c, l, m, n
    <2>3. c = l
      BY <1>1, <2>1, <2>2
    <2> QED BY <2>3 DEF T!Min, c
  <1>3. T!Order(a, b) = IF differs = {} THEN (IF m < n THEN -1 ELSE IF m > n THEN 1 ELSE 0)
                        ELSE IF a[k] < b[k] THEN -1 ELSE IF a[k] > b[k] THEN 1 ELSE 0
    <2>1. T!Min(differs) = k
      BY DEF T!Min
    <2>2. T!Min({Len(a), Len(b)}) = l
      BY <1>2
    <2> HIDE DEF k, l
    <2> QED BY <2>1, <2>2 DEF T!Order
  <1>4. differs # {} => l > 0
    <2> HIDE DEF l
    <2> QED BY <1>1
  <1>5. ASSUME differs # {} PROVE a[k] # b[k] /\ a[k] \in Nat /\ b[k] \in Nat
    <2>1. differs \in SUBSET Nat /\ \A i \in differs : i \in 1 .. m /\ i \in 1 .. n
      BY <1>1
    <2>2. \E i \in differs : \A j \in differs : i <= j
      <3> HIDE DEF differs
      <3> QED BY <1>5, <2>1, LeastOfSet
    <2>3. k \in differs
      <3> HIDE DEF differs
      <3> QED BY <2>2
    <2>4. a[k] # b[k] /\ k \in 1 .. m /\ k \in 1 .. n
      <3> HIDE DEF k, m, n, l
      <3> QED BY <2>1, <2>3
    <2> HIDE DEF k
    <2> QED BY <2>4
  <1>6. Compare(a, b) = IF l > 0 /\ differs # {} THEN (IF a[k] < b[k] THEN -1 ELSE 1)
                        ELSE IF m < n THEN -1 ELSE IF m > n THEN 1 ELSE 0
    BY DEF Compare
  <1> HIDE DEF differs, k, l, m, n
  <1> QED BY <1>3, <1>4, <1>5, <1>6

LEMMA CompareLooks ==
    ASSUME Shaped, NEW d \in live, NEW o \in live, Compare_(d, o)
    PROVE  T!Look(<<"compare", d, o>>)
  <1> DEFINE c == <<"compare", d, o>>
  <1>0. /\ d \in Names /\ Text(d) \in Seq(Nat) /\ Shown[d] = Text(d)
        /\ o \in Names /\ Text(o) \in Seq(Nat) /\ Shown[o] = Text(o)
    BY StringIs, ShownIs
  <1>1. T!Looks(c, T!Order(Text(d), Text(o)))
    BY <1>0, ComparesInOrder, ReadsLooks DEF Compare_, Reads, Returns
  <1>2. c[1] = "compare" /\ c[2] = d /\ c[3] = o
    OBVIOUS
  <1> HIDE DEF c
  <1> QED BY <1>0, <1>1, <1>2, Zenon DEF T!Look, Shown, c

(* The ends that strip looks for are those of what is kept.                 *)
LEMMA StrippedAsSaid ==
    ASSUME NEW s \in Seq(Nat), NEW chars
    PROVE  /\ LeftStripped(s, chars) = T!StripLeft(s, ToSet(chars))
           /\ RightStripped(s, chars) = T!StripRight(s, ToSet(chars))
  <1> DEFINE n == Len(s)
             L == {p \in 0 .. n : p = n \/ ~ CharIn(chars, s[p + 1])}
             R == {p \in 0 .. n : p = 0 \/ ~ CharIn(chars, s[p])}
             K == {i \in DOMAIN s : s[i] \notin ToSet(chars)}
  <1>1. n \in Nat /\ DOMAIN s = 1 .. n
    OBVIOUS
  <1>2. \A v : CharIn(chars, v) <=> v \in ToSet(chars)
    BY DEF CharIn, ToSet
  <1>3. /\ n \in L /\ 0 \in R /\ L \in SUBSET Nat /\ L \subseteq 0 .. n /\ R \in SUBSET (0 .. n)
        /\ K \subseteq 1 .. n
        /\ \A p \in 0 .. n : p \in L <=> p = n \/ p + 1 \in K
        /\ \A p \in 0 .. n : p \in R <=> p = 0 \/ p \in K
    <2>1. n \in L /\ 0 \in R /\ L \in SUBSET Nat /\ L \subseteq 0 .. n /\ R \in SUBSET (0 .. n) /\ K \subseteq 1 .. n
      <3> HIDE DEF n
      <3> QED BY <1>1
    <2>2. \A p \in 0 .. n : p # n => p + 1 \in 1 .. n
      <3> HIDE DEF n, L, R, K
      <3> QED BY <1>1
    <2>3. \A p \in 0 .. n : p # 0 => p \in 1 .. n
      <3> HIDE DEF n, L, R, K
      <3> QED BY <1>1
    <2>4. \A i \in 1 .. n : i \in K <=> ~ CharIn(chars, s[i])
      BY <1>1, <1>2
    <2>5. /\ \A p : p \in L <=> p \in 0 .. n /\ (p = n \/ ~ CharIn(chars, s[p + 1]))
          /\ \A p : p \in R <=> p \in 0 .. n /\ (p = 0 \/ ~ CharIn(chars, s[p]))
      OBVIOUS
    <2> HIDE DEF L, R, K, n
    <2>6. n \notin 1 .. n - 1 /\ n + 1 \notin 1 .. n /\ 0 \notin 1 .. n
      BY <1>1
    <2> QED BY <2>1, <2>2, <2>3, <2>4, <2>5, <2>6
  <1>4. /\ LeftStripped(s, chars) = SubSeq(s, Min(L) + 1, n)
        /\ RightStripped(s, chars) = SubSeq(s, 1, Max(R))
    BY DEF LeftStripped, RightStripped
  <1>5. /\ T!StripLeft(s, ToSet(chars)) = IF K = {} THEN <<>> ELSE SubSeq(s, Min(K), n)
        /\ T!StripRight(s, ToSet(chars)) = IF K = {} THEN <<>> ELSE SubSeq(s, 1, Max(K))
    BY DEF T!StripLeft, T!StripRight, T!Min, T!Max, Min, Max
  <1> HIDE DEF n, L, R, K
  <1>6. Min(L) \in L /\ \A p \in L : Min(L) <= p
    <2>1. \E m \in L : \A p \in L : m <= p
      BY <1>3, LeastOfSet
    <2> QED BY <2>1 DEF Min
  <1>7. Max(R) \in R /\ \A p \in R : Max(R) >= p
    <2>1. \E m \in R : \A p \in R : p <= m
      BY <1>1, <1>3, GreatestOfSet
    <2>2. \E m \in R : \A p \in R : m >= p
      BY <1>3, <2>1
    <2> QED BY <2>2 DEF Max
  <1> DEFINE l == Min(L)
             r == Max(R)
  <1>8. l \in 0 .. n /\ r \in 0 .. n
    BY <1>3, <1>6, <1>7
  <1>9. CASE K = {}
    <2>1. l = n
      <3> HIDE DEF l
      <3> QED BY <1>3, <1>6, <1>8, <1>9 DEF l
    <2>2. r = 0
      <3> HIDE DEF r
      <3> QED BY <1>3, <1>7, <1>8, <1>9 DEF r
    <2>3. SubSeq(s, n + 1, n) = <<>> /\ SubSeq(s, 1, 0) = <<>>
      BY <1>1 DEF n
    <2> QED BY <1>4, <1>5, <1>9, <2>1, <2>2, <2>3
  <1>10. CASE K # {}
    <2> DEFINE first == Min(K)
               last == Max(K)
    <2>1. first \in K /\ \A i \in K : first <= i
      <3>1. K \in SUBSET Nat
        BY <1>1, <1>3
      <3>2. \E m \in K : \A p \in K : m <= p
        BY <1>10, <3>1, LeastOfSet
      <3> QED BY <3>2 DEF Min
    <2>2. last \in K /\ \A i \in K : i <= last
      <3>1. K \in SUBSET (0 .. n)
        BY <1>1, <1>3
      <3>2. PICK m \in K : \A p \in K : p <= m
        BY <1>1, <1>10, <3>1, GreatestOfSet
      <3>3. \A p \in K : m >= p
        BY <3>1, <3>2
      <3>4. last \in K /\ \A i \in K : last >= i
        BY <3>3 DEF Max
      <3> QED BY <3>1, <3>4
    <2> HIDE DEF first, last
    <2>3. first \in 1 .. n /\ last \in 1 .. n
      BY <1>3, <2>1, <2>2
    <2>4. l + 1 = first
      <3>1. first - 1 \in 0 .. n /\ (first - 1) + 1 = first
        BY <1>1, <2>3
      <3>2. first - 1 \in L
        BY <1>3, <2>1, <3>1
      <3>3. l <= first - 1
        BY <1>6, <3>2
      <3>4. l # n
        BY <1>1, <1>8, <2>3, <3>3
      <3>5. l + 1 \in K
        BY <1>3, <1>6, <1>8, <3>4
      <3>6. first <= l + 1
        BY <2>1, <3>5
      <3> HIDE DEF l
      <3> QED BY <1>1, <1>8, <2>3, <3>3, <3>6
    <2>5. r = last
      <3>1. last \in 0 .. n /\ last # 0
        BY <1>1, <2>3
      <3>2. last \in R
        BY <1>3, <2>2, <3>1
      <3>3. r >= last
        BY <1>7, <3>2
      <3>4. r # 0
        BY <1>1, <1>8, <2>3, <3>3
      <3>5. r \in K
        BY <1>3, <1>7, <1>8, <3>4
      <3>6. r <= last
        BY <2>2, <3>5
      <3> HIDE DEF r
      <3> QED BY <1>1, <1>8, <2>3, <3>3, <3>6
    <2> QED BY <1>4, <1>5, <1>10, <2>4, <2>5 DEF first, last
  <1> QED BY <1>9, <1>10

LEMMA StripStrips ==
    ASSUME Shaped, NEW d \in live, NEW op \in {"strip", "lstrip", "rstrip"},
           NEW chars \in caller.words, Strip(op, d, chars)
    PROVE  T!Strip(op, d, chars)
  <1> DEFINE c == <<op, d, chars>>
             s == Text(d)
             w == Stripping(chars)
             set == ToSet(w)
             t == Stripped(op, s, w)
             said == IF op = "lstrip" THEN T!StripLeft(s, set)
                     ELSE IF op = "rstrip" THEN T!StripRight(s, set)
                     ELSE T!StripLeft(T!StripRight(s, set), set)
  <1>0. d \in Names /\ s \in Seq(Nat) /\ Shown[d] = s /\ strings[d] \in Rec /\ Calling(c)
    BY StringIs, ShownIs DEF Strip
  <1>1. t = said
    <2> HIDE DEF s, w
    <2>1. RightStripped(s, w) \in Seq(Nat)
      BY <1>0, StrippedIs
    <2>2. /\ LeftStripped(s, w) = T!StripLeft(s, set)
          /\ RightStripped(s, w) = T!StripRight(s, set)
          /\ LeftStripped(RightStripped(s, w), w) = T!StripLeft(RightStripped(s, w), set)
      BY <1>0, <2>1, StrippedAsSaid
    <2>3. CASE op = "lstrip"
      BY <2>2, <2>3 DEF Stripped
    <2>4. CASE op = "rstrip"
      BY <2>2, <2>4 DEF Stripped
    <2>5. CASE op = "strip"
      BY <2>2, <2>5 DEF Stripped
    <2> QED BY <2>3, <2>4, <2>5
  <1>2. T!ToSet(IF chars = NULL THEN T!WHITESPACE ELSE chars) = set
    BY SameWords DEF Stripping
  <1>3. T!Attempt(c, d, t)
    <2>1. CASE InPlace(d, t) /\ ret' = 0
      <3> DEFINE r == [strings[d] EXCEPT !.text = t]
      <3>1. Set(d, r)
        BY <2>1 DEF InPlace
      <3> HIDE DEF t
      <3>2. r.text = t
        BY <1>0, RecIs
      <3> HIDE DEF r
      <3>3. T!Becomes(d, t) /\ T!Says(c, 0)
        BY <1>0, <2>1, <3>1, <3>2, ShownBecomes, CallingSays
      <3> QED BY <3>3 DEF T!Attempt
    <2>2. CASE UNCHANGED strings /\ ret' = -1
      <3>1. T!Looks(c, -1)
        BY <1>0, <2>2, ReadsLooks
      <3> QED BY <3>1 DEF T!Looks, T!Attempt
    <2> QED BY <2>1, <2>2 DEF Strip, Returns
  <1> HIDE DEF t, set, s
  <1>4. T!Attempt(c, d, said)
    BY <1>1, <1>3
  <1>5. CASE op = "lstrip"
    BY <1>0, <1>2, <1>4, <1>5 DEF T!Strip, Shown, s
  <1>6. CASE op = "rstrip"
    BY <1>0, <1>2, <1>4, <1>6 DEF T!Strip, Shown, s
  <1>7. CASE op = "strip"
    BY <1>0, <1>2, <1>4, <1>7 DEF T!Strip, Shown, s
  <1> QED BY <1>5, <1>6, <1>7

(* What partition leaves of the two texts.                                  *)
SetTwo(d, u, e, r) == strings' = [strings EXCEPT ![d] = [@ EXCEPT !.text = u], ![e] = r]

LEMMA ShownTwo ==
    ASSUME Shaped, NEW d \in Names, NEW u, NEW e \in Names, NEW r, NEW t, r.text = t,
           SetTwo(d, u, e, r)
    PROVE  /\ Shown' = [Shown EXCEPT ![d] = u, ![e] = t]
           /\ u = Text(d) => T!Becomes(e, t)
  <1> DEFINE q == [strings[d] EXCEPT !.text = u]
             mid == [Shown EXCEPT ![d] = u]
  <1>1. q.text = u
    BY RecIs DEF Shaped
  <1>2. strings' = [strings EXCEPT ![d] = q, ![e] = r]
    BY DEF SetTwo
  <1> HIDE DEF q
  <1>3. \A n \in Names : strings'[n] = IF n = e THEN r ELSE IF n = d THEN q ELSE strings[n]
    BY <1>2 DEF Shaped
  <1>4. Shown' = [n \in Names |-> strings'[n].text] /\ Shown = [n \in Names |-> strings[n].text]
    BY DEF Shown, Text
  <1>5. mid = [n \in Names |-> mid[n]] /\ \A n \in Names : mid[n] = IF n = d THEN u ELSE strings[n].text
    BY <1>4
  <1> HIDE DEF mid
  <1>6. ASSUME NEW n \in Names PROVE strings'[n].text = IF n = e THEN t ELSE mid[n]
    <2>1. mid[n] = IF n = d THEN u ELSE strings[n].text
      BY <1>5
    <2>2. CASE n = e
      BY <1>3, <2>2
    <2>3. CASE n # e /\ n = d
      BY <1>1, <1>3, <2>1, <2>3
    <2>4. CASE n # e /\ n # d
      BY <1>3, <2>1, <2>4
    <2> QED BY <2>2, <2>3, <2>4
  <1>7. Shown' = [mid EXCEPT ![e] = t]
    BY <1>4, <1>5, <1>6
  <1>8. u = Text(d) => mid = Shown
    BY <1>4, <1>5 DEF Text
  <1> QED BY <1>7, <1>8 DEF T!Becomes, Shown, mid

(* Where there is a separator the text is cut, where there is none behind   *)
(* its end the other is emptied.                                            *)
LEMMA CutAtCuts ==
    ASSUME Shaped, NEW d \in live, NEW sep \in Seq(Nat), NEW p \in 0 .. Len(Text(d)) - Len(sep),
           NEW x \in live \cup {NULL}, CutAt(d, p, sep, x), NEW c, Calling(c)
    PROVE  /\ p < Len(Text(d)) - Len(sep) => T!Cut(c, d, sep, x, p)
           /\ p = Len(Text(d)) - Len(sep) => T!Whole(c, x)
  <1> DEFINE s == Text(d)
             n == Len(s) - Len(sep) - p
             t == Window(s, p + Len(sep), n)
             y == strings[x]
  <1>1. s \in Seq(Nat) /\ Len(s) \in Nat /\ Len(sep) \in Nat /\ d \in Names /\ Shown[d] = s
        /\ s = strings[d].text
    BY StringIs, ShownIs
  <1>2. p \in Nat /\ n \in Nat /\ p + Len(sep) \in Nat /\ (p + Len(sep)) + n <= Len(s)
        /\ (p < Len(s) - Len(sep) => n > 0) /\ (p = Len(s) - Len(sep) => n = 0)
    <2> DEFINE l == Len(s)
               m == Len(sep)
    <2>1. l \in Nat /\ m \in Nat /\ p \in 0 .. l - m /\ n = l - m - p
      BY <1>1
    <2> HIDE DEF s, l, m, n
    <2>2. p \in Nat /\ n \in Nat /\ p + m \in Nat /\ (p + m) + n <= l
          /\ (p < l - m => n > 0) /\ (p = l - m => n = 0)
      BY <2>1
    <2> QED BY <2>2 DEF l, m
  <1>3. t \in Seq(Nat) /\ Len(t) = n /\ (t = <<>> <=> n = 0)
    <2> DEFINE a == p + Len(sep)
    <2>0. s \in Seq(Nat) /\ a \in Nat /\ n \in Nat /\ a + n <= Len(s)
      BY <1>1, <1>2
    <2> HIDE DEF s, n, a
    <2>1. Window(s, a, n) \in Seq(Nat) /\ Len(Window(s, a, n)) = n
      BY <2>0, WindowIs
    <2> HIDE DEF t
    <2>2. t \in Seq(Nat) /\ Len(t) = n
      BY <2>1 DEF t, a
    <2> QED BY <2>2
  <1>4. T!Window(s, p + Len(sep), n) = t
    BY SameWords
  <1>5. CASE UNCHANGED strings /\ ret' = Len(t)
    <2>1. T!Looks(c, Len(t))
      BY <1>5, ReadsLooks
    <2>2. T!Cut(c, d, sep, x, p)
      BY <1>1, <1>4, <2>1 DEF T!Cut, T!Looks, Shown
    <2>3. n = 0 => T!Whole(c, x)
      <3> HIDE DEF t, n
      <3> QED BY <1>3, <2>1 DEF T!Whole
    <2> QED BY <1>2, <2>2, <2>3
  <1>6. CASE /\ x # NULL /\ Mutable(y) /\ CanHold(y, Len(t)) /\ ret' = 0
             /\ strings' = [strings EXCEPT ![d].text = IF t = <<>> THEN @ ELSE SubSeq(@, 1, p),
                                           ![x] = Written(y, t)]
    <2> DEFINE r == Written(y, t)
               u == IF t = <<>> THEN s ELSE SubSeq(s, 1, p)
    <2>1. x \in live /\ y \in Rec /\ Sound(y) /\ x \in Names
      BY <1>6, StringIs
    <2>2. r.text = t
      <3> HIDE DEF t, y
      <3> QED BY <1>3, <1>6, <2>1, WrittenIs
    <2>3. SetTwo(d, u, x, r)
      BY <1>1, <1>6 DEF SetTwo
    <2>4. T!Says(c, 0)
      BY <1>6, CallingSays
    <2> HIDE DEF r, t, y, n
    <2>5. Shown' = [Shown EXCEPT ![d] = u, ![x] = t] /\ (u = s => T!Becomes(x, t))
      <3> HIDE DEF u
      <3>1. /\ Shown' = [Shown EXCEPT ![d] = u, ![x] = t]
            /\ u = Text(d) => T!Becomes(x, t)
        <4>1. d \in Names /\ x \in Names
          BY <1>1, <2>1
        <4>2. \A v \in {u} : \A q \in {r} : \A w \in {t} : SetTwo(d, v, x, q) /\ q.text = w =>
                 Shown' = [Shown EXCEPT ![d] = v, ![x] = w] /\ (v = Text(d) => T!Becomes(x, w))
          BY <4>1, ShownTwo
        <4> QED BY <2>2, <2>3, <4>2
      <3> QED BY <3>1
    <2>6. n > 0 => T!Cut(c, d, sep, x, p)
      <3> SUFFICES ASSUME n > 0 PROVE T!Cut(c, d, sep, x, p)
        OBVIOUS
      <3>1. u = SubSeq(Shown[d], 1, p)
        <4>1. t # <<>>
          BY <1>2, <1>3
        <4> HIDE DEF s
        <4> QED BY <1>1, <4>1
      <3>2. Shown' = [Shown EXCEPT ![d] = SubSeq(@, 1, p), ![x] = t]
        <4> HIDE DEF u, s
        <4> QED BY <2>5, <3>1
      <3>3. T!Window(Shown[d], p + Len(sep), Len(Shown[d]) - Len(sep) - p) = t
        BY <1>1, <1>4 DEF n
      <3> QED BY <1>6, <2>4, <3>2, <3>3 DEF T!Cut, Shown
    <2>7. n = 0 => T!Whole(c, x)
      <3> SUFFICES ASSUME n = 0 PROVE T!Whole(c, x)
        OBVIOUS
      <3>1. t = <<>>
        BY <1>3
      <3>2. T!Becomes(x, <<>>)
        BY <2>5, <3>1
      <3> QED BY <1>6, <2>4, <3>2 DEF T!Whole
    <2> QED BY <1>2, <2>6, <2>7
  <1> QED BY <1>5, <1>6 DEF CutAt, Returns

LEMMA NotCutWhole ==
    ASSUME Shaped, NEW x \in live \cup {NULL}, NotCut(x), NEW c, Calling(c)
    PROVE  T!Whole(c, x)
  <1>1. ret' = 0
    BY DEF NotCut, Returns
  <1>2. CASE x = NULL
    <2>1. T!Looks(c, 0)
      BY <1>1, <1>2, ReadsLooks DEF NotCut
    <2> QED BY <2>1 DEF T!Whole
  <1>3. CASE x # NULL
    <2> DEFINE r == [strings[x] EXCEPT !.text = <<>>]
    <2>1. x \in live
      BY <1>3
    <2>2. x \in Names /\ strings[x] \in Rec /\ Set(x, r)
      BY <1>3, <2>1, StringIs DEF NotCut
    <2>3. r.text = <<>>
      BY <2>2, RecIs
    <2> HIDE DEF r
    <2>4. T!Becomes(x, <<>>) /\ T!Says(c, 0)
      BY <1>1, <2>2, <2>3, ShownBecomes, CallingSays
    <2> QED BY <1>3, <2>4 DEF T!Whole
  <1> QED BY <1>2, <1>3

LEMMA PartitionParts ==
    ASSUME Shaped, NEW d \in live, NEW sep \in caller.words, NEW x \in live \cup {NULL},
           Partition(d, sep, x)
    PROVE  T!Partition(d, sep, x)
  <1> DEFINE c == <<"partition", d, sep, x>>
             s == Text(d)
             found == IF sep = NULL THEN {} ELSE T!Occurrences(s, sep, 0, Len(s))
             first == T!FirstOf(found)
  <1>1. s \in Seq(Nat) /\ Len(s) \in Nat /\ d \in Names /\ Shown[d] = s /\ Calling(c)
        /\ (sep # NULL => sep \in Seq(Nat) /\ Len(sep) \in Nat)
    BY StringIs, ShownIs, CallerIs DEF Partition, Words
  <1>2. T!Partition(d, sep, x) <=>
           \/ first >= 0 /\ T!Cut(c, d, sep, x, first)
           \/ (first = -1 \/ first + Len(sep) = Len(s)) /\ T!Whole(c, x)
    <2> HIDE DEF s
    <2> QED BY <1>1, Zenon DEF T!Partition, T!Separators, Shown
  <1>3. (sep # NULL => found = Occurrences(s, sep, 0, Len(s))) /\ first = FirstOf(found)
    BY SameWords
  <1> HIDE DEF c, first
  <1>4. CASE sep = NULL \/ sep = <<>> \/ Len(s) < Len(sep)
    <2>1. found = {}
      <3>1. CASE sep = NULL
        BY <3>1
      <3>2. CASE sep # NULL /\ sep = <<>>
        BY <1>3, <3>2 DEF Occurrences
      <3>3. CASE sep # NULL /\ sep # <<>> /\ Len(s) < Len(sep)
        <4> DEFINE l == Len(s)
                   n == Len(sep)
        <4>1. 0 .. l - n = {}
          <5>1. l \in Nat /\ n \in Nat /\ l < n
            BY <1>1, <3>3
          <5> HIDE DEF l, n
          <5> QED BY <5>1
        <4> HIDE DEF found
        <4> QED BY <1>3, <3>3, <4>1 DEF Occurrences
      <3> QED BY <1>4, <3>1, <3>2, <3>3
    <2>2. NotCut(x)
      BY <1>4 DEF Partition
    <2>3. T!Whole(c, x)
      BY <1>1, <2>2, NotCutWhole
    <2>4. first = -1
      BY <1>3, <2>1, FirstOfIs
    <2> QED BY <1>2, <2>3, <2>4
  <1>5. CASE ~ (sep = NULL \/ sep = <<>> \/ Len(s) < Len(sep))
    <2> DEFINE e == Len(s) - Len(sep)
               P == {p \in 0 .. e : p = e \/ Occurs(s, sep, p)}
               at == PartitionAt(s, sep)
    <2>1. e \in Nat /\ sep # NULL /\ sep \in Seq(Nat) /\ sep # <<>> /\ e + Len(sep) = Len(s)
      BY <1>1, <1>5
    <2>2. CutAt(d, at, sep, x)
      BY <1>5 DEF Partition
    <2>3. at = Min(P) /\ at \in 0 .. e
      <3>1. Len(sep) <= Len(s)
        BY <1>1, <1>5
      <3>2. at \in 0 .. e
        BY <1>1, <2>1, <3>1, PlacesOfCuts
      <3> QED BY <3>2 DEF PartitionAt
    <2>4. found = {p \in 0 .. e : Occurs(s, sep, p)}
      <3> HIDE DEF found, e
      <3> QED BY <1>3, <2>1, SMTT(30) DEF Occurrences
    <2>5. /\ at < e => T!Cut(c, d, sep, x, at)
          /\ at = e => T!Whole(c, x)
      BY <1>1, <2>1, <2>2, <2>3, CutAtCuts, Zenon
    <2> HIDE DEF e, P, at, s, found
    <2>6. P \in SUBSET Nat /\ e \in P /\ (\A p \in P : p # e => p \in found) /\ found \subseteq P
      <3>1. e \in 0 .. e
        BY <2>1
      <3> QED BY <2>4, <3>1 DEF P
    <2>7. at \in P /\ \A p \in P : at <= p
      <3>1. \E m \in P : \A p \in P : m <= p
        BY <2>6, LeastOfSet
      <3> QED BY <2>3, <3>1 DEF Min
    <2>8. CASE at = e
      <3>1. \A p \in found : p = e
        <4>1. \A p \in found : p \in 0 .. e /\ e <= p
          BY <2>4, <2>6, <2>7, <2>8
        <4> QED BY <2>1, <4>1
      <3>2. first = -1 \/ first = e
        <4>1. found \in SUBSET Nat
          BY <2>6
        <4> QED BY <1>3, <3>1, <4>1, FirstOfIs
      <3> QED BY <1>2, <2>1, <2>5, <2>8, <3>2
    <2>9. CASE at # e
      <3>1. at \in found /\ at < e
        BY <2>1, <2>3, <2>6, <2>7, <2>9
      <3>2. first = at /\ at >= 0
        <4>1. found \in SUBSET Nat /\ \A p \in found : at <= p
          BY <2>6, <2>7
        <4>2. FirstOf(found) = at
          BY <3>1, <4>1, FirstOfIs
        <4> QED BY <1>3, <2>3, <4>2
      <3> QED BY <1>2, <2>5, <3>1, <3>2
    <2> QED BY <2>8, <2>9
  <1> QED BY <1>4, <1>5

LEMMA RpartitionParts ==
    ASSUME Shaped, NEW d \in live, NEW sep \in caller.words, NEW x \in live \cup {NULL},
           Rpartition(d, sep, x)
    PROVE  T!Rpartition(d, sep, x)
  <1> DEFINE c == <<"rpartition", d, sep, x>>
             s == Text(d)
             found == IF sep = NULL THEN {} ELSE T!Occurrences(s, sep, 0, Len(s))
             last == T!LastOf(found)
  <1>1. s \in Seq(Nat) /\ Len(s) \in Nat /\ d \in Names /\ Shown[d] = s /\ Calling(c)
        /\ (sep # NULL => sep \in Seq(Nat) /\ Len(sep) \in Nat)
    BY StringIs, ShownIs, CallerIs DEF Rpartition, Words
  <1>2. T!Rpartition(d, sep, x) <=>
           \/ last >= 0 /\ T!Cut(c, d, sep, x, last)
           \/ (last \in {-1, 0} \/ last + Len(sep) = Len(s)) /\ T!Whole(c, x)
    <2> HIDE DEF s
    <2> QED BY <1>1, Zenon DEF T!Rpartition, T!Separators, Shown
  <1>3. (sep # NULL => found = Occurrences(s, sep, 0, Len(s))) /\ last = LastOf(found)
    BY SameWords
  <1> HIDE DEF c, last
  <1>4. CASE sep = NULL \/ sep = <<>> \/ Len(s) < Len(sep)
    <2>1. found = {}
      <3>1. CASE sep = NULL
        BY <3>1
      <3>2. CASE sep # NULL /\ sep = <<>>
        BY <1>3, <3>2 DEF Occurrences
      <3>3. CASE sep # NULL /\ sep # <<>> /\ Len(s) < Len(sep)
        <4> DEFINE l == Len(s)
                   n == Len(sep)
        <4>1. 0 .. l - n = {}
          <5>1. l \in Nat /\ n \in Nat /\ l < n
            BY <1>1, <3>3
          <5> HIDE DEF l, n
          <5> QED BY <5>1
        <4> HIDE DEF found
        <4> QED BY <1>3, <3>3, <4>1 DEF Occurrences
      <3> QED BY <1>4, <3>1, <3>2, <3>3
    <2>2. NotCut(x)
      BY <1>4 DEF Rpartition
    <2>3. T!Whole(c, x)
      BY <1>1, <2>2, NotCutWhole
    <2>4. last = -1
      BY <1>3, <2>1, LastOfIs
    <2> QED BY <1>2, <2>3, <2>4
  <1>5. CASE ~ (sep = NULL \/ sep = <<>> \/ Len(s) < Len(sep))
    <2> DEFINE e == Len(s) - Len(sep)
               P == {p \in 0 .. e : p = 0 \/ Occurs(s, sep, p)}
               at == RpartitionAt(s, sep)
    <2>1. e \in Nat /\ sep # NULL /\ sep \in Seq(Nat) /\ sep # <<>> /\ Len(sep) \in Nat
      BY <1>1, <1>5
    <2>2. at = Max(P) /\ at \in 0 .. e
      <3>1. Len(sep) <= Len(s)
        BY <1>1, <1>5
      <3>2. at \in 0 .. e
        BY <1>1, <2>1, <3>1, PlacesOfCuts
      <3> QED BY <3>2 DEF RpartitionAt
    <2>3. found = {p \in 0 .. e : Occurs(s, sep, p)}
      <3> HIDE DEF found
      <3> QED BY <1>3, <2>1 DEF Occurrences
    <2>4. \A p \in Nat : p + Len(sep) = Len(s) <=> p = e
      BY <1>1, <2>1
    <2>5. CASE at = 0
      <3>1. NotCut(x)
        BY <2>5 DEF Rpartition, CutAt, s
      <3> QED
        <4>1. \A p \in found : p = 0
          <5> HIDE DEF e, at, s, found, P
          <5>1. P \in SUBSET (0 .. e) /\ 0 \in P
            BY <2>1 DEF P
          <5>2. \A p \in P : p <= at
            <6>1. PICK m \in P : \A p \in P : p <= m
              BY <2>1, <5>1, GreatestOfSet
            <6>2. \A p \in P : m >= p
              BY <2>1, <5>1, <6>1
            <6>3. \A p \in P : at >= p
              BY <2>2, <6>2 DEF Max
            <6> QED BY <2>1, <2>2, <5>1, <6>3
          <5>3. \A p \in found : p \in 0 .. e /\ p \in P
            BY <2>1, <2>3 DEF P
          <5> QED BY <2>1, <2>5, <5>2, <5>3
        <4>2. T!Whole(c, x)
          BY <1>1, <3>1, NotCutWhole
        <4>3. last \in {-1, 0}
          <5> HIDE DEF e, at, s, P
          <5>1. found \in SUBSET (0 .. e)
            BY <2>3
          <5> HIDE DEF found
          <5> QED BY <1>3, <2>1, <4>1, <5>1, LastOfIs
        <4> QED BY <1>2, <4>2, <4>3
    <2>6. CASE at # 0
      <3>1. CutAt(d, at, sep, x)
        BY <1>5, <2>6 DEF Rpartition
      <3>2. /\ at < e => T!Cut(c, d, sep, x, at)
            /\ at = e => T!Whole(c, x)
        BY <1>1, <2>1, <2>2, <3>1, CutAtCuts
      <3> HIDE DEF e, at, s, found, P
      <3>3. P \in SUBSET (0 .. e) /\ 0 \in P
        BY <2>1 DEF P
      <3>4. at \in P /\ \A p \in P : p <= at
        <4>1. PICK m \in P : \A p \in P : p <= m
          BY <2>1, <3>3, GreatestOfSet
        <4>2. \A p \in P : m >= p
          BY <2>1, <3>3, <4>1
        <4>3. at \in P /\ \A p \in P : at >= p
          BY <2>2, <4>2 DEF Max
        <4> QED BY <2>1, <2>2, <3>3, <4>3
      <3>5. at \in found /\ \A p \in found : p <= at
        <4>1. at \in 0 .. e
          BY <2>2
        <4>2. Occurs(s, sep, at)
          BY <2>6, <3>4 DEF P
        <4>3. found \subseteq P
          BY <2>1, <2>3 DEF P
        <4> QED BY <2>3, <3>4, <4>1, <4>2, <4>3
      <3>6. last = at
        <4>1. found \in SUBSET (0 .. e)
          BY <2>1, <2>3
        <4>2. LastOf(found) = at
          BY <2>1, <3>5, <4>1, LastOfIs
        <4> QED BY <1>3, <4>2
      <3>7. at \in Nat /\ (at < e \/ at = e)
        BY <2>1, <2>2
      <3>8. at >= 0 /\ (at + Len(sep) = Len(s) <=> at = e)
        BY <2>4, <3>7
      <3> QED BY <1>2, <3>2, <3>6, <3>7, <3>8
    <2> QED BY <2>5, <2>6
  <1> QED BY <1>4, <1>5

LEMMA SameSequences ==
    /\ \A ps : T!FlattenSeq(ps) = FlattenSeq(ps)
    /\ \A s, n : T!Expanded(s, 9, n, 32) = Expanded(s, TAB, n, SPACE)
  <1>1. \A ps : T!FlattenSeq(ps) = FlattenSeq(ps)
    BY Zenon DEF T!FlattenSeq, FlattenSeq
  <1>2. ASSUME NEW s, NEW n PROVE T!Expanded(s, 9, n, 32) = Expanded(s, TAB, n, SPACE)
    BY <1>1, Zenon DEF T!Expanded, Expanded, TAB, SPACE
  <1> QED BY <1>1, <1>2

(* What is stored is then there, and the rest is as it was.                 *)
LEMMA StoredPuts ==
    ASSUME NEW m \in Nat, NEW b \in Bufs(m), b.ok, NEW to \in Nat, NEW t \in Seq(Nat),
           to + Len(t) <= m
    PROVE  /\ \A k \in 1 .. Len(t) : Stored(b, to, t).cells[to + k - 1] = t[k]
           /\ \A i \in to + Len(t) .. m - 1 : Stored(b, to, t).cells[i] = b.cells[i]
  <1> DEFINE n == Len(t)
             c == [i \in 0 .. m - 1 |-> IF i \in to .. to + n - 1 THEN t[i - to + 1] ELSE b.cells[i]]
             r == [b EXCEPT !.cells = c]
  <1>0. n \in Nat /\ to + n <= m
    OBVIOUS
  <1>1. Stored(b, to, t) = r
    <2>1. Covers(b, to, n)
      <3> HIDE DEF n
      <3> QED BY <1>0, CoversWithin
    <2> QED BY <2>1, BufIs DEF Stored
  <1>2. \A i \in to + n .. m - 1 : c[i] = b.cells[i]
    <2> HIDE DEF n
    <2>1. \A i \in to + n .. m - 1 : i \in 0 .. m - 1 /\ i \notin to .. to + n - 1
      BY <1>0
    <2> QED BY <2>1
  <1>3. \A k \in 1 .. n : c[to + k - 1] = t[k]
    <2> HIDE DEF n
    <2>1. ASSUME NEW k \in 1 .. n
          PROVE  to + k - 1 \in 0 .. m - 1 /\ to + k - 1 \in to .. to + n - 1
                 /\ (to + k - 1) - to + 1 = k
      BY <1>0
    <2> QED BY <2>1
  <1>4. r.cells = c
    <2> HIDE DEF c
    <2>1. DOMAIN b = {"cells", "ok"}
      BY DEF Bufs
    <2> QED BY <2>1
  <1> HIDE DEF r, c
  <1> QED BY <1>1, <1>2, <1>3, <1>4

LEMMA TabStepWrites ==
    ASSUME NEW m \in Nat, NEW t \in Seq(Nat), NEW n \in Nat \ {0}, NEW r \in 1 .. Len(t), NEW v,
           TabsToGo(v, m, t, r, n), Len(t) <= m,
           NEW p \in Seq(Nat), Len(p) = r - 1 + TabsIn(t, r - 1) * (n - 1),
           NEW w \in Seq(Nat), Len(w) <= m, Begins(w, p \o Widened(t[r], n)), TextFrom(v, w)
    PROVE  /\ TextFrom(TabStep(r - 1, v, n), w)
           /\ Len(p \o Widened(t[r], n)) = r + TabsIn(t, r) * (n - 1)
  <1> DEFINE x == Widened(t[r], n)
             b == v.buf
             a == Len(p)
             got == TabStep(r - 1, v, n)
             e == n - 1
             tabs == TabsIn(t, r - 1)
  <1>0. /\ b \in Bufs(m) /\ b.ok /\ v.write \in Int /\ v.write <= m
        /\ v.write = r + TabsIn(t, r) * e
        /\ b.cells[r - 1] = t[r] /\ t[r] \in Nat /\ r \in Nat /\ r >= 1
    <2>1. r \in 1 .. r /\ r \in Nat /\ r >= 1
      OBVIOUS
    <2> QED BY <2>1 DEF TabsToGo
  <1>1. x \in Seq(Nat) /\ Len(x) = IF t[r] = TAB THEN n ELSE 1
    BY <1>0, WidenedIs
  <1>2. tabs \in Nat /\ TabsIn(t, r) = tabs + (IF t[r] = TAB THEN 1 ELSE 0)
    <2> DEFINE q == r - 1
    <2>1. q \in Nat /\ q + 1 = r
      BY <1>0
    <2> HIDE DEF q
    <2>2. TabsIn(t, q) \in Nat /\ TabsIn(t, q + 1) = TabsIn(t, q) + (IF t[q + 1] = TAB THEN 1 ELSE 0)
      BY <2>1, TabsAre
    <2> QED BY <2>1, <2>2 DEF q
  <1>3. a \in Nat /\ Len(x) \in Nat /\ Len(p \o x) = a + Len(x)
    <2>1. x \in Seq(Nat)
      BY <1>1
    <2> HIDE DEF x
    <2>2. Len(p \o x) = Len(p) + Len(x) /\ Len(p) \in Nat /\ Len(x) \in Nat
      BY ONLY <2>1, p \in Seq(Nat)
    <2> QED BY <2>2
  <1>4. a + Len(x) = r + TabsIn(t, r) * e
    <2> DEFINE y == tabs * e
               z == (tabs + 1) * e
    <2>1. e \in Nat /\ n = e + 1
      OBVIOUS
    <2>2. a = r - 1 + y
      OBVIOUS
    <2> HIDE DEF e, tabs, a, x
    <2>3. y \in Nat /\ z = y + e /\ tabs + 0 = tabs
      BY <1>2, <2>1
    <2>4. CASE t[r] = TAB
      <3>1. TabsIn(t, r) * e = z /\ Len(x) = e + 1
        BY <1>1, <1>2, <2>1, <2>4
      <3> HIDE DEF y, z
      <3> QED BY <1>0, <2>1, <2>2, <2>3, <3>1
    <2>5. CASE t[r] # TAB
      <3>1. TabsIn(t, r) * e = y /\ Len(x) = 1
        BY <1>1, <1>2, <2>3, <2>5
      <3> HIDE DEF y, z
      <3> QED BY <1>0, <2>1, <2>2, <2>3, <3>1
    <2> QED BY <2>4, <2>5
  <1>5. v.write = a + Len(x) /\ v.write - Len(x) = a
    <2> HIDE DEF a, x, e
    <2>1. v.write = a + Len(x)
      BY <1>0, <1>4, Zenon
    <2> QED BY <1>3, <2>1
  <1>6. got = [buf |-> Stored(b, a, x), write |-> a]
    <2>1. r - 1 # -1
      BY <1>0
    <2>2. got = [buf |-> Stored(b, v.write - Len(x), x), write |-> v.write - Len(x)]
      BY <1>0, <2>1, Zenon DEF TabStep
    <2> QED BY <1>5, <2>2, Zenon
  <1> HIDE DEF got, x, b
  <1>7. /\ \A k \in 1 .. Len(x) : Stored(b, a, x).cells[a + k - 1] = x[k]
        /\ \A i \in a + Len(x) .. m - 1 : Stored(b, a, x).cells[i] = b.cells[i]
    <2>0. v.write <= m
      BY <1>0
    <2>1. a + Len(x) <= m
      BY ONLY <2>0, <1>5
    <2>2. b \in Bufs(m) /\ b.ok /\ x \in Seq(Nat) /\ a \in Nat
      BY <1>0, <1>1, <1>3
    <2> HIDE DEF a
    <2> QED BY ONLY <2>1, <2>2, m \in Nat, StoredPuts
  <1>8. ASSUME NEW i \in a .. Len(w) - 1 PROVE Stored(b, a, x).cells[i] = w[i + 1]
    <2> DEFINE l == Len(x)
               wl == Len(w)
    <2>1. i \in Int /\ a <= i /\ i <= wl - 1 /\ wl \in Nat /\ l \in Nat /\ a \in Nat /\ wl <= m
      BY <1>3
    <2>2. CASE i < a + l
      <3> DEFINE k == (i - a) + 1
      <3>1. k \in 1 .. l /\ a + k - 1 = i /\ a + k = i + 1 /\ a + k \in 1 .. a + l
        <4> HIDE DEF l, wl, a
        <4> QED BY <2>1, <2>2
      <3> HIDE DEF k
      <3>2. Stored(b, a, x).cells[i] = x[k]
        BY <1>7, <3>1
      <3>3. w[a + k] = (p \o x)[a + k]
        <4> DEFINE y == p \o x
        <4>1. Len(y) = a + l /\ Begins(w, y)
          BY <1>3 DEF x
        <4> HIDE DEF y, a, l
        <4>2. \A j \in 1 .. a + l : w[j] = y[j]
          BY <4>1 DEF Begins
        <4> QED BY <3>1, <4>2 DEF y
      <3>4. (p \o x)[a + k] = x[k]
        <4>1. x \in Seq(Nat) /\ k \in 1 .. Len(x)
          BY <1>1, <3>1
        <4> QED BY <4>1, BehindFirst
      <3> QED BY <3>1, <3>2, <3>3, <3>4
    <2>3. CASE i >= a + l
      <3>1. i \in a + l .. m - 1 /\ i \in v.write .. wl - 1
        <4>1. v.write = a + l
          BY <1>5
        <4> HIDE DEF l, wl, a
        <4> QED BY <2>1, <2>3, <4>1
      <3>2. Stored(b, a, x).cells[i] = b.cells[i]
        BY <1>7, <3>1
      <3>3. b.cells[i] = w[i + 1]
        BY <3>1 DEF TextFrom, b
      <3> QED BY <3>2, <3>3
    <2> HIDE DEF l
    <2>4. i < a + l \/ i >= a + l
      BY <2>1
    <2> QED BY <2>2, <2>3, <2>4
  <1>9. TextFrom(got, w)
    <2>1. got.write = a /\ got.buf = Stored(b, a, x)
      BY <1>6
    <2> HIDE DEF a
    <2> QED BY <1>8, <2>1 DEF TextFrom
  <1> QED BY <1>3, <1>4, <1>9 DEF got, x

(* What a text becomes, character by character.                             *)
LEMMA ExpandedAdds ==
    ASSUME NEW t \in Seq(Nat), NEW n \in Nat \ {0}
    PROVE  \E f : /\ \A r \in 0 .. Len(t) :
                        /\ f[r] \in Seq(Nat) /\ Begins(Expanded(t, TAB, n, SPACE), f[r])
                        /\ Len(f[r]) = r + TabsIn(t, r) * (n - 1)
                  /\ \A r \in 1 .. Len(t) : f[r] = f[r - 1] \o Widened(t[r], n)
                  /\ f[0] = <<>> /\ f[Len(t)] = Expanded(t, TAB, n, SPACE)
  <1> DEFINE ps == [i \in 1 .. Len(t) |-> Widened(t[i], n)]
             w == Expanded(t, TAB, n, SPACE)
             l == Len(t)
             at(r) == r + TabsIn(t, r) * (n - 1)
  <1>0. l \in Nat /\ DOMAIN t = 1 .. l
    OBVIOUS
  <1>1. w = FlattenSeq(ps)
    BY <1>0, Zenon DEF Expanded, Widened
  <1>2. ps \in Seq(Seq(Nat)) /\ Len(ps) = l
    <2>1. ASSUME NEW i \in 1 .. Len(t) PROVE Widened(t[i], n) \in Seq(Nat)
      <3>1. t[i] \in Nat
        OBVIOUS
      <3> QED BY <3>1, WidenedIs
    <2> QED BY <1>0, <2>1
  <1> HIDE DEF ps, w
  <1>3. PICK f : Adds(f, ps) /\ w = f[l]
    BY <1>1, <1>2, FlattenAdds
  <1>4. /\ \A r \in 0 .. l : f[r] \in Seq(Nat) /\ Begins(w, f[r])
        /\ \A r \in 1 .. l : f[r] = f[r - 1] \o Widened(t[r], n)
        /\ f[0] = <<>>
    <2>1. \A r \in 0 .. Len(ps) : Begins(f[Len(ps)], f[r])
      BY <1>2, <1>3, AddsBegins
    <2>2. \A r \in 1 .. l : ps[r] = Widened(t[r], n)
      BY DEF ps
    <2> QED BY <1>2, <1>3, <2>1, <2>2 DEF Adds
  <1>5. ASSUME NEW r \in 1 .. l, Len(f[r - 1]) = at(r - 1) PROVE Len(f[r]) = at(r)
    <2>1. r - 1 \in 0 .. l /\ r - 1 \in Nat /\ (r - 1) + 1 = r /\ t[r] \in Nat
      BY <1>0
    <2> DEFINE q == r - 1
               x == Widened(t[r], n)
               e == n - 1
               k == TabsIn(t, q)
    <2>2. /\ x \in Seq(Nat) /\ Len(x) = IF t[r] = TAB THEN n ELSE 1
          /\ f[q] \in Seq(Nat) /\ f[r] = f[q] \o x
      BY <1>4, <2>1, WidenedIs
    <2>3. Len(f[r]) = Len(f[q]) + Len(x)
      <3> DEFINE a == f[q]
      <3>1. a \in Seq(Nat) /\ x \in Seq(Nat) /\ f[r] = a \o x
        BY <2>2
      <3> HIDE DEF a, x
      <3>2. Len(a \o x) = Len(a) + Len(x)
        BY ONLY <3>1
      <3> QED BY <3>1, <3>2 DEF a
    <2> HIDE DEF x
    <2>4. k \in Nat /\ TabsIn(t, r) = k + (IF t[r] = TAB THEN 1 ELSE 0)
      <3>1. q \in Nat /\ q + 1 = r
        BY <2>1
      <3> HIDE DEF q
      <3>2. TabsIn(t, q + 1) = TabsIn(t, q) + (IF t[q + 1] = TAB THEN 1 ELSE 0) /\ TabsIn(t, q) \in Nat
        BY <3>1, TabsAre
      <3> QED BY <3>1, <3>2
    <2> DEFINE y == k * e
               z == (k + 1) * e
    <2>5. e \in Nat /\ n = e + 1
      OBVIOUS
    <2>6. Len(f[q]) = q + y
      BY <1>5
    <2> HIDE DEF e, k
    <2>7. y \in Nat /\ z = y + e /\ k + 0 = k
      BY <2>4, <2>5
    <2>8. CASE t[r] = TAB
      <3>1. TabsIn(t, r) * e = z /\ Len(x) = e + 1
        BY <2>2, <2>4, <2>5, <2>8
      <3> HIDE DEF y, z
      <3>2. Len(f[r]) = r + z
        BY <2>1, <2>3, <2>5, <2>6, <2>7, <3>1
      <3> QED BY <3>1, <3>2 DEF e
    <2>9. CASE t[r] # TAB
      <3>1. TabsIn(t, r) * e = y /\ Len(x) = 1
        BY <2>2, <2>4, <2>7, <2>9
      <3> HIDE DEF y, z
      <3>2. Len(f[r]) = r + y
        BY <2>1, <2>3, <2>6, <2>7, <3>1
      <3> QED BY <3>1, <3>2 DEF e
    <2> QED BY <2>8, <2>9
  <1> HIDE DEF at
  <1>6. \A r \in 0 .. l : Len(f[r]) = at(r)
    <2> DEFINE S == {TRUE}
               lens == [r \in 0 .. l |-> Len(f[r]) = at(r)]
    <2>1. lens[0] \in S
      <3>1. 0 \in 0 .. l
        BY <1>0
      <3>2. at(0) = 0
        <4>1. TabsIn(t, 0) = 0
          BY TabsAre
        <4> QED BY <4>1 DEF at
      <3> QED BY <1>4, <3>1, <3>2
    <2>2. ASSUME NEW r \in 1 .. l, lens[r - 1] \in S PROVE lens[r] \in S
      <3>1. r \in 0 .. l /\ r - 1 \in 0 .. l
        BY <1>0
      <3> QED BY <1>5, <2>2, <3>1
    <2> HIDE DEF S, l
    <2>3. \A r \in 0 .. l : lens[r] \in S
      <3> HIDE DEF lens
      <3> QED BY <1>0, <2>1, <2>2, StaysIn
    <2> QED BY <2>3 DEF S
  <1> QED BY <1>3, <1>4, <1>6 DEF at, w

(* The buffer holds it in the end.                                          *)
LEMMA TabsWritten ==
    ASSUME NEW s \in Rec, NEW n \in Nat \ {0},
           Len(s.text) + TabsIn(s.text, Len(s.text)) * (n - 1) <= Room(s)
    PROVE  LET size == Len(s.text) + TabsIn(s.text, Len(s.text)) * (n - 1)
           IN  Content(TabsExpanded(s, size, n), size) = Expanded(s.text, TAB, n, SPACE)
  <1> DEFINE t == s.text
             l == Len(t)
             m == Room(s)
             at(r) == r + TabsIn(t, r) * (n - 1)
             size == at(l)
             w == Expanded(t, TAB, n, SPACE)
  <1>0. /\ t \in Seq(Nat) /\ l \in Nat /\ m \in Nat /\ l <= m /\ Buffer(s) \in Bufs(m)
        /\ \A k \in 1 .. l : Buffer(s).cells[k - 1] = t[k]
        /\ Buffer(s).ok
    BY RecIs, BufferIs DEF Buffer
  <1> HIDE DEF t, w
  <1>3. PICK f : /\ \A r \in 0 .. l : f[r] \in Seq(Nat) /\ Begins(w, f[r]) /\ Len(f[r]) = at(r)
                 /\ \A r \in 1 .. l : f[r] = f[r - 1] \o Widened(t[r], n)
                 /\ f[0] = <<>> /\ f[l] = w
    BY <1>0, ExpandedAdds DEF w
  <1>4. /\ \A r \in 0 .. l : at(r) \in Nat
        /\ at(0) = 0
    <2>1. ASSUME NEW r \in 0 .. l PROVE at(r) \in Nat
      <3> DEFINE e == n - 1
                 k == TabsIn(t, r)
      <3>0. e \in Nat /\ r \in Nat
        BY <1>0
      <3>1. e \in Nat /\ r \in Nat /\ k \in Nat
        BY <3>0, TabsAre
      <3> HIDE DEF e, k
      <3>2. k * e \in Nat
        BY <3>1
      <3>3. r + k * e \in Nat
        BY <3>1, <3>2
      <3> QED BY <3>3 DEF e, k
    <2>2. at(0) = 0
      <3>1. TabsIn(t, 0) = 0
        BY TabsAre
      <3> QED BY <3>1
    <2> QED BY <2>1, <2>2
  <1>5. size \in Nat /\ size <= m
    <2>1. l \in 0 .. l
      BY <1>0
    <2> HIDE DEF at, m
    <2>2. size \in Nat
      BY <1>4, <2>1
    <2>3. size <= m
      BY Zenon DEF at, m, t
    <2> QED BY <2>2, <2>3
  <1>5a. size \in Int /\ n \in Nat
    BY <1>5
  <1> HIDE DEF size
  <1>6. PICK from : TabSteps(from, s, size, n)
    <2> HIDE DEF at, l, m
    <2> QED BY <1>5a, TabsUnfold, Zenon
  <1>6a. /\ from[l] = [buf |-> Buffer(s), write |-> size]
         /\ \A read \in -1 .. l - 1 : from[read] = TabStep(read, from[read + 1], n)
         /\ \A read \in -1 .. l : from[read] \in [buf : Bufs(m), write : Int]
         /\ TabsExpanded(s, size, n) = from[-1].buf
    BY <1>6, Zenon DEF t, TabSteps
  <1> DEFINE S == {TRUE}
             h == [i \in 0 .. l |-> /\ TabsToGo(from[l - i], m, t, l - i, n)
                                    /\ TextFrom(from[l - i], w)]
  <1>7. TabsToGo(from[l], m, t, l, n)
    <2>1. /\ from[l] \in [buf : Bufs(m), write : Int]
          /\ from[l].buf = Buffer(s) /\ from[l].write = size
      <3> DEFINE z == [buf |-> Buffer(s), write |-> size]
      <3>1. z \in [buf : Bufs(m), write : Int] /\ z.buf = Buffer(s) /\ z.write = size
        BY <1>0, <1>5
      <3> HIDE DEF z
      <3> QED BY <1>6a, <3>1 DEF z
    <2>2. size = l + TabsIn(t, l) * (n - 1)
      BY DEF size
    <2> HIDE DEF m, l
    <2> QED BY <1>0, <1>5, <2>1, <2>2, Zenon DEF TabsToGo
  <1> HIDE DEF at
  <1>10. w \in Seq(Nat) /\ Len(w) = size
    <2>1. l \in 0 .. l
      BY <1>0
    <2> QED BY <1>3, <2>1 DEF size
  <1>11. h[0] \in S
    <2>1. 0 \in 0 .. l /\ l - 0 = l
      BY <1>0
    <2>2. from[l].write = size
      BY <1>6a
    <2>3. TextFrom(from[l], w)
      BY <1>5, <1>10, <2>2 DEF TextFrom
    <2> QED BY <1>7, <2>1, <2>3
  <1>12. ASSUME NEW i \in 1 .. l, h[i - 1] \in S PROVE h[i] \in S
    <2> DEFINE r == l - (i - 1)
    <2>1. r \in 1 .. l /\ r - 1 = l - i /\ i - 1 \in 0 .. l /\ i \in 0 .. l
          /\ l - i \in -1 .. l - 1 /\ (l - i) + 1 = r /\ r - 1 \in 0 .. l /\ r \in 0 .. l
      BY <1>0
    <2>2. TabsToGo(from[r], m, t, r, n) /\ TextFrom(from[r], w)
      BY <1>12, <2>1
    <2> HIDE DEF r
    <2>3. from[l - i] = TabStep(r - 1, from[r], n)
      BY <1>6a, <2>1
    <2>4. TabsToGo(TabStep(r - 1, from[r], n), m, t, r - 1, n)
      BY <1>0, <2>1, <2>2, TabStepGoes
    <2>5. TextFrom(TabStep(r - 1, from[r], n), w)
      <3> DEFINE p == f[r - 1]
      <3>1. p \in Seq(Nat) /\ Len(p) = r - 1 + TabsIn(t, r - 1) * (n - 1)
        BY <1>3, <2>1 DEF at
      <3>2. Begins(w, p \o Widened(t[r], n))
        BY <1>3, <2>1
      <3>3. w \in Seq(Nat) /\ Len(w) <= m
        BY <1>5, <1>10
      <3> HIDE DEF p, l, m
      <3>4. r \in 1 .. Len(t) /\ Len(t) <= m /\ m \in Nat /\ t \in Seq(Nat)
        BY <1>0, <2>1 DEF l
      <3> QED BY <2>2, <3>1, <3>2, <3>3, <3>4, TabStepWrites
    <2> QED BY <2>1, <2>3, <2>4, <2>5
  <1> HIDE DEF S
  <1>13. \A i \in 0 .. l : h[i] \in S
    <2> HIDE DEF h, l
    <2> QED BY <1>0, <1>11, <1>12, StaysIn
  <1>14. TabsToGo(from[0], m, t, 0, n) /\ TextFrom(from[0], w)
    <2>1. l \in 0 .. l /\ l - l = 0
      BY <1>0
    <2> QED BY <1>13, <2>1 DEF S
  <1>15. from[-1] = from[0]
    <2>1. -1 \in -1 .. l - 1 /\ -1 + 1 = 0
      BY <1>0
    <2>2. from[-1] = TabStep(-1, from[0], n)
      BY <1>6a, <2>1
    <2> QED BY <2>2 DEF TabStep
  <1>16. from[0].write = 0
    <2>1. from[0].write = at(0)
      BY <1>14 DEF TabsToGo, at
    <2> QED BY <1>4, <1>0, <2>1
  <1>17. \A k \in 1 .. size : from[0].buf.cells[k - 1] = w[k]
    <2> SUFFICES ASSUME NEW k \in 1 .. size PROVE from[0].buf.cells[k - 1] = w[k]
      OBVIOUS
    <2>1. k - 1 \in 0 .. size - 1 /\ (k - 1) + 1 = k
      BY <1>5
    <2> QED BY <1>10, <1>14, <1>16, <2>1 DEF TextFrom
  <1>18. Content(TabsExpanded(s, size, n), size) = [k \in 1 .. size |-> w[k]]
    BY <1>6a, <1>15, <1>17 DEF Content
  <1>19. w = [k \in 1 .. size |-> w[k]]
    <2> HIDE DEF size
    <2>1. DOMAIN w = 1 .. size
      BY <1>10
    <2> QED BY <1>10, <2>1
  <1> QED BY <1>18, <1>19, Zenon DEF size, at, w, t

LEMMA ExpandedIs ==
    ASSUME NEW t \in Seq(Nat), NEW n \in Nat \ {0}
    PROVE  LET w == Expanded(t, TAB, n, SPACE)
           IN  /\ w \in Seq(Nat) /\ Len(w) = Len(t) + TabsIn(t, Len(t)) * (n - 1)
               /\ n >= 2 /\ Len(w) = Len(t) => w = t
  <1> DEFINE w == Expanded(t, TAB, n, SPACE)
             l == Len(t)
  <1>0. l \in Nat /\ t \in Seq(Nat)
    OBVIOUS
  <1>1. PICK f : /\ \A r \in 0 .. l : /\ f[r] \in Seq(Nat) /\ Begins(w, f[r])
                                      /\ Len(f[r]) = r + TabsIn(t, r) * (n - 1)
                 /\ \A r \in 1 .. l : f[r] = f[r - 1] \o Widened(t[r], n)
                 /\ f[0] = <<>> /\ f[l] = w
    BY ExpandedAdds
  <1> HIDE DEF w
  <1>2. w \in Seq(Nat) /\ Len(w) = l + TabsIn(t, l) * (n - 1)
    <2>1. l \in 0 .. l
      BY <1>0
    <2> HIDE DEF l
    <2> QED BY <1>1, <2>1
  <1>3. ASSUME n >= 2, Len(w) = l PROVE w = t
    <2>1. TabsIn(t, l) = 0
      <3> DEFINE k == TabsIn(t, l)
                 e == n - 2
      <3>1. k \in Nat /\ e \in Nat /\ n - 1 = e + 1
        BY <1>0, <1>3, TabsAre
      <3>2. l = l + k * (n - 1)
        BY <1>2, <1>3
      <3> HIDE DEF k, e, l
      <3>3. k * (e + 1) = k * e + k /\ k * e \in Nat
        BY <3>1
      <3> DEFINE y == k * e
      <3> HIDE DEF y
      <3>4. l = l + (y + k) /\ y \in Nat
        BY <3>1, <3>2, <3>3 DEF y
      <3>5. k = 0
        BY <1>0, <3>1, <3>4
      <3> QED BY <3>5 DEF k
    <2>2. \A r \in 1 .. l : t[r] # TAB
      <3> DEFINE S == {k \in 1 .. l : t[k] = TAB}
      <3>1. IsFiniteSet(1 .. l)
        BY <1>0, FS_Interval
      <3>2. IsFiniteSet(S) /\ Cardinality(S) = 0
        BY <2>1, <3>1, FS_Subset DEF TabsIn
      <3> HIDE DEF S
      <3>3. S = {}
        BY <3>2, FS_EmptySet
      <3> QED BY <3>3 DEF S
    <2> DEFINE H == {TRUE}
               same(r) == Len(f[r]) = r /\ \A k \in 1 .. r : f[r][k] = t[k]
               h == [r \in 0 .. l |-> same(r)]
    <2>3. h[0] \in H
      <3>1. 0 \in 0 .. l /\ Len(f[0]) = 0 /\ 1 .. 0 = {}
        BY <1>0, <1>1
      <3> QED BY <3>1
    <2>4. ASSUME NEW r \in 1 .. l, same(r - 1) PROVE same(r)
      <3> DEFINE a == f[r - 1]
                 x == << t[r] >>
      <3>1. a \in Seq(Nat) /\ x \in Seq(Nat) /\ Len(x) = 1 /\ x[1] = t[r] /\ r - 1 \in 0 .. l
        <4>1. r - 1 \in 0 .. l /\ t[r] \in Nat
          BY <1>0
        <4> QED BY <1>1, <4>1
      <3>2. f[r] = a \o x
        <4>1. Widened(t[r], n) = x
          BY <2>2 DEF Widened
        <4> QED BY <1>1, <4>1
      <3>3. Len(a) = r - 1 /\ \A k \in 1 .. r - 1 : a[k] = t[k]
        BY <2>4
      <3> HIDE DEF a, x
      <3>4. r \in Nat /\ r >= 1
        BY <1>0
      <3>5. Len(a \o x) = r
        <4>1. a \in Seq(Nat) /\ x \in Seq(Nat)
          BY <3>1
        <4>2. Len(a \o x) = Len(a) + Len(x)
          BY ONLY <4>1
        <4> QED BY <3>1, <3>3, <3>4, <4>2
      <3>6. \A k \in 1 .. r : (a \o x)[k] = t[k]
        <4> SUFFICES ASSUME NEW k \in 1 .. r PROVE (a \o x)[k] = t[k]
          OBVIOUS
        <4>1. CASE k = r
          <5>0. a \in Seq(Nat) /\ x \in Seq(Nat) /\ 1 \in 1 .. Len(x)
            BY <3>1
          <5>1. (a \o x)[Len(a) + 1] = x[1]
            BY ONLY <5>0, BehindFirst
          <5>2. Len(a) + 1 = r
            BY <3>3, <3>4
          <5> QED BY <3>1, <4>1, <5>1, <5>2
        <4>2. CASE k # r
          <5>1. k \in 1 .. r - 1 /\ k \in 1 .. Len(a)
            BY <3>3, <3>4, <4>2
          <5>2. (a \o x)[k] = a[k]
            BY <3>1, <5>1
          <5> QED BY <3>3, <5>1, <5>2
        <4> QED BY <4>1, <4>2
      <3> QED BY <3>2, <3>5, <3>6
    <2> HIDE DEF same
    <2>5. ASSUME NEW r \in 1 .. l, h[r - 1] \in H PROVE h[r] \in H
      <3>1. r \in 0 .. l /\ r - 1 \in 0 .. l
        BY <1>0
      <3> QED BY <2>4, <2>5, <3>1
    <2> HIDE DEF H
    <2>6. \A r \in 0 .. l : h[r] \in H
      <3> HIDE DEF h, l
      <3> QED BY <1>0, <2>3, <2>5, StaysIn
    <2>7. same(l)
      <3>1. l \in 0 .. l
        BY <1>0
      <3> QED BY <2>6, <3>1 DEF H
    <2>8. \A k \in 1 .. l : w[k] = t[k]
      BY <1>1, <2>7 DEF same
    <2> HIDE DEF l
    <2>9. Len(w) = l /\ Len(t) = l
      BY <1>3 DEF l
    <2> QED BY <1>0, <1>2, <2>8, <2>9
  <1> QED BY <1>2, <1>3 DEF w

(* Where there are at least two spaces to a tab, expand_tabs does what the  *)
(* header says.                                                             *)
LEMMA ExpandTabsExpands ==
    ASSUME Shaped, NEW d \in live, NEW n \in caller.numbers \cap 0 .. 255, ExpandTabs(d, n)
    PROVE  T!ExpandTabs(d, n)
  <1> DEFINE s == strings[d]
             c == <<"expand_tabs", d, n>>
             tabs == Cardinality({k \in DOMAIN s.text : s.text[k] = TAB})
             size == Len(s.text) + tabs * (n - 1)
             q == WithRoom(s, size)
             b == TabsExpanded(q, size, n)
             w == Expanded(s.text, TAB, n, SPACE)
             r == [q EXCEPT !.text = Content(b, size)]
  <1>10. CASE n < 2
    <2>1. Calling(c) /\ ((\E x : Set(d, x)) \/ UNCHANGED strings)
      BY Zenon DEF ExpandTabs, Rewrite
    <2>2. T!Open(c, {d})
      <3> HIDE DEF c
      <3> QED BY <2>1, ChangesOne, LeavesOpen
    <2> QED BY <1>10, <2>2, Zenon DEF T!ExpandTabs
  <1> SUFFICES ASSUME ~ (n < 2) PROVE T!ExpandTabs(d, n)
    BY <1>10
  <1>0. /\ Calling(c) /\ n \in Nat \ {0} /\ s \in Rec /\ Sound(s) /\ s.text \in Seq(Nat)
        /\ Len(s.text) \in Nat /\ d \in Names /\ Shown[d] = s.text
    <2>1. Calling(c)
      BY Zenon DEF ExpandTabs
    <2>2. n \in Nat \ {0}
      OBVIOUS
    <2> QED BY <2>1, <2>2, StringIs, ShownIs
  <1>1. size = Len(s.text) + TabsIn(s.text, Len(s.text)) * (n - 1)
    <2>1. DOMAIN s.text = 1 .. Len(s.text)
      BY <1>0
    <2> QED BY <2>1, Zenon DEF TabsIn
  <1>2. w \in Seq(Nat) /\ Len(w) = size /\ (Len(w) = Len(s.text) => w = s.text)
    <2> HIDE DEF s, size
    <2> QED BY <1>0, <1>1, ExpandedIs
  <1>3. T!Edit(c, d, w) => T!ExpandTabs(d, n)
    <2>1. T!Edit(c, d, T!Expanded(Shown[d], 9, n, 32)) => T!ExpandTabs(d, n)
      BY Zenon DEF T!ExpandTabs, Shown
    <2> QED BY <1>0, <2>1, SameSequences
  <1>4. \/ size = Len(s.text) /\ UNCHANGED strings /\ ret' = 0
        \/ Mutable(s) /\ CanHold(s, size) /\ Rewrite(d, q, b, size)
        \/ UNCHANGED strings /\ ret' = size
    BY ZenonT(60) DEF ExpandTabs, Returns
  <1> HIDE DEF c, size
  <1>5. CASE size = Len(s.text) /\ UNCHANGED strings /\ ret' = 0
    <2>1. w = s.text
      BY <1>2, <1>5
    <2>2. Set(d, s)
      BY <1>0, <1>5 DEF Set, Shaped
    <2> HIDE DEF w, s
    <2>3. T!Becomes(d, w) /\ T!Says(c, 0)
      BY <1>0, <1>5, <2>1, <2>2, ShownBecomes, CallingSays
    <2> QED BY <1>3, <2>3 DEF T!Edit
  <1>6. CASE UNCHANGED strings /\ ret' = size
    <2> HIDE DEF w
    <2>1. T!Looks(c, Len(w))
      BY <1>0, <1>2, <1>6, ReadsLooks
    <2> QED BY <1>3, <2>1 DEF T!Edit, T!Looks
  <1>7. CASE Mutable(s) /\ CanHold(s, size) /\ Rewrite(d, q, b, size)
    <2>1. size \in Nat
      BY <1>2
    <2>2. q \in Rec /\ Capacity(q) >= size /\ q.text = s.text
      <3> HIDE DEF s
      <3> QED BY <1>0, <1>7, <2>1, WithRoomIs
    <2> HIDE DEF s, q
    <2>3. size <= Room(q)
      <3>1. Room(q) \in Nat /\ Room(q) >= Capacity(q) /\ Capacity(q) \in Nat
        BY <2>2, BufferIs, RecIs
      <3> QED BY <2>1, <2>2, <3>1
    <2> DEFINE full == Len(q.text) + TabsIn(q.text, Len(q.text)) * (n - 1)
    <2>4. size = full
      BY <1>1, <2>2, Zenon
    <2>5. full <= Room(q)
      BY <2>3, <2>4, Zenon
    <2>6. TabsExpanded(q, full, n).ok
      BY <1>0, <2>2, <2>5, TabsInside, Zenon
    <2>7. Content(TabsExpanded(q, full, n), full) = Expanded(q.text, TAB, n, SPACE)
      BY <1>0, <2>2, <2>5, TabsWritten
    <2> HIDE DEF full
    <2>8. b.ok /\ Content(b, size) = w
      BY <2>2, <2>4, <2>6, <2>7, Zenon
    <2> HIDE DEF b, w
    <2>9. Set(d, r) /\ r.text = w /\ ret' = 0
      <3>1. Set(d, r) /\ ret' = 0
        BY <1>7, <2>8 DEF Rewrite
      <3>2. r.text = w
        BY <2>2, <2>8, RecIs
      <3> QED BY <3>1, <3>2
    <2> HIDE DEF r
    <2>10. T!Becomes(d, w) /\ T!Says(c, 0)
      BY <1>0, <2>9, ShownBecomes, CallingSays
    <2> QED BY <1>3, <2>10 DEF T!Edit
  <1> QED BY <1>4, <1>5, <1>6, <1>7

(* A slice that counts a bound or its steps from the end is some text of the *)
(* characters there are.                                                     *)
LEMMA SliceKeeps ==
    ASSUME NEW s \in Seq(Nat), s # <<>>, NEW start \in Int, start < Len(s),
           NEW end \in Int, end <= Len(s), NEW step \in Int,
           ~ SliceIsError(s, start, end, step),
           NEW t \in {Slice(s, start, end, step), SliceOnto(s, start, end, step)}
    PROVE  t \in T!BoundedSeq(ToSet(s), Len(s)) /\ t # <<>> /\ t \in Seq(Nat)
  <1>0. SliceReadsText(s, start, end, step)
    BY SliceReadsInside
  <1> DEFINE V == ToSet(s)
             n == Len(t)
  <1>1. s \in Seq(V) /\ V \subseteq Nat
    <2>1. Len(s) \in Nat /\ s = [k \in 1 .. Len(s) |-> s[k]] /\ \A k \in 1 .. Len(s) : s[k] \in V /\ s[k] \in Nat
      BY DEF ToSet
    <2>2. s \in Seq(V)
      <3> HIDE DEF V
      <3> QED BY <2>1, SeqOfFunction
    <2> QED BY <2>2 DEF ToSet
  <1> HIDE DEF V
  <1>2. t \in Seq(V) /\ n \in 1 .. Len(s)
    <2>1. /\ Slice(s, start, end, step) \in Seq(V)
          /\ Len(Slice(s, start, end, step)) \in 1 .. Len(s)
      BY <1>0, <1>1, SliceIsText
    <2>2. /\ SliceOnto(s, start, end, step) \in Seq(V)
          /\ Len(SliceOnto(s, start, end, step)) = Len(Slice(s, start, end, step))
      BY <1>0, <1>1, SliceOntoIs
    <2> QED BY <2>1, <2>2
  <1>3. t \in [1 .. n -> V] /\ n \in 0 .. Len(s)
    BY <1>2
  <1> HIDE DEF n
  <1>4. t \in UNION {[1 .. m -> V] : m \in 0 .. Len(s)}
    BY <1>3
  <1>5. t \in T!BoundedSeq(V, Len(s))
    BY <1>4, Zenon DEF T!BoundedSeq, T!SeqOf
  <1> QED BY <1>1, <1>2, <1>5 DEF V, n

(* Going up from a place that is given, a slice of a String onto itself     *)
(* reads nothing that has been written over.                                *)
LEMMA SliceUp ==
    ASSUME NEW s \in Seq(Nat), s # <<>>, NEW start \in Nat, start < Len(s),
           NEW end \in Nat, end <= Len(s), NEW step \in Nat,
           ~ SliceIsError(s, start, end, step)
    PROVE  LET last == IF end = 0 THEN Len(s) ELSE end
               w    == T!Every(s, start, last, IF step = 0 THEN 1 ELSE step)
           IN  Slice(s, start, end, step) = w /\ SliceOnto(s, start, end, step) = w
  <1> DEFINE last == IF end = 0 THEN Len(s) ELSE end
             t == IF step = 0 THEN 1 ELSE step
             n == SliceSize(s, start, end, step)
             at(k) == start + k * t
             u == [k \in 1 .. n |-> s[at(k - 1) + 1]]
             w == T!Every(s, start, last, t)
  <1>0. Len(s) \in Nat /\ start \in Int /\ end \in Int /\ step \in Int /\ t \in Nat \ {0} /\ last \in Nat
    OBVIOUS
  <1>8. SliceReadsText(s, start, end, step)
    BY <1>0, SliceReadsInside
  <1>1. /\ SliceStart(start, Len(s)) = start /\ SliceStep(step) = t /\ Dir(step) = 1
        /\ SliceEnd(end, step, Len(s)) = last
    BY <1>0 DEF SliceStart, Position, SliceStep, Dir, SliceEnd
  <1>2. start < last
    BY <1>0, <1>1 DEF SliceIsError
  <1> HIDE DEF t, last
  <1>3. /\ n \in Nat /\ n >= 1
        /\ \A k \in Nat : last - (start + k * t) > 0 <=> k < n
    <2>1. /\ n \in 1 .. Len(s)
          /\ \A k \in Nat : (last - (start + k * t)) * 1 > 0 <=> k < n
      BY <1>0, <1>1, <1>8, SizeIsSteps
    <2> HIDE DEF n
    <2>2. ASSUME NEW k \in Nat PROVE last - (start + k * t) > 0 <=> k < n
      <3> DEFINE x == k * t
      <3>1. (last - (start + x)) * 1 > 0 <=> k < n
        BY <2>1
      <3>2. x \in Int
        BY <1>0
      <3> HIDE DEF x
      <3>3. last - (start + x) > 0 <=> k < n
        BY ONLY <1>0, <3>1, <3>2, start \in Nat
      <3> QED BY <3>3 DEF x
    <2> QED BY <1>0, <2>1, <2>2
  <1>4. Slice(s, start, end, step) = u /\ Len(Slice(s, start, end, step)) = n
    <2>1. /\ Slice(s, start, end, step) = From(SliceAt(s, start, step), 0, n)
          /\ Len(Slice(s, start, end, step)) = n
      BY <1>0, <1>8, SliceIsFrom
    <2> HIDE DEF n
    <2>2. SliceAt(s, start, step) = [k \in Nat |-> s[start + k * t + 1]]
      BY <1>1 DEF SliceAt
    <2>3. From(SliceAt(s, start, step), 0, n) = [i \in 1 .. n |-> SliceAt(s, start, step)[i - 1]]
      BY <1>3 DEF From
    <2>4. ASSUME NEW i \in 1 .. n PROVE SliceAt(s, start, step)[i - 1] = s[at(i - 1) + 1]
      <3>1. i - 1 \in Nat
        BY <1>3
      <3> QED BY <2>2, <3>1
    <2> HIDE DEF at
    <2> QED BY <2>1, <2>3, <2>4
  <1>5. w = u
    <2>1. Cardinality({p \in start .. last - 1 : (p - start) % t = 0}) = n
      <3> HIDE DEF n
      <3>1. UpTo(start, last, t, n)
        BY <1>3, Zenon DEF UpTo
      <3>2. last \in Nat /\ t \in Nat \ {0} /\ n \in Nat
        BY <1>0, <1>3
      <3> QED BY <1>2, <3>1, <3>2, StepsTake
    <2> HIDE DEF n
    <2>2. \A S : T!Cardinality(S) = Cardinality(S)
      BY Zenon DEF T!Cardinality, Cardinality
    <2> QED BY <2>1, <2>2, Zenon DEF T!Every
  <1>6. SliceOnto(s, start, end, step) = u
    <2> DEFINE l == Len(Slice(s, start, end, step))
               g(f) == [k \in 0 .. l - 1 |->
                    IF SliceStart(start, Len(s)) + k * SliceStep(step) < k
                    THEN f[SliceStart(start, Len(s)) + k * SliceStep(step)]
                    ELSE s[SliceStart(start, Len(s)) + k * SliceStep(step) + 1]]
               h == [k \in 0 .. n - 1 |-> s[at(k) + 1]]
               got == CHOOSE f : f = g(f)
    <2>1. SliceOnto(s, start, end, step) = [k \in 1 .. l |-> got[k - 1]]
      BY Zenon DEF SliceOnto
    <2>6. l = n
      BY <1>4
    <2> HIDE DEF n, l
    <2>2. ASSUME NEW k \in 0 .. n - 1 PROVE ~ (start + k * t < k)
      <3>1. k \in Nat /\ t \in Nat /\ t >= 1
        BY <1>0, <1>3
      <3>2. k * t >= k
        BY ONLY <3>1
      <3> DEFINE x == k * t
      <3>3. x \in Nat /\ x >= k
        BY <3>1, <3>2
      <3> HIDE DEF x
      <3>4. ~ (start + x < k)
        BY ONLY <3>1, <3>3, start \in Nat
      <3> QED BY <3>4 DEF x
    <2>3. \A f : g(f) = h
      BY <1>1, <2>2, <2>6
    <2> HIDE DEF g, h
    <2>4. got = h
      BY <2>3
    <2> HIDE DEF got
    <2>5. ASSUME NEW k \in 1 .. n PROVE got[k - 1] = s[at(k - 1) + 1]
      <3>1. k - 1 \in 0 .. n - 1
        BY <1>3
      <3> QED BY <2>4, <3>1 DEF h
    <2> HIDE DEF at
    <2> QED BY <2>1, <2>5, <2>6
  <1> HIDE DEF u, w
  <1>7. Slice(s, start, end, step) = w /\ SliceOnto(s, start, end, step) = w
    BY <1>4, <1>5, <1>6
  <1> QED BY <1>7 DEF w, t, last

(* slice does what the header says, of a String onto itself too.            *)
LEMMA SliceSlices ==
    ASSUME Shaped, NEW d \in live, NEW o \in live, NEW start \in caller.numbers,
           NEW end \in caller.numbers, NEW step \in caller.numbers,
           Slice_(d, o, start, end, step)
    PROVE  T!Slice(d, o, start, end, step)
  <1> DEFINE c == <<"slice", d, o, start, end, step>>
             s == Text(o)
             last == IF end = 0 THEN Len(s) ELSE end
             t == IF d = o THEN SliceOnto(s, start, end, step) ELSE Slice(s, start, end, step)
             w == T!Every(s, start, last, IF step = 0 THEN 1 ELSE step)
             Cases ==
                IF s = <<>> \/ start >= Len(s) \/ end > Len(s) THEN T!Open(c, {d})
                ELSE IF start < 0 \/ last < 0 \/ step < 0
                THEN \/ \E x \in T!BoundedSeq(ToSet(s), Len(s)) : x # <<>> /\ T!Edit(c, d, x)
                     \/ UNCHANGED Shown /\ T!Says(c, -1)
                ELSE IF start >= last THEN UNCHANGED Shown /\ T!Says(c, -1)
                ELSE T!Edit(c, d, w)
  <1>0. /\ start \in Int /\ end \in Int /\ step \in Int /\ s \in Seq(Nat) /\ Len(s) \in Nat
        /\ Shown[o] = s /\ d \in Names /\ Calling(c)
    <2>1. Calling(c)
      BY Zenon DEF Slice_
    <2>2. start \in Int /\ end \in Int /\ step \in Int /\ s \in Seq(Nat) /\ d \in Names /\ o \in Names
      BY CallerIs, StringIs
    <2>3. Shown[o] = s
      BY <2>2, ShownIs
    <2> QED BY <2>1, <2>2, <2>3
  <1>1. T!Slice(d, o, start, end, step) <=> Cases
    <2>1. T!Slice(d, o, start, end, step) <=>
                IF Shown[o] = <<>> \/ start >= Len(Shown[o]) \/ end > Len(Shown[o])
                THEN T!Open(c, {d})
                ELSE IF start < 0 \/ (IF end = 0 THEN Len(Shown[o]) ELSE end) < 0 \/ step < 0
                THEN \/ \E x \in T!BoundedSeq(T!ToSet(Shown[o]), Len(Shown[o])) : x # <<>> /\ T!Edit(c, d, x)
                     \/ UNCHANGED Shown /\ T!Says(c, -1)
                ELSE IF start >= (IF end = 0 THEN Len(Shown[o]) ELSE end) THEN UNCHANGED Shown /\ T!Says(c, -1)
                ELSE T!Edit(c, d, T!Every(Shown[o], start, IF end = 0 THEN Len(Shown[o]) ELSE end,
                                          IF step = 0 THEN 1 ELSE step))
      BY Zenon DEF T!Slice, Shown
    <2>2. T!ToSet(s) = ToSet(s)
      BY DEF T!ToSet, ToSet
    <2> HIDE DEF s
    <2> QED BY <1>0, <2>1, <2>2
  <1>2. \/ s = <<>> /\ Crashes
        \/ SliceIsError(s, start, end, step) /\ UNCHANGED strings /\ ret' = -1
        \/ ~ SliceIsError(s, start, end, step) /\ SliceReadsText(s, start, end, step) /\ Write(d, t)
        \/ ~ SliceIsError(s, start, end, step) /\ ~ SliceReadsText(s, start, end, step)
           /\ UNCHANGED strings
    BY Zenon DEF Slice_, SliceBehind, Crashes, Returns
  <1>3. CASE s = <<>> \/ start >= Len(s) \/ end > Len(s)
    <2>1. (\E x : Set(d, x)) \/ UNCHANGED strings
      BY <1>2, Zenon DEF Crashes, Write
    <2> HIDE DEF c, s, t
    <2>2. T!Open(c, {d})
      BY <1>0, <2>1, ChangesOne, LeavesOpen
    <2> QED BY <1>1, <1>3, <2>2 DEF Cases
  <1> SUFFICES ASSUME s # <<>>, start < Len(s), end <= Len(s) PROVE T!Slice(d, o, start, end, step)
    <2> HIDE DEF s
    <2> QED BY <1>0, <1>3
  <1> HIDE DEF c, s, Cases
  <1>6. ~ (s = <<>> \/ start >= Len(s) \/ end > Len(s))
    BY <1>0
  <1>4. CASE s # <<>> /\ SliceIsError(s, start, end, step) /\ UNCHANGED strings /\ ret' = -1
    <2>1. UNCHANGED Shown /\ T!Says(c, -1)
      BY <1>0, <1>4, ShownKept, CallingSays
    <2>2. ASSUME ~ (start < 0 \/ last < 0 \/ step < 0) PROVE start >= last
      <3>1. start \in Nat /\ end \in Nat /\ step \in Nat
        BY <1>0, <2>2
      <3> QED BY <1>0, <1>4, <3>1, SliceErrs
    <2> HIDE DEF last
    <2> QED BY <1>1, <1>4, <1>6, <2>1, <2>2, Zenon DEF Cases
  <1>5. CASE s # <<>> /\ ~ SliceIsError(s, start, end, step) /\ Write(d, t)
    <2>1. t \in T!BoundedSeq(ToSet(s), Len(s)) /\ t # <<>> /\ t \in Seq(Nat)
      BY <1>0, <1>5, SliceKeeps
    <2>2. ASSUME ~ (start < 0 \/ last < 0 \/ step < 0) PROVE ~ (start >= last) /\ t = w
      <3>1. start \in Nat /\ end \in Nat /\ step \in Nat
        BY <1>0, <2>2
      <3>2. ~ (start >= last)
        BY <1>0, <1>5, <3>1, SliceErrs
      <3>3. Slice(s, start, end, step) = w /\ SliceOnto(s, start, end, step) = w
        BY <1>0, <1>5, <3>1, SliceUp
      <3> HIDE DEF w, last
      <3> QED BY <3>2, <3>3
    <2> HIDE DEF t, w, last
    <2>3. T!Edit(c, d, t)
      BY <1>0, <1>5, <2>1, WriteEdits
    <2> QED BY <1>1, <1>5, <1>6, <2>1, <2>2, <2>3, Zenon DEF Cases
  <1>7. ASSUME ~ SliceIsError(s, start, end, step) PROVE SliceReadsText(s, start, end, step)
    BY <1>0, <1>7, SliceReadsInside
  <1> QED BY <1>2, <1>4, <1>5, <1>7

LEMMA JoinsFew ==
    ASSUME NEW a \in Seq(Nat), NEW b \in Seq(Nat), NEW by \in Seq(Nat)
    PROVE  /\ T!Joined(<<>>, by) = <<>>
           /\ T!Joined(<<a>>, by) = a
           /\ T!Joined(<<a, b>>, by) = a \o (by \o b)
  <1>0. \A ps : T!Joined(ps, by) = FlattenSeq([i \in DOMAIN ps |-> IF i = 1 THEN ps[1] ELSE by \o ps[i]])
    BY SameSequences, Zenon DEF T!Joined
  <1> DEFINE c == by \o b
  <1>1. c \in Seq(Nat)
    OBVIOUS
  <1>2. FlattenSeq(<<>>) = <<>>
    BY Zenon DEF FlattenSeq
  <1>3. FlattenSeq(<<a>>) = a
    <2> DEFINE ps == <<a>>
    <2>1. ps \in Seq(Seq(Nat)) /\ Len(ps) = 1 /\ ps[1] = a
      OBVIOUS
    <2> HIDE DEF ps
    <2>2. PICK f : Adds(f, ps) /\ FlattenSeq(ps) = f[Len(ps)]
      BY <2>1, FlattenAdds
    <2>3. f[1] = f[1 - 1] \o ps[1] /\ f[0] = <<>>
      BY <2>1, <2>2 DEF Adds
    <2>4. f[1] = <<>> \o a
      <3>1. 1 - 1 = 0
        OBVIOUS
      <3> QED BY <2>1, <2>3, <3>1, Zenon
    <2> QED BY <2>1, <2>2, <2>4 DEF ps
  <1>4. FlattenSeq(<<a, c>>) = a \o c
    <2> HIDE DEF c
    <2> DEFINE ps == <<a, c>>
    <2>1. ps \in Seq(Seq(Nat)) /\ Len(ps) = 2 /\ ps[1] = a /\ ps[2] = c
      BY <1>1
    <2> HIDE DEF ps
    <2>2. PICK f : Adds(f, ps) /\ FlattenSeq(ps) = f[Len(ps)]
      BY <2>1, FlattenAdds
    <2>3. f[1] = f[1 - 1] \o ps[1] /\ f[0] = <<>> /\ f[2] = f[2 - 1] \o ps[2]
      BY <2>1, <2>2 DEF Adds
    <2>4. f[1] = <<>> \o a /\ f[2] = f[1] \o c
      <3>1. 1 - 1 = 0 /\ 2 - 1 = 1
        OBVIOUS
      <3> QED BY <2>1, <2>3, <3>1, Zenon
    <2>5. f[1] = a
      BY <2>4
    <2> QED BY <2>1, <2>2, <2>4, <2>5 DEF ps
  <1>5. T!Joined(<<>>, by) = <<>>
    <2> DEFINE ps == <<>>
               qs == [i \in DOMAIN ps |-> IF i = 1 THEN ps[1] ELSE by \o ps[i]]
    <2>1. qs = <<>>
      OBVIOUS
    <2> HIDE DEF qs
    <2> QED BY <1>0, <1>2, <2>1, Zenon DEF qs
  <1>6. T!Joined(<<a>>, by) = a
    <2> DEFINE ps == <<a>>
               qs == [i \in DOMAIN ps |-> IF i = 1 THEN ps[1] ELSE by \o ps[i]]
    <2>1. qs = <<a>>
      OBVIOUS
    <2> HIDE DEF qs
    <2> QED BY <1>0, <1>3, <2>1, Zenon DEF qs
  <1>7. T!Joined(<<a, b>>, by) = a \o c
    <2> DEFINE ps == <<a, b>>
               qs == [i \in DOMAIN ps |-> IF i = 1 THEN ps[1] ELSE by \o ps[i]]
    <2>1. qs = <<a, c>>
      OBVIOUS
    <2> HIDE DEF qs, c
    <2> QED BY <1>0, <1>4, <2>1, Zenon DEF qs
  <1> QED BY <1>5, <1>6, <1>7

LEMMA JoinedSizeFew ==
    ASSUME Shaped, NEW a \in live, NEW b \in live, NEW sep \in Seq(Nat)
    PROVE  /\ JoinedSize(<<a>>, sep) = Len(Text(a))
           /\ JoinedSize(<<a, b>>, sep) = Len(Text(a)) + Len(sep) + Len(Text(b))
  <1>0. Len(Text(a)) \in Nat /\ Len(Text(b)) \in Nat /\ Len(sep) \in Nat
    BY StringIs
  <1>1. JoinedSize(<<a>>, sep) = Len(Text(a))
    <2> DEFINE l == <<a>>
               F(f) == [i \in 1 .. Len(l) |-> Len(Text(l[i])) + (IF i = 1 THEN 0 ELSE f[i - 1] + Len(sep))]
               g == [i \in 1 .. 1 |-> Len(Text(a))]
               u == CHOOSE f : f = F(f)
    <2>1. JoinedSize(l, sep) = u[Len(l)]
      BY Zenon DEF JoinedSize
    <2>2. Len(l) = 1 /\ l[1] = a
      OBVIOUS
    <2> HIDE DEF l
    <2>3. \A f : F(f) = g
      BY <1>0, <2>2
    <2> HIDE DEF F
    <2>4. u = g
      BY <2>3
    <2> HIDE DEF u
    <2> QED BY <2>1, <2>2, <2>4 DEF l
  <1>2. JoinedSize(<<a, b>>, sep) = Len(Text(a)) + Len(sep) + Len(Text(b))
    <2> DEFINE l == <<a, b>>
               G(f, i) == Len(Text(l[i])) + (IF i = 1 THEN 0 ELSE f[i - 1] + Len(sep))
               F(f) == [i \in 1 .. Len(l) |-> G(f, i)]
               x == Len(Text(a))
               y == Len(Text(b)) + (x + Len(sep))
               g == [i \in 1 .. 2 |-> IF i = 1 THEN x ELSE y]
               u == CHOOSE f : f = F(f)
    <2>1. JoinedSize(l, sep) = u[Len(l)]
      BY Zenon DEF JoinedSize
    <2>2. Len(l) = 2 /\ l[1] = a /\ l[2] = b
      OBVIOUS
    <2> HIDE DEF l
    <2>3. ASSUME NEW f PROVE G(f, 1) = x /\ (f[1] = x => G(f, 2) = y)
      <3>1. 2 - 1 = 1 /\ 2 # 1
        OBVIOUS
      <3>2. G(f, 1) = x + 0 /\ G(f, 2) = Len(Text(b)) + (f[1] + Len(sep))
        BY <2>2, <3>1, Zenon
      <3>3. x + 0 = x
        BY <1>0
      <3> HIDE DEF G
      <3> QED BY <3>2, <3>3, Zenon
    <2> HIDE DEF G, x, y
    <2>4. F(g) = g
      <3>1. g[1] = x /\ g[2] = y /\ g = [i \in 1 .. 2 |-> g[i]]
        OBVIOUS
      <3> HIDE DEF g
      <3>2. G(g, 1) = g[1] /\ G(g, 2) = g[2]
        BY <2>3, <3>1
      <3>3. \A i \in 1 .. 2 : i = 1 \/ i = 2
        OBVIOUS
      <3>4. \A i \in 1 .. 2 : G(g, i) = g[i]
        BY <3>2, <3>3, Zenon
      <3> QED BY <2>2, <3>1, <3>4
    <2>5. u = F(u)
      <3> HIDE DEF F
      <3> QED BY <2>4
    <2> HIDE DEF u, g
    <2>6. u[1] = G(u, 1) /\ u[2] = G(u, 2)
      BY <2>2, <2>5
    <2>7. u[2] = y
      BY <2>3, <2>6
    <2> QED BY <1>0, <2>1, <2>2, <2>7 DEF l, x, y
  <1> QED BY <1>1, <1>2

(* x is the cleared String e, extended by a, the separator and b.           *)
JoinsInTurn(d, e, sep, a, b, x) ==
    \E y \in Extended(e, IF a = d THEN e.text ELSE Text(a)) :
       \E z \in Extended(y, sep) : x \in Extended(z, IF b = d THEN z.text ELSE Text(b))

(* What the calls of extend make of the cleared String, one by one.         *)
LEMMA JoinedOntoFew ==
    ASSUME NEW d, NEW s, NEW sep, NEW a, NEW b
    PROVE  LET e == [s EXCEPT !.text = <<>>]
           IN  /\ \A x \in JoinedOnto(d, s, sep, <<a>>) :
                     x \in Extended(e, IF a = d THEN e.text ELSE Text(a))
               /\ \A x \in JoinedOnto(d, s, sep, <<a, b>>) : JoinsInTurn(d, e, sep, a, b, x)
  <1> DEFINE e == [s EXCEPT !.text = <<>>]
             one == UNION {Extended(x, IF a = d THEN x.text ELSE Text(a)) : x \in {e}}
             two == UNION {Extended(x, IF b = d THEN x.text ELSE Text(b)) :
                              x \in UNION {Extended(y, sep) : y \in one}}
             G(l, f, i) ==
                IF i = 0 THEN {e}
                ELSE UNION {Extended(x, IF l[i] = d THEN x.text ELSE Text(l[i])) :
                        x \in IF i = 1 THEN f[0]
                              ELSE UNION {Extended(y, sep) : y \in f[i - 1]}}
             F(l, f) == [i \in 0 .. Len(l) |-> G(l, f, i)]
             u(l) == CHOOSE f : f = F(l, f)
  <1>1. \A l : JoinedOnto(d, s, sep, l) = u(l)[Len(l)]
    BY Zenon DEF JoinedOnto
  <1> HIDE DEF e
  <1>2. \A l, f : G(l, f, 0) = {e}
    BY Zenon
  <1>3. ASSUME NEW l, l[1] = a, NEW f, f[0] = {e} PROVE G(l, f, 1) = one
    <2>1. 1 # 0
      OBVIOUS
    <2> QED BY <1>3, <2>1, Zenon
  <1>4. ASSUME NEW l, l[2] = b, NEW f, f[1] = one PROVE G(l, f, 2) = two
    <2>1. 2 # 0 /\ 2 # 1 /\ 2 - 1 = 1
      OBVIOUS
    <2> HIDE DEF one
    <2> QED BY <1>4, <2>1, Zenon
  <1> HIDE DEF G, one, two
  <1>5. JoinedOnto(d, s, sep, <<a>>) = one
    <2> DEFINE l == <<a>>
               g == [i \in 0 .. 1 |-> IF i = 0 THEN {e} ELSE one]
               v == u(l)
    <2>1. Len(l) = 1 /\ l[1] = a
      OBVIOUS
    <2> HIDE DEF l
    <2>2. F(l, g) = g
      <3>1. g[0] = {e} /\ g[1] = one /\ g = [i \in 0 .. 1 |-> g[i]]
        OBVIOUS
      <3> HIDE DEF g
      <3>2. G(l, g, 0) = g[0] /\ G(l, g, 1) = g[1]
        BY <1>2, <1>3, <2>1, <3>1
      <3>3. \A i \in 0 .. 1 : i = 0 \/ i = 1
        OBVIOUS
      <3>4. \A i \in 0 .. 1 : G(l, g, i) = g[i]
        BY <3>2, <3>3, Zenon
      <3> QED BY <2>1, <3>1, <3>4
    <2>3. v = F(l, v)
      <3> HIDE DEF F
      <3> QED BY <2>2
    <2> HIDE DEF v, g
    <2>4. v[0] = G(l, v, 0) /\ v[1] = G(l, v, 1)
      BY <2>1, <2>3
    <2>5. v[1] = one
      BY <1>2, <1>3, <2>1, <2>4
    <2> QED BY <1>1, <2>1, <2>5, Zenon DEF l, v
  <1>6. JoinedOnto(d, s, sep, <<a, b>>) = two
    <2> DEFINE l == <<a, b>>
               g == [i \in 0 .. 2 |-> IF i = 0 THEN {e} ELSE IF i = 1 THEN one ELSE two]
               v == u(l)
    <2>1. Len(l) = 2 /\ l[1] = a /\ l[2] = b
      OBVIOUS
    <2> HIDE DEF l
    <2>2. F(l, g) = g
      <3>1. g[0] = {e} /\ g[1] = one /\ g[2] = two /\ g = [i \in 0 .. 2 |-> g[i]]
        OBVIOUS
      <3> HIDE DEF g
      <3>2. G(l, g, 0) = g[0] /\ G(l, g, 1) = g[1] /\ G(l, g, 2) = g[2]
        BY <1>2, <1>3, <1>4, <2>1, <3>1
      <3>3. \A i \in 0 .. 2 : i = 0 \/ i = 1 \/ i = 2
        OBVIOUS
      <3>4. \A i \in 0 .. 2 : G(l, g, i) = g[i]
        BY <3>2, <3>3, Zenon
      <3> QED BY <2>1, <3>1, <3>4
    <2>3. v = F(l, v)
      <3> HIDE DEF F
      <3> QED BY <2>2
    <2> HIDE DEF v, g
    <2>4. v[0] = G(l, v, 0) /\ v[1] = G(l, v, 1) /\ v[2] = G(l, v, 2)
      BY <2>1, <2>3
    <2>5. v[2] = two
      BY <1>2, <1>3, <1>4, <2>1, <2>4
    <2> QED BY <1>1, <2>1, <2>5, Zenon DEF l, v
  <1>7. one = Extended(e, IF a = d THEN e.text ELSE Text(a))
    BY DEF one
  <1>8. ASSUME NEW x \in two
        PROVE  \E y \in one : \E z \in Extended(y, sep) : x \in Extended(z, IF b = d THEN z.text ELSE Text(b))
    <2>1. PICK z \in UNION {Extended(y, sep) : y \in one} : x \in Extended(z, IF b = d THEN z.text ELSE Text(b))
      BY <1>8, Zenon DEF two
    <2>2. PICK y \in one : z \in Extended(y, sep)
      BY <2>1, Zenon
    <2> QED BY <2>1, <2>2, Zenon
  <1>9. \A x \in two : JoinsInTurn(d, e, sep, a, b, x)
    BY <1>7, <1>8, Zenon DEF JoinsInTurn
  <1> QED BY <1>5, <1>6, <1>7, <1>9, Zenon DEF e

(* What extend leaves in a String with room for it, and in any other.       *)
LEMMA ExtendFits ==
    ASSUME NEW s \in Rec, Sound(s), NEW t \in Seq(Nat), Len(s.text) + Len(t) <= Capacity(s),
           NEW x \in Extended(s, t)
    PROVE  x \in Rec /\ Sound(x) /\ x.text = s.text \o t /\ Capacity(x) = Capacity(s)
  <1> DEFINE u == s.text \o t
  <1>1. u \in Seq(Nat) /\ Len(u) = Len(s.text) + Len(t) /\ HasRoom(s, Len(u))
    <2>1. s.text \in Seq(Nat)
      BY RecIs
    <2> QED BY <2>1 DEF HasRoom
  <1>2. Written(s, u) = [s EXCEPT !.text = u]
    BY <1>1, Zenon DEF Written, WithRoom
  <1>3. Written(s, u) \in Rec /\ Sound(Written(s, u)) /\ Written(s, u).text = u
    <2>1. CanHold(s, Len(u))
      BY <1>1 DEF CanHold
    <2> QED BY <1>1, <2>1, WrittenIs
  <1>4. Written(s, u).capacity = s.capacity
    <2> HIDE DEF u
    <2> QED BY <1>2, RecIs
  <1>5. x = Written(s, u) \/ (x = s /\ MayRefuse(s, Len(s.text \o t)))
    BY DEF Extended
  <1>6. x = Written(s, u)
    BY <1>1, <1>5 DEF MayRefuse
  <1> QED BY <1>3, <1>4, <1>6 DEF Capacity

LEMMA ExtendAny ==
    ASSUME NEW s \in Rec, Sound(s), NEW t \in Seq(Nat), NEW x \in Extended(s, t)
    PROVE  x.text \in {s.text, s.text \o t}
  <1> DEFINE u == s.text \o t
  <1>1. u \in Seq(Nat)
    <2>1. s.text \in Seq(Nat)
      BY RecIs
    <2> QED BY <2>1
  <1>2. x = s \/ (x = Written(s, u) /\ CanHold(s, Len(x.text)))
    BY DEF Extended
  <1>3. CASE x = Written(s, u)
    <2> DEFINE q == WithRoom(s, Len(u))
    <2>1. q = s \/ q = [s EXCEPT !.capacity = NewCapacity(s, Len(u)), !.null = FALSE]
      BY DEF WithRoom, Resized
    <2>2. DOMAIN s = {"text", "capacity", "null"}
      BY RecIs
    <2>3. "text" \in DOMAIN q
      <3> HIDE DEF q
      <3> QED BY <2>1, <2>2
    <2>4. x = [q EXCEPT !.text = u]
      BY <1>3 DEF Written
    <2> HIDE DEF q
    <2> QED BY <2>3, <2>4
  <1> QED BY <1>2, <1>3

(* What join makes of a String with room for it, of one text.               *)
LEMMA JoinedText ==
    ASSUME Shaped, NEW d \in live, NEW s \in Rec, Sound(s), NEW sep \in Seq(Nat),
           NEW a \in live, JoinedSize(<<a>>, sep) <= Capacity(s),
           NEW x \in JoinedOnto(d, s, sep, <<a>>)
    PROVE  x.text = IF a = d THEN <<>> ELSE Text(a)
  <1> DEFINE e == [s EXCEPT !.text = <<>>]
             ta == Text(a)
             t1 == IF a = d THEN <<>> ELSE ta
             cap == Capacity(s)
  <1>0. ta \in Seq(Nat) /\ t1 \in Seq(Nat) /\ Len(ta) \in Nat /\ Len(t1) \in Nat /\ Len(t1) <= Len(ta)
    BY StringIs
  <1>1. e \in Rec /\ Sound(e) /\ e.text = <<>> /\ Capacity(e) = cap /\ cap \in Int
    <2>1. e \in Rec /\ Sound(e) /\ e.text = <<>>
      BY EmptiedIs
    <2>2. e.capacity = s.capacity /\ s.capacity \in Int
      BY RecIs
    <2> HIDE DEF e
    <2> QED BY <2>1, <2>2 DEF Capacity, Abs
  <1>2. Len(ta) <= cap
    BY JoinedSizeFew
  <1> HIDE DEF cap, ta
  <1>3. x \in Extended(e, IF a = d THEN e.text ELSE ta)
    BY JoinedOntoFew, Zenon DEF ta
  <1>4. (IF a = d THEN e.text ELSE ta) = t1
    BY <1>1
  <1> HIDE DEF e, t1
  <1>5. Len(e.text) + Len(t1) <= Capacity(e) /\ e.text \o t1 = t1
    BY <1>0, <1>1, <1>2
  <1>6. x.text = t1
    BY <1>0, <1>1, <1>3, <1>4, <1>5, ExtendFits
  <1> QED BY <1>6, Zenon DEF t1, ta

(* The separator between a and b, where one of them may be what was joined. *)
BothTexts(d, a, b, sep) ==
    LET p == (IF a = d THEN <<>> ELSE Text(a)) \o sep
    IN  IF b = d THEN {p, p \o p} ELSE {p \o Text(b)}

(* What join makes of a String with room for it all.                        *)
LEMMA JoinedTexts ==
    ASSUME Shaped, NEW d \in live, NEW s \in Rec, Sound(s), NEW sep \in Seq(Nat),
           NEW a \in live, NEW b \in live
    PROVE  /\ \A x \in JoinedOnto(d, s, sep, <<a>>) :
                 JoinedSize(<<a>>, sep) <= Capacity(s) =>
                    x.text = IF a = d THEN <<>> ELSE Text(a)
           /\ \A x \in JoinedOnto(d, s, sep, <<a, b>>) :
                 JoinedSize(<<a, b>>, sep) <= Capacity(s) =>
                    x.text \in BothTexts(d, a, b, sep)
  <1> DEFINE e == [s EXCEPT !.text = <<>>]
             ta == Text(a)
             tb == Text(b)
             t1 == IF a = d THEN <<>> ELSE ta
             cap == Capacity(s)
  <1>0. /\ ta \in Seq(Nat) /\ tb \in Seq(Nat) /\ t1 \in Seq(Nat)
        /\ Len(ta) \in Nat /\ Len(tb) \in Nat /\ Len(sep) \in Nat /\ Len(t1) \in Nat /\ Len(t1) <= Len(ta)
    BY StringIs
  <1>1. e \in Rec /\ Sound(e) /\ e.text = <<>> /\ Capacity(e) = cap /\ cap \in Int
    <2>1. e \in Rec /\ Sound(e) /\ e.text = <<>>
      BY EmptiedIs
    <2>2. e.capacity = s.capacity /\ s.capacity \in Int
      BY RecIs
    <2> HIDE DEF e
    <2> QED BY <2>1, <2>2 DEF Capacity, Abs
  <1>2. /\ JoinedSize(<<a>>, sep) = Len(ta)
        /\ JoinedSize(<<a, b>>, sep) = Len(ta) + Len(sep) + Len(tb)
    BY JoinedSizeFew
  <1> HIDE DEF cap
  <1>3. ASSUME Len(ta) <= cap, NEW x \in Extended(e, IF a = d THEN e.text ELSE ta)
        PROVE  x \in Rec /\ Sound(x) /\ x.text = t1 /\ Capacity(x) = cap
    <2>1. (IF a = d THEN e.text ELSE ta) = t1
      BY <1>1
    <2> HIDE DEF e, t1
    <2>2. Len(e.text) + Len(t1) <= Capacity(e) /\ e.text \o t1 = t1
      BY <1>0, <1>1, <1>3
    <2> QED BY <1>0, <1>1, <1>3, <2>1, <2>2, ExtendFits
  <1> HIDE DEF ta, tb, t1
  <1>4. ASSUME Len(ta) <= cap, NEW x \in JoinedOnto(d, s, sep, <<a>>) PROVE x.text = t1
    <2>1. x \in Extended(e, IF a = d THEN e.text ELSE ta)
      BY JoinedOntoFew, Zenon DEF ta
    <2> QED BY <1>3, <1>4, <2>1
  <1>5. ASSUME Len(ta) + Len(sep) + Len(tb) <= cap, NEW x \in JoinedOnto(d, s, sep, <<a, b>>)
        PROVE  IF b = d THEN x.text \in {t1 \o sep, (t1 \o sep) \o (t1 \o sep)}
               ELSE x.text = (t1 \o sep) \o tb
    <2>1. PICK y \in Extended(e, IF a = d THEN e.text ELSE ta) :
             \E z \in Extended(y, sep) : x \in Extended(z, IF b = d THEN z.text ELSE tb)
      <3>1. JoinsInTurn(d, e, sep, a, b, x)
        BY <1>5, JoinedOntoFew, Zenon
      <3> HIDE DEF e
      <3> QED BY <3>1, Zenon DEF JoinsInTurn, ta, tb
    <2>2. PICK z \in Extended(y, sep) : x \in Extended(z, IF b = d THEN z.text ELSE tb)
      BY <2>1
    <2> HIDE DEF e
    <2>3. Len(ta) <= cap
      BY <1>0, <1>1, <1>5
    <2>4. y \in Rec /\ Sound(y) /\ y.text = t1 /\ Capacity(y) = cap
      BY <1>3, <2>1, <2>3
    <2>5. Len(y.text) + Len(sep) <= Capacity(y)
      BY <1>0, <1>1, <1>5, <2>4
    <2>6. z \in Rec /\ Sound(z) /\ z.text = t1 \o sep /\ Capacity(z) = cap
      BY <2>2, <2>4, <2>5, ExtendFits
    <2>7. CASE b = d
      <3>1. x \in Extended(z, z.text) /\ z.text \in Seq(Nat)
        BY <2>2, <2>6, <2>7, RecIs
      <3>2. x.text \in {z.text, z.text \o z.text}
        BY <2>6, <3>1, ExtendAny
      <3> QED BY <2>6, <2>7, <3>2
    <2>8. CASE b # d
      <3>1. x \in Extended(z, tb)
        BY <2>2, <2>8
      <3>2. Len(z.text) + Len(tb) <= Capacity(z)
        <4>1. Len(z.text) = Len(t1) + Len(sep)
          BY <1>0, <2>6
        <4> QED BY <1>0, <1>1, <1>5, <2>6, <4>1
      <3>3. x.text = z.text \o tb
        BY <1>0, <2>6, <3>1, <3>2, ExtendFits
      <3> QED BY <2>6, <2>8, <3>3
    <2> QED BY <2>7, <2>8
  <1> HIDE DEF e
  <1>6. ASSUME NEW x, IF b = d THEN x.text \in {t1 \o sep, (t1 \o sep) \o (t1 \o sep)}
                      ELSE x.text = (t1 \o sep) \o tb
        PROVE  x.text \in BothTexts(d, a, b, sep)
    BY <1>6, Zenon DEF BothTexts, t1, ta, tb
  <1> QED BY <1>2, <1>4, <1>5, <1>6, Zenon DEF t1, ta, tb, cap

LEMMA ListIs ==
    ASSUME NEW l \in Lists
    PROVE  \/ l = <<>>
           \/ \E a \in live : l = <<a>>
           \/ \E a, b \in live : a # b /\ l = <<a, b>>
  <1>1. PICK m \in 0 .. 2 : l \in [1 .. m -> live]
    BY DEF Lists, BoundedSeq, SeqOf
  <1>2. \A i, j \in DOMAIN l : l[i] = l[j] => i = j
    BY DEF Lists, IsInjective
  <1>3. CASE m = 0
    BY <1>1, <1>3
  <1>4. CASE m = 1
    <2>1. l[1] \in live /\ l = <<l[1]>>
      BY <1>1, <1>4
    <2> QED BY <2>1
  <1>5. CASE m = 2
    <2>1. l[1] \in live /\ l[2] \in live /\ l = <<l[1], l[2]>> /\ 1 \in DOMAIN l /\ 2 \in DOMAIN l
      BY <1>1, <1>5
    <2>2. l[1] # l[2]
      BY <1>2, <2>1
    <2> QED BY <2>1, <2>2
  <1> QED BY <1>1, <1>3, <1>4, <1>5

(* All that join comes to of what Texts says of it, for the texts there are.*)
JoinSays(c, d, list, parts, by) ==
    LET k    == CHOOSE i \in DOMAIN list : list[i] = d
        upto == IF k = 1 THEN <<>> ELSE T!Joined(SubSeq(parts, 1, k - 1), by) \o by
    IN  IF d \notin T!ToSet(list) THEN T!Edit(c, d, T!Joined(parts, by))
        ELSE \/ T!Looks(c, Len(T!Joined(parts, by)))
             \/ /\ T!Says(c, 0)
                /\ \E t \in {upto, upto \o upto} :
                      T!Becomes(d, T!Joined(<<t>> \o SubSeq(parts, k + 1, Len(parts)), by))

LEMMA JoinSaysFew ==
    ASSUME NEW c, NEW d, NEW by \in Seq(Nat), NEW a, NEW b,
           NEW ta \in Seq(Nat), NEW tb \in Seq(Nat)
    PROVE  /\ T!Edit(c, d, <<>>) => JoinSays(c, d, <<>>, <<>>, by)
           /\ LET t == IF a = d THEN <<>> ELSE ta
              IN  \/ T!Says(c, 0) /\ T!Becomes(d, t)
                  \/ T!Looks(c, Len(ta))
                  => JoinSays(c, d, <<a>>, <<ta>>, by)
           /\ LET p == (IF a = d THEN <<>> ELSE ta) \o by
              IN  /\ a # b
                  /\ \/ T!Says(c, 0) /\ \E t \in IF b = d THEN {p, p \o p} ELSE {p \o tb} : T!Becomes(d, t)
                     \/ T!Looks(c, Len(ta) + Len(by) + Len(tb))
                  => JoinSays(c, d, <<a, b>>, <<ta, tb>>, by)
  <1>6. \A t \in Seq(Nat) : T!Joined(<<t>>, by) = t
    BY JoinsFew
  <1>7. <<>> \in Seq(Nat)
    OBVIOUS
  <1>8. T!Joined(<<ta, tb>>, by) = (ta \o by) \o tb
    <2>1. T!Joined(<<ta, tb>>, by) = ta \o (by \o tb)
      BY JoinsFew
    <2>2. ASSUME NEW x \in Seq(Nat), NEW y \in Seq(Nat), NEW z \in Seq(Nat)
          PROVE  x \o (y \o z) = (x \o y) \o z
      <3> DEFINE u == x \o (y \o z)
                 v == (x \o y) \o z
      <3>1. u \in Seq(Nat) /\ v \in Seq(Nat) /\ Len(u) = Len(v)
        OBVIOUS
      <3>2. \A i \in 1 .. Len(u) : u[i] = v[i]
        OBVIOUS
      <3> HIDE DEF u, v
      <3>3. u = v
        BY <3>1, <3>2, SeqEqual
      <3> QED BY <3>3 DEF u, v
    <2> QED BY <2>1, <2>2
  <1>5. ASSUME NEW u \in Seq(Nat), NEW v \in Seq(Nat) PROVE <<u>> \o <<v>> = <<u, v>>
    <2> DEFINE q == <<u>> \o <<v>>
    <2>1. <<u>> \in Seq(Seq(Nat)) /\ <<v>> \in Seq(Seq(Nat)) /\ Len(<<u>>) = 1 /\ Len(<<v>>) = 1
      OBVIOUS
    <2>2. q \in Seq(Seq(Nat)) /\ Len(q) = 2 /\ q[1] = u /\ q[2] = v
      BY <2>1
    <2> HIDE DEF q
    <2>3. q = <<u, v>>
      BY <2>2
    <2> QED BY <2>3 DEF q
  <1>0. /\ SubSeq(<<ta>>, 2, 1) = <<>>
        /\ SubSeq(<<ta, tb>>, 2, 2) = <<tb>>
        /\ SubSeq(<<ta, tb>>, 1, 1) = <<ta>>
        /\ SubSeq(<<ta, tb>>, 3, 2) = <<>>
    BY FewParts
  <1>1. T!Edit(c, d, <<>>) => JoinSays(c, d, <<>>, <<>>, by)
    <2>1. d \notin T!ToSet(<<>>)
      BY DEF T!ToSet
    <2>2. T!Joined(<<>>, by) = <<>>
      BY JoinsFew, ta \in Seq(Nat)
    <2> QED BY <2>1, <2>2 DEF JoinSays
  <1>2. ASSUME \/ T!Says(c, 0) /\ T!Becomes(d, IF a = d THEN <<>> ELSE ta)
               \/ T!Looks(c, Len(ta))
        PROVE  JoinSays(c, d, <<a>>, <<ta>>, by)
    <2> DEFINE l == <<a>>
               ps == <<ta>>
    <2>1. T!Joined(ps, by) = ta
      BY JoinsFew
    <2>2. DOMAIN l = {1} /\ l[1] = a /\ T!ToSet(l) = {a} /\ Len(ps) = 1
      BY DEF T!ToSet
    <2>3. CASE a # d
      <3>1. T!Edit(c, d, ta)
        BY <1>2, <2>3 DEF T!Edit, T!Looks
      <3>2. d \notin T!ToSet(l)
        BY <2>2, <2>3
      <3> HIDE DEF l, ps
      <3>3. JoinSays(c, d, l, ps, by)
        BY <2>1, <3>1, <3>2 DEF JoinSays
      <3> QED BY <3>3 DEF l, ps
    <2>4. CASE a = d
      <3> DEFINE k == CHOOSE i \in DOMAIN l : l[i] = d
                 upto == IF k = 1 THEN <<>> ELSE T!Joined(SubSeq(ps, 1, k - 1), by) \o by
                 qs(t) == <<t>> \o SubSeq(ps, k + 1, Len(ps))
      <3>1. k = 1
        BY <2>2, <2>4
      <3>2. upto = <<>>
        BY <3>1
      <3>3. SubSeq(ps, k + 1, Len(ps)) = <<>>
        <4>1. SubSeq(ps, 2, 1) = <<>>
          BY <1>0, Zenon
        <4> HIDE DEF k, ps
        <4>2. k + 1 = 2 /\ Len(ps) = 1
          BY <2>2, <3>1
        <4> QED BY <4>1, <4>2, Zenon
      <3> HIDE DEF k, upto
      <3>4. qs(<<>>) = <<<<>>>>
        <4>1. <<<<>>>> \o <<>> = <<<<>>>>
          OBVIOUS
        <4> QED BY <3>3, <4>1
      <3>5. T!Joined(qs(<<>>), by) = <<>>
        BY <1>6, <1>7, <3>4, Zenon
      <3>6. d \in T!ToSet(l)
        BY <2>2, <2>4
      <3> HIDE DEF qs, l, ps
      <3>7. CASE T!Looks(c, Len(ta))
        <4>1. T!Looks(c, Len(T!Joined(ps, by)))
          BY <2>1, <3>7
        <4> QED BY <3>6, <4>1 DEF JoinSays, l, ps
      <3>8. CASE T!Says(c, 0) /\ T!Becomes(d, <<>>)
        <4>1. T!Becomes(d, T!Joined(qs(<<>>), by)) /\ <<>> \in {upto, upto \o upto}
          BY <3>2, <3>5, <3>8
        <4>2. T!Says(c, 0) /\ \E t \in {upto, upto \o upto} : T!Becomes(d, T!Joined(qs(t), by))
          BY <3>8, <4>1
        <4>3. JoinSays(c, d, l, ps, by)
          BY <3>6, <4>2, Zenon DEF JoinSays, qs, upto, k
        <4> QED BY <4>3 DEF l, ps
      <3> QED BY <1>2, <2>4, <3>7, <3>8
    <2> QED BY <2>3, <2>4
  <1>3. ASSUME NEW p \in Seq(Nat), p = (IF a = d THEN <<>> ELSE ta) \o by, a # b,
               \/ T!Says(c, 0) /\ \E t \in IF b = d THEN {p, p \o p} ELSE {p \o tb} : T!Becomes(d, t)
               \/ T!Looks(c, Len(ta) + Len(by) + Len(tb))
        PROVE  JoinSays(c, d, <<a, b>>, <<ta, tb>>, by)
    <2> DEFINE l == <<a, b>>
               ps == <<ta, tb>>
               w == (ta \o by) \o tb
               k == CHOOSE i \in DOMAIN l : l[i] = d
               upto == IF k = 1 THEN <<>> ELSE T!Joined(SubSeq(ps, 1, k - 1), by) \o by
               qs(t) == <<t>> \o SubSeq(ps, k + 1, Len(ps))
    <2>1. T!Joined(ps, by) = w
      BY <1>8, Zenon
    <2>2. DOMAIN l = {1, 2} /\ l[1] = a /\ l[2] = b /\ T!ToSet(l) = {a, b} /\ Len(ps) = 2
      BY DEF T!ToSet
    <2>3. Len(w) = Len(ta) + Len(by) + Len(tb)
      OBVIOUS
    <2>4. CASE a # d /\ b # d
      <3>1. d \notin T!ToSet(l)
        BY <2>2, <2>4
      <3>2. p \o tb = w
        BY <1>3, <2>4
      <3> HIDE DEF l, ps, w
      <3>3. T!Edit(c, d, w)
        BY <1>3, <2>3, <2>4, <3>2 DEF T!Edit, T!Looks
      <3>4. JoinSays(c, d, l, ps, by)
        BY <2>1, <3>1, <3>3 DEF JoinSays
      <3> QED BY <3>4 DEF l, ps
    <2>5. ASSUME d \in {a, b}, T!Looks(c, Len(ta) + Len(by) + Len(tb))
          PROVE  JoinSays(c, d, <<a, b>>, <<ta, tb>>, by)
      <3>1. d \in T!ToSet(l)
        BY <2>2, <2>5
      <3> HIDE DEF l, ps, w
      <3>2. T!Looks(c, Len(T!Joined(ps, by)))
        BY <2>1, <2>3, <2>5
      <3> QED BY <3>1, <3>2 DEF JoinSays, l, ps
    <2>6. ASSUME d \in {a, b}, T!Says(c, 0), NEW t \in {upto, upto \o upto},
                 T!Becomes(d, T!Joined(qs(t), by))
          PROVE  JoinSays(c, d, <<a, b>>, <<ta, tb>>, by)
      <3>1. d \in T!ToSet(l)
        BY <2>2, <2>6
      <3> HIDE DEF l, ps, w, upto, qs
      <3>2. T!Says(c, 0) /\ \E u \in {upto, upto \o upto} : T!Becomes(d, T!Joined(qs(u), by))
        BY <2>6
      <3> HIDE DEF k
      <3>3. JoinSays(c, d, l, ps, by)
        BY <3>1, <3>2, Zenon DEF JoinSays, qs, upto, k
      <3> QED BY <3>3 DEF l, ps
    <2>7. CASE a = d
      <3>1. k = 1
        BY <2>2, <2>7
      <3>2. upto = <<>>
        BY <3>1
      <3>3. SubSeq(ps, k + 1, Len(ps)) = <<tb>>
        <4>1. SubSeq(ps, 2, 2) = <<tb>>
          BY <1>0, Zenon
        <4> HIDE DEF k, ps
        <4>2. k + 1 = 2 /\ Len(ps) = 2
          BY <2>2, <3>1
        <4> QED BY <4>1, <4>2, Zenon
      <3> HIDE DEF k, upto
      <3>4. qs(<<>>) = <<<<>>, tb>>
        <4>1. <<<<>>>> \o <<tb>> = <<<<>>, tb>>
          BY <1>5, <<>> \in Seq(Nat), Zenon
        <4> HIDE DEF ps
        <4> QED BY <3>3, <4>1, Zenon
      <3>5. T!Joined(qs(<<>>), by) = p \o tb
        <4>1. T!Joined(<<<<>>, tb>>, by) = <<>> \o (by \o tb)
          BY JoinsFew, <<>> \in Seq(Nat)
        <4>2. p = by
          <5>1. <<>> \o by = by
            OBVIOUS
          <5> QED BY <1>3, <2>7, <5>1
        <4>3. <<>> \o (by \o tb) = by \o tb
          OBVIOUS
        <4> QED BY <3>4, <4>1, <4>2, <4>3
      <3> HIDE DEF qs, ps, l
      <3>6. CASE T!Says(c, 0) /\ \E t \in {p \o tb} : T!Becomes(d, t)
        <4>1. <<>> \in {upto, upto \o upto} /\ d \in {a, b}
          BY <2>7, <3>2
        <4>2. T!Becomes(d, T!Joined(qs(<<>>), by))
          BY <3>5, <3>6
        <4> QED BY <2>6, <3>6, <4>1, <4>2
      <3> QED BY <1>3, <2>5, <2>7, <3>6
    <2>8. CASE b = d
      <3>0. a # d
        BY <1>3, <2>8
      <3>1. k = 2
        BY <2>2, <2>8, <3>0
      <3>2. upto = p
        <4>1. SubSeq(ps, 1, 1) = <<ta>>
          BY <1>0, Zenon
        <4> HIDE DEF k, ps
        <4>2. k - 1 = 1 /\ k # 1
          BY <3>1
        <4>3. upto = T!Joined(<<ta>>, by) \o by
          BY <4>1, <4>2, Zenon DEF upto
        <4> HIDE DEF upto
        <4> QED BY <1>3, <3>0, <4>3, JoinsFew
      <3>3. SubSeq(ps, k + 1, Len(ps)) = <<>>
        <4>1. SubSeq(ps, 3, 2) = <<>>
          BY <1>0, Zenon
        <4> HIDE DEF k, ps
        <4>2. k + 1 = 3 /\ Len(ps) = 2
          BY <2>2, <3>1
        <4> QED BY <4>1, <4>2, Zenon
      <3> HIDE DEF k, upto
      <3>4. ASSUME NEW t \in Seq(Nat) PROVE T!Joined(qs(t), by) = t
        <4>1. <<t>> \o <<>> = <<t>>
          OBVIOUS
        <4> HIDE DEF ps
        <4>2. qs(t) = <<t>>
          BY <3>3, <4>1, Zenon
        <4> HIDE DEF qs
        <4> QED BY <4>2, JoinsFew
      <3> HIDE DEF qs, ps, l
      <3>5. CASE T!Says(c, 0) /\ \E t \in {p, p \o p} : T!Becomes(d, t)
        <4>1. PICK t \in {p, p \o p} : T!Becomes(d, t)
          BY <3>5
        <4>2. t \in {upto, upto \o upto} /\ d \in {a, b}
          BY <2>8, <3>2, Zenon
        <4>4. t \in Seq(Nat)
          <5>1. p \o p \in Seq(Nat)
            OBVIOUS
          <5> QED BY <5>1, Zenon
        <4>3. T!Becomes(d, T!Joined(qs(t), by))
          BY <3>4, <4>1, <4>4
        <4> QED BY <2>6, <3>5, <4>2, <4>3
      <3> QED BY <1>3, <2>5, <2>8, <3>5
    <2> QED BY <2>4, <2>7, <2>8
  <1>4. (IF a = d THEN <<>> ELSE ta) \o by \in Seq(Nat)
    OBVIOUS
  <1> QED BY <1>1, <1>2, <1>3, <1>4

LEMMA JoinJoins ==
    ASSUME Shaped, NEW d \in live, NEW l \in Lists, NEW w \in caller.words, Join(d, w, l)
    PROVE  T!Join(d, w, l)
  <1> DEFINE c == <<"join", d, w, l>>
             sep == IF w = NULL THEN <<>> ELSE w
             size == JoinedSize(l, sep)
             s == strings[d]
             q == WithRoom(s, size)
             ps == [i \in DOMAIN l |-> Shown[l[i]]]
  <1>0. /\ Calling(c) /\ sep \in Seq(Nat) /\ s \in Rec /\ Sound(s) /\ d \in Names
    <2>1. Calling(c)
      BY Zenon DEF Join
    <2>2. sep \in Seq(Nat)
      BY CallerIs DEF Words
    <2> QED BY <2>1, <2>2, StringIs
  <1>1. JoinSays(c, d, l, ps, sep) => T!Join(d, w, l)
    <2>1. \A t : T!Looks(c, Len(t)) => T!Edit(c, d, t)
      BY Zenon DEF T!Edit, T!Looks
    <2> QED BY <2>1, Zenon DEF T!Join, JoinSays, Shown
  <1>2. \/ l = <<>> /\ Set(d, [s EXCEPT !.text = <<>>]) /\ ret' = 0
        \/ /\ l # <<>> /\ CanHold(s, size) /\ ret' = 0
           /\ \E x \in JoinedOnto(d, q, sep, l) : Set(d, x)
        \/ l # <<>> /\ UNCHANGED strings /\ ret' = size
    BY Zenon DEF Join, Returns
  <1>3. /\ UNCHANGED strings /\ ret' = size => T!Looks(c, size)
        /\ \A x : Set(d, x) /\ ret' = 0 => T!Says(c, 0) /\ T!Becomes(d, x.text)
    <2> HIDE DEF c, size
    <2> QED BY <1>0, ReadsLooks, ShownBecomes, CallingSays
  <1>4. size \in Int => (CanHold(s, size) => q \in Rec /\ Sound(q) /\ Capacity(q) >= size)
    <2> HIDE DEF s, size
    <2> QED BY <1>0, WithRoomIs
  <1>5. \A e \in live : Shown[e] = Text(e) /\ Text(e) \in Seq(Nat) /\ Len(Text(e)) \in Nat
    BY StringIs, ShownIs
  <1>6. CASE l = <<>>
    <2>1. T!Says(c, 0) /\ T!Becomes(d, <<>>)
      <3>1. [s EXCEPT !.text = <<>>].text = <<>>
        BY <1>0, RecIs
      <3> HIDE DEF s
      <3> QED BY <1>2, <1>3, <1>6, <3>1, Zenon
    <2>2. ps = <<>>
      BY <1>6
    <2> HIDE DEF ps, c, sep
    <2>3. JoinSays(c, d, <<>>, <<>>, sep)
      <3>1. T!Edit(c, d, <<>>)
        BY <2>1 DEF T!Edit
      <3> QED BY <1>0, <3>1, JoinSaysFew, Zenon
    <2> QED BY <1>1, <1>6, <2>2, <2>3
  <1>7. ASSUME NEW a \in live, l = <<a>> PROVE T!Join(d, w, l)
    <2>1. ps = <<Text(a)>> /\ l # <<>>
      BY <1>5, <1>7
    <2>2. size = Len(Text(a)) /\ size \in Int
      <3> HIDE DEF sep
      <3>1. JoinedSize(<<a>>, sep) = Len(Text(a)) /\ Len(Text(a)) \in Nat
        BY <1>0, <1>5, JoinedSizeFew
      <3> QED BY <1>7, <3>1
    <2> DEFINE t == IF a = d THEN <<>> ELSE Text(a)
    <2>3. \/ T!Says(c, 0) /\ T!Becomes(d, t)
          \/ T!Looks(c, Len(Text(a)))
      <3>1. CASE UNCHANGED strings /\ ret' = size
        BY <1>3, <2>2, <3>1
      <3>2. ASSUME CanHold(s, size), ret' = 0, NEW x \in JoinedOnto(d, q, sep, l), Set(d, x)
            PROVE  T!Says(c, 0) /\ T!Becomes(d, t)
        <4>1. x.text = t
          <5>1. q \in Rec /\ Sound(q) /\ size <= Capacity(q)
            BY <1>4, <2>2, <3>2
          <5> HIDE DEF q, size, sep, s
          <5>2. x \in JoinedOnto(d, q, sep, <<a>>) /\ JoinedSize(<<a>>, sep) <= Capacity(q)
            BY <1>7, <3>2, <5>1 DEF size
          <5> QED BY <1>0, <5>1, <5>2, JoinedText
        <4> HIDE DEF c, t
        <4> QED BY <1>3, <3>2, <4>1, Zenon
      <3> HIDE DEF c, t, q, s, size
      <3> QED BY <1>2, <2>1, <3>1, <3>2
    <2> HIDE DEF c, ps, sep
    <2>4. JoinSays(c, d, <<a>>, <<Text(a)>>, sep)
      BY <1>0, <1>5, <2>3, JoinSaysFew, Zenon
    <2> QED BY <1>1, <1>7, <2>1, <2>4
  <1>8. ASSUME NEW a \in live, NEW b \in live, a # b, l = <<a, b>> PROVE T!Join(d, w, l)
    <2>1. ps = <<Text(a), Text(b)>> /\ l # <<>>
      BY <1>5, <1>8
    <2>2. size = Len(Text(a)) + Len(sep) + Len(Text(b)) /\ size \in Int
      <3> HIDE DEF sep
      <3>1. JoinedSize(<<a, b>>, sep) = Len(Text(a)) + Len(sep) + Len(Text(b))
        BY <1>0, JoinedSizeFew
      <3>2. Len(Text(a)) \in Nat /\ Len(Text(b)) \in Nat /\ Len(sep) \in Nat
        BY <1>0, <1>5
      <3> QED BY <1>8, <3>1, <3>2
    <2> DEFINE p == (IF a = d THEN <<>> ELSE Text(a)) \o sep
               ts == IF b = d THEN {p, p \o p} ELSE {p \o Text(b)}
    <2>3. \/ T!Says(c, 0) /\ \E t \in ts : T!Becomes(d, t)
          \/ T!Looks(c, Len(Text(a)) + Len(sep) + Len(Text(b)))
      <3>1. CASE UNCHANGED strings /\ ret' = size
        BY <1>3, <2>2, <3>1
      <3>2. ASSUME CanHold(s, size), ret' = 0, NEW x \in JoinedOnto(d, q, sep, l), Set(d, x)
            PROVE  T!Says(c, 0) /\ \E t \in ts : T!Becomes(d, t)
        <4>1. x.text \in ts
          <5>1. q \in Rec /\ Sound(q) /\ size <= Capacity(q)
            BY <1>4, <2>2, <3>2
          <5> HIDE DEF q, size, sep, s
          <5>2. x \in JoinedOnto(d, q, sep, <<a, b>>) /\ JoinedSize(<<a, b>>, sep) <= Capacity(q)
            BY <1>8, <3>2, <5>1 DEF size
          <5>3. x.text \in BothTexts(d, a, b, sep)
            BY <1>0, <5>1, <5>2, JoinedTexts
          <5> QED BY <5>3, Zenon DEF BothTexts
        <4> HIDE DEF c, ts
        <4> QED BY <1>3, <3>2, <4>1, Zenon
      <3> HIDE DEF c, ts, q, s, size
      <3> QED BY <1>2, <2>1, <3>1, <3>2
    <2> HIDE DEF c, ps, sep
    <2>4. JoinSays(c, d, <<a, b>>, <<Text(a), Text(b)>>, sep)
      BY <1>0, <1>5, <1>8, <2>3, JoinSaysFew, Zenon
    <2> QED BY <1>1, <1>8, <2>1, <2>4
  <1> HIDE DEF c, ps
  <1> QED BY <1>6, <1>7, <1>8, ListIs

LEMMA SamePieces ==
    /\ \A ps, by : T!Joined(ps, by) = Joined(ps, by)
    /\ \A s, sep : T!Pieces(s, sep) = Pieces(s, sep)
    /\ \A s, sep, n : T!PiecesUpTo(s, sep, n) = PiecesUpTo(s, sep, n)
  <1>1. ASSUME NEW ps, NEW by PROVE T!Joined(ps, by) = Joined(ps, by)
    BY SameSequences, Zenon DEF T!Joined, Joined
  <1>2. ASSUME NEW s, NEW sep PROVE T!Pieces(s, sep) = Pieces(s, sep)
    BY SameWords, Zenon DEF T!Pieces, Pieces
  <1>3. ASSUME NEW s, NEW sep, NEW n PROVE T!PiecesUpTo(s, sep, n) = PiecesUpTo(s, sep, n)
    BY <1>1, <1>2, Zenon DEF T!PiecesUpTo, PiecesUpTo
  <1> QED BY <1>1, <1>2, <1>3

LEMMA JoinedOne ==
    ASSUME NEW x \in Seq(Nat), NEW by \in Seq(Nat)
    PROVE  Joined(<<x>>, by) = x
  BY JoinsFew, SamePieces, Zenon

(* Joined again, the pieces are the text.                                   *)
LEMMA PiecesJoin ==
    ASSUME NEW s \in Seq(Nat), NEW sep \in Seq(Nat),
           NEW f \in [0 .. Len(s) -> Seq(Seq(Nat))], CutsUp(f, s, sep)
    PROVE  \A a \in 0 .. Len(s) : Len(f[a]) >= 1 /\ Joined(f[a], sep) = Window(s, a, Len(s) - a)
  <1> DEFINE n == Len(s)
             m == Len(sep)
             Ok(a) == Len(f[a]) >= 1 /\ Joined(f[a], sep) = Window(s, a, n - a)
             B == {a \in 0 .. n : ~ Ok(a)}
  <1>0. n \in Nat /\ m \in Nat
    OBVIOUS
  <1>1. ASSUME NEW a \in 0 .. n, \A b \in a + 1 .. n : Ok(b) PROVE Ok(a)
    <2>1. CASE f[a] = << Window(s, a, n - a) >>
      <3> DEFINE w == Window(s, a, n - a)
      <3>1. w \in Seq(Nat)
        BY <1>0, WindowIs
      <3> HIDE DEF w
      <3>2. Joined(<<w>>, sep) = w /\ Len(<<w>>) = 1
        BY <3>1, JoinedOne
      <3> QED BY <2>1, <3>2 DEF w
    <2>2. CASE /\ m >= 1 /\ FirstSep(s, sep, a) \in a .. n - m /\ Occurs(s, sep, FirstSep(s, sep, a))
               /\ f[a] = << Window(s, a, FirstSep(s, sep, a) - a) >> \o f[FirstSep(s, sep, a) + m]
      <3> DEFINE p == FirstSep(s, sep, a)
                 q == p + m
                 x == Window(s, a, p - a)
                 ps == f[q]
      <3>1. m >= 1 /\ p \in a .. n - m /\ Occurs(s, sep, p) /\ f[a] = <<x>> \o ps
        BY <2>2
      <3> HIDE DEF p
      <3>2. q \in a + 1 .. n /\ q \in 0 .. n /\ p \in Nat /\ a \in Nat /\ p - a \in Nat /\ a + (p - a) <= n
            /\ a <= p /\ p + m <= n
        BY <1>0, <3>1
      <3>3. x \in Seq(Nat)
        BY <3>2, WindowIs
      <3>4. ps \in Seq(Seq(Nat)) /\ Len(ps) >= 1 /\ Joined(ps, sep) = Window(s, q, n - q)
        BY <1>1, <3>2
      <3>5. Window(s, a, n - a) = x \o (sep \o Window(s, q, n - q))
        BY <3>1, <3>2, AroundSep
      <3> HIDE DEF x, ps, q
      <3>6. Joined(<<x>> \o ps, sep) = x \o (sep \o Joined(ps, sep))
        BY <3>3, <3>4, JoinedMore
      <3>7. Len(<<x>> \o ps) = Len(ps) + 1 /\ Len(ps) \in Nat
        BY <3>3, <3>4, InFront
      <3>8. Len(f[a]) >= 1
        BY <3>1, <3>7
      <3>9. Joined(f[a], sep) = Window(s, a, n - a)
        BY <3>1, <3>4, <3>5, <3>6, Zenon
      <3> QED BY <3>8, <3>9
    <2> HIDE DEF Ok
    <2> QED BY <2>1, <2>2 DEF CutsUp
  <1> HIDE DEF Ok
  <1>2. B = {}
    <2> SUFFICES ASSUME B # {} PROVE FALSE
      OBVIOUS
    <2>1. PICK a \in B : \A b \in B : b <= a
      <3>1. B \in SUBSET (0 .. n)
        OBVIOUS
      <3> HIDE DEF B
      <3> QED BY <1>0, <3>1, GreatestOfSet
    <2>2. \A b \in a + 1 .. n : Ok(b)
      BY <1>0, <2>1
    <2> QED BY <1>1, <2>1, <2>2
  <1>3. \A a \in 0 .. n : Ok(a)
    BY <1>2
  <1> QED BY <1>3 DEF Ok

(* The pieces there are with room for one or two.                           *)
LEMMA PiecesFew ==
    ASSUME NEW s \in Seq(Nat), NEW sep \in Seq(Nat), Occurrences(s, sep, 0, Len(s)) # {}
    PROVE  LET p == FirstSep(s, sep, 0)
           IN  /\ PiecesUpTo(s, sep, 1) = << Window(s, 0, Len(s)) >>
               /\ PiecesUpTo(s, sep, 2) =
                     << Window(s, 0, p), Window(s, p + Len(sep), Len(s) - (p + Len(sep))) >>
               /\ p \in Nat /\ p + Len(sep) <= Len(s)
  <1> DEFINE n == Len(s)
             m == Len(sep)
             p == FirstSep(s, sep, 0)
             q == p + m
             x == Window(s, 0, p)
             y == Window(s, q, n - q)
             all == Pieces(s, sep)
  <1>0. n \in Nat /\ m \in Nat /\ 0 \in 0 .. n /\ n - 0 = n
    OBVIOUS
  <1>1. PICK f \in [0 .. n -> Seq(Seq(Nat))] : CutsUp(f, s, sep) /\ all = f[0]
    BY PiecesCut
  <1>2. \A a \in 0 .. n : Len(f[a]) >= 1 /\ Joined(f[a], sep) = Window(s, a, n - a)
    BY <1>1, PiecesJoin
  <1> DEFINE rest == f[q]
  <1>3. p \in 0 .. n - m /\ all = << Window(s, 0, p - 0) >> \o rest
    BY <1>0, <1>1 DEF CutsUp
  <1> HIDE DEF p, all
  <1>4. p \in Nat /\ q \in 0 .. n /\ p + m <= n /\ p - 0 = p
    BY <1>0, <1>3
  <1>5. x \in Seq(Nat) /\ all = <<x>> \o rest
    <2>1. 0 + p <= Len(s) /\ 0 \in Nat
      BY <1>0, <1>4
    <2>2. x \in Seq(Nat)
      BY <1>4, <2>1, WindowIs, Zenon
    <2> QED BY <1>3, <1>4, <2>2, Zenon
  <1>6. rest \in Seq(Seq(Nat)) /\ Len(rest) >= 1 /\ Joined(rest, sep) = y
    BY <1>2, <1>4
  <1>7. Joined(all, sep) = Window(s, 0, n)
    BY <1>0, <1>1, <1>2
  <1> HIDE DEF x, y, q, rest, n, m
  <1>8. /\ all \in Seq(Seq(Nat)) /\ Len(all) = Len(rest) + 1 /\ all[1] = x
        /\ \A i \in 1 .. Len(rest) : all[i + 1] = rest[i]
    BY <1>5, <1>6, InFront
  <1>9. Len(rest) \in Nat /\ Len(all) \in Nat
    BY <1>6, <1>8
  <1>10. PiecesUpTo(s, sep, 1) = << Window(s, 0, n) >>
    <2>1. ~ (Len(all) <= 1)
      BY <1>6, <1>8, <1>9
    <2>2. PiecesUpTo(s, sep, 1) = Append(SubSeq(all, 1, 1 - 1), Joined(SubSeq(all, 1, Len(all)), sep))
      BY <2>1, Zenon DEF PiecesUpTo, all
    <2>3. SubSeq(all, 1, Len(all)) = all
      BY <1>8
    <2>4. SubSeq(all, 1, 0) = <<>> /\ 1 - 1 = 0
      BY <1>8
    <2>5. \A w : Append(<<>>, w) = <<w>>
      OBVIOUS
    <2> QED BY <1>7, <2>2, <2>3, <2>4, <2>5, Zenon
  <1>11. PiecesUpTo(s, sep, 2) = <<x, y>>
    <2>1. CASE Len(all) <= 2
      <3>1. PiecesUpTo(s, sep, 2) = all
        BY <2>1, Zenon DEF PiecesUpTo, all
      <3>2. Len(rest) = 1
        <4>1. ASSUME NEW i \in Nat, i >= 1, i + 1 <= 2 PROVE i = 1
          BY <4>1
        <4> QED BY <1>6, <1>8, <1>9, <2>1, <4>1
      <3>3. rest = <<rest[1]>> /\ rest[1] \in Seq(Nat)
        BY <1>6, <3>2, OnlyOne
      <3>4. rest[1] = y
        <4> DEFINE r == rest[1]
        <4> HIDE DEF r
        <4>1. Joined(<<r>>, sep) = r
          BY <3>3, JoinedOne DEF r
        <4> QED BY <1>6, <3>3, <4>1, Zenon DEF r
      <3>5. <<x>> \o <<y>> = <<x, y>>
        <4>1. y \in Seq(Nat)
          BY <3>3, <3>4
        <4> QED BY <1>5, <4>1, BothParts
      <3> QED BY <1>5, <3>1, <3>3, <3>4, <3>5, Zenon
    <2>2. CASE ~ (Len(all) <= 2)
      <3>1. PiecesUpTo(s, sep, 2) = Append(SubSeq(all, 1, 2 - 1), Joined(SubSeq(all, 2, Len(all)), sep))
        BY <2>2, Zenon DEF PiecesUpTo, all
      <3>2. 2 - 1 = 1
        OBVIOUS
      <3>3. SubSeq(all, 1, 1) = <<x>>
        <4>1. 1 \in 1 .. Len(all)
          BY <1>6, <1>8, <1>9
        <4> QED BY <1>8, <4>1, OneOf
      <3>4. SubSeq(all, 2, Len(all)) = rest
        <4> DEFINE t == SubSeq(all, 2, Len(all))
        <4>1. t \in Seq(Seq(Nat)) /\ Len(t) = Len(rest) /\ \A i \in 1 .. Len(rest) : t[i] = all[i + 1]
          <5>1. all \in Seq(Seq(Nat)) /\ Len(rest) \in Nat /\ Len(all) = Len(rest) + 1
            BY <1>8, <1>9
          <5> HIDE DEF rest
          <5> QED BY <5>1, RestIs
        <4> HIDE DEF t
        <4>2. \A i \in 1 .. Len(rest) : t[i] = rest[i]
          BY <1>8, <4>1
        <4>3. t = rest
          BY <1>6, <4>1, <4>2, SeqEqual
        <4> QED BY <4>3 DEF t
      <3>5. Append(<<x>>, y) = <<x, y>>
        <4>1. y \in Seq(Nat)
          <5>1. Len(s) - (p + Len(sep)) \in Nat /\ p + Len(sep) \in Nat
            BY <1>0, <1>4 DEF m, n
          <5>2. (p + Len(sep)) + (Len(s) - (p + Len(sep))) <= Len(s)
            BY <1>0, <1>4 DEF m, n
          <5> QED BY <5>1, <5>2, WindowIs DEF y, q, m, n
        <4> QED BY <1>5, <4>1, AppendTwo
      <3> QED BY <1>6, <3>1, <3>2, <3>3, <3>4, <3>5, Zenon
    <2> QED BY <2>1, <2>2
  <1> QED BY <1>4, <1>10, <1>11 DEF x, y, q, n, m, p

(* The pieces that split cuts for one String and for two.                   *)
LEMMA CutsFew ==
    ASSUME NEW s \in Seq(Nat), NEW sep \in Seq(Nat), Occurrences(s, sep, 0, Len(s)) # {}
    PROVE  /\ Cuts(s, sep, 1) = PiecesUpTo(s, sep, 1)
           /\ Cuts(s, sep, 2) = PiecesUpTo(s, sep, 2)
  <1> DEFINE m == Len(sep)
             p == FirstSep(s, sep, 0)
             q == p + m
             At(v) == Find(s, sep, v, Len(s)) + Len(sep)
             Walks(f, n) == f = [i \in 0 .. n - 1 |-> IF i = 0 THEN 0 ELSE At(f[i - 1])]
             from(n) == CHOOSE f : Walks(f, n)
             piece(n, i) == IF i = n - 1 THEN Window(s, from(n)[i], Len(s) - from(n)[i])
                            ELSE Window(s, from(n)[i], from(n)[i + 1] - Len(sep) - from(n)[i])
  <1>0. Len(s) \in Nat /\ m \in Nat /\ Len(s) - 0 = Len(s)
    OBVIOUS
  <1>1. p \in Nat /\ p + m <= Len(s) /\ q - m - 0 = p
    <2>1. p \in Nat /\ p + m <= Len(s)
      BY PiecesFew
    <2> HIDE DEF p
    <2> QED BY <1>0, <2>1
  <1>2. At(0) = q
    BY FindFirst
  <1>3. ASSUME NEW n PROVE Cuts(s, sep, n) = [k \in 1 .. n |-> piece(n, k - 1)]
    BY Zenon DEF Cuts
  <1> HIDE DEF At, p, q
  <1>4. ASSUME NEW n \in {1, 2}
        PROVE  from(n)[0] = 0 /\ (n = 2 => from(n)[1] = q)
    <2> DEFINE g == [i \in 0 .. n - 1 |-> IF i = 0 THEN 0 ELSE At(0)]
               u == from(n)
    <2>1. Walks(g, n)
      <3>1. \A i \in 0 .. n - 1 : i # 0 => i = 1 /\ i - 1 = 0 /\ i - 1 \in 0 .. n - 1
        OBVIOUS
      <3>2. 0 \in 0 .. n - 1
        OBVIOUS
      <3>3. \A i \in 0 .. n - 1 : g[i] = IF i = 0 THEN 0 ELSE At(0)
        OBVIOUS
      <3>4. g[0] = 0
        BY <3>2, <3>3
      <3>5. g = [i \in 0 .. n - 1 |-> g[i]]
        OBVIOUS
      <3> HIDE DEF g
      <3>6. \A i \in 0 .. n - 1 : g[i] = IF i = 0 THEN 0 ELSE At(g[i - 1])
        BY <3>1, <3>3, <3>4
      <3> QED BY <3>5, <3>6
    <2>2. Walks(u, n)
      <3> HIDE DEF Walks, g
      <3> QED BY <2>1
    <2> HIDE DEF u
    <2>3. u[0] = 0
      <3>1. 0 \in 0 .. n - 1
        OBVIOUS
      <3> QED BY <2>2, <3>1
    <2>4. CASE n = 2
      <3>1. 1 \in 0 .. n - 1 /\ 1 - 1 = 0
        BY <2>4
      <3>2. u[1] = At(u[0])
        BY <2>2, <3>1
      <3> QED BY <1>2, <2>3, <3>2 DEF u
    <2> QED BY <2>3, <2>4 DEF u
  <1> HIDE DEF from
  <1>5. piece(1, 0) = Window(s, 0, Len(s))
    <2>1. from(1)[0] = 0 /\ 1 - 1 = 0
      BY <1>4
    <2> QED BY <1>0, <2>1
  <1>6. piece(2, 0) = Window(s, 0, p) /\ piece(2, 1) = Window(s, q, Len(s) - q)
    <2>1. from(2)[0] = 0 /\ from(2)[1] = q /\ 2 - 1 = 1 /\ 0 + 1 = 1 /\ 0 # 1
      BY <1>4
    <2>2. piece(2, 0) = Window(s, 0, q - m - 0)
      BY <2>1
    <2> QED BY <1>1, <2>1, <2>2
  <1> HIDE DEF piece
  <1>7. Cuts(s, sep, 1) = << Window(s, 0, Len(s)) >>
    <2> DEFINE t == [k \in 1 .. 1 |-> piece(1, k - 1)]
    <2>1. t = << piece(1, 0) >>
      OBVIOUS
    <2> QED BY <1>3, <1>5, <2>1
  <1>8. Cuts(s, sep, 2) = << Window(s, 0, p), Window(s, q, Len(s) - q) >>
    <2> DEFINE t == [k \in 1 .. 2 |-> piece(2, k - 1)]
    <2>1. t = << piece(2, 0), piece(2, 1) >>
      OBVIOUS
    <2> QED BY <1>3, <1>6, <2>1
  <1>9. /\ PiecesUpTo(s, sep, 1) = << Window(s, 0, Len(s)) >>
        /\ PiecesUpTo(s, sep, 2) = << Window(s, 0, p), Window(s, q, Len(s) - q) >>
    BY PiecesFew DEF p, q
  <1> QED BY <1>7, <1>8, <1>9

(* The texts when the first k of l have taken their pieces, but the lost.   *)
Took(l, pieces, k, lost) ==
    [e \in Names |-> IF \E i \in 1 .. k : l[i] = e /\ i \notin lost
                     THEN pieces[CHOOSE i \in 1 .. k : l[i] = e] ELSE Shown[e]]

(* The empty pieces of Strings that cannot be changed.                      *)
Lost(l, pieces) == {i \in DOMAIN pieces : pieces[i] = <<>> /\ ~ Mutable(strings[l[i]])}

LEMMA FilledShows ==
    ASSUME Shaped, NEW l \in Seq(live), NEW pieces \in Seq(Seq(Nat)), Len(pieces) <= Len(l),
           NEW k \in 0 .. Len(pieces), Fill(l, pieces, k), strings' = Filled(l, pieces, k)
    PROVE  Shown' = Took(l, pieces, k, Lost(l, pieces))
  <1> DEFINE of(e) == CHOOSE i \in 1 .. k : l[i] = e
             lost == Lost(l, pieces)
             In1(e) == \E i \in 1 .. k : l[i] = e
             In2(e) == \E i \in 1 .. k : l[i] = e /\ i \notin lost
             new(e) == Written(strings[e], pieces[of(e)])
  <1>1. \A i \in 1 .. k : i \in DOMAIN pieces /\ l[i] \in live /\ pieces[i] \in Seq(Nat)
    <2> SUFFICES ASSUME NEW i \in 1 .. k PROVE i \in DOMAIN pieces /\ l[i] \in live /\ pieces[i] \in Seq(Nat)
      OBVIOUS
    <2>1. i \in 1 .. Len(l) /\ i \in 1 .. Len(pieces)
      OBVIOUS
    <2> QED BY <2>1
  <1>2. ASSUME NEW e \in Names PROVE In2(e) <=> (Mutable(strings[e]) /\ In1(e))
    <2>1. ASSUME NEW i \in 1 .. k, l[i] = e, ~ Mutable(strings[e]) PROVE i \in lost
      <3>1. pieces[i] = <<>>
        BY <2>1 DEF Fill
      <3> QED BY <1>1, <2>1, <3>1 DEF Lost
    <2>2. ASSUME NEW i \in 1 .. k, l[i] = e, Mutable(strings[e]) PROVE i \notin lost
      BY <2>2 DEF Lost
    <2> HIDE DEF lost
    <2> QED BY <2>1, <2>2
  <1>3. ASSUME NEW e \in Names, Mutable(strings[e]), In1(e) PROVE new(e).text = pieces[of(e)]
    <2> DEFINE i == of(e)
    <2>1. i \in 1 .. k /\ l[i] = e
      BY <1>3
    <2> HIDE DEF i
    <2>2. pieces[i] \in Seq(Nat) /\ strings[e] \in Rec /\ Sound(strings[e])
      BY <1>1, <2>1 DEF Shaped
    <2>3. CanHold(strings[e], Len(pieces[i]))
      <3>1. CASE pieces[i] = <<>>
        <4>1. Len(pieces[i]) = 0 /\ Capacity(strings[e]) >= 0
          BY <2>2, <3>1, RecIs, SMTT(30)
        <4> QED BY <4>1 DEF CanHold, HasRoom
      <3>2. CASE pieces[i] # <<>>
        BY <2>1, <3>2 DEF Fill
      <3> QED BY <3>1, <3>2
    <2>4. Written(strings[e], pieces[i]).text = pieces[i]
      BY <2>2, <2>3, WrittenIs
    <2> QED BY <2>4 DEF i
  <1>4. strings' = [e \in Names |-> IF Mutable(strings[e]) /\ In1(e) THEN new(e) ELSE strings[e]]
    BY Zenon DEF Filled
  <1> HIDE DEF of, In1, In2, new
  <1>5. ASSUME NEW e \in Names PROVE strings'[e].text = IF In2(e) THEN pieces[of(e)] ELSE Shown[e]
    <2>1. strings'[e] = IF Mutable(strings[e]) /\ In1(e) THEN new(e) ELSE strings[e]
      BY <1>4
    <2>2. Shown[e] = strings[e].text
      BY ShownIs DEF Text
    <2> QED BY <1>2, <1>3, <2>1, <2>2
  <1>6. Shown' = [e \in Names |-> strings'[e].text]
    BY DEF Shown, Text
  <1>7. Took(l, pieces, k, lost) = [e \in Names |-> IF In2(e) THEN pieces[of(e)] ELSE Shown[e]]
    BY Zenon DEF Took, In2, of
  <1> HIDE DEF lost
  <1>8. Shown' = [e \in Names |-> IF In2(e) THEN pieces[of(e)] ELSE Shown[e]]
    BY <1>5, <1>6
  <1> QED BY <1>7, <1>8 DEF lost

(* There is one piece for each of the Strings, if there are more.           *)
LEMMA SplitCuts ==
    ASSUME NEW s \in Seq(Nat), NEW sep \in Seq(Nat), NEW l \in Lists, l # <<>>
    PROVE  LET count == Count(s, sep, 0, Len(s))
           IN  /\ count \in Nat
               /\ count >= 1 <=> Occurrences(s, sep, 0, Len(s)) # {}
               /\ count >= 1 =>
                     Cuts(s, sep, Least(count, Len(l) - 1) + 1) = PiecesUpTo(s, sep, Len(l))
               /\ count >= 1 => /\ Cuts(s, sep, Least(count, Len(l) - 1) + 1) \in Seq(Seq(Nat))
                                /\ Len(Cuts(s, sep, Least(count, Len(l) - 1) + 1)) = Len(l)
  <1> DEFINE count == Count(s, sep, 0, Len(s))
             n == Least(count, Len(l) - 1) + 1
  <1>1. count \in Nat /\ (count > 0 => Len(sep) <= Len(s) /\ Len(sep) >= 1)
    BY CountIsNat
  <1>2. count > 0 <=> Occurrences(s, sep, 0, Len(s)) # {}
    BY CountsSome
  <1>3. Len(l) \in {1, 2}
    <2>1. CASE \E a \in live : l = <<a>>
      BY <2>1
    <2>2. CASE \E a, b \in live : a # b /\ l = <<a, b>>
      BY <2>2
    <2> QED BY <2>1, <2>2, ListIs
  <1> HIDE DEF count
  <1>4. count >= 1 => n = Len(l)
    <2>1. ASSUME NEW x \in Nat, NEW y \in {1, 2}, x >= 1 PROVE Least(x, y - 1) + 1 = y
      BY <2>1 DEF Least
    <2> QED BY <1>1, <1>3, <2>1
  <1> HIDE DEF n
  <1>5. ASSUME count >= 1 PROVE Cuts(s, sep, n) = PiecesUpTo(s, sep, Len(l))
    <2>1. Occurrences(s, sep, 0, Len(s)) # {}
      BY <1>1, <1>2, <1>5
    <2>2. Cuts(s, sep, 1) = PiecesUpTo(s, sep, 1) /\ Cuts(s, sep, 2) = PiecesUpTo(s, sep, 2)
      BY <2>1, CutsFew
    <2> QED BY <1>3, <1>4, <1>5, <2>2, Zenon
  <1>6. ASSUME count >= 1 PROVE Cuts(s, sep, n) \in Seq(Seq(Nat)) /\ Len(Cuts(s, sep, n)) = Len(l)
    <2>1. n \in Nat /\ n >= 1 /\ n = Len(l) /\ Len(sep) >= 1 /\ Len(sep) <= Len(s)
      BY <1>1, <1>3, <1>4, <1>6
    <2> QED BY <2>1, CutsAre
  <1>7. count >= 1 <=> count > 0
    BY <1>1
  <1> QED BY <1>1, <1>2, <1>5, <1>6, <1>7 DEF n, count

LEMMA SplitSplits ==
    ASSUME Shaped, Answered, NEW d \in live, NEW l \in Lists, NEW w \in caller.words, Split(l, d, w)
    PROVE  T!Split(l, d, w)
  <1> DEFINE c == <<"split", l, d, w>>
             s == Text(d)
             sep == IF w = NULL THEN WHITESPACE ELSE w
             count == Count(s, sep, 0, Len(s))
             pieces == Cuts(s, sep, Least(count, Len(l) - 1) + 1)
             said == T!PiecesUpTo(Shown[d], w, Len(l))
             none == Occurrences(s, sep, 0, Len(s)) = {}
             Taken(n) == \E lost \in SUBSET {i \in DOMAIN said : said[i] = <<>>} :
                            Shown' = Took(l, said, n, lost)
  <1>0. Calling(c) /\ call = None /\ d \in Names /\ l \in Seq(live) /\ s \in Seq(Nat) /\ Shown[d] = s
    BY StringIs, ShownIs, ListsAre, Zenon DEF Split, Calling
  <1>1. sep \in Seq(Nat)
    <2>1. WHITESPACE \in Seq(Nat)
      BY DEF WHITESPACE
    <2>2. w # NULL => w \in Seq(Nat)
      BY CallerIs DEF Words
    <2> QED BY <2>1, <2>2
  <1>2. w # NULL => said = PiecesUpTo(s, sep, Len(l))
    BY <1>0, SamePieces, Zenon
  <1>3. /\ w = NULL /\ T!Open(c, T!ToSet(l)) => T!Split(l, d, w)
        /\ w # NULL /\ l = <<>> /\ T!Looks(c, 0) => T!Split(l, d, w)
        /\ \A n \in 0 .. Len(said) :
              w # NULL /\ l # <<>> /\ T!Says(c, n) /\ Taken(n) => T!Split(l, d, w)
    <2>1. ASSUME w = NULL, T!Open(c, T!ToSet(l)) PROVE T!Split(l, d, w)
      BY <2>1, Zenon DEF T!Split
    <2>2. ASSUME w # NULL, l = <<>>, T!Looks(c, 0) PROVE T!Split(l, d, w)
      BY <2>2, Zenon DEF T!Split
    <2>3. ASSUME w # NULL, l # <<>>, NEW n \in 0 .. Len(said), T!Says(c, n), Taken(n)
          PROVE  T!Split(l, d, w)
      BY <2>3, Zenon DEF T!Split, Shown, Took
    <2> QED BY <2>1, <2>2, <2>3, Zenon
  <1>4. \/ /\ l = <<>> \/ count < 1
           /\ UNCHANGED strings /\ ret' = 0
        \/ /\ l # <<>> /\ count >= 1 /\ UNCHANGED strings /\ ret' = ret
        \/ /\ l # <<>> /\ count >= 1
           /\ \E k \in 0 .. Len(pieces) :
                 Fill(l, pieces, k) /\ strings' = Filled(l, pieces, k) /\ ret' = k
    BY Zenon DEF Split, SplitOnto, Crashes, Returns
  <1> HIDE DEF count
  <1>5. l # <<>> => /\ count \in Nat
                    /\ count >= 1 <=> ~ none
                    /\ count >= 1 => /\ pieces = PiecesUpTo(s, sep, Len(l))
                                     /\ pieces \in Seq(Seq(Nat)) /\ Len(pieces) = Len(l)
    BY <1>0, <1>1, SplitCuts DEF count
  <1> HIDE DEF pieces
  <1>6. \A e \in Names \ T!ToSet(l) : strings'[e] = strings[e]
    <2> SUFFICES ASSUME NEW e \in Names \ T!ToSet(l) PROVE strings'[e] = strings[e]
      OBVIOUS
    <2>1. ASSUME l # <<>>, count >= 1, NEW k \in 0 .. Len(pieces), strings' = Filled(l, pieces, k)
          PROVE  strings'[e] = strings[e]
      <3>1. \A i \in 1 .. k : i \in DOMAIN l
        BY <1>0, <1>5, <2>1
      <3>2. ~ \E i \in 1 .. k : l[i] = e
        BY <3>1 DEF T!ToSet
      <3> QED BY <2>1, <3>2 DEF Filled
    <2> QED BY <1>4, <2>1
  <1>7. CASE w = NULL
    <2> HIDE DEF c
    <2> QED BY <1>0, <1>3, <1>6, <1>7, LeavesOpen
  <1>8. CASE w # NULL
    <2>1. ASSUME UNCHANGED strings, ret' = 0 PROVE T!Split(l, d, w)
      <3>1. CASE l = <<>>
        <4> HIDE DEF c
        <4>1. T!Looks(c, 0)
          BY <1>0, <2>1, ReadsLooks
        <4> QED BY <1>3, <1>8, <3>1, <4>1
      <3>2. CASE l # <<>>
        <4>1. Len(said) \in Nat
          <5>1. CASE none
            <6>1. PICK f \in [0 .. Len(s) -> Seq(Seq(Nat))] : CutsUp(f, s, sep) /\ Pieces(s, sep) = f[0]
              BY <1>0, <1>1, PiecesCut
            <6>2. 0 \in 0 .. Len(s) /\ Len(l) \in Nat /\ Len(l) >= 1
              BY <1>0, <3>2
            <6>3. Len(Pieces(s, sep)) = 1
              <7>1. f[0] = << Window(s, 0, Len(s) - 0) >>
                BY <5>1, <6>1, <6>2, Zenon DEF CutsUp
              <7> QED BY <6>1, <7>1
            <6>4. PiecesUpTo(s, sep, Len(l)) = Pieces(s, sep)
              BY <6>2, <6>3 DEF PiecesUpTo
            <6> QED BY <1>2, <1>8, <6>3, <6>4
          <5>2. CASE ~ none
            BY <1>2, <1>5, <1>8, <3>2, <5>2
          <5> QED BY <5>1, <5>2
        <4>2. Taken(0)
          <5>1. Took(l, said, 0, {}) = [e \in Names |-> Shown[e]]
            BY DEF Took
          <5>2. [e \in Names |-> Shown[e]] = Shown
            BY DEF Shown
          <5>3. Shown' = Took(l, said, 0, {})
            BY <2>1, <5>1, <5>2, ShownKept
          <5> HIDE DEF said
          <5> QED BY <5>3
        <4> HIDE DEF c, said, Taken
        <4>3. T!Says(c, 0) /\ 0 \in 0 .. Len(said)
          BY <1>0, <2>1, <4>1, CallingSays
        <4> QED BY <1>3, <1>8, <3>2, <4>2, <4>3
      <3> QED BY <3>1, <3>2
    <2>2. ASSUME l # <<>>, count >= 1, NEW k \in 0 .. Len(pieces),
                 Fill(l, pieces, k), strings' = Filled(l, pieces, k), ret' = k
          PROVE  T!Split(l, d, w)
      <3>1. pieces \in Seq(Seq(Nat)) /\ Len(pieces) <= Len(l) /\ pieces = said
        BY <1>0, <1>2, <1>5, <1>8, <2>2
      <3>2. Shown' = Took(l, pieces, k, Lost(l, pieces))
        BY <1>0, <2>2, <3>1, FilledShows
      <3>3. Lost(l, pieces) \in SUBSET {i \in DOMAIN pieces : pieces[i] = <<>>}
        BY DEF Lost
      <3>4. Taken(k)
        <4> HIDE DEF said
        <4> QED BY <3>1, <3>2, <3>3
      <3> HIDE DEF c, said, Taken
      <3>5. T!Says(c, k) /\ k \in 0 .. Len(said)
        BY <1>0, <2>2, <3>1, CallingSays
      <3> QED BY <1>3, <1>8, <2>2, <3>4, <3>5
    <2>3. ret = 0
      BY <1>0 DEF Answered
    <2> QED BY <1>4, <2>1, <2>2, <2>3
  <1> QED BY <1>7, <1>8

-----------------------------------------------------------------------------
(* Replacing *)

LEMMA ReplacingOne ==
    ASSUME NEW x \in Seq(Nat), NEW old \in Seq(Nat), NEW new \in Seq(Nat), NEW n \in Nat
    PROVE  FlattenSeq(Replacing(<<x>>, old, new, n)) = x
  <1> DEFINE ps == <<x>>
             qs == Replacing(ps, old, new, n)
             rs == Parts(ps, old)
  <1>1. ps \in Seq(Seq(Nat)) /\ Len(ps) = 1 /\ ps[1] = x /\ 1 \in 1 .. 1
    OBVIOUS
  <1>2. FlattenSeq(rs) = x
    <2>1. Joined(ps, old) = x
      BY JoinedOne
    <2> HIDE DEF ps
    <2> QED BY <1>1, <2>1, PartsAre
  <1> HIDE DEF ps
  <1>3. qs \in Seq(Seq(Nat)) /\ Len(qs) = 1 /\ qs[1] = x
    <2>1. TakesTurns(qs, ps, old, new, n)
      BY <1>1, ReplacingIs, Zenon
    <2> HIDE DEF qs
    <2> QED BY <1>1, <2>1 DEF TakesTurns
  <1>4. rs \in Seq(Seq(Nat)) /\ Len(rs) = 1 /\ rs[1] = x
    <2>1. /\ rs \in Seq(Seq(Nat)) /\ Len(rs) = Len(ps)
          /\ \A i \in 1 .. Len(ps) : rs[i] = IF i = 1 THEN ps[1] ELSE old \o ps[i]
      BY <1>1, PartsAre
    <2> HIDE DEF rs
    <2> QED BY <1>1, <2>1
  <1> HIDE DEF qs, rs
  <1>5. qs = <<x>> /\ rs = <<x>>
    BY <1>3, <1>4, OnlyOne
  <1> QED BY <1>2, <1>5 DEF qs, ps

LEMMA PiecedEnd ==
    ASSUME NEW t \in Seq(Nat), NEW u \in Seq(Nat), NEW old \in Seq(Nat), NEW new \in Seq(Nat),
           Len(new) = Len(old), NEW e \in 0 .. Len(t), ChangedAt(u, t, Within(t, old, 0, e), new),
           NEW a \in 0 .. Len(t), \A q \in Spots(t, old) : q + Len(old) <= a,
           NEW f, f[a] = << Window(t, a, Len(t) - a) >>
    PROVE  Pieced(f, u, t, old, new, a, e)
  <1> DEFINE l == Len(t)
             w == Window(t, a, l - a)
             P == Within(t, old, 0, e)
  <1>0. l \in Nat /\ a \in Nat /\ l - a \in Nat /\ a + (l - a) <= l /\ Len(old) \in Nat
    OBVIOUS
  <1>1. w \in Seq(Nat)
    BY <1>0, WindowIs
  <1>2. Window(u, a, l - a) = w
    <2>1. P \in SUBSET Nat /\ Misses(P, Len(new), a, l - a)
      BY SpotsAre DEF Within, Misses
    <2>2. ChangedAt(u, t, P, new)
      OBVIOUS
    <2> HIDE DEF P
    <2> DEFINE n == l - a
    <2>3. n \in Nat /\ a + n <= Len(t) /\ Misses(P, Len(new), a, n)
      BY <1>0, <2>1
    <2> HIDE DEF n
    <2>4. Window(u, a, n) = Window(t, a, n)
      <3>1. /\ t \in Seq(Nat) /\ u \in Seq(Nat) /\ new \in Seq(Nat) /\ P \in SUBSET Nat /\ a \in Nat
        BY <1>0, <2>1
      <3> QED BY ONLY <2>2, <2>3, <3>1, Unchanged
    <2> QED BY <2>4 DEF n
  <1>3. \A x : Within(t, old, a, x) = {}
    <2>1. ASSUME NEW q \in Spots(t, old) PROVE ~ (a <= q)
      <3>1. q \in Nat /\ Len(old) >= 1 /\ q + Len(old) <= a
        BY SpotsAre
      <3> QED BY <1>0, <3>1
    <2> QED BY <2>1 DEF Within
  <1>4. Cardinality({}) = 0
    BY FS_EmptySet
  <1> HIDE DEF w
  <1>5. FlattenSeq(Replacing(<<w>>, old, new, 0)) = w /\ Len(<<w>>) = 1
    BY <1>1, ReplacingOne
  <1>6. /\ Cardinality(Within(t, old, a, Len(t))) = 0 /\ Cardinality(Within(t, old, a, e)) = 0
    BY <1>3, <1>4
  <1>7. Len(f[a]) = 1 /\ FlattenSeq(Replacing(f[a], old, new, 0)) = Window(u, a, Len(t) - a)
    BY <1>2, <1>5, Zenon DEF w
  <1> QED BY <1>6, <1>7 DEF Pieced

LEMMA PiecedAll ==
    ASSUME NEW t \in Seq(Nat), NEW u \in Seq(Nat), NEW old \in Seq(Nat), NEW new \in Seq(Nat),
           Len(new) = Len(old), NEW e \in 0 .. Len(t), ChangedAt(u, t, Within(t, old, 0, e), new),
           Apart(Spots(t, old), Len(old)),
           NEW f \in [0 .. Len(t) -> Seq(Seq(Nat))], CutsUp(f, t, old)
    PROVE  Pieced(f, u, t, old, new, 0, e)
  <1> DEFINE l == Len(t)
             m == Len(old)
             Ok(a) == ClearAt(t, old, a) => Pieced(f, u, t, old, new, a, e)
             B == {a \in 0 .. l : ~ Ok(a)}
  <1>0. l \in Nat /\ m \in Nat
    OBVIOUS
  <1>1. ASSUME NEW a \in 0 .. l, \A b \in a + 1 .. l : Ok(b) PROVE Ok(a)
    <2> SUFFICES ASSUME ClearAt(t, old, a) PROVE Pieced(f, u, t, old, new, a, e)
      OBVIOUS
    <2>0. a \in Nat /\ a <= l
      BY <1>0
    <2>1. ASSUME Occurrences(t, old, a, l) = {}, f[a] = << Window(t, a, l - a) >>
          PROVE  Pieced(f, u, t, old, new, a, e)
      <3>1. ASSUME NEW q \in Spots(t, old) PROVE q + m <= a
        <4>1. q \in Nat /\ q + m <= l
          BY SpotsAre
        <4>2. l \in 0 .. l
          BY <1>0
        <4>3. Occurrences(t, old, a, l) = {p \in Spots(t, old) : a <= p /\ p + m <= l}
          <5>1. \A x, y \in 0 .. Len(t) :
                   Occurrences(t, old, x, y) = {p \in Spots(t, old) : x <= p /\ p + Len(old) <= y}
            BY SpotsAre
          <5> QED BY ONLY <4>2, <5>1, a \in 0 .. l
        <4>4. ~ (a <= q)
          BY <2>1, <4>1, <4>3
        <4>5. q < a
          BY <2>0, <4>1, <4>4
        <4> QED BY <4>5 DEF ClearAt
      <3> QED BY <2>1, <3>1, PiecedEnd
    <2>2. ASSUME Occurrences(t, old, a, l) # {},
                 f[a] = << Window(t, a, FirstSep(t, old, a) - a) >> \o f[FirstSep(t, old, a) + m]
          PROVE  Pieced(f, u, t, old, new, a, e)
      <3> DEFINE p == FirstSep(t, old, a)
                 b == p + m
      <3>1. p \in Spots(t, old) /\ a <= p /\ Foremost(t, old, a, p)
        BY <2>2, FirstSpot DEF Foremost
      <3>2. f[a] = << Window(t, a, p - a) >> \o f[b]
        BY <2>2
      <3> HIDE DEF p
      <3>3. p \in Nat /\ m >= 1 /\ b <= l /\ b \in a + 1 .. l /\ b \in 0 .. l
        <4>1. p \in Nat /\ p + m <= l /\ m >= 1
          BY <3>1, SpotsAre
        <4> HIDE DEF m
        <4> QED BY <1>0, <2>0, <3>1, <4>1
      <3>4. ClearAt(t, old, b)
        <4> SUFFICES ASSUME NEW q \in Spots(t, old), q < b PROVE q + m <= b
          BY DEF ClearAt
        <4>1. q \in Nat /\ m >= 1
          BY SpotsAre
        <4>2. p < q => b <= q
          BY <3>1 DEF Apart
        <4> HIDE DEF m
        <4> QED BY <1>0, <3>3, <4>1, <4>2
      <3>5. Pieced(f, u, t, old, new, p + Len(old), e)
        BY <1>1, <3>3, <3>4
      <3>6. f[p + Len(old)] \in Seq(Seq(Nat))
        BY <3>3
      <3>7. /\ t \in Seq(Nat) /\ u \in Seq(Nat) /\ old \in Seq(Nat) /\ new \in Seq(Nat)
            /\ Len(new) = Len(old) /\ e \in 0 .. Len(t) /\ ChangedAt(u, t, Within(t, old, 0, e), new)
            /\ Apart(Spots(t, old), Len(old)) /\ a \in 0 .. Len(t) /\ ClearAt(t, old, a)
        OBVIOUS
      <3>8. f[a] = << Window(t, a, p - a) >> \o f[p + Len(old)]
        BY <3>2
      <3> QED BY ONLY <3>1, <3>5, <3>6, <3>7, <3>8, PiecedMore, ZenonT(40)
    <2>3. \/ Occurrences(t, old, a, l) = {} /\ f[a] = << Window(t, a, l - a) >>
          \/ /\ Occurrences(t, old, a, l) # {}
             /\ f[a] = << Window(t, a, FirstSep(t, old, a) - a) >> \o f[FirstSep(t, old, a) + m]
      BY DEF CutsUp
    <2> QED BY <2>1, <2>2, <2>3
  <1> HIDE DEF Ok
  <1>2. B = {}
    <2> SUFFICES ASSUME B # {} PROVE FALSE
      OBVIOUS
    <2>1. PICK a \in B : \A b \in B : b <= a
      <3>1. B \in SUBSET (0 .. l)
        OBVIOUS
      <3> HIDE DEF B
      <3> QED BY <1>0, <3>1, GreatestOfSet
    <2>2. \A b \in a + 1 .. l : Ok(b)
      BY <1>0, <2>1
    <2> QED BY <1>1, <2>1, <2>2
  <1>3. Ok(0)
    <2>1. 0 \in 0 .. l
      BY <1>0
    <2> HIDE DEF l
    <2> QED BY <1>2, <2>1
  <1>4. ClearAt(t, old, 0)
    BY SpotsAre DEF ClearAt
  <1> QED BY <1>3, <1>4 DEF Ok

(* Replaced gives t with new at the occurrences up to e, when it is asked   *)
(* for as many as these are.                                                *)
LEMMA ReplacedIs ==
    ASSUME NEW t \in Seq(Nat), NEW u \in Seq(Nat), NEW old \in Seq(Nat), NEW new \in Seq(Nat),
           Len(new) = Len(old), NEW e \in 0 .. Len(t), ChangedAt(u, t, Within(t, old, 0, e), new),
           Apart(Spots(t, old), Len(old))
    PROVE  Replaced(t, old, new, Cardinality(Within(t, old, 0, e))) = u
  <1> DEFINE l == Len(t)
             n == Cardinality(Within(t, old, 0, e))
             w == Window(u, 0, l)
  <1>0. l \in Nat /\ l - 0 = l /\ Len(u) = l
    BY DEF ChangedAt
  <1>1. PICK f \in [0 .. l -> Seq(Seq(Nat))] : CutsUp(f, t, old) /\ Pieces(t, old) = f[0]
    BY PiecesCut
  <1>2. Pieced(f, u, t, old, new, 0, e)
    BY <1>1, PiecedAll
  <1>3. FlattenSeq(Replacing(f[0], old, new, n)) = Window(u, 0, l - 0)
    BY <1>2 DEF Pieced
  <1>4. Replaced(t, old, new, n) = FlattenSeq(Replacing(Pieces(t, old), old, new, n))
    BY Zenon DEF Replaced, Replacing, Either
  <1>5. w = u
    <2>1. w \in Seq(Nat) /\ Len(w) = l /\ \A k \in 1 .. l : w[k] = u[0 + k]
      <3>1. u \in Seq(Nat) /\ 0 \in Nat /\ l \in Nat /\ 0 + l <= Len(u)
        BY <1>0
      <3> HIDE DEF l
      <3> QED BY <3>1, WindowIs
    <2> HIDE DEF w, l
    <2>2. \A k \in 1 .. l : 0 + k = k
      BY <1>0
    <2> QED BY <1>0, <2>1, <2>2, SeqEqual
  <1> HIDE DEF n, l
  <1> QED BY <1>0, <1>1, <1>3, <1>4, <1>5 DEF w, n

(* And there is one piece more than there are occurrences.                  *)
LEMMA PiecesCounted ==
    ASSUME NEW t \in Seq(Nat), NEW old \in Seq(Nat), Apart(Spots(t, old), Len(old))
    PROVE  Len(Pieces(t, old)) = 1 + Cardinality(Spots(t, old))
  <1> DEFINE l == Len(t)
  <1>0. l \in Nat /\ 0 \in 0 .. l
    OBVIOUS
  <1>1. PICK f \in [0 .. l -> Seq(Seq(Nat))] : CutsUp(f, t, old) /\ Pieces(t, old) = f[0]
    BY PiecesCut
  <1>2. ChangedAt(t, t, Within(t, old, 0, l), old)
    <2>1. ASSUME NEW p \in Spots(t, old), NEW j \in 1 .. Len(old) PROVE t[p + j] = old[j]
      <3>1. p \in Nat /\ p + Len(old) <= Len(t) /\ Occurs(t, old, p)
        BY SpotsAre
      <3>2. Matches(t, old, p)
        BY <3>1, OccursIs
      <3> QED BY <3>2 DEF Matches
    <2> QED BY <2>1 DEF ChangedAt, Within
  <1>3. Pieced(f, t, t, old, old, 0, l)
    <2>1. l \in 0 .. l
      BY <1>0
    <2> QED BY <1>1, <1>2, <2>1, PiecedAll
  <1>4. Within(t, old, 0, l) = Spots(t, old)
    BY SpotsAre DEF Within
  <1> QED BY <1>1, <1>3, <1>4 DEF Pieced

LEMMA MovedNowhere ==
    ASSUME NEW m \in Nat, NEW b \in Bufs(m), b.ok, NEW to \in Nat, NEW n \in Nat, to + n <= m
    PROVE  Moved(b, to, to, n) = b
  <1> DEFINE c == [i \in 0 .. m - 1 |->
                      IF i \in to .. to + n - 1 THEN b.cells[i - to + to] ELSE b.cells[i]]
             r == [b EXCEPT !.cells = c]
  <1>1. Moved(b, to, to, n) = r
    <2>1. Covers(b, to, n)
      BY CoversWithin
    <2> QED BY <2>1, BufIs DEF Moved
  <1>2. c = b.cells
    <2>1. \A i \in 0 .. m - 1 : i - to + to = i
      OBVIOUS
    <2>2. c = [i \in 0 .. m - 1 |-> b.cells[i]]
      BY <2>1
    <2>3. b.cells \in [0 .. m - 1 -> Nat]
      BY BufIs
    <2> HIDE DEF c
    <2> QED BY <2>2, <2>3
  <1>3. r = b
    <2> HIDE DEF c
    <2>1. b = [cells |-> b.cells, ok |-> b.ok]
      BY BufIs
    <2> QED BY <1>2, <2>1
  <1> QED BY <1>1, <1>3

(* A step of the loop, where old and new are of one length, puts new where  *)
(* the last occurrence it has not read is, and does nothing else.           *)
LEMMA ReplaceStepPuts ==
    ASSUME NEW m \in Nat, NEW t \in Seq(Nat), Len(t) <= m, NEW old \in Seq(Nat), NEW new \in Seq(Nat),
           Len(new) = Len(old), NEW r \in Nat \ {0}, NEW v, ReplacesToGo(v, m, t, old, 0, r)
    PROVE  LET w == ReplaceStep(v, old, new, Len(t))
           IN  /\ LastSpot(t, old, v.read, w.read)
               /\ PutAt(Content(w.buf, Len(t)), Content(v.buf, Len(t)), w.read, new)
  <1> DEFINE b == v.buf
             l == Len(t)
             lo == Len(old)
             read == v.read
             u == Content(b, l)
             p == Rfind(u, old, 0, read)
             copy == read - p - lo
             to == v.write - copy
             at == to - Len(new)
             b1 == Moved(b, to, p + lo, copy)
             b2 == Stored(b1, at, new)
             got == [buf |-> b2, read |-> p, write |-> at]
             x == Content(b2, l)
  <1>0. /\ b \in Bufs(m) /\ b.ok /\ v.write \in Int
        /\ read \in 0 .. l /\ Left(t, old, read) = r
        /\ v.write = read + r * 0
        /\ \A k \in 1 .. read : b.cells[k - 1] = t[k]
    BY Zenon DEF ReplacesToGo
  <1>1. l \in Nat /\ lo \in Nat /\ l <= m
    OBVIOUS
  <1>2. ReplaceStep(v, old, new, Len(t)) = got
    BY <1>0, Zenon DEF ReplaceStep, got, b2, b1, at, to, copy, p, u, read, b, l, lo
  <1>3. u \in Seq(Nat) /\ Len(u) = l /\ \A k \in 1 .. l : u[k] = b.cells[k - 1]
    <2>1. \A k \in 1 .. l : u[k] = b.cells[k - 1]
      BY DEF Content
    <2> HIDE DEF b, l
    <2> QED BY <1>0, <1>1, <2>1, ContentIs
  <1>4. x = [k \in 1 .. l |-> b2.cells[k - 1]]
    BY DEF Content
  <1> HIDE DEF got, b2, b1, at, to, copy, u, b, x
  <1>5. LastSpot(t, old, read, Rfind(t, old, 0, read)) /\ read > 0
    <2>1. Left(t, old, read) > 0
      BY <1>0
    <2> HIDE DEF read
    <2> QED BY <1>0, <2>1, RfindsSpot
  <1>6. p = Rfind(t, old, 0, read)
    <2>1. read \in 1 .. l
      BY <1>0, <1>1, <1>5
    <2>2. \A k \in 1 .. read : u[k] = t[k]
      <3>1. \A k \in 1 .. read : k \in 1 .. l
        BY <1>1, <2>1
      <3> QED BY <1>0, <1>3, <3>1
    <2> HIDE DEF read
    <2> QED BY <1>3, <2>1, <2>2, RfindLooksBefore
  <1>7. LastSpot(t, old, read, p)
    BY <1>5, <1>6
  <1> HIDE DEF p
  <1>8. p \in Nat /\ p + lo <= read /\ read \in Nat /\ read <= l
    <2>1. p \in Spots(t, old) /\ p + lo <= read
      BY <1>7 DEF LastSpot
    <2> QED BY <1>0, <1>1, <2>1, SpotsAre
  <1> HIDE DEF l, lo, read
  <1>9. copy \in Nat /\ to = p + lo /\ at = p /\ p + lo + copy = read
    <2>1. v.write = read
      BY <1>0
    <2>2. Len(new) = lo
      BY DEF lo
    <2>3. copy = read - p - lo
      BY DEF copy
    <2>4. to = v.write - copy /\ at = to - Len(new)
      BY DEF to, at
    <2> QED BY ONLY <1>1, <1>8, <2>1, <2>2, <2>3, <2>4
  <1>10. b1 = b
    <2>1. to \in Nat /\ to + copy <= m
      BY <1>1, <1>8, <1>9
    <2>2. Moved(b, to, to, copy) = b
      BY <1>0, <1>9, <2>1, MovedNowhere
    <2> QED BY <1>9, <2>2 DEF b1
  <1>11. /\ b2 \in Bufs(m) /\ \A k \in 1 .. Len(new) : b2.cells[p + k - 1] = new[k]
         /\ \A i \in 0 .. p - 1 : b2.cells[i] = b.cells[i]
         /\ \A i \in p + Len(new) .. m - 1 : b2.cells[i] = b.cells[i]
    <2>1. /\ m \in Nat /\ b \in Bufs(m) /\ b.ok /\ p \in Nat /\ p \in Int /\ new \in Seq(Nat)
          /\ p + Len(new) <= m
      BY <1>0, <1>1, <1>8 DEF lo
    <2>2. b2 = Stored(b, p, new)
      BY <1>9, <1>10 DEF b2
    <2>3. Stored(b, p, new) \in Bufs(m)
      BY ONLY <2>1, StoredIs
    <2>4. \A i \in 0 .. p - 1 : Stored(b, p, new).cells[i] = b.cells[i]
      BY ONLY <2>1, StoredKeeps
    <2>5. /\ \A k \in 1 .. Len(new) : Stored(b, p, new).cells[p + k - 1] = new[k]
          /\ \A i \in p + Len(new) .. m - 1 : Stored(b, p, new).cells[i] = b.cells[i]
      BY ONLY <2>1, StoredPuts
    <2> QED BY <2>2, <2>3, <2>4, <2>5
  <1>12. x \in Seq(Nat) /\ Len(x) = l
    BY <1>1, <1>11, ContentIs DEF x
  <1>13. p + Len(new) <= l /\ Len(new) \in Nat /\ Len(new) = lo
    BY <1>1, <1>8 DEF lo
  <1>14. PutAt(x, u, p, new)
    <2>1. ASSUME NEW j \in 1 .. Len(new) PROVE x[p + j] = new[j]
      <3>1. p + j \in 1 .. l /\ (p + j) - 1 = p + j - 1
        BY <1>1, <1>8, <1>13
      <3> QED BY <1>4, <1>11, <3>1
    <2>2. ASSUME NEW k \in 1 .. l, k \notin p + 1 .. p + Len(new) PROVE x[k] = u[k]
      <3>1. k - 1 \in 0 .. p - 1 \/ k - 1 \in p + Len(new) .. m - 1
        BY <1>1, <1>8, <1>13, <2>2
      <3>2. b2.cells[k - 1] = b.cells[k - 1]
        BY <1>11, <3>1
      <3> QED BY <1>3, <1>4, <3>2
    <2> QED BY <1>3, <1>12, <2>1, <2>2 DEF PutAt
  <1>15. got.buf = b2 /\ got.read = p
    BY DEF got
  <1> QED BY <1>2, <1>7, <1>14, <1>15 DEF u, x, b, l, read

Putting(v, t, old, new, end) ==
    /\ v.read \in 0 .. end
    /\ v.read = end \/ v.read \in Spots(t, old)
    /\ Content(v.buf, Len(t)) \in Seq(Nat)
    /\ ChangedAt(Content(v.buf, Len(t)), t, ReadSpots(t, old, end, v.read), new)

LEMMA PutsOneMore ==
    ASSUME NEW m \in Nat, NEW t \in Seq(Nat), Len(t) <= m, NEW old \in Seq(Nat), NEW new \in Seq(Nat),
           Len(new) = Len(old), Apart(Spots(t, old), Len(old)), NEW end \in 0 .. Len(t),
           NEW r \in Nat \ {0}, NEW v, ReplacesToGo(v, m, t, old, 0, r), Putting(v, t, old, new, end)
    PROVE  Putting(ReplaceStep(v, old, new, Len(t)), t, old, new, end)
  <1> DEFINE w == ReplaceStep(v, old, new, Len(t))
             p == w.read
             read == v.read
             u == Content(v.buf, Len(t))
             x == Content(w.buf, Len(t))
             P == ReadSpots(t, old, end, read)
  <1>1. LastSpot(t, old, read, p) /\ PutAt(x, u, p, new)
    BY ReplaceStepPuts
  <1> HIDE DEF w
  <1>2. /\ read \in 0 .. end /\ (read = end \/ read \in Spots(t, old))
        /\ u \in Seq(Nat) /\ ChangedAt(u, t, P, new)
    BY DEF Putting
  <1> HIDE DEF p, x, u, read, P
  <1>3. ReadSpots(t, old, end, p) = P \cup {p}
    BY <1>1, <1>2, ReadSpotsMore DEF P
  <1>4. /\ p \in Spots(t, old) /\ p \in Nat /\ p + Len(old) <= read /\ p \in 0 .. end
        /\ p + Len(new) <= Len(t)
    <2>1. p \in Spots(t, old) /\ p + Len(old) <= read
      BY <1>1 DEF LastSpot
    <2>2. p \in Nat /\ Len(old) \in Nat /\ p + Len(old) <= Len(t)
      BY <2>1, SpotsAre
    <2>3. end \in Nat /\ read \in Nat /\ read <= end
      BY <1>2
    <2>4. p \in 0 .. end
      BY <2>1, <2>2, <2>3
    <2> QED BY <2>1, <2>2, <2>4
  <1>5. P \in SUBSET Nat /\ \A q \in P : p + Len(new) <= q /\ q + Len(new) <= Len(t)
    <2> SUFFICES ASSUME NEW q \in P
                 PROVE  q \in Nat /\ p + Len(new) <= q /\ q + Len(new) <= Len(t)
      OBVIOUS
    <2>1. q \in Spots(t, old) /\ read <= q
      BY DEF P, ReadSpots, Within
    <2>2. q \in Nat /\ q + Len(old) <= Len(t)
      BY <2>1, SpotsAre
    <2>3. read \in Nat /\ p \in Nat /\ p + Len(old) <= read /\ Len(old) \in Nat
      BY <1>2, <1>4
    <2> QED BY <2>1, <2>2, <2>3
  <1>6. ChangedAt(x, t, P \cup {p}, new) /\ x \in Seq(Nat)
    <2>1. x \in Seq(Nat)
      BY <1>1 DEF PutAt
    <2> QED BY <1>1, <1>2, <1>4, <1>5, <2>1, ChangedMore
  <1> QED BY <1>3, <1>4, <1>6 DEF Putting, x, p, w

(* The loop begins with the text as it is.                                  *)
LEMMA ReplaceFromPuts ==
    ASSUME NEW s \in Rec, s.text # <<>>, NEW old \in Seq(Nat), NEW new \in Seq(Nat),
           Len(new) = Len(old), NEW count \in Nat, NEW times \in Nat, NEW v,
           v = ReplaceFrom(s, old, new, count, times),
           ReplacesToGo(v, Room(s), s.text, old, 0, count)
    PROVE  Putting(v, s.text, old, new, v.read)
  <1> DEFINE t == s.text
             l == Len(t)
             m == Room(s)
             end == v.read
             back == IF times > count THEN times - count ELSE 0
             at == Back(t, old, back)
             first == l + count * (Len(new) - Len(old)) - (l - at)
             b == Moved(Buffer(s), first, at, l - at)
             u == Content(v.buf, l)
  <1>1. v = [buf |-> b, read |-> at, write |-> first]
    BY Zenon DEF ReplaceFrom, b, first, at, back, l, t
  <1>2. end = at /\ v.buf = b
    BY <1>1
  <1>3. /\ t \in Seq(Nat) /\ l \in Nat /\ m \in Nat /\ l <= m /\ Buffer(s) \in Bufs(m)
        /\ \A k \in 1 .. l : Buffer(s).cells[k - 1] = t[k]
        /\ Buffer(s).ok
    BY RecIs, BufferIs DEF Buffer
  <1>4. end \in 0 .. l
    BY DEF ReplacesToGo
  <1>5. u = [k \in 1 .. l |-> v.buf.cells[k - 1]]
    BY DEF Content
  <1> HIDE DEF at, t, l, m, end, b, u
  <1>6. first = at /\ l - at \in Nat /\ at \in Nat /\ at + (l - at) <= m
    <2>1. Len(new) - Len(old) = 0
      <3>1. Len(old) \in Nat
        OBVIOUS
      <3> DEFINE x == Len(old)
      <3> HIDE DEF x
      <3>2. Len(new) = x /\ x \in Nat
        BY <3>1 DEF x
      <3> QED BY <3>2 DEF x
    <2>2. count * 0 = 0
      OBVIOUS
    <2>3. first = l + 0 - (l - at)
      BY <2>1, <2>2
    <2> HIDE DEF first
    <2> QED BY <1>2, <1>3, <1>4, <2>3
  <1> HIDE DEF first
  <1>7. v.buf = Buffer(s)
    <2> DEFINE n == l - at
    <2>1. n \in Nat /\ at \in Nat /\ at + n <= m /\ m \in Nat /\ Buffer(s) \in Bufs(m) /\ Buffer(s).ok
      BY <1>3, <1>6
    <2>2. b = Moved(Buffer(s), at, at, n)
      BY <1>6 DEF b
    <2> HIDE DEF n
    <2> QED BY <1>2, <2>1, <2>2, MovedNowhere
  <1>8. u \in Seq(Nat) /\ Len(u) = l
    BY <1>3, <1>7, ContentIs DEF u
  <1>9. u = t
    <2>1. \A k \in 1 .. l : u[k] = t[k]
      BY <1>3, <1>5, <1>7
    <2>2. Len(t) = l
      BY DEF l
    <2> QED BY <1>3, <1>8, <2>1, <2>2, SeqEqual
  <1>10. ReadSpots(t, old, end, end) = {}
    <2>1. ASSUME NEW q \in Within(t, old, 0, end) PROVE ~ (end <= q)
      <3>1. q \in Spots(t, old) /\ q + Len(old) <= end
        BY DEF Within
      <3>2. q \in Nat /\ Len(old) >= 1 /\ Len(old) \in Nat
        BY <1>3, <3>1, SpotsAre
      <3>3. end \in Nat
        BY <1>3, <1>4
      <3> QED BY <3>1, <3>2, <3>3
    <2> QED BY <2>1 DEF ReadSpots
  <1>11. ChangedAt(u, t, {}, new)
    BY <1>9 DEF ChangedAt
  <1>12. end \in 0 .. end
    BY <1>3, <1>4
  <1> QED BY <1>8, <1>10, <1>11, <1>12 DEF Putting, u, l, end, t

(* And ends when all of them up to there have been read.                    *)
LEMMA PutsAll ==
    ASSUME NEW m \in Nat, NEW t \in Seq(Nat), NEW old \in Seq(Nat), NEW new \in Seq(Nat),
           Len(new) = Len(old), Apart(Spots(t, old), Len(old)), NEW end \in 0 .. Len(t),
           NEW v, ReplacesToGo(v, m, t, old, 0, 0), Putting(v, t, old, new, end)
    PROVE  Content(v.buf, Len(t)) = Replaced(t, old, new, Left(t, old, end))
  <1> DEFINE u == Content(v.buf, Len(t))
             read == v.read
             W == Within(t, old, 0, end)
  <1>1. /\ read \in 0 .. end /\ (read = end \/ read \in Spots(t, old))
        /\ u \in Seq(Nat) /\ ChangedAt(u, t, ReadSpots(t, old, end, read), new)
    BY DEF Putting
  <1>2. Left(t, old, read) = 0 /\ read \in 0 .. Len(t)
    BY DEF ReplacesToGo
  <1> HIDE DEF u, read
  <1>3. Within(t, old, 0, read) = {}
    <2>1. Cardinality(Within(t, old, 0, read)) = 0
      BY <1>2, LeftCounts
    <2>2. IsFiniteSet(Within(t, old, 0, read))
      BY WithinIs
    <2> HIDE DEF W
    <2> QED BY <2>1, <2>2, FS_EmptySet
  <1>4. ASSUME NEW q \in W PROVE read <= q
    <2>1. q \in Spots(t, old) /\ q + Len(old) <= end
      BY DEF Within
    <2>2. q \in Nat /\ end \in Nat /\ read \in Nat /\ Len(old) \in Nat
      BY <1>1, <2>1, SpotsAre
    <2>3. ~ (q + Len(old) <= read)
      BY <1>3, <2>1, <2>2 DEF Within
    <2>4. CASE read = end
      BY <2>1, <2>3, <2>4
    <2>5. CASE read \in Spots(t, old)
      <3>1. q < read => q + Len(old) <= read
        BY <2>1, <2>5 DEF Apart
      <3> QED BY <2>2, <2>3, <3>1
    <2> QED BY <1>1, <2>4, <2>5
  <1>5. ReadSpots(t, old, end, read) = W
    BY <1>4 DEF ReadSpots
  <1>6. ChangedAt(u, t, Within(t, old, 0, end), new)
    BY <1>1, <1>5
  <1>7. Replaced(t, old, new, Cardinality(Within(t, old, 0, end))) = u
    BY <1>1, <1>6, ReplacedIs
  <1>8. Left(t, old, end) = Cardinality(Within(t, old, 0, end))
    BY LeftCounts
  <1> QED BY <1>7, <1>8 DEF u

(* What replace writes, where old and new are of one length and no two      *)
(* occurrences overlap.                                                     *)
LEMMA ReplacedWritten ==
    ASSUME NEW s \in Rec, s.text # <<>>, NEW old \in Seq(Nat), NEW new \in Seq(Nat),
           Len(new) = Len(old), NEW count \in Nat, NEW times \in Nat,
           times = Left(s.text, old, Len(s.text)), count <= times,
           Apart(Spots(s.text, old), Len(old))
    PROVE  LET b == ReplacedIn(s, old, new, count, times)
           IN  b.ok /\ Content(b, Len(s.text)) = Replaced(s.text, old, new, count)
  <1> DEFINE t == s.text
             l == Len(t)
             m == Room(s)
             none == Len(s.text) + count * (Len(new) - Len(old)) <= 0
             S == {TRUE}
  <1>0. t \in Seq(Nat) /\ l \in Nat /\ m \in Nat /\ l <= m
    BY RecIs, BufferIs
  <1>1. PICK state : /\ Replaces(state, s, old, new, count, times)
                     /\ \A i \in 0 .. count : state[i] \in Rewriting(Room(s), Len(s.text), Buffer(s).cells, none)
    BY ReplacedUnfolds, Zenon
  <1>2. /\ state[0] = ReplaceFrom(s, old, new, count, times)
        /\ \A i \in 1 .. count : state[i] = ReplaceStep(state[i - 1], old, new, l)
        /\ ReplacedIn(s, old, new, count, times) = state[count].buf
    BY <1>1, Zenon DEF Replaces, l, t
  <1>3. Len(new) - Len(old) = 0 /\ Len(new) >= Len(old) /\ count * 0 = 0
    <2> DEFINE x == Len(old)
    <2>1. x \in Nat
      OBVIOUS
    <2> HIDE DEF x
    <2>2. Len(new) = x
      BY DEF x
    <2> QED BY <2>1, <2>2 DEF x
  <1> DEFINE v == state[0]
             end == v.read
             Ok(i) == ReplacesToGo(state[i], m, t, old, 0, count - i) /\ Putting(state[i], t, old, new, end)
             h == [i \in 0 .. count |-> Ok(i)]
  <1>4. ReplacesToGo(v, m, t, old, 0, count)
    <2>1. Len(t) + count * (Len(new) - Len(old)) <= m
      BY <1>0, <1>3
    <2>2. ReplacesToGo(ReplaceFrom(s, old, new, count, times), m, t, old, Len(new) - Len(old), count)
      BY <1>3, <2>1, ReplaceFromGoes
    <2> HIDE DEF t, m
    <2> QED BY <1>2, <1>3, <2>2
  <1>5. Putting(v, t, old, new, end)
    <2> HIDE DEF v
    <2>1. v = ReplaceFrom(s, old, new, count, times)
      BY <1>2 DEF v
    <2> QED BY <1>4, <2>1, ReplaceFromPuts
  <1>6. end \in 0 .. Len(t) /\ Left(t, old, end) = count
    <2> HIDE DEF v, t
    <2> QED BY <1>4 DEF ReplacesToGo
  <1> HIDE DEF end
  <1>7. h[0] \in S
    <2>1. 0 \in 0 .. count /\ count - 0 = count
      OBVIOUS
    <2>2. Ok(0)
      BY <1>4, <1>5, <2>1
    <2> HIDE DEF Ok
    <2> QED BY <2>1, <2>2
  <1>8. ASSUME NEW i \in 1 .. count, h[i - 1] \in S PROVE h[i] \in S
    <2> DEFINE r == count - (i - 1)
               w == state[i - 1]
    <2>1. r \in Nat \ {0} /\ r - 1 = count - i /\ i - 1 \in 0 .. count /\ i \in 0 .. count
      OBVIOUS
    <2>2. ReplacesToGo(w, m, t, old, 0, r) /\ Putting(w, t, old, new, end)
      BY <1>8, <2>1
    <2>3. state[i] = ReplaceStep(w, old, new, Len(t))
      BY <1>2
    <2> HIDE DEF r, w, t, m
    <2>4. m \in Nat /\ t \in Seq(Nat) /\ Len(t) <= m /\ Apart(Spots(t, old), Len(old))
      BY <1>0 DEF l, t
    <2>5. ReplacesToGo(ReplaceStep(w, old, new, Len(t)), m, t, old, 0, r - 1)
      <3>1. ReplacesToGo(w, m, t, old, Len(new) - Len(old), r)
        BY <1>3, <2>2
      <3>2. ReplacesToGo(ReplaceStep(w, old, new, Len(t)), m, t, old, Len(new) - Len(old), r - 1)
        BY <1>3, <2>1, <2>4, <3>1, ReplaceStepGoes
      <3> QED BY <1>3, <3>2
    <2>6. Putting(ReplaceStep(w, old, new, Len(t)), t, old, new, end)
      BY <1>6, <2>1, <2>2, <2>4, PutsOneMore
    <2>7. Ok(i)
      BY <2>1, <2>3, <2>5, <2>6
    <2> HIDE DEF Ok
    <2> QED BY <2>1, <2>7
  <1>9. \A i \in 0 .. count : h[i] \in S
    <2> HIDE DEF h, S
    <2> QED BY <1>7, <1>8, StaysIn
  <1>10. Ok(count)
    <2>1. count \in 0 .. count
      OBVIOUS
    <2> HIDE DEF Ok
    <2> QED BY <1>9, <2>1
  <1> DEFINE w == state[count]
  <1>11. ReplacesToGo(w, m, t, old, 0, 0) /\ Putting(w, t, old, new, end) /\ w.buf.ok
    <2>1. count - count = 0
      OBVIOUS
    <2>2. ReplacesToGo(w, m, t, old, 0, 0) /\ Putting(w, t, old, new, end)
      BY <1>10, <2>1
    <2> HIDE DEF w, t, m
    <2> QED BY <2>2, Zenon DEF ReplacesToGo
  <1> HIDE DEF w, t, m
  <1>12. Content(w.buf, Len(t)) = Replaced(t, old, new, Left(t, old, end))
    <2>1. m \in Nat /\ t \in Seq(Nat) /\ Apart(Spots(t, old), Len(old))
      BY <1>0 DEF t
    <2> QED BY <1>6, <1>11, <2>1, PutsAll
  <1> QED BY <1>2, <1>6, <1>11, <1>12 DEF w, t

(* T's Replaced. *)
LEMMA SameReplaced ==
    \A t, old, new, n : T!Replaced(t, old, new, n) = Replaced(t, old, new, n)
  <1> TAKE t, old, new, n
  <1> QED BY SamePieces, SameSequences, Zenon DEF T!Replaced, Replaced

LEMMA TimesAre ==
    ASSUME NEW t \in Seq(Nat), NEW old \in Seq(Nat), NEW new, NEW count, Fits(t, old, new, count)
    PROVE  /\ Count(t, old, 0, Len(t)) \in Nat /\ Apart(Spots(t, old), Len(old))
           /\ Count(t, old, 0, Len(t)) = Left(t, old, Len(t))
           /\ Len(Pieces(t, old)) - 1 = Count(t, old, 0, Len(t))
  <1> DEFINE times == Count(t, old, 0, Len(t))
  <1>1. times \in Nat
    BY CountIsNat
  <1>2. Apart(Spots(t, old), Len(old))
    BY <1>1, NoSpots DEF Fits
  <1>3. times = Left(t, old, Len(t))
    BY CountIsLeft
  <1>4. Within(t, old, 0, Len(t)) = Spots(t, old)
    BY SpotsAre DEF Within
  <1>5. Left(t, old, Len(t)) = Cardinality(Spots(t, old))
    <2>1. Len(t) \in 0 .. Len(t)
      OBVIOUS
    <2> QED BY <1>2, <1>4, <2>1, LeftCounts
  <1>6. Len(Pieces(t, old)) = 1 + Cardinality(Spots(t, old))
    BY <1>2, PiecesCounted
  <1> HIDE DEF times
  <1> QED BY <1>1, <1>2, <1>3, <1>5, <1>6 DEF times

LEMMA ReplacedKeepsLength ==
    ASSUME NEW s \in Rec, s.text # <<>>, NEW old \in Seq(Nat), NEW new \in Seq(Nat),
           Len(new) = Len(old), NEW count \in Nat, NEW times \in Nat,
           times = Left(s.text, old, Len(s.text)), count <= times,
           Apart(Spots(s.text, old), Len(old))
    PROVE  LET w == Replaced(s.text, old, new, count)
           IN  w \in Seq(Nat) /\ Len(w) = Len(s.text)
  <1> DEFINE b == ReplacedIn(s, old, new, count, times)
  <1>1. Content(b, Len(s.text)) = Replaced(s.text, old, new, count)
    BY ReplacedWritten
  <1>2. b \in Bufs(Room(s))
    BY ReplacedInIs
  <1> HIDE DEF b
  <1>3. Room(s) \in Nat /\ Room(s) >= Len(s.text) /\ Len(s.text) \in Nat
    BY BufferIs, RecIs
  <1> QED BY <1>1, <1>2, <1>3, ContentIs

LEMMA ReplaceableFits ==
    ASSUME NEW t \in Seq(Nat), NEW old \in Seq(Nat), NEW new, NEW count \in Int,
           T!Replaceable(t, old, new, count)
    PROVE  Fits(t, old, new, count)
  <1>1. Len(new) = Len(old) /\ count <= Cardinality(Spots(t, old)) /\ Apart(Spots(t, old), Len(old))
    <2>1. \A S : T!Cardinality(S) = Cardinality(S)
      BY Zenon DEF T!Cardinality, Cardinality
    <2>2. \A S, n : T!Apart(S, n) <=> Apart(S, n)
      BY Zenon DEF T!Apart, Apart
    <2>3. T!Occurrences(t, old, 0, Len(t)) = Spots(t, old)
      BY SameWords, Zenon DEF Spots
    <2> QED BY <2>1, <2>2, <2>3, Zenon DEF T!Replaceable
  <1>2. Fits(t, old, old, 0)
    BY <1>1, CountIsNat DEF Fits
  <1>3. Count(t, old, 0, Len(t)) = Len(Pieces(t, old)) - 1
    BY <1>2, TimesAre
  <1>4. Len(Pieces(t, old)) = 1 + Cardinality(Spots(t, old))
    BY <1>1, PiecesCounted
  <1>5. Cardinality(Spots(t, old)) \in Nat
    <2>1. Spots(t, old) \in SUBSET (0 .. Len(t)) /\ Len(t) \in Nat
      BY SpotsAre
    <2>2. IsFiniteSet(0 .. Len(t))
      BY <2>1, FS_Interval
    <2> QED BY <2>1, <2>2, FS_Subset, FS_CardinalityType
  <1> QED BY <1>1, <1>3, <1>4, <1>5 DEF Fits

LEMMA ReplaceFitting ==
    ASSUME Shaped, NEW d \in live, NEW old \in Words, NEW new \in Words,
           NEW count \in caller.numbers, Replace(d, old, new, count), Fits(Text(d), old, new, count)
    PROVE  T!Replace(d, old, new, count)
  <1> DEFINE s == strings[d]
             l == Len(s.text)
             c == <<"replace", d, old, new, count>>
             times == Count(s.text, old, 0, Len(s.text))
             n == IF count = -1 THEN times ELSE count
             size == l + n * (Len(new) - Len(old))
             q == WithRoom(s, size)
             b == ReplacedIn(q, old, new, n, times)
             w == Replaced(s.text, old, new, n)
             r == [q EXCEPT !.text = Content(b, l)]
             none == l + times * (Len(new) - Len(old))
             all == Replaced(s.text, old, new, times)
  <1>0. /\ Calling(c) /\ s \in Rec /\ Sound(s) /\ s.text \in Seq(Nat) /\ l \in Nat
        /\ d \in Names /\ Shown[d] = s.text /\ Text(d) = s.text
        /\ old \in Seq(Nat) /\ new \in Seq(Nat) /\ count \in Int /\ NULL \notin {old, new}
    <2>1. Calling(c)
      BY Zenon DEF Replace
    <2>2. NULL \notin {old, new}
      BY DEF Words
    <2> QED BY <2>1, <2>2, StringIs, ShownIs, CallerIs
  <1>1. /\ times \in Nat /\ Apart(Spots(s.text, old), Len(old))
        /\ times = Left(s.text, old, l) /\ Len(Pieces(s.text, old)) - 1 = times
        /\ times > 0 => Len(new) = Len(old) /\ count <= times /\ s.text # <<>>
    <2>1. Fits(s.text, old, new, count)
      BY <1>0
    <2> HIDE DEF s
    <2>2. /\ times \in Nat /\ Apart(Spots(s.text, old), Len(old))
          /\ times = Left(s.text, old, l) /\ Len(Pieces(s.text, old)) - 1 = times
      BY <1>0, <2>1, TimesAre
    <2>3. times > 0 => s.text # <<>>
      BY <1>0, CountIsNat
    <2> QED BY <2>1, <2>2, <2>3 DEF Fits
  <1>2. \/ count < -1 /\ UNCHANGED strings /\ ret' = -1
        \/ count >= -1 /\ times = 0 /\ UNCHANGED strings /\ ret' = 0
        \/ count = 0 /\ times > 0 /\ UNCHANGED strings /\ ret' = none
        \/ n > 0 /\ times > 0 /\ CanHold(s, size) /\ Rewrite(d, q, b, l)
        \/ n > 0 /\ times > 0 /\ UNCHANGED strings /\ ret' = size
    BY ZenonT(60) DEF Replace, Returns
  <1>3. /\ count < -1 /\ T!Looks(c, -1) => T!Replace(d, old, new, count)
        /\ ~ (count < -1) /\
              (\/ times = 0 /\ T!Looks(c, 0)
               \/ count = 0 /\ T!Looks(c, Len(all))
               \/ count # 0 /\ T!Edit(c, d, w))
              => T!Replace(d, old, new, count)
    <2> DEFINE sum == Len(T!Pieces(Shown[d], old)) - 1
               Says ==
                 \/ sum = 0 /\ T!Looks(c, 0)
                 \/ count = 0 /\ T!Looks(c, Len(T!Replaced(Shown[d], old, new, sum)))
                 \/ count # 0
                    /\ T!Edit(c, d, T!Replaced(Shown[d], old, new, IF count = -1 THEN sum ELSE count))
    <2>1. /\ count < -1 /\ T!Looks(c, -1) => T!Replace(d, old, new, count)
          /\ ~ (count < -1) /\ NULL \notin {old, new} /\ Says => T!Replace(d, old, new, count)
      BY Zenon DEF T!Replace, Shown
    <2>2. sum = times
      BY <1>0, <1>1, SamePieces
    <2>3. /\ T!Replaced(Shown[d], old, new, IF count = -1 THEN sum ELSE count) = w
          /\ T!Replaced(Shown[d], old, new, sum) = all
      BY <1>0, <2>2, SameReplaced, Zenon
    <2> HIDE DEF sum, times, w, all, c
    <2> QED BY <1>0, <2>1, <2>2, <2>3, Zenon
  <1>4. times > 0 => none = l /\ size = l
    <2> SUFFICES ASSUME times > 0 PROVE none = l /\ size = l
      OBVIOUS
    <2>1. Len(new) - Len(old) = 0
      <3>1. Len(new) \in Nat /\ Len(new) = Len(old)
        BY <1>0, <1>1
      <3> DEFINE x == Len(new)
                 y == Len(old)
      <3> HIDE DEF x, y
      <3>2. x \in Nat /\ x = y
        BY <3>1 DEF x, y
      <3> QED BY <3>2 DEF x, y
    <2>2. n \in Int /\ times \in Int
      BY <1>0, <1>1
    <2> HIDE DEF n, times, l
    <2>3. n * 0 = 0 /\ times * 0 = 0
      BY <2>2
    <2> QED BY <1>0, <2>1, <2>3
  <1> HIDE DEF c, size, none, times, w, all, s, l
  <1>5. CASE UNCHANGED strings /\ (count < -1 /\ ret' = -1)
    <2>1. T!Looks(c, -1)
      BY <1>0, <1>5, ReadsLooks
    <2> QED BY <1>3, <1>5, <2>1
  <1>6. CASE UNCHANGED strings /\ count >= -1 /\ times = 0 /\ ret' = 0
    <2>1. T!Looks(c, 0)
      BY <1>0, <1>6, ReadsLooks
    <2> QED BY <1>0, <1>3, <1>6, <2>1
  <1>10. CASE UNCHANGED strings /\ count = 0 /\ times > 0 /\ ret' = none
    <2>1. Len(all) = l
      <3>1. times = Left(s.text, old, Len(s.text)) /\ times <= times
        BY <1>1 DEF l
      <3> QED BY <1>0, <1>1, <1>10, <3>1, ReplacedKeepsLength DEF all, l
    <2>2. T!Looks(c, Len(all))
      BY <1>0, <1>4, <1>10, <2>1, ReadsLooks
    <2> QED BY <1>0, <1>3, <1>10, <2>2
  <1>7. ASSUME n > 0, times > 0
        PROVE  /\ n \in Nat /\ n <= times /\ count >= -1 /\ count # 0
               /\ w \in Seq(Nat) /\ Len(w) = l
    <2>1. n \in Nat /\ n <= times /\ count >= -1 /\ count # 0
      BY <1>0, <1>1, <1>7
    <2> HIDE DEF n
    <2>2. times = Left(s.text, old, Len(s.text))
      BY <1>1 DEF l
    <2> QED BY <1>0, <1>1, <1>7, <2>1, <2>2, ReplacedKeepsLength DEF w, l
  <1>8. CASE n > 0 /\ times > 0 /\ UNCHANGED strings /\ ret' = size
    <2>1. T!Looks(c, Len(w))
      BY <1>0, <1>4, <1>7, <1>8, ReadsLooks
    <2>2. T!Edit(c, d, w)
      BY <2>1 DEF T!Edit, T!Looks
    <2> QED BY <1>0, <1>3, <1>7, <1>8, <2>2
  <1>9. CASE n > 0 /\ times > 0 /\ CanHold(s, size) /\ Rewrite(d, q, b, l)
    <2>1. size \in Nat /\ size = l
      BY <1>0, <1>4, <1>9
    <2>2. q \in Rec /\ q.text = s.text
      BY <1>0, <1>9, <2>1, WithRoomIs
    <2> HIDE DEF q
    <2>3. n \in Nat /\ n <= times
      BY <1>7, <1>9
    <2> HIDE DEF n
    <2>4. b.ok /\ Content(b, l) = w
      <3>1. /\ q.text # <<>> /\ Len(new) = Len(old) /\ times \in Nat
            /\ times = Left(q.text, old, Len(q.text)) /\ Apart(Spots(q.text, old), Len(old))
        BY <1>1, <1>9, <2>2 DEF l
      <3>2. b.ok /\ Content(b, Len(q.text)) = Replaced(q.text, old, new, n)
        BY <1>0, <2>2, <2>3, <3>1, ReplacedWritten
      <3> HIDE DEF b
      <3> QED BY <2>2, <3>2 DEF w, l
    <2> HIDE DEF b
    <2>5. Set(d, r) /\ ret' = 0
      BY <1>9, <2>4 DEF Rewrite
    <2>6. r.text = w
      BY <2>2, <2>4, RecIs
    <2> HIDE DEF r
    <2>7. T!Becomes(d, w) /\ T!Says(c, 0)
      BY <1>0, <2>5, <2>6, ShownBecomes, CallingSays
    <2>8. T!Edit(c, d, w)
      BY <2>7 DEF T!Edit
    <2>9. ~ (count < -1) /\ count # 0 /\ times # 0
      BY <1>0, <1>1, <1>7, <1>9
    <2> QED BY <1>0, <1>3, <2>8, <2>9
  <1> QED BY <1>2, <1>5, <1>6, <1>8, <1>9, <1>10

(* And where they are not, no other String is changed.                      *)
LEMMA ReplaceReplaces ==
    ASSUME Shaped, NEW d \in live, NEW old \in Words, NEW new \in Words,
           NEW count \in caller.numbers, Replace(d, old, new, count)
    PROVE  T!Replace(d, old, new, count)
  <1> DEFINE c == <<"replace", d, old, new, count>>
             t == Text(d)
             fits == T!Replaceable(t, old, new, count)
  <1>1. /\ Calling(c) /\ t \in Seq(Nat) /\ Shown[d] = t /\ NULL \notin {old, new}
        /\ old \in Seq(Nat) /\ new \in Seq(Nat) /\ count \in Int
    <2>1. Calling(c)
      BY Zenon DEF Replace
    <2>2. NULL \notin {old, new}
      BY DEF Words
    <2> QED BY <2>1, <2>2, StringIs, ShownIs, CallerIs
  <1>2. CASE fits
    BY <1>1, <1>2, ReplaceableFits, ReplaceFitting
  <1>3. CASE ~ fits
    <2>1. \/ UNCHANGED strings /\ count < -1 /\ ret' = -1
          \/ count >= -1 /\ (UNCHANGED strings \/ \E r : Set(d, r))
      <3>1. \/ UNCHANGED strings /\ count < -1 /\ ret' = -1
            \/ count >= -1 /\ UNCHANGED strings
            \/ (IF count = -1 THEN Count(t, old, 0, Len(t)) ELSE count) > 0
               /\ (UNCHANGED strings \/ \E r : Set(d, r))
            \/ count = 0 /\ UNCHANGED strings
        BY ZenonT(60) DEF Replace, Rewrite, Returns, Text
      <3> DEFINE any == \E r : Set(d, r)
      <3> HIDE DEF any
      <3> QED BY <1>1, <3>1 DEF any
    <2> HIDE DEF c
    <2>2. CASE UNCHANGED strings /\ count < -1 /\ ret' = -1
      <3>1. T!Looks(c, -1)
        BY <1>1, <2>2, ReadsLooks
      <3> QED BY <2>2, <3>1, Zenon DEF T!Replace, c
    <2>3. CASE count >= -1 /\ (UNCHANGED strings \/ \E r : Set(d, r))
      <3>1. T!Open(c, {d})
        BY <1>1, <2>3, ChangesOne, LeavesOpen
      <3>2. ~ (count < -1)
        BY <1>1, <2>3
      <3>3. ~ T!Replaceable(Shown[d], old, new, count)
        BY <1>1, <1>3
      <3> QED BY <1>1, <3>1, <3>2, <3>3, Zenon DEF T!Replace, Shown, c
    <2> QED BY <2>1, <2>2, <2>3
  <1> QED BY <1>2, <1>3

-----------------------------------------------------------------------------
(* The promise *)

LEMMA CallIsMade ==
    ASSUME NEW c, Calling(c), c[1] # "none"
    PROVE  call = T!None /\ call' = c /\ Answered'
  <1>1. call = None /\ call' = c
    BY DEF Calling
  <1>2. c # None
    BY DEF None
  <1> QED BY <1>1, <1>2 DEF T!None, None, Answered

LEMMA PlainStepSays ==
    ASSUME Shaped, Answered, NEW d \in live,
           \/ Dest(d) \/ Del(d) \/ Clear(d) \/ Cstr(d) \/ Lower_(d) \/ Upper_(d)
    PROVE  T!Next /\ Answered'
  <1>1. ASSUME NEW op \in {"dest", "del", "clear"}, Calling(<<op, d>>), T!Empty(op, d)
        PROVE  T!Next /\ Answered'
    <2>1. call = T!None /\ call'[1] = op /\ call'[2] = d /\ Answered'
      BY <1>1, CallIsMade
    <2> QED BY <1>1, <2>1 DEF T!Next
  <1>2. ASSUME NEW op \in {"lower", "upper"}, Calling(<<op, d>>), T!Recase(op, d)
        PROVE  T!Next /\ Answered'
    <2>1. call = T!None /\ call'[1] = op /\ call'[2] = d /\ Answered'
      BY <1>2, CallIsMade
    <2> QED BY <1>2, <2>1 DEF T!Next
  <1>3. ASSUME Cstr(d) PROVE T!Next /\ Answered'
    <2>1. call = T!None /\ call'[1] = "cstr" /\ call'[2] = d /\ Answered'
      <3>1. Calling(<<"cstr", d>>)
        BY <1>3 DEF Cstr
      <3> QED BY <3>1, CallIsMade
    <2>2. T!Cstr(d)
      BY <1>3, CstrKeepsText
    <2> QED BY <2>1, <2>2 DEF T!Next
  <1>4. CASE Dest(d) \/ Del(d) \/ Clear(d)
    <2>1. \/ T!Empty("dest", d) /\ Calling(<<"dest", d>>)
          \/ T!Empty("del", d) /\ Calling(<<"del", d>>)
          \/ T!Empty("clear", d) /\ Calling(<<"clear", d>>)
      BY <1>4, EmptiesEmpty DEF Dest, Del, Clear
    <2> QED BY <1>1, <2>1
  <1>5. CASE Lower_(d) \/ Upper_(d)
    <2>1. \/ T!Recase("lower", d) /\ Calling(<<"lower", d>>)
          \/ T!Recase("upper", d) /\ Calling(<<"upper", d>>)
      BY <1>5, RecasesAre DEF Lower_, Upper_
    <2> QED BY <1>2, <2>1
  <1> QED BY <1>3, <1>4, <1>5

LEMMA LookStepSays ==
    ASSUME Shaped, Answered, NEW d \in live,
           \/ \E n \in caller.numbers : Get_(d, n)
           \/ \E o \in live : Compare_(d, o)
           \/ \E w \in Words : In(d, w) \/ StartsWith_(d, w) \/ EndsWith_(d, w)
    PROVE  T!Next /\ Answered'
  <1>1. ASSUME NEW c, NEW n, Reads(c, n), c[1] # "none", T!Look(c) PROVE T!Next /\ Answered'
    <2>1. call = T!None /\ call' = c /\ Answered'
      BY <1>1, CallIsMade DEF Reads
    <2> QED BY <1>1, <2>1 DEF T!Next
  <1>2. ASSUME NEW n \in caller.numbers, Get_(d, n) PROVE T!Next /\ Answered'
    <2> DEFINE c == <<"get", d, n>>
    <2>1. T!Look(c) /\ c[1] # "none"
      BY <1>2, GetLooks
    <2>2. Reads(c, Get(Text(d), n))
      BY <1>2 DEF Get_
    <2> HIDE DEF c
    <2> QED BY <1>1, <2>1, <2>2
  <1>3. ASSUME NEW o \in live, Compare_(d, o) PROVE T!Next /\ Answered'
    <2> DEFINE c == <<"compare", d, o>>
    <2>1. T!Look(c) /\ c[1] # "none"
      BY <1>3, CompareLooks
    <2>2. Reads(c, Compare(Text(d), Text(o)))
      BY <1>3 DEF Compare_
    <2> HIDE DEF c
    <2> QED BY <1>1, <2>1, <2>2
  <1>4. ASSUME NEW w \in Words, In(d, w) \/ StartsWith_(d, w) \/ EndsWith_(d, w)
        PROVE  T!Next /\ Answered'
    <2>1. ASSUME NEW op \in {"in", "starts_with", "ends_with"}, NEW n, Reads(<<op, d, w>>, n),
                 T!Look(<<op, d, w>>)
          PROVE  T!Next /\ Answered'
      <3> DEFINE c == <<op, d, w>>
      <3>1. T!Look(c) /\ c[1] # "none" /\ Reads(c, n)
        BY <2>1
      <3> HIDE DEF c
      <3> QED BY <1>1, <3>1
    <2>2. CASE In(d, w)
      BY <2>1, <2>2, LooksAre DEF In
    <2>3. CASE StartsWith_(d, w)
      BY <2>1, <2>3, LooksAre DEF StartsWith_
    <2>4. CASE EndsWith_(d, w)
      BY <2>1, <2>4, LooksAre DEF EndsWith_
    <2> QED BY <1>4, <2>2, <2>3, <2>4
  <1> QED BY <1>2, <1>3, <1>4

LEMMA NewStepSays ==
    ASSUME Shaped, Answered, NEW d \in Pointers,
           \/ \E t \in Words : New(d, t)
           \/ \E n \in caller.numbers : NewEmpty(d, n)
    PROVE  T!Next /\ Answered'
  <1>1. ASSUME NEW t \in Words, New(d, t) PROVE T!Next /\ Answered'
    <2>1. Calling(<<"new", d, t>>) /\ T!Make(<<"new", d, t>>, d, t)
      BY <1>1, NewMakes DEF New
    <2>2. call = T!None /\ call' = <<"new", d, t>> /\ Answered'
      BY <2>1, CallIsMade
    <2>3. call'[1] = "new" /\ T!Make(call', call'[2], call'[3])
      BY <2>1, <2>2
    <2> QED BY <2>2, <2>3 DEF T!Next
  <1>2. ASSUME NEW n \in caller.numbers, NewEmpty(d, n) PROVE T!Next /\ Answered'
    <2>1. Calling(<<"new_empty", d, n>>) /\ T!MakeEmpty(<<"new_empty", d, n>>, d, n)
      BY <1>2, NewEmptyMakes DEF NewEmpty
    <2>2. call = T!None /\ call' = <<"new_empty", d, n>> /\ Answered'
      BY <2>1, CallIsMade
    <2>3. call'[1] = "new_empty" /\ T!MakeEmpty(call', call'[2], call'[3])
      BY <2>1, <2>2
    <2> QED BY <2>2, <2>3 DEF T!Next
  <1> QED BY <1>1, <1>2

LEMMA EditStepSays ==
    ASSUME Shaped, Answered, NEW d \in live,
           \/ \E c \in UNION {ToSet(w) : w \in Words} :
                 Append_(d, c) \/ \E n \in caller.numbers : Put(d, n, c)
           \/ \E o \in live : Copy(d, o) \/ Extend(d, o)
           \/ Copy(NULL, d)
           \/ \E op \in {"strip", "lstrip", "rstrip"}, w \in caller.words : Strip(op, d, w)
    PROVE  T!Next /\ Answered'
  <1>1. ASSUME NEW c \in UNION {ToSet(w) : w \in Words}, Append_(d, c) PROVE T!Next /\ Answered'
    <2>1. Calling(<<"append", d, c>>) /\ T!Append_(d, c)
      BY <1>1, AppendAppends DEF Append_
    <2>2. call = T!None /\ call'[1] = "append" /\ call'[2] = d /\ call'[3] = c /\ Answered'
      BY <2>1, CallIsMade
    <2> QED BY <2>1, <2>2 DEF T!Next
  <1>2. ASSUME NEW c \in UNION {ToSet(w) : w \in Words}, NEW n \in caller.numbers, Put(d, n, c)
        PROVE  T!Next /\ Answered'
    <2>1. Calling(<<"set", d, n, c>>) /\ T!Put(d, n, c)
      BY <1>2, PutPuts DEF Put
    <2>2. /\ call = T!None /\ Answered'
          /\ call'[1] = "set" /\ call'[2] = d /\ call'[3] = n /\ call'[4] = c
      BY <2>1, CallIsMade
    <2> QED BY <2>1, <2>2 DEF T!Next
  <1>3. ASSUME NEW e \in live \cup {NULL}, NEW o \in live, Copy(e, o) PROVE T!Next /\ Answered'
    <2>1. Calling(<<"copy", e, o>>) /\ T!Copy(e, o)
      BY <1>3, CopyCopies DEF Copy
    <2>2. call = T!None /\ call'[1] = "copy" /\ call'[2] = e /\ call'[3] = o /\ Answered'
      BY <2>1, CallIsMade
    <2> QED BY <2>1, <2>2 DEF T!Next
  <1>4. ASSUME NEW o \in live, Extend(d, o) PROVE T!Next /\ Answered'
    <2>1. Calling(<<"extend", d, o>>) /\ T!Extend(d, o)
      BY <1>4, ExtendExtends DEF Extend
    <2>2. call = T!None /\ call'[1] = "extend" /\ call'[2] = d /\ call'[3] = o /\ Answered'
      BY <2>1, CallIsMade
    <2> QED BY <2>1, <2>2 DEF T!Next
  <1>5. ASSUME NEW op \in {"strip", "lstrip", "rstrip"}, NEW w \in caller.words, Strip(op, d, w)
        PROVE  T!Next /\ Answered'
    <2>1. Calling(<<op, d, w>>) /\ T!Strip(op, d, w)
      BY <1>5, StripStrips DEF Strip
    <2>2. call = T!None /\ call'[1] = op /\ call'[2] = d /\ call'[3] = w /\ Answered'
      BY <2>1, CallIsMade
    <2> QED BY <2>1, <2>2 DEF T!Next
  <1>6. NULL \in live \cup {NULL} /\ d \in live \cup {NULL}
    OBVIOUS
  <1> QED BY <1>1, <1>2, <1>3, <1>4, <1>5, <1>6

LEMMA CutStepSays ==
    ASSUME Shaped, Answered, NEW d \in live, NEW w \in caller.words,
           \/ \E has \in BOOLEAN : SplitNew(has, d, w)
           \/ \E o \in live \cup {NULL} : Partition(d, w, o) \/ Rpartition(d, w, o)
           \/ \E new \in caller.words, n \in caller.numbers : ReplaceNull(d, w, new, n)
    PROVE  T!Next /\ Answered'
  <1>1. ASSUME NEW has, SplitNew(has, d, w) PROVE T!Next /\ Answered'
    <2>1. Calling(<<"split_new", has, d, w>>) /\ T!SplitNew(<<"split_new", has, d, w>>)
      BY <1>1, SplitNewNothing DEF SplitNew
    <2>2. call = T!None /\ call' = <<"split_new", has, d, w>> /\ Answered'
      BY <2>1, CallIsMade
    <2>3. call'[1] = "split_new" /\ T!SplitNew(call')
      BY <2>1, <2>2
    <2> QED BY <2>2, <2>3 DEF T!Next
  <1>2. ASSUME NEW o \in live \cup {NULL}, Partition(d, w, o) PROVE T!Next /\ Answered'
    <2>1. Calling(<<"partition", d, w, o>>) /\ T!Partition(d, w, o)
      BY <1>2, PartitionParts DEF Partition
    <2>2. /\ call = T!None /\ Answered'
          /\ call'[1] = "partition" /\ call'[2] = d /\ call'[3] = w /\ call'[4] = o
      BY <2>1, CallIsMade
    <2> QED BY <2>1, <2>2 DEF T!Next
  <1>3. ASSUME NEW o \in live \cup {NULL}, Rpartition(d, w, o) PROVE T!Next /\ Answered'
    <2>1. Calling(<<"rpartition", d, w, o>>) /\ T!Rpartition(d, w, o)
      BY <1>3, RpartitionParts DEF Rpartition
    <2>2. /\ call = T!None /\ Answered'
          /\ call'[1] = "rpartition" /\ call'[2] = d /\ call'[3] = w /\ call'[4] = o
      BY <2>1, CallIsMade
    <2> QED BY <2>1, <2>2 DEF T!Next
  <1>4. ASSUME NEW new, NEW n, ReplaceNull(d, w, new, n) PROVE T!Next /\ Answered'
    <2>1. Calling(<<"replace", d, w, new, n>>) /\ T!Replace(d, w, new, n)
      BY <1>4, ReplaceNullLooks DEF ReplaceNull
    <2>2. /\ call = T!None /\ Answered'
          /\ call'[1] = "replace" /\ call'[2] = d /\ call'[3] = w /\ call'[4] = new /\ call'[5] = n
      BY <2>1, CallIsMade
    <2> QED BY <2>1, <2>2 DEF T!Next
  <1> QED BY <1>1, <1>2, <1>3, <1>4

(* Each of these calls does what Texts says of it, whatever the caller asks.*)
LEMMA StepSays ==
    ASSUME Shaped, Answered, Next
    PROVE  T!Next /\ Answered'
  <1> DEFINE Holds == T!Next /\ Answered'
  <1>1. ASSUME NEW c, Calling(c) PROVE call' = c
    BY <1>1 DEF Calling
  <1>2. ASSUME Looked PROVE Holds
    <2>1. T!Looked /\ ret' = 0
      BY <1>2, LookedLooks DEF Looked
    <2> QED BY <2>1 DEF T!Next, Answered
  <1> HIDE DEF Holds
  <1>3. ASSUME NEW d \in Pointers, NEW t \in Words, New(d, t) PROVE Holds
    BY <1>3, NewStepSays DEF Holds
  <1>4. ASSUME NEW d \in Pointers, NEW n \in caller.numbers, NewEmpty(d, n) PROVE Holds
    BY <1>4, NewStepSays DEF Holds
  <1>5. ASSUME NEW d \in live,
               \/ Dest(d) \/ Del(d) \/ Clear(d) \/ Cstr(d) \/ Lower_(d) \/ Upper_(d)
               \/ \E n \in caller.numbers : Get_(d, n)
               \/ \E c \in UNION {ToSet(w) : w \in Words} :
                     Append_(d, c) \/ \E n \in caller.numbers : Put(d, n, c)
               \/ \E o \in live : Compare_(d, o) \/ Copy(d, o) \/ Extend(d, o)
               \/ Copy(NULL, d)
               \/ \E w \in Words : In(d, w) \/ StartsWith_(d, w) \/ EndsWith_(d, w)
        PROVE  Holds
    <2>1. CASE \/ \E n \in caller.numbers : Get_(d, n)
               \/ \E o \in live : Compare_(d, o)
               \/ \E w \in Words : In(d, w) \/ StartsWith_(d, w) \/ EndsWith_(d, w)
      BY <2>1, LookStepSays DEF Holds
    <2>2. CASE Dest(d) \/ Del(d) \/ Clear(d) \/ Cstr(d) \/ Lower_(d) \/ Upper_(d)
      BY <2>2, PlainStepSays DEF Holds
    <2>3. CASE \/ \E c \in UNION {ToSet(w) : w \in Words} :
                     Append_(d, c) \/ \E n \in caller.numbers : Put(d, n, c)
               \/ \E o \in live : Copy(d, o) \/ Extend(d, o)
               \/ Copy(NULL, d)
      BY <2>3, EditStepSays DEF Holds
    <2> QED BY <1>5, <2>1, <2>2, <2>3, Zenon
  <1>6. ASSUME NEW d \in live, NEW w \in caller.words,
               \/ \E op \in {"strip", "lstrip", "rstrip"} : Strip(op, d, w)
               \/ \E has \in BOOLEAN : SplitNew(has, d, w)
               \/ \E o \in live \cup {NULL} : Partition(d, w, o) \/ Rpartition(d, w, o)
               \/ \E new \in caller.words, n \in caller.numbers : ReplaceNull(d, w, new, n)
        PROVE  Holds
    <2>1. CASE \E op \in {"strip", "lstrip", "rstrip"} : Strip(op, d, w)
      BY <2>1, EditStepSays DEF Holds
    <2>2. CASE \/ \E has \in BOOLEAN : SplitNew(has, d, w)
               \/ \E o \in live \cup {NULL} : Partition(d, w, o) \/ Rpartition(d, w, o)
               \/ \E new \in caller.words, n \in caller.numbers : ReplaceNull(d, w, new, n)
      BY <2>2, CutStepSays DEF Holds
    <2> QED BY <1>6, <2>1, <2>2, Zenon
  <1>7. ASSUME NEW d \in live, NEW o \in live, NEW start \in caller.numbers, NEW end \in caller.numbers,
               NEW step \in caller.numbers, Slice_(d, o, start, end, step)
        PROVE  Holds
    <2> DEFINE c == <<"slice", d, o, start, end, step>>
    <2>1. Calling(c) /\ c[1] = "slice" /\ c[2] = d /\ c[3] = o /\ c[4] = start /\ c[5] = end /\ c[6] = step
      BY <1>7, Zenon DEF Slice_
    <2> HIDE DEF c
    <2>2. call = T!None /\ call' = c /\ Answered'
      BY <2>1, CallIsMade
    <2>3. T!Slice(d, o, start, end, step)
      BY <1>7, SliceSlices
    <2> QED BY <2>1, <2>2, <2>3 DEF T!Next, Holds
  <1>8. ASSUME NEW d \in live, NEW old \in Words, NEW new \in Words, NEW n \in caller.numbers,
               Replace(d, old, new, n)
        PROVE  Holds
    <2> DEFINE c == <<"replace", d, old, new, n>>
    <2>1. Calling(c) /\ c[1] = "replace" /\ c[2] = d /\ c[3] = old /\ c[4] = new /\ c[5] = n
      BY <1>8, Zenon DEF Replace
    <2> HIDE DEF c
    <2>2. call = T!None /\ call' = c /\ Answered'
      BY <2>1, CallIsMade
    <2>3. T!Replace(d, old, new, n)
      BY <1>8, ReplaceReplaces
    <2> QED BY <2>1, <2>2, <2>3 DEF T!Next, Holds
  <1>9. ASSUME NEW d \in live, NEW w \in caller.words, NEW l \in Lists, Join(d, w, l) PROVE Holds
    <2> DEFINE c == <<"join", d, w, l>>
    <2>1. Calling(c) /\ c[1] = "join" /\ c[2] = d /\ c[3] = w /\ c[4] = l
      BY <1>9, Zenon DEF Join
    <2> HIDE DEF c
    <2>2. call = T!None /\ call' = c /\ Answered'
      BY <2>1, CallIsMade
    <2>3. T!Join(d, w, l)
      BY <1>9, JoinJoins
    <2> QED BY <2>1, <2>2, <2>3 DEF T!Next, Holds
  <1>10. ASSUME NEW d \in live, NEW w \in caller.words, NEW l \in Lists, Split(l, d, w) PROVE Holds
    <2> DEFINE c == <<"split", l, d, w>>
    <2>1. Calling(c) /\ c[1] = "split" /\ c[2] = l /\ c[3] = d /\ c[4] = w
      BY <1>10, Zenon DEF Split
    <2> HIDE DEF c
    <2>2. call = T!None /\ call' = c /\ Answered'
      BY <2>1, CallIsMade
    <2>3. T!Split(l, d, w)
      BY <1>10, SplitSplits
    <2> QED BY <2>1, <2>2, <2>3 DEF T!Next, Holds
  <1>11. ASSUME NEW d \in live, NEW n \in caller.numbers \cap 0 .. 255, ExpandTabs(d, n) PROVE Holds
    <2> DEFINE c == <<"expand_tabs", d, n>>
    <2>1. Calling(c) /\ c[1] = "expand_tabs" /\ c[2] = d /\ c[3] = n
      BY <1>11, Zenon DEF ExpandTabs
    <2> HIDE DEF c
    <2>2. call = T!None /\ call' = c /\ Answered'
      BY <2>1, CallIsMade
    <2>3. T!ExpandTabs(d, n)
      BY <1>11, ExpandTabsExpands
    <2> QED BY <2>1, <2>2, <2>3 DEF T!Next, Holds
  <1>12. Holds
    BY <1>2, <1>3, <1>4, <1>5, <1>6, <1>7, <1>8, <1>9, <1>10, <1>11, ZenonT(60) DEF Next
  <1> QED BY <1>12 DEF Holds

(* What Texts says holds of all sequences of these calls, on texts of any   *)
(* length and whatever memory there is: each either does to the texts what  *)
(* strings.h says it is for, or what Texts names where strings.c does       *)
(* otherwise, or changes none of them and says how much room it would have  *)
(* needed.  Where Texts leaves all open (a slice of nothing or beyond the   *)
(* text, a tab of fewer than 2 spaces, a replace that is not Replaceable, a *)
(* split without a separator, split_new) no other String changes.           *)
THEOREM TextsPromised == Spec => TextsSpec
  <1>1. Init => T!Init /\ Answered
    <2> SUFFICES ASSUME Init PROVE T!Init /\ Answered
      OBVIOUS
    <2>1. Shaped
      BY StartIs
    <2>2. Shown \in [Names -> Seq(Nat)]
      BY <2>1, ShownIs DEF Shown
    <2> QED BY <2>2 DEF Init, T!Init, T!None, None, Answered, Shown
  <1>2. Shaped /\ Answered /\ [Next]_vars => [T!Next]_(T!vars) /\ Answered'
    <2>1. Shaped /\ Answered /\ Next => T!Next /\ Answered'
      BY StepSays
    <2>2. Answered /\ UNCHANGED vars => UNCHANGED T!vars /\ Answered'
      <3> SUFFICES ASSUME Answered, UNCHANGED vars PROVE UNCHANGED T!vars /\ Answered'
        OBVIOUS
      <3>1. UNCHANGED Shown
        BY ShownKept DEF vars
      <3> QED BY <3>1 DEF vars, T!vars, Answered, Shown
    <2> QED BY <2>1, <2>2
  <1>3. Spec => []Answered /\ T!Spec
    BY StaysShaped, <1>1, <1>2, PTL DEF Spec, T!Spec
  <1> QED BY <1>3 DEF TextsSpec
=============================================================================

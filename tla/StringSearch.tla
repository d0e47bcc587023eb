------------------------------ MODULE StringSearch ------------------------------
(***************************************************************************)
(* The functions of src/Strings/strings.c that only read: comparison,      *)
(* prefixes and suffixes, find, rfind, count, circular positions and the   *)
(* positions of a slice.                                                   *)
(*                                                                         *)
(* A text is a sequence of character codes, none of them NUL (strncmp      *)
(* stops at one); the character at position p of the C array is s[p + 1].  *)
(* A loop is a function from the position of its pointer to its result.    *)
(***************************************************************************)
EXTENDS Integers, Sequences, TextOps

(* / and % of C truncate towards zero. *)
Abs(a)     == IF a < 0 THEN - a ELSE a
Quot(a, n) == IF (a < 0) = (n < 0) THEN Abs(a) \div Abs(n) ELSE - (Abs(a) \div Abs(n))
Rem(a, n)  == a - n * Quot(a, n)

-----------------------------------------------------------------------------
(* strncmp on the common length, then the lengths. *)
Compare(a, b) ==
    LET n       == IF Len(a) <= Len(b) THEN Len(a) ELSE Len(b)
        differs == {k \in 1 .. n : a[k] # b[k]}
        k       == CHOOSE i \in differs : \A j \in differs : i <= j
    IN  IF n > 0 /\ differs # {} THEN (IF a[k] < b[k] THEN -1 ELSE 1)
        ELSE IF Len(a) < Len(b) THEN -1
        ELSE IF Len(a) > Len(b) THEN 1
        ELSE 0

StartsWith(s, prefix) ==
    /\ Len(prefix) <= Len(s)
    /\ \A k \in 1 .. Len(prefix) : s[k] = prefix[k]

EndsWith(s, suffix) ==
    /\ Len(suffix) <= Len(s)
    /\ \A k \in 1 .. Len(suffix) : s[Len(s) - Len(suffix) + k] = suffix[k]

CharIn(s, c) == \E k \in DOMAIN s : s[k] = c

-----------------------------------------------------------------------------
(* The bounds of a search: what becomes of a negative one, and an end of 0. *)
Bound(x, n) == IF x < 0 THEN x + n * Quot(x, n) - Rem(x, n) ELSE x

EndBound(x, n) == IF Bound(x, n) = 0 THEN n ELSE Bound(x, n)

(* Wrong: goes on behind the character after a first character that matched. *)
Find_wrong(s, sub, start, end) ==
    LET a == Bound(start, Len(s))
        b == EndBound(end, Len(s))
        next(p)  == Min({q \in p .. b : q = b \/ s[q + 1] = sub[1]})
        scan[p \in a .. b + 1] ==
            IF p >= b THEN -1
            ELSE IF StartsWith(Window(s, p, b - p), sub) THEN p
            ELSE IF p + 2 > b THEN -1 ELSE scan[next(p + 2)]
    IN  IF sub = <<>> \/ Len(s) < Len(sub) \/ a >= b THEN -1 ELSE scan[a]

(* The first occurrence; after a miss the pointer moves on to the next      *)
(* character that sub begins with, or to the end.                           *)
Find(s, sub, start, end) ==
    LET a == Bound(start, Len(s))
        b == EndBound(end, Len(s))
        next(p)  == Min({q \in p .. b : q = b \/ s[q + 1] = sub[1]})
        scan[p \in a .. b] ==
            IF p = b THEN -1
            ELSE IF StartsWith(Window(s, p, b - p), sub) THEN p
            ELSE scan[next(p + 1)]
    IN  IF sub = <<>> \/ Len(s) < Len(sub) \/ a >= b THEN -1 ELSE scan[a]

(* Wrong: the window may begin at start - 1. *)
Rfind_wrong(s, sub, start, end) ==
    LET a == Bound(start, Len(s))
        n == Len(sub)
        scan[p \in 0 .. Len(s)] ==
            IF p < a + n - 1 \/ p < n THEN -1
            ELSE IF EndsWith(Window(s, 0, p), sub) THEN p - n
            ELSE IF p = 0 THEN -1 ELSE scan[p - 1]
        b == EndBound(end, Len(s))
    IN  IF n = 0 \/ Len(s) < n \/ a + n > b THEN -1 ELSE scan[b]

(* The last occurrence: the end of the window moves down to below where sub *)
(* still fits, after a miss past the places that sub cannot begin at.       *)
Rfind(s, sub, start, end) ==
    LET a == Bound(start, Len(s))
        b == EndBound(end, Len(s))
        n == Len(sub)
        next(p) == Max({q \in a + n - 1 .. p : q = a + n - 1 \/ s[q - n + 1] = sub[1]})
        scan[p \in a + n - 1 .. b] ==
            IF p = a + n - 1 THEN -1
            ELSE IF EndsWith(Window(s, a, p - a), sub) THEN p - n
            ELSE scan[next(p - 1)]
    IN  IF n = 0 \/ Len(s) < n \/ a + n > b THEN -1 ELSE scan[b]

(* Wrong: the search goes on behind the first character of what was found.  *)
Count_wrong(s, sub, start, end) ==
    LET a == Bound(start, Len(s))
        b == EndBound(end, Len(s))
        tally[p \in a .. b] ==
            LET loc == Find(Window(s, p, b - p), sub, 0, b - p)
            IN  IF loc < 0 THEN 0
                ELSE IF p + loc < b - Len(sub) THEN 1 + tally[p + loc + 1]
                ELSE 1
    IN  IF sub = <<>> \/ s = <<>> \/ a >= b THEN 0 ELSE tally[a]

(* Occurrences that do not overlap, found from the left. *)
Count(s, sub, start, end) ==
    LET a == Bound(start, Len(s))
        b == EndBound(end, Len(s))
        tally[p \in a .. b] ==
            LET loc == Find(Window(s, p, b - p), sub, 0, b - p)
            IN  IF loc < 0 THEN 0
                ELSE IF p + loc < b - Len(sub) THEN 1 + tally[p + loc + Len(sub)]
                ELSE 1
    IN  IF sub = <<>> \/ s = <<>> \/ a >= b THEN 0 ELSE tally[a]

-----------------------------------------------------------------------------
(* Where String_get and String_set look: a negative position counts from    *)
(* the end, around the text as often as need be.                            *)
Position(loc, n) == IF loc < 0 THEN n - 1 + Rem(loc + 1, n) ELSE loc

Inside(s, loc) == s # <<>> /\ Position(loc, Len(s)) < Len(s)

Get(s, loc) == IF Inside(s, loc) THEN s[Position(loc, Len(s)) + 1] ELSE -1

-----------------------------------------------------------------------------
(* String_slice *)

Dir(step) == IF step >= 0 THEN 1 ELSE -1

SliceStart(start, n) == Position(start, n)

(* An end of 0 is the end of the text when going up; -1 is that as well, or *)
(* the place before the text when going down.                               *)
SliceEnd(end, step, n) ==
    LET e == IF Dir(step) = 1 /\ end = 0 THEN n
             ELSE IF end < 0 THEN n + Rem(end + 1, n)
             ELSE end
    IN  IF Dir(step) = -1 /\ e = n THEN -1 ELSE e

SliceStep(step) == IF step = 0 THEN 1 ELSE step

(* -1: an empty range is an error. *)
SliceIsError(s, start, end, step) ==
    (SliceEnd(end, step, Len(s)) - SliceStart(start, Len(s))) * Dir(step) <= 0

(* Wrong: rounds the number of steps down. *)
SliceSize_wrong(s, start, end, step) ==
    Quot(SliceEnd(end, step, Len(s)) - SliceStart(start, Len(s)), SliceStep(step))

(* The room asked for, before any character is copied. *)
SliceSize(s, start, end, step) ==
    Quot(SliceEnd(end, step, Len(s)) - SliceStart(start, Len(s)) - Dir(step),
         SliceStep(step)) + 1

(* Is every character that the loop is to take one of the text?             *)
SliceReadsText(s, start, end, step) ==
    /\ s # <<>>
    /\ \A k \in 0 .. SliceSize(s, start, end, step) - 1 :
          SliceStart(start, Len(s)) + k * SliceStep(step) \in 0 .. Len(s) - 1

(* The characters the loop appends, one by one. *)
Slice(s, start, end, step) ==
    LET last == SliceEnd(end, step, Len(s))
        n    == Len(s) + 1
        from[k \in 0 .. n] ==
            LET p == SliceStart(start, Len(s)) + k * SliceStep(step)
            IN  IF (last - p) * Dir(step) <= 0 \/ k = n THEN <<>>
                ELSE << s[p + 1] >> \o from[k + 1]
    IN  from[0]
=============================================================================

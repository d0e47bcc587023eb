--------------------------------- MODULE Texts ---------------------------------
(***************************************************************************)
(* What src/Strings/strings.h promises the user of Strings: each is a      *)
(* text, and a call either does what it is for, or changes nothing (a      *)
(* split, nothing from the String it fails at on) and returns the room it  *)
(* would have needed.  Buffers and capacities do not appear.               *)
(*                                                                         *)
(* Where strings.c and strings.h part ways both may happen, or anything at *)
(* all to the Strings that are the call's to change (Open): in slice, join,*)
(* split, set, expand_tabs, replace, partition and rpartition.             *)
(***************************************************************************)
EXTENDS TextOps

CONSTANTS Names, NULL

VARIABLES text, call, ret

vars == <<text, call, ret>>

None == <<"none">>

Says(c, n) == call = None /\ call' = c /\ ret' = n

Becomes(d, t) == text' = [text EXCEPT ![d] = t]

(* A call that only looks. *)
Looks(c, n) == Says(c, n) /\ UNCHANGED text

Bit(b) == IF b THEN 1 ELSE 0

(* Where a position leads: one below 0 counts from the end, around the text.*)
Place(s, n) == IF n < 0 THEN (n % Len(s)) + 1 ELSE n + 1

(* The characters of strings.c:18. *)
WHITESPACE == <<32, 9, 12, 10, 13, 11>>

(* Nothing is said of what the call returns and of what becomes of ds.      *)
Open(c, ds) ==
    /\ call = None /\ call' = c
    /\ text' = [d \in Names |-> IF d \in ds THEN text'[d] ELSE text[d]]

(* d becomes t, or it cannot be changed or would need room for t. *)
Edit(c, d, t) ==
    \/ Says(c, 0)      /\ Becomes(d, t)
    \/ Says(c, Len(t)) /\ UNCHANGED text

(* As Edit, but a failure is only reported. *)
Attempt(c, d, t) ==
    \/ Says(c, 0)  /\ Becomes(d, t)
    \/ Says(c, -1) /\ UNCHANGED text

(* Without memory, new may fail or not return at all. *)
Make(c, d, t) == Attempt(c, d, t) \/ (UNCHANGED text /\ Says(c, 0))

MakeEmpty(c, d, n) ==
    IF n < 0 THEN Says(c, -1) /\ UNCHANGED text ELSE Make(c, d, <<>>)

Empty(op, d) == Says(<<op, d>>, 0) /\ Becomes(d, <<>>)

Look(c) ==
    LET s == text[c[2]]
    IN  \/ c[1] = "compare"     /\ Looks(c, Order(s, text[c[3]]))
        \/ c[1] = "in"          /\ Looks(c, Bit(Occurrences(s, c[3], 0, Len(s)) # {}))
        \/ c[1] = "starts_with" /\ Looks(c, Bit(IsPrefix(c[3], s)))
        \/ c[1] = "ends_with"   /\ Looks(c, Bit(IsSuffix(c[3], s)))
        \/ c[1] = "get" /\ Looks(c, IF s = <<>> \/ c[3] >= Len(s) THEN -1
                                    ELSE s[Place(s, c[3])])

Cstr(d) == (\E r \in {0, -1} : Says(<<"cstr", d>>, r)) /\ UNCHANGED text

Copy(d, o) ==
    LET c == <<"copy", d, o>>
    IN  IF d = NULL THEN Looks(c, Len(text[o])) ELSE Edit(c, d, text[o])

Append_(d, c) == Edit(<<"append", d, c>>, d, text[d] \o << c >>)

Extend(d, o) == Edit(<<"extend", d, o>>, d, text[d] \o text[o])

(* The characters from start on in steps, up to but without end; nothing is *)
(* said of bounds beyond the text, nor of negative ones, save that the room *)
(* reported is that of what would be copied.                                *)
Every(s, start, end, step) ==
    LET taken == {p \in start .. end - 1 : (p - start) % step = 0}
    IN  [k \in 1 .. Cardinality(taken) |-> s[start + (k - 1) * step + 1]]

Slice(d, o, start, end, step) ==
    LET c    == <<"slice", d, o, start, end, step>>
        last == IF end = 0 THEN Len(text[o]) ELSE end
    IN  IF text[o] = <<>> \/ start >= Len(text[o]) \/ end > Len(text[o]) THEN Open(c, {d})
        ELSE IF start < 0 \/ last < 0 \/ step < 0
        THEN \/ \E t \in BoundedSeq(ToSet(text[o]), Len(text[o])) : t # <<>> /\ Edit(c, d, t)
             \/ UNCHANGED text /\ Says(c, -1)
        ELSE IF start >= last THEN UNCHANGED text /\ Says(c, -1)
        ELSE Edit(c, d, Every(text[o], start, last, IF step = 0 THEN 1 ELSE step))

(* Into a String of the list itself something that only begins as it should *)
(* may be joined: that String counts for what has been joined up to it,     *)
(* once or, when there is no room for it, not at all.                       *)
Join(d, sep, list) ==
    LET c     == <<"join", d, sep, list>>
        parts == [i \in DOMAIN list |-> text[list[i]]]
        by    == IF sep = NULL THEN <<>> ELSE sep
        k     == CHOOSE i \in DOMAIN list : list[i] = d
        upto  == IF k = 1 THEN <<>> ELSE Joined(SubSeq(parts, 1, k - 1), by) \o by
    IN  \/ Edit(c, d, Joined(parts, by))
        \/ /\ d \in ToSet(list)
           /\ Says(c, 0)
           /\ \E t \in {upto, upto \o upto} :
                 Becomes(d, Joined(<<t>> \o SubSeq(parts, k + 1, Len(parts)), by))

(* The first n Strings get their pieces; n is returned, or - n (which is    *)
(* what the header says) when the next fails.  A text without the separator *)
(* may be left unsplit, and an empty piece be lost on a String that cannot  *)
(* be changed.  What is split where without a separator is not said.        *)
Split(list, o, sep) ==
    LET c      == <<"split", list, o, sep>>
        pieces == PiecesUpTo(text[o], sep, Len(list))
        filled(n, lost) == [d \in Names |->
            IF \E i \in 1 .. n : list[i] = d /\ i \notin lost
            THEN pieces[CHOOSE i \in 1 .. n : list[i] = d] ELSE text[d]]
    IN  \/ sep = NULL /\ Open(c, ToSet(list))
        \/ sep # NULL /\ list = <<>> /\ Looks(c, 0)
        \/ /\ sep # NULL /\ list # <<>>
           /\ \E n \in 0 .. Len(pieces) :
                 /\ Says(c, n) \/ (n < Len(pieces) /\ Says(c, - n))
                 /\ \E lost \in SUBSET {i \in DOMAIN pieces : pieces[i] = <<>>} :
                       text' = filled(n, lost)

(* Nothing need come of an array that split has to allocate.                *)
SplitNew(c) == Open(c, {})

Strip(op, d, chars) ==
    LET set == ToSet(IF chars = NULL THEN WHITESPACE ELSE chars)
        c   == <<op, d, chars>>
    IN  \/ op = "lstrip" /\ Attempt(c, d, StripLeft(text[d], set))
        \/ op = "rstrip" /\ Attempt(c, d, StripRight(text[d], set))
        \/ op = "strip"  /\ Attempt(c, d, StripLeft(StripRight(text[d], set), set))

(* Every letter of the one case becomes the other's, and nothing else,      *)
(* unless d cannot be changed (strings.c does not ask).                     *)
Recase(op, d) ==
    LET shift(c) ==
            IF op = "lower" /\ c \in 65 .. 90 THEN c + 32
            ELSE IF op = "upper" /\ c \in 97 .. 122 THEN c - 32
            ELSE c
    IN  /\ Says(<<op, d>>, 0)
        /\ \/ Becomes(d, [k \in DOMAIN text[d] |-> shift(text[d][k])])
           \/ UNCHANGED text

(* set returns 0, or the character replaced; it fails if there is none or d *)
(* cannot be changed (strings.c does not ask).                              *)
Put(d, n, c) ==
    LET size == Len(text[d])
        p    == Place(text[d], n)
    IN  \/ UNCHANGED text /\ Says(<<"set", d, n, c>>, -1)
        \/ /\ size > 0 /\ n < size
           /\ \E r \in {0, text[d][p]} : Says(<<"set", d, n, c>>, r)
           /\ Becomes(d, [text[d] EXCEPT ![p] = c])

(* A tab becomes n spaces, or anything if that is fewer than 2.             *)
ExpandTabs(d, n) ==
    LET c == <<"expand_tabs", d, n>>
    IN  \/ Edit(c, d, Expanded(text[d], 9, n, 32))
        \/ n < 2 /\ Open(c, {d})

(* replace keeps to the header with words of one length, no more to replace *)
(* than there is, and no two occurrences that overlap.                      *)
Replaceable(s, old, new, n) ==
    LET spots == Occurrences(s, old, 0, Len(s))
    IN  /\ Len(new) = Len(old)
        /\ n <= Cardinality(spots)
        /\ Apart(spots, Len(old))

(* The first n occurrences, or all, are replaced; none when n is 0.         *)
Replace(d, old, new, n) ==
    LET c     == <<"replace", d, old, new, n>>
        s     == text[d]
        times == Len(Pieces(s, old)) - 1
    IN  IF n < -1 \/ NULL \in {old, new} THEN Looks(c, -1)
        ELSE \/ times = 0 /\ Looks(c, 0)
             \/ n = 0 /\ Looks(c, Len(Replaced(s, old, new, times)))
             \/ n # 0 /\ Edit(c, d, Replaced(s, old, new, IF n = -1 THEN times ELSE n))
             \/ ~ Replaceable(s, old, new, n) /\ Open(c, {d})

(* d keeps what is before the separator at p, x gets what is behind it.     *)
Cut(c, d, sep, x, p) ==
    LET behind == Window(text[d], p + Len(sep), Len(text[d]) - Len(sep) - p)
    IN  \/ /\ x # NULL
           /\ text' = [text EXCEPT ![d] = SubSeq(@, 1, p), ![x] = behind]
           /\ Says(c, 0)
        \/ UNCHANGED text /\ Says(c, Len(behind))

(* Not partitioned: x is empty, unless it cannot be changed.                *)
Whole(c, x) ==
    \/ x # NULL /\ Becomes(x, <<>>) /\ Says(c, 0)
    \/ Looks(c, 0)

Separators(d, sep) ==
    IF sep = NULL THEN {} ELSE Occurrences(text[d], sep, 0, Len(text[d]))

(* At the first separator; one that ends the text need not be seen.         *)
Partition(d, sep, x) ==
    LET c == <<"partition", d, sep, x>>
        p == FirstOf(Separators(d, sep))
    IN  \/ p >= 0 /\ Cut(c, d, sep, x, p)
        \/ (p = -1 \/ p + Len(sep) = Len(text[d])) /\ Whole(c, x)

(* At the last separator; one that begins the text or ends it need not be   *)
(* seen.                                                                    *)
Rpartition(d, sep, x) ==
    LET c == <<"rpartition", d, sep, x>>
        p == LastOf(Separators(d, sep))
    IN  \/ p >= 0 /\ Cut(c, d, sep, x, p)
        \/ (p \in {-1, 0} \/ p + Len(sep) = Len(text[d])) /\ Whole(c, x)

Init ==
    /\ text \in [Names -> Seq(Nat)]
    /\ call = None /\ ret = 0

(* Between calls. *)
Looked == call' = None /\ ret' = 0 /\ UNCHANGED text

(* A call names its operation and its arguments, whatever they are.         *)
Next ==
    \/ Looked
    \/ call = None /\ LET c == call' IN
       \/ Look(c)
       \/ c[1] = "new"         /\ Make(c, c[2], c[3])
       \/ c[1] = "new_empty"   /\ MakeEmpty(c, c[2], c[3])
       \/ c[1] \in {"dest", "del", "clear"}       /\ Empty(c[1], c[2])
       \/ c[1] \in {"lower", "upper"}             /\ Recase(c[1], c[2])
       \/ c[1] \in {"strip", "lstrip", "rstrip"}  /\ Strip(c[1], c[2], c[3])
       \/ c[1] = "cstr"        /\ Cstr(c[2])
       \/ c[1] = "append"      /\ Append_(c[2], c[3])
       \/ c[1] = "set"         /\ Put(c[2], c[3], c[4])
       \/ c[1] = "copy"        /\ Copy(c[2], c[3])
       \/ c[1] = "extend"      /\ Extend(c[2], c[3])
       \/ c[1] = "slice"       /\ Slice(c[2], c[3], c[4], c[5], c[6])
       \/ c[1] = "join"        /\ Join(c[2], c[3], c[4])
       \/ c[1] = "split"       /\ Split(c[2], c[3], c[4])
       \/ c[1] = "split_new"   /\ SplitNew(c)
       \/ c[1] = "partition"   /\ Partition(c[2], c[3], c[4])
       \/ c[1] = "rpartition"  /\ Rpartition(c[2], c[3], c[4])
       \/ c[1] = "expand_tabs" /\ ExpandTabs(c[2], c[3])
       \/ c[1] = "replace"     /\ Replace(c[2], c[3], c[4], c[5])

Spec == Init /\ [][Next]_vars
=============================================================================

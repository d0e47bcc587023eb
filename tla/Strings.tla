-------------------------------- MODULE Strings --------------------------------
(***************************************************************************)
(* The String objects of src/Strings/strings.c and the operations that     *)
(* change them.                                                            *)
(*                                                                         *)
(* A String is its text (the first size characters of its buffer), its     *)
(* capacity, and whether str is NULL.  The capacity says whose the buffer  *)
(* is: allocated (> 0), the caller's array of fixed length (< 0), or       *)
(* read-only (0, str not NULL).  With capacity 0 and no buffer the String  *)
(* is yet to be allocated.  What lies in a buffer behind the text is       *)
(* forgotten between calls: every call that makes a text longer writes it. *)
(*                                                                         *)
(* Texts passed in beside Strings (separators, characters to strip) are    *)
(* members of a caller's words, or NULL where the code looks for it.  A    *)
(* destination may also be a source: what is read then depends on what has *)
(* been written (slice, join, split).                                      *)
(***************************************************************************)
EXTENDS StringSearch

CONSTANTS
    Names,      (* the Strings there may be                                  *)
    Callers,    (* what a caller may do: see Caller                          *)
    NULL,
    STRING_MIN_ALLOC, STRING_GROWTH_FACTOR

TAB   == 9
SPACE == 32
WHITESPACE == <<32, 9, 12, 10, 13, 11>>

(* No NUL, and none that is negative where char is signed.                  *)
Chars == 1 .. 127

String == [text : Seq(Chars), capacity : Int, null : BOOLEAN]

CONST_STRING(t)      == [text |-> t, capacity |-> 0, null |-> FALSE]
AUTO_STRING(t, cap)  == [text |-> t, capacity |-> - cap, null |-> FALSE]
RESIZABLE_STRING     == [text |-> <<>>, capacity |-> 0, null |-> TRUE]

Capacity(s)    == Abs(s.capacity)

Mutable(s) == s.capacity # 0 \/ s.null

(* Wrong: whatever has a capacity was allocated. *)
Allocatable_wrong(s) == s.capacity # 0 \/ s.null

Allocatable(s) == s.capacity > 0 \/ (s.capacity = 0 /\ s.null)

(* A mutable String has room for its text, and none without a buffer.       *)
Sound(s) ==
    /\ Mutable(s) => Len(s.text) <= Capacity(s)
    /\ s.null     => s.capacity = 0

(* A caller declares so many Strings, each one of given or yet to be        *)
(* allocated, gets the others from String_new, and calls some operations    *)
(* with some texts and some counts, tab sizes and positions.  longest is a  *)
(* bound: that of the texts it makes.                                       *)
Caller == [declares : Nat, given : SUBSET String, calls : SUBSET STRING,
           words : SUBSET (Seq(Chars) \cup {NULL}), numbers : SUBSET Int, longest : Nat]

ASSUME ConstantsAssumption ==
    /\ Callers \subseteq Caller
    /\ \A c \in Callers : \A s \in c.given : Sound(s)
    /\ STRING_MIN_ALLOC \in Nat \ {0} /\ STRING_GROWTH_FACTOR \in Nat \ {0}

VARIABLES
    caller,
    declared,   (* the Strings it declares                                   *)
    strings,    (* the Strings                                               *)
    live,       (* those that exist                                          *)
    undefined,  (* has a call accessed memory it does not own, or taken a    *)
                (* slice of what lies behind a text?                         *)
    call,       (* a call and its arguments, until the caller looks at       *)
    ret         (* what it returned                                          *)

vars == <<caller, declared, strings, live, undefined, call, ret>>

Pointers == Names \ declared

Text(d) == strings[d].text

Words == caller.words \ {NULL}

-----------------------------------------------------------------------------
(* Room *)

(* String_resize, when realloc succeeds.                                    *)
NewCapacity(s, n) ==
    IF n < STRING_MIN_ALLOC THEN STRING_MIN_ALLOC
    ELSE IF n < s.capacity * STRING_GROWTH_FACTOR THEN s.capacity * STRING_GROWTH_FACTOR
    ELSE n

Resized(s, n) == [s EXCEPT !.capacity = NewCapacity(s, n), !.null = FALSE]

(* Wrong: one too few. *)
HasRoom_wrong(s, n) == Capacity(s) + 1 >= n

HasRoom(s, n) == Capacity(s) >= n

(* s when room has been made in it for n characters.                        *)
WithRoom(s, n) == IF HasRoom(s, n) THEN s ELSE Resized(s, n)

(* Room can be had, and (for want of capacity or memory) need not be.       *)
CanHold(s, n)   == HasRoom(s, n) \/ Allocatable(s)
MayRefuse(s, n) == ~ HasRoom(s, n)

(* Wrong: the size is only ever raised. *)
Written_wrong(s, t) ==
    [WithRoom(s, Len(t)) EXCEPT !.text = t \o SubSeq(@, Len(t) + 1, Len(@))]

Written(s, t) == [WithRoom(s, Len(t)) EXCEPT !.text = t]

Set(d, s) == strings' = [strings EXCEPT ![d] = s]

Returns(n) == ret' = n /\ UNCHANGED undefined

(* What all operations that leave a text t in d do.                         *)
Write(d, t) ==
    /\ Len(t) <= caller.longest
    /\ UNCHANGED live
    /\ \/ /\ Mutable(strings[d]) /\ CanHold(strings[d], Len(t))
          /\ Set(d, Written(strings[d], t))
          /\ Returns(0)
       \/ /\ ~ Mutable(strings[d]) \/ MayRefuse(strings[d], Len(t))
          /\ UNCHANGED strings
          /\ Returns(Len(t))

None == <<"none">>

Calling(c) ==
    /\ call = None /\ ~ undefined
    /\ c[1] \in caller.calls
    /\ call' = c
    /\ UNCHANGED <<caller, declared>>

(* The caller has looked at what a call returned. *)
Looked ==
    /\ call # None /\ ~ undefined
    /\ call' = None /\ ret' = 0
    /\ UNCHANGED <<caller, declared, strings, live, undefined>>

(* Memory is accessed that is not there, or not yet written, or behind the  *)
(* text that is read.                                                       *)
Crashes == undefined' = TRUE /\ UNCHANGED <<strings, live, ret>>

-----------------------------------------------------------------------------
(* Looking *)

Reads(c, n) == Calling(c) /\ Returns(n) /\ UNCHANGED <<strings, live>>

Bit(b) == IF b THEN 1 ELSE 0

Compare_(d, o)    == Reads(<<"compare", d, o>>, Compare(Text(d), Text(o)))
In(d, w)          == Reads(<<"in", d, w>>, Bit(Count(Text(d), w, 0, 0) > 0))
StartsWith_(d, w) == Reads(<<"starts_with", d, w>>, Bit(StartsWith(Text(d), w)))
EndsWith_(d, w)   == Reads(<<"ends_with", d, w>>, Bit(EndsWith(Text(d), w)))
Get_(d, loc)      == Reads(<<"get", d, loc>>, Get(Text(d), loc))

-----------------------------------------------------------------------------
(* Making and destroying *)

Made(d, s) == Set(d, s) /\ live' = live \cup {d} /\ Returns(0)

NotMade == UNCHANGED <<strings, live>> /\ Returns(-1)

(* buf is a text, of size characters or of size 0 and ended by a NUL.  The  *)
(* first malloc is not looked at.                                           *)
New(d, t) ==
    /\ Calling(<<"new", d, t>>)
    /\ d \in Pointers \ live
    /\ \/ Made(d, [text |-> t, capacity |-> Len(t) + 1, null |-> FALSE])
       \/ NotMade
       \/ Crashes

(* buf is NULL, size the capacity.                                          *)
NewEmpty(d, size) ==
    /\ Calling(<<"new_empty", d, size>>)
    /\ d \in Pointers \ live
    /\ \/ size >= 0 /\ Made(d, [text |-> <<>>, capacity |-> size, null |-> size = 0])
       \/ size # 0 /\ NotMade
       \/ size >= 0 /\ Crashes

Destroyed(s) == IF Allocatable(s) THEN RESIZABLE_STRING ELSE [s EXCEPT !.text = <<>>]

Dest(d) ==
    /\ Calling(<<"dest", d>>)
    /\ Set(d, Destroyed(strings[d]))
    /\ Returns(0)
    /\ UNCHANGED live

Del(d) ==
    /\ Calling(<<"del", d>>)
    /\ d \in Pointers
    /\ Set(d, Destroyed(strings[d]))
    /\ live' = live \ {d}
    /\ Returns(0)

Clear(d) ==
    /\ Calling(<<"clear", d>>)
    /\ Set(d, [strings[d] EXCEPT !.text = <<>>])
    /\ Returns(0)
    /\ UNCHANGED live

-----------------------------------------------------------------------------
(* Copying *)

Copy(d, o) ==
    /\ Calling(<<"copy", d, o>>)
    /\ \/ d # NULL /\ Write(d, Text(o))
       \/ d = NULL /\ UNCHANGED <<strings, live>> /\ Returns(Len(Text(o)))

Append_(d, c) == Calling(<<"append", d, c>>) /\ Write(d, Append(Text(d), c))

(* Room for a NUL behind the text: -1 stands for the NULL it returns.       *)
Cstr(d) ==
    /\ Calling(<<"cstr", d>>)
    /\ UNCHANGED live
    /\ LET n == Len(Text(d)) + 1
       IN  \/ /\ Mutable(strings[d]) /\ CanHold(strings[d], n)
              /\ Set(d, WithRoom(strings[d], n))
              /\ Returns(0)
           \/ /\ ~ Mutable(strings[d]) \/ MayRefuse(strings[d], n)
              /\ UNCHANGED strings
              /\ Returns(-1)

Extend(d, o) == Calling(<<"extend", d, o>>) /\ Write(d, Text(d) \o Text(o))

(* The character copied k-th from a String to itself may be one that has    *)
(* been written over.                                                       *)
SliceOnto(s, start, end, step) ==
    LET from(k) == SliceStart(start, Len(s)) + k * SliceStep(step)
        n == Len(Slice(s, start, end, step))
        got[k \in 0 .. n - 1] == IF from(k) < k THEN got[from(k)] ELSE s[from(k) + 1]
    IN  [k \in 1 .. n |-> got[k - 1]]

(* What is left of a slice that reads behind the text when there is room    *)
(* for it, and when there is none.                                          *)
SliceBehind(d, size) ==
    \/ Mutable(strings[d]) /\ CanHold(strings[d], size) /\ Crashes
    \/ /\ ~ Mutable(strings[d]) \/ MayRefuse(strings[d], size)
       /\ UNCHANGED <<strings, live>>
       /\ Returns(size)

(* The room asked for is that of the characters copied (SliceFits).  A      *)
(* negative position is taken modulo the size, 0 too; no bound is compared  *)
(* with the size.                                                           *)
Slice_(d, o, start, end, step) ==
    /\ Calling(<<"slice", d, o, start, end, step>>)
    /\ \/ Text(o) = <<>> /\ (start < 0 \/ end < 0) /\ Crashes
       \/ /\ Text(o) # <<>> \/ (start >= 0 /\ end >= 0)
          /\ SliceIsError(Text(o), start, end, step)
          /\ UNCHANGED <<strings, live>>
          /\ Returns(-1)
       \/ /\ Text(o) # <<>> \/ (start >= 0 /\ end >= 0)
          /\ ~ SliceIsError(Text(o), start, end, step)
          /\ IF SliceReadsText(Text(o), start, end, step)
             THEN Write(d, IF d = o THEN SliceOnto(Text(o), start, end, step)
                           ELSE Slice(Text(o), start, end, step))
             ELSE SliceBehind(d, SliceSize(Text(o), start, end, step))

JoinedSize(list, sep) ==
    LET upto[i \in 1 .. Len(list)] ==
            Len(Text(list[i])) + (IF i = 1 THEN 0 ELSE upto[i - 1] + Len(sep))
    IN  upto[Len(list)]

(* What String_extend can make of s.                                        *)
Extended(s, t) ==
    {x \in {Written(s, s.text \o t)} : CanHold(s, Len(x.text))}
        \cup {x \in {s} : MayRefuse(s, Len(x.text \o t))}

(* s is cleared and then extended, by what it has become where it is itself *)
(* in the list; the calls are not asked whether they were refused.          *)
JoinedOnto(d, s, sep, list) ==
    LET part(i, x) == IF list[i] = d THEN x.text ELSE Text(list[i])
        upto[i \in 0 .. Len(list)] ==
            IF i = 0 THEN {[s EXCEPT !.text = <<>>]}
            ELSE UNION {Extended(x, part(i, x)) :
                        x \in IF i = 1 THEN upto[0]
                              ELSE UNION {Extended(y, sep) : y \in upto[i - 1]}}
    IN  upto[Len(list)]

Join(d, sepOrNull, list) ==
    /\ Calling(<<"join", d, sepOrNull, list>>)
    /\ UNCHANGED live
    /\ LET sep  == IF sepOrNull = NULL THEN <<>> ELSE sepOrNull
           size == JoinedSize(list, sep)
       IN  \/ /\ list = <<>>
              /\ Set(d, [strings[d] EXCEPT !.text = <<>>])
              /\ Returns(0)
           \/ /\ list # <<>> /\ size <= caller.longest
              /\ Mutable(strings[d]) /\ CanHold(strings[d], size)
              /\ \E s \in JoinedOnto(d, WithRoom(strings[d], size), sep, list) :
                    Len(s.text) <= caller.longest /\ Set(d, s)
              /\ Returns(0)
           \/ /\ list # <<>> /\ size <= caller.longest
              /\ ~ Mutable(strings[d]) \/ MayRefuse(strings[d], size)
              /\ UNCHANGED strings
              /\ Returns(size)

(* The pieces that split cuts, at most n: the position behind the last cut  *)
(* begins the next piece.                                                   *)
Cuts(s, sep, n) ==
    LET from[i \in 0 .. n - 1] ==
            IF i = 0 THEN 0 ELSE Find(s, sep, from[i - 1], Len(s)) + Len(sep)
        piece(i) == IF i = n - 1 THEN Window(s, from[i], Len(s) - from[i])
                    ELSE Window(s, from[i], from[i + 1] - Len(sep) - from[i])
    IN  [k \in 1 .. n |-> piece(k - 1)]

Least(m, n) == IF m <= n THEN m ELSE n

(* The first k of list can take their pieces.  An empty piece is not        *)
(* refused: the 0 that String_copy then returns is taken for success.       *)
Fill(list, pieces, k) ==
    \A i \in 1 .. k :
        pieces[i] = <<>> \/ (Mutable(strings[list[i]]) /\ CanHold(strings[list[i]], Len(pieces[i])))

Filled(list, pieces, k) ==
    [d \in Names |->
        IF Mutable(strings[d]) /\ \E i \in 1 .. k : list[i] = d
        THEN Written(strings[d], pieces[CHOOSE i \in 1 .. k : list[i] = d])
        ELSE strings[d]]

(* The one behind the first k refuses. *)
Refuses(list, pieces, k) ==
    /\ pieces[k + 1] # <<>>
    /\ ~ Mutable(strings[list[k + 1]]) \/ MayRefuse(strings[list[k + 1]], Len(pieces[k + 1]))

(* The k-th of list is the String that is split: the piece must not overlap *)
(* where it is put, and the size it leaves is less than where the next      *)
(* begins, whose size is then negative and its copy, if not refused, is of  *)
(* all memory.                                                              *)
SplitOnto(list, s, sep, pieces, k) ==
    LET before  == [i \in 1 .. k - 1 |-> Len(pieces[i]) + Len(sep)]
        start   == FoldLeft(LAMBDA m, n : m + n, 0, before)
        overlap == 0 < start /\ start < Len(pieces[k])
    IN  IF overlap \/ (k < Len(pieces) /\ Mutable(strings[list[k + 1]])) THEN Crashes
        ELSE UNCHANGED live /\ strings' = Filled(list, pieces, k) /\ Returns(k)

(* The Strings of list take the pieces in turn, up to the first that        *)
(* refuses; its index is what is returned.                                  *)
Split(list, o, sepOrNull) ==
    /\ Calling(<<"split", list, o, sepOrNull>>)
    /\ LET s      == Text(o)
           sep    == IF sepOrNull = NULL THEN WHITESPACE ELSE sepOrNull
           count  == Count(s, sep, 0, Len(s))
           pieces == Cuts(s, sep, Least(count, Len(list) - 1) + 1)
           own    == {k \in 1 .. Least(count + 1, Len(list)) : list[k] = o /\ Mutable(strings[o])}
       IN  \/ /\ list = <<>> \/ count < 1
              /\ UNCHANGED <<strings, live>>
              /\ Returns(0)
           \/ /\ list # <<>> /\ count >= 1
              /\ \E k \in 0 .. Len(pieces) :
                    /\ Fill(list, pieces, k)
                    /\ \/ /\ k \in own
                          /\ SplitOnto(list, s, sep, pieces, k)
                       \/ /\ own \cap 1 .. k = {}
                          /\ k < Len(pieces) => Refuses(list, pieces, k)
                          /\ strings' = Filled(list, pieces, k)
                          /\ UNCHANGED live
                          /\ Returns(k)

(* An array of negative size: unless it already has Strings, nothing is     *)
(* done; if it has, others are allocated, and copied to before they have    *)
(* any value.                                                               *)
SplitNew(has, o, sep) ==
    /\ Calling(<<"split_new", has, o, sep>>)
    /\ LET count == Count(Text(o), IF sep = NULL THEN WHITESPACE ELSE sep, 0, Len(Text(o)))
       IN  \/ /\ ~ has \/ count < 1
              /\ UNCHANGED <<strings, live>>
              /\ Returns(0)
           \/ has /\ count >= 1 /\ (NotMade \/ Crashes)

-----------------------------------------------------------------------------
(* Changing in place *)

Lower(c) == IF c \in 65 .. 90  THEN c + 32 ELSE c

Upper(c) == IF c \in 97 .. 122 THEN c - 32 ELSE c

InPlace(d, t) == Set(d, [strings[d] EXCEPT !.text = t]) /\ UNCHANGED live

Lower_(d) ==
    /\ Calling(<<"lower", d>>)
    /\ InPlace(d, [k \in DOMAIN Text(d) |-> Lower(Text(d)[k])])
    /\ Returns(0)

Upper_(d) ==
    /\ Calling(<<"upper", d>>)
    /\ InPlace(d, [k \in DOMAIN Text(d) |-> Upper(Text(d)[k])])
    /\ Returns(0)

(* Returns the character that was there. *)
Put(d, loc, c) ==
    /\ Calling(<<"set", d, loc, c>>)
    /\ \/ /\ Inside(Text(d), loc)
          /\ InPlace(d, [Text(d) EXCEPT ![Position(loc, Len(Text(d))) + 1] = c])
          /\ Returns(Get(Text(d), loc))
       \/ /\ ~ Inside(Text(d), loc)
          /\ UNCHANGED <<strings, live>>
          /\ Returns(-1)

LeftStripped(s, chars) ==
    LET first == Min({p \in 0 .. Len(s) : p = Len(s) \/ ~ CharIn(chars, s[p + 1])})
    IN  SubSeq(s, first + 1, Len(s))

RightStripped(s, chars) ==
    SubSeq(s, 1, Max({p \in 0 .. Len(s) : p = 0 \/ ~ CharIn(chars, s[p])}))

Stripped(op, s, chars) ==
    CASE op = "lstrip" -> LeftStripped(s, chars)
      [] op = "rstrip" -> RightStripped(s, chars)
      [] op = "strip"  -> LeftStripped(RightStripped(s, chars), chars)

Stripping(chars) == IF chars = NULL THEN WHITESPACE ELSE chars

(* Wrong: nobody asks whether d may be changed. *)
Strip_wrong(op, d, chars) ==
    /\ Calling(<<op, d, chars>>)
    /\ InPlace(d, Stripped(op, Text(d), Stripping(chars)))
    /\ Returns(0)

(* lstrip, rstrip and strip: empty arguments come before the check that d   *)
(* may be changed.                                                          *)
Strip(op, d, chars) ==
    /\ Calling(<<op, d, chars>>)
    /\ \/ /\ Text(d) = <<>> \/ Stripping(chars) = <<>> \/ Mutable(strings[d])
          /\ InPlace(d, Stripped(op, Text(d), Stripping(chars)))
          /\ Returns(0)
       \/ /\ Text(d) # <<>> /\ Stripping(chars) # <<>> /\ ~ Mutable(strings[d])
          /\ UNCHANGED <<strings, live>>
          /\ Returns(-1)

-----------------------------------------------------------------------------
(* Rewriting from the end *)

(* The buffer during a call: cells 0 .. n - 1, those behind the text not    *)
(* yet written, and whether all accesses have been inside.                  *)
Junk == 0

Buffer(s) ==
    LET n == Max({Capacity(s), Len(s.text)})
    IN  [cells |-> [i \in 0 .. n - 1 |-> IF i < Len(s.text) THEN s.text[i + 1] ELSE Junk],
         ok    |-> TRUE]

Content(b, n) == [k \in 1 .. n |-> b.cells[k - 1]]

Covers(b, p, n) == n >= 0 /\ (n > 0 => {p, p + n - 1} \subseteq DOMAIN b.cells)

(* memmove and memcpy. *)
Moved(b, to, from, n) ==
    IF ~ (b.ok /\ Covers(b, to, n) /\ Covers(b, from, n)) THEN [b EXCEPT !.ok = FALSE]
    ELSE [b EXCEPT !.cells =
            [i \in DOMAIN @ |-> IF i \in to .. to + n - 1 THEN @[i - to + from] ELSE @[i]]]

Stored(b, to, t) ==
    IF ~ (b.ok /\ Covers(b, to, Len(t))) THEN [b EXCEPT !.ok = FALSE]
    ELSE [b EXCEPT !.cells =
            [i \in DOMAIN @ |-> IF i \in to .. to + Len(t) - 1 THEN t[i - to + 1] ELSE @[i]]]

(* A String of which the first n cells of its buffer are the text.          *)
Rewrite(d, s, b, n) ==
    /\ Set(d, IF b.ok THEN [s EXCEPT !.text = Content(b, n)] ELSE strings[d])
    /\ undefined' = ~ b.ok
    /\ ret' = 0

(* The characters are read from the last down and written so that the text  *)
(* ends where the longer one will.                                          *)
TabsExpanded(s, size, n) ==
    LET from[read \in -1 .. Len(s.text)] ==
            IF read = Len(s.text) THEN [buf |-> Buffer(s), write |-> size]
            ELSE LET next == from[read + 1]
                     c    == IF read = -1 THEN TAB ELSE next.buf.cells[read]
                     t    == IF c = TAB THEN [k \in 1 .. n |-> SPACE] ELSE << c >>
                 IN  IF read = -1 \/ ~ next.buf.ok THEN next
                     ELSE [buf   |-> Stored(next.buf, next.write - Len(t), t),
                           write |-> next.write - Len(t)]
    IN  from[-1].buf

ExpandTabs(d, tabsize) ==
    /\ Calling(<<"expand_tabs", d, tabsize>>)
    /\ UNCHANGED live
    /\ LET s    == strings[d]
           tabs == Cardinality({k \in DOMAIN s.text : s.text[k] = TAB})
           size == Len(s.text) + tabs * (tabsize - 1)
       IN  /\ size <= caller.longest
           /\ \/ size = Len(s.text) /\ UNCHANGED strings /\ Returns(0)
              \/ /\ size # Len(s.text) /\ Mutable(s) /\ CanHold(s, size)
                 /\ Rewrite(d, WithRoom(s, size),
                            TabsExpanded(WithRoom(s, size), size, tabsize), size)
              \/ /\ size # Len(s.text) /\ (~ Mutable(s) \/ MayRefuse(s, size))
                 /\ UNCHANGED strings
                 /\ Returns(size)

(* Wrong: once more than there are occurrences to stay. *)
Back_wrong(t, old, n) ==
    LET found[k \in 0 .. n + 1] == IF k = 0 THEN Len(t) ELSE Rfind(t, old, 0, found[k - 1])
    IN  found[n + 1]

(* rfind, n times over, beginning before position p. *)
Back(t, old, n) ==
    LET found[k \in 0 .. n] == IF k = 0 THEN Len(t) ELSE Rfind(t, old, 0, found[k - 1])
    IN  found[n]

(* The last times - count occurrences stay, and what follows the one before *)
(* them moves to the end; then one occurrence after another, from the last, *)
(* is found in what the buffer now holds, the text behind it moved and new  *)
(* put before that.                                                         *)
ReplacedIn(s, old, new, count, times) ==
    LET size  == Len(s.text)
        end   == Back(s.text, old, IF times > count THEN times - count ELSE 0)
        first == size + count * (Len(new) - Len(old)) - (size - end)
        state[i \in 0 .. count] ==
            IF i = 0
            THEN [buf |-> Moved(Buffer(s), first, end, size - end), read |-> end,
                  write |-> first]
            ELSE LET last == state[i - 1]
                     next == Rfind(Content(last.buf, size), old, 0, last.read)
                     copy == last.read - next - Len(old)
                     to   == last.write - copy
                 IN  IF ~ last.buf.ok THEN last
                     ELSE [buf   |-> Stored(Moved(last.buf, to, next + Len(old), copy),
                                            to - Len(new), new),
                           read  |-> next,
                           write |-> to - Len(new)]
    IN  state[count].buf

ReplaceNull(d, old, new, count) ==
    /\ Calling(<<"replace", d, old, new, count>>)
    /\ NULL \in {old, new}
    /\ UNCHANGED <<strings, live>>
    /\ Returns(-1)

(* The size of the String is left as it was. *)
Replace(d, old, new, count) ==
    /\ Calling(<<"replace", d, old, new, count>>)
    /\ UNCHANGED live
    /\ LET s     == strings[d]
           times == Count(s.text, old, 0, Len(s.text))
           n     == IF count = -1 THEN times ELSE count
           size  == Len(s.text) + n * (Len(new) - Len(old))
       IN  \/ count < -1 /\ UNCHANGED strings /\ Returns(-1)
           \/ count >= -1 /\ times = 0 /\ UNCHANGED strings /\ Returns(0)
           \/ /\ count = 0 /\ times > 0
              /\ UNCHANGED strings
              /\ Returns(Len(s.text) + times * (Len(new) - Len(old)))
           \/ /\ n > 0 /\ times > 0 /\ size <= caller.longest /\ CanHold(s, size)
              /\ Rewrite(d, WithRoom(s, size),
                         ReplacedIn(WithRoom(s, size), old, new, n, times), Len(s.text))
           \/ /\ n > 0 /\ times > 0 /\ size <= caller.longest /\ MayRefuse(s, size)
              /\ UNCHANGED strings
              /\ Returns(size)

-----------------------------------------------------------------------------
(* Partition *)

(* The first occurrence of sep before the last place it fits in, or that    *)
(* place.                                                                   *)
PartitionAt(s, sep) ==
    LET end == Len(s) - Len(sep)
    IN  Min({p \in 0 .. end : p = end \/ Occurs(s, sep, p)})

(* The last occurrence of sep behind the first character, or 0.             *)
RpartitionAt(s, sep) ==
    Max({p \in 0 .. Len(s) - Len(sep) : p = 0 \/ Occurs(s, sep, p)})

(* The text behind the separator at p goes to suffix; when there is none    *)
(* nothing is cut off.                                                      *)
CutAt(d, p, sep, suffix) ==
    LET t == Window(Text(d), p + Len(sep), Len(Text(d)) - Len(sep) - p)
        x == strings[suffix]
    IN  \/ /\ suffix # NULL /\ Mutable(x) /\ CanHold(x, Len(t))
           /\ strings' = [strings EXCEPT
                 ![d].text = IF t = <<>> THEN @ ELSE SubSeq(@, 1, p),
                 ![suffix] = Written(x, t)]
           /\ Returns(0)
        \/ /\ suffix # NULL => ~ Mutable(x) \/ MayRefuse(x, Len(t))
           /\ UNCHANGED strings
           /\ Returns(Len(t))

NotCut(suffix) ==
    /\ IF suffix = NULL THEN UNCHANGED strings
       ELSE Set(suffix, [strings[suffix] EXCEPT !.text = <<>>])
    /\ Returns(0)

(* With suffix the String itself, what is behind the separator is what it   *)
(* becomes.                                                                 *)
Partition(d, sep, suffix) ==
    /\ Calling(<<"partition", d, sep, suffix>>)
    /\ UNCHANGED live
    /\ IF sep = NULL \/ sep = <<>> \/ Len(Text(d)) < Len(sep) THEN NotCut(suffix)
       ELSE CutAt(d, PartitionAt(Text(d), sep), sep, suffix)

(* An occurrence at 0 is taken for none. *)
Rpartition(d, sep, suffix) ==
    /\ Calling(<<"rpartition", d, sep, suffix>>)
    /\ UNCHANGED live
    /\ IF \/ sep = NULL \/ sep = <<>> \/ Len(Text(d)) < Len(sep)
          \/ RpartitionAt(Text(d), sep) = 0
       THEN NotCut(suffix)
       ELSE CutAt(d, RpartitionAt(Text(d), sep), sep, suffix)

-----------------------------------------------------------------------------
Init ==
    /\ caller \in Callers
    /\ declared \in kSubset(caller.declares, Names)
    /\ live = declared
    /\ strings \in {f \in [Names -> caller.given \cup {RESIZABLE_STRING}] :
                        \A d \in Pointers : f[d] = RESIZABLE_STRING}
    /\ undefined = FALSE
    /\ call = None /\ ret = 0

(* Lists of different Strings. *)
Lists == {l \in BoundedSeq(live, 2) : IsInjective(l)}

Next ==
    \/ Looked
    \/ \E d \in Pointers, t \in Words : New(d, t)
    \/ \E d \in Pointers, n \in caller.numbers : NewEmpty(d, n)
    \/ \E d \in live :
          \/ Dest(d) \/ Del(d) \/ Clear(d) \/ Cstr(d) \/ Lower_(d) \/ Upper_(d)
          \/ \E n \in caller.numbers : Get_(d, n)
          \/ \E c \in UNION {ToSet(w) : w \in Words} :
                Append_(d, c) \/ \E n \in caller.numbers : Put(d, n, c)
          \/ \E o \in live :
                \/ Compare_(d, o) \/ Copy(d, o) \/ Extend(d, o)
                \/ \E start, end, step \in caller.numbers : Slice_(d, o, start, end, step)
          \/ Copy(NULL, d)
          \/ \E w \in Words :
                \/ In(d, w) \/ StartsWith_(d, w) \/ EndsWith_(d, w)
                \/ \E new \in Words, n \in caller.numbers : Replace(d, w, new, n)
          \/ \E w \in caller.words :
                \/ \E op \in {"strip", "lstrip", "rstrip"} : Strip(op, d, w)
                \/ \E l \in Lists : Join(d, w, l) \/ Split(l, d, w)
                \/ \E has \in BOOLEAN : SplitNew(has, d, w)
                \/ \E o \in live \cup {NULL} : Partition(d, w, o) \/ Rpartition(d, w, o)
                \/ \E new \in caller.words, n \in caller.numbers : ReplaceNull(d, w, new, n)
          \/ \E n \in caller.numbers \cap 0 .. 255 : ExpandTabs(d, n)

Spec == Init /\ [][Next]_vars

-----------------------------------------------------------------------------
(* Properties *)

(* The state has its types. *)
TypeOK ==
    /\ strings \in [Names -> String]
    /\ caller \in Callers /\ declared \subseteq live /\ live \subseteq Names
    /\ undefined \in BOOLEAN
    /\ call[1] \in caller.calls \cup {"none"}
    /\ ret \in Int

(* The text of a String the code may write to never outgrows its buffer,    *)
(* and a String without a buffer has neither text nor capacity, whatever    *)
(* calls came before and whichever of them failed.                          *)
WithinCapacity == \A d \in Names : Sound(strings[d])

(* No call accesses memory outside the buffers it was given, nor takes a    *)
(* slice of what lies behind a text.                                        *)
Defined == ~ undefined

(* None does, as long as Asks, but String_new that gets no memory, a split  *)
(* that has to allocate its Strings and one into the String that is split,  *)
(* and a slice of nothing or with a bound beyond the text.                  *)
DefinedElsewhere ==
    undefined => \/ call[1] \in {"new", "new_empty", "split_new"}
                 \/ /\ call[1] = "slice"
                    /\ LET s == Text(call[3])
                       IN  s = <<>> \/ call[4] >= Len(s) \/ call[5] > Len(s)
                 \/ call[1] = "split" /\ call[3] \in ToSet(call[2])

(* No tab is to become nothing, and where there is something to replace, no *)
(* more of it than there is and by no less.                                 *)
Asks ==
    /\ call'[1] = "expand_tabs" => call'[3] > 0
    /\ call'[1] = "replace" /\ NULL \notin {call'[3], call'[4]} =>
          LET t     == Text(call'[2])
              times == Count(t, call'[3], 0, Len(t))
          IN  times > 0 => call'[5] <= times /\ Len(call'[4]) >= Len(call'[3])

(* Callers that never ask for anything else.                                *)
Careful ==
    \A c \in Callers :
        /\ "expand_tabs" \in c.calls => 0 \notin c.numbers
        /\ "replace" \in c.calls => /\ \A n \in c.numbers : n <= 1
                                    /\ \A old, new \in c.words \ {NULL} : Len(new) >= Len(old)

(* strings.h:40-42: with capacity 0 the contents are read-only.  A call may *)
(* take such a String for shorter than it was and does nothing else to it.  *)
Kept(d) ==
    ~ Mutable(strings[d]) => /\ ~ Mutable(strings'[d])
                             /\ IsPrefix(strings'[d].text, Text(d))

ReadOnly == [][\A d \in Names : Kept(d)]_vars

(* No call but lower, upper and set, which do not ask.                      *)
ReadOnlyKept ==
    [][call'[1] \notin {"lower", "upper", "set"} => \A d \in Names : Kept(d)]_vars

(* The caller's own buffers are never replaced, and an allocated one is     *)
(* reallocated only to grow, unless it is given back.                       *)
RoomKept ==
    [][\A d \in Names :
        /\ strings[d].capacity < 0 => strings'[d].capacity = strings[d].capacity
        /\ strings'[d].capacity < strings[d].capacity => call'[1] \in {"dest", "del"}]_vars

(* Each call leaves the Strings the texts that strings.h promises, or that  *)
(* Texts names where strings.c does otherwise; a failed one changes nothing *)
(* and reports the room that would have been enough.                        *)
T == INSTANCE Texts WITH text <- [d \in Names |-> Text(d)]

TextsSpec == T!Spec

-----------------------------------------------------------------------------
(* What strings.h says of single operations *)

Called(op) == call'[1] = op

After(d) == strings'[d].text

(* strings.h:192: set returns 0 on success.                                 *)
SetTold ==
    [][Called("set") /\ After(call'[2]) # Text(call'[2]) => ret' = 0]_vars

(* strings.h:335-338: copy returns 0 on success, when dest holds src.       *)
CopyDone ==
    [][Called("copy") /\ call'[2] # NULL /\ ret' = 0 => After(call'[2]) = Text(call'[3])]_vars

(* strings.h:348-355: each tab is replaced by tabsize spaces.               *)
TabsReplaced ==
    [][Called("expand_tabs") /\ ret' = 0 =>
            After(call'[2]) = Expanded(Text(call'[2]), TAB, call'[3], SPACE)]_vars

(* strings.h:299-304: the first string is what is before the first          *)
(* separator, the second what is behind it.                                 *)
PartitionDone ==
    [][Called("partition") /\ call'[3] # NULL /\ ret' = 0 =>
        LET d == call'[2]
            p == FirstOf(Occurrences(Text(d), call'[3], 0, Len(Text(d))))
        IN  p >= 0 => After(d) = SubSeq(Text(d), 1, p)]_vars

(* strings.h:317-322: the same at the last separator.                       *)
RpartitionDone ==
    [][Called("rpartition") /\ call'[3] # NULL /\ ret' = 0 =>
        LET d == call'[2]
            p == LastOf(Occurrences(Text(d), call'[3], 0, Len(Text(d))))
        IN  p >= 0 => After(d) = SubSeq(Text(d), 1, p)]_vars

(* strings.h:379-393: replace returns 0 on success, with up to count        *)
(* occurrences of old replaced by new.                                      *)
Substituted ==
    LET n == IF call'[5] = -1 THEN Len(Text(call'[2])) ELSE call'[5]
    IN  Replaced(Text(call'[2]), call'[3], call'[4], n)

ReplaceDone ==
    [][Called("replace") /\ ret' = 0 => After(call'[2]) = Substituted]_vars

(* And if the size is looked away from, the buffer begins with that text.   *)
ReplacedInBuffer ==
    [][Called("replace") /\ ret' = 0 => IsPrefix(Substituted, After(call'[2]))]_vars

(* strings.h:409-422: what split fills joins to the text that was split, if *)
(* the buffers are of sufficient capacity.                                  *)
SplitJoins ==
    [][Called("split") /\ (\A d \in ToSet(call'[2]) : HasRoom(strings[d], caller.longest)) =>
        LET filled == [i \in 1 .. ret' |-> After(call'[2][i])]
        IN  call'[2] # <<>> => Joined(filled, call'[4]) = Text(call'[3])]_vars

(* strings.h:411-412: a failure is told by a negative number.               *)
SplitFailureTold ==
    [][Called("split") /\ ret' > 0 =>
            ret' = Len(PiecesUpTo(Text(call'[3]), call'[4], Len(call'[2])))]_vars

(* strings.h:413-421: of an array of size -1 the Strings are allocated, and *)
(* the number of them that were filled is returned.                         *)
SplitAllocates ==
    [][Called("split_new") /\ call'[4] # NULL /\ ret' # -1 =>
            ret' = Len(Pieces(Text(call'[3]), call'[4]))]_vars

(* strings.c:657: without a separator, a text is split at whitespace.       *)
SplitsAtWhitespace ==
    [][Called("split") /\ call'[2] # <<>> /\ call'[4] = NULL /\ ret' = 0 =>
            ToSet(Text(call'[3])) \cap ToSet(WHITESPACE) = {}]_vars
=============================================================================

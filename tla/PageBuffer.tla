------------------------------ MODULE PageBuffer ------------------------------
(***************************************************************************)
(* The paged print buffer of src/page_buffer/page_buffer.c.                *)
(*                                                                         *)
(* A PageBuffer is a stack of pages of equal size linked through last, the *)
(* caller holding the newest.  pbnprintf formats into the newest page; a   *)
(* text that does not fit the room left there is formatted again into a    *)
(* new page, whose first bytes are then moved back to fill the old one.    *)
(*                                                                         *)
(* The code never looks at the text, so a byte is named by its position in *)
(* the text the caller has printed: a call that formats n bytes when       *)
(* printed bytes went before formats the bytes printed+1 .. printed+n.     *)
(* vsnprintf is external: what it does with a format is part of Formats.   *)
(***************************************************************************)
EXTENDS Integers, Sequences, SequencesExt

CONSTANTS
    NewSizes,           (* arguments of PageBuffer_new                       *)
    Formats,            (* formats: [len, first, again] (see Format)         *)
    DefaultBufferSize,  (* DEFAULT_BUFFER_SIZE                               *)
    Header,             (* sizeof(PageBuffer)                                *)
    MaxPages            (* bound: pages malloc grants one buffer             *)

(* A format makes len bytes of text; first and again say whether vsnprintf  *)
(* succeeds on the first call and when the same format is tried again.      *)
Format == [len : Nat, first : BOOLEAN, again : BOOLEAN]

ASSUME ConstantsAssumption ==
    /\ NewSizes \subseteq Int
    /\ Formats \subseteq Format
    /\ Header \in Nat
    /\ DefaultBufferSize \in Nat /\ DefaultBufferSize > Header
    /\ MaxPages \in Nat \ {0}

VARIABLES
    size,       (* buffer_size of every page                                 *)
    pages,      (* the bytes in each page, oldest first; <<>> when no buffer *)
    printed,    (* sum of the byte counts pbnprintf has returned             *)
    ret         (* the last call: [op, status, bytes it put out]             *)

vars == <<size, pages, printed, ret>>

Return(op, status, bytes) == [op |-> op, status |-> status, bytes |-> bytes]

Exists == pages # <<>>
top    == Len(pages)

(* PAGE_BUFFER_SIZE: the bytes left in a page, one of which the terminating *)
(* NUL of vsnprintf needs.                                                  *)
Room(page) == size - Len(page)

(* The bytes vsnprintf makes of a format.                                   *)
Formatted(f) == [k \in 1 .. f.len |-> printed + k]

-----------------------------------------------------------------------------
(* PageBuffer_new *)

(* The definitions named *_wrong are not the code: each is one plausible     *)
(* slip in the definition it stands before, kept to show that a property    *)
(* notices it.                                                              *)

New_wrong(buffer_size) ==
    /\ ~ Exists
    /\ size' = IF buffer_size = 0 THEN DefaultBufferSize - Header
                                  ELSE buffer_size
    /\ pages' = << <<>> >>
    /\ printed' = 0
    /\ ret' = Return("new", 0, <<>>)

New(buffer_size) ==
    /\ ~ Exists
    /\ size' = IF buffer_size <= 0 THEN DefaultBufferSize - Header
                                   ELSE buffer_size
    /\ pages' = << <<>> >>
    /\ printed' = 0
    /\ ret' = Return("new", 0, <<>>)

NewFails ==
    /\ ~ Exists
    /\ ret' = Return("new", -1, <<>>)
    /\ UNCHANGED <<size, pages, printed>>

-----------------------------------------------------------------------------
(* pbnprintf and vpbnprintf *)

Printed(status) ==
    /\ ret' = Return("print", status, <<>>)
    /\ printed' = IF status < 0 THEN printed ELSE printed + status
    /\ UNCHANGED size

(* vsnprintf reports an error: nothing is kept.                             *)
PrintError(f) ==
    /\ Exists
    /\ ~ f.first
    /\ Printed(-1)
    /\ UNCHANGED pages

PrintFits(f) ==
    /\ Exists
    /\ f.first
    /\ f.len < Room(pages[top])
    /\ pages' = [pages EXCEPT ![top] = @ \o Formatted(f)]
    /\ Printed(f.len)

(* The text and its NUL do not fit a page at all.                           *)
PrintTooLong_wrong(f) ==
    /\ Exists
    /\ f.first
    /\ f.len >= Room(pages[top])
    /\ f.len >= size
    /\ Printed(-1)
    /\ pages' = [pages EXCEPT ![top] =
                    @ \o SubSeq(Formatted(f), 1, Room(@) - 1)]

PrintTooLong(f) ==
    /\ Exists
    /\ f.first
    /\ f.len >= Room(pages[top])
    /\ f.len >= size
    /\ Printed(-1)
    /\ UNCHANGED pages

NeedsPage(f) ==
    /\ Exists
    /\ f.first
    /\ f.len >= Room(pages[top])
    /\ f.len < size

PrintNoMemory(f) ==
    /\ NeedsPage(f)
    /\ Printed(-1)
    /\ UNCHANGED pages

Backfill_wrong_nothing(ps) == ps

Backfill_wrong_more(ps) ==
    LET t == Len(ps)
        n == IF Len(ps[t]) > Room(ps[t - 1]) THEN Room(ps[t - 1]) + 1 ELSE Len(ps[t])
    IN  [ps EXCEPT ![t - 1] = @ \o SubSeq(ps[t], 1, n),
                   ![t]     = SubSeq(@, n + 1, Len(@))]

Backfill_wrong_twice(ps) ==
    LET t == Len(ps)
    IN  [ps EXCEPT ![t - 1] = @ \o SubSeq(ps[t], 1, Room(@))]

Backfill_wrong_start(ps) ==
    LET t == Len(ps)
        n == Room(ps[t - 1])
    IN  [ps EXCEPT ![t - 1] = @ \o SubSeq(ps[t], 1, n),
                   ![t]     = SubSeq(@, 1, Len(@) - n)]

(* pb_backfill: move the first bytes of the newest page back into the room  *)
(* left in the one before it.                                               *)
Backfill(ps) ==
    LET t == Len(ps)
        n == Room(ps[t - 1])
    IN  [ps EXCEPT ![t - 1] = @ \o SubSeq(ps[t], 1, n),
                   ![t]     = SubSeq(@, n + 1, Len(@))]

PrintNewPage(f) ==
    /\ NeedsPage(f)
    /\ f.again
    /\ top < MaxPages
    /\ pages' = Backfill(Append(pages, Formatted(f)))
    /\ Printed(f.len)

(* The second vsnprintf fails: the empty new page stays on top.             *)
PrintAgainError(f) ==
    /\ NeedsPage(f)
    /\ ~ f.again
    /\ top < MaxPages
    /\ pages' = Append(pages, <<>>)
    /\ Printed(-1)

pbnprintf(f) ==
    \/ PrintError(f)
    \/ PrintFits(f)
    \/ PrintTooLong(f)
    \/ PrintNoMemory(f)
    \/ PrintNewPage(f)
    \/ PrintAgainError(f)

-----------------------------------------------------------------------------
(* Reading the buffer.  fwrite and write go from the newest page to the     *)
(* oldest; swrite from the oldest to the newest.                            *)

Length == Len(FlattenSeq(pages))

NewestFirst == Reverse(pages)

(* How many bytes of the first k pages visited go out.                      *)
Short(k) ==
    {n \in [1 .. k -> 0 .. size] : \A i \in 1 .. k : n[i] <= Len(NewestFirst[i])}

PutOut(n) == FlattenSeq([i \in DOMAIN n |-> SubSeq(NewestFirst[i], 1, n[i])])

(* Both may come back short for any page, and go on with the next; the sum  *)
(* is returned.                                                             *)
Fwrite ==
    /\ Exists
    /\ \E n \in Short(top) : ret' = Return("fwrite", Len(PutOut(n)), PutOut(n))
    /\ UNCHANGED <<size, pages, printed>>

Write ==
    /\ Exists
    /\ \E n \in Short(top) : ret' = Return("write", Len(PutOut(n)), PutOut(n))
    /\ UNCHANGED <<size, pages, printed>>

(* write gives up at the first page it fails on, with what went out before. *)
WriteFails ==
    /\ Exists
    /\ \E k \in 0 .. top - 1 : \E n \in Short(k) :
          ret' = Return("write", -1, PutOut(n))
    /\ UNCHANGED <<size, pages, printed>>

Swrite_wrong ==
    /\ Exists
    /\ ret' = Return("swrite", Length, FlattenSeq(NewestFirst))
    /\ UNCHANGED <<size, pages, printed>>

(* swrite copies into a new buffer of Length + 1 zeroed bytes.              *)
Swrite ==
    /\ Exists
    /\ ret' = Return("swrite", Length, FlattenSeq(pages))
    /\ UNCHANGED <<size, pages, printed>>

SwriteFails ==
    /\ Exists
    /\ ret' = Return("swrite", -1, <<>>)
    /\ UNCHANGED <<size, pages, printed>>

Del ==
    /\ Exists
    /\ pages' = <<>>
    /\ printed' = 0
    /\ ret' = Return("del", 0, <<>>)
    /\ UNCHANGED size

-----------------------------------------------------------------------------
Init ==
    /\ size = 0
    /\ pages = <<>>
    /\ printed = 0
    /\ ret = Return("none", 0, <<>>)

Next ==
    \/ \E n \in NewSizes : New(n)
    \/ NewFails
    \/ \E f \in Formats : pbnprintf(f)
    \/ Fwrite
    \/ Write
    \/ WriteFails
    \/ Swrite
    \/ SwriteFails
    \/ Del

Spec == Init /\ [][Next]_vars

-----------------------------------------------------------------------------
(* Properties *)

(* The state has its types. *)
TypeOK ==
    /\ size \in Nat
    /\ pages \in Seq(Seq(Nat))
    /\ printed \in Nat

(* No page ever holds more than its size, whatever the prints, the backfill *)
(* and their failures: the newest page keeps a byte for the NUL, until the  *)
(* next page gives it a byte of text.                                       *)
PagesWithinSize ==
    /\ \A i \in 1 .. top : Len(pages[i]) <= size
    /\ Exists => Len(pages[top]) < size

(* The pages hold, oldest first, exactly the bytes of the prints that       *)
(* reported success, in the order they were printed: what overflowed a page *)
(* was neither lost, repeated nor moved out of order by the backfill, and a *)
(* failed print left nothing behind.  Stated page by page: each page runs   *)
(* on from the last byte before it.                                         *)
Before(i) == IF i = 1 THEN 0 ELSE pages[i - 1][Len(pages[i - 1])]

InOrder ==
    Exists =>
        /\ \A i \in 1 .. top - 1 : pages[i] # <<>>
        /\ \A i \in 1 .. top : \A k \in 1 .. Len(pages[i]) :
              pages[i][k] = Before(i) + k
        /\ printed = Before(top) + Len(pages[top])

(* A page is left for the next full to the last byte, or as it was by a     *)
(* print that fails and puts an empty page behind it: such a page keeps its *)
(* room for good, and nothing but a failed second vsnprintf (line 91) makes *)
(* the text take more pages than it needs.                                  *)
PagesLeftFull ==
    [][Exists /\ top' > top
          => \/ ret'.status >= 0 /\ Len(pages'[top]) = size
             \/ ret'.status < 0 /\ pages' = Append(pages, <<>>)]_vars

(* swrite returns the printed text, whole and in order.                     *)
SwriteIsText ==
    ret.op = "swrite" /\ ret.status >= 0 =>
        ret.bytes = [k \in 1 .. printed |-> k]

(* A writer that reports as many bytes as the buffer holds has put out each *)
(* of them once (in whatever order of pages).                               *)
FullCountIsEveryByte ==
    ret.op \in {"fwrite", "write", "swrite"} /\ ret.status = Length =>
        /\ Len(ret.bytes) = printed
        /\ \A k \in 1 .. printed : k \in {ret.bytes[i] : i \in 1 .. Len(ret.bytes)}

(* page_buffer.h:15: pbnprintf returns 0 on success.                        *)
ZeroOnSuccess ==
    [][Length' > Length => ret'.status = 0]_vars

(* page_buffer.h:13: a size of 0 makes a buffer of DEFAULT_BUFFER_SIZE.     *)
DefaultSize ==
    [][New(0) => size' = DefaultBufferSize]_vars

(* The buffer implements an append-only text.                               *)
T == INSTANCE TextLog WITH log <- FlattenSeq(pages)

TextLogSpec == T!Spec

=============================================================================

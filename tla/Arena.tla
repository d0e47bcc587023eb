-------------------------------- MODULE Arena --------------------------------
(* What a caller of the pool allocator relies on: each successful request   *)
(* lends it one block of bytes that meets no block it already holds, blocks *)
(* it holds are never moved or taken back one by one, and all of them end   *)
(* together when the manager is deleted.  A failed request lends nothing.   *)
EXTENDS Integers

VARIABLE lent       (* the blocks on loan: records [addr, size]             *)

Apart(b, c) == b.addr + b.size <= c.addr \/ c.addr + c.size <= b.addr

Init == lent = {}

Lend ==
    \E b \in lent' :
        /\ lent' = lent \cup {b}
        /\ \A c \in lent : Apart(b, c)

EndAll == lent' = {}

Next == Lend \/ EndAll

Spec == Init /\ [][Next]_lent
=============================================================================

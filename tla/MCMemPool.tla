------------------------------ MODULE MCMemPool ------------------------------
(* Small instances of MemPool: addresses are multiples of 16, the alignment *)
(* of malloc, and the header has the 32 bytes it has on a 64-bit target.    *)
EXTENDS MemPool

Args(count, size, alignment) ==
    [count |-> count, size |-> size, alignment |-> alignment]

AArgs(size, alignment) == [size |-> size, alignment |-> alignment]

(* 2064 is 16 but not 32-byte aligned, the others are 1024-byte aligned.    *)
MCAddr == {1024, 2064, 3072}

(* malloc and next: element sizes that do and do not divide the requests,   *)
(* a zero count, the default alignment, and a request no pool here can hold *)
(* besides one that leaves room.                                            *)
BumpNew   == {Args(3, 5, 1), Args(0, 6, 2), Args(1, 16, 0), Args(2, 24, 8)}
BumpSizes == {7, 40}

(* aligned_alloc mixed with malloc and next where each alignment divides    *)
(* the pool size and 16, and aligned_alloc with an alignment of 32 that the *)
(* padding may leave no room for: 1040 and 2064 are 16 bytes off it.        *)
FitAddr    == {1040, 2064, 3072}
FitNew     == {Args(3, 8, 8)}
FitSizes   == {7, 40}
FitAligned == {AArgs(8, 8), AArgs(13, 8), AArgs(48, 8), AArgs(48, 32),
               AArgs(96, 32)}

(* aligned_alloc where an alignment does not divide the pool size.          *)
OddNew     == {Args(2, 10, 2)}
OddSizes   == {17}
OddAligned == {AArgs(2, 16)}

(* A large request aligned more strictly than malloc aligns.                *)
WideNew     == {Args(2, 16, 16)}
WideAligned == {AArgs(40, 64)}

(* count * size does not fit a size_t of 10 bits.                           *)
WrapNew == {Args(64, 16, 16), Args(2, 16, 16)}
=============================================================================

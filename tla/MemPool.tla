------------------------------- MODULE MemPool -------------------------------
(***************************************************************************)
(* The pool allocator of src/memory_pool/mempool.c.                        *)
(*                                                                         *)
(* A MemPoolManager owns a stack of MemPools linked through prev, newest   *)
(* at tail.  A pool is one malloc'd area: a header of Header bytes, padded *)
(* to alignment_offset, then memory_size bytes handed out by bumping       *)
(* memory_consumed.  Every block the caller holds dies with the manager.   *)
(*                                                                         *)
(* Pools are named by the address malloc gave them, so alignment is plain  *)
(* arithmetic on addresses.  size_t arithmetic wraps modulo SizeMod.       *)
(* malloc may fail, or return any free area of Addr it likes.  What is     *)
(* written into the blocks is left out.                                    *)
(***************************************************************************)
EXTENDS Integers, FiniteSets

CONSTANTS
    SizeMod,            (* SIZE_MAX + 1                                      *)
    Header,             (* sizeof(MemPool)                                   *)
    BiggestAlignment,   (* __BIGGEST_ALIGNMENT__                             *)
    Addr,               (* the addresses malloc may return                   *)
    NewArgs,            (* arguments of new: [count, size, alignment]        *)
    Sizes,              (* arguments of MemPoolManager_malloc                *)
    AlignedArgs         (* arguments of aligned_alloc: [size, alignment]     *)

ASSUME ConstantsAssumption ==
    /\ SizeMod \in Nat \ {0}
    /\ Header \in Nat \ {0}
    /\ BiggestAlignment \in Nat \ {0}
    /\ Addr \subseteq Nat \ {0}
    /\ NewArgs \subseteq [count : Nat, size : Nat, alignment : Nat]
    /\ Sizes \subseteq Nat
    /\ AlignedArgs \subseteq [size : Nat, alignment : Nat \ {0}]

VARIABLES
    mgr,        (* the MemPoolManager, or NoMgr                              *)
    pools,      (* address -> MemPool, for every pool that is not freed      *)
    blocks,     (* the blocks the caller may use                             *)
    walk        (* local tail of MemPoolManager_del, Idle outside it         *)

vars == <<mgr, pools, blocks, walk>>

NULL  == 0
Idle  == -1
NoMgr == [tail |-> NULL]

-----------------------------------------------------------------------------
(* size_t arithmetic *)

Word(n)   == n % SizeMod
Add(m, n) == Word(m + n)
Sub(m, n) == Word(m - n)

(* The definitions named *_wrong are not the code: each is one plausible     *)
(* slip in the definition it stands before, kept to show that a property    *)
(* notices it.                                                              *)

PaddedHeader_wrong(alignment) == Header + alignment - 1

(* Bytes from the start of a pool to its memory: the header, rounded up to  *)
(* a multiple of alignment.                                                 *)
PaddedHeader(alignment) == alignment * (((Header - 1) \div alignment) + 1)

AlignmentOffset(alignment) == Word(PaddedHeader(alignment))

-----------------------------------------------------------------------------
(* malloc: n bytes at p are free when no pool that is still allocated meets *)
(* them.  bytes is what the heap granted the pool, which the code does not  *)
(* store.                                                                   *)

MayReturn(p, n) ==
    /\ p \notin DOMAIN pools
    /\ \A q \in DOMAIN pools : p + n <= q \/ q + pools[q].bytes <= p

MemPool_new_wrong_size(p, memory_size, alignment_offset, prev) ==
    [memory          |-> p + alignment_offset,
     memory_size     |-> memory_size - alignment_offset,
     prev            |-> prev,
     memory_consumed |-> 0,
     bytes           |-> Add(alignment_offset, memory_size)]

MemPool_new_wrong_prev(p, memory_size, alignment_offset, prev) ==
    [memory          |-> p + alignment_offset,
     memory_size     |-> memory_size,
     prev            |-> NULL,
     memory_consumed |-> 0,
     bytes           |-> Add(alignment_offset, memory_size)]

(* The struct MemPool_new leaves at p when its malloc succeeds.             *)
MemPool_new(p, memory_size, alignment_offset, prev) ==
    [memory          |-> p + alignment_offset,
     memory_size     |-> memory_size,
     prev            |-> prev,
     memory_consumed |-> 0,
     bytes           |-> Add(alignment_offset, memory_size)]

CanNew(p, memory_size, alignment_offset) ==
    MayReturn(p, Add(alignment_offset, memory_size))

With(f, p, v) == [q \in DOMAIN f \cup {p} |-> IF q = p THEN v ELSE f[q]]

-----------------------------------------------------------------------------
(* The bump allocation of one pool: MemPool_malloc and                      *)
(* MemPool_aligned_alloc as a test, the pool they leave and the block they  *)
(* hand out.  MemPool_malloc is the case of no padding.                     *)

Fits_wrong_strict(pool, size) ==
    Sub(pool.memory_size, pool.memory_consumed) > size

Fits(pool, size) ==
    Sub(pool.memory_size, pool.memory_consumed) >= size

Padding_wrong_base(pool, alignment) ==
    (alignment - (pool.memory_consumed % alignment)) % alignment

Padding(pool, alignment) ==
    (alignment - ((pool.memory + pool.memory_consumed) % alignment)) % alignment

AlignedFits_wrong(pool, size, alignment) ==
    Sub(pool.memory_size, pool.memory_consumed) >= size

AlignedFits(pool, size, alignment) ==
    LET offset == Padding(pool, alignment)
    IN  /\ SizeMod - 1 - pool.memory_consumed >= offset
        /\ Sub(Sub(pool.memory_size, pool.memory_consumed), offset) >= size

Bump_wrong_size(pool, offset, size) ==
    [pool EXCEPT !.memory_consumed = Add(@, offset)]

Bump_wrong_offset(pool, offset, size) ==
    [pool EXCEPT !.memory_consumed = Add(@, size)]

Bump(pool, offset, size) ==
    [pool EXCEPT !.memory_consumed = Add(Add(@, offset), size)]

Block(p, pool, offset, size, alignment) ==
    [pool      |-> p,
     addr      |-> pool.memory + Add(pool.memory_consumed, offset),
     size      |-> size,
     alignment |-> alignment]

-----------------------------------------------------------------------------
(* MemPoolManager_new *)

(* !count || !size, or one of the two mallocs fails: NULL is returned.      *)
NewFails ==
    /\ mgr = NoMgr
    /\ UNCHANGED vars

ManagerAlignment(args) ==
    IF args.alignment = 0 THEN BiggestAlignment ELSE args.alignment

New(args) ==
    LET offset == AlignmentOffset(ManagerAlignment(args))
        total  == Word(args.size * args.count)
    IN  /\ mgr = NoMgr
        /\ args.count # 0 /\ args.size # 0
        /\ \E p \in Addr :
              /\ CanNew(p, total, offset)
              /\ pools' = With(pools, p, MemPool_new(p, total, offset, NULL))
              /\ mgr' = [tail             |-> p,
                         size             |-> args.size,
                         memory_size      |-> total,
                         alignment_offset |-> offset]
        /\ UNCHANGED <<blocks, walk>>

-----------------------------------------------------------------------------
(* MemPoolManager_malloc, and MemPoolManager_next which calls it with the   *)
(* element size.                                                            *)

Ready == mgr # NoMgr /\ walk = Idle

(* Hand out size bytes of the pool at p, after offset bytes of padding.     *)
Take(p, pool, offset, size, alignment) ==
    /\ pools'  = With(pools, p, Bump(pool, offset, size))
    /\ blocks' = blocks \cup {Block(p, pool, offset, size, alignment)}

(* A request above memory_size gets a pool of its own, below the tail.      *)
MallocLarge(size) ==
    /\ Ready
    /\ size > mgr.memory_size
    /\ \E p \in Addr :
          /\ CanNew(p, size, mgr.alignment_offset)
          /\ LET prev == pools[mgr.tail].prev
                 new  == MemPool_new(p, size, mgr.alignment_offset, prev)
             IN  /\ pools' = With(With(pools, p, Bump(new, 0, size)),
                                  mgr.tail, [pools[mgr.tail] EXCEPT !.prev = p])
                 /\ blocks' = blocks \cup {Block(p, new, 0, size, 1)}
    /\ UNCHANGED <<mgr, walk>>

MallocTail(size) ==
    /\ Ready
    /\ size <= mgr.memory_size
    /\ Fits(pools[mgr.tail], size)
    /\ Take(mgr.tail, pools[mgr.tail], 0, size, 1)
    /\ UNCHANGED <<mgr, walk>>

(* The tail is full: a new tail serves the request; the rest of the old     *)
(* tail is never used.                                                      *)
MallocNewTail(size) ==
    /\ Ready
    /\ size <= mgr.memory_size
    /\ ~ Fits(pools[mgr.tail], size)
    /\ \E p \in Addr :
          /\ CanNew(p, mgr.memory_size, mgr.alignment_offset)
          /\ mgr' = [mgr EXCEPT !.tail = p]
          /\ Take(p, MemPool_new(p, mgr.memory_size, mgr.alignment_offset, mgr.tail),
                  0, size, 1)
    /\ UNCHANGED walk

(* Only a request that needs a new pool can fail, and it leaves no trace.   *)
MallocFails(size) ==
    /\ Ready
    /\ size > mgr.memory_size \/ ~ Fits(pools[mgr.tail], size)
    /\ UNCHANGED vars

Malloc(size) ==
    \/ MallocLarge(size)
    \/ MallocTail(size)
    \/ MallocNewTail(size)
    \/ MallocFails(size)

NextElement == Ready /\ Malloc(mgr.size)

-----------------------------------------------------------------------------
(* MemPoolManager_aligned_alloc *)

(* The special pool is linked in whether or not the request then fits it.   *)
AlignedLarge(size, alignment) ==
    /\ Ready
    /\ size > mgr.memory_size
    /\ \E p \in Addr :
          /\ CanNew(p, size, AlignmentOffset(alignment))
          /\ LET prev   == pools[mgr.tail].prev
                 new    == MemPool_new(p, size, AlignmentOffset(alignment), prev)
                 offset == Padding(new, alignment)
                 link(pool) == With(With(pools, p, pool), mgr.tail,
                                    [pools[mgr.tail] EXCEPT !.prev = p])
             IN  \/ /\ AlignedFits(new, size, alignment)
                    /\ pools'  = link(Bump(new, offset, size))
                    /\ blocks' = blocks \cup
                                    {Block(p, new, offset, size, alignment)}
                 \/ /\ ~ AlignedFits(new, size, alignment)
                    /\ pools' = link(new)
                    /\ UNCHANGED blocks
    /\ UNCHANGED <<mgr, walk>>

AlignedTail(size, alignment) ==
    LET tail == pools[mgr.tail]
    IN  /\ Ready
        /\ size <= mgr.memory_size
        /\ AlignedFits(tail, size, alignment)
        /\ Take(mgr.tail, tail, Padding(tail, alignment), size, alignment)
        /\ UNCHANGED <<mgr, walk>>

(* The new tail stays even when the padding does not leave room in it.      *)
AlignedNewTail(size, alignment) ==
    /\ Ready
    /\ size <= mgr.memory_size
    /\ ~ AlignedFits(pools[mgr.tail], size, alignment)
    /\ \E p \in Addr :
          /\ CanNew(p, mgr.memory_size, mgr.alignment_offset)
          /\ mgr' = [mgr EXCEPT !.tail = p]
          /\ LET new == MemPool_new(p, mgr.memory_size, mgr.alignment_offset, mgr.tail)
             IN  \/ /\ AlignedFits(new, size, alignment)
                    /\ Take(p, new, Padding(new, alignment), size, alignment)
                 \/ /\ ~ AlignedFits(new, size, alignment)
                    /\ pools' = With(pools, p, new)
                    /\ UNCHANGED blocks
    /\ UNCHANGED walk

AlignedFails(size, alignment) ==
    /\ Ready
    /\ size > mgr.memory_size \/ ~ AlignedFits(pools[mgr.tail], size, alignment)
    /\ UNCHANGED vars

AlignedAlloc(size, alignment) ==
    \/ AlignedLarge(size, alignment)
    \/ AlignedTail(size, alignment)
    \/ AlignedNewTail(size, alignment)
    \/ AlignedFails(size, alignment)

-----------------------------------------------------------------------------
(* MemPoolManager_del: the caller gives up its blocks, then the loop reads  *)
(* prev, frees the pool and moves on; the manager goes last.                *)

DelBegin ==
    /\ Ready
    /\ walk'   = mgr.tail
    /\ blocks' = {}
    /\ UNCHANGED <<mgr, pools>>

DelPool_wrong ==
    /\ walk \notin {Idle, NULL}
    /\ walk'  = NULL
    /\ pools' = [p \in DOMAIN pools \ {walk} |-> pools[p]]
    /\ UNCHANGED <<mgr, blocks>>

DelPool ==
    /\ walk \notin {Idle, NULL}
    /\ walk'  = pools[walk].prev
    /\ pools' = [p \in DOMAIN pools \ {walk} |-> pools[p]]
    /\ UNCHANGED <<mgr, blocks>>

DelEnd ==
    /\ walk = NULL
    /\ mgr'  = NoMgr
    /\ walk' = Idle
    /\ UNCHANGED <<pools, blocks>>

-----------------------------------------------------------------------------
Init ==
    /\ mgr    = NoMgr
    /\ pools  = [p \in {} |-> NULL]
    /\ blocks = {}
    /\ walk   = Idle

Next ==
    \/ \E args \in NewArgs : New(args)
    \/ NewFails
    \/ NextElement
    \/ \E size \in Sizes : Malloc(size)
    \/ \E args \in AlignedArgs : AlignedAlloc(args.size, args.alignment)
    \/ DelBegin
    \/ DelPool
    \/ DelEnd

Spec == Init /\ [][Next]_vars

-----------------------------------------------------------------------------
(* Properties *)

PoolRecord == [memory : Nat, memory_size : Nat, prev : Addr \cup {NULL},
               memory_consumed : Nat, bytes : Nat]

MgrRecord == [tail : Addr, size : Nat, memory_size : Nat, alignment_offset : Nat]

BlockRecord == [pool : Addr, addr : Nat, size : Nat, alignment : Nat \ {0}]

(* The state has its types.                                                 *)
TypeOK ==
    /\ mgr \in MgrRecord \cup {NoMgr}
    /\ DOMAIN pools \subseteq Addr
    /\ pools \in [DOMAIN pools -> PoolRecord]
    /\ blocks \subseteq BlockRecord
    /\ walk \in Addr \cup {NULL, Idle}
    /\ mgr = NoMgr => walk = Idle

(* The conditions on the arguments under which the allocator is sound; the  *)
(* code checks neither.  No pool is larger than a size_t can say.           *)
NoWrap ==
    /\ \A args \in NewArgs :
          \A n \in Sizes \cup {args.size, args.size * args.count} :
             PaddedHeader(ManagerAlignment(args)) + n < SizeMod
    /\ \A args \in AlignedArgs :
          PaddedHeader(args.alignment) + args.size < SizeMod

(* Alignments asked for divide the addresses malloc returns, the padded     *)
(* header and the memory of the manager's pools.                            *)
AlignmentsFit ==
    \A a \in AlignedArgs :
        /\ \A p \in Addr : p % a.alignment = 0
        /\ \A args \in NewArgs :
              /\ PaddedHeader(ManagerAlignment(args)) % a.alignment = 0
              /\ (args.size * args.count) % a.alignment = 0

(* Elements have the alignment asked of new when it divides their size and  *)
(* the addresses malloc returns; new says one alignment for one size.       *)
ElementsFit ==
    \A args \in NewArgs :
        args.alignment # 0 =>
            /\ \A p \in Addr : p % args.alignment = 0
            /\ args.size % args.alignment = 0
            /\ \A other \in NewArgs :
                  other.size = args.size => other.alignment = args.alignment

(* Every block the caller holds lies in memory the heap granted to a pool   *)
(* that is still allocated, past that pool's own header, whatever sequence  *)
(* of next, malloc, aligned_alloc and large requests handed it out.         *)
BlocksInBounds ==
    \A b \in blocks :
        /\ b.pool \in DOMAIN pools
        /\ b.pool + Header <= b.addr
        /\ b.addr + b.size <= b.pool + pools[b.pool].bytes

Apart(b, c) == b.addr + b.size <= c.addr \/ c.addr + c.size <= b.addr

(* No byte is handed out twice: two blocks the caller holds never overlap,  *)
(* also when they come from different pools.                                *)
BlocksDisjoint == \A b, c \in blocks : b # c => Apart(b, c)

(* A block of aligned_alloc starts at a multiple of the alignment asked for.*)
BlocksAligned == \A b \in blocks : b.addr % b.alignment = 0

(* f is one chain of records linked by prev, which starts at top, ends in   *)
(* NULL and leaves no record out: the links stay inside, no two records     *)
(* share a successor, none leads back to top, and a set that holds top and  *)
(* every successor of its members holds everything.                         *)
Chained(f, top) ==
    /\ top \in DOMAIN f \cup {NULL}
    /\ \A p \in DOMAIN f :
          /\ f[p].prev \in DOMAIN f \cup {NULL}
          /\ f[p].prev # NULL => /\ f[p].prev # top
                                /\ \A q \in DOMAIN f : f[q].prev = f[p].prev => q = p
    /\ \A S \in SUBSET DOMAIN f :
          /\ top \in S \cup {NULL}
          /\ \A p \in S : f[p].prev \in S \cup {NULL}
          => S = DOMAIN f

Top == IF walk # Idle THEN walk ELSE mgr.tail

(* The pools that exist are one chain: from the tail while the manager is   *)
(* in use, from the loop's pointer during del.  So large pools pushed in    *)
(* below the tail and pools a failed request left behind are not lost, del  *)
(* never reads or frees a freed pool, and it leaves nothing allocated.      *)
NoPoolLost == Chained(pools, Top)

(* mempool.c:19: memory_size is the number of bytes in memory, so what is   *)
(* consumed never exceeds it.                                               *)
ConsumedWithinMemory ==
    \A p \in DOMAIN pools : pools[p].memory_consumed <= pools[p].memory_size

(* mempool.c:142: a pool made for one large request is wholly consumed by   *)
(* it.                                                                      *)
LargePoolsConsumed ==
    \A p \in DOMAIN pools :
        mgr # NoMgr /\ pools[p].memory_size > mgr.memory_size
            => pools[p].memory_consumed = pools[p].memory_size

(* mempool.c:13: a pool's memory holds at least one element.                *)
MemoryHoldsElement == mgr # NoMgr => mgr.memory_size >= mgr.size

(* test.c:84-95, for a manager used through next only: the elements in each *)
(* pool are adjacent from the start of its memory, and a pool is left only  *)
(* when it holds as many elements as it was made for.                       *)
NextOnly == Ready /\ \A b \in blocks : b.size = mgr.size

NextTilesPools ==
    NextOnly =>
        \A p \in DOMAIN pools :
            LET k == Cardinality({b \in blocks : b.pool = p})
            IN  /\ {b.addr : b \in {c \in blocks : c.pool = p}} =
                        {pools[p].memory + i * mgr.size : i \in 0 .. k - 1}
                /\ p # mgr.tail => (k + 1) * mgr.size > pools[p].memory_size

(* test.c:83-94, for a manager used through next only: every element is     *)
(* aligned as the caller of new asked, in the first and in later pools.     *)
NextAligned ==
    NextOnly => \A b \in blocks : \A args \in NewArgs :
                    args.size = mgr.size /\ args.alignment # 0
                        => b.addr % args.alignment = 0

(* The allocator implements Arena: whatever pools it pushes and wherever    *)
(* malloc puts them, a request lends one new block apart from all others.   *)
A == INSTANCE Arena
        WITH lent <- {[addr |-> b.addr, size |-> b.size] : b \in blocks}

ArenaSpec == A!Spec

=============================================================================

---------------------------- MODULE MemPool_proof ----------------------------
(* Theorems about MemPool, for every value of its constants.                *)
EXTENDS MemPool, FiniteSetTheorems, TLAPS

USE DEF NULL, Idle

-----------------------------------------------------------------------------
(* Facts about the operators. *)

(* What the provers need of the constants.                                  *)
LEMMA ConstantFacts ==
    /\ SizeMod \in Nat /\ SizeMod # 0
    /\ Header \in Nat /\ Header # 0
    /\ \A p \in Addr : p \in Nat /\ p # NULL /\ p # Idle
  BY ConstantsAssumption

(* The remainder by a positive number is a natural number below it.         *)
LEMMA ModFacts ==
    ASSUME NEW x \in Int, NEW n \in Nat, n # 0
    PROVE  x % n \in Nat /\ x % n < n
  OBVIOUS

(* size_t arithmetic yields a size_t.                                       *)
LEMMA WordType == \A n \in Int : Word(n) \in Nat /\ Word(n) < SizeMod
  BY ModFacts, ConstantFacts DEF Word

LEMMA AddType == \A m, n \in Int : Add(m, n) \in Nat /\ Add(m, n) < SizeMod
  BY WordType DEF Add

LEMMA SubType == \A m, n \in Int : Sub(m, n) \in Nat /\ Sub(m, n) < SizeMod
  BY WordType DEF Sub

(* Sums and differences that stay in the range of size_t do not wrap.       *)
LEMMA WordExact ==
    /\ \A n \in Nat : n < SizeMod => Word(n) = n
    /\ \A m, n \in Nat : m + n < SizeMod => Add(m, n) = m + n
    /\ \A m, n \in Nat : n <= m /\ m < SizeMod => Sub(m, n) = m - n
  <1>1. \A n \in Nat : n < SizeMod => n % SizeMod = n
    BY ConstantFacts
  <1>2. \A n \in Nat : n < SizeMod => Word(n) = n
    BY <1>1 DEF Word
  <1>3. \A m, n \in Nat : m + n < SizeMod => Add(m, n) = m + n
    BY <1>2 DEF Add
  <1>4. \A m, n \in Nat : n <= m /\ m < SizeMod => Sub(m, n) = m - n
    BY <1>2, ConstantFacts DEF Sub
  <1> QED BY <1>2, <1>3, <1>4

(* Padding is a natural number.                                             *)
LEMMA PaddingType ==
    ASSUME NEW pool \in PoolRecord, NEW alignment \in Nat \ {0}
    PROVE  Padding(pool, alignment) \in Nat
  <1>1. (pool.memory + pool.memory_consumed) % alignment \in Nat
    BY ModFacts DEF PoolRecord
  <1> QED BY <1>1, ModFacts DEF Padding

-----------------------------------------------------------------------------
(* The chain of pools. *)

(* Pushing a new record in front of the chain: a new tail.                  *)
LEMMA ChainPush ==
    ASSUME NEW f, NEW top, NEW p, NEW v,
           Chained(f, top), p \notin DOMAIN f, p # NULL, v.prev = top
    PROVE  Chained(With(f, p, v), p)
  <1> DEFINE g == With(f, p, v)
  <1>1. DOMAIN g = DOMAIN f \cup {p} /\ g[p] = v
        /\ \A q \in DOMAIN f : q # p => g[q] = f[q]
    BY DEF With
  <1> HIDE DEF g
  <1>2. ASSUME NEW q \in DOMAIN g
        PROVE  /\ g[q].prev \in DOMAIN g \cup {NULL}
               /\ g[q].prev # NULL => /\ g[q].prev # p
                                     /\ \A r \in DOMAIN g : g[r].prev = g[q].prev => r = q
    BY <1>1 DEF Chained
  <1>3. ASSUME NEW S \in SUBSET DOMAIN g,
               p \in S \cup {NULL},
               \A q \in S : g[q].prev \in S \cup {NULL}
        PROVE  S = DOMAIN g
    <2>1. p \in S /\ top \in (S \ {p}) \cup {NULL}
      BY <1>1, <1>3 DEF Chained
    <2>2. \A q \in S \ {p} : f[q].prev \in (S \ {p}) \cup {NULL}
      BY <1>1, <1>3 DEF Chained
    <2>3. S \ {p} = DOMAIN f
      BY <1>1, <2>1, <2>2 DEF Chained
    <2> QED BY <1>1, <2>1, <2>3
  <1> QED BY <1>1, <1>2, <1>3 DEF Chained, g

(* Changing a record but not its link.                                      *)
LEMMA ChainKeep ==
    ASSUME NEW f, NEW top, NEW p, NEW v,
           Chained(f, top), p \in DOMAIN f, v.prev = f[p].prev
    PROVE  Chained(With(f, p, v), top)
  <1> DEFINE g == With(f, p, v)
  <1>1. DOMAIN g = DOMAIN f /\ \A q \in DOMAIN f : g[q].prev = f[q].prev
    BY DEF With
  <1> HIDE DEF g
  <1> QED BY <1>1 DEF Chained, g

(* Linking a new record in just behind the first one: a large pool.         *)
LEMMA ChainInsert ==
    ASSUME NEW f, NEW top, NEW p, NEW v, NEW w,
           Chained(f, top), top \in DOMAIN f, top # NULL,
           p \notin DOMAIN f, p # NULL,
           v.prev = f[top].prev, w.prev = p
    PROVE  Chained(With(With(f, p, v), top, w), top)
  <1> DEFINE g == With(With(f, p, v), top, w)
  <1>1. DOMAIN g = DOMAIN f \cup {p} /\ g[p] = v /\ g[top] = w
        /\ \A q \in DOMAIN f : q # top => g[q] = f[q]
    BY DEF With
  <1> HIDE DEF g
  <1>2. ASSUME NEW q \in DOMAIN g
        PROVE  /\ g[q].prev \in DOMAIN g \cup {NULL}
               /\ g[q].prev # NULL => /\ g[q].prev # top
                                     /\ \A r \in DOMAIN g : g[r].prev = g[q].prev => r = q
    BY <1>1 DEF Chained
  <1>3. ASSUME NEW S \in SUBSET DOMAIN g,
               top \in S \cup {NULL},
               \A q \in S : g[q].prev \in S \cup {NULL}
        PROVE  S = DOMAIN g
    <2>1. top \in S /\ p \in S
      BY <1>1, <1>3
    <2>2. \A q \in S \ {p} : f[q].prev \in (S \ {p}) \cup {NULL}
      BY <1>1, <1>3, <2>1 DEF Chained
    <2>3. S \ {p} = DOMAIN f
      BY <1>1, <2>1, <2>2 DEF Chained
    <2> QED BY <1>1, <2>1, <2>3
  <1> QED BY <1>1, <1>2, <1>3 DEF Chained, g

(* Taking the first record away: one turn of the loop of del.               *)
LEMMA ChainPop ==
    ASSUME NEW f, NEW top, Chained(f, top), top \in DOMAIN f, top # NULL
    PROVE  Chained([q \in DOMAIN f \ {top} |-> f[q]], f[top].prev)
  <1> DEFINE g == [q \in DOMAIN f \ {top} |-> f[q]]
  <1>1. DOMAIN g = DOMAIN f \ {top} /\ \A q \in DOMAIN g : g[q] = f[q]
    OBVIOUS
  <1> HIDE DEF g
  <1>2. ASSUME NEW S \in SUBSET DOMAIN g,
               f[top].prev \in S \cup {NULL},
               \A q \in S : g[q].prev \in S \cup {NULL}
        PROVE  S = DOMAIN g
    <2>1. S \cup {top} = DOMAIN f
      BY <1>1, <1>2 DEF Chained
    <2> QED BY <1>1, <2>1
  <1>3. ASSUME NEW q \in DOMAIN g
        PROVE  /\ g[q].prev \in DOMAIN g \cup {NULL}
               /\ g[q].prev # NULL => /\ g[q].prev # f[top].prev
                                     /\ \A r \in DOMAIN g : g[r].prev = g[q].prev => r = q
    BY <1>1 DEF Chained
  <1>4. f[top].prev \in DOMAIN g \cup {NULL}
    BY <1>1 DEF Chained
  <1> QED BY <1>1, <1>2, <1>3, <1>4 DEF Chained, g

-----------------------------------------------------------------------------
(* Types, and the chain of pools. *)

Structure == TypeOK /\ NoPoolLost

(* What TypeOK says once the manager is known to be in use.                 *)
LEMMA ReadyFacts ==
    ASSUME TypeOK, NoPoolLost, Ready
    PROVE  /\ mgr \in MgrRecord
           /\ mgr.tail \in DOMAIN pools /\ mgr.tail # NULL
           /\ pools[mgr.tail] \in PoolRecord
           /\ Top = mgr.tail
  <1>1. mgr \in MgrRecord
    BY DEF TypeOK, Ready
  <1>2. mgr.tail \in Addr /\ mgr.tail # NULL /\ Top = mgr.tail
    BY <1>1, ConstantFacts DEF MgrRecord, Top, Ready
  <1>3. mgr.tail \in DOMAIN pools
    BY <1>2 DEF NoPoolLost, Chained
  <1> QED BY <1>1, <1>2, <1>3 DEF TypeOK

(* The struct of a new pool, and a pool after a request, have their types.  *)
LEMMA NewPoolType ==
    ASSUME NEW p \in Addr, NEW size \in Nat, NEW offset \in Nat,
           NEW prev \in Addr \cup {NULL}
    PROVE  MemPool_new(p, size, offset, prev) \in PoolRecord
  <1>1. Add(offset, size) \in Nat
    BY AddType
  <1>2. p + offset \in Nat
    BY ConstantFacts
  <1> QED BY <1>1, <1>2 DEF MemPool_new, PoolRecord

LEMMA AddsType ==
    ASSUME NEW c \in Int, NEW offset \in Int, NEW size \in Int
    PROVE  Add(c, offset) \in Nat /\ Add(Add(c, offset), size) \in Nat
  <1>1. Add(c, offset) \in Nat
    BY AddType
  <1>2. Add(c, offset) \in Int
    BY <1>1
  <1> QED BY <1>1, <1>2, AddType, Zenon

LEMMA BumpType ==
    ASSUME NEW pool \in PoolRecord, NEW offset \in Nat, NEW size \in Nat
    PROVE  /\ Bump(pool, offset, size) \in PoolRecord
           /\ Bump(pool, offset, size).prev = pool.prev
  <1>1. pool.memory_consumed \in Int
    BY DEF PoolRecord
  <1>2. Add(Add(pool.memory_consumed, offset), size) \in Nat
    BY <1>1, AddsType, offset \in Int, size \in Int, Zenon
  <1> QED BY <1>2 DEF Bump, PoolRecord

LEMMA BlockType ==
    ASSUME NEW p \in Addr, NEW pool \in PoolRecord, NEW offset \in Nat,
           NEW size \in Nat, NEW alignment \in Nat \ {0}
    PROVE  Block(p, pool, offset, size, alignment) \in BlockRecord
  <1>1. pool.memory_consumed \in Int
    BY DEF PoolRecord
  <1>2. Add(pool.memory_consumed, offset) \in Nat
    BY <1>1, AddType, offset \in Int, Zenon
  <1>3. pool.memory + Add(pool.memory_consumed, offset) \in Nat
    BY <1>2 DEF PoolRecord
  <1> QED BY <1>3 DEF Block, BlockRecord

LEMMA AlignmentOffsetType ==
    ASSUME NEW alignment \in Nat \ {0}
    PROVE  AlignmentOffset(alignment) \in Nat
  <1>1. (Header - 1) \div alignment \in Int
    BY ConstantFacts
  <1>2. PaddedHeader(alignment) \in Int
    BY <1>1 DEF PaddedHeader
  <1> QED BY <1>2, WordType DEF AlignmentOffset

LEMMA ManagerAlignmentType ==
    ASSUME NEW args \in NewArgs
    PROVE  ManagerAlignment(args) \in Nat \ {0}
  BY ConstantsAssumption DEF ManagerAlignment

(* Storing a well-typed pool keeps the map of pools well typed.             *)
LEMMA WithType ==
    ASSUME NEW f, DOMAIN f \subseteq Addr, f \in [DOMAIN f -> PoolRecord],
           NEW p \in Addr, NEW v \in PoolRecord
    PROVE  /\ DOMAIN With(f, p, v) \subseteq Addr
           /\ With(f, p, v) \in [DOMAIN With(f, p, v) -> PoolRecord]
  BY DEF With

(* A request served by a pool that exists only advances its consumption.    *)
LEMMA TakeStructure ==
    ASSUME Structure, Ready, NEW size \in Nat, NEW offset \in Nat,
           NEW alignment \in Nat \ {0},
           Take(mgr.tail, pools[mgr.tail], offset, size, alignment),
           UNCHANGED <<mgr, walk>>
    PROVE  Structure'
  <1> DEFINE tail == pools[mgr.tail]
  <1>1. /\ mgr \in MgrRecord /\ mgr.tail \in DOMAIN pools /\ mgr.tail \in Addr
        /\ tail \in PoolRecord /\ Top = mgr.tail
    BY ReadyFacts, ConstantFacts DEF Structure, MgrRecord
  <1>2. /\ Bump(tail, offset, size) \in PoolRecord
        /\ Bump(tail, offset, size).prev = tail.prev
        /\ Block(mgr.tail, tail, offset, size, alignment) \in BlockRecord
    BY <1>1, BumpType, BlockType
  <1>3. pools' = With(pools, mgr.tail, Bump(tail, offset, size))
    BY DEF Take
  <1>4. DOMAIN pools' \subseteq Addr /\ pools' \in [DOMAIN pools' -> PoolRecord]
    BY <1>1, <1>2, <1>3, WithType DEF Structure, TypeOK
  <1>5. TypeOK'
    BY <1>2, <1>4 DEF Structure, TypeOK, Take
  <1>6. Chained(pools', Top)
    BY <1>1, <1>2, <1>3, ChainKeep DEF Structure, NoPoolLost
  <1> QED BY <1>5, <1>6 DEF Structure, NoPoolLost, Top

(* A new pool, already consumed or not, becomes the tail.                   *)
LEMMA PushStructure ==
    ASSUME Structure, walk = Idle, NEW p \in Addr, NEW v \in PoolRecord,
           p \notin DOMAIN pools, v.prev = Top,
           pools' = With(pools, p, v),
           mgr' \in MgrRecord, mgr'.tail = p, UNCHANGED walk,
           blocks' \subseteq BlockRecord
    PROVE  Structure'
  <1>1. DOMAIN pools' \subseteq Addr /\ pools' \in [DOMAIN pools' -> PoolRecord]
    BY WithType DEF Structure, TypeOK
  <1>2. TypeOK'
    BY <1>1 DEF Structure, TypeOK
  <1>3. Top' = p
    BY DEF Top
  <1>4. Chained(pools', p)
    BY ConstantFacts, ChainPush DEF Structure, NoPoolLost
  <1> QED BY <1>2, <1>3, <1>4 DEF Structure, NoPoolLost

(* A new pool is linked in below the tail.                                  *)
LEMMA InsertStructure ==
    ASSUME Structure, Ready, NEW p \in Addr, NEW v \in PoolRecord,
           p \notin DOMAIN pools, v.prev = pools[mgr.tail].prev,
           pools' = With(With(pools, p, v), mgr.tail,
                         [pools[mgr.tail] EXCEPT !.prev = p]),
           UNCHANGED <<mgr, walk>>,
           blocks' \subseteq BlockRecord
    PROVE  Structure'
  <1> DEFINE w == [pools[mgr.tail] EXCEPT !.prev = p]
             g == With(pools, p, v)
  <1>1. /\ mgr \in MgrRecord /\ mgr.tail \in DOMAIN pools /\ mgr.tail \in Addr
        /\ mgr.tail # NULL
        /\ pools[mgr.tail] \in PoolRecord /\ Top = mgr.tail
    BY ReadyFacts, ConstantFacts DEF Structure, MgrRecord
  <1>2. w \in PoolRecord /\ w.prev = p
    BY <1>1 DEF PoolRecord
  <1>3. DOMAIN g \subseteq Addr /\ g \in [DOMAIN g -> PoolRecord]
    BY WithType DEF Structure, TypeOK
  <1> HIDE DEF g, w
  <1>4. pools' = With(g, mgr.tail, w)
    BY DEF g, w
  <1>5. /\ DOMAIN With(g, mgr.tail, w) \subseteq Addr
        /\ With(g, mgr.tail, w) \in [DOMAIN With(g, mgr.tail, w) -> PoolRecord]
    BY <1>1, <1>2, <1>3, WithType
  <1>6. TypeOK'
    BY <1>4, <1>5 DEF Structure, TypeOK
  <1>7. Chained(pools', mgr.tail)
    BY <1>1, <1>2, <1>4, ConstantFacts, ChainInsert DEF Structure, NoPoolLost, g
  <1> QED BY <1>1, <1>6, <1>7 DEF Structure, NoPoolLost, Top

LEMMA NewStructure ==
    ASSUME Structure, NEW args \in NewArgs, New(args)
    PROVE  Structure'
  <1> DEFINE offset == AlignmentOffset(ManagerAlignment(args))
             total  == Word(args.size * args.count)
  <1>1. offset \in Nat
    BY ManagerAlignmentType, AlignmentOffsetType
  <1>2. args.size \in Nat /\ args.count \in Nat
    BY ConstantsAssumption
  <1>3. total \in Nat
    <2>1. args.size * args.count \in Int
      BY <1>2
    <2> QED BY <2>1, WordType
  <1> HIDE DEF offset, total
  <1>4. PICK p \in Addr :
           /\ CanNew(p, total, offset)
           /\ pools' = With(pools, p, MemPool_new(p, total, offset, NULL))
           /\ mgr' = [tail |-> p, size |-> args.size,
                      memory_size |-> total, alignment_offset |-> offset]
    BY DEF New, offset, total
  <1>5. mgr' \in MgrRecord /\ mgr'.tail = p
    BY <1>1, <1>2, <1>3, <1>4 DEF MgrRecord
  <1>6. MemPool_new(p, total, offset, NULL) \in PoolRecord
        /\ MemPool_new(p, total, offset, NULL).prev = NULL
    BY <1>1, <1>3, NewPoolType DEF MemPool_new
  <1>7. walk = Idle /\ Top = NULL /\ UNCHANGED <<blocks, walk>>
        /\ blocks' \subseteq BlockRecord
    BY DEF New, Structure, TypeOK, Top, NoMgr
  <1>8. p \notin DOMAIN pools
    BY <1>4 DEF CanNew, MayReturn
  <1> QED BY <1>4, <1>5, <1>6, <1>7, <1>8, PushStructure

LEMMA MallocStructure ==
    ASSUME Structure, NEW size \in Nat, Malloc(size)
    PROVE  Structure'
  <1>1. CASE MallocLarge(size)
    <2>1. /\ Ready /\ mgr \in MgrRecord /\ pools[mgr.tail] \in PoolRecord
          /\ UNCHANGED <<mgr, walk>>
      BY <1>1, ReadyFacts DEF MallocLarge, Structure
    <2> DEFINE prev == pools[mgr.tail].prev
               new(p) == MemPool_new(p, size, mgr.alignment_offset, prev)
    <2>2. PICK p \in Addr :
             /\ CanNew(p, size, mgr.alignment_offset)
             /\ pools' = With(With(pools, p, Bump(new(p), 0, size)),
                              mgr.tail, [pools[mgr.tail] EXCEPT !.prev = p])
             /\ blocks' = blocks \cup {Block(p, new(p), 0, size, 1)}
      BY <1>1 DEF MallocLarge
    <2>3. new(p) \in PoolRecord /\ new(p).prev = prev
      <3>1. mgr.alignment_offset \in Nat /\ prev \in Addr \cup {NULL}
        BY <2>1 DEF MgrRecord, PoolRecord
      <3> QED BY <3>1, NewPoolType DEF MemPool_new
    <2> HIDE DEF new, prev
    <2>4. /\ Bump(new(p), 0, size) \in PoolRecord
          /\ Bump(new(p), 0, size).prev = prev
          /\ Block(p, new(p), 0, size, 1) \in BlockRecord
      <3>1. Bump(new(p), 0, size) \in PoolRecord
        BY <2>3, BumpType
      <3>2. Bump(new(p), 0, size).prev = new(p).prev
        BY <2>3, BumpType
      <3>3. Block(p, new(p), 0, size, 1) \in BlockRecord
        BY <2>3, BlockType
      <3> QED BY <2>3, <3>1, <3>2, <3>3
    <2>5. p \notin DOMAIN pools /\ blocks' \subseteq BlockRecord
      BY <2>2, <2>4 DEF CanNew, MayReturn, Structure, TypeOK
    <2> QED BY <2>1, <2>2, <2>4, <2>5, InsertStructure DEF prev
  <1>2. CASE MallocTail(size)
    BY <1>2, TakeStructure DEF MallocTail
  <1>3. CASE MallocNewTail(size)
    <2>1. /\ Ready /\ mgr \in MgrRecord /\ mgr.tail \in Addr /\ Top = mgr.tail
          /\ UNCHANGED walk
      BY <1>3, ReadyFacts DEF MallocNewTail, Structure, MgrRecord
    <2> DEFINE new(p) == MemPool_new(p, mgr.memory_size, mgr.alignment_offset,
                                     mgr.tail)
    <2>2. PICK p \in Addr :
             /\ CanNew(p, mgr.memory_size, mgr.alignment_offset)
             /\ mgr' = [mgr EXCEPT !.tail = p]
             /\ Take(p, new(p), 0, size, 1)
      BY <1>3 DEF MallocNewTail
    <2>3. new(p) \in PoolRecord /\ new(p).prev = mgr.tail
      BY <2>1, NewPoolType DEF MemPool_new, MgrRecord
    <2> HIDE DEF new
    <2>4. /\ Bump(new(p), 0, size) \in PoolRecord
          /\ Bump(new(p), 0, size).prev = mgr.tail
          /\ Block(p, new(p), 0, size, 1) \in BlockRecord
      BY <2>3, BumpType, BlockType
    <2>5. /\ p \notin DOMAIN pools /\ blocks' \subseteq BlockRecord
          /\ mgr' \in MgrRecord /\ mgr'.tail = p
          /\ pools' = With(pools, p, Bump(new(p), 0, size))
      BY <2>1, <2>2, <2>4
         DEF CanNew, MayReturn, Take, Structure, TypeOK, MgrRecord
    <2> QED BY <2>1, <2>4, <2>5, PushStructure DEF Ready
  <1>4. CASE MallocFails(size)
    BY <1>4 DEF MallocFails, vars, Structure, TypeOK, NoPoolLost, Top, Ready
  <1> QED BY <1>1, <1>2, <1>3, <1>4 DEF Malloc

LEMMA AlignedAllocStructure ==
    ASSUME Structure, NEW size \in Nat, NEW alignment \in Nat \ {0},
           AlignedAlloc(size, alignment)
    PROVE  Structure'
  <1>1. CASE AlignedLarge(size, alignment)
    <2>1. /\ Ready /\ mgr \in MgrRecord /\ pools[mgr.tail] \in PoolRecord
          /\ UNCHANGED <<mgr, walk>>
      BY <1>1, ReadyFacts DEF AlignedLarge, Structure
    <2> DEFINE prev == pools[mgr.tail].prev
               new(p) == MemPool_new(p, size, AlignmentOffset(alignment), prev)
               offset(p) == Padding(new(p), alignment)
               linked(p, pool) == With(With(pools, p, pool), mgr.tail,
                                       [pools[mgr.tail] EXCEPT !.prev = p])
    <2>2. PICK p \in Addr :
             /\ CanNew(p, size, AlignmentOffset(alignment))
             /\ \/ /\ pools' = linked(p, Bump(new(p), offset(p), size))
                   /\ blocks' = blocks \cup
                         {Block(p, new(p), offset(p), size, alignment)}
                \/ /\ pools' = linked(p, new(p))
                   /\ UNCHANGED blocks
      BY <1>1 DEF AlignedLarge
    <2>3. new(p) \in PoolRecord /\ new(p).prev = prev
      <3>1. AlignmentOffset(alignment) \in Nat /\ prev \in Addr \cup {NULL}
        BY <2>1, AlignmentOffsetType DEF PoolRecord
      <3> QED BY <3>1, NewPoolType DEF MemPool_new
    <2>4. offset(p) \in Nat
      BY <2>3, PaddingType
    <2> HIDE DEF new, prev, offset
    <2>5. /\ Bump(new(p), offset(p), size) \in PoolRecord
          /\ Bump(new(p), offset(p), size).prev = prev
          /\ Block(p, new(p), offset(p), size, alignment) \in BlockRecord
      BY <2>3, <2>4, BumpType, BlockType
    <2>6. p \notin DOMAIN pools /\ blocks' \subseteq BlockRecord
      BY <2>2, <2>5 DEF CanNew, MayReturn, Structure, TypeOK
    <2> QED BY <2>1, <2>2, <2>3, <2>5, <2>6, InsertStructure DEF prev
  <1>2. CASE AlignedTail(size, alignment)
    <2>1. pools[mgr.tail] \in PoolRecord
      BY <1>2, ReadyFacts DEF AlignedTail, Structure
    <2> QED BY <1>2, <2>1, PaddingType, TakeStructure DEF AlignedTail
  <1>3. CASE AlignedNewTail(size, alignment)
    <2>1. /\ Ready /\ mgr \in MgrRecord /\ mgr.tail \in Addr /\ Top = mgr.tail
          /\ UNCHANGED walk
      BY <1>3, ReadyFacts DEF AlignedNewTail, Structure, MgrRecord
    <2> DEFINE new(p) == MemPool_new(p, mgr.memory_size, mgr.alignment_offset,
                                     mgr.tail)
               offset(p) == Padding(new(p), alignment)
    <2>2. PICK p \in Addr :
             /\ CanNew(p, mgr.memory_size, mgr.alignment_offset)
             /\ mgr' = [mgr EXCEPT !.tail = p]
             /\ \/ Take(p, new(p), offset(p), size, alignment)
                \/ pools' = With(pools, p, new(p)) /\ UNCHANGED blocks
      BY <1>3 DEF AlignedNewTail
    <2>3. new(p) \in PoolRecord /\ new(p).prev = mgr.tail
      BY <2>1, NewPoolType DEF MemPool_new, MgrRecord
    <2>4. offset(p) \in Nat
      BY <2>3, PaddingType
    <2> HIDE DEF new, offset
    <2>5. /\ Bump(new(p), offset(p), size) \in PoolRecord
          /\ Bump(new(p), offset(p), size).prev = mgr.tail
          /\ Block(p, new(p), offset(p), size, alignment) \in BlockRecord
      BY <2>3, <2>4, BumpType, BlockType
    <2>6. /\ p \notin DOMAIN pools
          /\ mgr' \in MgrRecord /\ mgr'.tail = p
      BY <2>1, <2>2 DEF CanNew, MayReturn, MgrRecord
    <2>7. /\ blocks' \subseteq BlockRecord
          /\ \/ pools' = With(pools, p, Bump(new(p), offset(p), size))
             \/ pools' = With(pools, p, new(p))
      BY <2>2, <2>5 DEF Take, Structure, TypeOK
    <2> QED BY <2>1, <2>3, <2>5, <2>6, <2>7, PushStructure DEF Ready
  <1>4. CASE AlignedFails(size, alignment)
    BY <1>4 DEF AlignedFails, vars, Structure, TypeOK, NoPoolLost, Top, Ready
  <1> QED BY <1>1, <1>2, <1>3, <1>4 DEF AlignedAlloc

LEMMA DelStructure ==
    ASSUME Structure, DelBegin \/ DelPool \/ DelEnd
    PROVE  Structure'
  <1>1. CASE DelBegin
    <2>1. mgr.tail \in Addr /\ Top' = Top /\ walk' = mgr.tail
      BY <1>1, ReadyFacts, ConstantFacts
         DEF DelBegin, Structure, MgrRecord, Top
    <2>2. mgr # NoMgr /\ UNCHANGED <<mgr, pools>> /\ blocks' = {}
      BY <1>1 DEF DelBegin, Ready
    <2> QED BY <2>1, <2>2 DEF Structure, TypeOK, NoPoolLost
  <1>2. CASE DelPool
    <2>1. /\ walk \in DOMAIN pools /\ walk # NULL /\ Top = walk
          /\ Chained(pools, walk)
      BY <1>2 DEF DelPool, Structure, NoPoolLost, Chained, Top
    <2>2. /\ pools' = [p \in DOMAIN pools \ {walk} |-> pools[p]]
          /\ walk' = pools[walk].prev
          /\ UNCHANGED <<mgr, blocks>>
      BY <1>2 DEF DelPool
    <2>3. walk' \in Addr \cup {NULL} /\ walk' # Idle
      BY <2>1, <2>2, ConstantFacts DEF Structure, TypeOK, PoolRecord
    <2>4. DOMAIN pools' \subseteq Addr /\ pools' \in [DOMAIN pools' -> PoolRecord]
      BY <2>2 DEF Structure, TypeOK
    <2>5. TypeOK'
      BY <1>2, <2>2, <2>3, <2>4 DEF Structure, TypeOK, DelPool
    <2>6. Chained(pools', walk')
      BY <2>1, <2>2, ChainPop
    <2> QED BY <2>3, <2>5, <2>6 DEF Structure, NoPoolLost, Top
  <1>3. CASE DelEnd
    <2>1. Chained(pools, NULL)
      BY <1>3 DEF DelEnd, Structure, NoPoolLost, Top
    <2>2. TypeOK' /\ Top' = NULL
      BY <1>3 DEF DelEnd, Structure, TypeOK, Top, NoMgr
    <2> QED BY <1>3, <2>1, <2>2 DEF DelEnd, Structure, NoPoolLost
  <1> QED BY <1>1, <1>2, <1>3

LEMMA InitStructure == Init => Structure
  BY DEF Init, Structure, TypeOK, NoPoolLost, Chained, Top, NoMgr

LEMMA NextStructure == Structure /\ [Next]_vars => Structure'
  <1> SUFFICES ASSUME Structure, [Next]_vars PROVE Structure'
    OBVIOUS
  <1>1. ASSUME NEW args \in NewArgs, New(args) PROVE Structure'
    BY <1>1, NewStructure
  <1>2. CASE NextElement
    <2>1. mgr.size \in Nat
      BY <1>2, ReadyFacts DEF NextElement, Structure, MgrRecord
    <2> QED BY <1>2, <2>1, MallocStructure DEF NextElement
  <1>3. ASSUME NEW size \in Sizes, Malloc(size) PROVE Structure'
    BY <1>3, MallocStructure, ConstantsAssumption
  <1>4. ASSUME NEW args \in AlignedArgs, AlignedAlloc(args.size, args.alignment)
        PROVE  Structure'
    <2>1. args.size \in Nat /\ args.alignment \in Nat \ {0}
      BY ConstantsAssumption
    <2> QED BY <1>4, <2>1, AlignedAllocStructure
  <1>5. CASE NewFails \/ UNCHANGED vars
    BY <1>5 DEF NewFails, vars, Structure, TypeOK, NoPoolLost, Top, Ready
  <1> QED BY <1>1, <1>2, <1>3, <1>4, <1>5, DelStructure DEF Next

(* In every reachable state, whatever the arguments, also those that wrap   *)
(* or overrun a pool, the state has its types and the pools form one chain: *)
(* none is lost, freed twice, or read after it was freed.                   *)
THEOREM StructureHolds == Spec => [](TypeOK /\ NoPoolLost)
  <1>1. Spec => []Structure
    BY InitStructure, NextStructure, PTL DEF Spec
  <1> QED BY <1>1, PTL DEF Structure

-----------------------------------------------------------------------------
(* Arithmetic of alignment. *)

(* The padded header holds the header and is a multiple of the alignment.   *)
LEMMA PaddedHeaderFacts ==
    ASSUME NEW a \in Nat \ {0}
    PROVE  /\ PaddedHeader(a) \in Nat
           /\ Header <= PaddedHeader(a)
           /\ \E k \in Nat : PaddedHeader(a) = a * k
  <1> DEFINE q == (Header - 1) \div a
  <1>1. q \in Int /\ Header - 1 = a * q + ((Header - 1) % a)
    BY ConstantFacts
  <1>2. (Header - 1) % a \in Nat /\ (Header - 1) % a < a
    BY ConstantFacts, ModFacts
  <1>3. q \in Nat
    BY ConstantFacts
  <1> HIDE DEF q
  <1>4. a * (q + 1) = a * q + a /\ a * q \in Nat
    BY <1>3
  <1>5. PaddedHeader(a) = a * (q + 1)
    BY DEF PaddedHeader, q
  <1>6. a * q + a \in Nat /\ Header <= a * q + a
    BY <1>1, <1>2, <1>4, ConstantFacts
  <1>7. q + 1 \in Nat
    BY <1>3
  <1>8. \E k \in Nat : PaddedHeader(a) = a * k
    BY <1>5, <1>7, Zenon
  <1> QED BY <1>4, <1>5, <1>6, <1>8

(* A number has remainder zero exactly when it is a multiple.               *)
LEMMA MultipleFacts ==
    ASSUME NEW a \in Nat \ {0}
    PROVE  /\ \A k \in Int : (a * k) % a = 0
           /\ \A x \in Int : x % a = 0 => \E k \in Int : x = a * k
           /\ \A k \in Int : a * k > 0 => a * k >= a
  <1>1. ASSUME NEW x \in Int, x % a = 0
        PROVE  \E k \in Int : x = a * k
    <2> DEFINE k == x \div a
    <2>1. x = a * k + (x % a) /\ k \in Int
      OBVIOUS
    <2> HIDE DEF k
    <2>2. x = a * k
      BY <2>1, <1>1
    <2> QED BY <2>1, <2>2, Zenon
  <1>2. ASSUME NEW k \in Int
        PROVE  (a * k) % a = 0
    OBVIOUS
  <1>3. ASSUME NEW k \in Int, a * k > 0
        PROVE  a * k >= a
    <2>1. CASE k <= 0
      <3>1. a * k <= 0
        BY <2>1
      <3> QED BY <3>1, <1>3
    <2>2. CASE k >= 1
      <3>1. a * k = a + a * (k - 1)
        OBVIOUS
      <3>2. a * (k - 1) >= 0
        BY <2>2
      <3> QED BY <3>1, <3>2
    <2> QED BY <2>1, <2>2
  <1> QED BY <1>1, <1>2, <1>3

(* Multiples add up, and the padded header is one.                          *)
LEMMA SumOfMultiples ==
    ASSUME NEW a \in Nat \ {0}, NEW x \in Int, NEW y \in Int,
           x % a = 0, y % a = 0
    PROVE  (x + y) % a = 0
  <1>1. PICK i \in Int : x = a * i
    BY MultipleFacts
  <1>2. PICK j \in Int : y = a * j
    BY MultipleFacts
  <1>3. x + y = a * (i + j) /\ i + j \in Int
    BY <1>1, <1>2
  <1> QED BY <1>3, MultipleFacts

LEMMA PaddedHeaderMultiple ==
    ASSUME NEW a \in Nat \ {0}
    PROVE  PaddedHeader(a) % a = 0
  <1>1. PICK k \in Nat : PaddedHeader(a) = a * k
    BY PaddedHeaderFacts
  <1>2. (a * k) % a = 0
    BY MultipleFacts
  <1> QED BY <1>1, <1>2

(* Padding an offset c that is inside s bytes starting at m keeps it inside *)
(* when m and s are multiples of the alignment.                             *)
LEMMA PaddingStaysInside ==
    ASSUME NEW a \in Nat \ {0}, NEW m \in Nat, NEW s \in Nat, NEW c \in Nat,
           m % a = 0, s % a = 0, c <= s
    PROVE  c + ((a - ((m + c) % a)) % a) <= s
  <1> DEFINE r == (m + c) % a
             Q == (m + c) \div a
  <1>1. /\ r \in Nat /\ r < a /\ Q \in Int
        /\ m + c = a * Q + r
    BY ModFacts
  <1>2. PICK M \in Int, K \in Int : m = a * M /\ s = a * K
    BY MultipleFacts
  <1> HIDE DEF r, Q
  <1>3. CASE r = 0
    <2>1. (a - r) % a = 0
      BY <1>3
    <2> QED BY <2>1 DEF r
  <1>4. CASE r > 0
    <2>1. a - r \in Nat /\ a - r < a
      BY <1>1, <1>4
    <2>2. (a - r) % a = a - r
      BY <2>1
    <2>3. a * (K - Q + M) = a * K - a * Q + a * M
      BY <1>1, <1>2
    <2>4. a * (K - Q + M) = (s - c) + r
      BY <1>1, <1>2, <2>3
    <2>5. a * (K - Q + M) >= a
      BY <1>1, <1>2, <1>4, <2>4, MultipleFacts
    <2> QED BY <2>2, <2>4, <2>5, <1>1 DEF r
  <1> QED BY <1>1, <1>3, <1>4

-----------------------------------------------------------------------------
(* Bounds: the invariant that makes bump allocation sound, as facts about a *)
(* map f of pools and a set bs of blocks.                                   *)

PoolSound(p, v) ==
    /\ p + Header <= v.memory
    /\ v.memory + v.memory_size = p + v.bytes
    /\ v.memory_consumed <= v.memory_size
    /\ v.memory_size < SizeMod

Separate(f) ==
    \A p, q \in DOMAIN f : p # q => p + f[p].bytes <= q \/ q + f[q].bytes <= p

(* Blocks lie below what their pool has consumed.                           *)
BlockSound(f, b) ==
    /\ b.pool \in DOMAIN f
    /\ f[b.pool].memory <= b.addr
    /\ b.addr + b.size <= f[b.pool].memory + f[b.pool].memory_consumed

HeapSound(f, bs) ==
    /\ \A p \in DOMAIN f : PoolSound(p, f[p])
    /\ Separate(f)
    /\ \A b \in bs : BlockSound(f, b)
    /\ \A b, c \in bs : b # c /\ b.pool = c.pool => Apart(b, c)

HeapType(f, bs) ==
    /\ DOMAIN f \subseteq Addr
    /\ f \in [DOMAIN f -> PoolRecord]
    /\ bs \subseteq BlockRecord

(* A request served inside a pool's memory, an old pool's or a new one's.   *)
LEMMA BumpSound ==
    ASSUME NEW f, NEW bs, HeapType(f, bs), HeapSound(f, bs),
           NEW p \in Addr, NEW v \in PoolRecord, PoolSound(p, v),
           \/ p \in DOMAIN f /\ v = f[p]
           \/ /\ p \notin DOMAIN f
              /\ \A q \in DOMAIN f : p + v.bytes <= q \/ q + f[q].bytes <= p,
           NEW offset \in Nat, NEW size \in Nat, NEW alignment \in Nat \ {0},
           v.memory_consumed + offset + size <= v.memory_size
    PROVE  HeapSound(With(f, p, Bump(v, offset, size)),
                     bs \cup {Block(p, v, offset, size, alignment)})
  <1> DEFINE w == Bump(v, offset, size)
             g == With(f, p, w)
             b == Block(p, v, offset, size, alignment)
  <1>1. /\ v.memory \in Nat /\ v.memory_size \in Nat /\ v.memory_consumed \in Nat
        /\ v.bytes \in Nat /\ v.memory_size < SizeMod /\ p \in Nat
    BY ConstantFacts DEF PoolRecord, PoolSound
  <1>2. /\ Add(v.memory_consumed, offset) = v.memory_consumed + offset
        /\ Add(Add(v.memory_consumed, offset), size)
               = v.memory_consumed + offset + size
    <2> DEFINE c == v.memory_consumed
    <2> HIDE DEF c
    <2>1. /\ c \in Nat /\ c + offset \in Nat
          /\ c + offset < SizeMod /\ c + offset + size < SizeMod
      BY <1>1, ConstantFacts DEF c
    <2>2. Add(c, offset) = c + offset
      BY <2>1, WordExact
    <2>3. Add(c + offset, size) = c + offset + size
      BY <2>1, WordExact
    <2> QED BY <2>2, <2>3 DEF c
  <1>3. /\ w.memory = v.memory /\ w.memory_size = v.memory_size
        /\ w.bytes = v.bytes
        /\ w.memory_consumed = v.memory_consumed + offset + size
    BY <1>2 DEF Bump, PoolRecord
  <1>4. /\ b.pool = p /\ b.addr = v.memory + v.memory_consumed + offset
        /\ b.size = size
    BY <1>1, <1>2 DEF Block
  <1>5. /\ DOMAIN g = DOMAIN f \cup {p} /\ g[p] = w
        /\ \A q \in DOMAIN f : q # p => g[q] = f[q]
    BY DEF With
  <1> HIDE DEF g, w, b
  <1>6. \A q \in DOMAIN f : q \in Nat /\ f[q].bytes \in Nat
    BY ConstantFacts DEF HeapType, PoolRecord
  <1>7. \A q \in DOMAIN g : PoolSound(q, g[q])
    <2>1. PoolSound(p, w)
      BY <1>1, <1>3 DEF PoolSound
    <2> QED BY <2>1, <1>5 DEF HeapSound
  <1>8. Separate(g)
    <2>1. \A q \in DOMAIN f : q # p => p + w.bytes <= q \/ q + f[q].bytes <= p
      BY <1>3 DEF HeapSound, Separate
    <2>2. \A q, r \in DOMAIN f : q # r => q + f[q].bytes <= r \/ r + f[r].bytes <= q
      BY DEF HeapSound, Separate
    <2> QED BY <1>5, <2>1, <2>2 DEF Separate
  <1>9. BlockSound(g, b)
    BY <1>1, <1>3, <1>4, <1>5 DEF BlockSound
  <1>10. ASSUME NEW c \in bs
         PROVE  /\ BlockSound(g, c)
                /\ c.pool = p => c.addr + c.size <= b.addr
    <2>1. c.pool \in DOMAIN f /\ c.addr \in Nat /\ c.size \in Nat
          /\ f[c.pool].memory <= c.addr
          /\ c.addr + c.size <= f[c.pool].memory + f[c.pool].memory_consumed
      BY DEF HeapSound, BlockSound, HeapType, BlockRecord
    <2>2. CASE c.pool # p
      BY <2>1, <2>2, <1>5 DEF BlockSound
    <2>3. CASE c.pool = p
      <3>1. v = f[p]
        BY <2>1, <2>3
      <3> QED BY <1>1, <1>3, <1>4, <1>5, <2>1, <2>3, <3>1 DEF BlockSound
    <2> QED BY <2>2, <2>3
  <1>11. \A c, d \in bs \cup {b} : c # d /\ c.pool = d.pool => Apart(c, d)
    BY <1>4, <1>10 DEF HeapSound, Apart
  <1> QED BY <1>7, <1>8, <1>9, <1>10, <1>11 DEF HeapSound, g, w, b

(* A new pool nothing is taken from.                                        *)
LEMMA NewSound ==
    ASSUME NEW f, NEW bs, HeapType(f, bs), HeapSound(f, bs),
           NEW p \in Addr, NEW v \in PoolRecord, PoolSound(p, v),
           p \notin DOMAIN f,
           \A q \in DOMAIN f : p + v.bytes <= q \/ q + f[q].bytes <= p
    PROVE  HeapSound(With(f, p, v), bs)
  <1> DEFINE g == With(f, p, v)
  <1>1. /\ DOMAIN g = DOMAIN f \cup {p} /\ g[p] = v
        /\ \A q \in DOMAIN f : g[q] = f[q]
    BY DEF With
  <1> HIDE DEF g
  <1>2. Separate(g)
    BY <1>1 DEF HeapSound, Separate
  <1>3. \A b \in bs : BlockSound(g, b)
    BY <1>1 DEF HeapSound, BlockSound
  <1> QED BY <1>1, <1>2, <1>3 DEF HeapSound, g

(* The links play no part.                                                  *)
LEMMA RelinkSound ==
    ASSUME NEW f, NEW bs, HeapSound(f, bs), NEW p \in DOMAIN f, NEW prev,
           f[p] \in PoolRecord
    PROVE  HeapSound(With(f, p, [f[p] EXCEPT !.prev = prev]), bs)
  <1> DEFINE g == With(f, p, [f[p] EXCEPT !.prev = prev])
  <1>1. /\ DOMAIN g = DOMAIN f
        /\ \A q \in DOMAIN f : /\ g[q].memory = f[q].memory
                               /\ g[q].memory_size = f[q].memory_size
                               /\ g[q].bytes = f[q].bytes
                               /\ g[q].memory_consumed = f[q].memory_consumed
    BY DEF With, PoolRecord
  <1> HIDE DEF g
  <1> QED BY <1>1 DEF HeapSound, PoolSound, Separate, BlockSound, g

(* A new pool is sound when its size does not wrap, and malloc keeps it     *)
(* apart from the others.                                                   *)
LEMMA NewPoolSound ==
    ASSUME NEW p \in Addr, NEW offset \in Nat, NEW size \in Nat, NEW prev,
           Header <= offset, offset + size < SizeMod, CanNew(p, size, offset)
    PROVE  LET v == MemPool_new(p, size, offset, prev)
           IN  /\ PoolSound(p, v)
               /\ v.memory = p + offset /\ v.memory_size = size
               /\ v.memory_consumed = 0
               /\ p \notin DOMAIN pools
               /\ \A q \in DOMAIN pools :
                     p + v.bytes <= q \/ q + pools[q].bytes <= p
  <1> DEFINE v == MemPool_new(p, size, offset, prev)
  <1>1. p \in Nat
    BY ConstantFacts
  <1>2. Add(offset, size) = offset + size
    BY WordExact
  <1>3. /\ v.memory = p + offset /\ v.memory_size = size /\ v.memory_consumed = 0
        /\ v.bytes = Add(offset, size)
    BY DEF MemPool_new
  <1>4. PoolSound(p, v)
    BY <1>1, <1>2, <1>3, ConstantFacts DEF PoolSound
  <1>5. /\ p \notin DOMAIN pools
        /\ \A q \in DOMAIN pools : p + v.bytes <= q \/ q + pools[q].bytes <= p
    BY <1>3 DEF CanNew, MayReturn
  <1> QED BY <1>3, <1>4, <1>5

(* What fits stays inside the memory: without padding, always ...           *)
LEMMA FitsInside ==
    ASSUME NEW p, NEW v \in PoolRecord, PoolSound(p, v), NEW size \in Nat,
           Fits(v, size)
    PROVE  v.memory_consumed + 0 + size <= v.memory_size
  <1> DEFINE c == v.memory_consumed
             s == v.memory_size
  <1>1. c \in Nat /\ s \in Nat /\ c <= s /\ s < SizeMod
    BY DEF PoolRecord, PoolSound
  <1>2. Sub(s, c) >= size
    BY DEF Fits
  <1> HIDE DEF c, s
  <1>3. Sub(s, c) = s - c
    BY <1>1, WordExact
  <1>4. c + 0 + size <= s
    BY <1>1, <1>2, <1>3
  <1> QED BY <1>4 DEF c, s

(* ... with padding, when the alignment divides the memory's place and size.*)
LEMMA AlignedFitsInside ==
    ASSUME NEW p, NEW v \in PoolRecord, PoolSound(p, v), NEW size \in Nat,
           NEW a \in Nat \ {0}, v.memory % a = 0, v.memory_size % a = 0,
           AlignedFits(v, size, a)
    PROVE  v.memory_consumed + Padding(v, a) + size <= v.memory_size
  <1> DEFINE c == v.memory_consumed
             s == v.memory_size
             m == v.memory
             o == Padding(v, a)
  <1>1. c \in Nat /\ s \in Nat /\ c <= s /\ s < SizeMod /\ m \in Nat
    BY DEF PoolRecord, PoolSound
  <1>2. o \in Nat
    BY PaddingType
  <1>3. c + o <= s
    <2>1. m % a = 0 /\ s % a = 0
      OBVIOUS
    <2>2. o = (a - ((m + c) % a)) % a
      BY DEF Padding
    <2> HIDE DEF c, s, m, o
    <2>3. c + ((a - ((m + c) % a)) % a) <= s
      BY <1>1, <2>1, PaddingStaysInside
    <2> QED BY <2>2, <2>3
  <1>4. Sub(Sub(s, c), o) >= size
    BY DEF AlignedFits
  <1> HIDE DEF c, s, o
  <1>5. Sub(s, c) = s - c
    BY <1>1, WordExact
  <1>6. s - c \in Nat /\ o <= s - c /\ s - c < SizeMod
    BY <1>1, <1>2, <1>3, ConstantFacts
  <1>7. Sub(s - c, o) = (s - c) - o
    BY <1>2, <1>6, WordExact
  <1>8. c + o + size <= s
    BY <1>1, <1>2, <1>4, <1>5, <1>7
  <1> QED BY <1>8 DEF c, s, o

-----------------------------------------------------------------------------
(* The inductive invariant behind BlocksInBounds and BlocksDisjoint.        *)

MgrSound ==
    /\ Header <= mgr.alignment_offset
    /\ mgr.alignment_offset + mgr.memory_size < SizeMod
    /\ \A n \in Sizes \cup {mgr.size} : mgr.alignment_offset + n < SizeMod
    /\ \A args \in AlignedArgs : /\ mgr.alignment_offset % args.alignment = 0
                                 /\ mgr.memory_size % args.alignment = 0

TailSound ==
    /\ pools[mgr.tail].memory_size = mgr.memory_size
    /\ pools[mgr.tail].memory = mgr.tail + mgr.alignment_offset

Bounds ==
    /\ HeapSound(pools, blocks)
    /\ walk # Idle => blocks = {}
    /\ mgr # NoMgr => MgrSound
    /\ Ready => TailSound

LEMMA StructureHeapType ==
    ASSUME Structure
    PROVE  HeapType(pools, blocks)
  BY DEF Structure, TypeOK, HeapType

LEMMA ReadyBounds ==
    ASSUME Structure, Bounds, Ready
    PROVE  /\ mgr \in MgrRecord /\ mgr.tail \in DOMAIN pools /\ mgr.tail \in Addr
           /\ pools[mgr.tail] \in PoolRecord
           /\ MgrSound /\ TailSound
           /\ HeapType(pools, blocks) /\ HeapSound(pools, blocks)
           /\ PoolSound(mgr.tail, pools[mgr.tail])
  BY ReadyFacts, StructureHeapType
     DEF Structure, MgrRecord, Bounds, Ready, HeapSound

(* A request served by the tail.                                            *)
LEMMA TakeBounds ==
    ASSUME Structure, Bounds, Ready, NEW size \in Nat, NEW offset \in Nat,
           NEW alignment \in Nat \ {0},
           pools[mgr.tail].memory_consumed + offset + size
               <= pools[mgr.tail].memory_size,
           Take(mgr.tail, pools[mgr.tail], offset, size, alignment),
           UNCHANGED <<mgr, walk>>
    PROVE  Bounds'
  <1> DEFINE tail == pools[mgr.tail]
             w == Bump(tail, offset, size)
  <1>1. HeapSound(pools', blocks')
    BY ReadyBounds, BumpSound DEF Take
  <1>2. pools' = With(pools, mgr.tail, w)
    BY DEF Take
  <1>3. w.memory = tail.memory /\ w.memory_size = tail.memory_size
    BY ReadyBounds DEF Bump, PoolRecord
  <1> HIDE DEF w
  <1>4. pools'[mgr.tail] = w
    BY <1>2 DEF With
  <1>5. TailSound'
    BY <1>3, <1>4, ReadyBounds DEF TailSound
  <1>6. MgrSound'
    BY ReadyBounds DEF MgrSound
  <1> QED BY <1>1, <1>5, <1>6 DEF Bounds, Ready

(* A pool that malloc has just granted, before anything is taken from it.   *)
Fresh(p, v) ==
    /\ v \in PoolRecord
    /\ PoolSound(p, v)
    /\ v.memory_consumed = 0
    /\ p \notin DOMAIN pools
    /\ \A q \in DOMAIN pools : p + v.bytes <= q \/ q + pools[q].bytes <= p

(* What one request may do with a fresh pool v at p: take a block of it, or *)
(* nothing, which leaves the pool w.                                        *)
Served(p, v, w, offset, size, alignment) ==
    \/ /\ offset + size <= v.memory_size
       /\ w = Bump(v, offset, size)
       /\ blocks' = blocks \cup {Block(p, v, offset, size, alignment)}
    \/ w = v /\ UNCHANGED blocks

LEMMA ServedSound ==
    ASSUME HeapType(pools, blocks), HeapSound(pools, blocks),
           NEW p \in Addr, NEW v, NEW w, Fresh(p, v),
           NEW size \in Nat, NEW offset \in Nat, NEW alignment \in Nat \ {0},
           Served(p, v, w, offset, size, alignment)
    PROVE  /\ HeapSound(With(pools, p, w), blocks')
           /\ w.memory = v.memory /\ w.memory_size = v.memory_size
  <1>1. CASE /\ offset + size <= v.memory_size
             /\ w = Bump(v, offset, size)
             /\ blocks' = blocks \cup {Block(p, v, offset, size, alignment)}
    <2>1. w.memory = v.memory /\ w.memory_size = v.memory_size
      BY <1>1 DEF Bump, Fresh, PoolRecord
    <2>2. v.memory_consumed + offset + size <= v.memory_size
      BY <1>1 DEF Fresh
    <2> QED BY <1>1, <2>1, <2>2, BumpSound DEF Fresh
  <1>2. CASE w = v /\ UNCHANGED blocks
    BY <1>2, NewSound DEF Fresh
  <1> QED BY <1>1, <1>2 DEF Served

(* A fresh pool becomes the tail.                                           *)
LEMMA PushBounds ==
    ASSUME Structure, Bounds, walk = Idle,
           NEW p \in Addr, NEW v, NEW w, Fresh(p, v),
           NEW size \in Nat, NEW offset \in Nat, NEW alignment \in Nat \ {0},
           Served(p, v, w, offset, size, alignment),
           pools' = With(pools, p, w), UNCHANGED walk,
           mgr'.tail = p, v.memory_size = mgr'.memory_size,
           v.memory = p + mgr'.alignment_offset, MgrSound'
    PROVE  Bounds'
  <1>1. HeapSound(pools', blocks') /\ w.memory = v.memory
        /\ w.memory_size = v.memory_size
    BY StructureHeapType, ServedSound DEF Bounds
  <1>2. pools'[p] = w
    BY DEF With
  <1>3. TailSound'
    BY <1>1, <1>2 DEF TailSound
  <1> QED BY <1>1, <1>3 DEF Bounds

(* A fresh pool is linked in below the tail.                                *)
LEMMA InsertBounds ==
    ASSUME Structure, Bounds, Ready,
           NEW p \in Addr, NEW v, NEW w, Fresh(p, v),
           NEW size \in Nat, NEW offset \in Nat, NEW alignment \in Nat \ {0},
           Served(p, v, w, offset, size, alignment),
           pools' = With(With(pools, p, w), mgr.tail,
                         [pools[mgr.tail] EXCEPT !.prev = p]),
           UNCHANGED <<mgr, walk>>
    PROVE  Bounds'
  <1> DEFINE g == With(pools, p, w)
             t == mgr.tail
  <1>0. t \in DOMAIN pools /\ t # p /\ pools[t] \in PoolRecord
    BY ReadyBounds DEF Fresh
  <1>1. HeapSound(g, blocks')
    BY ReadyBounds, ServedSound
  <1>2. t \in DOMAIN g /\ g[t] = pools[t]
    BY <1>0 DEF With
  <1> HIDE DEF g
  <1>3. pools' = With(g, t, [g[t] EXCEPT !.prev = p])
    BY <1>2 DEF g
  <1> HIDE DEF t
  <1>4. HeapSound(With(g, t, [g[t] EXCEPT !.prev = p]), blocks')
    BY <1>0, <1>1, <1>2, RelinkSound
  <1>5. pools'[t] = [g[t] EXCEPT !.prev = p]
    BY <1>2, <1>3 DEF With
  <1>6. pools'[t].memory = pools[t].memory
        /\ pools'[t].memory_size = pools[t].memory_size
    BY <1>0, <1>2, <1>5 DEF PoolRecord
  <1>7. TailSound' /\ MgrSound'
    BY <1>6, ReadyBounds DEF TailSound, MgrSound, t
  <1> QED BY <1>3, <1>4, <1>7 DEF Bounds, Ready

LEMMA FreshFacts ==
    ASSUME NEW p \in Addr, NEW offset \in Nat, NEW size \in Nat,
           NEW prev \in Addr \cup {NULL},
           Header <= offset, offset + size < SizeMod, CanNew(p, size, offset)
    PROVE  LET v == MemPool_new(p, size, offset, prev)
           IN  Fresh(p, v) /\ v.memory = p + offset /\ v.memory_size = size
  BY NewPoolSound, NewPoolType DEF Fresh

LEMMA MallocBounds ==
    ASSUME Structure, Bounds, NEW size \in Nat, Malloc(size),
           size \in Sizes \cup {mgr.size}
    PROVE  Bounds'
  <1>1. Ready
    BY DEF Malloc, MallocLarge, MallocTail, MallocNewTail, MallocFails
  <1>2. /\ mgr \in MgrRecord /\ mgr.tail \in Addr
        /\ pools[mgr.tail] \in PoolRecord
        /\ PoolSound(mgr.tail, pools[mgr.tail]) /\ MgrSound
    BY <1>1, ReadyBounds
  <1>3. /\ mgr.alignment_offset \in Nat /\ mgr.memory_size \in Nat
        /\ Header <= mgr.alignment_offset
        /\ mgr.alignment_offset + mgr.memory_size < SizeMod
        /\ mgr.alignment_offset + size < SizeMod
    BY <1>2 DEF MgrRecord, MgrSound
  <1>4. CASE MallocLarge(size)
    <2> DEFINE prev == pools[mgr.tail].prev
               new(p) == MemPool_new(p, size, mgr.alignment_offset, prev)
    <2>1. PICK p \in Addr :
             /\ CanNew(p, size, mgr.alignment_offset)
             /\ pools' = With(With(pools, p, Bump(new(p), 0, size)),
                              mgr.tail, [pools[mgr.tail] EXCEPT !.prev = p])
             /\ blocks' = blocks \cup {Block(p, new(p), 0, size, 1)}
      BY <1>4 DEF MallocLarge
    <2>2. prev \in Addr \cup {NULL}
      BY <1>2 DEF PoolRecord
    <2>3. Fresh(p, new(p)) /\ new(p).memory_size = size
      BY <1>3, <2>1, <2>2, FreshFacts
    <2> HIDE DEF new
    <2>4. Served(p, new(p), Bump(new(p), 0, size), 0, size, 1)
      BY <2>1, <2>3 DEF Served
    <2>5. UNCHANGED <<mgr, walk>>
      BY <1>4 DEF MallocLarge
    <2> QED BY <1>1, <2>1, <2>3, <2>4, <2>5, InsertBounds
  <1>5. CASE MallocTail(size)
    <2>1. pools[mgr.tail].memory_consumed + 0 + size <= pools[mgr.tail].memory_size
      BY <1>2, <1>5, FitsInside DEF MallocTail
    <2> QED BY <1>1, <1>5, <2>1, TakeBounds DEF MallocTail
  <1>6. CASE MallocNewTail(size)
    <2> DEFINE new(p) == MemPool_new(p, mgr.memory_size, mgr.alignment_offset,
                                     mgr.tail)
    <2>1. PICK p \in Addr :
             /\ CanNew(p, mgr.memory_size, mgr.alignment_offset)
             /\ mgr' = [mgr EXCEPT !.tail = p]
             /\ Take(p, new(p), 0, size, 1)
      BY <1>6 DEF MallocNewTail
    <2>2. /\ Fresh(p, new(p)) /\ new(p).memory_size = mgr.memory_size
          /\ new(p).memory = p + mgr.alignment_offset
      BY <1>2, <1>3, <2>1, FreshFacts
    <2> HIDE DEF new
    <2>3. size <= mgr.memory_size /\ UNCHANGED walk
      BY <1>6 DEF MallocNewTail
    <2>4. Served(p, new(p), Bump(new(p), 0, size), 0, size, 1)
      BY <2>1, <2>2, <2>3 DEF Served, Take
    <2>5. /\ mgr'.tail = p /\ mgr'.memory_size = mgr.memory_size
          /\ mgr'.alignment_offset = mgr.alignment_offset
          /\ mgr'.size = mgr.size
      BY <1>2, <2>1 DEF MgrRecord
    <2>6. MgrSound'
      BY <1>2, <2>5 DEF MgrSound
    <2>7. pools' = With(pools, p, Bump(new(p), 0, size))
      BY <2>1 DEF Take
    <2> QED BY <1>1, <2>2, <2>3, <2>4, <2>5, <2>6, <2>7, PushBounds DEF Ready
  <1>7. CASE MallocFails(size)
    BY <1>7 DEF MallocFails, vars, Bounds, Ready, MgrSound, TailSound
  <1> QED BY <1>4, <1>5, <1>6, <1>7 DEF Malloc

LEMMA AlignedAllocBounds ==
    ASSUME NoWrap, AlignmentsFit, Structure, Bounds, NEW args \in AlignedArgs,
           AlignedAlloc(args.size, args.alignment)
    PROVE  Bounds'
  <1> DEFINE size == args.size
             a    == args.alignment
  <1>1. size \in Nat /\ a \in Nat \ {0}
    BY ConstantsAssumption
  <1>2. Ready
    BY DEF AlignedAlloc, AlignedLarge, AlignedTail, AlignedNewTail, AlignedFails
  <1>3. /\ mgr \in MgrRecord /\ mgr.tail \in Addr
        /\ pools[mgr.tail] \in PoolRecord
        /\ PoolSound(mgr.tail, pools[mgr.tail]) /\ MgrSound /\ TailSound
    BY <1>2, ReadyBounds
  <1>4. /\ mgr.alignment_offset \in Nat /\ mgr.memory_size \in Nat
        /\ Header <= mgr.alignment_offset
        /\ mgr.alignment_offset + mgr.memory_size < SizeMod
        /\ mgr.alignment_offset % a = 0 /\ mgr.memory_size % a = 0
    BY <1>3 DEF MgrRecord, MgrSound
  <1>5. \A p \in Addr : p \in Nat /\ p % a = 0
    BY ConstantFacts DEF AlignmentsFit
  (* The memory of an area at p whose offset is a multiple of a starts at a *)
  (* multiple of a.                                                         *)
  <1>6. ASSUME NEW p \in Addr, NEW o \in Nat, o % a = 0
        PROVE  (p + o) % a = 0
    BY <1>1, <1>5, <1>6, SumOfMultiples
  <1> HIDE DEF size, a
  <1>7. CASE AlignedLarge(size, a)
    <2> DEFINE prev == pools[mgr.tail].prev
               new(p) == MemPool_new(p, size, AlignmentOffset(a), prev)
               offset(p) == Padding(new(p), a)
               linked(p, w) == With(With(pools, p, w), mgr.tail,
                                    [pools[mgr.tail] EXCEPT !.prev = p])
    <2>1. PICK p \in Addr :
             /\ CanNew(p, size, AlignmentOffset(a))
             /\ \/ /\ AlignedFits(new(p), size, a)
                   /\ pools' = linked(p, Bump(new(p), offset(p), size))
                   /\ blocks' = blocks \cup {Block(p, new(p), offset(p), size, a)}
                \/ pools' = linked(p, new(p)) /\ UNCHANGED blocks
      BY <1>7 DEF AlignedLarge
    <2>2. /\ PaddedHeader(a) \in Nat /\ Header <= PaddedHeader(a)
          /\ PaddedHeader(a) % a = 0
      BY <1>1, PaddedHeaderFacts, PaddedHeaderMultiple
    <2>3. PaddedHeader(a) + size < SizeMod
      BY DEF NoWrap, a, size
    <2>4. AlignmentOffset(a) = PaddedHeader(a)
      <3>1. PaddedHeader(a) < SizeMod
        BY <1>1, <2>2, <2>3, ConstantFacts
      <3> QED BY <2>2, <3>1, WordExact DEF AlignmentOffset
    <2>5. prev \in Addr \cup {NULL}
      BY <1>3 DEF PoolRecord
    <2>6. /\ Fresh(p, new(p)) /\ new(p).memory_size = size
          /\ new(p).memory = p + PaddedHeader(a)
      BY <1>1, <2>1, <2>2, <2>3, <2>4, <2>5, FreshFacts
    <2>7. UNCHANGED <<mgr, walk>>
      BY <1>7 DEF AlignedLarge
    <2> HIDE DEF new
    <2>8. new(p) \in PoolRecord /\ offset(p) \in Nat
      BY <1>1, <2>6, PaddingType DEF Fresh
    (* The padding is zero: the block fills the pool exactly. *)
    <2>9. offset(p) + size <= new(p).memory_size
      <3>1. new(p).memory + new(p).memory_consumed = p + PaddedHeader(a)
        BY <1>5, <2>2, <2>6 DEF Fresh
      <3>2. (p + PaddedHeader(a)) % a = 0
        BY <1>6, <2>2
      <3>3. (a - 0) % a = 0
        BY <1>1
      <3>4. offset(p) = 0
        BY <1>1, <3>1, <3>2, <3>3 DEF Padding
      <3> QED BY <1>1, <2>6, <3>4
    <2> HIDE DEF offset
    <2>10. \E w : /\ Served(p, new(p), w, offset(p), size, a)
                  /\ pools' = linked(p, w)
      BY <2>1, <2>9 DEF Served
    <2> QED BY <1>1, <1>2, <2>6, <2>7, <2>8, <2>10, InsertBounds
  <1>8. CASE AlignedTail(size, a)
    <2> DEFINE tail == pools[mgr.tail]
    <2>1. tail.memory % a = 0 /\ tail.memory_size % a = 0
      BY <1>3, <1>4, <1>6 DEF TailSound
    <2>2. tail.memory_consumed + Padding(tail, a) + size <= tail.memory_size
      BY <1>1, <1>3, <1>8, <2>1, AlignedFitsInside DEF AlignedTail
    <2>3. Padding(tail, a) \in Nat
      BY <1>1, <1>3, PaddingType
    <2> QED BY <1>1, <1>2, <1>8, <2>2, <2>3, TakeBounds DEF AlignedTail
  <1>9. CASE AlignedNewTail(size, a)
    <2> DEFINE new(p) == MemPool_new(p, mgr.memory_size, mgr.alignment_offset,
                                     mgr.tail)
               offset(p) == Padding(new(p), a)
    <2>1. PICK p \in Addr :
             /\ CanNew(p, mgr.memory_size, mgr.alignment_offset)
             /\ mgr' = [mgr EXCEPT !.tail = p]
             /\ \/ /\ AlignedFits(new(p), size, a)
                   /\ Take(p, new(p), offset(p), size, a)
                \/ pools' = With(pools, p, new(p)) /\ UNCHANGED blocks
      BY <1>9 DEF AlignedNewTail
    <2>2. /\ Fresh(p, new(p)) /\ new(p).memory_size = mgr.memory_size
          /\ new(p).memory = p + mgr.alignment_offset
      BY <1>3, <1>4, <2>1, FreshFacts
    <2> HIDE DEF new
    <2>3. /\ new(p) \in PoolRecord /\ PoolSound(p, new(p))
          /\ new(p).memory_consumed = 0
          /\ offset(p) \in Nat
      BY <1>1, <2>2, PaddingType DEF Fresh
    <2>4. new(p).memory % a = 0 /\ new(p).memory_size % a = 0
      BY <1>4, <1>6, <2>2
    <2>5. AlignedFits(new(p), size, a) => offset(p) + size <= new(p).memory_size
      <3>1. SUFFICES ASSUME AlignedFits(new(p), size, a)
                     PROVE  offset(p) + size <= new(p).memory_size
        OBVIOUS
      <3>2. 0 + offset(p) + size <= new(p).memory_size
        BY <1>1, <2>3, <2>4, <3>1, AlignedFitsInside
      <3> QED BY <1>1, <2>3, <3>2
    <2> HIDE DEF offset
    <2>6. \E w : /\ Served(p, new(p), w, offset(p), size, a)
                 /\ pools' = With(pools, p, w)
      BY <2>1, <2>5 DEF Served, Take
    <2>7. /\ mgr'.tail = p /\ mgr'.memory_size = mgr.memory_size
          /\ mgr'.alignment_offset = mgr.alignment_offset
          /\ mgr'.size = mgr.size
      BY <1>3, <2>1 DEF MgrRecord
    <2>8. MgrSound' /\ UNCHANGED walk
      BY <1>3, <1>9, <2>7 DEF MgrSound, AlignedNewTail
    <2> QED BY <1>1, <1>2, <2>2, <2>3, <2>6, <2>7, <2>8, PushBounds DEF Ready
  <1>10. CASE AlignedFails(size, a)
    BY <1>10 DEF AlignedFails, vars, Bounds, Ready, MgrSound, TailSound
  <1> QED BY <1>7, <1>8, <1>9, <1>10 DEF AlignedAlloc, size, a

LEMMA NewBounds ==
    ASSUME NoWrap, AlignmentsFit, Structure, Bounds, NEW args \in NewArgs, New(args)
    PROVE  Bounds'
  <1> DEFINE a      == ManagerAlignment(args)
             offset == AlignmentOffset(a)
             total  == Word(args.size * args.count)
  <1>1. /\ a \in Nat \ {0} /\ PaddedHeader(a) \in Nat /\ Header <= PaddedHeader(a)
        /\ args.size \in Nat /\ args.count \in Nat
    BY ManagerAlignmentType, PaddedHeaderFacts, ConstantsAssumption
  <1>2. args.size * args.count \in Nat
    BY <1>1
  <1>3. \A n \in Sizes \cup {args.size, args.size * args.count} :
           n \in Nat /\ PaddedHeader(a) + n < SizeMod
    BY <1>1, <1>2, ConstantsAssumption DEF NoWrap
  <1>4. offset = PaddedHeader(a)
    <2>1. PaddedHeader(a) < SizeMod
      BY <1>1, <1>2, <1>3, ConstantFacts
    <2> QED BY <1>1, <2>1, WordExact DEF AlignmentOffset
  <1>5. total = args.size * args.count
    <2>1. args.size * args.count < SizeMod
      BY <1>1, <1>2, <1>3, ConstantFacts
    <2> QED BY <1>2, <2>1, WordExact
  <1>6. PICK p \in Addr :
           /\ CanNew(p, total, offset)
           /\ pools' = With(pools, p, MemPool_new(p, total, offset, NULL))
           /\ mgr' = [tail |-> p, size |-> args.size,
                      memory_size |-> total, alignment_offset |-> offset]
    BY DEF New
  <1> HIDE DEF a, offset, total
  <1> DEFINE v == MemPool_new(p, total, offset, NULL)
  <1>7. /\ offset \in Nat /\ total \in Nat
        /\ Header <= offset /\ offset + total < SizeMod
    BY <1>1, <1>2, <1>3, <1>4, <1>5
  <1>8. Fresh(p, v) /\ v.memory = p + offset /\ v.memory_size = total
    BY <1>6, <1>7, FreshFacts
  <1>9. /\ mgr'.tail = p /\ mgr'.size = args.size
        /\ mgr'.memory_size = total /\ mgr'.alignment_offset = offset
    BY <1>6
  <1>10. ASSUME NEW b \in AlignedArgs
         PROVE  offset % b.alignment = 0 /\ total % b.alignment = 0
    BY <1>4, <1>5 DEF AlignmentsFit, a
  <1>11. \A n \in Sizes \cup {args.size} : offset + n < SizeMod
    BY <1>3, <1>4
  <1>12. MgrSound'
    BY <1>7, <1>9, <1>10, <1>11 DEF MgrSound
  <1>13. walk = Idle /\ UNCHANGED <<blocks, walk>>
    BY DEF New, Structure, TypeOK
  <1> HIDE DEF v
  <1>14. Served(p, v, v, 0, 0, 1)
    BY <1>13 DEF Served
  <1>15. pools' = With(pools, p, v)
    BY <1>6 DEF v
  <1> QED BY <1>8, <1>9, <1>12, <1>13, <1>14, <1>15, PushBounds

LEMMA DelBounds ==
    ASSUME Structure, Bounds, DelBegin \/ DelPool \/ DelEnd
    PROVE  Bounds'
  <1>1. CASE DelBegin
    <2>1. walk' # Idle /\ mgr # NoMgr /\ UNCHANGED <<mgr, pools>> /\ blocks' = {}
      BY <1>1, ReadyFacts, ConstantFacts DEF DelBegin, Structure, Ready, MgrRecord
    <2> QED BY <2>1 DEF Bounds, HeapSound, MgrSound, TailSound, Ready
  <1>2. CASE DelPool
    <2>1. /\ DOMAIN pools' = DOMAIN pools \ {walk}
          /\ \A p \in DOMAIN pools' : pools'[p] = pools[p]
          /\ walk # Idle /\ UNCHANGED <<mgr, blocks>> /\ blocks = {}
      BY <1>2 DEF DelPool, Bounds
    <2>2. walk' # Idle
      <3>1. walk \in DOMAIN pools /\ pools[walk].prev \in Addr \cup {NULL}
        BY <1>2 DEF DelPool, Structure, TypeOK, NoPoolLost, Chained, Top,
                    PoolRecord
      <3> QED BY <1>2, <3>1, ConstantFacts DEF DelPool
    <2>3. HeapSound(pools', blocks')
      BY <2>1 DEF Bounds, HeapSound, Separate
    <2> QED BY <2>1, <2>2, <2>3 DEF Bounds, MgrSound, Ready
  <1>3. CASE DelEnd
    BY <1>3 DEF DelEnd, Bounds, Ready
  <1> QED BY <1>1, <1>2, <1>3

LEMMA InitBounds == Init => Bounds
  BY DEF Init, Bounds, HeapSound, Separate, Ready

LEMMA NextBounds ==
    ASSUME NoWrap, AlignmentsFit, Structure, Bounds, [Next]_vars
    PROVE  Bounds'
  <1>1. ASSUME NEW args \in NewArgs, New(args) PROVE Bounds'
    BY <1>1, NewBounds
  <1>2. CASE NextElement
    <2>1. mgr.size \in Nat
      BY <1>2, ReadyFacts DEF NextElement, Structure, MgrRecord
    <2> QED BY <1>2, <2>1, MallocBounds DEF NextElement
  <1>3. ASSUME NEW size \in Sizes, Malloc(size) PROVE Bounds'
    BY <1>3, MallocBounds, ConstantsAssumption
  <1>4. ASSUME NEW args \in AlignedArgs, AlignedAlloc(args.size, args.alignment)
        PROVE  Bounds'
    BY <1>4, AlignedAllocBounds
  <1>5. CASE NewFails \/ UNCHANGED vars
    BY <1>5 DEF NewFails, vars, Bounds, Ready, MgrSound, TailSound
  <1> QED BY <1>1, <1>2, <1>3, <1>4, <1>5, DelBounds DEF Next

(* What the invariant says of the blocks.                                   *)
LEMMA BoundsSuffice ==
    ASSUME Structure, Bounds
    PROVE  BlocksInBounds /\ BlocksDisjoint
  <1>1. ASSUME NEW b \in blocks
        PROVE  /\ b.pool \in DOMAIN pools /\ b.pool \in Nat
               /\ b.addr \in Nat /\ b.size \in Nat
               /\ b.pool + Header <= b.addr
               /\ pools[b.pool].bytes \in Nat
               /\ b.addr + b.size <= b.pool + pools[b.pool].bytes
    <2>1. /\ BlockSound(pools, b) /\ PoolSound(b.pool, pools[b.pool])
          /\ b \in BlockRecord
      BY DEF Bounds, HeapSound, BlockSound, Structure, TypeOK
    <2>2. /\ b.pool \in DOMAIN pools /\ b.pool \in Nat
          /\ pools[b.pool] \in PoolRecord
      BY <2>1, ConstantFacts DEF BlockSound, Structure, TypeOK
    <2> QED BY <2>1, <2>2, ConstantFacts
            DEF BlockSound, PoolSound, BlockRecord, PoolRecord
  <1>2. ASSUME NEW b \in blocks, NEW c \in blocks, b # c
        PROVE  Apart(b, c)
    <2>1. CASE b.pool = c.pool
      BY <1>2, <2>1 DEF Bounds, HeapSound
    <2>2. CASE b.pool # c.pool
      <3>1. \/ b.pool + pools[b.pool].bytes <= c.pool
            \/ c.pool + pools[c.pool].bytes <= b.pool
        BY <1>1, <2>2 DEF Bounds, HeapSound, Separate
      <3> QED BY <1>1, <3>1, ConstantFacts DEF Apart
    <2> QED BY <2>1, <2>2
  <1> QED BY <1>1, <1>2 DEF BlocksInBounds, BlocksDisjoint

(* For requests that do not wrap and alignments that divide the pools,      *)
(* every block the caller holds lies inside its pool and apart from every   *)
(* other, in every reachable state.                                         *)
THEOREM BlocksSafe ==
    ASSUME NoWrap, AlignmentsFit
    PROVE  Spec => [](BlocksInBounds /\ BlocksDisjoint)
  <1>1. Init => Structure /\ Bounds
    BY InitStructure, InitBounds
  <1>2. Structure /\ Bounds /\ [Next]_vars => Structure' /\ Bounds'
    BY NextStructure, NextBounds
  <1>3. Structure /\ Bounds => BlocksInBounds /\ BlocksDisjoint
    BY BoundsSuffice
  <1> QED BY <1>1, <1>2, <1>3, PTL DEF Spec

-----------------------------------------------------------------------------
(* MemPool implements Arena. *)

(* A step lends one block, or none, or ends all of them.                    *)
LEMMA StepsLendOneBlock ==
    ASSUME [Next]_vars
    PROVE  \/ UNCHANGED blocks
           \/ blocks' = {}
           \/ \E b \in blocks' : blocks' = blocks \cup {b}
  <1>1. ASSUME NEW args \in NewArgs, New(args) PROVE UNCHANGED blocks
    BY <1>1 DEF New
  <1>2. ASSUME NEW size, Malloc(size)
        PROVE  UNCHANGED blocks \/ \E b \in blocks' : blocks' = blocks \cup {b}
    BY <1>2 DEF Malloc, MallocLarge, MallocTail, MallocNewTail, MallocFails,
                Take, vars
  <1>3. ASSUME NEW size, NEW alignment, AlignedAlloc(size, alignment)
        PROVE  UNCHANGED blocks \/ \E b \in blocks' : blocks' = blocks \cup {b}
    BY <1>3 DEF AlignedAlloc, AlignedLarge, AlignedTail, AlignedNewTail,
                AlignedFails, Take, vars
  <1> QED BY <1>1, <1>2, <1>3
          DEF Next, NextElement, NewFails, DelBegin, DelPool, DelEnd, vars

LEMMA StepImplementsArena ==
    ASSUME [Next]_vars, BlocksDisjoint'
    PROVE  [A!Next]_({[addr |-> b.addr, size |-> b.size] : b \in blocks})
  <1> DEFINE lent == {[addr |-> b.addr, size |-> b.size] : b \in blocks}
  <1>1. CASE UNCHANGED blocks
    BY <1>1
  <1>2. CASE blocks' = {}
    BY <1>2 DEF A!Next, A!EndAll
  <1>3. ASSUME NEW b \in blocks', blocks' = blocks \cup {b}, b \notin blocks
        PROVE  A!Lend
    <2> DEFINE r == [addr |-> b.addr, size |-> b.size]
    <2>1. r \in lent' /\ lent' = lent \cup {r}
      BY <1>3
    <2>2. ASSUME NEW c \in lent PROVE A!Apart(r, c)
      <3>1. PICK d \in blocks : c = [addr |-> d.addr, size |-> d.size]
        OBVIOUS
      <3>2. Apart(b, d)
        BY <1>3, <3>1 DEF BlocksDisjoint
      <3> QED BY <3>1, <3>2 DEF Apart, A!Apart
    <2> QED BY <2>1, <2>2 DEF A!Lend
  <1> QED BY <1>1, <1>2, <1>3, StepsLendOneBlock DEF A!Next

(* Under the same conditions the allocator implements Arena: each step of   *)
(* it is a step of Arena, or one that Arena does not see.                   *)
THEOREM ImplementsArena ==
    ASSUME NoWrap, AlignmentsFit
    PROVE  Spec => ArenaSpec
  <1>1. Init => A!Init
    BY DEF Init, A!Init
  <1>2. [Next]_vars /\ BlocksDisjoint'
            => [A!Next]_({[addr |-> b.addr, size |-> b.size] : b \in blocks})
    BY StepImplementsArena
  <1>3. Spec => [](BlocksInBounds /\ BlocksDisjoint)
    BY BlocksSafe
  <1> QED BY <1>1, <1>2, <1>3, PTL DEF Spec, ArenaSpec, A!Spec

-----------------------------------------------------------------------------
(* Blocks start at the alignment they were asked with. *)

(* Padding brings an address to the next multiple of the alignment.         *)
LEMMA PaddingAligns ==
    ASSUME NEW a \in Nat \ {0}, NEW x \in Nat
    PROVE  (x + ((a - (x % a)) % a)) % a = 0
  <1> DEFINE r == x % a
             q == x \div a
  <1>1. r \in Nat /\ r < a /\ q \in Int /\ x = a * q + r
    BY ModFacts
  <1> HIDE DEF r, q
  <1>2. CASE r = 0
    <2>1. (a - r) % a = 0 /\ x + 0 = a * q
      BY <1>1, <1>2
    <2>2. (x + ((a - r) % a)) % a = 0
      BY <1>1, <2>1, MultipleFacts
    <2> QED BY <2>2 DEF r
  <1>3. CASE r > 0
    <2>1. (a - r) % a = a - r
      BY <1>1, <1>3
    <2>2. a * (q + 1) = a * q + a /\ q + 1 \in Int
      BY <1>1
    <2>3. x + ((a - r) % a) = a * (q + 1)
      BY <1>1, <2>1, <2>2
    <2>4. (x + ((a - r) % a)) % a = 0
      BY <2>2, <2>3, MultipleFacts
    <2> QED BY <2>4 DEF r
  <1> QED BY <1>1, <1>2, <1>3

(* A block of aligned_alloc is aligned whatever the pool: the test before   *)
(* the bump excludes that the padded offset wraps.                          *)
LEMMA BlockAligned ==
    ASSUME NEW p, NEW pool \in PoolRecord, NEW size \in Nat, NEW a \in Nat \ {0},
           AlignedFits(pool, size, a)
    PROVE  Block(p, pool, Padding(pool, a), size, a).addr % a = 0
  <1> DEFINE m == pool.memory
             c == pool.memory_consumed
             offset == Padding(pool, a)
  <1>1. m \in Nat /\ c \in Nat /\ offset \in Nat
    BY PaddingType DEF PoolRecord
  <1>2. SizeMod - 1 - c >= offset
    BY DEF AlignedFits
  <1>3. ((m + c) + offset) % a = 0
    <2>1. m + c \in Nat
      BY <1>1
    <2>2. ((m + c) + ((a - ((m + c) % a)) % a)) % a = 0
      BY <2>1, PaddingAligns
    <2> QED BY <2>2 DEF Padding
  <1>4. Block(p, pool, offset, size, a).addr = m + Add(c, offset)
    BY DEF Block
  <1> HIDE DEF m, c, offset
  <1>5. Add(c, offset) = c + offset
    BY <1>1, <1>2, WordExact, ConstantFacts
  <1>6. m + Add(c, offset) = (m + c) + offset
    BY <1>1, <1>5
  <1>7. (m + Add(c, offset)) % a = 0
    BY <1>3, <1>6
  <1> QED BY <1>4, <1>7 DEF offset

(* What one block more, or none, does to the claim.                         *)
LEMMA AlignedAdds ==
    ASSUME BlocksAligned, NEW b, b.addr % b.alignment = 0, blocks' \subseteq blocks \cup {b}
    PROVE  BlocksAligned'
  BY DEF BlocksAligned

LEMMA MallocAligned ==
    ASSUME Structure, BlocksAligned, NEW size \in Nat, Malloc(size)
    PROVE  BlocksAligned'
  <1>1. Structure'
    BY MallocStructure
  <1>2. ASSUME NEW b \in blocks', b \notin blocks PROVE b.addr % b.alignment = 0
    <2>1. PICK p, pool : b = Block(p, pool, 0, size, 1)
      <3>1. CASE MallocLarge(size)
        BY <1>2, <3>1 DEF MallocLarge
      <3>2. CASE MallocTail(size) \/ MallocNewTail(size)
        BY <1>2, <3>2 DEF MallocTail, MallocNewTail, Take
      <3>3. CASE MallocFails(size)
        BY <1>2, <3>3 DEF MallocFails, vars
      <3> QED BY <3>1, <3>2, <3>3 DEF Malloc
    <2>2. b.addr \in Nat
      BY <1>1 DEF Structure, TypeOK, BlockRecord
    <2>3. b.alignment = 1
      BY <2>1 DEF Block
    <2> QED BY <2>2, <2>3
  <1> QED BY <1>2 DEF BlocksAligned

LEMMA AlignedAllocAligned ==
    ASSUME Structure, BlocksAligned, NEW size \in Nat, NEW a \in Nat \ {0},
           AlignedAlloc(size, a)
    PROVE  BlocksAligned'
  <1>1. CASE AlignedLarge(size, a)
    <2>1. /\ mgr \in MgrRecord /\ pools[mgr.tail] \in PoolRecord
      BY <1>1, ReadyFacts DEF AlignedLarge, Structure
    <2> DEFINE new(p) == MemPool_new(p, size, AlignmentOffset(a), pools[mgr.tail].prev)
    <2>2. PICK p \in Addr :
             \/ /\ AlignedFits(new(p), size, a)
                /\ blocks' = blocks \cup {Block(p, new(p), Padding(new(p), a), size, a)}
             \/ UNCHANGED blocks
      BY <1>1 DEF AlignedLarge
    <2>3. new(p) \in PoolRecord
      BY <2>1, AlignmentOffsetType, NewPoolType DEF PoolRecord
    <2> HIDE DEF new
    <2> DEFINE b == Block(p, new(p), Padding(new(p), a), size, a)
    <2>4. b.alignment = a
      BY DEF Block
    <2>5. CASE AlignedFits(new(p), size, a) /\ blocks' = blocks \cup {b}
      <3>1. b.addr % a = 0
        BY <2>3, <2>5, BlockAligned
      <3> QED BY <2>4, <2>5, <3>1, AlignedAdds
    <2> QED BY <2>2, <2>5 DEF BlocksAligned
  <1>2. CASE AlignedTail(size, a)
    <2> DEFINE tail == pools[mgr.tail]
               b == Block(mgr.tail, tail, Padding(tail, a), size, a)
    <2>1. tail \in PoolRecord
      BY <1>2, ReadyFacts DEF AlignedTail, Structure
    <2>2. AlignedFits(tail, size, a) /\ blocks' = blocks \cup {b}
      BY <1>2 DEF AlignedTail, Take
    <2>3. b.alignment = a
      BY DEF Block
    <2>4. b.addr % a = 0
      BY <2>1, <2>2, BlockAligned
    <2> QED BY <2>2, <2>3, <2>4, AlignedAdds
  <1>3. CASE AlignedNewTail(size, a)
    <2>1. mgr \in MgrRecord
      BY <1>3, ReadyFacts DEF AlignedNewTail, Structure
    <2> DEFINE new(p) == MemPool_new(p, mgr.memory_size, mgr.alignment_offset, mgr.tail)
    <2>2. PICK p \in Addr :
             \/ /\ AlignedFits(new(p), size, a)
                /\ blocks' = blocks \cup {Block(p, new(p), Padding(new(p), a), size, a)}
             \/ UNCHANGED blocks
      BY <1>3 DEF AlignedNewTail, Take
    <2>3. new(p) \in PoolRecord
      BY <2>1, NewPoolType DEF MgrRecord
    <2> HIDE DEF new
    <2> DEFINE b == Block(p, new(p), Padding(new(p), a), size, a)
    <2>4. b.alignment = a
      BY DEF Block
    <2>5. CASE AlignedFits(new(p), size, a) /\ blocks' = blocks \cup {b}
      <3>1. b.addr % a = 0
        BY <2>3, <2>5, BlockAligned
      <3> QED BY <2>4, <2>5, <3>1, AlignedAdds
    <2> QED BY <2>2, <2>5 DEF BlocksAligned
  <1>4. CASE AlignedFails(size, a)
    BY <1>4 DEF AlignedFails, vars, BlocksAligned
  <1> QED BY <1>1, <1>2, <1>3, <1>4 DEF AlignedAlloc

LEMMA StepAligned ==
    ASSUME Structure, BlocksAligned, [Next]_vars
    PROVE  BlocksAligned'
  <1>1. CASE NextElement
    <2>1. mgr.size \in Nat
      BY <1>1, ReadyFacts DEF NextElement, Structure, MgrRecord
    <2> QED BY <1>1, <2>1, MallocAligned DEF NextElement
  <1>2. ASSUME NEW size \in Sizes, Malloc(size) PROVE BlocksAligned'
    BY <1>2, MallocAligned, ConstantsAssumption
  <1>3. ASSUME NEW args \in AlignedArgs, AlignedAlloc(args.size, args.alignment)
        PROVE  BlocksAligned'
    <2>1. args.size \in Nat /\ args.alignment \in Nat \ {0}
      BY ConstantsAssumption
    <2> QED BY <1>3, <2>1, AlignedAllocAligned
  <1>4. CASE \/ \E args \in NewArgs : New(args)
             \/ NewFails \/ DelBegin \/ DelPool \/ DelEnd \/ UNCHANGED vars
    BY <1>4 DEF New, NewFails, DelBegin, DelPool, DelEnd, vars, BlocksAligned
  <1> QED BY <1>1, <1>2, <1>3, <1>4 DEF Next

(* A block of aligned_alloc starts at a multiple of its alignment, whatever *)
(* was asked for before, also when products wrap or pools overrun: padding  *)
(* is computed from the address itself (mempool.c:53).                      *)
THEOREM BlocksStayAligned == Spec => []BlocksAligned
  <1>1. Init => Structure /\ BlocksAligned
    BY InitStructure DEF Init, BlocksAligned
  <1>2. Structure /\ BlocksAligned /\ [Next]_vars => Structure' /\ BlocksAligned'
    BY NextStructure, StepAligned
  <1> QED BY <1>1, <1>2, PTL DEF Spec

-----------------------------------------------------------------------------
(* Elements that next hands out. *)

OfPool(bs, p) == {b \in bs : b.pool = p}

(* The blocks of pool v at p are elements of s bytes, one behind the other  *)
(* from the start of its memory to what is consumed.                        *)
Tiles(v, bs, p, s) ==
    LET k == Cardinality(OfPool(bs, p))
    IN  /\ v.memory_consumed = k * s
        /\ {b.addr : b \in OfPool(bs, p)} = {v.memory + i * s : i \in 0 .. k - 1}

(* One element more does not fit.                                           *)
LeftFull(v, bs, p, s) == (Cardinality(OfPool(bs, p)) + 1) * s > v.memory_size

TileInv ==
    /\ IsFiniteSet(blocks)
    /\ mgr # NoMgr => \E args \in NewArgs :
                        /\ mgr.size = args.size /\ args.size # 0
                        /\ mgr.alignment_offset = PaddedHeader(ManagerAlignment(args))
    /\ Ready => \A p \in DOMAIN pools : pools[p].memory = p + mgr.alignment_offset
    /\ NextOnly => \A p \in DOMAIN pools :
                      /\ Tiles(pools[p], blocks, p, mgr.size)
                      /\ p # mgr.tail => LeftFull(pools[p], blocks, p, mgr.size)

(* Products by the size of an element, one step and several.                *)
LEMMA TimesOrder ==
    ASSUME NEW i \in Int, NEW k \in Int, NEW s \in Nat
    PROVE  (i + 1) * s = i * s + s /\ (i < k => i * s + s <= k * s)
  <1>1. (i + 1) * s = i * s + s
    OBVIOUS
  <1>2. ASSUME i < k PROVE i * s + s <= k * s
    <2> DEFINE d == k - (i + 1)
    <2>1. d \in Nat /\ k = (i + 1) + d
      BY <1>2
    <2> HIDE DEF d
    <2>2. d * s \in Nat
      BY <2>1
    <2>3. k * s = (i + 1) * s + d * s
      BY <2>1
    <2>4. i * s \in Int /\ k * s \in Int /\ (i + 1) * s \in Int
      OBVIOUS
    <2> QED BY <1>1, <2>2, <2>3, <2>4
  <1> QED BY <1>1, <1>2

LEMMA OfPoolFacts ==
    ASSUME NEW bs, IsFiniteSet(bs), NEW p
    PROVE  IsFiniteSet(OfPool(bs, p)) /\ Cardinality(OfPool(bs, p)) \in Nat
  <1>1. OfPool(bs, p) \in SUBSET bs
    BY DEF OfPool
  <1>2. IsFiniteSet(OfPool(bs, p))
    BY <1>1, FS_Subset
  <1> QED BY <1>2, FS_CardinalityType

(* A pool without blocks is tiled.                                          *)
LEMMA EmptyTiles ==
    ASSUME NEW bs, NEW p, NEW v, NEW s \in Nat, v.memory_consumed = 0,
           \A b \in bs : b.pool # p
    PROVE  Tiles(v, bs, p, s) /\ Cardinality(OfPool(bs, p)) = 0
  <1>1. OfPool(bs, p) = {}
    BY DEF OfPool
  <1>2. Cardinality({}) = 0
    BY FS_EmptySet
  <1>3. 0 .. 0 - 1 = {} /\ 0 * s = 0
    OBVIOUS
  <1> QED BY <1>1, <1>2, <1>3 DEF Tiles

(* The next element is put behind the last.                                 *)
LEMMA TileAdd ==
    ASSUME NEW bs, IsFiniteSet(bs), NEW p, NEW v \in PoolRecord, NEW s \in Nat \ {0},
           Tiles(v, bs, p, s), v.memory_consumed + s <= v.memory_size,
           v.memory_size < SizeMod
    PROVE  LET more == bs \cup {Block(p, v, 0, s, 1)}
           IN  /\ Tiles(Bump(v, 0, s), more, p, s)
               /\ Cardinality(OfPool(more, p)) = Cardinality(OfPool(bs, p)) + 1
               /\ \A q : q # p => OfPool(more, q) = OfPool(bs, q)
  <1> DEFINE b == Block(p, v, 0, s, 1)
             more == bs \cup {b}
             k == Cardinality(OfPool(bs, p))
             c == v.memory_consumed
             m == v.memory
             here == {x.addr : x \in OfPool(bs, p)}
  <1>1. k \in Nat /\ IsFiniteSet(OfPool(bs, p))
    BY OfPoolFacts
  <1>2. c \in Nat /\ m \in Nat /\ c = k * s /\ here = {m + i * s : i \in 0 .. k - 1}
    BY DEF PoolRecord, Tiles
  <1>3. Add(c, 0) = c /\ Add(Add(c, 0), s) = c + s
    <2>1. v.memory_size \in Nat /\ c + s < SizeMod /\ c + 0 = c /\ c < SizeMod
      BY <1>2, ConstantFacts DEF PoolRecord
    <2> QED BY <1>2, <2>1, WordExact
  <1>4. b.pool = p /\ b.addr = m + c
    BY <1>3 DEF Block
  <1>5. Bump(v, 0, s).memory_consumed = c + s /\ Bump(v, 0, s).memory = m
    BY <1>3 DEF Bump, PoolRecord
  <1>6. OfPool(more, p) = OfPool(bs, p) \cup {b} /\ \A q : q # p => OfPool(more, q) = OfPool(bs, q)
    BY <1>4 DEF OfPool
  <1>7. b \notin OfPool(bs, p)
    <2> SUFFICES ASSUME b \in OfPool(bs, p) PROVE FALSE
      OBVIOUS
    <2>1. PICK i \in 0 .. k - 1 : b.addr = m + i * s
      BY <1>2
    <2>2. i \in Int /\ i < k /\ i * s \in Int /\ i * s + s <= k * s
      BY <1>1, TimesOrder
    <2> HIDE DEF c, m, k, b
    <2> QED BY <1>2, <1>4, <2>1, <2>2
  <1>8. Cardinality(OfPool(more, p)) = k + 1
    <2> HIDE DEF b
    <2>1. Cardinality(OfPool(bs, p) \cup {b}) = Cardinality(OfPool(bs, p)) + 1
      BY <1>1, <1>7, FS_AddElement
    <2> QED BY <1>6, <2>1
  <1>9. {x.addr : x \in OfPool(more, p)} = {m + i * s : i \in 0 .. (k + 1) - 1}
    <2>1. {x.addr : x \in OfPool(more, p)} = here \cup {m + k * s}
      BY <1>2, <1>4, <1>6
    <2>2. 0 .. (k + 1) - 1 = (0 .. k - 1) \cup {k}
      BY <1>1
    <2> HIDE DEF here, m, k, more
    <2> QED BY <1>2, <2>1, <2>2
  <1>10. c + s = (k + 1) * s
    BY <1>1, <1>2, TimesOrder
  <1> HIDE DEF k, b
  <1>11. Tiles(Bump(v, 0, s), more, p, s)
    BY <1>5, <1>8, <1>9, <1>10 DEF Tiles
  <1> QED BY <1>6, <1>8, <1>11 DEF k, b

(* What the other pools are tiled by does not change.                       *)
LEMMA TilesSame ==
    ASSUME NEW v, NEW w, NEW bs, NEW more, NEW p, NEW s,
           OfPool(more, p) = OfPool(bs, p), w.memory = v.memory,
           w.memory_consumed = v.memory_consumed, w.memory_size = v.memory_size
    PROVE  /\ Tiles(v, bs, p, s) => Tiles(w, more, p, s)
           /\ LeftFull(v, bs, p, s) => LeftFull(w, more, p, s)
  BY DEF Tiles, LeftFull

LEMMA TileReady ==
    ASSUME Structure, Bounds, TileInv, Ready
    PROVE  /\ mgr \in MgrRecord /\ mgr.tail \in DOMAIN pools /\ mgr.tail \in Addr
           /\ mgr.size \in Nat \ {0} /\ IsFiniteSet(blocks)
           /\ \A p \in DOMAIN pools : /\ pools[p] \in PoolRecord /\ PoolSound(p, pools[p])
                                      /\ pools[p].memory = p + mgr.alignment_offset
  <1>1. /\ mgr \in MgrRecord /\ mgr.tail \in DOMAIN pools /\ mgr.tail \in Addr
    BY ReadyBounds
  <1>2. mgr.size \in Nat \ {0}
    BY <1>1 DEF TileInv, Ready, MgrRecord
  <1>3. \A p \in DOMAIN pools : pools[p] \in PoolRecord /\ PoolSound(p, pools[p])
    BY DEF Structure, TypeOK, Bounds, HeapSound
  <1> QED BY <1>1, <1>2, <1>3 DEF TileInv

(* A request served as long as only next is called is one for an element.   *)
LEMMA OnlyNext ==
    ASSUME Ready, NextOnly', NEW p, NEW v, NEW size, NEW a,
           blocks' = blocks \cup {Block(p, v, 0, size, a)}, mgr'.size = mgr.size
    PROVE  NextOnly /\ size = mgr.size
  <1> DEFINE b == Block(p, v, 0, size, a)
  <1>1. b.size = size
    BY DEF Block
  <1> HIDE DEF b
  <1>2. \A c \in blocks \cup {b} : c.size = mgr.size
    BY DEF NextOnly, b
  <1> QED BY <1>1, <1>2 DEF NextOnly

(* A block of the tail.                                                     *)
LEMMA TailTiles ==
    ASSUME Structure, Bounds, TileInv, NEW size \in Nat, MallocTail(size)
    PROVE  TileInv'
  <1> DEFINE t == mgr.tail
             tail == pools[t]
             b == Block(t, tail, 0, size, 1)
             w == Bump(tail, 0, size)
  <1>0. Ready /\ UNCHANGED <<mgr, walk>>
    BY DEF MallocTail
  <1>1. /\ t \in DOMAIN pools /\ IsFiniteSet(blocks)
        /\ \A p \in DOMAIN pools : pools[p].memory = p + mgr.alignment_offset
        /\ tail \in PoolRecord /\ PoolSound(t, tail) /\ mgr.size \in Nat \ {0}
    BY <1>0, TileReady
  <1>2. tail.memory_consumed + 0 + size <= tail.memory_size
    BY <1>1, FitsInside DEF MallocTail
  <1>3. pools' = With(pools, t, w) /\ blocks' = blocks \cup {b}
    BY DEF MallocTail, Take
  <1>4. /\ w.memory = tail.memory /\ w.memory_size = tail.memory_size
    BY <1>1 DEF Bump, PoolRecord
  <1>5. /\ DOMAIN pools' = DOMAIN pools /\ pools'[t] = w
        /\ \A p \in DOMAIN pools : p # t => pools'[p] = pools[p]
    BY <1>1, <1>3 DEF With
  <1>6. IsFiniteSet(blocks')
    BY <1>1, <1>3, FS_AddElement
  <1>7. \A p \in DOMAIN pools' : pools'[p].memory = p + mgr.alignment_offset
    BY <1>1, <1>4, <1>5
  <1>8. ASSUME NextOnly'
        PROVE  \A p \in DOMAIN pools' :
                  /\ Tiles(pools'[p], blocks', p, mgr.size)
                  /\ p # t => LeftFull(pools'[p], blocks', p, mgr.size)
    <2>1. NextOnly /\ size = mgr.size
      BY <1>0, <1>3, <1>8, OnlyNext
    <2>2. /\ Tiles(tail, blocks, t, size)
          /\ \A p \in DOMAIN pools : p # t => /\ Tiles(pools[p], blocks, p, size)
                                              /\ LeftFull(pools[p], blocks, p, size)
      BY <1>1, <2>1 DEF TileInv
    <2>3. tail.memory_consumed + size <= tail.memory_size /\ tail.memory_size < SizeMod
      BY <1>1, <1>2 DEF PoolRecord, PoolSound
    <2>4. /\ Tiles(w, blocks', t, size)
          /\ \A q : q # t => OfPool(blocks', q) = OfPool(blocks, q)
      BY <1>1, <1>3, <2>1, <2>2, <2>3, TileAdd
    <2> HIDE DEF t, w, b
    <2>5. ASSUME NEW p \in DOMAIN pools, p # t
          PROVE  Tiles(pools'[p], blocks', p, size) /\ LeftFull(pools'[p], blocks', p, size)
      BY <1>5, <2>2, <2>4, <2>5, TilesSame
    <2> QED BY <1>5, <2>1, <2>4, <2>5
  <1> QED BY <1>0, <1>6, <1>7, <1>8 DEF TileInv, Ready

(* A new pool with one element, in use as the tail or below it.             *)
LEMMA FreshTiles ==
    ASSUME IsFiniteSet(blocks), NEW p, NEW v, Fresh(p, v), NEW s \in Nat \ {0},
           \A b \in blocks : b.pool \in DOMAIN pools, s <= v.memory_size
    PROVE  LET more == blocks \cup {Block(p, v, 0, s, 1)}
           IN  /\ Tiles(Bump(v, 0, s), more, p, s)
               /\ Cardinality(OfPool(more, p)) = 1
               /\ \A q : q # p => OfPool(more, q) = OfPool(blocks, q)
  <1>1. Tiles(v, blocks, p, s) /\ Cardinality(OfPool(blocks, p)) = 0
    BY EmptyTiles DEF Fresh
  <1>2. /\ v \in PoolRecord /\ v.memory_consumed + s <= v.memory_size
        /\ v.memory_size < SizeMod
    BY DEF Fresh, PoolSound, PoolRecord
  <1> QED BY <1>1, <1>2, TileAdd

LEMMA NewTailTiles ==
    ASSUME Structure, Bounds, TileInv, NEW size \in Nat, MallocNewTail(size)
    PROVE  TileInv'
  <1> DEFINE t == mgr.tail
             new(p) == MemPool_new(p, mgr.memory_size, mgr.alignment_offset, t)
  <1>0. Ready /\ UNCHANGED walk /\ size <= mgr.memory_size /\ ~ Fits(pools[t], size)
    BY DEF MallocNewTail
  <1>1. /\ mgr \in MgrRecord /\ t \in DOMAIN pools /\ t \in Addr /\ IsFiniteSet(blocks)
        /\ \A q \in DOMAIN pools : pools[q].memory = q + mgr.alignment_offset
        /\ pools[t] \in PoolRecord /\ PoolSound(t, pools[t]) /\ mgr.size \in Nat \ {0}
    BY <1>0, TileReady
  <1>2. PICK p \in Addr :
           /\ CanNew(p, mgr.memory_size, mgr.alignment_offset)
           /\ mgr' = [mgr EXCEPT !.tail = p]
           /\ Take(p, new(p), 0, size, 1)
    BY DEF MallocNewTail
  <1> DEFINE v == new(p)
             w == Bump(v, 0, size)
             b == Block(p, v, 0, size, 1)
  <1>3. /\ Fresh(p, v) /\ v.memory_size = mgr.memory_size
        /\ v.memory = p + mgr.alignment_offset
    <2>1. /\ mgr.alignment_offset \in Nat /\ mgr.memory_size \in Nat
          /\ Header <= mgr.alignment_offset
          /\ mgr.alignment_offset + mgr.memory_size < SizeMod
      BY <1>0, <1>1 DEF MgrRecord, Bounds, MgrSound, Ready
    <2> QED BY <1>1, <1>2, <2>1, FreshFacts
  <1> HIDE DEF v, new
  <1>4. pools' = With(pools, p, w) /\ blocks' = blocks \cup {b}
    BY <1>2 DEF Take, v
  <1>5. /\ mgr'.tail = p /\ mgr'.size = mgr.size /\ mgr'.alignment_offset = mgr.alignment_offset
        /\ mgr' # NoMgr /\ mgr # NoMgr
    <2>1. mgr' \in MgrRecord
      BY <1>1, <1>2 DEF MgrRecord
    <2> QED BY <1>0, <1>1, <1>2, <2>1, ConstantFacts DEF MgrRecord, NoMgr, Ready
  <1>6. w.memory = v.memory /\ w.memory_size = v.memory_size
    BY <1>3 DEF Bump, Fresh, PoolRecord
  <1>7. /\ DOMAIN pools' = DOMAIN pools \cup {p} /\ pools'[p] = w /\ p \notin DOMAIN pools
        /\ \A q \in DOMAIN pools : pools'[q] = pools[q]
    BY <1>3, <1>4 DEF With, Fresh
  <1>8. IsFiniteSet(blocks')
    BY <1>1, <1>4, FS_AddElement
  <1>9. \A q \in DOMAIN pools' : pools'[q].memory = q + mgr.alignment_offset
    BY <1>1, <1>3, <1>6, <1>7
  <1>10. ASSUME NextOnly'
         PROVE  \A q \in DOMAIN pools' :
                  /\ Tiles(pools'[q], blocks', q, mgr.size)
                  /\ q # p => LeftFull(pools'[q], blocks', q, mgr.size)
    <2>1. NextOnly /\ size = mgr.size
      BY <1>0, <1>4, <1>5, <1>10, OnlyNext
    <2>2. /\ \A q \in DOMAIN pools : /\ Tiles(pools[q], blocks, q, size)
                                     /\ q # t => LeftFull(pools[q], blocks, q, size)
      BY <1>1, <2>1 DEF TileInv
    <2>3. \A c \in blocks : c.pool \in DOMAIN pools
      BY DEF Bounds, HeapSound, BlockSound
    <2>4. /\ Tiles(w, blocks', p, size)
          /\ \A q : q # p => OfPool(blocks', q) = OfPool(blocks, q)
      BY <1>0, <1>1, <1>3, <1>4, <2>1, <2>3, FreshTiles
    <2>5. LeftFull(pools[t], blocks, t, size)
      <3> DEFINE c == pools[t].memory_consumed
                 s == pools[t].memory_size
                 k == Cardinality(OfPool(blocks, t))
      <3>1. c \in Nat /\ s \in Nat /\ c <= s /\ s < SizeMod
        BY <1>1 DEF PoolRecord, PoolSound
      <3>2. ~ (Sub(s, c) >= size)
        BY <1>0 DEF Fits
      <3>3. c = k * size /\ k \in Nat
        BY <1>1, <2>2, OfPoolFacts DEF Tiles
      <3> HIDE DEF c, s, k
      <3>4. Sub(s, c) = s - c
        BY <3>1, WordExact
      <3>5. (k + 1) * size = c + size
        BY <3>3, TimesOrder
      <3>6. (k + 1) * size > s
        BY <3>1, <3>2, <3>4, <3>5
      <3> QED BY <3>6 DEF LeftFull, k, s
    <2>6. ASSUME NEW q \in DOMAIN pools
          PROVE  Tiles(pools'[q], blocks', q, size) /\ LeftFull(pools'[q], blocks', q, size)
      <3>1. q # p /\ pools'[q] = pools[q] /\ OfPool(blocks', q) = OfPool(blocks, q)
        BY <1>7, <2>4
      <3>2. LeftFull(pools[q], blocks, q, size)
        BY <2>2, <2>5
      <3> QED BY <2>2, <3>1, <3>2, TilesSame
    <2> HIDE DEF w
    <2> QED BY <1>7, <2>1, <2>4, <2>6
  <1> QED BY <1>0, <1>5, <1>8, <1>9, <1>10 DEF TileInv, Ready

LEMMA LargeTiles ==
    ASSUME Structure, Bounds, TileInv, NEW size \in Sizes \cup {mgr.size}, MallocLarge(size)
    PROVE  TileInv'
  <1> DEFINE t == mgr.tail
             new(p) == MemPool_new(p, size, mgr.alignment_offset, pools[t].prev)
  <1>0. Ready /\ UNCHANGED <<mgr, walk>> /\ size > mgr.memory_size
    BY DEF MallocLarge
  <1>1. /\ mgr \in MgrRecord /\ t \in DOMAIN pools /\ t \in Addr /\ IsFiniteSet(blocks)
        /\ \A q \in DOMAIN pools : pools[q].memory = q + mgr.alignment_offset
        /\ pools[t] \in PoolRecord /\ mgr.size \in Nat \ {0}
    BY <1>0, TileReady
  <1>2. PICK p \in Addr :
           /\ CanNew(p, size, mgr.alignment_offset)
           /\ pools' = With(With(pools, p, Bump(new(p), 0, size)),
                            t, [pools[t] EXCEPT !.prev = p])
           /\ blocks' = blocks \cup {Block(p, new(p), 0, size, 1)}
    BY DEF MallocLarge
  <1> DEFINE v == new(p)
             w == Bump(v, 0, size)
             b == Block(p, v, 0, size, 1)
  <1>3. Fresh(p, v) /\ v.memory_size = size /\ v.memory = p + mgr.alignment_offset
    <2>1. /\ mgr.alignment_offset \in Nat /\ size \in Nat
          /\ Header <= mgr.alignment_offset /\ mgr.alignment_offset + size < SizeMod
      BY <1>0, <1>1, ConstantsAssumption DEF MgrRecord, Bounds, MgrSound, Ready
    <2>2. pools[t].prev \in Addr \cup {NULL}
      BY <1>1 DEF PoolRecord
    <2> QED BY <1>2, <2>1, <2>2, FreshFacts
  <1> HIDE DEF v, new
  <1>4. /\ pools' = With(With(pools, p, w), t, [pools[t] EXCEPT !.prev = p])
        /\ blocks' = blocks \cup {b}
    BY <1>2 DEF v
  <1>5. w.memory = v.memory /\ w.memory_size = v.memory_size
    BY <1>3 DEF Bump, Fresh, PoolRecord
  <1> DEFINE old(q) == IF q = t THEN [pools[t] EXCEPT !.prev = p] ELSE pools[q]
  <1>6. \A q \in DOMAIN pools : /\ old(q).memory = pools[q].memory
                                /\ old(q).memory_consumed = pools[q].memory_consumed
                                /\ old(q).memory_size = pools[q].memory_size
    BY <1>1 DEF PoolRecord
  <1>7. /\ DOMAIN pools' = DOMAIN pools \cup {p} /\ pools'[p] = w /\ p \notin DOMAIN pools
        /\ \A q \in DOMAIN pools : pools'[q] = old(q)
    <2>1. p \notin DOMAIN pools /\ p # t
      BY <1>1, <1>3 DEF Fresh
    <2> HIDE DEF w
    <2> QED BY <1>1, <1>4, <2>1 DEF With
  <1> HIDE DEF old
  <1>8. IsFiniteSet(blocks')
    BY <1>1, <1>4, FS_AddElement
  <1>9. \A q \in DOMAIN pools' : pools'[q].memory = q + mgr.alignment_offset
    BY <1>1, <1>3, <1>5, <1>6, <1>7
  <1>10. ASSUME NextOnly'
         PROVE  \A q \in DOMAIN pools' :
                  /\ Tiles(pools'[q], blocks', q, mgr.size)
                  /\ q # t => LeftFull(pools'[q], blocks', q, mgr.size)
    <2>1. NextOnly /\ size = mgr.size
      BY <1>0, <1>4, <1>10, OnlyNext
    <2>2. /\ \A q \in DOMAIN pools : /\ Tiles(pools[q], blocks, q, size)
                                     /\ q # t => LeftFull(pools[q], blocks, q, size)
      BY <1>1, <2>1 DEF TileInv
    <2>3. \A c \in blocks : c.pool \in DOMAIN pools
      BY DEF Bounds, HeapSound, BlockSound
    <2>4. size \in Nat \ {0} /\ size <= v.memory_size
      BY <1>1, <1>3, <2>1
    <2>5. /\ Tiles(w, blocks', p, size) /\ Cardinality(OfPool(blocks', p)) = 1
          /\ \A q : q # p => OfPool(blocks', q) = OfPool(blocks, q)
      <3>1. size \in Nat \ {0} /\ size <= v.memory_size /\ IsFiniteSet(blocks) /\ Fresh(p, v)
        BY <1>1, <1>3, <2>4
      <3>2. LET more == blocks \cup {Block(p, v, 0, size, 1)}
            IN  /\ Tiles(Bump(v, 0, size), more, p, size)
                /\ Cardinality(OfPool(more, p)) = 1
                /\ \A q : q # p => OfPool(more, q) = OfPool(blocks, q)
        BY <2>3, <3>1, FreshTiles
      <3> QED BY <1>4, <3>2
    <2>6. LeftFull(w, blocks', p, size)
      <3>1. (1 + 1) * size > size
        BY <2>4
      <3> QED BY <1>3, <1>5, <2>5, <3>1 DEF LeftFull
    <2>7. ASSUME NEW q \in DOMAIN pools
          PROVE  /\ Tiles(pools'[q], blocks', q, size)
                 /\ q # t => LeftFull(pools'[q], blocks', q, size)
      <3>1. q # p /\ pools'[q] = old(q) /\ OfPool(blocks', q) = OfPool(blocks, q)
        BY <1>7, <2>5
      <3>2. /\ pools'[q].memory = pools[q].memory
            /\ pools'[q].memory_consumed = pools[q].memory_consumed
            /\ pools'[q].memory_size = pools[q].memory_size
        BY <1>6, <3>1
      <3> QED BY <2>2, <3>1, <3>2, TilesSame
    <2> HIDE DEF w
    <2> QED BY <1>7, <2>1, <2>5, <2>6, <2>7
  <1> QED BY <1>0, <1>8, <1>9, <1>10 DEF TileInv, Ready

LEMMA NewTiles ==
    ASSUME NoWrap, Structure, Bounds, TileInv, NEW args \in NewArgs, New(args)
    PROVE  TileInv'
  <1> DEFINE a      == ManagerAlignment(args)
             offset == AlignmentOffset(a)
             total  == Word(args.size * args.count)
  <1>1. PICK p \in Addr :
           /\ pools' = With(pools, p, MemPool_new(p, total, offset, NULL))
           /\ mgr' = [tail |-> p, size |-> args.size,
                      memory_size |-> total, alignment_offset |-> offset]
    BY DEF New
  <1>2. mgr = NoMgr /\ walk = Idle /\ args.size # 0 /\ args.size \in Nat /\ blocks' = blocks
    BY ConstantsAssumption DEF New, Structure, TypeOK
  <1>3. DOMAIN pools = {}
    <2>1. Chained(pools, NULL)
      BY <1>2 DEF Structure, NoPoolLost, Top, NoMgr
    <2> QED BY <2>1 DEF Chained
  <1>4. blocks = {}
    BY <1>3 DEF Bounds, HeapSound, BlockSound
  <1>5. offset = PaddedHeader(a)
    <2>1. a \in Nat \ {0} /\ PaddedHeader(a) \in Nat
      BY ManagerAlignmentType, PaddedHeaderFacts
    <2>2. PaddedHeader(a) + args.size < SizeMod
      BY DEF NoWrap
    <2>3. PaddedHeader(a) < SizeMod
      BY <1>2, <2>1, <2>2, ConstantFacts
    <2> QED BY <2>1, <2>3, WordExact DEF AlignmentOffset
  <1> HIDE DEF a, offset, total
  <1> DEFINE v == MemPool_new(p, total, offset, NULL)
  <1>6. v.memory = p + offset /\ v.memory_consumed = 0
    BY DEF MemPool_new
  <1> HIDE DEF v
  <1>7. DOMAIN pools' = {p} /\ pools'[p] = v
    BY <1>1, <1>3 DEF With, v
  <1>8. mgr'.tail = p /\ mgr'.size = args.size /\ mgr'.alignment_offset = offset
    BY <1>1
  <1>9. Tiles(v, blocks', p, mgr'.size)
    BY <1>2, <1>4, <1>6, <1>8, EmptyTiles
  <1>10. IsFiniteSet(blocks')
    BY <1>2, <1>4, FS_EmptySet
  <1>11. \E x \in NewArgs : /\ mgr'.size = x.size /\ x.size # 0
                            /\ mgr'.alignment_offset = PaddedHeader(ManagerAlignment(x))
    BY <1>2, <1>5, <1>8 DEF a
  <1> QED BY <1>6, <1>7, <1>8, <1>9, <1>10, <1>11 DEF TileInv

LEMMA DelTiles ==
    ASSUME Structure, Bounds, TileInv, DelBegin \/ DelPool \/ DelEnd
    PROVE  TileInv'
  <1>1. IsFiniteSet(blocks')
    BY FS_EmptySet DEF DelBegin, DelPool, DelEnd, TileInv
  <1>2. CASE DelBegin \/ DelPool
    <2>1. mgr' = mgr
      BY <1>2 DEF DelBegin, DelPool
    <2>2. walk' # Idle
      <3>1. CASE DelBegin
        BY <3>1, ReadyFacts, ConstantFacts DEF DelBegin, Structure, MgrRecord
      <3>2. CASE DelPool
        <4>1. walk \in DOMAIN pools /\ pools[walk].prev \in Addr \cup {NULL}
          BY <3>2 DEF DelPool, Structure, TypeOK, NoPoolLost, Chained, Top, PoolRecord
        <4>2. walk' = pools[walk].prev
          BY <3>2 DEF DelPool
        <4> QED BY <4>1, <4>2, ConstantFacts
      <3> QED BY <1>2, <3>1, <3>2
    <2> QED BY <1>1, <2>1, <2>2 DEF TileInv, NextOnly, Ready
  <1>3. CASE DelEnd
    <2>1. mgr' = NoMgr
      BY <1>3 DEF DelEnd
    <2> QED BY <1>1, <2>1 DEF TileInv, NextOnly, Ready
  <1> QED BY <1>2, <1>3

LEMMA NextTiles ==
    ASSUME NoWrap, AlignedArgs = {}, Structure, Bounds, TileInv, [Next]_vars
    PROVE  TileInv'
  <1>1. ASSUME NEW args \in NewArgs, New(args) PROVE TileInv'
    BY <1>1, NewTiles
  <1>2. ASSUME NEW size \in Sizes \cup {mgr.size}, Malloc(size), Ready PROVE TileInv'
    <2>1. size \in Nat
      BY <1>2, TileReady, ConstantsAssumption
    <2>2. CASE MallocLarge(size)
      BY <2>2, LargeTiles
    <2>3. CASE MallocTail(size)
      BY <2>1, <2>3, TailTiles
    <2>4. CASE MallocNewTail(size)
      BY <2>1, <2>4, NewTailTiles
    <2>5. CASE MallocFails(size)
      BY <2>5 DEF MallocFails, vars, TileInv, NextOnly, Ready
    <2> QED BY <1>2, <2>2, <2>3, <2>4, <2>5 DEF Malloc
  <1>3. ASSUME NEW size, Malloc(size) PROVE Ready
    BY <1>3 DEF Malloc, MallocLarge, MallocTail, MallocNewTail, MallocFails
  <1>4. CASE NewFails \/ UNCHANGED vars
    BY <1>4 DEF NewFails, vars, TileInv, NextOnly, Ready
  <1> QED BY <1>1, <1>2, <1>3, <1>4, DelTiles DEF Next, NextElement

LEMMA TilesReachable ==
    ASSUME NoWrap, AlignedArgs = {}
    PROVE  Spec => [](Structure /\ Bounds /\ TileInv)
  <1>0. AlignmentsFit
    BY DEF AlignmentsFit
  <1>1. Init => Structure /\ Bounds /\ TileInv
    BY InitStructure, InitBounds, FS_EmptySet DEF Init, TileInv, NextOnly, Ready
  <1>2. Structure /\ Bounds /\ TileInv /\ [Next]_vars
            => Structure' /\ Bounds' /\ TileInv'
    BY <1>0, NextStructure, NextBounds, NextTiles
  <1> QED BY <1>1, <1>2, PTL DEF Spec

(* A manager used through next only fills its pools with elements, side by  *)
(* side, and leaves a pool only when another element does not fit, for every*)
(* size and count that do not wrap (memory_pool/test/test.c:84-95).         *)
THEOREM NextFillsPools ==
    ASSUME NoWrap, AlignedArgs = {}
    PROVE  Spec => []NextTilesPools
  <1>1. Structure /\ Bounds /\ TileInv => NextTilesPools
    BY DEF TileInv, NextTilesPools, Tiles, LeftFull, OfPool
  <1> QED BY <1>1, TilesReachable, PTL

(* Every element of such a manager has the alignment that was asked of new, *)
(* in its first pool and in later ones, when the addresses malloc returns   *)
(* and the size of an element are multiples of it                           *)
(* (memory_pool/test/test.c:83-94).                                         *)
THEOREM NextKeepsAlignment ==
    ASSUME NoWrap, AlignedArgs = {}, ElementsFit
    PROVE  Spec => []NextAligned
  <1>1. ASSUME Structure, Bounds, TileInv PROVE NextAligned
    <2> SUFFICES ASSUME NextOnly, NEW b \in blocks, NEW args \in NewArgs,
                        args.size = mgr.size, args.alignment # 0
                 PROVE  b.addr % args.alignment = 0
      BY DEF NextAligned
    <2> DEFINE a == args.alignment
               p == b.pool
               s == mgr.size
    <2>1. Ready /\ a \in Nat \ {0} /\ ManagerAlignment(args) = a
      BY ConstantsAssumption DEF NextOnly, ManagerAlignment
    <2>2. p \in DOMAIN pools /\ p \in Addr /\ p \in Nat /\ s \in Nat
      BY <1>1, <2>1, TileReady, ConstantFacts
      DEF Bounds, HeapSound, BlockSound, Structure, TypeOK
    <2>3. mgr.alignment_offset = PaddedHeader(a)
      BY <1>1, <2>1 DEF TileInv, Ready, ElementsFit, ManagerAlignment
    <2>4. PaddedHeader(a) \in Nat /\ PaddedHeader(a) % a = 0 /\ p % a = 0 /\ s % a = 0
      BY <2>1, <2>2, PaddedHeaderFacts, PaddedHeaderMultiple DEF ElementsFit
    <2>5. pools[p].memory = p + PaddedHeader(a)
      BY <1>1, <2>1, <2>2, <2>3 DEF TileInv
    <2>6. PICK i \in Int : b.addr = pools[p].memory + i * s
      <3>1. b.addr \in {c.addr : c \in OfPool(blocks, p)}
        BY DEF OfPool
      <3>2. Tiles(pools[p], blocks, p, s)
        BY <1>1, <2>2 DEF TileInv
      <3> DEFINE k == Cardinality(OfPool(blocks, p))
      <3>3. b.addr \in {pools[p].memory + i * s : i \in 0 .. k - 1}
        BY <3>1, <3>2 DEF Tiles
      <3> HIDE DEF k, p, s
      <3>4. PICK i \in 0 .. k - 1 : b.addr = pools[p].memory + i * s
        BY <3>3
      <3> QED BY <3>4
    <2> HIDE DEF a, s, p
    <2>7. (p + PaddedHeader(a)) % a = 0
      BY <2>1, <2>2, <2>4, SumOfMultiples
    <2>8. (i * s) % a = 0
      <3>0. s \in Int /\ s % a = 0 /\ a \in Nat \ {0}
        BY <2>1, <2>2, <2>4
      <3>1. PICK k \in Int : s = a * k
        BY <3>0, MultipleFacts, Zenon
      <3>2. i * s = a * (i * k) /\ i * k \in Int
        BY <2>1, <3>1
      <3> QED BY <2>1, <3>2, MultipleFacts
    <2>9. ((p + PaddedHeader(a)) + i * s) % a = 0
      <3>1. p + PaddedHeader(a) \in Int /\ i * s \in Int
        BY <2>2, <2>4
      <3> QED BY <2>1, <2>7, <2>8, <3>1, SumOfMultiples
    <2> QED BY <2>5, <2>6, <2>9 DEF a
  <1> QED BY <1>1, TilesReachable, PTL

=============================================================================

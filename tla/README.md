# A verification project for jcutils

jcutils is a collection of C utilities: a pool allocator, a paged print buffer,
counted strings, an array with iterators behind interface macros, and the parts
of POSIX (`getopt`, `sendmsg`) that Windows lacks.  The modules here model the
parts that keep state and have something to get wrong, TLC checks them on small
instances, and TLAPS proves the main results for every instance.

Everything is single-threaded: no file takes a lock, starts a thread or handles
a signal.  What makes the code hard is of another kind: long sequences of legal
calls over one state, calls to `malloc`, `vsnprintf` and `write` that fail in
the middle, size_t arithmetic at the boundaries, and state kept between calls in
places the caller does not see.

## 1. Inventory

| component | code | state | operations | hard behaviour | what makes it correct |
|---|---|---|---|---|---|
| MemPool | `memory_pool/mempool.[ch]` | a manager and a chain of pools linked by `prev`, each with its bytes consumed | new, next, malloc, aligned_alloc, del | padding between blocks of different requests, large requests pushed below the tail, malloc refusing a pool midway, unsigned differences | blocks in bounds, apart, aligned; no pool lost or freed twice |
| PageBuffer | `page_buffer/page_buffer.[ch]` | a chain of pages linked by `last` | new, pbnprintf, fwrite, write, swrite, length, del | a text formatted twice (old page, new page) and moved back; either formatting, malloc or a writer failing | the pages hold the printed text, whole and in order |
| Strings | `Strings/strings.[ch]` | size, capacity (whose sign says who owns the buffer), `str` | some thirty, from `String_new` to `String_replace` | four kinds of String in every operation, refused growth, rewriting in place from the end | texts stay within capacity; each call does what the header says or refuses and says so |
| getopt | `pie/pgetopt.[ch]`, `pie/punistd.[ch]` | the globals optind, optarg, optopt, the statics nextchar and in_chain | getopt, getopt_long, the caller's reset of optind | place kept between calls, chains left midway, long names falling through to short ones | the calls return what the command line says; a caller's loop ends |
| array and iterators | `containers/array.h` and the interfaces it implements | the caller's memory and a direction; the iterators' bounds and place | get, set, reverse, iter, restart, next, contains | circular places, iterators kept across a reversal, a last step cut short | get and set form a sequence; iterators stay inside, visit everything and end |
| network interfaces | `net/net.c` | the caller's record, filled from several queries of the system; while it runs, a list and a buffer to free | ipv4_interface_from_ip, mac_from_if, mac_from_hex | interfaces that change between two queries, any query failing, hardware addresses of other lengths | the record is of one interface, its flags say what it holds, nothing is leaked |
| allocators | `allocators/` | none (the block allocator is unfinished and does not compile) | allocate, reallocate, free passed on to libc | - | not modelled |
| sockets | `pie/sys/` | none | `sendmsg` for Windows (does not compile; there is no `recvmsg`) | - | not modelled |
| container interfaces | `containers/mutsequence.h`, `stack.h`, `Utils/` | none: declarations and macros | - | - | not modelled |
| complex numbers, fft | `Complex/`, `fft/` | none: floating-point macros and benchmarks | - | - | not modelled |

The components do not call one another.  Each interacts with its caller and with
libc, and it is there that the models put the nondeterminism:

* MemPool with `malloc`, which may refuse, or return any free address it likes;
* PageBuffer with `vsnprintf`, which may fail on the first try or on the second,
  with `malloc`, and with `fwrite` and `write`, which may come back short;
* getopt with a caller that reads its globals, may reset optind and may then
  bring another command line;
* Strings with `malloc` and `realloc`, and with the caller's arrays and literals;
* array with the loops of callers over iterators, while the array is reversed;
* the network lookup with `getifaddrs`, `/sys` and `sysctl`, each of which may fail,
  and with interfaces that come, go and change their addresses in between.

## 2. Modules

| module | models | extends or instantiates |
|---|---|---|
| `MemPool` | mempool.c | `Arena` (abstract) |
| `Arena` | what the pool allocator promises: blocks lent one by one, apart, ended together | |
| `MemPool_proof` | theorems about MemPool | `MemPool`, TLAPS |
| `PageBuffer` | page_buffer.c | `TextLog` (abstract) |
| `TextLog` | what the print buffer promises: one text, appended to or left alone | |
| `PageBuffer_proof` | theorems about PageBuffer | `PageBuffer`, `DataInduction` |
| `DataInduction` | lemmas by which the proofs reason by induction over data | TLAPS |
| `TextOps` | plain definitions of what strings.h means by occurrence, piece, replacement | |
| `StringSearch` | the functions of strings.c that only read | `TextOps` |
| `StringSearch_proof` | what find, rfind, count and slice return, for all texts and for the instances of `MCStringSearch` of any size, and the lemmas on texts alone that `Strings_proof` needs | `MCStringSearch`, `DataInduction` |
| `Strings` | String objects and the functions that change them | `StringSearch`, `Texts` (abstract) |
| `Texts` | what strings.h promises of each call, on bare texts | `TextOps` |
| `Strings_proof` | theorems about Strings | `Strings`, `StringSearch_proof` |
| `Getopt` | pgetopt.c, with `Parse`, a definition of what a command line means | |
| `Getopt_proof` | theorems about Getopt | `Getopt`, `DataInduction` |
| `Array` | array.h | `SequenceInterface` (abstract) |
| `SequenceInterface` | what sequence.h promises | |
| `Array_proof` | theorems about Array | `Array`, TLAPS |
| `NetIface` | net.c | |
| `NetIface_proof` | theorems about NetIface | `NetIface`, `DataInduction` |
| `MC...` | the small instances | the module of that name |

Definitions named `*_wrong*` are not the code: each is a plausible slip in the
definition it stands before, and shows that some property notices it.

### MemPool

A pool is named by the address `malloc` gave it, so that alignment is arithmetic
on addresses.  `pools` maps addresses to the fields of the struct, `mgr` is the
manager, `blocks` what the caller holds.  Each request (`NextElement`,
`Malloc(size)`, `AlignedAlloc(size, alignment)`) is one action with a disjunct
per way through the code: from the tail, in a new tail, in a special pool for a
large request, refused.  `Add` and `Sub` wrap at `SizeMod`, as size_t does.  The
loop of `MemPoolManager_del` is `DelBegin`, `DelPool`, `DelEnd`, with the local
pointer in `walk`, because what can go wrong in it is the order of reading `prev`
and freeing.  The contents of blocks are left out.

### PageBuffer

The code never looks at the text, so a byte is named by its position in what has
been printed.  `pages` holds the pages from the oldest; what `last` links is the
reverse.  A format is a length and whether `vsnprintf` succeeds on the first and
on the second try.  `pbnprintf` is one action per outcome: `PrintError`,
`PrintFits`, `PrintTooLong`, `PrintNoMemory`, `PrintAgainError` (the new page
stays, empty) and `PrintNewPage`, which ends with `Backfill`.  The writers put
their bytes into `ret`.

### Strings

A String is its text, its capacity with its sign, and whether `str` is NULL; what
lies in a buffer behind the text is forgotten between calls.  `caller` is the
bound of the instance: the Strings a caller declares, the operations it calls and
the texts and numbers it passes.  Each function is one action.  `Write(d, t)` is
what all functions do that make room for a text, or refuse and return the room
needed.  `String_expand_tabs` and `String_replace` rewrite the buffer from its
end, reading what they have not overwritten: they are modelled cell by cell
(`Buffer`, `Moved`, `Stored`), and an access outside the buffer sets `undefined`.
`Looked` stands for the caller taking the result, so that two equal calls in a
row are two steps.

NULL is passed where the code looks for it.  A destination may be a source as
well: a slice of a String into itself reads what it has written (`SliceOnto`), a
join into a String of its list extends it by what it has become (`JoinedOnto`,
with the results of the inner String_extend calls ignored as in the code), a split
into the String that is split goes on with its new size (`SplitOnto`), and a
partition whose suffix is the String itself leaves the part behind.  Memory that
is not there, or is not yet written, sets `undefined` and ends the behaviour; so
do the modulo by zero of slicing nothing at a negative position and the array that
`String_split` allocates and copies to without initialising it (`SplitNew`).
`String_slice` compares no bound with the size: a slice that reads behind its text
(`SliceReadsText`) sets `undefined` once there is room for it, and refuses like any
other when there is none (`SliceBehind`).

`Texts` has no capacities and no buffers.  Its step is chosen by `call`: what the
named function may do to the texts and may return, in terms of `TextOps`.  A library
that keeps strings.h, except for refusing where it may, is one of those `Texts`
allows.  Where code and header disagree (section 5) `Texts` allows both:

* set returns 0 or the old character; it and lower and upper may refuse a String that
  cannot be changed;
* a separator that ends the text, and for rpartition one that begins it, may be seen
  or not;
* a text without the separator may be one piece or be left unsplit; a split that
  fails may return the index or its negative.

Of these calls nothing is said but that no String changes other than those given to
change (`Open`): a slice of nothing or with a bound beyond the text, a split without a
separator and one that has to allocate, expand_tabs to fewer than two spaces, and a
replace that is not `Replaceable`: with words of two lengths, of occurrences that
overlap, or of more than there are.  Of a slice with a negative bound or step it is
only said that the text is made of characters of the source, or that the room
reported is that of what would be copied.

### Getopt

A char pointer is a word and a position in it.  `getopt_long` is the disjunction
of the ends of a parse, the long options (entry by entry: `LongValue`,
`LongNext`, `LongBare`, `LongFails`) and the short ones (`Flag`, `WithArgument`,
`MissingArgument`, `Unknown`).  `tabled` says whether a table of long options is passed,
`longopts` what is in it before its terminator: with NULL a long option ends the parse
(pgetopt.c:53), with nothing but the terminator it is read as short options, as
`pie/test/test_getopt.c:210-234` has it.  The loop over longopts moves `nextchar` past every
name that is a prefix of the word and does not move it back: that is `At`.
`Restart` is the caller that sets optind to 1, as `pie/test/test_getopt.c:54`
does.  `seen` records the calls of a parse.  The messages and the `longindex`
result are left out.

### Array

An element is named by its position.  `iters` holds the four numbers of each
iterator, `made` the direction the array had when it made the iterator, `visited`
what the iterator has returned.  The calls through vtables are plain calls, but
for one: the iterator that the array makes has no vtables (array.h:129), and
`contains` calls through them.  The model marks this `undefined` and stops.

### NetIface

The lookup is one action per query of the system, so that `Change`, the interfaces
coming and going, is possible between any two: the list, the search in it, and
then by name the address file (Linux) or index, size, buffer and list (the BSDs);
`linux` says which branch was compiled.  `buf` and `list` are what is allocated.
Names and addresses are values; a hardware address is a text of hex digits, colons
and LF, parsed character by character as in `mac_from_hex` (`Char_read`).  `Parse`
is a caller that parses a text of its own.  `hex_map` has 128 entries and is indexed
by a plain char (net.c:63): texts with a character outside 0 .. 127, for which it is
read out of its bounds, are assumed away (`CallsAssumption`).

## 3. Runs

| run | instance | shows |
|---|---|---|
| `mempool_bump` | three addresses, pools of 15 to 48 bytes, requests of 7 and 40, no aligned_alloc | `TypeOK`, `NoPoolLost`; `NextTilesPools`, `NextAligned`: as long as only next is called, elements tile pools that are left only when full; `ArenaSpec`: it implements Arena |
| `mempool_aligned` | one manager of 24-byte pools, requests with alignments 8 and 32 at addresses 16 bytes off 32 | `BlocksInBounds`, `BlocksDisjoint`, `BlocksAligned`, also where padding leaves no room and a pool stays behind |
| `mempool_odd` | an alignment that does not divide the pool size | violation of `ConsumedWithinMemory` (section 5) |
| `pagebuffer_text` | pages of 1, 3 and 4 bytes, at most three pages, texts of 0 to 4 bytes, every failure | `TypeOK`, `PagesWithinSize`, `InOrder`, `SwriteIsText`, `FullCountIsEveryByte`, `TextLogSpec`, and `PagesLeftFull`: a page is left full, or behind the empty page of a print whose second vsnprintf fails |
| `strings_search` | texts of up to 5 and patterns of up to 3 characters over two, all bounds, steps from -3 to 3 | `FindIsFirst`, `RfindIsLast`, `CountIsMost`, `SliceFits`: find, rfind, count and the room of slice against plain definitions |
| `strings_objects` | eight callers, each with up to three Strings of every kind and a family of operations, some with NULL arguments or one String for two purposes | `WithinCapacity`, `RoomKept`, `ReadOnlyKept`; `DefinedElsewhere`: the only calls that access what is not theirs to read are those it names, slices beyond the text among them; `TextsSpec`: the texts are as `Texts` says |
| `strings_shorter` | one String, replacing by less | violation of `ReplacedInBuffer` |
| `getopt_long` | one option of each kind, lines of up to two words of eleven and three of four | `NextcharInside`, `OptindWithinArgv`, `FollowsArgv`: the calls are the parse of the words |
| `getopt_loop` | lines of up to three words of six, NULL for the table, no unknown options | `LoopEnds` |
| `getopt_reset` | an unknown option in the first word | violation of `ResetByCaller` |
| `array_iterate` | arrays of 0 to 3 elements of two values, places -7 to 3, steps of 1, 2, -1, -2, -4 | `PointersInside`, `VisitsInSteps`, `IteratesAsGet`, `IteratesOverAll`, `InterfaceSpec`, `LoopEnds` |
| `net_lookup` | two lookups over four sets of interfaces, with hardware addresses of 0, 4, 6 and 20 bytes, changing at any time, any query failing; some two thousand address texts | `TypeOK`, `AllFreed`, `OneInterface`, `FlagsTell`, `MacKept`, `ReadsGroups` |

Why the bounds are enough:

* Three pools are the least with a tail, a pool below it and a special pool
  pushed in between; the pools are small enough that every request of the
  instance both fits and does not fit somewhere.
* Three pages are the least where a page that was filled back into is filled back
  from in its turn.  `MaxPages` stands for malloc refusing, which it may do
  before as well.
* Texts of five characters hold overlapping and adjacent occurrences of patterns
  of up to three; a scan's skip is visible from two on.  Two Strings are enough
  for a copy, three for a partition or a split of two pieces beside its source.
  `longest` cuts off calls that would make longer texts.  With lists of two a String
  can be first or second in a list it is joined to or split into.
* `FollowsArgv` compares a whole parse; an option looks at its own word and the
  next, so two words show every pair, and lines of three show what is left
  behind for a call after that.
* Three elements and steps up to 4 make a step that divides the size, one that
  does not and one beyond it; places go around twice below and one past the end.

* Two lookups are the least where a record is used again; two interfaces that swap
  their addresses are the least where a name can have gone to another.  The texts
  hold groups of none to three digits, at each place up to the seventh.

`CHECK_DEADLOCK FALSE` is said of Strings, Array and NetIface only: there an undefined
access ends the behaviour, and NetIface makes no more than `MaxCalls` calls.

Further configurations of the same modules show single divergences: see section 5.

## 4. Fairness

Safety properties need none.  `LoopEnds` of Getopt is checked under weak fairness
of `getopt_long`: the result -1 is there for a caller that calls until it is
returned, as the tests do call by call (pie/test/test_getopt.c:31-49), and
nothing else runs.  `LoopEnds` of Array is
checked under weak fairness of `NextElement`: the `for` loop of array.h:105 over
an iterator.  Neither assumes that the caller does not interfere: a reset, or an
iterator begun anew, is an allowed end of the claim.

## 5. Where code and documentation disagree

Each was found while translating the code, and TLC confirms it with the
configuration named (with `-continue` where a configuration has two).  The first
three are runs of the project.

| configuration | property | code | what is said |
|---|---|---|---|
| `MCMemPool_odd` | `ConsumedWithinMemory` | mempool.c:54 subtracts in size_t: when the padding exceeds what is left, the request is granted | mempool.c:19 "number of bytes in memory" |
| `MCGetopt_reset` | `ResetByCaller` | pgetopt.c:28 takes optind 1 for a reset; an unknown option in argv[1] leaves it 1, and the next call begins again | pgetopt.c:28 "a reset is detected" |
| `MCStrings_shorter` | `ReplacedInBuffer` | strings.c:610 moves from the end although the result is shorter, over text not read yet | strings.h:379 "Replace a substring in a string" |
| `MCStrings_unsplit` | `SplitJoins` | strings.c:668 returns 0 and fills nothing when there is no separator | strings.h:416-421: join after split gives the text |
| `MCMemPool_wide` | `LargePoolsConsumed` | mempool.c:143: a special pool has no room for padding: the request fails, the pool stays | mempool.c:142 "should consume the whole MemPool" |
| `MCMemPool_wrap` | `MemoryHoldsElement` | mempool.c:66: count * size may wrap | mempool.c:13 "must be at least min_el_size" |
| `MCPageBuffer_status` | `ZeroOnSuccess` | page_buffer.c:74 returns the byte count | page_buffer.h:15 "returns 0 on success" |
| `MCPageBuffer_default` | `DefaultSize` | page_buffer.c:30 subtracts the header | page_buffer.h:13 "sets to DEFAULT_BUFFER_SIZE" |
| `MCGetopt_abandon` | `ResetSeen` | pgetopt.c:28 does not look at optind inside a chain | test_getopt.c:54 "// reset" |
| `MCGetopt_prefix` | `ExactNames` | pgetopt.c:61 moves past a name that is "not actually a match" and not back: with entries a and b, `--ab` returns b | pgetopt.c:63 |
| `MCStrings_readonly` | `ReadOnly` | strings.c:82, :90, :116 write without asking whether they may | strings.h:42 "contents are read-only" |
| `MCStrings_results` | `CopyDone` | strings.c:461 returns the size, which is 0 for an empty source, when dest is read-only | strings.h:336 "0 on success" |
| the same | `SetTold` | strings.c:115 returns the old character | strings.h:192 "Returns 0 on success" |
| `MCStrings_tabs` | `TabsReplaced` | strings.c:488 takes an unchanged size for no tabs: with tabsize 1 they stay | strings.h:348 |
| `MCStrings_notabs` | `Defined` | strings.c:515: with tabsize 0 the write pointer overtakes the read pointer, down to str[-1] | strings.h:356 excludes no value |
| `MCStrings_longer` | `ReplaceDone` | strings.c:618 does not set the size | strings.h:379 |
| `MCStrings_count` | `Defined` | strings.c:604 goes on with the -1 of a search that found nothing | strings.h:392 "the maximum number" |
| `MCStrings_partition` | `PartitionDone` | strings.c:370 does not compare at the last place; an empty suffix is not cut off | strings.h:299 |
| the same | `RpartitionDone` | strings.c:424 takes a separator at 0 for none | strings.h:317 |
| `MCStrings_refused` | `SplitFailureTold` | strings.c:690 returns the index as it is | strings.h:411 "the negative index" |
| `MCStrings_unmade` | `SplitAllocates` | strings.c:659 returns 0 for an array without Strings before it asks for size -1; with Strings, those it allocates at :673 are copied to uninitialised | strings.h:413 "if dest->size is -1, the underlying array will be allocated" |
| `MCStrings_white` | `SplitsAtWhitespace` | strings.c:663 looks for all six characters of WHITESPACE in a row | strings.c:657 "separate on whitespace if sep is NULL" |
| `MCNetIface_asked` | `AskedObtained` | net.c:304 returns 0 when no interface has the address, whatever the flags ask for | net.c:293 "flags should be set to determine what is a successful call" |
| `MCNetIface_tunnel` | `MacWhole` | net.c:73 returns 0 for an address of four bytes, and the other two stay as they were | net.c:50 "returns 0 on success" |

## 6. Proofs

| theorem | says | assumes |
|---|---|---|
| `MemPool_proof!StructureHolds` | `[](TypeOK /\ NoPoolLost)` | nothing beyond the types of the constants |
| `MemPool_proof!BlocksSafe` | `[](BlocksInBounds /\ BlocksDisjoint)` | `NoWrap`, `AlignmentsFit` |
| `MemPool_proof!ImplementsArena` | `ArenaSpec` | the same two |
| `MemPool_proof!BlocksStayAligned` | `[]BlocksAligned` | nothing beyond the types of the constants |
| `MemPool_proof!NextFillsPools` | `[]NextTilesPools` | `NoWrap`, no aligned_alloc |
| `MemPool_proof!NextKeepsAlignment` | `[]NextAligned` | the same, and `ElementsFit` |
| `PageBuffer_proof!PagesHoldTheText` | `[](TypeOK /\ PagesWithinSize /\ InOrder)` | nothing beyond the types of the constants |
| `PageBuffer_proof!PagesAreLeftFull` | `PagesLeftFull`, with the page that a failed print leaves as it was | the same |
| `PageBuffer_proof!SwriteGivesText` | `[]SwriteIsText` | the same |
| `PageBuffer_proof!FullCountMeansAll` | `[]FullCountIsEveryByte` | the same |
| `PageBuffer_proof!ImplementsTextLog` | `TextLogSpec` | the same |
| `StringSearch_proof!FindsFirst` | `[]FindIsFirst` | the types of the constants |
| `StringSearch_proof!RfindsLast` | `[]RfindIsLast` | the same |
| `StringSearch_proof!CountsMost` | `[]CountIsMost` | the same |
| `StringSearch_proof!SlicesFit` | `[]SliceFits` | the same |
| `Strings_proof!CapacitySuffices` | `[]WithinCapacity` | that a caller's own Strings are well formed, and minimum and factor of growth are positive |
| `Strings_proof!RoomStays` | `RoomKept` | the same |
| `Strings_proof!LiteralsStay` | `ReadOnlyKept` | the same |
| `Strings_proof!StaysInside` | `[][Asks]_vars => []DefinedElsewhere` | the same |
| `Strings_proof!CarefulStaysInside` | `[]DefinedElsewhere` | the same, and `Careful` |
| `Strings_proof!TextsPromised` | `TextsSpec` | the same |
| `Getopt_proof!OptindStaysWithin` | `[]OptindWithinArgv` | the types, that no name of a long option is empty and that NULL has no entries |
| `Getopt_proof!NextcharStaysInside` | `[]NextcharInside` | the same, and that the caller does not start over in a chain |
| `Getopt_proof!CallsFollowArgv` | `[]FollowsArgv` | the same, `ResultsTold` and `NamesSpelled` |
| `Array_proof!IteratorsStayInside` | `[]PointersInside` | the types, and that NULL is no value and no iterator |
| `Array_proof!IteratorsStep` | `[]VisitsInSteps` | the same |
| `Array_proof!IteratorsFollowGet` | `[](IteratesAsGet /\ IteratesOverAll)` | the same |
| `Array_proof!ImplementsSequence` | `InterfaceSpec` | the same |
| `NetIface_proof!LookupFreesAll` | `[]AllFreed` | the types of the constants |
| `NetIface_proof!FlagsAreTrue` | `[]FlagsTell` | the same |
| `NetIface_proof!StaysTyped` | `[]TypeOK` | the same, and that three characters for each byte of a hardware address can be counted |
| `NetIface_proof!FailureKeepsMac` | `[]MacKept` | the same |
| `NetIface_proof!RecordIsOneInterface` | `[]OneInterface` | the same |
| `NetIface_proof!ReadsWhatIsWritten` | `[]ReadsGroups` | the types of the constants; that texts have characters of `hex_map` only |

`NoWrap` says that no pool is larger than a size_t can say, `AlignmentsFit` that
the alignments passed to aligned_alloc divide the addresses malloc returns, the
padded header and the pools' sizes.  The code checks neither; without the first
`MCMemPool_wrap`, and without the second `MCMemPool_odd`, shows what happens.
`ElementsFit` says that the alignment given to new divides the addresses malloc
returns and the size of an element, as that of a C type does.

`Asks` says of each call, and `Careful` of what a caller may call at all, that no tab
is expanded to nothing, and that where there is something to replace no more of it is
to be replaced than there is, and by nothing shorter.  Without these
`MCStrings_notabs` and `MCStrings_count` show what happens; a replacement by something
shorter writes over text it has yet to search (strings.c:610, `MCStrings_shorter`), so
that the number of occurrences says nothing of what it finds.  `ResultsTold` says that
no option is returned as `?` or as -1, which mean something else; `NamesSpelled` that a
word which begins with the name of a long option spells that option or one before it in
the table, without which `MCGetopt_prefix` shows another option returned.  TLC evaluates
`Careful` for the callers of `strings_objects`, and the other two for every table but
that of `MCGetopt_prefix`, so that none is assumed in vain.  None of them is about the
bounds of a slice: `DefinedElsewhere` names the slices that read what is not there.

**StructureHolds.**  `NoPoolLost` says that the pools form one chain from `Top`
(the tail, or the loop's pointer during del) that leaves none out.  The chain is
stated without recursion: links stay inside, no two pools share a successor, and
every set that holds the top and its members' successors holds all.  With
`TypeOK` this is inductive as it stands.  The lemmas ChainPush, ChainKeep,
ChainInsert and ChainPop say what the four things the code does to the chain (a
new tail, a bump, a special pool below the tail, one turn of del's loop) do to any
chain, and each action is one of them.

**BlocksSafe.**  Blocks in bounds is not inductive: one needs to know where in its
pool a block lies.  The strengthening says that each block lies between its
pool's memory and the bytes consumed, that these are at most memory_size, that
the grant covers the header, the padding and memory_size, and that grants of
different pools are apart.  A new block begins at or behind what was consumed, so
it is apart from all others.  `NoWrap` turns size_t sums into sums, and
`AlignmentsFit` is what makes the padding a part of what is left, so that the
difference in mempool.c:54 does not wrap.

**ImplementsArena.**  Every step adds at most one block, apart from the others, or
takes all: from BlocksSafe's invariant.

**BlocksStayAligned, NextFillsPools, NextKeepsAlignment.**  The first needs only the
types: the padding of aligned_alloc is computed from the address it is added to, so
that the sum is a multiple in whichever pool it ends up.  For the other two the
invariant (`TileInv`) says of every pool of a manager used through next only that
its blocks are its elements from 0 up to as many as have been handed out, that the
bytes consumed are those, and that a pool below the tail has no room for one more.
That next is used alone is part of the state (`NextOnly`), and of the invariant
only as long as it is.  Alignment is then a sum of multiples: the address of the
pool, the padded header (`PaddedHeaderMultiple`) and so many elements.

**PagesHoldTheText.**  `InOrder` is stated page by page, each page running on from
the last byte of the one before, so that a step that touches the newest two pages
leaves the claim about the others alone.  Inductive with `TypeOK` and
`PagesWithinSize`; the step that matters is `PrintNewPage`, where the backfill
moves exactly the room of the old page.

**PagesAreLeftFull.**  A step of `PrintNewPage` leaves the old top at exactly its
size, because the text did not fit there and the backfill moves what does.  The one
other step that adds a page is `PrintAgainError`: it fails, the old page keeps its
room for good and an empty one is the top.

**SwriteGivesText, FullCountMeansAll, ImplementsTextLog.**  These are about the
pages taken together: swrite concatenates them by recursion, fwrite and write add
up counts over them, and TextLog has only the concatenation.  What a concatenation
of any number of pages is needs induction over their number.  The prover cannot
instantiate a theorem with an operator as parameter, so `DataInduction` states
induction with a set in the operator's place: a set of numbers that is not empty
has a least member (`LeastOfSet`, from the well-foundedness of strict inclusion of
finite sets), and a set that holds the first number of an interval and with each its
successor holds all (`IntervalInduction`).  A recursive function is shown to exist
by induction on where it is defined up to (`RecursionExists`, `FlattenExists`), and
then to be what is claimed (`Concatenates`).

**FindsFirst, RfindsLast, CountsMost, SlicesFit.**  The state of that run is only the
question asked, so its invariant (`Asked`) is that the texts are texts and the bounds
at most the length; the theorems are about what the functions return, and
`StringSearch_proof` states them for any texts and bounds (`FindIs`, `RfindIs`,
`CountIs`, `SliceIsFrom`).  A loop is a recursive function of where it is.  Of each
loop the proof names what it should return from there (the first occurrence from p
on, the last one that ends by p, the most that fit from p on, the characters still to
come), shows that this solves the loop's equation, so that the loop is defined, and
by induction on the way it has left that every solution agrees with it.  For find and
rfind the step is that what the scan skips begins no occurrence.  For count it is
that the greedy choice stays ahead (`FirstIsChosen`): any choice without its first
member lies behind the first occurrence, so that taking that one instead loses
nothing.  For slice it is the arithmetic of the truncating division
(`StepsBelow`): the k-th step is still before the end exactly when k is less
than the size asked for.

**CapacitySuffices, RoomStays, LiteralsStay.**  The invariant is `Shaped`:
`WithinCapacity`, the types, and that Strings from String_new, unlike the caller's
own, may be freed and have nothing before they are made and after they are deleted;
without that, a String_new could drop an array of the caller's.  Every call but
those that make or free is shown to be `Steady` (well formed before and after, a
caller's capacity kept, an allocated one not smaller), and every call but lower,
upper and set to be `Sparing` (read-only Strings stay read-only and keep their
characters).  For most calls both follow from what `Write` and `Written` do.  The
others loop over what they change, and are recursive functions in the model: slice
onto itself over the characters, join and split over the list, expand_tabs and
replace over the buffer.  That such a function exists, up to any length, is
`RecursionFrom`; that it stays where each step keeps it is `StaysIn`.  What the
steps keep is: for join onto one of its list, a String grown from the one at the
start; for split, that each piece filled in fits where it goes; for
expand_tabs and replace, a buffer of unchanged length with characters in every cell,
until an access outside ends the call.  A replacement that leaves nothing is the
case that needs more: it passes the check for room even of a read-only text, and
the invariant adds that nothing has been written by then.  How far the two read and
write is bounded by what is searched (`RfindIsIn`, `CountIsNat`), for any text.
`StringSearch_proof`, which `Strings_proof` extends for those lemmas, brings the
constants of `MCStringSearch` with it; nothing about Strings depends on them.

**OptindStaysWithin, NextcharStaysInside.**  For optind the invariant adds that it is
at a word, and not at the NULL behind the last, whenever a call is to read an option:
inside a chain, and where nextchar is left at a dash.  It holds for every caller.
For nextchar the invariant adds that it is in the word that optind says whenever an
option is read there; a caller that starts over inside a chain breaks it, and
`MCGetopt_abandon` shows how.  The comparisons with the long options move nextchar
past each name that is a prefix (`At`, a recursive function of the number of entries
compared): by induction on that number the pointer stays in its word, because what
it moves past has been compared there, up to the NUL and never beyond.

**CallsFollowArgv.**  `Parse` goes over the line from its first word on, and is the
solution of an equation; that it has one, and only one, is shown by induction on the
words that are left.  The invariant says, of a caller that has not reset, that what has
been returned, followed by what is still to come from nextchar on, is `Parse`.  What is
to come from inside a chain is the rest of that word's options; from between words it
is the equation at optind.  Each way a call can end is then one unfolding of the
equation: an option of a chain, a long one by the entry that its word spells, an
argument in the word or in the next, a `--`, a word that is no option, the end of the
line.  The comparisons with the long options are recursive in the model, and
`NamesSpelled` is what makes the entry they stop at the one that is spelled: no
comparison before it has moved nextchar.

**IteratorsStep, IteratorsStayInside.**  The invariant says of every iterator that
its bounds are the array's, that its place is start plus a whole number of steps,
as many as it has returned, and before stop unless it is done.  A step cut short at
the end (array.h:76-88) is what makes the last place of it come out; the products of
number and step are kept as terms (`TimesNext`).

**IteratorsFollowGet, ImplementsSequence.**  At place k of the iterator the array
made is what `At(k)` was when it was made: a reversal turns one into the other.  For
the interface, that C's truncating division brings a place below 0 around to where
a circular place is (`OneQuotient`, `WrappedIsPlace`).

**LookupFreesAll, FlagsAreTrue.**  The invariants say at each query what is held, and
what the record has from the entry found; every action keeps them, whatever `Change`
does in between.

**StaysTyped, FailureKeepsMac, RecordIsOneInterface.**  To the types is added that the
list searched is one the system has had; to `MacKept`, at which queries the address
is still the caller's (`Mac_as_given`); to `OneInterface`, that until something
changes the entry found is on the system's list and its name has a hardware address
(`Same`).  The parser of mac_from_hex goes over characters, and what it has after k
of them is for any text a reading of at most six bytes (`Reading`), and for the
address file of six bytes exactly `FileAt`: the bytes before the k-th character, the
first digit of the next, and the caller's bytes behind.

**ReadsWhatIsWritten.**  Groups and colons are joined by recursion over the groups, and
the value of a group is one over its digits, so each is named by the function that
solves it, along with the place in the text at which a group begins.  The parser, after
k characters, has the groups before that place stored and in its running value that of
the digits read of the group it is in, until a group that is empty, too long or too big
ends it.  Read to its end, the text gives what `ReadsGroups` says, whichever that is.

**StaysInside, CarefulStaysInside.**  Both calls write from the end of the longer text
down, and read before where they write; the invariant of each loop is that what is
unread lies before what has been written, and that between the two is room for exactly
what is still to grow.  For expand_tabs that is the tabs among the characters unread
(`TabsToGo`).  For replace it is the occurrences: how many of them rfind finds one
after another, from the right, must be those that count counts from the left.
`CountIsLeft` shows that both are the most that fit, by the argument of
`FirstIsChosen` turned around.  As nothing unread is written over, the buffer still
holds the text where it is searched, so that the search finds the occurrences of the
text, and `Asks` says that there are enough (`ReplacesToGo`).

**TextsPromised.**  The mapping is `Shown`, the text of every String.  The invariant is
`Shaped`, and that nothing is returned between calls (`Answered`): a String_new that
never returns, and a split that crashes, leave `ret` as it was, which `Texts` takes for
0.  There is one lemma for each call.  Where the call ends in `Write` it is an `Edit` of
what the code computes (`WriteEdits`), and what is left is that this is what `Texts`
says: that a scan from an end stops at the first character to stay (strip), that a
position below 0 leads where C's division takes it (get, set), that the search stops at
the occurrence named (partition).  The other calls need the closed form of a loop, in
code or in `Texts`:

* slice: as many characters as the positions from start in steps, also when the String
  is read while it is written (`SliceSlices`);
* expand_tabs: what is in the buffer behind the write pointer is the expansion of the
  characters read, from the end on, and what is before the read pointer is the text
  still, because two or more spaces keep the writes behind the reads
  (`ExpandTabsExpands`);
* join: of no text, of one and of two, into a String that may be any of them
  (`JoinedOnto`, `JoinSays`);
* split: `Texts` has the pieces by a recursion over all of the text and joins those for
  which there is no String, the code stops at the number of Strings.  For any text, all
  pieces joined by the separator are the text again (`PiecesJoin`, induction on where
  the piece begins); hence the last piece is all that is left, as it is in the code
  (`PiecesFew`, `CutsFew`), and Strings that cannot be changed lose empty pieces only
  (`FilledShows`);
* replace: the code goes from the right and `Texts` from the left; where no two
  occurrences overlap both take all of them, and the buffer before the place reached
  is the text still (`ReplaceReplaces`).

The calls that `Texts` leaves open are shown to change no other String
(`LeavesOpen`).

Model-checked only:

* the liveness properties `LoopEnds` of Getopt and of Array: beyond the prover.

## 7. What is not modelled

* `allocators/`: three functions passed through to malloc, realloc and free; the
  block allocator is unfinished and does not compile.
* `pie/sys/psocket.c`: on Linux it is compiled to nothing; on Windows `sendmsg`
  uses names that are not declared, and there is no `recvmsg`.
* `pie/punistd.c` but for getopt: commented out.
* `containers/mutsequence.h`, `stack.h`, `Utils/`: declarations and macros, which
  nothing implements.
* `Complex/Complex.h`: floating-point macros without state.
* `fft/`: timing of an `fft.c` that is not in the repository.

Of the modelled components: the contents of memory blocks; `String_hash`, on whose
value nothing depends; a separator that is also the destination; texts given to `mac_from_hex`
with characters outside 0 .. 127; the messages and
`longindex` of getopt; writes of a caller through the pointers that `get` and
`next` return; the printing of a network record, `comp_ifaddrs_iface`, which nothing
calls, and `subnet_mask_from_addr_broadcast`, which is unfinished.

## 8. Plan

Done: all components that keep state, each model-checked, and proofs about each of
them; every safety property of a passing run is also proved.  What is left is what
`Texts` says nothing of: a replace of occurrences that overlap, of which the code takes
those found from the right, is promised by strings.h as well.

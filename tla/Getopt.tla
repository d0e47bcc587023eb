-------------------------------- MODULE Getopt --------------------------------
(***************************************************************************)
(* getopt and getopt_long of src/pie/pgetopt.c and src/pie/punistd.c.      *)
(*                                                                         *)
(* One call returns one option.  Between calls the place in the command    *)
(* line is kept in the globals of unistd.h, which the caller may write,    *)
(* and in two statics it cannot see: nextchar and in_chain.                *)
(*                                                                         *)
(* A word of the command line is a sequence of characters, a char pointer  *)
(* into it a record [word, pos], where pos may also be that of the NUL.    *)
(* argv[1] .. argv[argc - 1] are the words, argv[argc] is NULL.  What is   *)
(* printed on errors is left out.                                          *)
(***************************************************************************)
EXTENDS Integers, Sequences, SequencesExt

CONSTANTS
    ArgVs,      (* command lines, without argv[0]                            *)
    optstring,  (* the short options: a sequence of characters               *)
    tabled,     (* is a table of long options passed?  getopt passes NULL    *)
    longopts,   (* the entries of the table before its terminator: a         *)
                (* sequence of LongOption                                    *)
    Abandons    (* may the caller start over in the middle of a word?        *)

HasArg == {"no_argument", "required_argument", "optional_argument", "invalid"}

LongOption == [name : Seq(STRING), has_arg : HasArg, flag : BOOLEAN, val : STRING]

(* A word ends at its NUL, and has none before.                             *)
IsString(word) == \A k \in DOMAIN word : word[k] # ""

ASSUME ConstantsAssumption ==
    /\ ArgVs \subseteq Seq(Seq(STRING))
    /\ \A line \in ArgVs : \A w \in DOMAIN line : IsString(line[w])
    /\ optstring \in Seq(STRING) /\ \A i \in DOMAIN optstring : optstring[i] # ""
    /\ tabled \in BOOLEAN
    /\ longopts \in Seq(LongOption) /\ (~ tabled => longopts = <<>>)
    /\ \A i \in DOMAIN longopts : longopts[i].name # <<>>
    /\ Abandons \in BOOLEAN

VARIABLES
    argv,       (* the command line being parsed                             *)
    optind,     (* the globals                                               *)
    optarg,
    optopt,
    in_chain,   (* the statics                                               *)
    nextchar,
    result,     (* what the last call returned                               *)
    flags,      (* values stored through the flag pointers of longopts       *)
    seen,       (* the calls since the parse began, up to its end or error   *)
    fresh       (* has the caller just set optind to 1?                      *)

vars == <<argv, optind, optarg, optopt, in_chain, nextchar, result, flags, seen,
          fresh>>

NULL == [word |-> 0, pos |-> 0]
NUL  == ""
End  == "-1"

argc == Len(argv) + 1

(* argv[i] *)
Arg(i) == IF i < argc THEN [word |-> i, pos |-> 1] ELSE NULL

Skip(p, n) == [p EXCEPT !.pos = @ + n]

Char(p) == IF p.pos > Len(argv[p.word]) THEN NUL ELSE argv[p.word][p.pos]

(* The string at p. *)
Text(p) == IF p = NULL THEN <<>> ELSE SubSeq(argv[p.word], p.pos, Len(argv[p.word]))

-----------------------------------------------------------------------------
(* What a call returns, and the caller's record of it *)

Call(opt, arg, long) == [opt |-> opt, arg |-> arg, long |-> long, optind |-> 0]

Stop(i) == [opt |-> End, arg |-> <<>>, long |-> 0, optind |-> i]

Bad == Call("?", <<>>, 0)

Ended(calls) == calls # <<>> /\ Last(calls).opt \in {End, "?"}

Returns(call) ==
    /\ result' = call.opt
    /\ seen'   = IF Ended(seen) THEN seen ELSE Append(seen, call)
    /\ fresh'  = FALSE
    /\ UNCHANGED argv

Stays == UNCHANGED <<optarg, optopt, flags>>

(* Where the call starts reading: optind 1 outside a chain is a reset.      *)
Start == IF optind = 1 /\ ~ in_chain THEN Arg(1) ELSE nextchar

-----------------------------------------------------------------------------
(* The ends of a parse *)

EndOfArgv ==
    /\ Start = NULL
    /\ nextchar' = NULL
    /\ Returns(Stop(optind))
    /\ Stays
    /\ UNCHANGED <<optind, in_chain>>

AtWord == Start # NULL /\ ~ in_chain

Operand ==
    /\ AtWord
    /\ Char(Start) # "-"
    /\ nextchar' = Start
    /\ Returns(Stop(optind))
    /\ Stays
    /\ UNCHANGED <<optind, in_chain>>

Dashes(n) == AtWord /\ \A k \in 0 .. n - 1 : Char(Skip(Start, k)) = "-"

LoneDash ==
    /\ Dashes(1)
    /\ Char(Skip(Start, 1)) = NUL
    /\ nextchar' = Skip(Start, 1)
    /\ Returns(Stop(optind))
    /\ Stays
    /\ UNCHANGED <<optind, in_chain>>

Terminator ==
    /\ Dashes(2)
    /\ Char(Skip(Start, 2)) = NUL
    /\ nextchar' = Skip(Start, 2)
    /\ optind' = optind + 1
    /\ Returns(Stop(optind + 1))
    /\ Stays
    /\ UNCHANGED in_chain

(* A long option, but the caller passed no table (getopt). *)
NoTable ==
    /\ Dashes(2)
    /\ Char(Skip(Start, 2)) # NUL
    /\ ~ tabled
    /\ nextchar' = Skip(Start, 2)
    /\ Returns(Stop(optind))
    /\ Stays
    /\ UNCHANGED <<optind, in_chain>>

-----------------------------------------------------------------------------
(* Long options *)

AtLong == Dashes(2) /\ Char(Skip(Start, 2)) # NUL /\ tabled

(* Where nextchar points when the loop over longopts tests entry i: a name  *)
(* that is a prefix but not a match moves it past that prefix.              *)
At[i \in 1 .. Len(longopts) + 1] ==
    IF i = 1 THEN Skip(Start, 2)
    ELSE LET name == longopts[i - 1].name
         IN  IF IsPrefix(name, Text(At[i - 1])) THEN Skip(At[i - 1], Len(name))
                                                ELSE At[i - 1]

(* Where it points past the name of entry i. *)
Past(i) == Skip(At[i], Len(longopts[i].name))

Matches(i) ==
    /\ IsPrefix(longopts[i].name, Text(At[i]))
    /\ \/ Char(Past(i)) = NUL
       \/ Char(Past(i)) = "=" /\ longopts[i].has_arg # "no_argument"

IsEntry(i) == Matches(i) /\ \A k \in 1 .. i - 1 : ~ Matches(k)

(* Entry i is returned with the argument at arg, having used up n words.    *)
LongReturns(i, arg, n) ==
    /\ optarg'   = arg
    /\ optind'   = optind + n
    /\ nextchar' = Arg(optind + n)
    /\ Returns(Call(IF longopts[i].flag THEN "0" ELSE longopts[i].val,
                    Text(arg), i))
    /\ flags' = IF longopts[i].flag THEN flags \cup {longopts[i].val} ELSE flags
    /\ UNCHANGED <<optopt, in_chain>>

(* The value after "=". *)
LongValue(i) ==
    /\ Char(Past(i)) = "="
    /\ longopts[i].has_arg \in {"required_argument", "optional_argument"}
    /\ LongReturns(i, Skip(Past(i), 1), 1)

(* Wrong: a required argument is taken from beyond the last word.           *)
TakesNext_wrong_bound(i) ==
    /\ Char(Past(i)) = NUL
    /\ \/ longopts[i].has_arg = "required_argument"
       \/ /\ longopts[i].has_arg = "optional_argument"
          /\ optind + 1 < argc
          /\ Char(Arg(optind + 1)) # "-"

(* Wrong: an optional argument may be the next option.                      *)
TakesNext_wrong_option(i) ==
    /\ Char(Past(i)) = NUL
    /\ optind + 1 < argc
    /\ longopts[i].has_arg \in {"required_argument", "optional_argument"}

(* Does an option at its end take the next word as its argument?            *)
TakesNext(i) ==
    /\ Char(Past(i)) = NUL
    /\ optind + 1 < argc
    /\ \/ longopts[i].has_arg = "required_argument"
       \/ /\ longopts[i].has_arg = "optional_argument"
          /\ Char(Arg(optind + 1)) # "-"

LongNext(i) ==
    /\ TakesNext(i)
    /\ LongReturns(i, Arg(optind + 1), 2)

LongBare(i) ==
    /\ Char(Past(i)) = NUL
    /\ longopts[i].has_arg \in {"no_argument", "optional_argument"}
    /\ ~ TakesNext(i)
    /\ LongReturns(i, NULL, 1)

(* A missing argument, or a has_arg that is none of the three: -1.          *)
LongFails(i) ==
    /\ \/ longopts[i].has_arg = "invalid"
       \/ /\ longopts[i].has_arg = "required_argument"
          /\ Char(Past(i)) = NUL
          /\ optind + 1 >= argc
    /\ optind'   = optind + 1
    /\ nextchar' = Past(i)
    /\ Returns(Stop(optind + 1))
    /\ Stays
    /\ UNCHANGED in_chain

Long(i) ==
    /\ AtLong
    /\ IsEntry(i)
    /\ LongValue(i) \/ LongNext(i) \/ LongBare(i) \/ LongFails(i)

-----------------------------------------------------------------------------
(* Short options *)

(* A long option that no entry matches, as any is in a table that has only  *)
(* its terminator, is read as short options, from where the loop over       *)
(* longopts has left nextchar.                                              *)
NoEntry == AtLong /\ \A i \in 1 .. Len(longopts) : ~ Matches(i)

AtShort ==
    \/ in_chain
    \/ Dashes(1) /\ Char(Skip(Start, 1)) \notin {"-", NUL}
    \/ NoEntry

ShortAt ==
    IF in_chain THEN nextchar
    ELSE IF NoEntry THEN At[Len(longopts) + 1]
    ELSE Skip(Start, 1)

Options == {k \in 1 .. Len(optstring) : optstring[k] # ":"}

Known(c) == \E k \in Options : optstring[k] = c

(* Is the first entry for c followed by a colon?                            *)
Takes(c) ==
    \E k \in Options :
        /\ optstring[k] = c
        /\ \A l \in Options : l < k => optstring[l] # c
        /\ k < Len(optstring) /\ optstring[k + 1] = ":"

(* Wrong: the chain goes on at the end of the word.                         *)
Flag_wrong_end ==
    /\ AtShort
    /\ Known(Char(ShortAt)) /\ ~ Takes(Char(ShortAt))
    /\ Returns(Call(Char(ShortAt), <<>>, 0))
    /\ Stays
    /\ in_chain' = TRUE
    /\ nextchar' = Skip(ShortAt, 1)
    /\ UNCHANGED optind

Flag ==
    /\ AtShort
    /\ Known(Char(ShortAt)) /\ ~ Takes(Char(ShortAt))
    /\ Returns(Call(Char(ShortAt), <<>>, 0))
    /\ Stays
    /\ LET p == Skip(ShortAt, 1)
       IN  \/ /\ Char(p) # NUL
              /\ in_chain' = TRUE
              /\ nextchar' = p
              /\ UNCHANGED optind
           \/ /\ Char(p) = NUL
              /\ in_chain' = FALSE
              /\ optind'   = optind + 1
              /\ nextchar' = Arg(optind + 1)

(* The argument is the rest of the word, or the next word.                  *)
WithArgument ==
    /\ AtShort
    /\ Takes(Char(ShortAt))
    /\ in_chain' = FALSE
    /\ LET p == Skip(ShortAt, 1)
       IN  \/ /\ Char(p) # NUL
              /\ optarg'   = p
              /\ optind'   = optind + 1
              /\ nextchar' = Arg(optind + 1)
           \/ /\ Char(p) = NUL
              /\ optind + 1 < argc
              /\ optarg'   = Arg(optind + 1)
              /\ optind'   = optind + 2
              /\ nextchar' = Arg(optind + 2)
    /\ Returns(Call(Char(ShortAt), Text(optarg'), 0))
    /\ UNCHANGED <<optopt, flags>>

(* Wrong: the word with the missing argument is not passed.                 *)
MissingArgument_wrong ==
    /\ AtShort
    /\ Takes(Char(ShortAt))
    /\ Char(Skip(ShortAt, 1)) = NUL
    /\ optind + 1 >= argc
    /\ in_chain' = FALSE
    /\ optopt'   = Char(ShortAt)
    /\ nextchar' = Skip(ShortAt, 1)
    /\ Returns(Bad)
    /\ UNCHANGED <<optind, optarg, flags>>

MissingArgument ==
    /\ AtShort
    /\ Takes(Char(ShortAt))
    /\ Char(Skip(ShortAt, 1)) = NUL
    /\ optind + 1 >= argc
    /\ in_chain' = FALSE
    /\ optind'   = optind + 1
    /\ optopt'   = Char(ShortAt)
    /\ nextchar' = Skip(ShortAt, 1)
    /\ Returns(Bad)
    /\ UNCHANGED <<optarg, flags>>

(* nextchar stays on the character, and optind on its word.                 *)
Unknown ==
    /\ AtShort
    /\ ~ Known(Char(ShortAt))
    /\ in_chain' = FALSE
    /\ optopt'   = Char(ShortAt)
    /\ nextchar' = ShortAt
    /\ Returns(Bad)
    /\ UNCHANGED <<optind, optarg, flags>>

getopt_long ==
    \/ EndOfArgv
    \/ Operand
    \/ LoneDash
    \/ Terminator
    \/ NoTable
    \/ \E i \in 1 .. Len(longopts) : Long(i)
    \/ Flag
    \/ WithArgument
    \/ MissingArgument
    \/ Unknown

(* The caller sets optind to 1 to parse again, the same command line or     *)
(* another; it may only change the words when no pointer into them is kept. *)
Restart ==
    /\ ~ fresh
    /\ in_chain => Abandons
    /\ optind' = 1
    /\ argv'  \in IF in_chain THEN {argv} ELSE ArgVs
    /\ seen'  = <<>>
    /\ fresh' = TRUE
    /\ UNCHANGED <<optarg, optopt, in_chain, nextchar, result, flags>>

-----------------------------------------------------------------------------
Init ==
    /\ argv \in ArgVs
    /\ optind = 1 /\ optarg = NULL /\ optopt = NUL
    /\ in_chain = FALSE /\ nextchar = NULL
    /\ result = "none" /\ flags = {}
    /\ seen = <<>> /\ fresh = TRUE

Next == getopt_long \/ Restart

Spec == Init /\ [][Next]_vars

(* The caller calls until it is told that the options have ended.           *)
LoopSpec == Spec /\ WF_vars(getopt_long)

-----------------------------------------------------------------------------
(* What a parse ought to give, as a function of the command line alone.     *)

(* What word w of the line gives: its calls, and the word to go on with, 0  *)
(* at the end.                                                              *)
Then(calls, next) == [calls |-> calls, next |-> next]

IsOption(line, w) == w <= Len(line) /\ Len(line[w]) > 1 /\ line[w][1] = "-"

IsLong(line, w) == IsOption(line, w) /\ line[w][2] = "-"

(* An option that ends its word and needs an argument takes the next word.  *)
NextWord(line, call, missing, w) ==
    IF w < Len(line) THEN Then(<< [call EXCEPT !.arg = line[w + 1]] >>, w + 2)
                     ELSE Then(<< missing >>, 0)

(* The characters of a word from first on, up to one that is unknown or     *)
(* takes an argument.                                                       *)
Plain(word, first, k) == [n \in 1 .. k - first |-> Call(word[first + n - 1], <<>>, 0)]

ShortWord(line, w, first) ==
    LET word  == line[w]
        stops == {j \in first .. Len(word) : ~ Known(word[j]) \/ Takes(word[j])}
        j     == CHOOSE k \in stops : \A l \in stops : k <= l
        call  == Call(word[j], SubSeq(word, j + 1, Len(word)), 0)
        last  == NextWord(line, call, Bad, w)
    IN  IF stops = {} THEN Then(Plain(word, first, Len(word) + 1), w + 1)
        ELSE IF ~ Known(word[j]) THEN Then(Append(Plain(word, first, j), Bad), 0)
        ELSE IF j < Len(word) THEN Then(Append(Plain(word, first, j), call), w + 1)
        ELSE Then(Plain(word, first, j) \o last.calls, last.next)

(* The entries whose name, or whose name before a value, a long word spells.*)
Name(word) == SubSeq(word, 3, Len(word))

Spelled(word) ==
    {i \in 1 .. Len(longopts) :
        \/ Name(word) = longopts[i].name
        \/ /\ longopts[i].has_arg # "no_argument"
           /\ IsPrefix(Append(longopts[i].name, "="), Name(word))}

LongWord(line, w) ==
    LET word  == line[w]
        i     == CHOOSE k \in Spelled(word) : \A l \in Spelled(word) : k <= l
        long  == longopts[i]
        value == SubSeq(word, Len(long.name) + 4, Len(word))
        call  == Call(IF long.flag THEN "0" ELSE long.val, value, i)
    IN  IF long.has_arg = "invalid" THEN Then(<< Stop(w + 1) >>, 0)
        ELSE IF Name(word) # long.name THEN Then(<< call >>, w + 1)
        ELSE IF \/ long.has_arg = "required_argument"
                \/ /\ long.has_arg = "optional_argument"
                   /\ w < Len(line) /\ ~ IsPrefix(<<"-">>, line[w + 1])
             THEN NextWord(line, call, Stop(w + 1), w)
        ELSE Then(<< call >>, w + 1)

Word(line, w) ==
    IF ~ IsOption(line, w) THEN Then(<< Stop(w) >>, 0)
    ELSE IF line[w] = <<"-", "-">> THEN Then(<< Stop(w + 1) >>, 0)
    ELSE IF ~ IsLong(line, w) THEN ShortWord(line, w, 2)
    ELSE IF ~ tabled THEN Then(<< Stop(w) >>, 0)
    ELSE IF Spelled(line[w]) = {} THEN ShortWord(line, w, 3)
    ELSE LongWord(line, w)

Parse(line) ==
    LET from[w \in 1 .. Len(line) + 1] ==
            LET this == Word(line, w)
            IN  IF this.next = 0 THEN this.calls ELSE this.calls \o from[this.next]
    IN  from[1]

(* What the caller's options and the command lines have to be like for the  *)
(* code to follow the command line: no option is returned as what tells the *)
(* end of a parse,                                                          *)
ResultsTold ==
    /\ \A k \in DOMAIN optstring : optstring[k] \notin {End, "?"}
    /\ \A i \in DOMAIN longopts : longopts[i].val \notin {End, "?"}

(* and a word never begins with the name of an entry without spelling that  *)
(* entry or one before it.                                                  *)
NamesSpelled ==
    \A line \in ArgVs : \A w \in DOMAIN line : \A i \in 1 .. Len(longopts) :
        IsPrefix(<<"-", "-">> \o longopts[i].name, line[w])
            => \E k \in Spelled(line[w]) : k <= i

-----------------------------------------------------------------------------
(* Properties *)

Pointer == [word : 1 .. Len(argv), pos : Nat] \cup {NULL}

(* The state has its types.                                                 *)
TypeOK ==
    /\ argv \in ArgVs
    /\ optind \in Nat
    /\ optarg \in [word : Nat, pos : Nat]
    /\ nextchar \in Pointer \/ fresh
    /\ in_chain \in BOOLEAN
    /\ optopt \in STRING /\ result \in STRING
    /\ flags \subseteq {longopts[i].val : i \in DOMAIN longopts}

(* The static pointer never leaves the string it is in, and inside a chain  *)
(* it is at a character of the word optind says is being read: neither a    *)
(* chain, nor a skipped long name, nor an error carries it past a NUL.      *)
NextcharInside ==
    /\ nextchar # NULL /\ ~ fresh =>
          nextchar.pos \in 1 .. Len(argv[nextchar.word]) + 1
    /\ in_chain /\ ~ fresh =>
          /\ nextchar.word = optind
          /\ nextchar.pos <= Len(argv[optind])

(* argv[optind] may always be read: options whose argument is the last word *)
(* leave optind at the terminating NULL, never past it, and "--" and failed *)
(* calls do not move it further.                                            *)
OptindWithinArgv == optind \in 1 .. argc

(* The calls of a parse return what the command line says, option by option *)
(* and argument by argument, end where it ends and leave optind at the      *)
(* first operand (pie/test/test_getopt.c:31-50), also after the caller has started   *)
(* over with another command line; nothing is claimed past an error.        *)
FollowsArgv == IsPrefix(seen, Parse(argv)) /\ (Ended(seen) => seen = Parse(argv))

(* A caller that loops until -1 gets there: each call that returns an       *)
(* option moves on.                                                         *)
LoopEnds == result # End ~> (result = End \/ fresh)

(* The caller's reset (pie/test/test_getopt.c:54-55) is seen: the next call begins   *)
(* at argv[1].                                                              *)
ResetSeen == [][getopt_long /\ fresh => Start = Arg(1)]_vars

(* pgetopt.c:28: what is taken for a reset is one, so a caller that goes on *)
(* calling does not begin again at argv[1] unless it has set optind to 1.   *)
ResetByCaller ==
    [][getopt_long /\ optind = 1 /\ ~ in_chain => fresh \/ result = End]_vars

(* pgetopt.c:63: a word that is not actually a match for an entry does not  *)
(* return it: a long option is returned only where its name is spelled out. *)
ExactNames ==
    \A k \in 1 .. Len(seen) :
        seen[k].long # 0 => \E w \in 1 .. Len(argv) : seen[k].long \in Spelled(argv[w])

=============================================================================

------------------------------ MODULE Getopt_proof ------------------------------
(* Theorems about Getopt, for every value of its constants.                 *)
EXTENDS Getopt, DataInduction

-----------------------------------------------------------------------------
(* Pointers into the command line *)

Ptr == [word : Nat, pos : Nat]

(* A pointer to a character of a word, or to its NUL.                       *)
Within(p) == p.word \in 1 .. Len(argv) /\ p.pos \in 1 .. Len(argv[p.word]) + 1

LEMMA ArgvFacts ==
    ASSUME argv \in ArgVs
    PROVE  /\ argv \in Seq(Seq(STRING)) /\ Len(argv) \in Nat /\ argc \in Nat /\ argc = Len(argv) + 1
           /\ \A w \in 1 .. Len(argv) : argv[w] \in Seq(STRING) /\ Len(argv[w]) \in Nat
  <1>1. argv \in Seq(Seq(STRING))
    BY ConstantsAssumption, Zenon
  <1>2. Len(argv) \in Nat /\ \A w \in 1 .. Len(argv) : argv[w] \in Seq(STRING)
    BY <1>1
  <1>3. \A w \in 1 .. Len(argv) : Len(argv[w]) \in Nat
    BY <1>2
  <1> QED BY <1>1, <1>2, <1>3 DEF argc

LEMMA LongoptsFacts ==
    /\ longopts \in Seq(LongOption) /\ Len(longopts) \in Nat
    /\ \A i \in 1 .. Len(longopts) : longopts[i] \in LongOption /\ longopts[i].name \in Seq(STRING)
  <1>1. longopts \in Seq(LongOption)
    BY ConstantsAssumption, Zenon
  <1>2. \A i \in 1 .. Len(longopts) : longopts[i] \in LongOption
    BY <1>1
  <1> QED BY <1>1, <1>2 DEF LongOption

LEMMA ArgFacts ==
    ASSUME argv \in ArgVs, NEW i \in Nat, i >= 1
    PROVE  /\ Arg(i) \in Ptr /\ (Arg(i) # NULL <=> i < argc)
           /\ i < argc => Arg(i).word = i /\ Within(Arg(i))
  BY ArgvFacts DEF Arg, NULL, Ptr, Within

LEMMA SkipFacts ==
    ASSUME NEW p \in Ptr, NEW n \in Nat
    PROVE  /\ Skip(p, n) \in Ptr /\ Skip(p, n).word = p.word /\ Skip(p, n).pos = p.pos + n
           /\ Skip(p, 0) = p /\ Skip(Skip(p, 1), n) = Skip(p, 1 + n)
  <1>1. PICK w \in Nat, k \in Nat : p = [word |-> w, pos |-> k]
    BY DEF Ptr
  <1>2. \A m \in Nat : Skip(p, m) = [word |-> w, pos |-> k + m]
    BY <1>1 DEF Skip
  <1>3. Skip([word |-> w, pos |-> k + 1], n) = [word |-> w, pos |-> (k + 1) + n]
    BY DEF Skip
  <1>4. (k + 1) + n = k + (1 + n) /\ k + 0 = k /\ 1 + n \in Nat /\ k + n \in Nat
    OBVIOUS
  <1>5. Skip(p, n) \in Ptr /\ Skip(p, n).word = p.word /\ Skip(p, n).pos = p.pos + n
    BY DEF Ptr, Skip
  <1>6. Skip(p, 0) = p
    BY DEF Ptr, Skip
  <1>7. Skip(Skip(p, 1), n) = Skip(p, 1 + n)
    BY <1>2, <1>3, <1>4
  <1> QED BY <1>5, <1>6, <1>7

(* What is not the NUL is inside the word, and the next is at most the NUL. *)
LEMMA NotNul ==
    ASSUME argv \in ArgVs, NEW p \in Ptr, Within(p), Char(p) # NUL
    PROVE  p.pos <= Len(argv[p.word]) /\ Within(Skip(p, 1))
  <1> DEFINE n == Len(argv[p.word])
             q == Skip(p, 1)
  <1>1. n \in Nat /\ p.word \in 1 .. Len(argv) /\ p.pos \in 1 .. n + 1
    BY ArgvFacts DEF Within
  <1>2. p.pos <= n
    BY <1>1 DEF Char
  <1>3. q.word = p.word /\ q.pos = p.pos + 1
    BY SkipFacts
  <1>4. q.pos \in 1 .. n + 1
    <2> HIDE DEF n, q
    <2> QED BY <1>1, <1>2, <1>3
  <1> HIDE DEF q
  <1> QED BY <1>1, <1>2, <1>3, <1>4 DEF Within, q

-----------------------------------------------------------------------------
(* The loop over longopts *)

AtStep(i, p) ==
    IF IsPrefix(longopts[i].name, Text(p)) THEN Skip(p, Len(longopts[i].name)) ELSE p

(* Wherever nextchar may be when the loop begins, there it stays.           *)
LEMMA AtFacts ==
    ASSUME NEW S, Skip(Start, 2) \in S,
           \A i \in 1 .. Len(longopts) : \A p \in S : AtStep(i, p) \in S
    PROVE  /\ At \in [1 .. Len(longopts) + 1 -> S] /\ At[1] = Skip(Start, 2)
           /\ \A i \in 1 .. Len(longopts) : At[i + 1] = AtStep(i, At[i])
  <1> DEFINE n == Len(longopts) + 1
             x == Skip(Start, 2)
             Solves(f) == f = [i \in 1 .. n |-> IF i = 1 THEN x ELSE AtStep(i - 1, f[i - 1])]
             step == [q \in (1 .. n) \X S |-> IF q[1] = n THEN x ELSE AtStep(q[1], q[2])]
  <1>1. n \in Nat /\ n >= 1 /\ n - 1 = Len(longopts) /\ Len(longopts) \in Nat
    BY LongoptsFacts
  <1>2. step \in [(1 .. n) \X S -> S]
    <2> SUFFICES ASSUME NEW i \in 1 .. n, NEW p \in S, i # n PROVE AtStep(i, p) \in S
      OBVIOUS
    <2>1. i \in 1 .. Len(longopts)
      BY <1>1
    <2> QED BY <2>1
  <1>3. PICK g \in [1 .. n -> S] : Recurs(g, n, x, step)
    <2> HIDE DEF n, x, step
    <2> QED BY <1>1, <1>2, RecursionExists DEF x
  <1>4. ASSUME NEW i \in 1 .. n - 1 PROVE g[i + 1] = AtStep(i, g[i])
    <2>1. i \in 1 .. n /\ i # n /\ g[i] \in S
      BY <1>1
    <2>2. step[<<i, g[i]>>] = AtStep(i, g[i])
      BY <2>1
    <2> HIDE DEF step
    <2> QED BY <1>3, <2>2 DEF Recurs
  <1> HIDE DEF step
  <1>5. Solves(g)
    <2>1. ASSUME NEW i \in 1 .. n, i # 1 PROVE g[i] = AtStep(i - 1, g[i - 1])
      <3>1. i - 1 \in 1 .. n - 1 /\ (i - 1) + 1 = i
        BY <1>1, <2>1
      <3> QED BY <1>4, <3>1
    <2>2. g[1] = x
      BY <1>3 DEF Recurs
    <2> HIDE DEF n, x
    <2> QED BY <2>1, <2>2
  <1>6. At = CHOOSE f : Solves(f)
    BY DEF At, AtStep
  <1>7. Solves(At)
    <2> HIDE DEF Solves
    <2> QED BY <1>5, <1>6
  <1>8. At[1] = x /\ DOMAIN At = 1 .. n /\ \A i \in 1 .. n - 1 : At[i + 1] = AtStep(i, At[i])
    <2>1. /\ DOMAIN At = 1 .. n
          /\ \A i \in 1 .. n : At[i] = IF i = 1 THEN x ELSE AtStep(i - 1, At[i - 1])
      <3> HIDE DEF n, x
      <3> QED BY <1>7
    <2> HIDE DEF x
    <2>2. At[1] = x
      BY <1>1, <2>1
    <2>3. ASSUME NEW i \in 1 .. n - 1 PROVE At[i + 1] = AtStep(i, At[i])
      <3>1. i + 1 \in 1 .. n /\ i + 1 # 1 /\ (i + 1) - 1 = i
        BY <1>1
      <3> HIDE DEF n
      <3> QED BY <2>1, <3>1
    <2> QED BY <2>1, <2>2, <2>3
  <1> HIDE DEF n, x
  <1>9. 1 .. n \subseteq {i \in 1 .. n : At[i] \in S}
    <2> DEFINE A == {i \in 1 .. n : At[i] \in S}
    <2>1. 1 \in A
      BY <1>1, <1>8 DEF x
    <2>2. ASSUME NEW i \in 1 .. n - 1, i \in A PROVE i + 1 \in A
      <3>1. i \in 1 .. Len(longopts) /\ i + 1 \in 1 .. n
        BY <1>1
      <3> QED BY <1>8, <2>2, <3>1
    <2> HIDE DEF A
    <2>3. 1 .. n \subseteq A
      BY <1>1, <2>1, <2>2, IntervalInduction
    <2> QED BY <2>3 DEF A
  <1>10. At \in [1 .. n -> S]
    <2>1. \E f : Solves(f)
      BY <1>5
    <2>2. At = [i \in 1 .. n |-> IF i = 1 THEN x ELSE AtStep(i - 1, At[i - 1])]
      BY <1>7
    <2> QED BY <1>8, <1>9, <2>2
  <1> QED BY <1>1, <1>8, <1>10 DEF n, x

-----------------------------------------------------------------------------
(* The invariant: where optind is *)

(* optind is the index of a word or of the NULL behind the last.  It is at  *)
(* a word whenever a call reads an option: in a chain, and where nextchar   *)
(* is at a dash.                                                            *)
OInv ==
    /\ argv \in ArgVs /\ optind \in 1 .. argc
    /\ nextchar \in Ptr /\ in_chain \in BOOLEAN /\ fresh \in BOOLEAN
    /\ fresh => optind = 1
    /\ in_chain => optind < argc
    /\ ~ fresh /\ ~ in_chain /\ nextchar # NULL /\ Char(nextchar) = "-" => optind < argc

LEMMA StartFacts ==
    ASSUME OInv
    PROVE  /\ Start \in Ptr
           /\ AtWord /\ Char(Start) = "-" => optind < argc
           /\ in_chain => Start = nextchar
           /\ fresh /\ ~ in_chain => Start = Arg(1)
  <1>1. Arg(1) \in Ptr /\ (Arg(1) # NULL <=> 1 < argc)
    BY ArgFacts DEF OInv
  <1> QED BY <1>1 DEF OInv, Start, AtWord

(* A chain, and a word of short options, is at a word.                      *)
LEMMA DashesFacts ==
    ASSUME OInv, NEW n \in {1, 2}, Dashes(n)
    PROVE  /\ AtWord /\ optind < argc /\ Char(Start) = "-"
           /\ n = 2 => Char(Skip(Start, 1)) = "-"
  <1>1. Skip(Start, 0) = Start /\ 0 \in 0 .. n - 1 /\ (n = 2 => 1 \in 0 .. n - 1)
    BY StartFacts, SkipFacts
  <1>2. AtWord /\ Char(Skip(Start, 0)) = "-"
    BY <1>1 DEF Dashes
  <1>3. n = 2 => Char(Skip(Start, 1)) = "-"
    BY <1>1 DEF Dashes
  <1> QED BY <1>1, <1>2, <1>3, StartFacts

LEMMA AtPtr ==
    ASSUME OInv
    PROVE  \A i \in 1 .. Len(longopts) + 1 : At[i] \in Ptr
  <1>1. Skip(Start, 2) \in Ptr
    BY StartFacts, SkipFacts
  <1>2. ASSUME NEW i \in 1 .. Len(longopts), NEW p \in Ptr PROVE AtStep(i, p) \in Ptr
    <2>1. Len(longopts[i].name) \in Nat
      BY LongoptsFacts
    <2> QED BY <2>1, SkipFacts DEF AtStep
  <1>3. At \in [1 .. Len(longopts) + 1 -> Ptr]
    BY <1>1, <1>2, AtFacts
  <1> QED BY <1>3

LEMMA ShortFacts ==
    ASSUME OInv, AtShort
    PROVE  optind < argc /\ ShortAt \in Ptr
  <1>1. optind < argc
    BY DashesFacts DEF AtShort, NoEntry, AtLong, OInv
  <1>2. Len(longopts) + 1 \in 1 .. Len(longopts) + 1
    BY LongoptsFacts
  <1>3. At[Len(longopts) + 1] \in Ptr /\ Skip(Start, 1) \in Ptr /\ nextchar \in Ptr
    BY <1>2, AtPtr, StartFacts, SkipFacts DEF OInv
  <1> QED BY <1>1, <1>3 DEF ShortAt

(* A call keeps the invariant if it leaves optind at a word, or ends a      *)
(* chain and leaves nextchar at no dash.                                    *)
LEMMA CallOptind ==
    ASSUME OInv, argv' = argv, fresh' = FALSE, optind' \in 1 .. argc, nextchar' \in Ptr,
           in_chain' \in BOOLEAN,
           \/ optind' < argc
           \/ in_chain' = FALSE /\ (nextchar' = NULL \/ Char(nextchar)' # "-")
    PROVE  OInv'
  <1>1. argv' \in ArgVs /\ argc' = argc /\ optind' \in 1 .. argc' /\ fresh' \in BOOLEAN /\ ~ fresh'
    BY DEF OInv, argc
  <1>2. CASE optind' < argc
    BY <1>1, <1>2, Zenon DEF OInv
  <1>3. CASE in_chain' = FALSE /\ (nextchar' = NULL \/ Char(nextchar)' # "-")
    BY <1>1, <1>3, Zenon DEF OInv
  <1> QED BY <1>2, <1>3

(* What the calls that end a parse, or take an option of a long word, leave.*)
LEMMA StopsOptind ==
    ASSUME OInv, EndOfArgv \/ Operand \/ LoneDash \/ Terminator \/ NoTable
    PROVE  OInv'
  <1>1. argv' = argv /\ fresh' = FALSE /\ in_chain' = in_chain /\ in_chain' \in BOOLEAN
    BY DEF EndOfArgv, Operand, LoneDash, Terminator, NoTable, Returns, OInv
  <1>2. /\ Skip(Start, 1) \in Ptr /\ Skip(Start, 2) \in Ptr /\ Start \in Ptr /\ NULL \in Ptr
        /\ optind \in 1 .. argc /\ argc \in Nat
    BY StartFacts, SkipFacts, ArgvFacts DEF NULL, Ptr, OInv
  <1>3. CASE EndOfArgv
    <2>1. nextchar' = NULL /\ optind' = optind
      BY <1>3 DEF EndOfArgv
    <2>2. in_chain => optind < argc
      BY DEF OInv
    <2> QED BY <1>1, <1>2, <2>1, <2>2, CallOptind
  <1>4. CASE Operand
    <2>1. nextchar' = Start /\ optind' = optind /\ in_chain = FALSE /\ Char(Start) # "-"
      BY <1>4 DEF Operand, AtWord, OInv
    <2>2. Char(nextchar)' # "-"
      BY <1>1, <2>1 DEF Char
    <2> QED BY <1>1, <1>2, <2>1, <2>2, CallOptind
  <1>5. CASE LoneDash
    <2>1. optind < argc
      BY <1>5, DashesFacts DEF LoneDash
    <2>2. nextchar' = Skip(Start, 1) /\ optind' = optind
      BY <1>5 DEF LoneDash
    <2> QED BY <1>1, <1>2, <2>1, <2>2, CallOptind
  <1>6. CASE Terminator
    <2>1. optind < argc /\ in_chain = FALSE
      BY <1>6, DashesFacts DEF Terminator, AtWord, OInv
    <2>2. nextchar' = Skip(Start, 2) /\ optind' = optind + 1 /\ Char(Skip(Start, 2)) = NUL
      BY <1>6 DEF Terminator
    <2>3. Char(nextchar)' # "-"
      BY <1>1, <2>2 DEF Char, NUL
    <2>4. optind' \in 1 .. argc /\ nextchar' \in Ptr /\ in_chain' = FALSE
      BY <1>1, <1>2, <2>1, <2>2
    <2> QED BY <1>1, <2>3, <2>4, CallOptind
  <1>7. CASE NoTable
    <2>1. optind < argc
      BY <1>7, DashesFacts DEF NoTable
    <2>2. nextchar' = Skip(Start, 2) /\ optind' = optind
      BY <1>7 DEF NoTable
    <2> QED BY <1>1, <1>2, <2>1, <2>2, CallOptind
  <1> QED BY <1>3, <1>4, <1>5, <1>6, <1>7

(* The pointer to the word that an option leaves for the next call.         *)
LEMMA NextWordOptind ==
    ASSUME OInv, argv' = argv, fresh' = FALSE, in_chain' = FALSE,
           NEW n \in {1, 2}, optind' = optind + n, optind + n <= argc,
           nextchar' = Arg(optind + n)
    PROVE  OInv'
  <1>1. optind \in 1 .. argc /\ argc \in Nat /\ argv \in ArgVs
    BY ArgvFacts DEF OInv
  <1>2. optind' \in 1 .. argc /\ nextchar' \in Ptr /\ (nextchar' # NULL => optind' < argc)
    BY <1>1, ArgFacts
  <1> QED BY <1>2, CallOptind

LEMMA LongOptind ==
    ASSUME OInv, NEW i \in 1 .. Len(longopts), Long(i)
    PROVE  OInv'
  <1>1. argv' = argv /\ fresh' = FALSE /\ in_chain' = FALSE
    BY DEF Long, LongValue, LongNext, LongBare, LongFails, LongReturns, Returns, AtLong,
           Dashes, AtWord, OInv
  <1>2. optind < argc /\ optind \in Nat /\ optind >= 1 /\ argc \in Nat
    BY DashesFacts, ArgvFacts DEF Long, AtLong, OInv
  <1>3. CASE LongValue(i) \/ LongNext(i) \/ LongBare(i)
    <2>1. PICK n \in {1, 2} : optind' = optind + n /\ nextchar' = Arg(optind + n) /\ optind + n <= argc
      <3>1. TakesNext(i) => optind + 2 <= argc
        BY <1>2 DEF TakesNext
      <3> QED BY <1>2, <1>3, <3>1 DEF LongValue, LongNext, LongBare, LongReturns
    <2> QED BY <1>1, <2>1, NextWordOptind
  <1>4. CASE LongFails(i)
    <2>1. Char(Past(i)) \in {NUL, "="}
      BY <1>4 DEF Long, IsEntry, Matches
    <2>2. Past(i) \in Ptr
      <3>1. Len(longopts[i].name) \in Nat /\ At[i] \in Ptr
        BY AtPtr, LongoptsFacts
      <3> QED BY <3>1, SkipFacts DEF Past
    <2>3. nextchar' = Past(i) /\ optind' = optind + 1
      BY <1>4 DEF LongFails
    <2>4. Char(nextchar)' # "-"
      BY <1>1, <2>1, <2>3 DEF Char, NUL
    <2>5. optind' \in 1 .. argc
      BY <1>2, <2>3
    <2> QED BY <1>1, <2>2, <2>3, <2>4, <2>5, CallOptind
  <1> QED BY <1>3, <1>4 DEF Long

LEMMA ShortOptind ==
    ASSUME OInv, Flag \/ WithArgument \/ MissingArgument \/ Unknown
    PROVE  OInv'
  <1>1. argv' = argv /\ fresh' = FALSE
    BY DEF Flag, WithArgument, MissingArgument, Unknown, Returns
  <1>2. /\ optind < argc /\ optind \in Nat /\ optind >= 1 /\ argc \in Nat
        /\ ShortAt \in Ptr /\ Skip(ShortAt, 1) \in Ptr
    <2>1. optind < argc /\ ShortAt \in Ptr
      BY ShortFacts DEF Flag, WithArgument, MissingArgument, Unknown
    <2>2. Skip(ShortAt, 1) \in Ptr
      BY <2>1, SkipFacts
    <2> QED BY <2>1, <2>2, ArgvFacts DEF OInv
  <1>3. CASE Flag
    <2>1. CASE in_chain' = TRUE /\ nextchar' = Skip(ShortAt, 1) /\ optind' = optind
      <3>1. optind' \in 1 .. argc /\ optind' < argc /\ in_chain' \in BOOLEAN /\ nextchar' \in Ptr
        BY <1>2, <2>1
      <3> QED BY <1>1, <3>1, CallOptind
    <2>2. CASE in_chain' = FALSE /\ nextchar' = Arg(optind + 1) /\ optind' = optind + 1
      <3>1. 1 \in {1, 2} /\ optind + 1 <= argc
        BY <1>2
      <3> QED BY <1>1, <2>2, <3>1, NextWordOptind
    <2> QED BY <1>3, <2>1, <2>2 DEF Flag
  <1>4. CASE WithArgument
    <2>1. PICK n \in {1, 2} : optind' = optind + n /\ nextchar' = Arg(optind + n) /\ optind + n <= argc
      BY <1>2, <1>4 DEF WithArgument
    <2>2. in_chain' = FALSE
      BY <1>4 DEF WithArgument
    <2> QED BY <1>1, <2>1, <2>2, NextWordOptind
  <1>5. CASE MissingArgument
    <2>1. /\ nextchar' = Skip(ShortAt, 1) /\ optind' = optind + 1 /\ in_chain' = FALSE
          /\ Char(Skip(ShortAt, 1)) = NUL
      BY <1>5 DEF MissingArgument
    <2>2. Char(nextchar)' # "-"
      BY <1>1, <2>1 DEF Char, NUL
    <2>3. optind' \in 1 .. argc
      BY <1>2, <2>1
    <2> QED BY <1>1, <1>2, <2>1, <2>2, <2>3, CallOptind
  <1>6. CASE Unknown
    <2>1. nextchar' = ShortAt /\ optind' = optind /\ in_chain' = FALSE
      BY <1>6 DEF Unknown
    <2>2. optind' \in 1 .. argc /\ optind' < argc /\ nextchar' \in Ptr
      BY <1>2, <2>1
    <2>3. in_chain' \in BOOLEAN
      BY <2>1, Zenon
    <2> QED BY <1>1, <2>2, <2>3, CallOptind
  <1> QED BY <1>3, <1>4, <1>5, <1>6

LEMMA InitOptind == Init => OInv
  <1> SUFFICES ASSUME Init PROVE OInv
    OBVIOUS
  <1>1. argv \in ArgVs
    BY DEF Init
  <1>2. argc \in Nat /\ argc >= 1
    BY <1>1, ArgvFacts
  <1>3. nextchar \in Ptr /\ nextchar = NULL /\ optind = 1 /\ optind \in 1 .. argc
    BY <1>2 DEF Init, NULL, Ptr
  <1>4. in_chain = FALSE /\ fresh = TRUE
    BY DEF Init
  <1> QED BY <1>1, <1>3, <1>4, Zenon DEF OInv

LEMMA NextOptind ==
    ASSUME OInv, [Next]_vars
    PROVE  OInv'
  <1>1. CASE Restart
    <2>1. argv' \in ArgVs /\ argc' \in Nat /\ argc' >= 1 /\ optind' = 1 /\ fresh' = TRUE
      <3>1. argv' \in ArgVs
        BY <1>1 DEF Restart, OInv
      <3>2. argv' \in Seq(Seq(STRING))
        BY <3>1, ConstantsAssumption, Zenon
      <3> QED BY <1>1, <3>1, <3>2 DEF Restart, argc
    <2>2. nextchar' = nextchar /\ in_chain' = in_chain
      BY <1>1 DEF Restart
    <2>3. in_chain => argv' = argv /\ 1 < argc'
      <3> SUFFICES ASSUME in_chain PROVE argv' = argv /\ 1 < argc'
        OBVIOUS
      <3>1. argv' = argv
        BY <1>1 DEF Restart
      <3> QED BY <3>1, ArgvFacts DEF OInv, argc
    <2>4. /\ nextchar' \in Ptr /\ in_chain' \in BOOLEAN /\ fresh' \in BOOLEAN /\ fresh'
          /\ optind' \in 1 .. argc' /\ (in_chain' => optind' < argc')
      BY <2>1, <2>2, <2>3 DEF OInv
    <2> QED BY <2>1, <2>4, Zenon DEF OInv
  <1>2. CASE UNCHANGED vars
    BY <1>2 DEF vars, OInv, argc, Char
  <1> QED
    BY <1>1, <1>2, StopsOptind, LongOptind, ShortOptind DEF Next, getopt_long

(* argv[optind] may be read in every reachable state: an option whose       *)
(* argument is the last word leaves optind at the NULL behind it, and what  *)
(* is called after the end does not move it on (pgetopt.c:75-99), also when *)
(* a caller starts over in the middle of a word.                            *)
THEOREM OptindStaysWithin == Spec => []OptindWithinArgv
  <1>1. Init => OInv
    BY InitOptind
  <1>2. OInv /\ [Next]_vars => OInv'
    BY NextOptind
  <1>3. OInv => OptindWithinArgv
    BY DEF OInv, OptindWithinArgv
  <1> QED BY <1>1, <1>2, <1>3, PTL DEF Spec

-----------------------------------------------------------------------------
(* The invariant: where nextchar is *)

(* A caller that does not start over in the middle of a word finds nextchar *)
(* in the word that optind says, and in no other while there is an option   *)
(* to read there.                                                           *)
NInv ==
    /\ fresh => ~ in_chain
    /\ ~ fresh /\ nextchar # NULL => Within(nextchar)
    /\ in_chain => nextchar.word = optind /\ nextchar.pos \in 1 .. Len(argv[optind])
    /\ ~ fresh /\ ~ in_chain /\ nextchar # NULL /\ Char(nextchar) = "-"
          => nextchar.word = optind

LEMMA StartInside ==
    ASSUME OInv, NInv, AtWord
    PROVE  Within(Start) /\ (Char(Start) = "-" => Start.word = optind)
  <1>1. ~ in_chain /\ Start # NULL
    BY DEF AtWord
  <1>2. CASE optind = 1
    <2>1. Start = Arg(1) /\ Arg(1) # NULL
      BY <1>1, <1>2 DEF Start
    <2>2. Within(Arg(1)) /\ Arg(1).word = 1
      BY <2>1, ArgFacts DEF OInv
    <2> QED BY <1>2, <2>1, <2>2
  <1>3. CASE optind # 1
    <2>1. Start = nextchar /\ ~ fresh
      BY <1>1, <1>3 DEF Start, OInv
    <2> QED BY <1>1, <2>1 DEF NInv
  <1> QED BY <1>2, <1>3

LEMMA DashesInside ==
    ASSUME OInv, NInv, NEW n \in {1, 2}, Dashes(n)
    PROVE  Within(Skip(Start, n)) /\ Skip(Start, n).word = optind /\ Skip(Start, n) \in Ptr
  <1>1. Within(Start) /\ Start.word = optind /\ Start \in Ptr /\ argv \in ArgVs
    BY DashesFacts, StartInside, StartFacts DEF OInv
  <1>2. Char(Start) # NUL
    BY DashesFacts DEF NUL
  <1>3. Within(Skip(Start, 1)) /\ Skip(Start, 1).word = optind /\ Skip(Start, 1) \in Ptr
    BY <1>1, <1>2, NotNul, SkipFacts
  <1>4. CASE n = 2
    <2>1. Char(Skip(Start, 1)) # NUL
      BY <1>4, DashesFacts DEF NUL
    <2>2. Within(Skip(Skip(Start, 1), 1))
      BY <1>1, <1>3, <2>1, NotNul
    <2>3. Skip(Skip(Start, 1), 1) = Skip(Start, 2)
      BY <1>1, SkipFacts
    <2> QED BY <1>1, <1>4, <2>2, <2>3, SkipFacts
  <1> QED BY <1>3, <1>4

(* A name that the text begins with does not reach past its end.            *)
LEMMA PrefixInside ==
    ASSUME argv \in ArgVs, NEW p \in Ptr, Within(p), NEW name \in Seq(STRING),
           IsPrefix(name, Text(p))
    PROVE  Within(Skip(p, Len(name)))
  <1> DEFINE n == Len(argv[p.word])
             m == Len(name)
             q == Skip(p, m)
  <1>1. /\ n \in Nat /\ p.word \in 1 .. Len(argv) /\ p.pos \in 1 .. n + 1 /\ m \in Nat
        /\ argv[p.word] \in Seq(STRING)
    BY ArgvFacts DEF Within
  <1>2. Text(p) = SubSeq(argv[p.word], p.pos, n)
    <2>1. p # NULL
      BY <1>1 DEF NULL
    <2> QED BY <2>1 DEF Text
  <1>3. Len(Text(p)) = n - p.pos + 1
    <2>1. p.pos \in Nat /\ p.pos >= 1
      BY <1>1
    <2> QED BY <1>1, <1>2, <2>1
  <1>4. m <= n - p.pos + 1
    BY <1>3 DEF IsPrefix
  <1>5. q.word = p.word /\ q.pos = p.pos + m
    BY <1>1, SkipFacts
  <1> HIDE DEF m, q
  <1>6. q.pos \in 1 .. n + 1
    <2> HIDE DEF n
    <2> QED BY <1>1, <1>4, <1>5
  <1> QED BY <1>1, <1>5, <1>6 DEF Within, q, m

(* The loop over longopts stays in the word.                                *)
LEMMA AtInside ==
    ASSUME OInv, NInv, Dashes(2)
    PROVE  \A i \in 1 .. Len(longopts) + 1 :
              /\ At[i] \in Ptr /\ Within(At[i]) /\ At[i].word = optind
              /\ i <= Len(longopts) /\ IsPrefix(longopts[i].name, Text(At[i])) => Within(Past(i))
  <1> DEFINE S == {p \in Ptr : Within(p) /\ p.word = optind}
  <1>1. Skip(Start, 2) \in S
    BY DashesInside
  <1>2. ASSUME NEW i \in 1 .. Len(longopts), NEW p \in S, IsPrefix(longopts[i].name, Text(p))
        PROVE  Skip(p, Len(longopts[i].name)) \in S
    <2>1. longopts[i].name \in Seq(STRING) /\ Len(longopts[i].name) \in Nat /\ argv \in ArgVs
      BY LongoptsFacts DEF OInv
    <2>2. p \in Ptr /\ Within(p) /\ p.word = optind
      OBVIOUS
    <2>3. Within(Skip(p, Len(longopts[i].name)))
      BY <1>2, <2>1, <2>2, PrefixInside
    <2> QED BY <2>1, <2>2, <2>3, SkipFacts
  <1>3. \A i \in 1 .. Len(longopts) : \A p \in S : AtStep(i, p) \in S
    BY <1>2 DEF AtStep
  <1> HIDE DEF S
  <1>4. At \in [1 .. Len(longopts) + 1 -> S]
    BY <1>1, <1>3, AtFacts
  <1>5. ASSUME NEW i \in 1 .. Len(longopts) + 1, i <= Len(longopts),
               IsPrefix(longopts[i].name, Text(At[i]))
        PROVE  Within(Past(i))
    <2>1. i \in 1 .. Len(longopts) /\ At[i] \in S
      BY <1>4, <1>5, LongoptsFacts
    <2> QED BY <1>2, <1>5, <2>1 DEF S, Past
  <1>6. \A i \in 1 .. Len(longopts) + 1 : At[i] \in S
    BY <1>4
  <1> QED BY <1>5, <1>6 DEF S

LEMMA KnownIsChar ==
    ASSUME NEW c, Known(c) \/ Takes(c)
    PROVE  c # NUL
  <1>1. PICK k \in 1 .. Len(optstring) : optstring[k] = c
    BY DEF Known, Takes, Options
  <1>2. \A i \in DOMAIN optstring : optstring[i] # ""
    BY ConstantsAssumption, Zenon
  <1>3. DOMAIN optstring = 1 .. Len(optstring)
    <2>1. optstring \in Seq(STRING)
      BY ConstantsAssumption, Zenon
    <2> QED BY <2>1
  <1> QED BY <1>1, <1>2, <1>3 DEF NUL

LEMMA ShortInside ==
    ASSUME OInv, NInv, AtShort
    PROVE  /\ ShortAt \in Ptr /\ Within(ShortAt) /\ ShortAt.word = optind
           /\ Skip(ShortAt, 1) \in Ptr /\ Skip(ShortAt, 1).word = optind
           /\ Known(Char(ShortAt)) \/ Takes(Char(ShortAt)) => Within(Skip(ShortAt, 1))
  <1>1. Within(ShortAt) /\ ShortAt.word = optind
    <2>1. CASE in_chain
      <3>1. nextchar.word = optind /\ nextchar.pos \in 1 .. Len(argv[optind])
        BY <2>1 DEF NInv
      <3>2. optind \in 1 .. Len(argv) /\ Len(argv[optind]) \in Nat
        BY <2>1, ArgvFacts DEF OInv
      <3>3. Within(nextchar)
        BY <3>1, <3>2 DEF Within
      <3> QED BY <2>1, <3>1, <3>3 DEF ShortAt
    <2>2. CASE ~ in_chain /\ NoEntry
      <3>1. Len(longopts) + 1 \in 1 .. Len(longopts) + 1 /\ Dashes(2)
        BY <2>2, LongoptsFacts DEF NoEntry, AtLong
      <3> QED BY <2>2, <3>1, AtInside DEF ShortAt
    <2>3. CASE ~ in_chain /\ ~ NoEntry
      <3>1. Dashes(1)
        BY <2>3 DEF AtShort
      <3> QED BY <2>3, <3>1, DashesInside DEF ShortAt
    <2> QED BY <2>1, <2>2, <2>3
  <1>2. ShortAt \in Ptr /\ argv \in ArgVs
    BY ShortFacts DEF OInv
  <1>3. Known(Char(ShortAt)) \/ Takes(Char(ShortAt)) => Within(Skip(ShortAt, 1))
    BY <1>1, <1>2, KnownIsChar, NotNul
  <1> QED BY <1>1, <1>2, <1>3, SkipFacts

(* A call keeps the invariant if it leaves nextchar in its word.            *)
LEMMA CallInside ==
    ASSUME argv' = argv, fresh' = FALSE, in_chain' = FALSE,
           \/ nextchar' = NULL
           \/ Within(nextchar') /\ (nextchar'.word = optind' \/ Char(nextchar)' # "-")
    PROVE  NInv'
  <1>1. ~ fresh' /\ ~ in_chain' /\ (nextchar' # NULL => Within(nextchar)')
    BY DEF Within
  <1>2. nextchar' # NULL /\ Char(nextchar)' = "-" => nextchar'.word = optind'
    OBVIOUS
  <1> QED BY <1>1, <1>2, Zenon DEF NInv

LEMMA StopsInside ==
    ASSUME OInv, NInv, EndOfArgv \/ Operand \/ LoneDash \/ Terminator \/ NoTable
    PROVE  NInv'
  <1>1. argv' = argv /\ fresh' = FALSE /\ in_chain' = in_chain
    BY DEF EndOfArgv, Operand, LoneDash, Terminator, NoTable, Returns
  <1>2. in_chain = FALSE
    <2>1. CASE EndOfArgv
      <3>1. in_chain => nextchar = NULL
        BY <2>1, StartFacts DEF EndOfArgv
      <3>2. in_chain => nextchar.word = optind /\ optind # 0
        BY DEF NInv, OInv
      <3> QED BY <3>1, <3>2 DEF OInv, NULL
    <2>2. CASE AtWord
      BY <2>2 DEF AtWord, OInv
    <2> QED BY <2>1, <2>2 DEF Operand, LoneDash, Terminator, NoTable, Dashes
  <1>3. CASE EndOfArgv
    BY <1>1, <1>2, <1>3, CallInside DEF EndOfArgv
  <1>4. CASE Operand
    <2>1. nextchar' = Start /\ Within(Start) /\ Char(Start) # "-"
      BY <1>4, StartInside DEF Operand
    <2>2. Char(nextchar)' # "-"
      BY <1>1, <2>1 DEF Char
    <2> QED BY <1>1, <1>2, <2>1, <2>2, CallInside
  <1>5. CASE LoneDash
    BY <1>1, <1>2, <1>5, DashesInside, CallInside DEF LoneDash
  <1>6. CASE Terminator
    <2>1. nextchar' = Skip(Start, 2) /\ Within(Skip(Start, 2)) /\ Char(Skip(Start, 2)) = NUL
      BY <1>6, DashesInside DEF Terminator
    <2>2. Char(nextchar)' # "-"
      BY <1>1, <2>1 DEF Char, NUL
    <2> QED BY <1>1, <1>2, <2>1, <2>2, CallInside
  <1>7. CASE NoTable
    BY <1>1, <1>2, <1>7, DashesInside, CallInside DEF NoTable
  <1> QED BY <1>3, <1>4, <1>5, <1>6, <1>7

LEMMA NextWordInside ==
    ASSUME OInv, argv' = argv, fresh' = FALSE, in_chain' = FALSE,
           NEW n \in {1, 2}, optind' = optind + n, nextchar' = Arg(optind + n)
    PROVE  NInv'
  <1>1. argv \in ArgVs /\ optind + n \in Nat /\ optind + n >= 1
    BY ArgvFacts DEF OInv
  <1>2. nextchar' # NULL => Within(nextchar') /\ nextchar'.word = optind'
    BY <1>1, ArgFacts
  <1> QED BY <1>2, CallInside

LEMMA LongInside ==
    ASSUME OInv, NInv, NEW i \in 1 .. Len(longopts), Long(i)
    PROVE  NInv'
  <1>1. argv' = argv /\ fresh' = FALSE /\ in_chain' = FALSE
    BY DEF Long, LongValue, LongNext, LongBare, LongFails, LongReturns, Returns, AtLong,
           Dashes, AtWord, OInv
  <1>2. CASE LongValue(i) \/ LongNext(i) \/ LongBare(i)
    <2>1. PICK n \in {1, 2} : optind' = optind + n /\ nextchar' = Arg(optind + n)
      BY <1>2 DEF LongValue, LongNext, LongBare, LongReturns
    <2> QED BY <1>1, <2>1, NextWordInside
  <1>3. CASE LongFails(i)
    <2>1. Char(Past(i)) \in {NUL, "="} /\ IsPrefix(longopts[i].name, Text(At[i])) /\ Dashes(2)
      BY DEF Long, IsEntry, Matches, AtLong
    <2>2. Within(Past(i))
      <3>1. i \in 1 .. Len(longopts) + 1 /\ i <= Len(longopts)
        BY LongoptsFacts
      <3> QED BY <2>1, <3>1, AtInside
    <2>3. nextchar' = Past(i)
      BY <1>3 DEF LongFails
    <2>4. Char(nextchar)' # "-"
      BY <1>1, <2>1, <2>3 DEF Char, NUL
    <2> QED BY <1>1, <2>2, <2>3, <2>4, CallInside
  <1> QED BY <1>2, <1>3 DEF Long

LEMMA ShortStepInside ==
    ASSUME OInv, NInv, Flag \/ WithArgument \/ MissingArgument \/ Unknown
    PROVE  NInv'
  <1>1. argv' = argv /\ fresh' = FALSE
    BY DEF Flag, WithArgument, MissingArgument, Unknown, Returns
  <1>2. CASE Flag
    <2>1. CASE /\ in_chain' = TRUE /\ nextchar' = Skip(ShortAt, 1) /\ optind' = optind
               /\ Char(Skip(ShortAt, 1)) # NUL
      <3>1. /\ Within(Skip(ShortAt, 1)) /\ Skip(ShortAt, 1).word = optind
            /\ Skip(ShortAt, 1) \in Ptr /\ argv \in ArgVs
        BY <1>2, ShortInside DEF Flag, OInv
      <3>2. Skip(ShortAt, 1).pos \in 1 .. Len(argv[optind])
        <4>1. Skip(ShortAt, 1).pos <= Len(argv[optind])
          BY <2>1, <3>1, NotNul
        <4>2. Len(argv[optind]) \in Nat /\ Skip(ShortAt, 1).pos \in 1 .. Len(argv[optind]) + 1
          BY <3>1, ArgvFacts DEF Within
        <4> QED BY <4>1, <4>2
      <3>3. /\ ~ fresh' /\ in_chain' /\ Within(nextchar)' /\ nextchar'.word = optind'
            /\ nextchar'.pos \in 1 .. Len(argv'[optind'])
        BY <1>1, <2>1, <3>1, <3>2 DEF Within
      <3> QED BY <3>3, Zenon DEF NInv
    <2>2. CASE in_chain' = FALSE /\ nextchar' = Arg(optind + 1) /\ optind' = optind + 1
      BY <1>1, <2>2, NextWordInside
    <2> QED BY <1>2, <2>1, <2>2 DEF Flag
  <1>3. CASE WithArgument
    <2>1. PICK n \in {1, 2} : optind' = optind + n /\ nextchar' = Arg(optind + n)
      BY <1>3 DEF WithArgument
    <2>2. in_chain' = FALSE
      BY <1>3 DEF WithArgument
    <2> QED BY <1>1, <2>1, <2>2, NextWordInside
  <1>4. CASE MissingArgument
    <2>1. /\ nextchar' = Skip(ShortAt, 1) /\ Within(Skip(ShortAt, 1)) /\ in_chain' = FALSE
          /\ Char(Skip(ShortAt, 1)) = NUL
      BY <1>4, ShortInside DEF MissingArgument
    <2>2. Char(nextchar)' # "-"
      BY <1>1, <2>1 DEF Char, NUL
    <2> QED BY <1>1, <2>1, <2>2, CallInside
  <1>5. CASE Unknown
    <2>1. nextchar' = ShortAt /\ Within(ShortAt) /\ ShortAt.word = optind' /\ in_chain' = FALSE
      BY <1>5, ShortInside DEF Unknown
    <2> QED BY <1>1, <2>1, CallInside
  <1> QED BY <1>2, <1>3, <1>4, <1>5

LEMMA NextInside ==
    ASSUME ~ Abandons, OInv, NInv, [Next]_vars
    PROVE  NInv'
  <1>1. CASE Restart
    <2>1. fresh' /\ ~ in_chain'
      BY <1>1 DEF Restart
    <2> QED BY <2>1, Zenon DEF NInv
  <1>2. CASE UNCHANGED vars
    BY <1>2 DEF vars, NInv, Within, Char
  <1> QED
    BY <1>1, <1>2, StopsInside, LongInside, ShortStepInside DEF Next, getopt_long

(* When the caller starts over between words only, nextchar never leaves    *)
(* the word it is in: skipped names, chains and failed calls end at its NUL *)
(* at the latest (pgetopt.c:52-113).                                        *)
THEOREM NextcharStaysInside ==
    ASSUME ~ Abandons
    PROVE  Spec => []NextcharInside
  <1>1. Init => OInv /\ NInv
    <2>1. Init => ~ in_chain /\ fresh /\ nextchar = NULL
      BY DEF Init
    <2>2. Init => NInv
      BY <2>1, Zenon DEF NInv
    <2> QED BY <2>2, InitOptind
  <1>2. OInv /\ NInv /\ [Next]_vars => OInv' /\ NInv'
    BY NextOptind, NextInside
  <1>3. OInv /\ NInv => NextcharInside
    BY DEF OInv, NInv, Within, NextcharInside
  <1> QED BY <1>1, <1>2, <1>3, PTL DEF Spec

-----------------------------------------------------------------------------
(* The calls of a parse *)

LEMMA Concats ==
    ASSUME NEW S, NEW s \in Seq(S), NEW t \in Seq(S), NEW u \in Seq(S), NEW e \in S
    PROVE  /\ s \o t \in Seq(S) /\ (s \o t) \o u = s \o (t \o u)
           /\ Append(s, e) \in Seq(S) /\ Append(s, e) = s \o <<e>>
           /\ Append(s, e) # <<>> /\ Last(Append(s, e)) = e
           /\ <<>> \o s = s /\ s \o <<>> = s /\ <<e>> \in Seq(S)
           /\ IsPrefix(s, s \o t) /\ IsPrefix(s, s) /\ <<>> \in Seq(S)
  <1>1. s \o t \in Seq(S) /\ Append(s, e) \in Seq(S) /\ <<e>> \in Seq(S) /\ <<>> \in Seq(S)
    OBVIOUS
  <1>2. (s \o t) \o u = s \o (t \o u)
    OBVIOUS
  <1>3. Append(s, e) = s \o <<e>> /\ Append(s, e) # <<>>
    OBVIOUS
  <1>4. Last(Append(s, e)) = e
    BY DEF Last
  <1>5. <<>> \o s = s /\ s \o <<>> = s
    OBVIOUS
  <1>6. IsPrefix(s, s \o t)
    BY DEF IsPrefix
  <1>7. IsPrefix(s, s)
    BY DEF IsPrefix
  <1> QED BY <1>1, <1>2, <1>3, <1>4, <1>5, <1>6, <1>7

Told == STRING \cup {End, "?", "0"}

CallSet == [opt : Told, arg : Seq(STRING), long : Nat, optind : Nat]

Calls == Seq(CallSet)

(* What a word can say: its calls, and a later word or the end.             *)
Says(line, w, this) ==
    /\ this.calls \in Calls
    /\ this.next \in 0 .. Len(line) + 1 /\ (this.next # 0 => this.next > w)

LEMMA LineFacts ==
    ASSUME NEW line \in ArgVs
    PROVE  /\ line \in Seq(Seq(STRING)) /\ Len(line) \in Nat
           /\ \A w \in 1 .. Len(line) :
                /\ line[w] \in Seq(STRING) /\ Len(line[w]) \in Nat
                /\ \A k \in 1 .. Len(line[w]) : line[w][k] \in STRING /\ line[w][k] # NUL
  <1>1. line \in Seq(Seq(STRING)) /\ \A w \in DOMAIN line : IsString(line[w])
    BY ConstantsAssumption, Zenon
  <1>2. DOMAIN line = 1 .. Len(line) /\ Len(line) \in Nat /\ \A w \in 1 .. Len(line) : line[w] \in Seq(STRING)
    <2>1. line \in Seq(Seq(STRING))
      BY <1>1
    <2> QED BY <2>1
  <1>3. ASSUME NEW w \in 1 .. Len(line)
        PROVE  /\ Len(line[w]) \in Nat /\ DOMAIN line[w] = 1 .. Len(line[w])
               /\ \A k \in 1 .. Len(line[w]) : line[w][k] \in STRING
    BY <1>2
  <1> QED BY <1>1, <1>2, <1>3 DEF NUL, IsString

LEMMA CallFacts ==
    /\ \A opt \in Told, arg \in Seq(STRING), long \in Nat :
          Call(opt, arg, long) \in CallSet /\ Call(opt, arg, long).opt = opt
    /\ \A i \in Nat : Stop(i) \in CallSet /\ Stop(i).opt = End
    /\ Bad \in CallSet /\ Bad.opt = "?"
  <1>1. <<>> \in Seq(STRING)
    OBVIOUS
  <1>2. \A opt \in Told, arg \in Seq(STRING), long \in Nat :
           Call(opt, arg, long) \in CallSet /\ Call(opt, arg, long).opt = opt
    BY DEF Call, CallSet
  <1>3. "?" \in Told /\ End \in Told
    BY DEF Told
  <1>4. \A i \in Nat : Stop(i) \in CallSet /\ Stop(i).opt = End
    BY <1>1, <1>3 DEF Stop, CallSet
  <1>5. Bad \in CallSet /\ Bad.opt = "?"
    BY <1>1, <1>2, <1>3 DEF Bad
  <1> QED BY <1>2, <1>4, <1>5

LEMMA ThenFacts == \A calls, next : Then(calls, next).calls = calls /\ Then(calls, next).next = next
  BY DEF Then

LEMMA NextWordSays ==
    ASSUME NEW line \in ArgVs, NEW w \in 1 .. Len(line), NEW call \in CallSet, NEW missing \in CallSet
    PROVE  /\ w < Len(line)
                => NextWord(line, call, missing, w) = Then(<< [call EXCEPT !.arg = line[w + 1]] >>, w + 2)
           /\ w >= Len(line) => NextWord(line, call, missing, w) = Then(<< missing >>, 0)
           /\ Says(line, w, NextWord(line, call, missing, w))
  <1>1. Len(line) \in Nat /\ (w < Len(line) => line[w + 1] \in Seq(STRING))
    BY LineFacts
  <1>2. w < Len(line) => [call EXCEPT !.arg = line[w + 1]] \in CallSet
    BY <1>1 DEF CallSet
  <1>3. \A c \in CallSet : <<c>> \in Calls
    BY DEF Calls
  <1>4. CASE w < Len(line)
    <2>1. NextWord(line, call, missing, w) = Then(<< [call EXCEPT !.arg = line[w + 1]] >>, w + 2)
      BY <1>4 DEF NextWord
    <2>2. << [call EXCEPT !.arg = line[w + 1]] >> \in Calls
      BY <1>2, <1>3, <1>4
    <2>3. w + 2 \in 0 .. Len(line) + 1 /\ w + 2 > w
      BY <1>1, <1>4
    <2> QED BY <1>1, <1>4, <2>1, <2>2, <2>3 DEF Then, Says
  <1>5. CASE ~ (w < Len(line))
    <2>1. NextWord(line, call, missing, w) = Then(<< missing >>, 0)
      BY <1>5 DEF NextWord
    <2> QED BY <1>1, <1>3, <1>5, <2>1 DEF Then, Says
  <1> QED BY <1>4, <1>5

(* Reading short options character by character.                            *)

LEMMA PlainFacts ==
    ASSUME NEW word \in Seq(STRING), NEW p \in 1 .. Len(word) + 1, NEW k \in p .. Len(word) + 1
    PROVE  /\ Plain(word, p, k) \in Calls /\ Plain(word, p, p) = <<>>
           /\ p < k => Plain(word, p, k) = << Call(word[p], <<>>, 0) >> \o Plain(word, p + 1, k)
  <1>1. Len(word) \in Nat /\ p \in Nat /\ k \in Nat /\ p >= 1
    OBVIOUS
  <1>2. ASSUME NEW i \in 1 .. Len(word) PROVE Call(word[i], <<>>, 0) \in CallSet
    <2>1. word[i] \in STRING /\ <<>> \in Seq(STRING)
      OBVIOUS
    <2> QED BY <2>1, CallFacts DEF Told
  <1>3. Plain(word, p, k) \in Calls
    <2>1. \A n \in 1 .. k - p : p + n - 1 \in 1 .. Len(word)
      BY <1>1
    <2> QED BY <1>1, <1>2, <2>1 DEF Plain, Calls
  <1>4. Plain(word, p, p) = <<>>
    <2>1. 1 .. p - p = {}
      BY <1>1
    <2> QED BY <2>1 DEF Plain
  <1>5. ASSUME p < k PROVE Plain(word, p, k) = << Call(word[p], <<>>, 0) >> \o Plain(word, p + 1, k)
    <2> DEFINE C(i) == Call(word[i], <<>>, 0)
               s == [n \in 1 .. k - p |-> C(p + n - 1)]
               t == [n \in 1 .. k - (p + 1) |-> C(p + 1 + n - 1)]
               u == << C(p) >> \o t
    <2>0. \A i \in 1 .. Len(word) : C(i) \in CallSet
      BY <1>2
    <2> HIDE DEF C
    <2>1. k - p \in Nat /\ k - (p + 1) \in Nat /\ (k - (p + 1)) + 1 = k - p
      BY <1>1, <1>5
    <2>2. Len(t) = k - (p + 1) /\ t \in Seq(CallSet)
      <3>1. \A n \in 1 .. k - (p + 1) : p + 1 + n - 1 \in 1 .. Len(word)
        BY <1>1
      <3> QED BY <2>0, <2>1, <3>1
    <2>3. Len(u) = k - p /\ u \in Seq(CallSet)
      <3> HIDE DEF t
      <3>1. C(p) \in CallSet
        BY <1>1, <1>5, <2>0
      <3> QED BY <2>1, <2>2, <3>1
    <2>4. Len(s) = k - p /\ s \in Seq(CallSet)
      <3>1. \A n \in 1 .. k - p : p + n - 1 \in 1 .. Len(word)
        BY <1>1
      <3> QED BY <2>0, <2>1, <3>1
    <2>5. ASSUME NEW n \in 1 .. k - p PROVE s[n] = u[n]
      <3>1. CASE n = 1
        <4>1. p + 1 - 1 = p
          BY <1>1
        <4>2. u[1] = C(p)
          <5> HIDE DEF t
          <5> QED BY <2>2
        <4>3. s[1] = C(p)
          BY <3>1, <4>1
        <4> HIDE DEF s, u
        <4> QED BY <3>1, <4>2, <4>3
      <3>2. CASE n # 1
        <4>1. n - 1 \in 1 .. k - (p + 1) /\ p + 1 + (n - 1) - 1 = p + n - 1
          BY <1>1, <3>2
        <4>2. t[n - 1] = C(p + n - 1)
          BY <4>1
        <4>3. s[n] = C(p + n - 1)
          OBVIOUS
        <4>4. u[n] = t[n - 1]
          <5> HIDE DEF t
          <5> QED BY <2>1, <2>2, <4>1
        <4> HIDE DEF s, t, u
        <4> QED BY <4>2, <4>3, <4>4
      <3> QED BY <3>1, <3>2
    <2> HIDE DEF s, u
    <2>6. s = u
      BY <2>1, <2>3, <2>4, <2>5
    <2> QED BY <2>6 DEF s, u, C, Plain
  <1> QED BY <1>3, <1>4, <1>5

(* One character, and what is read of the rest of the word.                 *)
ShortCall(line, w, p) == Call(line[w][p], SubSeq(line[w], p + 1, Len(line[w])), 0)

LEMMA TakesIsKnown ==
    ASSUME NEW c, Takes(c)
    PROVE  Known(c)
  BY DEF Takes, Known

Stops(word, p) == {j \in p .. Len(word) : ~ Known(word[j]) \/ Takes(word[j])}

LEMMA ShortWordStop ==
    ASSUME NEW line \in ArgVs, NEW w \in 1 .. Len(line), NEW p \in 1 .. Len(line[w]),
           ~ Known(line[w][p]) \/ Takes(line[w][p])
    PROVE  /\ ~ Known(line[w][p]) => ShortWord(line, w, p) = Then(<< Bad >>, 0)
           /\ Known(line[w][p]) /\ p < Len(line[w])
                => ShortWord(line, w, p) = Then(<< ShortCall(line, w, p) >>, w + 1)
           /\ Known(line[w][p]) /\ p >= Len(line[w])
                => ShortWord(line, w, p) = NextWord(line, ShortCall(line, w, p), Bad, w)
  <1> DEFINE word == line[w]
             S == Stops(word, p)
             j == CHOOSE k \in S : \A l \in S : k <= l
  <1>1. word \in Seq(STRING) /\ Len(word) \in Nat
    BY LineFacts
  <1>2. p \in S /\ \A l \in S : p <= l /\ l \in Nat
    BY <1>1 DEF Stops
  <1>3. j = p
    <2>1. j \in S /\ \A l \in S : j <= l
      <3> HIDE DEF S
      <3> QED BY <1>2
    <2>2. j <= p /\ p <= j /\ j \in Nat /\ p \in Nat
      <3> HIDE DEF S, j
      <3> QED BY <1>2, <2>1
    <2> HIDE DEF j
    <2> QED BY <2>2
  <1>4. Plain(word, p, p) = <<>> /\ S # {}
    <2>1. p \in 1 .. Len(word) + 1 /\ p \in p .. Len(word) + 1
      BY <1>1
    <2> QED BY <1>1, <1>2, <2>1, PlainFacts
  <1> DEFINE call == ShortCall(line, w, p)
             last == NextWord(line, call, Bad, w)
  <1>5. ShortWord(line, w, p) =
           IF ~ Known(word[p]) THEN Then(Append(<<>>, Bad), 0)
           ELSE IF p < Len(word) THEN Then(Append(<<>>, call), w + 1)
           ELSE Then(<<>> \o last.calls, last.next)
    <2>1. ShortWord(line, w, p) =
           IF S = {} THEN Then(Plain(word, p, Len(word) + 1), w + 1)
           ELSE IF ~ Known(word[j]) THEN Then(Append(Plain(word, p, j), Bad), 0)
           ELSE IF j < Len(word) THEN Then(Append(Plain(word, p, j), ShortCall(line, w, j)), w + 1)
           ELSE Then(Plain(word, p, j) \o NextWord(line, ShortCall(line, w, j), Bad, w).calls,
                     NextWord(line, ShortCall(line, w, j), Bad, w).next)
      BY DEF ShortWord, ShortCall, Stops
    <2> HIDE DEF S, j, word
    <2> QED BY <1>3, <1>4, <2>1
  <1>6. Append(<<>>, Bad) = << Bad >> /\ Append(<<>>, call) = << call >>
    OBVIOUS
  <1>7. Then(<<>> \o last.calls, last.next) = last
    <2>1. call \in CallSet
      <3>1. word[p] \in Told /\ SubSeq(word, p + 1, Len(word)) \in Seq(STRING)
        BY <1>1 DEF Told
      <3> QED BY <3>1, CallFacts DEF ShortCall
    <2>2. Says(line, w, last)
      <3> HIDE DEF call
      <3> QED BY <2>1, NextWordSays, CallFacts
    <2>3. last = Then(last.calls, last.next)
      <3> HIDE DEF call
      <3> QED BY DEF NextWord, Then
    <2>4. <<>> \o last.calls = last.calls
      <3> HIDE DEF last
      <3> QED BY <2>2 DEF Says, Calls
    <2> HIDE DEF last
    <2> QED BY <2>3, <2>4
  <1> HIDE DEF call, last
  <1> QED BY <1>5, <1>6, <1>7 DEF last, call

(* What a chain says from a flag on: the flag, and what it says from the    *)
(* character after it.                                                      *)
LEMMA ShortWordFlag ==
    ASSUME NEW line \in ArgVs, NEW w \in 1 .. Len(line), NEW p \in 1 .. Len(line[w]),
           Known(line[w][p]), ~ Takes(line[w][p])
    PROVE  LET rest == ShortWord(line, w, p + 1)
           IN  /\ rest.calls \in Calls
                  => ShortWord(line, w, p) = Then(<< Call(line[w][p], <<>>, 0) >> \o rest.calls, rest.next)
               /\ p = Len(line[w]) => rest = Then(<<>>, w + 1)
  <1> DEFINE word == line[w]
             S == Stops(word, p + 1)
             j == CHOOSE k \in S : \A l \in S : k <= l
             flag == Call(word[p], <<>>, 0)
             call(i) == ShortCall(line, w, i)
             last(i) == NextWord(line, call(i), Bad, w)
             Short(q) == 
                IF S = {} THEN Then(Plain(word, q, Len(word) + 1), w + 1)
                ELSE IF ~ Known(word[j]) THEN Then(Append(Plain(word, q, j), Bad), 0)
                ELSE IF j < Len(word) THEN Then(Append(Plain(word, q, j), call(j)), w + 1)
                ELSE Then(Plain(word, q, j) \o last(j).calls, last(j).next)
  <1>1. word \in Seq(STRING) /\ Len(word) \in Nat
    BY LineFacts
  <1>2. Stops(word, p) = S
    BY <1>1 DEF Stops
  <1>3. ShortWord(line, w, p) = Short(p)
    <2>1. ShortWord(line, w, p) =
           LET T == Stops(word, p)
               i == CHOOSE k \in T : \A l \in T : k <= l
           IN  IF T = {} THEN Then(Plain(word, p, Len(word) + 1), w + 1)
               ELSE IF ~ Known(word[i]) THEN Then(Append(Plain(word, p, i), Bad), 0)
               ELSE IF i < Len(word) THEN Then(Append(Plain(word, p, i), ShortCall(line, w, i)), w + 1)
               ELSE Then(Plain(word, p, i) \o NextWord(line, ShortCall(line, w, i), Bad, w).calls,
                         NextWord(line, ShortCall(line, w, i), Bad, w).next)
      BY DEF ShortWord, ShortCall, Stops
    <2> HIDE DEF S, word
    <2> QED BY <1>2, <2>1
  <1>4. ShortWord(line, w, p + 1) = Short(p + 1)
    BY DEF ShortWord, ShortCall, Stops
  <1>5. S = {} \/ (j \in S /\ j \in p + 1 .. Len(word))
    <2> SUFFICES ASSUME S # {} PROVE j \in S /\ j \in p + 1 .. Len(word)
      OBVIOUS
    <2>1. S \in SUBSET Nat /\ S \subseteq p + 1 .. Len(word)
      BY <1>1 DEF Stops
    <2> HIDE DEF S
    <2>2. PICK m \in S : \A l \in S : m <= l
      BY <2>1, LeastOfSet
    <2>3. j \in S
      BY <2>2
    <2> HIDE DEF j
    <2> QED BY <2>1, <2>3
  <1>6. flag \in CallSet
    <2>1. word[p] \in Told /\ <<>> \in Seq(STRING)
      BY <1>1 DEF Told
    <2> QED BY <2>1, CallFacts
  <1>7. ASSUME NEW k \in p + 1 .. Len(word) + 1
        PROVE  /\ Plain(word, p, k) = << flag >> \o Plain(word, p + 1, k)
               /\ Plain(word, p + 1, k) \in Calls
    <2>1. /\ p \in 1 .. Len(word) + 1 /\ p + 1 \in 1 .. Len(word) + 1 /\ k \in p .. Len(word) + 1
          /\ k \in p + 1 .. Len(word) + 1 /\ p < k
      BY <1>1
    <2> HIDE DEF word
    <2> QED BY <1>1, <2>1, PlainFacts
  <1>8. p = Len(word) => ShortWord(line, w, p + 1) = Then(<<>>, w + 1)
    <2> SUFFICES ASSUME p = Len(word) PROVE Short(p + 1) = Then(<<>>, w + 1)
      BY <1>4
    <2>1. S = {}
      BY <1>1 DEF Stops
    <2>2. Plain(word, p + 1, p + 1) = <<>>
      <3>1. p + 1 \in 1 .. Len(word) + 1 /\ p + 1 \in p + 1 .. Len(word) + 1
        BY <1>1
      <3> HIDE DEF word
      <3> QED BY <1>1, <3>1, PlainFacts
    <2> HIDE DEF S
    <2> QED BY <2>1, <2>2
  <1>9. ASSUME ShortWord(line, w, p + 1).calls \in Calls
        PROVE  ShortWord(line, w, p) =
                  Then(<< flag >> \o ShortWord(line, w, p + 1).calls, ShortWord(line, w, p + 1).next)
    <2>1. Short(p + 1).calls \in Calls
      BY <1>4, <1>9
    <2>2. \A s \in Calls : \A c \in CallSet : (<< flag >> \o s) \o <<>> = << flag >> \o s /\ 
             Append(<< flag >> \o s, c) = << flag >> \o Append(s, c)
      <3> HIDE DEF flag
      <3> QED BY <1>6 DEF Calls
    <2>3. \A s, t \in Calls : (<< flag >> \o s) \o t = << flag >> \o (s \o t)
      <3> HIDE DEF flag
      <3> QED BY <1>6 DEF Calls
    <2>4. Short(p) = Then(<< flag >> \o Short(p + 1).calls, Short(p + 1).next)
      <3> HIDE DEF word, flag
      <3>1. CASE S = {}
        <4>1. Short(p) = Then(Plain(word, p, Len(word) + 1), w + 1) /\ Short(p + 1) = Then(Plain(word, p + 1, Len(word) + 1), w + 1)
          <5> HIDE DEF S, j
          <5> QED BY <3>1
        <4>2. Len(word) + 1 \in p + 1 .. Len(word) + 1
          BY <1>1 DEF word
        <4>3. Plain(word, p, Len(word) + 1) = << flag >> \o Plain(word, p + 1, Len(word) + 1)
          BY <1>7, <4>2
        <4> HIDE DEF Short, S, j, call, last
        <4> QED BY <4>1, <4>3, ThenFacts
      <3>2. CASE S # {}
        <4>1. j \in p + 1 .. Len(word) + 1 /\ j \in 1 .. Len(word)
          <5> HIDE DEF S, j
          <5> QED BY <1>1, <1>5, <3>2 DEF word
        <4> DEFINE a == Plain(word, p, j)
                   b == Plain(word, p + 1, j)
        <4>2. a = << flag >> \o b /\ b \in Calls
          <5> HIDE DEF j
          <5> QED BY <1>7, <4>1
        <4>3. call(j) \in CallSet /\ last(j).calls \in Calls
          <5> HIDE DEF j
          <5>1. word[j] \in Told /\ SubSeq(word, j + 1, Len(word)) \in Seq(STRING)
            BY <1>1, <4>1 DEF Told, word
          <5>2. call(j) \in CallSet
            BY <5>1, CallFacts DEF ShortCall, word
          <5> HIDE DEF call
          <5> QED BY <5>2, NextWordSays, CallFacts DEF Says
        <4> HIDE DEF j, S
        <4>4. CASE ~ Known(word[j])
          <5>1. Short(p) = Then(Append(a, Bad), 0) /\ Short(p + 1) = Then(Append(b, Bad), 0)
            BY <3>2, <4>4
          <5>2. Append(a, Bad) = << flag >> \o Append(b, Bad)
            BY <2>2, <4>2, CallFacts
          <5> HIDE DEF Short, a, b
          <5> QED BY <5>1, <5>2, ThenFacts
        <4>5. CASE Known(word[j]) /\ j < Len(word)
          <5>1. Short(p) = Then(Append(a, call(j)), w + 1) /\ Short(p + 1) = Then(Append(b, call(j)), w + 1)
            BY <3>2, <4>5
          <5>2. Append(a, call(j)) = << flag >> \o Append(b, call(j))
            BY <2>2, <4>2, <4>3
          <5> HIDE DEF Short, a, b, call
          <5> QED BY <5>1, <5>2, ThenFacts
        <4>6. CASE Known(word[j]) /\ ~ (j < Len(word))
          <5>1. Short(p) = Then(a \o last(j).calls, last(j).next) /\ Short(p + 1) = Then(b \o last(j).calls, last(j).next)
            BY <3>2, <4>6
          <5>2. a \o last(j).calls = << flag >> \o (b \o last(j).calls)
            <6> HIDE DEF last
            <6> QED BY <2>3, <4>2, <4>3
          <5> HIDE DEF Short, a, b, last
          <5> QED BY <5>1, <5>2, ThenFacts
        <4> QED BY <4>4, <4>5, <4>6
      <3> QED BY <3>1, <3>2
    <2> HIDE DEF Short
    <2> QED BY <1>3, <1>4, <2>4
  <1> HIDE DEF Short
  <1> QED BY <1>8, <1>9

LEMMA ShortWordSays ==
    ASSUME NEW line \in ArgVs, NEW w \in 1 .. Len(line), NEW p \in 1 .. Len(line[w]) + 1
    PROVE  Says(line, w, ShortWord(line, w, p))
  <1> DEFINE word == line[w]
             n == Len(word) + 1
             A == {i \in 1 .. n : Says(line, w, ShortWord(line, w, n + 1 - i))}
  <1>1. word \in Seq(STRING) /\ Len(word) \in Nat /\ n \in Nat /\ n >= 1 /\ Len(line) \in Nat
    BY LineFacts
  <1>2. Says(line, w, Then(<<>>, w + 1))
    <2>1. <<>> \in Calls
      BY DEF Calls
    <2>2. w + 1 \in 0 .. Len(line) + 1 /\ w + 1 > w
      BY <1>1
    <2> QED BY <2>1, <2>2, ThenFacts DEF Says
  <1>3. ASSUME NEW q \in 1 .. Len(word), ~ Known(word[q]) \/ Takes(word[q])
        PROVE  Says(line, w, ShortWord(line, w, q))
    <2>1. ShortCall(line, w, q) \in CallSet
      <3>1. word[q] \in Told /\ SubSeq(word, q + 1, Len(word)) \in Seq(STRING)
        BY <1>1 DEF Told
      <3> QED BY <3>1, CallFacts DEF ShortCall
    <2>2. Says(line, w, NextWord(line, ShortCall(line, w, q), Bad, w))
      BY <2>1, NextWordSays, CallFacts
    <2>3. \A c \in CallSet : <<c>> \in Calls
      BY DEF Calls
    <2>4. Says(line, w, Then(<< Bad >>, 0)) /\ Says(line, w, Then(<< ShortCall(line, w, q) >>, w + 1))
      <3>1. 0 \in 0 .. Len(line) + 1 /\ w + 1 \in 0 .. Len(line) + 1 /\ w + 1 > w
        BY <1>1
      <3> QED BY <2>1, <2>3, <3>1, CallFacts, ThenFacts DEF Says
    <2>5. q < Len(word) \/ q >= Len(word)
      BY <1>1
    <2> QED BY <1>3, <2>2, <2>4, <2>5, ShortWordStop
  <1>4. ASSUME NEW q \in 1 .. Len(word), Known(word[q]), ~ Takes(word[q]),
               Says(line, w, ShortWord(line, w, q + 1))
        PROVE  Says(line, w, ShortWord(line, w, q))
    <2> DEFINE flag == Call(word[q], <<>>, 0)
               rest == ShortWord(line, w, q + 1)
    <2>1. flag \in CallSet
      <3>1. word[q] \in Told /\ <<>> \in Seq(STRING)
        BY <1>1 DEF Told
      <3> QED BY <3>1, CallFacts
    <2>2. ShortWord(line, w, q) = Then(<< flag >> \o rest.calls, rest.next)
      BY <1>4, ShortWordFlag DEF Says
    <2> HIDE DEF flag, rest
    <2>3. << flag >> \o rest.calls \in Calls
      BY <1>4, <2>1 DEF Says, Calls, rest
    <2> QED BY <1>4, <2>2, <2>3, ThenFacts DEF Says, rest
  <1>5. 1 \in A
    <2>1. n + 1 - 1 = Len(word) + 1 /\ 1 \in 1 .. n
      BY <1>1
    <2>2. ShortWord(line, w, Len(word) + 1) = Then(<<>>, w + 1)
      <3>1. {j \in Len(word) + 1 .. Len(word) : ~ Known(word[j]) \/ Takes(word[j])} = {}
        BY <1>1
      <3>2. Plain(word, Len(word) + 1, Len(word) + 1) = <<>>
        <4>1. Len(word) + 1 \in 1 .. Len(word) + 1 /\ Len(word) + 1 \in Len(word) + 1 .. Len(word) + 1
          BY <1>1
        <4> HIDE DEF word
        <4> QED BY <1>1, <4>1, PlainFacts
      <3> QED BY <3>1, <3>2 DEF ShortWord
    <2> QED BY <1>2, <2>1, <2>2
  <1>6. ASSUME NEW i \in 1 .. n - 1, i \in A PROVE i + 1 \in A
    <2> DEFINE q == n + 1 - (i + 1)
    <2>1. q \in 1 .. Len(word) /\ n + 1 - i = q + 1 /\ i + 1 \in 1 .. n
      <3>1. n = Len(word) + 1 /\ Len(word) \in Nat
        BY <1>1
      <3> HIDE DEF A, n, word
      <3> QED BY <3>1
    <2> HIDE DEF q, n
    <2>2. Says(line, w, ShortWord(line, w, q + 1))
      BY <1>6, <2>1
    <2>3. Says(line, w, ShortWord(line, w, q))
      BY <1>3, <1>4, <2>1, <2>2
    <2> QED BY <2>1, <2>3 DEF q
  <1> HIDE DEF A
  <1>7. 1 .. n \subseteq A
    BY <1>1, <1>5, <1>6, IntervalInduction
  <1>8. n + 1 - p \in 1 .. n /\ n + 1 - (n + 1 - p) = p
    <2>1. n \in Nat /\ p \in 1 .. n
      BY <1>1
    <2> HIDE DEF n
    <2> QED BY <2>1
  <1>9. n + 1 - p \in A
    BY <1>7, <1>8
  <1> QED BY <1>8, <1>9 DEF A

-----------------------------------------------------------------------------
(* Long options *)

(* The first of the entries that a word spells.                             *)
LEMMA SpelledFirst ==
    ASSUME NEW word, NEW i \in Spelled(word), \A k \in Spelled(word) : i <= k
    PROVE  (CHOOSE k \in Spelled(word) : \A l \in Spelled(word) : k <= l) = i
  <1> DEFINE S == Spelled(word)
             j == CHOOSE k \in S : \A l \in S : k <= l
  <1>1. S \subseteq Nat
    BY LongoptsFacts DEF Spelled
  <1> HIDE DEF S
  <1>2. j \in S /\ \A l \in S : j <= l
    BY DEF S
  <1> HIDE DEF j
  <1>3. j = i
    BY <1>1, <1>2 DEF S
  <1> QED BY <1>3 DEF j, S

LEMMA SpelledLeast ==
    ASSUME NEW word, Spelled(word) # {}
    PROVE  \E i \in Spelled(word) : i \in 1 .. Len(longopts) /\ \A k \in Spelled(word) : i <= k
  <1>1. Spelled(word) \subseteq 1 .. Len(longopts) /\ Spelled(word) \in SUBSET Nat
    BY LongoptsFacts DEF Spelled
  <1> QED BY <1>1, LeastOfSet

LongCall(line, w, i) ==
    Call(IF longopts[i].flag THEN "0" ELSE longopts[i].val,
         SubSeq(line[w], Len(longopts[i].name) + 4, Len(line[w])), i)

LEMMA LongWordIs ==
    ASSUME NEW line \in ArgVs, NEW w \in 1 .. Len(line), NEW i \in Spelled(line[w]),
           \A k \in Spelled(line[w]) : i <= k
    PROVE  LET long == longopts[i] call == LongCall(line, w, i)
           IN  /\ LongWord(line, w) =
                     IF long.has_arg = "invalid" THEN Then(<< Stop(w + 1) >>, 0)
                     ELSE IF Name(line[w]) # long.name THEN Then(<< call >>, w + 1)
                     ELSE IF \/ long.has_arg = "required_argument"
                             \/ /\ long.has_arg = "optional_argument"
                                /\ w < Len(line) /\ ~ IsPrefix(<<"-">>, line[w + 1])
                          THEN NextWord(line, call, Stop(w + 1), w)
                     ELSE Then(<< call >>, w + 1)
               /\ call \in CallSet /\ Says(line, w, LongWord(line, w))
  <1> DEFINE call == LongCall(line, w, i)
  <1>1. LongWord(line, w) =
                     IF longopts[i].has_arg = "invalid" THEN Then(<< Stop(w + 1) >>, 0)
                     ELSE IF Name(line[w]) # longopts[i].name THEN Then(<< call >>, w + 1)
                     ELSE IF \/ longopts[i].has_arg = "required_argument"
                             \/ /\ longopts[i].has_arg = "optional_argument"
                                /\ w < Len(line) /\ ~ IsPrefix(<<"-">>, line[w + 1])
                          THEN NextWord(line, call, Stop(w + 1), w)
                     ELSE Then(<< call >>, w + 1)
    <2>1. (CHOOSE k \in Spelled(line[w]) : \A l \in Spelled(line[w]) : k <= l) = i
      BY SpelledFirst
    <2> QED BY <2>1 DEF LongWord, LongCall
  <1>2. Len(line) \in Nat /\ line[w] \in Seq(STRING) /\ Len(line[w]) \in Nat
    BY LineFacts
  <1>3. i \in 1 .. Len(longopts) /\ i \in Nat
    BY LongoptsFacts DEF Spelled
  <1>4. call \in CallSet
    <2>1. longopts[i].val \in STRING /\ Len(longopts[i].name) \in Nat
      BY <1>3, LongoptsFacts DEF LongOption
    <2>2. SubSeq(line[w], Len(longopts[i].name) + 4, Len(line[w])) \in Seq(STRING)
      BY <1>2, <2>1
    <2>3. (IF longopts[i].flag THEN "0" ELSE longopts[i].val) \in Told
      BY <2>1 DEF Told
    <2> QED BY <1>3, <2>2, <2>3, CallFacts DEF LongCall
  <1> HIDE DEF call
  <1>5. Stop(w + 1) \in CallSet
    BY <1>2, CallFacts
  <1>6. Says(line, w, Then(<< Stop(w + 1) >>, 0)) /\ Says(line, w, Then(<< call >>, w + 1))
    <2>1. 0 \in 0 .. Len(line) + 1 /\ w + 1 \in 0 .. Len(line) + 1 /\ w + 1 > w
      BY <1>2
    <2>2. \A c \in CallSet : <<c>> \in Calls
      BY DEF Calls
    <2> QED BY <1>4, <1>5, <2>1, <2>2, ThenFacts DEF Says
  <1>7. Says(line, w, NextWord(line, call, Stop(w + 1), w))
    BY <1>4, <1>5, NextWordSays
  <1>8. Says(line, w, LongWord(line, w))
    BY <1>1, <1>6, <1>7
  <1> QED BY <1>1, <1>4, <1>8 DEF call

LEMMA WordSays ==
    ASSUME NEW line \in ArgVs, NEW w \in 1 .. Len(line) + 1
    PROVE  Says(line, w, Word(line, w))
  <1>1. Len(line) \in Nat
    BY LineFacts
  <1>2. Says(line, w, Then(<< Stop(w) >>, 0)) /\ Says(line, w, Then(<< Stop(w + 1) >>, 0))
    <2>1. Stop(w) \in CallSet /\ Stop(w + 1) \in CallSet
      BY <1>1, CallFacts
    <2>2. \A c \in CallSet : <<c>> \in Calls
      BY DEF Calls
    <2>3. 0 \in 0 .. Len(line) + 1
      BY <1>1
    <2> QED BY <2>1, <2>2, <2>3, ThenFacts DEF Says
  <1>3. ASSUME IsOption(line, w)
        PROVE  w \in 1 .. Len(line) /\ 2 \in 1 .. Len(line[w]) + 1 /\ 3 \in 1 .. Len(line[w]) + 1
    <2>1. w \in 1 .. Len(line)
      BY <1>1, <1>3 DEF IsOption
    <2>2. Len(line[w]) \in Nat
      BY <2>1, LineFacts
    <2> QED BY <1>3, <2>1, <2>2 DEF IsOption
  <1>4. ASSUME IsOption(line, w)
        PROVE  /\ Says(line, w, ShortWord(line, w, 2)) /\ Says(line, w, ShortWord(line, w, 3))
               /\ Spelled(line[w]) # {} => Says(line, w, LongWord(line, w))
    BY <1>3, <1>4, ShortWordSays, SpelledLeast, LongWordIs
  <1> QED BY <1>2, <1>4 DEF Word

From(line) ==
    CHOOSE from : from = [w \in 1 .. Len(line) + 1 |->
        IF Word(line, w).next = 0 THEN Word(line, w).calls
                                  ELSE Word(line, w).calls \o from[Word(line, w).next]]

(* A word, and all that comes after it.                                     *)
Rest(line, this) == IF this.next = 0 THEN this.calls ELSE this.calls \o From(line)[this.next]

LEMMA FromFacts ==
    ASSUME NEW line \in ArgVs
    PROVE  /\ Parse(line) = From(line)[1]
           /\ \A w \in 1 .. Len(line) + 1 :
                From(line)[w] \in Calls /\ From(line)[w] = Rest(line, Word(line, w))
  <1> DEFINE n == Len(line) + 1
             says == [w \in 1 .. n |-> Word(line, w).calls]
             next == [w \in 1 .. n |-> Word(line, w).next]
             f == From(line)
  <1>1. n \in Nat
    BY LineFacts
  <1>2. \A w \in 1 .. n : Says(line, w, Word(line, w))
    BY WordSays
  <1>3. says \in [1 .. n -> Seq(CallSet)] /\ next \in [1 .. n -> 0 .. n] /\ \A w \in 1 .. n : next[w] # 0 => next[w] > w
    BY <1>2 DEF Says, Calls
  <1>4. ASSUME NEW g PROVE GoesOn(g, n, says, next) <=>
             g = [w \in 1 .. n |-> IF Word(line, w).next = 0 THEN Word(line, w).calls
                                   ELSE Word(line, w).calls \o g[Word(line, w).next]]
    BY DEF GoesOn
  <1>5. f = CHOOSE g : GoesOn(g, n, says, next)
    BY DEF From, GoesOn
  <1>6. GoesOn(f, n, says, next) /\ f \in [1 .. n -> Seq(CallSet)]
    <2> HIDE DEF f, n, says, next
    <2>1. GoesOn(f, n, says, next)
      BY <1>1, <1>3, <1>5, GoesOnFrom
    <2> QED BY <1>1, <1>3, <2>1, GoesOnFrom
  <1>7. Parse(line) = f[1]
    BY DEF Parse, From
  <1>8. ASSUME NEW w \in 1 .. n PROVE f[w] = Rest(line, Word(line, w))
    <2>1. f = [v \in 1 .. n |-> IF Word(line, v).next = 0 THEN Word(line, v).calls
                                   ELSE Word(line, v).calls \o f[Word(line, v).next]]
      <3> HIDE DEF f
      <3> QED BY <1>4, <1>6
    <2> HIDE DEF f, n
    <2> QED BY <2>1 DEF Rest, f
  <1> QED BY <1>6, <1>7, <1>8 DEF Calls

-----------------------------------------------------------------------------
(* Prefixes *)

LEMMA PrefixIs ==
    ASSUME NEW S, NEW s \in Seq(S), NEW t \in Seq(S)
    PROVE  IsPrefix(s, t) <=> Len(s) <= Len(t) /\ \A k \in 1 .. Len(s) : s[k] = t[k]
  <1>1. Len(s) \in Nat /\ Len(t) \in Nat /\ SubSeq(s, 1, Len(s)) = s
    OBVIOUS
  <1>2. ASSUME IsPrefix(s, t), NEW k \in 1 .. Len(s)
        PROVE  Len(s) <= Len(t) /\ s[k] = t[k]
    <2>1. Len(s) <= Len(t) /\ s = SubSeq(t, 1, Len(s))
      BY <1>1, <1>2 DEF IsPrefix
    <2>2. SubSeq(t, 1, Len(s))[k] = t[k]
      BY <1>1, <2>1
    <2> QED BY <2>1, <2>2
  <1>3. ASSUME Len(s) <= Len(t), \A k \in 1 .. Len(s) : s[k] = t[k] PROVE IsPrefix(s, t)
    <2>1. s = SubSeq(t, 1, Len(s))
      <3>1. SubSeq(t, 1, Len(s)) \in Seq(S) /\ Len(SubSeq(t, 1, Len(s))) = Len(s)
        BY <1>1, <1>3
      <3>2. \A k \in 1 .. Len(s) : SubSeq(t, 1, Len(s))[k] = t[k]
        BY <1>1, <1>3
      <3> QED BY <1>3, <3>1, <3>2
    <2> QED BY <1>1, <1>3, <2>1 DEF IsPrefix
  <1>4. IsPrefix(s, t) => Len(s) <= Len(t)
    BY DEF IsPrefix
  <1> QED BY <1>2, <1>3, <1>4

LEMMA PrefixAppend ==
    ASSUME NEW S, NEW s \in Seq(S), NEW t \in Seq(S), NEW c \in S
    PROVE  /\ IsPrefix(Append(s, c), t) <=> IsPrefix(s, t) /\ Len(s) < Len(t) /\ t[Len(s) + 1] = c
           /\ s = t <=> IsPrefix(s, t) /\ Len(s) = Len(t)
  <1> DEFINE u == Append(s, c)
  <1>1. /\ u \in Seq(S) /\ Len(u) = Len(s) + 1 /\ Len(s) \in Nat /\ Len(t) \in Nat
        /\ u[Len(s) + 1] = c /\ \A k \in 1 .. Len(s) : u[k] = s[k]
    OBVIOUS
  <1> HIDE DEF u
  <1>2. IsPrefix(u, t) <=> Len(u) <= Len(t) /\ \A k \in 1 .. Len(u) : u[k] = t[k]
    BY <1>1, PrefixIs
  <1>3. IsPrefix(s, t) <=> Len(s) <= Len(t) /\ \A k \in 1 .. Len(s) : s[k] = t[k]
    BY <1>1, PrefixIs
  <1>4. IsPrefix(u, t) => IsPrefix(s, t) /\ Len(s) < Len(t) /\ t[Len(s) + 1] = c
    <2> SUFFICES ASSUME IsPrefix(u, t)
                 PROVE  IsPrefix(s, t) /\ Len(s) < Len(t) /\ t[Len(s) + 1] = c
      OBVIOUS
    <2>1. Len(s) + 1 <= Len(t) /\ \A k \in 1 .. Len(s) + 1 : u[k] = t[k]
      BY <1>1, <1>2
    <2>2. t[Len(s) + 1] = c /\ \A k \in 1 .. Len(s) : s[k] = t[k]
      BY <1>1, <2>1
    <2> QED BY <1>1, <1>3, <2>1, <2>2
  <1>5. IsPrefix(s, t) /\ Len(s) < Len(t) /\ t[Len(s) + 1] = c => IsPrefix(u, t)
    <2> SUFFICES ASSUME IsPrefix(s, t), Len(s) < Len(t), t[Len(s) + 1] = c
                 PROVE  IsPrefix(u, t)
      OBVIOUS
    <2>1. \A k \in 1 .. Len(s) + 1 : u[k] = t[k]
      BY <1>1, <1>3
    <2> QED BY <1>1, <1>2, <2>1
  <1>6. IsPrefix(s, t) /\ Len(s) = Len(t) => s = t
    <2> SUFFICES ASSUME IsPrefix(s, t), Len(s) = Len(t) PROVE s = t
      OBVIOUS
    <2>1. \A k \in 1 .. Len(s) : s[k] = t[k]
      BY <1>3
    <2> QED BY <2>1
  <1>7. IsPrefix(s, s)
    BY DEF IsPrefix
  <1> QED BY <1>4, <1>5, <1>6, <1>7 DEF u

(* The characters of the word being read, and the NUL behind them.          *)
LEMMA WordChars ==
    ASSUME OInv, Start = Arg(optind), optind < argc
    PROVE  /\ optind \in 1 .. Len(argv) /\ argv[optind] \in Seq(STRING) /\ Len(argv[optind]) \in Nat
           /\ Start \in Ptr /\ Start.word = optind /\ Start.pos = 1 /\ Start # NULL
           /\ \A n \in Nat :
                /\ Skip(Start, n).word = optind /\ Skip(Start, n).pos = n + 1 /\ Skip(Start, n) \in Ptr
                /\ n < Len(argv[optind]) => Char(Skip(Start, n)) = argv[optind][n + 1] /\ Char(Skip(Start, n)) # NUL
                /\ n >= Len(argv[optind]) => Char(Skip(Start, n)) = NUL
           /\ Skip(Start, 0) = Start
  <1>1. argv \in ArgVs /\ optind \in 1 .. Len(argv) /\ Len(argv) \in Nat
    BY ArgvFacts DEF OInv
  <1>2. /\ argv[optind] \in Seq(STRING) /\ Len(argv[optind]) \in Nat
        /\ \A k \in 1 .. Len(argv[optind]) : argv[optind][k] # NUL
    BY <1>1, LineFacts
  <1>3. Start \in Ptr /\ Start = [word |-> optind, pos |-> 1] /\ Start # NULL
    BY <1>1 DEF Arg, Ptr, NULL
  <1>4. ASSUME NEW n \in Nat
        PROVE  /\ Skip(Start, n).word = optind /\ Skip(Start, n).pos = n + 1 /\ Skip(Start, n) \in Ptr
               /\ n < Len(argv[optind]) => Char(Skip(Start, n)) = argv[optind][n + 1] /\ Char(Skip(Start, n)) # NUL
               /\ n >= Len(argv[optind]) => Char(Skip(Start, n)) = NUL
    <2>1. Skip(Start, n).word = optind /\ Skip(Start, n).pos = n + 1 /\ Skip(Start, n) \in Ptr
      <3>1. Start.word = optind /\ Start.pos = 1 /\ Start \in Ptr
        BY <1>3
      <3>2. /\ Skip(Start, n) \in Ptr /\ Skip(Start, n).word = Start.word
            /\ Skip(Start, n).pos = Start.pos + n
        BY <3>1, SkipFacts, Zenon
      <3>3. 1 + n = n + 1
        OBVIOUS
      <3> QED BY <3>1, <3>2, <3>3, Zenon
    <2>2. Char(Skip(Start, n)) = IF n + 1 > Len(argv[optind]) THEN NUL ELSE argv[optind][n + 1]
      BY <2>1 DEF Char
    <2>3. n < Len(argv[optind]) => n + 1 \in 1 .. Len(argv[optind])
      BY <1>2
    <2> QED BY <1>2, <2>1, <2>2, <2>3
  <1>5. Skip(Start, 0) = Start /\ Start.word = optind /\ Start.pos = 1
    BY <1>3, SkipFacts
  <1> QED BY <1>1, <1>2, <1>3, <1>4, <1>5

LEMMA DashChars ==
    ASSUME OInv, Start = Arg(optind), optind < argc
    PROVE  /\ Char(Start) = "-" <=> Len(argv[optind]) >= 1 /\ argv[optind][1] = "-"
           /\ Char(Skip(Start, 1)) = "-" <=> Len(argv[optind]) >= 2 /\ argv[optind][2] = "-"
           /\ Dashes(1) <=> ~ in_chain /\ Char(Start) = "-"
           /\ Dashes(2) <=> ~ in_chain /\ Char(Start) = "-" /\ Char(Skip(Start, 1)) = "-"
           /\ Dashes(2) => IsLong(argv, optind)
           /\ Dashes(1) /\ Len(argv[optind]) > 1 => IsOption(argv, optind)
           /\ IsLong(argv, optind) => Char(Skip(Start, 1)) = "-"
           /\ IsOption(argv, optind) => Char(Start) = "-"
           /\ Dashes(2) /\ Len(argv[optind]) = 2 => argv[optind] = <<"-", "-">>
  <1> DEFINE word == argv[optind]
             n == Len(word)
  <1>1. optind \in 1 .. Len(argv) /\ word \in Seq(STRING) /\ n \in Nat /\ Len(argv) \in Nat
    BY WordChars, ArgvFacts DEF OInv
  <1>2. (0 < n => Char(Start) = word[1]) /\ (0 >= n => Char(Start) = NUL)
    <2>1. 0 \in Nat /\ Skip(Start, 0) = Start /\ 0 + 1 = 1
      BY WordChars
    <2> QED BY <2>1, WordChars
  <1>3. (1 < n => Char(Skip(Start, 1)) = word[2]) /\ (1 >= n => Char(Skip(Start, 1)) = NUL)
    <2>1. 1 \in Nat /\ 1 + 1 = 2
      OBVIOUS
    <2> QED BY <2>1, WordChars
  <1>4. NUL # "-"
    BY DEF NUL
  <1>5. Char(Start) = "-" <=> n >= 1 /\ word[1] = "-"
    BY <1>1, <1>2, <1>4
  <1>6. Char(Skip(Start, 1)) = "-" <=> n >= 2 /\ word[2] = "-"
    BY <1>1, <1>3, <1>4
  <1>7. (Dashes(1) <=> ~ in_chain /\ Char(Start) = "-") /\ (Dashes(2) <=> ~ in_chain /\ Char(Start) = "-" /\ Char(Skip(Start, 1)) = "-")
    <2>1. Start # NULL /\ Skip(Start, 0) = Start
      BY WordChars
    <2>2. 0 .. 1 - 1 = {0} /\ 0 .. 2 - 1 = {0, 1}
      OBVIOUS
    <2> QED BY <2>1, <2>2 DEF Dashes, AtWord
  <1>8. optind <= Len(argv)
    BY <1>1
  <1>9. n >= 2 => n > 1
    BY <1>1
  <1>10. ASSUME n = 2, word[1] = "-", word[2] = "-" PROVE word = <<"-", "-">>
    <2> HIDE DEF word
    <2> QED BY <1>1, <1>10
  <1> QED BY <1>1, <1>5, <1>6, <1>7, <1>8, <1>9, <1>10 DEF IsLong, IsOption

LEMMA LongChars ==
    ASSUME OInv, Start = Arg(optind), optind < argc, Dashes(2)
    PROVE  /\ Text(Skip(Start, 2)) = Name(argv[optind]) /\ Name(argv[optind]) \in Seq(STRING)
           /\ Len(argv[optind]) >= 2 /\ Len(Name(argv[optind])) = Len(argv[optind]) - 2
           /\ \A k \in 1 .. Len(argv[optind]) - 2 : Name(argv[optind])[k] = argv[optind][k + 2]
           /\ argv[optind][1] = "-" /\ argv[optind][2] = "-"
  <1> DEFINE word == argv[optind]
  <1>1. word \in Seq(STRING) /\ Len(word) \in Nat
    BY WordChars
  <1>2. Len(word) >= 2 /\ word[1] = "-" /\ word[2] = "-"
    BY DashChars
  <1>3. Skip(Start, 2).word = optind /\ Skip(Start, 2).pos = 3 /\ Skip(Start, 2) # NULL
    <2>1. 2 \in Nat /\ 2 + 1 = 3
      OBVIOUS
    <2>2. Skip(Start, 2).word = optind /\ Skip(Start, 2).pos = 3
      BY <2>1, WordChars
    <2> QED BY <2>2 DEF NULL
  <1>4. Text(Skip(Start, 2)) = Name(word)
    BY <1>3 DEF Text, Name
  <1> HIDE DEF word
  <1>5. /\ Name(word) \in Seq(STRING) /\ Len(Name(word)) = Len(word) - 2
        /\ \A k \in 1 .. Len(word) - 2 : Name(word)[k] = word[k + 2]
    <2>1. SubSeq(word, 3, Len(word)) \in Seq(STRING)
      BY <1>1
    <2>2. Len(SubSeq(word, 3, Len(word))) = Len(word) - 2
      <3>1. CASE Len(word) = 2
        <4>1. SubSeq(word, 3, 2) = <<>>
          OBVIOUS
        <4> QED BY <3>1, <4>1
      <3>2. CASE Len(word) # 2
        <4>1. 3 <= Len(word)
          <5>1. Len(word) >= 2 /\ Len(word) \in Nat
            BY <1>1, <1>2, Zenon
          <5>2. \A n \in Nat : n >= 2 /\ n # 2 => 3 <= n
            OBVIOUS
          <5> QED BY <3>2, <5>1, <5>2, Zenon
        <4>2. Len(SubSeq(word, 3, Len(word))) = Len(word) - 3 + 1
          BY <1>1, <4>1
        <4> QED BY <1>1, <4>2
      <3> QED BY <3>1, <3>2
    <2>3. ASSUME NEW k \in 1 .. Len(word) - 2 PROVE SubSeq(word, 3, Len(word))[k] = word[k + 2]
      BY <1>1, <1>2
    <2> QED BY <2>1, <2>2, <2>3 DEF Name
  <1> QED BY <1>2, <1>4, <1>5 DEF word

LEMMA ConcatIs ==
    ASSUME NEW S, NEW s \in Seq(S), NEW t \in Seq(S)
    PROVE  /\ s \o t \in Seq(S) /\ Len(s \o t) = Len(s) + Len(t)
           /\ \A k \in 1 .. Len(s) : (s \o t)[k] = s[k]
           /\ \A k \in 1 .. Len(t) : (s \o t)[Len(s) + k] = t[k]
  <1>1. Len(s) \in Nat /\ Len(t) \in Nat
    OBVIOUS
  <1>2. s \o t \in Seq(S) /\ Len(s \o t) = Len(s) + Len(t)
    OBVIOUS
  <1>3. \A k \in 1 .. Len(s) : (s \o t)[k] = s[k]
    BY <1>1
  <1>4. ASSUME NEW k \in 1 .. Len(t) PROVE (s \o t)[Len(s) + k] = t[k]
    <2>1. Len(s) + k \in 1 .. Len(s) + Len(t) /\ ~ (Len(s) + k <= Len(s)) /\ (Len(s) + k) - Len(s) = k
      BY <1>1
    <2> QED BY <2>1
  <1> QED BY <1>2, <1>3, <1>4

(* A name that the word begins with, after the dashes.                      *)
LEMMA DashesPrefix ==
    ASSUME NEW word \in Seq(STRING), Len(word) >= 2, word[1] = "-", word[2] = "-",
           NEW name \in Seq(STRING), IsPrefix(name, Name(word)),
           Name(word) \in Seq(STRING), Len(Name(word)) = Len(word) - 2,
           \A k \in 1 .. Len(word) - 2 : Name(word)[k] = word[k + 2]
    PROVE  IsPrefix(<<"-", "-">> \o name, word)
  <1> DEFINE S == STRING \cup {"-"}
             two == <<"-", "-">>
             s == two \o name
  <1>1. word \in Seq(S) /\ name \in Seq(S) /\ two \in Seq(S) /\ Len(two) = 2 /\ two[1] = "-" /\ two[2] = "-"
    OBVIOUS
  <1>2. Len(word) \in Nat /\ Len(name) \in Nat
    OBVIOUS
  <1>0. word \in Seq(S) /\ name \in Seq(S) /\ two \in Seq(S)
    BY <1>1
  <1> HIDE DEF S, two
  <1>3. s \in Seq(S) /\ Len(s) = Len(name) + 2 /\ s[1] = "-" /\ s[2] = "-"
    <2>0. s \in Seq(S) /\ Len(s) = Len(two) + Len(name) /\ \A k \in 1 .. Len(two) : s[k] = two[k]
      BY <1>0, ConcatIs, Zenon
    <2> HIDE DEF s
    <2>1. s \in Seq(S) /\ Len(s) = 2 + Len(name) /\ \A k \in 1 .. 2 : s[k] = two[k]
      BY <1>1, <2>0, Zenon
    <2>2. 1 \in 1 .. 2 /\ 2 \in 1 .. 2 /\ 2 + Len(name) = Len(name) + 2
      BY <1>2
    <2> QED BY <1>1, <2>1, <2>2
  <1>4. \A k \in 1 .. Len(name) : s[k + 2] = name[k]
    <2>0. ASSUME NEW k \in 1 .. Len(name) PROVE s[Len(two) + k] = name[k]
      BY <1>0, ConcatIs
    <2>1. \A k \in 1 .. Len(name) : s[2 + k] = name[k]
      BY <1>1, <2>0, Zenon
    <2>2. \A k \in 1 .. Len(name) : 2 + k = k + 2
      BY <1>2
    <2> HIDE DEF s
    <2> QED BY <2>1, <2>2
  <1> HIDE DEF s
  <1>5. Len(name) <= Len(word) - 2 /\ \A k \in 1 .. Len(name) : name[k] = word[k + 2]
    <2>1. Len(name) <= Len(word) - 2 /\ \A k \in 1 .. Len(name) : name[k] = Name(word)[k]
      BY PrefixIs
    <2> QED BY <1>2, <2>1
  <1>6. ASSUME NEW k \in 1 .. Len(s) PROVE s[k] = word[k]
    <2>1. k = 1 \/ k = 2 \/ (k - 2 \in 1 .. Len(name) /\ (k - 2) + 2 = k)
      BY <1>2, <1>3
    <2> QED BY <1>3, <1>4, <1>5, <2>1
  <1>7. Len(s) <= Len(word)
    BY <1>2, <1>3, <1>5
  <1> QED BY <1>1, <1>3, <1>6, <1>7, PrefixIs DEF s, two

(* Up to the first entry that is spelled, the loop over longopts stays at   *)
(* the name that the word gives.                                            *)
LEMMA AtName ==
    ASSUME OInv, NamesSpelled, Start = Arg(optind), optind < argc, Dashes(2)
    PROVE  \A i \in 1 .. Len(longopts) + 1 :
              (\A k \in Spelled(argv[optind]) : i <= k) => At[i] = Skip(Start, 2)
  <1> DEFINE word == argv[optind]
             n == Len(longopts) + 1
             p == Skip(Start, 2)
             A == {i \in 1 .. n : (\A k \in Spelled(word) : i <= k) => At[i] = p}
  <1>1. n \in Nat /\ n >= 1 /\ n - 1 = Len(longopts)
    BY LongoptsFacts
  <1>2. At[1] = p /\ \A i \in 1 .. Len(longopts) : At[i + 1] = AtStep(i, At[i])
    <2>1. ASSUME NEW i \in 1 .. Len(longopts), NEW q \in Ptr PROVE AtStep(i, q) \in Ptr
      <3>1. Len(longopts[i].name) \in Nat
        BY LongoptsFacts
      <3> QED BY <3>1, SkipFacts DEF AtStep
    <2>2. p \in Ptr
      BY StartFacts, SkipFacts
    <2> QED BY <2>1, <2>2, AtFacts
  <1>3. ASSUME NEW i \in 1 .. Len(longopts), \A k \in Spelled(word) : i + 1 <= k
        PROVE  AtStep(i, p) = p
    <2>1. longopts[i].name \in Seq(STRING)
      BY LongoptsFacts
    <2>2. /\ Name(word) \in Seq(STRING) /\ Text(p) = Name(word) /\ Len(word) >= 2
          /\ Len(Name(word)) = Len(word) - 2 /\ word[1] = "-" /\ word[2] = "-"
          /\ \A k \in 1 .. Len(word) - 2 : Name(word)[k] = word[k + 2]
          /\ word \in Seq(STRING)
      BY LongChars, WordChars
    <2>3. ASSUME IsPrefix(longopts[i].name, Name(word)) PROVE FALSE
      <3>1. IsPrefix(<<"-", "-">> \o longopts[i].name, word)
        <4> HIDE DEF word
        <4> QED BY <2>1, <2>2, <2>3, DashesPrefix
      <3>2. optind \in DOMAIN argv /\ argv \in ArgVs
        <4>1. argv \in Seq(Seq(STRING)) /\ optind \in 1 .. Len(argv)
          BY WordChars, ArgvFacts DEF OInv
        <4> QED BY <4>1 DEF OInv
      <3>3. \E k \in Spelled(word) : k <= i
        BY <3>1, <3>2 DEF NamesSpelled
      <3>4. \A k \in Spelled(word) : k \in Nat
        BY LongoptsFacts DEF Spelled
      <3> QED BY <1>3, <3>3, <3>4
    <2> HIDE DEF word, p
    <2> QED BY <2>2, <2>3 DEF AtStep
  <1> HIDE DEF p
  <1>4. 1 \in A
    BY <1>1, <1>2
  <1>5. ASSUME NEW i \in 1 .. n - 1, i \in A PROVE i + 1 \in A
    <2>1. i \in 1 .. Len(longopts) /\ i + 1 \in 1 .. n
      BY <1>1
    <2>2. ASSUME \A k \in Spelled(word) : i + 1 <= k PROVE At[i + 1] = p
      <3>1. \A k \in Spelled(word) : i <= k
        <4>1. \A k \in Spelled(word) : k \in Nat
          BY LongoptsFacts DEF Spelled
        <4> QED BY <2>2, <4>1
      <3>2. At[i] = p
        BY <1>5, <3>1
      <3> QED BY <1>2, <1>3, <2>1, <2>2, <3>2
    <2> QED BY <2>1, <2>2
  <1> HIDE DEF A
  <1>6. 1 .. n \subseteq A
    BY <1>1, <1>4, <1>5, IntervalInduction
  <1> QED BY <1>6 DEF A, p

LEMMA MatchesSpelled ==
    ASSUME OInv, Start = Arg(optind), optind < argc, Dashes(2),
           NEW i \in 1 .. Len(longopts), At[i] = Skip(Start, 2)
    PROVE  /\ Matches(i) <=> i \in Spelled(argv[optind])
           /\ IsPrefix(longopts[i].name, Name(argv[optind]))
                => /\ Char(Past(i)) = NUL <=> Name(argv[optind]) = longopts[i].name
                   /\ Past(i).word = optind /\ Past(i).pos = Len(longopts[i].name) + 3 /\ Past(i) \in Ptr
           /\ i \in Spelled(argv[optind]) => IsPrefix(longopts[i].name, Name(argv[optind]))
  <1> DEFINE word == argv[optind]
             name == longopts[i].name
             text == Name(word)
             m == Len(name)
             S == STRING \cup {"="}
  <1>1. name \in Seq(STRING) /\ m \in Nat /\ text \in Seq(STRING) /\ Len(text) \in Nat
    <2>1. name \in Seq(STRING) /\ text \in Seq(STRING)
      BY LongoptsFacts, LongChars
    <2> HIDE DEF name, text
    <2> QED BY <2>1
  <1>2. Len(text) = Len(word) - 2 /\ \A k \in 1 .. Len(word) - 2 : text[k] = word[k + 2]
    BY LongChars
  <1>3. Text(At[i]) = text
    BY LongChars
  <1>4. Past(i) = Skip(Start, m + 2)
    <2>1. Start \in Ptr
      BY WordChars
    <2>2. Skip(Skip(Start, 2), m) = Skip(Start, m + 2)
      <3> HIDE DEF m
      <3>3. PICK w \in Nat, k \in Nat : Start = [word |-> w, pos |-> k]
        BY <2>1 DEF Ptr
      <3>4. k + 2 + m = k + (m + 2)
        BY <1>1
      <3>5. Skip(Start, 2) = [word |-> w, pos |-> k + 2] /\ Skip(Start, m + 2) = [word |-> w, pos |-> k + (m + 2)]
        BY <3>3 DEF Skip
      <3>6. Skip([word |-> w, pos |-> k + 2], m) = [word |-> w, pos |-> k + 2 + m]
        BY DEF Skip
      <3> QED BY <3>4, <3>5, <3>6
    <2> QED BY <2>2 DEF Past
  <1>5. /\ Past(i).word = optind /\ Past(i).pos = m + 3 /\ Past(i) \in Ptr
        /\ m + 2 < Len(word) => Char(Past(i)) = word[m + 3] /\ Char(Past(i)) # NUL
        /\ m + 2 >= Len(word) => Char(Past(i)) = NUL
    <2>1. m + 2 \in Nat /\ (m + 2) + 1 = m + 3
      BY <1>1
    <2> HIDE DEF m, word
    <2> QED BY <1>4, <2>1, WordChars DEF word
  <1>6. Len(word) \in Nat
    BY WordChars
  <1>7. (IsPrefix(Append(name, "="), text) <=> IsPrefix(name, text) /\ m < Len(text) /\ text[m + 1] = "=")
        /\ (name = text <=> IsPrefix(name, text) /\ m = Len(text))
    <2>1. name \in Seq(S) /\ text \in Seq(S) /\ "=" \in S
      <3> HIDE DEF name, text
      <3> QED BY <1>1
    <2> HIDE DEF name, text, S
    <2> QED BY <2>1, PrefixAppend
  <1>8. IsPrefix(name, text) => m <= Len(text)
    BY DEF IsPrefix
  <1>9. IsPrefix(name, text) => (Char(Past(i)) = NUL <=> text = name)
    <2> SUFFICES ASSUME IsPrefix(name, text) PROVE Char(Past(i)) = NUL <=> text = name
      OBVIOUS
    <2>1. m + 2 < Len(word) <=> m < Len(text)
      BY <1>1, <1>2, <1>6
    <2> HIDE DEF word, name, text, m
    <2> QED BY <1>1, <1>2, <1>5, <1>6, <1>7, <1>8, <2>1
  <1>10. IsPrefix(name, text) => (Char(Past(i)) = "=" <=> m < Len(text) /\ text[m + 1] = "=")
    <2> SUFFICES ASSUME IsPrefix(name, text) PROVE Char(Past(i)) = "=" <=> m < Len(text) /\ text[m + 1] = "="
      OBVIOUS
    <2>1. CASE m < Len(text)
      <3>1. m + 1 \in 1 .. Len(word) - 2 /\ (m + 1) + 2 = m + 3 /\ m + 2 < Len(word)
        BY <1>1, <1>2, <1>6, <2>1
      <3>2. text[m + 1] = word[m + 3]
        BY <1>2, <3>1
      <3> QED BY <1>5, <2>1, <3>1, <3>2
    <2>2. CASE ~ (m < Len(text))
      <3>1. m + 2 >= Len(word)
        BY <1>1, <1>2, <1>6, <2>2
      <3> QED BY <1>5, <2>2, <3>1 DEF NUL
    <2> QED BY <2>1, <2>2
  <1>11. Matches(i) <=> IsPrefix(name, text) /\ (Char(Past(i)) = NUL \/ (Char(Past(i)) = "=" /\ longopts[i].has_arg # "no_argument"))
    <2>1. IsPrefix(longopts[i].name, Text(At[i])) <=> IsPrefix(name, text)
      BY <1>3
    <2> QED BY <2>1, Zenon DEF Matches
  <1>12. i \in Spelled(word) <=> text = name \/ (longopts[i].has_arg # "no_argument" /\ IsPrefix(Append(name, "="), text))
    BY DEF Spelled
  <1> HIDE DEF word, name, text, m
  <1>13. Matches(i) <=> i \in Spelled(word)
    <2> DEFINE P == IsPrefix(name, text)
               Q == IsPrefix(Append(name, "="), text)
               R == m < Len(text) /\ text[m + 1] = "="
    <2>1. (Q <=> P /\ R) /\ (text = name => P)
      BY <1>7, Zenon
    <2>2. P => (Char(Past(i)) = "=" <=> R)
      BY <1>10, Zenon
    <2> HIDE DEF P, Q, R
    <2> QED BY <1>9, <1>11, <1>12, <2>1, <2>2, Zenon DEF P, Q
  <1>14. i \in Spelled(word) => IsPrefix(name, text)
    BY <1>11, <1>13
  <1> QED BY <1>5, <1>9, <1>13, <1>14 DEF word, name, text, m

LEMMA EntryIsFirst ==
    ASSUME OInv, NamesSpelled, Start = Arg(optind), optind < argc, Dashes(2)
    PROVE  /\ NoEntry => Spelled(argv[optind]) = {} /\ At[Len(longopts) + 1] = Skip(Start, 2)
           /\ \A i \in 1 .. Len(longopts) : IsEntry(i) =>
                 /\ i \in Spelled(argv[optind]) /\ At[i] = Skip(Start, 2)
                 /\ \A k \in Spelled(argv[optind]) : i <= k
           /\ NoEntry <=> AtLong /\ Spelled(argv[optind]) = {}
  <1> DEFINE word == argv[optind]
             S == Spelled(word)
             n == Len(longopts)
  <1>1. n \in Nat /\ S \subseteq 1 .. n
    BY LongoptsFacts DEF Spelled
  <1>2. \A i \in 1 .. n : (\A k \in S : i <= k) => At[i] = Skip(Start, 2) /\ (Matches(i) <=> i \in S)
    <2> SUFFICES ASSUME NEW i \in 1 .. n, \A k \in S : i <= k
                 PROVE  At[i] = Skip(Start, 2) /\ (Matches(i) <=> i \in S)
      OBVIOUS
    <2>1. i \in 1 .. n + 1
      BY <1>1
    <2>2. At[i] = Skip(Start, 2)
      BY <2>1, AtName
    <2> QED BY <2>2, MatchesSpelled
  <1>3. ASSUME S # {}
        PROVE \E m \in S : /\ m \in 1 .. n /\ Matches(m) /\ At[m] = Skip(Start, 2) /\ \A k \in S : m <= k
                           /\ \A k \in 1 .. m - 1 : ~ Matches(k)
    <2>1. PICK m \in S : m \in 1 .. n /\ \A k \in S : m <= k
      BY <1>3, SpelledLeast
    <2>2. ASSUME NEW k \in 1 .. m - 1 PROVE ~ Matches(k)
      <3>1. k \in 1 .. n /\ k \notin S /\ \A j \in S : k <= j
        <4> HIDE DEF S, n
        <4> QED BY <1>1, <2>1
      <3> QED BY <1>2, <3>1
    <2> QED BY <1>2, <2>1, <2>2
  <1>4. ASSUME S = {} PROVE \A i \in 1 .. n : ~ Matches(i)
    BY <1>2, <1>4
  <1>5. ASSUME S = {} PROVE At[n + 1] = Skip(Start, 2)
    <2>1. n + 1 \in 1 .. n + 1
      BY <1>1
    <2> QED BY <1>5, <2>1, AtName
  <1>6. ASSUME NEW i \in 1 .. n, IsEntry(i)
        PROVE  i \in S /\ At[i] = Skip(Start, 2) /\ \A k \in S : i <= k
    <2>1. Matches(i) /\ \A k \in 1 .. i - 1 : ~ Matches(k)
      BY <1>6 DEF IsEntry
    <2>2. S # {}
      BY <1>4, <2>1
    <2>3. PICK m \in S : /\ m \in 1 .. n /\ Matches(m) /\ At[m] = Skip(Start, 2) /\ \A k \in S : m <= k
                         /\ \A k \in 1 .. m - 1 : ~ Matches(k)
      BY <1>3, <2>2
    <2>4. ~ (i < m) /\ ~ (m < i)
      <3> HIDE DEF S, n
      <3>1. i < m => i \in 1 .. m - 1
        BY <1>1, <2>3
      <3>2. m < i => m \in 1 .. i - 1
        BY <1>1, <2>3
      <3> QED BY <2>1, <2>3, <3>1, <3>2
    <2>5. i = m
      BY <1>1, <2>3, <2>4
    <2> QED BY <2>3, <2>5
  <1>7. NoEntry <=> AtLong /\ S = {}
    BY <1>3, <1>4 DEF NoEntry
  <1> QED BY <1>5, <1>6, <1>7

-----------------------------------------------------------------------------
(* The invariant: what has been returned *)

(* What is still to come of the word being read.                            *)
Todo == IF in_chain THEN ShortWord(argv, optind, nextchar.pos) ELSE Word(argv, optind)

(* What the calls have returned and what is still to come, of this word and *)
(* of all after it, is the parse of the command line.                       *)
FInv ==
    /\ seen \in Calls
    /\ Ended(seen) => seen = Parse(argv)
    /\ ~ Ended(seen) => seen \o Rest(argv, Todo) = Parse(argv)
    /\ ~ Ended(seen) /\ ~ in_chain => Start = Arg(optind)

LEMMA TodoSays ==
    ASSUME OInv, NInv
    PROVE  /\ argv \in ArgVs /\ Says(argv, optind, Todo) /\ Rest(argv, Todo) \in Calls
           /\ \A w \in 1 .. argc : From(argv)[w] \in Calls /\ From(argv)[w] = Rest(argv, Word(argv, w))
           /\ From(argv)[1] = Parse(argv)
  <1>1. argv \in ArgVs /\ optind \in 1 .. argc /\ argc = Len(argv) + 1 /\ Len(argv) \in Nat
    BY ArgvFacts DEF OInv
  <1>2. Says(argv, optind, Todo)
    <2>1. CASE in_chain
      <3>1. optind \in 1 .. Len(argv) /\ nextchar.pos \in 1 .. Len(argv[optind])
        BY <1>1, <2>1 DEF OInv, NInv
      <3>2. nextchar.pos \in 1 .. Len(argv[optind]) + 1
        BY <1>1, <3>1, LineFacts
      <3> QED BY <1>1, <2>1, <3>1, <3>2, ShortWordSays DEF Todo
    <2>2. CASE ~ in_chain
      <3>1. optind \in 1 .. Len(argv) + 1
        BY <1>1
      <3> QED BY <1>1, <2>2, <3>1, WordSays DEF Todo
    <2> QED BY <2>1, <2>2
  <1>3. /\ \A w \in 1 .. argc : From(argv)[w] \in Calls /\ From(argv)[w] = Rest(argv, Word(argv, w))
        /\ From(argv)[1] = Parse(argv)
    BY <1>1, FromFacts
  <1>4. Rest(argv, Todo) \in Calls
    <2>1. Todo.calls \in Calls /\ Todo.next \in 0 .. argc
      BY <1>1, <1>2 DEF Says
    <2>2. CASE Todo.next = 0
      BY <2>1, <2>2 DEF Rest
    <2>3. CASE Todo.next # 0
      <3>1. Todo.next \in 1 .. argc
        BY <1>1, <2>1, <2>3
      <3>2. From(argv)[Todo.next] \in Calls
        BY <1>3, <3>1
      <3>3. \A s, t \in Calls : s \o t \in Calls
        BY DEF Calls
      <3> QED BY <2>1, <2>3, <3>2, <3>3 DEF Rest
    <2> QED BY <2>2, <2>3
  <1> QED BY <1>1, <1>2, <1>3, <1>4

(* A call is added to those that were returned.                             *)
LEMMA SeenFacts ==
    ASSUME seen \in Calls, NEW call \in CallSet, NEW s \in Calls
    PROVE  /\ Append(seen, call) \in Calls /\ Append(seen, call) = seen \o << call >>
           /\ Append(seen, call) \o s = seen \o (<< call >> \o s)
           /\ Ended(Append(seen, call)) <=> call.opt \in {End, "?"}
  <1>1. /\ Append(seen, call) \in Calls /\ Append(seen, call) = seen \o << call >> /\ << call >> \in Calls
        /\ Append(seen, call) # <<>> /\ Last(Append(seen, call)) = call
    BY Concats DEF Calls
  <1>2. (seen \o << call >>) \o s = seen \o (<< call >> \o s)
    BY <1>1, Concats DEF Calls
  <1>3. Append(seen, call) \o s = seen \o (<< call >> \o s)
    BY <1>1, <1>2
  <1>4. Ended(Append(seen, call)) <=> call.opt \in {End, "?"}
    BY <1>1 DEF Ended
  <1> QED BY <1>1, <1>3, <1>4

(* Nothing is claimed after the end.                                        *)
LEMMA AfterEnd ==
    ASSUME FInv, Ended(seen), NEW call, Returns(call)
    PROVE  FInv'
  <1>1. seen' = seen /\ argv' = argv
    BY DEF Returns
  <1>2. Ended(seen)' /\ seen' \in Calls /\ seen' = Parse(argv')
    BY <1>1 DEF Ended, FInv
  <1> QED BY <1>2 DEF FInv

(* A call that ends the parse.                                              *)
LEMMA CallEnds ==
    ASSUME OInv, NInv, FInv, ~ Ended(seen), NEW call \in CallSet, Returns(call),
           call.opt \in {End, "?"}, Todo = Then(<< call >>, 0)
    PROVE  FInv'
  <1>1. seen' = Append(seen, call) /\ argv' = argv /\ seen \in Calls
    BY DEF Returns, FInv
  <1>2. Rest(argv, Todo) = << call >>
    BY ThenFacts DEF Rest
  <1>3. seen' = Parse(argv) /\ seen' \in Calls
    <2>1. Append(seen, call) = seen \o << call >> /\ Append(seen, call) \in Calls
      BY <1>1, SeenFacts
    <2> QED BY <1>1, <1>2, <2>1 DEF FInv
  <1>4. Ended(seen')
    BY <1>1, SeenFacts
  <1>5. Ended(seen)' /\ seen' = Parse(argv')
    BY <1>1, <1>3, <1>4 DEF Ended
  <1> QED BY <1>3, <1>5 DEF FInv

(* An option that is the last of its word.                                  *)
LEMMA CallMovesOn ==
    ASSUME OInv, NInv, FInv, OInv', NInv', ~ Ended(seen), NEW call \in CallSet, Returns(call),
           call.opt \notin {End, "?"}, in_chain' = FALSE, nextchar' = Arg(optind'),
           Todo = Then(<< call >>, optind')
    PROVE  FInv'
  <1>1. seen' = Append(seen, call) /\ argv' = argv /\ seen \in Calls
    BY DEF Returns, FInv
  <1>2. optind' \in 1 .. argc /\ optind' # 0 /\ Arg(optind)' = Arg(optind') /\ Arg(1)' = Arg(1)
    <2>1. optind' \in 1 .. argc' /\ argc' = argc
      BY <1>1 DEF OInv, argc
    <2> QED BY <1>1, <2>1 DEF Arg, argc
  <1>3. Rest(argv, Todo) = << call >> \o From(argv)[optind']
    BY <1>2, ThenFacts DEF Rest
  <1>4. From(argv)[optind'] \in Calls /\ From(argv)[optind'] = Rest(argv, Word(argv, optind'))
    BY <1>2, TodoSays
  <1>5. seen' \in Calls /\ ~ Ended(seen') /\ seen' \o Rest(argv, Word(argv, optind')) = Parse(argv)
    BY <1>1, <1>3, <1>4, SeenFacts DEF FInv
  <1>6. Todo' = Word(argv', optind')
    BY DEF Todo
  <1>7. Start' = Arg(optind')
    <2>1. Start' = IF optind' = 1 THEN Arg(1)' ELSE nextchar'
      BY DEF Start
    <2> QED BY <1>2, <2>1
  <1>8. ~ Ended(seen)' /\ seen' \in Calls /\ seen' \o Rest(argv', Todo') = Parse(argv') /\ Start' = Arg(optind)'
    BY <1>1, <1>2, <1>5, <1>6, <1>7 DEF Ended
  <1> QED BY <1>8 DEF FInv

(* A flag in the middle of its word.                                        *)
LEMMA CallChains ==
    ASSUME OInv, NInv, FInv, OInv', NInv', ~ Ended(seen), NEW call \in CallSet, Returns(call),
           call.opt \notin {End, "?"}, in_chain' = TRUE,
           LET rest == ShortWord(argv, optind', nextchar'.pos)
           IN  Todo = Then(<< call >> \o rest.calls, rest.next)
    PROVE  FInv'
  <1> DEFINE rest == ShortWord(argv, optind', nextchar'.pos)
  <1>1. seen' = Append(seen, call) /\ argv' = argv /\ seen \in Calls
    BY DEF Returns, FInv
  <1>2. Todo' = rest /\ Todo' = ShortWord(argv', optind', nextchar'.pos)
    BY <1>1 DEF Todo
  <1>3. Says(argv, optind', rest) /\ argv \in ArgVs /\ Len(argv) \in Nat
    <2>1. optind' \in 1 .. Len(argv) /\ nextchar'.pos \in 1 .. Len(argv[optind'])
      <3>1. optind' \in 1 .. argc' /\ optind' < argc' /\ nextchar'.pos \in 1 .. Len(argv'[optind'])
        BY DEF OInv, NInv
      <3>2. argc' = Len(argv) + 1 /\ Len(argv) \in Nat
        BY <1>1, ArgvFacts DEF argc, OInv
      <3> QED BY <1>1, <3>1, <3>2
    <2>2. nextchar'.pos \in 1 .. Len(argv[optind']) + 1 /\ argv \in ArgVs
      BY <2>1, LineFacts DEF OInv
    <2> QED BY <2>1, <2>2, ShortWordSays, LineFacts
  <1> HIDE DEF rest
  <1>4. rest.calls \in Calls /\ rest.next \in 0 .. argc
    BY <1>3 DEF Says, argc
  <1>5. Rest(argv, Todo) = << call >> \o Rest(argv, rest) /\ Rest(argv, rest) \in Calls
    <2>1. Todo.calls = << call >> \o rest.calls /\ Todo.next = rest.next
      BY ThenFacts DEF rest
    <2>2. CASE rest.next = 0
      BY <1>4, <2>1, <2>2 DEF Rest
    <2>3. CASE rest.next # 0
      <3>1. rest.next \in 1 .. argc
        BY <1>3, <1>4, <2>3 DEF argc
      <3>2. From(argv)[rest.next] \in Calls
        BY <3>1, TodoSays
      <3>3. \A s, t \in Calls : s \o t \in Calls /\ (<< call >> \o s) \o t = << call >> \o (s \o t)
        BY DEF Calls
      <3> QED BY <1>4, <2>1, <2>3, <3>2, <3>3 DEF Rest
    <2> QED BY <2>2, <2>3
  <1>6. seen' \in Calls /\ ~ Ended(seen') /\ seen' \o Rest(argv, rest) = Parse(argv)
    BY <1>1, <1>5, SeenFacts DEF FInv
  <1>7. ~ Ended(seen)' /\ seen' \in Calls /\ seen' \o Rest(argv', Todo') = Parse(argv')
    BY <1>1, <1>2, <1>6 DEF Ended
  <1> QED BY <1>7 DEF FInv

LEMMA StopsFollow ==
    ASSUME OInv, NInv, FInv, EndOfArgv \/ Operand \/ LoneDash \/ Terminator \/ NoTable
    PROVE  FInv'
  <1> SUFFICES ASSUME ~ Ended(seen) PROVE FInv'
    BY AfterEnd DEF EndOfArgv, Operand, LoneDash, Terminator, NoTable
  <1>1. in_chain = FALSE
    <2>1. CASE EndOfArgv
      <3>1. in_chain => nextchar = NULL
        BY <2>1, StartFacts DEF EndOfArgv
      <3>2. in_chain => nextchar.word = optind /\ optind # 0
        BY DEF NInv, OInv
      <3> QED BY <3>1, <3>2 DEF OInv, NULL
    <2>2. CASE AtWord
      BY <2>2 DEF AtWord, OInv
    <2> QED BY <2>1, <2>2 DEF Operand, LoneDash, Terminator, NoTable, Dashes
  <1>2. Start = Arg(optind) /\ Todo = Word(argv, optind)
    BY <1>1 DEF FInv, Todo
  <1>3. argv \in ArgVs /\ optind \in 1 .. argc /\ argc = Len(argv) + 1 /\ Len(argv) \in Nat /\ optind \in Nat
    BY ArgvFacts DEF OInv
  <1>4. /\ Stop(optind) \in CallSet /\ Stop(optind).opt \in {End, "?"}
        /\ Stop(optind + 1) \in CallSet /\ Stop(optind + 1).opt \in {End, "?"}
    BY <1>3, CallFacts
  <1>5. ASSUME Word(argv, optind) = Then(<< Stop(optind) >>, 0), Returns(Stop(optind)) PROVE FInv'
    BY <1>2, <1>4, <1>5, CallEnds
  <1>6. CASE EndOfArgv
    <2>1. ~ (optind < argc)
      <3>1. Arg(optind) = NULL
        BY <1>2, <1>6 DEF EndOfArgv
      <3>2. optind >= 1
        BY <1>3
      <3> QED BY <1>3, <3>1, <3>2, ArgFacts
    <2>2. ~ IsOption(argv, optind)
      BY <1>3, <2>1 DEF IsOption
    <2> QED BY <1>5, <1>6, <2>2 DEF Word, EndOfArgv
  <1>7. ASSUME Start # NULL PROVE optind < argc
    BY <1>2, <1>3, <1>7, ArgFacts
  <1>8. CASE Operand
    <2>1. optind < argc /\ Char(Start) # "-"
      BY <1>7, <1>8 DEF Operand, AtWord
    <2>2. ~ IsOption(argv, optind)
      BY <1>2, <2>1, DashChars
    <2> QED BY <1>5, <1>8, <2>2 DEF Word, Operand
  <1>9. CASE LoneDash
    <2>1. optind < argc /\ Char(Skip(Start, 1)) = NUL
      BY <1>7, <1>9 DEF LoneDash, Dashes, AtWord
    <2>2. ~ IsOption(argv, optind)
      <3>1. 1 \in Nat /\ ~ (1 < Len(argv[optind]))
        BY <1>2, <2>1, WordChars
      <3>2. Len(argv[optind]) \in Nat
        BY <1>2, <2>1, WordChars
      <3> QED BY <3>1, <3>2 DEF IsOption
    <2> QED BY <1>5, <1>9, <2>2 DEF Word, LoneDash
  <1>10. CASE Terminator
    <2>1. optind < argc /\ Dashes(2) /\ Char(Skip(Start, 2)) = NUL
      BY <1>7, <1>10 DEF Terminator, Dashes, AtWord
    <2>2. Len(argv[optind]) = 2
      <3>1. 2 \in Nat /\ ~ (2 < Len(argv[optind])) /\ Len(argv[optind]) \in Nat
        BY <1>2, <2>1, WordChars
      <3>2. Len(argv[optind]) >= 2
        BY <1>2, <2>1, LongChars
      <3>3. \A n \in Nat : ~ (2 < n) /\ n >= 2 => n = 2
        OBVIOUS
      <3> QED BY <3>1, <3>2, <3>3, Zenon
    <2>3. argv[optind] = <<"-", "-">> /\ IsOption(argv, optind)
      BY <1>2, <2>1, <2>2, DashChars DEF IsLong
    <2>4. Word(argv, optind) = Then(<< Stop(optind + 1) >>, 0)
      BY <2>3 DEF Word
    <2> QED BY <1>2, <1>4, <1>10, <2>4, CallEnds DEF Terminator
  <1>11. CASE NoTable
    <2>1. optind < argc /\ Dashes(2) /\ Char(Skip(Start, 2)) # NUL /\ ~ tabled
      BY <1>7, <1>11 DEF NoTable, Dashes, AtWord
    <2>2. argv[optind] # <<"-", "-">>
      <3>1. ASSUME argv[optind] = <<"-", "-">> PROVE FALSE
        <4>1. Len(argv[optind]) = 2 /\ 2 \in Nat /\ 2 >= 2
          BY <3>1
        <4>2. Char(Skip(Start, 2)) = NUL
          BY <1>2, <2>1, <4>1, WordChars
        <4> QED BY <2>1, <4>2
      <3> QED BY <3>1
    <2>3. IsLong(argv, optind) /\ IsOption(argv, optind)
      BY <1>2, <2>1, DashChars DEF IsLong
    <2> QED BY <1>5, <1>11, <2>1, <2>2, <2>3 DEF Word, NoTable
  <1> QED BY <1>6, <1>8, <1>9, <1>10, <1>11

(* Short options are read where the word says.                              *)
LEMMA ShortTodo ==
    ASSUME OInv, NInv, FInv, NamesSpelled, ~ Ended(seen), AtShort
    PROVE  /\ optind \in 1 .. Len(argv) /\ ShortAt.pos \in 1 .. Len(argv[optind])
           /\ Todo = ShortWord(argv, optind, ShortAt.pos) /\ ShortAt.word = optind /\ ShortAt \in Ptr
           /\ Char(ShortAt) = argv[optind][ShortAt.pos]
           /\ Skip(ShortAt, 1).word = optind /\ Skip(ShortAt, 1).pos = ShortAt.pos + 1
           /\ Char(Skip(ShortAt, 1)) = NUL <=> ShortAt.pos = Len(argv[optind])
           /\ Text(Skip(ShortAt, 1)) = SubSeq(argv[optind], ShortAt.pos + 1, Len(argv[optind]))
  <1> DEFINE word == argv[optind]
  <1>1. optind < argc /\ ShortAt \in Ptr /\ argv \in ArgVs /\ optind \in 1 .. Len(argv)
    <2>1. optind < argc /\ ShortAt \in Ptr
      BY ShortFacts
    <2> QED BY <2>1, ArgvFacts DEF OInv
  <1>2. /\ word \in Seq(STRING) /\ Len(word) \in Nat
        /\ \A k \in 1 .. Len(word) : word[k] # NUL
    BY <1>1, LineFacts
  <1>3. /\ ShortAt.pos \in 1 .. Len(word)
        /\ ShortAt.word = optind /\ Todo = ShortWord(argv, optind, ShortAt.pos)
    <2>1. CASE in_chain
      BY <2>1 DEF ShortAt, NInv, Todo
    <2>2. CASE ~ in_chain /\ NoEntry
      <3>1. Start = Arg(optind) /\ Dashes(2) /\ Char(Skip(Start, 2)) # NUL /\ tabled
        BY <2>2 DEF FInv, NoEntry, AtLong
      <3>2. Spelled(word) = {} /\ ShortAt = Skip(Start, 2)
        BY <1>1, <2>2, <3>1, EntryIsFirst DEF ShortAt
      <3>3. IsLong(argv, optind) /\ IsOption(argv, optind)
        BY <1>1, <3>1, DashChars DEF IsLong
      <3>4. 2 < Len(word) /\ Skip(Start, 2).word = optind /\ Skip(Start, 2).pos = 3
        <4>1. 2 \in Nat /\ 2 + 1 = 3
          OBVIOUS
        <4>2. ~ (2 >= Len(word)) /\ Skip(Start, 2).word = optind /\ Skip(Start, 2).pos = 3
          BY <1>1, <3>1, <4>1, WordChars
        <4> QED BY <1>2, <4>2
      <3>5. word # <<"-", "-">>
        <4>1. Len(<<"-", "-">>) = 2
          OBVIOUS
        <4> HIDE DEF word
        <4> QED BY <1>2, <3>4, <4>1
      <3>6. Todo = ShortWord(argv, optind, 3)
        BY <2>2, <3>1, <3>2, <3>3, <3>5 DEF Todo, Word
      <3> HIDE DEF word
      <3> QED BY <1>2, <3>2, <3>4, <3>6
    <2>3. CASE ~ in_chain /\ ~ NoEntry
      <3>1. Start = Arg(optind) /\ Dashes(1) /\ Char(Skip(Start, 1)) \notin {"-", NUL} /\ ShortAt = Skip(Start, 1)
        BY <2>3 DEF FInv, AtShort, ShortAt
      <3>2. 1 < Len(word) /\ Skip(Start, 1).word = optind /\ Skip(Start, 1).pos = 2
        <4>1. 1 \in Nat /\ 1 + 1 = 2
          OBVIOUS
        <4>2. ~ (1 >= Len(word)) /\ Skip(Start, 1).word = optind /\ Skip(Start, 1).pos = 2
          BY <1>1, <3>1, <4>1, WordChars
        <4> QED BY <1>2, <4>2
      <3>3. IsOption(argv, optind) /\ ~ IsLong(argv, optind)
        <4>1. Len(word) > 1
          BY <1>2, <3>2
        <4> QED BY <1>1, <3>1, <4>1, DashChars
      <3>4. word # <<"-", "-">>
        <4>1. ASSUME word = <<"-", "-">> PROVE IsLong(argv, optind)
          BY <3>3, <4>1 DEF IsLong
        <4> QED BY <3>3, <4>1
      <3>5. Todo = ShortWord(argv, optind, 2)
        BY <2>3, <3>3, <3>4 DEF Todo, Word
      <3> HIDE DEF word
      <3> QED BY <1>2, <3>1, <3>2, <3>5
    <2> QED BY <2>1, <2>2, <2>3
  <1>4. ShortAt.pos \in Nat /\ 1 \in Nat
    BY <1>3
  <1>5. Skip(ShortAt, 1).word = optind /\ Skip(ShortAt, 1).pos = ShortAt.pos + 1
    BY <1>1, <1>3, <1>4, SkipFacts
  <1>6. Char(ShortAt) = word[ShortAt.pos]
    BY <1>2, <1>3 DEF Char
  <1>7. Char(Skip(ShortAt, 1)) = NUL <=> ShortAt.pos = Len(word)
    <2>1. Char(Skip(ShortAt, 1)) = IF ShortAt.pos + 1 > Len(word) THEN NUL ELSE word[ShortAt.pos + 1]
      BY <1>5 DEF Char
    <2> HIDE DEF word
    <2>2. CASE ShortAt.pos = Len(word)
      BY <1>2, <2>1, <2>2
    <2>3. CASE ShortAt.pos # Len(word)
      <3>1. ShortAt.pos + 1 \in 1 .. Len(word) /\ ~ (ShortAt.pos + 1 > Len(word))
        BY <1>2, <1>3, <2>3
      <3> QED BY <1>2, <2>1, <2>3, <3>1
    <2> QED BY <2>2, <2>3
  <1>8. Text(Skip(ShortAt, 1)) = SubSeq(word, ShortAt.pos + 1, Len(word))
    <2>1. Skip(ShortAt, 1) # NULL
      BY <1>1, <1>5 DEF NULL
    <2> QED BY <1>5, <2>1 DEF Text
  <1> QED BY <1>1, <1>3, <1>5, <1>6, <1>7, <1>8

LEMMA KnownIsTold ==
    ASSUME ResultsTold, NEW c, Known(c)
    PROVE  c \notin {End, "?"} /\ c \in STRING
  <1>1. PICK k \in 1 .. Len(optstring) : optstring[k] = c
    BY DEF Known, Options
  <1>2. optstring \in Seq(STRING)
    BY ConstantsAssumption, Zenon
  <1>3. k \in DOMAIN optstring /\ optstring[k] \in STRING
    BY <1>1, <1>2
  <1> QED BY <1>1, <1>3 DEF ResultsTold

LEMMA CallArg ==
    \A opt, arg, long, other : [Call(opt, arg, long) EXCEPT !.arg = other] = Call(opt, other, long)
  BY DEF Call

LEMMA ShortFollows ==
    ASSUME OInv, NInv, FInv, OInv', NInv', NamesSpelled, ResultsTold,
           Flag \/ WithArgument \/ MissingArgument \/ Unknown
    PROVE  FInv'
  <1> SUFFICES ASSUME ~ Ended(seen) PROVE FInv'
    BY AfterEnd DEF Flag, WithArgument, MissingArgument, Unknown
  <1> DEFINE word == argv[optind]
             p == ShortAt.pos
             c == Char(ShortAt)
             q == Skip(ShortAt, 1)
  <1>1. AtShort
    BY DEF Flag, WithArgument, MissingArgument, Unknown
  <1>2. /\ optind \in 1 .. Len(argv) /\ p \in 1 .. Len(word) /\ Todo = ShortWord(argv, optind, p)
        /\ c = word[p] /\ q.word = optind /\ q.pos = p + 1
        /\ Char(q) = NUL <=> p = Len(word)
        /\ Text(q) = SubSeq(word, p + 1, Len(word))
    BY <1>1, ShortTodo
  <1>3. argv \in ArgVs /\ Len(argv) \in Nat /\ argc = Len(argv) + 1 /\ word \in Seq(STRING) /\ Len(word) \in Nat
    BY <1>2, ArgvFacts DEF OInv
  <1>4. p \in Nat /\ (p >= Len(word) <=> p = Len(word)) /\ (p < Len(word) <=> p # Len(word))
    <2> HIDE DEF word, p
    <2> QED BY <1>2, <1>3
  <1>5. <<>> \in Seq(STRING) /\ 0 \in Nat
    OBVIOUS
  <1> HIDE DEF p, c, q
  <1>6. CASE Flag
    <2> DEFINE flag == Call(c, <<>>, 0)
               rest == ShortWord(argv, optind, p + 1)
    <2>1. Known(c) /\ ~ Takes(c) /\ Returns(flag)
      BY <1>6 DEF Flag, c
    <2>2. flag \in CallSet /\ flag.opt \notin {End, "?"}
      BY <1>5, <2>1, KnownIsTold, CallFacts DEF Told
    <2>3. rest.calls \in Calls
      <3>1. p + 1 \in 1 .. Len(word) + 1
        <4> HIDE DEF word
        <4> QED BY <1>2, <1>3
      <3> QED BY <1>2, <1>3, <3>1, ShortWordSays DEF Says
    <2>4. Todo = Then(<< flag >> \o rest.calls, rest.next) /\ (p = Len(word) => rest = Then(<<>>, optind + 1))
      BY <1>2, <1>3, <2>1, <2>3, ShortWordFlag
    <2> HIDE DEF flag
    <2>5. CASE Char(q) # NUL /\ in_chain' = TRUE /\ nextchar' = q /\ optind' = optind
      <3>1. nextchar'.pos = p + 1
        BY <1>2, <2>5
      <3>2. Todo = Then(<< flag >> \o ShortWord(argv, optind', nextchar'.pos).calls,
                        ShortWord(argv, optind', nextchar'.pos).next)
        BY <2>4, <2>5, <3>1
      <3> HIDE DEF rest
      <3> QED BY <2>1, <2>2, <2>5, <3>2, CallChains
    <2>6. CASE Char(q) = NUL /\ in_chain' = FALSE /\ nextchar' = Arg(optind + 1) /\ optind' = optind + 1
      <3>1. rest = Then(<<>>, optind + 1)
        BY <1>2, <2>4, <2>6
      <3>2. << flag >> \o <<>> = << flag >>
        <4>1. << flag >> \in Seq(CallSet)
          BY <2>2
        <4> QED BY <4>1
      <3> HIDE DEF rest
      <3>3. Todo = Then(<< flag >>, optind')
        BY <2>4, <2>6, <3>1, <3>2, ThenFacts
      <3>4. nextchar' = Arg(optind')
        BY <2>6
      <3> QED BY <2>1, <2>2, <2>6, <3>3, <3>4, CallMovesOn
    <2> QED BY <1>6, <2>5, <2>6 DEF Flag, q
  <1>7. CASE WithArgument
    <2> DEFINE call == Call(c, Text(optarg'), 0)
    <2>1. Takes(c) /\ Known(c) /\ Returns(call) /\ in_chain' = FALSE
      BY <1>7, TakesIsKnown DEF WithArgument, c
    <2>2. call.opt = c /\ c \notin {End, "?"} /\ c \in Told
      BY <2>1, KnownIsTold DEF Told, Call
    <2>3. CASE Char(q) # NUL /\ optarg' = q /\ optind' = optind + 1 /\ nextchar' = Arg(optind + 1)
      <3>1. call = ShortCall(argv, optind, p)
        BY <1>2, <2>3 DEF ShortCall
      <3>2. SubSeq(word, p + 1, Len(word)) \in Seq(STRING)
        BY <1>3, <1>4
      <3>3. call \in CallSet
        BY <1>2, <1>5, <2>2, <2>3, <3>2, CallFacts
      <3>4. Todo = Then(<< call >>, optind')
        <4>1. p < Len(word)
          BY <1>2, <1>4, <2>3
        <4> QED BY <1>2, <1>3, <2>1, <2>3, <3>1, <4>1, ShortWordStop
      <3> HIDE DEF call
      <3> QED BY <2>1, <2>2, <2>3, <3>3, <3>4, CallMovesOn
    <2>4. CASE /\ Char(q) = NUL /\ optind + 1 < argc /\ optarg' = Arg(optind + 1)
               /\ optind' = optind + 2 /\ nextchar' = Arg(optind + 2)
      <3>1. optind + 1 \in 1 .. Len(argv) /\ optind < Len(argv)
        BY <1>2, <1>3, <2>4
      <3>2. argv[optind + 1] \in Seq(STRING) /\ Text(optarg') = argv[optind + 1]
        <4>1. argv[optind + 1] \in Seq(STRING)
          BY <1>3, <3>1, LineFacts
        <4>2. optarg' = [word |-> optind + 1, pos |-> 1] /\ optarg' # NULL
          BY <2>4 DEF Arg, NULL
        <4>3. Text(optarg') = SubSeq(argv[optind + 1], 1, Len(argv[optind + 1]))
          BY <4>2 DEF Text
        <4> QED BY <4>1, <4>3
      <3>3. call \in CallSet
        BY <1>5, <2>2, <3>2, CallFacts
      <3>4. call = [ShortCall(argv, optind, p) EXCEPT !.arg = argv[optind + 1]]
        <4>1. [Call(c, SubSeq(word, p + 1, Len(word)), 0) EXCEPT !.arg = argv[optind + 1]]
                = Call(c, argv[optind + 1], 0)
          BY CallArg
        <4>2. ShortCall(argv, optind, p) = Call(c, SubSeq(word, p + 1, Len(word)), 0)
          BY <1>2 DEF ShortCall
        <4> QED BY <3>2, <4>1, <4>2
      <3>5. ShortCall(argv, optind, p) \in CallSet /\ Bad \in CallSet
        <4>1. SubSeq(word, p + 1, Len(word)) \in Seq(STRING)
          BY <1>3, <1>4
        <4> QED BY <1>2, <1>5, <2>2, <4>1, CallFacts DEF ShortCall
      <3>6. Todo = NextWord(argv, ShortCall(argv, optind, p), Bad, optind)
        <4>1. p >= Len(word)
          BY <1>2, <1>4, <2>4
        <4> QED BY <1>2, <1>3, <2>1, <4>1, ShortWordStop
      <3>7. Todo = Then(<< call >>, optind')
        <4> DEFINE short == ShortCall(argv, optind, p)
        <4> HIDE DEF short
        <4>1. NextWord(argv, short, Bad, optind) = Then(<< [short EXCEPT !.arg = argv[optind + 1]] >>, optind + 2)
          BY <1>2, <1>3, <3>1, <3>5, NextWordSays DEF short
        <4> HIDE DEF call
        <4> QED BY <2>4, <3>4, <3>6, <4>1 DEF short
      <3>8. nextchar' = Arg(optind')
        BY <2>4
      <3> HIDE DEF call
      <3> QED BY <2>1, <2>2, <3>3, <3>7, <3>8, CallMovesOn
    <2> QED BY <1>7, <2>3, <2>4 DEF WithArgument, q
  <1>8. CASE MissingArgument
    <2>1. Takes(c) /\ Known(c) /\ Returns(Bad) /\ Char(q) = NUL /\ optind + 1 >= argc
      BY <1>8, TakesIsKnown DEF MissingArgument, c, q
    <2>2. p >= Len(word) /\ optind >= Len(argv)
      BY <1>2, <1>3, <1>4, <2>1
    <2>3. ShortCall(argv, optind, p) \in CallSet
      <3>1. SubSeq(word, p + 1, Len(word)) \in Seq(STRING) /\ c \in Told
        BY <1>3, <1>4, <2>1, KnownIsTold DEF Told
      <3> QED BY <1>2, <1>5, <3>1, CallFacts DEF ShortCall
    <2>4. Todo = Then(<< Bad >>, 0)
      <3> DEFINE short == ShortCall(argv, optind, p)
      <3>1. Todo = NextWord(argv, short, Bad, optind)
        BY <1>2, <1>3, <2>1, <2>2, ShortWordStop
      <3> HIDE DEF short
      <3>2. short \in CallSet /\ Bad \in CallSet /\ optind \in 1 .. Len(argv) /\ optind >= Len(argv)
        BY <1>2, <2>2, <2>3, CallFacts, Zenon DEF short
      <3>3. NextWord(argv, short, Bad, optind) = Then(<< Bad >>, 0)
        BY <1>3, <3>2, NextWordSays, Zenon
      <3> QED BY <3>1, <3>3
    <2> QED BY <2>1, <2>4, CallFacts, CallEnds
  <1>9. CASE Unknown
    <2>1. ~ Known(c) /\ Returns(Bad)
      BY <1>9 DEF Unknown, c
    <2>2. Todo = Then(<< Bad >>, 0)
      BY <1>2, <1>3, <2>1, ShortWordStop
    <2> QED BY <2>1, <2>2, CallFacts, CallEnds
  <1> QED BY <1>6, <1>7, <1>8, <1>9


(* Long options: the entry that is matched is the first that is spelled.    *)
LEMMA LongFollows ==
    ASSUME OInv, NInv, FInv, OInv', NInv', NamesSpelled, ResultsTold,
           NEW i \in 1 .. Len(longopts), Long(i)
    PROVE  FInv'
  <1> SUFFICES ASSUME ~ Ended(seen) PROVE FInv'
    BY AfterEnd DEF Long, LongValue, LongNext, LongBare, LongFails, LongReturns
  <1> DEFINE word == argv[optind]
             name == longopts[i].name
             long == longopts[i]
             m == Len(name)
             p == Past(i)
             call == LongCall(argv, optind, i)
  <1>1. /\ AtLong /\ Dashes(2) /\ Start # NULL /\ in_chain = FALSE /\ in_chain' = FALSE
        /\ Char(Skip(Start, 2)) # NUL /\ tabled /\ IsEntry(i)
    BY DEF Long, AtLong, Dashes, AtWord, OInv, LongValue, LongNext, LongBare, LongFails, LongReturns
  <1>2. Start = Arg(optind) /\ Todo = Word(argv, optind)
    BY <1>1 DEF FInv, Todo
  <1>3. argv \in ArgVs /\ optind \in 1 .. Len(argv) /\ argc = Len(argv) + 1 /\ Len(argv) \in Nat /\ optind \in Nat /\ optind < argc
    BY <1>1, DashesFacts, ArgvFacts DEF OInv
  <1>4. /\ i \in Spelled(word) /\ At[i] = Skip(Start, 2) /\ \A k \in Spelled(word) : i <= k
        /\ IsPrefix(name, Name(word)) /\ p \in Ptr
        /\ Char(p) = NUL <=> Name(word) = name
        /\ p.word = optind /\ p.pos = m + 3
    <2>1. i \in Spelled(word) /\ At[i] = Skip(Start, 2) /\ \A k \in Spelled(word) : i <= k
      BY <1>1, <1>2, <1>3, EntryIsFirst
    <2> QED BY <1>1, <1>2, <1>3, <2>1, MatchesSpelled
  <1>5. word \in Seq(STRING) /\ Len(word) \in Nat /\ m \in Nat /\ Len(Name(word)) = Len(word) - 2 /\ name \in Seq(STRING)
    <2>1. name \in Seq(STRING) /\ word \in Seq(STRING) /\ Len(word) \in Nat
      BY <1>2, <1>3, LongoptsFacts, WordChars
    <2>2. m \in Nat
      <3> HIDE DEF name
      <3> QED BY <2>1
    <2> QED BY <1>1, <1>2, <1>3, <2>1, <2>2, LongChars
  <1>6. Todo = LongWord(argv, optind)
    <2>1. IsOption(argv, optind) /\ IsLong(argv, optind)
      BY <1>1, <1>2, <1>3, DashChars DEF IsLong
    <2>2. word # <<"-", "-">>
      <3>1. ASSUME word = <<"-", "-">> PROVE FALSE
        <4>1. Len(word) = 2 /\ 2 \in Nat /\ 2 >= 2
          BY <3>1
        <4>2. Char(Skip(Start, 2)) = NUL
          BY <1>2, <1>3, <4>1, WordChars
        <4> QED BY <1>1, <4>2
      <3> QED BY <3>1
    <2> QED BY <1>1, <1>2, <1>4, <2>1, <2>2 DEF Word
  <1>7. /\ LongWord(argv, optind) =
              IF long.has_arg = "invalid" THEN Then(<< Stop(optind + 1) >>, 0)
              ELSE IF Name(word) # name THEN Then(<< call >>, optind + 1)
              ELSE IF \/ long.has_arg = "required_argument"
                      \/ /\ long.has_arg = "optional_argument"
                         /\ optind < Len(argv) /\ ~ IsPrefix(<<"-">>, argv[optind + 1])
                   THEN NextWord(argv, call, Stop(optind + 1), optind)
              ELSE Then(<< call >>, optind + 1)
        /\ call \in CallSet
    BY <1>3, <1>4, LongWordIs
  <1>8. call.opt \notin {End, "?"}
    <2>1. i \in DOMAIN longopts
      <3>1. longopts \in Seq(LongOption)
        BY LongoptsFacts
      <3> QED BY <3>1
    <2>2. long.val \notin {End, "?"}
      BY <2>1 DEF ResultsTold
    <2>3. call.opt = IF long.flag THEN "0" ELSE long.val
      BY DEF LongCall, Call
    <2>4. "0" \notin {End, "?"}
      BY DEF End
    <2> QED BY <2>2, <2>3, <2>4
  <1>9. \A arg : Call(IF long.flag THEN "0" ELSE long.val, arg, i) = [call EXCEPT !.arg = arg]
    BY CallArg DEF LongCall
  <1>10. call.arg = SubSeq(word, m + 4, Len(word)) /\ [call EXCEPT !.arg = call.arg] = call
    <2>1. call.arg = SubSeq(word, m + 4, Len(word))
      BY DEF LongCall, Call
    <2> HIDE DEF call
    <2> QED BY <1>7, <2>1 DEF CallSet
  <1>11. ASSUME NEW arg, NEW n \in {1, 2}, LongReturns(i, arg, n),
                Todo = Then(<< [call EXCEPT !.arg = Text(arg)] >>, optind + n), Text(arg) \in Seq(STRING)
         PROVE  FInv'
    <2> DEFINE it == [call EXCEPT !.arg = Text(arg)]
    <2>1. it \in CallSet /\ it.opt \notin {End, "?"}
      <3> HIDE DEF call
      <3> QED BY <1>7, <1>8, <1>11 DEF CallSet
    <2>2. Returns(it) /\ optind' = optind + n /\ nextchar' = Arg(optind + n)
      BY <1>9, <1>11 DEF LongReturns
    <2>3. nextchar' = Arg(optind') /\ Todo = Then(<< it >>, optind')
      BY <1>11, <2>2
    <2> HIDE DEF it
    <2> QED BY <1>1, <2>1, <2>2, <2>3, CallMovesOn
  <1>12. ASSUME Name(word) = name PROVE call.arg = <<>>
    <2>1. Len(word) < m + 4
      BY <1>5, <1>12
    <2>2. SubSeq(word, m + 4, Len(word)) = <<>>
      <3> HIDE DEF word, m
      <3> QED BY <1>5, <2>1
    <2> QED BY <1>10, <2>2
  <1>13. /\ Text(Skip(p, 1)) = call.arg /\ call.arg \in Seq(STRING) /\ <<>> \in Seq(STRING)
         /\ Text(NULL) = <<>>
    <2>1. Skip(p, 1).word = optind /\ Skip(p, 1).pos = m + 4 /\ Skip(p, 1) # NULL
      <3>1. 1 \in Nat /\ (m + 3) + 1 = m + 4 /\ optind # 0
        BY <1>3, <1>5
      <3>2. Skip(p, 1).word = optind /\ Skip(p, 1).pos = (m + 3) + 1
        <4>1. p \in Ptr /\ p.word = optind /\ p.pos = m + 3
          BY <1>4
        <4> HIDE DEF p, m
        <4>2. Skip(p, 1).word = p.word /\ Skip(p, 1).pos = p.pos + 1
          BY <3>1, <4>1, SkipFacts, Zenon
        <4> QED BY <4>1, <4>2, Zenon
      <3> QED BY <3>1, <3>2 DEF NULL
    <2>2. SubSeq(word, m + 4, Len(word)) \in Seq(STRING)
      <3> HIDE DEF word, m
      <3> QED BY <1>5
    <2>3. Text(Skip(p, 1)) = SubSeq(word, m + 4, Len(word))
      <3> HIDE DEF p, m
      <3> QED BY <2>1 DEF Text
    <2>4. Text(NULL) = <<>> /\ <<>> \in Seq(STRING)
      BY DEF Text
    <2> HIDE DEF p, m, word, call
    <2> QED BY <1>10, <2>2, <2>3, <2>4
  <1>14. Past(i) = p /\ long = longopts[i]
    OBVIOUS
  <1> HIDE DEF call, m, p, word
  <1>15. CASE LongValue(i)
    <2>1. Char(p) = "=" /\ long.has_arg \in {"required_argument", "optional_argument"} /\ LongReturns(i, Skip(p, 1), 1)
      BY <1>15 DEF LongValue, p
    <2>2. Name(word) # name
      BY <1>4, <2>1 DEF NUL
    <2>3. Todo = Then(<< call >>, optind + 1)
      <3>1. long.has_arg # "invalid"
        BY <2>1
      <3> QED BY <1>6, <1>7, <2>2, <3>1, Zenon
    <2> QED BY <1>10, <1>11, <1>13, <2>1, <2>3
  <1>16. ASSUME optind + 1 < argc
         PROVE  /\ optind < Len(argv) /\ argv[optind + 1] \in Seq(STRING)
                /\ Text(Arg(optind + 1)) = argv[optind + 1]
                /\ Char(Arg(optind + 1)) = "-" <=> IsPrefix(<<"-">>, argv[optind + 1])
                /\ NextWord(argv, call, Stop(optind + 1), optind)
                     = Then(<< [call EXCEPT !.arg = argv[optind + 1]] >>, optind + 2)
    <2> DEFINE v == argv[optind + 1]
    <2>1. optind < Len(argv) /\ optind + 1 \in 1 .. Len(argv)
      BY <1>3, <1>16
    <2>2. v \in Seq(STRING) /\ Len(v) \in Nat
      BY <1>3, <2>1, LineFacts
    <2>3. Arg(optind + 1) = [word |-> optind + 1, pos |-> 1] /\ Arg(optind + 1) # NULL
      BY <1>16 DEF Arg, NULL
    <2>4. Text(Arg(optind + 1)) = v
      <3>1. Text(Arg(optind + 1)) = SubSeq(v, 1, Len(v))
        BY <2>3 DEF Text
      <3> HIDE DEF v
      <3> QED BY <2>2, <3>1
    <2>5. Char(Arg(optind + 1)) = IF 1 > Len(v) THEN NUL ELSE v[1]
      BY <2>3 DEF Char
    <2>6. IsPrefix(<<"-">>, v) <=> Len(v) >= 1 /\ v[1] = "-"
      <3> DEFINE S == STRING \cup {"-"}
                 d == <<"-">>
      <3>1. v \in Seq(S) /\ d \in Seq(S) /\ Len(d) = 1 /\ d[1] = "-"
        <4> HIDE DEF v
        <4> QED BY <2>2
      <3> HIDE DEF S, d, v
      <3>2. IsPrefix(d, v) <=> Len(d) <= Len(v) /\ \A k \in 1 .. Len(d) : d[k] = v[k]
        BY <3>1, PrefixIs
      <3> QED BY <2>2, <3>1, <3>2 DEF d
    <2>7. Stop(optind + 1) \in CallSet
      BY <1>3, CallFacts
    <2>8. NextWord(argv, call, Stop(optind + 1), optind) = Then(<< [call EXCEPT !.arg = v] >>, optind + 2)
      BY <1>3, <1>7, <2>1, <2>7, NextWordSays
    <2>9. Char(Arg(optind + 1)) = "-" <=> Len(v) >= 1 /\ v[1] = "-"
      <3> DEFINE c == Char(Arg(optind + 1))
      <3>1. c = IF 1 > Len(v) THEN NUL ELSE v[1]
        BY <2>5
      <3>2. NUL # "-"
        BY DEF NUL
      <3>3. 1 > Len(v) <=> ~ (Len(v) >= 1)
        <4> HIDE DEF v, c
        <4> QED BY <2>2
      <3> HIDE DEF v, c
      <3>4. 1 > Len(v) => c = NUL
        BY <3>1
      <3>5. ~ (1 > Len(v)) => c = v[1]
        BY <3>1
      <3>6. c = "-" <=> Len(v) >= 1 /\ v[1] = "-"
        BY <3>2, <3>3, <3>4, <3>5, Zenon
      <3> QED BY <3>6 DEF c
    <2> QED BY <2>1, <2>2, <2>4, <2>6, <2>8, <2>9
  <1>17. CASE LongNext(i)
    <2>1. /\ Char(p) = NUL /\ optind + 1 < argc /\ LongReturns(i, Arg(optind + 1), 2)
          /\ \/ long.has_arg = "required_argument"
             \/ long.has_arg = "optional_argument" /\ Char(Arg(optind + 1)) # "-"
      BY <1>17 DEF LongNext, TakesNext, p
    <2>2. Name(word) = name /\ long.has_arg # "invalid"
      BY <1>4, <2>1
    <2>3. Todo = NextWord(argv, call, Stop(optind + 1), optind)
      BY <1>6, <1>7, <1>16, <2>1, <2>2
    <2> QED BY <1>11, <1>16, <2>1, <2>3
  <1>18. CASE LongBare(i)
    <2>1. /\ Char(p) = NUL /\ long.has_arg \in {"no_argument", "optional_argument"}
          /\ ~ TakesNext(i) /\ LongReturns(i, NULL, 1)
      BY <1>18 DEF LongBare, p
    <2>2. Name(word) = name /\ long.has_arg \notin {"invalid", "required_argument"}
      BY <1>4, <2>1
    <2>3. optind < Len(argv) => optind + 1 < argc
      BY <1>3
    <2>4. ~ (long.has_arg = "optional_argument" /\ optind < Len(argv) /\ ~ IsPrefix(<<"-">>, argv[optind + 1]))
      BY <1>16, <2>1, <2>3 DEF TakesNext, p
    <2>5. Todo = Then(<< call >>, optind + 1)
      BY <1>6, <1>7, <2>2, <2>4
    <2>6. Text(NULL) = call.arg
      BY <1>12, <1>13, <2>2
    <2> QED BY <1>10, <1>11, <1>13, <2>1, <2>5, <2>6
  <1>19. CASE LongFails(i)
    <2>1. /\ Returns(Stop(optind + 1))
          /\ \/ long.has_arg = "invalid"
             \/ long.has_arg = "required_argument" /\ Char(p) = NUL /\ optind + 1 >= argc
      BY <1>19 DEF LongFails, p
    <2>2. Stop(optind + 1) \in CallSet /\ Stop(optind + 1).opt \in {End, "?"}
      BY <1>3, CallFacts
    <2>3. Todo = Then(<< Stop(optind + 1) >>, 0)
      <3>1. CASE long.has_arg = "invalid"
        BY <1>6, <1>7, <3>1
      <3>2. CASE long.has_arg = "required_argument" /\ Char(p) = NUL /\ optind + 1 >= argc
        <4>1. optind >= Len(argv)
          BY <1>3, <3>2
        <4>2. NextWord(argv, call, Stop(optind + 1), optind) = Then(<< Stop(optind + 1) >>, 0)
          BY <1>3, <1>7, <2>2, <4>1, NextWordSays
        <4> QED BY <1>4, <1>6, <1>7, <3>2, <4>2
      <3> QED BY <2>1, <3>1, <3>2
    <2> QED BY <2>1, <2>2, <2>3, CallEnds
  <1> QED BY <1>15, <1>17, <1>18, <1>19 DEF Long

(* Starting over: all of the new command line is to come.                   *)
LEMMA BeginsAnew ==
    ASSUME OInv', NInv', seen' = <<>>, ~ in_chain', optind' = 1, Start' = Arg(1)'
    PROVE  FInv'
  <1>1. ~ Ended(<<>>) /\ <<>> \in Calls
    BY DEF Ended, Calls
  <1>2. argv' \in ArgVs /\ 1 \in 1 .. Len(argv') + 1
    <2>1. argv' \in ArgVs
      BY DEF OInv
    <2>2. Len(argv') \in Nat
      BY <2>1, LineFacts
    <2> QED BY <2>1, <2>2
  <1>3. Todo' = Word(argv', 1)
    BY DEF Todo
  <1>4. Rest(argv', Word(argv', 1)) = Parse(argv') /\ Rest(argv', Word(argv', 1)) \in Calls
    BY <1>2, FromFacts
  <1>5. <<>> \o Rest(argv', Word(argv', 1)) = Parse(argv')
    <2>1. \A s \in Calls : <<>> \o s = s
      BY DEF Calls
    <2> QED BY <1>4, <2>1
  <1>6. ~ Ended(seen)' /\ seen' \in Calls /\ seen' \o Rest(argv', Todo') = Parse(argv') /\ Start' = Arg(optind)'
    BY <1>1, <1>3, <1>5 DEF Ended
  <1> QED BY <1>6 DEF FInv

LEMMA InitFollows == Init => FInv
  <1> SUFFICES ASSUME Init PROVE FInv
    OBVIOUS
  <1>1. ~ Ended(<<>>) /\ <<>> \in Calls
    BY DEF Ended, Calls
  <1>2. argv \in ArgVs /\ seen = <<>> /\ ~ in_chain /\ optind = 1 /\ 1 \in 1 .. Len(argv) + 1
    <2>1. argv \in ArgVs /\ seen = <<>> /\ ~ in_chain /\ optind = 1
      BY DEF Init
    <2>2. Len(argv) \in Nat
      BY <2>1, LineFacts
    <2> QED BY <2>1, <2>2
  <1>3. Todo = Word(argv, 1) /\ Start = Arg(optind)
    BY <1>2 DEF Todo, Start
  <1>4. Rest(argv, Word(argv, 1)) = Parse(argv) /\ Rest(argv, Word(argv, 1)) \in Calls
    BY <1>2, FromFacts
  <1>5. <<>> \o Rest(argv, Word(argv, 1)) = Parse(argv)
    <2>1. \A s \in Calls : <<>> \o s = s
      BY DEF Calls
    <2> QED BY <1>4, <2>1
  <1> QED BY <1>1, <1>2, <1>3, <1>5 DEF FInv

LEMMA NextFollows ==
    ASSUME ~ Abandons, ResultsTold, NamesSpelled, OInv, NInv, FInv, OInv', NInv', [Next]_vars
    PROVE  FInv'
  <1>1. CASE Restart
    <2>1. seen' = <<>> /\ ~ in_chain /\ ~ in_chain' /\ optind' = 1
      BY <1>1 DEF Restart
    <2>2. Start' = Arg(1)'
      BY <2>1 DEF Start
    <2> QED BY <2>1, <2>2, BeginsAnew
  <1>2. CASE UNCHANGED vars
    BY <1>2 DEF vars, FInv, Todo, Start, Arg, argc
  <1>3. CASE \E i \in 1 .. Len(longopts) : Long(i)
    BY <1>3, LongFollows
  <1> QED BY <1>1, <1>2, <1>3, StopsFollow, ShortFollows DEF Next, getopt_long

LEMMA FollowsFromInvariant ==
    ASSUME OInv, NInv, FInv
    PROVE  FollowsArgv
  <1>1. Parse(argv) \in Calls /\ Rest(argv, Todo) \in Calls /\ seen \in Calls
    <2>1. 1 \in 1 .. Len(argv) + 1 /\ argv \in ArgVs
      <3>1. Len(argv) \in Nat /\ argv \in ArgVs
        BY LineFacts DEF OInv
      <3> QED BY <3>1
    <2> QED BY <2>1, FromFacts, TodoSays DEF FInv
  <1>2. \A s, t \in Calls : IsPrefix(s, s \o t) /\ IsPrefix(s, s)
    <2>1. ASSUME NEW s \in Seq(CallSet), NEW t \in Seq(CallSet) PROVE IsPrefix(s, s \o t) /\ IsPrefix(s, s)
      BY CallFacts, Concats
    <2> QED BY <2>1 DEF Calls
  <1> QED BY <1>1, <1>2 DEF FInv, FollowsArgv

(* The calls return what the command line says, one option and one argument *)
(* after the other, and nothing else, whatever line the caller starts over  *)
(* with (pgetopt.c:22-120): a caller that starts over between words, with   *)
(* options that are not taken for the end of a parse, and words that do not *)
(* go on after a name they do not spell.                                    *)
THEOREM CallsFollowArgv ==
    ASSUME ~ Abandons, ResultsTold, NamesSpelled
    PROVE  Spec => []FollowsArgv
  <1>1. Init => OInv /\ NInv /\ FInv
    <2>1. Init => ~ in_chain /\ fresh /\ nextchar = NULL
      BY DEF Init
    <2>2. Init => NInv
      BY <2>1, Zenon DEF NInv
    <2> QED BY <2>2, InitOptind, InitFollows
  <1>2. OInv /\ NInv /\ FInv /\ [Next]_vars => OInv' /\ NInv' /\ FInv'
    BY NextOptind, NextInside, NextFollows
  <1>3. OInv /\ NInv /\ FInv => FollowsArgv
    BY FollowsFromInvariant
  <1> QED BY <1>1, <1>2, <1>3, PTL DEF Spec
=============================================================================

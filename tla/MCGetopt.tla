------------------------------- MODULE MCGetopt -------------------------------
(* Small instances of Getopt. *)
EXTENDS Getopt, FiniteSets

(* Every command line of at most n words taken from a set.                  *)
Lines(words, n) == UNION {[1 .. k -> words] : k \in 0 .. n}

Short == {<<"-", "a">>, <<"-", "b">>, <<"-", "a", "b">>, <<"-", "b", "a">>,
          <<"-">>, <<"-", "-">>, <<>>}

(* ab:  a is a flag, b takes an argument; x is unknown. *)
MCOptstring == <<"a", "b", ":">>

(* One option of each kind; no name is a prefix of another.                 *)
L(name, has_arg, flag, val) ==
    [name |-> name, has_arg |-> has_arg, flag |-> flag, val |-> val]

MCLong == << L(<<"a", "a">>, "no_argument", FALSE, "N"),
             L(<<"b">>, "required_argument", FALSE, "R"),
             L(<<"c">>, "optional_argument", TRUE, "O"),
             L(<<"d">>, "invalid", FALSE, "I") >>

LongWords == {<<"-", "-", "a", "a">>, <<"-", "-", "b">>, <<"-", "-", "b", "=", "x">>,
              <<"-", "-", "c">>, <<"-", "-", "c", "=">>, <<"-", "-", "d">>,
              <<"-", "-", "a", "b">>, <<"-", "-", "x">>, <<"-", "a", "b">>, <<"x">>,
              <<"-", "-">>}

NoLong == <<>>

(* Each short word alone, every pair of long words, a chain, an operand and *)
(* --, and every line of three words of some.                               *)
MCLines == Lines(Short, 1) \cup Lines(LongWords, 2) \cup
    Lines({<<"-", "a", "b">>, <<"-", "b">>, <<"-", "-", "c">>, <<"x">>}, 3)

(* Known options only; --a is a long option, for which there is no table, or *)
(* one with its terminator alone, in which it is read as the option a.      *)
MCKnown == Lines({<<"-", "a">>, <<"-", "a", "a", "b">>, <<"-", "-">>, <<"-">>,
                  <<"-", "-", "a">>, <<"a">>}, 3)

(* An unknown option in the first word. *)
MCUnknown == Lines({<<"-", "a", "x">>, <<"-", "a">>}, 2)

(* Names that are prefixes of what is given. *)
PrefixLong  == << L(<<"a">>, "no_argument", FALSE, "A"),
                  L(<<"b">>, "no_argument", FALSE, "B") >>
PrefixWords == Lines({<<"-", "-", "a", "b">>, <<"-", "-", "a">>}, 2)

(* What the theorem on FollowsArgv asks of the caller is so in every run    *)
(* but the one whose names are prefixes of what is given.                   *)
ASSUME HypothesesHold == longopts # PrefixLong => ResultsTold /\ NamesSpelled
=============================================================================

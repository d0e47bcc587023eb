------------------------------- MODULE MCStrings -------------------------------
(* Small instances of Strings.  Characters: 97 a, 65 A, 44 comma, 9 tab,    *)
(* 32 space.                                                                *)
EXTENDS Strings, TLC

Symmetry == Permutations(Names)

A(cs, cap) == AUTO_STRING(cs, cap)
C(cs)      == CONST_STRING(cs)

Does(n, given, longest, calls, words, numbers) ==
    [declares |-> n, given |-> given, calls |-> calls, words |-> words,
     numbers |-> numbers, longest |-> longest]

(* Two Strings of any kind: a caller's array with room for three, a literal,*)
(* or yet to be allocated.                                                  *)
Grows == Does(2, {A(<<97>>, 3), C(<<44, 97>>)}, 3,
              {"dest", "clear", "copy", "append", "extend", "cstr"},
              {<<97>>, <<44>>}, {0})

(* Strings looked at.                                                       *)
Looking == Does(2, {A(<<97, 44, 97>>, 3), C(<<44, 97>>), A(<<97, 44>>, 2)}, 3,
                {"compare", "in", "starts_with", "ends_with", "get", "clear", "append"},
                {<<>>, <<97>>, <<97, 44>>}, {-4, -1, 2, 3})

(* Strings of String_new.                                                   *)
News == Does(1, {}, 2, {"new", "new_empty", "del", "dest", "copy", "append"},
             {<<97>>}, {-1, 0, 2})

(* One String changed in place.                                             *)
Edits == Does(1, {A(<<9, 97, 9>>, 5), A(<<65, 32, 97>>, 3), A(<<32, 65, 32, 9>>, 4),
                  C(<<32, 9>>)}, 5,
              {"strip", "lstrip", "rstrip", "lower", "upper", "set", "expand_tabs", "cstr"},
              {NULL, <<>>, <<32>>, <<32, 9>>, <<97>>}, {-5, -1, 2, 3})

Slices == Does(2, {A(<<97, 44, 65>>, 3), A(<<97, 44>>, 2), C(<<44, 97>>)}, 3,
               {"slice", "clear"}, {<<97>>}, {-2, -1, 0, 3})

Parts == Does(3, {A(<<97>>, 1), C(<<97, 44, 97>>), C(<<44, 97, 44>>)}, 2,
              {"join", "split"}, {<<44>>}, {0})

(* One String for two purposes, or none.                                    *)
Pairs == Does(2, {A(<<97, 44, 97>>, 3), C(<<44, 97, 44>>), A(<<44>>, 2)}, 4,
              {"join", "split", "copy", "split_new", "partition", "rpartition"},
              {NULL, <<44>>}, {0})

(* old and new of one length, and no count above that of the occurrences.   *)
Replaces == Does(1, {A(<<97, 44, 97>>, 4), C(<<97, 44, 44>>), A(<<44, 44, 44, 44>>, 4)}, 4,
                 {"append", "replace"}, {NULL, <<44>>, <<97>>}, {-2, -1, 0, 1})

Everyone == {Grows, Looking, News, Edits, Slices, Parts, Pairs, Replaces}

ASSUME EveryoneIsCareful == Callers = Everyone => Careful

-----------------------------------------------------------------------------
(* What strings.c does otherwise than strings.h says.                       *)
Roomy    == {A(<<97, 44, 97>>, 8)}
Literals == {Does(1, {C(<<97, 44, 65>>)}, 8, {"lower", "set"}, {<<44>>}, {0})}
Results  == {Does(2, {A(<<>>, 8), C(<<97>>)}, 8, {"copy"}, {}, {}),
             Does(1, Roomy, 8, {"set"}, {<<44>>}, {0})}
Tabbed(n) == {Does(1, {A(<<97, 9, 97>>, 8), A(<<9, 9, 97>>, 3)}, 8, {"expand_tabs"}, {}, {n})}
OneSpace == Tabbed(1)
NoSpace  == Tabbed(0)
Longer   == {Does(1, Roomy, 8, {"replace"}, {<<44>>, <<97, 97>>}, {-1})}
Shorter  == {Does(1, {A(<<97, 44, 65, 97, 44, 65, 97>>, 8)}, 8, {"replace"},
                  {<<44>>, <<44, 97>>, <<>>}, {-1})}
TooMany  == {Does(1, Roomy, 8, {"replace"}, {<<44>>}, {2})}
Cutting  == {Does(2, {A(<<97, 44>>, 8), A(<<44, 97>>, 8)}, 8, {"partition", "rpartition"},
                  {<<44>>}, {})}
Unsplit  == {Does(3, {A(<<97, 65>>, 8), A(<<97, 44, 65>>, 8)}, 8, {"split"}, {<<44>>}, {})}
Narrow   == {Does(3, {A(<<97, 44, 65, 65>>, 4), A(<<97>>, 1)}, 8, {"split"}, {<<44>>}, {})}
Unmade   == {Does(1, {A(<<97, 44, 65>>, 8)}, 8, {"split_new"}, {<<44>>}, {})}
White    == {Does(2, {A(<<97, 32, 65>>, 8)}, 8, {"split"}, {NULL}, {})}
=============================================================================

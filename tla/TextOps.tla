-------------------------------- MODULE TextOps --------------------------------
(***************************************************************************)
(* What the words of src/Strings/strings.h mean on plain sequences of      *)
(* characters: first and last occurrence, number of occurrences, pieces,   *)
(* replacement, stripping.  Nothing here is how strings.c computes it.     *)
(*                                                                         *)
(* Positions count from 0, as in the code.                                 *)
(***************************************************************************)
EXTENDS Integers, Sequences, SequencesExt, FiniteSets, FiniteSetsExt

(* The n characters of s from position p on. *)
Window(s, p, n) == SubSeq(s, p + 1, p + n)

Occurs(s, sub, p) == Window(s, p, Len(sub)) = sub

(* Where sub occurs between the positions a and b. *)
Occurrences(s, sub, a, b) ==
    IF sub = <<>> THEN {} ELSE {p \in a .. b - Len(sub) : Occurs(s, sub, p)}

FirstOf(positions) == IF positions = {} THEN -1 ELSE Min(positions)
LastOf(positions)  == IF positions = {} THEN -1 ELSE Max(positions)

(* Occurrences of a text of n characters that do not overlap. *)
Apart(positions, n) ==
    \A p, q \in positions : p < q => p + n <= q

MostApart(positions, n) ==
    Max({Cardinality(ps) : ps \in {qs \in SUBSET positions : Apart(qs, n)}})

(* Lexicographic order: -1, 0 or 1. *)
Order(s, t) ==
    LET differs == {k \in 1 .. Min({Len(s), Len(t)}) : s[k] # t[k]}
        less(m, n) == IF m < n THEN -1 ELSE IF m > n THEN 1 ELSE 0
    IN  IF differs = {} THEN less(Len(s), Len(t))
                        ELSE less(s[Min(differs)], t[Min(differs)])

(* The pieces of s between the occurrences of sep, from the left.           *)
Pieces(s, sep) ==
    LET from[a \in 0 .. Len(s)] ==
            LET p == FirstOf(Occurrences(s, sep, a, Len(s)))
            IN  IF p < 0 THEN << Window(s, a, Len(s) - a) >>
                ELSE << Window(s, a, p - a) >> \o from[p + Len(sep)]
    IN  from[0]

Joined(pieces, sep) ==
    FlattenSeq([i \in DOMAIN pieces |-> IF i = 1 THEN pieces[1] ELSE sep \o pieces[i]])

(* At most n pieces, the last one keeping the rest.                         *)
PiecesUpTo(s, sep, n) ==
    LET all == Pieces(s, sep)
    IN  IF Len(all) <= n THEN all
        ELSE Append(SubSeq(all, 1, n - 1), Joined(SubSeq(all, n, Len(all)), sep))

(* The first n occurrences of old, from the left, become new.               *)
Replaced(s, old, new, n) ==
    LET all == Pieces(s, old)
    IN  FlattenSeq([i \in DOMAIN all |->
            IF i = 1 THEN all[1] ELSE (IF i - 1 <= n THEN new ELSE old) \o all[i]])

(* Every c becomes n copies of d. *)
Expanded(s, c, n, d) ==
    FlattenSeq([i \in DOMAIN s |-> IF s[i] = c THEN [k \in 1 .. n |-> d] ELSE << s[i] >>])

(* What is left when the leading (trailing) characters of a set are taken off. *)
StripLeft(s, chars) ==
    LET kept == {i \in DOMAIN s : s[i] \notin chars}
    IN  IF kept = {} THEN <<>> ELSE SubSeq(s, Min(kept), Len(s))

StripRight(s, chars) ==
    LET kept == {i \in DOMAIN s : s[i] \notin chars}
    IN  IF kept = {} THEN <<>> ELSE SubSeq(s, 1, Max(kept))
=============================================================================

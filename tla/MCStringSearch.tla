----------------------------- MODULE MCStringSearch -----------------------------
(* A caller that asks about every short text, with every pair of bounds.    *)
EXTENDS StringSearch

CONSTANTS Alphabet, MaxText, MaxSub, Steps

ASSUME AlphabetAssumption == Alphabet \subseteq Nat \ {0}

ASSUME SizesAssumption == MaxText \in Nat /\ MaxSub \in Nat /\ Steps \subseteq Int

VARIABLES str, pattern, left, right, stride

question == <<str, pattern, left, right, stride>>

TextsUpTo(n) == UNION {[1 .. k -> Alphabet] : k \in 0 .. n}

(* Every position from one before the text around to one behind it.         *)
Positions(s) == - Len(s) .. Len(s)

MCSteps == -3 .. 3

AskNothing ==
    /\ str \in TextsUpTo(MaxText) /\ pattern \in TextsUpTo(MaxSub)
    /\ left = 0 /\ right = 0 /\ stride = 1

AskFrom == left' \in Positions(str) /\ UNCHANGED <<str, pattern, right, stride>>

AskTo == right' \in Positions(str) /\ UNCHANGED <<str, pattern, left, stride>>

(* Steps are asked for when nothing is searched.                            *)
AskEvery == pattern = <<>> /\ stride' \in Steps /\ UNCHANGED <<str, pattern, left, right>>

Ask == AskFrom \/ AskTo \/ AskEvery

Asking == AskNothing /\ [][Ask]_question

-----------------------------------------------------------------------------
(* The texts may be searched between these: positions -Len(str) and below   *)
(* become places before the text (Bound), which no caller may ask for.      *)
LeftBound  == Bound(left, Len(str))
RightBound == EndBound(right, Len(str))

Searchable == str # <<>> /\ left > - Len(str) /\ right > - Len(str)

Found == Occurrences(str, pattern, LeftBound, RightBound)

(* String_find: the first occurrence between the bounds, or -1, although    *)
(* the scan skips what cannot begin one.                                    *)
FindIsFirst == Searchable => Find(str, pattern, left, right) = FirstOf(Found)

(* String_rfind: the last occurrence between the bounds, or -1.             *)
RfindIsLast == Searchable => Rfind(str, pattern, left, right) = LastOf(Found)

(* String_count: taking occurrences greedily from the left gives as many as *)
(* any choice of occurrences that do not overlap; an end of 0 is the end of *)
(* the string.                                                              *)
CountIsMost == Searchable => Count(str, pattern, left, right) = MostApart(Found, Len(pattern))

(* String_slice asks for exactly the room that its characters take: what it *)
(* reports as required is enough, and no append of the loop has to grow.    *)
Sliceable == str # <<>> /\ left < Len(str) /\ ~ SliceIsError(str, left, right, stride)

SliceFits ==
    Sliceable => SliceSize(str, left, right, stride) = Len(Slice(str, left, right, stride))
=============================================================================

-------------------------- MODULE SequenceInterface --------------------------
(***************************************************************************)
(* What src/containers/sequence.h asks of an implementation: elements in   *)
(* an order, which are read and set by their place, places below 0         *)
(* counting round from the end, and whose order can be reversed.           *)
(***************************************************************************)
EXTENDS Integers, Sequences, SequencesExt

CONSTANTS Values, NULL

VARIABLES
    elements,   (* in their order                                            *)
    call,       (* the last call and its arguments                           *)
    result      (* what it returned                                          *)

vars == <<elements, call, result>>

Init == elements \in Seq(Values) /\ call = <<"none">> /\ result = NULL

At(loc) == IF loc < 0 THEN (loc % Len(elements)) + 1 ELSE loc + 1

Exists(loc) == loc < Len(elements) /\ (loc < 0 => elements # <<>>)

Get(loc) ==
    /\ result' = IF Exists(loc) THEN elements[At(loc)] ELSE NULL
    /\ UNCHANGED elements

(* A nonzero result says that there is no such place. *)
Set(loc, val) ==
    \/ Exists(loc)   /\ elements' = [elements EXCEPT ![At(loc)] = val] /\ result' = 0
    \/ ~ Exists(loc) /\ UNCHANGED elements /\ result' \in {1, 2}

Reversal == elements' = Reverse(elements) /\ result' = NULL

(* An iterator gives an element, or no more. *)
Iterated ==
    /\ result' \in Range(elements) \cup {NULL}
    /\ UNCHANGED elements

Next ==
    LET c == call'
    IN  \/ c[1] = "get"     /\ Get(c[2])
        \/ c[1] = "set"     /\ Set(c[2], c[3])
        \/ c[1] = "reverse" /\ Reversal
        \/ c[1] = "next"    /\ Iterated

Spec == Init /\ [][Next]_vars
=============================================================================

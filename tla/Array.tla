--------------------------------- MODULE Array ---------------------------------
(***************************************************************************)
(* The array of src/containers/array.h and its iterators.                  *)
(*                                                                         *)
(* An Array is the caller's memory, of a size that does not change, and a  *)
(* direction.  An iterator copies the bounds of the array and the          *)
(* direction it has when the iterator is made.  A pointer to an element is *)
(* its position in the memory.                                             *)
(*                                                                         *)
(* The functions are called by name.  The iterator that Array makes has no *)
(* vtables: to call it through its interface is undefined, which is all    *)
(* that contains does.                                                     *)
(***************************************************************************)
EXTENDS Integers, Sequences

CONSTANTS
    Values,     (* what elements may be                                      *)
    NULL,
    Sizes,      (* of the array                                              *)
    Locations,  (* arguments of get and set                                  *)
    Iterators,
    Steps       (* of iterators that the caller makes                        *)

Iterator == [start : Int, cur : Int, stop : Int, step : Int \ {0}]

ASSUME SizesAssumption    == Sizes \subseteq Nat
ASSUME StepsAssumption    == Steps \subseteq Int \ {0}
ASSUME LocationAssumption == Locations \subseteq Int
ASSUME NullAssumption     == NULL \notin Values /\ NULL \notin Iterator

VARIABLES
    size,
    array,      (* the elements, by position                                 *)
    reversed,
    iters,      (* the iterators; NULL before they are made                  *)
    made,       (* the direction of the array when it made each, NULL for    *)
                (* those that the caller made                                *)
    visited,    (* the positions each has returned, since it was (re)started *)
    call,       (* the last get, set, reverse or next, with its arguments    *)
    result,     (* what it returned: a value, NULL or a status               *)
    undefined   (* has a NULL vtable been called?                            *)

vars == <<size, array, reversed, iters, made, visited, call, result, undefined>>

Positions == 0 .. size - 1

-----------------------------------------------------------------------------
(* get and set *)

(* C's division, for a divisor above 0. *)
Quot(a, b) == IF a >= 0 THEN a \div b ELSE - ((- a) \div b)

(* Wrong: -size is taken for size. *)
Wrapped_wrong(loc, n) == IF loc < 0 THEN loc - (Quot(loc, n) - 1) * n ELSE loc

(* A place below 0 counts round from the end. *)
Wrapped(loc, n) ==
    IF loc < 0 THEN loc - (Quot(loc + 1, n) - 1) * n ELSE loc

Exists(loc) == (loc < 0 => size # 0) /\ Wrapped(loc, size) < size

Mirrored(i) == IF reversed THEN size - 1 - i ELSE i

(* The position of the element at a place. *)
At(loc) == Mirrored(Wrapped(loc, size))

Get(loc) ==
    /\ call'   = <<"get", loc>>
    /\ result' = IF Exists(loc) THEN array[At(loc)] ELSE NULL
    /\ UNCHANGED <<size, array, reversed, iters, made, visited, undefined>>

Set(loc, val) ==
    /\ call'   = <<"set", loc, val>>
    /\ array'  = IF Exists(loc) THEN [array EXCEPT ![At(loc)] = val] ELSE array
    /\ result' = IF Exists(loc) THEN 0 ELSE IF loc < 0 /\ size = 0 THEN 1 ELSE 2
    /\ UNCHANGED <<size, reversed, iters, made, visited, undefined>>

Reverse ==
    /\ call'     = <<"reverse">>
    /\ reversed' = ~ reversed
    /\ result'   = NULL
    /\ UNCHANGED <<size, array, iters, made, visited, undefined>>

-----------------------------------------------------------------------------
(* Iterators *)

(* Wrong: the direction of the array is ignored.                            *)
Around_wrong_forward == [start |-> 0, cur |-> 0, stop |-> size, step |-> 1]

(* Wrong: backwards, it stops at the first element, not before it.          *)
Around_wrong_stop ==
    IF reversed THEN [start |-> size - 1, cur |-> size - 1, stop |-> 0, step |-> -1]
                ELSE [start |-> 0, cur |-> 0, stop |-> size, step |-> 1]

(* Wrong: backwards, it starts past the last element.                       *)
Around_wrong_start ==
    IF reversed THEN [start |-> size, cur |-> size, stop |-> -1, step |-> -1]
                ELSE [start |-> 0, cur |-> 0, stop |-> size, step |-> 1]

(* What iter makes. *)
Around ==
    IF reversed THEN [start |-> size - 1, cur |-> size - 1, stop |-> -1, step |-> -1]
                ELSE [start |-> 0, cur |-> 0, stop |-> size, step |-> 1]

Begin(it, i, direction) ==
    /\ iters'   = [iters EXCEPT ![it] = i]
    /\ made'    = [made EXCEPT ![it] = direction]
    /\ visited' = [visited EXCEPT ![it] = <<>>]
    /\ UNCHANGED <<size, array, reversed, call, result, undefined>>

Iter(it) == Begin(it, Around, reversed)

(* An iterator that the caller makes over part of the array. *)
Make(it, start, stop, step) ==
    /\ Begin(it, [start |-> start, cur |-> start, stop |-> stop, step |-> step], NULL)
    /\ IF step > 0 THEN 0 <= start /\ start <= stop /\ stop <= size
                   ELSE -1 <= stop /\ stop <= start /\ start < size

(* An iterator over what another iterates over, from its start. *)
Restarted(i) == [i EXCEPT !.cur = i.start]

Restart(it, from) ==
    /\ iters[from] # NULL
    /\ Begin(it, Restarted(iters[from]), made[from])

(* Wrong: backwards, the last step is cut short of the end.                 *)
Stepped_wrong_short(i) ==
    IF i.step > 0 THEN IF i.stop - i.cur < i.step THEN i.stop ELSE i.cur + i.step
                  ELSE IF i.stop - i.cur >= i.step THEN i.stop + 1 ELSE i.cur + i.step

(* One step on, or to the end when it is nearer. *)
Stepped(i) ==
    IF i.step > 0 THEN IF i.stop - i.cur < i.step THEN i.stop ELSE i.cur + i.step
                  ELSE IF i.stop - i.cur > i.step THEN i.stop ELSE i.cur + i.step

Done(i) == i.cur = i.stop

NextEnds(it) ==
    /\ iters[it] # NULL /\ Done(iters[it])
    /\ call'   = <<"next", it>>
    /\ result' = NULL
    /\ UNCHANGED <<size, array, reversed, iters, made, visited, undefined>>

(* Wrong: when the end is nearer than a step, the iterator stays where it   *)
(* is.                                                                      *)
NextElement_wrong(it) ==
    /\ iters[it] # NULL /\ ~ Done(iters[it])
    /\ call'   = <<"next", it>>
    /\ result' = array[iters[it].cur]
    /\ IF Stepped(iters[it]) # iters[it].stop
       THEN /\ visited' = [visited EXCEPT ![it] = Append(@, iters[it].cur)]
            /\ iters'   = [iters EXCEPT ![it].cur = Stepped(iters[it])]
       ELSE UNCHANGED <<visited, iters>>
    /\ UNCHANGED <<size, array, reversed, made, undefined>>

NextElement(it) ==
    /\ iters[it] # NULL /\ ~ Done(iters[it])
    /\ call'    = <<"next", it>>
    /\ result'  = array[iters[it].cur]
    /\ visited' = [visited EXCEPT ![it] = Append(@, iters[it].cur)]
    /\ iters'   = [iters EXCEPT ![it].cur = Stepped(iters[it])]
    /\ UNCHANGED <<size, array, reversed, made, undefined>>

(* contains, with a function to compare with. *)
Contains ==
    /\ undefined' = TRUE
    /\ UNCHANGED <<size, array, reversed, iters, made, visited, call, result>>

-----------------------------------------------------------------------------
Init ==
    /\ size \in Sizes
    /\ array \in [Positions -> Values]
    /\ reversed = FALSE
    /\ iters = [it \in Iterators |-> NULL]
    /\ visited = [it \in Iterators |-> <<>>]
    /\ made = [it \in Iterators |-> NULL]
    /\ call = <<"none">>
    /\ result = NULL
    /\ undefined = FALSE

Step ==
    \/ \E loc \in Locations : Get(loc) \/ \E val \in Values : Set(loc, val)
    \/ Reverse
    \/ \E it \in Iterators :
          \/ Iter(it)
          \/ \E start \in Positions, stop \in Positions \cup {-1, size}, step \in Steps :
                Make(it, start, stop, step)
          \/ \E from \in Iterators : Restart(it, from)
          \/ NextEnds(it)
          \/ NextElement(it)
    \/ Contains

Next == ~ undefined /\ Step

Spec == Init /\ [][Next]_vars

(* A loop over an iterator goes on until it is told the end. *)
LoopsOn == \A it \in Iterators : WF_vars(~ undefined /\ NextElement(it))

FairSpec == Spec /\ LoopsOn

-----------------------------------------------------------------------------
(* Properties *)

(* The state has its types. *)
TypeOK ==
    /\ size \in Sizes
    /\ array \in [Positions -> Values]
    /\ reversed \in BOOLEAN
    /\ iters \in [Iterators -> Iterator \cup {NULL}]
    /\ made \in [Iterators -> BOOLEAN \cup {NULL}]
    /\ visited \in [Iterators -> Seq(Int)]
    /\ undefined \in BOOLEAN

(* Every pointer that next returns, and moves an iterator to, is in the     *)
(* array: array.h:75 never computes one outside.                            *)
PointersInside ==
    \A it \in Iterators : iters[it] # NULL /\ ~ Done(iters[it]) => iters[it].cur \in Positions

(* An iterator returns the positions from start on, a step apart, and says  *)
(* it is done when there are no more before stop (array.h:70-90).           *)
Before(i, p) == IF i.step > 0 THEN p < i.stop ELSE p > i.stop

VisitsInSteps ==
    \A it \in Iterators : iters[it] # NULL =>
        LET i == iters[it]
            v == visited[it]
        IN  /\ \A k \in DOMAIN v : v[k] = i.start + (k - 1) * i.step /\ Before(i, v[k])
            /\ IF Done(i) THEN ~ Before(i, i.start + Len(v) * i.step)
                          ELSE i.cur = i.start + Len(v) * i.step

(* The iterator that the array makes goes through the places in the order   *)
(* in which get counts them when it is made; when the array is reversed     *)
(* under it, it goes on as it began, which is then backwards                *)
(* (array.h:123-128 and :148).                                              *)
IteratesAsGet ==
    \A it \in Iterators : made[it] # NULL =>
        \A k \in DOMAIN visited[it] :
            visited[it][k] = IF made[it] = reversed THEN At(k - 1) ELSE At(size - k)

(* And when it is done it has been everywhere. *)
IteratesOverAll ==
    \A it \in Iterators :
        made[it] # NULL /\ Done(iters[it]) => Len(visited[it]) = size

(* The array is a sequence, reversed or not. *)
Interface == INSTANCE SequenceInterface WITH elements <- [k \in 1 .. size |-> array[At(k - 1)]]

InterfaceSpec == Interface!Spec

(* A loop over an iterator ends, unless the iterator is begun anew for ever *)
(* or an undefined call comes first.                                        *)
Begun(it) == iters'[it] # NULL /\ visited'[it] = <<>>

LoopEnds ==
    \A it \in Iterators :
        \/ <>[](iters[it] = NULL) \/ <>undefined
        \/ []<>(iters[it] # NULL /\ Done(iters[it])) \/ []<><<Begun(it)>>_vars
=============================================================================

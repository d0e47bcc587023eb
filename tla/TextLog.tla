------------------------------- MODULE TextLog -------------------------------
(* What a caller of the page buffer relies on: one text, to which a print   *)
(* appends all its bytes or none, and which only deleting the buffer ends.  *)
(* Bytes are named by their position in the order they were printed.        *)
EXTENDS Integers, Sequences

VARIABLE log

Init == log = <<>>

AppendText ==
    \E n \in 1 .. Len(log') - Len(log) :
        log' = log \o [k \in 1 .. n |-> Len(log) + k]

End == log' = <<>>

Next == AppendText \/ End

Spec == Init /\ [][Next]_log
=============================================================================

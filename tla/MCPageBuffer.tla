----------------------------- MODULE MCPageBuffer -----------------------------
(* Small instances of PageBuffer. *)
EXTENDS PageBuffer

F(len, first, again) == [len |-> len, first |-> first, again |-> again]

(* Empty texts, texts around the page sizes 3 and 4, one no page can hold,  *)
(* and formats vsnprintf rejects at once or only when tried again.          *)
MCFormats == {F(n, TRUE, TRUE) : n \in 0 .. 4}
                 \cup {F(1, FALSE, FALSE), F(2, TRUE, FALSE), F(0, TRUE, FALSE)}

(* Also sizes for which the code takes its own.                             *)
MCSizes == {-1, 0, 1, 3}
=============================================================================

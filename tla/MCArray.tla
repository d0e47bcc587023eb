-------------------------------- MODULE MCArray --------------------------------
(* A small instance of Array: places from beyond two rounds below the first *)
(* element of the largest array to one past its last, and steps that do and *)
(* do not divide its size, or are longer than it.                           *)
EXTENDS Array

MCLocations == -7 .. 3
MCSteps     == {-4, -2, -1, 1, 2}
=============================================================================

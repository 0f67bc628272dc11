------------------------------ MODULE MCLocTimer ------------------------------
(* One timer object, one wrapper, and room for three delegates. *)
EXTENDS LocTimer

CONSTANTS o1, w1

MCObjects == {o1}
MCWrappers == {w1}
=============================================================================

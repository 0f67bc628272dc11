------------------------------ MODULE MCAgpsNif ------------------------------
(* AgpsNif with two clients. *)
EXTENDS AgpsNif

CONSTANTS h1, h2

MCHandles == {h1, h2}
=============================================================================

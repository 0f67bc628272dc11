--------------------------- MODULE MCSuplEmergency ---------------------------
(* SuplEmergency with two clients, for TLC. *)
EXTENDS SuplEmergency

CONSTANTS h1, h2

MCHandles == {h1, h2}
=============================================================================

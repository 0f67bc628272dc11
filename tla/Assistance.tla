------------------------------ MODULE Assistance ------------------------------
(***************************************************************************)
(* The two sides of the assistance data: what the engine asks for, injects *)
(* and reports of its servers (LocEngAssist), and the line by which the    *)
(* client of those servers names the phone to them (XtraUserAgent).  They  *)
(* share no state.                                                         *)
(***************************************************************************)
EXTENDS LocEngAssist, XtraUserAgent

AssistanceSpec == AssistSpec /\ AgentSpec

\* Measurements flow to who listens, the servers come in their order, and the line
\* for them can be read and is never a mixture of two.
AssistanceInv == AssistInv /\ AgentInv
=============================================================================

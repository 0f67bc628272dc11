------------------------- MODULE MCAgpsStateMachine -------------------------
(***************************************************************************)
(* Instances for TLC of two components that do not share state: the state  *)
(* machine, with four clients and what the memory of a deleted subscriber  *)
(* may read as; and the location API base, with three adapters for two     *)
(* places.  The subject is the one that moves.                             *)
(***************************************************************************)
EXTENDS AgpsStateMachine, LocApi, TLC

CONSTANTS s1, s2, s3, s4, a1, a2, a3

MCSubscribers == {s1, s2, s3, s4}
AnyFreedId == MCSubscribers

\* Two adapters handle requests; these two are alike.
MCAdapters == {a1, a2, a3}
MCHandling == {a2, a3}
MCAlike == Permutations(MCHandling)

VARIABLE subject

\* One initial state of a component where the other moves.
MCInit ==
  /\ Init /\ ApiInit
  /\ subject \in {"machine", "api"}
  /\ dataServices => subject = "machine"

MCNext ==
  /\ UNCHANGED subject
  /\ \/ subject = "machine" /\ Next /\ UNCHANGED apiVars
     \/ subject = "api" /\ ApiNext /\ UNCHANGED vars

MCSpec == MCInit /\ [][MCNext]_<<subject, vars, apiVars>>
=============================================================================

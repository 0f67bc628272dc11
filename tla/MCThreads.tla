------------------------------ MODULE MCThreads ------------------------------
(***************************************************************************)
(* Components that do not share state, checked in one run: the handlers of *)
(* the statuses among themselves; the network-initiated sessions with      *)
(* their response threads; a message task with its thread; the threads     *)
(* that ask for a context; the amplifier with its clock.  The subject is   *)
(* the one that moves.                                                     *)
(***************************************************************************)
EXTENDS LocEngNi, MsgTask, LocContext, Amplifier

CONSTANTS m1, m2, m3, t1, t2, t3

MCAidingData == {"EPHEMERIS", "ALMANAC", "TIME"}
MCMessages == {m1, m2, m3}
MCAskers == {t1, t2, t3}

VARIABLE subject

\* One initial state of a component where another moves.
MCInit ==
  /\ Init /\ NiInit /\ TaskInit /\ ContextInit /\ AmpInit
  /\ subject \in {"status", "sessions", "task", "contexts", "amplifier"}
  /\ mJoinable => subject = "task"
  /\ subject # "contexts" => /\ \A t \in Askers : asker[t].side = "fg"
                             /\ ~libs.mpq /\ ~libs.lbs /\ libs.v02 = "absent" /\ libs.rpc = "absent"
  /\ tfa.clock_enabled \/ chip => subject = "amplifier"

MCNext ==
  /\ UNCHANGED subject
  /\ \/ subject = "status" /\ Next /\ UNCHANGED <<niVars, taskVars, contextVars, ampVars>>
     \/ subject = "sessions" /\ NiNext /\ UNCHANGED <<taskVars, contextVars, ampVars>>
     \/ subject = "task" /\ TaskNext /\ UNCHANGED <<niAll, contextVars, ampVars>>
     \/ subject = "contexts" /\ ContextNext /\ UNCHANGED <<niAll, taskVars, ampVars>>
     \/ subject = "amplifier" /\ AmpNext /\ UNCHANGED <<niAll, taskVars, contextVars>>

MCSpec ==
  /\ MCInit /\ [][MCNext]_<<niAll, taskVars, contextVars, ampVars, subject>>
  /\ NiFairness
  /\ subject = "task" => TaskFairness
=============================================================================

----------------------------- MODULE TimerService -----------------------------
(***************************************************************************)
(* What LocTimer.h promises a client of start(), stop() and                *)
(* timeOutCallback(): a timer that has been started either is stopped or   *)
(* elapses, and gives one callback for it; a stop that succeeds keeps the  *)
(* callback away.                                                          *)
(***************************************************************************)
CONSTANT Clients

VARIABLES
  running,   \* the clients whose timer is running
  calling    \* the clients whose timer has elapsed and who are to be called

Init == running = {} /\ calling = {}

Start(c) == c \notin running /\ running' = running \cup {c} /\ UNCHANGED calling
Stop(c)  == c \in running /\ running' = running \ {c} /\ UNCHANGED calling

Elapse(c) ==
  /\ c \in running /\ calling = {}
  /\ running' = running \ {c} /\ calling' = {c}

Call(c) == c \in calling /\ calling' = calling \ {c} /\ UNCHANGED running

Next == \E c \in Clients : Start(c) \/ Stop(c) \/ Elapse(c) \/ Call(c)

\* A callback that is owed is given.
Spec ==
  /\ Init /\ [][Next]_<<running, calling>>
  /\ \A c \in Clients : WF_<<running, calling>>(Call(c))
=============================================================================

------------------------------- MODULE Mailbox -------------------------------
(***************************************************************************)
(* What the message task promises those who send to it (MsgTask.h,         *)
(* msg_q.h): messages are handled one at a time, in the order in which     *)
(* they were accepted, and each only once.  Once it is closed it accepts   *)
(* nothing more, and may drop what is left.                                *)
(***************************************************************************)
EXTENDS Sequences

CONSTANTS Messages, Null

VARIABLES
  pending,    \* accepted and not yet taken, the oldest first
  handling,   \* the message being handled, or Null
  closed

vars == <<pending, handling, closed>>

Init == pending = <<>> /\ handling = Null /\ closed = FALSE

Accept(m) == ~closed /\ pending' = Append(pending, m) /\ UNCHANGED <<handling, closed>>

Take ==
  /\ pending # <<>> /\ handling = Null
  /\ handling' = Head(pending) /\ pending' = Tail(pending)
  /\ UNCHANGED closed

Finish == handling # Null /\ handling' = Null /\ UNCHANGED <<pending, closed>>

Close == closed' = TRUE /\ UNCHANGED <<pending, handling>>

Drop == closed /\ handling = Null /\ pending' = <<>> /\ UNCHANGED <<handling, closed>>

Next == (\E m \in Messages : Accept(m)) \/ Take \/ Finish \/ Close \/ Drop

\* Every accepted message is taken or dropped in the end.
Spec == Init /\ [][Next]_vars /\ WF_vars(Take \/ Drop) /\ WF_vars(Finish)
=============================================================================

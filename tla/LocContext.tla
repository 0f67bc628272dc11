------------------------------ MODULE LocContext ------------------------------
(***************************************************************************)
(* The contexts of the foreground and of the background                    *)
(* (core/LocDualContext.cpp): whoever asks first, on whatever thread,      *)
(* creates the context and, if need be, the message task that both share.  *)
(* What happens under the mutex is a step each, so that the mutex can be   *)
(* seen to be needed.                                                      *)
(***************************************************************************)
EXTENDS Naturals, FiniteSets

CONSTANTS
  Askers,    \* threads that ask for a context
  Nothing

VARIABLES
  mutex,            \* mGetLocContextMutex: who holds it
  mMsgTask,         \* the task, or Nothing
  context,          \* mFgContext and mBgContext: [task, api], or Nothing
  mInjectContext,   \* whose features the LBS library is given
  asker,            \* where each thread is, and which context it is after
  libs,             \* what the device has: the LBS library, the libraries of the modem
  made,             \* history: tasks and contexts that were created
  injected,         \* history: the contexts that were injected
  received          \* history: first messages, with the task they were sent to

contextVars == <<mutex, mMsgTask, context, mInjectContext, asker, libs, made, injected, received>>

Sides == {"fg", "bg"}
Libs  == {"absent", "unusable", "works"}
Apis  == {"dummy", "lbs", "v02", "rpc"}

\* What a thread, a task or a context is taken for, nothing is not.
ASSUME ContextAssumption ==
  Nothing \notin Askers \cup Sides \cup Nat \cup [task : Nat, api : Apis]

ContextInit ==
  /\ mutex = Nothing /\ mMsgTask = Nothing /\ mInjectContext = Nothing
  /\ context = [s \in Sides |-> Nothing]
  /\ asker \in [Askers -> [at : {"asking"}, side : Sides, got : {Nothing}]]
  /\ libs \in [mpq : BOOLEAN, lbs : BOOLEAN, v02 : Libs, rpc : Libs]
  /\ made = [tasks |-> 0, fg |-> 0, bg |-> 0]
  /\ injected = {} /\ received = {}

\* ContextBase::createLocApi(): RPC is tried only if there is no library of v02.
CreateLocApi ==
  IF libs.mpq THEN "dummy"
  ELSE IF libs.lbs THEN "lbs"
  ELSE IF libs.v02 = "works" THEN "v02"
  ELSE IF libs.v02 = "absent" /\ libs.rpc = "works" THEN "rpc"
  ELSE "dummy"

\* A thread goes on from one step of getLocFgContext() or getLocBgContext() to
\* another.
Goes(t, from, to) == asker[t].at = from /\ asker' = [asker EXCEPT ![t].at = to]

\* Slip: a context that there is is taken with no lock.
EnterIfNeeded(t) ==
  /\ Goes(t, "asking", "querying")
  /\ IF context["fg"] = Nothing /\ context["bg"] = Nothing
       THEN mutex' = mutex ELSE mutex = Nothing /\ mutex' = t
  /\ UNCHANGED <<mMsgTask, context, mInjectContext, libs, made, injected, received>>

Enter(t) ==
  /\ Goes(t, "asking", "querying")
  /\ mutex = Nothing /\ mutex' = t
  /\ UNCHANGED <<mMsgTask, context, mInjectContext, libs, made, injected, received>>

\* Is there a context, and a task for a new one?
Query(t) ==
  /\ Goes(t, "querying", IF context[asker[t].side] # Nothing THEN "injecting"
                         ELSE IF mMsgTask = Nothing THEN "tasking" ELSE "creating")
  /\ UNCHANGED <<mutex, mMsgTask, context, mInjectContext, libs, made, injected, received>>

CreateTask(t) ==
  /\ Goes(t, "tasking", "creating")
  /\ made' = [made EXCEPT !.tasks = @ + 1]
  /\ mMsgTask' = made'.tasks
  /\ UNCHANGED <<mutex, context, mInjectContext, libs, injected, received>>

CreateContext(t) ==
  LET side == asker[t].side IN
  /\ Goes(t, "creating", "injecting")
  /\ context' = [context EXCEPT ![side] = [task |-> mMsgTask, api |-> CreateLocApi]]
  /\ made' = [made EXCEPT ![side] = @ + 1]
  /\ UNCHANGED <<mutex, mMsgTask, mInjectContext, libs, injected, received>>

\* The first context of all is injected.
InjectFeatureConfig(t) ==
  /\ Goes(t, "injecting", "leaving")
  /\ IF mInjectContext = Nothing
       THEN /\ mInjectContext' = asker[t].side
            /\ injected' = injected \cup {asker[t].side}
       ELSE UNCHANGED <<mInjectContext, injected>>
  /\ UNCHANGED <<mutex, mMsgTask, context, libs, made, received>>

Unlock(t) ==
  /\ Goes(t, "leaving", "sending")
  /\ mutex' = IF mutex = t THEN Nothing ELSE mutex
  /\ UNCHANGED <<mMsgTask, context, mInjectContext, libs, made, injected, received>>

\* The caller's first message goes to the context's task, with no lock.
SendFirst(t) ==
  /\ asker[t].at = "sending"
  /\ asker' = [asker EXCEPT ![t].at = "done", ![t].got = context[asker[t].side]]
  /\ received' = received \cup {<<t, context[asker[t].side].task>>}
  /\ UNCHANGED <<mutex, mMsgTask, context, mInjectContext, libs, made, injected>>

ContextNext ==
  \E t \in Askers :
    \/ Enter(t) \/ Query(t) \/ CreateTask(t) \/ CreateContext(t)
    \/ InjectFeatureConfig(t) \/ Unlock(t) \/ SendFirst(t)

-----------------------------------------------------------------------------
(* Properties. *)

\* However many threads ask at once: there is one task and one context of each
\* side, everybody has got the context that there is, with the task that there
\* is, the features are injected once, for a context that exists, and the first
\* messages go to the task that works them off.
ContextsAreShared ==
  /\ made.tasks <= 1 /\ made.fg <= 1 /\ made.bg <= 1
  /\ Cardinality(injected) <= 1 /\ (\A s \in injected : context[s] # Nothing)
  /\ \A t \in Askers : asker[t].at = "done" =>
       /\ asker[t].got = context[asker[t].side] /\ asker[t].got.task = mMsgTask
       /\ <<t, mMsgTask>> \in received /\ injected # {}
=============================================================================

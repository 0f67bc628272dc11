----------------------- MODULE AgpsStateMachineProofs -----------------------
(* Proofs about AgpsStateMachine, for any set of clients, for the base     *)
(* machine and the data services machine, with modem restarts, and         *)
(* whatever the freed memory reads as.                                     *)
EXTENDS AgpsStateMachine, TLAPS

\* What the state invariants need to be inductive: only the data services
\* have subscribers that wait for a close.  Without it a base machine could
\* leave Pending for Releasing instead of Released.
BaseHasNoInactive == ~dataServices => inactive = {}

IInv ==
  /\ TypeOK
  /\ BaseHasNoInactive
  /\ ReleasedIsEmpty
  /\ ReleasingAwaitsClose
  /\ EngagedHasActive

\* A call of the machine: Next without its quantifiers.
LEMMA NextCases ==
  ASSUME Next
  PROVE  /\ dataServices' = dataServices
         /\ \/ \E s \in Subscribers, ok \in BOOLEAN :
                  \/ SubscribeInReleased(s, ok)
                  \/ SubscribeWhileWaiting(s)
                  \/ SubscribeInAcquired(s)
            \/ \E s \in subs :
                  \/ UnsubscribeInReleased(s)
                  \/ UnsubscribeWhileEngaged(s)
                  \/ UnsubscribeInReleasing(s)
            \/ Granted
            \/ \E st \in {"DENIED", "RELEASED"} : DropAll(st)
            \/ \E e \in {"DENIED", "RELEASED"} : ReleaseDone(e)
            \/ \E e \in Events : Ignored(e)
            \/ DropAllSubscribers
  BY DEF Next, Call, SubscribeRsrc, UnsubscribeRsrc, OnRsrcEvent

\* Every step keeps the invariant.
LEMMA StepKeepsIInv ==
  ASSUME IInv, [Next]_vars
  PROVE  IInv'
<1> USE MachineAssumption DEF TypeOK, States, Statuses, Events, Requests
<1> USE DEF IInv, BaseHasNoInactive, ReleasedIsEmpty, ReleasingAwaitsClose,
            EngagedHasActive, Active
<1>1. CASE UNCHANGED vars
  BY <1>1 DEF vars
<1>2. CASE Next
  <2> dataServices' = dataServices
    BY <1>2 DEF Next
  <2>1. ASSUME NEW s \in Subscribers, NEW ok \in BOOLEAN, SubscribeInReleased(s, ok)
        PROVE  IInv'
    BY <2>1 DEF SubscribeInReleased, AddSubscriber, SendRsrcRequest
  <2>2. ASSUME NEW s \in Subscribers, SubscribeWhileWaiting(s)
        PROVE  IInv'
    BY <2>2 DEF SubscribeWhileWaiting, AddSubscriber
  <2>3. ASSUME NEW s \in Subscribers, SubscribeInAcquired(s)
        PROVE  IInv'
    BY <2>3 DEF SubscribeInAcquired, AddSubscriber, Notify
  <2>4. ASSUME NEW s \in subs, UnsubscribeInReleased(s)
        PROVE  IInv'
    BY <2>4 DEF UnsubscribeInReleased, Notify, machine
  <2>5. ASSUME NEW s \in subs, UnsubscribeWhileEngaged(s)
        PROVE  IInv'
    BY <2>5 DEF UnsubscribeWhileEngaged, Leave, Matched, Notify, SendRsrcRequest
  <2>6. ASSUME NEW s \in subs, UnsubscribeInReleasing(s)
        PROVE  IInv'
    BY <2>6 DEF UnsubscribeInReleasing, Leave, Matched, Notify
  <2>7. CASE Granted
    BY <2>7 DEF Granted, Notify
  <2>8. ASSUME NEW st \in {"DENIED", "RELEASED"}, DropAll(st)
        PROVE  IInv'
    BY <2>8 DEF DropAll, Notify
  <2>9. ASSUME NEW e \in {"DENIED", "RELEASED"}, ReleaseDone(e)
        PROVE  IInv'
    BY <2>9 DEF ReleaseDone, Notify, SendRsrcRequest
  <2>10. ASSUME NEW e \in Events, Ignored(e)
         PROVE  IInv'
    BY <2>10 DEF Ignored, machine
  <2>11. CASE DropAllSubscribers
    BY <2>11 DEF DropAllSubscribers
  <2>12. QED
    BY <1>2, <2>1, <2>2, <2>3, <2>4, <2>5, <2>6, <2>7, <2>8, <2>9, <2>10,
       <2>11, NextCases
<1>3. QED
  BY <1>1, <1>2

\* The invariant holds in every reachable state.
LEMMA IInvHolds == Spec => []IInv
<1>1. Init => IInv
  BY MachineAssumption
     DEF Init, IInv, TypeOK, States, Requests, BaseHasNoInactive,
         ReleasedIsEmpty, ReleasingAwaitsClose, EngagedHasActive
<1>2. IInv /\ [Next]_vars => IInv'
  BY StepKeepsIInv
<1>3. QED
  BY <1>1, <1>2, PTL DEF Spec

\* Types: in particular an inactive subscriber is always one of the list.
THEOREM TypeCorrect == Spec => []TypeOK
<1>1. IInv => TypeOK
  BY DEF IInv
<1>2. QED
  BY <1>1, IInvHolds, PTL

\* The base machine never sits in Released with somebody on its list.
THEOREM ReleasedEmpty == Spec => []ReleasedIsEmpty
<1>1. IInv => ReleasedIsEmpty
  BY DEF IInv
<1>2. QED
  BY <1>1, IInvHolds, PTL

\* In Releasing somebody waits for the close, in Released nobody does.
THEOREM ReleasingHasWaiter == Spec => []ReleasingAwaitsClose
<1>1. IInv => ReleasingAwaitsClose
  BY DEF IInv
<1>2. QED
  BY <1>1, IInvHolds, PTL

\* A data call that is asked for or held has an active subscriber.
THEOREM EngagedActive == Spec => []EngagedHasActive
<1>1. IInv => EngagedHasActive
  BY DEF IInv
<1>2. QED
  BY <1>1, IInvHolds, PTL

-----------------------------------------------------------------------------
(* Action properties.  Each is a step formula that follows from IInv.      *)

\* The step of RequestsFollowState: what a transition asks of the servicer.
RequestStep ==
  /\ state # "Pending" /\ state' = "Pending" => req' = "REQUEST"
  /\ /\ state \in {"Pending", "Acquired"}
     /\ state' \in {"Released", "Releasing"}
     /\ \E s \in subs : <<s, "UNSUBSCRIBE">> \in note'
     => req' = "RELEASE"

\* Every call of the machine asks what its transition relies on.
LEMMA RequestStepHolds ==
  ASSUME IInv, [Next]_vars
  PROVE  RequestStep \/ UNCHANGED vars
<1> SUFFICES ASSUME Next PROVE RequestStep
  OBVIOUS
<1> USE DEF IInv, TypeOK, RequestStep, Active, Notify
<1>1. ASSUME NEW s \in Subscribers, NEW ok \in BOOLEAN, SubscribeInReleased(s, ok)
      PROVE  RequestStep
  BY <1>1 DEF SubscribeInReleased, AddSubscriber, SendRsrcRequest, ReleasingAwaitsClose
<1>2. ASSUME NEW s \in Subscribers, SubscribeWhileWaiting(s) \/ SubscribeInAcquired(s)
      PROVE  RequestStep
  BY <1>2 DEF SubscribeWhileWaiting, SubscribeInAcquired
<1>3. ASSUME NEW s \in subs, UnsubscribeInReleased(s) \/ UnsubscribeInReleasing(s)
      PROVE  RequestStep
  BY <1>3 DEF UnsubscribeInReleased, UnsubscribeInReleasing, machine
<1>4. ASSUME NEW s \in subs, UnsubscribeWhileEngaged(s)
      PROVE  RequestStep
  BY <1>4 DEF UnsubscribeWhileEngaged, SendRsrcRequest
<1>5. CASE Granted
  BY <1>5 DEF Granted
<1>6. ASSUME NEW st \in {"DENIED", "RELEASED"}, DropAll(st)
      PROVE  RequestStep
  BY <1>6 DEF DropAll
<1>7. ASSUME NEW e \in {"DENIED", "RELEASED"}, ReleaseDone(e)
      PROVE  RequestStep
  BY <1>7 DEF ReleaseDone, SendRsrcRequest
<1>8. ASSUME NEW e \in Events, Ignored(e)
      PROVE  RequestStep
  BY <1>8 DEF Ignored, machine
<1>9. CASE DropAllSubscribers
  BY <1>9 DEF DropAllSubscribers
<1>10. QED
  BY <1>1, <1>2, <1>3, <1>4, <1>5, <1>6, <1>7, <1>8, <1>9, NextCases

\* The machine never waits for a NIF it has not asked for, and never keeps
\* one that its last active subscriber has just given up: the guard of
\* sendRsrcRequest() holds wherever a transition counts on it.
THEOREM RequestsFollow == Spec => RequestsFollowState
<1>1. IInv /\ [Next]_vars => [RequestStep]_vars
  BY RequestStepHolds
<1>2. [][RequestStep]_vars => RequestsFollowState
  BY PTL DEF RequestsFollowState, RequestStep
<1>3. QED
  BY <1>1, <1>2, IInvHolds, PTL DEF Spec

\* The step of NoSilentRemoval: who leaves the list is told.
RemovalStep ==
  \/ DropAllSubscribers
  \/ \A s \in subs \ subs' :
       \E st \in Statuses \ {"GRANTED"} : <<s, st>> \in note'

\* Every call of the machine tells the subscribers it takes off the list.
LEMMA RemovalStepHolds ==
  ASSUME IInv, [Next]_vars
  PROVE  RemovalStep \/ UNCHANGED vars
<1> SUFFICES ASSUME Next PROVE RemovalStep
  OBVIOUS
<1> USE DEF IInv, TypeOK, RemovalStep, Active, Notify, Statuses, Events
<1>1. ASSUME NEW s \in Subscribers, NEW ok \in BOOLEAN,
             \/ SubscribeInReleased(s, ok)
             \/ SubscribeWhileWaiting(s)
             \/ SubscribeInAcquired(s)
      PROVE  RemovalStep
  BY <1>1 DEF SubscribeInReleased, SubscribeWhileWaiting, SubscribeInAcquired,
              AddSubscriber
<1>2. ASSUME NEW s \in subs, UnsubscribeInReleased(s)
      PROVE  RemovalStep
  BY <1>2 DEF UnsubscribeInReleased, machine
<1>3. ASSUME NEW s \in subs, Leave(s)
      PROVE  RemovalStep
  BY <1>3 DEF Leave
<1>4. CASE Granted
  BY <1>4 DEF Granted
<1>5. ASSUME NEW st \in {"DENIED", "RELEASED"}, DropAll(st)
      PROVE  RemovalStep
  BY <1>5 DEF DropAll
<1>6. ASSUME NEW e \in {"DENIED", "RELEASED"}, ReleaseDone(e)
      PROVE  RemovalStep
  BY <1>6 DEF ReleaseDone
<1>7. ASSUME NEW e \in Events, Ignored(e)
      PROVE  RemovalStep
  BY <1>7 DEF Ignored, machine
<1>8. CASE DropAllSubscribers
  BY <1>8
<1>9. QED
  BY <1>1, <1>2, <1>3, <1>4, <1>5, <1>6, <1>7, <1>8, NextCases
     DEF UnsubscribeWhileEngaged, UnsubscribeInReleasing

\* Nobody leaves the list untold, except at the flush of a modem restart.
THEOREM RemovalIsTold == Spec => NoSilentRemoval
<1>1. IInv /\ [Next]_vars => [RemovalStep]_vars
  BY RemovalStepHolds
<1>2. [][RemovalStep]_vars => NoSilentRemoval
  BY PTL DEF NoSilentRemoval, RemovalStep
<1>3. QED
  BY <1>1, <1>2, IInvHolds, PTL DEF Spec

\* The step of GrantedIsActive: who is told GRANTED is listed as active.
GrantStep == ~dataServices =>
  \A s \in Subscribers : <<s, "GRANTED">> \in note' =>
    s \in Active' /\ state' = "Acquired"

\* Every call of the base machine grants the NIF to active subscribers only.
LEMMA GrantStepHolds ==
  ASSUME IInv, [Next]_vars
  PROVE  GrantStep \/ UNCHANGED vars
<1> SUFFICES ASSUME Next, ~dataServices PROVE GrantStep
  BY DEF GrantStep
<1> USE DEF IInv, TypeOK, GrantStep, Active, Notify, BaseHasNoInactive
<1>1. ASSUME NEW s \in Subscribers, NEW ok \in BOOLEAN,
             SubscribeInReleased(s, ok) \/ SubscribeWhileWaiting(s)
      PROVE  GrantStep
  BY <1>1 DEF SubscribeInReleased, SubscribeWhileWaiting
<1>2. ASSUME NEW s \in Subscribers, SubscribeInAcquired(s)
      PROVE  GrantStep
  BY <1>2 DEF SubscribeInAcquired, AddSubscriber
<1>3. ASSUME NEW s \in subs, UnsubscribeInReleased(s) \/ Leave(s)
      PROVE  GrantStep
  BY <1>3 DEF UnsubscribeInReleased, Leave
<1>4. CASE Granted
  BY <1>4 DEF Granted
<1>5. ASSUME NEW st \in {"DENIED", "RELEASED"}, DropAll(st)
      PROVE  GrantStep
  BY <1>5 DEF DropAll
<1>6. ASSUME NEW e \in {"DENIED", "RELEASED"}, ReleaseDone(e)
      PROVE  GrantStep
  BY <1>6 DEF ReleaseDone
<1>7. ASSUME NEW e \in Events, Ignored(e)
      PROVE  GrantStep
  BY <1>7 DEF Ignored
<1>8. CASE DropAllSubscribers
  BY <1>8 DEF DropAllSubscribers
<1>9. QED
  BY <1>1, <1>2, <1>3, <1>4, <1>5, <1>6, <1>7, <1>8, NextCases
     DEF UnsubscribeWhileEngaged, UnsubscribeInReleasing

\* The base machine grants the NIF only to clients it lists as active.
THEOREM GrantedActive == Spec => GrantedIsActive
<1>1. IInv /\ [Next]_vars => [GrantStep]_vars
  BY GrantStepHolds
<1>2. [][GrantStep]_vars => GrantedIsActive
  BY PTL DEF GrantedIsActive, GrantStep
<1>3. QED
  BY <1>1, <1>2, IInvHolds, PTL DEF Spec

\* The state of a machine and its list agree, for any set of subscribers: the
\* state classes of loc_eng_agps.cpp taken together.
THEOREM StateFollows == Spec => []StateFollowsList
<1>1. IInv => StateFollowsList
  BY DEF IInv, StateFollowsList
<1>2. QED
  BY <1>1, IInvHolds, PTL

\* What notifySubscribers() tells whom agrees with the list.
THEOREM NotesFollow == Spec => NotesFollowList
  BY RemovalIsTold, GrantedActive DEF NotesFollowList

\* Each step agrees with the list and the state: in what it asks of the servicer
\* and in what it tells the clients.
THEOREM StepsFollow == Spec => MachineSteps
  BY RequestsFollow, NotesFollow DEF MachineSteps
=============================================================================

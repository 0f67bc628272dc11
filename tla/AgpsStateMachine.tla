-------------------------- MODULE AgpsStateMachine --------------------------
(***************************************************************************)
(* The resource state machine of gps/loc_api/libloc_api_50001/             *)
(* loc_eng_agps.{h,cpp}: one network interface (NIF), the list of the      *)
(* subscribers that want it, and the four AgpsState classes that react to  *)
(* subscriptions and to the events of whoever provides the NIF.            *)
(*                                                                         *)
(* The module models the class alone, under every order of calls.  What a  *)
(* call emits is in two output variables that a composing module reads in  *)
(* the same step: note, the notifications given to subscribers, and req,   *)
(* the request made of the servicer.                                       *)
(*                                                                         *)
(* Abstracted: the APN, the bearer and the addresses, which no transition  *)
(* reads; and the order of the list, which only the data services machine  *)
(* looks at (SuplEmergency adds it).  No instance the code creates sets    *)
(* mEnforceSingleSubscriber (loc_eng.cpp:2432-2451), so that branch of     *)
(* subscribeRsrc is left out.                                              *)
(***************************************************************************)

CONSTANTS
  Subscribers,    \* identities of the clients (connection handles)
  FreedIds        \* identities that the memory of a deleted subscriber may
                  \* read as, besides its own (see Matched)

ASSUME MachineAssumption == FreedIds \subseteq Subscribers

VARIABLES
  dataServices,   \* the object's class, fixed when it is built: TRUE for
                  \* DSStateMachine (with DSSubscriber), FALSE for the base
                  \* class (with ATLSubscriber and BITSubscriber)
  state,      \* mStatePtr
  subs,       \* mSubscribers
  inactive,   \* the subscribers of the list with mIsInactive
  note,       \* output: pairs <<subscriber, status>> of this call
  req         \* output: the request of this call to mServicer, or "NONE"

machine == <<state, subs, inactive>>
vars == <<dataServices, state, subs, inactive, note, req>>

States   == {"Released", "Pending", "Acquired", "Releasing"}
Events   == {"GRANTED", "RELEASED", "DENIED"}
Statuses == Events \cup {"UNSUBSCRIBE"}
Requests == {"NONE", "REQUEST", "RELEASE"}

Active == subs \ inactive

TypeOK ==
  /\ dataServices \in BOOLEAN
  /\ state \in States
  /\ subs \subseteq Subscribers
  /\ inactive \subseteq subs
  /\ note \subseteq Subscribers \X Statuses
  /\ req \in Requests

Init ==
  /\ dataServices \in BOOLEAN
  /\ state = "Released"
  /\ subs = {} /\ inactive = {}
  /\ note = {} /\ req = "NONE"

-----------------------------------------------------------------------------
(* What the states call on the machine. *)

\* notifySubscribers(): a broadcast of status st to the group S.
Notify(S, st) == note' = S \X {st}

\* addSubscriber(): a subscriber with an equal one on the list is not added,
\* even when the one on the list is inactive.
AddSubscriber(s) ==
  /\ subs' = subs \cup {s}
  /\ UNCHANGED inactive

\* Slip: the guard of sendRsrcRequest() with its polarity swapped.
SwappedGuardRequest(action) ==
  req' = IF dataServices \/ ((Active' = {}) <=> (action = "REQUEST"))
         THEN action ELSE "NONE"

\* sendRsrcRequest(): the base class sends a request only when it agrees with
\* the list (no active subscriber left, if and only if it is a release).
SendRsrcRequest(action) ==
  req' = IF dataServices \/ ((Active' = {}) <=> (action = "RELEASE"))
         THEN action ELSE "NONE"

\* The loop of notifySubscribers() that deletes what it notified.  The
\* notification points at the subscriber the loop deletes first, so its later
\* rounds compare with freed memory: they match s itself no more (it is off
\* the list), and may match any subscriber whose identity that memory holds.
Matched(s, also) == also \subseteq (FreedIds \cap subs) \ {s}

\* Slip: setInactive() on a subscriber that is then deleted all the same.
LeaveTwice(s) ==
  /\ inactive' = inactive \cup {s}
  /\ subs' = subs \ {s}
  /\ Notify({s}, "UNSUBSCRIBE")

\* The head of RSRC_UNSUBSCRIBE in the Pending, Acquired and Releasing states:
\* a subscriber that waits for the close turns inactive and stays; any other
\* is notified and deleted.
Leave(s) ==
  \/ /\ dataServices
     /\ inactive' = inactive \cup {s}
     /\ Notify({s}, "UNSUBSCRIBE")
     /\ UNCHANGED subs
  \/ /\ ~dataServices
     /\ \E also \in SUBSET subs :
          /\ Matched(s, also)
          /\ subs' = subs \ ({s} \cup also)
          /\ inactive' = inactive \ ({s} \cup also)
          /\ Notify({s} \cup also, "UNSUBSCRIBE")

-----------------------------------------------------------------------------
(* subscribeRsrc(s): the machine's reaction in each state.  ok is what the *)
(* servicer returned: only the data services can fail.                     *)

SubscribeInReleased(s, ok) ==
  /\ state = "Released"
  /\ ok \/ dataServices
  /\ AddSubscriber(s)
  /\ SendRsrcRequest("REQUEST")
  /\ state' = IF ok THEN "Pending" ELSE "Released"
  /\ note' = {}

SubscribeWhileWaiting(s) ==
  /\ state \in {"Pending", "Releasing"}
  /\ AddSubscriber(s)
  /\ note' = {} /\ req' = "NONE"
  /\ UNCHANGED state

\* Slip: the grant without addSubscriber().
GrantWithoutAdding(s) ==
  /\ state = "Acquired"
  /\ Notify({s}, "GRANTED")
  /\ req' = "NONE"
  /\ UNCHANGED machine

SubscribeInAcquired(s) ==
  /\ state = "Acquired"
  /\ Notify({s}, "GRANTED")
  /\ AddSubscriber(s)
  /\ req' = "NONE"
  /\ UNCHANGED state

SubscribeRsrc(s, ok) ==
  \/ SubscribeInReleased(s, ok)
  \/ ok /\ SubscribeWhileWaiting(s)
  \/ ok /\ SubscribeInAcquired(s)

-----------------------------------------------------------------------------
(* unsubscribeRsrc(s) of a subscriber found on the list; it has no effect  *)
(* and returns false otherwise.                                            *)

\* The list "should really be empty"; the caller is told, and nothing leaves
\* the list.
UnsubscribeInReleased(s) ==
  /\ state = "Released"
  /\ Notify({s}, "UNSUBSCRIBE")
  /\ req' = "NONE"
  /\ UNCHANGED machine

\* Slip: hasSubscribers() where hasActiveSubscribers() is meant.
LeaveIgnoringInactive(s) ==
  /\ state \in {"Pending", "Acquired"}
  /\ Leave(s)
  /\ \/ subs' = {} /\ state' = "Released" /\ SendRsrcRequest("RELEASE")
     \/ subs' # {} /\ req' = "NONE" /\ UNCHANGED state

\* Slips: the NIF released whoever else is active; the close not awaited.
ReleaseAtFirstLeave(s) ==
  /\ state \in {"Pending", "Acquired"}
  /\ Leave(s)
  /\ state' = IF subs' = {} THEN "Released" ELSE "Releasing"
  /\ SendRsrcRequest("RELEASE")
LeaveWithoutAwaiting(s) ==
  /\ state \in {"Pending", "Acquired"}
  /\ Leave(s)
  /\ IF Active' = {}
     THEN state' = "Released" /\ SendRsrcRequest("RELEASE")
     ELSE req' = "NONE" /\ UNCHANGED state

UnsubscribeWhileEngaged(s) ==
  /\ state \in {"Pending", "Acquired"}
  /\ Leave(s)
  /\ \/ /\ subs' = {}
        /\ state' = "Released"
        /\ SendRsrcRequest("RELEASE")
     \/ /\ subs' # {} /\ Active' = {}
        /\ state' = "Releasing"
        /\ SendRsrcRequest("RELEASE")
     \/ /\ Active' # {}
        /\ req' = "NONE"
        /\ UNCHANGED state

UnsubscribeInReleasing(s) ==
  /\ state = "Releasing"
  /\ Leave(s)
  /\ state' = IF subs' = {} THEN "Released" ELSE "Releasing"
  /\ req' = "NONE"

UnsubscribeRsrc(s) ==
  /\ s \in subs
  /\ \/ UnsubscribeInReleased(s)
     \/ UnsubscribeWhileEngaged(s)
     \/ UnsubscribeInReleasing(s)

-----------------------------------------------------------------------------
(* onRsrcEvent(e): GRANTED, RELEASED or DENIED from the provider. *)

Granted ==
  /\ state = "Pending"
  /\ state' = "Acquired"
  /\ Notify(Active, "GRANTED")
  /\ req' = "NONE"
  /\ UNCHANGED <<subs, inactive>>

\* Slips: postNotifyDelete false; the broadcast to the active subscribers only.
DropNobody(st) ==
  /\ state' = "Released"
  /\ Notify(subs, st)
  /\ req' = "NONE"
  /\ UNCHANGED <<subs, inactive>>
DropAllTellActive(st) ==
  /\ state' = "Released"
  /\ Notify(Active, st)
  /\ subs' = {} /\ inactive' = {}
  /\ req' = "NONE"

\* Every subscriber is told, and deleted.
DropAll(st) ==
  /\ state' = "Released"
  /\ Notify(subs, st)
  /\ subs' = {} /\ inactive' = {}
  /\ req' = "NONE"

\* Slips: the inactive subscribers kept; the new request forgotten.
ReleaseKeepsInactive(st) ==
  /\ state = "Releasing"
  /\ Notify(inactive, st)
  /\ state' = IF Active # {} THEN "Pending" ELSE "Released"
  /\ IF Active # {} THEN SendRsrcRequest("REQUEST") ELSE req' = "NONE"
  /\ UNCHANGED <<subs, inactive>>
ReleaseWithoutRequest(st) ==
  /\ state = "Releasing"
  /\ Notify(inactive, st)
  /\ subs' = Active /\ inactive' = {}
  /\ state' = IF Active # {} THEN "Pending" ELSE "Released"
  /\ req' = "NONE"

\* In the Releasing state both answers end the release.
ReleaseDone(st) ==
  /\ state = "Releasing"
  /\ Notify(inactive, st)
  /\ subs' = Active /\ inactive' = {}
  /\ \/ /\ Active # {}
        /\ state' = "Pending"
        /\ SendRsrcRequest("REQUEST")
     \/ /\ Active = {}
        /\ state' = "Released"
        /\ req' = "NONE"

\* The data services report only "connected" and "disconnected": their
\* machine turns a RELEASED that moved no state into a DENIED.
Denies(e) == e = "DENIED" \/ (e = "RELEASED" /\ dataServices)

Ignored(e) ==
  /\ \/ state = "Released"
     \/ state = "Pending"   /\ e = "RELEASED" /\ ~dataServices
     \/ state = "Acquired"  /\ e \in {"GRANTED", "DENIED"}
     \/ state = "Releasing" /\ e = "GRANTED"
  /\ note' = {} /\ req' = "NONE"
  /\ UNCHANGED machine

OnRsrcEvent(e) ==
  \/ e = "GRANTED" /\ Granted
  \/ state = "Pending" /\ Denies(e) /\ DropAll("DENIED")
  \/ state = "Acquired" /\ e = "RELEASED" /\ DropAll("RELEASED")
  \/ e \in {"RELEASED", "DENIED"} /\ ReleaseDone(e)
  \/ Ignored(e)

-----------------------------------------------------------------------------
\* dropAllSubscribers(), called on the agnss and internet machines when the
\* modem comes back up: the list is flushed, the state is kept.
DropAllSubscribers ==
  /\ ~dataServices
  /\ subs' = {} /\ inactive' = {}
  /\ note' = {} /\ req' = "NONE"
  /\ UNCHANGED state

Call ==
  \/ \E s \in Subscribers, ok \in BOOLEAN : SubscribeRsrc(s, ok)
  \/ \E s \in Subscribers : UnsubscribeRsrc(s)
  \/ \E e \in Events : OnRsrcEvent(e)
  \/ DropAllSubscribers

Next == Call /\ UNCHANGED dataServices

Spec == Init /\ [][Next]_vars

-----------------------------------------------------------------------------
(* Properties of the machine, whatever the order of the calls. *)

\* The base class is never in the Released state with somebody on its list:
\* the error that AgpsReleasedState::onRsrcEvent logs cannot happen there.
ReleasedIsEmpty == ~dataServices => (state = "Released" => subs = {})

\* The Releasing state is for clients that wait for the close: only the data
\* services get there, somebody is then waiting, and nobody waits once the
\* machine is back in Released (where no event would ever tell them).
ReleasingAwaitsClose ==
  /\ state = "Releasing" => dataServices /\ inactive # {}
  /\ state = "Released" => inactive = {}

\* The NIF is held, or waited for, on behalf of somebody: the last active
\* subscriber to leave takes the machine out of Pending and Acquired.  The base
\* machine loses it to a restart of the modem, which flushes the list and keeps
\* the state (DropAllSubscribers).
EngagedHasActive ==
  dataServices => (state \in {"Pending", "Acquired"} => Active # {})

\* The guard of sendRsrcRequest() never swallows a request that a transition
\* relies on: the machine waits for the NIF only after asking for it, and
\* gives it back when the last active subscriber unsubscribes.
RequestsFollowState ==
  [][/\ state # "Pending" /\ state' = "Pending" => req' = "REQUEST"
     /\ /\ state \in {"Pending", "Acquired"}
        /\ state' \in {"Released", "Releasing"}
        /\ \E s \in subs : <<s, "UNSUBSCRIBE">> \in note'
        => req' = "RELEASE"]_vars

\* Nobody is taken off the list without being told so, except by the flush
\* that follows a modem restart.
NoSilentRemoval ==
  [][\/ DropAllSubscribers
     \/ \A s \in subs \ subs' :
          \E st \in Statuses \ {"GRANTED"} : <<s, st>> \in note']_vars

\* Whomever the base machine tells GRANTED is on the list as an active
\* subscriber, so that the NIF is not released while it uses it.  (The data
\* services machine also grants to a client that subscribes again while its
\* inactive entry waits for the close, and leaves that entry as it is.)
GrantedIsActive ==
  [][~dataServices =>
       \A s \in Subscribers : <<s, "GRANTED">> \in note' =>
         s \in Active' /\ state' = "Acquired"]_vars

\* The state of the machine and its list agree.
StateFollowsList ==
  TypeOK /\ ReleasedIsEmpty /\ ReleasingAwaitsClose /\ EngagedHasActive

\* What clients are told agrees with the list, both ways.
NotesFollowList == NoSilentRemoval /\ GrantedIsActive

\* A step of the machine asks the servicer for what it counts on, and tells its
\* clients what it has done to the list.
MachineSteps == RequestsFollowState /\ NotesFollowList

\* One client's unsubscribe is never another client's close.
UnsubscribeIsPrivate ==
  [][\A s, t \in Subscribers :
       <<s, "UNSUBSCRIBE">> \in note' /\ <<t, "UNSUBSCRIBE">> \in note' =>
         s = t]_vars
=============================================================================

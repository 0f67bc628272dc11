---------------------------- MODULE SubscriberList ----------------------------
(***************************************************************************)
(* The subscriber list of an AGPS state machine as two threads use it: the *)
(* LocEng thread adds, deletes and flushes subscribers, and the timer      *)
(* thread walks the list in DSStateMachine::retryCallback() without a lock *)
(* (loc_eng_agps.cpp:838-850, linked_list_search()).  So each write of the *)
(* one and each read of the other is a step.  The writes are taken in the  *)
(* order of the source; that a compiler or a processor may change it is    *)
(* not modelled.                                                           *)
(***************************************************************************)
EXTENDS LinkedList

VARIABLES
  subs,     \* mSubscribers
  order,    \* history: the subscribers, the newest first
  change,   \* the LocEng thread: what it has done of a change, to which element, tmp
  walk,     \* the timer thread: its pc, where it is, what it looks for
  torn      \* has the walk read an element that had been freed?

subsVars == <<subs, order, change, walk, torn>>

Still   == [step |-> "none", of |-> Null, tmp |-> Null]
Resting == [pc |-> "rest", at |-> Null, sought |-> Null, stayed |-> FALSE]

SubsInit ==
  subs = EmptyList /\ order = <<>> /\ change = Still /\ walk = Resting /\ torn = FALSE

Listed(e) == \E i \in DOMAIN order : order[i] = e

\* An element is there from its publication until it is freed.
There(e) ==
  Listed(e) \/ (change.of = e /\ change.step \in {"published", "linked", "cut", "joined", "cleared"})

\* The element that has no way on just now.
Loose(e) == change.of = e /\ change.step \in {"published", "cleared"}

Gone(e) == walk' = [walk EXCEPT !.stayed = @ /\ walk.sought # e]

-----------------------------------------------------------------------------
(* The LocEng thread. *)

\* addSubscriber(), with the writes of linked_list_add()
SubsAdd(e) ==
  /\ change = Still /\ ~Listed(e)
  /\ subs' = Publish(subs, e)
  /\ change' = [step |-> "published", of |-> e, tmp |-> subs.p_head]
  /\ UNCHANGED <<order, walk, torn>>

AddLinks ==
  /\ change.step = "published"
  /\ subs' = LinkNext(subs, change.of, change.tmp)
  /\ change' = [change EXCEPT !.step = "linked"]
  /\ UNCHANGED <<order, walk, torn>>

AddEnds ==
  /\ change.step = "linked"
  /\ subs' = LinkBack(subs, change.of, change.tmp)
  /\ order' = <<change.of>> \o order /\ change' = Still
  /\ UNCHANGED <<walk, torn>>

\* deleteSubscriber(), or a round of notifySubscribers(), with the writes of
\* linked_list_search()
SubsDelete(e) ==
  /\ change = Still /\ Listed(e)
  /\ subs' = CutNext(subs, e)
  /\ \E i \in DOMAIN order :
       order[i] = e /\ order' = SubSeq(order, 1, i - 1) \o SubSeq(order, i + 1, Len(order))
  /\ change' = [step |-> "cut", of |-> e, tmp |-> Null]
  /\ Gone(e) /\ UNCHANGED torn

DeleteJoins ==
  /\ change.step = "cut"
  /\ subs' = CutPrev(subs, change.of) /\ change' = [change EXCEPT !.step = "joined"]
  /\ UNCHANGED <<order, walk, torn>>

DeleteClears ==
  /\ change.step = "joined"
  /\ subs' = Freed(subs, change.of) /\ change' = [change EXCEPT !.step = "cleared"]
  /\ UNCHANGED <<order, walk, torn>>

DeleteFrees == change.step = "cleared" /\ change' = Still /\ UNCHANGED <<subs, order, walk, torn>>

\* dropAllSubscribers(), with the loop of linked_list_flush(): it frees the head, which
\* p_head points to for a while yet.
FlushFrees ==
  /\ change.step \in {"none", "flushing"} /\ subs.p_head # Null
  /\ subs' = Freed(subs, subs.p_head) /\ order' = Tail(order)
  /\ change' = [step |-> "dropped", of |-> subs.p_head, tmp |-> subs.next[subs.p_head]]
  /\ Gone(subs.p_head) /\ UNCHANGED torn

FlushGoesOn ==
  /\ change.step = "dropped"
  /\ subs' = [subs EXCEPT !.p_head = change.tmp]
  /\ change' = [Still EXCEPT !.step = "flushing"]
  /\ UNCHANGED <<order, walk, torn>>

FlushEnds ==
  /\ change.step = "flushing" /\ subs.p_head = Null
  /\ subs' = [subs EXCEPT !.p_tail = Null] /\ change' = Still
  /\ UNCHANGED <<order, walk, torn>>

-----------------------------------------------------------------------------
(* linked_list_search() of the timer thread, for a given subscriber. *)

WalkBegins(e) ==
  /\ walk = Resting /\ ~torn
  /\ walk' = [pc |-> "begun", at |-> Null, sought |-> e, stayed |-> Listed(e)]
  /\ UNCHANGED <<subs, order, change, torn>>

\* It returns at once where there is no tail, ...
WalkTests ==
  /\ walk.pc = "begun"
  /\ walk' = IF subs.p_tail = Null THEN Resting ELSE [walk EXCEPT !.pc = "entered"]
  /\ UNCHANGED <<subs, order, change, torn>>

\* ... and takes the head where there is one.
WalkEnters ==
  /\ walk.pc = "entered"
  /\ walk' = IF subs.p_head = Null THEN Resting
             ELSE [walk EXCEPT !.pc = "in", !.at = subs.p_head]
  /\ UNCHANGED <<subs, order, change, torn>>

\* One round of its loop.  What a freed element reads is not known, so a walk
\* that has met one is over.
WalkSteps ==
  /\ walk.pc = "in"
  /\ torn' = ~There(walk.at)
  /\ walk' = IF torn' \/ walk.at = walk.sought \/ subs.next[walk.at] = Null THEN Resting
             ELSE [walk EXCEPT !.at = subs.next[@]]
  /\ UNCHANGED <<subs, order, change>>

-----------------------------------------------------------------------------
LocEngSteps ==
  \/ \E e \in Elements : SubsAdd(e) \/ SubsDelete(e)
  \/ AddLinks \/ AddEnds
  \/ DeleteJoins \/ DeleteClears \/ DeleteFrees
  \/ FlushFrees \/ FlushGoesOn \/ FlushEnds

TimerSteps ==
  (\E e \in Elements : WalkBegins(e)) \/ WalkTests \/ WalkEnters \/ WalkSteps

SubsNext == LocEngSteps \/ TimerSteps

-----------------------------------------------------------------------------
(* Properties. *)

\* Between the calls, the links of the list give, both ways, the subscribers in
\* the order in which they came, after any additions, deletions and flushes.
SubsFollowOrder ==
  change = Still =>
    /\ Forward(subs) = order
    /\ Len(Backward(subs)) = Len(order)
    /\ \A i \in DOMAIN order : Backward(subs)[i] = order[Len(order) + 1 - i]

\* A subscriber that stays on the list all the time is found by a walk between
\* whose reads the other thread makes any of its writes.  There are two ways to
\* miss it: on an element that is freed under the walk (what happens then is not
\* defined), and on one that has no way on, because it has just become the head
\* or is about to be freed.
WalkFinds ==
  [][walk # Resting /\ walk' = Resting /\ ~torn' /\ walk.stayed
       => walk.at = walk.sought \/ Loose(walk.at)]_subsVars

\* Deviation: nothing else but freed elements would make it miss one.  In the code
\* a walk that meets an element without a way on ends there.
WalkNeverMisses ==
  [][walk # Resting /\ walk' = Resting /\ ~torn' /\ walk.stayed => walk.at = walk.sought]_subsVars
=============================================================================

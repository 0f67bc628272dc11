------------------------------- MODULE MsgTask -------------------------------
(***************************************************************************)
(* A message task (gps/utils/MsgTask.cpp): its queue (msg_q.c on           *)
(* linked_list.c) with a mutex and a condition variable, the thread that   *)
(* works the messages off (LocThread.cpp), and the owner that creates the  *)
(* task and may destroy it.                                                *)
(*                                                                         *)
(* What a thread does under the mutex of the queue, or of the delegate, is *)
(* one step.  Nobody sends to a task that has been deleted.                *)
(***************************************************************************)
EXTENDS LinkedList

CONSTANT Messages

ASSUME MsgTaskAssumption == Messages = Elements

VARIABLES
  list,        \* of the queue: msg_list
  unblocked,   \* of the queue
  owner,       \* where the owner is
  worker,      \* where the task's thread is
  inHand,      \* the message that thread handles, or Null
  sent,        \* the messages that were sent
  lost,        \* those that the queue refused: nobody deletes them
  task,        \* does the MsgTask, with its queue, exist?
  mRunnable,   \* of the delegate: may the thread go on?
  mJoinable,   \* of the delegate
  mRefCount,   \* of the delegate
  delegate     \* does the LocThreadDelegate exist?

msgQueue   == <<list, unblocked>>
shared == <<mRunnable, mJoinable, mRefCount, delegate>>
taskVars == <<msgQueue, owner, worker, inHand, sent, lost, task, shared>>

TaskTypeOK ==
  /\ list \in Lists /\ unblocked \in BOOLEAN
  /\ owner \in {"creating", "using", "unblocked", "parting", "joining", "releasing", "done"}
  /\ worker \in {"none", "starting", "testing", "receiving", "waiting", "woken",
                 "handling", "leaving", "releasing", "done"}
  /\ inHand \in Messages \cup {Null}
  /\ (inHand # Null) = (worker = "handling")
  /\ lost \subseteq sent /\ sent \subseteq Messages
  /\ task \in BOOLEAN /\ mRunnable \in BOOLEAN /\ mJoinable \in BOOLEAN
  /\ delegate \in BOOLEAN /\ mRefCount \in 0..2

\* Slip: the delegate is counted for one thread only.
InitCountsOne ==
  /\ list = EmptyList /\ unblocked = FALSE
  /\ owner = "creating" /\ worker = "none" /\ inHand = Null
  /\ sent = {} /\ lost = {}
  /\ task = TRUE
  /\ mRunnable = TRUE /\ mJoinable \in BOOLEAN /\ mRefCount = 1 /\ delegate = TRUE

TaskInit ==
  /\ list = EmptyList /\ unblocked = FALSE
  /\ owner = "creating" /\ worker = "none" /\ inHand = Null
  /\ sent = {} /\ lost = {}
  /\ task = TRUE
  /\ mRunnable = TRUE /\ mJoinable \in BOOLEAN /\ mRefCount = 2 /\ delegate = TRUE

-----------------------------------------------------------------------------
(* The queue. *)

\* Slip: the queue does not notice that it was unblocked.
WaitsUnlessFilled == list.p_head = Null

\* The condition of the loop in msg_q_rcv().
Waits == list.p_head = Null /\ ~unblocked

\* pthread_cond_signal() or pthread_cond_broadcast(): at most one thread waits.
WakesUp == IF worker = "waiting" THEN worker' = "woken" ELSE UNCHANGED worker

\* Slips: nobody is woken; an unblocked queue goes on accepting.
SndWithoutSignal(m) ==
  /\ task /\ owner # "creating" /\ m \notin sent /\ sent' = sent \cup {m}
  /\ IF unblocked
     THEN lost' = lost \cup {m} /\ UNCHANGED <<list, worker>>
     ELSE list' = Add(list, m) /\ UNCHANGED <<worker, lost>>
  /\ UNCHANGED <<unblocked, owner, inHand, task, shared>>
SndEvenUnblocked(m) ==
  /\ task /\ owner # "creating" /\ m \notin sent /\ sent' = sent \cup {m}
  /\ list' = Add(list, m) /\ WakesUp
  /\ UNCHANGED <<unblocked, owner, inHand, lost, task, shared>>

\* MsgTask::sendMsg() and msg_q_snd(), whose result sendMsg() does not look at.
Snd(m) ==
  /\ task /\ owner # "creating" /\ m \notin sent /\ sent' = sent \cup {m}
  /\ \/ unblocked /\ lost' = lost \cup {m} /\ UNCHANGED <<list, worker>>
     \/ ~unblocked /\ list' = Add(list, m) /\ WakesUp /\ UNCHANGED lost
  /\ UNCHANGED <<unblocked, owner, inHand, task, shared>>

\* The end of msg_q_rcv(): the tail of the list, or a failure, after which
\* run() returns false.
Removes ==
  IF list.p_tail = Null
  THEN worker' = "leaving" /\ UNCHANGED <<list, inHand>>
  ELSE worker' = "handling" /\ inHand' = list.p_tail /\ list' = RemoveTail(list)

-----------------------------------------------------------------------------
(* The task's thread, LocThreadDelegate::threadMain() and MsgTask::run(). *)

\* A thread that finds itself stopped before it has begun knows no task to delete.
Begin ==
  /\ worker = "starting"
  /\ worker' = IF mRunnable THEN "testing" ELSE "releasing"
  /\ UNCHANGED <<msgQueue, owner, inHand, sent, lost, task, shared>>

TestRunning ==
  /\ worker = "testing"
  /\ worker' = IF mRunnable THEN "receiving" ELSE "leaving"
  /\ UNCHANGED <<msgQueue, owner, inHand, sent, lost, task, shared>>

Rcv ==
  /\ worker = "receiving"
  /\ \/ unblocked /\ worker' = "leaving" /\ UNCHANGED <<list, inHand>>
     \/ ~unblocked /\ Waits /\ worker' = "waiting" /\ UNCHANGED <<list, inHand>>
     \/ ~unblocked /\ ~Waits /\ Removes
  /\ UNCHANGED <<unblocked, owner, sent, lost, task, shared>>

\* A thread may also wake up for nothing.
WakeSpuriously ==
  /\ worker = "waiting" /\ worker' = "woken"
  /\ UNCHANGED <<msgQueue, owner, inHand, sent, lost, task, shared>>

Woken ==
  /\ worker = "woken"
  /\ \/ Waits /\ worker' = "waiting" /\ UNCHANGED <<list, inHand>>
     \/ ~Waits /\ Removes
  /\ UNCHANGED <<unblocked, owner, sent, lost, task, shared>>

Handle ==
  /\ worker = "handling" /\ worker' = "testing"
  /\ inHand' = Null
  /\ UNCHANGED <<msgQueue, owner, sent, lost, task, shared>>

\* The task is deleted by its own thread, with what is left in its queue.
DeleteRunnable ==
  /\ worker = "leaving" /\ worker' = "releasing"
  /\ mRunnable' = FALSE
  /\ task' = FALSE /\ list' = EmptyList
  /\ UNCHANGED <<unblocked, owner, inHand, sent, lost, mJoinable, mRefCount, delegate>>

\* Slip: whoever comes first deletes the delegate.
ReleaseAtOnce == mRefCount' = mRefCount - 1 /\ delegate' = FALSE

\* LocThreadDelegate::destroy(): the last of two deletes the delegate.
Release == mRefCount' = mRefCount - 1 /\ delegate' = (mRefCount > 1)

WorkerReleases ==
  /\ worker = "releasing" /\ worker' = "done"
  /\ Release
  /\ UNCHANGED <<msgQueue, owner, inHand, sent, lost, task, mRunnable, mJoinable>>

Worker ==
  Begin \/ TestRunning \/ Rcv \/ Woken \/ Handle \/ DeleteRunnable \/ WorkerReleases

-----------------------------------------------------------------------------
(* The owner. *)

\* The constructor: the thread may not come up.
Create ==
  /\ owner = "creating" /\ owner' = "using"
  /\ \/ worker' = "starting" /\ UNCHANGED shared
     \/ /\ UNCHANGED worker
        /\ mRunnable' = FALSE /\ mJoinable' = FALSE
        /\ mRefCount' = 0 /\ delegate' = FALSE
  /\ UNCHANGED <<msgQueue, inHand, sent, lost, task>>

\* Slip: the thread is not woken.
UnblockSilently ==
  /\ owner = "using" /\ owner' = "unblocked"
  /\ unblocked' = TRUE
  /\ UNCHANGED <<list, worker, inHand, sent, lost, task, shared>>

\* MsgTask::destroy() begins with msg_q_unblock().
Unblock ==
  /\ owner = "using" /\ owner' = "unblocked"
  /\ unblocked' = TRUE /\ WakesUp
  /\ UNCHANGED <<list, inHand, sent, lost, task, shared>>

\* It forgets the LocThread, in a task that its thread may have deleted by
\* now, and deletes it; without a thread it deletes the task.
Part ==
  /\ owner = "unblocked"
  /\ \/ worker # "none" /\ owner' = "parting" /\ UNCHANGED <<task, list>>
     \/ worker = "none" /\ owner' = "done" /\ task' = FALSE /\ list' = EmptyList
  /\ UNCHANGED <<unblocked, worker, inHand, sent, lost, shared>>

\* LocThreadDelegate::bye(), which stops and joins a joinable thread.
Bye ==
  /\ owner = "parting"
  /\ \/ /\ mJoinable /\ owner' = "joining"
        /\ mRunnable' = FALSE /\ mJoinable' = FALSE
     \/ /\ ~mJoinable /\ owner' = "releasing"
        /\ UNCHANGED <<mRunnable, mJoinable>>
  /\ UNCHANGED <<msgQueue, worker, inHand, sent, lost, task, mRefCount, delegate>>

Join ==
  /\ owner = "joining" /\ worker = "done"
  /\ owner' = "releasing"
  /\ UNCHANGED <<msgQueue, worker, inHand, sent, lost, task, shared>>

OwnerReleases ==
  /\ owner = "releasing" /\ owner' = "done"
  /\ Release
  /\ UNCHANGED <<msgQueue, worker, inHand, sent, lost, task, mRunnable, mJoinable>>

TaskNext ==
  \/ \E m \in Messages : Snd(m)
  \/ Worker \/ WakeSpuriously
  \/ Create \/ Unblock \/ Part \/ Bye \/ Join \/ OwnerReleases

\* Threads that can run do; an owner that has begun to destroy goes on with it.
TaskFairness == WF_taskVars(Worker) /\ WF_taskVars(Part \/ Bye \/ Join \/ OwnerReleases)

TaskSpec == TaskInit /\ [][TaskNext]_taskVars /\ TaskFairness

-----------------------------------------------------------------------------
(* Properties. *)

\* Both ways through the list meet the same elements: the links stay sound
\* under any sequence of additions and removals.
LinksAgree ==
  LET forward  == Forward(list)
      backward == Backward(list)
  IN  /\ Len(forward) = Len(backward)
      /\ \A i \in DOMAIN forward : forward[i] = backward[Len(forward) + 1 - i]

\* The thread never sleeps on a queue that holds a message or was unblocked:
\* no signal is lost between the test and the wait.
NobodyOversleeps == worker = "waiting" => Waits

\* Each of the two threads still has its delegate when it uses it, and the
\* last to leave deletes it ("we delete this obj when mRefCount becomes 0").
DelegateOutlivesBoth ==
  worker # "none" =>
    (delegate <=> worker # "done" \/ owner # "done")

\* Once it is destroyed, a task goes away with its thread: neither of the two
\* waits for the other for ever.
DestroyEnds == owner = "unblocked" ~> owner = "done" /\ worker \in {"none", "done"} /\ ~delegate

\* "this obj will be deleted once thread is deleted" (MsgTask.h:56): the task
\* exists as long as its owner is at work in destroy().
TaskOutlivesDestroy == owner = "unblocked" => task

\* No message stays in the queue of a task whose thread came up, unless the
\* task is destroyed.
MessagesLeave ==
  \A m \in Messages :
    worker # "none" /\ m \in sent \ lost ~>
      unblocked \/ \A i \in DOMAIN Forward(list) : Forward(list)[i] # m

\* The queue, its sleeper and the shared delegate are sound at every moment.
TaskInv == TaskTypeOK /\ LinksAgree /\ NobodyOversleeps /\ DelegateOutlivesBoth

\* Neither messages nor a destroyed task are left behind.
TaskGoesOn == MessagesLeave /\ DestroyEnds

Box == INSTANCE Mailbox WITH
  pending <- Backward(list),
  handling <- inHand,
  closed <- unblocked

\* The task does what Mailbox promises: one message at a time, each once, in
\* the order in which the queue accepted them.
WorksAsMailbox == Box!Init /\ [][Box!Next]_Box!vars
=============================================================================

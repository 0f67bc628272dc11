------------------------------- MODULE LocTimer -------------------------------
(***************************************************************************)
(* The timers of gps/utils/LocTimer.cpp: clients that start and stop       *)
(* LocTimer objects, the message thread that keeps the running timers in a *)
(* heap and gives the callbacks, the polling thread that waits for the     *)
(* kernel's timer, and that timer.                                         *)
(*                                                                         *)
(* One container is modelled; the one for alarms is a second instance that *)
(* shares the two threads.  Of the heap (LocHeap) only its members and its *)
(* top are kept, and which of several soonest timers comes up is open.     *)
(***************************************************************************)
EXTENDS Naturals, Sequences

CONSTANTS
  Objects,     \* LocTimer objects, started and stopped again and again
  Wrappers,    \* LocTimerWrapper objects, behind loc_timer_start()
  Delegates,   \* bound: places for LocTimerDelegate objects
  MaxClock,    \* bound on the time, and on every deadline
  Delays,      \* delays that are asked for
  None

Clients == Objects \cup Wrappers

ASSUME TimerAssumption ==
  /\ None \notin Clients \cup Delegates
  /\ Objects \cap Wrappers = {}
  /\ MaxClock \in Nat /\ Delays \subseteq Nat

VARIABLES
  clock,
  mTimer,     \* of a client, its delegate or None
  wrapped,    \* the wrappers that exist
  alive,      \* the delegates that exist
  mClient,    \* of a delegate, its client, or None once it is stopped
  at,         \* of a delegate, mFutureTime
  heap, top,  \* delegates in the container, and the one peek() returns
  armed,      \* the kernel timer: a time, or None
  polled,     \* is the kernel timer's descriptor in the epoll set?
  queue,      \* messages for the message thread
  poll,       \* the polling thread
  msg,        \* the message thread: what it does of an expiry
  crashed     \* a client was used after its deletion

clients == <<mTimer, wrapped, alive, mClient, at, crashed>>
kernel  == <<armed, polled>>
vars == <<clock, clients, heap, top, kernel, queue, poll, msg>>

Messages == ({"push", "remove"} \X Delegates) \cup {<<"expire", None>>}
Idle == [pc |-> "idle", now |-> 0, client |-> None, timer |-> None]
Further(now) == [Idle EXCEPT !.pc = "next", !.now = now]

TypeOK ==
  /\ clock \in 0..MaxClock
  /\ mTimer \in [Clients -> Delegates \cup {None}]
  /\ wrapped \subseteq Wrappers /\ alive \subseteq Delegates
  /\ mClient \in [Delegates -> Clients \cup {None}]
  /\ at \in [Delegates -> 0..MaxClock]
  /\ heap \subseteq alive
  /\ top \in heap \cup {None} /\ (top = None) = (heap = {})
  /\ armed \in 0..MaxClock \cup {None} /\ polled \in BOOLEAN
  /\ queue \in Seq(Messages)
  /\ poll \in {"waiting", "woken", "disarmed", "unpolled"}
  /\ msg \in [pc : {"idle", "next", "stopping", "calling", "destroying"},
              now : 0..MaxClock, client : Clients \cup {None},
              timer : Delegates \cup {None}]
  /\ crashed \in BOOLEAN

Init ==
  /\ clock = 0
  /\ mTimer = [c \in Clients |-> None]
  /\ wrapped = {} /\ alive = {}
  /\ mClient = [d \in Delegates |-> None]
  /\ at = [d \in Delegates |-> 0]
  /\ heap = {} /\ top = None
  /\ armed = None /\ polled = FALSE
  /\ queue = <<>> /\ poll = "waiting" /\ msg = Idle
  /\ crashed = FALSE

Running == ~crashed
Takes(m) == msg.pc = "idle" /\ queue # <<>> /\ Head(queue) = m /\ queue' = Tail(queue)

-----------------------------------------------------------------------------
(* The clients' threads; each call holds the lock of its LocTimer. *)

\* LocTimer::start() of a timer that is not running: a new delegate, which
\* adds itself to the container.
StartTimer(c, delay) ==
  /\ mTimer[c] = None
  /\ clock + delay <= MaxClock
  /\ alive # Delegates
  /\ LET d == CHOOSE d \in Delegates : d \notin alive IN
       /\ mTimer' = [mTimer EXCEPT ![c] = d]
       /\ alive' = alive \cup {d}
       /\ mClient' = [mClient EXCEPT ![d] = c]
       /\ at' = [at EXCEPT ![d] = clock + delay]
       /\ queue' = Append(queue, <<"push", d>>)

\* LocTimer::stop() of a timer that is running, with destroyLocked().
StopTimer(c) ==
  /\ mTimer' = [mTimer EXCEPT ![c] = None]
  /\ mClient' = [mClient EXCEPT ![mTimer[c]] = None]
  /\ queue' = Append(queue, <<"remove", mTimer[c]>>)

Start(o, delay) ==
  /\ Running
  /\ StartTimer(o, delay)
  /\ UNCHANGED <<clock, wrapped, heap, top, kernel, poll, msg, crashed>>

Stop(o) ==
  /\ Running
  /\ mTimer[o] # None /\ StopTimer(o)
  /\ UNCHANGED <<clock, wrapped, alive, at, heap, top, kernel, poll, msg, crashed>>

\* loc_timer_start()
TimerStart(w, delay) ==
  /\ Running
  /\ w \notin wrapped /\ wrapped' = wrapped \cup {w}
  /\ StartTimer(w, delay)
  /\ UNCHANGED <<clock, heap, top, kernel, poll, msg, crashed>>

\* loc_timer_stop(), by a caller whose callback has not begun: destroy()
\* deletes the wrapper, whose destructor stops the timer.
TimerStop(w) ==
  /\ Running
  /\ w \in wrapped /\ wrapped' = wrapped \ {w}
  /\ ~(msg.client = w /\ msg.pc \in {"calling", "destroying"})
  /\ mTimer[w] # None /\ StopTimer(w)
  /\ UNCHANGED <<clock, alive, at, heap, top, kernel, poll, msg, crashed>>

-----------------------------------------------------------------------------
(* The message thread. *)

Soonest(S) == {d \in S : \A e \in S : at[d] <= at[e]}

\* The container without its top, with the next one on top.
PopTop ==
  /\ heap' = heap \ {top}
  /\ top' \in IF heap' = {} THEN {None} ELSE Soonest(heap')

Arm(t) == armed' = at[t] /\ polled' = TRUE

\* Slip: the condition the comment in front of it describes.
UpdateSoonestTimeUnlessNew(prior) ==
  IF top' # None /\ prior # None THEN Arm(top') ELSE UNCHANGED kernel

\* updateSoonestTime(): it arms the kernel for a top that is new or that
\* outranks the prior one.  prior is never a timer when the container has
\* become empty, so the kernel timer is never disarmed here.
UpdateSoonestTime(prior) ==
  IF top' # None /\ (prior = None \/ at[top'] < at[prior])
  THEN Arm(top') ELSE UNCHANGED kernel

\* MsgTimerPush
Push(d) ==
  /\ Running /\ Takes(<<"push", d>>)
  /\ heap' = heap \cup {d}
  /\ top' = IF top = None \/ at[d] < at[top] THEN d ELSE top
  /\ UpdateSoonestTime(top)
  /\ UNCHANGED <<clock, clients, poll, msg>>

\* Nothing is known of a delegate after its deletion.
Delete(d) == alive' = alive \ {d} /\ at' = [at EXCEPT ![d] = 0]

\* Slips: the kernel is left at the old deadline; a timer that was popped is not
\* deleted; only the soonest timer is taken out.
RemoveWithoutUpdate(d) ==
  /\ Running /\ Takes(<<"remove", d>>)
  /\ Delete(d)
  /\ IF d = top THEN PopTop /\ UNCHANGED kernel
     ELSE heap' = heap \ {d} /\ UNCHANGED <<top, kernel>>
  /\ UNCHANGED <<clock, mTimer, wrapped, mClient, crashed, poll, msg>>
RemoveOnlyListed(d) ==
  /\ Running /\ Takes(<<"remove", d>>)
  /\ IF d \in heap THEN Delete(d) ELSE UNCHANGED <<alive, at>>
  /\ IF d = top THEN PopTop /\ UpdateSoonestTime(None)
     ELSE heap' = heap \ {d} /\ UNCHANGED <<top, kernel>>
  /\ UNCHANGED <<clock, mTimer, wrapped, mClient, crashed, poll, msg>>

RemoveTopOnly(d) ==
  /\ Running /\ Takes(<<"remove", d>>)
  /\ Delete(d)
  /\ IF d = top THEN PopTop /\ UpdateSoonestTime(None)
     ELSE UNCHANGED <<heap, top, kernel>>
  /\ UNCHANGED <<clock, mTimer, wrapped, mClient, crashed, poll, msg>>

\* MsgTimerRemove: a timer that was popped already is only deleted.
Remove(d) ==
  /\ Running /\ Takes(<<"remove", d>>)
  /\ Delete(d)
  /\ IF d = top THEN PopTop /\ UpdateSoonestTime(None)
     ELSE heap' = heap \ {d} /\ UNCHANGED <<top, kernel>>
  /\ UNCHANGED <<clock, mTimer, wrapped, mClient, crashed, poll, msg>>

\* A timer is popped, and expire() keeps a copy of its client.
Pop(now) ==
  /\ PopTop
  /\ msg' = IF mClient[top] = None THEN Further(now)
            ELSE [pc |-> "stopping", now |-> now, client |-> mClient[top], timer |-> top]
  /\ UNCHANGED kernel

\* The end of MsgTimerExpire.
Rearm ==
  /\ msg' = Idle
  /\ UNCHANGED <<heap, top>>
  /\ UpdateSoonestTime(None)

\* MsgTimerExpire: the first timer is popped whatever its deadline.
Expire ==
  /\ Running /\ Takes(<<"expire", None>>)
  /\ IF heap # {} THEN Pop(clock) ELSE Rearm
  /\ UNCHANGED <<clock, clients, poll>>

\* popIfOutRanks(), for the further ones.
PopNext ==
  /\ Running /\ msg.pc = "next"
  /\ IF heap # {} /\ at[top] <= msg.now THEN Pop(msg.now) ELSE Rearm
  /\ UNCHANGED <<clock, clients, queue, poll>>

\* Slip: the callback also of a timer that has been stopped meanwhile.
StopExpiredAlways ==
  /\ Running /\ msg.pc = "stopping"
  /\ LET c == msg.client IN
       IF c \in Wrappers \ wrapped
       THEN crashed' = TRUE /\ UNCHANGED <<mTimer, mClient, queue, msg>>
       ELSE /\ IF mTimer[c] # None THEN StopTimer(c)
               ELSE UNCHANGED <<mTimer, mClient, queue>>
            /\ msg' = [msg EXCEPT !.pc = "calling"]
            /\ UNCHANGED crashed
  /\ UNCHANGED <<clock, wrapped, alive, at, heap, top, kernel, poll>>

\* The client's own stop() decides whether it is called: not if it has been
\* stopped since.  A client that has been deleted since has no lock to take.
StopExpired ==
  /\ Running /\ msg.pc = "stopping"
  /\ LET c == msg.client IN
       \/ /\ c \in Wrappers \ wrapped
          /\ crashed' = TRUE
          /\ UNCHANGED <<mTimer, mClient, queue, msg>>
       \/ /\ c \notin Wrappers \ wrapped
          /\ \/ mTimer[c] # None /\ StopTimer(c) /\ msg' = [msg EXCEPT !.pc = "calling"]
             \/ /\ mTimer[c] = None
                /\ msg' = Further(msg.now)
                /\ UNCHANGED <<mTimer, mClient, queue>>
          /\ UNCHANGED crashed
  /\ UNCHANGED <<clock, wrapped, alive, at, heap, top, kernel, poll>>

TimeOutCallback ==
  /\ Running /\ msg.pc = "calling"
  /\ msg' = IF msg.client \in Wrappers THEN [msg EXCEPT !.pc = "destroying"]
            ELSE Further(msg.now)
  /\ UNCHANGED <<clock, clients, heap, top, kernel, queue, poll>>

\* LocTimerWrapper::destroy(), at the end of its callback.
DestroyWrapper ==
  /\ Running /\ msg.pc = "destroying"
  /\ wrapped' = wrapped \ {msg.client}
  /\ msg' = Further(msg.now)
  /\ UNCHANGED <<clock, mTimer, alive, mClient, at, crashed, heap, top, kernel, queue, poll>>

MsgThread ==
  \/ \E d \in Delegates : Push(d) \/ Remove(d)
  \/ Expire \/ PopNext \/ StopExpired \/ TimeOutCallback \/ DestroyWrapper

-----------------------------------------------------------------------------
(* The polling thread, LocTimerPollTask::run() and LocTimerContainer::expire(). *)

Wake ==
  /\ Running /\ poll = "waiting"
  /\ polled /\ armed # None /\ armed <= clock
  /\ poll' = "woken"
  /\ UNCHANGED <<clock, clients, heap, top, kernel, queue, msg>>

Disarm ==
  /\ Running /\ poll = "woken" /\ poll' = "disarmed"
  /\ armed' = None
  /\ UNCHANGED <<clock, clients, heap, top, polled, queue, msg>>

RemovePoll ==
  /\ Running /\ poll = "disarmed" /\ poll' = "unpolled"
  /\ polled' = FALSE
  /\ UNCHANGED <<clock, clients, heap, top, armed, queue, msg>>

PostExpire ==
  /\ Running /\ poll = "unpolled" /\ poll' = "waiting"
  /\ queue' = Append(queue, <<"expire", None>>)
  /\ UNCHANGED <<clock, clients, heap, top, kernel, msg>>

PollThread == Wake \/ Disarm \/ RemovePoll \/ PostExpire

Tick ==
  /\ clock < MaxClock /\ clock' = clock + 1
  /\ UNCHANGED <<clients, heap, top, kernel, queue, poll, msg>>

ClientThreads ==
  \/ \E o \in Objects : Stop(o) \/ \E delay \in Delays : Start(o, delay)
  \/ \E w \in Wrappers : TimerStop(w) \/ \E delay \in Delays : TimerStart(w, delay)

Next == ClientThreads \/ MsgThread \/ PollThread \/ Tick

\* Both threads only ever block on what they wait for, and time passes.
Fairness == WF_vars(MsgThread) /\ WF_vars(PollThread) /\ WF_vars(Tick)

Spec == Init /\ [][Next]_vars /\ Fairness

-----------------------------------------------------------------------------
(* Properties. *)

InQueue(kind, d) == {i \in DOMAIN queue : queue[i] = <<kind, d>>}
ExpiryUnderWay ==
  poll \in {"woken", "disarmed", "unpolled"} \/ msg.pc # "idle" \/ InQueue("expire", None) # {}

\* "All timers are deleted here, and only here" (LocTimer.cpp:344): a delegate
\* has its client's handle, or one removal in the queue, and never both; no
\* removal is left for a delegate that has been deleted.
DeletedOnce ==
  \A d \in Delegates :
    LET owners == {c \in Clients : mTimer[c] = d}
        removals == InQueue("remove", d)
    IN  /\ d \in alive <=> owners # {} \/ removals # {}
        /\ owners = {} \/ removals = {}
        /\ \A i, j \in removals : i = j
        /\ \A c \in owners : mClient[d] = c

\* While timers run, the kernel is armed for the soonest of them, or an expiry
\* that will arm it is under way: no wake-up is lost between the two threads.
WakeUpIsSet ==
  heap # {} => \/ ExpiryUnderWay
               \/ polled /\ armed = at[top] /\ top \in Soonest(heap)

\* A started timer elapses, unless it is stopped: it never stays running.
StartedTimerEnds ==
  \A c \in Clients : mTimer[c] # None ~> mTimer[c] = None \/ crashed

\* No delegate leaks, and none is used after its deletion.
TimerInv == TypeOK /\ DeletedOnce

\* The promise of LocTimer.h (up to the use of a deleted client).
Service == INSTANCE TimerService WITH
  running <- {c \in Clients : mTimer[c] # None},
  calling <- IF msg.pc = "calling" THEN {msg.client} ELSE {}

KeepsPromise == Service!Spec /\ StartedTimerEnds

\* "pop everything in the heap that outRanks now, i.e. has time older than now"
\* (LocTimer.cpp:365): nobody is called before the deadline.
NeverEarly == [][msg.pc = "calling" /\ msg'.pc # "calling" => at[msg.timer] <= clock]_vars
=============================================================================

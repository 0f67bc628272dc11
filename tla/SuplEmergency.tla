---------------------------- MODULE SuplEmergency ----------------------------
(***************************************************************************)
(* SUPL for an emergency call: the DSStateMachine brings up a data call of *)
(* its own for the modem's client, tries again on a timer when the data    *)
(* services are busy, and falls back to the ordinary SUPL interface when   *)
(* they stay so (loc_eng_agps.cpp:812-970, loc_eng.cpp:1126-1263).         *)
(*                                                                         *)
(* Threads: the LocEng thread works off the message queue; the timer       *)
(* thread, the data services and the modem only add to it.                 *)
(*                                                                         *)
(* Outside this source tree: the modem's clients (phase) and the data call *)
(* (call).  The ordinary SUPL interface (link) is what AgpsNif shows of    *)
(* itself to one client: it answers, and a release ends it.                *)
(***************************************************************************)
EXTENDS Naturals, Sequences, SequencesExt

CONSTANTS
  Handles,       \* connection handles, each used for one emergency link
  MaxRetries     \* MAX_START_DATA_CALL_RETRIES

ASSUME EmergencyAssumption == MaxRetries \in Nat

VARIABLES
  state, subs, inactive, note, req,   \* the machine; see AgpsStateMachine
  order,     \* mSubscribers as a list: the newest is the head
  retries,   \* mRetries
  timers,    \* retry timers under way
  queue,     \* messages for the LocEng thread
  call,      \* the emergency data call
  link,      \* the ordinary SUPL interface, per client
  phase      \* what each client of the modem waits for or has

SM == INSTANCE AgpsStateMachine
        WITH Subscribers <- Handles, dataServices <- TRUE, FreedIds <- {}

machine == <<state, subs, inactive, order>>
vars == <<state, subs, inactive, note, req, order, retries, timers, queue,
          call, link, phase>>

Phases   == {"unused", "requesting", "open", "releasing", "done"}
Calls    == {"idle", "starting", "up", "stopping"}
Links    == {"none", "waiting", "open"}
Results  == {"SUCCESS", "BUSY", "UNSUPPORTED", "FAILED"}
Messages == ({"REQUEST_SUPL_ES", "REQUEST_ATL", "RELEASE_ATL"} \X Handles)
              \cup ({"CALL"} \X {"OPENED", "CLOSED"})

TypeOK ==
  /\ SM!TypeOK
  /\ ToSet(order) = subs /\ IsInjective(order)
  /\ retries \in 0..MaxRetries
  /\ timers \in Nat
  /\ queue \in Seq(Messages)
  /\ call \in Calls
  /\ link \in [Handles -> Links]
  /\ phase \in [Handles -> Phases]

Init ==
  /\ SM!Init
  /\ order = <<>> /\ retries = 0 /\ timers = 0
  /\ queue = <<>>
  /\ call = "idle"
  /\ link = [h \in Handles |-> "none"]
  /\ phase = [h \in Handles |-> "unused"]

\* The elements of the list that are in S, in the list's order.
Within(list, S) ==
  LET upTo[i \in 0..Len(list)] ==
        IF i = 0 THEN <<>>
        ELSE IF list[i] \in S THEN Append(upTo[i - 1], list[i]) ELSE upTo[i - 1]
  IN upTo[Len(list)]

Quiet == note' = {} /\ req' = "NONE"
Takes(m) == queue # <<>> /\ Head(queue) = m
Moves(p, from, to) == IF p \in from THEN to ELSE p

-----------------------------------------------------------------------------
(* What a step of the machine does to everybody else. *)

\* linked_list_add() adds at the head.
ListFollows ==
  order' = SetToSeq(subs' \ subs) \o Within(order, subs')

\* The first active subscriber that linked_list_search() meets.
NewestActive(list, active) == Within(list, active)[1]

\* DSSubscriber::notifyRsrcStatus() and setInactive() by informStatus(): a
\* grant and an unsubscribe reach the client.  A RELEASED only closes the data
\* call, which is down already; a DENIED asks for the ordinary interface.
ClientsTold ==
  phase' = [h \in Handles |->
    CASE <<h, "GRANTED">> \in note'     -> Moves(phase[h], {"requesting"}, "open")
      [] <<h, "UNSUBSCRIBE">> \in note' -> Moves(phase[h], {"open", "releasing"}, "done")
      [] OTHER                          -> phase[h]]

Denied == Within(order, {h \in subs : <<h, "DENIED">> \in note'})
Fallback(list) == [i \in DOMAIN list |-> <<"REQUEST_ATL", list[i]>>]

\* Slip: a busy answer after the last retry is retried no more, nor denied.
StartCallGivesUp(r) ==
  LET again  == r = "BUSY" /\ retries < MaxRetries
  IN /\ call' = IF r = "SUCCESS" THEN "starting" ELSE call
     /\ timers' = IF again THEN timers + 1 ELSE timers
     /\ retries' = IF again THEN retries + 1 ELSE IF r = "SUCCESS" THEN retries ELSE 0
     /\ queue' = Tail(queue)

\* DSStateMachine::sendRsrcRequest(): a busy data service is tried again after
\* a while, MaxRetries times; another failure, or one time too many, sends the
\* newest client to the ordinary interface, and leaves it on the list.
StartCall(r) ==
  LET client == NewestActive(order', SM!Active')
      again  == r = "BUSY" /\ retries < MaxRetries
  IN /\ call' = IF r = "SUCCESS" THEN "starting" ELSE call
     /\ timers' = IF again THEN timers + 1 ELSE timers
     /\ retries' = IF again THEN retries + 1 ELSE IF r = "SUCCESS" THEN retries ELSE 0
     /\ queue' = Tail(queue) \o
          IF again \/ r = "SUCCESS" THEN <<>> ELSE Fallback(<<client>>)

\* The machine's request goes to the data services (dataCallCb): they start a
\* call if none is there, and a stop always succeeds.
CallAsked(r) ==
  \/ /\ req' = "REQUEST"
     /\ r = "SUCCESS" => call = "idle"
     /\ StartCall(r)
  \/ /\ req' = "RELEASE"
     /\ call' = Moves(call, {"starting", "up"}, "stopping")
     /\ queue' = Tail(queue)
     /\ UNCHANGED <<timers, retries>>
  \/ /\ req' = "NONE"
     /\ queue' = Tail(queue) \o Fallback(Denied)
     /\ retries' = IF Denied = <<>> THEN retries ELSE 0
     /\ UNCHANGED <<call, timers>>

-----------------------------------------------------------------------------
(* The LocEng thread. *)

\* Slip: the result of the request read with its polarity swapped.
RequestSuplEsInverted(h, r) ==
  /\ Takes(<<"REQUEST_SUPL_ES", h>>)
  /\ SM!SubscribeRsrc(h, r # "SUCCESS")
  /\ ListFollows /\ ClientsTold /\ CallAsked(r)
  /\ UNCHANGED link

RequestSuplEs(h, r) ==
  /\ Takes(<<"REQUEST_SUPL_ES", h>>)
  /\ SM!SubscribeRsrc(h, r = "SUCCESS")
  /\ ListFollows /\ ClientsTold /\ CallAsked(r)
  /\ UNCHANGED link

RequestATL(h) ==
  /\ Takes(<<"REQUEST_ATL", h>>)
  /\ queue' = Tail(queue)
  /\ link' = [link EXCEPT ![h] = "waiting"]
  /\ Quiet
  /\ UNCHANGED <<machine, retries, timers, call, phase>>

\* Slip: a client on no list gets no answer.
UnansweredReleaseATL(h) ==
  /\ Takes(<<"RELEASE_ATL", h>>)
  /\ link' = [link EXCEPT ![h] = "none"]
  /\ \/ /\ link[h] = "none"
        /\ SM!UnsubscribeRsrc(h)
        /\ ListFollows /\ ClientsTold /\ CallAsked("SUCCESS")
     \/ /\ link[h] # "none" \/ h \notin subs
        /\ queue' = Tail(queue)
        /\ Quiet
        /\ UNCHANGED <<machine, retries, timers, call, phase>>

\* The ordinary interface is asked first, then the emergency one; the close
\* fails if the client is on no list.
ReleaseATL(h) ==
  /\ Takes(<<"RELEASE_ATL", h>>)
  /\ \/ /\ link[h] = "none"
        /\ SM!UnsubscribeRsrc(h)
        /\ ListFollows /\ ClientsTold /\ CallAsked("SUCCESS")
        /\ UNCHANGED link
     \/ /\ link[h] # "none" \/ h \notin subs
        /\ link' = [link EXCEPT ![h] = "none"]
        /\ phase' = [phase EXCEPT ![h] = Moves(@, {"open", "releasing"}, "done")]
        /\ queue' = Tail(queue)
        /\ Quiet
        /\ UNCHANGED <<machine, retries, timers, call>>

SuplEsOpened ==
  /\ Takes(<<"CALL", "OPENED">>)
  /\ SM!OnRsrcEvent("GRANTED")
  /\ ListFollows /\ ClientsTold /\ CallAsked("SUCCESS")
  /\ UNCHANGED link

SuplEsClosed(r) ==
  /\ Takes(<<"CALL", "CLOSED">>)
  /\ SM!OnRsrcEvent("RELEASED")
  /\ ListFollows /\ ClientsTold /\ CallAsked(r)
  /\ UNCHANGED link

LocEngThread ==
  \/ \E h \in Handles :
        \/ \E r \in Results : RequestSuplEs(h, r)
        \/ RequestATL(h)
        \/ ReleaseATL(h)
  \/ SuplEsOpened
  \/ \E r \in Results : SuplEsClosed(r)

-----------------------------------------------------------------------------
(* The timer thread, the data services, the ordinary interface, the modem. *)

Posts(m) == queue' = Append(queue, m) /\ Quiet

\* retryCallback() asks again for the newest active subscriber of that moment.
TimerFires ==
  /\ timers > 0 /\ timers' = timers - 1
  /\ IF SM!Active # {}
     THEN Posts(<<"REQUEST_SUPL_ES", NewestActive(order, SM!Active)>>)
     ELSE Quiet /\ UNCHANGED queue
  /\ UNCHANGED <<machine, retries, call, link, phase>>

CallOpens ==
  /\ call = "starting" /\ call' = "up"
  /\ Posts(<<"CALL", "OPENED">>)
  /\ UNCHANGED <<machine, retries, timers, link, phase>>

CallCloses(from) ==
  /\ call = from /\ call' = "idle"
  /\ Posts(<<"CALL", "CLOSED">>)
  /\ UNCHANGED <<machine, retries, timers, link, phase>>

LinkAnswers(h) ==
  /\ link[h] = "waiting"
  /\ \/ /\ link' = [link EXCEPT ![h] = "open"]
        /\ phase' = [phase EXCEPT ![h] = Moves(@, {"requesting"}, "open")]
     \/ /\ link' = [link EXCEPT ![h] = "none"]
        /\ phase' = [phase EXCEPT ![h] = Moves(@, {"requesting"}, "done")]
  /\ Quiet
  /\ UNCHANGED <<machine, retries, timers, queue, call>>

ModemRequests(h) ==
  /\ phase[h] = "unused" /\ phase' = [phase EXCEPT ![h] = "requesting"]
  /\ Posts(<<"REQUEST_SUPL_ES", h>>)
  /\ UNCHANGED <<machine, retries, timers, call, link>>

ModemReleases(h) ==
  /\ phase[h] \in {"requesting", "open"}
  /\ phase' = [phase EXCEPT ![h] = "releasing"]
  /\ Posts(<<"RELEASE_ATL", h>>)
  /\ UNCHANGED <<machine, retries, timers, call, link>>

CallAnswers == CallOpens \/ CallCloses("starting") \/ CallCloses("stopping")

Next ==
  \/ LocEngThread
  \/ TimerFires
  \/ CallAnswers
  \/ CallCloses("up")
  \/ \E h \in Handles : LinkAnswers(h) \/ ModemRequests(h) \/ ModemReleases(h)

\* The LocEng thread and the timer run; the data services and the ordinary
\* interface answer.  The modem need not release, nor the call break.
Fairness ==
  /\ WF_vars(LocEngThread) /\ WF_vars(TimerFires) /\ WF_vars(CallAnswers)
  /\ \A h \in Handles : WF_vars(LinkAnswers(h))

Spec == Init /\ [][Next]_vars /\ Fairness

-----------------------------------------------------------------------------
(* Properties. *)

\* The data services are asked for a call only when the last one is gone, and
\* its close is no longer on its way to the machine: no late close can be taken
\* for the end of the new call.
StartsAfresh ==
  [][req' = "REQUEST" =>
       /\ call = "idle"
       /\ \A i \in DOMAIN Tail(queue) : queue[i + 1][1] # "CALL"]_vars

\* The call is stopped only when no client of the list has the link open.
StopsWhenUnused ==
  [][req' = "RELEASE" => \A h \in subs' : phase'[h] # "open"]_vars

\* A call that is up, coming up, or closing is one the machine knows about.
CallIsTracked ==
  state = "Released" => call = "idle"

\* While only one client uses the emergency interface, its request is answered,
\* by the data call or by the ordinary interface, whatever the data services
\* do at each attempt, unless it gives up.
OthersCame(h) == \E g \in Handles \ {h} : phase[g] # "unused"
LoneEmergencyAnswered ==
  \A h \in Handles :
    phase[h] = "requesting" ~> phase[h] # "requesting" \/ OthersCame(h)

\* The machine's state covers the call, in states of the right type.
CallIsKnown == TypeOK /\ CallIsTracked

\* The requests to the data services fit the call and its users.
CallFollowsClients == StartsAfresh /\ StopsWhenUnused

\* What the code announces when the call cannot be started (fallback to the
\* ordinary interface), of every client that waits for the call.  It keeps the
\* promise to the newest one only.
EmergencyAnswered ==
  \A h \in Handles : phase[h] = "requesting" ~> phase[h] # "requesting"

\* Every release is answered.
ReleaseAnswered ==
  \A h \in Handles : phase[h] = "releasing" ~> phase[h] # "releasing"

\* Nobody who releases is left waiting, nor who requests alone.
ClientsAnswered == ReleaseAnswered /\ LoneEmergencyAnswered
=============================================================================

------------------------------- MODULE AgpsNif -------------------------------
(***************************************************************************)
(* The SUPL network interface in operation: the agnss machine              *)
(* (AgpsStateMachine) behind the message queue of the LocEng thread, the   *)
(* ATL clients in the modem, and the Android framework (AFW) that brings   *)
(* the data connection up and down.                                        *)
(*                                                                         *)
(* The LocEng thread takes one message at a time from the queue, and what  *)
(* the machine tells the clients goes out in the same call.  The requests  *)
(* to the framework are callbacks that it serves later, in order (afw).    *)
(*                                                                         *)
(* Outside this source tree, and modelled from how it is used: the modem's *)
(* clients (phase), the framework's connection (conn), and their answers.  *)
(***************************************************************************)
EXTENDS Naturals, Sequences

CONSTANTS
  Handles,       \* connection handles of the modem's ATL clients
  MaxInFlight,   \* bound: messages the modem or a lost network adds only
                 \* while fewer than these are under way
  MaxCrashes     \* bound: restarts of the modem

ASSUME NifAssumption == MaxInFlight \in Nat \ {0} /\ MaxCrashes \in Nat

VARIABLES
  state, subs, inactive, note, req,   \* the machine; see AgpsStateMachine
  queue,     \* messages for the LocEng thread
  afw,       \* requests for the framework
  conn,      \* the framework's connection
  phase,     \* what each client of the modem waits for or has
  crashes    \* number of restarts so far

SM == INSTANCE AgpsStateMachine
        WITH Subscribers <- Handles, dataServices <- FALSE, FreedIds <- {}

machine == <<state, subs, inactive>>
vars == <<state, subs, inactive, note, req, queue, afw, conn, phase, crashes>>

Phases == {"down", "idle", "requesting", "open", "releasing"}
Conns  == {"closed", "opening", "open"}
Messages == ({"REQUEST_ATL", "RELEASE_ATL"} \X Handles)
              \cup ({"ATL"} \X SM!Events) \cup {<<"UP", "UP">>}

TypeOK ==
  /\ SM!TypeOK
  /\ queue \in Seq(Messages)
  /\ afw \in Seq({"REQUEST", "RELEASE"})
  /\ conn \in Conns
  /\ phase \in [Handles -> Phases]
  /\ crashes \in 0..MaxCrashes

Init ==
  /\ SM!Init
  /\ queue = <<>> /\ afw = <<>>
  /\ conn = "closed"
  /\ phase = [h \in Handles |-> "idle"]
  /\ crashes = 0

Room == Len(queue) + Len(afw) < MaxInFlight
Quiet == note' = {} /\ req' = "NONE"
Send(m) == queue' = Append(queue, m)

-----------------------------------------------------------------------------
(* The modem. *)

\* A client asks for the link: LocEngAdapter::requestATL().  The modem names
\* each link by a handle, and uses a handle again only once the engine is done
\* with the earlier link's messages: no status would tell the two apart.
ModemRequests(h) ==
  /\ Room
  /\ phase[h] = "idle"
  /\ \A i \in DOMAIN queue : queue[i][2] # h
  /\ phase' = [phase EXCEPT ![h] = "requesting"]
  /\ Send(<<"REQUEST_ATL", h>>)
  /\ Quiet
  /\ UNCHANGED <<machine, afw, conn, crashes>>

\* A client is done with the link, or gives up waiting:
\* LocEngAdapter::releaseATL().
ModemReleases(h) ==
  /\ Room
  /\ phase[h] \in {"requesting", "open"}
  /\ phase' = [phase EXCEPT ![h] = "releasing"]
  /\ Send(<<"RELEASE_ATL", h>>)
  /\ Quiet
  /\ UNCHANGED <<machine, afw, conn, crashes>>

\* The modem restarts: its clients are gone, and the engine is told once it
\* is back.  A new client asks only after the engine has reacted (booting
\* takes seconds), so the clients stay down till then.
ModemRestarts ==
  /\ Room /\ crashes < MaxCrashes
  /\ \A h \in Handles : phase[h] # "down"
  /\ crashes' = crashes + 1
  /\ phase' = [h \in Handles |-> "down"]
  /\ Send(<<"UP", "UP">>)
  /\ Quiet
  /\ UNCHANGED <<machine, afw, conn>>

\* What a client makes of atlOpenStatus(h, 1), atlOpenStatus(h, 0) and
\* atlCloseStatus(h, ..): one that did not wait for the status drops it.
Opened(p)  == IF p = "requesting" THEN "open" ELSE p
Refused(p) == IF p = "requesting" THEN "idle" ELSE p
Closed(p)  == IF p \in {"open", "releasing"} THEN "idle" ELSE p

-----------------------------------------------------------------------------
(* The LocEng thread. *)

\* ATLSubscriber::notifyRsrcStatus() for every client notified.
ClientsTold ==
  phase' = [h \in Handles |->
    CASE <<h, "GRANTED">> \in note'     -> Opened(phase[h])
      [] <<h, "DENIED">> \in note'      -> Refused(phase[h])
      [] <<h, "RELEASED">> \in note'    -> Closed(phase[h])
      [] <<h, "UNSUBSCRIBE">> \in note' -> Closed(phase[h])
      [] OTHER                          -> phase[h]]

\* Servicer: the framework's callback gets the request, if there is one.
FrameworkAsked == afw' = IF req' = "NONE" THEN afw ELSE Append(afw, req')

Takes(m) == queue # <<>> /\ Head(queue) = m /\ queue' = Tail(queue)

RequestATL(h) ==
  /\ Takes(<<"REQUEST_ATL", h>>)
  /\ SM!SubscribeRsrc(h, TRUE)
  /\ ClientsTold /\ FrameworkAsked
  /\ UNCHANGED <<conn, crashes>>

\* Slip: no answer to a client that is not on the list.
UnansweredReleaseATL(h) ==
  /\ Takes(<<"RELEASE_ATL", h>>)
  /\ \/ SM!UnsubscribeRsrc(h) /\ ClientsTold /\ FrameworkAsked
     \/ h \notin subs /\ Quiet /\ UNCHANGED <<machine, phase, afw>>
  /\ UNCHANGED <<conn, crashes>>

\* A client that is on no list is told that the close failed.
ReleaseATL(h) ==
  /\ Takes(<<"RELEASE_ATL", h>>)
  /\ \/ SM!UnsubscribeRsrc(h) /\ ClientsTold /\ FrameworkAsked
     \/ /\ h \notin subs
        /\ phase' = [phase EXCEPT ![h] = Closed(@)]
        /\ Quiet
        /\ UNCHANGED <<machine, afw>>
  /\ UNCHANGED <<conn, crashes>>

AtlEvent(e) ==
  /\ Takes(<<"ATL", e>>)
  /\ SM!OnRsrcEvent(e)
  /\ ClientsTold /\ FrameworkAsked
  /\ UNCHANGED <<conn, crashes>>

\* Slip: the subscribers of the modem that went down are kept.
EngineUpKeepsSubscribers ==
  /\ Takes(<<"UP", "UP">>)
  /\ phase' = [h \in Handles |-> "idle"]
  /\ Quiet
  /\ UNCHANGED <<machine, afw, conn, crashes>>

EngineUp ==
  /\ Takes(<<"UP", "UP">>)
  /\ SM!DropAllSubscribers
  /\ phase' = [h \in Handles |-> "idle"]
  /\ UNCHANGED <<afw, conn, crashes>>

LocEngThread ==
  \/ \E h \in Handles : RequestATL(h) \/ ReleaseATL(h)
  \/ \E e \in SM!Events : AtlEvent(e)
  \/ EngineUp

-----------------------------------------------------------------------------
(* The framework: agps_open(), agps_open_failed() and agps_closed() post   *)
(* the machine's events.                                                   *)

Answers(e) == Send(<<"ATL", e>>) /\ Quiet /\ UNCHANGED <<machine, phase, crashes>>

\* It starts to connect; a connection that is up is confirmed again, one that
\* is coming up will be.
AfwTakesRequest ==
  /\ afw # <<>> /\ Head(afw) = "REQUEST"
  /\ afw' = Tail(afw)
  /\ \/ conn = "open" /\ Answers("GRANTED") /\ UNCHANGED conn
     \/ /\ conn # "open" /\ conn' = "opening"
        /\ Quiet
        /\ UNCHANGED <<machine, queue, phase, crashes>>

\* It disconnects, or stops connecting, and confirms.
AfwTakesRelease ==
  /\ afw # <<>> /\ Head(afw) = "RELEASE"
  /\ afw' = Tail(afw)
  /\ \/ conn # "closed" /\ conn' = "closed" /\ Answers("RELEASED")
     \/ conn = "closed" /\ Quiet /\ UNCHANGED <<machine, queue, conn, phase, crashes>>

AfwOpens ==
  /\ conn = "opening" /\ conn' = "open"
  /\ Answers("GRANTED")
  /\ UNCHANGED afw

AfwFails ==
  /\ conn = "opening" /\ conn' = "closed"
  /\ Answers("DENIED")
  /\ UNCHANGED afw

\* The network goes away under the connection.
AfwLosesNetwork ==
  /\ Room
  /\ conn = "open" /\ conn' = "closed"
  /\ Answers("RELEASED")
  /\ UNCHANGED afw

Framework == AfwTakesRequest \/ AfwTakesRelease \/ AfwOpens \/ AfwFails

Next ==
  \/ \E h \in Handles : ModemRequests(h) \/ ModemReleases(h)
  \/ ModemRestarts
  \/ LocEngThread
  \/ Framework
  \/ AfwLosesNetwork

\* The LocEng thread blocks only on an empty queue, and the framework answers
\* what it is asked.  Nothing makes the modem ask, or the network fail.
Fairness == WF_vars(LocEngThread) /\ WF_vars(Framework)

Spec == Init /\ [][Next]_vars /\ Fairness

-----------------------------------------------------------------------------
(* Properties. *)

\* A client that was told it has the link is one the machine counts: it is on
\* the list, and the machine believes the connection to be up.  Whatever else
\* is in the queue, a lost connection closes every such client.
OpenIsCounted ==
  \A h \in Handles : phase[h] = "open" => state = "Acquired" /\ h \in subs

\* While the machine holds the connection, nobody on its list still waits for
\* the link: the grant was a broadcast, and later ones are granted at once.
NobodyWaitsInAcquired ==
  state = "Acquired" => \A h \in subs : phase[h] # "requesting"

\* The machine and its clients agree on who has the link, and who waits for it.
ClientsAreCounted == TypeOK /\ OpenIsCounted /\ NobodyWaitsInAcquired

InFlight == queue # <<>> \/ afw # <<>> \/ conn = "opening"

\* When no message is under way, the machine does not wait for an answer that
\* will not come, and does not believe in a connection that is gone.
SettledAgrees ==
  ~InFlight => state # "Pending" /\ (state = "Acquired" => conn = "open")

\* The connection is given back only when no client has it open: one client's
\* release, or a stale event, never takes it from another client.
ReleaseWhenUnused ==
  [][req' = "RELEASE" => \A h \in Handles : phase'[h] # "open"]_vars

\* Every client that asks for the link is told open or failed, unless it gives
\* up; and every client that releases the link is told it is closed.
RequestsAnswered ==
  \A h \in Handles :
    /\ phase[h] = "requesting" ~> phase[h] # "requesting"
    /\ phase[h] = "releasing" ~> phase[h] # "releasing"

\* What the comments of the Acquired state say of an empty list (no more
\* subscribers: move to RELEASED, tell the connectivity service): once the
\* messages are worked off, a machine that holds the connection has a
\* subscriber.  A restart of the modem empties the list and does neither.
AcquiredIsWanted == ~InFlight /\ state = "Acquired" => subs # {}
=============================================================================

---------------------------- MODULE AgpsNifProofs ----------------------------
(* Proofs about AgpsNif, for any set of clients, any number of restarts of *)
(* the modem and any number of messages under way.                         *)
EXTENDS AgpsNif, SequenceTheorems, TLAPS

Request(h) == <<"REQUEST_ATL", h>>
Release(h) == <<"RELEASE_ATL", h>>
Up         == <<"UP", "UP">>
Event(e)   == <<"ATL", e>>

\* The machine behind the queue is the base class's: nobody on its list is
\* inactive, it never waits for a close, and in Released the list is empty.
MachineIsBase ==
  /\ inactive = {}
  /\ state # "Releasing"
  /\ state = "Released" => subs = {}

\* No message of the modem comes before a client's request: the client made
\* it when nothing of its own was under way, and the modem was up.
RequestsComeFirst ==
  \A h \in Handles, i, j \in DOMAIN queue :
    i < j /\ queue[j] = Request(h) => queue[i] \notin {Request(h), Release(h), Up}

\* From the restart of the modem until the engine is told, every client is
\* down, so that nothing of theirs follows the message that tells it, ...
DownTillUp ==
  \A h \in Handles :
    /\ \A i \in DOMAIN queue : queue[i] = Up => phase[h] = "down"
    /\ \A i, j \in DOMAIN queue : queue[i] = Up /\ queue[j] = Up => i = j

\* ... a client whose request is under way is not on the list yet, ...
RequestedIsNew ==
  \A h \in Handles, i \in DOMAIN queue : queue[i] = Request(h) => h \notin subs

\* ... and of an idle client there is neither a subscription nor a request.
\* (Without it a new request could find the client on the list.)
IdleIsForgotten ==
  \A h \in Handles :
    phase[h] = "idle" =>
      h \notin subs /\ \A i \in DOMAIN queue : queue[i] # Request(h)

\* What the machine waits for is on its way: its last request to the framework
\* is a REQUEST, or the framework is connecting and has nothing else to do, or
\* an answer that ends Pending is in the queue.
PendingIsAnswered ==
  state = "Pending" =>
    \/ afw # <<>> /\ afw[Len(afw)] = "REQUEST"
    \/ afw = <<>> /\ conn = "opening"
    \/ \E i \in DOMAIN queue : queue[i] \in {Event("GRANTED"), Event("DENIED")}

\* A connection the machine believes in is up, or its end is in the queue; and
\* so it is for each grant in the queue.  (A DENIED does not end Acquired.)
HeldOrLost ==
  /\ state = "Acquired" =>
       conn = "open" \/ \E i \in DOMAIN queue : queue[i] = Event("RELEASED")
  /\ \A i \in DOMAIN queue :
       queue[i] = Event("GRANTED") =>
         conn = "open" \/ \E j \in DOMAIN queue : i < j /\ queue[j] = Event("RELEASED")

IInv ==
  /\ ClientsAreCounted
  /\ MachineIsBase
  /\ RequestsComeFirst
  /\ DownTillUp
  /\ RequestedIsNew
  /\ IdleIsForgotten
  /\ PendingIsAnswered
  /\ HeldOrLost

-----------------------------------------------------------------------------
(* The queue. *)

\* What a message that is sent does to the queue.
LEMMA SendFacts ==
  ASSUME queue \in Seq(Messages), NEW m \in Messages, Send(m)
  PROVE  /\ queue' \in Seq(Messages)
         /\ DOMAIN queue = 1..Len(queue) /\ Len(queue) \in Nat
         /\ DOMAIN queue' = 1..(Len(queue) + 1)
         /\ \A i \in DOMAIN queue : queue'[i] = queue[i]
         /\ queue'[Len(queue) + 1] = m
BY AppendProperties, LenProperties DEF Send

\* What the LocEng thread does to the queue when it takes a message.
LEMMA TakeFacts ==
  ASSUME queue \in Seq(Messages), NEW m, Takes(m)
  PROVE  /\ queue' \in Seq(Messages)
         /\ m \in Messages /\ queue[1] = m
         /\ DOMAIN queue = 1..Len(queue) /\ Len(queue) \in Nat \ {0}
         /\ DOMAIN queue' = 1..(Len(queue) - 1)
         /\ \A i \in DOMAIN queue' : i + 1 \in DOMAIN queue /\ queue'[i] = queue[i + 1]
         /\ \A i \in DOMAIN queue :
              i # 1 => i - 1 \in DOMAIN queue' /\ queue'[i - 1] = queue[i]
<1>1. queue # <<>> /\ Head(queue) = m /\ queue' = Tail(queue)
  BY DEF Takes
<1>2. /\ Tail(queue) \in Seq(Messages) /\ Len(Tail(queue)) = Len(queue) - 1
      /\ Head(queue) \in Messages
      /\ \A i \in 1..Len(Tail(queue)) : Tail(queue)[i] = queue[i + 1]
  BY <1>1, HeadTailProperties
<1>3. DOMAIN queue = 1..Len(queue) /\ Len(queue) \in Nat \ {0}
  BY <1>1, LenProperties, EmptySeq
<1>4. DOMAIN Tail(queue) = 1..Len(Tail(queue))
  BY <1>2, LenProperties
<1>5. Head(queue) = queue[1]
  BY <1>1
<1>6. /\ DOMAIN queue' = 1..(Len(queue) - 1)
      /\ \A i \in DOMAIN queue' : i + 1 \in DOMAIN queue /\ queue'[i] = queue[i + 1]
  BY <1>1, <1>2, <1>3, <1>4
<1>7. \A i \in DOMAIN queue :
        i # 1 => i - 1 \in DOMAIN queue' /\ queue'[i - 1] = queue[i]
  BY <1>1, <1>2, <1>3, <1>4
<1>8. QED
  BY <1>1, <1>2, <1>3, <1>5, <1>6, <1>7

\* A message of the framework changes nothing about the clients' messages.
LEMMA EventKeepsOrder ==
  ASSUME IInv, NEW e \in SM!Events, Send(Event(e)), UNCHANGED <<subs, phase>>
  PROVE  /\ queue' \in Seq(Messages)
         /\ RequestsComeFirst' /\ DownTillUp'
         /\ RequestedIsNew' /\ IdleIsForgotten'
<1>1. Event(e) \in Messages
  BY DEF Event, Messages
<1>2. /\ queue' \in Seq(Messages)
      /\ DOMAIN queue = 1..Len(queue) /\ Len(queue) \in Nat
      /\ DOMAIN queue' = 1..(Len(queue) + 1)
      /\ \A i \in DOMAIN queue : queue'[i] = queue[i]
      /\ queue'[Len(queue) + 1] = Event(e)
  BY <1>1, SendFacts DEF IInv, ClientsAreCounted, TypeOK
<1>3. \A i \in DOMAIN queue' : i \in DOMAIN queue \/ queue'[i] = Event(e)
  BY <1>2
<1>4. /\ Event(e) # Up
      /\ \A h \in Handles : Event(e) # Request(h) /\ Event(e) # Release(h)
  BY DEF Event, Up, Request, Release
<1>5. RequestsComeFirst'
  BY <1>2, <1>3, <1>4 DEF IInv, RequestsComeFirst
<1>6. DownTillUp'
  BY <1>2, <1>3, <1>4 DEF IInv, DownTillUp
<1>7. RequestedIsNew' /\ IdleIsForgotten'
  BY <1>2, <1>3, <1>4 DEF IInv, RequestedIsNew, IdleIsForgotten
<1>8. QED
  BY <1>2, <1>5, <1>6, <1>7

\* Taking a message keeps the order of those behind it, and a request or a
\* restart that is taken leaves no other behind.
LEMMA TakeKeepsOrder ==
  ASSUME IInv, NEW m, Takes(m)
  PROVE  /\ queue' \in Seq(Messages)
         /\ RequestsComeFirst'
         /\ \A h \in Handles, i \in DOMAIN queue' :
              m \in {Request(h), Release(h), Up} => queue'[i] # Request(h)
         /\ \A h \in Handles, i \in DOMAIN queue' : m = Up => queue'[i] # Up
<1>1. /\ queue' \in Seq(Messages)
      /\ queue[1] = m
      /\ DOMAIN queue = 1..Len(queue) /\ Len(queue) \in Nat \ {0}
      /\ DOMAIN queue' = 1..(Len(queue) - 1)
      /\ \A i \in DOMAIN queue' : queue'[i] = queue[i + 1]
  BY TakeFacts DEF IInv, ClientsAreCounted, TypeOK
<1>2. \A i \in DOMAIN queue' : i + 1 \in DOMAIN queue /\ 1 < i + 1 /\ 1 \in DOMAIN queue
  BY <1>1
<1>3. \A i, j \in DOMAIN queue' : i < j => i + 1 < j + 1
  BY <1>1
<1>4. RequestsComeFirst'
  BY <1>1, <1>2, <1>3 DEF IInv, RequestsComeFirst
<1>5. \A h \in Handles, i \in DOMAIN queue' :
        m \in {Request(h), Release(h), Up} => queue'[i] # Request(h)
  BY <1>1, <1>2 DEF IInv, RequestsComeFirst
<1>6. \A h \in Handles, i \in DOMAIN queue' : m = Up => queue'[i] # Up
  BY <1>1, <1>2 DEF IInv, DownTillUp
<1>7. QED
  BY <1>1, <1>4, <1>5, <1>6

\* Taking a message that is not the loss of the connection leaves such a loss
\* in the queue, and behind a grant that is taken one is there if need be.
LEMMA TakeKeepsLoss ==
  ASSUME IInv, NEW m, Takes(m), UNCHANGED conn
  PROVE  /\ \A i \in DOMAIN queue' :
              queue'[i] = Event("GRANTED") =>
                \/ conn' = "open"
                \/ \E j \in DOMAIN queue' : i < j /\ queue'[j] = Event("RELEASED")
         /\ (m # Event("RELEASED") /\ \E i \in DOMAIN queue : queue[i] = Event("RELEASED"))
              => \E i \in DOMAIN queue' : queue'[i] = Event("RELEASED")
         /\ m = Event("GRANTED") =>
              \/ conn' = "open"
              \/ \E i \in DOMAIN queue' : queue'[i] = Event("RELEASED")
<1>1. /\ queue[1] = m
      /\ DOMAIN queue = 1..Len(queue) /\ Len(queue) \in Nat \ {0}
      /\ DOMAIN queue' = 1..(Len(queue) - 1)
      /\ \A i \in DOMAIN queue' : i + 1 \in DOMAIN queue /\ queue'[i] = queue[i + 1]
      /\ \A i \in DOMAIN queue :
           i # 1 => i - 1 \in DOMAIN queue' /\ queue'[i - 1] = queue[i]
  BY TakeFacts DEF IInv, ClientsAreCounted, TypeOK
<1>2. ASSUME NEW i \in DOMAIN queue', queue'[i] = Event("GRANTED"), conn' # "open"
      PROVE  \E j \in DOMAIN queue' : i < j /\ queue'[j] = Event("RELEASED")
  <2>1. PICK j \in DOMAIN queue : i + 1 < j /\ queue[j] = Event("RELEASED")
    BY <1>1, <1>2 DEF IInv, HeldOrLost
  <2>2. j - 1 \in DOMAIN queue' /\ queue'[j - 1] = Event("RELEASED") /\ i < j - 1
    BY <1>1, <2>1
  <2>3. QED
    BY <2>2
<1>3. ASSUME m = Event("GRANTED"), conn' # "open"
      PROVE  \E i \in DOMAIN queue' : queue'[i] = Event("RELEASED")
  <2>1. PICK j \in DOMAIN queue : 1 < j /\ queue[j] = Event("RELEASED")
    BY <1>1, <1>3 DEF IInv, HeldOrLost
  <2>2. j - 1 \in DOMAIN queue' /\ queue'[j - 1] = Event("RELEASED")
    BY <1>1, <2>1
  <2>3. QED
    BY <2>2
<1>4. ASSUME m # Event("RELEASED"), NEW j \in DOMAIN queue, queue[j] = Event("RELEASED")
      PROVE  \E i \in DOMAIN queue' : queue'[i] = Event("RELEASED")
  <2>1. j - 1 \in DOMAIN queue' /\ queue'[j - 1] = Event("RELEASED")
    BY <1>1, <1>4
  <2>2. QED
    BY <2>1
<1>5. QED
  BY <1>2, <1>3, <1>4

\* What the clients make of a call that told whomever it told the same.
LEMMA ToldPhases ==
  ASSUME TypeOK, ClientsTold,
         NEW st \in SM!Statuses, \A h, t : <<h, t>> \in note' => t = st
  PROVE  /\ phase' \in [Handles -> Phases]
         /\ \A h \in Handles :
              /\ <<h, st>> \notin note' => phase'[h] = phase[h]
              /\ <<h, st>> \in note' =>
                   /\ st = "GRANTED" => phase'[h] = Opened(phase[h])
                   /\ st = "DENIED" => phase'[h] = Refused(phase[h])
                   /\ st \in {"RELEASED", "UNSUBSCRIBE"} => phase'[h] = Closed(phase[h])
<1>1. phase' = [h \in Handles |-> phase'[h]]
  BY Zenon DEF ClientsTold
<1>2. ASSUME NEW h \in Handles
      PROVE  /\ <<h, st>> \notin note' => phase'[h] = phase[h]
             /\ <<h, st>> \in note' =>
                  /\ st = "GRANTED" => phase'[h] = Opened(phase[h])
                  /\ st = "DENIED" => phase'[h] = Refused(phase[h])
                  /\ st \in {"RELEASED", "UNSUBSCRIBE"} => phase'[h] = Closed(phase[h])
  <2> DEFINE told(t) == <<h, t>> \in note'
  <2>1. \A t \in SM!Statuses : told(t) => t = st
    OBVIOUS
  <2>2. CASE ~told("GRANTED") /\ ~told("DENIED") /\ ~told("RELEASED") /\ ~told("UNSUBSCRIBE")
    <3>1. phase'[h] = phase[h]
      BY <2>2, Zenon DEF ClientsTold
    <3>2. ~told(st)
      BY <2>2 DEF SM!Statuses, SM!Events
    <3>3. QED
      BY <3>1, <3>2
  <2>3. CASE told("GRANTED")
    <3>1. /\ st = "GRANTED"
          /\ ~told("DENIED") /\ ~told("RELEASED") /\ ~told("UNSUBSCRIBE")
      BY <2>1, <2>3 DEF SM!Statuses, SM!Events
    <3>2. phase'[h] = Opened(phase[h])
      BY <2>3, <3>1, Zenon DEF ClientsTold
    <3>3. QED
      BY <2>3, <3>1, <3>2
  <2>4. CASE told("DENIED")
    <3>1. /\ st = "DENIED"
          /\ ~told("GRANTED") /\ ~told("RELEASED") /\ ~told("UNSUBSCRIBE")
      BY <2>1, <2>4 DEF SM!Statuses, SM!Events
    <3>2. phase'[h] = Refused(phase[h])
      BY <2>4, <3>1, Zenon DEF ClientsTold
    <3>3. QED
      BY <2>4, <3>1, <3>2
  <2>5. CASE told("RELEASED")
    <3>1. /\ st = "RELEASED"
          /\ ~told("GRANTED") /\ ~told("DENIED") /\ ~told("UNSUBSCRIBE")
      BY <2>1, <2>5 DEF SM!Statuses, SM!Events
    <3>2. phase'[h] = Closed(phase[h])
      BY <2>5, <3>1, Zenon DEF ClientsTold
    <3>3. QED
      BY <2>5, <3>1, <3>2
  <2>6. CASE told("UNSUBSCRIBE")
    <3>1. /\ st = "UNSUBSCRIBE"
          /\ ~told("GRANTED") /\ ~told("DENIED") /\ ~told("RELEASED")
      BY <2>1, <2>6 DEF SM!Statuses, SM!Events
    <3>2. phase'[h] = Closed(phase[h])
      BY <2>6, <3>1, Zenon DEF ClientsTold
    <3>3. QED
      BY <2>6, <3>1, <3>2
  <2>7. QED
    BY <2>2, <2>3, <2>4, <2>5, <2>6
<1>3. \A h \in Handles : phase[h] \in Phases /\ phase'[h] \in Phases
  BY <1>2 DEF TypeOK, Opened, Refused, Closed, Phases, SM!Statuses, SM!Events
<1>4. QED
  BY <1>1, <1>2, <1>3
-----------------------------------------------------------------------------
(* The machine's reactions, with nobody inactive and no freed memory. *)

\* subscribeRsrc(): asks the framework in Released, grants in Acquired.
LEMMA SubscribeCases ==
  ASSUME TypeOK, MachineIsBase, NEW h \in Handles, SM!SubscribeRsrc(h, TRUE)
  PROVE  /\ subs' = subs \cup {h} /\ inactive' = {}
         /\ \/ /\ state = "Released" /\ state' = "Pending"
               /\ note' = {} /\ req' = "REQUEST"
            \/ /\ state = "Pending" /\ state' = "Pending"
               /\ note' = {} /\ req' = "NONE"
            \/ /\ state = "Acquired" /\ state' = "Acquired"
               /\ note' = {<<h, "GRANTED">>} /\ req' = "NONE"
<1> USE DEF MachineIsBase, SM!AddSubscriber
<1>1. CASE SM!SubscribeInReleased(h, TRUE)
  BY <1>1 DEF SM!SubscribeInReleased, SM!SendRsrcRequest, SM!Active
<1>2. CASE SM!SubscribeWhileWaiting(h)
  BY <1>2 DEF SM!SubscribeWhileWaiting
<1>3. CASE SM!SubscribeInAcquired(h)
  BY <1>3 DEF SM!SubscribeInAcquired, SM!Notify
<1>4. QED
  BY <1>1, <1>2, <1>3 DEF SM!SubscribeRsrc

\* unsubscribeRsrc(): one client leaves, and only the last gives the
\* connection back.
LEMMA UnsubscribeCases ==
  ASSUME TypeOK, MachineIsBase, NEW h \in Handles, SM!UnsubscribeRsrc(h)
  PROVE  /\ h \in subs /\ subs' = subs \ {h} /\ inactive' = {}
         /\ note' = {<<h, "UNSUBSCRIBE">>}
         /\ state \in {"Pending", "Acquired"}
         /\ \/ subs' = {} /\ state' = "Released" /\ req' = "RELEASE"
            \/ subs' # {} /\ state' = state /\ req' = "NONE"
<1>1. h \in subs
  BY DEF SM!UnsubscribeRsrc
<1>2. SM!UnsubscribeWhileEngaged(h)
  BY <1>1 DEF SM!UnsubscribeRsrc, SM!UnsubscribeInReleased,
              SM!UnsubscribeInReleasing, MachineIsBase
<1>3. ASSUME NEW also \in SUBSET subs, SM!Matched(h, also)
      PROVE  also = {}
  BY <1>3 DEF SM!Matched
<1>4. subs' = subs \ {h} /\ inactive' = {} /\ note' = {<<h, "UNSUBSCRIBE">>}
  BY <1>2, <1>3 DEF SM!UnsubscribeWhileEngaged, SM!Leave, SM!Notify, MachineIsBase
<1>5. QED
  BY <1>1, <1>2, <1>4
     DEF SM!UnsubscribeWhileEngaged, SM!SendRsrcRequest, SM!Active

\* onRsrcEvent(): a grant ends Pending, a denial too, a release ends Acquired;
\* everything else is ignored.
LEMMA EventCases ==
  ASSUME TypeOK, MachineIsBase, NEW e \in SM!Events, SM!OnRsrcEvent(e)
  PROVE  /\ inactive' = {} /\ req' = "NONE"
         /\ \/ /\ state = "Pending" /\ e = "GRANTED" /\ state' = "Acquired"
               /\ subs' = subs /\ note' = subs \X {"GRANTED"}
            \/ /\ state = "Pending" /\ e = "DENIED" /\ state' = "Released"
               /\ subs' = {} /\ note' = subs \X {"DENIED"}
            \/ /\ state = "Acquired" /\ e = "RELEASED" /\ state' = "Released"
               /\ subs' = {} /\ note' = subs \X {"RELEASED"}
            \/ /\ state' = state /\ subs' = subs /\ note' = {}
               /\ state = "Pending" => e = "RELEASED"
               /\ state = "Acquired" => e # "RELEASED"
<1> USE DEF MachineIsBase, SM!Notify, SM!Events
<1>1. CASE e = "GRANTED" /\ SM!Granted
  BY <1>1 DEF SM!Granted, SM!Active
<1>2. CASE state = "Pending" /\ SM!Denies(e) /\ SM!DropAll("DENIED")
  BY <1>2 DEF SM!Denies, SM!DropAll
<1>3. CASE state = "Acquired" /\ e = "RELEASED" /\ SM!DropAll("RELEASED")
  BY <1>3 DEF SM!DropAll
<1>4. CASE SM!Ignored(e)
  BY <1>4 DEF SM!Ignored, SM!machine
<1>5. ~SM!ReleaseDone(e)
  BY DEF SM!ReleaseDone
<1>6. QED
  BY <1>1, <1>2, <1>3, <1>4, <1>5 DEF SM!OnRsrcEvent

-----------------------------------------------------------------------------
(* Each step keeps the invariant. *)

\* The engine takes a request.
LEMMA RequestKeepsIInv ==
  ASSUME IInv, NEW h \in Handles, RequestATL(h)
  PROVE  IInv'
<1> DEFINE m == Request(h)
<1>1. /\ Takes(m) /\ SM!SubscribeRsrc(h, TRUE)
      /\ ClientsTold /\ FrameworkAsked /\ UNCHANGED <<conn, crashes>>
  BY DEF RequestATL, Request
<1>2. TypeOK /\ MachineIsBase
  BY DEF IInv, ClientsAreCounted
<1> HIDE DEF m
<1>3. /\ queue' \in Seq(Messages)
      /\ queue[1] = m
      /\ DOMAIN queue = 1..Len(queue) /\ Len(queue) \in Nat \ {0}
      /\ DOMAIN queue' = 1..(Len(queue) - 1)
      /\ \A i \in DOMAIN queue' : i + 1 \in DOMAIN queue /\ queue'[i] = queue[i + 1]
      /\ \A i \in DOMAIN queue :
           i # 1 => i - 1 \in DOMAIN queue' /\ queue'[i - 1] = queue[i]
  BY <1>1, <1>2, TakeFacts DEF TypeOK
<1>4. /\ subs' = subs \cup {h} /\ inactive' = {}
      /\ \/ /\ state = "Released" /\ state' = "Pending"
            /\ note' = {} /\ req' = "REQUEST"
         \/ /\ state = "Pending" /\ state' = "Pending"
            /\ note' = {} /\ req' = "NONE"
         \/ /\ state = "Acquired" /\ state' = "Acquired"
            /\ note' = {<<h, "GRANTED">>} /\ req' = "NONE"
  BY <1>1, <1>2, SubscribeCases
<1>5. /\ phase' \in [Handles -> Phases]
      /\ \A k \in Handles :
           phase'[k] = IF k = h /\ state = "Acquired" THEN Opened(phase[k]) ELSE phase[k]
  <2>1. "GRANTED" \in SM!Statuses /\ \A k, t : <<k, t>> \in note' => t = "GRANTED"
    BY <1>4 DEF SM!Statuses, SM!Events
  <2>2. QED
    BY <1>1, <1>2, <1>4, <2>1, ToldPhases
<1>6. /\ afw' \in Seq({"REQUEST", "RELEASE"})
      /\ req' = "NONE" => afw' = afw
      /\ req' = "REQUEST" => afw' # <<>> /\ afw'[Len(afw')] = "REQUEST"
  BY <1>1, <1>2, <1>4, AppendProperties DEF FrameworkAsked, TypeOK
<1>7. TypeOK'
  BY <1>1, <1>2, <1>3, <1>4, <1>5, <1>6
     DEF TypeOK, SM!TypeOK, SM!States, SM!Statuses, SM!Events, SM!Requests
<1>8. ClientsAreCounted'
  <2>1. OpenIsCounted'
    BY <1>4, <1>5 DEF IInv, ClientsAreCounted, OpenIsCounted, Opened
  <2>2. NobodyWaitsInAcquired'
    BY <1>2, <1>4, <1>5
       DEF IInv, ClientsAreCounted, NobodyWaitsInAcquired, Opened, TypeOK, SM!TypeOK
  <2>3. QED
    BY <1>7, <2>1, <2>2 DEF ClientsAreCounted
<1>9. MachineIsBase'
  BY <1>4 DEF MachineIsBase
<1>10. /\ RequestsComeFirst'
       /\ \A i \in DOMAIN queue' : queue'[i] # Request(h)
  BY <1>1, TakeKeepsOrder DEF m
<1>11. DownTillUp'
  BY <1>3, <1>5 DEF IInv, DownTillUp, Opened
<1>12. RequestedIsNew'
  BY <1>3, <1>4, <1>10 DEF IInv, RequestedIsNew
<1>13. phase[h] # "idle"
  BY <1>3 DEF IInv, IdleIsForgotten, m
<1>14. IdleIsForgotten'
  BY <1>3, <1>4, <1>5, <1>13 DEF IInv, IdleIsForgotten, Opened
<1>15. PendingIsAnswered'
  <2>1. m \notin {Event("GRANTED"), Event("DENIED")}
    BY DEF m, Request, Event
  <2>2. QED
    BY <1>1, <1>3, <1>4, <1>6, <2>1 DEF IInv, PendingIsAnswered
<1>16. HeldOrLost'
  <2>1. m # Event("RELEASED")
    BY DEF m, Request, Event
  <2>2. QED
    BY <1>1, <1>4, <2>1, TakeKeepsLoss DEF IInv, HeldOrLost
<1>17. QED
  BY <1>8, <1>9, <1>10, <1>11, <1>12, <1>14, <1>15, <1>16 DEF IInv

\* The engine takes a release: of a subscriber, or of a client it has
\* forgotten.
LEMMA ReleaseKeepsIInv ==
  ASSUME IInv, NEW h \in Handles, ReleaseATL(h)
  PROVE  IInv'
<1> DEFINE m == Release(h)
<1>1. Takes(m) /\ UNCHANGED <<conn, crashes>>
  BY DEF ReleaseATL, Release
<1>2. TypeOK /\ MachineIsBase
  BY DEF IInv, ClientsAreCounted
<1> HIDE DEF m
<1>3. /\ queue' \in Seq(Messages)
      /\ queue[1] = m
      /\ DOMAIN queue = 1..Len(queue) /\ Len(queue) \in Nat \ {0}
      /\ DOMAIN queue' = 1..(Len(queue) - 1)
      /\ \A i \in DOMAIN queue' : i + 1 \in DOMAIN queue /\ queue'[i] = queue[i + 1]
      /\ \A i \in DOMAIN queue :
           i # 1 => i - 1 \in DOMAIN queue' /\ queue'[i - 1] = queue[i]
  BY <1>1, <1>2, TakeFacts DEF TypeOK
<1>4. /\ phase' \in [Handles -> Phases]
      /\ phase'[h] = Closed(phase[h])
      /\ \A k \in Handles : k # h => phase'[k] = phase[k]
      /\ subs' = subs \ {h} /\ inactive' = {} /\ SM!TypeOK'
      /\ afw' \in Seq({"REQUEST", "RELEASE"})
      /\ \/ subs' = {} /\ state' = "Released"
         \/ subs' = subs /\ state' = state /\ afw' = afw
         \/ subs' # {} /\ state' = state /\ state # "Released" /\ afw' = afw
  <2>1. CASE SM!UnsubscribeRsrc(h) /\ ClientsTold /\ FrameworkAsked
    <3>1. /\ h \in subs /\ subs' = subs \ {h} /\ inactive' = {}
          /\ note' = {<<h, "UNSUBSCRIBE">>}
          /\ state \in {"Pending", "Acquired"}
          /\ \/ subs' = {} /\ state' = "Released" /\ req' = "RELEASE"
             \/ subs' # {} /\ state' = state /\ req' = "NONE"
      BY <1>2, <2>1, UnsubscribeCases
    <3>2. "UNSUBSCRIBE" \in SM!Statuses /\ \A k, t : <<k, t>> \in note' => t = "UNSUBSCRIBE"
      BY <3>1 DEF SM!Statuses
    <3>3. /\ phase' \in [Handles -> Phases]
          /\ phase'[h] = Closed(phase[h])
          /\ \A k \in Handles : k # h => phase'[k] = phase[k]
      BY <1>2, <2>1, <3>1, <3>2, ToldPhases
    <3>4. afw' \in Seq({"REQUEST", "RELEASE"}) /\ (req' = "NONE" => afw' = afw)
      BY <1>2, <2>1, <3>1, AppendProperties DEF FrameworkAsked, TypeOK
    <3>5. SM!TypeOK'
      BY <1>2, <3>1
         DEF TypeOK, SM!TypeOK, SM!States, SM!Statuses, SM!Events, SM!Requests
    <3>6. QED
      BY <3>1, <3>3, <3>4, <3>5
  <2>2. CASE /\ h \notin subs
             /\ phase' = [phase EXCEPT ![h] = Closed(@)]
             /\ Quiet
             /\ UNCHANGED <<machine, afw>>
    <3>1. SM!TypeOK'
      BY <1>2, <2>2 DEF TypeOK, SM!TypeOK, SM!Requests, machine, Quiet
    <3>2. Closed(phase[h]) \in Phases
      BY <1>2 DEF TypeOK, Closed, Phases
    <3>3. QED
      BY <1>2, <2>2, <3>1, <3>2 DEF TypeOK, MachineIsBase, machine
  <2>3. QED
    BY <2>1, <2>2 DEF ReleaseATL
<1>5. TypeOK'
  BY <1>1, <1>2, <1>3, <1>4 DEF TypeOK
<1>6. ClientsAreCounted'
  <2>1. OpenIsCounted'
    BY <1>4 DEF IInv, ClientsAreCounted, OpenIsCounted, Closed
  <2>2. NobodyWaitsInAcquired'
    BY <1>2, <1>4
       DEF IInv, ClientsAreCounted, NobodyWaitsInAcquired, TypeOK, SM!TypeOK
  <2>3. QED
    BY <1>5, <2>1, <2>2 DEF ClientsAreCounted
<1>7. MachineIsBase'
  BY <1>2, <1>4 DEF MachineIsBase
<1>8. /\ RequestsComeFirst'
      /\ \A i \in DOMAIN queue' : queue'[i] # Request(h)
  BY <1>1, TakeKeepsOrder DEF m
<1>9. DownTillUp'
  BY <1>3, <1>4 DEF IInv, DownTillUp, Closed
<1>10. RequestedIsNew'
  BY <1>3, <1>4 DEF IInv, RequestedIsNew
<1>11. IdleIsForgotten'
  BY <1>3, <1>4, <1>8 DEF IInv, IdleIsForgotten
<1>12. PendingIsAnswered'
  <2>1. m \notin {Event("GRANTED"), Event("DENIED")}
    BY DEF m, Release, Event
  <2>2. QED
    BY <1>1, <1>3, <1>4, <2>1 DEF IInv, PendingIsAnswered
<1>13. HeldOrLost'
  <2>1. m # Event("RELEASED")
    BY DEF m, Release, Event
  <2>2. QED
    BY <1>1, <1>4, <2>1, TakeKeepsLoss DEF IInv, HeldOrLost
<1>14. QED
  BY <1>6, <1>7, <1>8, <1>9, <1>10, <1>11, <1>12, <1>13 DEF IInv

\* The engine takes an event of the framework.
LEMMA AtlEventKeepsIInv ==
  ASSUME IInv, NEW e \in SM!Events, AtlEvent(e)
  PROVE  IInv'
<1> DEFINE m == Event(e)
<1>1. /\ Takes(m) /\ SM!OnRsrcEvent(e)
      /\ ClientsTold /\ FrameworkAsked /\ UNCHANGED <<conn, crashes>>
  BY DEF AtlEvent, Event
<1>2. TypeOK /\ MachineIsBase
  BY DEF IInv, ClientsAreCounted
<1> HIDE DEF m
<1>3. /\ queue' \in Seq(Messages)
      /\ queue[1] = m
      /\ DOMAIN queue = 1..Len(queue) /\ Len(queue) \in Nat \ {0}
      /\ DOMAIN queue' = 1..(Len(queue) - 1)
      /\ \A i \in DOMAIN queue' : i + 1 \in DOMAIN queue /\ queue'[i] = queue[i + 1]
      /\ \A i \in DOMAIN queue :
           i # 1 => i - 1 \in DOMAIN queue' /\ queue'[i - 1] = queue[i]
  BY <1>1, <1>2, TakeFacts DEF TypeOK
<1>4. /\ inactive' = {} /\ req' = "NONE"
      /\ \/ /\ state = "Pending" /\ e = "GRANTED" /\ state' = "Acquired"
            /\ subs' = subs /\ note' = subs \X {"GRANTED"}
         \/ /\ state = "Pending" /\ e = "DENIED" /\ state' = "Released"
            /\ subs' = {} /\ note' = subs \X {"DENIED"}
         \/ /\ state = "Acquired" /\ e = "RELEASED" /\ state' = "Released"
            /\ subs' = {} /\ note' = subs \X {"RELEASED"}
         \/ /\ state' = state /\ subs' = subs /\ note' = {}
            /\ state = "Pending" => e = "RELEASED"
            /\ state = "Acquired" => e # "RELEASED"
  BY <1>1, <1>2, EventCases
<1>5. subs \subseteq Handles /\ e \in SM!Statuses
  BY <1>2 DEF TypeOK, SM!TypeOK, SM!Statuses
<1>6. afw' = afw
  BY <1>1, <1>4 DEF FrameworkAsked
<1>7. /\ phase' \in [Handles -> Phases]
      /\ \A k \in Handles :
           /\ k \notin subs \/ state' = state => phase'[k] = phase[k]
           /\ k \in subs /\ state' # state =>
                phase'[k] = IF e = "GRANTED" THEN Opened(phase[k])
                            ELSE IF e = "DENIED" THEN Refused(phase[k])
                            ELSE Closed(phase[k])
  <2>1. \A k, t : <<k, t>> \in note' => t = e
    BY <1>4
  <2>2. \A k \in Handles : <<k, e>> \in note' <=> k \in subs /\ state' # state
    BY <1>4
  <2>3. QED
    BY <1>1, <1>2, <1>5, <2>1, <2>2, ToldPhases DEF SM!Events
<1>8. TypeOK'
  BY <1>1, <1>2, <1>3, <1>4, <1>5, <1>6, <1>7
     DEF TypeOK, SM!TypeOK, SM!States, SM!Statuses, SM!Events, SM!Requests
<1>9. ClientsAreCounted'
  <2>1. OpenIsCounted'
    BY <1>4, <1>5, <1>7
       DEF IInv, ClientsAreCounted, OpenIsCounted, Opened, Refused, Closed
  <2>2. NobodyWaitsInAcquired'
    BY <1>4, <1>5, <1>7
       DEF IInv, ClientsAreCounted, NobodyWaitsInAcquired, Opened
  <2>3. QED
    BY <1>8, <2>1, <2>2 DEF ClientsAreCounted
<1>10. MachineIsBase'
  BY <1>2, <1>4 DEF MachineIsBase
<1>11. RequestsComeFirst'
  BY <1>1, TakeKeepsOrder
<1>12. DownTillUp'
  BY <1>3, <1>5, <1>7 DEF IInv, DownTillUp, Opened, Refused, Closed
<1>13. RequestedIsNew'
  BY <1>3, <1>4 DEF IInv, RequestedIsNew
<1>14. IdleIsForgotten'
  <2> SUFFICES ASSUME NEW k \in Handles, phase'[k] = "idle"
               PROVE  k \notin subs' /\ \A i \in DOMAIN queue' : queue'[i] # Request(k)
    BY DEF IdleIsForgotten
  <2>1. CASE phase[k] = "idle"
    BY <1>3, <1>4, <2>1 DEF IInv, IdleIsForgotten
  <2>2. CASE phase[k] # "idle"
    <3>1. k \in subs /\ subs' = {}
      BY <1>4, <1>5, <1>7, <2>2 DEF Opened, Refused, Closed
    <3>2. QED
      BY <1>3, <3>1 DEF IInv, RequestedIsNew
  <2>3. QED
    BY <2>1, <2>2
<1>15. PendingIsAnswered'
  <2>1. state' = "Pending" => m \notin {Event("GRANTED"), Event("DENIED")}
    BY <1>4 DEF m, Event
  <2>2. QED
    BY <1>1, <1>3, <1>4, <1>6, <2>1 DEF IInv, PendingIsAnswered
<1>16. HeldOrLost'
  <2>1. CASE state = "Acquired" /\ state' = "Acquired"
    <3>1. m # Event("RELEASED")
      BY <1>4, <2>1 DEF m, Event
    <3>2. QED
      BY <1>1, <2>1, <3>1, TakeKeepsLoss DEF IInv, HeldOrLost
  <2>2. CASE state # "Acquired" /\ state' = "Acquired"
    <3>1. m = Event("GRANTED")
      BY <1>4, <2>2 DEF m
    <3>2. QED
      BY <1>1, <3>1, TakeKeepsLoss DEF HeldOrLost
  <2>3. CASE state' # "Acquired"
    BY <1>1, <2>3, TakeKeepsLoss DEF HeldOrLost
  <2>4. QED
    BY <2>1, <2>2, <2>3
<1>17. QED
  BY <1>9, <1>10, <1>11, <1>12, <1>13, <1>14, <1>15, <1>16 DEF IInv

\* The engine is told of the restart.
LEMMA EngineUpKeepsIInv ==
  ASSUME IInv, EngineUp
  PROVE  IInv'
<1>1. /\ Takes(Up) /\ UNCHANGED <<afw, conn, crashes, state>>
      /\ subs' = {} /\ inactive' = {} /\ note' = {} /\ req' = "NONE"
      /\ phase' = [h \in Handles |-> "idle"]
  BY DEF EngineUp, Up, SM!DropAllSubscribers
<1>2. TypeOK /\ MachineIsBase
  BY DEF IInv, ClientsAreCounted
<1>3. /\ queue' \in Seq(Messages)
      /\ queue[1] = Up
      /\ \A i \in DOMAIN queue : i # 1 => i - 1 \in DOMAIN queue' /\ queue'[i - 1] = queue[i]
  BY <1>1, <1>2, TakeFacts DEF TypeOK
<1>4. /\ RequestsComeFirst'
      /\ \A h \in Handles, i \in DOMAIN queue' : queue'[i] \notin {Up, Request(h)}
  BY <1>1, TakeKeepsOrder
<1>5. TypeOK'
  BY <1>1, <1>2, <1>3 DEF TypeOK, Phases, SM!TypeOK, SM!Requests
<1>6. ClientsAreCounted'
  BY <1>1, <1>5 DEF ClientsAreCounted, OpenIsCounted, NobodyWaitsInAcquired
<1>7. MachineIsBase' /\ DownTillUp' /\ RequestedIsNew' /\ IdleIsForgotten'
  BY <1>1, <1>2, <1>4
     DEF MachineIsBase, DownTillUp, RequestedIsNew, IdleIsForgotten
<1>8. PendingIsAnswered'
  <2>1. Up \notin {Event("GRANTED"), Event("DENIED")}
    BY DEF Up, Event
  <2>2. QED
    BY <1>1, <1>3, <2>1 DEF IInv, PendingIsAnswered
<1>9. HeldOrLost'
  <2>1. Up # Event("RELEASED")
    BY DEF Up, Event
  <2>2. QED
    BY <1>1, <2>1, TakeKeepsLoss DEF IInv, HeldOrLost
<1>10. QED
  BY <1>4, <1>6, <1>7, <1>8, <1>9 DEF IInv

\* What a message of the modem leaves of the conjuncts about the framework.
LEMMA ModemKeepsFramework ==
  ASSUME IInv, NEW m \in Messages, Send(m), UNCHANGED <<machine, afw, conn>>,
         \A e : m # Event(e)
  PROVE  MachineIsBase' /\ PendingIsAnswered' /\ HeldOrLost'
<1>1. /\ DOMAIN queue = 1..Len(queue) /\ Len(queue) \in Nat
      /\ DOMAIN queue' = 1..(Len(queue) + 1)
      /\ \A i \in DOMAIN queue : queue'[i] = queue[i]
      /\ queue'[Len(queue) + 1] = m
  BY SendFacts DEF IInv, ClientsAreCounted, TypeOK
<1>2. /\ \A i \in DOMAIN queue : i \in DOMAIN queue' /\ queue'[i] = queue[i]
      /\ \A i \in DOMAIN queue' : i \in DOMAIN queue \/ queue'[i] = m
  BY <1>1
<1>3. MachineIsBase' /\ PendingIsAnswered'
  BY <1>2 DEF IInv, MachineIsBase, PendingIsAnswered, machine
<1>4. HeldOrLost'
  BY <1>2 DEF IInv, HeldOrLost, machine
<1>5. QED
  BY <1>3, <1>4

\* A client asks for the link.
LEMMA ModemRequestsKeepsIInv ==
  ASSUME IInv, NEW h \in Handles, ModemRequests(h)
  PROVE  IInv'
<1>1. /\ Send(Request(h)) /\ phase[h] = "idle"
      /\ \A i \in DOMAIN queue : queue[i][2] # h
      /\ phase' = [phase EXCEPT ![h] = "requesting"]
      /\ note' = {} /\ req' = "NONE"
      /\ UNCHANGED <<machine, afw, conn, crashes>>
  BY DEF ModemRequests, Request, Quiet
<1>2. TypeOK /\ MachineIsBase
  BY DEF IInv, ClientsAreCounted
<1>3. Request(h) \in Messages /\ \A e : Request(h) # Event(e)
  BY DEF Request, Event, Messages
<1>4. /\ queue' \in Seq(Messages)
      /\ DOMAIN queue = 1..Len(queue) /\ Len(queue) \in Nat
      /\ DOMAIN queue' = 1..(Len(queue) + 1)
      /\ \A i \in DOMAIN queue : queue'[i] = queue[i]
      /\ queue'[Len(queue) + 1] = Request(h)
  BY <1>1, <1>2, <1>3, SendFacts DEF TypeOK
<1>5. \A i \in DOMAIN queue : queue[i] \notin {Request(h), Release(h), Up}
  <2>1. \A i \in DOMAIN queue : queue[i] # Up
    BY <1>1 DEF IInv, DownTillUp
  <2>2. QED
    BY <1>1, <2>1 DEF Request, Release
<1>6. \A k \in Handles : k # h => phase'[k] = phase[k] /\ Request(k) # Request(h)
  BY <1>1, <1>2 DEF TypeOK, Request
<1>7. phase' \in [Handles -> Phases] /\ phase'[h] = "requesting"
  BY <1>1, <1>2 DEF TypeOK, Phases
<1>8. h \notin subs
  BY <1>1 DEF IInv, IdleIsForgotten
<1>9. ClientsAreCounted'
  <2>1. TypeOK'
    BY <1>1, <1>2, <1>4, <1>7 DEF TypeOK, SM!TypeOK, SM!Requests, machine
  <2>2. OpenIsCounted'
    BY <1>1, <1>6, <1>7 DEF IInv, ClientsAreCounted, OpenIsCounted, machine
  <2>3. NobodyWaitsInAcquired'
    BY <1>1, <1>2, <1>6, <1>8
       DEF IInv, ClientsAreCounted, NobodyWaitsInAcquired, machine, TypeOK, SM!TypeOK
  <2>4. QED
    BY <2>1, <2>2, <2>3 DEF ClientsAreCounted
<1>10. RequestsComeFirst'
  <2> SUFFICES ASSUME NEW k \in Handles, NEW i \in DOMAIN queue', NEW j \in DOMAIN queue',
                      i < j, queue'[j] = Request(k)
               PROVE  queue'[i] \notin {Request(k), Release(k), Up}
    BY DEF RequestsComeFirst
  <2>1. i \in DOMAIN queue /\ queue'[i] = queue[i]
    BY <1>4
  <2>2. CASE j \in DOMAIN queue
    BY <1>4, <2>1, <2>2 DEF IInv, RequestsComeFirst
  <2>3. CASE j = Len(queue) + 1
    BY <1>4, <1>5, <1>6, <2>1, <2>3
  <2>4. QED
    BY <1>4, <2>2, <2>3
<1>11. DownTillUp'
  <2>1. Request(h) # Up /\ \A i \in DOMAIN queue : queue[i] # Up
    BY <1>5 DEF Request, Up
  <2>2. \A i \in DOMAIN queue' : queue'[i] # Up
    BY <1>4, <2>1
  <2>3. QED
    BY <2>2 DEF DownTillUp
<1>12. RequestedIsNew' /\ IdleIsForgotten'
  BY <1>1, <1>4, <1>6, <1>7, <1>8
     DEF IInv, RequestedIsNew, IdleIsForgotten, machine
<1>13. MachineIsBase' /\ PendingIsAnswered' /\ HeldOrLost'
  BY <1>1, <1>3, ModemKeepsFramework
<1>14. QED
  BY <1>9, <1>10, <1>11, <1>12, <1>13 DEF IInv

\* A client is done with the link, or gives up.
LEMMA ModemReleasesKeepsIInv ==
  ASSUME IInv, NEW h \in Handles, ModemReleases(h)
  PROVE  IInv'
<1>1. /\ Send(Release(h)) /\ phase[h] \in {"requesting", "open"}
      /\ phase' = [phase EXCEPT ![h] = "releasing"]
      /\ note' = {} /\ req' = "NONE"
      /\ UNCHANGED <<machine, afw, conn, crashes>>
  BY DEF ModemReleases, Release, Quiet
<1>2. TypeOK /\ MachineIsBase
  BY DEF IInv, ClientsAreCounted
<1>3. /\ Release(h) \in Messages /\ Release(h) # Up
      /\ \A e : Release(h) # Event(e)
      /\ \A k : Release(h) # Request(k)
  BY DEF Release, Request, Event, Up, Messages
<1>4. /\ queue' \in Seq(Messages)
      /\ DOMAIN queue = 1..Len(queue) /\ Len(queue) \in Nat
      /\ DOMAIN queue' = 1..(Len(queue) + 1)
      /\ \A i \in DOMAIN queue : queue'[i] = queue[i]
      /\ queue'[Len(queue) + 1] = Release(h)
  BY <1>1, <1>2, <1>3, SendFacts DEF TypeOK
<1>5. /\ phase' \in [Handles -> Phases] /\ phase'[h] = "releasing"
      /\ \A k \in Handles : k # h => phase'[k] = phase[k]
  BY <1>1, <1>2 DEF TypeOK, Phases
<1>6. ClientsAreCounted'
  <2>1. TypeOK'
    BY <1>1, <1>2, <1>4, <1>5 DEF TypeOK, SM!TypeOK, SM!Requests, machine
  <2>2. OpenIsCounted'
    BY <1>1, <1>5 DEF IInv, ClientsAreCounted, OpenIsCounted, machine
  <2>3. NobodyWaitsInAcquired'
    BY <1>1, <1>2, <1>5
       DEF IInv, ClientsAreCounted, NobodyWaitsInAcquired, machine, TypeOK, SM!TypeOK
  <2>4. QED
    BY <2>1, <2>2, <2>3 DEF ClientsAreCounted
<1>7. RequestsComeFirst'
  BY <1>3, <1>4 DEF IInv, RequestsComeFirst
<1>8. DownTillUp'
  <2>1. \A i \in DOMAIN queue : queue[i] # Up
    BY <1>1 DEF IInv, DownTillUp
  <2>2. \A i \in DOMAIN queue' : queue'[i] # Up
    BY <1>3, <1>4, <2>1
  <2>3. QED
    BY <2>2 DEF DownTillUp
<1>9. RequestedIsNew' /\ IdleIsForgotten'
  BY <1>1, <1>3, <1>4, <1>5 DEF IInv, RequestedIsNew, IdleIsForgotten, machine
<1>10. MachineIsBase' /\ PendingIsAnswered' /\ HeldOrLost'
  BY <1>1, <1>3, ModemKeepsFramework
<1>11. QED
  BY <1>6, <1>7, <1>8, <1>9, <1>10 DEF IInv

\* The modem restarts.
LEMMA ModemRestartsKeepsIInv ==
  ASSUME IInv, ModemRestarts
  PROVE  IInv'
<1>1. /\ Send(Up) /\ crashes < MaxCrashes /\ crashes' = crashes + 1
      /\ \A h \in Handles : phase[h] # "down"
      /\ phase' = [h \in Handles |-> "down"]
      /\ note' = {} /\ req' = "NONE"
      /\ UNCHANGED <<machine, afw, conn>>
  BY DEF ModemRestarts, Up, Quiet
<1>2. TypeOK /\ MachineIsBase
  BY DEF IInv, ClientsAreCounted
<1>3. /\ Up \in Messages
      /\ \A e : Up # Event(e)
      /\ \A k : Up # Request(k)
  BY DEF Request, Event, Up, Messages
<1>4. /\ queue' \in Seq(Messages)
      /\ DOMAIN queue = 1..Len(queue) /\ Len(queue) \in Nat
      /\ DOMAIN queue' = 1..(Len(queue) + 1)
      /\ \A i \in DOMAIN queue : queue'[i] = queue[i]
      /\ queue'[Len(queue) + 1] = Up
  BY <1>1, <1>2, <1>3, SendFacts DEF TypeOK
<1>5. ClientsAreCounted'
  <2>1. crashes' \in 0..MaxCrashes
    BY <1>1, <1>2, NifAssumption DEF TypeOK
  <2>2. TypeOK'
    BY <1>1, <1>2, <1>4, <2>1
       DEF TypeOK, Phases, SM!TypeOK, SM!Requests, machine
  <2>3. OpenIsCounted' /\ NobodyWaitsInAcquired'
    BY <1>1, <2>2 DEF OpenIsCounted, NobodyWaitsInAcquired, TypeOK, SM!TypeOK
  <2>4. QED
    BY <2>2, <2>3 DEF ClientsAreCounted
<1>6. RequestsComeFirst'
  BY <1>3, <1>4 DEF IInv, RequestsComeFirst
<1>7. DownTillUp'
  <2>1. \A h \in Handles, i \in DOMAIN queue : queue[i] # Up
    BY <1>1 DEF IInv, DownTillUp
  <2>2. \A h \in Handles, i \in DOMAIN queue' : queue'[i] = Up => i = Len(queue) + 1
    BY <1>4, <2>1
  <2>3. QED
    BY <1>1, <2>2 DEF DownTillUp
<1>8. RequestedIsNew' /\ IdleIsForgotten'
  BY <1>1, <1>3, <1>4 DEF IInv, RequestedIsNew, IdleIsForgotten, machine
<1>9. MachineIsBase' /\ PendingIsAnswered' /\ HeldOrLost'
  BY <1>1, <1>3, ModemKeepsFramework
<1>10. QED
  BY <1>5, <1>6, <1>7, <1>8, <1>9 DEF IInv

\* What a step of the framework leaves of the conjuncts about the clients.
LEMMA FrameworkKeepsClients ==
  ASSUME IInv, Quiet, UNCHANGED <<machine, phase, crashes>>,
         afw' \in Seq({"REQUEST", "RELEASE"}), conn' \in Conns,
         (queue' = queue) \/ (\E e \in SM!Events : Send(Event(e)))
  PROVE  /\ ClientsAreCounted' /\ MachineIsBase' /\ RequestsComeFirst'
         /\ DownTillUp' /\ RequestedIsNew' /\ IdleIsForgotten'
<1>1. /\ queue' \in Seq(Messages)
      /\ RequestsComeFirst' /\ DownTillUp' /\ RequestedIsNew' /\ IdleIsForgotten'
  <2>1. CASE queue' = queue
    BY <2>1
       DEF IInv, ClientsAreCounted, TypeOK, RequestsComeFirst, DownTillUp,
           RequestedIsNew, IdleIsForgotten, machine
  <2>2. CASE \E e \in SM!Events : Send(Event(e))
    BY <2>2, EventKeepsOrder DEF machine
  <2>3. QED
    BY <2>1, <2>2
<1>2. TypeOK'
  BY <1>1 DEF IInv, ClientsAreCounted, TypeOK, SM!TypeOK, SM!Requests, machine, Quiet
<1>3. ClientsAreCounted' /\ MachineIsBase'
  BY <1>2
     DEF IInv, ClientsAreCounted, OpenIsCounted, NobodyWaitsInAcquired,
         MachineIsBase, machine
<1>4. QED
  BY <1>1, <1>3

\* What the framework does to its requests when it takes one.
LEMMA AfwTakeFacts ==
  ASSUME TypeOK, afw # <<>>, afw' = Tail(afw)
  PROVE  /\ afw' \in Seq({"REQUEST", "RELEASE"})
         /\ afw' = <<>> => afw[Len(afw)] = Head(afw)
         /\ afw' # <<>> => afw'[Len(afw')] = afw[Len(afw)]
<1>1. /\ afw' \in Seq({"REQUEST", "RELEASE"}) /\ Len(afw') = Len(afw) - 1
      /\ \A i \in 1..Len(afw') : afw'[i] = afw[i + 1]
  BY HeadTailProperties DEF TypeOK
<1>2. Len(afw) \in Nat \ {0}
  BY EmptySeq DEF TypeOK
<1>3. afw' = <<>> => Len(afw) = 1
  <2>1. afw' = <<>> => Len(afw') = 0
    OBVIOUS
  <2>2. QED
    BY <1>1, <1>2, <2>1
<1>4. afw' # <<>> => Len(afw') \in Nat \ {0}
  BY <1>1, EmptySeq
<1>5. afw' # <<>> => afw'[Len(afw')] = afw[Len(afw)]
  BY <1>1, <1>2, <1>4
<1>6. QED
  BY <1>1, <1>3, <1>5

\* Each step of the framework.
LEMMA FrameworkKeepsIInv ==
  ASSUME IInv, Framework \/ AfwLosesNetwork
  PROVE  IInv'
<1> DEFINE clients ==
      /\ ClientsAreCounted' /\ MachineIsBase' /\ RequestsComeFirst'
      /\ DownTillUp' /\ RequestedIsNew' /\ IdleIsForgotten'
<1>1. TypeOK
  BY DEF IInv, ClientsAreCounted
<1>2. \A e \in {"GRANTED", "DENIED", "RELEASED"} : e \in SM!Events
  BY DEF SM!Events
<1>3. ASSUME NEW e \in SM!Events, Send(Event(e))
      PROVE  /\ DOMAIN queue = 1..Len(queue) /\ Len(queue) \in Nat
             /\ DOMAIN queue' = 1..(Len(queue) + 1)
             /\ \A i \in DOMAIN queue : queue'[i] = queue[i]
             /\ queue'[Len(queue) + 1] = Event(e)
  <2>1. Event(e) \in Messages
    BY DEF Event, Messages
  <2>2. QED
    BY <1>1, <1>3, <2>1, SendFacts DEF TypeOK
<1>4. Event("GRANTED") # Event("RELEASED") /\ Event("DENIED") # Event("GRANTED")
  BY DEF Event
<1>5. CASE AfwTakesRequest
  <2>1. /\ afw # <<>> /\ Head(afw) = "REQUEST" /\ afw' = Tail(afw)
        /\ Quiet /\ UNCHANGED <<machine, phase, crashes>>
        /\ \/ conn = "open" /\ conn' = "open" /\ Send(Event("GRANTED"))
           \/ conn # "open" /\ conn' = "opening" /\ queue' = queue
    BY <1>5 DEF AfwTakesRequest, Answers, Event
  <2>2. /\ afw' \in Seq({"REQUEST", "RELEASE"})
        /\ afw' # <<>> => afw'[Len(afw')] = afw[Len(afw)]
    BY <1>1, <2>1, AfwTakeFacts
  <2>3. clients
    BY <1>2, <2>1, <2>2, FrameworkKeepsClients DEF Conns
  <2>4. CASE conn = "open" /\ conn' = "open" /\ Send(Event("GRANTED"))
    <3>1. /\ Len(queue) + 1 \in DOMAIN queue'
          /\ queue'[Len(queue) + 1] = Event("GRANTED")
      BY <1>2, <1>3, <2>4
    <3>2. PendingIsAnswered' /\ HeldOrLost'
      BY <2>4, <3>1 DEF PendingIsAnswered, HeldOrLost
    <3>3. QED
      BY <2>3, <3>2 DEF IInv
  <2>5. CASE conn # "open" /\ conn' = "opening" /\ queue' = queue
    <3>1. PendingIsAnswered'
      BY <2>1, <2>2, <2>5 DEF IInv, PendingIsAnswered, machine
    <3>2. HeldOrLost'
      BY <2>1, <2>5 DEF IInv, HeldOrLost, machine
    <3>3. QED
      BY <2>3, <3>1, <3>2 DEF IInv
  <2>6. QED
    BY <2>1, <2>4, <2>5
<1>6. CASE AfwTakesRelease
  <2>1. /\ afw # <<>> /\ Head(afw) = "RELEASE" /\ afw' = Tail(afw)
        /\ Quiet /\ UNCHANGED <<machine, phase, crashes>>
        /\ \/ conn' = "closed" /\ Send(Event("RELEASED"))
           \/ conn = "closed" /\ conn' = "closed" /\ queue' = queue
    BY <1>6 DEF AfwTakesRelease, Answers, Event
  <2>2. /\ afw' \in Seq({"REQUEST", "RELEASE"})
        /\ afw' = <<>> => afw[Len(afw)] = "RELEASE"
        /\ afw' # <<>> => afw'[Len(afw')] = afw[Len(afw)]
    BY <1>1, <2>1, AfwTakeFacts
  <2>3. clients
    BY <1>2, <2>1, <2>2, FrameworkKeepsClients DEF Conns
  <2>4. CASE conn' = "closed" /\ Send(Event("RELEASED"))
    <3>1. PendingIsAnswered'
      BY <1>2, <1>3, <2>1, <2>2, <2>4 DEF IInv, PendingIsAnswered, machine
    <3>2. HeldOrLost'
      BY <1>2, <1>3, <1>4, <2>4 DEF HeldOrLost
    <3>3. QED
      BY <2>3, <3>1, <3>2 DEF IInv
  <2>5. CASE conn = "closed" /\ conn' = "closed" /\ queue' = queue
    <3>1. PendingIsAnswered'
      BY <2>1, <2>2, <2>5 DEF IInv, PendingIsAnswered, machine
    <3>2. HeldOrLost'
      BY <2>1, <2>5 DEF IInv, HeldOrLost, machine
    <3>3. QED
      BY <2>3, <3>1, <3>2 DEF IInv
  <2>6. QED
    BY <2>1, <2>4, <2>5
<1>7. CASE AfwOpens
  <2>1. /\ conn' = "open" /\ Send(Event("GRANTED")) /\ afw' = afw
        /\ Quiet /\ UNCHANGED <<machine, phase, crashes>>
    BY <1>7 DEF AfwOpens, Answers, Event
  <2>2. clients
    BY <1>1, <1>2, <2>1, FrameworkKeepsClients DEF Conns, TypeOK
  <2>3. PendingIsAnswered' /\ HeldOrLost'
    BY <1>2, <1>3, <2>1 DEF PendingIsAnswered, HeldOrLost
  <2>4. QED
    BY <2>2, <2>3 DEF IInv
<1>8. CASE AfwFails
  <2>1. /\ conn = "opening" /\ conn' = "closed" /\ Send(Event("DENIED")) /\ afw' = afw
        /\ Quiet /\ UNCHANGED <<machine, phase, crashes>>
    BY <1>8 DEF AfwFails, Answers, Event
  <2>2. clients
    BY <1>1, <1>2, <2>1, FrameworkKeepsClients DEF Conns, TypeOK
  <2>3. PendingIsAnswered'
    BY <1>2, <1>3, <2>1 DEF PendingIsAnswered
  <2>4. HeldOrLost'
    BY <1>2, <1>3, <1>4, <2>1 DEF IInv, HeldOrLost, machine
  <2>5. QED
    BY <2>2, <2>3, <2>4 DEF IInv
<1>9. CASE AfwLosesNetwork
  <2>1. /\ conn = "open" /\ conn' = "closed" /\ Send(Event("RELEASED")) /\ afw' = afw
        /\ Quiet /\ UNCHANGED <<machine, phase, crashes>>
    BY <1>9 DEF AfwLosesNetwork, Answers, Event
  <2>2. clients
    BY <1>1, <1>2, <2>1, FrameworkKeepsClients DEF Conns, TypeOK
  <2>3. PendingIsAnswered'
    BY <1>2, <1>3, <2>1 DEF IInv, PendingIsAnswered, machine
  <2>4. HeldOrLost'
    BY <1>2, <1>3, <1>4, <2>1 DEF HeldOrLost
  <2>5. QED
    BY <2>2, <2>3, <2>4 DEF IInv
<1>10. QED
  BY <1>5, <1>6, <1>7, <1>8, <1>9 DEF Framework

\* Every step of the system keeps the invariant.
LEMMA StepKeepsIInv ==
  ASSUME IInv, [Next]_vars
  PROVE  IInv'
<1>1. CASE UNCHANGED vars
  <2>1. TypeOK'
    BY <1>1 DEF vars, IInv, ClientsAreCounted, TypeOK, SM!TypeOK
  <2>2. QED
    BY <1>1, <2>1
       DEF vars, IInv, ClientsAreCounted, OpenIsCounted, NobodyWaitsInAcquired,
           MachineIsBase, RequestsComeFirst, DownTillUp, RequestedIsNew,
           IdleIsForgotten, PendingIsAnswered, HeldOrLost
<1>2. CASE Next
  BY <1>2, ModemRequestsKeepsIInv, ModemReleasesKeepsIInv, ModemRestartsKeepsIInv,
     RequestKeepsIInv, ReleaseKeepsIInv, AtlEventKeepsIInv, EngineUpKeepsIInv,
     FrameworkKeepsIInv
     DEF Next, LocEngThread
<1>3. QED
  BY <1>1, <1>2

\* The invariant holds in every reachable state.
LEMMA IInvHolds == Spec => []IInv
<1>1. Init => IInv
  <2> SUFFICES ASSUME Init PROVE IInv
    OBVIOUS
  <2>1. DOMAIN queue = {} /\ queue \in Seq(Messages)
    BY DEF Init
  <2>2. TypeOK
    BY <2>1, NifAssumption
       DEF Init, TypeOK, SM!Init, SM!TypeOK, SM!States, SM!Requests, Phases, Conns
  <2>3. QED
    BY <2>1, <2>2
       DEF Init, SM!Init, IInv, ClientsAreCounted, OpenIsCounted,
           NobodyWaitsInAcquired, MachineIsBase, RequestsComeFirst, DownTillUp,
           RequestedIsNew, IdleIsForgotten, PendingIsAnswered, HeldOrLost
<1>2. IInv /\ [Next]_vars => IInv'
  BY StepKeepsIInv
<1>3. QED
  BY <1>1, <1>2, PTL DEF Spec

-----------------------------------------------------------------------------
(* Results. *)

\* The machine counts every client that was told it has the link, and while
\* it holds the connection nobody on its list still waits: for any number of
\* clients, with restarts of the modem and losses of the network at any point.
THEOREM ClientsCounted == Spec => []ClientsAreCounted
<1>1. IInv => ClientsAreCounted
  BY DEF IInv
<1>2. QED
  BY <1>1, IInvHolds, PTL

\* Once no message is under way, the machine neither waits for the framework
\* nor believes in a connection that is gone.
THEOREM SettledAgree == Spec => []SettledAgrees
<1>1. IInv => SettledAgrees
  <2> SUFFICES ASSUME IInv, ~InFlight
               PROVE  state # "Pending" /\ (state = "Acquired" => conn = "open")
    BY DEF SettledAgrees
  <2>1. queue = <<>> /\ afw = <<>> /\ conn # "opening"
    BY DEF InFlight
  <2>2. DOMAIN queue = {}
    BY <2>1
  <2>3. QED
    BY <2>1, <2>2 DEF IInv, PendingIsAnswered, HeldOrLost
<1>2. QED
  BY <1>1, IInvHolds, PTL

\* The connection is given back only when no client has it open.
THEOREM ReleasedWhenUnused == Spec => ReleaseWhenUnused
<1>1. ASSUME IInv, IInv', [Next]_vars
      PROVE  [req' = "RELEASE" => \A h \in Handles : phase'[h] # "open"]_vars
  <2> SUFFICES ASSUME Next, req' = "RELEASE"
               PROVE  state' = "Released"
    BY <1>1 DEF IInv, ClientsAreCounted, OpenIsCounted
  <2>1. TypeOK /\ MachineIsBase
    BY <1>1 DEF IInv, ClientsAreCounted
  <2>2. ASSUME NEW h \in Handles, RequestATL(h)
        PROVE  FALSE
    BY <2>1, <2>2, SubscribeCases DEF RequestATL
  <2>3. ASSUME NEW h \in Handles, ReleaseATL(h)
        PROVE  state' = "Released"
    BY <2>1, <2>3, UnsubscribeCases DEF ReleaseATL, Quiet
  <2>4. ASSUME NEW e \in SM!Events, AtlEvent(e)
        PROVE  FALSE
    BY <2>1, <2>4, EventCases DEF AtlEvent
  <2>5. ~EngineUp
    BY DEF EngineUp, SM!DropAllSubscribers
  <2>6. ~Quiet
    BY DEF Quiet
  <2>7. QED
    BY <2>2, <2>3, <2>4, <2>5, <2>6
       DEF Next, LocEngThread, Framework, ModemRequests, ModemReleases,
           ModemRestarts, AfwTakesRequest, AfwTakesRelease, AfwOpens, AfwFails,
           AfwLosesNetwork, Answers
<1>2. QED
  BY <1>1, IInvHolds, PTL DEF Spec, ReleaseWhenUnused
=============================================================================

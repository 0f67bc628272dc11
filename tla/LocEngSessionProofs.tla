------------------------- MODULE LocEngSessionProofs -------------------------
(* Proofs about LocEngSession, for any bound on the queue and the restarts. *)
EXTENDS LocEngSession, TLAPS

\* Taking the head of the queue leaves a queue of messages.
LEMMA TailTyped ==
  ASSUME NEW S, NEW q \in Seq(S), q # <<>>
  PROVE  Tail(q) \in Seq(S)
  OBVIOUS

\* Posting a message leaves a queue of messages.
LEMMA AppendTyped ==
  ASSUME NEW S, NEW q \in Seq(S), NEW m \in S
  PROVE  Append(q, m) \in Seq(S)
  OBVIOUS

\* The type invariant, and with it that a start that was given to the modem
\* left the session open or on record as refused (loc_eng_start_handler()).
THEOREM SessionTypes == Spec => []TypeOK
<1>1. Init => TypeOK
  <2>1. Init => queue \in Seq(Messages) /\ crashes \in 0..MaxCrashes
    BY SessionAssumption DEF Init
  <2> QED
    BY <2>1 DEF Init, TypeOK, Modes
<1>2. TypeOK /\ [Next]_vars => TypeOK'
  <2> SUFFICES ASSUME TypeOK, [Next]_vars PROVE TypeOK'
    OBVIOUS
  <2> USE SessionAssumption DEF TypeOK, Modes, session
  <2>1. \A m \in Messages : Post(m) => queue' \in Seq(Messages)
    BY AppendTyped DEF Post
  <2>2. \A m : Takes(m) => queue' \in Seq(Messages)
    BY TailTyped DEF Takes
  <2>3. /\ {"MODE", "START", "STOP", "UP"} \X {"-"} \subseteq Messages
        /\ {"POSITION"} \X Fixes \subseteq Messages
    BY DEF Messages
  <2>4. CASE Framework
    <3>1. queue' \in Seq(Messages)
      BY <2>1, <2>3, <2>4 DEF Framework, SetPositionMode, Start, Stop, Cleanup
    <3> QED
      BY <3>1, <2>4 DEF Framework, SetPositionMode, Start, Stop, Cleanup, Post
  <2>5. CASE PositionMode
    BY <2>5, <2>2 DEF PositionMode
  <2>6. CASE StopHandler
    BY <2>6, <2>2 DEF StopHandler, StopFix, LeaveSession
  <2>7. ASSUME NEW r \in Results, StartHandler(r) PROVE TypeOK'
    BY <2>7, <2>2 DEF StartHandler, StartFix, Answers, Results
  <2>8. ASSUME NEW r \in Results, EngineUp(r) PROVE TypeOK'
    BY <2>8, <2>2 DEF EngineUp, StartFix, Answers, Results
  <2>9. ASSUME NEW fix \in Fixes, NEW reported \in BOOLEAN,
               ReportPosition(fix, reported)
        PROVE  TypeOK'
    BY <2>9, <2>2 DEF ReportPosition, StopFix, LeaveSession
  <2>10. ASSUME NEW fix \in Fixes, ModemReports(fix) PROVE TypeOK'
    <3>1. queue' \in Seq(Messages)
      BY <2>1, <2>3, <2>10 DEF ModemReports
    <3> QED
      BY <3>1, <2>10 DEF ModemReports, Post
  <2>11. CASE ModemCrashes
    BY <2>11 DEF ModemCrashes
  <2>12. CASE ModemIsBack
    <3>1. queue' \in Seq(Messages)
      BY <2>1, <2>3, <2>12 DEF ModemIsBack
    <3> QED
      BY <3>1, <2>12 DEF ModemIsBack, Post
  <2>13. CASE UNCHANGED vars
    BY <2>13 DEF vars
  <2> QED
    BY <2>4, <2>5, <2>6, <2>7, <2>8, <2>9, <2>10, <2>11, <2>12, <2>13
    DEF Next, LocEngThread
<1> QED
  BY <1>1, <1>2, PTL DEF Spec

\* In periodic use the modem never works on a fix outside a session, whatever
\* the order of calls, reports, cleanups and restarts: every handler that
\* turns the session flag off stops the fix.
THEOREM PeriodicHasNoOrphan == Spec => []NoPeriodicOrphan
<1>1. Init => NoPeriodicOrphan
  BY DEF Init, NoPeriodicOrphan, NoOrphanFix
<1>2. TypeOK /\ NoPeriodicOrphan /\ [Next]_vars => NoPeriodicOrphan'
  <2> SUFFICES ASSUME TypeOK, NoPeriodicOrphan, [Next]_vars
      PROVE  NoPeriodicOrphan'
    OBVIOUS
  <2> USE DEF NoPeriodicOrphan, NoOrphanFix, Periodic, session
  <2>1. CASE Framework
    BY <2>1 DEF Framework, SetPositionMode, Start, Stop, Cleanup
  <2>2. ASSUME NEW m \in Modes, NEW r \in Results, StartFix(m, r), UNCHANGED recurrence
        PROVE  NoPeriodicOrphan'
    BY <2>2 DEF StartFix, Answers, Results
  <2>3. CASE PositionMode \/ StopHandler
    BY <2>3 DEF PositionMode, StopHandler, StopFix, LeaveSession
  <2>4. ASSUME NEW r \in Results, StartHandler(r) \/ EngineUp(r)
        PROVE  NoPeriodicOrphan'
    BY <2>2, <2>4 DEF StartHandler, EngineUp, TypeOK, Modes
  <2>5. ASSUME NEW fix \in Fixes, NEW reported \in BOOLEAN,
               ReportPosition(fix, reported)
        PROVE  NoPeriodicOrphan'
    BY <2>5 DEF ReportPosition
  <2>6. ASSUME NEW fix \in Fixes, ModemReports(fix) PROVE NoPeriodicOrphan'
    BY <2>6 DEF ModemReports
  <2>7. CASE ModemCrashes \/ ModemIsBack
    BY <2>7 DEF ModemCrashes, ModemIsBack
  <2>8. CASE UNCHANGED vars
    BY <2>8 DEF vars
  <2> QED
    BY <2>1, <2>3, <2>4, <2>5, <2>6, <2>7, <2>8 DEF Next, LocEngThread
<1> QED
  BY <1>1, <1>2, SessionTypes, PTL DEF Spec

\* Both together: what holds of every session at every moment.
THEOREM SessionHolds == Spec => []SessionInv
<1>1. TypeOK /\ NoPeriodicOrphan => SessionInv
  BY DEF SessionInv
<1>2. QED
  BY <1>1, SessionTypes, PeriodicHasNoOrphan, PTL

-----------------------------------------------------------------------------
(* What the messages that wait will have done by the time one is worked off. *)

Commands == {"START", "STOP"}

\* No start or stop waits before place i of the queue q, ...
FreeIn(q, i) == \A k \in DOMAIN q : k < i => q[k][1] \notin Commands

\* ... or a message c is there with none of them after it.
LastIn(q, c, i) ==
  \E k \in DOMAIN q :
    /\ k < i /\ q[k][1] = c
    /\ \A l \in DOMAIN q : k < l /\ l < i => q[l][1] \notin Commands

\* What a message at place i will find: no session, valid criteria, or a session
\* that has been asked for.
StoppedAt(i) == (FreeIn(queue, i) /\ ~navigating) \/ LastIn(queue, "STOP", i)
GivenAt(i)   == (FreeIn(queue, i) /\ mode = "VALID") \/ LastIn(queue, "MODE", i)
StartedAt(i) == (FreeIn(queue, i) /\ (navigating \/ refused)) \/ LastIn(queue, "START", i)

\* The place of the next message.
NextPlace == Len(queue) + 1

\* Every start that waits finds no session, and criteria that are valid.
StartsFit ==
  Periodic /\ ~cleaned =>
    /\ \A i \in DOMAIN queue : queue[i][1] = "START" => StoppedAt(i) /\ GivenAt(i)
    /\ client = "ready" => GivenAt(NextPlace)

\* The last call of the framework is the last that will have been done.
CallsFit ==
  /\ client # "started" /\ ~cleaned => StoppedAt(NextPlace)
  /\ Periodic /\ client = "started" => StartedAt(NextPlace)

\* A session on a modem that works is worked on, or the news of the modem's
\* restart are on their way.
ServedFits ==
  Periodic /\ navigating /\ modem # "down" /\ ~refused =>
    modem = "fixing" \/ \E i \in DOMAIN queue : queue[i][1] = "UP"

SessionIInv == TypeOK /\ StartsFit /\ CallsFit /\ ServedFits

\* A message that is posted comes after those that wait: what they will find is
\* as before, and what a command before it has settled a message that is none
\* leaves as it is.
LEMMA PostPlaces ==
  ASSUME NEW q \in Seq(Messages), NEW m \in Messages, NEW c
  PROVE  LET r == Append(q, m)
             n == Len(q) + 1
         IN  /\ r \in Seq(Messages) /\ Len(r) = n /\ r[n] = m
             /\ \A i \in DOMAIN q : i \in DOMAIN r /\ r[i] = q[i] /\ i \in 1..n
             /\ \A i \in DOMAIN r : i \in DOMAIN q \/ i = n
             /\ \A i \in 1..n : FreeIn(q, i) => FreeIn(r, i)
             /\ \A i \in 1..n : LastIn(q, c, i) => LastIn(r, c, i)
             /\ m[1] \notin Commands /\ FreeIn(q, n) => FreeIn(r, n + 1)
             /\ m[1] \notin Commands /\ LastIn(q, c, n) => LastIn(r, c, n + 1)
             /\ m[1] = c => LastIn(r, c, n + 1)
<1> DEFINE r == Append(q, m)
           n == Len(q) + 1
<1>1. /\ r \in Seq(Messages) /\ Len(r) = n /\ r[n] = m
      /\ n \in Nat /\ Len(q) \in Nat /\ DOMAIN r = 1..n /\ DOMAIN q = 1..Len(q)
      /\ \A i \in DOMAIN q : r[i] = q[i]
  OBVIOUS
<1> HIDE DEF r
<1>2. \A i \in DOMAIN q : i \in DOMAIN r /\ r[i] = q[i] /\ i \in 1..n
  BY <1>1
<1>3. \A i \in DOMAIN r : i \in DOMAIN q \/ i = n
  BY <1>1
<1>4. \A i \in 1..n : \A k \in DOMAIN r : k < i => k \in DOMAIN q /\ r[k] = q[k]
  BY <1>1
<1>5. ASSUME NEW i \in 1..n, FreeIn(q, i) PROVE FreeIn(r, i)
  BY <1>4, <1>5 DEF FreeIn
<1>6. ASSUME NEW i \in 1..n, LastIn(q, c, i) PROVE LastIn(r, c, i)
  BY <1>2, <1>4, <1>6, Zenon DEF LastIn
<1>7. ASSUME m[1] \notin Commands, FreeIn(q, n) PROVE FreeIn(r, n + 1)
  BY <1>1, <1>3, <1>7 DEF FreeIn
<1>8. ASSUME m[1] \notin Commands, LastIn(q, c, n) PROVE LastIn(r, c, n + 1)
  <2>1. PICK k \in DOMAIN q :
          /\ k < n /\ q[k][1] = c
          /\ \A l \in DOMAIN q : k < l /\ l < n => q[l][1] \notin Commands
    BY <1>8 DEF LastIn
  <2>2. k \in DOMAIN r /\ k < n + 1 /\ r[k][1] = c
    BY <2>1, <1>1
  <2>3. \A l \in DOMAIN r : k < l /\ l < n + 1 => r[l][1] \notin Commands
    BY <2>1, <1>1, <1>3, <1>8
  <2> QED
    BY <2>2, <2>3 DEF LastIn
<1>9. ASSUME m[1] = c PROVE LastIn(r, c, n + 1)
  <2>1. n \in DOMAIN r /\ n < n + 1 /\ r[n][1] = c
    BY <1>1, <1>9
  <2>2. \A l \in DOMAIN r : ~(n < l /\ l < n + 1)
    BY <1>1
  <2> QED
    BY <2>1, <2>2 DEF LastIn
<1> QED
  BY <1>1, <1>2, <1>3, <1>5, <1>6, <1>7, <1>8, <1>9 DEF r

\* The message that is taken was before all the others, which move up by one.
LEMMA TakePlaces ==
  ASSUME NEW q \in Seq(Messages), q # <<>>, NEW c
  PROVE  LET r == Tail(q)
             h == Head(q)[1]
         IN  /\ r \in Seq(Messages) /\ Len(q) \in Nat /\ Len(r) + 1 = Len(q)
             /\ \A i \in DOMAIN r : i + 1 \in DOMAIN q /\ r[i] = q[i + 1]
             /\ \A i \in DOMAIN r : i \in 1..Len(q)
             /\ \A i \in DOMAIN q : i = 1 \/ (i - 1 \in DOMAIN r /\ r[i - 1] = q[i])
             /\ 1 \in DOMAIN q /\ q[1] = Head(q) /\ Len(q) \in 1..Len(q)
             /\ \A i \in 1..Len(q) :
                  FreeIn(q, i + 1) => h \notin Commands /\ FreeIn(r, i)
             /\ \A i \in 1..Len(q) :
                  LastIn(q, c, i + 1) => LastIn(r, c, i) \/ (h = c /\ FreeIn(r, i))
<1> DEFINE r == Tail(q)
           h == Head(q)[1]
<1>1. /\ r \in Seq(Messages) /\ Len(q) \in Nat \ {0} /\ Len(r) = Len(q) - 1
      /\ DOMAIN q = 1..Len(q) /\ DOMAIN r = 1..(Len(q) - 1)
      /\ \A i \in 1..(Len(q) - 1) : r[i] = q[i + 1]
      /\ q[1] = Head(q)
  OBVIOUS
<1> HIDE DEF r
<1>2. \A i \in DOMAIN r : i + 1 \in DOMAIN q /\ r[i] = q[i + 1] /\ i \in 1..Len(q)
  BY <1>1
<1>3. \A i \in DOMAIN q : i = 1 \/ (i - 1 \in DOMAIN r /\ r[i - 1] = q[i])
  BY <1>1
<1>4. 1 \in DOMAIN q /\ q[1] = Head(q) /\ Len(q) \in 1..Len(q) /\ Len(r) + 1 = Len(q)
  BY <1>1
<1>5. ASSUME NEW i \in 1..Len(q), FreeIn(q, i + 1)
      PROVE  h \notin Commands /\ FreeIn(r, i)
  <2>1. 1 < i + 1 /\ \A k \in DOMAIN r : k < i => k + 1 < i + 1
    BY <1>1
  <2>2. h \notin Commands
    BY <1>5, <2>1, <1>4 DEF FreeIn
  <2>3. FreeIn(r, i)
    BY <1>5, <2>1, <1>2 DEF FreeIn
  <2> QED
    BY <2>2, <2>3
<1>6. ASSUME NEW i \in 1..Len(q), LastIn(q, c, i + 1)
      PROVE  LastIn(r, c, i) \/ (h = c /\ FreeIn(r, i))
  <2>1. PICK k \in DOMAIN q :
          /\ k < i + 1 /\ q[k][1] = c
          /\ \A l \in DOMAIN q : k < l /\ l < i + 1 => q[l][1] \notin Commands
    BY <1>6 DEF LastIn
  <2>2. CASE k = 1
    <3>1. \A l \in DOMAIN r : l < i => k < l + 1 /\ l + 1 < i + 1
      BY <1>1, <2>2
    <3>2. FreeIn(r, i)
      BY <2>1, <3>1, <1>2 DEF FreeIn
    <3>3. h = c
      BY <2>1, <2>2, <1>4
    <3> QED
      BY <3>2, <3>3
  <2>3. CASE k # 1
    <3>1. k - 1 \in DOMAIN r /\ k - 1 < i /\ r[k - 1][1] = c
      BY <1>1, <1>3, <2>1, <2>3
    <3>2. \A l \in DOMAIN r : k - 1 < l /\ l < i => k < l + 1 /\ l + 1 < i + 1
      BY <1>1
    <3>3. \A l \in DOMAIN r : k - 1 < l /\ l < i => r[l][1] \notin Commands
      BY <2>1, <3>2, <1>2
    <3> QED
      BY <3>1, <3>3 DEF LastIn
  <2> QED
    BY <2>2, <2>3
<1> QED
  BY <1>1, <1>2, <1>3, <1>4, <1>5, <1>6 DEF r

\* A session that was stopped stays so up to place i, with no command before it.
LEMMA FreeMeansStopped ==
  \A i : StoppedAt(i) /\ FreeIn(queue, i) => ~navigating
<1> SUFFICES ASSUME NEW i, StoppedAt(i), FreeIn(queue, i) PROVE ~navigating
  OBVIOUS
<1>1. ~LastIn(queue, "STOP", i)
  BY Zenon DEF FreeIn, LastIn, Commands
<1> QED
  BY <1>1 DEF StoppedAt

\* The first message of the queue finds what the state says.
LEMMA FirstPlace ==
  TypeOK => \A c : ~LastIn(queue, c, 1)
<1> SUFFICES ASSUME TypeOK, NEW c PROVE ~LastIn(queue, c, 1)
  OBVIOUS
<1>1. \A k \in DOMAIN queue : ~(k < 1)
  BY DEF TypeOK
<1> QED
  BY <1>1 DEF LastIn

\* A step that only posts message m, and leaves session and history alone: what
\* waits fits as it did, and so does what comes next if m is no command.
LEMMA PostStep ==
  ASSUME TypeOK, NEW m \in Messages, queue' = Append(queue, m),
         UNCHANGED <<navigating, mode, refused>>
  PROVE  /\ \A i \in 1..NextPlace : /\ StoppedAt(i) => StoppedAt(i)'
                                    /\ GivenAt(i) => GivenAt(i)'
         /\ m[1] \notin Commands =>
              /\ StoppedAt(NextPlace) => StoppedAt(NextPlace)'
              /\ GivenAt(NextPlace) => GivenAt(NextPlace)'
              /\ StartedAt(NextPlace) => StartedAt(NextPlace)'
         /\ m[1] = "STOP" => StoppedAt(NextPlace)'
         /\ m[1] = "MODE" => GivenAt(NextPlace)'
         /\ m[1] = "START" => StartedAt(NextPlace)'
<1>q. queue \in Seq(Messages)
  BY DEF TypeOK
<1>0. PICK n : n = NextPlace
  OBVIOUS
<1>1. /\ NextPlace' = n + 1
      /\ \A i \in 1..n : FreeIn(queue, i) => FreeIn(queue', i)
      /\ m[1] \notin Commands /\ FreeIn(queue, n) => FreeIn(queue', n + 1)
  BY <1>q, <1>0, PostPlaces DEF NextPlace
<1>2. ASSUME NEW c
      PROVE /\ \A i \in 1..n : LastIn(queue, c, i) => LastIn(queue', c, i)
            /\ m[1] \notin Commands /\ LastIn(queue, c, n) => LastIn(queue', c, n + 1)
            /\ m[1] = c => LastIn(queue', c, n + 1)
  BY <1>q, <1>0, PostPlaces DEF NextPlace
<1>3. ASSUME NEW i \in 1..n
      PROVE  /\ StoppedAt(i) => StoppedAt(i)'
             /\ GivenAt(i) => GivenAt(i)'
  BY <1>1, <1>2, Zenon DEF StoppedAt, GivenAt
<1>4. ASSUME m[1] \notin Commands
      PROVE  /\ StoppedAt(n) => StoppedAt(n + 1)'
             /\ GivenAt(n) => GivenAt(n + 1)'
             /\ StartedAt(n) => StartedAt(n + 1)'
  BY <1>1, <1>2, <1>4, Zenon DEF StoppedAt, GivenAt, StartedAt
<1>5. /\ m[1] = "STOP" => StoppedAt(n + 1)'
      /\ m[1] = "MODE" => GivenAt(n + 1)'
      /\ m[1] = "START" => StartedAt(n + 1)'
  BY <1>2, Zenon DEF StoppedAt, GivenAt, StartedAt
<1> QED
  BY <1>0, <1>1, <1>3, <1>4, <1>5, Zenon DEF StoppedAt, GivenAt, StartedAt

\* Taking a message c and working it off: what a message finds is what it would
\* have found, where the handler does what c is counted on to do, and what it is
\* counted on to leave alone.
LEMMA TakeStep ==
  ASSUME TypeOK, queue # <<>>, queue' = Tail(queue)
  PROVE  LET c == Head(queue)[1]
         IN  /\ (/\ c = "STOP" => ~navigating'
                 /\ c \notin Commands /\ ~navigating => ~navigating')
                => \A i \in 1..Len(queue) : StoppedAt(i + 1) => StoppedAt(i)'
             /\ (/\ c = "MODE" => mode' = "VALID"
                 /\ c \notin Commands /\ ~navigating /\ mode = "VALID" => mode' = "VALID")
                => \A i \in 1..Len(queue) :
                     StoppedAt(i + 1) /\ GivenAt(i + 1) => GivenAt(i)'
             /\ (/\ c = "START" => navigating' \/ refused'
                 /\ c \notin Commands /\ (navigating \/ refused) => navigating' \/ refused')
                => \A i \in 1..Len(queue) : StartedAt(i + 1) => StartedAt(i)'
<1> DEFINE c == Head(queue)[1]
<1>q. queue \in Seq(Messages)
  BY DEF TypeOK
<1>1. ASSUME NEW i \in 1..Len(queue), FreeIn(queue, i + 1)
      PROVE  c \notin Commands /\ FreeIn(queue', i)
  BY <1>q, <1>1, TakePlaces
<1>2. ASSUME NEW i \in 1..Len(queue), NEW k, LastIn(queue, k, i + 1)
      PROVE  LastIn(queue', k, i) \/ (c = k /\ FreeIn(queue', i))
  BY <1>q, <1>2, TakePlaces
<1> HIDE DEF c
<1>3. ASSUME c = "STOP" => ~navigating',
             c \notin Commands /\ ~navigating => ~navigating',
             NEW i \in 1..Len(queue), StoppedAt(i + 1)
      PROVE  StoppedAt(i)'
  <2>1. (FreeIn(queue, i + 1) /\ ~navigating) \/ LastIn(queue, "STOP", i + 1)
    BY <1>3 DEF StoppedAt
  <2>2. (FreeIn(queue', i) /\ ~navigating') \/ LastIn(queue', "STOP", i)
    BY <2>1, <1>1, <1>2, <1>3, Zenon
  <2> QED
    BY <2>2, Zenon DEF StoppedAt
<1>4. ASSUME c = "MODE" => mode' = "VALID",
             c \notin Commands /\ ~navigating /\ mode = "VALID" => mode' = "VALID",
             NEW i \in 1..Len(queue), StoppedAt(i + 1), GivenAt(i + 1)
      PROVE  GivenAt(i)'
  <2>1. \/ FreeIn(queue, i + 1) /\ mode = "VALID" /\ ~navigating
        \/ LastIn(queue, "MODE", i + 1)
    BY <1>4, FreeMeansStopped, Zenon DEF GivenAt
  <2>2. (FreeIn(queue', i) /\ mode' = "VALID") \/ LastIn(queue', "MODE", i)
    BY <2>1, <1>1, <1>2, <1>4, Zenon
  <2> QED
    BY <2>2, Zenon DEF GivenAt
<1>5. ASSUME c = "START" => navigating' \/ refused',
             c \notin Commands /\ (navigating \/ refused) => navigating' \/ refused',
             NEW i \in 1..Len(queue), StartedAt(i + 1)
      PROVE  StartedAt(i)'
  <2>1. \/ FreeIn(queue, i + 1) /\ (navigating \/ refused)
        \/ LastIn(queue, "START", i + 1)
    BY <1>5 DEF StartedAt
  <2>2. \/ FreeIn(queue', i) /\ (navigating' \/ refused')
        \/ LastIn(queue', "START", i)
    BY <2>1, <1>1, <1>2, <1>5, Zenon
  <2> QED
    BY <2>2, Zenon DEF StartedAt
<1> QED
  BY <1>3, <1>4, <1>5, Zenon DEF c

\* The framework's calls.
LEMMA FrameworkKeeps ==
  ASSUME TypeOK, StartsFit, CallsFit, ServedFits, Framework
  PROVE  StartsFit' /\ CallsFit' /\ ServedFits'
<1> USE DEF session
<1>n. NextPlace \in 1..NextPlace /\ \A i \in DOMAIN queue : i \in 1..NextPlace
  BY DEF TypeOK, NextPlace
<1>1. ASSUME NEW m \in Messages, Post(m), UNCHANGED <<recurrence, session, modem>>,
             UNCHANGED cleaned \/ cleaned'
      PROVE  /\ ServedFits'
             /\ Periodic' /\ ~cleaned' =>
                  \A i \in DOMAIN queue' :
                    queue'[i][1] = "START" =>
                       \/ StoppedAt(i)' /\ GivenAt(i)'
                       \/ i = NextPlace /\ m[1] = "START"
             /\ \A i \in 1..NextPlace : /\ StoppedAt(i) => StoppedAt(i)'
                                        /\ GivenAt(i) => GivenAt(i)'
             /\ m[1] \notin Commands =>
                  /\ StoppedAt(NextPlace) => StoppedAt(NextPlace)'
                  /\ GivenAt(NextPlace) => GivenAt(NextPlace)'
                  /\ StartedAt(NextPlace) => StartedAt(NextPlace)'
             /\ m[1] = "STOP" => StoppedAt(NextPlace)'
             /\ m[1] = "MODE" => GivenAt(NextPlace)'
             /\ m[1] = "START" => StartedAt(NextPlace)'
  <2>1. /\ \A i \in DOMAIN queue : i \in DOMAIN queue' /\ queue'[i] = queue[i]
        /\ \A i \in DOMAIN queue' : i \in DOMAIN queue \/ i = NextPlace
        /\ queue'[NextPlace] = m
    BY <1>1, PostPlaces DEF TypeOK, Post, NextPlace
  <2>2. ServedFits'
    BY <1>1, <2>1, Zenon DEF ServedFits, Periodic
  <2> QED
    BY <1>1, <1>n, <2>1, <2>2, PostStep, Zenon DEF Post, StartsFit, Periodic
<1>m. /\ <<"MODE", "-">> \in Messages /\ <<"START", "-">> \in Messages
      /\ <<"STOP", "-">> \in Messages
  BY DEF Messages
<1>c. "MODE" \notin Commands /\ "START" # "MODE" /\ "START" # "STOP"
  BY DEF Commands
<1>t. /\ <<"MODE", "-">>[1] = "MODE" /\ <<"START", "-">>[1] = "START"
      /\ <<"STOP", "-">>[1] = "STOP"
  OBVIOUS
<1>2. CASE SetPositionMode
  <2>1. /\ Post(<<"MODE", "-">>) /\ UNCHANGED <<recurrence, session, modem>>
        /\ UNCHANGED cleaned
        /\ client # "ready" /\ (client' = client \/ client' = "ready")
        /\ client' = "started" => client = "started"
        /\ client = "started" => client' = "started"
    BY <1>2 DEF SetPositionMode
  <2> QED
    BY <1>1, <1>m, <1>c, <1>t, <2>1, Zenon DEF StartsFit, CallsFit, Periodic
<1>3. CASE Start
  <2>1. /\ Post(<<"START", "-">>) /\ UNCHANGED <<recurrence, session, modem>>
        /\ UNCHANGED cleaned
        /\ client = "ready" /\ client' = "started"
        /\ "ready" # "started"
    BY <1>3 DEF Start
  <2> QED
    BY <1>1, <1>m, <1>c, <1>t, <1>n, <2>1, Zenon DEF StartsFit, CallsFit, Periodic
<1>4. CASE Stop
  <2>1. /\ Post(<<"STOP", "-">>) /\ UNCHANGED <<recurrence, session, modem>>
        /\ UNCHANGED cleaned
        /\ client' = "stopped"
        /\ "ready" # "stopped" /\ "started" # "stopped"
    BY <1>4 DEF Stop
  <2> QED
    BY <1>1, <1>m, <1>c, <1>t, <2>1, Zenon DEF StartsFit, CallsFit, Periodic
<1>5. CASE Cleanup
  <2>1. /\ cleaned' /\ client' = "stopped" /\ client' # "started"
        /\ UNCHANGED <<recurrence, session, modem>>
        /\ Post(<<"STOP", "-">>) \/ UNCHANGED queue
    BY <1>5 DEF Cleanup
  <2>2. ServedFits'
    <3>1. CASE Post(<<"STOP", "-">>)
      BY <1>1, <1>m, <2>1, <3>1, Zenon
    <3>2. CASE UNCHANGED queue
      BY <2>1, <3>2, Zenon DEF ServedFits, Periodic
    <3> QED
      BY <2>1, <3>1, <3>2
  <2> QED
    BY <2>1, <2>2, Zenon DEF StartsFit, CallsFit
<1> QED
  BY <1>2, <1>3, <1>4, <1>5 DEF Framework

\* The LocEng thread's handlers: each one takes a message, says nothing to the
\* framework, and does to the session what that message is counted on to do.
LEMMA HandlerStep ==
  ASSUME TypeOK, LocEngThread
  PROVE  LET c == Head(queue)[1]
         IN  /\ queue # <<>> /\ queue' = Tail(queue)
             /\ UNCHANGED <<recurrence, client, cleaned>>
             /\ c = "STOP" => ~navigating'
             /\ c \notin Commands /\ ~navigating => ~navigating'
             /\ c = "MODE" => mode' = "VALID"
             /\ Periodic =>
                  /\ c \notin Commands /\ ~navigating /\ mode = "VALID" => mode' = "VALID"
                  /\ c = "START" => navigating' \/ refused'
                  /\ c \notin Commands /\ (navigating \/ refused)
                       => navigating' \/ refused'
                  /\ navigating' /\ modem' # "down" /\ ~refused' /\ modem' # "fixing" =>
                       /\ c # "UP"
                       /\ navigating /\ modem # "down" /\ ~refused /\ modem # "fixing"
<1> USE DEF session, Takes, Commands, TypeOK, Modes
<1>1. CASE PositionMode
  BY <1>1 DEF PositionMode
<1>2. CASE StopHandler
  BY <1>2 DEF StopHandler, StopFix, LeaveSession
<1>3. ASSUME NEW r \in Results, NEW m \in Modes, StartFix(m, r)
      PROVE  /\ navigating' \/ refused'
             /\ navigating' /\ ~refused' => modem' \in {"down", "fixing"}
  BY <1>3 DEF StartFix, Answers, Results
<1>4. ASSUME NEW r \in Results, StartHandler(r)
      PROVE  /\ queue # <<>> /\ queue' = Tail(queue) /\ Head(queue)[1] = "START"
             /\ UNCHANGED <<recurrence, client, cleaned>>
             /\ navigating' \/ refused'
             /\ navigating' /\ modem' # "down" /\ ~refused' /\ modem' # "fixing" =>
                  navigating /\ modem # "down" /\ ~refused /\ modem # "fixing"
  BY <1>3, <1>4 DEF StartHandler
<1>5. ASSUME NEW r \in Results, EngineUp(r)
      PROVE  /\ queue # <<>> /\ queue' = Tail(queue) /\ Head(queue)[1] = "UP"
             /\ UNCHANGED <<recurrence, client, cleaned>>
             /\ ~navigating => ~navigating' /\ UNCHANGED mode
             /\ navigating \/ refused => navigating' \/ refused'
             /\ navigating' /\ modem' # "down" /\ ~refused' => modem' = "fixing"
  BY <1>3, <1>5 DEF EngineUp
<1>6. ASSUME NEW fix \in Fixes, NEW reported \in BOOLEAN, ReportPosition(fix, reported)
      PROVE  /\ queue # <<>> /\ queue' = Tail(queue) /\ Head(queue)[1] = "POSITION"
             /\ UNCHANGED <<recurrence, client, cleaned, refused>>
             /\ ~navigating => ~navigating'
             /\ Periodic => UNCHANGED <<navigating, mode, modem>>
  BY <1>6 DEF ReportPosition, LeaveSession, Periodic
<1> QED
  BY <1>1, <1>2, <1>4, <1>5, <1>6, Zenon DEF LocEngThread

\* The LocEng thread keeps what the messages are counted on to find.
LEMMA HandlerKeeps ==
  ASSUME TypeOK, StartsFit, CallsFit, ServedFits, LocEngThread
  PROVE  StartsFit' /\ CallsFit' /\ ServedFits'
<1>1. PICK c : c = Head(queue)[1]
  OBVIOUS
<1>2. /\ queue # <<>> /\ queue' = Tail(queue)
      /\ UNCHANGED <<recurrence, client, cleaned>>
      /\ c = "STOP" => ~navigating'
      /\ c \notin Commands /\ ~navigating => ~navigating'
      /\ c = "MODE" => mode' = "VALID"
      /\ Periodic =>
           /\ c \notin Commands /\ ~navigating /\ mode = "VALID" => mode' = "VALID"
           /\ c = "START" => navigating' \/ refused'
           /\ c \notin Commands /\ (navigating \/ refused) => navigating' \/ refused'
           /\ navigating' /\ modem' # "down" /\ ~refused' /\ modem' # "fixing" =>
                /\ c # "UP"
                /\ navigating /\ modem # "down" /\ ~refused /\ modem # "fixing"
  BY <1>1, HandlerStep, Zenon
<1>3. /\ \A i \in 1..Len(queue) : StoppedAt(i + 1) => StoppedAt(i)'
      /\ Periodic => \A i \in 1..Len(queue) :
                       StoppedAt(i + 1) /\ GivenAt(i + 1) => GivenAt(i)'
      /\ Periodic => \A i \in 1..Len(queue) : StartedAt(i + 1) => StartedAt(i)'
  BY <1>1, <1>2, TakeStep, Zenon
<1>4. /\ Len(queue) \in Nat /\ NextPlace' = Len(queue) /\ Len(queue) \in 1..Len(queue)
      /\ \A i \in DOMAIN queue' : /\ i + 1 \in DOMAIN queue /\ queue'[i] = queue[i + 1]
                                  /\ i \in 1..Len(queue)
      /\ \A i \in DOMAIN queue :
           i = 1 \/ (i - 1 \in DOMAIN queue' /\ queue'[i - 1] = queue[i])
      /\ queue[1][1] = c
  BY <1>1, <1>2, TakePlaces DEF TypeOK, NextPlace
<1>5. PICK n : n = Len(queue)
  OBVIOUS
<1>6. /\ StoppedAt(NextPlace) => StoppedAt(NextPlace)'
      /\ Periodic /\ StoppedAt(NextPlace) /\ GivenAt(NextPlace) => GivenAt(NextPlace)'
      /\ Periodic /\ StartedAt(NextPlace) => StartedAt(NextPlace)'
  <2>1. /\ StoppedAt(n + 1) => StoppedAt(n)'
        /\ Periodic /\ StoppedAt(n + 1) /\ GivenAt(n + 1) => GivenAt(n)'
        /\ Periodic /\ StartedAt(n + 1) => StartedAt(n)'
    BY <1>3, <1>4, <1>5, Zenon
  <2>2. NextPlace = n + 1 /\ NextPlace' = n
    BY <1>4, <1>5 DEF NextPlace
  <2> QED
    BY <2>1, <2>2, Zenon DEF StoppedAt, GivenAt, StartedAt
<1>7. Periodic' <=> Periodic
  BY <1>2 DEF Periodic
<1>8. StartsFit'
  <2> SUFFICES ASSUME Periodic', ~cleaned'
      PROVE  /\ \A i \in DOMAIN queue' :
                  queue'[i][1] = "START" => StoppedAt(i)' /\ GivenAt(i)'
             /\ client' = "ready" => GivenAt(NextPlace)'
    BY Zenon DEF StartsFit
  <2>1. Periodic /\ ~cleaned
    BY <1>2, <1>7, Zenon
  <2>2. ASSUME NEW i \in DOMAIN queue', queue'[i][1] = "START"
        PROVE  StoppedAt(i)' /\ GivenAt(i)'
    <3>1. StoppedAt(i + 1) /\ GivenAt(i + 1)
      BY <1>4, <2>1, <2>2, Zenon DEF StartsFit
    <3> QED
      BY <1>3, <1>4, <2>1, <3>1, Zenon
  <2>3. ASSUME client' = "ready" PROVE GivenAt(NextPlace)'
    <3>1. client = "ready" /\ "ready" # "started"
      BY <1>2, <2>3
    <3>2. GivenAt(NextPlace) /\ StoppedAt(NextPlace)
      BY <2>1, <3>1, Zenon DEF StartsFit, CallsFit
    <3> QED
      BY <1>6, <2>1, <3>2, Zenon
  <2> QED
    BY <2>2, <2>3, Zenon
<1>9. CallsFit'
  BY <1>2, <1>6, <1>7, Zenon DEF CallsFit
<1>10. ServedFits'
  <2> SUFFICES ASSUME Periodic', navigating', modem' # "down", ~refused', modem' # "fixing"
      PROVE  \E i \in DOMAIN queue' : queue'[i][1] = "UP"
    BY Zenon DEF ServedFits
  <2>1. /\ c # "UP"
        /\ Periodic /\ navigating /\ modem # "down" /\ ~refused /\ modem # "fixing"
    BY <1>2, <1>7, Zenon
  <2>2. PICK i \in DOMAIN queue : queue[i][1] = "UP"
    BY <2>1, Zenon DEF ServedFits
  <2>3. i # 1
    BY <1>4, <2>1, <2>2
  <2>4. i - 1 \in DOMAIN queue' /\ queue'[i - 1] = queue[i]
    BY <1>4, <2>3, Zenon
  <2> QED
    BY <2>2, <2>4
<1> QED
  BY <1>8, <1>9, <1>10

\* The modem's reports, its crash and its return.
LEMMA ModemKeeps ==
  ASSUME TypeOK, StartsFit, CallsFit, ServedFits,
         ModemCrashes \/ ModemIsBack \/ \E fix \in Fixes : ModemReports(fix)
  PROVE  StartsFit' /\ CallsFit' /\ ServedFits'
<1> USE DEF session
<1>n. NextPlace \in 1..NextPlace /\ \A i \in DOMAIN queue : i \in 1..NextPlace
  BY DEF TypeOK, NextPlace
<1>1. ASSUME NEW m \in Messages, Post(m), m[1] \notin Commands,
             UNCHANGED <<recurrence, session, client, cleaned>>,
             m[1] = "UP" \/ (Periodic => modem' = "fixing")
      PROVE  StartsFit' /\ CallsFit' /\ ServedFits'
  <2>1. /\ \A i \in DOMAIN queue : i \in DOMAIN queue' /\ queue'[i] = queue[i]
        /\ \A i \in DOMAIN queue' : i \in DOMAIN queue \/ i = NextPlace
        /\ NextPlace \in DOMAIN queue' /\ queue'[NextPlace] = m
    BY <1>1, PostPlaces DEF TypeOK, Post, NextPlace
  <2>2. /\ \A i \in 1..NextPlace : /\ StoppedAt(i) => StoppedAt(i)'
                                   /\ GivenAt(i) => GivenAt(i)'
        /\ StoppedAt(NextPlace) => StoppedAt(NextPlace)'
        /\ GivenAt(NextPlace) => GivenAt(NextPlace)'
        /\ StartedAt(NextPlace) => StartedAt(NextPlace)'
    BY <1>1, PostStep, Zenon DEF Post
  <2>3. m[1] # "START"
    BY <1>1 DEF Commands
  <2>4. StartsFit'
    BY <1>1, <1>n, <2>1, <2>2, <2>3, Zenon DEF StartsFit, Periodic
  <2>5. CallsFit'
    BY <1>1, <2>2, Zenon DEF CallsFit, Periodic
  <2>6. ServedFits'
    <3>1. CASE m[1] = "UP"
      BY <2>1, <3>1, Zenon DEF ServedFits
    <3>2. CASE Periodic => modem' = "fixing"
      BY <1>1, <3>2, Zenon DEF ServedFits, Periodic
    <3> QED
      BY <1>1, <3>1, <3>2
  <2> QED
    BY <2>4, <2>5, <2>6
<1>m. /\ <<"UP", "-">> \in Messages /\ <<"UP", "-">>[1] = "UP" /\ "UP" \notin Commands
      /\ \A fix \in Fixes : /\ <<"POSITION", fix>> \in Messages
                            /\ <<"POSITION", fix>>[1] \notin Commands
  BY DEF Messages, Commands
<1>2. CASE ModemCrashes
  <2>1. /\ UNCHANGED <<recurrence, session, queue, client, cleaned>> /\ modem' = "down"
    BY <1>2 DEF ModemCrashes
  <2> QED
    BY <2>1, Zenon
    DEF StartsFit, CallsFit, ServedFits, StoppedAt, GivenAt, StartedAt, NextPlace, Periodic
<1>3. CASE ModemIsBack
  BY <1>1, <1>m, <1>3, Zenon DEF ModemIsBack
<1>4. ASSUME NEW fix \in Fixes, ModemReports(fix)
      PROVE  StartsFit' /\ CallsFit' /\ ServedFits'
  <2>1. /\ Post(<<"POSITION", fix>>)
        /\ UNCHANGED <<recurrence, session, client, cleaned>>
        /\ Periodic => modem' = "fixing"
    BY <1>4 DEF ModemReports, Periodic
  <2> QED
    BY <1>1, <1>m, <2>1, Zenon
<1> QED
  BY <1>2, <1>3, <1>4

\* What waits for the LocEng thread always fits the session it will find.
THEOREM SessionsFit == Spec => []SessionIInv
<1>1. Init => StartsFit /\ CallsFit /\ ServedFits
  <2> SUFFICES ASSUME Init PROVE StartsFit /\ CallsFit /\ ServedFits
    OBVIOUS
  <2>1. FreeIn(queue, NextPlace) /\ ~navigating /\ client = "stopped" /\ DOMAIN queue = {}
    BY DEF Init, FreeIn, NextPlace
  <2> QED
    BY <2>1 DEF StartsFit, CallsFit, ServedFits, StoppedAt
<1>2. /\ TypeOK /\ StartsFit /\ CallsFit /\ ServedFits /\ [Next]_vars
      => StartsFit' /\ CallsFit' /\ ServedFits'
  <2>1. CASE UNCHANGED vars
    BY <2>1, Zenon
    DEF vars, StartsFit, CallsFit, ServedFits, StoppedAt, GivenAt, StartedAt, NextPlace,
        Periodic
  <2> QED
    BY <2>1, FrameworkKeeps, HandlerKeeps, ModemKeeps, Zenon DEF Next
<1>3. SessionIInv <=> TypeOK /\ StartsFit /\ CallsFit /\ ServedFits
  BY DEF SessionIInv
<1> QED
  BY <1>1, <1>2, <1>3, SessionTypes, PTL DEF Spec

\* Once the messages are worked off, framework, session and modem agree: the
\* last call of the framework is what the session is, an open periodic one is
\* worked on, and none is left to a framework that has stopped.
THEOREM SessionsSettle == Spec => []SettledAgrees
<1>1. SessionIInv => SettledAgrees
  <2> SUFFICES ASSUME SessionIInv, queue = <<>>
      PROVE  SettledAgrees
    BY DEF SettledAgrees, SessionFollowsCalls, SessionIsServed, StopEndsSession
  <2>1. DOMAIN queue = {}
    OBVIOUS
  <2>2. ~LastIn(queue, "STOP", NextPlace) /\ ~LastIn(queue, "START", NextPlace)
    BY <2>1, Zenon DEF LastIn
  <2>3. /\ client # "started" /\ ~cleaned => ~navigating
        /\ Periodic /\ client = "started" => navigating \/ refused
    BY <2>2, Zenon DEF SessionIInv, CallsFit, StoppedAt, StartedAt
  <2>4. Periodic /\ navigating /\ modem # "down" /\ ~refused => modem = "fixing"
    BY <2>1, Zenon DEF SessionIInv, ServedFits
  <2> QED
    BY <2>3, <2>4, Zenon
    DEF SettledAgrees, SessionFollowsCalls, SessionIsServed, StopEndsSession
<1> QED
  BY <1>1, SessionsFit, PTL

\* A periodic start of the framework's own never goes out with the INVALID mode:
\* its position mode was set behind whatever ended the session before it.
THEOREM CriteriaCarried == Spec => CallsCarryCriteria
<1>1. SessionIInv /\ [Next]_vars
        => [Periodic /\ given' = "INVALID" => Head(queue)[1] = "UP" \/ cleaned]_vars
  <2> SUFFICES ASSUME SessionIInv, Next, Periodic, given' = "INVALID", ~cleaned
      PROVE  Head(queue)[1] = "UP"
    BY DEF vars
  <2> USE DEF Takes, Post
  <2>1. CASE Framework
    BY <2>1 DEF Framework, SetPositionMode, Start, Stop, Cleanup
  <2>2. CASE PositionMode \/ StopHandler
    BY <2>2 DEF PositionMode, StopHandler
  <2>3. ASSUME NEW r \in Results, StartHandler(r) PROVE FALSE
    <3>1. queue # <<>> /\ Head(queue)[1] = "START" /\ mode = "INVALID"
      BY <2>3 DEF StartHandler, StartFix
    <3>2. 1 \in DOMAIN queue /\ queue[1][1] = "START"
      BY <3>1, TakePlaces DEF SessionIInv, TypeOK
    <3>3. GivenAt(1)
      BY <3>2, Zenon DEF SessionIInv, StartsFit
    <3> QED
      BY <3>1, <3>3, FirstPlace DEF SessionIInv, GivenAt
  <2>4. ASSUME NEW r \in Results, EngineUp(r) PROVE Head(queue)[1] = "UP"
    BY <2>4 DEF EngineUp
  <2>5. ASSUME NEW fix \in Fixes, NEW reported \in BOOLEAN, ReportPosition(fix, reported)
        PROVE  FALSE
    BY <2>5 DEF ReportPosition
  <2>6. CASE ModemCrashes \/ ModemIsBack \/ \E fix \in Fixes : ModemReports(fix)
    BY <2>6 DEF ModemCrashes, ModemIsBack, ModemReports
  <2> QED
    BY <2>1, <2>2, <2>3, <2>4, <2>5, <2>6, Zenon DEF Next, LocEngThread
<1> QED
  BY <1>1, SessionsFit, PTL DEF Spec, CallsCarryCriteria

=============================================================================

---------------------------- MODULE LocEngSession ----------------------------
(***************************************************************************)
(* A positioning session: the calls of the Android framework (loc.cpp and  *)
(* the loc_eng_* functions that post their messages), the LocEng thread    *)
(* that starts and stops the modem's fixes, and the modem that reports     *)
(* positions and may restart in the middle of a session                    *)
(* (loc_eng.cpp:1960-2156, 774-831, 2968-2992, LocEngAdapter.cpp:399-406). *)
(*                                                                         *)
(* No user-plane proxy is in this tree: UlpProxyBase answers false, so     *)
(* every call becomes a message of the one queue.  The status reports, the *)
(* muting and the deletion of aiding data are in LocEngStatus; here muting *)
(* is one reason why a position may not be reported.                       *)
(***************************************************************************)
EXTENDS Naturals, Sequences

CONSTANTS
  MaxQueue,      \* bound: the framework and the modem add a message only
                 \* while fewer than these are waiting
  MaxCrashes     \* bound: restarts of the modem

ASSUME SessionAssumption ==
  MaxQueue \in Nat \ {0} /\ MaxCrashes \in Nat

VARIABLES
  recurrence,   \* recurrence of the criteria; the framework keeps to one
  navigating,   \* mNavigating
  mode,         \* mFixCriteria.mode: a mode, or INVALID
  given,        \* output: the mode given to startFix() in this step, or "NONE"
  queue,        \* messages for the LocEng thread
  modem,        \* the modem
  client,       \* the last call of the framework
  refused,      \* history: did a working modem refuse the last start?
  cleaned,      \* history: did the framework ever clean up without a stop?
  crashes       \* restarts so far

vars == <<recurrence, navigating, mode, given, queue, modem, client, refused, cleaned,
          crashes>>
session == <<navigating, mode, refused>>

Modes    == {"VALID", "INVALID"}
Fixes    == {"INTERMEDIATE", "SUCCESS", "FAILURE"}
Results  == {"SUCCESS", "ENGINE_DOWN", "PHONE_OFFLINE", "INTERNAL", "FAILURE"}
Messages == ({"MODE", "START", "STOP", "UP"} \X {"-"}) \cup ({"POSITION"} \X Fixes)

TypeOK ==
  /\ recurrence \in {"PERIODIC", "SINGLE"}
  /\ navigating \in BOOLEAN
  /\ mode \in Modes
  /\ given \in Modes \cup {"NONE"}
  /\ given # "NONE" => navigating \/ refused
  /\ queue \in Seq(Messages)
  /\ modem \in {"down", "idle", "fixing"}
  /\ client \in {"stopped", "ready", "started"}
  /\ refused \in BOOLEAN /\ cleaned \in BOOLEAN
  /\ crashes \in 0..MaxCrashes

Init ==
  /\ recurrence \in {"PERIODIC", "SINGLE"}
  /\ navigating = FALSE /\ mode = "INVALID" /\ given = "NONE"
  /\ queue = <<>>
  /\ modem = "idle" /\ client = "stopped"
  /\ refused = FALSE /\ cleaned = FALSE /\ crashes = 0

Room == Len(queue) < MaxQueue
Post(m) == queue' = Append(queue, m) /\ given' = "NONE"
Takes(m) == queue # <<>> /\ Head(queue) = m /\ queue' = Tail(queue)

-----------------------------------------------------------------------------
(* The framework's thread. *)

SetPositionMode ==
  /\ Room
  /\ client # "ready"
  /\ Post(<<"MODE", "-">>)
  /\ client' = IF client = "started" THEN client ELSE "ready"
  /\ UNCHANGED <<recurrence, session, modem, cleaned, crashes>>

Start ==
  /\ Room
  /\ client = "ready" /\ client' = "started"
  /\ Post(<<"START", "-">>)
  /\ UNCHANGED <<recurrence, session, modem, cleaned, crashes>>

Stop ==
  /\ Room
  /\ client = "started" /\ client' = "stopped"
  /\ Post(<<"STOP", "-">>)
  /\ UNCHANGED <<recurrence, session, modem, cleaned, crashes>>

\* loc_eng_cleanup(), by a framework that has not stopped: it looks at
\* mNavigating from this thread.  The engine itself stays, for a later
\* loc_init().
Cleanup ==
  /\ Room
  /\ client = "started" /\ client' = "stopped"
  /\ cleaned' = TRUE
  /\ \/ navigating /\ Post(<<"STOP", "-">>)
     \/ ~navigating /\ given' = "NONE" /\ UNCHANGED queue
  /\ UNCHANGED <<recurrence, session, modem, crashes>>

-----------------------------------------------------------------------------
(* The LocEng thread. *)

\* What startFix() can answer: a modem that is down is noticed, and one that
\* has a fix running already goes on with it.
Answers(r) ==
  \/ modem = "down" /\ r = "ENGINE_DOWN"
  \/ modem = "idle" /\ r # "ENGINE_DOWN"
  \/ modem = "fixing" /\ r = "SUCCESS"

\* Slip: only a success opens the session.
StartFixStrict(m, r) ==
  /\ Answers(r)
  /\ given' = m
  /\ modem' = IF r = "SUCCESS" THEN "fixing" ELSE modem
  /\ navigating' = (r = "SUCCESS")
  /\ refused' = (r \notin {"SUCCESS", "ENGINE_DOWN"})

\* loc_eng_start_handler() outside a session, with criteria of mode m.  A
\* modem that is down or cannot fix just now leaves the session open.
StartFix(m, r) ==
  /\ Answers(r)
  /\ given' = m
  /\ modem' = IF r = "SUCCESS" THEN "fixing" ELSE modem
  /\ navigating' = (r # "FAILURE")
  /\ refused' = (r \notin {"SUCCESS", "ENGINE_DOWN"})

StopFix == modem' = IF modem = "fixing" THEN "idle" ELSE modem

\* setInSession(false)
LeaveSession == navigating' = FALSE /\ mode' = "INVALID"

PositionMode ==
  /\ Takes(<<"MODE", "-">>)
  /\ mode' = "VALID" /\ given' = "NONE"
  /\ UNCHANGED <<recurrence, navigating, refused, modem, client, cleaned, crashes>>

StartHandler(r) ==
  /\ Takes(<<"START", "-">>)
  /\ \/ ~navigating /\ StartFix(mode, r)
     \/ /\ navigating /\ r = "SUCCESS"
        /\ given' = "NONE"
        /\ UNCHANGED <<navigating, refused, modem>>
  /\ UNCHANGED <<recurrence, mode, client, cleaned, crashes>>

\* Slips: the flag turned off, the modem not stopped; and the other way round.
StopHandlerModemOnly ==
  /\ Takes(<<"STOP", "-">>)
  /\ IF navigating THEN StopFix ELSE UNCHANGED modem
  /\ refused' = FALSE /\ given' = "NONE"
  /\ UNCHANGED <<recurrence, navigating, mode, client, cleaned, crashes>>
StopHandlerFlagOnly ==
  /\ Takes(<<"STOP", "-">>)
  /\ \/ navigating /\ LeaveSession
     \/ ~navigating /\ UNCHANGED <<navigating, mode>>
  /\ refused' = FALSE /\ given' = "NONE"
  /\ UNCHANGED <<recurrence, modem, client, cleaned, crashes>>

StopHandler ==
  /\ Takes(<<"STOP", "-">>)
  /\ \/ navigating /\ StopFix /\ LeaveSession
     \/ ~navigating /\ UNCHANGED <<navigating, mode, modem>>
  /\ refused' = FALSE /\ given' = "NONE"
  /\ UNCHANGED <<recurrence, client, cleaned, crashes>>

\* LocEngReportPosition::proc(): reported says whether the position gets past
\* the muting and the filters.  A reported one ends a single shot.
ReportPosition(fix, reported) ==
  /\ Takes(<<"POSITION", fix>>)
  /\ \/ /\ reported /\ recurrence = "SINGLE"
        /\ LeaveSession
        /\ IF fix = "INTERMEDIATE" THEN StopFix ELSE UNCHANGED modem
     \/ /\ ~(reported /\ recurrence = "SINGLE")
        /\ UNCHANGED <<navigating, mode, modem>>
  /\ given' = "NONE"
  /\ UNCHANGED <<recurrence, refused, client, cleaned, crashes>>

\* Slips: the flag not turned off, so that the start handler does nothing; the
\* criteria reset whether in session or not.
EngineUpKeepsFlag(r) ==
  /\ Takes(<<"UP", "-">>)
  /\ r = "SUCCESS"
  /\ given' = "NONE"
  /\ UNCHANGED <<recurrence, session, modem, client, cleaned, crashes>>
EngineUpResetsAlways(r) ==
  /\ Takes(<<"UP", "-">>)
  /\ \/ navigating /\ StartFix("INVALID", r)
     \/ /\ ~navigating /\ r = "SUCCESS"
        /\ given' = "NONE"
        /\ UNCHANGED <<navigating, refused, modem>>
  /\ mode' = "INVALID"
  /\ UNCHANGED <<recurrence, client, cleaned, crashes>>

\* loc_eng_handle_engine_up(): setInSession(false), then the start handler.
EngineUp(r) ==
  /\ Takes(<<"UP", "-">>)
  /\ \/ navigating /\ mode' = "INVALID" /\ StartFix("INVALID", r)
     \/ /\ ~navigating /\ r = "SUCCESS"
        /\ given' = "NONE"
        /\ UNCHANGED <<session, modem>>
  /\ UNCHANGED <<recurrence, client, cleaned, crashes>>

LocEngThread ==
  \/ PositionMode \/ StopHandler
  \/ \E r \in Results : StartHandler(r) \/ EngineUp(r)
  \/ \E fix \in Fixes, reported \in BOOLEAN : ReportPosition(fix, reported)

-----------------------------------------------------------------------------
(* The modem.  A single shot is over with its final fix or its failure. *)

ModemReports(fix) ==
  /\ Room
  /\ modem = "fixing"
  /\ Post(<<"POSITION", fix>>)
  /\ modem' = IF recurrence = "SINGLE" /\ fix # "INTERMEDIATE" THEN "idle" ELSE modem
  /\ UNCHANGED <<recurrence, session, client, cleaned, crashes>>

\* The engine hears of it as a status (LocEngStatus), not as a stop.
ModemCrashes ==
  /\ crashes < MaxCrashes /\ modem # "down"
  /\ crashes' = crashes + 1
  /\ modem' = "down" /\ given' = "NONE"
  /\ UNCHANGED <<recurrence, session, queue, client, cleaned>>

ModemIsBack ==
  /\ modem = "down" /\ modem' = "idle"
  /\ Post(<<"UP", "-">>)
  /\ UNCHANGED <<recurrence, session, client, cleaned, crashes>>

Framework == SetPositionMode \/ Start \/ Stop \/ Cleanup

Next ==
  \/ Framework
  \/ LocEngThread
  \/ \E fix \in Fixes : ModemReports(fix)
  \/ ModemCrashes \/ ModemIsBack

\* The LocEng thread blocks only on an empty queue, and a modem that crashed
\* comes back.  Nothing makes the framework call or the modem report.
Fairness == WF_vars(LocEngThread) /\ WF_vars(ModemIsBack)

Spec == Init /\ [][Next]_vars /\ Fairness

-----------------------------------------------------------------------------
(* Properties. *)

Periodic == recurrence = "PERIODIC"

\* The modem never works on a fix outside a session, when nothing would stop
\* it: the code means to stop a fix that "we no longer need".
NoOrphanFix == modem = "fixing" => navigating

\* That holds of periodic fixes.  A late report of one single shot takes the
\* session flag from the next one.
NoPeriodicOrphan == Periodic => NoOrphanFix

\* What holds of every session at every moment.
SessionInv == TypeOK /\ NoPeriodicOrphan

\* Once the messages are worked off, a periodic session is what the
\* framework's last start or stop asked for, unless the modem refused the
\* start, or a cleanup has come in between.
SessionFollowsCalls ==
  Periodic /\ queue = <<>> /\ ~refused =>
    /\ client = "started" => navigating
    /\ client # "started" => ~navigating \/ cleaned

\* What loc_eng_cleanup() logs (fix not stopped, stop it now): a cleanup ends
\* the session as a stop does.  It does not when the start is still queued.
CleanupEndsSession ==
  queue = <<>> /\ client # "started" /\ cleaned => ~navigating

\* A periodic session that is open on a modem that works is being worked on: a
\* restart of the modem loses no session, wherever in the queue its news are.
SessionIsServed ==
  Periodic /\ queue = <<>> /\ navigating /\ modem # "down" /\ ~refused => modem = "fixing"

\* A periodic start of the framework's own never goes out with the INVALID mode
\* that the end of the previous session, or a restart of the modem, leaves
\* behind (as long as no session was left over by a cleanup).
CallsCarryCriteria ==
  [][Periodic /\ given' = "INVALID" => Head(queue)[1] = "UP" \/ cleaned]_vars

\* What loc_eng_handle_engine_up() says it does ("sets the copy in adapter to
\* modem"): the criteria are also given to the modem after its restart.
StartsWithCriteria == [][given' # "INVALID"]_vars

\* Once the messages are worked off, no session is left to a framework that
\* has stopped, whether the stop or a report of the single shot came first.
StopEndsSession ==
  queue = <<>> /\ client # "started" => ~navigating \/ cleaned

\* A periodic session is served in the end, after every restart of the modem,
\* unless it is refused or called off.
StartIsServed ==
  Periodic /\ client = "started" ~> client # "started" \/ modem = "fixing" \/ refused

\* A start that is posted gets to the modem, whatever reports of an earlier
\* single shot are still under way, unless it is refused or called off, or the
\* modem restarts (or it meets a session that a cleanup has left over).
StartReachesModem ==
  (\E i \in DOMAIN queue : queue[i][1] = "START") ~>
     client # "started" \/ modem = "fixing" \/ refused \/ cleaned \/ crashes > 0

\* Once the messages are worked off, framework, session and modem agree.
SettledAgrees == SessionFollowsCalls /\ SessionIsServed /\ StopEndsSession

\* Every start is served, periodic ones through restarts of the modem too.
StartsAreServed == StartIsServed /\ StartReachesModem
=============================================================================

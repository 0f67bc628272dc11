------------------------------- MODULE LocEngNi -------------------------------
(***************************************************************************)
(* Network-initiated sessions (loc_eng_ni.cpp): a request of the network   *)
(* is shown to the user; a thread of its own waits for the user's answer   *)
(* or a timeout, and answers the modem.  There is one such session, and    *)
(* one for emergencies.  Three sorts of threads share a session: the       *)
(* LocEng thread (requests, restarts of the modem), the framework's (the   *)
(* answers), and the response threads.                                     *)
(*                                                                         *)
(* A request with privacy override mutes a session (MuteOneSession of      *)
(* LocEngStatus), and a restart of the modem (EngineDown there) first      *)
(* resets the sessions.  Nothing here reads what the statuses change, so   *)
(* NiNext leaves their handlers to Next of LocEngStatus.                   *)
(***************************************************************************)
EXTENDS LocEngStatus, Naturals, FiniteSets

CONSTANTS
  MaxRequests,   \* bound: requests of the network
  MaxRestarts,   \* bound: restarts of the modem
  None

VARIABLES
  rawRequest,   \* of a session: the request in progress, or None
  reqID,        \* of a session: the number an answer must carry, or 0
  resp,         \* of a session
  respRecvd,    \* of a session
  reqIDCounter,
  thread,       \* of a request: its response thread
  message,      \* of a response thread: its answer to the modem, or None
  user,         \* the framework's thread in loc_eng_ni_respond()
  reset,        \* the LocEng thread in loc_eng_ni_reset_on_engine_restart()
  restarts,     \* restarts so far
  said,         \* history: what the user has said to a request, or None
  answers,      \* history: what the modem was told of a request
  freed         \* history: requests freed by a reset

Sessions  == {"ES", "NI"}
Requests  == 1..MaxRequests
UserSays  == {"ACCEPT", "DENY"}
Responses == UserSays \cup {"NORESP", "IGNORE", "UNSET"}

ASSUME NiAssumption ==
  MaxRequests \in Nat /\ MaxRestarts \in Nat /\ None \notin Nat \cup Sessions \cup Responses

slots   == <<rawRequest, reqID, resp, respRecvd>>
workers == <<thread, message>>
told    == <<answers, freed>>
niVars  == <<slots, reqIDCounter, workers, user, reset, restarts, said, told>>

AtRest == [session |-> None, resp |-> "UNSET", ignores |-> FALSE]
Idle   == [at |-> "idle", session |-> None]

NiTypeOK ==
  /\ rawRequest \in [Sessions -> Requests \cup {None}]
  /\ reqID \in [Sessions -> 0..MaxRequests]
  /\ resp \in [Sessions -> Responses] /\ respRecvd \in [Sessions -> BOOLEAN]
  /\ reqIDCounter \in 0..MaxRequests
  /\ thread \in [Requests -> Sessions \X {"none", "waiting", "clearing", "ended"}]
  /\ message \in [Requests -> {None} \cup (Requests \X Responses)]
  /\ user \in [session : Sessions \cup {None}, resp : Responses, ignores : BOOLEAN]
  /\ reset \in [at : {"idle", "looking", "freed", "nulled"}, session : Sessions \cup {None}]
  /\ restarts \in 0..MaxRestarts
  /\ said \in [Requests -> UserSays \cup {None}]
  /\ answers \subseteq Requests \X (Responses \ {"IGNORE"})
  /\ freed \subseteq Requests

NiInit ==
  /\ rawRequest = [s \in Sessions |-> None] /\ reqID = [s \in Sessions |-> 0]
  /\ resp = [s \in Sessions |-> "UNSET"] /\ respRecvd = [s \in Sessions |-> FALSE]
  /\ reqIDCounter = 0
  /\ thread = [r \in Requests |-> <<"NI", "none">>] /\ message = [r \in Requests |-> None]
  /\ user = AtRest /\ reset = Idle /\ restarts = 0
  /\ said = [r \in Requests |-> None]
  /\ answers = {} /\ freed = {}

-----------------------------------------------------------------------------
(* The LocEng thread. *)

\* Is a new request of session s taken?  Otherwise it is freed.
Takes(s) ==
  /\ rawRequest["ES"] = None
  /\ s = "NI" => rawRequest["NI"] = None

\* Slip: no thread waits for the answer.
NiRequestWithoutThread(s, override) ==
  /\ reset = Idle /\ reqIDCounter < MaxRequests /\ Takes(s)
  /\ LET id == reqIDCounter + 1 IN
       /\ rawRequest' = [rawRequest EXCEPT ![s] = id]
       /\ reqID' = [reqID EXCEPT ![s] = id]
       /\ reqIDCounter' = id
  /\ IF override THEN MuteOneSession ELSE UNCHANGED vars
  /\ UNCHANGED <<resp, respRecvd, workers, user, reset, restarts, said, told>>

\* loc_eng_ni_request_handler()
NiRequest(s, override) ==
  /\ reset = Idle /\ reqIDCounter < MaxRequests /\ Takes(s)
  /\ LET id == reqIDCounter + 1 IN
       /\ rawRequest' = [rawRequest EXCEPT ![s] = id]
       /\ reqID' = [reqID EXCEPT ![s] = id]
       /\ reqIDCounter' = id
       /\ thread' = [thread EXCEPT ![id] = <<s, "waiting">>]
  /\ IF override THEN MuteOneSession ELSE UNCHANGED vars
  /\ UNCHANGED <<resp, respRecvd, message, user, reset, restarts, said, told>>

\* loc_eng_handle_engine_down() begins with the reset, of the emergency
\* session first.
NiEngineDown ==
  /\ reset = Idle /\ restarts < MaxRestarts
  /\ restarts' = restarts + 1
  /\ reset' = [at |-> "looking", session |-> "ES"]
  /\ UNCHANGED <<vars, slots, reqIDCounter, workers, user, said, told>>

\* It frees the request before it takes the lock.
ResetFrees ==
  /\ reset.at = "looking" /\ rawRequest[reset.session] # None
  /\ freed' = freed \cup {rawRequest[reset.session]}
  /\ reset' = [reset EXCEPT !.at = "freed"]
  /\ UNCHANGED <<vars, slots, reqIDCounter, workers, user, restarts, said, answers>>

ResetNulls ==
  /\ reset.at = "freed" /\ reset' = [reset EXCEPT !.at = "nulled"]
  /\ rawRequest' = [rawRequest EXCEPT ![reset.session] = None]
  /\ UNCHANGED <<vars, reqID, resp, respRecvd, reqIDCounter, workers, user, restarts, said, told>>

\* After one session the next; after both, the status is reported.
ResetGoesOn ==
  \/ reset.session = "ES" /\ reset' = [at |-> "looking", session |-> "NI"] /\ UNCHANGED vars
  \/ reset.session = "NI" /\ reset' = Idle /\ EngineDown

ResetSignals ==
  /\ reset.at = "nulled"
  /\ respRecvd' = [respRecvd EXCEPT ![reset.session] = TRUE]
  /\ ResetGoesOn
  /\ UNCHANGED <<rawRequest, reqID, resp, reqIDCounter, workers, user, restarts, said, told>>

ResetPasses ==
  /\ reset.at = "looking" /\ rawRequest[reset.session] = None
  /\ ResetGoesOn
  /\ UNCHANGED <<slots, reqIDCounter, workers, user, restarts, said, told>>

Reset == ResetFrees \/ ResetNulls \/ ResetSignals \/ ResetPasses

-----------------------------------------------------------------------------
(* The framework's thread, loc_eng_ni_respond(). *)

\* Without the lock, it looks for the session with this number, and for one to
\* be ignored now that an emergency is accepted.
Respond(id, answer) ==
  /\ user = AtRest
  /\ id \in 1..reqIDCounter /\ said[id] = None
  /\ said' = [said EXCEPT ![id] = answer]
  /\ \/ /\ id = reqID["ES"] /\ rawRequest["ES"] # None
        /\ user' = [session |-> "ES", resp |-> answer,
                    ignores |-> answer = "ACCEPT" /\ rawRequest["NI"] # None]
     \/ /\ ~(id = reqID["ES"] /\ rawRequest["ES"] # None)
        /\ id = reqID["NI"] /\ rawRequest["NI"] # None
        /\ user' = [session |-> "NI", resp |-> answer, ignores |-> FALSE]
     \/ /\ \A s \in Sessions : ~(id = reqID[s] /\ rawRequest[s] # None)
        /\ UNCHANGED user
  /\ UNCHANGED <<vars, slots, reqIDCounter, workers, reset, restarts, told>>

Answer(s, r) ==
  resp' = [resp EXCEPT ![s] = r] /\ respRecvd' = [respRecvd EXCEPT ![s] = TRUE]

RespondIgnores ==
  /\ user.ignores /\ user' = [user EXCEPT !.ignores = FALSE]
  /\ Answer("NI", "IGNORE")
  /\ UNCHANGED <<vars, rawRequest, reqID, reqIDCounter, workers, reset, restarts, said, told>>

RespondAnswers ==
  /\ user.session # None /\ ~user.ignores /\ user' = AtRest
  /\ Answer(user.session, user.resp)
  /\ UNCHANGED <<vars, rawRequest, reqID, reqIDCounter, workers, reset, restarts, said, told>>

-----------------------------------------------------------------------------
(* The response threads, ni_thread_proc(). *)

\* What the thread takes with it of the answer r to the session's request.
Answered(id, s, r) ==
  LET raw == rawRequest[s] IN
  /\ message' = [message EXCEPT ![id] =
       IF raw = None \/ r = "IGNORE" THEN None ELSE <<raw, r>>]
  /\ rawRequest' = [rawRequest EXCEPT ![s] = None]

\* Slip: the request is left in its place.
ThreadWakesKeepsRequest(id, timedOut) ==
  \E s \in Sessions :
    /\ thread[id] = <<s, "waiting">> /\ (respRecvd[s] \/ timedOut)
    /\ resp' = [resp EXCEPT ![s] = IF timedOut THEN "NORESP" ELSE @]
    /\ respRecvd' = [respRecvd EXCEPT ![s] = FALSE]
    /\ message' = [message EXCEPT ![id] =
         IF rawRequest[s] = None \/ resp'[s] = "IGNORE" THEN None
         ELSE <<rawRequest[s], resp'[s]>>]
    /\ thread' = [thread EXCEPT ![id] = <<s, "clearing">>]
    /\ UNCHANGED <<vars, rawRequest, reqID, reqIDCounter, user, reset, restarts, said, told>>

\* Slip: the flag is not reset for the next session.
ThreadWakesKeepsFlag(id, timedOut) ==
  \E s \in Sessions :
    /\ thread[id] = <<s, "waiting">> /\ (respRecvd[s] \/ timedOut)
    /\ resp' = [resp EXCEPT ![s] = IF timedOut THEN "NORESP" ELSE @]
    /\ Answered(id, s, resp'[s])
    /\ thread' = [thread EXCEPT ![id] = <<s, "clearing">>]
    /\ UNCHANGED <<vars, respRecvd, reqID, reqIDCounter, user, reset, restarts, said, told>>

\* The locked part, once an answer has come or the time is over.  A timeout
\* takes the place of an answer that comes at the same moment.
ThreadWakes(id, timedOut) ==
  \E s \in Sessions :
    /\ thread[id] = <<s, "waiting">> /\ (respRecvd[s] \/ timedOut)
    /\ resp' = [resp EXCEPT ![s] = IF timedOut THEN "NORESP" ELSE @]
    /\ respRecvd' = [respRecvd EXCEPT ![s] = FALSE]
    /\ Answered(id, s, resp'[s])
    /\ thread' = [thread EXCEPT ![id] = <<s, "clearing">>]
    /\ UNCHANGED <<vars, reqID, reqIDCounter, user, reset, restarts, said, told>>

\* After it has left the lock, it clears the number of the session, whatever
\* request that is of by now, and sends its answer (LocEngInformNiResponse).
ThreadClears(id) ==
  \E s \in Sessions :
    /\ thread[id] = <<s, "clearing">>
    /\ thread' = [thread EXCEPT ![id] = <<s, "ended">>]
    /\ reqID' = [reqID EXCEPT ![s] = 0]
    /\ answers' = IF message[id] = None THEN answers ELSE answers \cup {message[id]}
    /\ message' = [message EXCEPT ![id] = None]
    /\ UNCHANGED <<vars, rawRequest, resp, respRecvd, reqIDCounter, user, reset, restarts,
                   said, freed>>

-----------------------------------------------------------------------------
Network == \E s \in Sessions, override \in BOOLEAN : NiRequest(s, override)
User    == \E id \in Requests, answer \in UserSays : Respond(id, answer)
Thread(id) == ThreadClears(id) \/ \E timedOut \in BOOLEAN : ThreadWakes(id, timedOut)

NiNext ==
  \/ NiEngineDown \/ Reset
  \/ Network \/ User \/ RespondIgnores \/ RespondAnswers
  \/ \E id \in Requests : Thread(id)

niAll == <<vars, niVars>>

\* A response thread ends in time, by its timeout if need be, and a handler or
\* a call that has begun goes on.  No user has to answer.
NiFairness ==
  /\ \A id \in Requests : WF_niAll(Thread(id))
  /\ WF_niAll(Reset) /\ WF_niAll(RespondIgnores \/ RespondAnswers)

NiSpec == Init /\ NiInit /\ [][NiNext]_niAll /\ NiFairness

-----------------------------------------------------------------------------
(* Properties. *)

\* The modem is told at most one answer to a request, whatever answers,
\* timeouts and restarts come together.
AnsweredOnce ==
  LET underway == {message[id] : id \in Requests} \ {None} IN
  \A a, b \in answers \cup underway : a[1] = b[1] => a = b

\* Without restarts, one acceptance of the user serves one request: the modem
\* is never told more acceptances than the user has given.
AcceptServesOnce ==
  restarts = 0 =>
    Cardinality({a \in answers : a[2] = "ACCEPT"})
      <= Cardinality({id \in Requests : said[id] = "ACCEPT"})

\* The modem's view of the answers, in states of the right type.
NiInv == NiTypeOK /\ AnsweredOnce /\ AcceptServesOnce

\* No request stays in the way of later ones: it ends by an answer, a timeout
\* or a restart.
RequestsEnd ==
  \A s \in Sessions, id \in Requests : rawRequest[s] = id ~> rawRequest[s] # id

\* What the modem is told of a request is what the user has said to it, or that
\* there was no response: a thread that a restart wakes is "to exit without
\* calling sending data" (loc_eng_ni.cpp:239-241).
AnswerIsForRequest ==
  \A a \in answers : a[2] = "NORESP" \/ a[2] = said[a[1]]
=============================================================================

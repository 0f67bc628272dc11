---------------------------- MODULE LocEngStatus ----------------------------
(***************************************************************************)
(* The status of the GPS engine as the LocEng thread keeps it: what the    *)
(* framework is told of it, the one session that a network-initiated       *)
(* request with privacy override mutes, and the aiding data whose deletion *)
(* waits for the engine to be off (loc_eng.cpp:219-226, 956-963,           *)
(* 1370-1373, 2890-2966; loc_eng_ni.cpp:112-195).                          *)
(*                                                                         *)
(* All of this happens on the LocEng thread, one message after the other,  *)
(* and the modem, the framework and the network only post messages.  So    *)
(* any merge of their messages is an order of these actions, and the queue *)
(* itself adds nothing.  Left out: the begin and end of a session in what  *)
(* the framework is told, which depend on the session flag of              *)
(* LocEngSession and change nothing here.                                  *)
(***************************************************************************)

CONSTANT AidingData    \* the kinds of aiding data (bits of GpsAidingData)

VARIABLES
  engine,    \* engine_status
  session,   \* fix_session_status
  mute,      \* mute_session_state
  aiding,    \* aiding_data_for_deletion
  asked,     \* history: aiding data to delete and not yet deleted
  shown,     \* history: the engine status the framework was last told
  receiver   \* the modem's receiver; down after the modem has crashed

vars == <<engine, session, mute, aiding, asked, shown, receiver>>

EngineStatuses  == {"ENGINE_ON", "ENGINE_OFF"}
SessionStatuses == {"SESSION_BEGIN", "SESSION_END"}
Statuses == EngineStatuses \cup SessionStatuses

TypeOK ==
  /\ engine \in EngineStatuses \cup {"NONE"}
  /\ session \in SessionStatuses \cup {"NONE"}
  /\ mute \in {"NONE", "WAIT", "IN_SESSION"}
  /\ asked \subseteq AidingData
  /\ aiding \subseteq asked
  /\ shown \in EngineStatuses \cup {"NONE"}
  /\ receiver \in {"off", "on", "session", "down"}

Init ==
  /\ engine = "NONE" /\ session = "NONE" /\ mute = "NONE"
  /\ aiding = {} /\ asked = {}
  /\ shown = "NONE"
  /\ receiver = "off"

-----------------------------------------------------------------------------
(* Handlers of the LocEng thread. *)

\* Slips: the mask kept after the deletion; the deletion when the engine is
\* known to be off, not when it is not known to be on.
UpdateKeepsMask(wanted, mask) ==
  /\ aiding' = mask
  /\ asked' = IF engine' = "ENGINE_ON" THEN wanted ELSE wanted \ mask
UpdateOnlyWhenOff(wanted, mask) ==
  \/ engine' = "ENGINE_OFF" /\ aiding' = {} /\ asked' = wanted \ mask
  \/ engine' # "ENGINE_OFF" /\ aiding' = mask /\ asked' = wanted

\* update_aiding_data_for_deletion(), with mask in aiding_data_for_deletion:
\* unless the engine is on, the modem deletes it.
UpdateAidingData(wanted, mask) ==
  \/ engine' # "ENGINE_ON" /\ aiding' = {} /\ asked' = wanted \ mask
  \/ engine' = "ENGINE_ON" /\ aiding' = mask /\ asked' = wanted

\* Slip: only the end of the session ends the muting.
MutedPastEngineOff(st) ==
  CASE mute = "WAIT" /\ st \in {"SESSION_BEGIN", "ENGINE_ON"} -> "IN_SESSION"
    [] mute = "IN_SESSION" /\ st = "SESSION_END" -> "NONE"
    [] OTHER -> mute

\* The muting, switched on and off by a status.
MutedBy(st) ==
  CASE mute = "WAIT" /\ st \in {"SESSION_BEGIN", "ENGINE_ON"} -> "IN_SESSION"
    [] mute = "IN_SESSION" /\ st \in {"SESSION_END", "ENGINE_OFF"} -> "NONE"
    [] OTHER -> mute

\* Slip: the status told before the muting is switched.
TellThenSwitch(st) ==
  /\ mute' = MutedBy(st)
  /\ engine' = IF st \in EngineStatuses THEN st ELSE engine
  /\ session' = IF st \in SessionStatuses THEN st ELSE session
  /\ shown' = IF mute # "IN_SESSION" /\ st \in EngineStatuses THEN st ELSE shown

\* loc_eng_report_status(): the muting is switched first, and what is muted is
\* not told.
Report(st) ==
  /\ mute' = MutedBy(st)
  /\ engine' = IF st \in EngineStatuses THEN st ELSE engine
  /\ session' = IF st \in SessionStatuses THEN st ELSE session
  /\ shown' = IF mute' # "IN_SESSION" /\ st \in EngineStatuses THEN st ELSE shown

\* The receiver of the modem goes through its statuses in order.
ReceiverMoves(st) ==
  \/ st = "ENGINE_ON" /\ receiver \in {"off", "down"} /\ receiver' = "on"
  \/ st = "SESSION_BEGIN" /\ receiver = "on"      /\ receiver' = "session"
  \/ st = "SESSION_END"   /\ receiver = "session" /\ receiver' = "on"
  \/ st = "ENGINE_OFF"    /\ receiver = "on"      /\ receiver' = "off"

ReportStatus(st) ==
  /\ ReceiverMoves(st)
  /\ Report(st)
  /\ UpdateAidingData(asked, aiding)

\* LocEngDelAidData::proc() stores the mask of this request over the one that
\* was waiting.
DelAidData(mask) ==
  /\ UNCHANGED <<engine, session, mute, shown, receiver>>
  /\ UpdateAidingData(asked \cup mask, mask)

\* loc_eng_handle_engine_down(): the status is reported, and no more.
EngineDown ==
  /\ Report("ENGINE_OFF")
  /\ receiver' = "down"
  /\ UNCHANGED <<aiding, asked>>

\* loc_eng_ni_request_handler() with GPS_NI_PRIVACY_OVERRIDE: whatever the
\* muting is at, it waits for the next session.
MuteOneSession ==
  /\ mute' = "WAIT"
  /\ UNCHANGED <<engine, session, aiding, asked, shown, receiver>>

Next ==
  \/ \E st \in Statuses : ReportStatus(st)
  \/ \E mask \in SUBSET AidingData : DelAidData(mask)
  \/ EngineDown
  \/ MuteOneSession

Spec == Init /\ [][Next]_vars

-----------------------------------------------------------------------------
(* Properties. *)

\* The framework is never left with an engine that it was told is on and that
\* is off, whatever was muted in between.
EngineOffIsShown == engine # "ENGINE_ON" => shown # "ENGINE_ON"

\* Muting never outlives what it mutes: the engine is on, or a session is.
MuteWithinSession ==
  mute = "IN_SESSION" => engine = "ENGINE_ON" \/ session = "SESSION_BEGIN"

\* What loc_eng_delete_aiding_data() says: a deletion waits only for an engine
\* that is on.  The restart of the modem is the exception: it turns the engine
\* off and deletes nothing, and the deletion waits for the next status.
DeletionWaitsForOff ==
  aiding # {} => engine = "ENGINE_ON" \/ receiver = "down"

\* Statuses, muting and deletion agree.
StatusInv ==
  TypeOK /\ EngineOffIsShown /\ MuteWithinSession /\ DeletionWaitsForOff
=============================================================================

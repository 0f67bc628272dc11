---------------------------- MODULE InputDisabler ----------------------------
(***************************************************************************)
(* The application that switches the touch screen and the keys off with    *)
(* the display (InputDisabler), and the settings of the touch screen that  *)
(* LineageOS makes (lineagehw).                                            *)
(*                                                                         *)
(* Everything of the application runs on its main thread, in the order in  *)
(* which broadcasts, sensor events and delayed tasks arrive; the display   *)
(* does not wait for it.  The application may be killed and is then        *)
(* started again.  A write to a node of the kernel succeeds.               *)
(***************************************************************************)
EXTENDS Naturals, Sequences

CONSTANTS
  Gestures,      \* that the touch screen knows
  MaxIntents,    \* bound: broadcasts on their way
  MaxDozes,      \* bound: delayed tasks
  MaxKills       \* bound: kills

ASSUME InputAssumption == MaxIntents \in Nat /\ MaxDozes \in Nat /\ MaxKills \in Nat

VARIABLES
  display,       \* "on", "off", "doze"
  doubleTap, forceDisable, callState,   \* what the application reads
  intents,       \* broadcasts on their way to it
  running,       \* is its receiver registered?
  mScreenState,
  dozeTasks,     \* the delayed tasks: does each know of the double tap?
  listening,    \* does the proximity sensor report?
  touch, keys,   \* are the devices on?
  gestureMode, gestureControl,          \* settings of the touch screen
  covered,       \* history: proximity, since the display was last known on
  tapWhenOff, forcedWhenOn,             \* history: what was read then
  kills, deaf    \* history: was it killed since the display was last known on?

inputVars == <<display, doubleTap, forceDisable, callState, intents, running, mScreenState, dozeTasks,
  listening, touch, keys, gestureMode, gestureControl, covered, tapWhenOff, forcedWhenOn, kills, deaf>>

world    == <<display, doubleTap, forceDisable, callState>>
settings == <<gestureMode, gestureControl>>
devices  == <<touch, keys, covered, tapWhenOff, forcedWhenOn, deaf>>

InputTypeOK ==
  /\ display \in {"on", "off", "doze"} /\ mScreenState \in {"STATE_OFF", "STATE_ON", "STATE_DOZE"}
  /\ callState \in {"IDLE", "RINGING", "OFFHOOK"}
  /\ Len(intents) <= MaxIntents /\ dozeTasks \in Seq(BOOLEAN) /\ Len(dozeTasks) <= MaxDozes
  /\ gestureMode \subseteq Gestures

InputInit ==
  /\ display = "on" /\ doubleTap \in BOOLEAN /\ forceDisable = FALSE /\ callState = "IDLE"
  /\ intents = <<>> /\ running = FALSE /\ mScreenState = "STATE_OFF" /\ dozeTasks = <<>>
  /\ listening = FALSE
  /\ touch = TRUE /\ keys = TRUE
  /\ gestureMode = {} /\ gestureControl = FALSE
  /\ covered = FALSE /\ tapWhenOff = TRUE /\ forcedWhenOn = FALSE /\ kills = 0 /\ deaf = FALSE

-----------------------------------------------------------------------------
(* The phone around the application. *)

\* A broadcast reaches those who are registered when it is sent.
Broadcast(action) ==
  IF running THEN Len(intents) < MaxIntents /\ intents' = Append(intents, action) ELSE UNCHANGED intents

DisplayChanges(to) ==
  /\ to # display /\ (to = "doze" => display = "off") /\ display' = to
  /\ Broadcast(CASE to = "on" -> "SCREEN_ON" [] to = "off" -> "SCREEN_OFF" [] OTHER -> "DOZE_PULSE_STARTING")
  /\ deaf' = IF to = "on" /\ ~running THEN TRUE ELSE deaf
  /\ UNCHANGED <<doubleTap, forceDisable, callState, running, mScreenState, dozeTasks, listening, touch, keys, covered,
       tapWhenOff, forcedWhenOn, settings, kills>>

CallChanges(to) ==
  /\ to # callState /\ callState' = to
  /\ Broadcast("PHONE_STATE_CHANGED")
  /\ UNCHANGED <<display, doubleTap, forceDisable, running, mScreenState, dozeTasks, listening, devices, settings, kills>>

UserSets ==
  /\ \/ doubleTap' = ~doubleTap /\ UNCHANGED forceDisable
     \/ forceDisable' = ~forceDisable /\ UNCHANGED doubleTap
  /\ UNCHANGED <<display, callState, intents, running, mScreenState, dozeTasks, listening, devices, settings, kills>>

\* BootCompleteReceiver starts the service, and the system starts it again.
StartCommand ==
  /\ ~running /\ running' = TRUE
  /\ UNCHANGED <<world, intents, mScreenState, dozeTasks, listening, devices, settings, kills>>

Killed ==
  /\ running /\ kills < MaxKills /\ kills' = kills + 1
  /\ running' = FALSE /\ intents' = <<>> /\ dozeTasks' = <<>>
  /\ mScreenState' = "STATE_OFF" /\ listening' = FALSE /\ deaf' = TRUE
  /\ UNCHANGED <<world, touch, keys, covered, tapWhenOff, forcedWhenOn, settings>>

-----------------------------------------------------------------------------
(* Device, and the handlers of ScreenStateReceiver. *)

\* Keys that are forced off are not switched on; the touch screen is switched on,
\* off and on again.
HandleScreenOn(withKeys) ==
  /\ touch' = TRUE
  /\ keys' = IF withKeys /\ ~forceDisable THEN TRUE ELSE keys
  /\ forcedWhenOn' = IF withKeys THEN forceDisable ELSE forcedWhenOn

\* With double tap the touch screen stays as it is.
HandleScreenOff(tap) ==
  /\ keys' = FALSE /\ touch' = IF tap THEN touch ELSE FALSE
  /\ tapWhenOff' = tap

Receives(action) == intents # <<>> /\ Head(intents) = action /\ intents' = Tail(intents)

ScreenOn ==
  /\ Receives("SCREEN_ON")
  /\ HandleScreenOn(TRUE) /\ mScreenState' = "STATE_ON"
  /\ covered' = FALSE /\ deaf' = FALSE
  /\ UNCHANGED <<world, running, dozeTasks, listening, tapWhenOff, settings, kills>>

ScreenOff ==
  /\ Receives("SCREEN_OFF")
  /\ HandleScreenOff(doubleTap) /\ mScreenState' = "STATE_OFF"
  /\ UNCHANGED <<world, running, dozeTasks, listening, forcedWhenOn, covered, deaf, settings, kills>>

\* A pulse lights the touch screen, not the keys, and posts a task for its end.
DozePulse ==
  /\ Receives("DOZE_PULSE_STARTING") /\ Len(dozeTasks) < MaxDozes
  /\ HandleScreenOn(FALSE) /\ mScreenState' = "STATE_DOZE"
  /\ dozeTasks' = Append(dozeTasks, doubleTap)
  /\ UNCHANGED <<world, running, listening, tapWhenOff, covered, deaf, settings, kills>>

\* Slip: the task does not look at the state.
DozeTaskAlways ==
  /\ dozeTasks # <<>> /\ dozeTasks' = Tail(dozeTasks)
  /\ mScreenState' = "STATE_OFF" /\ HandleScreenOff(Head(dozeTasks))
  /\ UNCHANGED <<world, intents, running, listening, forcedWhenOn, covered, deaf, settings, kills>>

\* The task ends the doze that it finds, also a later one than its own, with
\* the double tap of its own.
DozeTask ==
  /\ dozeTasks # <<>> /\ dozeTasks' = Tail(dozeTasks)
  /\ IF mScreenState = "STATE_DOZE"
       THEN mScreenState' = "STATE_OFF" /\ HandleScreenOff(Head(dozeTasks))
       ELSE UNCHANGED <<mScreenState, touch, keys, tapWhenOff>>
  /\ UNCHANGED <<world, intents, running, listening, forcedWhenOn, covered, deaf, settings, kills>>

\* The state of the call is read when the broadcast is handled.
PhoneState ==
  /\ Receives("PHONE_STATE_CHANGED")
  /\ CASE callState = "OFFHOOK" ->
            listening' = TRUE /\ UNCHANGED <<mScreenState, touch, keys, forcedWhenOn, covered, deaf>>
       [] callState = "IDLE" ->
            /\ listening' = FALSE
            /\ IF mScreenState # "STATE_ON"
                 THEN HandleScreenOn(TRUE) /\ mScreenState' = "STATE_ON" /\ covered' = FALSE /\ deaf' = FALSE
                 ELSE UNCHANGED <<mScreenState, touch, keys, forcedWhenOn, covered, deaf>>
       [] OTHER -> UNCHANGED <<listening, mScreenState, touch, keys, forcedWhenOn, covered, deaf>>
  /\ UNCHANGED <<world, running, dozeTasks, tapWhenOff, settings, kills>>

\* onSensorChanged()
Proximity(near) ==
  /\ listening /\ covered' = near
  /\ IF near
       THEN HandleScreenOff(FALSE) /\ mScreenState' = "STATE_OFF" /\ UNCHANGED <<forcedWhenOn, deaf>>
       ELSE HandleScreenOn(TRUE) /\ mScreenState' = "STATE_ON" /\ deaf' = FALSE /\ UNCHANGED tapWhenOff
  /\ UNCHANGED <<world, intents, running, dozeTasks, listening, settings, kills>>

-----------------------------------------------------------------------------
(* lineagehw: nodes of the touch screen's driver. *)

\* setGestureEnabled() reads the mode, changes a bit of it and writes it; the
\* other settings are single writes.
SetGestureEnabled(gesture, state) ==
  LET mode == IF state THEN gestureMode \cup {gesture} ELSE gestureMode \ {gesture} IN
  /\ gestureMode' = mode
  /\ gestureControl' = (gestureControl \/ mode # {})
  /\ UNCHANGED <<world, intents, running, mScreenState, dozeTasks, listening, devices, kills>>

InputNext ==
  \/ \E to \in {"on", "off", "doze"} : DisplayChanges(to)
  \/ \E to \in {"IDLE", "RINGING", "OFFHOOK"} : CallChanges(to)
  \/ UserSets \/ StartCommand \/ Killed
  \/ ScreenOn \/ ScreenOff \/ DozePulse \/ DozeTask \/ PhoneState \/ \E near \in BOOLEAN : Proximity(near)
  \/ \E gesture \in Gestures, state \in BOOLEAN : SetGestureEnabled(gesture, state)

InputSpec == InputInit /\ [][InputNext]_inputVars

-----------------------------------------------------------------------------
(* Properties. *)

\* What the application believes of the display and what it has made of the
\* devices agree, whichever event was the last: all is on in STATE_ON but keys that
\* were forced off; in STATE_OFF only a double tap leaves the touch screen on.
DevicesFollowState ==
  /\ mScreenState = "STATE_ON" => touch /\ (keys \/ forcedWhenOn)
  /\ mScreenState = "STATE_DOZE" => touch
  /\ mScreenState = "STATE_OFF" /\ running /\ kills = 0 /\ ~keys /\ touch => tapWhenOff

\* A doze has a task that will end it.
DozeWillEnd == mScreenState = "STATE_DOZE" => dozeTasks # <<>>

\* Who looks at a lit display can touch it, once the application has heard of all,
\* unless a hand covers it or the application was killed.
LitScreenAnswers ==
  running /\ display = "on" /\ intents = <<>> /\ ~covered /\ ~deaf => touch

InputInv == InputTypeOK /\ DevicesFollowState /\ DozeWillEnd /\ LitScreenAnswers

\* The end of a call switches the touch screen on whatever the display does.
DarkScreenIsDeaf ==
  running /\ display = "off" /\ intents = <<>> /\ callState = "IDLE" /\ kills = 0 /\ mScreenState # "STATE_DOZE" /\ touch
    => tapWhenOff

=============================================================================

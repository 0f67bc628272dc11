--------------------------- MODULE UtilitiesProofs ---------------------------
(***************************************************************************)
(* The components that share no state, each for every value of its         *)
(* constants: the input disabler, the entry points of the GPS library, the *)
(* assistance data and the name of the phone to its servers, the server    *)
(* for the daemons, the configuration files, the wrappers (the cameras,    *)
(* and the helpers of the sensors, the lights and the Wi-Fi address), and  *)
(* the reports of satellites and positions.                                *)
(***************************************************************************)
EXTENDS Integers, InputDisabler, LocHal, Assistance, LocEngDmnConn, LocCfg, Wrappers, GnssReports,
        SequenceTheorems, FiniteSetTheorems, WellFoundedInduction, TLAPS

-----------------------------------------------------------------------------
(* Queues. *)

\* A message that is sent comes last.
LEMMA Sent ==
  ASSUME NEW S, NEW q \in Seq(S), NEW x \in S, NEW r, r = Append(q, x)
  PROVE  /\ r \in Seq(S) /\ Len(r) = Len(q) + 1 /\ r # <<>>
         /\ \A i \in DOMAIN q : i \in DOMAIN r /\ r[i] = q[i]
         /\ Len(q) + 1 \in DOMAIN r /\ r[Len(q) + 1] = x
         /\ \A i \in DOMAIN r : i \in DOMAIN q \/ (i = Len(q) + 1 /\ r[i] = x)
         /\ \A i \in DOMAIN q : i < Len(q) + 1
  OBVIOUS

\* The first message is the one that is taken.
LEMMA Taken ==
  ASSUME NEW S, NEW q \in Seq(S), q # <<>>, NEW r, r = Tail(q)
  PROVE  /\ r \in Seq(S) /\ Len(r) = Len(q) - 1 /\ Head(q) \in S /\ Head(q) = q[1] /\ 1 \in DOMAIN q
         /\ \A i \in DOMAIN r : i \in Nat /\ i + 1 \in DOMAIN q /\ r[i] = q[i + 1]
         /\ \A i \in DOMAIN q : i \in Nat /\ (i = 1 \/ (i - 1 \in DOMAIN r /\ r[i - 1] = q[i]))
  OBVIOUS

-----------------------------------------------------------------------------
(* The input disabler. *)

Broadcasts == {"SCREEN_ON", "SCREEN_OFF", "DOZE_PULSE_STARTING", "PHONE_STATE_CHANGED"}
Dark       == {"SCREEN_OFF", "DOZE_PULSE_STARTING"}

InputTypes ==
  /\ display \in {"on", "off", "doze"} /\ doubleTap \in BOOLEAN /\ forceDisable \in BOOLEAN
  /\ callState \in {"IDLE", "RINGING", "OFFHOOK"}
  /\ intents \in Seq(Broadcasts) /\ Len(intents) <= MaxIntents
  /\ running \in BOOLEAN /\ mScreenState \in {"STATE_OFF", "STATE_ON", "STATE_DOZE"}
  /\ dozeTasks \in Seq(BOOLEAN) /\ Len(dozeTasks) <= MaxDozes
  /\ listening \in BOOLEAN /\ touch \in BOOLEAN /\ keys \in BOOLEAN
  /\ gestureMode \subseteq Gestures
  /\ covered \in BOOLEAN /\ tapWhenOff \in BOOLEAN /\ forcedWhenOn \in BOOLEAN
  /\ kills \in Nat /\ deaf \in BOOLEAN

\* The last that an application hears of a display that is on is that it is.
LightIsLast ==
  display = "on" =>
    \A i \in DOMAIN intents : intents[i] \in Dark => \E j \in DOMAIN intents : j > i /\ intents[j] = "SCREEN_ON"

\* A display that is on has switched the touch screen on or is about to, and no
\* doze is left to switch it off.
LightArrives ==
  display = "on" /\ ~deaf =>
    \/ \E i \in DOMAIN intents : intents[i] = "SCREEN_ON"
    \/ covered
    \/ touch /\ mScreenState # "STATE_DOZE"

\* An application that does not run has no broadcasts, no tasks and no sensor; and
\* one that has never run has switched nothing off.
RestsUnstarted ==
  ~running =>
    /\ intents = <<>> /\ dozeTasks = <<>> /\ mScreenState = "STATE_OFF" /\ ~listening
    /\ kills = 0 => keys
    /\ ~deaf => touch

InputIInv == InputTypes /\ DevicesFollowState /\ DozeWillEnd /\ LightIsLast /\ LightArrives /\ RestsUnstarted

LEMMA InputStarts == InputInit => InputIInv
<1> SUFFICES ASSUME InputInit PROVE InputIInv
  OBVIOUS
<1>1. <<>> \in Seq(Broadcasts) /\ <<>> \in Seq(BOOLEAN) /\ Len(<<>>) = 0
  BY EmptySeq
<1>2. InputTypes
  <2>1. intents \in Seq(Broadcasts) /\ Len(intents) <= MaxIntents /\ dozeTasks \in Seq(BOOLEAN) /\ Len(dozeTasks) <= MaxDozes
    BY <1>1, InputAssumption DEF InputInit
  <2> QED
    BY <2>1 DEF InputInit, InputTypes
<1> QED
  BY <1>2 DEF InputInit, InputIInv, DevicesFollowState, DozeWillEnd, LightIsLast, LightArrives, RestsUnstarted

\* A broadcast on its way.
LEMMA BroadcastArrives ==
  ASSUME NEW q \in Seq(Broadcasts), NEW x \in Broadcasts, NEW r, r = Append(q, x)
  PROVE  /\ \A i \in DOMAIN q : q[i] = "SCREEN_ON" => \E j \in DOMAIN r : r[j] = "SCREEN_ON"
         /\ x = "SCREEN_ON" => \E j \in DOMAIN r : r[j] = "SCREEN_ON"
         /\ x = "SCREEN_ON" => \A i \in DOMAIN r : r[i] \in Dark => \E j \in DOMAIN r : j > i /\ r[j] = "SCREEN_ON"
         /\ x \notin Dark /\ (\A i \in DOMAIN q : q[i] \in Dark => \E j \in DOMAIN q : j > i /\ q[j] = "SCREEN_ON") =>
              \A i \in DOMAIN r : r[i] \in Dark => \E j \in DOMAIN r : j > i /\ r[j] = "SCREEN_ON"
<1> DEFINE n == Len(q) + 1
<1>1. /\ \A i \in DOMAIN q : i \in DOMAIN r /\ r[i] = q[i] /\ i < n
      /\ n \in DOMAIN r /\ r[n] = x
      /\ \A i \in DOMAIN r : i \in DOMAIN q \/ (i = n /\ r[i] = x)
  BY Sent
<1> HIDE DEF n
<1> QED
  BY <1>1 DEF Dark

\* A broadcast that is handled.
LEMMA BroadcastLeaves ==
  ASSUME NEW q \in Seq(Broadcasts), q # <<>>, NEW r, r = Tail(q)
  PROVE  /\ \A i \in DOMAIN q : q[i] = "SCREEN_ON" => Head(q) = "SCREEN_ON" \/ \E j \in DOMAIN r : r[j] = "SCREEN_ON"
         /\ (\A i \in DOMAIN q : q[i] \in Dark => \E j \in DOMAIN q : j > i /\ q[j] = "SCREEN_ON") =>
              /\ \A i \in DOMAIN r : r[i] \in Dark => \E j \in DOMAIN r : j > i /\ r[j] = "SCREEN_ON"
              /\ Head(q) \in Dark => \E j \in DOMAIN r : r[j] = "SCREEN_ON"
<1>1. /\ Head(q) = q[1] /\ 1 \in DOMAIN q
      /\ \A i \in DOMAIN r : i \in Nat /\ i + 1 \in DOMAIN q /\ r[i] = q[i + 1]
      /\ \A i \in DOMAIN q : i \in Nat /\ (i = 1 \/ (i - 1 \in DOMAIN r /\ r[i - 1] = q[i]))
  BY Taken
<1>2. \A i \in DOMAIN q : q[i] = "SCREEN_ON" => Head(q) = "SCREEN_ON" \/ \E j \in DOMAIN r : r[j] = "SCREEN_ON"
  BY <1>1
<1>3. ASSUME \A i \in DOMAIN q : q[i] \in Dark => \E j \in DOMAIN q : j > i /\ q[j] = "SCREEN_ON"
      PROVE  /\ \A i \in DOMAIN r : r[i] \in Dark => \E j \in DOMAIN r : j > i /\ r[j] = "SCREEN_ON"
             /\ Head(q) \in Dark => \E j \in DOMAIN r : r[j] = "SCREEN_ON"
  <2>1. ASSUME NEW i \in DOMAIN r, r[i] \in Dark PROVE \E j \in DOMAIN r : j > i /\ r[j] = "SCREEN_ON"
    <3>1. PICK j \in DOMAIN q : j > i + 1 /\ q[j] = "SCREEN_ON"
      BY <1>1, <1>3, <2>1
    <3>2. j - 1 \in DOMAIN r /\ r[j - 1] = "SCREEN_ON" /\ j - 1 > i
      BY <1>1, <2>1, <3>1
    <3> QED
      BY <3>2
  <2>2. ASSUME Head(q) \in Dark PROVE \E j \in DOMAIN r : r[j] = "SCREEN_ON"
    <3>1. PICK j \in DOMAIN q : j > 1 /\ q[j] = "SCREEN_ON"
      BY <1>1, <1>3, <2>2
    <3>2. j - 1 \in DOMAIN r /\ r[j - 1] = "SCREEN_ON"
      BY <1>1, <3>1
    <3> QED
      BY <3>2
  <2> QED
    BY <2>1, <2>2
<1> QED
  BY <1>2, <1>3


LEMMA BroadcastSent ==
  ASSUME InputTypes, NEW x \in Broadcasts, Broadcast(x)
  PROVE  /\ intents' \in Seq(Broadcasts) /\ Len(intents') <= MaxIntents
         /\ running => intents' = Append(intents, x)
         /\ ~running => intents' = intents
<1>1. CASE running
  <2>1. /\ Len(intents) < MaxIntents /\ intents' = Append(intents, x)
        /\ intents \in Seq(Broadcasts)
    BY <1>1 DEF Broadcast, InputTypes
  <2> QED
    BY <1>1, <2>1, InputAssumption
<1>2. CASE ~running
  BY <1>2 DEF Broadcast, InputTypes
<1> QED
  BY <1>1, <1>2

LEMMA DisplayKeeps ==
  ASSUME InputIInv, NEW to \in {"on", "off", "doze"}, DisplayChanges(to)
  PROVE  InputIInv'
<1> DEFINE x == CASE to = "on" -> "SCREEN_ON" [] to = "off" -> "SCREEN_OFF" [] OTHER -> "DOZE_PULSE_STARTING"
<1>1. x \in Broadcasts /\ (to = "on" => x = "SCREEN_ON")
  <2>1. CASE to = "on"
    <3>1. x = "SCREEN_ON"
      BY <2>1
    <3> QED
      BY <3>1 DEF Broadcasts
  <2>2. CASE to = "off"
    <3>1. x = "SCREEN_OFF"
      BY <2>2, "off" # "on"
    <3> QED
      BY <2>2, <3>1 DEF Broadcasts
  <2>3. CASE to = "doze"
    <3>1. x = "DOZE_PULSE_STARTING"
      BY <2>3, "doze" # "on", "doze" # "off"
    <3> QED
      BY <2>3, <3>1 DEF Broadcasts
  <2> QED
    BY <2>1, <2>2, <2>3
<1>2. Broadcast(x) /\ display' = to /\ (deaf' = IF to = "on" /\ ~running THEN TRUE ELSE deaf)
  BY DEF DisplayChanges
<1> HIDE DEF x
<1>3. UNCHANGED <<doubleTap, forceDisable, callState, running, mScreenState, dozeTasks, listening, touch, keys, covered,
                  tapWhenOff, forcedWhenOn, gestureMode, kills>>
  BY DEF DisplayChanges, settings
<1>4. InputTypes
  BY DEF InputIInv
<1>5. /\ intents' \in Seq(Broadcasts) /\ Len(intents') <= MaxIntents
      /\ running => intents' = Append(intents, x)
      /\ ~running => intents' = intents
  BY <1>1, <1>2, <1>4, BroadcastSent
<1>6. InputTypes'
  <2>1. display' \in {"on", "off", "doze"} /\ deaf' \in BOOLEAN
    BY <1>2, <1>4 DEF InputTypes
  <2> QED
    BY <1>3, <1>4, <1>5, <2>1 DEF InputTypes
<1>7. DevicesFollowState' /\ DozeWillEnd'
  BY <1>3 DEF InputIInv, DevicesFollowState, DozeWillEnd
<1>8. RestsUnstarted'
  BY <1>2, <1>3, <1>5 DEF InputIInv, RestsUnstarted
<1>9. LightIsLast' /\ LightArrives'
  <2>1. CASE to = "on" /\ running
    <3>1. intents \in Seq(Broadcasts) /\ intents' = Append(intents, x) /\ x = "SCREEN_ON"
      BY <1>1, <1>4, <1>5, <2>1 DEF InputTypes
    <3>2. PICK r : r = intents'
      OBVIOUS
    <3>3. /\ \E j \in DOMAIN r : r[j] = "SCREEN_ON"
          /\ \A i \in DOMAIN r : r[i] \in Dark => \E j \in DOMAIN r : j > i /\ r[j] = "SCREEN_ON"
      BY <1>1, <3>1, <3>2, BroadcastArrives
    <3> QED
      BY <3>2, <3>3 DEF LightIsLast, LightArrives
  <2>2. CASE to = "on" /\ ~running
    <3>1. intents' = <<>> /\ deaf'
      BY <1>2, <1>5, <2>2 DEF InputIInv, RestsUnstarted
    <3> QED
      BY <3>1 DEF LightIsLast, LightArrives
  <2>3. CASE to # "on"
    BY <1>2, <2>3 DEF LightIsLast, LightArrives
  <2> QED
    BY <2>1, <2>2, <2>3
<1> QED
  BY <1>6, <1>7, <1>8, <1>9 DEF InputIInv

LEMMA CallKeepsInput ==
  ASSUME InputIInv, NEW to \in {"IDLE", "RINGING", "OFFHOOK"}, CallChanges(to)
  PROVE  InputIInv'
<1>1. /\ Broadcast("PHONE_STATE_CHANGED") /\ callState' = to
      /\ UNCHANGED <<display, doubleTap, forceDisable, running, mScreenState, dozeTasks, listening, touch, keys, covered,
                     tapWhenOff, forcedWhenOn, deaf, gestureMode, kills>>
  BY DEF CallChanges, settings, devices
<1>2. InputTypes /\ "PHONE_STATE_CHANGED" \in Broadcasts /\ "PHONE_STATE_CHANGED" \notin Dark
  BY DEF InputIInv, Broadcasts, Dark
<1>3. /\ intents' \in Seq(Broadcasts) /\ Len(intents') <= MaxIntents
      /\ running => intents' = Append(intents, "PHONE_STATE_CHANGED")
      /\ ~running => intents' = intents
  BY <1>1, <1>2, BroadcastSent
<1>4. InputTypes'
  BY <1>1, <1>2, <1>3 DEF InputTypes
<1>5. DevicesFollowState' /\ DozeWillEnd'
  BY <1>1 DEF InputIInv, DevicesFollowState, DozeWillEnd
<1>6. RestsUnstarted'
  BY <1>1, <1>3 DEF InputIInv, RestsUnstarted
<1>7. LightIsLast' /\ LightArrives'
  <2>1. CASE running
    <3>1. intents \in Seq(Broadcasts) /\ intents' = Append(intents, "PHONE_STATE_CHANGED")
      BY <1>2, <1>3, <2>1 DEF InputTypes
    <3>2. PICK r : r = intents'
      OBVIOUS
    <3> DEFINE x == "PHONE_STATE_CHANGED"
    <3>x. x \in Broadcasts /\ x \notin Dark /\ r = Append(intents, x)
      BY <1>2, <3>1, <3>2
    <3> HIDE DEF x
    <3>3. /\ \A i \in DOMAIN intents : intents[i] = "SCREEN_ON" => \E j \in DOMAIN r : r[j] = "SCREEN_ON"
          /\ (\A i \in DOMAIN intents : intents[i] \in Dark => \E j \in DOMAIN intents : j > i /\ intents[j] = "SCREEN_ON") =>
                \A i \in DOMAIN r : r[i] \in Dark => \E j \in DOMAIN r : j > i /\ r[j] = "SCREEN_ON"
      BY <3>1, <3>x, BroadcastArrives
    <3> QED
      BY <1>1, <3>2, <3>3 DEF InputIInv, LightIsLast, LightArrives
  <2>2. CASE ~running
    BY <1>1, <1>3, <2>2 DEF InputIInv, LightIsLast, LightArrives
  <2> QED
    BY <2>1, <2>2
<1> QED
  BY <1>4, <1>5, <1>6, <1>7 DEF InputIInv

LEMMA UserKeeps ==
  ASSUME InputIInv, UserSets
  PROVE  InputIInv'
<1>1. /\ doubleTap' \in BOOLEAN /\ forceDisable' \in BOOLEAN
      /\ UNCHANGED <<display, callState, intents, running, mScreenState, dozeTasks, listening, touch, keys, covered,
                     tapWhenOff, forcedWhenOn, deaf, gestureMode, kills>>
  BY DEF UserSets, settings, devices, InputIInv, InputTypes
<1> QED
  BY <1>1 DEF InputIInv, InputTypes, DevicesFollowState, DozeWillEnd, LightIsLast, LightArrives, RestsUnstarted

LEMMA StartKeeps ==
  ASSUME InputIInv, StartCommand
  PROVE  InputIInv'
<1>1. /\ ~running /\ running' = TRUE
      /\ UNCHANGED <<display, doubleTap, forceDisable, callState, intents, mScreenState, dozeTasks, listening, touch, keys,
                     covered, tapWhenOff, forcedWhenOn, deaf, gestureMode, kills>>
  BY DEF StartCommand, settings, devices, world
<1>2. InputTypes' /\ DozeWillEnd' /\ LightIsLast' /\ LightArrives' /\ RestsUnstarted'
  BY <1>1 DEF InputIInv, InputTypes, DozeWillEnd, LightIsLast, LightArrives, RestsUnstarted
<1>3. DevicesFollowState'
  BY <1>1 DEF InputIInv, DevicesFollowState, RestsUnstarted
<1> QED
  BY <1>2, <1>3 DEF InputIInv

LEMMA KilledKeeps ==
  ASSUME InputIInv, Killed
  PROVE  InputIInv'
<1>1. /\ running /\ kills' = kills + 1 /\ running' = FALSE /\ intents' = <<>> /\ dozeTasks' = <<>>
      /\ mScreenState' = "STATE_OFF" /\ listening' = FALSE /\ deaf' = TRUE
      /\ UNCHANGED <<display, doubleTap, forceDisable, callState, touch, keys, covered, tapWhenOff, forcedWhenOn, gestureMode>>
  BY DEF Killed, settings, world
<1>2. intents' \in Seq(Broadcasts) /\ Len(intents') = 0 /\ dozeTasks' \in Seq(BOOLEAN) /\ Len(dozeTasks') = 0
  BY <1>1, EmptySeq
<1>3. /\ intents' \in Seq(Broadcasts) /\ Len(intents') <= MaxIntents
      /\ dozeTasks' \in Seq(BOOLEAN) /\ Len(dozeTasks') <= MaxDozes
      /\ kills' \in Nat /\ kills' # 0
  BY <1>1, <1>2, InputAssumption DEF InputIInv, InputTypes
<1>4. InputTypes'
  BY <1>1, <1>3 DEF InputIInv, InputTypes
<1> QED
  BY <1>1, <1>3, <1>4 DEF InputIInv, DevicesFollowState, DozeWillEnd, LightIsLast, LightArrives, RestsUnstarted

LEMMA GestureKeeps ==
  ASSUME InputIInv, NEW gesture \in Gestures, NEW on \in BOOLEAN, SetGestureEnabled(gesture, on)
  PROVE  InputIInv'
<1>1. /\ gestureMode' \subseteq Gestures
      /\ UNCHANGED <<display, doubleTap, forceDisable, callState, intents, running, mScreenState, dozeTasks, listening, touch,
                     keys, covered, tapWhenOff, forcedWhenOn, deaf, kills>>
  BY DEF SetGestureEnabled, devices, world, InputIInv, InputTypes
<1> QED
  BY <1>1 DEF InputIInv, InputTypes, DevicesFollowState, DozeWillEnd, LightIsLast, LightArrives, RestsUnstarted

\* What the application hears was in its queue, and the news of the light stay last.
LEMMA Received ==
  ASSUME InputIInv, NEW x, Receives(x), display' = display
  PROVE  /\ running /\ intents' \in Seq(Broadcasts) /\ Len(intents') <= MaxIntents
         /\ LightIsLast'
         /\ display = "on" /\ x \in Dark => \E j \in DOMAIN intents' : intents'[j] = "SCREEN_ON"
         /\ (\E i \in DOMAIN intents : intents[i] = "SCREEN_ON") =>
               x = "SCREEN_ON" \/ \E j \in DOMAIN intents' : intents'[j] = "SCREEN_ON"
<1>1. intents \in Seq(Broadcasts) /\ intents # <<>> /\ intents' = Tail(intents) /\ Head(intents) = x
  BY DEF Receives, InputIInv, InputTypes
<1>2. PICK r : r = intents'
  OBVIOUS
<1>3. /\ \A i \in DOMAIN intents : intents[i] = "SCREEN_ON" => x = "SCREEN_ON" \/ \E j \in DOMAIN r : r[j] = "SCREEN_ON"
      /\ (\A i \in DOMAIN intents : intents[i] \in Dark => \E j \in DOMAIN intents : j > i /\ intents[j] = "SCREEN_ON") =>
           /\ \A i \in DOMAIN r : r[i] \in Dark => \E j \in DOMAIN r : j > i /\ r[j] = "SCREEN_ON"
           /\ x \in Dark => \E j \in DOMAIN r : r[j] = "SCREEN_ON"
  BY <1>1, <1>2, BroadcastLeaves
<1>4. r \in Seq(Broadcasts) /\ Len(r) = Len(intents) - 1
  BY <1>1, <1>2, Taken
<1>5. Len(r) <= MaxIntents
  <2>1. Len(intents) \in Nat /\ Len(intents) <= MaxIntents
    BY <1>1 DEF InputIInv, InputTypes
  <2> QED
    BY <1>4, <2>1, InputAssumption
<1>6. running
  BY <1>1 DEF InputIInv, RestsUnstarted, InputTypes
<1> QED
  BY <1>2, <1>3, <1>4, <1>5, <1>6 DEF InputIInv, LightIsLast

LEMMA ScreenOnKeeps ==
  ASSUME InputIInv, ScreenOn
  PROVE  InputIInv'
<1>1. /\ Receives("SCREEN_ON") /\ touch' = TRUE /\ keys' = (IF ~forceDisable THEN TRUE ELSE keys)
      /\ forcedWhenOn' = forceDisable /\ mScreenState' = "STATE_ON" /\ covered' = FALSE /\ deaf' = FALSE
      /\ UNCHANGED <<display, doubleTap, forceDisable, callState, running, dozeTasks, listening, tapWhenOff, gestureMode, kills>>
  BY DEF ScreenOn, HandleScreenOn, world, settings
<1>2. /\ running /\ intents' \in Seq(Broadcasts) /\ Len(intents') <= MaxIntents
      /\ LightIsLast'
  BY <1>1, Received
<1>3. InputTypes'
  BY <1>1, <1>2 DEF InputIInv, InputTypes
<1>4. DevicesFollowState' /\ DozeWillEnd' /\ LightArrives' /\ RestsUnstarted'
  BY <1>1, <1>2 DEF InputIInv, InputTypes, DevicesFollowState, DozeWillEnd, LightArrives, RestsUnstarted
<1> QED
  BY <1>2, <1>3, <1>4 DEF InputIInv

LEMMA ScreenOffKeeps ==
  ASSUME InputIInv, ScreenOff
  PROVE  InputIInv'
<1>1. /\ Receives("SCREEN_OFF") /\ keys' = FALSE /\ touch' = (IF doubleTap THEN touch ELSE FALSE)
      /\ tapWhenOff' = doubleTap /\ mScreenState' = "STATE_OFF"
      /\ UNCHANGED <<display, doubleTap, forceDisable, callState, running, dozeTasks, listening, forcedWhenOn, covered, deaf,
                     gestureMode, kills>>
  BY DEF ScreenOff, HandleScreenOff, world, settings
<1>2. /\ running /\ intents' \in Seq(Broadcasts) /\ Len(intents') <= MaxIntents
      /\ LightIsLast'
      /\ display = "on" => \E j \in DOMAIN intents' : intents'[j] = "SCREEN_ON"
  BY <1>1, Received DEF Dark
<1>3. InputTypes'
  BY <1>1, <1>2 DEF InputIInv, InputTypes
<1>4. LightArrives'
  BY <1>1, <1>2 DEF LightArrives
<1>5. DevicesFollowState' /\ DozeWillEnd' /\ RestsUnstarted'
  BY <1>1, <1>2 DEF InputIInv, InputTypes, DevicesFollowState, DozeWillEnd, RestsUnstarted
<1> QED
  BY <1>2, <1>3, <1>4, <1>5 DEF InputIInv

LEMMA DozePulseKeeps ==
  ASSUME InputIInv, DozePulse
  PROVE  InputIInv'
<1>1. /\ Receives("DOZE_PULSE_STARTING") /\ touch' = TRUE /\ keys' = keys /\ forcedWhenOn' = forcedWhenOn
      /\ mScreenState' = "STATE_DOZE" /\ Len(dozeTasks) < MaxDozes /\ dozeTasks' = Append(dozeTasks, doubleTap)
      /\ UNCHANGED <<display, doubleTap, forceDisable, callState, running, listening, tapWhenOff, covered, deaf, gestureMode, kills>>
  BY DEF DozePulse, HandleScreenOn, world, settings
<1>2. /\ running /\ intents' \in Seq(Broadcasts) /\ Len(intents') <= MaxIntents
      /\ LightIsLast'
      /\ display = "on" => \E j \in DOMAIN intents' : intents'[j] = "SCREEN_ON"
  BY <1>1, Received DEF Dark
<1>3. dozeTasks' \in Seq(BOOLEAN) /\ Len(dozeTasks') <= MaxDozes /\ dozeTasks' # <<>>
  <2>1. dozeTasks \in Seq(BOOLEAN) /\ doubleTap \in BOOLEAN /\ Len(dozeTasks) \in Nat
    BY DEF InputIInv, InputTypes
  <2>2. dozeTasks' \in Seq(BOOLEAN) /\ Len(dozeTasks') = Len(dozeTasks) + 1 /\ dozeTasks' # <<>>
    <3>1. PICK r : r = dozeTasks'
      OBVIOUS
    <3>2. r \in Seq(BOOLEAN) /\ Len(r) = Len(dozeTasks) + 1 /\ r # <<>>
      BY <1>1, <2>1, <3>1, Sent
    <3> QED
      BY <3>1, <3>2
  <2> QED
    BY <1>1, <2>1, <2>2, InputAssumption
<1>4. InputTypes'
  BY <1>1, <1>2, <1>3 DEF InputIInv, InputTypes
<1>5. LightArrives'
  BY <1>1, <1>2 DEF LightArrives
<1>6. DevicesFollowState' /\ DozeWillEnd' /\ RestsUnstarted'
  BY <1>1, <1>2, <1>3 DEF InputIInv, InputTypes, DevicesFollowState, DozeWillEnd, RestsUnstarted
<1> QED
  BY <1>2, <1>4, <1>5, <1>6 DEF InputIInv

LEMMA DozeTaskKeeps ==
  ASSUME InputIInv, DozeTask
  PROVE  InputIInv'
<1>1. /\ dozeTasks # <<>> /\ dozeTasks' = Tail(dozeTasks)
      /\ UNCHANGED <<display, doubleTap, forceDisable, callState, intents, running, listening, forcedWhenOn, covered, deaf,
                     gestureMode, kills>>
  BY DEF DozeTask, world, settings
<1>2. dozeTasks' \in Seq(BOOLEAN) /\ Len(dozeTasks') <= MaxDozes /\ Head(dozeTasks) \in BOOLEAN
  <2>1. dozeTasks \in Seq(BOOLEAN) /\ Len(dozeTasks) <= MaxDozes
    BY DEF InputIInv, InputTypes
  <2>2. PICK r : r = dozeTasks'
    OBVIOUS
  <2>3. r \in Seq(BOOLEAN) /\ Len(r) = Len(dozeTasks) - 1 /\ Head(dozeTasks) \in BOOLEAN
    BY <1>1, <2>1, <2>2, Taken
  <2>4. Len(dozeTasks) \in Nat
    BY <2>1
  <2> QED
    BY <2>1, <2>2, <2>3, <2>4, InputAssumption
<1>3. running
  BY <1>1 DEF InputIInv, RestsUnstarted, InputTypes
<1>4. LightIsLast'
  BY <1>1 DEF InputIInv, LightIsLast
<1>5. CASE mScreenState = "STATE_DOZE"
  <2>1. /\ mScreenState' = "STATE_OFF" /\ keys' = FALSE /\ tapWhenOff' = Head(dozeTasks)
        /\ touch' = IF Head(dozeTasks) THEN touch ELSE FALSE
    BY <1>5 DEF DozeTask, HandleScreenOff
  <2>2. InputTypes'
    BY <1>1, <1>2, <2>1 DEF InputIInv, InputTypes
  <2>3. LightArrives'
    BY <1>1, <1>5 DEF InputIInv, LightArrives
  <2>4. DevicesFollowState' /\ DozeWillEnd' /\ RestsUnstarted'
    BY <1>1, <1>2, <1>3, <2>1 DEF DevicesFollowState, DozeWillEnd, RestsUnstarted
  <2> QED
    BY <1>4, <2>2, <2>3, <2>4 DEF InputIInv
<1>6. CASE mScreenState # "STATE_DOZE"
  <2>1. UNCHANGED <<mScreenState, touch, keys, tapWhenOff>>
    BY <1>6 DEF DozeTask
  <2>2. InputTypes'
    BY <1>1, <1>2, <2>1 DEF InputIInv, InputTypes
  <2>3. DevicesFollowState' /\ DozeWillEnd' /\ RestsUnstarted' /\ LightArrives'
    BY <1>1, <1>3, <1>6, <2>1 DEF InputIInv, DevicesFollowState, DozeWillEnd, RestsUnstarted, LightArrives
  <2> QED
    BY <1>4, <2>2, <2>3 DEF InputIInv
<1> QED
  BY <1>5, <1>6

LEMMA PhoneKeeps ==
  ASSUME InputIInv, PhoneState
  PROVE  InputIInv'
<1>1. /\ Receives("PHONE_STATE_CHANGED")
      /\ UNCHANGED <<display, doubleTap, forceDisable, callState, running, dozeTasks, tapWhenOff, gestureMode, kills>>
  BY DEF PhoneState, world, settings
<1>2. /\ running /\ intents' \in Seq(Broadcasts) /\ Len(intents') <= MaxIntents
      /\ LightIsLast'
      /\ (\E i \in DOMAIN intents : intents[i] = "SCREEN_ON") => \E j \in DOMAIN intents' : intents'[j] = "SCREEN_ON"
  BY <1>1, Received
<1>3. \/ /\ mScreenState' = "STATE_ON" /\ covered' = FALSE /\ deaf' = FALSE /\ HandleScreenOn(TRUE) /\ listening' \in BOOLEAN
      \/ /\ UNCHANGED <<mScreenState, touch, keys, forcedWhenOn, covered, deaf>> /\ listening' \in BOOLEAN
  <2>0. "IDLE" # "OFFHOOK" /\ listening \in BOOLEAN
    BY DEF InputIInv, InputTypes
  <2>1. CASE callState = "OFFHOOK"
    <3>1. listening' = TRUE /\ UNCHANGED <<mScreenState, touch, keys, forcedWhenOn, covered, deaf>>
      BY <2>1 DEF PhoneState
    <3> QED
      BY <3>1
  <2>2. CASE callState = "IDLE"
    <3>1. /\ listening' = FALSE
          /\ IF mScreenState # "STATE_ON"
               THEN HandleScreenOn(TRUE) /\ mScreenState' = "STATE_ON" /\ covered' = FALSE /\ deaf' = FALSE
               ELSE UNCHANGED <<mScreenState, touch, keys, forcedWhenOn, covered, deaf>>
      BY <2>0, <2>2, Zenon DEF PhoneState
    <3> QED
      BY <3>1
  <2>3. CASE callState # "IDLE" /\ callState # "OFFHOOK"
    <3>1. UNCHANGED <<listening, mScreenState, touch, keys, forcedWhenOn, covered, deaf>>
      BY <2>3, Zenon DEF PhoneState
    <3> QED
      BY <2>0, <3>1
  <2> QED
    BY <2>1, <2>2, <2>3
<1>4. CASE /\ mScreenState' = "STATE_ON" /\ covered' = FALSE /\ deaf' = FALSE /\ HandleScreenOn(TRUE) /\ listening' \in BOOLEAN
  <2>1. touch' = TRUE /\ keys' = (IF ~forceDisable THEN TRUE ELSE keys) /\ forcedWhenOn' = forceDisable
    BY <1>4 DEF HandleScreenOn
  <2>2. InputTypes'
    BY <1>1, <1>2, <1>4, <2>1 DEF InputIInv, InputTypes
  <2>3. DevicesFollowState' /\ DozeWillEnd' /\ LightArrives' /\ RestsUnstarted'
    BY <1>1, <1>2, <1>4, <2>1 DEF InputIInv, InputTypes, DevicesFollowState, DozeWillEnd, LightArrives, RestsUnstarted
  <2> QED
    BY <1>2, <2>2, <2>3 DEF InputIInv
<1>5. CASE UNCHANGED <<mScreenState, touch, keys, forcedWhenOn, covered, deaf>> /\ listening' \in BOOLEAN
  <2>1. InputTypes'
    BY <1>1, <1>2, <1>5 DEF InputIInv, InputTypes
  <2>2. LightArrives'
    BY <1>1, <1>2, <1>5 DEF InputIInv, LightArrives
  <2>3. DevicesFollowState' /\ DozeWillEnd' /\ RestsUnstarted'
    BY <1>1, <1>2, <1>5 DEF InputIInv, DevicesFollowState, DozeWillEnd, RestsUnstarted
  <2> QED
    BY <1>2, <2>1, <2>2, <2>3 DEF InputIInv
<1> QED
  BY <1>3, <1>4, <1>5

LEMMA ProximityKeeps ==
  ASSUME InputIInv, NEW near \in BOOLEAN, Proximity(near)
  PROVE  InputIInv'
<1>1. /\ listening /\ covered' = near
      /\ UNCHANGED <<display, doubleTap, forceDisable, callState, intents, running, dozeTasks, listening, gestureMode, kills>>
  BY DEF Proximity, world, settings
<1>2. running /\ InputTypes /\ LightIsLast'
  BY <1>1 DEF InputIInv, RestsUnstarted, InputTypes, LightIsLast
<1>3. CASE near
  <2>1. /\ keys' = FALSE /\ touch' = FALSE /\ tapWhenOff' = FALSE /\ mScreenState' = "STATE_OFF"
        /\ UNCHANGED <<forcedWhenOn, deaf>>
    BY <1>3 DEF Proximity, HandleScreenOff
  <2>2. InputTypes'
    BY <1>1, <1>2, <2>1 DEF InputTypes
  <2>3. DevicesFollowState' /\ DozeWillEnd' /\ LightArrives' /\ RestsUnstarted'
    BY <1>1, <1>2, <1>3, <2>1 DEF DevicesFollowState, DozeWillEnd, LightArrives, RestsUnstarted
  <2> QED
    BY <1>2, <2>2, <2>3 DEF InputIInv
<1>4. CASE ~near
  <2>1. /\ touch' = TRUE /\ keys' = (IF ~forceDisable THEN TRUE ELSE keys) /\ forcedWhenOn' = forceDisable
        /\ mScreenState' = "STATE_ON" /\ deaf' = FALSE /\ tapWhenOff' = tapWhenOff
    BY <1>4 DEF Proximity, HandleScreenOn
  <2>2. InputTypes'
    BY <1>1, <1>2, <2>1 DEF InputTypes
  <2>3. DevicesFollowState' /\ DozeWillEnd' /\ LightArrives' /\ RestsUnstarted'
    BY <1>1, <1>2, <2>1 DEF InputTypes, DevicesFollowState, DozeWillEnd, LightArrives, RestsUnstarted
  <2> QED
    BY <1>2, <2>2, <2>3 DEF InputIInv
<1> QED
  BY <1>3, <1>4

LEMMA InputStep ==
  ASSUME InputIInv, [InputNext]_inputVars
  PROVE  InputIInv'
<1>1. CASE UNCHANGED inputVars
  BY <1>1 DEF inputVars, InputIInv, InputTypes, DevicesFollowState, DozeWillEnd, LightIsLast, LightArrives, RestsUnstarted
<1>2. CASE InputNext
  BY <1>2, DisplayKeeps, CallKeepsInput, UserKeeps, StartKeeps, KilledKeeps, ScreenOnKeeps, ScreenOffKeeps, DozePulseKeeps,
     DozeTaskKeeps, PhoneKeeps, ProximityKeeps, GestureKeeps
  DEF InputNext
<1> QED
  BY <1>1, <1>2

\* Whatever comes together of broadcasts, sensor, doze and kills, devices and
\* display agree (ScreenStateReceiver).
THEOREM InputSound == InputSpec => []InputInv
<1>1. InputIInv => InputInv
  <2> SUFFICES ASSUME InputIInv PROVE InputInv
    OBVIOUS
  <2>1. InputTypeOK /\ DevicesFollowState /\ DozeWillEnd
    BY DEF InputIInv, InputTypes, InputTypeOK
  <2>2. LitScreenAnswers
    BY DEF InputIInv, InputTypes, LightArrives, LitScreenAnswers
  <2> QED
    BY <2>1, <2>2 DEF InputInv
<1>2. InputSpec => []InputIInv
  BY InputStarts, InputStep, PTL DEF InputSpec
<1> QED
  BY <1>1, <1>2, PTL

-----------------------------------------------------------------------------
(* The entry points of the GPS library. *)

HalMessages == [kind : {"NIFS", "ATL"} \cup Events, type : AgpsTypes \cup {"INVALID", "SUPL"}, bearer : Bearers \cup {Idle}]

HalTypes ==
  /\ HalTypeOK /\ inbox \in Seq(HalMessages)
  /\ extendedAgps \in BOOLEAN /\ configAlreadyRead \in BOOLEAN
  /\ exposed \in BOOLEAN /\ cleanedSince \in BOOLEAN

\* Whatever has been handed out, or is under way, was made of the files.
FilesComeFirst ==
  /\ provider \in {"off", "on"} \/ offered # {} \/ nifs # {} \/ updating # {} => configAlreadyRead
  /\ \A i \in DOMAIN inbox : inbox[i].kind = "NIFS" => configAlreadyRead
  /\ configAlreadyRead => sGnssType = gnss

\* The capabilities that hold once no update is under way fit the chip, and the
\* interfaces were made by them.
SettledCaps == IF updating = {} THEN {CAPABILITIES} ELSE updating
CapsFitTheChip == gnss \in Standalone => \A caps \in SettledCaps : caps \cap Assisted = {}
NifsFitTheCaps == nifs # {} /\ ~exposed => \A caps \in SettledCaps : caps \cap Assisted # {} <=> "agnss" \in nifs

\* Only who waits is answered, and for SUPL; and what goes wrong then.
AnswersFit ==
  /\ \A i \in DOMAIN inbox : inbox[i].kind \in Events => inbox[i].type = "SUPL" /\ nifs # {}
  /\ "no machine" \in faults => nifs # {} /\ "agnss" \notin nifs
  /\ "unheard" \in faults => "internet" \in waiting

\* The framework has its callbacks while it has the engine, and a callback that was
\* found is still there, unless a cleanup has come between.
CallbacksFit ==
  /\ "uninvited" \notin faults
  /\ callbacks \cap {"loc", "sv"} # {} => provider = "on"
  /\ found \in {"loc", "sv"} /\ ~cleanedSince => provider = "on" /\ found \in callbacks

HalIInv ==
  /\ HalTypes /\ FilesComeFirst /\ CapsFitTheChip /\ NifsFitTheCaps /\ AnswersFit /\ CallbacksFit

LEMMA HalStarts == HalInit => HalIInv
<1> SUFFICES ASSUME HalInit PROVE HalIInv
  OBVIOUS
<1>1. inbox \in Seq(HalMessages) /\ inbox = <<>>
  BY EmptySeq DEF HalInit
<1>2. HalTypes
  BY <1>1 DEF HalInit, HalTypes, HalTypeOK
<1>3. SettledCaps = {{}}
  BY DEF HalInit, SettledCaps
<1> QED
  <2>1. FilesComeFirst /\ AnswersFit /\ CallbacksFit
    BY <1>1 DEF HalInit, FilesComeFirst, AnswersFit, CallbacksFit, Idle
  <2>2. CapsFitTheChip /\ NifsFitTheCaps
    BY <1>3 DEF HalInit, CapsFitTheChip, NifsFitTheCaps
  <2> QED
    BY <1>2, <2>1, <2>2 DEF HalIInv

\* A chip's own assisted modes are gone once they were cleared.
LEMMA ClearedFits ==
  ASSUME NEW caps, NEW kind
  PROVE  /\ kind \in Standalone => Cleared(caps, kind) \cap Assisted = {}
         /\ kind \notin Standalone => Cleared(caps, kind) = caps
         /\ caps \cap Assisted = {} => Cleared(caps, kind) = caps
  BY DEF Cleared

LEMMA GetInterfaceKeeps ==
  ASSUME HalIInv, GetInterface
  PROVE  HalIInv'
<1> DEFINE old == IF configAlreadyRead THEN CAPABILITIES ELSE FileCaps
<1>1. /\ provider \in {"none", "off"} /\ updating = {} /\ configAlreadyRead' = TRUE /\ sGnssType' = gnss
      /\ CAPABILITIES' = Cleared(old, gnss) /\ provider' = (IF gnss = "NONE" THEN "refused" ELSE "off")
      /\ UNCHANGED <<gnss, extendedAgps, offered, callbacks, adapter, agps_status_cb, updating, inbox, nifs, waiting, bearer,
                     exposed, found, cleanedSince, faults>>
  BY DEF GetInterface, hardware, machines, calling
<1>2. HalTypes' /\ FilesComeFirst' /\ AnswersFit' /\ CallbacksFit'
  BY <1>1 DEF HalIInv, HalTypes, HalTypeOK, FilesComeFirst, AnswersFit, CallbacksFit
<1>3. SettledCaps = {CAPABILITIES} /\ SettledCaps' = {CAPABILITIES'}
  BY <1>1 DEF SettledCaps
<1>4. CapsFitTheChip'
  BY <1>1, <1>3, ClearedFits DEF CapsFitTheChip
<1>5. NifsFitTheCaps'
  <2>1. CASE nifs # {}
    <3>1. configAlreadyRead /\ old = CAPABILITIES
      BY <2>1 DEF HalIInv, FilesComeFirst
    <3>2. CAPABILITIES' = CAPABILITIES
      BY <1>1, <1>3, <3>1, ClearedFits DEF HalIInv, CapsFitTheChip
    <3> QED
      BY <1>1, <1>3, <3>2 DEF HalIInv, NifsFitTheCaps
  <2>2. CASE nifs = {}
    BY <1>1, <2>2 DEF NifsFitTheCaps
  <2> QED
    BY <2>1, <2>2
<1> QED
  BY <1>2, <1>4, <1>5 DEF HalIInv

\* Where neither the capabilities nor the interfaces change.
LEMMA SameCaps ==
  ASSUME HalIInv, UNCHANGED <<gnss, CAPABILITIES, updating, nifs, exposed>>
  PROVE  CapsFitTheChip' /\ NifsFitTheCaps'
  BY DEF HalIInv, CapsFitTheChip, NifsFitTheCaps, SettledCaps

LEMMA GetExtensionsKeeps ==
  ASSUME HalIInv, GetExtensions
  PROVE  HalIInv'
<1>1. /\ provider = "off" /\ offered' \subseteq Extensions
      /\ UNCHANGED <<gnss, extendedAgps, configAlreadyRead, CAPABILITIES, sGnssType, updating, provider, callbacks, adapter,
                     agps_status_cb, inbox, nifs, waiting, bearer, exposed, found, cleanedSince, faults>>
  BY DEF GetExtensions, hardware, gpsConf, machines, calling
<1>2. HalTypes' /\ FilesComeFirst' /\ AnswersFit' /\ CallbacksFit'
  BY <1>1 DEF HalIInv, HalTypes, HalTypeOK, FilesComeFirst, AnswersFit, CallbacksFit
<1> QED
  BY <1>1, <1>2, SameCaps DEF HalIInv

LEMMA LocInitKeeps ==
  ASSUME HalIInv, LocInit
  PROVE  HalIInv'
<1>1. /\ provider = "off" /\ provider' = "on" /\ callbacks' = callbacks \cup {"loc", "sv"}
      /\ UNCHANGED <<gnss, extendedAgps, configAlreadyRead, CAPABILITIES, sGnssType, updating, offered,
                     inbox, nifs, waiting, bearer, exposed, found, cleanedSince, faults>>
  BY DEF LocInit, hardware, gpsConf, machines, calling
<1>2. HalTypes' /\ FilesComeFirst' /\ AnswersFit' /\ CallbacksFit'
  BY <1>1 DEF HalIInv, HalTypes, HalTypeOK, FilesComeFirst, AnswersFit, CallbacksFit
<1> QED
  BY <1>1, <1>2, SameCaps DEF HalIInv

LEMMA LocCleanupKeeps ==
  ASSUME HalIInv, LocCleanup
  PROVE  HalIInv'
<1>1. /\ provider = "on" /\ provider' = "off" /\ callbacks' = callbacks \ {"loc", "sv"} /\ cleanedSince' = (found # Idle)
      /\ UNCHANGED <<gnss, extendedAgps, configAlreadyRead, CAPABILITIES, sGnssType, updating, offered,
                     inbox, nifs, waiting, bearer, exposed, found, faults>>
  BY DEF LocCleanup, hardware, gpsConf, machines
<1>2. HalTypes' /\ FilesComeFirst' /\ AnswersFit'
  BY <1>1 DEF HalIInv, HalTypes, HalTypeOK, FilesComeFirst, AnswersFit
<1>3. CallbacksFit'
  BY <1>1 DEF HalIInv, CallbacksFit, Idle
<1> QED
  BY <1>1, <1>2, <1>3, SameCaps DEF HalIInv

LEMMA NiInitKeeps ==
  ASSUME HalIInv, NiInit
  PROVE  HalIInv'
<1>1. /\ callbacks' = callbacks \cup {"ni"}
      /\ UNCHANGED <<gnss, extendedAgps, configAlreadyRead, CAPABILITIES, sGnssType, updating, provider, offered,
                     inbox, nifs, waiting, bearer, exposed, found, cleanedSince, faults>>
  BY DEF NiInit, hardware, gpsConf, machines, calling
<1>2. HalTypes' /\ FilesComeFirst' /\ AnswersFit' /\ CallbacksFit'
  BY <1>1 DEF HalIInv, HalTypes, HalTypeOK, FilesComeFirst, AnswersFit, CallbacksFit
<1> QED
  BY <1>1, <1>2, SameCaps DEF HalIInv

\* A message on its way, of a kind that may come.
LEMMA PostKeeps ==
  ASSUME HalIInv, NEW m \in HalMessages, Post(m),
         m.kind = "NIFS" => configAlreadyRead, m.kind \in Events => m.type = "SUPL" /\ nifs # {},
         UNCHANGED <<gnss, extendedAgps, configAlreadyRead, CAPABILITIES, sGnssType, updating, provider, offered, callbacks,
                     nifs, waiting, bearer, exposed, found, cleanedSince, faults>>
  PROVE  HalIInv'
<1>1. inbox \in Seq(HalMessages) /\ inbox' = Append(inbox, m)
  BY DEF HalIInv, HalTypes, Post
<1>2. PICK r : r = inbox'
  OBVIOUS
<1>3. /\ r \in Seq(HalMessages)
      /\ \A i \in DOMAIN inbox : i \in DOMAIN r /\ r[i] = inbox[i]
      /\ \A i \in DOMAIN r : i \in DOMAIN inbox \/ r[i] = m
  BY <1>1, <1>2, Sent
<1>4. HalTypes'
  BY <1>2, <1>3 DEF HalIInv, HalTypes, HalTypeOK
<1>5. \A i \in DOMAIN r : (r[i].kind = "NIFS" => configAlreadyRead) /\ (r[i].kind \in Events => r[i].type = "SUPL" /\ nifs # {})
  BY <1>3 DEF HalIInv, FilesComeFirst, AnswersFit
<1>6. FilesComeFirst' /\ AnswersFit'
  BY <1>2, <1>5 DEF HalIInv, FilesComeFirst, AnswersFit
<1>7. CallbacksFit'
  BY DEF HalIInv, CallbacksFit
<1> QED
  BY <1>4, <1>6, <1>7, SameCaps DEF HalIInv

LEMMA AgpsInitKeeps ==
  ASSUME HalIInv, AgpsInit
  PROVE  HalIInv'
<1>1. /\ "agps" \in offered
      /\ UNCHANGED <<gnss, extendedAgps, configAlreadyRead, CAPABILITIES, sGnssType, updating, provider, offered, callbacks,
                     nifs, waiting, bearer, exposed, found, cleanedSince, faults>>
  BY DEF AgpsInit, hardware, gpsConf, machines, calling
<1>2. CASE extendedAgps
  <2>1. inbox' = inbox
    BY <1>2 DEF AgpsInit
  <2>2. HalTypes' /\ FilesComeFirst' /\ AnswersFit' /\ CallbacksFit'
    BY <1>1, <2>1 DEF HalIInv, HalTypes, HalTypeOK, FilesComeFirst, AnswersFit, CallbacksFit
  <2> QED
    BY <1>1, <2>2, SameCaps DEF HalIInv
<1>3. CASE ~extendedAgps
  <2> DEFINE m == Message("NIFS", "INVALID", Idle)
  <2>1. m \in HalMessages /\ m.kind = "NIFS" /\ m.kind \notin Events
    BY DEF Message, HalMessages, Events
  <2>2. Post(m)
    BY <1>3 DEF AgpsInit
  <2>3. configAlreadyRead
    BY <1>1 DEF HalIInv, FilesComeFirst
  <2> HIDE DEF m
  <2> QED
    BY <1>1, <2>1, <2>2, <2>3, PostKeeps
<1> QED
  BY <1>2, <1>3

LEMMA UpdateBeginsKeeps ==
  ASSUME HalIInv, NEW caps, UpdateBegins(caps)
  PROVE  HalIInv'
<1>1. /\ "configuration" \in offered /\ updating = {} /\ updating' = {CAPABILITIES}
      /\ UNCHANGED <<gnss, extendedAgps, configAlreadyRead, sGnssType, provider, offered, callbacks,
                     inbox, nifs, waiting, bearer, exposed, found, cleanedSince, faults>>
  BY DEF UpdateBegins, hardware, client, machines, calling
<1>2. HalTypes' /\ FilesComeFirst' /\ AnswersFit' /\ CallbacksFit'
  BY <1>1 DEF HalIInv, HalTypes, HalTypeOK, FilesComeFirst, AnswersFit, CallbacksFit
<1>3. SettledCaps' = SettledCaps
  BY <1>1 DEF SettledCaps
<1> QED
  BY <1>1, <1>2, <1>3 DEF HalIInv, CapsFitTheChip, NifsFitTheCaps

LEMMA UpdateEndsKeeps ==
  ASSUME HalIInv, UpdateEnds
  PROVE  HalIInv'
<1>1. /\ updating' = {}
      /\ UNCHANGED <<gnss, extendedAgps, configAlreadyRead, sGnssType, provider, offered, callbacks,
                     inbox, nifs, waiting, bearer, exposed, found, cleanedSince, faults>>
  BY DEF UpdateEnds, hardware, client, machines, calling
<1>2. PICK old \in updating : CAPABILITIES' = Cleared(old, sGnssType)
  BY DEF UpdateEnds
<1>3. HalTypes' /\ FilesComeFirst' /\ AnswersFit' /\ CallbacksFit'
  BY <1>1 DEF HalIInv, HalTypes, HalTypeOK, FilesComeFirst, AnswersFit, CallbacksFit
<1>4. sGnssType = gnss /\ old \in SettledCaps /\ SettledCaps' = {CAPABILITIES'}
  BY <1>1, <1>2 DEF HalIInv, FilesComeFirst, SettledCaps
<1>5. CAPABILITIES' = old
  BY <1>2, <1>4, ClearedFits DEF HalIInv, CapsFitTheChip
<1> QED
  BY <1>1, <1>3, <1>4, <1>5 DEF HalIInv, CapsFitTheChip, NifsFitTheCaps

\* The head of the queue is taken.
LEMMA InboxTaken ==
  ASSUME HalIInv, inbox # <<>>, inbox' = Tail(inbox)
  PROVE  /\ inbox' \in Seq(HalMessages) /\ Head(inbox) \in HalMessages
         /\ \A i \in DOMAIN inbox' : \E j \in DOMAIN inbox : inbox'[i] = inbox[j]
         /\ Head(inbox).kind = "NIFS" => configAlreadyRead
         /\ Head(inbox).kind \in Events => Head(inbox).type = "SUPL" /\ nifs # {}
<1>1. inbox \in Seq(HalMessages)
  BY DEF HalIInv, HalTypes
<1>2. PICK r : r = inbox'
  OBVIOUS
<1>3. /\ r \in Seq(HalMessages) /\ Head(inbox) \in HalMessages /\ Head(inbox) = inbox[1] /\ 1 \in DOMAIN inbox
      /\ \A i \in DOMAIN r : i + 1 \in DOMAIN inbox /\ r[i] = inbox[i + 1]
  BY <1>1, <1>2, Taken
<1>4. /\ Head(inbox).kind = "NIFS" => configAlreadyRead
      /\ Head(inbox).kind \in Events => Head(inbox).type = "SUPL" /\ nifs # {}
  BY <1>3 DEF HalIInv, FilesComeFirst, AnswersFit
<1>5. \A i \in DOMAIN r : \E j \in DOMAIN inbox : r[i] = inbox[j]
  BY <1>3
<1> QED
  BY <1>2, <1>3, <1>4, <1>5

LEMMA TakesMessageKeeps ==
  ASSUME HalIInv, TakesMessage
  PROVE  HalIInv'
<1> DEFINE m == Head(inbox)
<1>1. /\ "no machine" \notin faults /\ inbox # <<>> /\ inbox' = Tail(inbox)
      /\ \/ m.kind = "NIFS" /\ CreateNifs
         \/ m.kind = "ATL" /\ RequestATL(m.type)
         \/ m.kind \in Events /\ Answer(m)
      /\ UNCHANGED <<gnss, extendedAgps, configAlreadyRead, CAPABILITIES, sGnssType, updating, provider, offered, callbacks,
                     found, cleanedSince>>
  BY DEF TakesMessage, Works, hardware, gpsConf, client, calling
<1>2. /\ inbox' \in Seq(HalMessages) /\ m \in HalMessages
      /\ \A i \in DOMAIN inbox' : \E j \in DOMAIN inbox : inbox'[i] = inbox[j]
      /\ m.kind = "NIFS" => configAlreadyRead
      /\ m.kind \in Events => m.type = "SUPL" /\ nifs # {}
  BY <1>1, InboxTaken
<1> HIDE DEF m
<1>3. HalTypeOK
  BY DEF HalIInv, HalTypes
<1>4. CASE m.kind = "NIFS" /\ CreateNifs
  <2>1. /\ nifs' = nifs \cup {"internet"} \cup (IF CAPABILITIES \cap Assisted # {} THEN {"agnss"} ELSE {})
        /\ exposed' = (exposed \/ updating # {})
        /\ UNCHANGED <<waiting, bearer, faults>>
    BY <1>4 DEF CreateNifs
  <2>2. HalTypes'
    BY <1>1, <1>2, <2>1 DEF HalIInv, HalTypes, HalTypeOK
  <2>3. FilesComeFirst' /\ AnswersFit' /\ CallbacksFit'
    BY <1>1, <1>2, <1>4, <2>1 DEF HalIInv, FilesComeFirst, AnswersFit, CallbacksFit
  <2>4. CapsFitTheChip'
    BY <1>1 DEF HalIInv, CapsFitTheChip, SettledCaps
  <2>5. NifsFitTheCaps'
    <3>1. ASSUME ~exposed' PROVE CAPABILITIES \cap Assisted # {} <=> "agnss" \in nifs'
      <4>1. updating = {} /\ ~exposed /\ SettledCaps = {CAPABILITIES}
        BY <2>1, <3>1 DEF SettledCaps, HalIInv, HalTypes
      <4>2. nifs # {} => (CAPABILITIES \cap Assisted # {} <=> "agnss" \in nifs)
        BY <4>1 DEF HalIInv, NifsFitTheCaps
      <4> QED
        BY <2>1, <4>2
    <3>2. ~exposed' => updating = {} /\ SettledCaps' = {CAPABILITIES}
      BY <1>1, <2>1 DEF SettledCaps
    <3> QED
      BY <3>1, <3>2 DEF NifsFitTheCaps
  <2> QED
    BY <2>2, <2>3, <2>4, <2>5 DEF HalIInv
<1>5. CASE m.kind = "ATL" /\ RequestATL(m.type)
  <2>1. /\ waiting' = waiting \cup ({NifOf(m.type)} \cap nifs)
        /\ UNCHANGED <<nifs, bearer, exposed, faults>>
    BY <1>5 DEF RequestATL
  <2>2. HalTypes'
    BY <1>1, <1>2, <2>1 DEF HalIInv, HalTypes, HalTypeOK
  <2>3. FilesComeFirst' /\ AnswersFit' /\ CallbacksFit'
    BY <1>1, <1>2, <2>1 DEF HalIInv, FilesComeFirst, AnswersFit, CallbacksFit
  <2> QED
    BY <1>1, <2>1, <2>2, <2>3, SameCaps DEF HalIInv
<1>6. CASE m.kind \in Events /\ Answer(m)
  <2>1. m.type = "SUPL" /\ nifs # {} /\ NifOf(m.type) = "agnss"
    BY <1>2, <1>6 DEF NifOf
  <2>2. CASE "agnss" \notin nifs
    <3>1. faults' = faults \cup {"no machine"} /\ UNCHANGED <<nifs, waiting, bearer, exposed>>
      BY <1>6, <2>1, <2>2 DEF Answer, machines
    <3>2. HalTypes'
      BY <1>1, <1>2, <3>1 DEF HalIInv, HalTypes, HalTypeOK
    <3>3. FilesComeFirst' /\ AnswersFit' /\ CallbacksFit'
      BY <1>1, <1>2, <2>1, <2>2, <3>1 DEF HalIInv, FilesComeFirst, AnswersFit, CallbacksFit
    <3> QED
      BY <1>1, <3>1, <3>2, <3>3, SameCaps DEF HalIInv
  <2>3. CASE "agnss" \in nifs
    <3>1. /\ bearer' = (IF m.kind = "OPEN" THEN m.bearer ELSE bearer)
          /\ waiting' = (IF m.kind = "CLOSED" THEN waiting ELSE waiting \ {"agnss"})
          /\ faults' = (IF m.kind # "CLOSED" /\ waiting # {} /\ "agnss" \notin waiting THEN faults \cup {"unheard"} ELSE faults)
          /\ UNCHANGED <<nifs, exposed>>
      BY <1>6, <2>1, <2>3 DEF Answer
    <3>2. bearer' \in Bearers \cup {Idle}
      BY <1>2, <1>3, <3>1 DEF HalMessages, HalTypeOK
    <3>3. waiting \subseteq nifs /\ nifs \subseteq {"agnss", "internet"}
      BY <1>3 DEF HalTypeOK
    <3>4. HalTypes'
      BY <1>1, <1>2, <3>1, <3>2, <3>3 DEF HalIInv, HalTypes, HalTypeOK
    <3>5. "unheard" \in faults' => "internet" \in waiting'
      BY <3>1, <3>3 DEF HalIInv, AnswersFit
    <3>6. FilesComeFirst' /\ AnswersFit' /\ CallbacksFit'
      BY <1>1, <1>2, <2>1, <3>1, <3>5 DEF HalIInv, FilesComeFirst, AnswersFit, CallbacksFit
    <3> QED
      BY <1>1, <3>1, <3>4, <3>6, SameCaps DEF HalIInv
  <2> QED
    BY <2>2, <2>3
<1> QED
  BY <1>1, <1>4, <1>5, <1>6

LEMMA ModemAsksKeeps ==
  ASSUME HalIInv, NEW type \in AgpsTypes, ModemAsks(type)
  PROVE  HalIInv'
<1> DEFINE m == Message("ATL", type, Idle)
<1>1. m \in HalMessages /\ m.kind = "ATL" /\ m.kind \notin Events
  BY DEF Message, HalMessages, Events
<1>2. /\ Post(m)
      /\ UNCHANGED <<gnss, extendedAgps, configAlreadyRead, CAPABILITIES, sGnssType, updating, provider, offered, callbacks,
                     nifs, waiting, bearer, exposed, found, cleanedSince, faults>>
  BY DEF ModemAsks, hardware, gpsConf, client, machines, calling
<1> HIDE DEF m
<1> QED
  BY <1>1, <1>2, PostKeeps

LEMMA FrameworkAnswersKeeps ==
  ASSUME HalIInv, NEW kind \in Events, NEW ip, FrameworkAnswers(kind, ip)
  PROVE  HalIInv'
<1> DEFINE m == Message(kind, "SUPL", IF kind = "OPEN" THEN BearerOf(ip) ELSE Idle)
<1>1. BearerOf(ip) \in Bearers
  BY DEF BearerOf, Bearers
<1>2. m \in HalMessages /\ m.kind = kind /\ m.type = "SUPL" /\ kind # "NIFS"
  BY <1>1 DEF Message, HalMessages, Events
<1>3. /\ Post(m) /\ waiting # {}
      /\ UNCHANGED <<gnss, extendedAgps, configAlreadyRead, CAPABILITIES, sGnssType, updating, provider, offered, callbacks,
                     nifs, waiting, bearer, exposed, found, cleanedSince, faults>>
  BY DEF FrameworkAnswers, hardware, gpsConf, client, machines, calling
<1>4. nifs # {}
  BY <1>3 DEF HalIInv, HalTypes, HalTypeOK
<1> HIDE DEF m
<1> QED
  BY <1>2, <1>3, <1>4, PostKeeps

LEMMA ReportKeeps ==
  ASSUME HalIInv, NEW cb \in {"loc", "sv", "ni"}, ReportFinds(cb) \/ ReportCalls
  PROVE  HalIInv'
<1>1. UNCHANGED <<gnss, extendedAgps, configAlreadyRead, CAPABILITIES, sGnssType, updating, provider, offered, callbacks,
                  inbox, nifs, waiting, bearer, exposed>>
  BY DEF ReportFinds, ReportCalls, hardware, gpsConf, client, machines
<1>2. CASE ReportFinds(cb)
  <2>1. found' = cb /\ cleanedSince' = FALSE /\ faults' = faults /\ cb \in callbacks
    BY <1>2 DEF ReportFinds
  <2>2. HalTypes' /\ FilesComeFirst' /\ AnswersFit' /\ CallbacksFit'
    BY <1>1, <2>1 DEF HalIInv, HalTypes, HalTypeOK, FilesComeFirst, AnswersFit, CallbacksFit
  <2> QED
    BY <1>1, <2>2, SameCaps DEF HalIInv
<1>3. CASE ReportCalls
  <2>1. /\ found' = Idle /\ cleanedSince' = FALSE
        /\ faults' = faults \/ faults' = faults \cup {"null call"}
    BY <1>3 DEF ReportCalls, HalIInv, CallbacksFit
  <2>2. HalTypes' /\ FilesComeFirst' /\ AnswersFit' /\ CallbacksFit'
    BY <1>1, <2>1 DEF HalIInv, HalTypes, HalTypeOK, FilesComeFirst, AnswersFit, CallbacksFit, Idle
  <2> QED
    BY <1>1, <2>2, SameCaps DEF HalIInv
<1> QED
  BY <1>2, <1>3

LEMMA HalStep ==
  ASSUME HalIInv, [HalNext]_halVars
  PROVE  HalIInv'
<1>1. CASE UNCHANGED halVars
  <2>1. UNCHANGED <<gnss, extendedAgps, configAlreadyRead, CAPABILITIES, sGnssType, updating, provider, offered, callbacks,
                    inbox, nifs, waiting, bearer, exposed, found, cleanedSince, faults>>
    BY <1>1 DEF halVars
  <2>2. HalTypes' /\ FilesComeFirst' /\ AnswersFit' /\ CallbacksFit'
    BY <2>1 DEF HalIInv, HalTypes, HalTypeOK, FilesComeFirst, AnswersFit, CallbacksFit
  <2> QED
    BY <2>1, <2>2, SameCaps DEF HalIInv
<1>2. CASE HalNext
  BY <1>2, GetInterfaceKeeps, GetExtensionsKeeps, LocInitKeeps, LocCleanupKeeps, NiInitKeeps, AgpsInitKeeps, UpdateBeginsKeeps,
     UpdateEndsKeeps, TakesMessageKeeps, ModemAsksKeeps, FrameworkAnswersKeeps, ReportKeeps
  DEF HalNext
<1> QED
  BY <1>1, <1>2

\* The framework gets what the chip serves, also over updates, its answers meet the
\* SUPL interface, and a cleanup silences the engine (loc.cpp).
THEOREM HalSound == HalSpec => []HalInv
<1>1. HalIInv => HalInv
  <2> SUFFICES ASSUME HalIInv PROVE HalInv
    OBVIOUS
  <2>1. HalTypeOK /\ CleanupSilences
    BY DEF HalIInv, HalTypes, CallbacksFit, CleanupSilences
  <2>2. updating = {} => SettledCaps = {CAPABILITIES}
    BY DEF SettledCaps
  <2>3. ModesFitTheChip
    BY <2>2 DEF HalIInv, CapsFitTheChip, NifsFitTheCaps, ModesFitTheChip
  <2>4. AnswersAreForSupl
    BY <2>2 DEF HalIInv, NifsFitTheCaps, AnswersFit, AnswersAreForSupl
  <2> QED
    BY <2>1, <2>3, <2>4 DEF HalInv
<1>2. HalSpec => []HalIInv
  BY HalStarts, HalStep, PTL DEF HalSpec
<1> QED
  BY <1>1, <1>2, PTL

-----------------------------------------------------------------------------
(* The helpers of the sensors, the lights and the Wi-Fi address. *)

\* A number of an interval, and its bounds.
LEMMA Between ==
  ASSUME NEW h \in Nat
  PROVE  /\ \A x \in 0 .. h : x \in Int /\ 0 <= x /\ x <= h
         /\ \A x \in Int : 0 <= x /\ x <= h => x \in 0 .. h
  OBVIOUS

\* A color's parts.
LEMMA PartsOfColor ==
  ASSUME NEW S, NEW c \in S \X S \X S
  PROVE  c[1] \in S /\ c[2] \in S /\ c[3] \in S
  OBVIOUS

\* What a color weighs, of 256 parts.
Weight(r, g, b) == 77 * r + 150 * g + 29 * b

LEMMA WeightFits ==
  ASSUME NEW S, \A x \in S : x \in Int /\ 0 <= x /\ x <= 255
  PROVE  \A r, g, b \in S : Weight(r, g, b) \in Int /\ 0 <= Weight(r, g, b) /\ Weight(r, g, b) <= 65280
  BY DEF Weight

LEMMA WeightGrows ==
  ASSUME NEW r \in Int, NEW g \in Int, NEW b \in Int, NEW r2 \in Int, NEW g2 \in Int, NEW b2 \in Int,
         r <= r2, g <= g2, b <= b2
  PROVE  Weight(r, g, b) <= Weight(r2, g2, b2)
  BY DEF Weight

LEMMA ShareFits == \A m \in Int : 0 <= m /\ m <= 65280 => m \div 256 \in Int /\ 0 <= m \div 256 /\ m \div 256 <= 255
  OBVIOUS

LEMMA ShareGrows == \A m, n \in Int : m <= n => m \div 256 <= n \div 256
  OBVIOUS

Bytes == 0 .. 255

\* The brightness of a color of eight bits fits eight bits ...
LEMMA BrightnessIsByte ==
  ASSUME NEW c \in Bytes \X Bytes \X Bytes
  PROVE  /\ c[1] \in Int /\ c[2] \in Int /\ c[3] \in Int
         /\ Weight(c[1], c[2], c[3]) \in Int /\ Brightness(c) = Weight(c[1], c[2], c[3]) \div 256
         /\ Brightness(c) \in Bytes
<1>1. c[1] \in Bytes /\ c[2] \in Bytes /\ c[3] \in Bytes
  BY PartsOfColor
<1>2. \A x \in Bytes : x \in Int /\ 0 <= x /\ x <= 255
  BY Between DEF Bytes
<1>3. \A x \in Int : 0 <= x /\ x <= 255 => x \in Bytes
  BY Between DEF Bytes
<1>4. Brightness(c) = Weight(c[1], c[2], c[3]) \div 256
  BY DEF Brightness, Weight
<1>5. \A r, g, b \in Bytes : Weight(r, g, b) \in Int /\ 0 <= Weight(r, g, b) /\ Weight(r, g, b) <= 65280
  BY <1>2, WeightFits
<1>6. Weight(c[1], c[2], c[3]) \in Int /\ 0 <= Weight(c[1], c[2], c[3]) /\ Weight(c[1], c[2], c[3]) <= 65280
  BY <1>1, <1>5
<1> QED
  BY <1>1, <1>2, <1>3, <1>4, <1>6, ShareFits

\* ... and grows with it.
LEMMA BrightnessGrows ==
  ASSUME NEW c \in Bytes \X Bytes \X Bytes, NEW d \in Bytes \X Bytes \X Bytes, \A i \in 1 .. 3 : c[i] <= d[i]
  PROVE  Brightness(c) <= Brightness(d)
<1>1. c[1] <= d[1] /\ c[2] <= d[2] /\ c[3] <= d[3]
  OBVIOUS
<1>2. Weight(c[1], c[2], c[3]) <= Weight(d[1], d[2], d[3])
  BY <1>1, BrightnessIsByte, WeightGrows
<1> QED
  BY <1>2, BrightnessIsByte, ShareGrows

HelperFlags ==
  /\ vendorFound \in BOOLEAN /\ samsung_hw_dev \in {"null", "live", "freed"}
  /\ mishaps \subseteq {"double free", "wild free", "null call", "freed call"}
  /\ reopened \in BOOLEAN /\ starved \in BOOLEAN
  /\ dms_init_done \in BOOLEAN /\ dms_qmi_client \in BOOLEAN

HelperCounts ==
  /\ opens \in Nat /\ opens <= MaxOpens /\ users \in Nat /\ users <= vendorOpens /\ vendorOpens \in Nat /\ vendorOpens <= opens
  /\ inits \in Nat /\ inits <= MaxOpens /\ modemClients \in Nat /\ modemClients <= inits /\ unreleased \in Nat

LitFits == lit \in [backlight : Bytes, buttons : 0 .. 1]

\* As long as nobody opens while there is a device or after its close, the device that
\* is live has one user.
OneUser ==
  /\ ~reopened /\ samsung_hw_dev = "live" => users = 1
  /\ ~reopened /\ samsung_hw_dev # "live" => users = 0

\* Until then nothing but an opening that fails frees what was never set.
SensorsFit ==
  /\ OneUser
  /\ ~reopened => mishaps \subseteq {"wild free"}
  /\ ~starved => "wild free" \notin mishaps

\* The client that is kept is one of the modem's, and while the library is
\* initialised there is one; without it the modem has those that it kept.
ModemFits ==
  /\ dms_qmi_client => modemClients > 0
  /\ ~twice /\ dms_init_done => dms_qmi_client /\ modemClients = 1 + unreleased
  /\ ~twice /\ ~dms_init_done => modemClients = unreleased
  /\ ~twice => answered # "stray"

HelpersIInv == HelperFlags /\ HelperCounts /\ LitFits /\ SensorsFit /\ ModemFits

LEMMA HelpersStart == HelpersInit => HelpersIInv
<1> SUFFICES ASSUME HelpersInit PROVE HelpersIInv
  OBVIOUS
<1>1. HelperFlags
  BY DEF HelpersInit, HelperFlags
<1>2. HelperCounts
  BY HelpersAssumption DEF HelpersInit, HelperCounts
<1>3. LitFits
  <2>1. 0 \in Bytes /\ 0 \in 0 .. 1
    BY Between DEF Bytes
  <2>2. lit = [backlight |-> 0, buttons |-> 0]
    BY DEF HelpersInit
  <2> QED
    BY <2>1, <2>2 DEF LitFits
<1>4. SensorsFit
  BY DEF HelpersInit, SensorsFit, OneUser
<1>5. ModemFits
  <2>1. ~dms_qmi_client /\ ~dms_init_done /\ modemClients = unreleased /\ answered # "stray"
    BY DEF HelpersInit
  <2> QED
    BY <2>1 DEF ModemFits
<1> QED
  BY <1>1, <1>2, <1>3, <1>4, <1>5 DEF HelpersIInv

LEMMA SensorsKeep ==
  ASSUME HelpersIInv, ListGet \/ SensorsOpen \/ SensorsCall \/ SensorsClose
  PROVE  HelpersIInv'
<1>1. UNCHANGED <<lit, dms_init_done, modemClients, dms_qmi_client, inits, twice, unreleased, answered>>
  BY DEF ListGet, SensorsOpen, SensorsCall, SensorsClose, modemVars
<1>2. ModemFits' /\ LitFits'
  BY <1>1 DEF HelpersIInv, ModemFits, LitFits
<1>3. CASE ListGet
  <2>1. /\ vendorFound' \in BOOLEAN
        /\ UNCHANGED <<samsung_hw_dev, users, vendorOpens, opens, reopened, starved, mishaps>>
    BY <1>3 DEF ListGet, CheckVendorModule, HelpersIInv, HelperFlags
  <2>2. HelperFlags'
    BY <1>1, <2>1 DEF HelpersIInv, HelperFlags
  <2>3. HelperCounts'
    BY <1>1, <2>1 DEF HelpersIInv, HelperCounts
  <2>4. SensorsFit'
    BY <2>1 DEF HelpersIInv, SensorsFit, OneUser
  <2> QED
    BY <1>2, <2>2, <2>3, <2>4 DEF HelpersIInv
<1>4. CASE SensorsOpen
  <2>1. /\ opens < MaxOpens /\ opens' = opens + 1 /\ mishaps = {}
    BY <1>4 DEF SensorsOpen
  <2>2. reopened' = (reopened \/ samsung_hw_dev # "null")
    BY <1>4 DEF SensorsOpen
  <2>3. vendorFound' \in BOOLEAN
    BY <1>4 DEF SensorsOpen, CheckVendorModule, HelpersIInv, HelperFlags
  <2>4. CASE /\ starved' = TRUE /\ samsung_hw_dev' = "null" /\ users' = users
             /\ (vendorOpens' = vendorOpens \/ vendorOpens' = vendorOpens + 1)
             /\ mishaps' \subseteq {"double free", "wild free"}
             /\ samsung_hw_dev = "null" => mishaps' \subseteq {"wild free"}
    <3>1. HelperFlags'
      BY <1>1, <2>2, <2>3, <2>4 DEF HelpersIInv, HelperFlags
    <3>2. HelperCounts'
      <4>1. users' = users /\ (vendorOpens' = vendorOpens \/ vendorOpens' = vendorOpens + 1)
        BY <2>4
      <4>2. inits' = inits /\ modemClients' = modemClients /\ unreleased' = unreleased
        BY <1>1
      <4> QED
        BY <2>1, <4>1, <4>2, HelpersAssumption DEF HelpersIInv, HelperCounts
    <3>3. ~reopened' => ~reopened /\ samsung_hw_dev = "null"
      BY <2>2
    <3>4. SensorsFit'
      BY <2>4, <3>3 DEF HelpersIInv, SensorsFit, OneUser
    <3> QED
      BY <1>2, <3>1, <3>2, <3>4 DEF HelpersIInv
  <2>5. CASE /\ samsung_hw_dev = "null" /\ samsung_hw_dev' = "live" /\ users' = users + 1 /\ vendorOpens' = vendorOpens + 1
             /\ UNCHANGED <<starved, mishaps>>
    <3>1. HelperFlags'
      BY <1>1, <2>2, <2>3, <2>5 DEF HelpersIInv, HelperFlags
    <3>2. HelperCounts'
      BY <1>1, <2>1, <2>5, HelpersAssumption DEF HelpersIInv, HelperCounts
    <3>3. ~reopened' => ~reopened
      BY <2>2
    <3>4. ~reopened' => users = 0
      BY <2>5, <3>3 DEF HelpersIInv, SensorsFit, OneUser
    <3>5. mishaps' = {} /\ (~reopened' => users' = 1)
      BY <2>1, <2>5, <3>4
    <3>6. SensorsFit'
      BY <2>5, <3>5 DEF SensorsFit, OneUser
    <3> QED
      BY <1>2, <3>1, <3>2, <3>6 DEF HelpersIInv
  <2> QED
    BY <1>4, <2>1, <2>4, <2>5 DEF SensorsOpen, FailPath, DoublyFreed
<1>5. CASE SensorsCall
  <2>1. /\ mishaps = {} /\ users > 0 /\ mishaps' = Through(samsung_hw_dev)
        /\ UNCHANGED <<vendorFound, samsung_hw_dev, users, vendorOpens, opens, reopened, starved>>
    BY <1>5 DEF SensorsCall
  <2>2. HelperFlags'
    BY <1>1, <2>1 DEF HelpersIInv, HelperFlags, Through
  <2>3. HelperCounts'
    BY <1>1, <2>1 DEF HelpersIInv, HelperCounts
  <2>4. ~reopened => samsung_hw_dev = "live"
    BY <2>1 DEF HelpersIInv, SensorsFit, OneUser
  <2>5. "wild free" \notin mishaps' /\ (~reopened => mishaps' = {})
    BY <2>1, <2>4 DEF Through
  <2>7. SensorsFit'
    BY <2>1, <2>5 DEF HelpersIInv, SensorsFit, OneUser
  <2> QED
    BY <1>2, <2>2, <2>3, <2>7 DEF HelpersIInv
<1>6. CASE SensorsClose
  <2>1. /\ users > 0 /\ users' = users - 1 /\ mishaps' = Through(samsung_hw_dev)
        /\ UNCHANGED <<vendorFound, vendorOpens, opens, reopened, starved>>
    BY <1>6 DEF SensorsClose
  <2>2. \/ samsung_hw_dev = "live" /\ samsung_hw_dev' = "freed"
        \/ samsung_hw_dev # "live" /\ samsung_hw_dev' = samsung_hw_dev
    BY <1>6 DEF SensorsClose
  <2>3. HelperFlags'
    BY <1>1, <2>1, <2>2 DEF HelpersIInv, HelperFlags, Through
  <2>4. HelperCounts'
    BY <1>1, <2>1 DEF HelpersIInv, HelperCounts
  <2>5. ~reopened => samsung_hw_dev = "live" /\ users = 1
    <3>1. users > 0
      BY <2>1
    <3>2. OneUser
      BY DEF HelpersIInv, SensorsFit
    <3> QED
      BY <3>1, <3>2 DEF OneUser
  <2>6. "wild free" \notin mishaps' /\ (~reopened => mishaps' = {} /\ users' = 0)
    <3>1. mishaps' = Through(samsung_hw_dev) /\ (~reopened => samsung_hw_dev = "live")
      BY <2>1, <2>5
    <3>2. ~reopened => users' = 0
      BY <2>1, <2>5
    <3> QED
      BY <3>1, <3>2 DEF Through
  <2>7. samsung_hw_dev' # "live"
    BY <2>2
  <2>8. SensorsFit'
    BY <2>1, <2>6, <2>7 DEF SensorsFit, OneUser
  <2> QED
    BY <1>2, <2>3, <2>4, <2>8 DEF HelpersIInv
<1> QED
  BY <1>3, <1>4, <1>5, <1>6

LEMMA LightsKeep ==
  ASSUME HelpersIInv, NEW c \in Colors, SetBacklight(c) \/ SetButtons(c)
  PROVE  HelpersIInv'
<1>1. UNCHANGED <<vendorFound, samsung_hw_dev, users, vendorOpens, opens, reopened, starved, mishaps,
                  dms_init_done, modemClients, dms_qmi_client, inits, twice, unreleased, answered>>
  BY DEF SetBacklight, SetButtons, sensorVars, modemVars
<1>2. Brightness(c) \in Bytes
  <2>1. c \in Bytes \X Bytes \X Bytes
    BY HelpersAssumption DEF Bytes
  <2> QED
    BY <2>1, BrightnessIsByte
<1>3. lit \in [backlight : Bytes, buttons : 0 .. 1]
  BY DEF HelpersIInv, LitFits
<1>4. lit' \in [backlight : Bytes, buttons : 0 .. 1]
  <2>1. CASE SetBacklight(c)
    BY <1>2, <1>3, <2>1 DEF SetBacklight
  <2>2. CASE SetButtons(c)
    <3>1. (IF IsLit(c) THEN 1 ELSE 0) \in 0 .. 1
      OBVIOUS
    <3> QED
      BY <1>3, <2>2, <3>1 DEF SetButtons
  <2> QED
    BY <2>1, <2>2
<1>5. LitFits'
  BY <1>4 DEF LitFits
<1>6. HelperFlags'
  BY <1>1 DEF HelpersIInv, HelperFlags
<1>7. HelperCounts'
  BY <1>1 DEF HelpersIInv, HelperCounts
<1>8. SensorsFit'
  BY <1>1 DEF HelpersIInv, SensorsFit, OneUser
<1>9. ModemFits'
  BY <1>1 DEF HelpersIInv, ModemFits
<1> QED
  BY <1>5, <1>6, <1>7, <1>8, <1>9 DEF HelpersIInv

LEMMA AddressKeeps ==
  ASSUME HelpersIInv, InitQmi \/ GetWlanAddress \/ Deinit
  PROVE  HelpersIInv'
<1>1. UNCHANGED <<vendorFound, samsung_hw_dev, users, vendorOpens, opens, reopened, starved, mishaps, lit>>
  BY DEF InitQmi, GetWlanAddress, Deinit, sensorVars
<1>2. SensorsFit' /\ LitFits'
  BY <1>1 DEF HelpersIInv, SensorsFit, OneUser, LitFits
<1>3. CASE InitQmi
  <2>1. /\ inits < MaxOpens /\ inits' = inits + 1 /\ UNCHANGED <<unreleased, answered>>
    BY <1>3 DEF InitQmi
  <2>2. twice' = (twice \/ dms_init_done)
    BY <1>3 DEF InitQmi
  <2>3. ~twice' => ~twice /\ ~dms_init_done
    BY <2>2
  <2>4. CASE dms_init_done' = TRUE /\ modemClients' = modemClients + 1 /\ dms_qmi_client' = TRUE
    <3>1. HelperFlags'
      BY <1>1, <2>4 DEF HelpersIInv, HelperFlags
    <3>2. HelperCounts'
      BY <1>1, <2>1, <2>4, HelpersAssumption DEF HelpersIInv, HelperCounts
    <3>3. ~twice' => modemClients = unreleased /\ answered # "stray"
      BY <2>3 DEF HelpersIInv, ModemFits
    <3>4. modemClients' > 0 /\ (~twice' => modemClients' = 1 + unreleased' /\ answered' # "stray")
      BY <2>1, <2>4, <3>3 DEF HelpersIInv, HelperCounts
    <3>5. dms_init_done' /\ dms_qmi_client'
      BY <2>4
    <3>6. ModemFits'
      BY <3>4, <3>5 DEF ModemFits
    <3> QED
      BY <1>2, <3>1, <3>2, <3>6 DEF HelpersIInv
  <2>5. CASE UNCHANGED <<dms_init_done, modemClients>> /\ dms_qmi_client' \in {dms_qmi_client, FALSE}
    <3>1. HelperFlags'
      BY <1>1, <2>5 DEF HelpersIInv, HelperFlags
    <3>2. HelperCounts'
      BY <1>1, <2>1, <2>5, HelpersAssumption DEF HelpersIInv, HelperCounts
    <3>3. (dms_qmi_client' => dms_qmi_client) /\ (dms_init_done' => dms_init_done)
      <4>1. dms_qmi_client' = dms_qmi_client \/ dms_qmi_client' = FALSE
        BY <2>5
      <4>2. dms_init_done' = dms_init_done
        BY <2>5
      <4> QED
        BY <4>1, <4>2
    <3>4. ~twice' => ~dms_init_done' /\ modemClients = unreleased /\ answered # "stray"
      BY <2>3, <3>3 DEF HelpersIInv, ModemFits
    <3>5. dms_qmi_client' => modemClients > 0
      BY <3>3 DEF HelpersIInv, ModemFits
    <3>6. ModemFits'
      BY <2>1, <2>5, <3>4, <3>5 DEF ModemFits
    <3> QED
      BY <1>2, <3>1, <3>2, <3>6 DEF HelpersIInv
  <2> QED
    BY <1>3, <2>4, <2>5 DEF InitQmi
<1>4. CASE GetWlanAddress
  <2>1. /\ UNCHANGED <<dms_init_done, modemClients, dms_qmi_client, inits, twice, unreleased>>
        /\ answered' = "stray" => dms_init_done /\ ~dms_qmi_client
    BY <1>4 DEF GetWlanAddress
  <2>2. HelperFlags'
    BY <1>1, <2>1 DEF HelpersIInv, HelperFlags
  <2>3. HelperCounts'
    BY <1>1, <2>1 DEF HelpersIInv, HelperCounts
  <2>4. ~twice => answered' # "stray"
    BY <2>1 DEF HelpersIInv, ModemFits
  <2>5. ModemFits'
    BY <2>1, <2>4 DEF HelpersIInv, ModemFits
  <2> QED
    BY <1>2, <2>2, <2>3, <2>5 DEF HelpersIInv
<1>5. CASE Deinit
  <2>1. dms_init_done /\ ~dms_init_done' /\ ~dms_qmi_client'
    BY <1>5 DEF Deinit
  <2>2. \/ dms_qmi_client /\ modemClients' = modemClients - 1 /\ unreleased' = unreleased
        \/ unreleased' = unreleased + 1 /\ modemClients' = modemClients
    BY <1>5 DEF Deinit
  <2>3. UNCHANGED <<inits, twice, answered>>
    BY <1>5 DEF Deinit
  <2>4. HelperFlags'
    <3>1. dms_init_done' \in BOOLEAN /\ dms_qmi_client' \in BOOLEAN
      BY <1>5 DEF Deinit
    <3> QED
      BY <1>1, <3>1 DEF HelpersIInv, HelperFlags
  <2>5. dms_qmi_client => modemClients > 0
    BY DEF HelpersIInv, ModemFits
  <2>6. HelperCounts'
    BY <1>1, <2>2, <2>3, <2>5 DEF HelpersIInv, HelperCounts
  <2>7. ~twice => modemClients = 1 + unreleased /\ answered # "stray"
    BY <2>1 DEF HelpersIInv, ModemFits
  <2>8. ~twice' => modemClients' = unreleased' /\ answered' # "stray"
    BY <2>2, <2>3, <2>7 DEF HelpersIInv, HelperCounts
  <2>9. ModemFits'
    BY <2>1, <2>8 DEF ModemFits
  <2> QED
    BY <1>2, <2>4, <2>6, <2>9 DEF HelpersIInv
<1> QED
  BY <1>3, <1>4, <1>5

LEMMA HelpersStep ==
  ASSUME HelpersIInv, [HelpersNext]_helperVars
  PROVE  HelpersIInv'
<1>1. CASE UNCHANGED helperVars
  <2>1. UNCHANGED <<vendorFound, samsung_hw_dev, users, vendorOpens, opens, reopened, starved, mishaps, lit,
                    dms_init_done, modemClients, dms_qmi_client, inits, twice, unreleased, answered>>
    BY <1>1 DEF helperVars, sensorVars, modemVars
  <2>2. HelperFlags'
    BY <2>1 DEF HelpersIInv, HelperFlags
  <2>3. HelperCounts'
    BY <2>1 DEF HelpersIInv, HelperCounts
  <2>4. SensorsFit' /\ LitFits'
    BY <2>1 DEF HelpersIInv, SensorsFit, OneUser, LitFits
  <2>5. ModemFits'
    BY <2>1 DEF HelpersIInv, ModemFits
  <2> QED
    BY <2>2, <2>3, <2>4, <2>5 DEF HelpersIInv
<1>2. CASE HelpersNext
  BY <1>2, SensorsKeep, LightsKeep, AddressKeeps DEF HelpersNext
<1> QED
  BY <1>1, <1>2

\* A device of the sensors works until it is closed or opened over, any color's brightness
\* fits its file, and the modem is asked through a client that it has
\* (sensorswrapper.c, lights.c, wcnss_qmi_client.c).
THEOREM HelpersSound == HelpersSpec => []HelpersInv
<1>1. BrightnessFits
  <2>1. Brightness(<<255, 255, 255>>) = 255 /\ Brightness(<<0, 0, 0>>) = 0
    BY DEF Brightness
  <2>2. \A c \in Colors : c \in Bytes \X Bytes \X Bytes
    BY HelpersAssumption DEF Bytes
  <2>3. ASSUME NEW c \in Colors, NEW d \in Colors
        PROVE  /\ Brightness(c) \in Bytes
               /\ (\A i \in 1 .. 3 : c[i] <= d[i]) => Brightness(c) <= Brightness(d)
    <3>1. c \in Bytes \X Bytes \X Bytes /\ d \in Bytes \X Bytes \X Bytes
      BY <2>2
    <3>2. Brightness(c) \in Bytes
      BY <3>1, BrightnessIsByte
    <3>3. ASSUME \A i \in 1 .. 3 : c[i] <= d[i]
          PROVE  Brightness(c) <= Brightness(d)
      BY <3>1, <3>3, BrightnessGrows
    <3> QED
      BY <3>2, <3>3
  <2> QED
    BY <2>1, <2>3 DEF BrightnessFits, Bytes
<1>2. HelpersIInv => HelpersInv
  <2> SUFFICES ASSUME HelpersIInv PROVE HelpersInv
    OBVIOUS
  <2>1. HelpersTypeOK
    <3>1. users \in 0 .. MaxOpens /\ vendorOpens \in 0 .. MaxOpens /\ modemClients \in 0 .. MaxOpens
      BY HelpersAssumption DEF HelpersIInv, HelperCounts
    <3>2. lit.backlight \in 0 .. 255 /\ lit.buttons \in 0 .. 1
      BY DEF HelpersIInv, LitFits, Bytes
    <3> QED
      BY <3>1, <3>2 DEF HelpersIInv, HelperFlags, HelpersTypeOK
  <2>2. SensorsServe
    <3>1. users <= vendorOpens
      BY DEF HelpersIInv, HelperCounts
    <3>2. ~reopened => mishaps \subseteq {"wild free"}
      BY DEF HelpersIInv, SensorsFit
    <3>3. ~reopened => (users > 0 <=> samsung_hw_dev = "live")
      <4>1. OneUser
        BY DEF HelpersIInv, SensorsFit
      <4> QED
        BY <4>1 DEF OneUser
    <3>4. ~starved => "wild free" \notin mishaps
      BY DEF HelpersIInv, SensorsFit
    <3> QED
      BY <3>1, <3>2, <3>3, <3>4 DEF SensorsServe
  <2>3. AddressClientIsKnown
    <3>1. CASE dms_init_done
      BY <3>1 DEF HelpersIInv, HelperCounts, ModemFits, AddressClientIsKnown
    <3>2. CASE ~dms_init_done
      BY <3>2 DEF HelpersIInv, HelperCounts, ModemFits, AddressClientIsKnown
    <3> QED
      BY <3>1, <3>2
  <2> QED
    BY <1>1, <2>1, <2>2, <2>3 DEF HelpersInv
<1>3. HelpersSpec => []HelpersIInv
  BY HelpersStart, HelpersStep, PTL DEF HelpersSpec
<1> QED
  BY <1>2, <1>3, PTL

-----------------------------------------------------------------------------
(* The server for the daemons. *)

Mail == Ctrls \cup {Unblocks, Broken}

\* Who waits, and for what: the server is ready when it says so, the owner is woken
\* once it is, and has asked it to end before it joins it.
ThreadsFit ==
  /\ owner \in {"idle", "failed", "launching", "waiting", "launched", "unblocking", "joining", "joined"}
  /\ owner = "idle" => server = "none"
  /\ thread_ready <=> server \notin {"none", "starting", "initialised"}
  /\ signalled => thread_ready
  /\ owner \in {"launching", "waiting"} => server # "none"
  /\ owner = "waiting" /\ thread_ready => signalled
  /\ owner \in {"launched", "unblocking", "joining"} => thread_ready \/ spurious
  /\ owner \in {"unblocking", "joining"} => thread_exit

\* A server that is to end has a message left to read.
EndComes ==
  /\ pipe \in Seq(Mail)
  /\ owner = "joining" /\ ~spurious /\ server = "looping" /\ open => pipe # <<>>

\* Before the pipes are there nobody has asked for anything.
NothingYet ==
  server \in {"none", "starting"} =>
    /\ ~open /\ pipe = <<>> /\ posted = <<>> /\ toWrite = {} /\ supl = "Released" /\ internet = "Released"
    /\ suplBits = {} /\ internetBits = {} /\ unanswered = {} /\ lastTold["DAEMON"] = "none"

Answering == {"none", "REQUEST_SUCCESS", "RELEASE_SUCCESS", "FAILURE"}

\* The base machine never waits for a close, nobody grants the Internet, and what is
\* to be written says one of four things.
MachinesFit ==
  /\ supl \in {"Released", "Pending", "Acquired"} /\ internet \in {"Released", "Pending"}
  /\ lastTold \in [Senders -> Answering]
  /\ \A n \in toWrite : n[2] \in {"GRANTED", "RELEASED", "DENIED", "UNSUBSCRIBE"}

Noted(a) == \E n \in toWrite : n[1] = a

\* Who waits for a response is on the list or about to be told, the connection is
\* somebody's, and a grant that is told, or about to be told, holds or is about to be
\* taken back.
TruthFits ==
  ~flushed /\ open =>
    /\ \A a \in unanswered : a \in suplBits \/ Noted(a)
    /\ \A a \in unanswered : supl = "Pending" \/ Noted(a)
    /\ supl \in {"Pending", "Acquired"} => suplBits # {}
    /\ \A n \in toWrite : n[2] = "GRANTED" => supl = "Acquired"
    /\ lastTold["DAEMON"] = "REQUEST_SUCCESS" => supl = "Acquired" \/ toWrite # {}

DaemonIInv == ThreadsFit /\ EndComes /\ NothingYet /\ MachinesFit /\ TruthFits

LEMMA DmnStart == DmnInit => DaemonIInv
<1> SUFFICES ASSUME DmnInit PROVE DaemonIInv
  OBVIOUS
<1>1. ThreadsFit
  BY DEF DmnInit, ThreadsFit
<1>2. EndComes
  <2>1. pipe = <<>> /\ owner = "idle"
    BY DEF DmnInit
  <2> QED
    BY <2>1 DEF EndComes
<1>3. "DAEMON" \in Senders /\ lastTold = [s \in Senders |-> "none"]
  BY DEF DmnInit, Senders
<1>4. NothingYet
  BY <1>3 DEF DmnInit, NothingYet
<1>5. MachinesFit
  BY <1>3 DEF DmnInit, MachinesFit, Answering
<1>6. TruthFits
  BY DEF DmnInit, TruthFits
<1> QED
  BY <1>1, <1>2, <1>4, <1>5, <1>6 DEF DaemonIInv

\* What a broadcast leaves to write.
LEMMA NotesOf ==
  ASSUME NEW S, NEW st
  PROVE  /\ \A n \in S \X {st} : n[1] \in S /\ n[2] = st
         /\ \A s \in S : \E n \in S \X {st} : n[1] = s
<1>1. \A n \in S \X {st} : n[1] \in S /\ n[2] = st
  OBVIOUS
<1>2. ASSUME NEW s \in S PROVE \E n \in S \X {st} : n[1] = s
  <2>1. <<s, st>> \in S \X {st} /\ <<s, st>>[1] = s
    OBVIOUS
  <2> QED
    BY <2>1
<1> QED
  BY <1>1, <1>2

LEMMA OwnerKeeps ==
  ASSUME DaemonIInv, Launch \/ SignalWait \/ Wakes \/ Unblock \/ Join
  PROVE  DaemonIInv'
<1>1. UNCHANGED <<open, posted, supl, suplBits, internet, internetBits, toWrite, nifReq,
                  lastTold, modemTold, unanswered, flushed, astray>>
  BY DEF Launch, SignalWait, Wakes, Unblock, Join, queues, engine, dmnMachines, responses
<1>2. MachinesFit'
  BY <1>1 DEF DaemonIInv, MachinesFit
<1>3. TruthFits'
  BY <1>1 DEF DaemonIInv, TruthFits, Noted
<1>4. CASE Launch
  <2>1. /\ owner = "idle" /\ server = "none" /\ ~thread_ready' /\ ~thread_exit' /\ ~signalled' /\ UNCHANGED <<pipe, spurious>>
        /\ \/ owner' = "launching" /\ server' = "starting"
           \/ owner' = "failed" /\ server' = "none"
    BY <1>4 DEF Launch, DaemonIInv, ThreadsFit, queues, past
  <2>2. ThreadsFit' /\ EndComes'
    BY <2>1 DEF DaemonIInv, ThreadsFit, EndComes
  <2>3. NothingYet'
    BY <1>1, <2>1 DEF DaemonIInv, NothingYet
  <2> QED
    BY <1>2, <1>3, <2>2, <2>3 DEF DaemonIInv
<1>5. CASE SignalWait
  <2>1. /\ owner = "launching" /\ UNCHANGED <<server, thread_ready, thread_exit, signalled, pipe, spurious>>
        /\ \/ owner' = "failed"
           \/ owner' = "launched" /\ thread_ready
           \/ owner' = "waiting" /\ ~thread_ready
    BY <1>5 DEF SignalWait, helper, queues, past
  <2>2. ThreadsFit' /\ EndComes'
    BY <2>1 DEF DaemonIInv, ThreadsFit, EndComes
  <2>3. NothingYet'
    BY <1>1, <2>1 DEF DaemonIInv, NothingYet
  <2> QED
    BY <1>2, <1>3, <2>2, <2>3 DEF DaemonIInv
<1>6. CASE Wakes
  <2>1. /\ owner = "waiting" /\ UNCHANGED <<server, thread_ready, thread_exit, signalled, pipe>>
        /\ owner' \in {"failed", "launched"}
    BY <1>6 DEF Wakes, helper, queues
  <2>2. signalled \/ spurious'
    BY <1>6 DEF Wakes
  <2>3. ThreadsFit' /\ EndComes'
    BY <2>1, <2>2 DEF DaemonIInv, ThreadsFit, EndComes
  <2>4. NothingYet'
    BY <1>1, <2>1 DEF DaemonIInv, NothingYet
  <2> QED
    BY <1>2, <1>3, <2>3, <2>4 DEF DaemonIInv
<1>7. CASE Unblock
  <2>1. /\ UNCHANGED <<server, thread_ready, signalled, spurious>>
        /\ \/ /\ owner = "launched" /\ owner' = "unblocking" /\ thread_exit' = TRUE /\ pipe' = pipe
           \/ /\ owner = "unblocking" /\ owner' = "joining" /\ thread_exit' = thread_exit
              /\ \/ open /\ pipe' = Append(pipe, Unblocks)
                 \/ ~open /\ pipe' = pipe
    BY <1>7 DEF Unblock, helper, queues, past
  <2>2. ThreadsFit'
    BY <2>1 DEF DaemonIInv, ThreadsFit
  <2>3. pipe \in Seq(Mail) /\ Unblocks \in Mail
    BY DEF DaemonIInv, EndComes, Mail
  <2>4. \A r : r = Append(pipe, Unblocks) => r \in Seq(Mail) /\ r # <<>>
    BY <2>3, Sent
  <2>5. EndComes'
    <3>1. CASE owner' = "unblocking" /\ pipe' = pipe
      BY <2>3, <3>1 DEF EndComes
    <3>2. CASE open /\ pipe' = Append(pipe, Unblocks)
      BY <2>4, <3>2 DEF EndComes
    <3>3. CASE ~open /\ pipe' = pipe
      BY <1>1, <2>3, <3>3 DEF EndComes
    <3> QED
      BY <2>1, <3>1, <3>2, <3>3
  <2>6. NothingYet'
    BY <1>1, <2>1 DEF DaemonIInv, NothingYet
  <2> QED
    BY <1>2, <1>3, <2>2, <2>5, <2>6 DEF DaemonIInv
<1>8. CASE Join
  <2>1. owner = "joining" /\ owner' = "joined" /\ UNCHANGED <<server, thread_ready, thread_exit, signalled, pipe, spurious>>
    BY <1>8 DEF Join, helper, queues, past
  <2>2. ThreadsFit' /\ EndComes'
    BY <2>1 DEF DaemonIInv, ThreadsFit, EndComes
  <2>3. NothingYet'
    BY <1>1, <2>1 DEF DaemonIInv, NothingYet
  <2> QED
    BY <1>2, <1>3, <2>2, <2>3 DEF DaemonIInv
<1> QED
  BY <1>4, <1>5, <1>6, <1>7, <1>8

LEMMA ServerKeeps ==
  ASSUME DaemonIInv, ProcInit \/ Ready \/ Proc \/ ProcFails \/ LoopTest \/ ProcPost \/ \E msg \in DmnMessages : DaemonSends(msg)
  PROVE  DaemonIInv'
<1>1. UNCHANGED <<owner, spurious, supl, suplBits, internet, internetBits, toWrite, nifReq,
                  lastTold, modemTold, unanswered, flushed, astray>>
  BY DEF ProcInit, Ready, Proc, ProcFails, LoopTest, ProcPost, DaemonSends, past, engine, dmnMachines, responses
<1>2. MachinesFit'
  BY <1>1 DEF DaemonIInv, MachinesFit
<1>3. (open' => open) => TruthFits'
  BY <1>1 DEF DaemonIInv, TruthFits, Noted
<1>4. <<>> \in Seq(Mail)
  OBVIOUS
<1>5. CASE ProcInit
  <2>1. server = "starting" /\ server' = "initialised" /\ UNCHANGED <<thread_ready, thread_exit, signalled, pipe, posted>>
    BY <1>5 DEF ProcInit, PipeGet, helper, engine
  <2>2. ThreadsFit' /\ EndComes' /\ NothingYet'
    BY <1>1, <2>1 DEF DaemonIInv, ThreadsFit, EndComes, NothingYet
  <2>3. TruthFits'
    BY <1>1, <2>1 DEF DaemonIInv, NothingYet, TruthFits
  <2> QED
    BY <1>2, <2>2, <2>3 DEF DaemonIInv
<1>6. CASE Ready
  <2>1. /\ server = "initialised" /\ server' = "looping" /\ thread_ready' /\ (owner = "waiting" => signalled')
        /\ UNCHANGED <<thread_exit, pipe, open, posted>>
    BY <1>6 DEF Ready, queues, engine
  <2>2. ThreadsFit'
    BY <1>1, <2>1 DEF DaemonIInv, ThreadsFit
  <2>3. ~(owner = "joining" /\ ~spurious)
    BY <2>1 DEF DaemonIInv, ThreadsFit
  <2>4. EndComes' /\ NothingYet'
    BY <1>1, <2>1, <2>3 DEF DaemonIInv, EndComes, NothingYet
  <2> QED
    BY <1>2, <1>3, <2>1, <2>2, <2>4 DEF DaemonIInv
<1>7. CASE Proc
  <2>1. /\ server = "looping" /\ server' = "testing" /\ pipe # <<>> /\ pipe' = Tail(pipe) /\ (thread_exit => thread_exit')
        /\ UNCHANGED <<thread_ready, signalled, open>>
    BY <1>7 DEF Proc
  <2>2. ThreadsFit'
    BY <1>1, <2>1 DEF DaemonIInv, ThreadsFit
  <2>3. pipe' \in Seq(Mail)
    <3>1. pipe \in Seq(Mail)
      BY DEF DaemonIInv, EndComes
    <3> QED
      BY <2>1, <3>1, Taken
  <2>4. EndComes' /\ NothingYet'
    BY <2>1, <2>3 DEF EndComes, NothingYet
  <2> QED
    BY <1>2, <1>3, <2>1, <2>2, <2>4 DEF DaemonIInv
<1>8. CASE ProcFails
  <2>1. /\ server = "looping" /\ server' = "testing" /\ thread_exit'
        /\ UNCHANGED <<thread_ready, signalled, pipe, open>>
    BY <1>8 DEF ProcFails, queues
  <2>2. ThreadsFit' /\ EndComes' /\ NothingYet'
    BY <1>1, <2>1 DEF DaemonIInv, ThreadsFit, EndComes, NothingYet
  <2> QED
    BY <1>2, <1>3, <2>1, <2>2 DEF DaemonIInv
<1>9. CASE LoopTest
  <2>1. /\ server = "testing" /\ UNCHANGED <<thread_ready, thread_exit, signalled, pipe, open>>
        /\ \/ thread_exit /\ server' = "leaving"
           \/ ~thread_exit /\ server' = "looping"
    BY <1>9 DEF LoopTest, helper, queues
  <2>2. ThreadsFit' /\ NothingYet'
    BY <1>1, <2>1 DEF DaemonIInv, ThreadsFit, NothingYet
  <2>3. EndComes'
    BY <1>1, <2>1 DEF DaemonIInv, ThreadsFit, EndComes
  <2> QED
    BY <1>2, <1>3, <2>1, <2>2, <2>3 DEF DaemonIInv
<1>10. CASE ProcPost
  <2>1. server = "leaving" /\ server' = "gone" /\ ~open' /\ pipe' = <<>> /\ UNCHANGED <<thread_ready, thread_exit, signalled>>
    BY <1>10 DEF ProcPost, PipeRemove, helper
  <2>2. ThreadsFit' /\ NothingYet'
    BY <1>1, <2>1 DEF DaemonIInv, ThreadsFit, NothingYet
  <2>3. EndComes'
    BY <1>4, <2>1 DEF EndComes
  <2> QED
    BY <1>2, <1>3, <2>1, <2>2, <2>3 DEF DaemonIInv
<1>11. ASSUME NEW msg \in DmnMessages, DaemonSends(msg)
       PROVE  DaemonIInv'
  <2>1. open /\ pipe' = Append(pipe, msg) /\ UNCHANGED <<server, thread_ready, thread_exit, signalled, open>>
    BY <1>11 DEF DaemonSends, helper
  <2>2. pipe \in Seq(Mail) /\ msg \in Mail
    BY DmnAssumption DEF DaemonIInv, EndComes, Mail
  <2>3. pipe' \in Seq(Mail) /\ pipe' # <<>>
    BY <2>1, <2>2, Sent
  <2>4. ThreadsFit'
    BY <1>1, <2>1 DEF DaemonIInv, ThreadsFit
  <2>5. EndComes' /\ NothingYet'
    BY <2>1, <2>3 DEF DaemonIInv, EndComes, NothingYet
  <2> QED
    BY <1>2, <1>3, <2>1, <2>4, <2>5 DEF DaemonIInv
<1> QED
  BY <1>5, <1>6, <1>7, <1>8, <1>9, <1>10, <1>11

\* What the machine for SUPL does with a request, a release and the framework's answer.
LEMMA SuplAsked ==
  ASSUME MachinesFit, NEW a, Supl!SubscribeRsrc(a, TRUE)
  PROVE  \/ supl = "Released" /\ supl' = "Pending" /\ suplBits' = suplBits \cup {a} /\ toWrite' = {}
         \/ supl = "Pending" /\ supl' = "Pending" /\ suplBits' = suplBits \cup {a} /\ toWrite' = {}
         \/ supl = "Acquired" /\ supl' = "Acquired" /\ suplBits' = suplBits \cup {a} /\ toWrite' = {a} \X {"GRANTED"}
  BY DEF MachinesFit, Supl!SubscribeRsrc, Supl!SubscribeInReleased, Supl!SubscribeWhileWaiting, Supl!SubscribeInAcquired,
         Supl!AddSubscriber, Supl!Notify

LEMMA SuplLeft ==
  ASSUME MachinesFit, NEW a, Supl!UnsubscribeRsrc(a)
  PROVE  \/ supl = "Released" /\ supl' = "Released" /\ suplBits' = suplBits /\ toWrite' = {a} \X {"UNSUBSCRIBE"}
         \/ \E also \in SUBSET suplBits :
              /\ suplBits' = suplBits \ ({a} \cup also) /\ toWrite' = ({a} \cup also) \X {"UNSUBSCRIBE"}
              /\ \/ suplBits' = {} /\ supl' = "Released"
                 \/ suplBits' # {} /\ supl' = supl
<1>1. CASE Supl!UnsubscribeInReleased(a)
  BY <1>1 DEF Supl!UnsubscribeInReleased, Supl!Notify, Supl!machine
<1>2. CASE Supl!UnsubscribeWhileEngaged(a)
  <2>1. PICK also \in SUBSET suplBits :
          suplBits' = suplBits \ ({a} \cup also) /\ toWrite' = ({a} \cup also) \X {"UNSUBSCRIBE"}
    BY <1>2 DEF Supl!UnsubscribeWhileEngaged, Supl!Leave, Supl!Notify
  <2>2. \/ suplBits' = {} /\ supl' = "Released"
        \/ suplBits' # {} /\ supl' = supl
    BY <1>2 DEF Supl!UnsubscribeWhileEngaged, Supl!Active
  <2> QED
    BY <2>1, <2>2
<1>3. ~Supl!UnsubscribeInReleasing(a)
  BY DEF MachinesFit, Supl!UnsubscribeInReleasing
<1> QED
  BY <1>1, <1>2, <1>3 DEF Supl!UnsubscribeRsrc

LEMMA SuplAnswered ==
  ASSUME MachinesFit, NEW e, Supl!OnRsrcEvent(e)
  PROVE  \/ supl = "Pending" /\ supl' = "Acquired" /\ suplBits' = suplBits /\ toWrite' = suplBits \X {"GRANTED"}
         \/ supl = "Pending" /\ supl' = "Released" /\ suplBits' = {} /\ toWrite' = suplBits \X {"DENIED"}
         \/ supl = "Acquired" /\ supl' = "Released" /\ suplBits' = {} /\ toWrite' = suplBits \X {"RELEASED"}
         \/ supl' = supl /\ suplBits' = suplBits /\ toWrite' = {}
<1>1. CASE Supl!Granted
  <2>1. suplBits \ {} = suplBits
    OBVIOUS
  <2> QED
    BY <1>1, <2>1 DEF Supl!Granted, Supl!Notify, Supl!Active
<1>2. CASE supl = "Pending" /\ Supl!DropAll("DENIED")
  BY <1>2 DEF Supl!DropAll, Supl!Notify
<1>3. CASE supl = "Acquired" /\ Supl!DropAll("RELEASED")
  BY <1>3 DEF Supl!DropAll, Supl!Notify
<1>4. ~Supl!ReleaseDone(e)
  BY DEF MachinesFit, Supl!ReleaseDone
<1>5. CASE Supl!Ignored(e)
  BY <1>5 DEF Supl!Ignored, Supl!machine
<1> QED
  BY <1>1, <1>2, <1>3, <1>4, <1>5 DEF Supl!OnRsrcEvent

\* What the machine for the Internet does: nobody grants it.
LEMMA InternetAsked ==
  ASSUME MachinesFit, NEW a, Internet!SubscribeRsrc(a, TRUE)
  PROVE  internet' = "Pending" /\ toWrite' = {}
  BY DEF MachinesFit, Internet!SubscribeRsrc, Internet!SubscribeInReleased, Internet!SubscribeWhileWaiting,
         Internet!SubscribeInAcquired

LEMMA InternetLeft ==
  ASSUME MachinesFit, NEW a, Internet!UnsubscribeRsrc(a)
  PROVE  internet' \in {"Released", "Pending"} /\ \E S : toWrite' = S \X {"UNSUBSCRIBE"}
<1>1. CASE Internet!UnsubscribeInReleased(a)
  BY <1>1 DEF Internet!UnsubscribeInReleased, Internet!Notify, Internet!machine
<1>2. CASE Internet!UnsubscribeWhileEngaged(a)
  <2>1. PICK also \in SUBSET internetBits : toWrite' = ({a} \cup also) \X {"UNSUBSCRIBE"}
    BY <1>2 DEF Internet!UnsubscribeWhileEngaged, Internet!Leave, Internet!Notify
  <2>2. internet' \in {"Released", "Pending"}
    BY <1>2 DEF MachinesFit, Internet!UnsubscribeWhileEngaged, Internet!Active
  <2> QED
    BY <2>1, <2>2
<1>3. ~Internet!UnsubscribeInReleasing(a)
  BY DEF MachinesFit, Internet!UnsubscribeInReleasing
<1> QED
  BY <1>1, <1>2, <1>3 DEF Internet!UnsubscribeRsrc

LEMMA EngineKeeps ==
  ASSUME DaemonIInv, TakesRequest \/ (\E e \in Supl!Events : FrameworkSays(e)) \/ EngineUpDropsAll
  PROVE  DaemonIInv'
<1>1. UNCHANGED <<owner, server, thread_ready, thread_exit, signalled, pipe, open, spurious, missed, received, astray, lastTold>>
  BY DEF TakesRequest, ReqRelWifi, ReqRelBIT, FrameworkSays, EngineUpDropsAll, helper, queues, past, responses
<1>2. ThreadsFit' /\ EndComes'
  BY <1>1 DEF DaemonIInv, ThreadsFit, EndComes
<1>3. toWrite = {} /\ MachinesFit
  BY DEF TakesRequest, FrameworkSays, EngineUpDropsAll, DaemonIInv
<1>4. ~flushed /\ open =>
        /\ unanswered \subseteq suplBits
        /\ \A a \in unanswered : supl = "Pending"
        /\ supl \in {"Pending", "Acquired"} => suplBits # {}
        /\ lastTold["DAEMON"] = "REQUEST_SUCCESS" => supl = "Acquired"
  BY <1>3 DEF DaemonIInv, TruthFits, Noted
<1>5. CASE TakesRequest
  <2>1. posted # <<>> /\ flushed' = flushed
    BY <1>5 DEF TakesRequest
  <2>2. NothingYet'
    BY <1>1, <2>1 DEF DaemonIInv, NothingYet
  <2>3. CASE UNCHANGED <<supl, suplBits, internet, toWrite, unanswered>>
    <3>1. MachinesFit' /\ TruthFits'
      BY <1>1, <2>1, <2>3 DEF DaemonIInv, MachinesFit, TruthFits, Noted
    <3> QED
      BY <1>2, <2>2, <3>1 DEF DaemonIInv
  <2>4. ASSUME NEW a, Supl!SubscribeRsrc(a, TRUE), unanswered' = unanswered \cup {a}, internet' = internet
        PROVE  DaemonIInv'
    <3>1. CASE supl' = "Pending" /\ supl # "Acquired" /\ suplBits' = suplBits \cup {a} /\ toWrite' = {}
      <4>1. MachinesFit'
        BY <1>1, <1>3, <2>4, <3>1 DEF MachinesFit
      <4>2. TruthFits'
        BY <1>1, <1>4, <2>1, <2>4, <3>1 DEF TruthFits, Noted
      <4> QED
        BY <1>2, <2>2, <4>1, <4>2 DEF DaemonIInv
    <3>2. CASE supl = "Acquired" /\ supl' = "Acquired" /\ suplBits' = suplBits \cup {a} /\ toWrite' = {a} \X {"GRANTED"}
      <4>1. \A n \in toWrite' : n[2] = "GRANTED"
        BY <3>2, NotesOf
      <4>2. Noted(a)'
        BY <3>2, NotesOf DEF Noted
      <4>3. MachinesFit'
        BY <1>1, <1>3, <2>4, <3>2, <4>1 DEF MachinesFit
      <4>4. TruthFits'
        BY <1>1, <1>4, <2>1, <2>4, <3>2, <4>2 DEF TruthFits
      <4> QED
        BY <1>2, <2>2, <4>3, <4>4 DEF DaemonIInv
    <3> QED
      BY <1>3, <2>4, <3>1, <3>2, SuplAsked
  <2>5. ASSUME NEW a \in suplBits, Supl!UnsubscribeRsrc(a), unanswered' = unanswered, internet' = internet
        PROVE  DaemonIInv'
    <3>1. CASE supl = "Released" /\ supl' = "Released" /\ suplBits' = suplBits /\ toWrite' = {a} \X {"UNSUBSCRIBE"}
      <4>1. \A n \in toWrite' : n[2] = "UNSUBSCRIBE"
        BY <3>1, NotesOf
      <4>2. MachinesFit'
        BY <1>1, <1>3, <2>5, <3>1, <4>1 DEF MachinesFit
      <4>3. TruthFits'
        BY <1>1, <1>4, <2>1, <2>5, <3>1, <4>1 DEF TruthFits
      <4> QED
        BY <1>2, <2>2, <4>2, <4>3 DEF DaemonIInv
    <3>2. ASSUME NEW also \in SUBSET suplBits,
                 suplBits' = suplBits \ ({a} \cup also), toWrite' = ({a} \cup also) \X {"UNSUBSCRIBE"},
                 \/ suplBits' = {} /\ supl' = "Released"
                 \/ suplBits' # {} /\ supl' = supl
          PROVE  DaemonIInv'
      <4>1. \A n \in toWrite' : n[2] = "UNSUBSCRIBE"
        BY <3>2, NotesOf
      <4>2. \A b \in {a} \cup also : Noted(b)'
        <5>1. ASSUME NEW b \in {a} \cup also
              PROVE  Noted(b)'
          <6>1. <<b, "UNSUBSCRIBE">> \in ({a} \cup also) \X {"UNSUBSCRIBE"} /\ <<b, "UNSUBSCRIBE">>[1] = b
            OBVIOUS
          <6> QED
            BY <3>2, <6>1 DEF Noted
        <5> QED
          BY <5>1
      <4>3. MachinesFit'
        BY <1>1, <1>3, <2>5, <3>2, <4>1 DEF MachinesFit
      <4>4. toWrite' # {}
        BY <4>2 DEF Noted
      <4>5. TruthFits'
        BY <1>1, <1>4, <2>1, <2>5, <3>2, <4>1, <4>2, <4>4 DEF TruthFits
      <4> QED
        BY <1>2, <2>2, <4>3, <4>5 DEF DaemonIInv
    <3> QED
      BY <1>3, <2>5, <3>1, <3>2, SuplLeft
  <2>6. ASSUME UNCHANGED <<supl, suplBits, unanswered>>, internet' \in {"Released", "Pending"},
               NEW S, toWrite' = S \X {"UNSUBSCRIBE"}
        PROVE  DaemonIInv'
    <3>1. \A n \in toWrite' : n[2] = "UNSUBSCRIBE"
      BY <2>6, NotesOf
    <3>2. MachinesFit'
      BY <1>1, <1>3, <2>6, <3>1 DEF MachinesFit
    <3>3. TruthFits'
      BY <1>1, <1>4, <2>1, <2>6, <3>1 DEF TruthFits
    <3> QED
      BY <1>2, <2>2, <3>2, <3>3 DEF DaemonIInv
  <2>7. CASE ReqRelWifi(Head(posted))
    BY <2>3, <2>7 DEF ReqRelWifi, dmnMachines
  <2>8. CASE ReqRelBIT(Head(posted))
    <3> DEFINE msg == Head(posted)
    <3>1. \/ /\ UNCHANGED <<internet, internetBits>>
             /\ \/ Supl!SubscribeRsrc(msg.address, TRUE) /\ unanswered' = unanswered \cup {msg.address}
                \/ Supl!UnsubscribeRsrc(msg.address) /\ UNCHANGED unanswered
                \/ UNCHANGED <<supl, suplBits, toWrite, unanswered>>
          \/ /\ UNCHANGED <<supl, suplBits, unanswered>>
             /\ \/ Internet!SubscribeRsrc(msg.address, TRUE)
                \/ Internet!UnsubscribeRsrc(msg.address)
                \/ UNCHANGED <<internet, toWrite>>
      BY <2>8 DEF ReqRelBIT, internetNif, suplNif
    <3> HIDE DEF msg
    <3>2. CASE Supl!SubscribeRsrc(msg.address, TRUE) /\ unanswered' = unanswered \cup {msg.address} /\ internet' = internet
      BY <2>4, <3>2
    <3>3. CASE Supl!UnsubscribeRsrc(msg.address) /\ unanswered' = unanswered /\ internet' = internet
      <4>1. msg.address \in suplBits
        BY <3>3 DEF Supl!UnsubscribeRsrc
      <4> QED
        BY <2>5, <3>3, <4>1
    <3>4. CASE Internet!SubscribeRsrc(msg.address, TRUE) /\ UNCHANGED <<supl, suplBits, unanswered>>
      <4>1. internet' = "Pending" /\ toWrite' = {}
        BY <1>3, <3>4, InternetAsked
      <4>2. toWrite' = {} \X {"UNSUBSCRIBE"}
        BY <4>1
      <4> QED
        BY <2>6, <3>4, <4>1, <4>2
    <3>5. CASE Internet!UnsubscribeRsrc(msg.address) /\ UNCHANGED <<supl, suplBits, unanswered>>
      BY <1>3, <2>6, <3>5, InternetLeft
    <3> QED
      BY <2>3, <3>1, <3>2, <3>3, <3>4, <3>5
  <2> QED
    BY <1>5, <2>7, <2>8 DEF TakesRequest
<1>6. CASE \E e \in Supl!Events : FrameworkSays(e)
  <2>1. PICK e : Supl!OnRsrcEvent(e)
    BY <1>6 DEF FrameworkSays
  <2>2. UNCHANGED <<posted, internet, internetBits, unanswered, flushed>>
    BY <1>6 DEF FrameworkSays, internetNif, responses
  <2>3. \/ supl = "Pending" /\ supl' = "Acquired" /\ suplBits' = suplBits /\ toWrite' = suplBits \X {"GRANTED"}
        \/ supl = "Pending" /\ supl' = "Released" /\ suplBits' = {} /\ toWrite' = suplBits \X {"DENIED"}
        \/ supl = "Acquired" /\ supl' = "Released" /\ suplBits' = {} /\ toWrite' = suplBits \X {"RELEASED"}
        \/ supl' = supl /\ suplBits' = suplBits /\ toWrite' = {}
    BY <1>3, <2>1, SuplAnswered
  <2>4. NothingYet'
    BY <1>1, <2>2, <2>3 DEF DaemonIInv, NothingYet
  <2>5. CASE supl' = supl /\ suplBits' = suplBits /\ toWrite' = {}
    <3>1. MachinesFit' /\ TruthFits'
      BY <1>1, <1>3, <2>2, <2>5 DEF DaemonIInv, MachinesFit, TruthFits, Noted
    <3> QED
      BY <1>2, <2>4, <3>1 DEF DaemonIInv
  <2>6. CASE supl = "Pending" /\ supl' = "Acquired" /\ suplBits' = suplBits /\ toWrite' = suplBits \X {"GRANTED"}
    <3>1. \A n \in toWrite' : n[2] = "GRANTED"
      BY <2>6, NotesOf
    <3>2. \A a \in suplBits : Noted(a)'
      <4>1. ASSUME NEW a \in suplBits
            PROVE  Noted(a)'
        <5>1. <<a, "GRANTED">> \in suplBits \X {"GRANTED"} /\ <<a, "GRANTED">>[1] = a
          OBVIOUS
        <5> QED
          BY <2>6, <5>1 DEF Noted
      <4> QED
        BY <4>1
    <3>3. MachinesFit'
      BY <1>1, <1>3, <2>2, <2>6, <3>1 DEF MachinesFit
    <3>4. TruthFits'
      BY <1>1, <1>4, <2>2, <2>6, <3>2 DEF TruthFits
    <3> QED
      BY <1>2, <2>4, <3>3, <3>4 DEF DaemonIInv
  <2>7. ASSUME NEW st \in {"DENIED", "RELEASED"}, supl \in {"Pending", "Acquired"},
               supl' = "Released", suplBits' = {}, toWrite' = suplBits \X {st}
        PROVE  DaemonIInv'
    <3>1. \A n \in toWrite' : n[2] = st
      BY <2>7, NotesOf
    <3>2. \A a \in suplBits : Noted(a)'
      <4>1. ASSUME NEW a \in suplBits
            PROVE  Noted(a)'
        <5>1. <<a, st>> \in suplBits \X {st} /\ <<a, st>>[1] = a
          OBVIOUS
        <5> QED
          BY <2>7, <5>1 DEF Noted
      <4> QED
        BY <4>1
    <3>3. MachinesFit'
      BY <1>1, <1>3, <2>2, <2>7, <3>1 DEF MachinesFit
    <3>4. ~flushed /\ open => toWrite' # {}
      BY <1>4, <2>7, <3>2 DEF Noted
    <3>5. TruthFits'
      BY <1>1, <1>4, <2>2, <2>7, <3>1, <3>2, <3>4 DEF TruthFits
    <3> QED
      BY <1>2, <2>4, <3>3, <3>5 DEF DaemonIInv
  <2> QED
    BY <2>3, <2>5, <2>6, <2>7
<1>7. CASE EngineUpDropsAll
  <2>1. flushed' /\ supl' = supl /\ internet' = internet /\ suplBits' = {} /\ internetBits' = {} /\ toWrite' = {}
        /\ UNCHANGED <<posted, unanswered>>
    BY <1>7 DEF EngineUpDropsAll, Supl!DropAllSubscribers
  <2>2. MachinesFit' /\ TruthFits'
    BY <1>1, <1>3, <2>1 DEF MachinesFit, TruthFits
  <2>3. NothingYet'
    BY <1>1, <2>1 DEF DaemonIInv, NothingYet
  <2> QED
    BY <1>2, <2>2, <2>3 DEF DaemonIInv
<1> QED
  BY <1>5, <1>6, <1>7

\* One response is written.
LEMMA ResponseKeeps ==
  ASSUME DaemonIInv, NEW n \in toWrite, WritesResponse(n)
  PROVE  DaemonIInv'
<1>1. UNCHANGED <<owner, server, thread_ready, thread_exit, signalled, pipe, open, spurious, posted,
                  supl, suplBits, internet, internetBits, flushed>>
  BY DEF WritesResponse, helper, queues, past, suplNif, internetNif
<1>2. ThreadsFit' /\ EndComes'
  BY <1>1 DEF DaemonIInv, ThreadsFit, EndComes
<1>3. toWrite' = toWrite \ {n} /\ unanswered' = unanswered \ {n[1]}
  BY DEF WritesResponse
<1>4. server \notin {"none", "starting"}
  BY DEF DaemonIInv, NothingYet
<1>5. NothingYet'
  BY <1>1, <1>4 DEF NothingYet
<1>6. n[2] \in {"GRANTED", "RELEASED", "DENIED", "UNSUBSCRIBE"}
  BY DEF DaemonIInv, MachinesFit
<1>7. Result(n[2]) \in Answering /\ (Result(n[2]) = "REQUEST_SUCCESS" => n[2] = "GRANTED")
  BY <1>6 DEF Result, Answering
<1>8. "DAEMON" \in Senders /\ lastTold \in [Senders -> Answering]
  BY DEF Senders, DaemonIInv, MachinesFit
<1>9. /\ open => lastTold' = [lastTold EXCEPT !["DAEMON"] = Result(n[2])]
      /\ ~open => lastTold' = lastTold
  BY DEF WritesResponse, DataConn
<1>10. /\ lastTold' \in [Senders -> Answering]
       /\ open => lastTold'["DAEMON"] = Result(n[2])
  BY <1>7, <1>8, <1>9
<1>11. MachinesFit'
  BY <1>1, <1>3, <1>10 DEF DaemonIInv, MachinesFit
<1>12. ASSUME NEW a \in unanswered', Noted(a) PROVE Noted(a)'
  BY <1>3, <1>12 DEF Noted
<1>13. TruthFits'
  <2> SUFFICES ASSUME ~flushed, open PROVE TruthFits'
    BY <1>1 DEF TruthFits
  <2>1. \A a \in unanswered' : a \in unanswered
    BY <1>3
  <2>2. \A m \in toWrite : m[2] = "GRANTED" => supl = "Acquired"
    BY DEF DaemonIInv, TruthFits
  <2>3. lastTold'["DAEMON"] = "REQUEST_SUCCESS" => supl = "Acquired"
    BY <1>7, <1>10, <2>2
  <2>4. \A a \in unanswered' : (a \in suplBits \/ Noted(a)') /\ (supl = "Pending" \/ Noted(a)')
    BY <1>12, <2>1 DEF DaemonIInv, TruthFits
  <2> QED
    BY <1>1, <1>3, <2>2, <2>3, <2>4 DEF DaemonIInv, TruthFits
<1> QED
  BY <1>2, <1>5, <1>11, <1>13 DEF DaemonIInv

LEMMA DmnStep ==
  ASSUME DaemonIInv, [DmnNext]_dmnVars
  PROVE  DaemonIInv'
<1>1. CASE UNCHANGED dmnVars
  <2>1. UNCHANGED <<owner, server, thread_ready, thread_exit, signalled, pipe, open, spurious, posted,
                    supl, suplBits, internet, internetBits, toWrite, lastTold, unanswered, flushed>>
    BY <1>1 DEF dmnVars, helper, queues, past, engine, dmnMachines, responses
  <2>2. ThreadsFit' /\ EndComes' /\ NothingYet'
    BY <2>1 DEF DaemonIInv, ThreadsFit, EndComes, NothingYet
  <2>3. MachinesFit' /\ TruthFits'
    BY <2>1 DEF DaemonIInv, MachinesFit, TruthFits, Noted
  <2> QED
    BY <2>2, <2>3 DEF DaemonIInv
<1>2. CASE DmnNext
  BY <1>2, OwnerKeeps, ServerKeeps, EngineKeeps, ResponseKeeps DEF DmnNext
<1> QED
  BY <1>1, <1>2

\* The server for the daemons can end whenever its owner waits for that, and what the
\* GPS daemon was told last is true (loc_eng_dmn_conn*.c, .cpp).
THEOREM DaemonSound == DmnSpec => []DaemonInv
<1>1. DaemonIInv => DaemonInv
  <2> SUFFICES ASSUME DaemonIInv PROVE DaemonInv
    OBVIOUS
  <2>1. ServerCanEnd
    BY DEF DaemonIInv, ThreadsFit, EndComes, ServerCanEnd
  <2>2. ToldIsTrue
    <3> SUFFICES ASSUME ~flushed, open, toWrite = {}
                 PROVE  /\ lastTold["DAEMON"] = "REQUEST_SUCCESS" => supl = "Acquired"
                        /\ unanswered \subseteq suplBits
                        /\ unanswered # {} => supl = "Pending"
      BY DEF ToldIsTrue
    <3> QED
      BY DEF DaemonIInv, TruthFits, Noted
  <2> QED
    BY <2>1, <2>2 DEF DaemonInv
<1>2. DmnSpec => []DaemonIInv
  BY DmnStart, DmnStep, PTL DEF DmnSpec
<1> QED
  BY <1>1, <1>2, PTL

-----------------------------------------------------------------------------
(* The assistance data. *)

\* A server passed on is the last, and one refused changes nothing.
Passed(S, q, u, r) ==
  /\ r \in Seq(S) /\ \A k \in 1 .. Len(q) : r[k] = q[k]
  /\ u \in Refused => Len(r) = Len(q)
  /\ u \notin Refused => Len(r) = Len(q) + 1 /\ r[Len(q) + 1] = u

LEMMA PassesOn ==
  ASSUME NEW S, NEW q \in Seq(S), NEW u \in S
  PROVE  Passed(S, q, u, PassOn(q, u))
<1>1. CASE u \in Refused
  BY <1>1 DEF PassOn, Passed
<1>2. CASE u \notin Refused
  <2>1. PICK r : r = Append(q, u)
    OBVIOUS
  <2>2. /\ r \in Seq(S) /\ Len(r) = Len(q) + 1
        /\ \A k \in 1 .. Len(q) : r[k] = q[k]
        /\ r[Len(q) + 1] = u
    BY <2>1
  <2>3. PassOn(q, u) = r
    BY <1>2, <2>1 DEF PassOn
  <2> QED
    BY <1>2, <2>2, <2>3 DEF Passed
<1> QED
  BY <1>1, <1>2

\* How many of three there are.
One(b) == IF b THEN 1 ELSE 0

LEMMA CountOfThree ==
  ASSUME NEW K, K \subseteq {1, 2, 3}
  PROVE  Cardinality(K) = One(1 \in K) + One(2 \in K) + One(3 \in K)
<1>1. /\ Cardinality({}) = 0
      /\ \A a : IsFiniteSet({a}) /\ Cardinality({a}) = 1
  BY FS_EmptySet, FS_Singleton
<1>2. ASSUME NEW a, NEW b, a # b PROVE IsFiniteSet({a, b}) /\ Cardinality({a, b}) = 2
  <2>1. PICK A : A = {a}
    OBVIOUS
  <2>2. IsFiniteSet(A) /\ Cardinality(A) = 1 /\ b \notin A
    BY <1>1, <1>2, <2>1
  <2>3. IsFiniteSet(A \cup {b}) /\ Cardinality(A \cup {b}) = 1 + 1
    BY <2>2, FS_AddElement, Zenon
  <2>4. A \cup {b} = {a, b}
    BY <2>1
  <2> QED
    BY <2>3, <2>4
<1>3. /\ IsFiniteSet({1, 2}) /\ Cardinality({1, 2}) = 2
      /\ Cardinality({1, 3}) = 2 /\ Cardinality({2, 3}) = 2
  <2>1. 1 # 2 /\ 1 # 3 /\ 2 # 3
    OBVIOUS
  <2> QED
    BY <1>2, <2>1, Zenon
<1>4. Cardinality({1, 2, 3}) = 3
  <2>1. PICK A : A = {1, 2}
    OBVIOUS
  <2>2. IsFiniteSet(A) /\ Cardinality(A) = 2 /\ 3 \notin A
    BY <1>3, <2>1
  <2>3. Cardinality(A \cup {3}) = 2 + 1
    BY <2>2, FS_AddElement, Zenon
  <2>4. A \cup {3} = {1, 2, 3}
    BY <2>1
  <2> QED
    BY <2>3, <2>4
<1>5. Cardinality({1}) = 1 /\ Cardinality({2}) = 1 /\ Cardinality({3}) = 1
  BY <1>1, Zenon
<1>6. CASE 1 \in K /\ 2 \in K /\ 3 \in K
  <2>1. K = {1, 2, 3}
    BY <1>6
  <2> QED
    BY <1>4, <1>6, <2>1 DEF One
<1>7. CASE 1 \in K /\ 2 \in K /\ 3 \notin K
  <2>1. K = {1, 2}
    BY <1>7
  <2> QED
    BY <1>3, <1>7, <2>1 DEF One
<1>8. CASE 1 \in K /\ 2 \notin K /\ 3 \in K
  <2>1. K = {1, 3}
    BY <1>8
  <2> QED
    BY <1>3, <1>8, <2>1 DEF One
<1>9. CASE 1 \in K /\ 2 \notin K /\ 3 \notin K
  <2>1. K = {1}
    BY <1>9
  <2> QED
    BY <1>5, <1>9, <2>1 DEF One
<1>10. CASE 1 \notin K /\ 2 \in K /\ 3 \in K
  <2>1. K = {2, 3}
    BY <1>10
  <2> QED
    BY <1>3, <1>10, <2>1 DEF One
<1>11. CASE 1 \notin K /\ 2 \in K /\ 3 \notin K
  <2>1. K = {2}
    BY <1>11
  <2> QED
    BY <1>5, <1>11, <2>1 DEF One
<1>12. CASE 1 \notin K /\ 2 \notin K /\ 3 \in K
  <2>1. K = {3}
    BY <1>12
  <2> QED
    BY <1>5, <1>12, <2>1 DEF One
<1>13. CASE 1 \notin K /\ 2 \notin K /\ 3 \notin K
  <2>1. K = {}
    BY <1>13
  <2> QED
    BY <1>1, <1>13, <2>1 DEF One
<1> QED
  BY <1>6, <1>7, <1>8, <1>9, <1>10, <1>11, <1>12, <1>13, Zenon

\* Each server that is not refused has the slot after those before it.
InTheirSlots(slots, urls) ==
  LET kept == {i \in 1 .. Len(urls) : urls[i] \notin Refused}
  IN /\ \A i \in kept : slots[Cardinality({j \in kept : j <= i})] = urls[i]
     /\ \A k \in 1 .. 3 : k > Cardinality(kept) => slots[k] = ""

\* The servers and what they were made of, as ServersInOrder says it of the last ones.
InOrder(slots, urls) ==
  /\ \A i \in 1 .. Len(urls) : Configured[i] # "" => urls[i] = Configured[i]
  /\ InTheirSlots(slots, urls)

Named == Urls \cup {""}

LEMMA UsableInOrder ==
  ASSUME NEW urls \in [1 .. 3 -> Named]
  PROVE  Usable(urls) \in [1 .. 3 -> Named] /\ InTheirSlots(Usable(urls), urls)
<1>1. PICK q1 : q1 = PassOn(<<>>, urls[1])
  OBVIOUS
<1>2. PICK q2 : q2 = PassOn(q1, urls[2])
  OBVIOUS
<1>3. PICK q3 : q3 = PassOn(q2, urls[3])
  OBVIOUS
<1>4. /\ urls[1] \in Named /\ urls[2] \in Named /\ urls[3] \in Named
      /\ <<>> \in Seq(Named) /\ Len(<<>>) = 0
  OBVIOUS
<1>5. PICK n \in [1 .. 3 -> {0, 1}] : \A i \in 1 .. 3 : n[i] = One(urls[i] \notin Refused)
  <2>1. [i \in 1 .. 3 |-> One(urls[i] \notin Refused)] \in [1 .. 3 -> {0, 1}]
    BY DEF One
  <2> QED
    BY <2>1
<1>6. PICK a, b, c : a = n[1] /\ b = n[2] /\ c = n[3]
  OBVIOUS
<1>7. /\ a \in {0, 1} /\ b \in {0, 1} /\ c \in {0, 1}
      /\ IF urls[1] \in Refused THEN a = 0 ELSE a = 1
      /\ IF urls[2] \in Refused THEN b = 0 ELSE b = 1
      /\ IF urls[3] \in Refused THEN c = 0 ELSE c = 1
  BY <1>5, <1>6 DEF One
<1>8. /\ q1 \in Seq(Named) /\ Len(q1) = a
      /\ urls[1] \notin Refused => q1[1] = urls[1]
  <2>1. PICK e \in Seq(Named) : Len(e) = 0 /\ q1 = PassOn(e, urls[1])
    BY <1>1, <1>4
  <2>2. Passed(Named, e, urls[1], q1)
    BY <1>4, <2>1, PassesOn
  <2>3. /\ q1 \in Seq(Named)
        /\ urls[1] \in Refused => Len(q1) = 0
        /\ urls[1] \notin Refused => Len(q1) = 1 /\ q1[1] = urls[1]
    <3>1. Len(e) + 1 = 1
      BY <2>1
    <3> QED
      BY <2>1, <2>2, <3>1, Zenon DEF Passed
  <2> QED
    BY <1>7, <2>3
<1>9. /\ q2 \in Seq(Named) /\ Len(q2) = a + b
      /\ \A k \in 1 .. Len(q1) : q2[k] = q1[k]
      /\ urls[2] \notin Refused => q2[Len(q1) + 1] = urls[2]
  <2>1. Passed(Named, q1, urls[2], q2)
    BY <1>2, <1>4, <1>8, PassesOn
  <2> QED
    BY <1>7, <1>8, <2>1 DEF Passed
<1>10. /\ q3 \in Seq(Named) /\ Len(q3) = a + b + c
       /\ \A k \in 1 .. Len(q2) : q3[k] = q2[k]
       /\ urls[3] \notin Refused => q3[Len(q2) + 1] = urls[3]
  <2>1. Passed(Named, q2, urls[3], q3)
    BY <1>3, <1>4, <1>9, PassesOn
  <2> QED
    BY <1>7, <1>9, <2>1 DEF Passed
<1>11. PICK slots : slots = Usable(urls)
  OBVIOUS
<1>12. slots = [i \in 1 .. 3 |-> IF i <= Len(q3) THEN q3[i] ELSE ""]
  BY <1>1, <1>2, <1>3, <1>11 DEF Usable
<1>13. /\ a = 1 => q3[a] = slots[a] /\ q3[a] = q1[a]
       /\ b = 1 => q3[a + b] = slots[a + b] /\ q3[a + b] = q2[a + b]
       /\ c = 1 => q3[a + b + c] = slots[a + b + c]
  <2>1. /\ \A k \in 1 .. (a + b + c) : slots[k] = q3[k]
        /\ \A k \in 1 .. (a + b) : q3[k] = q2[k]
        /\ \A k \in 1 .. a : q2[k] = q1[k]
    <3>1. \A k \in 1 .. (a + b + c) : k \in 1 .. 3 /\ k <= a + b + c
      BY <1>7
    <3> QED
      BY <1>8, <1>9, <1>10, <1>12, <3>1
  <2>2. /\ a = 1 => a \in 1 .. a /\ a \in 1 .. (a + b) /\ a \in 1 .. (a + b + c)
        /\ b = 1 => (a + b) \in 1 .. (a + b) /\ (a + b) \in 1 .. (a + b + c)
        /\ c = 1 => (a + b + c) \in 1 .. (a + b + c)
    BY <1>7
  <2>3. ASSUME a = 1 PROVE q3[a] = slots[a] /\ q3[a] = q1[a]
    BY <2>1, <2>2, <2>3, Zenon
  <2>4. ASSUME b = 1 PROVE q3[a + b] = slots[a + b] /\ q3[a + b] = q2[a + b]
    BY <2>1, <2>2, <2>4, Zenon
  <2>5. ASSUME c = 1 PROVE q3[a + b + c] = slots[a + b + c]
    BY <2>1, <2>2, <2>5, Zenon
  <2> QED
    BY <2>3, <2>4, <2>5
<1>14. Len(urls) = 3
  <2>1. urls \in Seq(Named)
    BY SeqDef
  <2> QED
    BY <2>1, LenProperties
<1>15. PICK kept : kept = {i \in 1 .. Len(urls) : urls[i] \notin Refused}
  OBVIOUS
<1>16. kept \subseteq {1, 2, 3} /\ \A i \in {1, 2, 3} : i \in kept <=> urls[i] \notin Refused
  BY <1>14, <1>15
<1>17. One(1 \in kept) = a /\ One(2 \in kept) = b /\ One(3 \in kept) = c
  BY <1>7, <1>16 DEF One
<1>18. Cardinality(kept) = a + b + c
  BY <1>16, <1>17, CountOfThree
<1>19. \A k \in 1 .. 3 : k > Cardinality(kept) => slots[k] = ""
  <2>1. \A k \in 1 .. 3 : k > a + b + c => ~(k <= a + b + c)
    BY <1>7
  <2> QED
    BY <1>10, <1>12, <1>18, <2>1
<1>20. ASSUME NEW i \in kept PROVE slots[Cardinality({j \in kept : j <= i})] = urls[i]
  <2>1. PICK K : K = {j \in kept : j <= i}
    OBVIOUS
  <2>2. K \subseteq {1, 2, 3} /\ \A j \in {1, 2, 3} : j \in K <=> j \in kept /\ j <= i
    BY <1>16, <2>1
  <2>3. Cardinality(K) = One(1 \in K) + One(2 \in K) + One(3 \in K)
    BY <2>2, CountOfThree
  <2>4. urls[i] \notin Refused
    BY <1>16
  <2>5. CASE i = 1
    <3>1. Cardinality(K) = a /\ a = 1
      BY <1>7, <1>16, <2>2, <2>3, <2>4, <2>5 DEF One
    <3>2. slots[a] = urls[1]
      BY <1>8, <1>13, <2>4, <2>5, <3>1
    <3> QED
      BY <2>1, <2>5, <3>1, <3>2
  <2>6. CASE i = 2
    <3>1. One(1 \in K) = a /\ One(2 \in K) = b /\ One(3 \in K) = 0 /\ b = 1
      BY <1>7, <1>16, <2>2, <2>4, <2>6 DEF One
    <3>2. Cardinality(K) = a + b
      BY <1>7, <2>3, <3>1
    <3>3. slots[a + b] = urls[2]
      BY <1>8, <1>9, <1>13, <2>4, <2>6, <3>1
    <3> QED
      BY <2>1, <2>6, <3>2, <3>3
  <2>7. CASE i = 3
    <3>1. One(1 \in K) = a /\ One(2 \in K) = b /\ One(3 \in K) = c /\ c = 1
      BY <1>7, <1>16, <2>2, <2>4, <2>7 DEF One
    <3>2. Cardinality(K) = a + b + c
      BY <1>7, <2>3, <3>1
    <3>3. slots[a + b + c] = urls[3]
      BY <1>9, <1>10, <1>13, <2>4, <2>7, <3>1
    <3> QED
      BY <2>1, <2>7, <3>2, <3>3
  <2> QED
    BY <1>16, <2>5, <2>6, <2>7
<1>21. slots \in [1 .. 3 -> Named]
  <2>1. \A i \in 1 .. 3 : i <= Len(q3) => q3[i] \in Named
    BY <1>7, <1>10
  <2>2. "" \in Named
    BY DEF Named
  <2> QED
    BY <1>12, <2>1, <2>2
<1>22. InTheirSlots(slots, urls)
  BY <1>15, <1>19, <1>20 DEF InTheirSlots
<1> QED
  BY <1>11, <1>21, <1>22

Plain  == Injections \cup Requests \cup {"OPEN", "ENABLE", "DISABLE", "MEASUREMENT"}
Posts  == [kind : Plain] \cup [kind : {"SERVERS"}, slots : [1 .. 3 -> Named], urls : [1 .. 3 -> Named]]
Has(k) == \E i \in DOMAIN toEngine : toEngine[i].kind = k

\* The last closing is followed by an opening.
Followed == \A i \in DOMAIN toEngine : toEngine[i].kind = "DISABLE" =>
              \E j \in DOMAIN toEngine : i < j /\ toEngine[j].kind = "ENABLE"

\* The servers that wait are in order.
Ordered == \A i \in DOMAIN toEngine : toEngine[i].kind = "SERVERS" => InOrder(toEngine[i].slots, toEngine[i].urls)

\* The framework's thread wants measurements, and has told the modem so.
Wanted == caller = "opening" \/ (caller = "idle" /\ measuring)

\* The modem has a handle, or a message will open one; and who waits for measurements
\* gets them, or a message will see to it.
FlowComes ==
  /\ phase = "none" => ~measuring /\ caller = "idle"
  /\ modem.linked => modem.up
  /\ phase # "none" /\ modem.up => modem.linked \/ Has("OPEN")
  /\ Wanted => Followed
  /\ Wanted /\ modem.linked => modem.measures \/ Has("ENABLE") \/ Has("OPEN")

OrderComes == Ordered /\ InOrder(servers.slots, servers.urls)

\* The types of what the framework, the modem and the LocEng thread keep, apart from
\* the messages.
AssistTypes ==
  /\ extended \in [cpi : BOOLEAN, xtra : BOOLEAN, agps : BOOLEAN]
  /\ phase \in {"none", "created", "ready"} /\ supports \subseteq {"POSITION", "TIME", "REQUESTS"}
  /\ xtra \in BOOLEAN /\ measuring \in BOOLEAN /\ caller \in {"idle", "opening", "closing"}
  /\ report \in {"none", "checked", "given", "null"}
  /\ modem \in [up : BOOLEAN, measures : BOOLEAN, linked : BOOLEAN] /\ given \in Injections \cup {""}

QueueFits == toEngine \in Seq(Posts) /\ Len(toEngine) <= MaxPosted /\ crashes \in 0 .. MaxCrashes

AssistIInv == AssistTypes /\ QueueFits /\ FlowComes /\ OrderComes

\* A message that is posted.
LEMMA Posting ==
  ASSUME toEngine \in Seq(Posts), NEW m \in Posts, Send(m)
  PROVE  /\ toEngine' \in Seq(Posts) /\ Len(toEngine') <= MaxPosted
         /\ \A k : Has(k) => Has(k)'
         /\ Has(m.kind)'
         /\ m.kind # "DISABLE" /\ Followed => Followed'
         /\ m.kind = "ENABLE" => Followed'
         /\ (m.kind = "SERVERS" => InOrder(m.slots, m.urls)) /\ Ordered => Ordered'
<1>1. PICK r : r = toEngine' /\ r = Append(toEngine, m) /\ Len(toEngine) < MaxPosted
  BY DEF Send
<1>2. PICK n : n = Len(toEngine) + 1
  OBVIOUS
<1>3. /\ r \in Seq(Posts) /\ Len(r) = n
      /\ \A i \in DOMAIN toEngine : i \in DOMAIN r /\ r[i] = toEngine[i]
      /\ n \in DOMAIN r /\ r[n] = m
      /\ \A i \in DOMAIN r : i \in DOMAIN toEngine \/ i = n
      /\ \A i \in DOMAIN toEngine : i < n
  BY <1>1, <1>2, Sent
<1>4. Len(r) <= MaxPosted
  <2>1. Len(toEngine) \in Nat /\ MaxPosted \in Nat
    BY AssistAssumption, LenProperties
  <2> QED
    BY <1>1, <1>2, <1>3, <2>1
<1>5. \A k : Has(k) => Has(k)'
  BY <1>1, <1>3 DEF Has
<1>6. Has(m.kind)'
  BY <1>1, <1>3 DEF Has
<1>7. ASSUME m.kind # "DISABLE", Followed PROVE Followed'
  BY <1>1, <1>3, <1>7 DEF Followed
<1>8. ASSUME m.kind = "ENABLE" PROVE Followed'
  BY <1>1, <1>3, <1>8 DEF Followed
<1>9. ASSUME m.kind = "SERVERS" => InOrder(m.slots, m.urls), Ordered PROVE Ordered'
  <2> SUFFICES ASSUME NEW i \in DOMAIN r, r[i].kind = "SERVERS" PROVE InOrder(r[i].slots, r[i].urls)
    BY <1>1 DEF Ordered
  <2>1. CASE i \in DOMAIN toEngine
    BY <1>3, <1>9, <2>1 DEF Ordered
  <2>2. CASE i = n
    BY <1>3, <1>9, <2>2
  <2> QED
    BY <1>3, <2>1, <2>2
<1> QED
  BY <1>1, <1>3, <1>4, <1>5, <1>6, <1>7, <1>8, <1>9

\* The message that is taken.
LEMMA Taking ==
  ASSUME toEngine \in Seq(Posts), Len(toEngine) <= MaxPosted, NEW k, Takes(k)
  PROVE  /\ toEngine' \in Seq(Posts) /\ Len(toEngine') <= MaxPosted
         /\ \A x : x # k /\ Has(x) => Has(x)'
         /\ Followed => Followed'
         /\ k = "DISABLE" /\ Followed => Has("ENABLE")'
         /\ Ordered => Ordered'
         /\ k = "SERVERS" /\ Ordered => InOrder(Head(toEngine).slots, Head(toEngine).urls)
<1>1. PICK r : r = toEngine' /\ r = Tail(toEngine) /\ toEngine # <<>> /\ Head(toEngine).kind = k
  BY DEF Takes
<1>2. /\ r \in Seq(Posts) /\ Len(r) = Len(toEngine) - 1 /\ Head(toEngine) = toEngine[1] /\ 1 \in DOMAIN toEngine
      /\ \A i \in DOMAIN r : i \in Nat /\ i + 1 \in DOMAIN toEngine /\ r[i] = toEngine[i + 1]
      /\ \A i \in DOMAIN toEngine : i \in Nat /\ (i = 1 \/ (i - 1 \in DOMAIN r /\ r[i - 1] = toEngine[i]))
  BY <1>1, Taken
<1>3. Len(r) <= MaxPosted
  <2>1. Len(toEngine) \in Nat /\ MaxPosted \in Nat
    BY AssistAssumption, LenProperties
  <2> QED
    BY <1>2, <2>1
<1>4. ASSUME NEW x, x # k, Has(x) PROVE Has(x)'
  <2>1. PICK i \in DOMAIN toEngine : toEngine[i].kind = x
    BY <1>4 DEF Has
  <2>2. i # 1
    BY <1>1, <1>2, <1>4, <2>1
  <2>3. i - 1 \in DOMAIN r /\ r[i - 1].kind = x
    BY <1>2, <2>1, <2>2
  <2> QED
    BY <1>1, <2>3 DEF Has
<1>5. ASSUME Followed, NEW i \in DOMAIN toEngine, toEngine[i].kind = "DISABLE"
      PROVE  \E j \in DOMAIN r : i < j + 1 /\ r[j].kind = "ENABLE"
  <2>1. PICK j \in DOMAIN toEngine : i < j /\ toEngine[j].kind = "ENABLE"
    BY <1>5 DEF Followed
  <2>2. i \in Nat /\ j \in Nat /\ i # 0
    BY <1>2
  <2>3. j # 1
    BY <2>1, <2>2
  <2>4. j - 1 \in DOMAIN r /\ r[j - 1] = toEngine[j]
    BY <1>2, <2>3
  <2>5. i < (j - 1) + 1
    BY <2>1, <2>2
  <2> QED
    BY <2>1, <2>4, <2>5
<1>6. ASSUME Followed PROVE Followed'
  <2> SUFFICES ASSUME NEW i \in DOMAIN r, r[i].kind = "DISABLE" PROVE \E j \in DOMAIN r : i < j /\ r[j].kind = "ENABLE"
    BY <1>1 DEF Followed
  <2>1. i \in Nat /\ i + 1 \in DOMAIN toEngine /\ toEngine[i + 1].kind = "DISABLE"
    BY <1>2
  <2>2. PICK j \in DOMAIN r : i + 1 < j + 1 /\ r[j].kind = "ENABLE"
    BY <1>5, <1>6, <2>1
  <2>3. j \in Nat
    BY <1>2
  <2> QED
    BY <2>1, <2>2, <2>3
<1>7. ASSUME k = "DISABLE", Followed PROVE Has("ENABLE")'
  <2>1. \E j \in DOMAIN r : r[j].kind = "ENABLE"
    BY <1>1, <1>2, <1>5, <1>7
  <2> QED
    BY <1>1, <2>1 DEF Has
<1>8. ASSUME Ordered PROVE Ordered'
  <2> SUFFICES ASSUME NEW i \in DOMAIN r, r[i].kind = "SERVERS" PROVE InOrder(r[i].slots, r[i].urls)
    BY <1>1 DEF Ordered
  <2> QED
    BY <1>2, <1>8 DEF Ordered
<1>9. ASSUME k = "SERVERS", Ordered PROVE InOrder(Head(toEngine).slots, Head(toEngine).urls)
  BY <1>1, <1>2, <1>9 DEF Ordered
<1> QED
  BY <1>1, <1>2, <1>3, <1>4, <1>6, <1>7, <1>8, <1>9

LEMMA AssistStart == AssistInit => AssistIInv
<1> SUFFICES ASSUME AssistInit PROVE AssistIInv
  OBVIOUS
<1>1. toEngine = <<>> /\ toEngine \in Seq(Posts) /\ Len(toEngine) = 0
  <2>1. toEngine = <<>>
    BY DEF AssistInit
  <2> QED
    BY <2>1
<1>2. AssistTypes
  BY DEF AssistInit, AssistTypes
<1>3. QueueFits
  <2>1. crashes = 0
    BY DEF AssistInit
  <2>2. 0 <= MaxPosted /\ 0 \in 0 .. MaxCrashes
    <3>1. MaxPosted \in Nat /\ MaxCrashes \in Nat
      BY AssistAssumption
    <3> QED
      BY <3>1
  <2> QED
    BY <1>1, <2>1, <2>2 DEF QueueFits
<1>4. FlowComes
  BY <1>1 DEF AssistInit, FlowComes, Wanted
<1>5. Ordered
  BY <1>1 DEF Ordered
<1>6. InOrder(servers.slots, servers.urls)
  <2>1. PICK slots : slots = servers.slots
    OBVIOUS
  <2>2. slots[1] = "" /\ slots[2] = "" /\ slots[3] = "" /\ servers.urls = <<>>
    BY <2>1 DEF AssistInit, NoServers
  <2>3. \A k \in 1 .. 3 : slots[k] = ""
    <3>1. \A k \in 1 .. 3 : k = 1 \/ k = 2 \/ k = 3
      OBVIOUS
    <3> QED
      BY <2>2, <3>1
  <2>4. \A i \in 1 .. Len(servers.urls) : FALSE
    <3>1. Len(servers.urls) = 0
      <4>1. servers.urls = <<>> /\ Len(<<>>) = 0
        BY <2>2
      <4> QED
        BY <4>1
    <3> QED
      BY <3>1
  <2>5. InTheirSlots(slots, servers.urls)
    BY <2>3, <2>4 DEF InTheirSlots
  <2> QED
    BY <2>1, <2>4, <2>5 DEF InOrder
<1> QED
  BY <1>2, <1>3, <1>4, <1>5, <1>6 DEF AssistIInv, OrderComes

LEMMA TypesStay ==
  ASSUME AssistTypes, UNCHANGED <<extended, phase, supports, xtra, measuring, caller, report, modem, given>>
  PROVE  AssistTypes'
<1>1. (extended \in [cpi : BOOLEAN, xtra : BOOLEAN, agps : BOOLEAN])' /\ (modem \in [up : BOOLEAN, measures : BOOLEAN, linked : BOOLEAN])'
  BY DEF AssistTypes
<1>2. (phase \in {"none", "created", "ready"})' /\ (supports \subseteq {"POSITION", "TIME", "REQUESTS"})'
  BY DEF AssistTypes
<1>3. (xtra \in BOOLEAN)' /\ (measuring \in BOOLEAN)' /\ (caller \in {"idle", "opening", "closing"})'
  BY DEF AssistTypes
<1>4. (report \in {"none", "checked", "given", "null"})' /\ (given \in Injections \cup {""})'
  BY DEF AssistTypes
<1> QED
  BY <1>1, <1>2, <1>3, <1>4, Zenon DEF AssistTypes

\* What is posted and is no closing disturbs nothing.
LEMMA PostsKeep ==
  ASSUME AssistIInv, UNCHANGED <<extended, phase, supports, xtra, measuring, caller, report, modem, crashes, given, servers>>,
         \/ toEngine' = toEngine
         \/ \E m \in Posts : m.kind # "DISABLE" /\ (m.kind = "SERVERS" => InOrder(m.slots, m.urls)) /\ Send(m)
  PROVE  AssistIInv'
<1>1. AssistTypes'
  <2>1. UNCHANGED <<extended, phase, supports, xtra, measuring, caller, report, modem, given>>
    OBVIOUS
  <2>2. AssistTypes
    BY DEF AssistIInv
  <2> QED
    BY <2>1, <2>2, TypesStay
<1>2. CASE toEngine' = toEngine
  <2>1. QueueFits' /\ OrderComes'
    BY <1>2 DEF AssistIInv, QueueFits, OrderComes, Ordered
  <2>2. FlowComes'
    BY <1>2 DEF AssistIInv, FlowComes, Wanted, Followed, Has
  <2> QED
    BY <1>1, <2>1, <2>2 DEF AssistIInv
<1>3. ASSUME NEW m \in Posts, m.kind # "DISABLE", m.kind = "SERVERS" => InOrder(m.slots, m.urls), Send(m)
      PROVE  AssistIInv'
  <2>1. toEngine \in Seq(Posts)
    BY DEF AssistIInv, QueueFits
  <2>2. /\ toEngine' \in Seq(Posts) /\ Len(toEngine') <= MaxPosted
        /\ \A k : Has(k) => Has(k)'
        /\ Followed => Followed'
        /\ Ordered => Ordered'
    BY <1>3, <2>1, Posting
  <2>3. QueueFits'
    BY <2>2 DEF AssistIInv, QueueFits
  <2>4. OrderComes'
    BY <2>2 DEF AssistIInv, OrderComes
  <2>5. (Has("OPEN") => Has("OPEN")') /\ (Has("ENABLE") => Has("ENABLE")') /\ Wanted' = Wanted
    BY <2>2 DEF Wanted
  <2>6. FlowComes'
    BY <2>2, <2>5 DEF AssistIInv, FlowComes
  <2> QED
    BY <1>1, <2>3, <2>4, <2>6 DEF AssistIInv
<1> QED
  BY <1>2, <1>3

LEMMA FrameworkKeeps ==
  ASSUME AssistIInv, InitCreates \/ InitSupports \/ XtraInit \/ MeasurementInit \/ MeasurementClose \/ CallbackIsSet
  PROVE  AssistIInv'
<1>1. toEngine \in Seq(Posts) /\ OrderComes /\ AssistTypes /\ FlowComes
  BY DEF AssistIInv, QueueFits
<1>2. UNCHANGED <<extended, report, modem, crashes, given, servers>>
  BY DEF InitCreates, InitSupports, XtraInit, MeasurementInit, MeasurementClose, CallbackIsSet, interface, link, seen
<1>3. CASE InitCreates
  <2>1. /\ phase = "none" /\ phase' = "created" /\ Send([kind |-> "OPEN"])
        /\ UNCHANGED <<supports, xtra, measuring, caller>>
    BY <1>3 DEF InitCreates, clients
  <2> DEFINE m == [kind |-> "OPEN"]
  <2>2. m \in Posts /\ m.kind = "OPEN"
    BY DEF Posts, Plain
  <2> HIDE DEF m
  <2>3. /\ toEngine' \in Seq(Posts) /\ Len(toEngine') <= MaxPosted /\ Has("OPEN")' /\ (Ordered => Ordered')
    <3>1. Send(m)
      BY <2>1 DEF m
    <3> QED
      BY <1>1, <2>2, <3>1, Posting
  <2>4. QueueFits' /\ OrderComes'
    BY <1>1, <1>2, <2>3 DEF AssistIInv, QueueFits, OrderComes
  <2>5. AssistTypes'
    BY <1>1, <1>2, <2>1 DEF AssistTypes
  <2>6. FlowComes'
    BY <1>1, <1>2, <2>1, <2>3 DEF FlowComes, Wanted
  <2> QED
    BY <2>4, <2>5, <2>6 DEF AssistIInv
<1>4. CASE InitSupports \/ XtraInit
  <2>1. /\ phase # "none" /\ phase' # "none" /\ UNCHANGED <<measuring, caller, toEngine>>
    <3>1. CASE InitSupports
      BY <3>1 DEF InitSupports, clients
    <3>2. CASE XtraInit
      BY <3>2 DEF XtraInit, interface
    <3> QED
      BY <1>4, <3>1, <3>2
  <2>2. QueueFits' /\ OrderComes'
    BY <1>2, <2>1 DEF AssistIInv, QueueFits, OrderComes, Ordered
  <2>3. AssistTypes'
    <3>1. CASE InitSupports
      <4>1. supports' \subseteq {"POSITION", "TIME", "REQUESTS"} /\ phase' = "ready" /\ UNCHANGED xtra
        BY <3>1 DEF InitSupports, clients
      <4> QED
        BY <1>1, <1>2, <2>1, <4>1 DEF AssistTypes
    <3>2. CASE XtraInit
      <4>1. xtra' = TRUE /\ UNCHANGED <<phase, supports>>
        BY <3>2 DEF XtraInit, interface
      <4> QED
        BY <1>1, <1>2, <2>1, <4>1 DEF AssistTypes
    <3> QED
      BY <1>4, <3>1, <3>2
  <2>4. Has("OPEN")' = Has("OPEN") /\ Has("ENABLE")' = Has("ENABLE") /\ Followed' = Followed /\ Wanted' = Wanted
    BY <2>1 DEF Has, Followed, Wanted
  <2>5. FlowComes'
    BY <1>1, <1>2, <2>1, <2>4 DEF FlowComes
  <2> QED
    BY <2>2, <2>3, <2>5 DEF AssistIInv
<1>5. CASE MeasurementInit
  <2>1. /\ phase = "ready" /\ Send([kind |-> "ENABLE"]) /\ caller' = "opening"
        /\ UNCHANGED <<phase, supports, xtra, measuring>>
    BY <1>5 DEF MeasurementInit, interface
  <2> DEFINE m == [kind |-> "ENABLE"]
  <2>2. m \in Posts /\ m.kind = "ENABLE"
    BY DEF Posts, Plain
  <2> HIDE DEF m
  <2>3. /\ toEngine' \in Seq(Posts) /\ Len(toEngine') <= MaxPosted /\ Has("ENABLE")' /\ (Has("OPEN") => Has("OPEN")')
        /\ (Ordered => Ordered') /\ Followed'
    <3>1. Send(m)
      BY <2>1 DEF m
    <3> QED
      BY <1>1, <2>2, <3>1, Posting
  <2>4. QueueFits' /\ OrderComes'
    BY <1>1, <1>2, <2>3 DEF AssistIInv, QueueFits, OrderComes
  <2>5. AssistTypes'
    BY <1>1, <1>2, <2>1 DEF AssistTypes
  <2>6. FlowComes'
    BY <1>1, <1>2, <2>1, <2>3 DEF FlowComes
  <2> QED
    BY <2>4, <2>5, <2>6 DEF AssistIInv
<1>6. CASE MeasurementClose
  <2>1. /\ phase = "ready" /\ Send([kind |-> "DISABLE"]) /\ caller' = "closing"
        /\ UNCHANGED <<phase, supports, xtra, measuring>>
    BY <1>6 DEF MeasurementClose, interface
  <2> DEFINE m == [kind |-> "DISABLE"]
  <2>2. m \in Posts /\ m.kind = "DISABLE"
    BY DEF Posts, Plain
  <2> HIDE DEF m
  <2>3. /\ toEngine' \in Seq(Posts) /\ Len(toEngine') <= MaxPosted /\ (Has("OPEN") => Has("OPEN")')
        /\ (Ordered => Ordered')
    <3>1. Send(m)
      BY <2>1 DEF m
    <3> QED
      BY <1>1, <2>2, <3>1, Posting
  <2>4. QueueFits' /\ OrderComes'
    BY <1>1, <1>2, <2>3 DEF AssistIInv, QueueFits, OrderComes
  <2>5. AssistTypes'
    BY <1>1, <1>2, <2>1 DEF AssistTypes
  <2>6. ~Wanted'
    BY <2>1 DEF Wanted
  <2>7. FlowComes'
    BY <1>1, <1>2, <2>1, <2>3, <2>6 DEF FlowComes
  <2> QED
    BY <2>4, <2>5, <2>7 DEF AssistIInv
<1>7. CASE CallbackIsSet
  <2>1. /\ caller # "idle" /\ caller' = "idle" /\ UNCHANGED <<phase, supports, xtra, toEngine>>
    BY <1>7 DEF CallbackIsSet, interface
  <2>2. measuring' = (caller = "opening")
    BY <1>7 DEF CallbackIsSet
  <2>3. QueueFits' /\ OrderComes'
    BY <1>2, <2>1 DEF AssistIInv, QueueFits, OrderComes, Ordered
  <2>4. AssistTypes'
    <3>1. measuring' \in BOOLEAN
      BY <2>2
    <3> QED
      BY <1>1, <1>2, <2>1, <3>1 DEF AssistTypes
  <2>5. Has("OPEN")' = Has("OPEN") /\ Has("ENABLE")' = Has("ENABLE") /\ Followed' = Followed
    BY <2>1 DEF Has, Followed
  <2>6. Wanted' => Wanted
    BY <2>1, <2>2 DEF Wanted
  <2>7. phase' # "none"
    BY <1>1, <2>1 DEF FlowComes
  <2>8. FlowComes'
    BY <1>1, <1>2, <2>1, <2>5, <2>6, <2>7 DEF FlowComes
  <2> QED
    BY <2>3, <2>4, <2>8 DEF AssistIInv
<1> QED
  BY <1>3, <1>4, <1>5, <1>6, <1>7

LEMMA AsksKeep ==
  ASSUME AssistIInv,
         \/ \E kind \in {"POSITION", "TIME", "XTRA", "VERSION_CHECK", "REQUEST_SERVER"} : Inject(kind)
         \/ \E lengths \in {<<"short">>, <<"short", "short">>, <<"long">>, <<>>} : InstallCertificates(lengths)
         \/ \E kind \in {"REQUEST_XTRA", "REQUEST_TIME", "MEASUREMENT"} : ModemSays(kind)
         \/ \E urls \in Answers : ModemKnowsServers(urls)
  PROVE  AssistIInv'
<1>1. UNCHANGED <<extended, phase, supports, xtra, measuring, caller, report, modem, crashes, given, servers>>
  BY DEF Inject, InstallCertificates, ModemSays, ModemKnowsServers, interface, clients, link, seen
<1>2. \A k \in Plain \ {"DISABLE"} : LET m == [kind |-> k] IN m \in Posts /\ m.kind # "DISABLE" /\ m.kind # "SERVERS"
  BY DEF Posts, Plain, Injections, Requests
<1>3. ASSUME NEW k \in Plain \ {"DISABLE"}, Send([kind |-> k]) PROVE AssistIInv'
  BY <1>1, <1>2, <1>3, PostsKeep
<1>4. CASE toEngine' = toEngine
  BY <1>1, <1>4, PostsKeep
<1>5. ASSUME NEW kind \in {"POSITION", "TIME", "XTRA", "VERSION_CHECK", "REQUEST_SERVER"}, Inject(kind) PROVE AssistIInv'
  <2>1. kind \in Plain \ {"DISABLE"}
    BY DEF Plain, Injections, Requests
  <2>2. toEngine' = toEngine \/ Send([kind |-> kind])
    BY <1>5 DEF Inject
  <2> QED
    BY <1>3, <1>4, <2>1, <2>2
<1>6. ASSUME NEW lengths, InstallCertificates(lengths) PROVE AssistIInv'
  <2>1. "CERTIFICATES" \in Plain \ {"DISABLE"}
    BY DEF Plain, Injections
  <2>2. Send([kind |-> "CERTIFICATES"])
    BY <1>6 DEF InstallCertificates
  <2> QED
    BY <1>3, <2>1, <2>2
<1>7. ASSUME NEW kind \in {"REQUEST_XTRA", "REQUEST_TIME", "MEASUREMENT"}, ModemSays(kind) PROVE AssistIInv'
  <2>1. kind \in Plain \ {"DISABLE"}
    BY DEF Plain, Requests
  <2>2. Send([kind |-> kind])
    BY <1>7 DEF ModemSays
  <2> QED
    BY <1>3, <2>1, <2>2
<1>8. ASSUME NEW urls \in Answers, ModemKnowsServers(urls) PROVE AssistIInv'
  <2> DEFINE chosen == [i \in 1 .. 3 |-> IF Configured[i] # "" THEN Configured[i] ELSE urls[i]]
  <2> DEFINE m == [kind |-> "SERVERS", slots |-> Usable(chosen), urls |-> chosen]
  <2>1. /\ chosen \in [1 .. 3 -> Named] /\ Len(chosen) = 3
        /\ \A i \in 1 .. 3 : Configured[i] # "" => chosen[i] = Configured[i]
    <3>1. chosen \in [1 .. 3 -> Named]
      BY AssistAssumption DEF Named
    <3>2. \A i \in 1 .. 3 : Configured[i] # "" => chosen[i] = Configured[i]
      OBVIOUS
    <3> HIDE DEF chosen
    <3>3. Len(chosen) = 3
      <4>1. chosen \in Seq(Named)
        BY <3>1, SeqDef
      <4> QED
        BY <3>1, <4>1, LenProperties
    <3> QED
      BY <3>1, <3>2, <3>3
  <2>2. Send(m)
    BY <1>8 DEF ModemKnowsServers
  <2> HIDE DEF chosen
  <2>3. Usable(chosen) \in [1 .. 3 -> Named]
    BY <2>1, UsableInOrder
  <2>4. InOrder(Usable(chosen), chosen)
    BY <2>1, UsableInOrder DEF InOrder
  <2>5. m \in Posts /\ m.kind = "SERVERS" /\ m.slots = Usable(chosen) /\ m.urls = chosen
    BY <2>1, <2>3 DEF Posts
  <2> HIDE DEF m
  <2> QED
    BY <1>1, <2>2, <2>4, <2>5, PostsKeep
<1> QED
  BY <1>5, <1>6, <1>7, <1>8

LEMMA ModemKeeps ==
  ASSUME AssistIInv, ModemCrashes \/ ModemReturns
  PROVE  AssistIInv'
<1>1. UNCHANGED <<extended, phase, supports, xtra, measuring, caller, report, servers>>
  BY DEF ModemCrashes, ModemReturns, interface, clients, seen
<1>2. toEngine \in Seq(Posts) /\ OrderComes /\ AssistTypes /\ FlowComes /\ QueueFits
  BY DEF AssistIInv, QueueFits
<1>3. CASE ModemCrashes
  <2>1. /\ crashes < MaxCrashes /\ crashes' = crashes + 1 /\ given' = "" /\ UNCHANGED toEngine
    BY <1>3 DEF ModemCrashes
  <2>2. modem' = [up |-> FALSE, measures |-> FALSE, linked |-> FALSE]
    BY <1>3 DEF ModemCrashes
  <2>3. QueueFits'
    <3>1. MaxCrashes \in Nat /\ crashes \in 0 .. MaxCrashes
      BY <1>2, AssistAssumption DEF QueueFits
    <3>2. crashes' \in 0 .. MaxCrashes
      <4>1. crashes < MaxCrashes /\ crashes' = crashes + 1
        BY <2>1
      <4>2. crashes \in Nat
        BY <3>1
      <4> QED
        BY <3>1, <4>1, <4>2
    <3> QED
      BY <1>2, <2>1, <3>2 DEF QueueFits
  <2>4. OrderComes' /\ Followed' = Followed /\ Wanted' = Wanted
    BY <1>1, <1>2, <2>1 DEF OrderComes, Ordered, Followed, Wanted
  <2>5. AssistTypes'
    BY <1>1, <1>2, <2>1, <2>2 DEF AssistTypes
  <2>6. ~modem'.up /\ ~modem'.linked
    BY <2>2
  <2>7. FlowComes'
    BY <1>1, <1>2, <2>4, <2>6 DEF FlowComes
  <2> QED
    BY <2>3, <2>4, <2>5, <2>7 DEF AssistIInv
<1>4. CASE ModemReturns
  <2>1. ~modem.up /\ modem' = [modem EXCEPT !.up = TRUE] /\ UNCHANGED <<crashes, given>>
    BY <1>4 DEF ModemReturns, seen
  <2>2. modem' \in [up : BOOLEAN, measures : BOOLEAN, linked : BOOLEAN] /\ modem'.linked = modem.linked
    BY <1>2, <2>1 DEF AssistTypes
  <2>3. ~modem.linked
    BY <1>2, <2>1 DEF FlowComes
  <2>4. AssistTypes'
    BY <1>1, <1>2, <2>1, <2>2 DEF AssistTypes
  <2>5. CASE phase # "none" /\ Send([kind |-> "OPEN"])
    <3> DEFINE m == [kind |-> "OPEN"]
    <3>1. m \in Posts /\ m.kind = "OPEN"
      BY DEF Posts, Plain
    <3>2. Send(m)
      BY <2>5
    <3> HIDE DEF m
    <3>3. /\ toEngine' \in Seq(Posts) /\ Len(toEngine') <= MaxPosted /\ Has("OPEN")'
          /\ (Ordered => Ordered') /\ (Followed => Followed')
      BY <1>2, <3>1, <3>2, Posting
    <3>4. QueueFits' /\ OrderComes'
      BY <1>1, <1>2, <2>1, <3>3 DEF QueueFits, OrderComes
    <3>5. Wanted' = Wanted
      BY <1>1 DEF Wanted
    <3>6. FlowComes'
      BY <1>1, <1>2, <2>2, <2>3, <3>3, <3>5 DEF FlowComes
    <3> QED
      BY <2>4, <3>4, <3>6 DEF AssistIInv
  <2>6. CASE phase = "none" /\ toEngine' = toEngine
    <3>1. QueueFits' /\ OrderComes'
      BY <1>1, <1>2, <2>1, <2>6 DEF QueueFits, OrderComes, Ordered
    <3>2. Followed' = Followed /\ Wanted' = Wanted
      BY <1>1, <2>6 DEF Followed, Wanted
    <3>3. FlowComes'
      BY <1>1, <1>2, <2>2, <2>3, <2>6, <3>2 DEF FlowComes
    <3> QED
      BY <2>4, <3>1, <3>3 DEF AssistIInv
  <2> QED
    BY <1>4, <2>5, <2>6 DEF ModemReturns
<1> QED
  BY <1>3, <1>4

\* A message that is taken and is no opening, and leaves the modem and the servers alone.
LEMMA TakesKeep ==
  ASSUME AssistIInv, NEW k, k \notin {"OPEN", "ENABLE", "DISABLE"}, Takes(k),
         UNCHANGED <<phase, measuring, caller, modem, crashes>>, AssistTypes',
         servers' = servers \/ InOrder(servers'.slots, servers'.urls)
  PROVE  AssistIInv'
<1>1. toEngine \in Seq(Posts) /\ Len(toEngine) <= MaxPosted /\ OrderComes /\ FlowComes
  BY DEF AssistIInv, QueueFits
<1>2. /\ toEngine' \in Seq(Posts) /\ Len(toEngine') <= MaxPosted
      /\ \A x : x # k /\ Has(x) => Has(x)'
      /\ Followed => Followed'
      /\ Ordered => Ordered'
  BY <1>1, Taking
<1>3. (Has("OPEN") => Has("OPEN")') /\ (Has("ENABLE") => Has("ENABLE")')
  BY <1>2
<1>4. QueueFits'
  BY <1>2 DEF AssistIInv, QueueFits
<1>5. OrderComes'
  BY <1>1, <1>2 DEF OrderComes
<1>6. Wanted' = Wanted
  BY DEF Wanted
<1>7. FlowComes'
  BY <1>1, <1>2, <1>3, <1>6 DEF FlowComes
<1> QED
  BY <1>4, <1>5, <1>7 DEF AssistIInv

LEMMA EngineGives ==
  ASSUME AssistIInv,
         \/ \E kind \in Injections : Give(kind)
         \/ \E kind \in Requests : Ask(kind)
         \/ ReportServers \/ MeasurementArrives \/ MeasurementIsGiven
  PROVE  AssistIInv'
<1>1. UNCHANGED <<extended, phase, supports, xtra, measuring, caller, modem, crashes>>
  BY DEF Give, Ask, ReportServers, MeasurementArrives, MeasurementIsGiven, interface, clients, link, seen
<1>2. AssistTypes /\ OrderComes /\ toEngine \in Seq(Posts) /\ Len(toEngine) <= MaxPosted
  BY DEF AssistIInv, QueueFits
<1>3. (report \in {"none", "checked", "given", "null"})' /\ (given \in Injections \cup {""})' => AssistTypes'
  <2> SUFFICES ASSUME report' \in {"none", "checked", "given", "null"}, given' \in Injections \cup {""}
               PROVE  AssistTypes'
    OBVIOUS
  <2>1. (extended \in [cpi : BOOLEAN, xtra : BOOLEAN, agps : BOOLEAN])' /\ (modem \in [up : BOOLEAN, measures : BOOLEAN, linked : BOOLEAN])'
    BY <1>1, <1>2 DEF AssistTypes
  <2>2. (phase \in {"none", "created", "ready"})' /\ (supports \subseteq {"POSITION", "TIME", "REQUESTS"})'
    BY <1>1, <1>2 DEF AssistTypes
  <2>3. (xtra \in BOOLEAN)' /\ (measuring \in BOOLEAN)' /\ (caller \in {"idle", "opening", "closing"})'
    BY <1>1, <1>2 DEF AssistTypes
  <2> QED
    BY <2>1, <2>2, <2>3, Zenon DEF AssistTypes
<1>4. report \in {"none", "checked", "given", "null"} /\ given \in Injections \cup {""}
  BY <1>2 DEF AssistTypes
<1>5. ASSUME NEW kind \in Injections, Give(kind) PROVE AssistIInv'
  <2>1. Takes(kind) /\ kind \notin {"OPEN", "ENABLE", "DISABLE"} /\ report' = "none" /\ servers' = servers
    BY <1>5 DEF Give, Injections
  <2>2. given' \in Injections \cup {""}
    BY <1>4, <1>5 DEF Give
  <2> QED
    BY <1>1, <1>3, <2>1, <2>2, TakesKeep
<1>6. ASSUME NEW kind \in Requests, Ask(kind) PROVE AssistIInv'
  <2>1. Takes(kind) /\ kind \notin {"OPEN", "ENABLE", "DISABLE"} /\ report' = "none" /\ servers' = servers /\ given' = given
    BY <1>6 DEF Ask, Requests, seen
  <2> QED
    BY <1>1, <1>3, <1>4, <2>1, TakesKeep
<1>7. CASE ReportServers
  <2>1. Takes("SERVERS") /\ report' = "none" /\ given' = given
    BY <1>7 DEF ReportServers
  <2>2. InOrder(Head(toEngine).slots, Head(toEngine).urls)
    BY <1>2, <2>1, Taking DEF OrderComes
  <2>3. servers' = servers \/ servers' = [slots |-> Head(toEngine).slots, urls |-> Head(toEngine).urls]
    BY <1>7 DEF ReportServers
  <2>4. servers' = servers \/ InOrder(servers'.slots, servers'.urls)
    BY <2>2, <2>3
  <2> QED
    BY <1>1, <1>3, <1>4, <2>1, <2>4, TakesKeep
<1>8. CASE MeasurementArrives
  <2>1. Takes("MEASUREMENT") /\ report' \in {"none", "checked"} /\ servers' = servers /\ given' = given
    BY <1>8 DEF MeasurementArrives, seen
  <2> QED
    BY <1>1, <1>3, <1>4, <2>1, TakesKeep
<1>9. CASE MeasurementIsGiven
  <2>1. report' \in {"given", "null"} /\ UNCHANGED <<toEngine, servers, given>>
    BY <1>9 DEF MeasurementIsGiven, seen
  <2>2. AssistTypes'
    BY <1>3, <1>4, <2>1
  <2>3. QueueFits' /\ OrderComes'
    BY <1>1, <2>1 DEF AssistIInv, QueueFits, OrderComes, Ordered
  <2>4. FlowComes'
    BY <1>1, <2>1 DEF AssistIInv, FlowComes, Wanted, Followed, Has
  <2> QED
    BY <2>2, <2>3, <2>4 DEF AssistIInv
<1> QED
  BY <1>5, <1>6, <1>7, <1>8, <1>9

\* The messages that open the modem's handle, and that register and unregister the
\* measurements.
LEMMA EngineLinks ==
  ASSUME AssistIInv, OpenInterface \/ \E kind \in {"ENABLE", "DISABLE"} : UpdateRegistrationMask(kind)
  PROVE  AssistIInv'
<1>1. report' = "none" /\ UNCHANGED <<extended, phase, supports, xtra, measuring, caller, crashes, given, servers>>
  BY DEF OpenInterface, UpdateRegistrationMask, interface, clients, seen
<1>2. AssistTypes /\ OrderComes /\ FlowComes /\ toEngine \in Seq(Posts) /\ Len(toEngine) <= MaxPosted
  BY DEF AssistIInv, QueueFits
<1>3. modem \in [up : BOOLEAN, measures : BOOLEAN, linked : BOOLEAN]
  BY <1>2 DEF AssistTypes
<1>4. modem' \in [up : BOOLEAN, measures : BOOLEAN, linked : BOOLEAN] => AssistTypes'
  <2> SUFFICES ASSUME modem' \in [up : BOOLEAN, measures : BOOLEAN, linked : BOOLEAN] PROVE AssistTypes'
    OBVIOUS
  <2>1. (extended \in [cpi : BOOLEAN, xtra : BOOLEAN, agps : BOOLEAN])' /\ (report \in {"none", "checked", "given", "null"})'
    BY <1>1, <1>2 DEF AssistTypes
  <2>2. (phase \in {"none", "created", "ready"})' /\ (supports \subseteq {"POSITION", "TIME", "REQUESTS"})'
    BY <1>1, <1>2 DEF AssistTypes
  <2>3. (xtra \in BOOLEAN)' /\ (measuring \in BOOLEAN)' /\ (caller \in {"idle", "opening", "closing"})'
    BY <1>1, <1>2 DEF AssistTypes
  <2>4. (given \in Injections \cup {""})'
    BY <1>1, <1>2 DEF AssistTypes
  <2> QED
    BY <2>1, <2>2, <2>3, <2>4, Zenon DEF AssistTypes
<1>5. Wanted' = Wanted
  BY <1>1 DEF Wanted
<1>6. ASSUME NEW k \in {"OPEN", "ENABLE", "DISABLE"}, Takes(k),
             modem' \in [up : BOOLEAN, measures : BOOLEAN, linked : BOOLEAN], FlowComes'
      PROVE  AssistIInv'
  <2>1. toEngine' \in Seq(Posts) /\ Len(toEngine') <= MaxPosted /\ (Ordered => Ordered')
    BY <1>2, <1>6, Taking
  <2>2. QueueFits' /\ OrderComes'
    BY <1>1, <1>2, <2>1 DEF AssistIInv, QueueFits, OrderComes
  <2> QED
    BY <1>4, <1>6, <2>2 DEF AssistIInv
<1>7. CASE OpenInterface
  <2>1. Takes("OPEN")
    BY <1>7 DEF OpenInterface
  <2>2. (Followed => Followed') /\ (Has("ENABLE") => Has("ENABLE")')
    BY <1>2, <2>1, Taking
  <2>3. CASE modem.up
    <3>1. modem' = [modem EXCEPT !.linked = TRUE, !.measures = TRUE]
      BY <1>7, <2>3 DEF OpenInterface
    <3>2. modem' \in [up : BOOLEAN, measures : BOOLEAN, linked : BOOLEAN] /\ modem'.up /\ modem'.linked /\ modem'.measures
      BY <1>3, <2>3, <3>1
    <3>3. FlowComes'
      BY <1>1, <1>2, <1>5, <2>2, <3>2 DEF FlowComes
    <3> QED
      BY <1>6, <2>1, <3>2, <3>3
  <2>4. CASE ~modem.up
    <3>1. modem' = modem
      BY <1>7, <2>4 DEF OpenInterface
    <3>2. ~modem.linked
      BY <1>2, <2>4 DEF FlowComes
    <3>3. FlowComes'
      BY <1>1, <1>2, <1>5, <2>2, <2>4, <3>1, <3>2 DEF FlowComes
    <3> QED
      BY <1>3, <1>6, <2>1, <3>1, <3>3
  <2> QED
    BY <2>3, <2>4
<1>8. ASSUME NEW k \in {"ENABLE", "DISABLE"}, UpdateRegistrationMask(k) PROVE AssistIInv'
  <2>1. Takes(k)
    BY <1>8 DEF UpdateRegistrationMask
  <2>2. (Followed => Followed') /\ (Has("OPEN") => Has("OPEN")')
        /\ (k = "DISABLE" /\ Followed => Has("ENABLE")')
    BY <1>2, <2>1, Taking
  <2>3. CASE modem.linked
    <3>1. modem' = [modem EXCEPT !.measures = (k = "ENABLE")]
      BY <1>8, <2>3 DEF UpdateRegistrationMask
    <3>2. modem' \in [up : BOOLEAN, measures : BOOLEAN, linked : BOOLEAN]
      BY <1>3, <3>1
    <3>3. modem'.up = modem.up /\ modem'.linked = modem.linked
      BY <1>3, <3>1
    <3>4. modem'.measures = (k = "ENABLE")
      BY <1>3, <3>1
    <3>5. Wanted => modem'.measures \/ Has("ENABLE")'
      BY <1>2, <1>8, <2>2, <3>4 DEF FlowComes
    <3>6. FlowComes'
      BY <1>1, <1>2, <1>5, <2>2, <2>3, <3>3, <3>5 DEF FlowComes
    <3> QED
      BY <1>6, <1>8, <2>1, <3>2, <3>6
  <2>4. CASE ~modem.linked
    <3>1. modem' = modem
      BY <1>8, <2>4 DEF UpdateRegistrationMask
    <3>2. FlowComes'
      BY <1>1, <1>2, <1>5, <2>2, <2>4, <3>1 DEF FlowComes
    <3> QED
      BY <1>3, <1>6, <1>8, <2>1, <3>1, <3>2
  <2> QED
    BY <2>3, <2>4
<1> QED
  BY <1>7, <1>8

LEMMA AssistStep ==
  ASSUME AssistIInv, [AssistNext]_assistVars
  PROVE  AssistIInv'
<1>1. CASE UNCHANGED assistVars
  <2>1. UNCHANGED <<extended, phase, supports, xtra, measuring, caller, toEngine, report, modem, crashes, given, servers>>
    BY <1>1 DEF assistVars
  <2> QED
    BY <2>1, PostsKeep
<1>2. CASE AssistNext
  BY <1>2, FrameworkKeeps, AsksKeep, ModemKeeps, EngineGives, EngineLinks DEF AssistNext
<1> QED
  BY <1>1, <1>2

\* Who listens to measurements gets them once everything has been worked off, and the
\* servers that are reported are the usable ones, in their order (loc_eng_xtra.cpp,
\* loc_eng.cpp, loc.cpp).
THEOREM AssistSound == AssistSpec => []AssistInv
<1>1. AssistIInv => AssistInv
  <2> SUFFICES ASSUME AssistIInv PROVE AssistInv
    OBVIOUS
  <2>1. AssistTypeOK
    BY DEF AssistIInv, AssistTypes, QueueFits, AssistTypeOK
  <2>2. MeasurementsFlow
    <3> SUFFICES ASSUME measuring, caller = "idle", toEngine = <<>>, modem.up PROVE modem.measures
      BY DEF MeasurementsFlow
    <3>1. Wanted /\ ~Has("OPEN") /\ ~Has("ENABLE")
      BY DEF Wanted, Has
    <3> QED
      BY <3>1 DEF AssistIInv, FlowComes
  <2>3. ServersInOrder
    BY DEF AssistIInv, OrderComes, InOrder, InTheirSlots, ServersInOrder
  <2> QED
    BY <2>1, <2>2, <2>3 DEF AssistInv
<1>2. AssistSpec => []AssistIInv
  BY AssistStart, AssistStep, PTL DEF AssistSpec
<1> QED
  BY <1>1, <1>2, PTL

-----------------------------------------------------------------------------
(* The wrapper of the cameras. *)

CameraTypes == CameraTypeOK /\ releases \in [Cameras -> Nat] /\ together \in BOOLEAN

\* A camera that is open has not been released, one whose device remembers the
\* release was released once, and one that the wrapper knows as released is closed.
ReleasesCount ==
  \A c \in Cameras :
    /\ device[c] = "open" => releases[c] = 0
    /\ device[c] = "released" => releases[c] = 1
    /\ camera_released[c] => device[c] = "none" /\ releases[c] >= 1

\* Who is about to cancel the focus has a preview, or has taken a picture since.
CancelsFit ==
  /\ \A c \in cancelling : "preview" \in working[c] \/ c \in shot
  /\ "cancel" \notin harm

\* While there was never more than one camera: there is at most one, none of the
\* strings is a freed one while it is open, and only the camera's own user is called
\* back.
OneCamera == \A c, d \in Cameras : device[c] # "none" /\ device[d] # "none" => c = d
StringsLive == \A c, d \in Cameras : device[c] # "none" => fixed_set_params[d] # "freed"
CallsFit == \A c \in heard : device[c] = "open" /\ gUserCallbacks = c
AloneIsSafe ==
  ~together => OneCamera /\ StringsLive /\ CallsFit /\ "double free" \notin harm /\ "astray" \notin harm

CameraIInv == CameraTypes /\ ReleasesCount /\ CancelsFit /\ AloneIsSafe

LEMMA CameraStarts == CameraInit => CameraIInv
<1> SUFFICES ASSUME CameraInit PROVE CameraIInv
  OBVIOUS
<1>1. CameraTypes
  BY DEF CameraInit, CameraTypes, CameraTypeOK, Everywhere
<1>2. ReleasesCount /\ CancelsFit
  BY DEF CameraInit, ReleasesCount, CancelsFit, Everywhere
<1>3. AloneIsSafe
  BY DEF CameraInit, AloneIsSafe, OneCamera, StringsLive, CallsFit, Everywhere
<1> QED
  BY <1>1, <1>2, <1>3 DEF CameraIInv

\* Opening.
LEMMA DeviceOpenKeeps ==
  ASSUME CameraIInv, NEW c \in Cameras, DeviceOpen(c)
  PROVE  CameraIInv'
<1>1. /\ device[c] = "none" /\ Alive
      /\ UNCHANGED <<gUserCallbacks, heard, vendorParams, asked, working, cancelling, shot, harm>>
  BY DEF DeviceOpen, calls, options, inside
<1>2. /\ device' = device \/ device' = [device EXCEPT ![c] = "open"]
      /\ device' = device => camera_released' = camera_released /\ releases' = releases
      /\ device' # device => camera_released' = [camera_released EXCEPT ![c] = FALSE] /\ releases' = [releases EXCEPT ![c] = 0]
  BY <1>1 DEF DeviceOpen, CameraIInv, CameraTypes, CameraTypeOK
<1>3. /\ gVendorModule' \in BOOLEAN
      /\ together' \in BOOLEAN /\ (~together' => ~together)
      /\ fixed_set_params' = fixed_set_params \/ fixed_set_params' = Everywhere("null")
      /\ device' # device => fixed_set_params' = Everywhere("null")
      /\ device' # device /\ ~together' => \A d \in Cameras : device[d] = "none"
  <2>1. CASE UNCHANGED <<gVendorModule, device, camera_released, fixed_set_params, releases, together>>
    BY <2>1 DEF CameraIInv, CameraTypes, CameraTypeOK
  <2>2. CASE /\ gVendorModule' = TRUE /\ fixed_set_params' = Everywhere("null")
             /\ together' = (together \/ \E d \in Cameras : IsOpen(d))
    <3>1. CASE \E d \in Cameras : IsOpen(d)
      <4>1. together' = TRUE
        BY <2>2, <3>1, Zenon
      <4> QED
        BY <2>2, <4>1
    <3>2. CASE ~ \E d \in Cameras : IsOpen(d)
      <4>1. \A d \in Cameras : device[d] = "none"
        BY <1>1, <3>2 DEF IsOpen
      <4>2. together' = together
        BY <2>2, <3>2 DEF CameraIInv, CameraTypes
      <4> QED
        BY <2>2, <4>1, <4>2 DEF CameraIInv, CameraTypes
    <3> QED
      BY <3>1, <3>2
  <2> QED
    BY <2>1, <2>2, Zenon DEF DeviceOpen
<1>4. CameraTypes'
  <2>1. fixed_set_params' \in [Cameras -> {"null", "live", "freed"}]
    BY <1>3 DEF CameraIInv, CameraTypes, CameraTypeOK, Everywhere
  <2>2. device' \in [Cameras -> {"none", "open", "released"}]
    BY <1>2 DEF CameraIInv, CameraTypes, CameraTypeOK
  <2>3. camera_released' \in [Cameras -> BOOLEAN] /\ releases' \in [Cameras -> Nat]
    <3>1. CASE device' = device
      BY <1>2, <3>1 DEF CameraIInv, CameraTypes, CameraTypeOK
    <3>2. CASE device' # device
      <4>1. camera_released' \in [Cameras -> BOOLEAN]
        BY <1>2, <3>2, Zenon DEF CameraIInv, CameraTypes, CameraTypeOK
      <4>2. releases' \in [Cameras -> Nat]
        BY <1>2, <3>2 DEF CameraIInv, CameraTypes
      <4> QED
        BY <4>1, <4>2
    <3> QED
      BY <3>1, <3>2
  <2> QED
    BY <1>1, <1>3, <2>1, <2>2, <2>3, Zenon DEF CameraIInv, CameraTypes, CameraTypeOK
<1>5. ReleasesCount'
  BY <1>1, <1>2 DEF CameraIInv, CameraTypes, CameraTypeOK, ReleasesCount
<1>6. CancelsFit'
  BY <1>1 DEF CameraIInv, CancelsFit
<1>7. AloneIsSafe'
  <2> SUFFICES ASSUME ~together' PROVE (OneCamera /\ StringsLive /\ CallsFit /\ "double free" \notin harm /\ "astray" \notin harm)'
    BY DEF AloneIsSafe
  <2>1. OneCamera /\ StringsLive /\ CallsFit /\ "double free" \notin harm /\ "astray" \notin harm
    BY <1>3 DEF CameraIInv, AloneIsSafe
  <2>2. CASE device' = device
    BY <1>1, <1>3, <2>1, <2>2 DEF OneCamera, StringsLive, CallsFit, Everywhere
  <2>3. CASE device' # device
    <3>1. \A d \in Cameras : device[d] = "none" /\ fixed_set_params'[d] = "null" /\ (d # c => device'[d] = "none")
      BY <1>2, <1>3, <2>3 DEF Everywhere, CameraIInv, CameraTypes, CameraTypeOK
    <3>2. heard = {}
      BY <2>1, <3>1 DEF CallsFit, CameraIInv, CameraTypes, CameraTypeOK
    <3> QED
      BY <1>1, <2>1, <3>1, <3>2 DEF OneCamera, StringsLive, CallsFit
  <2> QED
    BY <2>2, <2>3
<1> QED
  BY <1>4, <1>5, <1>6, <1>7 DEF CameraIInv

\* Closing.
LEMMA DeviceCloseKeeps ==
  ASSUME CameraIInv, NEW c \in Cameras, DeviceClose(c)
  PROVE  CameraIInv'
<1>1. /\ device[c] # "none" /\ c \notin cancelling /\ device' = [device EXCEPT ![c] = "none"]
      /\ fixed_set_params' = FreedStrings(fixed_set_params)
      /\ harm' = harm \cup FreesTwice(fixed_set_params)
      /\ camera_released' = [camera_released EXCEPT ![c] = TRUE]
      /\ releases' = [releases EXCEPT ![c] = IF camera_released[c] THEN @ ELSE @ + 1]
      /\ heard' = heard \ {c} /\ working' = [working EXCEPT ![c] = {}]
      /\ UNCHANGED <<gVendorModule, gUserCallbacks, together, cancelling, shot>>
  BY DEF DeviceClose, IsOpen
<1>2. FreesTwice(fixed_set_params) \subseteq {"double free"}
      /\ (~together => FreesTwice(fixed_set_params) = {})
  BY <1>1 DEF FreesTwice, CameraIInv, AloneIsSafe, StringsLive
<1>3. CameraTypes'
  <2>1. fixed_set_params' \in [Cameras -> {"null", "live", "freed"}]
    BY <1>1 DEF FreedStrings
  <2>2. releases' \in [Cameras -> Nat]
    BY <1>1 DEF CameraIInv, CameraTypes
  <2>3. harm' \subseteq {"double free", "astray", "crash", "late cancel", "cancel"}
    BY <1>1, <1>2 DEF CameraIInv, CameraTypes, CameraTypeOK
  <2> QED
    BY <1>1, <2>1, <2>2, <2>3 DEF CameraIInv, CameraTypes, CameraTypeOK
<1>4. ReleasesCount'
  <2> SUFFICES ASSUME NEW d \in Cameras
               PROVE  /\ device'[d] = "open" => releases'[d] = 0
                      /\ device'[d] = "released" => releases'[d] = 1
                      /\ camera_released'[d] => device'[d] = "none" /\ releases'[d] >= 1
    BY DEF ReleasesCount
  <2>1. CASE d = c
    <3>1. ~camera_released[c]
      BY <1>1 DEF CameraIInv, ReleasesCount
    <3>2. device'[d] = "none" /\ releases'[d] = releases[c] + 1 /\ releases[c] \in Nat
      BY <1>1, <2>1, <3>1 DEF CameraIInv, CameraTypes, CameraTypeOK
    <3> QED
      BY <3>2
  <2>2. CASE d # c
    <3>1. device'[d] = device[d] /\ releases'[d] = releases[d] /\ camera_released'[d] = camera_released[d]
      BY <1>1, <2>2, Zenon DEF CameraIInv, CameraTypes, CameraTypeOK
    <3> QED
      BY <3>1 DEF CameraIInv, ReleasesCount
  <2> QED
    BY <2>1, <2>2
<1>5. CancelsFit'
  BY <1>1, <1>2 DEF CameraIInv, CameraTypes, CameraTypeOK, CancelsFit
<1>6. AloneIsSafe'
  <2> SUFFICES ASSUME ~together' PROVE (OneCamera /\ StringsLive /\ CallsFit /\ "double free" \notin harm /\ "astray" \notin harm)'
    BY DEF AloneIsSafe
  <2>1. OneCamera /\ StringsLive /\ CallsFit /\ "double free" \notin harm /\ "astray" \notin harm
    BY <1>1 DEF CameraIInv, AloneIsSafe
  <2>2. \A d \in Cameras : device'[d] = "none"
    BY <1>1, <2>1 DEF OneCamera, CameraIInv, CameraTypes, CameraTypeOK
  <2>3. heard' = {}
    BY <1>1, <2>1 DEF OneCamera, CallsFit, CameraIInv, CameraTypes, CameraTypeOK
  <2> QED
    BY <1>1, <1>2, <2>1, <2>2, <2>3 DEF OneCamera, StringsLive, CallsFit
<1> QED
  BY <1>3, <1>4, <1>5, <1>6 DEF CameraIInv

\* Releasing.
LEMMA ReleaseKeeps ==
  ASSUME CameraIInv, NEW c \in Cameras, Release(c)
  PROVE  CameraIInv'
<1>1. /\ device[c] = "open" /\ c \notin cancelling /\ device' = [device EXCEPT ![c] = "released"]
      /\ releases' = [releases EXCEPT ![c] = @ + 1]
      /\ heard' = heard \ {c} /\ working' = [working EXCEPT ![c] = {}]
      /\ harm' = harm \cup {"crash"} \/ harm' = harm
      /\ UNCHANGED <<gVendorModule, camera_released, fixed_set_params, gUserCallbacks, together, cancelling, shot>>
  BY DEF Release, Serves
<1>2. CameraTypes'
  <2>1. device' \in [Cameras -> {"none", "open", "released"}] /\ releases' \in [Cameras -> Nat]
    <3>1. device' \in [Cameras -> {"none", "open", "released"}]
      BY <1>1 DEF CameraIInv, CameraTypes, CameraTypeOK
    <3>2. releases[c] + 1 \in Nat
      BY DEF CameraIInv, CameraTypes
    <3>3. releases' \in [Cameras -> Nat]
      BY <1>1, <3>2 DEF CameraIInv, CameraTypes
    <3> QED
      BY <3>1, <3>3
  <2>2. working' \in [Cameras -> SUBSET (Switches \cup {"focus", "picture"})]
    BY <1>1 DEF CameraIInv, CameraTypes, CameraTypeOK
  <2>3. heard' \subseteq Cameras /\ harm' \subseteq {"double free", "astray", "crash", "late cancel", "cancel"}
    BY <1>1 DEF CameraIInv, CameraTypes, CameraTypeOK
  <2> QED
    BY <1>1, <2>1, <2>2, <2>3, Zenon DEF CameraIInv, CameraTypes, CameraTypeOK
<1>3. ReleasesCount'
  <2> SUFFICES ASSUME NEW d \in Cameras
               PROVE  /\ device'[d] = "open" => releases'[d] = 0
                      /\ device'[d] = "released" => releases'[d] = 1
                      /\ camera_released'[d] => device'[d] = "none" /\ releases'[d] >= 1
    BY DEF ReleasesCount
  <2>1. CASE d = c
    <3>1. ~camera_released[c] /\ releases[c] = 0
      BY <1>1 DEF CameraIInv, ReleasesCount
    <3>2. device'[d] = "released" /\ releases'[d] = releases[c] + 1
      BY <1>1, <2>1, Zenon DEF CameraIInv, CameraTypes, CameraTypeOK
    <3>3. camera_released'[d] = camera_released[c]
      BY <1>1, <2>1, Zenon
    <3> QED
      BY <3>1, <3>2, <3>3
  <2>2. CASE d # c
    <3>1. device'[d] = device[d] /\ releases'[d] = releases[d] /\ camera_released'[d] = camera_released[d]
      BY <1>1, <2>2, Zenon DEF CameraIInv, CameraTypes, CameraTypeOK
    <3> QED
      BY <3>1 DEF CameraIInv, ReleasesCount
  <2> QED
    BY <2>1, <2>2
<1>4. CancelsFit'
  BY <1>1 DEF CameraIInv, CameraTypes, CameraTypeOK, CancelsFit
<1>5. AloneIsSafe'
  <2> SUFFICES ASSUME ~together
               PROVE  (OneCamera /\ StringsLive /\ CallsFit /\ "double free" \notin harm /\ "astray" \notin harm)'
    BY <1>1 DEF AloneIsSafe
  <2>1. OneCamera /\ StringsLive /\ CallsFit /\ "double free" \notin harm /\ "astray" \notin harm
    BY DEF CameraIInv, AloneIsSafe
  <2>2. \A d \in Cameras : device'[d] # "none" => device[d] # "none"
    BY <1>1 DEF CameraIInv, CameraTypes, CameraTypeOK
  <2>3. \A d \in heard' : d \in heard /\ d \in Cameras /\ device'[d] = device[d]
    BY <1>1 DEF CameraIInv, CameraTypes, CameraTypeOK
  <2>4. OneCamera' /\ StringsLive'
    BY <1>1, <2>1, <2>2 DEF OneCamera, StringsLive
  <2>5. CallsFit'
    BY <1>1, <2>1, <2>3 DEF CallsFit
  <2> QED
    BY <1>1, <2>1, <2>4, <2>5
<1> QED
  BY <1>2, <1>3, <1>4, <1>5 DEF CameraIInv

\* Callbacks.
LEMMA CallbacksKeep ==
  ASSUME CameraIInv, NEW c \in Cameras, SetCallbacks(c) \/ CameraCalls(c)
  PROVE  CameraIInv'
<1>1. /\ device[c] # "none"
      /\ UNCHANGED <<gVendorModule, device, camera_released, fixed_set_params, working, cancelling, shot, releases, together>>
  BY DEF SetCallbacks, CameraCalls, Serves, IsOpen, own, options, inside
<1>2. \/ device[c] = "open" /\ gUserCallbacks' = c /\ heard' = heard \cup {c} /\ harm' = harm
      \/ /\ c \in heard /\ gUserCallbacks' = gUserCallbacks /\ heard' = heard
         /\ harm' = harm \cup {"astray"} \/ harm' = harm
         /\ gUserCallbacks = c => harm' = harm
  BY DEF SetCallbacks, CameraCalls, Serves, calls
<1>3. CameraTypes'
  BY <1>1, <1>2 DEF CameraIInv, CameraTypes, CameraTypeOK
<1>4. ReleasesCount'
  BY <1>1 DEF CameraIInv, ReleasesCount
<1>5. CancelsFit'
  BY <1>1, <1>2 DEF CameraIInv, CancelsFit
<1>6. AloneIsSafe'
  <2> SUFFICES ASSUME ~together
               PROVE  (OneCamera /\ StringsLive /\ CallsFit /\ "double free" \notin harm /\ "astray" \notin harm)'
    BY <1>1 DEF AloneIsSafe
  <2>1. OneCamera /\ StringsLive /\ CallsFit /\ "double free" \notin harm /\ "astray" \notin harm
    BY DEF CameraIInv, AloneIsSafe
  <2>2. OneCamera' /\ StringsLive'
    BY <1>1, <2>1 DEF OneCamera, StringsLive
  <2>3. heard \subseteq Cameras
    BY DEF CameraIInv, CameraTypes, CameraTypeOK
  <2>4. CallsFit'
    BY <1>1, <1>2, <2>1, <2>3 DEF OneCamera, CallsFit
  <2>5. harm' = harm
    BY <1>2, <2>1 DEF CallsFit
  <2> QED
    BY <2>1, <2>2, <2>4, <2>5
<1> QED
  BY <1>3, <1>4, <1>5, <1>6 DEF CameraIInv

\* Settings.
LEMMA SettingsKeep ==
  ASSUME CameraIInv, NEW c \in Cameras, GetParameters(c) \/ \E wanted \in Texts : SetParameters(c, wanted)
  PROVE  CameraIInv'
<1>1. /\ device[c] = "open"
      /\ UNCHANGED <<gVendorModule, device, camera_released, gUserCallbacks, heard, working, cancelling, shot, releases, together>>
  BY DEF GetParameters, SetParameters, Serves, own, calls, inside
<1>2. /\ fixed_set_params' = fixed_set_params \/ fixed_set_params' = [fixed_set_params EXCEPT ![c] = "live"]
      /\ \/ harm' = harm \/ harm' = harm \cup {"crash"}
         \/ fixed_set_params[c] = "freed" /\ harm' = harm \cup {"double free"}
  BY DEF GetParameters, SetParameters, own
<1>3. CameraTypes'
  BY <1>1, <1>2 DEF CameraIInv, CameraTypes, CameraTypeOK
<1>4. ReleasesCount'
  BY <1>1 DEF CameraIInv, ReleasesCount
<1>5. CancelsFit'
  BY <1>1, <1>2 DEF CameraIInv, CancelsFit
<1>6. AloneIsSafe'
  <2> SUFFICES ASSUME ~together
               PROVE  (OneCamera /\ StringsLive /\ CallsFit /\ "double free" \notin harm /\ "astray" \notin harm)'
    BY <1>1 DEF AloneIsSafe
  <2>1. OneCamera /\ StringsLive /\ CallsFit /\ "double free" \notin harm /\ "astray" \notin harm
    BY DEF CameraIInv, AloneIsSafe
  <2>2. \A d \in Cameras : fixed_set_params'[d] = "freed" => fixed_set_params[d] = "freed"
    BY <1>2 DEF CameraIInv, CameraTypes, CameraTypeOK
  <2>3. OneCamera' /\ StringsLive' /\ CallsFit'
    BY <1>1, <2>1, <2>2 DEF OneCamera, StringsLive, CallsFit
  <2>4. fixed_set_params[c] # "freed"
    BY <1>1, <2>1 DEF StringsLive
  <2>5. harm' = harm \/ harm' = harm \cup {"crash"}
    BY <1>2, <2>4
  <2> QED
    BY <2>1, <2>3, <2>5
<1> QED
  BY <1>3, <1>4, <1>5, <1>6 DEF CameraIInv

\* What is switched on and off, and the cancellation of the focus.
LEMMA SwitchesKeep ==
  ASSUME CameraIInv, NEW c \in Cameras,
         \/ \E switch \in Switches : ForwardCall(c, switch)
         \/ AutoFocus(c) \/ TakePicture(c) \/ PictureTaken(c) \/ FindsPreview(c) \/ CancelAutoFocus(c)
  PROVE  CameraIInv'
<1>1. /\ UNCHANGED <<gVendorModule, device, camera_released, fixed_set_params, gUserCallbacks, heard, releases, together>>
      /\ harm' = harm \/ harm' = harm \cup {"late cancel"} \/ harm' = harm \cup {"cancel"}
  BY DEF ForwardCall, AutoFocus, TakePicture, PictureTaken, FindsPreview, CancelAutoFocus, own, calls
<1>2. /\ working' \in [Cameras -> SUBSET (Switches \cup {"focus", "picture"})]
      /\ cancelling' \subseteq Cameras /\ shot' \subseteq cancelling'
  <2>1. \/ working' = working
        \/ \E on, off \in SUBSET (Switches \cup {"focus", "picture"}) : Switched(c, on, off)
    BY CameraAssumption DEF ForwardCall, AutoFocus, TakePicture, PictureTaken, FindsPreview, CancelAutoFocus
  <2>2. working' \in [Cameras -> SUBSET (Switches \cup {"focus", "picture"})]
    <3>1. CASE working' = working
      BY <3>1 DEF CameraIInv, CameraTypes, CameraTypeOK
    <3>2. CASE \E on, off \in SUBSET (Switches \cup {"focus", "picture"}) : Switched(c, on, off)
      <4>1. PICK on \in SUBSET (Switches \cup {"focus", "picture"}), off \in SUBSET (Switches \cup {"focus", "picture"}) :
              working' = [working EXCEPT ![c] = (@ \ off) \cup on]
        BY <3>2 DEF Switched
      <4>2. (working[c] \ off) \cup on \in SUBSET (Switches \cup {"focus", "picture"})
        BY DEF CameraIInv, CameraTypes, CameraTypeOK
      <4> QED
        BY <4>1, <4>2 DEF CameraIInv, CameraTypes, CameraTypeOK
    <3> QED
      BY <2>1, <3>1, <3>2
  <2>3. cancelling' \subseteq Cameras /\ shot' \subseteq cancelling'
    BY DEF ForwardCall, AutoFocus, TakePicture, PictureTaken, FindsPreview, CancelAutoFocus, CameraIInv, CameraTypes, CameraTypeOK
  <2> QED
    BY <2>2, <2>3
<1>3. CancelsFit'
  <2>1. CASE (\E switch \in Switches : ForwardCall(c, switch)) \/ AutoFocus(c) \/ TakePicture(c)
    <3>1. /\ c \notin cancelling /\ UNCHANGED <<cancelling, shot, harm>>
          /\ \E on, off : Switched(c, on, off)
      BY <2>1 DEF ForwardCall, AutoFocus, TakePicture, Serves
    <3> QED
      BY <3>1 DEF CancelsFit, Switched, CameraIInv, CameraTypes, CameraTypeOK
  <2>2. CASE PictureTaken(c)
    BY <2>2 DEF PictureTaken, CancelsFit, Switched, CameraIInv, CameraTypes, CameraTypeOK
  <2>3. CASE FindsPreview(c)
    BY <2>3 DEF FindsPreview, CancelsFit, CameraIInv
  <2>4. CASE CancelAutoFocus(c)
    <3>1. /\ c \in cancelling /\ cancelling' = cancelling \ {c} /\ shot' = shot \ {c}
          /\ working' = [working EXCEPT ![c] = (@ \ {"focus"}) \cup {}]
      BY <2>4 DEF CancelAutoFocus, Switched
    <3>2. "preview" \in working[c] \/ c \in shot
      BY <3>1 DEF CancelsFit, CameraIInv
    <3>3. "cancel" \notin harm'
      BY <2>4, <3>2 DEF CancelAutoFocus, CancelsFit, CameraIInv
    <3>4. \A d \in cancelling' : d # c /\ d \in cancelling /\ d \in Cameras
      BY <3>1 DEF CameraIInv, CameraTypes, CameraTypeOK
    <3>5. \A d \in cancelling' : working'[d] = working[d] /\ (d \in shot' <=> d \in shot)
      BY <3>1, <3>4 DEF CameraIInv, CameraTypes, CameraTypeOK
    <3> QED
      BY <3>3, <3>4, <3>5 DEF CancelsFit, CameraIInv
  <2> QED
    BY <2>1, <2>2, <2>3, <2>4
<1>4. CameraTypes'
  BY <1>1, <1>2 DEF CameraIInv, CameraTypes, CameraTypeOK
<1>5. ReleasesCount'
  BY <1>1 DEF CameraIInv, ReleasesCount
<1>6. AloneIsSafe'
  <2> SUFFICES ASSUME ~together
               PROVE  (OneCamera /\ StringsLive /\ CallsFit /\ "double free" \notin harm /\ "astray" \notin harm)'
    BY <1>1 DEF AloneIsSafe
  <2>1. OneCamera /\ StringsLive /\ CallsFit /\ "double free" \notin harm /\ "astray" \notin harm
    BY DEF CameraIInv, AloneIsSafe
  <2>2. OneCamera' /\ StringsLive' /\ CallsFit'
    BY <1>1, <2>1 DEF OneCamera, StringsLive, CallsFit
  <2> QED
    BY <1>1, <2>1, <2>2
<1> QED
  BY <1>3, <1>4, <1>5, <1>6 DEF CameraIInv

LEMMA CameraStep == CameraIInv /\ [CameraNext]_cameraVars => CameraIInv'
<1> SUFFICES ASSUME CameraIInv, [CameraNext]_cameraVars PROVE CameraIInv'
  OBVIOUS
<1>1. CASE UNCHANGED cameraVars
  BY <1>1 DEF cameraVars, CameraIInv, CameraTypes, CameraTypeOK, ReleasesCount, CancelsFit, AloneIsSafe, OneCamera, StringsLive,
              CallsFit
<1>2. CASE CameraNext
  <2>1. PICK c \in Cameras :
          \/ DeviceOpen(c) \/ DeviceClose(c) \/ Release(c)
          \/ SetCallbacks(c) \/ CameraCalls(c)
          \/ GetParameters(c) \/ (\E wanted \in Texts : SetParameters(c, wanted))
          \/ (\E switch \in Switches : ForwardCall(c, switch))
          \/ AutoFocus(c) \/ TakePicture(c) \/ PictureTaken(c) \/ FindsPreview(c) \/ CancelAutoFocus(c)
    BY <1>2 DEF CameraNext
  <2> QED
    BY <2>1, DeviceOpenKeeps, DeviceCloseKeeps, ReleaseKeeps, CallbacksKeep, SettingsKeep, SwitchesKeep
<1> QED
  BY <1>1, <1>2

\* What the wrappers promise: the cameras while they are used one after the other,
\* and the sensors, the lights and the address of Wi-Fi.
THEOREM WrappersSound == WrappersSpec => []WrappersInv
<1>1. CameraIInv => CameraInv
  <2>1. CameraIInv => OneAtATimeIsSafe /\ CancelNeedsPreview
    BY DEF CameraIInv, AloneIsSafe, CancelsFit, OneAtATimeIsSafe, CancelNeedsPreview
  <2>2. CameraIInv => ClosedIsReleased
    BY DEF CameraIInv, ReleasesCount, ClosedIsReleased
  <2> QED
    BY <2>1, <2>2 DEF CameraIInv, CameraTypes, CameraInv
<1>2. CameraSpec => []CameraInv
  BY CameraStarts, CameraStep, <1>1, PTL DEF CameraSpec
<1>3. HelpersSpec => []HelpersInv
  BY HelpersSound
<1> QED
  BY <1>2, <1>3, PTL DEF WrappersSpec, WrappersInv

-----------------------------------------------------------------------------
(* Configuration files and the kind of the device. *)

TargetKinds == {Undetected, "TARGET_QCA1530", "TARGET_AUTO", "TARGET_MPQ", "TARGET_APQ_SA", "TARGET_MDM", "TARGET_MSM_NO_SSC", "TARGET_UNKNOWN"}
Detections == {"yes", "no", "detect"}

CfgTypes ==
  /\ job \in {"idle", "file", "log", "update"}
  /\ text \in Seq(Lines) /\ at \in 0 .. Len(text)
  /\ num_params \in Nat /\ num_params < Width /\ param_set \subseteq AllNames
  /\ config = [p \in AllNames |-> config[p]]

\* The table that is filled, and the records there were to fill.
JobTable == IF job = "log" THEN LogTable ELSE Table
JobRecords == IF job = "update" THEN Cardinality(DOMAIN Table) - 1 ELSE Cardinality(DOMAIN JobTable)

\* Each line that filled a record is counted.
CountFits == job # "idle" => num_params + Cardinality(Filling(JobTable, at)) = JobRecords

\* The values and the marks are what the lines read so far say.
ReadSoFar ==
  /\ job # "idle" => \A p \in DOMAIN JobTable : config[p] = SaidBy(Naming(p, at), p, JobTable)
  /\ job = "file" => \A p \in DOMAIN Table : p \in param_set <=> Naming(p, at) # {}
  /\ job = "file" => \A p \in DOMAIN LogTable : config[p] = clean[p]

\* The second pass over a file leaves what the first has made.
FirstPassStays ==
  job = "log" /\ Hits(Table) <= Cardinality(DOMAIN Table) =>
    \A p \in DOMAIN Table : config[p] = Said(p, Table) /\ (p \in param_set <=> Naming(p, Len(text)) # {})

\* What is kept of the kind of the device is what was answered first.
TargetFits ==
  /\ polls \in Nat /\ polls <= Timeout
  /\ gTarget \in TargetKinds /\ qca1530 \in Detections
  /\ answers \in Seq([target : TargetKinds, qca : Detections])
  /\ gTarget # Undetected => answers # <<>>
  /\ answers # <<>> /\ answers[1].target # Undetected => gTarget = answers[1].target
  /\ answers # <<>> => (answers[1].target = "TARGET_QCA1530" <=> answers[1].qca = "yes")
  /\ Len(answers) = 2 /\ answers[1].target # Undetected => answers[2].target = answers[1].target

CfgIInv == CfgTypes /\ CountFits /\ ReadSoFar /\ FirstPassStays /\ TargetFits

\* Counting down within the width of the counter.
LEMMA Wrapping == \A n, w \in Nat : n < w => (n + w) % w = n
  OBVIOUS

LEMMA TablesAreCounted ==
  /\ Cardinality(DOMAIN Table) \in Nat /\ Cardinality(DOMAIN LogTable) \in Nat
  /\ Cardinality(DOMAIN Table) < Width /\ Cardinality(DOMAIN LogTable) < Width
  /\ DOMAIN Table # {} => Cardinality(DOMAIN Table) # 0
  BY CfgAssumption, FS_CardinalityType, FS_EmptySet

\* One more line, by the names that it may have ...
LEMMA NamingGrows ==
  ASSUME NEW n \in Nat, NEW p
  PROVE  /\ Naming(p, n) \subseteq 1 .. n
         /\ Naming(p, n + 1) = IF text[n + 1].name = p THEN Naming(p, n) \cup {n + 1} ELSE Naming(p, n)
  BY DEF Naming

\* ... and by the records that it fills.
LEMMA FillingGrows ==
  ASSUME NEW n \in Nat, NEW table
  PROVE  /\ Filling(table, n) \subseteq 1 .. n /\ IsFiniteSet(Filling(table, n)) /\ Cardinality(Filling(table, n)) \in Nat
         /\ Cardinality(Filling(table, n + 1)) =
              IF Fills(text[n + 1], table) THEN Cardinality(Filling(table, n)) + 1 ELSE Cardinality(Filling(table, n))
<1>1. Filling(table, n) \subseteq 1 .. n /\ n + 1 \notin Filling(table, n)
  BY DEF Filling
<1>2. IsFiniteSet(Filling(table, n))
  <2>1. IsFiniteSet(1 .. n)
    BY FS_Interval
  <2> QED
    BY <1>1, <2>1, FS_Subset
<1>3. Cardinality(Filling(table, n)) \in Nat
  BY <1>2, FS_CardinalityType
<1>4. Filling(table, n + 1) = IF Fills(text[n + 1], table) THEN Filling(table, n) \cup {n + 1} ELSE Filling(table, n)
  BY DEF Filling
<1>5. Cardinality(Filling(table, n) \cup {n + 1}) = Cardinality(Filling(table, n)) + 1
  BY <1>1, <1>2, FS_AddElement
<1> QED
  BY <1>1, <1>2, <1>3, <1>4, <1>5

\* The last line that names a parameter decides.
LEMMA LatestIsAdded ==
  ASSUME NEW n \in Nat, NEW S \in SUBSET (1 .. n)
  PROVE  Latest(S \cup {n + 1}) = n + 1
<1>1. n + 1 \in S \cup {n + 1} /\ \A j \in S \cup {n + 1} : n + 1 >= j
  OBVIOUS
<1>2. \A i \in S \cup {n + 1} : (\A j \in S \cup {n + 1} : i >= j) => i = n + 1
  OBVIOUS
<1> QED
  BY <1>1, <1>2 DEF Latest

\* When as many records were filled as the whole text fills, the rest of it says
\* nothing of the table.
LEMMA RestSaysNothing ==
  ASSUME CfgTypes, NEW table, Cardinality(Filling(table, Len(text))) <= Cardinality(Filling(table, at)),
         NEW p \in DOMAIN table
  PROVE  Naming(p, at) = Naming(p, Len(text))
<1>1. at \in Nat /\ Len(text) \in Nat /\ at <= Len(text)
  BY LenProperties DEF CfgTypes
<1>2. Filling(table, at) \subseteq Filling(table, Len(text))
  BY <1>1 DEF Filling
<1>3. Cardinality(Filling(table, at)) \in Nat /\ Cardinality(Filling(table, Len(text))) \in Nat /\ IsFiniteSet(Filling(table, Len(text)))
  BY <1>1, FillingGrows
<1>4. Cardinality(Filling(table, at)) <= Cardinality(Filling(table, Len(text)))
  BY <1>2, <1>3, FS_Subset
<1>5. Filling(table, at) = Filling(table, Len(text))
  BY <1>2, <1>3, <1>4, FS_Subset
<1>6. ASSUME NEW i \in Naming(p, Len(text)) PROVE i \in 1 .. at
  BY <1>5, <1>6 DEF Naming, Filling, Fills
<1> QED
  BY <1>1, <1>6 DEF Naming

LEMMA CfgStarts == CfgInit => CfgIInv
<1> SUFFICES ASSUME CfgInit PROVE CfgIInv
  OBVIOUS
<1>1. CfgTypes
  <2>1. text \in Seq(Lines) /\ Len(text) = 0
    BY EmptySeq DEF CfgInit
  <2>2. config = [p \in AllNames |-> config[p]]
    BY DEF CfgInit
  <2>3. 0 < Width
    BY TablesAreCounted, CfgAssumption
  <2> QED
    BY <2>1, <2>2, <2>3 DEF CfgInit, CfgTypes
<1>2. CountFits /\ ReadSoFar /\ FirstPassStays
  BY DEF CfgInit, CountFits, ReadSoFar, FirstPassStays
<1>3. TargetFits
  BY CfgAssumption, EmptySeq DEF CfgInit, TargetFits, TargetKinds, Detections
<1> QED
  BY <1>1, <1>2, <1>3 DEF CfgIInv

\* Beginning to read.
LEMMA BeginKeeps ==
  ASSUME CfgIInv, NEW n \in 0 .. MaxLines, NEW lines \in [1 .. n -> Lines], ReadConf(lines) \/ UpdateConf(lines)
  PROVE  CfgIInv'
<1>1. /\ text' = lines /\ at' = 0 /\ clean' = config
      /\ UNCHANGED <<config, polls, qca1530, gTarget, answers>>
  BY DEF ReadConf, UpdateConf, targetVars
<1>2. \/ job' = "file" /\ num_params' = Cardinality(DOMAIN Table) /\ param_set' = param_set \ DOMAIN Table
      \/ job' = "update" /\ num_params' = Cardinality(DOMAIN Table) - 1 /\ param_set' = param_set /\ DOMAIN Table # {}
  BY DEF ReadConf, UpdateConf
<1>3. lines \in Seq(Lines) /\ Len(lines) = n /\ n \in Nat
  BY CfgAssumption
<1>4. CfgTypes'
  <2>1. num_params' \in Nat /\ num_params' < Width
    BY <1>2, TablesAreCounted, CfgAssumption
  <2>2. job' \in {"idle", "file", "log", "update"} /\ param_set' \subseteq AllNames
    BY <1>2 DEF CfgIInv, CfgTypes
  <2>3. text' \in Seq(Lines) /\ at' \in 0 .. Len(text') /\ config' = [p \in AllNames |-> config'[p]]
    BY <1>1, <1>3 DEF CfgIInv, CfgTypes
  <2> QED
    BY <2>1, <2>2, <2>3 DEF CfgTypes
<1>5. /\ JobTable' = Table /\ num_params' = JobRecords'
  BY <1>2 DEF JobTable, JobRecords
<1>6. Filling(JobTable, at)' = {} /\ \A p : Naming(p, at)' = {}
  BY <1>1 DEF Filling, Naming
<1>7. CountFits'
  BY <1>4, <1>5, <1>6, FS_EmptySet DEF CfgTypes, CountFits
<1>8. ReadSoFar'
  <2>1. \A p \in DOMAIN Table : SaidBy(Naming(p, at), p, Table)' = clean'[p]
    BY <1>6 DEF SaidBy
  <2>2. job' = "file" => \A p \in DOMAIN Table : p \notin param_set'
    BY <1>2
  <2> QED
    BY <1>1, <1>5, <1>6, <2>1, <2>2 DEF ReadSoFar
<1>9. FirstPassStays' /\ TargetFits'
  BY <1>1, <1>2 DEF CfgIInv, FirstPassStays, TargetFits
<1> QED
  BY <1>4, <1>7, <1>8, <1>9 DEF CfgIInv

\* A line.
LEMMA ReadLineKeeps ==
  ASSUME CfgIInv, ReadLine
  PROVE  CfgIInv'
<1> DEFINE line == text[at + 1]
           n == at + 1
<1>1. /\ job # "idle" /\ at < Len(text) /\ num_params # 0 /\ at' = n
      /\ Fill(line, JobTable)
      /\ UNCHANGED <<text, job, clean, polls, qca1530, gTarget, answers>>
  BY DEF ReadLine, JobTable, targetVars
<1>2. /\ Fills(line, JobTable) => /\ config' = [config EXCEPT ![line.name] = Value(JobTable[line.name], line.value)]
                                  /\ param_set' = param_set \cup {line.name}
                                  /\ num_params' = (num_params - 1 + Width) % Width
      /\ ~Fills(line, JobTable) => UNCHANGED <<config, param_set, num_params>>
  BY <1>1 DEF Fill
<1>3. at \in Nat /\ n \in Nat /\ Len(text) \in Nat /\ n \in 0 .. Len(text) /\ num_params \in Nat /\ num_params < Width /\ Width \in Nat
  BY <1>1, LenProperties, CfgAssumption DEF CfgIInv, CfgTypes
<1>4. num_params' = IF Fills(line, JobTable) THEN num_params - 1 ELSE num_params
  <2>1. num_params - 1 \in Nat /\ num_params - 1 < Width
    BY <1>1, <1>3
  <2>2. (num_params - 1 + Width) % Width = num_params - 1
    BY <1>3, <2>1, Wrapping
  <2> QED
    BY <1>2, <2>2
<1>5. DOMAIN JobTable \subseteq AllNames
  BY DEF JobTable, AllNames
<1>6. /\ config' = [p \in AllNames |-> config'[p]]
      /\ \A p \in AllNames : p # line.name \/ ~Fills(line, JobTable) => config'[p] = config[p]
      /\ Fills(line, JobTable) => config'[line.name] = Value(JobTable[line.name], line.value)
  <2>1. CASE Fills(line, JobTable)
    <3>1. line.name \in AllNames
      BY <1>5, <2>1 DEF Fills
    <3> HIDE DEF line
    <3>2. config = [p \in AllNames |-> config[p]]
      BY DEF CfgIInv, CfgTypes
    <3>3. config' = [p \in AllNames |-> IF p = line.name THEN Value(JobTable[line.name], line.value) ELSE config[p]]
      BY <1>2, <2>1, <3>1, <3>2
    <3>4. \A p \in AllNames : config'[p] = IF p = line.name THEN Value(JobTable[line.name], line.value) ELSE config[p]
      BY <3>3
    <3>5. DOMAIN config' = AllNames
      BY <3>3
    <3>6. config' = [p \in AllNames |-> config'[p]]
      BY <3>3, <3>4
    <3> QED
      BY <2>1, <3>1, <3>4, <3>6
  <2>2. CASE ~Fills(line, JobTable)
    BY <1>2, <2>2 DEF CfgIInv, CfgTypes
  <2> QED
    BY <2>1, <2>2
<1>7. CfgTypes'
  <2>1. param_set' \subseteq AllNames
    BY <1>2, <1>5 DEF CfgIInv, CfgTypes, Fills
  <2>2. num_params' \in Nat /\ num_params' < Width
    BY <1>1, <1>3, <1>4
  <2> QED
    BY <1>1, <1>3, <1>6, <2>1, <2>2 DEF CfgIInv, CfgTypes
<1>8. CountFits'
  <2>1. num_params + Cardinality(Filling(JobTable, at)) = JobRecords
    BY <1>1 DEF CfgIInv, CountFits
  <2>2. Filling(JobTable, at)' = Filling(JobTable, n) /\ JobRecords' = JobRecords
    BY <1>1 DEF Filling, JobTable, JobRecords, Fills
  <2>3. /\ Cardinality(Filling(JobTable, at)) \in Nat
        /\ Cardinality(Filling(JobTable, n)) =
             IF Fills(line, JobTable) THEN Cardinality(Filling(JobTable, at)) + 1 ELSE Cardinality(Filling(JobTable, at))
    BY <1>3, FillingGrows
  <2>4. num_params' + Cardinality(Filling(JobTable, n)) = JobRecords
    BY <1>3, <1>4, <2>1, <2>3
  <2> QED
    BY <2>2, <2>4 DEF CountFits
<1>9. \A p : Naming(p, at)' = IF line.name = p THEN Naming(p, at) \cup {n} ELSE Naming(p, at)
  <2>1. \A p : Naming(p, at)' = Naming(p, n)
    BY <1>1 DEF Naming
  <2> QED
    BY <1>3, <2>1, NamingGrows
<1>10. ReadSoFar'
  <2>1. JobTable' = JobTable /\ job' = job
    BY <1>1 DEF JobTable
  <2>2. ASSUME NEW p \in DOMAIN JobTable PROVE config'[p] = SaidBy(Naming(p, at), p, JobTable)'
    <3>1. config[p] = SaidBy(Naming(p, at), p, JobTable) /\ p \in AllNames
      BY <1>1, <1>5 DEF CfgIInv, ReadSoFar
    <3>2. CASE line.name = p
      <4>1. Fills(line, JobTable) /\ config'[p] = Value(JobTable[p], line.value)
        BY <1>6, <3>2 DEF Fills
      <4>2. Naming(p, at)' = Naming(p, at) \cup {n} /\ Naming(p, at) \in SUBSET (1 .. at)
        BY <1>3, <1>9, <3>2, NamingGrows
      <4>3. Latest(Naming(p, at) \cup {n}) = n
        BY <1>3, <4>2, LatestIsAdded
      <4>4. SaidBy(Naming(p, at), p, JobTable)' = Value(JobTable[p], text[n].value)
        BY <1>1, <2>1, <4>2, <4>3 DEF SaidBy, Value
      <4> QED
        BY <4>1, <4>4
    <3>3. CASE line.name # p
      <4>1. config'[p] = config[p] /\ Naming(p, at)' = Naming(p, at)
        BY <1>6, <1>9, <3>1, <3>3
      <4>2. SaidBy(Naming(p, at), p, JobTable)' = SaidBy(Naming(p, at), p, JobTable)
        BY <1>1, <2>1, <4>1 DEF SaidBy
      <4> QED
        BY <3>1, <4>1, <4>2
    <3> QED
      BY <3>2, <3>3
  <2>3. ASSUME job = "file", NEW p \in DOMAIN Table PROVE p \in param_set' <=> Naming(p, at)' # {}
    <3>1. JobTable = Table /\ (p \in param_set <=> Naming(p, at) # {})
      BY <2>3 DEF CfgIInv, ReadSoFar, JobTable
    <3>2. CASE line.name = p
      BY <1>2, <1>9, <3>1, <3>2 DEF Fills
    <3>3. CASE line.name # p
      BY <1>2, <1>9, <3>1, <3>3
    <3> QED
      BY <3>2, <3>3
  <2>4. ASSUME job = "file", NEW p \in DOMAIN LogTable PROVE config'[p] = clean[p]
    <3>1. p \in AllNames /\ config[p] = clean[p] /\ p \notin DOMAIN JobTable
      BY <2>4, CfgAssumption DEF CfgIInv, ReadSoFar, JobTable, AllNames
    <3> QED
      BY <1>6, <3>1 DEF Fills
  <2> QED
    BY <1>1, <2>1, <2>2, <2>3, <2>4 DEF ReadSoFar
<1>11. FirstPassStays'
  <2> SUFFICES ASSUME job = "log", Hits(Table) <= Cardinality(DOMAIN Table), NEW p \in DOMAIN Table
               PROVE  config'[p] = Said(p, Table)' /\ (p \in param_set' <=> Naming(p, Len(text))' # {})
    <3>1. Hits(Table)' = Hits(Table)
      BY <1>1 DEF Hits, Filling, Fills
    <3> QED
      BY <1>1, <3>1 DEF FirstPassStays
  <2>1. config[p] = Said(p, Table) /\ (p \in param_set <=> Naming(p, Len(text)) # {})
    BY DEF CfgIInv, FirstPassStays
  <2>2. p \in AllNames /\ p \notin DOMAIN JobTable
    BY CfgAssumption DEF JobTable, AllNames
  <2>3. config'[p] = config[p] /\ (p \in param_set' <=> p \in param_set)
    BY <1>2, <1>6, <2>2 DEF Fills
  <2>4. Said(p, Table)' = Said(p, Table) /\ Naming(p, Len(text))' = Naming(p, Len(text))
    BY <1>1 DEF Said, SaidBy, Naming, Latest, Value
  <2> QED
    BY <2>1, <2>3, <2>4
<1>12. TargetFits'
  BY <1>1 DEF CfgIInv, TargetFits
<1> QED
  BY <1>7, <1>8, <1>10, <1>11, <1>12 DEF CfgIInv

\* The end of a pass.
LEMMA EndOfReadKeeps ==
  ASSUME CfgIInv, EndOfRead
  PROVE  CfgIInv'
<1>1. /\ job # "idle" /\ (at = Len(text) \/ num_params = 0)
      /\ UNCHANGED <<config, polls, qca1530, gTarget, answers>>
  BY DEF EndOfRead, targetVars
<1>2. TargetFits'
  BY <1>1 DEF CfgIInv, TargetFits
<1>3. CASE job = "file"
  <2>1. /\ job' = "log" /\ at' = 0 /\ num_params' = Cardinality(DOMAIN LogTable)
        /\ param_set' = param_set \ DOMAIN LogTable /\ UNCHANGED <<text, clean>>
    BY <1>3 DEF EndOfRead
  <2>2. CfgTypes'
    <3>1. Len(text) \in Nat /\ text \in Seq(Lines)
      BY LenProperties DEF CfgIInv, CfgTypes
    <3>2. num_params' \in Nat /\ num_params' < Width /\ at' \in 0 .. Len(text')
      BY <2>1, <3>1, TablesAreCounted
    <3>3. param_set' \subseteq AllNames
      BY <2>1 DEF CfgIInv, CfgTypes
    <3> QED
      BY <1>1, <2>1, <3>1, <3>2, <3>3 DEF CfgIInv, CfgTypes
  <2>3. JobTable' = LogTable /\ JobRecords' = Cardinality(DOMAIN LogTable)
    BY <2>1 DEF JobTable, JobRecords
  <2>4. Filling(JobTable, at)' = {} /\ \A p : Naming(p, at)' = {}
    BY <2>1 DEF Filling, Naming
  <2>5. CountFits'
    BY <2>1, <2>3, <2>4, TablesAreCounted, FS_EmptySet DEF CountFits
  <2>6. ReadSoFar'
    <3>1. \A p \in DOMAIN LogTable : SaidBy(Naming(p, at), p, LogTable)' = clean'[p]
      BY <2>4 DEF SaidBy
    <3> QED
      BY <1>1, <1>3, <2>1, <2>3, <3>1 DEF CfgIInv, ReadSoFar
  <2>7. FirstPassStays'
    <3> SUFFICES ASSUME Hits(Table) <= Cardinality(DOMAIN Table), NEW p \in DOMAIN Table
                 PROVE  config'[p] = Said(p, Table)' /\ (p \in param_set' <=> Naming(p, Len(text))' # {})
      <4>1. Hits(Table)' = Hits(Table)
        BY <2>1 DEF Hits, Filling, Fills
      <4> QED
        BY <4>1 DEF FirstPassStays
    <3>1. /\ config[p] = SaidBy(Naming(p, at), p, Table) /\ (p \in param_set <=> Naming(p, at) # {})
          /\ num_params + Cardinality(Filling(Table, at)) = Cardinality(DOMAIN Table)
      BY <1>3 DEF CfgIInv, ReadSoFar, CountFits, JobTable, JobRecords
    <3>2. at \in Nat /\ num_params \in Nat /\ Len(text) \in Nat
      BY LenProperties DEF CfgIInv, CfgTypes
    <3>3. Cardinality(Filling(Table, at)) \in Nat /\ Cardinality(Filling(Table, Len(text))) \in Nat
      BY <3>2, FillingGrows
    <3>4. Cardinality(Filling(Table, Len(text))) <= Cardinality(Filling(Table, at))
      BY <1>1, <3>1, <3>2, <3>3, TablesAreCounted DEF Hits
    <3>5. Naming(p, at) = Naming(p, Len(text))
      BY <3>4, RestSaysNothing DEF CfgIInv
    <3>6. Said(p, Table)' = Said(p, Table) /\ Naming(p, Len(text))' = Naming(p, Len(text))
      BY <2>1 DEF Said, SaidBy, Naming, Latest, Value
    <3>7. p \notin DOMAIN LogTable
      BY CfgAssumption
    <3> QED
      BY <1>1, <2>1, <3>1, <3>5, <3>6, <3>7 DEF Said
  <2> QED
    BY <1>2, <2>2, <2>5, <2>6, <2>7 DEF CfgIInv
<1>4. CASE job # "file"
  <2>1. job' = "idle" /\ text' = <<>> /\ at' = 0 /\ num_params' = 0 /\ param_set' = param_set
    BY <1>4 DEF EndOfRead, JobEnds
  <2>2. CfgTypes'
    <3>1. text' \in Seq(Lines) /\ Len(text') = 0
      BY <2>1, EmptySeq
    <3>2. 0 < Width /\ at' \in 0 .. Len(text')
      BY <2>1, <3>1, TablesAreCounted, CfgAssumption
    <3> QED
      BY <1>1, <2>1, <3>1, <3>2 DEF CfgIInv, CfgTypes
  <2>3. CountFits' /\ ReadSoFar' /\ FirstPassStays'
    BY <2>1 DEF CountFits, ReadSoFar, FirstPassStays
  <2> QED
    BY <1>2, <2>2, <2>3 DEF CfgIInv
<1> QED
  BY <1>3, <1>4

\* The detection and the answers.
LEMMA TargetKeeps ==
  ASSUME CfgIInv, TargetNext
  PROVE  CfgIInv'
<1>1. UNCHANGED <<text, job, at, num_params, config, param_set, clean>>
  BY DEF TargetNext, DetectionEnds, GetTarget
<1>2. (CfgTypes /\ CountFits /\ ReadSoFar /\ FirstPassStays)'
  <2>1. /\ \A p, t : SaidBy(Naming(p, at), p, t)' = SaidBy(Naming(p, at), p, t) /\ Said(p, t)' = Said(p, t)
        /\ \A p : Naming(p, at)' = Naming(p, at) /\ Naming(p, Len(text))' = Naming(p, Len(text))
    BY <1>1 DEF SaidBy, Said, Naming, Latest, Value
  <2>2. /\ JobTable' = JobTable /\ JobRecords' = JobRecords /\ Hits(Table)' = Hits(Table)
        /\ Filling(JobTable, at)' = Filling(JobTable, at)
    BY <1>1 DEF JobTable, JobRecords, Hits, Filling, Fills
  <2>3. CfgTypes' /\ CountFits'
    BY <1>1, <2>2 DEF CfgIInv, CfgTypes, CountFits
  <2>4. ReadSoFar' /\ FirstPassStays'
    BY <1>1, <2>1, <2>2 DEF CfgIInv, ReadSoFar, FirstPassStays
  <2> QED
    BY <2>3, <2>4
<1>3. CASE DetectionEnds
  <2>1. TargetFits'
    BY <1>3 DEF DetectionEnds, CfgIInv, TargetFits, Detections
  <2> QED
    BY <1>2, <2>1 DEF CfgIInv
<1>4. CASE \E p \in Platforms : GetTarget(p)
  <2>1. PICK p \in Platforms : GetTarget(p)
    BY <1>4
  <2>2. Kind(p) \in TargetKinds \ {"TARGET_QCA1530"}
    BY DEF Kind, TargetKinds, Undetected
  <2>3. /\ qca1530' = qca1530
        /\ \/ polls + 1 < Timeout /\ polls' = polls + 1 /\ UNCHANGED <<gTarget, answers>>
           \/ gTarget # Undetected /\ Returns(gTarget)
           \/ gTarget = Undetected /\ qca1530 = "yes" /\ Returns("TARGET_QCA1530")
           \/ gTarget = Undetected /\ qca1530 # "yes" /\ Returns(Kind(p))
    BY <2>1 DEF GetTarget
  <2>4. CASE polls + 1 < Timeout /\ polls' = polls + 1 /\ UNCHANGED <<gTarget, answers>>
    BY <1>2, <2>3, <2>4, CfgAssumption DEF CfgIInv, TargetFits
  <2>5. ASSUME NEW t \in TargetKinds, Returns(t), gTarget # Undetected => t = gTarget,
               gTarget = Undetected => (t = "TARGET_QCA1530" <=> qca1530 = "yes")
        PROVE  CfgIInv'
    <3> DEFINE answer == [target |-> t, qca |-> qca1530]
    <3>1. TargetFits
      BY DEF CfgIInv
    <3>2. answer \in [target : TargetKinds, qca : Detections] /\ answer.target = t /\ answer.qca = qca1530
      BY <3>1 DEF TargetFits
    <3>3. gTarget' = t /\ polls' = 0 /\ answers' = IF Len(answers) < 2 THEN Append(answers, answer) ELSE answers
      BY <2>5 DEF Returns
    <3>4. answers \in Seq([target : TargetKinds, qca : Detections]) /\ Len(answers) \in Nat
      BY <3>1, LenProperties DEF TargetFits
    <3> HIDE DEF answer
    <3>5. CASE answers = <<>>
      <4>1. answers' = <<answer>>
        BY <3>3, <3>5
      <4>2. answers' \in Seq([target : TargetKinds, qca : Detections]) /\ answers' # <<>> /\ answers'[1] = answer /\ Len(answers') = 1
        BY <3>2, <4>1
      <4>3. gTarget = Undetected
        BY <3>1, <3>5 DEF TargetFits
      <4> QED
        BY <1>2, <2>3, <2>5, <3>1, <3>2, <3>3, <4>2, <4>3, CfgAssumption DEF CfgIInv, TargetFits
    <3>6. CASE answers # <<>>
      <4>1. /\ answers' \in Seq([target : TargetKinds, qca : Detections]) /\ answers' # <<>> /\ answers'[1] = answers[1]
            /\ Len(answers) = 1 => Len(answers') = 2 /\ answers'[2] = answer
            /\ Len(answers) # 1 => answers' = answers
        <5>1. 1 \in DOMAIN answers /\ Len(answers) >= 1
          BY <3>4, <3>6
        <5>2. CASE Len(answers) < 2
          <6>1. PICK r : r = answers' /\ r = Append(answers, answer)
            BY <3>3, <5>2
          <6>2. /\ r \in Seq([target : TargetKinds, qca : Detections]) /\ Len(r) = Len(answers) + 1 /\ r # <<>>
                /\ \A i \in DOMAIN answers : i \in DOMAIN r /\ r[i] = answers[i]
                /\ r[Len(answers) + 1] = answer
            BY <3>2, <3>4, <6>1, Sent
          <6>3. Len(answers) = 1
            <7>1. Len(answers) \in Nat
              BY <3>4
            <7>2. Len(answers) >= 1
              BY <5>1
            <7>3. \A n \in Nat : n >= 1 /\ n < 2 => n = 1
              OBVIOUS
            <7> QED
              BY <5>2, <7>1, <7>2, <7>3, Zenon
          <6>4. r[1] = answers[1] /\ Len(r) = 2 /\ r[2] = answer
            BY <5>1, <6>2, <6>3
          <6> QED
            BY <6>1, <6>2, <6>3, <6>4
        <5>3. CASE ~(Len(answers) < 2)
          BY <3>3, <3>4, <3>6, <5>3
        <5> QED
          BY <5>2, <5>3
      <4>2. ASSUME answers[1].target # Undetected PROVE t = answers[1].target
        BY <2>5, <3>1, <3>6, <4>2 DEF TargetFits
      <4>3. Len(answers') = 2 /\ answers'[1].target # Undetected => answers'[2].target = answers'[1].target
        BY <3>1, <3>2, <4>1, <4>2 DEF TargetFits
      <4> QED
        BY <1>2, <2>3, <3>1, <3>3, <3>6, <4>1, <4>2, <4>3, CfgAssumption DEF CfgIInv, TargetFits
    <3> QED
      BY <3>5, <3>6
  <2>6. "TARGET_QCA1530" \in TargetKinds /\ gTarget \in TargetKinds /\ "TARGET_QCA1530" # Undetected
    BY DEF CfgIInv, TargetFits, TargetKinds, Undetected
  <2> QED
    BY <2>2, <2>3, <2>4, <2>5, <2>6
<1> QED
  BY <1>3, <1>4 DEF TargetNext

LEMMA CfgStep == CfgIInv /\ [ConfNext \/ TargetNext]_cfgVars => CfgIInv'
<1> SUFFICES ASSUME CfgIInv, [ConfNext \/ TargetNext]_cfgVars PROVE CfgIInv'
  OBVIOUS
<1>1. CASE UNCHANGED cfgVars
  <2>1. UNCHANGED <<text, job, at, num_params, config, param_set, clean, polls, qca1530, gTarget, answers>>
    BY <1>1 DEF cfgVars
  <2>2. /\ \A p, t : SaidBy(Naming(p, at), p, t)' = SaidBy(Naming(p, at), p, t) /\ Said(p, t)' = Said(p, t)
        /\ \A p : Naming(p, at)' = Naming(p, at) /\ Naming(p, Len(text))' = Naming(p, Len(text))
    BY <2>1 DEF SaidBy, Said, Naming, Latest, Value
  <2>3. /\ JobTable' = JobTable /\ JobRecords' = JobRecords /\ Hits(Table)' = Hits(Table)
        /\ Filling(JobTable, at)' = Filling(JobTable, at)
    BY <2>1 DEF JobTable, JobRecords, Hits, Filling, Fills
  <2>4. CfgTypes' /\ CountFits' /\ TargetFits'
    BY <2>1, <2>3 DEF CfgIInv, CfgTypes, CountFits, TargetFits
  <2>5. ReadSoFar' /\ FirstPassStays'
    BY <2>1, <2>2, <2>3 DEF CfgIInv, ReadSoFar, FirstPassStays
  <2> QED
    BY <2>4, <2>5 DEF CfgIInv
<1>2. CASE ConfNext
  BY <1>2, BeginKeeps, ReadLineKeeps, EndOfReadKeeps DEF ConfNext
<1>3. CASE TargetNext
  BY <1>3, TargetKeeps
<1> QED
  BY <1>1, <1>2, <1>3

\* A file is taken over whole and an update that leaves a record out, no read goes
\* past its table, and the kind of the device stays once it is found (loc_cfg.cpp,
\* loc_target.cpp).
THEOREM CfgSound == CfgSpec => []CfgInv
<1>1. CfgIInv => CfgInv
  <2> SUFFICES ASSUME CfgIInv PROVE CfgInv
    OBVIOUS
  <2>1. /\ at \in Nat /\ Len(text) \in Nat /\ at <= Len(text) /\ num_params \in Nat /\ num_params < Width
        /\ \A t : Cardinality(Filling(t, at)) \in Nat /\ Cardinality(Filling(t, Len(text))) \in Nat
    BY LenProperties, FillingGrows DEF CfgIInv, CfgTypes
  <2>2. CfgTypeOK
    BY <2>1, CfgAssumption DEF CfgIInv, CfgTypes, TargetFits, CfgTypeOK
  <2>3. FileIsTakenOver
    <3>1. \A p : Naming(p, Len(text)) # {} <=> \E i \in 1 .. Len(text) : text[i].name = p
      BY DEF Naming
    <3>2. CASE job = "log"
      <4>1. /\ \A p \in DOMAIN LogTable : config[p] = SaidBy(Naming(p, at), p, LogTable)
            /\ num_params + Cardinality(Filling(LogTable, at)) = Cardinality(DOMAIN LogTable)
        BY <3>2 DEF CfgIInv, ReadSoFar, CountFits, JobTable, JobRecords
      <4>2. Filling(LogTable, at) \subseteq Filling(LogTable, Len(text)) /\ IsFiniteSet(Filling(LogTable, Len(text)))
        <5>1. IsFiniteSet(Filling(LogTable, Len(text)))
          BY <2>1, FillingGrows
        <5>2. Filling(LogTable, at) \subseteq Filling(LogTable, Len(text))
          BY <2>1 DEF Filling
        <5> QED
          BY <5>1, <5>2
      <4>3. Cardinality(Filling(LogTable, at)) <= Hits(LogTable)
        BY <4>2, FS_Subset DEF Hits
      <4>4. num_params = 0 => Hits(LogTable) >= Cardinality(DOMAIN LogTable)
        BY <2>1, <4>1, <4>3, TablesAreCounted DEF Hits
      <4>5. at = Len(text) => \A p \in DOMAIN LogTable : config[p] = Said(p, LogTable)
        BY <4>1 DEF Said
      <4> QED
        BY <3>1, <3>2, <4>4, <4>5 DEF CfgIInv, FirstPassStays, FileIsTakenOver
    <3> QED
      BY <3>2 DEF FileIsTakenOver
  <2>4. UpdateIsTakenOver
    <3> SUFFICES ASSUME job = "update", at = Len(text) \/ num_params = 0, Hits(Table) < Cardinality(DOMAIN Table),
                        NEW p \in DOMAIN Table
                 PROVE  config[p] = Said(p, Table)
      BY DEF UpdateIsTakenOver
    <3>1. /\ config[p] = SaidBy(Naming(p, at), p, Table)
          /\ num_params + Cardinality(Filling(Table, at)) = Cardinality(DOMAIN Table) - 1
      BY DEF CfgIInv, ReadSoFar, CountFits, JobTable, JobRecords
    <3>2. Cardinality(Filling(Table, Len(text))) <= Cardinality(Filling(Table, at))
      BY <2>1, <3>1, TablesAreCounted DEF Hits
    <3>3. Naming(p, at) = Naming(p, Len(text))
      BY <3>2, RestSaysNothing DEF CfgIInv
    <3> QED
      BY <3>1, <3>3 DEF Said
  <2>5. CountsDown
    <3> SUFFICES ASSUME job # "idle" PROVE num_params <= Cardinality(IF job = "log" THEN DOMAIN LogTable ELSE DOMAIN Table)
      BY DEF CountsDown
    <3>1. num_params + Cardinality(Filling(JobTable, at)) = JobRecords
      BY DEF CfgIInv, CountFits
    <3> QED
      BY <2>1, <3>1, TablesAreCounted DEF JobTable, JobRecords
  <2>6. TargetIsSettled
    BY DEF CfgIInv, TargetFits, TargetIsSettled
  <2> QED
    BY <2>2, <2>3, <2>4, <2>5, <2>6 DEF CfgInv
<1>2. CfgSpec => []CfgIInv
  BY CfgStarts, CfgStep, PTL DEF CfgSpec
<1> QED
  BY <1>1, <1>2, PTL

-----------------------------------------------------------------------------
(* Numbers and stretches of sequences. *)

\* A set of numbers that is not empty has a least member.
LEMMA LeastNumber ==
  ASSUME NEW T \in SUBSET Nat, T # {}
  PROVE  \E m \in T : \A k \in T : m <= k
<1> DEFINE UpTo(m) == {k \in T : k <= m}
<1> DEFINE Parts == {UpTo(m) : m \in T}
<1>1. Parts \subseteq FiniteSubsetsOf(Nat)
  <2> SUFFICES ASSUME NEW m \in T PROVE UpTo(m) \in SUBSET Nat /\ IsFiniteSet(UpTo(m))
    BY DEF FiniteSubsetsOf
  <2>1. UpTo(m) \in SUBSET Nat /\ m \in Nat /\ \A k \in UpTo(m) : k <= m
    OBVIOUS
  <2> QED
    BY <2>1, FS_BoundedSetOfNaturals
<1>2. Parts # {}
  OBVIOUS
<1>3. \E D \in Parts : \A E \in Parts : <<E, D>> \notin StrictSubsetOrdering(Nat)
  BY <1>1, <1>2, FS_StrictSubsetOrderingWellFounded, WFMin
<1>4. PICK m \in T : \A k \in T : <<UpTo(k), UpTo(m)>> \notin StrictSubsetOrdering(Nat)
  BY <1>3
<1>5. ASSUME NEW k \in T, k < m PROVE FALSE
  <2> k \in Nat /\ m \in Nat
    OBVIOUS
  <2>1. UpTo(k) \subseteq UpTo(m)
    <3> SUFFICES ASSUME NEW i \in T, i <= k PROVE i <= m
      OBVIOUS
    <3> i \in Nat
      OBVIOUS
    <3> QED
      BY <1>5
  <2>2. m \in UpTo(m) /\ m \notin UpTo(k)
    BY <1>5
  <2>3. UpTo(k) \in SUBSET Nat /\ UpTo(m) \in SUBSET Nat /\ UpTo(k) # UpTo(m)
    BY <2>2
  <2> HIDE DEF UpTo
  <2>4. <<UpTo(k), UpTo(m)>> \in StrictSubsetOrdering(Nat)
    BY <2>1, <2>3 DEF StrictSubsetOrdering
  <2> QED
    BY <1>4, <2>4
<1> QED
  BY <1>5

\* What holds at 0, and is passed on, holds up to any number.
LEMMA UpToNumber ==
  ASSUME NEW N \in Nat, NEW S, 0 \in S, \A n \in 0 .. N - 1 : n \in S => n + 1 \in S
  PROVE  \A n \in 0 .. N : n \in S
<1> DEFINE T == {n \in 0 .. N : n \notin S}
<1>1. SUFFICES ASSUME T # {} PROVE FALSE
  OBVIOUS
<1>2. T \in SUBSET Nat
  OBVIOUS
<1>3. PICK m \in T : \A k \in T : m <= k
  BY <1>1, <1>2, LeastNumber
<1>4. m \in 0 .. N /\ m # 0
  OBVIOUS
<1>5. m - 1 \in 0 .. N - 1 /\ m - 1 \notin T
  BY <1>3, <1>4
<1>6. m - 1 \in S
  BY <1>5
<1>7. (m - 1) + 1 \in S
  BY <1>5, <1>6
<1>8. (m - 1) + 1 = m
  BY <1>4
<1> QED
  BY <1>7, <1>8

\* What is handed on from number to number.
Hands(g, x, N, step) == g[0] = x /\ \A n \in 1 .. N : g[n] = step[n][g[n - 1]]

LEMMA HandedOn ==
  ASSUME NEW S, NEW x \in S, NEW N \in Nat, NEW step \in [1 .. N -> [S -> S]]
  PROVE  \E g \in [0 .. N -> S] : Hands(g, x, N, step)
<1> DEFINE Good(n) == \E g \in [0 .. n -> S] : g[0] = x /\ \A k \in 1 .. n : g[k] = step[k][g[k - 1]]
<1> DEFINE T == {n \in 0 .. N : Good(n)}
<1>1. 0 \in T
  <2>1. Good(0)
    <3> DEFINE h == [k \in 0 .. 0 |-> x]
    <3>1. h \in [0 .. 0 -> S] /\ h[0] = x /\ \A k \in 1 .. 0 : h[k] = step[k][h[k - 1]]
      OBVIOUS
    <3> HIDE DEF h
    <3> QED
      BY <3>1
  <2> QED
    BY <2>1
<1>2. ASSUME NEW n \in 0 .. N - 1, n \in T PROVE n + 1 \in T
  <2>1. PICK g \in [0 .. n -> S] : g[0] = x /\ \A k \in 1 .. n : g[k] = step[k][g[k - 1]]
    BY <1>2
  <2>2. n + 1 \in 1 .. N /\ n + 1 \in 0 .. N
    OBVIOUS
  <2> DEFINE h == [k \in 0 .. n + 1 |-> IF k = n + 1 THEN step[n + 1][g[n]] ELSE g[k]]
  <2>3. h \in [0 .. n + 1 -> S]
    <3>1. g[n] \in S
      BY <2>1
    <3>2. step[n + 1][g[n]] \in S
      BY <2>2, <3>1
    <3>3. \A k \in 0 .. n + 1 : k # n + 1 => k \in 0 .. n
      OBVIOUS
    <3> QED
      BY <3>2, <3>3
  <2>4. h[0] = x
    BY <2>1
  <2>5. ASSUME NEW k \in 1 .. n + 1 PROVE h[k] = step[k][h[k - 1]]
    <3>1. CASE k = n + 1
      BY <3>1
    <3>2. CASE k # n + 1
      <4>1. k \in 1 .. n /\ k \in 0 .. n + 1 /\ k - 1 \in 0 .. n + 1 /\ k - 1 # n + 1
        BY <3>2
      <4>2. h[k] = g[k] /\ h[k - 1] = g[k - 1]
        BY <3>2, <4>1
      <4> QED
        BY <2>1, <4>1, <4>2
    <3> QED
      BY <3>1, <3>2
  <2>6. Good(n + 1)
    <3> HIDE DEF h
    <3> QED
      BY <2>3, <2>4, <2>5
  <2> QED
    BY <2>2, <2>6
<1>3. N \in T
  <2>1. \A n \in 0 .. N - 1 : n \in T => n + 1 \in T
    BY <1>2
  <2> HIDE DEF T
  <2>2. \A n \in 0 .. N : n \in T
    BY <1>1, <2>1, UpToNumber
  <2> QED
    BY <2>2
<1> QED
  BY <1>3 DEF Hands

\* What the loop has picked after n turns.
Picking(g, s, S, T) ==
  /\ g \in [0 .. Len(s) -> Seq(T)] /\ g[0] = <<>> /\ Picked(s, S) = g[Len(s)]
  /\ \A n \in 1 .. Len(s) : g[n] = IF n \in S THEN Append(g[n - 1], s[n]) ELSE g[n - 1]

LEMMA PickedInTurn ==
  ASSUME NEW T, NEW s \in Seq(T), NEW S
  PROVE  \E g : Picking(g, s, S, T)
<1> DEFINE N == Len(s)
<1> DEFINE step == [n \in 1 .. N |-> [r \in Seq(T) |-> IF n \in S THEN Append(r, s[n]) ELSE r]]
<1> DEFINE Loop(built) == built = [n \in 0 .. N |-> IF n = 0 THEN <<>> ELSE IF n \in S THEN Append(built[n - 1], s[n]) ELSE built[n - 1]]
<1>1. N \in Nat /\ <<>> \in Seq(T)
  OBVIOUS
<1>2. step \in [1 .. N -> [Seq(T) -> Seq(T)]]
  OBVIOUS
<1>3. PICK g \in [0 .. N -> Seq(T)] : Hands(g, <<>>, N, step)
  <2> HIDE DEF step, N
  <2> QED
    BY <1>1, <1>2, HandedOn
<1>4. g[0] = <<>> /\ \A n \in 1 .. N : g[n] = step[n][g[n - 1]]
  <2> HIDE DEF step
  <2> QED
    BY <1>3 DEF Hands
<1>5. ASSUME NEW n \in 1 .. N PROVE g[n] = IF n \in S THEN Append(g[n - 1], s[n]) ELSE g[n - 1]
  <2>1. n - 1 \in 0 .. N
    OBVIOUS
  <2>2. g[n - 1] \in Seq(T)
    BY <1>3, <2>1
  <2> HIDE DEF N
  <2>3. step[n][g[n - 1]] = IF n \in S THEN Append(g[n - 1], s[n]) ELSE g[n - 1]
    BY <2>2
  <2> HIDE DEF step
  <2> QED
    BY <1>4, <2>3
<1>6. Loop(g)
  <2> HIDE DEF step
  <2> DEFINE h == [n \in 0 .. N |-> IF n = 0 THEN <<>> ELSE IF n \in S THEN Append(g[n - 1], s[n]) ELSE g[n - 1]]
  <2>1. ASSUME NEW n \in 0 .. N PROVE g[n] = h[n]
    <3>1. CASE n = 0
      BY <1>4, <3>1
    <3>2. CASE n # 0
      <4>1. n \in 1 .. N
        BY <3>2
      <4> QED
        BY <1>5, <3>2, <4>1
    <3> QED
      BY <3>1, <3>2
  <2> QED
    <3> g = [n \in 0 .. N |-> g[n]]
      BY <1>3
    <3> h = [n \in 0 .. N |-> h[n]]
      OBVIOUS
    <3> HIDE DEF h
    <3>1. g = h
      BY <2>1
    <3> QED
      BY <3>1 DEF h
<1>7. PICK built : built = (CHOOSE any : Loop(any))
  OBVIOUS
<1>8. Loop(built)
  BY <1>6, <1>7
<1>9. Picked(s, S) = built[N]
  BY <1>7 DEF Picked
<1> HIDE DEF step
<1>10. \A n \in 0 .. N : built[n] = g[n]
  <2> DEFINE Same == {n \in 0 .. N : built[n] = g[n]}
  <2>1. 0 \in Same
    BY <1>1, <1>4, <1>8
  <2>2. ASSUME NEW n \in 0 .. N - 1, n \in Same PROVE n + 1 \in Same
    <3>1. n + 1 \in 1 .. N /\ n + 1 \in 0 .. N /\ n + 1 # 0 /\ (n + 1) - 1 = n
      OBVIOUS
    <3>2. built[n + 1] = IF n + 1 \in S THEN Append(built[n], s[n + 1]) ELSE built[n]
      BY <1>8, <3>1
    <3>3. g[n + 1] = IF n + 1 \in S THEN Append(g[n], s[n + 1]) ELSE g[n]
      BY <1>5, <3>1
    <3> QED
      BY <2>2, <3>1, <3>2, <3>3
  <2>3. \A n \in 0 .. N - 1 : n \in Same => n + 1 \in Same
    BY <2>2
  <2> HIDE DEF Same
  <2>4. \A n \in 0 .. N : n \in Same
    BY <1>1, <2>1, <2>3, UpToNumber
  <2> QED
    BY <2>4 DEF Same
<1>11. Picked(s, S) = g[N]
  BY <1>1, <1>9, <1>10
<1> QED
  BY <1>3, <1>4, <1>5, <1>11 DEF Picking

\* Nothing is picked but what stands at the places in S.
LEMMA PickedFrom ==
  ASSUME NEW T, NEW s \in Seq(T), NEW S
  PROVE  /\ Picked(s, S) \in Seq(T)
         /\ \A j \in DOMAIN Picked(s, S) : \E i \in DOMAIN s : i \in S /\ Picked(s, S)[j] = s[i]
<1> DEFINE N == Len(s)
<1> DEFINE FromS(r) == \A j \in DOMAIN r : \E i \in DOMAIN s : i \in S /\ r[j] = s[i]
<1>1. PICK g : Picking(g, s, S, T)
  BY PickedInTurn
<1>2. /\ g \in [0 .. N -> Seq(T)] /\ g[0] = <<>> /\ Picked(s, S) = g[N]
      /\ \A n \in 1 .. N : g[n] = IF n \in S THEN Append(g[n - 1], s[n]) ELSE g[n - 1]
  BY <1>1 DEF Picking
<1> DEFINE Good == {n \in 0 .. N : FromS(g[n])}
<1>3. N \in Nat /\ N \in 0 .. N
  OBVIOUS
<1>4. 0 \in Good
  BY <1>2, <1>3
<1>5. ASSUME NEW n \in 0 .. N - 1, n \in Good PROVE n + 1 \in Good
  <2>1. n + 1 \in 1 .. N /\ n + 1 \in 0 .. N /\ (n + 1) - 1 = n /\ n \in 0 .. N /\ n + 1 \in DOMAIN s
    OBVIOUS
  <2>2. g[n] \in Seq(T) /\ FromS(g[n])
    BY <1>2, <1>5, <2>1
  <2>3. s[n + 1] \in T
    BY <2>1
  <2>4. CASE n + 1 \in S
    <3>1. g[n + 1] = Append(g[n], s[n + 1])
      BY <1>2, <2>1, <2>4
    <3>2. ASSUME NEW r \in Seq(T), FromS(r), NEW j \in DOMAIN Append(r, s[n + 1])
          PROVE  \E i \in DOMAIN s : i \in S /\ Append(r, s[n + 1])[j] = s[i]
      <4>1. CASE j \in DOMAIN r
        <5>1. Append(r, s[n + 1])[j] = r[j]
          BY <2>3, <4>1
        <5> QED
          BY <3>2, <4>1, <5>1
      <4>2. CASE j \notin DOMAIN r
        <5>1. Append(r, s[n + 1])[j] = s[n + 1]
          BY <2>3, <3>2, <4>2
        <5> QED
          BY <2>1, <2>4, <5>1
      <4> QED
        BY <4>1, <4>2
    <3>3. FromS(g[n + 1])
      BY <2>2, <3>1, <3>2
    <3> QED
      BY <2>1, <3>3
  <2>5. CASE n + 1 \notin S
    <3>1. g[n + 1] = g[n]
      BY <1>2, <2>1, <2>5
    <3> QED
      BY <2>1, <2>2, <3>1
  <2> QED
    BY <2>4, <2>5
<1>6. \A n \in 0 .. N - 1 : n \in Good => n + 1 \in Good
  BY <1>5
<1>7. \A n \in 0 .. N : n \in Good
  <2> HIDE DEF Good, N
  <2> QED
    BY <1>3, <1>4, <1>6, UpToNumber
<1>8. FromS(g[N]) /\ g[N] \in Seq(T)
  BY <1>2, <1>3, <1>7
<1> QED
  BY <1>2, <1>8

\* When the places follow each other, a stretch of the sequence is picked.
IsStretch(S, s, lo, hi) ==
  /\ lo <= hi /\ hi <= Len(s)
  /\ \A n \in 1 .. Len(s) : n \in S <=> lo < n /\ n <= hi

LEMMA PickedStretch ==
  ASSUME NEW T, NEW s \in Seq(T), NEW S, NEW lo \in Nat, NEW hi \in Nat, IsStretch(S, s, lo, hi)
  PROVE  Picked(s, S) = SubSeq(s, lo + 1, hi)
<1> DEFINE N == Len(s)
<1> DEFINE To(n) == SubSeq(s, lo + 1, IF n <= hi THEN n ELSE hi)
<1> lo <= hi /\ hi <= Len(s) /\ \A n \in 1 .. Len(s) : n \in S <=> lo < n /\ n <= hi
  BY DEF IsStretch
<1>1. PICK g : Picking(g, s, S, T)
  BY PickedInTurn
<1>2. /\ g \in [0 .. N -> Seq(T)] /\ g[0] = <<>> /\ Picked(s, S) = g[N]
      /\ \A n \in 1 .. N : g[n] = IF n \in S THEN Append(g[n - 1], s[n]) ELSE g[n - 1]
  BY <1>1 DEF Picking
<1>3. N \in Nat /\ N \in 0 .. N
  OBVIOUS
<1> DEFINE Good == {n \in 0 .. N : g[n] = To(n)}
<1>4. 0 \in Good
  <2>1. To(0) = <<>>
    OBVIOUS
  <2> QED
    BY <1>2, <1>3, <2>1
<1>5. ASSUME NEW n \in 0 .. N - 1, n \in Good PROVE n + 1 \in Good
  <2>1. n + 1 \in 1 .. N /\ n + 1 \in 0 .. N /\ (n + 1) - 1 = n /\ n \in 0 .. N /\ n \in Nat
    OBVIOUS
  <2>2. g[n] = To(n)
    BY <1>5
  <2>3. CASE n + 1 \in S
    <3>1. g[n + 1] = Append(To(n), s[n + 1])
      BY <1>2, <2>1, <2>2, <2>3
    <3>2. lo < n + 1 /\ n + 1 <= hi
      BY <2>1, <2>3
    <3>3. Append(SubSeq(s, lo + 1, n), s[n + 1]) = SubSeq(s, lo + 1, n + 1)
      BY <2>1, <3>2
    <3>4. To(n) = SubSeq(s, lo + 1, n) /\ To(n + 1) = SubSeq(s, lo + 1, n + 1)
      BY <2>1, <3>2
    <3>5. g[n + 1] = To(n + 1)
      BY <3>1, <3>3, <3>4
    <3> HIDE DEF To
    <3> QED
      BY <2>1, <3>5
  <2>4. CASE n + 1 \notin S
    <3>1. g[n + 1] = To(n)
      BY <1>2, <2>1, <2>2, <2>4
    <3>2. n + 1 <= lo \/ n >= hi
      BY <2>1, <2>4
    <3>3. To(n + 1) = To(n)
      <4>1. CASE n + 1 <= lo
        BY <2>1, <4>1
      <4>2. CASE n >= hi
        BY <2>1, <4>2
      <4> QED
        BY <3>2, <4>1, <4>2
    <3> QED
      BY <2>1, <3>1, <3>3
  <2> QED
    BY <2>3, <2>4
<1>6. \A n \in 0 .. N - 1 : n \in Good => n + 1 \in Good
  BY <1>5
<1>7. \A n \in 0 .. N : n \in Good
  <2> HIDE DEF Good, N
  <2> QED
    BY <1>3, <1>4, <1>6, UpToNumber
<1>8. g[N] = To(N)
  BY <1>3, <1>7
<1>9. To(N) = SubSeq(s, lo + 1, hi)
  OBVIOUS
<1> QED
  BY <1>2, <1>8, <1>9

\* A step of FlattenSeq puts one sequence after the others.
Joining(g, parts, N) == g = [i \in 1 .. N |-> IF i = 1 THEN parts[i] ELSE g[i - 1] \o parts[i]]

LEMMA FlattenInTurn ==
  ASSUME NEW T, NEW parts \in Seq(Seq(T)), NEW N \in Nat \ {0}, Len(parts) = N,
         NEW g, Joining(g, parts, N)
  PROVE  FlattenSeq(parts) = g[N]
<1> DEFINE Flat(built) == built = [i \in 1 .. Len(parts) |-> IF i = 1 THEN parts[i] ELSE built[i - 1] \o parts[i]]
<1>0. g = [i \in 1 .. N |-> IF i = 1 THEN parts[i] ELSE g[i - 1] \o parts[i]]
  BY DEF Joining
<1>1. Flat(g)
  BY <1>0
<1>2. PICK built : built = (CHOOSE any : Flat(any))
  OBVIOUS
<1>3. Flat(built)
  BY <1>1, <1>2
<1>4. FlattenSeq(parts) = built[N]
  BY <1>2 DEF FlattenSeq
<1> DEFINE Good == {n \in 0 .. N : n # 0 => built[n] = g[n]}
<1>5. 0 \in Good
  OBVIOUS
<1>6. ASSUME NEW n \in 0 .. N - 1, n \in Good PROVE n + 1 \in Good
  <2>1. n + 1 \in 1 .. N /\ n + 1 \in 0 .. N /\ (n + 1) - 1 = n
    OBVIOUS
  <2>2. built[n + 1] = IF n + 1 = 1 THEN parts[n + 1] ELSE built[n] \o parts[n + 1]
    BY <1>3, <2>1
  <2>3. g[n + 1] = IF n + 1 = 1 THEN parts[n + 1] ELSE g[n] \o parts[n + 1]
    BY <1>0, <2>1
  <2>4. n + 1 # 1 => built[n] = g[n]
    BY <1>6
  <2>5. built[n + 1] = g[n + 1]
    <3>1. CASE n + 1 = 1
      BY <2>2, <2>3, <3>1
    <3>2. CASE n + 1 # 1
      BY <2>2, <2>3, <2>4, <3>2
    <3> QED
      BY <3>1, <3>2
  <2> QED
    BY <2>1, <2>5
<1>7. \A n \in 0 .. N - 1 : n \in Good => n + 1 \in Good
  BY <1>6
<1>8. \A n \in 0 .. N : n \in Good
  <2> HIDE DEF Good
  <2> QED
    BY <1>5, <1>7, UpToNumber
<1>9. N \in Good
  <2> HIDE DEF Good
  <2> N \in 0 .. N
    OBVIOUS
  <2> QED
    BY <1>8
<1> QED
  BY <1>4, <1>9

\* Two stretches that follow each other are one.
LEMMA StretchesJoin ==
  ASSUME NEW T, NEW s \in Seq(T), NEW a \in 0 .. Len(s), NEW b \in 0 .. Len(s), a <= b
  PROVE  SubSeq(s, 1, a) \o SubSeq(s, a + 1, b) = SubSeq(s, 1, b)
<1> DEFINE l == SubSeq(s, 1, a)
<1> DEFINE r == SubSeq(s, a + 1, b)
<1> DEFINE all == SubSeq(s, 1, b)
<1>1. l \in Seq(T) /\ Len(l) = a /\ r \in Seq(T) /\ Len(r) = b - a /\ all \in Seq(T) /\ Len(all) = b
  OBVIOUS
<1>2. /\ \A i \in 1 .. a : l[i] = s[i]
      /\ \A i \in 1 .. b - a : r[i] = s[a + i]
      /\ \A i \in 1 .. b : all[i] = s[i]
  OBVIOUS
<1> HIDE DEF l, r, all
<1>3. l \o r \in Seq(T) /\ Len(l \o r) = b
  BY <1>1
<1>4. ASSUME NEW i \in 1 .. b PROVE (l \o r)[i] = all[i]
  <2>1. CASE i <= a
    <3>1. (l \o r)[i] = l[i]
      BY <1>1, <2>1
    <3> QED
      BY <1>2, <2>1, <3>1
  <2>2. CASE ~(i <= a)
    <3>1. (l \o r)[i] = r[i - a]
      BY <1>1, <2>2
    <3>2. i - a \in 1 .. b - a /\ a + (i - a) = i
      BY <2>2
    <3>3. r[i - a] = s[a + (i - a)]
      BY <1>2, <3>2
    <3> QED
      BY <1>2, <3>1, <3>2, <3>3
  <2> HIDE DEF l, r, all
  <2> QED
    BY <2>1, <2>2
<1>5. l \o r = all
  BY <1>1, <1>3, <1>4, SeqEqual
<1> QED
  BY <1>5 DEF l, r, all

\* Stretches that follow each other, put together.
LEMMA StretchesFlatten ==
  ASSUME NEW T, NEW s \in Seq(T), NEW N \in Nat \ {0}, NEW cut \in [0 .. N -> 0 .. Len(s)],
         cut[0] = 0, \A k \in 1 .. N : cut[k - 1] <= cut[k]
  PROVE  FlattenSeq([k \in 1 .. N |-> SubSeq(s, cut[k - 1] + 1, cut[k])]) = SubSeq(s, 1, cut[N])
<1> DEFINE parts == [k \in 1 .. N |-> SubSeq(s, cut[k - 1] + 1, cut[k])]
<1> DEFINE g == [k \in 1 .. N |-> SubSeq(s, 1, cut[k])]
<1>1. ASSUME NEW k \in 1 .. N
      PROVE  /\ k \in 0 .. N /\ k - 1 \in 0 .. N
             /\ cut[k] \in 0 .. Len(s) /\ cut[k - 1] \in 0 .. Len(s) /\ cut[k - 1] <= cut[k]
  OBVIOUS
<1>2. parts \in Seq(Seq(T)) /\ Len(parts) = N
  <2>1. ASSUME NEW k \in 1 .. N PROVE parts[k] \in Seq(T)
    <3>1. \A a, b \in 0 .. Len(s) : SubSeq(s, a + 1, b) \in Seq(T)
      OBVIOUS
    <3> QED
      BY <1>1, <3>1
  <2>2. parts = [k \in 1 .. N |-> parts[k]]
    OBVIOUS
  <2> HIDE DEF parts
  <2>3. parts \in [1 .. N -> Seq(T)]
    BY <2>1, <2>2
  <2> QED
    BY <2>3
<1>3. ASSUME NEW i \in 1 .. N PROVE g[i] = IF i = 1 THEN parts[i] ELSE g[i - 1] \o parts[i]
  <2>1. parts[i] = SubSeq(s, cut[i - 1] + 1, cut[i])
    OBVIOUS
  <2>2. SubSeq(s, 1, cut[i - 1]) \o SubSeq(s, cut[i - 1] + 1, cut[i]) = SubSeq(s, 1, cut[i])
    BY <1>1, StretchesJoin
  <2>3. ASSUME i = 1 PROVE g[i] = parts[i]
    <3>1. cut[i - 1] + 1 = 1
      BY <2>3
    <3>2. g[i] = SubSeq(s, 1, cut[i])
      OBVIOUS
    <3> HIDE DEF g, parts
    <3> QED
      BY <2>1, <3>1, <3>2
  <2>4. ASSUME i # 1 PROVE g[i] = g[i - 1] \o parts[i]
    <3>1. i - 1 \in 1 .. N
      BY <2>4
    <3>2. g[i - 1] = SubSeq(s, 1, cut[i - 1])
      BY <3>1
    <3> QED
      BY <2>1, <2>2, <2>4, <3>2
  <2> HIDE DEF g, parts
  <2> QED
    BY <2>3, <2>4
<1>4. g = [i \in 1 .. N |-> g[i]]
  OBVIOUS
<1>5. g[N] = SubSeq(s, 1, cut[N])
  OBVIOUS
<1> HIDE DEF parts, g
<1>6. Joining(g, parts, N)
  <2> DEFINE h == [i \in 1 .. N |-> IF i = 1 THEN parts[i] ELSE g[i - 1] \o parts[i]]
  <2>1. \A i \in 1 .. N : h[i] = g[i]
    BY <1>3
  <2>2. h = [i \in 1 .. N |-> h[i]]
    OBVIOUS
  <2> HIDE DEF h
  <2>3. g = h
    BY <1>4, <2>1, <2>2
  <2> QED
    BY <2>3 DEF h, Joining
<1>7. FlattenSeq(parts) = g[N]
  BY <1>2, <1>6, FlattenInTurn
<1> QED
  BY <1>5, <1>7 DEF parts

-----------------------------------------------------------------------------
(* The reports of satellites and positions. *)

\* The parts of a report of L satellites, R of them to a sentence.
LEMMA Parted ==
  ASSUME NEW L \in Nat \ {0}, NEW R \in Nat \ {0}, R = GsvRoom
  PROVE  /\ SentenceCount(L) \in Nat \ {0}
         /\ \A k \in 1 .. SentenceCount(L) : (k - 1) * R < L
         /\ L <= SentenceCount(L) * R
<1> DEFINE q == L \div R
<1> DEFINE r == L % R
<1> DEFINE n == SentenceCount(L)
<1>1. q \in Nat /\ r \in Nat /\ r < R /\ L = R * q + r
  OBVIOUS
<1>2. n = q + (IF r # 0 THEN 1 ELSE 0)
  BY DEF SentenceCount
<1> HIDE DEF q, r, n
<1>3. \A a, b \in Nat : a <= b => a * R <= b * R
  OBVIOUS
<1>4. R * q = q * R /\ q * R \in Nat /\ (q + 1) * R = q * R + R
  BY <1>1
<1>5. n \in Nat /\ n # 0
  <2>1. q = 0 => R * q = 0
    BY <1>1
  <2> QED
    BY <1>1, <1>2, <2>1
<1>6. L <= n * R
  BY <1>1, <1>2, <1>4
<1>7. (n - 1) * R < L
  <2>1. CASE r # 0
    <3>1. n - 1 = q
      BY <1>1, <1>2, <2>1
    <3> QED
      BY <1>1, <1>4, <2>1, <3>1
  <2>2. CASE r = 0
    <3>1. n - 1 = q - 1
      BY <1>1, <1>2, <2>2
    <3>2. (q - 1) * R = q * R - R
      BY <1>1
    <3> QED
      BY <1>1, <1>4, <2>2, <3>1, <3>2
  <2> QED
    BY <2>1, <2>2
<1>8. ASSUME NEW k \in 1 .. n PROVE (k - 1) * R < L
  <2>1. k - 1 \in Nat /\ n - 1 \in Nat /\ k - 1 <= n - 1
    BY <1>5
  <2>2. (k - 1) * R <= (n - 1) * R
    BY <1>3, <2>1
  <2>3. (k - 1) * R \in Nat /\ (n - 1) * R \in Nat
    BY <2>1
  <2> QED
    BY <1>7, <2>2, <2>3
<1> QED
  BY <1>5, <1>6, <1>8 DEF n

Satellites == [of : Constellations, svid : Nat, used : BOOLEAN]
GsvSentences(c) ==
  [type : {"GSV"}, of : {c}, sentences : Nat, number : Nat, total : Nat, svs : Seq(Satellites)]

\* What EverySatelliteInView says of the GSV sentences r of one constellation.
Shown(r, view, c) ==
  r # <<>> =>
    /\ FlattenSeq([k \in 1 .. Len(r) |-> r[k].svs]) = InView(view, c)
    /\ \A k \in 1 .. Len(r) :
         /\ r[k].sentences = Len(r) /\ r[k].number = k /\ r[k].total = Len(InView(view, c))
         /\ Len(r[k].svs) <= GsvRoom

\* The GSV sentences of one constellation show its satellites.
LEMMA GsvShows ==
  ASSUME NEW view \in Seq(Satellites), NEW c \in Masked
  PROVE  Gsv(view, c) \in Seq(GsvSentences(c)) /\ Shown(Gsv(view, c), view, c)
<1> DEFINE svs == InView(view, c)
<1> DEFINE L == Len(svs)
<1> DEFINE n == SentenceCount(L)
<1> DEFINE cut == [k \in 0 .. n |-> IF k * GsvRoom < L THEN k * GsvRoom ELSE L]
<1> DEFINE Sentence(of, k, total, part) ==
             [type |-> "GSV", of |-> c, sentences |-> of, number |-> k, total |-> total, svs |-> part]
<1> DEFINE r == Gsv(view, c)
<1>1. svs \in Seq(Satellites)
  BY PickedFrom DEF InView
<1>2. L \in Nat
  BY <1>1
<1>3. GsvRoom \in Nat \ {0}
  BY ReportsAssumption
<1>4. CASE svs = <<>>
  <2>1. r = <<Sentence(1, 1, 0, <<>>)>>
    BY <1>4 DEF Gsv
  <2>2. r \in Seq(GsvSentences(c)) /\ Len(r) = 1 /\ r[1] = Sentence(1, 1, 0, <<>>)
    BY <2>1 DEF GsvSentences
  <2> DEFINE flat == [k \in 1 .. 1 |-> <<>>]
  <2>3. FlattenSeq([k \in 1 .. Len(r) |-> r[k].svs]) = <<>>
    <3>1. [k \in 1 .. Len(r) |-> r[k].svs] = flat
      BY <2>2
    <3>2. flat \in Seq(Seq(Satellites)) /\ Len(flat) = 1
      OBVIOUS
    <3>3. Joining(flat, flat, 1)
      BY DEF Joining
    <3>4. flat[1] = <<>>
      OBVIOUS
    <3> HIDE DEF flat
    <3>5. FlattenSeq(flat) = flat[1]
      <4>1. PICK one \in Nat \ {0} : one = 1
        OBVIOUS
      <4>2. Len(flat) = one /\ Joining(flat, flat, one)
        BY <3>2, <3>3, <4>1
      <4>3. FlattenSeq(flat) = flat[one]
        BY <3>2, <4>2, FlattenInTurn
      <4> QED
        BY <4>1, <4>3
    <3> QED
      BY <3>1, <3>4, <3>5
  <2>4. Len(<<>>) = 0
    OBVIOUS
  <2> HIDE DEF r, svs
  <2>5. \A k \in 1 .. Len(r) :
           /\ r[k].sentences = Len(r) /\ r[k].number = k /\ r[k].total = Len(svs)
           /\ Len(r[k].svs) <= GsvRoom
    BY <1>3, <1>4, <2>2, <2>4
  <2> QED
    BY <1>4, <2>2, <2>3, <2>5 DEF Shown, r, svs
<1>5. CASE svs # <<>>
  <2> DEFINE Part(k) == SubSeq(svs, (k - 1) * GsvRoom + 1, IF k * GsvRoom < L THEN k * GsvRoom ELSE L)
  <2>1. r = [k \in 1 .. n |-> Sentence(n, k, L, Part(k))]
    BY <1>5 DEF Gsv
  <2>2. L \in Nat \ {0}
    BY <1>1, <1>5
  <2> HIDE DEF svs, r, L
  <2>3. /\ n \in Nat \ {0}
        /\ \A k \in 1 .. n : (k - 1) * GsvRoom < L
        /\ L <= n * GsvRoom
    BY <1>3, <2>2, Parted
  <2> HIDE DEF n
  <2>4. \A k \in 0 .. n : k * GsvRoom \in Nat
    BY <1>3, <2>3
  <2>5. cut \in [0 .. n -> 0 .. L] /\ cut[0] = 0 /\ cut[n] = L
    <3>1. 0 * GsvRoom = 0 /\ 0 \in 0 .. n /\ n \in 0 .. n
      BY <1>3, <2>3
    <3> QED
      BY <2>2, <2>3, <2>4, <3>1
  <2>6. ASSUME NEW k \in 1 .. n
        PROVE  /\ cut[k - 1] = (k - 1) * GsvRoom
               /\ cut[k] = IF k * GsvRoom < L THEN k * GsvRoom ELSE L
               /\ k * GsvRoom = (k - 1) * GsvRoom + GsvRoom
               /\ (k - 1) * GsvRoom \in Nat /\ k * GsvRoom \in Nat
    <3>1. k \in 0 .. n /\ k - 1 \in 0 .. n
      BY <2>3
    <3>2. (k - 1) * GsvRoom < L
      BY <2>3
    <3>3. k * GsvRoom = (k - 1) * GsvRoom + GsvRoom
      BY <1>3
    <3> QED
      BY <2>4, <3>1, <3>2, <3>3
  <2>7. \A k \in 1 .. n : cut[k - 1] <= cut[k] /\ cut[k] - cut[k - 1] <= GsvRoom
    <3> SUFFICES ASSUME NEW k \in 1 .. n PROVE cut[k - 1] <= cut[k] /\ cut[k] - cut[k - 1] <= GsvRoom
      OBVIOUS
    <3>1. (k - 1) * GsvRoom < L
      BY <2>3
    <3> DEFINE a == (k - 1) * GsvRoom
    <3> DEFINE b == k * GsvRoom
    <3>2. a < L /\ b = a + GsvRoom /\ a \in Nat /\ b \in Nat /\ cut[k - 1] = a /\ cut[k] = IF b < L THEN b ELSE L
      BY <2>6, <3>1
    <3> HIDE DEF a, b, cut
    <3> QED
      BY <1>3, <2>2, <3>2
  <2>8. \A k \in 1 .. n : Part(k) = SubSeq(svs, cut[k - 1] + 1, cut[k])
    BY <2>6
  <2> DEFINE parts == [k \in 1 .. n |-> SubSeq(svs, cut[k - 1] + 1, cut[k])]
  <2> HIDE DEF cut, Part
  <2>9. ASSUME NEW k \in 1 .. n
        PROVE  /\ Part(k) = parts[k] /\ Part(k) \in Seq(Satellites) /\ Len(Part(k)) <= GsvRoom
    <3>1. cut[k - 1] \in 0 .. L /\ cut[k] \in 0 .. L /\ cut[k - 1] <= cut[k] /\ cut[k] - cut[k - 1] <= GsvRoom
      <4> k - 1 \in 0 .. n /\ k \in 0 .. n
        BY <2>3
      <4> QED
        BY <2>5, <2>7
    <3>2. \A a, b \in 0 .. L : a <= b => SubSeq(svs, a + 1, b) \in Seq(Satellites) /\ Len(SubSeq(svs, a + 1, b)) = b - a
      BY <1>1 DEF L
    <3>3. Part(k) = SubSeq(svs, cut[k - 1] + 1, cut[k])
      BY <2>8
    <3>4. Part(k) \in Seq(Satellites) /\ Len(Part(k)) = cut[k] - cut[k - 1]
      BY <3>1, <3>2, <3>3
    <3> QED
      BY <3>1, <3>3, <3>4
  <2>10. FlattenSeq(parts) = svs
    <3>1. \A k \in 1 .. n : cut[k - 1] <= cut[k]
      BY <2>7
    <3>2. FlattenSeq(parts) = SubSeq(svs, 1, cut[n])
      BY <1>1, <2>3, <2>5, <3>1, StretchesFlatten DEF L
    <3>3. SubSeq(svs, 1, L) = svs
      BY <1>1 DEF L
    <3> HIDE DEF parts
    <3> QED
      BY <2>5, <3>2, <3>3
  <2> HIDE DEF parts
  <2>11. ASSUME NEW k \in 1 .. n
         PROVE  /\ r[k] = Sentence(n, k, L, parts[k]) /\ r[k] \in GsvSentences(c)
                /\ r[k].svs = parts[k] /\ Len(parts[k]) <= GsvRoom
    <3>1. r[k] = Sentence(n, k, L, parts[k])
      BY <2>1, <2>9
    <3> QED
      BY <2>2, <2>3, <2>9, <3>1 DEF GsvSentences
  <2>12. r \in Seq(GsvSentences(c)) /\ Len(r) = n
    <3>1. r = [k \in 1 .. n |-> r[k]]
      BY <2>1
    <3>2. r \in [1 .. n -> GsvSentences(c)]
      BY <2>11, <3>1
    <3> QED
      BY <2>3, <3>2
  <2>13. [k \in 1 .. Len(r) |-> r[k].svs] = parts
    <3>1. parts = [k \in 1 .. n |-> parts[k]]
      BY DEF parts
    <3> QED
      BY <2>11, <2>12, <3>1
  <2>14. \A k \in 1 .. Len(r) :
           /\ r[k].sentences = Len(r) /\ r[k].number = k /\ r[k].total = L
           /\ Len(r[k].svs) <= GsvRoom
    BY <2>11, <2>12
  <2> QED
    BY <2>10, <2>12, <2>13, <2>14 DEF Shown, r, svs, L
<1> QED
  BY <1>4, <1>5

\* The sentences of either constellation are found among those of both.
LEMMA GsvFound ==
  ASSUME NEW view \in Seq(Satellites), NEW c \in Masked,
         NEW s, s = Gsv(view, "GPS") \o Gsv(view, "GLONASS")
  PROVE  Picked(s, {k \in DOMAIN s : s[k].type = "GSV" /\ s[k].of = c}) = Gsv(view, c)
<1> DEFINE a == Gsv(view, "GPS")
<1> DEFINE b == Gsv(view, "GLONASS")
<1> DEFINE T == GsvSentences("GPS") \cup GsvSentences("GLONASS")
<1> DEFINE S == {k \in DOMAIN s : s[k].type = "GSV" /\ s[k].of = c}
<1>1. a \in Seq(GsvSentences("GPS")) /\ b \in Seq(GsvSentences("GLONASS"))
  BY GsvShows DEF Masked
<1>2. s = a \o b
  OBVIOUS
<1> HIDE DEF a, b
<1>3. a \in Seq(T) /\ b \in Seq(T)
  <2>1. GsvSentences("GPS") \subseteq T /\ GsvSentences("GLONASS") \subseteq T
    OBVIOUS
  <2> HIDE DEF T
  <2> QED
    BY <1>1, <2>1
<1>4. /\ Len(a) \in Nat /\ Len(b) \in Nat /\ s \in Seq(T) /\ Len(s) = Len(a) + Len(b) /\ DOMAIN s = 1 .. Len(a) + Len(b)
      /\ \A i \in 1 .. Len(a) : s[i] = a[i]
      /\ \A i \in 1 .. Len(s) : ~(i <= Len(a)) => s[i] = b[i - Len(a)] /\ i - Len(a) \in 1 .. Len(b)
  <2> HIDE DEF T
  <2>1. Len(a) \in Nat /\ Len(b) \in Nat
    BY <1>3
  <2>2. s \in Seq(T) /\ Len(s) = Len(a) + Len(b)
    <3>1. a \o b \in Seq(T) /\ Len(a \o b) = Len(a) + Len(b)
      BY <1>3, ConcatProperties
    <3> QED
      BY <1>2, <3>1
  <2>3. \A i \in 1 .. Len(a) + Len(b) : s[i] = IF i <= Len(a) THEN a[i] ELSE b[i - Len(a)]
    BY <1>2, <1>3, ConcatProperties
  <2>4. \A i \in 1 .. Len(a) : i \in 1 .. Len(a) + Len(b) /\ i <= Len(a)
    BY <2>1
  <2>5. \A i \in 1 .. Len(s) : ~(i <= Len(a)) => i - Len(a) \in 1 .. Len(b)
    BY <2>1, <2>2
  <2>6. DOMAIN s = 1 .. Len(s)
    BY <2>2
  <2> QED
    BY <2>1, <2>2, <2>3, <2>4, <2>5, <2>6
<1>5. /\ \A i \in 1 .. Len(a) : s[i].type = "GSV" /\ s[i].of = "GPS"
      /\ \A i \in 1 .. Len(s) : ~(i <= Len(a)) => s[i].type = "GSV" /\ s[i].of = "GLONASS"
  <2>1. /\ \A i \in 1 .. Len(a) : a[i] \in GsvSentences("GPS")
        /\ \A i \in 1 .. Len(b) : b[i] \in GsvSentences("GLONASS")
    BY <1>1
  <2>2. /\ \A e \in GsvSentences("GPS") : e.type = "GSV" /\ e.of = "GPS"
        /\ \A e \in GsvSentences("GLONASS") : e.type = "GSV" /\ e.of = "GLONASS"
    BY DEF GsvSentences
  <2> QED
    BY <1>4, <2>1, <2>2
<1> HIDE DEF T
<1>6. CASE c = "GPS"
  <2>1. \A n \in 1 .. Len(s) : n \in S <=> 0 < n /\ n <= Len(a)
    BY <1>4, <1>5, <1>6
  <2> HIDE DEF S
  <2>2. Picked(s, S) = SubSeq(s, 1, Len(a))
    <3>1. PICK lo \in Nat : lo = 0
      OBVIOUS
    <3>2. IsStretch(S, s, lo, Len(a))
      BY <1>4, <2>1, <3>1 DEF IsStretch
    <3>3. Picked(s, S) = SubSeq(s, lo + 1, Len(a))
      BY <1>4, <3>2, PickedStretch
    <3>4. lo + 1 = 1
      BY <3>1
    <3> QED
      BY <3>3, <3>4
  <2>3. SubSeq(a \o b, 1, Len(a)) = a
    <3>1. SubSeq(s, 1, Len(a)) \in Seq(T) /\ Len(SubSeq(s, 1, Len(a))) = Len(a)
      BY <1>4
    <3>2. \A i \in 1 .. Len(a) : SubSeq(s, 1, Len(a))[i] = a[i]
      BY <1>4
    <3> QED
      BY <1>2, <1>3, <3>1, <3>2, SeqEqual
  <2>4. Picked(s, S) = a
    BY <1>2, <2>2, <2>3
  <2> QED
    BY <1>6, <2>4 DEF S, a
<1>7. CASE c = "GLONASS"
  <2>1. \A n \in 1 .. Len(s) : n \in S <=> Len(a) < n /\ n <= Len(s)
    BY <1>4, <1>5, <1>7
  <2> HIDE DEF S
  <2>2. Picked(s, S) = SubSeq(s, Len(a) + 1, Len(s))
    <3>1. Len(s) \in Nat /\ IsStretch(S, s, Len(a), Len(s))
      BY <1>4, <2>1 DEF IsStretch
    <3> QED
      BY <1>4, <3>1, PickedStretch
  <2>3. SubSeq(s, Len(a) + 1, Len(s)) = b
    <3>1. SubSeq(s, Len(a) + 1, Len(s)) \in Seq(T) /\ Len(SubSeq(s, Len(a) + 1, Len(s))) = Len(b)
      BY <1>4
    <3>2. ASSUME NEW i \in 1 .. Len(b) PROVE SubSeq(s, Len(a) + 1, Len(s))[i] = b[i]
      <4>1. SubSeq(s, Len(a) + 1, Len(s))[i] = s[Len(a) + i]
        BY <1>4
      <4>2. Len(a) + i \in 1 .. Len(s) /\ ~(Len(a) + i <= Len(a)) /\ (Len(a) + i) - Len(a) = i
        BY <1>4
      <4> QED
        BY <1>4, <4>1, <4>2
    <3> QED
      BY <1>3, <3>1, <3>2, SeqEqual
  <2> QED
    BY <1>7, <2>2, <2>3 DEF S, b
<1> QED
  BY <1>6, <1>7 DEF Masked

\* Satellites with numbers that fit.
Sats(view) ==
  /\ view \in Seq(Satellites)
  /\ \A i \in 1 .. Len(view) : view[i].of \in Masked => view[i].svid \in 1 .. IntWidth

\* Types, with the bounds that UsedOnce asks for.
ReportsTypes ==
  /\ muted \in BOOLEAN /\ inSession \in BOOLEAN /\ standalone \in BOOLEAN
  /\ usedIds \in UsedLists \cup {NoneUsed} /\ usedAvail \in BOOLEAN
  /\ usedMask \in [Masked -> SUBSET (1 .. IntWidth)]
  /\ dop \in BOOLEAN
  /\ named \in [Masked -> [1 .. IntWidth -> 0 .. 1]] /\ dopped \in 0 .. 1

\* What the masks say, the framework has been told.
MaskFits == \A c \in Masked : usedMask[c] \subseteq UsedIn(told, c)

\* What is in the masks has not been named yet, and a DOP in the cache was not used.
NotYetNamed == \A c \in Masked : \A i \in usedMask[c] : named[c][i] = 0
NotYetUsed  == dop => dopped = 0

\* Without sentences there are no masks.
NothingToSay == ~GenerateNmea => usedMask = Unmarked

\* A GSA names satellites that the framework was told were used.
NamesUsed == \A k \in Gsas : \A i \in Range(sent[k].svs) : i \in UsedIn(told, sent[k].of)

\* The inductive invariant.
ReportsIInv ==
  /\ ReportsTypes /\ MaskFits /\ NotYetNamed /\ NotYetUsed /\ NothingToSay
  /\ FlagsMatchTheFix /\ NamesUsed /\ EverySatelliteInView

\* What the modem reports has satellites that the masks have room for.
LEMMA ViewsAreSats ==
  ASSUME NEW view \in Views PROVE Sats(view)
<1>1. view \in Seq(Satellites) /\ \A i \in DOMAIN view : view[i].of \in Masked => view[i].svid \in 1 .. IntWidth
  BY SatellitesAssumption DEF Satellites
<1>2. DOMAIN view = 1 .. Len(view)
  BY <1>1
<1> QED
  BY <1>1, <1>2 DEF Sats

\* So have the lists of used ones.
LEMMA IdsFit ==
  ASSUME NEW ids \in UsedLists \cup {NoneUsed}, NEW c \in Constellations
  PROVE  ids[c] \subseteq Nat /\ (c \in Masked => ids[c] \subseteq 1 .. IntWidth)
BY SatellitesAssumption DEF NoneUsed

\* The same in other words.
LEMMA ShownIsInView ==
  EverySatelliteInView <=> \A c \in Masked : Shown(Gsvs(c), told, c)
BY DEF EverySatelliteInView, Shown

\* Without GSV sentences there is nothing to show.
LEMMA NothingShown ==
  ASSUME NEW s, Len(s) \in Nat, \A k \in DOMAIN s : s[k].type # "GSV", NEW T, s \in Seq(T), NEW c \in Masked
  PROVE  Picked(s, {k \in DOMAIN s : s[k].type = "GSV" /\ s[k].of = c}) = <<>>
<1>1. {k \in DOMAIN s : s[k].type = "GSV" /\ s[k].of = c} = {}
  OBVIOUS
<1>2. Picked(s, {}) \in Seq(T) /\ \A j \in DOMAIN Picked(s, {}) : \E i \in DOMAIN s : i \in {} /\ Picked(s, {})[j] = s[i]
  BY PickedFrom
<1>3. \A j : j \notin DOMAIN Picked(s, {})
  BY <1>2
<1>4. Picked(s, {}) = <<>>
  <2> DEFINE r == Picked(s, {})
  <2>1. r \in Seq(T) /\ \A j : j \notin DOMAIN r
    BY <1>2, <1>3
  <2> HIDE DEF r
  <2>2. Len(r) = 0
    <3>1. Len(r) \in Nat /\ DOMAIN r = 1 .. Len(r)
      BY <2>1
    <3>2. 1 \notin 1 .. Len(r)
      BY <2>1, <3>1
    <3> QED
      BY <3>1, <3>2
  <2>3. r = <<>>
    BY <2>1, <2>2
  <2> QED
    BY <2>3 DEF r
<1> QED
  BY <1>1, <1>4

\* Before the first report.
LEMMA InitReports == ReportsInit => ReportsIInv
<1> SUFFICES ASSUME ReportsInit PROVE ReportsIInv
  OBVIOUS
<1>1. ReportsTypes
  <2>1. usedMask \in [Masked -> SUBSET (1 .. IntWidth)]
    BY DEF ReportsInit, Unmarked
  <2>2. named \in [Masked -> [1 .. IntWidth -> 0 .. 1]]
    <3>1. [i \in 1 .. IntWidth |-> 0] \in [1 .. IntWidth -> 0 .. 1]
      OBVIOUS
    <3> QED
      BY <3>1 DEF ReportsInit
  <2>3. dopped = 0 /\ dopped \in 0 .. 1
    BY DEF ReportsInit
  <2> QED
    BY <2>1, <2>2, <2>3 DEF ReportsInit, ReportsTypes
<1>2. sent = <<>> /\ told = <<>> /\ usedMask = Unmarked /\ dopped = 0
  BY DEF ReportsInit
<1>3. MaskFits /\ NotYetNamed
  BY <1>2 DEF MaskFits, NotYetNamed, Unmarked
<1>4. FlagsMatchTheFix /\ NamesUsed
  BY <1>2 DEF FlagsMatchTheFix, NamesUsed, Gsas
<1>5. EverySatelliteInView
  <2>1. sent \in Seq({}) /\ Len(sent) \in Nat /\ \A k \in DOMAIN sent : sent[k].type # "GSV"
    BY <1>2
  <2>2. ASSUME NEW c \in Masked PROVE Gsvs(c) = <<>>
    BY <2>1, NothingShown DEF Gsvs
  <2>3. \A c \in Masked : Shown(Gsvs(c), told, c)
    BY <2>2 DEF Shown
  <2> QED
    BY <2>3, ShownIsInView
<1> QED
  BY <1>1, <1>2, <1>3, <1>4, <1>5 DEF ReportsIInv, NotYetUsed, NothingToSay

\* A bit of an int stands for its satellite only, among those that an int has room for.
LEMMA BitOfSatellite ==
  ASSUME NEW svid \in 1 .. IntWidth, NEW bit \in Shifted(svid), NEW ids \in SUBSET (1 .. IntWidth)
  PROVE  bit \cap ids # {} <=> svid \in ids
<1> IntWidth \in Nat /\ svid \in Int
  BY ReportsAssumption
<1>1. CASE svid < IntWidth
  <2>1. bit = {svid}
    BY <1>1 DEF Shifted
  <2> QED
    BY <2>1
<1>2. CASE svid = IntWidth
  <2>1. bit = IntWidth .. MaskWidth
    BY <1>2 DEF Shifted
  <2>2. \A i \in ids : i \in bit <=> i = svid
    BY <1>2, <2>1, ReportsAssumption
  <2> QED
    BY <2>2
<1> QED
  BY <1>1, <1>2

\* What the framework is told is the view, but for the marks.
LEMMA ToldIsTheView ==
  ASSUME NEW view, Sats(view), NEW marks \in [1 .. Len(view) -> BOOLEAN], NEW t, t = Marked(view, marks)
  PROVE  /\ Sats(t) /\ Len(t) = Len(view) /\ DOMAIN t = 1 .. Len(view)
         /\ \A i \in 1 .. Len(view) : t[i].of = view[i].of /\ t[i].svid = view[i].svid /\ t[i].used = marks[i]
<1>1. view \in Seq(Satellites) /\ \A i \in 1 .. Len(view) : view[i].of \in Masked => view[i].svid \in 1 .. IntWidth
  BY DEF Sats
<1>2. Len(view) \in Nat /\ \A i \in 1 .. Len(view) : view[i] \in Satellites
  BY <1>1
<1>3. ASSUME NEW sv \in Satellites, NEW m \in BOOLEAN
      PROVE  /\ [sv EXCEPT !.used = m] \in Satellites /\ [sv EXCEPT !.used = m].of = sv.of
             /\ [sv EXCEPT !.used = m].svid = sv.svid /\ [sv EXCEPT !.used = m].used = m
  BY DEF Satellites
<1>4. t = [i \in 1 .. Len(view) |-> [view[i] EXCEPT !.used = marks[i]]]
  BY DEF Marked
<1>5. ASSUME NEW i \in 1 .. Len(view)
      PROVE  t[i] \in Satellites /\ t[i].of = view[i].of /\ t[i].svid = view[i].svid /\ t[i].used = marks[i]
  <2>1. t[i] = [view[i] EXCEPT !.used = marks[i]] /\ view[i] \in Satellites /\ marks[i] \in BOOLEAN
    BY <1>2, <1>4
  <2> QED
    BY <1>3, <2>1
<1>6. t \in [1 .. Len(view) -> Satellites]
  <2>1. t = [i \in 1 .. Len(view) |-> t[i]]
    BY <1>4
  <2> QED
    BY <1>5, <2>1
<1>7. t \in Seq(Satellites) /\ Len(t) = Len(view) /\ DOMAIN t = 1 .. Len(view)
  BY <1>2, <1>6
<1>8. Sats(t)
  BY <1>1, <1>5, <1>7 DEF Sats
<1> QED
  BY <1>5, <1>7, <1>8

\* A report of satellites.
LEMMA SvKeeps ==
  ASSUME ReportsIInv, NEW view \in Views, NEW hasDop \in BOOLEAN, ReportSv(view, hasDop)
  PROVE  ReportsIInv'
<1>1. Sats(view)
  BY ViewsAreSats
<1>2. PICK marks \in IF usedAvail THEN Marks(view) ELSE {[i \in 1 .. Len(view) |-> view[i].used]} :
        /\ told' = Marked(view, marks)
        /\ IF GenerateNmea THEN GenerateSv(told', hasDop) ELSE sent' = <<>> /\ UNCHANGED <<usedMask, dop>>
  BY DEF ReportSv
<1>3. /\ fix' = IF usedAvail THEN usedIds ELSE NoneUsed
      /\ named' = [c \in Masked |-> [i \in 1 .. IntWidth |-> 0]] /\ dopped' = 0
      /\ UNCHANGED <<muted, inSession, standalone, usedIds, usedAvail>>
  BY DEF ReportSv
<1>4. marks \in [1 .. Len(view) -> BOOLEAN]
  <2>1. CASE usedAvail
    BY <1>2, <2>1 DEF Marks
  <2>2. CASE ~usedAvail
    <3>1. \A i \in 1 .. Len(view) : view[i].used \in BOOLEAN
      <4> \A i \in 1 .. Len(view) : view[i] \in Satellites
        BY <1>1 DEF Sats
      <4> QED
        BY DEF Satellites
    <3> QED
      BY <1>2, <2>2, <3>1
  <2> QED
    BY <2>1, <2>2
<1>5. PICK t : t = told'
  OBVIOUS
<1>6. /\ Sats(t) /\ Len(t) = Len(view) /\ DOMAIN t = 1 .. Len(view)
      /\ \A i \in 1 .. Len(view) : t[i].of = view[i].of /\ t[i].svid = view[i].svid /\ t[i].used = marks[i]
  BY <1>1, <1>2, <1>4, <1>5, ToldIsTheView
<1>7. t \in Seq(Satellites) /\ \A i \in 1 .. Len(t) : t[i].of \in Masked => t[i].svid \in 1 .. IntWidth
  BY <1>6 DEF Sats
<1>8. ASSUME NEW c \in Masked PROVE UsedIn(t, c) \subseteq 1 .. IntWidth
  BY <1>7 DEF UsedIn
<1> DEFINE Kept ==
      /\ EverySatelliteInView' /\ NamesUsed' /\ MaskFits' /\ NothingToSay'
      /\ usedMask' \in [Masked -> SUBSET (1 .. IntWidth)] /\ dop' \in BOOLEAN
<1>9. ASSUME GenerateNmea PROVE Kept
  <2>1. /\ sent' = Gsv(t, "GPS") \o Gsv(t, "GLONASS")
        /\ usedMask' = [c \in Masked |-> UsedIn(t, c)]
        /\ dop' = hasDop
    BY <1>2, <1>5, <1>9 DEF GenerateSv
  <2>2. PICK s : s = sent'
    OBVIOUS
  <2>3. \A c \in Masked : Gsvs(c)' = Gsv(t, c)
    <3> SUFFICES ASSUME NEW c \in Masked PROVE Gsvs(c)' = Gsv(t, c)
      OBVIOUS
    <3>1. Picked(s, {k \in DOMAIN s : s[k].type = "GSV" /\ s[k].of = c}) = Gsv(t, c)
      BY <1>7, <2>1, <2>2, GsvFound
    <3>2. Gsvs(c)' = Picked(s, {k \in DOMAIN s : s[k].type = "GSV" /\ s[k].of = c})
      BY <2>2 DEF Gsvs
    <3> QED
      BY <3>1, <3>2
  <2>4. \A c \in Masked : Shown(Gsvs(c)', t, c)
    BY <1>7, <2>3, GsvShows
  <2>5. EverySatelliteInView'
    BY <1>5, <2>4 DEF EverySatelliteInView, Shown
  <2>6. \A k \in 1 .. Len(s) : s[k].type # "GSA"
    <3>1. Gsv(t, "GPS") \in Seq(GsvSentences("GPS")) /\ Gsv(t, "GLONASS") \in Seq(GsvSentences("GLONASS"))
      BY <1>7, GsvShows DEF Masked
    <3> DEFINE T == {e \in GsvSentences("GPS") \cup GsvSentences("GLONASS") : TRUE}
    <3>2. GsvSentences("GPS") \subseteq T /\ GsvSentences("GLONASS") \subseteq T
      OBVIOUS
    <3>3. \A e \in T : e.type # "GSA"
      BY DEF GsvSentences
    <3> HIDE DEF T
    <3>4. Gsv(t, "GPS") \in Seq(T) /\ Gsv(t, "GLONASS") \in Seq(T)
      BY <3>1, <3>2
    <3>5. s \in Seq(T)
      BY <2>1, <2>2, <3>4, ConcatProperties
    <3>6. \A k \in 1 .. Len(s) : s[k] \in T
      BY <3>5
    <3> QED
      BY <3>3, <3>6
  <2>7. NamesUsed'
    BY <2>2, <2>6 DEF NamesUsed, Gsas
  <2>8. MaskFits'
    BY <1>5, <2>1 DEF MaskFits
  <2>9. usedMask' \in [Masked -> SUBSET (1 .. IntWidth)] /\ dop' \in BOOLEAN
    BY <1>8, <2>1
  <2>10. NothingToSay'
    BY <1>9 DEF NothingToSay
  <2> QED
    BY <2>5, <2>7, <2>8, <2>9, <2>10
<1>10. ASSUME ~GenerateNmea PROVE Kept
  <2>1. sent' = <<>> /\ usedMask' = usedMask /\ dop' = dop
    BY <1>2, <1>10
  <2>2. usedMask = Unmarked
    BY <1>10 DEF ReportsIInv, NothingToSay
  <2>3. EverySatelliteInView'
    <3>1. sent' \in Seq({}) /\ Len(sent') \in Nat /\ \A k \in DOMAIN sent' : sent'[k].type # "GSV"
      BY <2>1
    <3>2. ASSUME NEW c \in Masked PROVE Gsvs(c)' = <<>>
      BY <3>1, NothingShown DEF Gsvs
    <3> QED
      BY <3>2 DEF EverySatelliteInView
  <2>4. NamesUsed'
    BY <2>1 DEF NamesUsed, Gsas
  <2>5. MaskFits'
    BY <2>1, <2>2 DEF MaskFits, Unmarked
  <2>6. usedMask' \in [Masked -> SUBSET (1 .. IntWidth)] /\ dop' \in BOOLEAN
    BY <2>1 DEF ReportsIInv, ReportsTypes
  <2>7. NothingToSay'
    BY <2>1, <2>2 DEF NothingToSay
  <2> QED
    BY <2>3, <2>4, <2>5, <2>6, <2>7
<1>11. Kept
  BY <1>9, <1>10
<1>12. FlagsMatchTheFix'
  <2> SUFFICES ASSUME NEW i \in 1 .. Len(t), fix' # NoneUsed, t[i].of \in Masked
               PROVE  t[i].used <=> t[i].svid \in (fix')[t[i].of]
    BY <1>5 DEF FlagsMatchTheFix
  <2>1. usedAvail /\ fix' = usedIds
    BY <1>3
  <2>2. i \in 1 .. Len(view)
    BY <1>6
  <2>3. marks \in Marks(view)
    BY <1>2, <2>1
  <2>4. PICK bit \in Shifted(view[i].svid) : marks[i] <=> bit \cap usedIds[view[i].of] # {}
    BY <2>2, <2>3 DEF Marks
  <2>5. t[i].of = view[i].of /\ t[i].svid = view[i].svid /\ t[i].used = marks[i]
    BY <1>6, <2>2
  <2>6. view[i].svid \in 1 .. IntWidth /\ view[i].of \in Constellations /\ view[i].of \in Masked
    BY <1>7, <2>5 DEF Masked, Constellations
  <2>7. usedIds[view[i].of] \subseteq 1 .. IntWidth
    BY <2>6, IdsFit DEF ReportsIInv, ReportsTypes
  <2>8. bit \cap usedIds[view[i].of] # {} <=> view[i].svid \in usedIds[view[i].of]
    BY <2>6, <2>7, BitOfSatellite
  <2> QED
    BY <2>1, <2>4, <2>5, <2>8
<1>13. NotYetNamed' /\ NotYetUsed'
  <2>1. \A c \in Masked : usedMask'[c] \subseteq 1 .. IntWidth
    BY <1>11
  <2> QED
    BY <1>3, <2>1 DEF NotYetNamed, NotYetUsed
<1>14. ReportsTypes'
  <2>1. named' \in [Masked -> [1 .. IntWidth -> 0 .. 1]] /\ dopped' \in 0 .. 1
    <3>1. [i \in 1 .. IntWidth |-> 0] \in [1 .. IntWidth -> 0 .. 1]
      OBVIOUS
    <3> QED
      BY <1>3, <3>1
  <2> QED
    BY <1>3, <1>11, <2>1 DEF ReportsIInv, ReportsTypes
<1> QED
  BY <1>11, <1>12, <1>13, <1>14 DEF ReportsIInv

\* A GSA names satellites of its mask.
LEMMA GsaNames ==
  ASSUME NEW c \in Masked, usedMask[c] \subseteq 1 .. IntWidth, NEW hasDop, NEW i \in Range(Gsa(c, hasDop).svs)
  PROVE  i \in usedMask[c]
<1> DEFINE up == [k \in 1 .. IntWidth |-> k]
<1> DEFINE svs == Ascending(usedMask[c])
<1> DEFINE n == IF Len(svs) < GsaRoom THEN Len(svs) ELSE GsaRoom
<1>1. IntWidth \in Nat /\ GsaRoom \in Nat
  BY ReportsAssumption
<1>2. up \in Seq(Nat) /\ DOMAIN up = 1 .. IntWidth
  BY <1>1
<1>3. svs = Picked(up, usedMask[c])
  BY DEF Ascending
<1>4. svs \in Seq(Nat) /\ \A j \in DOMAIN svs : \E k \in DOMAIN up : k \in usedMask[c] /\ svs[j] = up[k]
  <2> HIDE DEF up, svs
  <2> QED
    BY <1>2, <1>3, PickedFrom
<1>5. \A j \in DOMAIN svs : svs[j] \in usedMask[c]
  <2> HIDE DEF svs
  <2> QED
    BY <1>2, <1>4
<1>6. Gsa(c, hasDop).svs = SubSeq(svs, 1, n)
  BY DEF Gsa
<1> HIDE DEF svs
<1>7. n \in 0 .. Len(svs) /\ Len(svs) \in Nat
  BY <1>1, <1>4
<1> HIDE DEF n
<1>8. \A j \in DOMAIN SubSeq(svs, 1, n) : j \in DOMAIN svs /\ SubSeq(svs, 1, n)[j] = svs[j]
  BY <1>4, <1>7
<1>9. PICK j \in DOMAIN SubSeq(svs, 1, n) : i = SubSeq(svs, 1, n)[j]
  BY <1>6 DEF Range
<1> QED
  BY <1>5, <1>8, <1>9

\* The sentences of a position.
LEMMA FiveSentences ==
  ASSUME NEW a, NEW b, NEW v, NEW r, NEW g, NEW s, s = <<a, b, v, r, g>>,
         a.type = "GSA", a.of = "GPS", b.type = "GSA", b.of = "GLONASS",
         v.type = "VTG", r.type = "RMC", g.type = "GGA"
  PROVE  /\ s \in Seq({a, b, v, r, g}) /\ Len(s) = 5 /\ \A k \in DOMAIN s : s[k].type # "GSV"
         /\ s[1] = a /\ s[2] = b
         /\ \A k \in 1 .. Len(s) : s[k].type = "GSA" => k = 1 \/ k = 2
<1>1. s \in Seq({a, b, v, r, g}) /\ Len(s) = 5 /\ DOMAIN s = 1 .. 5
  OBVIOUS
<1>2. s[1] = a /\ s[2] = b /\ s[3] = v /\ s[4] = r /\ s[5] = g
  OBVIOUS
<1>3. \A k \in 1 .. 5 : k = 1 \/ k = 2 \/ k = 3 \/ k = 4 \/ k = 5
  OBVIOUS
<1>4. \A k \in 1 .. 5 : s[k].type # "GSV"
  BY <1>2, <1>3
<1>5. \A k \in 1 .. 5 : s[k].type = "GSA" => k = 1 \/ k = 2
  BY <1>2, <1>3
<1> QED
  BY <1>1, <1>2, <1>4, <1>5

\* They name a satellite once, if its GSA does.
LEMMA NamesOnce ==
  ASSUME NEW s, Len(s) \in Nat, s[1].type = "GSA", s[2].type = "GSA", s[1].of = "GPS", s[2].of = "GLONASS",
         Len(s) = 5, \A k \in 1 .. Len(s) : s[k].type = "GSA" => k = 1 \/ k = 2,
         NEW c \in Masked, NEW i \in 1 .. IntWidth,
         NEW place, place = (IF c = "GPS" THEN 1 ELSE 2)
  PROVE  /\ named[c][i] \in Nat => Names(s)[c][i] = named[c][i] + (IF i \in Range(s[place].svs) THEN 1 ELSE 0)
         /\ s[place].of = c
<1> DEFINE K == {k \in 1 .. Len(s) : s[k].type = "GSA" /\ s[k].of = c /\ i \in Range(s[k].svs)}
<1>1. s[place].of = c /\ s[place].type = "GSA" /\ place \in 1 .. Len(s)
  BY DEF Masked
<1>2. \A k \in 1 .. Len(s) : s[k].type = "GSA" /\ s[k].of = c => k = place
  BY DEF Masked
<1>3. Names(s)[c][i] = named[c][i] + Cardinality(K)
  BY DEF Names
<1>4. CASE i \in Range(s[place].svs)
  <2>1. K = {place}
    BY <1>1, <1>2, <1>4
  <2> HIDE DEF K
  <2>2. Cardinality(K) = 1
    BY <2>1, FS_Singleton
  <2> QED
    BY <1>1, <1>3, <1>4, <2>2
<1>5. CASE i \notin Range(s[place].svs)
  <2>1. K = {}
    BY <1>1, <1>2, <1>5
  <2> HIDE DEF K
  <2>2. Cardinality(K) = 0
    BY <2>1, FS_EmptySet
  <2> QED
    BY <1>1, <1>3, <1>5, <2>2
<1> QED
  BY <1>4, <1>5

\* A position with no sentences.
LEMMA SilentKeeps ==
  ASSUME ReportsIInv, sent' = <<>>, UNCHANGED <<usedMask, dop, named, dopped, told, fix, muted, inSession, standalone>>,
         usedIds' \in UsedLists \cup {NoneUsed}, usedAvail' \in BOOLEAN
  PROVE  ReportsIInv'
<1>1. ReportsTypes' /\ MaskFits' /\ NotYetNamed' /\ NotYetUsed' /\ NothingToSay' /\ FlagsMatchTheFix'
  BY DEF ReportsIInv, ReportsTypes, MaskFits, NotYetNamed, NotYetUsed, NothingToSay, FlagsMatchTheFix
<1>2. NamesUsed'
  BY DEF NamesUsed, Gsas
<1>3. EverySatelliteInView'
  <2>1. sent' \in Seq({}) /\ Len(sent') \in Nat /\ \A k \in DOMAIN sent' : sent'[k].type # "GSV"
    OBVIOUS
  <2>2. ASSUME NEW c \in Masked PROVE Gsvs(c)' = <<>>
    BY <2>1, NothingShown DEF Gsvs
  <2> QED
    BY <2>2 DEF EverySatelliteInView
<1> QED
  BY <1>1, <1>2, <1>3 DEF ReportsIInv

\* A position with sentences.
LEMMA PosKeeps ==
  ASSUME ReportsIInv, NEW p \in Positions, NEW generate \in BOOLEAN, GeneratePos(p, generate), GenerateNmea,
         UNCHANGED <<told, fix, muted, inSession, standalone>>,
         usedIds' \in UsedLists \cup {NoneUsed}, usedAvail' \in BOOLEAN
  PROVE  ReportsIInv'
<1>1. CASE ~p.timed
  <2>1. sent' = <<>> /\ UNCHANGED <<usedMask, dop, named, dopped>>
    BY <1>1 DEF GeneratePos
  <2> QED
    BY <2>1, SilentKeeps
<1>2. CASE p.timed
  <2> DEFINE hasDop == p.dop \/ dop
  <2>1. /\ sent' = IF generate
              THEN << Gsa("GPS", hasDop), Gsa("GLONASS", hasDop), Vtg(p), Rmc(p), Gga(p, hasDop) >> ELSE Blank
        /\ usedMask' = IF generate THEN Unmarked ELSE usedMask
        /\ dop' = FALSE
        /\ named' = Names(sent')
        /\ dopped' = dopped + (IF generate /\ ~p.dop /\ dop THEN 1 ELSE 0)
    BY <1>2 DEF GeneratePos
  <2> HIDE DEF hasDop
  <2>2. PICK s : s = sent'
    OBVIOUS
  <2> DEFINE svs(c) == s[IF c = "GPS" THEN 1 ELSE 2].svs
  <2>3. /\ \E T : s \in Seq(T)
        /\ Len(s) = 5 /\ \A k \in DOMAIN s : s[k].type # "GSV"
        /\ \A k \in 1 .. Len(s) : s[k].type = "GSA" => k = 1 \/ k = 2
        /\ s[1].type = "GSA" /\ s[2].type = "GSA" /\ s[1].of = "GPS" /\ s[2].of = "GLONASS"
        /\ \A c \in Masked : svs(c) = IF generate THEN Gsa(c, hasDop).svs ELSE <<>>
    <3>1. CASE generate
      <4> DEFINE a == Gsa("GPS", hasDop)
      <4> DEFINE b == Gsa("GLONASS", hasDop)
      <4> DEFINE v == Vtg(p)
      <4> DEFINE r == Rmc(p)
      <4> DEFINE g == Gga(p, hasDop)
      <4>1. s = <<a, b, v, r, g>>
        BY <2>1, <2>2, <3>1
      <4>2. a.type = "GSA" /\ a.of = "GPS" /\ b.type = "GSA" /\ b.of = "GLONASS" /\ v.type = "VTG" /\ r.type = "RMC" /\ g.type = "GGA"
        BY DEF Gsa, Vtg, Rmc, Gga
      <4> HIDE DEF a, b, v, r, g
      <4>3. /\ s \in Seq({a, b, v, r, g}) /\ Len(s) = 5 /\ \A k \in DOMAIN s : s[k].type # "GSV"
            /\ s[1] = a /\ s[2] = b
            /\ \A k \in 1 .. Len(s) : s[k].type = "GSA" => k = 1 \/ k = 2
        BY <4>1, <4>2, FiveSentences
      <4>4. \A c \in Masked : svs(c) = Gsa(c, hasDop).svs
        BY <4>3 DEF Masked, a, b
      <4> HIDE DEF svs
      <4> QED
        BY <3>1, <4>2, <4>3, <4>4
    <3>2. CASE ~generate
      <4>1. PICK a, b, v, r, g :
              /\ Blank = <<a, b, v, r, g>> /\ a.svs = <<>> /\ b.svs = <<>>
              /\ a.type = "GSA" /\ a.of = "GPS" /\ b.type = "GSA" /\ b.of = "GLONASS"
              /\ v.type = "VTG" /\ r.type = "RMC" /\ g.type = "GGA"
        <5> DEFINE a == [type |-> "GSA", of |-> "GPS", fixType |-> 1, svs |-> <<>>, dop |-> FALSE]
        <5> DEFINE b == [type |-> "GSA", of |-> "GLONASS", fixType |-> 1, svs |-> <<>>, dop |-> FALSE]
        <5> DEFINE v == [type |-> "VTG", mode |-> "N"]
        <5> DEFINE r == [type |-> "RMC", valid |-> FALSE, mode |-> "N"]
        <5> DEFINE g == [type |-> "GGA", quality |-> 0, count |-> 0, dop |-> FALSE]
        <5>1. Blank = <<a, b, v, r, g>>
          BY DEF Blank
        <5>2. /\ a.svs = <<>> /\ b.svs = <<>>
              /\ a.type = "GSA" /\ a.of = "GPS" /\ b.type = "GSA" /\ b.of = "GLONASS"
              /\ v.type = "VTG" /\ r.type = "RMC" /\ g.type = "GGA"
          OBVIOUS
        <5> HIDE DEF a, b, v, r, g
        <5> QED
          BY <5>1, <5>2
      <4>2. s = <<a, b, v, r, g>>
        BY <2>1, <2>2, <3>2, <4>1
      <4>3. /\ s \in Seq({a, b, v, r, g}) /\ Len(s) = 5 /\ \A k \in DOMAIN s : s[k].type # "GSV"
            /\ s[1] = a /\ s[2] = b
            /\ \A k \in 1 .. Len(s) : s[k].type = "GSA" => k = 1 \/ k = 2
        BY <4>1, <4>2, FiveSentences
      <4>4. \A c \in Masked : svs(c) = <<>>
        BY <4>1, <4>3
      <4> HIDE DEF svs
      <4> QED
        BY <3>2, <4>1, <4>3, <4>4
    <3> QED
      BY <3>1, <3>2
  <2>4. ASSUME NEW c \in Masked, NEW i \in Range(svs(c)) PROVE generate /\ i \in usedMask[c]
    <3>1. usedMask[c] \subseteq 1 .. IntWidth
      BY DEF ReportsIInv, ReportsTypes
    <3>2. svs(c) = IF generate THEN Gsa(c, hasDop).svs ELSE <<>>
      BY <2>3
    <3>3. i \notin Range(<<>>)
      BY DEF Range
    <3> HIDE DEF svs
    <3>4. generate /\ i \in Range(Gsa(c, hasDop).svs)
      BY <2>4, <3>2, <3>3
    <3> QED
      BY <3>1, <3>4, GsaNames
  <2>5. ASSUME NEW c \in Masked, NEW i \in 1 .. IntWidth
        PROVE  /\ named[c][i] \in 0 .. 1
               /\ named'[c][i] = named[c][i] + (IF i \in Range(svs(c)) THEN 1 ELSE 0)
               /\ i \in Range(svs(c)) => named[c][i] = 0
    <3>1. named[c][i] \in 0 .. 1
      BY DEF ReportsIInv, ReportsTypes
    <3> PICK where : where = (IF c = "GPS" THEN 1 ELSE 2)
      OBVIOUS
    <3>4. /\ named[c][i] \in Nat => Names(s)[c][i] = named[c][i] + (IF i \in Range(s[where].svs) THEN 1 ELSE 0)
          /\ s[where].of = c
      BY <2>3, NamesOnce
    <3>5. s[where].svs = svs(c)
      BY <2>3, <3>4 DEF Masked
    <3> HIDE DEF svs
    <3>2. Names(s)[c][i] = named[c][i] + (IF i \in Range(svs(c)) THEN 1 ELSE 0)
      BY <3>1, <3>4, <3>5
    <3>3. i \in Range(svs(c)) => named[c][i] = 0
      BY <2>4 DEF ReportsIInv, NotYetNamed
    <3> QED
      BY <2>1, <2>2, <3>1, <3>2, <3>3
  <2>6. named' = [c \in Masked |-> [i \in 1 .. IntWidth |-> named'[c][i]]]
    BY <2>1 DEF Names
  <2>7. named' \in [Masked -> [1 .. IntWidth -> 0 .. 1]]
    <3>1. ASSUME NEW c \in Masked, NEW i \in 1 .. IntWidth PROVE named'[c][i] \in 0 .. 1
      <4> HIDE DEF svs
      <4> QED
        BY <2>5
    <3>2. PICK n : n = named'
      OBVIOUS
    <3>3. n = [c \in Masked |-> [i \in 1 .. IntWidth |-> n[c][i]]] /\ \A c \in Masked, i \in 1 .. IntWidth : n[c][i] \in 0 .. 1
      BY <2>6, <3>1, <3>2
    <3>4. n \in [Masked -> [1 .. IntWidth -> 0 .. 1]]
      BY <3>3
    <3> QED
      BY <3>2, <3>4
  <2>8. dopped' \in 0 .. 1
    <3>1. dopped \in 0 .. 1 /\ (dop => dopped = 0)
      BY DEF ReportsIInv, ReportsTypes, NotYetUsed
    <3> QED
      BY <2>1, <3>1
  <2>9. usedMask' \in [Masked -> SUBSET (1 .. IntWidth)] /\ MaskFits'
    <3>1. usedMask \in [Masked -> SUBSET (1 .. IntWidth)] /\ MaskFits
      BY DEF ReportsIInv, ReportsTypes
    <3>2. CASE generate
      BY <2>1, <3>2 DEF Unmarked, MaskFits
    <3>3. CASE ~generate
      BY <2>1, <3>1, <3>3 DEF MaskFits
    <3> QED
      BY <3>2, <3>3
  <2>10. ReportsTypes'
    BY <2>1, <2>7, <2>8, <2>9 DEF ReportsIInv, ReportsTypes
  <2>11. NotYetNamed'
    <3>1. CASE generate
      BY <2>1, <3>1 DEF NotYetNamed, Unmarked
    <3>2. CASE ~generate
      <4> SUFFICES ASSUME NEW c \in Masked, NEW i \in usedMask[c] PROVE named'[c][i] = 0
        BY <2>1, <3>2 DEF NotYetNamed
      <4>1. i \in 1 .. IntWidth
        BY DEF ReportsIInv, ReportsTypes
      <4>2. i \notin Range(svs(c))
        BY <2>4, <3>2
      <4>3. named[c][i] = 0
        BY DEF ReportsIInv, NotYetNamed
      <4> HIDE DEF svs
      <4> QED
        BY <2>5, <4>1, <4>2, <4>3
    <3> QED
      BY <3>1, <3>2
  <2>12. NotYetUsed' /\ NothingToSay'
    BY <2>1 DEF NotYetUsed, NothingToSay
  <2>13. FlagsMatchTheFix'
    BY DEF ReportsIInv, FlagsMatchTheFix
  <2>14. NamesUsed'
    <3> SUFFICES ASSUME NEW k \in 1 .. Len(s), s[k].type = "GSA", NEW i \in Range(s[k].svs) PROVE i \in UsedIn(told, s[k].of)
      BY <2>2 DEF NamesUsed, Gsas
    <3>1. PICK c \in Masked : s[k].of = c /\ svs(c) = s[k].svs
      BY <2>3 DEF Masked
    <3>2. i \in usedMask[c]
      BY <2>4, <3>1
    <3> QED
      BY <3>1, <3>2 DEF ReportsIInv, MaskFits
  <2>15. EverySatelliteInView'
    <3>1. ASSUME NEW c \in Masked PROVE Gsvs(c)' = <<>>
      <4>1. PICK T : s \in Seq(T)
        BY <2>3
      <4>2. Len(s) \in Nat /\ \A k \in DOMAIN s : s[k].type # "GSV"
        BY <2>3
      <4>3. Picked(s, {k \in DOMAIN s : s[k].type = "GSV" /\ s[k].of = c}) = <<>>
        BY <4>1, <4>2, NothingShown
      <4> QED
        BY <2>2, <4>3 DEF Gsvs
    <3> QED
      BY <3>1 DEF EverySatelliteInView
  <2> QED
    BY <2>9, <2>10, <2>11, <2>12, <2>13, <2>14, <2>15 DEF ReportsIInv
<1> QED
  BY <1>1, <1>2 DEF Positions

\* Every step.
LEMMA NextKeepsReports == ReportsIInv /\ [ReportsNext]_reportsVars => ReportsIInv'
<1> SUFFICES ASSUME ReportsIInv, [ReportsNext]_reportsVars PROVE ReportsIInv'
  OBVIOUS
<1>1. ASSUME NEW view \in Views, NEW hasDop \in BOOLEAN, ReportSv(view, hasDop) PROVE ReportsIInv'
  BY <1>1, SvKeeps
<1>2. ASSUME NEW p \in Positions, ReportPosition(p) PROVE ReportsIInv'
  <2>1. usedIds' \in UsedLists \cup {NoneUsed} /\ usedAvail' \in BOOLEAN
    <3>1. usedIds \in UsedLists \cup {NoneUsed} /\ usedAvail \in BOOLEAN /\ p.ids \in UsedLists \cup {NoneUsed}
      BY DEF ReportsIInv, ReportsTypes, Positions
    <3> QED
      BY <1>2, <3>1 DEF ReportPosition
  <2>2. UNCHANGED <<muted, inSession, standalone, told, fix>>
    BY <1>2 DEF ReportPosition
  <2>3. CASE GenerateNmea /\ inSession
    <3>1. GeneratePos(p, Accepted(p) /\ p.status # "FAILURE")
      BY <1>2, <2>3 DEF ReportPosition
    <3>2. (Accepted(p) /\ p.status # "FAILURE") \in BOOLEAN
      OBVIOUS
    <3>3. PICK generate \in BOOLEAN : generate = (Accepted(p) /\ p.status # "FAILURE")
      BY <3>2
    <3>4. GeneratePos(p, generate)
      BY <3>1, <3>3
    <3> QED
      BY <2>1, <2>2, <2>3, <3>4, PosKeeps
  <2>4. CASE ~(GenerateNmea /\ inSession)
    <3>1. sent' = <<>> /\ UNCHANGED <<usedMask, dop, named, dopped>>
      BY <1>2, <2>4 DEF ReportPosition
    <3> QED
      BY <2>1, <2>2, <3>1, SilentKeeps
  <2> QED
    BY <2>3, <2>4
<1>3. ASSUME UNCHANGED <<usedMask, dop, sent, told, fix, named, dopped>>, muted' \in BOOLEAN, inSession' \in BOOLEAN,
             standalone' = standalone, usedIds' \in UsedLists \cup {NoneUsed}, usedAvail' \in BOOLEAN
      PROVE  ReportsIInv'
  <2>1. ReportsTypes' /\ MaskFits' /\ NotYetNamed' /\ NotYetUsed' /\ NothingToSay'
    BY <1>3 DEF ReportsIInv, ReportsTypes, MaskFits, NotYetNamed, NotYetUsed, NothingToSay
  <2>2. FlagsMatchTheFix' /\ NamesUsed' /\ EverySatelliteInView'
    BY <1>3 DEF ReportsIInv, FlagsMatchTheFix, NamesUsed, Gsas, EverySatelliteInView, Gsvs
  <2> QED
    BY <2>1, <2>2 DEF ReportsIInv
<1>4. muted \in BOOLEAN /\ inSession \in BOOLEAN /\ usedIds \in UsedLists \cup {NoneUsed} /\ usedAvail \in BOOLEAN
  BY DEF ReportsIInv, ReportsTypes
<1>5. CASE StartFix
  BY <1>3, <1>4, <1>5 DEF StartFix
<1>6. CASE StopFix
  BY <1>3, <1>4, <1>6 DEF StopFix
<1>7. CASE Mute
  BY <1>3, <1>4, <1>7 DEF Mute
<1>8. CASE UNCHANGED reportsVars
  BY <1>3, <1>4, <1>8 DEF reportsVars
<1> QED
  BY <1>1, <1>2, <1>5, <1>6, <1>7, <1>8 DEF ReportsNext

\* What the framework is told of satellites fits the fix, and the sentences say it all, once.
THEOREM SentencesHold == ReportsSpec => []SentencesInv
<1>1. ReportsIInv => SentencesInv
  <2> SUFFICES ASSUME ReportsIInv PROVE SentencesInv
    OBVIOUS
  <2>1. ReportsTypes /\ FlagsMatchTheFix /\ NamesUsed /\ EverySatelliteInView
    BY DEF ReportsIInv
  <2>2. ReportsTypeOK
    <3>1. \A c \in Masked, i \in 1 .. IntWidth : named[c][i] \in 0 .. 1
      BY <2>1 DEF ReportsTypes
    <3>2. named \in [Masked -> [1 .. IntWidth -> 0 .. 2]]
      <4>1. [1 .. IntWidth -> 0 .. 1] \subseteq [1 .. IntWidth -> 0 .. 2]
        OBVIOUS
      <4> QED
        BY <2>1, <4>1 DEF ReportsTypes
    <3>3. dopped \in 0 .. 2
      BY <2>1 DEF ReportsTypes
    <3> QED
      BY <2>1, <3>2, <3>3 DEF ReportsTypes, ReportsTypeOK
  <2>3. UsedOnce
    <3>1. \A c \in Masked, i \in 1 .. IntWidth : named[c][i] \in 0 .. 1
      BY <2>1 DEF ReportsTypes
    <3>2. \A c \in Masked, i \in 1 .. IntWidth : named[c][i] <= 1
      BY <3>1
    <3>3. dopped <= 1
      BY <2>1 DEF ReportsTypes
    <3> QED
      BY <2>1, <3>2, <3>3 DEF UsedOnce, NamesUsed
  <2> QED
    BY <2>1, <2>2, <2>3 DEF SentencesInv
<1> QED
  BY <1>1, InitReports, NextKeepsReports, PTL DEF ReportsSpec

-----------------------------------------------------------------------------
(* The user agent. *)

\* Nothing in front of a sequence leaves it as it is.
LEMMA EmptyIsNeutral ==
  ASSUME NEW T, NEW s \in Seq(T)
  PROVE  <<>> \o s = s
  BY EmptySeq, ConcatEmptySeq

\* What has been put together after n parts.
Grows(g, parts, N) == g[0] = <<>> /\ \A n \in 1 .. N : g[n] = g[n - 1] \o parts[n]

\* Sequences are put together one by one.
LEMMA FlattenGrows ==
  ASSUME NEW T, NEW parts \in Seq(Seq(T)), NEW N \in Nat, N = Len(parts)
  PROVE  \E g \in [0 .. N -> Seq(T)] :
           Grows(g, parts, N) /\ FlattenSeq(parts) = g[N]
<1>1. CASE N = 0
  <2> PICK e : e = <<>>
    OBVIOUS
  <2>1. e \in Seq(T) /\ parts = e
    <3>1. Len(parts) = 0 => parts = <<>>
      OBVIOUS
    <3> QED
      BY <1>1, <3>1, EmptySeq
  <2>2. FlattenSeq(parts) = e
    BY <1>1, <2>1 DEF FlattenSeq
  <2> DEFINE g == [n \in 0 .. N |-> e]
  <2>3. g \in [0 .. N -> Seq(T)] /\ g[0] = e /\ g[N] = e /\ 1 .. N = {}
    BY <1>1, <2>1
  <2> QED
    BY <2>2, <2>3 DEF Grows
<1>2. CASE N # 0
  <2> PICK e : e = <<>>
    OBVIOUS
  <2> PICK S : S = Seq(T)
    OBVIOUS
  <2> DEFINE step == [n \in 1 .. N |-> [s \in S |-> s \o parts[n]]]
  <2>1. \A n \in 1 .. N : parts[n] \in Seq(T)
    OBVIOUS
  <2>2. step \in [1 .. N -> [S -> S]]
    <3>1. \A n \in 1 .. N, s \in S : s \o parts[n] \in S
      BY <2>1
    <3> QED
      BY <3>1
  <2>0. e \in S
    BY EmptySeq
  <2>3. PICK g \in [0 .. N -> S] : Hands(g, e, N, step)
    <3> HIDE DEF step
    <3> QED
      BY <2>0, <2>2, HandedOn
  <2>4. g[0] = <<>> /\ \A n \in 1 .. N : g[n] = step[n][g[n - 1]]
    BY <2>3 DEF Hands
  <2>5. ASSUME NEW n \in 1 .. N
        PROVE  n - 1 \in 0 .. N /\ g[n - 1] \in S /\ g[n] = g[n - 1] \o parts[n]
    <3>1. n - 1 \in 0 .. N
      OBVIOUS
    <3>2. g[n - 1] \in S
      BY <3>1
    <3>3. g[n] = step[n][g[n - 1]]
      <4> HIDE DEF step
      <4> QED
        BY <2>4
    <3> QED
      BY <3>1, <3>2, <3>3
  <2> DEFINE h == [n \in 1 .. N |-> g[n]]
  <2>6. Joining(h, parts, N)
    <3>1. g[1] = parts[1]
      <4>1. 1 \in 1 .. N
        BY <1>2
      <4>2. <<>> \o parts[1] = parts[1]
        BY <2>1, <4>1, EmptyIsNeutral
      <4>3. g[1] = g[0] \o parts[1]
        <5>1. PICK one \in 1 .. N : one = 1
          BY <4>1
        <5>2. g[one] = g[one - 1] \o parts[one]
          <6> HIDE DEF step
          <6> QED
            BY <2>5
        <5>3. one - 1 = 0
          BY <5>1
        <5> QED
          BY <5>1, <5>2, <5>3
      <4> QED
        BY <2>4, <4>2, <4>3
    <3>2. ASSUME NEW n \in 1 .. N PROVE h[n] = IF n = 1 THEN parts[n] ELSE h[n - 1] \o parts[n]
      <4>1. n # 1 => n - 1 \in 1 .. N
        OBVIOUS
      <4> QED
        BY <2>5, <3>1, <4>1
    <3>3. h = [n \in 1 .. N |-> IF n = 1 THEN parts[n] ELSE h[n - 1] \o parts[n]]
      BY <3>2
    <3> HIDE DEF h
    <3> QED
      BY <3>3 DEF Joining
  <2>7. h[N] = g[N] /\ N \in Nat \ {0}
    BY <1>2
  <2> HIDE DEF h, step
  <2>8. FlattenSeq(parts) = h[N]
    BY <2>6, <2>7, FlattenInTurn
  <2>9. g \in [0 .. N -> Seq(T)]
    OBVIOUS
  <2> QED
    BY <2>4, <2>5, <2>7, <2>8, <2>9 DEF Grows
<1> QED
  BY <1>1, <1>2

\* They are one sequence then.
LEMMA FlattenIsSeq ==
  ASSUME NEW T, NEW parts \in Seq(Seq(T))
  PROVE  FlattenSeq(parts) \in Seq(T)
<1>1. PICK N \in Nat : N = Len(parts)
  OBVIOUS
<1>2. PICK g \in [0 .. N -> Seq(T)] :
        Grows(g, parts, N) /\ FlattenSeq(parts) = g[N]
  BY <1>1, FlattenGrows
<1> QED
  BY <1>2

\* A set of numbers that is not empty and has a bound has a greatest member.
LEMMA GreatestNumber ==
  ASSUME NEW M \in Nat, NEW S \in SUBSET (0 .. M), S # {}
  PROVE  Max(S) \in S /\ \A k \in S : k <= Max(S)
<1> DEFINE T == {M - k : k \in S}
<1>1. T \in SUBSET Nat /\ T # {}
  <2>1. \A k \in S : k \in 0 .. M /\ M - k \in Nat
    OBVIOUS
  <2>2. T \subseteq Nat
    BY <2>1
  <2>3. PICK k \in S : TRUE
    OBVIOUS
  <2>4. M - k \in T
    BY <2>3
  <2> QED
    BY <2>2, <2>4
<1>2. PICK m \in T : \A k \in T : m <= k
  BY <1>1, LeastNumber
<1>3. PICK x \in S : m = M - x
  OBVIOUS
<1>4. \A k \in S : M - k \in T /\ k \in Nat
  OBVIOUS
<1>5. \A k \in S : x >= k
  <2> HIDE DEF T
  <2> QED
    BY <1>2, <1>3, <1>4
<1>6. Max(S) \in S /\ \A k \in S : Max(S) >= k
  BY <1>5 DEF Max
<1> QED
  BY <1>4, <1>6

\* The characters of a text, with those that the code puts into one.
Glyphs == STRING \cup {"A", "-", "QCX3", "s1", "%", "2F", "2B", "7C", "25", "/", "#", "?"}

\* The properties are texts.
LEMMA PropertiesAreTexts ==
  ASSUME NEW d \in Devices
  PROVE  /\ d.release \in Seq(Glyphs) /\ d.manufacturer \in Seq(Glyphs) /\ d.model \in Seq(Glyphs)
         /\ d.board \in Seq(Glyphs) /\ d.brand \in Seq(Glyphs) /\ d.serial \in Seq(Glyphs)
<1>1. ASSUME NEW t \in Seq(STRING) PROVE t \in Seq(Glyphs)
  BY DEF Glyphs
<1> QED
  BY <1>1, AgentAssumption

\* A text of no characters has size 0.
LEMMA NothingFits ==
  ASSUME NEW s, Len(s) = 0, DOMAIN s = {}
  PROVE  Size(s) = 0
<1>1. {k \in DOMAIN s : s[k] \in {"2F", "2B", "7C", "25"}} = {}
  OBVIOUS
<1> QED
  BY <1>1, FS_EmptySet DEF Size, Quantify

\* A code is a text without slashes.
LEMMA CodeIsText ==
  ASSUME NEW ch \in Glyphs
  PROVE  Code(ch) \in Seq(Glyphs \ {"/"})
<1> PICK Bare : Bare = Glyphs \ {"/"}
  OBVIOUS
<1>0. ASSUME NEW a \in Bare, NEW b \in Bare PROVE <<a>> \in Seq(Bare) /\ <<a, b>> \in Seq(Bare)
  OBVIOUS
<1>1. CASE ch \in Specials
  <2>1. Hex(ch) \in Bare /\ "%" \in Bare
    BY <1>1 DEF Specials, Hex, Glyphs
  <2> QED
    BY <1>0, <1>1, <2>1 DEF Code
<1>2. CASE ch \notin Specials
  <2>1. ch \in Bare
    BY <1>2 DEF Specials
  <2> QED
    BY <1>0, <1>2, <2>1 DEF Code
<1> QED
  BY <1>1, <1>2

\* So is an encoding.
LEMMA EncodingIsText ==
  ASSUME NEW t \in Seq(Glyphs)
  PROVE  Encoding(t) \in Seq(Glyphs \ {"/"})
<1> DEFINE parts == [k \in 1 .. Len(t) |-> Code(t[k])]
<1>1. ASSUME NEW k \in 1 .. Len(t) PROVE Code(t[k]) \in Seq(Glyphs \ {"/"})
  <2>1. t[k] \in Glyphs
    OBVIOUS
  <2> QED
    BY <2>1, CodeIsText
<1>2. parts \in Seq(Seq(Glyphs \ {"/"}))
  BY <1>1
<1> HIDE DEF parts
<1> QED
  BY <1>2, FlattenIsSeq DEF Encoding, parts

\* A text without slashes is one.
LEMMA PlainIsText ==
  ASSUME NEW t \in Seq(Glyphs \ {"/"})
  PROVE  t \in Seq(Glyphs) /\ \A k \in DOMAIN t : t[k] # "/"
  OBVIOUS

\* There is always room for a beginning of a text, maybe for none of it.
LEMMA FittingFits ==
  ASSUME NEW T, NEW t \in Seq(T), NEW room \in Nat \ {0}
  PROVE  \E n \in 0 .. Len(t) :
           /\ Fitting(t, room) = SubSeq(t, 1, n) /\ Size(SubSeq(t, 1, n)) < room
           /\ \A k \in 0 .. Len(t) : Size(SubSeq(t, 1, k)) < room => k <= n
<1> DEFINE S == {n \in 0 .. Len(t) : Size(SubSeq(t, 1, n)) < room}
<1>1. 0 \in S
  <2>1. PICK e : e = SubSeq(t, 1, 0)
    OBVIOUS
  <2>2. Len(e) = 0 /\ DOMAIN e = {}
    BY <2>1
  <2>3. Size(e) = 0
    BY <2>2, NothingFits
  <2>4. Size(e) < room
    BY <2>3
  <2>5. 0 \in 0 .. Len(t)
    OBVIOUS
  <2> QED
    BY <2>1, <2>4, <2>5
<1>2. S \in SUBSET (0 .. Len(t)) /\ Len(t) \in Nat
  OBVIOUS
<1>3. PICK n : n = Max(S)
  OBVIOUS
<1>4. n \in S /\ \A k \in S : k <= n
  <2> HIDE DEF S
  <2> QED
    BY <1>1, <1>2, <1>3, GreatestNumber
<1>5. Fitting(t, room) = SubSeq(t, 1, n)
  BY <1>3 DEF Fitting
<1> QED
  BY <1>4, <1>5

\* The same of what is encoded.
LEMMA EncodeStops ==
  ASSUME NEW t \in Seq(Glyphs)
  PROVE  \E n \in 0 .. Len(t) :
           /\ EncodeInPlace(t) = Encoding(SubSeq(t, 1, n))
           /\ Size(Encoding(t)) < PropertyMax => n = Len(t)
<1> DEFINE S == {n \in 0 .. Len(t) : Size(Encoding(SubSeq(t, 1, n))) < PropertyMax}
<1>1. 0 \in S
  <2>1. SubSeq(t, 1, 0) = <<>>
    OBVIOUS
  <2>2. Encoding(SubSeq(t, 1, 0)) = <<>>
    BY <2>1 DEF Encoding, FlattenSeq
  <2>3. Size(Encoding(SubSeq(t, 1, 0))) = 0
    BY <2>2, NothingFits
  <2> QED
    BY <2>3, AgentAssumption
<1>2. PICK n : n = Max(S)
  OBVIOUS
<1>3. EncodeInPlace(t) = Encoding(SubSeq(t, 1, n))
  BY <1>2 DEF EncodeInPlace
<1>4. Size(Encoding(t)) < PropertyMax => Len(t) \in S
  <2>1. SubSeq(t, 1, Len(t)) = t
    OBVIOUS
  <2>2. Len(t) \in 0 .. Len(t)
    OBVIOUS
  <2> QED
    BY <2>1, <2>2
<1>5. S \in SUBSET (0 .. Len(t)) /\ Len(t) \in Nat
  OBVIOUS
<1> HIDE DEF S
<1>6. n \in S /\ \A k \in S : k <= n
  BY <1>1, <1>2, <1>5, GreatestNumber
<1> QED
  BY <1>3, <1>4, <1>5, <1>6

\* The serial number stays a text.
LEMMA SerialStops ==
  ASSUME NEW serial \in Seq(Glyphs), serial # NoSerial
  PROVE  \E n \in 0 .. Len(serial) :
           /\ ChipsetSerialNo(serial) = SubSeq(serial, 1, n)
           /\ n = 0 \/ serial[n] \notin Blanks
<1> DEFINE S == {0} \cup {k \in DOMAIN serial : serial[k] \notin Blanks}
<1>1. S \in SUBSET (0 .. Len(serial)) /\ S # {}
  OBVIOUS
<1>2. PICK n : n = Max(S)
  OBVIOUS
<1>3. n \in S
  <2>1. Len(serial) \in Nat
    OBVIOUS
  <2> HIDE DEF S
  <2> QED
    BY <1>1, <1>2, <2>1, GreatestNumber
<1>4. ChipsetSerialNo(serial) = SubSeq(serial, 1, n)
  BY <1>2 DEF ChipsetSerialNo
<1>5. n \in 0 .. Len(serial) /\ (n = 0 \/ serial[n] \notin Blanks)
  BY <1>1, <1>3
<1> QED
  BY <1>4, <1>5

\* The properties are texts; so are the fields.
LEMMA FieldsAreTexts ==
  ASSUME NEW d \in Devices
  PROVE  AgentFields(d) \in Seq(Seq(Glyphs)) /\ Len(AgentFields(d)) = 15
<1>1. \A t \in Seq(Glyphs) : EncodeInPlace(t) \in Seq(Glyphs)
  <2> SUFFICES ASSUME NEW t \in Seq(Glyphs) PROVE EncodeInPlace(t) \in Seq(Glyphs)
    OBVIOUS
  <2>1. PICK n \in 0 .. Len(t) : EncodeInPlace(t) = Encoding(SubSeq(t, 1, n))
    BY EncodeStops
  <2>2. SubSeq(t, 1, n) \in Seq(Glyphs)
    OBVIOUS
  <2> QED
    BY <2>1, <2>2, EncodingIsText, PlainIsText
<1>2. ChipsetSerialNo(d.serial) \in Seq(Glyphs)
  <2>1. CASE d.serial = NoSerial
    <3>1. "-" \in Glyphs
      BY DEF Glyphs
    <3> QED
      BY <2>1, <3>1 DEF ChipsetSerialNo
  <2>2. CASE d.serial # NoSerial
    <3>1. d.serial \in Seq(Glyphs)
      BY PropertiesAreTexts
    <3>2. PICK n \in 0 .. Len(d.serial) : ChipsetSerialNo(d.serial) = SubSeq(d.serial, 1, n)
      BY <2>2, <3>1, SerialStops
    <3> QED
      BY <3>1, <3>2
  <2> QED
    BY <2>1, <2>2
<1>3. \A x \in {d.release, d.manufacturer, d.model, d.board, d.brand} : EncodeInPlace(x) \in Seq(Glyphs)
  BY <1>1, PropertiesAreTexts
<1> DEFINE r == EncodeInPlace(d.release)
<1> DEFINE m == EncodeInPlace(d.manufacturer)
<1> DEFINE o == EncodeInPlace(d.model)
<1> DEFINE b == EncodeInPlace(d.board)
<1> DEFINE n == EncodeInPlace(d.brand)
<1> DEFINE s == ChipsetSerialNo(d.serial)
<1>4. {r, m, o, b, n, s} \subseteq Seq(Glyphs)
  BY <1>2, <1>3
<1>5. AgentFields(d) = << <<"A">>, r, m, o, b, <<"-">>, <<"QCX3">>, <<"s1">>, <<"-">>, s, <<"-">>, n, <<"-">>, <<"-">>, <<"-">> >>
  BY DEF AgentFields
<1>6. {<<"A">>, <<"-">>, <<"QCX3">>, <<"s1">>} \subseteq Seq(Glyphs)
  <2>1. {"A", "-", "QCX3", "s1"} \subseteq Glyphs
    BY DEF Glyphs
  <2>2. \A a \in Glyphs : <<a>> \in Seq(Glyphs)
    OBVIOUS
  <2> QED
    BY <2>1, <2>2
<1> HIDE DEF r, m, o, b, n, s
<1> QED
  BY <1>4, <1>5, <1>6

\* Whatever is put together of texts is a text.
LEMMA SlashedIsText ==
  ASSUME NEW fields \in Seq(Seq(Glyphs))
  PROVE  Slashed(fields) \in Seq(Glyphs)
<1> DEFINE parts == [k \in 1 .. Len(fields) |-> fields[k] \o <<"/">>]
<1>1. parts \in Seq(Seq(Glyphs))
  <2>1. <<"/">> \in Seq(Glyphs)
    <3>1. "/" \in Glyphs
      BY DEF Glyphs
    <3> QED
      BY <3>1
  <2>2. \A k \in 1 .. Len(fields) : fields[k] \o <<"/">> \in Seq(Glyphs)
    BY <2>1
  <2> QED
    BY <2>2
<1> HIDE DEF parts
<1>2. FlattenSeq(parts) \in Seq(Glyphs)
  BY <1>1, FlattenIsSeq
<1>3. ASSUME NEW s \in Seq(Glyphs) PROVE SubSeq(s, 1, Len(s) - 1) \in Seq(Glyphs)
  OBVIOUS
<1> QED
  BY <1>2, <1>3 DEF Slashed, Front, parts

\* So is the line.
LEMMA AgentIsText ==
  ASSUME NEW d \in Devices
  PROVE  UserAgent(d) \in Seq(Glyphs)
<1>1. Slashed(AgentFields(d)) \in Seq(Glyphs)
  BY FieldsAreTexts, SlashedIsText
<1>2. PICK n \in 0 .. Len(Slashed(AgentFields(d))) :
        Fitting(Slashed(AgentFields(d)), AgentMax) = SubSeq(Slashed(AgentFields(d)), 1, n)
  BY <1>1, AgentAssumption, FittingFits
<1>3. ASSUME NEW t \in Seq(Glyphs) PROVE Hashed(t) \in Seq(Glyphs)
  <2>1. "#" \in Glyphs /\ DOMAIN t = 1 .. Len(t) /\ \A k \in 1 .. Len(t) : t[k] \in Glyphs
    BY DEF Glyphs
  <2>2. Hashed(t) \in [1 .. Len(t) -> Glyphs]
    BY <2>1 DEF Hashed
  <2> QED
    BY <2>2
<1>4. SubSeq(Slashed(AgentFields(d)), 1, n) \in Seq(Glyphs)
  BY <1>1
<1> QED
  BY <1>2, <1>3, <1>4 DEF UserAgent

\* What is in the file at each step of a save, and what is to be saved.
AgentIInv ==
  /\ phone \in Devices
  /\ saving \in {"no", "folder", "open", "write", "short", "chmod"}
  /\ saving # "no" => agent = UserAgent(phone)
  /\ saving = "write" => file = << <<>> >>
  /\ saving = "chmod" => file = <<agent>>
  /\ FileHoldsOneLine

\* The beginning of a text.
LEMMA Beginning ==
  ASSUME NEW T, NEW t \in Seq(T), NEW n \in 0 .. Len(t)
  PROVE  IsPrefix(SubSeq(t, 1, n), t) /\ IsPrefix(<<>>, t) /\ IsPrefix(t, t)
<1>1. Len(SubSeq(t, 1, n)) = n /\ SubSeq(SubSeq(t, 1, n), 1, n) = SubSeq(t, 1, n)
  OBVIOUS
<1>2. SubSeq(t, 1, 0) = <<>> /\ Len(<<>>) = 0 /\ SubSeq(<<>>, 1, 0) = <<>>
  OBVIOUS
<1> QED
  BY <1>1, <1>2 DEF IsPrefix

\* Every step of a save, and a restart in it.
LEMMA AgentStep == AgentIInv /\ [AgentNext]_agentVars => AgentIInv'
<1> SUFFICES ASSUME AgentIInv, [AgentNext]_agentVars PROVE AgentIInv'
  OBVIOUS
<1> USE DEF AgentIInv, FileHoldsOneLine
<1>1. CASE SetXtraUserAgent
  BY <1>1 DEF SetXtraUserAgent
<1>2. CASE MakeFolder
  BY <1>2 DEF MakeFolder, Fail
<1>3. CASE OpenFile
  <2>1. ASSUME NEW d \in Devices PROVE IsPrefix(<<>>, UserAgent(d))
    <3>1. UserAgent(d) \in Seq(Glyphs) /\ 0 \in 0 .. Len(UserAgent(d))
      BY AgentIsText
    <3> QED
      BY <3>1, Beginning
  <2>2. file' # <<>> => \E d \in Devices : IsPrefix(file'[1], UserAgent(d))
    BY <1>3, <2>1 DEF OpenFile
  <2> QED
    BY <1>3, <2>2 DEF OpenFile, Fail
<1>4. CASE WriteFile
  <2>1. PICK d \in Devices : d = phone /\ agent = UserAgent(d)
    BY <1>4 DEF WriteFile
  <2>2. agent \in Seq(Glyphs)
    BY <2>1, AgentIsText
  <2>3. PICK n \in 0 .. Len(agent) :
          /\ file' = << Over(SubSeq(agent, 1, n), file[1]) >>
          /\ saving' = IF n = Len(agent) THEN "chmod" ELSE "short"
    BY <1>4 DEF WriteFile
  <2>4. file[1] = <<>>
    BY <1>4 DEF WriteFile
  <2>5. Over(SubSeq(agent, 1, n), file[1]) = SubSeq(agent, 1, n)
    <3>1. SubSeq(agent, 1, n) \in Seq(Glyphs)
      BY <2>2
    <3>2. ASSUME NEW s \in Seq(Glyphs) PROVE Over(s, <<>>) = s
      <4>1. SubSeq(<<>>, Len(s) + 1, Len(<<>>)) = <<>>
        OBVIOUS
      <4>2. s \o <<>> = s
        BY ConcatEmptySeq
      <4> QED
        BY <4>1, <4>2 DEF Over
    <3> QED
      BY <2>4, <3>1, <3>2
  <2>6. file' = << SubSeq(agent, 1, n) >>
    BY <2>3, <2>5
  <2>7. IsPrefix(file'[1], UserAgent(d))
    BY <2>1, <2>2, <2>6, Beginning
  <2>8. n = Len(agent) => file' = <<agent>>
    BY <2>2, <2>6
  <2>9. saving = "write" /\ phone' = phone /\ agent' = agent /\ lately' = lately
    BY <1>4 DEF WriteFile
  <2> QED
    BY <2>1, <2>3, <2>6, <2>7, <2>8, <2>9
<1>5. CASE SetMode
  BY <1>5 DEF SetMode
<1>6. CASE Reboot
  BY <1>6 DEF Reboot
<1>7. CASE UNCHANGED agentVars
  BY <1>7 DEF agentVars
<1> QED
  BY <1>1, <1>2, <1>3, <1>4, <1>5, <1>6, <1>7 DEF AgentNext

\* Places that rise step by step rise.
LEMMA CutsRise ==
  ASSUME NEW N \in Nat, NEW e \in [0 .. N -> Nat], \A k \in 1 .. N : e[k - 1] < e[k]
  PROVE  \A i, j \in 0 .. N : i < j => e[i] < e[j]
<1> DEFINE S == {n \in 0 .. N : \A i \in 0 .. n - 1 : e[i] < e[n]}
<1>1. 0 \in S
  OBVIOUS
<1>2. ASSUME NEW n \in 0 .. N - 1, n \in S PROVE n + 1 \in S
  <2>1. n + 1 \in 1 .. N /\ n + 1 \in 0 .. N /\ n \in 0 .. N
    OBVIOUS
  <2>2. e[n] < e[n + 1]
    <3>1. e[(n + 1) - 1] < e[n + 1] /\ (n + 1) - 1 = n
      BY <2>1
    <3> QED
      BY <3>1
  <2>3. ASSUME NEW i \in 0 .. (n + 1) - 1 PROVE e[i] < e[n + 1]
    <3>1. i \in 0 .. N /\ (i = n \/ i \in 0 .. n - 1)
      OBVIOUS
    <3>2. i = n \/ e[i] < e[n]
      BY <1>2, <3>1
    <3>3. e[i] \in Nat /\ e[n] \in Nat /\ e[n + 1] \in Nat
      BY <2>1, <3>1
    <3> QED
      BY <2>2, <3>2, <3>3
  <2> QED
    BY <2>1, <2>3
<1>3. \A n \in 0 .. N : n \in S
  <2> HIDE DEF S
  <2> QED
    BY <1>1, <1>2, UpToNumber
<1> QED
  BY <1>3

\* Among places that rise, those before a place are as many as its number.
LEMMA CutsCounted ==
  ASSUME NEW N \in Nat, NEW e \in [0 .. N -> Nat], \A k \in 1 .. N : e[k - 1] < e[k]
  PROVE  \A n \in 0 .. N : IsFiniteSet({e[i] : i \in 0 .. n}) /\ Cardinality({e[i] : i \in 0 .. n}) = n + 1
<1> DEFINE Cut(n) == {e[i] : i \in 0 .. n}
<1> DEFINE S == {n \in 0 .. N : IsFiniteSet(Cut(n)) /\ Cardinality(Cut(n)) = n + 1}
<1>1. 0 \in S
  <2>1. Cut(0) = {e[0]}
    OBVIOUS
  <2>2. IsFiniteSet(Cut(0)) /\ Cardinality(Cut(0)) = 1
    BY <2>1, FS_Singleton
  <2>3. 0 \in 0 .. N /\ 0 + 1 = 1
    OBVIOUS
  <2> HIDE DEF Cut
  <2> QED
    BY <2>2, <2>3
<1>2. ASSUME NEW n \in 0 .. N - 1, n \in S PROVE n + 1 \in S
  <2>1. n + 1 \in 0 .. N /\ n \in 0 .. N
    OBVIOUS
  <2>2. Cut(n + 1) = Cut(n) \cup {e[n + 1]}
    <3>1. 0 .. n + 1 = (0 .. n) \cup {n + 1}
      OBVIOUS
    <3> QED
      BY <3>1
  <2>3. e[n + 1] \notin Cut(n)
    <3>1. \A i \in 0 .. n : i \in 0 .. N /\ i < n + 1
      OBVIOUS
    <3>2. \A i \in 0 .. n : e[i] < e[n + 1] /\ e[i] \in Nat
      BY <2>1, <3>1, CutsRise
    <3> QED
      BY <3>2
  <2>4. IsFiniteSet(Cut(n)) /\ Cardinality(Cut(n)) = n + 1
    BY <1>2
  <2> HIDE DEF Cut
  <2>5. IsFiniteSet(Cut(n + 1)) /\ Cardinality(Cut(n + 1)) = (n + 1) + 1
    <3>1. PICK c, x : c = Cut(n) /\ x = e[n + 1]
      OBVIOUS
    <3>2. IsFiniteSet(c \cup {x}) /\ Cardinality(c \cup {x}) = IF x \in c THEN Cardinality(c) ELSE Cardinality(c) + 1
      BY <2>4, <3>1, FS_AddElement
    <3>3. IsFiniteSet(c \cup {x}) /\ Cardinality(c \cup {x}) = Cardinality(c) + 1
      BY <2>3, <3>1, <3>2
    <3> QED
      BY <2>2, <2>4, <3>1, <3>3
  <2> QED
    BY <2>1, <2>5
<1>3. \A n \in 0 .. N : n \in S
  <2> HIDE DEF S
  <2> QED
    BY <1>1, <1>2, UpToNumber
<1> QED
  BY <1>3

\* The slashes of a line, and its two ends.
Cuts(line, e, N) ==
  /\ e \in [0 .. N -> Nat] /\ e[0] = 0 /\ e[N] = Len(line) + 1
  /\ \A k \in 1 .. N : e[k - 1] < e[k]
  /\ \A j \in 1 .. Len(line) : line[j] = "/" <=> \E k \in 1 .. N - 1 : j = e[k]

\* The server finds what is between them.
LEMMA FieldsFound ==
  ASSUME NEW T, NEW line \in Seq(T), NEW N \in Nat \ {0}, NEW e, Cuts(line, e, N)
  PROVE  Fields(line) = [i \in 1 .. N |-> SubSeq(line, e[i - 1] + 1, e[i] - 1)]
<1>0. /\ e \in [0 .. N -> Nat] /\ e[0] = 0 /\ e[N] = Len(line) + 1
      /\ \A k \in 1 .. N : e[k - 1] < e[k]
      /\ \A j \in 1 .. Len(line) : line[j] = "/" <=> \E k \in 1 .. N - 1 : j = e[k]
  BY DEF Cuts
<1>1. \A i, j \in 0 .. N : i < j => e[i] < e[j]
  BY <1>0, CutsRise
<1> DEFINE ends == {k \in DOMAIN line : line[k] = "/"} \cup {0, Len(line) + 1}
<1>2. ends = {e[i] : i \in 0 .. N}
  <2>1. ASSUME NEW x \in ends PROVE x \in {e[i] : i \in 0 .. N}
    <3>1. CASE x = 0 \/ x = Len(line) + 1
      BY <1>0, <3>1
    <3>2. CASE x \in DOMAIN line /\ line[x] = "/"
      <4>1. PICK k \in 1 .. N - 1 : x = e[k]
        <5>1. x \in 1 .. Len(line)
          BY <3>2
        <5> QED
          BY <1>0, <3>2, <5>1
      <4>2. k \in 0 .. N
        OBVIOUS
      <4> QED
        BY <4>1, <4>2
    <3> QED
      BY <3>1, <3>2
  <2>2. ASSUME NEW i \in 0 .. N PROVE e[i] \in ends
    <3>1. CASE i = 0 \/ i = N
      BY <1>0, <3>1
    <3>2. CASE i # 0 /\ i # N
      <4>1. i \in 1 .. N - 1 /\ 0 \in 0 .. N /\ N \in 0 .. N /\ 0 < i /\ i < N
        BY <3>2
      <4>2. e[0] < e[i] /\ e[i] < e[N] /\ e[i] \in Nat
        BY <1>0, <1>1, <4>1
      <4>3. e[i] \in 1 .. Len(line)
        BY <1>0, <4>2
      <4>4. line[e[i]] = "/"
        BY <1>0, <4>1, <4>3
      <4> QED
        BY <4>3, <4>4
    <3> QED
      BY <3>1, <3>2
  <2> QED
    BY <2>1, <2>2
<1> HIDE DEF ends
<1>3. Cardinality(ends) = N + 1
  <2>1. N \in 0 .. N
    OBVIOUS
  <2> QED
    BY <1>0, <1>2, <2>1, CutsCounted
<1>4. ASSUME NEW i \in 0 .. N PROVE Cardinality({j \in ends : j < e[i]}) = i
  <2>1. {j \in ends : j < e[i]} = {e[j] : j \in 0 .. i - 1}
    <3>1. ASSUME NEW j \in 0 .. N PROVE e[j] < e[i] <=> j < i
      <4>1. e[i] \in Nat /\ e[j] \in Nat /\ (j < i \/ j = i \/ i < j)
        BY <1>0
      <4>2. (j < i => e[j] < e[i]) /\ (i < j => e[i] < e[j])
        BY <1>1
      <4> QED
        BY <4>1, <4>2
    <3>2. \A j \in 0 .. N : j < i <=> j \in 0 .. i - 1
      OBVIOUS
    <3>3. \A j \in 0 .. i - 1 : j \in 0 .. N
      OBVIOUS
    <3> QED
      BY <1>2, <3>1, <3>2, <3>3
  <2>2. CASE i = 0
    <3>1. {e[j] : j \in 0 .. i - 1} = {}
      BY <2>2
    <3> QED
      BY <2>1, <2>2, <3>1, FS_EmptySet
  <2>3. CASE i # 0
    <3>1. i - 1 \in 0 .. N /\ (i - 1) + 1 = i
      BY <2>3
    <3>2. Cardinality({e[j] : j \in 0 .. i - 1}) = (i - 1) + 1
      BY <1>0, <3>1, CutsCounted
    <3> QED
      BY <2>1, <3>1, <3>2
  <2> QED
    BY <2>2, <2>3
<1> DEFINE End(i) == CHOOSE k \in ends : Cardinality({j \in ends : j < k}) = i
<1>5. ASSUME NEW i \in 0 .. N PROVE End(i) = e[i]
  <2>1. e[i] \in ends
    BY <1>2
  <2>2. ASSUME NEW k \in ends, Cardinality({j \in ends : j < k}) = i PROVE k = e[i]
    <3>1. PICK n \in 0 .. N : k = e[n]
      BY <1>2
    <3>2. Cardinality({j \in ends : j < k}) = n
      BY <1>4, <3>1
    <3> QED
      BY <2>2, <3>1, <3>2
  <2> QED
    BY <1>4, <2>1, <2>2
<1>6. Fields(line) = [i \in 1 .. Cardinality(ends) - 1 |-> SubSeq(line, End(i - 1) + 1, End(i) - 1)]
  BY DEF Fields, ends
<1>7. \A i \in 1 .. N : i \in 0 .. N /\ i - 1 \in 0 .. N
  OBVIOUS
<1> HIDE DEF End
<1>8. (N + 1) - 1 = N
  OBVIOUS
<1> QED
  BY <1>3, <1>5, <1>6, <1>7, <1>8

\* A stretch of a sequence.
LEMMA StretchOf ==
  ASSUME NEW T, NEW s \in Seq(T), NEW a \in Nat, NEW L \in Nat, NEW b \in Nat, b = a + L, b <= Len(s)
  PROVE  /\ SubSeq(s, a + 1, b) \in Seq(T) /\ Len(SubSeq(s, a + 1, b)) = L
         /\ \A i \in 1 .. L : SubSeq(s, a + 1, b)[i] = s[a + i] /\ a + i \in 1 .. Len(s)
<1>1. \A i \in a + 1 .. b : s[i] \in T
  OBVIOUS
<1>2. /\ SubSeq(s, a + 1, b) \in Seq(T)
      /\ Len(SubSeq(s, a + 1, b)) = IF a + 1 <= b THEN b - (a + 1) + 1 ELSE 0
      /\ \A i \in 1 .. b - (a + 1) + 1 : SubSeq(s, a + 1, b)[i] = s[(a + 1) + i - 1]
  <2>1. PICK m \in Int : m = a + 1
    OBVIOUS
  <2>2. b \in Int /\ \A i \in m .. b : s[i] \in T
    BY <1>1, <2>1
  <2>3. /\ SubSeq(s, m, b) \in Seq(T)
        /\ Len(SubSeq(s, m, b)) = IF m <= b THEN b - m + 1 ELSE 0
        /\ \A i \in 1 .. b - m + 1 : SubSeq(s, m, b)[i] = s[m + i - 1]
    BY <2>2, SubSeqProperties
  <2> QED
    BY <2>1, <2>3
<1>3. (IF a + 1 <= b THEN b - (a + 1) + 1 ELSE 0) = L /\ b - (a + 1) + 1 = L
  OBVIOUS
<1>4. \A i \in 1 .. L : (a + 1) + i - 1 = a + i /\ a + i \in 1 .. Len(s)
  OBVIOUS
<1> QED
  BY <1>2, <1>3, <1>4

\* What lies between the slashes.
LieBetween(line, fields, e, N) == \A k \in 1 .. N : fields[k] = SubSeq(line, e[k - 1] + 1, e[k] - 1)

\* snprintf() puts the fields together with slashes between them, and no others.
LEMMA SlashedIsCut ==
  ASSUME NEW fields \in Seq(Seq(Glyphs)), NEW N \in Nat \ {0}, N = Len(fields),
         \A k \in 1 .. N : \A i \in DOMAIN fields[k] : fields[k][i] # "/"
  PROVE  \E e : Cuts(Slashed(fields), e, N) /\ LieBetween(Slashed(fields), fields, e, N)
<1> DEFINE parts == [k \in 1 .. N |-> fields[k] \o <<"/">>]
<1>1. ASSUME NEW k \in 1 .. N
      PROVE  /\ fields[k] \in Seq(Glyphs) /\ parts[k] \in Seq(Glyphs) /\ Len(parts[k]) = Len(fields[k]) + 1
             /\ Len(fields[k]) \in Nat
             /\ \A i \in 1 .. Len(fields[k]) : parts[k][i] = fields[k][i] /\ parts[k][i] # "/"
             /\ parts[k][Len(fields[k]) + 1] = "/"
  <2>1. fields[k] \in Seq(Glyphs)
    OBVIOUS
  <2>2. PICK f0 \in Seq(Glyphs) : f0 = fields[k]
    BY <2>1
  <2>3. PICK slash : slash = "/"
    OBVIOUS
  <2>4. slash \in Glyphs
    BY <2>3 DEF Glyphs
  <2>5. <<slash>> \in Seq(Glyphs) /\ Len(<<slash>>) = 1 /\ <<slash>>[1] = slash
    BY <2>4
  <2>6. /\ f0 \o <<slash>> \in Seq(Glyphs) /\ Len(f0 \o <<slash>>) = Len(f0) + 1
        /\ \A i \in 1 .. Len(f0) : (f0 \o <<slash>>)[i] = f0[i]
        /\ (f0 \o <<slash>>)[Len(f0) + 1] = slash
    <3>1. \A i \in 1 .. Len(f0) + 1 : (f0 \o <<slash>>)[i] = IF i <= Len(f0) THEN f0[i] ELSE <<slash>>[i - Len(f0)]
      BY <2>5, ConcatProperties
    <3>2. f0 \o <<slash>> \in Seq(Glyphs) /\ Len(f0 \o <<slash>>) = Len(f0) + 1
      BY <2>5, ConcatProperties
    <3>3. \A i \in 1 .. Len(f0) : i \in 1 .. Len(f0) + 1 /\ i <= Len(f0)
      OBVIOUS
    <3>4. Len(f0) + 1 \in 1 .. Len(f0) + 1 /\ ~(Len(f0) + 1 <= Len(f0)) /\ (Len(f0) + 1) - Len(f0) = 1
      OBVIOUS
    <3>5. (f0 \o <<slash>>)[Len(f0) + 1] = <<slash>>[(Len(f0) + 1) - Len(f0)]
      BY <3>1, <3>4
    <3> QED
      BY <2>5, <3>1, <3>2, <3>3, <3>4, <3>5
  <2>7. parts[k] = f0 \o <<slash>>
    BY <2>2, <2>3
  <2>8. \A i \in 1 .. Len(f0) : f0[i] # "/"
    BY <2>2
  <2> HIDE DEF parts
  <2> QED
    BY <2>2, <2>3, <2>6, <2>7, <2>8
<1>2. parts \in Seq(Seq(Glyphs)) /\ Len(parts) = N
  <2>1. \A k \in 1 .. N : parts[k] \in Seq(Glyphs)
    BY <1>1
  <2>2. parts = [k \in 1 .. N |-> parts[k]]
    OBVIOUS
  <2> HIDE DEF parts
  <2>3. parts \in [1 .. N -> Seq(Glyphs)]
    BY <2>1, <2>2
  <2> QED
    BY <2>3
<1>3. Slashed(fields) = Front(FlattenSeq(parts))
  BY DEF Slashed
<1> HIDE DEF parts
<1>4. PICK g \in [0 .. N -> Seq(Glyphs)] : Grows(g, parts, N) /\ FlattenSeq(parts) = g[N]
  BY <1>2, FlattenGrows
<1>5. g[0] = <<>> /\ \A n \in 1 .. N : g[n] = g[n - 1] \o parts[n]
  BY <1>4 DEF Grows
<1> DEFINE e == [n \in 0 .. N |-> Len(g[n])]
<1>6. e \in [0 .. N -> Nat] /\ e[0] = 0 /\ \A n \in 0 .. N : e[n] = Len(g[n]) /\ e[n] \in Nat
  <2>1. \A n \in 0 .. N : Len(g[n]) \in Nat
    OBVIOUS
  <2>2. Len(g[0]) = 0
    BY <1>5
  <2> QED
    BY <2>1, <2>2
<1> HIDE DEF e
<1>7. ASSUME NEW n \in 1 .. N
      PROVE  /\ n - 1 \in 0 .. N /\ n \in 0 .. N /\ e[n] = e[n - 1] + Len(fields[n]) + 1 /\ e[n - 1] < e[n]
             /\ \A j \in 1 .. e[n - 1] : g[n][j] = g[n - 1][j]
             /\ \A i \in 1 .. Len(fields[n]) + 1 : g[n][e[n - 1] + i] = parts[n][i]
  <2>1. n - 1 \in 0 .. N /\ n \in 0 .. N
    OBVIOUS
  <2>2. PICK a \in Seq(Glyphs), b \in Seq(Glyphs) : a = g[n - 1] /\ b = parts[n]
    BY <1>1, <2>1
  <2>3. g[n] = a \o b
    BY <1>5, <2>2
  <2>4. Len(a) = e[n - 1] /\ Len(b) = Len(fields[n]) + 1
    BY <1>1, <1>6, <2>1, <2>2
  <2>5. /\ Len(a \o b) = Len(a) + Len(b)
        /\ \A i \in 1 .. Len(a) + Len(b) : (a \o b)[i] = IF i <= Len(a) THEN a[i] ELSE b[i - Len(a)]
    BY ConcatProperties
  <2>6. Len(a) \in Nat /\ Len(b) \in Nat /\ Len(fields[n]) \in Nat
    BY <1>1
  <2>7. e[n] = Len(a) + Len(b)
    BY <1>6, <2>1, <2>3, <2>5
  <2>8. \A j \in 1 .. Len(a) : (a \o b)[j] = a[j]
    BY <2>5, <2>6
  <2>9. \A i \in 1 .. Len(b) : (a \o b)[Len(a) + i] = b[i]
    <3> SUFFICES ASSUME NEW i \in 1 .. Len(b) PROVE (a \o b)[Len(a) + i] = b[i]
      OBVIOUS
    <3>1. Len(a) + i \in 1 .. Len(a) + Len(b) /\ ~(Len(a) + i <= Len(a)) /\ (Len(a) + i) - Len(a) = i
      BY <2>6
    <3>2. (a \o b)[Len(a) + i] = b[(Len(a) + i) - Len(a)]
      BY <2>5, <3>1
    <3> QED
      BY <3>1, <3>2
  <2>10. e[n] = e[n - 1] + Len(fields[n]) + 1 /\ e[n - 1] < e[n]
    <3>1. PICK la \in Nat, lf \in Nat : la = Len(a) /\ lf = Len(fields[n])
      BY <2>6
    <3>2. Len(b) = lf + 1 /\ e[n - 1] = la /\ e[n] = la + Len(b)
      BY <2>4, <2>7, <3>1
    <3>3. e[n] = la + lf + 1 /\ la < la + lf + 1
      BY <3>2
    <3> QED
      BY <3>1, <3>2, <3>3
  <2>11. \A j \in 1 .. e[n - 1] : g[n][j] = g[n - 1][j]
    BY <2>2, <2>3, <2>4, <2>8
  <2>12. \A i \in 1 .. Len(fields[n]) + 1 : g[n][e[n - 1] + i] = parts[n][i]
    BY <2>2, <2>3, <2>4, <2>9
  <2> QED
    BY <2>1, <2>10, <2>11, <2>12
<1>8. \A i, j \in 0 .. N : i < j => e[i] < e[j]
  BY <1>6, <1>7, CutsRise
\* What is there stays.
<1>9. ASSUME NEW k \in 0 .. N, NEW j \in 1 .. e[k] PROVE g[N][j] = g[k][j]
  <2> DEFINE S == {m \in 0 .. N : m >= k => g[m][j] = g[k][j]}
  <2>1. 0 \in S
    <3>1. 0 \in 0 .. N /\ (0 >= k => k = 0)
      OBVIOUS
    <3> QED
      BY <3>1
  <2>2. ASSUME NEW m \in 0 .. N - 1, m \in S PROVE m + 1 \in S
    <3>1. m + 1 \in 1 .. N /\ m + 1 \in 0 .. N /\ m \in 0 .. N /\ (m + 1) - 1 = m
      OBVIOUS
    <3>2. CASE m + 1 <= k
      <4>1. m + 1 = k \/ ~(m + 1 >= k)
        BY <3>2
      <4> QED
        BY <3>1, <4>1
    <3>3. CASE ~(m + 1 <= k)
      <4>1. m >= k
        BY <3>3
      <4>2. g[m][j] = g[k][j]
        BY <2>2, <4>1
      <4>3. e[k] <= e[m] /\ e[m] \in Nat /\ e[k] \in Nat
        <5>0. k = m \/ k < m
          BY <4>1
        <5>1. k = m \/ e[k] < e[m]
          BY <1>8, <3>1, <5>0
        <5> QED
          BY <1>6, <3>1, <5>1
      <4>4. j \in 1 .. e[m]
        BY <4>3
      <4>5. g[m + 1][j] = g[(m + 1) - 1][j]
        <5>1. PICK n \in 1 .. N : n = m + 1
          BY <3>1
        <5>2. n - 1 = m
          BY <5>1
        <5>3. \A i \in 1 .. e[n - 1] : g[n][i] = g[n - 1][i]
          BY <1>7
        <5> QED
          BY <4>4, <5>1, <5>2, <5>3
      <4> QED
        BY <3>1, <4>2, <4>5
    <3> QED
      BY <3>2, <3>3
  <2>3. \A m \in 0 .. N : m \in S
    <3> HIDE DEF S
    <3> QED
      BY <2>1, <2>2, UpToNumber
  <2>4. N \in S /\ N >= k
    <3> HIDE DEF S
    <3>1. N \in 0 .. N
      OBVIOUS
    <3> QED
      BY <2>3, <3>1
  <2> QED
    BY <2>4
<1> PICK all \in Seq(Glyphs) : all = g[N]
  OBVIOUS
<1>10. Len(all) = e[N] /\ Len(all) \in Nat
  BY <1>6
<1>11. ASSUME NEW k \in 1 .. N, NEW i \in 1 .. Len(fields[k]) + 1
       PROVE  /\ e[k - 1] + i \in 1 .. Len(all) /\ e[k - 1] + i <= e[k]
              /\ all[e[k - 1] + i] = parts[k][i]
  <2>1. /\ k - 1 \in 0 .. N /\ k \in 0 .. N /\ e[k] = e[k - 1] + Len(fields[k]) + 1
        /\ g[k][e[k - 1] + i] = parts[k][i]
    BY <1>7
  <2>2. e[k - 1] \in Nat /\ e[k] \in Nat /\ Len(fields[k]) \in Nat
    BY <1>1, <1>6, <2>1
  <2>3. e[k - 1] + i \in 1 .. e[k]
    BY <2>1, <2>2
  <2>4. all[e[k - 1] + i] = g[k][e[k - 1] + i]
    BY <1>9, <2>1, <2>3
  <2>5. e[k] <= e[N]
    <3>1. N \in 0 .. N /\ (k = N \/ k < N)
      OBVIOUS
    <3>2. k = N \/ e[k] < e[N]
      BY <1>8, <2>1, <3>1
    <3>3. e[N] \in Nat
      BY <1>6, <3>1
    <3> QED
      BY <2>2, <3>2, <3>3
  <2>6. e[k - 1] + i \in 1 .. Len(all) /\ e[k - 1] + i <= e[k]
    BY <1>10, <2>2, <2>3, <2>5
  <2> QED
    BY <2>1, <2>4, <2>6
\* Every place is in one of the stretches.
<1>12. ASSUME NEW j \in 1 .. Len(all)
       PROVE  \E k \in 1 .. N : \E i \in 1 .. Len(fields[k]) + 1 : j = e[k - 1] + i
  <2> DEFINE S == {k \in 0 .. N : j <= e[k]}
  <2>1. N \in S
    BY <1>10
  <2>2. S \in SUBSET Nat /\ S # {}
    BY <2>1
  <2>3. PICK k \in S : \A m \in S : k <= m
    BY <2>2, LeastNumber
  <2>4. k # 0
    BY <1>6
  <2>5. k \in 1 .. N /\ k - 1 \in 0 .. N /\ ~(k <= k - 1)
    BY <2>4
  <2>6. ~(j <= e[k - 1])
    BY <2>3, <2>5
  <2>7. e[k] = e[k - 1] + Len(fields[k]) + 1 /\ j <= e[k]
    BY <1>7, <2>5
  <2>8. e[k - 1] \in Nat /\ Len(fields[k]) \in Nat
    BY <1>1, <1>6, <2>5
  <2>9. j - e[k - 1] \in 1 .. Len(fields[k]) + 1 /\ j = e[k - 1] + (j - e[k - 1])
    BY <2>6, <2>7, <2>8
  <2> QED
    BY <2>5, <2>9
<1> PICK line : line = SubSeq(all, 1, Len(all) - 1)
  OBVIOUS
<1>13. Slashed(fields) = line
  BY <1>3, <1>4 DEF Front
<1>14. Len(all) >= 1
  <2>1. N \in 1 .. N /\ N - 1 \in 0 .. N
    OBVIOUS
  <2>2. e[N - 1] < e[N] /\ e[N - 1] \in Nat
    BY <1>6, <1>7, <2>1
  <2> QED
    BY <1>10, <2>2
<1>15. /\ line \in Seq(Glyphs) /\ Len(line) = Len(all) - 1 /\ Len(line) \in Nat
       /\ \A j \in 1 .. Len(line) : line[j] = all[j]
  <2>1. PICK L \in Nat, z \in Nat : L = Len(all) - 1 /\ z = 0
    BY <1>10, <1>14
  <2>2. L = z + L /\ L <= Len(all) /\ z + 1 = 1
    BY <1>10, <2>1
  <2>3. /\ SubSeq(all, z + 1, L) \in Seq(Glyphs) /\ Len(SubSeq(all, z + 1, L)) = L
        /\ \A i \in 1 .. L : SubSeq(all, z + 1, L)[i] = all[z + i] /\ z + i \in 1 .. Len(all)
    BY <2>2, StretchOf
  <2>4. line = SubSeq(all, z + 1, L)
    BY <2>1, <2>2
  <2>5. \A i \in 1 .. L : z + i = i
    BY <2>1
  <2> QED
    BY <2>1, <2>3, <2>4, <2>5
<1>16. Cuts(line, e, N)
  <2>1. ASSUME NEW j \in 1 .. Len(line), line[j] = "/" PROVE \E k \in 1 .. N - 1 : j = e[k]
    <3>1. j \in 1 .. Len(all) /\ all[j] = "/"
      BY <1>15, <2>1
    <3>2. PICK k \in 1 .. N : \E i \in 1 .. Len(fields[k]) + 1 : j = e[k - 1] + i
      BY <1>12, <3>1
    <3>3. PICK i \in 1 .. Len(fields[k]) + 1 : j = e[k - 1] + i
      BY <3>2
    <3>4. all[j] = parts[k][i]
      BY <1>11, <3>3
    <3>5. ~(i \in 1 .. Len(fields[k]))
      BY <1>1, <3>1, <3>4
    <3>6. i = Len(fields[k]) + 1
      BY <1>1, <3>5
    <3>7. j = e[k] /\ k \in 0 .. N
      <4>1. e[k] = e[k - 1] + Len(fields[k]) + 1 /\ e[k - 1] \in Nat /\ Len(fields[k]) \in Nat
        BY <1>1, <1>6, <1>7
      <4>2. e[k - 1] + (Len(fields[k]) + 1) = e[k - 1] + Len(fields[k]) + 1
        BY <4>1
      <4> QED
        BY <3>3, <3>6, <4>1, <4>2
    <3>8. k # N
      BY <1>10, <1>15, <3>7
    <3>9. k \in 1 .. N - 1
      BY <3>8
    <3> QED
      BY <3>7, <3>9
  <2>2. ASSUME NEW j \in 1 .. Len(line), NEW k \in 1 .. N - 1, j = e[k] PROVE line[j] = "/"
    <3>1. k \in 1 .. N /\ Len(fields[k]) + 1 \in 1 .. Len(fields[k]) + 1
      BY <1>1
    <3>2. e[k] = e[k - 1] + (Len(fields[k]) + 1)
      <4>1. /\ k - 1 \in 0 .. N /\ e[k] = e[k - 1] + Len(fields[k]) + 1
            /\ Len(fields[k]) \in Nat
        BY <1>1, <1>7, <3>1
      <4>2. e[k - 1] \in Nat
        BY <1>6, <4>1
      <4>3. PICK u \in Nat, v \in Nat : u = e[k - 1] /\ v = Len(fields[k])
        BY <4>1, <4>2
      <4>4. u + v + 1 = u + (v + 1)
        OBVIOUS
      <4> QED
        BY <4>1, <4>3, <4>4
    <3>3. all[j] = parts[k][Len(fields[k]) + 1]
      <4>1. all[e[k - 1] + (Len(fields[k]) + 1)] = parts[k][Len(fields[k]) + 1]
        BY <1>11, <3>1
      <4> QED
        BY <2>2, <3>2, <4>1
    <3> QED
      BY <1>1, <1>15, <3>1, <3>3
  <2>3. e[N] = Len(line) + 1
    BY <1>10, <1>15
  <2>4. \A k \in 1 .. N : e[k - 1] < e[k]
    BY <1>7
  <2>5. ASSUME NEW j \in 1 .. Len(line) PROVE line[j] = "/" <=> \E k \in 1 .. N - 1 : j = e[k]
    <3>1. line[j] = "/" => \E k \in 1 .. N - 1 : j = e[k]
      BY <2>1
    <3>2. (\E k \in 1 .. N - 1 : j = e[k]) => line[j] = "/"
      BY <2>2
    <3> QED
      BY <3>1, <3>2
  <2>6. e \in [0 .. N -> Nat] /\ e[0] = 0
    BY <1>6
  <2> QED
    BY <2>3, <2>4, <2>5, <2>6 DEF Cuts
<1>17. LieBetween(line, fields, e, N)
  <2> SUFFICES ASSUME NEW k \in 1 .. N PROVE fields[k] = SubSeq(line, e[k - 1] + 1, e[k] - 1)
    BY DEF LieBetween
  <2>1. PICK f0 \in Seq(Glyphs) : f0 = fields[k]
    BY <1>1
  <2>2. PICK a \in Nat, b \in Nat : a = e[k - 1] /\ b = e[k] - 1 /\ b = a + Len(f0)
    <3>1. e[k] = e[k - 1] + Len(fields[k]) + 1 /\ e[k - 1] \in Nat /\ Len(fields[k]) \in Nat
      BY <1>1, <1>6, <1>7
    <3> QED
      BY <2>1, <3>1
  <2>3. b <= Len(line)
    <3>1. b + 1 <= Len(all)
      <4>1. Len(f0) + 1 \in 1 .. Len(fields[k]) + 1
        BY <2>1
      <4>2. e[k - 1] + (Len(f0) + 1) \in 1 .. Len(all)
        BY <1>11, <4>1
      <4> QED
        BY <2>1, <2>2, <4>2
    <3> QED
      BY <1>15, <3>1
  <2>4. /\ SubSeq(line, a + 1, b) \in Seq(Glyphs) /\ Len(SubSeq(line, a + 1, b)) = Len(f0)
        /\ \A i \in 1 .. Len(f0) : SubSeq(line, a + 1, b)[i] = line[a + i] /\ a + i \in 1 .. Len(line)
    <3>1. PICK L \in Nat : L = Len(f0)
      BY <2>1
    <3>2. b = a + L /\ b <= Len(line) /\ line \in Seq(Glyphs)
      BY <1>15, <2>2, <2>3, <3>1
    <3> QED
      BY <3>1, <3>2, StretchOf
  <2>5. \A i \in 1 .. Len(f0) : line[a + i] = f0[i]
    <3> SUFFICES ASSUME NEW i \in 1 .. Len(f0) PROVE line[a + i] = f0[i]
      OBVIOUS
    <3>1. a + i \in 1 .. Len(line)
      BY <2>4
    <3>2. i \in 1 .. Len(fields[k]) + 1 /\ i \in 1 .. Len(fields[k])
      BY <2>1
    <3>3. all[e[k - 1] + i] = parts[k][i]
      BY <1>11, <3>2
    <3>4. line[a + i] = all[a + i]
      BY <1>15, <3>1
    <3>5. parts[k][i] = fields[k][i]
      BY <1>1, <3>2
    <3> QED
      BY <2>1, <2>2, <3>3, <3>4, <3>5
  <2>6. f0 = SubSeq(line, a + 1, b)
    <3>1. PICK u \in Seq(Glyphs) : u = SubSeq(line, a + 1, b)
      BY <2>4
    <3>2. Len(f0) = Len(u) /\ \A i \in 1 .. Len(f0) : f0[i] = u[i]
      BY <2>4, <2>5, <3>1
    <3> QED
      BY <2>1, <3>1, <3>2, SeqEqual
  <2> QED
    BY <2>1, <2>2, <2>6
<1> QED
  BY <1>13, <1>16, <1>17

\* What has been read of a text after n of its characters.
Reading(h, u, N) ==
  /\ h[0] = <<>> /\ Decode(u) = h[N]
  /\ \A n \in 1 .. N :
       h[n] = IF u[n] # "%" THEN Append(h[n - 1], CharacterAt(u, n))
              ELSE IF n < N THEN h[n - 1] ELSE Append(h[n - 1], "?")

LEMMA DecodeInTurn ==
  ASSUME NEW u, NEW N \in Nat, N = Len(u)
  PROVE  \E T : \E h \in [0 .. N -> Seq(T)] : Reading(h, u, N)
<1> DEFINE T == {"?"} \cup {CharacterAt(u, n) : n \in 1 .. N}
<1> DEFINE Next(s, n) == IF u[n] # "%" THEN Append(s, CharacterAt(u, n)) ELSE IF n < N THEN s ELSE Append(s, "?")
<1> DEFINE step == [n \in 1 .. N |-> [s \in Seq(T) |-> Next(s, n)]]
<1> DEFINE Loop(built) == built = [n \in 0 .. N |-> IF n = 0 THEN <<>> ELSE Next(built[n - 1], n)]
<1>1. <<>> \in Seq(T)
  OBVIOUS
<1>2. ASSUME NEW n \in 1 .. N, NEW s \in Seq(T) PROVE Next(s, n) \in Seq(T)
  <2>1. CharacterAt(u, n) \in T /\ "?" \in T
    OBVIOUS
  <2> HIDE DEF T
  <2> QED
    BY <2>1
<1> HIDE DEF T
<1>3. step \in [1 .. N -> [Seq(T) -> Seq(T)]]
  <2> HIDE DEF Next
  <2> QED
    BY <1>2
<1>4. PICK g \in [0 .. N -> Seq(T)] : Hands(g, <<>>, N, step)
  <2> HIDE DEF step
  <2> QED
    BY <1>1, <1>3, HandedOn
<1>5. g[0] = <<>> /\ \A n \in 1 .. N : g[n] = step[n][g[n - 1]]
  <2> HIDE DEF step
  <2> QED
    BY <1>4 DEF Hands
<1>6. ASSUME NEW n \in 1 .. N PROVE g[n] = Next(g[n - 1], n)
  <2>1. n - 1 \in 0 .. N
    OBVIOUS
  <2>2. g[n - 1] \in Seq(T)
    BY <1>4, <2>1
  <2> HIDE DEF Next
  <2>3. step[n][g[n - 1]] = Next(g[n - 1], n)
    BY <2>2
  <2> HIDE DEF step
  <2> QED
    BY <1>5, <2>3
<1> HIDE DEF step
<1>7. Loop(g)
  <2> DEFINE h == [n \in 0 .. N |-> IF n = 0 THEN <<>> ELSE Next(g[n - 1], n)]
  <2> HIDE DEF Next
  <2>1. ASSUME NEW n \in 0 .. N PROVE g[n] = h[n]
    <3>1. CASE n = 0
      BY <1>5, <3>1
    <3>2. CASE n # 0
      <4>1. n \in 1 .. N
        BY <3>2
      <4> QED
        BY <1>6, <3>2, <4>1
    <3> QED
      BY <3>1, <3>2
  <2>2. g = [n \in 0 .. N |-> g[n]]
    BY <1>4
  <2>3. h = [n \in 0 .. N |-> h[n]]
    OBVIOUS
  <2> HIDE DEF h
  <2>4. g = h
    BY <2>1, <2>2, <2>3
  <2> QED
    BY <2>4 DEF h
<1>8. PICK built : built = (CHOOSE any : Loop(any))
  OBVIOUS
<1>9. Loop(built)
  BY <1>7, <1>8
<1>10. Decode(u) = built[N]
  BY <1>8 DEF Decode
<1>11. \A n \in 0 .. N : built[n] = g[n]
  <2> DEFINE Same == {n \in 0 .. N : built[n] = g[n]}
  <2> HIDE DEF Next
  <2>1. 0 \in Same
    <3>1. 0 \in 0 .. N
      OBVIOUS
    <3>2. built[0] = <<>>
      BY <1>9, <3>1
    <3> QED
      BY <1>5, <3>1, <3>2
  <2>2. ASSUME NEW n \in 0 .. N - 1, n \in Same PROVE n + 1 \in Same
    <3>1. n + 1 \in 1 .. N /\ n + 1 \in 0 .. N /\ n + 1 # 0 /\ (n + 1) - 1 = n
      OBVIOUS
    <3>2. built[n + 1] = Next(built[n], n + 1)
      BY <1>9, <3>1
    <3>3. g[n + 1] = Next(g[n], n + 1)
      BY <1>6, <3>1
    <3> QED
      BY <2>2, <3>1, <3>2, <3>3
  <2>3. \A n \in 0 .. N - 1 : n \in Same => n + 1 \in Same
    BY <2>2
  <2> HIDE DEF Same
  <2>4. \A n \in 0 .. N : n \in Same
    BY <2>1, <2>3, UpToNumber
  <2> QED
    BY <2>4 DEF Same
<1>12. N \in 0 .. N
  OBVIOUS
<1>13. Decode(u) = g[N]
  BY <1>10, <1>11, <1>12
<1>14. Reading(g, u, N)
  BY <1>5, <1>6, <1>13 DEF Reading
<1> QED
  BY <1>4, <1>14

\* Where each part is in the sequence that is put together of them.
Placed(g, parts, N) ==
  /\ \A n \in 1 .. N : n - 1 \in 0 .. N /\ n \in 0 .. N /\ Len(g[n]) = Len(g[n - 1]) + Len(parts[n])
  /\ \A n \in 0 .. N : Len(g[n]) \in Nat /\ Len(g[n]) <= Len(g[N])
  /\ \A n \in 1 .. N : \A i \in 1 .. Len(parts[n]) :
       Len(g[n - 1]) + i \in 1 .. Len(g[N]) /\ g[N][Len(g[n - 1]) + i] = parts[n][i]

LEMMA PartsArePlaced ==
  ASSUME NEW T, NEW parts \in Seq(Seq(T)), NEW N \in Nat, N = Len(parts),
         NEW g \in [0 .. N -> Seq(T)], Grows(g, parts, N)
  PROVE  Placed(g, parts, N)
<1>1. g[0] = <<>> /\ \A n \in 1 .. N : g[n] = g[n - 1] \o parts[n]
  BY DEF Grows
<1>2. ASSUME NEW n \in 1 .. N
      PROVE  /\ n - 1 \in 0 .. N /\ n \in 0 .. N /\ parts[n] \in Seq(T)
             /\ Len(g[n]) = Len(g[n - 1]) + Len(parts[n])
             /\ \A j \in 1 .. Len(g[n - 1]) : g[n][j] = g[n - 1][j]
             /\ \A i \in 1 .. Len(parts[n]) : g[n][Len(g[n - 1]) + i] = parts[n][i]
  <2>1. n - 1 \in 0 .. N /\ n \in 0 .. N
    OBVIOUS
  <2>2. parts[n] \in Seq(T)
    OBVIOUS
  <2>3. PICK a \in Seq(T), b \in Seq(T) : a = g[n - 1] /\ b = parts[n]
    BY <2>1, <2>2
  <2>4. g[n] = a \o b
    BY <1>1, <2>3
  <2>5. /\ Len(a \o b) = Len(a) + Len(b)
        /\ \A i \in 1 .. Len(a) + Len(b) : (a \o b)[i] = IF i <= Len(a) THEN a[i] ELSE b[i - Len(a)]
    BY ConcatProperties
  <2>6. Len(a) \in Nat /\ Len(b) \in Nat
    OBVIOUS
  <2>7. \A j \in 1 .. Len(a) : (a \o b)[j] = a[j]
    BY <2>5, <2>6
  <2>8. \A i \in 1 .. Len(b) : (a \o b)[Len(a) + i] = b[i]
    <3> SUFFICES ASSUME NEW i \in 1 .. Len(b) PROVE (a \o b)[Len(a) + i] = b[i]
      OBVIOUS
    <3>1. Len(a) + i \in 1 .. Len(a) + Len(b) /\ ~(Len(a) + i <= Len(a)) /\ (Len(a) + i) - Len(a) = i
      BY <2>6
    <3>2. (a \o b)[Len(a) + i] = b[(Len(a) + i) - Len(a)]
      BY <2>5, <3>1
    <3> QED
      BY <3>1, <3>2
  <2> QED
    BY <2>1, <2>2, <2>3, <2>4, <2>5, <2>7, <2>8
<1>3. \A n \in 0 .. N : g[n] \in Seq(T) /\ Len(g[n]) \in Nat
  OBVIOUS
\* What is there stays.
<1> DEFINE Kept(m, n) == Len(g[n]) <= Len(g[m]) /\ \A j \in 1 .. Len(g[n]) : g[m][j] = g[n][j]
<1>4. ASSUME NEW n \in 0 .. N PROVE Kept(N, n)
  <2> DEFINE S == {m \in 0 .. N : m >= n => Kept(m, n)}
  <2>1. 0 \in S
    <3>1. 0 \in 0 .. N /\ (0 >= n => n = 0)
      OBVIOUS
    <3>2. Kept(n, n)
      BY <1>3
    <3> QED
      BY <3>1, <3>2
  <2>2. ASSUME NEW m \in 0 .. N - 1, m \in S PROVE m + 1 \in S
    <3>1. m + 1 \in 1 .. N /\ m + 1 \in 0 .. N /\ m \in 0 .. N /\ (m + 1) - 1 = m
      OBVIOUS
    <3>2. CASE m + 1 <= n
      <4>1. m + 1 = n \/ ~(m + 1 >= n)
        BY <3>2
      <4>2. Kept(n, n)
        BY <1>3
      <4> QED
        BY <3>1, <4>1, <4>2
    <3>3. CASE ~(m + 1 <= n)
      <4>1. m >= n
        BY <3>3
      <4>2. Kept(m, n)
        BY <2>2, <4>1
      <4>3. PICK k \in 1 .. N : k = m + 1 /\ k - 1 = m
        BY <3>1
      <4>0. /\ Len(g[k]) = Len(g[k - 1]) + Len(parts[k]) /\ parts[k] \in Seq(T)
            /\ \A j \in 1 .. Len(g[k - 1]) : g[k][j] = g[k - 1][j]
        BY <1>2
      <4>4. Len(g[m + 1]) = Len(g[m]) + Len(parts[m + 1]) /\ parts[m + 1] \in Seq(T)
        BY <4>0, <4>3
      <4>5. \A j \in 1 .. Len(g[m]) : g[m + 1][j] = g[m][j]
        BY <4>0, <4>3
      <4>6. PICK a \in Nat, b \in Nat, c \in Nat, d \in Nat :
              a = Len(g[n]) /\ b = Len(g[m]) /\ c = Len(g[m + 1]) /\ d = Len(parts[m + 1])
        BY <1>3, <3>1, <4>4
      <4>7. a <= b /\ c = b + d /\ a <= c
        <5>1. a <= b /\ c = b + d
          BY <4>2, <4>4, <4>6
        <5> QED
          BY <5>1
      <4>8. \A j \in 1 .. a : j \in 1 .. b
        BY <4>7
      <4>9. \A j \in 1 .. a : g[m + 1][j] = g[n][j]
        BY <4>2, <4>5, <4>6, <4>8
      <4>10. Kept(m + 1, n)
        BY <4>6, <4>7, <4>9
      <4> HIDE DEF Kept
      <4> QED
        BY <3>1, <4>10
    <3> QED
      BY <3>2, <3>3
  <2>3. \A m \in 0 .. N - 1 : m \in S => m + 1 \in S
    BY <2>2
  <2>4. N \in 0 .. N /\ N >= n
    OBVIOUS
  <2> HIDE DEF S
  <2>5. N \in S
    BY <2>1, <2>3, <2>4, UpToNumber
  <2> HIDE DEF Kept
  <2> QED
    BY <2>4, <2>5 DEF S
<1>5. ASSUME NEW n \in 1 .. N, NEW i \in 1 .. Len(parts[n])
      PROVE  Len(g[n - 1]) + i \in 1 .. Len(g[N]) /\ g[N][Len(g[n - 1]) + i] = parts[n][i]
  <2>1. n - 1 \in 0 .. N /\ n \in 0 .. N /\ parts[n] \in Seq(T) /\ Len(g[n]) = Len(g[n - 1]) + Len(parts[n])
    BY <1>2
  <2>2. PICK a \in Nat, b \in Nat, c \in Nat, d \in Nat :
          a = Len(g[n - 1]) /\ b = Len(g[n]) /\ c = Len(g[N]) /\ d = Len(parts[n])
    <3>1. N \in 0 .. N
      OBVIOUS
    <3>2. Len(g[n - 1]) \in Nat /\ Len(g[n]) \in Nat /\ Len(g[N]) \in Nat
      BY <1>3, <2>1, <3>1
    <3>3. Len(parts[n]) \in Nat
      BY <2>1
    <3> QED
      BY <3>2, <3>3
  <2>3. b <= c /\ \A j \in 1 .. b : g[N][j] = g[n][j]
    BY <1>4, <2>1, <2>2
  <2>4. a + i \in 1 .. b /\ a + i \in 1 .. c
    <3>1. b = a + d /\ i \in 1 .. d
      BY <2>1, <2>2
    <3>2. b <= c
      BY <2>3
    <3> QED
      BY <3>1, <3>2
  <2>5. g[n][a + i] = parts[n][i]
    BY <1>2, <2>2
  <2> QED
    BY <2>2, <2>3, <2>4, <2>5
<1> HIDE DEF Kept
<1>6. \A n \in 0 .. N : Len(g[n]) <= Len(g[N])
  BY <1>4 DEF Kept
<1> QED
  BY <1>2, <1>3, <1>5, <1>6 DEF Placed

\* A code says which character it is of.
LEMMA HexSays ==
  ASSUME NEW ch \in Specials
  PROVE  /\ Hex(ch) \in {"2F", "2B", "7C", "25"}
         /\ \A c \in Specials : Hex(c) = Hex(ch) => c = ch
         /\ (CHOOSE c \in Specials : Hex(c) = Hex(ch)) = ch
<1>1. Hex("/") = "2F" /\ Hex("+") = "2B" /\ Hex("|") = "7C" /\ Hex("%") = "25"
  BY DEF Hex
<1>2. \A c \in Specials : c = "/" \/ c = "+" \/ c = "|" \/ c = "%"
  BY DEF Specials
<1>3. Hex(ch) \in {"2F", "2B", "7C", "25"}
  BY <1>1, <1>2
<1>4. \A c \in Specials : Hex(c) = Hex(ch) => c = ch
  BY <1>1, <1>2
<1>5. PICK x : x = (CHOOSE c \in Specials : Hex(c) = Hex(ch))
  OBVIOUS
<1>6. x \in Specials /\ Hex(x) = Hex(ch)
  BY <1>5
<1>7. x = ch
  BY <1>4, <1>6
<1> QED
  BY <1>3, <1>4, <1>5, <1>7

\* A blank is shown as "#".
Glyph(ch) == IF ch = " " THEN "#" ELSE ch

\* What the characters of a line are.
LEMMA HashedIs ==
  ASSUME NEW s \in Seq(Glyphs), NEW N \in Nat, N = Len(s)
  PROVE  /\ Hashed(s) \in Seq(Glyphs) /\ Len(Hashed(s)) = N
         /\ \A k \in 1 .. N : Hashed(s)[k] = Glyph(s[k])
<1>1. Hashed(s) = [k \in 1 .. N |-> Glyph(s[k])]
  BY DEF Hashed, Glyph
<1>2. ASSUME NEW k \in 1 .. N PROVE Glyph(s[k]) \in Glyphs
  <2>1. s[k] \in Glyphs /\ "#" \in Glyphs
    BY DEF Glyphs
  <2> QED
    BY <2>1 DEF Glyph
<1>3. ASSUME NEW r, r = [k \in 1 .. N |-> Glyph(s[k])]
      PROVE  r \in Seq(Glyphs) /\ Len(r) = N /\ \A k \in 1 .. N : r[k] = Glyph(s[k])
  BY <1>2, <1>3
<1> QED
  BY <1>1, <1>3

\* The server reads an encoded text as it was, but for the blanks.
LEMMA DecodeEncoding ==
  ASSUME NEW t \in Seq(Glyphs)
  PROVE  Decode(Hashed(Encoding(t))) = Hashed(t)
<1> PICK N \in Nat : N = Len(t)
  OBVIOUS
<1> DEFINE parts == [k \in 1 .. N |-> Code(t[k])]
<1>1. ASSUME NEW k \in 1 .. N PROVE parts[k] = Code(t[k]) /\ parts[k] \in Seq(Glyphs) /\ t[k] \in Glyphs
  <2>1. t[k] \in Glyphs
    OBVIOUS
  <2>2. Code(t[k]) \in Seq(Glyphs)
    BY <2>1, CodeIsText, PlainIsText
  <2> QED
    BY <2>1, <2>2
<1>2. parts \in Seq(Seq(Glyphs)) /\ Len(parts) = N
  <2>1. \A k \in 1 .. N : parts[k] \in Seq(Glyphs)
    BY <1>1
  <2>2. parts = [k \in 1 .. N |-> parts[k]]
    OBVIOUS
  <2> HIDE DEF parts
  <2>3. parts \in [1 .. N -> Seq(Glyphs)]
    BY <2>1, <2>2
  <2> QED
    BY <2>3
<1>3. Encoding(t) = FlattenSeq(parts)
  BY DEF Encoding
<1> HIDE DEF parts
<1>4. PICK g \in [0 .. N -> Seq(Glyphs)] : Grows(g, parts, N) /\ FlattenSeq(parts) = g[N]
  BY <1>2, FlattenGrows
<1>5. Placed(g, parts, N)
  BY <1>2, <1>4, PartsArePlaced
<1> PICK M \in Nat : M = Len(g[N])
  <2>1. N \in 0 .. N
    OBVIOUS
  <2> QED
    BY <1>5, <2>1 DEF Placed
<1> PICK u : u = Hashed(g[N])
  OBVIOUS
<1>6. u \in Seq(Glyphs) /\ Len(u) = M /\ \A k \in 1 .. M : u[k] = Glyph(g[N][k])
  <2>1. PICK s \in Seq(Glyphs) : s = g[N]
    <3>1. N \in 0 .. N
      OBVIOUS
    <3> QED
      BY <3>1
  <2>2. M = Len(s)
    BY <2>1
  <2>3. Hashed(s) \in Seq(Glyphs) /\ Len(Hashed(s)) = M /\ \A k \in 1 .. M : Hashed(s)[k] = Glyph(s[k])
    BY <2>2, HashedIs
  <2> QED
    BY <2>1, <2>3
<1>7. PICK T : \E h \in [0 .. M -> Seq(T)] : Reading(h, u, M)
  BY <1>6, DecodeInTurn
<1>8. PICK h \in [0 .. M -> Seq(T)] : Reading(h, u, M)
  BY <1>7
<1>9. /\ h[0] = <<>> /\ Decode(u) = h[M]
      /\ \A n \in 1 .. M :
           h[n] = IF u[n] # "%" THEN Append(h[n - 1], CharacterAt(u, n))
                  ELSE IF n < M THEN h[n - 1] ELSE Append(h[n - 1], "?")
  BY <1>8 DEF Reading
<1> DEFINE Sofar(k) == [i \in 1 .. k |-> Glyph(t[i])]
<1>10. ASSUME NEW k \in 0 .. N - 1 PROVE Append(Sofar(k), Glyph(t[k + 1])) = Sofar(k + 1)
  <2>1. ASSUME NEW i \in 1 .. k + 1 PROVE Glyph(t[i]) \in Glyphs
    <3>1. t[i] \in Glyphs /\ "#" \in Glyphs
      BY DEF Glyphs
    <3> QED
      BY <3>1 DEF Glyph
  <2>2. PICK a \in Seq(Glyphs), b \in Seq(Glyphs), x \in Glyphs : a = Sofar(k) /\ b = Sofar(k + 1) /\ x = Glyph(t[k + 1])
    <3>1. k + 1 \in 1 .. k + 1 /\ \A i \in 1 .. k : i \in 1 .. k + 1
      OBVIOUS
    <3>2. Sofar(k) \in [1 .. k -> Glyphs] /\ Sofar(k + 1) \in [1 .. k + 1 -> Glyphs]
      BY <2>1, <3>1
    <3>3. k \in Nat /\ k + 1 \in Nat
      OBVIOUS
    <3>4. \A n \in Nat : \A f0 \in [1 .. n -> Glyphs] : f0 \in Seq(Glyphs)
      OBVIOUS
    <3> HIDE DEF Sofar
    <3> QED
      BY <2>1, <3>1, <3>2, <3>3, <3>4
  <2>3. Len(a) = k /\ Len(b) = k + 1 /\ (\A i \in 1 .. k : a[i] = b[i]) /\ b[k + 1] = x
    BY <2>2
  <2>4. Append(a, x) = b
    BY <2>3
  <2> QED
    BY <2>2, <2>4
<1> DEFINE L(k) == Len(g[k])
<1> DEFINE Right(k) == h[L(k)] = Sofar(k) /\ (L(k) = 0 \/ u[L(k)] # "%")
<1> DEFINE S == {k \in 0 .. N : Right(k)}
<1>11. 0 \in S
  <2>1. g[0] = <<>>
    BY <1>4 DEF Grows
  <2>2. L(0) = 0
    BY <2>1
  <2>3. Sofar(0) = <<>>
    OBVIOUS
  <2>4. 0 \in 0 .. N
    OBVIOUS
  <2> HIDE DEF L, Sofar
  <2> QED
    BY <1>9, <2>2, <2>3, <2>4
<1> HIDE DEF Sofar
<1>12. ASSUME NEW k \in 0 .. N - 1, k \in S PROVE k + 1 \in S
  <2>1. k + 1 \in 1 .. N /\ k + 1 \in 0 .. N /\ k \in 0 .. N
    OBVIOUS
  <2>2. PICK n \in 1 .. N : n = k + 1 /\ n - 1 = k
    BY <2>1
  <2>3. PICK ch \in Glyphs : ch = t[n]
    BY <1>1
  <2>4. PICK a \in Nat, c \in Nat : a = L(k) /\ c = L(n)
    BY <1>5, <2>1, <2>2 DEF Placed
  <2>5. /\ c = a + Len(parts[n]) /\ c <= M
        /\ \A i \in 1 .. Len(parts[n]) : a + i \in 1 .. M /\ g[N][a + i] = parts[n][i]
    BY <1>5, <2>1, <2>2, <2>4 DEF Placed
  <2>6. parts[n] = Code(ch)
    BY <1>1, <2>3
  <2>7. h[a] = Sofar(k) /\ (a = 0 \/ u[a] # "%")
    BY <1>12, <2>4
  <2>8. Append(Sofar(k), Glyph(ch)) = Sofar(n)
    BY <1>10, <2>2, <2>3
  <2>9. ASSUME NEW i \in 1 .. Len(parts[n]) PROVE a + i \in 1 .. M /\ u[a + i] = Glyph(parts[n][i])
    BY <1>6, <2>5
  <2>10. h[c] = Sofar(n) /\ u[c] # "%"
    <3>1. CASE ch \notin Specials
      <4>1. Len(parts[n]) = 1 /\ parts[n][1] = ch
        BY <2>6, <3>1 DEF Code
      <4>2. c = a + 1 /\ c \in 1 .. M /\ u[c] = Glyph(ch) /\ c - 1 = a
        <5>1. 1 \in 1 .. Len(parts[n])
          BY <4>1
        <5> QED
          BY <2>5, <2>9, <4>1, <5>1
      <4>3. Glyph(ch) # "%"
        BY <3>1 DEF Glyph, Specials
      <4>4. CharacterAt(u, c) = u[c]
        <5>1. ~(c > 1 /\ u[c - 1] = "%")
          BY <2>7, <4>2
        <5> QED
          BY <5>1 DEF CharacterAt
      <4>5. h[c] = Append(h[c - 1], CharacterAt(u, c))
        BY <1>9, <4>2, <4>3
      <4> QED
        BY <2>7, <2>8, <4>2, <4>3, <4>4, <4>5
    <3>2. CASE ch \in Specials
      <4>1. Len(parts[n]) = 2 /\ parts[n][1] = "%" /\ parts[n][2] = Hex(ch)
        BY <2>6, <3>2 DEF Code
      <4>2. 1 \in 1 .. Len(parts[n]) /\ 2 \in 1 .. Len(parts[n])
        BY <4>1
      <4>3. a + 1 \in 1 .. M /\ u[a + 1] = "%"
        <5>1. Glyph("%") = "%"
          BY DEF Glyph
        <5> QED
          BY <2>9, <4>1, <4>2, <5>1
      <4>4. Hex(ch) # "%" /\ Hex(ch) # " " /\ (CHOOSE x \in Specials : Hex(x) = Hex(ch)) = ch
        BY <3>2, HexSays
      <4>5. Glyph(Hex(ch)) = Hex(ch)
        BY <4>4 DEF Glyph
      <4>6. c = a + 2 /\ c \in 1 .. M /\ u[c] = Hex(ch) /\ c - 1 = a + 1 /\ c > 1
        BY <2>5, <2>9, <4>1, <4>2, <4>5
      <4>7. h[a + 1] = h[a]
        <5>1. PICK m \in 1 .. M : m = a + 1 /\ m - 1 = a /\ m < M
          BY <4>3, <4>6
        <5> QED
          BY <1>9, <4>3, <5>1
      <4>8. h[c] = Append(h[c - 1], CharacterAt(u, c))
        BY <1>9, <4>4, <4>6
      <4>9. CharacterAt(u, c) = ch
        BY <4>3, <4>4, <4>6 DEF CharacterAt
      <4>10. Glyph(ch) = ch
        BY <3>2 DEF Glyph, Specials
      <4> QED
        BY <2>7, <2>8, <4>4, <4>6, <4>7, <4>8, <4>9, <4>10
    <3> QED
      BY <3>1, <3>2
  <2>11. Right(k + 1)
    <3> HIDE DEF L
    <3> QED
      BY <2>2, <2>4, <2>10
  <2> HIDE DEF Right
  <2> QED
    BY <2>1, <2>11
<1>13. \A k \in 0 .. N - 1 : k \in S => k + 1 \in S
  BY <1>12
<1>14. N \in 0 .. N
  OBVIOUS
<1>15. N \in S
  <2> HIDE DEF S
  <2> QED
    BY <1>11, <1>13, <1>14, UpToNumber
<1>16. h[M] = Sofar(N)
  BY <1>15
<1>17. Sofar(N) = Hashed(t)
  <2>1. DOMAIN t = 1 .. N
    OBVIOUS
  <2> QED
    BY <2>1 DEF Sofar, Hashed, Glyph
<1> QED
  BY <1>3, <1>4, <1>9, <1>16, <1>17

\* The beginning of a sequence, place by place.
LEMMA FirstOf ==
  ASSUME NEW T, NEW t \in Seq(T), NEW n \in Nat, n <= Len(t)
  PROVE  /\ SubSeq(t, 1, n) \in Seq(T) /\ Len(SubSeq(t, 1, n)) = n
         /\ \A i \in 1 .. n : SubSeq(t, 1, n)[i] = t[i]
<1>1. PICK z \in Nat : z = 0
  OBVIOUS
<1>2. n = z + n /\ z + 1 = 1 /\ \A i \in 1 .. n : z + i = i
  BY <1>1
<1>3. /\ SubSeq(t, z + 1, n) \in Seq(T) /\ Len(SubSeq(t, z + 1, n)) = n
      /\ \A i \in 1 .. n : SubSeq(t, z + 1, n)[i] = t[z + i] /\ z + i \in 1 .. Len(t)
  BY <1>2, StretchOf
<1> QED
  BY <1>2, <1>3

\* A character more takes two places at the most.
LEMMA SizeGrows ==
  ASSUME NEW T, NEW t \in Seq(T), NEW n \in Nat, n + 1 <= Len(t)
  PROVE  /\ Size(SubSeq(t, 1, n)) \in Nat /\ Size(SubSeq(t, 1, n + 1)) \in Nat
         /\ Size(SubSeq(t, 1, n + 1)) <= Size(SubSeq(t, 1, n)) + 2
<1> DEFINE wide == {"2F", "2B", "7C", "25"}
<1> DEFINE W(m) == {k \in 1 .. m : t[k] \in wide}
<1>1. ASSUME NEW m \in Nat, m <= Len(t)
      PROVE  Size(SubSeq(t, 1, m)) = m + Cardinality(W(m))
  <2>1. PICK s : s = SubSeq(t, 1, m)
    OBVIOUS
  <2>2. s \in Seq(T) /\ Len(s) = m /\ \A i \in 1 .. m : s[i] = t[i]
    BY <1>1, <2>1, FirstOf
  <2>3. DOMAIN s = 1 .. m
    BY <2>2
  <2>4. {k \in DOMAIN s : s[k] \in wide} = W(m)
    <3> HIDE DEF wide
    <3> QED
      BY <2>2, <2>3
  <2>5. Size(s) = Len(s) + Cardinality({k \in DOMAIN s : s[k] \in wide})
    BY DEF Size, Quantify
  <2> HIDE DEF W
  <2> QED
    BY <2>1, <2>2, <2>4, <2>5
<1>2. ASSUME NEW m \in Nat PROVE IsFiniteSet(W(m)) /\ Cardinality(W(m)) \in Nat
  <2>1. IsFiniteSet(1 .. m)
    BY FS_Interval
  <2>2. W(m) \subseteq 1 .. m
    OBVIOUS
  <2> HIDE DEF W
  <2>3. IsFiniteSet(W(m))
    BY <2>1, <2>2, FS_Subset
  <2> QED
    BY <2>3, FS_CardinalityType
<1>3. W(n + 1) \subseteq W(n) \cup {n + 1}
  <2>1. 1 .. n + 1 = (1 .. n) \cup {n + 1}
    OBVIOUS
  <2> HIDE DEF wide
  <2> QED
    BY <2>1
<1> HIDE DEF W
<1>4. Cardinality(W(n + 1)) <= Cardinality(W(n)) + 1
  <2>1. PICK c, x : c = W(n) /\ x = n + 1
    OBVIOUS
  <2>2. IsFiniteSet(c) /\ Cardinality(c) \in Nat
    BY <1>2, <2>1
  <2>3. IsFiniteSet(c \cup {x}) /\ Cardinality(c \cup {x}) = IF x \in c THEN Cardinality(c) ELSE Cardinality(c) + 1
    BY <2>2, FS_AddElement
  <2>4. Cardinality(c \cup {x}) <= Cardinality(c) + 1
    BY <2>2, <2>3
  <2>5. PICK w : w = W(n + 1)
    OBVIOUS
  <2>6. w \subseteq c \cup {x}
    BY <1>3, <2>1, <2>5
  <2>7. Cardinality(w) <= Cardinality(c \cup {x})
    BY <2>3, <2>6, FS_Subset
  <2>8. Cardinality(w) \in Nat /\ Cardinality(c \cup {x}) \in Nat
    <3>1. PICK m \in Nat : m = n + 1
      OBVIOUS
    <3>2. Cardinality(W(m)) \in Nat
      BY <1>2
    <3>3. Cardinality(c \cup {x}) \in Nat
      BY <2>3, FS_CardinalityType
    <3> QED
      BY <2>5, <3>1, <3>2, <3>3
  <2> QED
    BY <2>1, <2>2, <2>4, <2>5, <2>7, <2>8
<1>5. n <= Len(t) /\ n + 1 \in Nat
  OBVIOUS
<1>6. Size(SubSeq(t, 1, n)) = n + Cardinality(W(n)) /\ Size(SubSeq(t, 1, n + 1)) = n + 1 + Cardinality(W(n + 1))
  BY <1>1, <1>5
<1>7. PICK a \in Nat, b \in Nat : a = Cardinality(W(n)) /\ b = Cardinality(W(n + 1))
  BY <1>2, <1>5
<1> QED
  BY <1>4, <1>6, <1>7

\* A text was not cut when it leaves so much room that whatever comes next has some.
LEMMA NotCut ==
  ASSUME NEW T, NEW t \in Seq(T), NEW room \in Nat \ {0}, Size(Fitting(t, room)) < room - 2
  PROVE  Fitting(t, room) = t
<1>1. PICK n \in 0 .. Len(t) :
        /\ Fitting(t, room) = SubSeq(t, 1, n) /\ Size(SubSeq(t, 1, n)) < room
        /\ \A k \in 0 .. Len(t) : Size(SubSeq(t, 1, k)) < room => k <= n
  BY FittingFits
<1>2. Len(t) \in Nat
  OBVIOUS
<1>3. ASSUME n # Len(t) PROVE FALSE
  <2>1. n \in Nat /\ n + 1 <= Len(t) /\ n + 1 \in 0 .. Len(t) /\ ~(n + 1 <= n)
    BY <1>2, <1>3
  <2>2. /\ Size(SubSeq(t, 1, n)) \in Nat /\ Size(SubSeq(t, 1, n + 1)) \in Nat
        /\ Size(SubSeq(t, 1, n + 1)) <= Size(SubSeq(t, 1, n)) + 2
    BY <2>1, SizeGrows
  <2>3. ~(Size(SubSeq(t, 1, n + 1)) < room)
    BY <1>1, <2>1
  <2> DEFINE x == Size(SubSeq(t, 1, n + 1))
  <2> DEFINE y == Size(SubSeq(t, 1, n))
  <2>4. x \in Nat /\ y \in Nat /\ x <= y + 2 /\ y < room - 2 /\ ~(x < room)
    BY <1>1, <2>2, <2>3
  <2> HIDE DEF x, y
  <2> QED
    BY <2>4
<1>4. SubSeq(t, 1, n) = t
  <2>1. PICK s : s = SubSeq(t, 1, n)
    OBVIOUS
  <2>2. s \in Seq(T) /\ Len(s) = n /\ \A i \in 1 .. n : s[i] = t[i]
    <3>1. n \in Nat /\ n <= Len(t)
      BY <1>2
    <3> QED
      BY <2>1, <3>1, FirstOf
  <2>3. Len(s) = Len(t) /\ \A i \in 1 .. Len(s) : s[i] = t[i]
    BY <1>3, <2>2
  <2>4. s = t
    BY <2>2, <2>3, SeqEqual
  <2> QED
    BY <2>1, <2>4
<1> QED
  BY <1>1, <1>4

\* Blanks take the room that "#" takes.
LEMMA HashedSize ==
  ASSUME NEW s \in Seq(Glyphs)
  PROVE  Size(Hashed(s)) = Size(s)
<1>1. PICK N \in Nat : N = Len(s)
  OBVIOUS
<1>2. PICK u \in Seq(Glyphs) : u = Hashed(s) /\ Len(u) = N /\ \A k \in 1 .. N : u[k] = Glyph(s[k])
  BY <1>1, HashedIs
<1>3. DOMAIN u = 1 .. N /\ DOMAIN s = 1 .. N
  BY <1>1, <1>2
<1>4. \A ch : Glyph(ch) \in {"2F", "2B", "7C", "25"} <=> ch \in {"2F", "2B", "7C", "25"}
  BY DEF Glyph
<1>5. {k \in DOMAIN u : u[k] \in {"2F", "2B", "7C", "25"}} = {k \in DOMAIN s : s[k] \in {"2F", "2B", "7C", "25"}}
  BY <1>2, <1>3, <1>4
<1> QED
  BY <1>1, <1>2, <1>5 DEF Size, Quantify

\* No field has a slash in it, if the serial number has none.
LEMMA FieldsAreBare ==
  ASSUME NEW d \in Devices, "/" \notin Range(d.serial)
  PROVE  \A k \in 1 .. 15 : \A i \in DOMAIN AgentFields(d)[k] : AgentFields(d)[k][i] # "/"
<1> DEFINE Bare(s) == \A i \in DOMAIN s : s[i] # "/"
<1>1. \A t \in Seq(Glyphs) : Bare(EncodeInPlace(t))
  <2> SUFFICES ASSUME NEW t \in Seq(Glyphs) PROVE Bare(EncodeInPlace(t))
    OBVIOUS
  <2>1. PICK n \in 0 .. Len(t) : EncodeInPlace(t) = Encoding(SubSeq(t, 1, n))
    BY EncodeStops
  <2>2. SubSeq(t, 1, n) \in Seq(Glyphs)
    OBVIOUS
  <2> QED
    BY <2>1, <2>2, EncodingIsText, PlainIsText
<1>2. Bare(ChipsetSerialNo(d.serial))
  <2>1. CASE d.serial = NoSerial
    BY <2>1 DEF ChipsetSerialNo
  <2>2. CASE d.serial # NoSerial
    <3>1. PICK s \in Seq(Glyphs) : s = d.serial
      BY PropertiesAreTexts
    <3>2. PICK n \in 0 .. Len(s) : ChipsetSerialNo(s) = SubSeq(s, 1, n)
      BY <2>2, <3>1, SerialStops
    <3>3. \A i \in 1 .. n : SubSeq(s, 1, n)[i] = s[i] /\ i \in DOMAIN s
      OBVIOUS
    <3>4. DOMAIN SubSeq(s, 1, n) = 1 .. n
      OBVIOUS
    <3>5. \A i \in DOMAIN s : s[i] # "/"
      BY <3>1 DEF Range
    <3> QED
      BY <3>1, <3>2, <3>3, <3>4, <3>5
  <2> QED
    BY <2>1, <2>2
<1> DEFINE r == EncodeInPlace(d.release)
<1> DEFINE m == EncodeInPlace(d.manufacturer)
<1> DEFINE o == EncodeInPlace(d.model)
<1> DEFINE b == EncodeInPlace(d.board)
<1> DEFINE n == EncodeInPlace(d.brand)
<1> DEFINE s == ChipsetSerialNo(d.serial)
<1>3. Bare(r) /\ Bare(m) /\ Bare(o) /\ Bare(b) /\ Bare(n) /\ Bare(s)
  <2> HIDE DEF Bare
  <2> QED
    BY <1>1, <1>2, PropertiesAreTexts
<1>4. AgentFields(d) = << <<"A">>, r, m, o, b, <<"-">>, <<"QCX3">>, <<"s1">>, <<"-">>, s, <<"-">>, n, <<"-">>, <<"-">>, <<"-">> >>
  BY DEF AgentFields
<1>5. Bare(<<"A">>) /\ Bare(<<"-">>) /\ Bare(<<"QCX3">>) /\ Bare(<<"s1">>)
  OBVIOUS
<1> HIDE DEF r, m, o, b, n, s
<1>6. ASSUME NEW k \in 1 .. 15 PROVE Bare(AgentFields(d)[k])
  <2> HIDE DEF Bare
  <2> QED
    BY <1>3, <1>4, <1>5
<1> QED
  BY <1>6

\* What is between two places, with "#" for blanks.
LEMMA HashedStretch ==
  ASSUME NEW s \in Seq(Glyphs), NEW a \in Nat, NEW b \in Nat, a <= b, b <= Len(s)
  PROVE  SubSeq(Hashed(s), a + 1, b) = Hashed(SubSeq(s, a + 1, b))
<1>1. PICK N \in Nat, L \in Nat : N = Len(s) /\ b = a + L
  <2>1. b - a \in Nat /\ b = a + (b - a) /\ Len(s) \in Nat
    OBVIOUS
  <2> QED
    BY <2>1
<1>2. PICK u \in Seq(Glyphs) : u = Hashed(s) /\ Len(u) = N /\ \A k \in 1 .. N : u[k] = Glyph(s[k])
  BY <1>1, HashedIs
<1> PICK p, q : p = SubSeq(u, a + 1, b) /\ q = SubSeq(s, a + 1, b)
  OBVIOUS
<1>3. /\ p \in Seq(Glyphs) /\ Len(p) = L
      /\ \A i \in 1 .. L : p[i] = u[a + i] /\ a + i \in 1 .. Len(u)
  <2>1. b <= Len(u) /\ u \in Seq(Glyphs)
    BY <1>1, <1>2
  <2>2. /\ SubSeq(u, a + 1, b) \in Seq(Glyphs) /\ Len(SubSeq(u, a + 1, b)) = L
        /\ \A i \in 1 .. L : SubSeq(u, a + 1, b)[i] = u[a + i] /\ a + i \in 1 .. Len(u)
    BY <1>1, <2>1, StretchOf
  <2> QED
    BY <2>2
<1>4. /\ q \in Seq(Glyphs) /\ Len(q) = L
      /\ \A i \in 1 .. L : q[i] = s[a + i] /\ a + i \in 1 .. Len(s)
  <2>1. /\ SubSeq(s, a + 1, b) \in Seq(Glyphs) /\ Len(SubSeq(s, a + 1, b)) = L
        /\ \A i \in 1 .. L : SubSeq(s, a + 1, b)[i] = s[a + i] /\ a + i \in 1 .. Len(s)
    BY <1>1, StretchOf
  <2> QED
    BY <2>1
<1>5. PICK v \in Seq(Glyphs) : v = Hashed(q) /\ Len(v) = L /\ \A k \in 1 .. L : v[k] = Glyph(q[k])
  BY <1>4, HashedIs
<1>6. \A i \in 1 .. L : p[i] = v[i]
  BY <1>1, <1>2, <1>3, <1>4, <1>5
<1>7. p = v
  BY <1>3, <1>5, <1>6, SeqEqual
<1> QED
  BY <1>2, <1>3, <1>4, <1>5, <1>7

\* The server finds the fields of a line that was not cut.
LEMMA FieldsCome ==
  ASSUME NEW d \in Devices, "/" \notin Range(d.serial), Size(UserAgent(d)) < AgentMax - 2
  PROVE  Fields(UserAgent(d)) = [i \in 1 .. 15 |-> Hashed(AgentFields(d)[i])]
<1>1. PICK fields \in Seq(Seq(Glyphs)) : fields = AgentFields(d) /\ Len(fields) = 15
  BY FieldsAreTexts
<1>2. PICK line \in Seq(Glyphs) : line = Slashed(fields)
  BY SlashedIsText
<1>3. PICK N \in Nat \ {0} : N = 15
  OBVIOUS
<1>4. \A k \in 1 .. N : \A i \in DOMAIN fields[k] : fields[k][i] # "/"
  BY <1>1, <1>3, FieldsAreBare
<1>5. PICK e : Cuts(line, e, N) /\ LieBetween(line, fields, e, N)
  BY <1>1, <1>2, <1>3, <1>4, SlashedIsCut
<1>6. UserAgent(d) = Hashed(line)
  <2>1. PICK n \in 0 .. Len(line) : Fitting(line, AgentMax) = SubSeq(line, 1, n)
    BY AgentAssumption, FittingFits
  <2>2. PICK s \in Seq(Glyphs) : s = Fitting(line, AgentMax)
    <3>1. SubSeq(line, 1, n) \in Seq(Glyphs)
      OBVIOUS
    <3> QED
      BY <2>1, <3>1
  <2>3. UserAgent(d) = Hashed(s)
    BY <1>1, <1>2, <2>2 DEF UserAgent
  <2>4. Size(s) < AgentMax - 2
    BY <2>3, HashedSize
  <2>5. s = line
    BY <2>2, <2>4, AgentAssumption, NotCut
  <2> QED
    BY <2>3, <2>5
<1>7. PICK M \in Nat : M = Len(line)
  OBVIOUS
<1>8. PICK u \in Seq(Glyphs) : u = Hashed(line) /\ Len(u) = M /\ \A k \in 1 .. M : u[k] = Glyph(line[k])
  BY <1>7, HashedIs
<1>9. /\ e \in [0 .. N -> Nat] /\ e[0] = 0 /\ e[N] = Len(line) + 1
      /\ \A k \in 1 .. N : e[k - 1] < e[k]
      /\ \A j \in 1 .. Len(line) : line[j] = "/" <=> \E k \in 1 .. N - 1 : j = e[k]
  BY <1>5 DEF Cuts
<1>10. Cuts(u, e, N)
  <2>1. \A j \in 1 .. M : u[j] = "/" <=> line[j] = "/"
    BY <1>8 DEF Glyph
  <2> QED
    BY <1>7, <1>8, <1>9, <2>1 DEF Cuts
<1>11. Fields(u) = [i \in 1 .. N |-> SubSeq(u, e[i - 1] + 1, e[i] - 1)]
  BY <1>10, FieldsFound
<1>12. ASSUME NEW i \in 1 .. N PROVE SubSeq(u, e[i - 1] + 1, e[i] - 1) = Hashed(fields[i])
  <2>1. i - 1 \in 0 .. N /\ i \in 0 .. N /\ N \in 0 .. N
    OBVIOUS
  <2>2. e[i - 1] \in Nat /\ e[i] \in Nat /\ e[N] \in Nat /\ e[i - 1] < e[i]
    BY <1>9, <2>1
  <2>3. e[i] <= e[N]
    <3>1. \A p, q \in 0 .. N : p < q => e[p] < e[q]
      BY <1>9, CutsRise
    <3>2. i = N \/ i < N
      OBVIOUS
    <3>3. i = N \/ e[i] < e[N]
      BY <2>1, <3>1, <3>2
    <3> QED
      BY <2>2, <3>3
  <2>4. PICK a \in Nat, b \in Nat : a = e[i - 1] /\ b = e[i] - 1 /\ a <= b /\ b <= Len(line)
    <3>1. e[i] - 1 \in Nat /\ e[i - 1] <= e[i] - 1
      BY <2>2
    <3>2. e[i] - 1 <= Len(line)
      BY <1>7, <1>9, <2>2, <2>3
    <3> QED
      BY <2>2, <3>1, <3>2
  <2>5. SubSeq(u, a + 1, b) = Hashed(SubSeq(line, a + 1, b))
    BY <1>8, <2>4, HashedStretch
  <2>6. fields[i] = SubSeq(line, a + 1, b)
    BY <1>5, <2>4 DEF LieBetween
  <2> QED
    BY <2>4, <2>5, <2>6
<1> QED
  BY <1>1, <1>3, <1>6, <1>8, <1>11, <1>12

\* What is read of a property.
ReadOf(field, t) ==
  /\ IsPrefix(Decode(field), Hashed(t))
  /\ Size(Encoding(t)) < PropertyMax => Decode(field) = Hashed(t)

LEMMA PropertyIsRead ==
  ASSUME NEW t \in Seq(Glyphs)
  PROVE  ReadOf(Hashed(EncodeInPlace(t)), t)
<1>1. PICK n \in 0 .. Len(t) :
        /\ EncodeInPlace(t) = Encoding(SubSeq(t, 1, n))
        /\ Size(Encoding(t)) < PropertyMax => n = Len(t)
  BY EncodeStops
<1>2. PICK N \in Nat : N = Len(t)
  OBVIOUS
<1>3. PICK s \in Seq(Glyphs) :
        s = SubSeq(t, 1, n) /\ Len(s) = n /\ \A i \in 1 .. n : s[i] = t[i]
  <2>1. n \in Nat /\ n <= Len(t)
    BY <1>2
  <2>2. /\ SubSeq(t, 1, n) \in Seq(Glyphs) /\ Len(SubSeq(t, 1, n)) = n
        /\ \A i \in 1 .. n : SubSeq(t, 1, n)[i] = t[i]
    BY <2>1, FirstOf
  <2> QED
    BY <2>2
<1>4. Decode(Hashed(EncodeInPlace(t))) = Hashed(s)
  BY <1>1, <1>3, DecodeEncoding
<1>5. PICK u \in Seq(Glyphs) : u = Hashed(t) /\ Len(u) = N /\ \A k \in 1 .. N : u[k] = Glyph(t[k])
  BY <1>2, HashedIs
<1>6. PICK v \in Seq(Glyphs) : v = Hashed(s) /\ Len(v) = n /\ \A k \in 1 .. n : v[k] = Glyph(s[k])
  <2>1. n \in Nat
    OBVIOUS
  <2> QED
    BY <1>3, <2>1, HashedIs
<1>7. SubSeq(u, 1, n) = v
  <2>1. PICK w \in Seq(Glyphs) :
          w = SubSeq(u, 1, n) /\ Len(w) = n /\ \A i \in 1 .. n : w[i] = u[i]
    <3>1. n \in Nat /\ n <= Len(u)
      BY <1>2, <1>5
    <3>2. /\ SubSeq(u, 1, n) \in Seq(Glyphs) /\ Len(SubSeq(u, 1, n)) = n
          /\ \A i \in 1 .. n : SubSeq(u, 1, n)[i] = u[i]
      BY <1>5, <3>1, FirstOf
    <3> QED
      BY <3>2
  <2>2. \A i \in 1 .. n : w[i] = v[i]
    <3>1. \A i \in 1 .. n : i \in 1 .. N
      BY <1>2
    <3> QED
      BY <1>3, <1>5, <1>6, <2>1, <3>1
  <2>3. w = v
    BY <1>6, <2>1, <2>2, SeqEqual
  <2> QED
    BY <2>1, <2>3
<1>8. IsPrefix(v, u)
  BY <1>2, <1>5, <1>6, <1>7 DEF IsPrefix
<1>9. n = N => v = u
  <2>1. ASSUME n = N PROVE v = u
    <3>1. \A i \in 1 .. N : v[i] = u[i]
      BY <1>3, <1>5, <1>6, <2>1
    <3> QED
      BY <1>5, <1>6, <2>1, <3>1, SeqEqual
  <2> QED
    BY <2>1
<1> QED
  BY <1>1, <1>2, <1>4, <1>5, <1>6, <1>8, <1>9 DEF ReadOf

\* The serial number ends in no blank.
LEMMA SerialHasAnEnd ==
  ASSUME NEW serial \in Seq(Glyphs), "#" \notin Range(serial), NEW field, field = Hashed(ChipsetSerialNo(serial))
  PROVE  field = <<>> \/ Last(field) \notin Blanks \cup {"#"}
<1>0. PICK one \in Nat, z \in Nat : one = 1 /\ z = 0
  OBVIOUS
<1>1. CASE serial = NoSerial
  <2>1. PICK s \in Seq(Glyphs) : s = <<"-">> /\ Len(s) = one /\ s[one] = "-"
    <3>1. "-" \in Glyphs
      BY DEF Glyphs
    <3>2. <<"-">> \in Seq(Glyphs) /\ Len(<<"-">>) = 1 /\ <<"-">>[1] = "-"
      BY <3>1
    <3> QED
      BY <1>0, <3>2
  <2>2. ChipsetSerialNo(serial) = s
    BY <1>1, <2>1 DEF ChipsetSerialNo
  <2>3. Len(Hashed(s)) = one /\ Hashed(s)[one] = Glyph(s[one])
    <3>1. one \in 1 .. one
      BY <1>0
    <3> QED
      BY <2>1, <3>1, HashedIs
  <2>4. Last(field) = Glyph("-")
    BY <2>1, <2>2, <2>3 DEF Last
  <2> QED
    BY <2>4 DEF Glyph, Blanks
<1>2. CASE serial # NoSerial
  <2>1. PICK n \in 0 .. Len(serial) :
          ChipsetSerialNo(serial) = SubSeq(serial, 1, n) /\ (n = 0 \/ serial[n] \notin Blanks)
    BY <1>2, SerialStops
  <2>2. PICK s \in Seq(Glyphs) :
          s = SubSeq(serial, 1, n) /\ Len(s) = n /\ \A i \in 1 .. n : s[i] = serial[i]
    <3>1. n \in Nat /\ n <= Len(serial)
      OBVIOUS
    <3> QED
      BY <3>1, FirstOf
  <2>3. PICK u \in Seq(Glyphs) : u = Hashed(s) /\ Len(u) = n /\ \A k \in 1 .. n : u[k] = Glyph(s[k])
    <3>1. n \in Nat
      OBVIOUS
    <3> QED
      BY <2>2, <3>1, HashedIs
  <2>4. field = u
    BY <2>1, <2>2, <2>3
  <2>5. CASE n = 0
    <3>1. u = <<>>
      BY <2>3, <2>5
    <3> QED
      BY <2>4, <3>1
  <2>6. CASE n # 0
    <3>1. n \in 1 .. n /\ n \in DOMAIN serial
      BY <2>6
    <3>2. serial[n] \notin Blanks /\ serial[n] # "#"
      BY <2>1, <2>6, <3>1 DEF Range
    <3>3. u[n] = serial[n]
      BY <2>2, <2>3, <3>1, <3>2 DEF Glyph, Blanks
    <3>4. Last(field) = serial[n]
      BY <2>3, <2>4, <3>3 DEF Last
    <3> QED
      BY <3>2, <3>4
  <2> QED
    BY <2>5, <2>6
<1> QED
  BY <1>1, <1>2

\* Whatever the properties hold, the server reads them.
LEMMA AgentIsRead == AgentIInv => FieldsAreRead
<1> SUFFICES ASSUME AgentIInv, saving # "no",
                    Size(agent) < AgentMax - 2, {"/", "#"} \cap Range(phone.serial) = {}
             PROVE  LET fields == Fields(agent)
                    IN /\ Len(fields) = 15
                       /\ ReadOf(fields[2], phone.release) /\ ReadOf(fields[3], phone.manufacturer) /\ ReadOf(fields[4], phone.model)
                       /\ ReadOf(fields[5], phone.board) /\ ReadOf(fields[12], phone.brand)
                       /\ fields[10] = <<>> \/ Last(fields[10]) \notin Blanks \cup {"#"}
  BY DEF FieldsAreRead, ReadOf
<1>0. phone \in Devices /\ agent = UserAgent(phone)
  BY DEF AgentIInv
<1>1. PICK fields : fields = Fields(agent)
  OBVIOUS
<1>2. fields = [i \in 1 .. 15 |-> Hashed(AgentFields(phone)[i])]
  BY <1>0, <1>1, FieldsCome
<1>3. Len(fields) = 15 /\ \A i \in 1 .. 15 : fields[i] = Hashed(AgentFields(phone)[i])
  BY <1>2
<1>4. /\ AgentFields(phone)[2] = EncodeInPlace(phone.release) /\ AgentFields(phone)[3] = EncodeInPlace(phone.manufacturer)
      /\ AgentFields(phone)[4] = EncodeInPlace(phone.model) /\ AgentFields(phone)[5] = EncodeInPlace(phone.board)
      /\ AgentFields(phone)[12] = EncodeInPlace(phone.brand) /\ AgentFields(phone)[10] = ChipsetSerialNo(phone.serial)
  BY DEF AgentFields
<1>5. {2, 3, 4, 5, 10, 12} \subseteq 1 .. 15
  OBVIOUS
<1>6. /\ ReadOf(fields[2], phone.release) /\ ReadOf(fields[3], phone.manufacturer) /\ ReadOf(fields[4], phone.model)
      /\ ReadOf(fields[5], phone.board) /\ ReadOf(fields[12], phone.brand)
  BY <1>0, <1>3, <1>4, <1>5, PropertiesAreTexts, PropertyIsRead
<1>7. fields[10] = <<>> \/ Last(fields[10]) \notin Blanks \cup {"#"}
  <2>1. "#" \notin Range(phone.serial) /\ phone.serial \in Seq(Glyphs)
    BY <1>0, PropertiesAreTexts
  <2>2. fields[10] = Hashed(ChipsetSerialNo(phone.serial))
    BY <1>3, <1>4, <1>5
  <2> QED
    BY <2>1, <2>2, SerialHasAnEnd
<1> QED
  BY <1>1, <1>3, <1>6, <1>7

\* The line names the phone and its parts as they are, as far as they have room, and
\* the file holds one line (setXtraUserAgent(), encodeInPlace(), getChipsetSerialNo(),
\* saveUserAgentString()), whatever the properties hold and whatever fails.
THEOREM AgentHolds == AgentSpec => []AgentInv
<1>1. AgentInit => AgentIInv
  BY DEF AgentInit, AgentIInv, FileHoldsOneLine
<1>2. AgentIInv => AgentInv
  BY AgentIsRead DEF AgentIInv, AgentInv
<1> QED
  BY <1>1, <1>2, AgentStep, PTL DEF AgentSpec

\* What goes to the servers of the assistance data and what is asked of them, with
\* both sides at work (LocEngAssist, XtraUserAgent).
THEOREM AssistanceHolds == AssistanceSpec => []AssistanceInv
  BY AssistSound, AgentHolds, PTL DEF AssistanceSpec, AssistanceInv
=============================================================================

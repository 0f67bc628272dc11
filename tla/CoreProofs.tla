------------------------------ MODULE CoreProofs ------------------------------
(***************************************************************************)
(* What gps/core and gps/utils promise to the engine above them: the       *)
(* contexts, which any number of threads ask for at once; the clients of   *)
(* the modem's interface; the timers, whose delegates are deleted once and *)
(* whose wake-ups are not lost between two threads; and, of the audio HAL, *)
(* that the amplifier is powered and clocked while it is used.             *)
(***************************************************************************)
EXTENDS LocContext, LocApi, LocTimer, Amplifier, FiniteSetTheorems, WellFoundedInduction, TLAPS

-----------------------------------------------------------------------------
(* Contexts. *)

Inside == {"querying", "tasking", "creating", "injecting", "leaving"}
Places == Inside \cup {"asking", "sending", "done"}
Contexts == [task : Nat, api : Apis]

ContextTypeOK ==
  /\ mutex \in Askers \cup {Nothing}
  /\ mMsgTask \in Nat \cup {Nothing}
  /\ context \in [Sides -> Contexts \cup {Nothing}]
  /\ mInjectContext \in Sides \cup {Nothing}
  /\ asker \in [Askers -> [at : Places, side : Sides, got : Contexts \cup {Nothing}]]
  /\ made \in [tasks : Nat, fg : Nat, bg : Nat]

\* The mutex is held by the one thread that is between lock and unlock.
OneInside == \A t \in Askers : asker[t].at \in Inside <=> mutex = t

\* What a thread has seen stays true as long as it holds the mutex.
SeenIsTrue ==
  \A t \in Askers :
    LET stage == asker[t].at  here == context[asker[t].side] IN
    /\ stage = "tasking" => mMsgTask = Nothing /\ here = Nothing
    /\ stage = "creating" => mMsgTask # Nothing /\ here = Nothing
    /\ stage \in {"injecting", "leaving", "sending", "done"} => here # Nothing
    /\ stage \in {"leaving", "sending", "done"} => mInjectContext # Nothing
    /\ stage = "done" => asker[t].got = here /\ <<t, mMsgTask>> \in received

\* What was made is what there is.
MadeIsThere ==
  /\ made.tasks = (IF mMsgTask = Nothing THEN 0 ELSE 1)
  /\ mMsgTask # Nothing => mMsgTask = 1
  /\ made.fg = (IF context["fg"] = Nothing THEN 0 ELSE 1)
  /\ made.bg = (IF context["bg"] = Nothing THEN 0 ELSE 1)
  /\ \A s \in Sides : context[s] # Nothing => mMsgTask # Nothing /\ context[s].task = mMsgTask
  /\ injected = (IF mInjectContext = Nothing THEN {} ELSE {mInjectContext})
  /\ mInjectContext # Nothing => context[mInjectContext] # Nothing

ContextIInv == ContextTypeOK /\ OneInside /\ SeenIsTrue /\ MadeIsThere

\* At the start nobody has asked, and there is nothing.
LEMMA InitContext == ContextInit => ContextIInv
<1> SUFFICES ASSUME ContextInit PROVE ContextIInv
  OBVIOUS
<1>1. /\ mutex = Nothing /\ mMsgTask = Nothing /\ mInjectContext = Nothing /\ injected = {}
      /\ context = [s \in Sides |-> Nothing] /\ made = [tasks |-> 0, fg |-> 0, bg |-> 0]
      /\ asker \in [Askers -> [at : {"asking"}, side : Sides, got : {Nothing}]]
  BY DEF ContextInit
<1>2. \A t \in Askers : asker[t].at = "asking" /\ t # Nothing
  BY <1>1, ContextAssumption
<1>3. ContextTypeOK
  BY <1>1 DEF ContextTypeOK, Places
<1>4. OneInside /\ SeenIsTrue
  BY <1>1, <1>2 DEF OneInside, SeenIsTrue, Inside
<1>5. MadeIsThere
  BY <1>1 DEF MadeIsThere, Sides
<1> QED
  BY <1>3, <1>4, <1>5 DEF ContextIInv

\* Where one thread goes on, the others stay.
LEMMA OneGoes ==
  ASSUME ContextTypeOK, NEW t \in Askers, NEW from, NEW to \in Places, Goes(t, from, to)
  PROVE  /\ asker[t].at = from
         /\ asker' \in [Askers -> [at : Places, side : Sides, got : Contexts \cup {Nothing}]]
         /\ \A u \in Askers : /\ asker'[u].side = asker[u].side
                              /\ asker'[u].got = asker[u].got
                              /\ asker'[u].at = IF u = t THEN to ELSE asker[u].at
BY DEF ContextTypeOK, Goes

\* Lock and unlock.
LEMMA LockKeeps ==
  ASSUME ContextIInv, NEW t \in Askers, Enter(t) \/ Unlock(t)
  PROVE  ContextIInv'
<1>1. UNCHANGED <<mMsgTask, context, mInjectContext, made, injected, received>>
  BY DEF Enter, Unlock
<1>2. MadeIsThere'
  BY <1>1 DEF ContextIInv, MadeIsThere
<1>3. CASE Enter(t)
  <2>1. Goes(t, "asking", "querying") /\ mutex = Nothing /\ mutex' = t
    BY <1>3 DEF Enter
  <2>2. /\ asker[t].at = "asking"
        /\ asker' \in [Askers -> [at : Places, side : Sides, got : Contexts \cup {Nothing}]]
        /\ \A u \in Askers : /\ asker'[u].side = asker[u].side
                             /\ asker'[u].got = asker[u].got
                             /\ asker'[u].at = IF u = t THEN "querying" ELSE asker[u].at
    BY <2>1, OneGoes DEF ContextIInv, Places, Inside
  <2>3. OneInside'
    BY <2>1, <2>2, ContextAssumption DEF ContextIInv, OneInside, Inside
  <2>4. SeenIsTrue'
    BY <1>1, <2>2 DEF ContextIInv, SeenIsTrue
  <2> QED
    BY <1>1, <1>2, <2>1, <2>2, <2>3, <2>4 DEF ContextIInv, ContextTypeOK
<1>4. CASE Unlock(t)
  <2>1. Goes(t, "leaving", "sending") /\ mutex' = IF mutex = t THEN Nothing ELSE mutex
    BY <1>4 DEF Unlock
  <2>2. /\ asker[t].at = "leaving"
        /\ asker' \in [Askers -> [at : Places, side : Sides, got : Contexts \cup {Nothing}]]
        /\ \A u \in Askers : /\ asker'[u].side = asker[u].side
                             /\ asker'[u].got = asker[u].got
                             /\ asker'[u].at = IF u = t THEN "sending" ELSE asker[u].at
    BY <2>1, OneGoes DEF ContextIInv, Places, Inside
  <2>3. OneInside'
    BY <2>1, <2>2, ContextAssumption DEF ContextIInv, OneInside, Inside
  <2>4. SeenIsTrue'
    BY <1>1, <2>2 DEF ContextIInv, SeenIsTrue
  <2> QED
    BY <1>1, <1>2, <2>1, <2>2, <2>3, <2>4 DEF ContextIInv, ContextTypeOK
<1> QED
  BY <1>3, <1>4

\* What is done with the mutex held: the others are outside, and nothing that they
\* have seen is changed.
LEMMA InsideKeeps ==
  ASSUME ContextIInv, NEW t \in Askers,
         Query(t) \/ CreateTask(t) \/ CreateContext(t) \/ InjectFeatureConfig(t)
  PROVE  ContextIInv'
<1>1. UNCHANGED <<mutex, received>>
  BY DEF Query, CreateTask, CreateContext, InjectFeatureConfig
<1> DEFINE side == asker[t].side
<1>2. side \in Sides
  BY DEF ContextIInv, ContextTypeOK
<1>3. PICK from \in Inside, to \in Inside : Goes(t, from, to)
  BY DEF Query, CreateTask, CreateContext, InjectFeatureConfig, Inside
<1>4. /\ asker[t].at = from
      /\ asker' \in [Askers -> [at : Places, side : Sides, got : Contexts \cup {Nothing}]]
      /\ \A u \in Askers : /\ asker'[u].side = asker[u].side
                           /\ asker'[u].got = asker[u].got
                           /\ asker'[u].at = IF u = t THEN to ELSE asker[u].at
  BY <1>3, OneGoes DEF ContextIInv, Places
<1>5. OneInside'
  BY <1>1, <1>4 DEF ContextIInv, OneInside
<1>6. \A u \in Askers : u # t => asker[u].at \in {"asking", "sending", "done"}
  BY <1>4, ContextAssumption DEF ContextIInv, OneInside, ContextTypeOK, Places
<1> HIDE DEF side
<1>7. CASE Query(t)
  <2>1. /\ asker[t].at = "querying"
        /\ to = IF context[side] # Nothing THEN "injecting"
                ELSE IF mMsgTask = Nothing THEN "tasking" ELSE "creating"
        /\ UNCHANGED <<mMsgTask, context, mInjectContext, made, injected>>
    BY <1>3, <1>4, <1>7 DEF Query, Goes, side, ContextIInv, ContextTypeOK
  <2>2. SeenIsTrue'
    BY <1>1, <1>4, <2>1 DEF ContextIInv, SeenIsTrue, side
  <2> QED
    BY <1>1, <1>4, <1>5, <2>1, <2>2 DEF ContextIInv, ContextTypeOK, MadeIsThere
<1>8. CASE CreateTask(t)
  <2>1. /\ asker[t].at = "tasking" /\ to = "creating"
        /\ made' = [made EXCEPT !.tasks = @ + 1] /\ mMsgTask' = made'.tasks
        /\ UNCHANGED <<context, mInjectContext, injected>>
    BY <1>3, <1>4, <1>8 DEF CreateTask, Goes, ContextIInv, ContextTypeOK
  <2>2. mMsgTask = Nothing /\ context[side] = Nothing
    BY <2>1 DEF ContextIInv, SeenIsTrue, side
  <2>3. /\ mMsgTask' = 1 /\ made'.tasks = 1 /\ made'.fg = made.fg /\ made'.bg = made.bg
        /\ made' \in [tasks : Nat, fg : Nat, bg : Nat] /\ mMsgTask' # Nothing
    BY <2>1, <2>2, ContextAssumption DEF ContextIInv, ContextTypeOK, MadeIsThere
  <2>4. \A s \in Sides : context[s] = Nothing
    BY <2>2 DEF ContextIInv, MadeIsThere
  <2>5. SeenIsTrue'
    BY <1>1, <1>4, <1>6, <2>1, <2>3, <2>4 DEF ContextIInv, ContextTypeOK, SeenIsTrue
  <2>6. MadeIsThere'
    BY <2>1, <2>3, <2>4 DEF ContextIInv, MadeIsThere
  <2>7. ContextTypeOK'
    BY <1>1, <1>4, <2>1, <2>3 DEF ContextIInv, ContextTypeOK
  <2> QED
    BY <1>5, <2>5, <2>6, <2>7 DEF ContextIInv
<1>9. CASE CreateContext(t)
  <2> DEFINE new == [task |-> mMsgTask, api |-> CreateLocApi]
  <2>1. /\ asker[t].at = "creating" /\ to = "injecting"
        /\ context' = [context EXCEPT ![side] = new]
        /\ made' = [made EXCEPT ![side] = @ + 1]
        /\ UNCHANGED <<mMsgTask, mInjectContext, injected>>
    BY <1>3, <1>4, <1>9 DEF CreateContext, Goes, side, ContextIInv, ContextTypeOK
  <2>2. mMsgTask # Nothing /\ context[side] = Nothing
    BY <2>1 DEF ContextIInv, SeenIsTrue, side
  <2>3. new \in Contexts /\ new # Nothing /\ new.task = mMsgTask
    BY <2>2, ContextAssumption
      DEF Contexts, CreateLocApi, Apis, ContextIInv, ContextTypeOK
  <2> HIDE DEF new
  <2>4. \A s \in Sides : context'[s] = IF s = side THEN new ELSE context[s]
    BY <2>1 DEF ContextIInv, ContextTypeOK
  <2>5. SeenIsTrue'
    BY <1>1, <1>2, <1>4, <1>6, <2>1, <2>2, <2>3, <2>4 DEF ContextIInv, ContextTypeOK, SeenIsTrue, side
  <2>6. /\ made' \in [tasks : Nat, fg : Nat, bg : Nat] /\ made'.tasks = made.tasks
        /\ made'.fg = (IF side = "fg" THEN 1 ELSE made.fg)
        /\ made'.bg = (IF side = "bg" THEN 1 ELSE made.bg)
    BY <1>2, <2>1, <2>2 DEF ContextIInv, ContextTypeOK, MadeIsThere, Sides
  <2>7. MadeIsThere'
    BY <1>2, <2>1, <2>2, <2>3, <2>4, <2>6 DEF ContextIInv, ContextTypeOK, MadeIsThere, Sides
  <2>8. ContextTypeOK'
    BY <1>1, <1>4, <2>1, <2>3, <2>6 DEF ContextIInv, ContextTypeOK
  <2> QED
    BY <1>5, <2>5, <2>7, <2>8 DEF ContextIInv
<1>10. CASE InjectFeatureConfig(t)
  <2>1. /\ asker[t].at = "injecting" /\ to = "leaving"
        /\ IF mInjectContext = Nothing
             THEN mInjectContext' = side /\ injected' = injected \cup {side}
             ELSE UNCHANGED <<mInjectContext, injected>>
        /\ UNCHANGED <<mMsgTask, context, made>>
    BY <1>3, <1>4, <1>10 DEF InjectFeatureConfig, Goes, side, ContextIInv, ContextTypeOK
  <2>2. context[side] # Nothing
    BY <2>1 DEF ContextIInv, SeenIsTrue, side
  <2>3. mInjectContext' \in Sides /\ mInjectContext' # Nothing
    BY <1>2, <2>1, ContextAssumption DEF ContextIInv, ContextTypeOK
  <2>4. SeenIsTrue'
    BY <1>1, <1>4, <2>1, <2>2, <2>3 DEF ContextIInv, SeenIsTrue, side
  <2>5. MadeIsThere'
    BY <2>1, <2>2, <2>3 DEF ContextIInv, MadeIsThere
  <2> QED
    BY <1>1, <1>4, <1>5, <2>1, <2>3, <2>4, <2>5 DEF ContextIInv, ContextTypeOK
<1> QED
  BY <1>7, <1>8, <1>9, <1>10

\* The first message, with no lock: it meets the context that there is.
LEMMA SendKeeps ==
  ASSUME ContextIInv, NEW t \in Askers, SendFirst(t)
  PROVE  ContextIInv'
<1> DEFINE here == context[asker[t].side]
<1>1. /\ asker[t].at = "sending"
      /\ asker' = [asker EXCEPT ![t].at = "done", ![t].got = here]
      /\ received' = received \cup {<<t, here.task>>}
      /\ UNCHANGED <<mutex, mMsgTask, context, mInjectContext, made, injected>>
  BY DEF SendFirst
<1>2. here \in Contexts \cup {Nothing} /\ here # Nothing /\ here.task = mMsgTask
  BY <1>1 DEF ContextIInv, ContextTypeOK, SeenIsTrue, MadeIsThere
<1> HIDE DEF here
<1>3. /\ asker' \in [Askers -> [at : Places, side : Sides, got : Contexts \cup {Nothing}]]
      /\ \A u \in Askers : /\ asker'[u].side = asker[u].side
                           /\ asker'[u].got = (IF u = t THEN here ELSE asker[u].got)
                           /\ asker'[u].at = (IF u = t THEN "done" ELSE asker[u].at)
  BY <1>1, <1>2 DEF ContextIInv, ContextTypeOK, Places
<1>4. OneInside'
  BY <1>1, <1>3 DEF ContextIInv, OneInside, Inside
<1>5. SeenIsTrue'
  BY <1>1, <1>2, <1>3 DEF ContextIInv, SeenIsTrue, here
<1> QED
  BY <1>1, <1>3, <1>4, <1>5 DEF ContextIInv, ContextTypeOK, MadeIsThere

\* Whoever asks, and whenever: the mutex makes one context of each side of all the
\* askers' work.
LEMMA ContextNextKeeps == ContextIInv /\ [ContextNext]_contextVars => ContextIInv'
<1> SUFFICES ASSUME ContextIInv, [ContextNext]_contextVars PROVE ContextIInv'
  OBVIOUS
<1>1. CASE ContextNext
  BY <1>1, LockKeeps, InsideKeeps, SendKeeps DEF ContextNext
<1>2. CASE UNCHANGED contextVars
  BY <1>2 DEF contextVars, ContextIInv, ContextTypeOK, OneInside, SeenIsTrue, MadeIsThere
<1> QED
  BY <1>1, <1>2

\* However many threads ask for contexts at once, they share one task and one
\* context of each side, and the features are injected once (LocDualContext.cpp).
THEOREM ContextsShared == ContextInit /\ [][ContextNext]_contextVars => []ContextsAreShared
<1>1. ContextIInv => ContextsAreShared
  <2> SUFFICES ASSUME ContextIInv PROVE ContextsAreShared
    OBVIOUS
  <2>1. made.tasks <= 1 /\ made.fg <= 1 /\ made.bg <= 1
    BY DEF ContextIInv, MadeIsThere
  <2>2. Cardinality(injected) <= 1
    BY FS_EmptySet, FS_Singleton DEF ContextIInv, MadeIsThere
  <2>3. \A s \in injected : context[s] # Nothing
    BY DEF ContextIInv, MadeIsThere
  <2>4. ASSUME NEW t \in Askers, asker[t].at = "done"
        PROVE  /\ asker[t].got = context[asker[t].side] /\ asker[t].got.task = mMsgTask
               /\ <<t, mMsgTask>> \in received /\ injected # {}
    BY <2>4 DEF ContextIInv, ContextTypeOK, SeenIsTrue, MadeIsThere
  <2> QED
    BY <2>1, <2>2, <2>3, <2>4 DEF ContextsAreShared
<1> QED
  BY <1>1, InitContext, ContextNextKeeps, PTL

-----------------------------------------------------------------------------
(* The amplifier. *)

\* What tfa_power() is called for fits the device.
PowerFits ==
  /\ amp_dev \in {"none", "opening", "open", "closing", "freed"}
  /\ power \in [at : {"idle", "begins", "waits", "chip", "joins", "done"}, on : BOOLEAN, rc : VendorResults]
  /\ amp_dev \in {"none", "freed"} => power = Rests
  /\ amp_dev \in {"opening", "closing"} => power.at # "idle"
  /\ power.at = "idle" => power = Rests
  /\ power.at \in {"begins", "waits", "chip"} => power.rc = 0
  /\ amp_dev = "opening" =>
       \/ powers = <<TRUE, FALSE>> /\ ~power.on
       \/ powers = <<FALSE>> /\ power.on
       \/ powers = <<>> /\ ~power.on
  /\ amp_dev = "closing" => ~power.on

\* The value of clock_enabled is known from the end of the very first call on.
Known  == amp_dev # "none" /\ ~(amp_dev = "opening" /\ Len(powers) = 2)
Still  == power.at \in {"idle", "begins", "done"} \/ (power.at = "chip" /\ ~power.on)
Driven == power.at = "waits" \/ (power.at = "chip" /\ power.on)

\* The clock is started, seen and stopped by one call of tfa_power().
ClockFits ==
  /\ Still => writer = "none" /\ ~tfa.initializing /\ (Known => ~tfa.clock_enabled)
  /\ power.at = "done" => ~tfa.clock_enabled
  /\ Driven => tfa.initializing /\ writer # "leaves"
  /\ power.at = "waits" => power.on /\ ~tfa.clock_enabled
  /\ power.at = "chip" /\ power.on => tfa.clock_enabled
  /\ power.at = "joins" => ~tfa.initializing /\ tfa.clock_enabled

\* What the thread that writes has done, and what is left of a failure.
WriterFits ==
  /\ writer \in {"opens", "writes", "loops", "fails", "leaves"} => i2s
  /\ writer \in {"none", "enables", "signals"} /\ i2s => "mixer" \in faults
  /\ writer \in {"fails", "signals"} => "pcm" \in faults
  /\ tfa.writing => writer = "loops" \/ "pcm" \in faults
  /\ power.at = "chip" /\ power.on => writer = "loops" \/ "pcm" \in faults
  /\ power.at = "waits" /\ "i2s" \notin faults => tfa.writing \/ writer # "none"

\* The counts are those of the uses.
UseFits ==
  /\ refcount["MUSIC_NORMAL"] = uses["SPEAKER"] + uses["SPEAKER_AND_HEADPHONES"]
  /\ refcount["VOICE"] = uses["VOICE_SPEAKER"]
  /\ amp_dev \in {"none", "opening"} => InUse(uses) = {}
  /\ Mixes(uses) => "both" \in faults

\* The chip does what the call under way is for, or it is known that it failed.
Switched == power.at \in {"joins", "done"}
ChipFits ==
  /\ Switched => IF power.rc = 0 THEN chip = power.on /\ "chip" \notin faults ELSE "chip" \in faults
  /\ "left" \in faults => "chip" \in faults
  /\ amp_dev = "open" =>
       /\ ~(Switched /\ power.rc = 0) => IF "left" \in faults THEN ~amp_state ELSE amp_state = chip
       /\ power.at = "idle" =>
            /\ "chip" \notin faults /\ InUse(uses) = {} => ~chip
            /\ faults \cap {"chip", "both"} = {} /\ InUse(uses) # {} => chip
       /\ power.at # "idle" => IF power.on THEN InUse(uses) # {}
                               ELSE InUse(uses) = {} \/ "both" \in faults

AmpIInv == AmpTypeOK /\ PowerFits /\ ClockFits /\ WriterFits /\ UseFits /\ ChipFits

\* Which uses need the amplifier.
LEMMA Classes ==
  /\ Classify("SPEAKER") = "MUSIC_NORMAL" /\ Classify("SPEAKER_AND_HEADPHONES") = "MUSIC_NORMAL"
  /\ Classify("VOICE_SPEAKER") = "VOICE" /\ Classify("HEADPHONES") = "NONE"
BY DEF Classify

\* When nobody uses the amplifier, and when both modes do.
LEMMA UsesAre ==
  ASSUME NEW u \in [SndDevices -> Nat]
  PROVE  /\ InUse(u) = {} <=> u["SPEAKER"] = 0 /\ u["SPEAKER_AND_HEADPHONES"] = 0
                              /\ u["VOICE_SPEAKER"] = 0
         /\ Mixes(u) <=> /\ u["SPEAKER"] > 0 \/ u["SPEAKER_AND_HEADPHONES"] > 0
                         /\ u["VOICE_SPEAKER"] > 0
<1>1. \A d \in SndDevices : d \in InUse(u) <=> u[d] > 0 /\ d # "HEADPHONES"
  BY Classes DEF InUse, SndDevices
<1>2. InUse(u) \subseteq SndDevices
  BY DEF InUse
<1>3. InUse(u) = {} <=> u["SPEAKER"] = 0 /\ u["SPEAKER_AND_HEADPHONES"] = 0 /\ u["VOICE_SPEAKER"] = 0
  BY <1>1, <1>2 DEF SndDevices
<1>4. Mixes(u) <=> /\ u["SPEAKER"] > 0 \/ u["SPEAKER_AND_HEADPHONES"] > 0
                   /\ u["VOICE_SPEAKER"] > 0
  BY <1>1, <1>2, Classes DEF Mixes, SndDevices
<1> QED
  BY <1>3, <1>4

\* At the start the device is closed and nothing runs.
LEMMA InitAmp == AmpInit => AmpIInv
<1> SUFFICES ASSUME AmpInit PROVE AmpIInv
  OBVIOUS
<1>1. /\ amp_dev = "none" /\ powers = <<>> /\ refcount = [m \in AudioModes |-> 0]
      /\ amp_state = FALSE /\ uses = [d \in SndDevices |-> 0] /\ power = Rests /\ writer = "none"
      /\ i2s = FALSE /\ chip \in BOOLEAN /\ faults = {}
  BY DEF AmpInit
<1>2. /\ tfa \in [initializing : BOOLEAN, clock_enabled : BOOLEAN, writing : BOOLEAN]
      /\ ~tfa.initializing /\ ~tfa.writing
  BY DEF AmpInit
<1>3. AmpTypeOK
  <2>1. uses \in [SndDevices -> 0 .. MaxUses] /\ refcount \in [AudioModes -> Nat]
    BY <1>1, AmpAssumption
  <2>2. power.at = "idle" /\ power.on = FALSE
    BY <1>1 DEF Rests
  <2> QED
    BY <1>1, <1>2, <2>1, <2>2 DEF AmpTypeOK
<1>4. PowerFits /\ ClockFits /\ WriterFits
  BY <1>1, <1>2 DEF PowerFits, ClockFits, WriterFits, Known, Still, Driven, Rests, VendorResults
<1>5. uses \in [SndDevices -> Nat]
  BY <1>1
<1>6. UseFits /\ ChipFits
  BY <1>1, <1>5, UsesAre DEF UseFits, ChipFits, Switched, Rests, AudioModes, SndDevices
<1> QED
  BY <1>3, <1>4, <1>6 DEF AmpIInv

\* The thread that writes: it touches neither the counts nor the chip.
LEMMA WriterKeeps ==
  ASSUME AmpIInv,
         \/ WriterEnables \/ WriterOpens \/ WriterWrites
         \/ WriterEnds \/ WriterDisables \/ WriterSignals
  PROVE  AmpIInv'
<1> USE DEF WriterEnables, WriterOpens, WriterWrites, WriterEnds, WriterDisables, WriterSignals
<1>1. UNCHANGED <<amp_dev, powers, refcount, amp_state, uses, power, chip>>
  BY DEF writersCaller, useCount
<1>2. /\ "chip" \in faults' <=> "chip" \in faults
      /\ "both" \in faults' <=> "both" \in faults
      /\ "left" \in faults' <=> "left" \in faults
      /\ faults' \subseteq {"i2s", "mixer", "pcm", "chip", "both", "left"}
  BY DEF AmpIInv, AmpTypeOK
<1>3. tfa' \in [initializing : BOOLEAN, clock_enabled : BOOLEAN, writing : BOOLEAN]
      /\ tfa'.initializing = tfa.initializing /\ tfa'.clock_enabled = tfa.clock_enabled
  BY DEF AmpIInv, AmpTypeOK
<1>4. writer # "none"
  OBVIOUS
<1>5. /\ writer' \in {"none", "enables", "opens", "fails", "signals", "writes", "loops", "leaves"}
      /\ i2s' \in BOOLEAN
  BY DEF AmpIInv, AmpTypeOK
<1>6. AmpTypeOK'
  BY <1>1, <1>2, <1>3, <1>5 DEF AmpIInv, AmpTypeOK
<1>7. PowerFits'
  BY <1>1 DEF AmpIInv, PowerFits, Rests
<1>8. ClockFits'
  BY <1>1, <1>3, <1>4 DEF AmpIInv, ClockFits, Known, Still, Driven
<1>9. WriterFits'
  BY <1>1, <1>3 DEF AmpIInv, AmpTypeOK, ClockFits, Known, Still, Driven, WriterFits
<1>10. UseFits'
  BY <1>1, <1>2 DEF AmpIInv, UseFits, InUse, Mixes
<1>11. ChipFits'
  BY <1>1, <1>2 DEF AmpIInv, ChipFits, Switched, InUse
<1> QED
  BY <1>6, <1>7, <1>8, <1>9, <1>10, <1>11 DEF AmpIInv

\* tfa_power(): the clock, the chip, and the clock again.
LEMMA PowerKeeps ==
  ASSUME AmpIInv,
         \/ ClockOn \/ ClockIsOn \/ PowerOff \/ ClockOff
         \/ \E rc \in VendorResults : ChipSwitches(rc)
  PROVE  AmpIInv'
<1>1. UNCHANGED <<amp_dev, powers, refcount, amp_state, uses, i2s>>
  BY DEF ClockOn, ClockIsOn, PowerOff, ClockOff, ChipSwitches, useCount, hardware
<1>2. /\ power \in [at : {"idle", "begins", "waits", "chip", "joins", "done"}, on : BOOLEAN, rc : VendorResults]
      /\ tfa \in [initializing : BOOLEAN, clock_enabled : BOOLEAN, writing : BOOLEAN]
      /\ chip \in BOOLEAN
  BY DEF AmpIInv, AmpTypeOK, PowerFits
<1>3. \/ /\ power.at = "begins" /\ power.on /\ power' = [power EXCEPT !.at = "waits"]
         /\ tfa' = [tfa EXCEPT !.initializing = TRUE] /\ writer' = "enables"
         /\ UNCHANGED <<chip, faults>>
      \/ /\ power.at = "waits" /\ tfa.writing /\ power' = [power EXCEPT !.at = "chip"]
         /\ tfa' = [tfa EXCEPT !.clock_enabled = TRUE]
         /\ UNCHANGED <<writer, chip, faults>>
      \/ /\ power.at = "begins" /\ ~power.on /\ power' = [power EXCEPT !.at = "chip"]
         /\ UNCHANGED <<tfa, writer, chip, faults>>
      \/ /\ power.at = "joins" /\ writer = "none" /\ power' = [power EXCEPT !.at = "done"]
         /\ tfa' = [tfa EXCEPT !.clock_enabled = FALSE]
         /\ UNCHANGED <<writer, chip, faults>>
      \/ \E rc \in VendorResults :
           /\ power.at = "chip" /\ chip' = (IF rc = 0 THEN power.on ELSE chip)
           /\ faults' = IF rc = 0 THEN faults \ {"chip", "left"} ELSE faults \cup {"chip"}
           /\ power' = [power EXCEPT !.at = IF tfa.clock_enabled THEN "joins" ELSE "done", !.rc = rc]
           /\ tfa' = IF tfa.clock_enabled THEN [tfa EXCEPT !.initializing = FALSE] ELSE tfa
           /\ UNCHANGED writer
  BY DEF ClockOn, ClockIsOn, PowerOff, ClockOff, ChipSwitches, useCount, hardware
<1>4. power.at # "idle" /\ power'.at # "idle" /\ power'.on = power.on
  BY <1>2, <1>3
<1> DEFINE Calls == [at : {"idle", "begins", "waits", "chip", "joins", "done"}, on : BOOLEAN, rc : VendorResults]
           Clocks == [initializing : BOOLEAN, clock_enabled : BOOLEAN, writing : BOOLEAN]
\* What the steps do, field by field.
<1> DEFINE
     Starts ==
       /\ power.at = "begins" /\ power.on /\ power'.at = "waits" /\ power'.rc = power.rc
       /\ power' \in Calls /\ tfa' \in Clocks /\ tfa'.writing = tfa.writing
       /\ tfa'.initializing /\ tfa'.clock_enabled = tfa.clock_enabled
       /\ writer' = "enables" /\ chip' = chip /\ faults' = faults
     Sees ==
       /\ power.at = "waits" /\ tfa.writing /\ power'.at = "chip" /\ power'.rc = power.rc
       /\ power' \in Calls /\ tfa' \in Clocks /\ tfa'.writing = tfa.writing
       /\ tfa'.initializing = tfa.initializing /\ tfa'.clock_enabled
       /\ writer' = writer /\ chip' = chip /\ faults' = faults
     Offs ==
       /\ power.at = "begins" /\ ~power.on /\ power'.at = "chip" /\ power'.rc = power.rc
       /\ power' \in Calls /\ tfa' \in Clocks /\ tfa' = tfa
       /\ writer' = writer /\ chip' = chip /\ faults' = faults
     Joins ==
       /\ power.at = "joins" /\ writer = "none" /\ power'.at = "done" /\ power'.rc = power.rc
       /\ power' \in Calls /\ tfa' \in Clocks /\ tfa'.writing = tfa.writing
       /\ tfa'.initializing = tfa.initializing /\ ~tfa'.clock_enabled
       /\ writer' = writer /\ chip' = chip /\ faults' = faults
     Turns ==
       /\ power.at = "chip"
       /\ power' \in Calls /\ tfa' \in Clocks /\ tfa'.writing = tfa.writing
       /\ tfa.clock_enabled => power'.at = "joins" /\ ~tfa'.initializing
       /\ ~tfa.clock_enabled => power'.at = "done" /\ tfa'.initializing = tfa.initializing
       /\ tfa'.clock_enabled = tfa.clock_enabled /\ writer' = writer
       /\ power'.rc = 0 => chip' = power.on /\ faults' = faults \ {"chip", "left"}
       /\ power'.rc # 0 => chip' = chip /\ faults' = faults \cup {"chip"}
<1>5. Starts \/ Sees \/ Offs \/ Joins \/ Turns
  <2>1. ASSUME power.at = "begins" /\ power.on /\ power' = [power EXCEPT !.at = "waits"]
                  /\ tfa' = [tfa EXCEPT !.initializing = TRUE] /\ writer' = "enables"
                  /\ UNCHANGED <<chip, faults>>
        PROVE  Starts
    BY <1>2, <2>1
  <2>2. ASSUME power.at = "waits" /\ tfa.writing /\ power' = [power EXCEPT !.at = "chip"]
                  /\ tfa' = [tfa EXCEPT !.clock_enabled = TRUE]
                  /\ UNCHANGED <<writer, chip, faults>>
        PROVE  Sees
    BY <1>2, <2>2
  <2>3. ASSUME power.at = "begins" /\ ~power.on /\ power' = [power EXCEPT !.at = "chip"]
                  /\ UNCHANGED <<tfa, writer, chip, faults>>
        PROVE  Offs
    BY <1>2, <2>3
  <2>4. ASSUME power.at = "joins" /\ writer = "none" /\ power' = [power EXCEPT !.at = "done"]
                  /\ tfa' = [tfa EXCEPT !.clock_enabled = FALSE]
                  /\ UNCHANGED <<writer, chip, faults>>
        PROVE  Joins
    BY <1>2, <2>4
  <2>5. ASSUME NEW rc \in VendorResults,
               power.at = "chip", chip' = (IF rc = 0 THEN power.on ELSE chip),
               faults' = IF rc = 0 THEN faults \ {"chip", "left"} ELSE faults \cup {"chip"},
               power' = [power EXCEPT !.at = IF tfa.clock_enabled THEN "joins" ELSE "done", !.rc = rc],
               tfa' = IF tfa.clock_enabled THEN [tfa EXCEPT !.initializing = FALSE] ELSE tfa,
               UNCHANGED writer
        PROVE  Turns
    <3>1. power' \in Calls /\ power'.rc = rc
          /\ power'.at = (IF tfa.clock_enabled THEN "joins" ELSE "done")
      BY <1>2, <2>5
    <3>2. /\ tfa' \in Clocks /\ tfa'.writing = tfa.writing /\ tfa'.clock_enabled = tfa.clock_enabled
          /\ tfa'.initializing = IF tfa.clock_enabled THEN FALSE ELSE tfa.initializing
      BY <1>2, <2>5
    <3> QED
      BY <2>5, <3>1, <3>2, Zenon
  <2> QED
    BY <1>3, <2>1, <2>2, <2>3, <2>4, <2>5
<1> HIDE DEF Calls, Clocks
<1>6. /\ power' \in Calls /\ tfa' \in Clocks
      /\ \A f \in {"i2s", "mixer", "pcm", "both"} : f \in faults' <=> f \in faults
      /\ faults' \subseteq {"i2s", "mixer", "pcm", "chip", "both", "left"}
  BY <1>5 DEF AmpIInv, AmpTypeOK
<1>7. AmpTypeOK'
  <2>1. chip' \in BOOLEAN
    BY <1>2, <1>3
  <2>2. writer' \in {"none", "enables", "opens", "fails", "signals", "writes", "loops", "leaves"}
    BY <1>5 DEF AmpIInv, AmpTypeOK
  <2> QED
    BY <1>1, <1>6, <2>1, <2>2 DEF AmpIInv, AmpTypeOK, Calls, Clocks
<1>8. PowerFits'
  <2>1. power'.at \in {"begins", "waits", "chip"} => power'.rc = 0
    BY <1>5 DEF AmpIInv, PowerFits
  <2>2. amp_dev \notin {"none", "freed"}
    BY <1>4 DEF AmpIInv, PowerFits, Rests
  <2> QED
    BY <1>1, <1>4, <1>6, <2>1, <2>2 DEF AmpIInv, PowerFits, Calls
<1>9. Known' <=> Known
  BY <1>1 DEF Known
<1>10. power.at = "begins" => writer = "none" /\ ~tfa.initializing
  BY DEF AmpIInv, ClockFits, Still
<1>11. power.at = "begins" /\ power.on => ~tfa.clock_enabled
  <2>1. power.at = "begins" /\ power.on => Known
    <3>1. amp_dev # "none"
      BY <1>4 DEF AmpIInv, PowerFits, Rests
    <3>2. amp_dev = "opening" /\ power.on => powers = <<FALSE>>
      BY DEF AmpIInv, PowerFits
    <3>3. Len(<<FALSE>>) # 2
      OBVIOUS
    <3> QED
      BY <3>1, <3>2, <3>3 DEF Known
  <2> QED
    BY <2>1 DEF AmpIInv, ClockFits, Still
<1>12. ClockFits'
  <2>1. /\ Still' => writer' = "none" /\ ~tfa'.initializing /\ (Known => ~tfa'.clock_enabled)
        /\ power'.at = "done" => ~tfa'.clock_enabled
    BY <1>2, <1>4, <1>5, <1>10, <1>11 DEF AmpIInv, ClockFits, Still, Driven
  <2>2. /\ Driven' => tfa'.initializing /\ writer' # "leaves"
        /\ power'.at = "waits" => power'.on /\ ~tfa'.clock_enabled
        /\ power'.at = "chip" /\ power'.on => tfa'.clock_enabled
    BY <1>2, <1>4, <1>5, <1>10, <1>11 DEF AmpIInv, ClockFits, Still, Driven
  <2>3. power'.at = "joins" => ~tfa'.initializing /\ tfa'.clock_enabled
    BY <1>2, <1>4, <1>5, <1>10, <1>11 DEF AmpIInv, ClockFits, Still, Driven
  <2> QED
    BY <1>9, <2>1, <2>2, <2>3 DEF ClockFits
<1>13. WriterFits'
  BY <1>1, <1>4, <1>5, <1>6, <1>10, Zenon DEF AmpIInv, WriterFits
<1>14. UseFits'
  BY <1>1, <1>6 DEF AmpIInv, UseFits, InUse, Mixes
<1>15. ChipFits'
  <2>1. Switched' => IF power'.rc = 0 THEN chip' = power'.on /\ "chip" \notin faults'
                     ELSE "chip" \in faults'
    BY <1>2, <1>4, <1>5 DEF AmpIInv, ChipFits, Switched
  <2>2. ~(Switched' /\ power'.rc = 0) /\ amp_dev = "open" =>
          IF "left" \in faults' THEN ~amp_state ELSE amp_state = chip'
    BY <1>2, <1>4, <1>5 DEF AmpIInv, ChipFits, Switched, PowerFits
  <2>3. "left" \in faults' => "chip" \in faults'
    BY <1>5 DEF AmpIInv, ChipFits
  <2> QED
    BY <1>1, <1>4, <1>6, <2>1, <2>2, <2>3 DEF AmpIInv, ChipFits, InUse
<1> QED
  BY <1>7, <1>8, <1>12, <1>13, <1>14, <1>15 DEF AmpIInv

\* The device is opened and closed.
LEMMA DeviceKeeps ==
  ASSUME AmpIInv, ModuleOpen \/ DevClose
  PROVE  AmpIInv'
<1>1. UNCHANGED <<refcount, amp_state, uses, writer, tfa, i2s, chip, faults>>
  BY DEF ModuleOpen, DevClose, useCount, hardware
<1>2. /\ power = Rests /\ power' = Powers(FALSE)
      /\ \/ amp_dev = "none" /\ amp_dev' = "opening" /\ powers' = <<TRUE, FALSE>>
         \/ amp_dev = "open" /\ amp_dev' = "closing" /\ powers' = powers
  BY DEF ModuleOpen, DevClose, AmpIInv, PowerFits
<1>3. /\ power.at = "idle" /\ power'.at = "begins" /\ power'.on = FALSE /\ power'.rc = 0
      /\ power' \in [at : {"idle", "begins", "waits", "chip", "joins", "done"}, on : BOOLEAN, rc : VendorResults]
  BY <1>2 DEF Rests, Powers, VendorResults
<1>4. AmpTypeOK'
  BY <1>1, <1>3 DEF AmpIInv, AmpTypeOK
<1>5. PowerFits'
  BY <1>2, <1>3 DEF PowerFits
<1>6. ClockFits'
  <2>1. writer = "none" /\ ~tfa.initializing /\ (Known => ~tfa.clock_enabled)
    BY <1>3 DEF AmpIInv, ClockFits, Still
  <2>2. Known' => Known
    <3>1. CASE amp_dev = "none"
      <4>1. Len(<<TRUE, FALSE>>) = 2
        OBVIOUS
      <4> QED
        BY <1>2, <3>1, <4>1 DEF Known
    <3> QED
      BY <1>2, <3>1 DEF Known
  <2> QED
    BY <1>1, <1>3, <2>1, <2>2 DEF ClockFits, Still, Driven
<1>7. WriterFits'
  BY <1>1, <1>3 DEF AmpIInv, WriterFits
<1>8. UseFits'
  BY <1>1, <1>2 DEF AmpIInv, UseFits, InUse, Mixes
<1>9. ChipFits'
  BY <1>1, <1>2, <1>3 DEF AmpIInv, ChipFits, Switched, InUse
<1> QED
  BY <1>4, <1>5, <1>6, <1>7, <1>8, <1>9 DEF AmpIInv

\* What holds while the counts change: the hardware rests, and a call may follow.
LEMMA CountingKeeps ==
  ASSUME AmpIInv, amp_dev = "open", power = Rests,
         NEW on \in BOOLEAN, power' = Rests \/ power' = Powers(on),
         UNCHANGED <<amp_dev, powers, amp_state, writer, tfa, i2s, chip>>,
         refcount' \in [AudioModes -> Nat], uses' \in [SndDevices -> 0 .. MaxUses],
         faults' \in {faults, faults \cup {"both"}, faults \ {"both"}}
  PROVE  AmpTypeOK' /\ PowerFits' /\ ClockFits' /\ WriterFits'
<1>1. /\ power.at = "idle"
      /\ power'.at \in {"idle", "begins"} /\ power'.on \in BOOLEAN /\ power'.rc = 0
      /\ power' \in [at : {"idle", "begins", "waits", "chip", "joins", "done"}, on : BOOLEAN, rc : VendorResults]
      /\ power'.at = "idle" => power' = Rests
  <2>1. CASE power' = Rests
    BY <2>1 DEF Rests, VendorResults
  <2>2. CASE power' = Powers(on)
    BY <2>2 DEF Powers, Rests, VendorResults
  <2> QED
    BY <2>1, <2>2
<1>2. AmpTypeOK'
  BY <1>1 DEF AmpIInv, AmpTypeOK
<1>3. PowerFits'
  BY <1>1 DEF AmpIInv, PowerFits
<1>4. ClockFits'
  <2>1. Known
    BY DEF Known
  <2> QED
    BY <1>1, <2>1 DEF AmpIInv, ClockFits, Still, Driven, Known
<1>5. WriterFits'
  BY <1>1 DEF AmpIInv, WriterFits
<1> QED
  BY <1>2, <1>3, <1>4, <1>5

\* A use begins.
LEMMA EnableKeeps ==
  ASSUME AmpIInv, NEW snd \in SndDevices, EnableOutputDevices(snd)
  PROVE  AmpIInv'
<1> DEFINE mode == Classify(snd)
           used == [uses EXCEPT ![snd] = @ + 1]
<1>1. /\ amp_dev = "open" /\ power = Rests /\ uses[snd] < MaxUses
      /\ uses' = used
      /\ faults' = IF Mixes(used) THEN faults \cup {"both"} ELSE faults
      /\ UNCHANGED <<amp_dev, powers, amp_state, writer, tfa, i2s, chip>>
      /\ IF mode = "NONE"
           THEN UNCHANGED <<refcount, power>>
           ELSE /\ refcount' = [refcount EXCEPT ![mode] = @ + 1]
                /\ power' = IF ~amp_state /\ refcount[mode] = 0 THEN Powers(TRUE) ELSE Rests
  BY DEF EnableOutputDevices, hardware
<1>2. /\ uses \in [SndDevices -> Nat] /\ used \in [SndDevices -> 0 .. MaxUses]
      /\ used \in [SndDevices -> Nat]
      /\ \A d \in SndDevices : used[d] = IF d = snd THEN uses[d] + 1 ELSE uses[d]
  BY <1>1, AmpAssumption DEF AmpIInv, AmpTypeOK
<1>3. mode \in AudioModes \cup {"NONE"} /\ (mode = "NONE" <=> snd = "HEADPHONES")
      /\ (mode = "VOICE" <=> snd = "VOICE_SPEAKER")
  BY Classes DEF SndDevices, AudioModes
<1> HIDE DEF mode, used
<1>4. /\ refcount' \in [AudioModes -> Nat]
      /\ \A m \in AudioModes : refcount'[m] = IF m = mode THEN refcount[m] + 1 ELSE refcount[m]
  <2>1. CASE mode = "NONE"
    BY <1>1, <2>1 DEF AmpIInv, AmpTypeOK, AudioModes
  <2>2. CASE mode # "NONE"
    BY <1>1, <1>3, <2>2 DEF AmpIInv, AmpTypeOK
  <2> QED
    BY <2>1, <2>2
<1>5. AmpTypeOK' /\ PowerFits' /\ ClockFits' /\ WriterFits'
  BY <1>1, <1>2, <1>4, CountingKeeps
<1>6. InUse(uses) = {} <=> uses["SPEAKER"] = 0 /\ uses["SPEAKER_AND_HEADPHONES"] = 0
                             /\ uses["VOICE_SPEAKER"] = 0
  BY <1>2, UsesAre
<1>7. InUse(used) = {} <=> used["SPEAKER"] = 0 /\ used["SPEAKER_AND_HEADPHONES"] = 0
                             /\ used["VOICE_SPEAKER"] = 0
  BY <1>2, UsesAre
<1>8. UseFits'
  <2>1. refcount'["MUSIC_NORMAL"] = used["SPEAKER"] + used["SPEAKER_AND_HEADPHONES"]
        /\ refcount'["VOICE"] = used["VOICE_SPEAKER"]
    BY <1>2, <1>3, <1>4 DEF AmpIInv, AmpTypeOK, UseFits, AudioModes, SndDevices
  <2> QED
    BY <1>1, <2>1 DEF UseFits
<1>9. ChipFits'
  <2>1. power'.at \in {"idle", "begins"} /\ ~Switched' /\ ~Switched /\ power.at = "idle"
    BY <1>1 DEF Rests, Powers, Switched
  <2>2. power'.at # "idle" => power'.on /\ mode # "NONE"
    BY <1>1 DEF Rests, Powers
  <2>3. mode # "NONE" => InUse(used) # {}
    BY <1>2, <1>3, <1>7 DEF SndDevices
  <2>4. mode = "NONE" => InUse(used) = {} <=> InUse(uses) = {}
    BY <1>2, <1>3, <1>6, <1>7 DEF SndDevices
  <2>5. \A f \in faults : f \in faults'
    BY <1>1
  <2>6. ASSUME power'.at = "idle", mode # "NONE", faults' \cap {"chip", "both"} = {} PROVE chip
    <3>1. amp_state \/ refcount[mode] # 0
      BY <1>1, <2>6 DEF Powers
    <3>2. faults \cap {"chip", "both"} = {} /\ "left" \notin faults /\ amp_state = chip
      BY <1>1, <2>1, <2>5, <2>6 DEF AmpIInv, ChipFits
    <3>3. refcount[mode] # 0 => InUse(uses) # {}
      BY <1>2, <1>3, <1>6, <2>6 DEF AmpIInv, AmpTypeOK, UseFits, AudioModes, SndDevices
    <3> QED
      BY <1>1, <2>1, <3>1, <3>2, <3>3 DEF AmpIInv, ChipFits
  <2>7. /\ "chip" \in faults' <=> "chip" \in faults
        /\ "left" \in faults' <=> "left" \in faults
    BY <1>1
  <2>8. /\ amp_dev = "open" /\ ("left" \in faults => "chip" \in faults)
        /\ IF "left" \in faults THEN ~amp_state ELSE amp_state = chip
    BY <1>1, <2>1 DEF AmpIInv, ChipFits
  <2>9. power'.at = "idle" =>
          /\ "chip" \notin faults' /\ InUse(used) = {} => ~chip
          /\ faults' \cap {"chip", "both"} = {} /\ InUse(used) # {} => chip
    BY <1>1, <2>1, <2>3, <2>4, <2>5, <2>6, <2>7 DEF AmpIInv, ChipFits
  <2> QED
    BY <1>1, <2>1, <2>2, <2>3, <2>7, <2>8, <2>9 DEF ChipFits
<1> QED
  BY <1>5, <1>8, <1>9 DEF AmpIInv

\* A use ends.
LEMMA DisableKeeps ==
  ASSUME AmpIInv, NEW snd \in SndDevices, DisableOutputDevices(snd)
  PROVE  AmpIInv'
<1> DEFINE mode == Classify(snd)
           used == [uses EXCEPT ![snd] = @ - 1]
<1>1. /\ amp_dev = "open" /\ power = Rests /\ uses[snd] > 0
      /\ uses' = used
      /\ faults' = IF InUse(used) = {} THEN faults \ {"both"} ELSE faults
      /\ UNCHANGED <<amp_dev, powers, amp_state, writer, tfa, i2s, chip>>
      /\ IF mode = "NONE"
           THEN UNCHANGED <<refcount, power>>
           ELSE /\ refcount' = [refcount EXCEPT ![mode] = IF @ > 0 THEN @ - 1 ELSE @]
                /\ power' = IF amp_state /\ refcount[mode] <= 1 THEN Powers(FALSE) ELSE Rests
  BY DEF DisableOutputDevices, hardware, LastUse
<1>2. /\ uses \in [SndDevices -> Nat] /\ used \in [SndDevices -> 0 .. MaxUses]
      /\ used \in [SndDevices -> Nat]
      /\ \A d \in SndDevices : used[d] = IF d = snd THEN uses[d] - 1 ELSE uses[d]
  BY <1>1, AmpAssumption DEF AmpIInv, AmpTypeOK
<1>3. mode \in AudioModes \cup {"NONE"} /\ (mode = "NONE" <=> snd = "HEADPHONES")
      /\ (mode = "VOICE" <=> snd = "VOICE_SPEAKER")
  BY Classes DEF SndDevices, AudioModes
<1> HIDE DEF mode, used
<1>4. mode # "NONE" => refcount[mode] >= 1
  BY <1>1, <1>2, <1>3 DEF AmpIInv, UseFits, AudioModes, SndDevices
<1>5. /\ refcount' \in [AudioModes -> Nat]
      /\ \A m \in AudioModes : refcount'[m] = IF m = mode THEN refcount[m] - 1 ELSE refcount[m]
  <2>1. CASE mode = "NONE"
    BY <1>1, <2>1 DEF AmpIInv, AmpTypeOK, AudioModes
  <2>2. CASE mode # "NONE"
    BY <1>1, <1>3, <1>4, <2>2 DEF AmpIInv, AmpTypeOK
  <2> QED
    BY <2>1, <2>2
<1>6. AmpTypeOK' /\ PowerFits' /\ ClockFits' /\ WriterFits'
  BY <1>1, <1>2, <1>5, CountingKeeps
<1>7. InUse(uses) = {} <=> uses["SPEAKER"] = 0 /\ uses["SPEAKER_AND_HEADPHONES"] = 0
                             /\ uses["VOICE_SPEAKER"] = 0
  BY <1>2, UsesAre
<1>8. InUse(used) = {} <=> used["SPEAKER"] = 0 /\ used["SPEAKER_AND_HEADPHONES"] = 0
                             /\ used["VOICE_SPEAKER"] = 0
  BY <1>2, UsesAre
<1>9. /\ Mixes(uses) <=> /\ uses["SPEAKER"] > 0 \/ uses["SPEAKER_AND_HEADPHONES"] > 0
                         /\ uses["VOICE_SPEAKER"] > 0
      /\ Mixes(used) <=> /\ used["SPEAKER"] > 0 \/ used["SPEAKER_AND_HEADPHONES"] > 0
                         /\ used["VOICE_SPEAKER"] > 0
  BY <1>2, UsesAre
<1>10. UseFits'
  <2>1. refcount'["MUSIC_NORMAL"] = used["SPEAKER"] + used["SPEAKER_AND_HEADPHONES"]
        /\ refcount'["VOICE"] = used["VOICE_SPEAKER"]
    BY <1>2, <1>3, <1>5 DEF AmpIInv, AmpTypeOK, UseFits, AudioModes, SndDevices
  <2>2. Mixes(used) => Mixes(uses) /\ InUse(used) # {}
    BY <1>2, <1>8, <1>9 DEF SndDevices
  <2> QED
    BY <1>1, <2>1, <2>2 DEF AmpIInv, UseFits
<1>11. ChipFits'
  <2>1. power'.at \in {"idle", "begins"} /\ ~Switched' /\ ~Switched /\ power.at = "idle"
    BY <1>1 DEF Rests, Powers, Switched
  <2>2. /\ "left" \in faults => "chip" \in faults
        /\ IF "left" \in faults THEN ~amp_state ELSE amp_state = chip
    BY <1>1, <2>1 DEF AmpIInv, ChipFits
  <2>3. /\ "chip" \in faults' <=> "chip" \in faults
        /\ "left" \in faults' <=> "left" \in faults
    BY <1>1
  <2>4. InUse(used) # {} => InUse(uses) # {}
    BY <1>2, <1>7, <1>8 DEF SndDevices
  <2>5. faults' \cap {"chip", "both"} = {} /\ InUse(used) # {} => chip
    BY <1>1, <2>1, <2>4 DEF AmpIInv, ChipFits
  <2>6. ASSUME power'.at = "idle", "chip" \notin faults', InUse(used) = {} PROVE ~chip
    <3>1. CASE mode = "NONE"
      <4>1. InUse(uses) = {}
        BY <1>2, <1>3, <1>7, <1>8, <2>6, <3>1 DEF SndDevices
      <4> QED
        BY <1>1, <2>1, <2>3, <2>6, <4>1 DEF AmpIInv, ChipFits
    <3>2. CASE mode # "NONE"
      <4>1. ~(amp_state /\ refcount[mode] <= 1)
        BY <1>1, <2>6, <3>2 DEF Powers
      <4>2. refcount[mode] <= 1
        BY <1>1, <1>2, <1>3, <1>8, <2>6, <3>2 DEF AmpIInv, AmpTypeOK, UseFits, AudioModes, SndDevices
      <4> QED
        BY <2>2, <2>3, <2>6, <4>1, <4>2
    <3> QED
      BY <3>1, <3>2
  <2>7. ASSUME power'.at # "idle" PROVE power'.on = FALSE /\ (InUse(used) = {} \/ "both" \in faults')
    <3>1. mode # "NONE" /\ power' = Powers(FALSE) /\ refcount[mode] <= 1
      <4>1. power' # Rests
        BY <2>7 DEF Rests
      <4> QED
        BY <1>1, <4>1, Zenon
    <3>2. InUse(used) # {} => Mixes(uses)
      BY <1>1, <1>2, <1>3, <1>8, <1>9, <3>1 DEF AmpIInv, AmpTypeOK, UseFits, AudioModes, SndDevices
    <3> QED
      BY <1>1, <3>1, <3>2 DEF Powers, AmpIInv, UseFits
  <2> QED
    BY <1>1, <2>1, <2>2, <2>3, <2>5, <2>6, <2>7 DEF ChipFits
<1> QED
  BY <1>6, <1>10, <1>11 DEF AmpIInv

\* The head and the rest of the shortest lists.
LEMMA ShortLists ==
  ASSUME NEW a, NEW b
  PROVE  /\ Head(<<a, b>>) = a /\ Tail(<<a, b>>) = <<b>>
         /\ Head(<<b>>) = b /\ Tail(<<b>>) = <<>>
OBVIOUS

\* What tfa_power() returned goes to its caller.
LEMMA ReturnKeeps ==
  ASSUME AmpIInv, PowerReturns
  PROVE  AmpIInv'
<1>1. power.at = "done" /\ UNCHANGED <<refcount, uses, writer, i2s, chip>>
  BY DEF PowerReturns
<1>2. /\ writer = "none" /\ ~tfa.initializing /\ ~tfa.clock_enabled
      /\ IF power.rc = 0 THEN chip = power.on /\ "chip" \notin faults ELSE "chip" \in faults
      /\ power.rc \in VendorResults /\ ("left" \in faults => "chip" \in faults)
  BY <1>1 DEF AmpIInv, ClockFits, Still, ChipFits, Switched, PowerFits
<1>3. amp_dev \in {"opening", "open", "closing"}
  BY <1>1 DEF AmpIInv, PowerFits, Rests
<1> DEFINE Clocks == [initializing : BOOLEAN, clock_enabled : BOOLEAN, writing : BOOLEAN]
<1>4. tfa \in Clocks
  BY DEF AmpIInv, AmpTypeOK
<1>5. CASE amp_dev = "opening" /\ power.rc < 0
  <2>1. /\ amp_dev' = "none" /\ power' = Rests /\ powers' = powers /\ amp_state' = amp_state
        /\ faults' = faults
        /\ tfa' \in [initializing : {FALSE}, clock_enabled : BOOLEAN, writing : {FALSE}]
    BY <1>5, Zenon DEF PowerReturns
  <2>2. tfa' \in Clocks /\ ~tfa'.initializing /\ ~tfa'.writing
    BY <2>1
  <2>3. power'.at = "idle" /\ power'.on = FALSE /\ power'.rc = 0
        /\ power' \in [at : {"idle", "begins", "waits", "chip", "joins", "done"}, on : BOOLEAN, rc : VendorResults]
    BY <2>1 DEF Rests, VendorResults
  <2>4. AmpTypeOK' /\ PowerFits' /\ ClockFits'
    BY <1>1, <1>2, <2>1, <2>2, <2>3
      DEF AmpIInv, AmpTypeOK, PowerFits, ClockFits, Known, Still, Driven
  <2>5. WriterFits'
    BY <1>1, <1>2, <2>1, <2>2, <2>3 DEF AmpIInv, WriterFits
  <2>6. UseFits' /\ ChipFits'
    BY <1>1, <1>5, <2>1, <2>3 DEF AmpIInv, UseFits, ChipFits, Switched, InUse, Mixes
  <2> QED
    BY <2>4, <2>5, <2>6 DEF AmpIInv
<1>6. CASE amp_dev = "opening" /\ ~(power.rc < 0)
  <2>1. /\ tfa' = IF Len(powers) = 2 THEN [tfa EXCEPT !.writing = FALSE, !.clock_enabled = FALSE] ELSE tfa
        /\ IF powers = <<>>
             THEN amp_dev' = "open" /\ power' = Rests /\ amp_state' = FALSE /\ UNCHANGED powers
             ELSE /\ power' = Powers(Head(powers)) /\ powers' = Tail(powers)
                  /\ UNCHANGED <<amp_dev, amp_state>>
        /\ faults' = IF powers = <<>> /\ power.rc > 0 THEN faults \cup {"left"} ELSE faults
    BY <1>6, Zenon DEF PowerReturns
  <2>2. /\ tfa' \in Clocks /\ ~tfa'.initializing /\ ~tfa'.clock_enabled
        /\ tfa'.writing => tfa.writing
    BY <1>2, <1>4, <2>1
  <2>3. power.rc = 0 \/ power.rc > 0
    BY <1>2, <1>6 DEF VendorResults
  <2>4. InUse(uses) = {}
    BY <1>6 DEF AmpIInv, UseFits
  <2>5. CASE powers = <<>>
    <3>1. /\ amp_dev' = "open" /\ power' = Rests /\ amp_state' = FALSE
          /\ faults' = IF power.rc > 0 THEN faults \cup {"left"} ELSE faults
          /\ ~power.on
      BY <1>6, <2>1, <2>5 DEF AmpIInv, PowerFits
    <3>2. power'.at = "idle" /\ power'.on = FALSE /\ power'.rc = 0
          /\ power' \in [at : {"idle", "begins", "waits", "chip", "joins", "done"}, on : BOOLEAN, rc : VendorResults]
      BY <3>1 DEF Rests, VendorResults
    <3>3. AmpTypeOK' /\ PowerFits' /\ ClockFits'
      BY <1>1, <1>2, <2>2, <3>1, <3>2
        DEF AmpIInv, AmpTypeOK, PowerFits, ClockFits, Still, Driven
    <3>4. WriterFits'
      BY <1>1, <1>2, <2>2, <3>1, <3>2 DEF AmpIInv, WriterFits
    <3>5. UseFits'
      BY <1>1, <2>4, <3>1, <3>2 DEF AmpIInv, AmpTypeOK, UseFits, InUse, Mixes
    <3>6. ~Switched' /\ InUse(uses)' = {}
      BY <1>1, <2>4, <3>2 DEF Switched, InUse
    <3>7. CASE power.rc = 0
      <4>1. ~chip /\ "chip" \notin faults' /\ "left" \notin faults' /\ chip = FALSE
        BY <1>2, <3>1, <3>7 DEF AmpIInv, AmpTypeOK
      <4> QED
        BY <1>1, <3>1, <3>2, <3>3, <3>4, <3>5, <3>6, <4>1 DEF AmpIInv, ChipFits
    <3>8. CASE power.rc > 0
      <4>1. "chip" \in faults' /\ "left" \in faults'
        BY <1>2, <3>1, <3>8
      <4> QED
        BY <1>1, <3>1, <3>2, <3>3, <3>4, <3>5, <3>6, <4>1 DEF AmpIInv, ChipFits
    <3> QED
      BY <2>3, <3>7, <3>8
  <2>6. CASE powers # <<>>
    <3>1. /\ amp_dev' = "opening" /\ amp_state' = amp_state /\ faults' = faults
          /\ \/ power' = Powers(TRUE) /\ powers' = <<FALSE>>
             \/ power' = Powers(FALSE) /\ powers' = <<>>
      <4>1. /\ Head(<<TRUE, FALSE>>) = TRUE /\ Tail(<<TRUE, FALSE>>) = <<FALSE>>
            /\ Head(<<FALSE>>) = FALSE /\ Tail(<<FALSE>>) = <<>>
        BY ShortLists
      <4>2. /\ powers = <<TRUE, FALSE>> \/ powers = <<FALSE>>
            /\ amp_dev' = "opening" /\ amp_state' = amp_state /\ faults' = faults
            /\ power' = Powers(Head(powers)) /\ powers' = Tail(powers)
        BY <1>6, <2>1, <2>6, Zenon DEF AmpIInv, PowerFits
      <4>3. CASE powers = <<TRUE, FALSE>>
        BY <4>1, <4>2, <4>3, Zenon
      <4>4. CASE powers = <<FALSE>>
        BY <4>1, <4>2, <4>4, Zenon
      <4> QED
        BY <4>2, <4>3, <4>4
    <3>2. /\ power'.at = "begins" /\ power'.rc = 0
          /\ power' \in [at : {"idle", "begins", "waits", "chip", "joins", "done"}, on : BOOLEAN, rc : VendorResults]
          /\ (powers' = <<FALSE>> /\ power'.on) \/ (powers' = <<>> /\ ~power'.on)
      <4>1. CASE power' = Powers(TRUE) /\ powers' = <<FALSE>>
        BY <4>1 DEF Powers, VendorResults
      <4>2. CASE power' = Powers(FALSE) /\ powers' = <<>>
        BY <4>2 DEF Powers, VendorResults
      <4> QED
        BY <3>1, <4>1, <4>2
    <3>3. AmpTypeOK'
      BY <1>1, <2>2, <3>1, <3>2 DEF AmpIInv, AmpTypeOK
    <3>4. PowerFits'
      BY <3>1, <3>2 DEF PowerFits
    <3>5. ClockFits'
      BY <1>1, <1>2, <2>2, <3>2 DEF ClockFits, Still, Driven
    <3>6. WriterFits'
      BY <1>1, <1>2, <2>2, <3>1, <3>2 DEF AmpIInv, WriterFits
    <3>7. UseFits' /\ ChipFits'
      BY <1>1, <2>4, <3>1, <3>2 DEF AmpIInv, UseFits, ChipFits, Switched, InUse, Mixes
    <3> QED
      BY <3>3, <3>4, <3>5, <3>6, <3>7 DEF AmpIInv
  <2> QED
    BY <2>5, <2>6
<1>7. CASE amp_dev = "open"
  <2>1. /\ amp_state' = IF power.rc = 0 THEN power.on ELSE amp_state
        /\ power' = Rests /\ UNCHANGED <<amp_dev, powers, tfa, faults>>
    BY <1>7, Zenon DEF PowerReturns
  <2>2. power'.at = "idle" /\ power'.on = FALSE /\ power'.rc = 0
        /\ power' \in [at : {"idle", "begins", "waits", "chip", "joins", "done"}, on : BOOLEAN, rc : VendorResults]
        /\ power.on \in BOOLEAN
    BY <2>1 DEF Rests, VendorResults, AmpIInv, AmpTypeOK
  <2>3. /\ amp_state' \in BOOLEAN
        /\ IF "left" \in faults THEN ~amp_state' ELSE amp_state' = chip
    BY <1>1, <1>2, <1>7, <2>1, <2>2 DEF AmpIInv, AmpTypeOK, ChipFits, Switched
  <2>4. AmpTypeOK' /\ PowerFits' /\ ClockFits'
    BY <1>1, <1>2, <1>7, <2>1, <2>2, <2>3
      DEF AmpIInv, AmpTypeOK, PowerFits, ClockFits, Still, Driven
  <2>5. WriterFits'
    BY <1>1, <1>2, <2>1, <2>2 DEF AmpIInv, WriterFits
  <2>6. UseFits'
    BY <1>1, <1>7, <2>1 DEF AmpIInv, UseFits, InUse, Mixes
  <2>7. IF power.on THEN InUse(uses) # {} ELSE InUse(uses) = {} \/ "both" \in faults
    BY <1>1, <1>7 DEF AmpIInv, ChipFits
  <2>8. ChipFits'
    <3>1. "chip" \notin faults /\ InUse(uses) = {} => ~chip
      BY <1>2, <2>7
    <3>2. faults \cap {"chip", "both"} = {} /\ InUse(uses) # {} => chip
      BY <1>2, <2>7
    <3>3. ~Switched' /\ InUse(uses)' = InUse(uses)
      BY <1>1, <2>2 DEF Switched, InUse
    <3> QED
      BY <1>1, <1>2, <2>1, <2>2, <2>3, <3>1, <3>2, <3>3 DEF ChipFits
  <2> QED
    BY <2>4, <2>5, <2>6, <2>8 DEF AmpIInv
<1>8. CASE amp_dev = "closing"
  <2>1. amp_dev' = "freed" /\ power' = Rests /\ UNCHANGED <<powers, amp_state, tfa, faults>>
    BY <1>8, Zenon DEF PowerReturns
  <2>2. power'.at = "idle" /\ power'.on = FALSE /\ power'.rc = 0
        /\ power' \in [at : {"idle", "begins", "waits", "chip", "joins", "done"}, on : BOOLEAN, rc : VendorResults]
    BY <2>1 DEF Rests, VendorResults
  <2>3. AmpTypeOK' /\ PowerFits' /\ ClockFits'
    BY <1>1, <1>2, <2>1, <2>2
      DEF AmpIInv, AmpTypeOK, PowerFits, ClockFits, Still, Driven
  <2>4. WriterFits'
    BY <1>1, <1>2, <2>1, <2>2 DEF AmpIInv, WriterFits
  <2>5. UseFits' /\ ChipFits'
    BY <1>1, <2>1, <2>2 DEF AmpIInv, UseFits, ChipFits, Switched, InUse, Mixes
  <2> QED
    BY <2>3, <2>4, <2>5 DEF AmpIInv
<1> QED
  BY <1>3, <1>5, <1>6, <1>7, <1>8

\* Every step keeps the amplifier and its clock in order.
LEMMA AmpNextKeeps == AmpIInv /\ [AmpNext]_ampVars => AmpIInv'
<1> SUFFICES ASSUME AmpIInv, [AmpNext]_ampVars PROVE AmpIInv'
  OBVIOUS
<1>1. CASE AmpNext
  <2>1. CASE ModuleOpen \/ DevClose
    BY <2>1, DeviceKeeps
  <2>2. CASE PowerReturns
    BY <2>2, ReturnKeeps
  <2>3. CASE \E snd \in SndDevices : EnableOutputDevices(snd) \/ DisableOutputDevices(snd)
    BY <2>3, EnableKeeps, DisableKeeps
  <2>4. CASE \/ ClockOn \/ ClockIsOn \/ PowerOff \/ ClockOff
             \/ \E rc \in VendorResults : ChipSwitches(rc)
    BY <2>4, PowerKeeps
  <2>5. CASE \/ WriterEnables \/ WriterOpens \/ WriterWrites
             \/ WriterEnds \/ WriterDisables \/ WriterSignals
    BY <2>5, WriterKeeps
  <2> QED
    BY <1>1, <2>1, <2>2, <2>3, <2>4, <2>5, Zenon DEF AmpNext
<1>2. CASE UNCHANGED ampVars
  <2>1. UNCHANGED <<amp_dev, powers, refcount, amp_state, uses, power, writer, tfa, i2s, chip, faults>>
    BY <1>2 DEF ampVars
  <2>2. AmpTypeOK'
    BY <2>1 DEF AmpIInv, AmpTypeOK
  <2>3. PowerFits'
    BY <2>1 DEF AmpIInv, PowerFits, Rests
  <2>4. ClockFits' /\ WriterFits'
    BY <2>1 DEF AmpIInv, ClockFits, WriterFits, Known, Still, Driven
  <2>5. UseFits' /\ ChipFits'
    BY <2>1 DEF AmpIInv, UseFits, ChipFits, Switched, InUse, Mixes
  <2> QED
    BY <2>2, <2>3, <2>4, <2>5 DEF AmpIInv
<1> QED
  BY <1>1, <1>2

\* The chip is switched with its clock running, nothing runs between two calls, a
\* call that waits has a thread that wakes it, and the chip follows the uses
\* (amplifier.c, tfa.c), whatever fails; each with its exceptions.
THEOREM AmpSound == AmpInit /\ [][AmpNext]_ampVars => []AmpInv
<1>1. AmpIInv => AmpInv
  <2> SUFFICES ASSUME AmpIInv PROVE AmpInv
    OBVIOUS
  <2>1. ClockRuns
    BY DEF AmpIInv, WriterFits, ClockRuns
  <2>2. SomebodyWakes
    BY DEF AmpIInv, WriterFits, SomebodyWakes
  <2>3. power = Rests => power.at = "idle"
    BY DEF Rests
  <2>4. NothingIsLeft
    <3>1. ASSUME power = Rests, amp_dev # "none"
          PROVE  /\ writer = "none" /\ ~tfa.clock_enabled /\ ~tfa.initializing
                 /\ i2s => "mixer" \in faults
      <4>1. Known /\ Still
        BY <2>3, <3>1 DEF AmpIInv, PowerFits, Known, Still
      <4> QED
        BY <4>1 DEF AmpIInv, ClockFits, WriterFits
    <3> QED
      BY <3>1 DEF NothingIsLeft
  <2>5. ChipFollowsUse
    BY <2>3 DEF AmpIInv, UseFits, ChipFits, Switched, ChipFollowsUse
  <2> QED
    BY <2>1, <2>2, <2>4, <2>5 DEF AmpIInv, AmpInv
<1> QED
  BY <1>1, InitAmp, AmpNextKeeps, PTL

-----------------------------------------------------------------------------
(* The clients of the modem's interface. *)

ApiMessages == [kind : {"open", "ssr", "up"}, events : SUBSET EventBits,
                who : Adapters \cup {Nobody}, downs : Nat]

\* Types of what ApiTypeOK leaves open.
ApiTypes ==
  /\ ApiTypeOK
  /\ removal \in [at : {"none", "shifting", "leaving"}, who : Adapters \cup {Nobody},
                  slot : Slots, last : Slots]
  /\ removal.at = "none" => removal = AtRest
  /\ round \in [kind : {"none", "report", "request", "up"}, at : 0 .. MaxAdapters,
                heard : Seq(Adapters), due : SUBSET Adapters, disturbed : BOOLEAN]
  /\ messages \in Seq(ApiMessages)
  /\ opened \in [events : SUBSET EventBits, handle : BOOLEAN]
  /\ joined \subseteq Adapters /\ crossed \in BOOLEAN

\* The array has no gaps but the hole of a removal, and holds those that have
\* joined, each once.
ArrayFits ==
  /\ \A s, t \in Slots :
       s < t /\ mLocAdapters[t] # Nobody /\ ~(removal.at = "shifting" /\ s = removal.slot)
         => mLocAdapters[s] # Nobody
  /\ removal.at = "shifting" =>
       /\ mLocAdapters[removal.slot] = Nobody
       /\ \A s \in Slots : s < removal.slot => mLocAdapters[s] # Nobody
  /\ \A s, t \in Slots : mLocAdapters[s] = mLocAdapters[t] /\ mLocAdapters[s] # Nobody => s = t
  /\ \A a \in joined : life[a] = "alive" /\ \E s \in Slots : mLocAdapters[s] = a
  /\ \A s \in Slots : mLocAdapters[s] # Nobody => mLocAdapters[s] \in joined
  /\ removal.at = "leaving" => \A s \in Slots : mLocAdapters[s] # Nobody <=> s < removal.last

\* A walk that nothing has disturbed has heard the array from its start.
WalkFits ==
  /\ round.at < MaxAdapters /\ ~round.disturbed =>
       /\ removal = AtRest /\ Len(round.heard) = round.at
       /\ \A i \in 1 .. round.at : /\ round.heard[i] = mLocAdapters[i - 1]
                                   /\ mLocAdapters[i - 1] # Nobody
                                   /\ round.kind = "request" => round.heard[i] \notin Handling
       /\ round.due \subseteq joined
  /\ round.at = MaxAdapters /\ ~round.disturbed =>
       /\ \A i, j \in 1 .. Len(round.heard) : round.heard[i] = round.heard[j] => i = j
       /\ round.kind # "request" => \A a \in round.due : \E i \in 1 .. Len(round.heard) : round.heard[i] = a
       /\ round.kind = "request" =>
            /\ \A i \in 1 .. Len(round.heard) - 1 : round.heard[i] \notin Handling
            /\ round.due \cap Handling # {} =>
                 \E i \in 1 .. Len(round.heard) : round.heard[i] \in Handling

\* An event is registered, or a message that waits will see to it.
Covered(e) ==
  \/ e \in opened.events
  \/ \E i \in DOMAIN messages :
       messages[i].kind = "ssr" \/ (messages[i].kind = "open" /\ e \in messages[i].events)

Opening == {"open", "ssr"}

\* What the listed adapters want is covered, ...
WantsCovered == modemUp /\ removal = AtRest => \A e \in GetEvtMask : Covered(e)

\* ... an open handle is there or comes, ...
HandleComes ==
  modemUp /\ joined # {} => opened.handle \/ \E i \in DOMAIN messages : messages[i].kind \in Opening

\* ... and is there before an adapter acts on what it is told of a restart.
MailFits ==
  \A i \in DOMAIN messages :
    /\ messages[i].downs <= downs
    /\ messages[i].kind = "up" => messages[i].who \in Adapters /\ life[messages[i].who] # "unborn"
    /\ messages[i].kind = "up" /\ messages[i].downs = downs =>
         /\ modemUp
         /\ messages[i].who \in joined =>
              opened.handle \/ \E j \in DOMAIN messages : j < i /\ messages[j].kind \in Opening

EventsFit ==
  /\ WantsCovered /\ HandleComes /\ MailFits
  /\ round.kind = "up" /\ round.at < MaxAdapters => modemUp

\* Once an adapter has come during a removal, only the types are left.
ApiIInv == ApiTypes /\ (~crossed => ArrayFits /\ WalkFits /\ EventsFit)

\* Every set of numbers that is not empty has a least one.
LEMMA LeastNumber ==
  ASSUME NEW T \in SUBSET Nat, T # {}
  PROVE  \E m \in T : \A k \in T : m <= k
<1> DEFINE UpTo(m) == {k \in T : k <= m}
<1> DEFINE Parts == {UpTo(m) : m \in T}
<1>1. Parts \subseteq FiniteSubsetsOf(Nat)
  <2> SUFFICES ASSUME NEW m \in T PROVE UpTo(m) \in SUBSET Nat /\ IsFiniteSet(UpTo(m))
    BY DEF FiniteSubsetsOf
  <2>1. UpTo(m) \in SUBSET Nat /\ m \in Nat /\ \A k \in UpTo(m) : k <= m
    OBVIOUS
  <2> QED
    BY <2>1, FS_BoundedSetOfNaturals
<1>2. Parts # {}
  OBVIOUS
<1>3. \E D \in Parts : \A E \in Parts : <<E, D>> \notin StrictSubsetOrdering(Nat)
  BY <1>1, <1>2, FS_StrictSubsetOrderingWellFounded, WFMin
<1>4. PICK m \in T : \A k \in T : <<UpTo(k), UpTo(m)>> \notin StrictSubsetOrdering(Nat)
  BY <1>3
<1>5. ASSUME NEW k \in T, k < m PROVE FALSE
  <2> k \in Nat /\ m \in Nat
    OBVIOUS
  <2>1. UpTo(k) \subseteq UpTo(m)
    <3> SUFFICES ASSUME NEW i \in T, i <= k PROVE i <= m
      OBVIOUS
    <3> i \in Nat
      OBVIOUS
    <3> QED
      BY <1>5
  <2>2. m \in UpTo(m) /\ m \notin UpTo(k)
    BY <1>5
  <2>3. UpTo(k) \in SUBSET Nat /\ UpTo(m) \in SUBSET Nat /\ UpTo(k) # UpTo(m)
    BY <2>2
  <2> HIDE DEF UpTo
  <2>4. <<UpTo(k), UpTo(m)>> \in StrictSubsetOrdering(Nat)
    BY <2>1, <2>3 DEF StrictSubsetOrdering
  <2> QED
    BY <1>4, <2>4
<1> QED
  BY <1>5

\* Every array has a first place that is empty, or its end.
LEMMA FirstEmpty ==
  ASSUME NEW A, NEW m \in 0 .. MaxAdapters
  PROVE  \E s \in m .. MaxAdapters :
           /\ s = MaxAdapters \/ A[s] = Nobody
           /\ \A t \in m .. s - 1 : A[t] # Nobody
<1> MaxAdapters \in Nat
  BY LocApiAssumption
<1> DEFINE T == {s \in m .. MaxAdapters : s = MaxAdapters \/ A[s] = Nobody}
<1>1. T \in SUBSET Nat /\ T # {}
  <2>1. MaxAdapters \in T
    OBVIOUS
  <2> QED
    BY <2>1
<1>2. PICK s \in T : \A k \in T : s <= k
  <2> HIDE DEF T
  <2> QED
    BY <1>1, LeastNumber
<1>3. ASSUME NEW t \in m .. s - 1 PROVE A[t] # Nobody
  <2>1. t \in m .. MaxAdapters /\ t < s
    OBVIOUS
  <2>2. t \notin T
    BY <1>2, <2>1
  <2> QED
    BY <2>1, <2>2
<1> QED
  BY <1>3

EndFits ==
  /\ End \in 0 .. MaxAdapters
  /\ End = MaxAdapters \/ mLocAdapters[End] = Nobody
  /\ \A t \in 0 .. End - 1 : mLocAdapters[t] # Nobody
  /\ InTable \subseteq Adapters
  /\ GetEvtMask \subseteq EventBits
  /\ \A e : e \in GetEvtMask <=> e \notin Excluded /\ \E a \in InTable : e \in wants[a]

\* Where the loops end, and what is before.
LEMMA EndIs == ApiTypeOK => EndFits
<1> SUFFICES ASSUME ApiTypeOK PROVE EndFits
  OBVIOUS
<1>0. MaxAdapters \in Nat \ {0}
  BY LocApiAssumption
<1>1. \E s \in 0 .. MaxAdapters :
        /\ s = MaxAdapters \/ mLocAdapters[s] = Nobody
        /\ \A t \in 0 .. s - 1 : mLocAdapters[t] # Nobody
  <2>1. 0 \in 0 .. MaxAdapters
    BY <1>0
  <2> QED
    BY <2>1, FirstEmpty, Zenon
<1>2. /\ End \in 0 .. MaxAdapters
      /\ End = MaxAdapters \/ mLocAdapters[End] = Nobody
      /\ \A t \in 0 .. End - 1 : mLocAdapters[t] # Nobody
  BY <1>1, Zenon DEF End
<1>3. InTable \subseteq Adapters
  <2> SUFFICES ASSUME NEW s \in 0 .. End - 1 PROVE mLocAdapters[s] \in Adapters
    BY DEF InTable
  <2>1. s \in Slots
    BY <1>0, <1>2 DEF Slots
  <2> QED
    BY <1>2, <2>1 DEF ApiTypeOK
<1>4. \A e : e \in GetEvtMask <=> e \notin Excluded /\ \E a \in InTable : e \in wants[a]
  BY DEF GetEvtMask
<1>5. GetEvtMask \subseteq EventBits
  BY <1>3, <1>4 DEF ApiTypeOK
<1> QED
  BY <1>2, <1>3, <1>4, <1>5 DEF EndFits

\* The same after a step.
LEMMA EndNext == ApiTypeOK' => EndFits'
  BY EndIs, PTL

TableFits ==
  /\ InTable \subseteq joined
  /\ removal.at # "shifting" =>
       /\ InTable = joined
       /\ \A s \in Slots : mLocAdapters[s] # Nobody <=> s < End

\* Every loop meets those that have joined, but for those after a hole.
LEMMA TableIs == ApiTypes /\ ArrayFits => TableFits
<1> SUFFICES ASSUME ApiTypes, ArrayFits PROVE TableFits
  OBVIOUS
<1> ApiTypeOK /\ joined \subseteq Adapters
  BY DEF ApiTypes
<1>0. MaxAdapters \in Nat \ {0} /\ EndFits
  BY LocApiAssumption, EndIs
<1>1. 0 .. End - 1 \subseteq Slots
  BY <1>0 DEF EndFits, Slots
<1>2. InTable \subseteq joined
  BY <1>0, <1>1 DEF InTable, EndFits, ArrayFits
<1>3. ASSUME removal.at # "shifting"
      PROVE  \A s \in Slots : mLocAdapters[s] # Nobody <=> s < End
  <2> SUFFICES ASSUME NEW s \in Slots PROVE mLocAdapters[s] # Nobody <=> s < End
    OBVIOUS
  <2>1. s < End => mLocAdapters[s] # Nobody
    BY <1>0 DEF EndFits, Slots
  <2>2. ASSUME mLocAdapters[s] # Nobody, ~(s < End) PROVE FALSE
    <3>1. End \in Slots /\ mLocAdapters[End] = Nobody /\ End < s
      BY <1>0, <2>2 DEF EndFits, Slots
    <3> QED
      BY <1>3, <2>2, <3>1 DEF ArrayFits
  <2> QED
    BY <2>1, <2>2
<1>4. ASSUME removal.at # "shifting" PROVE joined \subseteq InTable
  <2> SUFFICES ASSUME NEW a \in joined PROVE a \in InTable
    OBVIOUS
  <2>1. PICK s \in Slots : mLocAdapters[s] = a
    BY DEF ArrayFits
  <2>2. a # Nobody
    BY LocApiAssumption
  <2>3. s \in 0 .. End - 1
    BY <1>0, <1>3, <1>4, <2>1, <2>2 DEF Slots, EndFits
  <2> QED
    BY <2>1, <2>3 DEF InTable
<1> QED
  BY <1>2, <1>3, <1>4 DEF TableFits

\* The same after a step.
LEMMA TableNext == ApiTypes' /\ ArrayFits' => TableFits'
  BY TableIs, PTL

\* What a post puts into a queue.
LEMMA Posted ==
  ASSUME NEW S, NEW q \in Seq(S), NEW m \in S
  PROVE  /\ Append(q, m) \in Seq(S) /\ Append(q, m) # <<>>
         /\ DOMAIN q = 1 .. Len(q) /\ Len(q) \in Nat
         /\ DOMAIN Append(q, m) = 1 .. Len(q) + 1
         /\ \A i \in DOMAIN q : i \in DOMAIN Append(q, m) /\ Append(q, m)[i] = q[i] /\ q[i] \in S
         /\ Len(q) + 1 \in DOMAIN Append(q, m) /\ Append(q, m)[Len(q) + 1] = m
         /\ \A i \in DOMAIN Append(q, m) : i \in DOMAIN q \/ i = Len(q) + 1
  OBVIOUS

\* What is left when the first message is taken.
LEMMA Taken ==
  ASSUME NEW S, NEW q \in Seq(S), q # <<>>
  PROVE  /\ Tail(q) \in Seq(S) /\ Head(q) = q[1] /\ Head(q) \in S
         /\ DOMAIN q = 1 .. Len(q) /\ DOMAIN Tail(q) = 1 .. Len(q) - 1 /\ Len(q) \in Nat
         /\ \A i \in DOMAIN Tail(q) : i + 1 \in DOMAIN q /\ Tail(q)[i] = q[i + 1]
         /\ \A i \in DOMAIN q : i = 1 \/ (i - 1 \in DOMAIN Tail(q) /\ Tail(q)[i - 1] = q[i])
  OBVIOUS

\* At the start nobody has joined.
LEMMA InitApi == ApiInit => ApiIInv
<1> SUFFICES ASSUME ApiInit PROVE ApiIInv
  OBVIOUS
<1>0. MaxAdapters \in Nat \ {0} /\ MaxDowns \in Nat /\ 0 \in Slots /\ Nobody \notin Adapters
  BY LocApiAssumption DEF Slots
<1>1. ApiTypes
  <2>1. ApiTypeOK
    BY <1>0 DEF ApiInit, ApiTypeOK, AtRest, Walked, Closed
  <2>2. removal = AtRest /\ AtRest \in [at : {"none", "shifting", "leaving"}, who : Adapters \cup {Nobody},
                                       slot : Slots, last : Slots]
    BY <1>0 DEF ApiInit, AtRest
  <2>3. round \in [kind : {"none", "report", "request", "up"}, at : 0 .. MaxAdapters,
                   heard : Seq(Adapters), due : SUBSET Adapters, disturbed : BOOLEAN]
    <3>1. <<>> \in Seq(Adapters)
      OBVIOUS
    <3> QED
      BY <1>0, <3>1 DEF ApiInit, Walked
  <2>4. messages \in Seq(ApiMessages) /\ opened \in [events : SUBSET EventBits, handle : BOOLEAN]
    BY DEF ApiInit, Closed
  <2> QED
    BY <2>1, <2>2, <2>3, <2>4 DEF ApiInit, ApiTypes
<1>2. ArrayFits
  BY <1>0 DEF ApiInit, ArrayFits, AtRest
<1>3. WalkFits
  BY <1>0 DEF ApiInit, WalkFits, AtRest, Walked
<1>4. EventsFit
  <2>1. EndFits
    BY <1>1, EndIs DEF ApiTypes
  <2>2. InTable = {}
    BY <1>1, <1>2, TableIs DEF ApiInit, TableFits
  <2>3. GetEvtMask = {}
    BY <2>1, <2>2 DEF EndFits
  <2> QED
    BY <1>0, <2>3 DEF ApiInit, EventsFit, WantsCovered, HandleComes, MailFits, Walked
<1> QED
  BY <1>1, <1>2, <1>3, <1>4 DEF ApiIInv

\* Where the last adapter is that moves into the hole.
LastFits(last) ==
  /\ last \in removal.slot .. MaxAdapters - 1
  /\ last = MaxAdapters - 1 \/ mLocAdapters[last + 1] = Nobody
  /\ \A t \in removal.slot + 1 .. last : mLocAdapters[t] # Nobody

\* A removal finds it, in whatever state the array is.
LEMMA ShiftIs ==
  ApiTypes /\ Shift =>
    \E last \in Slots :
      /\ LastFits(last)
      /\ mLocAdapters' = [mLocAdapters EXCEPT ![removal.slot] = mLocAdapters[last], ![last] = Nobody]
      /\ removal' = [removal EXCEPT !.at = "leaving", !.last = last]
<1> SUFFICES ASSUME ApiTypes, Shift
             PROVE  \E last \in Slots :
                      /\ LastFits(last)
                      /\ mLocAdapters' = [mLocAdapters EXCEPT ![removal.slot] = mLocAdapters[last],
                                                              ![last] = Nobody]
                      /\ removal' = [removal EXCEPT !.at = "leaving", !.last = last]
  OBVIOUS
<1> DEFINE j == removal.slot
           P(s) == /\ s = MaxAdapters - 1 \/ mLocAdapters[s + 1] = Nobody
                   /\ \A t \in j + 1 .. s : mLocAdapters[t] # Nobody
           last == CHOOSE s \in j .. MaxAdapters - 1 : P(s)
<1>0. MaxAdapters \in Nat \ {0} /\ j \in Slots /\ j \in Nat
  BY LocApiAssumption DEF ApiTypes, ApiTypeOK, Slots
<1>1. \E s \in j .. MaxAdapters - 1 : P(s)
  <2>1. j + 1 \in 0 .. MaxAdapters
    BY <1>0 DEF Slots
  <2>2. PICK s \in j + 1 .. MaxAdapters :
          /\ s = MaxAdapters \/ mLocAdapters[s] = Nobody
          /\ \A t \in j + 1 .. s - 1 : mLocAdapters[t] # Nobody
    BY <2>1, FirstEmpty, Zenon
  <2>3. s - 1 \in j .. MaxAdapters - 1 /\ s - 1 + 1 = s /\ s \in Int
    BY <1>0, <2>2
  <2>4. P(s - 1)
    BY <1>0, <2>2, <2>3
  <2> QED
    BY <2>3, <2>4
<1>2. last \in j .. MaxAdapters - 1 /\ P(last)
  <2> HIDE DEF P
  <2> QED
    BY <1>1, Zenon
<1>3. /\ mLocAdapters' = [mLocAdapters EXCEPT ![j] = mLocAdapters[last], ![last] = Nobody]
      /\ removal' = [removal EXCEPT !.at = "leaving", !.last = last]
  BY Zenon DEF Shift
<1> HIDE DEF last
<1>4. last \in Slots /\ LastFits(last)
  BY <1>0, <1>2 DEF Slots, LastFits
<1> QED
  BY <1>3, <1>4

\* The types, whatever comes in the meantime.
LEMMA ApiTypesKept == ApiTypes /\ [ApiNext]_apiVars => ApiTypes'
<1> SUFFICES ASSUME ApiTypes, [ApiNext]_apiVars PROVE ApiTypes'
  OBVIOUS
<1>0. MaxAdapters \in Nat \ {0} /\ MaxDowns \in Nat /\ 0 \in Slots /\ MaxAdapters \in 0 .. MaxAdapters
  BY LocApiAssumption DEF Slots
<1>e. EndFits
  BY EndIs DEF ApiTypes
<1> DEFINE Msg(k, E, w) == [kind |-> k, events |-> E, who |-> w, downs |-> downs]
<1>m. ASSUME NEW k \in {"open", "ssr", "up"}, NEW E \in SUBSET EventBits, NEW w \in Adapters \cup {Nobody}
      PROVE  Append(messages, Msg(k, E, w)) \in Seq(ApiMessages)
  <2>1. Msg(k, E, w) \in ApiMessages /\ messages \in Seq(ApiMessages)
    BY <1>0 DEF ApiTypes, ApiTypeOK, ApiMessages
  <2> HIDE DEF Msg
  <2> QED
    BY <2>1
<1>1. ASSUME NEW a \in Adapters, NEW E \in SUBSET EventBits, AddAdapter(a, E) PROVE ApiTypes'
  <2>1. mLocAdapters' \in [Slots -> Adapters \cup {Nobody}] /\ joined' \subseteq Adapters
    BY <1>1, <1>e DEF AddAdapter, ApiTypes, ApiTypeOK
  <2>2. wants' \in [Adapters -> SUBSET EventBits] /\ life' \in [Adapters -> {"unborn", "alive", "deleted"}]
    BY <1>1 DEF AddAdapter, ApiTypes, ApiTypeOK
  <2>3. messages' \in Seq(ApiMessages)
    <3>1. messages' = messages \/ messages' = Append(messages, Msg("open", E, Nobody))
      BY <1>1, Zenon DEF AddAdapter, SendMsg, OpenMsg
    <3>2. Append(messages, Msg("open", E, Nobody)) \in Seq(ApiMessages)
      BY <1>m
    <3> QED
      BY <3>1, <3>2 DEF ApiTypes
  <2>4. crossed' \in BOOLEAN
    BY <1>1 DEF AddAdapter, ApiTypes
  <2> QED
    BY <1>1, <2>1, <2>2, <2>3, <2>4 DEF AddAdapter, ApiTypes, ApiTypeOK, AtRest
<1>2. ASSUME NEW a \in Adapters, RemoveAdapter(a) PROVE ApiTypes'
  <2>1. life' \in [Adapters -> {"unborn", "alive", "deleted"}] /\ joined' \subseteq Adapters
    BY <1>2 DEF RemoveAdapter, ApiTypes, ApiTypeOK
  <2>2. CASE a \in InTable
    <3> DEFINE j == CHOOSE s \in 0 .. End - 1 : mLocAdapters[s] = a
    <3>1. j \in Slots
      <4>1. \E s \in 0 .. End - 1 : mLocAdapters[s] = a
        BY <2>2 DEF InTable
      <4>2. j \in 0 .. End - 1
        BY <4>1, Zenon
      <4> HIDE DEF j
      <4> QED
        BY <4>2, <1>e, <1>0 DEF Slots, EndFits
    <3>2. /\ mLocAdapters' = [mLocAdapters EXCEPT ![j] = Nobody]
          /\ removal' = [at |-> "shifting", who |-> a, slot |-> j, last |-> 0]
          /\ round' = [round EXCEPT !.disturbed = TRUE]
      BY <1>2, <2>2, Zenon DEF RemoveAdapter
    <3> HIDE DEF j
    <3>3. mLocAdapters' \in [Slots -> Adapters \cup {Nobody}]
      BY <3>1, <3>2 DEF ApiTypes, ApiTypeOK
    <3>4. /\ removal' \in [at : {"none", "shifting", "leaving"}, who : Adapters \cup {Nobody},
                           slot : Slots, last : Slots]
          /\ removal'.at = "shifting"
      BY <3>1, <3>2, <1>0
    <3>5. round' \in [kind : {"none", "report", "request", "up"}, at : 0 .. MaxAdapters,
                      heard : Seq(Adapters), due : SUBSET Adapters, disturbed : BOOLEAN]
      BY <3>2 DEF ApiTypes
    <3> QED
      BY <1>2, <2>1, <3>3, <3>4, <3>5 DEF RemoveAdapter, ApiTypes, ApiTypeOK
  <2>3. CASE a \notin InTable
    BY <1>2, <2>1, <2>3 DEF RemoveAdapter, ApiTypes, ApiTypeOK, AtRest
  <2> QED
    BY <2>2, <2>3
<1>3. CASE Shift
  <2>1. PICK last \in Slots :
          /\ LastFits(last)
          /\ mLocAdapters' = [mLocAdapters EXCEPT ![removal.slot] = mLocAdapters[last], ![last] = Nobody]
          /\ removal' = [removal EXCEPT !.at = "leaving", !.last = last]
    BY <1>3, ShiftIs
  <2>3. mLocAdapters' \in [Slots -> Adapters \cup {Nobody}]
    BY <2>1 DEF ApiTypes, ApiTypeOK
  <2>4. /\ removal' \in [at : {"none", "shifting", "leaving"}, who : Adapters \cup {Nobody},
                         slot : Slots, last : Slots]
        /\ removal'.at = "leaving"
    BY <2>1 DEF ApiTypes
  <2>5. round' \in [kind : {"none", "report", "request", "up"}, at : 0 .. MaxAdapters,
                    heard : Seq(Adapters), due : SUBSET Adapters, disturbed : BOOLEAN]
    BY <1>3 DEF ApiTypes, Shift
  <2> QED
    BY <1>3, <2>3, <2>4, <2>5 DEF Shift, ApiTypes, ApiTypeOK
<1>4. CASE LeaveArray
  <2>1. /\ removal' \in [at : {"none", "shifting", "leaving"}, who : Adapters \cup {Nobody},
                         slot : Slots, last : Slots]
        /\ removal' = AtRest
    BY <1>0, <1>4 DEF LeaveArray, AtRest
  <2>2. opened' \in [events : SUBSET EventBits, handle : BOOLEAN]
    <3>1. opened' \in {Closed, opened}
      BY <1>4, Zenon DEF LeaveArray
    <3>2. Closed \in [events : SUBSET EventBits, handle : BOOLEAN]
      BY DEF Closed
    <3>3. opened \in [events : SUBSET EventBits, handle : BOOLEAN]
      BY DEF ApiTypes
    <3> QED
      BY <3>1, <3>2, <3>3
  <2>3. messages' \in Seq(ApiMessages)
    <3>1. messages' = messages \/ messages' = Append(messages, Msg("open", GetEvtMask, Nobody))
      BY <1>4, Zenon DEF LeaveArray, SendMsg, OpenMsg
    <3>2. Append(messages, Msg("open", GetEvtMask, Nobody)) \in Seq(ApiMessages)
      BY <1>m, <1>e DEF EndFits
    <3> QED
      BY <3>1, <3>2 DEF ApiTypes
  <2> QED
    BY <1>4, <2>1, <2>2, <2>3 DEF LeaveArray, ApiTypes, ApiTypeOK
<1>5. ASSUME NEW a \in Adapters, NEW E \in SUBSET EventBits, NEW enabled \in BOOLEAN,
             UpdateEvtMask(a, E, enabled)
      PROVE  ApiTypes'
  <2>1. wants' \in [Adapters -> SUBSET EventBits]
    BY <1>5 DEF UpdateEvtMask, ApiTypes, ApiTypeOK
  <2>2. (UNION {wants'[b] : b \in InTable}) \ Excluded \in SUBSET EventBits
    BY <2>1, <1>e DEF EndFits
  <2>3. messages' \in Seq(ApiMessages)
    BY <1>5, <1>m, <2>2 DEF UpdateEvtMask, SendMsg, OpenMsg
  <2> QED
    BY <1>5, <2>1, <2>3 DEF UpdateEvtMask, ApiTypes, ApiTypeOK, AtRest
<1>6. CASE ProcMessage
  <2>1. messages' \in Seq(ApiMessages) /\ Head(messages) \in ApiMessages
    BY <1>6 DEF ProcMessage, ApiTypes
  <2>2. opened' \in [events : SUBSET EventBits, handle : BOOLEAN]
    <3>0. opened \in [events : SUBSET EventBits, handle : BOOLEAN]
      BY DEF ApiTypes
    <3>1. ASSUME NEW E \in SUBSET EventBits, NEW base \in [events : SUBSET EventBits, handle : BOOLEAN]
          PROVE  Open(base, E) \in [events : SUBSET EventBits, handle : BOOLEAN]
      BY DEF Open, Opened
    <3>2. Closed \in [events : SUBSET EventBits, handle : BOOLEAN]
      BY DEF Closed
    <3>3. Head(messages).events \in SUBSET EventBits /\ Head(messages).kind \in {"open", "ssr", "up"}
      BY <2>1 DEF ApiMessages
    <3>4. opened' \in {Open(opened, Head(messages).events), Open(Closed, GetEvtMask), opened}
      BY <1>6, <3>3, Zenon DEF ProcMessage
    <3>5. GetEvtMask \in SUBSET EventBits
      BY <1>e DEF EndFits
    <3> QED
      BY <3>0, <3>1, <3>2, <3>3, <3>4, <3>5
  <2> QED
    BY <1>6, <2>1, <2>2 DEF ProcMessage, ApiTypes, ApiTypeOK, AtRest
<1>7. ASSUME NEW kind \in {"report", "request", "up"}, Walks(kind)
      PROVE  round' \in [kind : {"none", "report", "request", "up"}, at : 0 .. MaxAdapters,
                         heard : Seq(Adapters), due : SUBSET Adapters, disturbed : BOOLEAN]
  BY <1>7, <1>0 DEF Walks, ApiTypes
<1>8. ASSUME NEW kind \in {"report", "request"}, BeginWalk(kind) PROVE ApiTypes'
  BY <1>7, <1>8 DEF BeginWalk, ApiTypes, ApiTypeOK, AtRest
<1>9. CASE EngineDown
  <2>1. downs' \in 0 .. MaxDowns
    BY <1>9, <1>0 DEF EngineDown, ApiTypes, ApiTypeOK
  <2>2. opened' \in [events : SUBSET EventBits, handle : BOOLEAN]
    BY <1>9 DEF EngineDown, Closed
  <2> QED
    BY <1>7, <1>9, <2>1, <2>2 DEF EngineDown, ApiTypes, ApiTypeOK, AtRest
<1>10. CASE EngineUp
  BY <1>m, <1>7, <1>10 DEF EngineUp, SendMsg, ApiTypes, ApiTypeOK, AtRest
<1>11. CASE WalkOn
  <2> DEFINE a == mLocAdapters[round.at]
  <2>0. round.at \in Slots /\ a \in Adapters \cup {Nobody}
    BY <1>0, <1>11 DEF WalkOn, ApiTypes, ApiTypeOK, Slots
  <2>1. round' \in [kind : {"none", "report", "request", "up"}, at : 0 .. MaxAdapters,
                    heard : Seq(Adapters), due : SUBSET Adapters, disturbed : BOOLEAN]
    <3>1. CASE a = Nobody
      BY <1>0, <1>11, <3>1 DEF WalkOn, ApiTypes
    <3>2. CASE a # Nobody
      <4>1. a \in Adapters /\ Append(round.heard, a) \in Seq(Adapters)
        BY <2>0, <3>2 DEF ApiTypes
      <4>2. round.at + 1 \in 0 .. MaxAdapters
        BY <2>0, <1>0 DEF Slots
      <4> QED
        BY <1>0, <1>11, <3>2, <4>1, <4>2 DEF WalkOn, ApiTypes
    <3> QED
      BY <3>1, <3>2
  <2>2. messages' \in Seq(ApiMessages)
    <3>1. messages' = messages \/ messages' = Append(messages, Msg("up", {}, a))
      BY <1>11, Zenon DEF WalkOn, SendMsg
    <3>2. Append(messages, Msg("up", {}, a)) \in Seq(ApiMessages)
      BY <1>m, <2>0
    <3> QED
      BY <3>1, <3>2 DEF ApiTypes
  <2> QED
    BY <1>11, <2>1, <2>2 DEF WalkOn, ApiTypes, ApiTypeOK, AtRest
<1>12. CASE UNCHANGED apiVars
  BY <1>12 DEF apiVars, ApiTypes, ApiTypeOK, AtRest
<1> QED
  <2>1. ASSUME NEW e \in EventBits PROVE {e} \in SUBSET EventBits
    OBVIOUS
  <2> QED
    BY <1>1, <1>2, <1>3, <1>4, <1>5, <1>6, <1>8, <1>9, <1>10, <1>11, <1>12, <2>1, Zenon DEF ApiNext

\* The removal that has left last places to those who stay.
LEMMA ShiftFits ==
  ApiTypes /\ ArrayFits /\ Shift => ArrayFits'
<1> SUFFICES ASSUME ApiTypes, ArrayFits, Shift PROVE ArrayFits'
  OBVIOUS
<1> DEFINE j == removal.slot  A == mLocAdapters
<1>1. PICK last \in Slots :
        /\ LastFits(last)
        /\ A' = [A EXCEPT ![j] = A[last], ![last] = Nobody]
        /\ removal' = [removal EXCEPT !.at = "leaving", !.last = last]
  BY ShiftIs
<1>2. /\ removal.at = "shifting" /\ removal'.at = "leaving" /\ removal'.last = last
      /\ joined' = joined /\ life' = life
  BY <1>1 DEF Shift, ApiTypes
<1>0. MaxAdapters \in Nat \ {0} /\ j \in Slots /\ Nobody \notin Adapters /\ Slots \subseteq Nat
  BY LocApiAssumption DEF ApiTypes, ApiTypeOK, Slots
<1>3. A \in [Slots -> Adapters \cup {Nobody}] /\ joined \subseteq Adapters
  BY DEF ApiTypes, ApiTypeOK
<1>4. /\ A'[last] = Nobody /\ (j # last => A'[j] = A[last])
      /\ \A s \in Slots : s # j /\ s # last => A'[s] = A[s]
      /\ A[j] = Nobody
  BY <1>0, <1>1, <1>2, <1>3 DEF ArrayFits
<1>5. j <= last /\ (last = MaxAdapters - 1 \/ A[last + 1] = Nobody)
      /\ \A t \in j + 1 .. last : A[t] # Nobody
  BY <1>0, <1>1 DEF LastFits
<1>6. ASSUME NEW s \in Slots PROVE A'[s] # Nobody <=> s < last
  <2>0. s \in Nat /\ j \in Nat /\ last \in Nat
    BY <1>0
  <2>1. CASE s < j
    <3>1. A[s] # Nobody
      BY <1>2, <2>1 DEF ArrayFits
    <3>2. s # j /\ s # last /\ s < last
      BY <1>5, <2>0, <2>1
    <3>3. A'[s] = A[s]
      BY <1>4, <3>2
    <3> QED
      BY <3>1, <3>2, <3>3
  <2>2. CASE s = j
    <3>1. j < last => A[last] # Nobody
      BY <1>5, <2>0
    <3>2. j < last => A'[j] # Nobody
      BY <1>4, <2>0, <3>1
    <3>3. ~(j < last) => A'[j] = Nobody
      BY <1>4, <1>5, <2>0
    <3> QED
      BY <2>2, <3>2, <3>3
  <2>3. CASE j < s /\ s < last
    <3>1. s \in j + 1 .. last
      BY <2>0, <2>3
    <3>2. A[s] # Nobody /\ A'[s] = A[s]
      BY <1>4, <1>5, <2>0, <2>3, <3>1
    <3> QED
      BY <2>3, <3>2
  <2>4. CASE s = last
    BY <1>4, <2>0, <2>4
  <2>5. CASE last < s
    <3>1. last + 1 \in Slots /\ A[last + 1] = Nobody /\ last + 1 # j
      BY <1>0, <1>1, <1>5, <2>5 DEF Slots
    <3>2. A[s] = Nobody
      BY <1>0, <1>2, <2>5, <3>1 DEF ArrayFits
    <3> QED
      BY <1>4, <1>5, <2>0, <2>5, <3>2
  <2> QED
    BY <1>5, <2>0, <2>1, <2>2, <2>3, <2>4, <2>5
<1>7. \A s, t \in Slots : A'[s] = A'[t] /\ A'[s] # Nobody => s = t
  <2> SUFFICES ASSUME NEW s \in Slots, NEW t \in Slots, A'[s] = A'[t], A'[s] # Nobody PROVE s = t
    OBVIOUS
  <2>0. s \in Nat /\ t \in Nat /\ last \in Nat
    BY <1>0
  <2>1. s < last /\ t < last /\ s # last /\ t # last
    BY <1>6, <2>0
  <2>2. A'[s] = IF s = j THEN A[last] ELSE A[s]
    BY <1>0, <1>4, <2>1
  <2>3. A'[t] = IF t = j THEN A[last] ELSE A[t]
    BY <1>0, <1>4, <2>1
  <2>4. \A u, v \in Slots : A[u] = A[v] /\ A[u] # Nobody => u = v
    BY DEF ArrayFits
  <2> QED
    BY <2>1, <2>2, <2>3, <2>4
<1>8. \A a \in joined : \E s \in Slots : A'[s] = a
  <2> SUFFICES ASSUME NEW a \in joined PROVE \E s \in Slots : A'[s] = a
    OBVIOUS
  <2>1. PICK s \in Slots : A[s] = a
    BY DEF ArrayFits
  <2>2. s # j
    BY <1>0, <1>3, <1>4, <2>1
  <2> QED
    BY <1>0, <1>4, <2>1, <2>2
<1>9. \A s \in Slots : A'[s] # Nobody => A'[s] \in joined
  <2> SUFFICES ASSUME NEW s \in Slots, A'[s] # Nobody PROVE A'[s] \in joined
    OBVIOUS
  <2>1. A'[s] \in {A[last], A[s]}
    BY <1>4, <1>6
  <2> QED
    BY <2>1 DEF ArrayFits
<1>10. \A s, t \in Slots : s < t /\ A'[t] # Nobody => A'[s] # Nobody
  BY <1>0, <1>6
<1> QED
  BY <1>2, <1>6, <1>7, <1>8, <1>9, <1>10 DEF ArrayFits

\* The array stays in order as long as nobody comes during a removal.
LEMMA ArrayKept ==
  ApiTypes /\ ArrayFits /\ [ApiNext]_apiVars /\ ~crossed' => ArrayFits'
<1> SUFFICES ASSUME ApiTypes, ArrayFits, [ApiNext]_apiVars, ~crossed' PROVE ArrayFits'
  OBVIOUS
<1> DEFINE A == mLocAdapters
<1>0. /\ MaxAdapters \in Nat \ {0} /\ Nobody \notin Adapters /\ Slots \subseteq Nat
      /\ A \in [Slots -> Adapters \cup {Nobody}] /\ joined \subseteq Adapters
      /\ life \in [Adapters -> {"unborn", "alive", "deleted"}]
  BY LocApiAssumption DEF ApiTypes, ApiTypeOK, Slots
<1>e. EndFits /\ TableFits
  BY EndIs, TableIs DEF ApiTypes
<1>1. ASSUME NEW a \in Adapters, NEW E \in SUBSET EventBits, AddAdapter(a, E) PROVE ArrayFits'
  <2>1. removal = AtRest /\ removal' = AtRest /\ life[a] = "unborn" /\ life' = [life EXCEPT ![a] = "alive"]
    BY <1>1 DEF AddAdapter
  <2>2. a \notin joined
    BY <2>1 DEF ArrayFits
  <2>3. \A b \in joined : life'[b] = "alive"
    BY <1>0, <2>1, <2>2 DEF ArrayFits
  <2>4. CASE ~(End < MaxAdapters)
    <3>1. mLocAdapters' = mLocAdapters /\ joined' = joined
      BY <1>1, <2>4 DEF AddAdapter
    <3> QED
      BY <2>1, <2>3, <3>1 DEF ArrayFits, AtRest
  <2>5. CASE End < MaxAdapters
    <3>1. A' = [A EXCEPT ![End] = a] /\ joined' = joined \cup {a} /\ End \in Slots
      BY <1>0, <1>1, <1>e, <2>5 DEF AddAdapter, EndFits, Slots
    <3>2. A'[End] = a /\ \A s \in Slots : s # End => A'[s] = A[s]
      BY <1>0, <3>1
    <3>3. \A s \in Slots : A[s] # Nobody <=> s < End
      BY <1>e, <2>1 DEF TableFits, AtRest
    <3>4. \A s \in Slots : A[s] # a
      BY <1>0, <2>2 DEF ArrayFits
    <3>5. \A s \in Slots : A'[s] # Nobody <=> s <= End
      BY <1>0, <3>1, <3>2, <3>3
    <3>6. \A s, t \in Slots : A'[s] = A'[t] /\ A'[s] # Nobody => s = t
      BY <3>1, <3>2, <3>4 DEF ArrayFits
    <3>7. \A b \in joined' : life'[b] = "alive" /\ \E s \in Slots : A'[s] = b
      <4>1. life'[a] = "alive" /\ A'[End] = a
        BY <1>0, <2>1, <3>2
      <4>2. ASSUME NEW b \in joined PROVE \E s \in Slots : A'[s] = b
        <5>1. PICK s \in Slots : A[s] = b
          BY DEF ArrayFits
        <5>2. s # End
          BY <1>0, <3>1, <3>3, <5>1
        <5> QED
          BY <3>2, <5>1, <5>2
      <4> QED
        BY <2>3, <3>1, <4>1, <4>2
    <3>8. \A s \in Slots : A'[s] # Nobody => A'[s] \in joined'
      BY <3>1, <3>2 DEF ArrayFits
    <3>9. \A s, t \in Slots : s < t /\ A'[t] # Nobody => A'[s] # Nobody
      BY <1>0, <3>1, <3>5
    <3> QED
      BY <2>1, <3>6, <3>7, <3>8, <3>9 DEF ArrayFits, AtRest
  <2> QED
    BY <2>4, <2>5
<1>2. ASSUME NEW a \in Adapters, RemoveAdapter(a) PROVE ArrayFits'
  <2>1. removal = AtRest /\ life' = [life EXCEPT ![a] = "deleted"] /\ joined' = joined \ {a}
    BY <1>2 DEF RemoveAdapter
  <2>2. InTable = joined /\ \A s \in Slots : A[s] # Nobody <=> s < End
    BY <1>e, <2>1 DEF TableFits, AtRest
  <2>3. \A b \in joined' : b \in joined /\ b # a /\ life'[b] = "alive"
    BY <1>0, <2>1 DEF ArrayFits
  <2>4. CASE a \notin InTable
    <3>1. mLocAdapters' = mLocAdapters /\ joined' = joined /\ removal' = AtRest
      BY <1>2, <2>1, <2>2, <2>4 DEF RemoveAdapter
    <3> QED
      BY <2>1, <2>3, <3>1 DEF ArrayFits, AtRest
  <2>5. CASE a \in InTable
    <3> DEFINE j == CHOOSE s \in 0 .. End - 1 : mLocAdapters[s] = a
    <3>1. j \in 0 .. End - 1 /\ A[j] = a
      <4>1. \E s \in 0 .. End - 1 : mLocAdapters[s] = a
        BY <2>5 DEF InTable
      <4> QED
        BY <4>1, Zenon
    <3>2. /\ A' = [A EXCEPT ![j] = Nobody]
          /\ removal' = [at |-> "shifting", who |-> a, slot |-> j, last |-> 0]
      BY <1>2, <2>5, Zenon DEF RemoveAdapter
    <3> HIDE DEF j
    <3>3. j \in Slots /\ j < End
      BY <1>0, <1>e, <3>1 DEF Slots, EndFits
    <3>4. /\ removal'.at = "shifting" /\ removal'.slot = j /\ A'[j] = Nobody
          /\ \A s \in Slots : s # j => A'[s] = A[s]
      BY <1>0, <3>2, <3>3
    <3>5. \A s, t \in Slots : s < t /\ A'[t] # Nobody /\ s # j => A'[s] # Nobody
      BY <1>0, <2>2, <3>3, <3>4, <1>e DEF EndFits
    <3>6. \A s \in Slots : s < j => A'[s] # Nobody
      <4> SUFFICES ASSUME NEW s \in Slots, s < j PROVE A'[s] # Nobody
        OBVIOUS
      <4>1. s \in Nat /\ j \in Nat /\ End \in Nat
        BY <1>0, <3>3, <1>e DEF EndFits
      <4>2. s # j /\ s < End
        BY <3>3, <4>1
      <4> QED
        BY <2>2, <3>4, <4>2
    <3>7. \A s, t \in Slots : A'[s] = A'[t] /\ A'[s] # Nobody => s = t
      BY <3>4 DEF ArrayFits
    <3>8. \A b \in joined' : \E s \in Slots : A'[s] = b
      <4> SUFFICES ASSUME NEW b \in joined' PROVE \E s \in Slots : A'[s] = b
        OBVIOUS
      <4>1. PICK s \in Slots : A[s] = b
        BY <2>3 DEF ArrayFits
      <4> QED
        BY <2>3, <3>1, <3>4, <4>1
    <3>9. \A s \in Slots : A'[s] # Nobody => A'[s] \in joined'
      <4> SUFFICES ASSUME NEW s \in Slots, A'[s] # Nobody PROVE A'[s] \in joined'
        OBVIOUS
      <4>1. s # j /\ A'[s] = A[s] /\ A[s] \in joined
        BY <3>4 DEF ArrayFits
      <4>2. A[s] # a
        BY <3>1, <3>3, <4>1 DEF ArrayFits
      <4> QED
        BY <2>1, <4>1, <4>2
    <3> QED
      BY <2>3, <3>4, <3>5, <3>6, <3>7, <3>8, <3>9 DEF ArrayFits
  <2> QED
    BY <2>4, <2>5
<1>3. CASE Shift
  BY <1>3, ShiftFits
<1>4. CASE LeaveArray
  <2>1. removal.at = "leaving" /\ removal' = AtRest /\ A' = A /\ joined' = joined /\ life' = life
    BY <1>4 DEF LeaveArray
  <2> QED
    BY <2>1 DEF ArrayFits, AtRest
<1>5. ASSUME UNCHANGED <<mLocAdapters, joined, life, removal>> PROVE ArrayFits'
  BY <1>5 DEF ArrayFits
<1>6. CASE ProcMessage
  BY <1>5, <1>6 DEF ProcMessage
<1>7. ASSUME NEW a, NEW E, NEW enabled, UpdateEvtMask(a, E, enabled) PROVE ArrayFits'
  BY <1>5, <1>7 DEF UpdateEvtMask
<1>8. ASSUME NEW kind, BeginWalk(kind) PROVE ArrayFits'
  BY <1>5, <1>8 DEF BeginWalk
<1>9. CASE EngineDown
  BY <1>5, <1>9 DEF EngineDown
<1>10. CASE EngineUp
  BY <1>5, <1>10 DEF EngineUp
<1>11. CASE WalkOn
  BY <1>5, <1>11 DEF WalkOn
<1>12. CASE UNCHANGED apiVars
  BY <1>5, <1>12 DEF apiVars
<1> QED
  BY <1>1, <1>2, <1>3, <1>4, <1>6, <1>7, <1>8, <1>9, <1>10, <1>11, <1>12, Zenon DEF ApiNext

\* What a step of the walk hears, if nothing disturbs it, is the array's next
\* element, and it ends after all that have joined.
LEMMA WalkOnFits ==
  ApiTypes /\ ArrayFits /\ WalkFits /\ WalkOn => WalkFits'
<1> SUFFICES ASSUME ApiTypes, ArrayFits, WalkFits, WalkOn PROVE WalkFits'
  OBVIOUS
<1> DEFINE A == mLocAdapters  n == round.at  a == mLocAdapters[round.at]  H == round.heard
<1>0. /\ MaxAdapters \in Nat \ {0} /\ Nobody \notin Adapters
      /\ A \in [Slots -> Adapters \cup {Nobody}] /\ joined \subseteq Adapters
      /\ round \in [kind : {"none", "report", "request", "up"}, at : 0 .. MaxAdapters,
                    heard : Seq(Adapters), due : SUBSET Adapters, disturbed : BOOLEAN]
  BY LocApiAssumption DEF ApiTypes, ApiTypeOK
<1>1. /\ n \in Nat /\ n < MaxAdapters /\ n \in Slots /\ H \in Seq(Adapters) /\ a \in Adapters \cup {Nobody}
      /\ A' = A /\ removal' = removal /\ joined' = joined
  BY <1>0 DEF WalkOn, Slots
<1>2. /\ round'.kind = round.kind /\ round'.due = round.due /\ round'.disturbed = round.disturbed
      /\ a = Nobody => round'.at = MaxAdapters /\ round'.heard = H
      /\ a # Nobody => /\ round'.heard = Append(H, a)
                       /\ round'.at = IF round.kind = "request" /\ a \in Handling
                                        THEN MaxAdapters ELSE n + 1
  <2>1. CASE a = Nobody
    BY <1>0, <2>1 DEF WalkOn
  <2>2. CASE a # Nobody
    BY <1>0, <2>2 DEF WalkOn
  <2> QED
    BY <2>1, <2>2
<1>3. CASE round.disturbed
  BY <1>2, <1>3 DEF WalkFits
<1>4. CASE ~round.disturbed
  <2>1. /\ removal = AtRest /\ Len(H) = n /\ round.due \subseteq joined
        /\ \A i \in 1 .. n : /\ H[i] = A[i - 1] /\ A[i - 1] # Nobody
                             /\ round.kind = "request" => H[i] \notin Handling
    BY <1>1, <1>4 DEF WalkFits
  <2>2. /\ \A s, t \in Slots : s < t /\ A[t] # Nobody => A[s] # Nobody
        /\ \A s, t \in Slots : A[s] = A[t] /\ A[s] # Nobody => s = t
        /\ \A b \in joined : \E s \in Slots : A[s] = b
    BY <2>1 DEF ArrayFits, AtRest
  <2>3. CASE a = Nobody
    <3>1. /\ round'.at = MaxAdapters /\ round'.heard = H /\ ~round'.disturbed
          /\ round'.kind = round.kind /\ round'.due = round.due
      BY <1>2, <1>4, <2>3
    <3>2. \A i, j \in 1 .. Len(H) : H[i] = H[j] => i = j
      <4> SUFFICES ASSUME NEW i \in 1 .. n, NEW j \in 1 .. n, H[i] = H[j] PROVE i = j
        BY <2>1
      <4>1. i - 1 \in Slots /\ j - 1 \in Slots
        BY <1>0, <1>1 DEF Slots
      <4>2. i - 1 = j - 1
        BY <2>1, <2>2, <4>1
      <4> QED
        BY <4>2
    <3>3. \A b \in round.due : \E i \in 1 .. Len(H) : H[i] = b
      <4> SUFFICES ASSUME NEW b \in round.due PROVE \E i \in 1 .. n : H[i] = b
        BY <2>1
      <4>1. PICK s \in Slots : A[s] = b
        BY <2>1, <2>2
      <4>2. A[s] # Nobody /\ s \in Nat
        BY <1>0, <2>1, <4>1 DEF Slots
      <4>3. s < n
        <5>1. ~(n < s)
          BY <1>1, <2>2, <2>3, <4>2
        <5>2. n # s
          BY <2>3, <4>2
        <5> QED
          BY <1>1, <4>2, <5>1, <5>2
      <4>4. s + 1 \in 1 .. n
        BY <1>1, <4>2, <4>3
      <4>5. PICK i \in 1 .. n : i - 1 = s
        BY <4>2, <4>4
      <4> QED
        BY <2>1, <4>1, <4>5
    <3>4. round.kind = "request" => \A i \in 1 .. Len(H) : H[i] \notin Handling
      BY <2>1
    <3>5. round.kind = "request" => \A i \in 1 .. Len(H) - 1 : H[i] \notin Handling
      BY <1>1, <2>1, <3>4
    <3>6. round.kind = "request" => round.due \cap Handling = {}
      BY <3>3, <3>4
    <3> QED
      BY <1>0, <3>1, <3>2, <3>3, <3>5, <3>6 DEF WalkFits
  <2>4. CASE a # Nobody
    <3> DEFINE G == Append(H, a)
    <3>1. /\ G \in Seq(Adapters) /\ Len(G) = n + 1 /\ G[n + 1] = a
          /\ \A i \in 1 .. n : G[i] = H[i]
      BY <1>1, <2>1, <2>4
    <3>2. /\ round'.heard = G /\ ~round'.disturbed
          /\ round'.kind = round.kind /\ round'.due = round.due
          /\ round'.at = IF round.kind = "request" /\ a \in Handling THEN MaxAdapters ELSE n + 1
      BY <1>2, <1>4, <2>4
    <3> HIDE DEF G
    <3>3. \A i \in 1 .. n + 1 : i - 1 \in Slots /\ G[i] = A[i - 1] /\ A[i - 1] # Nobody
      <4> SUFFICES ASSUME NEW i \in 1 .. n + 1
                   PROVE  i - 1 \in Slots /\ G[i] = A[i - 1] /\ A[i - 1] # Nobody
        OBVIOUS
      <4>1. i - 1 \in Slots
        BY <1>1, <1>0 DEF Slots
      <4>2. CASE i = n + 1
        BY <1>1, <2>4, <3>1, <4>2
      <4>3. CASE i # n + 1
        <5>1. i \in 1 .. n
          BY <1>1, <4>3
        <5> QED
          BY <2>1, <3>1, <4>1, <5>1
      <4> QED
        BY <4>1, <4>2, <4>3
    <3>4. round.kind = "request" => \A i \in 1 .. n : G[i] \notin Handling
      BY <2>1, <3>1
    <3>5. \A i, j \in 1 .. Len(G) : G[i] = G[j] => i = j
      <4> SUFFICES ASSUME NEW i \in 1 .. n + 1, NEW j \in 1 .. n + 1, G[i] = G[j] PROVE i = j
        BY <3>1
      <4>1. i - 1 = j - 1
        BY <2>2, <3>3
      <4> QED
        BY <4>1
    <3>6. ASSUME n + 1 = MaxAdapters PROVE \A b \in round.due : \E i \in 1 .. Len(G) : G[i] = b
      <4> SUFFICES ASSUME NEW b \in round.due PROVE \E i \in 1 .. n + 1 : G[i] = b
        BY <3>1
      <4>1. PICK s \in Slots : A[s] = b
        BY <2>1, <2>2
      <4>2. s \in Nat /\ s < MaxAdapters
        BY <1>0, <4>1 DEF Slots
      <4>3. PICK i \in 1 .. n + 1 : i - 1 = s
        <5>1. s + 1 \in 1 .. n + 1
          BY <1>1, <3>6, <4>2
        <5> QED
          BY <4>2, <5>1
      <4> QED
        BY <3>3, <4>1, <4>3
    <3>7. CASE round.kind = "request" /\ a \in Handling
      <4>1. round'.at = MaxAdapters
        BY <3>2, <3>7
      <4>2. \A i \in 1 .. Len(G) - 1 : G[i] \notin Handling
        BY <1>1, <3>1, <3>4, <3>7
      <4>3. n + 1 \in 1 .. Len(G) /\ G[n + 1] \in Handling
        BY <1>1, <3>1, <3>7
      <4>4. \E i \in 1 .. Len(G) : G[i] \in Handling
        BY <4>3
      <4> QED
        BY <1>0, <3>2, <3>5, <3>7, <4>1, <4>2, <4>4 DEF WalkFits
    <3>8. CASE ~(round.kind = "request" /\ a \in Handling)
      <4>1. round'.at = n + 1
        BY <3>2, <3>8
      <4>2. round.kind = "request" => \A i \in 1 .. n + 1 : G[i] \notin Handling
        <5> SUFFICES ASSUME round.kind = "request", NEW i \in 1 .. n + 1 PROVE G[i] \notin Handling
          OBVIOUS
        <5>1. i \in 1 .. n \/ i = n + 1
          BY <1>1
        <5> QED
          BY <3>1, <3>4, <3>8, <5>1
      <4>3. CASE n + 1 < MaxAdapters
        BY <1>0, <1>1, <2>1, <3>1, <3>2, <3>3, <4>1, <4>2, <4>3 DEF WalkFits
      <4>4. CASE n + 1 = MaxAdapters
        <5>1. \A b \in round.due : \E i \in 1 .. Len(G) : G[i] = b
          BY <3>6, <4>4
        <5>2. round.kind = "request" => \A i \in 1 .. Len(G) - 1 : G[i] \notin Handling
          BY <1>1, <3>1, <4>2
        <5>3. round.kind = "request" => round.due \cap Handling = {}
          BY <3>1, <4>2, <5>1
        <5> QED
          BY <1>0, <3>2, <3>5, <4>1, <4>4, <5>1, <5>2, <5>3 DEF WalkFits
      <4> QED
        BY <1>0, <1>1, <4>3, <4>4
    <3> QED
      BY <3>7, <3>8
  <2> QED
    BY <2>3, <2>4
<1> QED
  BY <1>3, <1>4

\* Nothing disturbs a walk but a removal.
LEMMA WalkKept ==
  ApiTypes /\ ArrayFits /\ WalkFits /\ [ApiNext]_apiVars => WalkFits'
<1> SUFFICES ASSUME ApiTypes, ArrayFits, WalkFits, [ApiNext]_apiVars PROVE WalkFits'
  OBVIOUS
<1> DEFINE A == mLocAdapters
<1>0. /\ MaxAdapters \in Nat \ {0} /\ Nobody \notin Adapters
      /\ A \in [Slots -> Adapters \cup {Nobody}]
      /\ round \in [kind : {"none", "report", "request", "up"}, at : 0 .. MaxAdapters,
                    heard : Seq(Adapters), due : SUBSET Adapters, disturbed : BOOLEAN]
  BY LocApiAssumption DEF ApiTypes, ApiTypeOK
<1>5. ASSUME UNCHANGED <<mLocAdapters, joined, round, removal>> PROVE WalkFits'
  BY <1>5 DEF WalkFits
<1>k. ASSUME round'.disturbed PROVE WalkFits'
  BY <1>k DEF WalkFits
<1>w. ASSUME NEW kind, Walks(kind), removal' = removal, joined' = joined PROVE WalkFits'
  <2>1. /\ round'.at = 0 /\ round'.heard = <<>> /\ round'.due = joined
        /\ ~round'.disturbed => removal = AtRest
    <3>1. round'.disturbed = (removal # AtRest)
      BY <1>w, Zenon DEF Walks
    <3>2. round'.at = 0 /\ round'.heard = <<>> /\ round'.due = joined
      BY <1>w DEF Walks
    <3> QED
      BY <3>1, <3>2, Zenon
  <2>2. Len(<<>>) = 0 /\ 1 .. 0 = {} /\ 0 < MaxAdapters /\ 0 # MaxAdapters
    BY <1>0
  <2> QED
    BY <1>w, <2>1, <2>2 DEF WalkFits
<1>1. ASSUME NEW a \in Adapters, NEW E \in SUBSET EventBits, AddAdapter(a, E) PROVE WalkFits'
  <2>1. CASE ~(End < MaxAdapters)
    BY <1>1, <1>5, <2>1 DEF AddAdapter
  <2>2. CASE End < MaxAdapters
    <3>1. /\ A' = [A EXCEPT ![End] = a] /\ joined' = joined \cup {a}
          /\ round' = round /\ removal' = removal
      BY <1>1, <2>2 DEF AddAdapter
    <3>2. End \in Slots /\ A[End] = Nobody
      BY <1>0, <2>2, EndIs DEF ApiTypes, EndFits, Slots
    <3>3. \A s \in Slots : A[s] # Nobody => A'[s] = A[s]
      BY <1>0, <3>1, <3>2
    <3>4. \A i \in 1 .. round.at : i - 1 \in Slots
      BY <1>0 DEF Slots
    <3>5. ASSUME round.at < MaxAdapters, ~round.disturbed
          PROVE  \A i \in 1 .. round.at : round.heard[i] = A'[i - 1] /\ A'[i - 1] # Nobody
      BY <3>3, <3>4, <3>5 DEF WalkFits
    <3>6. joined \subseteq joined'
      BY <3>1
    <3> QED
      BY <3>1, <3>5, <3>6 DEF WalkFits
  <2> QED
    BY <2>1, <2>2
<1>2. ASSUME NEW a \in Adapters, RemoveAdapter(a) PROVE WalkFits'
  <2>1. CASE a \notin InTable
    <3>1. InTable = joined
      BY <1>2, TableIs DEF RemoveAdapter, TableFits, AtRest
    <3> QED
      BY <1>2, <1>5, <2>1, <3>1 DEF RemoveAdapter
  <2>2. CASE a \in InTable
    <3>1. round' = [round EXCEPT !.disturbed = TRUE]
      BY <1>2, <2>2, Zenon DEF RemoveAdapter
    <3> QED
      BY <1>0, <1>k, <3>1
  <2> QED
    BY <2>1, <2>2
<1>3. CASE Shift
  <2>1. round' = [round EXCEPT !.disturbed = TRUE]
    BY <1>3, Zenon DEF Shift
  <2> QED
    BY <1>0, <1>k, <2>1
<1>4. CASE LeaveArray
  <2>1. removal # AtRest /\ round' = round
    BY <1>4 DEF LeaveArray, AtRest
  <2> QED
    BY <2>1 DEF WalkFits
<1>6. CASE ProcMessage
  BY <1>5, <1>6 DEF ProcMessage
<1>7. ASSUME NEW a, NEW E, NEW enabled, UpdateEvtMask(a, E, enabled) PROVE WalkFits'
  BY <1>5, <1>7 DEF UpdateEvtMask
<1>8. ASSUME NEW kind, BeginWalk(kind) PROVE WalkFits'
  BY <1>w, <1>8 DEF BeginWalk
<1>9. CASE EngineDown
  BY <1>w, <1>9 DEF EngineDown
<1>10. CASE EngineUp
  BY <1>w, <1>10 DEF EngineUp
<1>11. CASE WalkOn
  BY <1>11, WalkOnFits
<1>12. CASE UNCHANGED apiVars
  BY <1>5, <1>12 DEF apiVars
<1> QED
  BY <1>1, <1>2, <1>3, <1>4, <1>6, <1>7, <1>8, <1>9, <1>10, <1>11, <1>12, Zenon DEF ApiNext

\* The facts about events need the adapters that have joined and what they ask
\* for, and no more of the array.
LEMMA EventsKept ==
  /\ ApiTypes /\ ArrayFits /\ EventsFit /\ [ApiNext]_apiVars
  /\ ~crossed' /\ ApiTypes' /\ ArrayFits'
  => EventsFit'
<1> SUFFICES ASSUME ApiTypes, ArrayFits, EventsFit, [ApiNext]_apiVars, ~crossed', ApiTypes', ArrayFits'
             PROVE  EventsFit'
  OBVIOUS
<1>0. /\ MaxAdapters \in Nat \ {0} /\ Nobody \notin Adapters /\ joined \subseteq Adapters
      /\ messages \in Seq(ApiMessages) /\ downs \in Nat
      /\ wants \in [Adapters -> SUBSET EventBits]
      /\ life \in [Adapters -> {"unborn", "alive", "deleted"}]
      /\ opened \in [events : SUBSET EventBits, handle : BOOLEAN]
  BY LocApiAssumption DEF ApiTypes, ApiTypeOK
<1>e. EndFits /\ TableFits /\ EndFits' /\ TableFits'
  BY EndIs, TableIs, EndNext, TableNext DEF ApiTypes
<1>f. WantsCovered /\ HandleComes /\ MailFits
  BY DEF EventsFit
<1> DEFINE Msg(k, E, w) == [kind |-> k, events |-> E, who |-> w, downs |-> downs]
\* What a post of a message keeps.
<1>p. ASSUME NEW m \in ApiMessages, messages' = Append(messages, m)
      PROVE  /\ DOMAIN messages = 1 .. Len(messages) /\ Len(messages) \in Nat
             /\ \A i \in DOMAIN messages : i \in DOMAIN messages' /\ messages'[i] = messages[i]
             /\ Len(messages) + 1 \in DOMAIN messages' /\ messages'[Len(messages) + 1] = m
             /\ \A i \in DOMAIN messages' : i \in DOMAIN messages \/ i = Len(messages) + 1
  <2> HIDE DEF ApiMessages
  <2>1. messages \in Seq(ApiMessages) /\ m \in ApiMessages
    BY <1>0, <1>p
  <2>2. /\ DOMAIN messages = 1 .. Len(messages) /\ Len(messages) \in Nat
        /\ \A i \in DOMAIN messages :
             i \in DOMAIN Append(messages, m) /\ Append(messages, m)[i] = messages[i]
        /\ Len(messages) + 1 \in DOMAIN Append(messages, m)
        /\ Append(messages, m)[Len(messages) + 1] = m
        /\ \A i \in DOMAIN Append(messages, m) : i \in DOMAIN messages \/ i = Len(messages) + 1
    BY <2>1, Posted
  <2> QED
    BY <1>p, <2>2, Zenon
\* Events that were covered still are, as the queue grows.
<1>c. ASSUME opened' = opened,
             \/ messages' = messages
             \/ \E m \in ApiMessages : messages' = Append(messages, m)
      PROVE  /\ \A e : Covered(e) => Covered(e)'
             /\ (\E i \in DOMAIN messages : messages[i].kind \in Opening)
                  => \E i \in DOMAIN messages' : messages'[i].kind \in Opening
  <2>1. CASE messages' = messages
    BY <1>c, <2>1 DEF Covered
  <2>2. ASSUME NEW m \in ApiMessages, messages' = Append(messages, m)
        PROVE  \A i \in DOMAIN messages : i \in DOMAIN messages' /\ messages'[i] = messages[i]
    BY <1>p, <2>2
  <2>3. \A i \in DOMAIN messages : i \in DOMAIN messages' /\ messages'[i] = messages[i]
    BY <1>c, <2>1, <2>2
  <2> QED
    BY <1>c, <2>3 DEF Covered
\* The messages that were there keep their place.
<1>d. ASSUME opened' = opened, downs' = downs, modemUp' = modemUp,
             \A b \in Adapters : life[b] # "unborn" => life'[b] # "unborn",
             \A b \in joined' : life[b] # "unborn" => b \in joined,
             \/ messages' = messages
             \/ \E m \in ApiMessages :
                  /\ messages' = Append(messages, m)
                  /\ m.downs <= downs /\ m.kind # "up"
      PROVE  MailFits'
  <2>1. CASE messages' = messages
    BY <1>d, <1>f, <2>1 DEF MailFits
  <2>2. ASSUME NEW m \in ApiMessages, messages' = Append(messages, m), m.downs <= downs, m.kind # "up"
        PROVE  MailFits'
    <3> DEFINE new == Len(messages) + 1
    <3>1. /\ DOMAIN messages = 1 .. Len(messages) /\ Len(messages) \in Nat
          /\ \A i \in DOMAIN messages : i \in DOMAIN messages' /\ messages'[i] = messages[i]
          /\ new \in DOMAIN messages' /\ messages'[new] = m
          /\ \A i \in DOMAIN messages' : i \in DOMAIN messages \/ i = new
      BY <1>p, <2>2
    <3> HIDE DEF new
    <3> SUFFICES ASSUME NEW i \in DOMAIN messages'
                 PROVE  /\ messages'[i].downs <= downs'
                        /\ messages'[i].kind = "up" =>
                             messages'[i].who \in Adapters /\ life'[messages'[i].who] # "unborn"
                        /\ messages'[i].kind = "up" /\ messages'[i].downs = downs' =>
                             /\ modemUp'
                             /\ messages'[i].who \in joined' =>
                                  \/ opened'.handle
                                  \/ \E j \in DOMAIN messages' : j < i /\ messages'[j].kind \in Opening
      BY DEF MailFits
    <3>2. CASE i = new
      BY <1>d, <2>2, <3>1, <3>2
    <3>3. CASE i \in DOMAIN messages
      <4>1. messages'[i] = messages[i]
        BY <3>1, <3>3
      <4>2. /\ messages[i].downs <= downs
            /\ messages[i].kind = "up" => messages[i].who \in Adapters /\ life[messages[i].who] # "unborn"
            /\ messages[i].kind = "up" /\ messages[i].downs = downs =>
                 /\ modemUp
                 /\ messages[i].who \in joined =>
                      opened.handle \/ \E j \in DOMAIN messages : j < i /\ messages[j].kind \in Opening
        BY <1>f, <3>3 DEF MailFits
      <4>3. (\E j \in DOMAIN messages : j < i /\ messages[j].kind \in Opening)
              => \E j \in DOMAIN messages' : j < i /\ messages'[j].kind \in Opening
        BY <3>1
      <4> HIDE DEF Opening
      <4> QED
        BY <1>d, <4>1, <4>2, <4>3
    <3> QED
      BY <3>1, <3>2, <3>3
  <2> QED
    BY <1>d, <2>1, <2>2
<1>r. ASSUME round' = round, modemUp' = modemUp
      PROVE  round'.kind = "up" /\ round'.at < MaxAdapters => modemUp'
  BY <1>r DEF EventsFit
<1>m. ASSUME NEW k \in {"open", "ssr", "up"}, NEW E \in SUBSET EventBits, NEW w \in Adapters \cup {Nobody}
      PROVE  /\ Msg(k, E, w) \in ApiMessages /\ Msg(k, E, w).downs = downs /\ Msg(k, E, w).kind = k
             /\ Msg(k, E, w).events = E /\ Msg(k, E, w).who = w /\ downs <= downs
  BY <1>0 DEF ApiMessages
\* A post of the mask covers it.
<1>o. ASSUME NEW E \in SUBSET EventBits, messages' = Append(messages, Msg("open", E, Nobody))
      PROVE  /\ \A e \in E : Covered(e)'
             /\ \E i \in DOMAIN messages' : messages'[i].kind \in Opening
             /\ \E m \in ApiMessages :
                  messages' = Append(messages, m) /\ m.downs <= downs /\ m.kind # "up"
  <2>1. /\ Msg("open", E, Nobody) \in ApiMessages /\ Msg("open", E, Nobody).kind = "open"
        /\ Msg("open", E, Nobody).events = E /\ Msg("open", E, Nobody).downs <= downs
    BY <1>m
  <2> DEFINE m == Msg("open", E, Nobody)
  <2> HIDE DEF Msg, m
  <2>2. m \in ApiMessages /\ m.kind = "open" /\ m.events = E /\ m.downs <= downs
    BY <2>1 DEF m
  <2>3. messages' = Append(messages, m)
    BY <1>o DEF m
  <2>4. Len(messages) + 1 \in DOMAIN messages' /\ messages'[Len(messages) + 1] = m
    BY <1>p, <2>2, <2>3
  <2> QED
    BY <2>2, <2>3, <2>4 DEF Covered, Opening
\* The listed adapters and what they ask for stay.
<1>g. ASSUME mLocAdapters' = mLocAdapters, wants' = wants PROVE GetEvtMask' = GetEvtMask
  BY <1>g DEF GetEvtMask, InTable, End
<1>1. ASSUME NEW a \in Adapters, NEW E \in SUBSET EventBits, AddAdapter(a, E) PROVE EventsFit'
  <2>1. /\ removal = AtRest /\ removal' = AtRest /\ life[a] = "unborn"
        /\ life' = [life EXCEPT ![a] = "alive"] /\ wants' = [wants EXCEPT ![a] = E]
        /\ opened' = opened /\ modemUp' = modemUp /\ downs' = downs /\ round' = round
    BY <1>1 DEF AddAdapter
  <2>2. a \notin joined /\ InTable = joined /\ InTable' = joined'
    BY <1>e, <2>1 DEF ArrayFits, TableFits, AtRest
  <2>3. /\ \A b \in joined : wants'[b] = wants[b]
        /\ \A b \in Adapters : life[b] # "unborn" => life'[b] # "unborn"
    BY <1>0, <2>1, <2>2
  <2>4. CASE ~(End < MaxAdapters)
    <3>1. joined' = joined /\ messages' = messages
      BY <1>1, <2>4 DEF AddAdapter
    <3>2. \A e : Covered(e) => Covered(e)'
      BY <1>c, <2>1, <3>1
    <3>3. GetEvtMask' \subseteq GetEvtMask
      BY <1>e, <2>2, <2>3, <3>1 DEF EndFits
    <3>4. WantsCovered'
      BY <1>f, <2>1, <3>2, <3>3 DEF WantsCovered
    <3>5. HandleComes'
      BY <1>f, <2>1, <3>1 DEF HandleComes
    <3>6. MailFits'
      BY <1>d, <2>1, <2>3, <3>1
    <3> QED
      BY <1>r, <2>1, <3>4, <3>5, <3>6 DEF EventsFit
  <2>5. CASE End < MaxAdapters
    <3>1. joined' = joined \cup {a} /\ messages' = Append(messages, Msg("open", E, Nobody))
      BY <1>1, <2>5 DEF AddAdapter, SendMsg, OpenMsg
    <3>2. /\ \A e \in E : Covered(e)'
          /\ \E i \in DOMAIN messages' : messages'[i].kind \in Opening
          /\ \E m \in ApiMessages :
               messages' = Append(messages, m) /\ m.downs <= downs /\ m.kind # "up"
      BY <1>o, <3>1
    <3>3. \A e : Covered(e) => Covered(e)'
      BY <1>c, <2>1, <3>2
    <3>4. \A e \in GetEvtMask' : e \in E \/ e \in GetEvtMask
      <4> SUFFICES ASSUME NEW e, e \in GetEvtMask' PROVE e \in E \/ e \in GetEvtMask
        OBVIOUS
      <4>1. e \notin Excluded /\ \E b \in InTable' : e \in wants'[b]
        BY <1>e DEF EndFits
      <4>2. PICK b \in joined' : e \in wants'[b]
        BY <2>2, <4>1
      <4>3. CASE b = a
        BY <1>0, <2>1, <4>2, <4>3
      <4>4. CASE b # a
        <5>1. b \in InTable /\ e \in wants[b]
          BY <2>2, <2>3, <3>1, <4>2, <4>4
        <5> QED
          BY <1>e, <4>1, <5>1 DEF EndFits
      <4> QED
        BY <4>3, <4>4
    <3>5. WantsCovered'
      BY <1>f, <2>1, <3>2, <3>3, <3>4 DEF WantsCovered
    <3>6. HandleComes'
      BY <3>2 DEF HandleComes
    <3>7. \A b \in joined' : life[b] # "unborn" => b \in joined
      BY <2>1, <3>1
    <3>8. MailFits'
      BY <1>d, <2>1, <2>3, <3>2, <3>7
    <3> QED
      BY <1>r, <2>1, <3>5, <3>6, <3>8 DEF EventsFit
  <2> QED
    BY <2>4, <2>5
<1>2. ASSUME NEW a \in Adapters, RemoveAdapter(a) PROVE EventsFit'
  <2>1. /\ removal = AtRest /\ life' = [life EXCEPT ![a] = "deleted"] /\ joined' = joined \ {a}
        /\ opened' = opened /\ modemUp' = modemUp /\ downs' = downs /\ wants' = wants
        /\ messages' = messages
    BY <1>2 DEF RemoveAdapter
  <2>2. \A b \in Adapters : life[b] # "unborn" => life'[b] # "unborn"
    BY <1>0, <2>1
  <2>3. HandleComes'
    BY <1>f, <2>1 DEF HandleComes
  <2>4. MailFits'
    BY <1>d, <2>1, <2>2
  <2>5. CASE a \notin InTable
    <3>1. mLocAdapters' = mLocAdapters /\ removal' = removal /\ round' = round
      BY <1>2, <2>5 DEF RemoveAdapter
    <3>2. GetEvtMask' = GetEvtMask
      BY <1>g, <2>1, <3>1
    <3>3. WantsCovered'
      BY <1>c, <1>f, <2>1, <3>1, <3>2 DEF WantsCovered
    <3> QED
      BY <1>r, <2>1, <2>3, <2>4, <3>1, <3>3 DEF EventsFit
  <2>6. CASE a \in InTable
    <3>1. /\ removal'.at = "shifting"
          /\ round' = [round EXCEPT !.disturbed = TRUE]
      BY <1>2, <2>6 DEF RemoveAdapter
    <3>2. WantsCovered'
      BY <3>1 DEF WantsCovered, AtRest
    <3>3. round'.kind = round.kind /\ round'.at = round.at
      BY <3>1 DEF ApiTypes
    <3> QED
      BY <2>1, <2>3, <2>4, <3>2, <3>3 DEF EventsFit
  <2> QED
    BY <2>5, <2>6
<1>3. CASE Shift
  <2>1. /\ wants' = wants /\ life' = life /\ messages' = messages /\ opened' = opened
        /\ modemUp' = modemUp /\ downs' = downs /\ joined' = joined
        /\ round' = [round EXCEPT !.disturbed = TRUE]
    BY <1>3, Zenon DEF Shift
  <2>2. removal'.at = "leaving"
    BY <1>3, ShiftIs DEF ApiTypes
  <2>3. WantsCovered'
    BY <2>2 DEF WantsCovered, AtRest
  <2>4. HandleComes'
    BY <1>f, <2>1 DEF HandleComes
  <2>5. MailFits'
    BY <1>d, <2>1
  <2>6. round'.kind = round.kind /\ round'.at = round.at
    BY <2>1 DEF ApiTypes
  <2> QED
    BY <2>1, <2>3, <2>4, <2>5, <2>6 DEF EventsFit
<1>4. CASE LeaveArray
  <2>1. /\ removal.at = "leaving" /\ removal' = AtRest /\ mLocAdapters' = mLocAdapters
        /\ wants' = wants /\ life' = life /\ round' = round
        /\ modemUp' = modemUp /\ downs' = downs /\ joined' = joined
    BY <1>4 DEF LeaveArray
  <2>2. GetEvtMask' = GetEvtMask /\ GetEvtMask \in SUBSET EventBits
    BY <1>e, <1>g, <2>1 DEF EndFits
  <2>3. CASE removal.last = 0
    <3>1. opened' = Closed /\ messages' = messages
      BY <1>4, <2>3 DEF LeaveArray
    <3>2. joined = {}
      <4> SUFFICES ASSUME NEW b \in joined PROVE FALSE
        OBVIOUS
      <4>1. PICK s \in Slots : mLocAdapters[s] = b
        BY DEF ArrayFits
      <4>2. mLocAdapters[s] # Nobody
        BY <1>0, <4>1
      <4>3. s < 0
        BY <2>1, <2>3, <4>2 DEF ArrayFits
      <4> QED
        BY <4>3 DEF Slots
    <3>3. GetEvtMask' = {}
      BY <1>e, <2>1, <3>2 DEF EndFits, TableFits
    <3>4. WantsCovered' /\ HandleComes'
      BY <2>1, <3>2, <3>3 DEF WantsCovered, HandleComes
    <3>5. MailFits'
      BY <1>f, <2>1, <3>1, <3>2 DEF MailFits
    <3> QED
      BY <1>r, <2>1, <3>4, <3>5 DEF EventsFit
  <2>4. CASE removal.last # 0
    <3>1. messages' = Append(messages, Msg("open", GetEvtMask, Nobody)) /\ opened' = opened
      BY <1>4, <2>4 DEF LeaveArray, SendMsg, OpenMsg
    <3>2. /\ \A e \in GetEvtMask : Covered(e)'
          /\ \E i \in DOMAIN messages' : messages'[i].kind \in Opening
          /\ \E m \in ApiMessages :
               messages' = Append(messages, m) /\ m.downs <= downs /\ m.kind # "up"
      BY <1>o, <2>2, <3>1
    <3>3. WantsCovered' /\ HandleComes'
      BY <2>2, <3>2 DEF WantsCovered, HandleComes
    <3>4. MailFits'
      BY <1>d, <2>1, <3>1, <3>2
    <3> QED
      BY <1>r, <2>1, <3>3, <3>4 DEF EventsFit
  <2> QED
    BY <2>3, <2>4
<1>5. ASSUME NEW a \in Adapters, NEW E \in SUBSET EventBits, NEW enabled \in BOOLEAN,
             UpdateEvtMask(a, E, enabled)
      PROVE  EventsFit'
  <2>1. /\ mLocAdapters' = mLocAdapters /\ removal' = removal /\ life' = life /\ round' = round
        /\ opened' = opened /\ modemUp' = modemUp /\ downs' = downs /\ joined' = joined
    BY <1>5 DEF UpdateEvtMask
  <2>2. InTable' = InTable
    BY <2>1 DEF InTable, End
  <2>3. messages' = Append(messages, Msg("open", GetEvtMask', Nobody))
    <3>1. (UNION {wants'[b] : b \in InTable}) \ Excluded = GetEvtMask'
      BY <2>2 DEF GetEvtMask
    <3>2. messages' = Append(messages, Msg("open", (UNION {wants'[b] : b \in InTable}) \ Excluded, Nobody))
      BY <1>5, Zenon DEF UpdateEvtMask, SendMsg, OpenMsg
    <3> QED
      BY <3>1, <3>2, Zenon
  <2>4. GetEvtMask' \in SUBSET EventBits
    BY <1>e DEF EndFits
  <2>5. /\ \A e \in GetEvtMask' : Covered(e)'
        /\ \E i \in DOMAIN messages' : messages'[i].kind \in Opening
        /\ \E m \in ApiMessages :
             messages' = Append(messages, m) /\ m.downs <= downs /\ m.kind # "up"
    BY <1>o, <2>3, <2>4
  <2>6. WantsCovered' /\ HandleComes'
    BY <2>5 DEF WantsCovered, HandleComes
  <2>7. MailFits'
    BY <1>d, <2>1, <2>5
  <2> QED
    BY <1>r, <2>1, <2>6, <2>7 DEF EventsFit
<1>6. CASE ProcMessage
  <2> DEFINE request == messages[1]  Q == Tail(messages)
  <2>1. /\ messages # <<>> /\ messages' = Q /\ Head(messages) = request /\ request \in ApiMessages
        /\ mLocAdapters' = mLocAdapters /\ wants' = wants /\ life' = life /\ removal' = removal
        /\ round' = round /\ modemUp' = modemUp /\ downs' = downs /\ joined' = joined
    BY <1>0, <1>6, Taken DEF ProcMessage
  <2>2. /\ DOMAIN messages = 1 .. Len(messages) /\ DOMAIN messages' = 1 .. Len(messages) - 1
        /\ Len(messages) \in Nat
        /\ \A i \in DOMAIN messages' : i + 1 \in DOMAIN messages /\ messages'[i] = messages[i + 1]
        /\ \A i \in DOMAIN messages : i = 1 \/ (i - 1 \in DOMAIN messages' /\ messages'[i - 1] = messages[i])
    <3> HIDE DEF ApiMessages
    <3> QED
      BY <1>0, <2>1, Taken, Zenon
  <2>3. request.kind \in {"open", "ssr", "up"}
    BY <2>1 DEF ApiMessages
  <2>4. /\ request.kind = "open" => opened' = Open(opened, request.events)
        /\ request.kind = "ssr" => opened' = Open(Closed, GetEvtMask)
        /\ request.kind = "up" => opened' = opened
    BY <1>6, <2>1, <2>3, Zenon DEF ProcMessage
  <2>5. modemUp /\ request.kind = "open" =>
          opened'.handle /\ opened.events \subseteq opened'.events /\ request.events \subseteq opened'.events
    BY <2>4 DEF Open, Opened
  <2>6. modemUp /\ request.kind = "ssr" => opened'.handle /\ GetEvtMask \subseteq opened'.events
    BY <2>4 DEF Open, Opened
  <2>7. GetEvtMask' = GetEvtMask
    BY <1>g, <2>1
  <2> HIDE DEF request, Q
  <2>8. WantsCovered'
    <3> SUFFICES ASSUME modemUp, removal = AtRest, NEW e \in GetEvtMask PROVE Covered(e)'
      BY <2>1, <2>7 DEF WantsCovered
    <3>1. Covered(e)
      BY <1>f DEF WantsCovered
    <3>2. CASE request.kind = "ssr"
      BY <2>6, <3>2 DEF Covered
    <3>3. CASE e \in opened.events /\ request.kind # "ssr"
      BY <2>3, <2>4, <2>5, <3>3 DEF Covered
    <3>4. ASSUME NEW i \in DOMAIN messages, request.kind # "ssr",
                 messages[i].kind = "ssr" \/ (messages[i].kind = "open" /\ e \in messages[i].events)
          PROVE  Covered(e)'
      <4>1. CASE i = 1
        BY <2>5, <3>4, <4>1 DEF Covered, request
      <4>2. CASE i # 1
        BY <2>2, <3>4, <4>2 DEF Covered
      <4> QED
        BY <4>1, <4>2
    <3> QED
      BY <3>1, <3>2, <3>3, <3>4 DEF Covered
  <2>h. opened.handle /\ modemUp => opened'.handle
    BY <2>3, <2>4, <2>5, <2>6
  <2>i. modemUp /\ request.kind \in Opening => opened'.handle
    BY <2>5, <2>6 DEF Opening
  <2>9. HandleComes'
    <3> SUFFICES ASSUME modemUp, joined # {}
                 PROVE  opened'.handle \/ \E i \in DOMAIN messages' : messages'[i].kind \in Opening
      BY <2>1 DEF HandleComes
    <3>1. opened.handle \/ \E i \in DOMAIN messages : messages[i].kind \in Opening
      BY <1>f DEF HandleComes
    <3>2. ASSUME NEW i \in DOMAIN messages, messages[i].kind \in Opening
          PROVE  opened'.handle \/ \E j \in DOMAIN messages' : messages'[j].kind \in Opening
      <4>1. CASE i = 1
        BY <2>i, <3>2, <4>1 DEF request
      <4>2. CASE i # 1
        BY <2>2, <3>2, <4>2
      <4> QED
        BY <4>1, <4>2
    <3> QED
      BY <2>h, <3>1, <3>2
  <2>10. MailFits'
    <3> SUFFICES ASSUME NEW i \in DOMAIN messages'
                 PROVE  /\ messages'[i].downs <= downs
                        /\ messages'[i].kind = "up" =>
                             messages'[i].who \in Adapters /\ life[messages'[i].who] # "unborn"
                        /\ messages'[i].kind = "up" /\ messages'[i].downs = downs =>
                             /\ modemUp
                             /\ messages'[i].who \in joined =>
                                  \/ opened'.handle
                                  \/ \E j \in DOMAIN messages' : j < i /\ messages'[j].kind \in Opening
      BY <2>1 DEF MailFits
    <3>1. i + 1 \in DOMAIN messages /\ messages'[i] = messages[i + 1] /\ i \in Nat
      BY <2>2
    <3>2. /\ messages'[i].downs <= downs
          /\ messages'[i].kind = "up" => messages'[i].who \in Adapters /\ life[messages'[i].who] # "unborn"
          /\ messages'[i].kind = "up" /\ messages'[i].downs = downs =>
               /\ modemUp
               /\ messages'[i].who \in joined =>
                    opened.handle \/ \E j \in DOMAIN messages : j < i + 1 /\ messages[j].kind \in Opening
      BY <1>f, <3>1 DEF MailFits
    <3>3. ASSUME modemUp, NEW j \in DOMAIN messages, j < i + 1, messages[j].kind \in Opening
          PROVE  opened'.handle \/ \E k \in DOMAIN messages' : k < i /\ messages'[k].kind \in Opening
      <4>1. CASE j = 1
        BY <2>i, <3>3, <4>1 DEF request
      <4>2. CASE j # 1
        <5>1. j - 1 \in DOMAIN messages' /\ messages'[j - 1] = messages[j]
          BY <2>2, <4>2
        <5>2. j - 1 < i
          BY <2>2, <3>1, <3>3
        <5> QED
          BY <3>3, <5>1, <5>2
      <4> QED
        BY <4>1, <4>2
    <3> QED
      BY <2>h, <3>2, <3>3
  <2> QED
    BY <1>r, <2>1, <2>8, <2>9, <2>10 DEF EventsFit
<1>7. ASSUME NEW kind \in {"report", "request"}, BeginWalk(kind) PROVE EventsFit'
  <2>1. /\ mLocAdapters' = mLocAdapters /\ wants' = wants /\ life' = life /\ removal' = removal
        /\ messages' = messages /\ opened' = opened /\ modemUp' = modemUp /\ downs' = downs
        /\ joined' = joined /\ round'.kind = kind
    BY <1>7 DEF BeginWalk, Walks
  <2>2. GetEvtMask' = GetEvtMask /\ \A e : Covered(e) => Covered(e)'
    BY <1>c, <1>g, <2>1
  <2>3. WantsCovered' /\ HandleComes'
    BY <1>f, <2>1, <2>2 DEF WantsCovered, HandleComes
  <2>4. MailFits'
    BY <1>d, <2>1
  <2> QED
    BY <2>1, <2>3, <2>4 DEF EventsFit
<1>8. CASE EngineDown
  <2>1. /\ life' = life /\ messages' = messages /\ ~modemUp' /\ downs' = downs + 1
        /\ joined' = joined /\ round'.kind = "report"
    BY <1>8 DEF EngineDown, Walks
  <2>2. WantsCovered' /\ HandleComes'
    BY <2>1 DEF WantsCovered, HandleComes
  <2>3. \A i \in DOMAIN messages : messages[i].downs \in Nat /\ messages[i].downs <= downs
    <3>1. \A i \in DOMAIN messages : messages[i] \in ApiMessages
      BY <1>0
    <3> QED
      BY <1>f, <3>1 DEF ApiMessages, MailFits
  <2>4. \A i \in DOMAIN messages : messages[i].downs <= downs + 1 /\ messages[i].downs # downs + 1
    BY <1>0, <2>3
  <2>5. MailFits'
    BY <1>f, <2>1, <2>4 DEF MailFits
  <2> QED
    BY <2>1, <2>2, <2>5 DEF EventsFit
<1>9. CASE EngineUp
  <2> DEFINE m == Msg("ssr", {}, Nobody)  new == Len(messages) + 1
  <2>1. /\ life' = life /\ ~modemUp /\ modemUp' /\ downs' = downs /\ joined' = joined
        /\ messages' = Append(messages, m)
    BY <1>9 DEF EngineUp, SendMsg
  <2>2. m \in ApiMessages /\ m.kind = "ssr" /\ m.downs = downs
    BY <1>m
  <2> HIDE DEF m
  <2>3. /\ \A i \in DOMAIN messages : i \in DOMAIN messages' /\ messages'[i] = messages[i]
        /\ new \in DOMAIN messages' /\ messages'[new] = m
        /\ \A i \in DOMAIN messages' : i \in DOMAIN messages \/ i = new
    BY <1>p, <2>1, <2>2
  <2> HIDE DEF new
  <2>4. WantsCovered' /\ HandleComes'
    BY <2>2, <2>3 DEF WantsCovered, HandleComes, Covered, Opening
  <2>5. MailFits'
    <3> SUFFICES ASSUME NEW i \in DOMAIN messages'
                 PROVE  /\ messages'[i].downs <= downs
                        /\ messages'[i].kind = "up" =>
                             messages'[i].who \in Adapters /\ life[messages'[i].who] # "unborn"
                        /\ ~(messages'[i].kind = "up" /\ messages'[i].downs = downs)
      BY <2>1 DEF MailFits
    <3>1. CASE i = new
      BY <1>0, <2>2, <2>3, <3>1
    <3>2. CASE i \in DOMAIN messages
      BY <1>f, <2>1, <2>3, <3>2 DEF MailFits
    <3> QED
      BY <2>3, <3>1, <3>2
  <2> QED
    BY <2>1, <2>4, <2>5 DEF EventsFit
<1>10. CASE WalkOn
  <2> DEFINE a == mLocAdapters[round.at]  m == Msg("up", {}, a)  new == Len(messages) + 1
  <2>1. /\ mLocAdapters' = mLocAdapters /\ wants' = wants /\ life' = life /\ removal' = removal
        /\ opened' = opened /\ modemUp' = modemUp /\ downs' = downs
        /\ joined' = joined /\ round.at < MaxAdapters
    BY <1>10 DEF WalkOn
  <2>2. round'.kind = round.kind
    <3>1. CASE a = Nobody
      BY <1>10, <3>1 DEF WalkOn, ApiTypes
    <3>2. CASE a # Nobody
      BY <1>10, <3>2 DEF WalkOn, ApiTypes
    <3> QED
      BY <3>1, <3>2
  <2>3. round'.kind = "up" => modemUp'
    BY <2>1, <2>2 DEF EventsFit
  <2>4. \/ messages' = messages
        \/ round.kind = "up" /\ a # Nobody /\ messages' = Append(messages, m)
    BY <1>10 DEF WalkOn, SendMsg
  <2>5. GetEvtMask' = GetEvtMask
    BY <1>g, <2>1
  <2>6. CASE messages' = messages
    <3>1. WantsCovered' /\ HandleComes'
      BY <1>c, <1>f, <2>1, <2>5, <2>6 DEF WantsCovered, HandleComes
    <3>2. MailFits'
      BY <1>d, <2>1, <2>6
    <3> QED
      BY <2>3, <3>1, <3>2 DEF EventsFit
  <2>7. CASE round.kind = "up" /\ a # Nobody /\ messages' = Append(messages, m)
    <3>1. modemUp
      BY <2>1, <2>7 DEF EventsFit
    <3>2. round.at \in Slots
      BY <1>0, <2>1 DEF ApiTypes, ApiTypeOK, Slots
    <3>3. a \in joined /\ a \in Adapters /\ life[a] # "unborn"
      BY <1>0, <2>7, <3>2 DEF ArrayFits
    <3>4. m \in ApiMessages /\ m.kind = "up" /\ m.downs = downs /\ m.who = a
      BY <1>m, <3>3
    <3> HIDE DEF m, a
    <3>5. /\ DOMAIN messages = 1 .. Len(messages) /\ Len(messages) \in Nat
          /\ \A i \in DOMAIN messages : i \in DOMAIN messages' /\ messages'[i] = messages[i]
          /\ new \in DOMAIN messages' /\ messages'[new] = m
          /\ \A i \in DOMAIN messages' : i \in DOMAIN messages \/ i = new
      BY <1>p, <2>7, <3>4
    <3>6. \A i \in DOMAIN messages : i < new
      BY <3>5
    <3> HIDE DEF new
    <3>7. /\ \A e : Covered(e) => Covered(e)'
          /\ (\E i \in DOMAIN messages : messages[i].kind \in Opening)
               => \E i \in DOMAIN messages' : messages'[i].kind \in Opening
      BY <1>c, <2>1, <2>7, <3>4
    <3>8. WantsCovered' /\ HandleComes'
      BY <1>f, <2>1, <2>5, <3>7 DEF WantsCovered, HandleComes
    <3>9. opened.handle \/ \E j \in DOMAIN messages' : j < new /\ messages'[j].kind \in Opening
      BY <1>f, <3>1, <3>3, <3>5, <3>6 DEF HandleComes
    <3>10. MailFits'
      <4> SUFFICES ASSUME NEW i \in DOMAIN messages'
                   PROVE  /\ messages'[i].downs <= downs
                          /\ messages'[i].kind = "up" =>
                               messages'[i].who \in Adapters /\ life[messages'[i].who] # "unborn"
                          /\ messages'[i].kind = "up" /\ messages'[i].downs = downs =>
                               \/ messages'[i].who \notin joined
                               \/ opened.handle
                               \/ \E j \in DOMAIN messages' : j < i /\ messages'[j].kind \in Opening
        BY <2>1, <3>1 DEF MailFits
      <4>1. CASE i = new
        BY <1>0, <3>3, <3>4, <3>5, <3>9, <4>1
      <4>2. CASE i \in DOMAIN messages
        <5>1. messages'[i] = messages[i]
          BY <3>5, <4>2
        <5>2. /\ messages[i].downs <= downs
              /\ messages[i].kind = "up" => messages[i].who \in Adapters /\ life[messages[i].who] # "unborn"
              /\ messages[i].kind = "up" /\ messages[i].downs = downs =>
                   /\ modemUp
                   /\ messages[i].who \in joined =>
                        opened.handle \/ \E j \in DOMAIN messages : j < i /\ messages[j].kind \in Opening
          BY <1>f, <4>2 DEF MailFits
        <5>3. (\E j \in DOMAIN messages : j < i /\ messages[j].kind \in Opening)
                => \E j \in DOMAIN messages' : j < i /\ messages'[j].kind \in Opening
          BY <3>5
        <5> HIDE DEF Opening
        <5> QED
          BY <5>1, <5>2, <5>3
      <4> QED
        BY <3>5, <4>1, <4>2
    <3> QED
      BY <2>3, <3>8, <3>10 DEF EventsFit
  <2> QED
    BY <2>4, <2>6, <2>7
<1>11. CASE UNCHANGED apiVars
  <2>1. /\ mLocAdapters' = mLocAdapters /\ wants' = wants /\ life' = life /\ removal' = removal
        /\ messages' = messages /\ opened' = opened /\ modemUp' = modemUp /\ downs' = downs
        /\ joined' = joined /\ round' = round
    BY <1>11 DEF apiVars
  <2>2. GetEvtMask' = GetEvtMask /\ \A e : Covered(e) => Covered(e)'
    BY <1>c, <1>g, <2>1
  <2>3. WantsCovered' /\ HandleComes'
    BY <1>f, <2>1, <2>2 DEF WantsCovered, HandleComes
  <2>4. MailFits'
    BY <1>d, <2>1
  <2> QED
    BY <1>r, <2>1, <2>3, <2>4 DEF EventsFit
<1> QED
  <2>1. ASSUME NEW e \in EventBits PROVE {e} \in SUBSET EventBits
    OBVIOUS
  <2> QED
    BY <1>1, <1>2, <1>3, <1>4, <1>5, <1>6, <1>7, <1>8, <1>9, <1>10, <1>11, <2>1, Zenon DEF ApiNext

\* The invariant holds on.
LEMMA ApiNextKeeps == ApiIInv /\ [ApiNext]_apiVars => ApiIInv'
<1> SUFFICES ASSUME ApiIInv, [ApiNext]_apiVars PROVE ApiIInv'
  OBVIOUS
<1>1. ApiTypes'
  BY ApiTypesKept DEF ApiIInv
<1>2. ASSUME ~crossed' PROVE ~crossed
  <2>1. ASSUME crossed' = crossed PROVE ~crossed
    BY <1>2, <2>1
  <2>2. ASSUME NEW a, NEW E, AddAdapter(a, E) PROVE ~crossed
    BY <1>2, <2>2 DEF AddAdapter
  <2>3. ASSUME NEW a, RemoveAdapter(a) PROVE ~crossed
    BY <2>1, <2>3 DEF RemoveAdapter
  <2>4. ASSUME NEW a, NEW E, NEW enabled, UpdateEvtMask(a, E, enabled) PROVE ~crossed
    BY <2>1, <2>4 DEF UpdateEvtMask
  <2>5. ASSUME NEW kind, BeginWalk(kind) PROVE ~crossed
    BY <2>1, <2>5 DEF BeginWalk
  <2>6. ASSUME Shift \/ LeaveArray \/ ProcMessage \/ EngineDown \/ EngineUp \/ WalkOn
               \/ UNCHANGED apiVars
        PROVE  ~crossed
    BY <2>1, <2>6 DEF Shift, LeaveArray, ProcMessage, EngineDown, EngineUp, WalkOn, apiVars
  <2> QED
    BY <2>2, <2>3, <2>4, <2>5, <2>6, Zenon DEF ApiNext
<1>3. ASSUME ~crossed' PROVE ArrayFits' /\ WalkFits' /\ EventsFit'
  <2>1. ApiTypes /\ ArrayFits /\ WalkFits /\ EventsFit
    BY <1>2, <1>3 DEF ApiIInv
  <2>2. ArrayFits'
    BY <1>3, <2>1, ArrayKept
  <2>3. WalkFits'
    BY <2>1, WalkKept
  <2>4. EventsFit'
    BY <1>1, <1>3, <2>1, <2>2, EventsKept
  <2> QED
    BY <2>2, <2>3, <2>4
<1> QED
  BY <1>1, <1>3 DEF ApiIInv

\* A report reaches all adapters that are listed, and what they want is
\* registered when the messages are done, unless one comes while one goes:
\* LocApiBase with any number of adapters, of events and of crashes.
THEOREM ApiSound == ApiInit /\ [][ApiNext]_apiVars => []ApiInv
<1>1. ApiIInv => ApiInv
  <2> SUFFICES ASSUME ApiIInv PROVE ApiInv
    OBVIOUS
  <2>0. /\ ApiTypes /\ ApiTypeOK /\ EndFits
        /\ ~crossed => ArrayFits /\ TableFits /\ WalkFits /\ EventsFit
    BY EndIs, TableIs DEF ApiIInv, ApiTypes
  <2>1. ReportsReachAll
    <3> SUFFICES ASSUME round.at = MaxAdapters, ~round.disturbed, ~crossed PROVE ReportsReachAll
      BY DEF ReportsReachAll
    <3> DEFINE H == round.heard  heard == {round.heard[i] : i \in 1 .. Len(round.heard)}
    <3>1. /\ \A i, j \in 1 .. Len(H) : H[i] = H[j] => i = j
          /\ round.kind # "request" => \A a \in round.due : \E i \in 1 .. Len(H) : H[i] = a
          /\ round.kind = "request" =>
               /\ \A i \in 1 .. Len(H) - 1 : H[i] \notin Handling
               /\ round.due \cap Handling # {} => \E i \in 1 .. Len(H) : H[i] \in Handling
      BY <2>0 DEF WalkFits
    <3>2. round.kind # "request" => round.due \subseteq heard
      BY <3>1
    <3>3. (\E i \in 1 .. Len(H) : H[i] \in Handling) => heard \cap Handling # {}
      BY <3>1
    <3> QED
      BY <3>1, <3>2, <3>3 DEF ReportsReachAll
  <2>2. EventsAreOpen
    <3>1. ASSUME messages = <<>>, modemUp, removal = AtRest, ~crossed
          PROVE  GetEvtMask \subseteq opened.events
      <4>1. \A e \in GetEvtMask : Covered(e)
        BY <2>0, <3>1 DEF EventsFit, WantsCovered
      <4>2. DOMAIN messages = {}
        BY <3>1
      <4> QED
        BY <4>1, <4>2 DEF Covered
    <3>2. ASSUME messages # <<>>, Head(messages).kind = "up", Head(messages).downs = downs,
                 ~crossed, Head(messages).who \in InTable
          PROVE  opened.handle
      <4>1. messages \in Seq(ApiMessages)
        BY <2>0 DEF ApiTypes
      <4>2. Head(messages) = messages[1] /\ 1 \in DOMAIN messages /\ \A j \in DOMAIN messages : ~(j < 1)
        BY <3>2, <4>1
      <4>3. messages[1].who \in joined
        BY <2>0, <3>2, <4>2 DEF TableFits
      <4> QED
        BY <2>0, <3>2, <4>2, <4>3 DEF EventsFit, MailFits
    <3> QED
      BY <3>1, <3>2 DEF EventsAreOpen
  <2> QED
    BY <2>0, <2>1, <2>2 DEF ApiInv
<1> QED
  BY <1>1, InitApi, ApiNextKeeps, PTL

-----------------------------------------------------------------------------
(* Timers, for any number of clients, delegates and delays. *)

\* DeletedOnce, without its sets.
OnceFits ==
  \A d \in Delegates :
    /\ d \in alive <=> \/ \E c \in Clients : mTimer[c] = d
                       \/ \E i \in DOMAIN queue : queue[i] = <<"remove", d>>
    /\ \A c \in Clients, i \in DOMAIN queue : ~(mTimer[c] = d /\ queue[i] = <<"remove", d>>)
    /\ \A i, j \in DOMAIN queue : queue[i] = <<"remove", d>> /\ queue[j] = <<"remove", d>> => i = j
    /\ \A c \in Clients : mTimer[c] = d => mClient[d] = c

\* A delegate is put into the container before it is removed, and is there for
\* both.
QueueFits ==
  \A d \in Delegates, i \in DOMAIN queue :
    queue[i] = <<"push", d>> =>
      d \in alive /\ \A j \in DOMAIN queue : queue[j] = <<"remove", d>> => i < j

\* The container's top is the soonest, and while no expiry is under way the
\* kernel is armed for it.
TopFits == top # None => \A e \in heap : at[top] <= at[e]
KernelFits == top # None => ExpiryUnderWay \/ (polled /\ armed = at[top])

\* The client of an expiry is known.
ExpiryFits == msg.pc \in {"stopping", "calling", "destroying"} => msg.client \in Clients

TimerIInv == TypeOK /\ OnceFits /\ QueueFits /\ TopFits /\ KernelFits /\ ExpiryFits

-----------------------------------------------------------------------------
(* Timers: queues. *)

\* What a post puts into a queue.
LEMMA WorkPosted ==
  ASSUME NEW S, NEW q \in Seq(S), NEW m \in S
  PROVE  /\ Append(q, m) \in Seq(S)
         /\ \A i \in DOMAIN q : i \in DOMAIN Append(q, m) /\ Append(q, m)[i] = q[i] /\ i < Len(q) + 1
         /\ Len(q) + 1 \in DOMAIN Append(q, m) /\ Append(q, m)[Len(q) + 1] = m
         /\ \A i \in DOMAIN Append(q, m) : i \in DOMAIN q \/ i = Len(q) + 1
         /\ Len(q) + 1 \notin DOMAIN q
  OBVIOUS

\* What is left when the first message is taken.
LEMMA WorkTaken ==
  ASSUME NEW S, NEW q \in Seq(S), q # <<>>
  PROVE  /\ Tail(q) \in Seq(S) /\ Head(q) = q[1] /\ Head(q) \in S /\ 1 \in DOMAIN q
         /\ DOMAIN q \subseteq Nat /\ DOMAIN Tail(q) \subseteq Nat
         /\ \A i \in DOMAIN Tail(q) : i + 1 \in DOMAIN q /\ Tail(q)[i] = q[i + 1]
         /\ \A i \in DOMAIN q : i = 1 \/ (i - 1 \in DOMAIN Tail(q) /\ Tail(q)[i - 1] = q[i])
         /\ \A i \in DOMAIN q : 1 <= i
  OBVIOUS

\* Messages are told apart.
LEMMA MessagesDiffer ==
  /\ \A d, e : <<"push", d>> # <<"remove", e>>
  /\ \A d, e : <<"push", d>> = <<"push", e>> => d = e
  /\ \A d, e : <<"remove", d>> = <<"remove", e>> => d = e
  /\ \A d : <<"push", d>> # <<"expire", None>> /\ <<"remove", d>> # <<"expire", None>>
  /\ \A d \in Delegates : <<"push", d>> \in Messages /\ <<"remove", d>> \in Messages
  /\ <<"expire", None>> \in Messages
  BY DEF Messages

\* A message that is taken leaves the others in their order.
LEMMA TakenFits ==
  ASSUME TypeOK, QueueFits, NEW m, queue # <<>>, Head(queue) = m, queue' = Tail(queue)
  PROVE  /\ queue' \in Seq(Messages) /\ 1 \in DOMAIN queue /\ queue[1] = m
         /\ \A d \in Delegates, i \in DOMAIN queue' :
              queue'[i] = <<"push", d>> =>
                d \in alive /\ \A j \in DOMAIN queue' : queue'[j] = <<"remove", d>> => i < j
         /\ \A i \in DOMAIN queue' : \E j \in DOMAIN queue : queue[j] = queue'[i] /\ j # 1
         /\ \A j \in DOMAIN queue : queue[j] # m => \E i \in DOMAIN queue' : queue'[i] = queue[j]
         /\ \A j \in DOMAIN queue : j # 1 => \E i \in DOMAIN queue' : queue'[i] = queue[j]
         /\ \A d \in Delegates, i, j \in DOMAIN queue' :
              /\ queue'[i] = <<"remove", d>> /\ queue'[j] = <<"remove", d>>
              /\ \A k, l \in DOMAIN queue :
                   queue[k] = <<"remove", d>> /\ queue[l] = <<"remove", d>> => k = l
              => i = j
<1>1. /\ queue' \in Seq(Messages) /\ queue[1] = m /\ 1 \in DOMAIN queue
      /\ DOMAIN queue \subseteq Nat /\ DOMAIN queue' \subseteq Nat
      /\ \A i \in DOMAIN queue' : i + 1 \in DOMAIN queue /\ queue'[i] = queue[i + 1]
      /\ \A i \in DOMAIN queue : i = 1 \/ (i - 1 \in DOMAIN queue' /\ queue'[i - 1] = queue[i])
      /\ \A i \in DOMAIN queue : 1 <= i
  <2>1. queue \in Seq(Messages)
    BY DEF TypeOK
  <2> HIDE DEF Messages
  <2>2. /\ Tail(queue) \in Seq(Messages) /\ Head(queue) = queue[1] /\ 1 \in DOMAIN queue
        /\ DOMAIN queue \subseteq Nat /\ DOMAIN Tail(queue) \subseteq Nat
        /\ \A i \in DOMAIN Tail(queue) : i + 1 \in DOMAIN queue /\ Tail(queue)[i] = queue[i + 1]
        /\ \A i \in DOMAIN queue :
             i = 1 \/ (i - 1 \in DOMAIN Tail(queue) /\ Tail(queue)[i - 1] = queue[i])
        /\ \A i \in DOMAIN queue : 1 <= i
    BY <2>1, WorkTaken
  <2> QED
    BY <2>2, Zenon
<1>2. ASSUME NEW d \in Delegates, NEW i \in DOMAIN queue', queue'[i] = <<"push", d>>
      PROVE  d \in alive /\ \A j \in DOMAIN queue' : queue'[j] = <<"remove", d>> => i < j
  <2>1. i + 1 \in DOMAIN queue /\ queue[i + 1] = <<"push", d>>
    BY <1>1, <1>2
  <2>2. d \in alive /\ \A j \in DOMAIN queue : queue[j] = <<"remove", d>> => i + 1 < j
    BY <2>1 DEF QueueFits
  <2>3. ASSUME NEW j \in DOMAIN queue', queue'[j] = <<"remove", d>> PROVE i < j
    <3>1. i + 1 < j + 1 /\ i \in Nat /\ j \in Nat
      BY <1>1, <2>2, <2>3
    <3> QED
      BY <3>1
  <2> QED
    BY <2>2, <2>3
<1>3. ASSUME NEW i \in DOMAIN queue' PROVE \E j \in DOMAIN queue : queue[j] = queue'[i] /\ j # 1
  <2>1. i + 1 \in DOMAIN queue /\ queue'[i] = queue[i + 1] /\ i \in DOMAIN queue'
    BY <1>1, <1>3
  <2>2. i + 1 # 1
    <3>1. i \in Nat
      BY <1>1, <1>3
    <3>2. i # 0
      <4>1. DOMAIN queue' = 1 .. Len(queue')
        BY <1>1
      <4> QED
        BY <1>3, <4>1
    <3> QED
      BY <3>1, <3>2
  <2> QED
    BY <2>1, <2>2
<1>4. ASSUME NEW j \in DOMAIN queue, j # 1 PROVE \E i \in DOMAIN queue' : queue'[i] = queue[j]
  BY <1>1, <1>4
<1>5. ASSUME NEW j \in DOMAIN queue, queue[j] # m PROVE \E i \in DOMAIN queue' : queue'[i] = queue[j]
  BY <1>1, <1>4, <1>5
<1>6. ASSUME NEW d \in Delegates, NEW i \in DOMAIN queue', NEW j \in DOMAIN queue',
             queue'[i] = <<"remove", d>>, queue'[j] = <<"remove", d>>,
             \A k, l \in DOMAIN queue : queue[k] = <<"remove", d>> /\ queue[l] = <<"remove", d>> => k = l
      PROVE  i = j
  <2>1. i + 1 = j + 1 /\ i \in Nat /\ j \in Nat
    BY <1>1, <1>6
  <2> QED
    BY <2>1
<1> QED
  BY <1>1, <1>2, <1>3, <1>4, <1>5, <1>6

\* A post leaves the messages before it in their places.
LEMMA PostFits ==
  ASSUME TypeOK, NEW m \in Messages, queue' = Append(queue, m)
  PROVE  /\ queue' \in Seq(Messages)
         /\ \A i \in DOMAIN queue : i \in DOMAIN queue' /\ queue'[i] = queue[i] /\ i < Len(queue) + 1
         /\ Len(queue) + 1 \in DOMAIN queue' /\ queue'[Len(queue) + 1] = m
         /\ \A i \in DOMAIN queue' : i \in DOMAIN queue \/ i = Len(queue) + 1
         /\ Len(queue) + 1 \notin DOMAIN queue
<1>1. queue \in Seq(Messages)
  BY DEF TypeOK
<1> HIDE DEF Messages
<1>2. /\ Append(queue, m) \in Seq(Messages)
      /\ \A i \in DOMAIN queue :
           i \in DOMAIN Append(queue, m) /\ Append(queue, m)[i] = queue[i] /\ i < Len(queue) + 1
      /\ Len(queue) + 1 \in DOMAIN Append(queue, m) /\ Append(queue, m)[Len(queue) + 1] = m
      /\ \A i \in DOMAIN Append(queue, m) : i \in DOMAIN queue \/ i = Len(queue) + 1
      /\ Len(queue) + 1 \notin DOMAIN queue
  BY <1>1, WorkPosted
<1> QED
  BY <1>2, Zenon

\* An expiry that is under way stays so, whatever else is posted.
LEMMA UnderWayStays ==
  ASSUME TypeOK, ExpiryUnderWay, poll' = poll, msg.pc # "idle" => msg'.pc # "idle",
         queue' = queue \/ \E m \in Messages : queue' = Append(queue, m)
  PROVE  ExpiryUnderWay'
<1>1. \A i \in DOMAIN queue : i \in DOMAIN queue' /\ queue'[i] = queue[i]
  BY PostFits
<1>2. InQueue("expire", None) # {} => InQueue("expire", None)' # {}
  BY <1>1 DEF InQueue
<1> QED
  BY <1>2 DEF ExpiryUnderWay

-----------------------------------------------------------------------------
(* Timers: what keeps the invariant. *)

\* At the start nothing runs.
LEMMA InitTimer == Init => TimerIInv
<1> SUFFICES ASSUME Init PROVE TimerIInv
  OBVIOUS
<1>0. MaxClock \in Nat /\ None \notin Clients \cup Delegates /\ 0 \in 0 .. MaxClock
  BY TimerAssumption
<1>1. TypeOK
  <2>1. <<>> \in Seq(Messages)
    OBVIOUS
  <2>2. Idle \in [pc : {"idle", "next", "stopping", "calling", "destroying"},
                  now : 0 .. MaxClock, client : Clients \cup {None}, timer : Delegates \cup {None}]
    BY <1>0 DEF Idle
  <2> QED
    BY <1>0, <2>1, <2>2 DEF Init, TypeOK
<1>2. DOMAIN queue = {}
  BY DEF Init
<1>3. OnceFits
  BY <1>0, <1>2 DEF Init, OnceFits
<1>4. QueueFits
  BY <1>2 DEF QueueFits
<1>5. TopFits /\ KernelFits
  BY DEF Init, TopFits, KernelFits
<1>6. ExpiryFits
  BY DEF Init, ExpiryFits, Idle
<1> QED
  BY <1>1, <1>3, <1>4, <1>5, <1>6 DEF TimerIInv

\* A start makes a delegate that nothing knows of.
LEMMA StartKeeps ==
  ASSUME TimerIInv, NEW c \in Clients, NEW delay \in Delays, StartTimer(c, delay), wrapped' \subseteq Wrappers,
         UNCHANGED <<clock, heap, top, kernel, poll, msg, crashed>>
  PROVE  TimerIInv'
<1> DEFINE d == CHOOSE e \in Delegates : e \notin alive  new == Len(queue) + 1
<1>0. /\ TypeOK /\ MaxClock \in Nat /\ None \notin Clients \cup Delegates
      /\ clock' = clock /\ heap' = heap /\ top' = top /\ poll' = poll /\ msg' = msg
      /\ armed' = armed /\ polled' = polled /\ crashed' = crashed
  BY TimerAssumption DEF TimerIInv, kernel
<1>1. /\ mTimer[c] = None /\ mTimer' = [mTimer EXCEPT ![c] = d] /\ alive' = alive \cup {d}
      /\ mClient' = [mClient EXCEPT ![d] = c] /\ at' = [at EXCEPT ![d] = clock + delay]
      /\ queue' = Append(queue, <<"push", d>>) /\ clock + delay <= MaxClock
  BY Zenon DEF StartTimer
<1>2. d \in Delegates /\ d \notin alive
  <2>1. \E e \in Delegates : e \notin alive
    BY <1>0 DEF StartTimer, TypeOK
  <2> QED
    BY <2>1, Zenon
<1> HIDE DEF d
<1>3. <<"push", d>> \in Messages
  BY <1>2, MessagesDiffer
<1>4. /\ queue' \in Seq(Messages)
      /\ \A i \in DOMAIN queue : i \in DOMAIN queue' /\ queue'[i] = queue[i] /\ i < new
      /\ new \in DOMAIN queue' /\ queue'[new] = <<"push", d>>
      /\ \A i \in DOMAIN queue' : i \in DOMAIN queue \/ i = new
      /\ new \notin DOMAIN queue
  BY <1>0, <1>1, <1>3, PostFits
<1> HIDE DEF new
<1>5. /\ mTimer' \in [Clients -> Delegates \cup {None}] /\ mClient' \in [Delegates -> Clients \cup {None}]
      /\ mTimer'[c] = d /\ \A b \in Clients : b # c => mTimer'[b] = mTimer[b]
      /\ mClient'[d] = c /\ \A e \in Delegates : e # d => mClient'[e] = mClient[e]
      /\ mTimer \in [Clients -> Delegates \cup {None}]
  BY <1>0, <1>1, <1>2 DEF TypeOK
<1>6. at' \in [Delegates -> 0 .. MaxClock] /\ \A e \in Delegates : e # d => at'[e] = at[e]
  BY <1>0, <1>1, <1>2, TimerAssumption DEF TypeOK
<1>7. TypeOK'
  BY <1>0, <1>1, <1>2, <1>4, <1>5, <1>6 DEF TypeOK
<1>8. /\ \A b \in Clients : mTimer[b] # d
      /\ \A i \in DOMAIN queue : queue[i] # <<"remove", d>> /\ queue[i] # <<"push", d>>
  BY <1>2 DEF TimerIInv, OnceFits, QueueFits
<1>9. \A e \in Delegates, i \in DOMAIN queue' :
        queue'[i] = <<"remove", e>> <=> i \in DOMAIN queue /\ queue[i] = <<"remove", e>>
  BY <1>4, MessagesDiffer
<1>10. OnceFits'
  <2> SUFFICES ASSUME NEW e \in Delegates
               PROVE  /\ e \in alive' <=> \/ \E b \in Clients : mTimer'[b] = e
                                          \/ \E i \in DOMAIN queue' : queue'[i] = <<"remove", e>>
                      /\ \A b \in Clients, i \in DOMAIN queue' : ~(mTimer'[b] = e /\ queue'[i] = <<"remove", e>>)
                      /\ \A i, j \in DOMAIN queue' :
                           queue'[i] = <<"remove", e>> /\ queue'[j] = <<"remove", e>> => i = j
                      /\ \A b \in Clients : mTimer'[b] = e => mClient'[e] = b
    BY DEF OnceFits
  <2>1. CASE e = d
    <3>1. \A i \in DOMAIN queue' : queue'[i] # <<"remove", e>>
      BY <1>8, <1>9, <2>1
    <3>2. \A b \in Clients : mTimer'[b] = e <=> b = c
      BY <1>5, <1>8, <2>1
    <3> QED
      BY <1>1, <1>5, <2>1, <3>1, <3>2
  <2>2. CASE e # d
    <3>1. \A b \in Clients : mTimer'[b] = e <=> mTimer[b] = e
      BY <1>0, <1>1, <1>5, <2>2
    <3>2. /\ e \in alive' <=> e \in alive
          /\ mClient'[e] = mClient[e]
      BY <1>1, <1>5, <2>2
    <3>3. (\E i \in DOMAIN queue' : queue'[i] = <<"remove", e>>)
            <=> \E i \in DOMAIN queue : queue[i] = <<"remove", e>>
      BY <1>4, <1>9
    <3>4. /\ e \in alive <=> \/ \E b \in Clients : mTimer[b] = e
                             \/ \E i \in DOMAIN queue : queue[i] = <<"remove", e>>
          /\ \A b \in Clients, i \in DOMAIN queue : ~(mTimer[b] = e /\ queue[i] = <<"remove", e>>)
          /\ \A i, j \in DOMAIN queue : queue[i] = <<"remove", e>> /\ queue[j] = <<"remove", e>> => i = j
          /\ \A b \in Clients : mTimer[b] = e => mClient[e] = b
      BY DEF TimerIInv, OnceFits
    <3>5. e \in alive' <=> \/ \E b \in Clients : mTimer'[b] = e
                           \/ \E i \in DOMAIN queue' : queue'[i] = <<"remove", e>>
      BY <3>1, <3>2, <3>3, <3>4
    <3>6. \A b \in Clients, i \in DOMAIN queue' : ~(mTimer'[b] = e /\ queue'[i] = <<"remove", e>>)
      BY <1>9, <3>1, <3>4
    <3>7. \A i, j \in DOMAIN queue' :
            queue'[i] = <<"remove", e>> /\ queue'[j] = <<"remove", e>> => i = j
      BY <1>9, <3>4
    <3> QED
      BY <3>1, <3>2, <3>4, <3>5, <3>6, <3>7
  <2> QED
    BY <2>1, <2>2
<1>11. QueueFits'
  <2> SUFFICES ASSUME NEW e \in Delegates, NEW i \in DOMAIN queue', queue'[i] = <<"push", e>>
               PROVE  e \in alive' /\ \A j \in DOMAIN queue' : queue'[j] = <<"remove", e>> => i < j
    BY DEF QueueFits
  <2>1. CASE i = new
    <3>1. e = d
      BY <1>4, <2>1, MessagesDiffer
    <3> QED
      BY <1>1, <1>8, <1>9, <3>1
  <2>2. CASE i \in DOMAIN queue
    <3>1. queue[i] = <<"push", e>>
      BY <1>4, <2>2
    <3>2. e \in alive /\ \A j \in DOMAIN queue : queue[j] = <<"remove", e>> => i < j
      BY <2>2, <3>1 DEF TimerIInv, QueueFits
    <3> QED
      BY <1>1, <1>9, <3>2
  <2> QED
    BY <1>4, <2>1, <2>2
<1>12. \A e \in heap : e # d /\ e \in Delegates
  BY <1>0, <1>2 DEF TypeOK
<1>13. top # None => top \in heap
  BY <1>0 DEF TypeOK
<1>14. TopFits'
  BY <1>0, <1>6, <1>12, <1>13 DEF TopFits, TimerIInv
<1>15. KernelFits'
  <2>1. ExpiryUnderWay => ExpiryUnderWay'
    BY <1>0, <1>1, <1>3, UnderWayStays
  <2> QED
    BY <1>0, <1>6, <1>12, <1>13, <2>1 DEF KernelFits, TimerIInv
<1>16. ExpiryFits'
  BY <1>0 DEF ExpiryFits, TimerIInv
<1> QED
  BY <1>7, <1>10, <1>11, <1>14, <1>15, <1>16 DEF TimerIInv

\* A stop hands the delegate over to the message thread.
LEMMA StopKeeps ==
  ASSUME TimerIInv, NEW c \in Clients, mTimer[c] # None, StopTimer(c), wrapped' \subseteq Wrappers,
         UNCHANGED <<clock, alive, at, heap, top, kernel, poll, crashed>>,
         msg' = msg \/ (msg.pc = "stopping" /\ msg' = [msg EXCEPT !.pc = "calling"])
  PROVE  TimerIInv'
<1> DEFINE d == mTimer[c]  new == Len(queue) + 1
<1>0. /\ TypeOK /\ MaxClock \in Nat /\ None \notin Clients \cup Delegates
      /\ clock' = clock /\ heap' = heap /\ top' = top /\ poll' = poll /\ alive' = alive /\ at' = at
      /\ armed' = armed /\ polled' = polled /\ crashed' = crashed
  BY TimerAssumption DEF TimerIInv, kernel
<1>1. /\ mTimer' = [mTimer EXCEPT ![c] = None] /\ mClient' = [mClient EXCEPT ![d] = None]
      /\ queue' = Append(queue, <<"remove", d>>)
  BY DEF StopTimer
<1>2. d \in Delegates
  BY <1>0 DEF TypeOK
<1> HIDE DEF d
<1>3. <<"remove", d>> \in Messages
  BY <1>2, MessagesDiffer
<1>4. /\ queue' \in Seq(Messages)
      /\ \A i \in DOMAIN queue : i \in DOMAIN queue' /\ queue'[i] = queue[i] /\ i < new
      /\ new \in DOMAIN queue' /\ queue'[new] = <<"remove", d>>
      /\ \A i \in DOMAIN queue' : i \in DOMAIN queue \/ i = new
      /\ new \notin DOMAIN queue
  BY <1>0, <1>1, <1>3, PostFits
<1> HIDE DEF new
<1>5. /\ mTimer' \in [Clients -> Delegates \cup {None}] /\ mClient' \in [Delegates -> Clients \cup {None}]
      /\ mTimer'[c] = None /\ \A b \in Clients : b # c => mTimer'[b] = mTimer[b]
      /\ \A e \in Delegates : e # d => mClient'[e] = mClient[e]
      /\ mTimer \in [Clients -> Delegates \cup {None}] /\ mTimer[c] = d
  BY <1>0, <1>1, <1>2 DEF TypeOK, d
<1>6. /\ msg' \in [pc : {"idle", "next", "stopping", "calling", "destroying"},
                   now : 0 .. MaxClock, client : Clients \cup {None}, timer : Delegates \cup {None}]
      /\ msg.pc # "idle" => msg'.pc # "idle"
      /\ ExpiryFits'
  <2>1. msg \in [pc : {"idle", "next", "stopping", "calling", "destroying"},
                 now : 0 .. MaxClock, client : Clients \cup {None}, timer : Delegates \cup {None}]
    BY <1>0 DEF TypeOK
  <2>2. CASE msg' = msg
    BY <2>1, <2>2 DEF ExpiryFits, TimerIInv
  <2>3. CASE msg.pc = "stopping" /\ msg' = [msg EXCEPT !.pc = "calling"]
    BY <2>1, <2>3 DEF ExpiryFits, TimerIInv
  <2> QED
    BY <2>2, <2>3
<1>7. TypeOK'
  BY <1>0, <1>1, <1>2, <1>4, <1>5, <1>6 DEF TypeOK
<1>8. /\ d \in alive /\ \A b \in Clients : mTimer[b] = d => b = c
      /\ \A i \in DOMAIN queue : queue[i] # <<"remove", d>>
  BY <1>2, <1>5 DEF TimerIInv, OnceFits
<1>9. \A e \in Delegates, i \in DOMAIN queue' :
        queue'[i] = <<"remove", e>> <=> \/ i \in DOMAIN queue /\ queue[i] = <<"remove", e>>
                                        \/ i = new /\ e = d
  BY <1>4, MessagesDiffer
<1>10. OnceFits'
  <2> SUFFICES ASSUME NEW e \in Delegates
               PROVE  /\ e \in alive' <=> \/ \E b \in Clients : mTimer'[b] = e
                                          \/ \E i \in DOMAIN queue' : queue'[i] = <<"remove", e>>
                      /\ \A b \in Clients, i \in DOMAIN queue' : ~(mTimer'[b] = e /\ queue'[i] = <<"remove", e>>)
                      /\ \A i, j \in DOMAIN queue' :
                           queue'[i] = <<"remove", e>> /\ queue'[j] = <<"remove", e>> => i = j
                      /\ \A b \in Clients : mTimer'[b] = e => mClient'[e] = b
    BY DEF OnceFits
  <2>1. CASE e = d
    <3>1. \A i \in DOMAIN queue' : queue'[i] = <<"remove", e>> <=> i = new
      BY <1>2, <1>8, <1>9, <2>1
    <3>2. \A b \in Clients : mTimer'[b] # e
      BY <1>0, <1>2, <1>5, <1>8, <2>1
    <3> QED
      BY <1>0, <1>4, <1>8, <2>1, <3>1, <3>2
  <2>2. CASE e # d
    <3>1. \A b \in Clients : mTimer'[b] = e <=> mTimer[b] = e
      BY <1>0, <1>1, <1>5, <2>2
    <3>2. mClient'[e] = mClient[e]
      BY <1>1, <1>5, <2>2
    <3>9. \A i \in DOMAIN queue' :
            queue'[i] = <<"remove", e>> <=> i \in DOMAIN queue /\ queue[i] = <<"remove", e>>
      BY <1>9, <2>2
    <3>3. (\E i \in DOMAIN queue' : queue'[i] = <<"remove", e>>)
            <=> \E i \in DOMAIN queue : queue[i] = <<"remove", e>>
      BY <1>4, <3>9
    <3>4. /\ e \in alive <=> \/ \E b \in Clients : mTimer[b] = e
                             \/ \E i \in DOMAIN queue : queue[i] = <<"remove", e>>
          /\ \A b \in Clients, i \in DOMAIN queue : ~(mTimer[b] = e /\ queue[i] = <<"remove", e>>)
          /\ \A i, j \in DOMAIN queue : queue[i] = <<"remove", e>> /\ queue[j] = <<"remove", e>> => i = j
          /\ \A b \in Clients : mTimer[b] = e => mClient[e] = b
      BY DEF TimerIInv, OnceFits
    <3>5. e \in alive' <=> \/ \E b \in Clients : mTimer'[b] = e
                           \/ \E i \in DOMAIN queue' : queue'[i] = <<"remove", e>>
      BY <1>0, <3>1, <3>3, <3>4
    <3>6. \A b \in Clients, i \in DOMAIN queue' : ~(mTimer'[b] = e /\ queue'[i] = <<"remove", e>>)
      BY <3>1, <3>4, <3>9
    <3>7. \A i, j \in DOMAIN queue' :
            queue'[i] = <<"remove", e>> /\ queue'[j] = <<"remove", e>> => i = j
      BY <3>4, <3>9
    <3> QED
      BY <3>1, <3>2, <3>4, <3>5, <3>6, <3>7
  <2> QED
    BY <2>1, <2>2
<1>11. QueueFits'
  <2> SUFFICES ASSUME NEW e \in Delegates, NEW i \in DOMAIN queue', queue'[i] = <<"push", e>>
               PROVE  e \in alive' /\ \A j \in DOMAIN queue' : queue'[j] = <<"remove", e>> => i < j
    BY DEF QueueFits
  <2>1. i \in DOMAIN queue /\ queue[i] = <<"push", e>>
    BY <1>4, MessagesDiffer
  <2>2. e \in alive /\ \A j \in DOMAIN queue : queue[j] = <<"remove", e>> => i < j
    BY <2>1 DEF TimerIInv, QueueFits
  <2>3. i < new
    BY <1>4, <2>1
  <2> QED
    BY <1>0, <1>9, <2>2, <2>3
<1>14. TopFits'
  BY <1>0 DEF TopFits, TimerIInv
<1>15. KernelFits'
  <2>1. ExpiryUnderWay => ExpiryUnderWay'
    BY <1>0, <1>1, <1>3, <1>6, UnderWayStays
  <2> QED
    BY <1>0, <2>1 DEF KernelFits, TimerIInv
<1> QED
  BY <1>6, <1>7, <1>10, <1>11, <1>14, <1>15 DEF TimerIInv

\* The next top is the soonest of the others.
LEMMA PopFits ==
  ASSUME TypeOK, PopTop
  PROVE  /\ heap' = heap \ {top} /\ top' \in heap' \cup {None} /\ (top' = None) = (heap' = {})
         /\ top' # None => \A e \in heap' : at[top'] <= at[e]
<1> None \notin heap
  BY TimerAssumption DEF TypeOK
<1> QED
  BY DEF PopTop, Soonest

\* What keeps the queue's order and the owners of the delegates, when a message
\* is taken that is no removal.
LEMMA TakenKeeps ==
  ASSUME TimerIInv, NEW m \in Messages, queue # <<>>, Head(queue) = m, queue' = Tail(queue),
         \A d \in Delegates : m # <<"remove", d>>, UNCHANGED clients
  PROVE  queue' \in Seq(Messages) /\ OnceFits' /\ QueueFits'
<1>0. /\ TypeOK /\ QueueFits /\ alive' = alive /\ mTimer' = mTimer /\ mClient' = mClient
  BY DEF TimerIInv, clients
<1>1. /\ queue' \in Seq(Messages)
      /\ \A d \in Delegates, i \in DOMAIN queue' :
           queue'[i] = <<"push", d>> =>
             d \in alive /\ \A j \in DOMAIN queue' : queue'[j] = <<"remove", d>> => i < j
      /\ \A i \in DOMAIN queue' : \E j \in DOMAIN queue : queue[j] = queue'[i]
      /\ \A j \in DOMAIN queue : queue[j] # m => \E i \in DOMAIN queue' : queue'[i] = queue[j]
      /\ \A d \in Delegates, i, j \in DOMAIN queue' :
           /\ queue'[i] = <<"remove", d>> /\ queue'[j] = <<"remove", d>>
           /\ \A k, l \in DOMAIN queue :
                queue[k] = <<"remove", d>> /\ queue[l] = <<"remove", d>> => k = l
           => i = j
  <2> HIDE DEF Messages
  <2> QED
    BY <1>0, TakenFits
<1>2. QueueFits'
  BY <1>0, <1>1 DEF QueueFits
<1>3. OnceFits'
  <2> SUFFICES ASSUME NEW e \in Delegates
               PROVE  /\ e \in alive' <=> \/ \E b \in Clients : mTimer'[b] = e
                                         \/ \E i \in DOMAIN queue' : queue'[i] = <<"remove", e>>
                      /\ \A b \in Clients, i \in DOMAIN queue' : ~(mTimer'[b] = e /\ queue'[i] = <<"remove", e>>)
                      /\ \A i, j \in DOMAIN queue' :
                           queue'[i] = <<"remove", e>> /\ queue'[j] = <<"remove", e>> => i = j
                      /\ \A b \in Clients : mTimer'[b] = e => mClient'[e] = b
    BY Zenon DEF OnceFits
  <2>1. /\ e \in alive <=> \/ \E b \in Clients : mTimer[b] = e
                           \/ \E i \in DOMAIN queue : queue[i] = <<"remove", e>>
        /\ \A b \in Clients, i \in DOMAIN queue : ~(mTimer[b] = e /\ queue[i] = <<"remove", e>>)
        /\ \A i, j \in DOMAIN queue : queue[i] = <<"remove", e>> /\ queue[j] = <<"remove", e>> => i = j
        /\ \A b \in Clients : mTimer[b] = e => mClient[e] = b
    BY DEF TimerIInv, OnceFits
  <2>2. (\E i \in DOMAIN queue' : queue'[i] = <<"remove", e>>)
          <=> \E i \in DOMAIN queue : queue[i] = <<"remove", e>>
    <3>1. m # <<"remove", e>>
      OBVIOUS
    <3>2. ASSUME NEW i \in DOMAIN queue', queue'[i] = <<"remove", e>>
          PROVE  \E j \in DOMAIN queue : queue[j] = <<"remove", e>>
      <4>1. PICK j \in DOMAIN queue : queue[j] = queue'[i]
        BY <1>1
      <4> QED
        BY <3>2, <4>1
    <3>3. ASSUME NEW j \in DOMAIN queue, queue[j] = <<"remove", e>>
          PROVE  \E i \in DOMAIN queue' : queue'[i] = <<"remove", e>>
      <4>1. queue[j] # m
        BY <3>1, <3>3
      <4>2. PICK i \in DOMAIN queue' : queue'[i] = queue[j]
        BY <1>1, <4>1
      <4> QED
        BY <3>3, <4>2
    <3> QED
      BY <3>2, <3>3
  <2>3. \A b \in Clients, i \in DOMAIN queue' : ~(mTimer[b] = e /\ queue'[i] = <<"remove", e>>)
    BY <2>1, <2>2
  <2>4. \A i, j \in DOMAIN queue' : queue'[i] = <<"remove", e>> /\ queue'[j] = <<"remove", e>> => i = j
    BY <1>1, <2>1
  <2>5. e \in alive' <=> \/ \E b \in Clients : mTimer'[b] = e
                        \/ \E i \in DOMAIN queue' : queue'[i] = <<"remove", e>>
    <3>1. (\E b \in Clients : mTimer'[b] = e) <=> \E b \in Clients : mTimer[b] = e
      BY <1>0
    <3> QED
      BY <1>0, <2>1, <2>2, <3>1, Zenon
  <2>6. \A b \in Clients, i \in DOMAIN queue' : ~(mTimer'[b] = e /\ queue'[i] = <<"remove", e>>)
    BY <1>0, <2>3, Zenon
  <2>7. \A b \in Clients : mTimer'[b] = e => mClient'[e] = b
    BY <1>0, <2>1, Zenon
  <2> QED
    BY <2>4, <2>5, <2>6, <2>7, Zenon
<1> QED
  BY <1>1, <1>2, <1>3

\* A new timer that outranks the others arms the kernel.
LEMMA PushKeeps ==
  ASSUME TimerIInv, NEW d \in Delegates, Push(d)
  PROVE  TimerIInv'
<1>0. /\ TypeOK /\ MaxClock \in Nat /\ None \notin Clients \cup Delegates
      /\ queue # <<>> /\ Head(queue) = <<"push", d>> /\ queue' = Tail(queue)
      /\ UNCHANGED clients /\ clock' = clock /\ poll' = poll /\ msg' = msg /\ msg.pc = "idle"
      /\ heap' = heap \cup {d}
      /\ top' = IF top = None \/ at[d] < at[top] THEN d ELSE top
      /\ at' = at /\ alive' = alive
  BY TimerAssumption DEF TimerIInv, Push, Takes, clients
<1>1. queue' \in Seq(Messages) /\ OnceFits' /\ QueueFits'
  <2>1. <<"push", d>> \in Messages /\ \A e \in Delegates : <<"push", d>> # <<"remove", e>>
    BY MessagesDiffer
  <2> QED
    BY <1>0, <2>1, TakenKeeps
<1>2. /\ 1 \in DOMAIN queue /\ queue[1] = <<"push", d>>
      /\ \A j \in DOMAIN queue : queue[j] # <<"push", d>> => \E i \in DOMAIN queue' : queue'[i] = queue[j]
  BY <1>0, TakenFits DEF TimerIInv
<1>3. d \in alive
  BY <1>2 DEF TimerIInv, QueueFits
<1>4. heap' \subseteq alive /\ top' \in heap' \cup {None} /\ (top' = None) = (heap' = {})
  BY <1>0, <1>3 DEF TypeOK
<1>5. at \in [Delegates -> 0 .. MaxClock] /\ heap \subseteq Delegates /\ top \in heap \cup {None}
      /\ (top = None) = (heap = {})
  BY <1>0 DEF TypeOK
<1>6. \A e \in Delegates : at[e] \in Nat
  BY <1>0, <1>5
<1>7. armed' \in 0 .. MaxClock \cup {None} /\ polled' \in BOOLEAN
  <2>1. \/ top' # None /\ armed' = at[top'] /\ polled' = TRUE
        \/ armed' = armed /\ polled' = polled
    BY Zenon DEF Push, UpdateSoonestTime, Arm, kernel
  <2>2. top' # None => top' \in Delegates
    BY <1>0, <1>5
  <2>3. armed \in 0 .. MaxClock \cup {None} /\ polled \in BOOLEAN
    BY <1>0 DEF TypeOK
  <2>4. CASE top' # None /\ armed' = at[top'] /\ polled' = TRUE
    <3>1. at[top'] \in 0 .. MaxClock
      BY <1>5, <2>2, <2>4
    <3> QED
      BY <2>4, <3>1
  <2>5. CASE armed' = armed /\ polled' = polled
    BY <2>3, <2>5
  <2> QED
    BY <2>1, <2>4, <2>5
<1>8. TypeOK'
  BY <1>0, <1>1, <1>4, <1>7 DEF TypeOK, clients
<1>9. TopFits'
  <2> SUFFICES ASSUME NEW e \in heap' PROVE at[top'] <= at[e]
    BY <1>0 DEF TopFits
  <2>1. CASE top = None
    BY <1>0, <1>5, <1>6, <2>1
  <2>2. CASE top # None
    <3>1. \A b \in heap : at[top] <= at[b] /\ at[b] \in Nat /\ at[top] \in Nat
      BY <1>5, <1>6, <2>2 DEF TimerIInv, TopFits
    <3>2. at[d] \in Nat
      BY <1>6
    <3>3. e = d \/ e \in heap
      BY <1>0
    <3>4. CASE at[d] < at[top]
      <4>1. top' = d
        BY <1>0, <3>4
      <4> QED
        BY <2>2, <1>5, <3>1, <3>2, <3>3, <3>4, <4>1
    <3>5. CASE ~(at[d] < at[top])
      <4>1. top' = top
        BY <1>0, <2>2, <3>5
      <4> QED
        BY <2>2, <1>5, <3>1, <3>2, <3>3, <3>5, <4>1
    <3> QED
      BY <3>4, <3>5
  <2> QED
    BY <2>1, <2>2
<1>10. KernelFits'
  <2>1. CASE top = None \/ at[d] < at[top]
    <3>1. top' = d /\ d # None
      BY <1>0, <2>1
    <3>2. armed' = at[d] /\ polled'
      BY <2>1, <3>1 DEF Push, UpdateSoonestTime, Arm
    <3> QED
      BY <1>0, <3>1, <3>2 DEF KernelFits
  <2>2. CASE ~(top = None \/ at[d] < at[top])
    <3>1. top' = top /\ armed' = armed /\ polled' = polled
      <4>1. top' = top
        BY <1>0, <2>2
      <4>2. UpdateSoonestTime(top)
        BY DEF Push
      <4>3. ~(top' # None /\ (top = None \/ at[top'] < at[top]))
        <5>1. top # None /\ at[top] \in Nat
          BY <1>5, <1>6, <2>2
        <5>2. ~(at[top] < at[top])
          BY <5>1
        <5> QED
          BY <4>1, <5>1, <5>2
      <4>4. UNCHANGED kernel
        BY <4>2, <4>3 DEF UpdateSoonestTime
      <4> QED
        BY <4>1, <4>4 DEF kernel
    <3>2. ExpiryUnderWay => ExpiryUnderWay'
      <4>1. \A j \in DOMAIN queue : queue[j] = <<"expire", None>> =>
              \E i \in DOMAIN queue' : queue'[i] = <<"expire", None>>
        BY <1>2, MessagesDiffer
      <4> QED
        BY <1>0, <4>1 DEF ExpiryUnderWay, InQueue
    <3> QED
      BY <1>0, <3>1, <3>2 DEF KernelFits, TimerIInv
  <2> QED
    BY <2>1, <2>2
<1>11. ExpiryFits'
  BY <1>0 DEF ExpiryFits, TimerIInv
<1> QED
  BY <1>1, <1>8, <1>9, <1>10, <1>11 DEF TimerIInv

\* A delegate is deleted when nobody has it and it is nowhere in the queue.
LEMMA RemoveKeeps ==
  ASSUME TimerIInv, NEW d \in Delegates, Remove(d)
  PROVE  TimerIInv'
<1>0. /\ TypeOK /\ QueueFits /\ MaxClock \in Nat /\ None \notin Clients \cup Delegates
      /\ queue # <<>> /\ Head(queue) = <<"remove", d>> /\ queue' = Tail(queue)
      /\ clock' = clock /\ poll' = poll /\ msg' = msg /\ msg.pc = "idle"
      /\ mTimer' = mTimer /\ wrapped' = wrapped /\ mClient' = mClient /\ crashed' = crashed
      /\ alive' = alive \ {d} /\ at' = [at EXCEPT ![d] = 0]
  BY TimerAssumption DEF TimerIInv, Remove, Takes, Delete
<1>1. /\ queue' \in Seq(Messages) /\ 1 \in DOMAIN queue /\ queue[1] = <<"remove", d>>
      /\ \A e \in Delegates, i \in DOMAIN queue' :
           queue'[i] = <<"push", e>> =>
             e \in alive /\ \A j \in DOMAIN queue' : queue'[j] = <<"remove", e>> => i < j
      /\ \A i \in DOMAIN queue' : \E j \in DOMAIN queue : queue[j] = queue'[i] /\ j # 1
      /\ \A j \in DOMAIN queue : queue[j] # <<"remove", d>> => \E i \in DOMAIN queue' : queue'[i] = queue[j]
      /\ \A e \in Delegates, i, j \in DOMAIN queue' :
           /\ queue'[i] = <<"remove", e>> /\ queue'[j] = <<"remove", e>>
           /\ \A k, l \in DOMAIN queue :
                queue[k] = <<"remove", e>> /\ queue[l] = <<"remove", e>> => k = l
           => i = j
  <2> HIDE DEF Messages
  <2> QED
    BY <1>0, TakenFits
<1>2. /\ \A i \in DOMAIN queue' : queue'[i] # <<"remove", d>>
      /\ \A b \in Clients : mTimer[b] # d
  BY <1>1 DEF TimerIInv, OnceFits
<1>3. \A i \in DOMAIN queue' : queue'[i] # <<"push", d>>
  <2> SUFFICES ASSUME NEW i \in DOMAIN queue', queue'[i] = <<"push", d>> PROVE FALSE
    OBVIOUS
  <2>1. PICK j \in DOMAIN queue : queue[j] = <<"push", d>> /\ j # 1
    BY <1>1
  <2>2. j < 1 /\ j \in Nat /\ j # 0
    <3>1. DOMAIN queue = 1 .. Len(queue)
      BY <1>0 DEF TypeOK
    <3>2. j < 1
      BY <1>0, <1>1, <2>1 DEF QueueFits
    <3> QED
      BY <2>1, <3>1, <3>2
  <2> QED
    BY <2>2
<1>4. QueueFits'
  <2> SUFFICES ASSUME NEW e \in Delegates, NEW i \in DOMAIN queue', queue'[i] = <<"push", e>>
               PROVE  e \in alive' /\ \A j \in DOMAIN queue' : queue'[j] = <<"remove", e>> => i < j
    BY DEF QueueFits
  <2>1. e # d
    BY <1>3
  <2> QED
    BY <1>0, <1>1, <2>1
<1>5. OnceFits'
  <2> SUFFICES ASSUME NEW e \in Delegates
               PROVE  /\ e \in alive' <=> \/ \E b \in Clients : mTimer'[b] = e
                                          \/ \E i \in DOMAIN queue' : queue'[i] = <<"remove", e>>
                      /\ \A b \in Clients, i \in DOMAIN queue' : ~(mTimer'[b] = e /\ queue'[i] = <<"remove", e>>)
                      /\ \A i, j \in DOMAIN queue' :
                           queue'[i] = <<"remove", e>> /\ queue'[j] = <<"remove", e>> => i = j
                      /\ \A b \in Clients : mTimer'[b] = e => mClient'[e] = b
    BY DEF OnceFits
  <2>1. /\ e \in alive <=> \/ \E b \in Clients : mTimer[b] = e
                           \/ \E i \in DOMAIN queue : queue[i] = <<"remove", e>>
        /\ \A b \in Clients, i \in DOMAIN queue : ~(mTimer[b] = e /\ queue[i] = <<"remove", e>>)
        /\ \A i, j \in DOMAIN queue : queue[i] = <<"remove", e>> /\ queue[j] = <<"remove", e>> => i = j
        /\ \A b \in Clients : mTimer[b] = e => mClient[e] = b
    BY DEF TimerIInv, OnceFits
  <2>2. CASE e = d
    <3>1. e \notin alive' /\ \A c \in Clients : mTimer'[c] # e
      BY <1>0, <1>2, <2>2
    <3> QED
      BY <1>2, <2>2, <3>1
  <2>3. CASE e # d
    <3>0. <<"remove", e>> # <<"remove", d>>
      BY <2>3, MessagesDiffer
    <3>1. (\E i \in DOMAIN queue' : queue'[i] = <<"remove", e>>)
            <=> \E i \in DOMAIN queue : queue[i] = <<"remove", e>>
      BY <1>1, <3>0
    <3>2. e \in alive' <=> e \in alive
      BY <1>0, <2>3
    <3>3. \A b \in Clients, i \in DOMAIN queue' : ~(mTimer[b] = e /\ queue'[i] = <<"remove", e>>)
      BY <2>1, <3>1
    <3>4. \A i, j \in DOMAIN queue' : queue'[i] = <<"remove", e>> /\ queue'[j] = <<"remove", e>> => i = j
      BY <1>1, <2>1
    <3> QED
      BY <1>0, <2>1, <3>1, <3>2, <3>3, <3>4
  <2> QED
    BY <2>2, <2>3
<1>6. /\ at \in [Delegates -> 0 .. MaxClock] /\ heap \subseteq alive /\ alive \subseteq Delegates
      /\ top \in heap \cup {None} /\ (top = None) = (heap = {})
      /\ armed \in 0 .. MaxClock \cup {None} /\ polled \in BOOLEAN
  BY <1>0 DEF TypeOK
<1>7. at' \in [Delegates -> 0 .. MaxClock] /\ \A e \in Delegates : e # d => at'[e] = at[e]
  BY <1>0, <1>6
<1>8. ExpiryUnderWay => ExpiryUnderWay'
  <2>1. \A j \in DOMAIN queue : queue[j] = <<"expire", None>> =>
          \E i \in DOMAIN queue' : queue'[i] = <<"expire", None>>
    BY <1>1, MessagesDiffer
  <2> QED
    BY <1>0, <2>1 DEF ExpiryUnderWay, InQueue
<1>9. /\ heap' = heap \ {d} /\ top' \in heap' \cup {None} /\ (top' = None) = (heap' = {})
      /\ armed' \in 0 .. MaxClock \cup {None} /\ polled' \in BOOLEAN
      /\ TopFits' /\ KernelFits'
  <2>1. CASE d = top
    <3>1. PopTop /\ UpdateSoonestTime(None)
      BY <2>1 DEF Remove
    <3>2. /\ heap' = heap \ {d} /\ top' \in heap' \cup {None} /\ (top' = None) = (heap' = {})
          /\ top' # None => \A e \in heap' : at[top'] <= at[e]
      BY <1>0, <2>1, <3>1, PopFits
    <3>3. top' # None => armed' = at[top'] /\ polled'
      BY <3>1 DEF UpdateSoonestTime, Arm
    <3>4. top' = None => armed' = armed /\ polled' = polled
      BY <3>1 DEF UpdateSoonestTime, kernel
    <3>5. \A e \in heap' : at'[e] = at[e] /\ at[e] \in 0 .. MaxClock
      BY <1>6, <1>7, <3>2
    <3>6. top' # None => polled' = TRUE
      BY <3>1, Zenon DEF UpdateSoonestTime, Arm
    <3>7. TopFits' /\ KernelFits'
      BY <3>2, <3>3, <3>5 DEF TopFits, KernelFits
    <3> QED
      BY <1>6, <3>2, <3>3, <3>4, <3>5, <3>6, <3>7
  <2>2. CASE d # top
    <3>1. heap' = heap \ {d} /\ top' = top /\ armed' = armed /\ polled' = polled
      BY <2>2 DEF Remove, kernel
    <3>2. \A e \in heap' : at'[e] = at[e]
      BY <1>6, <1>7, <3>1
    <3>3. top' \in heap' \cup {None} /\ (top' = None) = (heap' = {})
      BY <1>6, <2>2, <3>1
    <3>4. TopFits'
      BY <1>6, <2>2, <3>1, <3>2, <3>3 DEF TopFits, TimerIInv
    <3>5. KernelFits'
      BY <1>6, <1>8, <2>2, <3>1, <3>2, <3>3 DEF KernelFits, TimerIInv
    <3> QED
      BY <1>6, <3>1, <3>3, <3>4, <3>5
  <2> QED
    BY <2>1, <2>2
<1>10. TypeOK'
  <2>1. heap' \subseteq alive' /\ alive' \subseteq Delegates
    BY <1>0, <1>6, <1>9
  <2> QED
    BY <1>0, <1>1, <1>7, <1>9, <2>1 DEF TypeOK
<1>11. ExpiryFits'
  BY <1>0 DEF ExpiryFits, TimerIInv
<1> QED
  BY <1>4, <1>5, <1>9, <1>10, <1>11 DEF TimerIInv

\* The message thread never leaves an expiry without a timer that is armed.
LEMMA ExpiryKeeps ==
  ASSUME TimerIInv, Expire \/ PopNext
  PROVE  TimerIInv'
<1>0. /\ TypeOK /\ MaxClock \in Nat /\ None \notin Clients \cup Delegates
      /\ UNCHANGED clients /\ clock' = clock /\ poll' = poll /\ at' = at /\ alive' = alive
      /\ mClient \in [Delegates -> Clients \cup {None}]
      /\ at \in [Delegates -> 0 .. MaxClock] /\ heap \subseteq alive /\ alive \subseteq Delegates
      /\ top \in heap \cup {None} /\ (top = None) = (heap = {})
      /\ armed \in 0 .. MaxClock \cup {None} /\ polled \in BOOLEAN
      /\ msg.now \in 0 .. MaxClock /\ clock \in 0 .. MaxClock
  BY TimerAssumption DEF TimerIInv, TypeOK, Expire, PopNext, clients
<1>1. queue' \in Seq(Messages) /\ OnceFits' /\ QueueFits'
  <2>1. CASE Expire
    <3>1. <<"expire", None>> \in Messages /\ \A e \in Delegates : <<"expire", None>> # <<"remove", e>>
      BY MessagesDiffer
    <3>2. queue # <<>> /\ Head(queue) = <<"expire", None>> /\ queue' = Tail(queue)
      BY <2>1 DEF Expire, Takes
    <3> QED
      BY <1>0, <3>1, <3>2, TakenKeeps
  <2>2. CASE PopNext
    BY <2>2 DEF PopNext, clients, TimerIInv, TypeOK, OnceFits, QueueFits
  <2> QED
    BY <2>1, <2>2
<1>2. (heap # {} /\ \E now \in 0 .. MaxClock : Pop(now)) \/ Rearm
  BY <1>0 DEF Expire, PopNext
<1>3. CASE heap # {} /\ \E now \in 0 .. MaxClock : Pop(now)
  <2>1. PICK now \in 0 .. MaxClock : Pop(now)
    BY <1>3
  <2>2. PopTop /\ armed' = armed /\ polled' = polled
    BY <2>1 DEF Pop, kernel
  <2>3. /\ heap' = heap \ {top} /\ top' \in heap' \cup {None} /\ (top' = None) = (heap' = {})
        /\ top' # None => \A e \in heap' : at[top'] <= at[e]
    BY <1>0, <2>2, PopFits
  <2>4. top \in Delegates
    BY <1>0, <1>3
  <2>5. /\ msg' \in [pc : {"idle", "next", "stopping", "calling", "destroying"},
                     now : 0 .. MaxClock, client : Clients \cup {None}, timer : Delegates \cup {None}]
        /\ msg'.pc # "idle" /\ ExpiryFits'
    <3>1. CASE mClient[top] = None
      <4>1. msg' = Further(now)
        BY <2>1, <3>1 DEF Pop
      <4> QED
        BY <4>1 DEF Further, Idle, ExpiryFits
    <3>2. CASE mClient[top] # None
      <4>1. msg' = [pc |-> "stopping", now |-> now, client |-> mClient[top], timer |-> top]
        BY <2>1, <3>2 DEF Pop
      <4>2. mClient[top] \in Clients
        BY <1>0, <2>4, <3>2
      <4> QED
        BY <2>4, <4>1, <4>2 DEF ExpiryFits
    <3> QED
      BY <3>1, <3>2
  <2>6. TypeOK'
    BY <1>0, <1>1, <2>2, <2>3, <2>5 DEF TypeOK, clients
  <2>7. TopFits'
    BY <1>0, <2>3 DEF TopFits
  <2>8. KernelFits'
    BY <2>5 DEF KernelFits, ExpiryUnderWay
  <2> QED
    BY <1>1, <2>5, <2>6, <2>7, <2>8 DEF TimerIInv
<1>4. CASE Rearm
  <2>1. msg' = Idle /\ heap' = heap /\ top' = top /\ UpdateSoonestTime(None)
    BY <1>4 DEF Rearm
  <2>2. /\ msg' \in [pc : {"idle", "next", "stopping", "calling", "destroying"},
                     now : 0 .. MaxClock, client : Clients \cup {None}, timer : Delegates \cup {None}]
        /\ ExpiryFits'
    <3>1. 0 \in 0 .. MaxClock
      BY <1>0
    <3> QED
      BY <2>1, <3>1 DEF Idle, ExpiryFits
  <2>3. top # None => armed' = at[top] /\ polled' = TRUE
    BY <2>1, Zenon DEF UpdateSoonestTime, Arm
  <2>4. top = None => armed' = armed /\ polled' = polled
    BY <2>1 DEF UpdateSoonestTime, kernel
  <2>5. armed' \in 0 .. MaxClock \cup {None} /\ polled' \in BOOLEAN
    <3>1. top # None => at[top] \in 0 .. MaxClock
      BY <1>0
    <3>2. CASE top = None
      BY <1>0, <2>4, <3>2
    <3>3. CASE top # None
      BY <2>3, <3>1, <3>3
    <3> QED
      BY <3>2, <3>3
  <2>6. TypeOK'
    BY <1>0, <1>1, <2>1, <2>2, <2>5 DEF TypeOK, clients
  <2>7. TopFits' /\ KernelFits'
    BY <1>0, <2>1, <2>3 DEF TopFits, KernelFits, TimerIInv
  <2> QED
    BY <1>1, <2>2, <2>6, <2>7 DEF TimerIInv
<1> QED
  BY <1>2, <1>3, <1>4

\* What keeps the timers and the queue, and moves an expiry on.
LEMMA MovesOnKeeps ==
  ASSUME TimerIInv, UNCHANGED <<clock, mTimer, alive, mClient, at, heap, top, kernel, queue, poll>>,
         wrapped' \subseteq Wrappers, crashed' \in BOOLEAN, ExpiryFits',
         msg' \in [pc : {"idle", "next", "stopping", "calling", "destroying"},
                   now : 0 .. MaxClock, client : Clients \cup {None}, timer : Delegates \cup {None}],
         msg.pc # "idle" => msg'.pc # "idle"
  PROVE  TimerIInv'
<1>0. /\ TypeOK
      /\ clock' = clock /\ mTimer' = mTimer /\ alive' = alive /\ mClient' = mClient /\ at' = at
      /\ heap' = heap /\ top' = top /\ armed' = armed /\ polled' = polled
      /\ queue' = queue /\ poll' = poll
  BY DEF TimerIInv, kernel
<1>1. TypeOK'
  BY <1>0 DEF TypeOK
<1>2. OnceFits' /\ QueueFits'
  BY <1>0 DEF TimerIInv, OnceFits, QueueFits
<1>3. TopFits'
  BY <1>0 DEF TimerIInv, TopFits
<1>4. KernelFits'
  <2>1. ExpiryUnderWay => ExpiryUnderWay'
    BY <1>0, UnderWayStays
  <2> QED
    BY <1>0, <2>1 DEF TimerIInv, KernelFits
<1> QED
  BY <1>1, <1>2, <1>3, <1>4 DEF TimerIInv

\* The polling thread takes an expiry over from the kernel and passes it on.
LEMMA PollKeeps ==
  ASSUME TimerIInv, PollThread
  PROVE  TimerIInv'
<1>0. /\ TypeOK /\ UNCHANGED clients
      /\ clock' = clock /\ mTimer' = mTimer /\ alive' = alive /\ mClient' = mClient /\ at' = at
      /\ heap' = heap /\ top' = top /\ msg' = msg
  BY DEF TimerIInv, PollThread, Wake, Disarm, RemovePoll, PostExpire, clients
<1>1. poll' \in {"waiting", "woken", "disarmed", "unpolled"}
  BY DEF PollThread, Wake, Disarm, RemovePoll, PostExpire
<1>2. armed' \in {armed, None} /\ polled' \in {polled, FALSE}
  <2>1. armed' = armed \/ armed' = None
    BY DEF PollThread, Wake, Disarm, RemovePoll, PostExpire, kernel
  <2>2. polled' = polled \/ polled' = FALSE
    BY Zenon DEF PollThread, Wake, Disarm, RemovePoll, PostExpire, kernel
  <2> QED
    BY <2>1, <2>2
<1>3. queue' = queue \/ (queue' = Append(queue, <<"expire", None>>) /\ poll' = "waiting")
  BY DEF PollThread, Wake, Disarm, RemovePoll, PostExpire
<1>4. CASE queue' = queue
  <2>1. poll' # "waiting"
    <3>1. ~PostExpire
      <4>1. ASSUME PostExpire PROVE FALSE
        <5>1. Len(Append(queue, <<"expire", None>>)) = Len(queue) + 1 /\ Len(queue) \in Nat
          BY <1>0, MessagesDiffer DEF TypeOK
        <5>2. Append(queue, <<"expire", None>>) = queue
          BY <1>4, <4>1 DEF PostExpire
        <5>3. Len(queue) = Len(queue) + 1
          BY <5>1, <5>2
        <5> QED
          BY <5>1, <5>3
      <4> QED
        BY <4>1
    <3> QED
      BY <3>1 DEF PollThread, Wake, Disarm, RemovePoll
  <2>2. TypeOK'
    BY <1>0, <1>1, <1>2, <1>4 DEF TypeOK, clients
  <2>3. OnceFits' /\ QueueFits' /\ TopFits' /\ ExpiryFits'
    BY <1>0, <1>4 DEF TimerIInv, OnceFits, QueueFits, TopFits, ExpiryFits
  <2>4. KernelFits'
    BY <1>1, <2>1 DEF KernelFits, ExpiryUnderWay
  <2> QED
    BY <2>2, <2>3, <2>4 DEF TimerIInv
<1>5. CASE queue' = Append(queue, <<"expire", None>>)
  <2> DEFINE new == Len(queue) + 1
  <2>1. /\ queue' \in Seq(Messages)
        /\ \A i \in DOMAIN queue : i \in DOMAIN queue' /\ queue'[i] = queue[i] /\ i < new
        /\ new \in DOMAIN queue' /\ queue'[new] = <<"expire", None>>
        /\ \A i \in DOMAIN queue' : i \in DOMAIN queue \/ i = new
    <3>1. <<"expire", None>> \in Messages
      BY MessagesDiffer
    <3> QED
      BY <1>0, <1>5, <3>1, PostFits
  <2> HIDE DEF new
  <2>2. \A e \in Delegates, i \in DOMAIN queue' :
          /\ queue'[i] = <<"remove", e>> <=> i \in DOMAIN queue /\ queue[i] = <<"remove", e>>
          /\ queue'[i] = <<"push", e>> <=> i \in DOMAIN queue /\ queue[i] = <<"push", e>>
    BY <2>1, MessagesDiffer
  <2>3. TypeOK'
    BY <1>0, <1>1, <1>2, <2>1 DEF TypeOK, clients
  <2>4. QueueFits'
    BY <1>0, <2>2 DEF TimerIInv, QueueFits
  <2>5. OnceFits'
    <3> SUFFICES ASSUME NEW e \in Delegates
                 PROVE  /\ e \in alive' <=> \/ \E b \in Clients : mTimer'[b] = e
                                            \/ \E i \in DOMAIN queue' : queue'[i] = <<"remove", e>>
                        /\ \A b \in Clients, i \in DOMAIN queue' : ~(mTimer'[b] = e /\ queue'[i] = <<"remove", e>>)
                        /\ \A i, j \in DOMAIN queue' :
                             queue'[i] = <<"remove", e>> /\ queue'[j] = <<"remove", e>> => i = j
                        /\ \A b \in Clients : mTimer'[b] = e => mClient'[e] = b
      BY DEF OnceFits
    <3>1. /\ e \in alive <=> \/ \E b \in Clients : mTimer[b] = e
                             \/ \E i \in DOMAIN queue : queue[i] = <<"remove", e>>
          /\ \A b \in Clients, i \in DOMAIN queue : ~(mTimer[b] = e /\ queue[i] = <<"remove", e>>)
          /\ \A i, j \in DOMAIN queue : queue[i] = <<"remove", e>> /\ queue[j] = <<"remove", e>> => i = j
          /\ \A b \in Clients : mTimer[b] = e => mClient[e] = b
      BY DEF TimerIInv, OnceFits
    <3>2. (\E i \in DOMAIN queue' : queue'[i] = <<"remove", e>>)
            <=> \E i \in DOMAIN queue : queue[i] = <<"remove", e>>
      BY <2>1, <2>2
    <3>3. \A b \in Clients, i \in DOMAIN queue' : ~(mTimer[b] = e /\ queue'[i] = <<"remove", e>>)
      BY <2>2, <3>1
    <3>4. \A i, j \in DOMAIN queue' :
            queue'[i] = <<"remove", e>> /\ queue'[j] = <<"remove", e>> => i = j
      BY <2>2, <3>1
    <3> QED
      BY <1>0, <3>1, <3>2, <3>3, <3>4
  <2>6. TopFits' /\ ExpiryFits'
    BY <1>0 DEF TimerIInv, TopFits, ExpiryFits
  <2>7. KernelFits'
    BY <2>1 DEF KernelFits, ExpiryUnderWay, InQueue
  <2> QED
    BY <2>3, <2>4, <2>5, <2>6, <2>7 DEF TimerIInv
<1> QED
  BY <1>3, <1>4, <1>5

\* The invariant holds on.
LEMMA NextKeepsTimer == TimerIInv /\ [Next]_vars => TimerIInv'
<1> SUFFICES ASSUME TimerIInv, [Next]_vars PROVE TimerIInv'
  OBVIOUS
<1>0. /\ TypeOK /\ wrapped \subseteq Wrappers /\ Objects \subseteq Clients /\ Wrappers \subseteq Clients
      /\ msg \in [pc : {"idle", "next", "stopping", "calling", "destroying"},
                  now : 0 .. MaxClock, client : Clients \cup {None}, timer : Delegates \cup {None}]
      /\ crashed \in BOOLEAN
  BY DEF TimerIInv, TypeOK, Clients
<1>1. ASSUME NEW o \in Objects, Stop(o) PROVE TimerIInv'
  BY <1>0, <1>1, StopKeeps DEF Stop
<1>2. ASSUME NEW o \in Objects, NEW delay \in Delays, Start(o, delay) PROVE TimerIInv'
  BY <1>0, <1>2, StartKeeps DEF Start
<1>3. ASSUME NEW w \in Wrappers, TimerStop(w) PROVE TimerIInv'
  <2>1. wrapped' \subseteq Wrappers /\ mTimer[w] # None /\ StopTimer(w) /\ w \in Clients
    BY <1>0, <1>3 DEF TimerStop
  <2> QED
    BY <1>3, <2>1, StopKeeps DEF TimerStop
<1>4. ASSUME NEW w \in Wrappers, NEW delay \in Delays, TimerStart(w, delay) PROVE TimerIInv'
  <2>1. wrapped' \subseteq Wrappers /\ StartTimer(w, delay) /\ w \in Clients
    BY <1>0, <1>4 DEF TimerStart
  <2> QED
    BY <1>4, <2>1, StartKeeps DEF TimerStart
<1>5. ASSUME NEW d \in Delegates, Push(d) \/ Remove(d) PROVE TimerIInv'
  BY <1>5, PushKeeps, RemoveKeeps
<1>6. CASE Expire \/ PopNext
  BY <1>6, ExpiryKeeps
<1>f. ASSUME NEW now \in 0 .. MaxClock
      PROVE  /\ Further(now).pc = "next"
             /\ Further(now) \in [pc : {"idle", "next", "stopping", "calling", "destroying"},
                                  now : 0 .. MaxClock, client : Clients \cup {None},
                                  timer : Delegates \cup {None}]
  BY DEF Further, Idle
<1>7. CASE StopExpired
  <2>1. msg.pc = "stopping" /\ msg.client \in Clients
    BY <1>7 DEF StopExpired, TimerIInv, ExpiryFits
  <2>2. /\ UNCHANGED <<clock, wrapped, alive, at, heap, top, kernel, poll>>
        /\ \/ crashed' = TRUE /\ UNCHANGED <<mTimer, mClient, queue, msg>>
           \/ /\ mTimer[msg.client] # None /\ StopTimer(msg.client) /\ crashed' = crashed
              /\ msg' = [msg EXCEPT !.pc = "calling"]
           \/ msg' = Further(msg.now) /\ UNCHANGED <<mTimer, mClient, queue, crashed>>
    BY <1>7, Zenon DEF StopExpired
  <2>3. CASE crashed' = TRUE /\ UNCHANGED <<mTimer, mClient, queue, msg>>
    <3>1. ExpiryFits' /\ msg' = msg /\ wrapped' = wrapped
      BY <2>2, <2>3 DEF TimerIInv, ExpiryFits
    <3> QED
      BY <1>0, <2>2, <2>3, <3>1, MovesOnKeeps
  <2>4. CASE /\ mTimer[msg.client] # None /\ StopTimer(msg.client) /\ crashed' = crashed
             /\ msg' = [msg EXCEPT !.pc = "calling"]
    BY <1>0, <2>1, <2>2, <2>4, StopKeeps
  <2>5. CASE msg' = Further(msg.now) /\ UNCHANGED <<mTimer, mClient, queue, crashed>>
    <3>1. msg.now \in 0 .. MaxClock
      BY <1>0
    <3>2. /\ msg'.pc = "next" /\ wrapped' \subseteq Wrappers /\ crashed' \in BOOLEAN
          /\ msg' \in [pc : {"idle", "next", "stopping", "calling", "destroying"},
                       now : 0 .. MaxClock, client : Clients \cup {None}, timer : Delegates \cup {None}]
      BY <1>0, <1>f, <2>2, <2>5, <3>1
    <3>3. ExpiryFits'
      BY <3>2 DEF ExpiryFits
    <3> QED
      BY <2>2, <2>5, <3>2, <3>3, MovesOnKeeps
  <2> QED
    BY <2>2, <2>3, <2>4, <2>5
<1>8. CASE TimeOutCallback \/ DestroyWrapper
  <2>1. /\ UNCHANGED <<clock, mTimer, alive, mClient, at, heap, top, kernel, queue, poll>>
        /\ wrapped' \subseteq Wrappers /\ crashed' \in BOOLEAN
    BY <1>0, <1>8 DEF TimeOutCallback, DestroyWrapper, clients
  <2>2. msg.pc \in {"calling", "destroying"} /\ msg.client \in Clients /\ msg.now \in 0 .. MaxClock
    BY <1>0, <1>8 DEF TimeOutCallback, DestroyWrapper, TimerIInv, ExpiryFits
  <2>3. msg' = [msg EXCEPT !.pc = "destroying"] \/ msg' = Further(msg.now)
    BY <1>8 DEF TimeOutCallback, DestroyWrapper
  <2>4. /\ msg' \in [pc : {"idle", "next", "stopping", "calling", "destroying"},
                     now : 0 .. MaxClock, client : Clients \cup {None}, timer : Delegates \cup {None}]
        /\ msg'.pc # "idle" /\ ExpiryFits'
    <3>1. CASE msg' = [msg EXCEPT !.pc = "destroying"]
      BY <1>0, <2>2, <3>1 DEF ExpiryFits
    <3>2. CASE msg' = Further(msg.now)
      BY <1>f, <2>2, <3>2 DEF ExpiryFits
    <3> QED
      BY <2>3, <3>1, <3>2
  <2> QED
    BY <2>1, <2>4, MovesOnKeeps
<1>9. CASE PollThread
  BY <1>9, PollKeeps
<1>10. CASE Tick
  <2>1. /\ mTimer' = mTimer /\ alive' = alive /\ mClient' = mClient /\ at' = at
        /\ heap' = heap /\ top' = top /\ armed' = armed /\ polled' = polled
        /\ queue' = queue /\ poll' = poll /\ msg' = msg /\ wrapped' = wrapped /\ crashed' = crashed
    BY <1>10 DEF Tick, clients, kernel
  <2>2. clock' \in 0 .. MaxClock
    BY <1>0, <1>10, TimerAssumption DEF Tick, TypeOK
  <2>3. TypeOK'
    BY <1>0, <2>1, <2>2 DEF TypeOK
  <2>4. OnceFits' /\ QueueFits' /\ TopFits' /\ ExpiryFits'
    BY <2>1 DEF TimerIInv, OnceFits, QueueFits, TopFits, ExpiryFits
  <2>5. KernelFits'
    BY <2>1 DEF TimerIInv, KernelFits, ExpiryUnderWay, InQueue
  <2> QED
    BY <2>3, <2>4, <2>5 DEF TimerIInv
<1>11. CASE UNCHANGED vars
  <2>1. /\ clock' = clock /\ mTimer' = mTimer /\ alive' = alive /\ mClient' = mClient /\ at' = at
        /\ heap' = heap /\ top' = top /\ kernel' = kernel
        /\ queue' = queue /\ poll' = poll /\ msg' = msg /\ wrapped' = wrapped /\ crashed' = crashed
    BY <1>11 DEF vars, clients
  <2>2. ExpiryFits'
    BY <2>1 DEF TimerIInv, ExpiryFits
  <2> QED
    BY <1>0, <2>1, <2>2, MovesOnKeeps
<1> QED
  BY <1>1, <1>2, <1>3, <1>4, <1>5, <1>6, <1>7, <1>8, <1>9, <1>10, <1>11
  DEF Next, ClientThreads, MsgThread

-----------------------------------------------------------------------------
(* Timers: the theorems. *)

\* The invariant in every behaviour.
THEOREM TimersAlwaysSound == Spec => []TimerIInv
<1> QED
  BY InitTimer, NextKeepsTimer, PTL DEF Spec

\* LocTimerDelegate objects are deleted by the message thread alone, each once:
\* no delegate leaks and none is used after its deletion, in whatever order
\* clients, expiries and removals come.
THEOREM TimersSound == Spec => []TimerInv
<1>1. TimerIInv => TimerInv
  <2> SUFFICES ASSUME TimerIInv PROVE TimerInv
    OBVIOUS
  <2>1. DeletedOnce
    <3> SUFFICES ASSUME NEW d \in Delegates
                 PROVE  LET owners == {c \in Clients : mTimer[c] = d}
                            removals == InQueue("remove", d)
                        IN  /\ d \in alive <=> owners # {} \/ removals # {}
                            /\ owners = {} \/ removals = {}
                            /\ \A i, j \in removals : i = j
                            /\ \A c \in owners : mClient[d] = c
      BY DEF DeletedOnce
    <3> DEFINE owners == {c \in Clients : mTimer[c] = d}  removals == InQueue("remove", d)
    <3>1. /\ owners # {} <=> \E c \in Clients : mTimer[c] = d
          /\ removals # {} <=> \E i \in DOMAIN queue : queue[i] = <<"remove", d>>
          /\ \A i \in removals : i \in DOMAIN queue /\ queue[i] = <<"remove", d>>
      BY DEF InQueue
    <3>2. /\ d \in alive <=> \/ \E c \in Clients : mTimer[c] = d
                             \/ \E i \in DOMAIN queue : queue[i] = <<"remove", d>>
          /\ \A c \in Clients, i \in DOMAIN queue : ~(mTimer[c] = d /\ queue[i] = <<"remove", d>>)
          /\ \A i, j \in DOMAIN queue : queue[i] = <<"remove", d>> /\ queue[j] = <<"remove", d>> => i = j
          /\ \A c \in Clients : mTimer[c] = d => mClient[d] = c
      BY DEF TimerIInv, OnceFits
    <3>3. d \in alive <=> owners # {} \/ removals # {}
      BY <3>1, <3>2
    <3>4. owners = {} \/ removals = {}
      BY <3>1, <3>2
    <3>5. \A i, j \in removals : i = j
      BY <3>1, <3>2
    <3>6. \A c \in owners : mClient[d] = c
      BY <3>2
    <3> QED
      BY <3>3, <3>4, <3>5, <3>6
  <2> QED
    BY <2>1 DEF TimerInv, TimerIInv
<1> QED
  BY <1>1, TimersAlwaysSound, PTL

\* No wake-up is lost between the message thread, which arms the kernel's timer,
\* and the polling thread, which disarms it.
THEOREM WakeUpKept == Spec => []WakeUpIsSet
<1>1. TimerIInv => WakeUpIsSet
  <2> SUFFICES ASSUME TimerIInv, heap # {}, ~ExpiryUnderWay
               PROVE  polled /\ armed = at[top] /\ top \in Soonest(heap)
    BY DEF WakeUpIsSet
  <2>1. top # None /\ top \in heap
    BY DEF TimerIInv, TypeOK
  <2> QED
    BY <2>1 DEF TimerIInv, TopFits, KernelFits, Soonest
<1> QED
  BY <1>1, TimersAlwaysSound, PTL

\* What TimerService sees of the timers.
runningTimers == {c \in Clients : mTimer[c] # None}
callingTimers == IF msg.pc = "calling" THEN {msg.client} ELSE {}

\* The clients' view: start, stop, elapse, call, each for one client, and no two
\* callbacks are owed at once.  (That they are given is left to TLC.)
THEOREM TimersAreService == Spec => Service!Init /\ [][Service!Next]_<<runningTimers, callingTimers>>
<1>1. Init => Service!Init
  <2> SUFFICES ASSUME Init PROVE Service!Init
    OBVIOUS
  <2>1. \A c \in Clients : mTimer[c] = None
    BY DEF Init
  <2>2. msg.pc = "idle"
    BY DEF Init, Idle
  <2> QED
    BY <2>1, <2>2 DEF Service!Init
<1>2. TimerIInv /\ [Next]_vars => [Service!Next]_<<runningTimers, callingTimers>>
  <2> SUFFICES ASSUME TimerIInv, [Next]_vars,
                      ~(runningTimers' = runningTimers /\ callingTimers' = callingTimers)
               PROVE  Service!Next
    BY DEF runningTimers, callingTimers
  <2>0. /\ None \notin Clients \cup Delegates /\ Objects \subseteq Clients /\ Wrappers \subseteq Clients
        /\ mTimer \in [Clients -> Delegates \cup {None}] /\ alive \subseteq Delegates
        /\ msg \in [pc : {"idle", "next", "stopping", "calling", "destroying"},
                    now : 0 .. MaxClock, client : Clients \cup {None}, timer : Delegates \cup {None}]
    BY TimerAssumption DEF TimerIInv, TypeOK, Clients
  <2>s. ASSUME NEW c \in Clients, NEW delay \in Delays, StartTimer(c, delay), msg' = msg
        PROVE  Service!Next
    <3> DEFINE d == CHOOSE e \in Delegates : e \notin alive
    <3>1. mTimer[c] = None /\ mTimer' = [mTimer EXCEPT ![c] = d] /\ alive # Delegates
      BY <2>s, Zenon DEF StartTimer
    <3>2. d \in Delegates
      <4>1. \E e \in Delegates : e \notin alive
        BY <2>0, <3>1
      <4> QED
        BY <4>1, Zenon
    <3> HIDE DEF d
    <3>3. /\ c \notin runningTimers /\ runningTimers' = runningTimers \cup {c}
          /\ callingTimers' = callingTimers
      BY <2>0, <2>s, <3>1, <3>2 DEF runningTimers, callingTimers
    <3>4. Service!Start(c)
      BY <3>3 DEF Service!Start, runningTimers, callingTimers
    <3> QED
      BY <3>4 DEF Service!Next
  <2>t. ASSUME NEW c \in Clients, mTimer[c] # None, StopTimer(c)
        PROVE  c \in runningTimers /\ runningTimers' = runningTimers \ {c}
    <3>1. mTimer' = [mTimer EXCEPT ![c] = None]
      BY <2>t DEF StopTimer
    <3> QED
      BY <2>0, <2>t, <3>1 DEF runningTimers
  <2>u. ASSUME NEW c \in Clients, mTimer[c] # None, StopTimer(c), msg' = msg PROVE Service!Next
    <3>1. Service!Stop(c)
      BY <2>t, <2>u DEF Service!Stop, runningTimers, callingTimers
    <3> QED
      BY <3>1 DEF Service!Next
  \* Steps that the clients do not see.
  <2>n. ASSUME mTimer' = mTimer, msg.pc # "calling", msg'.pc # "calling" PROVE FALSE
    BY <2>n DEF runningTimers, callingTimers
  <2>m. ASSUME mTimer' = mTimer, msg' = msg PROVE FALSE
    BY <2>m DEF runningTimers, callingTimers
  <2>f. \A now : Further(now).pc = "next"
    BY DEF Further, Idle
  <2>1. ASSUME NEW o \in Objects, Stop(o) PROVE Service!Next
    BY <2>0, <2>1, <2>u DEF Stop
  <2>2. ASSUME NEW o \in Objects, NEW delay \in Delays, Start(o, delay) PROVE Service!Next
    BY <2>0, <2>2, <2>s DEF Start
  <2>3. ASSUME NEW w \in Wrappers, TimerStop(w) PROVE Service!Next
    BY <2>0, <2>3, <2>u DEF TimerStop
  <2>4. ASSUME NEW w \in Wrappers, NEW delay \in Delays, TimerStart(w, delay) PROVE Service!Next
    BY <2>0, <2>4, <2>s DEF TimerStart
  <2>5. ASSUME NEW d \in Delegates, Push(d) \/ Remove(d) PROVE FALSE
    BY <2>5, <2>m DEF Push, Remove, clients
  <2>6. ASSUME Expire \/ PopNext PROVE FALSE
    <3>1. mTimer' = mTimer /\ msg.pc # "calling"
      BY <2>6 DEF Expire, PopNext, Takes, clients
    <3>2. (\E now : Pop(now)) \/ Rearm
      BY <2>6 DEF Expire, PopNext
    <3>3. msg'.pc # "calling"
      BY <2>f, <3>2 DEF Pop, Rearm, Idle
    <3> QED
      BY <2>n, <3>1, <3>3
  <2>7. CASE StopExpired
    <3>1. msg.pc = "stopping" /\ msg.client \in Clients
      BY <2>7 DEF StopExpired, TimerIInv, ExpiryFits
    <3>2. \/ UNCHANGED <<mTimer, mClient, queue, msg>>
          \/ /\ mTimer[msg.client] # None /\ StopTimer(msg.client)
             /\ msg' = [msg EXCEPT !.pc = "calling"]
          \/ msg' = Further(msg.now) /\ UNCHANGED <<mTimer, mClient, queue>>
      BY <2>7, Zenon DEF StopExpired
    <3>3. CASE /\ mTimer[msg.client] # None /\ StopTimer(msg.client)
               /\ msg' = [msg EXCEPT !.pc = "calling"]
      <4>0. PICK c \in Clients : c = msg.client
        BY <3>1
      <4>1. c \in runningTimers /\ runningTimers' = runningTimers \ {c}
        BY <2>t, <3>3, <4>0
      <4>2. callingTimers = {} /\ callingTimers' = {c}
        BY <2>0, <3>1, <3>3, <4>0 DEF callingTimers
      <4>3. Service!Elapse(c)
        BY <4>1, <4>2 DEF Service!Elapse, runningTimers, callingTimers
      <4> QED
        BY <4>3 DEF Service!Next
    <3> QED
      BY <2>f, <2>m, <2>n, <3>1, <3>2, <3>3
  <2>8. CASE TimeOutCallback
    <3> DEFINE c == msg.client
    <3>1. c \in Clients /\ msg.pc = "calling" /\ mTimer' = mTimer
      BY <2>8 DEF TimeOutCallback, TimerIInv, ExpiryFits, clients
    <3>2. msg'.pc # "calling"
      BY <2>0, <2>8, <2>f DEF TimeOutCallback
    <3>3. callingTimers = {c} /\ callingTimers' = {} /\ runningTimers' = runningTimers
      BY <3>1, <3>2 DEF callingTimers, runningTimers
    <3>4. Service!Call(c)
      BY <3>3 DEF Service!Call, runningTimers, callingTimers
    <3> QED
      BY <3>1, <3>4 DEF Service!Next
  <2>9. CASE DestroyWrapper
    BY <2>9, <2>f, <2>n DEF DestroyWrapper
  <2>10. CASE PollThread
    BY <2>10, <2>m DEF PollThread, Wake, Disarm, RemovePoll, PostExpire, clients
  <2>11. CASE Tick
    BY <2>11, <2>m DEF Tick, clients
  <2>12. CASE UNCHANGED vars
    BY <2>12, <2>m DEF vars, clients
  <2> QED
    BY <2>1, <2>2, <2>3, <2>4, <2>5, <2>6, <2>7, <2>8, <2>9, <2>10, <2>11, <2>12
    DEF Next, ClientThreads, MsgThread
<1> QED
  BY <1>1, <1>2, TimersAlwaysSound, PTL DEF Spec

=============================================================================

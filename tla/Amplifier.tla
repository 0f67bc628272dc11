------------------------------ MODULE Amplifier ------------------------------
(***************************************************************************)
(* The amplifier of the speaker: amplifier.c, which counts the uses of it, *)
(* and tfa.c, which programs the chip.  The chip is only programmed while  *)
(* its clock runs, and the clock runs while a thread writes to the sound   *)
(* card.                                                                   *)
(*                                                                         *)
(* The audio HAL makes one call at a time, so tfa_lock is always free; the *)
(* thread that writes runs beside it.  The vendor's library, the mixer and *)
(* the sound card may fail in every call.  The structure of the device is  *)
(* not initialised when it is first used, so clock_enabled may be anything.*)
(***************************************************************************)
EXTENDS Integers, Sequences

CONSTANT MaxUses   \* bound: uses of one sound device at a time

ASSUME AmpAssumption == MaxUses \in Nat

VARIABLES
  amp_dev,      \* "none", "opening", "open", "closing", "freed"
  powers,       \* what tfa_device_open() has still to switch
  refcount, amp_state,
  uses,         \* of the sound devices by the audio HAL
  power,        \* the call of tfa_power(): where it is, and what for
  writer,       \* the thread that writes, and where
  tfa,          \* initializing, clock_enabled, writing
  i2s,          \* is the interface to the chip on?
  chip,         \* is the chip?
  faults        \* history: what has gone wrong and was not made good

ampVars == <<amp_dev, powers, refcount, amp_state, uses, power, writer, tfa, i2s, chip, faults>>

AudioModes == {"MUSIC_NORMAL", "VOICE"}
SndDevices == {"SPEAKER", "SPEAKER_AND_HEADPHONES", "VOICE_SPEAKER", "HEADPHONES"}
Rests      == [at |-> "idle", on |-> FALSE, rc |-> 0]
Powers(on) == [at |-> "begins", on |-> on, rc |-> 0]

AmpTypeOK ==
  /\ refcount \in [AudioModes -> Nat] /\ amp_state \in BOOLEAN
  /\ uses \in [SndDevices -> 0 .. MaxUses]
  /\ power.at \in {"idle", "begins", "waits", "chip", "joins", "done"} /\ power.on \in BOOLEAN
  /\ writer \in {"none", "enables", "opens", "fails", "signals", "writes", "loops", "leaves"}
  /\ tfa \in [initializing : BOOLEAN, clock_enabled : BOOLEAN, writing : BOOLEAN]
  /\ i2s \in BOOLEAN /\ chip \in BOOLEAN
  /\ faults \subseteq {"i2s", "mixer", "pcm", "chip", "both", "left"}

AmpInit ==
  /\ amp_dev = "none" /\ powers = <<>>
  /\ refcount = [m \in AudioModes |-> 0] /\ amp_state = FALSE
  /\ uses = [d \in SndDevices |-> 0]
  /\ power = Rests /\ writer = "none"
  /\ tfa \in [initializing : {FALSE}, clock_enabled : BOOLEAN, writing : {FALSE}]
  /\ i2s = FALSE /\ chip \in BOOLEAN /\ faults = {}

useCount == <<refcount, amp_state, uses>>
hardware == <<writer, tfa, i2s, chip>>

-----------------------------------------------------------------------------
(* amplifier.c: the audio HAL calls. *)

\* amp_module_open() loads the library and makes tfa_device_open() switch the chip
\* off, on and off.  It refuses a second device, and so one after a close.
ModuleOpen ==
  /\ amp_dev = "none" /\ amp_dev' = "opening"
  /\ powers' = <<TRUE, FALSE>> /\ power' = Powers(FALSE)
  /\ UNCHANGED <<useCount, hardware, faults>>

\* classify_snd_device()
Classify(snd) ==
  CASE snd \in {"SPEAKER", "SPEAKER_AND_HEADPHONES"} -> "MUSIC_NORMAL"
    [] snd = "VOICE_SPEAKER" -> "VOICE"
    [] OTHER -> "NONE"

\* Sets of sound devices in use, and whether both modes are.
InUse(count) == {d \in SndDevices : count[d] > 0 /\ Classify(d) # "NONE"}
Mixes(count) == \E d, e \in InUse(count) : Classify(d) # Classify(e)

\* amp_enable_output_devices(): the first use of a mode switches the chip on, the
\* last use of a mode switches it off.
EnableOutputDevices(snd) ==
  LET mode == Classify(snd)
      used == [uses EXCEPT ![snd] = @ + 1]
  IN
  /\ amp_dev = "open" /\ power = Rests /\ uses[snd] < MaxUses
  /\ uses' = used
  /\ faults' = IF Mixes(used) THEN faults \cup {"both"} ELSE faults
  /\ IF mode = "NONE"
       THEN UNCHANGED <<refcount, power>>
       ELSE /\ refcount' = [refcount EXCEPT ![mode] = @ + 1]
            /\ power' = IF ~amp_state /\ refcount[mode] = 0 THEN Powers(TRUE) ELSE Rests
  /\ UNCHANGED <<amp_dev, powers, amp_state, hardware>>

\* Slip: the count is looked at before it goes down.
LastUseTooLate(mode) == refcount[mode] = 0

\* Is this the last use of the mode, or was there none?
LastUse(mode) == refcount[mode] <= 1

DisableOutputDevices(snd) ==
  LET mode == Classify(snd)
      used == [uses EXCEPT ![snd] = @ - 1]
  IN
  /\ amp_dev = "open" /\ power = Rests /\ uses[snd] > 0
  /\ uses' = used
  /\ faults' = IF InUse(used) = {} THEN faults \ {"both"} ELSE faults
  /\ IF mode = "NONE"
       THEN UNCHANGED <<refcount, power>>
       ELSE /\ refcount' = [refcount EXCEPT ![mode] = IF @ > 0 THEN @ - 1 ELSE @]
            /\ power' = IF amp_state /\ LastUse(mode) THEN Powers(FALSE) ELSE Rests
  /\ UNCHANGED <<amp_dev, powers, amp_state, hardware>>

\* amp_dev_close() switches the chip off; amp_dev goes on pointing at the device.
DevClose ==
  /\ amp_dev = "open" /\ power = Rests
  /\ amp_dev' = "closing" /\ power' = Powers(FALSE)
  /\ UNCHANGED <<powers, useCount, hardware, faults>>

\* What tfa_power() returned goes to its caller.  tfa_device_open() gives up only on
\* a negative value; on another error it goes on, and says the chip is off whether
\* the last call switched it off or not.
PowerReturns ==
  /\ power.at = "done"
  /\ CASE amp_dev = "opening" ->
            IF power.rc < 0
              THEN /\ amp_dev' = "none" /\ power' = Rests /\ UNCHANGED <<powers, amp_state>>
                   /\ tfa' \in [initializing : {FALSE}, clock_enabled : BOOLEAN, writing : {FALSE}]
                   /\ UNCHANGED faults
              ELSE /\ tfa' = IF Len(powers) = 2 THEN [tfa EXCEPT !.writing = FALSE, !.clock_enabled = FALSE] ELSE tfa
                   /\ IF powers = <<>>
                        THEN amp_dev' = "open" /\ power' = Rests /\ amp_state' = FALSE /\ UNCHANGED powers
                        ELSE power' = Powers(Head(powers)) /\ powers' = Tail(powers) /\ UNCHANGED <<amp_dev, amp_state>>
                   /\ faults' = IF powers = <<>> /\ power.rc > 0 THEN faults \cup {"left"} ELSE faults
       [] amp_dev = "open" ->
            /\ amp_state' = IF power.rc = 0 THEN power.on ELSE amp_state
            /\ power' = Rests /\ UNCHANGED <<amp_dev, powers, tfa, faults>>
       [] OTHER -> amp_dev' = "freed" /\ power' = Rests /\ UNCHANGED <<powers, amp_state, tfa, faults>>
  /\ UNCHANGED <<refcount, uses, writer, i2s, chip>>

-----------------------------------------------------------------------------
(* tfa.c: tfa_power() and the clock. *)

\* tfa_clock_on() starts the thread ...
ClockOn ==
  /\ power.at = "begins" /\ power.on
  /\ tfa' = [tfa EXCEPT !.initializing = TRUE] /\ writer' = "enables"
  /\ power' = [power EXCEPT !.at = "waits"]
  /\ UNCHANGED <<amp_dev, powers, useCount, i2s, chip, faults>>

\* ... and waits until it writes.
ClockIsOn ==
  /\ power.at = "waits" /\ tfa.writing
  /\ tfa' = [tfa EXCEPT !.clock_enabled = TRUE] /\ power' = [power EXCEPT !.at = "chip"]
  /\ UNCHANGED <<amp_dev, powers, useCount, writer, i2s, chip, faults>>

PowerOff ==
  /\ power.at = "begins" /\ ~power.on /\ power' = [power EXCEPT !.at = "chip"]
  /\ UNCHANGED <<amp_dev, powers, useCount, hardware, faults>>

\* What the vendor's library may return: no error, or one of either sign.
VendorResults == {0, 1, 0 - 1}

\* tfa_enable() of the vendor's library, and the end of the clock if it is on.
ChipSwitches(rc) ==
  /\ power.at = "chip"
  /\ chip' = IF rc = 0 THEN power.on ELSE chip
  /\ faults' = IF rc = 0 THEN faults \ {"chip", "left"} ELSE faults \cup {"chip"}
  /\ power' = [power EXCEPT !.at = IF tfa.clock_enabled THEN "joins" ELSE "done", !.rc = rc]
  /\ tfa' = IF tfa.clock_enabled THEN [tfa EXCEPT !.initializing = FALSE] ELSE tfa
  /\ UNCHANGED <<amp_dev, powers, useCount, writer, i2s>>

\* tfa_clock_off().  In the very first call the join may be of a thread that
\* never was; what comes of it is not defined, here it returns.
ClockOff ==
  /\ power.at = "joins" /\ writer = "none"
  /\ tfa' = [tfa EXCEPT !.clock_enabled = FALSE] /\ power' = [power EXCEPT !.at = "done"]
  /\ UNCHANGED <<amp_dev, powers, useCount, writer, i2s, chip, faults>>

-----------------------------------------------------------------------------
(* write_dummy_data(), the thread. *)

writersCaller == <<amp_dev, powers, useCount, power, chip>>

\* Without the interface it ends and tells nobody.
WriterEnables ==
  /\ writer = "enables"
  /\ \/ i2s' = TRUE /\ writer' = "opens" /\ faults' = faults \ {"i2s"}
     \/ UNCHANGED i2s /\ writer' = "none" /\ faults' = faults \cup {"i2s"}
  /\ UNCHANGED <<writersCaller, tfa>>

WriterOpens ==
  /\ writer = "opens"
  /\ \/ writer' = "writes" /\ UNCHANGED faults
     \/ writer' = "fails" /\ faults' = faults \cup {"pcm"}
  /\ UNCHANGED <<writersCaller, tfa, i2s>>

\* The first write, whether it fails or not, is signalled.
WriterWrites ==
  /\ writer = "writes" /\ writer' = "loops"
  /\ tfa' = [tfa EXCEPT !.writing = TRUE]
  /\ UNCHANGED <<writersCaller, i2s, faults>>

WriterEnds ==
  /\ writer = "loops" /\ ~tfa.initializing /\ writer' = "leaves"
  /\ tfa' = [tfa EXCEPT !.writing = FALSE] /\ faults' = faults \ {"pcm"}
  /\ UNCHANGED <<writersCaller, i2s>>

\* The interface is switched off, if the mixer lets it; only a thread that has
\* not signalled yet does so now, and nobody takes that back.
WriterDisables ==
  /\ writer \in {"fails", "leaves"}
  /\ writer' = IF writer = "fails" THEN "signals" ELSE "none"
  /\ \/ i2s' = FALSE /\ faults' = faults \ {"mixer"}
     \/ UNCHANGED i2s /\ faults' = faults \cup {"mixer"}
  /\ UNCHANGED <<writersCaller, tfa>>

WriterSignals ==
  /\ writer = "signals" /\ writer' = "none"
  /\ tfa' = [tfa EXCEPT !.writing = TRUE]
  /\ UNCHANGED <<writersCaller, i2s, faults>>

AmpNext ==
  \/ ModuleOpen \/ DevClose \/ PowerReturns
  \/ \E snd \in SndDevices : EnableOutputDevices(snd) \/ DisableOutputDevices(snd)
  \/ ClockOn \/ ClockIsOn \/ PowerOff \/ (\E rc \in VendorResults : ChipSwitches(rc)) \/ ClockOff
  \/ WriterEnables \/ WriterOpens \/ WriterWrites \/ WriterEnds \/ WriterDisables \/ WriterSignals

-----------------------------------------------------------------------------
(* Properties. *)

\* The chip is switched on only while its clock runs, unless the sound card could
\* not be opened this time or the last.
ClockRuns ==
  power.at = "chip" /\ power.on /\ "pcm" \notin faults => writer = "loops" /\ i2s

\* A call that waits for the clock has a thread that will wake it, unless there
\* was no interface.
SomebodyWakes ==
  power.at = "waits" /\ "i2s" \notin faults => tfa.writing \/ writer # "none"

\* Between two calls nothing runs: no thread, no clock, no interface.
NothingIsLeft ==
  power = Rests /\ amp_dev # "none" =>
    /\ writer = "none" /\ ~tfa.clock_enabled /\ ~tfa.initializing
    /\ i2s => "mixer" \in faults

\* The chip is off when nobody uses it, and on when somebody does, as long as the
\* uses were of one mode and the chip obeyed.  amplifier.c knows how the chip is,
\* unless the opening left it as it was and no call has switched it since: then it
\* takes the chip to be off.
ChipFollowsUse ==
  amp_dev = "open" /\ power = Rests =>
    /\ IF "left" \in faults THEN ~amp_state ELSE amp_state = chip
    /\ refcount["MUSIC_NORMAL"] = uses["SPEAKER"] + uses["SPEAKER_AND_HEADPHONES"]
    /\ refcount["VOICE"] = uses["VOICE_SPEAKER"]
    /\ "chip" \notin faults /\ InUse(uses) = {} => ~chip
    /\ faults \cap {"chip", "both"} = {} /\ InUse(uses) # {} => chip

AmpInv == AmpTypeOK /\ ClockRuns /\ SomebodyWakes /\ NothingIsLeft /\ ChipFollowsUse

\* With both modes in use the end of one switches the chip off under the other.
UsedMeansOn ==
  amp_dev = "open" /\ power = Rests /\ "chip" \notin faults /\ InUse(uses) # {} => chip

\* The device opens with the chip known to be off: an error that is not negative
\* breaks this.
OpensSwitchedOff == amp_dev = "open" /\ power = Rests => amp_state = chip

\* Without the interface nobody wakes the call that waits for the clock, and
\* with it the whole audio HAL.
NobodyHangs == power.at = "waits" => tfa.writing \/ writer # "none"

=============================================================================

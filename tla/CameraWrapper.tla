---------------------------- MODULE CameraWrapper ----------------------------
(***************************************************************************)
(* The wrapper of the vendor's camera module (CameraWrapper.cpp), as this  *)
(* device builds it: with zero shutter lag and without the other fix-ups.  *)
(*                                                                         *)
(* The camera service opens each camera once at a time.  The strings that  *)
(* set_parameters() keeps and the callbacks are shared by all cameras.     *)
(* Most calls only go through to the vendor's camera, of which the model   *)
(* has what is switched on.                                                *)
(***************************************************************************)
EXTENDS CameraParameters

CONSTANTS
  Cameras,    \* numbers of the cameras, from 0
  Texts,      \* settings that an application makes
  Switches    \* what calls switch on and off: "preview", "recording", "messages", "window", "metadata"

ASSUME CameraAssumption == Cameras \subseteq Nat /\ 0 \in Cameras /\ "preview" \in Switches

VARIABLES
  gVendorModule,      \* was it found?
  device,             \* of each camera: "none", "open", "released"
  camera_released,    \* of each camera
  fixed_set_params,   \* of each camera: "null", "live", "freed"
  gUserCallbacks,     \* the camera whose callbacks are kept, Nobody for none
  heard,              \* cameras that call the wrapper back
  vendorParams,       \* settings the vendor's cameras have
  working,            \* of each vendor's camera: Switches, "focus", "picture"
  cancelling,         \* cameras whose camera_cancel_auto_focus() has found the preview enabled
  asked,              \* history: the last text set
  releases,           \* history: of each open camera, how often the vendor released it
  together,           \* history: were two cameras open at a time?
  shot,               \* history: those of cancelling that have taken a picture since
  harm                \* history: what went wrong: "double free", "astray", "crash", "late cancel", "cancel"

cameraVars == <<gVendorModule, device, camera_released, fixed_set_params, gUserCallbacks, heard, vendorParams,
  working, cancelling, asked, releases, together, shot, harm>>

Everywhere(v) == [c \in Cameras |-> v]
nowhere == 1000   \* the number of no camera

CameraTypeOK ==
  /\ gVendorModule \in BOOLEAN /\ device \in [Cameras -> {"none", "open", "released"}]
  /\ camera_released \in [Cameras -> BOOLEAN] /\ fixed_set_params \in [Cameras -> {"null", "live", "freed"}]
  /\ gUserCallbacks \in Cameras \cup {nowhere} /\ heard \subseteq Cameras
  /\ working \in [Cameras -> SUBSET (Switches \cup {"focus", "picture"})]
  /\ shot \subseteq cancelling /\ cancelling \subseteq Cameras
  /\ harm \subseteq {"double free", "astray", "crash", "late cancel", "cancel"}

CameraInit ==
  /\ gVendorModule = FALSE /\ device = Everywhere("none") /\ camera_released = Everywhere(FALSE)
  /\ fixed_set_params = Everywhere("null") /\ gUserCallbacks = nowhere
  /\ heard = {}
  /\ vendorParams = Everywhere(NoMap) /\ asked = Everywhere(NoText)
  /\ working = Everywhere({}) /\ cancelling = {} /\ shot = {}
  /\ releases = Everywhere(0) /\ together = FALSE /\ harm = {}

Alive     == harm \cap {"crash", "double free"} = {}
IsOpen(c) == device[c] # "none" /\ Alive
Serves(c) == IsOpen(c) /\ device[c] = "open" /\ c \notin cancelling   \* one call after the other

calls   == <<gUserCallbacks, heard>>
options == <<vendorParams, asked>>
inside  == <<working, cancelling, shot>>
own     == <<gVendorModule, device, camera_released, fixed_set_params>>

-----------------------------------------------------------------------------
(* Opening and closing, under gCameraWrapperLock. *)

\* Slip: the strings of the last opening are kept.
OpenKeepsParams(c) ==
  /\ device[c] = "none" /\ Alive
  /\ gVendorModule' = TRUE /\ device' = [device EXCEPT ![c] = "open"]
  /\ camera_released' = [camera_released EXCEPT ![c] = FALSE] /\ releases' = [releases EXCEPT ![c] = 0]
  /\ together' = (together \/ \E d \in Cameras : IsOpen(d))
  /\ UNCHANGED <<fixed_set_params, calls, options, inside, harm>>

\* camera_device_open() makes a new array of strings, whoever uses the old one,
\* also when the vendor's camera then does not open.
DeviceOpen(c) ==
  /\ device[c] = "none" /\ Alive
  /\ \/ UNCHANGED <<gVendorModule, device, camera_released, fixed_set_params, releases, together>>
     \/ /\ gVendorModule' = TRUE /\ fixed_set_params' = Everywhere("null")
        /\ together' = (together \/ \E d \in Cameras : IsOpen(d))
        /\ \/ /\ device' = [device EXCEPT ![c] = "open"]
              /\ camera_released' = [camera_released EXCEPT ![c] = FALSE]
              /\ releases' = [releases EXCEPT ![c] = 0]
           \/ UNCHANGED <<device, camera_released, releases>>
  /\ UNCHANGED <<calls, options, inside, harm>>

\* Freeing leaves the pointers as they are.
FreedStrings(strings) == [c \in Cameras |-> IF strings[c] = "null" THEN "null" ELSE "freed"]
FreesTwice(strings) == IF \E c \in Cameras : strings[c] = "freed" THEN {"double free"} ELSE {}

\* camera_device_close() frees the strings of all cameras.
DeviceClose(c) ==
  /\ IsOpen(c) /\ c \notin cancelling /\ device' = [device EXCEPT ![c] = "none"]
  /\ fixed_set_params' = FreedStrings(fixed_set_params)
  /\ harm' = harm \cup FreesTwice(fixed_set_params)
  /\ camera_released' = [camera_released EXCEPT ![c] = TRUE]
  /\ releases' = [releases EXCEPT ![c] = IF camera_released[c] THEN @ ELSE @ + 1]
  /\ heard' = heard \ {c}
  /\ vendorParams' = [vendorParams EXCEPT ![c] = NoMap]
  /\ asked' = [asked EXCEPT ![c] = NoText]
  /\ working' = [working EXCEPT ![c] = {}]
  /\ UNCHANGED <<gVendorModule, gUserCallbacks, together, cancelling, shot>>

\* camera_release() writes through a null pointer after the vendor has released
\* the camera: it crashes, or the compiler has left the write out.
Release(c) ==
  /\ Serves(c) /\ device' = [device EXCEPT ![c] = "released"]
  /\ releases' = [releases EXCEPT ![c] = @ + 1]
  /\ heard' = heard \ {c} /\ working' = [working EXCEPT ![c] = {}]
  /\ \/ harm' = harm \cup {"crash"}
     \/ UNCHANGED harm
  /\ UNCHANGED <<gVendorModule, camera_released, fixed_set_params, gUserCallbacks, options, together, cancelling, shot>>

-----------------------------------------------------------------------------
(* Calls of an open camera. *)

SetCallbacks(c) ==
  /\ Serves(c) /\ gUserCallbacks' = c /\ heard' = heard \cup {c}
  /\ UNCHANGED <<own, options, inside, releases, together, harm>>

\* The four callbacks: the vendor's camera calls, and who set callbacks last hears.
CameraCalls(c) ==
  /\ IsOpen(c) /\ c \in heard
  /\ harm' = IF gUserCallbacks = c THEN harm ELSE harm \cup {"astray"}
  /\ UNCHANGED <<own, calls, options, inside, releases, together>>

\* camera_fixup_setparams()
Numeric(iso) ==
  LET numbers == [i \in {"ISO50", "ISO100", "ISO200", "ISO400", "ISO800", "ISO1600"} |->
        CASE i = "ISO50" -> "50" [] i = "ISO100" -> "100" [] i = "ISO200" -> "200"
          [] i = "ISO400" -> "400" [] i = "ISO800" -> "800" [] OTHER -> "1600"]
  IN IF Len(iso) = 1 /\ iso[1] \in DOMAIN numbers THEN <<numbers[iso[1]]>> ELSE iso

FixupSetparams(c, text) ==
  LET params  == Unflatten(text)
      isVideo == Get(params, <<"recording-hint">>) = <<"true">>
      fixed   == IF Get(params, <<"iso">>) = NoText THEN params
                   ELSE SetTo(params, <<"iso">>, Numeric(params[<<"iso">>]))
  IN Flatten(IF c = 1 THEN fixed
             ELSE SetTo(SetTo(fixed, <<"zsl">>, <<IF isVideo THEN "off" ELSE "on">>),
                        <<"camera-mode">>, <<IF isVideo THEN "0" ELSE "1">>))

\* What it returns is kept until the next call or the close.
SetParameters(c, text) ==
  /\ Serves(c)
  /\ harm' = harm \cup (IF fixed_set_params[c] = "freed" THEN {"double free"} ELSE {})
  /\ fixed_set_params' = [fixed_set_params EXCEPT ![c] = "live"]
  /\ vendorParams' = [vendorParams EXCEPT ![c] = Unflatten(FixupSetparams(c, text))]
  /\ asked' = [asked EXCEPT ![c] = text]
  /\ UNCHANGED <<gVendorModule, device, camera_released, calls, inside, releases, together>>

\* camera_fixup_getparams()
FixupGetparams(params, iso) ==
  SetTo(SetTo(SetTo(params, <<"iso-values">>, iso),
              <<"preferred-preview-size-for-video">>, <<"1280x720">>),
        <<"scene-mode-values">>, <<"auto,asd,action,portrait">>)

\* The list of the ISO modes has one entry and is read at the number of the
\* camera: what another camera gets is not defined, if it gets anything.
IsoValues == <<"auto,ISO100,ISO200,ISO400,ISO800">>

GetParameters(c) ==
  /\ Serves(c)
  /\ \/ UNCHANGED harm
     \/ c # 0 /\ harm' = harm \cup {"crash"}
  /\ UNCHANGED <<own, calls, options, inside, releases, together>>

-----------------------------------------------------------------------------
(* Calls that go through, and the vendor's camera behind them. *)

Switched(c, on, off) == working' = [working EXCEPT ![c] = (@ \ off) \cup on]

\* Messages, preview, recording, metadata, the window: each goes on or off.
ForwardCall(c, switch) ==
  /\ Serves(c)
  /\ Switched(c, {switch}, {}) \/ Switched(c, {}, {switch})
  /\ UNCHANGED <<own, calls, options, cancelling, shot, releases, together, harm>>

\* auto_focus, and take_picture and cancel_picture.
AutoFocus(c) ==
  /\ Serves(c) /\ Switched(c, {"focus"}, {})
  /\ UNCHANGED <<own, calls, options, cancelling, shot, releases, together, harm>>

TakePicture(c) ==
  /\ Serves(c) /\ "preview" \in working[c]
  /\ Switched(c, {"picture"}, {}) \/ Switched(c, {}, {"picture"})
  /\ UNCHANGED <<own, calls, options, cancelling, shot, releases, together, harm>>

\* A camera that has taken a picture ends the preview by itself.
PictureTaken(c) ==
  /\ Alive /\ "picture" \in working[c] /\ Switched(c, {}, {"picture", "preview"})
  /\ shot' = shot \cup ({c} \cap cancelling)
  /\ UNCHANGED <<own, calls, options, cancelling, releases, together, harm>>

\* Slip: the focus is cancelled whether there is a preview or not.
FindsAnyPreview(c) ==
  /\ Serves(c) /\ cancelling' = cancelling \cup {c}
  /\ UNCHANGED <<own, calls, options, working, shot, releases, together, harm>>

\* camera_cancel_auto_focus() first asks the vendor's camera for the preview ...
FindsPreview(c) ==
  /\ Serves(c) /\ "preview" \in working[c] /\ cancelling' = cancelling \cup {c}
  /\ UNCHANGED <<own, calls, options, working, shot, releases, together, harm>>

\* ... and then cancels.
CancelAutoFocus(c) ==
  /\ Alive /\ c \in cancelling /\ cancelling' = cancelling \ {c} /\ shot' = shot \ {c}
  /\ Switched(c, {}, {"focus"})
  /\ harm' = IF "preview" \in working[c] THEN harm ELSE harm \cup {IF c \in shot THEN "late cancel" ELSE "cancel"}
  /\ UNCHANGED <<own, calls, options, releases, together>>

CameraNext ==
  \E c \in Cameras :
    \/ DeviceOpen(c) \/ DeviceClose(c) \/ Release(c)
    \/ SetCallbacks(c) \/ CameraCalls(c)
    \/ GetParameters(c) \/ \E text \in Texts : SetParameters(c, text)
    \/ \E switch \in Switches : ForwardCall(c, switch)
    \/ AutoFocus(c) \/ TakePicture(c) \/ PictureTaken(c) \/ FindsPreview(c) \/ CancelAutoFocus(c)

CameraSpec == CameraInit /\ [][CameraNext]_cameraVars

-----------------------------------------------------------------------------
(* Properties. *)

\* While cameras are opened one after the other, no string is freed twice and
\* every callback reaches the camera's user.
OneAtATimeIsSafe == ~together => harm \cap {"double free", "astray"} = {}

\* What an application sets reaches the vendor's camera, but for what is fixed up.
SettingsReachVendor ==
  \A c \in Cameras : asked[c] # NoText =>
    LET wanted == Unflatten(asked[c])
    IN \A k \in DOMAIN wanted \ {<<"iso">>, <<"zsl">>, <<"camera-mode">>} :
         k \in DOMAIN vendorParams[c] /\ vendorParams[c][k] = wanted[k]

\* A camera that was open and is closed was released by the vendor, and a camera
\* whose release the wrapper knows of is closed.
ClosedIsReleased ==
  /\ \A c \in Cameras : device[c] = "released" => releases[c] = 1
  /\ \A c \in Cameras : device[c] = "none" /\ camera_released[c] => releases[c] >= 1
  /\ \A c \in Cameras : camera_released[c] => device[c] = "none"

\* The focus of a vendor's camera is cancelled without a preview only if that camera
\* has ended the preview by itself, with a picture, since it was asked for it.
CancelNeedsPreview == "cancel" \notin harm

\* What holds of the cameras whatever their settings are.
CameraInv == CameraTypeOK /\ OneAtATimeIsSafe /\ ClosedIsReleased /\ CancelNeedsPreview

\* A picture may be taken between the question and the call.
CancelIsNeverLate == "late cancel" \notin harm

\* Two cameras at a time share the strings and the callbacks.
StringsAreFreedOnce == "double free" \notin harm

\* A camera that was released is released again when it is closed, or the release
\* has crashed before.
ReleasedOnce == \A c \in Cameras : releases[c] <= 1 /\ "crash" \notin harm

\* A sensitivity is read back as a number that is not among those that are offered.
ReadBackIsOffered ==
  \A c \in Cameras :
    LET iso == Get(FixupGetparams(vendorParams[c], IsoValues), <<"iso">>)
    IN iso \in {NoText, <<"auto">>, <<"ISO100">>, <<"ISO200">>, <<"ISO400">>, <<"ISO800">>}

=============================================================================

---------------------------- MODULE VendorHelpers ----------------------------
(***************************************************************************)
(* Three small libraries in front of what the vendor or the kernel has:    *)
(* the sensors' wrapper (sensorswrapper.c), the lights (lights.c), and the *)
(* Wi-Fi address that the modem knows (wcnss_qmi_client.c).                *)
(***************************************************************************)
EXTENDS Naturals, FiniteSets

CONSTANTS
  Colors,      \* <<red, green, blue>>, of 8 bits each, that lights are set to
  MaxOpens     \* bound: opens of the sensors, and initialisations of the modem's client

ASSUME HelpersAssumption == MaxOpens \in Nat /\ Colors \subseteq (0 .. 255) \X (0 .. 255) \X (0 .. 255)

VARIABLES
  vendorFound,      \* has the vendor's sensors module been found?
  samsung_hw_dev,   \* "null", "live", "freed"
  users,            \* open devices of the wrapper
  vendorOpens,      \* devices that the vendor has opened and never had to close
  opens,            \* history: calls to open, ...
  reopened,         \* ... one of them while there was a device, or had been one, ...
  starved,          \* ... and one that failed
  mishaps,          \* history: "double free", "wild free", "null call", "freed call"
  lit,              \* what the files of the backlight and the buttons say
  dms_init_done,    \* of the modem's client
  modemClients,     \* clients that the modem has
  dms_qmi_client,   \* is the client kept one of these?
  inits,            \* history: calls to initialise, ...
  twice,            \* ... one of them with a client there, ...
  unreleased,       \* ... and the modem's refusals to release one
  answered          \* history: "none", "failed", "address", or "stray" for an answer through no client

sensorVars == <<vendorFound, samsung_hw_dev, users, vendorOpens, opens, reopened, starved, mishaps>>
modemVars  == <<dms_init_done, modemClients, dms_qmi_client, inits, twice, unreleased, answered>>
helperVars == <<sensorVars, lit, modemVars>>

HelpersTypeOK ==
  /\ vendorFound \in BOOLEAN /\ samsung_hw_dev \in {"null", "live", "freed"}
  /\ users \in 0 .. MaxOpens /\ vendorOpens \in 0 .. MaxOpens
  /\ mishaps \subseteq {"double free", "wild free", "null call", "freed call"}
  /\ lit.backlight \in 0 .. 255 /\ lit.buttons \in 0 .. 1
  /\ dms_init_done \in BOOLEAN /\ modemClients \in 0 .. MaxOpens

HelpersInit ==
  /\ vendorFound = FALSE /\ samsung_hw_dev = "null" /\ users = 0 /\ vendorOpens = 0
  /\ opens = 0 /\ reopened = FALSE /\ starved = FALSE /\ mishaps = {}
  /\ lit = [backlight |-> 0, buttons |-> 0]
  /\ dms_init_done = FALSE /\ modemClients = 0 /\ dms_qmi_client = FALSE /\ inits = 0 /\ twice = FALSE /\ unreleased = 0
  /\ answered = "none"

-----------------------------------------------------------------------------
(* The sensors. *)

\* check_vendor_module(): once found, the module stays.
CheckVendorModule == vendorFound' \in {vendorFound, TRUE}

\* sensors_list_get(): the framework asks for the sensors before it opens any.
ListGet == mishaps = {} /\ CheckVendorModule /\ UNCHANGED <<samsung_hw_dev, users, vendorOpens, opens, reopened, starved, mishaps, lit, modemVars>>

\* The way out of sensors_module_open(): it frees the vendor's device, whoever uses
\* it, and "dev", which was never set.
DoublyFreed(dev) == IF dev = "freed" THEN {"double free"} ELSE {}
FailPath(dev) ==
  /\ samsung_hw_dev' = "null" /\ starved' = TRUE
  /\ \/ mishaps' = mishaps \cup DoublyFreed(dev)
     \/ mishaps' = mishaps \cup DoublyFreed(dev) \cup {"wild free"}
  /\ UNCHANGED users

\* Slip: a device that is there is opened once more.
SensorsOpenAgain ==
  /\ opens < MaxOpens /\ opens' = opens + 1 /\ vendorFound' = TRUE
  /\ samsung_hw_dev' = "live" /\ users' = users + 1 /\ vendorOpens' = vendorOpens + 1
  /\ UNCHANGED <<reopened, starved, mishaps, lit, modemVars>>

SensorsOpen ==
  /\ mishaps = {} /\ opens < MaxOpens /\ opens' = opens + 1
  /\ reopened' = (reopened \/ samsung_hw_dev # "null")
  /\ \/ /\ samsung_hw_dev # "null"    \* already opened
        /\ FailPath(samsung_hw_dev) /\ UNCHANGED <<vendorFound, vendorOpens>>
     \/ /\ samsung_hw_dev = "null" /\ CheckVendorModule
        /\ \/ FailPath("null") /\ UNCHANGED vendorOpens    \* no module, or its open fails
           \/ vendorFound' /\ FailPath("live") /\ vendorOpens' = vendorOpens + 1    \* no memory
           \/ /\ vendorFound' /\ samsung_hw_dev' = "live"
              /\ users' = users + 1 /\ vendorOpens' = vendorOpens + 1
              /\ UNCHANGED <<starved, mishaps>>
  /\ UNCHANGED <<lit, modemVars>>

Through(dev) == IF dev = "live" THEN {} ELSE IF dev = "null" THEN {"null call"} ELSE {"freed call"}

\* setDelay, activate, poll, flush, batch: whichever device it is for.
SensorsCall ==
  /\ mishaps = {} /\ users > 0 /\ mishaps' = Through(samsung_hw_dev)
  /\ UNCHANGED <<vendorFound, samsung_hw_dev, users, vendorOpens, opens, reopened, starved, lit, modemVars>>

\* wrapper_sensors_module_close() calls the vendor's close with the wrapper's own
\* device and only frees the vendor's: the vendor has that open for ever.  What the
\* vendor makes of a device that is not its own is not modelled.  The pointer stays.
SensorsClose ==
  /\ mishaps = {} /\ users > 0 /\ users' = users - 1
  /\ mishaps' = Through(samsung_hw_dev)
  /\ samsung_hw_dev' = IF samsung_hw_dev = "live" THEN "freed" ELSE samsung_hw_dev
  /\ UNCHANGED <<vendorFound, vendorOpens, opens, reopened, starved, lit, modemVars>>

-----------------------------------------------------------------------------
(* The lights. *)

\* Slip: blue counts as much as red.
BrightnessOfBlue(c) == (77 * c[1] + 150 * c[2] + 77 * c[3]) \div 256

\* rgb_to_brightness()
Brightness(c) == (77 * c[1] + 150 * c[2] + 29 * c[3]) \div 256

IsLit(c) == c # <<0, 0, 0>>

\* A file that cannot be written stays as it is, and only the backlight's user is told.
SetBacklight(c) == lit' \in {lit, [lit EXCEPT !.backlight = Brightness(c)]} /\ UNCHANGED <<sensorVars, modemVars>>
SetButtons(c)   == lit' \in {lit, [lit EXCEPT !.buttons = IF IsLit(c) THEN 1 ELSE 0]} /\ UNCHANGED <<sensorVars, modemVars>>

-----------------------------------------------------------------------------
(* The Wi-Fi address. *)

\* Slip: a release that the modem has refused keeps the library initialised.
DeinitStrictly ==
  /\ dms_init_done /\ dms_init_done' = FALSE /\ UNCHANGED <<modemClients, dms_qmi_client, inits, twice, unreleased, answered, sensorVars, lit>>

\* wcnss_init_qmi() takes no look at the flag; a client that cannot be made leaves
\* the flag, and the client kept is there or not.
InitQmi ==
  /\ inits < MaxOpens /\ inits' = inits + 1 /\ twice' = (twice \/ dms_init_done)
  /\ \/ dms_init_done' = TRUE /\ modemClients' = modemClients + 1 /\ dms_qmi_client' = TRUE
     \/ UNCHANGED <<dms_init_done, modemClients>> /\ dms_qmi_client' \in {dms_qmi_client, FALSE}
  /\ UNCHANGED <<unreleased, answered, sensorVars, lit>>

\* wcnss_qmi_get_wlan_address(): the modem answers with six bytes that it says are
\* valid, or with anything else.
GetWlanAddress ==
  /\ \E valid \in BOOLEAN, length \in {0, 6} :
       answered' = IF ~dms_init_done THEN "failed" ELSE IF ~dms_qmi_client THEN "stray"
                   ELSE IF valid /\ length = 6 THEN "address" ELSE "failed"
  /\ UNCHANGED <<dms_init_done, modemClients, dms_qmi_client, inits, twice, unreleased, sensorVars, lit>>

\* wcnss_qmi_deinit()
Deinit ==
  /\ dms_init_done /\ dms_init_done' = FALSE /\ dms_qmi_client' = FALSE
  /\ \/ dms_qmi_client /\ modemClients' = modemClients - 1 /\ UNCHANGED unreleased
     \/ unreleased' = unreleased + 1 /\ UNCHANGED modemClients
  /\ UNCHANGED <<inits, twice, answered, sensorVars, lit>>

HelpersNext ==
  \/ ListGet \/ SensorsOpen \/ SensorsCall \/ SensorsClose
  \/ \E c \in Colors : SetBacklight(c) \/ SetButtons(c)
  \/ InitQmi \/ GetWlanAddress \/ Deinit

HelpersSpec == HelpersInit /\ [][HelpersNext]_helperVars

-----------------------------------------------------------------------------
(* Properties. *)

\* A sensors' device is one that the vendor has opened, and works from its opening to
\* its close, also after openings that failed, as long as nobody opens while there is
\* a device or after its close.  The one thing that goes wrong without that is the
\* free of "dev" when an opening fails.
SensorsServe ==
  /\ users <= vendorOpens
  /\ ~reopened => mishaps \subseteq {"wild free"} /\ (users > 0 <=> samsung_hw_dev = "live")
  /\ ~starved => "wild free" \notin mishaps

\* The brightness of any color fits the eight bits of the backlight's file, is all of
\* it for white, none for black, and never less for more of a color.
BrightnessFits ==
  /\ Brightness(<<255, 255, 255>>) = 255 /\ Brightness(<<0, 0, 0>>) = 0
  /\ \A c, d \in Colors :
       /\ Brightness(c) \in 0 .. 255
       /\ (\A i \in 1 .. 3 : c[i] <= d[i]) => Brightness(c) <= Brightness(d)

\* The modem is asked only through a client that it has, and has no client too many,
\* unless the library was initialised twice or the modem has kept one.
AddressClientIsKnown ==
  ~twice => answered # "stray" /\ modemClients = (IF dms_init_done THEN 1 ELSE 0) + unreleased

HelpersInv == HelpersTypeOK /\ SensorsServe /\ BrightnessFits /\ AddressClientIsKnown

\* A second opening takes the device away from the first user, and an opening after
\* a close frees it again.
SensorsAreShared == mishaps = {}

\* What is closed is closed with the vendor: no close does this.
SensorsAreClosed == vendorOpens <= users

\* A weak color lights the buttons and not the backlight.
LitIsBright == \A c \in Colors : IsLit(c) => Brightness(c) > 0

=============================================================================

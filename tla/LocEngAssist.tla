----------------------------- MODULE LocEngAssist -----------------------------
(***************************************************************************)
(* What the framework gives the modem to help it, what the modem asks for, *)
(* and the raw measurements: loc_eng_xtra.cpp, the injections, the         *)
(* certificates and the measurement interface of loc_eng.cpp, with the     *)
(* part of loc_init() (loc.cpp) that says what may be injected.            *)
(*                                                                         *)
(* The framework's thread and the modem's thread post messages; the LocEng *)
(* thread hands them on.  Data is abstracted to its kind.  The modem       *)
(* supports measurements; a handle to it is opened with the events of the  *)
(* adapter, which always name the measurements (loc.cpp:294).              *)
(***************************************************************************)
EXTENDS Naturals, Sequences, FiniteSets

CONSTANTS
  Urls,         \* addresses of XTRA servers
  Refused,      \* those with xtra1.gpsonextra.net in them
  Answers,      \* what the modem may know of servers: sequences of three, "" for none
  Configured,   \* XTRA_SERVER_1 to 3 of gps.conf, "" for none
  CertificateSlots,  \* writable slots for certificates
  MaxPosted,         \* bound: messages that wait
  MaxCrashes    \* bound: crashes of the modem

ASSUME AssistAssumption ==
  /\ Refused \subseteq Urls /\ "" \notin Urls
  /\ Answers \subseteq [1 .. 3 -> Urls \cup {""}] /\ Configured \in [1 .. 3 -> Urls \cup {""}]
  /\ CertificateSlots \in Nat /\ MaxPosted \in Nat \ {0} /\ MaxCrashes \in Nat

VARIABLES
  extended,     \* hasCPIExtendedCapabilities(), hasNativeXtraClient() and
                \* hasAgpsExtendedCapabilities()
  phase,        \* where loc_init() is
  supports,     \* of the adapter: injections it supports, and requests
  xtra,         \* are the callbacks of xtra_module_data set?
  measuring,    \* is gnss_measurement_cb set?
  caller,       \* the framework's thread in the measurement interface
  toEngine,     \* messages to the LocEng thread
  report,       \* a measurement for which the callback was found set
  modem,        \* is it up, and which events does it report?
  crashes,
  given,        \* history: what the modem was given last since it came up
  servers       \* history: the servers last reported, and their source

assistVars == <<extended, phase, supports, xtra, measuring, caller, toEngine, report, modem, crashes, given, servers>>

\* What the modem can be given.
Injections == {"POSITION", "TIME", "XTRA", "VERSION_CHECK", "CERTIFICATES"}
\* What the modem asks the framework for, and the framework the modem.
Requests == {"REQUEST_XTRA", "REQUEST_TIME", "REQUEST_SERVER"}
NoServers == [slots |-> <<"", "", "">>, urls |-> <<>>]

AssistTypeOK ==
  /\ extended \in [cpi : BOOLEAN, xtra : BOOLEAN, agps : BOOLEAN]
  /\ phase \in {"none", "created", "ready"} /\ supports \subseteq {"POSITION", "TIME", "REQUESTS"}
  /\ xtra \in BOOLEAN /\ measuring \in BOOLEAN /\ caller \in {"idle", "opening", "closing"}
  /\ Len(toEngine) <= MaxPosted /\ report \in {"none", "checked", "given", "null"}
  /\ modem \in [up : BOOLEAN, measures : BOOLEAN, linked : BOOLEAN] /\ crashes \in 0 .. MaxCrashes
  /\ given \in Injections \cup {""}

AssistInit ==
  /\ extended \in [cpi : BOOLEAN, xtra : BOOLEAN, agps : BOOLEAN]
  /\ phase = "none" /\ supports = {} /\ xtra = FALSE /\ measuring = FALSE /\ caller = "idle"
  /\ toEngine = <<>> /\ report = "none"
  /\ modem = [up |-> TRUE, measures |-> FALSE, linked |-> FALSE] /\ crashes = 0
  /\ given = "" /\ servers = NoServers

interface == <<extended, phase, supports>>
clients   == <<xtra, measuring, caller>>
link      == <<modem, crashes>>
seen      == <<given, servers>>

Send(msg) == Len(toEngine) < MaxPosted /\ toEngine' = Append(toEngine, msg)

-----------------------------------------------------------------------------
(* The framework's thread. *)

\* loc_init() creates the adapter, which opens the interface, ...
InitCreates ==
  /\ phase = "none" /\ phase' = "created"
  /\ Send([kind |-> "OPEN"])
  /\ UNCHANGED <<extended, supports, clients, report, link, seen>>

\* ... and then says what it supports.
InitSupports ==
  /\ phase = "created" /\ phase' = "ready"
  /\ supports' = (IF extended.agps THEN {} ELSE {"REQUESTS"}) \cup
                 (IF extended.cpi THEN {} ELSE {"POSITION"} \cup (IF extended.xtra THEN {} ELSE {"TIME"}))
  /\ UNCHANGED <<extended, clients, toEngine, report, link, seen>>

\* loc_eng_xtra_init(): there is none to set up where XTRA is taken care of.
XtraInit ==
  /\ phase = "ready" /\ "TIME" \in supports /\ ~extended.xtra
  /\ xtra' = TRUE
  /\ UNCHANGED <<interface, measuring, caller, toEngine, report, link, seen>>

\* loc_eng_inject_time(), loc_eng_inject_location(), loc_eng_xtra_inject_data(),
\* loc_eng_xtra_version_check(), loc_eng_xtra_request_server()
Inject(kind) ==
  /\ phase = "ready" /\ caller = "idle"
  /\ IF kind = "POSITION" /\ "POSITION" \notin supports
       THEN UNCHANGED toEngine
       ELSE Send([kind |-> kind])
  /\ UNCHANGED <<interface, clients, report, link, seen>>

\* loc_eng_agps_install_certificates(): all of them or none.
InstallCertificates(lengths) ==
  /\ phase = "ready" /\ caller = "idle"
  /\ lengths # <<>> /\ Len(lengths) <= CertificateSlots
  /\ \A i \in 1 .. Len(lengths) : lengths[i] # "long"
  /\ Send([kind |-> "CERTIFICATES"])
  /\ UNCHANGED <<interface, clients, report, link, seen>>

\* Slip: the callback is set and the modem never told.
MeasurementInitKeepsQuiet ==
  /\ phase = "ready" /\ caller = "idle" /\ ~measuring
  /\ caller' = "opening" /\ UNCHANGED toEngine
  /\ UNCHANGED <<interface, xtra, measuring, report, link, seen>>

\* loc_eng_gps_measurement_init() ...
MeasurementInit ==
  /\ phase = "ready" /\ caller = "idle" /\ ~measuring
  /\ Send([kind |-> "ENABLE"]) /\ caller' = "opening"
  /\ UNCHANGED <<interface, xtra, measuring, report, link, seen>>

\* loc_eng_gps_measurement_close() ...
MeasurementClose ==
  /\ phase = "ready" /\ caller = "idle"
  /\ Send([kind |-> "DISABLE"]) /\ caller' = "closing"
  /\ UNCHANGED <<interface, xtra, measuring, report, link, seen>>

\* ... set or clear the callback after they have posted their message.
CallbackIsSet ==
  /\ caller # "idle" /\ caller' = "idle"
  /\ measuring' = (caller = "opening")
  /\ UNCHANGED <<interface, xtra, toEngine, report, link, seen>>

-----------------------------------------------------------------------------
(* The modem's thread. *)

\* It asks for data or has measurements.  A request is dropped if somebody else
\* takes care of requests, or loc_init() has not got so far.
ModemSays(kind) ==
  /\ modem.up /\ modem.linked
  /\ IF kind = "MEASUREMENT" THEN modem.measures ELSE "REQUESTS" \in supports
  /\ Send([kind |-> kind])
  /\ UNCHANGED <<interface, clients, report, link, seen>>

\* Slip: the slot of a refused server stays empty.
UsableInPlace(urls) == [i \in 1 .. 3 |-> IF urls[i] \in Refused THEN "" ELSE urls[i]]

\* LocEngReportXtraServer: gps.conf overrides the modem, some servers are left
\* out, and the rest moves up.  A server that is not named is not left out: it is
\* copied as the empty text that it is, and takes a slot.
PassOn(list, url) == IF url \in Refused THEN list ELSE Append(list, url)
Usable(urls) ==
  LET kept == PassOn(PassOn(PassOn(<<>>, urls[1]), urls[2]), urls[3])
  IN [i \in 1 .. 3 |-> IF i <= Len(kept) THEN kept[i] ELSE ""]

ModemKnowsServers(urls) ==
  LET chosen == [i \in 1 .. 3 |-> IF Configured[i] # "" THEN Configured[i] ELSE urls[i]] IN
  /\ modem.up /\ modem.linked /\ "REQUESTS" \in supports
  /\ Send([kind |-> "SERVERS", slots |-> Usable(chosen), urls |-> chosen])
  /\ UNCHANGED <<interface, clients, report, link, seen>>

ModemCrashes ==
  /\ modem.up /\ crashes < MaxCrashes /\ crashes' = crashes + 1
  /\ modem' = [up |-> FALSE, measures |-> FALSE, linked |-> FALSE] /\ given' = ""
  /\ UNCHANGED <<interface, clients, toEngine, report, servers>>

\* The handle is renegotiated by a message (see LocApi), once there is one.
ModemReturns ==
  /\ ~modem.up /\ modem' = [modem EXCEPT !.up = TRUE]
  /\ IF phase # "none" THEN Send([kind |-> "OPEN"]) ELSE UNCHANGED toEngine
  /\ UNCHANGED <<interface, clients, report, crashes, seen>>

-----------------------------------------------------------------------------
(* The LocEng thread. *)

Takes(kind) == report \in {"none", "given", "null"} /\ toEngine # <<>> /\ Head(toEngine).kind = kind /\ toEngine' = Tail(toEngine)

OpenInterface ==
  /\ Takes("OPEN")
  /\ modem' = IF modem.up THEN [modem EXCEPT !.linked = TRUE, !.measures = TRUE] ELSE modem
  /\ report' = "none"
  /\ UNCHANGED <<interface, clients, crashes, seen>>

\* LocEngUpdateRegistrationMask goes to the modem and past the adapter's mask.
UpdateRegistrationMask(kind) ==
  /\ Takes(kind)
  /\ modem' = IF modem.linked THEN [modem EXCEPT !.measures = (kind = "ENABLE")] ELSE modem
  /\ report' = "none"
  /\ UNCHANGED <<interface, clients, crashes, seen>>

\* The time is injected only where that is supported, and LocEngAdapter::setTime()
\* looks when it is due.
Supported(kind) == kind = "TIME" => "TIME" \in supports

\* LocEngSetTime, LocEngInjectLocation, LocEngInjectXtraData,
\* LocEngSetXtraVersionCheck, LocEngInstallAGpsCert: what is not supported, or not heard, is lost.
Give(kind) ==
  /\ Takes(kind) /\ report' = "none"
  /\ given' = IF modem.linked /\ Supported(kind) THEN kind ELSE given
  /\ UNCHANGED <<interface, clients, link, servers>>

\* LocEngRequestXtraServer, LocEngRequestXtra and LocEngRequestTime change nothing
\* here: the first asks the modem, the others the framework if it listens.
Ask(kind) ==
  /\ Takes(kind) /\ report' = "none"
  /\ UNCHANGED <<interface, clients, link, seen>>

ReportServers ==
  /\ Takes("SERVERS") /\ report' = "none"
  /\ servers' = IF xtra THEN [slots |-> Head(toEngine).slots, urls |-> Head(toEngine).urls] ELSE servers
  /\ UNCHANGED <<interface, clients, link, given>>

\* LocEngReportGnssMeasurement looks at the callback and then calls it.
MeasurementArrives ==
  /\ Takes("MEASUREMENT")
  /\ report' = IF measuring THEN "checked" ELSE "none"
  /\ UNCHANGED <<interface, clients, link, seen>>

MeasurementIsGiven ==
  /\ report = "checked" /\ report' = IF measuring THEN "given" ELSE "null"
  /\ UNCHANGED <<interface, clients, toEngine, link, seen>>

AssistNext ==
  \/ InitCreates \/ InitSupports \/ XtraInit
  \/ \E kind \in {"POSITION", "TIME", "XTRA", "VERSION_CHECK", "REQUEST_SERVER"} : Inject(kind)
  \/ \E lengths \in {<<"short">>, <<"short", "short">>, <<"long">>, <<>>} : InstallCertificates(lengths)
  \/ MeasurementInit \/ MeasurementClose \/ CallbackIsSet
  \/ \E kind \in {"REQUEST_XTRA", "REQUEST_TIME", "MEASUREMENT"} : ModemSays(kind)
  \/ \E urls \in Answers : ModemKnowsServers(urls)
  \/ ModemCrashes \/ ModemReturns
  \/ OpenInterface \/ \E kind \in {"ENABLE", "DISABLE"} : UpdateRegistrationMask(kind)
  \/ \E kind \in Injections : Give(kind)
  \/ \E kind \in Requests : Ask(kind)
  \/ ReportServers \/ MeasurementArrives \/ MeasurementIsGiven

AssistSpec == AssistInit /\ [][AssistNext]_assistVars

-----------------------------------------------------------------------------
(* Properties. *)

\* Once everything has been worked off, a framework that listens to measurements
\* gets them, whatever closings, reopenings and restarts were in between.
MeasurementsFlow ==
  measuring /\ caller = "idle" /\ toEngine = <<>> /\ modem.up => modem.measures

\* The converse fails: opening the handle registers the measurements, also
\* after a restart of the modem while nobody listens.
NobodyMeasuresInVain ==
  phase = "ready" /\ ~measuring /\ caller = "idle" /\ toEngine = <<>> => ~modem.measures

\* The LocEng thread looks at the callback that the framework's thread clears,
\* and may find it gone when it calls it.
CallbackIsThere == report # "null"

\* The framework is given the usable servers, first things first: gps.conf replaces
\* what it names, each server that is not refused has the slot after those of the
\* servers before it, and the slots that are left are empty.
ServersInOrder ==
  LET slots == servers.slots
      urls  == servers.urls
      kept  == {i \in 1 .. Len(urls) : urls[i] \notin Refused}
  IN /\ \A i \in 1 .. Len(urls) : Configured[i] # "" => urls[i] = Configured[i]
     /\ \A i \in kept : slots[Cardinality({j \in kept : j <= i})] = urls[i]
     /\ \A k \in 1 .. 3 : k > Cardinality(kept) => slots[k] = ""

\* No empty slot comes before a used one: it does where the modem names the second
\* server and not the first.
SlotsFillUp == \A k \in 2 .. 3 : servers.slots[k] # "" => servers.slots[k - 1] # ""

\* The invariant of the run.
AssistInv == AssistTypeOK /\ MeasurementsFlow /\ ServersInOrder

=============================================================================

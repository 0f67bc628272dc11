------------------------------- MODULE LocHal -------------------------------
(***************************************************************************)
(* The entry points of the GPS library (loc.cpp): what the framework gets, *)
(* the callbacks it leaves, and whom its answers on data connections       *)
(* reach.                                                                  *)
(*                                                                         *)
(* The framework calls on threads of its own, the LocEng thread works off  *)
(* the messages and calls back.  A machine of the AGPS interfaces is here  *)
(* only waiting for an answer or not; AgpsStateMachine has it whole.  The  *)
(* engine is behind LocEngSession, LocEngConfig and LocEngAssist.          *)
(***************************************************************************)
EXTENDS Naturals, Sequences

CONSTANTS
  FileCaps,      \* the capabilities that gps.conf and the defaults give
  UpdateCaps,    \* those that an update of the configuration may name
  Csfb,          \* is the baseband "csfb"?
  Targets,       \* what the target may have: "NONE", "MSM", "GSS", "MDM", "QCA1530", "AUTO", "UNKNOWN"
  AgpsTypes,     \* types of the modem's requests: "INVALID", "SUPL", "WWAN_ANY", "WIFI"
  ApnIpTypes,    \* types of the framework's data connections
  MaxInbox       \* bound: messages for the LocEng thread

ASSUME HalAssumption == Csfb \in BOOLEAN /\ MaxInbox \in Nat \ {0}

VARIABLES
  gnss,              \* what the target has, and ...
  extendedAgps,      \* ... whether its own library handles the AGPS requests
  provider,          \* the framework: "none", "refused", "off", "on"
  configAlreadyRead,
  CAPABILITIES,      \* of gps_conf
  sGnssType,
  offered,           \* extensions that the framework has
  callbacks,         \* those of gps_loc_cb, gps_sv_cb, gps_ni_cb that are set
  adapter,           \* is there one?
  agps_status_cb,    \* is it set?
  updating,          \* the capabilities before the update that is under way, {} if none is
  inbox,             \* messages of the LocEng thread
  found,             \* the callback that this thread has found set, or Idle
  nifs,              \* agnss_nif and internet_nif, when they exist
  waiting,           \* those that wait for an answer of the framework
  bearer,            \* of agnss_nif
  exposed,           \* history: were the interfaces made during an update?
  cleanedSince,      \* history: was there a cleanup since the callback was found?
  faults             \* history: "null call", "uninvited", "no machine", "unheard"

halVars == <<gnss, extendedAgps, provider, configAlreadyRead, CAPABILITIES, sGnssType, offered, callbacks, adapter,
  agps_status_cb, updating, inbox, found, nifs, waiting, bearer, exposed, cleanedSince, faults>>

Standalone == {"GSS", "AUTO", "QCA1530"}
Assisted   == {"MSA", "MSB"}
Extensions == {"xtra", "agps", "ni", "ril", "geofencing", "certificate", "configuration", "measurement"}
Bearers    == {"IPV4", "IPV6", "IPV4V6"}
Idle       == "idle"

\* Requests of the modem, emergency calls apart, and answers of the framework.
Message(kind, type, ip) == [kind |-> kind, type |-> type, bearer |-> ip]
Events == {"OPEN", "FAILED", "CLOSED"}

HalTypeOK ==
  /\ gnss \in Targets /\ sGnssType \in Targets \cup {"UNKNOWN"} /\ provider \in {"none", "refused", "off", "on"}
  /\ callbacks \subseteq {"loc", "sv", "ni"} /\ found \in {Idle, "loc", "sv", "ni"}
  /\ offered \subseteq Extensions /\ waiting \subseteq nifs /\ nifs \subseteq {"agnss", "internet"}
  /\ bearer \in Bearers \cup {Idle}

HalInit ==
  /\ gnss \in Targets /\ extendedAgps \in BOOLEAN
  /\ provider = "none" /\ configAlreadyRead = FALSE /\ CAPABILITIES = {} /\ sGnssType = "UNKNOWN"
  /\ offered = {} /\ callbacks = {} /\ adapter = FALSE /\ agps_status_cb = FALSE /\ updating = {}
  /\ inbox = <<>> /\ found = Idle /\ nifs = {} /\ waiting = {} /\ bearer = Idle
  /\ exposed = FALSE /\ cleanedSince = FALSE /\ faults = {}

hardware  == <<gnss, extendedAgps>>
gpsConf  == <<configAlreadyRead, CAPABILITIES, sGnssType, updating>>
client  == <<provider, offered, callbacks, adapter, agps_status_cb>>
machines == <<nifs, waiting, bearer, exposed>>
calling == <<found, cleanedSince>>

Works == faults \cap {"null call", "no machine"} = {}

-----------------------------------------------------------------------------
(* The framework gets the interfaces. *)

\* A chip of its own has no assisted modes.
Cleared(caps, kind) == IF kind \in Standalone THEN caps \ Assisted ELSE caps

\* Slip: only the external receiver is thought of.
GetInterfaceOfGss ==
  /\ provider \in {"none", "off"} /\ updating = {}
  /\ configAlreadyRead' = TRUE /\ sGnssType' = gnss
  /\ CAPABILITIES' = (IF configAlreadyRead THEN CAPABILITIES ELSE FileCaps) \ (IF gnss = "GSS" THEN Assisted ELSE {})
  /\ provider' = IF gnss = "NONE" THEN "refused" ELSE "off"
  /\ UNCHANGED <<hardware, offered, callbacks, adapter, agps_status_cb, updating, inbox, machines, calling, faults>>

\* get_gps_interface(), with loc_eng_read_config() that reads the files once.
GetInterface ==
  /\ provider \in {"none", "off"} /\ updating = {}
  /\ configAlreadyRead' = TRUE /\ sGnssType' = gnss
  /\ CAPABILITIES' = Cleared(IF configAlreadyRead THEN CAPABILITIES ELSE FileCaps, gnss)
  /\ provider' = IF gnss = "NONE" THEN "refused" ELSE "off"
  /\ UNCHANGED <<hardware, offered, callbacks, adapter, agps_status_cb, updating, inbox, machines, calling, faults>>

\* loc_get_extension()
Offers(name) ==
  /\ name = "ril" => Csfb
  /\ name = "geofencing" => "GEOFENCING" \in CAPABILITIES

\* The framework gets all extensions before it uses one.
GetExtensions ==
  /\ provider = "off" /\ offered = {}
  /\ offered' = {name \in Extensions : Offers(name)}
  /\ UNCHANGED <<hardware, gpsConf, provider, callbacks, adapter, agps_status_cb, inbox, machines, calling, faults>>

\* loc_init() keeps the callbacks, also when there is an adapter already.
LocInit ==
  /\ provider = "off" /\ provider' = "on"
  /\ callbacks' = callbacks \cup {"loc", "sv"}
  /\ adapter' = TRUE
  /\ UNCHANGED <<hardware, gpsConf, offered, agps_status_cb, inbox, machines, calling, faults>>

\* Slip: the callbacks are left to a framework that is gone.
LocCleanupKeepsCallbacks ==
  /\ provider = "on" /\ provider' = "off" /\ cleanedSince' = (found # Idle)
  /\ UNCHANGED <<hardware, gpsConf, offered, callbacks, adapter, agps_status_cb, inbox, machines, found, faults>>

\* loc_cleanup(): the callback for network-initiated requests stays.
LocCleanup ==
  /\ provider = "on" /\ provider' = "off"
  /\ callbacks' = callbacks \ {"loc", "sv"}
  /\ cleanedSince' = (found # Idle)
  /\ UNCHANGED <<hardware, gpsConf, offered, adapter, agps_status_cb, inbox, machines, found, faults>>

\* loc_ni_init()
NiInit ==
  /\ "ni" \in offered /\ provider = "on"
  /\ callbacks' = callbacks \cup {"ni"}
  /\ UNCHANGED <<hardware, gpsConf, provider, offered, adapter, agps_status_cb, inbox, machines, calling, faults>>

Post(msg) == Len(inbox) < MaxInbox /\ inbox' = Append(inbox, msg)

\* loc_agps_init(): once, and only where the AGPS requests come here.
AgpsInit ==
  /\ "agps" \in offered /\ adapter /\ ~agps_status_cb
  /\ agps_status_cb' = TRUE
  /\ IF extendedAgps THEN UNCHANGED inbox ELSE Post(Message("NIFS", "INVALID", Idle))
  /\ UNCHANGED <<hardware, gpsConf, provider, offered, callbacks, adapter, machines, calling, faults>>

-----------------------------------------------------------------------------
(* Updates of the configuration, whose text is read into gps_conf before most *)
(* of it is put back: loc_configuration_update().                             *)

UpdateBegins(caps) ==
  /\ "configuration" \in offered /\ updating = {}
  /\ updating' = {CAPABILITIES}
  /\ CAPABILITIES' \in {CAPABILITIES, caps}
  /\ UNCHANGED <<hardware, configAlreadyRead, sGnssType, client, inbox, machines, calling, faults>>

\* Slip: what the text says is kept.
UpdateEndsUnrestored ==
  /\ updating # {} /\ updating' = {}
  /\ UNCHANGED <<hardware, configAlreadyRead, CAPABILITIES, sGnssType, client, inbox, machines, calling, faults>>

UpdateEnds ==
  /\ updating' = {}
  /\ \E old \in updating : CAPABILITIES' = Cleared(old, sGnssType)
  /\ UNCHANGED <<hardware, configAlreadyRead, sGnssType, client, inbox, machines, calling, faults>>

-----------------------------------------------------------------------------
(* The AGPS interfaces. *)

\* createAgnssNifs(), but for the emergency calls.
CreateNifs ==
  /\ nifs' = nifs \cup {"internet"} \cup (IF CAPABILITIES \cap Assisted # {} THEN {"agnss"} ELSE {})
  /\ exposed' = (exposed \/ updating # {})
  /\ UNCHANGED <<waiting, bearer, faults>>

\* getAgpsStateMachine()
NifOf(type) == IF type \in {"INVALID", "SUPL"} THEN "agnss" ELSE "internet"

\* LocEngRequestATL: without a machine the client is refused at once.
RequestATL(type) ==
  /\ waiting' = waiting \cup ({NifOf(type)} \cap nifs)
  /\ UNCHANGED <<nifs, bearer, exposed, faults>>

\* LocEngAtlOpenSuccess, LocEngAtlOpenFailed, LocEngAtlClosed: the machine is not
\* looked for whether it exists.
Answer(msg) ==
  LET nif == NifOf(msg.type) IN
  IF nif \notin nifs
    THEN faults' = faults \cup {"no machine"} /\ UNCHANGED machines
    ELSE /\ bearer' = IF nif = "agnss" /\ msg.kind = "OPEN" THEN msg.bearer ELSE bearer
         /\ waiting' = IF msg.kind = "CLOSED" THEN waiting ELSE waiting \ {nif}
         /\ faults' = IF msg.kind # "CLOSED" /\ waiting # {} /\ nif \notin waiting THEN faults \cup {"unheard"} ELSE faults
         /\ UNCHANGED <<nifs, exposed>>

TakesMessage ==
  /\ Works /\ found = Idle /\ inbox # <<>> /\ inbox' = Tail(inbox)
  /\ LET msg == Head(inbox) IN
       \/ msg.kind = "NIFS" /\ CreateNifs
       \/ msg.kind = "ATL" /\ RequestATL(msg.type)
       \/ msg.kind \in Events /\ Answer(msg)
  /\ UNCHANGED <<hardware, gpsConf, client, calling>>

\* The modem asks for a data connection, unless another library sees to these.
ModemAsks(type) ==
  /\ adapter /\ ~extendedAgps /\ Post(Message("ATL", type, Idle))
  /\ UNCHANGED <<hardware, gpsConf, client, machines, calling, faults>>

\* loc_agps_open_with_apniptype(): what it does not know is IPv4.
BearerOf(apnIpType) == IF apnIpType \in Bearers THEN apnIpType ELSE "IPV4"

\* The framework answers a request: loc_agps_open() and its relatives, all of them
\* for AGPS_TYPE_SUPL.
FrameworkAnswers(kind, apnIpType) ==
  /\ agps_status_cb /\ waiting # {}
  /\ Post(Message(kind, "SUPL", IF kind = "OPEN" THEN BearerOf(apnIpType) ELSE Idle))
  /\ UNCHANGED <<hardware, gpsConf, client, machines, calling, faults>>

-----------------------------------------------------------------------------
(* Callbacks: local_loc_cb(), local_sv_cb(), local_ni_cb() on the LocEng     *)
(* thread.                                                                   *)

ReportFinds(cb) ==
  /\ Works /\ adapter /\ found = Idle /\ cb \in callbacks
  /\ found' = cb /\ cleanedSince' = FALSE
  /\ UNCHANGED <<hardware, gpsConf, client, inbox, machines, faults>>

\* The pointer is read again, or what was read for the test is used.
ReportCalls ==
  /\ Works /\ found # Idle /\ found' = Idle /\ cleanedSince' = FALSE
  /\ \/ faults' = IF found \in {"loc", "sv"} /\ provider # "on" /\ ~cleanedSince THEN faults \cup {"uninvited"} ELSE faults
     \/ found \notin callbacks /\ faults' = faults \cup {"null call"}
  /\ UNCHANGED <<hardware, gpsConf, client, inbox, machines>>

HalNext ==
  /\ Works
  /\ \/ GetInterface \/ LocInit \/ LocCleanup \/ NiInit \/ AgpsInit
     \/ GetExtensions
     \/ \E caps \in UpdateCaps : UpdateBegins(caps)
     \/ UpdateEnds \/ TakesMessage
     \/ \E type \in AgpsTypes : ModemAsks(type)
     \/ \E kind \in Events, ip \in ApnIpTypes : FrameworkAnswers(kind, ip)
     \/ \E cb \in {"loc", "sv", "ni"} : ReportFinds(cb)
     \/ ReportCalls

HalSpec == HalInit /\ [][HalNext]_halVars

-----------------------------------------------------------------------------
(* Properties. *)

\* After a cleanup the framework hears of positions and satellites only from a
\* report that was already on its way to it, and only such a report can meet the
\* callback taken away.
CleanupSilences ==
  /\ "uninvited" \notin faults
  /\ found \in {"loc", "sv"} /\ found \notin callbacks => cleanedSince

\* Where a chip of its own does the positioning, the assisted modes are switched
\* off whatever the files and the updates say, and no SUPL interface is made; where
\* an assisted mode is on, one is made.  Only interfaces made in the middle of an
\* update may differ.
ModesFitTheChip ==
  /\ updating = {} /\ gnss \in Standalone => CAPABILITIES \cap Assisted = {}
  /\ nifs # {} /\ ~exposed /\ updating = {} => (CAPABILITIES \cap Assisted # {} <=> "agnss" \in nifs)

\* An answer of the framework meets no missing machine where an assisted mode is on
\* (and the interfaces were not made in the middle of an update), and ends only
\* waiting for SUPL.
AnswersAreForSupl ==
  /\ "no machine" \in faults /\ ~exposed /\ updating = {} => CAPABILITIES \cap Assisted = {}
  /\ "unheard" \in faults => "internet" \in waiting

HalInv == HalTypeOK /\ CleanupSilences /\ ModesFitTheChip /\ AnswersAreForSupl

\* The answer for who waits at the internet interface goes to the SUPL interface,
\* or to none.
InternetIsAnswered == faults \cap {"no machine", "unheard"} = {}

\* A report and a cleanup at the same time.
NobodyCallsNull == "null call" \notin faults

=============================================================================

----------------------------- MODULE LocEngConfig -----------------------------
(***************************************************************************)
(* What the location engine tells the modem of its settings: loc_init(),   *)
(* loc_eng_reinit() at the start and after a restart of the modem,         *)
(* loc_eng_configuration_update(), the servers, the availability of the    *)
(* network, the lock of the GPS.                                           *)
(*                                                                         *)
(* The framework's thread changes the settings and posts messages; the     *)
(* LocEng thread works the messages off.  A reinit reads the same settings *)
(* on the LocEng thread with no lock, so each of its reads is a step and   *)
(* each of its posts is another.  It posts messages of settings that never *)
(* change as well, which are left out.  The part of                        *)
(* loc_eng_handle_engine_up() that is about clients and sessions is in     *)
(* AgpsNif and LocEngSession.                                              *)
(***************************************************************************)
EXTENDS Naturals, SequencesExt

CONSTANTS
  Params,       \* settings of gps.conf that an update may change
  Types,        \* types of servers
  Hosts,        \* addresses of servers
  Locks,        \* locks of the GPS that gps.conf may ask for
  Capable,      \* does gps.conf allow MS based or MS assisted fixes?
  Measures,     \* does the modem support GNSS measurements?
  MaxCalls,     \* bound: calls of the framework
  MaxCrashes,   \* bound: crashes of the modem
  None

\* What else is posted, or done by a handler, under a name of its own.
Orders ==
  {"open", "ssr", "init", "up", "gnss", "caps", "mode", "nif", "lock", "unlock",
   "agps", "data"}

ASSUME ConfigAssumption ==
  /\ Capable \in BOOLEAN /\ Measures \in BOOLEAN
  /\ MaxCalls \in Nat /\ MaxCrashes \in Nat
  /\ IsFiniteSet(Params) /\ IsFiniteSet(Types)
  /\ Params \cap Types = {} /\ (Params \cup Types) \cap Orders = {}
  /\ None \notin Hosts /\ Locks # {}

VARIABLES
  adapter,    \* is there a client of the modem?
  starting,   \* is the framework's thread in loc_init(), past loc_eng_init()?
  conf,       \* gps_conf
  update,     \* the framework's thread in loc_eng_configuration_update()
  available,  \* agpsStatus
  servers,    \* supl_host_buf and c2k_host_buf, or None
  agps,       \* is agps_status_cb set?
  nifs,       \* the state machines that exist
  vote,       \* powerVote of the adapter
  queue,      \* messages to the LocEng thread
  job,        \* what the handler of the LocEng thread has still to do
  held,       \* a setting that it has read and not yet posted
  modem,      \* the settings of the modem
  up,         \* is the modem up?
  linked,     \* is the handle to the modem valid?
  told,       \* the capabilities told to the framework, or None
  ulp,        \* the capabilities told to the ULP, or None
  calls, crashes,
  asked,      \* history: the servers the framework has set
  passed,     \* history: the settings whose last message was not overtaken
  disturbed   \* history: were capabilities used during an update?

engine   == <<adapter, starting, agps, nifs, vote>>
settings == <<conf, available, servers>>
worker   == <<queue, job, held>>
link     == <<modem, up, linked>>
bounds   == <<calls, crashes>>
history  == <<asked, passed, disturbed>>
knowledge == <<told, ulp>>
vars == <<engine, settings, update, worker, link, knowledge, bounds, history>>

Versions == {0, 1}
Settings == Params \cup Types \cup {"data"}
Caps     == {"MSB", "MEASUREMENTS"}
Confs    == [params : [Params -> Versions], mode : Versions, lock : Locks, caps : SUBSET Caps]

Idle == [at |-> "idle", saved |-> None]

Defaults == [params |-> [p \in Params |-> 0], mode |-> 1,
             lock |-> CHOOSE lock \in Locks : TRUE,
             caps |-> IF Capable THEN {"MSB"} ELSE {}]

\* ContextBase::getCarrierCapabilities(): SUPL_MODE masks what needs the network.
CarrierCapabilities == conf.caps \ (IF conf.mode = 1 THEN {} ELSE {"MSB"})

\* What a modem knows that has just booted.  The lock outlives a restart.
Booted(lock) ==
  [s \in Settings \cup {"lock"} |-> IF s = "lock" THEN lock ELSE None]

ConfigTypeOK ==
  /\ adapter \in BOOLEAN /\ starting \in BOOLEAN /\ agps \in BOOLEAN /\ vote \in BOOLEAN
  /\ nifs \subseteq {"internet", "agnss"}
  /\ conf \in Confs /\ available \in BOOLEAN
  /\ servers \in [Types -> Hosts \cup {None}]
  /\ update.at \in {"idle", "written", "posted"}
  /\ held = None \/ held[1] \in Settings
  /\ DOMAIN modem = Settings \cup {"lock"}
  /\ up \in BOOLEAN /\ linked \in BOOLEAN
  /\ told \in {None} \cup SUBSET Caps /\ ulp \in {None} \cup SUBSET Caps
  /\ asked \in [Types -> Hosts \cup {None}] /\ passed \subseteq Settings

ConfigInit ==
  /\ adapter = FALSE /\ starting = FALSE /\ agps = FALSE /\ nifs = {} /\ vote = FALSE
  /\ conf = Defaults /\ update = Idle
  /\ available = FALSE /\ servers = [t \in Types |-> None]
  /\ queue = <<>> /\ job = <<>> /\ held = None
  /\ modem = Booted(0) /\ up = TRUE /\ linked = FALSE
  /\ told = None /\ ulp = None /\ calls = 0 /\ crashes = 0
  /\ asked = [t \in Types |-> None] /\ passed = Settings /\ disturbed = FALSE

Set(s, v) == <<s, v>>
Post(msgs) == queue' = queue \o msgs

-----------------------------------------------------------------------------
(* The framework's thread. *)

Free == update = Idle /\ ~starting

Call == Free /\ calls < MaxCalls /\ calls' = calls + 1 /\ UNCHANGED crashes

\* loc_init() begins with loc_eng_init(), which wipes what has been set and starts
\* the LocEng thread.
LocInit ==
  /\ ~adapter /\ Free
  /\ adapter' = TRUE /\ starting' = TRUE /\ agps' = FALSE /\ nifs' = {}
  /\ servers' = [t \in Types |-> None]
  /\ Post(<<Set("open", None), Set("init", None)>>)
  /\ UNCHANGED <<vote, conf, available, update, job, held, link, knowledge, bounds, history>>

\* The rest of loc_init().
TakesOver ==
  /\ Post(<<Set("lock", 0)>>)
  /\ ulp' = CarrierCapabilities
  /\ vote' = TRUE
  /\ UNCHANGED <<adapter, agps, nifs, settings, update, job, held, link, told, history>>

\* The LocEng thread is at work by then.
LocInitEnds == starting /\ starting' = FALSE /\ TakesOver /\ UNCHANGED bounds

\* Another loc_init() finds the instance initialized.
LocInitAgain == Call /\ adapter /\ TakesOver /\ UNCHANGED starting

\* loc_cleanup()
LocCleanup ==
  /\ Call /\ adapter
  /\ vote' = FALSE
  /\ Post(<<Set("lock", conf.lock)>>)
  /\ UNCHANGED <<adapter, starting, agps, nifs, settings, update, job, held, link, knowledge, history>>

\* loc_eng_set_server(): the name of a C2K server has to be resolved.
Resolved(t, resolves) == t = "SUPL" \/ resolves

\* The message of a setting is posted by the framework, so it carries what the
\* setting is now.
MarkPassed(S, F) == passed' = (passed \cup S) \ F

\* loc_eng_agps_init(), with loc_eng_agps_reinit()
AgpsInit(resolves) ==
  LET known == {t \in Types : servers[t] # None}
      sent == {t \in known : Resolved(t, resolves)} IN
  /\ Call /\ adapter /\ ~agps
  /\ agps' = TRUE
  /\ Post(<<Set("nif", None)>> \o
          SetToSeq({Set(t, servers[t]) : t \in sent}))
  /\ MarkPassed(sent, known \ sent)
  /\ UNCHANGED <<adapter, starting, nifs, vote, settings, update, job, held, link, knowledge, asked, disturbed>>

\* loc_eng_set_server_proxy()
SetServer(t, h, resolves) ==
  LET sends == adapter /\ Resolved(t, resolves) IN
  /\ Call
  /\ servers' = [servers EXCEPT ![t] = h] /\ asked' = [asked EXCEPT ![t] = h]
  /\ IF sends
       THEN Post(<<Set(t, h)>>) /\ MarkPassed({t}, {})
       ELSE UNCHANGED queue /\ (IF adapter THEN MarkPassed({}, {t}) ELSE UNCHANGED passed)
  /\ UNCHANGED <<engine, conf, available, update, job, held, link, knowledge, disturbed>>

\* loc_eng_agps_ril_update_network_availability()
UpdateNetwork(on, apn) ==
  /\ Call
  /\ available' = on
  /\ IF adapter /\ apn
       THEN Post(<<Set("data", on)>>) /\ MarkPassed({"data"}, {})
       ELSE UNCHANGED queue /\ (IF adapter THEN MarkPassed({}, {"data"}) ELSE UNCHANGED passed)
  /\ UNCHANGED <<engine, conf, servers, update, job, held, link, knowledge, asked, disturbed>>

\* loc_eng_configuration_update() parses into gps_conf, capabilities as well if
\* it is given any, ...
UpdateWrite(params, mode, lock, caps) ==
  /\ Call
  /\ update' = [at |-> "written", saved |-> conf]
  /\ conf' = [params |-> params, mode |-> mode, lock |-> lock, caps |-> caps]
  /\ UNCHANGED <<engine, available, servers, worker, link, knowledge, history>>

Changed(old) == {p \in Params : old.params[p] # conf.params[p]}

\* What an update posts of the settings.
Updates(old) ==
  SetToSeq({Set(p, conf.params[p]) : p \in Changed(old)})
  \o (IF old.mode # conf.mode THEN <<Set("mode", None)>> ELSE <<>>)

\* Slip: the lock of the file is posted, whoever uses the GPS.
UpdatePostsLock ==
  /\ update.at = "written"
  /\ update' = [update EXCEPT !.at = "posted"]
  /\ IF adapter
       THEN /\ Post(Updates(update.saved) \o <<Set("lock", conf.lock)>>)
            /\ MarkPassed(Changed(update.saved), {})
       ELSE UNCHANGED <<queue, passed>>
  /\ UNCHANGED <<engine, settings, job, held, link, knowledge, bounds, asked, disturbed>>

\* ... posts what has changed and the lock, ...
UpdatePost ==
  /\ update.at = "written"
  /\ update' = [update EXCEPT !.at = "posted"]
  /\ IF adapter
       THEN /\ Post(Updates(update.saved) \o <<Set("lock", IF vote THEN 0 ELSE conf.lock)>>)
            /\ MarkPassed(Changed(update.saved), {})
       ELSE UNCHANGED <<queue, passed>>
  /\ UNCHANGED <<engine, settings, job, held, link, knowledge, bounds, asked, disturbed>>

\* ... and puts back what an update may not change.
UpdateEnd ==
  /\ update.at = "posted"
  /\ update' = Idle
  /\ conf' = [conf EXCEPT !.caps = update.saved.caps]
  /\ UNCHANGED <<engine, available, servers, worker, link, knowledge, bounds, history>>

-----------------------------------------------------------------------------
(* The LocEng thread. *)

\* loc_eng_reinit(), as what it posts.
ReinitItems == <<"gnss">> \o SetToSeq(Params) \o <<"data">>

Current(s) ==
  IF s \in Params THEN conf.params[s]
  ELSE IF s = "data" THEN available ELSE servers[s]

\* Slip: the capabilities are told without a message of their own.
StartJobTellingAtOnce(msg) ==
  CASE msg = "init" -> <<"caps">> \o ReinitItems \o <<"unlock">>
    [] msg = "up" -> ReinitItems \o <<"agps">>
    [] OTHER -> <<>>

\* Slip: the servers are set at the start only.
StartJobKeepsServers(msg) ==
  CASE msg = "init" -> ReinitItems \o <<"unlock", "caps">>
    [] msg = "up" -> ReinitItems
    [] OTHER -> <<>>

\* What LocEngInit::proc() and loc_eng_handle_engine_up() go on to do.
StartJob(msg) ==
  CASE msg = "init" -> ReinitItems \o <<"unlock", "caps">>
    [] msg = "up" -> ReinitItems \o <<"agps">>
    [] OTHER -> <<>>

\* A call of the modem gets through while the handle is valid.
Sent(s, v) == IF linked THEN [modem EXCEPT ![s] = v] ELSE modem

\* LocEngSuplVer, LocEngLppConfig
SetsParam(msg, v) == msg \in Params /\ modem' = Sent(msg, v)

\* LocEngSetServerUrl, LocEngSetServerIpv4
SetsServer(msg, v) == msg \in Types /\ modem' = Sent(msg, v)

\* LocEngEnableData::proc()
EnablesData(msg, v) == msg = "data" /\ modem' = Sent("data", v)

\* setGpsLockMsg()
SetsLock(msg, v) == msg = "lock" /\ modem' = Sent("lock", v)

\* The sensors' settings, and the messages that set nothing.
SetsNothingElse(msg) ==
  /\ msg \in {"open", "ssr", "init", "up", "gnss", "caps", "mode", "nif"}
  /\ UNCHANGED modem

Sets(msg, v) ==
  \/ SetsParam(msg, v) \/ SetsServer(msg, v) \/ EnablesData(msg, v) \/ SetsLock(msg, v)
  \/ SetsNothingElse(msg)

\* LocOpenMsg and LocSsrMsg
Opens(msg) == linked' = (IF msg \in {"open", "ssr"} THEN up ELSE linked)

\* LocEngGnssConstellationConfig::proc()
AsksMeasures(msg) ==
  conf' = IF msg = "gnss" /\ linked /\ Measures
            THEN [conf EXCEPT !.caps = @ \cup {"MEASUREMENTS"}] ELSE conf

\* LocEngSetCapabilities::proc()
TellsCaps(msg) == told' = (IF msg = "caps" THEN conf.caps ELSE told)

\* LocEngSuplMode::proc()
TellsUlp(msg) == ulp' = (IF msg = "mode" THEN CarrierCapabilities ELSE ulp)

\* createAgnssNifs()
CreatesNifs(msg) ==
  nifs' = IF msg = "nif"
            THEN nifs \cup {"internet"} \cup (IF "MSB" \in conf.caps THEN {"agnss"} ELSE {})
            ELSE nifs

\* The head of the queue is worked off.
Work ==
  LET msg == Head(queue)[1] IN
  /\ job = <<>> /\ queue # <<>>
  /\ queue' = Tail(queue) /\ job' = StartJob(msg)
  /\ Sets(msg, Head(queue)[2])
  /\ Opens(msg) /\ AsksMeasures(msg) /\ TellsCaps(msg) /\ TellsUlp(msg) /\ CreatesNifs(msg)
  /\ disturbed' = (disturbed \/ (msg \in {"gnss", "caps", "mode", "nif"} /\ update # Idle))
  /\ UNCHANGED <<adapter, starting, agps, vote, available, servers, held, update, up, bounds,
                 asked, passed>>

\* A reinit reads a setting ...
ReadSetting ==
  /\ job # <<>> /\ Head(job) \in Settings /\ held = None
  /\ IF Head(job) \in Types /\ servers[Head(job)] = None
       THEN job' = Tail(job) /\ UNCHANGED held
       ELSE held' = Set(Head(job), Current(Head(job))) /\ UNCHANGED job
  /\ UNCHANGED <<engine, settings, queue, update, link, knowledge, bounds, history>>

\* ... and posts it.
PostSetting(resolves) ==
  /\ held # None
  /\ held' = None /\ job' = Tail(job)
  /\ LET s == held[1]
         sends == s \in Types => Resolved(s, resolves) IN
       /\ IF sends THEN Post(<<held>>) ELSE UNCHANGED queue
       /\ IF sends /\ held[2] = Current(s) THEN MarkPassed({s}, {}) ELSE MarkPassed({}, {s})
  /\ UNCHANGED <<engine, settings, update, link, knowledge, bounds, asked, disturbed>>

\* The rest of a handler: messages with no setting, the call of setGpsLock(1),
\* and whether the servers are to be set again.
Proceed ==
  /\ job # <<>> /\ Head(job) \notin Settings
  /\ job' = IF Head(job) = "agps"
              THEN (IF agps THEN SetToSeq(Types) ELSE <<>>) ELSE Tail(job)
  /\ IF Head(job) \in {"gnss", "caps"}
       THEN Post(<<Set(Head(job), None)>>) ELSE UNCHANGED queue
  /\ modem' = IF Head(job) = "unlock" THEN Sent("lock", 1) ELSE modem
  /\ UNCHANGED <<engine, settings, held, update, up, linked, knowledge, bounds, history>>

-----------------------------------------------------------------------------
(* The modem. *)

ModemCrashes ==
  /\ adapter /\ up /\ crashes < MaxCrashes
  /\ crashes' = crashes + 1
  /\ up' = FALSE /\ linked' = FALSE /\ modem' = Booted(modem["lock"])
  /\ UNCHANGED <<engine, settings, update, worker, knowledge, calls, history>>

\* Slip: the handle is not renegotiated.
ModemReturnsUnlinked ==
  /\ ~up /\ up' = TRUE
  /\ Post(<<Set("up", None)>>)
  /\ UNCHANGED <<engine, settings, update, job, held, modem, linked, knowledge, bounds, history>>

\* LocApiBase::handleEngineUpEvent()
ModemReturns ==
  /\ ~up /\ up' = TRUE
  /\ Post(<<Set("ssr", None), Set("up", None)>>)
  /\ UNCHANGED <<engine, settings, update, job, held, modem, linked, knowledge, bounds, history>>

-----------------------------------------------------------------------------
LocEngThread == Work \/ ReadSetting \/ Proceed \/ \E r \in BOOLEAN : PostSetting(r)

ConfigUpdate ==
  \/ \E params \in [Params -> Versions], mode \in Versions, lock \in Locks,
        caps \in {conf.caps, {"MSB"}} : UpdateWrite(params, mode, lock, caps)
  \/ UpdatePost \/ UpdateEnd

ConfigNext ==
  \/ LocInit \/ LocInitEnds \/ LocInitAgain \/ LocCleanup \/ ConfigUpdate
  \/ \E r \in BOOLEAN : AgpsInit(r)
  \/ \E t \in Types, h \in Hosts, r \in BOOLEAN : SetServer(t, h, r)
  \/ \E on \in BOOLEAN, apn \in BOOLEAN : UpdateNetwork(on, apn)
  \/ LocEngThread
  \/ ModemCrashes \/ ModemReturns

\* The framework's thread goes on with an update or a loc_init() that it has begun.
ConfigFairness ==
  /\ WF_vars(LocEngThread) /\ WF_vars(ModemReturns)
  /\ WF_vars(UpdatePost \/ UpdateEnd \/ LocInitEnds)

ConfigSpec == ConfigInit /\ [][ConfigNext]_vars /\ ConfigFairness

-----------------------------------------------------------------------------
(* Properties. *)

\* There is an engine, and nobody has anything left to do.
Quiet == adapter /\ linked /\ queue = <<>> /\ job = <<>> /\ Free

\* A setting reaches the modem whatever restarts in between: once all is quiet,
\* the modem has the setting that the engine has.  Left out are the settings
\* that the code knows it does not pass on (a network with no APN, a name that
\* does not resolve), and the servers after a restart when the framework has
\* never called agps_init().  Left out as well is a setting that changed while a
\* reinit held its old value, which is then posted after the new one.
SettingsArrive ==
  Quiet => \A s \in passed :
    (s \in Types => agps \/ crashes = 0) => modem[s] = Current(s)

\* While the GPS is in use the modem is not locked, and after that it has the
\* lock of the configuration: the lock of LocEngInit is always followed by
\* another.  A restart may swallow the message, and nothing repeats it.
LockFollowsVote ==
  Quiet /\ crashes = 0 => modem["lock"] = (IF vote THEN 0 ELSE conf.lock)

\* What is told of the capabilities, and the interfaces that are created of
\* them, count the modem's answer and none of the fields that an update writes
\* for a moment.  What the ULP is told follows SUPL_MODE through every update;
\* of the modem's answer the ULP need not know, see UlpKnowsMeasurements.
CapabilitiesAreTrue ==
  ~disturbed =>
    /\ told # None /\ crashes = 0 => (("MEASUREMENTS" \in told) = Measures)
    /\ told # None => (("MSB" \in told) = Capable)
    /\ Quiet => ulp \in {CarrierCapabilities, CarrierCapabilities \ {"MEASUREMENTS"}}
    /\ nifs # {} => (("agnss" \in nifs) = Capable)

\* Deviation: the ULP would know of the measurements as well.  loc_init() tells
\* it before the modem's answer can be expected, and it is told again only when
\* an update changes SUPL_MODE or when loc_init() is called again.
UlpKnowsMeasurements == Quiet /\ ~disturbed => ulp = CarrierCapabilities

\* The types, the lock and the capabilities.
ConfigInv == ConfigTypeOK /\ LockFollowsVote /\ CapabilitiesAreTrue

\* The engine never keeps a restart to itself: whatever the modem does, the
\* engine gets through to it again and has nothing left to tell it.  (An engine
\* that there is stays, so this happens again and again.)
EngineSettles == []<>(adapter => Quiet)

\* "This proxy buffers server settings and calls loc_eng_set_server when the
\* client is open": a server that the framework has set is in the modem once
\* AGPS is initialized and all is quiet.
ServerIsBuffered ==
  Quiet /\ agps => \A t \in Types \cap passed : asked[t] # None => modem[t] = asked[t]
=============================================================================

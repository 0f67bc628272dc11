# Verification of the Samsung A5 common device tree

This directory holds TLA+ models of `android_device_samsung_a5-common`, the
TLC configurations that check them, and TLAPS proofs about them.  The device
tree is a collection of native helpers for one family of phones.  By far the
largest part with logic of its own is the GPS stack (`src/gps`, about 16,000
lines of C and C++): several threads, message queues, timers, a modem that
restarts, and a framework that calls at any moment.  Most models are of it;
the rest are of the smaller libraries around vendor code, and of a Java
application.

Paths below are relative to the repository; files named without a directory
are in `src/gps/loc_api/libloc_api_50001/`, `src/gps/core/` or
`src/gps/utils/`.

## 1. Inventory

### How the GPS stack hangs together

    Android framework                       modem (vendor library)
      | calls of the HAL table                | events
      v                                       v
    loc.cpp -> loc_eng_*()             LocApiBase -> LocEngAdapter
      |            sendMsg()                  |  sendMsg()
      +---------------> message queue <-------+------ LocTimer (timer thread)
                            |                          data services
                            |                          GPS daemons (pipes)
                       LocEng thread: proc() of each message
                            |
       AGPS state machines, session flag, status, muting, NI, XTRA, NMEA
                            |
         callbacks to the framework, startFix/stopFix/atl*Status to the modem

Every handler runs on the one LocEng thread (`MsgTask`), so two handlers never
interleave.  What interleaves is everything else: the order in which callers
post; state that a caller reads or writes without posting (the session flag in
`loc_eng_cleanup`, the settings during a reinit, the measurement callback); the
timer threads, the NI response threads, the daemon server's thread; and
restarts of the modem, whose news are a message like any other.

### Components

| Component | State | Operations | Hard part | Correct means | Module |
|---|---|---|---|---|---|
| AGPS resource state machine, `loc_eng_agps.*` | state object, subscriber list, inactive flags | subscribe, unsubscribe, GRANTED / RELEASED / DENIED, flush | answers that cross requests, release while others subscribe | the interface is held exactly while somebody active wants it; nobody leaves the list untold | `AgpsStateMachine` |
| SUPL interface in operation, `loc_eng.cpp` | the machine, queue, framework's connection | `requestATL`, `releaseATL`, `agps_open`, `agps_open_failed`, `agps_closed` | lost network, crossing release, modem restart | a client with an open link is counted; requests and releases are answered | `AgpsNif` |
| Emergency SUPL data call, `DSStateMachine` | the machine, `mRetries`, retry timers, the data call | `requestSuplES`, opened, closed, `retryCallback`, `informStatus` | retries on another thread, fallback to the ordinary interface | the call is started afresh, stopped only unused, and clients answered | `SuplEmergency`, `SubscriberList` |
| Positioning session, `loc_eng_start/stop/set_position_mode/cleanup` | `mNavigating`, `mFixCriteria` | start, stop, mode, report, engine up | calls read a flag that queued messages change; late reports; restarts | session flag, modem and framework agree once the queue is empty | `LocEngSession` |
| Settings and initialisation, `loc_init`, `loc_eng_reinit`, `configuration_update` | `gps_conf`, servers, lock, capabilities | initialise, update, set servers, network availability, restart | reads without a lock on another thread, put-back of an update | what is set reaches the modem; the lock follows the use; no false capability is told | `LocEngConfig` |
| Engine status, `loc_eng_report_status` | `engine_status`, `fix_session_status`, `mute_session_state`, `aiding_data_for_deletion` | status, privacy override, deletion, engine down | order of statuses and overrides, restart with work pending | muting confined to its session, an engine off is shown off, deletions happen | `LocEngStatus` |
| Network-initiated sessions, `loc_eng_ni.cpp` | two sessions, `rawRequest`, response thread | request, respond, time out, reset | thread against answer against restart | one answer per request, and each request ends | `LocEngNi` |
| Timers, `LocTimer.cpp`, `LocHeap.cpp` | heap of delegates, one kernel timer per container | start, stop, expire | an expiry already queued when its timer is stopped; shared deletion | one callback or a stop that succeeded; no wake-up is lost | `LocTimer`, `TimerService`, `LocHeap` |
| Message queue and threads, `msg_q.c`, `linked_list.c`, `MsgTask`, `LocThread` | list, mutex, condition variable, unblocked flag, reference count | send, receive, unblock, destroy | wake-ups, shutdown | a mailbox that loses, repeats and reorders nothing | `MsgTask`, `LinkedList`, `Mailbox` |
| Location API base and contexts, `src/gps/core` | array of adapters, event mask; two contexts | add, remove, open, close, engine up and down, reports; first requests for a context | the array is walked while it changes, with no lock; who creates what | a listed adapter hears all; wanted events are registered; one task and one context each | `LocApi`, `LocContext` |
| GPS daemon connection, `loc_eng_dmn_conn*` | helper thread, pipes, requests | launch, requests of daemons, responses, end | handshake and end of two threads | the server can end; what a daemon is told is true | `LocEngDmnConn` |
| Reports and NMEA, `loc_eng_nmea.cpp`, `LocEngReportSv/Position` | satellites used, masks, DOP | report satellites, report a position | state kept from one sort of report to the other | flags, masks and sentences agree with the reports | `GnssReports` |
| Assistance, `loc_eng_xtra.cpp` and the injections, measurements | callbacks, servers, registrations | inject, request, servers, certificates, measurements | callback taken away meanwhile, modem restart | measurements flow to who listens; servers in order | `LocEngAssist` |
| XTRA user agent, `LocEngAdapter.cpp` | one line in a file | build, save | encoding within its room; another process reads; crash | the server finds its fields | `XtraUserAgent` |
| HAL entry points, `loc.cpp`, `gps.c` | callbacks, gate on the kind of chip, modes | interfaces, init, cleanup, update, answers | cleanup against reports, update against creation | no interface the chip does not serve; answers reach a machine that waits | `LocHal` |
| Configuration and target, `loc_cfg.cpp`, `loc_target.cpp` | tables, cached kind | read, update, detect | records counted down, time limit | a file is taken over whole; a kind once found stays | `LocCfg` |
| Text helpers, `loc_misc_utils.cpp`, parts of `LocApiBase.cpp` and `CameraParameters.cpp` | none | split, trim, digits, checksum, sizes | edges of the room | parts put together give the whole | `TextHelpers`, `CameraParameters` |
| Audio amplifier, `src/amplifier` | reference counts, chip, clock, writer thread | enable, disable, open, close | handshake with the thread; failures of each step | the chip is on only with its clock, and exactly while used | `Amplifier` |
| Input disabler and gestures, `src/InputDisabler`, `src/lineagehw` | state of the display, of touch screen and keys | broadcasts, sensor events, delayed tasks | order of broadcasts, calls and dozes | who looks at a lit display can touch it | `InputDisabler` |
| Camera HAL wrapper, `src/camera` | strings, callbacks, vendor devices | open, close, parameters, forwarded calls | two cameras share state | settings reach the vendor, closed is released | `CameraWrapper`, `CameraParameters` |
| Lights, sensors, Wi-Fi address | a vendor device, a modem client | open, close, set | opened or initialised twice | served while open; brightness in range | `VendorHelpers` |
| Power hints, touch sensitivity, key disabler | none | one write to a node | none | - | - |
| Boot scripts; shims, headers, overlays, policies, build files | none | none | none | - | - |

The forty hazards the properties are aimed at are in `PROJECT.json`, each at
its line; section 6 lists the deviations met on the way.

## 2. Modules

`MC*` modules give the constants their values and, where several components
share a run, say which of them moves; `*Proofs` modules hold theorems.

    SuplEmergency, AgpsNif, LocEngDmnConn   use  AgpsStateMachine (SM == INSTANCE)
    LocEngNi                             EXTENDS LocEngStatus
    MsgTask, SubscriberList              EXTEND  LinkedList
    MsgTask    implements  Mailbox       (Box == INSTANCE Mailbox WITH ...)
    LocTimer   implements  TimerService  (Service == INSTANCE TimerService WITH ...)
    CameraWrapper, TextHelpers           EXTEND  CameraParameters
    Wrappers                             EXTENDS CameraWrapper, VendorHelpers
    Assistance                           EXTENDS LocEngAssist, XtraUserAgent

Operators named "Slip" in a comment are not part of the model: each is a
plausible mistake in the definition that follows it.  Put in its place it must
break a property, which shows that the property can see that kind of mistake;
section 5 lists them.  A definition whose comment says that it does not hold
is a statement that the code refutes; it is kept beside the properties
because a reader would expect it, and section 6 says why it fails.

**AgpsStateMachine.**  `state` is `mStatePtr`, `subs` the subscriber list,
`inactive` those with `mIsInactive`.  A step is one call (`subscribeRsrc`,
`unsubscribeRsrc`, `onRsrcEvent`, `dropAllSubscribers`) and stands for the
`onRsrcEvent` of the state class the machine is in, with all notifications,
deletions and requests.  What a call emits is in `note` and `req`.
`dataServices` is the class of the object.  `notifySubscribers()` deletes the
subscriber it has matched and goes on searching with a notification that still
points at it; `FreedIds` is the set of identities the freed memory may hold.
The run, the proofs and `LocEngDmnConn` leave it arbitrary; `AgpsNif` and
`SuplEmergency` take `{}`: they show the system while the memory is not reused
for another live subscriber within the loop.

**AgpsNif** and **SuplEmergency.**  The LocEng thread takes the head of `queue`;
each action is the `proc()` of one message with the whole step of the machine
(`SM!...`), the statuses to the modem's clients and the requests made.  The
clients (`phase`), the framework's connection (`conn`) and the data call
(`call`) are outside this repository and modelled from how it uses them.
`SuplEmergency` keeps the order of the list, which `linked_list_search()`
follows, because fallback and retry pick the first one found.

**LocEngSession.**  The framework's calls only post messages, except
`loc_eng_cleanup()`, which looks at the session flag first.  `startFix()` gives
any result that the modem's state allows.  `UlpProxyBase` answers false to
everything in this tree, so its branches are not taken.

**LocEngStatus, LocEngNi.**  The handlers of statuses run on one thread and
their messages come from independent sources, so the queue adds nothing.
`LocEngNi` has the response thread at the grain of its lock: it wakes, reads
the answer, leaves the lock, and clears the session in steps of their own; the
restart takes the request away before it takes the lock, as the code does.

**LocEngConfig.**  The framework's thread changes the settings and posts; the
reinit on the LocEng thread reads the same settings one by one with no lock.
`loc_init()` posts before its end, so what it does after `loc_eng_init()`, up
to telling the ULP of the capabilities, is a step of its own.  `modem` is what
the modem has been told since its start; messages of settings that never change
are left out.

**LocTimer, TimerService, LocHeap.**  Client calls, the message thread with the
container, the polling thread and the kernel's timer each take steps of their
own.  `TimerService` is the promise of `LocTimer.h`; `LocTimer` is checked to
implement it.  `LocHeap` is the binary tree itself, a function from the places
that are taken to their nodes.  The recursions of `push()`, `pop()` and
`remove()` follow one way down the tree each: the way is given by its end
(`DropsTo`, `SwapsDownTo`), and that there is exactly one such end is checked
(`HeapWaysEnd`).

**MsgTask, LinkedList, Mailbox.**  `LinkedList` has head, tail and the links of
both directions, and an operator for each write of an operation that
`SubscriberList` takes apart.  `MsgTask` has the queue's mutex and condition variable at
the grain of locked sections, the thread with its delegate and reference
count, and `destroy()`.  `Mailbox` is a FIFO that can be closed.

**SubscriberList.**  The same list while the timer thread walks it unlocked:
each write of the LocEng thread to the list and each read of the timer thread
is a step, in the order of the source.  That a compiler or a processor may
change that order is not modelled.  `Loose` are the elements that have no way
on for a moment: the one that has become the head and is not linked yet, and
one whose links are cleared before it is freed.

**LocApi, LocContext.**  The array of adapters at the grain of single entries
for the threads that share it; the creation of contexts and task, whose mutex
is a variable.  What the modem library does in `open()` and `close()` is
external.

**LocEngDmnConn.**  Launcher, helper thread, pipes, and the LocEng thread with
two machines, which are `AgpsStateMachine`'s operators.

**GnssReports, LocEngAssist, LocHal, XtraUserAgent, LocCfg, TextHelpers,
Amplifier, InputDisabler, CameraWrapper, CameraParameters, VendorHelpers.**
Each module's head comment says what it leaves out.  `Wrappers` states the
promises of cameras and helpers together, and `Assistance` those of the two sides
of the assistance data: what is asked of the XTRA servers, and the line that names
the phone to them.  `TextHelpers` and
`CameraParameters` are mostly functions, compared with what they are for over
all short inputs.

## 3. Runs

| Run | Subjects | States | Question and result |
|---|---|---|---|
| `agps_machine` | `AgpsStateMachine`, `LocApi` | 1.77 M | Both classes of machine, four subscribers, every order of calls; three adapters for two places: state and list agree, requests follow the transitions, nobody is removed untold; reports reach all who are listed and wanted events are open. |
| `agps_nif` | `AgpsNif` | 40 k | Two clients, crossing answers, a lost network, one restart: open links are counted, nobody waits in Acquired, the link is released only unused, requests and releases are answered. |
| `emergency` | `SuplEmergency` | 49 k | Two clients, failing data services, retries, fallback: no late close is taken for a newer call, the call is stopped only unused, releases are answered and so is a lone client. |
| `emergency_starved` (violation) | `SuplEmergency` | | One failure falls back for the newest client only. |
| `session` | `LocEngSession` | 0.83 M | Periodic sessions and single shots, cleanups, late reports, two restarts: session, modem and framework agree, starts carry criteria, every start is served. |
| `session_orphan` (violation) | `LocEngSession` | | A late final report ends the next session in the flag only. |
| `threads` | `LocEngStatus`, `LocEngNi`, `MsgTask`, `LocContext`, `Amplifier` | 0.14 M | Muting and deletions; one answer per request and an end to each; a task that works as a mailbox and is destroyed at any moment; one task and one context each; the chip with its clock and thread. |
| `ni_stale` (violation) | `LocEngNi` | | After a restart, the old thread answers a new request. |
| `timers` | `LocTimer` | 0.43 M | Delegates are deleted once, no wake-up is lost, and the promise of `LocTimer.h` is kept. |
| `config` | `LocEngConfig` | 2.54 M | Settings reach the modem, lock and capabilities are right, the engine settles. |
| `config_server` (violation) | `LocEngConfig` | | A server set before `loc_init()` is wiped by it. |
| `utilities` | the other components | 0.84 M | Each component in every order of its calls: heap, list, reports, assistance, daemons, files and texts, input, camera and helpers, HAL. |

Components that share no state share a run: the variable `subject` is chosen
initially, and the others stay in one initial state, so that the states add
up and do not multiply.

The properties of a run name their parts.  `StateFollowsList`, `ApiInv`,
`ClientsAreCounted`, `CallIsKnown`, `SessionInv`, `StatusInv`, `NiInv`,
`TaskInv`, `AmpInv`, `TimerInv`, `ConfigInv`, `AssistanceInv`, `DaemonInv`,
`CfgInv`, `InputInv`, `HalInv` and `WrappersInv` are conjunctions of invariants
with a comment each, most of them with a type invariant, and so are
`SubsFollowOrder`, `HeapSound` (the tree of `LocHeap`) and `SentencesInv` (the
reports of `GnssReports`).  `TextsHold` (camera settings, helpers for texts) is
such a conjunction of what takes long to evaluate, looked at while the component
moves.  `MachineSteps` is a conjunction of step formulas: requests to the servicer
follow the state of the machine, and what clients are told follows its list.

### Bounds

- Four subscribers (`agps_machine`): the code distinguishes the caller, the
  other active and the inactive ones; four leave two of a kind in each case.
  Three adapters for an array of two: full, and one refused.
- Two clients in `AgpsNif` and `SuplEmergency`: one to act and one to suffer.
- `MaxInFlight` (4): the modem's new messages and the loss of the network wait
  while that many messages are under way; answers are never held back.  A
  request, a release, a grant and a loss can be under way together.
- `MaxCrashes`: 1, or 2 for a session, where a second restart meets the session
  that the first has resumed; 0 in `session_orphan`, which needs none.
- `MaxRetries` (4): `MAX_START_DATA_CALL_RETRIES`.
- `MaxQueue` (5; 4 in `session_orphan`): stop, mode, start and a report of the
  earlier session fit in together.
- `threads`: three kinds of aiding data (waiting, newly asked, both); two
  network requests and one restart; three messages; three askers; two uses of
  each sound device.
- `timers`: one C++ object and one of the C wrapper, two delegates, a clock up to
  3 and delays of 1 and 2: timers that fall due together and in either order.
- `config`: one parameter, one server type, one host, two calls that change
  something.
- `utilities`: heaps of up to seven nodes with equal ranks; three subscribers;
  reports of none to six satellites with an int of 5 bits (`IntWidth`),
  so that numbers go beyond it, and room for 4; two messages in a pipe; files of
  three lines with a count that wraps at 8; two cameras; texts up to four
  characters over a separator, a blank, a letter and a digit.  Each bound is
  the smallest at which the edge that the code treats separately is met from
  both sides.

### Fairness

Weak fairness of the LocEng thread, of the message and polling threads, and of
the response threads: they block only on an empty queue, a lock that is left,
or a condition that has been signalled.  Weak fairness of the answers of
framework and data services and of timers and time: the code sets no timeout
on them and could not work without.  Weak fairness of a crashed modem coming
back, and of an update or a `loc_init()` that has begun going on.  No fairness of anything that
user, framework or the modem's clients start, nor of losses, restarts or
reports.

`CHECK_DEADLOCK FALSE` stands in the runs whose systems stop by design: each
emergency handle is used once, a destroyed task is gone, an amplifier may hang
on a failed interface (section 6), and bounded calls run out.

## 4. Proofs

The theorems hold for every value of the constants: any set of clients,
elements, aiding data or settings, any bound on queues, calls and restarts.
What they assume of the constants is named and stands in the module that
declares them: numbers are numbers, the sets that the code's arrays and tables
stand for are finite, and the values that mean "nothing" (`Null`, `None`) are
none of the values that mean something.

| Module | About | Theorems that state a checked property |
|---|---|---|
| `AgpsStateMachineProofs` | `AgpsStateMachine` | `StateFollows`, `StepsFollow` |
| `AgpsNifProofs` | `AgpsNif` | `ClientsCounted`, `SettledAgree`, `ReleasedWhenUnused` |
| `LocEngSessionProofs` | `LocEngSession` | `SessionHolds`, `SessionsSettle`, `CriteriaCarried` |
| `ThreadsProofs` | `LinkedList`, `SubscriberList`, `MsgTask`, `Mailbox`, `LocEngStatus`, `LocEngNi`, `LocHeap` | `OrderFollowed`, `StayingIsFound`, `TaskSound`, `TaskIsMailbox`, `StatusHolds`, `NiSound`, `HeapIsSound`, `HeapStepsHold` |
| `SuplEmergencyProofs` | `SuplEmergency` | `CallKnown`, `CallFollows` |
| `CoreProofs` | `LocContext`, `LocApi`, `LocTimer`, `TimerService`, `Amplifier` | `ContextsShared`, `ApiSound`, `TimersSound`, `WakeUpKept`, `AmpSound` |
| `LocEngConfigProofs` | `LocEngConfig` | `ConfigSound`, `SettingsReach` |
| `UtilitiesProofs` | `InputDisabler`, `LocHal`, `LocEngDmnConn`, `Assistance`, `LocCfg`, `Wrappers`, `GnssReports` | `InputSound`, `HalSound`, `DaemonSound`, `AssistanceHolds`, `CfgSound`, `WrappersSound`, `SentencesHold` |

Hardly any invariant is inductive as it stands.  What each needs besides, and
why:

**The AGPS machine.**  An unsubscribe in Pending goes to Released or to
Releasing according to whether the list is empty, so "Released means empty" of
the base machine needs "the base machine has no inactive subscriber", and that
a grant finds an active one needs the same of the states before
(`BaseHasNoInactive`, `ReleasedIsEmpty`, `ReleasingAwaitsClose`,
`EngagedHasActive`).  `RequestsFollow`, `RemovalIsTold` and `GrantedActive` are
step formulas that follow from the invariant, and are put together in
`StepsFollow`.  The only assumption is that
`FreedIds` are identities of subscribers.

**The SUPL interface.**  That a client with an open link is counted depends on
the order of that client's messages in the queue: its request comes before its
release (`RequestsComeFirst`), a request in the queue is of a client that
waits (`RequestedIsNew`), one that is idle is on no list and in no message
(`IdleIsForgotten`), after a restart an engine-up message follows
(`DownTillUp`), and whoever waits in Pending is owed an answer by the
framework (`PendingIsAnswered`, `HeldOrLost`).

**The emergency call.**  The machine learns what became of the data call from
the queue, and by then client and timer may have moved on.  `CallFits` pairs
each state of the call with the machine's, with the news in the queue between
them: at most one of each kind, the start before the end (`InTurn`), and while
the end is in the queue no newer call is made.  `LeaversGaveUp` says that
a client whose close is awaited, or whose release is in the queue, has asked
for no link since, so that whoever leaves last leaves no user behind.  The
retries need no bound.
The list's order, which says who is told first, is a recursive function
(`Within`); what it selects is proved with `LeastNumber`.

**The session.**  The queue's messages act on a session flag that later calls
have already counted on.  `SessionIInv` says, for each place in the queue,
which session its message will find (`StartsFit`, `CallsFit`, `ServedFits`):
posting at the tail and taking the head keep it, and with an empty queue it
says that flag, modem and framework agree.  `PeriodicHasNoOrphan` needs its
hypothesis: `session_orphan` breaks the statement for single shots.

**Status and NI.**  `StatusInv` is inductive part by part; `OffIsShown` rests on
the order inside `loc_eng_report_status()`, which ends the muting before it
tells the status.  Of the NI sessions, an accepted answer is either still in
the session, in the hand of a thread that is awake, or given: `AcceptsAddUp`
counts them, `RequestsAreOnce` and `SpeakersAreAwake` keep the counts apart.

**The list.**  `IsList(l, q)` relates a list, with its head, tail and links in
both directions, to the sequence `q` of its elements.  Each operation of
`linked_list.c` is shown to be one on the sequence; for a walk along the links
this takes `LeastNumber`, since the model takes the shortest way to an element.
Between the writes of an operation the list is no `IsList`: `ListComes` says
that the writes still to come make it one, and `FlushLeads` what a flush has
left.  What a walk needs of it at any moment is `LinksLead`: an element that has
a way on leads to the next of the order, past the one that goes.  `SubsIInv` adds
that a walk's cursor is ahead of everything it has passed (`WalkIsAhead`), from
which follows that whoever stays on the list is found, unless the walk has
read a freed element or one of `Loose`.

**The message task.**  `TaskIInv`: the queue is a list, the thread that sleeps
on the condition variable sleeps over an empty and unblocked queue
(`NobodyOversleeps`), and delegate and reference count go together.
`TaskIsMailbox` is the refinement of `Mailbox`: with the sequence that `IsList`
gives as the mailbox's contents, each step sends, receives, closes or
stutters.

**The heap.**  `IsHeap` says that the places are a tree (`IsTree`), that each
node counts its subtree (`Sized`), that none outranks a node above it
(`Ordered`) and that no object is at two places (`Different`); `HeapInv` adds
that the objects are the members and that the top counts them.  A push hands an
object on from node to node: what arrives after `n` turns is a recursive
function, so a fact about it is carried along the way from its first
exception (`UpToNumber`, `HandedOn`), and `Cascade` says that what each node
keeps is not outranked by what it hands on.  A pop moves the way's objects up by
one (`ComesFrom`).  That the ways end, and at one place (`PushEnds`,
`PopEnds`), takes a longest place of a finite tree.  `remove()` cuts the search
below nodes that the object outranks; `RemoveFinds` shows from the order that it
loses nothing by that.

**The timers.**  `TimerIInv` relates the heap, the soonest time, the kernel's
timer and the expiries under way between the two threads (`TopFits`,
`KernelFits`, `ExpiryFits`), and a delegate to the one place that will delete
it (`OnceFits`, `QueueFits`).  `TimersAreService` is the safety part of the
refinement of `TimerService`; the fairness part of `KeepsPromise` is left to
TLC.

**Contexts, amplifier, adapters.**  `ContextIInv` is a mutual exclusion: one
thread is inside, what it has seen is still true, and what the earlier ones
made is there.  `AmpIInv` follows the handshake of the caller with the writer's
thread through chip, clock and power.  `ApiIInv` holds as long as no addition
has crossed a removal (`~crossed`), which is the hypothesis under which
`EventsAreOpen` and the walk's promise hold in the code (section 6).

**The settings.**  `ConfigIInv` says of each setting where its newest value is:
in the modem, in the last message about it in the queue, or due because a
reinit or an update that has begun has not passed it yet (`SettingsFit`).  A
reinit's remaining job fits the settings that changed since (`JobFits`); a
modem that restarts is followed by the message that sets it up again
(`LinkFits`); a lock that does not fit the use is followed by one that does
(`LockFits`); and capabilities are told only behind the modem's answer
(`CapsFit`).  It assumes that the names of the settings are not those of the
other messages (`Orders`).  What the ULP is told
is right but for MEASUREMENTS, which the modem's answer may add later.

**The input disabler.**  `LitScreenAnswers` looks ahead to the end of the
broadcasts: `LightArrives` says that a lit display has been heard of or is
the last news on its way, `LightIsLast` that no darker one follows, and
`RestsUnstarted` what holds before the service runs.

**The HAL's entry points.**  The capabilities that count are those after the
update that is under way (`SettledCaps`): they fit the chip
(`CapsFitTheChip`), and so do the interfaces that were made of them
(`NifsFitTheCaps`).  `FilesComeFirst` says that nothing is made before
`gps.conf` was read; `AnswersFit` and `CallbacksFit` say what a message in the
inbox and a callback that was found stand for.

**The server of the daemons.**  `ThreadsFit` pairs the places of owner and
helper thread; `EndComes` says that a server which is to end, and whose owner
waits for that, has a message left to read; `TruthFits` relates what was
told last, and what is about to be, to the machine and its list.

**Assistance.**  `FlowComes` is about the order of the queue: while the
framework listens, each message that ends the measurements is followed by one
that begins them (`Followed`); a modem that is linked and does not measure has one
of these, or the message that opens it anew, still before it (`Has`), and one
that came back and is not linked yet has that message before it.
That the servers keep their order is a fact of three steps (`UsableInOrder`),
each of which leaves one server out or puts it, empty or not, last
(`ForwardsOneMore`).

**Reports.**  What a sentence says depends on the last report of the other kind.
`ReportsIInv` says that the masks of a report name only satellites that the
framework was told are used, that nothing in a mask has been named yet, that
a DOP in the cache was not used, and that without sentences there are no masks.
That each satellite in view is shown once is a fact about the loop that cuts the
list into sentences: `PickedStretch` says that a pick of neighbouring places is a
stretch of the list, `StretchesFlatten` that the stretches, put together, give the
list back.  `SatellitesAssumption` says of the numbers of GPS and GLONASS what
`GPS_SV_PRN_MIN`, `GPS_SV_PRN_MAX`, `GLO_SV_PRN_MIN` and `GLO_SV_PRN_MAX` do
(`gps_extended_c.h:247-250`), on which the flags of the fix depend.

**User agent.**  `AgentIInv` follows a save: what is to be saved names the phone
as it is, the file is empty before the write, and holds the whole line before
`chmod()`.  That the server reads the fields is a fact of the functions that make
the line.  An encoding, the fields and the line are each put together piece by
piece: `PartsArePlaced` says where each piece lies, from which follow that the
slashes of the line are those between the fields (`SlashedIsCut`, `FieldsFound`)
and, character by character, that decoding undoes encoding (`DecodeEncoding`).
A field that was cut is the encoding of a beginning (`EncodeStops`), and a line
that leaves two more places was not (`NotCut`).  It assumes that the properties
are texts; the serial number is not encoded, so it must have no slash in it, nor a
"#", which could not be told from a blank.

**Configuration files.**  A property of whole texts is proved by an invariant on
the lines read so far: `ReadSoFar` says that values and marks are what these
lines say, by the last that names a record, and `CountFits` that the records left
and the lines that filled one add up to the table.  When reading stops with
no record left, the lines so far have filled as many as the whole text does, so
that the rest says nothing of the table (`RestSaysNothing`).  It assumes that
both tables are finite and shorter than the counter is wide.

**Wrappers.**  `AloneIsSafe` holds of the cameras while no two were open at a
time: one camera, its strings live, its callbacks its own.  `CancelsFit` is
the window of `camera_cancel_auto_focus()`.  Of the sensors, a device that is
live has one user while nobody has opened over it (`SensorsFit`); the modem's
clients are counted likewise (`ModemFits`); that the brightness is a byte and grows is arithmetic on
a weighted sum (`WeightFits`, `ShareGrows`).

Only model-checked:

- liveness (`RequestsAnswered`, `ClientsAnswered`, `StartsAreServed`,
  `RequestsEnd`, `TaskGoesOn`, `EngineSettles`, the fairness of
  `KeepsPromise`): it rests on fairness and ENABLED, which the prover does not
  reason about;
- `TextHelpers`, which uses `Bitwise` for the checksum;
- the settings of a camera (`SettingsReachVendor`), whose text is written in any
  order of its keys by a fold over a set and parsed by a fold over a sequence.

## 5. What the properties can see

Besides the mutant of each property that `PROJECT.json` lists, these slips break
the part named after them:

| Slip | Breaks |
|---|---|
| AgpsStateMachine `LeaveTwice`, `DropAllTellActive` / `ReleaseAtFirstLeave` / `DropNobody` / `ReleaseKeepsInactive` | `NotesFollowList` / `RequestsFollowState` / `ReleasedIsEmpty` / `StateFollowsList` |
| LocApi `EngineUpTellsOnly` | `EventsAreOpen` |
| LocEngSession `StartFixStrict` | `SessionFollowsCalls` |
| LocEngStatus `UpdateKeepsMask`, `UpdateOnlyWhenOff` / `TellThenSwitch` | `DeletionWaitsForOff` / `EngineOffIsShown` |
| LocEngNi `ThreadWakesKeepsRequest` | `AnsweredOnce`, `RequestsEnd` |
| MsgTask `InitCountsOne` / `WaitsUnlessFilled` / `SndWithoutSignal` | `DelegateOutlivesBoth` / `DestroyEnds` / `NobodyOversleeps`, `MessagesLeave` |
| LinkedList `RemoveTailKeepsHead` / `CutNextLoses` / `CutPrevKeepsTail` | `LinksAgree` / `WalkFinds` / `SubsFollowOrder` |
| LocTimer `UpdateSoonestTimeUnlessNew` | `WakeUpIsSet` |
| LocEngConfig `StartJobTellingAtOnce` | `CapabilitiesAreTrue` |
| GnssReports `FullSentences` / `ShiftedFromZero` | `EverySatelliteInView` / `FlagsMatchTheFix` |
| LocEngAssist `MeasurementInitKeepsQuiet` / `UsableInPlace` | `MeasurementsFlow` / `ServersInOrder` |
| LocEngDmnConn `UnblockMessageFirst` | `ServerCanEnd` |
| LocHal `GetInterfaceOfGss`, `UpdateEndsUnrestored` | `ModesFitTheChip` |
| XtraUserAgent `EncodeCutting`, `SerialWithBlanks` | `FieldsAreRead` |
| CameraWrapper `FindsAnyPreview` | `CancelNeedsPreview` |
| TextHelpers `SplitKeepingRest` | `SplitsAtDelimiters` |
| VendorHelpers `SensorsOpenAgain` / `BrightnessOfBlue` / `DeinitStrictly` | `SensorsServe` / `BrightnessFits` / `AddressClientIsKnown` |

## 6. Findings and deviations

The four violation runs are findings, quoted with their lines in
`PROJECT.json`.  The models contain the following deviations too, each as the
code has it; the name in brackets is the definition that they refute or the one
that names them as an exception.

**AGPS and emergency.**
A DENIED that crosses a release and a new request is taken for the answer to
the new one, and the framework then brings up a connection for nobody
(`loc_eng_agps.cpp:296-302`).  A restart flushes the clients and keeps the
connection (`loc_eng.cpp:2977`; [`AcquiredIsWanted`]).  The freed
notification may match, and close, another client (`loc_eng_agps.cpp:729`;
[`UnsubscribeIsPrivate`]).  A handle that subscribes again while its inactive
entry waits for the close is told GRANTED and stays inactive
(`loc_eng_agps.cpp:435`).  A walk of the retry timer that meets the new head
before it is linked, or an element whose links were just cleared, ends there
and misses who stays on the list (`linked_list.c:141-143`, 310;
[`WalkNeverMisses`]).  A client that fell back stays on a list that "should
really be empty" (288-294).  `mRetries` is not reset by a success; Releasing goes
to Pending whatever `sendRsrcRequest()` returns (560).  The test of
`loc_timer_start()` is inverted (885), which only affects the log.
`agps_open` with no APN returns with no message (`loc_eng.cpp:2507-2511`).

**Session and status.**
A cleanup that overtakes the queued start stops nothing
[`CleanupEndsSession`].  A restart hands the modem the INVALID mode it has just
written [`StartsWithCriteria`]; a single-shot start may go out with it after a
late report.  A single shot's final fix that is muted leaves the session flag.
A second deletion request replaces the waiting mask (`loc_eng.cpp:1371`);
`loc_eng_handle_engine_down()` does not carry out the deletion that waits
(2964); a second privacy override un-mutes the rest of a session (2114).

**Settings.**
A reinit may post a value after the framework has posted a newer one (1889 and
1935 against 2774 and 2842).  The put-back of an update may lose the modem's
MEASUREMENTS and show transient capabilities (2836, 2868).  The ULP is told of
the capabilities before the modem's answer adds MEASUREMENTS, and again only
when an update changes `SUPL_MODE` or `loc_init()` is called again (`loc.cpp:327`,
`loc_eng.cpp:1716`; [`UlpKnowsMeasurements`]).  A lock message lost
in a restart is never repeated.  Availability with no APN is not passed on, and
a restart loses the APN (1935).  Servers are not sent again if `agps_init()` was
never called.  `LocEngSuplMode` carries a pointer that `setUlpProxy()` may delete
(2852).  An unknown server type overwrites the SUPL server (`loc.cpp:840`).

**Network-initiated sessions.**  Stale answers [`AnswerIsForRequest`]; the reset
frees the request before it takes the lock (`loc_eng_ni.cpp:282`); `reqID` is
cleared after the lock (260).

**Timers and threads.**
The kernel timer is not disarmed when the last timer is removed, and the first
of an expiry is popped whatever it is [`NeverEarly`, `LocTimer.cpp:365-368`].
The wrapper may be used after its deletion.  Messages that an unblocked queue
refuses leak, as does a task stopped before its thread begins
(`LocThread.cpp:135`).  A task is deleted by its thread while its owner is still
in `destroy()` [`TaskOutlivesDestroy`, `MsgTask.h:56`]; nothing in this tree
calls it.

**Adapters and contexts.**
An adapter added during a removal is lost, and a walk during a removal may miss
one (`LocApiBase.cpp:178-195`); the last one's `close()` may come after another
was added; `open()` never removes events, though the comment says "we need to
remove the bit" [`NothingElseIsOpen`].  Only `LocEngAdapter` is ever added in
this tree.  A v02 library that is present but unusable keeps RPC from being
tried.

**Daemons.**
The launcher waits once and not in a loop, and is not told of a pipe that cannot
be opened [`LaunchIsReady`]; after the server has ended by itself, the owner's
last message [`NothingIsMissed`] and late responses [`NothingGoesAstray`] go to a
number that is closed; Wi-Fi requests are answered to the
modem, never to the daemon (`loc_eng.cpp:1296`; [`WifiIsAnswered`]).  An
unreadable message ends the server though the log says retry.  A release of an
unknown address gets no answer (1079).  `BITSubscriber::equals` compares IPv6
addresses with `strncmp` (`loc_eng_agps.cpp:112`).  Nothing in this tree
launches the server.

**HAL entry points.**
The framework's answers carry the SUPL type, so those who wait at the internet
machine are not answered [`InternetIsAnswered`]; a machine that was not created
is used through NULL (`loc_eng.cpp:1526-1529`; [`NobodyCallsNull`]); the adapter
is used before it is tested (`loc.cpp:321`); interfaces that are asked for
during an update may be made of the modes it writes for a moment (`loc.cpp:1057`;
`exposed`); callbacks of NI stay after a cleanup.

**Reports and assistance.**
Used flags beyond the width of an int are wrong (`loc_eng.cpp:917`;
[`AllFlagsMatchTheFix`]).  The magnetic deviation of VTG is never applied
(shadowed variable, `loc_eng_nmea.cpp:320-330`); minutes may round to 60; blank
sentences keep the masks and clear the DOP; the modem's own NMEA passes while
muted (`loc_eng.cpp:973`); `getZpp` reports an uninitialised location when it
fails (2284-2306).  Measurements may be registered in vain, or their callback
found gone [`NobodyMeasuresInVain`, `CallbackIsThere`].  A server the modem does
not name takes a slot like any other, so an empty slot may come before a used one
(`loc_eng.cpp:1019-1029`; [`SlotsFillUp`]).  Data injected while the
modem is down is lost, though `loc_eng_xtra.cpp:150` promises buffering.

**Files and texts.**
An update that names every parameter loses the last [`UpdateIsWhole`];
repeated names end a read early; the QCA1530 is given up after 15 seconds and
for ever, though the comment says it waits [`DetectionIsAwaited`,
`loc_target.cpp:92-103`].  The user agent's serial number is not encoded, a
serial of blanks reads before its buffer (`LocEngAdapter.cpp:199`), and the line
is lost in a crash between truncation and write [`LineIsNotLost`].
A text of blanks only is not trimmed, though `loc_misc_utils.h` promises that
leading and trailing blanks go [`BlanksAreTrimmed`]; a split into no places writes one; a checksum for which
there is no room is counted [`LengthIsWritten`].

**Amplifier, input, camera, helpers.**
Two modes share the chip, and the end of one switches it off
(`amplifier.c:101`; [`UsedMeansOn`]).  When the interface fails, the writer
returns without a signal and the caller hangs (`tfa.c:84-87`; [`NobodyHangs`]).
`tfa_power()` fails on any result that is not zero and `tfa_device_open()` on a
negative one: after a positive one the device opens with the chip on, known as
off (`tfa.c:217-304`; [`OpensSwitchedOff`]).
`clock_enabled` is read uninitialised (286), and `amp_dev` stays set after a
close.  The end of a call switches the touch screen on while the display is dark
[`DarkScreenIsDeaf`]; an older doze task ends a newer doze.  Two cameras share
strings and callbacks [`StringsAreFreedOnce`]; `camera_release` writes through
NULL (`CameraWrapper.cpp:510`), and a camera that was released is released again
at its close [`ReleasedOnce`]; a sensitivity is read back as a number that is
not offered [`ReadBackIsOffered`]; `cancel_auto_focus` tests and then calls
[`CancelIsNeverLate`]; an index one past the last camera is let in (598).
`mParams` of `CameraParameters` is never set (660-699).  A second open of the
sensors frees the first user's device [`SensorsAreShared`], and a close hands the
wrapper's own device to the vendor's `close()` and only frees the vendor's
(`sensorswrapper.c:60-61`; [`SensorsAreClosed`]); weak colours light
the buttons and not the backlight [`LitIsBright`]; `wcnss_init_qmi` twice leaks a
client.

## 7. Not modelled, and why

Of the modelled components:

- the APN, bearer and addresses of the SUPL interface; the internet interface
  by itself (a second instance of the same class); `WIFISubscriber`, which is
  never constructed; the machines' destructor;
- what the framework is told of the begin and end of a session;
- the default implementations of `LocApiBase` (they log), the power vote of the
  QCA1530 chip, the table of `gps.c`;
- the formatting of numbers in the sentences, logging and name tables;
- the getters and setters of single parameters of `CameraParameters`, which are
  `set()` and `get()` with a fixed name.

Left out altogether: power hints, touch sensitivity and the key disabler (one
write to one node each); boot scripts (settings written once); shims, headers
(`ril.h` alone has 7,473 lines of declarations), overlays, policies, resources
and makefiles (no behaviour over time).

The definitions stand for about 30 % of the lines of implementation.  Of the
rest, the largest parts are the headers (about a third of all lines), logging,
comments and the forwarding of calls.

## 8. Plan

What is left is to prove more of what is checked:

1. `CameraWrapper`: that the settings reach the vendor, from a lemma that parsing
   undoes writing for any order of the keys.
2. `TextHelpers`: the helpers without the checksum, in a module that does not
   reach `Bitwise`.
3. Of `AgpsNif` and `LocEngConfig`, the step from "once the queue is empty" to what
   holds with each message under way, as `LocEngSession` has it.

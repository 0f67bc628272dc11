---------------------------- MODULE LocEngDmnConn ----------------------------
(***************************************************************************)
(* The server for the GPS daemons (loc_eng_dmn_conn*.c, .cpp): its thread, *)
(* the thread that launches, unblocks and joins it, the daemons that ask   *)
(* for interfaces through a named pipe, and the LocEng thread, which works *)
(* their requests off and writes the responses.                            *)
(*                                                                         *)
(* A message goes through the pipe whole; "BROKEN" is one that cannot be   *)
(* read.  thread_ready is read and written under a mutex, thread_exit is   *)
(* not.  The two machines exist (see LocHal for when) and have no other    *)
(* subscribers; the framework answers the SUPL machine only (LocHal).  In  *)
(* this tree nobody launches the server.                                   *)
(***************************************************************************)
EXTENDS Naturals, Sequences

CONSTANTS
  Addresses,    \* what tells one BIT subscriber from another
  DmnMessages,  \* what the daemons send
  MaxPipe,      \* bound: messages in the pipe
  MaxMessages   \* bound: messages of the daemons

VARIABLES
  owner,         \* who launches the server, and where
  server,        \* its thread, and where
  thread_ready, thread_exit,
  signalled,     \* has the condition variable woken the owner?
  pipe,          \* loc_api_server_msgqid
  open,          \* are the pipes there?
  received,      \* messages of the daemons so far
  spurious,      \* history: did the owner wake without a signal?
  missed,        \* history: was a message sent to a pipe that is gone?
  posted,        \* messages for the LocEng thread
  supl, suplBits,          \* agnss_nif: its state and its BIT subscribers
  internet, internetBits,  \* internet_nif
  toWrite,       \* notifications that the LocEng thread has still to write
  nifReq,        \* what the framework was asked for last
  lastTold,      \* the last response in the pipe of each sender
  modemTold,     \* handles that the modem was told of a failure for
  unanswered,   \* history: addresses with a request at the SUPL machine that has no response
  flushed,       \* history: has a restart of the modem emptied the machines?
  astray         \* history: was a response written to the number of a closed pipe?

Senders  == {"QUIPC", "MSAPM", "MSAPU", "DAEMON"}
IfTypes  == {"SUPL", "WIFI", "ANY"}
Ctrls    == [kind : {"REQUEST", "RELEASE"}, sender : Senders \cup {"OTHER"}, type : IfTypes \cup {"OTHER"}, address : Addresses]
Unblocks == [kind |-> "UNBLOCK"]
Broken   == [kind |-> "BROKEN"]

ASSUME DmnAssumption == MaxPipe \in Nat \ {0} /\ MaxMessages \in Nat /\ DmnMessages \subseteq Ctrls \cup {Unblocks, Broken}

helper   == <<thread_ready, thread_exit, signalled>>
queues   == <<pipe, open, received>>
past     == <<spurious, missed>>
dmnMachines == <<supl, suplBits, internet, internetBits, toWrite, nifReq>>
responses == <<lastTold, modemTold, unanswered, flushed, astray>>
engine   == <<posted, dmnMachines, responses>>
dmnVars  == <<owner, server, helper, queues, past, engine>>

DmnInit ==
  /\ owner = "idle" /\ server = "none"
  /\ thread_ready = FALSE /\ thread_exit = FALSE /\ signalled = FALSE
  /\ pipe = <<>> /\ open = FALSE /\ received = 0
  /\ spurious = FALSE /\ missed = FALSE
  /\ posted = <<>> /\ supl = "Released" /\ suplBits = {} /\ internet = "Released" /\ internetBits = {}
  /\ toWrite = {} /\ nifReq = "NONE"
  /\ lastTold = [s \in Senders |-> "none"] /\ modemTold = {}
  /\ unanswered = {} /\ flushed = FALSE /\ astray = FALSE

-----------------------------------------------------------------------------
(* The owner. *)

\* loc_eng_dmn_conn_launch_thelper() makes the thread, unless that fails, ...
Launch ==
  /\ owner = "idle"
  /\ thread_ready' = FALSE /\ thread_exit' = FALSE /\ signalled' = FALSE
  /\ \/ owner' = "launching" /\ server' = "starting"
     \/ owner' = "failed" /\ UNCHANGED server
  /\ UNCHANGED <<queues, past, engine>>

\* ... and waits for it (thelper_signal_wait()), once: a wait may end for no
\* reason.
SignalWait ==
  /\ owner = "launching"
  /\ owner' = IF thread_exit THEN "failed" ELSE IF thread_ready THEN "launched" ELSE "waiting"
  /\ UNCHANGED <<server, helper, queues, past, engine>>

Wakes ==
  /\ owner = "waiting"
  /\ owner' = IF thread_exit THEN "failed" ELSE "launched"
  /\ spurious' = ~signalled
  /\ UNCHANGED <<server, helper, queues, missed, engine>>

\* Slip: the message first, then the flag.
UnblockMessageFirst ==
  \/ /\ owner = "launched" /\ owner' = "unblocking"
     /\ IF open THEN Len(pipe) < MaxPipe /\ pipe' = Append(pipe, Unblocks) ELSE UNCHANGED pipe
     /\ UNCHANGED <<server, helper, open, received, past, engine>>
  \/ /\ owner = "unblocking" /\ owner' = "joining"
     /\ thread_exit' = TRUE
     /\ UNCHANGED <<server, thread_ready, signalled, queues, past, engine>>

\* loc_eng_dmn_conn_loc_api_server_unblock() sets the flag and sends a message to
\* a thread that may be reading.
Unblock ==
  \/ /\ owner = "launched" /\ owner' = "unblocking"
     /\ thread_exit' = TRUE
     /\ UNCHANGED <<server, thread_ready, signalled, queues, past, engine>>
  \/ /\ owner = "unblocking" /\ owner' = "joining"
     /\ IF open
          THEN Len(pipe) < MaxPipe /\ pipe' = Append(pipe, Unblocks) /\ UNCHANGED missed
          ELSE missed' = TRUE /\ UNCHANGED pipe
     /\ UNCHANGED <<server, helper, open, received, spurious, engine>>

\* loc_eng_dmn_conn_join_thelper()
Join ==
  /\ owner = "joining" /\ server = "gone" /\ owner' = "joined"
  /\ UNCHANGED <<server, helper, queues, past, engine>>

-----------------------------------------------------------------------------
(* The server: thelper_main(). *)

\* loc_eng_dmn_conn_glue_pipeget() and piperemove(): the numbers of the pipes stay in
\* static variables.
PipeGet    == open' \in BOOLEAN /\ UNCHANGED pipe
PipeRemove == open' = FALSE /\ pipe' = <<>>

\* loc_api_server_proc_init() opens the pipes, and reports no failure.
ProcInit ==
  /\ server = "starting" /\ server' = "initialised"
  /\ PipeGet
  /\ UNCHANGED <<owner, helper, received, past, engine>>

\* thelper_signal_ready()
Ready ==
  /\ server = "initialised" /\ server' = "looping"
  /\ thread_ready' = TRUE /\ signalled' = (owner = "waiting")
  /\ UNCHANGED <<owner, thread_exit, queues, past, engine>>

\* loc_api_server_proc() hands a message on, if it knows its sender and its type.
\* After a message that it cannot read it gives up, though it says "retry later".
Handled(msg) ==
  IF msg \in Ctrls /\ msg.sender # "OTHER" /\ msg.type # "OTHER" THEN <<msg>> ELSE <<>>

Proc ==
  /\ server = "looping" /\ pipe # <<>>
  /\ pipe' = Tail(pipe) /\ server' = "testing"
  /\ posted' = posted \o Handled(Head(pipe))
  /\ thread_exit' = (thread_exit \/ Head(pipe) = Broken)
  /\ UNCHANGED <<owner, thread_ready, signalled, open, received, past, dmnMachines, responses>>

\* The same where the pipe could not be opened.
ProcFails ==
  /\ server = "looping" /\ ~open
  /\ server' = "testing" /\ thread_exit' = TRUE
  /\ UNCHANGED <<owner, thread_ready, signalled, queues, past, engine>>

LoopTest ==
  /\ server = "testing"
  /\ server' = IF thread_exit THEN "leaving" ELSE "looping"
  /\ UNCHANGED <<owner, helper, queues, past, engine>>

\* loc_api_server_proc_post()
ProcPost ==
  /\ server = "leaving" /\ server' = "gone"
  /\ PipeRemove
  /\ UNCHANGED <<owner, helper, received, past, engine>>

DaemonSends(msg) ==
  /\ open /\ Len(pipe) < MaxPipe - 1 /\ received < MaxMessages
  /\ received' = received + 1 /\ pipe' = Append(pipe, msg)
  /\ UNCHANGED <<owner, server, helper, open, past, engine>>

-----------------------------------------------------------------------------
(* The LocEng thread, which writes what one message has brought about      *)
(* before it takes another: a full pipe keeps it.                          *)

Supl == INSTANCE AgpsStateMachine WITH Subscribers <- Addresses, FreedIds <- Addresses, dataServices <- FALSE,
          state <- supl, subs <- suplBits, inactive <- {}, note <- toWrite, req <- nifReq
Internet == INSTANCE AgpsStateMachine WITH Subscribers <- Addresses, FreedIds <- Addresses, dataServices <- FALSE,
          state <- internet, subs <- internetBits, inactive <- {}, note <- toWrite, req <- nifReq

suplNif     == <<supl, suplBits>>
internetNif == <<internet, internetBits>>

\* LocEngReqRelWifi: a request and a release alike are a failure, told to the modem.
ReqRelWifi(msg) ==
  /\ msg.sender # "DAEMON" /\ modemTold' = modemTold \cup {msg.sender}
  /\ UNCHANGED <<dmnMachines, lastTold, unanswered>>

\* LocEngReqRelBIT: the machine that getAgpsStateMachine() has for the type; nobody
\* looks whether it knew the subscriber.
ReqRelBIT(msg) ==
  /\ msg.sender = "DAEMON" /\ UNCHANGED <<lastTold, modemTold>>
  /\ \/ /\ msg.type = "SUPL" /\ UNCHANGED internetNif
        /\ \/ msg.kind = "REQUEST" /\ Supl!SubscribeRsrc(msg.address, TRUE) /\ unanswered' = unanswered \cup {msg.address}
           \/ msg.kind = "RELEASE" /\ Supl!UnsubscribeRsrc(msg.address) /\ UNCHANGED unanswered
           \/ msg.kind = "RELEASE" /\ msg.address \notin suplBits /\ UNCHANGED <<suplNif, toWrite, nifReq, unanswered>>
     \/ /\ msg.type # "SUPL" /\ UNCHANGED <<suplNif, unanswered>>
        /\ \/ msg.kind = "REQUEST" /\ Internet!SubscribeRsrc(msg.address, TRUE)
           \/ msg.kind = "RELEASE" /\ Internet!UnsubscribeRsrc(msg.address)
           \/ msg.kind = "RELEASE" /\ msg.address \notin internetBits /\ UNCHANGED <<internetNif, toWrite, nifReq>>

TakesRequest ==
  /\ toWrite = {} /\ posted # <<>> /\ posted' = Tail(posted)
  /\ ReqRelWifi(Head(posted)) \/ ReqRelBIT(Head(posted))
  /\ UNCHANGED <<owner, server, helper, queues, past, flushed, astray>>

\* Slip: a denial answered as a grant is.
GladResult(status) == IF status \in {"GRANTED", "DENIED"} THEN "REQUEST_SUCCESS" ELSE "RELEASE_SUCCESS"

\* BITSubscriber::notifyRsrcStatus()
Result(status) ==
  CASE status \in {"UNSUBSCRIBE", "RELEASED"} -> "RELEASE_SUCCESS"
    [] status = "DENIED" -> "FAILURE"
    [] status = "GRANTED" -> "REQUEST_SUCCESS"

\* loc_eng_dmn_conn_loc_api_server_data_conn(): the pipe of the sender, or what has
\* its number now.
DataConn(sender, result) ==
  IF open THEN lastTold' = [lastTold EXCEPT ![sender] = result] /\ UNCHANGED astray
  ELSE astray' = TRUE /\ UNCHANGED lastTold

WritesResponse(n) ==
  /\ n \in toWrite /\ toWrite' = toWrite \ {n}
  /\ DataConn("DAEMON", Result(n[2]))
  /\ unanswered' = unanswered \ {n[1]}
  /\ UNCHANGED <<owner, server, helper, queues, past, posted, suplNif, internetNif, nifReq, modemTold, flushed>>

FrameworkSays(e) ==
  /\ toWrite = {} /\ Supl!OnRsrcEvent(e)
  /\ UNCHANGED <<owner, server, helper, queues, past, posted, internetNif, responses>>

\* The modem is back: the machines forget their subscribers.
EngineUpDropsAll ==
  /\ toWrite = {} /\ ~flushed /\ flushed' = TRUE
  /\ Supl!DropAllSubscribers /\ internetBits' = {} /\ UNCHANGED internet
  /\ UNCHANGED <<owner, server, helper, queues, past, posted, lastTold, modemTold, unanswered, astray>>

DmnNext ==
  \/ Launch \/ SignalWait \/ Wakes \/ Unblock \/ Join
  \/ ProcInit \/ Ready \/ Proc \/ ProcFails \/ LoopTest \/ ProcPost
  \/ \E msg \in DmnMessages : DaemonSends(msg)
  \/ TakesRequest \/ \E n \in toWrite : WritesResponse(n)
  \/ \E e \in Supl!Events : FrameworkSays(e)
  \/ EngineUpDropsAll

DmnSpec == DmnInit /\ [][DmnNext]_dmnVars

-----------------------------------------------------------------------------
(* Properties. *)

\* Nobody waits for ever: the owner sleeps only while the server has still to
\* wake it, and a server that is to end never blocks on an empty pipe once the
\* owner waits for its end.  After a launch that was signalled the server has tried
\* its pipes; all this for an owner that has not woken too early, whose message may
\* come before the pipes.
ServerCanEnd ==
  /\ owner = "waiting" /\ ~signalled => server \in {"starting", "initialised"}
  /\ owner = "joining" /\ ~spurious => ~(server = "looping" /\ open /\ pipe = <<>>)
  /\ owner = "launched" /\ ~spurious => server \notin {"none", "starting"}

\* Until the modem has restarted, what the GPS daemon was told last holds: after a
\* REQUEST_SUCCESS there is a connection, and who waits for a response is on the list
\* of a machine that has still to get an answer.
ToldIsTrue ==
  ~flushed /\ open /\ toWrite = {} =>
    /\ lastTold["DAEMON"] = "REQUEST_SUCCESS" => supl = "Acquired"
    /\ unanswered \subseteq suplBits
    /\ unanswered # {} => supl = "Pending"

DaemonInv == ServerCanEnd /\ ToldIsTrue

\* A woken wait is not checked again and a pipe that cannot be opened is not told, so
\* launch() may return without open pipes.
LaunchIsReady == owner = "launched" => open \/ server \in {"leaving", "gone"}

\* A server that has ended by itself leaves the owner with the number of a pipe
\* that is closed.
NothingIsMissed == ~missed

\* A response that comes after the end of the server goes to whatever has the number
\* of the pipe by then.
NothingGoesAstray == ~astray

\* A daemon that asks for Wi-Fi hears nothing: the modem is told instead.
WifiIsAnswered == \A s \in modemTold : lastTold[s] # "none"

=============================================================================

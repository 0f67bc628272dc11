-------------------------------- MODULE LocApi --------------------------------
(***************************************************************************)
(* The clients of the modem's interface (core/LocApiBase.cpp): the array   *)
(* of adapters, the events they ask for, and the reports, requests and     *)
(* restarts that are handed to them.                                       *)
(*                                                                         *)
(* Three threads share the array with no lock: whoever creates or deletes  *)
(* adapters, the modem's thread that walks it, and the message thread that *)
(* opens the interface.  What open() and close() do is the modem library's *)
(* part: open() adds to the events that are registered, which addAdapter() *)
(* counts on when it passes those of the new adapter alone.                *)
(***************************************************************************)
EXTENDS Naturals, Sequences

CONSTANTS
  Adapters,
  EventBits,     \* the bits of an event mask
  Excluded,      \* mExcludedMask
  Handling,      \* the adapters with mSupportsAgpsRequests
  MaxAdapters,   \* MAX_ADAPTERS
  MaxOpens,      \* bound: messages that wait
  MaxDowns,      \* bound: crashes of the modem
  Nobody

ASSUME LocApiAssumption ==
  /\ MaxAdapters \in Nat \ {0} /\ MaxOpens \in Nat /\ MaxDowns \in Nat
  /\ Nobody \notin Adapters /\ Handling \subseteq Adapters

VARIABLES
  mLocAdapters,   \* the array
  wants,          \* mEvtMask of each adapter
  life,           \* has an adapter been created, or deleted?
  removal,        \* where a removeAdapter() is
  round,          \* a walk through the array on the modem's thread
  messages,       \* to the message thread
  opened,         \* the events registered with the modem, or the handle is closed
  modemUp, downs,
  joined,         \* history: those that were added and not removed
  crossed         \* history: has an adapter been added during a removal?

apiVars == <<mLocAdapters, wants, life, removal, round, messages, opened, modemUp, downs, joined, crossed>>

Slots   == 0 .. MaxAdapters - 1
Closed  == [events |-> {}, handle |-> FALSE]
Opened(E) == [events |-> E, handle |-> TRUE]
AtRest  == [at |-> "none", who |-> Nobody, slot |-> 0, last |-> 0]
Walked  == [kind |-> "none", at |-> MaxAdapters, heard |-> <<>>, due |-> {}, disturbed |-> FALSE]

ApiTypeOK ==
  /\ mLocAdapters \in [Slots -> Adapters \cup {Nobody}]
  /\ wants \in [Adapters -> SUBSET EventBits] /\ life \in [Adapters -> {"unborn", "alive", "deleted"}]
  /\ removal.at \in {"none", "shifting", "leaving"} /\ removal.slot \in Slots
  /\ round.at \in 0 .. MaxAdapters
  /\ opened.events \subseteq EventBits /\ modemUp \in BOOLEAN /\ downs \in 0 .. MaxDowns

ApiInit ==
  /\ mLocAdapters = [s \in Slots |-> Nobody] /\ wants = [a \in Adapters |-> {}]
  /\ life = [a \in Adapters |-> "unborn"] /\ removal = AtRest /\ round = Walked
  /\ messages = <<>> /\ opened = Closed /\ modemUp = TRUE /\ downs = 0
  /\ joined = {} /\ crossed = FALSE

-----------------------------------------------------------------------------
(* The array. *)

\* Its first empty element ends the array for every loop.
End == CHOOSE s \in 0 .. MaxAdapters :
         /\ s = MaxAdapters \/ mLocAdapters[s] = Nobody
         /\ \A t \in 0 .. s - 1 : mLocAdapters[t] # Nobody

InTable == {mLocAdapters[s] : s \in 0 .. End - 1}

GetEvtMask == (UNION {wants[a] : a \in InTable}) \ Excluded

OpenMsg(E) == [kind |-> "open", events |-> E, who |-> Nobody, downs |-> downs]
SendMsg(msg) == messages' = Append(messages, msg)

\* addAdapter(), by the constructor of an adapter: one that finds no room is not
\* added.
AddAdapter(a, E) ==
  /\ life[a] = "unborn" /\ Len(messages) < MaxOpens
  /\ life' = [life EXCEPT ![a] = "alive"] /\ wants' = [wants EXCEPT ![a] = E]
  /\ IF End < MaxAdapters
       THEN /\ mLocAdapters' = [mLocAdapters EXCEPT ![End] = a]
            /\ joined' = joined \cup {a}
            /\ SendMsg(OpenMsg(E))
       ELSE UNCHANGED <<mLocAdapters, joined, messages>>
  /\ crossed' = (crossed \/ removal # AtRest)
  /\ UNCHANGED <<removal, round, opened, modemUp, downs>>

\* removeAdapter(), by the destructor, takes the adapter out, ...
RemoveAdapter(a) ==
  /\ removal = AtRest /\ life[a] = "alive"
  /\ life' = [life EXCEPT ![a] = "deleted"] /\ joined' = joined \ {a}
  /\ IF a \in InTable
       THEN LET j == CHOOSE s \in 0 .. End - 1 : mLocAdapters[s] = a IN
            /\ mLocAdapters' = [mLocAdapters EXCEPT ![j] = Nobody]
            /\ removal' = [at |-> "shifting", who |-> a, slot |-> j, last |-> 0]
            /\ round' = [round EXCEPT !.disturbed = TRUE]
       ELSE UNCHANGED <<mLocAdapters, removal, round>>
  /\ UNCHANGED <<wants, messages, opened, modemUp, downs, crossed>>

\* Slip: the hole stays where it is.
ShiftNothing ==
  /\ removal.at = "shifting"
  /\ removal' = [removal EXCEPT !.at = "leaving", !.last = removal.slot]
  /\ round' = [round EXCEPT !.disturbed = TRUE]
  /\ UNCHANGED <<mLocAdapters, wants, life, messages, opened, modemUp, downs, joined, crossed>>

\* ... moves the last one into the hole, ...
Shift ==
  LET j == removal.slot
      last == CHOOSE s \in j .. MaxAdapters - 1 :
                /\ s = MaxAdapters - 1 \/ mLocAdapters[s + 1] = Nobody
                /\ \A t \in j + 1 .. s : mLocAdapters[t] # Nobody
  IN
  /\ removal.at = "shifting"
  /\ mLocAdapters' = [mLocAdapters EXCEPT ![j] = mLocAdapters[last], ![last] = Nobody]
  /\ removal' = [removal EXCEPT !.at = "leaving", !.last = last]
  /\ round' = [round EXCEPT !.disturbed = TRUE]
  /\ UNCHANGED <<wants, life, messages, opened, modemUp, downs, joined, crossed>>

\* ... and closes the interface, at once, if nobody is left.
LeaveArray ==
  /\ removal.at = "leaving" /\ removal' = AtRest
  /\ IF removal.last = 0
       THEN opened' = Closed /\ UNCHANGED messages
       ELSE SendMsg(OpenMsg(GetEvtMask)) /\ UNCHANGED opened
  /\ UNCHANGED <<mLocAdapters, wants, life, round, modemUp, downs, joined, crossed>>

\* LocAdapterBase::updateEvtMask()
UpdateEvtMask(a, E, enabled) ==
  /\ a \in InTable /\ Len(messages) < MaxOpens
  /\ wants' = [wants EXCEPT ![a] = IF enabled THEN @ \cup E ELSE @ \ E]
  /\ SendMsg(OpenMsg((UNION {wants'[b] : b \in InTable}) \ Excluded))
  /\ UNCHANGED <<mLocAdapters, life, removal, round, opened, modemUp, downs, joined, crossed>>

-----------------------------------------------------------------------------
(* The message thread. *)

\* Opening reaches a modem that is up.
Open(base, E) == IF modemUp THEN Opened(base.events \cup E) ELSE base

\* LocOpenMsg, LocSsrMsg, and what an adapter has posted of the restart.
ProcMessage ==
  LET msg == Head(messages) IN
  /\ messages # <<>> /\ messages' = Tail(messages)
  /\ opened' = CASE msg.kind = "open" -> Open(opened, msg.events)
                 [] msg.kind = "ssr"  -> Open(Closed, GetEvtMask)
                 [] msg.kind = "up"   -> opened
  /\ UNCHANGED <<mLocAdapters, wants, life, removal, round, modemUp, downs, joined, crossed>>

-----------------------------------------------------------------------------
(* The modem's thread: one walk after the other. *)

Walks(kind) ==
  round' = [kind |-> kind, at |-> 0, heard |-> <<>>, due |-> joined, disturbed |-> removal # AtRest]

\* A report goes to all, a request to the first that handles it.
BeginWalk(kind) ==
  /\ round.at = MaxAdapters /\ modemUp
  /\ Walks(kind)
  /\ UNCHANGED <<mLocAdapters, wants, life, removal, messages, opened, modemUp, downs, joined, crossed>>

\* The modem crashes: handleEngineDownEvent().
EngineDown ==
  /\ round.at = MaxAdapters /\ modemUp /\ downs < MaxDowns
  /\ modemUp' = FALSE /\ downs' = downs + 1 /\ opened' = Closed
  /\ Walks("report")
  /\ UNCHANGED <<mLocAdapters, wants, life, removal, messages, joined, crossed>>

\* Slip: the adapters are told before the handle is renegotiated.
EngineUpTellsOnly ==
  /\ round.at = MaxAdapters /\ ~modemUp
  /\ modemUp' = TRUE
  /\ Walks("up")
  /\ UNCHANGED <<mLocAdapters, wants, life, removal, messages, opened, downs, joined, crossed>>

\* handleEngineUpEvent()
EngineUp ==
  /\ round.at = MaxAdapters /\ ~modemUp
  /\ modemUp' = TRUE
  /\ SendMsg([kind |-> "ssr", events |-> {}, who |-> Nobody, downs |-> downs])
  /\ Walks("up")
  /\ UNCHANGED <<mLocAdapters, wants, life, removal, opened, downs, joined, crossed>>

\* TO_ALL_ADAPTERS and TO_1ST_HANDLING_ADAPTER
WalkOn ==
  LET a == mLocAdapters[round.at] IN
  /\ round.at < MaxAdapters
  /\ IF a = Nobody
       THEN round' = [round EXCEPT !.at = MaxAdapters] /\ UNCHANGED messages
       ELSE /\ round' = [round EXCEPT
                 !.at = IF round.kind = "request" /\ a \in Handling THEN MaxAdapters ELSE @ + 1,
                 !.heard = Append(@, a)]
            /\ IF round.kind = "up"
                 THEN SendMsg([kind |-> "up", events |-> {}, who |-> a, downs |-> downs])
                 ELSE UNCHANGED messages
  /\ UNCHANGED <<mLocAdapters, wants, life, removal, opened, modemUp, downs, joined, crossed>>

-----------------------------------------------------------------------------
ApiNext ==
  \/ \E a \in Adapters, E \in SUBSET EventBits \ {{}} : AddAdapter(a, E)
  \/ \E a \in Adapters : RemoveAdapter(a)
  \/ Shift \/ LeaveArray
  \/ \E a \in Adapters, e \in EventBits, enabled \in BOOLEAN : UpdateEvtMask(a, {e}, enabled)
  \/ ProcMessage
  \/ \E kind \in {"report", "request"} : BeginWalk(kind)
  \/ EngineDown \/ EngineUp \/ WalkOn

-----------------------------------------------------------------------------
(* Properties. *)

\* A report reaches every adapter that is listed, once, even if others come
\* meanwhile; a request goes from one to the next until the first that handles
\* it.  A removal that moves the last adapter while the array is walked may make
\* it miss a report or end the walk at the hole, and an adapter that is put into
\* that hole is lost.
ReportsReachAll ==
  round.at = MaxAdapters /\ ~round.disturbed /\ ~crossed =>
    LET heard == {round.heard[i] : i \in 1 .. Len(round.heard)} IN
    /\ \A i, j \in 1 .. Len(round.heard) : round.heard[i] = round.heard[j] => i = j
    /\ round.kind # "request" => round.due \subseteq heard
    /\ round.kind = "request" =>
         /\ \A i \in 1 .. Len(round.heard) - 1 : round.heard[i] \notin Handling
         /\ round.due \cap Handling # {} => heard \cap Handling # {}

\* When the message thread has nothing left to do, the events that the listed
\* adapters want are registered, whatever restarts were in between; and what an
\* adapter has to do after a restart it does with an open handle.  An adapter
\* that comes while the last one goes may find the interface closed after it.
EventsAreOpen ==
  /\ messages = <<>> /\ modemUp /\ removal = AtRest /\ ~crossed /\ InTable # {}
       => GetEvtMask \subseteq opened.events
  /\ messages # <<>> /\ Head(messages).kind = "up" /\ Head(messages).downs = downs
       /\ modemUp /\ ~crossed /\ Head(messages).who \in InTable
       => opened.handle

\* The invariant of the run.
ApiInv == ApiTypeOK /\ ReportsReachAll /\ EventsAreOpen

\* What nobody listens to is not registered: removeAdapter() says "we need to
\* remove the bit", but open() only adds; and the last adapter's own LocOpenMsg
\* may still be queued when its removal closes the interface.
NothingElseIsOpen ==
  messages = <<>> /\ removal = AtRest => opened.events \subseteq GetEvtMask

=============================================================================

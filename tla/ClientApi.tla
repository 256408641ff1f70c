------------------------------ MODULE ClientApi ------------------------------
(***************************************************************************)
(* The event side of libmpv's client API, and the loop of bomi's Mpv       *)
(* thread that reads it (mpv/player/client.c, bomi/player/mpv.cpp):        *)
(* the bounded ring of events with its reserved entries and its recovery   *)
(* from overflow, observed properties, asynchronous requests and their     *)
(* replies, hooks, and the wait for all asynchronous requests.             *)
(*                                                                         *)
(* The core serves requests one at a time in the order they were posted    *)
(* and no client reads its state meanwhile: that is what CoreAccess        *)
(* promises and Dispatch implements.  Each section under ctx->lock is one  *)
(* action; a changed value and the mark on those who observe it are one    *)
(* too, for no client can read the value in between.                       *)
(***************************************************************************)
EXTENDS Integers, Sequences, FiniteSets, Functions

CONSTANTS N,            \* observed properties 1 .. N, in the order of ctx->properties
          Valued,       \* those observed with a format, by their value
          MaxEvents,    \* ctx->max_events
          MaxChanges,   \* bound: changes of all properties together
          MaxSent,      \* bound: numbered events of the core
          MaxHooks,     \* bound: hooks the core runs
          MaxSets       \* bound: asynchronous requests of the GUI thread

ASSUME NAssumption == N \in Nat /\ Valued \subseteq 1 .. N
ASSUME MaxEventsAssumption == MaxEvents \in Nat \ {0}
ASSUME BoundsAssumption == {MaxChanges, MaxSent, MaxHooks, MaxSets} \subseteq Nat

Props == 1 .. N

VARIABLES
  value,                \* the property of the core
  requests,             \* the dispatch queue; its head is being served
  hook,                 \* idle, active or removed
  events,               \* ctx->events: numbered events, hook messages, replies
  reserved,             \* reserved_events
  choked,               \* recovering from overflow
  needWakeup,           \* need_wakeup
  prop,                 \* observe_property of each property
  lowestChanged,        \* lowest_changed
  updating,             \* properties_updating
  pc,                   \* where the client's thread is
  seen,                 \* the value the application last got, 0 for none
  gui,                  \* the GUI thread: idle, or its request before it is queued
  sent, got, noticed,   \* numbered events: sent, last received, overflow reported since
  hooks, sets           \* counters of the bounds

coreVars == <<value, hook>>
ringVars == <<events, reserved, choked>>
propVars == <<prop, lowestChanged, updating>>
seenVars == <<seen, got, noticed>>
boundVars == <<sent, hooks, sets>>
vars == <<coreVars, requests, ringVars, needWakeup, propVars, pc, seenVars, gui,
          boundVars>>

Values == Nat
NoValue == -1           \* new_value_valid or user_value_valid is FALSE
Observed == [changed : BOOLEAN, needNew : BOOLEAN, updating : BOOLEAN,
             new : Values \cup {NoValue}, user : Values \cup {NoValue}]
Request == [kind : {"set", "reply", "update"}, of : Props, by : {"gui", "client"}]
PcStates == [at : {"wait", "asleep", "hook", "flush", "flushing", "ack"}, of : {0}]
             \cup [at : {"read"}, of : Props]

At(s) == [at |-> s, of |-> 0]

TypeOK ==
  /\ value \in [Props -> Values]
  /\ requests \in Seq(Request)
  /\ hook \in {"idle", "active", "removed"}
  /\ events \in Seq(1 .. MaxSent \cup {0, -1})
  /\ reserved \in 0 .. MaxEvents
  /\ choked \in BOOLEAN /\ needWakeup \in BOOLEAN
  /\ prop \in [Props -> Observed]
  /\ lowestChanged \in 1 .. N + 1
  /\ updating \in Nat
  /\ pc \in PcStates
  /\ seen \in [Props -> Values]
  /\ gui \in Props \cup {0}
  /\ sent \in 0 .. MaxSent /\ got \in 0 .. sent /\ noticed \in BOOLEAN
  /\ hooks \in 0 .. MaxHooks /\ sets \in 0 .. MaxSets

HookMessage == 0
Reply == -1

(* mpv_observe_property was called for each property; nothing is read yet. *)
Init ==
  /\ value = [p \in Props |-> 0]
  /\ requests = <<>> /\ hook = "idle"
  /\ events = <<>> /\ reserved = 0 /\ choked = FALSE /\ needWakeup = FALSE
  /\ prop = [p \in Props |-> [changed |-> TRUE, needNew |-> TRUE, updating |-> FALSE,
                              new |-> NoValue, user |-> NoValue]]
  /\ lowestChanged = 1 /\ updating = 0
  /\ pc = At("wait") /\ seen = [p \in Props |-> 0]
  /\ gui = 0
  /\ sent = 0 /\ got = 0 /\ noticed = FALSE
  /\ hooks = 0 /\ sets = 0

(* Mutant of Full: reserved entries are not counted. *)
FullUnreserved == Len(events) >= MaxEvents

(***************************************************************************)
(* Sending: append_event, send_event, send_reply.                          *)
(***************************************************************************)
Full == Len(events) + reserved >= MaxEvents

(* Mutant of SendEvent: an event that does not fit is dropped alone. *)
SendEventUnchoked(e) ==
  IF Full THEN UNCHANGED <<ringVars, needWakeup>>
  ELSE /\ events' = Append(events, e) /\ needWakeup' = TRUE
       /\ UNCHANGED <<reserved, choked>>

(* Mutant of SendEvent: wakeup_client is forgotten. *)
SendEventQuietly(e) ==
  IF choked THEN UNCHANGED <<ringVars, needWakeup>>
  ELSE IF Full THEN choked' = TRUE /\ UNCHANGED <<events, reserved, needWakeup>>
  ELSE events' = Append(events, e) /\ UNCHANGED <<reserved, choked, needWakeup>>

(* send_event: an event that does not fit is lost, and with it all others  *)
(* until the client has emptied the ring.                                  *)
SendEvent(e) ==
  IF choked THEN UNCHANGED <<ringVars, needWakeup>>
  ELSE IF Full THEN choked' = TRUE /\ UNCHANGED <<events, reserved, needWakeup>>
  ELSE /\ events' = Append(events, e) /\ needWakeup' = TRUE
       /\ UNCHANGED <<reserved, choked>>

(***************************************************************************)
(* The core.                                                               *)
(***************************************************************************)
(* mark_property_changed, for a property whose value changed now. *)
Marked(p) ==
  IF prop[p].changed \/ prop[p].needNew THEN prop
  ELSE [prop EXCEPT ![p].changed = TRUE, ![p].needNew = p \in Valued]

(* Mutant of Lowered: lowest_changed stays where the last scan left it. *)
LoweredNever(p) == IF p > N THEN p ELSE lowestChanged

Lowered(p) ==
  IF prop[p].changed \/ prop[p].needNew \/ p > lowestChanged THEN lowestChanged ELSE p

Changes == FoldFunctionOnSet(+, 0, value, Props)

(* A property changes, and mp_client_property_change tells the client. *)
Change(p) ==
  /\ Changes < MaxChanges
  /\ value' = [value EXCEPT ![p] = @ + 1]
  /\ prop' = Marked(p)
  /\ lowestChanged' = Lowered(p)
  /\ needWakeup' = (needWakeup \/ Lowered(p) <= N)
  /\ UNCHANGED <<hook, ringVars, updating, pc, seenVars, gui>>

(* The core is not in the middle of a request. *)
Playing == ~(requests # <<>> /\ Head(requests).kind = "reply")

PlaybackChanges(p) ==
  /\ Playing /\ Change(p)
  /\ UNCHANGED <<requests, boundVars>>

(* mp_client_broadcast_event of playback. *)
Broadcast ==
  /\ sent < MaxSent
  /\ sent' = sent + 1
  /\ SendEvent(sent')
  /\ UNCHANGED <<coreVars, requests, propVars, pc, seenVars, gui, hooks, sets>>

(* Mutant of HookRun: the result of send_hook_msg is ignored. *)
HookRunUnchecked ==
  /\ Playing /\ hook = "idle" /\ hooks < MaxHooks
  /\ hooks' = hooks + 1
  /\ SendEvent(HookMessage)
  /\ hook' = "active"
  /\ UNCHANGED <<value, requests, propVars, pc, seenVars, gui, sent, sets>>

(* mp_hook_run: the hook is active until the client acknowledges it; a     *)
(* hook whose message cannot be sent is removed for good.                  *)
HookRun ==
  /\ Playing /\ hook = "idle" /\ hooks < MaxHooks
  /\ hooks' = hooks + 1
  /\ SendEvent(HookMessage)
  /\ hook' = IF choked \/ Full THEN "removed" ELSE "active"
  /\ UNCHANGED <<value, requests, propVars, pc, seenVars, gui, sent, sets>>

(* setproperty_fn: the value first, if it is another one, then the reply. *)
RunSet ==
  /\ requests # <<>> /\ Head(requests).kind = "set"
  /\ requests' = [requests EXCEPT ![1].kind = "reply"]
  /\ \/ Change(Head(requests).of)
     \/ UNCHANGED <<coreVars, ringVars, needWakeup, propVars, pc, seenVars, gui>>
  /\ UNCHANGED boundVars

SendReply ==
  /\ requests # <<>> /\ Head(requests).kind = "reply"
  /\ requests' = Tail(requests)
  /\ reserved' = reserved - 1
  /\ events' = Append(events, Reply)
  /\ needWakeup' = TRUE
  /\ UNCHANGED <<coreVars, choked, propVars, pc, seenVars, gui, boundVars>>

(* Mutant of UpdateProp: the client is woken only if the value changed. *)
UpdatePropQuietly ==
  /\ requests # <<>> /\ Head(requests).kind = "update"
  /\ requests' = Tail(requests)
  /\ LET p == Head(requests).of IN
       /\ prop' = [prop EXCEPT ![p].updating = FALSE, ![p].new = value[p],
                               ![p].changed = @ \/ prop[p].user # value[p]]
       /\ needWakeup' = (needWakeup \/ prop[p].user # value[p])
  /\ updating' = updating - 1
  /\ UNCHANGED <<coreVars, ringVars, lowestChanged, pc, seenVars, gui, boundVars>>

(* update_prop: the value of the property now, and a change if it is not   *)
(* the one the user has.                                                   *)
UpdateProp ==
  /\ requests # <<>> /\ Head(requests).kind = "update"
  /\ requests' = Tail(requests)
  /\ LET p == Head(requests).of IN
       prop' = [prop EXCEPT ![p].updating = FALSE, ![p].new = value[p],
                            ![p].changed = @ \/ prop[p].user # value[p]]
  /\ updating' = updating - 1
  /\ needWakeup' = TRUE
  /\ UNCHANGED <<coreVars, ringVars, lowestChanged, pc, seenVars, gui, boundVars>>

(***************************************************************************)
(* Asynchronous requests: reserve_reply, then the dispatch queue.          *)
(***************************************************************************)
Refused == Full \/ choked

(* The GUI thread sets a property, and goes on whether it is taken or not. *)
ReserveReply(p) ==
  /\ gui = 0 /\ sets < MaxSets
  /\ sets' = sets + 1
  /\ IF Refused THEN UNCHANGED <<gui, reserved>> ELSE gui' = p /\ reserved' = reserved + 1
  /\ UNCHANGED <<coreVars, requests, events, choked, needWakeup, propVars, pc, seenVars,
                 sent, hooks>>

Enqueue ==
  /\ gui # 0
  /\ requests' = Append(requests, [kind |-> "set", of |-> gui, by |-> "gui"])
  /\ gui' = 0
  /\ UNCHANGED <<coreVars, ringVars, needWakeup, propVars, pc, seenVars, boundVars>>

(***************************************************************************)
(* The client's thread: Mpv::run around mpv_wait_event.                    *)
(***************************************************************************)
(* Recover from overflow. *)
ReportOverflow ==
  /\ pc = At("wait") /\ choked /\ events = <<>>
  /\ choked' = FALSE /\ noticed' = TRUE
  /\ UNCHANGED <<coreVars, requests, events, reserved, needWakeup, propVars, pc, seen,
                 got, gui, boundVars>>

PopEvent ==
  /\ pc = At("wait") /\ events # <<>>
  /\ events' = Tail(events)
  /\ IF Head(events) > 0
       THEN got' = Head(events) /\ noticed' = FALSE /\ UNCHANGED pc
       ELSE /\ pc' = IF Head(events) = HookMessage THEN At("hook") ELSE pc
            /\ UNCHANGED <<got, noticed>>
  /\ UNCHANGED <<coreVars, requests, reserved, choked, needWakeup, propVars, seen, gui,
                 boundVars>>

(* gen_property_change_event: from lowest_changed on, ask for the value of *)
(* each changed property that needs a new one, and stop at the first that  *)
(* can be reported.                                                        *)
Reportable(p) ==
  p >= lowestChanged /\ prop[p].changed /\ ~(p \in Valued /\ prop[p].needNew)

Report(p) == Reportable(p) /\ \A q \in Props : q < p => ~Reportable(q)

Scanned(last) == {p \in Props : lowestChanged <= p /\ p <= last}

Fetched(last) == {p \in Scanned(last) : prop[p].changed /\ ~Reportable(p)}

ScannedProp(last) ==
  [p \in Props |->
     IF p \in Fetched(last)
       THEN [prop[p] EXCEPT !.changed = FALSE, !.needNew = FALSE, !.updating = TRUE]
     ELSE IF p = last /\ Reportable(p)
       THEN [prop[p] EXCEPT !.changed = FALSE, !.needNew = FALSE, !.user = prop[p].new]
     ELSE prop[p]]

LowestAfter(last) ==
  LET busy == {p \in Scanned(last) : prop[p].changed \/ prop[p].updating}
  IN  IF busy = {} THEN N + 1 ELSE CHOOSE p \in busy : \A q \in busy : p <= q

Ascending(S) ==
  {s \in [1 .. Cardinality(S) -> S] : \A i, j \in 1 .. Cardinality(S) : i < j => s[i] < s[j]}

(* update_prop is posted for each of them, in the order of the scan. *)
RequestUpdates(S) ==
  \E s \in Ascending(S) :
    requests' = requests \o [i \in 1 .. Cardinality(S) |->
                              [kind |-> "update", of |-> s[i], by |-> "client"]]

(* Mutant of Scan: properties_updating counts the scan, not its requests. *)
ScanCountsOnce(last) ==
  /\ pc = At("wait") /\ events = <<>> /\ ~choked
  /\ prop' = ScannedProp(last)
  /\ lowestChanged' = LowestAfter(last)
  /\ updating' = IF Fetched(last) = {} THEN updating ELSE 1
  /\ RequestUpdates(Fetched(last))
  /\ UNCHANGED <<coreVars, ringVars, needWakeup, got, noticed, gui, boundVars>>

Scan(last) ==
  /\ pc = At("wait") /\ events = <<>> /\ ~choked
  /\ prop' = ScannedProp(last)
  /\ lowestChanged' = LowestAfter(last)
  /\ updating' = updating + Cardinality(Fetched(last))
  /\ RequestUpdates(Fetched(last))
  /\ UNCHANGED <<coreVars, ringVars, needWakeup, got, noticed, gui, boundVars>>

(* An event with a value brings it; one without makes bomi's observer read *)
(* the property.                                                           *)
PropertyEvent(p) ==
  /\ Report(p)
  /\ Scan(p)
  /\ IF p \in Valued
       THEN seen' = [seen EXCEPT ![p] = prop[p].new] /\ UNCHANGED pc
       ELSE pc' = [at |-> "read", of |-> p] /\ UNCHANGED seen

ReadProperty ==
  /\ pc.at = "read" /\ Playing
  /\ seen' = [seen EXCEPT ![pc.of] = value[pc.of]]
  /\ pc' = At("wait")
  /\ UNCHANGED <<coreVars, requests, ringVars, needWakeup, propVars, got, noticed, gui,
                 boundVars>>

(* Nothing to report: wait_wakeup. *)
FallAsleep ==
  /\ \A p \in Props : ~Reportable(p)
  /\ Scan(N)
  /\ pc' = At("asleep")
  /\ UNCHANGED seen

Sleeping == pc.at \in {"asleep", "flushing"}

AfterSleep == At(IF pc.at = "asleep" THEN "wait" ELSE "flush")

WokenUp ==
  /\ Sleeping /\ needWakeup
  /\ needWakeup' = FALSE
  /\ pc' = AfterSleep
  /\ UNCHANGED <<coreVars, requests, ringVars, propVars, seenVars, gui, boundVars>>

(* The timeout of mpv_wait_event, without fairness: nothing may need it.   *)
(* A wakeup that comes with it is left for the next sleep.                 *)
Timeout ==
  /\ pc.at = "asleep"
  /\ pc' = At("wait")
  /\ UNCHANGED <<coreVars, requests, ringVars, needWakeup, propVars, seenVars, gui,
                 boundVars>>

(* The handler of a hook (PlayEngine::Data::onLoad) sets properties, waits *)
(* for all requests, and acknowledges.                                     *)
HookSets(p) ==
  /\ pc = At("hook")
  /\ pc' = At("flush")
  /\ IF Refused
       THEN UNCHANGED <<reserved, requests>>
       ELSE /\ reserved' = reserved + 1
            /\ requests' = Append(requests, [kind |-> "set", of |-> p, by |-> "client"])
  /\ UNCHANGED <<coreVars, events, choked, needWakeup, propVars, seenVars, gui, boundVars>>

(* Mutant of WaitAsync: only the properties are waited for. *)
WaitUpdates ==
  /\ pc = At("flush")
  /\ pc' = At(IF updating > 0 THEN "flushing" ELSE "ack")
  /\ UNCHANGED <<coreVars, requests, ringVars, needWakeup, propVars, seenVars, gui,
                 boundVars>>

(* mpv_wait_async_requests *)
WaitAsync ==
  /\ pc = At("flush")
  /\ pc' = At(IF reserved > 0 \/ updating > 0 THEN "flushing" ELSE "ack")
  /\ UNCHANGED <<coreVars, requests, ringVars, needWakeup, propVars, seenVars, gui,
                 boundVars>>

(* hook_ack *)
HookAck ==
  /\ pc = At("ack") /\ Playing
  /\ pc' = At("wait")
  /\ hook' = IF hook = "active" THEN "idle" ELSE hook
  /\ UNCHANGED <<value, requests, ringVars, needWakeup, propVars, seenVars, gui, boundVars>>

ServeRequest == RunSet \/ SendReply \/ UpdateProp

ClientStep ==
  \/ ReportOverflow \/ PopEvent \/ FallAsleep \/ ReadProperty \/ WokenUp
  \/ WaitAsync \/ HookAck
  \/ \E p \in Props : PropertyEvent(p) \/ HookSets(p)

Next ==
  \/ ServeRequest \/ ClientStep \/ Timeout \/ Enqueue \/ Broadcast \/ HookRun
  \/ \E p \in Props : PlaybackChanges(p) \/ ReserveReply(p)

Spec == Init /\ [][Next]_vars

(* The core serves what is queued and the client's loop goes on: nothing   *)
(* has to change, to be sent or to time out.                               *)
Fairness == WF_vars(ServeRequest) /\ WF_vars(ClientStep) /\ WF_vars(Enqueue)

FairSpec == Spec /\ Fairness

(***************************************************************************)
(* Safety.                                                                 *)
(***************************************************************************)
(* A reply always has the place that was reserved for it, whatever is sent *)
(* meanwhile: neither the assertion nor the abort of send_reply is reached *)
(* (client.c:597-608).                                                     *)
RepliesFit ==
  /\ Len(events) + reserved <= MaxEvents
  /\ requests # <<>> /\ Head(requests).kind = "reply" => reserved > 0

(* When the client sleeps and nothing is going to wake it, what bomi read  *)
(* last of a property is what the property is.                             *)
QuietIsCurrent ==
  pc = At("asleep") /\ ~needWakeup => \A p \in Props \ Valued : seen[p] = value[p]

(* What the handler of a hook set before it waited, and what was taken,    *)
(* has been done when it acknowledges: the file is loaded with the options *)
(* of onLoad.                                                              *)
HookSettingsApply ==
  pc = At("ack") => \A i \in 1 .. Len(requests) : requests[i].by # "client"

(* Events arrive in order, and one that is missing is reported before any  *)
(* later one arrives.                                                      *)
NoSilentLoss == [][got' # got => got' = got + 1 \/ noticed]_vars

(***************************************************************************)
(* Liveness.                                                               *)
(***************************************************************************)
(* mpv_wait_async_requests returns: it sleeps without a timeout, on the    *)
(* flag that the loop shares with every other wakeup.                      *)
WaitReturns == pc.at \in {"flush", "flushing"} ~> pc = At("ack")

(* A hook ends: the core never waits for an acknowledgement that does not  *)
(* come, though its message may not fit in the ring.                       *)
HookEnds == hook = "active" ~> hook # "active"

(* An event is received, or its loss is reported.                          *)
EventsArrive == got < sent ~> (got = sent \/ noticed)
===============================================================================

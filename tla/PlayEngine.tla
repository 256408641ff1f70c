----------------------------- MODULE PlayEngine -----------------------------
(***************************************************************************)
(* How bomi opens, plays, closes and remembers a file.                     *)
(*                                                                         *)
(* Three threads take part.  The GUI thread owns PlayEngine: it issues     *)
(* load, reload, stop and quit, and handles the events the engine posts to *)
(* itself (PlayEngine::Data::process).  The mpv client thread (Mpv::run)   *)
(* pops the events of libmpv one by one, runs the on_load and on_unload    *)
(* hooks and posts to the GUI.  The core of libmpv is external: it plays   *)
(* one playlist entry at a time and waits for the client at both hooks.    *)
(*                                                                         *)
(* Two queues connect them, both FIFO: mq from the core to the client      *)
(* thread, gq (the Qt event queue) from the client thread to the GUI.      *)
(* Commands (Mpv::tell) are synchronous and therefore atomic.              *)
(***************************************************************************)
EXTENDS Integers, Sequences

CONSTANTS
    Mrls,       \* the media the user can open
    Unique,     \* those with Mrl::isUnique, the ones the history can key
    NoMrl,      \* the empty Mrl
    Null,       \* a null QSharedPointer, or no playlist entry
    MaxLoads,   \* bound: calls of PlayEngine::load and setMrl in a behaviour
    MaxPos      \* bound: the last playback position, positions being 0..MaxPos

ASSUME MrlAssumption   == NoMrl \notin Mrls /\ Unique \subseteq Mrls
ASSUME BoundAssumption == MaxLoads \in Nat /\ MaxPos \in Nat

Pos      == 0 .. MaxPos
Resume   == -1 .. MaxPos           \* -1: no position to resume from
Ids      == 0 .. MaxLoads          \* ghost: the load a state or event stems from
AnyMrl   == Mrls \cup {NoMrl}
Keys     == Unique \cup {NoMrl}    \* what HistoryModel accepts: the empty Mrl is no disc
MrlState == [id: Ids, mrl: AnyMrl, resume: Resume]

\* A playlist entry of the core: what loadfile passes to it.  keep is ghost:
\* the position that reload() promised to this entry, -1 for any other load.
Entry    == [id: Ids, mrl: Mrls, resume: BOOLEAN, keep: Resume]

ASSUME NullAssumption == Null \notin MrlState /\ Null \notin Entry

Reasons  == {"eof", "error", "stop", "quit"}
Nothing  == [id |-> 0, mrl |-> NoMrl, resume |-> -1]

VARIABLES
    \* ---- the core of libmpv (external)
    cpc,      \* where mp_play_files stands
    cur,      \* the entry being played
    next,     \* the entry to play after it
    why,      \* stop_play: why the current file has to end, or "none"
    pos,      \* the playback position
    active,   \* the hooks that the client has not acknowledged
    dirty,    \* a change of time-pos has not been notified yet
    mq,       \* events sent to the client and not popped by it
    \* ---- the mpv client thread: Mpv::run and the callbacks it runs
    mpc, tlocal, treload, start,
    \* ---- PlayEngine::Data, the GUI thread
    gpc, mrl, params, state, loading, time, gq,
    reload,   \* shared with the client thread, guarded by Data::mutex
    \* ---- HistoryModel, guarded by a mutex of its own
    history,
    \* ---- ghosts
    loads,    \* calls of load and setMrl so far
    onquit    \* the file and the position on display at quit, or Null

coreVars   == <<cpc, cur, next, why, pos, active, dirty>>
clientVars == <<mpc, tlocal, treload, start>>
guiVars    == <<mrl, params, state, loading, time>>
ghostVars  == <<loads, onquit>>
vars == <<coreVars, mq, clientVars, gpc, guiVars, gq, reload, history, ghostVars>>

MEvents == [ev: {"start", "load", "loaded", "unload", "shutdown"}, id: Ids]
             \cup [ev: {"end"}, id: Ids, reason: Reasons]
GEvents == [ev: {"state"}, to: {"running"}] \cup [ev: {"loading"}, on: BOOLEAN]
             \cup [ev: {"time"}, pos: Pos] \cup [ev: {"sync"}, ms: MrlState]
             \cup [ev: {"start"}, id: Ids]
             \cup [ev: {"end"}, id: Ids, last: MrlState \cup {Null}, reason: Reasons]

TypeOK ==
    /\ cpc \in {"idle", "load", "open", "play", "unload", "off"}
    /\ cur \in Entry \cup {Null} /\ next \in Entry \cup {Null}
    /\ why \in Reasons \cup {"none"}
    /\ pos \in Pos
    /\ active \subseteq {"load", "unload"}
    /\ dirty \in BOOLEAN
    /\ mq \in Seq(MEvents)
    /\ mpc \in {"wait", "load1", "load2", "load3", "unload1", "exited"}
    /\ tlocal \in MrlState \cup {Null}
    /\ treload \in Resume /\ start \in Resume /\ reload \in Resume
    /\ gpc \in {"run", "reload", "quit", "drain", "done"}
    /\ mrl \in AnyMrl
    /\ params \in MrlState
    /\ state \in {"stopped", "running", "error"}
    /\ loading \in BOOLEAN
    /\ time \in Pos
    /\ gq \in Seq(GEvents)
    /\ history \in [Keys -> Resume]
    /\ loads \in Ids
    /\ onquit \in [mrl: AnyMrl, time: Pos] \cup {Null}

Init ==
    /\ cpc = "idle" /\ cur = Null /\ next = Null /\ why = "none" /\ pos = 0
    /\ active = {} /\ dirty = FALSE /\ mq = <<>>
    /\ mpc = "wait" /\ tlocal = Null /\ treload = -1 /\ start = -1
    /\ gpc = "run" /\ mrl = NoMrl /\ params = Nothing /\ state = "stopped"
    /\ loading = FALSE /\ time = 0 /\ gq = <<>> /\ reload = -1
    /\ history = [k \in Keys |-> -1]
    /\ loads = 0 /\ onquit = Null

-----------------------------------------------------------------------------
(* The core of libmpv, as far as bomi depends on it: the order of START_FILE, *)
(* the on_load hook, FILE_LOADED, the on_unload hook and END_FILE.           *)

Event(e)       == [ev |-> e, id |-> cur.id]
EndEvent       == [ev |-> "end", id |-> cur.id, reason |-> why]
ShutdownEvent  == [ev |-> "shutdown", id |-> 0]

\* terminate_playback: run the on_unload hook for the current file.
Terminate ==
    /\ cpc' = "unload"
    /\ active' = active \cup {"unload"}
    /\ mq' = Append(mq, Event("unload"))

CoreStart ==
    /\ cpc = "idle" /\ next # Null /\ why # "quit"
    /\ cpc' = "load" /\ cur' = next /\ next' = Null
    /\ why' = "none" /\ pos' = 0 /\ dirty' = (dirty \/ pos # 0)
    /\ active' = active \cup {"load"}
    /\ mq' = mq \o <<[ev |-> "start", id |-> next.id], [ev |-> "load", id |-> next.id]>>
    /\ UNCHANGED <<clientVars, gpc, guiVars, gq, reload, history, ghostVars>>

\* The core waits for the ack of on_load; only a quit cuts the wait short.
CoreLoadDone ==
    /\ cpc = "load"
    /\ "load" \notin active \/ why = "quit"
    /\ \/ why = "none" /\ cpc' = "open" /\ UNCHANGED <<active, mq>>
       \/ why # "none" /\ Terminate
    /\ UNCHANGED <<cur, next, why, pos, dirty, clientVars, gpc, guiVars, gq,
                   reload, history, ghostVars>>

\* No start option is passed for a position of 0 or -1.
From(resume) == IF resume > 0 THEN resume ELSE 0

CoreOpened ==
    /\ cpc = "open"
    /\ cpc' = "play"
    /\ pos' = From(start) /\ dirty' = (dirty \/ start > 0)
    /\ mq' = Append(mq, Event("loaded"))
    /\ UNCHANGED <<cur, next, why, active, clientVars, gpc, guiVars, gq, reload,
                   history, ghostVars>>

CoreOpenFails ==
    /\ cpc = "open"
    /\ why' = (IF why = "none" THEN "error" ELSE why)
    /\ Terminate
    /\ UNCHANGED <<cur, next, pos, dirty, clientVars, gpc, guiVars, gq, reload,
                   history, ghostVars>>

CoreAdvance ==
    /\ cpc = "play" /\ why = "none" /\ pos < MaxPos
    /\ pos' = pos + 1 /\ dirty' = TRUE
    /\ UNCHANGED <<cpc, cur, next, why, active, mq, clientVars, gpc, guiVars, gq,
                   reload, history, ghostVars>>

\* The play loop ends: by itself, or because stop_play has been set.
CoreFinish ==
    /\ cpc = "play"
    /\ \/ why = "none" /\ why' \in {"eof", "error"}
       \/ why # "none" /\ UNCHANGED why
    /\ Terminate
    /\ UNCHANGED <<cur, next, pos, dirty, clientVars, gpc, guiVars, gq, reload,
                   history, ghostVars>>

CoreUnloaded ==
    /\ cpc = "unload" /\ "unload" \notin active
    /\ cpc' = "idle" /\ cur' = Null /\ pos' = 0 /\ dirty' = (dirty \/ pos # 0)
    /\ why' = (IF why = "quit" THEN "quit" ELSE "none")
    /\ mq' = Append(mq, EndEvent)
    /\ start' = -1
    /\ UNCHANGED <<next, active, mpc, tlocal, treload, gpc, guiVars, gq, reload, history,
                   ghostVars>>

CoreOff ==
    /\ cpc = "idle" /\ why = "quit"
    /\ cpc' = "off" /\ mq' = Append(mq, ShutdownEvent)
    /\ UNCHANGED <<cur, next, why, pos, active, dirty, clientVars, gpc, guiVars,
                   gq, reload, history, ghostVars>>

Core == CoreStart \/ CoreLoadDone \/ CoreOpened \/ CoreOpenFails \/ CoreAdvance
          \/ CoreFinish \/ CoreUnloaded \/ CoreOff

-----------------------------------------------------------------------------
(* The mpv client thread.                                                   *)

Popped(e) == mpc = "wait" /\ mq # <<>> /\ Head(mq).ev = e /\ mq' = Tail(mq)

StartFile ==
    /\ Popped("start")
    /\ gq' = gq \o <<[ev |-> "state", to |-> "running"], [ev |-> "loading", on |-> TRUE]>>
    /\ UNCHANGED <<coreVars, clientVars, gpc, guiVars, reload, history, ghostVars>>

\* onLoad copies the state of the engine under its mutex ...
OnLoadCopy ==
    /\ Popped("load")
    /\ tlocal' = [id |-> cur.id, mrl |-> cur.mrl, resume |-> params.resume]
    /\ mpc' = "load1"
    /\ UNCHANGED <<coreVars, treload, start, gpc, guiVars, gq, reload, history, ghostVars>>

\* ... takes the position a reload has left for it under the mutex again ...
OnLoadTake ==
    /\ mpc = "load1" /\ mpc' = "load2"
    /\ treload' = reload /\ reload' = -1
    /\ UNCHANGED <<coreVars, mq, tlocal, start, gpc, guiVars, gq, history, ghostVars>>

\* ... and, unless there was one, asks the history where to resume.
OnLoadHistory ==
    LET unique == tlocal.mrl \in Unique
        stored == IF unique THEN history[tlocal.mrl] ELSE -1
    IN  /\ mpc = "load2" /\ mpc' = "load3"
        /\ IF treload < 0
           THEN /\ tlocal' = [tlocal EXCEPT !.resume = stored]
                /\ start' = IF cur.resume THEN stored ELSE -1
           ELSE /\ UNCHANGED tlocal
                /\ start' = IF unique THEN treload ELSE -1
        /\ UNCHANGED <<coreVars, mq, treload, gpc, guiVars, gq, reload, history, ghostVars>>

SyncSkippedOnReload == IF treload < 0 THEN <<[ev |-> "sync", ms |-> tlocal]>> ELSE <<>>
SyncSkippedIfStopped == IF why = "none" THEN <<[ev |-> "sync", ms |-> tlocal]>> ELSE <<>>
SyncPosted == <<[ev |-> "sync", ms |-> tlocal]>>

\* The loaded state goes to the GUI before the hook is acknowledged.
OnLoadSync ==
    /\ mpc = "load3" /\ mpc' = "wait"
    /\ gq' = gq \o SyncPosted
    /\ tlocal' = Null /\ treload' = -1
    /\ active' = active \ {"load"}
    /\ UNCHANGED <<cpc, cur, next, why, pos, dirty, mq, start, gpc, guiVars,
                   reload, history, ghostVars>>

FileLoaded ==
    /\ Popped("loaded")
    /\ gq' = gq \o <<[ev |-> "state", to |-> "running"], [ev |-> "loading", on |-> FALSE],
                     [ev |-> "start", id |-> Head(mq).id]>>
    /\ UNCHANGED <<coreVars, clientVars, gpc, guiVars, reload, history, ghostVars>>

\* onUnload copies the state of the engine under its mutex, asks libmpv for the
\* title, and only then reads the position, which the GUI thread owns.
OnUnloadCopy ==
    /\ Popped("unload")
    /\ tlocal' = params /\ mpc' = "unload1"
    /\ UNCHANGED <<coreVars, treload, start, gpc, guiVars, gq, reload, history, ghostVars>>

PositionRoundedUp == time + 1
Position == time

TimeAskedOfGui == mpc = "unload1" /\ gpc # "quit"
TimeRead == mpc = "unload1"

OnUnloadTime ==
    /\ TimeRead /\ mpc' = "wait"
    /\ tlocal' = [tlocal EXCEPT !.resume = Position]
    /\ active' = active \ {"unload"}
    /\ UNCHANGED <<cpc, cur, next, why, pos, dirty, mq, treload, start, gpc, guiVars,
                   gq, reload, history, ghostVars>>

Ended(last) == [ev |-> "end", id |-> Head(mq).id, last |-> last,
                reason |-> Head(mq).reason]

EndClearedFirst == <<[ev |-> "loading", on |-> FALSE], Ended(Null)>>
EndStillLoading == <<Ended(tlocal)>>
EndOnlyIfSynced ==
    <<[ev |-> "loading", on |-> FALSE]>>
        \o (IF tlocal.id = Head(mq).id THEN <<Ended(tlocal)>> ELSE <<>>)
EndPosted == <<[ev |-> "loading", on |-> FALSE], Ended(tlocal)>>

EndFile ==
    /\ Popped("end")
    /\ gq' = gq \o EndPosted
    /\ tlocal' = Null
    /\ UNCHANGED <<coreVars, mpc, treload, start, gpc, guiVars, reload, history, ghostVars>>

\* libmpv notifies property changes only to a client that has no event pending.
TimePos ==
    /\ mpc = "wait" /\ mq = <<>> /\ dirty
    /\ gq' = Append(gq, [ev |-> "time", pos |-> pos])
    /\ dirty' = FALSE
    /\ UNCHANGED <<cpc, cur, next, why, pos, active, mq, clientVars, gpc, guiVars,
                   reload, history, ghostVars>>

MpvExit ==
    /\ Popped("shutdown") /\ mpc' = "exited"
    /\ UNCHANGED <<coreVars, tlocal, treload, start, gpc, guiVars, gq, reload,
                   history, ghostVars>>

Client == StartFile \/ OnLoadCopy \/ OnLoadTake \/ OnLoadHistory \/ OnLoadSync
            \/ FileLoaded \/ OnUnloadCopy \/ OnUnloadTime \/ EndFile \/ TimePos
            \/ MpvExit

-----------------------------------------------------------------------------
(* The GUI thread: what the rest of the player asks of the engine.           *)

\* loadfile ... replace: the entry becomes the one to play, the current file
\* has to end.
LoadFile(m, resume, keep) ==
    /\ loads' = loads + 1
    /\ next' = [id |-> loads + 1, mrl |-> m, resume |-> resume, keep |-> keep]
    /\ why' = (IF cpc \in {"idle", "off"} THEN why ELSE "stop")

Load(m, resume) ==
    /\ gpc = "run" /\ loads < MaxLoads
    /\ mrl' = m
    /\ LoadFile(m, resume, -1)
    /\ UNCHANGED <<cpc, cur, pos, active, dirty, mq, clientVars, gpc, params, state,
                   loading, time, gq, reload, history, onquit>>

\* reload() leaves the position under the mutex, then loads the same Mrl again.
Reload ==
    /\ gpc = "run" /\ loads < MaxLoads /\ state # "stopped" /\ mrl # NoMrl
    /\ reload' = time /\ gpc' = "reload"
    /\ UNCHANGED <<coreVars, mq, clientVars, guiVars, gq, history, ghostVars>>

ReloadLoad ==
    /\ gpc = "reload" /\ gpc' = "run"
    /\ LoadFile(mrl, TRUE, time)
    /\ UNCHANGED <<cpc, cur, pos, active, dirty, mq, clientVars, guiVars, gq, reload,
                   history, onquit>>

StopFile == next' = Null /\ why' = (IF cpc \in {"idle", "off"} THEN why ELSE "stop")

Stop ==
    /\ gpc = "run" /\ (cur # Null \/ next # Null)
    /\ StopFile
    /\ UNCHANGED <<cpc, cur, pos, active, dirty, mq, clientVars, gpc, guiVars, gq,
                   reload, history, ghostVars>>

\* setMrl: a medium is chosen but not played.
SetMrl(m) ==
    /\ gpc = "run" /\ mrl # m /\ loads < MaxLoads
    /\ StopFile
    /\ mrl' = m /\ loads' = loads + 1
    /\ UNCHANGED <<cpc, cur, pos, active, dirty, mq, clientVars, gpc, params, state,
                   loading, time, gq, reload, history, onquit>>

\* MainWindow::Data::commitData: tell libmpv to quit and wait for its thread with
\* the event loop blocked, then handle once what has been posted meanwhile.
Shutdown ==
    /\ gpc = "run" /\ gpc' = "quit"
    /\ why' = "quit"
    /\ onquit' = IF cpc = "play" /\ why = "none" /\ params.id = cur.id
                 THEN [mrl |-> params.mrl, time |-> time] ELSE Null
    /\ UNCHANGED <<cpc, cur, next, pos, active, dirty, mq, clientVars, guiVars, gq,
                   reload, history, loads>>

EventsBeforeWait == gpc = "quit"
Terminated == gpc = "quit" /\ mpc = "exited"

WaitUntilTerminated ==
    /\ Terminated /\ gpc' = "drain"
    /\ UNCHANGED <<coreVars, mq, clientVars, guiVars, gq, reload, history, ghostVars>>

Exit ==
    /\ gpc = "drain" /\ gq = <<>> /\ gpc' = "done"
    /\ UNCHANGED <<coreVars, mq, clientVars, guiVars, gq, reload, history, ghostVars>>

-----------------------------------------------------------------------------
(* The GUI thread: PlayEngine::Data::process.                               *)

Taken(e) == gpc \in {"run", "drain"} /\ gq # <<>> /\ Head(gq).ev = e /\ gq' = Tail(gq)

\* HistoryModel::update(const MrlState*, bool)
Remember(ms) == IF ms.mrl \in Keys THEN [history EXCEPT ![ms.mrl] = ms.resume]
                ELSE history

StateChange ==
    /\ Taken("state") /\ state' = Head(gq).to
    /\ UNCHANGED <<coreVars, mq, clientVars, gpc, mrl, params, loading, time, reload,
                   history, ghostVars>>

WaitingChange ==
    /\ Taken("loading") /\ loading' = Head(gq).on
    /\ UNCHANGED <<coreVars, mq, clientVars, gpc, mrl, params, state, time, reload,
                   history, ghostVars>>

Tick ==
    /\ Taken("time") /\ time' = Head(gq).pos
    /\ UNCHANGED <<coreVars, mq, clientVars, gpc, mrl, params, state, loading, reload,
                   history, ghostVars>>

SyncMrlState ==
    /\ Taken("sync")
    /\ params' = Head(gq).ms
    /\ history' = Remember(Head(gq).ms)
    /\ UNCHANGED <<coreVars, mq, clientVars, gpc, mrl, state, loading, time, reload,
                   ghostVars>>

\* emits started(params.mrl()); the timings, editions and the title are not modelled.
StartPlayback ==
    /\ Taken("start")
    /\ UNCHANGED <<coreVars, mq, clientVars, gpc, guiVars, reload, history, ghostVars>>

\* What an end event records: a file played to its end has nothing to resume.
Last(e) == IF e.reason = "eof" THEN [e.last EXCEPT !.resume = -1] ELSE e.last

EndPlayback ==
    /\ Taken("end")
    /\ state' = IF Head(gq).reason = "error" THEN "error" ELSE "stopped"
    /\ history' = Remember(Last(Head(gq)))
    /\ UNCHANGED <<coreVars, mq, clientVars, gpc, mrl, params, loading, time, reload,
                   ghostVars>>

Process == StateChange \/ WaitingChange \/ Tick \/ SyncMrlState \/ StartPlayback
             \/ EndPlayback

User == \/ \E m \in Mrls, r \in BOOLEAN : Load(m, r)
        \/ Reload \/ Stop \/ Shutdown
        \/ \E m \in Mrls : SetMrl(m)

Terminating == gpc = "done" /\ UNCHANGED vars

Next == Core \/ Client \/ Process \/ User \/ ReloadLoad \/ WaitUntilTerminated
          \/ Exit \/ Terminating

Spec == Init /\ [][Next]_vars

\* The threads run whenever they can; nobody has to press a button, and a file
\* may play (or stay paused) for ever.
FairSpec ==
    /\ Spec
    /\ WF_vars(CoreStart \/ CoreLoadDone \/ CoreOpened \/ CoreOpenFails
                 \/ CoreUnloaded \/ CoreOff)
    /\ WF_vars(CoreFinish /\ why # "none")
    /\ WF_vars(Client) /\ WF_vars(Process)
    /\ WF_vars(ReloadLoad) /\ WF_vars(WaitUntilTerminated) /\ WF_vars(Exit)

-----------------------------------------------------------------------------
(* Properties.                                                              *)

\* Every EndPlayback event carries the state of the file that has ended: the
\* handler dereferences it (Q_ASSERT(last.data()) in process).
EndCarriesState ==
    \A i \in 1 .. Len(gq) : gq[i].ev = "end" => gq[i].last # Null

\* The parameters the GUI thread will hold when it handles event i of its queue.
ParamsAt(i) ==
    LET syncs == {j \in 1 .. i - 1 : gq[j].ev = "sync"}
    IN  IF syncs = {} THEN params
        ELSE gq[CHOOSE j \in syncs : \A k \in syncs : k <= j].ms

\* When StartPlayback is handled, the parameters of the engine are those of the
\* very file that has started: started(params.mrl()) names that file.
StartedIsSynced ==
    \A i \in 1 .. Len(gq) : gq[i].ev = "start" => ParamsAt(i).id = gq[i].id

\* Once every queue is empty, what the GUI shows is what libmpv does: the state,
\* the loading indicator, the parameters and the position.
Settled ==
    (mq = <<>> /\ gq = <<>> /\ mpc = "wait" /\ ~dirty /\ cpc # "unload") =>
        /\ loading <=> cpc \in {"load", "open"}
        /\ (state = "running") <=> cpc \in {"load", "open", "play"}
        /\ cpc \in {"open", "play"} => params.id = cur.id /\ params.mrl = cur.mrl
        /\ time = pos

\* After a clean exit the history holds the position that was on display when
\* the user quit, although libmpv ends the file while the event loop is blocked.
SavedOnExit ==
    (gpc = "done" /\ onquit # Null /\ onquit.mrl \in Keys) =>
        history[onquit.mrl] = onquit.time

\* Quitting always ends: no thread waits for another one for ever.
QuitCompletes == (gpc = "quit") ~> (gpc = "done")

\* Every file that libmpv opens reaches the GUI, also when it fails, is stopped
\* or is replaced at once.
OpenedIsSynced ==
    \A i \in 1 .. MaxLoads : (cur # Null /\ cur.id = i) ~> (params.id = i)

\* A reload gives its position to the file it loads again, and to no other file
\* (CHANGES.txt: "reserve state on reloading").
ReloadKeepsPlace ==
    (mpc = "load3" /\ (treload > 0 \/ cur.keep > 0)) => treload = cur.keep
=============================================================================

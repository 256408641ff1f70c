-------------------------- MODULE PlayEngineProofs --------------------------
(***************************************************************************)
(* TypeOK and EndCarriesState hold of PlayEngine for every set of media    *)
(* and every bound.                                                        *)
(*                                                                         *)
(* Neither is inductive.  That an EndPlayback event carries a state rests  *)
(* on the order of the hooks: the core appends END_FILE only once on_unload*)
(* is acknowledged, and then nothing is queued before it, so that no       *)
(* on_load can clear t.local between the two.  HookOrder says so.          *)
(***************************************************************************)
EXTENDS PlayEngine, TLAPS

OnLoad == {"load1", "load2", "load3"}

\* A file is current from START_FILE to END_FILE, and it ends for a reason.
CurrentFile ==
    /\ cpc \in {"load", "open", "play", "unload"} => cur # Null
    /\ cpc = "unload" => why # "none"

\* The on_load hook of the current file: queued or running, once, until its ack.
LoadHook ==
    /\ \A i \in 1 .. Len(mq) : mq[i].ev = "load" =>
          cpc \in {"load", "unload"} /\ "load" \in active /\ mpc \notin OnLoad
    /\ \A i, j \in 1 .. Len(mq) : (mq[i].ev = "load" /\ mq[j].ev = "load") => i = j
    /\ mpc \in OnLoad =>
          cpc \in {"load", "unload"} /\ "load" \in active /\ tlocal # Null

\* The on_unload hook is the last event of its file before END_FILE; once it is
\* acknowledged the client has nothing left to do and t.local is set.
UnloadHook ==
    /\ \A i \in 1 .. Len(mq) : mq[i].ev = "unload" =>
          i = Len(mq) /\ cpc = "unload" /\ "unload" \in active
    /\ mpc = "unload1" =>
          mq = <<>> /\ cpc = "unload" /\ "unload" \in active /\ tlocal # Null
    /\ (cpc = "unload" /\ "unload" \notin active) =>
          mq = <<>> /\ mpc = "wait" /\ tlocal # Null

\* END_FILE is always the next event of the client, and finds t.local set.
EndNext ==
    \A i \in 1 .. Len(mq) : mq[i].ev = "end" =>
        i = 1 /\ mpc = "wait" /\ tlocal # Null

HookOrder == CurrentFile /\ LoadHook /\ UnloadHook /\ EndNext

\* reload() has checked that there is something to load again.
Reloading == gpc = "reload" => loads < MaxLoads /\ mrl # NoMrl

IInv == TypeOK /\ HookOrder /\ Reloading /\ EndCarriesState

USE MrlAssumption, BoundAssumption, NullAssumption

-----------------------------------------------------------------------------

\* The initial state satisfies the inductive invariant.
LEMMA InitIInv == Init => IInv
  <1> SUFFICES ASSUME Init PROVE IInv
    OBVIOUS
  <1>1. TypeOK
    <2>1. 0 \in Ids /\ 0 \in Pos /\ -1 \in Resume
      BY DEF Ids, Pos, Resume
    <2>2. Nothing \in MrlState
      BY <2>1 DEF Nothing, MrlState, AnyMrl
    <2>3. [k \in Keys |-> -1] \in [Keys -> Resume]
      BY <2>1
    <2>4. <<>> \in Seq(MEvents) /\ <<>> \in Seq(GEvents)
      OBVIOUS
    <2>5. history \in [Keys -> Resume]
      BY <2>3 DEF Init
    <2> QED
      BY <2>1, <2>2, <2>4, <2>5 DEF Init, TypeOK, AnyMrl
  <1>2. HookOrder /\ Reloading /\ EndCarriesState
    BY DEF Init, HookOrder, CurrentFile, LoadHook, UnloadHook, EndNext, OnLoad,
           Reloading, EndCarriesState
  <1> QED
    BY <1>1, <1>2 DEF IInv

\* What the core does keeps the types.
LEMMA CoreTypeOK == IInv /\ Core => TypeOK'
  <1> SUFFICES ASSUME IInv, Core PROVE TypeOK'
    OBVIOUS
  <1> USE DEF IInv, TypeOK
  <1>0. /\ Ids = 0 .. MaxLoads /\ Pos = 0 .. MaxPos /\ Resume = -1 .. MaxPos
        /\ 0 \in Ids
        /\ \A e \in Entry : e.id \in Ids
    BY DEF Ids, Pos, Resume, Entry
  <1>1. \A e : e \in MEvents => mq \o <<>> \in Seq(MEvents) /\ Append(mq, e) \in Seq(MEvents)
    OBVIOUS
  <1>2. ASSUME cur # Null
        PROVE  /\ Event("unload") \in MEvents /\ Event("loaded") \in MEvents
               /\ why \in Reasons => EndEvent \in MEvents
    BY <1>0, <1>2 DEF Event, EndEvent, MEvents
  <1>3. CASE CoreStart
    <2>1. next \in Entry
      BY <1>3 DEF CoreStart
    <2>2. /\ [ev |-> "start", id |-> next.id] \in MEvents
          /\ [ev |-> "load", id |-> next.id] \in MEvents
      BY <2>1, <1>0 DEF MEvents
    <2>3. mq' \in Seq(MEvents)
      BY <2>2, <1>3 DEF CoreStart
    <2> QED
      BY <2>1, <2>3, <1>3, <1>0 DEF CoreStart, clientVars, guiVars, ghostVars
  <1>4. CASE CoreLoadDone
    <2>1. mq' \in Seq(MEvents) /\ active' \subseteq {"load", "unload"}
      BY <1>4, <1>1, <1>2 DEF CoreLoadDone, Terminate, HookOrder, CurrentFile
    <2> QED
      BY <2>1, <1>4 DEF CoreLoadDone, Terminate, clientVars, guiVars, ghostVars
  <1>5. CASE CoreOpened
    BY <1>5, <1>1, <1>2, <1>0 DEF CoreOpened, From, HookOrder, CurrentFile,
       clientVars, guiVars, ghostVars
  <1>6. CASE CoreOpenFails
    BY <1>6, <1>1, <1>2 DEF CoreOpenFails, Terminate, Reasons, HookOrder, CurrentFile,
       clientVars, guiVars, ghostVars
  <1>7. CASE CoreAdvance
    BY <1>7, <1>0 DEF CoreAdvance, clientVars, guiVars, ghostVars
  <1>8. CASE CoreFinish
    BY <1>8, <1>1, <1>2 DEF CoreFinish, Terminate, Reasons, HookOrder, CurrentFile,
       clientVars, guiVars, ghostVars
  <1>9. CASE CoreUnloaded
    BY <1>9, <1>1, <1>2, <1>0 DEF CoreUnloaded, Reasons, HookOrder, CurrentFile,
       clientVars, guiVars, ghostVars
  <1>10. CASE CoreOff
    <2>1. ShutdownEvent \in MEvents
      BY <1>0 DEF ShutdownEvent, MEvents
    <2> QED
      BY <2>1, <1>1, <1>10 DEF CoreOff, clientVars, guiVars, ghostVars
  <1> QED
    BY <1>3, <1>4, <1>5, <1>6, <1>7, <1>8, <1>9, <1>10 DEF Core

\* Popping an event of the core leaves a queue of events.
LEMMA PoppedType ==
    ASSUME TypeOK, NEW e, Popped(e)
    PROVE  mq' \in Seq(MEvents) /\ Head(mq) \in MEvents /\ Head(mq).id \in Ids
  BY DEF TypeOK, Popped, MEvents

\* So does taking an event of the GUI thread.
LEMMA TakenType ==
    ASSUME TypeOK, NEW e, Taken(e)
    PROVE  gq' \in Seq(GEvents) /\ Head(gq) \in GEvents
  BY DEF TypeOK, Taken

\* What the client thread posts are events of the GUI thread.
LEMMA PostType ==
    ASSUME TypeOK, NEW s \in Seq(GEvents)
    PROVE  gq \o s \in Seq(GEvents)
  BY DEF TypeOK

\* What the client thread does keeps the types.
LEMMA ClientTypeOK == IInv /\ Client => TypeOK'
  <1> SUFFICES ASSUME IInv, Client PROVE TypeOK'
    OBVIOUS
  <1>0. TypeOK /\ HookOrder
    BY DEF IInv
  <1>1. CASE StartFile
    <2>1. <<[ev |-> "state", to |-> "running"], [ev |-> "loading", on |-> TRUE]>>
            \in Seq(GEvents)
      BY DEF GEvents
    <2>2. gq' \in Seq(GEvents)
      BY <2>1, <1>0, <1>1, PostType DEF StartFile
    <2> QED
      BY <2>2, <1>0, <1>1, PoppedType
         DEF StartFile, TypeOK, coreVars, clientVars, guiVars, ghostVars
  <1>2. CASE OnLoadCopy
    <2>1. \E i \in 1 .. Len(mq) : mq[i].ev = "load"
      BY <1>0, <1>2 DEF OnLoadCopy, Popped, TypeOK
    <2>2. cur \in Entry
      BY <2>1, <1>0 DEF HookOrder, LoadHook, CurrentFile, TypeOK
    <2>3. tlocal' \in MrlState
      BY <2>2, <1>0, <1>2 DEF OnLoadCopy, TypeOK, MrlState, Entry, AnyMrl
    <2> QED
      BY <2>3, <1>0, <1>2, PoppedType
         DEF OnLoadCopy, TypeOK, coreVars, guiVars, ghostVars
  <1>3. CASE OnLoadTake
    BY <1>0, <1>3 DEF OnLoadTake, TypeOK, coreVars, guiVars, ghostVars, Resume
  <1>4. CASE OnLoadHistory
    <2>1. tlocal \in MrlState
      BY <1>0, <1>4 DEF OnLoadHistory, HookOrder, LoadHook, OnLoad, TypeOK
    <2>2. (IF tlocal.mrl \in Unique THEN history[tlocal.mrl] ELSE -1) \in Resume
      BY <1>0 DEF TypeOK, Keys, Resume
    <2>3. [tlocal EXCEPT !.resume = IF tlocal.mrl \in Unique
                                    THEN history[tlocal.mrl] ELSE -1] \in MrlState
      BY <2>1, <2>2 DEF MrlState
    <2>4. tlocal' \in MrlState
      BY <2>1, <2>3, <1>4 DEF OnLoadHistory
    <2>5. treload \in Resume /\ -1 \in Resume
      BY <1>0 DEF TypeOK, Resume
    <2>6. start' \in Resume
      BY <2>2, <2>5, <1>4 DEF OnLoadHistory
    <2> QED
      BY <2>4, <2>6, <1>0, <1>4 DEF OnLoadHistory, TypeOK, coreVars, guiVars, ghostVars
  <1>5. CASE OnLoadSync
    <2>1. tlocal \in MrlState
      BY <1>0, <1>5 DEF OnLoadSync, HookOrder, LoadHook, OnLoad, TypeOK
    <2>2. SyncPosted \in Seq(GEvents)
      BY <2>1 DEF SyncPosted, GEvents
    <2>3. gq' \in Seq(GEvents)
      BY <2>2, <1>0, <1>5, PostType DEF OnLoadSync
    <2> QED
      BY <2>3, <1>0, <1>5 DEF OnLoadSync, TypeOK, guiVars, ghostVars, Resume
  <1>6. CASE FileLoaded
    <2>1. <<[ev |-> "state", to |-> "running"], [ev |-> "loading", on |-> FALSE],
            [ev |-> "start", id |-> Head(mq).id]>> \in Seq(GEvents)
      BY <1>0, <1>6, PoppedType DEF FileLoaded, GEvents
    <2>2. gq' \in Seq(GEvents)
      BY <2>1, <1>0, <1>6, PostType DEF FileLoaded
    <2> QED
      BY <2>2, <1>0, <1>6, PoppedType
         DEF FileLoaded, TypeOK, coreVars, clientVars, guiVars, ghostVars
  <1>7. CASE OnUnloadCopy
    BY <1>0, <1>7, PoppedType DEF OnUnloadCopy, TypeOK, coreVars, guiVars, ghostVars
  <1>8. CASE OnUnloadTime
    <2>1. tlocal \in MrlState
      BY <1>0, <1>8 DEF OnUnloadTime, TimeRead, HookOrder, UnloadHook, TypeOK
    <2>2. time \in Resume
      BY <1>0 DEF TypeOK, Pos, Resume
    <2>3. tlocal' \in MrlState
      BY <2>1, <2>2, <1>8 DEF OnUnloadTime, Position, MrlState
    <2> QED
      BY <2>3, <1>0, <1>8 DEF OnUnloadTime, TypeOK, guiVars, ghostVars
  <1>9. CASE EndFile
    <2>1. Head(mq) \in MEvents /\ Head(mq).ev = "end" /\ mq' \in Seq(MEvents)
      BY <1>0, <1>9, PoppedType DEF EndFile, Popped
    <2>2. Head(mq).id \in Ids /\ Head(mq).reason \in Reasons
      BY <2>1 DEF MEvents
    <2>3. EndPosted \in Seq(GEvents)
      BY <2>2, <1>0 DEF EndPosted, Ended, GEvents, TypeOK
    <2>4. gq' \in Seq(GEvents)
      BY <2>3, <1>0, <1>9, PostType DEF EndFile
    <2>5. UNCHANGED <<coreVars, mpc, treload, start, gpc, guiVars, reload, history,
                      ghostVars>> /\ tlocal' = Null
      BY <1>9 DEF EndFile
    <2> QED
      BY <2>1, <2>4, <2>5, <1>0 DEF TypeOK, coreVars, guiVars, ghostVars
  <1>10. CASE TimePos
    <2>1. [ev |-> "time", pos |-> pos] \in GEvents
      BY <1>0 DEF GEvents, TypeOK
    <2>2. gq' \in Seq(GEvents)
      BY <2>1, <1>0, <1>10 DEF TimePos, TypeOK
    <2>3. /\ UNCHANGED <<cpc, cur, next, why, pos, active, mq, clientVars, gpc, guiVars,
                          reload, history, ghostVars>>
          /\ dirty' \in BOOLEAN
      BY <1>10 DEF TimePos
    <2> QED
      BY <2>2, <2>3, <1>0 DEF TypeOK, clientVars, guiVars, ghostVars
  <1>11. CASE MpvExit
    BY <1>0, <1>11, PoppedType DEF MpvExit, TypeOK, coreVars, guiVars, ghostVars
  <1> QED
    BY <1>1, <1>2, <1>3, <1>4, <1>5, <1>6, <1>7, <1>8, <1>9, <1>10, <1>11 DEF Client

\* What the rest of the player asks of the engine keeps the types.
LEMMA UserTypeOK ==
    IInv /\ (User \/ ReloadLoad \/ WaitUntilTerminated \/ Exit) => TypeOK'
  <1> SUFFICES ASSUME IInv, User \/ ReloadLoad \/ WaitUntilTerminated \/ Exit
               PROVE  TypeOK'
    OBVIOUS
  <1>0. TypeOK /\ Reloading
    BY DEF IInv
  <1>1. /\ -1 \in Resume /\ time \in Resume
        /\ loads \in Nat /\ Ids = 0 .. MaxLoads
    BY <1>0 DEF TypeOK, Resume, Pos, Ids
  <1>2. ASSUME NEW m \in Mrls, NEW r \in BOOLEAN, NEW k \in Resume,
               LoadFile(m, r, k), loads < MaxLoads
        PROVE  loads' \in Ids /\ next' \in Entry /\ why' \in Reasons \cup {"none"}
    <2>1. loads + 1 \in Ids
      BY <1>1, <1>2
    <2> QED
      BY <2>1, <1>0, <1>2 DEF LoadFile, Entry, TypeOK, Reasons
  <1>3. ASSUME NEW m \in Mrls, NEW r \in BOOLEAN, Load(m, r)
        PROVE  TypeOK'
    <2>1. loads' \in Ids /\ next' \in Entry /\ why' \in Reasons \cup {"none"}
      BY <1>1, <1>2, <1>3 DEF Load
    <2> QED
      BY <2>1, <1>0, <1>3 DEF Load, TypeOK, clientVars, AnyMrl
  <1>4. CASE Reload
    BY <1>0, <1>1, <1>4 DEF Reload, TypeOK, coreVars, clientVars, guiVars, ghostVars
  <1>5. CASE ReloadLoad
    <2>1. mrl \in Mrls /\ loads < MaxLoads
      BY <1>0, <1>5 DEF ReloadLoad, Reloading, TypeOK, AnyMrl
    <2>2. loads' \in Ids /\ next' \in Entry /\ why' \in Reasons \cup {"none"}
      BY <2>1, <1>1, <1>2, <1>5 DEF ReloadLoad
    <2> QED
      BY <2>2, <1>0, <1>5 DEF ReloadLoad, TypeOK, clientVars, guiVars
  <1>6. CASE Stop
    BY <1>0, <1>6 DEF Stop, StopFile, TypeOK, Reasons, clientVars, guiVars, ghostVars
  <1>7. ASSUME NEW m \in Mrls, SetMrl(m)
        PROVE  TypeOK'
    <2>1. loads' \in Ids
      BY <1>1, <1>7 DEF SetMrl
    <2> QED
      BY <2>1, <1>0, <1>7 DEF SetMrl, StopFile, TypeOK, Reasons, clientVars, AnyMrl
  <1>8. CASE Shutdown
    <2>1. onquit' \in [mrl: AnyMrl, time: Pos] \cup {Null}
      BY <1>0, <1>8 DEF Shutdown, TypeOK, MrlState
    <2> QED
      BY <2>1, <1>0, <1>8 DEF Shutdown, TypeOK, Reasons, clientVars, guiVars
  <1>9. CASE WaitUntilTerminated
    BY <1>0, <1>9 DEF WaitUntilTerminated, TypeOK, coreVars, clientVars, guiVars, ghostVars
  <1>10. CASE Exit
    BY <1>0, <1>10 DEF Exit, TypeOK, coreVars, clientVars, guiVars, ghostVars
  <1> QED
    BY <1>3, <1>4, <1>5, <1>6, <1>7, <1>8, <1>9, <1>10 DEF User

\* What the event handlers of the engine do keeps the types.
LEMMA ProcessTypeOK == IInv /\ Process => TypeOK'
  <1> SUFFICES ASSUME IInv, Process PROVE TypeOK'
    OBVIOUS
  <1>0. TypeOK /\ EndCarriesState
    BY DEF IInv
  <1>1. ASSUME NEW ms \in MrlState
        PROVE  Remember(ms) \in [Keys -> Resume]
    BY <1>0 DEF Remember, TypeOK, MrlState
  <1>2. CASE StateChange
    <2>1. state' \in {"stopped", "running", "error"}
      BY <1>0, <1>2, TakenType DEF StateChange, Taken, GEvents
    <2> QED
      BY <2>1, <1>0, <1>2, TakenType
         DEF StateChange, TypeOK, coreVars, clientVars, ghostVars
  <1>3. CASE WaitingChange
    <2>1. loading' \in BOOLEAN
      BY <1>0, <1>3, TakenType DEF WaitingChange, Taken, GEvents
    <2> QED
      BY <2>1, <1>0, <1>3, TakenType
         DEF WaitingChange, TypeOK, coreVars, clientVars, ghostVars
  <1>4. CASE Tick
    <2>1. time' \in Pos
      BY <1>0, <1>4, TakenType DEF Tick, Taken, GEvents
    <2> QED
      BY <2>1, <1>0, <1>4, TakenType DEF Tick, TypeOK, coreVars, clientVars, ghostVars
  <1>5. CASE SyncMrlState
    <2>1. Head(gq).ms \in MrlState
      BY <1>0, <1>5, TakenType DEF SyncMrlState, Taken, GEvents
    <2>2. params' \in MrlState /\ history' \in [Keys -> Resume]
      BY <2>1, <1>1, <1>5 DEF SyncMrlState
    <2> QED
      BY <2>2, <1>0, <1>5, TakenType
         DEF SyncMrlState, TypeOK, coreVars, clientVars, ghostVars
  <1>6. CASE StartPlayback
    BY <1>0, <1>6, TakenType
       DEF StartPlayback, TypeOK, coreVars, clientVars, guiVars, ghostVars
  <1>7. CASE EndPlayback
    <2>1. Head(gq).last \in MrlState
      BY <1>0, <1>7, TakenType DEF EndPlayback, Taken, GEvents, TypeOK, EndCarriesState
    <2>2. [Head(gq).last EXCEPT !.resume = -1] \in MrlState
      BY <2>1 DEF MrlState, Resume
    <2>3. Last(Head(gq)) \in MrlState
      BY <2>1, <2>2 DEF Last
    <2>4. history' \in [Keys -> Resume]
      BY <2>3, <1>1, <1>7 DEF EndPlayback
    <2> QED
      BY <2>4, <1>0, <1>7, TakenType
         DEF EndPlayback, TypeOK, coreVars, clientVars, ghostVars
  <1> QED
    BY <1>2, <1>3, <1>4, <1>5, <1>6, <1>7 DEF Process

-----------------------------------------------------------------------------

\* Appending to the queue of the client adds one event at its end.
LEMMA Appended ==
    ASSUME mq \in Seq(MEvents), NEW e, mq' = Append(mq, e)
    PROVE  /\ Len(mq') = Len(mq) + 1
           /\ \A i \in 1 .. Len(mq') :
                 \/ i = Len(mq) + 1 /\ mq'[i] = e
                 \/ i \in 1 .. Len(mq) /\ mq'[i] = mq[i]
  OBVIOUS

\* Popping removes the first event and moves the others up.
LEMMA PoppedHead ==
    ASSUME mq \in Seq(MEvents), NEW e, Popped(e)
    PROVE  /\ mpc = "wait" /\ Len(mq) \in Nat \ {0} /\ Len(mq') = Len(mq) - 1
           /\ mq[1] = Head(mq) /\ mq[1].ev = e
           /\ \A i \in 1 .. Len(mq') : i + 1 \in 1 .. Len(mq) /\ mq'[i] = mq[i + 1]
  BY DEF Popped

\* The on_unload hook starts when nothing but the events of its file is queued.
LEMMA TerminateOrder ==
    ASSUME TypeOK, HookOrder, Terminate, cpc \in {"load", "open", "play"},
           why' # "none", UNCHANGED <<cur, mpc, tlocal>>,
           cpc # "load" => \A i \in 1 .. Len(mq) : mq[i].ev # "load",
           cpc # "load" => mpc \notin OnLoad
    PROVE  HookOrder'
  <1>1. /\ Len(mq) \in Nat /\ Len(mq') = Len(mq) + 1
        /\ \A i \in 1 .. Len(mq') :
              \/ i = Len(mq) + 1 /\ mq'[i] = Event("unload")
              \/ i \in 1 .. Len(mq) /\ mq'[i] = mq[i]
    BY Appended DEF Terminate, TypeOK
  <1>2. Event("unload").ev = "unload"
    BY DEF Event
  <1>3. cpc' = "unload" /\ active' = active \cup {"unload"}
    BY DEF Terminate
  <1>4. CurrentFile'
    BY <1>3 DEF HookOrder, CurrentFile
  <1>5. LoadHook'
    BY <1>1, <1>2, <1>3 DEF HookOrder, LoadHook, OnLoad
  <1>6. UnloadHook'
    BY <1>1, <1>2, <1>3 DEF HookOrder, UnloadHook
  <1>7. EndNext'
    BY <1>1, <1>2 DEF HookOrder, EndNext
  <1> QED
    BY <1>4, <1>5, <1>6, <1>7 DEF HookOrder

\* A step that touches neither the hooks nor the queue of the client keeps the
\* order, provided it does not withdraw the reason for which a file ends.
LEMMA UntouchedOrder ==
    ASSUME HookOrder, UNCHANGED <<cpc, cur, active, mq, mpc, tlocal>>,
           why # "none" => why' # "none"
    PROVE  HookOrder'
  BY DEF HookOrder, CurrentFile, LoadHook, UnloadHook, EndNext, OnLoad

\* What the core does keeps the order of the hooks.
LEMMA CoreHookOrder == IInv /\ Core => HookOrder'
  <1> SUFFICES ASSUME IInv, Core PROVE HookOrder'
    OBVIOUS
  <1>0. TypeOK /\ HookOrder /\ mq \in Seq(MEvents)
    BY DEF IInv, TypeOK
  <1>1. CASE CoreStart
    <2>1. next \in Entry /\ next # Null
      BY <1>0, <1>1 DEF CoreStart, TypeOK
    <2>2. \A i \in 1 .. Len(mq) : mq[i].ev # "load" /\ mq[i].ev # "unload"
      BY <1>0, <1>1 DEF CoreStart, HookOrder, LoadHook, UnloadHook
    <2>3. mpc \notin OnLoad /\ mpc # "unload1"
      BY <1>0, <1>1 DEF CoreStart, HookOrder, LoadHook, UnloadHook
    <2>4. /\ Len(mq) \in Nat /\ Len(mq') = Len(mq) + 2
          /\ \A i \in 1 .. Len(mq') :
                \/ i = Len(mq) + 1 /\ mq'[i].ev = "start"
                \/ i = Len(mq) + 2 /\ mq'[i].ev = "load"
                \/ i \in 1 .. Len(mq) /\ mq'[i] = mq[i]
      BY <1>0, <1>1 DEF CoreStart
    <2>5. /\ cpc' = "load" /\ cur' = next /\ active' = active \cup {"load"}
          /\ UNCHANGED <<mpc, tlocal>>
      BY <1>1 DEF CoreStart, clientVars
    <2>6. CurrentFile'
      BY <2>1, <2>5 DEF CurrentFile
    <2>7. LoadHook'
      BY <2>2, <2>3, <2>4, <2>5 DEF LoadHook
    <2>8. UnloadHook'
      BY <2>2, <2>3, <2>4, <2>5 DEF UnloadHook
    <2>9. EndNext'
      BY <1>0, <2>4, <2>5 DEF HookOrder, EndNext
    <2> QED
      BY <2>6, <2>7, <2>8, <2>9 DEF HookOrder
  <1>2. CASE CoreLoadDone
    <2>1. CASE why = "none"
      <3>1. "load" \notin active /\ cpc' = "open" /\ UNCHANGED <<cur, active, mq, mpc, tlocal>>
        BY <1>2, <2>1 DEF CoreLoadDone, clientVars
      <3> QED
        BY <1>0, <1>2, <3>1
           DEF CoreLoadDone, HookOrder, CurrentFile, LoadHook, UnloadHook, EndNext, OnLoad
    <2>2. CASE why # "none"
      BY <1>0, <1>2, <2>2, TerminateOrder DEF CoreLoadDone, clientVars
    <2> QED
      BY <2>1, <2>2
  <1>3. CASE CoreOpened
    <2>1. /\ Len(mq) \in Nat /\ Len(mq') = Len(mq) + 1
          /\ \A i \in 1 .. Len(mq') :
                \/ i = Len(mq) + 1 /\ mq'[i] = Event("loaded")
                \/ i \in 1 .. Len(mq) /\ mq'[i] = mq[i]
      BY <1>0, <1>3, Appended DEF CoreOpened
    <2>2. Event("loaded").ev = "loaded"
      BY DEF Event
    <2> QED
      BY <1>0, <1>3, <2>1, <2>2
         DEF CoreOpened, clientVars, HookOrder, CurrentFile, LoadHook, UnloadHook,
             EndNext, OnLoad
  <1>4. CASE CoreOpenFails
    <2>1. why' # "none" /\ cpc = "open"
      BY <1>4 DEF CoreOpenFails
    <2>2. mpc \notin OnLoad /\ \A i \in 1 .. Len(mq) : mq[i].ev # "load"
      BY <1>0, <2>1 DEF HookOrder, LoadHook
    <2> QED
      BY <1>0, <1>4, <2>1, <2>2, TerminateOrder DEF CoreOpenFails, clientVars
  <1>5. CASE CoreAdvance
    BY <1>0, <1>5, UntouchedOrder DEF CoreAdvance, clientVars
  <1>6. CASE CoreFinish
    <2>1. why' # "none" /\ cpc = "play"
      BY <1>6 DEF CoreFinish
    <2>2. mpc \notin OnLoad /\ \A i \in 1 .. Len(mq) : mq[i].ev # "load"
      BY <1>0, <2>1 DEF HookOrder, LoadHook
    <2> QED
      BY <1>0, <1>6, <2>1, <2>2, TerminateOrder DEF CoreFinish, clientVars
  <1>7. CASE CoreUnloaded
    <2>1. mq = <<>> /\ mpc = "wait" /\ tlocal # Null
      BY <1>0, <1>7 DEF CoreUnloaded, HookOrder, UnloadHook
    <2>2. /\ Len(mq') = 1 /\ mq'[1] = EndEvent
          /\ cpc' = "idle" /\ UNCHANGED <<mpc, tlocal, active>>
      BY <2>1, <1>7 DEF CoreUnloaded
    <2>3. EndEvent.ev = "end"
      BY DEF EndEvent
    <2> QED
      BY <2>1, <2>2, <2>3 DEF HookOrder, CurrentFile, LoadHook, UnloadHook, EndNext, OnLoad
  <1>8. CASE CoreOff
    <2>1. /\ Len(mq) \in Nat /\ Len(mq') = Len(mq) + 1
          /\ \A i \in 1 .. Len(mq') :
                \/ i = Len(mq) + 1 /\ mq'[i] = ShutdownEvent
                \/ i \in 1 .. Len(mq) /\ mq'[i] = mq[i]
      BY <1>0, <1>8, Appended DEF CoreOff
    <2>2. ShutdownEvent.ev = "shutdown"
      BY DEF ShutdownEvent
    <2> QED
      BY <1>0, <1>8, <2>1, <2>2
         DEF CoreOff, clientVars, HookOrder, CurrentFile, LoadHook, UnloadHook,
             EndNext, OnLoad
  <1> QED
    BY <1>1, <1>2, <1>3, <1>4, <1>5, <1>6, <1>7, <1>8 DEF Core

\* An event that is no hook and not END_FILE leaves the order as it is.
LEMMA PoppedOrder ==
    ASSUME TypeOK, HookOrder, NEW e, Popped(e), e \notin {"load", "unload", "end"},
           UNCHANGED <<cpc, cur, why, active, tlocal>>, mpc' \in {"wait", "exited"},
           mpc' = "exited" => \A i \in 1 .. Len(mq) : mq[i].ev # "end"
    PROVE  HookOrder'
  <1>1. /\ mpc = "wait" /\ Len(mq) \in Nat \ {0} /\ Len(mq') = Len(mq) - 1
        /\ mq[1].ev = e
        /\ \A i \in 1 .. Len(mq') : i + 1 \in 1 .. Len(mq) /\ mq'[i] = mq[i + 1]
    BY PoppedHead DEF TypeOK
  <1>2. CurrentFile'
    BY DEF HookOrder, CurrentFile
  <1>3. LoadHook'
    <2>1. \A i \in 1 .. Len(mq') : mq'[i].ev = "load" =>
             cpc' \in {"load", "unload"} /\ "load" \in active' /\ mpc' \notin OnLoad
      BY <1>1 DEF HookOrder, LoadHook, OnLoad
    <2>2. \A i, j \in 1 .. Len(mq') : (mq'[i].ev = "load" /\ mq'[j].ev = "load") => i = j
      BY <1>1 DEF HookOrder, LoadHook
    <2>3. mpc' \notin OnLoad
      BY DEF OnLoad
    <2> QED
      BY <2>1, <2>2, <2>3 DEF LoadHook, OnLoad
  <1>4. UnloadHook'
    <2>1. \A i \in 1 .. Len(mq') : mq'[i].ev = "unload" =>
             i = Len(mq') /\ cpc' = "unload" /\ "unload" \in active'
      BY <1>1 DEF HookOrder, UnloadHook
    <2>2. ~(cpc = "unload" /\ "unload" \notin active)
      BY <1>1 DEF HookOrder, UnloadHook
    <2> QED
      BY <2>1, <2>2 DEF UnloadHook
  <1>5. EndNext'
    <2>1. \A i \in 1 .. Len(mq') : mq'[i].ev # "end"
      BY <1>1 DEF HookOrder, EndNext
    <2> QED
      BY <2>1 DEF EndNext
  <1> QED
    BY <1>2, <1>3, <1>4, <1>5 DEF HookOrder

\* What the client thread does keeps the order of the hooks.
LEMMA ClientHookOrder == IInv /\ Client => HookOrder'
  <1> SUFFICES ASSUME IInv, Client PROVE HookOrder'
    OBVIOUS
  <1>0. TypeOK /\ HookOrder /\ mq \in Seq(MEvents)
    BY DEF IInv, TypeOK
  <1>1. CASE StartFile
    BY <1>0, <1>1, PoppedOrder DEF StartFile, Popped, coreVars, clientVars
  <1>2. CASE OnLoadCopy
    <2>1. /\ mpc = "wait" /\ Len(mq) \in Nat \ {0} /\ Len(mq') = Len(mq) - 1
          /\ mq[1].ev = "load"
          /\ \A i \in 1 .. Len(mq') : i + 1 \in 1 .. Len(mq) /\ mq'[i] = mq[i + 1]
      BY <1>0, <1>2, PoppedHead DEF OnLoadCopy
    <2>2. cpc \in {"load", "unload"} /\ "load" \in active /\ cur # Null
      BY <1>0, <2>1 DEF HookOrder, LoadHook, CurrentFile
    <2>3. tlocal' # Null
      <3>1. tlocal' \in MrlState
        BY <1>0, <1>2, <2>2 DEF OnLoadCopy, TypeOK, MrlState, Entry, AnyMrl
      <3> QED
        BY <3>1
    <2>4. mpc' = "load1" /\ UNCHANGED <<cpc, cur, why, active>>
      BY <1>2 DEF OnLoadCopy, coreVars
    <2>5. \A i \in 1 .. Len(mq') : mq'[i].ev # "load" /\ mq'[i].ev # "end"
      BY <1>0, <2>1 DEF HookOrder, LoadHook, EndNext
    <2>6. \A i \in 1 .. Len(mq') : mq'[i].ev = "unload" =>
             i = Len(mq') /\ cpc = "unload" /\ "unload" \in active
      BY <1>0, <2>1 DEF HookOrder, UnloadHook
    <2>7. ~(cpc = "unload" /\ "unload" \notin active)
      BY <1>0, <2>1 DEF HookOrder, UnloadHook
    <2> QED
      BY <1>0, <2>2, <2>3, <2>4, <2>5, <2>6, <2>7
         DEF HookOrder, CurrentFile, LoadHook, UnloadHook, EndNext, OnLoad
  <1>3. CASE OnLoadTake
    BY <1>0, <1>3 DEF OnLoadTake, coreVars, HookOrder, CurrentFile, LoadHook,
       UnloadHook, EndNext, OnLoad
  <1>4. CASE OnLoadHistory
    <2>1. tlocal # Null /\ mpc = "load2" /\ mpc' = "load3"
      BY <1>0, <1>4 DEF OnLoadHistory, HookOrder, LoadHook, OnLoad
    <2>2. tlocal' # Null
      <3>1. tlocal \in MrlState
        BY <1>0, <2>1 DEF TypeOK
      <3>2. \A r \in Resume : [tlocal EXCEPT !.resume = r] \in MrlState
        BY <3>1 DEF MrlState
      <3>3. (IF tlocal.mrl \in Unique THEN history[tlocal.mrl] ELSE -1) \in Resume
        BY <1>0 DEF TypeOK, Keys, Resume
      <3>4. tlocal' \in MrlState
        BY <3>1, <3>2, <3>3, <1>4 DEF OnLoadHistory
      <3> QED
        BY <3>4
    <2>3. UNCHANGED <<cpc, cur, why, active, mq>>
      BY <1>4 DEF OnLoadHistory, coreVars
    <2> QED
      BY <1>0, <2>1, <2>2, <2>3
         DEF HookOrder, CurrentFile, LoadHook, UnloadHook, EndNext, OnLoad
  <1>5. CASE OnLoadSync
    <2>1. mpc = "load3" /\ mpc' = "wait" /\ active' = active \ {"load"}
          /\ UNCHANGED <<cpc, cur, why, mq>>
      BY <1>5 DEF OnLoadSync
    <2>2. \A i \in 1 .. Len(mq) : mq[i].ev # "load" /\ mq[i].ev # "end"
      BY <1>0, <2>1 DEF HookOrder, LoadHook, EndNext, OnLoad
    <2>3. ~(cpc = "unload" /\ "unload" \notin active)
      BY <1>0, <2>1 DEF HookOrder, UnloadHook
    <2> QED
      BY <1>0, <2>1, <2>2, <2>3
         DEF HookOrder, CurrentFile, LoadHook, UnloadHook, EndNext, OnLoad
  <1>6. CASE FileLoaded
    BY <1>0, <1>6, PoppedOrder DEF FileLoaded, Popped, coreVars, clientVars
  <1>7. CASE OnUnloadCopy
    <2>1. /\ mpc = "wait" /\ Len(mq) \in Nat \ {0} /\ Len(mq') = Len(mq) - 1
          /\ mq[1].ev = "unload"
      BY <1>0, <1>7, PoppedHead DEF OnUnloadCopy
    <2>2. Len(mq) = 1 /\ cpc = "unload" /\ "unload" \in active
      BY <1>0, <2>1 DEF HookOrder, UnloadHook
    <2>3. mq' = <<>>
      BY <1>0, <1>7, <2>2 DEF OnUnloadCopy, Popped
    <2>4. mpc' = "unload1" /\ tlocal' = params /\ UNCHANGED <<cpc, cur, why, active>>
      BY <1>7 DEF OnUnloadCopy, coreVars
    <2>5. tlocal' # Null
      BY <1>0, <2>4 DEF TypeOK
    <2> QED
      BY <1>0, <2>2, <2>3, <2>4, <2>5
         DEF HookOrder, CurrentFile, LoadHook, UnloadHook, EndNext, OnLoad
  <1>8. CASE OnUnloadTime
    <2>1. mpc = "unload1" /\ mpc' = "wait" /\ active' = active \ {"unload"}
          /\ UNCHANGED <<cpc, cur, why, mq>>
      BY <1>8 DEF OnUnloadTime, TimeRead
    <2>2. mq = <<>> /\ cpc = "unload" /\ tlocal \in MrlState
      BY <1>0, <2>1 DEF HookOrder, UnloadHook, TypeOK
    <2>3. tlocal' \in MrlState
      BY <1>0, <1>8, <2>2 DEF OnUnloadTime, Position, MrlState, TypeOK, Pos, Resume
    <2> QED
      BY <1>0, <2>1, <2>2, <2>3
         DEF HookOrder, CurrentFile, LoadHook, UnloadHook, EndNext, OnLoad
  <1>9. CASE EndFile
    <2>1. /\ mpc = "wait" /\ Len(mq) \in Nat \ {0} /\ Len(mq') = Len(mq) - 1
          /\ mq[1].ev = "end"
          /\ \A i \in 1 .. Len(mq') : i + 1 \in 1 .. Len(mq) /\ mq'[i] = mq[i + 1]
      BY <1>0, <1>9, PoppedHead DEF EndFile
    <2>2. UNCHANGED <<cpc, cur, why, active, mpc>>
      BY <1>9 DEF EndFile, coreVars
    <2>3. \A i \in 1 .. Len(mq') : mq'[i].ev # "end"
      BY <1>0, <2>1 DEF HookOrder, EndNext
    <2>4. ~(cpc = "unload" /\ "unload" \notin active)
      BY <1>0, <2>1 DEF HookOrder, UnloadHook
    <2>5. LoadHook'
      BY <1>0, <2>1, <2>2 DEF HookOrder, LoadHook, OnLoad
    <2>6. UnloadHook'
      BY <1>0, <2>1, <2>2, <2>4 DEF HookOrder, UnloadHook
    <2> QED
      BY <1>0, <2>2, <2>3, <2>5, <2>6 DEF HookOrder, CurrentFile, EndNext
  <1>10. CASE TimePos
    BY <1>0, <1>10, UntouchedOrder DEF TimePos, clientVars
  <1>11. CASE MpvExit
    <2>1. \A i \in 1 .. Len(mq) : mq[i].ev # "end"
      <3>1. mq[1].ev = "shutdown" /\ Len(mq) \in Nat \ {0}
        BY <1>0, <1>11, PoppedHead DEF MpvExit
      <3> QED
        BY <1>0, <3>1 DEF HookOrder, EndNext
    <2> QED
      BY <1>0, <1>11, <2>1, PoppedOrder DEF MpvExit, coreVars
  <1> QED
    BY <1>1, <1>2, <1>3, <1>4, <1>5, <1>6, <1>7, <1>8, <1>9, <1>10, <1>11 DEF Client

\* The rest of the player and the event handlers keep the order of the hooks.
LEMMA GuiHookOrder ==
    IInv /\ (User \/ ReloadLoad \/ WaitUntilTerminated \/ Exit \/ Process) => HookOrder'
  <1> SUFFICES ASSUME IInv, User \/ ReloadLoad \/ WaitUntilTerminated \/ Exit \/ Process
               PROVE  HookOrder'
    OBVIOUS
  <1>1. HookOrder
    BY DEF IInv
  <1>2. UNCHANGED <<cpc, cur, active, mq, mpc, tlocal>> /\ (why # "none" => why' # "none")
    BY DEF User, Load, LoadFile, Reload, ReloadLoad, Stop, SetMrl, StopFile, Shutdown,
           WaitUntilTerminated, Exit, Process, StateChange, WaitingChange, Tick,
           SyncMrlState, StartPlayback, EndPlayback, coreVars, clientVars
  <1> QED
    BY <1>1, <1>2, UntouchedOrder

\* A reload that has begun is the only thing the GUI thread does.
LEMMA ReloadingStep == IInv /\ Next => Reloading'
  <1> SUFFICES ASSUME IInv, Next PROVE Reloading'
    OBVIOUS
  <1>0. Reloading
    BY DEF IInv
  <1>1. CASE Core \/ Client
    <2>1. UNCHANGED <<gpc, mrl, loads>>
      BY <1>1 DEF Core, CoreStart, CoreLoadDone, CoreOpened, CoreOpenFails, CoreAdvance,
         CoreFinish, CoreUnloaded, CoreOff, Client, StartFile, OnLoadCopy, OnLoadTake,
         OnLoadHistory, OnLoadSync, FileLoaded, OnUnloadCopy, OnUnloadTime, EndFile,
         TimePos, MpvExit, guiVars, ghostVars
    <2> QED
      BY <1>0, <2>1 DEF Reloading
  <1>2. CASE Process
    BY <1>0, <1>2 DEF Reloading, Process, StateChange, WaitingChange, Tick,
       SyncMrlState, StartPlayback, EndPlayback, guiVars, ghostVars
  <1>3. CASE User \/ ReloadLoad \/ WaitUntilTerminated \/ Exit
    BY <1>0, <1>3 DEF Reloading, User, Load, Reload, ReloadLoad, Stop, SetMrl, Shutdown,
       WaitUntilTerminated, Exit, guiVars, ghostVars
  <1>4. CASE Terminating
    BY <1>0, <1>4 DEF Terminating, Reloading, vars, guiVars, ghostVars
  <1> QED
    BY <1>1, <1>2, <1>3, <1>4 DEF Next

\* Posting events none of which is an end without a state keeps EndCarriesState.
LEMMA PostedEnds ==
    ASSUME TypeOK, EndCarriesState, NEW s \in Seq(GEvents), gq' = gq \o s,
           \A i \in 1 .. Len(s) : s[i].ev = "end" => s[i].last # Null
    PROVE  EndCarriesState'
  <1>1. /\ gq \in Seq(GEvents) /\ Len(gq') = Len(gq) + Len(s)
        /\ \A i \in 1 .. Len(gq') :
              \/ i \in 1 .. Len(gq) /\ gq'[i] = gq[i]
              \/ i - Len(gq) \in 1 .. Len(s) /\ gq'[i] = s[i - Len(gq)]
    BY DEF TypeOK
  <1> QED
    BY <1>1 DEF EndCarriesState

\* Every step keeps EndCarriesState: END_FILE finds t.local set.
LEMMA EndCarriesStateStep == IInv /\ Next => EndCarriesState'
  <1> SUFFICES ASSUME IInv, Next PROVE EndCarriesState'
    OBVIOUS
  <1>0. TypeOK /\ EndCarriesState /\ HookOrder
    BY DEF IInv
  <1>1. ASSUME UNCHANGED gq PROVE EndCarriesState'
    BY <1>0, <1>1 DEF EndCarriesState
  <1>2. CASE Client
    <2>1. CASE OnLoadCopy \/ OnLoadTake \/ OnLoadHistory \/ OnUnloadCopy \/ OnUnloadTime
                 \/ MpvExit
      BY <1>1, <2>1 DEF OnLoadCopy, OnLoadTake, OnLoadHistory, OnUnloadCopy,
         OnUnloadTime, MpvExit
    <2>2. CASE StartFile
      <3> DEFINE s == <<[ev |-> "state", to |-> "running"], [ev |-> "loading", on |-> TRUE]>>
      <3>1. s \in Seq(GEvents) /\ \A i \in 1 .. Len(s) : s[i].ev # "end"
        BY DEF GEvents
      <3> QED
        BY <1>0, <2>2, <3>1, PostedEnds DEF StartFile
    <2>3. CASE OnLoadSync
      <3>1. tlocal \in MrlState
        BY <1>0, <2>3 DEF OnLoadSync, HookOrder, LoadHook, OnLoad, TypeOK
      <3>2. /\ SyncPosted \in Seq(GEvents)
            /\ \A i \in 1 .. Len(SyncPosted) : SyncPosted[i].ev # "end"
        BY <3>1 DEF SyncPosted, GEvents
      <3> QED
        BY <1>0, <2>3, <3>2, PostedEnds DEF OnLoadSync
    <2>4. CASE FileLoaded
      <3> DEFINE s == <<[ev |-> "state", to |-> "running"],
                        [ev |-> "loading", on |-> FALSE],
                        [ev |-> "start", id |-> Head(mq).id]>>
      <3>1. s \in Seq(GEvents) /\ \A i \in 1 .. Len(s) : s[i].ev # "end"
        BY <1>0, <2>4, PoppedType DEF FileLoaded, GEvents
      <3> QED
        BY <1>0, <2>4, <3>1, PostedEnds DEF FileLoaded
    <2>5. CASE EndFile
      <3>1. Head(mq) \in MEvents /\ Head(mq).ev = "end" /\ mq # <<>>
        BY <1>0, <2>5, PoppedType DEF EndFile, Popped
      <3>2. Head(mq).id \in Ids /\ Head(mq).reason \in Reasons
        BY <3>1 DEF MEvents
      <3>3. tlocal # Null
        BY <1>0, <3>1 DEF HookOrder, EndNext, TypeOK
      <3>4. EndPosted \in Seq(GEvents)
        BY <1>0, <3>2 DEF EndPosted, Ended, GEvents, TypeOK
      <3>5. \A i \in 1 .. Len(EndPosted) :
               EndPosted[i].ev = "end" => EndPosted[i].last # Null
        BY <3>3 DEF EndPosted, Ended
      <3> QED
        BY <1>0, <2>5, <3>4, <3>5, PostedEnds DEF EndFile
    <2>6. CASE TimePos
      <3> DEFINE e == [ev |-> "time", pos |-> pos]
      <3>1. gq' = Append(gq, e) /\ gq \in Seq(GEvents)
        BY <1>0, <2>6 DEF TimePos, TypeOK
      <3>2. e.ev # "end"
        OBVIOUS
      <3>3. \A i \in 1 .. Len(gq') : \/ i \in 1 .. Len(gq) /\ gq'[i] = gq[i]
                                     \/ gq'[i] = e
        BY <3>1
      <3> QED
        BY <1>0, <3>2, <3>3 DEF EndCarriesState
    <2> QED
      BY <1>2, <2>1, <2>2, <2>3, <2>4, <2>5, <2>6 DEF Client
  <1>3. CASE Process
    <2>1. gq \in Seq(GEvents) /\ gq # <<>> /\ gq' = Tail(gq)
      BY <1>0, <1>3 DEF Process, StateChange, WaitingChange, Tick, SyncMrlState,
         StartPlayback, EndPlayback, Taken, TypeOK
    <2>2. \A i \in 1 .. Len(gq') : i + 1 \in 1 .. Len(gq) /\ gq'[i] = gq[i + 1]
      BY <2>1
    <2> QED
      BY <1>0, <2>2 DEF EndCarriesState
  <1>4. CASE Core \/ User \/ ReloadLoad \/ WaitUntilTerminated \/ Exit \/ Terminating
    BY <1>1, <1>4 DEF Core, CoreStart, CoreLoadDone, CoreOpened, CoreOpenFails,
       CoreAdvance, CoreFinish, CoreUnloaded, CoreOff, User, Load, Reload, ReloadLoad,
       Stop, SetMrl, Shutdown, WaitUntilTerminated, Exit, Terminating, vars
  <1> QED
    BY <1>2, <1>3, <1>4 DEF Next

\* IInv is inductive.
LEMMA NextIInv == IInv /\ [Next]_vars => IInv'
  <1> SUFFICES ASSUME IInv, [Next]_vars PROVE IInv'
    OBVIOUS
  <1>1. CASE UNCHANGED vars
    <2>1. TypeOK'
      BY <1>1 DEF IInv, TypeOK, vars, coreVars, clientVars, guiVars, ghostVars
    <2>2. HookOrder'
      BY <1>1, UntouchedOrder DEF IInv, vars, coreVars, clientVars
    <2>3. Reloading' /\ EndCarriesState'
      BY <1>1 DEF IInv, Reloading, EndCarriesState, vars, guiVars, ghostVars
    <2> QED
      BY <2>1, <2>2, <2>3 DEF IInv
  <1>2. CASE Next
    <2>1. TypeOK' /\ HookOrder'
      <3>1. CASE Core
        BY <3>1, CoreTypeOK, CoreHookOrder
      <3>2. CASE Client
        BY <3>2, ClientTypeOK, ClientHookOrder
      <3>3. CASE User \/ ReloadLoad \/ WaitUntilTerminated \/ Exit
        BY <3>3, UserTypeOK, GuiHookOrder
      <3>4. CASE Process
        BY <3>4, ProcessTypeOK, GuiHookOrder
      <3>5. CASE Terminating
        BY <3>5 DEF Terminating, IInv, TypeOK, HookOrder, CurrentFile, LoadHook,
           UnloadHook, EndNext, OnLoad, vars, coreVars, clientVars, guiVars, ghostVars
      <3> QED
        BY <1>2, <3>1, <3>2, <3>3, <3>4, <3>5 DEF Next
    <2> QED
      BY <1>2, <2>1, ReloadingStep, EndCarriesStateStep DEF IInv
  <1> QED
    BY <1>1, <1>2

\* The inductive invariant holds in every reachable state.
THEOREM Invariance == Spec => []IInv
  BY InitIInv, NextIInv, PTL DEF Spec

\* Every variable of the engine, of the client thread and of the queues has its
\* type in every reachable state.
THEOREM TypeCorrect == Spec => []TypeOK
  <1>1. IInv => TypeOK
    BY DEF IInv
  <1> QED
    BY <1>1, Invariance, PTL

\* The handler of EndPlayback never dereferences a null state, however loads, stops
\* and a quit fall between the hooks (the Q_ASSERT in PlayEngine::Data::process).
THEOREM EndAlwaysCarriesState == Spec => []EndCarriesState
  <1>1. IInv => EndCarriesState
    BY DEF IInv
  <1> QED
    BY <1>1, Invariance, PTL
=============================================================================

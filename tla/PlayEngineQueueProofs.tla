------------------------ MODULE PlayEngineQueueProofs ------------------------
(***************************************************************************)
(* What the GUI thread will know once it has handled its queue.            *)
(*                                                                         *)
(* The engine shows what libmpv did some time ago: the parameters, state,  *)
(* loading indicator and position it will hold are decided by the last     *)
(* event of each kind that is still queued.  The invariants speak of those *)
(* values.  They follow the file that libmpv plays, unless the event that  *)
(* will say so has not been popped by the client thread yet (Shown), the   *)
(* parameters of a file are posted before its start (Syncs), and from the  *)
(* quit on, the end that saves the position is under way (Saving).         *)
(***************************************************************************)
EXTENDS PlayEngineProofs

Queued(e) == \E i \in 1 .. Len(mq) : mq[i].ev = e

\* None of the first n events of gq is of the kinds K; the j-th is the last that is.
NoneOf(n, K)    == \A j \in 1 .. n : gq[j].ev \notin K
LastAt(n, K, j) == /\ j \in 1 .. n /\ gq[j].ev \in K
                   /\ \A k \in 1 .. n : k > j => gq[k].ev \notin K

\* The parameters after the first n events of gq are those of load i, medium m.
ParamsLater(n, i, m) ==
    \/ NoneOf(n, {"sync"}) /\ params.id = i /\ params.mrl = m
    \/ \E j \in 1 .. n : LastAt(n, {"sync"}, j) /\ gq[j].ms.id = i /\ gq[j].ms.mrl = m

Synced(i, m) == ParamsLater(Len(gq), i, m)

\* The state, the loading indicator and the position after all events of gq.
StateKinds == {"state", "end"}
RunningLater(b) ==
    \/ NoneOf(Len(gq), StateKinds) /\ ((state = "running") <=> b)
    \/ \E j \in 1 .. Len(gq) : LastAt(Len(gq), StateKinds, j) /\ ((gq[j].ev = "state") <=> b)
LoadingLater(b) ==
    \/ NoneOf(Len(gq), {"loading"}) /\ loading = b
    \/ \E j \in 1 .. Len(gq) : LastAt(Len(gq), {"loading"}, j) /\ gq[j].on = b
TimeLater(t) ==
    \/ NoneOf(Len(gq), {"time"}) /\ time = t
    \/ \E j \in 1 .. Len(gq) : LastAt(Len(gq), {"time"}, j) /\ gq[j].pos = t

-----------------------------------------------------------------------------
(* The invariants.                                                           *)

\* The on_load event follows its START_FILE, so that neither is left once the file
\* is open, and only its end is left of a file that is over.
StartThenLoad ==
    \A i \in 1 .. Len(mq) : mq[i].ev = "start" => i < Len(mq) /\ mq[i + 1].ev = "load"

QueueOrder ==
    /\ StartThenLoad
    /\ Queued("loaded") => cpc \in {"play", "unload"} /\ "load" \notin active
    /\ cpc \in {"idle", "off"} => \A i \in 1 .. Len(mq) : mq[i].ev \in {"end", "shutdown"}
    /\ Queued("end") => cpc \in {"idle", "off"} \/ Queued("start")
    /\ Queued("shutdown") \/ mpc = "exited" => cpc = "off"
    /\ cpc \in {"open", "play"} => "load" \notin active
    /\ cpc \in {"load", "open", "idle", "off"} => pos = 0

\* A file that is open is synced, a file that has been loaded or started is too.
LoadedSynced ==
    \A i \in 1 .. Len(mq) : mq[i].ev = "loaded" => \E m \in AnyMrl : Synced(mq[i].id, m)
StartsSynced ==
    \A i \in 1 .. Len(gq) : gq[i].ev = "start" =>
        \E m \in AnyMrl : ParamsLater(i - 1, gq[i].id, m)
Syncs ==
    /\ mpc \in OnLoad => tlocal.id = cur.id /\ tlocal.mrl = cur.mrl
    /\ cpc \in {"load", "open", "play"} /\ "load" \notin active => Synced(cur.id, cur.mrl)
    /\ LoadedSynced /\ StartsSynced

\* What the GUI will show is what libmpv does, or an event of libmpv will say so.
Shown ==
    /\ cpc \in {"load", "open", "play", "unload"} => Queued("start") \/ RunningLater(TRUE)
    /\ cpc \in {"idle", "off"} => Queued("end") \/ RunningLater(FALSE)
    /\ cpc \in {"load", "open"} => Queued("start") \/ LoadingLater(TRUE)
    /\ cpc = "play" => Queued("loaded") \/ LoadingLater(FALSE)
    /\ cpc \in {"idle", "off"} => Queued("end") \/ LoadingLater(FALSE)
    /\ dirty \/ TimeLater(pos)

\* The file that played at quit is on its way to the history: libmpv ends it, ...
Kept == tlocal # Null /\ tlocal.mrl = onquit.mrl /\ tlocal.resume = onquit.time
Closing ==
    /\ gpc = "quit" /\ why = "quit" /\ "load" \notin active
    /\ params.mrl = onquit.mrl /\ time = onquit.time
    /\ \/ cpc = "play"
       \/ cpc = "unload" /\ Queued("unload")
       \/ cpc = "unload" /\ mpc = "unload1" /\ tlocal.mrl = onquit.mrl
       \/ cpc = "unload" /\ "unload" \notin active /\ Kept
       \/ cpc \in {"idle", "off"} /\ Kept /\ Queued("end") /\ mq[1].reason = "quit"
\* ... the GUI has yet to handle the end, the last event that writes to the history, ...
Silent == cpc \in {"idle", "off"} /\ why = "quit" /\ ~Queued("end")
Records(e) == /\ e.ev = "end" /\ e.reason = "quit"
              /\ e.last.mrl = onquit.mrl /\ e.last.resume = onquit.time
Recording ==
    /\ Silent /\ gpc \in {"quit", "drain"}
    /\ \E j \in 1 .. Len(gq) : LastAt(Len(gq), {"sync", "end"}, j) /\ Records(gq[j])
\* ... or has handled it.
InHistory ==
    /\ Silent /\ gpc \in {"quit", "drain", "done"}
    /\ NoneOf(Len(gq), {"sync", "end"})
    /\ onquit.mrl \in Keys => history[onquit.mrl] = onquit.time
Saving == onquit # Null => Closing \/ Recording \/ InHistory

QInv == IInv /\ QueueOrder /\ Syncs /\ Shown /\ Saving

-----------------------------------------------------------------------------
(* The queue of the client thread.                                           *)

\* Popping takes one event out; the others stay in their order.
LEMMA PoppedQueued ==
    ASSUME TypeOK, NEW e, Popped(e)
    PROVE  /\ mpc = "wait" /\ Queued(e) /\ mq[1] = Head(mq) /\ mq[1].ev = e /\ 1 \in 1 .. Len(mq)
           /\ \A x : Queued(x) => x = e \/ Queued(x)'
           /\ \A x : Queued(x)' => Queued(x)
           /\ StartThenLoad => StartThenLoad'
           /\ \A i \in 1 .. Len(mq') : i + 1 \in 1 .. Len(mq) /\ mq'[i] = mq[i + 1]
  <1>1. /\ mpc = "wait" /\ Len(mq) \in Nat \ {0} /\ Len(mq') = Len(mq) - 1
        /\ mq[1] = Head(mq) /\ mq[1].ev = e
        /\ \A i \in 1 .. Len(mq') : i + 1 \in 1 .. Len(mq) /\ mq'[i] = mq[i + 1]
    BY PoppedHead DEF TypeOK
  <1>2. \A i \in 1 .. Len(mq) : i = 1 \/ (i - 1 \in 1 .. Len(mq') /\ mq'[i - 1] = mq[i])
    BY <1>1
  <1>3. StartThenLoad => StartThenLoad'
    <2> SUFFICES ASSUME StartThenLoad, NEW i \in 1 .. Len(mq'), mq'[i].ev = "start"
                 PROVE  i < Len(mq') /\ mq'[i + 1].ev = "load"
      BY DEF StartThenLoad
    <2>1. i + 1 \in 1 .. Len(mq) /\ mq[i + 1].ev = "start"
      BY <1>1
    <2>2. i + 1 < Len(mq) /\ mq[(i + 1) + 1].ev = "load"
      BY <2>1 DEF StartThenLoad
    <2> QED
      BY <1>1, <2>1, <2>2
  <1> QED
    BY <1>1, <1>2, <1>3 DEF Queued

\* Appending puts one event in.
LEMMA AppendedQueued ==
    ASSUME TypeOK, NEW e, mq' = Append(mq, e)
    PROVE  /\ \A x : Queued(x)' <=> Queued(x) \/ x = e.ev
           /\ StartThenLoad /\ e.ev # "start" => StartThenLoad'
           /\ \A i \in 1 .. Len(mq') : (i \in 1 .. Len(mq) /\ mq'[i] = mq[i]) \/ mq'[i] = e
           /\ \A i \in 1 .. Len(mq) : i \in 1 .. Len(mq') /\ mq'[i] = mq[i]
  <1>1. /\ Len(mq) \in Nat /\ Len(mq') = Len(mq) + 1 /\ mq'[Len(mq) + 1] = e
        /\ \A i \in 1 .. Len(mq') :
              \/ i = Len(mq) + 1 /\ mq'[i] = e
              \/ i \in 1 .. Len(mq) /\ mq'[i] = mq[i]
        /\ \A i \in 1 .. Len(mq) : i \in 1 .. Len(mq') /\ mq'[i] = mq[i]
    BY DEF TypeOK
  <1>2. \A x : Queued(x)' <=> Queued(x) \/ x = e.ev
    <2>1. Len(mq) + 1 \in 1 .. Len(mq')
      BY <1>1
    <2> QED
      BY <1>1, <2>1 DEF Queued
  <1>3. StartThenLoad /\ e.ev # "start" => StartThenLoad'
    <2> SUFFICES ASSUME StartThenLoad, e.ev # "start", NEW i \in 1 .. Len(mq'), mq'[i].ev = "start"
                 PROVE  i < Len(mq') /\ mq'[i + 1].ev = "load"
      BY DEF StartThenLoad
    <2>1. i \in 1 .. Len(mq) /\ mq[i].ev = "start"
      BY <1>1
    <2>2. i < Len(mq) /\ mq[i + 1].ev = "load"
      BY <2>1 DEF StartThenLoad
    <2> QED
      BY <1>1, <2>1, <2>2
  <1> QED
    BY <1>1, <1>2, <1>3

\* An untouched queue holds what it held.
LEMMA SameQueued ==
    ASSUME UNCHANGED mq
    PROVE  (\A x : Queued(x)' <=> Queued(x)) /\ (StartThenLoad' <=> StartThenLoad)
  BY DEF Queued, StartThenLoad

\* While the on_load hook is out, its file is being loaded or has been cut short.
LEMMA StartMeansLoad ==
    ASSUME TypeOK, HookOrder, QueueOrder
    PROVE  /\ Queued("start") => cpc \in {"load", "unload"} /\ "load" \in active
           /\ mpc \in OnLoad \/ Queued("load") => cpc \in {"load", "unload"} /\ "load" \in active
  <1>1. ASSUME Queued("load") PROVE cpc \in {"load", "unload"} /\ "load" \in active
    BY <1>1 DEF Queued, HookOrder, LoadHook
  <1>2. ASSUME Queued("start") PROVE Queued("load")
    <2>1. PICK i \in 1 .. Len(mq) : mq[i].ev = "start"
      BY <1>2 DEF Queued
    <2>2. i + 1 \in 1 .. Len(mq) /\ mq[i + 1].ev = "load"
      BY <2>1 DEF QueueOrder, StartThenLoad, TypeOK
    <2> QED
      BY <2>2 DEF Queued
  <1> QED
    BY <1>1, <1>2 DEF HookOrder, LoadHook

\* What a step does to the client's queue and to the hooks keeps QueueOrder.
LEMMA QueueOrderNext == QInv /\ Next => QueueOrder'
  <1> SUFFICES ASSUME QInv, Next PROVE QueueOrder'
    OBVIOUS
  <1>0. TypeOK /\ HookOrder /\ QueueOrder
    BY DEF QInv, IInv
  <1>1. ASSUME UNCHANGED <<mq, cpc, active, mpc, pos>> PROVE QueueOrder'
    BY <1>0, <1>1, SameQueued DEF QueueOrder
  <1>2. /\ Queued("start") => cpc \in {"load", "unload"} /\ "load" \in active
        /\ mpc \in OnLoad \/ Queued("load") => cpc \in {"load", "unload"} /\ "load" \in active
    BY <1>0, StartMeansLoad
  <1>3. \A x : Queued(x) /\ cpc \in {"idle", "off"} => x \in {"end", "shutdown"}
    BY <1>0 DEF QueueOrder, Queued
  <1>4. /\ mpc = "unload1" => mq = <<>> /\ cpc = "unload"
        /\ cpc = "unload" /\ "unload" \notin active => mq = <<>> /\ mpc = "wait"
    BY <1>0 DEF HookOrder, UnloadHook
  <1>5. mq = <<>> => \A x : ~Queued(x)
    BY DEF Queued
  <1>6. \A e : mq' = Append(mq, e) /\ e.ev \in {"end", "shutdown"}
                /\ (\A i \in 1 .. Len(mq) : mq[i].ev \in {"end", "shutdown"})
           => \A i \in 1 .. Len(mq') : mq'[i].ev \in {"end", "shutdown"}
    BY <1>0, AppendedQueued
  <1>7. CASE CoreStart
    <2> DEFINE a == [ev |-> "start", id |-> next.id]
               b == [ev |-> "load", id |-> next.id]
    <2>1. /\ Len(mq) \in Nat /\ Len(mq') = Len(mq) + 2
          /\ mq'[Len(mq) + 1] = a /\ mq'[Len(mq) + 2] = b
          /\ \A i \in 1 .. Len(mq) : i \in 1 .. Len(mq') /\ mq'[i] = mq[i]
          /\ \A i \in 1 .. Len(mq') : i \in 1 .. Len(mq) \/ i = Len(mq) + 1 \/ i = Len(mq) + 2
      <3>1. mq \in Seq(MEvents) /\ mq' = mq \o <<a, b>>
        BY <1>0, <1>7 DEF CoreStart, TypeOK
      <3>2. next.id \in Ids
        BY <1>0, <1>7 DEF CoreStart, TypeOK, Entry
      <3>3. a \in MEvents /\ b \in MEvents
        BY <3>2 DEF MEvents
      <3> HIDE DEF a, b
      <3> QED
        BY <3>1, <3>3
    <2>2. /\ \A i \in 1 .. Len(mq) : mq[i].ev \in {"end", "shutdown"}
          /\ cpc = "idle" /\ cpc' = "load" /\ pos' = 0 /\ UNCHANGED mpc
      BY <1>0, <1>7 DEF CoreStart, QueueOrder, clientVars
    <2>3. StartThenLoad'
      BY <2>1, <2>2 DEF StartThenLoad
    <2>4. Queued("start")' /\ ~Queued("loaded")'
      BY <2>1, <2>2 DEF Queued
    <2>5. Queued("shutdown")' => Queued("shutdown")
      BY <2>1 DEF Queued
    <2> QED
      BY <1>0, <2>2, <2>3, <2>4, <2>5 DEF QueueOrder
  <1>8. ASSUME Terminate, cpc \in {"load", "open", "play"}, UNCHANGED mpc
        PROVE  QueueOrder'
    <2>1. /\ \A x : Queued(x)' <=> Queued(x) \/ x = "unload"
          /\ StartThenLoad'
      BY <1>0, <1>8, AppendedQueued DEF Terminate, Event, QueueOrder
    <2>2. cpc' = "unload" /\ active' = active \cup {"unload"}
      BY <1>8 DEF Terminate
    <2> QED
      BY <1>0, <1>8, <2>1, <2>2 DEF QueueOrder
  <1>9. CASE CoreLoadDone
    <2>1. CASE Terminate
      BY <1>8, <1>9, <2>1 DEF CoreLoadDone, clientVars
    <2>2. CASE why = "none" /\ cpc' = "open" /\ UNCHANGED <<active, mq>>
      BY <1>0, <1>9, <2>2, SameQueued DEF CoreLoadDone, QueueOrder, clientVars
    <2> QED
      BY <1>9, <2>1, <2>2 DEF CoreLoadDone
  <1>10. CASE CoreOpened
    <2>1. /\ \A x : Queued(x)' <=> Queued(x) \/ x = "loaded"
          /\ StartThenLoad'
      BY <1>0, <1>10, AppendedQueued DEF CoreOpened, Event, QueueOrder
    <2>2. cpc = "open" /\ cpc' = "play" /\ UNCHANGED <<active, mpc>>
      BY <1>10 DEF CoreOpened, clientVars
    <2> QED
      BY <1>0, <2>1, <2>2 DEF QueueOrder
  <1>11. CASE CoreOpenFails \/ CoreFinish
    BY <1>8, <1>11 DEF CoreOpenFails, CoreFinish, clientVars
  <1>12. CASE CoreAdvance
    BY <1>0, <1>12, SameQueued DEF CoreAdvance, QueueOrder, clientVars
  <1>13. CASE CoreUnloaded
    <2>1. /\ \A x : Queued(x)' <=> Queued(x) \/ x = "end"
          /\ StartThenLoad'
      BY <1>0, <1>13, AppendedQueued DEF CoreUnloaded, EndEvent, QueueOrder
    <2>2. mq = <<>> /\ mpc = "wait" /\ cpc' = "idle" /\ pos' = 0 /\ UNCHANGED mpc
      BY <1>4, <1>13 DEF CoreUnloaded
    <2>3. \A x : Queued(x)' => x = "end"
      BY <1>5, <2>1, <2>2
    <2>4. \A i \in 1 .. Len(mq') : mq'[i].ev \in {"end", "shutdown"}
      BY <2>3 DEF Queued
    <2> QED
      BY <2>1, <2>2, <2>3, <2>4 DEF QueueOrder
  <1>14. CASE CoreOff
    <2>1. /\ \A x : Queued(x)' <=> Queued(x) \/ x = "shutdown"
          /\ StartThenLoad'
      BY <1>0, <1>14, AppendedQueued DEF CoreOff, ShutdownEvent, QueueOrder
    <2>2. cpc = "idle" /\ cpc' = "off" /\ UNCHANGED <<active, pos, mpc>>
      BY <1>14 DEF CoreOff, clientVars
    <2>3. \A i \in 1 .. Len(mq') : mq'[i].ev \in {"end", "shutdown"}
      BY <1>0, <1>6, <1>14, <2>2 DEF CoreOff, ShutdownEvent, QueueOrder
    <2>4. ~Queued("loaded")
      BY <1>3, <2>2
    <2> QED
      BY <1>0, <2>1, <2>2, <2>3, <2>4 DEF QueueOrder
  \* a pop that leaves the client in its loop, or in a hook
  <1>15. ASSUME NEW e, Popped(e), UNCHANGED <<cpc, active, pos>>, mpc' # "exited",
                e = "start" => ~Queued("end")'
         PROVE  QueueOrder'
    <2>1. /\ \A x : Queued(x) => x = e \/ Queued(x)'
          /\ \A x : Queued(x)' => Queued(x)
          /\ StartThenLoad'
      BY <1>0, <1>15, PoppedQueued DEF QueueOrder
    <2>2. cpc' \in {"idle", "off"} => \A i \in 1 .. Len(mq') : mq'[i].ev \in {"end", "shutdown"}
      BY <1>0, <1>15, PoppedQueued DEF QueueOrder
    <2> QED
      BY <1>0, <1>15, <2>1, <2>2 DEF QueueOrder
  <1>16. CASE StartFile
    <2>1. ~Queued("end")
      <3>1. mq[1].ev = "start" /\ 1 \in 1 .. Len(mq)
        BY <1>0, <1>16, PoppedQueued DEF StartFile
      <3> QED
        BY <1>0, <3>1 DEF HookOrder, EndNext, Queued
    <2>2. ~Queued("end")'
      BY <1>0, <1>16, <2>1, PoppedQueued DEF StartFile
    <2> QED
      BY <1>15, <1>16, <2>2 DEF StartFile, Popped, coreVars, clientVars
  <1>17. CASE OnLoadCopy \/ OnUnloadCopy
    BY <1>15, <1>17 DEF OnLoadCopy, OnUnloadCopy, coreVars
  <1>18. CASE FileLoaded \/ EndFile
    BY <1>15, <1>18 DEF FileLoaded, EndFile, Popped, coreVars, clientVars
  <1>19. CASE OnLoadTake \/ OnLoadHistory
    BY <1>0, <1>19, SameQueued DEF OnLoadTake, OnLoadHistory, QueueOrder, coreVars
  <1>20. CASE OnLoadSync \/ OnUnloadTime
    BY <1>0, <1>20, SameQueued DEF OnLoadSync, OnUnloadTime, QueueOrder
  <1>21. CASE TimePos
    BY <1>1, <1>21 DEF TimePos, clientVars
  <1>22. CASE MpvExit
    <2>1. /\ Queued("shutdown") /\ \A x : Queued(x)' => Queued(x)
          /\ \A x : Queued(x) => x = "shutdown" \/ Queued(x)'
          /\ StartThenLoad'
      BY <1>0, <1>22, PoppedQueued DEF MpvExit, QueueOrder
    <2>2. \A i \in 1 .. Len(mq') : mq'[i].ev \in {"end", "shutdown"}
      BY <1>0, <1>22, <2>1, PoppedQueued DEF MpvExit, QueueOrder
    <2> QED
      BY <1>0, <1>22, <2>1, <2>2 DEF MpvExit, QueueOrder, coreVars
  <1>23. CASE Process \/ User \/ ReloadLoad \/ WaitUntilTerminated \/ Exit \/ Terminating
    BY <1>1, <1>23 DEF Process, StateChange, WaitingChange, Tick, SyncMrlState, StartPlayback,
       EndPlayback, User, Load, Reload, ReloadLoad, Stop, SetMrl, Shutdown,
       WaitUntilTerminated, Exit, Terminating, vars, coreVars, clientVars
  <1> QED
    BY <1>7, <1>9, <1>10, <1>11, <1>12, <1>13, <1>14, <1>16, <1>17, <1>18, <1>19, <1>20,
       <1>21, <1>22, <1>23 DEF Next, Core, Client

-----------------------------------------------------------------------------
(* The queue of the GUI thread.                                              *)

\* Posting leaves what is queued where it is.
LEMMA Posted ==
    ASSUME TypeOK, NEW s \in Seq(GEvents), gq' = gq \o s
    PROVE  /\ Len(gq) \in Nat /\ Len(s) \in Nat /\ Len(gq') = Len(gq) + Len(s)
           /\ \A j \in 1 .. Len(gq) : j \in 1 .. Len(gq') /\ gq'[j] = gq[j]
           /\ \A j \in 1 .. Len(s) : Len(gq) + j \in 1 .. Len(gq') /\ gq'[Len(gq) + j] = s[j]
           /\ \A j \in 1 .. Len(gq') :
                 j \in 1 .. Len(gq) \/ (j - Len(gq) \in 1 .. Len(s) /\ gq'[j] = s[j - Len(gq)])
  BY DEF TypeOK

\* What is posted without an event of the kinds K leaves the last of them the last.
LEMMA StaysLast ==
    ASSUME NEW n \in Nat, NEW m \in Nat, n <= m, NEW K,
           \A j \in 1 .. n : gq'[j] = gq[j], \A j \in 1 .. m : j > n => gq'[j].ev \notin K
    PROVE  /\ NoneOf(n, K) => NoneOf(m, K)'
           /\ \A j \in 1 .. n : LastAt(n, K, j) => j \in 1 .. m /\ LastAt(m, K, j)'
  <1>1. \A j \in 1 .. m : j > n \/ j \in 1 .. n
    OBVIOUS
  <1>2. \A j \in 1 .. n : j \in 1 .. m
    OBVIOUS
  <1> QED
    BY <1>1, <1>2 DEF NoneOf, LastAt

\* Handling an event moves the others up.
LEMMA Shifted ==
    ASSUME TypeOK, gq # <<>>, gq' = Tail(gq), NEW n \in Nat, NEW m \in Nat, m = n + 1,
           m <= Len(gq), NEW K
    PROVE  /\ Len(gq') = Len(gq) - 1 /\ \A j \in 1 .. n : gq'[j] = gq[j + 1]
           /\ NoneOf(m, K) => NoneOf(n, K)' /\ gq[1].ev \notin K
           /\ LastAt(m, K, 1) => NoneOf(n, K)' /\ gq[1].ev \in K
           /\ \A i \in 1 .. n, j \in 1 .. m :
                 j = i + 1 /\ LastAt(m, K, j) => LastAt(n, K, i)' /\ gq'[i] = gq[j]
  <1>1. /\ Len(gq') = Len(gq) - 1 /\ \A j \in 1 .. n : gq'[j] = gq[j + 1]
        /\ Len(gq) \in Nat
    BY DEF TypeOK
  <1>2. /\ \A j \in 1 .. n : j + 1 \in 1 .. m /\ j + 1 > 1
        /\ 1 \in 1 .. m
        /\ \A j \in 1 .. m : j = 1 \/ (j - 1 \in 1 .. n /\ (j - 1) + 1 = j)
    OBVIOUS
  <1>3. NoneOf(m, K) => NoneOf(n, K)' /\ gq[1].ev \notin K
    BY <1>1, <1>2 DEF NoneOf
  <1>4. LastAt(m, K, 1) => NoneOf(n, K)' /\ gq[1].ev \in K
    BY <1>1, <1>2 DEF NoneOf, LastAt
  <1>5. ASSUME NEW i \in 1 .. n, NEW j \in 1 .. m, j = i + 1, LastAt(m, K, j)
        PROVE  LastAt(n, K, i)' /\ gq'[i] = gq[j]
    <2>1. gq'[i] = gq[j] /\ gq[j].ev \in K
      BY <1>1, <1>5 DEF LastAt
    <2>2. ASSUME NEW k \in 1 .. n, k > i PROVE gq'[k].ev \notin K
      <3>1. k + 1 \in 1 .. m /\ k + 1 > j
        BY <1>5, <2>2
      <3> QED
        BY <1>1, <1>5, <3>1 DEF LastAt
    <2> QED
      BY <2>1, <2>2 DEF LastAt
  <1> QED
    BY <1>1, <1>3, <1>4, <1>5

\* A step that leaves the queue and what it decides alone keeps what will be shown.
LEMMA LaterKept ==
    ASSUME UNCHANGED <<gq, params, state, loading, time>>
    PROVE  /\ \A i, m : Synced(i, m) => Synced(i, m)'
           /\ \A n, i, m : ParamsLater(n, i, m) => ParamsLater(n, i, m)'
           /\ \A b : RunningLater(b) => RunningLater(b)'
           /\ \A b : LoadingLater(b) => LoadingLater(b)'
           /\ \A t : TimeLater(t) => TimeLater(t)'
           /\ StartsSynced => StartsSynced'
  BY DEF Synced, ParamsLater, RunningLater, LoadingLater, TimeLater, NoneOf, LastAt,
         StartsSynced

\* Posting events of other kinds keeps it, too.
LEMMA LaterPosted ==
    ASSUME TypeOK, NEW s \in Seq(GEvents), gq' = gq \o s,
           UNCHANGED <<params, state, loading, time>>
    PROVE  /\ (\A j \in 1 .. Len(s) : s[j].ev # "sync") =>
                 \A i, m : Synced(i, m) => Synced(i, m)'
           /\ (\A j \in 1 .. Len(s) : s[j].ev \notin StateKinds) =>
                 \A b : RunningLater(b) => RunningLater(b)'
           /\ (\A j \in 1 .. Len(s) : s[j].ev # "loading") =>
                 \A b : LoadingLater(b) => LoadingLater(b)'
           /\ (\A j \in 1 .. Len(s) : s[j].ev # "time") =>
                 \A t : TimeLater(t) => TimeLater(t)'
  <1> DEFINE n == Len(gq)
             m == Len(gq')
  <1>1. /\ n \in Nat /\ m \in Nat /\ n <= m
        /\ \A j \in 1 .. n : gq'[j] = gq[j]
        /\ \A j \in 1 .. m : j > n => j - n \in 1 .. Len(s) /\ gq'[j] = s[j - n]
    BY Posted
  <1>2. ASSUME NEW K, \A j \in 1 .. Len(s) : s[j].ev \notin K
        PROVE  /\ NoneOf(Len(gq), K) => NoneOf(Len(gq), K)'
               /\ \A j \in 1 .. n : LastAt(Len(gq), K, j) =>
                     j \in 1 .. m /\ LastAt(Len(gq), K, j)' /\ gq'[j] = gq[j]
    <2>1. \A j \in 1 .. m : j > n => gq'[j].ev \notin K
      BY <1>1, <1>2
    <2> HIDE DEF n, m
    <2>2. PICK c \in Nat, d \in Nat : c = n /\ d = m
      BY <1>1
    <2>3. /\ NoneOf(c, K) => NoneOf(d, K)'
          /\ \A j \in 1 .. c : LastAt(c, K, j) => j \in 1 .. d /\ LastAt(d, K, j)'
      BY <1>1, <2>1, <2>2, StaysLast
    <2>4. /\ NoneOf(Len(gq), K) <=> NoneOf(c, K)
          /\ NoneOf(Len(gq), K)' <=> NoneOf(d, K)'
          /\ \A j : LastAt(Len(gq), K, j) <=> LastAt(c, K, j)
          /\ \A j : LastAt(Len(gq), K, j)' <=> LastAt(d, K, j)'
      BY <2>2 DEF n, m, NoneOf, LastAt
    <2> QED
      BY <1>1, <2>2, <2>3, <2>4
  <1>3. ASSUME \A j \in 1 .. Len(s) : s[j].ev # "sync", NEW i, NEW r, Synced(i, r)
        PROVE  Synced(i, r)'
    BY <1>2, <1>3 DEF Synced, ParamsLater
  <1>4. ASSUME \A j \in 1 .. Len(s) : s[j].ev \notin StateKinds, NEW b, RunningLater(b)
        PROVE  RunningLater(b)'
    BY <1>2, <1>4 DEF RunningLater
  <1>5. ASSUME \A j \in 1 .. Len(s) : s[j].ev # "loading", NEW b, LoadingLater(b)
        PROVE  LoadingLater(b)'
    BY <1>2, <1>5 DEF LoadingLater
  <1>6. ASSUME \A j \in 1 .. Len(s) : s[j].ev # "time", NEW t, TimeLater(t)
        PROVE  TimeLater(t)'
    BY <1>2, <1>6 DEF TimeLater
  <1> QED
    BY <1>3, <1>4, <1>5, <1>6

\* Handling the first event turns what it says into what the engine shows.
LEMMA LaterHandled ==
    ASSUME TypeOK, Process
    PROVE  /\ \A i, m : Synced(i, m) => Synced(i, m)'
           /\ \A b : RunningLater(b) => RunningLater(b)'
           /\ \A b : LoadingLater(b) => LoadingLater(b)'
           /\ \A t : TimeLater(t) => TimeLater(t)'
           /\ StartsSynced => StartsSynced'
  <1> DEFINE e == gq[1]
  <1>1. gq \in Seq(GEvents) /\ gq # <<>> /\ gq' = Tail(gq) /\ e = Head(gq) /\ e \in GEvents
    BY DEF TypeOK, Process, StateChange, WaitingChange, Tick, SyncMrlState, StartPlayback,
           EndPlayback, Taken
  <1>2. /\ e.ev = "sync" => params' = e.ms
        /\ e.ev # "sync" => UNCHANGED params
        /\ e.ev = "loading" => loading' = e.on
        /\ e.ev # "loading" => UNCHANGED loading
        /\ e.ev = "time" => time' = e.pos
        /\ e.ev # "time" => UNCHANGED time
        /\ e.ev \notin StateKinds => UNCHANGED state
        /\ e.ev = "state" => state' = "running"
        /\ e.ev = "end" => state' # "running"
    <2> HIDE DEF e
    <2>1. CASE StateChange
      <3>1. e.ev = "state" /\ state' = e.to /\ UNCHANGED <<params, loading, time>>
        BY <1>1, <2>1 DEF StateChange, Taken
      <3>2. e.to = "running"
        BY <1>1, <3>1 DEF GEvents
      <3> QED
        BY <3>1, <3>2 DEF StateKinds
    <2>2. CASE WaitingChange
      BY <1>1, <2>2 DEF WaitingChange, Taken, StateKinds
    <2>3. CASE Tick
      BY <1>1, <2>3 DEF Tick, Taken, StateKinds
    <2>4. CASE SyncMrlState
      BY <1>1, <2>4 DEF SyncMrlState, Taken, StateKinds
    <2>5. CASE StartPlayback
      BY <1>1, <2>5 DEF StartPlayback, Taken, guiVars
    <2>6. CASE EndPlayback
      BY <1>1, <2>6 DEF EndPlayback, Taken, StateKinds
    <2> QED
      BY <2>1, <2>2, <2>3, <2>4, <2>5, <2>6 DEF Process
  <1>6. ASSUME NEW n \in Nat, NEW m \in Nat, m = n + 1, m <= Len(gq), NEW K
        PROVE  /\ \A j \in 1 .. n : gq'[j] = gq[j + 1]
               /\ NoneOf(m, K) => NoneOf(n, K)' /\ e.ev \notin K
               /\ LastAt(m, K, 1) => NoneOf(n, K)' /\ e.ev \in K
               /\ \A i \in 1 .. n, j \in 1 .. m :
                     j = i + 1 /\ LastAt(m, K, j) => LastAt(n, K, i)' /\ gq'[i] = gq[j]
    <2>1. gq # <<>> /\ gq' = Tail(gq)
      BY <1>1
    <2> QED
      BY <1>6, <2>1, Shifted
  <1>7. PICK n \in Nat, m \in Nat : m = Len(gq) /\ n = Len(gq') /\ m = n + 1
    <2>1. Len(gq) \in Nat /\ Len(gq') \in Nat /\ Len(gq) = Len(gq') + 1
      BY <1>1
    <2> QED
      BY <2>1
  <1>3. \A j \in 1 .. Len(gq) : j # 1 => \E i \in 1 .. n : j = i + 1
    <2>1. \A j \in 1 .. m : j # 1 => j - 1 \in 1 .. n /\ j = (j - 1) + 1
      BY <1>7
    <2> QED
      BY <1>7, <2>1
  <1>8. ASSUME NEW K
        PROVE  /\ NoneOf(Len(gq), K) => NoneOf(Len(gq), K)' /\ e.ev \notin K
               /\ LastAt(Len(gq), K, 1) => NoneOf(Len(gq), K)' /\ e.ev \in K
               /\ \A i \in 1 .. n, j \in 1 .. m :
                     j = i + 1 /\ LastAt(Len(gq), K, j)
                     => LastAt(Len(gq), K, i)' /\ gq'[i] = gq[j]
    <2>1. /\ NoneOf(Len(gq), K) <=> NoneOf(m, K)
          /\ NoneOf(Len(gq), K)' <=> NoneOf(n, K)'
          /\ \A j : LastAt(Len(gq), K, j) <=> LastAt(m, K, j)
          /\ \A j : LastAt(Len(gq), K, j)' <=> LastAt(n, K, j)'
      BY <1>7 DEF NoneOf, LastAt
    <2>2. m <= Len(gq)
      BY <1>7
    <2>3. /\ NoneOf(m, K) => NoneOf(n, K)' /\ e.ev \notin K
          /\ LastAt(m, K, 1) => NoneOf(n, K)' /\ e.ev \in K
          /\ \A i \in 1 .. n, j \in 1 .. m :
                j = i + 1 /\ LastAt(m, K, j) => LastAt(n, K, i)' /\ gq'[i] = gq[j]
      BY <1>6, <1>7, <2>2
    <2> QED
      BY <2>1, <2>3
  <1> HIDE DEF e
  <1>9. ASSUME NEW k \in Nat, NEW l \in Nat, l = k + 1, l <= Len(gq), NEW i, NEW r,
               ParamsLater(l, i, r)
        PROVE  ParamsLater(k, i, r)'
    <2>1. CASE NoneOf(l, {"sync"}) /\ params.id = i /\ params.mrl = r
      BY <1>2, <1>6, <1>9, <2>1 DEF ParamsLater
    <2>2. ASSUME NEW j \in 1 .. l, LastAt(l, {"sync"}, j), gq[j].ms.id = i, gq[j].ms.mrl = r
          PROVE  ParamsLater(k, i, r)'
      <3>1. CASE j = 1
        BY <1>2, <1>6, <1>9, <2>2, <3>1 DEF ParamsLater, e
      <3>2. CASE j # 1
        <4>1. PICK h \in 1 .. k : j = h + 1
          <5>1. j - 1 \in 1 .. k /\ j = (j - 1) + 1
            BY <1>9, <3>2
          <5> QED
            BY <5>1
        <4>2. LastAt(k, {"sync"}, h)' /\ gq'[h] = gq[j]
          BY <1>6, <1>9, <2>2, <4>1
        <4> QED
          BY <2>2, <4>2 DEF ParamsLater
      <3> QED
        BY <3>1, <3>2
    <2> QED
      BY <1>9, <2>1, <2>2 DEF ParamsLater
  <1>10. ASSUME NEW i, NEW r, Synced(i, r) PROVE Synced(i, r)'
    <2>1. ParamsLater(m, i, r)
      BY <1>7, <1>10 DEF Synced
    <2>2. ParamsLater(n, i, r)'
      BY <1>7, <1>9, <2>1
    <2> QED
      BY <1>7, <2>2 DEF Synced
  <1>11. ASSUME NEW b, RunningLater(b) PROVE RunningLater(b)'
    <2>1. CASE NoneOf(Len(gq), StateKinds) /\ ((state = "running") <=> b)
      BY <1>2, <1>8, <2>1 DEF RunningLater
    <2>2. ASSUME NEW j \in 1 .. Len(gq), LastAt(Len(gq), StateKinds, j), (gq[j].ev = "state") <=> b
          PROVE  RunningLater(b)'
      <3>1. CASE j = 1
        <4>1. NoneOf(Len(gq), StateKinds)' /\ e.ev \in {"state", "end"}
          BY <1>8, <2>2, <3>1 DEF StateKinds
        <4>2. (state' = "running") <=> b
          BY <1>2, <2>2, <3>1, <4>1 DEF e
        <4> QED
          BY <4>1, <4>2 DEF RunningLater
      <3>2. CASE j # 1
        <4>1. PICK i \in 1 .. n : j = i + 1
          BY <1>3, <3>2
        <4>2. LastAt(Len(gq), StateKinds, i)' /\ gq'[i] = gq[j] /\ i \in 1 .. Len(gq')
          BY <1>7, <1>8, <2>2, <4>1
        <4> QED
          BY <2>2, <4>2 DEF RunningLater
      <3> QED
        BY <3>1, <3>2
    <2> QED
      BY <1>11, <2>1, <2>2 DEF RunningLater
  <1>12. ASSUME NEW b, LoadingLater(b) PROVE LoadingLater(b)'
    <2>1. CASE NoneOf(Len(gq), {"loading"}) /\ loading = b
      BY <1>2, <1>8, <2>1 DEF LoadingLater
    <2>2. ASSUME NEW j \in 1 .. Len(gq), LastAt(Len(gq), {"loading"}, j), gq[j].on = b
          PROVE  LoadingLater(b)'
      <3>1. CASE j = 1
        BY <1>2, <1>8, <2>2, <3>1 DEF LoadingLater, e
      <3>2. CASE j # 1
        <4>1. PICK i \in 1 .. n : j = i + 1
          BY <1>3, <3>2
        <4>2. LastAt(Len(gq), {"loading"}, i)' /\ gq'[i] = gq[j] /\ i \in 1 .. Len(gq')
          BY <1>7, <1>8, <2>2, <4>1
        <4> QED
          BY <2>2, <4>2 DEF LoadingLater
      <3> QED
        BY <3>1, <3>2
    <2> QED
      BY <1>12, <2>1, <2>2 DEF LoadingLater
  <1>13. ASSUME NEW t, TimeLater(t) PROVE TimeLater(t)'
    <2>1. CASE NoneOf(Len(gq), {"time"}) /\ time = t
      BY <1>2, <1>8, <2>1 DEF TimeLater
    <2>2. ASSUME NEW j \in 1 .. Len(gq), LastAt(Len(gq), {"time"}, j), gq[j].pos = t
          PROVE  TimeLater(t)'
      <3>1. CASE j = 1
        BY <1>2, <1>8, <2>2, <3>1 DEF TimeLater, e
      <3>2. CASE j # 1
        <4>1. PICK i \in 1 .. n : j = i + 1
          BY <1>3, <3>2
        <4>2. LastAt(Len(gq), {"time"}, i)' /\ gq'[i] = gq[j] /\ i \in 1 .. Len(gq')
          BY <1>7, <1>8, <2>2, <4>1
        <4> QED
          BY <2>2, <4>2 DEF TimeLater
      <3> QED
        BY <3>1, <3>2
    <2> QED
      BY <1>13, <2>1, <2>2 DEF TimeLater
  <1>14. ASSUME StartsSynced, NEW i \in 1 .. n, NEW d, gq[i + 1].ev = "start", gq[i + 1].id = d
         PROVE  \E r \in AnyMrl : ParamsLater(i - 1, d, r)'
    <2>1. i + 1 \in 1 .. Len(gq) /\ i \in Nat /\ i - 1 \in Nat
          /\ (i + 1) - 1 = i /\ i = (i - 1) + 1 /\ i <= Len(gq)
      BY <1>7
    <2>2. PICK r \in AnyMrl : ParamsLater(i, d, r)
      BY <1>14, <2>1 DEF StartsSynced
    <2>3. PICK k \in Nat : k = i - 1
      BY <2>1
    <2>4. ParamsLater(k, d, r)'
      BY <1>9, <2>1, <2>2, <2>3
    <2> QED
      BY <2>3, <2>4
  <1>15. ASSUME StartsSynced PROVE StartsSynced'
    <2> SUFFICES ASSUME NEW i \in 1 .. n, gq'[i].ev = "start"
                 PROVE  \E r \in AnyMrl : ParamsLater(i - 1, gq[i].id, r)'
      BY <1>7 DEF StartsSynced
    <2>1. gq'[i] = gq[i + 1]
      <3>1. m <= Len(gq)
        BY <1>7
      <3>2. \A j \in 1 .. n : gq'[j] = gq[j + 1]
        BY <1>6, <1>7, <3>1
      <3> QED
        BY <3>2
    <2>2. PICK d : d = gq[i + 1].id
      OBVIOUS
    <2>3. PICK r \in AnyMrl : ParamsLater(i - 1, d, r)'
      BY <1>14, <1>15, <2>1, <2>2
    <2> QED
      BY <2>1, <2>2, <2>3 DEF ParamsLater
  <1> QED
    BY <1>10, <1>11, <1>12, <1>13, <1>15

-----------------------------------------------------------------------------
(* The parameters of a file come before its start.                           *)

\* A step that posts nothing and leaves the engine alone keeps what is synced.
LEMMA SyncsKept ==
    ASSUME QInv, UNCHANGED <<gq, params, state, loading, time>>
    PROVE  /\ StartsSynced'
           /\ (\A i \in 1 .. Len(mq') : mq'[i].ev = "loaded" =>
                   \E j \in 1 .. Len(mq) : mq'[i] = mq[j]) => LoadedSynced'
           /\ Synced(cur.id, cur.mrl) /\ UNCHANGED cur => Synced(cur.id, cur.mrl)'
  <1>1. LoadedSynced /\ StartsSynced
    BY DEF QInv, Syncs
  <1>2. \A i, m : Synced(i, m) => Synced(i, m)'
    BY LaterKept
  <1>3. ASSUME \A i \in 1 .. Len(mq') : mq'[i].ev = "loaded" =>
                   \E j \in 1 .. Len(mq) : mq'[i] = mq[j]
        PROVE  LoadedSynced'
    <2> SUFFICES ASSUME NEW i \in 1 .. Len(mq'), mq'[i].ev = "loaded"
                 PROVE  \E m \in AnyMrl : Synced(mq[i].id, m)'
      BY DEF LoadedSynced
    <2>1. PICK j \in 1 .. Len(mq) : mq'[i] = mq[j]
      BY <1>3
    <2>2. PICK d : d = mq[j].id
      OBVIOUS
    <2>3. PICK m \in AnyMrl : Synced(d, m)
      BY <1>1, <2>1, <2>2 DEF LoadedSynced
    <2>4. Synced(d, m)' /\ mq'[i].id = d
      BY <1>2, <2>1, <2>2, <2>3
    <2> QED
      BY <2>4 DEF Synced, ParamsLater
  <1>4. ASSUME Synced(cur.id, cur.mrl), UNCHANGED cur PROVE Synced(cur.id, cur.mrl)'
    <2>1. PICK i, m : i = cur.id /\ m = cur.mrl
      OBVIOUS
    <2>2. Synced(i, m)'
      BY <1>2, <1>4, <2>1
    <2> QED
      BY <1>4, <2>1, <2>2 DEF Synced, ParamsLater
  <1> QED
    BY <1>1, <1>3, <1>4, LaterKept

\* Posting events that are neither a sync nor a start does, too.
LEMMA SyncsPosted ==
    ASSUME QInv, NEW s \in Seq(GEvents), gq' = gq \o s,
           UNCHANGED <<params, state, loading, time>>,
           \A j \in 1 .. Len(s) : s[j].ev # "sync"
    PROVE  /\ (\A j \in 1 .. Len(s) : s[j].ev # "start") => StartsSynced'
           /\ (\A i \in 1 .. Len(mq') : mq'[i].ev = "loaded" =>
                   \E j \in 1 .. Len(mq) : mq'[i] = mq[j]) => LoadedSynced'
           /\ Synced(cur.id, cur.mrl) /\ UNCHANGED cur => Synced(cur.id, cur.mrl)'
  <1>1. LoadedSynced /\ StartsSynced /\ TypeOK
    BY DEF QInv, IInv, Syncs
  <1>2. \A i, m : Synced(i, m) => Synced(i, m)'
    BY <1>1, LaterPosted
  <1>3. ASSUME \A i \in 1 .. Len(mq') : mq'[i].ev = "loaded" =>
                   \E j \in 1 .. Len(mq) : mq'[i] = mq[j]
        PROVE  LoadedSynced'
    <2> SUFFICES ASSUME NEW i \in 1 .. Len(mq'), mq'[i].ev = "loaded"
                 PROVE  \E m \in AnyMrl : Synced(mq[i].id, m)'
      BY DEF LoadedSynced
    <2>1. PICK j \in 1 .. Len(mq) : mq'[i] = mq[j]
      BY <1>3
    <2>2. PICK d : d = mq[j].id
      OBVIOUS
    <2>3. PICK m \in AnyMrl : Synced(d, m)
      BY <1>1, <2>1, <2>2 DEF LoadedSynced
    <2>4. Synced(d, m)' /\ mq'[i].id = d
      BY <1>2, <2>1, <2>2, <2>3
    <2> QED
      BY <2>4 DEF Synced, ParamsLater
  <1>4. ASSUME Synced(cur.id, cur.mrl), UNCHANGED cur PROVE Synced(cur.id, cur.mrl)'
    <2>1. PICK i, m : i = cur.id /\ m = cur.mrl
      OBVIOUS
    <2>2. Synced(i, m)'
      BY <1>2, <1>4, <2>1
    <2> QED
      BY <1>4, <2>1, <2>2 DEF Synced, ParamsLater
  <1>5. ASSUME \A j \in 1 .. Len(s) : s[j].ev # "start" PROVE StartsSynced'
    <2> SUFFICES ASSUME NEW i \in 1 .. Len(gq'), gq'[i].ev = "start"
                 PROVE  \E m \in AnyMrl : ParamsLater(i - 1, gq[i].id, m)'
      BY DEF StartsSynced
    <2>1. i \in 1 .. Len(gq) /\ gq'[i] = gq[i]
      BY <1>1, <1>5, Posted
    <2>2. PICK m \in AnyMrl : ParamsLater(i - 1, gq[i].id, m)
      BY <1>1, <2>1 DEF StartsSynced
    <2>3. \A j \in 1 .. i - 1 : gq'[j] = gq[j]
      BY <1>1, <2>1, Posted
    <2> QED
      BY <2>1, <2>2, <2>3 DEF ParamsLater, NoneOf, LastAt
  <1> QED
    BY <1>3, <1>4, <1>5

\* The start of a file does not mind what is posted after it.
LEMMA StartsPosted ==
    ASSUME TypeOK, StartsSynced, NEW s \in Seq(GEvents), gq' = gq \o s, UNCHANGED params,
           NEW i \in 1 .. Len(gq), gq[i].ev = "start"
    PROVE  gq'[i] = gq[i] /\ \E m \in AnyMrl : ParamsLater(i - 1, gq[i].id, m)'
  <1>1. gq'[i] = gq[i] /\ \A j \in 1 .. i - 1 : gq'[j] = gq[j]
    BY Posted
  <1>2. PICK m \in AnyMrl : ParamsLater(i - 1, gq[i].id, m)
    BY DEF StartsSynced
  <1> QED
    BY <1>1, <1>2 DEF ParamsLater, NoneOf, LastAt

\* Every step keeps Syncs.
LEMMA SyncsNext == QInv /\ Next => Syncs'
  <1> SUFFICES ASSUME QInv, Next PROVE Syncs'
    OBVIOUS
  <1>0. TypeOK /\ HookOrder /\ QueueOrder /\ Syncs
    BY DEF QInv, IInv
  <1>1. /\ mpc \in OnLoad => tlocal.id = cur.id /\ tlocal.mrl = cur.mrl
        /\ cpc \in {"load", "open", "play"} /\ "load" \notin active => Synced(cur.id, cur.mrl)
        /\ LoadedSynced /\ StartsSynced
    BY <1>0 DEF Syncs
  \* what the events that are still queued have to satisfy
  <1>2. UNCHANGED mq => \A i \in 1 .. Len(mq') : \E j \in 1 .. Len(mq) : mq'[i] = mq[j]
    OBVIOUS
  <1>3. \A e : Popped(e) => \A i \in 1 .. Len(mq') : \E j \in 1 .. Len(mq) : mq'[i] = mq[j]
    BY <1>0, PoppedQueued
  <1>4. \A e : mq' = Append(mq, e) /\ e.ev # "loaded" =>
           \A i \in 1 .. Len(mq') : mq'[i].ev = "loaded" =>
              \E j \in 1 .. Len(mq) : mq'[i] = mq[j]
    BY <1>0, AppendedQueued
  \* a step that posts nothing
  <1>5. ASSUME UNCHANGED <<gq, params, state, loading, time>>,
               \A i \in 1 .. Len(mq') : mq'[i].ev = "loaded" =>
                  \E j \in 1 .. Len(mq) : mq'[i] = mq[j],
               mpc' \in OnLoad => tlocal'.id = cur'.id /\ tlocal'.mrl = cur'.mrl,
               cpc' \in {"load", "open", "play"} /\ "load" \notin active' =>
                  /\ UNCHANGED cur
                  /\ cpc \in {"load", "open", "play"} /\ "load" \notin active
        PROVE  Syncs'
    <2>1. StartsSynced' /\ LoadedSynced'
      BY <1>5, SyncsKept
    <2>2. Synced(cur.id, cur.mrl) /\ UNCHANGED cur => Synced(cur.id, cur.mrl)'
      BY <1>5, SyncsKept
    <2> QED
      BY <1>1, <1>5, <2>1, <2>2 DEF Syncs
  \* a step that posts neither a sync nor a start
  <1>6. ASSUME NEW s \in Seq(GEvents), gq' = gq \o s, UNCHANGED <<params, state, loading, time>>,
               \A j \in 1 .. Len(s) : s[j].ev # "sync" /\ s[j].ev # "start",
               \A i \in 1 .. Len(mq') : mq'[i].ev = "loaded" =>
                  \E j \in 1 .. Len(mq) : mq'[i] = mq[j],
               mpc' \notin OnLoad, UNCHANGED <<cur, cpc, active>>
        PROVE  Syncs'
    <2>1. StartsSynced' /\ LoadedSynced'
      BY <1>6, SyncsPosted
    <2>2. Synced(cur.id, cur.mrl) /\ UNCHANGED cur => Synced(cur.id, cur.mrl)'
      BY <1>6, SyncsPosted
    <2> QED
      BY <1>1, <1>6, <2>1, <2>2 DEF Syncs
  <1>7. CASE CoreStart
    <2> DEFINE a == [ev |-> "start", id |-> next.id]
               b == [ev |-> "load", id |-> next.id]
    <2>1. mq' = mq \o <<a, b>> /\ mq \in Seq(MEvents) /\ a.ev = "start" /\ b.ev = "load"
      BY <1>0, <1>7 DEF CoreStart, TypeOK
    <2>2. a \in MEvents /\ b \in MEvents
      <3>1. next.id \in Ids
        BY <1>0, <1>7 DEF CoreStart, TypeOK, Entry
      <3> QED
        BY <3>1 DEF MEvents
    <2> HIDE DEF a, b
    <2>3. \A i \in 1 .. Len(mq') : mq'[i] = a \/ mq'[i] = b \/ \E j \in 1 .. Len(mq) : mq'[i] = mq[j]
      BY <2>1, <2>2
    <2>4. \A i \in 1 .. Len(mq') : mq'[i].ev = "loaded" => \E j \in 1 .. Len(mq) : mq'[i] = mq[j]
      BY <2>1, <2>3
    <2>5. mpc \notin OnLoad
      BY <1>0, <1>7 DEF CoreStart, HookOrder, LoadHook
    <2> QED
      BY <1>5, <1>7, <2>4, <2>5 DEF CoreStart, clientVars, guiVars
  <1>8. CASE CoreLoadDone
    <2>1. \A i \in 1 .. Len(mq') : mq'[i].ev = "loaded" => \E j \in 1 .. Len(mq) : mq'[i] = mq[j]
      BY <1>2, <1>4, <1>8 DEF CoreLoadDone, Terminate, Event
    <2> QED
      BY <1>1, <1>5, <1>8, <2>1 DEF CoreLoadDone, Terminate, clientVars, guiVars
  <1>9. CASE CoreOpenFails \/ CoreFinish \/ CoreUnloaded \/ CoreOff
    <2>1. \A i \in 1 .. Len(mq') : mq'[i].ev = "loaded" => \E j \in 1 .. Len(mq) : mq'[i] = mq[j]
      BY <1>4, <1>9 DEF CoreOpenFails, CoreFinish, CoreUnloaded, CoreOff, Terminate, Event,
         EndEvent, ShutdownEvent
    <2>2. UNCHANGED <<mpc, tlocal, gq, params, state, loading, time>>
      BY <1>9 DEF CoreOpenFails, CoreFinish, CoreUnloaded, CoreOff, clientVars, guiVars
    <2>3. cpc' \in {"unload", "idle", "off"}
      BY <1>9 DEF CoreOpenFails, CoreFinish, CoreUnloaded, CoreOff, Terminate
    <2>4. UNCHANGED cur \/ mpc \notin OnLoad
      BY <1>0, <1>9 DEF CoreOpenFails, CoreFinish, CoreUnloaded, CoreOff, HookOrder, UnloadHook,
         OnLoad
    <2> QED
      BY <1>1, <1>5, <2>1, <2>2, <2>3, <2>4
  <1>10. CASE CoreAdvance
    BY <1>1, <1>2, <1>5, <1>10 DEF CoreAdvance, clientVars, guiVars
  <1>11. CASE CoreOpened
    <2> DEFINE e == Event("loaded")
    <2>1. /\ cpc = "open" /\ cpc' = "play" /\ mq' = Append(mq, e)
          /\ UNCHANGED <<gq, params, state, loading, time, cur, active, mpc, tlocal>>
      BY <1>11 DEF CoreOpened, clientVars, guiVars
    <2>2. e.ev = "loaded" /\ e.id = cur.id
      BY DEF Event
    <2>3. \A i \in 1 .. Len(mq') : mq'[i] = e \/ \E j \in 1 .. Len(mq) : mq'[i] = mq[j]
      BY <1>0, <2>1, AppendedQueued
    <2> HIDE DEF e
    <2>4. PICK i, m : i = cur.id /\ m = cur.mrl
      OBVIOUS
    <2>5. Synced(i, m)
      BY <1>0, <1>1, <2>1, <2>4 DEF QueueOrder
    <2>6. \A k, r : Synced(k, r) => Synced(k, r)'
      BY <2>1, LaterKept
    <2>7. Synced(cur.id, cur.mrl)'
      <3>1. Synced(i, m)'
        BY <2>5, <2>6
      <3> QED
        BY <2>1, <2>4, <3>1 DEF Synced, ParamsLater
    <2>8. StartsSynced'
      BY <2>1, SyncsKept
    <2>9. m \in AnyMrl
      BY <1>0, <2>1, <2>4 DEF HookOrder, CurrentFile, TypeOK, Entry, AnyMrl
    <2>10. LoadedSynced'
      <3> SUFFICES ASSUME NEW k \in 1 .. Len(mq'), mq'[k].ev = "loaded"
                   PROVE  \E r \in AnyMrl : Synced(mq[k].id, r)'
        BY DEF LoadedSynced
      <3>1. CASE mq'[k] = e
        <4>1. Synced(i, m)' /\ mq'[k].id = i
          BY <2>2, <2>4, <2>5, <2>6, <3>1
        <4> QED
          BY <2>9, <4>1 DEF Synced, ParamsLater
      <3>2. CASE mq'[k] # e
        <4>1. PICK j \in 1 .. Len(mq) : mq'[k] = mq[j]
          BY <2>3, <3>2
        <4>2. PICK d : d = mq[j].id
          OBVIOUS
        <4>3. PICK r \in AnyMrl : Synced(d, r)
          BY <1>1, <4>1, <4>2 DEF LoadedSynced
        <4>4. Synced(d, r)' /\ mq'[k].id = d
          BY <2>6, <4>1, <4>2, <4>3
        <4> QED
          BY <4>4 DEF Synced, ParamsLater
      <3> QED
        BY <3>1, <3>2
    <2> QED
      BY <1>1, <2>1, <2>7, <2>8, <2>10 DEF Syncs
  <1>12. CASE OnLoadCopy
    <2>1. \A i \in 1 .. Len(mq') : mq'[i].ev = "loaded" => \E j \in 1 .. Len(mq) : mq'[i] = mq[j]
      BY <1>3, <1>12 DEF OnLoadCopy
    <2> QED
      BY <1>5, <1>12, <2>1 DEF OnLoadCopy, coreVars, guiVars
  <1>13. CASE OnLoadTake
    BY <1>1, <1>2, <1>5, <1>13 DEF OnLoadTake, OnLoad, coreVars, guiVars
  <1>14. CASE OnLoadHistory
    <2>1. tlocal \in MrlState /\ mpc \in OnLoad
      BY <1>0, <1>14 DEF OnLoadHistory, HookOrder, LoadHook, OnLoad, TypeOK
    <2>2. tlocal'.id = tlocal.id /\ tlocal'.mrl = tlocal.mrl
      BY <1>14, <2>1 DEF OnLoadHistory, MrlState
    <2> QED
      BY <1>1, <1>2, <1>5, <1>14, <2>1, <2>2 DEF OnLoadHistory, coreVars, guiVars
  <1>15. CASE OnLoadSync
    <2> DEFINE e == [ev |-> "sync", ms |-> tlocal]
    <2>1. /\ mpc \in OnLoad /\ mpc' \notin OnLoad /\ gq' = gq \o <<e>>
          /\ UNCHANGED <<cpc, cur, mq, params, state, loading, time>>
      BY <1>15 DEF OnLoadSync, SyncPosted, OnLoad, guiVars
    <2>2. /\ tlocal.id = cur.id /\ tlocal.mrl = cur.mrl /\ tlocal \in MrlState
          /\ "load" \in active
      BY <1>0, <1>1, <2>1 DEF HookOrder, LoadHook, TypeOK
    <2>3. <<e>> \in Seq(GEvents)
      BY <2>2 DEF GEvents
    <2>4. e.ev = "sync" /\ e.ms.id = cur.id /\ e.ms.mrl = cur.mrl
      BY <2>2
    <2> HIDE DEF e
    <2>5. /\ Len(gq) + 1 = Len(gq') /\ Len(gq) \in Nat /\ gq'[Len(gq')] = e
          /\ \A j \in 1 .. Len(gq') : j \in 1 .. Len(gq) \/ j = Len(gq')
      BY <1>0, <2>1, <2>3, Posted
    <2>6. Synced(cur.id, cur.mrl)'
      <3>1. /\ Len(gq') \in 1 .. Len(gq') /\ gq'[Len(gq')].ev \in {"sync"}
            /\ \A k \in 1 .. Len(gq') : ~(k > Len(gq'))
        BY <2>4, <2>5
      <3>2. LastAt(Len(gq), {"sync"}, Len(gq))'
        BY <3>1 DEF LastAt
      <3> QED
        BY <2>1, <2>4, <2>5, <3>1, <3>2 DEF Synced, ParamsLater
    <2>7. LoadedSynced'
      <3>1. ~Queued("loaded")
        BY <1>0, <2>2 DEF QueueOrder
      <3> QED
        BY <2>1, <3>1 DEF LoadedSynced, Queued
    <2>8. StartsSynced'
      <3> SUFFICES ASSUME NEW i \in 1 .. Len(gq'), gq'[i].ev = "start"
                   PROVE  \E m \in AnyMrl : ParamsLater(i - 1, gq[i].id, m)'
        BY DEF StartsSynced
      <3>1. i \in 1 .. Len(gq) /\ gq'[i] = gq[i]
        <4>1. i # Len(gq')
          BY <2>4, <2>5
        <4> QED
          BY <1>0, <2>1, <2>3, <2>5, <4>1, Posted
      <3> QED
        BY <1>0, <1>1, <2>1, <2>3, <3>1, StartsPosted
    <2> QED
      BY <2>1, <2>6, <2>7, <2>8 DEF Syncs
  <1>16. CASE FileLoaded
    <2> DEFINE a == [ev |-> "state", to |-> "running"]
               b == [ev |-> "loading", on |-> FALSE]
               c == [ev |-> "start", id |-> Head(mq).id]
    <2>1. /\ gq' = gq \o <<a, b, c>> /\ mq[1] = Head(mq) /\ mq[1].ev = "loaded"
          /\ 1 \in 1 .. Len(mq) /\ mpc = "wait" /\ mpc' = "wait"
          /\ UNCHANGED <<cpc, cur, active, params, state, loading, time>>
      BY <1>0, <1>16, PoppedQueued DEF FileLoaded, coreVars, clientVars, guiVars
    <2>2. a \in GEvents /\ b \in GEvents /\ c \in GEvents
      BY <1>0, <1>16, PoppedType DEF FileLoaded, GEvents
    <2>3. <<a, b, c>> \in Seq(GEvents) /\ Len(<<a, b, c>>) = 3
      BY <2>2
    <2>4. a.ev = "state" /\ b.ev = "loading" /\ c.ev = "start" /\ c.id = mq[1].id
      BY <2>1
    <2> HIDE DEF a, b, c
    <2>5. \A j \in 1 .. 3 : <<a, b, c>>[j] = a \/ <<a, b, c>>[j] = b \/ <<a, b, c>>[j] = c
      OBVIOUS
    <2>6. \A j \in 1 .. Len(<<a, b, c>>) : <<a, b, c>>[j].ev # "sync"
      BY <2>3, <2>4, <2>5
    <2>7. LoadedSynced'
      <3>1. \A i \in 1 .. Len(mq') : mq'[i].ev = "loaded" =>
               \E j \in 1 .. Len(mq) : mq'[i] = mq[j]
        BY <1>3, <1>16 DEF FileLoaded
      <3> QED
        BY <2>1, <2>3, <2>6, <3>1, SyncsPosted
    <2>8. Synced(cur.id, cur.mrl) => Synced(cur.id, cur.mrl)'
      BY <2>1, <2>3, <2>6, SyncsPosted
    <2>9. PICK n \in Nat : n = Len(gq)
      BY <1>0 DEF TypeOK
    <2>10. /\ Len(gq') = n + 3 /\ \A j \in 1 .. n : gq'[j] = gq[j]
           /\ gq'[n + 1] = a /\ gq'[n + 2] = b /\ gq'[n + 3] = c
      BY <2>1, <2>2, <2>9, <1>0 DEF TypeOK
    <2>11. PICK d : d = mq[1].id
      OBVIOUS
    <2>12. PICK m \in AnyMrl : ParamsLater(n, d, m)
      BY <1>1, <2>1, <2>9, <2>11 DEF LoadedSynced, Synced
    <2>13. PICK k \in Nat : k = n + 2
      BY <2>9
    <2>14. \A j \in 1 .. k : j > n => gq'[j].ev \notin {"sync"}
      <3>1. \A j \in 1 .. k : j > n => j = n + 1 \/ j = n + 2
        BY <2>9, <2>13
      <3> QED
        BY <2>4, <2>10, <3>1
    <2>15. /\ NoneOf(n, {"sync"}) => NoneOf(k, {"sync"})'
           /\ \A j \in 1 .. n : LastAt(n, {"sync"}, j) => j \in 1 .. k /\ LastAt(k, {"sync"}, j)'
      <3>1. n <= k
        BY <2>13
      <3> QED
        BY <2>10, <2>13, <2>14, <3>1, StaysLast
    <2>16. ParamsLater(k, d, m)'
      BY <2>1, <2>10, <2>12, <2>15 DEF ParamsLater
    <2>17. StartsSynced'
      <3> SUFFICES ASSUME NEW i \in 1 .. Len(gq'), gq'[i].ev = "start"
                   PROVE  \E r \in AnyMrl : ParamsLater(i - 1, gq[i].id, r)'
        BY DEF StartsSynced
      <3>1. CASE i \in 1 .. Len(gq)
        <4>1. gq[i].ev = "start"
          BY <2>9, <2>10, <3>1
        <4> QED
          BY <1>0, <1>1, <2>1, <2>3, <3>1, <4>1, StartsPosted
      <3>2. CASE i \notin 1 .. Len(gq)
        <4>1. i = n + 3 /\ i - 1 = k
          <5>1. i = n + 1 \/ i = n + 2 \/ i = n + 3
            BY <2>9, <2>10, <3>2
          <5>2. i # n + 1 /\ i # n + 2
            BY <2>4, <2>10
          <5> QED
            BY <2>9, <2>13, <5>1, <5>2
        <4>2. gq'[i].id = d
          BY <2>4, <2>10, <2>11, <4>1
        <4> QED
          BY <2>16, <4>1, <4>2 DEF ParamsLater
      <3> QED
        BY <3>1, <3>2
    <2> QED
      BY <1>1, <2>1, <2>7, <2>8, <2>17 DEF Syncs, OnLoad
  <1>17. CASE OnUnloadCopy
    <2>1. \A i \in 1 .. Len(mq') : mq'[i].ev = "loaded" => \E j \in 1 .. Len(mq) : mq'[i] = mq[j]
      BY <1>3, <1>17 DEF OnUnloadCopy
    <2> QED
      BY <1>5, <1>17, <2>1 DEF OnUnloadCopy, OnLoad, coreVars, guiVars
  <1>18. CASE OnUnloadTime
    BY <1>2, <1>5, <1>18 DEF OnUnloadTime, OnLoad, guiVars
  <1>19. CASE MpvExit
    <2>1. \A i \in 1 .. Len(mq') : mq'[i].ev = "loaded" => \E j \in 1 .. Len(mq) : mq'[i] = mq[j]
      BY <1>3, <1>19 DEF MpvExit
    <2> QED
      BY <1>5, <1>19, <2>1 DEF MpvExit, OnLoad, coreVars, guiVars
  <1>20. CASE StartFile
    <2> DEFINE s == <<[ev |-> "state", to |-> "running"], [ev |-> "loading", on |-> TRUE]>>
    <2>1. s \in Seq(GEvents) /\ \A j \in 1 .. Len(s) : s[j].ev # "sync" /\ s[j].ev # "start"
      BY DEF GEvents
    <2>2. gq' = gq \o s /\ mpc' \notin OnLoad
      BY <1>20 DEF StartFile, Popped, clientVars, OnLoad
    <2>3. \A i \in 1 .. Len(mq') : mq'[i].ev = "loaded" => \E j \in 1 .. Len(mq) : mq'[i] = mq[j]
      BY <1>3, <1>20 DEF StartFile
    <2> HIDE DEF s
    <2> QED
      BY <1>6, <1>20, <2>1, <2>2, <2>3 DEF StartFile, coreVars, guiVars
  <1>21. CASE EndFile
    <2>1. EndPosted \in Seq(GEvents)
      <3>1. Head(mq) \in MEvents /\ Head(mq).ev = "end"
        BY <1>0, <1>21, PoppedType DEF EndFile, Popped
      <3>2. Head(mq).id \in Ids /\ Head(mq).reason \in Reasons
        BY <3>1 DEF MEvents
      <3> QED
        BY <1>0, <3>2 DEF EndPosted, Ended, GEvents, TypeOK
    <2>2. \A j \in 1 .. Len(EndPosted) : EndPosted[j].ev # "sync" /\ EndPosted[j].ev # "start"
      BY DEF EndPosted, Ended
    <2>3. mpc' \notin OnLoad /\ gq' = gq \o EndPosted
      BY <1>21 DEF EndFile, Popped, OnLoad
    <2>4. \A i \in 1 .. Len(mq') : mq'[i].ev = "loaded" => \E j \in 1 .. Len(mq) : mq'[i] = mq[j]
      BY <1>3, <1>21 DEF EndFile
    <2> QED
      BY <1>6, <1>21, <2>1, <2>2, <2>3, <2>4 DEF EndFile, coreVars, guiVars
  <1>22. CASE TimePos
    <2> DEFINE s == <<[ev |-> "time", pos |-> pos]>>
    <2>1. s \in Seq(GEvents) /\ \A j \in 1 .. Len(s) : s[j].ev # "sync" /\ s[j].ev # "start"
      BY <1>0 DEF GEvents, TypeOK
    <2>2. gq' = gq \o s /\ mpc' \notin OnLoad
      BY <1>0, <1>22 DEF TimePos, TypeOK, clientVars, OnLoad
    <2> HIDE DEF s
    <2> QED
      BY <1>2, <1>6, <1>22, <2>1, <2>2 DEF TimePos, guiVars
  <1>23. CASE Process
    <2>1. UNCHANGED <<cpc, cur, active, mq, mpc, tlocal>>
      BY <1>23 DEF Process, StateChange, WaitingChange, Tick, SyncMrlState, StartPlayback,
         EndPlayback, coreVars, clientVars
    <2>2. StartsSynced' /\ \A i, m : Synced(i, m) => Synced(i, m)'
      BY <1>0, <1>1, <1>23, LaterHandled
    <2>3. Synced(cur.id, cur.mrl) => Synced(cur.id, cur.mrl)'
      <3>1. PICK i, m : i = cur.id /\ m = cur.mrl
        OBVIOUS
      <3>2. Synced(i, m) => Synced(i, m)'
        BY <2>2
      <3> QED
        BY <2>1, <3>1, <3>2 DEF Synced, ParamsLater
    <2>4. LoadedSynced'
      <3> SUFFICES ASSUME NEW k \in 1 .. Len(mq'), mq'[k].ev = "loaded"
                   PROVE  \E r \in AnyMrl : Synced(mq[k].id, r)'
        BY DEF LoadedSynced
      <3>1. PICK d : d = mq[k].id
        OBVIOUS
      <3>2. PICK r \in AnyMrl : Synced(d, r)
        BY <1>1, <2>1, <3>1 DEF LoadedSynced
      <3>3. Synced(d, r)' /\ mq'[k].id = d
        BY <2>1, <2>2, <3>1, <3>2
      <3> QED
        BY <3>3 DEF Synced, ParamsLater
    <2> QED
      BY <1>1, <2>1, <2>2, <2>3, <2>4 DEF Syncs
  <1>24. CASE User \/ ReloadLoad \/ WaitUntilTerminated \/ Exit \/ Terminating
    <2>1. UNCHANGED <<gq, params, state, loading, time, mq, mpc, tlocal, cur, cpc, active>>
      BY <1>24 DEF User, Load, LoadFile, Reload, ReloadLoad, Stop, SetMrl, StopFile, Shutdown,
         WaitUntilTerminated, Exit, Terminating, vars, coreVars, clientVars, guiVars
    <2> QED
      BY <1>1, <1>2, <1>5, <2>1
  <1> QED
    BY <1>7, <1>8, <1>9, <1>10, <1>11, <1>12, <1>13, <1>14, <1>15, <1>16, <1>17, <1>18,
       <1>19, <1>20, <1>21, <1>22, <1>23, <1>24 DEF Next, Core, Client

-----------------------------------------------------------------------------
(* What the GUI will show is what libmpv does.                               *)

\* An event of the kinds K that is posted with none after it is the last of them.
LEMMA NewLast ==
    ASSUME TypeOK, NEW s \in Seq(GEvents), gq' = gq \o s, NEW j \in 1 .. Len(s), NEW K,
           s[j].ev \in K, \A k \in 1 .. Len(s) : k > j => s[k].ev \notin K
    PROVE  \E i \in 1 .. Len(gq') :
              /\ i = Len(gq) + j /\ gq'[i] = s[j] /\ gq'[i].ev \in K
              /\ \A h \in 1 .. Len(gq') : h > i => gq'[h].ev \notin K
  <1>1. PICK i \in 1 .. Len(gq') : i = Len(gq) + j /\ gq'[i] = s[j]
    BY Posted
  <1>2. ASSUME NEW h \in 1 .. Len(gq'), h > i PROVE gq'[h].ev \notin K
    <2>1. /\ Len(gq) \in Nat /\ Len(s) \in Nat /\ Len(gq') = Len(gq) + Len(s)
          /\ h \in 1 .. Len(gq) \/ (h - Len(gq) \in 1 .. Len(s) /\ gq'[h] = s[h - Len(gq)])
      BY Posted
    <2>2. \A n, l \in Nat, x, y, z \in Int :
             x \in 1 .. l /\ y = n + x /\ z > y => z \notin 1 .. n /\ z - n > x
      OBVIOUS
    <2>3. Len(gq) \in Nat /\ Len(s) \in Nat /\ i \in Int /\ h \in Int
      BY <2>1
    <2>4. h \notin 1 .. Len(gq) /\ h - Len(gq) > j
      BY <1>1, <1>2, <2>2, <2>3
    <2> QED
      BY <2>1, <2>4
  <1> QED
    BY <1>1, <1>2

\* The last of the posted events of a kind decides what will be shown.
LEMMA NewShown ==
    ASSUME TypeOK, NEW s \in Seq(GEvents), gq' = gq \o s, NEW j \in 1 .. Len(s)
    PROVE  /\ s[j].ev \in StateKinds /\ (\A k \in 1 .. Len(s) : k > j => s[k].ev \notin StateKinds)
              => \A b : ((s[j].ev = "state") <=> b) => RunningLater(b)'
           /\ s[j].ev = "loading" /\ (\A k \in 1 .. Len(s) : k > j => s[k].ev # "loading")
              => \A b : s[j].on = b => LoadingLater(b)'
           /\ s[j].ev = "time" /\ (\A k \in 1 .. Len(s) : k > j => s[k].ev # "time")
              => \A t : s[j].pos = t => TimeLater(t)'
  <1>1. PICK i \in 1 .. Len(gq') : i = Len(gq) + j /\ gq'[i] = s[j]
    BY Posted
  <1>2. ASSUME NEW K, s[j].ev \in K, \A k \in 1 .. Len(s) : k > j => s[k].ev \notin K
        PROVE  LastAt(Len(gq), K, i)'
    BY <1>1, <1>2, NewLast DEF LastAt
  <1> QED
    BY <1>1, <1>2 DEF RunningLater, LoadingLater, TimeLater

\* Every step keeps Shown.
LEMMA ShownNext == QInv /\ Next => Shown'
  <1> SUFFICES ASSUME QInv, Next PROVE Shown'
    OBVIOUS
  <1>0. TypeOK /\ HookOrder /\ QueueOrder /\ Shown
    BY DEF QInv, IInv
  <1>1. /\ Queued("start") => cpc \in {"load", "unload"}
        /\ cpc \in {"load", "open", "idle", "off"} => pos = 0
        /\ Queued("loaded") => cpc \in {"play", "unload"}
        /\ Queued("end") => cpc \in {"idle", "off"} \/ Queued("start")
    BY <1>0, StartMeansLoad DEF QueueOrder
  <1>2. \A x, e : Popped(e) /\ Queued(x) => x = e \/ Queued(x)'
    BY <1>0, PoppedQueued
  <1>3. \A x, e : mq' = Append(mq, e) => (Queued(x)' <=> Queued(x) \/ x = e.ev)
    BY <1>0, AppendedQueued
  <1>4. UNCHANGED mq => \A x : Queued(x) => Queued(x)'
    BY SameQueued
  \* a step that lets the core and the events of a file alone
  <1>5. ASSUME \A b : RunningLater(b) => RunningLater(b)',
               \A b : LoadingLater(b) => LoadingLater(b)',
               \A x : TimeLater(x) => TimeLater(x)',
               \A x \in {"start", "loaded", "end"} : Queued(x) => Queued(x)',
               UNCHANGED <<cpc, pos, dirty>>
        PROVE  Shown'
    <2>1. PICK x : x = pos
      OBVIOUS
    <2>2. TimeLater(pos) => TimeLater(pos)'
      <3>1. TimeLater(x) => TimeLater(x)'
        BY <1>5
      <3> QED
        BY <1>5, <2>1, <3>1 DEF TimeLater
    <2> QED
      BY <1>0, <1>5, <2>2 DEF Shown
  <1>6. ASSUME UNCHANGED <<gq, params, state, loading, time>>
        PROVE  /\ \A b : RunningLater(b) => RunningLater(b)'
               /\ \A b : LoadingLater(b) => LoadingLater(b)'
               /\ \A x : TimeLater(x) => TimeLater(x)'
               /\ UNCHANGED pos /\ TimeLater(pos) => TimeLater(pos)'
    <2>1. PICK x : x = pos
      OBVIOUS
    <2>2. UNCHANGED pos /\ TimeLater(pos) => TimeLater(pos)'
      BY <1>6, <2>1, LaterKept DEF TimeLater
    <2> QED
      BY <1>6, <2>2, LaterKept
  <1>7. CASE CoreStart
    <2>1. /\ UNCHANGED <<gq, params, state, loading, time>> /\ cpc = "idle" /\ cpc' = "load"
          /\ pos' = 0 /\ dirty' = (dirty \/ pos # 0)
      BY <1>7 DEF CoreStart, guiVars
    <2>2. Queued("start")'
      <3> DEFINE a == [ev |-> "start", id |-> next.id]
                 b == [ev |-> "load", id |-> next.id]
      <3>1. mq' = mq \o <<a, b>> /\ mq \in Seq(MEvents) /\ a.ev = "start"
        BY <1>0, <1>7 DEF CoreStart, TypeOK
      <3>2. a \in MEvents /\ b \in MEvents
        <4>1. next.id \in Ids
          BY <1>0, <1>7 DEF CoreStart, TypeOK, Entry
        <4> QED
          BY <4>1 DEF MEvents
      <3> HIDE DEF a, b
      <3>3. Len(mq) + 1 \in 1 .. Len(mq') /\ mq'[Len(mq) + 1] = a
        BY <3>1, <3>2
      <3> QED
        BY <3>1, <3>3 DEF Queued
    <2>3. TimeLater(pos) => TimeLater(pos)'
      BY <1>1, <1>6, <2>1
    <2> QED
      BY <1>0, <1>1, <2>1, <2>2, <2>3 DEF Shown
  <1>8. CASE CoreLoadDone \/ CoreOpenFails \/ CoreFinish
    <2>1. /\ UNCHANGED <<gq, params, state, loading, time, pos, dirty>>
          /\ \/ UNCHANGED mq /\ cpc = "load" /\ cpc' = "open"
             \/ /\ cpc \in {"load", "open", "play"} /\ cpc' = "unload"
                /\ mq' = Append(mq, Event("unload"))
      BY <1>8 DEF CoreLoadDone, CoreOpenFails, CoreFinish, Terminate, guiVars
    <2>2. \A x : Queued(x) => Queued(x)'
      BY <1>3, <1>4, <2>1
    <2> QED
      BY <1>0, <1>6, <2>1, <2>2 DEF Shown
  <1>9. CASE CoreOpened
    <2>1. /\ UNCHANGED <<gq, params, state, loading, time>> /\ cpc = "open" /\ cpc' = "play"
          /\ pos' = From(start) /\ dirty' = (dirty \/ start > 0)
          /\ mq' = Append(mq, Event("loaded"))
      BY <1>9 DEF CoreOpened, guiVars
    <2>2. Queued("loaded")' /\ \A x : Queued(x) => Queued(x)'
      BY <1>3, <2>1 DEF Event
    <2>3. dirty' \/ (~dirty /\ UNCHANGED pos)
      BY <1>0, <1>1, <2>1 DEF From, TypeOK
    <2> QED
      BY <1>0, <1>6, <2>1, <2>2, <2>3 DEF Shown
  <1>10. CASE CoreAdvance
    <2>1. /\ UNCHANGED <<gq, params, state, loading, time, cpc, mq>> /\ dirty'
      BY <1>10 DEF CoreAdvance, guiVars
    <2> QED
      BY <1>0, <1>4, <1>6, <2>1 DEF Shown
  <1>11. CASE CoreUnloaded
    <2>1. /\ UNCHANGED <<gq, params, state, loading, time>> /\ cpc' = "idle"
          /\ pos' = 0 /\ dirty' = (dirty \/ pos # 0) /\ mq' = Append(mq, EndEvent)
      BY <1>11 DEF CoreUnloaded, guiVars
    <2>2. Queued("end")'
      BY <1>3, <2>1 DEF EndEvent
    <2>3. dirty' \/ (~dirty /\ UNCHANGED pos)
      BY <1>0, <2>1 DEF TypeOK
    <2> QED
      BY <1>0, <1>6, <2>1, <2>2, <2>3 DEF Shown
  <1>12. CASE CoreOff
    <2>1. /\ UNCHANGED <<gq, params, state, loading, time, pos, dirty>> /\ cpc = "idle"
          /\ cpc' = "off" /\ mq' = Append(mq, ShutdownEvent)
      BY <1>12 DEF CoreOff, guiVars
    <2> QED
      BY <1>0, <1>3, <1>6, <2>1 DEF Shown
  <1>13. CASE OnLoadCopy \/ OnUnloadCopy \/ MpvExit
    <2>1. UNCHANGED <<gq, params, state, loading, time, cpc, pos, dirty>>
      BY <1>13 DEF OnLoadCopy, OnUnloadCopy, MpvExit, coreVars, guiVars
    <2>2. \A x \in {"start", "loaded", "end"} : Queued(x) => Queued(x)'
      BY <1>2, <1>13 DEF OnLoadCopy, OnUnloadCopy, MpvExit
    <2> QED
      BY <1>5, <1>6, <2>1, <2>2
  <1>14. CASE OnLoadTake \/ OnLoadHistory \/ OnUnloadTime
    <2>1. UNCHANGED <<gq, params, state, loading, time, cpc, pos, dirty, mq>>
      BY <1>14 DEF OnLoadTake, OnLoadHistory, OnUnloadTime, coreVars, guiVars
    <2> QED
      BY <1>4, <1>5, <1>6, <2>1
  <1>15. CASE OnLoadSync
    <2>1. /\ SyncPosted \in Seq(GEvents) /\ gq' = gq \o SyncPosted
          /\ UNCHANGED <<params, state, loading, time, cpc, pos, dirty, mq>>
      <3>1. tlocal \in MrlState
        BY <1>0, <1>15 DEF OnLoadSync, HookOrder, LoadHook, OnLoad, TypeOK
      <3> QED
        BY <1>15, <3>1 DEF OnLoadSync, SyncPosted, GEvents, guiVars
    <2>2. \A j \in 1 .. Len(SyncPosted) : SyncPosted[j].ev = "sync"
      BY DEF SyncPosted
    <2>3. /\ \A b : RunningLater(b) => RunningLater(b)'
          /\ \A b : LoadingLater(b) => LoadingLater(b)'
          /\ \A x : TimeLater(x) => TimeLater(x)'
      <3>1. "sync" \notin StateKinds
        BY DEF StateKinds
      <3> QED
        BY <1>0, <2>1, <2>2, <3>1, LaterPosted
    <2> QED
      BY <1>4, <1>5, <2>1, <2>3
  <1>16. CASE StartFile
    <2> DEFINE a == [ev |-> "state", to |-> "running"]
               b == [ev |-> "loading", on |-> TRUE]
    <2>1. /\ gq' = gq \o <<a, b>> /\ <<a, b>> \in Seq(GEvents) /\ Len(<<a, b>>) = 2
          /\ UNCHANGED <<params, state, loading, time, cpc, pos, dirty>>
      BY <1>16 DEF StartFile, GEvents, coreVars, guiVars
    <2>2. a.ev = "state" /\ b.ev = "loading" /\ b.on = TRUE
      OBVIOUS
    <2> HIDE DEF a, b
    <2>3. /\ <<a, b>>[1] = a /\ <<a, b>>[2] = b
          /\ \A k \in 1 .. 2 : <<a, b>>[k] = a \/ (k = 2 /\ <<a, b>>[k] = b)
      OBVIOUS
    <2>4. RunningLater(TRUE)'
      <3>1. a.ev \in StateKinds /\ \A k \in 1 .. 2 : k > 1 => <<a, b>>[k].ev \notin StateKinds
        BY <2>2, <2>3 DEF StateKinds
      <3>2. (<<a, b>>[1].ev = "state") <=> TRUE
        BY <2>2, <2>3
      <3>3. 1 \in 1 .. Len(<<a, b>>)
        BY <2>1
      <3> QED
        BY <1>0, <2>1, <2>3, <3>1, <3>2, <3>3, NewShown
    <2>5. LoadingLater(TRUE)'
      <3>1. \A k \in 1 .. 2 : ~(k > 2)
        OBVIOUS
      <3>3. 2 \in 1 .. Len(<<a, b>>)
        BY <2>1
      <3> QED
        BY <1>0, <2>1, <2>2, <2>3, <3>1, <3>3, NewShown
    <2>6. TimeLater(pos) => TimeLater(pos)'
      <3>1. PICK x : x = pos
        OBVIOUS
      <3>2. \A j \in 1 .. Len(<<a, b>>) : <<a, b>>[j].ev # "time"
        BY <2>1, <2>2, <2>3
      <3>3. TimeLater(x) => TimeLater(x)'
        BY <1>0, <2>1, <3>2, LaterPosted
      <3> QED
        BY <2>1, <3>1, <3>3 DEF TimeLater
    <2>7. cpc \in {"load", "unload"}
      BY <1>0, <1>1, <1>16, PoppedQueued DEF StartFile
    <2> QED
      BY <1>0, <2>1, <2>4, <2>5, <2>6, <2>7 DEF Shown
  <1>17. CASE FileLoaded
    <2> DEFINE a == [ev |-> "state", to |-> "running"]
               b == [ev |-> "loading", on |-> FALSE]
               c == [ev |-> "start", id |-> Head(mq).id]
    <2>1. /\ gq' = gq \o <<a, b, c>> /\ <<a, b, c>> \in Seq(GEvents) /\ Len(<<a, b, c>>) = 3
          /\ UNCHANGED <<params, state, loading, time, cpc, pos, dirty>>
      BY <1>0, <1>17, PoppedType DEF FileLoaded, GEvents, coreVars, guiVars
    <2>2. a.ev = "state" /\ b.ev = "loading" /\ b.on = FALSE /\ c.ev = "start"
      OBVIOUS
    <2> HIDE DEF a, b, c
    <2>3. /\ <<a, b, c>>[1] = a /\ <<a, b, c>>[2] = b /\ <<a, b, c>>[3] = c
          /\ \A k \in 1 .. 3 : \/ k = 1 /\ <<a, b, c>>[k] = a
                               \/ k = 2 /\ <<a, b, c>>[k] = b
                               \/ k = 3 /\ <<a, b, c>>[k] = c
      OBVIOUS
    <2>4. RunningLater(TRUE)'
      <3>1. a.ev \in StateKinds /\ \A k \in 1 .. 3 : k > 1 => <<a, b, c>>[k].ev \notin StateKinds
        BY <2>2, <2>3 DEF StateKinds
      <3>2. (<<a, b, c>>[1].ev = "state") <=> TRUE
        BY <2>2, <2>3
      <3>3. 1 \in 1 .. Len(<<a, b, c>>)
        BY <2>1
      <3> QED
        BY <1>0, <2>1, <2>3, <3>1, <3>2, <3>3, NewShown
    <2>5. LoadingLater(FALSE)'
      <3>1. \A k \in 1 .. 3 : k > 2 => <<a, b, c>>[k].ev # "loading"
        BY <2>2, <2>3
      <3>3. 2 \in 1 .. Len(<<a, b, c>>)
        BY <2>1
      <3> QED
        BY <1>0, <2>1, <2>2, <2>3, <3>1, <3>3, NewShown
    <2>6. TimeLater(pos) => TimeLater(pos)'
      <3>1. PICK x : x = pos
        OBVIOUS
      <3>2. \A j \in 1 .. Len(<<a, b, c>>) : <<a, b, c>>[j].ev # "time"
        BY <2>1, <2>2, <2>3
      <3>3. TimeLater(x) => TimeLater(x)'
        BY <1>0, <2>1, <3>2, LaterPosted
      <3> QED
        BY <2>1, <3>1, <3>3 DEF TimeLater
    <2>7. cpc \in {"play", "unload"}
      BY <1>0, <1>1, <1>17, PoppedQueued DEF FileLoaded
    <2> QED
      BY <1>0, <2>1, <2>4, <2>5, <2>6, <2>7 DEF Shown
  <1>18. CASE EndFile
    <2> DEFINE a == [ev |-> "loading", on |-> FALSE]
               b == Ended(tlocal)
    <2>1. /\ gq' = gq \o <<a, b>>
          /\ UNCHANGED <<params, state, loading, time, cpc, pos, dirty>>
      BY <1>18 DEF EndFile, EndPosted, coreVars, guiVars
    <2>2. <<a, b>> \in Seq(GEvents) /\ Len(<<a, b>>) = 2
      <3>1. Head(mq) \in MEvents /\ Head(mq).ev = "end"
        BY <1>0, <1>18, PoppedType DEF EndFile, Popped
      <3>2. Head(mq).id \in Ids /\ Head(mq).reason \in Reasons
        BY <3>1 DEF MEvents
      <3> QED
        BY <1>0, <3>2 DEF Ended, GEvents, TypeOK
    <2>3. a.ev = "loading" /\ a.on = FALSE /\ b.ev = "end"
      BY DEF Ended
    <2> HIDE DEF a, b
    <2>4. /\ <<a, b>>[1] = a /\ <<a, b>>[2] = b
          /\ \A k \in 1 .. 2 : (k = 1 /\ <<a, b>>[k] = a) \/ (k = 2 /\ <<a, b>>[k] = b)
      OBVIOUS
    <2>5. RunningLater(FALSE)'
      <3>1. b.ev \in StateKinds /\ \A k \in 1 .. 2 : ~(k > 2)
        BY <2>3 DEF StateKinds
      <3>2. (<<a, b>>[2].ev = "state") <=> FALSE
        BY <2>3, <2>4
      <3>3. 2 \in 1 .. Len(<<a, b>>)
        BY <2>2
      <3> QED
        BY <1>0, <2>1, <2>2, <2>4, <3>1, <3>2, <3>3, NewShown
    <2>6. LoadingLater(FALSE)'
      <3>1. \A k \in 1 .. 2 : k > 1 => <<a, b>>[k].ev # "loading"
        BY <2>3, <2>4
      <3>3. 1 \in 1 .. Len(<<a, b>>)
        BY <2>2
      <3> QED
        BY <1>0, <2>1, <2>2, <2>3, <2>4, <3>1, <3>3, NewShown
    <2>7. TimeLater(pos) => TimeLater(pos)'
      <3>1. PICK x : x = pos
        OBVIOUS
      <3>2. \A j \in 1 .. Len(<<a, b>>) : <<a, b>>[j].ev # "time"
        BY <2>2, <2>3, <2>4
      <3>3. TimeLater(x) => TimeLater(x)'
        BY <1>0, <2>1, <2>2, <3>2, LaterPosted
      <3> QED
        BY <2>1, <3>1, <3>3 DEF TimeLater
    <2>8. cpc \in {"idle", "off"} \/ (cpc \in {"load", "unload"} /\ Queued("start")')
      <3>1. Queued("end")
        BY <1>0, <1>18, PoppedQueued DEF EndFile
      <3>2. Queued("start") => Queued("start")'
        BY <1>2, <1>18 DEF EndFile
      <3> QED
        BY <1>1, <3>1, <3>2
    <2> QED
      BY <1>0, <2>1, <2>5, <2>6, <2>7, <2>8 DEF Shown
  <1>19. CASE TimePos
    <2> DEFINE a == [ev |-> "time", pos |-> pos]
    <2>1. /\ gq' = gq \o <<a>> /\ <<a>> \in Seq(GEvents) /\ Len(<<a>>) = 1 /\ <<a>>[1] = a
          /\ UNCHANGED <<params, state, loading, time, cpc, pos, mq>>
      BY <1>0, <1>19 DEF TimePos, GEvents, TypeOK, guiVars
    <2>2. a.ev = "time" /\ a.pos = pos
      OBVIOUS
    <2> HIDE DEF a
    <2>3. /\ \A j \in 1 .. Len(<<a>>) : <<a>>[j].ev \notin StateKinds /\ <<a>>[j].ev # "loading"
          /\ \A j \in 1 .. Len(<<a>>) : ~(j > 1)
          /\ 1 \in 1 .. Len(<<a>>)
      BY <2>1, <2>2 DEF StateKinds
    <2>4. /\ \A b : RunningLater(b) => RunningLater(b)'
          /\ \A b : LoadingLater(b) => LoadingLater(b)'
      BY <1>0, <2>1, <2>3, LaterPosted
    <2>5. TimeLater(pos)'
      <3>1. PICK x : x = pos
        OBVIOUS
      <3>2. TimeLater(x)'
        BY <1>0, <2>1, <2>2, <2>3, <3>1, NewShown
      <3> QED
        BY <2>1, <3>1, <3>2 DEF TimeLater
    <2> QED
      BY <1>0, <1>4, <2>1, <2>4, <2>5 DEF Shown
  <1>20. CASE Process
    <2>1. UNCHANGED <<cpc, pos, dirty, mq>>
      BY <1>20 DEF Process, StateChange, WaitingChange, Tick, SyncMrlState, StartPlayback,
         EndPlayback, coreVars
    <2> QED
      BY <1>0, <1>4, <1>5, <1>20, <2>1, LaterHandled
  <1>21. CASE User \/ ReloadLoad \/ WaitUntilTerminated \/ Exit \/ Terminating
    <2>1. UNCHANGED <<gq, params, state, loading, time, mq, cpc, pos, dirty>>
      BY <1>21 DEF User, Load, LoadFile, Reload, ReloadLoad, Stop, SetMrl, StopFile, Shutdown,
         WaitUntilTerminated, Exit, Terminating, vars, coreVars, guiVars
    <2> QED
      BY <1>4, <1>5, <1>6, <2>1
  <1> QED
    BY <1>7, <1>8, <1>9, <1>10, <1>11, <1>12, <1>13, <1>14, <1>15, <1>16, <1>17, <1>18,
       <1>19, <1>20, <1>21 DEF Next, Core, Client

-----------------------------------------------------------------------------
(* The position at quit finds its way into the history.                      *)

SaveKinds == {"sync", "end"}

\* Once the last file has ended at a quit, the GUI only handles what is left.
LEMMA SilentStep ==
    ASSUME QInv, Silent, gpc \in {"quit", "drain", "done"}, Next
    PROVE  /\ Silent' /\ UNCHANGED onquit
           /\ \/ /\ UNCHANGED <<gq, history>>
                 /\ gpc = "quit" => gpc' \in {"quit", "drain"}
                 /\ gpc = "drain" => gpc' = "drain" \/ (gpc' = "done" /\ gq = <<>>)
                 /\ gpc = "done" => gpc' = "done"
              \/ \E e \in GEvents : e.ev = "time" /\ gq' = gq \o <<e>> /\ UNCHANGED <<history, gpc>>
              \/ Process /\ gpc = "drain" /\ gpc' = "drain"
  <1>0. TypeOK /\ HookOrder /\ QueueOrder
    BY DEF QInv, IInv
  <1>1. cpc \in {"idle", "off"} /\ why = "quit" /\ ~Queued("end")
    BY DEF Silent
  <1>2. /\ ~Queued("start") /\ ~Queued("load") /\ mpc \notin OnLoad /\ ~Queued("loaded")
        /\ ~Queued("unload") /\ mpc # "unload1"
    <2>1. ~Queued("unload") /\ mpc # "unload1"
      BY <1>0, <1>1 DEF HookOrder, UnloadHook, Queued
    <2> QED
      BY <1>0, <1>1, <2>1, StartMeansLoad DEF QueueOrder
  <1>3. ASSUME UNCHANGED <<gq, history, gpc, onquit, why>>, cpc' \in {"idle", "off"},
               Queued("end")' => Queued("end")
        PROVE  /\ Silent' /\ UNCHANGED <<onquit, gq, history>>
               /\ gpc = "quit" => gpc' \in {"quit", "drain"}
               /\ gpc = "drain" => gpc' = "drain" \/ (gpc' = "done" /\ gq = <<>>)
               /\ gpc = "done" => gpc' = "done"
    <2>1. Silent'
      BY <1>1, <1>3 DEF Silent
    <2>2. UNCHANGED <<onquit, gq, history>> /\ gpc' = gpc
      BY <1>3
    <2> QED
      BY <2>1, <2>2
  <1>4. CASE Core
    <2>1. CoreOff
      BY <1>1, <1>4 DEF Core, CoreStart, CoreLoadDone, CoreOpened, CoreOpenFails, CoreAdvance,
         CoreFinish, CoreUnloaded, CoreOff
    <2>2. Queued("end")' => Queued("end")
      BY <1>0, <2>1, AppendedQueued DEF CoreOff, ShutdownEvent
    <2>3. UNCHANGED <<gq, history, gpc, onquit, why>> /\ cpc' \in {"idle", "off"}
      BY <2>1 DEF CoreOff, ghostVars
    <2> QED
      BY <1>3, <2>2, <2>3
  <1>5. CASE Client
    <2>1. \A e : Popped(e) => Queued(e) /\ (Queued("end")' => Queued("end"))
      BY <1>0, PoppedQueued
    <2>2. CASE MpvExit
      <3>1. UNCHANGED <<gq, history, gpc, onquit, why>> /\ cpc' \in {"idle", "off"}
        BY <1>1, <2>2 DEF MpvExit, coreVars, ghostVars
      <3>2. Queued("end")' => Queued("end")
        BY <2>1, <2>2 DEF MpvExit
      <3> QED
        BY <1>3, <3>1, <3>2
    <2>3. CASE TimePos
      <3> DEFINE e == [ev |-> "time", pos |-> pos]
      <3>1. e \in GEvents /\ e.ev = "time" /\ gq' = gq \o <<e>>
        BY <1>0, <2>3 DEF TimePos, GEvents, TypeOK
      <3>2. Silent' /\ UNCHANGED <<onquit, history, gpc>>
        BY <1>1, <2>3, SameQueued DEF TimePos, Silent, ghostVars
      <3> HIDE DEF e
      <3> QED
        BY <3>1, <3>2
    <2>4. CASE OnLoadTake \/ OnLoadHistory \/ OnLoadSync \/ OnUnloadTime
      BY <1>2, <2>4 DEF OnLoadTake, OnLoadHistory, OnLoadSync, OnUnloadTime, TimeRead, OnLoad
    <2>5. CASE StartFile \/ OnLoadCopy \/ FileLoaded \/ OnUnloadCopy \/ EndFile
      BY <1>1, <1>2, <2>1, <2>5 DEF StartFile, OnLoadCopy, FileLoaded, OnUnloadCopy, EndFile
    <2> QED
      BY <1>5, <2>2, <2>3, <2>4, <2>5 DEF Client
  <1>6. CASE Process
    <2>1. gpc = "drain" /\ gpc' = "drain" /\ UNCHANGED <<cpc, why, mq, onquit>>
      BY <1>6 DEF Process, StateChange, WaitingChange, Tick, SyncMrlState, StartPlayback,
         EndPlayback, Taken, coreVars, ghostVars
    <2> QED
      BY <1>1, <1>6, <2>1, SameQueued DEF Silent
  <1>7. CASE User \/ ReloadLoad
    BY <1>7 DEF User, Load, Reload, Stop, SetMrl, Shutdown, ReloadLoad
  <1>8. CASE WaitUntilTerminated \/ Exit \/ Terminating
    <2>1. /\ UNCHANGED <<cpc, why, mq, onquit, gq, history>>
          /\ gpc = "quit" => gpc' \in {"quit", "drain"}
          /\ gpc = "drain" => gpc' = "drain" \/ (gpc' = "done" /\ gq = <<>>)
          /\ gpc = "done" => gpc' = "done"
      BY <1>8 DEF WaitUntilTerminated, Terminated, Exit, Terminating, vars, coreVars, ghostVars
    <2> QED
      BY <1>1, <2>1, SameQueued DEF Silent
  <1> QED
    BY <1>4, <1>5, <1>6, <1>7, <1>8 DEF Next

\* What records the position is the last to write to the history.
LEMMA RecordingNext == QInv /\ onquit # Null /\ Recording /\ Next => (Recording \/ InHistory)'
  <1> SUFFICES ASSUME QInv, onquit # Null, Recording, Next PROVE (Recording \/ InHistory)'
    OBVIOUS
  <1>0. TypeOK
    BY DEF QInv, IInv
  <1>1. /\ Silent /\ gpc \in {"quit", "drain"}
    BY DEF Recording
  <1>2. PICK j \in 1 .. Len(gq) : LastAt(Len(gq), SaveKinds, j) /\ Records(gq[j])
    BY DEF Recording, SaveKinds
  <1>3. Silent' /\ UNCHANGED onquit
    BY <1>1, SilentStep
  <1>4. CASE UNCHANGED <<gq, history>> /\ gpc' \in {"quit", "drain"}
    BY <1>2, <1>3, <1>4 DEF Recording, LastAt, Records, SaveKinds
  <1>5. ASSUME NEW e \in GEvents, e.ev = "time", gq' = gq \o <<e>>, UNCHANGED <<history, gpc>>
        PROVE  Recording'
    <2>1. <<e>> \in Seq(GEvents) /\ Len(<<e>>) = 1 /\ \A k \in 1 .. 1 : <<e>>[k] = e
      BY <1>5
    <2>2. /\ j \in 1 .. Len(gq') /\ gq'[j] = gq[j]
          /\ \A k \in 1 .. Len(gq') : (k \in 1 .. Len(gq) /\ gq'[k] = gq[k]) \/ gq'[k] = e
      BY <1>0, <1>2, <1>5, <2>1, Posted
    <2>3. LastAt(Len(gq), SaveKinds, j)'
      BY <1>2, <1>5, <2>2 DEF LastAt, SaveKinds
    <2> QED
      BY <1>1, <1>2, <1>3, <1>5, <2>2, <2>3 DEF Recording, Records, SaveKinds
  <1>6. CASE Process /\ gpc' = "drain"
    <2>1. gq # <<>> /\ gq' = Tail(gq) /\ gq[1] = Head(gq)
      BY <1>0, <1>6 DEF Process, StateChange, WaitingChange, Tick, SyncMrlState, StartPlayback,
         EndPlayback, Taken, TypeOK
    <2>2. PICK n \in Nat, m \in Nat : m = Len(gq) /\ n = Len(gq') /\ m = n + 1
      <3>1. Len(gq) \in Nat /\ Len(gq') \in Nat /\ Len(gq) = Len(gq') + 1
        BY <1>0, <2>1 DEF TypeOK
      <3> QED
        BY <3>1
    <2>3. /\ LastAt(m, SaveKinds, 1) => NoneOf(n, SaveKinds)'
          /\ \A i \in 1 .. n, k \in 1 .. m :
                k = i + 1 /\ LastAt(m, SaveKinds, k) => LastAt(n, SaveKinds, i)' /\ gq'[i] = gq[k]
      <3>1. m <= Len(gq)
        BY <2>2
      <3>2. ASSUME NEW K
            PROVE  /\ LastAt(m, K, 1) => NoneOf(n, K)'
                   /\ \A i \in 1 .. n, k \in 1 .. m :
                         k = i + 1 /\ LastAt(m, K, k) => LastAt(n, K, i)' /\ gq'[i] = gq[k]
        <4>1. TypeOK /\ gq # <<>> /\ gq' = Tail(gq) /\ m = n + 1
          BY <1>0, <2>1, <2>2
        <4> QED
          BY <3>1, <4>1, Shifted
      <3> QED
        BY <3>2
    <2>4. LastAt(m, SaveKinds, j)
      BY <1>2, <2>2
    <2>5. CASE j = 1
      <3>1. NoneOf(Len(gq), SaveKinds)'
        BY <2>2, <2>3, <2>4, <2>5 DEF NoneOf
      <3>2. /\ Head(gq).ev = "end" /\ Head(gq).reason = "quit"
            /\ Head(gq).last.mrl = onquit.mrl /\ Head(gq).last.resume = onquit.time
        BY <1>2, <2>1, <2>5 DEF Records
      <3>3. history' = Remember(Head(gq).last)
        <4>1. EndPlayback
          BY <1>6, <3>2 DEF Process, StateChange, WaitingChange, Tick, SyncMrlState,
             StartPlayback, Taken
        <4> QED
          BY <3>2, <4>1 DEF EndPlayback, Last
      <3>4. onquit.mrl \in Keys => history'[onquit.mrl] = onquit.time
        BY <1>0, <3>2, <3>3 DEF Remember, TypeOK
      <3> QED
        BY <1>3, <1>6, <3>1, <3>4 DEF InHistory, SaveKinds
    <2>6. CASE j # 1
      <3>1. PICK i \in 1 .. n : j = i + 1
        <4>1. \A k \in 1 .. m : k # 1 => k - 1 \in 1 .. n /\ k = (k - 1) + 1
          BY <2>2
        <4> QED
          BY <2>2, <2>6, <4>1
      <3>2. LastAt(n, SaveKinds, i)' /\ gq'[i] = gq[j]
        BY <2>2, <2>3, <2>4, <3>1
      <3> QED
        BY <1>2, <1>3, <1>6, <2>2, <3>2 DEF Recording, Records, SaveKinds, LastAt
    <2> QED
      BY <2>5, <2>6
  <1>7. gq # <<>>
    BY <1>0, <1>2 DEF TypeOK
  <1> QED
    BY <1>1, <1>4, <1>5, <1>6, <1>7, SilentStep

\* Nothing writes to the history after that.
LEMMA InHistoryNext == QInv /\ onquit # Null /\ InHistory /\ Next => InHistory'
  <1> SUFFICES ASSUME QInv, onquit # Null, InHistory, Next PROVE InHistory'
    OBVIOUS
  <1>0. TypeOK
    BY DEF QInv, IInv
  <1>1. /\ Silent /\ gpc \in {"quit", "drain", "done"} /\ NoneOf(Len(gq), SaveKinds)
        /\ onquit.mrl \in Keys => history[onquit.mrl] = onquit.time
    BY DEF InHistory, SaveKinds
  <1>2. Silent' /\ UNCHANGED onquit
    BY <1>1, SilentStep
  <1>3. CASE UNCHANGED <<gq, history>> /\ gpc' \in {"quit", "drain", "done"}
    BY <1>1, <1>2, <1>3 DEF InHistory, NoneOf, SaveKinds
  <1>4. ASSUME NEW e \in GEvents, e.ev = "time", gq' = gq \o <<e>>, UNCHANGED <<history, gpc>>
        PROVE  InHistory'
    <2>1. <<e>> \in Seq(GEvents) /\ Len(<<e>>) = 1 /\ \A k \in 1 .. 1 : <<e>>[k] = e
      BY <1>4
    <2>2. \A k \in 1 .. Len(gq') : (k \in 1 .. Len(gq) /\ gq'[k] = gq[k]) \/ gq'[k] = e
      BY <1>0, <1>4, <2>1, Posted
    <2>3. NoneOf(Len(gq), SaveKinds)'
      BY <1>1, <1>4, <2>2 DEF NoneOf, SaveKinds
    <2> QED
      BY <1>1, <1>2, <1>4, <2>3 DEF InHistory, SaveKinds
  <1>5. CASE Process /\ gpc' = "drain"
    <2>1. gq # <<>> /\ gq' = Tail(gq) /\ gq[1] = Head(gq)
      BY <1>0, <1>5 DEF Process, StateChange, WaitingChange, Tick, SyncMrlState, StartPlayback,
         EndPlayback, Taken, TypeOK
    <2>2. /\ \A k \in 1 .. Len(gq') : k + 1 \in 1 .. Len(gq) /\ gq'[k] = gq[k + 1]
          /\ 1 \in 1 .. Len(gq)
      BY <1>0, <2>1 DEF TypeOK
    <2>3. NoneOf(Len(gq), SaveKinds)' /\ Head(gq).ev \notin SaveKinds
      BY <1>1, <2>1, <2>2 DEF NoneOf
    <2>4. UNCHANGED history
      BY <1>5, <2>3 DEF Process, StateChange, WaitingChange, Tick, SyncMrlState, StartPlayback,
         EndPlayback, Taken, SaveKinds
    <2> QED
      BY <1>1, <1>2, <1>5, <2>3, <2>4 DEF InHistory, SaveKinds
  <1> QED
    BY <1>1, <1>3, <1>4, <1>5, SilentStep

\* libmpv ends the file that played at quit, and the client posts its state.
LEMMA ClosingNext == QInv /\ onquit # Null /\ Closing /\ Next => (Closing \/ Recording)'
  <1> SUFFICES ASSUME QInv, onquit # Null, Closing, Next PROVE (Closing \/ Recording)'
    OBVIOUS
  <1>0. TypeOK /\ HookOrder /\ QueueOrder
    BY DEF QInv, IInv
  <1>1. /\ gpc = "quit" /\ why = "quit" /\ "load" \notin active
        /\ params.mrl = onquit.mrl /\ time = onquit.time
        /\ \/ cpc = "play"
           \/ cpc = "unload" /\ Queued("unload")
           \/ cpc = "unload" /\ mpc = "unload1" /\ tlocal.mrl = onquit.mrl
           \/ cpc = "unload" /\ "unload" \notin active /\ Kept
           \/ cpc \in {"idle", "off"} /\ Kept /\ Queued("end") /\ mq[1].reason = "quit"
    BY DEF Closing
  <1>2. /\ ~Queued("start") /\ ~Queued("load") /\ mpc \notin OnLoad
        /\ Queued("unload") => cpc = "unload" /\ "unload" \in active
        /\ mpc = "unload1" => mq = <<>> /\ cpc = "unload" /\ "unload" \in active
        /\ cpc = "unload" /\ "unload" \notin active => mq = <<>> /\ mpc = "wait"
        /\ mq = <<>> => \A x : ~Queued(x)
    <2>1. Queued("unload") => cpc = "unload" /\ "unload" \in active
      BY <1>0 DEF HookOrder, UnloadHook, Queued
    <2>2. mq = <<>> => \A x : ~Queued(x)
      BY DEF Queued
    <2>3. /\ mpc = "unload1" => mq = <<>> /\ cpc = "unload" /\ "unload" \in active
          /\ cpc = "unload" /\ "unload" \notin active => mq = <<>> /\ mpc = "wait"
      BY <1>0 DEF HookOrder, UnloadHook
    <2> QED
      BY <1>0, <1>1, <2>1, <2>2, <2>3, StartMeansLoad
  <1>3. /\ Queued("end") => mpc = "wait" /\ mq[1].ev = "end" /\ 1 \in 1 .. Len(mq)
        /\ \A i \in 1 .. Len(mq) : mq[i].ev = "end" => i = 1
    BY <1>0 DEF HookOrder, EndNext, Queued
  <1>4. CASE Core
    <2>1. CoreFinish \/ CoreUnloaded \/ CoreOff
      BY <1>1, <1>4 DEF Core, CoreStart, CoreLoadDone, CoreOpened, CoreOpenFails, CoreAdvance
    <2>2. CASE CoreFinish
      <3>1. /\ UNCHANGED <<why, gpc, params, time, onquit>> /\ cpc' = "unload"
            /\ active' = active \cup {"unload"} /\ mq' = Append(mq, Event("unload"))
        BY <1>1, <2>2 DEF CoreFinish, Terminate, guiVars, ghostVars
      <3>2. Queued("unload")'
        BY <1>0, <3>1, AppendedQueued DEF Event
      <3> QED
        BY <1>1, <3>1, <3>2 DEF Closing
    <2>3. CASE CoreUnloaded
      <3>1. /\ UNCHANGED <<gpc, params, time, onquit, active, tlocal>> /\ why' = "quit"
            /\ cpc' = "idle" /\ mq' = Append(mq, EndEvent) /\ cpc = "unload"
            /\ "unload" \notin active
        BY <1>1, <2>3 DEF CoreUnloaded, guiVars, ghostVars
      <3>2. Kept /\ mq = <<>>
        BY <1>1, <1>2, <3>1
      <3>3. Queued("end")' /\ mq'[1] = EndEvent
        BY <1>0, <3>1, <3>2, AppendedQueued DEF EndEvent
      <3>4. mq'[1].reason = "quit"
        BY <1>1, <3>3 DEF EndEvent
      <3> QED
        BY <1>1, <3>1, <3>2, <3>3, <3>4 DEF Closing, Kept
    <2>4. CASE CoreOff
      <3>1. /\ UNCHANGED <<gpc, params, time, onquit, active, tlocal, why>>
            /\ cpc' = "off" /\ mq' = Append(mq, ShutdownEvent) /\ cpc = "idle"
        BY <2>4 DEF CoreOff, clientVars, guiVars, ghostVars
      <3>2. Kept /\ Queued("end") /\ mq[1].reason = "quit"
        BY <1>1, <3>1
      <3>3. Queued("end")' /\ mq'[1] = mq[1]
        BY <1>0, <1>3, <3>1, <3>2, AppendedQueued
      <3> QED
        BY <1>1, <3>1, <3>2, <3>3 DEF Closing, Kept
    <2> QED
      BY <2>1, <2>2, <2>3, <2>4
  <1>5. CASE Client
    <2>1. \A e : Popped(e) => /\ Queued(e) /\ mpc = "wait" /\ mq[1].ev = e
                              /\ \A x : Queued(x) => x = e \/ Queued(x)'
      BY <1>0, PoppedQueued
    <2>2. CASE StartFile \/ OnLoadCopy \/ OnLoadTake \/ OnLoadHistory \/ OnLoadSync
      BY <1>2, <2>1, <2>2 DEF StartFile, OnLoadCopy, OnLoadTake, OnLoadHistory, OnLoadSync, OnLoad
    <2>3. CASE FileLoaded
      <3>1. /\ UNCHANGED <<gpc, why, active, params, time, onquit, cpc, tlocal>>
            /\ Queued("loaded") /\ mpc = "wait"
            /\ Queued("unload") => Queued("unload")'
        BY <2>1, <2>3 DEF FileLoaded, coreVars, clientVars, guiVars, ghostVars
      <3>2. cpc = "play" \/ (cpc = "unload" /\ Queued("unload"))
        BY <1>0, <1>1, <1>2, <3>1 DEF QueueOrder
      <3> QED
        BY <1>1, <3>1, <3>2 DEF Closing
    <2>4. CASE OnUnloadCopy
      <3>1. /\ UNCHANGED <<gpc, why, active, params, time, onquit, cpc>>
            /\ Queued("unload") /\ mpc' = "unload1" /\ tlocal' = params
        BY <2>1, <2>4 DEF OnUnloadCopy, coreVars, guiVars, ghostVars
      <3> QED
        BY <1>1, <1>2, <3>1 DEF Closing
    <2>5. CASE OnUnloadTime
      <3>1. /\ UNCHANGED <<gpc, why, params, time, onquit, cpc>> /\ mpc = "unload1"
            /\ active' = active \ {"unload"} /\ tlocal' = [tlocal EXCEPT !.resume = time]
        BY <2>5 DEF OnUnloadTime, TimeRead, Position, guiVars, ghostVars
      <3>2. cpc = "unload" /\ tlocal.mrl = onquit.mrl /\ tlocal \in MrlState
        BY <1>0, <1>1, <1>2, <3>1 DEF HookOrder, UnloadHook, TypeOK
      <3>3. tlocal'.mrl = onquit.mrl /\ tlocal'.resume = onquit.time /\ tlocal' # Null
        <4>1. time \in Resume
          BY <1>0 DEF TypeOK, Pos, Resume
        <4>2. tlocal' \in MrlState
          BY <3>1, <3>2, <4>1 DEF MrlState
        <4>3. tlocal'.mrl = tlocal.mrl /\ tlocal'.resume = time
          BY <3>1, <3>2 DEF MrlState
        <4> QED
          BY <1>1, <3>2, <4>2, <4>3, NullAssumption
      <3> QED
        BY <1>1, <3>1, <3>2, <3>3 DEF Closing, Kept
    <2>6. CASE EndFile
      <3> DEFINE a == [ev |-> "loading", on |-> FALSE]
                 b == Ended(tlocal)
      <3>1. /\ gq' = gq \o <<a, b>> /\ mq' = Tail(mq) /\ mq[1] = Head(mq)
            /\ UNCHANGED <<gpc, why, onquit, cpc>> /\ Queued("end")
        BY <1>0, <2>1, <2>6, PoppedQueued
           DEF EndFile, EndPosted, Popped, coreVars, ghostVars
      <3>2. <<a, b>> \in Seq(GEvents) /\ Len(<<a, b>>) = 2
        <4>1. Head(mq) \in MEvents /\ Head(mq).ev = "end"
          BY <1>0, <2>6, PoppedType DEF EndFile, Popped
        <4>2. Head(mq).id \in Ids /\ Head(mq).reason \in Reasons
          BY <4>1 DEF MEvents
        <4> QED
          BY <1>0, <4>2 DEF Ended, GEvents, TypeOK
      <3>3. cpc \in {"idle", "off"} /\ Kept /\ mq[1].reason = "quit"
        BY <1>0, <1>1, <1>2, <3>1 DEF QueueOrder
      <3>5. b.ev = "end" /\ b = <<a, b>>[2]
        BY DEF Ended
      <3>6. Records(b) /\ b = <<a, b>>[2]
        BY <3>1, <3>3 DEF Records, Ended, Kept
      <3> HIDE DEF a, b
      <3>7. 2 \in 1 .. Len(<<a, b>>) /\ \A k \in 1 .. Len(<<a, b>>) : ~(k > 2)
        BY <3>2
      <3>8. b.ev \in SaveKinds
        BY <3>5 DEF SaveKinds
      <3>9. PICK i \in 1 .. Len(gq') :
               /\ gq'[i] = b /\ gq'[i].ev \in SaveKinds
               /\ \A h \in 1 .. Len(gq') : h > i => gq'[h].ev \notin SaveKinds
        <4>1. PICK s \in Seq(GEvents) : s = <<a, b>>
          BY <3>2
        <4>2. /\ gq' = gq \o s /\ 2 \in 1 .. Len(s) /\ s[2] = b /\ s[2].ev \in SaveKinds
              /\ \A k \in 1 .. Len(s) : k > 2 => s[k].ev \notin SaveKinds
          BY <3>1, <3>5, <3>7, <3>8, <4>1
        <4> QED
          BY <1>0, <4>2, NewLast
      <3>10. LastAt(Len(gq), SaveKinds, i)' /\ Records(gq[i])'
        BY <3>1, <3>6, <3>9 DEF LastAt, Records
      <3>11. ~Queued("end")'
        <4>1. \A i_1 \in 1 .. Len(mq') : i_1 + 1 \in 1 .. Len(mq) /\ mq'[i_1] = mq[i_1 + 1]
          BY <1>0, <2>6, PoppedQueued DEF EndFile
        <4> QED
          BY <1>3, <4>1 DEF Queued
      <3> QED
        BY <1>1, <3>1, <3>3, <3>10, <3>11 DEF Recording, Silent, SaveKinds
    <2>7. CASE TimePos
      <3>1. /\ UNCHANGED <<gpc, why, active, params, time, onquit, cpc, tlocal, mq, mpc>>
            /\ mq = <<>> /\ mpc = "wait"
        BY <2>7 DEF TimePos, clientVars, guiVars, ghostVars
      <3>2. cpc = "play" \/ (cpc = "unload" /\ "unload" \notin active /\ Kept)
        BY <1>1, <1>2, <3>1
      <3> QED
        BY <1>1, <3>1, <3>2 DEF Closing, Kept
    <2>8. CASE MpvExit
      <3>1. Queued("shutdown") /\ mq[1].ev = "shutdown"
        BY <2>1, <2>8 DEF MpvExit
      <3>2. cpc = "off"
        BY <1>0, <3>1 DEF QueueOrder
      <3> QED
        BY <1>1, <1>3, <3>1, <3>2
    <2> QED
      BY <1>5, <2>2, <2>3, <2>4, <2>5, <2>6, <2>7, <2>8 DEF Client
  <1>6. CASE Process
    BY <1>1, <1>6 DEF Process, StateChange, WaitingChange, Tick, SyncMrlState, StartPlayback,
       EndPlayback, Taken
  <1>7. CASE User \/ ReloadLoad \/ Exit \/ Terminating
    BY <1>1, <1>7 DEF User, Load, Reload, Stop, SetMrl, Shutdown, ReloadLoad, Exit, Terminating
  <1>8. CASE WaitUntilTerminated
    <2>1. mpc = "exited"
      BY <1>8 DEF WaitUntilTerminated, Terminated
    <2>2. cpc = "off"
      BY <1>0, <2>1 DEF QueueOrder
    <2> QED
      BY <1>1, <1>3, <2>1, <2>2
  <1> QED
    BY <1>4, <1>5, <1>6, <1>7, <1>8 DEF Next

\* Every step keeps Saving: the quit starts the chain.
LEMMA SavingNext == QInv /\ Next => Saving'
  <1> SUFFICES ASSUME QInv, Next, onquit' # Null PROVE (Closing \/ Recording \/ InHistory)'
    BY DEF Saving
  <1>0. TypeOK /\ HookOrder /\ QueueOrder /\ Saving
    BY DEF QInv, IInv
  <1>1. CASE onquit # Null
    BY <1>0, <1>1, ClosingNext, RecordingNext, InHistoryNext DEF Saving
  <1>2. CASE onquit = Null
    <2>1. CASE Shutdown
      <3>1. /\ cpc = "play" /\ onquit' = [mrl |-> params.mrl, time |-> time]
            /\ gpc' = "quit" /\ why' = "quit" /\ UNCHANGED <<active, params, time, cpc>>
        BY <1>2, <2>1 DEF Shutdown, guiVars
      <3>2. "load" \notin active
        BY <1>0, <3>1 DEF QueueOrder
      <3> QED
        BY <3>1, <3>2 DEF Closing
    <2>2. CASE ~Shutdown
      <3>1. UNCHANGED onquit
        <4>1. CASE Core
          BY <4>1 DEF Core, CoreStart, CoreLoadDone, CoreOpened, CoreOpenFails, CoreAdvance,
             CoreFinish, CoreUnloaded, CoreOff, ghostVars
        <4>2. CASE Client
          BY <4>2 DEF Client, StartFile, OnLoadCopy, OnLoadTake, OnLoadHistory, OnLoadSync,
             FileLoaded, OnUnloadCopy, OnUnloadTime, EndFile, TimePos, MpvExit, ghostVars
        <4>3. CASE Process
          BY <4>3 DEF Process, StateChange, WaitingChange, Tick, SyncMrlState, StartPlayback,
             EndPlayback, ghostVars
        <4>4. CASE User \/ ReloadLoad \/ WaitUntilTerminated \/ Exit \/ Terminating
          BY <2>2, <4>4 DEF User, Load, LoadFile, Reload, ReloadLoad, Stop, SetMrl, StopFile,
             WaitUntilTerminated, Exit, Terminating, vars, ghostVars
        <4> QED
          BY <4>1, <4>2, <4>3, <4>4 DEF Next
      <3> QED
        BY <1>2, <3>1
    <2> QED
      BY <2>1, <2>2
  <1> QED
    BY <1>1, <1>2

-----------------------------------------------------------------------------
(* The theorems.                                                             *)

\* Nothing is queued at first, and the engine shows that nothing plays.
LEMMA InitQInv == Init => QInv
  <1> SUFFICES ASSUME Init PROVE QInv
    OBVIOUS
  <1>1. /\ cpc = "idle" /\ mpc = "wait" /\ pos = 0 /\ mq = <<>> /\ gq = <<>>
        /\ state = "stopped" /\ loading = FALSE /\ time = 0 /\ onquit = Null
    BY DEF Init
  <1>2. 1 .. Len(mq) = {} /\ 1 .. Len(gq) = {}
    BY <1>1
  <1>3. QueueOrder
    BY <1>1, <1>2 DEF QueueOrder, Queued, StartThenLoad
  <1>4. Syncs
    BY <1>1, <1>2 DEF Syncs, OnLoad, LoadedSynced, StartsSynced
  <1>5. RunningLater(FALSE) /\ LoadingLater(FALSE) /\ TimeLater(pos)
    BY <1>1, <1>2 DEF RunningLater, LoadingLater, TimeLater, NoneOf
  <1>6. Shown
    BY <1>1, <1>5 DEF Shown
  <1> QED
    BY <1>1, <1>3, <1>4, <1>6, InitIInv DEF QInv, Saving

\* QInv is inductive.
LEMMA NextQInv == QInv /\ [Next]_vars => QInv'
  <1> SUFFICES ASSUME QInv, [Next]_vars PROVE QInv'
    OBVIOUS
  <1>1. IInv'
    BY NextIInv DEF QInv
  <1>2. CASE Next
    BY <1>1, <1>2, QueueOrderNext, SyncsNext, ShownNext, SavingNext DEF QInv
  <1>3. CASE UNCHANGED vars
    <2>1. /\ UNCHANGED <<cpc, cur, why, pos, active, dirty, mq, mpc, tlocal, gpc, params, state>>
          /\ UNCHANGED <<loading, time, gq, history, onquit>>
      BY <1>3 DEF vars, coreVars, clientVars, guiVars, ghostVars
    <2>2. QueueOrder'
      BY <2>1 DEF QInv, QueueOrder, Queued, StartThenLoad
    <2>3. Syncs'
      BY <2>1 DEF QInv, Syncs, LoadedSynced, StartsSynced, Synced, ParamsLater, NoneOf, LastAt
    <2>4. Shown'
      BY <2>1 DEF QInv, Shown, Queued, RunningLater, LoadingLater, TimeLater, NoneOf, LastAt
    <2>5. Saving'
      BY <2>1 DEF QInv, Saving, Closing, Kept, Recording, InHistory, Silent, Records, Queued,
         NoneOf, LastAt
    <2> QED
      BY <1>1, <2>2, <2>3, <2>4, <2>5 DEF QInv
  <1> QED
    BY <1>2, <1>3

\* What the two queues still hold agrees, in every reachable state, with what libmpv
\* does and with what the engine shows.
THEOREM QueueInvariance == Spec => []QInv
  BY InitQInv, NextQInv, PTL DEF Spec

\* started() names the file that has started: the parameters that the GUI thread
\* holds when it handles StartPlayback are those of that file, whatever has been
\* loaded, stopped or replaced since (PlayEngine::Data::process).
THEOREM StartsAlwaysSynced == Spec => []StartedIsSynced
  <1>1. QInv => StartedIsSynced
    <2> SUFFICES ASSUME QInv, NEW i \in 1 .. Len(gq), gq[i].ev = "start"
                 PROVE  ParamsAt(i).id = gq[i].id
      BY DEF StartedIsSynced
    <2> DEFINE syncs == {j \in 1 .. i - 1 : gq[j].ev = "sync"}
    <2>1. PICK m \in AnyMrl : ParamsLater(i - 1, gq[i].id, m)
      BY DEF QInv, Syncs, StartsSynced
    <2>2. CASE NoneOf(i - 1, {"sync"}) /\ params.id = gq[i].id
      <3>1. syncs = {}
        BY <2>2 DEF NoneOf
      <3> QED
        BY <2>2, <3>1 DEF ParamsAt
    <2>3. ASSUME NEW j \in 1 .. i - 1, LastAt(i - 1, {"sync"}, j), gq[j].ms.id = gq[i].id
          PROVE  ParamsAt(i).id = gq[i].id
      <3>1. /\ j \in syncs /\ syncs \subseteq Int
            /\ \A k \in syncs : ~(k > j)
        BY <2>3 DEF LastAt
      <3>2. \A k \in syncs : k <= j
        BY <3>1
      <3>3. ASSUME NEW h \in syncs, \A k \in syncs : k <= h PROVE h = j
        BY <3>1, <3>2, <3>3
      <3> HIDE DEF syncs
      <3>4. (CHOOSE h \in syncs : \A k \in syncs : k <= h) = j
        BY <3>1, <3>2, <3>3
      <3>5. syncs # {}
        BY <3>1
      <3> QED
        BY <2>3, <3>4, <3>5 DEF ParamsAt, syncs
    <2> QED
      BY <2>1, <2>2, <2>3 DEF ParamsLater
  <1> QED
    BY <1>1, QueueInvariance, PTL

\* Once the queues are empty the engine shows what libmpv does: no order of loads,
\* stops, failures and position changes leaves it "running", "loading" or at a
\* position that nothing will correct.
THEOREM AlwaysSettles == Spec => []Settled
  <1>1. QInv => Settled
    <2> SUFFICES ASSUME QInv, mq = <<>>, gq = <<>>, ~dirty, cpc # "unload"
                 PROVE  /\ loading <=> cpc \in {"load", "open"}
                        /\ (state = "running") <=> cpc \in {"load", "open", "play"}
                        /\ cpc \in {"open", "play"} =>
                              params.id = cur.id /\ params.mrl = cur.mrl
                        /\ time = pos
      BY DEF Settled
    <2>1. 1 .. Len(mq) = {} /\ 1 .. Len(gq) = {}
      OBVIOUS
    <2>2. \A e : ~Queued(e)
      BY <2>1 DEF Queued
    <2>3. /\ RunningLater(TRUE) => state = "running"
          /\ RunningLater(FALSE) => state # "running"
          /\ LoadingLater(TRUE) => loading
          /\ LoadingLater(FALSE) => ~loading
          /\ TimeLater(pos) => time = pos
          /\ Synced(cur.id, cur.mrl) => params.id = cur.id /\ params.mrl = cur.mrl
      BY <2>1 DEF RunningLater, LoadingLater, TimeLater, Synced, ParamsLater
    <2>4. cpc \in {"idle", "load", "open", "play", "off"}
      BY DEF QInv, IInv, TypeOK
    <2>5. cpc \in {"open", "play"} => Synced(cur.id, cur.mrl)
      BY DEF QInv, Syncs, QueueOrder
    <2>6. /\ cpc \in {"load", "open", "play"} => state = "running"
          /\ cpc \in {"idle", "off"} => state # "running"
          /\ cpc \in {"load", "open"} => loading
          /\ cpc \in {"play", "idle", "off"} => ~loading
          /\ time = pos
      BY <2>2, <2>3 DEF QInv, Shown
    <2> QED
      BY <2>3, <2>4, <2>5, <2>6
  <1> QED
    BY <1>1, QueueInvariance, PTL

\* A clean exit loses nothing: the history holds the position that was on display at
\* the quit, although libmpv ends the file while the event loop of the GUI is blocked
\* (MainWindow::Data::commitData, PlayEngine::Data::process).
THEOREM AlwaysSavedOnExit == Spec => []SavedOnExit
  <1>1. QInv => SavedOnExit
    BY DEF QInv, Saving, Closing, Recording, InHistory, SavedOnExit
  <1> QED
    BY <1>1, QueueInvariance, PTL
=============================================================================

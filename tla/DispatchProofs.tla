---------------------------- MODULE DispatchProofs ----------------------------
(***************************************************************************)
(* The safety properties of Dispatch hold for every number of threads and  *)
(* of handles that share them, and Dispatch implements CoreAccess.         *)
(*                                                                         *)
(* suspend_requested is a number, so nothing in the state says who raised  *)
(* it.  The invariant says it: it is the number of threads that will still *)
(* lower it on their own, in lock_core or in mp_dispatch_resume, and of    *)
(* handles whose suspend_count is above zero; and the suspend_count of a   *)
(* handle is the number of suspensions its threads hold.  With that, the   *)
(* core leaves the queue only when nobody relies on its being there.       *)
(***************************************************************************)
EXTENDS Dispatch, FiniteSetTheorems, SequenceTheorems, TLAPS

(* A thread that has raised suspend_requested and will lower it itself. *)
Holds(t) ==
  \/ tpc[t] = "resume"
  \/ op[t] = "lock" /\ tpc[t] \in {"poke", "recheck", "waiting", "acquire", "inside"}

(* A thread of the handle has counted its suspension and not made it. *)
Starting(h) ==
  \E t \in Threads : HandleOf[t] = h /\ op[t] = "suspend" /\ tpc[t] = "suspend"

HoldingThreads == {t \in Threads : Holds(t)}
HoldingHandles == {h \in Handles : suspendCount[h] > 0 /\ ~Starting(h)}

Counted ==
  /\ IsFiniteSet(HoldingThreads) /\ IsFiniteSet(HoldingHandles)
  /\ suspendRequested = Cardinality(HoldingThreads) + Cardinality(HoldingHandles)

(* The suspensions of the threads of a handle, numbered for each thread. *)
Tickets(h) == {x \in Threads \X Nat : HandleOf[x[1]] = h /\ x[2] < held[x[1]]}

TicketsCounted ==
  \A h \in Handles :
    IsFiniteSet(Tickets(h)) /\ Cardinality(Tickets(h)) = suspendCount[h]

(* The place of a thread in each call, and what it holds there. *)
Place(t) ==
  /\ tpc[t] = "idle" => op[t] = "none"
  /\ tpc[t] \in {"suspend", "poke", "recheck", "waiting"} => op[t] \in {"lock", "suspend"}
  /\ tpc[t] \in {"acquire", "inside"} => op[t] = "lock"
  /\ tpc[t] = "resume" => op[t] \in {"lock", "none"}
  /\ tpc[t] \in {"append", "wake", "check"} => op[t] \in {"run", "async"}
  /\ op[t] = "suspend" => held[t] > 0

Places ==
  /\ \A t \in Threads : Place(t)
  /\ \A t, u \in Threads :
       op[t] = "suspend" /\ op[u] = "suspend" /\ HandleOf[t] = HandleOf[u] => t = u

(* Who has exclusive_lock, and where the core is. *)
Exclusion ==
  /\ suspended <=> ~CoreRuns
  /\ \A t \in Threads : exclusive = t <=> tpc[t] = "inside"
  /\ exclusive = Core <=> cpc = "fn"
  /\ cpc \in {"popped", "fn", "finish"} => item \in Requests

(* Nobody who was promised the core is left without it. *)
Kept ==
  /\ \A t \in Threads : tpc[t] \in {"acquire", "inside", "resume"} => suspended
  /\ \A h \in Handles : suspendCount[h] > 0 /\ ~Suspending(h) => suspended

IInv == TypeOK /\ Counted /\ TicketsCounted /\ Places /\ Exclusion /\ Kept

(***************************************************************************)
(* Types, places, locks.                                                   *)
(***************************************************************************)
LEMMA InitIInv == Init => IInv
<1> SUFFICES ASSUME Init PROVE IInv
  OBVIOUS
<1> USE DEF Init
<1>1. TypeOK
  <2>1. queue \in Seq(Requests)
    BY EmptySeq
  <2>2. /\ tpc \in [Threads -> ThreadStates] /\ op \in [Threads -> Ops]
        /\ completed \in [Threads -> BOOLEAN] /\ suspendCount \in [Handles -> Nat]
        /\ held \in [Threads -> Nat] /\ calls \in [Threads -> 0 .. MaxCalls]
    BY MaxCallsAssumption DEF ThreadStates, Ops
  <2>3. cpc \in CoreStates
    BY DEF CoreStates
  <2> QED BY <2>1, <2>2, <2>3 DEF TypeOK
<1>2. Counted
  <2>1. HoldingThreads = {} /\ HoldingHandles = {}
    BY DEF HoldingThreads, HoldingHandles, Holds
  <2> QED BY <2>1, FS_EmptySet DEF Counted
<1>3. TicketsCounted
  <2>1. ASSUME NEW h \in Handles PROVE Tickets(h) = {}
    BY DEF Tickets
  <2> QED BY <2>1, FS_EmptySet DEF TicketsCounted
<1>4. Places /\ Exclusion /\ Kept
  BY CoreAssumption, NoOneAssumption
  DEF Places, Place, Exclusion, Kept, Suspending, CoreRuns
<1> QED BY <1>1, <1>2, <1>3, <1>4 DEF IInv

(***************************************************************************)
(* What the counts are good for.                                           *)
(***************************************************************************)
LEMMA Inhabited ==
  ASSUME NEW S, IsFiniteSet(S), NEW x \in S
  PROVE  /\ Cardinality(S) \in Nat /\ Cardinality(S) > 0
         /\ \A y \in S : y # x => Cardinality(S) > 1
<1>1. Cardinality(S) \in Nat /\ (Cardinality(S) = 0 <=> S = {})
  BY FS_CardinalityType, FS_EmptySet
<1>2. ASSUME NEW y \in S, y # x PROVE Cardinality(S) > 1
  <2>1. IsFiniteSet(S \ {x}) /\ Cardinality(S \ {x}) = Cardinality(S) - 1
    BY FS_RemoveElement
  <2>2. Cardinality(S \ {x}) \in Nat /\ Cardinality(S \ {x}) # 0
    <3>1. y \in S \ {x}
      BY <1>2
    <3> QED BY <2>1, <3>1, FS_CardinalityType, FS_EmptySet
  <2> QED BY <1>1, <2>1, <2>2
<1> QED BY <1>1, <1>2

(* Who has the core suspended is among those that suspendRequested counts. *)
LEMMA HolderIsCounted ==
  ASSUME Counted
  PROVE  /\ \A t \in Threads : Holds(t) => suspendRequested > 0
         /\ \A h \in HoldingHandles : suspendRequested > 0
<1>1. Cardinality(HoldingThreads) \in Nat /\ Cardinality(HoldingHandles) \in Nat
  BY FS_CardinalityType DEF Counted
<1>2. ASSUME NEW t \in Threads, Holds(t) PROVE suspendRequested > 0
  <2>1. t \in HoldingThreads
    BY <1>2 DEF HoldingThreads
  <2>2. Cardinality(HoldingThreads) > 0
    BY <2>1, Inhabited DEF Counted
  <2> QED BY <1>1, <2>2 DEF Counted
<1>3. ASSUME NEW h \in HoldingHandles PROVE suspendRequested > 0
  <2>1. Cardinality(HoldingHandles) > 0
    BY Inhabited DEF Counted
  <2> QED BY <1>1, <2>1 DEF Counted
<1> QED BY <1>2, <1>3

(* A thread that holds a suspension is counted by its handle; a second one *)
(* of the same handle makes the count exceed one.                          *)
LEMMA SuspensionIsCounted ==
  ASSUME TypeOK, TicketsCounted, NEW t \in Threads, held[t] > 0
  PROVE  /\ HandleOf[t] \in Handles
         /\ suspendCount[HandleOf[t]] > 0
         /\ \A u \in Threads :
              u # t /\ HandleOf[u] = HandleOf[t] /\ held[u] > 0
                => suspendCount[HandleOf[t]] > 1
<1> DEFINE h == HandleOf[t]
<1>1. h \in Handles
  BY HandleOfAssumption
<1>2. IsFiniteSet(Tickets(h)) /\ Cardinality(Tickets(h)) = suspendCount[h]
  BY <1>1 DEF TicketsCounted
<1>3. ASSUME NEW u \in Threads, HandleOf[u] = h, held[u] > 0
      PROVE  <<u, 0>> \in Tickets(h)
  BY <1>3 DEF Tickets
<1>4. <<t, 0>> \in Tickets(h)
  BY <1>3
<1>5. Cardinality(Tickets(h)) > 0
  BY <1>2, <1>4, Inhabited
<1>6. ASSUME NEW u \in Threads, u # t, HandleOf[u] = h, held[u] > 0
      PROVE  suspendCount[h] > 1
  <2>1. <<u, 0>> \in Tickets(h) /\ <<u, 0>> # <<t, 0>>
    BY <1>3, <1>6
  <2> QED BY <1>2, <1>4, <2>1, Inhabited
<1> QED BY <1>1, <1>2, <1>5, <1>6

(***************************************************************************)
(* Types, places and locks through every step.                             *)
(***************************************************************************)
LEMMA GotoFacts ==
  ASSUME TypeOK, NEW t \in Threads, NEW s \in ThreadStates, Goto(t, s)
  PROVE  /\ tpc' \in [Threads -> ThreadStates] /\ op' \in [Threads -> Ops]
         /\ tpc'[t] = s /\ op'[t] = (IF s = "idle" THEN "none" ELSE op[t])
         /\ \A u \in Threads : u # t => tpc'[u] = tpc[u] /\ op'[u] = op[u]
BY DEF TypeOK, Goto, Ops

(* Every step keeps the types. *)
LEMMA TypeNext ==
  ASSUME TypeOK, Counted, TicketsCounted, Places, Exclusion, Next
  PROVE  TypeOK'
<1>1. CASE CoreStep \/ Timeout
  <2> USE DEF TypeOK, CoreStates
  <2>1. CASE Pop
    <3>1. Head(queue) \in Requests /\ Tail(queue) \in Seq(Requests)
      BY <2>1, HeadTailProperties DEF Pop
    <3> QED BY <2>1, <3>1 DEF Pop, threadVars, handleVars
  <2>2. CASE Poll \/ FallAsleep
    BY <2>2 DEF Poll, FallAsleep, queueVars, threadVars, handleVars
  <2>3. CASE WakeUp \/ Timeout
    BY <2>3 DEF WakeUp, Timeout, queueVars, threadVars, handleVars
  <2>4. CASE Process
    BY <2>4 DEF Process, threadVars, handleVars
  <2>5. CASE StaySuspended \/ Leave
    BY <2>5 DEF StaySuspended, Leave, coreVars, threadVars, handleVars
  <2>6. CASE BeginRequest \/ EndRequest
    BY <2>6 DEF BeginRequest, EndRequest, queueVars, threadVars, handleVars
  <2>7. CASE Finish
    BY <2>7 DEF Finish, handleVars
  <2> QED BY <1>1, <2>1, <2>2, <2>3, <2>4, <2>5, <2>6, <2>7 DEF CoreStep
<1>2. ASSUME NEW t \in Threads, ThreadStep(t) PROVE TypeOK'
  <2> USE GotoFacts DEF TypeOK, queueVars, coreVars, handleVars, Wakeup, Granted
  <2>1. CASE Suspend(t)
    <3>1. \A s \in {"acquire", "idle", "poke"} : s \in ThreadStates
      BY DEF ThreadStates
    <3> QED BY <2>1, <3>1 DEF Suspend
  <2>2. CASE Poke(t)
    BY <2>2 DEF Poke, ThreadStates
  <2>3. CASE Recheck(t)
    <3>1. \A s \in {"acquire", "idle", "waiting"} : s \in ThreadStates
      BY DEF ThreadStates
    <3> QED BY <2>3, <3>1 DEF Recheck
  <2>4. CASE Woken(t)
    <3>1. \A s \in {"acquire", "idle", "poke"} : s \in ThreadStates
      BY DEF ThreadStates
    <3> QED BY <2>4, <3>1 DEF Woken
  <2>5. CASE Acquire(t) \/ Unlock(t)
    BY <2>5 DEF Acquire, Unlock, ThreadStates
  <2>6. CASE Resume(t)
    <3>1. suspendRequested > 0
      BY <2>6, HolderIsCounted DEF Resume, Holds
    <3> QED BY <2>6, <3>1 DEF Resume, ThreadStates
  <2>7. CASE AppendRequest(t)
    <3>1. [by |-> t, sync |-> op[t] = "run"] \in Requests
      BY DEF Requests
    <3>2. Append(queue, [by |-> t, sync |-> op[t] = "run"]) \in Seq(Requests)
      BY <3>1, AppendProperties
    <3> QED BY <2>7, <3>2 DEF AppendRequest, ThreadStates
  <2>8. CASE Wake(t)
    <3>1. \A s \in {"check", "idle"} : s \in ThreadStates
      BY DEF ThreadStates
    <3> QED BY <2>8, <3>1 DEF Wake
  <2>9. CASE CheckCompleted(t)
    <3>1. CASE completed[t]
      BY <2>9, <3>1 DEF CheckCompleted, ThreadStates
    <3>2. CASE ~completed[t]
      BY <2>9, <3>2 DEF CheckCompleted
    <3> QED BY <3>1, <3>2
  <2> QED BY <1>2, <2>1, <2>2, <2>3, <2>4, <2>5, <2>6, <2>7, <2>8, <2>9 DEF ThreadStep
<1>3. ASSUME NEW t \in Threads, UserCall(t) PROVE TypeOK'
  <2> USE MaxCallsAssumption, HandleOfAssumption
      DEF TypeOK, Called, queueVars, coreVars, handleVars
  <2>1. CASE \E o \in {"lock", "run", "async"} : Call(t, o)
    BY <2>1 DEF Call, ThreadStates, Ops
  <2>2. CASE BeginSuspend(t)
    <3>1. /\ tpc' \in [Threads -> ThreadStates] /\ op' \in [Threads -> Ops]
      BY <2>2 DEF BeginSuspend, ThreadStates, Ops
    <3>2. /\ calls' \in [Threads -> 0 .. MaxCalls] /\ held' \in [Threads -> Nat]
          /\ suspendCount' \in [Handles -> Nat]
      BY <2>2 DEF BeginSuspend
    <3> QED BY <2>2, <3>1, <3>2 DEF BeginSuspend
  <2>3. CASE BeginResume(t)
    <3>1. /\ tpc' \in [Threads -> ThreadStates] /\ op' \in [Threads -> Ops]
      <4>1. \A s \in {"resume", "idle"} : s \in ThreadStates
        BY DEF ThreadStates
      <4> QED BY <2>3, <4>1, GotoFacts DEF BeginResume
    <3>2. held' \in [Threads -> Nat] /\ suspendCount' \in [Handles -> Nat]
      BY <2>3, SuspensionIsCounted DEF BeginResume
    <3> QED BY <2>3, <3>1, <3>2 DEF BeginResume
  <2> QED BY <1>3, <2>1, <2>2, <2>3 DEF UserCall
<1> QED BY <1>1, <1>2, <1>3 DEF Next

(* Every step leaves each thread at a place of the call it is in. *)
LEMMA PlacesNext ==
  ASSUME TypeOK, TicketsCounted, Places, Next
  PROVE  Places'
<1>1. CASE CoreStep \/ Timeout
  <2>1. UNCHANGED <<tpc, op, held>>
    BY <1>1 DEF CoreStep, Poll, FallAsleep, WakeUp, Timeout, Process, Pop, StaySuspended,
                Leave, BeginRequest, EndRequest, Finish, threadVars, handleVars
  <2> QED BY <2>1 DEF Places, Place
<1>2. ASSUME NEW t \in Threads, NEW s \in ThreadStates, Goto(t, s), Place(t)',
             \A u \in Threads : u # t => held'[u] = held[u]
      PROVE  Places'
  <2>1. \A u \in Threads : Place(u)'
    BY <1>2, GotoFacts DEF Place, Places
  <2>2. \A u \in Threads : op'[u] = "suspend" => op[u] = "suspend"
    BY <1>2, GotoFacts
  <2> QED BY <2>1, <2>2 DEF Places
<1>3. ASSUME NEW t \in Threads, ThreadStep(t) PROVE Places'
  <2> USE <1>2, GotoFacts DEF handleVars, Place
  <2>1. Place(t)
    BY DEF Places
  <2>2. ASSUME Goto(t, IF suspended THEN Granted(t) ELSE "poke"), UNCHANGED held,
               tpc[t] \in {"suspend", "waiting"}
        PROVE  Places'
    <3>1. CASE suspended /\ op[t] = "lock"
      BY <2>1, <2>2, <3>1 DEF Granted, ThreadStates
    <3>2. CASE suspended /\ op[t] = "suspend"
      BY <2>1, <2>2, <3>2 DEF Granted, ThreadStates
    <3>3. CASE ~suspended
      BY <2>1, <2>2, <3>3 DEF ThreadStates
    <3> QED BY <2>1, <2>2, <3>1, <3>2, <3>3
  <2>3. CASE Suspend(t) \/ Woken(t)
    BY <2>2, <2>3 DEF Suspend, Woken
  <2>4. CASE Poke(t)
    BY <2>1, <2>4 DEF Poke, ThreadStates
  <2>5. CASE Recheck(t)
    <3>1. CASE suspended /\ op[t] = "lock"
      BY <2>1, <2>5, <3>1 DEF Recheck, Granted, ThreadStates
    <3>2. CASE suspended /\ op[t] = "suspend"
      BY <2>1, <2>5, <3>2 DEF Recheck, Granted, ThreadStates
    <3>3. CASE ~suspended
      BY <2>1, <2>5, <3>3 DEF Recheck, ThreadStates
    <3> QED BY <2>1, <2>5, <3>1, <3>2, <3>3 DEF Recheck
  <2>6. CASE Acquire(t)
    BY <2>1, <2>6 DEF Acquire, ThreadStates
  <2>7. CASE Unlock(t)
    BY <2>1, <2>7 DEF Unlock, ThreadStates
  <2>8. CASE Resume(t)
    BY <2>1, <2>8 DEF Resume, ThreadStates
  <2>9. CASE AppendRequest(t)
    BY <2>1, <2>9 DEF AppendRequest, ThreadStates
  <2>10. CASE Wake(t)
    <3>1. CASE op[t] = "run"
      BY <2>1, <2>10, <3>1 DEF Wake, ThreadStates
    <3>2. CASE op[t] # "run"
      BY <2>1, <2>10, <3>2 DEF Wake, ThreadStates
    <3> QED BY <3>1, <3>2
  <2>11. CASE CheckCompleted(t)
    <3>1. CASE completed[t]
      BY <2>1, <2>11, <3>1 DEF CheckCompleted, ThreadStates
    <3>2. CASE ~completed[t]
      BY <2>11, <3>2 DEF CheckCompleted, Places
    <3> QED BY <3>1, <3>2
  <2> QED BY <1>3, <2>3, <2>4, <2>5, <2>6, <2>7, <2>8, <2>9, <2>10, <2>11 DEF ThreadStep
<1>4. ASSUME NEW t \in Threads, UserCall(t) PROVE Places'
  <2>1. CASE \E o \in {"lock", "run", "async"} : Call(t, o)
    BY <2>1 DEF Call, Called, handleVars, TypeOK, Places, Place
  <2>2. CASE BeginSuspend(t)
    <3>1. ASSUME suspendCount[HandleOf[t]] = 0, NEW u \in Threads, op[u] = "suspend"
          PROVE  HandleOf[u] # HandleOf[t]
      BY <3>1, SuspensionIsCounted DEF Places, Place
    <3>2. \A u \in Threads : Place(u)'
      BY <2>2 DEF BeginSuspend, Called, TypeOK, Places, Place
    <3>3. \A u \in Threads : op'[u] = "suspend" =>
            \/ op[u] = "suspend"
            \/ u = t /\ suspendCount[HandleOf[t]] = 0
      BY <2>2 DEF BeginSuspend, TypeOK
    <3> QED BY <3>1, <3>2, <3>3 DEF Places
  <2>3. CASE BeginResume(t)
    <3> DEFINE s == IF suspendCount[HandleOf[t]] = 1 THEN "resume" ELSE "idle"
    <3>1. s \in ThreadStates /\ s \in {"resume", "idle"} /\ Goto(t, s) /\ op[t] = "none"
      BY <2>3 DEF BeginResume, ThreadStates, Places, Place
    <3>2. \A u \in Threads : u # t => held'[u] = held[u]
      BY <2>3 DEF BeginResume, TypeOK
    <3> HIDE DEF s
    <3>3. Place(t)'
      BY <3>1, GotoFacts DEF Place
    <3> QED BY <1>2, <3>1, <3>2, <3>3
  <2> QED BY <1>4, <2>1, <2>2, <2>3 DEF UserCall
<1> QED BY <1>1, <1>3, <1>4 DEF Next

(* No step lets a second user in: the lock is taken only when it is free,  *)
(* and the core leaves its own code before it lets go of it.               *)
LEMMA ExclusionNext ==
  ASSUME TypeOK, Places, Exclusion, Next
  PROVE  Exclusion'
<1> USE CoreAssumption, NoOneAssumption DEF TypeOK, Exclusion, CoreRuns
<1>1. CASE CoreStep \/ Timeout
  <2>1. CASE Poll \/ FallAsleep \/ WakeUp \/ Timeout \/ Process
    BY <2>1 DEF Poll, FallAsleep, WakeUp, Timeout, Process, queueVars, threadVars
  <2>2. CASE Pop
    <3>1. Head(queue) \in Requests
      BY <2>2, HeadTailProperties DEF Pop
    <3> QED BY <2>2, <3>1 DEF Pop, threadVars
  <2>3. CASE StaySuspended \/ Leave
    BY <2>3 DEF StaySuspended, Leave, coreVars, threadVars
  <2>4. CASE BeginRequest \/ EndRequest \/ Finish
    BY <2>4 DEF BeginRequest, EndRequest, Finish, queueVars, threadVars
  <2> QED BY <1>1, <2>1, <2>2, <2>3, <2>4 DEF CoreStep
<1>2. ASSUME NEW t \in Threads, ThreadStep(t) PROVE Exclusion'
  <2> USE <1>2 DEF Goto, queueVars, coreVars, Granted
  <2>1. CASE Suspend(t) \/ Poke(t)
    BY <2>1 DEF Suspend, Poke
  <2>2. CASE Recheck(t) \/ Woken(t)
    BY <2>2 DEF Recheck, Woken
  <2>3. CASE Acquire(t)
    BY <2>3 DEF Acquire
  <2>4. CASE Unlock(t)
    BY <2>4 DEF Unlock
  <2>5. CASE Resume(t)
    BY <2>5 DEF Resume
  <2>6. CASE AppendRequest(t) \/ Wake(t) \/ CheckCompleted(t)
    BY <2>6 DEF AppendRequest, Wake, CheckCompleted
  <2> QED BY <2>1, <2>2, <2>3, <2>4, <2>5, <2>6 DEF ThreadStep
<1>3. ASSUME NEW t \in Threads, UserCall(t) PROVE Exclusion'
  BY <1>3 DEF UserCall, Call, BeginSuspend, BeginResume, Called, Goto, queueVars, coreVars
<1> QED BY <1>1, <1>2, <1>3 DEF Next

(***************************************************************************)
(* The counts through every step.                                          *)
(***************************************************************************)
(* A step that leaves every holder alone. *)
LEMMA SameHolders ==
  ASSUME Counted, UNCHANGED suspendRequested,
         \A t \in Threads : Holds(t)' <=> Holds(t),
         \A h \in Handles :
           suspendCount'[h] > 0 /\ ~Starting(h)' <=> suspendCount[h] > 0 /\ ~Starting(h)
  PROVE  Counted'
<1>1. HoldingThreads' = HoldingThreads /\ HoldingHandles' = HoldingHandles
  BY DEF HoldingThreads, HoldingHandles
<1> QED BY <1>1 DEF Counted

(* A thread begins to hold the queue, or ends. *)
LEMMA ThreadHolds ==
  ASSUME Counted, suspendRequested \in Nat, NEW t \in Threads, ~Holds(t), Holds(t)',
         suspendRequested' = suspendRequested + 1,
         \A u \in Threads : u # t => (Holds(u)' <=> Holds(u)), HoldingHandles' = HoldingHandles
  PROVE  Counted'
<1>1. HoldingThreads' = HoldingThreads \cup {t} /\ t \notin HoldingThreads
  BY DEF HoldingThreads
<1>2. IsFiniteSet(HoldingThreads \cup {t})
      /\ Cardinality(HoldingThreads \cup {t}) = Cardinality(HoldingThreads) + 1
  BY <1>1, FS_AddElement DEF Counted
<1>3. Cardinality(HoldingThreads) \in Nat /\ Cardinality(HoldingHandles) \in Nat
  BY FS_CardinalityType DEF Counted
<1> QED BY <1>1, <1>2, <1>3 DEF Counted

(* A thread that stops holding the core takes itself off the count. *)
LEMMA ThreadReleases ==
  ASSUME Counted, NEW t \in Threads, Holds(t), ~Holds(t)',
         suspendRequested' = suspendRequested - 1,
         \A u \in Threads : u # t => (Holds(u)' <=> Holds(u)), HoldingHandles' = HoldingHandles
  PROVE  Counted'
<1>1. HoldingThreads' = HoldingThreads \ {t} /\ t \in HoldingThreads
  BY DEF HoldingThreads
<1>2. IsFiniteSet(HoldingThreads \ {t})
      /\ Cardinality(HoldingThreads \ {t}) = Cardinality(HoldingThreads) - 1
  BY <1>1, FS_RemoveElement DEF Counted
<1>3. Cardinality(HoldingThreads) \in Nat /\ Cardinality(HoldingHandles) \in Nat
  BY FS_CardinalityType DEF Counted
<1> QED BY <1>1, <1>2, <1>3 DEF Counted

(* A handle begins to hold the queue. *)
LEMMA HandleHolds ==
  ASSUME Counted, NEW h \in Handles, h \notin HoldingHandles,
         HoldingHandles' = HoldingHandles \cup {h}, HoldingThreads' = HoldingThreads,
         suspendRequested' = suspendRequested + 1
  PROVE  Counted'
<1>1. IsFiniteSet(HoldingHandles \cup {h})
      /\ Cardinality(HoldingHandles \cup {h}) = Cardinality(HoldingHandles) + 1
  BY FS_AddElement DEF Counted
<1>2. Cardinality(HoldingThreads) \in Nat /\ Cardinality(HoldingHandles) \in Nat
  BY FS_CardinalityType DEF Counted
<1> QED BY <1>1, <1>2 DEF Counted

(* The last mpv_resume of a handle hands its suspension to the thread. *)
LEMMA HandleToThread ==
  ASSUME Counted, NEW h \in HoldingHandles, NEW t \in Threads, t \notin HoldingThreads,
         HoldingHandles' = HoldingHandles \ {h}, HoldingThreads' = HoldingThreads \cup {t},
         UNCHANGED suspendRequested
  PROVE  Counted'
<1>1. IsFiniteSet(HoldingHandles \ {h})
      /\ Cardinality(HoldingHandles \ {h}) = Cardinality(HoldingHandles) - 1
  BY FS_RemoveElement DEF Counted
<1>2. IsFiniteSet(HoldingThreads \cup {t})
      /\ Cardinality(HoldingThreads \cup {t}) = Cardinality(HoldingThreads) + 1
  BY FS_AddElement DEF Counted
<1>3. Cardinality(HoldingThreads) \in Nat /\ Cardinality(HoldingHandles) \in Nat
  BY FS_CardinalityType DEF Counted
<1> QED BY <1>1, <1>2, <1>3 DEF Counted

(* The step of a thread in its call, by whether it holds the queue before  *)
(* and after it; the counts of the handles do not change.                  *)
LEMMA GotoCounted ==
  ASSUME TypeOK, Counted, Places, NEW t \in Threads, NEW s \in ThreadStates, Goto(t, s),
         UNCHANGED suspendCount, op[t] = "suspend" => tpc[t] # "suspend", s # "suspend",
         \/ (Holds(t)' <=> Holds(t)) /\ UNCHANGED suspendRequested
         \/ Holds(t) /\ ~Holds(t)' /\ suspendRequested' = suspendRequested - 1
         \/ ~Holds(t) /\ Holds(t)' /\ suspendRequested' = suspendRequested + 1
  PROVE  Counted'
<1>1. \A u \in Threads : u # t => (Holds(u)' <=> Holds(u))
  BY GotoFacts DEF Holds
<1>2. ASSUME NEW h \in Handles PROVE Starting(h)' <=> Starting(h)
  BY GotoFacts DEF Starting
<1>3. HoldingHandles' = HoldingHandles
  BY <1>2 DEF HoldingHandles
<1>4. suspendRequested \in Nat
  BY DEF TypeOK
<1>5. CASE Holds(t)' <=> Holds(t)
  <2>1. \A u \in Threads : Holds(u)' <=> Holds(u)
    BY <1>1, <1>5
  <2> QED BY <1>2, <1>5, <2>1, SameHolders
<1>6. CASE Holds(t) /\ ~Holds(t)'
  BY <1>1, <1>3, <1>6, ThreadReleases
<1>7. CASE ~Holds(t) /\ Holds(t)'
  BY <1>1, <1>3, <1>4, <1>7, ThreadHolds
<1> QED BY <1>5, <1>6, <1>7

(* Every step changes suspendRequested as it changes who holds the core. *)
LEMMA CountedNext ==
  ASSUME TypeOK, Counted, TicketsCounted, Places, Next
  PROVE  Counted'
<1>1. CASE CoreStep \/ Timeout
  <2>1. UNCHANGED <<tpc, op, suspendCount, suspendRequested>>
    BY <1>1 DEF CoreStep, Poll, FallAsleep, WakeUp, Timeout, Process, Pop, StaySuspended,
                Leave, BeginRequest, EndRequest, Finish, queueVars, threadVars, handleVars
  <2> QED BY <2>1, SameHolders DEF Holds, Starting
<1>2. ASSUME NEW t \in Threads, ThreadStep(t) PROVE Counted'
  <2>1. Place(t)
    BY DEF Places
  <2> USE <2>1, GotoFacts, GotoCounted DEF Place, Holds, Granted, ThreadStates, queueVars,
          handleVars
  <2>2. CASE Suspend(t)
    <3>1. CASE op[t] = "lock"
      <4>1. CASE suspended
        BY <2>2, <3>1, <4>1 DEF Suspend
      <4>2. CASE ~suspended
        BY <2>2, <3>1, <4>2 DEF Suspend
      <4> QED BY <4>1, <4>2
    <3>2. CASE op[t] = "suspend"
      <4> DEFINE h == HandleOf[t]
      <4>1. PICK s \in {"idle", "poke"} : Goto(t, s)
        BY <2>2, <3>2 DEF Suspend
      <4>2. tpc'[t] = s /\ \A u \in Threads : u # t => tpc'[u] = tpc[u] /\ op'[u] = op[u]
        BY <4>1
      <4>3. Starting(h) /\ ~Starting(h)'
        BY <2>2, <3>2, <4>2 DEF Suspend, Starting, Places
      <4>4. \A g \in Handles : g # h => (Starting(g)' <=> Starting(g))
        BY <4>2 DEF Starting
      <4>5. h \in Handles /\ suspendCount[h] > 0
        BY <3>2, SuspensionIsCounted
      <4>6. UNCHANGED suspendCount /\ suspendRequested' = suspendRequested + 1
        BY <2>2 DEF Suspend
      <4>7. HoldingHandles' = HoldingHandles \cup {h} /\ h \notin HoldingHandles
        BY <4>3, <4>4, <4>5, <4>6 DEF HoldingHandles
      <4>8. ~Holds(t) /\ ~Holds(t)'
        <5>1. op'[t] # "lock"
          BY <3>2, <4>1
        <5> QED BY <2>2, <3>2, <4>2, <5>1 DEF Suspend
      <4>9. HoldingThreads' = HoldingThreads
        BY <4>2, <4>8 DEF HoldingThreads
      <4> QED BY <4>5, <4>6, <4>7, <4>9, HandleHolds
    <3> QED BY <2>2, <3>1, <3>2 DEF Suspend
  <2>3. CASE Poke(t)
    BY <2>3 DEF Poke
  <2>4. CASE Recheck(t)
    <3>1. CASE suspended
      <4>1. CASE op[t] = "lock"
        BY <2>4, <3>1, <4>1 DEF Recheck
      <4>2. CASE op[t] = "suspend"
        BY <2>4, <3>1, <4>2 DEF Recheck
      <4> QED BY <2>4, <4>1, <4>2 DEF Recheck
    <3>2. CASE ~suspended
      BY <2>4, <3>2 DEF Recheck
    <3> QED BY <3>1, <3>2
  <2>5. CASE Woken(t)
    <3>1. CASE suspended
      <4>1. CASE op[t] = "lock"
        BY <2>5, <3>1, <4>1 DEF Woken
      <4>2. CASE op[t] = "suspend"
        BY <2>5, <3>1, <4>2 DEF Woken
      <4> QED BY <2>5, <4>1, <4>2 DEF Woken
    <3>2. CASE ~suspended
      BY <2>5, <3>2 DEF Woken
    <3> QED BY <3>1, <3>2
  <2>6. CASE Acquire(t)
    BY <2>6 DEF Acquire
  <2>7. CASE Unlock(t)
    BY <2>7 DEF Unlock
  <2>8. CASE Resume(t)
    BY <2>8 DEF Resume
  <2>9. CASE AppendRequest(t)
    BY <2>9 DEF AppendRequest
  <2>10. CASE Wake(t)
    <3>1. CASE op[t] = "run"
      BY <2>10, <3>1 DEF Wake
    <3>2. CASE op[t] # "run"
      BY <2>10, <3>2 DEF Wake
    <3> QED BY <3>1, <3>2
  <2>11. CASE CheckCompleted(t)
    <3>1. CASE completed[t]
      BY <2>11, <3>1 DEF CheckCompleted
    <3>2. CASE ~completed[t]
      BY <2>11, <3>2, SameHolders DEF CheckCompleted, Starting
    <3> QED BY <3>1, <3>2
  <2> QED BY <1>2, <2>2, <2>3, <2>4, <2>5, <2>6, <2>7, <2>8, <2>9, <2>10, <2>11
          DEF ThreadStep
<1>3. ASSUME NEW t \in Threads, UserCall(t) PROVE Counted'
  <2> USE DEF Called, queueVars, handleVars
  <2>1. tpc[t] = "idle" /\ op[t] = "none" /\ ~Holds(t)
    BY <1>3 DEF UserCall, Call, BeginSuspend, BeginResume, Places, Place, Holds
  <2>2. CASE \E o \in {"lock", "run", "async"} : Call(t, o)
    <3>1. UNCHANGED <<suspendCount, suspendRequested>> /\ op'[t] # "suspend"
          /\ tpc'[t] \in {"suspend", "append"}
          /\ \A u \in Threads : u # t => tpc'[u] = tpc[u] /\ op'[u] = op[u]
      BY <2>2 DEF Call, TypeOK
    <3>2. \A u \in Threads : Holds(u)' <=> Holds(u)
      BY <2>1, <3>1 DEF Holds
    <3>3. \A h \in Handles : Starting(h)' <=> Starting(h)
      BY <2>1, <3>1 DEF Starting
    <3> QED BY <3>1, <3>2, <3>3, SameHolders
  <2>3. CASE BeginSuspend(t)
    <3> DEFINE h == HandleOf[t]
    <3>1. /\ UNCHANGED suspendRequested
          /\ suspendCount'[h] > 0
          /\ \A g \in Handles : g # h => suspendCount'[g] = suspendCount[g]
          /\ \A u \in Threads : u # t => tpc'[u] = tpc[u] /\ op'[u] = op[u]
          /\ IF suspendCount[h] = 0
               THEN op'[t] = "suspend" /\ tpc'[t] = "suspend"
               ELSE op'[t] = op[t] /\ tpc'[t] = tpc[t] /\ suspendCount[h] > 0
      <4>1. h \in Handles /\ suspendCount[h] \in Nat
        BY HandleOfAssumption DEF TypeOK
      <4>2. suspendCount'[h] = suspendCount[h] + 1
        BY <2>3, <4>1 DEF BeginSuspend, TypeOK
      <4>3. /\ UNCHANGED suspendRequested
            /\ \A g \in Handles : g # h => suspendCount'[g] = suspendCount[g]
        BY <2>3, <4>1 DEF BeginSuspend, TypeOK
      <4>4. /\ \A u \in Threads : u # t => tpc'[u] = tpc[u] /\ op'[u] = op[u]
            /\ IF suspendCount[h] = 0
                 THEN op'[t] = "suspend" /\ tpc'[t] = "suspend"
                 ELSE op'[t] = op[t] /\ tpc'[t] = tpc[t]
        BY <2>3 DEF BeginSuspend, TypeOK
      <4> QED BY <4>1, <4>2, <4>3, <4>4
    <3>2. \A u \in Threads : Holds(u)' <=> Holds(u)
      BY <2>1, <3>1 DEF Holds
    <3>3. ASSUME NEW g \in Handles
          PROVE  suspendCount'[g] > 0 /\ ~Starting(g)' <=> suspendCount[g] > 0 /\ ~Starting(g)
      <4>1. CASE g # h
        BY <2>1, <3>1, <4>1 DEF Starting
      <4>2. CASE g = h /\ suspendCount[h] = 0
        BY <3>1, <4>2 DEF Starting
      <4>3. CASE g = h /\ suspendCount[h] # 0
        BY <2>1, <3>1, <4>3 DEF Starting
      <4> QED BY <4>1, <4>2, <4>3
    <3> QED BY <3>1, <3>2, <3>3, SameHolders
  <2>4. CASE BeginResume(t)
    <3> DEFINE h == HandleOf[t]
               s == IF suspendCount[h] = 1 THEN "resume" ELSE "idle"
    <3>1. h \in Handles /\ suspendCount[h] \in Nat /\ suspendCount[h] > 0
      BY <2>4, SuspensionIsCounted DEF BeginResume, TypeOK
    <3>2. /\ UNCHANGED suspendRequested
          /\ suspendCount'[h] = suspendCount[h] - 1
          /\ \A g \in Handles : g # h => suspendCount'[g] = suspendCount[g]
      BY <2>4, <3>1 DEF BeginResume, TypeOK
    <3>3. s \in ThreadStates /\ Goto(t, s)
      BY <2>4 DEF BeginResume, ThreadStates
    <3>4. /\ tpc'[t] = s /\ op'[t] = "none"
          /\ \A u \in Threads : u # t => tpc'[u] = tpc[u] /\ op'[u] = op[u]
      BY <2>1, <3>3, GotoFacts
    <3>5. \A g \in Handles : Starting(g)' <=> Starting(g)
      BY <2>1, <3>4 DEF Starting
    <3>6. CASE suspendCount[h] = 1
      <4>1. ~Starting(h)
        BY <2>1, <2>4, <3>6, SuspensionIsCounted DEF BeginResume, Starting, Places, Place
      <4>2. h \in HoldingHandles /\ HoldingHandles' = HoldingHandles \ {h}
        BY <3>1, <3>2, <3>5, <3>6, <4>1 DEF HoldingHandles
      <4>3. Holds(t)' /\ \A u \in Threads : u # t => (Holds(u)' <=> Holds(u))
        BY <3>4, <3>6 DEF Holds
      <4>4. t \notin HoldingThreads /\ HoldingThreads' = HoldingThreads \cup {t}
        BY <2>1, <4>3 DEF HoldingThreads
      <4> QED BY <3>2, <4>2, <4>4, HandleToThread
    <3>7. CASE suspendCount[h] # 1
      <4>1. \A u \in Threads : Holds(u)' <=> Holds(u)
        BY <2>1, <3>4, <3>7 DEF Holds
      <4>2. \A g \in Handles : suspendCount'[g] > 0 <=> suspendCount[g] > 0
        BY <3>1, <3>2, <3>7
      <4> QED BY <3>2, <3>5, <4>1, <4>2, SameHolders
    <3> QED BY <3>6, <3>7
  <2> QED BY <1>3, <2>2, <2>3, <2>4 DEF UserCall
<1> QED BY <1>1, <1>2, <1>3 DEF Next

(* Every step keeps the count of each handle in line with its threads. *)
LEMMA TicketsNext ==
  ASSUME TypeOK, TicketsCounted, Next
  PROVE  TicketsCounted'
<1>1. ASSUME UNCHANGED <<held, suspendCount>> PROVE TicketsCounted'
  BY <1>1 DEF TicketsCounted, Tickets
<1>2. CASE CoreStep \/ Timeout
  <2>1. UNCHANGED <<held, suspendCount>>
    BY <1>2 DEF CoreStep, Poll, FallAsleep, WakeUp, Timeout, Process, Pop, StaySuspended,
                Leave, BeginRequest, EndRequest, Finish, handleVars
  <2> QED BY <1>1, <2>1
<1>3. ASSUME NEW t \in Threads, ThreadStep(t) PROVE TicketsCounted'
  <2>1. UNCHANGED <<held, suspendCount>>
    BY <1>3 DEF ThreadStep, Suspend, Poke, Recheck, Woken, Acquire, Unlock, Resume,
                AppendRequest, Wake, CheckCompleted, handleVars
  <2> QED BY <1>1, <2>1
<1>4. ASSUME NEW t \in Threads, UserCall(t) PROVE TicketsCounted'
  <2> DEFINE h == HandleOf[t]
  <2>1. h \in Handles /\ held[t] \in Nat /\ suspendCount[h] \in Nat
    BY HandleOfAssumption DEF TypeOK
  <2>2. IsFiniteSet(Tickets(h)) /\ Cardinality(Tickets(h)) = suspendCount[h]
    BY <2>1 DEF TicketsCounted
  <2>3. ASSUME \A u \in Threads : u # t => held'[u] = held[u],
               \A g \in Handles : g # h => suspendCount'[g] = suspendCount[g],
               IsFiniteSet(Tickets(h)'), Cardinality(Tickets(h)') = suspendCount'[h]
        PROVE  TicketsCounted'
    <3>1. ASSUME NEW g \in Handles, g # h PROVE Tickets(g)' = Tickets(g)
      BY <2>3, <3>1 DEF Tickets
    <3> QED BY <2>3, <3>1 DEF TicketsCounted
  <2>4. CASE \E o \in {"lock", "run", "async"} : Call(t, o)
    BY <1>1, <2>4 DEF Call, handleVars
  <2>5. CASE BeginSuspend(t)
    <3>1. /\ held'[t] = held[t] + 1 /\ \A u \in Threads : u # t => held'[u] = held[u]
          /\ suspendCount'[h] = suspendCount[h] + 1
          /\ \A g \in Handles : g # h => suspendCount'[g] = suspendCount[g]
      BY <2>1, <2>5 DEF BeginSuspend, TypeOK
    <3>2. Tickets(h)' = Tickets(h) \cup {<<t, held[t]>>} /\ <<t, held[t]>> \notin Tickets(h)
      <4>1. ASSUME NEW x \in Threads \X Nat
            PROVE  x[2] < held'[x[1]] <=> x[2] < held[x[1]] \/ x = <<t, held[t]>>
        <5>1. CASE x[1] = t
          BY <2>1, <3>1, <5>1
        <5>2. CASE x[1] # t
          BY <3>1, <5>2
        <5> QED BY <5>1, <5>2
      <4>2. <<t, held[t]>> \in Threads \X Nat
        BY <2>1
      <4> QED BY <2>1, <4>1, <4>2 DEF Tickets
    <3>3. IsFiniteSet(Tickets(h)') /\ Cardinality(Tickets(h)') = suspendCount[h] + 1
      BY <2>2, <3>2, FS_AddElement
    <3> QED BY <2>3, <3>1, <3>3
  <2>6. CASE BeginResume(t)
    <3>1. /\ held[t] > 0 /\ held'[t] = held[t] - 1
          /\ \A u \in Threads : u # t => held'[u] = held[u]
          /\ suspendCount'[h] = suspendCount[h] - 1
          /\ \A g \in Handles : g # h => suspendCount'[g] = suspendCount[g]
      BY <2>1, <2>6 DEF BeginResume, TypeOK
    <3>2. Tickets(h)' = Tickets(h) \ {<<t, held[t] - 1>>}
      <4>1. ASSUME NEW x \in Threads \X Nat
            PROVE  x[2] < held'[x[1]] <=> x[2] < held[x[1]] /\ x # <<t, held[t] - 1>>
        <5>1. CASE x[1] = t
          BY <2>1, <3>1, <5>1
        <5>2. CASE x[1] # t
          BY <3>1, <5>2
        <5> QED BY <5>1, <5>2
      <4> QED BY <4>1 DEF Tickets
    <3>3. <<t, held[t] - 1>> \in Tickets(h)
      BY <2>1, <3>1 DEF Tickets
    <3>4. IsFiniteSet(Tickets(h)') /\ Cardinality(Tickets(h)') = suspendCount[h] - 1
      BY <2>2, <3>2, <3>3, FS_RemoveElement
    <3> QED BY <2>3, <3>1, <3>4
  <2> QED BY <1>4, <2>4, <2>5, <2>6 DEF UserCall
<1> QED BY <1>2, <1>3, <1>4 DEF Next

(* suspend_requested is zero only if no thread and no handle holds the     *)
(* queue, so Leave breaks no promise.                                      *)
LEMMA KeptNext ==
  ASSUME TypeOK, Counted, TicketsCounted, Places, Exclusion, Kept, Next
  PROVE  Kept'
<1>1. CASE CoreStep \/ Timeout
  <2>1. UNCHANGED <<tpc, op, suspendCount>>
    BY <1>1 DEF CoreStep, Poll, FallAsleep, WakeUp, Timeout, Process, Pop, StaySuspended,
                Leave, BeginRequest, EndRequest, Finish, threadVars, handleVars
  <2>2. CASE Leave
    <3>1. suspendRequested = 0
      BY <2>2 DEF Leave
    <3>2. ASSUME NEW t \in Threads, tpc[t] \in {"acquire", "inside", "resume"} PROVE FALSE
      <4>1. Holds(t)
        BY <3>2 DEF Holds, Places, Place
      <4> QED BY <3>1, <4>1, HolderIsCounted
    <3>3. ASSUME NEW h \in Handles, suspendCount[h] > 0, ~Suspending(h) PROVE FALSE
      <4>1. h \in HoldingHandles
        BY <3>3 DEF HoldingHandles, Starting, Suspending
      <4> QED BY <3>1, <4>1, HolderIsCounted
    <3> QED BY <2>1, <3>2, <3>3 DEF Kept, Suspending
  <2>3. CASE ~Leave
    <3>1. suspended => suspended'
      BY <1>1, <2>3 DEF CoreStep, Poll, FallAsleep, WakeUp, Timeout, Process, Pop,
         StaySuspended, BeginRequest, EndRequest, Finish, queueVars
    <3> QED BY <2>1, <3>1 DEF Kept, Suspending
  <2> QED BY <2>2, <2>3
<1>2. ASSUME NEW t \in Threads, NEW s \in ThreadStates, Goto(t, s),
             UNCHANGED <<suspended, suspendCount>>,
             s \in {"acquire", "inside", "resume"} \/ (op[t] = "suspend" /\ s = "idle")
               => suspended
      PROVE  Kept'
  <2>1. \A u \in Threads : tpc'[u] \in {"acquire", "inside", "resume"} => suspended
    BY <1>2, GotoFacts DEF Kept
  <2>2. ASSUME NEW h \in Handles, Suspending(h), ~Suspending(h)' PROVE suspended
    <3>1. PICK u \in Threads : HandleOf[u] = h /\ op[u] = "suspend"
      BY <2>2 DEF Suspending
    <3>2. op'[u] # "suspend"
      BY <2>2, <3>1 DEF Suspending
    <3> QED BY <1>2, <3>1, <3>2, GotoFacts
  <2> QED BY <1>2, <2>1, <2>2 DEF Kept
<1>3. ASSUME NEW t \in Threads, ThreadStep(t) PROVE Kept'
  <2>1. Place(t) /\ (tpc[t] \in {"acquire", "inside", "resume"} => suspended)
    BY DEF Places, Kept
  <2> USE <1>2, <2>1 DEF Place, Granted, ThreadStates, queueVars, handleVars
  <2>2. ASSUME Goto(t, IF suspended THEN Granted(t) ELSE "poke"),
               UNCHANGED <<suspended, suspendCount>>
        PROVE  Kept'
    <3>1. CASE suspended /\ op[t] = "lock"
      BY <2>2, <3>1
    <3>2. CASE suspended /\ op[t] # "lock"
      BY <2>2, <3>2
    <3>3. CASE ~suspended
      BY <2>2, <3>3
    <3> QED BY <3>1, <3>2, <3>3
  <2>3. CASE Suspend(t) \/ Woken(t)
    BY <2>2, <2>3 DEF Suspend, Woken
  <2>4. CASE Poke(t)
    BY <2>4 DEF Poke
  <2>5. CASE Recheck(t)
    <3>1. CASE suspended /\ op[t] = "lock"
      BY <2>5, <3>1 DEF Recheck
    <3>2. CASE suspended /\ op[t] # "lock"
      BY <2>5, <3>2 DEF Recheck
    <3>3. CASE ~suspended
      BY <2>5, <3>3 DEF Recheck
    <3> QED BY <3>1, <3>2, <3>3
  <2>6. CASE Acquire(t)
    BY <2>6 DEF Acquire
  <2>7. CASE Unlock(t)
    BY <2>7 DEF Unlock
  <2>8. CASE Resume(t)
    BY <2>8 DEF Resume
  <2>9. CASE AppendRequest(t)
    BY <2>9 DEF AppendRequest
  <2>10. CASE Wake(t)
    <3>1. CASE op[t] = "run"
      BY <2>10, <3>1 DEF Wake
    <3>2. CASE op[t] # "run"
      BY <2>10, <3>2 DEF Wake
    <3> QED BY <3>1, <3>2
  <2>11. CASE CheckCompleted(t)
    <3>1. CASE completed[t]
      BY <2>11, <3>1 DEF CheckCompleted
    <3>2. CASE ~completed[t]
      BY <2>11, <3>2 DEF CheckCompleted, Kept, Suspending
    <3> QED BY <3>1, <3>2
  <2> QED BY <1>3, <2>3, <2>4, <2>5, <2>6, <2>7, <2>8, <2>9, <2>10, <2>11 DEF ThreadStep
<1>4. ASSUME NEW t \in Threads, UserCall(t) PROVE Kept'
  <2> USE DEF Called, queueVars, handleVars
  <2> DEFINE h == HandleOf[t]
  <2>1. tpc[t] = "idle" /\ op[t] = "none" /\ h \in Handles
    BY <1>4, HandleOfAssumption DEF UserCall, Call, BeginSuspend, BeginResume, Places, Place
  <2>2. CASE \E o \in {"lock", "run", "async"} : Call(t, o)
    <3>1. UNCHANGED <<suspendCount, suspended>> /\ tpc'[t] \in {"suspend", "append"}
          /\ \A u \in Threads : u # t => tpc'[u] = tpc[u] /\ op'[u] = op[u]
      BY <2>2 DEF Call, TypeOK
    <3>2. \A g \in Handles : Suspending(g) => Suspending(g)'
      BY <2>1, <3>1 DEF Suspending
    <3> QED BY <3>1, <3>2 DEF Kept
  <2>3. CASE BeginSuspend(t)
    <3>1. /\ UNCHANGED suspended
          /\ \A g \in Handles : g # h => suspendCount'[g] = suspendCount[g]
          /\ \A u \in Threads : u # t => tpc'[u] = tpc[u] /\ op'[u] = op[u]
          /\ IF suspendCount[h] = 0
               THEN op'[t] = "suspend" /\ tpc'[t] = "suspend"
               ELSE op'[t] = op[t] /\ tpc'[t] = tpc[t]
      BY <2>3 DEF BeginSuspend, TypeOK
    <3>2. \A g \in Handles : Suspending(g) => Suspending(g)'
      BY <2>1, <3>1 DEF Suspending
    <3>3. suspendCount[h] = 0 => Suspending(h)'
      BY <3>1 DEF Suspending
    <3>4. suspendCount[h] # 0 => suspendCount[h] > 0
      BY <2>1 DEF TypeOK
    <3>5. \A u \in Threads : tpc'[u] \in {"acquire", "inside", "resume"} => suspended
      BY <2>1, <3>1 DEF Kept
    <3> QED BY <3>1, <3>2, <3>3, <3>4, <3>5 DEF Kept
  <2>4. CASE BeginResume(t)
    <3> DEFINE s == IF suspendCount[h] = 1 THEN "resume" ELSE "idle"
    <3>1. suspendCount[h] \in Nat /\ suspendCount[h] > 0
      BY <2>4, SuspensionIsCounted DEF BeginResume, TypeOK
    <3>2. /\ UNCHANGED suspended
          /\ suspendCount'[h] = suspendCount[h] - 1
          /\ \A g \in Handles : g # h => suspendCount'[g] = suspendCount[g]
      BY <2>1, <2>4 DEF BeginResume, TypeOK
    <3>3. s \in ThreadStates /\ Goto(t, s)
      BY <2>4 DEF BeginResume, ThreadStates
    <3>4. /\ tpc'[t] = s /\ op'[t] = "none"
          /\ \A u \in Threads : u # t => tpc'[u] = tpc[u] /\ op'[u] = op[u]
      BY <2>1, <3>3, GotoFacts
    <3>5. \A g \in Handles : Suspending(g) => Suspending(g)'
      BY <2>1, <3>4 DEF Suspending
    <3>6. suspendCount[h] = 1 => suspended
      <4>1. ASSUME suspendCount[h] = 1 PROVE ~Suspending(h)
        BY <2>1, <2>4, <4>1, SuspensionIsCounted DEF BeginResume, Suspending, Places, Place
      <4> QED BY <2>1, <3>1, <4>1 DEF Kept
    <3>7. \A u \in Threads : tpc'[u] \in {"acquire", "inside", "resume"} => suspended
      BY <3>4, <3>6 DEF Kept
    <3>8. \A g \in Handles : suspendCount'[g] > 0 => suspendCount[g] > 0
      BY <3>1, <3>2
    <3> QED BY <3>2, <3>5, <3>7, <3>8 DEF Kept
  <2> QED BY <1>4, <2>2, <2>3, <2>4 DEF UserCall
<1> QED BY <1>1, <1>3, <1>4 DEF Next

(***************************************************************************)
(* The invariant, and what follows from it.                                *)
(***************************************************************************)
(* The counts, places and locks are right in every state. *)
THEOREM Invariance == Spec => []IInv
<1>1. Init => IInv
  BY InitIInv
<1>2. IInv /\ [Next]_vars => IInv'
  <2> SUFFICES ASSUME IInv, [Next]_vars PROVE IInv'
    OBVIOUS
  <2>1. CASE Next
    BY <2>1, TypeNext, CountedNext, TicketsNext, PlacesNext, ExclusionNext, KeptNext
    DEF IInv
  <2>2. CASE UNCHANGED vars
    <3> USE <2>2 DEF vars, queueVars, coreVars, threadVars, handleVars, IInv
    <3>1. TypeOK'
      BY DEF TypeOK
    <3>2. Counted' /\ TicketsCounted'
      BY DEF Counted, HoldingThreads, HoldingHandles, Holds, Starting, TicketsCounted, Tickets
    <3>3. Places' /\ Exclusion' /\ Kept'
      BY DEF Places, Place, Exclusion, CoreRuns, Kept, Suspending
    <3> QED BY <3>1, <3>2, <3>3
  <2> QED BY <2>1, <2>2
<1> QED BY <1>1, <1>2, PTL DEF Spec

(* Every variable keeps its type; neither counter falls below zero. *)
THEOREM TypeCorrect == Spec => []TypeOK
<1>1. IInv => TypeOK
  BY DEF IInv
<1> QED BY <1>1, Invariance, PTL

(* The core, its requests and the threads in lock_core never overlap. *)
THEOREM AlwaysOneUser == Spec => []OneUser
<1>1. IInv => OneUser
  BY CoreAssumption DEF IInv, OneUser, Kept, Exclusion
<1> QED BY <1>1, Invariance, PTL

(* The assertions of mp_dispatch_resume never fail. *)
THEOREM AlwaysLegalResume == Spec => []ResumeIsLegal
<1>1. IInv => ResumeIsLegal
  BY HolderIsCounted DEF IInv, ResumeIsLegal, Kept, Holds
<1> QED BY <1>1, Invariance, PTL

(* A thread that has suspended the core finds it stopped until it resumes. *)
THEOREM SuspendedCoreStays == Spec => []SuspendStopsCore
<1>1. IInv => SuspendStopsCore
  BY SuspensionIsCounted DEF IInv, SuspendStopsCore, Kept, Exclusion
<1> QED BY <1>1, Invariance, PTL

(***************************************************************************)
(* Dispatch implements CoreAccess: every step maps to a step or a stutter. *)
(***************************************************************************)
Names(q) == [i \in 1 .. Len(q) |-> q[i].by]

(* The callers of a queue are threads, one for each request. *)
LEMMA NamesType ==
  ASSUME NEW q \in Seq(Requests)
  PROVE  /\ Names(q) \in Seq(Threads) /\ Len(Names(q)) = Len(q)
         /\ \A i \in 1 .. Len(q) : Names(q)[i] = q[i].by
         /\ Names(q) = <<>> <=> q = <<>>
<1>1. Len(q) \in Nat /\ (q = <<>> <=> Len(q) = 0)
  BY EmptySeq
<1>2. ASSUME NEW i \in 1 .. Len(q) PROVE q[i].by \in Threads
  <2>1. q[i] \in Requests
    BY ElementOfSeq
  <2> QED BY <2>1 DEF Requests
<1> QED BY <1>1, <1>2 DEF Names

(* A posted request is the last of the backlog. *)
LEMMA NamesAppend ==
  ASSUME NEW q \in Seq(Requests), NEW r \in Requests
  PROVE  Names(Append(q, r)) = Append(Names(q), r.by)
<1>1. r.by \in Threads
  BY DEF Requests
<1>2. /\ Append(q, r) \in Seq(Requests) /\ Len(Append(q, r)) = Len(q) + 1
      /\ \A i \in 1 .. Len(q) : Append(q, r)[i] = q[i]
      /\ Append(q, r)[Len(q) + 1] = r
  BY AppendProperties
<1>3. /\ Append(Names(q), r.by) \in Seq(Threads)
      /\ Len(Append(Names(q), r.by)) = Len(q) + 1
      /\ \A i \in 1 .. Len(q) : Append(Names(q), r.by)[i] = q[i].by
      /\ Append(Names(q), r.by)[Len(q) + 1] = r.by
  BY <1>1, NamesType, AppendProperties
<1>4. ASSUME NEW i \in 1 .. Len(q) + 1
      PROVE  Names(Append(q, r))[i] = Append(Names(q), r.by)[i]
  <2>1. Names(Append(q, r))[i] = Append(q, r)[i].by
    BY <1>2, NamesType
  <2>2. CASE i = Len(q) + 1
    BY <1>2, <1>3, <2>1, <2>2
  <2>3. CASE i # Len(q) + 1
    <3>1. i \in 1 .. Len(q)
      BY <2>3
    <3> QED BY <1>2, <1>3, <2>1, <3>1
  <2> QED BY <2>2, <2>3
<1> QED BY <1>2, <1>3, <1>4, NamesType, SeqEqual

(* The request that is served is the first. *)
LEMMA NamesCons ==
  ASSUME NEW q \in Seq(Requests), NEW r \in Requests
  PROVE  /\ <<r>> \o q \in Seq(Requests) /\ Names(<<r>> \o q) # <<>>
         /\ Tail(Names(<<r>> \o q)) = Names(q)
<1>1. <<r>> \in Seq(Requests) /\ Len(<<r>>) = 1 /\ <<r>>[1] = r
  OBVIOUS
<1>2. /\ <<r>> \o q \in Seq(Requests) /\ Len(<<r>> \o q) = 1 + Len(q)
      /\ \A i \in 1 .. 1 + Len(q) :
           (<<r>> \o q)[i] = IF i <= 1 THEN <<r>>[i] ELSE q[i - 1]
  BY <1>1, ConcatProperties
<1>3. Len(q) \in Nat
  OBVIOUS
<1>4. Names(<<r>> \o q) \in Seq(Threads) /\ Names(<<r>> \o q) # <<>>
      /\ Len(Names(<<r>> \o q)) = 1 + Len(q)
  <2>1. <<r>> \o q # <<>>
    BY <1>2, <1>3, EmptySeq
  <2> QED BY <1>2, <2>1, NamesType
<1>5. /\ Tail(Names(<<r>> \o q)) \in Seq(Threads)
      /\ Len(Tail(Names(<<r>> \o q))) = Len(q)
      /\ \A i \in 1 .. Len(q) : Tail(Names(<<r>> \o q))[i] = Names(<<r>> \o q)[i + 1]
  BY <1>3, <1>4, HeadTailProperties
<1>6. ASSUME NEW i \in 1 .. Len(q) PROVE Tail(Names(<<r>> \o q))[i] = Names(q)[i]
  <2>1. i + 1 \in 1 .. 1 + Len(q) /\ ~(i + 1 <= 1) /\ i + 1 - 1 = i
    BY <1>3
  <2>2. (<<r>> \o q)[i + 1] = q[i]
    BY <1>2, <2>1
  <2>3. Names(<<r>> \o q)[i + 1] = q[i].by
    BY <1>2, <2>1, <2>2, NamesType
  <2> QED BY <1>5, <2>3, NamesType
<1> QED BY <1>2, <1>4, <1>5, <1>6, NamesType, SeqEqual

(* A request posted while the first is being taken is still the last. *)
LEMMA ConsAppend ==
  ASSUME NEW q \in Seq(Requests), NEW r \in Requests, NEW p \in Requests
  PROVE  /\ <<p>> \o q \in Seq(Requests)
         /\ <<p>> \o Append(q, r) = Append(<<p>> \o q, r)
<1>1. <<p>> \in Seq(Requests) /\ <<r>> \in Seq(Requests)
  OBVIOUS
<1>2. <<p>> \o q \in Seq(Requests)
  BY <1>1, ConcatProperties
<1>3. <<p>> \o (q \o <<r>>) = (<<p>> \o q) \o <<r>>
  BY <1>1, ConcatAssociative
<1> QED BY <1>2, <1>3, AppendIsConcat

(* Taking a request off the queue leaves the backlog as it is. *)
LEMMA PoppedIsFirst ==
  ASSUME NEW q \in Seq(Requests), q # <<>>
  PROVE  /\ Head(q) \in Requests /\ Tail(q) \in Seq(Requests)
         /\ <<Head(q)>> \o Tail(q) = q
<1>1. /\ Head(q) \in Requests /\ Tail(q) \in Seq(Requests) /\ Len(Tail(q)) = Len(q) - 1
      /\ \A i \in 1 .. Len(Tail(q)) : Tail(q)[i] = q[i + 1]
  BY HeadTailProperties
<1>2. <<Head(q)>> \in Seq(Requests) /\ Len(<<Head(q)>>) = 1 /\ <<Head(q)>>[1] = q[1]
  BY <1>1
<1>3. /\ <<Head(q)>> \o Tail(q) \in Seq(Requests)
      /\ Len(<<Head(q)>> \o Tail(q)) = Len(q)
      /\ \A i \in 1 .. Len(q) : (<<Head(q)>> \o Tail(q))[i]
                                 = IF i <= 1 THEN <<Head(q)>>[i] ELSE Tail(q)[i - 1]
  BY <1>1, <1>2, ConcatProperties
<1>4. ASSUME NEW i \in 1 .. Len(q) PROVE (<<Head(q)>> \o Tail(q))[i] = q[i]
  <2>1. CASE i = 1
    BY <1>2, <1>3, <2>1
  <2>2. CASE i # 1
    <3>1. i - 1 \in 1 .. Len(Tail(q)) /\ ~(i <= 1) /\ (i - 1) + 1 = i
      BY <1>1, <2>2
    <3> QED BY <1>1, <1>3, <3>1
  <2> QED BY <2>1, <2>2
<1> QED BY <1>1, <1>3, <1>4, SeqEqual

(* The owner of the core, case by case. *)
LEMMA OwnerFacts ==
  ASSUME TypeOK
  PROVE  /\ exclusive = Core => Owner = "request"
         /\ exclusive \in Threads => Owner = exclusive
         /\ exclusive = NoOne /\ suspended => Owner = "free"
         /\ exclusive = NoOne /\ ~suspended => Owner = Core
BY CoreAssumption, NoOneAssumption DEF TypeOK, Owner

(* The backlog: the queue, and before it the request that has been popped. *)
LEMMA BacklogFacts ==
  ASSUME TypeOK, Exclusion
  PROVE  /\ cpc # "popped" => Backlog = Names(queue)
         /\ cpc = "popped" => Backlog = Names(<<item>> \o queue)
         /\ Backlog = <<>> <=> cpc # "popped" /\ queue = <<>>
<1>1. /\ cpc # "popped" => Backlog = Names(queue)
      /\ cpc = "popped" => Backlog = Names(<<item>> \o queue)
  BY DEF Backlog, Names
<1>2. queue \in Seq(Requests) /\ (cpc = "popped" => item \in Requests)
  BY DEF TypeOK, Exclusion
<1> QED BY <1>1, <1>2, NamesType, NamesCons

(* A thread's own steps between taking and giving back exclusive_lock, and *)
(* the core's on its way to the queue, are stutters.                       *)
LEMMA AccessStutter ==
  ASSUME UNCHANGED <<exclusive, suspended, queue, cpc, item>>
  PROVE  UNCHANGED <<Owner, Backlog>>
BY DEF Owner, Backlog

(* The core starts as its own owner, with nothing to do. *)
THEOREM AccessInitially == Init => Access!AccessInit
<1> SUFFICES ASSUME Init PROVE Access!AccessInit
  OBVIOUS
<1>1. TypeOK /\ Exclusion
  BY InitIInv DEF IInv
<1> QED BY <1>1, OwnerFacts, BacklogFacts DEF Init, Access!AccessInit

(* A step of the locks, the counter and the condition variable is one step *)
(* of CoreAccess or hidden from it.                                        *)
THEOREM AccessStep == IInv /\ IInv' /\ [Next]_vars => [Access!AccessNext]_(Access!accessVars)
<1> SUFFICES ASSUME IInv, IInv', [Next]_vars
             PROVE  [Access!AccessNext]_(Access!accessVars)
  OBVIOUS
<1> USE DEF Access!AccessNext, Access!accessVars
<1>1. /\ TypeOK /\ Exclusion /\ Kept
      /\ TypeOK' /\ Exclusion' /\ Kept'
  BY DEF IInv
<1>2. /\ exclusive = Core => Owner = "request"
      /\ exclusive \in Threads => Owner = exclusive
      /\ exclusive = NoOne /\ suspended => Owner = "free"
      /\ exclusive = NoOne /\ ~suspended => Owner = Core
  BY <1>1, OwnerFacts
<1>3. /\ exclusive' = Core => Owner' = "request"
      /\ exclusive' \in Threads => Owner' = exclusive'
      /\ exclusive' = NoOne /\ suspended' => Owner' = "free"
      /\ exclusive' = NoOne /\ ~suspended' => Owner' = Core
  <2>1. TypeOK' => /\ exclusive' = Core => Owner' = "request"
                   /\ exclusive' \in Threads => Owner' = exclusive'
                   /\ exclusive' = NoOne /\ suspended' => Owner' = "free"
                   /\ exclusive' = NoOne /\ ~suspended' => Owner' = Core
    BY CoreAssumption, NoOneAssumption DEF TypeOK, Owner
  <2> QED BY <1>1, <2>1
<1>4. /\ cpc # "popped" => Backlog = Names(queue)
      /\ cpc = "popped" => Backlog = Names(<<item>> \o queue)
      /\ cpc' # "popped" => Backlog' = Names(queue')
      /\ cpc' = "popped" => Backlog' = Names(<<item'>> \o queue')
  BY DEF Backlog, Names
<1>5. /\ exclusive \in Threads \cup {Core, NoOne} /\ exclusive' \in Threads \cup {Core, NoOne}
      /\ queue \in Seq(Requests) /\ queue' \in Seq(Requests)
  BY <1>1 DEF TypeOK
<1>6. ASSUME UNCHANGED <<exclusive, suspended, queue>>, cpc # "popped", cpc' # "popped"
      PROVE  UNCHANGED <<Owner, Backlog>>
  BY <1>4, <1>6 DEF Owner
<1>7. ASSUME ~suspended PROVE exclusive = NoOne
  BY <1>1, <1>5, <1>7 DEF Exclusion, Kept, CoreRuns
<1>8. CASE CoreStep \/ Timeout
  <2>1. CASE Poll \/ FallAsleep \/ WakeUp \/ Timeout \/ StaySuspended
    <3>1. UNCHANGED <<exclusive, suspended, queue>> /\ cpc # "popped" /\ cpc' # "popped"
      BY <2>1 DEF Poll, FallAsleep, WakeUp, Timeout, StaySuspended, queueVars, coreVars
    <3> QED BY <1>6, <3>1
  <2>2. CASE Process
    <3>1. ~suspended
      BY <1>1, <2>2 DEF Process, Exclusion, CoreRuns
    <3>2. Owner = Core /\ Owner' = "free" /\ Backlog' = Backlog
      BY <1>2, <1>3, <1>4, <1>7, <2>2, <3>1 DEF Process
    <3> QED BY <3>2 DEF Access!Yield
  <2>3. CASE Pop
    <3>1. <<Head(queue)>> \o Tail(queue) = queue
      BY <1>5, <2>3, PoppedIsFirst DEF Pop
    <3>2. UNCHANGED <<Owner, Backlog>>
      BY <1>4, <2>3, <3>1 DEF Pop, Owner
    <3> QED BY <3>2
  <2>4. CASE Leave
    <3>1. suspended /\ exclusive = NoOne
      BY <1>1, <1>5, <2>4 DEF Leave, Exclusion, Kept, CoreRuns
    <3>2. Owner = "free" /\ Owner' = Core /\ Backlog = <<>> /\ Backlog' = Backlog
      BY <1>2, <1>3, <1>4, <1>5, <2>4, <3>1, NamesType DEF Leave
    <3> QED BY <3>2 DEF Access!Reclaim
  <2>5. CASE BeginRequest
    <3>1. suspended /\ item \in Requests
      BY <1>1, <2>5 DEF BeginRequest, Exclusion, CoreRuns
    <3>2. Owner = "free" /\ Owner' = "request"
      BY <1>2, <1>3, <2>5, <3>1 DEF BeginRequest
    <3>3. Backlog # <<>> /\ Backlog' = Tail(Backlog)
      BY <1>4, <1>5, <2>5, <3>1, NamesCons DEF BeginRequest, queueVars
    <3> QED BY <3>2, <3>3 DEF Access!Serve
  <2>6. CASE EndRequest
    <3>1. suspended /\ exclusive = Core
      BY <1>1, <2>6 DEF EndRequest, Exclusion, CoreRuns
    <3>2. Owner = "request" /\ Owner' = "free" /\ Backlog' = Backlog
      BY <1>2, <1>3, <1>4, <2>6, <3>1 DEF EndRequest, queueVars
    <3> QED BY <3>2 DEF Access!Served
  <2>7. CASE Finish
    <3>1. UNCHANGED <<exclusive, suspended, queue>> /\ cpc # "popped" /\ cpc' # "popped"
      BY <2>7 DEF Finish
    <3> QED BY <1>6, <3>1
  <2> QED BY <1>8, <2>1, <2>2, <2>3, <2>4, <2>5, <2>6, <2>7 DEF CoreStep
<1>9. ASSUME NEW t \in Threads, ThreadStep(t)
      PROVE  [Access!AccessNext]_(Access!accessVars)
  <2>1. CASE Acquire(t)
    <3>1. suspended
      BY <1>1, <2>1 DEF Acquire, Kept
    <3>2. Owner = "free" /\ Owner' = t /\ Backlog' = Backlog
      BY <1>2, <1>3, <1>4, <2>1, <3>1 DEF Acquire, queueVars, coreVars
    <3> QED BY <3>2 DEF Access!Enter
  <2>2. CASE Unlock(t)
    <3>1. suspended /\ exclusive = t
      BY <1>1, <2>2 DEF Unlock, Kept, Exclusion
    <3>2. Owner = t /\ Owner' = "free" /\ Backlog' = Backlog
      BY <1>2, <1>3, <1>4, <2>2, <3>1 DEF Unlock, queueVars, coreVars
    <3> QED BY <3>2 DEF Access!Exit
  <2>3. CASE AppendRequest(t)
    <3> DEFINE r == [by |-> t, sync |-> op[t] = "run"]
    <3>1. r \in Requests /\ r.by = t /\ queue' = Append(queue, r)
      BY <2>3 DEF AppendRequest, Requests
    <3>2. Owner' = Owner
      BY <2>3 DEF AppendRequest, Owner
    <3> HIDE DEF r
    <3>3. UNCHANGED <<cpc, item>>
      BY <2>3 DEF AppendRequest, coreVars
    <3>4. CASE cpc # "popped"
      <4>1. Backlog' = Append(Backlog, t)
        BY <1>4, <1>5, <3>1, <3>3, <3>4, NamesAppend
      <4> QED BY <3>2, <4>1 DEF Access!Post
    <3>5. CASE cpc = "popped"
      <4>1. item \in Requests
        BY <1>1, <3>5 DEF Exclusion
      <4>2. /\ <<item>> \o queue \in Seq(Requests)
            /\ <<item>> \o Append(queue, r) = Append(<<item>> \o queue, r)
        BY <1>5, <3>1, <4>1, ConsAppend
      <4>3. Backlog' = Append(Backlog, t)
        BY <1>4, <3>1, <3>3, <3>5, <4>2, NamesAppend
      <4> QED BY <3>2, <4>3 DEF Access!Post
    <3> QED BY <3>4, <3>5
  <2>4. CASE ~Acquire(t) /\ ~Unlock(t) /\ ~AppendRequest(t)
    <3>1. UNCHANGED <<exclusive, suspended, queue, cpc, item>>
      BY <1>9, <2>4 DEF ThreadStep, Suspend, Poke, Recheck, Woken, Resume, Wake,
         CheckCompleted, queueVars, coreVars
    <3> QED BY <3>1, AccessStutter
  <2> QED BY <2>1, <2>2, <2>3, <2>4
<1>10. CASE UNCHANGED vars \/ \E t \in Threads : UserCall(t)
  <2>1. UNCHANGED <<exclusive, suspended, queue, cpc, item>>
    BY <1>10 DEF vars, UserCall, Call, BeginSuspend, BeginResume, queueVars, coreVars
  <2> QED BY <2>1, AccessStutter
<1> QED BY <1>8, <1>9, <1>10 DEF Next

(* Every behaviour of the queue is one of the abstract owner and backlog:  *)
(* the core's state has one user at a time, and requests are served in     *)
(* the order they were posted.                                             *)
THEOREM DispatchImplementsAccess == Spec => ImplementsAccess
<1> QED BY AccessInitially, AccessStep, Invariance, PTL
        DEF Spec, ImplementsAccess, Access!AccessSpec
===============================================================================

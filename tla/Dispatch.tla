------------------------------- MODULE Dispatch -------------------------------
(***************************************************************************)
(* How the threads of a client reach the state of the player core:         *)
(* mpv/misc/dispatch.c, with its callers in mpv/player/client.c, the loop  *)
(* of the playback thread (mpv/player/playloop.c) and the semaphore that   *)
(* wakes it (mpv/input/input.c).                                           *)
(*                                                                         *)
(* A thread locks the core, runs a function in it and waits, posts one and *)
(* does not wait, or suspends the core for several calls.  Each section    *)
(* under queue->lock is one action; wakeup_fn is called under no lock, so  *)
(* it is an action of its own, as is everything under exclusive_lock.      *)
(***************************************************************************)
EXTENDS Naturals, Sequences, FiniteSets

CONSTANTS Threads,      \* threads that call the client API
          Handles,      \* mpv_handles; several threads may share one
          HandleOf,     \* the handle each thread uses
          Core,         \* the playback thread
          NoOne,        \* no holder of exclusive_lock
          MaxCalls      \* bound: calls a thread makes

ASSUME HandleOfAssumption == HandleOf \in [Threads -> Handles]
ASSUME CoreAssumption == Core \notin Threads
ASSUME NoOneAssumption == NoOne \notin Threads \cup {Core}
ASSUME MaxCallsAssumption == MaxCalls \in Nat

VARIABLES
  queue,                \* head .. tail: requests [by, sync], oldest first
  suspendRequested,     \* suspend_requested
  suspended,            \* the core is in mp_dispatch_queue_process
  exclusive,            \* the holder of exclusive_lock
  sleepers,             \* threads blocked on queue->cond
  posts,                \* the semaphore input_ctx.wakeup
  cpc,                  \* where the playback thread is
  item,                 \* the request it took off the queue
  tpc,                  \* where each thread is
  op,                   \* the call it is making
  completed,            \* item.completed of its mp_dispatch_run
  suspendCount,         \* suspend_count of each handle
  held,                 \* mpv_suspend calls a thread has returned from or is in
  calls                 \* calls it has made

queueVars == <<queue, suspendRequested, suspended, sleepers>>
coreVars == <<cpc, item>>
threadVars == <<tpc, op, completed>>
handleVars == <<suspendCount, held>>
vars == <<queueVars, exclusive, posts, coreVars, threadVars, handleVars, calls>>

Requests == [by : Threads, sync : BOOLEAN]
Ops == {"lock", "run", "async", "suspend", "none"}
ThreadStates == {"idle", "suspend", "poke", "recheck", "waiting", "acquire",
                 "inside", "resume", "append", "wake", "check"}
CoreStates == {"run", "asleep", "enter", "loop", "popped", "fn", "finish"}

TypeOK ==
  /\ queue \in Seq(Requests)
  /\ suspendRequested \in Nat
  /\ suspended \in BOOLEAN
  /\ exclusive \in Threads \cup {Core, NoOne}
  /\ sleepers \subseteq Threads \cup {Core}
  /\ posts \in Nat
  /\ cpc \in CoreStates
  /\ item \in Requests \cup {NoOne}
  /\ tpc \in [Threads -> ThreadStates]
  /\ op \in [Threads -> Ops]
  /\ completed \in [Threads -> BOOLEAN]
  /\ suspendCount \in [Handles -> Nat]
  /\ held \in [Threads -> Nat]
  /\ calls \in [Threads -> 0 .. MaxCalls]

Init ==
  /\ queue = <<>> /\ suspendRequested = 0 /\ suspended = FALSE
  /\ exclusive = NoOne /\ sleepers = {} /\ posts = 0
  /\ cpc = "run" /\ item = NoOne
  /\ tpc = [t \in Threads |-> "idle"]
  /\ op = [t \in Threads |-> "none"]
  /\ completed = [t \in Threads |-> FALSE]
  /\ suspendCount = [h \in Handles |-> 0]
  /\ held = [t \in Threads |-> 0]
  /\ calls = [t \in Threads |-> 0]

(* The call ends when its thread is idle again. *)
Goto(t, s) ==
  /\ tpc' = [tpc EXCEPT ![t] = s]
  /\ op' = [op EXCEPT ![t] = IF s = "idle" THEN "none" ELSE @]

(* mp_input_wakeup: sem_post. *)
Wakeup == posts' = posts + 1

(***************************************************************************)
(* The calls of the client API.                                            *)
(***************************************************************************)
Called(t) ==
  /\ tpc[t] = "idle" /\ calls[t] < MaxCalls
  /\ calls' = [calls EXCEPT ![t] = @ + 1]

(* lock_core, mp_dispatch_run, mp_dispatch_enqueue. *)
Call(t, o) ==
  /\ Called(t)
  /\ op' = [op EXCEPT ![t] = o]
  /\ tpc' = [tpc EXCEPT ![t] = IF o = "lock" THEN "suspend" ELSE "append"]
  /\ UNCHANGED <<queueVars, exclusive, posts, coreVars, completed, handleVars>>

(* Mutant of BeginSuspend: a nested mpv_suspend is not counted. *)
BeginSuspendOnce(t) ==
  LET h == HandleOf[t] IN
  /\ Called(t)
  /\ IF suspendCount[h] = 0
       THEN /\ op' = [op EXCEPT ![t] = "suspend"]
            /\ tpc' = [tpc EXCEPT ![t] = "suspend"]
            /\ suspendCount' = [suspendCount EXCEPT ![h] = 1]
       ELSE UNCHANGED <<op, tpc, suspendCount>>
  /\ held' = [held EXCEPT ![t] = @ + 1]
  /\ UNCHANGED <<queueVars, exclusive, posts, coreVars, completed>>

(* mpv_suspend: only the first of a handle suspends the queue, and it does *)
(* so after it has left the lock of the handle.                            *)
BeginSuspend(t) ==
  LET h == HandleOf[t] IN
  /\ Called(t)
  /\ IF suspendCount[h] = 0
       THEN /\ op' = [op EXCEPT ![t] = "suspend"]
            /\ tpc' = [tpc EXCEPT ![t] = "suspend"]
       ELSE UNCHANGED <<op, tpc>>
  /\ suspendCount' = [suspendCount EXCEPT ![h] = @ + 1]
  /\ held' = [held EXCEPT ![t] = @ + 1]
  /\ UNCHANGED <<queueVars, exclusive, posts, coreVars, completed>>

(* Mutant of BeginResume: every mpv_resume resumes the queue. *)
BeginResumeEachTime(t) ==
  /\ tpc[t] = "idle" /\ held[t] > 0
  /\ suspendCount' = [suspendCount EXCEPT ![HandleOf[t]] = @ - 1]
  /\ held' = [held EXCEPT ![t] = @ - 1]
  /\ Goto(t, "resume")
  /\ UNCHANGED <<queueVars, exclusive, posts, coreVars, completed, calls>>

(* mpv_resume: once for each mpv_suspend of the thread. *)
BeginResume(t) ==
  LET h == HandleOf[t] IN
  /\ tpc[t] = "idle" /\ held[t] > 0
  /\ suspendCount' = [suspendCount EXCEPT ![h] = @ - 1]
  /\ held' = [held EXCEPT ![t] = @ - 1]
  /\ Goto(t, IF suspendCount[h] = 1 THEN "resume" ELSE "idle")
  /\ UNCHANGED <<queueVars, exclusive, posts, coreVars, completed, calls>>

(***************************************************************************)
(* mp_dispatch_suspend and mp_dispatch_lock.                               *)
(***************************************************************************)
Granted(t) == IF op[t] = "lock" THEN "acquire" ELSE "idle"

Suspend(t) ==
  /\ tpc[t] = "suspend"
  /\ suspendRequested' = suspendRequested + 1
  /\ Goto(t, IF suspended THEN Granted(t) ELSE "poke")
  /\ UNCHANGED <<queue, suspended, sleepers, exclusive, posts, coreVars,
                 completed, handleVars, calls>>

Poke(t) ==
  /\ tpc[t] = "poke"
  /\ Wakeup
  /\ Goto(t, "recheck")
  /\ UNCHANGED <<queueVars, exclusive, coreVars, completed, handleVars, calls>>

(* Mutant of Recheck: wait without looking again. *)
RecheckBlind(t) ==
  /\ tpc[t] = "recheck"
  /\ Goto(t, "waiting") /\ sleepers' = sleepers \cup {t}
  /\ UNCHANGED <<queue, suspendRequested, suspended, exclusive, posts, coreVars,
                 completed, handleVars, calls>>

(* The state may have changed while the wakeup was sent: look again, and   *)
(* wait only if it has not.                                                *)
Recheck(t) ==
  /\ tpc[t] = "recheck"
  /\ IF suspended
       THEN Goto(t, Granted(t)) /\ UNCHANGED sleepers
       ELSE Goto(t, "waiting") /\ sleepers' = sleepers \cup {t}
  /\ UNCHANGED <<queue, suspendRequested, suspended, exclusive, posts, coreVars,
                 completed, handleVars, calls>>

(* pthread_cond_wait returned, maybe for a broadcast meant for another. *)
Woken(t) ==
  /\ tpc[t] = "waiting" /\ t \notin sleepers
  /\ Goto(t, IF suspended THEN Granted(t) ELSE "poke")
  /\ UNCHANGED <<queueVars, exclusive, posts, coreVars, completed, handleVars,
                 calls>>

Acquire(t) ==
  /\ tpc[t] = "acquire" /\ exclusive = NoOne
  /\ exclusive' = t
  /\ Goto(t, "inside")
  /\ UNCHANGED <<queueVars, posts, coreVars, completed, handleVars, calls>>

(* mp_dispatch_unlock: first exclusive_lock, then mp_dispatch_resume. *)
Unlock(t) ==
  /\ tpc[t] = "inside"
  /\ exclusive' = NoOne
  /\ Goto(t, "resume")
  /\ UNCHANGED <<queueVars, posts, coreVars, completed, handleVars, calls>>

(* Mutant of Resume: the core is not told that the last suspension ended. *)
ResumeQuietly(t) ==
  /\ tpc[t] = "resume"
  /\ suspendRequested' = suspendRequested - 1
  /\ Goto(t, "idle")
  /\ UNCHANGED <<queue, suspended, sleepers, exclusive, posts, coreVars, completed,
                 handleVars, calls>>

Resume(t) ==
  /\ tpc[t] = "resume"
  /\ suspendRequested' = suspendRequested - 1
  /\ sleepers' = IF suspendRequested = 1 THEN {} ELSE sleepers
  /\ Goto(t, "idle")
  /\ UNCHANGED <<queue, suspended, exclusive, posts, coreVars, completed,
                 handleVars, calls>>

(* Mutant of AppendRequest: the item becomes the head. *)
PrependRequest(t) ==
  /\ tpc[t] = "append"
  /\ queue' = <<[by |-> t, sync |-> op[t] = "run"]>> \o queue
  /\ sleepers' = {}
  /\ Goto(t, "wake")
  /\ UNCHANGED <<suspendRequested, suspended, exclusive, posts, coreVars, completed,
                 handleVars, calls>>

(***************************************************************************)
(* mp_dispatch_append, and the wait of mp_dispatch_run.                    *)
(***************************************************************************)
AppendRequest(t) ==
  /\ tpc[t] = "append"
  /\ queue' = Append(queue, [by |-> t, sync |-> op[t] = "run"])
  /\ sleepers' = {}
  /\ Goto(t, "wake")
  /\ UNCHANGED <<suspendRequested, suspended, exclusive, posts, coreVars,
                 completed, handleVars, calls>>

Wake(t) ==
  /\ tpc[t] = "wake"
  /\ Wakeup
  /\ Goto(t, IF op[t] = "run" THEN "check" ELSE "idle")
  /\ UNCHANGED <<queueVars, exclusive, coreVars, completed, handleVars, calls>>

CheckCompleted(t) ==
  /\ tpc[t] = "check" /\ t \notin sleepers
  /\ IF completed[t]
       THEN Goto(t, "idle") /\ completed' = [completed EXCEPT ![t] = FALSE]
                            /\ UNCHANGED sleepers
       ELSE sleepers' = sleepers \cup {t} /\ UNCHANGED <<tpc, op, completed>>
  /\ UNCHANGED <<queue, suspendRequested, suspended, exclusive, posts, coreVars,
                 handleVars, calls>>

(***************************************************************************)
(* The playback thread: mp_wait_events, then mp_process_input.             *)
(***************************************************************************)
(* sem_trywait until the semaphore is zero; no sleep if it was not, or if  *)
(* the loop asked for none.                                                *)
Poll ==
  /\ cpc = "run"
  /\ posts' = 0 /\ cpc' = "enter"
  /\ UNCHANGED <<queueVars, exclusive, item, threadVars, handleVars, calls>>

FallAsleep ==
  /\ cpc = "run" /\ posts = 0
  /\ cpc' = "asleep"
  /\ UNCHANGED <<queueVars, exclusive, posts, item, threadVars, handleVars, calls>>

WakeUp ==
  /\ cpc = "asleep" /\ posts > 0
  /\ posts' = posts - 1 /\ cpc' = "enter"
  /\ UNCHANGED <<queueVars, exclusive, item, threadVars, handleVars, calls>>

(* sem_timedwait runs out: the time is far away, so no fairness. *)
Timeout ==
  /\ cpc = "asleep" /\ posts = 0
  /\ cpc' = "enter"
  /\ UNCHANGED <<queueVars, exclusive, posts, item, threadVars, handleVars, calls>>

(* mp_dispatch_queue_process(queue, 0), up to its loop; mp_process_input   *)
(* calls it again, without mp_wait_events, after each command it reads.    *)
Process ==
  /\ cpc \in {"run", "enter"}
  /\ suspended' = TRUE /\ sleepers' = {} /\ cpc' = "loop"
  /\ UNCHANGED <<queue, suspendRequested, exclusive, posts, item, threadVars,
                 handleVars, calls>>

Pop ==
  /\ cpc = "loop" /\ Core \notin sleepers /\ queue # <<>>
  /\ item' = Head(queue) /\ queue' = Tail(queue) /\ cpc' = "popped"
  /\ UNCHANGED <<suspendRequested, suspended, sleepers, exclusive, posts,
                 threadVars, handleVars, calls>>

StaySuspended ==
  /\ cpc = "loop" /\ Core \notin sleepers /\ queue = <<>> /\ suspendRequested > 0
  /\ sleepers' = sleepers \cup {Core}
  /\ UNCHANGED <<queue, suspendRequested, suspended, exclusive, posts, coreVars,
                 threadVars, handleVars, calls>>

(* Mutant of Leave: the loop looks at the queue only. *)
LeaveSuspended ==
  /\ cpc = "loop" /\ Core \notin sleepers /\ queue = <<>>
  /\ suspended' = FALSE /\ cpc' = "run"
  /\ UNCHANGED <<queue, suspendRequested, sleepers, exclusive, posts, item,
                 threadVars, handleVars, calls>>

Leave ==
  /\ cpc = "loop" /\ Core \notin sleepers /\ queue = <<>> /\ suspendRequested = 0
  /\ suspended' = FALSE /\ cpc' = "run"
  /\ UNCHANGED <<queue, suspendRequested, sleepers, exclusive, posts, item,
                 threadVars, handleVars, calls>>

(* Mutant of BeginRequest: the request runs without exclusive_lock. *)
BeginRequestUnlocked ==
  /\ cpc = "popped"
  /\ exclusive' = Core /\ cpc' = "fn"
  /\ UNCHANGED <<queueVars, posts, item, threadVars, handleVars, calls>>

(* item->fn(item->fn_data) under exclusive_lock. *)
BeginRequest ==
  /\ cpc = "popped" /\ exclusive = NoOne
  /\ exclusive' = Core /\ cpc' = "fn"
  /\ UNCHANGED <<queueVars, posts, item, threadVars, handleVars, calls>>

EndRequest ==
  /\ cpc = "fn"
  /\ exclusive' = NoOne /\ cpc' = "finish"
  /\ UNCHANGED <<queueVars, posts, item, threadVars, handleVars, calls>>

Finish ==
  /\ cpc = "finish"
  /\ IF item.sync
       THEN completed' = [completed EXCEPT ![item.by] = TRUE] /\ sleepers' = {}
       ELSE UNCHANGED <<completed, sleepers>>
  /\ item' = NoOne /\ cpc' = "loop"
  /\ UNCHANGED <<queue, suspendRequested, suspended, exclusive, posts, tpc, op,
                 handleVars, calls>>

CoreStep ==
  \/ Poll \/ FallAsleep \/ WakeUp \/ Process \/ Pop \/ StaySuspended \/ Leave
  \/ BeginRequest \/ EndRequest \/ Finish

ThreadStep(t) ==
  \/ Suspend(t) \/ Poke(t) \/ Recheck(t) \/ Woken(t) \/ Acquire(t) \/ Unlock(t)
  \/ Resume(t) \/ AppendRequest(t) \/ Wake(t) \/ CheckCompleted(t)

UserCall(t) ==
  \/ \E o \in {"lock", "run", "async"} : Call(t, o)
  \/ BeginSuspend(t) \/ BeginResume(t)

Next == CoreStep \/ Timeout \/ \E t \in Threads : ThreadStep(t) \/ UserCall(t)

Spec == Init /\ [][Next]_vars

(***************************************************************************)
(* Each thread that can go on does.  Nobody must call, nobody must resume  *)
(* what it suspended, and no timeout must expire.  The calls are bounded,  *)
(* so no one is kept from exclusive_lock for ever by newcomers.            *)
(***************************************************************************)
Fairness == WF_vars(CoreStep) /\ \A t \in Threads : WF_vars(ThreadStep(t))

FairSpec == Spec /\ Fairness

(***************************************************************************)
(* Safety.                                                                 *)
(***************************************************************************)
CoreRuns == cpc \in {"run", "asleep", "enter"}

(* The state of the core has one user at a time: the playback thread in    *)
(* its own code, a request, or one thread between lock_core and            *)
(* unlock_core.                                                            *)
OneUser ==
  /\ \A t \in Threads : tpc[t] = "inside" => ~CoreRuns /\ cpc # "fn"
  /\ \A t, u \in Threads : tpc[t] = "inside" /\ tpc[u] = "inside" => t = u

(* The assertions of mp_dispatch_resume hold, whichever threads suspended  *)
(* the core and in whatever order they resume it.                          *)
ResumeIsLegal ==
  \A t \in Threads : tpc[t] = "resume" => suspended /\ suspendRequested > 0

Suspending(h) == \E t \in Threads : HandleOf[t] = h /\ op[t] = "suspend"

(* client.h:481-489: mpv_suspend stops the playback thread, and it stays   *)
(* stopped until the last thread resumes it, through every order of nested *)
(* calls of several threads.  Only while another thread of the same handle *)
(* is still in its own mpv_suspend may the core run on: the second call    *)
(* finds the count above zero and returns at once.                         *)
SuspendStopsCore ==
  \A t \in Threads :
    tpc[t] = "idle" /\ held[t] > 0 /\ ~Suspending(HandleOf[t]) => ~CoreRuns

(***************************************************************************)
(* Liveness.                                                               *)
(***************************************************************************)
(* Every call returns: no wakeup of the core or of a waiting thread is     *)
(* lost, even if every other thread suspends the core for ever.            *)
CallsReturn == \A t \in Threads : tpc[t] # "idle" ~> tpc[t] = "idle"

(* Once nobody suspends the core and nobody calls, it plays on. *)
CoreGoesOn ==
  (\A t \in Threads : tpc[t] = "idle" /\ held[t] = 0)
    ~> (CoreRuns \/ \E t \in Threads : tpc[t] # "idle" \/ held[t] > 0)

(***************************************************************************)
(* Refinement.                                                             *)
(***************************************************************************)
Owner ==
  CASE exclusive = Core -> "request"
    [] exclusive \in Threads -> exclusive
    [] exclusive = NoOne /\ suspended -> "free"
    [] OTHER -> Core

Backlog ==
  LET waiting == IF cpc = "popped" THEN <<item>> \o queue ELSE queue
  IN  [i \in 1 .. Len(waiting) |-> waiting[i].by]

Access == INSTANCE CoreAccess WITH
            Request <- "request", Free <- "free", owner <- Owner, backlog <- Backlog

(* The mutexes, the counter and the condition variable implement an owner  *)
(* and a queue: requests run one at a time, in the order they were posted, *)
(* never beside a thread that holds the lock or beside the core itself.    *)
ImplementsAccess == Access!AccessSpec
===============================================================================

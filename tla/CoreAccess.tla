------------------------------ MODULE CoreAccess ------------------------------
(***************************************************************************)
(* What the dispatch queue of libmpv promises, without mutexes, condition  *)
(* variables or wakeups: the state of the player core belongs to one owner *)
(* at a time.  The core owns it while it plays; it yields it, and then any *)
(* thread may enter, or the oldest posted request may be served, until the *)
(* core takes its state back, which it does with no request left behind.   *)
(***************************************************************************)
EXTENDS Sequences, FiniteSets

CONSTANTS Threads,      \* threads that call the client API
          Core,         \* the playback thread, running its own code
          Request,      \* the playback thread, running a posted request
          Free          \* nobody: the playback thread waits in the queue

VARIABLES owner,        \* who may read and write the state of the core
          backlog       \* posted requests not begun yet, oldest first

accessVars == <<owner, backlog>>

Owners == Threads \cup {Core, Request, Free}

AccessTypeOK == owner \in Owners /\ backlog \in Seq(Threads)

AccessInit == owner = Core /\ backlog = <<>>

Yield == owner = Core /\ owner' = Free /\ UNCHANGED backlog

Reclaim == owner = Free /\ backlog = <<>> /\ owner' = Core /\ UNCHANGED backlog

Enter(t) == owner = Free /\ owner' = t /\ UNCHANGED backlog

Exit(t) == owner = t /\ owner' = Free /\ UNCHANGED backlog

Post(t) == backlog' = Append(backlog, t) /\ UNCHANGED owner

Serve ==
  /\ owner = Free /\ backlog # <<>>
  /\ owner' = Request /\ backlog' = Tail(backlog)

Served == owner = Request /\ owner' = Free /\ UNCHANGED backlog

AccessNext ==
  \/ Yield \/ Reclaim \/ Serve \/ Served
  \/ \E t \in Threads : Enter(t) \/ Exit(t) \/ Post(t)

AccessSpec == AccessInit /\ [][AccessNext]_accessVars
===============================================================================

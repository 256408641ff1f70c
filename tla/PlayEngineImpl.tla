--------------------------- MODULE PlayEngineImpl ---------------------------
(***************************************************************************)
(* PlayEngine implements Player: the three threads, the hooks and the two  *)
(* queues together look like one player that reports in order.  A report   *)
(* on its way is either in the queue of the GUI thread or, as the event it *)
(* will be made of, still in the queue of the client thread.               *)
(***************************************************************************)
EXTENDS PlayEngine

Seqs == INSTANCE SequencesExt

\* What an event tells the rest of bomi; the events of the kinds running all say
\* that a file is being played.
Said(e, running) ==
    IF e.ev = "end"
    THEN <<[ev |-> "end", reason |-> IF e.reason = "quit" THEN "stop" ELSE e.reason]>>
    ELSE IF e.ev \in running THEN <<[ev |-> "running"]>> ELSE <<>>

Reported(q, running) == Seqs!FlattenSeq([i \in 1 .. Len(q) |-> Said(q[i], running)])

\* In gq StartPlayback only repeats what the state event before it has said.
Handled == Reported(gq, {"state"})
Coming  == Reported(mq, {"start", "loaded"})

Posted  == Handled \o Coming

MrlOf(entry) == IF entry = Null THEN NoMrl ELSE entry.mrl
Playing  == MrlOf(cur)
Pending  == MrlOf(next)
Phase    == CASE cpc \in {"idle", "off"}  -> "idle"
              [] cpc \in {"load", "open"} -> "opening"
              [] cpc = "play"             -> "playing"
              [] cpc = "unload"           -> "ending"
Stopping == cur # Null /\ why \in {"stop", "quit"}
Quitting == gpc \notin {"run", "reload"}

P == INSTANCE Player WITH
    running <- state = "running", playing <- Playing, phase <- Phase,
    stopping <- Stopping, pending <- Pending, posted <- Posted, quitting <- Quitting

\* Whatever the threads do, the rest of bomi sees the behaviour of Player.
ImplementsPlayer == P!PlayerSpec
=============================================================================

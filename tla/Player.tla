------------------------------- MODULE Player -------------------------------
(***************************************************************************)
(* What PlayEngine promises to the rest of bomi, without the threads that  *)
(* keep the promise.  A load replaces the file being played; a file that   *)
(* is opened is reported as running and one that ends is reported with the *)
(* reason it has ended for; reports are handled in order, some time later. *)
(* PlayEngine implements this specification (PlayEngineImpl), and Playlist *)
(* is built on it.                                                         *)
(***************************************************************************)
EXTENDS Sequences

CONSTANTS Mrls, NoMrl

VARIABLES
    mrl,       \* PlayEngine::mrl(), what the user sees as the current medium
    running,   \* PlayEngine::isRunning()
    playing,   \* the file that libmpv plays
    phase,     \* how far it has come
    stopping,  \* it has been told to end
    pending,   \* the file to play next
    posted,    \* reports on their way to the GUI thread
    quitting

player == <<mrl, running, playing, phase, stopping, pending, posted, quitting>>

AnyMrl  == Mrls \cup {NoMrl}
Running == [ev |-> "running"]
Over(reason) == [ev |-> "end", reason |-> reason]
Reports == {Running} \cup {Over(r) : r \in {"eof", "error", "stop"}}

PlayerTypeOK ==
    /\ mrl \in AnyMrl /\ playing \in AnyMrl /\ pending \in AnyMrl
    /\ running \in BOOLEAN /\ stopping \in BOOLEAN /\ quitting \in BOOLEAN
    /\ phase \in {"idle", "opening", "playing", "ending"}
    /\ posted \in Seq(Reports)

PlayerInit ==
    /\ mrl = NoMrl /\ playing = NoMrl /\ pending = NoMrl
    /\ running = FALSE /\ phase = "idle" /\ stopping = FALSE /\ posted = <<>>
    /\ quitting = FALSE

-----------------------------------------------------------------------------
(* libmpv, with the client thread that reports for it.                       *)

Start ==
    /\ phase = "idle" /\ pending # NoMrl /\ ~quitting
    /\ phase' = "opening" /\ playing' = pending /\ pending' = NoMrl
    /\ posted' = Append(posted, Running)
    /\ UNCHANGED <<mrl, running, stopping, quitting>>

Opened ==
    /\ phase = "opening" /\ phase' = "playing"
    /\ posted' = Append(posted, Running)
    /\ UNCHANGED <<mrl, running, playing, stopping, pending, quitting>>

Finish ==
    /\ phase \in {"opening", "playing"} /\ phase' = "ending"
    /\ UNCHANGED <<mrl, running, playing, stopping, pending, posted, quitting>>

\* A file that was told to end before its end was reported has been stopped.
Ended ==
    /\ phase = "ending" /\ phase' = "idle"
    /\ \E r \in IF stopping THEN {"stop"} ELSE {"eof", "error"} :
          posted' = Append(posted, Over(r))
    /\ playing' = NoMrl /\ stopping' = FALSE
    /\ UNCHANGED <<mrl, running, pending, quitting>>

Core == Start \/ Opened \/ Finish \/ Ended

-----------------------------------------------------------------------------
(* The GUI thread.  The commands are operators without a frame for what the   *)
(* caller does besides.                                                      *)

\* loadfile m replace, and stop
Replace(m) ==
    /\ pending' = m /\ stopping' = (phase # "idle")
    /\ UNCHANGED <<playing, phase, quitting>>

\* PlayEngine::load and PlayEngine::setMrl
PlayMrl(m)   == mrl' = m /\ Replace(m)
ChooseMrl(m) == mrl' = m /\ IF m = mrl THEN UNCHANGED <<playing, phase, stopping, pending, quitting>>
                                       ELSE Replace(NoMrl)

Asked == ~quitting /\ UNCHANGED <<running, posted>>

Load(m) == Asked /\ PlayMrl(m)
SetMrl(m) == Asked /\ ChooseMrl(m)
Reload == Asked /\ mrl # NoMrl /\ PlayMrl(mrl)
Stop == Asked /\ Replace(NoMrl) /\ UNCHANGED mrl

Quit ==
    /\ ~quitting /\ quitting' = TRUE
    /\ stopping' = (phase # "idle")
    /\ UNCHANGED <<mrl, running, playing, phase, pending, posted>>

\* The next report is handled.
Told(r) ==
    /\ posted # <<>> /\ Head(posted) = r /\ posted' = Tail(posted)
    /\ running' = (r = Running)

Handle ==
    /\ \E r \in Reports : Told(r)
    /\ UNCHANGED <<mrl, playing, phase, stopping, pending, quitting>>

PlayerNext ==
    \/ Core \/ Handle \/ Reload \/ Stop \/ Quit
    \/ \E m \in Mrls : Load(m) \/ SetMrl(m)

PlayerSpec == PlayerInit /\ [][PlayerNext]_player
=============================================================================

----------------------------- MODULE VideoOutput -----------------------------
(***************************************************************************)
(* Video frames on their way from mpv to the window of bomi                *)
(* (mpv/video/out/vo_opengl_cb.c).  Four threads meet: the playback thread *)
(* creates and destroys video outputs; the thread of a video output draws  *)
(* and flips frames into a small queue; the thread of the host's OpenGL    *)
(* context takes them out whenever it repaints; and that thread tears the  *)
(* context down.  Each section under ctx->lock is one action; the frame is *)
(* rendered without the lock, in the host's thread alone.                  *)
(***************************************************************************)
EXTENDS Integers, Sequences, FiniteSets

CONSTANTS Options,      \* sub-options of the output: queue size, drop mode, interpolation
          MaxVos,       \* bound: video outputs created
          MaxFrames,    \* bound: frames drawn
          MaxConfigs,   \* bound: calls of reconfig
          MaxSettings   \* bound: sub-options set at run time

OptionSet == [size : Nat \ {0}, drop : {"pop", "clear", "block"}, timed : BOOLEAN]

ASSUME OptionsAssumption == Options # {} /\ Options \subseteq OptionSet
ASSUME BoundsAssumption == {MaxVos, MaxFrames, MaxConfigs, MaxSettings} \subseteq Nat

None == 0               \* no video output, frame or configuration
NoOptions == [size |-> 0, drop |-> "clear", timed |-> FALSE]
Vos == 1 .. MaxVos

VARIABLES
  initialized,          \* ctx->initialized
  active,               \* ctx->active
  waitingFrame,         \* ctx->waiting_frame
  frameQueue,           \* ctx->frame_queue
  config,               \* ctx->img_params, None for none
  reconfigured,         \* ctx->reconfigured
  newOpts,              \* ctx->new_opts
  updateNewOpts,        \* ctx->update_new_opts
  vsyncTimed,           \* ctx->vsync_timed
  updated,              \* update_cb was called since the host last drew
  vo,                   \* the video output that exists, None for none
  voOpts,               \* its own options, p->frame_queue_size and so on
  vpc,                  \* its thread: idle, drawn, blocked or terminate
  hpc,                  \* the host: idle, rendering, kill, killing or gone
  drawVo,               \* the local vo of mpv_opengl_cb_draw
  rendererConfig,       \* the configuration of the renderer
  shown,                \* the frame rendered last
  vos, frames, configs, settings        \* counters of the bounds

ctxVars == <<initialized, active, waitingFrame, frameQueue, config, reconfigured,
             newOpts, updateNewOpts, vsyncTimed, updated>>
voVars == <<vo, voOpts, vpc>>
hostVars == <<hpc, drawVo, rendererConfig, shown>>
boundVars == <<vos, frames, configs, settings>>
vars == <<ctxVars, voVars, hostVars, boundVars>>

Frame == [n : 1 .. MaxFrames, config : 1 .. MaxConfigs]
NoFrame == [n |-> 0, config |-> None]
Frames == Frame \cup {NoFrame}

TypeOK ==
  /\ initialized \in BOOLEAN
  /\ active \in Vos \cup {None}
  /\ waitingFrame \in Frames
  /\ frameQueue \in Seq(Frames)
  /\ config \in 0 .. MaxConfigs
  /\ {reconfigured, updateNewOpts, vsyncTimed, updated} \subseteq BOOLEAN
  /\ {newOpts, voOpts} \subseteq Options \cup {NoOptions}
  /\ vo \in Vos \cup {None} /\ (vo = None <=> voOpts = NoOptions)
  /\ vpc \in {"idle", "drawn", "blocked", "terminate"}
  /\ hpc \in {"idle", "rendering", "kill", "killing", "gone"}
  /\ drawVo \in Vos \cup {None}
  /\ rendererConfig \in 0 .. MaxConfigs
  /\ shown \in Frames
  /\ vos \in 0 .. MaxVos /\ frames \in 0 .. MaxFrames
  /\ configs \in 0 .. MaxConfigs /\ settings \in 0 .. MaxSettings

(* mpv_opengl_cb_init_gl was called; nothing plays. *)
Init ==
  /\ initialized = TRUE /\ active = None
  /\ waitingFrame = NoFrame /\ frameQueue = <<>>
  /\ config = None /\ reconfigured = FALSE
  /\ newOpts = NoOptions /\ updateNewOpts = FALSE /\ vsyncTimed = FALSE
  /\ updated = FALSE
  /\ vo = None /\ voOpts = NoOptions /\ vpc = "idle"
  /\ hpc = "idle" /\ drawVo = None /\ rendererConfig = None /\ shown = NoFrame
  /\ vos = 0 /\ frames = 0 /\ configs = 0 /\ settings = 0

ForgetFrames == frameQueue' = <<>> /\ waitingFrame' = NoFrame

(***************************************************************************)
(* The playback thread.  It waits while the host holds the core.           *)
(***************************************************************************)
CoreFree == hpc # "killing" /\ vpc # "terminate"

(* Mutant: an output is made for a context that is torn down. *)
CreateVoAnyway(o) ==
  /\ CoreFree /\ vo = None
  /\ vos < MaxVos /\ vos' = vos + 1
  /\ vo' = vos' /\ voOpts' = o /\ active' = vo'
  /\ reconfigured' = TRUE /\ updateNewOpts' = TRUE
  /\ UNCHANGED <<initialized, waitingFrame, frameQueue, config, newOpts, vsyncTimed,
                 updated, vpc, hostVars, frames, configs, settings>>

(* vo_create up to preinit, which refuses a context that is torn down. *)
CreateVo(o) ==
  /\ CoreFree /\ vo = None
  /\ IF initialized
       THEN /\ vos < MaxVos /\ vos' = vos + 1
            /\ vo' = vos' /\ voOpts' = o /\ active' = vo'
            /\ reconfigured' = TRUE /\ updateNewOpts' = TRUE
       ELSE UNCHANGED <<vos, vo, voOpts, active, reconfigured, updateNewOpts>>
  /\ UNCHANGED <<initialized, waitingFrame, frameQueue, config, newOpts, vsyncTimed,
                 updated, vpc, hostVars, frames, configs, settings>>

(* vo_destroy: the thread ends after the frame it is at; uninit is its last *)
(* step and the memory is freed when it is joined.                          *)
DestroyVo ==
  /\ CoreFree /\ vo # None /\ vpc = "idle"
  /\ vpc' = "terminate"
  /\ UNCHANGED <<ctxVars, vo, voOpts, hostVars, boundVars>>

(***************************************************************************)
(* The thread of the video output.                                         *)
(***************************************************************************)
Uninit ==
  /\ vpc = "terminate"
  /\ ForgetFrames
  /\ config' = None /\ reconfigured' = TRUE /\ active' = None /\ updated' = TRUE
  /\ vo' = None /\ voOpts' = NoOptions /\ vpc' = "idle"
  /\ UNCHANGED <<initialized, newOpts, updateNewOpts, vsyncTimed, hostVars, boundVars>>

(* Mutant: the frames of the old format stay in the queue. *)
ReconfigKeepsFrames ==
  /\ CoreFree /\ vo # None /\ vpc = "idle" /\ configs < MaxConfigs
  /\ configs' = configs + 1 /\ config' = configs'
  /\ reconfigured' = TRUE
  /\ UNCHANGED <<initialized, active, waitingFrame, frameQueue, newOpts, updateNewOpts,
                 vsyncTimed, updated, voVars, hostVars, vos, frames, settings>>

Reconfig ==
  /\ CoreFree /\ vo # None /\ vpc = "idle" /\ configs < MaxConfigs
  /\ configs' = configs + 1 /\ config' = configs'
  /\ ForgetFrames
  /\ reconfigured' = TRUE
  /\ UNCHANGED <<initialized, active, newOpts, updateNewOpts, vsyncTimed, updated,
                 voVars, hostVars, vos, frames, settings>>

(* reparse_cmdline, for vo_cmdline: bomi sends the options as they are now. *)
SetOptions(o) ==
  /\ CoreFree /\ vo # None /\ vpc = "idle" /\ settings < MaxSettings
  /\ settings' = settings + 1
  /\ newOpts' = o /\ updateNewOpts' = TRUE /\ updated' = TRUE
  /\ UNCHANGED <<initialized, active, waitingFrame, frameQueue, config, reconfigured,
                 vsyncTimed, voVars, hostVars, vos, frames, configs>>

(* Mutant: a frame is drawn before the first reconfig. *)
DrawImageUnconfigured ==
  /\ vo # None /\ vpc = "idle" /\ frames < MaxFrames
  /\ frames' = frames + 1
  /\ waitingFrame' = [n |-> frames', config |-> config]
  /\ vpc' = "drawn"
  /\ UNCHANGED <<initialized, active, frameQueue, config, reconfigured, newOpts,
                 updateNewOpts, vsyncTimed, updated, vo, voOpts, hostVars, vos, configs,
                 settings>>

(* draw_image, which the core calls for a configured output only, and with *)
(* a frame: the output does not draw of its own (in->vsync_timed in vo.c),  *)
(* as the host leaves that off whatever the interpolation (line 349).      *)
DrawImage ==
  /\ vo # None /\ vpc = "idle" /\ config # None /\ frames < MaxFrames
  /\ frames' = frames + 1
  /\ waitingFrame' = [n |-> frames', config |-> config]
  /\ vpc' = "drawn"
  /\ UNCHANGED <<initialized, active, frameQueue, config, reconfigured, newOpts,
                 updateNewOpts, vsyncTimed, updated, vo, voOpts, hostVars, vos, configs,
                 settings>>

(* do_redraw, up to its flip_page, when the core has asked for a redraw of *)
(* the OSD, as it may of a configured output: the host is told             *)
(* (VOCTRL_REDRAW_FRAME) and no frame is drawn, so that the flip has none. *)
RedrawFrame ==
  /\ vo # None /\ vpc = "idle" /\ config # None
  /\ vpc' = "drawn" /\ updated' = TRUE
  /\ UNCHANGED <<initialized, active, waitingFrame, frameQueue, config, reconfigured,
                 newOpts, updateNewOpts, vsyncTimed, vo, voOpts, hostVars, boundVars>>

(* Mutant: the frame is put before those that wait. *)
PushFirst(queue) ==
  /\ frameQueue' = <<waitingFrame>> \o queue
  /\ waitingFrame' = NoFrame /\ updated' = TRUE /\ vpc' = "idle"
  /\ UNCHANGED <<initialized, active, config, reconfigured, newOpts, updateNewOpts,
                 vsyncTimed, vo, voOpts, hostVars, boundVars>>

(* frame_queue_push and update; a redraw has no frame, and one drawn may   *)
(* have been forgotten since: then NoFrame takes a place in the queue.     *)
Push(queue) ==
  /\ frameQueue' = Append(queue, waitingFrame)
  /\ waitingFrame' = NoFrame /\ updated' = TRUE /\ vpc' = "idle"
  /\ UNCHANGED <<initialized, active, config, reconfigured, newOpts, updateNewOpts,
                 vsyncTimed, vo, voOpts, hostVars, boundVars>>

QueueFull == Len(frameQueue) >= voOpts.size

(* frame_queue_shrink *)
Newest(queue, size) ==
  IF Len(queue) <= size THEN queue ELSE SubSeq(queue, Len(queue) - size + 1, Len(queue))

(* Mutant: the queue is shrunk to its size, so that the loop makes no room. *)
FlipPageKeepsAll ==
  /\ vpc = "drawn"
  /\ CASE ~QueueFull -> Push(frameQueue)
       [] QueueFull /\ voOpts.drop = "clear" -> Push(<<>>)
       [] QueueFull /\ voOpts.drop = "pop" -> UNCHANGED vars
       [] OTHER -> vpc' = "blocked" /\ UNCHANGED <<ctxVars, vo, voOpts, hostVars, boundVars>>

(* flip_page, in a full queue as the drop mode says. *)
FlipPage ==
  /\ vpc = "drawn"
  /\ CASE ~QueueFull -> Push(frameQueue)
       [] QueueFull /\ voOpts.drop = "clear" -> Push(<<>>)
       [] QueueFull /\ voOpts.drop = "pop" -> Push(Newest(frameQueue, voOpts.size - 1))
       [] OTHER -> vpc' = "blocked" /\ UNCHANGED <<ctxVars, vo, voOpts, hostVars, boundVars>>

(* ctx->wakeup was broadcast: there is room. *)
FlipAfterWakeup == vpc = "blocked" /\ ~QueueFull /\ Push(frameQueue)

(* Mutant: the wait is only started again. *)
FlipAfterTimeoutAgain == vpc = "blocked" /\ QueueFull /\ UNCHANGED vars

(* The wait of 0.2 seconds ran out: all frames are dropped, though one may *)
(* have been taken before the thread has the lock again.                   *)
FlipAfterTimeout == vpc = "blocked" /\ Push(<<>>)

(***************************************************************************)
(* The host: Mpv::render, Mpv::finalizeGL.                                 *)
(***************************************************************************)
(* The options the host applies: those set at run time go before those of  *)
(* the video output, whichever is newer.                                   *)
DrawOptions ==
  IF newOpts # NoOptions THEN newOpts ELSE IF active # None THEN voOpts ELSE NoOptions

Applies == updateNewOpts /\ DrawOptions # NoOptions

(* Options set at run time that no draw has applied yet are applied through *)
(* the active output (line 349), and there may be none by now: the process  *)
(* ends.                                                                    *)
AppliesThroughNone == Applies /\ active = None

(* mpv_opengl_cb_draw: its first section under the lock, and the rendering *)
(* of the frame it took.  Windows repaint for reasons of their own too.    *)
DrawBegin ==
  LET queue == IF Applies THEN Newest(frameQueue, DrawOptions.size) ELSE frameQueue IN
  /\ hpc = "idle" /\ ~AppliesThroughNone
  /\ hpc' = "rendering" /\ drawVo' = active
  /\ updated' = FALSE
  /\ rendererConfig' = IF reconfigured THEN config ELSE rendererConfig
  /\ reconfigured' = FALSE
  /\ vsyncTimed' = IF Applies THEN DrawOptions.timed ELSE vsyncTimed
  /\ updateNewOpts' = FALSE
  /\ IF queue = <<>> THEN frameQueue' = queue /\ UNCHANGED shown
     ELSE /\ frameQueue' = Tail(queue)
          /\ shown' = IF Head(queue) = NoFrame THEN shown ELSE Head(queue)
  /\ UNCHANGED <<initialized, active, waitingFrame, config, newOpts, voVars, boundVars>>

UsesDrawVo == drawVo # None /\ (frameQueue # <<>> \/ vsyncTimed)

(* Mutant: nobody is told that frames are left. *)
DrawEndQuietly ==
  /\ hpc = "rendering"
  /\ hpc' = "idle" /\ drawVo' = None
  /\ UNCHANGED <<ctxVars, voVars, rendererConfig, shown, boundVars>>

(* Its second section: more to draw, through the vo of the first section. *)
DrawEnd ==
  /\ hpc = "rendering"
  /\ hpc' = "idle" /\ drawVo' = None
  /\ updated' = (updated \/ UsesDrawVo)
  /\ UNCHANGED <<initialized, active, waitingFrame, frameQueue, config, reconfigured,
                 newOpts, updateNewOpts, vsyncTimed, voVars, rendererConfig, shown,
                 boundVars>>

(* mpv_opengl_cb_uninit_gl: no new video output, then kill_video. *)
UninitBegin ==
  /\ hpc = "idle"
  /\ hpc' = "kill"
  /\ ForgetFrames /\ initialized' = FALSE
  /\ UNCHANGED <<active, config, reconfigured, newOpts, updateNewOpts, vsyncTimed, updated,
                 voVars, drawVo, rendererConfig, shown, boundVars>>

(* kill_video has locked the core, and destroys the video output. *)
KillVideo ==
  /\ hpc = "kill" /\ vpc # "terminate"
  /\ hpc' = "killing"
  /\ UNCHANGED <<ctxVars, voVars, drawVo, rendererConfig, shown, boundVars>>

KillVo ==
  /\ hpc = "killing" /\ vo # None /\ vpc = "idle"
  /\ vpc' = "terminate"
  /\ UNCHANGED <<ctxVars, vo, voOpts, hostVars, boundVars>>

UninitEnd ==
  /\ hpc = "killing" /\ vo = None
  /\ hpc' = "gone"
  /\ rendererConfig' = None /\ shown' = NoFrame /\ newOpts' = NoOptions
  /\ UNCHANGED <<initialized, active, waitingFrame, frameQueue, config, reconfigured,
                 updateNewOpts, vsyncTimed, updated, voVars, drawVo, boundVars>>

Teardown == KillVideo \/ KillVo \/ UninitEnd

(* A queued update makes bomi repaint. *)
Redraw == updated /\ DrawBegin

Next ==
  \/ DestroyVo \/ Uninit \/ Reconfig \/ DrawImage \/ RedrawFrame
  \/ FlipPage \/ FlipAfterWakeup \/ FlipAfterTimeout
  \/ DrawBegin \/ DrawEnd \/ UninitBegin \/ Teardown
  \/ \E o \in Options : CreateVo(o) \/ SetOptions(o)

Spec == Init /\ [][Next]_vars

(* The thread of the output finishes what it is at, its wait of 0.2        *)
(* seconds included; the host repaints when it is told to, for its window  *)
(* is visible and its frame not empty (videorenderer.cpp:534), and its     *)
(* steps end.  The thread of the output takes what is dispatched to it,    *)
(* as vo_destroy does, before it draws again: redraws do not starve it.    *)
(* Nothing has to be created, drawn, changed or destroyed.                 *)
Fairness ==
  /\ WF_vars(Uninit) /\ WF_vars(FlipPage \/ FlipAfterWakeup \/ FlipAfterTimeout)
  /\ WF_vars(Redraw) /\ WF_vars(DrawEnd)
  /\ WF_vars(Teardown) /\ SF_vars(KillVo)

FairSpec == Spec /\ Fairness

(***************************************************************************)
(* Safety.                                                                 *)
(***************************************************************************)
(* A frame is rendered in its own configuration: none that was queued      *)
(* before a reconfig, or by another output, is taken after it.             *)
RenderedAsConfigured ==
  [][shown' # shown /\ shown' # NoFrame => shown'.config = rendererConfig']_vars

(* Frames are shown in the order they were drawn, none twice, whatever the *)
(* drop modes and the changes of options did to the queue.                 *)
ShownInOrder == [][shown' # shown /\ shown' # NoFrame => shown'.n > shown.n]_vars

(* The assertion after kill_video (vo_opengl_cb.c:271): the context is     *)
(* released with no output left that could touch it, and none comes back.  *)
GoneIsUnused ==
  hpc = "gone" => active = None /\ vo = None /\ frameQueue = <<>> /\ ~initialized

(* The host can draw at any time, even if the VO is destroyed              *)
(* (vo_opengl_cb.c:33-36): what a draw reaches through an output, its      *)
(* flip queue parameters or its update callback, is one that exists.       *)
NoDanglingVo ==
  /\ hpc = "rendering" /\ UsesDrawVo => drawVo = vo
  /\ hpc = "idle" => ~AppliesThroughNone

(***************************************************************************)
(* Liveness.                                                               *)
(***************************************************************************)
(* flip_page returns, though the host may never repaint again. *)
FlipReturns == vpc \in {"drawn", "blocked"} ~> vpc = "idle"

(* Frames that wait may be dropped: a flip, be it of a redraw, has found   *)
(* the queue full, or the options to be applied leave less room.           *)
Overflows ==
  \/ vpc = "blocked" \/ (vpc = "drawn" /\ QueueFull)
  \/ Applies /\ Len(frameQueue) > DrawOptions.size

(* Frames of configuration c are forgotten: by reconfig, by the uninit of  *)
(* their output or by the teardown of the context.                         *)
Forgotten(c) == config # c \/ hpc \in {"kill", "killing", "gone"}

(* A frame in the queue is shown, though each draw takes one and updates   *)
(* are not counted, unless the queue overflows or forgets its frames.  So  *)
(* the last frame before a pause is shown if only draws of the host follow *)
(* it; redraws of the OSD may make the queue drop it.                      *)
QueuedIsShown ==
  \A f \in Frame : (\E i \in DOMAIN frameQueue : frameQueue[i] = f)
                     ~> (shown = f \/ Overflows \/ Forgotten(f.config))

(* mpv_opengl_cb_uninit_gl returns: the host takes no frame meanwhile, and *)
(* the thread it waits for may be waiting for just that.                   *)
UninitReturns == hpc = "kill" ~> hpc = "gone"
===============================================================================

# A TLA+ model of bomi

bomi is a Qt media player built on libmpv.  Most of its code is user interface and signal
processing.  What is hard in it, and what this directory specifies, is the part where threads
meet: the engine that drives libmpv through hooks and two event queues, the playlist that reacts
to what the engine reports, the history that remembers positions, the threads that render
subtitles, and below them the parts of libmpv that bomi builds and calls from several threads:
its dispatch queue, the events of its client API and its OpenGL video output.

Source paths below are relative to `src/src/bomi`, unless they start with `src/`.

## 1. Inventory

| Component | Files | State | Operations | Hard because |
|---|---|---|---|---|
| Play engine | `player/playengine*.cpp`, `mpv.cpp` | current Mrl, parameters of the file, state, waitings, time; `reload` and the parameters under `Data::mutex`; `t.local` of the client thread | load, setMrl, reload, stop, seek, pause, waitUntilTerminated; `request`, `onLoad`, `onUnload` on the client thread; `process` on the GUI thread | three threads, hooks in which the core waits for the client, two FIFO queues, a blocking exit |
| Core of libmpv | `src/src/mpv/player/loadfile.c`, `command.c` | playlist entry, `stop_play`, hook handlers | `mp_play_files`, `play_current_file`, `mp_hook_run` | waits for its client inside a hook |
| Dispatch queue of libmpv | `src/src/mpv/misc/dispatch.c`, `input/input.c` (the semaphore), `player/playloop.c` | list of requests, `suspend_requested`, `suspended`, `exclusive_lock` | append, enqueue, run, suspend, resume, lock, unlock, process | wakeups sent under no lock, two locks, one condition for all |
| Client API of libmpv | `src/src/mpv/player/client.c`; `mpv.cpp` | ring of events, reserved entries, `choked`, observed properties | send_event, send_reply, wait_event, observe, update_prop, wait_async_requests | bounded ring, values fetched while they change |
| Video output of libmpv | `src/src/mpv/video/out/vo_opengl_cb.c`, `vo.c`; `mpv.cpp` (render) | context shared with the host: queue of frames, options, configuration, active output | preinit, reconfig, draw_image, flip_page, draw, uninit_gl | four threads, an output that goes away while the host draws |
| History | `player/historymodel.cpp`, `mrlstate.cpp` | SQLite table, cached state, rows | getState, find, update, play, clear | called from two threads under a mutex of its own; what is read can be older than what is posted |
| Playlist | `player/playlistmodel.cpp`, `misc/simplelistmodel.cpp` | entries, loaded ("special") row, shuffled order, repeat | setList, append, remove, swap, next, previous, play | the loaded row has to follow every edit; reports of the player arrive late |
| Main window | `player/mainwindow*.cpp` | playlist, history, engine, menus | openMrl, openWith, openDir, commitData | connects all signals; drives the exit |
| Subtitle rendering | `subtitle/subtitlerenderer.cpp`, `subtitlerenderingthread.*` | one Item and one thread per selected subtitle, picture cache, shared mutex and wait condition | render, setDrawer, setFPS, select, deselect, unload | requests while a thread draws, events that hold addresses, ending threads |
| Subtitle parsing, search | `subtitle/*` | parsed captions, finder state | parse; login, search | sequential, except for the finder |
| Video processor | `video/videoprocessor.cpp`, `softwaredeinterlacer.cpp`, `motioninterpolator.cpp` | skip request, filter queues | filterIn, filterOut, skipToNextBlackFrame, stopSkipping | GUI thread against filter thread |
| Audio chain | `audio/*` | options, buffers | filter | numeric; options cross threads |
| Downloader, youtube-dl, SMB | `misc/*` | reply, process, dialog answer | start, cancel, authenticate | nested event loops, a thread that waits for a dialog |
| Remote control | `json/*`, `player/mpris.cpp`, `misc/localconnection.cpp` | connections | requests | its commands are those of the user |
| Preferences, skins, dialogs, OS | the rest | - | - | no concurrency |

Interaction.  Commands go from the GUI thread straight into libmpv (`Mpv::tell` is synchronous).
libmpv answers with events that the client thread pops (`Mpv::run`); at the `on_load` and
`on_unload` hooks the core waits until the client thread has run `onLoad` or `onUnload`.  The
client thread posts Qt events, which `PlayEngine::Data::process` handles on the GUI thread and
turns into signals.  `finished` makes the main window ask the playlist for what to play next.
Subtitle threads are woken through a shared condition and answer with posted events too.

Inside libmpv the same calls cross a second border.  A command or a property read locks the core
or posts a function to its dispatch queue, which the playback thread serves between two frames;
asynchronous requests reserve a place for their reply in the ring of events; properties that
change are marked and fetched through the dispatch queue again.  Frames go from the playback
thread through the thread of the video output into a queue that bomi's render thread empties
whenever the window is repainted.

What makes each component correct: *engine* - the GUI ends up showing what libmpv does, every
end carries the state of its file, the position survives an exit, quitting ends; *history* -
positions are those of the last play; *playlist* - the loaded row is the current medium, playing
on reaches the end; *subtitles* - no picture for a deleted Item, no lost redraw, ending threads
ends; *dispatch* - one user of the core's state at a time, requests in order, every call returns;
*client API* - replies fit, losses are reported, the client ends up with the values the
properties have, hooks end; *video output* - frames in order and in their own format, nothing
waits for ever, the context is left clean.  The list of hazards, each at its line, is in `PROJECT.json`.

## 2. Modules

| Module | What it is |
|---|---|
| `PlayEngine` | core, client and GUI threads of the engine, with the resume positions of the history |
| `Player` | what the engine promises: an abstract player that reports in order, some time later |
| `PlayEngineImpl` | the refinement mapping, `PlayEngine` implements `Player` |
| `Playlist` | list model, playlist model and opening of media, on top of `Player` |
| `SubtitleThreads` | rendering threads, requests, pictures, selection and deselection |
| `CoreAccess` | what the dispatch queue promises: an owner of the core's state and a queue |
| `Dispatch` | the dispatch queue with its mutexes, condition and wakeups; it implements `CoreAccess` |
| `ClientApi` | events, properties, requests and hooks of one client, with the loop of `Mpv::run` |
| `VideoOutput` | the OpenGL context shared by video outputs and bomi's render thread |
| `PlayEngineProofs` | theorems about `PlayEngine`: types and the order of the hooks |
| `PlayEngineQueueProofs` | theorems about what the GUI will show once it has handled its queue |
| `PlayEngineImplProofs` | the refinement of `Player`, proved |
| `DispatchProofs`, `ClientApiProofs`, `SubtitleThreadsProofs`, `PlaylistProofs`, `VideoOutputProofs` | theorems about the module each is named after |
| `MC...` | small instances for TLC |

### PlayEngine

The core has a program counter `cpc`: *idle*, *load* (waiting for the ack of `on_load`), *open*,
*play*, *unload* (waiting for the ack of `on_unload`), *off*.  `cur` and `next` are its playlist
entries, `why` is `stop_play`, `active` the hooks not acknowledged, `mq` the events sent to the
client.  A `loadfile ... replace` (`LoadFile`) sets `next` and makes the current file end.

The client thread has one action per event, and the two hooks are cut where the code takes and
releases a mutex: `OnLoadCopy` (copy of the parameters, playengine_p.cpp:201), `OnLoadTake`
(the position a reload left, :215), `OnLoadHistory` (:220), `OnLoadSync` (`SyncMrlState` is
posted and the hook acknowledged), `OnUnloadCopy` and `OnUnloadTime` (:451-455).

The GUI thread has the commands (`Load`, `Reload` and `ReloadLoad`, `Stop`, `SetMrl`, `Shutdown`)
and one action per event of `process`.  At `Shutdown` (`commitData`) the event loop is blocked
until the client thread has exited, and then runs once more (`gpc`: *quit*, *drain*, *done*).

Ghosts: each load has a number `id`, so that properties can say which load a state belongs to;
`keep` in an entry is the position a reload promised it; `onquit` what was on display at quit.

Abstractions.  *Running* stands for playing and paused.  A medium is identified by a model value;
`Unique` holds those the history keys (`isUnique`), the empty Mrl passes too, as in the code.
An entry's `resume` flag joins the option passed with the file and the preference.  Two events
posted by one callback are one step.  Left out: seeks by the user, images, disc titles and time
offsets, cue sheets, redirects, subtitles found by the autoloader, youtube-dl (time spent in
`on_load`), pause and its waitings.  Playing on after the end is a `Load` after `EndPlayback`.
Leaving pause out hides one thing a reader should know: the observer of mpv's `pause`
(`playengine_p.cpp:474`) posts *Paused* whether or not a file is loaded, so `Settled` speaks of
runs in which nobody pauses an idle engine (MPRIS `Pause` calls the engine unguarded).

### Player and PlayEngineImpl

`Player` has the current Mrl, the file being played with a phase, the file to play next, and a
queue `posted` of reports "running" and "end(reason)".  The mapping in `PlayEngineImpl` takes for
it `Posted`: what the events in the queue of the GUI thread report (`Handled`), followed by what
those in the queue of the client thread are going to (`Coming`).  `Player` allows more than the engine does in one place: a file that fails to
open may be reported as played to its end.

### Playlist

Rows count from 0.  `SetList`, `RowRemoved` and `RowSwapped` are the three ways the list model
moves its special row; `Marked` is `updateMrl`, which is connected to `mrlChanged` and therefore
does nothing when the Mrl stays the same.  `Neighbour` is both `next` and `previous`; as in the
code they shuffle when the size of the order is wrong.  The seed of `std::shuffle` is static and
the engine is made anew each time, so each size has one order for the life of the program:
`seed`, chosen in `Init`.  `Advance` is the handler of `finished(mrl, true)`.  The reports come
from `Player`.  Lists come from `Lists` instead of files, folders and addresses; `OpenList`
covers opening, clearing and the end of a download.  Restoring the last medium at start is the
`OpenWith` that only chooses.  Parsing, saving, check boxes and the selected row (any row can be
selected) are left out.

### SubtitleThreads

Per thread: the shared request (`flags`, `time`, `style`, `fps`, `quit`) and the thread's copy,
iterator and cache.  `run` is cut at the mutex and between deciding and drawing: *top* (the test
of `quit` outside of the mutex), *lock*, *wait*, *woken*, *work*, *post*.  A caption is numbered
by its time; a picture carries the caption and the versions of style and frame rate it shows.
`NewOption` joins `NewDrawer` and `NewArea`.  The GUI thread does one thing at a time and blocks
in `finish`; `wait(5000)` runs out (`Expired`) only for a thread that sleeps, for drawing takes
far less.  An Item keeps a number of its own; a picture for a deleted Item may reach a later one
(its address may be used again) or none.  Left out: geometry, textures, what `terminate` leaves
in Qt's own structures, and the plain accesses to `quit` and `flags` as data races (they are
read through a pointer after calls, so the compiler reads them each time).

### Dispatch and CoreAccess

Each section under `queue->lock` is an action; `wakeup_fn` (the semaphore, `posts`) and
everything under `exclusive_lock` are actions of their own, as the code calls both outside of
that lock.  A thread has a program counter `tpc` and the call it makes, `op`: *lock*
(`lock_core`), *run*, *async* and *suspend*, with `Suspend`, `Poke`, `Recheck` and `Woken` for the
loop of `mp_dispatch_suspend`.  The core's `cpc` is *run* (its own code), *asleep*, *enter*, and
in `mp_dispatch_queue_process` *loop*, *popped*, *fn*, *finish*.  The condition variable is the
set `sleepers`: a broadcast empties it, and a thread outside of it goes on when it is scheduled.
`suspendCount` is that of a handle; `held` counts, per thread, what it has to resume, for bomi and
the documentation pair the calls.  `CoreAccess` has an owner (the core, a thread, a request or
nobody) and a backlog.  Left out: `mp_dispatch_queue_process` with a timeout other than zero,
`mp_dispatch_adjust_timeout` and the deallocation of enqueued items.

### ClientApi

The ring is the sequence `events` (numbers for broadcast events, 0 for the message of a hook, -1
for a reply); `reserved`, `choked` and `needWakeup` are the fields of `mpv_handle`.  Each
observed property has the fields of `observe_property`; two of its flags and two `valid` bits
become one value each (`NoValue`).  `Scan` is `gen_property_change_event`: one pass from
`lowest_changed` that queues an update for each property that needs a value and stops at the
first that can be reported.  `Valued` are the properties observed with a format; bomi observes
all of its own without one and reads the property when told (`ReadProperty`), so the instance has
one of each.  The core serves one request at a time, whole, which is what `CoreAccess` grants: a
set is cut into the change and its reply, as other threads' events may come in between.  A hook
is run, its handler sets properties without waiting for each, waits for all and acknowledges.
Left out: event masks (bomi enables what is sent here), log messages, unobserving, creation and
destruction of handles, conversion of values, several clients.

### VideoOutput

`vpc` is the thread of the output (*idle*, *drawn* after `draw_image`, *blocked* in `flip_page`,
*terminate*), `hpc` the host (*idle*, *rendering* between the two locked sections of
`mpv_opengl_cb_draw`, then *kill*, *killing*, *gone* in `mpv_opengl_cb_uninit_gl`).  The playback
thread has no state of its own: it creates, configures and destroys outputs, and `CoreFree` says
that it waits while the host has locked the core.  A frame is a number and the configuration it
was drawn for.  An output is a number too, never used again, so that a stale pointer
(`drawVo`, the local `vo`) can be told from the one that exists.  In the code the outcome of
`AppliesThroughNone` is a null pointer read, after which there is no program; `DrawBegin` stops
short of it, and `NoDanglingVo` says that it is reached.  `RedrawFrame` is `do_redraw`: it flips
without a frame, so `NoFrame` enters the queue, and a full queue drops frames that wait; the core
may ask for it at any time.  A NULL frame handed to `draw_image_timed` (vo.c:607-613, :692) needs
`in->vsync_timed`, which only `vo_set_flip_queue_params` sets: vo_opengl_cb.c:349 is its one call
for this output and passes `false`, with interpolation too, so `DrawImage` always has a frame.
Left out: the timing of frames in `vo.c` (a frame is drawn when its time comes), equalizer, what
the OSD shows, hardware decoding and the rendering.

## 3. Runs

| Run | Instance | Shows |
|---|---|---|
| `playengine` | 2 media, 2 loads, positions 0..1, symmetric | `TypeOK`, `EndCarriesState`, `StartedIsSynced`, `Settled`, `SavedOnExit` |
| `playengine_live` | 2 media, 2 loads, position 0 | `QuitCompletes`, `OpenedIsSynced`; `PlayEngine` implements `Player` |
| `reload_place` | violation | a reload gives its place to another file |
| `playlist` | 2 media, 3 rows, 2 requests | `LoadedIsCurrent`, `FinishesFromLoaded`, `RepeatPlaysAll` |
| `playlist_stuck` | violation | a playlist that never finishes |
| `subtitles` | 2 Items, captions 0..3, 5 requests, delays 0 and 1 | `NoDanglingImage` without single deselection, `QuietShowsCaption`, `PostsCurrent` |
| `subtitle_live` | 2 Items, 4 requests, with deselection | `ForceServed`, `ClearReturns` |
| `subtitle_dangling` | violation | deselecting leaves a picture for a deleted Item |
| `dispatch` | 2 threads, one handle, 2 calls each | `SuspendStopsCore`, `OneUser`, `ResumeIsLegal`, `CallsReturn`, `CoreGoesOn`; `Dispatch` implements `CoreAccess` |
| `client_api` | 2 properties, ring of 2, 1 change, 2 events, 1 hook, 1 set | `RepliesFit`, `QuietIsCurrent`, `HookSettingsApply`, `NoSilentLoss`, `WaitReturns`, `HookEnds`, `EventsArrive` |
| `video_output` | 3 sets of options, 2 outputs, 3 frames, 2 configurations, 1 setting | `GoneIsUnused`, `RenderedAsConfigured`, `ShownInOrder`, `FlipReturns`, `QueuedIsShown`, `UninitReturns` |
| `vo_dangling` | violation | a draw goes through an output that is gone |

Bounds.  Two loads are enough for a file to replace another at every point of its life, and for
a reload to meet the hooks of the file before; the misplaced reload needs a third load.  One
step of position tells a position from none.  Three rows are the fewest with a first, a middle
and a last, and two requests let an edit follow a load, or one load
another, while the reports of the first are still to come.  Two Items share the condition, and
four captions give a jump, a step and two pictures drawn ahead.  Two threads that share a handle
meet in every section of the dispatch queue, with the core and with each other's suspensions, and
two calls each let one nest or return before the other begins.  A ring of two overflows by a
second event, by an event beside a reserved reply and by the message of a hook; two properties
are the fewest with one before and one after the other in a scan.  A second configuration and a
second output each leave frames of the first behind; three frames fill a queue of two and
meet it full; redraws, which have no bound, fill it too.  Counters stop at their bound, which
only ends what users, files and the clock do:
nothing waits for a further request.

Deadlock is not checked in `Playlist` and `SubtitleThreads`, where the program may rest for good,
nor where a cfg says so; `PlayEngine` stops only after a complete exit.

Fairness.  Threads run: weak fairness of the client thread, of the GUI thread's event handling,
of each subtitle thread, and of the core's own steps.  Nobody has to press a button.
In `Dispatch` the playback thread and each calling thread go on whenever they can; nobody must
call or resume, and no timeout must expire, so that a lost wakeup shows.  In `ClientApi` the same
holds of the core serving requests, of the client's thread and of a GUI thread that has reserved a
reply; nothing must change or be sent.  In `VideoOutput` the thread of the output ends what it is
at, and here its wait of 0.2 seconds does run out, for the code relies on it; the host repaints
when it has been told to - its window is visible and its frame not empty, or
`VideoRenderer::updateData` (videorenderer.cpp:534) would not take the update - and its teardown
goes on.  The order to end is strongly fair (`KillVo`): the thread of the output takes what is
dispatched to it at the top of each pass (vo.c:788), before it draws or redraws again.
In `PlayEngine` a file may play for ever; in `Playlist` media have an end and nobody leaves the
player paused, since "the playlist finishes" means nothing otherwise.

### What the violations say

* `reload_place` - `reload()` (playengine.cpp:523-531) leaves its position under the mutex and
  then loads.  If the core is just opening the next file, that file's `onLoad` takes it.
* `playlist_stuck` - a playlist is opened while its first medium plays: the loaded row becomes -1
  and `next()` 0.  Loading the same Mrl emits no `mrlChanged`, the row stays -1, and the medium
  is played for ever.  From a known row the property holds (`FinishesFromLoaded`).
* `subtitle_dangling` - `remove` deletes an Item without purging its pictures, as `clear` does.
* `vo_dangling` - `mpv_opengl_cb_draw` takes the active output under the lock, renders without
  it and then calls `update(vo->priv)`, though the playback thread may have destroyed the output
  meanwhile (vo_opengl_cb.c:315, :393).  The other half of the property fails as well: options
  set at run time and not applied before the output goes are applied through none (:349).

What else the model makes visible has no document to contradict and is listed as hazards only:
a redraw of the OSD right after a pause can make a full queue drop the last video frames, which
`QueuedIsShown` therefore excepts;
`onLoad` asks the history on the client thread before the `EndPlayback` event that writes the last
position of the same file may have been handled; the handler of `finished` does not look at which
file has ended and can replace one opened since; a second `mpv_suspend` on a handle returns while
the first is still on its way, so the core may run on (`SuspendStopsCore` excludes that moment); a
property observed by value can report an older value for good (`QuietIsCurrent` speaks of the
others, which are those bomi has); a `Tick` that comes while a thread draws is not served before the next one, and with a
delay a style set while the time is below zero can leave the last caption in the old style
(`PostsCurrent` therefore speaks of what is posted, and `QuietShowsCaption` not of the style).

## 4. Proofs

`PlayEngineProofs` proves, for all media and all bounds, `Invariance` (`Spec => []IInv`) and from
it `TypeCorrect` and `EndAlwaysCarriesState`, the assertion `Q_ASSERT(last.data())` in `process`.

`EndCarriesState` alone is not inductive: the state is put into `t.local` by `onUnload` and read
two events later, by `request` for END_FILE.  What makes it true is the order of the hooks, and
that is the invariant `HookOrder`: at most one load, unload or end event is in `mq` or at work in
the client at a time, the core waits meanwhile, and whenever an end event is to come `t.local` is
set.  `IInv` joins it with the types, a fact about reloads (`Reload` needs an Mrl) and
`EndCarriesState`; TLC agrees that it is an invariant.  The proof has one lemma per group of
actions for the types (core, client, user, process) and per group for the order, on top of
two lemmas about appending to a queue and taking its head.  The assumptions are those of
`PlayEngine`: the empty Mrl is no medium, the media with a key are media, `Null` is neither a
state nor an entry, the bounds are natural numbers.

`VideoOutputProofs` proves the safety of `VideoOutput` for every set of options and every bound:
`TypeCorrect`, `ReleasedIsUnused` (the assertion in `mpv_opengl_cb_uninit_gl`), and the two action
properties `AlwaysRenderedAsConfigured` and `AlwaysShownInOrder`.  None of them is inductive.  The
invariant adds three facts: `Alive`, frames exist only with an output, and outputs only in a
context that is initialized or being torn down; `InOrder`, the frame shown last, those in the
queue and the one that waits are in this order and of the current configuration; `Prepared`, the
renderer has the current configuration or `reconfigured` is set.  What the three drop modes, a
draw and a smaller queue size do to the queue is one relation, `Rest` (some first frames are
dropped), and lemmas show that it keeps an order, as does appending the frame that waits.  After
that there is one step per action for each of the three facts.  Assumed are the assumptions of
`VideoOutput`: the options have a positive size, the bounds are natural numbers.

### The queues of the engine

`PlayEngineQueueProofs` proves `StartsAlwaysSynced`, `AlwaysSettles` and `AlwaysSavedOnExit`.
None follows from the hooks alone: the GUI shows what libmpv did some time ago, and a property
that speaks of the moment when all queues are empty is only kept by knowing what each queued event
will do.  So the invariant speaks of *later* values: the parameters, state, loading indicator and
position that the last queued event of each kind decides (`ParamsLater`, `RunningLater`,
`LoadingLater`, `TimeLater`).  `QInv` joins to `IInv`

* `QueueOrder`: START_FILE is followed by its hook, FILE_LOADED and END_FILE are in the queue only
  while the core is where it sent them;
* `Syncs`: the parameters of a file are queued before its start, and hold for an open file;
* `Shown`: the later values are those of the file libmpv plays, unless an event that will change
  them has not been popped yet;
* `Saving`: from a quit on, the position on display is with the client thread (`Closing`), in the
  last queued event that writes the history (`Recording`), or in the history (`InHistory`).

Most of the work is in lemmas about appending to a queue and handling its head, which say how the
later values move along, and in one case per action for each of the four parts.

### Refinements

`PlayEngineImplProofs` proves `Spec => ImplementsPlayer`.  The invariant `MInv` is `IInv` with two
facts: an idle core plays no file, and once bomi quits `stop_play` stays *quit*.  Each step of the
core is a step of `Player` or stutters; the steps of the client thread are hidden, for a report
only moves from one queue to the other (`ClientPasses`); commands and handled events are steps
of `Player`.  What the queues report is flattened by `FlattenSeq` of SequencesExt, a recursive
function, so its laws for appended, first and absent events are proved by induction: the lemma
`Induction` draws a principle over *sets* of numbers from the well-foundedness of `<`, and sets,
unlike predicates, can be instantiated by the provers in use.

`DispatchProofs` ends with `DispatchImplementsAccess`, step by step in the same way: the core, a
thread or a request owns the core's state, and what is posted is run in order.

### Dispatch

The assertions of `mp_dispatch_resume` and `OneUser` rest on what `suspend_requested` means.  It
counts, so the invariant does too: `Counted` says that it is the number of threads that have raised
it and will lower it themselves plus the number of handles that keep the core suspended;
`TicketsCounted` that the count of a handle is the number of suspensions its threads have yet to
resume.  `Places` says which call a thread at each place is in, `Exclusion` who has
`exclusive_lock` and that `suspended` means the core is in its dispatch loop, `Kept` that nobody
who was promised the core is left without it.  From these follow `TypeCorrect` (no counter becomes
negative), `AlwaysOneUser`, `AlwaysLegalResume` and `SuspendedCoreStays`, for any number of
threads and handles and any pairing of calls with resumes.

### Client API

`RepliesFit` is again a matter of counting: `Counted` says that `reserved_events` is the number of
requests in the core's queue that will be answered, with the one the GUI thread has not queued yet,
and `properties_updating` the number of those that fetch a value.  `Watched` says that a property
whose value the client does not know is marked where the next scan looks, which
`QuietIsCurrent` needs; `Sequence` that the numbered events in the ring follow each other and what
was received last, or a loss has been noticed, which `NoSilentLoss` needs.  All five properties and
the types are proved (`RepliesAlwaysFit`, `AlwaysCurrent`, `SettingsAlwaysApply`,
`LossIsReported`) for any number of properties and any size of the ring.

### Subtitles

`Coherent` says of each thread that what it has cached was drawn with the options it knows or is
about to be dropped, `Requested` that what it does not know of its request is flagged, `Displayed`
that the last picture it drew is the last on its way to its Item, or shown.  `AlwaysPostsCurrent`
and the types follow in general.  `NeverDangling` and `QuietShows` assume `~Deselects`, as the run
does: with single deselection they are false, which is what `subtitle_dangling` shows.

### Playlist

`TypeOK` and `LoadedIsCurrent` together are inductive: each edit moves the row along with its entry
and each change of the medium finds it again (`MarkedFacts`).  That a shuffled order stays one is
part of the types.  Assumed of `Lists` is that they are lists of media no longer than `MaxRows`, the
bound of the model, in line with the guards of the actions that make a list longer.

### What stays with TLC

Liveness and everything else under fairness (`QuitCompletes`, `OpenedIsSynced`,
`FinishesFromLoaded`, `RepeatPlaysAll`, `ForceServed`, `ClearReturns`, `CallsReturn`, `CoreGoesOn`,
`WaitReturns`, `HookEnds`, `EventsArrive`, `FlipReturns`, `QueuedIsShown`, `UninitReturns`): the
proof system does not reason about ENABLED, which fairness is made of.  Every other property of a
passing run is a theorem.  The four violations are counterexamples on their instances and need no
proof.

## 5. Plan

1. *Done*: `PlayEngine`, `Player` and the refinement; `Playlist`; `SubtitleThreads`; `CoreAccess`,
   `Dispatch` and the refinement; `ClientApi`; `VideoOutput`; proofs of every safety property and
   of both refinements.
2. *Proofs to come*: what the hazards without a property ask for, once the next models have it;
   for `Playlist`, that its steps are those of a user of `Player`: the handler of `finished`
   handles a report and loads in one step, which two steps of `Player` make up.
3. *More of the engine*: pause, waitings and user seeks (`PlayState`), the positions of a file
   that ends before it is synchronised, the history as a component (rows, cache, mutex, clear).
4. *More components*: skipping to black frames against seeks; the queues of deinterlacer and
   motion interpolator; the SMB dialog composed with quitting; the downloader with its nested
   event loop; the subtitle finder; A-B repeat and the undo stack; JSON-RPC batches.

## 6. Not modelled

* The rest of libmpv: demuxers, decoders, filters, other outputs, options and scripts.  bomi
  uses them through the interfaces above; they are signal processing, parsers and drivers, or
  drive hardware, and most of the lines of this repository are theirs.
* Rendering, colours, audio processing, geometry and text layout: numeric code without
  interleavings whose correctness is a picture or a sound.
* Parsers of subtitles, playlists, addresses and HTTP (http-parser), kiss_fft and udf25:
  sequential code over strings and bytes, where a model would be the program again.
* Preferences, skins, dialogs, menus, storage and window system back ends: forms and calls of the
  platform, on one thread.
* The components of point 4 of the plan, each with its note in `PROJECT.json`.

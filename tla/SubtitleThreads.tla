-------------------------- MODULE SubtitleThreads --------------------------
(***************************************************************************)
(* The rendering of external subtitles.  The GUI thread keeps one Item per *)
(* selected subtitle component (SubCompSelection) and every Item has a     *)
(* thread that draws captions.  The GUI thread asks for a time under a     *)
(* mutex shared by all the threads and wakes them through one wait         *)
(* condition; a thread answers by posting an ImagePrepared event that      *)
(* holds the address of its Item.  Deselecting or unloading ends threads   *)
(* (Thread::finish) and deletes their Items.                               *)
(*                                                                         *)
(* An Item is identified by a number that is never used again.  Captions   *)
(* are numbered by the time they start at, one for each time.              *)
(***************************************************************************)
EXTENDS Integers, Sequences, FiniteSets

CONSTANTS
    MaxItems,    \* bound: Items created in a behaviour
    MaxTime,     \* bound: the last caption
    MaxRequests, \* bound: calls of render and of the setters
    Delays,      \* the delays the user sets
    Deselects    \* whether the user deselects single subtitles

ASSUME BoundAssumption ==
    /\ MaxItems \in Nat \ {0} /\ MaxTime \in Nat \ {0} /\ MaxRequests \in Nat
    /\ 0 \in Delays /\ Delays \subseteq 0 .. MaxTime
    /\ Deselects \in BOOLEAN

Items  == 1 .. MaxItems
Times  == 0 .. MaxTime
End    == -1                                \* its.end()
Forcing  == {"NewOption", "Rebuild", "Rerender"}   \* NewOption: NewDrawer or NewArea
Flags  == Forcing \cup {"Tick"}

\* A drawn caption, with the versions of the style and of the frame rate it shows.
Picture == [cap: Times, style: 0 .. MaxRequests, fps: 0 .. MaxRequests]
NoPicture == [cap |-> 0, style |-> 0, fps |-> 0]

VARIABLES
    live,      \* SubCompSelection::items
    born,      \* Items created so far
    image,     \* Item::image
    shown,     \* hidden of the renderer, negated
    msec,      \* the time of the last tick
    delay,     \* the delay of subtitles
    style, fps,\* versions of the drawer and of the frame rate of the selection
    evq,       \* ImagePrepared events in the queue of the GUI thread
    gpc,       \* "idle", or in Thread::finish for a deselection or a clear
    todo,      \* the Items whose threads are still to be finished
    joining,   \* the Item whose thread is being waited for
    selected,  \* how many Items to create once the old ones are cleared
    th,        \* the threads: shared request, thread-local copy, cache
    reqs       \* requests so far

guiVars == <<live, born, image, shown, msec, delay, style, fps, selected>>
finVars == <<gpc, todo, joining>>
vars == <<guiVars, finVars, evq, th, reqs>>

Thread == [pc: {"off", "top", "lock", "wait", "woken", "work", "post", "exited", "dead"},
           quit: BOOLEAN, flags: SUBSET Flags, time: Times,
           style: 0 .. MaxRequests, fps: 0 .. MaxRequests,
           \* Thread::Data, touched by the thread alone
           ltime: Times, lstyle: 0 .. MaxRequests, lfps: 0 .. MaxRequests,
           lflags: SUBSET Flags, it: Times \cup {End}, pool: SUBSET Picture,
           fill: BOOLEAN]

NewThread == [pc |-> "off", quit |-> FALSE, flags |-> {}, time |-> 0, style |-> 0,
              fps |-> 0, ltime |-> 0, lstyle |-> 0, lfps |-> 0, lflags |-> {},
              it |-> End, pool |-> {}, fill |-> FALSE]

TypeOK ==
    /\ live \subseteq Items /\ born \in 0 .. MaxItems
    /\ image \in [Items -> Picture]
    /\ shown \in BOOLEAN /\ msec \in Times /\ delay \in Delays
    /\ style \in 0 .. MaxRequests /\ fps \in 0 .. MaxRequests
    /\ evq \in Seq([item: Items, pic: Picture])
    /\ gpc \in {"idle", "clear", "remove"}
    /\ todo \subseteq live /\ joining \in Items \cup {0}
    /\ selected \in 0 .. MaxItems
    /\ th \in [Items -> Thread]
    /\ reqs \in 0 .. MaxRequests

Init ==
    /\ live = {} /\ born = 0 /\ image = [i \in Items |-> NoPicture]
    /\ shown = TRUE /\ msec = 0 /\ delay = 0 /\ style = 0 /\ fps = 0 /\ evq = <<>>
    /\ gpc = "idle" /\ todo = {} /\ joining = 0 /\ selected = 0
    /\ th = [i \in Items |-> NewThread] /\ reqs = 0

-----------------------------------------------------------------------------
(* The rendering thread: SubCompSelection::Thread::run and Thread::Data.     *)

Woken(t) == [t EXCEPT !.pc = IF @ = "wait" THEN "woken" ELSE @]

\* forThreads: apply a request to every thread under the mutex, then wake them all.
ForThreads(asked) == th' = [i \in Items |-> IF i \in live THEN Woken(asked[i]) ELSE th[i]]

Step(i, t) == /\ th' = [th EXCEPT ![i] = t]
              /\ UNCHANGED <<guiVars, finVars, reqs>>

\* while (!d->quit): the test is made without the mutex.
Top(i) ==
    /\ th[i].pc = "top"
    /\ Step(i, [th[i] EXCEPT !.pc = IF th[i].quit THEN "exited" ELSE "lock"])
    /\ UNCHANGED evq

TakenOnTick(t) ==
    IF t.quit THEN [t EXCEPT !.pc = "exited"]
    ELSE [t EXCEPT !.pc = "work", !.lflags = t.flags, !.flags = {}, !.lfps = t.fps,
                   !.ltime = IF "Tick" \in t.flags THEN t.time ELSE @,
                   !.lstyle = IF "NewOption" \in t.flags THEN t.style ELSE @]

\* Take the request: copy it and clear the flags, still under the mutex.
Taken(t) ==
    IF t.quit THEN [t EXCEPT !.pc = "exited"]
    ELSE [t EXCEPT !.pc = "work", !.lflags = t.flags, !.flags = {},
                   !.ltime = t.time, !.lfps = t.fps,
                   !.lstyle = IF "NewOption" \in t.flags THEN t.style ELSE @]

SleepsAlways(t) == TRUE
Sleeps(t) == t.flags \cap Forcing = {}

Lock(i) ==
    /\ th[i].pc = "lock"
    /\ Step(i, IF Sleeps(th[i]) THEN [th[i] EXCEPT !.pc = "wait"] ELSE Taken(th[i]))
    /\ UNCHANGED evq

WakeUp(i) ==
    /\ th[i].pc = "woken"
    /\ Step(i, Taken(th[i]))
    /\ UNCHANGED evq

PoolKept(t) == IF "Rebuild" \in t.lflags THEN {} ELSE t.pool
PoolAfter(t) == IF t.lflags \cap {"Rebuild", "NewOption"} # {} THEN {} ELSE t.pool

\* Rebuild and clear as asked, then Data::draw: nothing to do, a jump, or a step
\* to the next caption, which may be in the cache.
Worked(t) ==
    LET it   == IF "Rebuild" \in t.lflags THEN End ELSE t.it
        draw == t.ltime > 0 /\ (t.lflags \cap Forcing # {} \/ it # t.ltime)
        next == it # End /\ it + 1 = t.ltime
    IN  IF t.quit THEN [t EXCEPT !.pc = "exited"]
        ELSE IF ~draw
        THEN [t EXCEPT !.pc = "top", !.it = it, !.pool = PoolAfter(t), !.lflags = {}]
        ELSE [t EXCEPT !.pc = "post", !.it = t.ltime, !.fill = next, !.lflags = {},
                       !.pool = IF next THEN PoolAfter(t) ELSE {}]

Work(i) ==
    /\ th[i].pc = "work"
    /\ Step(i, Worked(th[i]))
    /\ UNCHANGED evq

Drawn(t, c) == [cap |-> c, style |-> t.lstyle, fps |-> t.lfps]

CachedPastEnd(t, C) ==
    {p \in t.pool : p.cap >= t.it}
        \cup {Drawn(t, c) : c \in {d \in C : \A p \in t.pool : p.cap # d}}

\* Data::newPicture, for the captions of C that the cache lacks.
Cached(t, C) ==
    {p \in t.pool : p.cap >= t.it}
        \cup {Drawn(t, c) : c \in {d \in C : d <= MaxTime /\ \A p \in t.pool : p.cap # d}}

\* Data::update and, after a step, Data::fillCache: post the picture of the caption
\* and keep it in the cache with the next two.
Post(i) ==
    LET t   == th[i]
        new == Cached(t, IF t.fill THEN t.it .. t.it + 2 ELSE {t.it})
    IN  /\ t.pc = "post"
        /\ evq' = Append(evq, [item |-> i, pic |-> CHOOSE p \in new : p.cap = t.it])
        /\ Step(i, [t EXCEPT !.pc = "top", !.pool = new, !.fill = FALSE])

Run(i) == Top(i) \/ Lock(i) \/ WakeUp(i) \/ Work(i) \/ Post(i)

-----------------------------------------------------------------------------
(* The GUI thread.  A request is made between two events of its loop, so none *)
(* is made while finish is blocked.                                           *)

Asked(ms, dl) == IF ms > dl THEN ms - dl ELSE 0

\* Data::render: the request of a tick, of a new selection or of a new delay.
Rendered(T, L, sh, ms, dl, flag) ==
    IF sh /\ L # {} /\ ms > 0
    THEN [i \in Items |-> IF i \in L
                          THEN Woken([T[i] EXCEPT !.time = Asked(ms, dl), !.flags = @ \cup {flag}])
                          ELSE T[i]]
    ELSE T

\* prepend: new Items start with every option to take.
Prepended(T, New) ==
    [i \in Items |-> IF i \in New
                     THEN [NewThread EXCEPT !.pc = "top", !.flags = {"Rebuild", "NewOption"},
                                            !.style = style, !.fps = fps]
                     ELSE T[i]]

Request == gpc = "idle" /\ reqs < MaxRequests /\ reqs' = reqs + 1

Tick ==
    /\ Request
    /\ \E ms \in Times :
          /\ msec' = ms
          /\ th' = Rendered(th, live, shown, ms, delay, "Tick")
    /\ UNCHANGED <<live, born, image, shown, delay, style, fps, selected, finVars, evq>>

SetDelay ==
    /\ Request
    /\ \E dl \in Delays \ {delay} :
          /\ delay' = dl
          /\ th' = Rendered(th, live, shown, msec, dl, "Rerender")
    /\ UNCHANGED <<live, born, image, shown, msec, style, fps, selected, finVars, evq>>

\* A new style, margin or area.
SetDrawer ==
    /\ Request
    /\ style' = style + 1
    /\ ForThreads([i \in Items |-> [th[i] EXCEPT !.style = style + 1,
                                              !.flags = @ \cup {"NewOption"}]])
    /\ UNCHANGED <<live, born, image, shown, msec, delay, fps, selected, finVars, evq>>

SetFPS ==
    /\ Request
    /\ fps' = fps + 1
    /\ ForThreads([i \in Items |-> [th[i] EXCEPT !.fps = fps + 1, !.flags = @ \cup {"Rebuild"}]])
    /\ UNCHANGED <<live, born, image, shown, msec, delay, style, selected, finVars, evq>>

\* setHidden changes what is visible and asks for nothing.
SetHidden ==
    /\ Request
    /\ shown' = ~shown
    /\ UNCHANGED <<live, born, image, msec, delay, style, fps, selected, finVars, evq, th>>

\* select: a further Item, then applySelection.
Select ==
    /\ Request
    /\ born < MaxItems
    /\ born' = born + 1 /\ live' = live \cup {born + 1}
    /\ th' = Rendered(Prepended(th, {born + 1}), live', shown, msec, delay, "Rerender")
    /\ UNCHANGED <<image, shown, msec, delay, style, fps, selected, finVars, evq>>

\* unload and deselect(-1): clear alone; setComponents: clear, then the new selection.
Clear ==
    /\ Request
    /\ live # {}
    /\ gpc' = "clear" /\ todo' = live /\ joining' = 0
    /\ selected' \in 0 .. MaxItems - born
    /\ UNCHANGED <<live, born, image, shown, msec, delay, style, fps, evq, th>>

Deselect ==
    /\ Request
    /\ Deselects
    /\ \E i \in live : todo' = {i}
    /\ gpc' = "remove" /\ joining' = 0
    /\ UNCHANGED <<guiVars, evq, th>>

\* Thread::finish: quit is set and the condition signalled without the mutex; the
\* condition is shared, so the other sleeping threads wake as well.
Finish(i) ==
    /\ gpc # "idle" /\ joining = 0 /\ i \in todo
    /\ todo' = todo \ {i} /\ joining' = i
    /\ th' = [j \in Items |-> IF j \in live
                              THEN Woken([th[j] EXCEPT !.quit = @ \/ j = i]) ELSE th[j]]
    /\ UNCHANGED <<guiVars, gpc, evq, reqs>>

Over(t) == t.pc \in {"exited", "dead"}

Join ==
    /\ joining # 0 /\ Over(th[joining])
    /\ joining' = 0
    /\ UNCHANGED <<guiVars, gpc, todo, evq, th, reqs>>

NeverExpires(t) == FALSE
\* wait(5000) runs out only for a thread that nobody will wake.
Expires(t) == t.pc = "wait"

Expired ==
    /\ joining # 0 /\ Expires(th[joining])
    /\ th' = [th EXCEPT ![joining].pc = "dead"]
    /\ UNCHANGED <<guiVars, finVars, evq, reqs>>

Kept(T, L) == [i \in Items |-> IF i \in L THEN T[i] ELSE NewThread]

PurgeForgotten(q) == q
\* removePostedEvents(renderer, ImagePrepared)
Purged(q) == <<>>

\* The rest of clear and of setComponents, once every thread is over.
Cleared ==
    /\ gpc = "clear" /\ todo = {} /\ joining = 0
    /\ LET New == born + 1 .. born + selected
       IN  /\ live' = New /\ born' = born + selected
           /\ th' = Rendered(Prepended(Kept(th, {}), New), New, shown, msec, delay, "Rerender")
    /\ evq' = Purged(evq) /\ image' = [i \in Items |-> NoPicture]
    /\ gpc' = "idle" /\ selected' = 0
    /\ UNCHANGED <<shown, msec, delay, style, fps, todo, joining, reqs>>

\* The rest of remove, then applySelection.
Removed ==
    /\ gpc = "remove" /\ todo = {} /\ joining = 0
    /\ \E i \in live :
          /\ Over(th[i])
          /\ live' = live \ {i}
          /\ th' = Rendered(Kept(th, live \ {i}), live', shown, msec, delay, "Rerender")
          /\ image' = [image EXCEPT ![i] = NoPicture]
    /\ gpc' = "idle"
    /\ UNCHANGED <<born, shown, msec, delay, style, fps, selected, todo, joining, evq, reqs>>

\* customEvent: the picture goes to the address of its Item; that of a deleted Item
\* may since have been given to a later one.
ImagePrepared ==
    /\ gpc = "idle" /\ evq # <<>>
    /\ LET e == Head(evq)
           Now == IF e.item \in live THEN {e.item}
                  ELSE {0} \cup {i \in live : i > e.item}
       IN  \E i \in Now : image' = IF i = 0 THEN image ELSE [image EXCEPT ![i] = e.pic]
    /\ evq' = Tail(evq)
    /\ UNCHANGED <<live, born, shown, msec, delay, style, fps, selected, finVars, th, reqs>>

User == Tick \/ SetDelay \/ SetDrawer \/ SetFPS \/ SetHidden \/ Select \/ Clear \/ Deselect
Gui  == (\E i \in Items : Finish(i)) \/ Join \/ Expired \/ Cleared \/ Removed \/ ImagePrepared

Next == User \/ Gui \/ \E i \in Items : Run(i)

Spec == Init /\ [][Next]_vars

\* The event loop of the GUI thread and the rendering threads keep running.
FairSpec == Spec /\ WF_vars(Gui) /\ \A i \in Items : WF_vars(Run(i))

-----------------------------------------------------------------------------
(* Properties.                                                               *)

\* No picture waits for an Item that has been deleted: customEvent writes through
\* the address that the picture carries.
NoDanglingImage == \A k \in DOMAIN evq : evq[k].item \in live

\* Asleep, with nothing asked and no picture on its way.
Quiet(i) ==
    /\ i \in live /\ gpc = "idle" /\ th[i].pc = "wait" /\ th[i].flags = {}
    /\ \A k \in DOMAIN evq : evq[k].item # i

\* A thread that sleeps has drawn the caption of the time it was last asked for, at
\* the present frame rate, whatever requests came while it was drawing.
QuietShowsCaption ==
    \A i \in Items : Quiet(i) /\ th[i].time > 0 =>
        image[i].cap = th[i].time /\ image[i].fps = fps

\* Whatever the cache held, a picture is posted in the style and at the frame rate that
\* its thread has last taken: none that was drawn ahead survives a change.
PostsCurrent ==
    [][\A i \in Items : Post(i) =>
          LET pic == evq'[Len(evq')].pic
          IN  pic.style = th[i].lstyle /\ pic.fps = th[i].lfps]_vars

\* A request that forces a redraw (style, area, frame rate, selection) is taken
\* even when it arrives while the thread is drawing and no other one follows.
ForceServed ==
    \A i \in Items :
        (i \in live /\ th[i].flags \cap Forcing # {})
            ~> (th[i].flags \cap Forcing = {} \/ th[i].quit \/ i \notin live)

\* Unloading or deselecting ends, even if a thread went to sleep after quit was set.
ClearReturns == gpc # "idle" ~> gpc = "idle"

=============================================================================

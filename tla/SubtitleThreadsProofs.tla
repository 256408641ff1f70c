------------------------ MODULE SubtitleThreadsProofs ------------------------
(***************************************************************************)
(* Type correctness of SubtitleThreads, and what is shown to be drawn and  *)
(* shown, for every number of Items, captions and requests.                *)
(*                                                                         *)
(* A thread is described by what its own data say of each other (Coherent) *)
(* and of what it was last asked for (Requested); the picture that it drew *)
(* last is the last of its pictures in the queue, or the one shown by its  *)
(* Item (Displayed).  This last part needs the queue to lead back to the   *)
(* Item that drew the picture, which holds as long as single subtitles are *)
(* not deselected.                                                         *)
(***************************************************************************)
EXTENDS SubtitleThreads, SequenceTheorems, TLAPS

Between == {"top", "lock", "wait", "woken"}

(* What is cached has been drawn with the options of the thread, unless it *)
(* has just been told to drop it; and the caption it is at is that of the  *)
(* time it knows.                                                          *)
Coherent(t) ==
    /\ t.pc \in {"off", "post"} \cup Between => t.lflags = {}
    /\ t.pc = "post" => t.it = t.ltime
    /\ t.pc \in Between /\ t.ltime > 0 => t.it = t.ltime
    /\ \A p \in t.pool : /\ p.fps = t.lfps \/ "Rebuild" \in t.lflags
                         /\ p.style = t.lstyle \/ "NewOption" \in t.lflags

(* What the thread does not know yet of its request is flagged. *)
Requested(t, f) ==
    /\ t.fps = f
    /\ t.flags = {} => t.ltime = t.time
    /\ "Rebuild" \notin t.flags => t.lfps = f

(* The last picture of an Item, on its way or shown. *)
Latest(i, pic) ==
    \/ image[i] = pic /\ \A k \in 1 .. Len(evq) : evq[k].item # i
    \/ \E k \in 1 .. Len(evq) :
          /\ evq[k].item = i /\ evq[k].pic = pic
          /\ \A l \in 1 .. Len(evq) : k < l => evq[l].item # i

(* ... shows the caption the thread is at. *)
Displayed(i) ==
    LET t == th[i]
    IN  t.it # End /\ t.pc \in Between \cup {"work"} =>
            \E pic \in Picture : /\ Latest(i, pic) /\ pic.cap = t.it
                                 /\ pic.fps = t.lfps \/ "Rebuild" \in t.lflags

Bounds ==
    /\ style <= reqs /\ fps <= reqs
    /\ born + selected <= MaxItems /\ live \subseteq 1 .. born
    /\ gpc # "clear" => selected = 0
    /\ \A i \in Items \ live : th[i].pc = "off"

Threads == \A i \in Items : Coherent(th[i]) /\ (i \in live => Requested(th[i], fps))

Arriving == Deselects \/ (gpc # "remove" /\ NoDanglingImage /\ \A i \in live : Displayed(i))

IInv == TypeOK /\ Bounds /\ Threads /\ Arriving

-----------------------------------------------------------------------------
(* The steps of a thread, as changes of its record.                          *)

Pcs == {"off", "top", "lock", "wait", "woken", "work", "post", "exited", "dead"}

(* What the fields of a thread are. *)
LEMMA ThreadType ==
  ASSUME NEW t \in Thread
  PROVE  /\ t.pc \in Pcs /\ t.quit \in BOOLEAN /\ t.flags \subseteq Flags /\ t.time \in Times
         /\ t.style \in 0 .. MaxRequests /\ t.fps \in 0 .. MaxRequests
         /\ t.ltime \in Times /\ t.lstyle \in 0 .. MaxRequests /\ t.lfps \in 0 .. MaxRequests
         /\ t.lflags \subseteq Flags /\ t.it \in Times \cup {End} /\ t.pool \subseteq Picture
         /\ t.fill \in BOOLEAN
BY DEF Thread, Pcs

(* A picture of one version is still of that version, or will be dropped. *)
Survives(t, u) ==
    /\ u.it = t.it /\ t.pc \in Between \cup {"work"}
    /\ \A f : (f = t.lfps \/ "Rebuild" \in t.lflags) => (f = u.lfps \/ "Rebuild" \in u.lflags)

(* The result of a step that draws nothing. *)
Sound(t, u, f) ==
    /\ u \in Thread /\ u.pc # "off"
    /\ Coherent(u) /\ Requested(u, f)
    /\ Survives(t, u) \/ u.it = End \/ u.pc \notin Between \cup {"work"}

(* A step that goes on to another place in the loop. *)
LEMMA MoveFacts ==
  ASSUME NEW t \in Thread, NEW f, Coherent(t), Requested(t, f), t.pc \in Between,
         NEW x \in {"top", "lock", "wait", "woken", "exited", "dead"}
  PROVE  Sound(t, [t EXCEPT !.pc = x], f)
<1> DEFINE u == [t EXCEPT !.pc = x]
<1>1. /\ u \in Thread /\ u.pc = x /\ u.flags = t.flags /\ u.time = t.time /\ u.fps = t.fps
      /\ u.ltime = t.ltime /\ u.lstyle = t.lstyle /\ u.lfps = t.lfps /\ u.lflags = t.lflags
      /\ u.it = t.it /\ u.pool = t.pool
  BY DEF Thread
<1> HIDE DEF u
<1>2. Coherent(u)
  BY <1>1 DEF Coherent, Between
<1>3. Requested(u, f)
  BY <1>1 DEF Requested
<1>4. Survives(t, u)
  BY <1>1 DEF Survives
<1> QED BY <1>1, <1>2, <1>3, <1>4 DEF Sound, u

(* The request is copied, and what changed with it is flagged. *)
LEMMA TakenFacts ==
  ASSUME NEW t \in Thread, NEW f, Coherent(t), Requested(t, f), t.pc \in {"lock", "woken"}
  PROVE  Sound(t, Taken(t), f)
<1>1. CASE t.quit
  BY <1>1, MoveFacts DEF Taken, Between
<1>2. CASE ~t.quit
  <2> DEFINE s == IF "NewOption" \in t.flags THEN t.style ELSE t.lstyle
             u == [t EXCEPT !.pc = "work", !.lflags = t.flags, !.flags = {}, !.ltime = t.time,
                            !.lfps = t.fps, !.lstyle = s]
  <2>1. Taken(t) = u
    BY <1>2 DEF Taken
  <2>2. s \in 0 .. MaxRequests
    BY ThreadType
  <2> HIDE DEF s
  <2>3. /\ u \in Thread /\ u.pc = "work" /\ u.flags = {} /\ u.time = t.time /\ u.fps = t.fps
        /\ u.ltime = t.time /\ u.lstyle = s /\ u.lfps = t.fps /\ u.lflags = t.flags
        /\ u.it = t.it /\ u.pool = t.pool
    BY <2>2 DEF Thread
  <2> HIDE DEF u
  <2>4. t.lflags = {}
    BY DEF Coherent, Between
  <2>5. t.fps = f /\ ("Rebuild" \notin t.flags => t.lfps = f)
    BY DEF Requested
  <2>6. Coherent(u)
    <3>1. ASSUME NEW p \in u.pool
          PROVE  /\ p.fps = u.lfps \/ "Rebuild" \in u.lflags
                 /\ p.style = u.lstyle \/ "NewOption" \in u.lflags
      <4>1. p.fps = t.lfps /\ p.style = t.lstyle
        BY <2>3, <2>4, <3>1 DEF Coherent
      <4> QED BY <2>3, <2>5, <4>1 DEF s
    <3> QED BY <2>3, <3>1 DEF Coherent, Between
  <2>7. Requested(u, f)
    BY <2>3, <2>5 DEF Requested
  <2>8. Survives(t, u)
    BY <2>3, <2>4, <2>5 DEF Survives, Between
  <2> QED BY <2>1, <2>3, <2>6, <2>7, <2>8 DEF Sound
<1> QED BY <1>1, <1>2

(* Under the mutex: to sleep, or off with the request. *)
LEMMA LockFacts ==
  ASSUME NEW t \in Thread, NEW f, Coherent(t), Requested(t, f), t.pc = "lock"
  PROVE  Sound(t, IF Sleeps(t) THEN [t EXCEPT !.pc = "wait"] ELSE Taken(t), f)
BY TakenFacts, MoveFacts DEF Between

(* After Work the thread is at the caption of its time. *)
LEMMA WorkFacts ==
  ASSUME NEW t \in Thread, NEW f, Coherent(t), Requested(t, f), t.pc = "work"
  PROVE  Sound(t, Worked(t), f)
<1> DEFINE it   == IF "Rebuild" \in t.lflags THEN End ELSE t.it
           draw == t.ltime > 0 /\ (t.lflags \cap Forcing # {} \/ it # t.ltime)
           next == it # End /\ it + 1 = t.ltime
           pool == IF next THEN PoolAfter(t) ELSE {}
           x == [t EXCEPT !.pc = "exited"]
           y == [t EXCEPT !.pc = "top", !.it = it, !.pool = PoolAfter(t), !.lflags = {}]
           z == [t EXCEPT !.pc = "post", !.it = t.ltime, !.fill = next, !.lflags = {},
                          !.pool = pool]
<1>1. /\ t.quit => Worked(t) = x
      /\ ~t.quit /\ ~draw => Worked(t) = y
      /\ ~t.quit /\ draw => Worked(t) = z
  BY DEF Worked
<1>2. PoolAfter(t) \subseteq t.pool
      /\ \A p \in PoolAfter(t) : p.fps = t.lfps /\ p.style = t.lstyle
  BY DEF PoolAfter, Coherent
<1>3. t.pool \subseteq Picture /\ it \in Times \cup {End} /\ t.ltime \in Times
  BY ThreadType
<1>4. next \in BOOLEAN
  OBVIOUS
<1>5. pool \subseteq PoolAfter(t)
  OBVIOUS
<1>6. CASE t.quit
  <2>1. /\ x \in Thread /\ x.pc = "exited" /\ x.flags = t.flags /\ x.time = t.time /\ x.fps = t.fps
        /\ x.ltime = t.ltime /\ x.lstyle = t.lstyle /\ x.lfps = t.lfps /\ x.lflags = t.lflags
        /\ x.it = t.it /\ x.pool = t.pool
    BY DEF Thread
  <2> HIDE DEF x
  <2>2. Coherent(x) /\ Requested(x, f)
    BY <2>1 DEF Coherent, Requested, Between
  <2> QED BY <1>1, <1>6, <2>1, <2>2 DEF Sound, Between
<1>7. CASE ~t.quit /\ ~draw
  <2> HIDE DEF it
  <2>1. /\ y \in Thread /\ y.pc = "top" /\ y.flags = t.flags /\ y.time = t.time /\ y.fps = t.fps
        /\ y.ltime = t.ltime /\ y.lstyle = t.lstyle /\ y.lfps = t.lfps /\ y.lflags = {}
        /\ y.it = it /\ y.pool = PoolAfter(t)
    BY <1>2, <1>3 DEF Thread
  <2> HIDE DEF y
  <2>2. y.ltime > 0 => y.it = y.ltime
    BY <1>7, <2>1
  <2>3. Coherent(y)
    BY <1>2, <2>1, <2>2 DEF Coherent, Between
  <2>4. Requested(y, f)
    BY <2>1 DEF Requested
  <2>5. Survives(t, y) \/ y.it = End
    BY <2>1 DEF Survives, Between, it
  <2> QED BY <1>1, <1>7, <2>1, <2>3, <2>4, <2>5 DEF Sound
<1>8. CASE ~t.quit /\ draw
  <2> HIDE DEF next, pool
  <2>1. /\ z \in Thread /\ z.pc = "post" /\ z.flags = t.flags /\ z.time = t.time /\ z.fps = t.fps
        /\ z.ltime = t.ltime /\ z.lstyle = t.lstyle /\ z.lfps = t.lfps /\ z.lflags = {}
        /\ z.it = t.ltime /\ z.pool = pool
    BY <1>2, <1>3, <1>4, <1>5 DEF Thread
  <2> HIDE DEF z
  <2>2. Coherent(z)
    BY <1>2, <1>5, <2>1 DEF Coherent, Between
  <2>3. Requested(z, f)
    BY <2>1 DEF Requested
  <2> QED BY <1>1, <1>8, <2>1, <2>2, <2>3 DEF Sound, Between
<1> QED BY <1>6, <1>7, <1>8

(* The picture that is posted is the one the thread is at, drawn with the  *)
(* options the thread has, from the cache or not.                          *)
LEMMA PostFacts ==
  ASSUME NEW t \in Thread, NEW f, Coherent(t), Requested(t, f), t.pc = "post",
         NEW C \in SUBSET Nat, t.it \in C
  PROVE  LET pic == CHOOSE p \in Cached(t, C) : p.cap = t.it
             u == [t EXCEPT !.pc = "top", !.pool = Cached(t, C), !.fill = FALSE]
         IN  /\ pic \in Picture /\ pic.cap = t.it /\ pic.fps = t.lfps /\ pic.style = t.lstyle
             /\ u \in Thread /\ u.pc = "top" /\ Coherent(u) /\ Requested(u, f)
             /\ u.it = t.it /\ u.lfps = t.lfps
<1>1. /\ t.ltime \in Times /\ t.it = t.ltime /\ t.lflags = {} /\ t.pool \subseteq Picture
      /\ t.lstyle \in 0 .. MaxRequests /\ t.lfps \in 0 .. MaxRequests /\ MaxTime \in Nat
  BY ThreadType, BoundAssumption DEF Coherent
<1>2. \A p \in t.pool : p.fps = t.lfps /\ p.style = t.lstyle
  BY <1>1 DEF Coherent
<1>3. ASSUME NEW p \in Cached(t, C)
      PROVE  p \in Picture /\ p.fps = t.lfps /\ p.style = t.lstyle
  <2>1. CASE p \in t.pool
    BY <1>1, <1>2, <2>1
  <2>2. CASE p \notin t.pool
    <3>1. PICK c \in C : c <= MaxTime /\ p = Drawn(t, c)
      BY <2>2 DEF Cached
    <3>2. c \in Times
      BY <1>1, <3>1 DEF Times
    <3> QED BY <1>1, <3>1, <3>2 DEF Drawn, Picture
  <2> QED BY <2>1, <2>2
<1> DEFINE pic == CHOOSE p \in Cached(t, C) : p.cap = t.it
           u == [t EXCEPT !.pc = "top", !.pool = Cached(t, C), !.fill = FALSE]
<1>4. \E p \in Cached(t, C) : p.cap = t.it
  <2>1. CASE \E p \in t.pool : p.cap = t.it
    <3>1. PICK p \in t.pool : p.cap = t.it
      BY <2>1
    <3>2. p.cap >= t.it
      BY <1>1, <3>1 DEF Times
    <3> QED BY <3>1, <3>2 DEF Cached
  <2>2. CASE \A p \in t.pool : p.cap # t.it
    <3>1. t.it <= MaxTime
      BY <1>1 DEF Times
    <3>2. Drawn(t, t.it) \in Cached(t, C)
      BY <2>2, <3>1 DEF Cached
    <3>3. Drawn(t, t.it).cap = t.it
      BY DEF Drawn
    <3> QED BY <3>2, <3>3
  <2> QED BY <2>1, <2>2
<1>5. pic \in Cached(t, C) /\ pic.cap = t.it
  BY <1>4
<1>6. /\ u \in Thread /\ u.pc = "top" /\ u.flags = t.flags /\ u.time = t.time /\ u.fps = t.fps
      /\ u.ltime = t.ltime /\ u.lstyle = t.lstyle /\ u.lfps = t.lfps /\ u.lflags = t.lflags
      /\ u.it = t.it /\ u.pool = Cached(t, C)
  BY <1>3 DEF Thread
<1> HIDE DEF pic, u
<1>7. Coherent(u)
  BY <1>1, <1>3, <1>6 DEF Coherent, Between
<1>8. Requested(u, f)
  BY <1>6 DEF Requested
<1> QED BY <1>3, <1>5, <1>6, <1>7, <1>8 DEF pic, u

-----------------------------------------------------------------------------
(* What the GUI thread does to threads.                                      *)

(* A request changes what is asked, and wakes. *)
Nudged(t, u) ==
    /\ u \in Thread
    /\ u.pc = t.pc \/ (t.pc = "wait" /\ u.pc = "woken")
    /\ u.ltime = t.ltime /\ u.lstyle = t.lstyle /\ u.lfps = t.lfps /\ u.lflags = t.lflags
    /\ u.it = t.it /\ u.pool = t.pool

(* A thread that has only been given work or woken is as coherent as before. *)
LEMMA NudgedFacts ==
  ASSUME NEW t \in Thread, NEW u, Nudged(t, u), Coherent(t)
  PROVE  Coherent(u)
BY DEF Nudged, Coherent, Between

(* Waking changes nothing else. *)
LEMMA WokenFacts ==
  ASSUME NEW t \in Thread
  PROVE  /\ Nudged(t, Woken(t))
         /\ Woken(t).flags = t.flags /\ Woken(t).time = t.time /\ Woken(t).fps = t.fps
<1> DEFINE x == IF t.pc = "wait" THEN "woken" ELSE t.pc
<1>1. Woken(t) = [t EXCEPT !.pc = x]
  BY DEF Woken
<1>2. x \in Pcs /\ (x = t.pc \/ (t.pc = "wait" /\ x = "woken"))
  BY ThreadType DEF Pcs
<1> HIDE DEF x
<1> QED BY <1>1, <1>2 DEF Nudged, Thread, Pcs

(* render: the threads that are asked know that they are. *)
LEMMA RenderedFacts ==
  ASSUME NEW T \in [Items -> Thread], NEW L, NEW sh \in BOOLEAN, NEW ms \in Times,
         NEW dl \in Delays, NEW flag \in Flags
  PROVE  /\ Rendered(T, L, sh, ms, dl, flag) \in [Items -> Thread]
         /\ \A i \in Items : Nudged(T[i], Rendered(T, L, sh, ms, dl, flag)[i])
         /\ \A i \in Items : \A f : Requested(T[i], f) => Requested(Rendered(T, L, sh, ms, dl, flag)[i], f)
<1> DEFINE R == Rendered(T, L, sh, ms, dl, flag)
           c == sh /\ L # {} /\ ms > 0
           asked == Asked(ms, dl)
<1>1. asked \in Times
  BY BoundAssumption DEF Asked, Times
<1>2. R = IF c THEN [i \in Items |->
                       IF i \in L THEN Woken([T[i] EXCEPT !.time = asked, !.flags = @ \cup {flag}])
                       ELSE T[i]]
          ELSE T
  BY DEF Rendered
<1>3. ASSUME NEW i \in Items
      PROVE  /\ R[i] \in Thread /\ Nudged(T[i], R[i])
             /\ \A f : Requested(T[i], f) => Requested(R[i], f)
  <2>0. T[i] \in Thread
    OBVIOUS
  <2> DEFINE t == T[i]
  <2>1. CASE R[i] = t
    BY <2>0, <2>1 DEF Nudged
  <2>2. CASE R[i] = Woken([t EXCEPT !.time = asked, !.flags = @ \cup {flag}])
    <3> DEFINE v == [t EXCEPT !.time = asked, !.flags = @ \cup {flag}]
    <3>1. t.flags \cup {flag} \subseteq Flags
      BY <2>0, ThreadType
    <3>2. /\ v \in Thread /\ v.pc = t.pc /\ v.fps = t.fps /\ v.flags = t.flags \cup {flag}
          /\ v.ltime = t.ltime /\ v.lstyle = t.lstyle /\ v.lfps = t.lfps /\ v.lflags = t.lflags
          /\ v.it = t.it /\ v.pool = t.pool
      BY <1>1, <2>0, <3>1 DEF Thread
    <3> HIDE DEF v, t
    <3>3. Nudged(v, R[i]) /\ R[i].flags = v.flags /\ R[i].fps = v.fps
      BY <2>2, <3>2, WokenFacts DEF v
    <3>4. Nudged(t, R[i])
      BY <3>2, <3>3 DEF Nudged
    <3>5. ASSUME NEW f, Requested(t, f) PROVE Requested(R[i], f)
      <4>1. R[i].flags # {} /\ ("Rebuild" \notin R[i].flags => "Rebuild" \notin t.flags)
        BY <3>2, <3>3
      <4>2. R[i].lfps = t.lfps /\ R[i].fps = t.fps
        BY <3>2, <3>3 DEF Nudged
      <4> QED BY <3>5, <4>1, <4>2 DEF Requested
    <3> QED BY <3>4, <3>5 DEF Nudged, t
  <2> HIDE DEF R, c, asked
  <2>3. R[i] = t \/ R[i] = Woken([t EXCEPT !.time = asked, !.flags = @ \cup {flag}])
    BY <1>2, <2>0
  <2> QED BY <2>1, <2>2, <2>3
<1>4. R \in [Items -> Thread]
  <2> HIDE DEF asked
  <2>1. R = [i \in Items |-> R[i]]
    BY <1>2
  <2> HIDE DEF R
  <2> QED BY <1>3, <2>1
<1> QED BY <1>3, <1>4

(* A new style is asked of every thread. *)
LEMMA SetDrawerFacts ==
  ASSUME TypeOK, Bounds, SetDrawer
  PROVE  /\ th' \in [Items -> Thread]
         /\ \A i \in Items : /\ Nudged(th[i], th'[i])
                             /\ Requested(th[i], fps) => Requested(th'[i], fps)
<1>1. th \in [Items -> Thread] /\ "NewOption" \in Flags
  BY DEF TypeOK, Flags, Forcing
<1>2. style + 1 \in 0 .. MaxRequests
  <2>1. reqs < MaxRequests
    BY DEF SetDrawer, Request
  <2> QED BY <2>1, BoundAssumption DEF TypeOK, Bounds
<1>3. ASSUME NEW i \in Items
      PROVE  /\ th'[i] \in Thread /\ Nudged(th[i], th'[i])
             /\ Requested(th[i], fps) => Requested(th'[i], fps)
  <2> DEFINE t == th[i]
             v == [t EXCEPT !.style = style + 1, !.flags = @ \cup {"NewOption"}]
  <2>1. t \in Thread
    BY <1>1
  <2>2. t.flags \cup {"NewOption"} \subseteq Flags
    BY <1>1, <2>1, ThreadType
  <2>3. th'[i] = t \/ th'[i] = Woken(v)
    BY DEF SetDrawer, ForThreads
  <2>4. /\ v \in Thread /\ v.pc = t.pc /\ v.fps = t.fps /\ v.flags = t.flags \cup {"NewOption"}
        /\ v.ltime = t.ltime /\ v.lstyle = t.lstyle /\ v.lfps = t.lfps /\ v.lflags = t.lflags
        /\ v.it = t.it /\ v.pool = t.pool /\ v.time = t.time
    BY <1>2, <2>1, <2>2 DEF Thread
  <2> HIDE DEF v, t
  <2>5. CASE th'[i] = t
    BY <2>1, <2>5 DEF Nudged, t
  <2>6. CASE th'[i] = Woken(v)
    <3>1. Nudged(v, th'[i]) /\ th'[i].flags = v.flags /\ th'[i].fps = v.fps
      BY <2>4, <2>6, WokenFacts
    <3>2. th'[i].lfps = t.lfps /\ Nudged(t, th'[i])
      BY <2>4, <3>1 DEF Nudged
    <3> QED BY <2>4, <3>1, <3>2 DEF Requested, Nudged, t
  <2> QED BY <2>3, <2>5, <2>6
<1>4. th' \in [Items -> Thread]
  BY <1>3 DEF SetDrawer, ForThreads
<1> QED BY <1>3, <1>4

(* A new frame rate is asked of every thread. *)
LEMMA SetFPSFacts ==
  ASSUME TypeOK, Bounds, SetFPS
  PROVE  /\ th' \in [Items -> Thread]
         /\ \A i \in Items : Nudged(th[i], th'[i]) /\ (i \in live => Requested(th'[i], fps'))
<1>1. th \in [Items -> Thread] /\ "Rebuild" \in Flags
  BY DEF TypeOK, Flags, Forcing
<1>2. fps + 1 \in 0 .. MaxRequests /\ fps' = fps + 1
  <2>1. reqs < MaxRequests /\ fps' = fps + 1
    BY DEF SetFPS, Request
  <2> QED BY <2>1, BoundAssumption DEF TypeOK, Bounds
<1>3. ASSUME NEW i \in Items
      PROVE  /\ th'[i] \in Thread /\ Nudged(th[i], th'[i])
             /\ i \in live => Requested(th'[i], fps')
  <2> DEFINE t == th[i]
             v == [t EXCEPT !.fps = fps + 1, !.flags = @ \cup {"Rebuild"}]
  <2>1. t \in Thread
    BY <1>1
  <2>2. t.flags \cup {"Rebuild"} \subseteq Flags
    BY <1>1, <2>1, ThreadType
  <2>3. th'[i] = IF i \in live THEN Woken(v) ELSE t
    BY DEF SetFPS, ForThreads
  <2>4. /\ v \in Thread /\ v.pc = t.pc /\ v.fps = fps' /\ v.flags = t.flags \cup {"Rebuild"}
        /\ v.ltime = t.ltime /\ v.lstyle = t.lstyle /\ v.lfps = t.lfps /\ v.lflags = t.lflags
        /\ v.it = t.it /\ v.pool = t.pool /\ v.time = t.time
    BY <1>2, <2>1, <2>2 DEF Thread
  <2> HIDE DEF v, t
  <2>5. CASE i \notin live
    BY <2>1, <2>3, <2>5 DEF Nudged, t
  <2>6. CASE i \in live
    <3>1. Nudged(v, th'[i]) /\ th'[i].flags = v.flags /\ th'[i].fps = v.fps
      BY <2>3, <2>4, <2>6, WokenFacts
    <3>2. Nudged(t, th'[i])
      BY <2>4, <3>1 DEF Nudged
    <3> QED BY <2>4, <3>1, <3>2 DEF Requested, Nudged, t
  <2> QED BY <2>5, <2>6
<1>4. th' \in [Items -> Thread]
  BY <1>3 DEF SetFPS, ForThreads
<1> QED BY <1>3, <1>4

(* Every thread is woken when one is to end. *)
LEMMA FinishFacts ==
  ASSUME TypeOK, NEW i \in Items, Finish(i)
  PROVE  /\ th' \in [Items -> Thread]
         /\ \A j \in Items : /\ Nudged(th[j], th'[j])
                             /\ Requested(th[j], fps) => Requested(th'[j], fps)
<1>1. th \in [Items -> Thread]
  BY DEF TypeOK
<1>2. ASSUME NEW j \in Items
      PROVE  /\ th'[j] \in Thread /\ Nudged(th[j], th'[j])
             /\ Requested(th[j], fps) => Requested(th'[j], fps)
  <2> DEFINE t == th[j]
             q == t.quit \/ j = i
             v == [t EXCEPT !.quit = q]
  <2>1. t \in Thread /\ q \in BOOLEAN
    BY <1>1
  <2>2. th'[j] = t \/ th'[j] = Woken(v)
    BY <1>2 DEF Finish
  <2> HIDE DEF q
  <2>3. /\ v \in Thread /\ v.pc = t.pc /\ v.fps = t.fps /\ v.flags = t.flags
        /\ v.ltime = t.ltime /\ v.lstyle = t.lstyle /\ v.lfps = t.lfps /\ v.lflags = t.lflags
        /\ v.it = t.it /\ v.pool = t.pool /\ v.time = t.time
    BY <2>1 DEF Thread
  <2> HIDE DEF v, t
  <2>4. CASE th'[j] = t
    BY <2>1, <2>4 DEF Nudged, t
  <2>5. CASE th'[j] = Woken(v)
    <3>1. /\ Nudged(v, th'[j]) /\ th'[j].flags = v.flags /\ th'[j].fps = v.fps
          /\ th'[j].time = v.time
      BY <2>3, <2>5, WokenFacts
    <3>2. th'[j].lfps = t.lfps /\ th'[j].ltime = t.ltime /\ Nudged(t, th'[j])
      BY <2>3, <3>1 DEF Nudged
    <3> QED BY <2>3, <3>1, <3>2 DEF Requested, Nudged, t
  <2> QED BY <2>2, <2>4, <2>5
<1>3. th' \in [Items -> Thread]
  BY <1>2 DEF Finish
<1> QED BY <1>2, <1>3

(* A new thread has everything to take. *)
LEMMA PrependedFacts ==
  ASSUME NEW T \in [Items -> Thread], NEW New, style \in 0 .. MaxRequests, fps \in 0 .. MaxRequests
  PROVE  /\ Prepended(T, New) \in [Items -> Thread]
         /\ \A i \in Items \ New : Prepended(T, New)[i] = T[i]
         /\ \A i \in Items \cap New : /\ Coherent(Prepended(T, New)[i])
                                    /\ Requested(Prepended(T, New)[i], fps)
                                    /\ Prepended(T, New)[i].it = End
<1> DEFINE n == [NewThread EXCEPT !.pc = "top", !.flags = {"Rebuild", "NewOption"},
                                  !.style = style, !.fps = fps]
<1>1. MaxRequests \in Nat /\ MaxTime \in Nat
  BY BoundAssumption
<1>2. NewThread \in Thread /\ NewThread.ltime = 0 /\ NewThread.it = End /\ NewThread.pool = {}
      /\ NewThread.lflags = {} /\ NewThread.lfps = 0 /\ NewThread.time = 0
  BY <1>1 DEF NewThread, Thread, Times, Flags, Forcing, Picture
<1>3. {"Rebuild", "NewOption"} \subseteq Flags
  <2>1. "Rebuild" \in Flags /\ "NewOption" \in Flags
    BY DEF Flags, Forcing
  <2> QED BY <2>1
<1> HIDE DEF NewThread
<1>4. /\ n \in Thread /\ n.pc = "top" /\ n.flags = {"Rebuild", "NewOption"} /\ n.fps = fps
      /\ n.ltime = 0 /\ n.it = End /\ n.pool = {} /\ n.lflags = {}
  BY <1>2, <1>3 DEF Thread
<1> HIDE DEF n
<1>5. Coherent(n) /\ Requested(n, fps)
  BY <1>4 DEF Coherent, Requested, Between
<1> QED BY <1>4, <1>5 DEF Prepended, n

(* A thread that is gone has no data. *)
LEMMA NewThreadFacts ==
  NewThread \in Thread /\ NewThread.pc = "off" /\ Coherent(NewThread)
<1>1. MaxRequests \in Nat /\ MaxTime \in Nat
  BY BoundAssumption
<1>2. NewThread \in Thread
  BY <1>1 DEF NewThread, Thread, Times, Flags, Forcing, Picture
<1>3. NewThread.pc = "off" /\ NewThread.pool = {} /\ NewThread.lflags = {}
  BY DEF NewThread
<1> QED BY <1>2, <1>3 DEF Coherent, Between

-----------------------------------------------------------------------------
(* The invariant.                                                            *)

(* The initial states satisfy the invariant. *)
LEMMA InitIInv == Init => IInv
<1> SUFFICES ASSUME Init PROVE IInv
  OBVIOUS
<1>1. MaxRequests \in Nat /\ MaxTime \in Nat /\ MaxItems \in Nat /\ 0 \in Delays
  BY BoundAssumption
<1>2. th = [i \in Items |-> NewThread] /\ evq = <<>> /\ live = {} /\ gpc = "idle"
      /\ born = 0 /\ selected = 0 /\ style = 0 /\ fps = 0 /\ reqs = 0 /\ todo = {} /\ joining = 0
      /\ shown = TRUE /\ msec = 0 /\ delay = 0 /\ image = [i \in Items |-> NoPicture]
  BY DEF Init
<1>3. th \in [Items -> Thread]
  BY <1>2, NewThreadFacts
<1>4. TypeOK
  <2>1. NoPicture \in Picture
    BY <1>1 DEF NoPicture, Picture, Times
  <2>2. image \in [Items -> Picture]
    BY <1>2, <2>1
  <2>3. evq \in Seq([item : Items, pic : Picture]) /\ 0 \in Times
    BY <1>1, <1>2 DEF Times
  <2> QED BY <1>1, <1>2, <1>3, <2>2, <2>3 DEF TypeOK
<1>5. Bounds
  BY <1>1, <1>2, NewThreadFacts DEF Bounds
<1>6. Threads
  BY <1>2, NewThreadFacts DEF Threads
<1>7. Arriving
  BY <1>2 DEF Arriving, NoDanglingImage
<1> QED BY <1>4, <1>5, <1>6, <1>7 DEF IInv

(* What a step of a thread does. *)
LEMMA RunFacts ==
  ASSUME TypeOK, Bounds, Threads, NEW i \in Items, Run(i)
  PROVE  /\ i \in live /\ th[i] \in Thread /\ UNCHANGED <<guiVars, finVars, reqs>>
         /\ \E u \in Thread :
              /\ th' = [th EXCEPT ![i] = u] /\ u.pc # "off"
              /\ Coherent(u) /\ Requested(u, fps)
              /\ \/ UNCHANGED evq /\ Sound(th[i], u, fps)
                 \/ \E pic \in Picture :
                       /\ Post(i) /\ evq' = Append(evq, [item |-> i, pic |-> pic])
                       /\ pic.cap = u.it /\ pic.fps = u.lfps
                       /\ pic.fps = th[i].lfps /\ pic.style = th[i].lstyle
<1>1. th[i] \in Thread /\ th[i].pc # "off"
  BY DEF TypeOK, Run, Top, Lock, WakeUp, Work, Post
<1>2. i \in live
  BY <1>1 DEF Bounds
<1>3. Coherent(th[i]) /\ Requested(th[i], fps)
  BY <1>2 DEF Threads
<1>4. UNCHANGED <<guiVars, finVars, reqs>>
  BY DEF Run, Top, Lock, WakeUp, Work, Post, Step
<1>5. ASSUME NEW u, Sound(th[i], u, fps), th' = [th EXCEPT ![i] = u], UNCHANGED evq
      PROVE  \E v \in Thread :
               /\ th' = [th EXCEPT ![i] = v] /\ v.pc # "off"
               /\ Coherent(v) /\ Requested(v, fps) /\ UNCHANGED evq /\ Sound(th[i], v, fps)
  BY <1>5 DEF Sound
<1>6. CASE Top(i)
  <2> DEFINE x == IF th[i].quit THEN "exited" ELSE "lock"
  <2>1. th' = [th EXCEPT ![i] = [th[i] EXCEPT !.pc = x]] /\ UNCHANGED evq /\ th[i].pc = "top"
    BY <1>6 DEF Top, Step
  <2>2. Sound(th[i], [th[i] EXCEPT !.pc = x], fps)
    BY <1>1, <1>3, <2>1, MoveFacts DEF Between
  <2> QED BY <1>2, <1>1, <1>4, <1>5, <2>1, <2>2
<1>7. CASE Lock(i)
  <2> DEFINE u == IF Sleeps(th[i]) THEN [th[i] EXCEPT !.pc = "wait"] ELSE Taken(th[i])
  <2>1. th' = [th EXCEPT ![i] = u] /\ UNCHANGED evq /\ th[i].pc = "lock"
    BY <1>7 DEF Lock, Step
  <2>2. Sound(th[i], u, fps)
    BY <1>1, <1>3, <2>1, LockFacts
  <2> QED BY <1>2, <1>1, <1>4, <1>5, <2>1, <2>2
<1>8. CASE WakeUp(i)
  <2>1. th' = [th EXCEPT ![i] = Taken(th[i])] /\ UNCHANGED evq /\ th[i].pc = "woken"
    BY <1>8 DEF WakeUp, Step
  <2>2. Sound(th[i], Taken(th[i]), fps)
    BY <1>1, <1>3, <2>1, TakenFacts
  <2> QED BY <1>2, <1>1, <1>4, <1>5, <2>1, <2>2
<1>9. CASE Work(i)
  <2>1. th' = [th EXCEPT ![i] = Worked(th[i])] /\ UNCHANGED evq /\ th[i].pc = "work"
    BY <1>9 DEF Work, Step
  <2>2. Sound(th[i], Worked(th[i]), fps)
    BY <1>1, <1>3, <2>1, WorkFacts
  <2> QED BY <1>2, <1>1, <1>4, <1>5, <2>1, <2>2
<1>10. CASE Post(i)
  <2> DEFINE t == th[i]
             C == IF t.fill THEN t.it .. t.it + 2 ELSE {t.it}
             pic == CHOOSE p \in Cached(t, C) : p.cap = t.it
             u == [t EXCEPT !.pc = "top", !.pool = Cached(t, C), !.fill = FALSE]
  <2>1. t.it \in Nat /\ t.pc = "post"
    BY <1>1, <1>3, <1>10, ThreadType, BoundAssumption DEF Post, Coherent, Times
  <2>2. C \subseteq Nat /\ t.it \in C
    BY <2>1
  <2>3. /\ th' = [th EXCEPT ![i] = u] /\ evq' = Append(evq, [item |-> i, pic |-> pic])
    BY <1>10 DEF Post, Step
  <2> HIDE DEF C
  <2>4. /\ pic \in Picture /\ pic.cap = t.it /\ pic.fps = t.lfps /\ pic.style = t.lstyle
        /\ u \in Thread /\ u.pc = "top" /\ Coherent(u) /\ Requested(u, fps)
        /\ u.it = t.it /\ u.lfps = t.lfps
    BY <1>1, <1>3, <2>1, <2>2, PostFacts
  <2> HIDE DEF t, pic, u
  <2>5. /\ pic.cap = u.it /\ pic.fps = u.lfps /\ u.pc # "off"
    BY <2>4
  <2> QED BY <1>1, <1>2, <1>4, <1>10, <2>3, <2>4, <2>5 DEF t
<1> QED BY <1>1, <1>2, <1>4, <1>6, <1>7, <1>8, <1>9, <1>10 DEF Run

(* Every variable keeps its type, and every thread knows what it has to. *)
LEMMA ThreadsNext ==
  ASSUME TypeOK, Bounds, Threads, Next
  PROVE  TypeOK' /\ Bounds' /\ Threads'
<1>1. /\ live \subseteq Items /\ born \in 0 .. MaxItems /\ image \in [Items -> Picture]
      /\ shown \in BOOLEAN /\ msec \in Times /\ delay \in Delays
      /\ style \in 0 .. MaxRequests /\ fps \in 0 .. MaxRequests
      /\ evq \in Seq([item : Items, pic : Picture]) /\ gpc \in {"idle", "clear", "remove"}
      /\ todo \subseteq live /\ joining \in Items \cup {0} /\ selected \in 0 .. MaxItems
      /\ th \in [Items -> Thread] /\ reqs \in 0 .. MaxRequests
  BY DEF TypeOK
<1>2. MaxRequests \in Nat /\ MaxTime \in Nat /\ MaxItems \in Nat
  BY BoundAssumption
<1>3. /\ style <= reqs /\ fps <= reqs /\ born + selected <= MaxItems /\ live \subseteq 1 .. born
      /\ (gpc # "clear" => selected = 0) /\ \A i \in Items \ live : th[i].pc = "off"
  BY DEF Bounds
<1>4. Items = 1 .. MaxItems
  BY DEF Items
<1>5. "Tick" \in Flags /\ "Rerender" \in Flags /\ "NewOption" \in Flags /\ "Rebuild" \in Flags
  BY DEF Flags, Forcing
<1> USE DEF guiVars, finVars
\* what the GUI thread asks of threads that stay
<1>6. ASSUME th' \in [Items -> Thread], UNCHANGED <<live, born, selected>>,
             gpc' = "clear" \/ (gpc # "clear" /\ gpc' # "clear") \/ UNCHANGED gpc,
             gpc' \in {"idle", "clear", "remove"},
             style' \in 0 .. MaxRequests, fps' \in 0 .. MaxRequests, reqs' \in 0 .. MaxRequests,
             style' <= reqs', fps' <= reqs',
             \A i \in Items : Nudged(th[i], th'[i]),
             \A i \in live : Requested(th'[i], fps')
      PROVE  Bounds' /\ Threads'
  <2>1. \A i \in Items : Coherent(th'[i])
    BY <1>1, <1>6, NudgedFacts DEF Threads
  <2>2. \A i \in Items \ live : th'[i].pc = "off"
    BY <1>3, <1>6 DEF Nudged
  <2>3. gpc' # "clear" => selected' = 0
    BY <1>3, <1>6
  <2> QED BY <1>3, <1>6, <2>1, <2>2, <2>3 DEF Bounds, Threads
<1>7. \A i \in live : Requested(th[i], fps)
  BY <1>1 DEF Threads
<1>8. ASSUME Request PROVE reqs' \in 0 .. MaxRequests /\ reqs' = reqs + 1 /\ gpc = "idle"
  BY <1>1, <1>2, <1>8 DEF Request
<1>9. ASSUME NEW ms \in Times, NEW dl \in Delays, NEW flag \in Flags,
             th' = Rendered(th, live, shown, ms, dl, flag),
             UNCHANGED <<live, born, selected, style, fps, gpc>>, reqs' = reqs + 1,
             reqs' \in 0 .. MaxRequests
      PROVE  th' \in [Items -> Thread] /\ Bounds' /\ Threads'
  <2>1. /\ th' \in [Items -> Thread] /\ \A i \in Items : Nudged(th[i], th'[i])
        /\ \A i \in Items : Requested(th[i], fps) => Requested(th'[i], fps)
    BY <1>1, <1>9, RenderedFacts
  <2>2. style' <= reqs' /\ fps' <= reqs'
    BY <1>1, <1>3, <1>9
  <2> QED BY <1>1, <1>6, <1>7, <1>9, <2>1, <2>2
<1>10. CASE Tick
  <2>1. PICK ms \in Times : msec' = ms /\ th' = Rendered(th, live, shown, ms, delay, "Tick")
    BY <1>10 DEF Tick
  <2>2. th' \in [Items -> Thread] /\ Bounds' /\ Threads'
    BY <1>1, <1>5, <1>8, <1>9, <1>10, <2>1 DEF Tick
  <2> QED BY <1>1, <1>8, <1>10, <2>1, <2>2 DEF Tick, TypeOK
<1>11. CASE SetDelay
  <2>1. PICK dl \in Delays : delay' = dl /\ th' = Rendered(th, live, shown, msec, dl, "Rerender")
    BY <1>11 DEF SetDelay
  <2>2. th' \in [Items -> Thread] /\ Bounds' /\ Threads'
    BY <1>1, <1>5, <1>8, <1>9, <1>11, <2>1 DEF SetDelay
  <2> QED BY <1>1, <1>8, <1>11, <2>1, <2>2 DEF SetDelay, TypeOK
<1>12. CASE SetDrawer
  <2>1. style + 1 \in 0 .. MaxRequests /\ style' = style + 1 /\ style' <= reqs' /\ fps' <= reqs'
        /\ UNCHANGED fps
    <3>1. Request /\ UNCHANGED fps /\ style' = style + 1
      BY <1>12 DEF SetDrawer
    <3>2. reqs' \in 0 .. MaxRequests /\ reqs' = reqs + 1
      BY <1>8, <3>1
    <3> QED BY <1>1, <1>2, <1>3, <3>1, <3>2
  <2>2. /\ th' \in [Items -> Thread]
        /\ \A i \in Items : /\ Nudged(th[i], th'[i])
                            /\ Requested(th[i], fps) => Requested(th'[i], fps)
    BY <1>12, SetDrawerFacts
  <2>4. Bounds' /\ Threads'
    BY <1>1, <1>6, <1>7, <1>8, <1>12, <2>1, <2>2 DEF SetDrawer
  <2> QED BY <1>1, <1>8, <1>12, <2>1, <2>2, <2>4 DEF SetDrawer, TypeOK
<1>13. CASE SetFPS
  <2>1. fps + 1 \in 0 .. MaxRequests /\ fps' = fps + 1 /\ style' <= reqs' /\ fps' <= reqs'
        /\ UNCHANGED style
    <3>1. Request /\ UNCHANGED style /\ fps' = fps + 1
      BY <1>13 DEF SetFPS
    <3>2. reqs' \in 0 .. MaxRequests /\ reqs' = reqs + 1
      BY <1>8, <3>1
    <3> QED BY <1>1, <1>2, <1>3, <3>1, <3>2
  <2>2. /\ th' \in [Items -> Thread]
        /\ \A i \in Items : Nudged(th[i], th'[i]) /\ (i \in live => Requested(th'[i], fps'))
    BY <1>13, SetFPSFacts
  <2>4. Bounds' /\ Threads'
    BY <1>1, <1>6, <1>8, <1>13, <2>1, <2>2 DEF SetFPS
  <2> QED BY <1>1, <1>8, <1>13, <2>1, <2>2, <2>4 DEF SetFPS, TypeOK
\* threads are left alone
<1>14. ASSUME UNCHANGED <<th, live, born, selected, style, fps>>, reqs' \in {reqs, reqs + 1},
              reqs' \in 0 .. MaxRequests, gpc' \in {"idle", "clear", "remove"},
              gpc' = "clear" \/ (gpc # "clear" /\ gpc' # "clear") \/ UNCHANGED gpc
       PROVE  Bounds' /\ Threads'
  <2>1. \A i \in Items : Nudged(th[i], th'[i])
    BY <1>1, <1>14 DEF Nudged
  <2>2. style' <= reqs' /\ fps' <= reqs'
    BY <1>1, <1>3, <1>14
  <2> QED BY <1>1, <1>6, <1>7, <1>14, <2>1, <2>2
<1>15. CASE SetHidden
  <2>1. UNCHANGED <<th, live, born, selected, style, fps, gpc>>
    BY <1>15 DEF SetHidden
  <2>2. Bounds' /\ Threads'
    BY <1>1, <1>8, <1>14, <1>15, <2>1 DEF SetHidden
  <2> QED BY <1>1, <1>8, <1>15, <2>2 DEF SetHidden, TypeOK
<1>16. CASE Clear
  <2>1. UNCHANGED <<th, live, born, style, fps>> /\ gpc' = "clear" /\ selected' \in 0 .. MaxItems - born
    BY <1>16 DEF Clear
  <2>2. Bounds' /\ Threads'
    <3>1. Threads'
      BY <2>1 DEF Threads
    <3>2. style' <= reqs' /\ fps' <= reqs' /\ born' + selected' <= MaxItems
      <4>1. Request /\ UNCHANGED <<style, fps, born>>
        BY <1>16 DEF Clear
      <4>2. reqs' = reqs + 1
        BY <1>8, <4>1
      <4>3. born + selected' <= MaxItems
        <5>1. born \in Int /\ MaxItems \in Int /\ selected' \in Int /\ selected' <= MaxItems - born
          BY <1>1, <1>2, <2>1
        <5>2. \A a, b, c \in Int : a <= c - b => b + a <= c
          OBVIOUS
        <5> QED BY <5>1, <5>2
      <4>4. style <= reqs' /\ fps <= reqs'
        BY <1>1, <1>3, <4>2
      <4> QED BY <4>1, <4>3, <4>4
    <3> QED BY <1>3, <2>1, <3>1, <3>2 DEF Bounds
  <2>3. selected' \in 0 .. MaxItems
    BY <1>1, <1>2, <2>1
  <2> QED BY <1>1, <1>8, <1>16, <2>2, <2>3 DEF Clear, TypeOK
<1>17. CASE Deselect
  <2>1. PICK i \in live : todo' = {i}
    BY <1>17 DEF Deselect
  <2>2. Bounds' /\ Threads'
    BY <1>1, <1>8, <1>14, <1>17 DEF Deselect
  <2> QED BY <1>1, <1>8, <1>17, <2>1, <2>2 DEF Deselect, TypeOK
<1>18. CASE Select
  <2> DEFINE P == Prepended(th, {born + 1})
  <2>1. /\ born + 1 \in Items /\ born' = born + 1 /\ live' = live \cup {born + 1} /\ gpc' = gpc
        /\ gpc = "idle" /\ selected = 0 /\ UNCHANGED <<selected, style, fps>>
        /\ th' = Rendered(P, live', shown, msec, delay, "Rerender")
    BY <1>1, <1>2, <1>3, <1>4, <1>8, <1>18 DEF Select
  <2>2. /\ P \in [Items -> Thread] /\ \A i \in Items : i # born + 1 => P[i] = th[i]
        /\ Coherent(P[born + 1]) /\ Requested(P[born + 1], fps)
    BY <1>1, <2>1, PrependedFacts
  <2> HIDE DEF P
  <2>3. /\ th' \in [Items -> Thread] /\ \A i \in Items : Nudged(P[i], th'[i])
        /\ \A i \in Items : Requested(P[i], fps) => Requested(th'[i], fps)
    BY <1>1, <1>5, <2>1, <2>2, RenderedFacts
  <2>4. Threads'
    <3>1. \A i \in Items : Coherent(P[i]) /\ P[i] \in Thread
      BY <2>2 DEF Threads
    <3>2. \A i \in Items : Coherent(th'[i])
      BY <2>3, <3>1, NudgedFacts
    <3>3. \A i \in live' : Requested(th'[i], fps')
      BY <1>1, <1>7, <2>1, <2>2, <2>3
    <3> QED BY <3>2, <3>3 DEF Threads
  <2>5. Bounds'
    <3>1. ASSUME NEW i \in Items \ live' PROVE th'[i].pc = "off"
      <4>1. P[i] = th[i] /\ th[i].pc = "off"
        BY <1>3, <2>1, <2>2
      <4>2. Nudged(P[i], th'[i])
        BY <2>3
      <4> QED BY <4>1, <4>2 DEF Nudged
    <3>2. style' <= reqs' /\ fps' <= reqs' /\ born' + selected' <= MaxItems
      BY <1>1, <1>2, <1>3, <1>4, <1>8, <1>18, <2>1 DEF Select
    <3>3. live' \subseteq 1 .. born'
      BY <1>1, <1>3, <2>1
    <3> QED BY <2>1, <3>1, <3>2, <3>3 DEF Bounds
  <2>6. live' \subseteq Items /\ born' \in 0 .. MaxItems /\ todo \subseteq live'
    BY <1>1, <1>2, <1>4, <2>1
  <2> QED BY <1>1, <1>8, <1>18, <2>3, <2>4, <2>5, <2>6 DEF Select, TypeOK
<1>19. ASSUME NEW i \in Items, Finish(i) PROVE TypeOK' /\ Bounds' /\ Threads'
  <2>2. /\ th' \in [Items -> Thread]
        /\ \A j \in Items : /\ Nudged(th[j], th'[j])
                            /\ Requested(th[j], fps) => Requested(th'[j], fps)
    BY <1>19, FinishFacts
  <2>3. Bounds' /\ Threads'
    BY <1>1, <1>3, <1>6, <1>7, <1>19, <2>2 DEF Finish
  <2>4. todo' \subseteq live' /\ joining' \in Items \cup {0}
    BY <1>1, <1>19 DEF Finish
  <2> QED BY <1>1, <1>19, <2>2, <2>3, <2>4 DEF Finish, TypeOK
<1>20. CASE Join
  <2>1. Bounds' /\ Threads'
    BY <1>1, <1>14, <1>20 DEF Join
  <2> QED BY <1>1, <1>20, <2>1 DEF Join, TypeOK
<1>21. CASE Expired
  <2>1. joining \in Items /\ th[joining] \in Thread /\ th[joining].pc = "wait"
    BY <1>1, <1>21 DEF Expired, Expires
  <2>2. joining \in live
    BY <1>3, <2>1
  <2> DEFINE u == [th[joining] EXCEPT !.pc = "dead"]
  <2>3. th' = [th EXCEPT ![joining] = u] /\ UNCHANGED <<guiVars, finVars, evq, reqs>>
    BY <1>21 DEF Expired
  <2>4. Sound(th[joining], u, fps)
    BY <1>7, <2>1, <2>2, MoveFacts DEF Threads, Between
  <2> HIDE DEF u
  <2>5. th' \in [Items -> Thread]
    BY <1>1, <2>3, <2>4 DEF Sound
  <2>6. Bounds' /\ Threads'
    BY <1>1, <2>2, <2>3, <2>4 DEF Bounds, Threads, Sound
  <2> QED BY <1>1, <2>3, <2>5, <2>6 DEF TypeOK
<1>22. CASE Cleared
  <2> DEFINE New == born + 1 .. born + selected
             K == Kept(th, {})
             P == Prepended(K, New)
  <2>1. /\ live' = New /\ born' = born + selected /\ gpc' = "idle" /\ selected' = 0
        /\ th' = Rendered(P, New, shown, msec, delay, "Rerender")
        /\ UNCHANGED <<style, fps, reqs, todo, joining>> /\ todo = {}
    BY <1>22 DEF Cleared
  <2>2. New \subseteq Items /\ New \subseteq 1 .. born' /\ born' \in 0 .. MaxItems
    BY <1>1, <1>2, <1>3, <1>4, <2>1
  <2>3. K \in [Items -> Thread] /\ \A i \in Items : K[i] = NewThread
    BY NewThreadFacts DEF Kept
  <2> HIDE DEF New, K
  <2>4. /\ P \in [Items -> Thread] /\ \A i \in Items \ New : P[i] = NewThread
        /\ \A i \in New : Coherent(P[i]) /\ Requested(P[i], fps)
    BY <1>1, <2>2, <2>3, PrependedFacts
  <2> HIDE DEF P
  <2>5. /\ th' \in [Items -> Thread] /\ \A i \in Items : Nudged(P[i], th'[i])
        /\ \A i \in Items : Requested(P[i], fps) => Requested(th'[i], fps)
    BY <1>1, <1>5, <2>1, <2>4, RenderedFacts
  <2>6. Threads'
    <3>1. \A i \in Items : Coherent(P[i]) /\ P[i] \in Thread
      BY <2>4, NewThreadFacts
    <3>2. \A i \in Items : Coherent(th'[i])
      BY <2>5, <3>1, NudgedFacts
    <3>3. \A i \in live' : Requested(th'[i], fps')
      BY <2>1, <2>2, <2>4, <2>5
    <3> QED BY <3>2, <3>3 DEF Threads
  <2>7. Bounds'
    <3>1. \A i \in Items \ live' : th'[i].pc = "off"
      BY <2>1, <2>4, <2>5, NewThreadFacts DEF Nudged
    <3> QED BY <1>2, <1>3, <2>1, <2>2, <3>1 DEF Bounds
  <2>8. /\ evq' \in Seq([item : Items, pic : Picture]) /\ image' \in [Items -> Picture]
    <3>1. NoPicture \in Picture
      BY <1>2 DEF NoPicture, Picture, Times
    <3> QED BY <1>22, <3>1 DEF Cleared, Purged
  <2> QED BY <1>1, <1>2, <1>22, <2>1, <2>2, <2>5, <2>6, <2>7, <2>8 DEF Cleared, TypeOK
<1>23. CASE Removed
  <2>1. PICK i \in live :
          /\ live' = live \ {i}
          /\ th' = Rendered(Kept(th, live \ {i}), live', shown, msec, delay, "Rerender")
          /\ image' = [image EXCEPT ![i] = NoPicture]
    BY <1>23 DEF Removed
  <2> DEFINE K == Kept(th, live \ {i})
  <2>2. /\ K \in [Items -> Thread] /\ \A j \in live \ {i} : K[j] = th[j]
        /\ \A j \in Items \ (live \ {i}) : K[j] = NewThread
    BY <1>1, NewThreadFacts DEF Kept
  <2>3. th' = Rendered(K, live', shown, msec, delay, "Rerender")
    BY <2>1
  <2> HIDE DEF K
  <2>4. /\ th' \in [Items -> Thread] /\ \A j \in Items : Nudged(K[j], th'[j])
        /\ \A j \in Items : Requested(K[j], fps) => Requested(th'[j], fps)
    BY <1>1, <1>5, <2>2, <2>3, RenderedFacts
  <2>5. Threads'
    <3>1. \A j \in Items : Coherent(K[j]) /\ K[j] \in Thread
      BY <1>1, <2>2, NewThreadFacts DEF Threads
    <3>2. \A j \in Items : Coherent(th'[j])
      BY <2>4, <3>1, NudgedFacts
    <3>3. \A j \in live' : Requested(th'[j], fps')
      BY <1>1, <1>7, <1>23, <2>1, <2>2, <2>4 DEF Removed
    <3> QED BY <3>2, <3>3 DEF Threads
  <2>6. Bounds'
    <3>1. ASSUME NEW j \in Items \ live' PROVE th'[j].pc = "off"
      <4>1. K[j].pc = "off"
        BY <2>1, <2>2, NewThreadFacts
      <4>2. Nudged(K[j], th'[j])
        BY <2>4
      <4> QED BY <4>1, <4>2 DEF Nudged
    <3>2. selected = 0
      BY <1>3, <1>23 DEF Removed
    <3> QED BY <1>3, <1>23, <2>1, <3>1, <3>2 DEF Removed, Bounds
  <2>7. image' \in [Items -> Picture] /\ todo' \subseteq live'
    <3>1. NoPicture \in Picture
      BY <1>2 DEF NoPicture, Picture, Times
    <3> QED BY <1>1, <1>23, <2>1, <3>1 DEF Removed
  <2> QED BY <1>1, <1>23, <2>1, <2>4, <2>5, <2>6, <2>7 DEF Removed, TypeOK
<1>24. CASE ImagePrepared
  <2>1. Bounds' /\ Threads'
    BY <1>1, <1>14, <1>24 DEF ImagePrepared
  <2>2. Head(evq) \in [item : Items, pic : Picture] /\ Tail(evq) \in Seq([item : Items, pic : Picture])
    BY <1>1, <1>24, HeadTailProperties DEF ImagePrepared
  <2>3. image' \in [Items -> Picture]
    <3>1. PICK i \in {Head(evq).item} \cup {0} \cup live :
            image' = IF i = 0 THEN image ELSE [image EXCEPT ![i] = Head(evq).pic]
      BY <1>24 DEF ImagePrepared
    <3>2. Head(evq).pic \in Picture
      BY <2>2
    <3> QED BY <1>1, <3>1, <3>2
  <2> QED BY <1>1, <1>24, <2>1, <2>2, <2>3 DEF ImagePrepared, TypeOK
<1>25. ASSUME NEW i \in Items, Run(i) PROVE TypeOK' /\ Bounds' /\ Threads'
  <2>1. i \in live /\ UNCHANGED <<guiVars, finVars, reqs>>
    BY <1>25, RunFacts
  <2>2. PICK u \in Thread :
              /\ th' = [th EXCEPT ![i] = u] /\ u.pc # "off"
              /\ Coherent(u) /\ Requested(u, fps)
              /\ \/ UNCHANGED evq
                 \/ \E pic \in Picture : evq' = Append(evq, [item |-> i, pic |-> pic])
    BY <1>25, RunFacts
  <2>3. evq' \in Seq([item : Items, pic : Picture])
    <3>1. ASSUME NEW pic \in Picture PROVE Append(evq, [item |-> i, pic |-> pic])
                                            \in Seq([item : Items, pic : Picture])
      BY <1>1, AppendProperties
    <3> QED BY <1>1, <2>2, <3>1
  <2>4. th' \in [Items -> Thread]
    BY <1>1, <2>2
  <2>5. Bounds' /\ Threads'
    BY <1>1, <2>1, <2>2 DEF Bounds, Threads
  <2> QED BY <1>1, <2>1, <2>3, <2>4, <2>5 DEF TypeOK
<1> QED BY <1>10, <1>11, <1>12, <1>13, <1>15, <1>16, <1>17, <1>18, <1>19, <1>20, <1>21, <1>22,
           <1>23, <1>24, <1>25 DEF Next, User, Gui

-----------------------------------------------------------------------------
(* Pictures on their way.                                                    *)

(* A picture stays the last of its Item while others are posted, and while *)
(* pictures are delivered.                                                 *)
LEMMA LatestFacts ==
  ASSUME TypeOK, NEW i \in Items
  PROVE  /\ UNCHANGED <<image, evq>> => \A p : Latest(i, p) => Latest(i, p)'
         /\ \A e \in [item : Items, pic : Picture] :
              evq' = Append(evq, e) /\ UNCHANGED image =>
                /\ e.item = i => Latest(i, e.pic)'
                /\ e.item # i => \A p : Latest(i, p) => Latest(i, p)'
         /\ evq # <<>> /\ evq' = Tail(evq)
              /\ image' = [image EXCEPT ![Head(evq).item] = Head(evq).pic]
              => \A p : Latest(i, p) => Latest(i, p)'
<1>1. evq \in Seq([item : Items, pic : Picture]) /\ Len(evq) \in Nat /\ image \in [Items -> Picture]
  BY DEF TypeOK
<1>2. UNCHANGED <<image, evq>> => \A p : Latest(i, p) => Latest(i, p)'
  BY DEF Latest
<1>3. ASSUME NEW e \in [item : Items, pic : Picture], evq' = Append(evq, e), UNCHANGED image
      PROVE  /\ e.item = i => Latest(i, e.pic)'
             /\ e.item # i => \A p : Latest(i, p) => Latest(i, p)'
  <2> DEFINE n == Len(evq) + 1
  <2>1. /\ Len(evq') = n /\ evq'[n] = e /\ \A k \in 1 .. Len(evq) : evq'[k] = evq[k]
    BY <1>1, <1>3, AppendProperties
  <2>2. /\ n \in 1 .. n /\ \A k \in 1 .. Len(evq) : k \in 1 .. n
        /\ \A k \in 1 .. n : k \in 1 .. Len(evq) \/ k = n
        /\ \A k \in 1 .. n : ~(n < k)
    BY <1>1
  <2> HIDE DEF n
  <2>3. ASSUME e.item = i PROVE Latest(i, e.pic)'
    BY <2>1, <2>2, <2>3 DEF Latest
  <2>4. ASSUME e.item # i, NEW p, Latest(i, p) PROVE Latest(i, p)'
    <3>1. CASE image[i] = p /\ \A k \in 1 .. Len(evq) : evq[k].item # i
      BY <1>3, <2>1, <2>2, <2>4, <3>1 DEF Latest
    <3>2. CASE \E k \in 1 .. Len(evq) :
                  /\ evq[k].item = i /\ evq[k].pic = p
                  /\ \A l \in 1 .. Len(evq) : k < l => evq[l].item # i
      BY <2>1, <2>2, <2>4, <3>2 DEF Latest
    <3> QED BY <2>4, <3>1, <3>2 DEF Latest
  <2> QED BY <2>3, <2>4
<1>4. ASSUME evq # <<>>, evq' = Tail(evq),
             image' = [image EXCEPT ![Head(evq).item] = Head(evq).pic], NEW p, Latest(i, p)
      PROVE  Latest(i, p)'
  <2> DEFINE m == Len(evq) - 1
  <2>1. /\ m \in Nat /\ Len(evq') = m /\ \A k \in 1 .. m : evq'[k] = evq[k + 1]
        /\ Head(evq) = evq[1] /\ evq[1] \in [item : Items, pic : Picture]
        /\ 1 \in 1 .. Len(evq)
    <3>1. /\ evq \in Seq([item : Items, pic : Picture]) /\ Len(evq) \in Nat /\ Len(evq) # 0
          /\ Head(evq) = evq[1] /\ Head(evq) \in [item : Items, pic : Picture]
      <4> DEFINE E == [item : Items, pic : Picture]
      <4>1. evq \in Seq(E) /\ Len(evq) \in Nat /\ evq # <<>>
        BY <1>1, <1>4
      <4> HIDE DEF E
      <4>2. Len(evq) # 0
        BY <4>1, EmptySeq
      <4>3. Head(evq) = evq[1]
        BY <4>1
      <4>4. Head(evq) \in E
        BY <4>1, HeadTailProperties
      <4> QED BY <4>1, <4>2, <4>3, <4>4 DEF E
    <3>2. Len(evq') = Len(evq) - 1 /\ \A k \in 1 .. Len(evq') : evq'[k] = evq[k + 1]
      BY <1>4, <3>1, HeadTailProperties
    <3> QED BY <3>1, <3>2
  <2>2. /\ \A k \in 1 .. m : k + 1 \in 1 .. Len(evq) /\ 1 < k + 1
        /\ \A k \in 1 .. Len(evq) : k = 1 \/ (k - 1 \in 1 .. m /\ (k - 1) + 1 = k)
        /\ \A k, l \in 1 .. m : k < l => k + 1 < l + 1
    BY <1>1, <2>1
  <2> HIDE DEF m
  <2>3. CASE image[i] = p /\ \A k \in 1 .. Len(evq) : evq[k].item # i
    BY <1>1, <1>4, <2>1, <2>2, <2>3 DEF Latest
  <2>4. ASSUME NEW k \in 1 .. Len(evq), evq[k].item = i, evq[k].pic = p,
               \A l \in 1 .. Len(evq) : k < l => evq[l].item # i
        PROVE  Latest(i, p)'
    <3>1. CASE k = 1
      <4>1. image'[i] = p
        BY <1>1, <1>4, <2>1, <2>4, <3>1
      <4>2. \A l \in 1 .. m : evq'[l].item # i
        BY <2>1, <2>2, <2>4, <3>1
      <4> QED BY <2>1, <4>1, <4>2 DEF Latest
    <3>2. CASE k # 1
      <4>1. k - 1 \in 1 .. m /\ evq'[k - 1] = evq[k]
        BY <2>1, <2>2, <3>2
      <4>2. ASSUME NEW l \in 1 .. m, k - 1 < l PROVE evq'[l].item # i
        <5>1. k < l + 1
          BY <2>2, <3>2, <4>1, <4>2
        <5> QED BY <2>1, <2>2, <2>4, <5>1
      <4> QED BY <2>1, <2>4, <4>1, <4>2 DEF Latest
    <3> QED BY <3>1, <3>2
  <2> QED BY <1>4, <2>3, <2>4 DEF Latest
<1> QED BY <1>2, <1>3, <1>4

(* Where single subtitles are not deselected, a picture reaches the Item   *)
(* of the thread that drew it.                                             *)
LEMMA ArrivingNext ==
  ASSUME TypeOK, Bounds, Threads, Arriving, Next, ~Deselects
  PROVE  Arriving'
<1>1. /\ live \subseteq Items /\ th \in [Items -> Thread] /\ image \in [Items -> Picture]
      /\ evq \in Seq([item : Items, pic : Picture]) /\ shown \in BOOLEAN /\ msec \in Times
      /\ delay \in Delays /\ style \in 0 .. MaxRequests /\ fps \in 0 .. MaxRequests
      /\ gpc \in {"idle", "clear", "remove"} /\ born \in Nat /\ selected \in Nat
  BY DEF TypeOK
<1>2. gpc # "remove" /\ NoDanglingImage /\ \A i \in live : Displayed(i)
  BY DEF Arriving
<1>3. "Tick" \in Flags /\ "Rerender" \in Flags
  BY DEF Flags, Forcing
<1> USE DEF guiVars, finVars
\* a thread that shows what it did
<1>4. ASSUME NEW i \in live, NEW u, Survives(th[i], u), th'[i] = u,
             \A p : Latest(i, p) => Latest(i, p)'
      PROVE  Displayed(i)'
  BY <1>2, <1>4 DEF Displayed, Survives
<1>5. ASSUME gpc' # "remove", live' = live, UNCHANGED <<evq, image>>,
             \A i \in live : Nudged(th[i], th'[i])
      PROVE  Arriving'
  <2>1. ASSUME NEW i \in live PROVE Displayed(i)'
    <3>1. Nudged(th[i], th'[i]) /\ i \in Items
      BY <1>1, <1>5
    <3>2. \A p : Latest(i, p) => Latest(i, p)'
      BY <1>5, <3>1, LatestFacts
    <3>3. CASE th[i].pc \in Between \cup {"work"}
      BY <1>4, <3>1, <3>2, <3>3 DEF Nudged, Survives
    <3>4. CASE th[i].pc \notin Between \cup {"work"}
      BY <3>1, <3>4 DEF Nudged, Displayed, Between
    <3> QED BY <3>3, <3>4
  <2>2. NoDanglingImage'
    BY <1>2, <1>5 DEF NoDanglingImage
  <2> QED BY <1>5, <2>1, <2>2 DEF Arriving
<1>6. \A t \in Thread : Nudged(t, t)
  BY DEF Nudged
<1>7. ASSUME gpc' # "remove", UNCHANGED <<live, evq, image, th>> PROVE Arriving'
  BY <1>1, <1>5, <1>6, <1>7
<1>8. CASE Tick
  <2>1. \E ms \in Times : th' = Rendered(th, live, shown, ms, delay, "Tick")
    BY <1>8 DEF Tick
  <2> QED BY <1>1, <1>2, <1>3, <1>5, <1>8, <2>1, RenderedFacts DEF Tick
<1>9. CASE SetDelay
  <2>1. \E dl \in Delays : th' = Rendered(th, live, shown, msec, dl, "Rerender")
    BY <1>9 DEF SetDelay
  <2> QED BY <1>1, <1>2, <1>3, <1>5, <1>9, <2>1, RenderedFacts DEF SetDelay
<1>10. CASE SetDrawer
  BY <1>1, <1>2, <1>5, <1>10, SetDrawerFacts DEF SetDrawer
<1>11. CASE SetFPS
  BY <1>1, <1>2, <1>5, <1>11, SetFPSFacts DEF SetFPS
<1>12. ASSUME NEW i \in Items, Finish(i) PROVE Arriving'
  BY <1>1, <1>2, <1>5, <1>12, FinishFacts DEF Finish
<1>13. CASE SetHidden \/ Clear \/ Join
  BY <1>2, <1>7, <1>13 DEF SetHidden, Clear, Join
<1>14. CASE Deselect
  BY <1>14 DEF Deselect
<1>15. CASE Removed
  BY <1>2, <1>15 DEF Removed
<1>16. CASE Select
  <2> DEFINE P == Prepended(th, {born + 1})
  <2>1. /\ born + 1 \in Items /\ live' = live \cup {born + 1}
        /\ th' = Rendered(P, live', shown, msec, delay, "Rerender")
        /\ UNCHANGED <<image, evq, gpc>> /\ born + 1 \notin live
    <3>1. live \subseteq 1 .. born /\ born < MaxItems /\ MaxItems \in Nat
      BY <1>16, BoundAssumption DEF Bounds, Select
    <3> QED BY <1>1, <1>16, <3>1 DEF Select, Items
  <2>2. /\ P \in [Items -> Thread] /\ \A i \in Items : i # born + 1 => P[i] = th[i]
        /\ P[born + 1].it = End
    BY <1>1, <2>1, PrependedFacts
  <2> HIDE DEF P
  <2>3. \A i \in Items : Nudged(P[i], th'[i])
    BY <1>1, <1>3, <2>1, <2>2, RenderedFacts
  <2>4. ASSUME NEW i \in live PROVE Displayed(i)'
    <3>1. Nudged(th[i], th'[i]) /\ i \in Items
      BY <1>1, <2>1, <2>2, <2>3, <2>4
    <3>2. \A p : Latest(i, p) => Latest(i, p)'
      BY <2>1, <3>1, LatestFacts
    <3>3. CASE th[i].pc \in Between \cup {"work"}
      BY <1>4, <3>1, <3>2, <3>3 DEF Nudged, Survives
    <3>4. CASE th[i].pc \notin Between \cup {"work"}
      BY <3>1, <3>4 DEF Nudged, Displayed, Between
    <3> QED BY <3>3, <3>4
  <2>5. ASSUME NEW i \in live', i \notin live PROVE Displayed(i)'
    <3>1. i = born + 1
      BY <2>1, <2>5
    <3>2. th'[i].it = End
      BY <2>1, <2>2, <2>3, <3>1 DEF Nudged
    <3> QED BY <3>2 DEF Displayed
  <2>6. NoDanglingImage'
    BY <1>2, <2>1 DEF NoDanglingImage
  <2> QED BY <1>2, <2>1, <2>4, <2>5, <2>6 DEF Arriving
<1>17. CASE Expired
  <2>1. /\ UNCHANGED <<live, gpc, evq, image>> /\ joining \in Items
        /\ th' = [th EXCEPT ![joining] = [th[joining] EXCEPT !.pc = "dead"]]
    BY <1>17 DEF Expired, TypeOK
  <2>2. ASSUME NEW i \in live PROVE Displayed(i)'
    <3>0. th[i] \in Thread /\ i \in Items
      BY <1>1
    <3>1. CASE i = joining
      <4>1. th'[i].pc = "dead"
        BY <1>1, <2>1, <3>0, <3>1 DEF Thread
      <4> QED BY <4>1 DEF Displayed, Between
    <3>2. CASE i # joining
      <4>1. th'[i] = th[i] /\ \A p : Latest(i, p) => Latest(i, p)'
        BY <1>1, <2>1, <3>0, <3>2, LatestFacts
      <4> QED BY <1>2, <4>1 DEF Displayed
    <3> QED BY <3>1, <3>2
  <2>3. NoDanglingImage'
    BY <1>2, <2>1 DEF NoDanglingImage
  <2> QED BY <1>2, <2>1, <2>2, <2>3 DEF Arriving
<1>18. CASE Cleared
  <2> DEFINE New == born + 1 .. born + selected
             K == Kept(th, {})
             P == Prepended(K, New)
  <2>1. /\ live' = New /\ gpc' = "idle" /\ evq' = <<>>
        /\ th' = Rendered(P, New, shown, msec, delay, "Rerender")
    BY <1>18 DEF Cleared, Purged
  <2>2. New \subseteq Items
    <3>1. born + selected <= MaxItems /\ MaxItems \in Nat
      BY BoundAssumption DEF Bounds
    <3> QED BY <1>1, <3>1 DEF Items
  <2>3. K \in [Items -> Thread]
    BY NewThreadFacts DEF Kept
  <2> HIDE DEF New, K
  <2>4. P \in [Items -> Thread] /\ \A i \in New : P[i].it = End
    BY <1>1, <2>2, <2>3, PrependedFacts
  <2> HIDE DEF P
  <2>5. \A i \in Items : Nudged(P[i], th'[i])
    BY <1>1, <1>3, <2>1, <2>4, RenderedFacts
  <2>6. ASSUME NEW i \in live' PROVE Displayed(i)'
    <3>1. th'[i].it = End
      BY <2>1, <2>2, <2>4, <2>5, <2>6 DEF Nudged
    <3> QED BY <3>1 DEF Displayed
  <2>7. NoDanglingImage'
    BY <2>1 DEF NoDanglingImage
  <2> QED BY <2>1, <2>6, <2>7 DEF Arriving
<1>19. CASE ImagePrepared
  <2>1. evq # <<>> /\ evq' = Tail(evq) /\ UNCHANGED <<live, th, gpc>>
    BY <1>19 DEF ImagePrepared
  <2>2. /\ Head(evq) = evq[1] /\ 1 \in 1 .. Len(evq) /\ Len(evq') = Len(evq) - 1
        /\ \A k \in 1 .. Len(evq') : k + 1 \in 1 .. Len(evq) /\ evq'[k] = evq[k + 1]
    BY <1>1, <2>1, HeadTailProperties, EmptySeq
  <2>3. Head(evq).item \in live /\ Head(evq).item # 0
    BY <1>1, <1>2, <2>2 DEF NoDanglingImage, Items
  <2>4. image' = [image EXCEPT ![Head(evq).item] = Head(evq).pic]
    BY <1>19, <2>3 DEF ImagePrepared
  <2>5. ASSUME NEW i \in live PROVE Displayed(i)'
    <3>1. th'[i] = th[i] /\ \A p : Latest(i, p) => Latest(i, p)'
      BY <1>1, <2>1, <2>4, LatestFacts
    <3> QED BY <1>2, <3>1 DEF Displayed
  <2>6. NoDanglingImage'
    BY <1>2, <2>1, <2>2 DEF NoDanglingImage
  <2> QED BY <1>2, <2>1, <2>5, <2>6 DEF Arriving
<1>20. ASSUME NEW i \in Items, Run(i) PROVE Arriving'
  <2>1. i \in live /\ th[i] \in Thread /\ UNCHANGED <<live, image, gpc>>
    BY <1>20, RunFacts
  <2>2. PICK u \in Thread :
          /\ th' = [th EXCEPT ![i] = u]
          /\ \/ UNCHANGED evq /\ Sound(th[i], u, fps)
             \/ \E pic \in Picture :
                   /\ evq' = Append(evq, [item |-> i, pic |-> pic])
                   /\ pic.cap = u.it /\ pic.fps = u.lfps
    BY <1>20, RunFacts
  <2>3. th'[i] = u /\ \A j \in Items : j # i => th'[j] = th[j]
    BY <1>1, <2>2
  <2>4. CASE UNCHANGED evq /\ Sound(th[i], u, fps)
    <3>1. \A j \in Items : \A p : Latest(j, p) => Latest(j, p)'
      BY <2>1, <2>4, LatestFacts
    <3>2. ASSUME NEW j \in live, j # i PROVE Displayed(j)'
      <4>1. th'[j] = th[j]
        BY <1>1, <2>3, <3>2
      <4> QED BY <1>1, <1>2, <3>1, <4>1 DEF Displayed
    <3>3. Displayed(i)'
      <4>1. CASE Survives(th[i], u)
        BY <1>4, <2>1, <2>3, <3>1, <4>1
      <4>2. CASE u.it = End \/ u.pc \notin Between \cup {"work"}
        BY <2>3, <4>2 DEF Displayed
      <4> QED BY <2>4, <4>1, <4>2 DEF Sound
    <3>4. NoDanglingImage'
      BY <1>2, <2>1, <2>4 DEF NoDanglingImage
    <3> QED BY <1>2, <2>1, <3>2, <3>3, <3>4 DEF Arriving
  <2>5. ASSUME NEW pic \in Picture, evq' = Append(evq, [item |-> i, pic |-> pic]),
               pic.cap = u.it, pic.fps = u.lfps
        PROVE  Arriving'
    <3> DEFINE e == [item |-> i, pic |-> pic]
    <3>1. e \in [item : Items, pic : Picture] /\ e.item = i /\ e.pic = pic /\ evq' = Append(evq, e)
      BY <2>5
    <3> HIDE DEF e
    <3>2. Latest(i, pic)' /\ \A j \in Items : j # i => \A p : Latest(j, p) => Latest(j, p)'
      BY <2>1, <3>1, LatestFacts
    <3>3. ASSUME NEW j \in live, j # i PROVE Displayed(j)'
      <4>1. th'[j] = th[j]
        BY <1>1, <2>3, <3>3
      <4> QED BY <1>1, <1>2, <3>2, <3>3, <4>1 DEF Displayed
    <3>4. Displayed(i)'
      BY <2>3, <2>5, <3>2 DEF Displayed
    <3>5. NoDanglingImage'
      <4>1. \A k \in 1 .. Len(evq') : evq'[k] = e \/ (k \in 1 .. Len(evq) /\ evq'[k] = evq[k])
        BY <1>1, <3>1, AppendProperties
      <4>2. \A k \in 1 .. Len(evq') : evq'[k].item \in live
        BY <1>1, <1>2, <2>1, <3>1, <4>1 DEF NoDanglingImage
      <4>3. DOMAIN evq' = 1 .. Len(evq')
        BY <1>1, <3>1, AppendProperties
      <4> QED BY <2>1, <4>2, <4>3 DEF NoDanglingImage
    <3> QED BY <1>2, <2>1, <3>3, <3>4, <3>5 DEF Arriving
  <2> QED BY <2>2, <2>4, <2>5
<1> QED BY <1>8, <1>9, <1>10, <1>11, <1>12, <1>13, <1>14, <1>15, <1>16, <1>17, <1>18, <1>19,
           <1>20 DEF Next, User, Gui

-----------------------------------------------------------------------------
(* The theorems.                                                             *)

(* The invariant holds in every state. *)
THEOREM Invariance == Spec => []IInv
<1>1. Init => IInv
  BY InitIInv
<1>2. IInv /\ [Next]_vars => IInv'
  <2> SUFFICES ASSUME IInv, [Next]_vars PROVE IInv'
    OBVIOUS
  <2>1. CASE Next
    <3>1. TypeOK' /\ Bounds' /\ Threads'
      BY <2>1, ThreadsNext DEF IInv
    <3>2. Arriving'
      <4>1. CASE Deselects
        BY <4>1 DEF Arriving
      <4>2. CASE ~Deselects
        BY <2>1, <4>2, ArrivingNext DEF IInv
      <4> QED BY <4>1, <4>2
    <3> QED BY <3>1, <3>2 DEF IInv
  <2>2. CASE UNCHANGED vars
    <3> USE DEF vars, guiVars, finVars
    <3>1. TypeOK'
      BY <2>2 DEF IInv, TypeOK
    <3>2. Bounds' /\ Threads'
      BY <2>2 DEF IInv, Bounds, Threads
    <3>3. Arriving'
      BY <2>2 DEF IInv, Arriving, NoDanglingImage, Displayed, Latest
    <3> QED BY <3>1, <3>2, <3>3 DEF IInv
  <2> QED BY <2>1, <2>2
<1> QED BY <1>1, <1>2, PTL DEF Spec

(* Every variable keeps its type, whatever is deselected: a picture posted *)
(* is always one that was drawn.                                           *)
THEOREM TypeCorrect == Spec => []TypeOK
<1>1. IInv => TypeOK
  BY DEF IInv
<1> QED BY <1>1, Invariance, PTL

(* As long as single subtitles are not deselected, no picture waits for an *)
(* Item that has been deleted.                                             *)
THEOREM NeverDangling ==
  ASSUME ~Deselects
  PROVE  Spec => []NoDanglingImage
<1>1. IInv => NoDanglingImage
  BY DEF IInv, Arriving
<1> QED BY <1>1, Invariance, PTL

(* ... and a thread that sleeps has drawn what it was last asked for.      *)
THEOREM QuietShows ==
  ASSUME ~Deselects
  PROVE  Spec => []QuietShowsCaption
<1>1. IInv => QuietShowsCaption
  <2> SUFFICES ASSUME IInv, NEW i \in Items, Quiet(i), th[i].time > 0
               PROVE  image[i].cap = th[i].time /\ image[i].fps = fps
    BY DEF QuietShowsCaption
  <2>1. /\ i \in live /\ th[i].pc = "wait" /\ th[i].flags = {} /\ th[i] \in Thread
        /\ evq \in Seq([item : Items, pic : Picture])
    BY DEF Quiet, IInv, TypeOK
  <2>2. \A k \in 1 .. Len(evq) : evq[k].item # i
    BY <2>1 DEF Quiet
  <2>3. Coherent(th[i]) /\ Requested(th[i], fps) /\ Displayed(i)
    BY <2>1 DEF IInv, Threads, Arriving
  <2>4. th[i].ltime = th[i].time /\ th[i].lfps = fps /\ th[i].it = th[i].time /\ th[i].lflags = {}
    BY <2>1, <2>3 DEF Requested, Coherent, Between
  <2>5. th[i].it # End
    BY <2>1, <2>4, ThreadType DEF End, Times
  <2>6. PICK pic : Latest(i, pic) /\ pic.cap = th[i].it /\ pic.fps = th[i].lfps
    BY <2>1, <2>3, <2>4, <2>5 DEF Displayed, Between
  <2>7. image[i] = pic
    BY <2>2, <2>6 DEF Latest
  <2> QED BY <2>4, <2>6, <2>7
<1> QED BY <1>1, Invariance, PTL

(* Whatever the cache held, what is posted is of the style and frame rate  *)
(* that the thread has taken.                                              *)
THEOREM AlwaysPostsCurrent == Spec => PostsCurrent
<1>1. IInv /\ [Next]_vars =>
        \A i \in Items : Post(i) =>
          LET pic == evq'[Len(evq')].pic
          IN  pic.style = th[i].lstyle /\ pic.fps = th[i].lfps
  <2> SUFFICES ASSUME IInv, NEW i \in Items, Post(i)
               PROVE  /\ evq'[Len(evq')].pic.style = th[i].lstyle
                      /\ evq'[Len(evq')].pic.fps = th[i].lfps
    OBVIOUS
  <2>1. Run(i) /\ evq \in Seq([item : Items, pic : Picture])
    BY DEF Run, IInv, TypeOK
  <2>2. \E pic \in Picture : /\ evq' = Append(evq, [item |-> i, pic |-> pic])
                             /\ pic.fps = th[i].lfps /\ pic.style = th[i].lstyle
    <3>1. evq' # evq
      BY <2>1, AppendProperties DEF Post
    <3> QED BY <2>1, <3>1, RunFacts DEF IInv
  <2>3. PICK pic \in Picture : /\ evq' = Append(evq, [item |-> i, pic |-> pic])
                              /\ pic.fps = th[i].lfps /\ pic.style = th[i].lstyle
    BY <2>2
  <2>4. evq'[Len(evq')] = [item |-> i, pic |-> pic]
    BY <2>1, <2>3, AppendProperties
  <2> QED BY <2>3, <2>4
<1> QED BY <1>1, Invariance, PTL DEF Spec, PostsCurrent
===============================================================================

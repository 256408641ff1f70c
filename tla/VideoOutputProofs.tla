-------------------------- MODULE VideoOutputProofs --------------------------
(***************************************************************************)
(* The safety properties of VideoOutput hold for every set of options and  *)
(* every bound.                                                            *)
(*                                                                         *)
(* None is inductive.  That a released context is not used rests on active *)
(* and vo being set and reset together, and on nothing being queued        *)
(* without an output; that a frame is rendered in its own configuration,   *)
(* on every frame in the queue having the current one, and on the          *)
(* renderer having it too unless reconfigured is set; that frames keep     *)
(* their order, on the queue being ordered, after the frame shown last and *)
(* before the one that waits.                                              *)
(***************************************************************************)
EXTENDS VideoOutput, SequenceTheorems, TLAPS

(* Frames exist only with an output, outputs only in a living context. *)
Alive ==
  /\ active = vo
  /\ vpc # "idle" => vo # None
  /\ hpc \in {"kill", "killing", "gone"} => ~initialized
  /\ hpc = "gone" => vo = None
  /\ vo = None => frameQueue = <<>> /\ waitingFrame = NoFrame /\ config = None

(* A frame (or none) that belongs to configuration c and is later than n. *)
Follows(f, n, c) == f = NoFrame \/ (f.config = c /\ n < f.n)

(* A queue of frames of configuration c, in order, later than n and no     *)
(* later than m.                                                           *)
Ordered(q, n, m, c) ==
  /\ \A i \in 1 .. Len(q) : Follows(q[i], n, c) /\ q[i].n <= m
  /\ \A i, j \in 1 .. Len(q) : i < j => Follows(q[j], q[i].n, c)

(* A frame that comes after all of a queue. *)
Latest(f, q, n, m, c) ==
  /\ Follows(f, n, c) /\ f.n <= m
  /\ \A i \in 1 .. Len(q) : Follows(f, q[i].n, c)

InOrder ==
  /\ Ordered(frameQueue, shown.n, frames, config)
  /\ Latest(waitingFrame, frameQueue, shown.n, frames, config)
  /\ shown.n <= frames

Prepared == reconfigured \/ rendererConfig = config

IInv == TypeOK /\ Alive /\ InOrder /\ Prepared

(* What is left of a queue when its first frames are dropped. *)
Rest(r, q) ==
  \E d \in 0 .. Len(q) :
    Len(r) = Len(q) - d /\ \A i \in 1 .. Len(r) : r[i] = q[i + d]

(***************************************************************************)
(* Queues.                                                                 *)
(***************************************************************************)
(* What the proofs need to know of frames. *)
LEMMA FrameFacts ==
  /\ NoFrame \in Frames /\ NoFrame.n = 0
  /\ \A f \in Frames : f.n \in Nat /\ (f # NoFrame => f.n > 0 /\ f.n <= MaxFrames)
BY BoundsAssumption DEF Frames, Frame, NoFrame, None

(* Dropping the first frames leaves an ordered queue, before the same frames. *)
LEMMA RestOrdered ==
  ASSUME NEW q \in Seq(Frames), NEW r \in Seq(Frames), Rest(r, q), NEW f,
         NEW n, NEW m, NEW c, Ordered(q, n, m, c), Latest(f, q, n, m, c)
  PROVE  Ordered(r, n, m, c) /\ Latest(f, r, n, m, c)
<1>1. PICK d \in 0 .. Len(q) :
        Len(r) = Len(q) - d /\ \A i \in 1 .. Len(r) : r[i] = q[i + d]
  BY DEF Rest
<1>2. \A i \in 1 .. Len(r) : i + d \in 1 .. Len(q)
  BY <1>1
<1>3. Latest(f, r, n, m, c)
  BY <1>1, <1>2 DEF Latest
<1>4. \A i \in 1 .. Len(r) : Follows(r[i], n, c) /\ r[i].n <= m
  BY <1>1, <1>2 DEF Ordered
<1>5. ASSUME NEW i \in 1 .. Len(r), NEW j \in 1 .. Len(r), i < j
      PROVE  Follows(r[j], r[i].n, c)
  <2>1. i + d < j + d /\ i + d \in 1 .. Len(q) /\ j + d \in 1 .. Len(q)
    BY <1>2, <1>5
  <2>2. Follows(q[j + d], q[i + d].n, c)
    BY <2>1 DEF Ordered
  <2> QED BY <1>1, <2>2
<1> QED BY <1>3, <1>4, <1>5 DEF Ordered

(* Every queue and the empty one are the rest of a queue. *)
LEMMA TrivialRest ==
  ASSUME NEW q \in Seq(Frames)
  PROVE  Rest(q, q) /\ Rest(<<>>, q) /\ <<>> \in Seq(Frames)
<1>1. Len(q) \in Nat
  OBVIOUS
<1>2. Rest(q, q)
  <2>1. 0 \in 0 .. Len(q) /\ Len(q) = Len(q) - 0 /\ \A i \in 1 .. Len(q) : q[i] = q[i + 0]
    BY <1>1
  <2> QED BY <2>1 DEF Rest
<1>3. Rest(<<>>, q)
  <2>1. Len(q) \in 0 .. Len(q) /\ Len(<<>>) = Len(q) - Len(q)
    BY <1>1
  <2>2. \A i \in 1 .. Len(<<>>) : <<>>[i] = q[i + Len(q)]
    OBVIOUS
  <2> QED BY <2>1, <2>2 DEF Rest
<1> QED BY <1>2, <1>3

(* So is its tail. *)
LEMMA TailRest ==
  ASSUME NEW q \in Seq(Frames), q # <<>>
  PROVE  Tail(q) \in Seq(Frames) /\ Rest(Tail(q), q)
<1>1. Tail(q) \in Seq(Frames) /\ Len(Tail(q)) = Len(q) - 1
      /\ \A i \in 1 .. Len(Tail(q)) : Tail(q)[i] = q[i + 1]
  BY HeadTailProperties
<1>2. Len(q) \in Nat /\ Len(q) # 0
  BY EmptySeq
<1> QED BY <1>1, <1>2 DEF Rest

(* frame_queue_shrink keeps the last frames. *)
LEMMA NewestRest ==
  ASSUME NEW q \in Seq(Frames), NEW size \in Nat
  PROVE  Newest(q, size) \in Seq(Frames) /\ Rest(Newest(q, size), q)
<1>1. CASE Len(q) <= size
  BY <1>1, TrivialRest DEF Newest
<1>2. CASE ~(Len(q) <= size)
  <2> DEFINE d == Len(q) - size
  <2>1. Len(q) \in Nat /\ d \in 0 .. Len(q) /\ d + 1 \in 1 .. Len(q) + 1
    BY <1>2
  <2>2. SubSeq(q, d + 1, Len(q)) \in Seq(Frames)
        /\ Len(SubSeq(q, d + 1, Len(q))) = (IF d + 1 <= Len(q) THEN Len(q) - (d + 1) + 1 ELSE 0)
        /\ \A i \in 1 .. Len(q) - (d + 1) + 1 : SubSeq(q, d + 1, Len(q))[i] = q[d + 1 + i - 1]
    BY <2>1, SubSeqProperties
  <2>3. Len(SubSeq(q, d + 1, Len(q))) = Len(q) - d
    BY <2>1, <2>2
  <2>4. \A i \in 1 .. Len(q) - d : SubSeq(q, d + 1, Len(q))[i] = q[i + d]
    BY <2>1, <2>2
  <2>5. Newest(q, size) = SubSeq(q, d + 1, Len(q))
    BY <1>2 DEF Newest
  <2> QED BY <2>1, <2>2, <2>3, <2>4, <2>5 DEF Rest
<1> QED BY <1>1, <1>2

(* A frame that comes after all of a queue may be put at its end. *)
LEMMA AppendOrdered ==
  ASSUME NEW q \in Seq(Frames), NEW f \in Frames,
         NEW n \in Nat, NEW m \in Nat, NEW c, Ordered(q, n, m, c), Latest(f, q, n, m, c)
  PROVE  /\ Append(q, f) \in Seq(Frames)
         /\ Ordered(Append(q, f), n, m, c)
         /\ Latest(NoFrame, Append(q, f), n, m, c)
<1> DEFINE r == Append(q, f)
<1>1. r \in Seq(Frames) /\ Len(r) = Len(q) + 1 /\ Len(q) \in Nat
      /\ (\A i \in 1 .. Len(q) : r[i] = q[i]) /\ r[Len(q) + 1] = f
  BY AppendProperties
<1> HIDE DEF r
<1>2. Latest(NoFrame, r, n, m, c)
  BY FrameFacts DEF Latest, Follows
<1>3. \A i \in 1 .. Len(r) : Follows(r[i], n, c) /\ r[i].n <= m
  BY <1>1 DEF Ordered, Latest
<1>4. \A i, j \in 1 .. Len(r) : i < j => Follows(r[j], r[i].n, c)
  <2> SUFFICES ASSUME NEW i \in 1 .. Len(r), NEW j \in 1 .. Len(r), i < j
               PROVE  Follows(r[j], r[i].n, c)
    OBVIOUS
  <2>1. i \in 1 .. Len(q) /\ r[i] = q[i]
    BY <1>1
  <2>2. CASE j = Len(q) + 1
    BY <1>1, <2>1, <2>2 DEF Latest
  <2>3. CASE j \in 1 .. Len(q)
    BY <1>1, <2>1, <2>3 DEF Ordered
  <2> QED BY <1>1, <2>2, <2>3
<1>5. Ordered(r, n, m, c)
  BY <1>3, <1>4 DEF Ordered
<1> QED BY <1>1, <1>2, <1>5 DEF r

(***************************************************************************)
(* The invariant.                                                          *)
(***************************************************************************)
(* What the proofs need to know of options. *)
LEMMA OptionFacts ==
  \A o \in Options : o # NoOptions /\ o.size \in Nat /\ o.timed \in BOOLEAN
BY OptionsAssumption DEF OptionSet, NoOptions

(* The bounds are numbers, and nothing is queued in the empty queue. *)
LEMMA BoundFacts ==
  /\ MaxVos \in Nat /\ MaxFrames \in Nat /\ MaxConfigs \in Nat /\ MaxSettings \in Nat
  /\ <<>> \in Seq(Frames)
BY BoundsAssumption

(* The invariant holds before the first output is made. *)
LEMMA InitInv == Init => IInv
<1> SUFFICES ASSUME Init PROVE IInv
  OBVIOUS
<1>1. TypeOK
  <2>1. {newOpts, voOpts} \subseteq Options \cup {NoOptions}
    BY DEF Init
  <2>2. {reconfigured, updateNewOpts, vsyncTimed, updated} \subseteq BOOLEAN
    BY DEF Init
  <2>3. {active, vo, drawVo} \subseteq Vos \cup {None} /\ (vo = None <=> voOpts = NoOptions)
    BY DEF Init
  <2>4. waitingFrame \in Frames /\ frameQueue \in Seq(Frames) /\ shown \in Frames
    BY FrameFacts, BoundFacts DEF Init
  <2>5. /\ config \in 0 .. MaxConfigs /\ rendererConfig \in 0 .. MaxConfigs
        /\ vos \in 0 .. MaxVos /\ frames \in 0 .. MaxFrames
        /\ configs \in 0 .. MaxConfigs /\ settings \in 0 .. MaxSettings
    BY BoundFacts DEF Init, None
  <2> QED BY <2>1, <2>2, <2>3, <2>4, <2>5 DEF TypeOK, Init
<1>2. Alive /\ Prepared
  BY DEF Init, Alive, Prepared
<1>3. InOrder
  BY FrameFacts DEF Init, InOrder, Ordered, Latest, Follows
<1> QED BY <1>1, <1>2, <1>3 DEF IInv

(* Options that are applied have a size and a mode. *)
LEMMA DrawOptionsFit ==
  ASSUME TypeOK, Applies
  PROVE  DrawOptions.size \in Nat /\ DrawOptions.timed \in BOOLEAN
BY OptionFacts DEF TypeOK, Applies, DrawOptions

(* Pushing a frame keeps the types. *)
LEMMA PushTypes ==
  ASSUME TypeOK, NEW q \in Seq(Frames), Push(q)
  PROVE  TypeOK'
BY FrameFacts, AppendProperties
DEF TypeOK, Push, Frames, hostVars, boundVars

(* Every step keeps the types. *)
LEMMA TypeNext == TypeOK /\ Alive /\ [Next]_vars => TypeOK'
<1> SUFFICES ASSUME TypeOK, Alive, [Next]_vars PROVE TypeOK'
  OBVIOUS
<1> USE DEF TypeOK, ctxVars, voVars, hostVars, boundVars
<1>1. CASE DestroyVo
  BY <1>1 DEF DestroyVo
<1>2. CASE Uninit
  BY <1>2, FrameFacts, BoundFacts DEF Uninit, ForgetFrames, None
<1>3. CASE Reconfig
  BY <1>3, FrameFacts, BoundFacts DEF Reconfig, ForgetFrames
<1>4. CASE DrawImage
  <2>1. waitingFrame' \in Frames
    BY <1>4, BoundsAssumption DEF DrawImage, Frames, Frame, None
  <2> QED BY <1>4, <2>1, BoundsAssumption DEF DrawImage
<1>5. CASE FlipPage
  <2>1. voOpts.size - 1 \in Nat /\ vo # None
    <3>1. vo # None
      BY <1>5 DEF FlipPage, Alive
    <3>2. voOpts \in Options
      BY <3>1
    <3>3. voOpts.size \in Nat \ {0}
      BY <3>2, OptionsAssumption DEF OptionSet
    <3> QED BY <3>1, <3>3
  <2>2. Newest(frameQueue, voOpts.size - 1) \in Seq(Frames) /\ <<>> \in Seq(Frames)
    BY <2>1, NewestRest, TrivialRest
  <2>3. CASE \E q \in Seq(Frames) : Push(q)
    BY <2>3, PushTypes
  <2>4. CASE vpc' = "blocked" /\ UNCHANGED <<ctxVars, vo, voOpts, hostVars, boundVars>>
    BY <2>4
  <2> QED BY <1>5, <2>2, <2>3, <2>4 DEF FlipPage
<1>6. CASE FlipAfterWakeup
  BY <1>6, PushTypes DEF FlipAfterWakeup
<1>7. CASE FlipAfterTimeout
  BY <1>7, PushTypes, TrivialRest DEF FlipAfterTimeout
<1>8. CASE DrawBegin
  <2> DEFINE queue == IF Applies THEN Newest(frameQueue, DrawOptions.size) ELSE frameQueue
  <2>1. queue \in Seq(Frames) /\ (Applies => DrawOptions.timed \in BOOLEAN)
    BY DrawOptionsFit, NewestRest
  <2>2. queue # <<>> => Head(queue) \in Frames /\ Tail(queue) \in Seq(Frames)
    BY <2>1, HeadTailProperties
  <2>3. frameQueue' \in Seq(Frames) /\ shown' \in Frames
    BY <1>8, <2>1, <2>2 DEF DrawBegin
  <2>4. vsyncTimed' \in BOOLEAN
    BY <1>8, <2>1 DEF DrawBegin
  <2> QED BY <1>8, <2>3, <2>4 DEF DrawBegin
<1>9. CASE DrawEnd
  BY <1>9 DEF DrawEnd, UsesDrawVo, None
<1>10. CASE UninitBegin
  BY <1>10, FrameFacts, TrivialRest DEF UninitBegin, ForgetFrames
<1>11. CASE KillVideo
  BY <1>11 DEF KillVideo
<1>12. CASE KillVo
  BY <1>12 DEF KillVo
<1>13. CASE UninitEnd
  BY <1>13, FrameFacts, BoundsAssumption DEF UninitEnd, None
<1>14. CASE \E o \in Options : CreateVo(o)
  <2>1. PICK o \in Options : CreateVo(o)
    BY <1>14
  <2>2. CASE initialized
    <3>1. vos' \in Vos /\ vos' # None /\ vo' = vos' /\ active' = vos' /\ vos' \in 0 .. MaxVos
      BY <2>1, <2>2, BoundFacts DEF CreateVo, None, Vos
    <3>2. voOpts' = o /\ o # NoOptions
      BY <2>1, <2>2, OptionFacts DEF CreateVo
    <3> QED BY <2>1, <2>2, <3>1, <3>2 DEF CreateVo
  <2>3. CASE ~initialized
    BY <2>1, <2>3 DEF CreateVo
  <2> QED BY <2>2, <2>3
<1>15. CASE \E o \in Options : SetOptions(o)
  BY <1>15, BoundsAssumption DEF SetOptions
<1>16. CASE UNCHANGED vars
  BY <1>16 DEF vars
<1>17. CASE RedrawFrame
  BY <1>17 DEF RedrawFrame
<1> QED BY <1>1, <1>2, <1>3, <1>4, <1>5, <1>6, <1>7, <1>8, <1>9, <1>10, <1>11, <1>12,
           <1>13, <1>14, <1>15, <1>16, <1>17 DEF Next, Teardown

(* Outputs stay in a living context, frames with an output. *)
LEMMA AliveNext == TypeOK /\ Alive /\ [Next]_vars => Alive'
<1> SUFFICES ASSUME TypeOK, Alive, [Next]_vars PROVE Alive'
  OBVIOUS
<1> USE DEF Alive, ctxVars, voVars, hostVars, boundVars
<1>1. CASE DestroyVo
  BY <1>1 DEF DestroyVo
<1>2. CASE Uninit
  BY <1>2 DEF Uninit, ForgetFrames
<1>3. CASE Reconfig
  BY <1>3 DEF Reconfig, ForgetFrames
<1>4. CASE DrawImage
  BY <1>4 DEF DrawImage
<1>5. CASE FlipPage
  <2>1. vpc = "drawn" /\ vo # None
    BY <1>5 DEF FlipPage
  <2>2. CASE vpc' = "blocked" /\ UNCHANGED <<ctxVars, vo, voOpts, hostVars, boundVars>>
    BY <2>1, <2>2
  <2>3. \/ \E q : Push(q)
        \/ vpc' = "blocked" /\ UNCHANGED <<ctxVars, vo, voOpts, hostVars, boundVars>>
    BY <1>5 DEF FlipPage
  <2>4. CASE \E q : Push(q)
    BY <2>1, <2>4 DEF Push
  <2> QED BY <2>2, <2>3, <2>4
<1>6. CASE FlipAfterWakeup
  BY <1>6 DEF FlipAfterWakeup, Push
<1>7. CASE FlipAfterTimeout
  BY <1>7 DEF FlipAfterTimeout, Push
<1>8. CASE DrawBegin
  <2>1. vo = None => frameQueue' = <<>>
    <3> SUFFICES ASSUME vo = None PROVE frameQueue' = <<>>
      OBVIOUS
    <3>1. frameQueue = <<>> /\ ~Applies
      BY <1>8 DEF DrawBegin, AppliesThroughNone
    <3> QED BY <1>8, <3>1 DEF DrawBegin
  <2> QED BY <1>8, <2>1 DEF DrawBegin
<1>9. CASE DrawEnd
  BY <1>9 DEF DrawEnd
<1>10. CASE UninitBegin
  BY <1>10 DEF UninitBegin, ForgetFrames
<1>11. CASE KillVideo
  BY <1>11 DEF KillVideo
<1>12. CASE KillVo
  BY <1>12 DEF KillVo
<1>13. CASE UninitEnd
  BY <1>13 DEF UninitEnd
<1>14. CASE \E o \in Options : CreateVo(o)
  BY <1>14 DEF CreateVo, CoreFree, TypeOK, None, Vos
<1>15. CASE \E o \in Options : SetOptions(o)
  BY <1>15 DEF SetOptions
<1>16. CASE UNCHANGED vars
  BY <1>16 DEF vars
<1>17. CASE RedrawFrame
  BY <1>17 DEF RedrawFrame
<1> QED BY <1>1, <1>2, <1>3, <1>4, <1>5, <1>6, <1>7, <1>8, <1>9, <1>10, <1>11, <1>12,
           <1>13, <1>14, <1>15, <1>16, <1>17 DEF Next, Teardown

(* The host has the current configuration or is told of it. *)
LEMMA PreparedNext == Prepared /\ Alive /\ [Next]_vars => Prepared'
<1> SUFFICES ASSUME Prepared, Alive, [Next]_vars PROVE Prepared'
  OBVIOUS
<1> USE DEF Prepared, ctxVars, voVars, hostVars, boundVars
<1>1. CASE DestroyVo
  BY <1>1 DEF DestroyVo
<1>2. CASE Uninit
  BY <1>2 DEF Uninit
<1>3. CASE Reconfig
  BY <1>3 DEF Reconfig
<1>4. CASE DrawImage
  BY <1>4 DEF DrawImage
<1>5. CASE FlipPage \/ FlipAfterWakeup \/ FlipAfterTimeout
  BY <1>5 DEF FlipPage, FlipAfterWakeup, FlipAfterTimeout, Push
<1>6. CASE DrawBegin
  BY <1>6 DEF DrawBegin
<1>7. CASE DrawEnd
  BY <1>7 DEF DrawEnd
<1>8. CASE UninitBegin
  BY <1>8 DEF UninitBegin
<1>9. CASE KillVideo \/ KillVo
  BY <1>9 DEF KillVideo, KillVo
<1>10. CASE UninitEnd
  BY <1>10 DEF UninitEnd, Alive
<1>11. CASE \E o \in Options : CreateVo(o) \/ SetOptions(o)
  BY <1>11 DEF CreateVo, SetOptions
<1>12. CASE UNCHANGED vars
  BY <1>12 DEF vars
<1>13. CASE RedrawFrame
  BY <1>13 DEF RedrawFrame
<1> QED BY <1>1, <1>2, <1>3, <1>4, <1>5, <1>6, <1>7, <1>8, <1>9, <1>10, <1>11, <1>12,
           <1>13
        DEF Next, Teardown

(* Pushing the frame that waits behind what is left of the queue keeps the *)
(* order.                                                                  *)
LEMMA PushInOrder ==
  ASSUME TypeOK, InOrder, NEW q \in Seq(Frames), Rest(q, frameQueue), Push(q)
  PROVE  InOrder'
<1>1. Ordered(q, shown.n, frames, config) /\ Latest(waitingFrame, q, shown.n, frames, config)
  BY RestOrdered DEF TypeOK, InOrder
<1>2. shown.n \in Nat /\ frames \in Nat /\ waitingFrame \in Frames
  BY FrameFacts DEF TypeOK
<1>3. /\ Ordered(Append(q, waitingFrame), shown.n, frames, config)
      /\ Latest(NoFrame, Append(q, waitingFrame), shown.n, frames, config)
  BY <1>1, <1>2, AppendOrdered
<1> QED BY <1>3 DEF InOrder, Push, hostVars, boundVars

(* The host shows a frame of the current configuration that is later than  *)
(* the one before, and leaves the others in order.                         *)
LEMMA DrawShowsNext ==
  ASSUME TypeOK, InOrder, DrawBegin
  PROVE  /\ InOrder'
         /\ shown' # shown => shown'.config = config /\ shown'.n > shown.n
<1> DEFINE queue == IF Applies THEN Newest(frameQueue, DrawOptions.size) ELSE frameQueue
           head == Head(queue)
           tail == Tail(queue)
<1>1. queue \in Seq(Frames) /\ Rest(queue, frameQueue)
  BY DrawOptionsFit, NewestRest, TrivialRest DEF TypeOK
<1>2. /\ Ordered(queue, shown.n, frames, config)
      /\ Latest(waitingFrame, queue, shown.n, frames, config)
  BY <1>1, RestOrdered DEF TypeOK, InOrder
<1>3. UNCHANGED <<waitingFrame, config, frames>>
  BY DEF DrawBegin, boundVars
<1>4. CASE queue = <<>>
  <2>1. frameQueue' = queue /\ shown' = shown
    BY <1>4 DEF DrawBegin
  <2> QED BY <1>2, <1>3, <2>1 DEF InOrder
<1>5. CASE queue # <<>>
  <2>1. frameQueue' = tail /\ shown' = IF head = NoFrame THEN shown ELSE head
    BY <1>5 DEF DrawBegin
  <2>2. /\ tail \in Seq(Frames) /\ Rest(tail, queue)
        /\ Len(queue) \in Nat /\ Len(tail) = Len(queue) - 1
        /\ \A i \in 1 .. Len(tail) : tail[i] = queue[i + 1]
    BY <1>1, <1>5, TailRest, HeadTailProperties
  <2>3. head = queue[1] /\ 1 \in 1 .. Len(queue)
    BY <1>1, <1>5, EmptySeq
  <2> HIDE DEF queue, head, tail
  <2>4. /\ Ordered(tail, shown.n, frames, config)
        /\ Latest(waitingFrame, tail, shown.n, frames, config)
    BY <1>1, <1>2, <2>2, RestOrdered
  <2>5. CASE head = NoFrame
    BY <1>3, <2>1, <2>4, <2>5 DEF InOrder
  <2>6. CASE head # NoFrame
    <3>1. head.config = config /\ shown.n < head.n /\ head.n <= frames
      BY <1>2, <2>3, <2>6 DEF Ordered, Follows
    <3>2. Latest(waitingFrame, tail, head.n, frames, config)
      BY <1>2, <2>3, <2>4 DEF Latest
    <3>3. ASSUME NEW i \in 1 .. Len(tail) PROVE Follows(tail[i], head.n, config)
      <4>1. tail[i] = queue[i + 1] /\ i + 1 \in 1 .. Len(queue) /\ 1 < i + 1
        BY <2>2
      <4> QED BY <1>2, <2>3, <4>1 DEF Ordered
    <3>4. Ordered(tail, head.n, frames, config)
      BY <2>4, <3>3 DEF Ordered
    <3>5. shown' = head
      BY <2>1, <2>6
    <3> QED BY <1>3, <2>1, <3>1, <3>2, <3>4, <3>5 DEF InOrder
  <2> QED BY <2>5, <2>6
<1> QED BY <1>4, <1>5

(* Without frames nothing is out of order. *)
LEMMA ForgottenInOrder ==
  ASSUME ForgetFrames, shown'.n <= frames', frames' \in Nat
  PROVE  InOrder'
<1>1. Ordered(frameQueue', shown.n', frames', config')
  BY DEF ForgetFrames, Ordered
<1>2. NoFrame.n <= frames'
  BY FrameFacts
<1> QED BY <1>1, <1>2 DEF ForgetFrames, InOrder, Latest, Follows

(* Every step keeps the frames in order. *)
LEMMA InOrderNext == TypeOK /\ Alive /\ InOrder /\ [Next]_vars => InOrder'
<1> SUFFICES ASSUME TypeOK, Alive, InOrder, [Next]_vars PROVE InOrder'
  OBVIOUS
<1>0. /\ shown.n \in Nat /\ frames \in Nat
      /\ shown.n <= frames /\ NoFrame.n = 0
  BY FrameFacts DEF TypeOK, InOrder
<1> USE DEF ctxVars, voVars, hostVars, boundVars
<1>1. CASE DestroyVo
  BY <1>1 DEF DestroyVo, InOrder
<1>2. CASE Uninit
  BY <1>0, <1>2, ForgottenInOrder DEF Uninit
<1>3. CASE Reconfig
  BY <1>0, <1>3, ForgottenInOrder DEF Reconfig
<1>4. CASE DrawImage
  <2>1. waitingFrame' = [n |-> frames + 1, config |-> config] /\ frames' = frames + 1
        /\ UNCHANGED <<frameQueue, shown, config>>
    BY <1>4 DEF DrawImage
  <2>2. \A i \in 1 .. Len(frameQueue) : frameQueue[i] \in Frames /\ frameQueue[i].n <= frames
    BY DEF InOrder, Ordered, TypeOK
  <2>3. \A i \in 1 .. Len(frameQueue) : frameQueue[i].n \in Nat
    BY <2>2, FrameFacts
  <2>4. Latest(waitingFrame', frameQueue', shown.n, frames', config')
    BY <1>0, <2>1, <2>2, <2>3 DEF Latest, Follows
  <2>5. Ordered(frameQueue', shown.n, frames', config')
    BY <1>0, <2>1, <2>2, <2>3 DEF InOrder, Ordered
  <2> QED BY <1>0, <2>1, <2>4, <2>5 DEF InOrder
<1>5. CASE FlipPage
  <2>1. voOpts.size - 1 \in Nat
    BY <1>5, OptionsAssumption DEF FlipPage, Alive, TypeOK, OptionSet
  <2>2. /\ frameQueue \in Seq(Frames) /\ Rest(frameQueue, frameQueue)
        /\ <<>> \in Seq(Frames) /\ Rest(<<>>, frameQueue)
        /\ Newest(frameQueue, voOpts.size - 1) \in Seq(Frames)
        /\ Rest(Newest(frameQueue, voOpts.size - 1), frameQueue)
    BY <2>1, TrivialRest, NewestRest DEF TypeOK
  <2>3. CASE \E q \in Seq(Frames) : Rest(q, frameQueue) /\ Push(q)
    BY <2>3, PushInOrder
  <2>4. CASE UNCHANGED <<ctxVars, vo, voOpts, hostVars, boundVars>>
    BY <2>4 DEF InOrder
  <2> QED BY <1>5, <2>2, <2>3, <2>4 DEF FlipPage
<1>6. CASE FlipAfterWakeup
  BY <1>6, TrivialRest, PushInOrder DEF FlipAfterWakeup, TypeOK
<1>7. CASE FlipAfterTimeout
  BY <1>7, TrivialRest, PushInOrder DEF FlipAfterTimeout, TypeOK
<1>8. CASE DrawBegin
  BY <1>8, DrawShowsNext
<1>9. CASE DrawEnd
  BY <1>9 DEF DrawEnd, InOrder
<1>10. CASE UninitBegin
  BY <1>0, <1>10, ForgottenInOrder DEF UninitBegin
<1>11. CASE KillVideo \/ KillVo
  BY <1>11 DEF KillVideo, KillVo, InOrder
<1>12. CASE UninitEnd
  <2>1. frameQueue = <<>> /\ waitingFrame = NoFrame
    BY <1>12 DEF UninitEnd, Alive
  <2>2. ForgetFrames /\ shown' = NoFrame /\ frames' = frames
    BY <1>12, <2>1 DEF UninitEnd, ForgetFrames
  <2> QED BY <1>0, <2>2, ForgottenInOrder
<1>13. CASE \E o \in Options : CreateVo(o) \/ SetOptions(o)
  BY <1>13 DEF CreateVo, SetOptions, InOrder
<1>14. CASE UNCHANGED vars
  BY <1>14 DEF vars, InOrder
<1>15. CASE RedrawFrame
  BY <1>15 DEF RedrawFrame, InOrder
<1> QED BY <1>1, <1>2, <1>3, <1>4, <1>5, <1>6, <1>7, <1>8, <1>9, <1>10, <1>11, <1>12,
           <1>13, <1>14, <1>15 DEF Next, Teardown

(***************************************************************************)
(* The theorems.                                                           *)
(***************************************************************************)
(* The invariant holds in every state of every behaviour. *)
THEOREM Invariance == Spec => []IInv
<1>1. IInv /\ [Next]_vars => IInv'
  BY TypeNext, AliveNext, InOrderNext, PreparedNext DEF IInv
<1> QED BY InitInv, <1>1, PTL DEF Spec

(* The variables of the context, the output and the host have their types. *)
THEOREM TypeCorrect == Spec => []TypeOK
<1>1. IInv => TypeOK
  BY DEF IInv
<1> QED BY <1>1, Invariance, PTL

(* The assertion of mpv_opengl_cb_uninit_gl: a context that is released    *)
(* has no output, no frame is left in it, and it is never used again.      *)
THEOREM ReleasedIsUnused == Spec => []GoneIsUnused
<1>1. IInv => GoneIsUnused
  BY DEF IInv, Alive, GoneIsUnused
<1> QED BY <1>1, Invariance, PTL

(* Only a draw shows a frame: of the configuration the renderer then has,  *)
(* and later than the one shown before.                                    *)
LEMMA StepShowsNext ==
  ASSUME IInv, [Next]_vars, shown' # shown, shown' # NoFrame
  PROVE  shown'.config = rendererConfig' /\ shown'.n > shown.n
<1>1. CASE DrawBegin
  <2>1. shown'.config = config /\ shown'.n > shown.n
    BY <1>1, DrawShowsNext DEF IInv
  <2>2. rendererConfig' = config
    BY <1>1 DEF DrawBegin, IInv, Prepared
  <2> QED BY <2>1, <2>2
<1>2. CASE ~DrawBegin
  BY <1>2
  DEF Next, Teardown, DestroyVo, Uninit, Reconfig, DrawImage, RedrawFrame, FlipPage,
      FlipAfterWakeup, FlipAfterTimeout, Push, DrawEnd, UninitBegin, KillVideo, KillVo,
      UninitEnd, CreateVo, SetOptions, vars, hostVars
<1> QED BY <1>1, <1>2

(* mpv_opengl_cb_draw never renders a frame with the configuration of      *)
(* another one, though frames are queued, dropped and forgotten by other   *)
(* threads meanwhile.                                                      *)
THEOREM AlwaysRenderedAsConfigured == Spec => RenderedAsConfigured
<1>1. IInv /\ [Next]_vars
      => [shown' # shown /\ shown' # NoFrame => shown'.config = rendererConfig']_vars
  BY StepShowsNext
<1> QED BY <1>1, Invariance, PTL DEF Spec, RenderedAsConfigured

(* flip_page and mpv_opengl_cb_draw together neither swap frames nor show  *)
(* one twice, in whatever drop mode.                                       *)
THEOREM AlwaysShownInOrder == Spec => ShownInOrder
<1>1. IInv /\ [Next]_vars
      => [shown' # shown /\ shown' # NoFrame => shown'.n > shown.n]_vars
  BY StepShowsNext
<1> QED BY <1>1, Invariance, PTL DEF Spec, ShownInOrder
==============================================================================

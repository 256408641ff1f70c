--------------------------- MODULE ClientApiProofs ---------------------------
(***************************************************************************)
(* The safety properties of ClientApi hold for every number of properties, *)
(* every size of the ring and every bound.                                 *)
(*                                                                         *)
(* The counters of the client stand for requests that are in the queue of  *)
(* the core: reserved_events for those that will be answered, with the one *)
(* of the GUI thread that is not queued yet, and properties_updating for   *)
(* those that fetch a value.  With that, a reply has its place, and the    *)
(* client that finds both zero knows that all it asked for is done.        *)
(***************************************************************************)
EXTENDS ClientApi, FiniteSetTheorems, SequenceTheorems, WellFoundedInduction, TLAPS

Answered == {"set", "reply"}
Updates == {"update"}

(* The requests of some kinds in a queue. *)
OfKind(q, K) == {i \in 1 .. Len(q) : q[i].kind \in K}

(* The request of the GUI thread that is on its way to the queue. *)
Unqueued == IF gui = 0 THEN 0 ELSE 1

Counted ==
  /\ reserved = Cardinality(OfKind(requests, Answered)) + Unqueued
  /\ updating = Cardinality(OfKind(requests, Updates))
  /\ Len(events) + reserved <= MaxEvents

(* Only properties observed by value are fetched. *)
Fetching(q) == \A i \in 1 .. Len(q) : q[i].kind = "update" => q[i].of \in Valued

(* A change of a property observed without a value is marked where the     *)
(* next scan looks, until the property has been read; a value is reported  *)
(* when it has been fetched.                                               *)
Watched ==
  /\ \A p \in Props \ Valued :
       /\ prop[p].needNew => prop[p].changed
       /\ prop[p].changed => lowestChanged <= p
       /\ seen[p] # value[p] => prop[p].changed \/ pc = [at |-> "read", of |-> p]
  /\ \A p \in Valued : prop[p].changed /\ prop[p].new = NoValue => prop[p].needNew
  /\ Fetching(requests)

Numbered(i) == events[i] > 0

(* The numbered events in the ring follow each other and what was received *)
(* last, or a loss has been reported; unless the ring is choked, the last  *)
(* event sent is the last in it.                                           *)
Sequence ==
  /\ \A i \in 1 .. Len(events) : events[i] <= sent
  /\ \A i, j \in 1 .. Len(events) : i < j /\ Numbered(i) /\ Numbered(j) => events[i] < events[j]
  /\ \A i \in 1 .. Len(events) : Numbered(i) =>
       \/ \E j \in 1 .. Len(events) : j < i /\ Numbered(j) /\ events[j] = events[i] - 1
       \/ /\ \A j \in 1 .. Len(events) : j < i => ~Numbered(j)
          /\ noticed \/ events[i] = got + 1
  /\ choked \/ (\E i \in 1 .. Len(events) : Numbered(i) /\ events[i] = sent)
            \/ ((\A i \in 1 .. Len(events) : ~Numbered(i)) /\ (noticed \/ got = sent))

IInv == TypeOK /\ Counted /\ Watched /\ Sequence /\ QuietIsCurrent /\ HookSettingsApply

(***************************************************************************)
(* Counting the requests of a queue.                                       *)
(***************************************************************************)
(* The requests of a kind are finitely many, and none is only in none. *)
LEMMA OfKindFacts ==
  ASSUME NEW q \in Seq(Request), NEW K
  PROVE  /\ IsFiniteSet(OfKind(q, K)) /\ Cardinality(OfKind(q, K)) \in Nat
         /\ Cardinality(OfKind(q, K)) = 0 <=> OfKind(q, K) = {}
<1>1. Len(q) \in Nat
  OBVIOUS
<1>2. IsFiniteSet(1 .. Len(q)) /\ OfKind(q, K) \subseteq 1 .. Len(q)
  BY <1>1, FS_Interval DEF OfKind
<1>3. IsFiniteSet(OfKind(q, K))
  BY <1>2, FS_Subset
<1> QED BY <1>3, FS_CardinalityType, FS_EmptySet

(* A request that is posted is one more of its kind. *)
LEMMA AppendCounts ==
  ASSUME NEW q \in Seq(Request), NEW r \in Request, NEW K
  PROVE  /\ Append(q, r) \in Seq(Request)
         /\ Cardinality(OfKind(Append(q, r), K))
              = Cardinality(OfKind(q, K)) + (IF r.kind \in K THEN 1 ELSE 0)
<1> DEFINE n == Len(q) + 1
<1>1. /\ Append(q, r) \in Seq(Request) /\ Len(Append(q, r)) = n
      /\ \A i \in 1 .. Len(q) : Append(q, r)[i] = q[i]
      /\ Append(q, r)[n] = r
  BY AppendProperties
<1>2. Len(q) \in Nat /\ 1 .. n = (1 .. Len(q)) \cup {n} /\ n \notin 1 .. Len(q)
  OBVIOUS
<1>3. OfKind(Append(q, r), K) = OfKind(q, K) \cup (IF r.kind \in K THEN {n} ELSE {})
  BY <1>1, <1>2 DEF OfKind
<1>4. n \notin OfKind(q, K)
  BY <1>2 DEF OfKind
<1>5. CASE r.kind \in K
  BY <1>1, <1>3, <1>4, <1>5, OfKindFacts, FS_AddElement
<1>6. CASE r.kind \notin K
  <2>1. OfKind(Append(q, r), K) = OfKind(q, K)
    BY <1>3, <1>6
  <2> QED BY <1>1, <1>6, <2>1, OfKindFacts
<1> QED BY <1>5, <1>6

(* The request that is served is one less of its kind. *)
LEMMA TailCounts ==
  ASSUME NEW q \in Seq(Request), q # <<>>, NEW K
  PROVE  /\ Tail(q) \in Seq(Request) /\ Head(q) \in Request
         /\ Cardinality(OfKind(Tail(q), K))
              = Cardinality(OfKind(q, K)) - (IF Head(q).kind \in K THEN 1 ELSE 0)
<1> DEFINE S == OfKind(Tail(q), K)
           T == OfKind(q, K) \ {1}
<1>1. /\ Head(q) \in Request /\ Tail(q) \in Seq(Request) /\ Len(Tail(q)) = Len(q) - 1
      /\ \A i \in 1 .. Len(Tail(q)) : Tail(q)[i] = q[i + 1]
      /\ Head(q) = q[1] /\ Len(q) \in Nat \ {0}
  BY HeadTailProperties, EmptySeq
<1>2. 1 \in OfKind(q, K) <=> Head(q).kind \in K
  BY <1>1 DEF OfKind
<1>3. Cardinality(T) = Cardinality(OfKind(q, K)) - (IF Head(q).kind \in K THEN 1 ELSE 0)
      /\ IsFiniteSet(T)
  <2>1. CASE Head(q).kind \in K
    BY <1>2, <2>1, OfKindFacts, FS_RemoveElement
  <2>2. CASE Head(q).kind \notin K
    <3>1. T = OfKind(q, K)
      BY <1>2, <2>2
    <3>2. IsFiniteSet(OfKind(q, K)) /\ Cardinality(OfKind(q, K)) \in Nat
      BY OfKindFacts
    <3> HIDE DEF T
    <3> QED BY <2>2, <3>1, <3>2
  <2> QED BY <2>1, <2>2
<1>4. Cardinality(S) = Cardinality(T)
  <2> DEFINE f == [i \in S |-> i + 1]
  <2>1. \A i \in S : i + 1 \in T
    BY <1>1 DEF OfKind
  <2>2. ASSUME NEW j \in T PROVE j - 1 \in S /\ (j - 1) + 1 = j
    <3>1. j \in 2 .. Len(q) /\ q[j].kind \in K
      BY <1>1 DEF OfKind
    <3>2. j - 1 \in 1 .. Len(Tail(q)) /\ (j - 1) + 1 = j
      BY <1>1, <3>1
    <3> QED BY <1>1, <3>1, <3>2 DEF OfKind
  <2>3. S \subseteq Nat
    BY <1>1 DEF OfKind
  <2> HIDE DEF S, T
  <2>4. f \in Bijection(S, T)
    <3>1. f \in [S -> T]
      BY <2>1
    <3>2. \A a, b \in S : f[a] = f[b] => a = b
      BY <2>3
    <3>3. \A j \in T : \E i \in S : f[i] = j
      BY <2>2
    <3> QED BY <3>1, <3>2, <3>3 DEF Bijection, Injection, Surjection, IsInjective
  <2>5. ExistsBijection(S, T)
    BY <2>4 DEF ExistsBijection
  <2>6. IsFiniteSet(S)
    BY <1>1, OfKindFacts DEF S
  <2> QED BY <2>5, <2>6, FS_Bijection
<1> QED BY <1>1, <1>3, <1>4

(* Requests of one kind that are posted together. *)
LEMMA ConcatCounts ==
  ASSUME NEW q \in Seq(Request), NEW u \in Seq(Request), NEW k, NEW K,
         \A i \in 1 .. Len(u) : u[i].kind = k
  PROVE  /\ q \o u \in Seq(Request)
         /\ Cardinality(OfKind(q \o u, K))
              = Cardinality(OfKind(q, K)) + (IF k \in K THEN Len(u) ELSE 0)
<1> DEFINE D == Len(q) + 1 .. Len(q) + Len(u)
<1>1. /\ q \o u \in Seq(Request) /\ Len(q \o u) = Len(q) + Len(u)
      /\ \A i \in 1 .. Len(q) + Len(u) :
           (q \o u)[i] = IF i <= Len(q) THEN q[i] ELSE u[i - Len(q)]
  BY ConcatProperties
<1>2. Len(q) \in Nat /\ Len(u) \in Nat
  OBVIOUS
<1>3. \A i \in 1 .. Len(q) : (q \o u)[i] = q[i]
  BY <1>1, <1>2
<1>4. \A i \in D : (q \o u)[i].kind = k
  <2>1. \A i \in D : i \in 1 .. Len(q) + Len(u) /\ ~(i <= Len(q)) /\ i - Len(q) \in 1 .. Len(u)
    BY <1>2
  <2> QED BY <1>1, <2>1
<1>5. 1 .. Len(q) + Len(u) = (1 .. Len(q)) \cup D /\ (1 .. Len(q)) \cap D = {}
  BY <1>2
<1>6. OfKind(q \o u, K) = OfKind(q, K) \cup (IF k \in K THEN D ELSE {})
  BY <1>1, <1>3, <1>4, <1>5 DEF OfKind
<1>7. CASE k \in K
  <2>1. IsFiniteSet(D) /\ Cardinality(D) = Len(u)
    <3> DEFINE a == Len(q) + 1
               b == Len(q) + Len(u)
    <3>1. a \in Int /\ b \in Int /\ D = a .. b
      BY <1>2
    <3>2. (IF a > b THEN 0 ELSE b - a + 1) = Len(u)
      BY <1>2
    <3> HIDE DEF a, b, D
    <3>3. IsFiniteSet(a .. b) /\ Cardinality(a .. b) = IF a > b THEN 0 ELSE b - a + 1
      BY <3>1, FS_Interval
    <3> QED BY <3>1, <3>2, <3>3
  <2>2. OfKind(q, K) \cap D = {}
    BY <1>5 DEF OfKind
  <2>3. Cardinality(OfKind(q, K) \cup D)
         = Cardinality(OfKind(q, K)) + Cardinality(D) - Cardinality(OfKind(q, K) \cap D)
    BY <2>1, OfKindFacts, FS_Union
  <2>4. Cardinality(OfKind(q, K) \cap D) = 0
    BY <2>2, FS_EmptySet
  <2> QED BY <1>1, <1>2, <1>6, <1>7, <2>1, <2>3, <2>4, OfKindFacts
<1>8. CASE k \notin K
  <2>1. OfKind(q \o u, K) = OfKind(q, K)
    BY <1>6, <1>8
  <2> QED BY <1>1, <1>8, <2>1, OfKindFacts
<1> QED BY <1>7, <1>8

(* A request that is carried out is still to be answered. *)
LEMMA HeadCounts ==
  ASSUME NEW q \in Seq(Request), q # <<>>, Head(q).kind = "set", NEW K,
         "set" \in K <=> "reply" \in K
  PROVE  /\ [q EXCEPT ![1].kind = "reply"] \in Seq(Request)
         /\ OfKind([q EXCEPT ![1].kind = "reply"], K) = OfKind(q, K)
<1> DEFINE e == [q[1] EXCEPT !.kind = "reply"]
           r == [q EXCEPT ![1] = e]
<1>1. 1 \in 1 .. Len(q) /\ q[1] \in Request /\ q[1].kind = "set"
  BY EmptySeq, HeadTailProperties
<1>2. e \in Request /\ e.kind = "reply"
  BY <1>1 DEF Request
<1>3. /\ r \in Seq(Request) /\ Len(r) = Len(q)
      /\ \A i \in 1 .. Len(q) : r[i] = IF i = 1 THEN e ELSE q[i]
  BY <1>1, <1>2, ExceptSeq
<1>4. OfKind(r, K) = OfKind(q, K)
  BY <1>1, <1>2, <1>3 DEF OfKind
<1> QED BY <1>3, <1>4

(***************************************************************************)
(* What the operators of the model do.                                     *)
(***************************************************************************)
(* Every set of natural numbers has a least one. *)
LEMMA Minimum ==
  ASSUME NEW S \in SUBSET Nat, S # {}
  PROVE  \E n \in S : \A m \in S : n <= m
<1> DEFINE R == OpToRel(<, Nat)
<1>1. IsWellFoundedOn(R, Nat)
  BY NatLessThanWellFounded
<1>2. \A x, y \in Nat : x < y => <<x, y>> \in R
  BY DEF OpToRel
<1> HIDE DEF R
<1>3. PICK n \in S : \A m \in S : ~(<<m, n>> \in R)
  BY <1>1, WFMin
<1>4. ASSUME NEW m \in S PROVE n <= m
  <2>1. n \in Nat /\ m \in Nat
    OBVIOUS
  <2>2. ~(m < n)
    BY <1>2, <1>3, <2>1, Zenon
  <2> QED BY <2>1, <2>2
<1> QED BY <1>4, Zenon

Events == 1 .. MaxSent \cup {0, -1}

(* An event is appended while it fits, or lost, and the ring is choked. *)
LEMMA SendFacts ==
  ASSUME TypeOK, NEW e \in Events, SendEvent(e)
  PROVE  /\ UNCHANGED reserved /\ choked' \in BOOLEAN /\ needWakeup' \in BOOLEAN
         /\ needWakeup => needWakeup'
         /\ \/ UNCHANGED events /\ choked'
            \/ /\ events' = Append(events, e) /\ ~choked /\ ~choked'
               /\ Len(events) + 1 + reserved <= MaxEvents
<1>1. Len(events) \in Nat /\ reserved \in Nat /\ MaxEvents \in Nat
  BY MaxEventsAssumption DEF TypeOK
<1>2. choked \in BOOLEAN /\ needWakeup \in BOOLEAN
  BY DEF TypeOK
<1>3. CASE choked
  BY <1>2, <1>3 DEF SendEvent, ringVars
<1>4. CASE ~choked /\ Full
  BY <1>2, <1>4 DEF SendEvent
<1>5. CASE ~choked /\ ~Full
  <2>1. Len(events) + 1 + reserved <= MaxEvents
    BY <1>1, <1>5 DEF Full
  <2> QED BY <1>2, <1>5, <2>1 DEF SendEvent
<1> QED BY <1>2, <1>3, <1>4, <1>5

(* The requests that a scan posts. *)
LEMMA ScanFacts ==
  ASSUME TypeOK, NEW last \in 0 .. N, Scan(last)
  PROVE  /\ Fetched(last) \subseteq Valued /\ Fetched(last) \subseteq Props
         /\ Cardinality(Fetched(last)) \in Nat
         /\ prop' \in [Props -> Observed]
         /\ \A p \in Props \ Valued : p # last \/ ~Reportable(p) => prop'[p] = prop[p]
         /\ \A p \in Props \ Valued : p = last /\ Reportable(p) =>
              ~prop'[p].changed /\ ~prop'[p].needNew
         /\ \A p \in Props : prop'[p].changed => prop'[p] = prop[p]
         /\ lowestChanged' \in 1 .. N + 1
         /\ \A p \in Scanned(last) : prop[p].changed => lowestChanged' <= p
         /\ \E u \in Seq(Request) :
              /\ requests' = requests \o u /\ Len(u) = Cardinality(Fetched(last))
              /\ \A i \in 1 .. Len(u) :
                   u[i].kind = "update" /\ u[i].of \in Fetched(last)
<1>1. N \in Nat /\ Valued \subseteq Props /\ lowestChanged \in Nat
  BY NAssumption DEF Props, TypeOK
<1>2. Fetched(last) \subseteq Props
  BY DEF Fetched, Scanned
<1>3. Fetched(last) \subseteq Valued
  BY DEF Fetched, Scanned, Reportable
<1>4. IsFiniteSet(Fetched(last)) /\ Cardinality(Fetched(last)) \in Nat
  <2>1. IsFiniteSet(Props)
    BY <1>1, FS_Interval DEF Props
  <2>2. IsFiniteSet(Fetched(last))
    BY <1>2, <2>1, FS_Subset
  <2> QED BY <2>2, FS_CardinalityType
<1>5. prop' \in [Props -> Observed]
  <2>1. ASSUME NEW p \in Props PROVE ScannedProp(last)[p] \in Observed
    <3>1. prop[p] \in Observed
      BY DEF TypeOK
    <3>2. [prop[p] EXCEPT !.changed = FALSE, !.needNew = FALSE, !.updating = TRUE] \in Observed
      BY <3>1 DEF Observed
    <3>3. [prop[p] EXCEPT !.changed = FALSE, !.needNew = FALSE, !.user = prop[p].new]
            \in Observed
      BY <3>1 DEF Observed
    <3> QED BY <3>1, <3>2, <3>3 DEF ScannedProp
  <2> QED BY <2>1 DEF Scan, ScannedProp
<1>6. ASSUME NEW p \in Props \ Valued
      PROVE  /\ p # last \/ ~Reportable(p) => prop'[p] = prop[p]
             /\ p = last /\ Reportable(p) => ~prop'[p].changed /\ ~prop'[p].needNew
  <2>1. p \notin Fetched(last)
    BY <1>3
  <2>2. prop[p] \in Observed
    BY DEF TypeOK
  <2> QED BY <2>1, <2>2 DEF Scan, ScannedProp, Observed
<1>9. ASSUME NEW p \in Props, prop'[p].changed PROVE prop'[p] = prop[p]
  <2>1. prop[p] \in Observed /\ prop'[p] = ScannedProp(last)[p]
    BY DEF TypeOK, Scan
  <2>2. p \notin Fetched(last)
    BY <1>9, <2>1 DEF ScannedProp, Observed
  <2>3. ~(p = last /\ Reportable(p))
    BY <1>9, <2>1, <2>2 DEF ScannedProp, Observed
  <2> QED BY <2>1, <2>2, <2>3 DEF ScannedProp
<1>7. /\ lowestChanged' \in 1 .. N + 1
      /\ \A p \in Scanned(last) : prop[p].changed => lowestChanged' <= p
  <2> DEFINE busy == {p \in Scanned(last) : prop[p].changed \/ prop[p].updating}
  <2>1. busy \in SUBSET Nat /\ busy \subseteq 1 .. N
    BY DEF Scanned, Props
  <2>2. lowestChanged' = IF busy = {} THEN N + 1
                         ELSE CHOOSE p \in busy : \A q \in busy : p <= q
    BY DEF Scan, LowestAfter
  <2>3. \A p \in Scanned(last) : prop[p].changed => p \in busy
    OBVIOUS
  <2> HIDE DEF busy
  <2>4. CASE busy = {}
    BY <1>1, <2>2, <2>3, <2>4
  <2>5. CASE busy # {}
    <3>1. \E p \in busy : \A q \in busy : p <= q
      BY <2>1, <2>5, Minimum
    <3>2. lowestChanged' \in busy /\ \A q \in busy : lowestChanged' <= q
      BY <2>2, <2>5, <3>1
    <3>3. lowestChanged' \in 1 .. N + 1
      BY <1>1, <2>1, <3>2
    <3> QED BY <2>3, <3>2, <3>3
  <2> QED BY <2>4, <2>5
<1>8. \E u \in Seq(Request) :
        /\ requests' = requests \o u /\ Len(u) = Cardinality(Fetched(last))
        /\ \A i \in 1 .. Len(u) :
             u[i].kind = "update" /\ u[i].of \in Fetched(last)
  <2> DEFINE n == Cardinality(Fetched(last))
  <2>1. PICK o \in Ascending(Fetched(last)) :
          requests' = requests \o [i \in 1 .. n |->
                        [kind |-> "update", of |-> o[i], by |-> "client"]]
    BY DEF Scan, RequestUpdates
  <2> DEFINE u == [i \in 1 .. n |-> [kind |-> "update", of |-> o[i], by |-> "client"]]
  <2>2. \A i \in 1 .. n : o[i] \in Fetched(last)
    BY DEF Ascending
  <2>3. \A i \in 1 .. n : u[i] \in Request
    BY <1>2, <2>2 DEF Request
  <2>4. u \in Seq(Request) /\ Len(u) = n
    BY <1>4, <2>3
  <2> QED BY <2>1, <2>2, <2>4
<1> QED BY <1>2, <1>3, <1>4, <1>5, <1>6, <1>7, <1>8, <1>9

(* A change is marked where the next scan looks, and wakes the client. *)
LEMMA ChangeFacts ==
  ASSUME TypeOK, NEW p \in Props, Change(p)
  PROVE  /\ value' \in [Props -> Values] /\ \A q \in Props : q # p => value'[q] = value[q]
         /\ prop' \in [Props -> Observed] /\ \A q \in Props : q # p => prop'[q] = prop[q]
         /\ lowestChanged' \in 1 .. N + 1 /\ lowestChanged' <= lowestChanged
         /\ needWakeup' \in BOOLEAN /\ (needWakeup => needWakeup')
         /\ IF prop[p].changed \/ prop[p].needNew
              THEN prop'[p] = prop[p] /\ lowestChanged' = lowestChanged
              ELSE /\ prop'[p].changed /\ (prop'[p].needNew <=> p \in Valued)
                   /\ lowestChanged' <= p
         /\ lowestChanged' <= N => needWakeup'
<1>1. N \in Nat /\ lowestChanged \in 1 .. N + 1 /\ p \in 1 .. N /\ prop[p] \in Observed
  BY NAssumption DEF TypeOK, Props
<1>2. value' \in [Props -> Values] /\ \A q \in Props : q # p => value'[q] = value[q]
  BY DEF Change, TypeOK, Values
<1>3. lowestChanged' = Lowered(p) /\ (needWakeup' <=> needWakeup \/ Lowered(p) <= N)
      /\ needWakeup' \in BOOLEAN
  BY DEF Change, TypeOK
<1>4. CASE prop[p].changed \/ prop[p].needNew
  <2>1. prop' = prop /\ lowestChanged' = lowestChanged
    BY <1>3, <1>4 DEF Change, Marked, Lowered
  <2> QED BY <1>1, <1>2, <1>3, <1>4, <2>1 DEF TypeOK
<1>5. CASE ~(prop[p].changed \/ prop[p].needNew)
  <2>1. prop' = [prop EXCEPT ![p].changed = TRUE, ![p].needNew = p \in Valued]
    BY <1>5 DEF Change, Marked
  <2>2. /\ prop' \in [Props -> Observed] /\ \A q \in Props : q # p => prop'[q] = prop[q]
        /\ prop'[p].changed /\ (prop'[p].needNew <=> p \in Valued)
    <3> DEFINE e == [prop[p] EXCEPT !.changed = TRUE, !.needNew = p \in Valued]
    <3>1. prop \in [Props -> Observed]
      BY DEF TypeOK
    <3>2. prop' = [prop EXCEPT ![p] = e]
      BY <2>1, <3>1
    <3>3. e \in Observed /\ e.changed /\ (e.needNew <=> p \in Valued)
      <4>1. CASE p \in Valued
        BY <1>1, <4>1 DEF Observed
      <4>2. CASE p \notin Valued
        <5>1. (p \in Valued) = FALSE
          BY <4>2
        <5>2. e = [prop[p] EXCEPT !.changed = TRUE, !.needNew = FALSE]
          BY <5>1, Zenon
        <5> HIDE DEF e
        <5> QED BY <1>1, <4>2, <5>2 DEF Observed
      <4> QED BY <4>1, <4>2
    <3> HIDE DEF e
    <3> QED BY <3>1, <3>2, <3>3
  <2>3. lowestChanged' \in 1 .. N + 1 /\ lowestChanged' <= lowestChanged
        /\ lowestChanged' <= p
    BY <1>1, <1>3, <1>5 DEF Lowered
  <2> QED BY <1>2, <1>3, <1>5, <2>2, <2>3
<1> QED BY <1>4, <1>5

(***************************************************************************)
(* Types and counts through every step.                                    *)
(***************************************************************************)
(* The initial states satisfy the invariant. *)
LEMMA InitIInv == Init => IInv
<1> SUFFICES ASSUME Init PROVE IInv
  OBVIOUS
<1> USE DEF Init
<1>1. TypeOK
  <2>1. requests \in Seq(Request) /\ events \in Seq(Events)
    BY EmptySeq
  <2>2. prop \in [Props -> Observed]
    BY DEF Observed, NoValue
  <2>3. 0 \in 0 .. MaxEvents /\ 1 \in 1 .. N + 1 /\ 0 \in 0 .. MaxSent /\ 0 \in 0 .. MaxHooks
        /\ 0 \in 0 .. MaxSets
    BY NAssumption, MaxEventsAssumption, BoundsAssumption
  <2>4. pc \in PcStates
    BY DEF At, PcStates
  <2>5. value \in [Props -> Values] /\ seen \in [Props -> Values]
    BY DEF Values
  <2>6. updating \in Nat /\ gui \in Props \cup {0} /\ got \in 0 .. sent /\ noticed \in BOOLEAN
        /\ hook \in {"idle", "active", "removed"} /\ choked \in BOOLEAN /\ needWakeup \in BOOLEAN
    <3>1. 0 \in 0 .. 0
      OBVIOUS
    <3>2. updating = 0 /\ gui = 0 /\ got = 0 /\ sent = 0 /\ noticed = FALSE /\ hook = "idle"
          /\ choked = FALSE /\ needWakeup = FALSE
      OBVIOUS
    <3> HIDE DEF Init
    <3> QED BY <3>1, <3>2
  <2>7. reserved \in 0 .. MaxEvents /\ lowestChanged \in 1 .. N + 1 /\ sent \in 0 .. MaxSent
        /\ hooks \in 0 .. MaxHooks /\ sets \in 0 .. MaxSets
    BY <2>3
  <2> HIDE DEF Init
  <2> QED BY <2>1, <2>2, <2>4, <2>5, <2>6, <2>7 DEF TypeOK, Events
<1>2. Counted
  <2>1. OfKind(requests, Answered) = {} /\ OfKind(requests, Updates) = {} /\ Len(events) = 0
    BY DEF OfKind
  <2>2. Cardinality(OfKind(requests, Answered)) = 0 /\ Cardinality(OfKind(requests, Updates)) = 0
    BY <2>1, FS_EmptySet
  <2>3. reserved = 0 /\ updating = 0 /\ gui = 0 /\ Len(events) = 0
    BY <2>1
  <2> HIDE DEF Init
  <2> QED BY <2>2, <2>3, MaxEventsAssumption DEF Counted, Unqueued
<1>3. Watched
  BY NAssumption DEF Watched, Props, Fetching
<1>4. Sequence /\ QuietIsCurrent /\ HookSettingsApply
  BY DEF Sequence, QuietIsCurrent, HookSettingsApply, At
<1> QED BY <1>1, <1>2, <1>3, <1>4 DEF IInv

(* Every variable keeps its type, the counters because they count. *)
LEMMA TypeNext ==
  ASSUME TypeOK, Counted, Watched, Sequence, Next
  PROVE  TypeOK'
<1>1. /\ N \in Nat /\ MaxEvents \in Nat /\ MaxSent \in Nat /\ MaxHooks \in Nat /\ MaxSets \in Nat
      /\ Valued \subseteq Props
  BY NAssumption, MaxEventsAssumption, BoundsAssumption DEF Props
<1>2. /\ value \in [Props -> Values] /\ requests \in Seq(Request)
      /\ hook \in {"idle", "active", "removed"} /\ events \in Seq(Events)
      /\ reserved \in 0 .. MaxEvents /\ choked \in BOOLEAN /\ needWakeup \in BOOLEAN
      /\ prop \in [Props -> Observed] /\ lowestChanged \in 1 .. N + 1 /\ updating \in Nat
      /\ pc \in PcStates /\ seen \in [Props -> Values] /\ gui \in Props \cup {0}
      /\ sent \in 0 .. MaxSent /\ got \in 0 .. sent /\ noticed \in BOOLEAN
      /\ hooks \in 0 .. MaxHooks /\ sets \in 0 .. MaxSets
  BY DEF TypeOK, Events
<1>3. \A e \in Events : Append(events, e) \in Seq(Events)
  BY <1>2, AppendProperties
<1>4. \A r \in Request : Append(requests, r) \in Seq(Request)
  BY <1>2, AppendProperties
<1>5. requests # <<>> => Head(requests) \in Request /\ Tail(requests) \in Seq(Request)
  BY <1>2, HeadTailProperties
<1>6. \A x \in {"wait", "asleep", "hook", "flush", "flushing", "ack"} : At(x) \in PcStates
  BY DEF At, PcStates
<1> USE DEF coreVars, ringVars, propVars, seenVars, boundVars
<1>7. CASE RunSet
  <2>1. requests' \in Seq(Request) /\ Head(requests).of \in Props
    BY <1>2, <1>5, <1>7, HeadCounts DEF RunSet, Request
  <2>2. CASE Change(Head(requests).of)
    <3>1. /\ value' \in [Props -> Values] /\ prop' \in [Props -> Observed]
          /\ lowestChanged' \in 1 .. N + 1 /\ needWakeup' \in BOOLEAN
      BY <2>1, <2>2, ChangeFacts
    <3> QED BY <1>2, <1>7, <2>1, <2>2, <3>1 DEF RunSet, Change, TypeOK, Events
  <2>3. CASE UNCHANGED <<coreVars, ringVars, needWakeup, propVars, pc, seenVars, gui>>
    BY <1>2, <1>7, <2>1, <2>3 DEF RunSet, TypeOK, Events
  <2> QED BY <1>7, <2>2, <2>3 DEF RunSet
<1>8. CASE SendReply
  <2>1. reserved' \in 0 .. MaxEvents
    <3>1. 1 \in OfKind(requests, Answered)
      BY <1>2, <1>8, EmptySeq DEF SendReply, OfKind, Answered
    <3>2. Cardinality(OfKind(requests, Answered)) \in Nat
          /\ Cardinality(OfKind(requests, Answered)) # 0
      BY <1>2, <3>1, OfKindFacts
    <3>3. reserved > 0
      <4>1. reserved = Cardinality(OfKind(requests, Answered)) + Unqueued /\ Unqueued \in Nat
        BY DEF Counted, Unqueued
      <4> QED BY <3>2, <4>1
    <3> QED BY <1>1, <1>2, <1>8, <3>3 DEF SendReply
  <2>2. events' \in Seq(Events)
    BY <1>3, <1>8 DEF SendReply, Reply, Events
  <2> QED BY <1>2, <1>5, <1>8, <2>1, <2>2 DEF SendReply, TypeOK, Events
<1>9. CASE UpdateProp
  <2> DEFINE p == Head(requests).of
  <2>1. updating' \in Nat
    <3>1. 1 \in OfKind(requests, Updates)
      BY <1>2, <1>9, EmptySeq DEF UpdateProp, OfKind, Updates
    <3>2. Cardinality(OfKind(requests, Updates)) \in Nat
          /\ Cardinality(OfKind(requests, Updates)) # 0
      BY <1>2, <3>1, OfKindFacts
    <3> QED BY <1>9, <3>2 DEF UpdateProp, Counted
  <2>2. p \in Props
    BY <1>5, <1>9 DEF UpdateProp, Request
  <2>3. prop' \in [Props -> Observed]
    <3>1. prop[p] \in Observed /\ value[p] \in Values
      BY <1>2, <2>2
    <3>2. (prop[p].changed \/ prop[p].user # value[p]) \in BOOLEAN
      OBVIOUS
    <3> DEFINE c == prop[p].changed \/ prop[p].user # value[p]
               o == [prop[p] EXCEPT !.updating = FALSE, !.new = value[p], !.changed = c]
    <3>3. prop' = [prop EXCEPT ![p] = o]
      BY <1>2, <1>9, <2>2 DEF UpdateProp
    <3> HIDE DEF c
    <3>4. o \in Observed
      BY <3>1, <3>2 DEF Observed, c
    <3> QED BY <1>2, <3>3, <3>4
  <2> QED BY <1>2, <1>5, <1>9, <2>1, <2>3 DEF UpdateProp, TypeOK, Events
<1>10. CASE ReportOverflow
  BY <1>2, <1>10 DEF ReportOverflow, TypeOK, Events
<1>11. CASE PopEvent
  <2>1. Head(events) \in Events /\ Tail(events) \in Seq(Events)
    BY <1>2, <1>11, HeadTailProperties DEF PopEvent
  <2>2. Head(events) <= sent
    BY <1>2, <1>11, EmptySeq DEF PopEvent, Sequence
  <2>3. CASE Head(events) > 0
    <3>1. got' = Head(events) /\ got' \in 0 .. sent
      BY <1>1, <1>2, <1>11, <2>1, <2>2, <2>3 DEF PopEvent, Events
    <3>2. noticed' = FALSE /\ pc' = pc
      BY <1>11, <2>3 DEF PopEvent
    <3> QED BY <1>2, <1>11, <2>1, <3>1, <3>2 DEF PopEvent, TypeOK, Events
  <2>4. CASE ~(Head(events) > 0)
    BY <1>2, <1>6, <1>11, <2>1, <2>4 DEF PopEvent, TypeOK, Events
  <2> QED BY <2>3, <2>4
<1>12. ASSUME NEW last \in 0 .. N, Scan(last), pc' \in PcStates, seen' \in [Props -> Values]
       PROVE  TypeOK'
  <2>1. /\ prop' \in [Props -> Observed] /\ lowestChanged' \in 1 .. N + 1
        /\ Cardinality(Fetched(last)) \in Nat
    BY <1>12, ScanFacts
  <2>2. requests' \in Seq(Request)
    <3>1. PICK u \in Seq(Request) : requests' = requests \o u
      BY <1>12, ScanFacts
    <3> QED BY <1>2, <3>1, ConcatProperties
  <2>3. updating' \in Nat
    BY <1>2, <1>12, <2>1 DEF Scan
  <2> QED BY <1>2, <1>12, <2>1, <2>2, <2>3 DEF Scan, TypeOK, Events
<1>13. CASE FallAsleep
  <2>1. N \in 0 .. N
    BY <1>1
  <2> QED BY <1>2, <1>6, <1>12, <1>13, <2>1 DEF FallAsleep
<1>14. ASSUME NEW p \in Props, PropertyEvent(p) PROVE TypeOK'
  <2>1. p \in 0 .. N
    BY <1>1 DEF Props
  <2>2. CASE p \in Valued
    <3>1. prop[p] \in Observed
      BY <1>2
    <3>2. prop[p].new \in Values
      BY <1>14, <2>2, <3>1 DEF PropertyEvent, Report, Reportable, Watched, Observed
    <3>3. seen' \in [Props -> Values] /\ pc' \in PcStates
      BY <1>2, <1>14, <2>2, <3>2 DEF PropertyEvent
    <3> QED BY <1>12, <1>14, <2>1, <3>3 DEF PropertyEvent
  <2>3. CASE p \notin Valued
    <3>1. seen' \in [Props -> Values] /\ pc' \in PcStates
      BY <1>2, <1>14, <2>3 DEF PropertyEvent, PcStates
    <3> QED BY <1>12, <1>14, <2>1, <3>1 DEF PropertyEvent
  <2> QED BY <2>2, <2>3
<1>15. CASE ReadProperty
  <2>1. pc.of \in Props
    BY <1>2, <1>15 DEF ReadProperty, PcStates
  <2>2. seen' \in [Props -> Values]
    BY <1>2, <1>15, <2>1 DEF ReadProperty
  <2> QED BY <1>2, <1>6, <1>15, <2>2 DEF ReadProperty, TypeOK, Events
<1>16. CASE WokenUp
  <2>1. pc' \in PcStates
    BY <1>6, <1>16 DEF WokenUp, AfterSleep
  <2> QED BY <1>2, <1>16, <2>1 DEF WokenUp, TypeOK, Events
<1>17. CASE Timeout
  BY <1>2, <1>6, <1>17 DEF Timeout, TypeOK, Events
<1>18. ASSUME NEW p \in Props, HookSets(p) PROVE TypeOK'
  <2>1. pc' \in PcStates
    BY <1>6, <1>18 DEF HookSets
  <2>2. CASE Refused
    BY <1>2, <1>18, <2>1, <2>2 DEF HookSets, TypeOK, Events
  <2>3. CASE ~Refused
    <3>1. reserved' \in 0 .. MaxEvents
      BY <1>1, <1>2, <1>18, <2>3 DEF HookSets, Refused, Full
    <3>2. [kind |-> "set", of |-> p, by |-> "client"] \in Request
      BY DEF Request
    <3>3. requests' \in Seq(Request)
      BY <1>4, <1>18, <2>3, <3>2 DEF HookSets
    <3> QED BY <1>2, <1>18, <2>1, <3>1, <3>3 DEF HookSets, TypeOK, Events
  <2> QED BY <2>2, <2>3
<1>19. CASE WaitAsync
  <2>1. pc' \in PcStates
    BY <1>6, <1>19 DEF WaitAsync
  <2> QED BY <1>2, <1>19, <2>1 DEF WaitAsync, TypeOK, Events
<1>20. CASE HookAck
  <2>1. pc' \in PcStates /\ hook' \in {"idle", "active", "removed"}
    BY <1>2, <1>6, <1>20 DEF HookAck
  <2> QED BY <1>2, <1>20, <2>1 DEF HookAck, TypeOK, Events
<1>21. CASE Enqueue
  <2>1. [kind |-> "set", of |-> gui, by |-> "gui"] \in Request
    BY <1>2, <1>21 DEF Enqueue, Request
  <2>2. requests' \in Seq(Request)
    BY <1>4, <1>21, <2>1 DEF Enqueue
  <2> QED BY <1>2, <1>21, <2>2 DEF Enqueue, TypeOK, Events
<1>22. ASSUME NEW e \in Events, SendEvent(e)
       PROVE  /\ reserved' \in 0 .. MaxEvents /\ choked' \in BOOLEAN /\ needWakeup' \in BOOLEAN
              /\ events' \in Seq(Events)
  BY <1>2, <1>3, <1>22, SendFacts
<1>23. CASE Broadcast
  <2>1. sent + 1 \in Events /\ sent' \in 0 .. MaxSent /\ sent' = sent + 1
    BY <1>1, <1>2, <1>23 DEF Broadcast, Events
  <2>2. SendEvent(sent + 1)
    BY <1>23, <2>1 DEF Broadcast
  <2>3. got \in 0 .. sent'
    BY <1>2, <2>1
  <2> QED BY <1>2, <1>22, <1>23, <2>1, <2>2, <2>3 DEF Broadcast, TypeOK, Events
<1>24. CASE HookRun
  <2>1. HookMessage \in Events /\ SendEvent(HookMessage)
    BY <1>24 DEF HookRun, HookMessage, Events
  <2>2. hooks' \in 0 .. MaxHooks /\ hook' \in {"idle", "active", "removed"}
    BY <1>1, <1>2, <1>24 DEF HookRun
  <2> QED BY <1>2, <1>22, <1>24, <2>1, <2>2 DEF HookRun, TypeOK, Events
<1>25. ASSUME NEW p \in Props, PlaybackChanges(p) PROVE TypeOK'
  <2>1. Change(p)
    BY <1>25 DEF PlaybackChanges
  <2>2. /\ value' \in [Props -> Values] /\ prop' \in [Props -> Observed]
        /\ lowestChanged' \in 1 .. N + 1 /\ needWakeup' \in BOOLEAN
    BY <2>1, ChangeFacts
  <2> QED BY <1>2, <1>25, <2>1, <2>2 DEF PlaybackChanges, Change, TypeOK, Events
<1>26. ASSUME NEW p \in Props, ReserveReply(p) PROVE TypeOK'
  <2>1. sets' \in 0 .. MaxSets
    BY <1>1, <1>2, <1>26 DEF ReserveReply
  <2>2. CASE Refused
    BY <1>2, <1>26, <2>1, <2>2 DEF ReserveReply, TypeOK, Events
  <2>3. CASE ~Refused
    <3>1. reserved' \in 0 .. MaxEvents
      BY <1>1, <1>2, <1>26, <2>3 DEF ReserveReply, Refused, Full
    <3> QED BY <1>2, <1>26, <2>1, <2>3, <3>1 DEF ReserveReply, TypeOK, Events
  <2> QED BY <2>2, <2>3
<1> QED BY <1>7, <1>8, <1>9, <1>10, <1>11, <1>13, <1>14, <1>15, <1>16, <1>17, <1>18, <1>19,
           <1>20, <1>21, <1>23, <1>24, <1>25, <1>26 DEF Next, ServeRequest, ClientStep

(* The counters are those of the queue, and every answer has its place. *)
LEMMA CountedNext ==
  ASSUME TypeOK, Counted, Next
  PROVE  Counted'
<1> DEFINE answers == Cardinality(OfKind(requests, Answered))
           updates == Cardinality(OfKind(requests, Updates))
<1>1. /\ requests \in Seq(Request) /\ events \in Seq(Events) /\ Len(events) \in Nat
      /\ reserved \in Nat /\ updating \in Nat /\ gui \in Props \cup {0} /\ MaxEvents \in Nat
  BY MaxEventsAssumption DEF TypeOK, Events
<1>2. answers \in Nat /\ updates \in Nat
  BY <1>1, OfKindFacts
<1>3. \A p \in Props : p # 0
  BY DEF Props
<1>4. \A e \in Events : Len(Append(events, e)) = Len(events) + 1
  BY <1>1, AppendProperties
<1>5. ASSUME UNCHANGED <<requests, events, reserved, gui, updating>> PROVE Counted'
  BY <1>5 DEF Counted, Unqueued
<1>22. /\ reserved = answers + Unqueued /\ updating = updates
       /\ Len(events) + reserved <= MaxEvents
  BY DEF Counted
<1>23. ASSUME reserved' = Cardinality(OfKind(requests', Answered)) + Unqueued',
              updating' = Cardinality(OfKind(requests', Updates)),
              Len(events') + reserved' <= MaxEvents
       PROVE  Counted'
  BY <1>23 DEF Counted, Unqueued
<1>24. /\ Unqueued \in Nat /\ Unqueued' \in Nat
       /\ gui = 0 => Unqueued = 0
       /\ gui # 0 => Unqueued = 1
       /\ gui' = 0 => Unqueued' = 0
       /\ gui' # 0 => Unqueued' = 1
       /\ UNCHANGED gui => UNCHANGED Unqueued
  BY DEF Unqueued
<1> USE DEF coreVars, ringVars, propVars, seenVars, boundVars
<1>6. CASE RunSet
  <2>1. requests' = [requests EXCEPT ![1].kind = "reply"]
        /\ UNCHANGED <<events, reserved, gui, updating>>
    BY <1>6 DEF RunSet, Change
  <2>2. OfKind(requests', Answered) = OfKind(requests, Answered)
    BY <1>1, <1>6, <2>1, HeadCounts DEF RunSet, Answered
  <2>3. OfKind(requests', Updates) = OfKind(requests, Updates)
    BY <1>1, <1>6, <2>1, HeadCounts DEF RunSet, Updates
  <2> QED BY <2>1, <2>2, <2>3 DEF Counted, Unqueued
<1>7. CASE SendReply
  <2>1. /\ Cardinality(OfKind(requests', Answered)) = answers - 1
        /\ Cardinality(OfKind(requests', Updates)) = updates
    <3>1. Head(requests).kind \in Answered /\ Head(requests).kind \notin Updates
      BY <1>7 DEF SendReply, Answered, Updates
    <3>2. requests # <<>> /\ requests' = Tail(requests)
      BY <1>7 DEF SendReply
    <3>3. Cardinality(OfKind(Tail(requests), Answered)) = answers - 1
      BY <1>1, <3>1, <3>2, TailCounts
    <3>4. Cardinality(OfKind(Tail(requests), Updates)) = updates - 0
      BY <1>1, <3>1, <3>2, TailCounts
    <3> HIDE DEF answers, updates
    <3> QED BY <1>2, <3>2, <3>3, <3>4
  <2>2. Len(events') = Len(events) + 1
    BY <1>4, <1>7 DEF SendReply, Reply, Events
  <2>3. reserved' = reserved - 1 /\ UNCHANGED <<gui, updating>>
    BY <1>7 DEF SendReply
  <2>4. Len(events') + reserved' <= MaxEvents /\ updating' = updates
    BY <1>1, <1>22, <2>2, <2>3
  <2>5. reserved' = Cardinality(OfKind(requests', Answered)) + Unqueued'
    <3>1. reserved' = (answers + Unqueued) - 1 /\ Unqueued' = Unqueued
      BY <1>22, <1>24, <2>3
    <3> HIDE DEF answers, updates
    <3> QED BY <1>2, <1>24, <2>1, <3>1
  <2> QED BY <1>23, <2>1, <2>4, <2>5
<1>8. CASE UpdateProp
  <2>1. /\ Cardinality(OfKind(requests', Answered)) = answers
        /\ Cardinality(OfKind(requests', Updates)) = updates - 1
    <3>1. Head(requests).kind \notin Answered /\ Head(requests).kind \in Updates
      BY <1>8 DEF UpdateProp, Answered, Updates
    <3>2. requests # <<>> /\ requests' = Tail(requests)
      BY <1>8 DEF UpdateProp
    <3>3. Cardinality(OfKind(Tail(requests), Answered)) = answers - 0
      BY <1>1, <3>1, <3>2, TailCounts
    <3>4. Cardinality(OfKind(Tail(requests), Updates)) = updates - 1
      BY <1>1, <3>1, <3>2, TailCounts
    <3> HIDE DEF answers, updates
    <3> QED BY <1>2, <3>2, <3>3, <3>4
  <2>2. updating' = updating - 1 /\ UNCHANGED <<events, reserved, gui>>
    BY <1>8 DEF UpdateProp
  <2> QED BY <1>1, <1>2, <1>24, <1>22, <1>23, <2>1, <2>2
<1>9. ASSUME NEW r \in Request, r.kind = "set", requests' = Append(requests, r),
             \/ reserved' = reserved /\ Unqueued = 1 /\ Unqueued' = 0
             \/ reserved' = reserved + 1 /\ Unqueued' = Unqueued,
             reserved' \in Nat, Len(events) + reserved' <= MaxEvents, UNCHANGED <<events, updating>>
      PROVE  Counted'
  <2>1. r.kind \in Answered /\ r.kind \notin Updates
    BY <1>9 DEF Answered, Updates
  <2>2. /\ Cardinality(OfKind(requests', Answered)) = answers + 1
        /\ Cardinality(OfKind(requests', Updates)) = updates + 0
    BY <1>1, <1>9, <2>1, AppendCounts
  <2>3. reserved' = (answers + 1) + Unqueued'
    <3>1. reserved = answers + Unqueued /\ reserved \in Nat /\ answers \in Nat /\ Unqueued \in Nat
      BY <1>1, <1>2, <1>22, <1>24
    <3> HIDE DEF answers
    <3>2. CASE reserved' = reserved /\ Unqueued = 1 /\ Unqueued' = 0
      BY <3>1, <3>2
    <3>3. CASE reserved' = reserved + 1 /\ Unqueued' = Unqueued
      BY <3>1, <3>3
    <3> QED BY <1>9, <3>2, <3>3
  <2> HIDE DEF answers, updates
  <2> QED BY <1>1, <1>2, <1>9, <1>22, <1>23, <2>2, <2>3
<1>10. CASE Enqueue
  <2> DEFINE r == [kind |-> "set", of |-> gui, by |-> "gui"]
  <2>1. /\ r \in Request /\ r.kind = "set" /\ gui # 0 /\ gui' = 0
        /\ requests' = Append(requests, r) /\ UNCHANGED <<events, updating, reserved>>
    BY <1>1, <1>10 DEF Enqueue, Request
  <2>2. Len(events) + reserved <= MaxEvents
    BY DEF Counted, Unqueued
  <2> HIDE DEF r
  <2>3. reserved' = reserved /\ Unqueued = 1 /\ Unqueued' = 0
    BY <1>1, <1>24, <2>1
  <2> QED BY <1>1, <1>9, <2>1, <2>2, <2>3
<1>11. ASSUME NEW p \in Props, HookSets(p) PROVE Counted'
  <2>1. CASE Refused
    BY <1>5, <1>24, <1>11, <2>1 DEF HookSets
  <2>2. CASE ~Refused
    <3> DEFINE r == [kind |-> "set", of |-> p, by |-> "client"]
    <3>1. /\ r \in Request /\ r.kind = "set" /\ requests' = Append(requests, r)
          /\ reserved' = reserved + 1 /\ UNCHANGED <<events, updating, gui>>
      BY <1>11, <2>2 DEF HookSets, Request
    <3>2. Len(events) + (reserved + 1) <= MaxEvents
      BY <1>1, <2>2 DEF Refused, Full
    <3> HIDE DEF r
    <3>3. reserved' = reserved + 1 /\ Unqueued' = Unqueued
      BY <1>1, <1>24, <3>1
    <3> QED BY <1>1, <1>9, <3>1, <3>2, <3>3
  <2> QED BY <2>1, <2>2
<1>12. ASSUME NEW p \in Props, ReserveReply(p) PROVE Counted'
  <2>1. CASE Refused
    BY <1>5, <1>24, <1>12, <2>1 DEF ReserveReply
  <2>2. CASE ~Refused
    <3>1. gui = 0 /\ gui' # 0 /\ reserved' = reserved + 1 /\ UNCHANGED <<requests, events, updating>>
      BY <1>3, <1>12, <2>2 DEF ReserveReply
    <3>2. Len(events) + (reserved + 1) <= MaxEvents
      BY <1>1, <2>2 DEF Refused, Full
    <3> QED BY <1>1, <1>2, <3>1, <3>2 DEF Counted, Unqueued
  <2> QED BY <2>1, <2>2
<1>13. ASSUME NEW e \in Events, SendEvent(e), UNCHANGED <<requests, gui, updating>>
       PROVE  Counted'
  <2>1. CASE UNCHANGED events
    BY <1>5, <1>24, <1>13, <2>1, SendFacts
  <2>2. CASE ~UNCHANGED events
    <3>1. /\ UNCHANGED reserved /\ events' = Append(events, e)
          /\ Len(events) + 1 + reserved <= MaxEvents
      BY <1>13, <2>2, SendFacts
    <3>2. Len(events') + reserved' <= MaxEvents
      BY <1>4, <1>13, <3>1
    <3>3. /\ reserved' = Cardinality(OfKind(requests', Answered)) + Unqueued'
          /\ updating' = Cardinality(OfKind(requests', Updates))
      BY <1>13, <1>22, <1>24, <3>1
    <3> QED BY <1>23, <3>2, <3>3
  <2> QED BY <2>1, <2>2
<1>14. CASE Broadcast
  <2>1. sent + 1 \in Events /\ SendEvent(sent + 1)
    BY <1>14, BoundsAssumption DEF Broadcast, TypeOK, Events
  <2> QED BY <1>13, <1>14, <2>1 DEF Broadcast
<1>15. CASE HookRun
  <2>1. HookMessage \in Events /\ SendEvent(HookMessage)
    BY <1>15 DEF HookRun, HookMessage, Events
  <2> QED BY <1>13, <1>15, <2>1 DEF HookRun
<1>16. CASE PopEvent
  <2>1. Len(events') = Len(events) - 1 /\ UNCHANGED <<requests, reserved, gui, updating>>
    BY <1>1, <1>16, HeadTailProperties DEF PopEvent
  <2> QED BY <1>1, <2>1 DEF Counted, Unqueued
<1>17. ASSUME NEW last \in 0 .. N, Scan(last) PROVE Counted'
  <2>1. PICK u \in Seq(Request) :
          /\ requests' = requests \o u /\ Len(u) = Cardinality(Fetched(last))
          /\ \A i \in 1 .. Len(u) : u[i].kind = "update"
    BY <1>17, ScanFacts
  <2>2. "update" \notin Answered /\ "update" \in Updates
    BY DEF Answered, Updates
  <2>3. Cardinality(OfKind(requests', Answered)) = answers
    <3>1. Cardinality(OfKind(requests \o u, Answered)) = answers + 0
      BY <1>1, <2>1, <2>2, ConcatCounts
    <3> HIDE DEF answers
    <3> QED BY <1>2, <2>1, <3>1
  <2>4. Cardinality(OfKind(requests', Updates)) = updates + Len(u)
    BY <1>1, <2>1, <2>2, ConcatCounts
  <2>5. updating' = updating + Len(u) /\ UNCHANGED <<events, reserved, gui>>
    BY <1>17, <2>1 DEF Scan
  <2> QED BY <1>1, <1>2, <1>24, <1>22, <1>23, <2>3, <2>4, <2>5
<1>18. CASE FallAsleep
  <2>1. N \in 0 .. N
    BY NAssumption
  <2> QED BY <1>17, <1>18, <2>1 DEF FallAsleep
<1>19. ASSUME NEW p \in Props, PropertyEvent(p) PROVE Counted'
  <2>1. p \in 0 .. N
    BY NAssumption DEF Props
  <2> QED BY <1>17, <1>19, <2>1 DEF PropertyEvent
<1>20. CASE ReportOverflow \/ ReadProperty \/ WokenUp \/ Timeout \/ WaitAsync \/ HookAck
  BY <1>5, <1>24, <1>20 DEF ReportOverflow, ReadProperty, WokenUp, Timeout, WaitAsync, HookAck
<1>21. ASSUME NEW p \in Props, PlaybackChanges(p) PROVE Counted'
  BY <1>5, <1>24, <1>21 DEF PlaybackChanges, Change
<1> QED BY <1>6, <1>7, <1>8, <1>10, <1>11, <1>12, <1>14, <1>15, <1>16, <1>18, <1>19, <1>20,
           <1>21 DEF Next, ServeRequest, ClientStep

(***************************************************************************)
(* What is changed, and what is asked for.                                 *)
(***************************************************************************)
(* The queue fetches properties observed by value, however it moves. *)
LEMMA FetchingFacts ==
  ASSUME NEW q \in Seq(Request), Fetching(q)
  PROVE  /\ \A r \in Request : r.kind = "set" => Fetching(Append(q, r))
         /\ q # <<>> => Fetching(Tail(q))
         /\ q # <<>> /\ Head(q).kind = "set" => Fetching([q EXCEPT ![1].kind = "reply"])
         /\ \A u \in Seq(Request) : Fetching(u) => Fetching(q \o u)
<1>1. ASSUME NEW r \in Request, r.kind = "set" PROVE Fetching(Append(q, r))
  <2>1. \A i \in 1 .. Len(Append(q, r)) :
          (i \in 1 .. Len(q) /\ Append(q, r)[i] = q[i]) \/ Append(q, r)[i] = r
    BY AppendProperties
  <2> QED BY <1>1, <2>1 DEF Fetching
<1>2. ASSUME q # <<>> PROVE Fetching(Tail(q))
  <2>1. \A i \in 1 .. Len(Tail(q)) : i + 1 \in 1 .. Len(q) /\ Tail(q)[i] = q[i + 1]
    BY <1>2, HeadTailProperties
  <2> QED BY <2>1 DEF Fetching
<1>3. ASSUME q # <<>>, Head(q).kind = "set"
      PROVE  Fetching([q EXCEPT ![1].kind = "reply"])
  <2> DEFINE e == [q[1] EXCEPT !.kind = "reply"]
  <2>1. 1 \in 1 .. Len(q) /\ q[1] \in Request
    BY <1>3, EmptySeq
  <2>2. e \in Request /\ e.kind = "reply"
    BY <2>1 DEF Request
  <2> HIDE DEF e
  <2>3. /\ Len([q EXCEPT ![1] = e]) = Len(q)
        /\ \A i \in 1 .. Len(q) : [q EXCEPT ![1] = e][i] = IF i = 1 THEN e ELSE q[i]
    BY <2>1, <2>2, ExceptSeq
  <2> QED BY <2>2, <2>3 DEF Fetching, e
<1>4. ASSUME NEW u \in Seq(Request), Fetching(u) PROVE Fetching(q \o u)
  <2>1. ASSUME NEW i \in 1 .. Len(q \o u)
        PROVE  \/ i \in 1 .. Len(q) /\ (q \o u)[i] = q[i]
               \/ i - Len(q) \in 1 .. Len(u) /\ (q \o u)[i] = u[i - Len(q)]
    BY ConcatProperties
  <2> QED BY <1>4, <2>1 DEF Fetching
<1> QED BY <1>1, <1>2, <1>3, <1>4

(* No change is forgotten. *)
LEMMA WatchedNext ==
  ASSUME TypeOK, Watched, Next
  PROVE  Watched'
<1>1. /\ N \in Nat /\ Valued \subseteq Props /\ Props = 1 .. N
      /\ requests \in Seq(Request) /\ prop \in [Props -> Observed] /\ value \in [Props -> Values]
      /\ lowestChanged \in 1 .. N + 1 /\ seen \in [Props -> Values]
  BY NAssumption DEF TypeOK, Props
<1>2. Fetching(requests)
  BY DEF Watched
<1>3. requests # <<>> => Fetching(Tail(requests))
  BY <1>1, <1>2, FetchingFacts
<1>4. \A r \in Request : r.kind = "set" => Fetching(Append(requests, r))
  BY <1>1, <1>2, FetchingFacts
<1>5. ASSUME UNCHANGED <<value, prop, lowestChanged, seen>>,
             pc.at = "read" => UNCHANGED pc, Fetching(requests')
      PROVE  Watched'
  BY <1>5 DEF Watched
<1>6. \A x : At(x).at = x
  BY DEF At
<1>7. ASSUME NEW p \in Props, Change(p), Fetching(requests') PROVE Watched'
  <2>1. UNCHANGED <<pc, seen>>
    BY <1>7 DEF Change, seenVars
  <2>2. ASSUME NEW q \in Props \ Valued
        PROVE  /\ prop'[q].needNew => prop'[q].changed
               /\ prop'[q].changed => lowestChanged' <= q
               /\ seen'[q] # value'[q] => prop'[q].changed \/ pc' = [at |-> "read", of |-> q]
    <3>0. /\ prop[q].needNew => prop[q].changed
          /\ prop[q].changed => lowestChanged <= q
          /\ seen[q] # value[q] => prop[q].changed \/ pc = [at |-> "read", of |-> q]
          /\ q \in Nat /\ lowestChanged \in Nat
      BY <1>1 DEF Watched
    <3>1. CASE q # p
      <4>1. value'[q] = value[q] /\ prop'[q] = prop[q] /\ lowestChanged' <= lowestChanged
            /\ lowestChanged' \in Nat
        BY <1>7, <3>1, ChangeFacts
      <4> QED BY <2>1, <3>0, <4>1
    <3>2. CASE q = p /\ (prop[p].changed \/ prop[p].needNew)
      <4>1. prop'[p] = prop[p] /\ lowestChanged' = lowestChanged
        BY <1>7, <3>2, ChangeFacts
      <4> QED BY <3>0, <3>2, <4>1
    <3>3. CASE q = p /\ ~(prop[p].changed \/ prop[p].needNew)
      BY <1>7, <3>3, ChangeFacts
    <3> QED BY <3>1, <3>2, <3>3
  <2>3. ASSUME NEW q \in Valued, prop'[q].changed, prop'[q].new = NoValue
        PROVE  prop'[q].needNew
    <3>1. CASE q # p \/ prop[p].changed \/ prop[p].needNew
      <4>1. prop'[q] = prop[q]
        BY <1>1, <1>7, <3>1, ChangeFacts
      <4> QED BY <2>3, <4>1 DEF Watched
    <3>2. CASE q = p /\ ~(prop[p].changed \/ prop[p].needNew)
      BY <1>7, <3>2, ChangeFacts
    <3> QED BY <3>1, <3>2
  <2> QED BY <1>7, <2>2, <2>3 DEF Watched
<1> USE DEF coreVars, ringVars, propVars, seenVars, boundVars
<1>8. CASE RunSet
  <2>1. Fetching(requests')
    BY <1>1, <1>2, <1>8, FetchingFacts DEF RunSet
  <2>2. Head(requests).of \in Props
    <3>1. Head(requests) \in Request
      BY <1>1, <1>8, HeadTailProperties DEF RunSet
    <3> QED BY <3>1 DEF Request
  <2>3. CASE Change(Head(requests).of)
    BY <1>7, <2>1, <2>2, <2>3
  <2>4. CASE UNCHANGED <<coreVars, ringVars, needWakeup, propVars, pc, seenVars, gui>>
    BY <1>5, <2>1, <2>4
  <2> QED BY <1>8, <2>3, <2>4 DEF RunSet
<1>9. CASE UpdateProp
  <2> DEFINE p == Head(requests).of
  <2>1. p \in Valued
    <3>1. requests # <<>> /\ Head(requests).kind = "update"
      BY <1>9 DEF UpdateProp
    <3>2. 1 \in 1 .. Len(requests) /\ Head(requests) = requests[1]
      BY <1>1, <3>1, EmptySeq
    <3> QED BY <1>2, <3>1, <3>2 DEF Fetching
  <2>2. Fetching(requests')
    BY <1>3, <1>9 DEF UpdateProp
  <2>3. UNCHANGED <<value, lowestChanged, seen, pc>>
    BY <1>9 DEF UpdateProp
  <2>4. (\A q \in Props : q # p => prop'[q] = prop[q]) /\ prop'[p].new = value[p]
    BY <1>1, <1>9, <2>1 DEF UpdateProp, Observed
  <2>5. value[p] # NoValue
    <3>1. value[p] \in Nat
      BY <1>1, <2>1 DEF Values
    <3> HIDE DEF p
    <3> QED BY <3>1 DEF NoValue
  <2> HIDE DEF p
  <2> QED BY <1>1, <2>1, <2>2, <2>3, <2>4, <2>5 DEF Watched
<1>10. CASE SendReply
  BY <1>3, <1>5, <1>10 DEF SendReply
<1>11. ASSUME NEW last \in 0 .. N, Scan(last),
              last = N \/ (last \in Props /\ Reportable(last)),
              \A p \in Props \ Valued : seen'[p] = seen[p],
              \A p \in Props \ Valued :
                p = last /\ Reportable(p) => pc' = [at |-> "read", of |-> p]
       PROVE  Watched'
  <2>1. pc.at # "read" /\ UNCHANGED value
    BY <1>6, <1>11 DEF Scan
  <2>2. ASSUME NEW p \in Props \ Valued
        PROVE  /\ prop'[p].needNew => prop'[p].changed
               /\ prop'[p].changed => lowestChanged' <= p
               /\ seen'[p] # value'[p] => prop'[p].changed \/ pc' = [at |-> "read", of |-> p]
    <3>0. /\ prop[p].needNew => prop[p].changed
          /\ prop[p].changed => lowestChanged <= p
          /\ seen[p] # value[p] => prop[p].changed
      BY <2>1 DEF Watched
    <3>1. CASE p = last /\ Reportable(p)
      <4>1. ~prop'[p].changed /\ ~prop'[p].needNew
        BY <1>11, <3>1, ScanFacts
      <4> QED BY <1>11, <3>1, <4>1
    <3>2. CASE ~(p = last /\ Reportable(p))
      <4>1. prop'[p] = prop[p]
        BY <1>11, <3>2, ScanFacts
      <4>2. ASSUME prop[p].changed PROVE lowestChanged' <= p
        <5>0. p \in 1 .. N /\ lowestChanged \in Nat /\ last \in Nat
          BY <1>1
        <5>1. CASE p <= last
          <6>1. p \in Scanned(last)
            BY <1>1, <3>0, <4>2, <5>1 DEF Scanned
          <6> QED BY <1>11, <4>2, <6>1, ScanFacts
        <5>2. CASE last < p
          <6>1. last \in Props /\ Reportable(last)
            BY <1>1, <1>11, <5>0, <5>2
          <6>2. last \in Scanned(last) /\ prop[last].changed
            BY <1>1, <6>1 DEF Scanned, Reportable
          <6>3. lowestChanged' <= last /\ lowestChanged' \in 1 .. N + 1
            BY <1>11, <6>2, ScanFacts
          <6> QED BY <1>1, <5>0, <5>2, <6>3
        <5> QED BY <5>0, <5>1, <5>2
      <4>3. seen'[p] = seen[p] /\ value'[p] = value[p]
        BY <1>11, <2>1
      <4> QED BY <3>0, <4>1, <4>2, <4>3
    <3> QED BY <3>1, <3>2
  <2>3. ASSUME NEW p \in Valued, prop'[p].changed, prop'[p].new = NoValue
        PROVE  prop'[p].needNew
    <3>1. prop'[p] = prop[p]
      BY <1>1, <1>11, <2>3, ScanFacts
    <3> QED BY <2>3, <3>1 DEF Watched
  <2>4. Fetching(requests')
    <3>1. PICK u \in Seq(Request) :
            /\ requests' = requests \o u
            /\ \A i \in 1 .. Len(u) : u[i].kind = "update" /\ u[i].of \in Fetched(last)
      BY <1>11, ScanFacts
    <3>2. Fetched(last) \subseteq Valued
      BY <1>11, ScanFacts
    <3>3. Fetching(u)
      BY <3>1, <3>2 DEF Fetching
    <3> QED BY <1>1, <1>2, <3>1, <3>3, FetchingFacts
  <2> QED BY <2>2, <2>3, <2>4 DEF Watched
<1>12. CASE FallAsleep
  <2>1. N \in 0 .. N
    BY <1>1
  <2> QED BY <1>11, <1>12, <2>1 DEF FallAsleep
<1>13. ASSUME NEW p \in Props, PropertyEvent(p) PROVE Watched'
  <2>1. p \in 0 .. N /\ Scan(p) /\ Reportable(p)
    BY <1>1, <1>13 DEF PropertyEvent, Report
  <2>2. \A q \in Props \ Valued : seen'[q] = seen[q]
    BY <1>1, <1>13 DEF PropertyEvent
  <2>3. \A q \in Props \ Valued :
          q = p /\ Reportable(q) => pc' = [at |-> "read", of |-> q]
    BY <1>13 DEF PropertyEvent
  <2> QED BY <1>11, <2>1, <2>2, <2>3
<1>14. CASE ReadProperty
  <2>1. /\ pc.of \in Props /\ pc.at = "read" /\ seen' = [seen EXCEPT ![pc.of] = value[pc.of]]
        /\ UNCHANGED <<value, prop, lowestChanged, requests>>
    BY <1>14 DEF ReadProperty, TypeOK, PcStates
  <2>2. \A p \in Props : pc = [at |-> "read", of |-> p] => p = pc.of
    OBVIOUS
  <2> QED BY <1>1, <2>1, <2>2 DEF Watched
<1>15. CASE Enqueue
  <2>1. [kind |-> "set", of |-> gui, by |-> "gui"] \in Request
    BY <1>15 DEF Enqueue, Request, TypeOK
  <2>2. Fetching(requests')
    BY <1>4, <1>15, <2>1 DEF Enqueue
  <2> QED BY <1>5, <1>15, <2>2 DEF Enqueue
<1>16. ASSUME NEW p \in Props, HookSets(p) PROVE Watched'
  <2>1. [kind |-> "set", of |-> p, by |-> "client"] \in Request
    BY DEF Request
  <2>2. Fetching(requests')
    BY <1>2, <1>4, <1>16, <2>1 DEF HookSets
  <2> QED BY <1>5, <1>6, <1>16, <2>2 DEF HookSets
<1>17. CASE PopEvent \/ ReportOverflow
  BY <1>2, <1>5, <1>6, <1>17 DEF PopEvent, ReportOverflow
<1>18. CASE WokenUp \/ Timeout
  BY <1>2, <1>5, <1>18 DEF WokenUp, Timeout, Sleeping
<1>19. CASE WaitAsync \/ HookAck
  BY <1>2, <1>5, <1>6, <1>19 DEF WaitAsync, HookAck
<1>20. CASE Broadcast \/ HookRun
  BY <1>2, <1>5, <1>20 DEF Broadcast, HookRun
<1>21. ASSUME NEW p \in Props, PlaybackChanges(p) PROVE Watched'
  BY <1>2, <1>7, <1>21 DEF PlaybackChanges
<1>22. ASSUME NEW p \in Props, ReserveReply(p) PROVE Watched'
  BY <1>2, <1>5, <1>22 DEF ReserveReply
<1> QED BY <1>8, <1>9, <1>10, <1>12, <1>13, <1>14, <1>15, <1>16, <1>17, <1>18, <1>19, <1>20,
           <1>21, <1>22 DEF Next, ServeRequest, ClientStep

(* A client that sleeps unwoken has seen everything. *)
LEMMA QuietNext ==
  ASSUME TypeOK, Watched, QuietIsCurrent, Next
  PROVE  QuietIsCurrent'
<1>1. /\ N \in Nat /\ Valued \subseteq Props /\ Props = 1 .. N
      /\ lowestChanged \in 1 .. N + 1 /\ needWakeup \in BOOLEAN
  BY NAssumption DEF TypeOK, Props
<1>2. \A x, y : At(x) = At(y) => x = y
  BY DEF At
<1>3. \A x : At(x).at = x
  BY DEF At
<1>4. ASSUME UNCHANGED <<value, seen>>, pc' = At("asleep") => pc = At("asleep"),
             needWakeup => needWakeup'
      PROVE  QuietIsCurrent'
  BY <1>4 DEF QuietIsCurrent
<1>5. ASSUME pc' # At("asleep") PROVE QuietIsCurrent'
  BY <1>5 DEF QuietIsCurrent
<1>6. ASSUME NEW p \in Props, Change(p) PROVE QuietIsCurrent'
  <2>1. UNCHANGED <<pc, seen>>
    BY <1>6 DEF Change, seenVars
  <2>2. SUFFICES ASSUME pc = At("asleep"), ~needWakeup', NEW q \in Props \ Valued
                 PROVE  seen[q] = value'[q]
    BY <2>1 DEF QuietIsCurrent
  <2>3. ~needWakeup /\ ~(lowestChanged' <= N) /\ lowestChanged' <= lowestChanged
        /\ lowestChanged' \in Nat /\ lowestChanged \in Nat
    BY <1>1, <1>6, <2>2, ChangeFacts
  <2>4. CASE q # p
    BY <1>6, <2>2, <2>3, <2>4, ChangeFacts DEF QuietIsCurrent
  <2>5. CASE q = p
    <3>1. ~(prop[p].changed \/ prop[p].needNew)
      <4>1. prop[p].needNew => prop[p].changed
        BY <2>2, <2>5 DEF Watched
      <4>2. prop[p].changed => lowestChanged <= p
        BY <2>2, <2>5 DEF Watched
      <4> QED BY <1>1, <2>3, <4>1, <4>2
    <3>2. lowestChanged' <= p
      BY <1>6, <3>1, ChangeFacts
    <3> QED BY <1>1, <2>3, <3>2
  <2> QED BY <2>4, <2>5
<1> USE DEF coreVars, ringVars, propVars, seenVars, boundVars
<1>7. CASE RunSet
  <2>1. CASE Change(Head(requests).of)
    <3>1. Head(requests) \in Request
      BY <1>7, HeadTailProperties DEF RunSet, TypeOK
    <3>2. Head(requests).of \in Props
      BY <3>1 DEF Request
    <3> QED BY <1>6, <2>1, <3>2
  <2>2. CASE UNCHANGED <<coreVars, ringVars, needWakeup, propVars, pc, seenVars, gui>>
    BY <1>4, <2>2
  <2> QED BY <1>7, <2>1, <2>2 DEF RunSet
<1>8. CASE SendReply \/ UpdateProp
  BY <1>4, <1>8 DEF SendReply, UpdateProp
<1>9. CASE FallAsleep
  <2>1. UNCHANGED <<value, seen>> /\ pc = At("wait")
    BY <1>9 DEF FallAsleep, Scan
  <2>2. ASSUME NEW q \in Props \ Valued PROVE seen[q] = value[q]
    <3>1. SUFFICES ASSUME seen[q] # value[q] PROVE FALSE
      OBVIOUS
    <3>2. pc # [at |-> "read", of |-> q]
      BY <2>1 DEF At
    <3>3. prop[q].changed /\ lowestChanged <= q
      BY <3>1, <3>2 DEF Watched
    <3>4. Reportable(q)
      BY <1>1, <3>3 DEF Reportable
    <3> QED BY <1>9, <3>4 DEF FallAsleep
  <2> QED BY <2>1, <2>2 DEF QuietIsCurrent
<1>10. ASSUME NEW p \in Props, PropertyEvent(p) PROVE QuietIsCurrent'
  <2>1. pc' # At("asleep")
    BY <1>2, <1>3, <1>10 DEF PropertyEvent, Scan
  <2> QED BY <1>5, <2>1
<1>11. CASE ReadProperty \/ WaitAsync \/ HookAck \/ WokenUp \/ Timeout
  <2>1. pc' # At("asleep")
    BY <1>2, <1>11 DEF ReadProperty, WaitAsync, HookAck, WokenUp, Timeout, AfterSleep
  <2> QED BY <1>5, <2>1
<1>12. ASSUME NEW p \in Props, HookSets(p) PROVE QuietIsCurrent'
  <2>1. pc' # At("asleep")
    BY <1>2, <1>12 DEF HookSets
  <2> QED BY <1>5, <2>1
<1>13. CASE PopEvent
  <2>1. pc' # At("asleep")
    BY <1>2, <1>13 DEF PopEvent
  <2> QED BY <1>5, <2>1
<1>14. CASE ReportOverflow \/ Enqueue
  BY <1>4, <1>14 DEF ReportOverflow, Enqueue
<1>15. CASE Broadcast \/ HookRun
  <2>1. UNCHANGED <<value, seen, pc>>
    BY <1>15 DEF Broadcast, HookRun
  <2>2. needWakeup => needWakeup'
    BY <1>15 DEF Broadcast, HookRun, SendEvent
  <2> QED BY <1>4, <2>1, <2>2
<1>16. ASSUME NEW p \in Props, PlaybackChanges(p) PROVE QuietIsCurrent'
  BY <1>6, <1>16 DEF PlaybackChanges
<1>17. ASSUME NEW p \in Props, ReserveReply(p) PROVE QuietIsCurrent'
  BY <1>4, <1>17 DEF ReserveReply
<1> QED BY <1>7, <1>8, <1>9, <1>10, <1>11, <1>12, <1>13, <1>14, <1>15, <1>16, <1>17
        DEF Next, ServeRequest, ClientStep

(* A request of the client that is still queued is among those counted, so *)
(* the client that finds none goes on to an empty queue, and posts nothing *)
(* before it has acknowledged.                                             *)
LEMMA HookNext ==
  ASSUME TypeOK, Counted, HookSettingsApply, Next
  PROVE  HookSettingsApply'
<1> DEFINE Others(q) == \A i \in 1 .. Len(q) : q[i].by # "client"
<1>1. requests \in Seq(Request) /\ N \in Nat
  BY NAssumption DEF TypeOK
<1>2. \A x, y : At(x) = At(y) => x = y
  BY DEF At
<1>3. ASSUME pc' = At("ack") => pc = At("ack") /\ (Others(requests) => Others(requests'))
      PROVE  HookSettingsApply'
  BY <1>3 DEF HookSettingsApply
<1>4. ASSUME requests # <<>>, requests' = Tail(requests), UNCHANGED pc
      PROVE  HookSettingsApply'
  <2>1. \A i \in 1 .. Len(Tail(requests)) :
          i + 1 \in 1 .. Len(requests) /\ Tail(requests)[i] = requests[i + 1]
    BY <1>1, <1>4, HeadTailProperties
  <2> QED BY <1>3, <1>4, <2>1
<1> USE DEF coreVars, ringVars, propVars, seenVars, boundVars
<1>5. CASE RunSet
  <2> DEFINE e == [requests[1] EXCEPT !.kind = "reply"]
  <2>1. 1 \in 1 .. Len(requests) /\ requests[1] \in Request
    BY <1>1, <1>5, EmptySeq DEF RunSet
  <2>2. e \in Request /\ e.by = requests[1].by
    BY <2>1 DEF Request
  <2>3. UNCHANGED pc /\ requests' = [requests EXCEPT ![1] = e]
    BY <1>1, <1>5, <2>1 DEF RunSet, Change
  <2> HIDE DEF e
  <2>4. /\ Len(requests') = Len(requests)
        /\ \A i \in 1 .. Len(requests) : requests'[i] = IF i = 1 THEN e ELSE requests[i]
    BY <1>1, <2>1, <2>2, <2>3, ExceptSeq
  <2> QED BY <1>3, <2>1, <2>2, <2>3, <2>4
<1>6. CASE SendReply \/ UpdateProp
  BY <1>4, <1>6 DEF SendReply, UpdateProp
<1>7. CASE Enqueue
  <2> DEFINE r == [kind |-> "set", of |-> gui, by |-> "gui"]
  <2>1. r \in Request /\ r.by # "client" /\ requests' = Append(requests, r) /\ UNCHANGED pc
    BY <1>7 DEF Enqueue, Request, TypeOK
  <2> HIDE DEF r
  <2>2. \A i \in 1 .. Len(requests') :
          (i \in 1 .. Len(requests) /\ requests'[i] = requests[i]) \/ requests'[i] = r
    BY <1>1, <2>1, AppendProperties
  <2> QED BY <1>3, <2>1, <2>2
<1>8. CASE WaitAsync
  <2>1. SUFFICES ASSUME pc' = At("ack") PROVE Others(requests')
    BY DEF HookSettingsApply
  <2>2. ~(reserved > 0) /\ ~(updating > 0) /\ UNCHANGED requests
    BY <1>2, <1>8, <2>1 DEF WaitAsync
  <2>3. OfKind(requests, Answered) = {} /\ OfKind(requests, Updates) = {}
    <3>1. /\ Cardinality(OfKind(requests, Answered)) \in Nat /\ Unqueued \in Nat
          /\ Cardinality(OfKind(requests, Updates)) \in Nat
      BY <1>1, OfKindFacts DEF Unqueued
    <3>2. Cardinality(OfKind(requests, Answered)) = 0 /\ Cardinality(OfKind(requests, Updates)) = 0
      BY <2>2, <3>1 DEF Counted
    <3> QED BY <1>1, <3>2, OfKindFacts
  <2>4. ASSUME NEW i \in 1 .. Len(requests) PROVE FALSE
    <3>1. requests[i] \in Request
      BY <1>1
    <3>2. requests[i].kind \in Answered \cup Updates
      BY <3>1 DEF Request, Answered, Updates
    <3> QED BY <2>3, <3>2 DEF OfKind
  <2> QED BY <2>2, <2>4
<1>9. ASSUME pc = At("wait") \/ pc = At("hook"), pc' # At("ack") \/ UNCHANGED pc
      PROVE  HookSettingsApply'
  BY <1>2, <1>3, <1>9
<1>10. CASE FallAsleep \/ PopEvent
  BY <1>2, <1>9, <1>10 DEF FallAsleep, Scan, PopEvent
<1>11. ASSUME NEW p \in Props, PropertyEvent(p) PROVE HookSettingsApply'
  BY <1>9, <1>11 DEF PropertyEvent, Scan, At
<1>12. ASSUME NEW p \in Props, HookSets(p) PROVE HookSettingsApply'
  BY <1>2, <1>9, <1>12 DEF HookSets
<1>13. CASE ReadProperty \/ HookAck \/ WokenUp \/ Timeout
  BY <1>2, <1>3, <1>13 DEF ReadProperty, HookAck, WokenUp, Timeout, AfterSleep
<1>14. CASE ReportOverflow \/ Broadcast \/ HookRun
  BY <1>3, <1>14 DEF ReportOverflow, Broadcast, HookRun
<1>15. ASSUME NEW p \in Props, PlaybackChanges(p) \/ ReserveReply(p) PROVE HookSettingsApply'
  BY <1>3, <1>15 DEF PlaybackChanges, Change, ReserveReply
<1> QED BY <1>5, <1>6, <1>7, <1>8, <1>10, <1>11, <1>12, <1>13, <1>14, <1>15
        DEF Next, ServeRequest, ClientStep

(***************************************************************************)
(* The order of events.                                                    *)
(***************************************************************************)
(* The events are received in the order in which they were sent. *)
LEMMA SequenceNext ==
  ASSUME TypeOK, Sequence, Next
  PROVE  Sequence'
<1>1. /\ events \in Seq(Events) /\ Len(events) \in Nat /\ sent \in Nat /\ got \in Int
      /\ choked \in BOOLEAN /\ noticed \in BOOLEAN /\ \A i \in 1 .. Len(events) : events[i] \in Int
  BY BoundsAssumption DEF TypeOK, Events
<1>2. ASSUME UNCHANGED <<events, sent, got, noticed, choked>> PROVE Sequence'
  BY <1>2 DEF Sequence, Numbered
<1> DEFINE n == Len(events) + 1
<1>3. \A e \in Events :
        /\ Len(Append(events, e)) = n
        /\ \A i \in 1 .. Len(events) : Append(events, e)[i] = events[i]
        /\ Append(events, e)[n] = e
  BY <1>1, AppendProperties
<1>4. n \in Nat /\ n \in 1 .. n /\ \A i \in 1 .. n : i \in 1 .. Len(events) \/ i = n
  BY <1>1
<1>5. \A i \in 1 .. Len(events) : i \in 1 .. n /\ i < n
  BY <1>1
<1>6. ASSUME NEW e \in {HookMessage, Reply}, events' = Append(events, e),
             UNCHANGED <<sent, got, noticed, choked>>
      PROVE  Sequence'
  <2>1. e \in Events /\ e <= sent /\ ~(e > 0)
    BY <1>1 DEF Events, HookMessage, Reply
  <2>2. /\ Len(events') = n /\ events'[n] = e
        /\ \A i \in 1 .. Len(events) : events'[i] = events[i]
    BY <1>3, <1>6, <2>1
  <2> HIDE DEF n
  <2>3. \A i \in 1 .. n : events'[i] <= sent'
    BY <1>4, <1>6, <2>1, <2>2 DEF Sequence
  <2>4. \A i \in 1 .. n : events'[i] > 0 => i \in 1 .. Len(events)
    BY <1>4, <2>1, <2>2
  <2>5. \A i, j \in 1 .. n : i < j /\ events'[i] > 0 /\ events'[j] > 0 => events'[i] < events'[j]
    BY <2>2, <2>4 DEF Sequence, Numbered
  <2>6. ASSUME NEW i \in 1 .. n, events'[i] > 0
        PROVE  \/ \E j \in 1 .. n : j < i /\ events'[j] > 0 /\ events'[j] = events'[i] - 1
               \/ /\ \A j \in 1 .. n : j < i => ~(events'[j] > 0)
                  /\ noticed' \/ events'[i] = got' + 1
    <3>1. i \in 1 .. Len(events) /\ events'[i] = events[i] /\ events[i] > 0
      BY <2>2, <2>4, <2>6
    <3>2. CASE \E j \in 1 .. Len(events) : j < i /\ Numbered(j) /\ events[j] = events[i] - 1
      BY <1>5, <2>2, <3>1, <3>2 DEF Numbered
    <3>3. CASE /\ \A j \in 1 .. Len(events) : j < i => ~Numbered(j)
               /\ noticed \/ events[i] = got + 1
      BY <1>6, <2>2, <2>4, <3>1, <3>3 DEF Numbered
    <3> QED BY <3>1, <3>2, <3>3 DEF Sequence, Numbered
  <2>7. \/ choked'
        \/ \E i \in 1 .. n : events'[i] > 0 /\ events'[i] = sent'
        \/ (\A i \in 1 .. n : ~(events'[i] > 0)) /\ (noticed' \/ got' = sent')
    <3>1. CASE \E i \in 1 .. Len(events) : Numbered(i) /\ events[i] = sent
      BY <1>5, <1>6, <2>2, <3>1 DEF Numbered
    <3>2. CASE (\A i \in 1 .. Len(events) : ~Numbered(i)) /\ (noticed \/ got = sent)
      BY <1>6, <2>2, <2>4, <3>2 DEF Numbered
    <3> QED BY <1>6, <3>1, <3>2 DEF Sequence
  <2> QED BY <2>2, <2>3, <2>5, <2>6, <2>7 DEF Sequence, Numbered
<1>7. ASSUME sent' = sent + 1, sent' \in Events, ~choked, events' = Append(events, sent'),
             UNCHANGED <<got, noticed>>
      PROVE  Sequence'
  <2>1. sent' > 0 /\ sent' \in Nat
    BY <1>1, <1>7
  <2>2. /\ Len(events') = n /\ events'[n] = sent'
        /\ \A i \in 1 .. Len(events) : events'[i] = events[i]
    BY <1>3, <1>7
  <2> HIDE DEF n
  <2>3. \A i \in 1 .. Len(events) : events[i] <= sent /\ events[i] < sent'
    BY <1>1, <1>7 DEF Sequence
  <2>4. \A i \in 1 .. n : events'[i] <= sent'
    BY <1>1, <1>4, <2>1, <2>2, <2>3
  <2>5. ASSUME NEW i \in 1 .. n, NEW j \in 1 .. n, i < j, events'[i] > 0, events'[j] > 0
        PROVE  events'[i] < events'[j]
    <3>1. i \in 1 .. Len(events)
      BY <1>4, <2>5
    <3>2. CASE j = n
      BY <2>2, <2>3, <3>1, <3>2
    <3>3. CASE j \in 1 .. Len(events)
      BY <2>2, <2>5, <3>1, <3>3 DEF Sequence, Numbered
    <3> QED BY <1>4, <3>2, <3>3
  <2>6. ASSUME NEW i \in 1 .. n, events'[i] > 0
        PROVE  \/ \E j \in 1 .. n : j < i /\ events'[j] > 0 /\ events'[j] = events'[i] - 1
               \/ /\ \A j \in 1 .. n : j < i => ~(events'[j] > 0)
                  /\ noticed' \/ events'[i] = got' + 1
    <3>1. CASE i = n
      <4>1. CASE \E k \in 1 .. Len(events) : Numbered(k) /\ events[k] = sent
        <5>1. PICK k \in 1 .. Len(events) : Numbered(k) /\ events[k] = sent
          BY <4>1
        <5>2. k \in 1 .. n /\ k < i /\ events'[k] = events[k] /\ events'[i] - 1 = sent
          BY <1>1, <1>5, <1>7, <2>2, <3>1
        <5> QED BY <5>1, <5>2 DEF Numbered
      <4>2. CASE (\A k \in 1 .. Len(events) : ~Numbered(k)) /\ (noticed \/ got = sent)
        <5>1. \A j \in 1 .. n : j < i => j \in 1 .. Len(events)
          BY <1>4, <3>1
        <5> QED BY <1>7, <2>2, <3>1, <4>2, <5>1 DEF Numbered
      <4> QED BY <1>7, <4>1, <4>2 DEF Sequence
    <3>2. CASE i \in 1 .. Len(events)
      <4>1. events'[i] = events[i] /\ Numbered(i)
        BY <2>2, <2>6, <3>2 DEF Numbered
      <4>2. CASE \E j \in 1 .. Len(events) : j < i /\ Numbered(j) /\ events[j] = events[i] - 1
        BY <1>5, <2>2, <4>1, <4>2 DEF Numbered
      <4>3. CASE /\ \A j \in 1 .. Len(events) : j < i => ~Numbered(j)
                 /\ noticed \/ events[i] = got + 1
        <5>1. \A j \in 1 .. n : j < i => j \in 1 .. Len(events)
          BY <1>1, <1>4, <1>5, <3>2
        <5> QED BY <1>7, <2>2, <4>1, <4>3, <5>1 DEF Numbered
      <4> QED BY <3>2, <4>1, <4>2, <4>3 DEF Sequence
    <3> QED BY <1>4, <3>1, <3>2
  <2>7. \E i \in 1 .. n : events'[i] > 0 /\ events'[i] = sent'
    BY <1>4, <2>1, <2>2
  <2> QED BY <2>2, <2>4, <2>5, <2>6, <2>7 DEF Sequence, Numbered
<1>8. ASSUME choked', sent' \in {sent, sent + 1}, UNCHANGED <<events, got, noticed>>
      PROVE  Sequence'
  <2>1. \A i \in 1 .. Len(events) : events[i] <= sent'
    BY <1>1, <1>8 DEF Sequence
  <2> QED BY <1>8, <2>1 DEF Sequence, Numbered
<1> USE DEF coreVars, ringVars, propVars, seenVars, boundVars
<1>9. CASE PopEvent
  <2> DEFINE m == Len(events) - 1
  <2>1. /\ Len(events') = m /\ m \in Nat /\ Head(events) = events[1]
        /\ \A i \in 1 .. m : events'[i] = events[i + 1]
        /\ 1 \in 1 .. Len(events)
    <3>1. events # <<>> /\ events' = Tail(events)
      BY <1>9 DEF PopEvent
    <3> QED BY <1>1, <3>1, HeadTailProperties, EmptySeq
  <2>2. \A i \in 1 .. m : i + 1 \in 1 .. Len(events) /\ i \in Nat /\ 1 < i + 1
    BY <1>1, <2>1
  <2>3. \A i \in 1 .. Len(events) : i = 1 \/ (i - 1 \in 1 .. m /\ (i - 1) + 1 = i)
    BY <1>1, <2>1
  <2>4. UNCHANGED <<sent, choked>>
    BY <1>9 DEF PopEvent
  <2> HIDE DEF m
  <2>5. \A i \in 1 .. m : events'[i] <= sent'
    BY <2>1, <2>2, <2>4 DEF Sequence
  <2>6. \A i, j \in 1 .. m : i < j /\ events'[i] > 0 /\ events'[j] > 0 => events'[i] < events'[j]
    <3> SUFFICES ASSUME NEW i \in 1 .. m, NEW j \in 1 .. m, i < j, events'[i] > 0, events'[j] > 0
                 PROVE  events'[i] < events'[j]
      OBVIOUS
    <3>1. i + 1 \in 1 .. Len(events) /\ j + 1 \in 1 .. Len(events) /\ i + 1 < j + 1
      BY <2>2
    <3>2. events'[i] = events[i + 1] /\ events'[j] = events[j + 1]
      BY <2>1
    <3> QED BY <3>1, <3>2 DEF Sequence, Numbered
  <2>7. ASSUME NEW i \in 1 .. m, events'[i] > 0,
               NEW j \in 1 .. Len(events), j < i + 1, j # 1, Numbered(j), events[j] = events[i + 1] - 1
        PROVE  \E k \in 1 .. m : k < i /\ events'[k] > 0 /\ events'[k] = events'[i] - 1
    <3>1. j - 1 \in 1 .. m /\ (j - 1) + 1 = j /\ j - 1 < i
      BY <2>2, <2>3, <2>7
    <3>2. events'[j - 1] = events[j]
      BY <2>1, <3>1
    <3> QED BY <2>1, <2>7, <3>1, <3>2 DEF Numbered
  <2>8. CASE events[1] > 0
    <3>1. got' = events[1] /\ Numbered(1)
      BY <1>9, <2>1, <2>8 DEF PopEvent, Numbered
    <3>2. ASSUME NEW i \in 1 .. m, events'[i] > 0
          PROVE  \/ \E j \in 1 .. m : j < i /\ events'[j] > 0 /\ events'[j] = events'[i] - 1
                 \/ /\ \A j \in 1 .. m : j < i => ~(events'[j] > 0)
                    /\ noticed' \/ events'[i] = got' + 1
      <4>1. i + 1 \in 1 .. Len(events) /\ Numbered(i + 1) /\ events'[i] = events[i + 1] /\ 1 < i + 1
        BY <2>1, <2>2, <3>2 DEF Numbered
      <4>2. PICK j \in 1 .. Len(events) :
              j < i + 1 /\ Numbered(j) /\ events[j] = events[i + 1] - 1
        BY <2>1, <3>1, <4>1 DEF Sequence
      <4>3. CASE j = 1
        <5>1. events'[i] = got' + 1
          <6>1. events[1] \in Int /\ events[i + 1] \in Int
            BY <1>1, <2>1, <4>1
          <6> QED BY <3>1, <4>1, <4>2, <4>3, <6>1
        <5>2. ASSUME NEW k \in 1 .. m, k < i, events'[k] > 0 PROVE FALSE
          <6>1. /\ k + 1 \in 1 .. Len(events) /\ Numbered(k + 1) /\ 1 < k + 1 /\ k + 1 < i + 1
                /\ events'[k] = events[k + 1]
            BY <2>1, <2>2, <5>2 DEF Numbered
          <6>2. events[1] < events[k + 1] /\ events[k + 1] < events[i + 1]
            BY <2>1, <3>1, <4>1, <6>1 DEF Sequence
          <6>3. events[1] \in Int /\ events[k + 1] \in Int /\ events[i + 1] \in Int
            BY <1>1, <2>1, <4>1, <6>1
          <6> QED BY <4>2, <4>3, <6>2, <6>3
        <5> QED BY <5>1, <5>2
      <4>4. CASE j # 1
        BY <2>7, <3>2, <4>2, <4>4
      <4> QED BY <4>3, <4>4
    <3>3. \/ choked'
          \/ \E i \in 1 .. m : events'[i] > 0 /\ events'[i] = sent'
          \/ (\A i \in 1 .. m : ~(events'[i] > 0)) /\ (noticed' \/ got' = sent')
      <4>1. CASE choked
        BY <2>4, <4>1
      <4>2. CASE ~choked
        <5>1. PICK i \in 1 .. Len(events) : Numbered(i) /\ events[i] = sent
          BY <2>1, <3>1, <4>2 DEF Sequence
        <5>2. CASE i = 1
          <6>1. ASSUME NEW k \in 1 .. m, events'[k] > 0 PROVE FALSE
            <7>1. /\ k + 1 \in 1 .. Len(events) /\ Numbered(k + 1) /\ 1 < k + 1
                  /\ events'[k] = events[k + 1]
              BY <2>1, <2>2, <6>1 DEF Numbered
            <7>2. events[1] < events[k + 1] /\ events[k + 1] <= sent
              BY <2>1, <3>1, <7>1 DEF Sequence
            <7>3. events[k + 1] \in Int
              BY <1>1, <7>1
            <7> QED BY <1>1, <5>1, <5>2, <7>2, <7>3
          <6> QED BY <2>4, <3>1, <5>1, <5>2, <6>1
        <5>3. CASE i # 1
          BY <2>1, <2>3, <2>4, <5>1, <5>3 DEF Numbered
        <5> QED BY <5>2, <5>3
      <4> QED BY <4>1, <4>2
    <3> QED BY <2>1, <2>5, <2>6, <3>2, <3>3 DEF Sequence, Numbered
  <2>9. CASE ~(events[1] > 0)
    <3>1. UNCHANGED <<got, noticed>> /\ ~Numbered(1)
      BY <1>9, <2>1, <2>9 DEF PopEvent, Numbered
    <3>2. ASSUME NEW i \in 1 .. m, events'[i] > 0
          PROVE  \/ \E j \in 1 .. m : j < i /\ events'[j] > 0 /\ events'[j] = events'[i] - 1
                 \/ /\ \A j \in 1 .. m : j < i => ~(events'[j] > 0)
                    /\ noticed' \/ events'[i] = got' + 1
      <4>1. i + 1 \in 1 .. Len(events) /\ Numbered(i + 1) /\ events'[i] = events[i + 1]
        BY <2>1, <2>2, <3>2 DEF Numbered
      <4>2. CASE \E j \in 1 .. Len(events) :
                   j < i + 1 /\ Numbered(j) /\ events[j] = events[i + 1] - 1
        <5>1. PICK j \in 1 .. Len(events) :
                j < i + 1 /\ Numbered(j) /\ events[j] = events[i + 1] - 1
          BY <4>2
        <5> QED BY <2>7, <3>1, <3>2, <5>1
      <4>3. CASE /\ \A j \in 1 .. Len(events) : j < i + 1 => ~Numbered(j)
                 /\ noticed \/ events[i + 1] = got + 1
        <5>1. ASSUME NEW k \in 1 .. m, k < i PROVE ~(events'[k] > 0)
          <6>1. k + 1 \in 1 .. Len(events) /\ k + 1 < i + 1 /\ events'[k] = events[k + 1]
            BY <2>1, <2>2, <5>1
          <6> QED BY <4>3, <6>1 DEF Numbered
        <5> QED BY <3>1, <4>1, <4>3, <5>1
      <4> QED BY <4>1, <4>2, <4>3 DEF Sequence
    <3>3. \/ choked'
          \/ \E i \in 1 .. m : events'[i] > 0 /\ events'[i] = sent'
          \/ (\A i \in 1 .. m : ~(events'[i] > 0)) /\ (noticed' \/ got' = sent')
      <4>1. CASE choked
        BY <2>4, <4>1
      <4>2. CASE \E i \in 1 .. Len(events) : Numbered(i) /\ events[i] = sent
        <5>1. PICK i \in 1 .. Len(events) : Numbered(i) /\ events[i] = sent
          BY <4>2
        <5>2. i - 1 \in 1 .. m /\ (i - 1) + 1 = i
          BY <2>3, <3>1, <5>1
        <5>3. events'[i - 1] = events[i]
          BY <2>1, <5>2
        <5> QED BY <2>4, <5>1, <5>2, <5>3 DEF Numbered
      <4>3. CASE (\A i \in 1 .. Len(events) : ~Numbered(i)) /\ (noticed \/ got = sent)
        BY <2>1, <2>2, <2>4, <3>1, <4>3 DEF Numbered
      <4> QED BY <4>1, <4>2, <4>3 DEF Sequence
    <3> QED BY <2>1, <2>5, <2>6, <3>2, <3>3 DEF Sequence, Numbered
  <2> QED BY <2>8, <2>9
<1>10. CASE ReportOverflow
  <2>1. /\ events = <<>> /\ events' = <<>> /\ noticed' = TRUE
    BY <1>10 DEF ReportOverflow
  <2>2. Len(events') = 0
    BY <2>1
  <2> QED BY <2>1, <2>2 DEF Sequence
<1>11. CASE SendReply
  BY <1>6, <1>11 DEF SendReply
<1>12. CASE HookRun
  <2>1. HookMessage \in Events /\ SendEvent(HookMessage) /\ UNCHANGED <<sent, got, noticed>>
    BY <1>12 DEF HookRun, HookMessage, Events
  <2>2. CASE UNCHANGED events /\ choked'
    BY <1>8, <2>1, <2>2
  <2>3. CASE events' = Append(events, HookMessage) /\ ~choked /\ ~choked'
    <3>1. UNCHANGED choked
      BY <2>1, <2>3, SendFacts DEF TypeOK, SendEvent
    <3> QED BY <1>6, <2>1, <2>3, <3>1
  <2> QED BY <2>1, <2>2, <2>3, SendFacts
<1>13. CASE Broadcast
  <2>1. sent' = sent + 1 /\ sent' \in Events /\ SendEvent(sent + 1) /\ UNCHANGED <<got, noticed>>
    BY <1>1, <1>13, BoundsAssumption DEF Broadcast, Events
  <2>2. CASE UNCHANGED events /\ choked'
    BY <1>8, <2>1, <2>2
  <2>3. CASE events' = Append(events, sent + 1) /\ ~choked
    BY <1>7, <2>1, <2>3
  <2> QED BY <2>1, <2>2, <2>3, SendFacts
<1>14. CASE RunSet \/ UpdateProp
  BY <1>2, <1>14 DEF RunSet, Change, UpdateProp
<1>15. CASE ReadProperty \/ WokenUp \/ WaitAsync \/ HookAck \/ Timeout \/ Enqueue
  BY <1>2, <1>15 DEF ReadProperty, WokenUp, WaitAsync, HookAck, Timeout, Enqueue
<1>16. CASE FallAsleep
  BY <1>2, <1>16 DEF FallAsleep, Scan
<1>17. ASSUME NEW p \in Props,
              PropertyEvent(p) \/ HookSets(p) \/ PlaybackChanges(p) \/ ReserveReply(p)
       PROVE  Sequence'
  BY <1>2, <1>17 DEF PropertyEvent, Scan, HookSets, PlaybackChanges, Change, ReserveReply
<1> QED BY <1>9, <1>10, <1>11, <1>12, <1>13, <1>14, <1>15, <1>16, <1>17
        DEF Next, ServeRequest, ClientStep

(***************************************************************************)
(* The theorems.                                                           *)
(***************************************************************************)
(* The invariant holds in every state. *)
THEOREM Invariance == Spec => []IInv
<1>1. Init => IInv
  BY InitIInv
<1>2. IInv /\ [Next]_vars => IInv'
  <2> SUFFICES ASSUME IInv, [Next]_vars PROVE IInv'
    OBVIOUS
  <2>1. CASE Next
    BY <2>1, TypeNext, CountedNext, WatchedNext, SequenceNext, QuietNext, HookNext DEF IInv
  <2>2. CASE UNCHANGED vars
    <3> USE DEF vars, coreVars, ringVars, propVars, seenVars, boundVars
    <3>1. TypeOK'
      BY <2>2 DEF IInv, TypeOK
    <3>2. Counted' /\ Watched'
      BY <2>2 DEF IInv, Counted, Unqueued, Watched
    <3>3. Sequence' /\ QuietIsCurrent' /\ HookSettingsApply'
      BY <2>2 DEF IInv, Sequence, Numbered, QuietIsCurrent, HookSettingsApply
    <3> QED BY <3>1, <3>2, <3>3 DEF IInv
  <2> QED BY <2>1, <2>2
<1> QED BY <1>1, <1>2, PTL DEF Spec

(* Every variable keeps its type: no counter of the client goes below zero *)
(* and none of the ring beyond its size.                                   *)
THEOREM TypeCorrect == Spec => []TypeOK
<1>1. IInv => TypeOK
  BY DEF IInv
<1> QED BY <1>1, Invariance, PTL

(* A reply has its place in the ring, for a ring of any size: the          *)
(* assertion and the abort of send_reply are never reached.                *)
THEOREM RepliesAlwaysFit == Spec => []RepliesFit
<1>1. IInv => RepliesFit
  <2> SUFFICES ASSUME IInv PROVE RepliesFit
    OBVIOUS
  <2>1. Len(events) + reserved <= MaxEvents
    BY DEF IInv, Counted
  <2>2. ASSUME requests # <<>>, Head(requests).kind = "reply" PROVE reserved > 0
    <3>1. requests \in Seq(Request)
      BY DEF IInv, TypeOK
    <3>2. 1 \in OfKind(requests, Answered)
      BY <2>2, <3>1, EmptySeq DEF OfKind, Answered
    <3>3. /\ Cardinality(OfKind(requests, Answered)) \in Nat
          /\ Cardinality(OfKind(requests, Answered)) # 0
      BY <3>1, <3>2, OfKindFacts
    <3>4. reserved = Cardinality(OfKind(requests, Answered)) + Unqueued /\ Unqueued \in Nat
      BY DEF IInv, Counted, Unqueued
    <3> QED BY <3>3, <3>4
  <2> QED BY <2>1, <2>2 DEF RepliesFit
<1> QED BY <1>1, Invariance, PTL

(* A client that sleeps with no wakeup under way has read what every       *)
(* property observed without a value is now.                               *)
THEOREM AlwaysCurrent == Spec => []QuietIsCurrent
<1>1. IInv => QuietIsCurrent
  BY DEF IInv
<1> QED BY <1>1, Invariance, PTL

(* What a hook's handler set has been done when the hook is acknowledged. *)
THEOREM SettingsAlwaysApply == Spec => []HookSettingsApply
<1>1. IInv => HookSettingsApply
  BY DEF IInv
<1> QED BY <1>1, Invariance, PTL

(* The next event a client receives is the next that was sent, or the loss *)
(* of those between has been reported to it.                               *)
THEOREM LossIsReported == Spec => NoSilentLoss
<1>1. IInv /\ [Next]_vars => (got' # got => got' = got + 1 \/ noticed)
  <2> SUFFICES ASSUME IInv, [Next]_vars, got' # got PROVE got' = got + 1 \/ noticed
    OBVIOUS
  <2> USE DEF vars, coreVars, ringVars, propVars, seenVars, boundVars
  <2>1. PopEvent
    BY DEF Next, ServeRequest, ClientStep, RunSet, SendReply, UpdateProp, ReportOverflow,
           FallAsleep, Scan, ReadProperty, WokenUp, WaitAsync, HookAck, PropertyEvent, HookSets,
           Timeout, Enqueue, Broadcast, HookRun, PlaybackChanges, Change, ReserveReply
  <2>2. events # <<>> /\ events \in Seq(Events)
    BY <2>1 DEF PopEvent, IInv, TypeOK, Events
  <2>3. 1 \in 1 .. Len(events) /\ Head(events) = events[1]
    BY <2>2, EmptySeq
  <2>4. Head(events) > 0 /\ got' = Head(events)
    BY <2>1 DEF PopEvent
  <2>5. noticed \/ events[1] = got + 1
    BY <2>3, <2>4 DEF IInv, Sequence, Numbered
  <2> QED BY <2>3, <2>4, <2>5
<1> QED BY <1>1, Invariance, PTL DEF Spec, NoSilentLoss
===============================================================================

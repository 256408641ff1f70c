------------------------ MODULE PlayEngineImplProofs ------------------------
(***************************************************************************)
(* PlayEngine implements Player, for every set of media and every bound.   *)
(*                                                                         *)
(* The reports on their way are what the events of the two queues tell,    *)
(* flattened.  FlattenSeq is recursive: what it makes of an appended, a    *)
(* first and an absent event is proved by induction, which Zenon and SMT   *)
(* can use once it speaks of a set of numbers instead of a predicate.      *)
(***************************************************************************)
EXTENDS PlayEngineImpl, PlayEngineProofs, SequenceTheorems, WellFoundedInduction

\* Induction over the natural numbers: no number is the least outside of T.
LEMMA Induction ==
    ASSUME NEW T, 0 \in T, \A n \in Nat : n \in T => n + 1 \in T
    PROVE  Nat \subseteq T
  <1> DEFINE Others == Nat \ T
  <1>1. SUFFICES ASSUME Others # {} PROVE FALSE
    OBVIOUS
  <1>2. Others \subseteq Nat
    OBVIOUS
  <1>3. PICK x \in Others : \A y \in Others : <<y, x>> \notin OpToRel(<, Nat)
    <2> HIDE DEF Others
    <2> QED
      BY <1>1, <1>2, NatLessThanWellFounded, WFMin
  <1>4. x \in Nat /\ x # 0
    BY <1>3
  <1>5. x - 1 \in Nat /\ (x - 1) + 1 = x
    BY <1>4
  <1>6. x - 1 \in Others
    BY <1>3, <1>5
  <1>7. <<x - 1, x>> \in OpToRel(<, Nat)
    BY <1>4, <1>5 DEF OpToRel
  <1> QED
    BY <1>3, <1>6, <1>7

-----------------------------------------------------------------------------
(* Flattening a sequence of sequences over S.                                *)

\* f[i] is the concatenation of the first i of the sequences in ss.
Prefixes(f, ss, n, S) ==
    /\ f \in [1 .. n -> Seq(S)]
    /\ \A i \in 1 .. n : f[i] = IF i = 1 THEN ss[i] ELSE f[i - 1] \o ss[i]

\* There is such a function ...
LEMMA PrefixesExist ==
    ASSUME NEW S, NEW ss \in Seq(Seq(S))
    PROVE  \A n \in Nat : n <= Len(ss) => \E f : Prefixes(f, ss, n, S)
  <1> DEFINE T == {n \in Nat : n <= Len(ss) => \E f : Prefixes(f, ss, n, S)}
  <1>1. 0 \in T
    <2> DEFINE f == [i \in 1 .. 0 |-> <<>>]
    <2>1. Prefixes(f, ss, 0, S)
      BY DEF Prefixes
    <2> QED
      BY <2>1
  <1>2. ASSUME NEW n \in Nat, n \in T PROVE n + 1 \in T
    <2> SUFFICES ASSUME n + 1 <= Len(ss) PROVE \E f : Prefixes(f, ss, n + 1, S)
      BY <1>2
    <2>1. Len(ss) \in Nat /\ n <= Len(ss)
      OBVIOUS
    <2>2. PICK f : Prefixes(f, ss, n, S)
      BY <1>2, <2>1
    <2> DEFINE new == IF n = 0 THEN ss[n + 1] ELSE f[n] \o ss[n + 1]
               g == [i \in 1 .. n + 1 |-> IF i = n + 1 THEN new ELSE f[i]]
    <2>3. ss[n + 1] \in Seq(S)
      BY <2>1
    <2>4. new \in Seq(S)
      <3>1. CASE n = 0
        BY <2>3, <3>1
      <3>2. CASE n # 0
        <4>1. f[n] \in Seq(S)
          BY <2>2, <3>2 DEF Prefixes
        <4> QED
          BY <2>3, <3>2, <4>1
      <3> QED
        BY <3>1, <3>2
    <2>5. g \in [1 .. n + 1 -> Seq(S)]
      <3>1. \A i \in 1 .. n + 1 : i # n + 1 => f[i] \in Seq(S)
        BY <2>2 DEF Prefixes
      <3> HIDE DEF new
      <3> QED
        BY <2>4, <3>1
    <2>6. ASSUME NEW i \in 1 .. n + 1
          PROVE  g[i] = IF i = 1 THEN ss[i] ELSE g[i - 1] \o ss[i]
      <3>1. CASE i = n + 1
        <4>1. n # 0 => n \in 1 .. n + 1 /\ n # n + 1 /\ i - 1 = n
          BY <3>1
        <4> QED
          BY <3>1, <4>1
      <3>2. CASE i # n + 1
        <4>1. i \in 1 .. n /\ g[i] = f[i]
          BY <3>2
        <4>2. i # 1 => i - 1 \in 1 .. n + 1 /\ i - 1 # n + 1
          BY <3>2
        <4> QED
          BY <2>2, <4>1, <4>2 DEF Prefixes
      <3> QED
        BY <3>1, <3>2
    <2> HIDE DEF g
    <2> QED
      BY <2>5, <2>6 DEF Prefixes
  <1>3. Nat \subseteq T
    <2> HIDE DEF T
    <2> QED
      BY <1>1, <1>2, Induction
  <1> QED
    BY <1>3

\* ... it is the one that FlattenSeq chooses ...
LEMMA FlattenPrefixes ==
    ASSUME NEW S, NEW ss \in Seq(Seq(S)), ss # <<>>
    PROVE  \E f : Prefixes(f, ss, Len(ss), S) /\ Seqs!FlattenSeq(ss) = f[Len(ss)]
  <1> DEFINE n == Len(ss)
             Is(f) == f = [i \in 1 .. Len(ss) |-> IF i = 1 THEN ss[i] ELSE f[i - 1] \o ss[i]]
             fs == CHOOSE f : Is(f)
  <1>1. n \in Nat \ {0}
    OBVIOUS
  <1>2. PICK f : Prefixes(f, ss, n, S)
    BY <1>1, PrefixesExist
  <1>3. Is(f)
    BY <1>2 DEF Prefixes
  <1>4. Is(fs)
    BY <1>3
  <1>5. Seqs!FlattenSeq(ss) = fs[n]
    BY <1>1 DEF Seqs!FlattenSeq
  <1> HIDE DEF fs
  <1>6. \A i \in 1 .. n : fs[i] = IF i = 1 THEN ss[i] ELSE fs[i - 1] \o ss[i]
    BY <1>4
  <1> DEFINE T == {i \in Nat : i \in 1 .. n => fs[i] \in Seq(S)}
  <1>7. 0 \in T
    OBVIOUS
  <1>8. ASSUME NEW i \in Nat, i \in T PROVE i + 1 \in T
    <2> SUFFICES ASSUME i + 1 \in 1 .. n PROVE fs[i + 1] \in Seq(S)
      OBVIOUS
    <2>1. ss[i + 1] \in Seq(S)
      OBVIOUS
    <2>2. CASE i = 0
      BY <1>6, <2>1, <2>2
    <2>3. CASE i # 0
      <3>1. i \in 1 .. n /\ (i + 1) - 1 = i /\ i + 1 # 1
        BY <1>1, <2>3
      <3>2. fs[i] \in Seq(S)
        BY <1>8, <3>1
      <3>3. fs[i + 1] = fs[i] \o ss[i + 1]
        BY <1>6, <3>1
      <3> QED
        BY <2>1, <3>2, <3>3
    <2> QED
      BY <2>2, <2>3
  <1>9. Nat \subseteq T
    <2> HIDE DEF T
    <2> QED
      BY <1>7, <1>8, Induction
  <1>10. fs \in [1 .. n -> Seq(S)]
    <2>1. \A i \in 1 .. n : fs[i] \in Seq(S)
      BY <1>1, <1>9
    <2>2. fs = [i \in 1 .. n |-> IF i = 1 THEN ss[i] ELSE fs[i - 1] \o ss[i]]
      BY <1>4
    <2> QED
      BY <2>1, <2>2
  <1>11. Prefixes(fs, ss, n, S)
    <2> HIDE DEF n
    <2> QED
      BY <1>6, <1>10 DEF Prefixes
  <1> QED
    BY <1>5, <1>11

\* ... and what it makes of the first sequences depends on nothing else.
LEMMA PrefixesAgree ==
    ASSUME NEW S, NEW f, NEW g, NEW ss, NEW tt, NEW k \in Nat, NEW n \in Nat,
           k <= n, Prefixes(f, ss, k, S), Prefixes(g, tt, n, S),
           \A i \in 1 .. k : ss[i] = tt[i]
    PROVE  \A i \in 1 .. k : f[i] = g[i]
  <1> DEFINE T == {i \in Nat : i \in 1 .. k => f[i] = g[i]}
  <1>1. 0 \in T
    OBVIOUS
  <1>2. ASSUME NEW i \in Nat, i \in T PROVE i + 1 \in T
    <2> SUFFICES ASSUME i + 1 \in 1 .. k PROVE f[i + 1] = g[i + 1]
      OBVIOUS
    <2>0. \A a, b, c \in Nat : a + 1 \in 1 .. b /\ b <= c => a + 1 \in 1 .. c
      OBVIOUS
    <2>1. i + 1 \in 1 .. k /\ i + 1 \in 1 .. n /\ ss[i + 1] = tt[i + 1]
      BY <2>0
    <2>2. (i + 1) - 1 = i /\ (i + 1 = 1 \/ i \in 1 .. k)
      OBVIOUS
    <2>3. i + 1 # 1 => f[i] = g[i]
      BY <1>2, <2>2
    <2>4. f[i + 1] = IF i + 1 = 1 THEN ss[i + 1] ELSE f[i] \o ss[i + 1]
      BY <2>1, <2>2 DEF Prefixes
    <2>5. g[i + 1] = IF i + 1 = 1 THEN tt[i + 1] ELSE g[i] \o tt[i + 1]
      BY <2>1, <2>2 DEF Prefixes
    <2> QED
      BY <2>1, <2>3, <2>4, <2>5
  <1>3. Nat \subseteq T
    <2> HIDE DEF T
    <2> QED
      BY <1>1, <1>2, Induction
  <1> QED
    BY <1>3

\* Flattening yields a sequence over S.
LEMMA FlattenType ==
    ASSUME NEW S, NEW ss \in Seq(Seq(S))
    PROVE  Seqs!FlattenSeq(ss) \in Seq(S) /\ Seqs!FlattenSeq(<<>>) = <<>>
  <1>1. Seqs!FlattenSeq(<<>>) = <<>>
    BY DEF Seqs!FlattenSeq
  <1>2. ASSUME ss # <<>> PROVE Seqs!FlattenSeq(ss) \in Seq(S)
    <2>1. Len(ss) \in 1 .. Len(ss)
      BY <1>2
    <2> QED
      BY <1>2, <2>1, FlattenPrefixes DEF Prefixes
  <1> QED
    BY <1>1, <1>2

\* What is appended comes last.
LEMMA FlattenAppended ==
    ASSUME NEW S, NEW ss \in Seq(Seq(S)), NEW x \in Seq(S)
    PROVE  Seqs!FlattenSeq(Append(ss, x)) = Seqs!FlattenSeq(ss) \o x
  <1> DEFINE tt == Append(ss, x)
             n == Len(ss)
  <1>1. /\ tt \in Seq(Seq(S)) /\ tt # <<>> /\ n \in Nat /\ Len(tt) = n + 1 /\ tt[n + 1] = x
        /\ \A i \in 1 .. n : tt[i] = ss[i]
    <2>1. ASSUME NEW E, NEW q \in Seq(E), NEW e \in E
          PROVE  /\ Append(q, e) \in Seq(E) /\ Append(q, e) # <<>> /\ Len(q) \in Nat
                 /\ Len(Append(q, e)) = Len(q) + 1 /\ Append(q, e)[Len(q) + 1] = e
                 /\ \A i \in 1 .. Len(q) : Append(q, e)[i] = q[i]
      OBVIOUS
    <2> QED
      BY <2>1
  <1> HIDE DEF tt
  <1>2. PICK g : Prefixes(g, tt, n + 1, S) /\ Seqs!FlattenSeq(tt) = g[n + 1]
    BY <1>1, FlattenPrefixes
  <1>3. g[n + 1] = IF n + 1 = 1 THEN x ELSE g[n] \o x
    <2>1. n + 1 \in 1 .. n + 1 /\ (n + 1) - 1 = n
      BY <1>1
    <2> QED
      BY <1>1, <1>2, <2>1 DEF Prefixes
  <1>4. CASE ss = <<>>
    <2>1. n = 0 /\ Seqs!FlattenSeq(ss) = <<>>
      BY <1>4, FlattenType
    <2> QED
      BY <1>2, <1>3, <2>1 DEF tt
  <1>5. CASE ss # <<>>
    <2>1. PICK f : Prefixes(f, ss, n, S) /\ Seqs!FlattenSeq(ss) = f[n]
      BY <1>5, FlattenPrefixes
    <2>2. n \in 1 .. n /\ n + 1 # 1
      BY <1>1, <1>5
    <2>3. f[n] = g[n]
      <3>1. n <= n /\ n <= n + 1 /\ n + 1 \in Nat /\ n \in Nat
        BY <1>1
      <3>2. \A i \in 1 .. n : ss[i] = tt[i]
        BY <1>1
      <3>3. \A i \in 1 .. n : f[i] = g[i]
        <4>1. Prefixes(f, ss, n, S) /\ Prefixes(g, tt, n + 1, S)
          BY <1>2, <2>1
        <4> HIDE DEF n
        <4> QED
          BY <3>1, <3>2, <4>1, PrefixesAgree
      <3> QED
        BY <2>2, <3>3
    <2> QED
      BY <1>2, <1>3, <2>1, <2>2, <2>3 DEF tt
  <1> QED
    BY <1>4, <1>5

\* The first of the sequences comes first.
LEMMA FlattenFirst ==
    ASSUME NEW S, NEW ss \in Seq(Seq(S)), ss # <<>>
    PROVE  Seqs!FlattenSeq(ss) = Head(ss) \o Seqs!FlattenSeq(Tail(ss))
  <1> DEFINE tt == Tail(ss)
             n == Len(tt)
  <1>1. /\ tt \in Seq(Seq(S)) /\ n \in Nat /\ Len(ss) = n + 1
        /\ Head(ss) \in Seq(S) /\ ss[1] = Head(ss)
        /\ \A i \in 1 .. n : ss[i + 1] = tt[i] /\ tt[i] \in Seq(S)
    <2>1. ASSUME NEW E, NEW q \in Seq(E), q # <<>>
          PROVE  /\ Tail(q) \in Seq(E) /\ Len(Tail(q)) \in Nat /\ Len(q) = Len(Tail(q)) + 1
                 /\ Head(q) \in E /\ q[1] = Head(q)
                 /\ \A i \in 1 .. Len(Tail(q)) : q[i + 1] = Tail(q)[i] /\ Tail(q)[i] \in E
      <3>1. Len(q) \in Nat /\ Len(q) # 0 /\ Len(Tail(q)) = Len(q) - 1
        BY <2>1, HeadTailProperties
      <3> QED
        BY <2>1, <3>1, HeadTailProperties
    <2> QED
      BY <2>1
  <1>2. tt = <<>> <=> n = 0
    <2>1. \A E, q : q \in Seq(E) => (q = <<>> <=> Len(q) = 0)
      OBVIOUS
    <2> QED
      BY <1>1, <2>1
  <1> HIDE DEF tt
  <1>3. PICK f : Prefixes(f, ss, n + 1, S) /\ Seqs!FlattenSeq(ss) = f[n + 1]
    BY <1>1, FlattenPrefixes
  <1> HIDE DEF n
  <1>4. f[1] = Head(ss)
    <2>1. 1 \in 1 .. n + 1
      BY <1>1
    <2> QED
      BY <1>1, <1>3, <2>1 DEF Prefixes
  <1>5. CASE tt = <<>>
    <2>1. n + 1 = 1 /\ Seqs!FlattenSeq(tt) = <<>>
      BY <1>2, <1>5, FlattenType
    <2>2. Head(ss) \o <<>> = Head(ss)
      BY <1>1, ConcatEmptySeq
    <2> QED
      BY <1>3, <1>4, <2>1, <2>2 DEF tt
  <1>6. CASE tt # <<>>
    <2>1. PICK g : Prefixes(g, tt, n, S) /\ Seqs!FlattenSeq(tt) = g[n]
      BY <1>1, <1>6, FlattenPrefixes DEF n
    <2> DEFINE x == Head(ss)
               T == {i \in Nat : i \in 1 .. n => f[i + 1] = x \o g[i]}
    <2>2. x \in Seq(S) /\ f[1] = x
      BY <1>1, <1>4
    <2> HIDE DEF x
    <2>3. 0 \in T
      OBVIOUS
    <2>4. ASSUME NEW i \in Nat, i \in T PROVE i + 1 \in T
      <3> SUFFICES ASSUME i + 1 \in 1 .. n PROVE f[(i + 1) + 1] = x \o g[i + 1]
        OBVIOUS
      <3>1. /\ (i + 1) + 1 \in 1 .. n + 1 /\ (i + 1) + 1 # 1 /\ ((i + 1) + 1) - 1 = i + 1
            /\ (i + 1) - 1 = i /\ (i = 0 \/ (i \in 1 .. n /\ i + 1 # 1))
        BY <1>1
      <3>2. f[(i + 1) + 1] = f[i + 1] \o tt[i + 1]
        <4>1. f[(i + 1) + 1] = f[i + 1] \o ss[(i + 1) + 1]
          BY <1>3, <3>1 DEF Prefixes
        <4> QED
          BY <1>1, <4>1
      <3>3. g[i + 1] = IF i + 1 = 1 THEN tt[i + 1] ELSE g[i] \o tt[i + 1]
        BY <2>1, <3>1 DEF Prefixes
      <3>4. CASE i = 0
        <4>1. i + 1 = 1
          BY <3>4
        <4> QED
          BY <2>2, <3>2, <3>3, <4>1
      <3>5. CASE i # 0
        <4>1. i \in 1 .. n /\ i + 1 # 1
          BY <3>1, <3>5
        <4>2. f[i + 1] = x \o g[i]
          BY <2>4, <4>1
        <4>3. g[i] \in Seq(S)
          BY <2>1, <4>1 DEF Prefixes
        <4>4. tt[i + 1] \in Seq(S)
          BY <1>1
        <4>5. \A a, b, c \in Seq(S) : (a \o b) \o c = a \o (b \o c)
          OBVIOUS
        <4>6. (x \o g[i]) \o tt[i + 1] = x \o (g[i] \o tt[i + 1])
          BY <2>2, <4>3, <4>4, <4>5
        <4> QED
          BY <3>2, <3>3, <4>1, <4>2, <4>6
      <3> QED
        BY <3>4, <3>5
    <2>5. Nat \subseteq T
      <3> HIDE DEF T
      <3> QED
        BY <2>3, <2>4, Induction
    <2>6. n \in 1 .. n
      BY <1>1, <1>2, <1>6
    <2>7. f[n + 1] = x \o g[n]
      BY <1>1, <2>5, <2>6
    <2> QED
      BY <1>3, <2>1, <2>7 DEF tt, x
  <1> QED
    BY <1>5, <1>6

-----------------------------------------------------------------------------
(* What the events in a queue report.                                        *)

Events == GEvents \cup MEvents
EachSaid(q, K) == [i \in 1 .. Len(q) |-> Said(q[i], K)]

\* An event reports a sequence of what Player reports.
LEMMA SaidType ==
    ASSUME NEW K, NEW e \in Events
    PROVE  Said(e, K) \in Seq(P!Reports)
  <1>1. [ev |-> "running"] \in P!Reports
    BY DEF P!Reports, P!Running
  <1>2. ASSUME e.ev = "end"
        PROVE  [ev |-> "end", reason |-> IF e.reason = "quit" THEN "stop" ELSE e.reason]
                  \in P!Reports
    <2>1. e.reason \in Reasons
      BY <1>2 DEF Events, GEvents, MEvents
    <2>2. (IF e.reason = "quit" THEN "stop" ELSE e.reason) \in {"eof", "error", "stop"}
      BY <2>1 DEF Reasons
    <2> QED
      BY <2>2 DEF P!Reports, P!Over
  <1> QED
    BY <1>1, <1>2 DEF Said

\* One sequence for every event.
LEMMA EachSaidType ==
    ASSUME NEW K, NEW q \in Seq(Events)
    PROVE  /\ EachSaid(q, K) \in Seq(Seq(P!Reports)) /\ Len(EachSaid(q, K)) = Len(q)
           /\ Reported(q, K) = Seqs!FlattenSeq(EachSaid(q, K))
           /\ Reported(q, K) \in Seq(P!Reports)
  <1>1. \A i \in 1 .. Len(q) : Said(q[i], K) \in Seq(P!Reports)
    BY SaidType
  <1>2. EachSaid(q, K) \in Seq(Seq(P!Reports)) /\ Len(EachSaid(q, K)) = Len(q)
    BY <1>1 DEF EachSaid
  <1>3. Reported(q, K) = Seqs!FlattenSeq(EachSaid(q, K))
    BY DEF Reported, EachSaid
  <1> QED
    BY <1>2, <1>3, FlattenType

\* An empty queue reports nothing.
LEMMA ReportedNothing == \A K : Reported(<<>>, K) = <<>>
  <1> TAKE K
  <1>1. EachSaid(<<>>, K) = <<>>
    BY DEF EachSaid
  <1>2. Reported(<<>>, K) = Seqs!FlattenSeq(EachSaid(<<>>, K))
    BY DEF Reported, EachSaid
  <1>3. <<>> \in Seq(Seq(P!Reports))
    OBVIOUS
  <1> QED
    BY <1>1, <1>2, <1>3, FlattenType

\* What an event reports that is appended comes last.
LEMMA ReportedAppended ==
    ASSUME NEW K, NEW q \in Seq(Events), NEW e \in Events
    PROVE  Reported(Append(q, e), K) = Reported(q, K) \o Said(e, K)
  <1> DEFINE r == Append(q, e)
  <1>1. /\ r \in Seq(Events) /\ Len(q) \in Nat /\ Len(r) = Len(q) + 1 /\ r[Len(q) + 1] = e
        /\ \A i \in 1 .. Len(q) : r[i] = q[i]
    OBVIOUS
  <1> HIDE DEF r
  <1>2. Said(e, K) \in Seq(P!Reports)
    BY SaidType
  <1>3. EachSaid(r, K) = Append(EachSaid(q, K), Said(e, K))
    <2>1. EachSaid(r, K) \in Seq(Seq(P!Reports)) /\ Len(EachSaid(r, K)) = Len(q) + 1
      BY <1>1, EachSaidType
    <2>2. EachSaid(q, K) \in Seq(Seq(P!Reports)) /\ Len(EachSaid(q, K)) = Len(q)
      BY EachSaidType
    <2>3. ASSUME NEW i \in 1 .. Len(q) + 1
          PROVE  EachSaid(r, K)[i] = Append(EachSaid(q, K), Said(e, K))[i]
      <3>1. CASE i = Len(q) + 1
        <4>1. EachSaid(r, K)[i] = Said(e, K)
          BY <1>1, <3>1 DEF EachSaid
        <4> QED
          BY <1>2, <2>2, <3>1, <4>1
      <3>2. CASE i # Len(q) + 1
        <4>1. i \in 1 .. Len(q) /\ i \in 1 .. Len(r)
          BY <1>1, <3>2
        <4>2. EachSaid(r, K)[i] = Said(q[i], K) /\ EachSaid(q, K)[i] = Said(q[i], K)
          BY <1>1, <4>1 DEF EachSaid
        <4> QED
          BY <1>2, <2>2, <4>1, <4>2
      <3> QED
        BY <3>1, <3>2
    <2>4. Append(EachSaid(q, K), Said(e, K)) \in Seq(Seq(P!Reports))
          /\ Len(Append(EachSaid(q, K), Said(e, K))) = Len(q) + 1
      BY <1>2, <2>2
    <2> QED
      BY <2>1, <2>3, <2>4, SeqEqual
  <1> QED
    BY <1>1, <1>2, <1>3, EachSaidType, FlattenAppended DEF r

\* What the first event reports comes first.
LEMMA ReportedFirst ==
    ASSUME NEW K, NEW q \in Seq(Events), q # <<>>
    PROVE  Reported(q, K) = Said(Head(q), K) \o Reported(Tail(q), K)
  <1> DEFINE r == Tail(q)
  <1>1. /\ r \in Seq(Events) /\ Len(q) \in Nat /\ Len(q) # 0 /\ Len(r) = Len(q) - 1
        /\ q[1] = Head(q) /\ Head(q) \in Events
        /\ \A i \in 1 .. Len(r) : q[i + 1] = r[i]
    BY HeadTailProperties
  <1> HIDE DEF r
  <1>2. /\ EachSaid(q, K) \in Seq(Seq(P!Reports)) /\ Len(EachSaid(q, K)) = Len(q)
        /\ EachSaid(r, K) \in Seq(Seq(P!Reports)) /\ Len(EachSaid(r, K)) = Len(r)
    BY <1>1, EachSaidType
  <1>3. EachSaid(q, K) # <<>> /\ Head(EachSaid(q, K)) = Said(Head(q), K)
    <2>1. EachSaid(q, K)[1] = Said(q[1], K)
      BY <1>1 DEF EachSaid
    <2> QED
      BY <1>1, <1>2, <2>1
  <1>4. Tail(EachSaid(q, K)) = EachSaid(r, K)
    <2> DEFINE t == Tail(EachSaid(q, K))
    <2>1. /\ t \in Seq(Seq(P!Reports)) /\ Len(t) = Len(r)
          /\ \A i \in 1 .. Len(t) : t[i] = EachSaid(q, K)[i + 1]
      BY <1>1, <1>2, <1>3, HeadTailProperties
    <2> HIDE DEF t
    <2>2. ASSUME NEW i \in 1 .. Len(r) PROVE t[i] = EachSaid(r, K)[i]
      <3>1. i + 1 \in 1 .. Len(q)
        BY <1>1
      <3>2. EachSaid(q, K)[i + 1] = Said(q[i + 1], K)
        BY <3>1 DEF EachSaid
      <3>3. EachSaid(r, K)[i] = Said(r[i], K)
        BY DEF EachSaid
      <3> QED
        BY <1>1, <2>1, <3>2, <3>3
    <2> QED
      BY <1>2, <2>1, <2>2, SeqEqual DEF t
  <1>5. Seqs!FlattenSeq(EachSaid(q, K))
          = Head(EachSaid(q, K)) \o Seqs!FlattenSeq(Tail(EachSaid(q, K)))
    BY <1>2, <1>3, FlattenFirst
  <1>6. /\ Reported(q, K) = Seqs!FlattenSeq(EachSaid(q, K))
        /\ Reported(r, K) = Seqs!FlattenSeq(EachSaid(r, K))
    BY <1>1, EachSaidType
  <1> QED
    BY <1>3, <1>4, <1>5, <1>6 DEF r

\* So two events report one after the other.
LEMMA ReportedTwo ==
    ASSUME NEW K, NEW q \in Seq(Events), NEW a \in Events, NEW b \in Events
    PROVE  /\ q \o <<a, b>> \in Seq(Events)
           /\ Reported(q \o <<a, b>>, K) = (Reported(q, K) \o Said(a, K)) \o Said(b, K)
  <1>1. q \o <<a, b>> = Append(Append(q, a), b) /\ Append(q, a) \in Seq(Events)
        /\ q \o <<a, b>> \in Seq(Events)
    OBVIOUS
  <1>2. Reported(Append(Append(q, a), b), K) = Reported(Append(q, a), K) \o Said(b, K)
    BY <1>1, ReportedAppended
  <1>3. Reported(Append(q, a), K) = Reported(q, K) \o Said(a, K)
    BY ReportedAppended
  <1> QED
    BY <1>1, <1>2, <1>3

-----------------------------------------------------------------------------
(* The reports on their way.                                                 *)

\* The queues hold events, and what they report are reports of Player.
LEMMA PostedType ==
    ASSUME TypeOK
    PROVE  /\ mq \in Seq(Events) /\ gq \in Seq(Events)
           /\ Handled \in Seq(P!Reports) /\ Coming \in Seq(P!Reports)
           /\ Posted \in Seq(P!Reports)
  <1>1. mq \in Seq(Events) /\ gq \in Seq(Events)
    BY SeqMonotonic DEF TypeOK, Events
  <1>2. Handled \in Seq(P!Reports) /\ Coming \in Seq(P!Reports)
    BY <1>1, EachSaidType DEF Handled, Coming
  <1> QED
    BY <1>1, <1>2 DEF Posted

\* What the core appends to its queue is reported last.
LEMMA CorePosts ==
    ASSUME TypeOK, NEW e \in MEvents, mq' = Append(mq, e), gq' = gq
    PROVE  Posted' = Posted \o Said(e, {"start", "loaded"})
  <1> DEFINE x == Said(e, {"start", "loaded"})
  <1>1. Coming' = Coming \o x
    BY PostedType, ReportedAppended DEF Coming, Events
  <1>2. Handled' = Handled
    BY DEF Handled
  <1>3. x \in Seq(P!Reports)
    BY SaidType DEF Events
  <1> HIDE DEF x
  <1>4. Handled \o (Coming \o x) = (Handled \o Coming) \o x
    <2>1. \A a, b, c \in Seq(P!Reports) : (a \o b) \o c = a \o (b \o c)
      OBVIOUS
    <2> QED
      BY <1>3, <2>1, PostedType
  <1> QED
    BY <1>1, <1>2, <1>4 DEF Posted, x

\* A report that the client thread passes on stays in its place.
LEMMA ClientPasses ==
    ASSUME TypeOK, mq # <<>>, mq' = Tail(mq),
           Handled' = Handled \o Said(Head(mq), {"start", "loaded"})
    PROVE  Posted' = Posted
  <1> DEFINE x == Said(Head(mq), {"start", "loaded"})
  <1>1. Coming = x \o Coming'
    BY PostedType, ReportedFirst DEF Coming
  <1>2. x \in Seq(P!Reports)
    <2>1. Head(mq) \in Events
      BY PostedType
    <2> QED
      BY <2>1, SaidType
  <1>3. Coming' \in Seq(P!Reports)
    <2>1. Tail(mq) \in Seq(Events)
      BY PostedType
    <2> QED
      BY <2>1, EachSaidType DEF Coming
  <1>4. Handled' = Handled \o x
    OBVIOUS
  <1> HIDE DEF x
  <1>5. (Handled \o x) \o Coming' = Handled \o (x \o Coming')
    <2>1. \A a, b, c \in Seq(P!Reports) : (a \o b) \o c = a \o (b \o c)
      OBVIOUS
    <2> QED
      BY <1>2, <1>3, <2>1, PostedType
  <1> QED
    BY <1>1, <1>4, <1>5 DEF Posted

\* The GUI thread takes the event whose report is the first of all.
LEMMA GuiTakes ==
    ASSUME TypeOK, NEW e, Taken(e), mq' = mq
    PROVE  Posted = Said(Head(gq), {"state"}) \o Posted' /\ Posted' \in Seq(P!Reports)
  <1> DEFINE x == Said(Head(gq), {"state"})
  <1>1. Handled = x \o Handled'
    BY PostedType, ReportedFirst DEF Handled, Taken
  <1>2. x \in Seq(P!Reports)
    <2>1. Head(gq) \in Events
      BY PostedType DEF Taken
    <2> QED
      BY <2>1, SaidType
  <1>3. Handled' \in Seq(P!Reports)
    <2>1. Tail(gq) \in Seq(Events)
      BY PostedType DEF Taken
    <2> QED
      BY <2>1, EachSaidType DEF Handled, Taken
  <1>4. Coming' = Coming /\ Coming \in Seq(P!Reports)
    BY PostedType DEF Coming
  <1> HIDE DEF x
  <1>5. (x \o Handled') \o Coming = x \o (Handled' \o Coming)
    <2>1. \A a, b, c \in Seq(P!Reports) : (a \o b) \o c = a \o (b \o c)
      OBVIOUS
    <2> QED
      BY <1>2, <1>3, <1>4, <2>1
  <1>6. Posted' \in Seq(P!Reports)
    BY <1>3, <1>4 DEF Posted
  <1> QED
    BY <1>1, <1>4, <1>5, <1>6 DEF Posted, x

-----------------------------------------------------------------------------
(* What else the mapping rests on.                                           *)

\* An idle core plays no file, and once bomi quits nothing takes that back.
Idle  == cpc \in {"idle", "off"} => cur = Null
Quits == gpc \notin {"run", "reload"} => why = "quit"

MInv == IInv /\ Idle /\ Quits

\* The initial state is idle.
LEMMA InitMInv == Init => MInv
  BY InitIInv DEF Init, MInv, Idle, Quits

\* A file ends before the core is idle, and a core that quits starts no other.
LEMMA NextMInv == MInv /\ [Next]_vars => MInv'
  <1> SUFFICES ASSUME MInv, [Next]_vars PROVE MInv'
    OBVIOUS
  <1>1. IInv /\ IInv' /\ Idle /\ Quits
    BY NextIInv DEF MInv
  <1> USE DEF Idle, Quits
  <1>2. CASE Core
    BY <1>1, <1>2
       DEF Core, CoreStart, CoreLoadDone, CoreOpened, CoreOpenFails, CoreAdvance, CoreFinish,
           CoreUnloaded, CoreOff, Terminate, MInv
  <1>3. CASE Client
    <2>1. UNCHANGED <<cpc, cur, why, gpc>>
      BY <1>3
         DEF Client, StartFile, OnLoadCopy, OnLoadTake, OnLoadHistory, OnLoadSync, FileLoaded,
             OnUnloadCopy, OnUnloadTime, EndFile, TimePos, MpvExit, coreVars
    <2> QED
      BY <1>1, <2>1 DEF MInv
  <1>4. CASE Process
    <2>1. UNCHANGED <<cpc, cur, why, gpc>>
      BY <1>4
         DEF Process, StateChange, WaitingChange, Tick, SyncMrlState, StartPlayback,
             EndPlayback, coreVars
    <2> QED
      BY <1>1, <2>1 DEF MInv
  <1>5. CASE User \/ ReloadLoad \/ WaitUntilTerminated \/ Exit
    <2>1. UNCHANGED <<cpc, cur>>
      BY <1>5
         DEF User, Load, Reload, Stop, Shutdown, SetMrl, ReloadLoad, WaitUntilTerminated, Exit,
             LoadFile, StopFile, coreVars
    <2>2. gpc' \notin {"run", "reload"} => why' = "quit"
      BY <1>1, <1>5
         DEF User, Load, Reload, Stop, Shutdown, SetMrl, ReloadLoad, WaitUntilTerminated, Exit,
             LoadFile, StopFile, Terminated, coreVars
    <2> QED
      BY <1>1, <2>1, <2>2 DEF MInv
  <1>6. CASE Terminating \/ UNCHANGED vars
    <2>1. UNCHANGED <<cpc, cur, why, gpc>>
      BY <1>6 DEF Terminating, vars, coreVars
    <2> QED
      BY <1>1, <2>1 DEF MInv
  <1> QED
    BY <1>2, <1>3, <1>4, <1>5, <1>6 DEF Next

-----------------------------------------------------------------------------
(* Every step is a step of Player, or none.                                  *)

\* The mapped variables, one by one.
LEMMA Mapped ==
    /\ P!player = <<mrl, state = "running", Playing, Phase, Stopping, Pending, Posted, Quitting>>
    /\ P!player' = <<mrl', state' = "running", Playing', Phase', Stopping', Pending', Posted',
                     Quitting'>>
  BY DEF P!player

\* How far the file has come, before a step and after it.
LEMMA PhaseFacts ==
    /\ cpc \in {"idle", "off"} => Phase = "idle"
    /\ cpc \in {"load", "open"} => Phase = "opening"
    /\ cpc = "play" => Phase = "playing"
    /\ cpc = "unload" => Phase = "ending"
    /\ cpc' \in {"idle", "off"} => Phase' = "idle"
    /\ cpc' \in {"load", "open"} => Phase' = "opening"
    /\ cpc' = "play" => Phase' = "playing"
    /\ cpc' = "unload" => Phase' = "ending"
  BY DEF Phase

\* The core starts, opens and ends the files of Player, and reports what it does.
LEMMA CoreIsPlayer == MInv /\ Core => [P!PlayerNext]_(P!player)
  <1> SUFFICES ASSUME MInv, Core PROVE P!PlayerNext \/ UNCHANGED P!player
    OBVIOUS
  <1>0. TypeOK /\ CurrentFile /\ Idle /\ Quits
    BY DEF MInv, IInv, HookOrder
  <1>1. ASSUME NEW e, Said(e, {"start", "loaded"}) = <<>>, e \in MEvents,
               mq' = Append(mq, e), gq' = gq
        PROVE  Posted' = Posted
    <2>1. Posted \o <<>> = Posted
      BY <1>0, PostedType
    <2> QED
      BY <1>0, <1>1, <2>1, CorePosts
  <1>2. ASSUME NEW e, NEW r, Said(e, {"start", "loaded"}) = <<r>>, e \in MEvents,
               mq' = Append(mq, e), gq' = gq
        PROVE  Posted' = Append(Posted, r)
    <2>1. ASSUME NEW S, NEW q \in Seq(S) PROVE q \o <<r>> = Append(q, r)
      OBVIOUS
    <2>2. Posted' = Posted \o <<r>>
      BY <1>0, <1>2, CorePosts
    <2> QED
      BY <1>0, <2>1, <2>2, PostedType
  <1>3. \A e : e.ev \notin {"end", "start", "loaded"} => Said(e, {"start", "loaded"}) = <<>>
    BY DEF Said
  <1>4. \A e : e.ev \in {"start", "loaded"} => Said(e, {"start", "loaded"}) = <<P!Running>>
    BY DEF Said, P!Running
  <1>5. UNCHANGED <<mq, gq>> => Posted' = Posted
    BY DEF Posted, Handled, Coming
  <1>6. ASSUME cur # Null
        PROVE  /\ Event("unload") \in MEvents /\ Event("loaded") \in MEvents
               /\ why \in Reasons => EndEvent \in MEvents
    BY <1>0, <1>6 DEF Event, EndEvent, MEvents, TypeOK, Entry, Ids
  <1>7. ASSUME Terminate, gq' = gq, cur # Null
        PROVE  Posted' = Posted
    <2>1. PICK e : e = Event("unload")
      OBVIOUS
    <2>2. e.ev = "unload" /\ e \in MEvents
      BY <1>6, <1>7, <2>1 DEF Event
    <2>3. Said(e, {"start", "loaded"}) = <<>>
      BY <1>3, <2>2
    <2>4. mq' = Append(mq, e)
      BY <1>7, <2>1 DEF Terminate
    <2> QED
      BY <1>1, <1>7, <2>2, <2>3, <2>4
  <1>8. CASE CoreStart
    <2>1. cpc = "idle" /\ cpc' = "load" /\ next \in Entry /\ cur' = next /\ next' = Null
          /\ cur = Null /\ why' = "none" /\ why # "quit"
          /\ UNCHANGED <<mrl, state, gpc, gq>>
      BY <1>0, <1>8 DEF CoreStart, TypeOK, Idle, guiVars
    <2>2. PICK a, b : /\ a = [ev |-> "start", id |-> next.id] /\ a \in MEvents
                      /\ b = [ev |-> "load", id |-> next.id] /\ b \in MEvents
      <3>1. next.id \in Ids
        BY <2>1 DEF Entry
      <3>2. /\ [ev |-> "start", id |-> next.id] \in MEvents
            /\ [ev |-> "load", id |-> next.id] \in MEvents
        BY <3>1 DEF MEvents
      <3> QED
        BY <3>2
    <2>3. Posted' = Append(Posted, P!Running)
      <3>1. mq' = mq \o <<a, b>>
        BY <1>8, <2>2 DEF CoreStart
      <3>2. Coming' = (Coming \o <<P!Running>>) \o <<>>
        <4>1. a \in Events /\ b \in Events /\ mq \in Seq(Events)
          BY <1>0, <2>2, PostedType DEF Events
        <4>2. a.ev = "start" /\ b.ev = "load"
          BY <2>2
        <4>3. /\ Said(a, {"start", "loaded"}) = <<P!Running>>
              /\ Said(b, {"start", "loaded"}) = <<>>
          BY <1>3, <1>4, <4>2
        <4>4. Reported(mq \o <<a, b>>, {"start", "loaded"})
              = (Reported(mq, {"start", "loaded"}) \o Said(a, {"start", "loaded"}))
                   \o Said(b, {"start", "loaded"})
          BY <4>1, ReportedTwo
        <4> QED
          BY <3>1, <4>3, <4>4 DEF Coming
      <3>3. P!Running \in P!Reports /\ Handled' = Handled
        BY <2>1 DEF P!Reports, Handled
      <3>4. \A S : \A r \in S : \A p, q \in Seq(S) :
               p \o ((q \o <<r>>) \o <<>>) = Append(p \o q, r)
        OBVIOUS
      <3> QED
        BY <1>0, <3>2, <3>3, <3>4, PostedType DEF Posted
    <2>4. /\ Playing' = Pending /\ Pending' = NoMrl /\ Pending # NoMrl
          /\ Stopping' = FALSE /\ Stopping = FALSE /\ Quitting = FALSE /\ Quitting' = FALSE
      BY <1>0, <2>1, NullAssumption, MrlAssumption
         DEF Playing, Pending, MrlOf, Stopping, Quitting, Quits, Entry
    <2>5. P!Start
      BY <2>1, <2>3, <2>4, PhaseFacts DEF P!Start
    <2> QED
      BY <2>5 DEF P!PlayerNext, P!Core
  <1>9. CASE CoreLoadDone
    <2>1. cpc = "load" /\ UNCHANGED <<mrl, state, cur, next, why, gpc, gq>> /\ cur # Null
      BY <1>0, <1>9 DEF CoreLoadDone, CurrentFile, guiVars
    <2>2. UNCHANGED <<Playing, Pending, Stopping, Quitting>>
      BY <2>1 DEF Playing, Pending, Stopping, Quitting
    <2>3. CASE cpc' = "open" /\ UNCHANGED mq
      <3>1. Posted' = Posted /\ Phase' = Phase
        BY <1>5, <2>1, <2>3, PhaseFacts
      <3> QED
        BY <2>1, <2>2, <3>1, Mapped
    <2>4. CASE Terminate
      <3>1. Posted' = Posted /\ cpc' = "unload"
        BY <1>7, <2>1, <2>4 DEF Terminate
      <3>2. P!Finish
        BY <2>1, <2>2, <3>1, PhaseFacts DEF P!Finish
      <3> QED
        BY <3>2 DEF P!PlayerNext, P!Core
    <2> QED
      BY <1>9, <2>3, <2>4 DEF CoreLoadDone
  <1>10. CASE CoreOpened
    <2>1. /\ cpc = "open" /\ cpc' = "play" /\ cur # Null /\ mq' = Append(mq, Event("loaded"))
          /\ UNCHANGED <<mrl, state, cur, next, why, gpc, gq>>
      BY <1>0, <1>10 DEF CoreOpened, CurrentFile, guiVars
    <2>2. UNCHANGED <<Playing, Pending, Stopping, Quitting>>
      BY <2>1 DEF Playing, Pending, Stopping, Quitting
    <2>3. PICK e : e = Event("loaded")
      OBVIOUS
    <2>4. e.ev = "loaded" /\ e \in MEvents
      BY <1>6, <2>1, <2>3 DEF Event
    <2>5. Posted' = Append(Posted, P!Running)
      BY <1>2, <1>4, <2>1, <2>3, <2>4
    <2>6. P!Opened
      BY <2>1, <2>2, <2>5, PhaseFacts DEF P!Opened
    <2> QED
      BY <2>6 DEF P!PlayerNext, P!Core
  <1>11. CASE CoreOpenFails \/ CoreFinish
    <2>1. /\ cpc \in {"open", "play"} /\ Terminate /\ cur # Null
          /\ UNCHANGED <<mrl, state, cur, next, gpc, gq>>
      BY <1>0, <1>11 DEF CoreOpenFails, CoreFinish, CurrentFile, guiVars
    <2>2. why' \in {"stop", "quit"} <=> why \in {"stop", "quit"}
      BY <1>11 DEF CoreOpenFails, CoreFinish
    <2>3. UNCHANGED <<Playing, Pending, Quitting>>
      BY <2>1 DEF Playing, Pending, Quitting
    <2>4. Stopping' = Stopping
      BY <2>1, <2>2 DEF Stopping
    <2>5. Posted' = Posted /\ cpc' = "unload"
      BY <1>7, <2>1 DEF Terminate
    <2>6. P!Finish
      BY <2>1, <2>3, <2>4, <2>5, PhaseFacts DEF P!Finish
    <2> QED
      BY <2>6 DEF P!PlayerNext, P!Core
  <1>12. CASE CoreAdvance
    <2>1. UNCHANGED <<mrl, state, cpc, cur, next, why, gpc, gq, mq>>
      BY <1>12 DEF CoreAdvance, guiVars
    <2>2. UNCHANGED <<Playing, Pending, Stopping, Quitting, Phase>>
      BY <2>1 DEF Playing, Pending, Stopping, Quitting, Phase
    <2> QED
      BY <1>5, <2>1, <2>2, Mapped
  <1>13. CASE CoreUnloaded
    <2>1. /\ cpc = "unload" /\ cpc' = "idle" /\ cur # Null /\ cur' = Null
          /\ why \in Reasons /\ mq' = Append(mq, EndEvent)
          /\ UNCHANGED <<mrl, state, next, gpc, gq>>
      BY <1>0, <1>13 DEF CoreUnloaded, CurrentFile, TypeOK, guiVars
    <2>2. UNCHANGED <<Pending, Quitting>> /\ Playing' = NoMrl /\ Stopping' = FALSE
      BY <2>1 DEF Playing, Pending, MrlOf, Stopping, Quitting
    <2>3. PICK e : e = EndEvent
      OBVIOUS
    <2>4. e.ev = "end" /\ e.reason = why /\ e \in MEvents
      BY <1>6, <2>1, <2>3 DEF EndEvent
    <2>5. PICK r : r = IF why = "quit" THEN "stop" ELSE why
      OBVIOUS
    <2>6. Said(e, {"start", "loaded"}) = <<P!Over(r)>>
      BY <2>4, <2>5 DEF Said, P!Over
    <2>7. Posted' = Append(Posted, P!Over(r))
      BY <1>2, <2>1, <2>3, <2>4, <2>6
    <2>8. r \in IF Stopping THEN {"stop"} ELSE {"eof", "error"}
      BY <2>1, <2>5 DEF Stopping, Reasons
    <2>9. P!Ended
      BY <2>1, <2>2, <2>7, <2>8, PhaseFacts DEF P!Ended
    <2> QED
      BY <2>9 DEF P!PlayerNext, P!Core
  <1>14. CASE CoreOff
    <2>1. /\ cpc = "idle" /\ cpc' = "off" /\ mq' = Append(mq, ShutdownEvent)
          /\ UNCHANGED <<mrl, state, cur, next, why, gpc, gq>>
      BY <1>14 DEF CoreOff, guiVars
    <2>2. UNCHANGED <<Playing, Pending, Stopping, Quitting>>
      BY <2>1 DEF Playing, Pending, Stopping, Quitting
    <2>3. PICK e : e = ShutdownEvent
      OBVIOUS
    <2>4. e.ev = "shutdown" /\ e \in MEvents
      BY <2>3, BoundAssumption DEF ShutdownEvent, MEvents, Ids
    <2>5. Posted' = Posted
      BY <1>1, <1>3, <2>1, <2>3, <2>4
    <2> QED
      BY <2>1, <2>2, <2>5, PhaseFacts, Mapped
  <1> QED
    BY <1>8, <1>9, <1>10, <1>11, <1>12, <1>13, <1>14 DEF Core

\* The client thread passes the reports on; Player does not see it.
LEMMA ClientIsHidden == MInv /\ Client => UNCHANGED P!player
  <1> SUFFICES ASSUME MInv, Client PROVE UNCHANGED P!player
    OBVIOUS
  <1>0. TypeOK /\ mq \in Seq(Events) /\ gq \in Seq(Events)
    BY PostedType DEF MInv, IInv
  <1>1. UNCHANGED <<mrl, state, cpc, cur, next, why, gpc>>
    BY DEF Client, StartFile, OnLoadCopy, OnLoadTake, OnLoadHistory, OnLoadSync, FileLoaded,
           OnUnloadCopy, OnUnloadTime, EndFile, TimePos, MpvExit, coreVars, guiVars
  <1>2. UNCHANGED <<Playing, Pending, Stopping, Quitting, Phase>>
    BY <1>1 DEF Playing, Pending, Stopping, Quitting, Phase
  <1>3. SUFFICES Posted' = Posted
    BY <1>1, <1>2, <1>3, Mapped
  <1>4. /\ \A e, K : e.ev \notin K \cup {"end"} => Said(e, K) = <<>>
        /\ \A e, K : e.ev \in K /\ e.ev # "end" => Said(e, K) = <<P!Running>>
    BY DEF Said, P!Running
  <1>5. UNCHANGED <<mq, gq>> => Posted' = Posted
    BY DEF Posted, Handled, Coming
  <1>6. UNCHANGED gq => Handled' = Handled
    BY DEF Handled
  <1>7. Handled \o <<>> = Handled
    BY <1>0, PostedType
  <1>8. ASSUME NEW e \in Events, gq' = Append(gq, e), e.ev \notin {"state", "end"}
        PROVE  Handled' = Handled
    <2>1. Reported(Append(gq, e), {"state"}) = Reported(gq, {"state"}) \o Said(e, {"state"})
      BY <1>0, ReportedAppended
    <2>2. Said(e, {"state"}) = <<>>
      BY <1>4, <1>8
    <2> QED
      BY <1>7, <1>8, <2>1, <2>2 DEF Handled
  <1>9. CASE StartFile
    <2>1. mq # <<>> /\ mq' = Tail(mq) /\ Head(mq).ev = "start"
      BY <1>9 DEF StartFile, Popped
    <2>2. PICK a, b : a = [ev |-> "state", to |-> "running"] /\ b = [ev |-> "loading", on |-> TRUE]
      OBVIOUS
    <2>3. gq' = gq \o <<a, b>> /\ a \in Events /\ b \in Events
      BY <1>9, <2>2 DEF StartFile, Events, GEvents
    <2>4. Said(a, {"state"}) = <<P!Running>> /\ Said(b, {"state"}) = <<>>
      BY <1>4, <2>2
    <2>5. Handled' = (Handled \o <<P!Running>>) \o <<>>
      <3>1. Reported(gq \o <<a, b>>, {"state"})
            = (Reported(gq, {"state"}) \o Said(a, {"state"})) \o Said(b, {"state"})
        BY <1>0, <2>3, <2>4, ReportedTwo
      <3> QED
        BY <2>3, <2>4, <3>1 DEF Handled
    <2>6. Handled' = Handled \o <<P!Running>>
      <3>1. \A S : \A q \in Seq(S) : \A r \in S : (q \o <<r>>) \o <<>> = q \o <<r>>
        OBVIOUS
      <3> QED
        BY <1>0, <2>5, <3>1, PostedType DEF P!Reports
    <2>7. Said(Head(mq), {"start", "loaded"}) = <<P!Running>>
      BY <1>4, <2>1
    <2> QED
      BY <1>0, <2>1, <2>6, <2>7, ClientPasses
  <1>10. CASE OnLoadCopy \/ OnUnloadCopy \/ MpvExit
    <2>1. /\ mq # <<>> /\ mq' = Tail(mq) /\ gq' = gq
          /\ Head(mq).ev \in {"load", "unload", "shutdown"}
      BY <1>10 DEF OnLoadCopy, OnUnloadCopy, MpvExit, Popped
    <2>2. Said(Head(mq), {"start", "loaded"}) = <<>>
      BY <1>4, <2>1
    <2> QED
      BY <1>0, <1>6, <1>7, <2>1, <2>2, ClientPasses
  <1>11. CASE OnLoadTake \/ OnLoadHistory \/ OnUnloadTime
    BY <1>5, <1>11 DEF OnLoadTake, OnLoadHistory, OnUnloadTime
  <1>12. CASE OnLoadSync
    <2>1. PICK e : e = [ev |-> "sync", ms |-> tlocal]
      OBVIOUS
    <2>2. e \in Events
      BY <1>0, <1>12, <2>1
         DEF Events, GEvents, OnLoadSync, MInv, IInv, HookOrder, LoadHook, OnLoad, TypeOK
    <2>3. gq' = Append(gq, e) /\ mq' = mq
      BY <1>0, <1>12, <2>1 DEF OnLoadSync, SyncPosted
    <2> QED
      BY <1>8, <2>1, <2>2, <2>3 DEF Posted, Coming
  <1>13. CASE TimePos
    <2>1. PICK e : e = [ev |-> "time", pos |-> pos]
      OBVIOUS
    <2>2. e \in Events
      BY <1>0, <2>1 DEF Events, GEvents, TypeOK
    <2>3. gq' = Append(gq, e) /\ mq' = mq
      BY <1>13, <2>1 DEF TimePos
    <2> QED
      BY <1>8, <2>1, <2>2, <2>3 DEF Posted, Coming
  <1>14. CASE FileLoaded
    <2>1. mq # <<>> /\ mq' = Tail(mq) /\ Head(mq).ev = "loaded" /\ Head(mq).id \in Ids
      BY <1>0, <1>14, PoppedType DEF FileLoaded, Popped
    <2>2. PICK a, b, c : /\ a = [ev |-> "state", to |-> "running"]
                         /\ b = [ev |-> "loading", on |-> FALSE]
                         /\ c = [ev |-> "start", id |-> Head(mq).id]
      OBVIOUS
    <2>3. a \in Events /\ b \in Events /\ c \in Events /\ gq' = gq \o <<a, b, c>>
      BY <1>14, <2>1, <2>2 DEF FileLoaded, Events, GEvents
    <2>4. gq' = Append(gq \o <<a, b>>, c)
      BY <1>0, <2>3
    <2>5. /\ Said(a, {"state"}) = <<P!Running>> /\ Said(b, {"state"}) = <<>>
          /\ Said(c, {"state"}) = <<>>
      BY <1>4, <2>2
    <2>6. Handled' = ((Handled \o <<P!Running>>) \o <<>>) \o <<>>
      <3>1. Reported(gq \o <<a, b>>, {"state"})
            = (Reported(gq, {"state"}) \o Said(a, {"state"})) \o Said(b, {"state"})
        BY <1>0, <2>3, <2>4, ReportedTwo
      <3>2. Reported(Append(gq \o <<a, b>>, c), {"state"})
            = Reported(gq \o <<a, b>>, {"state"}) \o Said(c, {"state"})
        <4>1. gq \o <<a, b>> \in Seq(Events)
          BY <1>0, <2>3, ReportedTwo
        <4> QED
          BY <2>3, <4>1, ReportedAppended
      <3> QED
        BY <2>4, <2>5, <3>1, <3>2 DEF Handled
    <2>7. Handled' = Handled \o <<P!Running>>
      <3>1. \A S : \A q \in Seq(S) : \A r \in S : ((q \o <<r>>) \o <<>>) \o <<>> = q \o <<r>>
        OBVIOUS
      <3> QED
        BY <1>0, <2>6, <3>1, PostedType DEF P!Reports
    <2>8. Said(Head(mq), {"start", "loaded"}) = <<P!Running>>
      BY <1>4, <2>1
    <2> QED
      BY <1>0, <2>1, <2>7, <2>8, ClientPasses
  <1>15. CASE EndFile
    <2>1. /\ mq # <<>> /\ mq' = Tail(mq) /\ Head(mq).ev = "end" /\ Head(mq).id \in Ids
          /\ Head(mq) \in MEvents /\ Head(mq).reason \in Reasons
      BY <1>0, <1>15, PoppedType DEF EndFile, Popped, MEvents
    <2>2. PICK a, b : a = [ev |-> "loading", on |-> FALSE] /\ b = Ended(tlocal)
      OBVIOUS
    <2>3. b.ev = "end" /\ b.reason = Head(mq).reason /\ b \in Events
      BY <1>0, <2>1, <2>2 DEF Ended, Events, GEvents, TypeOK
    <2>4. gq' = gq \o <<a, b>> /\ a \in Events
      BY <1>15, <2>2 DEF EndFile, EndPosted, Events, GEvents
    <2>5. /\ Said(b, {"state"}) = Said(Head(mq), {"start", "loaded"})
          /\ Said(a, {"state"}) = <<>>
      BY <2>1, <2>2, <2>3 DEF Said
    <2>6. Handled' = (Handled \o <<>>) \o Said(b, {"state"})
      <3>1. Reported(gq \o <<a, b>>, {"state"})
            = (Reported(gq, {"state"}) \o Said(a, {"state"})) \o Said(b, {"state"})
        BY <1>0, <2>3, <2>4, ReportedTwo
      <3> QED
        BY <2>4, <2>5, <3>1 DEF Handled
    <2> QED
      BY <1>0, <1>7, <2>1, <2>5, <2>6, ClientPasses
  <1> QED
    BY <1>9, <1>10, <1>11, <1>12, <1>13, <1>14, <1>15 DEF Client

\* What the user asks of the engine is asked of Player.
LEMMA UserIsPlayer ==
    MInv /\ (User \/ ReloadLoad \/ WaitUntilTerminated \/ Exit)
      => [P!PlayerNext]_(P!player)
  <1> SUFFICES ASSUME MInv, User \/ ReloadLoad \/ WaitUntilTerminated \/ Exit
               PROVE  P!PlayerNext \/ UNCHANGED P!player
    OBVIOUS
  <1>0. TypeOK /\ CurrentFile /\ Idle /\ Quits /\ Reloading
    BY DEF MInv, IInv, HookOrder
  <1>1. UNCHANGED <<cpc, cur, mq, gq, state>>
    BY DEF User, Load, Reload, Stop, Shutdown, SetMrl, ReloadLoad, WaitUntilTerminated, Exit,
           LoadFile, StopFile, coreVars, guiVars
  <1>2. UNCHANGED <<Playing, Phase, Posted>>
    BY <1>1 DEF Playing, Phase, Posted, Handled, Coming
  <1>3. cur # Null <=> Phase # "idle"
    BY <1>0, PhaseFacts DEF TypeOK, Idle, CurrentFile
  <1>4. (cpc \in {"idle", "off"}) <=> cur = Null
    BY <1>0 DEF TypeOK, Idle, CurrentFile
  <1>5. ASSUME why' = IF cpc \in {"idle", "off"} THEN why ELSE "stop"
        PROVE  Stopping' = (Phase # "idle")
    BY <1>1, <1>3, <1>4, <1>5 DEF Stopping
  <1>6. ASSUME NEW m \in Mrls, NEW resume, NEW keep, LoadFile(m, resume, keep), loads < MaxLoads,
               resume \in BOOLEAN, keep \in Resume
        PROVE  Pending' = m /\ Stopping' = (Phase # "idle")
    <2>1. next' \in Entry /\ next'.mrl = m
      BY <1>0, <1>6, BoundAssumption DEF LoadFile, Entry, TypeOK, Ids
    <2>2. Pending' = m
      BY <2>1, NullAssumption DEF Pending, MrlOf
    <2>3. Stopping' = (Phase # "idle")
      BY <1>5, <1>6 DEF LoadFile
    <2> QED
      BY <2>2, <2>3
  <1>7. ASSUME StopFile
        PROVE  Pending' = NoMrl /\ Stopping' = (Phase # "idle")
    BY <1>5, <1>7 DEF StopFile, Pending, MrlOf
  <1>8. ASSUME NEW m \in Mrls, NEW r \in BOOLEAN, Load(m, r)
        PROVE  P!PlayerNext
    <2>1. -1 \in Resume
      BY BoundAssumption DEF Resume
    <2>2. gpc = "run" /\ gpc' = "run" /\ mrl' = m /\ LoadFile(m, r, -1) /\ loads < MaxLoads
      BY <1>8 DEF Load
    <2>3. Pending' = m /\ Stopping' = (Phase # "idle")
      BY <1>6, <2>1, <2>2
    <2>4. P!Load(m)
      BY <1>1, <1>2, <2>2, <2>3 DEF P!Load, P!Asked, P!PlayMrl, P!Replace, Quitting
    <2> QED
      BY <2>4 DEF P!PlayerNext
  <1>9. CASE ReloadLoad
    <2>1. /\ gpc = "reload" /\ gpc' = "run" /\ LoadFile(mrl, TRUE, time) /\ loads < MaxLoads
          /\ mrl \in Mrls /\ mrl # NoMrl /\ mrl' = mrl /\ time \in Resume
      <3>1. mrl \in Mrls /\ mrl # NoMrl /\ loads < MaxLoads
        BY <1>0, <1>9 DEF ReloadLoad, Reloading, TypeOK, AnyMrl
      <3>2. time \in Resume
        BY <1>0 DEF TypeOK, Pos, Resume
      <3> QED
        BY <1>9, <3>1, <3>2 DEF ReloadLoad, guiVars
    <2>2. Pending' = mrl /\ Stopping' = (Phase # "idle")
      BY <1>6, <2>1
    <2>3. P!Reload
      BY <1>1, <1>2, <2>1, <2>2 DEF P!Reload, P!Asked, P!PlayMrl, P!Replace, Quitting
    <2> QED
      BY <2>3 DEF P!PlayerNext
  <1>10. CASE Stop
    <2>1. gpc = "run" /\ gpc' = "run" /\ mrl' = mrl /\ StopFile
      BY <1>10 DEF Stop, guiVars
    <2>2. P!Stop
      BY <1>1, <1>2, <1>7, <2>1 DEF P!Stop, P!Asked, P!Replace, Quitting
    <2> QED
      BY <2>2 DEF P!PlayerNext
  <1>11. ASSUME NEW m \in Mrls, SetMrl(m)
         PROVE  P!PlayerNext
    <2>1. gpc = "run" /\ gpc' = "run" /\ mrl' = m /\ m # mrl /\ StopFile
      BY <1>11 DEF SetMrl
    <2>2. P!SetMrl(m)
      BY <1>1, <1>2, <1>7, <2>1 DEF P!SetMrl, P!Asked, P!ChooseMrl, P!Replace, Quitting
    <2> QED
      BY <2>2 DEF P!PlayerNext
  <1>12. CASE Shutdown
    <2>1. /\ gpc = "run" /\ gpc' = "quit" /\ why' = "quit"
          /\ UNCHANGED <<mrl, next>>
      BY <1>12 DEF Shutdown, guiVars
    <2>2. UNCHANGED Pending /\ Stopping' = (Phase # "idle") /\ Quitting = FALSE /\ Quitting' = TRUE
      BY <1>1, <1>3, <2>1 DEF Pending, Stopping, Quitting
    <2>3. P!Quit
      BY <1>1, <1>2, <2>1, <2>2 DEF P!Quit
    <2> QED
      BY <2>3 DEF P!PlayerNext
  <1>13. CASE Reload \/ WaitUntilTerminated \/ Exit
    <2>1. UNCHANGED <<mrl, next, why>> /\ Quitting' = Quitting
      BY <1>13
         DEF Reload, WaitUntilTerminated, Terminated, Exit, coreVars, guiVars, Quitting
    <2>2. UNCHANGED <<Pending, Stopping>>
      BY <1>1, <2>1 DEF Pending, Stopping
    <2> QED
      BY <1>1, <1>2, <2>1, <2>2, Mapped
  <1> QED
    BY <1>8, <1>9, <1>10, <1>11, <1>12, <1>13 DEF User

\* The GUI thread handles the reports of Player, one by one.
LEMMA ProcessIsPlayer == MInv /\ Process => [P!PlayerNext]_(P!player)
  <1> SUFFICES ASSUME MInv, Process PROVE P!PlayerNext \/ UNCHANGED P!player
    OBVIOUS
  <1>0. TypeOK
    BY DEF MInv, IInv
  <1>1. UNCHANGED <<mrl, cpc, cur, next, why, gpc, mq>>
    BY DEF Process, StateChange, WaitingChange, Tick, SyncMrlState, StartPlayback,
           EndPlayback, coreVars, guiVars
  <1>2. UNCHANGED <<Playing, Pending, Stopping, Quitting, Phase>>
    BY <1>1 DEF Playing, Pending, Stopping, Quitting, Phase
  <1>3. ASSUME NEW e, Taken(e), NEW r \in P!Reports, Said(Head(gq), {"state"}) = <<r>>,
               (state' = "running") <=> r = P!Running
        PROVE  P!PlayerNext
    <2>1. Posted = <<r>> \o Posted' /\ Posted' \in Seq(P!Reports)
      BY <1>0, <1>1, <1>3, GuiTakes
    <2>2. \A S : \A x \in S : \A q \in Seq(S) :
             <<x>> \o q # <<>> /\ Head(<<x>> \o q) = x /\ Tail(<<x>> \o q) = q
      OBVIOUS
    <2>3. Posted # <<>> /\ Head(Posted) = r /\ Posted' = Tail(Posted)
      BY <2>1, <2>2
    <2>4. P!Told(r)
      BY <1>3, <2>3 DEF P!Told
    <2>5. P!Handle
      BY <1>1, <1>2, <2>4 DEF P!Handle
    <2> QED
      BY <2>5 DEF P!PlayerNext
  <1>4. CASE StateChange
    <2>1. Taken("state") /\ Head(gq).ev = "state" /\ state' = "running"
      BY <1>0, <1>4, TakenType DEF StateChange, Taken, GEvents
    <2>2. Said(Head(gq), {"state"}) = <<P!Running>> /\ P!Running \in P!Reports
      BY <2>1 DEF Said, P!Running, P!Reports
    <2> QED
      BY <1>3, <2>1, <2>2
  <1>5. CASE EndPlayback
    <2>1. /\ Taken("end") /\ Head(gq).ev = "end" /\ Head(gq).reason \in Reasons
          /\ state' # "running"
      BY <1>0, <1>5, TakenType DEF EndPlayback, Taken, GEvents
    <2>2. PICK x : x = IF Head(gq).reason = "quit" THEN "stop" ELSE Head(gq).reason
      OBVIOUS
    <2>3. Said(Head(gq), {"state"}) = <<P!Over(x)>>
      BY <2>1, <2>2 DEF Said, P!Over
    <2>4. P!Over(x) \in P!Reports /\ P!Over(x) # P!Running
      <3>1. x \in {"eof", "error", "stop"}
        BY <2>1, <2>2 DEF Reasons
      <3>2. P!Over(x).ev = "end" /\ P!Running.ev = "running"
        BY DEF P!Over, P!Running
      <3> QED
        BY <3>1, <3>2 DEF P!Reports
    <2> QED
      BY <1>3, <2>1, <2>3, <2>4
  <1>6. CASE WaitingChange \/ Tick \/ SyncMrlState \/ StartPlayback
    <2>1. PICK e \in {"loading", "time", "sync", "start"} : Taken(e) /\ state' = state
      BY <1>6 DEF WaitingChange, Tick, SyncMrlState, StartPlayback, guiVars
    <2>2. Said(Head(gq), {"state"}) = <<>>
      BY <2>1 DEF Taken, Said
    <2>3. Posted = <<>> \o Posted' /\ Posted' \in Seq(P!Reports)
      BY <1>0, <1>1, <2>1, <2>2, GuiTakes
    <2>4. Posted' = Posted
      BY <2>3
    <2> QED
      BY <1>1, <1>2, <2>1, <2>4, Mapped
  <1> QED
    BY <1>4, <1>5, <1>6 DEF Process

\* The initial state is that of a player that plays nothing.
LEMMA InitIsPlayer == Init => P!PlayerInit
  <1> SUFFICES ASSUME Init PROVE P!PlayerInit
    OBVIOUS
  <1>1. Posted = <<>>
    BY ReportedNothing DEF Init, Posted, Handled, Coming
  <1>2. Phase = "idle"
    BY PhaseFacts DEF Init
  <1> QED
    BY <1>1, <1>2 DEF Init, P!PlayerInit, Playing, Pending, MrlOf, Stopping, Quitting

\* A step of the three threads is one step of Player or hidden from it.
THEOREM StepIsPlayer == MInv /\ [Next]_vars => [P!PlayerNext]_(P!player)
  <1> SUFFICES ASSUME MInv, [Next]_vars PROVE [P!PlayerNext]_(P!player)
    OBVIOUS
  <1>1. CASE Terminating \/ UNCHANGED vars
    <2>1. UNCHANGED <<mrl, state, cpc, cur, next, why, gpc, mq, gq>>
      BY <1>1 DEF Terminating, vars, coreVars, guiVars
    <2>2. UNCHANGED <<Playing, Pending, Stopping, Quitting, Phase, Posted>>
      BY <2>1 DEF Playing, Pending, Stopping, Quitting, Phase, Posted, Handled, Coming
    <2> QED
      BY <2>1, <2>2, Mapped
  <1> QED
    BY <1>1, CoreIsPlayer, ClientIsHidden, UserIsPlayer, ProcessIsPlayer DEF Next

\* The threads, hooks and queues of PlayEngine look to the rest of bomi like
\* Player, whatever the media and however long they run.
THEOREM EngineImplementsPlayer == Spec => ImplementsPlayer
  <1> QED
    BY InitMInv, NextMInv, InitIsPlayer, StepIsPlayer, PTL
       DEF Spec, ImplementsPlayer, P!PlayerSpec
=============================================================================

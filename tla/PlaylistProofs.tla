---------------------------- MODULE PlaylistProofs ----------------------------
(***************************************************************************)
(* Whatever the playlists are, and however the user's edits of the list    *)
(* and the late reports of the player interleave, the row that is shown as *)
(* loaded holds the current medium.                                        *)
(*                                                                         *)
(* The row is kept apart from the list and from the medium: every edit has *)
(* to move it along with its entry, and every change of the medium to find *)
(* it again.  TypeOK and the property together are inductive.              *)
(***************************************************************************)
EXTENDS Playlist, FiniteSetTheorems, SequenceTheorems, WellFoundedInduction, TLAPS

IInv == TypeOK /\ LoadedIsCurrent

-----------------------------------------------------------------------------
(* The operators.                                                            *)

(* A set of natural numbers that has a member has a least one. *)
LEMMA LeastExists ==
  ASSUME NEW S, S \subseteq Nat, S # {}
  PROVE  \E n \in S : \A m \in S : n <= m
<1>1. PICK n \in S : \A m \in S : ~(<<m, n>> \in OpToRel(<, Nat))
  BY NatLessThanWellFounded, WFMin
<1>2. ASSUME NEW m \in S PROVE n <= m
  <2>1. m \in Nat /\ n \in Nat
    OBVIOUS
  <2>2. ~(m < n)
    BY <1>1, <2>1 DEF OpToRel
  <2> QED BY <2>1, <2>2
<1> QED BY <1>2

(* rowOf finds a row that holds the entry, or there is none. *)
LEMMA FirstRowFacts ==
  ASSUME NEW l \in Seq(Mrls), NEW m
  PROVE  /\ FirstRow(l, m) \in -1 .. Rows(l) - 1
         /\ FirstRow(l, m) # -1 => l[FirstRow(l, m) + 1] = m
<1> DEFINE at == {r \in 0 .. Rows(l) - 1 : l[r + 1] = m}
<1>1. Rows(l) \in Nat
  BY LenProperties DEF Rows
<1>2. CASE at = {}
  BY <1>1, <1>2 DEF FirstRow
<1>3. CASE at # {}
  <2>1. at \subseteq Nat
    BY <1>1
  <2>2. \E r \in at : \A s \in at : r <= s
    <3> HIDE DEF at
    <3> QED BY <1>3, <2>1, LeastExists
  <2>3. FirstRow(l, m) = CHOOSE r \in at : \A s \in at : r <= s
    BY <1>3 DEF FirstRow
  <2>4. FirstRow(l, m) \in at
    <3> HIDE DEF at
    <3> QED BY <2>2, <2>3
  <2> QED BY <1>1, <2>4
<1> QED BY <1>2, <1>3

(* updateMrl leaves the loaded row at an entry that is the medium. *)
LEMMA MarkedFacts ==
  ASSUME NEW l \in Seq(Mrls), NEW row \in -1 .. Rows(l) - 1, NEW m,
         m = mrl /\ row # -1 => l[row + 1] = m
  PROVE  /\ Marked(l, row, m) \in -1 .. Rows(l) - 1
         /\ Marked(l, row, m) # -1 => l[Marked(l, row, m) + 1] = m
BY FirstRowFacts DEF Marked

(* An entry of the list is a medium. *)
LEMMA RowFacts ==
  ASSUME TypeOK, NEW r \in Int
  PROVE  /\ Rows(list) \in Nat
         /\ ValidRow(list, r) => list[r + 1] \in Mrls
         /\ ListAt(list, r) # NoMrl => ListAt(list, r) \in Mrls
<1>1. list \in Seq(Mrls) /\ Rows(list) \in Nat
  BY LenProperties DEF TypeOK, Rows
<1>2. ASSUME ValidRow(list, r) PROVE list[r + 1] \in Mrls
  <2>1. r + 1 \in 1 .. Len(list)
    BY <1>1, <1>2 DEF ValidRow, Rows
  <2> QED BY <1>1, <2>1, ElementOfSeq
<1> QED BY <1>1, <1>2 DEF ListAt

(* A shuffled order goes through every row. *)
LEMMA OrderFacts ==
  ASSUME NEW n \in Nat, NEW f \in Orders(n)
  PROVE  Rows(f) = n
<1>1. f \in [1 .. n -> 0 .. n - 1]
  BY DEF Orders
<1>2. f \in Seq(0 .. n - 1)
  BY <1>1, SeqDef
<1> QED BY <1>1, <1>2, LenProperties DEF Rows

(* What next and previous look at is an order of rows. *)
LEMMA ShuffledFacts ==
  ASSUME TypeOK
  PROVE  Rows(Shuffled) <= MaxRows /\ Shuffled \in Orders(Rows(Shuffled))
<1>1. list \in Seq(Mrls) /\ Rows(list) <= MaxRows /\ Rows(list) \in Nat
  BY LenProperties DEF TypeOK, Rows
<1>2. seed[Rows(list)] \in Orders(Rows(list))
  BY <1>1, BoundAssumption DEF TypeOK, Seeds
<1>3. Rows(seed[Rows(list)]) = Rows(list)
  BY <1>1, <1>2, OrderFacts
<1>4. Rows(order) <= MaxRows /\ order \in Orders(Rows(order))
  BY DEF TypeOK
<1>5. Shuffled = seed[Rows(list)] \/ Shuffled = order
  BY DEF Shuffled
<1> QED BY <1>1, <1>2, <1>3, <1>4, <1>5

(* What openWith makes of the list are media, those of the list first. *)
LEMMA ExtendedFacts ==
  ASSUME NEW l \in Seq(Mrls), NEW more \in Seq(Mrls), NEW all \in Extended(l, more)
  PROVE  all \in Seq(Mrls) /\ Rows(all) \in Nat
<1> DEFINE S == {i \in DOMAIN more : /\ more[i] \notin Range(l)
                                     /\ \A j \in 1 .. i - 1 : more[j] # more[i]}
           n == Cardinality(S)
<1>1. PICK p \in Ascending(S) : all = l \o [k \in DOMAIN p |-> more[p[k]]]
  BY DEF Extended
<1>2. DOMAIN more = 1 .. Len(more) /\ Len(more) \in Nat
  BY LenProperties
<1>3. S \subseteq 1 .. Len(more) /\ \A i \in S : more[i] \in Mrls
  BY <1>2, ElementOfSeq
<1>4. n \in Nat
  <2>1. IsFiniteSet(1 .. Len(more))
    BY <1>2, FS_Interval
  <2> HIDE DEF S
  <2> QED BY <1>3, <2>1, FS_Subset, FS_CardinalityType
<1> HIDE DEF S
<1>5. p \in [1 .. n -> S]
  BY <1>1 DEF Ascending
<1> HIDE DEF n
<1>6. [k \in DOMAIN p |-> more[p[k]]] \in [1 .. n -> Mrls]
  BY <1>3, <1>5
<1>7. [k \in DOMAIN p |-> more[p[k]]] \in Seq(Mrls)
  BY <1>4, <1>6, SeqDef
<1> QED BY <1>1, <1>7, ConcatProperties, LenProperties DEF Rows

-----------------------------------------------------------------------------
(* The player keeps its types, whatever it is asked.                         *)

(* Whatever is asked of the player or reported by it keeps its types. *)
LEMMA PlayerFacts ==
  ASSUME PlayerTypeOK
  PROVE  /\ Core => PlayerTypeOK'
         /\ \A r \in Reports : Told(r) /\ Idle => PlayerTypeOK'
         /\ \A r \in Reports, m \in Mrls : Told(r) /\ PlayMrl(m) => PlayerTypeOK'
         /\ Asked /\ Idle => PlayerTypeOK'
         /\ \A m \in AnyMrl : Asked /\ mrl' = m /\ Replace(m) => PlayerTypeOK'
         /\ \A m \in AnyMrl : Asked /\ ChooseMrl(m) => PlayerTypeOK'
         /\ Asked /\ Replace(NoMrl) /\ UNCHANGED mrl => PlayerTypeOK'
         /\ UNCHANGED player => PlayerTypeOK'
<1>1. /\ mrl \in AnyMrl /\ playing \in AnyMrl /\ pending \in AnyMrl /\ NoMrl \in AnyMrl
      /\ running \in BOOLEAN /\ stopping \in BOOLEAN /\ quitting \in BOOLEAN
      /\ phase \in {"idle", "opening", "playing", "ending"} /\ posted \in Seq(Reports)
  BY DEF PlayerTypeOK, AnyMrl
<1>2. /\ \A r \in Reports : Append(posted, r) \in Seq(Reports)
      /\ posted # <<>> => Tail(posted) \in Seq(Reports)
  BY <1>1, AppendProperties, HeadTailProperties
<1>3. Running \in Reports /\ \A r \in {"eof", "error", "stop"} : Over(r) \in Reports
  BY DEF Reports
<1>4. ASSUME Core PROVE PlayerTypeOK'
  <2>1. CASE Start
    BY <1>1, <1>2, <1>3, <2>1 DEF Start, PlayerTypeOK
  <2>2. CASE Opened
    BY <1>1, <1>2, <1>3, <2>2 DEF Opened, PlayerTypeOK
  <2>3. CASE Finish
    BY <1>1, <2>3 DEF Finish, PlayerTypeOK
  <2>4. CASE Ended
    <3>1. posted' \in Seq(Reports)
      BY <1>2, <1>3, <2>4 DEF Ended
    <3> QED BY <1>1, <2>4, <3>1 DEF Ended, PlayerTypeOK
  <2> QED BY <1>4, <2>1, <2>2, <2>3, <2>4 DEF Core
<1>5. \A m \in AnyMrl : Replace(m) => /\ pending' \in AnyMrl /\ stopping' \in BOOLEAN
                                      /\ UNCHANGED <<playing, phase, quitting>>
  BY DEF Replace
<1>6. \A r \in Reports : Told(r) => posted' \in Seq(Reports) /\ running' \in BOOLEAN
  BY <1>2 DEF Told
<1>7. Mrls \subseteq AnyMrl
  BY DEF AnyMrl
<1>8. \A m \in AnyMrl : ChooseMrl(m) => /\ mrl' \in AnyMrl /\ pending' \in AnyMrl
                                        /\ stopping' \in BOOLEAN
                                        /\ UNCHANGED <<playing, phase, quitting>>
  BY <1>1, <1>5 DEF ChooseMrl
<1>9. \A r \in Reports : Told(r) /\ Idle => PlayerTypeOK'
  BY <1>1, <1>6 DEF Idle, PlayerTypeOK
<1>10. \A r \in Reports, m \in Mrls : Told(r) /\ PlayMrl(m) => PlayerTypeOK'
  BY <1>1, <1>5, <1>6, <1>7 DEF PlayMrl, PlayerTypeOK
<1>11. Asked /\ Idle => PlayerTypeOK'
  BY <1>1 DEF Asked, Idle, PlayerTypeOK
<1>12. \A m \in AnyMrl : Asked /\ mrl' = m /\ Replace(m) => PlayerTypeOK'
  BY <1>1, <1>5 DEF Asked, PlayerTypeOK
<1>13. \A m \in AnyMrl : Asked /\ ChooseMrl(m) => PlayerTypeOK'
  BY <1>1, <1>8 DEF Asked, PlayerTypeOK
<1>14. Asked /\ Replace(NoMrl) /\ UNCHANGED mrl => PlayerTypeOK'
  BY <1>1, <1>5 DEF Asked, PlayerTypeOK
<1>15. UNCHANGED player => PlayerTypeOK'
  BY <1>1 DEF player, PlayerTypeOK
<1> QED BY <1>4, <1>9, <1>10, <1>11, <1>12, <1>13, <1>14, <1>15

-----------------------------------------------------------------------------
(* Every edit takes the loaded row along.                                    *)

(* Taking an entry out moves those behind it up. *)
LEMMA RemoveAtFacts ==
  ASSUME NEW S, NEW q \in Seq(S), NEW i \in 1 .. Len(q)
  PROVE  /\ RemoveAt(q, i) \in Seq(S) /\ Len(RemoveAt(q, i)) = Len(q) - 1
         /\ \A j \in 1 .. Len(q) - 1 : RemoveAt(q, i)[j] = IF j < i THEN q[j] ELSE q[j + 1]
<1> DEFINE before == SubSeq(q, 1, i - 1)
           after  == SubSeq(q, i + 1, Len(q))
<1>1. Len(q) \in Nat /\ i \in Nat /\ 1 <= i /\ i <= Len(q)
  BY LenProperties
<1>2. /\ before \in Seq(S) /\ Len(before) = i - 1
      /\ \A j \in 1 .. i - 1 : before[j] = q[j]
  <2>1. \A j \in 1 .. i - 1 : q[j] \in S
    BY <1>1, ElementOfSeq
  <2>2. /\ before \in Seq(S) /\ Len(before) = (IF 1 <= i - 1 THEN i - 1 - 1 + 1 ELSE 0)
        /\ \A j \in 1 .. i - 1 - 1 + 1 : before[j] = q[1 + j - 1]
    BY <1>1, <2>1, SubSeqProperties
  <2> QED BY <1>1, <2>2
<1>3. /\ after \in Seq(S) /\ Len(after) = Len(q) - i
      /\ \A j \in 1 .. Len(q) - i : after[j] = q[i + j]
  <2>1. \A j \in i + 1 .. Len(q) : q[j] \in S
    BY <1>1, ElementOfSeq
  <2>2. /\ after \in Seq(S)
        /\ Len(after) = (IF i + 1 <= Len(q) THEN Len(q) - (i + 1) + 1 ELSE 0)
        /\ \A j \in 1 .. Len(q) - (i + 1) + 1 : after[j] = q[i + 1 + j - 1]
    BY <1>1, <2>1, SubSeqProperties
  <2> QED BY <1>1, <2>2
<1> HIDE DEF before, after
<1>4. /\ before \o after \in Seq(S) /\ Len(before \o after) = Len(before) + Len(after)
      /\ \A j \in 1 .. Len(before) + Len(after) : (before \o after)[j] =
            IF j <= Len(before) THEN before[j] ELSE after[j - Len(before)]
  BY <1>2, <1>3, ConcatProperties
<1>5. RemoveAt(q, i) = before \o after
  BY DEF RemoveAt, before, after
<1>6. Len(before) + Len(after) = Len(q) - 1
  BY <1>1, <1>2, <1>3
<1>7. ASSUME NEW j \in 1 .. Len(q) - 1
      PROVE  (before \o after)[j] = IF j < i THEN q[j] ELSE q[j + 1]
  <2>1. CASE j < i
    BY <1>1, <1>2, <1>4, <1>6, <1>7, <2>1
  <2>2. CASE ~(j < i)
    <3>1. ~(j <= Len(before)) /\ j - Len(before) \in 1 .. Len(q) - i /\ i + (j - (i - 1)) = j + 1
      BY <1>1, <1>2, <2>2
    <3> QED BY <1>2, <1>3, <1>4, <1>6, <2>2, <3>1
  <2> QED BY <2>1, <2>2
<1> QED BY <1>4, <1>5, <1>6, <1>7

(* The list and the row in it. *)
Listed ==
  /\ list \in Seq(Mrls) /\ Rows(list) <= MaxRows
  /\ loaded \in -1 .. Rows(list) - 1
  /\ LoadedIsCurrent

(* The ways of changing the list keep the row right. *)
LEMMA ListedFacts ==
  ASSUME IInv
  PROVE  /\ Listed
         /\ UNCHANGED <<list, loaded, mrl>> => Listed'
         /\ \A l \in Seq(Mrls), m \in Mrls : \A row \in -1 .. Rows(l) - 1 :
              /\ Rows(l) <= MaxRows /\ (row # -1 => l[row + 1] = mrl)
              /\ list' = l /\ loaded' = Marked(l, row, m) /\ mrl' = m
              => Listed'
         /\ \A l \in Seq(Mrls) : \A row \in -1 .. Rows(l) - 1 :
              /\ Rows(l) <= MaxRows /\ (row # -1 => l[row + 1] = mrl)
              /\ SetList(l, row) /\ UNCHANGED mrl
              => Listed'
<1>1. Listed
  BY DEF IInv, TypeOK, Listed
<1>2. UNCHANGED <<list, loaded, mrl>> => Listed'
  BY <1>1 DEF Listed, LoadedIsCurrent
<1>3. ASSUME NEW l \in Seq(Mrls), NEW row \in -1 .. Rows(l) - 1, NEW m \in Mrls,
             Rows(l) <= MaxRows, row # -1 => l[row + 1] = mrl,
             list' = l, loaded' = Marked(l, row, m), mrl' = m
      PROVE  Listed'
  <2>1. /\ Marked(l, row, m) \in -1 .. Rows(l) - 1
        /\ Marked(l, row, m) # -1 => l[Marked(l, row, m) + 1] = m
    BY <1>3, MarkedFacts
  <2> QED BY <1>3, <2>1 DEF Listed, LoadedIsCurrent, Rows
<1>4. ASSUME NEW l \in Seq(Mrls), NEW row \in -1 .. Rows(l) - 1,
             Rows(l) <= MaxRows, row # -1 => l[row + 1] = mrl,
             SetList(l, row), UNCHANGED mrl
      PROVE  Listed'
  BY <1>4 DEF Listed, LoadedIsCurrent, Rows, SetList
<1> QED BY <1>1, <1>2, <1>3, <1>4

(* The edits that keep the medium: the row follows its entry. *)
LEMMA RowsKept ==
  ASSUME IInv
  PROVE  /\ \A r \in 0 .. Rows(list) - 1 :
              SetList(RemoveAt(list, r + 1), RowRemoved(r)) /\ UNCHANGED mrl => Listed'
         /\ \A r \in 0 .. Rows(list) - 2 :
              /\ SetList([list EXCEPT ![r + 1] = list[r + 2], ![r + 2] = list[r + 1]],
                         RowSwapped(r, r + 1))
              /\ UNCHANGED mrl
              => Listed'
         /\ \A l \in Lists :
              /\ Rows(list) + Rows(l) <= MaxRows
              /\ SetList(list \o l, loaded) /\ UNCHANGED mrl
              => Listed'
<1>1. /\ list \in Seq(Mrls) /\ Rows(list) <= MaxRows /\ loaded \in -1 .. Rows(list) - 1
      /\ loaded # -1 => list[loaded + 1] = mrl
      /\ Rows(list) = Len(list) /\ Len(list) \in Nat /\ MaxRows \in Nat
  BY LenProperties, BoundAssumption DEF IInv, TypeOK, LoadedIsCurrent, Rows
<1>2. ASSUME NEW r \in 0 .. Rows(list) - 1, SetList(RemoveAt(list, r + 1), RowRemoved(r)),
             UNCHANGED mrl
      PROVE  Listed'
  <2> DEFINE l == RemoveAt(list, r + 1)
  <2>1. r + 1 \in 1 .. Len(list)
    BY <1>1
  <2>2. /\ l \in Seq(Mrls) /\ Rows(l) = Len(list) - 1
        /\ \A j \in 1 .. Len(list) - 1 : l[j] = IF j < r + 1 THEN list[j] ELSE list[j + 1]
    BY <1>1, <2>1, RemoveAtFacts DEF Rows
  <2>3. /\ RowRemoved(r) \in -1 .. Len(list) - 2
        /\ RowRemoved(r) # -1 => l[RowRemoved(r) + 1] = mrl
    <3>1. CASE loaded < r
      BY <1>1, <2>2, <3>1 DEF RowRemoved
    <3>2. CASE loaded > r
      <4>1. RowRemoved(r) = loaded - 1 /\ loaded \in 1 .. Len(list) - 1 /\ ~(loaded < r + 1)
        BY <1>1, <3>2 DEF RowRemoved
      <4>2. l[loaded] = list[loaded + 1]
        BY <2>2, <4>1
      <4> QED BY <1>1, <4>1, <4>2
    <3>3. CASE loaded = r
      BY <1>1, <3>3 DEF RowRemoved
    <3> QED BY <1>1, <3>1, <3>2, <3>3
  <2> HIDE DEF l
  <2>4. Rows(l) <= MaxRows /\ RowRemoved(r) \in -1 .. Rows(l) - 1
    BY <1>1, <2>2, <2>3
  <2>5. SetList(l, RowRemoved(r)) /\ UNCHANGED mrl
    BY <1>2 DEF l
  <2> QED BY <2>2, <2>3, <2>4, <2>5, ListedFacts
<1>3. ASSUME NEW r \in 0 .. Rows(list) - 2, UNCHANGED mrl,
             SetList([list EXCEPT ![r + 1] = list[r + 2], ![r + 2] = list[r + 1]],
                     RowSwapped(r, r + 1))
      PROVE  Listed'
  <2> DEFINE half == [list EXCEPT ![r + 1] = list[r + 2]]
             l    == [half EXCEPT ![r + 2] = list[r + 1]]
  <2>1. r + 1 \in 1 .. Len(list) /\ r + 2 \in 1 .. Len(list) /\ r \in Nat
    BY <1>1
  <2>2. list[r + 1] \in Mrls /\ list[r + 2] \in Mrls
    BY <1>1, <2>1, ElementOfSeq
  <2>3. /\ half \in Seq(Mrls) /\ Len(half) = Len(list)
        /\ \A j \in 1 .. Len(list) : half[j] = IF j = r + 1 THEN list[r + 2] ELSE list[j]
    BY <1>1, <2>1, <2>2, ExceptSeq
  <2> HIDE DEF half
  <2>4. /\ l \in Seq(Mrls) /\ Len(l) = Len(list)
        /\ \A j \in 1 .. Len(list) : l[j] = IF j = r + 2 THEN list[r + 1] ELSE half[j]
    BY <2>1, <2>2, <2>3, ExceptSeq
  <2> HIDE DEF l
  <2>5. RowSwapped(r, r + 1) \in -1 .. Rows(l) - 1
    BY <1>1, <2>1, <2>4 DEF RowSwapped, Rows
  <2>6. RowSwapped(r, r + 1) # -1 => l[RowSwapped(r, r + 1) + 1] = mrl
    <3>1. CASE loaded = r
      BY <1>1, <2>1, <2>4, <3>1 DEF RowSwapped
    <3>2. CASE loaded = r + 1
      BY <1>1, <2>1, <2>3, <2>4, <3>2 DEF RowSwapped
    <3>3. CASE loaded # r /\ loaded # r + 1 /\ loaded # -1
      <4>1. RowSwapped(r, r + 1) = loaded /\ loaded + 1 \in 1 .. Len(list)
            /\ loaded + 1 # r + 1 /\ loaded + 1 # r + 2
        BY <1>1, <2>1, <3>3 DEF RowSwapped
      <4> QED BY <1>1, <2>3, <2>4, <3>3, <4>1
    <3>4. CASE loaded = -1
      BY <2>1, <3>4 DEF RowSwapped
    <3> QED BY <3>1, <3>2, <3>3, <3>4
  <2>7. SetList(l, RowSwapped(r, r + 1))
    BY <1>3 DEF l, half
  <2> QED BY <1>1, <1>3, <2>4, <2>5, <2>6, <2>7, ListedFacts DEF Rows
<1>4. ASSUME NEW l \in Lists, Rows(list) + Rows(l) <= MaxRows, UNCHANGED mrl,
             SetList(list \o l, loaded)
      PROVE  Listed'
  <2>1. l \in Seq(Mrls) /\ Len(l) \in Nat
    BY ListAssumption, LenProperties
  <2>2. /\ list \o l \in Seq(Mrls) /\ Rows(list \o l) = Len(list) + Len(l)
        /\ \A j \in 1 .. Len(list) : (list \o l)[j] = list[j]
    BY <1>1, <2>1, ConcatProperties DEF Rows
  <2>3. Rows(list \o l) <= MaxRows /\ loaded \in -1 .. Rows(list \o l) - 1
    BY <1>1, <1>4, <2>1, <2>2 DEF Rows
  <2>4. loaded # -1 => (list \o l)[loaded + 1] = mrl
    BY <1>1, <2>2
  <2> QED BY <1>4, <2>2, <2>3, <2>4, ListedFacts
<1> QED BY <1>2, <1>3, <1>4

(* Loading a medium after an edit finds its row. *)
LEMMA LoadInFacts ==
  ASSUME IInv, NEW l \in Seq(Mrls), NEW m \in Mrls, NEW row \in -1 .. Rows(l) - 1,
         Rows(l) <= MaxRows, row # -1 => l[row + 1] = mrl, LoadIn(l, row, m)
  PROVE  Listed' /\ PlayMrl(m)
<1>1. list' = l /\ loaded' = Marked(l, row, m) /\ mrl' = m /\ PlayMrl(m)
  BY DEF LoadIn, PlayMrl
<1> QED BY <1>1, ListedFacts

(* The player that is asked by the GUI thread, and the list it leaves. *)
LEMMA OpenMrlFacts ==
  ASSUME IInv, NEW m \in Mrls, Asked, OpenMrl(m)
  PROVE  Listed' /\ PlayerTypeOK'
<1>1. PlayerTypeOK /\ list \in Seq(Mrls) /\ Rows(list) <= MaxRows /\ MaxRows \in Nat
      /\ loaded \in -1 .. Rows(list) - 1 /\ (loaded # -1 => list[loaded + 1] = mrl)
  BY BoundAssumption DEF IInv, TypeOK, LoadedIsCurrent
<1>2. ASSUME PlayMrl(m) PROVE PlayerTypeOK'
  BY <1>1, <1>2, PlayerFacts DEF PlayMrl, AnyMrl
<1>3. CASE Idle /\ UNCHANGED <<list, loaded>>
  <2>1. Listed'
    BY <1>3, ListedFacts DEF Idle
  <2> QED BY <1>1, <1>3, <2>1, PlayerFacts
<1>4. CASE LoadIn(list, loaded, m)
  BY <1>1, <1>2, <1>4, LoadInFacts
<1>5. ASSUME NEW l \in Lists, LoadIn(l, -1, m) PROVE Listed' /\ PlayerTypeOK'
  <2>1. l \in Seq(Mrls) /\ Rows(l) \in Nat /\ Rows(l) <= MaxRows
    BY ListAssumption, LenProperties DEF Rows
  <2>2. -1 \in -1 .. Rows(l) - 1
    BY <2>1
  <2> QED BY <1>2, <1>5, <2>1, <2>2, LoadInFacts
<1> QED BY <1>3, <1>4, <1>5 DEF OpenMrl

(* Playing a row leaves the list and its loaded row in step. *)
LEMMA PlayRowFacts ==
  ASSUME IInv, NEW r, Asked, PlayRow(r)
  PROVE  Listed' /\ PlayerTypeOK'
<1>1. CASE ValidRow(list, r)
  <2>1. r \in Int
    BY <1>1, LenProperties DEF ValidRow, Rows, IInv, TypeOK
  <2>2. list[r + 1] \in Mrls
    BY <1>1, <2>1, RowFacts DEF IInv
  <2> QED BY <1>1, <2>2, OpenMrlFacts DEF PlayRow
<1>2. CASE ~ValidRow(list, r)
  <2>1. Idle /\ UNCHANGED <<list, loaded>>
    BY <1>2 DEF PlayRow
  <2>2. Listed'
    BY <2>1, ListedFacts DEF Idle
  <2> QED BY <2>1, <2>2, PlayerFacts DEF IInv, TypeOK
<1> QED BY <1>1, <1>2

-----------------------------------------------------------------------------
(* The invariant.                                                            *)

(* What is left of it besides the player and the list. *)
Ordered ==
  /\ shuffled \in BOOLEAN /\ repeat \in BOOLEAN
  /\ Rows(order) <= MaxRows /\ order \in Orders(Rows(order)) /\ seed \in Seeds
  /\ requests \in 0 .. MaxRequests

(* The invariant in three parts: the player, the list and the settings. *)
LEMMA Parts ==
  /\ IInv <=> PlayerTypeOK /\ Listed /\ Ordered
  /\ PlayerTypeOK' /\ Listed' /\ Ordered' => IInv'
BY DEF IInv, TypeOK, Listed, Ordered

(* The restored playlist has no loaded row yet. *)
LEMMA InitIInv == Init => IInv
<1> SUFFICES ASSUME Init PROVE IInv
  OBVIOUS
<1>1. PlayerTypeOK
  BY EmptySeq DEF Init, PlayerInit, PlayerTypeOK, AnyMrl
<1>2. <<>> \in Seq(Mrls) /\ Len(<<>>) = 0 /\ MaxRows \in Nat /\ MaxRequests \in Nat
  BY EmptySeq, BoundAssumption
<1>3. list \in Seq(Mrls) /\ Len(list) \in Nat /\ Len(list) <= MaxRows
  <2>1. CASE list \in Lists
    BY <2>1, ListAssumption, LenProperties
  <2>2. CASE list = <<>>
    BY <1>2, <2>2
  <2> QED BY <2>1, <2>2 DEF Init
<1>4. Listed
  BY <1>3 DEF Init, Listed, LoadedIsCurrent, Rows
<1>5. <<>> \in Orders(0)
  BY DEF Orders
<1>6. Ordered
  BY <1>2, <1>5 DEF Init, Ordered, Rows
<1> QED BY <1>1, <1>4, <1>6, Parts

(* An action that leaves the settings alone, or shuffles anew, keeps them typed. *)
LEMMA OrderKept ==
  ASSUME IInv
  PROVE  /\ UNCHANGED <<order, seed, shuffled, repeat, requests>> => Ordered'
         /\ order' = Shuffled /\ UNCHANGED <<seed, shuffled, repeat, requests>> => Ordered'
         /\ Request /\ UNCHANGED <<order, seed, shuffled, repeat>> => Ordered'
         /\ Request /\ order' = Shuffled /\ UNCHANGED <<seed, shuffled, repeat>> => Ordered'
         /\ Request /\ shuffled' \in BOOLEAN /\ repeat' \in BOOLEAN /\ UNCHANGED <<order, seed>>
              => Ordered'
<1>1. Ordered /\ TypeOK
  BY Parts DEF IInv
<1>2. Request => requests' \in 0 .. MaxRequests
  BY <1>1, BoundAssumption DEF Request, Ordered
<1>3. Rows(Shuffled) <= MaxRows /\ Shuffled \in Orders(Rows(Shuffled))
  BY <1>1, ShuffledFacts
<1> HIDE DEF Shuffled
<1>4. order' = Shuffled => Rows(order') <= MaxRows /\ order' \in Orders(Rows(order'))
  BY <1>3
<1> QED BY <1>1, <1>2, <1>4 DEF Ordered, Rows, Orders, Seeds

(* The list, the loaded row and the medium that the user's actions leave. *)
LEMMA UserKeeps ==
  ASSUME IInv, User
  PROVE  IInv'
<1>1. /\ PlayerTypeOK /\ list \in Seq(Mrls) /\ Rows(list) <= MaxRows /\ MaxRows \in Nat
      /\ loaded \in -1 .. Rows(list) - 1 /\ (loaded # -1 => list[loaded + 1] = mrl)
      /\ mrl \in AnyMrl /\ Rows(list) \in Nat
  BY BoundAssumption, LenProperties DEF IInv, TypeOK, LoadedIsCurrent, PlayerTypeOK, Rows
<1>2. /\ Request => Asked
      /\ \A l \in Lists : l \in Seq(Mrls) /\ Rows(l) \in Nat /\ Rows(l) <= MaxRows
  BY ListAssumption, LenProperties DEF Request, Rows
<1>3. /\ <<>> \in Seq(Mrls) /\ Rows(<<>>) = 0
      /\ \A l \in Seq(Mrls) : Rows(l) \in Nat /\ -1 \in -1 .. Rows(l) - 1
  BY EmptySeq, LenProperties DEF Rows
<1>4. Asked /\ Idle => PlayerTypeOK' /\ UNCHANGED mrl
  BY <1>1, PlayerFacts DEF Idle
<1>5. CASE Open
  <2>1. Listed' /\ PlayerTypeOK'
    BY <1>2, <1>5, OpenMrlFacts DEF Open
  <2>2. Ordered'
    BY <1>5, OrderKept DEF Open, Settings
  <2> QED BY <2>1, <2>2, Parts
<1>6. CASE Play
  <2>1. Listed' /\ PlayerTypeOK'
    BY <1>2, <1>6, PlayRowFacts DEF Play
  <2>2. Ordered'
    BY <1>6, OrderKept DEF Play, Settings
  <2> QED BY <2>1, <2>2, Parts
<1>7. CASE OpenWith
  <2>0. PICK l \in Lists, clear \in BOOLEAN, play \in BOOLEAN : \E m \in Range(l) :
          \E all \in Extended(IF clear THEN <<>> ELSE list, l) :
           /\ Rows(all) <= MaxRows
           /\ IF m = mrl
              THEN UNCHANGED <<list, loaded>> /\ (Idle \/ PlayMrl(m))
              ELSE /\ list' = all /\ loaded' = Marked(all, -1, m)
                   /\ IF play THEN PlayMrl(m) ELSE ChooseMrl(m)
    BY <1>7 DEF OpenWith
  <2>1. PICK m \in Range(l), all \in Extended(IF clear THEN <<>> ELSE list, l) :
           /\ Rows(all) <= MaxRows
           /\ IF m = mrl
              THEN UNCHANGED <<list, loaded>> /\ (Idle \/ PlayMrl(m))
              ELSE /\ list' = all /\ loaded' = Marked(all, -1, m)
                   /\ IF play THEN PlayMrl(m) ELSE ChooseMrl(m)
    BY <2>0
  <2>2. m \in Mrls /\ m \in AnyMrl
    BY <1>2, ElementOfSeq, LenProperties DEF Range, AnyMrl
  <2>3. all \in Seq(Mrls)
    BY <1>1, <1>2, <1>3, ExtendedFacts
  <2>4. Asked /\ Ordered'
    BY <1>2, <1>7, OrderKept DEF OpenWith, Settings
  <2>5. CASE m = mrl
    <3>1. UNCHANGED mrl /\ PlayerTypeOK'
      BY <1>1, <1>4, <2>1, <2>2, <2>4, <2>5, PlayerFacts DEF PlayMrl
    <3>2. Listed'
      BY <2>1, <2>5, <3>1, ListedFacts
    <3> QED BY <2>4, <3>1, <3>2, Parts
  <2>6. CASE m # mrl
    <3>1. mrl' = m /\ PlayerTypeOK'
      BY <1>1, <2>1, <2>2, <2>4, <2>6, PlayerFacts DEF PlayMrl, ChooseMrl
    <3>2. Listed'
      BY <1>3, <2>1, <2>2, <2>3, <2>6, <3>1, ListedFacts
    <3> QED BY <2>4, <3>1, <3>2, Parts
  <2> QED BY <2>5, <2>6
<1>8. CASE OpenList
  <2>1. PICK l \in Lists \cup {<<>>} : SetList(l, -1)
    BY <1>8 DEF OpenList
  <2>2. l \in Seq(Mrls) /\ Rows(l) <= MaxRows /\ -1 \in -1 .. Rows(l) - 1
    <3>1. CASE l \in Lists
      BY <1>2, <1>3, <3>1
    <3>2. CASE l = <<>>
      BY <1>1, <1>3, <3>2
    <3> QED BY <2>1, <3>1, <3>2
  <2>3. PlayerTypeOK' /\ UNCHANGED mrl /\ Ordered'
    BY <1>2, <1>4, <1>8, OrderKept DEF OpenList, Settings
  <2>4. Listed'
    BY <2>1, <2>2, <2>3, ListedFacts
  <2> QED BY <2>3, <2>4, Parts
<1>9. CASE OpenDir
  <2>1. PICK l \in Lists : l # <<>> /\ LoadIn(l, -1, l[1])
    BY <1>9 DEF OpenDir
  <2>2. l \in Seq(Mrls) /\ Rows(l) <= MaxRows /\ -1 \in -1 .. Rows(l) - 1 /\ l[1] \in Mrls
    <3>1. 1 \in 1 .. Len(l)
      BY <1>2, <2>1, EmptySeq
    <3> QED BY <1>2, <1>3, <3>1, ElementOfSeq
  <2>3. Listed' /\ PlayMrl(l[1])
    BY <2>1, <2>2, LoadInFacts
  <2>4. PlayerTypeOK'
    BY <1>1, <1>2, <1>9, <2>2, <2>3, PlayerFacts DEF OpenDir, PlayMrl, AnyMrl
  <2>5. Ordered'
    BY <1>9, OrderKept DEF OpenDir, Settings
  <2> QED BY <2>3, <2>4, <2>5, Parts
<1>10. CASE Regenerate
  <2>1. PICK l \in Lists : SetList(l, FirstRow(l, mrl))
    BY <1>10 DEF Regenerate
  <2>2. PlayerTypeOK' /\ UNCHANGED mrl /\ Ordered'
    BY <1>2, <1>4, <1>10, OrderKept DEF Regenerate, Settings
  <2>3. Listed'
    BY <1>2, <2>1, <2>2, FirstRowFacts, ListedFacts
  <2> QED BY <2>2, <2>3, Parts
<1>11. CASE AppendList
  <2>1. PlayerTypeOK' /\ UNCHANGED mrl /\ Ordered'
    BY <1>2, <1>4, <1>11, OrderKept DEF AppendList, Settings
  <2>2. Listed'
    BY <1>11, <2>1, RowsKept DEF AppendList
  <2> QED BY <2>1, <2>2, Parts
<1>12. CASE RemoveRow
  <2>1. PlayerTypeOK' /\ UNCHANGED mrl /\ Ordered'
    BY <1>2, <1>4, <1>12, OrderKept DEF RemoveRow, Settings
  <2>2. Listed'
    BY <1>12, <2>1, RowsKept DEF RemoveRow
  <2> QED BY <2>1, <2>2, Parts
<1>13. CASE Swap
  <2>1. PlayerTypeOK' /\ UNCHANGED mrl /\ Ordered'
    BY <1>2, <1>4, <1>13, OrderKept DEF Swap, Settings
  <2>2. Listed'
    BY <1>13, <2>1, RowsKept DEF Swap
  <2> QED BY <2>1, <2>2, Parts
<1>14. CASE Toggle
  <2>1. PlayerTypeOK' /\ UNCHANGED mrl /\ UNCHANGED <<list, loaded>>
    BY <1>2, <1>4, <1>14 DEF Toggle
  <2>2. shuffled' \in BOOLEAN /\ repeat' \in BOOLEAN
    BY <1>14, Parts DEF Toggle, Ordered
  <2>3. Ordered' /\ Listed'
    BY <1>14, <2>1, <2>2, OrderKept, ListedFacts DEF Toggle
  <2> QED BY <2>1, <2>3, Parts
<1>15. CASE StopOrPlay
  <2>1. UNCHANGED <<list, loaded>> /\ Ordered'
    BY <1>15, OrderKept DEF StopOrPlay, model
  <2>2. UNCHANGED mrl /\ PlayerTypeOK'
    BY <1>1, <1>2, <1>15, PlayerFacts DEF StopOrPlay, PlayMrl
  <2> QED BY <2>1, <2>2, ListedFacts, Parts
<1> QED BY <1>5, <1>6, <1>7, <1>8, <1>9, <1>10, <1>11, <1>12, <1>13, <1>14, <1>15 DEF User

(* ... and those that the reports of the player and libmpv leave. *)
LEMMA NextIInv == IInv /\ [Next]_vars => IInv'
<1> SUFFICES ASSUME IInv, [Next]_vars PROVE IInv'
  OBVIOUS
<1>1. PlayerTypeOK
  BY DEF IInv, TypeOK
<1>2. CASE User
  BY <1>2, UserKeeps
<1>3. CASE Started
  <2>1. Idle /\ UNCHANGED <<list, loaded, mrl>> /\ Told(Running)
    BY <1>3 DEF Started, Idle, model
  <2>2. Ordered'
    BY <1>3, OrderKept DEF Started, model
  <2>3. PlayerTypeOK'
    BY <1>1, <2>1, PlayerFacts DEF Reports
  <2> QED BY <2>1, <2>2, <2>3, ListedFacts, Parts
<1>4. CASE Finished
  <2>1. Idle /\ UNCHANGED <<list, loaded, mrl>> /\ \E r \in Reports : Told(r)
    BY <1>4 DEF Finished, Idle, Reports
  <2>2. Ordered'
    BY <1>4, OrderKept DEF Finished, Settings
  <2>3. PlayerTypeOK'
    BY <1>1, <2>1, PlayerFacts
  <2> QED BY <2>1, <2>2, <2>3, ListedFacts, Parts
<1>5. CASE Advance
  <2>1. ListAt(list, NextRow) \in Mrls
    <3>1. ListAt(list, NextRow) # NoMrl
      BY <1>5 DEF Advance
    <3>2. ValidRow(list, NextRow)
      BY <3>1 DEF ListAt
    <3>3. NextRow \in Int
      BY <3>2, LenProperties DEF ValidRow, Rows, IInv, TypeOK
    <3> QED BY <3>1, <3>3, RowFacts DEF IInv
  <2>2. LoadIn(list, loaded, ListAt(list, NextRow))
    BY <1>5 DEF Advance
  <2>3. Listed' /\ PlayMrl(ListAt(list, NextRow))
    BY <2>1, <2>2, LoadInFacts DEF IInv, TypeOK, LoadedIsCurrent
  <2>4. Told(Over("eof")) /\ Over("eof") \in Reports
    BY <1>5 DEF Advance, Reports
  <2>5. PlayerTypeOK'
    BY <1>1, <2>1, <2>3, <2>4, PlayerFacts
  <2>6. Ordered'
    BY <1>5, OrderKept DEF Advance, Settings
  <2> QED BY <2>3, <2>5, <2>6, Parts
<1>6. CASE Core /\ UNCHANGED <<model, requests>>
  <2>1. PlayerTypeOK'
    BY <1>1, <1>6, PlayerFacts
  <2>2. UNCHANGED <<list, loaded, mrl>>
    BY <1>6 DEF Core, Start, Opened, Finish, Ended, model
  <2>3. Ordered'
    BY <1>6, OrderKept DEF model
  <2> QED BY <2>1, <2>2, <2>3, ListedFacts, Parts
<1>7. CASE UNCHANGED vars
  <2>1. UNCHANGED player /\ UNCHANGED <<list, loaded, mrl>>
        /\ UNCHANGED <<order, seed, shuffled, repeat, requests>>
    BY <1>7 DEF vars, player, model
  <2> QED BY <1>1, <2>1, PlayerFacts, OrderKept, ListedFacts, Parts
<1> QED BY <1>2, <1>3, <1>4, <1>5, <1>6, <1>7 DEF Next

(* The invariant holds in every reachable state. *)
THEOREM Invariance == Spec => []IInv
<1> QED BY InitIInv, NextIInv, PTL DEF Spec

(* Every variable of the playlist and of the player keeps its type. *)
THEOREM TypeCorrect == Spec => []TypeOK
<1>1. IInv => TypeOK
  BY DEF IInv
<1> QED BY <1>1, Invariance, PTL

(* The row shown as loaded holds the current medium, through every edit of the list, *)
(* every request and every late report (SimpleListModel::specialRow and updateMrl).   *)
THEOREM LoadedStaysCurrent == Spec => []LoadedIsCurrent
<1>1. IInv => LoadedIsCurrent
  BY DEF IInv
<1> QED BY <1>1, Invariance, PTL
=============================================================================

------------------------------ MODULE Playlist ------------------------------
(***************************************************************************)
(* The playlist (SimpleListModel, PlaylistModel) and the part of the main  *)
(* window that opens media with it, on top of the player as the engine     *)
(* presents it.  All of it runs in the GUI thread; what makes it hard is   *)
(* that reports of the player arrive some time after the fact.             *)
(*                                                                         *)
(* Rows are counted from 0 as in the code, and -1 is no row.               *)
(***************************************************************************)
EXTENDS Player, Integers, FiniteSets, SequencesExt

CONSTANTS
    Lists,       \* the playlists that files, folders and addresses give
    MaxRows,     \* bound: entries of the playlist
    MaxRequests  \* bound: what the user does

ASSUME BoundAssumption == MaxRows \in Nat /\ MaxRequests \in Nat
ASSUME ListAssumption  ==
    NoMrl \notin Mrls /\ \A l \in Lists : l \in Seq(Mrls) /\ Len(l) <= MaxRows

VARIABLES
    list,       \* the entries
    loaded,     \* specialRow: the row of the current medium
    shuffled, repeat,
    order,      \* m_shuffledIdx
    seed,       \* what std::shuffle makes of each size: the seed is static
    requests    \* what the user has done so far

model == <<list, loaded, shuffled, repeat, order, seed>>
vars  == <<player, model, requests>>

Rows(l)        == Len(l)
ValidRow(l, r) == r \in 0 .. Rows(l) - 1
ListAt(l, r)   == IF ValidRow(l, r) THEN l[r + 1] ELSE NoMrl      \* value(r)
FirstRow(l, m) ==                                                 \* rowOf(m)
    LET at == {r \in 0 .. Rows(l) - 1 : l[r + 1] = m}
    IN  IF at = {} THEN -1 ELSE CHOOSE r \in at : \A s \in at : r <= s

Orders(n) == {f \in [1 .. n -> 0 .. n - 1] : \A i, j \in 1 .. n : f[i] = f[j] => i = j}

Seeds == {f \in [0 .. MaxRows -> UNION {Orders(n) : n \in 0 .. MaxRows}] :
             \A n \in 0 .. MaxRows : f[n] \in Orders(n)}

TypeOK ==
    /\ PlayerTypeOK
    /\ list \in Seq(Mrls) /\ Rows(list) <= MaxRows
    /\ loaded \in -1 .. Rows(list) - 1
    /\ shuffled \in BOOLEAN /\ repeat \in BOOLEAN
    /\ Rows(order) <= MaxRows /\ order \in Orders(Rows(order)) /\ seed \in Seeds
    /\ requests \in 0 .. MaxRequests

\* restoreState: the last playlist, perhaps with the last medium chosen in it.
Init ==
    /\ PlayerInit
    /\ list \in Lists \cup {<<>>} /\ loaded = -1 /\ order = <<>>
    /\ shuffled \in BOOLEAN /\ repeat \in BOOLEAN
    /\ seed \in Seeds
    /\ requests = 0

-----------------------------------------------------------------------------
(* SimpleListModel.  The loaded row follows its entry.                       *)

SetList(l, now) == list' = l /\ loaded' = now

RemovedKept(r) == loaded
\* removeRows: the special row when row r goes.
RowRemoved(r) == IF loaded < r THEN loaded ELSE IF loaded > r THEN loaded - 1 ELSE -1

SwapForgotten(r, s) == loaded
\* swap: the special row when rows r and s change places.
RowSwapped(r, s) == IF r = loaded THEN s ELSE IF s = loaded THEN r ELSE loaded

\* updateMrl, called on mrlChanged: an unchanged Mrl leaves the row as it is.
Marked(l, row, m) == IF m # mrl THEN FirstRow(l, m) ELSE row

-----------------------------------------------------------------------------
(* PlaylistModel::next and previous, which shuffle as they go.               *)

\* The order that next and previous look at.
Shuffled == IF shuffled /\ list # <<>> /\ Rows(order) # Rows(list) THEN seed[Rows(list)] ELSE order

Neighbour(step) ==
    LET n  == Rows(list)
        at == {i \in DOMAIN Shuffled : Shuffled[i] = loaded}
        i  == CHOOSE i \in at : TRUE
    IN  IF n = 0 THEN -1
        ELSE IF ~shuffled
        THEN IF repeat /\ step = 1 /\ loaded >= n - 1 THEN 0
             ELSE IF repeat /\ step = -1 /\ loaded <= 0 THEN n - 1
             ELSE loaded + step
        ELSE IF at = {} THEN Shuffled[1]
        ELSE IF i + step \in DOMAIN Shuffled THEN Shuffled[i + step]
        ELSE IF ~repeat THEN -1
        ELSE seed[n][IF step = 1 THEN 1 ELSE n]

NextOffByOne == IF ~shuffled /\ loaded = 0 THEN 0 ELSE Neighbour(1)
NextSkipsFirst == IF repeat /\ Neighbour(1) = 0 THEN 1 ELSE Neighbour(1)
NextRow == Neighbour(1)
PreviousRow == Neighbour(-1)

-----------------------------------------------------------------------------
(* What the user asks for.                                                   *)

Request == requests < MaxRequests /\ requests' = requests + 1 /\ Asked
Settings == <<shuffled, repeat, seed>>

\* load(mrl) after the playlist has become l with the loaded row at row.
LoadIn(l, row, m) == list' = l /\ loaded' = Marked(l, row, m) /\ PlayMrl(m)
Idle == UNCHANGED <<mrl, playing, phase, stopping, pending, quitting>>

\* openMrl: a medium outside of the playlist brings a playlist of its own.
OpenMrl(m) ==
    IF m = mrl
    THEN IF running THEN Idle /\ UNCHANGED <<list, loaded>> ELSE LoadIn(list, loaded, m)
    ELSE IF FirstRow(list, m) # -1 THEN LoadIn(list, loaded, m)
    ELSE \E l \in Lists : LoadIn(l, -1, m)

Open == /\ Request
        /\ \E m \in Mrls : OpenMrl(m)
        /\ UNCHANGED <<Settings, order>>

\* PlaylistModel::play of a row, of next() and of previous().
PlayRow(r) == IF ValidRow(list, r) THEN OpenMrl(list[r + 1])
              ELSE Idle /\ UNCHANGED <<list, loaded>>

Play == /\ Request
        /\ \/ \E r \in 0 .. Rows(list) - 1 : PlayRow(r) /\ UNCHANGED order
           \/ PlayRow(NextRow) /\ order' = Shuffled
           \/ PlayRow(PreviousRow) /\ order' = Shuffled
        /\ UNCHANGED Settings

Ascending(S) == {p \in [1 .. Cardinality(S) -> S] :
                    \A i, j \in 1 .. Cardinality(S) : i < j => p[i] < p[j]}

\* The loop of openWith appends each entry that the list does not contain by then: the
\* set of the one list it makes.
Extended(l, more) ==
    {l \o [k \in DOMAIN p |-> more[p[k]]] :
        p \in Ascending({i \in DOMAIN more : /\ more[i] \notin Range(l)
                                             /\ \A j \in 1 .. i - 1 : more[j] # more[i]})}

\* openWith: what is new goes to the end, after clearing or not; the first is played,
\* or only chosen.  A playlist generated for the medium need not begin with it.  A
\* current medium that is paused is loaded again.
OpenWith ==
    /\ Request
    /\ \E l \in Lists, clear \in BOOLEAN, play \in BOOLEAN : \E m \in Range(l) :
       \E all \in Extended(IF clear THEN <<>> ELSE list, l) :
              /\ m = l[1] \/ clear
              /\ Rows(all) <= MaxRows
              /\ IF m = mrl
                 THEN /\ UNCHANGED <<list, loaded>>
                      /\ \/ running /\ Idle
                         \/ PlayMrl(m)
                 ELSE /\ list' = all /\ loaded' = Marked(all, -1, m)
                      /\ IF play THEN PlayMrl(m) ELSE ChooseMrl(m)
    /\ UNCHANGED <<Settings, order>>

\* A playlist file is opened or downloaded, or the playlist is cleared: nothing plays.
OpenList ==
    /\ Request
    /\ \E l \in Lists \cup {<<>>} : SetList(l, -1)
    /\ Idle /\ UNCHANGED <<Settings, order>>

\* openDir
OpenDir ==
    /\ Request
    /\ \E l \in Lists : l # <<>> /\ LoadIn(l, -1, l[1])
    /\ UNCHANGED <<Settings, order>>

\* Tool > Playlist > Regenerate, with an explicit setLoaded.
Regenerate ==
    /\ Request
    /\ \E l \in Lists : SetList(l, FirstRow(l, mrl))
    /\ Idle /\ UNCHANGED <<Settings, order>>

AppendList ==
    /\ Request
    /\ \E l \in Lists :
          /\ Rows(list) + Rows(l) <= MaxRows
          /\ SetList(list \o l, loaded)
    /\ Idle /\ UNCHANGED <<Settings, order>>

RemoveRow ==
    /\ Request
    /\ \E r \in 0 .. Rows(list) - 1 : SetList(RemoveAt(list, r + 1), RowRemoved(r))
    /\ Idle /\ UNCHANGED <<Settings, order>>

\* Move up and down.
Swap ==
    /\ Request
    /\ \E r \in 0 .. Rows(list) - 2 :
          SetList([list EXCEPT ![r + 1] = list[r + 2], ![r + 2] = list[r + 1]],
                  RowSwapped(r, r + 1))
    /\ Idle /\ UNCHANGED <<Settings, order>>

Toggle ==
    /\ Request
    /\ \/ shuffled' = ~shuffled /\ UNCHANGED repeat
       \/ repeat' = ~repeat /\ UNCHANGED shuffled
    /\ Idle /\ UNCHANGED <<list, loaded, order, seed>>

\* togglePlayStop
StopOrPlay ==
    /\ Request
    /\ IF running THEN Replace(NoMrl) /\ UNCHANGED mrl
       ELSE mrl # NoMrl /\ PlayMrl(mrl)
    /\ UNCHANGED model

User == Open \/ Play \/ OpenWith \/ OpenList \/ OpenDir \/ Regenerate \/ AppendList
          \/ RemoveRow \/ Swap \/ Toggle \/ StopOrPlay

-----------------------------------------------------------------------------
(* The reports of the player.                                                *)

Started == /\ Told(Running)
           /\ UNCHANGED <<mrl, playing, phase, stopping, pending, quitting, model, requests>>

\* finished(mrl, false), and finished(mrl, true) with nothing to play next.
Finished ==
    /\ \/ Told(Over("error")) /\ UNCHANGED order
       \/ Told(Over("stop")) /\ UNCHANGED order
       \/ Told(Over("eof")) /\ ListAt(list, NextRow) = NoMrl /\ order' = Shuffled
    /\ Idle /\ UNCHANGED <<list, loaded, Settings, requests>>

\* finished(mrl, true): on to the next entry, whatever file the report is about.
Advance ==
    /\ Told(Over("eof"))
    /\ ListAt(list, NextRow) # NoMrl
    /\ LoadIn(list, loaded, ListAt(list, NextRow)) /\ order' = Shuffled
    /\ UNCHANGED <<Settings, requests>>

Next == \/ User \/ Started \/ Finished \/ Advance
        \/ Core /\ UNCHANGED <<model, requests>>

Spec == Init /\ [][Next]_vars

\* The GUI thread handles its reports; libmpv plays on, and media have an end.
FairSpec == Spec /\ WF_vars(Started \/ Finished \/ Advance)
                 /\ WF_vars(Core /\ UNCHANGED <<model, requests>>)

-----------------------------------------------------------------------------
(* Properties.                                                               *)

\* The row shown as loaded holds the current medium, through every edit of the list.
LoadedIsCurrent == loaded # -1 => list[loaded + 1] = mrl

NoDuplicates == Cardinality(Range(list)) = Rows(list)
Silent       == phase = "idle" /\ pending = NoMrl /\ posted = <<>>

\* Once the user leaves a playlist alone that knows its loaded row, it plays to its end
\* ("Add auto-exit and auto-shutdown when playlist finished", CHANGES.txt).
FinishesFromLoaded ==
    <>[](loaded # -1 /\ ~repeat /\ NoDuplicates) => <>[]Silent

\* ... and one that repeats goes on to play every entry, shuffled or not, unless a file
\* fails or the user has stopped.
RepeatPlaysAll ==
    <>[](loaded # -1 /\ repeat /\ NoDuplicates)
        => (<>[]Silent \/ \A m \in Mrls : <>[](m \in Range(list)) => []<>(mrl = m))

\* The same end is reached whether the loaded row is known or not.
PlaylistFinishes == <>[](~repeat /\ NoDuplicates) => <>[]Silent
=============================================================================

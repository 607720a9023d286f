--------------------------- MODULE ZoneeventProofs ---------------------------
(***************************************************************************)
(* Proofs about ZoneeventWatcher: its type invariant, that nothing but     *)
(* stop() kills a child, that what it reports is what the contract of      *)
(* Watchers allows, and that the listener knows whether each zone runs     *)
(* unless a change was lost.                                               *)
(***************************************************************************)
EXTENDS ZoneeventWatcher, VmWatcherProofs, FiniteSetTheorems

ChildRecord == [phase : {"none", "spawned", "listening"}, killed : BOOLEAN, onExit : BOOLEAN]

Alive(children) == {c \in Child : children[c].phase # "none"}

\* The child that is neither killed nor gone is the one that the watcher reads from
\* and whose exit it waits for.
OneChild ==
    /\ stopped <=> watcher = NoWatcher
    /\ \A c \in Child :
          /\ c = watcher <=> child[c].onExit
          /\ c = watcher <=> child[c].phase # "none" /\ ~child[c].killed

\* Each start() adds one child; so there is a slot for the next.
FewChildren == Cardinality(Alive(child)) <= starts

ZoneInv ==
    /\ WatcherInv
    /\ {stopped, looked} \subseteq BOOLEAN
    /\ starts \in 0..MaxStarts
    /\ read \in [VM -> 1..MaxVer] /\ (\A v \in VM : read[v] <= Len(cn[v]))
    /\ first \in [VM -> 0..MaxVer] /\ lost \subseteq VM
    /\ child \in [Child -> ChildRecord]
    /\ watcher \in Child \cup {NoWatcher}
    /\ OneChild
    /\ FewChildren

LEMMA ChildFacts ==
    /\ MaxStarts \in Nat \ {0}
    /\ NoWatcher \notin Child
    /\ IsFiniteSet(Child) /\ Cardinality(Child) = MaxStarts
    /\ NoChild \in ChildRecord /\ NewChild \in ChildRecord
<1>1. MaxStarts \in Nat \ {0}
    BY StartsAssumption
<1>2. IsFiniteSet(1..MaxStarts) /\ Cardinality(1..MaxStarts) = MaxStarts
    BY <1>1, FS_Interval
<1> QED
    BY <1>1, <1>2 DEF NoWatcher, Child, NoChild, NewChild, ChildRecord

LEMMA AliveFinite ==
    ASSUME NEW children
    PROVE  IsFiniteSet(Alive(children)) /\ Cardinality(Alive(children)) \in Nat
<1>1. Alive(children) \subseteq Child
    BY DEF Alive
<1> QED
    BY <1>1, ChildFacts, FS_Subset, FS_CardinalityType

LEMMA ZoneInvType == ZoneInv => ZoneTypeOK
BY WatcherInvType, Bounds DEF ZoneInv, ZoneTypeOK, OneChild, ChildRecord

LEMMA ZoneInit == Init => ZoneInv
<1> SUFFICES ASSUME Init PROVE ZoneInv
    OBVIOUS
<1>1. WatcherInv
    BY WatcherInit DEF Init
<1>2. \A v \in VM : 1 <= Len(cn[v])
    BY <1>1, Bounds DEF WatcherInv
<1>3. read \in [VM -> 1..MaxVer] /\ first \in [VM -> 0..MaxVer] /\ (\A v \in VM : read[v] <= Len(cn[v]))
    BY <1>2, Bounds DEF Init
<1>4. child \in [Child -> ChildRecord] /\ \A c \in Child : child[c] = NoChild
    BY ChildFacts DEF Init
<1>5. OneChild
    BY <1>4, ChildFacts DEF Init, OneChild, NoChild
<1>6. Alive(child) = {}
    BY <1>4 DEF Alive, NoChild
<1>7. FewChildren
    BY <1>6, FS_EmptySet DEF Init, FewChildren
<1>8. starts \in 0..MaxStarts /\ lost \subseteq VM
    BY ChildFacts DEF Init
<1>9. {stopped, looked} \subseteq BOOLEAN
    BY Zenon DEF Init
<1>10. watcher \in Child \cup {NoWatcher}
    BY DEF Init
<1> QED
    BY <1>1, <1>3, <1>4, <1>5, <1>7, <1>8, <1>9, <1>10 DEF ZoneInv

\* What is read of the lines are versions, whatever happens on the CN.
LEMMA ReadStays ==
    ASSUME ZoneInv, \/ UNCHANGED cn
                    \/ \E v \in VM : CnChange(v)
    PROVE  \A v \in VM : read[v] <= Len(cn'[v])
<1>1. \A v \in VM : Len(cn[v]) <= Len(cn'[v]) /\ Len(cn[v]) \in 1..MaxVer /\ Len(cn'[v]) \in 1..MaxVer
    BY CnChangeKeeps DEF ZoneInv, WatcherInv
<1>2. \A v \in VM : read[v] \in 1..MaxVer /\ read[v] <= Len(cn[v])
    BY DEF ZoneInv
<1> QED
    BY <1>1, <1>2, Bounds

\* start() puts a new child in a free slot.
LEMMA StartKeeps ==
    ASSUME ZoneInv, Start
    PROVE  /\ child' \in [Child -> ChildRecord] /\ watcher' \in Child
           /\ OneChild' /\ FewChildren'
           /\ child[watcher'].phase = "none" /\ child' = [child EXCEPT ![watcher'] = NewChild]
<1> DEFINE s == Slot(child)
<1>1. starts < MaxStarts /\ starts \in 0..MaxStarts /\ starts' = starts + 1
    BY DEF Start, ZoneInv
<1>2. \E c \in Child : child[c].phase = "none"
    <2>1. SUFFICES ASSUME \A c \in Child : child[c].phase # "none" PROVE FALSE
        OBVIOUS
    <2>2. Alive(child) = Child
        BY <2>1 DEF Alive
    <2> QED
        BY <1>1, <2>2, ChildFacts DEF ZoneInv, FewChildren
<1>3. s \in Child /\ child[s].phase = "none"
    BY <1>2 DEF Slot
<1>4. watcher' = s /\ child' = [child EXCEPT ![s] = NewChild] /\ stopped = TRUE /\ stopped' = FALSE
    BY DEF Start, ZoneInv
<1> HIDE DEF s
<1>5. child' \in [Child -> ChildRecord] /\ watcher' \in Child
    BY <1>3, <1>4, ChildFacts DEF ZoneInv
<1>6. \A c \in Child : child'[c] = IF c = s THEN NewChild ELSE child[c]
    BY <1>3, <1>4 DEF ZoneInv
<1>7. OneChild'
    <2>1. watcher = NoWatcher /\ \A c \in Child : ~child[c].onExit /\ ~(child[c].phase # "none" /\ ~child[c].killed)
        BY <1>4, ChildFacts DEF ZoneInv, OneChild
    <2> QED
        BY <1>3, <1>4, <1>6, <2>1, ChildFacts DEF OneChild, NewChild
<1>8. Alive(child') = Alive(child) \cup {s}
    BY <1>3, <1>6 DEF Alive, NewChild
<1>9. Cardinality(Alive(child')) = Cardinality(Alive(child)) + 1
    <2>1. s \notin Alive(child)
        BY <1>3 DEF Alive
    <2> QED
        BY <1>8, <2>1, AliveFinite, FS_AddElement
<1>10. FewChildren'
    BY <1>1, <1>9, AliveFinite DEF ZoneInv, FewChildren
<1> QED
    BY <1>3, <1>4, <1>5, <1>7, <1>10

LEMMA StopKeeps ==
    ASSUME ZoneInv, Stop
    PROVE  /\ child' \in [Child -> ChildRecord]
           /\ OneChild' /\ FewChildren'
<1>1. stopped' = TRUE /\ watcher' = NoWatcher /\ starts' = starts
    BY DEF Stop
<1>2. \A c \in Child : child'[c] = IF c = watcher /\ child[c] # NoChild
                                   THEN [child[c] EXCEPT !.killed = TRUE, !.onExit = FALSE] ELSE child[c]
    BY DEF Stop, Reset
<1>3. child' = [c \in Child |-> child'[c]]
    BY DEF Stop, Reset
<1>4. \A c \in Child : child[c] \in ChildRecord
    BY DEF ZoneInv
<1>5. \A c \in Child : child'[c] \in ChildRecord /\ child'[c].phase = child[c].phase
    BY <1>2, <1>4 DEF ChildRecord
<1>6. OneChild'
    <2>1. SUFFICES ASSUME NEW c \in Child
                   PROVE  ~child'[c].onExit /\ ~(child'[c].phase # "none" /\ ~child'[c].killed)
        BY <1>1, ChildFacts DEF OneChild
    <2>2. CASE c = watcher
        <3>1. child[c].phase # "none"
            BY <2>2 DEF ZoneInv, OneChild
        <3>2. child[c] # NoChild
            BY <3>1 DEF NoChild
        <3>3. child'[c] = [child[c] EXCEPT !.killed = TRUE, !.onExit = FALSE]
            BY <1>2, <2>2, <3>2
        <3> QED
            BY <1>4, <3>3 DEF ChildRecord
    <2>3. CASE c # watcher
        BY <1>2, <2>3 DEF ZoneInv, OneChild
    <2> QED
        BY <2>2, <2>3
<1>7. Alive(child') = Alive(child)
    BY <1>5 DEF Alive
<1> QED
    BY <1>1, <1>3, <1>5, <1>6, <1>7 DEF ZoneInv, FewChildren

\* A child that ends is replaced by one in its slot or another free one, if it was the
\* one the watcher waited for.
LEMMA ExitsKeeps ==
    ASSUME ZoneInv, NEW c \in Child, Exits(c)
    PROVE  /\ child' \in [Child -> ChildRecord] /\ watcher' \in Child \cup {NoWatcher}
           /\ OneChild' /\ FewChildren'
           /\ \A d \in Child : child'[d] \in {child[d], NoChild, NewChild}
           /\ c = watcher => child'[watcher'].phase = "spawned"
           /\ c # watcher => watcher' = watcher /\ child' = [child EXCEPT ![c] = NoChild]
<1> DEFINE gone == [child EXCEPT ![c] = NoChild]
<1>1. child[c].phase # "none" /\ UNCHANGED <<stopped, starts>>
    BY DEF Exits
<1>2. gone \in [Child -> ChildRecord] /\ \A d \in Child : gone[d] = IF d = c THEN NoChild ELSE child[d]
    BY ChildFacts DEF ZoneInv
<1>3. Alive(gone) = Alive(child) \ {c} /\ c \in Alive(child)
    BY <1>1, <1>2 DEF Alive, NoChild
<1>4. Cardinality(Alive(gone)) = Cardinality(Alive(child)) - 1
    BY <1>3, AliveFinite, FS_RemoveElement
<1>5. Cardinality(Alive(child)) <= starts /\ starts \in Nat
    BY DEF ZoneInv, FewChildren
<1>6. CASE child[c].onExit /\ ~stopped
    <2> DEFINE s == Slot(gone)
    <2>1. c = watcher
        BY <1>6 DEF ZoneInv, OneChild
    <2>2. Reset(gone) = gone
        BY <1>2, <2>1 DEF Reset
    <2>3. watcher' = s /\ child' = [gone EXCEPT ![s] = NewChild]
        BY <1>6, <2>2 DEF Exits
    <2>4. gone[c].phase = "none"
        BY <1>2 DEF NoChild
    <2> HIDE DEF gone
    <2>5. s \in Child /\ gone[s].phase = "none"
        BY <2>4 DEF Slot
    <2> HIDE DEF s
    <2>6. \A d \in Child : child'[d] = IF d = s THEN NewChild ELSE gone[d]
        BY <1>2, <2>3, <2>5
    <2>7. child' \in [Child -> ChildRecord]
        BY <1>2, <2>3, <2>5, ChildFacts
    <2>8. OneChild'
        <3>1. \A d \in Child : d # c => ~child[d].onExit /\ ~(child[d].phase # "none" /\ ~child[d].killed)
            BY <2>1 DEF ZoneInv, OneChild
        <3>2. \A d \in Child : ~gone[d].onExit /\ ~(gone[d].phase # "none" /\ ~gone[d].killed)
            BY <1>2, <3>1 DEF NoChild
        <3> QED
            BY <1>1, <1>6, <2>3, <2>5, <2>6, <3>2, ChildFacts DEF OneChild, NewChild
    <2>9. Alive(child') = Alive(gone) \cup {s} /\ s \notin Alive(gone)
        BY <2>5, <2>6 DEF Alive, NewChild
    <2>10. Cardinality(Alive(child')) = Cardinality(Alive(gone)) + 1
        BY <2>9, AliveFinite, FS_AddElement
    <2>11. FewChildren'
        BY <1>1, <1>4, <1>5, <2>10, AliveFinite DEF FewChildren
    <2>12. \A d \in Child : child'[d] \in {child[d], NoChild, NewChild}
        BY <1>2, <2>6
    <2>13. child'[watcher'].phase = "spawned"
        BY <2>3, <2>5, <2>6 DEF NewChild
    <2> QED
        BY <2>1, <2>3, <2>5, <2>7, <2>8, <2>11, <2>12, <2>13
<1>7. CASE ~(child[c].onExit /\ ~stopped)
    <2>1. child' = gone /\ watcher' = watcher
        BY <1>7 DEF Exits
    <2>2. c # watcher
        BY <1>7, ChildFacts DEF ZoneInv, OneChild
    <2> HIDE DEF gone
    <2>3. OneChild'
        BY <1>1, <1>2, <2>1, <2>2 DEF ZoneInv, OneChild, NoChild
    <2>4. FewChildren'
        BY <1>1, <1>4, <1>5, <2>1, AliveFinite DEF FewChildren
    <2> QED
        BY <1>2, <2>1, <2>2, <2>3, <2>4 DEF ZoneInv, gone
<1> QED
    BY <1>6, <1>7

LEMMA ListensKeeps ==
    ASSUME ZoneInv, NEW c \in Child, Listens(c)
    PROVE  /\ child' \in [Child -> ChildRecord]
           /\ OneChild' /\ FewChildren'
           /\ \A d \in Child : /\ child'[d].killed = child[d].killed
                               /\ d # c => child'[d] = child[d]
           /\ child'[c].phase = "listening"
<1>1. child' = [child EXCEPT ![c].phase = "listening"] /\ child[c].phase = "spawned"
    BY DEF Listens
<1>2. child[c] \in ChildRecord
    BY DEF ZoneInv
<1>3. child'[c] = [child[c] EXCEPT !.phase = "listening"] /\ \A d \in Child : d # c => child'[d] = child[d]
    BY <1>1 DEF ZoneInv
<1>4. /\ child'[c] \in ChildRecord /\ child'[c].phase = "listening"
      /\ child'[c].killed = child[c].killed /\ child'[c].onExit = child[c].onExit
    BY <1>2, <1>3 DEF ChildRecord
<1>5. child' \in [Child -> ChildRecord]
    BY <1>1, <1>3, <1>4 DEF ZoneInv
<1>6. Alive(child') = Alive(child)
    BY <1>1, <1>3, <1>4 DEF Alive
<1>7. OneChild'
    BY <1>1, <1>3, <1>4 DEF Listens, ZoneInv, OneChild
<1> QED
    BY <1>3, <1>4, <1>5, <1>6, <1>7 DEF Listens, ZoneInv, FewChildren

LEMMA SameChildren ==
    ASSUME ZoneInv, UNCHANGED <<stopped, watcher, child, starts>>
    PROVE  OneChild' /\ FewChildren'
BY DEF ZoneInv, OneChild, FewChildren

LEMMA NowTyped == ZoneInv => [v \in VM |-> Len(cn[v])] \in [VM -> 1..MaxVer]
BY DEF ZoneInv, WatcherInv

LEMMA ZoneStep == ZoneInv /\ [Next]_vars => ZoneInv'
<1> SUFFICES ASSUME ZoneInv, [Next]_vars PROVE ZoneInv'
    OBVIOUS
<1>1. ASSUME NEW v \in VM, CnChange(v), UNCHANGED <<knownVms, emits, told, zoneVars>>
      PROVE  ZoneInv'
    <2>1. WatcherInv'
        BY <1>1, CnChangeInv DEF ZoneInv
    <2> QED
        BY <1>1, <2>1, ReadStays, SameChildren DEF ZoneInv, zoneVars
<1>2. ASSUME NEW v \in VM, EmitImmediately(v), UNCHANGED zoneVars
      PROVE  ZoneInv'
    <2>1. WatcherInv' /\ UNCHANGED cn
        BY <1>2, EmitInv DEF EmitImmediately, ZoneInv
    <2> QED
        BY <1>2, <2>1, SameChildren DEF ZoneInv, zoneVars
<1>3. ASSUME NEW v \in VM, ReadLine(v) PROVE ZoneInv'
    <2>1. /\ UpdateHandler("zoneevent", [u \in VM |-> cn[u][read[u]]], [u \in VM |-> cn[u][read'[u]]])
          /\ UNCHANGED <<cn, told>>
        BY <1>3 DEF ReadLine
    <2>2. WatcherInv'
        BY <2>1, ReportInv DEF ZoneInv
    <2>3. read[v] < Len(cn[v]) /\ Len(cn[v]) \in 1..MaxVer /\ read[v] \in 1..MaxVer
        BY <1>3 DEF ReadLine, ZoneInv, WatcherInv
    <2>4. read' = [read EXCEPT ![v] = read[v] + 1] /\ read[v] + 1 \in 1..MaxVer /\ read[v] + 1 <= Len(cn[v])
        BY <1>3, <2>3, Bounds DEF ReadLine
    <2>5. read' \in [VM -> 1..MaxVer] /\ \A u \in VM : read'[u] <= Len(cn[u])
        BY <2>4 DEF ZoneInv
    <2>6. lost' \subseteq VM
        BY <1>3 DEF ReadLine, ZoneInv
    <2> QED
        BY <1>3, <2>1, <2>2, <2>5, <2>6, SameChildren DEF ZoneInv, ReadLine
<1>4. ASSUME Start PROVE ZoneInv'
    <2>1. WatcherInv' /\ UNCHANGED <<cn, first, lost>>
        BY <1>4, StutterInv DEF Start, watcherVars, ZoneInv
    <2>2. read' \in [VM -> 1..MaxVer] /\ \A v \in VM : read'[v] <= Len(cn[v])
        BY <1>4, NowTyped DEF Start, ZoneInv
    <2>3. stopped' \in BOOLEAN /\ looked' \in BOOLEAN
        BY <1>4, Zenon DEF Start
    <2>4. starts < MaxStarts /\ starts' = starts + 1
        BY <1>4 DEF Start
    <2>5. starts' \in 0..MaxStarts
        BY <2>4, ChildFacts DEF ZoneInv
    <2> QED
        BY <1>4, <2>1, <2>2, <2>3, <2>5, StartKeeps DEF ZoneInv
<1>5. ASSUME Stop PROVE ZoneInv'
    <2>1. WatcherInv' /\ UNCHANGED <<cn, starts, read, first, lost, looked>>
        BY <1>5, StutterInv DEF Stop, watcherVars, ZoneInv
    <2> QED
        BY <1>5, <2>1, StopKeeps DEF ZoneInv, Stop
<1>6. ASSUME AgentLooks PROVE ZoneInv'
    <2>1. WatcherInv' /\ UNCHANGED cn
        BY <1>6, LooksInv DEF AgentLooks, ListenerLooks, ZoneInv
    <2> QED
        BY <1>6, <2>1, SameChildren DEF ZoneInv, AgentLooks
<1>7. ASSUME NEW c \in Child, Exits(c) PROVE ZoneInv'
    <2>1. WatcherInv' /\ UNCHANGED <<cn, stopped, starts, read, first, lost, looked>>
        BY <1>7, StutterInv DEF Exits, watcherVars, ZoneInv
    <2>2. \A v \in VM : read'[v] <= Len(cn'[v])
        BY <2>1 DEF ZoneInv
    <2>3. /\ child' \in [Child -> ChildRecord] /\ watcher' \in Child \cup {NoWatcher}
          /\ OneChild' /\ FewChildren'
        BY <1>7, ExitsKeeps
    <2> QED
        BY <2>1, <2>2, <2>3 DEF ZoneInv
<1>8. ASSUME NEW c \in Child, Listens(c) PROVE ZoneInv'
    <2>1. WatcherInv' /\ UNCHANGED <<cn, stopped, watcher, starts, looked>>
        BY <1>8, StutterInv DEF Listens, watcherVars, ZoneInv
    <2>2. /\ read' \in [VM -> 1..MaxVer] /\ (\A v \in VM : read'[v] <= Len(cn[v]))
          /\ first' \in [VM -> 0..MaxVer] /\ lost' \subseteq VM
        <3>1. CASE c = watcher
            <4> DEFINE now == [v \in VM |-> Len(cn[v])]
            <4>1. read' = now /\ first' = now
                BY <1>8, <3>1 DEF Listens
            <4>2. now \in [VM -> 1..MaxVer] /\ now \in [VM -> 0..MaxVer] /\ \A v \in VM : now[v] <= Len(cn[v])
                BY NowTyped, Bounds DEF ZoneInv, WatcherInv
            <4>3. lost' \subseteq VM
                BY <1>8, <3>1 DEF Listens, ZoneInv
            <4> HIDE DEF now
            <4> QED
                BY <4>1, <4>2, <4>3
        <3>2. CASE c # watcher
            BY <1>8, <3>2 DEF Listens, ZoneInv
        <3> QED
            BY <3>1, <3>2
    <2> QED
        BY <1>8, <2>1, <2>2, ListensKeeps DEF ZoneInv
<1>9. CASE UNCHANGED vars
    <2>1. WatcherInv' /\ UNCHANGED cn
        BY <1>9, StutterInv DEF vars, watcherVars, ZoneInv
    <2> QED
        BY <1>9, <2>1, SameChildren DEF vars, zoneVars, ZoneInv
<1> QED
    BY <1>1, <1>2, <1>3, <1>4, <1>5, <1>6, <1>7, <1>8, <1>9 DEF Next

\* ZoneTypeOK holds always: a started watcher has one child, which it reads from and
\* whose exit it waits for (lib/watchers/zoneevent-watcher.js:156-193).
THEOREM ZoneTyped == Spec => []ZoneTypeOK
BY ZoneInit, ZoneStep, ZoneInvType, PTL DEF Spec

-----------------------------------------------------------------------------
LEMMA KillStep ==
    ASSUME ZoneInv, [Next]_vars, NEW c \in Child, ~child[c].killed, child'[c].killed
    PROVE  ~stopped /\ stopped'
<1>1. CASE Stop
    BY <1>1 DEF Stop
<1>2. CASE Start
    <2>1. child' = [child EXCEPT ![watcher'] = NewChild] /\ child \in [Child -> ChildRecord]
        BY <1>2, StartKeeps DEF ZoneInv
    <2> QED
        BY <2>1 DEF NewChild
<1>3. ASSUME NEW d \in Child, Exits(d) PROVE FALSE
    <2>1. child'[c] \in {child[c], NoChild, NewChild}
        BY <1>3, ExitsKeeps
    <2> QED
        BY <2>1 DEF NoChild, NewChild
<1>4. ASSUME NEW d \in Child, Listens(d) PROVE FALSE
    BY <1>4, ListensKeeps
<1>5. CASE UNCHANGED child
    BY <1>5
<1>6. \/ Stop \/ Start \/ UNCHANGED child
      \/ \E d \in Child : Exits(d) \/ Listens(d)
    BY DEF Next, vars, zoneVars, AgentLooks, ReadLine
<1> QED
    BY <1>1, <1>2, <1>3, <1>4, <1>5, <1>6

\* OnlyStopKills: the end of a child that was reset earlier does not kill the one that
\* replaced it (lib/watchers/zoneevent-watcher.js:182-193).
THEOREM StopKills == Spec => OnlyStopKills
<1>1. ZoneInv /\ [Next]_vars =>
        [(\E c \in Child : ~child[c].killed /\ child'[c].killed) => ~stopped /\ stopped']_vars
    BY KillStep
<1> QED
    BY <1>1, ZoneInit, ZoneStep, PTL DEF Spec, OnlyStopKills

-----------------------------------------------------------------------------
\* What Watchers means by a report is what this module means by it.
LEMMA SameChange ==
    ASSUME NEW k, NEW w, NEW old, NEW new
    PROVE  W!DispatchChange(k, w, old, new) = DispatchChange(k, w, old, new)
<1>1. \A o : W!Seen(w, o) = Seen(w, o) /\ W!ZoneView(o) = ZoneView(o)
    BY DEF W!Seen, Seen, W!FsView, FsView, W!ZoneView, ZoneView, W!VmadmView, VmadmView,
           W!ZoneRunning, ZoneRunning, W!Seconds, Seconds
<1>2. \A a, b : W!Updated(a, b) = Updated(a, b)
    BY DEF W!Updated, Updated, W!Refused, Refused, W!Rounded, Rounded, W!Has, Has
<1>3. \A a, b : W!UpdateIfNewer(a, b) = UpdateIfNewer(a, b)
    BY <1>2 DEF W!UpdateIfNewer, UpdateIfNewer
<1>4. \A o : W!DispatchCreate(k, o) = DispatchCreate(k, o)
    BY <1>3 DEF W!DispatchCreate, DispatchCreate, W!News, News, W!Silently, Silently, W!Entry, Entry
<1>5. \A o : W!DispatchModify(k, o, w) = DispatchModify(k, o, w)
    BY <1>2, <1>3 DEF W!DispatchModify, DispatchModify, W!News, News, W!Silently, Silently,
                      W!Entry, Entry, W!Has, Has, W!Without, Without
<1>6. W!DispatchDelete(k) = DispatchDelete(k) /\ W!NoReport(k) = NoReport(k)
    BY DEF W!DispatchDelete, DispatchDelete, W!NoReport, NoReport, W!News, News, W!Silently, Silently
<1>7. W!Modified(w, old, new) = Modified(w, old, new)
    BY <1>1 DEF W!Modified, Modified
<1> QED
    BY <1>1, <1>4, <1>5, <1>6, <1>7 DEF W!DispatchChange, DispatchChange

LEMMA SameReport ==
    ASSUME NEW w, NEW from, NEW to
    PROVE  W!UpdateHandler(w, from, to) <=> UpdateHandler(w, from, to)
BY SameChange DEF W!UpdateHandler, UpdateHandler

LEMMA SameCnChange ==
    ASSUME NEW v
    PROVE  W!CnChange(v) <=> CnChange(v)
<1>1. \A S : W!Cardinality(S) = Cardinality(S)
    BY Zenon DEF W!Cardinality, Cardinality
<1>2. W!Last(v) = Last(v) /\ W!Later(v) = Later(v) /\ W!NewQuota(v) = NewQuota(v)
    BY DEF W!Last, Last, W!Later, Later, W!NewQuota, NewQuota
<1>3. \A o : W!Becomes(v, o) <=> Becomes(v, o)
    BY DEF W!Becomes, Becomes
<1>4. W!FirstStates = FirstStates
    BY DEF W!FirstStates, FirstStates, W!Lasting, Lasting
<1>5. W!Creations(v) = Creations(v)
    BY <1>1 DEF W!Creations, Creations
<1>6. W!Created(v) <=> Created(v)
    BY <1>2, <1>3, <1>4, <1>5 DEF W!Created, Created
<1>7. W!Configured(v) <=> Configured(v)
    BY <1>2, <1>3 DEF W!Configured, Configured
<1>8. /\ W!Halted(v) <=> Halted(v)
      /\ W!Booted(v) <=> Booted(v)
      /\ W!QuotaSet(v) <=> QuotaSet(v)
      /\ W!Deleted(v) <=> Deleted(v)
    BY <1>2, <1>3 DEF W!Halted, Halted, W!Booted, Booted, W!QuotaSet, QuotaSet, W!Deleted, Deleted
<1> QED
    BY <1>6, <1>7, <1>8 DEF W!CnChange, CnChange

LEMMA RefinesInit == Init => W!Init
<1> SUFFICES ASSUME Init PROVE W!Init
    OBVIOUS
<1>1. ~Listening
    BY DEF Init, Listening
<1> QED
    BY <1>1 DEF Init, W!Init, VmWatcherInit, W!VmWatcherInit, W!Lasting, Lasting, W!NoEntry, NoEntry,
            W!Unseen

\* Steps that the contract does not see.
LEMMA NothingSeen ==
    ASSUME UNCHANGED <<watcherVars, read, first>>, Listening' <=> Listening
    PROVE  UNCHANGED W!vars
BY DEF W!vars, W!watcherVars, watcherVars

\* A watcher that listens no more has forgotten what it saw.
LEMMA Forgets ==
    ASSUME UNCHANGED <<watcherVars, first>>, ~Listening'
    PROVE  W!Forget("zoneevent")
BY DEF W!Forget, W!watcherVars, watcherVars, W!Unseen

LEMMA LineRefines ==
    ASSUME ZoneInv, NEW v \in VM, ReadLine(v)
    PROVE  W!Report("zoneevent")
<1>1. Listening /\ Listening' /\ read[v] < Len(cn[v])
    BY DEF ReadLine, Listening
<1>2. ZoneInv'
    BY ZoneStep DEF Next
<1>3. read' \in W!Looks("zoneevent")
    BY <1>2 DEF ZoneInv, W!Looks, ReadLine
<1>4. read # W!Unseen
    BY DEF ZoneInv, W!Unseen
<1>5. W!UpdateHandler("zoneevent", [u \in VM |-> cn[u][read[u]]], [u \in VM |-> cn[u][read'[u]]])
    BY SameReport DEF ReadLine
<1> QED
    BY <1>1, <1>3, <1>4, <1>5 DEF W!Report, ReadLine

LEMMA ListensRefines ==
    ASSUME ZoneInv, NEW c \in Child, Listens(c)
    PROVE  W!FirstLook("zoneevent") \/ UNCHANGED W!vars
<1>1. UNCHANGED watcherVars /\ watcher' = watcher /\ child[c].phase = "spawned"
    BY DEF Listens
<1>2. CASE c = watcher
    <2>1. ~Listening /\ Listening'
        BY <1>1, <1>2, ListensKeeps, ChildFacts DEF Listening
    <2>2. ZoneInv'
        BY ZoneStep DEF Next
    <2>3. read' \in W!Looks("zoneevent")
        BY <1>1, <2>2 DEF ZoneInv, W!Looks, watcherVars
    <2>4. first' = read'
        BY <1>2 DEF Listens
    <2>5. W!FirstLook("zoneevent")
        BY <1>1, <2>1, <2>3, <2>4 DEF W!FirstLook, W!watcherVars, watcherVars, W!Unseen
    <2> QED
        BY <2>5
<1>3. CASE c # watcher
    <2>1. UNCHANGED <<read, first>>
        BY <1>3 DEF Listens
    <2>2. Listening' <=> Listening
        BY <1>1, <1>3, ListensKeeps DEF Listening, ZoneInv, NoWatcher
    <2> QED
        BY <1>1, <2>1, <2>2, NothingSeen
<1> QED
    BY <1>2, <1>3

LEMMA RefinesStep == ZoneInv /\ [Next]_vars => [W!Next]_W!vars
<1> SUFFICES ASSUME ZoneInv, [Next]_vars PROVE W!Next \/ UNCHANGED W!vars
    OBVIOUS
<1>1. ASSUME NEW v \in VM, CnChange(v), UNCHANGED <<knownVms, emits, told, zoneVars>>
      PROVE  W!Next
    BY <1>1, SameCnChange DEF W!Next, zoneVars, Listening
<1>2. ASSUME NEW v \in VM, EmitImmediately(v), UNCHANGED zoneVars
      PROVE  W!Next
    BY <1>2 DEF W!Next, zoneVars, Listening, W!EmitImmediately, EmitImmediately
<1>3. ASSUME NEW v \in VM, ReadLine(v) PROVE W!Next
    BY <1>3, LineRefines DEF W!Next
<1>4. ASSUME Start PROVE W!Next
    <2>1. UNCHANGED <<watcherVars, first>>
        BY <1>4 DEF Start
    <2>2. ~Listening'
        BY <1>4, StartKeeps DEF Listening, NewChild, ZoneInv
    <2> QED
        BY <2>1, <2>2, Forgets DEF W!Next
<1>5. ASSUME Stop PROVE W!Next
    BY <1>5, Forgets DEF Stop, Listening, W!Next
<1>6. ASSUME AgentLooks PROVE W!Next
    BY <1>6 DEF AgentLooks, ListenerLooks, W!Next, W!Lookup, W!ListenerLooks, Listening
<1>7. ASSUME NEW c \in Child, Exits(c) PROVE W!Next \/ UNCHANGED W!vars
    <2>1. UNCHANGED <<watcherVars, read, first>>
        BY <1>7 DEF Exits
    <2>2. CASE c = watcher
        <3>1. ~Listening'
            BY <1>7, <2>2, ExitsKeeps DEF Listening
        <3> QED
            BY <2>1, <3>1, Forgets DEF W!Next
    <2>3. CASE c # watcher
        <3>1. watcher' = watcher /\ child' = [child EXCEPT ![c] = NoChild]
            BY <1>7, <2>3, ExitsKeeps
        <3>2. Listening' <=> Listening
            BY <2>3, <3>1 DEF Listening, ZoneInv
        <3> QED
            BY <2>1, <3>2, NothingSeen
    <2> QED
        BY <2>2, <2>3
<1>8. ASSUME NEW c \in Child, Listens(c) PROVE W!Next \/ UNCHANGED W!vars
    BY <1>8, ListensRefines DEF W!Next
<1>9. CASE UNCHANGED vars
    BY <1>9, NothingSeen DEF vars, zoneVars, Listening
<1> QED
    BY <1>1, <1>2, <1>3, <1>4, <1>5, <1>6, <1>7, <1>8, <1>9 DEF Next

\* ImplementsWatchers: however often its child is replaced, ZoneeventWatcher reports what
\* a watcher may report by the contract (lib/vm-watcher.js:17-30).
THEOREM ZoneeventImplements == Spec => ImplementsWatchers
BY ZoneInit, ZoneStep, RefinesInit, RefinesStep, PTL DEF Spec, W!Spec, ImplementsWatchers
-----------------------------------------------------------------------------
(***************************************************************************)
(* What the listener knows of the zones.                                   *)
(***************************************************************************)
\* Of every VM that is not lost knownVms has what the last line said, if anything.
Reported(v) == knownVms[v] \in {NoEntry, Entry(ZoneView(cn[v][read[v]]))}

\* The listener looked at v later than the lines that are read, or saw the same.
ToldOfLines(v) ==
    told[v] >= read[v] \/ ZoneView(cn[v][told[v]]) = ZoneView(cn[v][read[v]])

NewsInv ==
    /\ Versions(told)
    /\ \A v \in VM : knownVms[v] = NoEntry \/ \E o : knownVms[v] = Entry(ZoneView(o))
    /\ starts = 0 => stopped /\ \A v \in VM : knownVms[v] = NoEntry
    /\ \A v \in VM : v \notin lost => Reported(v)
    /\ \A v \in VM : looked /\ v \notin emits \cup lost => ToldOfLines(v)

\* A line is news unless it says what knownVms has.
LEMMA LineIsNews ==
    ASSUME NEW k, NEW o, k = NoEntry \/ \E p : k = Entry(ZoneView(p))
    PROVE  DispatchModify(k, ZoneView(o), "zoneevent") =
                IF k = Entry(ZoneView(o)) THEN Silently(k) ELSE News(Entry(ZoneView(o)))
<1> DEFINE z == ZoneView(o)
<1>1. /\ z = [f \in {"state", "zone_state"} |-> z["state"]] /\ DOMAIN z = {"state", "zone_state"}
      /\ z["state"] \in {"running", "stopped"} /\ z["zone_state"] = z["state"]
    BY DEF ZoneView
<1>2. ~Has(z, "last_modified")
    BY <1>1 DEF Has
<1> HIDE DEF z
<1>3. CASE k = NoEntry
    <2>1. k.fields = <<>> /\ ~k.destroyed /\ ~k.entry
        BY <1>3 DEF NoEntry
    <2>2. ~Has(<<>>, "state")
        BY DEF Has
    <2>3. Updated(<<>>, z) = {"state", "zone_state"}
        BY <1>1, <1>2 DEF Updated, Refused, Has
    <2>4. UpdateIfNewer(<<>>, z) = z
        BY <1>1, <2>3 DEF UpdateIfNewer
    <2>5. k # Entry(z)
        BY <2>1 DEF Entry
    <2> QED
        BY <2>1, <2>2, <2>3, <2>4, <2>5 DEF DispatchModify, z
<1>4. ASSUME NEW p, k = Entry(ZoneView(p)) PROVE
        DispatchModify(k, z, "zoneevent") = IF k = Entry(z) THEN Silently(k) ELSE News(Entry(z))
    <2> DEFINE y == ZoneView(p)
    <2>1. /\ y = [f \in {"state", "zone_state"} |-> y["state"]] /\ DOMAIN y = {"state", "zone_state"}
          /\ y["state"] \in {"running", "stopped"} /\ y["zone_state"] = y["state"]
        BY DEF ZoneView
    <2>2. k.fields = y /\ ~k.destroyed /\ k = Entry(y)
        BY <1>4 DEF Entry
    <2> HIDE DEF y
    <2>3. y["state"] # "provisioning"
        BY <2>1
    <2>4. Updated(y, z) = IF y["state"] = z["state"] THEN {} ELSE {"state", "zone_state"}
        BY <1>1, <1>2, <2>1 DEF Updated, Refused, Has
    <2>5. DispatchModify(k, z, "zoneevent") =
            IF Updated(y, z) # {} THEN News(Entry(UpdateIfNewer(y, z))) ELSE Silently(Entry(y))
        BY <2>2, <2>3 DEF DispatchModify
    <2>6. CASE y["state"] = z["state"]
        BY <1>1, <2>1, <2>2, <2>4, <2>5, <2>6
    <2>7. CASE y["state"] # z["state"]
        <3>1. UpdateIfNewer(y, z) = z
            BY <1>1, <2>1, <2>4, <2>7 DEF UpdateIfNewer
        <3>2. y # z
            BY <2>7
        <3>3. k # Entry(z)
            BY <2>2, <3>2 DEF Entry
        <3> QED
            BY <2>4, <2>5, <2>7, <3>1, <3>3
    <2> QED
        BY <2>6, <2>7
<1> QED
    BY <1>3, <1>4 DEF z
LEMMA NewsInit == Init => NewsInv
<1> SUFFICES ASSUME Init PROVE NewsInv
    OBVIOUS
<1>1. Versions(told)
    BY ToldInit DEF Init
<1>2. \A v \in VM : knownVms[v] = NoEntry
    BY DEF Init, VmWatcherInit
<1>3. stopped /\ ~looked
    BY Zenon DEF Init
<1> QED
    BY <1>1, <1>2, <1>3 DEF NewsInv, Reported

\* The versions that are read or told stay what they were.
LEMMA SameVersions ==
    ASSUME ZoneInv, Versions(told), NEW v \in VM, CnChange(v)
    PROVE  \A u \in VM : cn'[u][read[u]] = cn[u][read[u]] /\ cn'[u][told[u]] = cn[u][told[u]]
<1>1. \A u \in VM : \A i \in 1..Len(cn[u]) : cn'[u][i] = cn[u][i]
    BY CnChangeKeeps DEF ZoneInv
<1>2. \A u \in VM : Len(cn[u]) \in 1..MaxVer
    BY DEF ZoneInv, WatcherInv
<1>3. \A u \in VM : read[u] \in 1..MaxVer /\ read[u] <= Len(cn[u])
    BY DEF ZoneInv
<1>4. \A u \in VM : told[u] \in 1..MaxVer /\ told[u] <= Len(cn[u])
    BY DEF Versions
<1>5. \A u \in VM : read[u] \in 1..Len(cn[u]) /\ told[u] \in 1..Len(cn[u])
    BY <1>2, <1>3, <1>4, Bounds
<1> QED
    BY <1>1, <1>5

LEMMA CnChangeNews ==
    ASSUME ZoneInv, NewsInv, NEW v \in VM, CnChange(v), UNCHANGED <<knownVms, emits, told, zoneVars>>
    PROVE  NewsInv'
<1>1. Versions(told)'
    BY ToldStays DEF ZoneInv, NewsInv
<1>2. \A u \in VM : cn'[u][read'[u]] = cn[u][read[u]] /\ cn'[u][told'[u]] = cn[u][told[u]]
    BY SameVersions DEF NewsInv, zoneVars
<1> QED
    BY <1>1, <1>2 DEF NewsInv, Reported, ToldOfLines, zoneVars

\* Who looks at v now has seen what was written up to now.
LEMMA EmitNews ==
    ASSUME ZoneInv, NewsInv, NEW v \in VM, EmitImmediately(v), UNCHANGED zoneVars
    PROVE  NewsInv'
<1>1. Versions(told)'
    BY ToldStays DEF ZoneInv, NewsInv
<1>2. UNCHANGED <<cn, knownVms>> /\ emits' = emits \ {v} /\ told' = [told EXCEPT ![v] = Len(cn[v])]
    BY DEF EmitImmediately
<1>3. told \in [VM -> 1..MaxVer] /\ read[v] <= Len(cn[v])
    BY DEF ZoneInv, WatcherInv
<1>4. \A u \in VM : u # v => told'[u] = told[u]
    BY <1>2, <1>3
<1>5. told'[v] >= read[v]
    BY <1>2, <1>3 DEF ZoneInv, WatcherInv
<1>6. \A u \in VM : looked /\ u \notin emits' \cup lost => ToldOfLines(u)'
    BY <1>2, <1>4, <1>5 DEF NewsInv, ToldOfLines, zoneVars
<1> QED
    BY <1>1, <1>2, <1>6 DEF NewsInv, Reported, zoneVars

LEMMA LooksNews ==
    ASSUME ZoneInv, NewsInv, AgentLooks
    PROVE  NewsInv'
<1>1. ListenerLooks /\ UNCHANGED <<cn, knownVms, emits, stopped, starts, read, lost>>
    BY DEF AgentLooks, ListenerLooks
<1>2. Versions(told)'
    BY <1>1, ToldStays DEF ZoneInv, NewsInv
<1>3. \A u \in VM : told'[u] >= read[u]
    BY DEF AgentLooks, ListenerLooks, ZoneInv, WatcherInv
<1> QED
    BY <1>1, <1>2, <1>3 DEF NewsInv, Reported, ToldOfLines

LEMMA StartNews ==
    ASSUME ZoneInv, NewsInv, Start
    PROVE  NewsInv'
<1>1. UNCHANGED <<cn, knownVms, emits, told, lost>> /\ starts' = starts + 1 /\ ~looked'
    BY DEF Start, watcherVars
<1>2. Versions(told)'
    BY <1>1, ToldStays DEF ZoneInv, NewsInv
<1>3. starts' # 0
    BY <1>1 DEF ZoneInv
<1>4. \A v \in VM : v \notin lost => Reported(v)'
    BY <1>1 DEF Start, NewsInv, Reported
<1> QED
    BY <1>1, <1>2, <1>3, <1>4 DEF NewsInv

\* A child that listens does not know of what was before; if the zone did not change
\* meanwhile that is no loss.
LEMMA ListensNews ==
    ASSUME ZoneInv, NewsInv, NEW c \in Child, Listens(c)
    PROVE  NewsInv'
<1>1. UNCHANGED <<cn, knownVms, emits, told, stopped, starts, looked>>
    BY DEF Listens, watcherVars
<1>2. Versions(told)'
    BY <1>1, ToldStays DEF ZoneInv, NewsInv
<1>3. CASE c # watcher
    BY <1>1, <1>2, <1>3 DEF Listens, NewsInv, Reported, ToldOfLines
<1>4. CASE c = watcher
    <2>1. /\ read' = [v \in VM |-> Len(cn[v])]
          /\ lost' = lost \cup {v \in VM : \E i \in read[v]..Len(cn[v]) :
                                              ZoneView(cn[v][i]) # ZoneView(Last(v))}
        BY <1>4 DEF Listens
    <2>2. ASSUME NEW v \in VM, v \notin lost'
          PROVE  /\ v \notin lost /\ read'[v] = Len(cn[v])
                 /\ \A i \in read[v]..Len(cn[v]) : ZoneView(cn[v][i]) = ZoneView(cn[v][Len(cn[v])])
        BY <2>1, <2>2 DEF Last
    <2>3. \A v \in VM : /\ read[v] \in Nat /\ told[v] \in Nat /\ Len(cn[v]) \in Nat
                         /\ read[v] <= Len(cn[v]) /\ told[v] <= Len(cn[v])
        <3>1. \A v \in VM : Len(cn[v]) \in 1..MaxVer /\ read[v] \in 1..MaxVer /\ read[v] <= Len(cn[v])
            BY DEF ZoneInv, WatcherInv
        <3>2. \A v \in VM : told[v] \in 1..MaxVer /\ told[v] <= Len(cn[v])
            BY DEF NewsInv, Versions
        <3> QED
            BY <3>1, <3>2, Bounds
    <2>4. ASSUME NEW v \in VM, v \notin lost' PROVE Reported(v)'
        <3>1. Reported(v)
            BY <2>2, <2>4 DEF NewsInv
        <3>2. read[v] \in read[v]..Len(cn[v])
            BY <2>3
        <3>3. ZoneView(cn[v][read[v]]) = ZoneView(cn[v][read'[v]])
            BY <2>2, <2>4, <3>2
        <3> QED
            BY <1>1, <3>1, <3>3 DEF Reported
    <2>5. ASSUME NEW v \in VM, looked, v \notin emits \cup lost' PROVE ToldOfLines(v)'
        <3>1. v \notin lost /\ read'[v] = Len(cn[v])
            BY <2>2, <2>5
        <3>2. ToldOfLines(v)
            BY <2>5, <3>1 DEF NewsInv
        <3>3. read[v] \in read[v]..Len(cn[v])
            BY <2>3
        <3>4. ZoneView(cn[v][read[v]]) = ZoneView(cn[v][read'[v]])
            BY <2>2, <2>5, <3>3
        <3>5. CASE told[v] >= read[v]
            <4>1. told[v] \in read[v]..Len(cn[v])
                BY <2>3, <3>5
            <4>2. ZoneView(cn[v][told[v]]) = ZoneView(cn[v][read'[v]])
                BY <2>2, <2>5, <4>1
            <4> QED
                BY <1>1, <4>2 DEF ToldOfLines
        <3>6. CASE ZoneView(cn[v][told[v]]) = ZoneView(cn[v][read[v]])
            BY <1>1, <3>4, <3>6 DEF ToldOfLines
        <3> QED
            BY <3>2, <3>5, <3>6 DEF ToldOfLines
    <2> QED
        BY <1>1, <1>2, <2>4, <2>5 DEF NewsInv
<1> QED
    BY <1>3, <1>4
\* A line of v leaves the other VMs alone; it is news if it says what knownVms has not.
LEMMA LineOutcome ==
    ASSUME ZoneInv, NewsInv, NEW v \in VM, ReadLine(v)
    PROVE  LET z == ZoneView(cn[v][read'[v]])
           IN  /\ read'[v] = read[v] + 1
               /\ \A u \in VM : u # v => /\ read'[u] = read[u] /\ knownVms'[u] = knownVms[u]
                                         /\ u \in emits' <=> u \in emits
                                         /\ u \in lost' <=> u \in lost
               /\ emits \subseteq emits'
               /\ IF z = ZoneView(cn[v][read[v]])
                  THEN knownVms'[v] = knownVms[v] /\ (v \in lost' <=> v \in lost)
                  ELSE /\ knownVms'[v] = Entry(z)
                       /\ v \in lost' => v \in lost
                       /\ knownVms[v] # Entry(z) => v \in emits'
                       /\ (knownVms[v] = Entry(z) /\ v \in lost) => v \in lost'
<1> DEFINE from == [u \in VM |-> cn[u][read[u]]]
<1> DEFINE to == [u \in VM |-> cn[u][read'[u]]]
<1> DEFINE out(u) == DispatchChange(knownVms[u], "zoneevent", from[u], to[u])
<1> DEFINE z == ZoneView(to[v])
<1>1. /\ UpdateHandler("zoneevent", from, to) /\ read' = [read EXCEPT ![v] = read[v] + 1]
      /\ lost' = IF knownVms'[v] # knownVms[v] THEN lost \ {v} ELSE lost
    BY DEF ReadLine
<1>2. read'[v] = read[v] + 1 /\ \A u \in VM : u # v => read'[u] = read[u]
    BY <1>1 DEF ZoneInv
<1>3. \A u \in VM : knownVms'[u] = out(u).known /\ (u \in emits' <=> u \in emits \/ out(u).emit)
    <2> HIDE DEF from, to
    <2> QED
        BY <1>1, ReportOfOne
<1>4. \A u \in VM : u # v => out(u) = Silently(knownVms[u])
    <2> SUFFICES ASSUME NEW u \in VM, u # v PROVE out(u) = Silently(knownVms[u])
        OBVIOUS
    <2>1. from[u] = to[u]
        BY <1>2
    <2> HIDE DEF from, to
    <2> QED
        BY <2>1, SameIsSilent
<1>5. out(v) = IF z = ZoneView(from[v]) THEN Silently(knownVms[v])
               ELSE DispatchModify(knownVms[v], z, "zoneevent")
    BY DEF DispatchChange, Modified, NoReport, Seen
<1>6. DispatchModify(knownVms[v], z, "zoneevent") =
        IF knownVms[v] = Entry(z) THEN Silently(knownVms[v]) ELSE News(Entry(z))
    BY LineIsNews DEF NewsInv
<1>7. from[v] = cn[v][read[v]] /\ to[v] = cn[v][read'[v]]
    OBVIOUS
<1>8. emits \subseteq emits'
    BY <1>3 DEF ZoneInv, WatcherInv
<1> HIDE DEF from, to, out
<1>9. \A u \in VM : u # v => /\ read'[u] = read[u] /\ knownVms'[u] = knownVms[u]
                             /\ u \in emits' <=> u \in emits
                             /\ u \in lost' <=> u \in lost
    BY <1>1, <1>2, <1>3, <1>4 DEF Silently
<1>10. CASE z = ZoneView(from[v])
    <2>1. knownVms'[v] = knownVms[v]
        BY <1>3, <1>5, <1>10 DEF Silently
    <2> QED
        BY <1>1, <1>2, <1>7, <1>8, <1>9, <1>10, <2>1
<1>11. CASE z # ZoneView(from[v])
    <2>1. knownVms'[v] = Entry(z)
        BY <1>3, <1>5, <1>6, <1>11 DEF Silently, News
    <2>2. knownVms[v] # Entry(z) => v \in emits'
        BY <1>3, <1>5, <1>6, <1>11 DEF News
    <2> QED
        BY <1>1, <1>2, <1>7, <1>8, <1>9, <1>11, <2>1, <2>2
<1> QED
    BY <1>10, <1>11

\* The listener is told of what it does not know from a line before.
LEMMA LineNews ==
    ASSUME ZoneInv, NewsInv, NEW v \in VM, ReadLine(v)
    PROVE  NewsInv'
<1> DEFINE z == ZoneView(cn[v][read'[v]])
<1>1. UNCHANGED <<cn, told, stopped, starts, looked>>
    BY DEF ReadLine
<1>2. Versions(told)'
    BY <1>1, ToldStays DEF ZoneInv, NewsInv
<1>3. /\ read'[v] = read[v] + 1
      /\ \A u \in VM : u # v => /\ read'[u] = read[u] /\ knownVms'[u] = knownVms[u]
                                /\ u \in emits' <=> u \in emits
                                /\ u \in lost' <=> u \in lost
      /\ emits \subseteq emits'
      /\ IF z = ZoneView(cn[v][read[v]])
         THEN knownVms'[v] = knownVms[v] /\ (v \in lost' <=> v \in lost)
         ELSE /\ knownVms'[v] = Entry(z)
              /\ v \in lost' => v \in lost
              /\ knownVms[v] # Entry(z) => v \in emits'
              /\ (knownVms[v] = Entry(z) /\ v \in lost) => v \in lost'
    BY LineOutcome
<1>4. starts # 0
    <2>1. watcher # NoWatcher
        BY DEF ReadLine, Listening
    <2> QED
        BY <2>1 DEF ZoneInv, OneChild, NewsInv
<1>5. \A u \in VM : knownVms'[u] = NoEntry \/ \E o : knownVms'[u] = Entry(ZoneView(o))
    BY <1>3 DEF NewsInv
<1>6. ASSUME NEW u \in VM, u \notin lost' PROVE Reported(u)'
    <2>1. CASE u # v
        BY <1>1, <1>3, <1>6, <2>1 DEF NewsInv, Reported
    <2>2. CASE u = v /\ z = ZoneView(cn[v][read[v]])
        BY <1>1, <1>3, <1>6, <2>2 DEF NewsInv, Reported
    <2>3. CASE u = v /\ z # ZoneView(cn[v][read[v]])
        BY <1>1, <1>3, <2>3 DEF Reported
    <2> QED
        BY <2>1, <2>2, <2>3
<1>7. ASSUME NEW u \in VM, looked, u \notin emits' \cup lost' PROVE ToldOfLines(u)'
    <2>1. CASE u # v
        BY <1>1, <1>3, <1>7, <2>1 DEF NewsInv, ToldOfLines
    <2>2. CASE u = v /\ z = ZoneView(cn[v][read[v]])
        <3>1. ToldOfLines(v)
            BY <1>3, <1>7, <2>2 DEF NewsInv
        <3>2. CASE ZoneView(cn[v][told[v]]) = ZoneView(cn[v][read[v]])
            BY <1>1, <2>2, <3>2 DEF ToldOfLines
        <3>3. CASE told[v] >= read[v] /\ told[v] # read[v]
            <4>1. told[v] \in Nat /\ read[v] \in Nat
                BY Bounds DEF ZoneInv, WatcherInv
            <4>2. told[v] >= read[v] + 1
                BY <3>3, <4>1
            <4> QED
                BY <1>1, <1>3, <2>2, <4>2 DEF ToldOfLines
        <3> QED
            BY <3>1, <3>2, <3>3 DEF ToldOfLines
    <2>3. CASE u = v /\ z # ZoneView(cn[v][read[v]])
        <3>1. v \notin emits /\ v \notin lost /\ knownVms[v] = Entry(z)
            BY <1>3, <1>7, <2>3
        <3>2. Entry(ZoneView(cn[v][read[v]])) # Entry(z) /\ NoEntry # Entry(z)
            BY <2>3 DEF Entry, NoEntry
        <3>3. Reported(v)
            BY <3>1 DEF NewsInv
        <3> QED
            BY <3>1, <3>2, <3>3 DEF Reported
    <2> QED
        BY <2>1, <2>2, <2>3
<1> QED
    BY <1>1, <1>2, <1>4, <1>5, <1>6, <1>7 DEF NewsInv

\* What only concerns the children.
LEMMA ChildNews ==
    ASSUME ZoneInv, NewsInv, UNCHANGED <<cn, knownVms, emits, told, starts, read, lost, looked>>,
           stopped => stopped'
    PROVE  NewsInv'
<1>1. Versions(told)'
    BY ToldStays DEF ZoneInv, NewsInv
<1> QED
    BY <1>1 DEF NewsInv, Reported, ToldOfLines

LEMMA NewsStep == ZoneInv /\ NewsInv /\ [Next]_vars => NewsInv'
<1> SUFFICES ASSUME ZoneInv, NewsInv, [Next]_vars PROVE NewsInv'
    OBVIOUS
<1>1. ASSUME NEW v \in VM, CnChange(v), UNCHANGED <<knownVms, emits, told, zoneVars>> PROVE NewsInv'
    BY <1>1, CnChangeNews
<1>2. ASSUME NEW v \in VM, EmitImmediately(v), UNCHANGED zoneVars PROVE NewsInv'
    BY <1>2, EmitNews
<1>3. ASSUME NEW v \in VM, ReadLine(v) PROVE NewsInv'
    BY <1>3, LineNews
<1>4. CASE Start
    BY <1>4, StartNews
<1>5. CASE Stop
    BY <1>5, ChildNews DEF Stop, watcherVars
<1>6. CASE AgentLooks
    BY <1>6, LooksNews
<1>7. ASSUME NEW c \in Child, Exits(c) PROVE NewsInv'
    BY <1>7, ChildNews DEF Exits, watcherVars
<1>8. ASSUME NEW c \in Child, Listens(c) PROVE NewsInv'
    BY <1>8, ListensNews
<1>9. CASE UNCHANGED vars
    BY <1>9, ChildNews DEF vars, zoneVars, watcherVars
<1> QED
    BY <1>1, <1>2, <1>3, <1>4, <1>5, <1>6, <1>7, <1>8, <1>9 DEF Next

LEMMA NewsMeansTold == ZoneInv /\ NewsInv => ZoneStateIsTold
<1> SUFFICES ASSUME ZoneInv, NewsInv, NEW v \in VM,
                    looked, read[v] = Len(cn[v]), v \notin emits, v \notin lost
             PROVE  ToldOfZone(v)
    BY DEF ZoneStateIsTold
<1>1. ToldOfLines(v)
    BY DEF NewsInv
<1>2. CASE told[v] >= read[v]
    <2>1. told[v] \in Nat /\ Len(cn[v]) \in Nat /\ told[v] <= Len(cn[v])
        BY Bounds DEF NewsInv, Versions, ZoneInv, WatcherInv
    <2>2. told[v] = Len(cn[v])
        BY <1>2, <2>1
    <2> QED
        BY <2>2 DEF ToldOfZone, Last
<1>3. CASE ZoneView(cn[v][told[v]]) = ZoneView(cn[v][read[v]])
    BY <1>3 DEF ToldOfZone, Last
<1> QED
    BY <1>1, <1>2, <1>3 DEF ToldOfLines

\* ZoneStateIsTold: when all lines are read and no event waits, the listener knows
\* whether the zone runs, however often the child was replaced or the watcher stopped
\* and started; unless the zone changed while no child listened and no line was news
\* since (lib/watchers/zoneevent-watcher.js:73-105 and 163-171, lib/vm-watcher.js:
\* 276-353).
THEOREM ZoneStateTold == Spec => []ZoneStateIsTold
<1>1. Init => ZoneInv /\ NewsInv
    BY ZoneInit, NewsInit
<1>2. (ZoneInv /\ NewsInv) /\ [Next]_vars => (ZoneInv /\ NewsInv)'
    BY ZoneStep, NewsStep
<1>3. ZoneInv /\ NewsInv => ZoneStateIsTold
    BY NewsMeansTold
<1> QED
    BY <1>1, <1>2, <1>3, PTL DEF Spec
=============================================================================

--------------------------- MODULE PeriodicProofs ---------------------------
(***************************************************************************)
(* Proofs about PeriodicWatcher: its type invariant, that what it reports  *)
(* is what the contract of Watchers allows, and that what was sampled is   *)
(* told.                                                                   *)
(***************************************************************************)
EXTENDS PeriodicWatcher, VmWatcherProofs

\* The inductive invariant: the timer that runs after a single start() is the one
\* that stop() cancels, and what was sampled or answered are versions.
PeriodicInv ==
    /\ WatcherInv
    /\ sample = Unsampled \/ Versions(sample)
    /\ firstSample = Unsampled \/ Versions(firstSample)
    /\ answer \in [Loop -> [VM -> 0..MaxVer]]
    /\ \A l \in Loop : loop[l] = "answered" => Versions(answer[l])
    /\ loop \in [Loop -> {"none", "asked", "answered", "timer"}]
    /\ periodicTimer \in Loop \cup {NoTimer}
    /\ starts \in 0..MaxStarts
    /\ {disabled, looked} \subseteq BOOLEAN
    /\ \A l \in Loop : l > starts => loop[l] = "none"
    /\ starts <= 1 => \A l \in Loop : loop[l] = "timer" => l = periodicTimer /\ ~disabled

LEMMA StartsBound == MaxStarts \in Nat \ {0}
BY StartsAssumption

LEMMA UnsampledTyped == Unsampled \in [VM -> 0..MaxVer]
BY Bounds DEF Unsampled

LEMMA PeriodicInvType == PeriodicInv => PeriodicTypeOK
<1> SUFFICES ASSUME PeriodicInv PROVE PeriodicTypeOK
    OBVIOUS
<1>1. VmWatcherTypeOK
    BY WatcherInvType DEF PeriodicInv
<1>2. sample \in [VM -> 0..MaxVer] /\ firstSample \in [VM -> 0..MaxVer]
    BY UnsampledTyped, VersionsTyped DEF PeriodicInv
<1> QED
    BY <1>1, <1>2 DEF PeriodicInv, PeriodicTypeOK

LEMMA PeriodicInit == Init => PeriodicInv
<1> SUFFICES ASSUME Init PROVE PeriodicInv
    OBVIOUS
<1>1. WatcherInv
    BY WatcherInit DEF Init
<1>2. [l \in Loop |-> Unsampled] \in [Loop -> [VM -> 0..MaxVer]]
    BY UnsampledTyped
<1>3. loop = [l \in Loop |-> "none"]
    BY DEF Init
<1>4. loop \in [Loop -> {"none", "asked", "answered", "timer"}] /\ \A l \in Loop : loop[l] = "none"
    BY <1>3
<1>5. starts = 0 /\ 0 \in 0..MaxStarts /\ disabled = TRUE /\ looked = FALSE
    BY StartsBound DEF Init
<1> QED
    BY <1>1, <1>2, <1>4, <1>5 DEF Init, PeriodicInv

LEMMA ScheduleKeeps ==
    ASSUME PeriodicInv, NEW l \in Loop, loop[l] # "none", ScheduleNext(l, loop)
    PROVE  /\ loop' \in [Loop -> {"none", "asked", "answered", "timer"}]
           /\ periodicTimer' \in Loop \cup {NoTimer}
           /\ \A m \in Loop : m # l => loop'[m] = loop[m]
           /\ loop'[l] \in {"none", "timer"}
           /\ starts <= 1 => \A m \in Loop : loop'[m] = "timer" => m = periodicTimer' /\ ~disabled
<1>1. l \in 1..MaxStarts /\ l <= starts
    BY StartsBound DEF PeriodicInv, Loop
<1>2. CASE disabled
    BY <1>2 DEF PeriodicInv, ScheduleNext
<1>3. CASE ~disabled
    <2>1. loop' = [loop EXCEPT ![l] = "timer"] /\ periodicTimer' = l
        BY <1>3 DEF ScheduleNext
    <2>2. starts <= 1 => \A m \in Loop : m # l => loop[m] = "none"
        BY <1>1, StartsBound DEF PeriodicInv, Loop
    <2> QED
        BY <1>3, <2>1, <2>2 DEF PeriodicInv
<1> QED
    BY <1>2, <1>3

LEMMA PeriodicStep == PeriodicInv /\ [Next]_vars => PeriodicInv'
<1> SUFFICES ASSUME PeriodicInv, [Next]_vars PROVE PeriodicInv'
    OBVIOUS
<1> USE DEF PeriodicInv
<1>1. ASSUME NEW v \in VM, CnChange(v), UNCHANGED <<knownVms, emits, told, loopVars>>
      PROVE  PeriodicInv'
    <2>1. WatcherInv'
        BY <1>1, CnChangeInv
    <2>2. \A k : Versions(k) => Versions(k)'
        BY <1>1, VersionsStay
    <2> QED
        BY <1>1, <2>1, <2>2 DEF loopVars, Unsampled
<1>2. ASSUME NEW v \in VM, EmitImmediately(v), UNCHANGED loopVars
      PROVE  PeriodicInv'
    <2>1. WatcherInv' /\ UNCHANGED cn
        BY <1>2, EmitInv DEF EmitImmediately
    <2> QED
        BY <1>2, <2>1 DEF loopVars, Unsampled, Versions
<1>3. ASSUME Start PROVE PeriodicInv'
    <2>1. WatcherInv' /\ UNCHANGED cn
        BY <1>3, StutterInv DEF Start, watcherVars
    <2>2. starts + 1 \in Loop /\ starts + 1 \in 0..MaxStarts
        BY <1>3, StartsBound DEF Start, Loop
    <2>3. loop' = [loop EXCEPT ![starts + 1] = "asked"]
        BY <1>3 DEF Start
    <2>4. \A l \in Loop : l > starts + 1 => loop'[l] = "none"
        BY <2>2, <2>3 DEF Loop
    <2>5. starts + 1 <= 1 => \A l \in Loop : loop'[l] # "timer"
        BY <2>2, <2>3, <1>3 DEF Loop, Start
    <2> QED
        BY <1>3, <2>1, <2>2, <2>3, <2>4, <2>5 DEF Start, Unsampled, Versions
<1>4. ASSUME Stop PROVE PeriodicInv'
    <2>1. WatcherInv' /\ UNCHANGED cn
        BY <1>4, StutterInv DEF Stop, watcherVars
    <2>2. loop' \in [Loop -> {"none", "asked", "answered", "timer"}]
        BY <1>4 DEF Stop
    <2>3. \A l \in Loop : loop'[l] = loop[l] \/ loop'[l] = "none"
        BY <1>4 DEF Stop
    <2>4. starts <= 1 => \A l \in Loop : loop'[l] # "timer"
        BY <1>4 DEF Stop
    <2> QED
        BY <1>4, <2>1, <2>2, <2>3, <2>4 DEF Stop, Unsampled, Versions
<1>5. ASSUME AgentLooks PROVE PeriodicInv'
    <2>1. WatcherInv' /\ UNCHANGED cn
        BY <1>5, LooksInv DEF AgentLooks, ListenerLooks
    <2> QED
        BY <1>5, <2>1 DEF AgentLooks, Unsampled, Versions
<1>6. ASSUME NEW l \in Loop, Lookup(l) PROVE PeriodicInv'
    <2>1. WatcherInv' /\ UNCHANGED cn
        BY <1>6, StutterInv DEF Lookup, watcherVars
    <2> DEFINE now == [v \in VM |-> Len(cn[v])]
    <2>2. Versions(now) /\ now \in [VM -> 0..MaxVer]
        BY Bounds DEF Versions, WatcherInv
    <2>3. answer' = [answer EXCEPT ![l] = now] /\ loop' = [loop EXCEPT ![l] = "answered"]
        BY <1>6 DEF Lookup
    <2> HIDE DEF now
    <2>4. l <= starts
        BY <1>6, StartsBound DEF Lookup, Loop
    <2> QED
        BY <1>6, <2>1, <2>2, <2>3, <2>4 DEF Lookup, Unsampled, Versions
<1>7. ASSUME NEW l \in Loop, LookupFails(l) PROVE PeriodicInv'
    <2>1. WatcherInv' /\ UNCHANGED cn
        BY <1>7, StutterInv DEF LookupFails, watcherVars
    <2>2. loop[l] # "none" /\ ScheduleNext(l, loop)
        BY <1>7 DEF LookupFails
    <2> QED
        BY <1>7, <2>1, <2>2, ScheduleKeeps DEF LookupFails, Unsampled, Versions
<1>8. ASSUME NEW l \in Loop, HandleVmobjs(l) PROVE PeriodicInv'
    <2>1. WatcherInv' /\ UNCHANGED cn
        <3>1. CASE sample = Unsampled
            BY <1>8, <3>1, StutterInv DEF HandleVmobjs, watcherVars
        <3>2. CASE sample # Unsampled
            <4>1. /\ UpdateHandler("periodic", [v \in VM |-> cn[v][sample[v]]],
                                               [v \in VM |-> cn[v][answer[l][v]]])
                  /\ UNCHANGED <<cn, told>>
                BY <1>8, <3>2 DEF HandleVmobjs
            <4> QED
                BY <4>1, ReportInv
        <3> QED
            BY <3>1, <3>2
    <2>2. loop[l] = "answered" /\ ScheduleNext(l, loop)
        BY <1>8 DEF HandleVmobjs
    <2>3. Versions(answer[l])
        BY <2>2
    <2>4. answer' = [answer EXCEPT ![l] = Unsampled] /\ answer' \in [Loop -> [VM -> 0..MaxVer]]
        BY <1>8, UnsampledTyped DEF HandleVmobjs
    <2>5. \A m \in Loop : loop'[m] = "answered" => loop[m] = "answered" /\ answer'[m] = answer[m]
        BY <2>2, <2>4, ScheduleKeeps
    <2>6. sample' = answer[l] /\ firstSample' \in {answer[l], firstSample}
        BY <1>8 DEF HandleVmobjs
    <2>7. UNCHANGED <<disabled, starts, looked>>
        BY <1>8 DEF HandleVmobjs
    <2> QED
        BY <2>1, <2>2, <2>3, <2>4, <2>5, <2>6, <2>7, ScheduleKeeps DEF Unsampled, Versions
<1>9. ASSUME NEW l \in Loop, TimerFires(l) PROVE PeriodicInv'
    <2>1. WatcherInv' /\ UNCHANGED cn
        BY <1>9, StutterInv DEF TimerFires, watcherVars
    <2> QED
        BY <1>9, <2>1 DEF TimerFires, Unsampled, Versions
<1>10. CASE UNCHANGED vars
    <2>1. WatcherInv' /\ UNCHANGED cn
        BY <1>10, StutterInv DEF vars, watcherVars
    <2> QED
        BY <1>10, <2>1 DEF vars, loopVars, Unsampled, Versions
<1> QED
    BY <1>1, <1>2, <1>3, <1>4, <1>5, <1>6, <1>7, <1>8, <1>9, <1>10 DEF Next

\* PeriodicTypeOK holds always: no timer but the one that stop() cancels, if start() was
\* called once (lib/watchers/periodic-watcher.js:286-309).
THEOREM PeriodicTyped == Spec => []PeriodicTypeOK
BY PeriodicInit, PeriodicStep, PeriodicInvType, PTL DEF Spec

-----------------------------------------------------------------------------
\* What Watchers means by a report is what this module means by it.
LEMMA SameChange ==
    ASSUME NEW k, NEW w, NEW old, NEW new
    PROVE  W!DispatchChange(k, w, old, new) = DispatchChange(k, w, old, new)
<1>1. \A o : W!Seen(w, o) = Seen(w, o) /\ W!ZoneView(o) = ZoneView(o)
    BY DEF W!Seen, Seen, W!FsView, FsView, W!ZoneView, ZoneView, W!VmadmView, VmadmView,
           W!ZoneRunning, ZoneRunning, W!Seconds, Seconds
<1>2. \A a, b : W!Updated(a, b) = Updated(a, b)
    BY DEF W!Updated, Updated, W!Refused, Refused, W!Rounded, Rounded, W!Has, Has
<1>3. \A a, b : W!UpdateIfNewer(a, b) = UpdateIfNewer(a, b)
    BY <1>2 DEF W!UpdateIfNewer, UpdateIfNewer
<1>4. \A o : W!DispatchCreate(k, o) = DispatchCreate(k, o)
    BY <1>3 DEF W!DispatchCreate, DispatchCreate, W!News, News, W!Silently, Silently, W!Entry, Entry
<1>5. \A o : W!DispatchModify(k, o, w) = DispatchModify(k, o, w)
    BY <1>2, <1>3 DEF W!DispatchModify, DispatchModify, W!News, News, W!Silently, Silently,
                      W!Entry, Entry, W!Has, Has, W!Without, Without
<1>6. W!DispatchDelete(k) = DispatchDelete(k) /\ W!NoReport(k) = NoReport(k)
    BY DEF W!DispatchDelete, DispatchDelete, W!NoReport, NoReport, W!News, News, W!Silently, Silently
<1>7. W!Modified(w, old, new) = Modified(w, old, new)
    BY <1>1 DEF W!Modified, Modified
<1> QED
    BY <1>1, <1>4, <1>5, <1>6, <1>7 DEF W!DispatchChange, DispatchChange

LEMMA SameReport ==
    ASSUME NEW w, NEW from, NEW to
    PROVE  W!UpdateHandler(w, from, to) <=> UpdateHandler(w, from, to)
BY SameChange DEF W!UpdateHandler, UpdateHandler

LEMMA SameCnChange ==
    ASSUME NEW v
    PROVE  W!CnChange(v) <=> CnChange(v)
<1>1. \A S : W!Cardinality(S) = Cardinality(S)
    BY Zenon DEF W!Cardinality, Cardinality
<1>2. W!Last(v) = Last(v) /\ W!Later(v) = Later(v) /\ W!NewQuota(v) = NewQuota(v)
    BY DEF W!Last, Last, W!Later, Later, W!NewQuota, NewQuota
<1>3. \A o : W!Becomes(v, o) <=> Becomes(v, o)
    BY DEF W!Becomes, Becomes
<1>4. W!FirstStates = FirstStates
    BY DEF W!FirstStates, FirstStates, W!Lasting, Lasting
<1>5. W!Creations(v) = Creations(v)
    BY <1>1 DEF W!Creations, Creations
<1>6. W!Created(v) <=> Created(v)
    BY <1>2, <1>3, <1>4, <1>5 DEF W!Created, Created
<1>7. W!Configured(v) <=> Configured(v)
    BY <1>2, <1>3 DEF W!Configured, Configured
<1>8. /\ W!Halted(v) <=> Halted(v)
      /\ W!Booted(v) <=> Booted(v)
      /\ W!QuotaSet(v) <=> QuotaSet(v)
      /\ W!Deleted(v) <=> Deleted(v)
    BY <1>2, <1>3 DEF W!Halted, Halted, W!Booted, Booted, W!QuotaSet, QuotaSet, W!Deleted, Deleted
<1> QED
    BY <1>6, <1>7, <1>8 DEF W!CnChange, CnChange

LEMMA RefinesInit == Init => W!Init
BY DEF Init, W!Init, VmWatcherInit, W!VmWatcherInit, W!Lasting, Lasting, W!NoEntry, NoEntry,
       Unsampled, W!Unseen

\* Steps that the contract does not see.
LEMMA NothingSeen ==
    ASSUME UNCHANGED <<watcherVars, sample, firstSample>>
    PROVE  UNCHANGED W!vars
BY DEF W!vars, W!watcherVars, watcherVars

\* A sample is a look, a first one or a later one.
LEMMA SampleIsLook ==
    ASSUME PeriodicInv, NEW k, Versions(k)
    PROVE  k \in W!Looks("periodic")
BY DEF W!Looks, Versions

LEMMA HandleRefines ==
    ASSUME PeriodicInv, NEW l \in Loop, HandleVmobjs(l)
    PROVE  W!FirstLook("periodic") \/ W!Report("periodic")
<1> DEFINE k == answer[l]
<1>1. Versions(k) /\ sample' = k
    BY DEF HandleVmobjs, PeriodicInv
<1>2. k \in W!Looks("periodic")
    BY <1>1, SampleIsLook
<1>3. Unsampled = W!Unseen
    BY DEF Unsampled, W!Unseen
<1>4. CASE sample = Unsampled
    <2>1. firstSample' = k /\ UNCHANGED watcherVars
        BY <1>4 DEF HandleVmobjs
    <2> HIDE DEF k
    <2>2. W!FirstLook("periodic")
        BY <1>1, <1>2, <1>3, <1>4, <2>1 DEF W!FirstLook, W!watcherVars, watcherVars
    <2> QED
        BY <2>2
<1>5. CASE sample # Unsampled
    <2>1. /\ UpdateHandler("periodic", [v \in VM |-> cn[v][sample[v]]], [v \in VM |-> cn[v][k[v]]])
          /\ UNCHANGED <<cn, told, firstSample>>
        BY <1>5 DEF HandleVmobjs
    <2> HIDE DEF k
    <2>2. W!UpdateHandler("periodic", [v \in VM |-> cn[v][sample[v]]], [v \in VM |-> cn[v][k[v]]])
        BY <2>1, SameReport
    <2>3. W!Report("periodic")
        BY <1>1, <1>2, <1>3, <1>5, <2>1, <2>2 DEF W!Report
    <2> QED
        BY <2>3
<1> QED
    BY <1>4, <1>5

LEMMA RefinesStep == PeriodicInv /\ [Next]_vars => [W!Next]_W!vars
<1> SUFFICES ASSUME PeriodicInv, [Next]_vars PROVE W!Next \/ UNCHANGED W!vars
    OBVIOUS
<1>1. ASSUME NEW v \in VM, CnChange(v), UNCHANGED <<knownVms, emits, told, loopVars>>
      PROVE  W!Next
    BY <1>1, SameCnChange DEF W!Next, loopVars
<1>2. ASSUME NEW v \in VM, EmitImmediately(v), UNCHANGED loopVars
      PROVE  W!Next
    BY <1>2 DEF W!Next, loopVars, W!EmitImmediately, EmitImmediately
<1>3. ASSUME Start \/ Stop PROVE UNCHANGED W!vars
    BY <1>3, NothingSeen DEF Start, Stop
<1>4. ASSUME AgentLooks PROVE W!Next
    BY <1>4 DEF AgentLooks, ListenerLooks, W!Next, W!Lookup, W!ListenerLooks
<1>5. ASSUME NEW l \in Loop, Lookup(l) \/ LookupFails(l) \/ TimerFires(l) PROVE UNCHANGED W!vars
    BY <1>5, NothingSeen DEF Lookup, LookupFails, TimerFires
<1>6. ASSUME NEW l \in Loop, HandleVmobjs(l) PROVE W!Next
    BY <1>6, HandleRefines DEF W!Next
<1>7. CASE UNCHANGED vars
    BY <1>7, NothingSeen DEF vars, loopVars
<1> QED
    BY <1>1, <1>2, <1>3, <1>4, <1>5, <1>6, <1>7 DEF Next

\* ImplementsWatchers: whatever its loops do, PeriodicWatcher reports what a watcher may
\* report by the contract (lib/vm-watcher.js:17-30, lib/watchers/periodic-watcher.js:124-231).
THEOREM PeriodicImplements == Spec => ImplementsWatchers
BY PeriodicInit, PeriodicStep, RefinesInit, RefinesStep, PTL DEF Spec, W!Spec, ImplementsWatchers
-----------------------------------------------------------------------------
(***************************************************************************)
(* SampledIsTold.                                                          *)
(***************************************************************************)
\* An entry of knownVms is a version of the VM that the listener is told of, or is
\* going to be; or it is marked destroyed.
KnownOf(v) ==
    LET k == knownVms[v]
    IN  \/ k = NoEntry
        \/ k.entry /\ k.destroyed
        \/ \E r \in 1..Len(cn[v]) :
              /\ k = Entry(VmadmView(cn[v][r])) /\ cn[v][r].exists
              /\ v \in emits \/ r <= told[v]

\* The mark is on the VMs that were gone when the last sample was taken.
Marked(v) == knownVms[v].entry => (knownVms[v].destroyed <=> ~cn[v][sample[v]].exists)

\* The listener has seen v like the last sample showed it.
SampleTold(v) ==
    v \notin emits =>
        \E i \in 1..Newer(told[v], firstSample[v]) : LooksLike(cn[v][i], cn[v][sample[v]])

\* The inductive invariant of SampledIsTold.
SampleInv ==
    /\ PeriodicInv
    /\ Versions(told)
    /\ HistoryInv
    /\ \A v \in VM : KnownOf(v)
    /\ sample = Unsampled => \A v \in VM : knownVms[v] = NoEntry
    /\ sample # Unsampled => \A v \in VM : Marked(v) /\ SampleTold(v)

LEMMA SampleInit == Init => SampleInv
<1> SUFFICES ASSUME Init PROVE SampleInv
    OBVIOUS
<1>1. PeriodicInv /\ Versions(told) /\ HistoryInv
    BY PeriodicInit, ToldInit, HistoryInit DEF Init
<1>2. sample = Unsampled /\ \A v \in VM : knownVms[v] = NoEntry
    BY DEF Init, VmWatcherInit
<1> QED
    BY <1>1, <1>2 DEF SampleInv, KnownOf

LEMMA NewerTyped ==
    ASSUME NEW a \in Nat, NEW b \in Nat
    PROVE  Newer(a, b) \in {a, b} /\ a <= Newer(a, b) /\ b <= Newer(a, b)
BY DEF Newer

\* A sample that was taken shows a version of every VM.
LEMMA SampleVersions ==
    ASSUME PeriodicInv, sample # Unsampled, NEW v \in VM
    PROVE  sample[v] \in Nat /\ sample[v] >= 1 /\ sample[v] <= Len(cn[v])
BY Bounds DEF PeriodicInv, Versions

LEMMA FirstSampleBound ==
    ASSUME PeriodicInv, NEW v \in VM
    PROVE  firstSample[v] \in Nat /\ firstSample[v] <= Len(cn[v]) /\ Len(cn[v]) \in Nat
<1>1. Len(cn[v]) \in 1..MaxVer
    BY DEF PeriodicInv, WatcherInv
<1>2. CASE firstSample = Unsampled
    BY <1>1, <1>2, Bounds DEF Unsampled
<1>3. CASE Versions(firstSample)
    BY <1>1, <1>3, Bounds DEF Versions
<1> QED
    BY <1>2, <1>3 DEF PeriodicInv

LEMMA ToldBound ==
    ASSUME WatcherInv, Versions(told), NEW v \in VM
    PROVE  told[v] \in Nat /\ told[v] >= 1 /\ told[v] <= Len(cn[v])
BY Bounds DEF Versions

\* The clauses about one VM, in a step that reports nothing: the VM may become something
\* new, its event may be emitted or the listener may look.
LEMMA UnreportedKeeps ==
    ASSUME SampleInv, UNCHANGED <<knownVms, sample, firstSample>>, emits' \subseteq emits,
           NEW v \in VM,
           Len(cn'[v]) \in Nat, Len(cn[v]) <= Len(cn'[v]),
           \A i \in 1..Len(cn[v]) : cn'[v][i] = cn[v][i],
           told'[v] \in Nat, told[v] <= told'[v],
           v \in emits => v \in emits' \/ told'[v] = Len(cn[v])
    PROVE  KnownOf(v)' /\ (sample # Unsampled => Marked(v)' /\ SampleTold(v)')
<1>1. told[v] \in Nat /\ told[v] >= 1 /\ told[v] <= Len(cn[v])
    BY ToldBound DEF SampleInv, PeriodicInv
<1>2. firstSample[v] \in Nat /\ firstSample[v] <= Len(cn[v]) /\ Len(cn[v]) \in Nat
    BY FirstSampleBound DEF SampleInv
<1>3. KnownOf(v)'
    <2>1. CASE knownVms[v] = NoEntry \/ (knownVms[v].entry /\ knownVms[v].destroyed)
        BY <2>1 DEF KnownOf
    <2>2. CASE \E r \in 1..Len(cn[v]) : /\ knownVms[v] = Entry(VmadmView(cn[v][r])) /\ cn[v][r].exists
                                        /\ v \in emits \/ r <= told[v]
        <3>1. PICK r \in 1..Len(cn[v]) : /\ knownVms[v] = Entry(VmadmView(cn[v][r])) /\ cn[v][r].exists
                                         /\ v \in emits \/ r <= told[v]
            BY <2>2
        <3>2. r \in 1..Len(cn'[v]) /\ cn'[v][r] = cn[v][r]
            BY <1>2
        <3>3. v \in emits' \/ r <= told'[v]
            BY <1>1, <1>2, <3>1
        <3> QED
            BY <3>1, <3>2, <3>3 DEF KnownOf
    <2> QED
        BY <2>1, <2>2 DEF SampleInv, KnownOf
<1>4. ASSUME sample # Unsampled PROVE Marked(v)' /\ SampleTold(v)'
    <2>1. sample[v] \in Nat /\ sample[v] >= 1 /\ sample[v] <= Len(cn[v])
        BY <1>4, SampleVersions DEF SampleInv
    <2>2. cn'[v][sample[v]] = cn[v][sample[v]]
        BY <1>2, <2>1
    <2>3. Marked(v)'
        BY <1>4, <2>2 DEF SampleInv, Marked
    <2>4. ASSUME v \notin emits'
          PROVE  \E i \in 1..Newer(told'[v], firstSample[v]) : LooksLike(cn'[v][i], cn'[v][sample[v]])
        <3>1. CASE v \notin emits
            <4>1. PICK i \in 1..Newer(told[v], firstSample[v]) : LooksLike(cn[v][i], cn[v][sample[v]])
                BY <1>4, <3>1 DEF SampleInv, SampleTold
            <4>2. Newer(told[v], firstSample[v]) \in Nat /\ i <= Len(cn[v])
                BY <1>1, <1>2, NewerTyped
            <4>3. Newer(told[v], firstSample[v]) <= Newer(told'[v], firstSample[v])
                BY <1>1, <1>2 DEF Newer
            <4>4. Newer(told'[v], firstSample[v]) \in Nat
                BY <1>2, NewerTyped
            <4>5. i \in 1..Newer(told'[v], firstSample[v]) /\ cn'[v][i] = cn[v][i]
                BY <1>2, <4>2, <4>3, <4>4
            <4> QED
                BY <2>2, <4>1, <4>5
        <3>2. CASE v \in emits
            <4>1. told'[v] = Len(cn[v])
                BY <2>4, <3>2
            <4>2. sample[v] \in 1..Newer(told'[v], firstSample[v])
                BY <1>2, <2>1, <4>1, NewerTyped
            <4> QED
                BY <4>2 DEF LooksLike
        <3> QED
            BY <3>1, <3>2
    <2> QED
        BY <2>3, <2>4 DEF SampleTold
<1> QED
    BY <1>3, <1>4

-----------------------------------------------------------------------------
\* What the comparison of two samples makes of one VM: it is news, unless the VM looks
\* the same, or what is known of it is as new, or newer.
LEMMA ComparedOne ==
    ASSUME SampleInv, sample # Unsampled, NEW v \in VM, NEW a \in 1..Len(cn[v])
    PROVE  LET old == cn[v][sample[v]]
               new == cn[v][a]
               d == DispatchChange(knownVms[v], "periodic", old, new)
           IN  \/ d = News(Entry(VmadmView(new))) /\ new.exists
               \/ d = News(Gone(knownVms[v].fields)) /\ ~new.exists
               \/ /\ d = Silently(knownVms[v]) /\ old.exists = new.exists
                  /\ \/ LooksLike(old, new)
                     \/ v \in emits
                     \/ \E i \in 1..told[v] : LooksLike(cn[v][i], new)
<1> DEFINE old == cn[v][sample[v]]
<1> DEFINE new == cn[v][a]
<1> DEFINE k == knownVms[v]
<1> DEFINE d == DispatchChange(k, "periodic", old, new)
<1>1. Marked(v) /\ KnownOf(v) /\ IsKnown(k)
    BY DEF SampleInv, PeriodicInv, WatcherInv
<1>2. \A o : Seen("periodic", o) = VmadmView(o)
    BY DEF Seen
<1>3. d = IF new.exists /\ ~old.exists THEN DispatchCreate(k, VmadmView(new))
          ELSE IF old.exists /\ ~new.exists THEN DispatchDelete(k)
          ELSE IF new.exists /\ VmadmView(old) # VmadmView(new)
               THEN DispatchModify(k, VmadmView(new), "periodic")
          ELSE Silently(k)
    BY <1>2 DEF DispatchChange, Modified, NoReport
<1>4. told[v] \in Nat /\ told[v] >= 1 /\ told[v] <= Len(cn[v])
    BY ToldBound DEF SampleInv, PeriodicInv
<1>5. cn[v] \in Seq(VmState) /\ Len(cn[v]) \in Nat
    BY Bounds DEF SampleInv, PeriodicInv, WatcherInv
<1>6. old.exists \in BOOLEAN /\ new.exists \in BOOLEAN
    <2>1. sample[v] \in 1..Len(cn[v])
        BY <1>5, SampleVersions DEF SampleInv
    <2>2. old \in VmState /\ new \in VmState
        BY <1>5, <2>1
    <2> QED
        BY <2>2 DEF VmState
<1> HIDE DEF d
<1>7. CASE new.exists /\ ~old.exists
    <2>1. ~k.entry \/ k.destroyed
        BY <1>1, <1>7 DEF Marked
    <2> QED
        BY <1>3, <1>7, <2>1, VmadmCreate DEF d
<1>8. CASE old.exists /\ ~new.exists
    <2>1. ~k.destroyed
        BY <1>1, <1>8 DEF Marked, IsKnown, NoEntry
    <2>2. d = News(Gone(k.fields))
        BY <1>3, <1>8, <2>1 DEF DispatchDelete, Gone
    <2> QED
        BY <1>8, <2>2 DEF d
<1>9. CASE new.exists /\ old.exists /\ VmadmView(old) # VmadmView(new)
    <2>1. d = DispatchModify(k, VmadmView(new), "periodic")
        BY <1>3, <1>9
    <2>2. CASE k = NoEntry
        BY <1>9, <2>1, <2>2, VmadmModifyFirst DEF d
    <2>3. CASE k.entry /\ k.destroyed
        BY <1>1, <1>9, <2>3 DEF Marked
    <2>4. CASE \E r \in 1..Len(cn[v]) : /\ k = Entry(VmadmView(cn[v][r])) /\ cn[v][r].exists
                                        /\ v \in emits \/ r <= told[v]
        <3>1. PICK r \in 1..Len(cn[v]) : /\ k = Entry(VmadmView(cn[v][r])) /\ cn[v][r].exists
                                         /\ v \in emits \/ r <= told[v]
            BY <2>4
        <3>2. d = IF VmadmView(cn[v][r]) = VmadmView(new) \/ Refused(VmadmView(cn[v][r]), VmadmView(new))
                  THEN Silently(k) ELSE News(Entry(VmadmView(new)))
            BY <2>1, <3>1, VmadmModify
        <3>3. ASSUME VmadmView(cn[v][r]) = VmadmView(new), r <= told[v]
              PROVE  \E i \in 1..told[v] : LooksLike(cn[v][i], new)
            <4>1. r \in 1..told[v]
                BY <1>4, <3>3
            <4> QED
                BY <1>6, <1>9, <3>1, <3>3, <4>1 DEF LooksLike
        <3>4. ASSUME Refused(VmadmView(cn[v][r]), VmadmView(new)), r <= told[v]
              PROVE  \E i \in 1..told[v] : LooksLike(cn[v][i], new)
            <4>1. cn[v][r] \in VmState /\ new \in VmState
                BY <1>5
            <4>2. cn[v][r].last_modified \in Nat /\ new.last_modified \in Nat
                BY <4>1, Bounds DEF VmState
            <4>3. cn[v][r].last_modified > new.last_modified
                BY <3>4, <4>2, VmadmUpdate, RefusedIsOlder
            <4>4. ~(r <= a)
                BY <4>2, <4>3 DEF SampleInv, HistoryInv, History
            <4>5. a \in 1..told[v]
                BY <1>4, <1>5, <3>4, <4>4
            <4> QED
                BY <4>5 DEF LooksLike
        <3> QED
            BY <1>9, <3>1, <3>2, <3>3, <3>4 DEF d
    <2> QED
        BY <1>1, <2>2, <2>3, <2>4 DEF KnownOf
<1>10. CASE old.exists = new.exists /\ (new.exists => VmadmView(old) = VmadmView(new))
    BY <1>3, <1>10 DEF d, LooksLike
<1> QED
    BY <1>6, <1>7, <1>8, <1>9, <1>10

LEMMA FirstSampleTells ==
    ASSUME SampleInv, NEW l \in Loop, HandleVmobjs(l), sample = Unsampled, NEW v \in VM
    PROVE  KnownOf(v)' /\ Marked(v)' /\ SampleTold(v)'
<1> DEFINE a == answer[l][v]
<1>1. UNCHANGED watcherVars /\ sample' = answer[l] /\ firstSample' = answer[l]
    BY DEF HandleVmobjs
<1>2. knownVms[v] = NoEntry
    BY DEF SampleInv
<1>3. KnownOf(v)' /\ Marked(v)'
    BY <1>1, <1>2 DEF KnownOf, Marked, NoEntry, watcherVars
<1>4. Versions(answer[l])
    BY DEF HandleVmobjs, SampleInv, PeriodicInv
<1>5. a \in Nat /\ a >= 1 /\ told[v] \in Nat
    BY <1>4, Bounds DEF Versions, SampleInv, PeriodicInv, WatcherInv
<1>6. a \in 1..Newer(told[v], a)
    BY <1>5, NewerTyped
<1>7. LooksLike(cn'[v][a], cn'[v][a])
    BY DEF LooksLike
<1>8. told' = told /\ firstSample'[v] = a /\ sample'[v] = a
    BY <1>1 DEF watcherVars
<1> HIDE DEF a
<1>9. SampleTold(v)'
    BY <1>6, <1>7, <1>8 DEF SampleTold
<1> QED
    BY <1>3, <1>9

LEMMA LaterSampleTells ==
    ASSUME SampleInv, NEW l \in Loop, HandleVmobjs(l), sample # Unsampled, NEW v \in VM
    PROVE  KnownOf(v)' /\ Marked(v)' /\ SampleTold(v)'
<1> DEFINE a == answer[l][v]
<1> DEFINE old == cn[v][sample[v]]
<1> DEFINE new == cn[v][a]
<1> DEFINE d == DispatchChange(knownVms[v], "periodic", old, new)
<1>1. /\ UpdateHandler("periodic", [u \in VM |-> cn[u][sample[u]]], [u \in VM |-> cn[u][answer[l][u]]])
      /\ UNCHANGED <<cn, told, firstSample>>
      /\ sample'[v] = a
    BY DEF HandleVmobjs
<1>2. /\ knownVms'[v] = d.known
      /\ v \in emits' <=> v \in emits \/ d.emit
    BY <1>1, ReportOfOne
<1>3. Len(cn[v]) \in Nat /\ told[v] \in Nat /\ told[v] >= 1 /\ told[v] <= Len(cn[v])
    BY ToldBound, Bounds DEF SampleInv, PeriodicInv, WatcherInv
<1>4. a \in 1..Len(cn[v])
    <2>1. Versions(answer[l])
        BY DEF HandleVmobjs, SampleInv, PeriodicInv
    <2> QED
        BY <1>3, <2>1, Bounds DEF Versions
<1>5. Marked(v) /\ KnownOf(v) /\ SampleTold(v) /\ IsKnown(knownVms[v])
    BY DEF SampleInv, PeriodicInv, WatcherInv
<1>6. firstSample[v] \in Nat
    BY FirstSampleBound DEF SampleInv
<1>7. /\ told[v] <= Newer(told[v], firstSample[v])
      /\ Newer(told[v], firstSample[v]) \in Nat
    BY <1>3, <1>6, NewerTyped
<1>8. cn'[v][sample'[v]] = new
    BY <1>1
<1>9. \/ d = News(Entry(VmadmView(new))) /\ new.exists
      \/ d = News(Gone(knownVms[v].fields)) /\ ~new.exists
      \/ /\ d = Silently(knownVms[v]) /\ old.exists = new.exists
         /\ \/ LooksLike(old, new)
            \/ v \in emits
            \/ \E i \in 1..told[v] : LooksLike(cn[v][i], new)
    BY <1>4, ComparedOne
<1> HIDE DEF d
<1>10. CASE d = News(Entry(VmadmView(new))) /\ new.exists
    <2>1. knownVms'[v] = Entry(VmadmView(new)) /\ v \in emits'
        BY <1>2, <1>10 DEF News
    <2>2. KnownOf(v)'
        BY <1>1, <1>4, <1>10, <2>1 DEF KnownOf
    <2> QED
        BY <1>8, <1>10, <2>1, <2>2 DEF Marked, SampleTold, Entry
<1>11. CASE d = News(Gone(knownVms[v].fields)) /\ ~new.exists
    <2>1. knownVms'[v] = Gone(knownVms[v].fields) /\ v \in emits'
        BY <1>2, <1>11 DEF News
    <2> QED
        BY <1>8, <1>11, <2>1 DEF KnownOf, Marked, SampleTold, Gone
<1>12. CASE /\ d = Silently(knownVms[v]) /\ old.exists = new.exists
            /\ \/ LooksLike(old, new)
               \/ v \in emits
               \/ \E i \in 1..told[v] : LooksLike(cn[v][i], new)
    <2>1. knownVms'[v] = knownVms[v] /\ (v \in emits' <=> v \in emits)
        BY <1>2, <1>12 DEF Silently
    <2>2. KnownOf(v)' /\ Marked(v)'
        BY <1>1, <1>5, <1>8, <1>12, <2>1 DEF KnownOf, Marked
    <2>3. ASSUME v \notin emits
          PROVE  \E i \in 1..Newer(told[v], firstSample[v]) : LooksLike(cn[v][i], new)
        <3>1. CASE LooksLike(old, new)
            <4>1. PICK i \in 1..Newer(told[v], firstSample[v]) : LooksLike(cn[v][i], old)
                BY <1>5, <2>3 DEF SampleTold
            <4>2. LooksLike(cn[v][i], new)
                BY <3>1, <4>1 DEF LooksLike
            <4> QED
                BY <4>2
        <3>2. CASE \E i \in 1..told[v] : LooksLike(cn[v][i], new)
            BY <1>3, <1>7, <3>2
        <3> QED
            BY <1>12, <2>3, <3>1, <3>2
    <2> HIDE DEF new
    <2>4. SampleTold(v)'
        BY <1>1, <1>8, <2>1, <2>3 DEF SampleTold
    <2> QED
        BY <2>2, <2>4
<1> QED
    BY <1>9, <1>10, <1>11, <1>12

LEMMA SampleStep == SampleInv /\ [Next]_vars => SampleInv'
<1> SUFFICES ASSUME SampleInv, [Next]_vars PROVE SampleInv'
    OBVIOUS
<1>1. PeriodicInv' /\ WatcherInv /\ WatcherInv'
    BY PeriodicStep DEF SampleInv, PeriodicInv
<1>2. \A v \in VM : Len(cn[v]) \in Nat /\ Len(cn'[v]) \in Nat /\ told[v] \in Nat /\ told'[v] \in Nat
    BY <1>1, Bounds DEF WatcherInv
<1>3. \A v \in VM : told[v] <= Len(cn[v])
    BY <1>1, ToldBound DEF SampleInv
<1>4. CASE \E l \in Loop : HandleVmobjs(l)
    <2>1. PICK l \in Loop : HandleVmobjs(l)
        BY <1>4
    <2>2. UNCHANGED <<cn, told>> /\ sample' = answer[l] /\ Versions(answer[l])
        BY <2>1 DEF HandleVmobjs, watcherVars, SampleInv, PeriodicInv
    <2>3. Versions(told)' /\ HistoryInv'
        BY <1>1, <2>2, ToldStays, HistoryStays DEF SampleInv
    <2>4. \A v \in VM : KnownOf(v)' /\ Marked(v)' /\ SampleTold(v)'
        BY <2>1, FirstSampleTells, LaterSampleTells
    <2>5. sample' = Unsampled => \A v \in VM : knownVms'[v] = NoEntry
        BY <2>2, Bounds DEF Unsampled, Versions
    <2> QED
        BY <1>1, <2>3, <2>4, <2>5 DEF SampleInv, Unsampled
<1>5. ASSUME UNCHANGED <<knownVms, sample, firstSample>>, emits' \subseteq emits,
             Versions(told)', HistoryInv',
             \A v \in VM : /\ Len(cn[v]) <= Len(cn'[v]) /\ told[v] <= told'[v]
                           /\ \A i \in 1..Len(cn[v]) : cn'[v][i] = cn[v][i]
                           /\ v \in emits => v \in emits' \/ told'[v] = Len(cn[v])
      PROVE  SampleInv'
    <2>1. \A v \in VM : KnownOf(v)' /\ (sample # Unsampled => Marked(v)' /\ SampleTold(v)')
        BY <1>2, <1>5, UnreportedKeeps
    <2>2. sample = Unsampled => \A v \in VM : knownVms'[v] = NoEntry
        BY <1>5 DEF SampleInv
    <2> QED
        BY <1>1, <1>5, <2>1, <2>2 DEF SampleInv, Unsampled
<1>6. ASSUME NEW v \in VM, CnChange(v), UNCHANGED <<knownVms, emits, told, loopVars>>
      PROVE  SampleInv'
    <2>1. Versions(told)' /\ HistoryInv'
        BY <1>1, <1>6, ToldStays, HistoryStays DEF SampleInv
    <2>2. \A u \in VM : /\ Len(cn[u]) <= Len(cn'[u])
                        /\ \A i \in 1..Len(cn[u]) : cn'[u][i] = cn[u][i]
        BY <1>1, <1>6, CnChangeKeeps
    <2>3. \A u \in VM : told[u] <= told'[u]
        BY <1>2, <1>6
    <2> QED
        BY <1>5, <1>6, <2>1, <2>2, <2>3 DEF loopVars
<1>7. ASSUME NEW v \in VM, EmitImmediately(v), UNCHANGED loopVars
      PROVE  SampleInv'
    <2>1. UNCHANGED cn /\ Versions(told)' /\ HistoryInv'
        BY <1>1, <1>7, ToldStays, HistoryStays DEF SampleInv, EmitImmediately
    <2>2. told' = [told EXCEPT ![v] = Len(cn[v])] /\ told \in [VM -> 1..MaxVer]
        BY <1>1, <1>7 DEF EmitImmediately, WatcherInv
    <2>3. \A u \in VM : told[u] <= told'[u] /\ (u = v => told'[u] = Len(cn[u]))
        BY <1>2, <1>3, <2>2
    <2>4. emits' = emits \ {v} /\ UNCHANGED <<knownVms, sample, firstSample>>
        BY <1>7 DEF EmitImmediately, loopVars
    <2> QED
        BY <1>2, <1>5, <2>1, <2>3, <2>4
<1>8. ASSUME AgentLooks PROVE SampleInv'
    <2>1. ListenerLooks /\ UNCHANGED <<cn, knownVms, emits, sample, firstSample>>
        BY <1>8 DEF AgentLooks, ListenerLooks
    <2>2. Versions(told)' /\ HistoryInv'
        BY <1>1, <2>1, ToldStays, HistoryStays DEF SampleInv
    <2>3. \A u \in VM : told'[u] = Len(cn[u])
        BY <2>1 DEF ListenerLooks
    <2> QED
        BY <1>2, <1>3, <1>5, <2>1, <2>2, <2>3
<1>9. ASSUME UNCHANGED <<watcherVars, sample, firstSample>> PROVE SampleInv'
    <2>1. UNCHANGED <<cn, knownVms, emits, told>>
        BY <1>9 DEF watcherVars
    <2>2. Versions(told)' /\ HistoryInv'
        BY <1>1, <2>1, ToldStays, HistoryStays DEF SampleInv
    <2> QED
        BY <1>2, <1>5, <1>9, <2>1, <2>2
<1>10. CASE \/ Start \/ Stop
            \/ \E l \in Loop : Lookup(l) \/ LookupFails(l) \/ TimerFires(l)
            \/ UNCHANGED vars
    BY <1>9, <1>10 DEF Start, Stop, Lookup, LookupFails, TimerFires, vars, loopVars
<1> QED
    BY <1>4, <1>6, <1>7, <1>8, <1>10 DEF Next

LEMMA SampleInvTold == SampleInv => SampledIsTold
<1> SUFFICES ASSUME SampleInv, NEW v \in VM, sample[v] = Len(cn[v]), v \notin emits
             PROVE  UpToDate(v)
    BY DEF SampledIsTold
<1>1. told[v] \in Nat /\ told[v] >= 1 /\ firstSample[v] \in Nat
    BY ToldBound, FirstSampleBound DEF SampleInv, PeriodicInv
<1>2. sample # Unsampled
    BY <1>1, ToldBound, Bounds DEF Unsampled, SampleInv, PeriodicInv, WatcherInv
<1>3. PICK i \in 1..Newer(told[v], firstSample[v]) : LooksLike(cn[v][i], Last(v))
    BY <1>2 DEF SampleInv, SampleTold, Last
<1>4. Newer(told[v], firstSample[v]) \in Nat
    BY <1>1, NewerTyped
<1>5. i = Newer(told[v], firstSample[v]) \/ i \in 1..(Newer(told[v], firstSample[v]) - 1)
    BY <1>3, <1>4
<1> QED
    BY <1>3, <1>5 DEF UpToDate

\* SampledIsTold holds always, for any number of VMs, of loops and of lookups that cross
\* and whatever becomes of the VMs: what the last sample shows the listener was told of,
\* or saw itself, or it was so before the first sample
\* (lib/watchers/periodic-watcher.js:124-231, lib/vm-watcher.js:177-404).
THEOREM SampledTold == Spec => []SampledIsTold
BY SampleInit, SampleStep, SampleInvTold, PTL DEF Spec

=============================================================================

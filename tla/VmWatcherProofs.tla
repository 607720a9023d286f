-------------------------- MODULE VmWatcherProofs --------------------------
(***************************************************************************)
(* Lemmas about the VMs of the CN and the dispatching of reports, for the  *)
(* proofs about the watchers.                                              *)
(***************************************************************************)
EXTENDS VmWatcher, FiniteSetTheorems, TLAPS

\* What VmWatcherTypeOK says of one entry of knownVms.
IsKnown(k) == DOMAIN k.fields \subseteq Fields /\ (~k.entry => k = NoEntry)

\* The type invariant in the form that is inductive.
WatcherInv ==
    /\ cn \in [VM -> Seq(VmState)]
    /\ \A v \in VM : Len(cn[v]) \in 1..MaxVer
    /\ \A v \in VM : IsKnown(knownVms[v])
    /\ emits \subseteq VM
    /\ told \in [VM -> 1..MaxVer]

LEMMA WatcherInvType == WatcherInv => VmWatcherTypeOK
BY DEF WatcherInv, VmWatcherTypeOK, IsKnown

LEMMA Bounds == MaxVer \in Nat \ {0} /\ MaxTime \in Nat \ {0} /\ MS_PER_SEC \in Nat \ {0}
BY BoundAssumption

\* What a watcher shows of a VM are watched fields.
LEMMA SeenFields ==
    ASSUME NEW w \in {"fs", "zoneevent", "periodic", "vmadm"}, NEW o
    PROVE  DOMAIN Seen(w, o) \subseteq Fields
BY DEF Seen, FsView, ZoneView, VmadmView, Fields

LEMMA WithoutFields ==
    ASSUME NEW obj, NEW f
    PROVE  DOMAIN Without(obj, f) \subseteq DOMAIN obj
BY DEF Without

\* updateIfNewer keeps the fields there are and adds some of the new ones.
LEMMA UpdateIfNewerFields ==
    ASSUME NEW known, NEW obj, DOMAIN known \subseteq Fields, DOMAIN obj \subseteq Fields
    PROVE  DOMAIN UpdateIfNewer(known, obj) \subseteq Fields
BY DEF UpdateIfNewer, Updated

LEMMA EntryIsKnown ==
    ASSUME NEW f, DOMAIN f \subseteq Fields
    PROVE  IsKnown(Entry(f))
BY DEF IsKnown, Entry

LEMMA CreateKnown ==
    ASSUME NEW k, IsKnown(k), NEW obj, DOMAIN obj \subseteq Fields
    PROVE  IsKnown(DispatchCreate(k, obj).known)
<1>1. DOMAIN <<>> \subseteq Fields
    OBVIOUS
<1>2. DOMAIN UpdateIfNewer(<<>>, obj) \subseteq Fields
    BY <1>1, UpdateIfNewerFields
<1>3. DOMAIN UpdateIfNewer(k.fields, obj) \subseteq Fields
    BY UpdateIfNewerFields DEF IsKnown
<1> QED
    BY <1>2, <1>3, EntryIsKnown DEF DispatchCreate, News, Silently

LEMMA ModifyKnown ==
    ASSUME NEW k, IsKnown(k), NEW obj, DOMAIN obj \subseteq Fields, NEW w
    PROVE  IsKnown(DispatchModify(k, obj, w).known)
<1> DEFINE special == Has(k.fields, "state") /\ k.fields["state"] = "provisioning"
<1> DEFINE o == IF w # "periodic" /\ special THEN Without(obj, "state") ELSE obj
<1>1. DOMAIN o \subseteq Fields
    BY WithoutFields
<1> HIDE DEF o
<1>2. DOMAIN UpdateIfNewer(k.fields, o) \subseteq Fields
    BY <1>1, UpdateIfNewerFields DEF IsKnown
<1>3. IsKnown(Entry(UpdateIfNewer(k.fields, o))) /\ IsKnown(Entry(k.fields))
    BY <1>2, EntryIsKnown DEF IsKnown
<1>4. DispatchModify(k, obj, w) =
        IF k.destroyed THEN Silently(k)
        ELSE IF Updated(k.fields, o) # {} THEN News(Entry(UpdateIfNewer(k.fields, o)))
        ELSE Silently(Entry(k.fields))
    BY DEF DispatchModify, o
<1> QED
    BY <1>3, <1>4 DEF News, Silently

LEMMA DeleteKnown ==
    ASSUME NEW k, IsKnown(k)
    PROVE  IsKnown(DispatchDelete(k).known)
BY DEF DispatchDelete, News, Silently, IsKnown

LEMMA ChangeKnown ==
    ASSUME NEW k, IsKnown(k), NEW w \in {"fs", "zoneevent", "periodic", "vmadm"}, NEW old, NEW new
    PROVE  IsKnown(DispatchChange(k, w, old, new).known)
<1>1. DOMAIN Seen(w, new) \subseteq Fields /\ DOMAIN ZoneView(new) \subseteq Fields
    BY SeenFields DEF ZoneView, Fields
<1>2. IsKnown(DispatchCreate(k, Seen(w, new)).known)
    BY <1>1, CreateKnown
<1>3. IsKnown(DispatchModify(k, Seen(w, new), w).known) /\ IsKnown(DispatchModify(k, ZoneView(new), w).known)
    BY <1>1, ModifyKnown
<1>4. IsKnown(DispatchDelete(k).known) /\ IsKnown(NoReport(k).known)
    BY DeleteKnown DEF NoReport, Silently
<1> QED
    BY <1>2, <1>3, <1>4 DEF DispatchChange

\* A report keeps the entries of knownVms in their form.
LEMMA ReportKeeps ==
    ASSUME WatcherInv, NEW w \in {"fs", "zoneevent", "periodic", "vmadm"}, NEW from, NEW to,
           UpdateHandler(w, from, to)
    PROVE  (\A v \in VM : IsKnown(knownVms'[v])) /\ emits' \subseteq VM
<1> DEFINE outcome == [v \in VM |-> DispatchChange(knownVms[v], w, from[v], to[v])]
<1>1. knownVms' = [v \in VM |-> outcome[v].known] /\ emits' = emits \cup {v \in VM : outcome[v].emit}
    BY DEF UpdateHandler
<1>2. \A v \in VM : IsKnown(outcome[v].known)
    BY ChangeKnown DEF WatcherInv
<1> HIDE DEF outcome
<1> QED
    BY <1>1, <1>2 DEF WatcherInv

-----------------------------------------------------------------------------
LEMMA LastTyped ==
    ASSUME WatcherInv, NEW v \in VM
    PROVE  Last(v) \in VmState
<1>1. cn[v] \in Seq(VmState) /\ Len(cn[v]) \in 1..MaxVer
    BY DEF WatcherInv
<1> QED
    BY <1>1 DEF Last

LEMMA NewQuotaTyped ==
    ASSUME WatcherInv, NEW v \in VM
    PROVE  /\ NewQuota(v) \in 0..MaxVer
           /\ Last(v).quota \in 0..MaxVer
<1>1. Last(v).quota \in 0..MaxVer
    BY LastTyped DEF VmState
<1>2. Len(cn[v]) \in 0..MaxVer
    BY DEF WatcherInv
<1> QED
    BY <1>1, <1>2 DEF NewQuota

LEMMA LaterTyped ==
    ASSUME WatcherInv, NEW v \in VM, NEW t \in Later(v)
    PROVE  t \in 0..MaxTime
BY LastTyped, Bounds DEF Later, VmState

\* A new state of a VM is the next version of it.
LEMMA BecomesKeeps ==
    ASSUME WatcherInv, NEW v \in VM, NEW o \in VmState, Becomes(v, o)
    PROVE  /\ cn' \in [VM -> Seq(VmState)]
           /\ \A u \in VM : Len(cn'[u]) \in 1..MaxVer
           /\ \A u \in VM : Len(cn[u]) <= Len(cn'[u])
           /\ \A u \in VM : \A i \in 1..Len(cn[u]) : cn'[u][i] = cn[u][i]
<1>1. cn[v] \in Seq(VmState) /\ Len(cn[v]) \in 1..MaxVer /\ Len(cn[v]) < MaxVer
    BY DEF WatcherInv, Becomes
<1>2. cn' = [cn EXCEPT ![v] = Append(cn[v], o)] /\ cn \in [VM -> Seq(VmState)]
    BY DEF WatcherInv, Becomes
<1>3. Append(cn[v], o) \in Seq(VmState) /\ Len(Append(cn[v], o)) = Len(cn[v]) + 1
    BY <1>1
<1>4. \A i \in 1..Len(cn[v]) : Append(cn[v], o)[i] = cn[v][i]
    BY <1>1
<1>5. \A u \in VM : cn[u] \in Seq(VmState) /\ Len(cn[u]) \in 1..MaxVer
    BY DEF WatcherInv
<1>6. \A u \in VM : cn'[u] = IF u = v THEN Append(cn[v], o) ELSE cn[u]
    BY <1>2
<1>7. Len(cn[v]) + 1 \in 1..MaxVer /\ Len(cn[v]) <= Len(cn[v]) + 1
    BY <1>1, Bounds
<1>8. cn' \in [VM -> Seq(VmState)]
    BY <1>2, <1>3
<1>9. \A u \in VM : Len(cn'[u]) \in 1..MaxVer /\ Len(cn[u]) <= Len(cn'[u])
    <2> TAKE u \in VM
    <2>1. CASE u = v
        BY <2>1, <1>3, <1>6, <1>7
    <2>2. CASE u # v
        BY <2>2, <1>5, <1>6
    <2> QED
        BY <2>1, <2>2
<1>10. \A u \in VM : \A i \in 1..Len(cn[u]) : cn'[u][i] = cn[u][i]
    BY <1>4, <1>6
<1> QED
    BY <1>8, <1>9, <1>10

\* How a state of a VM may follow another.
Follows(v, o) ==
    /\ o.last_modified >= Last(v).last_modified
    /\ o.exists /\ Last(v).exists /\ o.state = "provisioning" => Last(v).state = "provisioning"
    /\ ~Last(v).exists => o.exists

\* Any change on the CN makes one VM a new state that may follow its last one.
LEMMA CnChangeBecomes ==
    ASSUME WatcherInv, NEW v \in VM, CnChange(v)
    PROVE  \E o \in VmState : Becomes(v, o) /\ Follows(v, o)
<1> DEFINE l == Last(v)
<1>1. l \in VmState /\ l.last_modified \in Nat
    BY LastTyped, Bounds DEF VmState
<1> HIDE DEF l
<1>2. CASE Created(v)
    <2>1. PICK t \in Later(v), s \in FirstStates, q \in {Last(v).quota, NewQuota(v)} :
             Becomes(v, [exists |-> TRUE, last_modified |-> t, state |-> s, quota |-> q])
        BY <1>2 DEF Created
    <2> DEFINE o == [exists |-> TRUE, last_modified |-> t, state |-> s, quota |-> q]
    <2>2. t \in 0..MaxTime /\ t >= l.last_modified
        BY <1>1, LaterTyped, Bounds DEF Later, l
    <2>3. s \in {"provisioning", "running", "stopped"} /\ (s = "provisioning" => Provisioning)
        BY DEF FirstStates, Lasting
    <2>4. q \in 0..MaxVer
        BY NewQuotaTyped
    <2>5. o \in VmState
        BY <2>2, <2>3, <2>4 DEF VmState
    <2>6. Follows(v, o)
        BY <1>2, <2>2, <2>3 DEF Follows, Created, l
    <2> HIDE DEF o
    <2> QED
        BY <2>1, <2>5, <2>6 DEF o
<1>3. CASE Configured(v)
    <2>1. PICK t \in Later(v), s \in {l.state, "running"} :
             Becomes(v, [l EXCEPT !.last_modified = t, !.state = s])
        BY <1>3 DEF Configured, l
    <2> DEFINE o == [l EXCEPT !.last_modified = t, !.state = s]
    <2>2. t \in 0..MaxTime /\ t >= l.last_modified
        BY <1>1, LaterTyped, Bounds DEF Later, l
    <2>3. o \in VmState
        BY <1>1, <2>2 DEF VmState
    <2>4. o.last_modified = t /\ o.state = s
        BY <1>1 DEF VmState
    <2>5. Follows(v, o)
        BY <1>3, <2>2, <2>4 DEF Follows, Configured, l
    <2> HIDE DEF o
    <2> QED
        BY <2>1, <2>3, <2>5 DEF o
<1>4. ASSUME NEW s \in {"running", "stopped"}, Last(v).exists, Becomes(v, [l EXCEPT !.state = s])
      PROVE  \E o \in VmState : Becomes(v, o) /\ Follows(v, o)
    <2> DEFINE o == [l EXCEPT !.state = s]
    <2>1. o \in VmState /\ o.last_modified = l.last_modified /\ o.state = s
        BY <1>1 DEF VmState
    <2>2. Follows(v, o)
        BY <1>1, <1>4, <2>1 DEF Follows, l
    <2> HIDE DEF o
    <2> QED
        BY <1>4, <2>1, <2>2 DEF o
<1>5. CASE Halted(v)
    BY <1>4, <1>5 DEF Halted, l
<1>6. CASE Booted(v)
    BY <1>4, <1>6 DEF Booted, l
<1>7. CASE QuotaSet(v)
    <2> DEFINE o == [l EXCEPT !.quota = NewQuota(v)]
    <2>1. Becomes(v, o) /\ Last(v).exists
        BY <1>7 DEF QuotaSet, l
    <2>2. o \in VmState /\ o.last_modified = l.last_modified /\ o.state = l.state
        BY <1>1, NewQuotaTyped DEF VmState
    <2>3. Follows(v, o)
        BY <1>1, <2>1, <2>2 DEF Follows, l
    <2> HIDE DEF o
    <2> QED
        BY <2>1, <2>2, <2>3
<1>8. CASE Deleted(v)
    <2> DEFINE o == [l EXCEPT !.exists = FALSE]
    <2>1. Becomes(v, o) /\ Last(v).exists
        BY <1>8 DEF Deleted, l
    <2>2. o \in VmState /\ o.last_modified = l.last_modified /\ o.state = l.state
        BY <1>1 DEF VmState
    <2>3. Follows(v, o)
        BY <1>1, <2>1, <2>2 DEF Follows, l
    <2> HIDE DEF o
    <2> QED
        BY <2>1, <2>2, <2>3
<1> QED
    BY <1>2, <1>3, <1>5, <1>6, <1>7, <1>8 DEF CnChange

LEMMA CnChangeKeeps ==
    ASSUME WatcherInv, NEW v \in VM, CnChange(v)
    PROVE  /\ cn' \in [VM -> Seq(VmState)]
           /\ \A u \in VM : Len(cn'[u]) \in 1..MaxVer
           /\ \A u \in VM : Len(cn[u]) <= Len(cn'[u])
           /\ \A u \in VM : \A i \in 1..Len(cn[u]) : cn'[u][i] = cn[u][i]
BY CnChangeBecomes, BecomesKeeps

-----------------------------------------------------------------------------
(***************************************************************************)
(* The invariant, for each kind of step of the modules that extend         *)
(* VmWatcher.                                                              *)
(***************************************************************************)
LEMMA WatcherInit == VmWatcherInit => WatcherInv
<1> SUFFICES ASSUME VmWatcherInit PROVE WatcherInv
    OBVIOUS
<1> DEFINE Initially == {<<[exists |-> e, last_modified |-> 0, state |-> s, quota |-> 0]>> :
                            e \in BOOLEAN, s \in Lasting}
<1>1. \A h \in Initially : h \in Seq(VmState) /\ Len(h) = 1
    <2> TAKE h \in Initially
    <2>1. PICK e \in BOOLEAN, s \in Lasting :
             h = <<[exists |-> e, last_modified |-> 0, state |-> s, quota |-> 0]>>
        OBVIOUS
    <2> DEFINE o == [exists |-> e, last_modified |-> 0, state |-> s, quota |-> 0]
    <2>2. s \in {"provisioning", "running", "stopped"} /\ 0 \in 0..MaxTime /\ 0 \in 0..MaxVer
        BY Bounds DEF Lasting
    <2>3. o \in VmState
        BY <2>2 DEF VmState
    <2>4. h = <<o>>
        BY <2>1
    <2> HIDE DEF o
    <2> QED
        BY <2>3, <2>4
<1>2. cn \in [VM -> Seq(VmState)] /\ \A v \in VM : Len(cn[v]) = 1
    <2>1. cn \in [VM -> Initially]
        BY DEF VmWatcherInit
    <2> HIDE DEF Initially
    <2> QED
        BY <1>1, <2>1
<1>3. 1 \in 1..MaxVer
    BY Bounds
<1>4. \A v \in VM : IsKnown(knownVms[v])
    BY DEF VmWatcherInit, IsKnown, NoEntry
<1> QED
    BY <1>2, <1>3, <1>4 DEF VmWatcherInit, WatcherInv

LEMMA CnChangeInv ==
    ASSUME WatcherInv, NEW v \in VM, CnChange(v), UNCHANGED <<knownVms, emits, told>>
    PROVE  WatcherInv'
BY CnChangeKeeps DEF WatcherInv, IsKnown

LEMMA EmitInv ==
    ASSUME WatcherInv, NEW v \in VM, EmitImmediately(v)
    PROVE  WatcherInv'
BY DEF WatcherInv, EmitImmediately, IsKnown

LEMMA LooksInv == ASSUME WatcherInv, ListenerLooks PROVE WatcherInv'
BY DEF WatcherInv, ListenerLooks, IsKnown

LEMMA ReportInv ==
    ASSUME WatcherInv, NEW w \in {"fs", "zoneevent", "periodic", "vmadm"}, NEW from, NEW to,
           UpdateHandler(w, from, to), UNCHANGED <<cn, told>>
    PROVE  WatcherInv'
BY ReportKeeps DEF WatcherInv, IsKnown

LEMMA StutterInv == ASSUME WatcherInv, UNCHANGED watcherVars PROVE WatcherInv'
BY DEF WatcherInv, watcherVars, IsKnown

-----------------------------------------------------------------------------
\* What a watcher saw: a version each of what the VMs have been.
Versions(k) == k \in [VM -> 1..MaxVer] /\ \A v \in VM : k[v] <= Len(cn[v])

LEMMA VersionsTyped == ASSUME NEW k, Versions(k) PROVE k \in [VM -> 0..MaxVer]
BY Bounds DEF Versions

\* Versions stay versions, whatever happens on the CN.
LEMMA VersionsStay ==
    ASSUME WatcherInv, NEW k, Versions(k),
           \/ UNCHANGED cn
           \/ \E v \in VM : CnChange(v)
    PROVE  Versions(k)'
<1>1. CASE UNCHANGED cn
    BY <1>1 DEF Versions
<1>2. CASE \E v \in VM : CnChange(v)
    <2>1. \A v \in VM : Len(cn[v]) \in 1..MaxVer /\ Len(cn'[v]) \in 1..MaxVer /\ Len(cn[v]) <= Len(cn'[v])
        BY <1>2, CnChangeKeeps DEF WatcherInv
    <2>2. \A v \in VM : k[v] \in 1..MaxVer /\ k[v] <= Len(cn[v])
        BY DEF Versions
    <2>3. \A v \in VM : k[v] <= Len(cn'[v])
        BY <2>1, <2>2, Bounds
    <2> QED
        BY <2>3 DEF Versions
<1> QED
    BY <1>1, <1>2

\* What there is now.
LEMMA NowVersions == WatcherInv => Versions([v \in VM |-> Len(cn[v])])
BY DEF WatcherInv, Versions
-----------------------------------------------------------------------------
(***************************************************************************)
(* What the listener looked at last, and what one report does to one VM.   *)
(***************************************************************************)
\* told stays a version of each VM.
LEMMA ToldInit == VmWatcherInit => Versions(told)
<1> SUFFICES ASSUME VmWatcherInit PROVE Versions(told)
    OBVIOUS
<1>1. WatcherInv
    BY WatcherInit
<1>2. \A v \in VM : 1 <= Len(cn[v])
    BY <1>1, Bounds DEF WatcherInv
<1>3. told \in [VM -> 1..MaxVer]
    BY <1>1 DEF WatcherInv
<1> QED
    BY <1>2, <1>3 DEF VmWatcherInit, Versions

LEMMA ToldStays ==
    ASSUME WatcherInv, Versions(told),
           \/ \E v \in VM : CnChange(v) /\ UNCHANGED told
           \/ UNCHANGED <<cn, told>>
           \/ \E v \in VM : EmitImmediately(v)
           \/ ListenerLooks
    PROVE  Versions(told)'
<1>1. CASE \E v \in VM : CnChange(v) /\ UNCHANGED told
    <2>1. \A v \in VM : Len(cn[v]) \in 1..MaxVer /\ Len(cn'[v]) \in 1..MaxVer /\ Len(cn[v]) <= Len(cn'[v])
        BY <1>1, CnChangeKeeps DEF WatcherInv
    <2>2. \A v \in VM : told[v] \in 1..MaxVer /\ told[v] <= Len(cn[v])
        BY DEF Versions
    <2>3. \A v \in VM : told[v] <= Len(cn'[v])
        BY <2>1, <2>2, Bounds
    <2> QED
        BY <1>1, <2>3 DEF Versions
<1>2. CASE UNCHANGED <<cn, told>>
    BY <1>2 DEF Versions
<1>3. ASSUME NEW v \in VM, EmitImmediately(v) PROVE Versions(told)'
    <2>1. told' = [told EXCEPT ![v] = Len(cn[v])] /\ cn' = cn
        BY <1>3 DEF EmitImmediately
    <2>2. \A u \in VM : Len(cn[u]) \in 1..MaxVer /\ Len(cn[u]) <= Len(cn[u])
        BY Bounds DEF WatcherInv
    <2> QED
        BY <2>1, <2>2 DEF Versions
<1>4. CASE ListenerLooks
    <2>1. told' = [v \in VM |-> Len(cn[v])] /\ cn' = cn
        BY <1>4 DEF ListenerLooks
    <2>2. \A u \in VM : Len(cn[u]) \in 1..MaxVer /\ Len(cn[u]) <= Len(cn[u])
        BY Bounds DEF WatcherInv
    <2> QED
        BY <2>1, <2>2 DEF Versions
<1> QED
    BY <1>1, <1>2, <1>3, <1>4

\* A report treats each VM by itself.
LEMMA ReportOfOne ==
    ASSUME NEW w, NEW from, NEW to, UpdateHandler(w, from, to), NEW v \in VM
    PROVE  /\ knownVms'[v] = DispatchChange(knownVms[v], w, from[v], to[v]).known
           /\ v \in emits' <=> v \in emits \/ DispatchChange(knownVms[v], w, from[v], to[v]).emit
BY DEF UpdateHandler

\* Of a VM that looks the same nothing is reported.
LEMMA SameIsSilent ==
    ASSUME NEW k, NEW w, NEW old, NEW new, old = new, w = "fs" => new.last_modified \in Nat
    PROVE  DispatchChange(k, w, old, new) = Silently(k)
BY DEF DispatchChange, Modified, NoReport
-----------------------------------------------------------------------------
(***************************************************************************)
(* The histories of the VMs.                                               *)
(***************************************************************************)
\* Times do not go back, nothing happens to a VM that is not there but that it is
\* created, and one that did not come back is provisioning first if at all.
History(h) ==
    /\ \A i, j \in 1..Len(h) : i <= j => h[i].last_modified <= h[j].last_modified
    /\ \A i \in 2..Len(h) : ~h[i].exists => h[i - 1].exists
    /\ (\A i \in 2..(Len(h) - 1) : h[i].exists) =>
          \A i, j \in 1..Len(h) :
             (i <= j /\ h[i].exists /\ h[j].exists /\ h[j].state = "provisioning")
             => h[i].state = "provisioning"

HistoryInv == \A v \in VM : History(cn[v])

LEMMA HistoryOf ==
    ASSUME NEW h, NEW m, Len(h) = m,
           \A i, j \in 1..m : i <= j => h[i].last_modified <= h[j].last_modified,
           \A i \in 2..m : ~h[i].exists => h[i - 1].exists,
           (\A i \in 2..(m - 1) : h[i].exists) =>
              \A i, j \in 1..m :
                 (i <= j /\ h[i].exists /\ h[j].exists /\ h[j].state = "provisioning")
                 => h[i].state = "provisioning"
    PROVE  History(h)
BY Zenon DEF History

LEMMA HistoryInit == VmWatcherInit => HistoryInv
<1> SUFFICES ASSUME VmWatcherInit, NEW v \in VM PROVE History(cn[v])
    BY DEF HistoryInv
<1>1. PICK e \in BOOLEAN, s \in Lasting :
         cn[v] = <<[exists |-> e, last_modified |-> 0, state |-> s, quota |-> 0]>>
    <2> DEFINE Initially == {<<[exists |-> e, last_modified |-> 0, state |-> s, quota |-> 0]>> :
                                e \in BOOLEAN, s \in Lasting}
    <2>1. cn \in [VM -> Initially]
        BY DEF VmWatcherInit
    <2> HIDE DEF Initially
    <2>2. cn[v] \in Initially
        BY <2>1
    <2> QED
        BY <2>2 DEF Initially
<1>2. Len(cn[v]) = 1 /\ cn[v][1].last_modified = 0
    BY <1>1
<1>3. \A i \in 1..Len(cn[v]) : i = 1
    BY <1>2
<1>4. \A i \in 2..Len(cn[v]) : FALSE
    BY <1>2
<1> QED
    BY <1>2, <1>3, <1>4 DEF History

LEMMA HistoryGrows ==
    ASSUME WatcherInv, HistoryInv, NEW v \in VM, NEW o \in VmState, Becomes(v, o), Follows(v, o)
    PROVE  HistoryInv'
<1> DEFINE n == Len(cn[v])
<1>1. cn[v] \in Seq(VmState) /\ n \in 1..MaxVer /\ cn' = [cn EXCEPT ![v] = Append(cn[v], o)]
    BY DEF WatcherInv, Becomes
<1>2. \A u \in VM : u # v => cn'[u] = cn[u]
    BY <1>1 DEF WatcherInv
<1>3. cn'[v] = Append(cn[v], o)
    BY <1>1 DEF WatcherInv
<1>4. /\ Len(cn'[v]) = n + 1 /\ cn'[v][n + 1] = o
      /\ \A i \in 1..n : cn'[v][i] = cn[v][i]
      /\ DOMAIN cn[v] = 1..n
    BY <1>1, <1>3
<1>5. n \in Nat \ {0} /\ Len(cn[v]) = n
    BY <1>1, Bounds
<1>6. \A i \in 1..n : cn[v][i] \in VmState /\ cn[v][i].last_modified \in Nat
    <2>1. \A i \in 1..n : cn[v][i] \in VmState
        BY <1>1, <1>4
    <2>2. \A p \in VmState : p.last_modified \in Nat
        BY Bounds DEF VmState
    <2> HIDE DEF n
    <2> QED
        BY <2>1, <2>2
<1>7. o.last_modified \in Nat /\ Last(v) = cn[v][n]
    BY Bounds DEF VmState, Last
<1> HIDE DEF n
<1>8. History(cn[v])
    BY DEF HistoryInv
<1>9. \A i, j \in 1..(n + 1) : i <= j => cn'[v][i].last_modified <= cn'[v][j].last_modified
    <2> SUFFICES ASSUME NEW i \in 1..(n + 1), NEW j \in 1..(n + 1), i <= j
                 PROVE  cn'[v][i].last_modified <= cn'[v][j].last_modified
        OBVIOUS
    <2>1. CASE j \in 1..n
        <3>1. i \in 1..n
            BY <1>5, <2>1
        <3> QED
            BY <1>4, <1>5, <1>8, <2>1, <3>1 DEF History
    <2>2. CASE j = n + 1 /\ i \in 1..n
        <3>1. cn[v][i].last_modified <= cn[v][n].last_modified
            BY <1>5, <1>8, <2>2 DEF History
        <3>2. o.last_modified >= cn[v][n].last_modified
            BY <1>7 DEF Follows
        <3>3. cn[v][n].last_modified \in Nat /\ cn[v][i].last_modified \in Nat
            BY <1>5, <1>6, <2>2
        <3> QED
            BY <1>4, <1>7, <2>2, <3>1, <3>2, <3>3
    <2>3. CASE j = n + 1 /\ i = n + 1
        BY <1>4, <1>7, <2>3
    <2> QED
        BY <1>5, <2>1, <2>2, <2>3
<1>10. ASSUME \A m \in 2..n : cn'[v][m].exists,
              NEW i \in 1..(n + 1), NEW j \in 1..(n + 1), i <= j,
              cn'[v][i].exists, cn'[v][j].exists, cn'[v][j].state = "provisioning"
       PROVE  cn'[v][i].state = "provisioning"
    <2>1. \A m \in 2..(n - 1) : cn[v][m].exists
        BY <1>4, <1>5, <1>10
    <2>2. CASE j \in 1..n
        <3>1. i \in 1..n
            BY <1>5, <1>10, <2>2
        <3> QED
            BY <1>4, <1>5, <1>8, <1>10, <2>1, <2>2, <3>1 DEF History
    <2>3. CASE j = n + 1 /\ i \in 1..n
        <3>1. i <= n /\ n \in 1..n
            BY <1>5, <2>3
        <3>2. o.exists /\ o.state = "provisioning" /\ cn[v][i].exists
            BY <1>4, <1>10, <2>3
        <3>3. cn[v][n].exists
            <4>1. CASE n = 1
                BY <1>5, <2>3, <3>2, <4>1
            <4>2. CASE n # 1
                <5>1. n \in 2..n
                    BY <1>5, <4>2
                <5> QED
                    BY <1>4, <1>10, <3>1, <5>1
            <4> QED
                BY <4>1, <4>2
        <3>4. cn[v][n].state = "provisioning"
            BY <1>7, <3>2, <3>3 DEF Follows
        <3>5. cn[v][i].state = "provisioning"
            BY <1>5, <1>8, <2>1, <2>3, <3>1, <3>2, <3>3, <3>4 DEF History
        <3> QED
            BY <1>4, <2>3, <3>5
    <2>4. CASE j = n + 1 /\ i = n + 1
        BY <1>10, <2>4
    <2> QED
        BY <1>5, <2>2, <2>3, <2>4
<1>11. ASSUME NEW i \in 2..(n + 1), ~cn'[v][i].exists PROVE cn'[v][i - 1].exists
    <2>1. CASE i \in 2..n
        <3>1. i \in 1..n /\ i - 1 \in 1..n
            BY <1>5, <2>1
        <3> QED
            BY <1>4, <1>5, <1>8, <1>11, <2>1, <3>1 DEF History
    <2>2. CASE i = n + 1
        <3>1. i - 1 = n /\ n \in 1..n
            BY <1>5, <2>2
        <3>2. cn'[v][i] = o /\ cn'[v][i - 1] = Last(v)
            BY <1>4, <1>7, <2>2, <3>1
        <3> QED
            BY <1>11, <3>2, Zenon DEF Follows
    <2> QED
        BY <1>5, <2>1, <2>2
<1>12. History(cn'[v])
    <2> DEFINE m == n + 1
    <2>1. Len(cn'[v]) = m
        BY <1>4
    <2>2. \A i \in 2..m : ~cn'[v][i].exists => cn'[v][i - 1].exists
        BY <1>11
    <2>3. \A i, j \in 1..m : i <= j => cn'[v][i].last_modified <= cn'[v][j].last_modified
        BY <1>9
    <2>4. (\A i \in 2..(m - 1) : cn'[v][i].exists) =>
            \A i, j \in 1..m :
               (i <= j /\ cn'[v][i].exists /\ cn'[v][j].exists /\ cn'[v][j].state = "provisioning")
               => cn'[v][i].state = "provisioning"
        <3>1. m - 1 = n /\ m = n + 1
            BY <1>5
        <3> HIDE DEF m
        <3> QED
            BY <1>10, <3>1
    <2> HIDE DEF m
    <2> QED
        BY <2>1, <2>2, <2>3, <2>4, HistoryOf
<1>13. \A u \in VM : History(cn'[u])
    BY <1>2, <1>12 DEF HistoryInv
<1> QED
    BY <1>13 DEF HistoryInv, History

LEMMA HistoryStays ==
    ASSUME WatcherInv, HistoryInv,
           \/ UNCHANGED cn
           \/ \E v \in VM : CnChange(v)
    PROVE  HistoryInv'
<1>1. CASE UNCHANGED cn
    BY <1>1 DEF HistoryInv, History
<1>2. CASE \E v \in VM : CnChange(v)
    BY <1>2, CnChangeBecomes, HistoryGrows
<1> QED
    BY <1>1, <1>2

\* The versions of a VM so far stay what they are.
LEMMA VersionsGrow ==
    ASSUME WatcherInv, NEW v \in VM,
           \/ UNCHANGED cn
           \/ \E w \in VM : CnChange(w)
    PROVE  /\ Len(cn'[v]) \in Nat /\ Len(cn[v]) <= Len(cn'[v])
           /\ \A i \in 1..Len(cn[v]) : cn'[v][i] = cn[v][i]
BY CnChangeKeeps, Bounds DEF WatcherInv

\* A VM that came back has come back.
LEMMA BackStays ==
    ASSUME NEW v \in VM, CameBack(v), Len(cn[v]) \in Nat, Len(cn'[v]) \in Nat, Len(cn[v]) <= Len(cn'[v]),
           \A i \in 1..Len(cn[v]) : cn'[v][i] = cn[v][i]
    PROVE  CameBack(v)'
<1>1. PICK i \in 2..(Len(cn[v]) - 1) : ~cn[v][i].exists
    BY DEF CameBack
<1>2. i \in 2..(Len(cn'[v]) - 1) /\ i \in 1..Len(cn[v])
    BY <1>1
<1>3. ~cn'[v][i].exists
    BY <1>1, <1>2
<1> QED
    BY <1>2, <1>3 DEF CameBack

-----------------------------------------------------------------------------
(***************************************************************************)
(* Times to the second: what is refused is older.                          *)
(***************************************************************************)
LEMMA SecondsBounds ==
    ASSUME NEW t \in Nat
    PROVE  Seconds(t) \in Nat /\ Seconds(t) <= t /\ t < Seconds(t) + MS_PER_SEC
BY Bounds DEF Seconds

LEMMA SecondsMultiple ==
    ASSUME NEW t \in Nat
    PROVE  t \div MS_PER_SEC \in Nat /\ Seconds(t) = MS_PER_SEC * (t \div MS_PER_SEC)
BY Bounds DEF Seconds

LEMMA NextMultiple ==
    ASSUME NEW a \in Nat, NEW b \in Nat, a > b
    PROVE  MS_PER_SEC * a >= MS_PER_SEC * b + MS_PER_SEC
<1>1. PICK c \in Nat : a = b + 1 + c
    <2>1. a - b - 1 \in Nat /\ a = b + 1 + (a - b - 1)
        OBVIOUS
    <2> QED
        BY <2>1
<1>2. MS_PER_SEC * a = MS_PER_SEC * b + MS_PER_SEC + MS_PER_SEC * c /\ MS_PER_SEC * c \in Nat
    BY Bounds, <1>1
<1> QED
    BY <1>2, Bounds

LEMMA SecondsMonotonic ==
    ASSUME NEW s \in Nat, NEW t \in Nat, s <= t
    PROVE  Seconds(s) <= Seconds(t)
<1> DEFINE a == s \div MS_PER_SEC
<1> DEFINE b == t \div MS_PER_SEC
<1>1. a \in Nat /\ b \in Nat /\ Seconds(s) = MS_PER_SEC * a /\ Seconds(t) = MS_PER_SEC * b
    BY SecondsMultiple
<1>2. Seconds(s) <= s /\ t < Seconds(t) + MS_PER_SEC /\ Seconds(s) \in Nat /\ Seconds(t) \in Nat
    BY SecondsBounds
<1> HIDE DEF a, b
<1>3. CASE a > b
    <2>1. Seconds(s) >= Seconds(t) + MS_PER_SEC
        BY <1>1, <1>3, NextMultiple
    <2> QED
        BY <1>2, <2>1, Bounds
<1>4. CASE b > a
    <2>1. Seconds(t) >= Seconds(s) + MS_PER_SEC
        BY <1>1, <1>4, NextMultiple
    <2> QED
        BY <1>2, <2>1, Bounds
<1>5. CASE a = b
    BY <1>1, <1>2, <1>5
<1> QED
    BY <1>1, <1>3, <1>4, <1>5

\* Cut to the second once more a time stays what it is, and it is rounded up past
\* every time of that second.
LEMMA SecondsAgain ==
    ASSUME NEW t \in Nat
    PROVE  Seconds(Seconds(t)) = Seconds(t) /\ t <= Rounded(Seconds(t)) /\ t <= Rounded(t)
<1>1. Seconds(t) \in Nat /\ Seconds(t) <= t /\ t < Seconds(t) + MS_PER_SEC
    BY SecondsBounds
<1> DEFINE s == Seconds(t)
<1> DEFINE a == t \div MS_PER_SEC
<1> DEFINE b == s \div MS_PER_SEC
<1>6. a \in Nat /\ s = MS_PER_SEC * a
    BY SecondsMultiple
<1>7. b \in Nat /\ Seconds(s) = MS_PER_SEC * b /\ Seconds(s) \in Nat
      /\ Seconds(s) <= s /\ s < Seconds(s) + MS_PER_SEC
    BY <1>1, SecondsMultiple, SecondsBounds
<1>8. Seconds(s) = s - (s % MS_PER_SEC) /\ s % MS_PER_SEC \in Nat
    BY <1>1, Bounds DEF Seconds
<1> HIDE DEF s, a, b
<1>3. Seconds(s) = s
    <2>1. CASE a > b
        BY <1>1, <1>6, <1>7, <2>1, NextMultiple, Bounds
    <2>2. CASE b > a
        BY <1>1, <1>6, <1>7, <2>2, NextMultiple, Bounds
    <2>3. CASE a = b
        BY <1>6, <1>7, <2>3
    <2> QED
        BY <1>6, <1>7, <2>1, <2>2, <2>3
<1>2. Seconds(t) % MS_PER_SEC = 0
    <2>1. s \in Nat
        BY <1>1 DEF s
    <2>2. \A x, y \in Nat : x = x - y => y = 0
        OBVIOUS
    <2>3. s % MS_PER_SEC = 0
        BY <1>3, <1>8, <2>1, <2>2
    <2> QED
        BY <2>3 DEF s
<1>4. t <= Rounded(Seconds(t))
    BY <1>1, <1>2, Bounds DEF Rounded
<1>5. t <= Rounded(t)
    BY Bounds DEF Rounded
<1> QED
    BY <1>3, <1>4, <1>5 DEF s

\* updateIfNewer refuses what vmadm shows only if it is older than what is known.
LEMMA RefusedIsOlder ==
    ASSUME NEW s \in Nat, NEW t \in Nat, Seconds(s) > Rounded(Seconds(t))
    PROVE  s > t
<1>1. Seconds(s) \in Nat /\ Seconds(t) \in Nat
    BY SecondsBounds
<1>2. Rounded(Seconds(t)) \in Nat /\ Rounded(Seconds(t)) >= Seconds(t)
    BY <1>1, Bounds DEF Rounded
<1>3. SUFFICES ASSUME s <= t PROVE FALSE
    OBVIOUS
<1>4. Seconds(s) <= Seconds(t)
    BY <1>3, SecondsMonotonic
<1> QED
    BY <1>1, <1>2, <1>4

-----------------------------------------------------------------------------
(***************************************************************************)
(* What knownVms makes of the VM objects that vmadm shows.                 *)
(***************************************************************************)
Gone(f) == [entry |-> TRUE, destroyed |-> TRUE, fields |-> f]

LEMMA VmadmFields ==
    ASSUME NEW o
    PROVE  LET z == VmadmView(o)
           IN  /\ DOMAIN z = Fields /\ z = [f \in Fields |-> z[f]]
               /\ z["state"] = o.state /\ z["last_modified"] = Seconds(o.last_modified)
BY DEF VmadmView, Fields

\* Of objects with all fields, all are taken over or none since they are older.
LEMMA FullUpdate ==
    ASSUME NEW y, NEW z, DOMAIN y = Fields, y = [f \in Fields |-> y[f]],
           DOMAIN z = Fields, z = [f \in Fields |-> z[f]]
    PROVE  /\ Refused(y, z) <=> y["last_modified"] > Rounded(z["last_modified"])
           /\ (Refused(y, z) \/ y = z) <=> Updated(y, z) = {}
           /\ Refused(y, z) => UpdateIfNewer(y, z) = y
           /\ ~Refused(y, z) => UpdateIfNewer(y, z) = z
           /\ Updated(<<>>, z) # {} /\ UpdateIfNewer(<<>>, z) = z
<1>1. "last_modified" \in Fields
    BY DEF Fields
<1>2. Refused(y, z) <=> y["last_modified"] > Rounded(z["last_modified"])
    BY <1>1 DEF Refused, Has
<1>3. (Refused(y, z) \/ y = z) <=> Updated(y, z) = {}
    <2>1. CASE Refused(y, z)
        BY <2>1 DEF Updated
    <2>2. CASE ~Refused(y, z)
        <3>1. Updated(y, z) = {f \in Fields : y[f] # z[f]}
            BY <2>2 DEF Updated, Has
        <3> QED
            BY <2>2, <3>1
    <2> QED
        BY <2>1, <2>2
<1>4. ASSUME ~Refused(y, z) PROVE UpdateIfNewer(y, z) = z
    <2>1. Updated(y, z) = {f \in Fields : y[f] # z[f]}
        BY <1>4 DEF Updated, Has
    <2>2. UpdateIfNewer(y, z) = [f \in Fields |-> IF f \in Updated(y, z) THEN z[f] ELSE y[f]]
        BY <2>1 DEF UpdateIfNewer
    <2>3. \A f \in Fields : (IF f \in Updated(y, z) THEN z[f] ELSE y[f]) = z[f]
        BY <2>1
    <2> QED
        BY <2>2, <2>3
<1>5. ASSUME Refused(y, z) PROVE UpdateIfNewer(y, z) = y
    <2>1. Updated(y, z) = {}
        BY <1>3, <1>5
    <2>2. UpdateIfNewer(y, z) = [f \in Fields |-> y[f]]
        BY <2>1 DEF UpdateIfNewer
    <2> QED
        BY <2>2
<1>6. Updated(<<>>, z) = Fields
    BY DEF Updated, Refused, Has
<1>7. UpdateIfNewer(<<>>, z) = z
    BY <1>6 DEF UpdateIfNewer
<1> QED
    BY <1>1, <1>2, <1>3, <1>4, <1>5, <1>6, <1>7

LEMMA VmadmUpdate ==
    ASSUME NEW p, NEW o
    PROVE  LET y == VmadmView(p)
               z == VmadmView(o)
           IN  /\ Refused(y, z) <=> Seconds(p.last_modified) > Rounded(Seconds(o.last_modified))
               /\ (Refused(y, z) \/ y = z) <=> Updated(y, z) = {}
               /\ ~Refused(y, z) => UpdateIfNewer(y, z) = z
               /\ Updated(<<>>, z) # {} /\ UpdateIfNewer(<<>>, z) = z
<1> DEFINE y == VmadmView(p)
<1> DEFINE z == VmadmView(o)
<1>1. DOMAIN y = Fields /\ y = [f \in Fields |-> y[f]] /\ y["last_modified"] = Seconds(p.last_modified)
    BY VmadmFields
<1>2. DOMAIN z = Fields /\ z = [f \in Fields |-> z[f]] /\ z["last_modified"] = Seconds(o.last_modified)
    BY VmadmFields
<1> HIDE DEF y, z
<1>3. /\ Refused(y, z) <=> y["last_modified"] > Rounded(z["last_modified"])
      /\ (Refused(y, z) \/ y = z) <=> Updated(y, z) = {}
      /\ ~Refused(y, z) => UpdateIfNewer(y, z) = z
      /\ Updated(<<>>, z) # {} /\ UpdateIfNewer(<<>>, z) = z
    BY <1>1, <1>2, FullUpdate
<1>4. /\ Refused(y, z) <=> Seconds(p.last_modified) > Rounded(Seconds(o.last_modified))
      /\ (Refused(y, z) \/ y = z) <=> Updated(y, z) = {}
      /\ ~Refused(y, z) => UpdateIfNewer(y, z) = z
      /\ Updated(<<>>, z) # {} /\ UpdateIfNewer(<<>>, z) = z
    BY <1>1, <1>2, <1>3
<1> QED
    BY <1>4 DEF y, z

\* A modification is news unless it says what is known or is refused; nothing is
\* news of a VM that is known to be gone.
LEMMA VmadmModify ==
    ASSUME NEW k, NEW p, NEW o, NEW w, k = Entry(VmadmView(p)), w = "periodic" \/ p.state # "provisioning"
    PROVE  DispatchModify(k, VmadmView(o), w) =
                IF VmadmView(p) = VmadmView(o) \/ Refused(VmadmView(p), VmadmView(o))
                THEN Silently(k) ELSE News(Entry(VmadmView(o)))
<1> DEFINE y == VmadmView(p)
<1> DEFINE z == VmadmView(o)
<1>1. k = Entry(y) /\ k.fields = y /\ ~k.destroyed
    BY DEF Entry
<1>2. y["state"] = p.state /\ DOMAIN y = Fields
    BY VmadmFields
<1>3. /\ (Refused(y, z) \/ y = z) <=> Updated(y, z) = {}
      /\ ~Refused(y, z) => UpdateIfNewer(y, z) = z
    BY VmadmUpdate
<1> HIDE DEF y, z
<1>4. DispatchModify(k, z, w) =
        IF Updated(y, z) # {} THEN News(Entry(UpdateIfNewer(y, z))) ELSE Silently(Entry(y))
    BY <1>1, <1>2 DEF DispatchModify
<1>5. CASE y = z \/ Refused(y, z)
    BY <1>1, <1>3, <1>4, <1>5 DEF y, z
<1>6. CASE ~(y = z \/ Refused(y, z))
    <2>1. Updated(y, z) # {} /\ UpdateIfNewer(y, z) = z
        BY <1>3, <1>6
    <2>2. DispatchModify(k, z, w) = News(Entry(z))
        BY <1>4, <2>1
    <2> QED
        BY <1>6, <2>2 DEF y, z
<1> QED
    BY <1>5, <1>6

\* The first object of a VM is news.
LEMMA VmadmModifyFirst ==
    ASSUME NEW o, NEW w
    PROVE  DispatchModify(NoEntry, VmadmView(o), w) = News(Entry(VmadmView(o)))
<1> DEFINE z == VmadmView(o)
<1>1. Updated(<<>>, z) # {} /\ UpdateIfNewer(<<>>, z) = z
    BY VmadmUpdate
<1>2. NoEntry.fields = <<>> /\ ~NoEntry.destroyed /\ ~Has(<<>>, "state")
    BY DEF NoEntry, Has
<1> HIDE DEF z
<1>3. DispatchModify(NoEntry, z, w) = News(Entry(z))
    BY <1>1, <1>2 DEF DispatchModify
<1> QED
    BY <1>3 DEF z

LEMMA VmadmCreate ==
    ASSUME NEW k, NEW o, ~k.entry \/ k.destroyed
    PROVE  DispatchCreate(k, VmadmView(o)) = News(Entry(VmadmView(o)))
<1>1. UpdateIfNewer(<<>>, VmadmView(o)) = VmadmView(o)
    BY VmadmUpdate
<1> QED
    BY <1>1 DEF DispatchCreate
=============================================================================

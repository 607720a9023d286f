------------------------------ MODULE FsProofs ------------------------------
(***************************************************************************)
(* Proofs about FsWatcher: its type invariant, which bounds the retries    *)
(* and says that a busy watcher has a pass under way; that what it reports *)
(* is what the contract of Watchers allows; and that the listener comes to *)
(* know of every change that raised an event.                              *)
(***************************************************************************)
EXTENDS FsWatcher, VmWatcherProofs, FiniteSetTheorems, FunctionTheorems, SequenceTheorems

Pass == [callback : BOOLEAN, alone : BOOLEAN, seen : [VM -> 0..MaxVer]]

\* The passes that call start() again if they fail.
Callbacks(ps) == {i \in DOMAIN ps : ps[i].callback}

\* Nothing at all, or versions of what is in the histories h of the VMs, were seen.
Scanned(k, h) == k = Null \/ (k \in [VM -> 1..MaxVer] /\ \A v \in VM : k[v] <= Len(h[v]))

FilesInv ==
    /\ xml \in [VM -> 1..MaxVer] /\ (\A v \in VM : xml[v] <= Len(cn[v]))
    /\ config \in [VM -> 0..MaxVer] /\ (\A v \in VM : config[v] <= Len(cn[v]))
    /\ configDir \subseteq VM

WatchesInv ==
    /\ configWatchers \subseteq VM /\ waiting \subseteq VM
    /\ dead \subseteq configWatchers /\ configEvents \subseteq configWatchers
    /\ zonesWatcher \in BOOLEAN /\ zonesEvent \in BOOLEAN

\* A busy watcher has a pass under way, that will look at isDirty.
PassesInv ==
    /\ passes \in Seq(Pass) /\ Len(passes) <= MaxPasses
    /\ \A p \in DOMAIN passes : Scanned(passes[p].seen, cn)
    /\ isDirty \in BOOLEAN /\ isProcessing \in BOOLEAN
    /\ isDirty => isProcessing
    /\ isProcessing => passes # <<>>

\* There is a pass or a retry for each call of start() at most.
RetriesInv ==
    /\ starts \in 0..MaxStarts /\ retryTimers \in Nat
    /\ Cardinality(Callbacks(passes)) + retryTimers <= starts

SeenInv ==
    /\ Scanned(lastSeenVms, cn) /\ Scanned(firstScan, cn)
    /\ noticed \in [VM -> 0..MaxVer]

OwnerInv ==
    /\ started \in BOOLEAN /\ looked \in BOOLEAN /\ clean \in BOOLEAN
    /\ abandoned \subseteq VM /\ overlooked \subseteq VM /\ faults \in 0..MaxFaults

FsInv ==
    /\ WatcherInv
    /\ FilesInv /\ WatchesInv /\ PassesInv /\ RetriesInv /\ SeenInv /\ OwnerInv

LEMMA FsBounds == MaxStarts \in Nat \ {0} /\ MaxPasses \in Nat \ {0} /\ MaxFaults \in Nat
BY FsAssumption

LEMMA ScannedTyped == ASSUME NEW k, NEW h, Scanned(k, h) PROVE k \in [VM -> 0..MaxVer]
BY Bounds DEF Scanned, Null

LEMMA ScannedVersions ==
    /\ \A k : Versions(k) => Scanned(k, cn)
    /\ \A k : Scanned(k, cn) /\ k # Null => Versions(k)
BY DEF Scanned, Versions

LEMMA CallbacksFinite ==
    ASSUME NEW ps \in Seq(Pass)
    PROVE  IsFiniteSet(Callbacks(ps)) /\ Cardinality(Callbacks(ps)) \in Nat
<1>1. IsFiniteSet(1..Len(ps))
    BY FS_Interval
<1>2. Callbacks(ps) \subseteq 1..Len(ps)
    BY DEF Callbacks
<1> QED
    BY <1>1, <1>2, FS_Subset, FS_CardinalityType

LEMMA FsInvType == FsInv => FsTypeOK
<1> SUFFICES ASSUME FsInv PROVE FsTypeOK
    OBVIOUS
<1>1. VmWatcherTypeOK
    BY WatcherInvType DEF FsInv
<1>2. {xml, config, lastSeenVms, firstScan, noticed} \subseteq [VM -> 0..MaxVer]
    <2>1. xml \in [VM -> 0..MaxVer]
        BY Bounds DEF FsInv, FilesInv
    <2> QED
        BY <2>1, ScannedTyped DEF FsInv, FilesInv, SeenInv
<1>3. retryTimers \in 0..MaxStarts
    BY CallbacksFinite, FsBounds DEF FsInv, RetriesInv, PassesInv
<1>4. \A S \in {configDir, configWatchers, configEvents, waiting, abandoned, overlooked} : S \subseteq VM
    BY DEF FsInv, FilesInv, WatchesInv, OwnerInv
<1>5. {zonesWatcher, zonesEvent, isDirty, isProcessing, started, looked, clean} \subseteq BOOLEAN
    BY DEF FsInv, WatchesInv, PassesInv, OwnerInv
<1>6. dead \subseteq configWatchers /\ configEvents \subseteq configWatchers
    BY DEF FsInv, WatchesInv
<1>7. starts \in 0..MaxStarts /\ faults \in 0..MaxFaults
    BY DEF FsInv, RetriesInv, OwnerInv
<1>8. /\ passes \in Seq([callback : BOOLEAN, alone : BOOLEAN, seen : [VM -> 0..MaxVer]])
      /\ Len(passes) <= MaxPasses
      /\ isDirty => isProcessing
      /\ isProcessing => passes # <<>>
    BY DEF FsInv, PassesInv, Pass
<1> QED
    BY <1>1, <1>2, <1>3, <1>4, <1>5, <1>6, <1>7, <1>8 DEF FsTypeOK

LEMMA FsInit == Init => FsInv
<1> SUFFICES ASSUME Init PROVE FsInv
    OBVIOUS
<1>1. WatcherInv
    BY WatcherInit DEF Init
<1>2. FilesInv
    <2>1. \A v \in VM : Len(cn[v]) \in 1..MaxVer
        BY <1>1 DEF WatcherInv
    <2>2. xml = [v \in VM |-> 1] /\ config = [v \in VM |-> 0] /\ configDir \subseteq VM
        BY DEF Init
    <2> QED
        BY <2>1, <2>2, Bounds DEF FilesInv
<1>3. WatchesInv
    BY Zenon DEF Init, WatchesInv
<1>4. passes = <<>> /\ passes \in Seq(Pass) /\ DOMAIN passes = {} /\ Len(passes) = 0
    BY DEF Init
<1>5. PassesInv
    <2>1. isDirty = FALSE /\ isProcessing = FALSE
        BY DEF Init
    <2>2. Len(passes) <= MaxPasses
        BY <1>4, FsBounds
    <2> QED
        BY <1>4, <2>1, <2>2 DEF PassesInv
<1>6. Callbacks(passes) = {}
    BY <1>4 DEF Callbacks
<1>7. RetriesInv
    BY <1>6, FS_EmptySet, FsBounds DEF Init, RetriesInv
<1>8. SeenInv
    BY Bounds DEF Init, SeenInv, Scanned, Null
<1>9. OwnerInv
    <2>1. faults = 0 /\ abandoned = {} /\ overlooked = {}
        BY DEF Init
    <2>2. started \in BOOLEAN /\ looked \in BOOLEAN /\ clean \in BOOLEAN
        BY Zenon DEF Init
    <2> QED
        BY <2>1, <2>2, FsBounds DEF OwnerInv
<1> QED
    BY <1>1, <1>2, <1>3, <1>5, <1>7, <1>8, <1>9 DEF FsInv

-----------------------------------------------------------------------------
(***************************************************************************)
(* The passes: one more, one less.                                         *)
(***************************************************************************)
LEMMA PassBegins ==
    ASSUME NEW ps \in Seq(Pass), \A p \in DOMAIN ps : Scanned(ps[p].seen, cn),
           NEW cb \in BOOLEAN, ProcessState(ps, cb)
    PROVE  /\ passes' \in Seq(Pass) /\ Len(passes') = Len(ps) + 1
           /\ \A p \in DOMAIN passes' : Scanned(passes'[p].seen, cn)
           /\ isDirty' = FALSE /\ isProcessing' = TRUE /\ passes' # <<>>
           /\ Cardinality(Callbacks(passes')) = Cardinality(Callbacks(ps)) + IF cb THEN 1 ELSE 0
<1> DEFINE old == [i \in DOMAIN ps |-> [ps[i] EXCEPT !.alone = FALSE]]
<1> DEFINE new == [callback |-> cb, alone |-> ps = <<>>, seen |-> Null]
<1>1. passes' = Append(old, new) /\ isDirty' = FALSE /\ isProcessing' = TRUE
    BY DEF ProcessState
<1>2. DOMAIN ps = 1..Len(ps) /\ Len(ps) \in Nat /\ \A i \in 1..Len(ps) : ps[i] \in Pass
    OBVIOUS
<1>3. \A i \in 1..Len(ps) : /\ old[i] \in Pass
                             /\ old[i].seen = ps[i].seen /\ old[i].callback = ps[i].callback
    BY <1>2 DEF Pass
<1>4. old \in Seq(Pass) /\ Len(old) = Len(ps)
    BY <1>2, <1>3
<1>5. new \in Pass /\ new.seen = Null /\ new.callback = cb
    <2>1. Null \in [VM -> 0..MaxVer]
        BY Bounds DEF Null
    <2>2. (ps = <<>>) \in BOOLEAN
        OBVIOUS
    <2> QED
        BY <2>1, <2>2 DEF Pass
<1> HIDE DEF old, new
<1>6. passes' \in Seq(Pass) /\ Len(passes') = Len(ps) + 1
    BY <1>1, <1>4, <1>5
<1>7. /\ DOMAIN passes' = 1..(Len(ps) + 1)
      /\ passes'[Len(ps) + 1] = new
      /\ \A i \in 1..Len(ps) : passes'[i] = old[i]
    BY <1>1, <1>2, <1>4, <1>5
<1>8. \A p \in DOMAIN passes' : Scanned(passes'[p].seen, cn)
    <2> TAKE p \in DOMAIN passes'
    <2>1. CASE p = Len(ps) + 1
        BY <1>5, <1>7, <2>1 DEF Scanned
    <2>2. CASE p \in 1..Len(ps)
        BY <1>2, <1>3, <1>7, <2>2
    <2> QED
        BY <1>2, <1>7, <2>1, <2>2
<1>9. Callbacks(passes') = Callbacks(ps) \cup IF cb THEN {Len(ps) + 1} ELSE {}
    BY <1>2, <1>3, <1>5, <1>7 DEF Callbacks
<1>10. Len(ps) + 1 \notin Callbacks(ps)
    BY <1>2 DEF Callbacks
<1>11. Cardinality(Callbacks(passes')) = Cardinality(Callbacks(ps)) + IF cb THEN 1 ELSE 0
    <2>1. CASE cb
        BY <1>9, <1>10, <2>1, CallbacksFinite, FS_AddElement
    <2>2. CASE ~cb
        BY <1>9, <2>2, CallbacksFinite
    <2> QED
        BY <2>1, <2>2
<1>12. passes' # <<>>
    BY <1>2, <1>6
<1> QED
    BY <1>1, <1>6, <1>8, <1>11, <1>12

\* Taking a pass away moves the later ones down by one.
LEMMA PassEnds ==
    ASSUME NEW ps \in Seq(Pass), NEW p \in DOMAIN ps
    PROVE  LET qs == SeqExt!RemoveAt(ps, p)
           IN  /\ qs \in Seq(Pass) /\ Len(qs) = Len(ps) - 1
               /\ \A i \in DOMAIN qs : \E j \in DOMAIN ps : qs[i] = ps[j]
               /\ Cardinality(Callbacks(ps))
                     = Cardinality(Callbacks(qs)) + IF ps[p].callback THEN 1 ELSE 0
<1> DEFINE qs == SeqExt!RemoveAt(ps, p)
<1> DEFINE n == Len(ps)
<1> DEFINE up(i) == IF i < p THEN i ELSE i + 1
<1>1. n \in Nat /\ p \in 1..n /\ DOMAIN ps = 1..n
    OBVIOUS
<1>2. qs \in Seq(Pass) /\ Len(qs) = n - 1
    BY <1>1 DEF SeqExt!RemoveAt
<1>3. \A i \in 1..(n - 1) : qs[i] = ps[up(i)] /\ up(i) \in 1..n /\ up(i) # p
    <2> DEFINE a == SubSeq(ps, 1, p - 1)
    <2> DEFINE b == SubSeq(ps, p + 1, n)
    <2>1. a \in Seq(Pass) /\ Len(a) = p - 1 /\ \A i \in 1..(p - 1) : a[i] = ps[i]
        BY <1>1
    <2>2. b \in Seq(Pass) /\ Len(b) = n - p /\ \A i \in 1..(n - p) : b[i] = ps[p + i]
        BY <1>1
    <2>3. qs = a \o b
        BY DEF SeqExt!RemoveAt
    <2> HIDE DEF a, b, qs
    <2> TAKE i \in 1..(n - 1)
    <2>4. CASE i < p
        BY <1>1, <2>1, <2>2, <2>3, <2>4
    <2>5. CASE i >= p
        <3>1. qs[i] = b[i - (p - 1)] /\ i - (p - 1) \in 1..(n - p)
            <4>1. i \in Nat /\ i > p - 1 /\ i - (p - 1) \in 1..(n - p)
                BY <1>1, <2>5
            <4>2. i \in 1..(Len(a) + Len(b))
                BY <1>1, <2>1, <2>2
            <4>3. (a \o b)[i] = IF i <= Len(a) THEN a[i] ELSE b[i - Len(a)]
                BY <2>1, <2>2, <4>2, ConcatProperties
            <4> QED
                BY <1>1, <2>1, <2>3, <4>1, <4>3
        <3>2. p + (i - (p - 1)) = i + 1
            BY <1>1
        <3>3. qs[i] = ps[i + 1]
            BY <2>2, <3>1, <3>2
        <3> QED
            BY <1>1, <2>5, <3>3
    <2> QED
        BY <1>1, <2>4, <2>5
<1>4. \A j \in 1..n : j # p => \E i \in 1..(n - 1) : up(i) = j
    <2> SUFFICES ASSUME NEW j \in 1..n, j # p PROVE \E i \in 1..(n - 1) : up(i) = j
        OBVIOUS
    <2>1. CASE j < p
        BY <1>1, <2>1
    <2>2. CASE j > p
        <3>1. j - 1 \in 1..(n - 1) /\ up(j - 1) = j
            BY <1>1, <2>2
        <3> QED
            BY <3>1
    <2> QED
        BY <1>1, <2>1, <2>2
<1>5. \A i, k \in 1..(n - 1) : up(i) = up(k) => i = k
    BY <1>1
<1>6. DOMAIN qs = 1..(n - 1)
    BY <1>1, <1>2
<1> HIDE DEF qs
<1>7. Cardinality(Callbacks(qs)) = Cardinality(Callbacks(ps) \ {p})
    <2> DEFINE S == Callbacks(qs)
    <2> DEFINE T == Callbacks(ps) \ {p}
    <2> DEFINE F == [i \in S |-> up(i)]
    <2>1. S \subseteq 1..(n - 1) /\ \A i \in 1..(n - 1) : i \in S <=> ps[up(i)].callback
        BY <1>3, <1>6 DEF Callbacks
    <2>2. \A i \in S : up(i) \in T
        BY <1>1, <1>3, <2>1 DEF Callbacks
    <2>3. \A j \in T : \E i \in S : up(i) = j
        <3> TAKE j \in T
        <3>1. j \in 1..n /\ j # p /\ ps[j].callback
            BY <1>1 DEF Callbacks
        <3>2. PICK i \in 1..(n - 1) : up(i) = j
            BY <1>4, <3>1
        <3> QED
            BY <2>1, <3>1, <3>2
    <2> HIDE DEF S, T
    <2>4. F \in [S -> T]
        BY <2>2
    <2>5. \A i, k \in S : F[i] = F[k] => i = k
        BY <1>5, <2>1
    <2>6. \A j \in T : \E i \in S : F[i] = j
        BY <2>3
    <2> HIDE DEF F
    <2>7. F \in Bijection(S, T)
        BY <2>4, <2>5, <2>6, Fun_IsBij
    <2>8. ExistsBijection(S, T)
        BY <2>7, Fun_ExistsBij
    <2>9. IsFiniteSet(S)
        BY <1>2, CallbacksFinite DEF S
    <2> QED
        BY <2>8, <2>9, FS_Bijection DEF S, T
<1>8. Cardinality(Callbacks(ps)) = Cardinality(Callbacks(qs)) + IF ps[p].callback THEN 1 ELSE 0
    <2>1. IsFiniteSet(Callbacks(ps)) /\ Cardinality(Callbacks(ps)) \in Nat
        BY CallbacksFinite
    <2>2. CASE ps[p].callback
        <3>1. p \in Callbacks(ps)
            BY <2>2 DEF Callbacks
        <3>2. Cardinality(Callbacks(ps) \ {p}) = Cardinality(Callbacks(ps)) - 1
            BY <2>1, <3>1, FS_RemoveElement
        <3> QED
            BY <1>7, <2>1, <2>2, <3>2
    <2>3. CASE ~ps[p].callback
        <3>1. Callbacks(ps) \ {p} = Callbacks(ps)
            BY <2>3 DEF Callbacks
        <3>2. Cardinality(Callbacks(qs)) \in Nat /\ Cardinality(Callbacks(qs)) = Cardinality(Callbacks(ps))
            BY <1>7, <2>1, <3>1
        <3> QED
            BY <2>3, <3>2
    <2> QED
        BY <2>2, <2>3
<1>9. \A i \in DOMAIN qs : \E j \in DOMAIN ps : qs[i] = ps[j]
    BY <1>1, <1>3, <1>6
<1> QED
    BY <1>2, <1>8, <1>9 DEF qs

\* What processState's callback leaves: the pass is gone, and another one may have begun.
LEMMA CallbackKeeps ==
    ASSUME PassesInv, NEW p \in DOMAIN passes, ProcessStateCb(p), UNCHANGED cn
    PROVE  /\ PassesInv'
           /\ Cardinality(Callbacks(passes)) = Cardinality(Callbacks(passes'))
                                                  + IF passes[p].callback THEN 1 ELSE 0
<1> DEFINE others == SeqExt!RemoveAt(passes, p)
<1>1. /\ others \in Seq(Pass) /\ Len(others) = Len(passes) - 1
      /\ Cardinality(Callbacks(passes)) = Cardinality(Callbacks(others))
                                              + IF passes[p].callback THEN 1 ELSE 0
    BY PassEnds DEF PassesInv
<1>2. \A i \in DOMAIN others : Scanned(others[i].seen, cn)
    <2>1. \A i \in DOMAIN others : \E j \in DOMAIN passes : others[i] = passes[j]
        BY PassEnds DEF PassesInv
    <2> QED
        BY <2>1 DEF PassesInv
<1>3. Len(passes) \in Nat /\ Len(passes) <= MaxPasses
    BY DEF PassesInv
<1>4. /\ IF isDirty THEN ProcessState(others, FALSE)
         ELSE passes' = others /\ isProcessing' = FALSE /\ isDirty' = isDirty
    BY DEF ProcessStateCb
<1> HIDE DEF others
<1>5. CASE isDirty
    <2>1. /\ passes' \in Seq(Pass) /\ Len(passes') = Len(others) + 1
          /\ \A i \in DOMAIN passes' : Scanned(passes'[i].seen, cn)
          /\ isDirty' = FALSE /\ isProcessing' = TRUE /\ passes' # <<>>
          /\ Cardinality(Callbacks(passes')) = Cardinality(Callbacks(others)) + 0
        BY <1>1, <1>2, <1>4, <1>5, PassBegins
    <2>2. Len(passes') <= MaxPasses
        BY <1>1, <1>3, <2>1
    <2>3. Cardinality(Callbacks(passes')) = Cardinality(Callbacks(others))
        BY <1>1, <2>1, CallbacksFinite
    <2> QED
        BY <1>1, <2>1, <2>2, <2>3 DEF PassesInv
<1>6. CASE ~isDirty
    <2>1. passes' = others /\ isProcessing' = FALSE /\ isDirty' = FALSE
        BY <1>4, <1>6 DEF PassesInv
    <2>2. Len(passes') <= MaxPasses
        BY <1>1, <1>3, <2>1, FsBounds
    <2>3. PassesInv'
        BY <1>1, <1>2, <2>1, <2>2 DEF PassesInv
    <2> QED
        BY <1>1, <2>1, <2>3
<1> QED
    BY <1>5, <1>6

-----------------------------------------------------------------------------
(***************************************************************************)
(* The invariant, one lemma for each kind of step.                         *)
(***************************************************************************)
\* What is true of the files' versions stays true when the VMs change.
LEMMA OthersStay ==
    ASSUME FsInv, \/ UNCHANGED cn
                  \/ \E v \in VM : CnChange(v)
    PROVE  /\ \A k : Scanned(k, cn) => Scanned(k, cn')
           /\ \A v \in VM : /\ xml[v] <= Len(cn'[v]) /\ config[v] <= Len(cn'[v])
                            /\ Len(cn'[v]) \in 1..MaxVer
<1>1. \A k : Versions(k) => Versions(k)'
    BY VersionsStay DEF FsInv
<1>2. \A v \in VM : Len(cn[v]) \in 1..MaxVer /\ Len(cn'[v]) \in 1..MaxVer /\ Len(cn[v]) <= Len(cn'[v])
    BY CnChangeKeeps DEF FsInv, WatcherInv
<1>3. \A v \in VM : xml[v] \in 0..MaxVer /\ config[v] \in 0..MaxVer /\ xml[v] <= Len(cn[v]) /\ config[v] <= Len(cn[v])
    BY Bounds DEF FsInv, FilesInv
<1>4. \A k : Scanned(k, cn) => Scanned(k, cn')
    BY <1>1 DEF Scanned, Versions
<1> QED
    BY <1>2, <1>3, <1>4, Bounds

\* A step that leaves the passes and the timers alone.
LEMMA PassesStay ==
    ASSUME FsInv, UNCHANGED <<passVars, starts>>,
           \/ UNCHANGED cn
           \/ \E v \in VM : CnChange(v)
    PROVE  PassesInv' /\ RetriesInv' /\ Scanned(lastSeenVms', cn')
<1>1. UNCHANGED <<passes, isDirty, isProcessing, retryTimers, starts, lastSeenVms>>
    BY DEF passVars
<1>2. \A k : Scanned(k, cn) => Scanned(k, cn')
    BY OthersStay
<1>3. \A p \in DOMAIN passes : Scanned(passes[p].seen, cn')
    BY <1>1, <1>2 DEF FsInv, PassesInv
<1>4. PassesInv'
    BY <1>1, <1>3 DEF FsInv, PassesInv
<1>5. RetriesInv'
    BY <1>1 DEF FsInv, RetriesInv
<1>6. Scanned(lastSeenVms', cn')
    BY <1>1, <1>2 DEF FsInv, SeenInv
<1> QED
    BY <1>4, <1>5, <1>6

LEMMA XmlKeeps ==
    ASSUME FsInv, NEW v \in VM, XmlWritten(v)
    PROVE  FsInv'
<1>1. CnChange(v) /\ UNCHANGED <<knownVms, emits, told>>
    BY DEF XmlWritten, CnChange
<1>2. WatcherInv' /\ PassesInv' /\ RetriesInv' /\ Scanned(lastSeenVms', cn')
    BY <1>1, CnChangeInv, PassesStay DEF FsInv, XmlWritten, ownerVars
<1>3. FilesInv'
    <2>1. xml' = [xml EXCEPT ![v] = Len(cn'[v])] /\ config' \in {config, [config EXCEPT ![v] = 0]}
        BY DEF XmlWritten
    <2>2. \A u \in VM : xml[u] <= Len(cn'[u]) /\ config[u] <= Len(cn'[u]) /\ Len(cn'[u]) \in 1..MaxVer
        BY <1>1, OthersStay
    <2>3. configDir' \subseteq VM
        BY DEF XmlWritten, FsInv, FilesInv
    <2>4. xml' \in [VM -> 1..MaxVer] /\ \A u \in VM : xml'[u] <= Len(cn'[u])
        BY <2>1, <2>2, Bounds DEF FsInv, FilesInv
    <2>5. config' \in [VM -> 0..MaxVer] /\ \A u \in VM : config'[u] <= Len(cn'[u])
        BY <2>1, <2>2, Bounds DEF FsInv, FilesInv
    <2> QED
        BY <2>3, <2>4, <2>5 DEF FilesInv
<1>4. WatchesInv'
    <2>1. dead' \subseteq configWatchers
        BY DEF XmlWritten, FsInv, WatchesInv
    <2> QED
        BY <2>1 DEF XmlWritten, FsInv, WatchesInv
<1>5. SeenInv'
    <2>1. xml'[v] \in 0..MaxVer
        BY <1>3, Bounds DEF FilesInv
    <2>2. noticed' \in [VM -> 0..MaxVer]
        BY <2>1 DEF XmlWritten, FsInv, SeenInv
    <2>3. Scanned(firstScan', cn')
        BY <1>1, OthersStay DEF XmlWritten, FsInv, SeenInv
    <2> QED
        BY <1>2, <2>2, <2>3 DEF SeenInv
<1>6. OwnerInv'
    BY DEF XmlWritten, FsInv, OwnerInv, ownerVars
<1> QED
    BY <1>2, <1>3, <1>4, <1>5, <1>6 DEF FsInv

LEMMA ConfigKeeps ==
    ASSUME FsInv, NEW v \in VM, ConfigWritten(v)
    PROVE  FsInv'
<1>1. CnChange(v) /\ UNCHANGED <<knownVms, emits, told>>
    BY DEF ConfigWritten, CnChange
<1>2. WatcherInv' /\ PassesInv' /\ RetriesInv' /\ Scanned(lastSeenVms', cn')
    BY <1>1, CnChangeInv, PassesStay DEF FsInv, ConfigWritten, ownerVars
<1>3. FilesInv'
    <2>1. config' = [config EXCEPT ![v] = Len(cn'[v])] /\ UNCHANGED <<xml, configDir>>
        BY DEF ConfigWritten
    <2>2. \A u \in VM : xml[u] <= Len(cn'[u]) /\ config[u] <= Len(cn'[u]) /\ Len(cn'[u]) \in 1..MaxVer
        BY <1>1, OthersStay
    <2>3. Len(cn'[v]) \in 0..MaxVer
        BY <2>2, Bounds
    <2>4. config' \in [VM -> 0..MaxVer] /\ \A u \in VM : config'[u] <= Len(cn'[u])
        BY <2>1, <2>2, <2>3, Bounds DEF FsInv, FilesInv
    <2> QED
        BY <2>1, <2>2, <2>4 DEF FsInv, FilesInv
<1>4. WatchesInv'
    BY DEF ConfigWritten, FsInv, WatchesInv
<1>5. SeenInv'
    <2>1. config'[v] \in 0..MaxVer
        BY <1>3 DEF FilesInv
    <2>2. noticed' \in [VM -> 0..MaxVer]
        BY <2>1 DEF ConfigWritten, FsInv, SeenInv
    <2>3. Scanned(firstScan', cn')
        BY <1>1, OthersStay DEF ConfigWritten, FsInv, SeenInv
    <2> QED
        BY <1>2, <2>2, <2>3 DEF SeenInv
<1>6. OwnerInv'
    BY DEF ConfigWritten, FsInv, OwnerInv, ownerVars
<1> QED
    BY <1>2, <1>3, <1>4, <1>5, <1>6 DEF FsInv

LEMMA FaultTyped == ASSUME FsInv, Fault PROVE faults' \in 0..MaxFaults
BY FsBounds DEF FsInv, OwnerInv, Fault

\* The other steps that only touch files.
LEMMA TouchKeeps ==
    ASSUME FsInv, \/ ZonesTouched
                  \/ \E v \in VM : DirRemoved(v) \/ DirCreated(v)
    PROVE  FsInv'
<1>1. UNCHANGED watcherVars /\ UNCHANGED <<passVars, ownerVars, firstScan, overlooked, clean, abandoned>>
    BY DEF ZonesTouched, DirRemoved, DirCreated, ghosts
<1>2. UNCHANGED cn
    BY <1>1 DEF watcherVars
<1>3. WatcherInv' /\ PassesInv' /\ RetriesInv' /\ Scanned(lastSeenVms', cn')
    BY <1>1, <1>2, StutterInv, PassesStay DEF FsInv, ownerVars
<1>4. faults' \in 0..MaxFaults
    BY FaultTyped DEF ZonesTouched, DirRemoved, DirCreated, ghosts, FsInv, OwnerInv
<1>5. OwnerInv'
    BY <1>1, <1>4 DEF FsInv, OwnerInv, ownerVars
<1>6. noticed' \in [VM -> 0..MaxVer]
    BY Bounds DEF ZonesTouched, DirRemoved, DirCreated, ghosts, FsInv, SeenInv
<1>7. SeenInv'
    <2>1. Scanned(firstScan', cn')
        BY <1>1, <1>2, OthersStay DEF FsInv, SeenInv
    <2> QED
        BY <1>3, <1>6, <2>1 DEF SeenInv
<1>8. FilesInv'
    <2>1. \A v \in VM : Len(cn[v]) \in 1..MaxVer
        BY DEF FsInv, WatcherInv
    <2>2. CASE ZonesTouched
        BY <1>2, <2>2 DEF ZonesTouched, fileVars, FsInv, FilesInv
    <2>3. ASSUME NEW v \in VM, DirRemoved(v) PROVE FilesInv'
        <3>1. config' = [config EXCEPT ![v] = 0] /\ configDir' = configDir \ {v} /\ xml' = xml
            BY <2>3 DEF DirRemoved
        <3> QED
            BY <1>2, <2>1, <3>1, Bounds DEF FsInv, FilesInv
    <2>4. ASSUME NEW v \in VM, DirCreated(v) PROVE FilesInv'
        BY <1>2, <2>4 DEF DirCreated, FsInv, FilesInv
    <2> QED
        BY <2>2, <2>3, <2>4
<1>9. WatchesInv'
    <2>1. CASE ZonesTouched
        <3>1. zonesEvent' \in BOOLEAN
            BY <2>1 DEF ZonesTouched
        <3> QED
            BY <2>1, <3>1 DEF ZonesTouched, FsInv, WatchesInv
    <2>2. ASSUME NEW v \in VM, DirRemoved(v) PROVE WatchesInv'
        BY <2>2 DEF DirRemoved, FsInv, WatchesInv
    <2>3. ASSUME NEW v \in VM, DirCreated(v) PROVE WatchesInv'
        BY <2>3 DEF DirCreated, watchVars, FsInv, WatchesInv
    <2> QED
        BY <2>1, <2>2, <2>3
<1> QED
    BY <1>3, <1>5, <1>7, <1>8, <1>9 DEF FsInv

\* Steps that leave the files and what was seen alone.
LEMMA FilesStay ==
    ASSUME FsInv, UNCHANGED cn, UNCHANGED fileVars
    PROVE  FilesInv'
BY DEF FsInv, FilesInv, fileVars

LEMMA SeenStays ==
    ASSUME FsInv, UNCHANGED cn, UNCHANGED <<firstScan, noticed>>, Scanned(lastSeenVms', cn')
    PROVE  SeenInv'
BY OthersStay DEF FsInv, SeenInv

\* start(), called by the owner or by the retry timer.
LEMMA StartKeeps ==
    ASSUME FsInv, Start \/ RetryStartup
    PROVE  FsInv'
<1>1. /\ UNCHANGED watcherVars /\ UNCHANGED fileVars /\ UNCHANGED ghosts /\ UNCHANGED lastSeenVms
      /\ UNCHANGED <<zonesEvent, configWatchers, dead, configEvents, waiting>>
      /\ zonesWatcher' = TRUE /\ Len(passes) < MaxPasses /\ ProcessState(passes, TRUE)
    BY DEF Start, RetryStartup, StartBody
<1>2. UNCHANGED cn /\ WatcherInv'
    BY <1>1, StutterInv DEF watcherVars, FsInv
<1>3. /\ passes' \in Seq(Pass) /\ Len(passes') = Len(passes) + 1
      /\ \A p \in DOMAIN passes' : Scanned(passes'[p].seen, cn)
      /\ isDirty' = FALSE /\ isProcessing' = TRUE /\ passes' # <<>>
      /\ Cardinality(Callbacks(passes')) = Cardinality(Callbacks(passes)) + 1
    BY <1>1, PassBegins DEF FsInv, PassesInv
<1>4. Len(passes') <= MaxPasses
    BY <1>1, <1>3, FsBounds DEF FsInv, PassesInv
<1>5. \A p \in DOMAIN passes' : Scanned(passes'[p].seen, cn')
    BY <1>2, <1>3, OthersStay
<1>6. PassesInv'
    BY <1>3, <1>4, <1>5 DEF PassesInv
<1>7. RetriesInv'
    <2>1. Cardinality(Callbacks(passes)) \in Nat
        BY CallbacksFinite DEF FsInv, PassesInv
    <2>2. starts \in 0..MaxStarts /\ retryTimers \in Nat /\ Cardinality(Callbacks(passes)) + retryTimers <= starts
        BY DEF FsInv, RetriesInv
    <2>3. \/ starts < MaxStarts /\ starts' = starts + 1 /\ retryTimers' = retryTimers
          \/ starts' = starts /\ retryTimers > 0 /\ retryTimers' = retryTimers - 1
        BY DEF Start, RetryStartup, ownerVars
    <2> QED
        BY <1>3, <2>1, <2>2, <2>3, FsBounds DEF RetriesInv
<1>8. FilesInv' /\ SeenInv'
    <2>1. Scanned(lastSeenVms', cn')
        BY <1>1, <1>2, OthersStay DEF FsInv, SeenInv
    <2> QED
        BY <1>1, <1>2, <2>1, FilesStay, SeenStays DEF ghosts
<1>9. WatchesInv'
    BY <1>1 DEF FsInv, WatchesInv
<1>10. OwnerInv'
    <2>1. started' \in BOOLEAN /\ looked' \in BOOLEAN
        BY DEF Start, RetryStartup, ownerVars, FsInv, OwnerInv
    <2> QED
        BY <1>1, <2>1 DEF ghosts, FsInv, OwnerInv
<1> QED
    BY <1>2, <1>6, <1>7, <1>8, <1>9, <1>10 DEF FsInv

LEMMA StopKeeps ==
    ASSUME FsInv, Stop
    PROVE  FsInv'
<1>1. /\ UNCHANGED watcherVars /\ UNCHANGED fileVars /\ UNCHANGED ghosts
      /\ UNCHANGED <<waiting, passes, retryTimers, starts, looked>>
      /\ started' = FALSE /\ zonesWatcher' = FALSE /\ zonesEvent' = FALSE
      /\ isDirty' = FALSE /\ isProcessing' = FALSE /\ lastSeenVms' = Null
      /\ configWatchers' = {} /\ dead' = {} /\ configEvents' = {}
    BY DEF Stop
<1>2. UNCHANGED cn /\ WatcherInv'
    BY <1>1, StutterInv DEF watcherVars, FsInv
<1>3. \A p \in DOMAIN passes : Scanned(passes[p].seen, cn')
    BY <1>1, <1>2, OthersStay DEF FsInv, PassesInv
<1>4. PassesInv'
    BY <1>1, <1>3 DEF FsInv, PassesInv
<1>5. RetriesInv'
    BY <1>1 DEF FsInv, RetriesInv
<1>6. Scanned(lastSeenVms', cn')
    BY <1>1 DEF Scanned, Null
<1>7. FilesInv' /\ SeenInv'
    BY <1>1, <1>2, <1>6, FilesStay, SeenStays DEF ghosts
<1>8. WatchesInv'
    BY <1>1 DEF FsInv, WatchesInv
<1>9. OwnerInv'
    BY <1>1 DEF ghosts, FsInv, OwnerInv
<1> QED
    BY <1>2, <1>4, <1>5, <1>7, <1>8, <1>9 DEF FsInv

LEMMA ZoneEventKeeps ==
    ASSUME FsInv, OnZoneEvent
    PROVE  FsInv'
<1>1. /\ UNCHANGED watcherVars /\ UNCHANGED fileVars /\ UNCHANGED ghosts /\ UNCHANGED lastSeenVms
      /\ UNCHANGED <<zonesWatcher, configWatchers, dead, configEvents, waiting, retryTimers>>
      /\ UNCHANGED ownerVars /\ zonesEvent' = FALSE
    BY DEF OnZoneEvent
<1>2. UNCHANGED cn /\ WatcherInv'
    BY <1>1, StutterInv DEF watcherVars, FsInv
<1>3. PassesInv' /\ RetriesInv'
    <2>1. CASE isProcessing
        <3>1. isDirty' = TRUE /\ UNCHANGED <<passes, isProcessing>>
            BY <2>1 DEF OnZoneEvent
        <3>2. \A p \in DOMAIN passes : Scanned(passes[p].seen, cn')
            BY <1>2, <3>1, OthersStay DEF FsInv, PassesInv
        <3>3. PassesInv'
            BY <2>1, <3>1, <3>2 DEF FsInv, PassesInv
        <3>4. RetriesInv'
            BY <1>1, <3>1 DEF FsInv, RetriesInv, ownerVars
        <3> QED
            BY <3>3, <3>4
    <2>2. CASE ~isProcessing
        <3>1. Len(passes) < MaxPasses /\ ProcessState(passes, FALSE)
            BY <2>2 DEF OnZoneEvent
        <3>2. /\ passes' \in Seq(Pass) /\ Len(passes') = Len(passes) + 1
              /\ \A p \in DOMAIN passes' : Scanned(passes'[p].seen, cn)
              /\ isDirty' = FALSE /\ isProcessing' = TRUE /\ passes' # <<>>
              /\ Cardinality(Callbacks(passes')) = Cardinality(Callbacks(passes)) + 0
            BY <3>1, PassBegins DEF FsInv, PassesInv
        <3>3. Len(passes') <= MaxPasses
            BY <3>1, <3>2, FsBounds DEF FsInv, PassesInv
        <3>4. \A p \in DOMAIN passes' : Scanned(passes'[p].seen, cn')
            BY <1>2, <3>2, OthersStay
        <3>5. PassesInv'
            BY <3>2, <3>3, <3>4 DEF PassesInv
        <3>6. Cardinality(Callbacks(passes)) \in Nat
            BY CallbacksFinite DEF FsInv, PassesInv
        <3>7. RetriesInv'
            BY <1>1, <3>2, <3>6 DEF FsInv, RetriesInv, ownerVars
        <3> QED
            BY <3>5, <3>7
    <2> QED
        BY <2>1, <2>2
<1>4. FilesInv' /\ SeenInv'
    <2>1. Scanned(lastSeenVms', cn')
        BY <1>1, <1>2, OthersStay DEF FsInv, SeenInv
    <2> QED
        BY <1>1, <1>2, <2>1, FilesStay, SeenStays DEF ghosts
<1>5. WatchesInv'
    BY <1>1 DEF FsInv, WatchesInv
<1>6. OwnerInv'
    BY <1>1 DEF ghosts, ownerVars, FsInv, OwnerInv
<1> QED
    BY <1>2, <1>3, <1>4, <1>5, <1>6 DEF FsInv

LEMMA VisibleVersions == ASSUME FsInv PROVE Versions([v \in VM |-> Visible(v)])
<1>1. \A v \in VM : xml[v] \in 1..MaxVer /\ config[v] \in 0..MaxVer /\ xml[v] <= Len(cn[v]) /\ config[v] <= Len(cn[v])
    BY DEF FsInv, FilesInv
<1>2. \A v \in VM : Visible(v) \in 1..MaxVer /\ Visible(v) <= Len(cn[v])
    <2> TAKE v \in VM
    <2>1. Visible(v) = xml[v] \/ (Visible(v) = config[v] /\ ~(xml[v] > config[v]))
        BY DEF Visible, Larger
    <2>2. xml[v] \in 1..MaxVer /\ config[v] \in 0..MaxVer /\ Len(cn[v]) \in 1..MaxVer
        BY <1>1 DEF FsInv, WatcherInv
    <2>3. xml[v] <= Len(cn[v]) /\ config[v] <= Len(cn[v])
        BY <1>1
    <2> QED
        BY <2>1, <2>2, <2>3, Bounds
<1> QED
    BY <1>2 DEF Versions

LEMMA ScanKeeps ==
    ASSUME FsInv, NEW p, Scan(p)
    PROVE  FsInv'
<1> DEFINE now == [v \in VM |-> Visible(v)]
<1>1. /\ p \in DOMAIN passes /\ passes' = [passes EXCEPT ![p].seen = now]
      /\ UNCHANGED watcherVars /\ UNCHANGED fileVars /\ UNCHANGED ghosts /\ UNCHANGED watchVars
      /\ UNCHANGED ownerVars /\ UNCHANGED <<isDirty, isProcessing, lastSeenVms, retryTimers>>
    BY DEF Scan
<1>2. UNCHANGED cn /\ WatcherInv'
    BY <1>1, StutterInv DEF watcherVars, FsInv
<1>3. Versions(now) /\ now \in [VM -> 0..MaxVer]
    BY VisibleVersions, VersionsTyped
<1> HIDE DEF now
<1>4. passes \in Seq(Pass) /\ passes[p] \in Pass /\ DOMAIN passes = 1..Len(passes)
    BY <1>1 DEF FsInv, PassesInv
<1>5. /\ \A i \in DOMAIN passes : i # p => passes'[i] = passes[i]
      /\ passes'[p] = [passes[p] EXCEPT !.seen = now] /\ DOMAIN passes' = DOMAIN passes
    BY <1>1, <1>4
<1>6. passes'[p] \in Pass /\ passes'[p].seen = now /\ passes'[p].callback = passes[p].callback
    BY <1>3, <1>4, <1>5 DEF Pass
<1>7. passes' \in Seq(Pass) /\ Len(passes') = Len(passes) /\ passes' # <<>>
    BY <1>1, <1>4, <1>6
<1>8. \A i \in DOMAIN passes' : Scanned(passes'[i].seen, cn')
    <2>1. \A i \in DOMAIN passes' : Scanned(passes'[i].seen, cn)
        BY <1>3, <1>5, <1>6, ScannedVersions DEF FsInv, PassesInv
    <2> QED
        BY <1>2, <2>1, OthersStay
<1>9. PassesInv'
    BY <1>1, <1>7, <1>8 DEF FsInv, PassesInv
<1>10. Callbacks(passes') = Callbacks(passes)
    BY <1>5, <1>6 DEF Callbacks
<1>11. RetriesInv'
    BY <1>1, <1>10 DEF FsInv, RetriesInv, ownerVars
<1>12. FilesInv' /\ SeenInv'
    <2>1. Scanned(lastSeenVms', cn')
        BY <1>1, <1>2, OthersStay DEF FsInv, SeenInv
    <2> QED
        BY <1>1, <1>2, <2>1, FilesStay, SeenStays DEF ghosts
<1>13. WatchesInv' /\ OwnerInv'
    BY <1>1 DEF watchVars, ghosts, ownerVars, FsInv, WatchesInv, OwnerInv
<1> QED
    BY <1>2, <1>9, <1>11, <1>12, <1>13 DEF FsInv

LEMMA FailKeeps ==
    ASSUME FsInv, NEW p, FailPass(p)
    PROVE  FsInv'
<1>1. /\ p \in DOMAIN passes /\ ProcessStateCb(p)
      /\ UNCHANGED watcherVars /\ UNCHANGED fileVars /\ UNCHANGED watchVars
      /\ UNCHANGED lastSeenVms /\ UNCHANGED ownerVars /\ UNCHANGED <<firstScan, overlooked, noticed, abandoned>>
      /\ retryTimers' = retryTimers + IF passes[p].callback THEN 1 ELSE 0
      /\ Fault
    BY DEF FailPass
<1>2. UNCHANGED cn /\ WatcherInv'
    BY <1>1, StutterInv DEF watcherVars, FsInv
<1>3. /\ PassesInv'
      /\ Cardinality(Callbacks(passes)) = Cardinality(Callbacks(passes'))
                                             + IF passes[p].callback THEN 1 ELSE 0
    BY <1>1, <1>2, CallbackKeeps DEF FsInv
<1>4. RetriesInv'
    <2>1. Cardinality(Callbacks(passes)) \in Nat
        BY CallbacksFinite DEF FsInv, PassesInv
    <2>2. Cardinality(Callbacks(passes')) \in Nat
        <3>1. passes' \in Seq(Pass)
            BY <1>3 DEF PassesInv
        <3> QED
            BY <3>1, CallbacksFinite
    <2>3. starts' = starts
        BY <1>1 DEF ownerVars
    <2> QED
        BY <1>1, <1>3, <2>1, <2>2, <2>3 DEF FsInv, RetriesInv
<1>5. FilesInv' /\ SeenInv'
    <2>1. Scanned(lastSeenVms', cn')
        BY <1>1, <1>2, OthersStay DEF FsInv, SeenInv
    <2> QED
        BY <1>1, <1>2, <2>1, FilesStay, SeenStays
<1>6. WatchesInv'
    BY <1>1 DEF watchVars, FsInv, WatchesInv
<1>7. OwnerInv'
    <2>1. clean' \in BOOLEAN
        BY DEF FailPass
    <2> QED
        BY <1>1, <2>1, FaultTyped DEF ownerVars, FsInv, OwnerInv
<1> QED
    BY <1>2, <1>3, <1>4, <1>5, <1>6, <1>7 DEF FsInv

LEMMA CompareKeeps ==
    ASSUME FsInv, NEW seen, Versions(seen), Compare(seen), UNCHANGED <<cn, told>>
    PROVE  WatcherInv' /\ firstScan' \in {seen, firstScan}
<1>1. CASE lastSeenVms = Null
    <2>1. UNCHANGED watcherVars /\ firstScan' = seen
        BY <1>1 DEF Compare, watcherVars
    <2> QED
        BY <2>1, StutterInv DEF FsInv
<1>2. CASE lastSeenVms # Null
    <2>1. /\ UpdateHandler("fs", [v \in VM |-> cn[v][lastSeenVms[v]]], [v \in VM |-> cn[v][seen[v]]])
          /\ firstScan' = firstScan
        BY <1>2 DEF Compare
    <2> QED
        BY <2>1, ReportInv DEF FsInv
<1> QED
    BY <1>1, <1>2

LEMMA EndKeeps ==
    ASSUME FsInv, NEW p, EndPass(p)
    PROVE  FsInv'
<1> DEFINE seen == passes[p].seen
<1> DEFINE there == {v \in VM : cn[v][seen[v]].exists}
<1>1. /\ p \in DOMAIN passes /\ seen # Null /\ ProcessStateCb(p)
      /\ UNCHANGED <<cn, told, zonesWatcher, zonesEvent, retryTimers, noticed, faults>>
      /\ UNCHANGED fileVars /\ UNCHANGED ownerVars
      /\ WatchConfig(there, configWatchers \cap there)
      /\ dead' = dead \cap there /\ configEvents' = configEvents \cap there
      /\ Compare(seen) /\ lastSeenVms' = seen /\ clean' = passes[p].alone
    BY DEF EndPass
<1>2. Versions(seen) /\ passes[p].alone \in BOOLEAN
    <2>1. passes[p] \in Pass
        BY <1>1 DEF FsInv, PassesInv
    <2>2. passes[p].alone \in BOOLEAN
        BY <2>1 DEF Pass
    <2>3. Versions(seen)
        BY <1>1, ScannedVersions DEF FsInv, PassesInv
    <2> QED
        BY <2>2, <2>3
<1>3. there \subseteq VM
    OBVIOUS
<1> HIDE DEF seen, there
<1>4. WatcherInv' /\ firstScan' \in {seen, firstScan}
    BY <1>1, <1>2, CompareKeeps
<1>5. /\ PassesInv'
      /\ Cardinality(Callbacks(passes)) = Cardinality(Callbacks(passes'))
                                             + IF passes[p].callback THEN 1 ELSE 0
    BY <1>1, <1>2, CallbackKeeps DEF FsInv
<1>6. RetriesInv'
    <2>1. Cardinality(Callbacks(passes)) \in Nat
        BY CallbacksFinite DEF FsInv, PassesInv
    <2>2. Cardinality(Callbacks(passes')) \in Nat
        <3>1. passes' \in Seq(Pass)
            BY <1>5 DEF PassesInv
        <3> QED
            BY <3>1, CallbacksFinite
    <2>3. starts' = starts /\ retryTimers' = retryTimers
        BY <1>1 DEF ownerVars
    <2> QED
        BY <1>5, <2>1, <2>2, <2>3 DEF FsInv, RetriesInv
<1>7. FilesInv'
    BY <1>1, FilesStay
<1>8. SeenInv'
    <2>1. Scanned(seen, cn') /\ Scanned(firstScan, cn)
        BY <1>1, <1>2, OthersStay, ScannedVersions DEF FsInv, SeenInv
    <2>2. Scanned(lastSeenVms', cn') /\ Scanned(firstScan', cn')
        BY <1>1, <1>4, <2>1, OthersStay
    <2> QED
        BY <1>1, <2>2 DEF FsInv, SeenInv
<1>9. WatchesInv'
    BY <1>1, <1>3 DEF WatchConfig, FsInv, FilesInv, WatchesInv
<1>10. OwnerInv'
    BY <1>1, <1>2 DEF WatchConfig, Compare, TakenForKnown, ownerVars, FsInv, OwnerInv
<1> QED
    BY <1>4, <1>5, <1>6, <1>7, <1>8, <1>9, <1>10 DEF FsInv

\* The events of a config file report its VM when the file is newer, and nothing otherwise.
LEMMA ConfigCases ==
    ASSUME NEW v, OnConfigChange(v)
    PROVE  \/ UNCHANGED <<lastSeenVms, knownVms, emits>>
           \/ /\ config[v] # 0 /\ lastSeenVms # Null
              /\ cn[v][lastSeenVms[v]].exists
              /\ cn[v][config[v]].last_modified > cn[v][lastSeenVms[v]].last_modified
              /\ lastSeenVms' = [lastSeenVms EXCEPT ![v] = config[v]]
              /\ UpdateHandler("fs", [u \in VM |-> cn[u][lastSeenVms[u]]],
                               [u \in VM |-> cn[u][[lastSeenVms EXCEPT ![v] = config[v]][u]]])
<1> DEFINE newer == /\ config[v] # 0 /\ lastSeenVms # Null
                    /\ cn[v][lastSeenVms[v]].exists
                    /\ cn[v][config[v]].last_modified > cn[v][lastSeenVms[v]].last_modified
           seen == [lastSeenVms EXCEPT ![v] = config[v]]
           known == UpdateHandler("fs", [u \in VM |-> cn[u][lastSeenVms[u]]], [u \in VM |-> cn[u][seen[u]]])
<1>1. CASE newer
    <2>1. lastSeenVms' = seen /\ known
        BY <1>1 DEF OnConfigChange
    <2> HIDE DEF known
    <2> QED
        BY <1>1, <2>1 DEF known
<1>2. CASE ~newer
    BY <1>2 DEF OnConfigChange
<1> QED
    BY <1>1, <1>2

\* A later time of a config file is a version as well.
LEMMA ConfigSeen ==
    ASSUME FsInv, NEW v \in VM, OnConfigChange(v)
    PROVE  \/ UNCHANGED <<lastSeenVms, knownVms, emits>>
           \/ /\ lastSeenVms # Null /\ Versions(lastSeenVms')
              /\ UpdateHandler("fs", [u \in VM |-> cn[u][lastSeenVms[u]]], [u \in VM |-> cn[u][lastSeenVms'[u]]])
<1> DEFINE seen == [lastSeenVms EXCEPT ![v] = config[v]]
<1>1. CASE UNCHANGED <<lastSeenVms, knownVms, emits>>
    BY <1>1
<1>2. CASE ~UNCHANGED <<lastSeenVms, knownVms, emits>>
    <2>1. /\ config[v] # 0 /\ lastSeenVms # Null /\ lastSeenVms' = seen
          /\ UpdateHandler("fs", [u \in VM |-> cn[u][lastSeenVms[u]]], [u \in VM |-> cn[u][seen[u]]])
        BY <1>2, ConfigCases
    <2>2. config[v] \in 1..MaxVer /\ config[v] <= Len(cn[v])
        BY <2>1, Bounds DEF FsInv, FilesInv
    <2>3. Versions(lastSeenVms)
        BY <2>1, ScannedVersions DEF FsInv, SeenInv
    <2>4. Versions(seen)
        BY <2>2, <2>3 DEF Versions
    <2> QED
        BY <2>1, <2>4
<1> QED
    BY <1>1, <1>2

LEMMA ConfigChangeKeeps ==
    ASSUME FsInv, NEW v \in VM, OnConfigChange(v)
    PROVE  FsInv'
<1>1. /\ UNCHANGED <<cn, told, zonesWatcher, zonesEvent, configWatchers, dead, waiting>>
      /\ UNCHANGED <<isDirty, isProcessing, passes, retryTimers>>
      /\ UNCHANGED fileVars /\ UNCHANGED ownerVars /\ overlooked' = overlooked \ emits'
      /\ UNCHANGED <<firstScan, noticed, clean, abandoned, faults>>
      /\ configEvents' = configEvents \ {v}
    BY DEF OnConfigChange
<1>2. WatcherInv' /\ Scanned(lastSeenVms', cn')
    <2>1. CASE UNCHANGED <<lastSeenVms, knownVms, emits>>
        BY <1>1, <2>1, StutterInv, OthersStay DEF watcherVars, FsInv, SeenInv
    <2>2. CASE /\ lastSeenVms # Null /\ Versions(lastSeenVms')
               /\ UpdateHandler("fs", [u \in VM |-> cn[u][lastSeenVms[u]]], [u \in VM |-> cn[u][lastSeenVms'[u]]])
        <3>1. WatcherInv'
            BY <1>1, <2>2, ReportInv DEF FsInv
        <3>2. Scanned(lastSeenVms', cn)
            BY <2>2, ScannedVersions
        <3> QED
            BY <1>1, <3>1, <3>2, OthersStay
    <2> QED
        BY <2>1, <2>2, ConfigSeen
<1>3. \A p \in DOMAIN passes : Scanned(passes[p].seen, cn')
    BY <1>1, OthersStay DEF FsInv, PassesInv
<1>4. PassesInv'
    BY <1>1, <1>3 DEF FsInv, PassesInv
<1>5. RetriesInv'
    BY <1>1 DEF FsInv, RetriesInv, ownerVars
<1>6. FilesInv' /\ SeenInv'
    BY <1>1, <1>2, FilesStay, SeenStays
<1>7. WatchesInv' /\ OwnerInv'
    BY <1>1 DEF ownerVars, FsInv, WatchesInv, OwnerInv
<1> QED
    BY <1>2, <1>4, <1>5, <1>6, <1>7 DEF FsInv

\* A watch that ends, a polling that begins or ends.
LEMMA WatchesKeep ==
    ASSUME FsInv, NEW v \in VM,
           OnWatcherError(v) \/ OnConfigRenamed(v) \/ TryWatching(v) \/ TimeOut(v)
    PROVE  FsInv'
<1>1. UNCHANGED watcherVars /\ UNCHANGED <<fileVars, passVars, ownerVars, firstScan, overlooked, noticed, clean, faults>>
    BY DEF OnWatcherError, OnConfigRenamed, Unwatched, TryWatching, TimeOut
<1>2. UNCHANGED cn /\ WatcherInv'
    BY <1>1, StutterInv DEF watcherVars, FsInv
<1>3. PassesInv' /\ RetriesInv' /\ Scanned(lastSeenVms', cn')
    BY <1>1, <1>2, PassesStay DEF ownerVars
<1>4. FilesInv' /\ SeenInv'
    BY <1>1, <1>2, <1>3, FilesStay, SeenStays
<1>5. WatchesInv'
    BY DEF OnWatcherError, OnConfigRenamed, Unwatched, TryWatching, TimeOut, FsInv, WatchesInv
<1>6. abandoned' \subseteq VM
    BY DEF OnWatcherError, OnConfigRenamed, TryWatching, TimeOut, FsInv, OwnerInv
<1>7. OwnerInv'
    BY <1>1, <1>6 DEF ownerVars, FsInv, OwnerInv
<1> QED
    BY <1>2, <1>3, <1>4, <1>5, <1>7 DEF FsInv

\* The owner's lookup, an event that is emitted, and a step that does nothing.
LEMMA QuietKeeps ==
    ASSUME FsInv, UNCHANGED cn, WatcherInv', looked' \in BOOLEAN, overlooked' \subseteq VM,
           UNCHANGED <<fileVars, watchVars, passVars, started, starts>>,
           UNCHANGED <<firstScan, noticed, clean, abandoned, faults>>
    PROVE  FsInv'
<1>1. PassesInv' /\ RetriesInv' /\ Scanned(lastSeenVms', cn')
    BY PassesStay
<1>2. FilesInv' /\ SeenInv'
    BY <1>1, FilesStay, SeenStays
<1>3. WatchesInv' /\ OwnerInv'
    BY DEF watchVars, FsInv, WatchesInv, OwnerInv
<1> QED
    BY <1>1, <1>2, <1>3 DEF FsInv

LEMMA FsStep == FsInv /\ [Next]_vars => FsInv'
<1> SUFFICES ASSUME FsInv, [Next]_vars PROVE FsInv'
    OBVIOUS
<1>1. ASSUME NEW v \in VM, Files(v) PROVE FsInv'
    BY <1>1, XmlKeeps, ConfigKeeps, TouchKeeps DEF Files
<1>2. CASE ZonesTouched
    BY <1>2, TouchKeeps
<1>3. ASSUME NEW v \in VM, EmitImmediately(v), UNCHANGED fsVars PROVE FsInv'
    <2>1. WatcherInv' /\ UNCHANGED cn
        BY <1>3, EmitInv DEF EmitImmediately, FsInv
    <2>2. UNCHANGED <<fileVars, watchVars, passVars, started, starts, looked, ghosts>>
        BY <1>3 DEF fsVars, ownerVars
    <2>3. looked' \in BOOLEAN /\ overlooked' \subseteq VM
        BY <2>2 DEF ghosts, FsInv, OwnerInv
    <2> QED
        BY <2>1, <2>2, <2>3, QuietKeeps DEF ghosts
<1>4. CASE AgentLooks
    <2>1. WatcherInv' /\ UNCHANGED cn
        BY <1>4, LooksInv DEF AgentLooks, ListenerLooks, FsInv
    <2>2. /\ UNCHANGED <<fileVars, watchVars, passVars, started, starts>>
          /\ UNCHANGED <<firstScan, noticed, clean, abandoned, faults>>
          /\ looked' \in BOOLEAN /\ overlooked' \subseteq VM
        BY <1>4 DEF AgentLooks
    <2> QED
        BY <2>1, <2>2, QuietKeeps
<1>5. CASE Stop
    BY <1>5, StopKeeps
<1>6. CASE Start \/ RetryStartup
    BY <1>6, StartKeeps
<1>7. CASE OnZoneEvent
    BY <1>7, ZoneEventKeeps
<1>8. ASSUME NEW p \in 1..MaxPasses, Scan(p) \/ FailPass(p) \/ EndPass(p) PROVE FsInv'
    BY <1>8, ScanKeeps, FailKeeps, EndKeeps
<1>9. ASSUME NEW v \in VM, OnConfigChange(v) PROVE FsInv'
    BY <1>9, ConfigChangeKeeps
<1>10. ASSUME NEW v \in VM, OnWatcherError(v) \/ OnConfigRenamed(v) \/ TryWatching(v) \/ TimeOut(v)
       PROVE  FsInv'
    BY <1>10, WatchesKeep
<1>11. CASE UNCHANGED vars
    <2>1. WatcherInv' /\ UNCHANGED cn
        BY <1>11, StutterInv DEF vars, watcherVars, FsInv
    <2>2. UNCHANGED <<fileVars, watchVars, passVars, started, starts, looked, ghosts>>
        BY <1>11 DEF vars, fsVars, ownerVars
    <2>3. looked' \in BOOLEAN /\ overlooked' \subseteq VM
        BY <2>2 DEF ghosts, FsInv, OwnerInv
    <2> QED
        BY <2>1, <2>2, <2>3, QuietKeeps DEF ghosts
<1> QED
    BY <1>1, <1>2, <1>3, <1>4, <1>5, <1>6, <1>7, <1>8, <1>9, <1>10, <1>11 DEF Next

\* FsTypeOK holds always: a busy watcher has a pass under way, and there are never more
\* retries than calls of start() (lib/watchers/fs-watcher.js:405-410, 525-533, 557-568).
THEOREM FsTyped == Spec => []FsTypeOK
BY FsInit, FsStep, FsInvType, PTL DEF Spec

-----------------------------------------------------------------------------
\* What Watchers means by a report is what this module means by it.
LEMMA SameChange ==
    ASSUME NEW k, NEW w, NEW old, NEW new
    PROVE  W!DispatchChange(k, w, old, new) = DispatchChange(k, w, old, new)
<1>1. \A o : W!Seen(w, o) = Seen(w, o) /\ W!ZoneView(o) = ZoneView(o)
    BY DEF W!Seen, Seen, W!FsView, FsView, W!ZoneView, ZoneView, W!VmadmView, VmadmView,
           W!ZoneRunning, ZoneRunning, W!Seconds, Seconds
<1>2. \A a, b : W!Updated(a, b) = Updated(a, b)
    BY DEF W!Updated, Updated, W!Refused, Refused, W!Rounded, Rounded, W!Has, Has
<1>3. \A a, b : W!UpdateIfNewer(a, b) = UpdateIfNewer(a, b)
    BY <1>2 DEF W!UpdateIfNewer, UpdateIfNewer
<1>4. \A o : W!DispatchCreate(k, o) = DispatchCreate(k, o)
    BY <1>3 DEF W!DispatchCreate, DispatchCreate, W!News, News, W!Silently, Silently, W!Entry, Entry
<1>5. \A o : W!DispatchModify(k, o, w) = DispatchModify(k, o, w)
    BY <1>2, <1>3 DEF W!DispatchModify, DispatchModify, W!News, News, W!Silently, Silently,
                      W!Entry, Entry, W!Has, Has, W!Without, Without
<1>6. W!DispatchDelete(k) = DispatchDelete(k) /\ W!NoReport(k) = NoReport(k)
    BY DEF W!DispatchDelete, DispatchDelete, W!NoReport, NoReport, W!News, News, W!Silently, Silently
<1>7. W!Modified(w, old, new) = Modified(w, old, new)
    BY <1>1 DEF W!Modified, Modified
<1> QED
    BY <1>1, <1>4, <1>5, <1>6, <1>7 DEF W!DispatchChange, DispatchChange

LEMMA SameReport ==
    ASSUME NEW w, NEW from, NEW to
    PROVE  W!UpdateHandler(w, from, to) <=> UpdateHandler(w, from, to)
BY SameChange DEF W!UpdateHandler, UpdateHandler

LEMMA SameCnChange ==
    ASSUME NEW v
    PROVE  W!CnChange(v) <=> CnChange(v)
<1>1. \A S : W!Cardinality(S) = Cardinality(S)
    BY Zenon DEF W!Cardinality, Cardinality
<1>2. W!Last(v) = Last(v) /\ W!Later(v) = Later(v) /\ W!NewQuota(v) = NewQuota(v)
    BY DEF W!Last, Last, W!Later, Later, W!NewQuota, NewQuota
<1>3. \A o : W!Becomes(v, o) <=> Becomes(v, o)
    BY DEF W!Becomes, Becomes
<1>4. W!FirstStates = FirstStates
    BY DEF W!FirstStates, FirstStates, W!Lasting, Lasting
<1>5. W!Creations(v) = Creations(v)
    BY <1>1 DEF W!Creations, Creations
<1>6. W!Created(v) <=> Created(v)
    BY <1>2, <1>3, <1>4, <1>5 DEF W!Created, Created
<1>7. W!Configured(v) <=> Configured(v)
    BY <1>2, <1>3 DEF W!Configured, Configured
<1>8. /\ W!Halted(v) <=> Halted(v)
      /\ W!Booted(v) <=> Booted(v)
      /\ W!QuotaSet(v) <=> QuotaSet(v)
      /\ W!Deleted(v) <=> Deleted(v)
    BY <1>2, <1>3 DEF W!Halted, Halted, W!Booted, Booted, W!QuotaSet, QuotaSet, W!Deleted, Deleted
<1> QED
    BY <1>6, <1>7, <1>8 DEF W!CnChange, CnChange

LEMMA RefinesInit == Init => W!Init
BY DEF Init, W!Init, VmWatcherInit, W!VmWatcherInit, W!Lasting, Lasting, W!NoEntry, NoEntry,
       Null, W!Unseen

\* Steps that the contract does not see.
LEMMA NothingSeen ==
    ASSUME UNCHANGED <<watcherVars, lastSeenVms, firstScan>>
    PROVE  UNCHANGED W!vars
BY DEF W!vars, W!watcherVars, watcherVars

\* What is seen is a look.
LEMMA SeenIsLook ==
    ASSUME FsInv, NEW k, Versions(k)
    PROVE  k \in W!Looks("fs")
BY DEF W!Looks, Versions

\* A report of what was seen since is a report of the contract.
LEMMA SeenRefines ==
    ASSUME FsInv, Versions(lastSeenVms'), lastSeenVms # Null, UNCHANGED <<cn, told, firstScan>>,
           UpdateHandler("fs", [v \in VM |-> cn[v][lastSeenVms[v]]], [v \in VM |-> cn[v][lastSeenVms'[v]]])
    PROVE  W!Report("fs")
<1>1. lastSeenVms' \in W!Looks("fs")
    BY SeenIsLook
<1>2. W!UpdateHandler("fs", [v \in VM |-> cn[v][lastSeenVms[v]]], [v \in VM |-> cn[v][lastSeenVms'[v]]])
    BY SameReport
<1> QED
    BY <1>1, <1>2 DEF W!Report, W!Unseen, Null

LEMMA EndRefines ==
    ASSUME FsInv, NEW p, EndPass(p)
    PROVE  W!FirstLook("fs") \/ W!Report("fs")
<1> DEFINE seen == passes[p].seen
<1>1. seen # Null /\ Compare(seen) /\ lastSeenVms' = seen /\ UNCHANGED <<cn, told>> /\ p \in DOMAIN passes
    BY DEF EndPass
<1>2. Versions(seen)
    BY <1>1, ScannedVersions DEF FsInv, PassesInv
<1> HIDE DEF seen
<1>3. CASE lastSeenVms = Null
    <2>1. UNCHANGED watcherVars /\ firstScan' = seen
        BY <1>1, <1>3 DEF Compare, watcherVars
    <2>2. W!FirstLook("fs")
        BY <1>1, <1>2, <1>3, <2>1, SeenIsLook DEF W!FirstLook, W!watcherVars, watcherVars, W!Unseen, Null
    <2> QED
        BY <2>2
<1>4. CASE lastSeenVms # Null
    BY <1>1, <1>2, <1>4, SeenRefines DEF Compare
<1> QED
    BY <1>3, <1>4

LEMMA RefinesStep == FsInv /\ [Next]_vars => [W!Next]_W!vars
<1> SUFFICES ASSUME FsInv, [Next]_vars PROVE W!Next \/ UNCHANGED W!vars
    OBVIOUS
<1>1. ASSUME NEW v \in VM, XmlWritten(v) \/ ConfigWritten(v) PROVE W!Next
    <2>1. CnChange(v) /\ UNCHANGED <<knownVms, emits, told, lastSeenVms, firstScan>>
        BY <1>1 DEF XmlWritten, ConfigWritten, CnChange, passVars
    <2> QED
        BY <2>1, SameCnChange DEF W!Next
<1>2. ASSUME NEW v \in VM, DirRemoved(v) \/ DirCreated(v) PROVE UNCHANGED W!vars
    BY <1>2, NothingSeen DEF DirRemoved, DirCreated, passVars, ghosts
<1>3. CASE ZonesTouched
    BY <1>3, NothingSeen DEF ZonesTouched, passVars
<1>4. ASSUME NEW v \in VM, EmitImmediately(v), UNCHANGED fsVars PROVE W!Next
    BY <1>4 DEF W!Next, fsVars, passVars, ghosts, W!EmitImmediately, EmitImmediately
<1>5. CASE AgentLooks
    BY <1>5 DEF AgentLooks, ListenerLooks, passVars, ghosts, W!Next, W!Lookup, W!ListenerLooks
<1>6. CASE Stop
    <2>1. UNCHANGED <<watcherVars, firstScan>> /\ lastSeenVms' = Null
        BY <1>6 DEF Stop, ghosts
    <2>2. W!Forget("fs")
        BY <2>1 DEF W!Forget, W!watcherVars, watcherVars, W!Unseen, Null
    <2> QED
        BY <2>2 DEF W!Next
<1>7. CASE Start \/ RetryStartup \/ OnZoneEvent
    BY <1>7, NothingSeen DEF Start, RetryStartup, StartBody, OnZoneEvent, ghosts
<1>8. ASSUME NEW p \in 1..MaxPasses, Scan(p) \/ FailPass(p) PROVE UNCHANGED W!vars
    BY <1>8, NothingSeen DEF Scan, FailPass, ghosts
<1>9. ASSUME NEW p \in 1..MaxPasses, EndPass(p) PROVE W!Next
    BY <1>9, EndRefines DEF W!Next
<1>10. ASSUME NEW v \in VM, OnConfigChange(v) PROVE W!Next \/ UNCHANGED W!vars
    <2>1. UNCHANGED <<cn, told, firstScan>>
        BY <1>10 DEF OnConfigChange, ghosts
    <2>2. CASE UNCHANGED <<lastSeenVms, knownVms, emits>>
        BY <2>1, <2>2, NothingSeen DEF watcherVars
    <2>3. CASE ~UNCHANGED <<lastSeenVms, knownVms, emits>>
        BY <1>10, <2>1, <2>3, ConfigSeen, SeenRefines DEF W!Next
    <2> QED
        BY <2>2, <2>3
<1>11. ASSUME NEW v \in VM, OnWatcherError(v) \/ OnConfigRenamed(v) \/ TryWatching(v) \/ TimeOut(v)
       PROVE  UNCHANGED W!vars
    BY <1>11, NothingSeen DEF OnWatcherError, OnConfigRenamed, Unwatched, TryWatching, TimeOut, passVars
<1>12. CASE UNCHANGED vars
    BY <1>12, NothingSeen DEF vars, fsVars, passVars, ghosts
<1> QED
    BY <1>1, <1>2, <1>3, <1>4, <1>5, <1>6, <1>7, <1>8, <1>9, <1>10, <1>11, <1>12 DEF Next, Files

\* ImplementsWatchers: however its passes overlap and fail, FsWatcher reports what a
\* watcher may report by the contract (lib/vm-watcher.js:17-30,
\* lib/watchers/fs-watcher.js:405-535).
THEOREM FsImplements == Spec => ImplementsWatchers
BY FsInit, FsStep, RefinesInit, RefinesStep, PTL DEF Spec, W!Spec, ImplementsWatchers

-----------------------------------------------------------------------------
(***************************************************************************)
(* What the listener knows of one VM: h is the VM's history, t the version *)
(* that was there when the listener last looked, f the one of the first    *)
(* scan, l the one of the last scan or 0, k the entry in knownVms; e says  *)
(* that an event of the VM is waiting, o that it was overlooked.           *)
(***************************************************************************)
\* A VM that is there was written later than whatever it was before.
Ordered(h) ==
    \A i, j \in 1..Len(h) : (i < j /\ h[j].exists) => h[i].last_modified < h[j].last_modified

\* A VM known to be destroyed was gone when the listener looked, or an event is due.
DestroyedTold(h, t, k, e) ==
    k.destroyed => \E i \in 1..Len(h) : ~h[i].exists /\ (e \/ i <= t)

\* The time in the entry was the VM's when the listener looked, or before.
KnownTold(h, t, k, e, o) ==
    (k.entry /\ ~k.destroyed /\ Has(k.fields, "last_modified")) =>
        \E i \in 1..Len(h) :
            /\ h[i].exists /\ h[i].last_modified = k.fields["last_modified"]
            /\ e \/ o \/ i <= t

\* So was what the last scan found.
SeenTold(h, t, f, l, k, e, o) ==
    (l # 0 /\ h[l].exists) => l <= t \/ l <= f \/ e \/ o \/ k.destroyed

GoneTold(h, t, f, l, e) ==
    (l # 0 /\ ~h[l].exists) => e \/ \E i \in 1..Len(h) : ~h[i].exists /\ (i <= t \/ i <= f)

Tells(h, t, f, l, k, e, o) ==
    /\ DestroyedTold(h, t, k, e) /\ KnownTold(h, t, k, e, o)
    /\ SeenTold(h, t, f, l, k, e, o) /\ GoneTold(h, t, f, l, e)

\* The listener knows of version n, or of one that looks like it.
KnowsOf(h, t, f, n) ==
    \/ n <= t \/ n <= f
    \/ \E i \in 1..Len(h) : (i <= t \/ i <= f) /\ LooksLike(h[i], h[n])

\* Of a later time the entry learns, and the event is emitted, unless the entry has that
\* time or a later one.
LEMMA FsModify ==
    ASSUME NEW k, IsKnown(k), NEW s, ~k.destroyed
    PROVE  LET r == DispatchModify(k, FsView(s), "fs")
           IN  \/ /\ r.emit /\ r.known.entry /\ ~r.known.destroyed
                  /\ Has(r.known.fields, "last_modified")
                  /\ r.known.fields["last_modified"] = s.last_modified
               \/ /\ ~r.emit /\ r.known = Entry(k.fields) /\ k.entry /\ Has(k.fields, "last_modified")
                  /\ \/ k.fields["last_modified"] = s.last_modified
                     \/ k.fields["last_modified"] > Rounded(s.last_modified)
<1> DEFINE z == FsView(s)
<1>1. DOMAIN z = {"last_modified"} /\ z = [p \in {"last_modified"} |-> z[p]] /\ z["last_modified"] = s.last_modified
    BY DEF FsView
<1>2. Without(z, "state") = z
    BY <1>1 DEF Without
<1> HIDE DEF z
<1>3. DispatchModify(k, z, "fs") =
         IF Updated(k.fields, z) # {} THEN News(Entry(UpdateIfNewer(k.fields, z))) ELSE Silently(Entry(k.fields))
    BY <1>2 DEF DispatchModify
<1>4. CASE Updated(k.fields, z) # {}
    <2>1. Updated(k.fields, z) = {"last_modified"}
        BY <1>1, <1>4 DEF Updated
    <2>2. /\ "last_modified" \in DOMAIN UpdateIfNewer(k.fields, z)
          /\ UpdateIfNewer(k.fields, z)["last_modified"] = s.last_modified
        BY <1>1, <2>1 DEF UpdateIfNewer
    <2> QED
        BY <1>3, <1>4, <2>2 DEF News, Entry, Has, z
<1>5. CASE Updated(k.fields, z) = {}
    <2>1. Has(k.fields, "last_modified")
        BY <1>1, <1>5 DEF Updated, Refused, Has
    <2>2. k.fields["last_modified"] = s.last_modified \/ k.fields["last_modified"] > Rounded(s.last_modified)
        BY <1>1, <1>5, <2>1 DEF Updated, Refused, Has
    <2>3. k.entry
        BY <2>1 DEF IsKnown, NoEntry, Has
    <2> QED
        BY <1>3, <1>5, <2>1, <2>2, <2>3 DEF Silently, z
<1> QED
    BY <1>4, <1>5

\* Of a VM that is there again the event is emitted, unless it is known still.
LEMMA FsCreate ==
    ASSUME NEW k, NEW s
    PROVE  LET r == DispatchCreate(k, FsView(s))
           IN  /\ r.emit <=> (~k.entry \/ k.destroyed)
               /\ r.known.entry /\ ~r.known.destroyed
               /\ Has(r.known.fields, "last_modified")
               /\ \/ r.known.fields["last_modified"] = s.last_modified
                  \/ /\ k.entry /\ ~k.destroyed /\ Has(k.fields, "last_modified")
                     /\ r.known.fields["last_modified"] = k.fields["last_modified"]
<1> DEFINE z == FsView(s)
<1>1. DOMAIN z = {"last_modified"} /\ z["last_modified"] = s.last_modified
    BY DEF FsView
<1> HIDE DEF z
<1>2. ASSUME NEW y
      PROVE  LET u == UpdateIfNewer(y, z)
             IN  /\ "last_modified" \in DOMAIN u
                 /\ \/ u["last_modified"] = s.last_modified
                    \/ "last_modified" \in DOMAIN y /\ u["last_modified"] = y["last_modified"]
    <2>1. CASE "last_modified" \in Updated(y, z)
        BY <1>1, <2>1 DEF UpdateIfNewer
    <2>2. CASE "last_modified" \notin Updated(y, z)
        <3>1. "last_modified" \in DOMAIN y
            BY <1>1, <2>2 DEF Updated, Refused, Has
        <3> QED
            BY <2>2, <3>1 DEF UpdateIfNewer
    <2> QED
        BY <2>1, <2>2
<1>3. CASE ~k.entry \/ k.destroyed
    <2>1. DispatchCreate(k, z) = News(Entry(UpdateIfNewer(<<>>, z)))
        BY <1>3 DEF DispatchCreate
    <2>2. "last_modified" \notin DOMAIN <<>>
        OBVIOUS
    <2> QED
        BY <1>2, <1>3, <2>1, <2>2 DEF News, Entry, Has, z
<1>4. CASE k.entry /\ ~k.destroyed
    <2>1. DispatchCreate(k, z) = Silently(Entry(UpdateIfNewer(k.fields, z)))
        BY <1>4 DEF DispatchCreate
    <2> QED
        BY <1>2, <1>4, <2>1 DEF Silently, Entry, Has, z
<1> QED
    BY <1>3, <1>4

\* What a version holds, and that the directory's rounding only adds to a time.
LEMMA StateTyped == \A s \in VmState : s.exists \in BOOLEAN /\ s.last_modified \in Nat
BY Bounds DEF VmState

LEMMA RoundedIsLater == ASSUME NEW t \in Nat PROVE t <= Rounded(t) /\ Rounded(t) \in Nat
<1>1. t <= t + MS_PER_SEC - 1 /\ t + MS_PER_SEC - 1 \in Nat
    BY Bounds
<1>2. Rounded(t) \in {t, t + MS_PER_SEC - 1}
    BY DEF Rounded
<1> QED
    BY <1>1, <1>2

\* One VM in one report, which found it as it was in version s.
LEMMA FsReport ==
    ASSUME NEW h \in Seq(VmState), Ordered(h), NEW t \in Nat, NEW f \in Nat,
           NEW l \in 1..Len(h), NEW s \in 1..Len(h), NEW k, IsKnown(k),
           NEW e \in BOOLEAN, NEW o \in BOOLEAN, Tells(h, t, f, l, k, e, o),
           NEW e2 \in BOOLEAN, NEW o2 \in BOOLEAN,
           e2 <=> e \/ DispatchChange(k, "fs", h[l], h[s]).emit,
           o2 <=> (o \/ (h[s].exists /\ ~h[l].exists /\ k.entry /\ ~k.destroyed)) /\ ~e2
    PROVE  /\ Tells(h, t, f, s, DispatchChange(k, "fs", h[l], h[s]).known, e2, o2)
           /\ k.destroyed => DispatchChange(k, "fs", h[l], h[s]).known.destroyed \/ e2
           /\ h[s].exists /\ ~h[l].exists => e2 \/ o2
<1> DEFINE r == DispatchChange(k, "fs", h[l], h[s])
<1>1. /\ h[l].exists \in BOOLEAN /\ h[s].exists \in BOOLEAN
      /\ h[l].last_modified \in Nat /\ h[s].last_modified \in Nat
      /\ \A i \in 1..Len(h) : h[i].last_modified \in Nat
    <2>1. \A i \in 1..Len(h) : h[i] \in VmState
        OBVIOUS
    <2>2. \A i \in 1..Len(h) : h[i].exists \in BOOLEAN /\ h[i].last_modified \in Nat
        BY <2>1, StateTyped
    <2> QED
        BY <2>2
<1>2. /\ DestroyedTold(h, t, k, e) /\ KnownTold(h, t, k, e, o)
      /\ SeenTold(h, t, f, l, k, e, o) /\ GoneTold(h, t, f, l, e)
    BY DEF Tells
<1>3. e2 <=> e \/ r.emit
    OBVIOUS
<1>4. \A i, j \in 1..Len(h) : (i < j /\ h[j].exists) => h[i].last_modified < h[j].last_modified
    BY DEF Ordered
<1>5. (e => e2) /\ (o => e2 \/ o2)
    BY <1>3
<1>6. CASE h[s].exists /\ ~h[l].exists
    <2>1. r = DispatchCreate(k, FsView(h[s]))
        BY <1>6 DEF DispatchChange, Seen
    <2>2. e2 \/ o2
        BY <1>3, <1>6, <2>1, FsCreate
    <2>3. /\ r.known.entry /\ ~r.known.destroyed /\ Has(r.known.fields, "last_modified")
          /\ \/ r.known.fields["last_modified"] = h[s].last_modified
             \/ /\ k.entry /\ ~k.destroyed /\ Has(k.fields, "last_modified")
                /\ r.known.fields["last_modified"] = k.fields["last_modified"]
        BY <2>1, FsCreate
    <2>4. k.destroyed => e2
        BY <1>3, <2>1, FsCreate
    <2> HIDE DEF r
    <2>5. KnownTold(h, t, r.known, e2, o2)
        BY <1>2, <1>6, <2>2, <2>3 DEF KnownTold
    <2>6. /\ DestroyedTold(h, t, r.known, e2)
          /\ SeenTold(h, t, f, s, r.known, e2, o2) /\ GoneTold(h, t, f, s, e2)
        BY <1>6, <2>2, <2>3 DEF DestroyedTold, SeenTold, GoneTold
    <2> QED
        BY <2>2, <2>4, <2>5, <2>6 DEF Tells, r
<1>7. CASE ~h[s].exists /\ h[l].exists
    <2>1. r = DispatchDelete(k)
        BY <1>7 DEF DispatchChange
    <2>2. CASE k.destroyed
        <3>1. r = Silently(k)
            BY <2>1, <2>2 DEF DispatchDelete
        <3>2. r.known = k
            BY <3>1 DEF Silently
        <3> HIDE DEF r
        <3>3. /\ DestroyedTold(h, t, k, e2) /\ KnownTold(h, t, k, e2, o2)
              /\ SeenTold(h, t, f, s, k, e2, o2) /\ GoneTold(h, t, f, s, e2)
            BY <1>2, <1>5, <1>7, <2>2 DEF DestroyedTold, KnownTold, SeenTold, GoneTold
        <3> QED
            BY <1>7, <2>2, <3>2, <3>3 DEF Tells, r
    <2>3. CASE ~k.destroyed
        <3>1. r = News([entry |-> TRUE, destroyed |-> TRUE, fields |-> k.fields])
            BY <2>1, <2>3 DEF DispatchDelete
        <3>2. r.emit /\ r.known.destroyed
            BY <3>1 DEF News
        <3>3. e2
            BY <1>3, <3>2
        <3> HIDE DEF r
        <3>4. /\ DestroyedTold(h, t, r.known, e2) /\ KnownTold(h, t, r.known, e2, o2)
              /\ SeenTold(h, t, f, s, r.known, e2, o2) /\ GoneTold(h, t, f, s, e2)
            BY <1>7, <3>2, <3>3 DEF DestroyedTold, KnownTold, SeenTold, GoneTold
        <3> QED
            BY <1>7, <3>2, <3>3, <3>4 DEF Tells, r
    <2> QED
        BY <2>2, <2>3
<1>8. CASE h[s].exists /\ h[l].exists /\ h[s].last_modified > h[l].last_modified
    <2>1. r = DispatchModify(k, FsView(h[s]), "fs")
        BY <1>8 DEF DispatchChange, Modified, Seen
    <2>2. CASE k.destroyed
        <3>1. r.known = k
            BY <2>1, <2>2 DEF DispatchModify, Silently
        <3> HIDE DEF r
        <3>2. /\ DestroyedTold(h, t, k, e2) /\ KnownTold(h, t, k, e2, o2)
              /\ SeenTold(h, t, f, s, k, e2, o2) /\ GoneTold(h, t, f, s, e2)
            BY <1>2, <1>5, <1>8, <2>2 DEF DestroyedTold, KnownTold, SeenTold, GoneTold
        <3> QED
            BY <1>8, <2>2, <3>1, <3>2 DEF Tells, r
    <2>3. CASE /\ r.emit /\ r.known.entry /\ ~r.known.destroyed
               /\ Has(r.known.fields, "last_modified")
               /\ r.known.fields["last_modified"] = h[s].last_modified
        <3>1. e2
            BY <1>3, <2>3
        <3> HIDE DEF r
        <3>2. /\ DestroyedTold(h, t, r.known, e2) /\ KnownTold(h, t, r.known, e2, o2)
              /\ SeenTold(h, t, f, s, r.known, e2, o2) /\ GoneTold(h, t, f, s, e2)
            BY <1>8, <2>3, <3>1 DEF DestroyedTold, KnownTold, SeenTold, GoneTold
        <3> QED
            BY <1>8, <3>1, <3>2 DEF Tells, r
    <2>4. CASE /\ ~k.destroyed /\ ~r.emit /\ r.known = Entry(k.fields) /\ k.entry
               /\ Has(k.fields, "last_modified")
               /\ \/ k.fields["last_modified"] = h[s].last_modified
                  \/ k.fields["last_modified"] > Rounded(h[s].last_modified)
        <3>1. PICK i \in 1..Len(h) :
                 /\ h[i].exists /\ h[i].last_modified = k.fields["last_modified"]
                 /\ e \/ o \/ i <= t
            BY <1>2, <2>4 DEF KnownTold
        <3>2. h[s].last_modified <= Rounded(h[s].last_modified) /\ Rounded(h[s].last_modified) \in Nat
            BY <1>1, RoundedIsLater
        <3>3. h[i].last_modified >= h[s].last_modified
            BY <1>1, <2>4, <3>1, <3>2
        <3>4. s <= i
            <4>1. i < s => h[i].last_modified < h[s].last_modified
                BY <1>4, <1>8
            <4> QED
                BY <1>1, <3>3, <4>1
        <3>5. e2 \/ o2 \/ i <= t
            BY <1>5, <3>1
        <3>6. ~r.known.destroyed /\ r.known.fields = k.fields
            BY <2>4 DEF Entry
        <3> HIDE DEF r
        <3>7. KnownTold(h, t, r.known, e2, o2)
            BY <3>1, <3>5, <3>6 DEF KnownTold
        <3>8. SeenTold(h, t, f, s, r.known, e2, o2)
            BY <3>4, <3>5 DEF SeenTold
        <3>9. DestroyedTold(h, t, r.known, e2) /\ GoneTold(h, t, f, s, e2)
            BY <1>8, <3>6 DEF DestroyedTold, GoneTold
        <3> QED
            BY <1>8, <2>4, <3>7, <3>8, <3>9 DEF Tells, r
    <2> QED
        BY <2>1, <2>2, <2>3, <2>4, FsModify
<1>9. CASE \/ h[s].exists /\ h[l].exists /\ ~(h[s].last_modified > h[l].last_modified)
           \/ ~h[s].exists /\ ~h[l].exists
    <2>1. r = Silently(k)
        BY <1>9 DEF DispatchChange, NoReport, Modified
    <2>2. r.known = k
        BY <2>1 DEF Silently
    <2> HIDE DEF r
    <2>3. DestroyedTold(h, t, k, e2) /\ KnownTold(h, t, k, e2, o2)
        BY <1>2, <1>5 DEF DestroyedTold, KnownTold
    <2>4. SeenTold(h, t, f, s, k, e2, o2)
        <3>1. CASE h[s].exists /\ h[l].exists /\ ~(h[s].last_modified > h[l].last_modified)
            <4>1. s <= l
                BY <1>1, <1>4, <3>1
            <4>2. l <= t \/ l <= f \/ e \/ o \/ k.destroyed
                BY <1>2, <3>1 DEF SeenTold
            <4> QED
                BY <1>5, <4>1, <4>2 DEF SeenTold
        <3>2. CASE ~h[s].exists
            BY <3>2 DEF SeenTold
        <3> QED
            BY <1>9, <3>1, <3>2
    <2>5. GoneTold(h, t, f, s, e2)
        BY <1>2, <1>5, <1>9 DEF GoneTold
    <2> QED
        BY <1>9, <2>2, <2>3, <2>4, <2>5 DEF Tells, r
<1> QED
    BY <1>1, <1>6, <1>7, <1>8, <1>9

\* The first scan of an attempt.
LEMMA FsFirst ==
    ASSUME NEW h, NEW t, NEW f, NEW s \in Nat, NEW k, NEW e \in BOOLEAN, NEW o \in BOOLEAN,
           s \in 1..Len(h), Tells(h, t, f, 0, k, e, o)
    PROVE  Tells(h, t, s, s, k, e, o)
<1>1. SeenTold(h, t, s, s, k, e, o)
    BY DEF SeenTold
<1>2. GoneTold(h, t, s, s, e)
    BY DEF GoneTold
<1> QED
    BY <1>1, <1>2 DEF Tells

LEMMA KnowsStays ==
    ASSUME NEW h, NEW g, Len(h) \in Nat, Len(g) \in Nat, Len(h) <= Len(g),
           \A i \in 1..Len(h) : g[i] = h[i],
           NEW t \in Nat, NEW u \in Nat, t <= u, NEW f \in Nat, NEW n \in 0..Len(h),
           KnowsOf(h, t, f, n)
    PROVE  KnowsOf(g, u, f, n)
<1>1. CASE n <= t \/ n <= f
    BY <1>1 DEF KnowsOf
<1>2. CASE ~(n <= t \/ n <= f)
    <2>1. PICK i \in 1..Len(h) : (i <= t \/ i <= f) /\ LooksLike(h[i], h[n])
        BY <1>2 DEF KnowsOf
    <2>2. n \in 1..Len(h) /\ i \in 1..Len(g) /\ (i <= u \/ i <= f)
        BY <1>2, <2>1
    <2>3. LooksLike(g[i], g[n])
        BY <2>1, <2>2
    <2> QED
        BY <2>2, <2>3 DEF KnowsOf
<1> QED
    BY <1>1, <1>2

\* Who knows what the last scan found knows of what was noticed before: x is the version
\* that the VM's .xml file was written or removed for.
LEMMA SeenIsKnown ==
    ASSUME NEW h \in Seq(VmState), NEW t \in Nat, NEW f \in Nat, NEW k, NEW l \in 1..Len(h),
           NEW n \in 0..Len(h), NEW x \in Nat, NEW e \in BOOLEAN, NEW o \in BOOLEAN,
           Tells(h, t, f, l, k, e, o), n <= l,
           \A i \in 1..Len(h) : ~h[i].exists => i <= x,
           n = 0 \/ x <= t \/ x <= n
    PROVE  e \/ o \/ (k.destroyed /\ h[Len(h)].exists) \/ KnowsOf(h, t, f, n)
<1>1. SeenTold(h, t, f, l, k, e, o) /\ GoneTold(h, t, f, l, e)
    BY DEF Tells
<1>2. n <= t \/ n <= f => KnowsOf(h, t, f, n)
    BY DEF KnowsOf
<1>3. CASE h[l].exists
    <2>1. CASE l <= t \/ l <= f
        BY <1>2, <2>1
    <2>2. CASE k.destroyed /\ ~h[Len(h)].exists
        <3>1. Len(h) <= x /\ Len(h) \in Nat /\ Len(h) # l
            BY <1>3, <2>2
        <3>2. x <= n => FALSE
            BY <3>1
        <3> QED
            BY <1>2, <3>1, <3>2
    <2> QED
        BY <1>1, <1>3, <2>1, <2>2 DEF SeenTold
<1>4. CASE ~h[l].exists
    <2>1. l <= x
        BY <1>4
    <2>2. CASE n = 0 \/ x <= t
        BY <1>2, <2>1, <2>2
    <2>3. CASE x <= n /\ ~e
        <3>1. n = l
            BY <2>1, <2>3
        <3>2. PICK i \in 1..Len(h) : ~h[i].exists /\ (i <= t \/ i <= f)
            BY <1>1, <1>4, <2>3 DEF GoneTold
        <3>3. h[i].exists \in BOOLEAN /\ h[n].exists \in BOOLEAN
            <4>1. h[i] \in VmState /\ h[n] \in VmState
                BY <3>1
            <4> QED
                BY <4>1 DEF VmState
        <3>4. LooksLike(h[i], h[n])
            BY <1>4, <3>1, <3>2, <3>3 DEF LooksLike
        <3> QED
            BY <3>2, <3>4 DEF KnowsOf
    <2> QED
        BY <2>2, <2>3
<1> QED
    BY <1>3, <1>4

-----------------------------------------------------------------------------
(***************************************************************************)
(* The files and what was noticed of them.                                 *)
(***************************************************************************)
\* After the .xml file was written last nothing was created or deleted.
XmlLast(v) == xml[v] = Len(cn[v]) \/ \A i \in xml[v]..Len(cn[v]) : cn[v][i].exists

\* There are config files of VMs that are there only.
ConfigThere(v) == config[v] # 0 => Last(v).exists

FilesOf(v) == Ordered(cn[v]) /\ XmlLast(v) /\ ConfigThere(v)

\* What was noticed is in one of the files, of a directory that is gone in the .xml file;
\* and since the owner looked the .xml file was not written unnoticed.
NoticedOf(v) ==
    /\ noticed[v] <= xml[v] \/ noticed[v] <= config[v]
    /\ v \in dead => noticed[v] <= xml[v]
    /\ started /\ looked => noticed[v] = 0 \/ xml[v] <= told[v] \/ xml[v] <= noticed[v]

\* A new version of one VM, which is later unless the VM is gone.
LEMMA NewVersion ==
    ASSUME FsInv, NEW v \in VM, XmlWritten(v) \/ ConfigWritten(v)
    PROVE  LET m == Len(cn[v])
               s == cn'[v][m + 1]
           IN  /\ m \in Nat /\ m >= 1 /\ Len(cn'[v]) = m + 1 /\ \A i \in 1..m : cn'[v][i] = cn[v][i]
               /\ \A u \in VM : u # v => cn'[u] = cn[u]
               /\ s.exists \in BOOLEAN /\ Last(v).exists \in BOOLEAN
               /\ s.exists => s.last_modified > Last(v).last_modified
               /\ s.exists \/ Last(v).exists
               /\ ConfigWritten(v) => s.exists /\ Last(v).exists
<1> DEFINE m == Len(cn[v])
<1> DEFINE l == Last(v)
<1>1. /\ cn \in [VM -> Seq(VmState)] /\ cn[v] \in Seq(VmState) /\ m \in Nat /\ m >= 1
      /\ l \in VmState
    BY Bounds, LastTyped DEF FsInv, WatcherInv
<1>2. Created(v) \/ Configured(v) \/ Deleted(v)
    BY DEF XmlWritten, ConfigWritten
<1>3. PICK s \in VmState : cn' = [cn EXCEPT ![v] = Append(cn[v], s)]
    BY <1>2, CnChangeBecomes DEF FsInv, CnChange, Becomes
<1>4. /\ Len(cn'[v]) = m + 1 /\ cn'[v][m + 1] = s /\ \A i \in 1..m : cn'[v][i] = cn[v][i]
      /\ \A u \in VM : u # v => cn'[u] = cn[u]
    <2>1. cn'[v] = Append(cn[v], s) /\ \A u \in VM : u # v => cn'[u] = cn[u]
        BY <1>1, <1>3
    <2> QED
        BY <1>1, <2>1
<1>5. s.exists \in BOOLEAN /\ l.exists \in BOOLEAN /\ l.last_modified \in Nat
    BY <1>1, Bounds DEF VmState
<1>6. ASSUME NEW z, cn' = [cn EXCEPT ![v] = Append(cn[v], z)] PROVE z = s
    <2>1. cn'[v] = Append(cn[v], z)
        BY <1>1, <1>6
    <2>2. Append(cn[v], z)[m + 1] = z
        BY <1>1
    <2> QED
        BY <1>4, <2>1, <2>2
<1>7. /\ s.exists => s.last_modified > l.last_modified
      /\ s.exists \/ l.exists
      /\ Configured(v) => s.exists /\ l.exists
    <2>1. CASE Created(v)
        <3>1. PICK t \in Later(v), st \in FirstStates, q \in {Last(v).quota, NewQuota(v)} :
                 cn' = [cn EXCEPT ![v] = Append(cn[v], [exists |-> TRUE, last_modified |-> t, state |-> st, quota |-> q])]
            BY <2>1 DEF Created, Becomes
        <3> DEFINE y == [exists |-> TRUE, last_modified |-> t, state |-> st, quota |-> q]
        <3>2. s.exists = TRUE /\ s.last_modified = t
            <4>1. y.exists = TRUE /\ y.last_modified = t
                OBVIOUS
            <4>2. \E z : z = y /\ cn' = [cn EXCEPT ![v] = Append(cn[v], z)]
                BY <3>1
            <4> HIDE DEF y
            <4> QED
                BY <1>6, <4>1, <4>2
        <3>3. ~l.exists /\ t > l.last_modified
            BY <1>5, <2>1 DEF Created, Later
        <3> QED
            BY <3>2, <3>3 DEF Configured
    <2>2. CASE Configured(v)
        <3>1. PICK t \in Later(v), st \in {Last(v).state, "running"} :
                 cn' = [cn EXCEPT ![v] = Append(cn[v], [l EXCEPT !.last_modified = t, !.state = st])]
            BY <2>2 DEF Configured, Becomes
        <3> DEFINE z == [l EXCEPT !.last_modified = t, !.state = st]
        <3>2. z.exists = l.exists /\ z.last_modified = t
            BY <1>1 DEF VmState
        <3>3. l.exists /\ t > l.last_modified
            BY <1>5, <2>2 DEF Configured, Later
        <3>4. s = z
            BY <1>6, <3>1
        <3> QED
            BY <3>2, <3>3, <3>4
    <2>3. CASE Deleted(v)
        <3>1. cn' = [cn EXCEPT ![v] = Append(cn[v], [l EXCEPT !.exists = FALSE])]
            BY <2>3 DEF Deleted, Becomes
        <3>2. ~s.exists
            BY <1>1, <1>6, <3>1 DEF VmState
        <3>3. ~Configured(v)
            <4>1. SUFFICES ASSUME Configured(v) PROVE s.exists
                BY <3>2
            <4>2. PICK t \in Later(v), st \in {Last(v).state, "running"} :
                     cn' = [cn EXCEPT ![v] = Append(cn[v], [l EXCEPT !.last_modified = t, !.state = st])]
                BY <4>1 DEF Configured, Becomes
            <4>3. l.exists
                BY <2>3 DEF Deleted
            <4> QED
                BY <1>1, <1>6, <4>2, <4>3 DEF VmState
        <3> QED
            BY <2>3, <3>2, <3>3 DEF Deleted
    <2> QED
        BY <1>2, <2>1, <2>2, <2>3
<1> QED
    BY <1>1, <1>4, <1>5, <1>7 DEF ConfigWritten

\* What XmlWritten makes of the config files and of what was noticed.
LEMMA XmlMeans ==
    ASSUME FsInv, NEW v \in VM, XmlWritten(v)
    PROVE  /\ xml'[v] = Len(cn'[v]) /\ \A u \in VM : u # v => xml'[u] = xml[u]
           /\ \A u \in VM : u # v => config'[u] = config[u]
           /\ config'[v] = config[v] \/ config'[v] = 0
           /\ ~cn'[v][Len(cn'[v])].exists => config'[v] = 0
           /\ cn'[v][Len(cn'[v])].exists /\ Last(v).exists => config'[v] = config[v]
           /\ \A u \in VM : u # v => (u \in dead' <=> u \in dead)
           /\ zonesEvent' = zonesWatcher
           /\ \A u \in VM : u # v => noticed'[u] = noticed[u]
           /\ noticed'[v] = IF zonesWatcher THEN xml'[v] ELSE noticed[v]
           /\ UNCHANGED <<knownVms, emits, told, zonesWatcher, configEvents, passVars, ownerVars,
                          firstScan, overlooked, clean>>
<1>1. /\ xml \in [VM -> 1..MaxVer] /\ config \in [VM -> 0..MaxVer] /\ noticed \in [VM -> 0..MaxVer]
    BY DEF FsInv, FilesInv, SeenInv
<1>2. xml' = [xml EXCEPT ![v] = Len(cn'[v])]
    BY DEF XmlWritten
<1>3. xml'[v] = Len(cn'[v]) /\ \A u \in VM : u # v => xml'[u] = xml[u]
    BY <1>1, <1>2
<1>4. noticed' = IF zonesWatcher THEN [noticed EXCEPT ![v] = xml'[v]] ELSE noticed
    BY DEF XmlWritten
<1>5. /\ \A u \in VM : u # v => noticed'[u] = noticed[u]
      /\ noticed'[v] = IF zonesWatcher THEN xml'[v] ELSE noticed[v]
    BY <1>1, <1>4
<1>6. \/ Last(v).exists = cn'[v][Len(cn'[v])].exists /\ UNCHANGED <<config, dead>>
      \/ ~Last(v).exists /\ cn'[v][Len(cn'[v])].exists /\ UNCHANGED <<config, dead>>
      \/ /\ ~cn'[v][Len(cn'[v])].exists
         /\ config' = [config EXCEPT ![v] = 0] /\ dead' = dead \cup ({v} \cap configWatchers)
    BY NewVersion DEF XmlWritten
<1>7. /\ \A u \in VM : u # v => config'[u] = config[u]
      /\ config'[v] = config[v] \/ config'[v] = 0
      /\ ~cn'[v][Len(cn'[v])].exists => config'[v] = 0
      /\ cn'[v][Len(cn'[v])].exists /\ Last(v).exists => config'[v] = config[v]
    BY <1>1, <1>6, NewVersion
<1>8. \A u \in VM : u # v => (u \in dead' <=> u \in dead)
    BY <1>6
<1>9. /\ zonesEvent' = zonesWatcher
      /\ UNCHANGED <<knownVms, emits, told, zonesWatcher, configEvents, passVars, ownerVars,
                     firstScan, overlooked, clean>>
    BY DEF XmlWritten
<1> QED
    BY <1>3, <1>5, <1>7, <1>8, <1>9

LEMMA DirMeans ==
    ASSUME FsInv, NEW v \in VM, DirRemoved(v)
    PROVE  /\ UNCHANGED <<cn, knownVms, emits, told, xml, zonesWatcher, zonesEvent, configEvents,
                          passVars, ownerVars, firstScan, overlooked, clean>>
           /\ \A u \in VM : u # v => config'[u] = config[u] /\ noticed'[u] = noticed[u]
           /\ config'[v] = 0 /\ noticed'[v] = IF noticed[v] > xml[v] THEN 0 ELSE noticed[v]
           /\ \A u \in VM : u # v => (u \in dead' <=> u \in dead)
<1>1. config \in [VM -> 0..MaxVer] /\ noticed \in [VM -> 0..MaxVer]
    BY DEF FsInv, FilesInv, SeenInv
<1>2. /\ config' = [config EXCEPT ![v] = 0] /\ dead' = dead \cup ({v} \cap configWatchers)
      /\ noticed' = IF noticed[v] > xml[v] THEN [noticed EXCEPT ![v] = 0] ELSE noticed
    BY DEF DirRemoved
<1>3. UNCHANGED <<cn, knownVms, emits, told, xml, zonesWatcher, zonesEvent, configEvents,
                  passVars, ownerVars, firstScan, overlooked, clean>>
    BY DEF DirRemoved, watcherVars
<1> QED
    BY <1>1, <1>2, <1>3

LEMMA ConfigMeans ==
    ASSUME FsInv, NEW v \in VM, ConfigWritten(v)
    PROVE  /\ UNCHANGED <<knownVms, emits, told, xml, zonesWatcher, zonesEvent, dead,
                          passVars, ownerVars, firstScan, overlooked, clean>>
           /\ config'[v] = Len(cn'[v])
           /\ \A u \in VM : u # v => config'[u] = config[u] /\ noticed'[u] = noticed[u]
           /\ \/ noticed'[v] = noticed[v]
              \/ /\ v \in configEvents' /\ v \notin dead /\ lastSeenVms # Null
                 /\ noticed'[v] = config'[v]
           /\ configEvents \subseteq configEvents'
<1>1. config \in [VM -> 0..MaxVer] /\ noticed \in [VM -> 0..MaxVer]
    BY DEF FsInv, FilesInv, SeenInv
<1> DEFINE seen == v \in configWatchers \ dead
<1>2. /\ config' = [config EXCEPT ![v] = Len(cn'[v])]
      /\ configEvents' = IF seen THEN configEvents \cup {v} ELSE configEvents
      /\ noticed' = IF seen /\ lastSeenVms # Null THEN [noticed EXCEPT ![v] = config'[v]] ELSE noticed
    BY DEF ConfigWritten
<1>3. UNCHANGED <<knownVms, emits, told, xml, zonesWatcher, zonesEvent, dead,
                  passVars, ownerVars, firstScan, overlooked, clean>>
    BY DEF ConfigWritten
<1> QED
    BY <1>1, <1>2, <1>3

\* A step that writes or removes no file of VM v.
FilesSame(v) ==
    /\ cn'[v] = cn[v] /\ xml'[v] = xml[v] /\ config'[v] = config[v] /\ noticed'[v] = noticed[v]
    /\ v \in dead' => v \in dead

LEMMA FileSteps ==
    ASSUME FsInv, [Next]_vars, NEW v \in VM
    PROVE  XmlWritten(v) \/ ConfigWritten(v) \/ DirRemoved(v) \/ FilesSame(v)
<1>1. ASSUME NEW u \in VM, XmlWritten(u) \/ ConfigWritten(u) \/ DirRemoved(u), u # v PROVE FilesSame(v)
    <2>1. CASE XmlWritten(u)
        BY <1>1, <2>1, XmlMeans, NewVersion DEF FilesSame
    <2>2. CASE ConfigWritten(u)
        BY <1>1, <2>2, ConfigMeans, NewVersion DEF FilesSame
    <2>3. CASE DirRemoved(u)
        BY <1>1, <2>3, DirMeans DEF FilesSame
    <2> QED
        BY <1>1, <2>1, <2>2, <2>3
<1>2. ASSUME UNCHANGED <<cn, fileVars, noticed>>, dead' \subseteq dead PROVE FilesSame(v)
    BY <1>2 DEF FilesSame, fileVars
<1>3. CASE UNCHANGED vars
    BY <1>2, <1>3 DEF vars, fsVars, ghosts, watchVars, watcherVars
<1>4. ASSUME NEW u \in VM, DirCreated(u) PROVE FilesSame(v)
    BY <1>4 DEF DirCreated, FilesSame, watcherVars, watchVars, ghosts
<1>5. CASE ZonesTouched
    BY <1>2, <1>5 DEF ZonesTouched, watcherVars
<1>6. ASSUME NEW u \in VM, EmitImmediately(u), UNCHANGED fsVars PROVE FilesSame(v)
    BY <1>2, <1>6 DEF EmitImmediately, fsVars, ghosts, watchVars
<1>7. CASE Stop \/ AgentLooks
    BY <1>2, <1>7 DEF Stop, AgentLooks, ListenerLooks, watcherVars, ghosts, watchVars
<1>8. CASE Start \/ RetryStartup \/ OnZoneEvent
    BY <1>2, <1>8 DEF Start, RetryStartup, StartBody, OnZoneEvent, watcherVars, ghosts
<1>9. ASSUME NEW p \in 1..MaxPasses, Scan(p) \/ FailPass(p) \/ EndPass(p) PROVE FilesSame(v)
    BY <1>2, <1>9 DEF Scan, FailPass, EndPass, watcherVars, ghosts, watchVars
<1>10. ASSUME NEW u \in VM, OnConfigChange(u) PROVE FilesSame(v)
    BY <1>2, <1>10 DEF OnConfigChange
<1>11. ASSUME NEW u \in VM, OnWatcherError(u) \/ OnConfigRenamed(u) \/ TryWatching(u) \/ TimeOut(u)
       PROVE  FilesSame(v)
    BY <1>2, <1>11 DEF OnWatcherError, OnConfigRenamed, Unwatched, TryWatching, TimeOut, watcherVars
<1> QED
    BY <1>1, <1>3, <1>4, <1>5, <1>6, <1>7, <1>8, <1>9, <1>10, <1>11 DEF Next, Files

LEMMA OrderGrows ==
    ASSUME NEW h, NEW g, NEW m \in Nat, Len(h) = m, Len(g) = m + 1, m >= 1,
           \A i \in 1..m : g[i] = h[i] /\ h[i].last_modified \in Nat,
           \A i, j \in 1..m : i <= j => h[i].last_modified <= h[j].last_modified,
           g[m + 1].exists => g[m + 1].last_modified \in Nat /\ g[m + 1].last_modified > h[m].last_modified,
           Ordered(h)
    PROVE  Ordered(g)
<1> SUFFICES ASSUME NEW i \in 1..(m + 1), NEW j \in 1..(m + 1), i < j, g[j].exists
             PROVE  g[i].last_modified < g[j].last_modified
    BY DEF Ordered
<1>1. CASE j = m + 1
    <2>1. i \in 1..m /\ i <= m /\ m \in 1..m
        BY <1>1
    <2> QED
        BY <1>1, <2>1
<1>2. CASE j # m + 1
    <2>1. i \in 1..m /\ j \in 1..m
        BY <1>2
    <2> QED
        BY <2>1 DEF Ordered
<1> QED
    BY <1>1, <1>2

LEMMA TimesTyped ==
    ASSUME FsInv, NEW v \in VM
    PROVE  /\ Len(cn[v]) \in Nat /\ Len(cn[v]) >= 1 /\ cn[v] \in Seq(VmState)
           /\ \A i \in 1..Len(cn[v]) : cn[v][i].last_modified \in Nat /\ cn[v][i].exists \in BOOLEAN
           /\ xml[v] \in 1..Len(cn[v]) /\ config[v] \in 0..Len(cn[v]) /\ noticed[v] \in Nat
           /\ told[v] \in Nat /\ firstScan[v] \in 0..Len(cn[v]) /\ lastSeenVms[v] \in 0..Len(cn[v])
           /\ lastSeenVms # Null => lastSeenVms[v] \in 1..Len(cn[v])
<1>1. Len(cn[v]) \in Nat /\ Len(cn[v]) >= 1 /\ cn[v] \in Seq(VmState)
    BY Bounds DEF FsInv, WatcherInv
<1>2. \A i \in 1..Len(cn[v]) : cn[v][i] \in VmState
    BY <1>1
<1>3. \A i \in 1..Len(cn[v]) : cn[v][i].last_modified \in Nat /\ cn[v][i].exists \in BOOLEAN
    BY <1>2, Bounds DEF VmState
<1>4. xml[v] \in 1..Len(cn[v]) /\ config[v] \in 0..Len(cn[v]) /\ noticed[v] \in Nat /\ told[v] \in Nat
    BY <1>1, Bounds DEF FsInv, FilesInv, SeenInv, WatcherInv
<1>5. firstScan[v] \in 0..Len(cn[v]) /\ lastSeenVms[v] \in 0..Len(cn[v])
    BY <1>1, Bounds DEF FsInv, SeenInv, Scanned, Null
<1>6. lastSeenVms # Null => lastSeenVms[v] \in 1..Len(cn[v])
    BY <1>1, Bounds DEF FsInv, SeenInv, Scanned
<1> QED
    BY <1>1, <1>3, <1>4, <1>5, <1>6

LEMMA FilesOfStay ==
    ASSUME FsInv, HistoryInv, [Next]_vars, NEW v \in VM, FilesOf(v)
    PROVE  FilesOf(v)'
<1> DEFINE m == Len(cn[v])
<1>1. m \in Nat /\ m >= 1 /\ \A i \in 1..m : cn[v][i].last_modified \in Nat
    BY TimesTyped
<1>2. xml[v] \in 1..m /\ config[v] \in 0..m
    BY TimesTyped
<1>3. CASE XmlWritten(v) \/ ConfigWritten(v)
    <2> DEFINE s == cn'[v][m + 1]
    <2>1. /\ Len(cn'[v]) = m + 1 /\ \A i \in 1..m : cn'[v][i] = cn[v][i]
          /\ s.exists \in BOOLEAN /\ Last(v).exists \in BOOLEAN
          /\ s.exists => s.last_modified > Last(v).last_modified
          /\ ConfigWritten(v) => s.exists /\ Last(v).exists
          /\ Last(v) = cn[v][m] /\ Last(v)' = s
        BY <1>3, NewVersion DEF Last
    <2>2. s.last_modified \in Nat
        <3>1. cn' \in [VM -> Seq(VmState)]
            <4>1. CnChange(v)
                BY <1>3 DEF XmlWritten, ConfigWritten, CnChange
            <4> QED
                BY <4>1, CnChangeKeeps DEF FsInv
        <3>2. s \in VmState
            BY <1>1, <2>1, <3>1
        <3> QED
            BY <3>2, Bounds DEF VmState
    <2>3. Ordered(cn'[v])
        <3>1. \A i, j \in 1..m : i <= j => cn[v][i].last_modified <= cn[v][j].last_modified
            BY DEF HistoryInv, History
        <3> QED
            BY <1>1, <2>1, <2>2, <3>1, OrderGrows DEF FilesOf
    <2>4. XmlLast(v)'
        <3>1. CASE XmlWritten(v)
            BY <3>1, XmlMeans DEF XmlLast
        <3>2. CASE ConfigWritten(v)
            <4>1. xml'[v] = xml[v] /\ s.exists /\ Last(v).exists
                BY <2>1, <3>2, ConfigMeans
            <4>2. \A i \in xml[v]..m : cn[v][i].exists
                BY <1>1, <1>2, <2>1, <4>1 DEF FilesOf, XmlLast
            <4>3. \A i \in xml[v]..(m + 1) : i \in xml[v]..m \/ i = m + 1
                BY <1>1, <1>2
            <4>4. \A i \in xml[v]..m : cn'[v][i] = cn[v][i]
                BY <1>2, <2>1
            <4> HIDE DEF s
            <4>5. \A i \in xml[v]..(m + 1) : cn'[v][i].exists
                BY <4>1, <4>2, <4>3, <4>4 DEF s
            <4> QED
                BY <2>1, <4>1, <4>5 DEF XmlLast
        <3> QED
            BY <1>3, <3>1, <3>2
    <2>5. ConfigThere(v)'
        <3>1. CASE XmlWritten(v)
            <4>1. config'[v] # 0 => s.exists
                BY <2>1, <3>1, XmlMeans
            <4> QED
                BY <2>1, <4>1 DEF ConfigThere
        <3>2. CASE ConfigWritten(v)
            BY <2>1, <3>2 DEF ConfigThere
        <3> QED
            BY <1>3, <3>1, <3>2
    <2> QED
        BY <2>3, <2>4, <2>5 DEF FilesOf
<1>4. CASE DirRemoved(v)
    BY <1>4, DirMeans DEF FilesOf, XmlLast, ConfigThere, Last
<1>5. CASE FilesSame(v)
    BY <1>5 DEF FilesSame, FilesOf, XmlLast, ConfigThere, Last
<1> QED
    BY <1>3, <1>4, <1>5, FileSteps

\* While it is started the watcher watches /etc/zones.
Watching == started => zonesWatcher

LEMMA WatchingStays ==
    ASSUME FsInv, Watching, [Next]_vars
    PROVE  Watching'
<1>1. CASE UNCHANGED <<started, zonesWatcher>> \/ started' = FALSE \/ zonesWatcher' = TRUE
    BY <1>1 DEF Watching
<1>2. ASSUME NEW v \in VM, Files(v) PROVE Watching'
    BY <1>1, <1>2, XmlMeans, ConfigMeans, DirMeans DEF Files, DirCreated, watchVars, ownerVars
<1>3. CASE ZonesTouched \/ Stop \/ AgentLooks \/ Start \/ RetryStartup \/ OnZoneEvent
    BY <1>1, <1>3 DEF ZonesTouched, Stop, AgentLooks, Start, RetryStartup, StartBody, OnZoneEvent,
                      ownerVars, watchVars
<1>4. ASSUME NEW p \in 1..MaxPasses, Scan(p) \/ FailPass(p) \/ EndPass(p) PROVE Watching'
    BY <1>1, <1>4 DEF Scan, FailPass, EndPass, watchVars, ownerVars
<1>5. ASSUME NEW v \in VM, OnConfigChange(v) \/ OnWatcherError(v) \/ OnConfigRenamed(v)
                              \/ TryWatching(v) \/ TimeOut(v)
      PROVE  Watching'
    BY <1>1, <1>5 DEF OnConfigChange, OnWatcherError, OnConfigRenamed, Unwatched, TryWatching, TimeOut,
                      ownerVars
<1>6. CASE (\E v \in VM : EmitImmediately(v) /\ UNCHANGED fsVars) \/ UNCHANGED vars
    BY <1>1, <1>6 DEF fsVars, vars, watchVars, ownerVars
<1> QED
    BY <1>2, <1>3, <1>4, <1>5, <1>6 DEF Next

\* The owner is looking still, or looks now.
LEMMA OwnerSteps ==
    ASSUME FsInv, [Next]_vars, NEW v \in VM
    PROVE  /\ started' /\ looked' => (started /\ looked) \/ told'[v] = Len(cn[v])
           /\ told'[v] = told[v] \/ told'[v] = Len(cn[v])
           /\ v \in emits => v \in emits' \/ told'[v] = Len(cn[v])
<1>1. told \in [VM -> 1..MaxVer]
    BY DEF FsInv, WatcherInv
<1>2. CASE /\ UNCHANGED told /\ emits \subseteq emits'
           /\ UNCHANGED <<started, looked>> \/ started' = FALSE \/ looked' = FALSE
    BY <1>2
<1>3. ASSUME NEW u \in VM, Files(u) PROVE emits \subseteq emits' /\ UNCHANGED <<told, started, looked>>
    BY <1>3, XmlMeans, ConfigMeans, DirMeans DEF Files, DirCreated, ownerVars, watcherVars
<1>4. CASE ZonesTouched \/ Stop \/ Start \/ RetryStartup \/ OnZoneEvent
    BY <1>2, <1>4 DEF ZonesTouched, Stop, Start, RetryStartup, StartBody, OnZoneEvent, ownerVars, watcherVars
<1>5. CASE AgentLooks
    BY <1>5 DEF AgentLooks, ListenerLooks
<1>6. ASSUME NEW p \in 1..MaxPasses, Scan(p) \/ FailPass(p)
      PROVE  emits \subseteq emits' /\ UNCHANGED <<told, started, looked>>
    BY <1>6 DEF Scan, FailPass, ownerVars, watcherVars
<1>7. ASSUME NEW p \in 1..MaxPasses, EndPass(p) PROVE emits \subseteq emits' /\ UNCHANGED <<told, started, looked>>
    BY <1>7 DEF EndPass, Compare, UpdateHandler, ownerVars
<1>8. ASSUME NEW u \in VM, OnConfigChange(u) PROVE emits \subseteq emits' /\ UNCHANGED <<told, started, looked>>
    BY <1>8 DEF OnConfigChange, UpdateHandler, ownerVars
<1>9. ASSUME NEW u \in VM, OnWatcherError(u) \/ OnConfigRenamed(u) \/ TryWatching(u) \/ TimeOut(u)
      PROVE  emits \subseteq emits' /\ UNCHANGED <<told, started, looked>>
    BY <1>9 DEF OnWatcherError, OnConfigRenamed, Unwatched, TryWatching, TimeOut, ownerVars, watcherVars
<1>10. ASSUME NEW u \in VM, EmitImmediately(u), UNCHANGED fsVars
       PROVE  /\ UNCHANGED <<started, looked>>
              /\ told'[v] = told[v] \/ told'[v] = Len(cn[v])
              /\ v \in emits => v \in emits' \/ told'[v] = Len(cn[v])
    <2>1. UNCHANGED <<started, looked>>
        BY <1>10 DEF fsVars, ownerVars
    <2>2. emits' = emits \ {u} /\ told' = [told EXCEPT ![u] = Len(cn[u])]
        BY <1>10 DEF EmitImmediately
    <2> QED
        BY <1>1, <2>1, <2>2
<1>11. CASE UNCHANGED vars
    BY <1>2, <1>11 DEF vars, watcherVars, fsVars, ownerVars
<1> QED
    BY <1>2, <1>3, <1>4, <1>5, <1>6, <1>7, <1>8, <1>9, <1>10, <1>11 DEF Next

LEMMA NoticedOfStays ==
    ASSUME FsInv, Watching, [Next]_vars, NEW v \in VM, NoticedOf(v)
    PROVE  NoticedOf(v)'
<1> DEFINE m == Len(cn[v])
<1>1. /\ m \in Nat /\ xml[v] \in 1..m /\ config[v] \in 0..m /\ noticed[v] \in Nat /\ told[v] \in Nat
      /\ noticed[v] <= m
    BY TimesTyped DEF NoticedOf
<1>2. /\ started' /\ looked' => (started /\ looked) \/ told'[v] = m
      /\ told'[v] = told[v] \/ told'[v] = m
    BY OwnerSteps
<1>3. CASE XmlWritten(v)
    <2>1. /\ xml'[v] = m + 1 /\ noticed'[v] = IF zonesWatcher THEN xml'[v] ELSE noticed[v]
          /\ started' = started
        BY <1>3, XmlMeans, NewVersion DEF ownerVars
    <2>2. noticed'[v] <= xml'[v]
        BY <1>1, <2>1
    <2>3. started' => xml'[v] <= noticed'[v]
        BY <1>1, <2>1 DEF Watching
    <2> QED
        BY <2>2, <2>3 DEF NoticedOf
<1>4. CASE ConfigWritten(v)
    <2>1. /\ config'[v] = m + 1 /\ xml'[v] = xml[v] /\ dead' = dead
          /\ noticed'[v] = noticed[v] \/ (v \notin dead /\ noticed'[v] = config'[v])
          /\ UNCHANGED <<told, started, looked>>
        BY <1>4, ConfigMeans, NewVersion DEF ownerVars
    <2>2. CASE noticed'[v] = noticed[v]
        BY <1>1, <2>1, <2>2 DEF NoticedOf
    <2>3. CASE v \notin dead /\ noticed'[v] = m + 1
        BY <1>1, <2>1, <2>3 DEF NoticedOf
    <2> QED
        BY <2>1, <2>2, <2>3
<1>5. CASE DirRemoved(v)
    <2>1. /\ config'[v] = 0 /\ xml'[v] = xml[v] /\ UNCHANGED <<told, started, looked>>
          /\ noticed'[v] = IF noticed[v] > xml[v] THEN 0 ELSE noticed[v]
        BY <1>5, DirMeans DEF ownerVars
    <2>2. noticed'[v] <= xml'[v] /\ (noticed'[v] = 0 \/ noticed'[v] = noticed[v])
        BY <1>1, <2>1
    <2> QED
        BY <2>1, <2>2 DEF NoticedOf
<1>6. CASE FilesSame(v)
    <2>1. /\ xml'[v] = xml[v] /\ config'[v] = config[v] /\ noticed'[v] = noticed[v]
          /\ v \in dead' => v \in dead
        BY <1>6 DEF FilesSame
    <2>2. told'[v] = m => xml'[v] <= told'[v]
        BY <1>1, <2>1
    <2>3. started' /\ looked' => noticed'[v] = 0 \/ xml'[v] <= told'[v] \/ xml'[v] <= noticed'[v]
        BY <1>2, <2>1, <2>2 DEF NoticedOf
    <2> QED
        BY <2>1, <2>3 DEF NoticedOf
<1> QED
    BY <1>3, <1>4, <1>5, <1>6, FileSteps

\* An entry that was not overlooked is not, unless the creation of its VM was just seen.
TellsOf(v) ==
    Tells(cn[v], told[v], firstScan[v], lastSeenVms[v], knownVms[v], v \in emits, v \in overlooked)

\* Steps that look at nothing and report nothing. The listener only learns: while the history
\* h grows to g, it looks at a later version, or at the last one, or an event of it is due.
LEMMA TellsUnseen ==
    ASSUME FsInv, Versions(told), [Next]_vars, NEW v \in VM, TellsOf(v),
           UNCHANGED <<lastSeenVms, firstScan>>, knownVms'[v] = knownVms[v],
           v \in overlooked => v \in overlooked' \cup emits \/ told'[v] = Len(cn[v])
    PROVE  TellsOf(v)'
<1> DEFINE h == cn[v]
<1>1. UNCHANGED cn \/ \E u \in VM : CnChange(u)
    BY DEF Next, Files, XmlWritten, ConfigWritten, CnChange, DirRemoved, DirCreated, ZonesTouched,
           EmitImmediately, Stop, AgentLooks, ListenerLooks, Start, RetryStartup, StartBody, OnZoneEvent,
           Scan, FailPass, EndPass, OnConfigChange, OnWatcherError, OnConfigRenamed, Unwatched,
           TryWatching, TimeOut, vars, watcherVars
<1> DEFINE g == cn'[v]
           t == told[v]
           u == told'[v]
           f == firstScan[v]
           l == lastSeenVms[v]
           k == knownVms[v]
           e == v \in emits
           o == v \in overlooked
           e2 == v \in emits'
           o2 == v \in overlooked'
<1>2. Len(h) \in Nat /\ Len(g) \in Nat /\ Len(h) <= Len(g) /\ \A i \in 1..Len(h) : g[i] = h[i]
    BY <1>1, TimesTyped, VersionsGrow DEF FsInv
<1>3. t \in Nat /\ u \in Nat /\ t <= u /\ f \in Nat /\ l \in 0..Len(h)
    BY <1>2, TimesTyped, OwnerSteps DEF Versions
<1>4. (e => e2 \/ Len(h) <= u) /\ (o => e2 \/ o2 \/ Len(h) <= u)
    BY <1>2, OwnerSteps
<1>5. e \in BOOLEAN /\ o \in BOOLEAN /\ e2 \in BOOLEAN /\ o2 \in BOOLEAN
    OBVIOUS
<1>6. Tells(h, t, f, l, k, e, o)
    BY DEF TellsOf
<1>7. Tells(g, u, f, l, k, e2, o2) => TellsOf(v)'
    BY DEF TellsOf
<1> HIDE DEF h, g, t, u, f, l, k, e, o, e2, o2
<1>8. Tells(g, u, f, l, k, e2, o2)
    <2>1. /\ DestroyedTold(h, t, k, e) /\ KnownTold(h, t, k, e, o)
          /\ SeenTold(h, t, f, l, k, e, o) /\ GoneTold(h, t, f, l, e)
        BY <1>6 DEF Tells
    <2>2. 1..Len(h) \subseteq 1..Len(g)
        BY <1>2
    <2>3. \A i \in 1..Len(h) : i <= t => i <= u
        BY <1>2, <1>3
    <2>4. Len(h) <= u => \A i \in 1..Len(h) : i <= u
        BY <1>2, <1>3
    <2>5. DestroyedTold(g, u, k, e2)
        BY <1>2, <1>4, <1>5, <2>1, <2>2, <2>3, <2>4 DEF DestroyedTold
    <2>6. KnownTold(g, u, k, e2, o2)
        BY <1>2, <1>4, <1>5, <2>1, <2>2, <2>3, <2>4 DEF KnownTold
    <2>7. l # 0 => l \in 1..Len(h)
        BY <1>2, <1>3
    <2>8. SeenTold(g, u, f, l, k, e2, o2)
        BY <1>2, <1>4, <1>5, <2>1, <2>3, <2>4, <2>7 DEF SeenTold
    <2>9. GoneTold(g, u, f, l, e2)
        <3> SUFFICES ASSUME l # 0, ~g[l].exists, ~e2
                     PROVE  \E i \in 1..Len(g) : ~g[i].exists /\ (i <= u \/ i <= f)
            BY DEF GoneTold
        <3>1. ~h[l].exists /\ l \in 1..Len(h)
            BY <1>2, <2>7
        <3>2. CASE Len(h) <= u
            BY <1>2, <2>2, <2>4, <3>1, <3>2
        <3>3. CASE ~(Len(h) <= u)
            <4>1. PICK i \in 1..Len(h) : ~h[i].exists /\ (i <= t \/ i <= f)
                BY <1>4, <2>1, <3>1, <3>3 DEF GoneTold
            <4> QED
                BY <1>2, <2>2, <2>3, <4>1
        <3> QED
            BY <3>2, <3>3
    <2> QED
        BY <2>5, <2>6, <2>8, <2>9 DEF Tells
<1> QED
    BY <1>7, <1>8

\* A report keeps this so; it does not forget that a VM was destroyed, and no VM that it
\* finds there again goes unseen.
LEMMA TellsReport ==
    ASSUME FsInv, NEW v \in VM, FilesOf(v), TellsOf(v), lastSeenVms # Null, Versions(lastSeenVms'),
           UpdateHandler("fs", [u \in VM |-> cn[u][lastSeenVms[u]]], [u \in VM |-> cn[u][lastSeenVms'[u]]]),
           UNCHANGED <<cn, told, firstScan>>,
           v \in overlooked' <=>
              /\ v \in overlooked \/ /\ cn[v][lastSeenVms'[v]].exists /\ ~cn[v][lastSeenVms[v]].exists
                                     /\ knownVms[v].entry /\ ~knownVms[v].destroyed
              /\ v \notin emits'
    PROVE  /\ TellsOf(v)'
           /\ knownVms[v].destroyed => knownVms'[v].destroyed \/ v \in emits'
           /\ cn[v][lastSeenVms'[v]].exists /\ ~cn[v][lastSeenVms[v]].exists => v \in emits' \cup overlooked'
<1> DEFINE h == cn[v]
           t == told[v]
           f == firstScan[v]
           l == lastSeenVms[v]
           s == lastSeenVms'[v]
           k == knownVms[v]
           e == v \in emits
           o == v \in overlooked
           e2 == v \in emits'
           o2 == v \in overlooked'
           r == DispatchChange(k, "fs", h[l], h[s])
<1>1. knownVms'[v] = r.known /\ (e2 <=> e \/ r.emit)
    BY ReportOfOne
<1>2. h \in Seq(VmState) /\ t \in Nat /\ f \in Nat /\ l \in 1..Len(h)
    BY TimesTyped
<1>3. s \in 1..Len(h)
    BY TimesTyped DEF Versions
<1>4. IsKnown(k)
    BY DEF FsInv, WatcherInv
<1>5. Ordered(h) /\ Tells(h, t, f, l, k, e, o)
    BY DEF FilesOf, TellsOf
<1>6. e \in BOOLEAN /\ o \in BOOLEAN /\ e2 \in BOOLEAN /\ o2 \in BOOLEAN
    OBVIOUS
<1>7. o2 <=> (o \/ (h[s].exists /\ ~h[l].exists /\ k.entry /\ ~k.destroyed)) /\ ~e2
    OBVIOUS
<1>8. SUFFICES /\ Tells(h, t, f, s, r.known, e2, o2)
               /\ k.destroyed => r.known.destroyed \/ e2
               /\ h[s].exists /\ ~h[l].exists => e2 \/ o2
    BY <1>1 DEF TellsOf
<1> HIDE DEF h, t, f, l, s, k, e, o, e2, o2
<1> QED
    BY <1>1, <1>2, <1>3, <1>4, <1>5, <1>6, <1>7, FsReport

\* The end of a pass.
LEMMA EndTells ==
    ASSUME FsInv, NEW p, EndPass(p), NEW v \in VM, FilesOf(v), TellsOf(v)
    PROVE  /\ TellsOf(v)'
           /\ knownVms[v].destroyed => knownVms'[v].destroyed \/ v \in emits'
           /\ v \in emits => v \in emits'
           /\ v \in overlooked => v \in emits' \cup overlooked'
           /\ lastSeenVms # Null =>
                 /\ firstScan' = firstScan
                 /\ cn[v][lastSeenVms'[v]].exists /\ ~cn[v][lastSeenVms[v]].exists
                       => v \in emits' \cup overlooked'
<1> DEFINE seen == passes[p].seen
<1>1. seen # Null /\ Compare(seen) /\ lastSeenVms' = seen /\ UNCHANGED <<cn, told>> /\ p \in DOMAIN passes
    BY DEF EndPass
<1>2. Versions(seen)
    BY <1>1, ScannedVersions DEF FsInv, PassesInv
<1> HIDE DEF seen
<1>3. CASE lastSeenVms = Null
    <2>1. UNCHANGED <<knownVms, emits, overlooked>> /\ firstScan' = seen
        BY <1>1, <1>3 DEF Compare
    <2>2. seen[v] \in 1..Len(cn[v]) /\ seen[v] \in Nat
        BY <1>2, TimesTyped DEF Versions
    <2> DEFINE e == v \in emits
               o == v \in overlooked
    <2>3. e \in BOOLEAN /\ o \in BOOLEAN
        OBVIOUS
    <2>4. lastSeenVms[v] = 0
        BY <1>3 DEF Null
    <2>5. Tells(cn[v], told[v], firstScan[v], 0, knownVms[v], e, o)
        BY <2>4 DEF TellsOf
    <2> HIDE DEF e, o
    <2>6. Tells(cn[v], told[v], seen[v], seen[v], knownVms[v], e, o)
        BY <2>2, <2>3, <2>5, FsFirst
    <2> QED
        BY <1>1, <1>3, <2>1, <2>6 DEF TellsOf, e, o
<1>4. CASE lastSeenVms # Null
    <2>1. /\ UpdateHandler("fs", [u \in VM |-> cn[u][lastSeenVms[u]]], [u \in VM |-> cn[u][seen[u]]])
          /\ overlooked' = (overlooked \cup TakenForKnown(seen)) \ emits'
          /\ firstScan' = firstScan
        BY <1>1, <1>4 DEF Compare
    <2>2. v \in overlooked' <=>
              /\ v \in overlooked \/ /\ cn[v][lastSeenVms'[v]].exists /\ ~cn[v][lastSeenVms[v]].exists
                                     /\ knownVms[v].entry /\ ~knownVms[v].destroyed
              /\ v \notin emits'
        BY <1>1, <2>1 DEF TakenForKnown
    <2>3. UpdateHandler("fs", [u \in VM |-> cn[u][lastSeenVms[u]]], [u \in VM |-> cn[u][lastSeenVms'[u]]])
        BY <1>1, <2>1
    <2>4. Versions(lastSeenVms')
        BY <1>1, <1>2
    <2>5. v \in emits => v \in emits'
        BY <2>1 DEF UpdateHandler
    <2> QED
        BY <1>1, <1>4, <2>1, <2>2, <2>3, <2>4, <2>5, TellsReport
<1> QED
    BY <1>3, <1>4

\* The config files of VM w were written; lastSeenVms is what it was, or has the version
\* that wrote them.
LEMMA ConfigTells ==
    ASSUME FsInv, NEW w \in VM, OnConfigChange(w), NEW v \in VM, FilesOf(v), TellsOf(v),
           Versions(told), [Next]_vars
    PROVE  /\ TellsOf(v)'
           /\ knownVms[v].destroyed => knownVms'[v].destroyed \/ v \in emits'
           /\ v \in emits => v \in emits'
           /\ v \in overlooked => v \in emits' \cup overlooked'
           /\ lastSeenVms = Null <=> lastSeenVms' = Null
           /\ lastSeenVms'[v] = lastSeenVms[v] \/
                 (/\ v = w /\ lastSeenVms # Null /\ config[v] # 0 /\ lastSeenVms'[v] = config[v]
                  /\ cn[v][lastSeenVms[v]].exists
                  /\ cn[v][config[v]].last_modified > cn[v][lastSeenVms[v]].last_modified)
<1>1. UNCHANGED <<cn, told, firstScan>> /\ overlooked' = overlooked \ emits'
    BY DEF OnConfigChange
<1>2. CASE UNCHANGED <<lastSeenVms, knownVms, emits>>
    BY <1>1, <1>2, TellsUnseen
<1>3. CASE ~UNCHANGED <<lastSeenVms, knownVms, emits>>
    <2> DEFINE seen == [lastSeenVms EXCEPT ![w] = config[w]]
    <2>1. /\ config[w] # 0 /\ lastSeenVms # Null /\ lastSeenVms' = seen
          /\ cn[w][lastSeenVms[w]].exists
          /\ cn[w][config[w]].last_modified > cn[w][lastSeenVms[w]].last_modified
          /\ UpdateHandler("fs", [u \in VM |-> cn[u][lastSeenVms[u]]], [u \in VM |-> cn[u][seen[u]]])
        BY <1>3, ConfigCases
    <2>2. Versions(lastSeenVms')
        BY <1>3, ConfigSeen
    <2>3. lastSeenVms' # Null
        BY <2>2, Bounds DEF Versions, Null
    <2>4. lastSeenVms'[v] = lastSeenVms[v] \/ (v = w /\ lastSeenVms'[v] = config[v])
        BY <2>1, TimesTyped DEF FsInv, SeenInv, Scanned
    <2>5. cn[v][lastSeenVms'[v]].exists => cn[v][lastSeenVms[v]].exists
        BY <2>1, <2>4
    <2>6. v \in overlooked' <=>
              /\ v \in overlooked \/ /\ cn[v][lastSeenVms'[v]].exists /\ ~cn[v][lastSeenVms[v]].exists
                                     /\ knownVms[v].entry /\ ~knownVms[v].destroyed
              /\ v \notin emits'
        BY <1>1, <2>5
    <2>7. v \in emits => v \in emits'
        BY <2>1 DEF UpdateHandler
    <2>8. UpdateHandler("fs", [u \in VM |-> cn[u][lastSeenVms[u]]], [u \in VM |-> cn[u][lastSeenVms'[u]]])
        BY <2>1
    <2>9. /\ TellsOf(v)'
          /\ knownVms[v].destroyed => knownVms'[v].destroyed \/ v \in emits'
        BY <1>1, <2>1, <2>2, <2>6, <2>8, TellsReport
    <2> QED
        BY <1>1, <2>1, <2>3, <2>4, <2>7, <2>9
<1> QED
    BY <1>2, <1>3

LEMMA TellsOfStays ==
    ASSUME FsInv, Versions(told), [Next]_vars, NEW v \in VM, FilesOf(v), TellsOf(v)
    PROVE  TellsOf(v)'
<1>1. ASSUME UNCHANGED <<lastSeenVms, firstScan, knownVms>>,
             overlooked' = overlooked \/ told'[v] = Len(cn[v])
      PROVE  TellsOf(v)'
    BY <1>1, TellsUnseen
<1>2. ASSUME NEW u \in VM, Files(u) PROVE TellsOf(v)'
    BY <1>1, <1>2, XmlMeans, ConfigMeans, DirMeans DEF Files, DirCreated, passVars, ghosts, watcherVars
<1>3. CASE ZonesTouched \/ Start \/ RetryStartup \/ OnZoneEvent
    BY <1>1, <1>3 DEF ZonesTouched, Start, RetryStartup, StartBody, OnZoneEvent, ghosts, passVars, watcherVars
<1>4. CASE AgentLooks
    BY <1>1, <1>4 DEF AgentLooks, ListenerLooks, passVars
<1>5. ASSUME NEW p \in 1..MaxPasses, Scan(p) \/ FailPass(p) PROVE TellsOf(v)'
    BY <1>1, <1>5 DEF Scan, FailPass, ghosts, watcherVars
<1>6. ASSUME NEW p \in 1..MaxPasses, EndPass(p) PROVE TellsOf(v)'
    BY <1>6, EndTells
<1>7. ASSUME NEW u \in VM, OnConfigChange(u) PROVE TellsOf(v)'
    BY <1>7, ConfigTells
<1>8. ASSUME NEW u \in VM, OnWatcherError(u) \/ OnConfigRenamed(u) \/ TryWatching(u) \/ TimeOut(u)
      PROVE  TellsOf(v)'
    BY <1>1, <1>8 DEF OnWatcherError, OnConfigRenamed, Unwatched, TryWatching, TimeOut, passVars, watcherVars
<1>9. ASSUME NEW u \in VM, EmitImmediately(u), UNCHANGED fsVars PROVE TellsOf(v)'
    BY <1>1, <1>9 DEF EmitImmediately, fsVars, ghosts, passVars
<1>10. CASE UNCHANGED vars
    BY <1>1, <1>10 DEF vars, fsVars, ghosts, passVars, watcherVars
<1>11. CASE Stop
    <2>1. UNCHANGED <<cn, knownVms, emits, told, firstScan, overlooked>> /\ lastSeenVms' = Null
        BY <1>11 DEF Stop, watcherVars, ghosts
    <2>2. lastSeenVms'[v] = 0
        BY <2>1 DEF Null
    <2> QED
        BY <2>1, <2>2 DEF TellsOf, Tells, SeenTold, GoneTold
<1> QED
    BY <1>2, <1>3, <1>4, <1>5, <1>6, <1>7, <1>8, <1>9, <1>10, <1>11 DEF Next

-----------------------------------------------------------------------------
(***************************************************************************)
(* The passes.  One that had no other beside it from its beginning on sees *)
(* all that was noticed before it scanned; of what comes later an event is *)
(* waiting.                                                                *)
(***************************************************************************)
Alone == \A p \in DOMAIN passes : passes[p].alone => Len(passes) = 1

\* As long as nothing was scanned the listener has looked later than the first scan of
\* the attempt before.
FirstTold(v) == started /\ looked /\ lastSeenVms = Null => firstScan[v] <= told[v]

XmlScanned(v) ==
    started =>
        /\ \A p \in DOMAIN passes :
              passes[p].alone /\ passes[p].seen # Null => xml[v] <= passes[p].seen[v] \/ zonesEvent \/ isDirty
        /\ clean /\ passes = <<>> => xml[v] <= lastSeenVms[v] \/ zonesEvent

\* The event of a config file that is later than the .xml file is waiting.
ConfigPending(v) ==
    v \in configEvents /\ lastSeenVms # Null /\ xml[v] < noticed[v] /\ noticed[v] <= config[v]

\* The listener knows of what was noticed last, or something is waiting for which it will.
Due(v) ==
    \/ zonesEvent \/ isDirty \/ ConfigPending(v)
    \/ v \in emits \cup overlooked \/ TakenForDeleted(v)
    \/ KnowsOf(cn[v], told[v], firstScan[v], noticed[v])

\* The end of a pass that saw this will tell the listener.
PassTells(v, seen) ==
    \/ seen = Null \/ noticed[v] <= seen[v]
    \/ lastSeenVms # Null /\ ~cn[v][lastSeenVms[v]].exists /\ cn[v][seen[v]].exists

NoticedDue(v) ==
    started /\ looked =>
        /\ \A p \in DOMAIN passes : passes[p].alone => PassTells(v, passes[p].seen) \/ Due(v)
        /\ clean /\ passes = <<>> => Due(v)

\* No pass has scanned without another one beside it.
Fresh(ps) == \A p \in DOMAIN ps : ps[p].alone => ps[p].seen = Null /\ Len(ps) = 1

LEMMA FreshBegins ==
    ASSUME NEW ps \in Seq(Pass), NEW cb, ProcessState(ps, cb)
    PROVE  Fresh(passes') /\ passes' # <<>> /\ isDirty' = FALSE
<1> DEFINE old == [i \in DOMAIN ps |-> [ps[i] EXCEPT !.alone = FALSE]]
<1> DEFINE new == [callback |-> cb, alone |-> ps = <<>>, seen |-> Null]
<1>1. passes' = Append(old, new) /\ isDirty' = FALSE
    BY DEF ProcessState
<1>2. DOMAIN ps = 1..Len(ps) /\ Len(ps) \in Nat /\ \A i \in 1..Len(ps) : ps[i] \in Pass
    OBVIOUS
<1>3. \A i \in 1..Len(ps) : old[i] \in Pass /\ ~old[i].alone
    BY <1>2 DEF Pass
<1>4. old \in Seq(Pass) /\ Len(old) = Len(ps)
    BY <1>2, <1>3
<1>5. new.seen = Null /\ (new.alone => ps = <<>>)
    OBVIOUS
<1> HIDE DEF old, new
<1>6. /\ Len(passes') = Len(ps) + 1 /\ DOMAIN passes' = 1..(Len(ps) + 1)
      /\ passes'[Len(ps) + 1] = new
      /\ \A i \in 1..Len(ps) : passes'[i] = old[i]
    BY <1>1, <1>2, <1>4
<1>7. Fresh(passes')
    <2> SUFFICES ASSUME NEW p \in DOMAIN passes', passes'[p].alone
                 PROVE  passes'[p].seen = Null /\ Len(passes') = 1
        BY DEF Fresh
    <2>1. p = Len(ps) + 1
        BY <1>2, <1>3, <1>6
    <2>2. passes'[p].seen = Null /\ ps = <<>>
        BY <1>5, <1>6, <2>1
    <2> QED
        BY <1>6, <2>2
<1>8. passes' # <<>>
    BY <1>2, <1>6
<1> QED
    BY <1>1, <1>7, <1>8

LEMMA FreshEnds ==
    ASSUME FsInv, Alone, NEW p \in DOMAIN passes, ProcessStateCb(p)
    PROVE  /\ Fresh(passes')
           /\ passes' = <<>> => isDirty = FALSE /\ isDirty' = FALSE
           /\ passes[p].alone => isDirty \/ passes' = <<>>
<1> DEFINE others == SeqExt!RemoveAt(passes, p)
<1>1. /\ others \in Seq(Pass) /\ Len(others) = Len(passes) - 1
      /\ \A i \in DOMAIN others : \E j \in DOMAIN passes : others[i] = passes[j]
    BY PassEnds DEF FsInv, PassesInv
<1>2. /\ IF isDirty THEN ProcessState(others, FALSE) ELSE passes' = others /\ isDirty' = isDirty
    BY DEF ProcessStateCb
<1>3. Len(passes) \in Nat /\ isDirty \in BOOLEAN
    BY DEF FsInv, PassesInv
<1> HIDE DEF others
<1>4. \A i \in DOMAIN others : ~others[i].alone
    <2> SUFFICES ASSUME NEW i \in DOMAIN others, others[i].alone PROVE FALSE
        OBVIOUS
    <2>1. Len(passes) = 1
        BY <1>1 DEF Alone
    <2>2. Len(others) = 0
        BY <1>1, <2>1
    <2> QED
        BY <1>1, <2>2
<1>5. CASE isDirty
    BY <1>1, <1>2, <1>5, FreshBegins
<1>6. CASE ~isDirty
    <2>1. passes' = others /\ isDirty' = FALSE /\ isDirty = FALSE
        BY <1>2, <1>3, <1>6
    <2>2. passes[p].alone => Len(others) = 0
        BY <1>1, <1>3 DEF Alone
    <2>3. Len(others) = 0 => others = <<>>
        BY <1>1
    <2> QED
        BY <1>4, <2>1, <2>2, <2>3 DEF Fresh
<1> QED
    BY <1>5, <1>6

\* Steps at which no pass begins, scans or ends.
Between ==
    \/ \E v \in VM : \/ Files(v) \/ OnConfigChange(v) \/ OnWatcherError(v) \/ OnConfigRenamed(v)
                     \/ TryWatching(v) \/ TimeOut(v)
                     \/ EmitImmediately(v) /\ UNCHANGED fsVars
    \/ ZonesTouched \/ AgentLooks \/ UNCHANGED vars

LEMMA BetweenSteps ==
    ASSUME FsInv, Between
    PROVE  /\ UNCHANGED <<passes, isDirty, clean, started, firstScan>>
           /\ zonesEvent /\ (started => zonesWatcher) => zonesEvent' \/ ~started
<1>1. ASSUME NEW v \in VM, Files(v)
      PROVE  /\ UNCHANGED <<passes, isDirty, clean, started, firstScan>>
             /\ zonesEvent' = zonesEvent \/ zonesEvent' = zonesWatcher
    BY <1>1, XmlMeans, ConfigMeans, DirMeans DEF Files, DirCreated, passVars, ownerVars, ghosts, watchVars
<1>2. ASSUME NEW v \in VM, \/ OnConfigChange(v) \/ OnWatcherError(v) \/ OnConfigRenamed(v)
                           \/ TryWatching(v) \/ TimeOut(v)
      PROVE  UNCHANGED <<passes, isDirty, clean, started, firstScan, zonesEvent>>
    BY <1>2 DEF OnConfigChange, OnWatcherError, OnConfigRenamed, Unwatched, TryWatching, TimeOut,
                passVars, ownerVars
<1>3. CASE (\E v \in VM : EmitImmediately(v) /\ UNCHANGED fsVars) \/ UNCHANGED vars
    BY <1>3 DEF fsVars, vars, passVars, ownerVars, ghosts, watchVars
<1>4. CASE ZonesTouched \/ AgentLooks
    BY <1>4 DEF ZonesTouched, AgentLooks, passVars, ownerVars, watchVars
<1> QED
    BY <1>1, <1>2, <1>3, <1>4 DEF Between

\* What becomes of the passes: the last case is the end of a pass that was alone.
LEMMA PassSteps ==
    ASSUME FsInv, Alone, [Next]_vars
    PROVE  \/ Between
           \/ started' = FALSE /\ passes' = passes
           \/ Fresh(passes') /\ (passes' # <<>> \/ clean' = FALSE)
           \/ isDirty' = TRUE /\ passes' # <<>> /\ passes' = passes
           \/ \E p \in 1..MaxPasses : Scan(p)
           \/ \E p \in DOMAIN passes : /\ EndPass(p) /\ passes[p].alone /\ ~isDirty
                                       /\ passes' = <<>> /\ isDirty' = FALSE
<1>1. passes \in Seq(Pass) /\ (isProcessing => passes # <<>>) /\ \A p \in DOMAIN passes : passes[p] \in Pass
    BY DEF FsInv, PassesInv
<1>2. CASE Stop
    BY <1>2 DEF Stop
<1>3. CASE Start \/ RetryStartup
    BY <1>1, <1>3, FreshBegins DEF Start, RetryStartup, StartBody
<1>4. CASE OnZoneEvent
    <2>1. CASE isProcessing
        BY <1>1, <1>4, <2>1 DEF OnZoneEvent
    <2>2. CASE ~isProcessing
        BY <1>1, <1>4, <2>2, FreshBegins DEF OnZoneEvent
    <2> QED
        BY <2>1, <2>2
<1>5. ASSUME NEW p \in 1..MaxPasses, FailPass(p) PROVE Fresh(passes') /\ clean' = FALSE
    BY <1>5, FreshEnds DEF FailPass
<1>6. ASSUME NEW p \in 1..MaxPasses, EndPass(p)
      PROVE  \/ Fresh(passes') /\ (passes' # <<>> \/ clean' = FALSE)
             \/ /\ p \in DOMAIN passes /\ passes[p].alone /\ ~isDirty
                /\ passes' = <<>> /\ isDirty' = FALSE
    <2>1. p \in DOMAIN passes /\ clean' = passes[p].alone /\ ProcessStateCb(p) /\ passes[p].alone \in BOOLEAN
        BY <1>1, <1>6 DEF EndPass, Pass
    <2> QED
        BY <2>1, FreshEnds
<1> QED
    BY <1>2, <1>3, <1>4, <1>5, <1>6 DEF Next, Between

LEMMA AloneStays ==
    ASSUME FsInv, Alone, [Next]_vars
    PROVE  Alone'
<1>1. CASE passes' = passes
    BY <1>1 DEF Alone
<1>2. CASE Fresh(passes')
    BY <1>2 DEF Alone, Fresh
<1>3. ASSUME NEW p \in 1..MaxPasses, Scan(p) PROVE Alone'
    <2>1. passes \in Seq(Pass) /\ p \in DOMAIN passes
        BY <1>3 DEF FsInv, PassesInv, Scan
    <2>2. passes' = [passes EXCEPT ![p].seen = [v \in VM |-> Visible(v)]]
        BY <1>3 DEF Scan
    <2>3. DOMAIN passes' = DOMAIN passes /\ Len(passes') = Len(passes)
        BY <2>1, <2>2
    <2>4. \A q \in DOMAIN passes : passes'[q].alone = passes[q].alone
        BY <2>1, <2>2 DEF Pass
    <2> QED
        BY <2>3, <2>4 DEF Alone
<1>4. CASE passes' = <<>>
    BY <1>4 DEF Alone
<1> QED
    BY <1>1, <1>2, <1>3, <1>4, PassSteps, BetweenSteps

LEMMA FirstTolds ==
    ASSUME FsInv, Versions(told), [Next]_vars, NEW v \in VM, FirstTold(v)
    PROVE  FirstTold(v)'
<1>1. ASSUME lastSeenVms' = Null
      PROVE  started' = FALSE \/ (lastSeenVms = Null /\ firstScan' = firstScan)
    <2>1. CASE \/ UNCHANGED <<lastSeenVms, firstScan>> \/ started' = FALSE
        BY <1>1, <2>1
    <2>2. ASSUME NEW p \in 1..MaxPasses, EndPass(p) PROVE FALSE
        BY <1>1, <2>2 DEF EndPass
    <2>3. ASSUME NEW w \in VM, OnConfigChange(w) PROVE UNCHANGED <<lastSeenVms, firstScan>>
        <3>1. firstScan' = firstScan
            BY <2>3 DEF OnConfigChange
        <3>2. lastSeenVms' = lastSeenVms \/ Versions(lastSeenVms')
            BY <2>3, ConfigSeen DEF OnConfigChange
        <3>3. ~Versions(lastSeenVms')
            BY <1>1, Bounds DEF Versions, Null
        <3> QED
            BY <3>1, <3>2, <3>3
    <2>4. ASSUME NEW w \in VM, Files(w) PROVE UNCHANGED <<lastSeenVms, firstScan>>
        BY <2>4, XmlMeans, ConfigMeans, DirMeans DEF Files, DirCreated, passVars, ghosts
    <2>5. CASE Stop
        BY <2>1, <2>5 DEF Stop
    <2>6. CASE ZonesTouched \/ AgentLooks \/ Start \/ RetryStartup \/ OnZoneEvent
        BY <2>1, <2>6 DEF ZonesTouched, AgentLooks, Start, RetryStartup, StartBody, OnZoneEvent, passVars, ghosts
    <2>7. ASSUME NEW p \in 1..MaxPasses, Scan(p) \/ FailPass(p) PROVE UNCHANGED <<lastSeenVms, firstScan>>
        BY <2>7 DEF Scan, FailPass, ghosts
    <2>8. ASSUME NEW w \in VM, OnWatcherError(w) \/ OnConfigRenamed(w) \/ TryWatching(w) \/ TimeOut(w)
          PROVE  UNCHANGED <<lastSeenVms, firstScan>>
        BY <2>8 DEF OnWatcherError, OnConfigRenamed, Unwatched, TryWatching, TimeOut, passVars
    <2>9. CASE (\E w \in VM : EmitImmediately(w) /\ UNCHANGED fsVars) \/ UNCHANGED vars
        BY <2>1, <2>9 DEF fsVars, vars, passVars, ghosts
    <2> QED
        BY <2>1, <2>2, <2>3, <2>4, <2>5, <2>6, <2>7, <2>8, <2>9 DEF Next
<1>2. /\ told[v] \in Nat /\ Len(cn[v]) \in Nat /\ firstScan[v] \in 0..Len(cn[v])
      /\ told[v] <= Len(cn[v])
    BY TimesTyped DEF Versions
<1>3. told'[v] = told[v] \/ told'[v] = Len(cn[v])
    BY OwnerSteps
<1>4. SUFFICES ASSUME started', looked', lastSeenVms' = Null PROVE firstScan'[v] <= told'[v]
    BY DEF FirstTold
<1>5. firstScan' = firstScan /\ lastSeenVms = Null
    BY <1>1, <1>4
<1>6. CASE told'[v] = Len(cn[v])
    BY <1>2, <1>5, <1>6
<1>7. CASE told'[v] # Len(cn[v])
    BY <1>2, <1>3, <1>4, <1>5, <1>7, OwnerSteps DEF FirstTold
<1> QED
    BY <1>6, <1>7

\* A VM that is gone was not written since; the last version is then the .xml file's.
LEMMA GoneIsLast ==
    ASSUME FsInv, NEW v \in VM, FilesOf(v), NEW i \in 1..Len(cn[v]), ~cn[v][i].exists
    PROVE  /\ i <= xml[v]
           /\ xml[v] <= i => xml[v] = Len(cn[v])
<1>1. xml[v] \in 1..Len(cn[v]) /\ Len(cn[v]) \in Nat
    BY TimesTyped
<1>2. CASE xml[v] = Len(cn[v])
    BY <1>1, <1>2
<1>3. CASE \A j \in xml[v]..Len(cn[v]) : cn[v][j].exists
    <2>1. ~(i \in xml[v]..Len(cn[v]))
        BY <1>3
    <2> QED
        BY <1>1, <2>1
<1> QED
    BY <1>2, <1>3 DEF FilesOf, XmlLast

\* Of two versions the one with the later time is the later one.
LEMMA OrderedMeans ==
    ASSUME FsInv, NEW v \in VM, FilesOf(v), NEW i \in 1..Len(cn[v]), NEW j \in 1..Len(cn[v]),
           cn[v][i].exists
    PROVE  /\ cn[v][j].last_modified > cn[v][i].last_modified => i <= j
           /\ cn[v][j].exists /\ cn[v][j].last_modified <= cn[v][i].last_modified => j <= i
<1>1. cn[v][i].last_modified \in Nat /\ cn[v][j].last_modified \in Nat /\ i \in Nat /\ j \in Nat
    BY TimesTyped
<1>2. j < i => cn[v][j].last_modified < cn[v][i].last_modified
    BY DEF FilesOf, Ordered
<1>3. cn[v][j].exists /\ i < j => cn[v][i].last_modified < cn[v][j].last_modified
    BY DEF FilesOf, Ordered
<1> QED
    BY <1>1, <1>2, <1>3

LEMMA BetweenSeen ==
    ASSUME FsInv, Between
    PROVE  lastSeenVms' = lastSeenVms \/ \E w \in VM : OnConfigChange(w)
<1>1. ASSUME NEW w \in VM, Files(w) PROVE lastSeenVms' = lastSeenVms
    BY <1>1, XmlMeans, ConfigMeans, DirMeans DEF Files, DirCreated, passVars
<1>2. ASSUME NEW w \in VM, OnWatcherError(w) \/ OnConfigRenamed(w) \/ TryWatching(w) \/ TimeOut(w)
      PROVE  lastSeenVms' = lastSeenVms
    BY <1>2 DEF OnWatcherError, OnConfigRenamed, Unwatched, TryWatching, TimeOut, passVars
<1>3. CASE (\E w \in VM : EmitImmediately(w) /\ UNCHANGED fsVars) \/ UNCHANGED vars \/ ZonesTouched \/ AgentLooks
    BY <1>3 DEF fsVars, vars, passVars, ZonesTouched, AgentLooks
<1> QED
    BY <1>1, <1>2, <1>3 DEF Between

\* A scan sees what was noticed and the .xml file.
LEMMA ScanSees ==
    ASSUME FsInv, NEW v \in VM, FilesOf(v), NoticedOf(v)
    PROVE  noticed[v] <= Visible(v) /\ xml[v] <= Visible(v)
<1>1. xml[v] \in Nat /\ config[v] \in Nat /\ noticed[v] \in Nat
    BY TimesTyped
<1>2. noticed[v] <= xml[v] \/ noticed[v] <= config[v]
    BY DEF NoticedOf
<1>3. CASE Last(v).exists
    BY <1>1, <1>2, <1>3 DEF Visible, Larger
<1>4. CASE ~Last(v).exists
    <2>1. config[v] = 0
        BY <1>4 DEF FilesOf, ConfigThere
    <2> QED
        BY <1>1, <1>2, <1>4, <2>1 DEF Visible
<1> QED
    BY <1>3, <1>4

LEMMA ScanMeans ==
    ASSUME FsInv, NEW p, Scan(p)
    PROVE  /\ passes # <<>> /\ passes' # <<>> /\ DOMAIN passes' = DOMAIN passes
           /\ \A q \in DOMAIN passes :
                 /\ passes'[q].alone = passes[q].alone
                 /\ \/ passes'[q] = passes[q]
                    \/ \A v \in VM : passes'[q].seen[v] = Visible(v)
           /\ UNCHANGED <<watcherVars, fileVars, watchVars, isDirty, isProcessing, lastSeenVms,
                          ownerVars, ghosts>>
<1>1. passes \in Seq(Pass) /\ p \in DOMAIN passes
    BY DEF FsInv, PassesInv, Scan
<1>2. passes' = [passes EXCEPT ![p].seen = [v \in VM |-> Visible(v)]]
    BY DEF Scan
<1>3. DOMAIN passes' = DOMAIN passes /\ passes # <<>> /\ passes' # <<>>
    BY <1>1, <1>2
<1>4. \A q \in DOMAIN passes : q # p => passes'[q] = passes[q]
    BY <1>1, <1>2
<1>5. passes'[p] = [passes[p] EXCEPT !.seen = [v \in VM |-> Visible(v)]] /\ passes[p] \in Pass
    BY <1>1, <1>2
<1>6. passes'[p].alone = passes[p].alone /\ passes'[p].seen = [v \in VM |-> Visible(v)]
    BY <1>5 DEF Pass
<1> QED
    BY <1>3, <1>4, <1>6 DEF Scan

\* The scan of a pass that was alone has the .xml file as it is, or an event is waiting.
LEMMA XmlScannedStays ==
    ASSUME FsInv, Watching, Alone, [Next]_vars, NEW v \in VM, FilesOf(v), NoticedOf(v), TellsOf(v),
           Versions(told), XmlScanned(v)
    PROVE  XmlScanned(v)'
<1>1. CASE started' = FALSE \/ (isDirty' = TRUE /\ passes' # <<>>)
    BY <1>1 DEF XmlScanned
<1>2. CASE Fresh(passes') /\ (passes' # <<>> \/ clean' = FALSE)
    BY <1>2 DEF XmlScanned, Fresh
<1>3. ASSUME NEW p \in 1..MaxPasses, Scan(p) PROVE XmlScanned(v)'
    <2>1. xml[v] <= Visible(v)
        BY ScanSees
    <2>2. /\ passes' # <<>> /\ DOMAIN passes' = DOMAIN passes
          /\ \A q \in DOMAIN passes :
                 /\ passes'[q].alone = passes[q].alone
                 /\ passes'[q] = passes[q] \/ passes'[q].seen[v] = Visible(v)
          /\ UNCHANGED <<xml, zonesEvent, isDirty, started>>
        BY <1>3, ScanMeans DEF fileVars, watchVars, ownerVars
    <2> SUFFICES ASSUME started', NEW q \in DOMAIN passes', passes'[q].alone, passes'[q].seen # Null
                 PROVE  xml'[v] <= passes'[q].seen[v] \/ zonesEvent' \/ isDirty'
        BY <2>2 DEF XmlScanned
    <2> QED
        BY <2>1, <2>2 DEF XmlScanned
<1>4. ASSUME NEW p \in DOMAIN passes, EndPass(p), passes[p].alone, ~isDirty, passes' = <<>>
      PROVE  XmlScanned(v)'
    <2>1. passes[p].seen # Null /\ lastSeenVms' = passes[p].seen /\ UNCHANGED <<xml, zonesEvent, started>>
        BY <1>4 DEF EndPass, fileVars, ownerVars
    <2>2. started => xml[v] <= passes[p].seen[v] \/ zonesEvent
        BY <1>4, <2>1 DEF XmlScanned
    <2> QED
        BY <1>4, <2>1, <2>2 DEF XmlScanned
<1>5. CASE Between
    <2>1. /\ UNCHANGED <<passes, isDirty, clean, started>>
          /\ started /\ zonesEvent => zonesEvent'
        BY <1>5, BetweenSteps DEF Watching
    <2>2. SUFFICES ASSUME started PROVE XmlScanned(v)'
        BY <2>1 DEF XmlScanned
    <2>3. CASE XmlWritten(v)
        BY <2>2, <2>3, XmlMeans DEF Watching, XmlScanned
    <2>4. CASE ~XmlWritten(v)
        <3>1. xml'[v] = xml[v]
            BY <2>4, FileSteps, ConfigMeans, DirMeans DEF FilesSame
        <3>2. CASE lastSeenVms' = lastSeenVms
            BY <2>1, <2>2, <3>1, <3>2 DEF XmlScanned
        <3>3. ASSUME NEW w \in VM, OnConfigChange(w) PROVE XmlScanned(v)'
            <4>1. lastSeenVms'[v] = lastSeenVms[v] \/
                     (/\ v = w /\ lastSeenVms # Null /\ config[v] # 0 /\ lastSeenVms'[v] = config[v]
                      /\ cn[v][lastSeenVms[v]].exists
                      /\ cn[v][config[v]].last_modified > cn[v][lastSeenVms[v]].last_modified)
                BY <3>3, ConfigTells
            <4>2. /\ xml[v] \in Nat /\ config[v] \in 0..Len(cn[v]) /\ lastSeenVms[v] \in Nat
                  /\ lastSeenVms # Null => lastSeenVms[v] \in 1..Len(cn[v])
                  /\ Len(cn[v]) \in Nat
                BY TimesTyped
            <4>3. xml[v] <= lastSeenVms[v] => xml[v] <= lastSeenVms'[v]
                <5>1. CASE lastSeenVms'[v] = lastSeenVms[v]
                    BY <5>1
                <5>2. CASE lastSeenVms'[v] # lastSeenVms[v]
                    <6>1. lastSeenVms[v] <= config[v]
                        BY <4>1, <4>2, <5>2, OrderedMeans
                    <6> QED
                        BY <4>1, <4>2, <5>2, <6>1
                <5> QED
                    BY <5>1, <5>2
            <4> QED
                BY <2>1, <2>2, <3>1, <4>3 DEF XmlScanned
        <3>4. lastSeenVms' = lastSeenVms \/ \E w \in VM : OnConfigChange(w)
            BY <1>5, BetweenSeen
        <3> QED
            BY <3>2, <3>3, <3>4
    <2> QED
        BY <2>3, <2>4
<1> QED
    BY <1>1, <1>2, <1>3, <1>4, <1>5, PassSteps

\* What is noticed is in what was just seen.
LEMMA SeenDue ==
    ASSUME FsInv, NEW v \in VM, FilesOf(v), NoticedOf(v), TellsOf(v)', started, looked,
           UNCHANGED <<cn, told, xml, noticed>>,
           firstScan'[v] \in Nat, lastSeenVms'[v] \in 1..Len(cn[v]), noticed[v] <= lastSeenVms'[v]
    PROVE  Due(v)'
<1> DEFINE h == cn[v]
           t == told[v]
           f == firstScan'[v]
           l == lastSeenVms'[v]
           k == knownVms'[v]
           n == noticed[v]
           x == xml[v]
           e == v \in emits'
           o == v \in overlooked'
<1>1. h \in Seq(VmState) /\ t \in Nat /\ x \in Nat /\ n \in Nat /\ Len(h) \in Nat
    BY TimesTyped
<1>2. f \in Nat /\ l \in 1..Len(h) /\ n <= l
    OBVIOUS
<1>3. e \in BOOLEAN /\ o \in BOOLEAN
    OBVIOUS
<1>4. n \in 0..Len(h)
    BY <1>1, <1>2
<1>5. Tells(h, t, f, l, k, e, o)
    BY DEF TellsOf
<1>6. \A i \in 1..Len(h) : ~h[i].exists => i <= x
    BY GoneIsLast
<1>7. n = 0 \/ x <= t \/ x <= n
    BY DEF NoticedOf
<1>8. SUFFICES e \/ o \/ (k.destroyed /\ h[Len(h)].exists) \/ KnowsOf(h, t, f, n)
    BY DEF Due, TakenForDeleted, Last
<1> HIDE DEF h, t, f, l, k, n, x, e, o
<1> QED
    BY <1>1, <1>2, <1>3, <1>4, <1>5, <1>6, <1>7, SeenIsKnown

\* The event of the config file is handled, or goes with the watch of a VM that is gone.
LEMMA PendingIsThere ==
    ASSUME FsInv, NEW v \in VM, FilesOf(v), ConfigPending(v), NEW i \in 1..Len(cn[v]), xml[v] <= i
    PROVE  cn[v][i].exists /\ cn[v][config[v]].exists /\ config[v] \in 1..Len(cn[v])
<1>1. /\ xml[v] \in 1..Len(cn[v]) /\ config[v] \in 0..Len(cn[v]) /\ noticed[v] \in Nat
      /\ Len(cn[v]) \in Nat
    BY TimesTyped
<1>2. xml[v] < config[v] /\ config[v] \in 1..Len(cn[v]) /\ xml[v] # Len(cn[v])
    BY <1>1 DEF ConfigPending
<1>3. cn[v][i].exists
    BY <1>2, GoneIsLast
<1>4. cn[v][config[v]].exists
    BY <1>1, <1>2, GoneIsLast
<1> QED
    BY <1>2, <1>3, <1>4

\* The end of a pass that was alone.
LEMMA EndDue ==
    ASSUME FsInv, NEW v \in VM, FilesOf(v), NoticedOf(v), TellsOf(v), FirstTold(v), XmlScanned(v),
           NoticedDue(v), started, looked,
           NEW p \in DOMAIN passes, EndPass(p), passes[p].alone, ~isDirty
    PROVE  Due(v)'
<1> DEFINE seen == passes[p].seen
<1>1. /\ seen # Null /\ lastSeenVms' = seen
      /\ configEvents' = configEvents \cap {u \in VM : cn[u][seen[u]].exists}
      /\ UNCHANGED <<cn, told, xml, config, zonesEvent, started, looked, noticed>>
    BY DEF EndPass, fileVars, ownerVars
<1>2. /\ TellsOf(v)'
      /\ knownVms[v].destroyed => knownVms'[v].destroyed \/ v \in emits'
      /\ v \in emits => v \in emits'
      /\ v \in overlooked => v \in emits' \cup overlooked'
      /\ lastSeenVms # Null =>
             /\ firstScan' = firstScan
             /\ cn[v][lastSeenVms'[v]].exists /\ ~cn[v][lastSeenVms[v]].exists
                   => v \in emits' \cup overlooked'
    BY EndTells
<1>3. Versions(seen)
    BY <1>1, ScannedVersions DEF FsInv, PassesInv
<1>4. seen[v] \in 1..Len(cn[v])
    BY <1>3, TimesTyped DEF Versions
<1>5. lastSeenVms = Null => firstScan' = seen
    BY DEF EndPass, Compare
<1>6. firstScan'[v] \in Nat
    <2>1. firstScan[v] \in Nat /\ seen[v] \in Nat
        BY <1>4, TimesTyped
    <2> QED
        BY <1>2, <1>5, <2>1
<1>7. PassTells(v, seen) \/ Due(v)
    BY DEF NoticedDue
<1>8. xml[v] <= seen[v] \/ zonesEvent
    BY <1>1 DEF XmlScanned
<1> HIDE DEF seen
<1>9. CASE noticed[v] <= seen[v]
    BY <1>1, <1>2, <1>4, <1>6, <1>9, SeenDue
<1>10. CASE lastSeenVms # Null /\ ~cn[v][lastSeenVms[v]].exists /\ cn[v][seen[v]].exists
    BY <1>1, <1>2, <1>10 DEF Due
<1>11. CASE ConfigPending(v)
    <2>1. CASE xml[v] <= seen[v]
        <3>1. cn[v][seen[v]].exists
            BY <1>4, <1>11, <2>1, PendingIsThere
        <3>2. ConfigPending(v)'
            BY <1>1, <1>11, <3>1 DEF ConfigPending
        <3> QED
            BY <3>2 DEF Due
    <2> QED
        BY <1>1, <1>8, <2>1 DEF Due
<1>12. CASE zonesEvent \/ v \in emits \cup overlooked
    BY <1>1, <1>2, <1>12 DEF Due
<1>13. CASE TakenForDeleted(v)
    BY <1>1, <1>2, <1>13 DEF Due, TakenForDeleted, Last
<1>14. CASE KnowsOf(cn[v], told[v], firstScan[v], noticed[v])
    <2>1. CASE lastSeenVms # Null
        BY <1>1, <1>2, <1>14, <2>1 DEF Due
    <2>2. CASE lastSeenVms = Null
        <3>1. firstScan[v] <= told[v]
            BY <2>2 DEF FirstTold
        <3>2. /\ noticed[v] \in Nat /\ told[v] \in Nat /\ firstScan[v] \in Nat
              /\ Len(cn[v]) \in Nat
            BY TimesTyped
        <3>3. KnowsOf(cn[v], told[v], firstScan'[v], noticed[v])
            <4>1. CASE noticed[v] <= told[v] \/ noticed[v] <= firstScan[v]
                BY <3>1, <3>2, <4>1 DEF KnowsOf
            <4>2. CASE ~(noticed[v] <= told[v] \/ noticed[v] <= firstScan[v])
                <5>1. PICK i \in 1..Len(cn[v]) : /\ i <= told[v] \/ i <= firstScan[v]
                                                 /\ LooksLike(cn[v][i], cn[v][noticed[v]])
                    BY <1>14, <4>2 DEF KnowsOf
                <5>2. i <= told[v]
                    BY <3>1, <3>2, <5>1
                <5> QED
                    BY <5>1, <5>2 DEF KnowsOf
            <4> QED
                BY <4>1, <4>2
        <3> QED
            BY <1>1, <3>3 DEF Due
    <2> QED
        BY <2>1, <2>2
<1> QED
    BY <1>1, <1>7, <1>9, <1>10, <1>11, <1>12, <1>13, <1>14 DEF PassTells, Due

LEMMA BetweenKeeps ==
    ASSUME FsInv, Versions(told), [Next]_vars, Between, NEW v \in VM, FilesOf(v), TellsOf(v)
    PROVE  /\ lastSeenVms # Null => lastSeenVms' # Null
           /\ v \in configEvents => v \in configEvents' \/ OnConfigChange(v) \/ v \in dead
           /\ v \in overlooked => v \in emits' \cup overlooked' \/ told'[v] = Len(cn[v])
           /\ knownVms[v].destroyed => knownVms'[v].destroyed \/ v \in emits'
<1>1. CASE /\ UNCHANGED <<lastSeenVms, knownVms, configEvents>>
           /\ overlooked' = overlooked \/ told'[v] = Len(cn[v])
    BY <1>1
<1>2. ASSUME NEW u \in VM, Files(u)
      PROVE  UNCHANGED <<lastSeenVms, knownVms, overlooked>> /\ configEvents \subseteq configEvents'
    BY <1>2, XmlMeans, ConfigMeans, DirMeans DEF Files, DirCreated, passVars, ghosts, watcherVars, watchVars
<1>3. CASE ZonesTouched \/ UNCHANGED vars
    BY <1>1, <1>3 DEF ZonesTouched, vars, fsVars, ghosts, passVars, watcherVars, watchVars
<1>4. CASE AgentLooks
    BY <1>1, <1>4 DEF AgentLooks, ListenerLooks, passVars, watchVars
<1>5. ASSUME NEW u \in VM, OnConfigChange(u)
      PROVE  /\ lastSeenVms # Null => lastSeenVms' # Null
             /\ v \in configEvents => v \in configEvents' \/ OnConfigChange(v)
             /\ v \in overlooked => v \in emits' \cup overlooked'
             /\ knownVms[v].destroyed => knownVms'[v].destroyed \/ v \in emits'
    <2>1. configEvents' = configEvents \ {u}
        BY <1>5 DEF OnConfigChange
    <2> QED
        BY <1>5, <2>1, ConfigTells
<1>6. ASSUME NEW u \in VM, OnWatcherError(u) \/ OnConfigRenamed(u)
      PROVE  /\ UNCHANGED <<lastSeenVms, knownVms, overlooked>>
             /\ v \in configEvents => v \in configEvents' \/ v \in dead
    BY <1>6 DEF OnWatcherError, OnConfigRenamed, Unwatched, passVars, watcherVars
<1>7. ASSUME NEW u \in VM, TryWatching(u) \/ TimeOut(u)
      PROVE  UNCHANGED <<lastSeenVms, knownVms, overlooked, configEvents>>
    BY <1>7 DEF TryWatching, TimeOut, passVars, watcherVars
<1>8. ASSUME NEW u \in VM, EmitImmediately(u), UNCHANGED fsVars
      PROVE  UNCHANGED <<lastSeenVms, knownVms, overlooked, configEvents>>
    BY <1>8 DEF EmitImmediately, fsVars, ghosts, passVars, watchVars
<1> QED
    BY <1>2, <1>3, <1>4, <1>5, <1>6, <1>7, <1>8 DEF Between

\* The event of a config file tells what was noticed, unless the last scan found that the
\* VM was gone.
LEMMA ConfigDue ==
    ASSUME FsInv, Versions(told), [Next]_vars, NEW v \in VM, OnConfigChange(v), FilesOf(v), NoticedOf(v),
           TellsOf(v), started, looked, ConfigPending(v)
    PROVE  Due(v)' \/ (~cn[v][lastSeenVms[v]].exists /\ lastSeenVms' = lastSeenVms)
<1> DEFINE l == lastSeenVms[v]
           c == config[v]
<1>1. /\ l \in 1..Len(cn[v]) /\ c \in 0..Len(cn[v]) /\ firstScan[v] \in Nat
      /\ xml[v] \in 1..Len(cn[v]) /\ Len(cn[v]) \in Nat /\ noticed[v] \in Nat
      /\ lastSeenVms # Null /\ xml[v] < noticed[v] /\ noticed[v] <= c
    BY TimesTyped DEF ConfigPending
<1>2. c \in 1..Len(cn[v]) /\ c # 0
    BY <1>1
<1>3. UNCHANGED <<cn, told, xml, noticed, firstScan>>
    BY DEF OnConfigChange, fileVars
<1>4. TellsOf(v)'
    BY ConfigTells
<1> DEFINE newer == /\ config[v] # 0 /\ lastSeenVms # Null
                    /\ cn[v][lastSeenVms[v]].exists
                    /\ cn[v][config[v]].last_modified > cn[v][lastSeenVms[v]].last_modified
<1>5. lastSeenVms' = IF newer THEN [lastSeenVms EXCEPT ![v] = config[v]] ELSE lastSeenVms
    BY DEF OnConfigChange
<1>6. CASE newer
    <2>1. lastSeenVms'[v] = c
        BY <1>1, <1>5, <1>6, TimesTyped DEF FsInv, SeenInv, Scanned
    <2>2. firstScan'[v] \in Nat /\ lastSeenVms'[v] \in 1..Len(cn[v]) /\ noticed[v] <= lastSeenVms'[v]
        BY <1>1, <1>2, <1>3, <2>1
    <2> QED
        BY <1>3, <1>4, <2>2, SeenDue
<1>7. CASE ~newer /\ cn[v][l].exists
    <2>1. cn[v][c].exists
        <3>1. xml[v] <= xml[v]
            BY <1>1
        <3> QED
            BY <1>1, <3>1, PendingIsThere
    <2>2. cn[v][c].last_modified <= cn[v][l].last_modified
        <3>1. cn[v][c].last_modified \in Nat /\ cn[v][l].last_modified \in Nat
            BY <1>1, <1>2, TimesTyped
        <3>2. ~(cn[v][c].last_modified > cn[v][l].last_modified)
            BY <1>1, <1>2, <1>7
        <3> QED
            BY <3>1, <3>2
    <2>3. c <= l
        BY <1>1, <1>2, <1>7, <2>1, <2>2, OrderedMeans
    <2>4. lastSeenVms'[v] = l
        BY <1>5, <1>7
    <2>5. firstScan'[v] \in Nat /\ lastSeenVms'[v] \in 1..Len(cn[v]) /\ noticed[v] <= lastSeenVms'[v]
        BY <1>1, <1>2, <1>3, <2>3, <2>4
    <2> QED
        BY <1>3, <1>4, <2>5, SeenDue
<1>8. CASE ~newer /\ ~cn[v][l].exists
    BY <1>5, <1>8
<1> QED
    BY <1>6, <1>7, <1>8

LEMMA DueStays ==
    ASSUME FsInv, Watching, Versions(told), [Next]_vars, Between, NEW v \in VM, FilesOf(v), NoticedOf(v),
           TellsOf(v), started, looked, Due(v)
    PROVE  \/ Due(v)'
           \/ OnConfigChange(v) /\ ConfigPending(v) /\ ~cn[v][lastSeenVms[v]].exists
                                /\ lastSeenVms' = lastSeenVms
<1>1. /\ Len(cn[v]) \in Nat /\ told[v] \in Nat /\ firstScan[v] \in Nat /\ noticed[v] \in 0..Len(cn[v])
      /\ xml[v] \in Nat /\ config[v] \in 0..Len(cn[v])
    BY TimesTyped DEF NoticedOf
<1>2. /\ UNCHANGED <<isDirty, firstScan>> /\ (zonesEvent => zonesEvent')
    BY BetweenSteps DEF Watching
<1>3. /\ lastSeenVms # Null => lastSeenVms' # Null
      /\ v \in configEvents => v \in configEvents' \/ OnConfigChange(v) \/ v \in dead
      /\ v \in overlooked => v \in emits' \cup overlooked' \/ told'[v] = Len(cn[v])
      /\ knownVms[v].destroyed => knownVms'[v].destroyed \/ v \in emits'
    BY BetweenKeeps
<1>4. /\ told'[v] = told[v] \/ told'[v] = Len(cn[v])
      /\ v \in emits => v \in emits' \/ told'[v] = Len(cn[v])
    BY OwnerSteps
<1>5. told[v] <= told'[v] /\ told'[v] \in Nat
    BY <1>1, <1>4 DEF Versions
<1>6. CASE XmlWritten(v)
    BY <1>6, XmlMeans DEF Watching, Due
<1>7. CASE ConfigWritten(v)
    <2>1. /\ UNCHANGED <<knownVms, emits, told, xml, zonesEvent, lastSeenVms, isDirty, firstScan, overlooked>>
          /\ config'[v] = Len(cn'[v]) /\ configEvents \subseteq configEvents'
          /\ \/ noticed'[v] = noticed[v]
             \/ v \in configEvents' /\ lastSeenVms # Null /\ noticed'[v] = config'[v]
        BY <1>7, ConfigMeans DEF passVars
    <2>2. /\ Len(cn'[v]) = Len(cn[v]) + 1 /\ \A i \in 1..Len(cn[v]) : cn'[v][i] = cn[v][i]
          /\ Last(v)'.exists
        BY <1>7, NewVersion DEF Last
    <2>3. CASE noticed'[v] # noticed[v]
        <3>1. xml'[v] < noticed'[v]
            BY <2>1, <2>2, <2>3, TimesTyped
        <3>2. noticed'[v] <= config'[v]
            BY <1>1, <2>1, <2>2, <2>3
        <3> QED
            BY <2>1, <2>3, <3>1, <3>2 DEF Due, ConfigPending
    <2>4. CASE noticed'[v] = noticed[v]
        <3>1. ConfigPending(v) => ConfigPending(v)'
            <4>1. noticed[v] <= config'[v]
                BY <1>1, <2>1, <2>2
            <4> QED
                BY <2>1, <2>4, <4>1 DEF ConfigPending
        <3>2. ASSUME KnowsOf(cn[v], told[v], firstScan[v], noticed[v])
              PROVE  KnowsOf(cn'[v], told'[v], firstScan'[v], noticed'[v])
            <4> DEFINE h == cn[v]
                       g == cn'[v]
                       t == told[v]
                       f == firstScan[v]
                       n == noticed[v]
            <4>1. /\ Len(h) \in Nat /\ Len(g) \in Nat /\ Len(h) <= Len(g) /\ \A i \in 1..Len(h) : g[i] = h[i]
                  /\ t \in Nat /\ t <= t /\ f \in Nat /\ n \in 0..Len(h)
                BY <1>1, <2>2
            <4>2. KnowsOf(h, t, f, n)
                BY <3>2
            <4> HIDE DEF h, g, t, f, n
            <4>3. KnowsOf(g, t, f, n)
                BY <4>1, <4>2, KnowsStays
            <4> QED
                BY <2>1, <2>4, <4>3 DEF h, g, t, f, n
        <3>3. TakenForDeleted(v) => TakenForDeleted(v)'
            BY <2>1, <2>2 DEF TakenForDeleted
        <3> QED
            BY <2>1, <3>1, <3>2, <3>3 DEF Due
    <2> QED
        BY <2>3, <2>4
<1>8. CASE DirRemoved(v)
    <2>1. /\ UNCHANGED <<cn, knownVms, emits, told, xml, zonesEvent, isDirty, firstScan, overlooked>>
          /\ noticed'[v] = IF noticed[v] > xml[v] THEN 0 ELSE noticed[v]
        BY <1>8, DirMeans DEF passVars
    <2>2. CASE noticed[v] > xml[v]
        BY <1>1, <2>1, <2>2 DEF Due, KnowsOf
    <2>3. CASE ~(noticed[v] > xml[v])
        <3>1. ~ConfigPending(v)
            BY <1>1, <2>3 DEF ConfigPending
        <3> QED
            BY <2>1, <2>3, <3>1 DEF Due, TakenForDeleted, Last
    <2> QED
        BY <2>2, <2>3
<1>9. CASE FilesSame(v)
    <2>1. cn'[v] = cn[v] /\ xml'[v] = xml[v] /\ config'[v] = config[v] /\ noticed'[v] = noticed[v]
        BY <1>9 DEF FilesSame
    <2>2. CASE told'[v] = Len(cn[v])
        <3>1. noticed'[v] <= told'[v]
            BY <1>1, <2>1, <2>2
        <3> QED
            BY <3>1 DEF Due, KnowsOf
    <2>3. ASSUME KnowsOf(cn[v], told[v], firstScan[v], noticed[v]), told'[v] # Len(cn[v])
          PROVE  Due(v)'
        BY <1>2, <1>4, <2>1, <2>3 DEF Due
    <2>4. ASSUME TakenForDeleted(v) PROVE Due(v)'
        BY <1>3, <2>1, <2>4 DEF TakenForDeleted, Last, Due
    <2>5. ASSUME ConfigPending(v)
          PROVE  \/ Due(v)'
                 \/ OnConfigChange(v) /\ ~cn[v][lastSeenVms[v]].exists /\ lastSeenVms' = lastSeenVms
        <3>1. v \in configEvents /\ lastSeenVms' # Null /\ xml[v] < noticed[v] /\ noticed[v] <= config[v]
            BY <1>3, <2>5 DEF ConfigPending
        <3>2. v \notin dead
            BY <1>1, <3>1 DEF NoticedOf
        <3>3. CASE v \in configEvents'
            BY <2>1, <3>1, <3>3 DEF Due, ConfigPending
        <3>4. CASE OnConfigChange(v)
            BY <2>5, <3>4, ConfigDue
        <3> QED
            BY <1>3, <3>1, <3>2, <3>3, <3>4
    <2>6. CASE zonesEvent \/ isDirty \/ v \in emits \cup overlooked
        BY <1>2, <1>3, <1>4, <2>2, <2>6 DEF Due
    <2> QED
        BY <2>2, <2>3, <2>4, <2>5, <2>6 DEF Due
<1> QED
    BY <1>6, <1>7, <1>8, <1>9, FileSteps

LEMMA PassTellsStays ==
    ASSUME FsInv, Watching, Versions(told), [Next]_vars, Between, NEW v \in VM, FilesOf(v), NoticedOf(v),
           TellsOf(v), started, looked, NEW seen, seen # Null => seen[v] \in 1..Len(cn[v]),
           PassTells(v, seen)
    PROVE  \/ Due(v)'
           \/ seen = Null \/ noticed'[v] <= seen[v]
           \/ lastSeenVms' # Null /\ ~cn'[v][lastSeenVms'[v]].exists /\ cn'[v][seen[v]].exists
<1>1. /\ noticed[v] \in Nat /\ xml[v] \in Nat /\ Len(cn[v]) \in Nat
      /\ lastSeenVms # Null => lastSeenVms[v] \in 1..Len(cn[v])
    BY TimesTyped
<1>2. \A i \in 1..Len(cn[v]) : cn'[v][i] = cn[v][i]
    BY FileSteps, NewVersion, DirMeans DEF FilesSame
<1>3. SUFFICES ASSUME seen # Null
               PROVE  \/ Due(v)' \/ noticed'[v] <= seen[v]
                      \/ lastSeenVms' # Null /\ ~cn'[v][lastSeenVms'[v]].exists /\ cn'[v][seen[v]].exists
    OBVIOUS
<1>4. seen[v] \in 1..Len(cn[v])
    BY <1>3
<1>5. CASE noticed[v] <= seen[v]
    <2>1. CASE XmlWritten(v)
        BY <2>1, XmlMeans DEF Watching, Due
    <2>2. CASE ConfigWritten(v)
        <3>1. /\ UNCHANGED <<xml, lastSeenVms>> /\ config'[v] = Len(cn'[v]) /\ Len(cn'[v]) = Len(cn[v]) + 1
              /\ \/ noticed'[v] = noticed[v]
                 \/ v \in configEvents' /\ lastSeenVms # Null /\ noticed'[v] = config'[v]
              /\ xml[v] \in 1..Len(cn[v])
            BY <2>2, ConfigMeans, NewVersion, TimesTyped DEF passVars
        <3>2. CASE noticed'[v] = noticed[v]
            BY <1>5, <3>2
        <3>3. CASE noticed'[v] # noticed[v]
            <4>1. xml'[v] < noticed'[v] /\ noticed'[v] <= config'[v]
                BY <1>1, <3>1, <3>3
            <4> QED
                BY <3>1, <3>3, <4>1 DEF Due, ConfigPending
        <3> QED
            BY <3>2, <3>3
    <2>3. CASE DirRemoved(v)
        <3>1. noticed'[v] = 0 \/ noticed'[v] = noticed[v]
            BY <2>3, DirMeans
        <3> QED
            BY <1>4, <1>5, <3>1
    <2>4. CASE FilesSame(v)
        BY <1>5, <2>4 DEF FilesSame
    <2> QED
        BY <2>1, <2>2, <2>3, <2>4, FileSteps
<1>6. CASE lastSeenVms # Null /\ ~cn[v][lastSeenVms[v]].exists /\ cn[v][seen[v]].exists
    <2>1. lastSeenVms' # Null /\ lastSeenVms'[v] = lastSeenVms[v]
        <3>1. CASE lastSeenVms' = lastSeenVms
            BY <1>6, <3>1
        <3>2. ASSUME NEW w \in VM, OnConfigChange(w)
              PROVE  lastSeenVms' # Null /\ lastSeenVms'[v] = lastSeenVms[v]
            BY <1>6, <3>2, ConfigTells
        <3> QED
            BY <3>1, <3>2, BetweenSeen
    <2> QED
        BY <1>1, <1>2, <1>4, <1>6, <2>1
<1> QED
    BY <1>3, <1>5, <1>6 DEF PassTells

LEMMA NoticedDueStays ==
    ASSUME FsInv, Watching, Alone, Versions(told), [Next]_vars, NEW v \in VM, FilesOf(v), NoticedOf(v),
           TellsOf(v), FirstTold(v), XmlScanned(v), NoticedDue(v)
    PROVE  NoticedDue(v)'
<1>1. CASE started' = FALSE \/ (isDirty' = TRUE /\ passes' # <<>>)
    BY <1>1 DEF NoticedDue, Due
<1>2. CASE Fresh(passes') /\ (passes' # <<>> \/ clean' = FALSE)
    BY <1>2 DEF NoticedDue, Fresh, PassTells
<1>3. ASSUME NEW p \in 1..MaxPasses, Scan(p) PROVE NoticedDue(v)'
    <2>1. noticed[v] <= Visible(v)
        BY ScanSees
    <2>2. /\ passes' # <<>> /\ DOMAIN passes' = DOMAIN passes
          /\ \A q \in DOMAIN passes :
                 /\ passes'[q].alone = passes[q].alone
                 /\ passes'[q] = passes[q] \/ passes'[q].seen[v] = Visible(v)
          /\ UNCHANGED <<watcherVars, fileVars, watchVars, isDirty, lastSeenVms, ownerVars, ghosts>>
        BY <1>3, ScanMeans
    <2>3. /\ UNCHANGED <<started, looked, noticed, lastSeenVms, cn>>
          /\ Due(v) => Due(v)'
        BY <2>2 DEF watcherVars, fileVars, watchVars, ownerVars, ghosts, Due, ConfigPending, TakenForDeleted, Last
    <2> SUFFICES ASSUME started', looked', NEW q \in DOMAIN passes', passes'[q].alone
                 PROVE  PassTells(v, passes[q].seen)' \/ Due(v)'
        BY <2>2 DEF NoticedDue
    <2>4. PassTells(v, passes[q].seen) \/ Due(v)
        BY <2>2, <2>3 DEF NoticedDue
    <2>5. CASE passes'[q] = passes[q]
        BY <2>3, <2>4, <2>5 DEF PassTells
    <2>6. CASE passes'[q].seen[v] = Visible(v)
        BY <2>1, <2>3, <2>6 DEF PassTells
    <2> QED
        BY <2>2, <2>5, <2>6
<1>4. ASSUME NEW p \in DOMAIN passes, EndPass(p), passes[p].alone, ~isDirty, passes' = <<>>
      PROVE  NoticedDue(v)'
    <2>1. UNCHANGED <<started, looked>>
        BY <1>4 DEF EndPass, ownerVars
    <2>2. started /\ looked => Due(v)'
        BY <1>4, EndDue
    <2> QED
        BY <1>4, <2>1, <2>2 DEF NoticedDue
<1>5. CASE Between
    <2>1. UNCHANGED <<passes, clean, started>>
        BY <1>5, BetweenSteps
    <2> SUFFICES ASSUME started, started', looked'
                 PROVE  /\ \A p \in DOMAIN passes' : passes'[p].alone => PassTells(v, passes[p].seen)' \/ Due(v)'
                        /\ clean' /\ passes' = <<>> => Due(v)'
        BY <2>1 DEF NoticedDue
    <2>2. CASE ~looked
        <3>1. told'[v] = Len(cn[v])
            BY <2>2, OwnerSteps
        <3>2. CASE XmlWritten(v) \/ ConfigWritten(v) \/ DirRemoved(v)
            <4>1. looked' = looked
                BY <3>2, XmlMeans, ConfigMeans, DirMeans DEF ownerVars
            <4> QED
                BY <2>2, <4>1
        <3>3. CASE FilesSame(v)
            <4>1. noticed'[v] = noticed[v] /\ noticed[v] <= Len(cn[v])
                BY <3>3, TimesTyped DEF FilesSame, NoticedOf
            <4> QED
                BY <3>1, <4>1 DEF Due, KnowsOf
        <3> QED
            BY <3>2, <3>3, FileSteps
    <2>3. CASE looked
        <3>1. ASSUME Due(v)
              PROVE  \/ Due(v)'
                     \/ OnConfigChange(v) /\ ConfigPending(v) /\ ~cn[v][lastSeenVms[v]].exists
                                          /\ lastSeenVms' = lastSeenVms
            BY <1>5, <2>3, <3>1, DueStays
        <3>2. ASSUME clean', passes' = <<>> PROVE Due(v)'
            <4>1. Due(v)
                BY <2>1, <2>3, <3>2 DEF NoticedDue
            <4>2. ASSUME OnConfigChange(v), ConfigPending(v), ~cn[v][lastSeenVms[v]].exists PROVE Due(v)'
                <5>1. xml[v] <= lastSeenVms[v] \/ zonesEvent
                    BY <2>1, <3>2 DEF XmlScanned
                <5>2. lastSeenVms[v] \in 1..Len(cn[v])
                    BY <4>2, TimesTyped DEF ConfigPending
                <5>3. ~(xml[v] <= lastSeenVms[v])
                    BY <4>2, <5>2, PendingIsThere
                <5>4. zonesEvent'
                    BY <1>5, <5>1, <5>3, BetweenSteps DEF Watching
                <5> QED
                    BY <5>4 DEF Due
            <4> QED
                BY <3>1, <4>1, <4>2
        <3>3. ASSUME NEW p \in DOMAIN passes, passes[p].alone
              PROVE  \/ Due(v)'
                     \/ passes[p].seen = Null \/ noticed'[v] <= passes[p].seen[v]
                     \/ lastSeenVms' # Null /\ ~cn'[v][lastSeenVms'[v]].exists /\ cn'[v][passes[p].seen[v]].exists
            <4> DEFINE seen == passes[p].seen
            <4>1. seen # Null => Versions(seen)
                BY ScannedVersions DEF FsInv, PassesInv
            <4>2. seen # Null => seen[v] \in 1..Len(cn[v])
                BY <4>1, TimesTyped DEF Versions
            <4>3. PassTells(v, seen) \/ Due(v)
                BY <2>3, <3>3 DEF NoticedDue
            <4>4. seen # Null => xml[v] <= seen[v] \/ zonesEvent \/ isDirty
                BY <3>3 DEF XmlScanned
            <4>5. (zonesEvent \/ isDirty) => Due(v)'
                BY <1>5, BetweenSteps DEF Watching, Due
            <4> HIDE DEF seen
            <4>6. ASSUME OnConfigChange(v), ConfigPending(v), ~cn[v][lastSeenVms[v]].exists,
                         lastSeenVms' = lastSeenVms, seen # Null, ~Due(v)'
                  PROVE  lastSeenVms' # Null /\ ~cn'[v][lastSeenVms'[v]].exists /\ cn'[v][seen[v]].exists
                <5>1. xml[v] <= seen[v]
                    BY <4>4, <4>5, <4>6
                <5>2. cn[v][seen[v]].exists
                    BY <4>2, <4>6, <5>1, PendingIsThere
                <5>3. cn' = cn /\ lastSeenVms # Null
                    BY <4>6 DEF OnConfigChange, ConfigPending
                <5> QED
                    BY <4>6, <5>2, <5>3
            <4>7. \/ Due(v)' \/ seen = Null \/ noticed'[v] <= seen[v]
                  \/ lastSeenVms' # Null /\ ~cn'[v][lastSeenVms'[v]].exists /\ cn'[v][seen[v]].exists
                <5>1. CASE PassTells(v, seen)
                    BY <1>5, <2>3, <4>2, <5>1, PassTellsStays
                <5>2. CASE Due(v)
                    BY <3>1, <4>6, <5>2
                <5> QED
                    BY <4>3, <5>1, <5>2
            <4> QED
                BY <4>7 DEF seen
        <3>4. ASSUME NEW p \in DOMAIN passes', passes'[p].alone
              PROVE  PassTells(v, passes[p].seen)' \/ Due(v)'
            BY <2>1, <3>3, <3>4 DEF PassTells
        <3> QED
            BY <3>2, <3>4
    <2> QED
        BY <2>2, <2>3
<1> QED
    BY <1>1, <1>2, <1>3, <1>4, <1>5, PassSteps

-----------------------------------------------------------------------------
(***************************************************************************)
(* The inductive invariant of NoticedIsTold.                               *)
(***************************************************************************)
AllOf(v) ==
    FilesOf(v) /\ NoticedOf(v) /\ TellsOf(v) /\ FirstTold(v) /\ XmlScanned(v) /\ NoticedDue(v)

ToldInv ==
    /\ FsInv /\ HistoryInv /\ Versions(told) /\ Watching /\ Alone
    /\ \A v \in VM : AllOf(v)

LEMMA ToldInvInit == Init => ToldInv
<1> SUFFICES ASSUME Init PROVE ToldInv
    OBVIOUS
<1>1. FsInv /\ HistoryInv /\ Versions(told)
    BY FsInit, HistoryInit, ToldInit DEF Init
<1>2. Watching /\ Alone
    BY DEF Init, Watching, Alone
<1>3. ASSUME NEW v \in VM PROVE AllOf(v)
    <2>1. /\ xml[v] = 1 /\ config[v] = 0 /\ noticed[v] = 0 /\ firstScan[v] = 0 /\ lastSeenVms[v] = 0
          /\ started = FALSE /\ v \notin dead
        BY DEF Init, Null
    <2>2. Len(cn[v]) = 1
        BY DEF Init, VmWatcherInit
    <2>3. knownVms[v] = NoEntry
        BY DEF Init, VmWatcherInit
    <2>4. FilesOf(v)
        BY <2>1, <2>2 DEF FilesOf, Ordered, XmlLast, ConfigThere
    <2>5. NoticedOf(v)
        BY <2>1 DEF NoticedOf
    <2>6. TellsOf(v)
        BY <2>1, <2>3 DEF TellsOf, Tells, DestroyedTold, KnownTold, SeenTold, GoneTold, NoEntry
    <2>7. FirstTold(v) /\ XmlScanned(v) /\ NoticedDue(v)
        BY <2>1 DEF FirstTold, XmlScanned, NoticedDue
    <2> QED
        BY <2>4, <2>5, <2>6, <2>7 DEF AllOf
<1> QED
    BY <1>1, <1>2, <1>3 DEF ToldInv

LEMMA ToldInvStep == ToldInv /\ [Next]_vars => ToldInv'
<1> SUFFICES ASSUME ToldInv, [Next]_vars PROVE ToldInv'
    OBVIOUS
<1>1. FsInv /\ HistoryInv /\ Versions(told) /\ Watching /\ Alone
    BY DEF ToldInv
<1>2. UNCHANGED cn \/ \E v \in VM : CnChange(v)
    BY DEF Next, Files, XmlWritten, ConfigWritten, CnChange, DirRemoved, DirCreated, ZonesTouched,
           EmitImmediately, Stop, AgentLooks, ListenerLooks, Start, RetryStartup, StartBody, OnZoneEvent,
           Scan, FailPass, EndPass, OnConfigChange, OnWatcherError, OnConfigRenamed, Unwatched,
           TryWatching, TimeOut, vars, watcherVars
<1>3. FsInv'
    BY <1>1, FsStep
<1>4. HistoryInv'
    BY <1>1, <1>2, HistoryStays DEF FsInv
<1>5. Versions(told)'
    <2>1. \/ \E v \in VM : CnChange(v) /\ UNCHANGED told
          \/ UNCHANGED <<cn, told>>
          \/ \E v \in VM : EmitImmediately(v)
          \/ ListenerLooks
        BY DEF Next, Files, XmlWritten, ConfigWritten, CnChange, DirRemoved, DirCreated, ZonesTouched,
               Stop, AgentLooks, Start, RetryStartup, StartBody, OnZoneEvent,
               Scan, FailPass, EndPass, OnConfigChange, OnWatcherError, OnConfigRenamed, Unwatched,
               TryWatching, TimeOut, vars, watcherVars
    <2> QED
        BY <1>1, <2>1, ToldStays DEF FsInv
<1>6. Watching' /\ Alone'
    BY <1>1, WatchingStays, AloneStays
<1>7. ASSUME NEW v \in VM PROVE AllOf(v)'
    <2>1. /\ FilesOf(v) /\ NoticedOf(v) /\ TellsOf(v) /\ FirstTold(v) /\ XmlScanned(v) /\ NoticedDue(v)
        BY DEF ToldInv, AllOf
    <2>2. FilesOf(v)'
        BY <1>1, <2>1, FilesOfStay
    <2>3. NoticedOf(v)'
        BY <1>1, <2>1, NoticedOfStays
    <2>4. TellsOf(v)'
        BY <1>1, <2>1, TellsOfStays
    <2>5. FirstTold(v)'
        BY <1>1, <2>1, FirstTolds
    <2>6. XmlScanned(v)'
        BY <1>1, <2>1, XmlScannedStays
    <2>7. NoticedDue(v)'
        BY <1>1, <2>1, NoticedDueStays
    <2> QED
        BY <2>2, <2>3, <2>4, <2>5, <2>6, <2>7 DEF AllOf
<1> QED
    BY <1>3, <1>4, <1>5, <1>6, <1>7 DEF ToldInv

\* Of what is due nothing is under way when all is quiet.
LEMMA DueIsTold ==
    ASSUME FsInv, NEW v \in VM, Due(v), Quiet(v), ~TakenForDeleted(v), v \notin overlooked
    PROVE  ToldOfNoticed(v)
<1>1. ~isDirty
    BY DEF Quiet, FsInv, PassesInv
<1>2. KnowsOf(cn[v], told[v], firstScan[v], noticed[v])
    BY <1>1 DEF Due, Quiet, ConfigPending
<1>3. told[v] \in Nat /\ firstScan[v] \in Nat /\ noticed[v] \in Nat /\ Len(cn[v]) \in Nat
    BY TimesTyped
<1> DEFINE then == Larger(told[v], firstScan[v])
<1>4. /\ then \in Nat /\ told[v] <= then /\ firstScan[v] <= then
    BY <1>3 DEF Larger
<1> HIDE DEF then
<1>5. CASE noticed[v] <= told[v] \/ noticed[v] <= firstScan[v]
    <2>1. then >= noticed[v]
        BY <1>3, <1>4, <1>5
    <2> QED
        BY <2>1 DEF ToldOfNoticed, then
<1>6. ASSUME NEW i \in 1..Len(cn[v]), i <= told[v] \/ i <= firstScan[v], LooksLike(cn[v][i], cn[v][noticed[v]])
      PROVE  ToldOfNoticed(v)
    <2>1. i \in 1..then
        BY <1>3, <1>4, <1>6
    <2> QED
        BY <1>6, <2>1 DEF ToldOfNoticed, then
<1> QED
    BY <1>2, <1>5, <1>6 DEF KnowsOf

\* When nothing is under way and the last pass was neither disturbed nor failed, the
\* listener knows of every change that raised an event, whatever came in while the passes
\* ran (fs-watcher.js:405-410, 525-535, 545-554); except of a VM whose creation only
\* updated an entry it had still (vm-watcher.js:252-259).
THEOREM NoticedTold == Spec => []NoticedIsTold
<1>1. Init => ToldInv
    BY ToldInvInit
<1>2. ToldInv /\ [Next]_vars => ToldInv'
    BY ToldInvStep
<1>3. ToldInv => NoticedIsTold
    <2> SUFFICES ASSUME ToldInv, NEW v \in VM, started, looked, clean, Quiet(v),
                        ~TakenForDeleted(v), v \notin overlooked
                 PROVE  ToldOfNoticed(v)
        BY DEF NoticedIsTold
    <2>1. passes = <<>>
        BY DEF Quiet
    <2>2. Due(v)
        BY <2>1 DEF ToldInv, AllOf, NoticedDue
    <2> QED
        BY <2>2, DueIsTold DEF ToldInv
<1> QED
    BY <1>1, <1>2, <1>3, PTL DEF Spec

=============================================================================

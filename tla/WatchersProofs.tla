--------------------------- MODULE WatchersProofs ---------------------------
(***************************************************************************)
(* The proof that any mix of watchers behind one VmWatcher tells of every  *)
(* change of a VM that is steady, whatever their order and their lapses.   *)
(***************************************************************************)
EXTENDS Watchers, VmWatcherProofs

\* A VM has a state that lasts at first, and its quota never goes back.
QuotaInv ==
    \A v \in VM :
        /\ cn[v][1].state # "provisioning"
        /\ \A i \in 1..Len(cn[v]) : cn[v][i].quota < i
        /\ \A i, j \in 1..Len(cn[v]) : i <= j => cn[v][i].quota <= cn[v][j].quota

ViewsInv ==
    /\ view \in [Watcher -> [VM -> 0..MaxVer]] /\ first \in [Watcher -> [VM -> 0..MaxVer]]
    /\ \A w \in Watcher : view[w] # Unseen => Versions(view[w]) /\ Versions(first[w])

\* The fields of an entry of knownVms were reported of some of the first n versions: the
\* time by FsWatcher, to the millisecond, or by vmadm.
FieldsFrom(h, k, n) ==
    LET y == k.fields
    IN  /\ ~k.destroyed
        /\ Has(y, "last_modified") =>
              \E r \in 1..n : y["last_modified"] \in {h[r].last_modified, Seconds(h[r].last_modified)}
        /\ Has(y, "quota") => \E r \in 1..n : y["quota"] = h[r].quota
        /\ \A f \in {"state", "zone_state"} : Has(y, f) => y[f] = VmadmView(h[1])[f]

\* What is known of a VM the listener is told of, or is going to be.
KnownTold(v) == FieldsFrom(cn[v], knownVms[v], IF v \in emits THEN Len(cn[v]) ELSE told[v])

\* The listener, or a first look, saw the VM like each watcher sees it.
SeenTold(v) ==
    v \notin emits => \A w \in Watcher : view[w] # Unseen =>
        \E i \in 1..Len(cn[v]) : /\ i <= told[v] \/ i <= first[w][v]
                                 /\ LooksLike(w, cn[v][i], cn[v][view[w][v]])

\* The deletion of a VM, which is its last change, is told once it was seen.
DeletionTold(v) ==
    v \notin emits =>
        /\ knownVms[v].destroyed => told[v] = Len(cn[v])
        /\ \A w \in Watcher \ {"zoneevent"} :
              view[w][v] = Len(cn[v]) => told[v] = Len(cn[v]) \/ first[w][v] = Len(cn[v])

OfSteady(v) == IF Last(v).exists THEN KnownTold(v) /\ SeenTold(v) ELSE DeletionTold(v)

\* The inductive invariant of NoSilentChange.
SilentInv ==
    /\ WatcherInv /\ Versions(told) /\ HistoryInv /\ QuotaInv /\ ViewsInv
    /\ \A v \in VM : Steady(v) => OfSteady(v)

-----------------------------------------------------------------------------
(***************************************************************************)
(* The VMs, and what the watchers saw of them.                             *)
(***************************************************************************)
LEMMA WatcherNames == Watcher \subseteq {"fs", "zoneevent", "periodic", "vmadm"}
BY WatcherAssumption

LEMMA SteadyTyped ==
    ASSUME SilentInv, NEW v \in VM
    PROVE  /\ Len(cn[v]) \in Nat /\ Len(cn[v]) >= 1 /\ Last(v) = cn[v][Len(cn[v])]
           /\ told[v] \in Nat /\ told[v] >= 1 /\ told[v] <= Len(cn[v])
           /\ \A i \in 1..Len(cn[v]) : /\ cn[v][i] \in VmState /\ cn[v][i].exists \in BOOLEAN
                                       /\ cn[v][i].last_modified \in Nat /\ cn[v][i].quota \in Nat
           /\ History(cn[v])
<1>1. WatcherInv /\ Versions(told) /\ History(cn[v])
    BY DEF SilentInv, HistoryInv
<1>2. cn[v] \in Seq(VmState) /\ Len(cn[v]) \in 1..MaxVer
    BY <1>1 DEF WatcherInv
<1>3. told[v] \in 1..MaxVer /\ told[v] <= Len(cn[v])
    BY <1>1 DEF Versions
<1>4. \A i \in 1..Len(cn[v]) : cn[v][i] \in VmState
    BY <1>2
<1>5. \A o \in VmState : o.exists \in BOOLEAN /\ o.last_modified \in Nat /\ o.quota \in Nat
    BY Bounds DEF VmState
<1> QED
    BY <1>1, <1>2, <1>3, <1>4, <1>5, Bounds DEF Last

LEMMA ViewBounds ==
    ASSUME SilentInv, NEW w \in Watcher, view[w] # Unseen, NEW v \in VM
    PROVE  /\ view[w][v] \in 1..Len(cn[v]) /\ first[w][v] \in 1..Len(cn[v])
           /\ view[w][v] \in Nat /\ first[w][v] \in Nat
<1>1. Versions(view[w]) /\ Versions(first[w])
    BY DEF SilentInv, ViewsInv
<1> QED
    BY <1>1, Bounds, SteadyTyped DEF Versions

\* A steady VM that is there was there all the time, and of a constant state.
LEMMA SteadyThere ==
    ASSUME SilentInv, NEW v \in VM, Steady(v), Last(v).exists, NEW i \in 1..Len(cn[v])
    PROVE  cn[v][i].exists /\ cn[v][i].state = cn[v][1].state /\ cn[v][1].state # "provisioning"
<1>1. Len(cn[v]) \in Nat /\ Last(v) = cn[v][Len(cn[v])]
    BY SteadyTyped
<1>2. i < Len(cn[v]) \/ i = Len(cn[v])
    BY <1>1
<1> QED
    BY <1>1, <1>2 DEF Steady, SilentInv, QuotaInv

\* What a watcher can tell apart in the history of such a VM.
LEMMA LooksOfSteady ==
    ASSUME SilentInv, NEW v \in VM, Steady(v), Last(v).exists, NEW w \in Watcher,
           NEW i \in 1..Len(cn[v]), NEW j \in 1..Len(cn[v])
    PROVE  LooksLike(w, cn[v][i], cn[v][j]) <=>
              /\ w = "fs" => cn[v][i].last_modified = cn[v][j].last_modified
              /\ w \in {"periodic", "vmadm"} =>
                    /\ Seconds(cn[v][i].last_modified) = Seconds(cn[v][j].last_modified)
                    /\ cn[v][i].quota = cn[v][j].quota
<1> DEFINE o == cn[v][i]
<1> DEFINE p == cn[v][j]
<1>1. o.exists /\ p.exists /\ o.state = p.state
    BY SteadyThere
<1> HIDE DEF o, p
<1>2. CASE w = "fs"
    BY <1>1, <1>2 DEF LooksLike, Seen, FsView, o, p
<1>3. CASE w = "zoneevent"
    <2>1. ZoneView(o) = ZoneView(p)
        BY <1>1 DEF ZoneView, ZoneRunning
    <2> QED
        BY <1>1, <1>3, <2>1 DEF LooksLike, Seen, o, p
<1>4. CASE w \in {"periodic", "vmadm"}
    <2>1. VmadmView(o) = VmadmView(p) <=>
            Seconds(o.last_modified) = Seconds(p.last_modified) /\ o.quota = p.quota
        BY <1>1 DEF VmadmView, ZoneRunning
    <2>2. LooksLike(w, o, p) <=> VmadmView(o) = VmadmView(p)
        BY <1>1, <1>4 DEF LooksLike, Seen
    <2> QED
        BY <1>4, <2>1, <2>2 DEF o, p
<1> QED
    BY <1>2, <1>3, <1>4, WatcherNames

\* What looks alike at two times looked so all the time in between.
LEMMA LooksBetween ==
    ASSUME SilentInv, NEW v \in VM, Steady(v), Last(v).exists, NEW w \in Watcher,
           NEW i \in 1..Len(cn[v]), NEW m \in 1..Len(cn[v]), NEW j \in 1..Len(cn[v]),
           i <= m, m <= j, LooksLike(w, cn[v][i], cn[v][j])
    PROVE  LooksLike(w, cn[v][m], cn[v][j])
<1> DEFINE a == cn[v][i]
<1> DEFINE b == cn[v][m]
<1> DEFINE c == cn[v][j]
<1>1. /\ a.last_modified \in Nat /\ b.last_modified \in Nat /\ c.last_modified \in Nat
      /\ a.quota \in Nat /\ b.quota \in Nat /\ c.quota \in Nat
      /\ a.last_modified <= b.last_modified /\ b.last_modified <= c.last_modified
    BY SteadyTyped DEF History
<1>2. a.quota <= b.quota /\ b.quota <= c.quota
    BY DEF SilentInv, QuotaInv
<1>3. /\ Seconds(a.last_modified) <= Seconds(b.last_modified) /\ Seconds(b.last_modified) <= Seconds(c.last_modified)
      /\ Seconds(a.last_modified) \in Nat /\ Seconds(b.last_modified) \in Nat /\ Seconds(c.last_modified) \in Nat
    BY <1>1, SecondsMonotonic, SecondsBounds
<1>4. /\ w = "fs" => a.last_modified = c.last_modified
      /\ w \in {"periodic", "vmadm"} =>
            Seconds(a.last_modified) = Seconds(c.last_modified) /\ a.quota = c.quota
    BY LooksOfSteady
<1> HIDE DEF a, b, c
<1>5. /\ w = "fs" => b.last_modified = c.last_modified
      /\ w \in {"periodic", "vmadm"} =>
            Seconds(b.last_modified) = Seconds(c.last_modified) /\ b.quota = c.quota
    BY <1>1, <1>2, <1>3, <1>4
<1> QED
    BY <1>5, LooksOfSteady DEF b, c

-----------------------------------------------------------------------------
(***************************************************************************)
(* What knownVms makes of a report of a steady VM that is there.           *)
(***************************************************************************)
LEMMA SeenOfSteady ==
    ASSUME SilentInv, NEW v \in VM, Steady(v), Last(v).exists,
           NEW w \in Watcher, w # "zoneevent", NEW j \in 1..Len(cn[v])
    PROVE  LET z == Seen(w, cn[v][j])
               t == cn[v][j].last_modified
           IN  /\ "last_modified" \in DOMAIN z /\ z["last_modified"] \in {t, Seconds(t)}
               /\ w = "fs" => z["last_modified"] = t
               /\ w # "fs" => z["last_modified"] = Seconds(t) /\ DOMAIN z = Fields
               /\ "quota" \in DOMAIN z => z["quota"] = cn[v][j].quota
               /\ \A f \in {"state", "zone_state"} : f \in DOMAIN z => z[f] = VmadmView(cn[v][1])[f]
               /\ t <= Rounded(z["last_modified"])
<1> DEFINE o == cn[v][j]
<1> DEFINE p == cn[v][1]
<1>1. o.last_modified \in Nat /\ 1 \in 1..Len(cn[v])
    BY SteadyTyped
<1>2. o.exists /\ p.exists /\ o.state = p.state
    BY <1>1, SteadyThere
<1>3. o.last_modified <= Rounded(o.last_modified) /\ o.last_modified <= Rounded(Seconds(o.last_modified))
    BY <1>1, SecondsAgain
<1> HIDE DEF o, p
<1>4. CASE w = "fs"
    BY <1>3, <1>4 DEF Seen, FsView, o
<1>5. CASE w \in {"periodic", "vmadm"}
    <2>1. Seen(w, o) = VmadmView(o)
        BY <1>5 DEF Seen
    <2>2. /\ DOMAIN VmadmView(o) = Fields /\ VmadmView(o)["last_modified"] = Seconds(o.last_modified)
          /\ VmadmView(o)["quota"] = o.quota /\ "last_modified" \in Fields
          /\ \A f \in {"state", "zone_state"} : VmadmView(o)[f] = VmadmView(p)[f]
        BY <1>2 DEF VmadmView, Fields, ZoneRunning
    <2> QED
        BY <1>3, <1>5, <2>1, <2>2 DEF o, p
<1> QED
    BY <1>4, <1>5, WatcherNames

LEMMA FieldsOfMore ==
    ASSUME NEW h, NEW k, NEW n \in Nat, NEW m \in Nat, n <= m, FieldsFrom(h, k, n)
    PROVE  FieldsFrom(h, k, m)
<1>1. \A r \in 1..n : r \in 1..m
    OBVIOUS
<1> QED
    BY <1>1 DEF FieldsFrom

\* What is taken over of a report is of the version it shows.
LEMMA FieldsOfUpdate ==
    ASSUME SilentInv, NEW v \in VM, Steady(v), Last(v).exists,
           NEW w \in Watcher, w # "zoneevent", NEW j \in 1..Len(cn[v]),
           NEW k, FieldsFrom(cn[v], k, Len(cn[v]))
    PROVE  FieldsFrom(cn[v], Entry(UpdateIfNewer(k.fields, Seen(w, cn[v][j]))), Len(cn[v]))
<1> DEFINE y == k.fields
<1> DEFINE z == Seen(w, cn[v][j])
<1> DEFINE u == UpdateIfNewer(y, z)
<1>1. /\ z["last_modified"] \in {cn[v][j].last_modified, Seconds(cn[v][j].last_modified)}
      /\ "quota" \in DOMAIN z => z["quota"] = cn[v][j].quota
      /\ \A f \in {"state", "zone_state"} : f \in DOMAIN z => z[f] = VmadmView(cn[v][1])[f]
    BY SeenOfSteady
<1> HIDE DEF z
<1>2. \A f \in DOMAIN u : (f \in DOMAIN y /\ u[f] = y[f]) \/ (f \in DOMAIN z /\ u[f] = z[f])
    BY DEF UpdateIfNewer, Updated
<1>3. Entry(u).fields = u /\ ~Entry(u).destroyed
    BY DEF Entry
<1> HIDE DEF u
<1> USE DEF Has
<1>4. Has(u, "last_modified") =>
        \E r \in 1..Len(cn[v]) : u["last_modified"] \in {cn[v][r].last_modified, Seconds(cn[v][r].last_modified)}
    BY <1>1, <1>2 DEF FieldsFrom
<1>5. Has(u, "quota") => \E r \in 1..Len(cn[v]) : u["quota"] = cn[v][r].quota
    BY <1>1, <1>2 DEF FieldsFrom
<1>6. \A f \in {"state", "zone_state"} : Has(u, f) => u[f] = VmadmView(cn[v][1])[f]
    BY <1>1, <1>2 DEF FieldsFrom
<1>7. FieldsFrom(cn[v], Entry(u), Len(cn[v]))
    BY <1>3, <1>4, <1>5, <1>6 DEF FieldsFrom
<1> QED
    BY <1>7 DEF u, z

\* What is no news looks like one of the versions that what is known is from.
LEMMA NoNewsOfSteady ==
    ASSUME SilentInv, NEW v \in VM, Steady(v), Last(v).exists,
           NEW w \in Watcher, w # "zoneevent", NEW j \in 1..Len(cn[v]), NEW n \in 1..Len(cn[v]),
           NEW k, FieldsFrom(cn[v], k, n), Updated(k.fields, Seen(w, cn[v][j])) = {}
    PROVE  \E i \in 1..n : LooksLike(w, cn[v][i], cn[v][j])
<1> DEFINE y == k.fields
<1> DEFINE z == Seen(w, cn[v][j])
<1> DEFINE t == [i \in 1..Len(cn[v]) |-> cn[v][i].last_modified]
<1>1. /\ "last_modified" \in DOMAIN z /\ z["last_modified"] \in {t[j], Seconds(t[j])}
      /\ w = "fs" => z["last_modified"] = t[j]
      /\ w # "fs" => z["last_modified"] = Seconds(t[j]) /\ DOMAIN z = Fields
      /\ "quota" \in DOMAIN z => z["quota"] = cn[v][j].quota
      /\ t[j] <= Rounded(z["last_modified"])
    BY SeenOfSteady
<1>2. Len(cn[v]) \in Nat /\ j \in Nat /\ n \in Nat /\ n <= Len(cn[v])
    BY SteadyTyped
<1>3. /\ \A i \in 1..Len(cn[v]) : t[i] \in Nat /\ cn[v][i].quota \in Nat
      /\ \A i, m \in 1..Len(cn[v]) : i <= m => t[i] <= t[m] /\ cn[v][i].quota <= cn[v][m].quota
    BY SteadyTyped DEF History, SilentInv, QuotaInv
<1>4. \A i \in 1..n : i \in 1..Len(cn[v])
    BY <1>2
<1>5. ASSUME j <= n PROVE \E i \in 1..n : LooksLike(w, cn[v][i], cn[v][j])
    BY <1>2, <1>5, LooksOfSteady
<1>6. \A f \in DOMAIN z : Refused(y, z) \/ (Has(y, f) /\ y[f] = z[f])
    BY DEF Updated
<1>7. Has(y, "last_modified") =>
        \E r \in 1..n : y["last_modified"] \in {t[r], Seconds(t[r])}
    BY <1>4 DEF FieldsFrom
<1>8. Has(y, "last_modified")
    BY <1>1, <1>6 DEF Refused
<1>9. PICK r \in 1..n : y["last_modified"] \in {t[r], Seconds(t[r])}
    BY <1>7, <1>8
<1>10. /\ r \in 1..Len(cn[v]) /\ t[r] \in Nat /\ t[j] \in Nat
       /\ Seconds(t[r]) \in Nat /\ Seconds(t[r]) <= t[r] /\ Seconds(t[j]) \in Nat /\ Seconds(t[j]) <= t[j]
       /\ Seconds(Seconds(t[r])) = Seconds(t[r]) /\ Seconds(Seconds(t[j])) = Seconds(t[j])
    BY <1>3, <1>4, <1>9, SecondsBounds, SecondsAgain
<1>14. r \in Nat /\ r <= n /\ (j > n => t[r] <= t[j])
    <2>1. r \in Nat /\ r <= n
        BY <1>2, <1>9
    <2>2. j > n => r <= j
        BY <1>2, <2>1
    <2> QED
        BY <1>3, <1>10, <2>1, <2>2
<1> HIDE DEF z, t
<1>11. CASE Refused(y, z)
    <2>1. y["last_modified"] > Rounded(z["last_modified"])
        BY <1>11 DEF Refused
    <2>2. Rounded(z["last_modified"]) \in Nat
        BY <1>1, <1>10, Bounds DEF Rounded
    <2>3. t[r] > t[j]
        BY <1>1, <1>9, <1>10, <2>1, <2>2
    <2>4. j <= n
        BY <1>2, <1>10, <1>14, <2>3
    <2> QED
        BY <1>5, <2>4
<1>12. CASE ~Refused(y, z) /\ w = "fs" /\ j > n
    <2>1. y["last_modified"] = t[j]
        BY <1>1, <1>6, <1>12
    <2>2. t[j] <= t[r] /\ t[r] <= t[j]
        BY <1>9, <1>10, <1>12, <1>14, <2>1
    <2>3. cn[v][r].last_modified = cn[v][j].last_modified
        BY <1>10, <2>2 DEF t
    <2> QED
        BY <1>9, <1>10, <1>12, <2>3, LooksOfSteady
<1>13. CASE ~Refused(y, z) /\ w # "fs" /\ j > n
    <2>1. y["last_modified"] = Seconds(t[j]) /\ Has(y, "quota") /\ y["quota"] = cn[v][j].quota
        BY <1>1, <1>6, <1>13 DEF Fields
    <2>2. PICK q \in 1..n : y["quota"] = cn[v][q].quota
        BY <2>1 DEF FieldsFrom
    <2>3. Seconds(t[r]) = Seconds(t[j])
        BY <1>9, <1>10, <2>1
    <2>4. PICK m \in 1..n : r <= m /\ q <= m
        <3>1. q \in Nat
            BY <1>2, <2>2
        <3>2. (r <= q /\ q <= q) \/ (r <= r /\ q <= r)
            BY <1>14, <3>1
        <3> QED
            BY <1>9, <2>2, <3>2
    <2>5. m \in 1..Len(cn[v]) /\ q \in 1..Len(cn[v]) /\ m <= j
        BY <1>2, <1>4, <1>13, <2>2, <2>4
    <2>6. t[r] <= t[m] /\ t[m] <= t[j] /\ t[m] \in Nat
        BY <1>3, <1>10, <2>4, <2>5
    <2>7. Seconds(t[r]) <= Seconds(t[m]) /\ Seconds(t[m]) <= Seconds(t[j]) /\ Seconds(t[m]) \in Nat
        BY <1>10, <2>6, SecondsMonotonic, SecondsBounds
    <2>8. Seconds(t[m]) = Seconds(t[j])
        BY <1>10, <2>3, <2>7
    <2>9. cn[v][m].quota = cn[v][j].quota
        <3>1. cn[v][q].quota <= cn[v][m].quota /\ cn[v][m].quota <= cn[v][j].quota
            BY <1>3, <2>4, <2>5
        <3>2. cn[v][q].quota = cn[v][j].quota
            BY <2>1, <2>2
        <3>3. cn[v][j].quota \in Nat /\ cn[v][m].quota \in Nat
            BY <1>3, <2>5
        <3> QED
            BY <3>1, <3>2, <3>3
    <2>10. Seconds(cn[v][m].last_modified) = Seconds(cn[v][j].last_modified)
        BY <2>5, <2>8 DEF t
    <2> QED
        BY <1>13, <2>5, <2>9, <2>10, LooksOfSteady
<1> QED
    BY <1>2, <1>5, <1>11, <1>12, <1>13

LEMMA ModifySteady ==
    ASSUME SilentInv, NEW v \in VM, Steady(v), Last(v).exists,
           NEW w \in Watcher, w # "zoneevent", NEW j \in 1..Len(cn[v]), NEW n \in 1..Len(cn[v]),
           NEW k, FieldsFrom(cn[v], k, n)
    PROVE  LET d == DispatchModify(k, Seen(w, cn[v][j]), w)
           IN  \/ d.emit /\ FieldsFrom(cn[v], d.known, Len(cn[v]))
               \/ /\ ~d.emit /\ FieldsFrom(cn[v], d.known, n)
                  /\ \E i \in 1..n : LooksLike(w, cn[v][i], cn[v][j])
<1> DEFINE y == k.fields
<1> DEFINE z == Seen(w, cn[v][j])
<1> DEFINE d == DispatchModify(k, z, w)
<1>1. Len(cn[v]) \in Nat /\ n <= Len(cn[v]) /\ 1 \in 1..Len(cn[v])
    BY SteadyTyped
<1>2. VmadmView(cn[v][1])["state"] # "provisioning"
    BY <1>1, SteadyThere DEF VmadmView
<1>3. ~(Has(y, "state") /\ y["state"] = "provisioning") /\ ~k.destroyed
    BY <1>2 DEF FieldsFrom
<1>4. d = IF Updated(y, z) # {} THEN News(Entry(UpdateIfNewer(y, z))) ELSE Silently(Entry(y))
    BY <1>3 DEF DispatchModify
<1>5. CASE Updated(y, z) # {}
    <2>1. FieldsFrom(cn[v], k, Len(cn[v]))
        BY <1>1, FieldsOfMore
    <2>2. FieldsFrom(cn[v], Entry(UpdateIfNewer(y, z)), Len(cn[v]))
        BY <2>1, FieldsOfUpdate
    <2> QED
        BY <1>4, <1>5, <2>2 DEF News
<1>6. CASE Updated(y, z) = {}
    <2>1. \E i \in 1..n : LooksLike(w, cn[v][i], cn[v][j])
        BY <1>6, NoNewsOfSteady
    <2>2. Entry(y).fields = y /\ ~Entry(y).destroyed
        BY DEF Entry
    <2>3. FieldsFrom(cn[v], Entry(y), n)
        BY <2>2 DEF FieldsFrom
    <2>4. d = Silently(Entry(y))
        BY <1>4, <1>6
    <2> HIDE DEF d
    <2>5. ~d.emit /\ d.known = Entry(y)
        BY <2>4 DEF Silently
    <2> QED
        BY <2>1, <2>3, <2>5 DEF d
<1> QED
    BY <1>5, <1>6

-----------------------------------------------------------------------------
(***************************************************************************)
(* What each kind of step does to one steady VM.                           *)
(***************************************************************************)
\* The listener looks, or nothing happens to the VM.
LEMMA QuietKeepsSteady ==
    ASSUME SilentInv, NEW v \in VM, Steady(v),
           knownVms'[v] = knownVms[v], cn'[v] = cn[v], UNCHANGED <<view, first>>,
           told'[v] \in {told[v], Len(cn[v])},
           v \in emits' => v \in emits, v \in emits => v \in emits' \/ told'[v] = Len(cn[v])
    PROVE  OfSteady(v)'
<1>1. /\ Len(cn[v]) \in Nat /\ Len(cn[v]) >= 1 /\ told[v] \in Nat /\ told[v] >= 1 /\ told[v] <= Len(cn[v])
    BY SteadyTyped
<1>2. OfSteady(v) /\ Last(v)' = Last(v)
    BY DEF SilentInv, Last
<1>3. CASE Last(v).exists
    <2>1. KnownTold(v) /\ SeenTold(v)
        BY <1>2, <1>3 DEF OfSteady
    <2>2. KnownTold(v)'
        <3> DEFINE n == IF v \in emits THEN Len(cn[v]) ELSE told[v]
        <3> DEFINE m == IF v \in emits' THEN Len(cn[v]) ELSE told'[v]
        <3>1. n \in Nat /\ m \in Nat /\ n <= m
            BY <1>1
        <3>2. FieldsFrom(cn[v], knownVms[v], n)
            BY <2>1 DEF KnownTold
        <3> HIDE DEF n, m
        <3>3. FieldsFrom(cn[v], knownVms[v], m)
            BY <3>1, <3>2, FieldsOfMore
        <3> QED
            BY <3>3 DEF KnownTold, m
    <2>3. SeenTold(v)'
        <3> SUFFICES ASSUME v \notin emits', NEW w \in Watcher, view'[w] # Unseen
                     PROVE  \E i \in 1..Len(cn[v]) : /\ i <= told'[v] \/ i <= first[w][v]
                                                     /\ LooksLike(w, cn[v][i], cn[v][view[w][v]])
            BY DEF SeenTold, LooksLike
        <3>1. CASE v \notin emits
            BY <1>1, <2>1, <3>1 DEF SeenTold, Unseen
        <3>2. CASE v \in emits
            <4>1. told'[v] = Len(cn[v]) /\ view[w] # Unseen
                BY <3>2 DEF Unseen
            <4>2. view[w][v] \in 1..Len(cn[v]) /\ view[w][v] <= told'[v]
                BY <1>1, <4>1, ViewBounds
            <4> QED
                BY <4>2 DEF LooksLike
        <3> QED
            BY <3>1, <3>2
    <2> QED
        BY <1>2, <1>3, <2>2, <2>3 DEF OfSteady
<1>4. CASE ~Last(v).exists
    BY <1>2, <1>4 DEF OfSteady, DeletionTold
<1> QED
    BY <1>3, <1>4

\* The VM becomes something else, or is deleted.
LEMMA ChangeKeepsSteady ==
    ASSUME SilentInv, NEW v \in VM, NEW o \in VmState, Becomes(v, o), Steady(v)',
           UNCHANGED <<knownVms, emits, told, view, first>>
    PROVE  OfSteady(v)'
<1> DEFINE n == Len(cn[v])
<1>1. /\ n \in Nat /\ n >= 1 /\ told[v] \in Nat /\ told[v] >= 1 /\ told[v] <= n /\ Last(v) = cn[v][n]
    BY SteadyTyped
<1>2. cn'[v] = Append(cn[v], o) /\ cn[v] \in Seq(VmState)
    BY DEF Becomes, SilentInv, WatcherInv
<1>3. Len(cn'[v]) = n + 1 /\ (\A i \in 1..n : cn'[v][i] = cn[v][i]) /\ \A i \in 1..n : i \in 1..(n + 1)
    BY <1>1, <1>2
<1>4. Steady(v) /\ Last(v).exists
    <2>1. \A i \in 1..n : i \in 1..(n + 1) /\ i < n + 1 /\ 1 \in 1..n /\ n \in 1..n
        BY <1>1
    <2>2. \A i \in 1..n : cn[v][i].state = cn[v][1].state /\ cn[v][i].exists
        BY <1>3, <2>1 DEF Steady
    <2> QED
        BY <1>1, <2>1, <2>2 DEF Steady
<1>5. KnownTold(v) /\ SeenTold(v)
    BY <1>4 DEF SilentInv, OfSteady
<1>6. CASE Last(v)'.exists
    <2>1. KnownTold(v)'
        <3> DEFINE a == IF v \in emits THEN n ELSE told[v]
        <3> DEFINE b == IF v \in emits THEN n + 1 ELSE told[v]
        <3>1. a \in Nat /\ b \in Nat /\ a <= b /\ \A r \in 1..a : r \in 1..n
            BY <1>1
        <3>2. FieldsFrom(cn[v], knownVms[v], a)
            BY <1>5 DEF KnownTold
        <3>3. 1 \in 1..n
            BY <1>1
        <3> HIDE DEF a, b
        <3>4. FieldsFrom(cn'[v], knownVms[v], a)
            BY <1>3, <3>1, <3>2, <3>3 DEF FieldsFrom
        <3>5. FieldsFrom(cn'[v], knownVms[v], b)
            BY <3>1, <3>4, FieldsOfMore
        <3> QED
            BY <1>3, <3>5 DEF KnownTold, b
    <2>2. SeenTold(v)'
        <3> SUFFICES ASSUME v \notin emits, NEW w \in Watcher, view[w] # Unseen
                     PROVE  \E i \in 1..Len(cn'[v]) :
                               /\ i <= told[v] \/ i <= first[w][v]
                               /\ LooksLike(w, cn'[v][i], cn'[v][view[w][v]])
            BY DEF SeenTold, LooksLike, Unseen
        <3>1. PICK i \in 1..n : /\ i <= told[v] \/ i <= first[w][v]
                                /\ LooksLike(w, cn[v][i], cn[v][view[w][v]])
            BY <1>5 DEF SeenTold
        <3>2. view[w][v] \in 1..n
            BY ViewBounds
        <3> QED
            BY <1>3, <3>1, <3>2
    <2> QED
        BY <1>6, <2>1, <2>2 DEF OfSteady
<1>7. CASE ~Last(v)'.exists
    <2>1. ~knownVms[v].destroyed
        BY <1>5 DEF KnownTold, FieldsFrom
    <2>2. \A w \in Watcher : view[w][v] # n + 1
        <3> TAKE w \in Watcher
        <3>1. CASE view[w] # Unseen
            BY <1>1, <3>1, ViewBounds
        <3>2. CASE view[w] = Unseen
            BY <1>1, <3>2 DEF Unseen
        <3> QED
            BY <3>1, <3>2
    <2> QED
        BY <1>3, <1>7, <2>1, <2>2 DEF OfSteady, DeletionTold
<1> QED
    BY <1>6, <1>7

\* A watcher looks for the first time, or forgets what it saw.
LEMMA FirstLookKeepsSteady ==
    ASSUME SilentInv, NEW v \in VM, Steady(v), NEW u \in Watcher, FirstLook(u)
    PROVE  OfSteady(v)'
<1>1. PICK k \in [VM -> 1..MaxVer] :
         /\ \A x \in VM : k[x] <= Len(cn[x])
         /\ view' = [view EXCEPT ![u] = k] /\ first' = [first EXCEPT ![u] = k]
    BY DEF FirstLook, Looks
<1>2. UNCHANGED <<cn, knownVms, emits, told>>
    BY DEF FirstLook, watcherVars
<1>3. /\ view'[u] = k /\ first'[u] = k
      /\ \A w \in Watcher : w # u => view'[w] = view[w] /\ first'[w] = first[w]
    BY <1>1 DEF SilentInv, ViewsInv
<1>4. k[v] \in 1..Len(cn[v]) /\ k[v] \in Nat
    BY <1>1, Bounds, SteadyTyped
<1>5. OfSteady(v) /\ Last(v)' = Last(v)
    BY <1>2 DEF SilentInv, Last
<1>6. CASE Last(v).exists
    <2>1. KnownTold(v)'
        BY <1>2, <1>5, <1>6 DEF OfSteady, KnownTold, FieldsFrom
    <2>2. SeenTold(v)'
        <3> SUFFICES ASSUME v \notin emits, NEW w \in Watcher, view'[w] # Unseen'
                     PROVE  \E i \in 1..Len(cn[v]) :
                               /\ i <= told[v] \/ i <= first'[w][v]
                               /\ LooksLike(w, cn[v][i], cn[v][view'[w][v]])
            BY <1>2 DEF SeenTold, LooksLike
        <3>1. CASE w = u
            BY <1>3, <1>4, <3>1 DEF LooksLike
        <3>2. CASE w # u
            BY <1>3, <1>5, <1>6, <3>2 DEF OfSteady, SeenTold, Unseen
        <3> QED
            BY <3>1, <3>2
    <2> QED
        BY <1>5, <1>6, <2>1, <2>2 DEF OfSteady
<1>7. CASE ~Last(v).exists
    <2>1. DeletionTold(v)
        BY <1>5, <1>7 DEF OfSteady
    <2>2. DeletionTold(v)'
        <3>1. ASSUME NEW w \in Watcher, v \notin emits, w # "zoneevent", view'[w][v] = Len(cn[v])
              PROVE  told[v] = Len(cn[v]) \/ first'[w][v] = Len(cn[v])
            BY <1>3, <2>1, <3>1 DEF DeletionTold
        <3> QED
            BY <1>2, <2>1, <3>1 DEF DeletionTold
    <2> QED
        BY <1>5, <1>7, <2>2 DEF OfSteady
<1> QED
    BY <1>6, <1>7

LEMMA ForgetKeepsSteady ==
    ASSUME SilentInv, NEW v \in VM, Steady(v), NEW u \in Watcher, Forget(u)
    PROVE  OfSteady(v)'
<1>1. view' = [view EXCEPT ![u] = Unseen] /\ UNCHANGED <<cn, knownVms, emits, told, first>>
    BY DEF Forget, watcherVars
<1>2. view'[u] = Unseen /\ \A w \in Watcher : w # u => view'[w] = view[w]
    BY <1>1 DEF SilentInv, ViewsInv
<1>3. Len(cn[v]) >= 1 /\ Len(cn[v]) \in Nat
    BY SteadyTyped
<1>4. OfSteady(v) /\ Last(v)' = Last(v)
    BY <1>1 DEF SilentInv, Last
<1>5. CASE Last(v).exists
    <2>1. KnownTold(v)'
        BY <1>1, <1>4, <1>5 DEF OfSteady, KnownTold, FieldsFrom
    <2>2. SeenTold(v)'
        <3> SUFFICES ASSUME v \notin emits, NEW w \in Watcher, view'[w] # Unseen'
                     PROVE  \E i \in 1..Len(cn[v]) :
                               /\ i <= told[v] \/ i <= first[w][v]
                               /\ LooksLike(w, cn[v][i], cn[v][view'[w][v]])
            BY <1>1 DEF SeenTold, LooksLike
        <3>1. view'[w] = view[w] /\ view[w] # Unseen
            BY <1>2 DEF Unseen
        <3> QED
            BY <1>4, <1>5, <3>1 DEF OfSteady, SeenTold
    <2> QED
        BY <1>4, <1>5, <2>1, <2>2 DEF OfSteady
<1>6. CASE ~Last(v).exists
    <2>1. DeletionTold(v)
        BY <1>4, <1>6 DEF OfSteady
    <2>2. \A w \in Watcher : view'[w][v] = Len(cn[v]) => view[w][v] = Len(cn[v])
        BY <1>2, <1>3 DEF Unseen
    <2>3. DeletionTold(v)'
        BY <1>1, <2>1, <2>2 DEF DeletionTold
    <2> QED
        BY <1>4, <1>6, <2>3 DEF OfSteady
<1> QED
    BY <1>5, <1>6

\* The listener, or its first look, saw v like a watcher would see version x.
SawLike(w, v, x) ==
    \E i \in 1..Len(cn[v]) : /\ i <= told[v] \/ i <= first[w][v]
                             /\ LooksLike(w, cn[v][i], cn[v][x])

\* A watcher reports of a VM that is there, which it saw as version old, as version new.
LEMMA ReportOfSteady ==
    ASSUME SilentInv, NEW v \in VM, Steady(v), Last(v).exists, NEW u \in Watcher, view[u] # Unseen,
           NEW new \in 1..Len(cn[v])
    PROVE  LET d == DispatchChange(knownVms[v], u, cn[v][view[u][v]], cn[v][new])
               emitted == v \in emits \/ d.emit
           IN  /\ FieldsFrom(cn[v], d.known, IF emitted THEN Len(cn[v]) ELSE told[v])
               /\ ~emitted => SawLike(u, v, new)
<1> DEFINE n == Len(cn[v])
<1> DEFINE m == IF v \in emits THEN n ELSE told[v]
<1> DEFINE k == knownVms[v]
<1> DEFINE old == view[u][v]
<1> DEFINE o == cn[v][old]
<1> DEFINE p == cn[v][new]
<1> DEFINE d == DispatchChange(k, u, o, p)
<1>1. /\ n \in Nat /\ n >= 1 /\ told[v] \in Nat /\ told[v] >= 1 /\ told[v] <= n
      /\ p.last_modified \in Nat
    BY SteadyTyped
<1>2. old \in 1..n /\ o.last_modified \in Nat
    BY ViewBounds, SteadyTyped
<1>3. o.exists /\ p.exists /\ o.state = p.state
    BY <1>2, SteadyThere
<1>4. FieldsFrom(cn[v], k, m) /\ SeenTold(v)
    BY DEF SilentInv, OfSteady, KnownTold
<1>5. m \in 1..n /\ 1 \in 1..n
    BY <1>1
<1>6. CASE d = Silently(k) /\ (v \notin emits => SawLike(u, v, new))
    BY <1>4, <1>6 DEF Silently
<1>7. CASE u = "zoneevent"
    <2>1. ZoneView(o) = ZoneView(p)
        BY <1>3 DEF ZoneView, ZoneRunning
    <2>2. d = Silently(k)
        BY <1>7, <2>1 DEF DispatchChange, Modified, Seen, NoReport
    <2>3. LooksLike(u, cn[v][1], p)
        BY <1>5, <1>7, LooksOfSteady
    <2>4. SawLike(u, v, new)
        BY <1>1, <1>5, <2>3 DEF SawLike
    <2> QED
        BY <1>6, <2>2, <2>4
<1>8. CASE u # "zoneevent" /\ ~Modified(u, o, p)
    <2>1. d = Silently(k)
        BY <1>3, <1>8 DEF DispatchChange, NoReport
    <2>2. ASSUME v \notin emits PROVE SawLike(u, v, new)
        <3>1. PICK i \in 1..n : (i <= told[v] \/ i <= first[u][v]) /\ LooksLike(u, cn[v][i], o)
            BY <1>4, <2>2 DEF SeenTold
        <3>2. CASE u # "fs"
            <4>1. LooksLike(u, cn[v][i], p)
                BY <1>3, <1>8, <3>1, <3>2 DEF Modified, LooksLike
            <4> QED
                BY <3>1, <4>1 DEF SawLike
        <3>3. CASE u = "fs" /\ new <= i
            <4>1. new <= told[v] \/ new <= first[u][v]
                BY <1>1, <3>1, <3>3, ViewBounds
            <4> QED
                BY <4>1 DEF SawLike, LooksLike
        <3>4. CASE u = "fs" /\ i < new
            <4>1. cn[v][i].last_modified = o.last_modified
                BY <1>2, <3>1, <3>4, LooksOfSteady
            <4>2. p.last_modified <= o.last_modified
                BY <1>1, <1>2, <1>8, <3>4 DEF Modified
            <4>3. cn[v][i].last_modified <= p.last_modified
                BY <3>1, <3>4, SteadyTyped DEF History
            <4>4. cn[v][i].last_modified = p.last_modified
                BY <1>1, <1>2, <4>1, <4>2, <4>3
            <4>5. LooksLike(u, cn[v][i], p)
                BY <3>1, <3>4, <4>4, LooksOfSteady
            <4> QED
                BY <3>1, <4>5 DEF SawLike
        <3> QED
            BY <1>1, <3>1, <3>2, <3>3, <3>4
    <2> QED
        BY <1>6, <2>1, <2>2
<1>9. CASE u # "zoneevent" /\ Modified(u, o, p)
    <2>1. d = DispatchModify(k, Seen(u, p), u)
        BY <1>3, <1>9 DEF DispatchChange
    <2>2. \/ d.emit /\ FieldsFrom(cn[v], d.known, n)
          \/ ~d.emit /\ FieldsFrom(cn[v], d.known, m) /\ \E i \in 1..m : LooksLike(u, cn[v][i], p)
        BY <1>4, <1>5, <1>9, <2>1, ModifySteady
    <2>3. CASE d.emit /\ FieldsFrom(cn[v], d.known, n)
        BY <2>3
    <2>4. CASE ~d.emit /\ FieldsFrom(cn[v], d.known, m) /\ \E i \in 1..m : LooksLike(u, cn[v][i], p)
        <3>1. ASSUME v \notin emits PROVE SawLike(u, v, new)
            <4>1. PICK i \in 1..told[v] : LooksLike(u, cn[v][i], p)
                BY <2>4, <3>1
            <4>2. i \in 1..n /\ i <= told[v]
                BY <1>1, <4>1
            <4> QED
                BY <4>1, <4>2 DEF SawLike
        <3> QED
            BY <2>4, <3>1
    <2> QED
        BY <2>2, <2>3, <2>4
<1> QED
    BY <1>7, <1>8, <1>9

\* Of a VM that is deleted the report says so, unless the watcher saw it already.
LEMMA ReportOfDeleted ==
    ASSUME SilentInv, NEW v \in VM, Steady(v), ~Last(v).exists, NEW u \in Watcher, view[u] # Unseen,
           NEW new \in 1..Len(cn[v])
    PROVE  LET d == DispatchChange(knownVms[v], u, cn[v][view[u][v]], cn[v][new])
           IN  ~(v \in emits \/ d.emit) =>
                  /\ d.known.destroyed => told[v] = Len(cn[v])
                  /\ u # "zoneevent" /\ new = Len(cn[v]) =>
                        told[v] = Len(cn[v]) \/ first[u][v] = Len(cn[v])
<1> DEFINE n == Len(cn[v])
<1> DEFINE k == knownVms[v]
<1> DEFINE old == view[u][v]
<1> DEFINE o == cn[v][old]
<1> DEFINE p == cn[v][new]
<1> DEFINE d == DispatchChange(k, u, o, p)
<1> SUFFICES ASSUME v \notin emits, ~d.emit
             PROVE  /\ d.known.destroyed => told[v] = n
                    /\ u # "zoneevent" /\ new = n => told[v] = n \/ first[u][v] = n
    OBVIOUS
<1>1. n \in Nat /\ n >= 1 /\ ~cn[v][n].exists /\ p.last_modified \in Nat
    BY SteadyTyped
<1>2. old \in 1..n
    BY ViewBounds
<1>3. \A i \in 1..n : i # n => cn[v][i].exists
    BY <1>1 DEF Steady
<1>4. /\ k.destroyed => told[v] = n
      /\ u # "zoneevent" /\ old = n => told[v] = n \/ first[u][v] = n
    BY DEF SilentInv, OfSteady, DeletionTold
<1>5. \A obj : ~DispatchModify(k, obj, u).known.destroyed \/ DispatchModify(k, obj, u).known = k
    BY DEF DispatchModify, Silently, News, Entry
<1>6. CASE u = "zoneevent"
    BY <1>4, <1>5, <1>6 DEF DispatchChange, NoReport, Silently
<1>7. CASE u # "zoneevent" /\ new = n /\ old = n
    BY <1>1, <1>4, <1>7 DEF DispatchChange, NoReport, Silently
<1>8. CASE u # "zoneevent" /\ new = n /\ old # n
    <2>1. d = DispatchDelete(k)
        BY <1>1, <1>2, <1>3, <1>8 DEF DispatchChange
    <2> QED
        BY <1>4, <2>1 DEF DispatchDelete, Silently, News
<1>9. CASE u # "zoneevent" /\ new # n
    <2>1. p.exists
        BY <1>3, <1>9
    <2>2. d.known = k \/ ~d.known.destroyed
        BY <1>5, <1>9, <2>1 DEF DispatchChange, DispatchCreate, NoReport, Silently, News, Entry
    <2> QED
        BY <1>4, <1>9, <2>2
<1> QED
    BY <1>6, <1>7, <1>8, <1>9

LEMMA ReportKeepsSteady ==
    ASSUME SilentInv, NEW v \in VM, Steady(v), NEW u \in Watcher, Report(u)
    PROVE  OfSteady(v)'
<1>1. PICK k \in [VM -> 1..MaxVer] :
         /\ \A x \in VM : k[x] <= Len(cn[x])
         /\ view' = [view EXCEPT ![u] = k]
         /\ UpdateHandler(u, [x \in VM |-> cn[x][view[u][x]]], [x \in VM |-> cn[x][k[x]]])
    BY DEF Report, Looks
<1>2. view[u] # Unseen /\ UNCHANGED <<cn, told, first>>
    BY DEF Report
<1>3. view'[u] = k /\ \A w \in Watcher : w # u => view'[w] = view[w]
    BY <1>1 DEF SilentInv, ViewsInv
<1>4. k[v] \in 1..Len(cn[v])
    BY <1>1, Bounds, SteadyTyped
<1> DEFINE d == DispatchChange(knownVms[v], u, cn[v][view[u][v]], cn[v][k[v]])
<1>5. knownVms'[v] = d.known /\ (v \in emits' <=> v \in emits \/ d.emit)
    BY <1>1, ReportOfOne
<1>6. OfSteady(v) /\ Last(v)' = Last(v)
    BY <1>2 DEF SilentInv, Last
<1>7. CASE Last(v).exists
    <2>1. /\ FieldsFrom(cn[v], d.known, IF v \in emits \/ d.emit THEN Len(cn[v]) ELSE told[v])
          /\ ~(v \in emits \/ d.emit) => SawLike(u, v, k[v])
        BY <1>2, <1>4, <1>7, ReportOfSteady
    <2> HIDE DEF d
    <2>2. KnownTold(v)'
        BY <1>2, <1>5, <2>1 DEF KnownTold
    <2>3. SeenTold(v)'
        <3> SUFFICES ASSUME v \notin emits', NEW w \in Watcher, view'[w] # Unseen'
                     PROVE  \E i \in 1..Len(cn[v]) :
                               /\ i <= told[v] \/ i <= first[w][v]
                               /\ LooksLike(w, cn[v][i], cn[v][view'[w][v]])
            BY <1>2 DEF SeenTold, LooksLike
        <3>1. CASE w = u
            BY <1>3, <1>5, <2>1, <3>1 DEF SawLike
        <3>2. CASE w # u
            BY <1>3, <1>5, <1>6, <1>7, <3>2 DEF OfSteady, SeenTold, Unseen
        <3> QED
            BY <3>1, <3>2
    <2> QED
        BY <1>6, <1>7, <2>2, <2>3 DEF OfSteady
<1>8. CASE ~Last(v).exists
    <2>1. ~(v \in emits \/ d.emit) =>
              /\ d.known.destroyed => told[v] = Len(cn[v])
              /\ u # "zoneevent" /\ k[v] = Len(cn[v]) => told[v] = Len(cn[v]) \/ first[u][v] = Len(cn[v])
        BY <1>2, <1>4, <1>8, ReportOfDeleted
    <2> HIDE DEF d
    <2>2. DeletionTold(v)
        BY <1>6, <1>8 DEF OfSteady
    <2>3. ASSUME v \notin emits', NEW w \in Watcher, w # "zoneevent", view'[w][v] = Len(cn[v])
          PROVE  told[v] = Len(cn[v]) \/ first[w][v] = Len(cn[v])
        BY <1>3, <1>5, <2>1, <2>2, <2>3 DEF DeletionTold
    <2>4. v \notin emits' /\ knownVms'[v].destroyed => told[v] = Len(cn[v])
        BY <1>5, <2>1
    <2>5. DeletionTold(v)'
        BY <1>2, <2>3, <2>4 DEF DeletionTold
    <2> QED
        BY <1>6, <1>8, <2>5 DEF OfSteady
<1> QED
    BY <1>7, <1>8

-----------------------------------------------------------------------------
(***************************************************************************)
(* The invariant.                                                          *)
(***************************************************************************)
\* A change leaves the quota as it is or makes it a new one.
LEMMA QuotaOfNext ==
    ASSUME WatcherInv, NEW v \in VM, CnChange(v)
    PROVE  LET n == Len(cn[v])
           IN  /\ cn'[v][n + 1].quota \in {Last(v).quota, n}
               /\ Len(cn'[v]) = n + 1 /\ \A i \in 1..n : cn'[v][i] = cn[v][i]
               /\ \A u \in VM : u # v => cn'[u] = cn[u]
<1> DEFINE n == Len(cn[v])
<1>1. cn \in [VM -> Seq(VmState)] /\ cn[v] \in Seq(VmState) /\ n \in Nat
    BY Bounds DEF WatcherInv
<1>2. PICK o \in VmState : cn' = [cn EXCEPT ![v] = Append(cn[v], o)]
    BY CnChangeBecomes DEF Becomes
<1>3. cn'[v] = Append(cn[v], o) /\ \A u \in VM : u # v => cn'[u] = cn[u]
    BY <1>1, <1>2
<1>4. Len(cn'[v]) = n + 1 /\ cn'[v][n + 1] = o /\ \A i \in 1..n : cn'[v][i] = cn[v][i]
    BY <1>1, <1>3
<1> DEFINE l == Last(v)
<1> SUFFICES o.quota = l.quota \/ o.quota = n
    BY <1>3, <1>4
<1>5. ASSUME NEW s, cn' = [cn EXCEPT ![v] = Append(cn[v], s)], s.quota = l.quota \/ s.quota = n
      PROVE  o.quota = l.quota \/ o.quota = n
    <2>1. cn'[v] = Append(cn[v], s)
        BY <1>1, <1>5
    <2>2. Append(cn[v], s)[n + 1] = s
        BY <1>1
    <2> QED
        BY <1>4, <1>5, <2>1, <2>2
<1>6. l \in VmState
    BY LastTyped
<1>7. CASE Created(v)
    <2>1. PICK s : cn' = [cn EXCEPT ![v] = Append(cn[v], s)] /\ s.quota \in {l.quota, n}
        <3>1. PICK t \in Later(v), z \in FirstStates, q \in {l.quota, n} :
                 cn' = [cn EXCEPT ![v] = Append(cn[v], [exists |-> TRUE, last_modified |-> t, state |-> z, quota |-> q])]
            BY <1>7 DEF Created, NewQuota, Becomes
        <3> DEFINE s == [exists |-> TRUE, last_modified |-> t, state |-> z, quota |-> q]
        <3>2. s.quota \in {l.quota, n}
            OBVIOUS
        <3>3. \E r : r = s /\ cn' = [cn EXCEPT ![v] = Append(cn[v], r)]
            BY <3>1
        <3> HIDE DEF s
        <3> QED
            BY <3>2, <3>3
    <2> QED
        BY <1>5, <2>1
<1>8. CASE Configured(v)
    <2>1. PICK s : cn' = [cn EXCEPT ![v] = Append(cn[v], s)] /\ (\E t, z : s = [l EXCEPT !.last_modified = t, !.state = z])
        <3>1. PICK t, z : cn' = [cn EXCEPT ![v] = Append(cn[v], [l EXCEPT !.last_modified = t, !.state = z])]
            BY <1>8 DEF Configured, Becomes
        <3> QED
            BY <3>1
    <2>2. s.quota = l.quota
        BY <1>6, <2>1 DEF VmState
    <2> QED
        BY <1>5, <2>1, <2>2
<1>9. CASE Halted(v) \/ Booted(v)
    <2>1. PICK s : cn' = [cn EXCEPT ![v] = Append(cn[v], s)] /\ (\E z : s = [l EXCEPT !.state = z])
        BY <1>9 DEF Halted, Booted, Becomes
    <2>2. s.quota = l.quota
        BY <1>6, <2>1 DEF VmState
    <2> QED
        BY <1>5, <2>1, <2>2
<1>10. CASE QuotaSet(v)
    <2>1. PICK s : cn' = [cn EXCEPT ![v] = Append(cn[v], s)] /\ (s = [l EXCEPT !.quota = n])
        BY <1>10 DEF QuotaSet, Becomes, NewQuota
    <2>2. s.quota = n
        BY <1>6, <2>1 DEF VmState
    <2> QED
        BY <1>5, <2>1, <2>2
<1>11. CASE Deleted(v)
    <2>1. PICK s : cn' = [cn EXCEPT ![v] = Append(cn[v], s)] /\ (s = [l EXCEPT !.exists = FALSE])
        BY <1>11 DEF Deleted, Becomes
    <2>2. s.quota = l.quota
        BY <1>6, <2>1 DEF VmState
    <2> QED
        BY <1>5, <2>1, <2>2
<1>12. Created(v) \/ Configured(v) \/ (Halted(v) \/ Booted(v)) \/ QuotaSet(v) \/ Deleted(v)
    BY DEF CnChange
<1> QED
    BY <1>7, <1>8, <1>9, <1>10, <1>11, <1>12

LEMMA QuotaStays ==
    ASSUME WatcherInv, QuotaInv, NEW v \in VM, CnChange(v)
    PROVE  QuotaInv'
<1> DEFINE n == Len(cn[v])
<1> DEFINE q == cn'[v][n + 1].quota
<1>1. /\ cn'[v][n + 1].quota \in {Last(v).quota, n} /\ Last(v) = cn[v][n]
      /\ Len(cn'[v]) = n + 1 /\ \A i \in 1..n : cn'[v][i] = cn[v][i]
      /\ \A u \in VM : u # v => cn'[u] = cn[u]
    BY QuotaOfNext DEF Last
<1>2. n \in Nat /\ n >= 1 /\ n \in 1..n /\ 1 \in 1..n
    BY Bounds DEF WatcherInv
<1>3. \A i \in 1..n : cn[v][i].quota \in Nat
    <2>1. cn[v] \in Seq(VmState)
        BY DEF WatcherInv
    <2>2. \A i \in 1..n : cn[v][i] \in VmState
        BY <2>1
    <2> QED
        BY <2>2, Bounds DEF VmState
<1>4. /\ \A i \in 1..n : cn[v][i].quota < i
      /\ \A i, j \in 1..n : i <= j => cn[v][i].quota <= cn[v][j].quota
    BY DEF QuotaInv
<1>5. q \in {cn[v][n].quota, n} /\ q \in Nat
    BY <1>1, <1>2, <1>3
<1>6. \A i \in 1..n : cn[v][i].quota <= q
    <2> TAKE i \in 1..n
    <2>1. cn[v][i].quota <= cn[v][n].quota /\ cn[v][n].quota < n /\ cn[v][n].quota \in Nat /\ cn[v][i].quota \in Nat
        BY <1>2, <1>3, <1>4
    <2> QED
        BY <1>2, <1>5, <2>1
<1>7. q < n + 1
    <2>1. cn[v][n].quota < n /\ cn[v][n].quota \in Nat
        BY <1>2, <1>3, <1>4
    <2> QED
        BY <1>2, <1>5, <2>1
<1>8. \A i \in 1..(n + 1) : i \in 1..n \/ i = n + 1
    BY <1>2
<1>9. \A i \in 1..(n + 1) : cn'[v][i].quota < i
    BY <1>1, <1>4, <1>7, <1>8
<1>10. \A i, j \in 1..(n + 1) : i <= j => cn'[v][i].quota <= cn'[v][j].quota
    <2> TAKE i, j \in 1..(n + 1)
    <2> HAVE i <= j
    <2>1. CASE j \in 1..n
        <3>1. i \in 1..n
            BY <1>2, <2>1
        <3> QED
            BY <1>1, <1>4, <2>1, <3>1
    <2>2. CASE j = n + 1 /\ i \in 1..n
        BY <1>1, <1>6, <2>2
    <2>3. CASE j = n + 1 /\ i = n + 1
        BY <1>5, <2>3
    <2> QED
        BY <1>8, <2>1, <2>2, <2>3
<1>11. cn'[v][1].state # "provisioning"
    BY <1>1, <1>2 DEF QuotaInv
<1> HIDE DEF q
<1>12. ASSUME NEW u \in VM
       PROVE  /\ cn'[u][1].state # "provisioning"
              /\ \A i \in 1..Len(cn'[u]) : cn'[u][i].quota < i
              /\ \A i, j \in 1..Len(cn'[u]) : i <= j => cn'[u][i].quota <= cn'[u][j].quota
    <2>1. CASE u = v
        BY <1>1, <1>9, <1>10, <1>11, <2>1
    <2>2. CASE u # v
        BY <1>1, <2>2 DEF QuotaInv
    <2> QED
        BY <2>1, <2>2
<1> QED
    BY <1>12 DEF QuotaInv

LEMMA SilentInit == Init => SilentInv
<1> SUFFICES ASSUME Init PROVE SilentInv
    OBVIOUS
<1>1. WatcherInv /\ Versions(told) /\ HistoryInv
    BY WatcherInit, ToldInit, HistoryInit DEF Init
<1>2. ASSUME NEW v \in VM
      PROVE  Len(cn[v]) = 1 /\ cn[v][1].quota = 0 /\ cn[v][1].state # "provisioning"
    <2> DEFINE Initially == {<<[exists |-> e, last_modified |-> 0, state |-> s, quota |-> 0]>> :
                                e \in BOOLEAN, s \in Lasting}
    <2>1. cn \in [VM -> Initially]
        BY DEF Init, VmWatcherInit
    <2>2. PICK e \in BOOLEAN, s \in Lasting :
             cn[v] = <<[exists |-> e, last_modified |-> 0, state |-> s, quota |-> 0]>>
        BY <2>1
    <2>3. s # "provisioning"
        BY DEF Lasting
    <2> QED
        BY <2>2, <2>3
<1>3. QuotaInv
    BY <1>2 DEF QuotaInv
<1>4. ViewsInv
    BY Bounds DEF Init, ViewsInv, Unseen
<1>5. ASSUME NEW v \in VM PROVE OfSteady(v)
    <2>1. knownVms[v] = NoEntry /\ \A w \in Watcher : view[w] = Unseen
        BY DEF Init, VmWatcherInit
    <2>2. KnownTold(v)
        BY <2>1 DEF KnownTold, FieldsFrom, NoEntry, Has
    <2>3. SeenTold(v)
        BY <2>1 DEF SeenTold
    <2>4. DeletionTold(v)
        BY <1>2, <2>1 DEF DeletionTold, NoEntry, Unseen
    <2> QED
        BY <2>2, <2>3, <2>4 DEF OfSteady
<1> QED
    BY <1>1, <1>3, <1>4, <1>5 DEF SilentInv

LEMMA ViewsStay ==
    ASSUME SilentInv, [Next]_vars
    PROVE  ViewsInv'
<1>1. WatcherInv
    BY DEF SilentInv
<1>2. \A w \in Watcher : view[w] # Unseen => Versions(view[w]) /\ Versions(first[w])
    BY DEF SilentInv, ViewsInv
<1>3. view \in [Watcher -> [VM -> 0..MaxVer]] /\ first \in [Watcher -> [VM -> 0..MaxVer]]
    BY DEF SilentInv, ViewsInv
<1>4. CASE UNCHANGED <<view, first>> /\ (UNCHANGED cn \/ \E v \in VM : CnChange(v))
    <2>1. ASSUME NEW k, Versions(k) PROVE \A v \in VM : k[v] <= Len(cn'[v])
        BY <1>1, <1>4, <2>1, VersionsStay DEF Versions
    <2>2. view' = view /\ first' = first
        BY <1>4
    <2>3. ASSUME NEW w \in Watcher, view'[w] # Unseen
          PROVE  /\ view'[w] \in [VM -> 1..MaxVer] /\ \A v \in VM : view'[w][v] <= Len(cn'[v])
                 /\ first'[w] \in [VM -> 1..MaxVer] /\ \A v \in VM : first'[w][v] <= Len(cn'[v])
        <3>1. Versions(view[w]) /\ Versions(first[w])
            BY <1>2, <2>2, <2>3
        <3> QED
            BY <2>1, <2>2, <3>1 DEF Versions
    <2> QED
        BY <1>3, <2>2, <2>3 DEF ViewsInv, Versions, Unseen
<1>5. ASSUME NEW u \in Watcher, NEW k \in [VM -> 0..MaxVer], k = Unseen \/ Versions(k),
             view' = [view EXCEPT ![u] = k], UNCHANGED cn,
             UNCHANGED first \/ first' = [first EXCEPT ![u] = k],
             UNCHANGED first /\ k # Unseen => Versions(first[u])
      PROVE  ViewsInv'
    <2>1. /\ view'[u] = k /\ first'[u] \in {first[u], k}
          /\ \A w \in Watcher : w # u => view'[w] = view[w] /\ first'[w] = first[w]
          /\ view' \in [Watcher -> [VM -> 0..MaxVer]] /\ first' \in [Watcher -> [VM -> 0..MaxVer]]
        BY <1>3, <1>5
    <2>2. first'[u] = first[u] \/ first'[u] = k
        BY <2>1
    <2>3. k # Unseen => Versions(first'[u])
        BY <1>3, <1>5
    <2>4. ASSUME NEW w \in Watcher, view'[w] # Unseen PROVE Versions(view'[w]) /\ Versions(first'[w])
        BY <1>2, <1>5, <2>1, <2>3, <2>4
    <2> QED
        BY <1>5, <2>1, <2>4 DEF ViewsInv, Versions, Unseen
<1>6. \A k \in [VM -> 1..MaxVer] : (\A v \in VM : k[v] <= Len(cn[v])) => Versions(k)
    BY DEF Versions
<1>7. ASSUME NEW u \in Watcher, FirstLook(u) PROVE ViewsInv'
    <2>1. PICK k \in [VM -> 1..MaxVer] :
             /\ \A v \in VM : k[v] <= Len(cn[v])
             /\ view' = [view EXCEPT ![u] = k] /\ first' = [first EXCEPT ![u] = k]
        BY <1>7 DEF FirstLook, Looks
    <2>2. Versions(k) /\ k \in [VM -> 0..MaxVer]
        BY <1>6, <2>1, VersionsTyped
    <2>3. UNCHANGED cn
        BY <1>7 DEF FirstLook, watcherVars
    <2>4. CASE UNCHANGED first
        <3>1. first[u] = k
            BY <1>3, <2>1, <2>4
        <3> QED
            BY <1>5, <2>1, <2>2, <2>3, <2>4, <3>1
    <2>5. CASE ~UNCHANGED first
        BY <1>5, <2>1, <2>2, <2>3, <2>5
    <2> QED
        BY <2>4, <2>5
<1>8. ASSUME NEW u \in Watcher, Report(u) PROVE ViewsInv'
    <2>1. PICK k \in [VM -> 1..MaxVer] :
             (\A v \in VM : k[v] <= Len(cn[v])) /\ view' = [view EXCEPT ![u] = k]
        BY <1>8 DEF Report, Looks
    <2>2. Versions(k) /\ k \in [VM -> 0..MaxVer]
        BY <1>6, <2>1, VersionsTyped
    <2>3. UNCHANGED <<cn, first>> /\ Versions(first[u])
        BY <1>2, <1>8 DEF Report
    <2> QED
        BY <1>5, <2>1, <2>2, <2>3
<1>9. ASSUME NEW u \in Watcher, Forget(u) PROVE ViewsInv'
    <2>1. Unseen \in [VM -> 0..MaxVer]
        BY Bounds DEF Unseen
    <2> QED
        BY <1>5, <1>9, <2>1 DEF Forget, watcherVars
<1> QED
    BY <1>4, <1>7, <1>8, <1>9 DEF Next, EmitImmediately, Lookup, ListenerLooks, vars, watcherVars

LEMMA SteadyStep ==
    ASSUME SilentInv, [Next]_vars, NEW v \in VM, Steady(v)'
    PROVE  OfSteady(v)'
<1>1. Len(cn[v]) \in Nat /\ WatcherInv
    BY SteadyTyped DEF SilentInv
<1>2. CASE /\ cn'[v] = cn[v] /\ knownVms'[v] = knownVms[v] /\ UNCHANGED <<view, first>>
           /\ told'[v] \in {told[v], Len(cn[v])}
           /\ v \in emits' => v \in emits
           /\ v \in emits => v \in emits' \/ told'[v] = Len(cn[v])
    <2>1. Steady(v)
        BY <1>2 DEF Steady
    <2> QED
        BY <1>2, <2>1, QuietKeepsSteady
<1>3. ASSUME NEW u \in VM, CnChange(u), UNCHANGED <<knownVms, emits, told, view, first>>
      PROVE  OfSteady(v)'
    <2>1. PICK o \in VmState : Becomes(u, o)
        BY <1>1, <1>3, CnChangeBecomes
    <2>2. CASE u = v
        BY <1>3, <2>1, <2>2, ChangeKeepsSteady
    <2>3. CASE u # v
        <3>1. cn'[v] = cn[v]
            BY <1>1, <1>3, <2>3, QuotaOfNext
        <3> QED
            BY <1>2, <1>3, <3>1
    <2> QED
        BY <2>2, <2>3
<1>4. ASSUME NEW u \in VM, EmitImmediately(u), UNCHANGED <<view, first>> PROVE OfSteady(v)'
    <2>1. /\ emits' = emits \ {u} /\ told' = [told EXCEPT ![u] = Len(cn[u])] /\ UNCHANGED <<cn, knownVms>>
        BY <1>4 DEF EmitImmediately
    <2>2. told'[v] = IF v = u THEN Len(cn[v]) ELSE told[v]
        BY <1>1, <2>1 DEF WatcherInv
    <2> QED
        BY <1>2, <1>4, <2>1, <2>2
<1>5. CASE Lookup
    BY <1>2, <1>5 DEF Lookup, ListenerLooks
<1>6. CASE UNCHANGED vars
    BY <1>2, <1>6 DEF vars, watcherVars
<1>7. ASSUME NEW u \in Watcher, FirstLook(u) \/ Forget(u) \/ Report(u) PROVE OfSteady(v)'
    <2>1. UNCHANGED cn
        BY <1>7 DEF FirstLook, Forget, Report, watcherVars
    <2>2. Steady(v)
        BY <2>1 DEF Steady
    <2> QED
        BY <1>7, <2>2, FirstLookKeepsSteady, ForgetKeepsSteady, ReportKeepsSteady
<1> QED
    BY <1>3, <1>4, <1>5, <1>6, <1>7 DEF Next

LEMMA SilentStep == SilentInv /\ [Next]_vars => SilentInv'
<1> SUFFICES ASSUME SilentInv, [Next]_vars PROVE SilentInv'
    OBVIOUS
<1>1. WatcherInv /\ Versions(told) /\ HistoryInv /\ QuotaInv
    BY DEF SilentInv
<1>2. WatcherInv'
    <2>1. ASSUME NEW u \in Watcher, Report(u) PROVE WatcherInv'
        <3>1. u \in {"fs", "zoneevent", "periodic", "vmadm"}
            BY WatcherNames
        <3> QED
            BY <1>1, <2>1, <3>1, ReportInv DEF Report
    <2> QED
        BY <1>1, <2>1, CnChangeInv, EmitInv, LooksInv, StutterInv DEF Next, Lookup, FirstLook, Forget, vars
<1>3. /\ UNCHANGED cn \/ \E v \in VM : CnChange(v)
      /\ \/ \E v \in VM : CnChange(v) /\ UNCHANGED told
         \/ UNCHANGED <<cn, told>>
         \/ \E v \in VM : EmitImmediately(v)
         \/ ListenerLooks
    BY DEF Next, EmitImmediately, Lookup, ListenerLooks, FirstLook, Forget, Report, vars, watcherVars
<1>4. HistoryInv' /\ Versions(told)'
    BY <1>1, <1>3, HistoryStays, ToldStays
<1>5. QuotaInv'
    <2>1. CASE UNCHANGED cn
        BY <1>1, <2>1 DEF QuotaInv
    <2> QED
        BY <1>1, <1>3, <2>1, QuotaStays
<1> QED
    BY <1>2, <1>4, <1>5, ViewsStay, SteadyStep DEF SilentInv

LEMMA SilentTold == SilentInv => NoSilentChange
<1> SUFFICES ASSUME SilentInv, NEW v \in VM, Settled(v), Steady(v), NEW w \in Watcher
             PROVE  UpToDate(w, v)
    BY DEF NoSilentChange
<1> DEFINE n == Len(cn[v])
<1>1. /\ n \in Nat /\ n >= 1 /\ told[v] \in Nat /\ told[v] >= 1 /\ told[v] <= n /\ Last(v) = cn[v][n]
    BY SteadyTyped
<1>2. v \notin emits /\ view[w][v] = n /\ view[w] # Unseen
    BY <1>1 DEF Settled, Unseen
<1>3. first[w][v] \in 1..n /\ first[w][v] \in Nat /\ told[v] \in 1..n /\ n \in 1..n
    BY <1>1, <1>2, ViewBounds
<1>4. OfSteady(v)
    BY DEF SilentInv
<1>5. CASE Last(v).exists
    <2>1. PICK i \in 1..n : /\ i <= told[v] \/ i <= first[w][v]
                            /\ LooksLike(w, cn[v][i], cn[v][n])
        BY <1>2, <1>4, <1>5 DEF OfSteady, SeenTold
    <2>2. CASE i <= told[v]
        BY <1>1, <1>3, <1>5, <2>1, <2>2, LooksBetween DEF UpToDate
    <2>3. CASE ~(i <= told[v])
        <3>1. first[w][v] > told[v] /\ i <= first[w][v] /\ first[w][v] <= n
            BY <1>1, <1>3, <2>1, <2>3
        <3>2. LooksLike(w, cn[v][first[w][v]], cn[v][n])
            BY <1>3, <1>5, <2>1, <3>1, LooksBetween
        <3> QED
            BY <1>1, <3>1, <3>2 DEF UpToDate
    <2> QED
        BY <2>2, <2>3
<1>6. CASE ~Last(v).exists /\ w = "zoneevent"
    BY <1>6 DEF UpToDate, LooksLike
<1>7. CASE ~Last(v).exists /\ w # "zoneevent"
    <2>1. told[v] = n \/ first[w][v] = n
        BY <1>2, <1>4, <1>7 DEF OfSteady, DeletionTold
    <2>2. told[v] = n \/ (first[w][v] = n /\ first[w][v] > told[v])
        BY <1>1, <1>3, <2>1
    <2>3. LooksLike(w, Last(v), Last(v))
        BY DEF LooksLike
    <2> QED
        BY <1>1, <2>2, <2>3 DEF UpToDate
<1> QED
    BY <1>5, <1>6, <1>7

\* NoSilentChange holds always: of a steady VM a report that is taken for a repetition
\* repeats what the listener was told, for any mix of watchers, however they lapse, and
\* for any history and any resolution of vmadm's times (lib/vm-watcher.js:37-43, 164-345).
THEOREM NoChangeIsSilent == Spec => []NoSilentChange
BY SilentInit, SilentStep, SilentTold, PTL DEF Spec
=============================================================================

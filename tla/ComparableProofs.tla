-------------------------- MODULE ComparableProofs --------------------------
(***************************************************************************)
(* The comparison of VmAgent's startup is exact for any fields and values. *)
(***************************************************************************)
EXTENDS Comparable, TLAPS

\* Of what vmadm shows nothing is skipped.
LEMMA ComparableVmadm ==
    ASSUME NEW vm \in VmadmObj
    PROVE  MakeComparable(vm, "vmadm") = vm
  <1>1. PICK S \in SUBSET Field : vm \in [S -> Value]
    BY DEF VmadmObj, VmObj
  <1>2. {g \in DOMAIN vm : ~("vmadm" = "vmapi" /\ g \in AlwaysSet /\ vm[g] = Default)} = DOMAIN vm
    OBVIOUS
  <1>3. vm = [f \in DOMAIN vm |-> vm[f]]
    BY <1>1
  <1> QED
    BY <1>2, <1>3 DEF MakeComparable

\* If what is left of VMAPI's record is the VM, VMAPI shows the VM already.
LEMMA ComparableThenShown ==
    ASSUME NEW vm \in VmadmObj, NEW stored \in VmObj,
           MakeComparable(Shown(stored), "vmapi") = vm
    PROVE  Shown(stored) = Shown(vm)
  <1> DEFINE R == Shown(stored)
             C == MakeComparable(R, "vmapi")
  <1>1. PICK S \in SUBSET Field : stored \in [S -> Value]
    BY DEF VmObj
  <1>2. /\ DOMAIN R = S \cup Defaulted
        /\ R = [f \in DOMAIN R |-> R[f]]
    BY <1>1 DEF Shown
  <1>3. /\ DOMAIN C = {g \in DOMAIN R : ~(g \in AlwaysSet /\ R[g] = Default)}
        /\ \A f \in DOMAIN C : C[f] = R[f]
    BY DEF MakeComparable
  <1>4. DOMAIN Shown(vm) = DOMAIN vm \cup Defaulted
    BY DEF Shown
  <1>5. DOMAIN R = DOMAIN vm \cup Defaulted
    BY <1>2, <1>3, FieldAssumption
  <1>6. ASSUME NEW f \in DOMAIN R PROVE R[f] = Shown(vm)[f]
    <2>1. CASE f \in DOMAIN vm
      BY <1>3, <2>1 DEF Shown
    <2>2. CASE f \notin DOMAIN vm
      <3>1. Shown(vm)[f] = Default
        BY <1>5, <1>6, <2>2 DEF Shown
      <3>2. R[f] = Default
        BY <1>3, <1>6, <2>2
      <3> QED
        BY <3>1, <3>2
    <2> QED
      BY <2>1, <2>2
  <1>7. Shown(vm) = [f \in DOMAIN R |-> Shown(vm)[f]]
    BY <1>5 DEF Shown
  <1> QED
    BY <1>2, <1>6, <1>7

\* What VMAPI adds to a VM of vmadm is skipped again.
LEMMA ShownThenComparable ==
    ASSUME NEW vm \in VmadmObj
    PROVE  MakeComparable(Shown(vm), "vmapi") = vm
  <1> DEFINE R == Shown(vm)
             C == MakeComparable(R, "vmapi")
  <1>1. PICK S \in SUBSET Field : vm \in [S -> Value]
    BY DEF VmadmObj, VmObj
  <1>2. /\ Defaulted \ AlwaysSet \subseteq DOMAIN vm
        /\ \A f \in DOMAIN vm \cap AlwaysSet : vm[f] # Default
    BY DEF VmadmObj
  <1>3. /\ DOMAIN R = DOMAIN vm \cup Defaulted
        /\ \A f \in DOMAIN R : R[f] = IF f \in DOMAIN vm THEN vm[f] ELSE Default
    BY DEF Shown
  <1>4. /\ DOMAIN C = {g \in DOMAIN R : ~(g \in AlwaysSet /\ R[g] = Default)}
        /\ C = [f \in DOMAIN C |-> R[f]]
    BY DEF MakeComparable
  <1>5. DOMAIN C = DOMAIN vm
    BY <1>2, <1>3, <1>4
  <1>6. vm = [f \in DOMAIN vm |-> vm[f]]
    BY <1>1
  <1> QED
    BY <1>3, <1>4, <1>5, <1>6

\* For any watched fields, defaults and values, startup puts exactly the VMs that VMAPI
\* would show otherwise afterwards (lib/vm-agent.js:604-637).
THEOREM ComparisonIsExact == UpdatesWhatDiffers
  <1> SUFFICES ASSUME NEW vm \in VmadmObj, NEW stored \in VmObj
               PROVE  IsUpdated(vm, Shown(stored)) <=> Shown(stored) # Shown(vm)
    BY DEF UpdatesWhatDiffers
  <1>1. IsUpdated(vm, Shown(stored)) <=> MakeComparable(Shown(stored), "vmapi") # vm
    BY ComparableVmadm DEF IsUpdated
  <1>2. CASE MakeComparable(Shown(stored), "vmapi") = vm
    BY <1>1, <1>2, ComparableThenShown
  <1>3. CASE Shown(stored) = Shown(vm)
    BY <1>1, <1>3, ShownThenComparable
  <1> QED
    BY <1>1, <1>2, <1>3
=============================================================================

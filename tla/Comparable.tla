----------------------------- MODULE Comparable -----------------------------
(***************************************************************************)
(* What VmAgent compares at startup (lib/vm-agent.js:604-637, 743-776): a  *)
(* VM as vmadm shows it with the same VM as VMAPI shows it, which adds     *)
(* fields that were never stored.  The other modules call a VM of VMAPI    *)
(* and one of the CN the same version or not; here is what that means.     *)
(***************************************************************************)
EXTENDS Naturals

CONSTANTS
    Field,      \* VmWatcher.WATCHED_FIELDS
    Defaulted,  \* those VMAPI shows with a default when they are not stored
    AlwaysSet,  \* VMAPI_ALWAYS_SET_FIELDS: those of them that vmadm shows only when they are set
    Value,      \* values of a field
    Default     \* the one that VMAPI shows when there is none

ASSUME FieldAssumption == AlwaysSet \subseteq Defaulted /\ Defaulted \subseteq Field
ASSUME DefaultAssumption == Default \in Value

\* VM objects, as far as they are compared: some of the fields with a value.
VmObj == UNION {[S -> Value] : S \in SUBSET Field}

\* VM objects of vmadm, by the comment in lib/vmapi-client.js:20-44 and
\* tests/test.VmapiFields.js: an always-set field is there only with a value of its own.
VmadmObj ==
    {o \in VmObj : /\ Defaulted \ AlwaysSet \subseteq DOMAIN o
                   /\ \A f \in DOMAIN o \cap AlwaysSet : o[f] # Default}

\* VMAPI's answer for a VM stored as obj.
Shown(obj) ==
    [f \in DOMAIN obj \cup Defaulted |-> IF f \in DOMAIN obj THEN obj[f] ELSE Default]

MakeComparable(vmobj, source) ==
    [f \in {g \in DOMAIN vmobj : ~(source = "vmapi" /\ g \in AlwaysSet /\ vmobj[g] = Default)}
        |-> vmobj[f]]

\* Is a VM that vmadm shows as vm, and VMAPI as record, put to VMAPI?
IsUpdated(vm, record) == MakeComparable(vm, "vmadm") # MakeComparable(record, "vmapi")

\* A VM is put at startup exactly if VMAPI shows it otherwise than it will once it is
\* put: no difference is missed, and no VM is put on every restart
\* (lib/vmapi-client.js:41-48), whatever VMAPI has stored.
UpdatesWhatDiffers ==
    \A vm \in VmadmObj, stored \in VmObj : IsUpdated(vm, Shown(stored)) <=> Shown(stored) # Shown(vm)
=============================================================================

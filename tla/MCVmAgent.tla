----------------------------- MODULE MCVmAgent -----------------------------
EXTENDS VmAgent, TLC

\* Nothing in the code tells one uuid from another.
Symmetry == Permutations(VM)
=============================================================================

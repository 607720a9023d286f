------------------------------- MODULE MCCore -------------------------------
EXTENDS VmAgent, Comparable, TLC

\* Nothing in the code tells one uuid from another.
Symmetry == Permutations(VM)

\* TLC evaluates the comparison of startup over all VM objects of a few fields.
ASSUME ComparisonAssumption == UpdatesWhatDiffers
=============================================================================

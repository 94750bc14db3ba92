-------------------------- MODULE MCWorkspaceBridge --------------------------
\* Small instances of WorkspaceBridge for TLC.
EXTENDS WorkspaceBridge, TLC

Symmetry == Permutations(Reqs) \union Permutations(Years \ DefaultYears)
=============================================================================

--------------------------- MODULE MCReviewExport ---------------------------
\* Small instances of ReviewExport for TLC.
EXTENDS ReviewExport, TLC

Symmetry == Permutations(Items) \union Permutations(Docs) \union Permutations(Exports)
=============================================================================

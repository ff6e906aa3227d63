---------------------------- MODULE MCDatasetRun ----------------------------
\* Small sets of collections for TLC.
EXTENDS DatasetRun, TLC

CONSTANTS c1, c2, c3, c4

Two   == {c1, c2}
Three == {c1, c2, c3}

\* Files of a collection that is not in the secret.
TwoAndMore == {c1, c2, c4}

TwoSymmetry == Permutations(Two)
=============================================================================

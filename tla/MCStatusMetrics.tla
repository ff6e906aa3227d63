--------------------------- MODULE MCStatusMetrics ---------------------------
\* The steps of MCAdgCluster, with the second script.
EXTENDS MCAdgCluster, StatusMetrics
=============================================================================

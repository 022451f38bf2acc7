--------------------------- MODULE MCUpdateManager ---------------------------
EXTENDS UpdateManager
CONSTANTS c1, c2, c3
=============================================================================

---------------------------- MODULE MCSyncOutbox ----------------------------
EXTENDS SyncOutbox
CONSTANTS p1, p2, s1, s2
=============================================================================

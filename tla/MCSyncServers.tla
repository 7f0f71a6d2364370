---------------------------- MODULE MCSyncServers ----------------------------
(* Two configurations suffice: the daemon only compares them.               *)
EXTENDS SyncServers

CONSTANTS c1, c2
=============================================================================

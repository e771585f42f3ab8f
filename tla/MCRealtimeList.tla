---------------------------- MODULE MCRealtimeList ----------------------------
(* Small instances of a resource list for TLC.                             *)
EXTENDS RealtimeList

(* One type of each sort: rows keyed like the DELETED events, rows keyed   *)
(* otherwise, and rows that are polled beside the watch.                   *)
Sorts == {"deployments", "persistentvolumes", "customresources"}
=============================================================================

-------------------------- MODULE MCRealtimeSocket --------------------------
(* Small instances of the shared WebSocket for TLC.                        *)
EXTENDS RealtimeSocket

CONSTANTS h1, h2, h3, pods, nodes

(* Two hooks list the same resource, one lists another.                    *)
Lists == [h \in Hook |-> IF h = h3 THEN nodes ELSE pods]
=============================================================================

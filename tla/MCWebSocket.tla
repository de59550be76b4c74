----------------------------- MODULE MCWebSocket ----------------------------
(* Small instances of one end of a connection for TLC.                     *)
EXTENDS WebSocket

CallsOfRoles == [client |-> 1, server |-> 2]
=============================================================================

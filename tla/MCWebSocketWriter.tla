------------------------- MODULE MCWebSocketWriter -------------------------
(* Small instances of WebSocketWriter; the bounds are in the cfg files. *)
EXTENDS WebSocketWriter
=============================================================================

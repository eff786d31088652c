---------------------------- MODULE MCWebSocketHub ----------------------------
(* Model-checking instance of WebSocketHub. *)
EXTENDS WebSocketHub, TLC
=============================================================================

----------------------------- MODULE MCWsClient -----------------------------
(* Instances of WsClient for TLC. *)
EXTENDS WsClient

CONSTANTS a, b, none \* listeners, and none
=============================================================================

----------------------------- MODULE MCWsSession -----------------------------
(* Instances of WsSession for TLC. *)
EXTENDS WsSession

MCTokenExps == {0, 3}
=============================================================================

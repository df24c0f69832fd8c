----------------------------- MODULE MCWsClient -----------------------------
(* The instance of WsClient that TLC explores: a channel of two slots and
   wires of two frames, so that both fill up. *)
EXTENDS WsClient
=============================================================================

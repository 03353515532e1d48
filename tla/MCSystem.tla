------------------------------ MODULE MCSystem ------------------------------
(***************************************************************************)
(* System for TLC: a client that subscribes and unsubscribes.              *)
(***************************************************************************)
EXTENDS System

Messages(type, payloads) == [type : {type}, id : IDs, payload : payloads]

ClientTraffic ==
  UNION { Messages("connection_init", {"ok"}), Messages("start", {"ok", "invalid"}),
          Messages("stop", {"ok"}) }
=============================================================================

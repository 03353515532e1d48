------------------------------- MODULE MCConn -------------------------------
(***************************************************************************)
(* Conn for TLC: the client's messages of each run.                        *)
(***************************************************************************)
EXTENDS ConnInv, ConnClaims

Messages(type, payload) == [type : {type}, id : IDs, payload : {payload}]

InitTraffic == Messages("connection_init", "ok")

(* The handshake, a subscription, an error under the read lock, an EOF, a close()
   and a panic of processMessages, and a message without effect.  The two messages
   left out, a start with a refused query and a stop that is served, end like
   "unknown" or in a panic of a handler; System has them. *)
CoreTraffic ==
  UNION { InitTraffic, Messages("connection_terminate", "ok"),
          Messages("start", "ok"), Messages("start", "bad"),
          Messages("stop", "bad"), Messages("stop", "empty"), Messages("unknown", "ok") }

(* The messages that make processMessages use the lock and the channels. *)
LockTraffic ==
  UNION { InitTraffic, Messages("start", "bad"), Messages("stop", "empty") }

(* A handshake, subscriptions and their end. *)
SubscriptionTraffic ==
  UNION { InitTraffic, Messages("start", "ok"), Messages("stop", "empty") }

TerminateTraffic == Messages("connection_terminate", "ok") \cup Messages("unknown", "ok")
=============================================================================

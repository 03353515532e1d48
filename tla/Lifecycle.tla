------------------------------ MODULE Lifecycle ------------------------------
(***************************************************************************)
(* What a connection promises to its handlers and to the goroutines that   *)
(* share it, whoever closes it and however often:                          *)
(*                                                                         *)
(*   - it is torn down once and in one order: shutdown is signalled, the   *)
(*     WebsocketCloseHandlers are called, the outgoing and then the        *)
(*     incoming channel are closed, and the websocket last;                *)
(*   - a subscription exists only on a connection whose connection_init    *)
(*     was accepted, and stays in the table for good.                      *)
(*                                                                         *)
(* The teardown may stop on the way (a handler failed, the process died).  *)
(* There are no goroutines here, no lock and no state to check: these are  *)
(* how Conn keeps the promise.                                             *)
(***************************************************************************)
EXTENDS Naturals

CONSTANT IDs

VARIABLES signalled, notified, outClosed, inClosed, wsClosed, accepted, subscriptions

teardown      == <<signalled, notified, outClosed, inClosed, wsClosed>>
lifecycleVars == <<teardown, accepted, subscriptions>>

LInit ==
  /\ signalled = FALSE /\ notified = 0
  /\ outClosed = FALSE /\ inClosed = FALSE /\ wsClosed = FALSE
  /\ accepted = FALSE /\ subscriptions = {}

Signal ==
  /\ ~signalled
  /\ signalled' = TRUE
  /\ UNCHANGED <<notified, outClosed, inClosed, wsClosed>>

Notify ==
  /\ signalled /\ notified = 0
  /\ notified' = 1
  /\ UNCHANGED <<signalled, outClosed, inClosed, wsClosed>>

CloseOut ==
  /\ notified = 1 /\ ~outClosed
  /\ outClosed' = TRUE
  /\ UNCHANGED <<signalled, notified, inClosed, wsClosed>>

CloseIn ==
  /\ outClosed /\ ~inClosed
  /\ inClosed' = TRUE
  /\ UNCHANGED <<signalled, notified, outClosed, wsClosed>>

CloseWs ==
  /\ inClosed /\ ~wsClosed
  /\ wsClosed' = TRUE
  /\ UNCHANGED <<signalled, notified, outClosed, inClosed>>

TearDown ==
  /\ Signal \/ Notify \/ CloseOut \/ CloseIn \/ CloseWs
  /\ UNCHANGED <<accepted, subscriptions>>

Accept ==
  /\ accepted' = TRUE
  /\ UNCHANGED <<teardown, subscriptions>>

Subscribe(id) ==
  /\ accepted
  /\ subscriptions' = subscriptions \cup {id}
  /\ UNCHANGED <<teardown, accepted>>

LNext == TearDown \/ Accept \/ \E id \in IDs : Subscribe(id)

LSpec == LInit /\ [][LNext]_lifecycleVars
=============================================================================

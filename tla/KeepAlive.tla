------------------------------ MODULE KeepAlive ------------------------------
(***************************************************************************)
(* The keep-alive of a connection, in discrete time: the ping ticker of    *)
(* processMessages, the read deadline that pongHandler sets, and a client  *)
(* that answers every ping within Lag ticks (network and handlers          *)
(* included) until it falls silent.                                        *)
(***************************************************************************)
EXTENDS Integers

CONSTANTS
  PongWait,   \* Config.PongWait, in ticks
  Lag         \* the ticks from the ticker to the call of pongHandler, at most

(* Variant: the ticker has no margin. *)
PingPeriodFull == PongWait

(* pingTicker := time.NewTicker((pongWait * 9) / 10) *)
PingPeriod == (PongWait * 9) \div 10

(* NewTicker panics unless the period is positive; Lag is within the margin that
   the ticker leaves to a responsive client. *)
ASSUME KeepAliveAssumption ==
  /\ PongWait \in Nat \ {0, 1} /\ Lag \in Nat
  /\ Lag < PongWait - (PongWait * 9) \div 10

NoDeadline == -1
NoPing     == -1

VARIABLES
  ticker,     \* ticks until pingTicker fires
  pending,    \* the age of the ping the client has to answer, or NoPing
  deadline,   \* ticks until the read deadline, or NoDeadline
  quiet,      \* history: ticks since the last message to the client, up to PongWait
  silent,     \* the client has stopped answering
  up,         \* the connection
  pinged      \* history: quiet when the last ping was sent

vars == <<ticker, pending, deadline, quiet, silent, up, pinged>>

(* readPump sets no deadline before the first pong. *)
Init ==
  /\ ticker = PingPeriod /\ pending = NoPing /\ deadline = NoDeadline
  /\ quiet = 0 /\ silent = FALSE /\ up = TRUE /\ pinged = PongWait

(* Time passes, unless something is due now. *)
Tick ==
  /\ up /\ ticker > 0 /\ deadline # 0
  /\ pending < Lag \/ silent
  /\ ticker' = ticker - 1
  /\ pending' = IF pending = NoPing \/ silent THEN pending ELSE pending + 1
  /\ deadline' = IF deadline = NoDeadline THEN deadline ELSE deadline - 1
  /\ quiet' = IF quiet = PongWait THEN quiet ELSE quiet + 1
  /\ UNCHANGED <<silent, up, pinged>>

(* Variant: a ping moves the read deadline. *)
PingExtends ==
  /\ up /\ ticker = 0
  /\ ticker' = PingPeriod
  /\ pending' = 0
  /\ pinged' = quiet
  /\ deadline' = IF deadline = NoDeadline THEN deadline ELSE PongWait
  /\ UNCHANGED <<quiet, silent, up>>

(* The ticker fires, whatever has been sent, and a ping is written. *)
Ping ==
  /\ up /\ ticker = 0
  /\ ticker' = PingPeriod
  /\ pending' = 0
  /\ pinged' = quiet
  /\ UNCHANGED <<deadline, quiet, silent, up>>

(* The pong is read. *)
PongHandler ==
  /\ up /\ ~silent /\ pending # NoPing
  /\ pending' = NoPing
  /\ deadline' = PongWait
  /\ UNCHANGED <<ticker, quiet, silent, up, pinged>>

(* ReadJSON fails with a timeout; the connection is closed. *)
ReadTimeout ==
  /\ up /\ deadline = 0
  /\ up' = FALSE
  /\ UNCHANGED <<ticker, pending, deadline, quiet, silent, pinged>>

(* processOutgoingMessage writes a message; the ticker goes on. *)
Message ==
  /\ up /\ quiet' = 0
  /\ UNCHANGED <<ticker, pending, deadline, silent, up, pinged>>

GoSilent ==
  /\ up /\ silent' = TRUE
  /\ UNCHANGED <<ticker, pending, deadline, quiet, up, pinged>>

Next == Tick \/ Ping \/ PongHandler \/ ReadTimeout \/ Message \/ GoSilent

Spec == Init /\ [][Next]_vars

(* Time passes, and what is due happens. *)
FairSpec == Spec /\ WF_vars(Tick) /\ WF_vars(Ping) /\ WF_vars(PongHandler) /\ WF_vars(ReadTimeout)

(***************************************************************************)
(* Properties.                                                             *)
(***************************************************************************)
(* A client that answers every ping is never timed out: a ping is sent, and its
   pong read, before the deadline set by the last pong. *)
ResponsiveClientStays == deadline = 0 => silent

(* A client that falls silent after its first pong is timed out. *)
SilentClientEnds == silent /\ deadline # NoDeadline ~> ~up

(* config.go:28, "PongWait is how much time we will wait without sending any message
   to the client before sending a PONG": a ping is sent only after PongWait, or at
   least the nine tenths of it that the ticker takes, without a message. *)
PingsWhenQuiet == pinged >= PingPeriod
=============================================================================

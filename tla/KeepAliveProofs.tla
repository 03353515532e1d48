--------------------------- MODULE KeepAliveProofs ---------------------------
(***************************************************************************)
(* A responsive client is never timed out, for every PongWait and every    *)
(* delay within the margin of the ticker.                                  *)
(***************************************************************************)
EXTENDS KeepAlive, TLAPS

(* The timers stay in their ranges. *)
Timers ==
  /\ ticker \in 0 .. PingPeriod
  /\ pending \in NoPing .. Lag
  /\ deadline \in NoDeadline .. PongWait
  /\ silent \in BOOLEAN

(* A ping that waits for its pong was sent by the last shot of the ticker. *)
OnePing == ~silent /\ pending # NoPing => ticker + pending = PingPeriod

(* The deadline is behind the next shot of the ticker by more than the client
   needs; once a ping is out, it is behind the latest time of its pong. *)
Margin ==
  ~silent /\ deadline # NoDeadline =>
    IF pending = NoPing THEN deadline > ticker + Lag ELSE deadline + pending > Lag

Inv == Timers /\ OnePing /\ Margin

(* The ticker is slower than a client that answers in time: a ping is answered
   before the next one. *)
LEMMA PeriodExceedsLag ==
  PingPeriod \in Nat /\ Lag < PingPeriod /\ Lag < PongWait - PingPeriod
  BY KeepAliveAssumption DEF PingPeriod

(* Every step keeps the margin. *)
LEMMA NextInv == Inv /\ [Next]_vars => Inv'
  <1> SUFFICES ASSUME Inv, [Next]_vars PROVE Inv'
    OBVIOUS
  <1> USE KeepAliveAssumption, PeriodExceedsLag DEF Inv, Timers, OnePing, Margin, NoPing, NoDeadline
  <1>1. CASE Tick
    BY <1>1 DEF Tick
  <1>2. CASE Ping
    BY <1>2 DEF Ping
  <1>3. CASE PongHandler
    BY <1>3 DEF PongHandler
  <1>4. CASE ReadTimeout
    BY <1>4 DEF ReadTimeout
  <1>5. CASE Message
    BY <1>5 DEF Message
  <1>6. CASE GoSilent
    BY <1>6 DEF GoSilent
  <1>7. CASE UNCHANGED vars
    BY <1>7 DEF vars
  <1> QED
    BY <1>1, <1>2, <1>3, <1>4, <1>5, <1>6, <1>7 DEF Next

(* A client that answers every ping within Lag, for every Lag below the tenth of
   PongWait that the ticker leaves (connection.go, processMessages and
   pongHandler), never runs into its read deadline. *)
THEOREM ResponsiveStays == Spec => []ResponsiveClientStays
  <1>1. Init => Inv
    <2> SUFFICES ASSUME Init PROVE Inv
      OBVIOUS
    <2>1. ticker = PingPeriod /\ pending = NoPing /\ deadline = NoDeadline
      BY DEF Init
    <2>2. silent \in BOOLEAN
      BY DEF Init
    <2> QED
      BY <2>1, <2>2, KeepAliveAssumption, PeriodExceedsLag
         DEF Inv, Timers, OnePing, Margin, NoPing, NoDeadline
  <1>2. Inv => ResponsiveClientStays
    BY KeepAliveAssumption, PeriodExceedsLag
       DEF Inv, Timers, OnePing, Margin, NoPing, NoDeadline, ResponsiveClientStays
  <1> QED
    BY <1>1, <1>2, NextInv, PTL DEF Spec
=============================================================================

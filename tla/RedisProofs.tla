----------------------------- MODULE RedisProofs -----------------------------
(***************************************************************************)
(* Proofs of the safety properties of Redis, for every set of readers and  *)
(* ids, every limit of SUBSCRIBE errors and every set of faults.           *)
(***************************************************************************)
EXTENDS Redis, TLAPS

USE RedisAssumption
USE DEF Callers, Proc, Closer, None, ReaderLabels, CallerLabels, env, reader, caller

(* HandleWebsocketClose is called once: before Conn.close() begins nobody runs
   it, and every id that Range has still to visit has a reader. *)
CloserInv ==
  /\ conn = "open" => cpc[Closer] = "idle"
  /\ \A id \in todo : table[id] # NoReader

(* From the state check of readLoop on, a reader that is closed while it has an
   open connection in the field has its closer on the way to that connection. *)
WakeInv ==
  \A r \in Readers :
    rstate[r] = "closed" /\ rpc[r] \in {"load", "receive"} /\ open[r] /\ pubSub[r] = "current"
      => \E c \in Callers : target[c] = r /\ cpc[c] \in {"load", "close"}

Inv == TypeOK /\ CloserInv /\ OneConnection /\ WakeInv

(* An update of a table of flags. *)
LEMMA UpdateFlag ==
  ASSUME NEW S, NEW f \in [S -> BOOLEAN], NEW x \in S, NEW b \in BOOLEAN
  PROVE  /\ [f EXCEPT ![x] = b] \in [S -> BOOLEAN]
         /\ \A y \in S : [f EXCEPT ![x] = b][y] <=> IF y = x THEN b ELSE f[y]
  BY Zenon

(* The initial states satisfy the invariant. *)
LEMMA InitInv == Init => Inv
  <1> SUFFICES ASSUME Init PROVE Inv
    OBVIOUS
  <1>1. crashed \in BOOLEAN
    BY DEF Init
  <1>2. open = [r \in Readers |-> FALSE]
    BY DEF Init
  <1>3. open \in [Readers -> BOOLEAN] /\ \A r \in Readers : ~open[r]
    BY <1>2
  <1>4. TypeOK
    BY <1>1, <1>3 DEF Init, TypeOK
  <1> QED
    BY <1>3, <1>4 DEF Init, Inv, CloserInv, OneConnection, WakeInv

(* The steps of the handler, which the connection calls. *)
LEMMA HandlerInv ==
  ASSUME Inv, Handler
  PROVE  Inv'
  <1> USE DEF Inv, TypeOK, CloserInv, OneConnection, WakeInv, GoTo, CallerAt
  <1>1. ASSUME NEW id \in IDs, StartMessage(id) PROVE Inv'
    BY <1>1 DEF StartMessage
  <1>2. ASSUME NEW id \in IDs, HandleSubscriptionStop(id) PROVE Inv'
    BY <1>2 DEF HandleSubscriptionStop
  <1>3. CASE HandleSubscriptionStart
    BY <1>3 DEF HandleSubscriptionStart
  <1>4. CASE StartFails
    BY <1>4 DEF StartFails
  <1>5. CASE ConnCloses
    BY <1>5 DEF ConnCloses, BeginClose
  <1>6. CASE HandleWebsocketClose
    BY <1>6 DEF HandleWebsocketClose
  <1>7. CASE RangeNext
    BY <1>7 DEF RangeNext
  <1>8. CASE RangeDone
    BY <1>8 DEF RangeDone
  <1>9. CASE ConnClosed
    BY <1>9 DEF ConnClosed
  <1>10. CASE CloserCrashes
    BY <1>10 DEF CloserCrashes
  <1> QED
    BY <1>1, <1>2, <1>3, <1>4, <1>5, <1>6, <1>7, <1>8, <1>9, <1>10 DEF Handler

(* The steps of reader.close(). *)
LEMMA CloseReaderInv ==
  ASSUME Inv, NEW c \in Callers, CloseReader(c)
  PROVE  Inv'
  <1> USE DEF Inv, TypeOK, CloserInv, OneConnection, WakeInv, CallerAt, CallerReturns
  <1>1. CASE CloseCheck(c)
    BY <1>1 DEF CloseCheck
  <1>2. CASE CloseSetState(c)
    BY <1>2 DEF CloseSetState
  <1>3. CASE CloseLoad(c)
    BY <1>3 DEF CloseLoad
  <1>4. CASE ClosePubSub(c)
    <2>1. open' = [open EXCEPT ![target[c]] = open[target[c]] /\ pubSub[target[c]] # "current"]
      BY <1>4 DEF ClosePubSub
    <2>2. /\ open' \in [Readers -> BOOLEAN]
          /\ \A r \in Readers :
               open'[r] <=> IF r = target[c] THEN open[r] /\ pubSub[r] # "current" ELSE open[r]
      <3>1. open \in [Readers -> BOOLEAN] /\ target[c] \in Readers
        BY <1>4 DEF ClosePubSub
      <3>2. (open[target[c]] /\ pubSub[target[c]] # "current") \in BOOLEAN
        OBVIOUS
      <3> HIDE DEF Inv, TypeOK, CloserInv, OneConnection, WakeInv
      <3> QED
        BY <2>1, <3>1, <3>2, UpdateFlag, Zenon
    <2>3. /\ cpc[c] = "close"
          /\ cpc' \in {[cpc EXCEPT ![c] = "panicked"], [cpc EXCEPT ![c] = "nil"]}
          /\ UNCHANGED <<env, table, rpc, rstate, pubSub, errors, target, todo, crashed>>
      BY <1>4 DEF ClosePubSub
    <2> QED
      BY <2>2, <2>3
  <1>5. CASE CloseNil(c)
    BY <1>5 DEF CloseNil
  <1> QED
    BY <1>1, <1>2, <1>3, <1>4, <1>5 DEF CloseReader

(* The steps of a reader's goroutine. *)
LEMMA ReadPumpInv ==
  ASSUME Inv, NEW r \in Readers, ReadPump(r)
  PROVE  Inv'
  <1> USE DEF Inv, TypeOK, CloserInv, OneConnection, WakeInv, GoTo, CallerAt, ReaderCrash
  <1>1. CASE SetRunning(r)
    BY <1>1 DEF SetRunning
  <1>2. CASE CheckState(r)
    BY <1>2 DEF CheckState
  <1>3. CASE Dial(r)
    <2>1. open' \in [Readers -> BOOLEAN] /\ \A q \in Readers \ {r} : open'[q] <=> open[q]
      <3>1. open' = [open EXCEPT ![r] = TRUE] \/ open' = open
        BY <1>3 DEF Dial
      <3>2. open \in [Readers -> BOOLEAN] /\ TRUE \in BOOLEAN
        OBVIOUS
      <3> HIDE DEF Inv, TypeOK, CloserInv, OneConnection, WakeInv
      <3> QED
        BY <3>1, <3>2, UpdateFlag, Zenon
    <2>2. /\ rpc[r] = "dial"
          /\ rpc' = [rpc EXCEPT ![r] = "subscribe"] \/ (rpc' = [rpc EXCEPT ![r] = "outer"] /\ open' = open)
          /\ UNCHANGED <<env, table, rstate, pubSub, errors, caller, crashed>>
      BY <1>3 DEF Dial
    <2> QED
      BY <2>1, <2>2
  <1>4. CASE Subscribe(r)
    BY <1>4 DEF Subscribe
  <1>5. CASE Publish(r)
    BY <1>5 DEF Publish
  <1>6. CASE LoadPubSub(r)
    <2>1. crashed' \in BOOLEAN
      BY <1>6 DEF LoadPubSub
    <2> QED
      BY <1>6, <2>1 DEF LoadPubSub
  <1>7. CASE Receive(r)
    BY <1>7 DEF Receive
  <1>8. CASE Deliver(r)
    <2>1. crashed' \in BOOLEAN
      BY <1>8 DEF Deliver
    <2> QED
      BY <1>8, <2>1 DEF Deliver
  <1>9. CASE GiveUp(r)
    <2>1. crashed' \in BOOLEAN
      BY <1>9 DEF GiveUp, BeginClose
    <2> QED
      BY <1>9, <2>1 DEF GiveUp, BeginClose
  <1>10. CASE GaveUp(r)
    <2>1. crashed' \in BOOLEAN
      BY <1>10 DEF GaveUp
    <2> QED
      BY <1>10, <2>1 DEF GaveUp
  <1>11. CASE LeaveLoop(r)
    BY <1>11 DEF LeaveLoop
  <1> QED
    BY <1>1, <1>2, <1>3, <1>4, <1>5, <1>6, <1>7, <1>8, <1>9, <1>10, <1>11 DEF ReadPump

(* The invariant is inductive. *)
LEMMA NextInv == Inv /\ [Next]_vars => Inv'
  <1> SUFFICES ASSUME Inv, [Next]_vars PROVE Inv'
    OBVIOUS
  <1>1. CASE UNCHANGED vars
    BY <1>1 DEF vars, Inv, TypeOK, CloserInv, OneConnection, WakeInv
  <1> QED
    BY <1>1, HandlerInv, CloseReaderInv, ReadPumpInv DEF Next

(* The properties as they are stated in Redis. *)
LEMMA InvProperties == Inv => TypeOK /\ OneConnection /\ ClosedReaderIsWoken
  BY DEF Inv, WakeInv, ClosedReaderIsWoken

(* Every variable keeps its type, and a caller of close() always has a reader
   in hand (redis/handler.go, redis/reader.go). *)
THEOREM TypeCorrect == Spec => []TypeOK
  BY InitInv, NextInv, InvProperties, PTL DEF Spec

(* However often readLoop fails and is retried, its connection to redis is closed
   before the next Dial, and none is open once the reader has ended. *)
THEOREM NoConnectionLeak == Spec => []OneConnection
  BY InitInv, NextInv, InvProperties, PTL DEF Spec

(* A reader that close() has overtaken between the state check of readLoop and
   Receive blocks on a connection that its closer is about to close, as long as
   the field pubSubConn refers to it. *)
THEOREM NoLostWakeUp == Spec => []ClosedReaderIsWoken
  BY InitInv, NextInv, InvProperties, PTL DEF Spec
=============================================================================

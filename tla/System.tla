------------------------------- MODULE System -------------------------------
(***************************************************************************)
(* A connection with the redis subscription handler as its only handler.   *)
(* A redis reader is an application goroutine of Conn that calls SendData  *)
(* and Close; the SubscriptionStart, SubscriptionStop and WebsocketClose   *)
(* handlers of Conn are those of Redis, of which the last two take several *)
(* steps in the calling goroutine.                                         *)
(*                                                                         *)
(* What Redis assumes of its connection, conn and starting, is derived     *)
(* here from the state of Conn and restricts no step of Conn.              *)
(***************************************************************************)
EXTENDS Conn

CONSTANTS NoReader, Limit, Faults

(* HandleWebsocketClose returns no error, and Conn.Close() may fail to write its
   close frame. *)
ASSUME SystemAssumption ==
  /\ NoReader \notin Apps
  /\ Limit \in Nat
  /\ "control" \in Faults /\ Faults \subseteq {"dial", "subscribe", "receive", "control"}
  /\ CloseResults \subseteq {"ok", "panic"}

VARIABLES
  sid,          \* the id of the subscription that gqlStart hands to the handlers
  table, rpc, rstate, pubSub, open, errors, cpc, target, todo,   \* see Redis
  rcrashed      \* a reader goroutine has panicked

conn == IF outClosed THEN "closed" ELSE IF shutdown THEN "closing" ELSE "open"

R == INSTANCE Redis WITH Readers <- Apps, starting <- sid, crashed <- rcrashed

rvars == <<sid, table, rpc, rstate, pubSub, open, errors, cpc, target, todo, rcrashed>>
svars == <<vars, rvars>>

SInit == Init /\ R!Init

(***************************************************************************)
(* processMessages.                                                        *)
(***************************************************************************)
(* The steps in which no redis handler is called. *)
NoRedis ==
  /\ \/ ReadPump
     \/ RecvShutdown \/ RecvIncoming \/ RecvIncomingNil
     \/ RecvOutgoing \/ RecvOutgoingNil \/ PingFailed
     \/ ConnectionInit \/ SetEstablished \/ SendAck \/ SendConnectionError
     \/ ConnectionTerminate \/ SendEOF \/ Start \/ SendOperationErrors
     \/ Unknown \/ Recover \/ RecoverEOF
  /\ UNCHANGED rvars

ServeStart ==
  /\ GqlStart
  /\ sid' = IF pc'[Proc] = "subStart" THEN msg[Proc].id ELSE R!None
  /\ UNCHANGED <<table, rpc, rstate, pubSub, open, errors, cpc, target, todo, rcrashed>>

CallStart == SubscriptionStart /\ (R!HandleSubscriptionStart \/ R!StartFails)

(* gqlStop finds the subscription and the handler finds its reader. *)
FindsReader ==
  /\ msg[Proc].payload \in {"ok", "invalid"} /\ msg[Proc].id \in Subscriptions
  /\ table[msg[Proc].id] # NoReader

StopWithoutReader == Processing("stop") /\ ~FindsReader /\ Stop /\ UNCHANGED rvars

CallStop ==
  /\ Processing("stop") /\ FindsReader
  /\ UNCHANGED vars
  /\ R!HandleSubscriptionStop(msg[Proc].id)

(* reader.close() runs in processMessages; its last step ends gqlStop. *)
RunStop ==
  /\ Processing("stop")
  /\ UNCHANGED <<mutex, chans, ws, gql>>
  /\ R!CloseReader(Proc)
  /\ CASE cpc'[Proc] = "idle"     -> GqlStop /\ MessageDone
       [] cpc'[Proc] = "panicked" -> Panic(Proc) /\ MessageDone
       [] OTHER                   -> UNCHANGED <<ctl, msg>>

(***************************************************************************)
(* Conn.close() and HandleWebsocketClose.                                  *)
(***************************************************************************)
(* What a step of goroutine t inside Conn means to t's reader, if it is one. *)
ReaderFollows(t) ==
  /\ rpc' = IF t \notin Apps \/ pc[t] = "idle" THEN rpc
            ELSE [rpc EXCEPT ![t] = CASE pc'[t] = "idle" /\ @ = "deliver" -> "inner"
                                      [] pc'[t] = "idle" /\ @ # "deliver" -> "leave"
                                      [] pc'[t] = "handlers"              -> "closing"
                                      [] OTHER                            -> @]
  /\ rcrashed' = (rcrashed \/ (t \in Apps /\ pc'[t] = Dead))
  /\ UNCHANGED <<sid, table, rstate, pubSub, open, errors, target, todo>>

CloseConn(t) ==
  \/ /\ CloseBegin(t)
     /\ cpc' = IF pc'[t] = "handlers" THEN [cpc EXCEPT ![R!Closer] = "call"] ELSE cpc
     /\ ReaderFollows(t)
  \/ /\ CloseHandlers(t)
     /\ \/ cpc[R!Closer] = "idle"     /\ pc'[t] = "closeOut"
        \/ cpc[R!Closer] = "panicked" /\ pc'[t] # "closeOut"
     /\ UNCHANGED cpc
     /\ ReaderFollows(t)
  \/ /\ CloseAlreadyClosed(t) \/ CloseOutgoing(t) \/ CloseIncoming(t) \/ CloseWebsocket(t)
     /\ UNCHANGED cpc
     /\ ReaderFollows(t)

(* The handler runs in the goroutine that is at "handlers". *)
RunClose ==
  /\ \E t \in Threads : pc[t] = "handlers"
  /\ UNCHANGED vars
  /\ R!HandleWebsocketClose \/ R!RangeNext \/ R!RangeDone \/ R!CloseReader(R!Closer)

(***************************************************************************)
(* The redis readers.                                                      *)
(***************************************************************************)
(* A step of the reader outside Conn; it may end at a call of SendData or of
   Close, or in a panic. *)
RunReader(r) ==
  /\ pc[r] = "idle"
  /\ UNCHANGED <<mutex, chans, ws, msg, gql>>
  /\ \/ R!SetRunning(r) \/ R!CheckState(r) \/ R!Dial(r) \/ R!Subscribe(r) \/ R!Publish(r)
     \/ R!LoadPubSub(r) \/ R!Receive(r) \/ R!LeaveLoop(r)
  /\ IF rcrashed' THEN Crash
     ELSE Jump(r, CASE rpc'[r] = "deliver" -> "send"
                    [] rpc'[r] = "giveUp"  -> "Close"
                    [] OTHER               -> "idle")

(* A step of SendData or Close up to close(). *)
CallConn(r) ==
  /\ SendData(r) \/ AppCloseCheck(r) \/ AppWriteControl(r)
  /\ UNCHANGED cpc
  /\ ReaderFollows(r)

FailedSend(t) == SendOnClosed(t) /\ UNCHANGED cpc /\ ReaderFollows(t)

SNext ==
  \/ NoRedis \/ ServeStart \/ CallStart \/ StopWithoutReader \/ CallStop \/ RunStop
  \/ RunClose
  \/ \E t \in Threads : CloseConn(t) \/ FailedSend(t)
  \/ \E r \in Apps : RunReader(r) \/ CallConn(r)

SSpec == SInit /\ [][SNext]_svars

(* Only the goroutine inside Conn.close() has to run: it holds stateMutex. *)
SFairSpec ==
  /\ SSpec
  /\ WF_svars(RunClose)
  /\ \A t \in Threads : WF_svars(CloseConn(t))

(***************************************************************************)
(* Properties.                                                             *)
(***************************************************************************)
(* Conn is the connection that Redis assumes, whatever the order of the pumps,
   the readers and close(): starts and stops one at a time, the close handlers
   called once, the channel closed only after they returned. *)
ImplementsRedis == R!Spec

(* Once close() has begun, also in a redis reader that gives up and whose own
   close() is then called by the handler, the websocket gets closed: close() waits
   for no other goroutine. *)
TeardownEnds == shutdown ~> ~wsOpen \/ Crashed \/ cpc[R!Closer] = "panicked"

(* handler.go:93, "HandleWebsocketClose captures when the websocket is closed.
   Hence, closing the subscriptionRedisReader as well": when the connection is
   torn down and processMessages has ended, a stored reader is closed, also one
   whose goroutine has not run yet. *)
NoReaderLeftBehind ==
  \A id \in IDs :
    ~wsOpen /\ pc[Proc] = "done" /\ table[id] # NoReader /\ rpc[table[id]] = "new"
      => rstate[table[id]] = "closed"
=============================================================================

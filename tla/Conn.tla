-------------------------------- MODULE Conn --------------------------------
(***************************************************************************)
(* One graphql-ws connection (connection.go): the goroutines readPump and  *)
(* processMessages that NewConn starts, the application goroutines that    *)
(* call the exported methods of the same Conn, the state RWMutex, the      *)
(* incoming, outgoing and shutdown channels, and the websocket below them. *)
(*                                                                         *)
(* A step is one access to what the goroutines share: a channel operation, *)
(* a critical section of stateMutex, a websocket call, a round of handler  *)
(* callbacks.  pc[t] names the access goroutine t is about to make.        *)
(***************************************************************************)
EXTENDS Naturals, Sequences

CONSTANTS
  Apps,          \* goroutines of the application (a redis reader is one)
  IDs,           \* operation ids
  Cap,           \* capacity of the incoming and outgoing channels (10 in NewConn)
  Traffic,       \* the messages the client may send
  PeerEvents,    \* what else the peer and the network may do
  InitResults,   \* outcomes of the ConnectionInitHandlers
  EventResults,  \* outcomes of the other handlers of client messages
  CloseResults,  \* outcomes of the WebsocketCloseHandlers
  AppCalls,      \* the exported methods the application calls
  Watched        \* the kinds of frames whose delivery is recorded in written

Reader   == "readPump"
Proc     == "processMessages"
NoThread == "none"
Pumps    == {Reader, Proc}
Threads  == Apps \cup Pumps

MessageTypes   == {"connection_init", "connection_terminate", "start", "stop", "unknown"}
(* A start payload is ok, invalid (the query is refused), or does not unmarshal;
   a stop payload is ok, does not unmarshal, or is absent. *)
Payloads       == {"ok", "invalid", "bad", "empty"}
ClientMessages == [type : MessageTypes, id : IDs, payload : Payloads]
EOF            == [type |-> "EOF"]     \* operationMessageEOF
NoMsg          == [type |-> "none"]
ServerFrames   == {"connection_ack", "connection_error", "error", "data"}
WireFrames     == ServerFrames \cup {"null"}

ASSUME ConnAssumption ==
  /\ Apps \cap {Reader, Proc, NoThread} = {}
  /\ Cap \in Nat \ {0}
  /\ Traffic \subseteq ClientMessages
  /\ PeerEvents \subseteq {"closeFrame", "gone", "error", "pong", "null"}
  /\ InitResults \subseteq {"ok", "fatal", "error", "panic"}
  /\ EventResults \subseteq {"ok", "panic"}
  /\ CloseResults \subseteq {"ok", "error", "panic"}
  /\ AppCalls \subseteq {"Close", "SendData", "SendError"}
  /\ Watched \subseteq WireFrames

VARIABLES
  state,          \* Conn._state
  writer,         \* the goroutine that holds stateMutex.Lock across steps
  readers,        \* the goroutines that hold stateMutex.RLock across steps
  shutdown,       \* the shutdown channel is closed
  incoming, inClosed,    \* incomingMessages
  outgoing, outClosed,   \* outgoingMessages
  wsOpen,         \* the websocket has not been closed by conn.Close()
  wsWritable,     \* no write has failed and no close frame was sent
  written,        \* history: the watched kinds of frames given to the peer
  pc,
  site,           \* where the goroutine's current call of close() was made
  panicking,      \* the pumps whose stack is being unwound
  msg,            \* the message a pump has in hand
  Subscriptions,  \* keys of Conn.Subscriptions
  accepted,       \* history: some connection_init passed its handlers
  notified        \* history: how often the WebsocketCloseHandlers were called

mutex == <<state, writer, readers>>
chans == <<shutdown, incoming, inClosed, outgoing, outClosed>>
ws    == <<wsOpen, wsWritable, written>>
ctl   == <<pc, site, panicking>>
gql   == <<Subscriptions, accepted, notified>>
vars  == <<mutex, chans, ws, ctl, msg, gql>>

States       == {"undefined", "initializing", "established", "closed"}
CloseLabels  == {"lock", "handlers", "closeOut", "closeIn", "closeWs"}
Dead         == "dead"     \* an unrecovered panic has ended the whole process
ReaderLabels == {"init", "loop", "read", "push", "pushEOF", "done", Dead} \cup CloseLabels
ProcLabels   == {"select", "process", "connErr", "connErrSend", "setState", "ack",
                 "eof", "gqlStart", "subStart", "opErr", "opErrSend",
                 "recover", "recoverEOF", "done", Dead} \cup CloseLabels
AppLabels    == {"idle", "Close", "writeControl", "send",
                 "sendErrorCheck", "sendError", Dead} \cup CloseLabels
Labels       == ReaderLabels \cup ProcLabels \cup AppLabels
Sites        == {"none", "closeHandler", "defer", "stop", "Close"}

(* The labels at which a goroutine is about to send on a channel, possibly
   blocked because it is full. *)
IncomingSends == {"push", "pushEOF", "eof", "recoverEOF"}
OutgoingSends == {"ack", "connErrSend", "opErrSend", "send", "sendError"}

Init ==
  /\ state = "undefined" /\ writer = NoThread /\ readers = {}
  /\ shutdown = FALSE
  /\ incoming = << >> /\ inClosed = FALSE
  /\ outgoing = << >> /\ outClosed = FALSE
  /\ wsOpen = TRUE /\ wsWritable = TRUE /\ written = {}
  /\ pc = [t \in Threads |-> IF t = Reader THEN "init"
                             ELSE IF t = Proc THEN "select" ELSE "idle"]
  /\ site = [t \in Threads |-> "none"]
  /\ panicking = {}
  /\ msg = [t \in Pumps |-> NoMsg]
  /\ Subscriptions = {} /\ accepted = FALSE /\ notified = 0

(***************************************************************************)
(* stateMutex.  A critical section without a blocking operation inside is  *)
(* one step; writer and readers record the ones that span several steps.   *)
(***************************************************************************)
CanLock  == writer = NoThread /\ readers = {}
CanRLock == writer = NoThread

(***************************************************************************)
(* Control flow: jumps, calls of close(), panics.                          *)
(***************************************************************************)
Jump(t, label) ==
  /\ pc' = [pc EXCEPT ![t] = label]
  /\ UNCHANGED <<site, panicking>>

CallClose(t, s) ==
  /\ pc' = [pc EXCEPT ![t] = "lock"]
  /\ site' = [site EXCEPT ![t] = s]

(* Variant: a pump without the deferred close(). *)
LeavePumpNoDefer(t) == Jump(t, "done")

(* A pump returns and runs its deferred close(). *)
LeavePump(t) == CallClose(t, "defer") /\ UNCHANGED panicking

Crash == pc' = [t \in Threads |-> Dead] /\ UNCHANGED <<site, panicking>>

(* A panic unwinds a pump through its deferred close().  processMessages then
   reaches its deferred recover(); readPump and the application have none. *)
Panic(t) ==
  \/ /\ t \in Pumps /\ site[t] # "defer"
     /\ panicking' = panicking \cup {t}
     /\ CallClose(t, "defer")
  \/ /\ t = Proc /\ site[t] = "defer" /\ pc[t] # "recoverEOF"
     /\ panicking' = panicking \cup {t}
     /\ pc' = [pc EXCEPT ![t] = "recover"]
     /\ UNCHANGED site
  \/ /\ \/ t \in Apps
        \/ site[t] = "defer" /\ (t = Reader \/ pc[t] = "recoverEOF")
     /\ Crash

(* close() has returned, with an error or with nil: the caller goes on. *)
CloseReturns(t, failed) ==
  \/ /\ site[t] \in {"Close", "stop"} \/ (site[t] = "closeHandler" /\ failed)
     /\ pc' = [pc EXCEPT ![t] = CASE site[t] = "Close" -> "idle"
                                  [] site[t] = "stop"  -> "select"
                                  [] OTHER             -> "pushEOF"]
     /\ site' = [site EXCEPT ![t] = "none"]
     /\ UNCHANGED panicking
  \/ /\ site[t] = "closeHandler" /\ ~failed      \* ReadJSON gives a CloseError
     /\ LeavePump(t)
  \/ /\ site[t] = "defer" /\ t \notin panicking
     /\ Jump(t, "done")
  \/ /\ site[t] = "defer" /\ t \in panicking
     /\ IF t = Proc THEN Jump(t, "recover") ELSE Crash

(***************************************************************************)
(* The channels.                                                           *)
(***************************************************************************)
SendIncoming(m) ==
  /\ ~inClosed /\ Len(incoming) < Cap
  /\ incoming' = Append(incoming, m)
  /\ UNCHANGED <<shutdown, inClosed, outgoing, outClosed>>

(* Variant: a channel that never blocks its sender. *)
SendOutgoingUnbounded(f) ==
  /\ ~outClosed
  /\ outgoing' = Append(outgoing, f)
  /\ UNCHANGED <<shutdown, incoming, inClosed, outClosed>>

SendOutgoing(f) ==
  /\ ~outClosed /\ Len(outgoing) < Cap
  /\ outgoing' = Append(outgoing, f)
  /\ UNCHANGED <<shutdown, incoming, inClosed, outClosed>>

(* A send on a closed channel panics, also when the sender was blocked. *)
SendOnClosed(t) ==
  /\ \/ pc[t] \in IncomingSends /\ inClosed
     \/ pc[t] \in OutgoingSends /\ outClosed
  /\ Panic(t)
  /\ readers' = readers \ {t}
  /\ msg' = IF t = Reader THEN [msg EXCEPT ![Reader] = NoMsg] ELSE msg
  /\ UNCHANGED <<state, writer, chans, ws, gql>>

(***************************************************************************)
(* The websocket (gorilla).  A write error, and a close frame once sent,   *)
(* make every later write fail.                                            *)
(***************************************************************************)
WriteFails == ~wsOpen \/ ~wsWritable \/ "gone" \in PeerEvents

WriteFrame(f) ==
  /\ \/ wsOpen /\ wsWritable /\ written' = written \cup ({f} \cap Watched) /\ UNCHANGED wsWritable
     \/ WriteFails /\ wsWritable' = FALSE /\ UNCHANGED written
  /\ UNCHANGED wsOpen

(***************************************************************************)
(* close(), called by any goroutine.  stateMutex is held until it returns. *)
(***************************************************************************)
CloseAlreadyClosed(t) ==
  /\ pc[t] = "lock" /\ CanLock
  /\ state = "closed"
  /\ CloseReturns(t, TRUE)
  /\ UNCHANGED <<mutex, chans, ws, msg, gql>>

(* Variant: close() goes on when shutdown is closed already. *)
CloseBeginAgain(t) ==
  /\ pc[t] = "lock" /\ CanLock
  /\ state # "closed"
  /\ state' = "closed"
  /\ shutdown' = TRUE
  /\ Jump(t, "handlers") /\ writer' = t
  /\ UNCHANGED <<readers, incoming, inClosed, outgoing, outClosed, ws, msg, gql>>

CloseBegin(t) ==
  /\ pc[t] = "lock" /\ CanLock
  /\ state # "closed"
  /\ state' = "closed"
  /\ shutdown' = TRUE
  /\ IF shutdown                       \* close(c.shutdown) of a closed channel
       THEN Panic(t) /\ UNCHANGED writer
       ELSE Jump(t, "handlers") /\ writer' = t
  /\ UNCHANGED <<readers, incoming, inClosed, outgoing, outClosed, ws, msg, gql>>

(* Variant: Unlock is not deferred and is missed by a panic of a handler. *)
CloseHandlersNoDefer(t) ==
  /\ pc[t] = "handlers"
  /\ notified' = notified + 1
  /\ \E res \in CloseResults :
       \/ res = "ok"    /\ Jump(t, "closeOut") /\ UNCHANGED writer
       \/ res = "error" /\ CloseReturns(t, TRUE) /\ writer' = NoThread
       \/ res = "panic" /\ Panic(t) /\ UNCHANGED writer
  /\ UNCHANGED <<state, readers, chans, ws, msg, Subscriptions, accepted>>

CloseHandlers(t) ==
  /\ pc[t] = "handlers"
  /\ notified' = notified + 1
  /\ \E res \in CloseResults :
       \/ res = "ok"    /\ Jump(t, "closeOut") /\ UNCHANGED writer
       \/ res = "error" /\ CloseReturns(t, TRUE) /\ writer' = NoThread
       \/ res = "panic" /\ Panic(t) /\ writer' = NoThread
  /\ UNCHANGED <<state, readers, chans, ws, msg, Subscriptions, accepted>>

(* Variant: close() forgets the outgoing channel. *)
CloseOutgoingSkipped(t) ==
  /\ pc[t] = "closeOut"
  /\ Jump(t, "closeIn")
  /\ UNCHANGED <<mutex, chans, ws, msg, gql>>

CloseOutgoing(t) ==
  /\ pc[t] = "closeOut"
  /\ outClosed' = TRUE
  /\ Jump(t, "closeIn")
  /\ UNCHANGED <<mutex, shutdown, incoming, inClosed, outgoing, ws, msg, gql>>

CloseIncoming(t) ==
  /\ pc[t] = "closeIn"
  /\ inClosed' = TRUE
  /\ Jump(t, "closeWs")
  /\ UNCHANGED <<mutex, shutdown, incoming, outgoing, outClosed, ws, msg, gql>>

(* Variant: close() forgets conn.Close(). *)
CloseWebsocketSkipped(t) ==
  /\ pc[t] = "closeWs"
  /\ writer' = NoThread
  /\ CloseReturns(t, FALSE)
  /\ UNCHANGED <<state, readers, chans, ws, msg, gql>>

(* The error of conn.Close(), when the network fails, is that of close(); to
   readPump an OpError means the same as nil does. *)
CloseWebsocket(t) ==
  /\ pc[t] = "closeWs"
  /\ wsOpen' = FALSE
  /\ writer' = NoThread
  /\ \/ CloseReturns(t, FALSE)
     \/ "gone" \in PeerEvents /\ CloseReturns(t, TRUE)
  /\ UNCHANGED <<state, readers, chans, wsWritable, written, msg, gql>>

Close(t) ==
  \/ CloseAlreadyClosed(t) \/ CloseBegin(t) \/ CloseHandlers(t)
  \/ CloseOutgoing(t) \/ CloseIncoming(t) \/ CloseWebsocket(t)

(***************************************************************************)
(* readPump.                                                               *)
(***************************************************************************)
ReadPumpStart ==
  /\ pc[Reader] = "init" /\ CanLock
  /\ state' = "initializing"
  /\ Jump(Reader, "loop")
  /\ UNCHANGED <<writer, readers, chans, ws, msg, gql>>

ReadPumpLoop ==
  /\ pc[Reader] = "loop" /\ CanRLock
  /\ IF state = "closed" THEN LeavePump(Reader) ELSE Jump(Reader, "read")
  /\ UNCHANGED <<mutex, chans, ws, msg, gql>>

ReadMessage ==
  /\ pc[Reader] = "read"
  /\ \E m \in Traffic : msg' = [msg EXCEPT ![Reader] = m]
  /\ Jump(Reader, "push")
  /\ UNCHANGED <<mutex, chans, ws, gql>>

(* gorilla calls closeHandler, which calls close(). *)
ReadCloseFrame ==
  /\ pc[Reader] = "read" /\ "closeFrame" \in PeerEvents
  /\ CallClose(Reader, "closeHandler")
  /\ UNCHANGED <<mutex, chans, ws, panicking, msg, gql>>

(* A CloseError or OpError: the peer is gone, or conn.Close() was called here. *)
ReadGone ==
  /\ pc[Reader] = "read"
  /\ "gone" \in PeerEvents \/ ~wsOpen
  /\ LeavePump(Reader)
  /\ UNCHANGED <<mutex, chans, ws, msg, gql>>

(* Another net.Error (the pong deadline), a message that is no JSON, one over
   the read limit (gorilla then sends a close frame), a failing pong handler. *)
ReadError ==
  /\ pc[Reader] = "read" /\ "error" \in PeerEvents
  /\ wsWritable' \in {wsWritable, FALSE}
  /\ Jump(Reader, "pushEOF")
  /\ UNCHANGED <<mutex, chans, wsOpen, written, msg, gql>>

(* A WebsocketPongHandler panics (when they return, pongHandler only moves the
   read deadline), or the message is the JSON null, which makes the pointer
   given to ReadJSON nil. *)
ReadPanics ==
  /\ pc[Reader] = "read"
  /\ \/ "pong" \in PeerEvents /\ "panic" \in EventResults
     \/ "null" \in PeerEvents
  /\ Panic(Reader)
  /\ UNCHANGED <<mutex, chans, ws, msg, gql>>

PushMessage ==
  /\ pc[Reader] = "push"
  /\ SendIncoming(msg[Reader])
  /\ msg' = [msg EXCEPT ![Reader] = NoMsg]
  /\ Jump(Reader, "loop")
  /\ UNCHANGED <<mutex, ws, gql>>

PushEOF ==
  /\ pc[Reader] = "pushEOF"
  /\ SendIncoming(EOF)
  /\ LeavePump(Reader)
  /\ UNCHANGED <<mutex, ws, msg, gql>>

ReadPump ==
  \/ ReadPumpStart \/ ReadPumpLoop \/ ReadMessage \/ ReadCloseFrame
  \/ ReadGone \/ ReadError \/ ReadPanics \/ PushMessage \/ PushEOF

(***************************************************************************)
(* processMessages: the branches of its select.                            *)
(***************************************************************************)
RecvShutdown ==
  /\ pc[Proc] = "select" /\ shutdown
  /\ LeavePump(Proc)
  /\ UNCHANGED <<mutex, chans, ws, msg, gql>>

RecvIncoming ==
  /\ pc[Proc] = "select" /\ incoming # << >>
  /\ incoming' = Tail(incoming)
  /\ IF Head(incoming) = EOF
       THEN LeavePump(Proc) /\ UNCHANGED msg
       ELSE Jump(Proc, "process") /\ msg' = [msg EXCEPT ![Proc] = Head(incoming)]
  /\ UNCHANGED <<mutex, shutdown, inClosed, outgoing, outClosed, ws, gql>>

(* A closed and drained channel yields nil, which processIncomeMessage
   dereferences. *)
RecvIncomingNil ==
  /\ pc[Proc] = "select" /\ incoming = << >> /\ inClosed
  /\ Panic(Proc)
  /\ UNCHANGED <<mutex, chans, ws, msg, gql>>

RecvOutgoing ==
  /\ pc[Proc] = "select" /\ outgoing # << >>
  /\ outgoing' = Tail(outgoing)
  /\ WriteFrame(Head(outgoing))
  /\ UNCHANGED <<mutex, shutdown, incoming, inClosed, outClosed, ctl, msg, gql>>

(* processOutgoingMessage writes the nil of a closed channel as JSON null. *)
RecvOutgoingNil ==
  /\ pc[Proc] = "select" /\ outgoing = << >> /\ outClosed
  /\ WriteFrame("null")
  /\ UNCHANGED <<mutex, chans, ctl, msg, gql>>

(* A ping that is written changes nothing; one that fails ends the pump. *)
PingFailed ==
  /\ pc[Proc] = "select" /\ WriteFails
  /\ wsWritable' = FALSE
  /\ LeavePump(Proc)
  /\ UNCHANGED <<mutex, chans, wsOpen, written, msg, gql>>

(***************************************************************************)
(* processIncomeMessage, per message type.                                 *)
(***************************************************************************)
Processing(type) == pc[Proc] = "process" /\ msg[Proc].type = type
MessageDone      == msg' = [msg EXCEPT ![Proc] = NoMsg]

ConnectionInit ==
  /\ Processing("connection_init")
  /\ \E res \in InitResults :
       \/ res = "ok"    /\ Jump(Proc, "setState") /\ accepted' = TRUE
       \/ res = "fatal" /\ Jump(Proc, "eof")      /\ UNCHANGED accepted
       \/ res = "error" /\ Jump(Proc, "connErr")  /\ UNCHANGED accepted
       \/ res = "panic" /\ Panic(Proc)            /\ UNCHANGED accepted
  /\ MessageDone
  /\ UNCHANGED <<mutex, chans, ws, Subscriptions, notified>>

(* Variant: setState without the lock. *)
SetEstablishedUnlocked ==
  /\ pc[Proc] = "setState"
  /\ state' = "established"
  /\ Jump(Proc, "ack")
  /\ UNCHANGED <<writer, readers, chans, ws, msg, gql>>

SetEstablished ==
  /\ pc[Proc] = "setState" /\ CanLock
  /\ state' = "established"
  /\ Jump(Proc, "ack")
  /\ UNCHANGED <<writer, readers, chans, ws, msg, gql>>

SendAck ==
  /\ pc[Proc] = "ack"
  /\ SendOutgoing("connection_ack")
  /\ Jump(Proc, "select")
  /\ UNCHANGED <<mutex, ws, msg, gql>>

(* Variant: the state is read with getState(), and the lock is not kept. *)
SendErrorGetState(check, send, next) ==
  /\ pc[Proc] = check /\ CanRLock
  /\ Jump(Proc, IF state = "closed" THEN next ELSE send)
  /\ UNCHANGED <<mutex, chans, ws, msg, gql>>

(* sendConnectionError and sendOperationErrors keep the read lock from the
   state check until the message is in the channel. *)
SendErrorLocked(check, send, next) ==
  /\ pc[Proc] = check /\ CanRLock
  /\ IF state = "closed"
       THEN Jump(Proc, next) /\ UNCHANGED readers
       ELSE Jump(Proc, send) /\ readers' = readers \cup {Proc}
  /\ UNCHANGED <<state, writer, chans, ws, msg, gql>>

SendErrorUnlock(send, f, next) ==
  /\ pc[Proc] = send
  /\ SendOutgoing(f)
  /\ readers' = readers \ {Proc}
  /\ Jump(Proc, next)
  /\ UNCHANGED <<state, writer, ws, msg, gql>>

SendConnectionError ==
  \/ SendErrorLocked("connErr", "connErrSend", "eof")
  \/ SendErrorUnlock("connErrSend", "connection_error", "eof")

SendOperationErrors ==
  \/ SendErrorLocked("opErr", "opErrSend", "select")
  \/ SendErrorUnlock("opErrSend", "error", "select")

(* processMessages queues an EOF for itself. *)
SendEOF ==
  /\ pc[Proc] = "eof"
  /\ SendIncoming(EOF)
  /\ Jump(Proc, "select")
  /\ UNCHANGED <<mutex, ws, msg, gql>>

(* The handlers of an event return, and Proc goes to next, or one panics. *)
Dispatch(next) ==
  \E res \in EventResults :
     \/ res = "ok"    /\ Jump(Proc, next)
     \/ res = "panic" /\ Panic(Proc)

ConnectionTerminate ==
  /\ Processing("connection_terminate")
  /\ Dispatch("eof")
  /\ MessageDone
  /\ UNCHANGED <<mutex, chans, ws, gql>>

(* Variant: start only checks that the connection is not closed. *)
StartNotClosed ==
  /\ Processing("start") /\ CanRLock
  /\ \/ state = "closed" /\ Panic(Proc) /\ MessageDone
     \/ /\ state # "closed" /\ msg[Proc].payload \in {"bad", "empty"}
        /\ Jump(Proc, "opErr") /\ MessageDone
     \/ /\ state # "closed" /\ msg[Proc].payload \in {"ok", "invalid"}
        /\ Jump(Proc, "gqlStart") /\ UNCHANGED msg
  /\ UNCHANGED <<mutex, chans, ws, gql>>

Start ==
  /\ Processing("start") /\ CanRLock
  /\ \/ state # "established" /\ Panic(Proc) /\ MessageDone
     \/ /\ state = "established" /\ msg[Proc].payload \in {"bad", "empty"}
        /\ Jump(Proc, "opErr") /\ MessageDone
     \/ /\ state = "established" /\ msg[Proc].payload \in {"ok", "invalid"}
        /\ Jump(Proc, "gqlStart") /\ UNCHANGED msg
  /\ UNCHANGED <<mutex, chans, ws, gql>>

(* The ConnectionStartHandlers (their errors are dropped), the checks of the
   query (a refusal is only logged) and addSubscription. *)
GqlStart ==
  /\ pc[Proc] = "gqlStart"
  /\ \E res \in EventResults :
       \/ /\ res = "ok" /\ msg[Proc].payload = "ok"
          /\ Subscriptions' = Subscriptions \cup {msg[Proc].id}
          /\ Jump(Proc, "subStart")
       \/ /\ res = "ok" /\ msg[Proc].payload # "ok"
          /\ UNCHANGED Subscriptions
          /\ Jump(Proc, "select")
       \/ res = "panic" /\ UNCHANGED Subscriptions /\ Panic(Proc)
  /\ MessageDone
  /\ UNCHANGED <<mutex, chans, ws, accepted, notified>>

(* The SubscriptionStartHandlers. *)
SubscriptionStart ==
  /\ pc[Proc] = "subStart"
  /\ Dispatch("select")
  /\ UNCHANGED <<mutex, chans, ws, msg, gql>>

(* gqlStop calls handlers and leaves Conn.Subscriptions as it is. *)
GqlStop == Dispatch("select")

(* A stop without payload closes the connection. *)
Stop ==
  /\ Processing("stop")
  /\ \/ msg[Proc].payload \in {"ok", "invalid"} /\ GqlStop
     \/ msg[Proc].payload = "bad" /\ Panic(Proc)
     \/ /\ msg[Proc].payload = "empty"
        /\ CallClose(Proc, "stop") /\ UNCHANGED panicking
  /\ MessageDone
  /\ UNCHANGED <<mutex, chans, ws, gql>>

Unknown ==
  /\ Processing("unknown")
  /\ Jump(Proc, "select")
  /\ MessageDone
  /\ UNCHANGED <<mutex, chans, ws, gql>>

(***************************************************************************)
(* recover(), deferred by processMessages: the SystemRecoverHandlers, then *)
(* an EOF unless the connection is closed.                                 *)
(***************************************************************************)
Recover ==
  /\ pc[Proc] = "recover"
  /\ \/ "panic" \in EventResults /\ Crash      \* HandlePanic panics
     \/ CanRLock /\ Jump(Proc, IF state = "closed" THEN "done" ELSE "recoverEOF")
  /\ UNCHANGED <<mutex, chans, ws, msg, gql>>

RecoverEOF ==
  /\ pc[Proc] = "recoverEOF"
  /\ SendIncoming(EOF)
  /\ Jump(Proc, "done")
  /\ UNCHANGED <<mutex, ws, msg, gql>>

ProcessMessages ==
  \/ RecvShutdown \/ RecvIncoming \/ RecvIncomingNil
  \/ RecvOutgoing \/ RecvOutgoingNil \/ PingFailed
  \/ ConnectionInit \/ SetEstablished \/ SendAck \/ SendConnectionError
  \/ ConnectionTerminate \/ SendEOF
  \/ Start \/ GqlStart \/ SubscriptionStart \/ SendOperationErrors
  \/ Stop \/ Unknown
  \/ Recover \/ RecoverEOF

(***************************************************************************)
(* The exported methods, called by the application.                        *)
(***************************************************************************)
AppCall(a) ==
  /\ pc[a] = "idle"
  /\ \E call \in AppCalls :
       Jump(a, CASE call = "Close"     -> "Close"
                 [] call = "SendData"  -> "send"
                 [] call = "SendError" -> "sendErrorCheck")
  /\ UNCHANGED <<mutex, chans, ws, msg, gql>>

AppCloseCheck(a) ==
  /\ pc[a] = "Close" /\ CanRLock
  /\ Jump(a, IF state = "closed" THEN "idle" ELSE "writeControl")
  /\ UNCHANGED <<mutex, chans, ws, msg, gql>>

(* A failed WriteControl returns without close(); a timeout is not sticky. *)
AppWriteControl(a) ==
  /\ pc[a] = "writeControl"
  /\ \/ /\ wsOpen /\ wsWritable
        /\ wsWritable' = FALSE
        /\ CallClose(a, "Close") /\ UNCHANGED panicking
     \/ /\ WriteFails
        /\ wsWritable' \in {wsWritable, FALSE}
        /\ Jump(a, "idle")
  /\ UNCHANGED <<mutex, chans, wsOpen, written, msg, gql>>

SendData(a) ==
  /\ pc[a] = "send"
  /\ SendOutgoing("data")
  /\ Jump(a, "idle")
  /\ UNCHANGED <<mutex, ws, msg, gql>>

SendErrorCheck(a) ==
  /\ pc[a] = "sendErrorCheck" /\ CanRLock
  /\ Jump(a, IF state = "closed" THEN "idle" ELSE "sendError")
  /\ UNCHANGED <<mutex, chans, ws, msg, gql>>

SendError(a) ==
  /\ pc[a] = "sendError"
  /\ SendOutgoing("error")
  /\ Jump(a, "idle")
  /\ UNCHANGED <<mutex, ws, msg, gql>>

App(a) ==
  \/ AppCall(a) \/ AppCloseCheck(a) \/ AppWriteControl(a)
  \/ SendData(a) \/ SendErrorCheck(a) \/ SendError(a)

Next ==
  \/ ReadPump
  \/ ProcessMessages
  \/ \E a \in Apps : App(a)
  \/ \E t \in Threads : Close(t) \/ SendOnClosed(t)

Spec == Init /\ [][Next]_vars

(***************************************************************************)
(* Fairness.  Go runs every goroutine that can run; a goroutine blocked on *)
(* a channel or on the mutex is queued, and select is pseudo-random: hence *)
(* strong fairness.  A waiting writer keeps new readers of the RWMutex     *)
(* out, so nothing is promised to a reader while one waits.  Nothing is    *)
(* promised of the peer either, but a read ends once the socket is closed. *)
(***************************************************************************)
RLockLabels     == {"loop", "process", "connErr", "opErr", "recover",
                    "Close", "sendErrorCheck"}
NoWriterWaiting == \A t \in Threads : pc[t] \notin {"lock", "setState", "init"}

Runs(t, A) == (pc[t] \in RLockLabels => NoWriterWaiting) /\ A

ReaderRuns == Runs(Reader, \/ ReadPumpStart \/ ReadPumpLoop \/ (~wsOpen /\ ReadGone)
                           \/ PushMessage \/ PushEOF
                           \/ Close(Reader) \/ SendOnClosed(Reader))
ProcRuns   == Runs(Proc, ProcessMessages \/ Close(Proc) \/ SendOnClosed(Proc))
AppRuns(a) == Runs(a, \/ AppCloseCheck(a) \/ AppWriteControl(a) \/ SendData(a)
                      \/ SendErrorCheck(a) \/ SendError(a)
                      \/ Close(a) \/ SendOnClosed(a))

Fairness ==
  /\ SF_vars(ReaderRuns)
  /\ SF_vars(ProcRuns)
  /\ SF_vars(Runs(Proc, RecvShutdown))
  /\ \A a \in Apps : SF_vars(AppRuns(a))

FairSpec == Spec /\ Fairness

(***************************************************************************)
(* Properties.                                                             *)
(***************************************************************************)
Crashed == \E t \in Threads : pc[t] = Dead

DataType ==
  /\ state \in States /\ writer \in Threads \cup {NoThread} /\ readers \subseteq {Proc}
  /\ wsOpen \in BOOLEAN /\ wsWritable \in BOOLEAN /\ written \subseteq Watched
  /\ Subscriptions \subseteq IDs /\ accepted \in BOOLEAN /\ notified \in Nat

ChannelType ==
  /\ shutdown \in BOOLEAN /\ inClosed \in BOOLEAN /\ outClosed \in BOOLEAN
  /\ incoming \in Seq(Traffic \cup {EOF}) /\ Len(incoming) <= Cap
  /\ outgoing \in Seq(ServerFrames) /\ Len(outgoing) <= Cap

PcType ==
  /\ pc \in [Threads -> Labels]
  /\ pc[Reader] \in ReaderLabels /\ pc[Proc] \in ProcLabels
  /\ \A a \in Apps : pc[a] \in AppLabels

ControlType ==
  /\ site \in [Threads -> Sites]
  /\ panicking \subseteq Pumps
  /\ msg \in [Pumps -> Traffic \cup {NoMsg}]

(* The type invariant.  Every goroutine is somewhere in its own code, and both
   channels respect the capacity NewConn gives them. *)
TypeOK == DataType /\ ChannelType /\ PcType /\ ControlType

(* sendConnectionError and sendOperationErrors never send on a closed channel:
   a close() by another goroutine between their state check and their send
   waits for the read lock they hold. *)
SafeSend == pc[Proc] \in {"connErrSend", "opErrSend"} => ~outClosed

(* Whoever calls close(), and in whatever order with setState, the
   WebsocketCloseHandlers are called at most once, and no goroutine is about to
   close a channel that is closed already. *)
CloseOnce ==
  /\ notified <= 1
  /\ \A t \in Threads :
       /\ pc[t] = "handlers" => notified = 0
       /\ pc[t] = "closeOut" => ~outClosed
       /\ pc[t] = "closeIn"  => ~inClosed
       /\ pc[t] = "closeWs"  => wsOpen

(* A subscription is in the table only if a connection_init was accepted
   before: the state check of start is not undone by close() and setState
   running between it and addSubscription. *)
NoSubscriptionBeforeInit == Subscriptions # {} => accepted

(* A pump that has returned, normally or by a panic, has signalled shutdown: the
   deferred close() runs on every way out, whichever of its parts then fails. *)
PumpExitShutsDown == \A t \in Pumps : pc[t] = "done" => shutdown

(* The channels and the websocket are only closed while the state is Closed
   and no other goroutine is inside a critical section of stateMutex: no
   setState reopens the connection in the middle of close(). *)
TeardownUnderLock ==
  [][<<outClosed, inClosed, wsOpen>>' # <<outClosed, inClosed, wsOpen>>
       => /\ state = "closed" /\ state' = "closed"
          /\ writer \in Threads /\ readers = {}]_vars

L == INSTANCE Lifecycle WITH signalled <- shutdown, wsClosed <- ~wsOpen,
                             subscriptions <- Subscriptions

(* The teardown runs once and in order, and subscriptions follow the
   handshake, as Lifecycle promises. *)
ImplementsLifecycle == L!LSpec

(* Once shutdown is signalled (and the close handlers return), the websocket is
   closed and both pumps return, unless a panic ends the process. *)
ShutdownEndsPumps ==
  shutdown ~> Crashed \/ (~wsOpen /\ \A t \in Pumps : pc[t] = "done")
=============================================================================

---------------------------- MODULE SystemProofs ----------------------------
(***************************************************************************)
(* Conn is the connection that Redis assumes, for every set of readers and *)
(* ids, every channel capacity, and every behaviour of the client and of   *)
(* redis.  LinkInv says where each goroutine of Conn is while the redis    *)
(* code it runs is somewhere; together with IndInv it is inductive.        *)
(***************************************************************************)
EXTENDS System, ConnProofs

USE ConnAssumption, SystemAssumption
USE DEF Threads, Pumps, Reader, Proc, NoThread, Dead, Holding, RHolding, CloseLabels,
        mutex, chans, ws, ctl, gql,
        R!Proc, R!Closer, R!Callers, R!None, R!env, R!reader, R!caller

LinkType ==
  /\ sid \in IDs \cup {R!None}
  /\ rpc \in [Apps -> R!ReaderLabels]
  /\ cpc \in [R!Callers -> R!CallerLabels]
  /\ rcrashed \in BOOLEAN

(* A panic of a reader ends every goroutine. *)
CrashLink == rcrashed => \A t \in Threads : pc[t] = Dead

(* gqlStart hands over one subscription at a time. *)
StartLink ==
  /\ sid # R!None => pc[Proc] \in {"subStart", Dead}
  /\ pc[Proc] = "subStart" => sid \in IDs

(* processMessages serves a stop while it runs a reader's close(); a panic there
   has led it to its deferred close(), and it serves no message after that. *)
StopLink ==
  /\ cpc[Proc] \in {"idle", "check", "set", "load", "close", "nil", "panicked"}
  /\ cpc[Proc] \in {"check", "set", "load", "close", "nil"}
       => pc[Proc] = Dead \/ (Processing("stop") /\ FindsReader)
  /\ cpc[Proc] = "panicked" => site[Proc] = "defer"

(* A reader inside Conn is where readLoop called it. *)
ReaderLink ==
  \A a \in Apps :
    /\ pc[a] \in {"Close", "writeControl", "lock"} => rpc[a] = "giveUp"
    /\ pc[a] \in Holding => rpc[a] = "closing"
    /\ pc[a] = "send" => rpc[a] = "deliver"
    /\ pc[a] = "idle" => rpc[a] \notin {"deliver", "giveUp", "closing"}
    /\ pc[a] \notin {"sendErrorCheck", "sendError"}

(* close() leaves its critical section with the outgoing channel closed, or by a
   panic of HandleWebsocketClose, and closes the channel after the handler. *)
CloseLink ==
  /\ shutdown /\ writer = NoThread => outClosed \/ cpc[R!Closer] = "panicked"
  /\ \A t \in Threads : pc[t] = "closeOut" => cpc[R!Closer] = "idle"

LinkInv == LinkType /\ CrashLink /\ StartLink /\ StopLink /\ ReaderLink /\ CloseLink

SInv == IndInv /\ LinkInv

(***************************************************************************)
(* IndInv.  Most steps of System are steps of Conn.                        *)
(***************************************************************************)
(* The steps of System that are steps of Conn or leave Conn as it is. *)
ConnSteps ==
  \/ NoRedis \/ ServeStart \/ CallStart \/ StopWithoutReader \/ CallStop \/ RunClose
  \/ \E t \in Threads : CloseConn(t) \/ FailedSend(t)
  \/ \E r \in Apps : CallConn(r)

LEMMA ConnStepsAreConn == ConnSteps => [Next]_vars
  <1>1. NoRedis => Next
    BY DEF NoRedis, Next, ProcessMessages
  <1>2. ServeStart \/ CallStart \/ StopWithoutReader => Next
    BY DEF ServeStart, CallStart, StopWithoutReader, Next, ProcessMessages
  <1>3. ASSUME NEW t \in Threads, CloseConn(t) \/ FailedSend(t) PROVE Next
    BY <1>3 DEF CloseConn, FailedSend, Next, Close
  <1>4. ASSUME NEW r \in Apps, CallConn(r) PROVE Next
    BY <1>4 DEF CallConn, Next, App
  <1> QED
    BY <1>1, <1>2, <1>3, <1>4 DEF ConnSteps, CallStop, RunClose

(* A reader's own step may end at a call into Conn. *)
LEMMA ReaderJumps ==
  ASSUME IndInv, NEW a \in Apps, NEW label \in {"idle", "Close", "send"},
         pc[a] = "idle", Jump(a, label), UNCHANGED <<mutex, chans, ws, msg, gql>>
  PROVE  IndInv'
  <1>1. Quiet(a, label)
    BY DEF IndInv, TypeOK, PcType, Quiet, Jump, AppLabels
  <1>2. DataType' /\ ChannelType'
    BY DEF IndInv, TypeOK, DataType, ChannelType
  <1>3. ControlType'
    BY DEF IndInv, TypeOK, ControlType, Jump
  <1>4. ControlInv'
    BY DEF IndInv, TypeOK, PcType, ControlInv, Jump
  <1>5. StartInv' /\ ReopenInv'
    BY <1>1, QuietOutside
  <1> QED
    BY <1>1, <1>2, <1>3, <1>4, <1>5, QuietStep DEF IndInv, TypeOK

(* A panic in a reader's own step ends the process. *)
LEMMA ReaderCrashes ==
  ASSUME IndInv, Crash, UNCHANGED <<mutex, chans, ws, msg, gql>>
  PROVE  IndInv'
  <1>1. DataType' /\ ChannelType' /\ ControlType'
    BY CrashStep DEF IndInv, TypeOK, DataType, ChannelType, ControlType
  <1>2. LockInv'
    BY CrashStep DEF IndInv, TypeOK, DataType, LockInv
  <1>3. TeardownInv' /\ ReopenInv' /\ HandshakeInv'
    BY CrashStep DEF IndInv, TeardownInv, ReopenInv, HandshakeInv
  <1> QED
    BY <1>1, <1>2, <1>3, CrashStep DEF IndInv, TypeOK

(* A panic of reader.close() while processMessages serves a stop. *)
LEMMA StopPanics ==
  ASSUME IndInv, Processing("stop"), Panic(Proc), MessageDone,
         UNCHANGED <<mutex, chans, ws, gql>>
  PROVE  IndInv'
  <1>0. /\ pc' = [pc EXCEPT ![Proc] = "lock"]
        /\ site' = [site EXCEPT ![Proc] = "defer"] /\ site' \in [Threads -> Sites]
        /\ panicking' = panicking \cup {Proc} /\ panicking' \subseteq Pumps
    BY PumpPanic DEF Processing
  <1>1. Quiet(Proc, "lock")
    BY <1>0 DEF IndInv, TypeOK, PcType, Quiet, Processing, ProcLabels
  <1>2. DataType' /\ ChannelType'
    BY DEF IndInv, TypeOK, DataType, ChannelType
  <1>3. ControlType'
    BY <1>0 DEF IndInv, TypeOK, ControlType, MessageDone
  <1>4. ControlInv'
    BY <1>0 DEF IndInv, TypeOK, PcType, ControlType, ControlInv, MessageDone
  <1>5. StartInv' /\ ReopenInv'
    BY <1>1, QuietWorking DEF Processing, Working
  <1> QED
    BY <1>1, <1>2, <1>3, <1>4, <1>5, QuietStep DEF IndInv, TypeOK

(* The last step of reader.close() ends gqlStop, by a return or by a panic. *)
LEMMA RunStopCases ==
  ASSUME RunStop
  PROVE  \/ Processing("stop") /\ GqlStop /\ MessageDone /\ cpc'[Proc] = "idle"
         \/ Panic(Proc) /\ MessageDone /\ cpc'[Proc] = "panicked"
         \/ UNCHANGED vars /\ cpc'[Proc] \notin {"idle", "panicked"}
  BY DEF RunStop, vars

(* Every step of System preserves the invariant of Conn. *)
LEMMA SNextIndInv ==
  ASSUME SInv, [SNext]_svars
  PROVE  IndInv'
  <1>1. CASE ConnSteps
    BY <1>1, ConnStepsAreConn, NextIndInv DEF SInv
  <1>2. CASE RunStop
    <2>1. CASE GqlStop /\ MessageDone /\ cpc'[Proc] = "idle"
      <3>1. msg[Proc].payload \in {"ok", "invalid"}
        BY <1>2 DEF SInv, LinkInv, StopLink, RunStop, R!CloseReader, R!CloseCheck,
           R!CloseSetState, R!CloseLoad, R!ClosePubSub, R!CloseNil, Processing, FindsReader
      <3>2. Stop
        BY <1>2, <2>1, <3>1 DEF RunStop, Stop
      <3> QED
        BY <3>2, WorkStep DEF SInv
    <2>2. CASE Panic(Proc) /\ MessageDone
      BY <1>2, <2>2, StopPanics DEF SInv, RunStop
    <2>3. CASE UNCHANGED vars
      BY <2>3, NextIndInv DEF SInv
    <2> QED
      BY <1>2, <2>1, <2>2, <2>3, RunStopCases
  <1>3. ASSUME NEW r \in Apps, RunReader(r) PROVE IndInv'
    <2>1. CASE Crash
      BY <1>3, <2>1, ReaderCrashes DEF SInv, RunReader
    <2>2. CASE ~Crash
      <3>1. PICK label \in {"idle", "Close", "send"} : Jump(r, label)
        BY <1>3, <2>2 DEF RunReader
      <3> QED
        BY <1>3, <3>1, ReaderJumps DEF SInv, RunReader
    <2> QED
      BY <2>1, <2>2
  <1>4. CASE UNCHANGED svars
    BY <1>4, NextIndInv DEF SInv, svars
  <1> QED
    BY <1>1, <1>2, <1>3, <1>4 DEF SNext, ConnSteps

(***************************************************************************)
(* LinkInv and the refinement, one lemma per group of steps.               *)
(***************************************************************************)
(* The initial states. *)
LEMMA SInitSInv == SInit => SInv /\ R!Init
  <1> SUFFICES ASSUME SInit PROVE SInv /\ R!Init
    OBVIOUS
  <1>1. IndInv
    BY InitIndInv DEF SInit
  <1>2. rcrashed = FALSE
    BY DEF SInit, R!Init
  <1>3. LinkType
    BY <1>2 DEF SInit, R!Init, LinkType, R!ReaderLabels, R!CallerLabels
  <1>4. CrashLink
    BY <1>2 DEF CrashLink
  <1>5. StartLink /\ StopLink /\ CloseLink
    BY DEF SInit, Init, R!Init, StartLink, StopLink, CloseLink
  <1>6. ReaderLink
    BY DEF SInit, Init, R!Init, ReaderLink
  <1> QED
    BY <1>1, <1>3, <1>4, <1>5, <1>6 DEF SInv, LinkInv, SInit

(* What a step that touches neither the readers nor close() does to Conn: the
   pumps move, or a panic ends the process. *)
PumpsOnly ==
  /\ \A a \in Apps : pc'[a] = pc[a] \/ pc'[a] = Dead
  /\ \A t \in Threads : pc'[t] = "closeOut" => pc[t] = "closeOut"
  /\ pc[Proc] = Dead => pc'[Proc] = Dead
  /\ pc[Proc] = "subStart" => pc'[Proc] \in {"subStart", Dead}
  /\ pc'[Proc] = "subStart" => pc[Proc] = "subStart"
  /\ Processing("stop") => /\ pc'[Proc] \in {pc[Proc], Dead}
                           /\ msg'[Proc] = msg[Proc]
  /\ site[Proc] = "defer" => site'[Proc] = "defer"
  /\ ~rcrashed
  /\ UNCHANGED <<shutdown, writer, outClosed, Subscriptions>>

LEMMA PumpsOnlyLink ==
  ASSUME SInv, PumpsOnly, UNCHANGED rvars
  PROVE  LinkInv' /\ UNCHANGED R!vars
  <1> USE DEF SInv, LinkInv, PumpsOnly, rvars
  <1>1. UNCHANGED R!vars
    BY DEF R!vars, conn
  <1>2. LinkType'
    BY DEF LinkType
  <1>3. CrashLink'
    BY DEF CrashLink
  <1>4. StartLink'
    BY DEF StartLink
  <1>5. StopLink'
    BY DEF StopLink, Processing, FindsReader
  <1>6. ReaderLink'
    BY DEF ReaderLink
  <1>7. CloseLink'
    BY DEF CloseLink
  <1> QED
    BY <1>1, <1>2, <1>3, <1>4, <1>5, <1>6, <1>7

(* A goroutine that takes a step shows that no reader has panicked. *)
LEMMA Alive ==
  ASSUME SInv, NEW t \in Threads, pc[t] # Dead
  PROVE  ~rcrashed
  BY DEF SInv, LinkInv, CrashLink

(* The steps in which no redis handler is called. *)
LEMMA NoRedisLink ==
  ASSUME SInv, NoRedis
  PROVE  LinkInv' /\ UNCHANGED R!vars
  <1>1. CASE ReadPump
    <2>1. ~rcrashed
      BY <1>1, Alive DEF ReadPump, ReadPumpStart, ReadPumpLoop, ReadMessage,
         ReadCloseFrame, ReadGone, ReadError, ReadPanics, PushMessage, PushEOF
    <2>2. UNCHANGED <<shutdown, writer, outClosed, Subscriptions>>
      BY <1>1 DEF ReadPump, ReadPumpStart, ReadPumpLoop, ReadMessage, ReadCloseFrame,
         ReadGone, ReadError, ReadPanics, PushMessage, PushEOF, SendIncoming
    <2>3. /\ \E label \in {"loop", "read", "push", "pushEOF", "lock"} :
               pc' = [pc EXCEPT ![Reader] = label]
          /\ site' = site \/ \E s \in Sites : site' = [site EXCEPT ![Reader] = s]
      <3>1. CASE ReadPanics
        BY <3>1, PumpPanic DEF SInv, ReadPanics, Sites
      <3>2. CASE ~ReadPanics
        BY <1>1, <3>2 DEF ReadPump, ReadPumpStart, ReadPumpLoop, ReadMessage,
           ReadCloseFrame, ReadGone, ReadError, PushMessage, PushEOF, Jump, CallClose,
           LeavePump, Sites
      <3> QED
        BY <3>1, <3>2
    <2>4. msg' = msg \/ \E m \in Traffic \cup {NoMsg} : msg' = [msg EXCEPT ![Reader] = m]
      BY <1>1 DEF ReadPump, ReadPumpStart, ReadPumpLoop, ReadMessage, ReadCloseFrame,
         ReadGone, ReadError, ReadPanics, PushMessage, PushEOF
    <2>5. /\ \A t \in Threads \ {Reader} : pc'[t] = pc[t]
          /\ pc'[Reader] # "closeOut"
          /\ msg'[Proc] = msg[Proc] /\ site'[Proc] = site[Proc]
      BY <2>3, <2>4 DEF SInv, IndInv, TypeOK, PcType, ControlType
    <2> QED
      BY <2>1, <2>2, <2>5, PumpsOnlyLink DEF NoRedis, PumpsOnly
  <1>2. CASE \/ RecvShutdown \/ RecvIncoming \/ RecvIncomingNil
             \/ RecvOutgoing \/ RecvOutgoingNil \/ PingFailed
    <2>1. pc[Proc] = "select"
      BY <1>2 DEF RecvShutdown, RecvIncoming, RecvIncomingNil, RecvOutgoing,
         RecvOutgoingNil, PingFailed
    <2>2. UNCHANGED <<shutdown, writer, outClosed, Subscriptions>>
      BY <1>2 DEF RecvShutdown, RecvIncoming, RecvIncomingNil, RecvOutgoing,
         RecvOutgoingNil, PingFailed
    <2>3. /\ \A t \in Threads \ {Proc} : pc'[t] = pc[t]
          /\ pc'[Proc] \in {"select", "process", "lock"}
      BY <1>2, PumpPanic
         DEF SInv, IndInv, TypeOK, PcType, RecvShutdown, RecvIncoming, RecvIncomingNil,
         RecvOutgoing, RecvOutgoingNil, PingFailed, WriteFrame, Jump, CallClose, LeavePump
    <2> QED
      BY <2>1, <2>2, <2>3, PumpsOnlyLink, Alive
         DEF SInv, IndInv, ControlInv, NoRedis, PumpsOnly, Processing
  <1>3. CASE \/ ConnectionInit \/ SetEstablished \/ SendAck \/ SendConnectionError
             \/ ConnectionTerminate \/ SendEOF \/ Start \/ SendOperationErrors \/ Unknown
    <2>1. /\ pc[Proc] \in (Working \ {"subStart"}) \cup {"ack"} \cup RHolding
          /\ ~Processing("stop")
      BY <1>3 DEF ConnectionInit, SetEstablished, SendAck, SendConnectionError,
         ConnectionTerminate, SendEOF, Start, SendOperationErrors, Unknown, Processing,
         SendErrorLocked, SendErrorUnlock, Working
    <2>2. UNCHANGED <<shutdown, writer, outClosed, Subscriptions>>
      BY <1>3 DEF ConnectionInit, SetEstablished, SendAck, SendConnectionError,
         ConnectionTerminate, SendEOF, Start, SendOperationErrors, Unknown,
         SendErrorLocked, SendErrorUnlock, SendIncoming, SendOutgoing
    <2>3. /\ \A t \in Threads \ {Proc} : pc'[t] = pc[t]
          /\ pc'[Proc] \notin {"subStart", "closeOut"}
      <3>1. Panic(Proc) => pc' = [pc EXCEPT ![Proc] = "lock"]
        BY <2>1, PumpPanic DEF SInv, Working
      <3>2. Panic(Proc) \/ \E label \in ProcLabels \ {"subStart", "closeOut"} :
                             pc' = [pc EXCEPT ![Proc] = label]
        BY <1>3 DEF ConnectionInit, SetEstablished, SendAck,
           SendConnectionError, ConnectionTerminate, SendEOF, Start, SendOperationErrors,
           Unknown, SendErrorLocked, SendErrorUnlock, Dispatch, Jump, ProcLabels
      <3> QED
        BY <3>1, <3>2 DEF SInv, IndInv, TypeOK, PcType
    <2>4. site[Proc] # "defer" /\ pc[Proc] \notin {"subStart", Dead}
      BY <2>1 DEF SInv, IndInv, ControlInv, Working
    <2>5. PumpsOnly
      BY <2>1, <2>2, <2>3, <2>4, Alive DEF PumpsOnly
    <2> QED
      BY <2>5, PumpsOnlyLink DEF NoRedis
  <1>4. CASE Recover \/ RecoverEOF
    <2>1. PumpsOnly
      BY <1>4, Alive DEF SInv, IndInv, TypeOK, PcType, PumpsOnly, Recover, RecoverEOF,
         SendIncoming, Jump, Crash, Processing
    <2> QED
      BY <2>1, PumpsOnlyLink DEF NoRedis
  <1> QED
    BY <1>1, <1>2, <1>3, <1>4 DEF NoRedis

(* A step of processMessages outside close() leaves the others where they are. *)
LEMMA ProcOnly ==
  ASSUME SInv, pc[Proc] # Dead, \A t \in Threads \ {Proc} : pc'[t] = pc[t],
         pc'[Proc] # "closeOut", cpc'[R!Closer] = cpc[R!Closer],
         UNCHANGED <<shutdown, writer, outClosed, rcrashed>>
  PROVE  ~rcrashed /\ CrashLink' /\ CloseLink' /\ conn' = conn
  <1>1. ~rcrashed
    BY Alive
  <1>2. CrashLink'
    BY <1>1 DEF CrashLink
  <1>3. CloseLink'
    BY DEF SInv, LinkInv, CloseLink
  <1> QED
    BY <1>1, <1>2, <1>3 DEF conn

(* gqlStart is StartMessage when the query is valid, and nothing otherwise. *)
LEMMA ServeStartLink ==
  ASSUME SInv, ServeStart
  PROVE  LinkInv' /\ [R!Next]_(R!vars)
  <1>1. /\ pc[Proc] = "gqlStart" /\ pc'[Proc] \in {"subStart", "select", "lock"}
        /\ \A t \in Threads \ {Proc} : pc'[t] = pc[t]
    BY PumpPanic DEF SInv, IndInv, TypeOK, PcType, ServeStart, GqlStart, Jump
  <1>2. /\ UNCHANGED <<shutdown, writer, outClosed>>
        /\ UNCHANGED <<table, rpc, rstate, pubSub, open, errors, cpc, target, todo, rcrashed>>
        /\ sid' = IF pc'[Proc] = "subStart" THEN msg[Proc].id ELSE R!None
    BY DEF ServeStart, GqlStart
  <1>3. msg[Proc].id \in IDs
    BY <1>1 DEF SInv, IndInv, ControlInv, ClientMessages
  <1>4. ~rcrashed /\ CrashLink' /\ CloseLink' /\ conn' = conn
    BY <1>1, <1>2, ProcOnly
  <1>5. sid = R!None /\ cpc[Proc] = "idle"
    BY <1>1 DEF SInv, LinkInv, StartLink, StopLink, IndInv, ControlInv, Processing
  <1>6. LinkType' /\ StartLink' /\ StopLink' /\ ReaderLink'
    BY <1>1, <1>2, <1>3, <1>5 DEF SInv, LinkInv, LinkType, StartLink, StopLink, ReaderLink
  <1>7. CASE pc'[Proc] = "subStart"
    <2>1. R!StartMessage(msg[Proc].id)
      BY <1>2, <1>4, <1>5, <1>7 DEF R!StartMessage
    <2> QED
      BY <1>3, <1>4, <1>6, <2>1 DEF LinkInv, R!Next, R!Handler
  <1>8. CASE pc'[Proc] # "subStart"
    BY <1>2, <1>4, <1>5, <1>6, <1>8 DEF LinkInv, R!vars
  <1> QED
    BY <1>7, <1>8

(* HandleSubscriptionStart runs in the loop of gqlStart over the handlers. *)
LEMMA CallStartLink ==
  ASSUME SInv, CallStart
  PROVE  LinkInv' /\ [R!Next]_(R!vars)
  <1>1. /\ pc[Proc] = "subStart" /\ pc'[Proc] \in {"select", "lock"}
        /\ \A t \in Threads \ {Proc} : pc'[t] = pc[t]
    BY PumpPanic DEF SInv, IndInv, TypeOK, PcType, CallStart, SubscriptionStart, Dispatch, Jump
  <1>2. /\ UNCHANGED <<shutdown, writer, outClosed>>
        /\ UNCHANGED <<cpc, rcrashed>> /\ sid' = R!None
        /\ \/ rpc' = rpc
           \/ \E r \in Apps : rpc[r] = "none" /\ rpc' = [rpc EXCEPT ![r] = "new"]
    BY DEF CallStart, SubscriptionStart, R!HandleSubscriptionStart, R!StartFails, R!GoTo
  <1>3. ~rcrashed /\ CrashLink' /\ CloseLink' /\ conn' = conn
    BY <1>1, <1>2, ProcOnly
  <1>4. cpc[Proc] = "idle"
    BY <1>1 DEF SInv, LinkInv, StopLink, IndInv, ControlInv, Processing
  <1>5. LinkType' /\ StartLink' /\ StopLink'
    BY <1>1, <1>2, <1>4 DEF SInv, LinkInv, LinkType, StartLink, StopLink, R!ReaderLabels
  <1>6. ReaderLink'
    BY <1>1, <1>2 DEF SInv, LinkInv, LinkType, ReaderLink, IndInv, TypeOK, PcType, AppLabels
  <1> QED
    BY <1>3, <1>5, <1>6 DEF LinkInv, CallStart, R!Next, R!Handler

(* A stop for which the handler has no reader. *)
LEMMA StopWithoutReaderLink ==
  ASSUME SInv, StopWithoutReader
  PROVE  LinkInv' /\ [R!Next]_(R!vars)
  <1>1. /\ pc[Proc] = "process" /\ pc'[Proc] \in {"select", "lock"}
        /\ \A t \in Threads \ {Proc} : pc'[t] = pc[t]
    BY PumpPanic DEF SInv, IndInv, TypeOK, PcType, StopWithoutReader, Processing, Stop,
       GqlStop, Dispatch, Jump, CallClose
  <1>2. UNCHANGED <<shutdown, writer, outClosed>> /\ UNCHANGED rvars /\ ~FindsReader
    BY DEF StopWithoutReader, Stop
  <1>3. ~rcrashed /\ CrashLink' /\ CloseLink' /\ conn' = conn
    BY <1>1, <1>2, ProcOnly DEF rvars
  <1>4. sid = R!None /\ cpc[Proc] = "idle"
    BY <1>1, <1>2 DEF SInv, LinkInv, StartLink, StopLink, IndInv, ControlInv
  <1>5. LinkType' /\ StartLink' /\ StopLink' /\ ReaderLink'
    BY <1>1, <1>2, <1>4 DEF SInv, LinkInv, LinkType, StartLink, StopLink, ReaderLink, rvars
  <1> QED
    BY <1>2, <1>3, <1>5 DEF LinkInv, rvars, R!vars

(* HandleSubscriptionStop finds its reader. *)
LEMMA CallStopLink ==
  ASSUME SInv, CallStop
  PROVE  LinkInv' /\ [R!Next]_(R!vars)
  <1>1. /\ Processing("stop") /\ FindsReader /\ UNCHANGED vars
        /\ R!HandleSubscriptionStop(msg[Proc].id)
    BY DEF CallStop
  <1>2. msg[Proc].id \in IDs /\ pc[Proc] = "process"
    BY <1>1 DEF SInv, IndInv, ControlInv, Processing, ClientMessages
  <1>3. /\ cpc' = [cpc EXCEPT ![Proc] = "check"]
        /\ UNCHANGED <<sid, table, rpc, rcrashed>>
    BY <1>1 DEF R!HandleSubscriptionStop, R!CallerAt
  <1>4. cpc'[R!Closer] = cpc[R!Closer] /\ cpc'[Proc] = "check"
    BY <1>3 DEF SInv, LinkInv, LinkType
  <1>5. ~rcrashed /\ CrashLink' /\ CloseLink' /\ conn' = conn
    BY <1>1, <1>2, <1>3, <1>4, ProcOnly DEF vars
  <1>6. LinkType'
    BY <1>3 DEF SInv, LinkInv, LinkType, R!CallerLabels
  <1>7. StartLink' /\ StopLink' /\ ReaderLink'
    BY <1>1, <1>3, <1>4
       DEF SInv, LinkInv, StartLink, StopLink, ReaderLink, Processing, FindsReader, vars
  <1> QED
    BY <1>1, <1>2, <1>5, <1>6, <1>7 DEF LinkInv, R!Next, R!Handler

(* What a step of reader.close() does to its caller. *)
LEMMA CloseReaderMoves ==
  ASSUME LinkType, NEW c \in R!Callers, R!CloseReader(c)
  PROVE  /\ cpc[c] \in {"check", "set", "load", "close", "nil"}
         /\ cpc'[c] \in {"set", "load", "close", "nil", "panicked",
                         IF c = R!Closer THEN "range" ELSE "idle"}
         /\ \A d \in R!Callers \ {c} : cpc'[d] = cpc[d]
         /\ cpc' \in [R!Callers -> R!CallerLabels]
         /\ UNCHANGED <<sid, table, rpc, rcrashed>>
  BY DEF LinkType, R!CallerLabels, R!CloseReader, R!CloseCheck, R!CloseSetState, R!CloseLoad,
     R!ClosePubSub, R!CloseNil, R!CallerReturns, R!CallerAt

(* reader.close() runs inside gqlStop. *)
LEMMA RunStopLink ==
  ASSUME SInv, RunStop
  PROVE  LinkInv' /\ [R!Next]_(R!vars)
  <1>1. /\ cpc[Proc] \in {"check", "set", "load", "close", "nil"}
        /\ cpc'[Proc] \in {"set", "load", "close", "nil", "panicked", "idle"}
        /\ cpc'[R!Closer] = cpc[R!Closer]
        /\ cpc' \in [R!Callers -> R!CallerLabels]
        /\ UNCHANGED <<sid, table, rpc, rcrashed>>
    BY CloseReaderMoves DEF SInv, LinkInv, RunStop
  <1>2. pc[Proc] = "process" /\ UNCHANGED <<shutdown, writer, outClosed, Subscriptions>>
    BY DEF RunStop, Processing
  <1>3. FindsReader
    BY <1>1, <1>2 DEF SInv, LinkInv, StopLink
  <1>4. /\ \A t \in Threads \ {Proc} : pc'[t] = pc[t]
        /\ \/ cpc'[Proc] = "idle" /\ pc'[Proc] \in {"select", "lock"}
           \/ cpc'[Proc] = "panicked" /\ pc'[Proc] = "lock" /\ site'[Proc] = "defer"
           \/ cpc'[Proc] \notin {"idle", "panicked"} /\ pc'[Proc] = pc[Proc] /\ msg' = msg
    <2>1. Panic(Proc) => /\ pc' = [pc EXCEPT ![Proc] = "lock"]
                         /\ site' = [site EXCEPT ![Proc] = "defer"]
      BY <1>2, PumpPanic DEF SInv
    <2> QED
      BY <2>1, RunStopCases
         DEF SInv, IndInv, TypeOK, PcType, ControlType, GqlStop, Dispatch, Jump, vars
  <1>5. ~rcrashed /\ CrashLink' /\ CloseLink' /\ conn' = conn
    BY <1>1, <1>2, <1>4, ProcOnly
  <1>6. sid = R!None
    BY <1>2 DEF SInv, LinkInv, StartLink
  <1>7. LinkType' /\ StartLink' /\ ReaderLink'
    BY <1>1, <1>2, <1>4, <1>6 DEF SInv, LinkInv, LinkType, StartLink, ReaderLink
  <1>8. StopLink'
    BY <1>1, <1>2, <1>3, <1>4 DEF RunStop, StopLink, Processing, FindsReader
  <1> QED
    BY <1>5, <1>7, <1>8 DEF LinkInv, RunStop, R!Next

(* HandleWebsocketClose runs inside close(). *)
LEMMA RunCloseLink ==
  ASSUME SInv, RunClose
  PROVE  LinkInv' /\ [R!Next]_(R!vars)
  <1>1. PICK t \in Threads : pc[t] = "handlers"
    BY DEF RunClose
  <1>2. ~rcrashed
    BY <1>1, Alive
  <1>3. writer = t /\ writer # NoThread /\ \A u \in Threads : pc[u] # "closeOut"
    BY <1>1 DEF SInv, IndInv, LockInv
  <1>4. UNCHANGED vars
    BY DEF RunClose
  <1>5. /\ cpc'[Proc] = cpc[Proc]
        /\ cpc' \in [R!Callers -> R!CallerLabels]
        /\ UNCHANGED <<sid, table, rpc, rcrashed>>
    <2>1. CASE R!CloseReader(R!Closer)
      BY <2>1, CloseReaderMoves DEF SInv, LinkInv
    <2>2. CASE ~R!CloseReader(R!Closer)
      BY <2>2 DEF SInv, LinkInv, LinkType, RunClose, R!HandleWebsocketClose, R!RangeNext,
         R!RangeDone, R!CallerAt, R!CallerLabels
    <2> QED
      BY <2>1, <2>2
  <1>6. LinkType' /\ CrashLink' /\ StartLink' /\ ReaderLink'
    BY <1>2, <1>4, <1>5 DEF SInv, LinkInv, LinkType, CrashLink, StartLink, ReaderLink, vars
  <1>7. StopLink' /\ CloseLink'
    BY <1>3, <1>4, <1>5 DEF SInv, LinkInv, StopLink, CloseLink, Processing, FindsReader, vars
  <1> QED
    BY <1>2, <1>6, <1>7 DEF LinkInv, RunClose, R!Next, R!Handler

(* A step of goroutine t inside Conn: t moves, or a panic ends the process. *)
Moves(t) ==
  /\ pc[t] \notin {Dead, "idle", "process", "subStart"}
  /\ \/ Crash
     \/ \E label \in Labels \ {Dead, "subStart"} : pc' = [pc EXCEPT ![t] = label]
  /\ t \in Apps => \/ pc'[t] \in {"idle", "handlers", Dead}
                   \/ pc[t] \in Holding /\ pc'[t] \in Holding
                   \/ pc[t] \in {"Close", "writeControl"} /\ pc'[t] \in {"writeControl", "lock"}
  /\ site[Proc] = "defer" => site'[Proc] = "defer"
  /\ msg'[Proc] = msg[Proc]
  /\ Subscriptions' = Subscriptions

(* What such a step means to the redis code. *)
LEMMA Follows ==
  ASSUME SInv, NEW t \in Threads, Moves(t), ReaderFollows(t)
  PROVE  /\ ~rcrashed /\ rcrashed' \in BOOLEAN
         /\ t \in Apps /\ pc'[t] = Dead => rcrashed' = TRUE /\ rpc' = rpc
         /\ t \notin Apps \/ pc'[t] # Dead => rcrashed' = rcrashed
         /\ t \notin Apps => rpc' = rpc
         /\ t \in Apps /\ pc'[t] = "idle" =>
              rpc' = [rpc EXCEPT ![t] = IF rpc[t] = "deliver" THEN "inner" ELSE "leave"]
         /\ t \in Apps /\ pc'[t] = "handlers" => rpc' = [rpc EXCEPT ![t] = "closing"]
         /\ t \in Apps /\ pc'[t] \notin {"idle", "handlers"} => rpc' = rpc
         /\ UNCHANGED <<sid, table, rstate, pubSub, open, errors, target, todo>>
  <1>1. ~rcrashed
    BY Alive DEF Moves
  <1>2. rcrashed' = (rcrashed \/ (t \in Apps /\ pc'[t] = Dead))
    BY DEF ReaderFollows
  <1>3. rcrashed \in BOOLEAN
    BY DEF SInv, LinkInv, LinkType
  <1>4. /\ rcrashed' \in BOOLEAN
        /\ t \in Apps /\ pc'[t] = Dead => rcrashed' = TRUE
        /\ t \notin Apps \/ pc'[t] # Dead => rcrashed' = rcrashed
    BY <1>1, <1>2, <1>3
  <1>5. /\ t \in Apps /\ pc'[t] = Dead => rpc' = rpc
        /\ t \notin Apps => rpc' = rpc
        /\ t \in Apps /\ pc'[t] = "idle" =>
             rpc' = [rpc EXCEPT ![t] = IF rpc[t] = "deliver" THEN "inner" ELSE "leave"]
        /\ t \in Apps /\ pc'[t] = "handlers" => rpc' = [rpc EXCEPT ![t] = "closing"]
        /\ t \in Apps /\ pc'[t] \notin {"idle", "handlers"} => rpc' = rpc
    <2>1. rpc \in [Apps -> R!ReaderLabels] /\ pc[t] # "idle"
      BY DEF SInv, LinkInv, LinkType, Moves
    <2> QED
      BY <2>1 DEF ReaderFollows
  <1> QED
    BY <1>1, <1>4, <1>5 DEF ReaderFollows

(* The links that hold whatever t does inside Conn. *)
LEMMA MovesLink ==
  ASSUME SInv, NEW t \in Threads, Moves(t), ReaderFollows(t),
         cpc' \in {cpc, [cpc EXCEPT ![R!Closer] = "call"]}
  PROVE  LinkType' /\ CrashLink' /\ StartLink' /\ StopLink' /\ ReaderLink'
  <1>1. \/ \A u \in Threads : pc'[u] = Dead
        \/ /\ \A u \in Threads : u # t => pc'[u] = pc[u]
           /\ pc'[t] \notin {Dead, "subStart"}
    BY DEF SInv, IndInv, TypeOK, PcType, Moves, Crash
  <1>2. LinkType'
    <2>1. cpc' \in [R!Callers -> R!CallerLabels]
      BY DEF SInv, LinkInv, LinkType, R!CallerLabels
    <2>2. \/ rpc' = rpc
          \/ t \in Apps /\ \E l \in {"inner", "leave", "closing"} : rpc' = [rpc EXCEPT ![t] = l]
      BY Follows
    <2>3. rpc' \in [Apps -> R!ReaderLabels]
      BY <2>2 DEF SInv, LinkInv, LinkType, R!ReaderLabels
    <2> QED
      BY <2>1, <2>3, Follows DEF SInv, LinkInv, LinkType
  <1>3. CrashLink'
    BY <1>1, Follows DEF CrashLink
  <1>4. StartLink'
    BY <1>1, Follows DEF SInv, LinkInv, StartLink, Moves
  <1>5. cpc'[Proc] = cpc[Proc]
    BY DEF SInv, LinkInv, LinkType
  <1>6. StopLink'
    <2>1. site[Proc] = "defer" => site'[Proc] = "defer"
      BY DEF Moves
    <2>2. ASSUME cpc[Proc] \in {"check", "set", "load", "close", "nil"}
          PROVE  pc'[Proc] = Dead \/ (Processing("stop")' /\ FindsReader')
      <3>1. pc[Proc] = Dead \/ (Processing("stop") /\ FindsReader)
        BY <2>2 DEF SInv, LinkInv, StopLink
      <3>2. t # Proc
        BY <3>1, Follows DEF SInv, LinkInv, CrashLink, Moves, Processing
      <3> QED
        BY <1>1, <3>1, <3>2, Follows DEF Moves, Processing, FindsReader
    <2> QED
      BY <1>5, <2>1, <2>2 DEF SInv, LinkInv, StopLink
  <1>7. ReaderLink'
    <2>1. CASE \A u \in Threads : pc'[u] = Dead
      BY <2>1 DEF ReaderLink
    <2>2. CASE \A u \in Threads : u # t => pc'[u] = pc[u]
      <3>1. /\ rpc \in [Apps -> R!ReaderLabels]
            /\ \/ rpc' = rpc /\ (t \in Apps => pc'[t] \notin {"idle", "handlers"})
               \/ /\ t \in Apps /\ pc'[t] = "idle"
                  /\ \E l \in {"inner", "leave"} : rpc' = [rpc EXCEPT ![t] = l]
               \/ t \in Apps /\ pc'[t] = "handlers" /\ rpc' = [rpc EXCEPT ![t] = "closing"]
        BY Follows DEF SInv, LinkInv, LinkType
      <3>2. \A a \in Apps : a # t => rpc'[a] = rpc[a] /\ pc'[a] = pc[a]
        BY <2>2, <3>1
      <3>3. ASSUME t \in Apps
            PROVE  /\ pc'[t] = "idle" => rpc'[t] \in {"inner", "leave"}
                   /\ pc'[t] = "handlers" => rpc'[t] = "closing"
                   /\ pc'[t] \notin {"idle", "handlers"} => rpc'[t] = rpc[t]
        BY <3>1, <3>3
      <3>4. ASSUME t \in Apps
            PROVE  \/ pc'[t] \in {"idle", "handlers", Dead}
                   \/ pc[t] \in Holding /\ pc'[t] \in Holding
                   \/ pc[t] \in {"Close", "writeControl"} /\ pc'[t] \in {"writeControl", "lock"}
        BY <3>4 DEF Moves
      <3> QED
        BY <3>2, <3>3, <3>4 DEF SInv, LinkInv, ReaderLink
    <2> QED
      BY <1>1, <2>1, <2>2
  <1> QED
    BY <1>2, <1>3, <1>4, <1>6, <1>7

(* Where a panic and a return from close() lead. *)
LEMMA UnwindMoves ==
  ASSUME SInv, NEW t \in Threads, NEW failed \in BOOLEAN,
         Panic(t) \/ CloseReturns(t, failed)
  PROVE  /\ \/ Crash
            \/ \E label \in {"lock", "recover", "idle", "select", "pushEOF", "done"} :
                 pc' = [pc EXCEPT ![t] = label]
         /\ t \in Apps => IF Panic(t) THEN Crash ELSE pc' = [pc EXCEPT ![t] = "idle"]
         /\ site[Proc] = "defer" => site'[Proc] = "defer"
  <1>1. site[Reader] \in {"none", "closeHandler", "defer"} /\ site[Proc] \in {"none", "stop", "defer"}
    BY DEF SInv, IndInv, ControlInv
  <1>2. t \in Apps => site[t] \in {"none", "Close"} /\ t \notin Pumps
    BY DEF SInv, IndInv, ControlInv
  <1>3. site \in [Threads -> Sites]
    BY DEF SInv, IndInv, TypeOK, ControlType
  <1>4. CASE Panic(t)
    BY <1>1, <1>2, <1>3, <1>4 DEF Panic, CallClose, Crash
  <1>5. CASE CloseReturns(t, failed) /\ ~Panic(t)
    BY <1>1, <1>2, <1>3, <1>5 DEF CloseReturns, LeavePump, CallClose, Jump, Crash
  <1> QED
    BY <1>4, <1>5

(* close() begins: for Redis the connection closes, in a pump or in the reader
   that gives up.  Where shutdown was signalled before, it panics. *)
LEMMA CloseBeginLink ==
  ASSUME SInv, NEW t \in Threads, CloseBegin(t), ReaderFollows(t),
         cpc' = IF pc'[t] = "handlers" THEN [cpc EXCEPT ![R!Closer] = "call"] ELSE cpc
  PROVE  LinkInv' /\ [R!Next]_(R!vars)
  <1>1. CASE ~shutdown
    <2>1. pc[t] = "lock" /\ pc' = [pc EXCEPT ![t] = "handlers"] /\ pc'[t] = "handlers"
      BY <1>1 DEF SInv, IndInv, TypeOK, PcType, CloseBegin, Jump
    <2>2. Moves(t)
      BY <1>1, <2>1 DEF Moves, CloseBegin, Jump, Labels, ReaderLabels
    <2>3. LinkType' /\ CrashLink' /\ StartLink' /\ StopLink' /\ ReaderLink'
      BY <2>1, <2>2, MovesLink
    <2>4. CloseLink'
      <3>1. writer' = t /\ t # NoThread
        BY <1>1 DEF CloseBegin
      <3>2. \A u \in Threads : pc'[u] # "closeOut"
        BY <2>1 DEF SInv, IndInv, TypeOK, PcType, LockInv, CloseBegin, CanLock
      <3> QED
        BY <3>1, <3>2 DEF CloseLink
    <2>5. conn = "open" /\ conn' = "closing"
      BY <1>1 DEF SInv, IndInv, TeardownInv, CloseBegin, conn
    <2>6. R!BeginClose
      BY <2>1, <2>2, <2>5, Follows DEF R!BeginClose, R!CallerAt
    <2>7. CASE t \in Apps
      <3>1. rpc[t] = "giveUp" /\ R!GoTo(t, "closing")
        BY <2>1, <2>2, <2>7, Follows DEF SInv, LinkInv, ReaderLink, R!GoTo
      <3>2. R!ReadPump(t)
        BY <2>6, <3>1 DEF R!ReadPump, R!GiveUp
      <3> QED
        BY <2>2, <2>3, <2>4, <2>7, <3>2, Follows DEF LinkInv, R!Next
    <2>8. CASE t \notin Apps
      BY <2>2, <2>3, <2>4, <2>6, <2>8, Follows DEF LinkInv, R!Next, R!Handler, R!ConnCloses
    <2> QED
      BY <2>7, <2>8
  <1>2. CASE shutdown
    <2>1. pc[t] = "lock" /\ Panic(t) /\ UNCHANGED <<outClosed, msg, Subscriptions, writer>>
      BY <1>2 DEF CloseBegin
    <2>2. Moves(t) /\ pc'[t] \notin {"handlers", "closeOut"}
      <3>1. \/ Crash
            \/ \E label \in {"lock", "recover", "idle", "select", "pushEOF", "done"} :
                 pc' = [pc EXCEPT ![t] = label]
        BY <2>1, UnwindMoves
      <3>2. pc'[t] \notin {"handlers", "closeOut"}
        BY <3>1 DEF SInv, IndInv, TypeOK, PcType, Crash
      <3>3. t \in Apps => pc'[t] = Dead
        BY <2>1, UnwindMoves DEF Crash
      <3> QED
        BY <2>1, <3>1, <3>2, <3>3, UnwindMoves
           DEF Moves, Labels, ReaderLabels, ProcLabels, AppLabels
    <2>3. LinkType' /\ CrashLink' /\ StartLink' /\ StopLink' /\ ReaderLink' /\ cpc' = cpc
      BY <2>2, MovesLink
    <2>4. shutdown' = shutdown
      BY <1>2 DEF SInv, IndInv, TypeOK, ChannelType, CloseBegin
    <2>5. writer = NoThread /\ (outClosed \/ cpc[R!Closer] = "panicked")
      BY <1>2 DEF SInv, LinkInv, CloseLink, CloseBegin, CanLock
    <2>6. CloseLink'
      <3>1. \A u \in Threads : pc'[u] # "closeOut"
        <4>1. \A u \in Threads : pc[u] # "closeOut"
          BY <2>5 DEF SInv, IndInv, LockInv
        <4> QED
          BY <2>2, <4>1 DEF SInv, IndInv, TypeOK, PcType, Moves, Crash
      <3> QED
        BY <2>1, <2>3, <2>4, <2>5, <3>1 DEF CloseLink
    <2>7. conn' = conn
      BY <2>1, <2>4 DEF conn
    <2>8. CASE t \in Apps
      <3>1. pc'[t] = Dead /\ rpc[t] = "giveUp"
        BY <2>1, <2>8, UnwindMoves DEF SInv, LinkInv, ReaderLink, Crash
      <3>2. conn = "closed" \/ cpc[R!Closer] = "panicked"
        BY <2>5 DEF conn
      <3>3. R!GiveUp(t)
        BY <2>2, <2>3, <2>7, <2>8, <3>1, <3>2, Follows DEF R!GiveUp, R!ReaderCrash
      <3> QED
        BY <2>2, <2>3, <2>6, <2>8, <3>3, Follows DEF LinkInv, R!Next, R!ReadPump
    <2>9. CASE t \notin Apps
      BY <2>2, <2>3, <2>6, <2>7, <2>9, Follows DEF LinkInv, R!vars
    <2> QED
      BY <2>8, <2>9
  <1> QED
    BY <1>1, <1>2

(* The close handlers have returned, or a panic of HandleWebsocketClose unwinds
   close(): Redis sees it only if close() was called by a reader. *)
LEMMA CloseHandlersLink ==
  ASSUME SInv, NEW t \in Threads, CloseHandlers(t), ReaderFollows(t), UNCHANGED cpc,
         \/ cpc[R!Closer] = "idle"     /\ pc'[t] = "closeOut"
         \/ cpc[R!Closer] = "panicked" /\ pc'[t] # "closeOut"
  PROVE  LinkInv' /\ [R!Next]_(R!vars)
  <1>1. /\ pc[t] = "handlers"
        /\ UNCHANGED <<shutdown, outClosed, msg, Subscriptions>>
        /\ \/ Jump(t, "closeOut") /\ writer' = writer
           \/ Panic(t) /\ writer' = NoThread
    BY DEF CloseHandlers
  <1>2. writer = t /\ t # NoThread /\ \A u \in Threads : u # t => pc[u] # "closeOut"
    BY <1>1 DEF SInv, IndInv, LockInv
  <1>3. conn' = conn
    BY <1>1 DEF conn
  <1>4. CASE Jump(t, "closeOut") /\ writer' = writer
    <2>1. pc' = [pc EXCEPT ![t] = "closeOut"] /\ pc'[t] = "closeOut"
      BY <1>4 DEF SInv, IndInv, TypeOK, PcType, Jump
    <2>2. Moves(t)
      BY <1>1, <1>4, <2>1 DEF Moves, Jump, Labels, ReaderLabels
    <2>3. LinkType' /\ CrashLink' /\ StartLink' /\ StopLink' /\ ReaderLink'
      BY <2>2, MovesLink
    <2>4. CloseLink'
      BY <1>2, <1>4, <2>1 DEF CloseLink
    <2>5. UNCHANGED R!vars
      BY <1>3, <2>1, <2>2, Follows DEF R!vars
    <2> QED
      BY <2>3, <2>4, <2>5 DEF LinkInv
  <1>5. CASE Panic(t) /\ writer' = NoThread
    <2>1. \/ Crash
          \/ \E label \in {"lock", "recover", "idle", "select", "pushEOF", "done"} :
               pc' = [pc EXCEPT ![t] = label]
      BY <1>5, UnwindMoves
    <2>2. pc'[t] \notin {"handlers", "closeOut"} /\ \A u \in Threads : pc'[u] # "closeOut"
      BY <1>2, <2>1 DEF SInv, IndInv, TypeOK, PcType, Crash
    <2>3. t \in Apps => pc'[t] = Dead
      BY <1>5, UnwindMoves DEF Crash
    <2>4. Moves(t)
      BY <1>1, <1>5, <2>1, <2>3, UnwindMoves
         DEF Moves, Labels, ReaderLabels, ProcLabels, AppLabels
    <2>5. LinkType' /\ CrashLink' /\ StartLink' /\ StopLink' /\ ReaderLink'
      BY <2>4, MovesLink
    <2>6. CloseLink'
      BY <2>2 DEF CloseLink
    <2>7. CASE t \in Apps
      <3>1. R!GaveUp(t)
        BY <1>1, <1>3, <2>2, <2>3, <2>4, <2>7, Follows
           DEF SInv, LinkInv, ReaderLink, R!GaveUp, R!ReaderCrash
      <3> QED
        BY <2>4, <2>5, <2>6, <2>7, <3>1, Follows DEF LinkInv, R!Next, R!ReadPump
    <2>8. CASE t \notin Apps
      BY <1>3, <2>4, <2>5, <2>6, <2>8, Follows DEF LinkInv, R!vars
    <2> QED
      BY <2>7, <2>8
  <1> QED
    BY <1>1, <1>4, <1>5

(* close() of a connection that is closed: the reader that called it goes on. *)
LEMMA CloseAlreadyClosedLink ==
  ASSUME SInv, NEW t \in Threads, CloseAlreadyClosed(t), ReaderFollows(t), UNCHANGED cpc
  PROVE  LinkInv' /\ [R!Next]_(R!vars)
  <1>1. /\ pc[t] = "lock" /\ CloseReturns(t, TRUE)
        /\ UNCHANGED <<shutdown, writer, outClosed, msg, Subscriptions>>
    BY DEF CloseAlreadyClosed
  <1>2. writer = NoThread /\ shutdown /\ \A u \in Threads : pc[u] # "closeOut"
    BY DEF SInv, IndInv, LockInv, TeardownInv, CloseAlreadyClosed, CanLock
  <1>3. conn' = conn
    BY <1>1 DEF conn
  <1>4. conn = "closed" \/ cpc[R!Closer] = "panicked"
    BY <1>2 DEF SInv, LinkInv, CloseLink, conn
  <1>5. \/ Crash
        \/ \E label \in {"lock", "recover", "idle", "select", "pushEOF", "done"} :
             pc' = [pc EXCEPT ![t] = label]
    BY <1>1, UnwindMoves
  <1>6. t \in Apps => pc'[t] = "idle"
    <2>1. t \in Apps => pc' = [pc EXCEPT ![t] = "idle"]
      BY <1>1 DEF SInv, IndInv, ControlInv, CloseReturns
    <2> QED
      BY <2>1 DEF SInv, IndInv, TypeOK, PcType
  <1>7. \A u \in Threads : pc'[u] # "closeOut"
    BY <1>2, <1>5 DEF SInv, IndInv, TypeOK, PcType, Crash
  <1>8. Moves(t)
    BY <1>1, <1>5, <1>6, UnwindMoves DEF Moves, Labels, ReaderLabels, ProcLabels, AppLabels
  <1>9. LinkType' /\ CrashLink' /\ StartLink' /\ StopLink' /\ ReaderLink'
    BY <1>8, MovesLink
  <1>10. CloseLink'
    BY <1>1, <1>7 DEF SInv, LinkInv, CloseLink
  <1>11. CASE t \in Apps
    <2>1. rpc[t] = "giveUp"
      BY <1>1, <1>11 DEF SInv, LinkInv, ReaderLink
    <2>2. R!GiveUp(t)
      BY <1>3, <1>4, <1>6, <1>8, <1>11, <2>1, Follows DEF R!GiveUp, R!GoTo
    <2> QED
      BY <1>8, <1>9, <1>10, <1>11, <2>2, Follows DEF LinkInv, R!Next, R!ReadPump
  <1>12. CASE t \notin Apps
    BY <1>3, <1>8, <1>9, <1>10, <1>12, Follows DEF LinkInv, R!vars
  <1> QED
    BY <1>11, <1>12

(* The outgoing channel is closed after the handlers, which is what Redis calls a
   closed connection. *)
LEMMA CloseOutgoingLink ==
  ASSUME SInv, NEW t \in Threads, CloseOutgoing(t) \/ CloseIncoming(t),
         ReaderFollows(t), UNCHANGED cpc
  PROVE  LinkInv' /\ [R!Next]_(R!vars)
  <1>1. /\ pc[t] \in {"closeOut", "closeIn"} /\ pc[t] \in Holding
        /\ UNCHANGED <<shutdown, writer, msg, site, Subscriptions>>
        /\ \E label \in {"closeIn", "closeWs"} : pc' = [pc EXCEPT ![t] = label]
    BY DEF CloseOutgoing, CloseIncoming, Jump
  <1>2. pc'[t] \in {"closeIn", "closeWs"} /\ \A u \in Threads : pc'[u] = "closeOut" => pc[u] = "closeOut"
    BY <1>1 DEF SInv, IndInv, TypeOK, PcType
  <1>3. Moves(t)
    BY <1>1, <1>2 DEF Moves, Labels, ReaderLabels
  <1>4. LinkType' /\ CrashLink' /\ StartLink' /\ StopLink' /\ ReaderLink'
    BY <1>3, MovesLink
  <1>5. outClosed => outClosed'
    BY DEF SInv, IndInv, TypeOK, ChannelType, CloseOutgoing, CloseIncoming
  <1>6. CloseLink'
    BY <1>1, <1>2, <1>5 DEF SInv, LinkInv, CloseLink
  <1>7. UNCHANGED <<sid, table, rpc, rstate, pubSub, open, errors, target, todo, rcrashed>> /\ ~rcrashed
    BY <1>2, <1>3, Follows
  <1>8. CASE CloseOutgoing(t)
    <2>1. conn = "closing" /\ conn' = "closed" /\ cpc[R!Closer] = "idle"
      BY <1>8 DEF SInv, LinkInv, CloseLink, IndInv, TeardownInv, CloseOutgoing, conn
    <2>2. R!ConnClosed
      BY <1>7, <2>1 DEF R!ConnClosed
    <2> QED
      BY <1>4, <1>6, <1>7, <2>2 DEF LinkInv, R!Next, R!Handler
  <1>9. CASE CloseIncoming(t)
    <2>1. conn' = conn
      BY <1>9 DEF CloseIncoming, conn
    <2> QED
      BY <1>4, <1>6, <1>7, <2>1 DEF LinkInv, R!vars
  <1> QED
    BY <1>8, <1>9

(* close() returns; Redis sees it only if it was called by a reader. *)
LEMMA CloseWebsocketLink ==
  ASSUME SInv, NEW t \in Threads, CloseWebsocket(t), ReaderFollows(t), UNCHANGED cpc
  PROVE  LinkInv' /\ [R!Next]_(R!vars)
  <1>0. PICK failed \in BOOLEAN : CloseReturns(t, failed)
    BY DEF CloseWebsocket
  <1>1. /\ pc[t] = "closeWs" /\ CloseReturns(t, failed)
        /\ UNCHANGED <<shutdown, outClosed, msg, Subscriptions>>
    BY <1>0 DEF CloseWebsocket
  <1>2. outClosed /\ \A u \in Threads : pc[u] # "closeOut"
    BY <1>1 DEF SInv, IndInv, LockInv, TeardownInv
  <1>3. conn' = conn /\ conn = "closed"
    BY <1>1, <1>2 DEF conn
  <1>4. \/ Crash
        \/ \E label \in {"lock", "recover", "idle", "select", "pushEOF", "done"} :
             pc' = [pc EXCEPT ![t] = label]
    BY <1>1, UnwindMoves
  <1>5. t \in Apps => pc'[t] = "idle"
    <2>1. t \in Apps => pc' = [pc EXCEPT ![t] = "idle"]
      BY <1>1 DEF SInv, IndInv, ControlInv, CloseReturns
    <2> QED
      BY <2>1 DEF SInv, IndInv, TypeOK, PcType
  <1>6. \A u \in Threads : pc'[u] # "closeOut"
    BY <1>2, <1>4 DEF SInv, IndInv, TypeOK, PcType, Crash
  <1>7. Moves(t)
    BY <1>1, <1>4, <1>5, UnwindMoves DEF Moves, Labels, ReaderLabels, ProcLabels, AppLabels
  <1>8. LinkType' /\ CrashLink' /\ StartLink' /\ StopLink' /\ ReaderLink'
    BY <1>7, MovesLink
  <1>9. CloseLink'
    BY <1>1, <1>2, <1>6 DEF CloseLink
  <1>10. CASE t \in Apps
    <2>1. rpc[t] = "closing"
      BY <1>1, <1>10 DEF SInv, LinkInv, ReaderLink
    <2>2. R!GaveUp(t)
      BY <1>3, <1>5, <1>7, <1>10, <2>1, Follows DEF R!GaveUp, R!GoTo
    <2> QED
      BY <1>7, <1>8, <1>9, <1>10, <2>2, Follows DEF LinkInv, R!Next, R!ReadPump
  <1>11. CASE t \notin Apps
    BY <1>3, <1>7, <1>8, <1>9, <1>11, Follows DEF LinkInv, R!vars
  <1> QED
    BY <1>10, <1>11

(* A send on a closed channel: in a reader, the panic of Deliver. *)
LEMMA FailedSendLink ==
  ASSUME SInv, NEW t \in Threads, FailedSend(t)
  PROVE  LinkInv' /\ [R!Next]_(R!vars)
  <1>1. /\ Panic(t) /\ ReaderFollows(t) /\ UNCHANGED cpc
        /\ UNCHANGED <<shutdown, writer, outClosed, Subscriptions>>
    BY DEF FailedSend, SendOnClosed
  <1>2. pc[t] \in IncomingSends \cup OutgoingSends /\ msg'[Proc] = msg[Proc]
    BY DEF FailedSend, SendOnClosed, SInv, IndInv, TypeOK, ControlType
  <1>3. conn' = conn
    BY <1>1 DEF conn
  <1>4. \/ Crash
        \/ \E label \in {"lock", "recover", "idle", "select", "pushEOF", "done"} :
             pc' = [pc EXCEPT ![t] = label]
    BY <1>1, UnwindMoves
  <1>5. t \in Apps => pc'[t] = Dead
    BY <1>1, UnwindMoves DEF Crash
  <1>6. \A u \in Threads : pc'[u] = "closeOut" => pc[u] = "closeOut"
    BY <1>4 DEF SInv, IndInv, TypeOK, PcType, Crash
  <1>7. Moves(t)
    BY <1>1, <1>2, <1>4, <1>5, UnwindMoves
       DEF Moves, IncomingSends, OutgoingSends, Labels, ReaderLabels, ProcLabels, AppLabels
  <1>8. LinkType' /\ CrashLink' /\ StartLink' /\ StopLink' /\ ReaderLink'
    BY <1>1, <1>7, MovesLink
  <1>9. CloseLink'
    BY <1>1, <1>6 DEF SInv, LinkInv, CloseLink
  <1>10. CASE t \in Apps
    <2>1. pc[t] = "send" /\ outClosed
      BY <1>10 DEF SInv, IndInv, TypeOK, PcType, AppLabels, LinkInv, ReaderLink, FailedSend,
         SendOnClosed, IncomingSends, OutgoingSends
    <2>2. rpc[t] = "deliver" /\ conn = "closed"
      BY <1>10, <2>1 DEF SInv, LinkInv, ReaderLink, conn
    <2>3. R!Deliver(t)
      BY <1>1, <1>3, <1>5, <1>7, <1>10, <2>2, Follows DEF R!Deliver, R!ReaderCrash
    <2> QED
      BY <1>1, <1>7, <1>8, <1>9, <1>10, <2>3, Follows DEF LinkInv, R!Next, R!ReadPump
  <1>11. CASE t \notin Apps
    BY <1>1, <1>3, <1>7, <1>8, <1>9, <1>11, Follows DEF LinkInv, R!vars
  <1> QED
    BY <1>10, <1>11

(* A reader inside SendData, or in Close before close(). *)
LEMMA CallConnLink ==
  ASSUME SInv, NEW a \in Apps, CallConn(a)
  PROVE  LinkInv' /\ [R!Next]_(R!vars)
  <1>1. /\ ReaderFollows(a) /\ UNCHANGED cpc
        /\ UNCHANGED <<shutdown, writer, outClosed, msg, Subscriptions>>
        /\ \/ pc[a] = "send" /\ pc' = [pc EXCEPT ![a] = "idle"] /\ ~outClosed
           \/ /\ pc[a] \in {"Close", "writeControl"}
              /\ \E label \in {"idle", "writeControl", "lock"} : pc' = [pc EXCEPT ![a] = label]
        /\ site' = site \/ site' = [site EXCEPT ![a] = "Close"]
    BY DEF CallConn, SendData, SendOutgoing, AppCloseCheck, AppWriteControl, Jump, CallClose
  <1>2. /\ pc'[a] \in {"idle", "writeControl", "lock"}
        /\ \A u \in Threads : pc'[u] = "closeOut" => pc[u] = "closeOut"
        /\ site'[Proc] = site[Proc]
    BY <1>1 DEF SInv, IndInv, TypeOK, PcType, ControlType
  <1>3. Moves(a)
    <2>1. \E label \in Labels \ {Dead, "subStart"} : pc' = [pc EXCEPT ![a] = label]
      BY <1>1 DEF Labels, AppLabels
    <2>2. \/ pc'[a] = "idle"
          \/ pc[a] \in {"Close", "writeControl"} /\ pc'[a] \in {"writeControl", "lock"}
      BY <1>1, <1>2 DEF SInv, IndInv, TypeOK, PcType
    <2> QED
      BY <1>1, <1>2, <2>1, <2>2 DEF Moves
  <1>4. conn' = conn
    BY <1>1 DEF conn
  <1>5. LinkType' /\ CrashLink' /\ StartLink' /\ StopLink' /\ ReaderLink'
    BY <1>1, <1>3, MovesLink
  <1>6. CloseLink'
    BY <1>1, <1>2 DEF SInv, LinkInv, CloseLink
  <1>7. CASE pc[a] = "send"
    <2>1. pc'[a] = "idle" /\ rpc[a] = "deliver" /\ conn # "closed"
      BY <1>1, <1>7 DEF SInv, LinkInv, ReaderLink, IndInv, TypeOK, PcType, conn
    <2>2. R!Deliver(a)
      BY <1>1, <1>3, <1>4, <2>1, Follows DEF R!Deliver, R!GoTo
    <2> QED
      BY <1>1, <1>3, <1>5, <1>6, <2>2, Follows DEF LinkInv, R!Next, R!ReadPump
  <1>8. CASE pc[a] # "send" /\ pc'[a] = "idle"
    <2>1. rpc[a] = "giveUp"
      BY <1>1, <1>8 DEF SInv, LinkInv, ReaderLink
    <2>2. R!GiveUp(a)
      BY <1>1, <1>3, <1>4, <1>8, <2>1, Follows DEF R!GiveUp, R!GoTo
    <2> QED
      BY <1>1, <1>3, <1>5, <1>6, <2>2, Follows DEF LinkInv, R!Next, R!ReadPump
  <1>9. CASE pc'[a] # "idle"
    BY <1>1, <1>2, <1>3, <1>4, <1>5, <1>6, <1>9, Follows DEF LinkInv, R!vars
  <1> QED
    BY <1>7, <1>8, <1>9

(* A reader's own step. *)
LEMMA RunReaderLink ==
  ASSUME SInv, NEW r \in Apps, RunReader(r)
  PROVE  LinkInv' /\ [R!Next]_(R!vars)
  <1> DEFINE Step == \/ R!SetRunning(r) \/ R!CheckState(r) \/ R!Dial(r) \/ R!Subscribe(r)
                     \/ R!Publish(r) \/ R!LoadPubSub(r) \/ R!Receive(r) \/ R!LeaveLoop(r)
  <1>1. /\ pc[r] = "idle" /\ UNCHANGED <<mutex, chans, ws, msg, gql>> /\ Step
        /\ IF rcrashed' THEN Crash
           ELSE Jump(r, CASE rpc'[r] = "deliver" -> "send"
                          [] rpc'[r] = "giveUp"  -> "Close"
                          [] OTHER               -> "idle")
    BY DEF RunReader
  <1>2. ~rcrashed /\ rcrashed \in BOOLEAN
    BY <1>1, Alive DEF SInv, LinkInv, LinkType
  <1>3. R!Next
    BY <1>1, <1>2 DEF R!Next, R!ReadPump
  <1>4. UNCHANGED <<sid, table, cpc>> /\ rcrashed' \in {rcrashed, TRUE}
    BY <1>1 DEF R!SetRunning, R!CheckState, R!Dial, R!Subscribe, R!Publish, R!LoadPubSub,
       R!Receive, R!LeaveLoop, R!ReaderCrash
  <1>5. rcrashed' \in BOOLEAN
    BY <1>2, <1>4
  <1>6. \/ rpc' = rpc /\ rcrashed'
        \/ \E label \in R!ReaderLabels \ {"closing"} : rpc' = [rpc EXCEPT ![r] = label]
    <2> HIDE DEF Step
    <2>1. Step => \/ rpc' = rpc /\ rcrashed'
                  \/ \E label \in R!ReaderLabels \ {"closing"} : rpc' = [rpc EXCEPT ![r] = label]
      BY DEF Step, R!SetRunning, R!CheckState, R!Dial, R!Subscribe, R!Publish, R!LoadPubSub,
         R!Receive, R!LeaveLoop, R!ReaderCrash, R!GoTo, R!ReaderLabels
    <2> QED
      BY <1>1, <2>1
  <1>7. rpc \in [Apps -> R!ReaderLabels] /\ rpc' \in [Apps -> R!ReaderLabels]
    BY <1>6 DEF SInv, LinkInv, LinkType
  <1>8. LinkType'
    BY <1>4, <1>5, <1>7 DEF SInv, LinkInv, LinkType
  <1> HIDE DEF Step
  <1>9. CASE rcrashed'
    <2>1. Crash /\ \A t \in Threads : pc'[t] = Dead
      BY <1>1, <1>9 DEF Crash
    <2>2. CrashLink' /\ ReaderLink' /\ StartLink'
      BY <2>1 DEF CrashLink, ReaderLink, StartLink
    <2>3. StopLink'
      BY <1>4, <2>1 DEF SInv, LinkInv, StopLink, Crash
    <2>4. CloseLink'
      BY <1>1, <1>4, <2>1 DEF SInv, LinkInv, CloseLink
    <2> QED
      BY <1>3, <1>8, <2>2, <2>3, <2>4 DEF LinkInv
  <1>10. CASE ~rcrashed'
    <2>1. PICK l \in {"idle", "Close", "send"} :
            /\ pc' = [pc EXCEPT ![r] = l] /\ site' = site
            /\ l = "send" => rpc'[r] = "deliver"
            /\ l = "Close" => rpc'[r] = "giveUp"
            /\ l = "idle" => rpc'[r] \notin {"deliver", "giveUp"}
      BY <1>1, <1>10 DEF Jump
    <2>2. pc'[r] = l /\ \A t \in Threads \ {r} : pc'[t] = pc[t]
      BY <2>1 DEF SInv, IndInv, TypeOK, PcType
    <2>3. rpc'[r] # "closing" /\ \A a \in Apps \ {r} : rpc'[a] = rpc[a]
      BY <1>6, <1>7, <1>10
    <2>4. CrashLink'
      BY <1>10 DEF CrashLink
    <2>5. StartLink' /\ StopLink'
      BY <1>1, <1>4, <2>1, <2>2
         DEF SInv, LinkInv, StartLink, StopLink, Processing, FindsReader
    <2>6. ReaderLink'
      BY <2>1, <2>2, <2>3 DEF SInv, LinkInv, ReaderLink
    <2>7. CloseLink'
      BY <1>1, <1>4, <2>1, <2>2 DEF SInv, LinkInv, CloseLink
    <2> QED
      BY <1>3, <1>8, <2>4, <2>5, <2>6, <2>7 DEF LinkInv
  <1> QED
    BY <1>9, <1>10

(***************************************************************************)
(* The theorems.                                                           *)
(***************************************************************************)
(* Every step of System keeps the invariant and is a step of Redis or none. *)
LEMMA SNextRefines ==
  ASSUME SInv, [SNext]_svars
  PROVE  SInv' /\ [R!Next]_(R!vars)
  <1> SUFFICES LinkInv' /\ [R!Next]_(R!vars)
    BY SNextIndInv DEF SInv
  <1>1. CASE NoRedis \/ ServeStart \/ CallStart
    BY <1>1, NoRedisLink, ServeStartLink, CallStartLink
  <1>2. CASE StopWithoutReader \/ CallStop \/ RunStop \/ RunClose
    BY <1>2, StopWithoutReaderLink, CallStopLink, RunStopLink, RunCloseLink
  <1>3. ASSUME NEW t \in Threads, CloseConn(t) PROVE LinkInv' /\ [R!Next]_(R!vars)
    BY <1>3, CloseBeginLink, CloseHandlersLink, CloseAlreadyClosedLink, CloseOutgoingLink,
       CloseWebsocketLink DEF CloseConn
  <1>4. ASSUME NEW t \in Threads, FailedSend(t) PROVE LinkInv' /\ [R!Next]_(R!vars)
    BY <1>4, FailedSendLink
  <1>5. ASSUME NEW r \in Apps, RunReader(r) \/ CallConn(r)
        PROVE  LinkInv' /\ [R!Next]_(R!vars)
    BY <1>5, RunReaderLink, CallConnLink
  <1>6. CASE UNCHANGED svars
    BY <1>6 DEF svars, vars, rvars, R!vars, conn, SInv, LinkInv, LinkType, CrashLink,
       StartLink, StopLink, ReaderLink, CloseLink, Processing, FindsReader
  <1> QED
    BY <1>1, <1>2, <1>3, <1>4, <1>5, <1>6 DEF SNext

(* A connection with the redis handler is the connection that Redis assumes: the
   starts and stops come one at a time, the close handlers are called once, the
   channel is closed only after they have returned, and a reader that gives up
   runs them itself (connection.go: gqlStart, gqlStop, close). *)
THEOREM SystemImplementsRedis == SSpec => ImplementsRedis
  <1>1. SInit => SInv /\ R!Init
    BY SInitSInv
  <1>2. SInv /\ [SNext]_svars => SInv' /\ [R!Next]_(R!vars)
    BY SNextRefines
  <1> QED
    BY <1>1, <1>2, PTL DEF SSpec, ImplementsRedis, R!Spec

(* The handlers of redis and its readers keep the invariant of the connection,
   although their steps are not those of Conn's own handlers: with it, close()
   and the error senders are as safe as in Conn alone. *)
THEOREM SystemKeepsIndInv == SSpec => [](IndInv /\ SafeSend /\ CloseOnce)
  <1>1. SInit => SInv
    BY SInitSInv
  <1>2. SInv /\ [SNext]_svars => SInv'
    BY SNextRefines
  <1>3. SInv => IndInv /\ SafeSend /\ CloseOnce
    BY DEF SInv, IndInv, CloseOnce, TeardownInv
  <1> QED
    BY <1>1, <1>2, <1>3, PTL DEF SSpec

(* The proofs about Redis, with the connection of System. *)
RP == INSTANCE RedisProofs WITH Readers <- Apps, starting <- sid, crashed <- rcrashed

(* In the composed system too, no redis connection is leaked by a retry, no
   wake-up of a closed reader is lost, and a caller of reader.close() has a reader
   in hand (redis/reader.go, redis/handler.go). *)
THEOREM SystemReadersSafe == SSpec => [](R!TypeOK /\ R!OneConnection /\ R!ClosedReaderIsWoken)
  <1> USE DEF RP!env, RP!reader, RP!caller, RP!None, RP!Proc, RP!Closer, RP!Callers
  <1>1. RP!RedisAssumption
    BY DEF RP!RedisAssumption
  <1>2. RP!Init => RP!Inv
    BY <1>1, RP!InitInv
  <1>3. RP!Inv /\ [RP!Next]_(RP!vars) => RP!Inv'
    BY <1>1, RP!NextInv
  <1>4. RP!Inv => RP!TypeOK /\ RP!OneConnection /\ RP!ClosedReaderIsWoken
    BY <1>1, RP!InvProperties
  <1>5. R!Init => RP!Init
    BY DEF R!Init, RP!Init
  <1>6. R!Next => RP!Next
    BY DEF R!Next, RP!Next, R!Handler, RP!Handler, R!StartMessage, RP!StartMessage,
       R!HandleSubscriptionStop, RP!HandleSubscriptionStop, R!HandleSubscriptionStart,
       RP!HandleSubscriptionStart, R!StartFails, RP!StartFails, R!ConnCloses,
       RP!ConnCloses, R!BeginClose, RP!BeginClose, R!HandleWebsocketClose,
       RP!HandleWebsocketClose, R!RangeNext, RP!RangeNext, R!RangeDone, RP!RangeDone,
       R!ConnClosed, RP!ConnClosed, R!CloserCrashes, RP!CloserCrashes, R!CloseReader,
       RP!CloseReader, R!CloseCheck, RP!CloseCheck, R!CloseSetState, RP!CloseSetState,
       R!CloseLoad, RP!CloseLoad, R!ClosePubSub, RP!ClosePubSub, R!CloseNil,
       RP!CloseNil, R!CallerReturns, RP!CallerReturns, R!CallerAt, RP!CallerAt, R!GoTo,
       RP!GoTo, R!ReaderCrash, RP!ReaderCrash, R!SetRunning, RP!SetRunning,
       R!CheckState, RP!CheckState, R!Dial, RP!Dial, R!Subscribe, RP!Subscribe,
       R!Publish, RP!Publish, R!LoadPubSub, RP!LoadPubSub, R!Receive, RP!Receive,
       R!Deliver, RP!Deliver, R!GiveUp, RP!GiveUp, R!GaveUp, RP!GaveUp, R!LeaveLoop,
       RP!LeaveLoop, R!ReadPump, RP!ReadPump
  <1>7. UNCHANGED R!vars => UNCHANGED RP!vars
    BY DEF R!vars, RP!vars
  <1>8. /\ RP!TypeOK => R!TypeOK
        /\ RP!OneConnection => R!OneConnection
        /\ RP!ClosedReaderIsWoken => R!ClosedReaderIsWoken
    BY DEF RP!TypeOK, R!TypeOK, RP!ReaderLabels, R!ReaderLabels, RP!CallerLabels,
       R!CallerLabels, RP!OneConnection, R!OneConnection, RP!ClosedReaderIsWoken,
       R!ClosedReaderIsWoken
  <1> QED
    BY <1>2, <1>3, <1>4, <1>5, <1>6, <1>7, <1>8, SystemImplementsRedis, PTL
       DEF R!Spec, ImplementsRedis
=============================================================================

----------------------------- MODULE ConnProofs -----------------------------
(***************************************************************************)
(* Proofs of the safety properties of Conn, for every set of application   *)
(* goroutines, every channel capacity, and every behaviour of the peer and *)
(* of the handlers.  IndInv (module ConnInv) is inductive: the lemmas      *)
(* below take one group of actions each.                                   *)
(***************************************************************************)
EXTENDS ConnInv, SequenceTheorems, TLAPS

USE ConnAssumption
USE DEF Threads, Pumps, Reader, Proc, NoThread, Dead, Holding, RHolding, CloseLabels,
        mutex, chans, ws, ctl, gql

(* The labels at which processMessages has taken a message and has not yet
   answered it. *)
Working == {"process", "connErr", "setState", "eof", "gqlStart", "subStart", "opErr"}

(* A step that moves one goroutine from one label to another, both outside the
   critical sections that span several steps, and leaves the lock, the teardown
   and the handshake as they are. *)
Quiet(t, label) ==
  /\ t \in Threads
  /\ t = Reader => label \in ReaderLabels \ {"init"}
  /\ t = Proc => label \in ProcLabels
  /\ t \in Apps => label \in AppLabels
  /\ pc' = [pc EXCEPT ![t] = label]
  /\ pc[t] \notin Holding \cup RHolding \cup {Dead}
  /\ label \notin Holding \cup RHolding \cup {"recover", "recoverEOF", "done"}
  /\ label \in {"setState", "gqlStart"} => accepted
  /\ UNCHANGED <<mutex, shutdown, inClosed, outClosed, wsOpen, gql>>

(* What a quiet step preserves, whoever takes it. *)
LEMMA QuietStep ==
  ASSUME IndInv, NEW t, NEW label, Quiet(t, label)
  PROVE  PcType' /\ LockInv' /\ TeardownInv' /\ HandshakeInv' /\ SafeSend' /\ PumpExitShutsDown'
  <1>1. PcType'
    BY DEF IndInv, TypeOK, PcType, Quiet, Labels
  <1>2. LockInv'
    <2>1. t \in Threads /\ pc \in [Threads -> Labels] /\ pc' = [pc EXCEPT ![t] = label]
      BY DEF IndInv, TypeOK, PcType, Quiet
    <2>2. \A u \in Threads : pc'[u] = IF u = t THEN label ELSE pc[u]
      BY <2>1
    <2> QED
      BY <2>1, <2>2 DEF IndInv, TypeOK, DataType, Quiet, LockInv
  <1>3. TeardownInv'
    BY DEF IndInv, TypeOK, PcType, Quiet, TeardownInv
  <1>4. HandshakeInv' /\ SafeSend' /\ PumpExitShutsDown'
    BY DEF IndInv, TypeOK, PcType, Quiet, HandshakeInv, SafeSend, PumpExitShutsDown
  <1> QED
    BY <1>1, <1>2, <1>3, <1>4

(* readPump and the application cannot disturb processMessages on a connection
   that was reopened or not yet started: they add to open channels only. *)
LEMMA QuietOutside ==
  ASSUME IndInv, NEW t, NEW label, Quiet(t, label), t # Proc,
         incoming' = incoming \/ (t = Reader /\ ~inClosed)
  PROVE  StartInv' /\ ReopenInv'
  BY DEF IndInv, TypeOK, PcType, Quiet, StartInv, ReopenInv, Reopened, LockInv, TeardownInv

(* Nor is the connection reopened or not started where processMessages is at
   work on a message. *)
LEMMA QuietWorking ==
  ASSUME IndInv, NEW label, Quiet(Proc, label), pc[Proc] \in Working
  PROVE  StartInv' /\ ReopenInv'
  BY DEF IndInv, TypeOK, PcType, Quiet, StartInv, ReopenInv, Reopened, Working

(* A panic where a pump is not yet in its deferred close() leads it there. *)
LEMMA PumpPanic ==
  ASSUME IndInv, NEW t \in Pumps, Panic(t),
         pc[t] \notin CloseLabels \cup {"recover", "recoverEOF", "done", Dead}
  PROVE  /\ pc' = [pc EXCEPT ![t] = "lock"]
         /\ site' = [site EXCEPT ![t] = "defer"] /\ site' \in [Threads -> Sites]
         /\ panicking' = panicking \cup {t} /\ panicking' \subseteq Pumps
  <1>1. site[t] # "defer" /\ t \notin Apps
    BY DEF IndInv, ControlInv
  <1>2. /\ pc' = [pc EXCEPT ![t] = "lock"]
        /\ site' = [site EXCEPT ![t] = "defer"]
        /\ panicking' = panicking \cup {t}
    BY <1>1 DEF Panic, CallClose
  <1> QED
    BY <1>2 DEF IndInv, TypeOK, ControlType, Sites

(* A call of close() is made at one of the known sites. *)
LEMMA CallCloseType ==
  ASSUME IndInv, NEW t \in Threads, NEW s \in Sites, CallClose(t, s)
  PROVE  site' \in [Threads -> Sites]
  BY DEF IndInv, TypeOK, ControlType, CallClose

(* The initial states satisfy the invariant. *)
LEMMA InitIndInv == Init => IndInv
  <1> SUFFICES ASSUME Init PROVE IndInv
    OBVIOUS
  <1>1. DataType
    BY DEF Init, DataType, States
  <1>2. ChannelType
    <2>1. incoming \in Seq(Traffic \cup {EOF}) /\ Len(incoming) <= Cap
      BY DEF Init
    <2>2. outgoing \in Seq(ServerFrames) /\ Len(outgoing) <= Cap
      BY DEF Init
    <2> QED
      BY <2>1, <2>2 DEF Init, ChannelType
  <1>3. PcType
    BY DEF Init, PcType, Labels, ReaderLabels, ProcLabels, AppLabels
  <1>4. ControlType
    BY DEF Init, ControlType, Sites
  <1>5. ControlInv /\ LockInv
    BY DEF Init, ControlInv, LockInv
  <1>6. \A t \in Threads : pc[t] \in {"init", "select", "idle"}
    BY DEF Init
  <1>7. TeardownInv
    <2>1. pc[Proc] = "select"
      BY DEF Init
    <2>2. \A t \in Threads : pc[t] \notin {"handlers", "closeOut", "closeIn", "closeWs"}
      BY <1>6
    <2>3. ~shutdown /\ ~outClosed /\ ~inClosed /\ wsOpen /\ notified = 0 /\ state # "closed"
      BY DEF Init
    <2> QED
      BY <2>1, <2>2, <2>3 DEF TeardownInv
  <1>8. PumpExitShutsDown
    BY <1>6 DEF PumpExitShutsDown
  <1>9. StartInv /\ ReopenInv /\ HandshakeInv /\ SafeSend
    BY DEF Init, StartInv, ReopenInv, Reopened, HandshakeInv, SafeSend
  <1> QED
    BY <1>1, <1>2, <1>3, <1>4, <1>5, <1>7, <1>8, <1>9 DEF IndInv, TypeOK

(* The steps of readPump other than setState. *)
LEMMA ReadPumpStep ==
  ASSUME IndInv, ReadPump, ~ReadPumpStart
  PROVE  IndInv'
  <1>1. CASE ReadPumpLoop
    <2>1. PICK label : Quiet(Reader, label)
      BY <1>1 DEF IndInv, TypeOK, PcType, Quiet, ReadPumpLoop, Jump, LeavePump,
         CallClose, CanRLock, ReaderLabels
    <2>2. DataType' /\ ChannelType'
      BY <1>1 DEF IndInv, TypeOK, DataType, ChannelType, PcType, ReadPumpLoop, Jump,
         LeavePump, CallClose, CanRLock, ServerFrames
    <2>3. ControlType'
      BY <1>1, CallCloseType DEF IndInv, TypeOK, PcType, ControlType, Sites,
         ReadPumpLoop, Jump, LeavePump, CanRLock
    <2>4. ControlInv'
      BY <1>1 DEF IndInv, TypeOK, PcType, ControlType, ControlInv, ReadPumpLoop,
         Jump, LeavePump, CallClose, CanRLock
    <2>5. StartInv' /\ ReopenInv'
      BY <1>1, <2>1, QuietOutside DEF ReadPumpLoop, Jump, LeavePump, CallClose,
         CanRLock
    <2> QED
      BY <2>1, <2>2, <2>3, <2>4, <2>5, QuietStep DEF IndInv, TypeOK
  <1>2. CASE ReadMessage
    <2>1. Quiet(Reader, "push")
      BY <1>2 DEF IndInv, TypeOK, PcType, Quiet, ReadMessage, Jump, ReaderLabels
    <2>2. DataType' /\ ChannelType'
      BY <1>2 DEF IndInv, TypeOK, DataType, ChannelType, PcType, ReadMessage, Jump,
         ServerFrames
    <2>3. ControlType'
      BY <1>2 DEF IndInv, TypeOK, PcType, ControlType, Sites, ReadMessage, Jump
    <2>4. ControlInv'
      BY <1>2 DEF IndInv, TypeOK, PcType, ControlType, ControlInv, ReadMessage, Jump
    <2>5. StartInv' /\ ReopenInv'
      BY <1>2, <2>1, QuietOutside DEF ReadMessage, Jump
    <2> QED
      BY <2>1, <2>2, <2>3, <2>4, <2>5, QuietStep DEF IndInv, TypeOK
  <1>3. CASE ReadCloseFrame
    <2>1. Quiet(Reader, "lock")
      BY <1>3 DEF IndInv, TypeOK, PcType, Quiet, ReadCloseFrame, CallClose,
         ReaderLabels
    <2>2. DataType' /\ ChannelType'
      BY <1>3 DEF IndInv, TypeOK, DataType, ChannelType, PcType, ReadCloseFrame,
         CallClose, ServerFrames
    <2>3. ControlType'
      BY <1>3, CallCloseType DEF IndInv, TypeOK, PcType, ControlType, Sites,
         ReadCloseFrame
    <2>4. ControlInv'
      BY <1>3 DEF IndInv, TypeOK, PcType, ControlType, ControlInv, ReadCloseFrame,
         CallClose
    <2>5. StartInv' /\ ReopenInv'
      BY <1>3, <2>1, QuietOutside DEF ReadCloseFrame, CallClose
    <2> QED
      BY <2>1, <2>2, <2>3, <2>4, <2>5, QuietStep DEF IndInv, TypeOK
  <1>4. CASE ReadGone
    <2>1. Quiet(Reader, "lock")
      BY <1>4 DEF IndInv, TypeOK, PcType, Quiet, ReadGone, LeavePump, CallClose,
         ReaderLabels
    <2>2. DataType' /\ ChannelType'
      BY <1>4 DEF IndInv, TypeOK, DataType, ChannelType, PcType, ReadGone, LeavePump,
         CallClose, ServerFrames
    <2>3. ControlType'
      BY <1>4, CallCloseType DEF IndInv, TypeOK, PcType, ControlType, Sites,
         ReadGone, LeavePump
    <2>4. ControlInv'
      BY <1>4 DEF IndInv, TypeOK, PcType, ControlType, ControlInv, ReadGone,
         LeavePump, CallClose
    <2>5. StartInv' /\ ReopenInv'
      BY <1>4, <2>1, QuietOutside DEF ReadGone, LeavePump, CallClose
    <2> QED
      BY <2>1, <2>2, <2>3, <2>4, <2>5, QuietStep DEF IndInv, TypeOK
  <1>5. CASE ReadError
    <2>1. Quiet(Reader, "pushEOF")
      BY <1>5 DEF IndInv, TypeOK, PcType, Quiet, ReadError, Jump, ReaderLabels
    <2>2. DataType' /\ ChannelType'
      BY <1>5 DEF IndInv, TypeOK, DataType, ChannelType, PcType, ReadError, Jump,
         ServerFrames
    <2>3. ControlType'
      BY <1>5 DEF IndInv, TypeOK, PcType, ControlType, Sites, ReadError, Jump
    <2>4. ControlInv'
      BY <1>5 DEF IndInv, TypeOK, PcType, ControlType, ControlInv, ReadError, Jump
    <2>5. StartInv' /\ ReopenInv'
      BY <1>5, <2>1, QuietOutside DEF ReadError, Jump
    <2> QED
      BY <2>1, <2>2, <2>3, <2>4, <2>5, QuietStep DEF IndInv, TypeOK
  <1>6. CASE ReadPanics
    <2>1. Quiet(Reader, "lock")
      BY <1>6, PumpPanic DEF IndInv, TypeOK, PcType, Quiet, ReadPanics, CallClose,
         ReaderLabels
    <2>2. DataType' /\ ChannelType'
      BY <1>6, PumpPanic DEF IndInv, TypeOK, DataType, ChannelType, PcType,
         ReadPanics, CallClose, ServerFrames
    <2>3. ControlType'
      BY <1>6, PumpPanic, CallCloseType DEF IndInv, TypeOK, PcType, ControlType,
         Sites, ReadPanics
    <2>4. ControlInv'
      BY <1>6, PumpPanic DEF IndInv, TypeOK, PcType, ControlType, ControlInv,
         ReadPanics, CallClose
    <2>5. StartInv' /\ ReopenInv'
      BY <1>6, <2>1, QuietOutside DEF ReadPanics, CallClose
    <2> QED
      BY <2>1, <2>2, <2>3, <2>4, <2>5, QuietStep DEF IndInv, TypeOK
  <1>7. CASE PushMessage
    <2>1. Quiet(Reader, "loop")
      BY <1>7 DEF IndInv, TypeOK, PcType, Quiet, PushMessage, Jump, SendIncoming,
         ReaderLabels
    <2>2. DataType' /\ ChannelType'
      BY <1>7 DEF IndInv, TypeOK, DataType, ChannelType, PcType, PushMessage, Jump,
         SendIncoming, ControlInv, ServerFrames
    <2>3. ControlType'
      BY <1>7 DEF IndInv, TypeOK, PcType, ControlType, Sites, PushMessage, Jump,
         SendIncoming
    <2>4. ControlInv'
      BY <1>7 DEF IndInv, TypeOK, PcType, ControlType, ControlInv, PushMessage, Jump,
         SendIncoming
    <2>5. StartInv' /\ ReopenInv'
      BY <1>7, <2>1, QuietOutside DEF PushMessage, Jump, SendIncoming
    <2> QED
      BY <2>1, <2>2, <2>3, <2>4, <2>5, QuietStep DEF IndInv, TypeOK
  <1>8. CASE PushEOF
    <2>1. Quiet(Reader, "lock")
      BY <1>8 DEF IndInv, TypeOK, PcType, Quiet, PushEOF, LeavePump, CallClose,
         SendIncoming, ReaderLabels
    <2>2. DataType' /\ ChannelType'
      BY <1>8 DEF IndInv, TypeOK, DataType, ChannelType, PcType, PushEOF, LeavePump,
         CallClose, SendIncoming, ServerFrames
    <2>3. ControlType'
      BY <1>8, CallCloseType DEF IndInv, TypeOK, PcType, ControlType, Sites, PushEOF,
         LeavePump, SendIncoming
    <2>4. ControlInv'
      BY <1>8 DEF IndInv, TypeOK, PcType, ControlType, ControlInv, PushEOF,
         LeavePump, CallClose, SendIncoming
    <2>5. StartInv' /\ ReopenInv'
      BY <1>8, <2>1, QuietOutside DEF PushEOF, LeavePump, CallClose, SendIncoming
    <2> QED
      BY <2>1, <2>2, <2>3, <2>4, <2>5, QuietStep DEF IndInv, TypeOK
  <1> QED
    BY <1>1, <1>2, <1>3, <1>4, <1>5, <1>6, <1>7, <1>8 DEF ReadPump

(* The steps of processMessages at its select. *)
LEMMA SelectStep ==
  ASSUME IndInv,
         \/ RecvShutdown \/ RecvIncoming \/ RecvIncomingNil
         \/ RecvOutgoing \/ RecvOutgoingNil \/ PingFailed
  PROVE  IndInv'
  <1>1. CASE RecvShutdown
    <2>1. Quiet(Proc, "lock")
      BY <1>1 DEF IndInv, TypeOK, PcType, Quiet, RecvShutdown, LeavePump, CallClose,
         ProcLabels
    <2>2. DataType' /\ ChannelType'
      BY <1>1 DEF IndInv, TypeOK, DataType, ChannelType, PcType, RecvShutdown,
         LeavePump, CallClose, ServerFrames
    <2>3. ControlType'
      BY <1>1, CallCloseType DEF IndInv, TypeOK, PcType, ControlType, Sites,
         RecvShutdown, LeavePump
    <2>4. ControlInv'
      BY <1>1 DEF IndInv, TypeOK, PcType, ControlType, ControlInv, RecvShutdown,
         LeavePump, CallClose
    <2>5. StartInv' /\ ReopenInv'
      BY <1>1, <2>1 DEF IndInv, TypeOK, PcType, Quiet, StartInv, ReopenInv, Reopened,
         LockInv, TeardownInv, RecvShutdown, LeavePump, CallClose
    <2> QED
      BY <2>1, <2>2, <2>3, <2>4, <2>5, QuietStep DEF IndInv, TypeOK
  <1>2. CASE RecvIncoming
    <2>1. PICK label : Quiet(Proc, label)
      BY <1>2 DEF IndInv, TypeOK, PcType, Quiet, RecvIncoming, Jump, LeavePump,
         CallClose, ProcLabels
    <2>2. DataType' /\ ChannelType'
      BY <1>2 DEF IndInv, TypeOK, DataType, ChannelType, PcType, RecvIncoming, Jump,
         LeavePump, CallClose, ServerFrames
    <2>3. ControlType' /\ ControlInv'
      <3>1. CASE Head(incoming) = EOF
        <4>1. ControlType'
          BY <1>2, <3>1, CallCloseType
             DEF IndInv, TypeOK, ControlType, Sites, RecvIncoming, LeavePump
        <4>2. ControlInv'
          BY <1>2, <3>1 DEF IndInv, TypeOK, PcType, ControlType, ControlInv,
             RecvIncoming, LeavePump, CallClose
        <4> QED
          BY <4>1, <4>2
      <3>2. CASE Head(incoming) # EOF
        <4>1. Head(incoming) \in Traffic \cup {EOF}
          <5>1. incoming \in Seq(Traffic \cup {EOF}) /\ incoming # << >>
            BY <1>2 DEF IndInv, TypeOK, ChannelType, RecvIncoming
          <5> QED
            BY <5>1, HeadTailProperties
        <4>2. Head(incoming) \in Traffic
          BY <3>2, <4>1
        <4>3. /\ msg' = [msg EXCEPT ![Proc] = Head(incoming)]
              /\ pc[Proc] = "select" /\ pc' = [pc EXCEPT ![Proc] = "process"]
              /\ UNCHANGED <<site, panicking>>
          BY <1>2, <3>2 DEF RecvIncoming, Jump
        <4>4. ControlType'
          BY <4>2, <4>3 DEF IndInv, TypeOK, ControlType
        <4>5. ControlInv'
          BY <4>2, <4>3 DEF IndInv, TypeOK, PcType, ControlType, ControlInv
        <4> QED
          BY <4>4, <4>5
      <3> QED
        BY <3>1, <3>2
    <2>4. StartInv' /\ ReopenInv'
      BY <1>2, <2>1 DEF IndInv, TypeOK, PcType, Quiet, StartInv, ReopenInv, Reopened,
         LockInv, TeardownInv, RecvIncoming, Jump, LeavePump, CallClose
    <2> QED
      BY <2>1, <2>2, <2>3, <2>4, QuietStep DEF IndInv, TypeOK
  <1>3. CASE RecvIncomingNil
    <2>1. Quiet(Proc, "lock")
      BY <1>3, PumpPanic DEF IndInv, TypeOK, PcType, Quiet, RecvIncomingNil,
         CallClose, ProcLabels
    <2>2. DataType' /\ ChannelType'
      BY <1>3, PumpPanic DEF IndInv, TypeOK, DataType, ChannelType, PcType,
         RecvIncomingNil, CallClose, ServerFrames
    <2>3. ControlType'
      BY <1>3, PumpPanic, CallCloseType DEF IndInv, TypeOK, PcType, ControlType,
         Sites, RecvIncomingNil
    <2>4. ControlInv'
      BY <1>3, PumpPanic DEF IndInv, TypeOK, PcType, ControlType, ControlInv,
         RecvIncomingNil, CallClose
    <2>5. StartInv' /\ ReopenInv'
      BY <1>3, <2>1 DEF IndInv, TypeOK, PcType, Quiet, StartInv, ReopenInv, Reopened,
         LockInv, TeardownInv, RecvIncomingNil, CallClose
    <2> QED
      BY <2>1, <2>2, <2>3, <2>4, <2>5, QuietStep DEF IndInv, TypeOK
  <1>4. CASE RecvOutgoing
    <2>1. Quiet(Proc, "select")
      BY <1>4 DEF IndInv, TypeOK, PcType, Quiet, RecvOutgoing, WriteFrame,
         WriteFails, ProcLabels
    <2>2. DataType' /\ ChannelType'
      <3>1. DataType'
        BY <1>4 DEF IndInv, TypeOK, DataType, RecvOutgoing, WriteFrame
      <3>2. ChannelType'
        BY <1>4 DEF IndInv, TypeOK, ChannelType, RecvOutgoing
      <3> QED
        BY <3>1, <3>2
    <2>3. ControlType'
      BY <1>4 DEF IndInv, TypeOK, PcType, ControlType, Sites, RecvOutgoing,
         WriteFrame, WriteFails
    <2>4. ControlInv'
      BY <1>4 DEF IndInv, TypeOK, PcType, ControlType, ControlInv, RecvOutgoing,
         WriteFrame, WriteFails
    <2>5. StartInv' /\ ReopenInv'
      BY <1>4, <2>1 DEF IndInv, TypeOK, PcType, Quiet, StartInv, ReopenInv, Reopened,
         LockInv, TeardownInv, RecvOutgoing, WriteFrame, WriteFails
    <2> QED
      BY <2>1, <2>2, <2>3, <2>4, <2>5, QuietStep DEF IndInv, TypeOK
  <1>5. CASE RecvOutgoingNil
    <2>1. Quiet(Proc, "select")
      BY <1>5 DEF IndInv, TypeOK, PcType, Quiet, RecvOutgoingNil, WriteFrame,
         WriteFails, ProcLabels
    <2>2. DataType' /\ ChannelType'
      BY <1>5 DEF IndInv, TypeOK, DataType, ChannelType, PcType, RecvOutgoingNil,
         WriteFrame, WriteFails, ServerFrames
    <2>3. ControlType'
      BY <1>5 DEF IndInv, TypeOK, PcType, ControlType, Sites, RecvOutgoingNil,
         WriteFrame, WriteFails
    <2>4. ControlInv'
      BY <1>5 DEF IndInv, TypeOK, PcType, ControlType, ControlInv, RecvOutgoingNil,
         WriteFrame, WriteFails
    <2>5. StartInv' /\ ReopenInv'
      BY <1>5, <2>1 DEF IndInv, TypeOK, PcType, Quiet, StartInv, ReopenInv, Reopened,
         LockInv, TeardownInv, RecvOutgoingNil, WriteFrame, WriteFails
    <2> QED
      BY <2>1, <2>2, <2>3, <2>4, <2>5, QuietStep DEF IndInv, TypeOK
  <1>6. CASE PingFailed
    <2>1. Quiet(Proc, "lock")
      BY <1>6 DEF IndInv, TypeOK, PcType, Quiet, PingFailed, LeavePump, CallClose,
         WriteFails, ProcLabels
    <2>2. DataType' /\ ChannelType'
      BY <1>6 DEF IndInv, TypeOK, DataType, ChannelType, PcType, PingFailed,
         LeavePump, CallClose, WriteFails, ServerFrames
    <2>3. ControlType'
      BY <1>6, CallCloseType DEF IndInv, TypeOK, PcType, ControlType, Sites,
         PingFailed, LeavePump, WriteFails
    <2>4. ControlInv'
      BY <1>6 DEF IndInv, TypeOK, PcType, ControlType, ControlInv, PingFailed,
         LeavePump, CallClose, WriteFails
    <2>5. StartInv' /\ ReopenInv'
      BY <1>6, <2>1 DEF IndInv, TypeOK, PcType, Quiet, StartInv, ReopenInv, Reopened,
         LockInv, TeardownInv, PingFailed, LeavePump, CallClose, WriteFails
    <2> QED
      BY <2>1, <2>2, <2>3, <2>4, <2>5, QuietStep DEF IndInv, TypeOK
  <1> QED
    BY <1>1, <1>2, <1>3, <1>4, <1>5, <1>6

(* The steps of processMessages at work on a message that neither take
   stateMutex for longer nor change the handshake. *)
LEMMA WorkStep ==
  ASSUME IndInv,
         \/ ConnectionTerminate \/ SendEOF \/ Start \/ SubscriptionStart
         \/ Stop \/ Unknown
  PROVE  IndInv'
  <1>1. CASE ConnectionTerminate
    <2>1. PICK label : Quiet(Proc, label)
      BY <1>1, PumpPanic DEF IndInv, TypeOK, PcType, Quiet, ConnectionTerminate,
         Dispatch, Jump, CallClose, Processing, MessageDone, ProcLabels
    <2>2. DataType' /\ ChannelType'
      BY <1>1, PumpPanic DEF IndInv, TypeOK, DataType, ChannelType, PcType,
         ConnectionTerminate, Dispatch, Jump, CallClose, Processing,
         MessageDone, ServerFrames
    <2>3. ControlType'
      BY <1>1, PumpPanic, CallCloseType DEF IndInv, TypeOK, PcType, ControlType,
         Sites, ConnectionTerminate, Dispatch, Jump, Processing, MessageDone
    <2>4. ControlInv'
      BY <1>1, PumpPanic DEF IndInv, TypeOK, PcType, ControlType, ControlInv,
         ConnectionTerminate, Dispatch, Jump, CallClose, Processing,
         MessageDone
    <2>5. StartInv' /\ ReopenInv'
      BY <1>1, <2>1, QuietWorking DEF ConnectionTerminate, Processing, Working
    <2> QED
      BY <2>1, <2>2, <2>3, <2>4, <2>5, QuietStep DEF IndInv, TypeOK
  <1>2. CASE SendEOF
    <2>1. Quiet(Proc, "select")
      BY <1>2 DEF IndInv, TypeOK, PcType, Quiet, SendEOF, Jump, SendIncoming,
         ProcLabels
    <2>2. DataType' /\ ChannelType'
      BY <1>2 DEF IndInv, TypeOK, DataType, ChannelType, PcType, SendEOF, Jump,
         SendIncoming, ServerFrames
    <2>3. ControlType'
      BY <1>2 DEF IndInv, TypeOK, PcType, ControlType, Sites, SendEOF, Jump,
         SendIncoming
    <2>4. ControlInv'
      BY <1>2 DEF IndInv, TypeOK, PcType, ControlType, ControlInv, SendEOF, Jump,
         SendIncoming
    <2>5. StartInv' /\ ReopenInv'
      BY <1>2, <2>1, QuietWorking DEF SendEOF, Working
    <2> QED
      BY <2>1, <2>2, <2>3, <2>4, <2>5, QuietStep DEF IndInv, TypeOK
  <1>3. CASE Start
    <2>1. PICK label : Quiet(Proc, label)
      BY <1>3, PumpPanic DEF IndInv, TypeOK, PcType, Quiet, Start, Jump, CallClose,
         Processing, MessageDone, CanRLock, ProcLabels, HandshakeInv
    <2>2. DataType' /\ ChannelType'
      BY <1>3, PumpPanic DEF IndInv, TypeOK, DataType, ChannelType, PcType, Start,
         Jump, CallClose, Processing, MessageDone, CanRLock, ServerFrames
    <2>3. ControlType'
      BY <1>3, PumpPanic, CallCloseType DEF IndInv, TypeOK, PcType, ControlType,
         Sites, Start, Jump, Processing, MessageDone, CanRLock, HandshakeInv
    <2>4. ControlInv'
      BY <1>3, PumpPanic DEF IndInv, TypeOK, PcType, ControlType, ControlInv, Start,
         Jump, CallClose, Processing, MessageDone, CanRLock, HandshakeInv
    <2>5. StartInv' /\ ReopenInv'
      BY <1>3, <2>1, QuietWorking DEF Start, Processing, Working
    <2> QED
      BY <2>1, <2>2, <2>3, <2>4, <2>5, QuietStep DEF IndInv, TypeOK
  <1>4. CASE SubscriptionStart
    <2>1. PICK label : Quiet(Proc, label)
      BY <1>4, PumpPanic DEF IndInv, TypeOK, PcType, Quiet, SubscriptionStart,
         Dispatch, Jump, CallClose, ProcLabels
    <2>2. DataType' /\ ChannelType'
      BY <1>4, PumpPanic DEF IndInv, TypeOK, DataType, ChannelType, PcType,
         SubscriptionStart, Dispatch, Jump, CallClose, ServerFrames
    <2>3. ControlType'
      BY <1>4, PumpPanic, CallCloseType DEF IndInv, TypeOK, PcType, ControlType,
         Sites, SubscriptionStart, Dispatch, Jump
    <2>4. ControlInv'
      BY <1>4, PumpPanic DEF IndInv, TypeOK, PcType, ControlType, ControlInv,
         SubscriptionStart, Dispatch, Jump, CallClose
    <2>5. StartInv' /\ ReopenInv'
      BY <1>4, <2>1, QuietWorking DEF SubscriptionStart, Working
    <2> QED
      BY <2>1, <2>2, <2>3, <2>4, <2>5, QuietStep DEF IndInv, TypeOK
  <1>5. CASE Stop
    <2>1. PICK label : Quiet(Proc, label)
      BY <1>5, PumpPanic DEF IndInv, TypeOK, PcType, Quiet, Stop, CallClose,
         GqlStop, Dispatch, Jump, Processing, MessageDone, ProcLabels
    <2>2. DataType' /\ ChannelType'
      BY <1>5, PumpPanic DEF IndInv, TypeOK, DataType, ChannelType, PcType, Stop,
         CallClose, GqlStop, Dispatch, Jump, Processing, MessageDone, ServerFrames
    <2>3. ControlType'
      BY <1>5, PumpPanic, CallCloseType DEF IndInv, TypeOK, PcType, ControlType,
         Sites, Stop, GqlStop, Dispatch, Jump, Processing, MessageDone
    <2>4. ControlInv'
      BY <1>5, PumpPanic DEF IndInv, TypeOK, PcType, ControlType, ControlInv, Stop,
         CallClose, GqlStop, Dispatch, Jump, Processing, MessageDone
    <2>5. StartInv' /\ ReopenInv'
      BY <1>5, <2>1, QuietWorking DEF Stop, Processing, Working
    <2> QED
      BY <2>1, <2>2, <2>3, <2>4, <2>5, QuietStep DEF IndInv, TypeOK
  <1>6. CASE Unknown
    <2>1. Quiet(Proc, "select")
      BY <1>6 DEF IndInv, TypeOK, PcType, Quiet, Unknown, Jump, Processing,
         MessageDone, ProcLabels
    <2>2. DataType' /\ ChannelType'
      BY <1>6 DEF IndInv, TypeOK, DataType, ChannelType, PcType, Unknown, Jump,
         Processing, MessageDone, ServerFrames
    <2>3. ControlType'
      BY <1>6 DEF IndInv, TypeOK, PcType, ControlType, Sites, Unknown, Jump,
         Processing, MessageDone
    <2>4. ControlInv'
      BY <1>6 DEF IndInv, TypeOK, PcType, ControlType, ControlInv, Unknown, Jump,
         Processing, MessageDone
    <2>5. StartInv' /\ ReopenInv'
      BY <1>6, <2>1, QuietWorking DEF Unknown, Processing, Working
    <2> QED
      BY <2>1, <2>2, <2>3, <2>4, <2>5, QuietStep DEF IndInv, TypeOK
  <1> QED
    BY <1>1, <1>2, <1>3, <1>4, <1>5, <1>6

(* The calls of the application, up to close(). *)
LEMMA AppStep ==
  ASSUME IndInv, NEW a \in Apps, App(a)
  PROVE  IndInv'
  <1>1. CASE AppCall(a)
    <2>1. PICK label : Quiet(a, label)
      BY <1>1 DEF IndInv, TypeOK, PcType, Quiet, AppCall, Jump, AppLabels
    <2>2. DataType' /\ ChannelType'
      BY <1>1 DEF IndInv, TypeOK, DataType, ChannelType, PcType, AppCall, Jump,
         ServerFrames
    <2>3. ControlType'
      BY <1>1 DEF IndInv, TypeOK, PcType, ControlType, Sites, AppCall, Jump
    <2>4. ControlInv'
      BY <1>1 DEF IndInv, TypeOK, PcType, ControlType, ControlInv, AppCall, Jump
    <2>5. StartInv' /\ ReopenInv'
      BY <1>1, <2>1, QuietOutside DEF AppCall, Jump
    <2> QED
      BY <2>1, <2>2, <2>3, <2>4, <2>5, QuietStep DEF IndInv, TypeOK
  <1>2. CASE AppCloseCheck(a)
    <2>1. PICK label : Quiet(a, label)
      BY <1>2 DEF IndInv, TypeOK, PcType, Quiet, AppCloseCheck, Jump, CanRLock,
         AppLabels
    <2>2. DataType' /\ ChannelType'
      BY <1>2 DEF IndInv, TypeOK, DataType, ChannelType, PcType, AppCloseCheck, Jump,
         CanRLock, ServerFrames
    <2>3. ControlType'
      BY <1>2 DEF IndInv, TypeOK, PcType, ControlType, Sites, AppCloseCheck, Jump,
         CanRLock
    <2>4. ControlInv'
      BY <1>2 DEF IndInv, TypeOK, PcType, ControlType, ControlInv, AppCloseCheck,
         Jump, CanRLock
    <2>5. StartInv' /\ ReopenInv'
      BY <1>2, <2>1, QuietOutside DEF AppCloseCheck, Jump, CanRLock
    <2> QED
      BY <2>1, <2>2, <2>3, <2>4, <2>5, QuietStep DEF IndInv, TypeOK
  <1>3. CASE AppWriteControl(a)
    <2>1. PICK label : Quiet(a, label)
      BY <1>3 DEF IndInv, TypeOK, PcType, Quiet, AppWriteControl, Jump, CallClose,
         WriteFails, AppLabels
    <2>2. DataType' /\ ChannelType'
      BY <1>3 DEF IndInv, TypeOK, DataType, ChannelType, PcType, AppWriteControl,
         Jump, CallClose, WriteFails, ServerFrames
    <2>3. ControlType'
      BY <1>3, CallCloseType DEF IndInv, TypeOK, PcType, ControlType, Sites,
         AppWriteControl, Jump, WriteFails
    <2>4. ControlInv'
      <3>1. UNCHANGED msg
        BY <1>3 DEF AppWriteControl
      <3>2. CASE CallClose(a, "Close")
        BY <3>1, <3>2 DEF IndInv, TypeOK, PcType, ControlType, ControlInv, CallClose
      <3>3. CASE Jump(a, "idle")
        BY <1>3, <3>1, <3>3
           DEF IndInv, TypeOK, PcType, ControlType, ControlInv, Jump, AppWriteControl
      <3> QED
        BY <1>3, <3>2, <3>3 DEF AppWriteControl
    <2>5. StartInv' /\ ReopenInv'
      BY <1>3, <2>1, QuietOutside DEF AppWriteControl, Jump, CallClose, WriteFails
    <2> QED
      BY <2>1, <2>2, <2>3, <2>4, <2>5, QuietStep DEF IndInv, TypeOK
  <1>4. CASE SendData(a)
    <2>1. Quiet(a, "idle")
      BY <1>4 DEF IndInv, TypeOK, PcType, Quiet, SendData, Jump, SendOutgoing,
         AppLabels
    <2>2. DataType' /\ ChannelType'
      BY <1>4 DEF IndInv, TypeOK, DataType, ChannelType, PcType, SendData, Jump,
         SendOutgoing, ServerFrames
    <2>3. ControlType'
      BY <1>4 DEF IndInv, TypeOK, PcType, ControlType, Sites, SendData, Jump,
         SendOutgoing
    <2>4. ControlInv'
      BY <1>4 DEF IndInv, TypeOK, PcType, ControlType, ControlInv, SendData, Jump,
         SendOutgoing
    <2>5. StartInv' /\ ReopenInv'
      BY <1>4, <2>1, QuietOutside DEF SendData, Jump, SendOutgoing
    <2> QED
      BY <2>1, <2>2, <2>3, <2>4, <2>5, QuietStep DEF IndInv, TypeOK
  <1>5. CASE SendErrorCheck(a)
    <2>1. PICK label : Quiet(a, label)
      BY <1>5 DEF IndInv, TypeOK, PcType, Quiet, SendErrorCheck, Jump, CanRLock,
         AppLabels
    <2>2. DataType' /\ ChannelType'
      BY <1>5 DEF IndInv, TypeOK, DataType, ChannelType, PcType, SendErrorCheck,
         Jump, CanRLock, ServerFrames
    <2>3. ControlType'
      BY <1>5 DEF IndInv, TypeOK, PcType, ControlType, Sites, SendErrorCheck, Jump,
         CanRLock
    <2>4. ControlInv'
      BY <1>5 DEF IndInv, TypeOK, PcType, ControlType, ControlInv, SendErrorCheck,
         Jump, CanRLock
    <2>5. StartInv' /\ ReopenInv'
      BY <1>5, <2>1, QuietOutside DEF SendErrorCheck, Jump, CanRLock
    <2> QED
      BY <2>1, <2>2, <2>3, <2>4, <2>5, QuietStep DEF IndInv, TypeOK
  <1>6. CASE SendError(a)
    <2>1. Quiet(a, "idle")
      BY <1>6 DEF IndInv, TypeOK, PcType, Quiet, SendError, Jump, SendOutgoing,
         AppLabels
    <2>2. DataType' /\ ChannelType'
      BY <1>6 DEF IndInv, TypeOK, DataType, ChannelType, PcType, SendError, Jump,
         SendOutgoing, ServerFrames
    <2>3. ControlType'
      BY <1>6 DEF IndInv, TypeOK, PcType, ControlType, Sites, SendError, Jump,
         SendOutgoing
    <2>4. ControlInv'
      BY <1>6 DEF IndInv, TypeOK, PcType, ControlType, ControlInv, SendError, Jump,
         SendOutgoing
    <2>5. StartInv' /\ ReopenInv'
      BY <1>6, <2>1, QuietOutside DEF SendError, Jump, SendOutgoing
    <2> QED
      BY <2>1, <2>2, <2>3, <2>4, <2>5, QuietStep DEF IndInv, TypeOK
  <1> QED
    BY <1>1, <1>2, <1>3, <1>4, <1>5, <1>6 DEF App

(* setState(Initializing) may follow a close() that came first.  Nothing was
   queued before and processMessages has no message in hand. *)
LEMMA ReadPumpStartStep ==
  ASSUME IndInv, ReadPumpStart
  PROVE  IndInv'
  <1> USE DEF IndInv, TypeOK, PcType, ReadPumpStart, Jump, CanLock
  <1>1. DataType' /\ ChannelType' /\ ControlType'
    BY DEF DataType, ChannelType, ControlType, States
  <1>2. PcType'
    BY DEF Labels, ReaderLabels
  <1>3. ControlInv' /\ LockInv'
    BY DEF ControlInv, LockInv, DataType
  <1>4. TeardownInv' /\ HandshakeInv' /\ SafeSend' /\ PumpExitShutsDown'
    BY DEF TeardownInv, HandshakeInv, SafeSend, PumpExitShutsDown
  <1>5. StartInv' /\ ReopenInv'
    BY DEF StartInv, ReopenInv, Reopened, LockInv, DataType
  <1> QED
    BY <1>1, <1>2, <1>3, <1>4, <1>5

(* The handshake: an accepted connection_init, setState(Established) and the
   ack.  setState may follow a close() by another goroutine; processMessages is
   then about to send the ack on the closed channel and panics. *)
LEMMA HandshakeStep ==
  ASSUME IndInv, ConnectionInit \/ SetEstablished \/ SendAck
  PROVE  IndInv'
  <1>1. CASE ConnectionInit
    <2> USE <1>1, PumpPanic DEF IndInv, TypeOK, PcType, ConnectionInit, Processing,
            MessageDone, Jump
    <2>1. DataType' /\ ChannelType'
      BY DEF DataType, ChannelType
    <2>2. ControlType'
      BY DEF ControlType
    <2>3. PcType'
      BY DEF Labels, ProcLabels
    <2>4. ControlInv'
      BY DEF ControlInv, ControlType
    <2>5. LockInv' /\ SafeSend' /\ PumpExitShutsDown'
      BY DEF LockInv, DataType, SafeSend, PumpExitShutsDown
    <2>6. TeardownInv' /\ HandshakeInv'
      BY DEF TeardownInv, HandshakeInv
    <2>7. StartInv' /\ ReopenInv'
      BY DEF StartInv, ReopenInv, Reopened
    <2> QED
      BY <2>1, <2>2, <2>3, <2>4, <2>5, <2>6, <2>7
  <1>2. CASE SetEstablished
    <2> USE <1>2 DEF IndInv, TypeOK, PcType, SetEstablished, Jump, CanLock
    <2>1. DataType' /\ ChannelType' /\ ControlType'
      BY DEF DataType, ChannelType, ControlType, States
    <2>2. PcType'
      BY DEF Labels, ProcLabels
    <2>3. ControlInv' /\ LockInv'
      BY DEF ControlInv, LockInv, DataType
    <2>4. TeardownInv' /\ HandshakeInv' /\ SafeSend' /\ PumpExitShutsDown'
      BY DEF TeardownInv, HandshakeInv, SafeSend, PumpExitShutsDown
    <2>5. StartInv' /\ ReopenInv'
      BY DEF StartInv, ReopenInv, Reopened
    <2> QED
      BY <2>1, <2>2, <2>3, <2>4, <2>5
  <1>3. CASE SendAck
    <2>1. Quiet(Proc, "select")
      BY <1>3 DEF IndInv, TypeOK, PcType, Quiet, SendAck, Jump, SendOutgoing, ProcLabels
    <2>2. DataType' /\ ChannelType'
      BY <1>3 DEF IndInv, TypeOK, DataType, ChannelType, SendAck, SendOutgoing, ServerFrames
    <2>3. ControlType' /\ ControlInv'
      BY <1>3 DEF IndInv, TypeOK, PcType, ControlType, ControlInv, SendAck, Jump
    <2>4. StartInv' /\ ReopenInv'
      BY <1>3 DEF IndInv, TypeOK, PcType, StartInv, ReopenInv, Reopened,
         SendAck, Jump, SendOutgoing
    <2> QED
      BY <2>1, <2>2, <2>3, <2>4, QuietStep DEF IndInv, TypeOK
  <1> QED
    BY <1>1, <1>2, <1>3

(* gqlStart adds a subscription; the state check of start came after the
   handshake. *)
LEMMA GqlStartStep ==
  ASSUME IndInv, GqlStart
  PROVE  IndInv'
  <1> USE PumpPanic DEF IndInv, TypeOK, PcType, GqlStart, MessageDone, Jump
  <1>1. DataType' /\ ChannelType'
    <2>1. msg[Proc] \in ClientMessages
      BY DEF ControlInv
    <2>2. msg[Proc].id \in IDs
      BY <2>1 DEF ClientMessages
    <2> QED
      BY <2>2 DEF DataType, ChannelType
  <1>2. ControlType'
    BY DEF ControlType
  <1>3. PcType'
    BY DEF Labels, ProcLabels
  <1>4. ControlInv'
    BY DEF ControlInv, ControlType
  <1>5. LockInv' /\ SafeSend' /\ PumpExitShutsDown'
    BY DEF LockInv, DataType, SafeSend, PumpExitShutsDown
  <1>6. TeardownInv' /\ HandshakeInv'
    BY DEF TeardownInv, HandshakeInv
  <1>7. StartInv' /\ ReopenInv'
    BY DEF StartInv, ReopenInv, Reopened
  <1> QED
    BY <1>1, <1>2, <1>3, <1>4, <1>5, <1>6, <1>7

(* The state check of sendConnectionError and of sendOperationErrors.  The
   connection is not Closed and processMessages is at work, so it is not a
   reopened one (ReopenInv) and its channel is open when the read lock is taken. *)
LEMMA ErrorCheckStep ==
  ASSUME IndInv, NEW check \in {"connErr", "opErr"}, NEW send \in RHolding,
         NEW next \in {"eof", "select"}, SendErrorLocked(check, send, next)
  PROVE  IndInv'
  <1>0. PICK label \in {next, send} : pc' = [pc EXCEPT ![Proc] = label]
    BY DEF SendErrorLocked, Jump
  <1>3. \A u \in Threads : pc'[u] = IF u = Proc THEN label ELSE pc[u]
    BY <1>0 DEF IndInv, TypeOK, PcType
  <1>4. ControlType' /\ ControlInv'
    BY <1>3 DEF IndInv, TypeOK, ControlType, ControlInv, SendErrorLocked, Jump
  <1>1. CASE state = "closed"
    <2>1. Quiet(Proc, next)
      BY <1>1 DEF IndInv, TypeOK, PcType, Quiet, SendErrorLocked, Jump, ProcLabels
    <2>2. DataType' /\ ChannelType'
      BY <1>1 DEF IndInv, TypeOK, DataType, ChannelType, SendErrorLocked
    <2>3. StartInv' /\ ReopenInv'
      BY <2>1, QuietWorking DEF SendErrorLocked, Working
    <2> QED
      BY <1>4, <2>1, <2>2, <2>3, QuietStep DEF IndInv, TypeOK
  <1>2. CASE state # "closed"
    <2> USE <1>2 DEF IndInv, TypeOK, PcType, SendErrorLocked, Jump, CanRLock
    <2>1. DataType' /\ ChannelType'
      BY DEF DataType, ChannelType
    <2>2. PcType'
      BY DEF Labels, ProcLabels
    <2>4. LockInv'
      <3>1. \A u \in Threads : pc[u] \notin Holding
        BY DEF LockInv
      <3>2. \A u \in Threads : pc'[u] \notin Holding
        BY <1>3, <3>1
      <3>3. readers' = {Proc} /\ writer' = NoThread
        BY DEF DataType
      <3> QED
        BY <3>2, <3>3 DEF LockInv
    <2>5. TeardownInv' /\ HandshakeInv' /\ PumpExitShutsDown'
      BY DEF TeardownInv, HandshakeInv, PumpExitShutsDown
    <2>6. StartInv' /\ ReopenInv' /\ SafeSend'
      BY DEF StartInv, ReopenInv, Reopened, SafeSend
    <2> QED
      BY <1>4, <2>1, <2>2, <2>4, <2>5, <2>6
  <1> QED
    BY <1>1, <1>2

(* The send under the read lock, which is then released. *)
LEMMA ErrorSendStep ==
  ASSUME IndInv, NEW send \in RHolding, NEW f \in ServerFrames,
         NEW next \in {"eof", "select"}, SendErrorUnlock(send, f, next)
  PROVE  IndInv'
  <1> USE DEF IndInv, TypeOK, PcType, SendErrorUnlock, SendOutgoing, Jump
  <1>1. DataType'
    BY DEF DataType
  <1>2. ChannelType'
    BY DEF ChannelType
  <1>3. PcType'
    BY DEF Labels, ProcLabels
  <1>4. ControlType' /\ ControlInv'
    BY DEF ControlType, ControlInv
  <1>5. LockInv'
    BY DEF LockInv, DataType
  <1>6. TeardownInv' /\ HandshakeInv' /\ PumpExitShutsDown' /\ SafeSend'
    BY DEF TeardownInv, HandshakeInv, PumpExitShutsDown, SafeSend
  <1>7. StartInv' /\ ReopenInv'
    BY DEF StartInv, ReopenInv, Reopened
  <1> QED
    BY <1>1, <1>2, <1>3, <1>4, <1>5, <1>6, <1>7

(* After a crash no goroutine runs: only the data can break the invariant. *)
LEMMA CrashStep ==
  ASSUME IndInv, Crash
  PROVE  /\ PcType' /\ StartInv' /\ SafeSend' /\ PumpExitShutsDown'
         /\ \A t \in Threads : pc'[t] = Dead
         /\ site' = site /\ site' \in [Threads -> Sites] /\ panicking' \subseteq Pumps
         /\ ControlInv'
  <1>1. \A t \in Threads : pc'[t] = Dead
    BY DEF Crash
  <1>2. PcType'
    BY DEF Crash, PcType, Labels, ReaderLabels, ProcLabels, AppLabels
  <1>3. ControlInv' /\ StartInv' /\ SafeSend' /\ PumpExitShutsDown'
    BY <1>1 DEF IndInv, Crash, ControlInv, StartInv, SafeSend, PumpExitShutsDown
  <1> QED
    BY <1>1, <1>2, <1>3 DEF IndInv, TypeOK, ControlType, Crash

(* recover() and the EOF it may queue. *)
LEMMA RecoverStep ==
  ASSUME IndInv, Recover \/ RecoverEOF
  PROVE  IndInv'
  <1>1. CASE Recover /\ Crash
    <2>1. DataType' /\ ChannelType' /\ ControlType'
      BY <1>1, CrashStep DEF IndInv, TypeOK, DataType, ChannelType, ControlType, Recover
    <2>2. LockInv'
      BY <1>1, CrashStep DEF IndInv, TypeOK, DataType, LockInv, Recover
    <2>3. TeardownInv' /\ ReopenInv' /\ HandshakeInv'
      BY <1>1, CrashStep DEF IndInv, TeardownInv, ReopenInv, HandshakeInv, Recover
    <2> QED
      BY <1>1, <2>1, <2>2, <2>3, CrashStep DEF IndInv, TypeOK
  <1>2. CASE (Recover /\ ~Crash) \/ RecoverEOF
    <2> USE <1>2 DEF IndInv, TypeOK, PcType, Recover, RecoverEOF, SendIncoming, Jump
    <2>1. DataType'
      BY DEF DataType
    <2>2. ChannelType'
      <3>1. CASE RecoverEOF
        BY <3>1 DEF ChannelType
      <3>2. CASE Recover
        BY <3>2 DEF ChannelType
      <3> QED
        BY <3>1, <3>2
    <2>3. PcType'
      BY DEF Labels, ReaderLabels, ProcLabels, AppLabels
    <2>4. ControlType' /\ ControlInv'
      BY DEF ControlType, ControlInv
    <2>5. LockInv'
      BY DEF LockInv, DataType
    <2>6. TeardownInv' /\ HandshakeInv'
      BY DEF TeardownInv, HandshakeInv
    <2>7. PumpExitShutsDown' /\ SafeSend'
      BY DEF TeardownInv, PumpExitShutsDown, SafeSend
    <2>8. StartInv' /\ ReopenInv'
      BY DEF StartInv, ReopenInv, Reopened
    <2> QED
      BY <2>1, <2>2, <2>3, <2>4, <2>5, <2>6, <2>7, <2>8
  <1> QED
    BY <1>1, <1>2

(* A panic and a return from close() keep site and panicking well typed. *)
LEMMA UnwindType ==
  ASSUME IndInv, NEW t \in Threads, NEW failed \in BOOLEAN,
         Panic(t) \/ CloseReturns(t, failed)
  PROVE  site' \in [Threads -> Sites] /\ panicking' \subseteq Pumps
  <1>1. site' = site \/ \E s \in Sites : site' = [site EXCEPT ![t] = s]
    BY DEF Panic, CloseReturns, CallClose, LeavePump, Jump, Crash, Sites
  <1>2. panicking' \subseteq Pumps
    BY DEF IndInv, TypeOK, ControlType, Panic, CloseReturns, LeavePump, Jump, Crash
  <1> QED
    BY <1>1, <1>2 DEF IndInv, TypeOK, ControlType

(* close() of a connection that is Closed returns at once. *)
LEMMA CloseAlreadyClosedStep ==
  ASSUME IndInv, NEW t \in Threads, CloseAlreadyClosed(t)
  PROVE  IndInv'
  <1>1. DataType' /\ ChannelType' /\ ControlType'
    BY UnwindType DEF IndInv, TypeOK, DataType, ChannelType, ControlType, States,
       CloseAlreadyClosed, Jump
  <1> USE DEF IndInv, TypeOK, PcType, CloseAlreadyClosed, CanLock, CloseReturns, LeavePump, CallClose, Jump, Crash
  <1>2. PcType'
    BY DEF Labels, ReaderLabels, ProcLabels, AppLabels, ControlInv
  <1>3. ControlInv'
    BY DEF ControlInv, ControlType
  <1>4. LockInv'
    BY DEF LockInv, DataType
  <1>5. TeardownInv'
    BY DEF TeardownInv, LockInv, DataType
  <1>6. StartInv'
    BY DEF StartInv, LockInv, ControlInv
  <1>7. ReopenInv'
    BY DEF ReopenInv, Reopened, LockInv
  <1>8. HandshakeInv' /\ SafeSend' /\ PumpExitShutsDown'
    BY DEF HandshakeInv, SafeSend, PumpExitShutsDown, TeardownInv, LockInv, ControlInv
  <1> QED
    BY <1>1, <1>2, <1>3, <1>4, <1>5, <1>6, <1>7, <1>8

(* close() sets the state and signals shutdown.  Where shutdown was signalled
   before (the state was overwritten by setState) it panics instead, and nothing
   is torn down twice. *)
LEMMA CloseBeginStep ==
  ASSUME IndInv, NEW t \in Threads, CloseBegin(t)
  PROVE  IndInv'
  <1>1. DataType' /\ ChannelType' /\ ControlType'
    BY UnwindType DEF IndInv, TypeOK, DataType, ChannelType, ControlType, States,
       CloseBegin, Jump
  <1> USE DEF IndInv, TypeOK, PcType, CloseBegin, CanLock, Panic, CallClose, Crash, Jump
  <1>2. PcType'
    BY DEF Labels, ReaderLabels, ProcLabels, AppLabels, ControlInv
  <1>3. ControlInv'
    BY DEF ControlInv, ControlType
  <1>4. LockInv'
    BY DEF LockInv, DataType
  <1>5. TeardownInv'
    BY DEF TeardownInv, LockInv, DataType
  <1>6. StartInv'
    BY DEF StartInv, LockInv, ControlInv
  <1>7. ReopenInv'
    BY DEF ReopenInv, Reopened, LockInv
  <1>8. HandshakeInv' /\ SafeSend' /\ PumpExitShutsDown'
    BY DEF HandshakeInv, SafeSend, PumpExitShutsDown, TeardownInv, LockInv, ControlInv
  <1> QED
    BY <1>1, <1>2, <1>3, <1>4, <1>5, <1>6, <1>7, <1>8

(* The close handlers return, fail or panic, under the lock. *)
LEMMA CloseHandlersStep ==
  ASSUME IndInv, NEW t \in Threads, CloseHandlers(t)
  PROVE  IndInv'
  <1>1. DataType' /\ ChannelType' /\ ControlType'
    <2>1. site' \in [Threads -> Sites] /\ panicking' \subseteq Pumps
      <3>1. Jump(t, "closeOut") \/ CloseReturns(t, TRUE) \/ Panic(t)
        BY DEF CloseHandlers
      <3>2. CASE Jump(t, "closeOut")
        BY <3>2 DEF IndInv, TypeOK, ControlType, Jump
      <3> QED
        BY <3>1, <3>2, UnwindType
    <2>2. writer' \in {writer, NoThread} /\ notified' = notified + 1
      BY DEF CloseHandlers
    <2>3. UNCHANGED <<state, readers, chans, ws, msg, Subscriptions, accepted>>
      BY DEF CloseHandlers
    <2>4. DataType'
      BY <2>2, <2>3 DEF IndInv, TypeOK, DataType
    <2> QED
      BY <2>1, <2>3, <2>4 DEF IndInv, TypeOK, ChannelType, ControlType
  <1> USE DEF IndInv, TypeOK, PcType, CloseHandlers, CloseReturns, LeavePump, CallClose, Jump, Crash, Panic
  <1>2. PcType'
    BY DEF Labels, ReaderLabels, ProcLabels, AppLabels, ControlInv
  <1>3. ControlInv'
    BY DEF ControlInv, ControlType
  <1>4. LockInv'
    BY DEF LockInv, DataType
  <1>5. TeardownInv'
    BY DEF TeardownInv, LockInv, DataType
  <1>6. StartInv'
    BY DEF StartInv, LockInv, ControlInv
  <1>7. ReopenInv'
    BY DEF ReopenInv, Reopened, LockInv
  <1>8. HandshakeInv' /\ SafeSend' /\ PumpExitShutsDown'
    BY DEF HandshakeInv, SafeSend, PumpExitShutsDown, TeardownInv, LockInv, ControlInv
  <1> QED
    BY <1>1, <1>2, <1>3, <1>4, <1>5, <1>6, <1>7, <1>8

(* The outgoing channel is closed.  The lock is held, so processMessages is not
   between the check and the send of an error. *)
LEMMA CloseOutgoingStep ==
  ASSUME IndInv, NEW t \in Threads, CloseOutgoing(t)
  PROVE  IndInv'
  <1>1. DataType' /\ ChannelType' /\ ControlType'
    BY DEF IndInv, TypeOK, DataType, ChannelType, ControlType, CloseOutgoing, Jump
  <1> USE DEF IndInv, TypeOK, PcType, CloseOutgoing, Jump
  <1>2. PcType'
    BY DEF Labels, ReaderLabels, ProcLabels, AppLabels, ControlInv
  <1>3. ControlInv'
    BY DEF ControlInv, ControlType
  <1>4. LockInv'
    BY DEF LockInv, DataType
  <1>5. TeardownInv'
    BY DEF TeardownInv, LockInv, DataType
  <1>6. StartInv'
    BY DEF StartInv, LockInv, ControlInv
  <1>7. ReopenInv'
    BY DEF ReopenInv, Reopened, LockInv
  <1>8. HandshakeInv' /\ SafeSend' /\ PumpExitShutsDown'
    BY DEF HandshakeInv, SafeSend, PumpExitShutsDown, TeardownInv, LockInv, ControlInv
  <1> QED
    BY <1>1, <1>2, <1>3, <1>4, <1>5, <1>6, <1>7, <1>8

(* The incoming channel is closed. *)
LEMMA CloseIncomingStep ==
  ASSUME IndInv, NEW t \in Threads, CloseIncoming(t)
  PROVE  IndInv'
  <1>1. DataType' /\ ChannelType' /\ ControlType'
    BY DEF IndInv, TypeOK, DataType, ChannelType, ControlType, CloseIncoming, Jump
  <1> USE DEF IndInv, TypeOK, PcType, CloseIncoming, Jump
  <1>2. PcType'
    BY DEF Labels, ReaderLabels, ProcLabels, AppLabels, ControlInv
  <1>3. ControlInv'
    BY DEF ControlInv, ControlType
  <1>4. LockInv'
    BY DEF LockInv, DataType
  <1>5. TeardownInv'
    BY DEF TeardownInv, LockInv, DataType
  <1>6. StartInv'
    BY DEF StartInv, LockInv, ControlInv
  <1>7. ReopenInv'
    BY DEF ReopenInv, Reopened, LockInv
  <1>8. HandshakeInv' /\ SafeSend' /\ PumpExitShutsDown'
    BY DEF HandshakeInv, SafeSend, PumpExitShutsDown, TeardownInv, LockInv, ControlInv
  <1> QED
    BY <1>1, <1>2, <1>3, <1>4, <1>5, <1>6, <1>7, <1>8

(* The websocket is closed and the lock released. *)
LEMMA CloseWebsocketStep ==
  ASSUME IndInv, NEW t \in Threads, CloseWebsocket(t)
  PROVE  IndInv'
  <1>1. DataType' /\ ChannelType' /\ ControlType'
    BY UnwindType DEF IndInv, TypeOK, DataType, ChannelType, ControlType, States,
       CloseWebsocket, Jump
  <1> USE DEF IndInv, TypeOK, PcType, CloseWebsocket, CloseReturns, LeavePump, CallClose, Jump, Crash
  <1>2. PcType'
    BY DEF Labels, ReaderLabels, ProcLabels, AppLabels, ControlInv
  <1>3. ControlInv'
    BY DEF ControlInv, ControlType
  <1>4. LockInv'
    BY DEF LockInv, DataType
  <1>5. TeardownInv'
    BY DEF TeardownInv, LockInv, DataType
  <1>6. StartInv'
    BY DEF StartInv, LockInv, ControlInv
  <1>7. ReopenInv'
    BY DEF ReopenInv, Reopened, LockInv
  <1>8. HandshakeInv' /\ SafeSend' /\ PumpExitShutsDown'
    BY DEF HandshakeInv, SafeSend, PumpExitShutsDown, TeardownInv, LockInv, ControlInv
  <1> QED
    BY <1>1, <1>2, <1>3, <1>4, <1>5, <1>6, <1>7, <1>8

(* A send on a closed channel panics; the deferred unlock releases the read
   lock. *)
LEMMA SendOnClosedStep ==
  ASSUME IndInv, NEW t \in Threads, SendOnClosed(t)
  PROVE  IndInv'
  <1>1. DataType' /\ ChannelType'
    BY DEF IndInv, TypeOK, DataType, ChannelType, SendOnClosed
  <1>2. ControlType'
    <2>1. msg' = msg \/ msg' = [msg EXCEPT ![Reader] = NoMsg]
      BY DEF SendOnClosed
    <2>2. site' \in [Threads -> Sites] /\ panicking' \subseteq Pumps
      BY UnwindType DEF SendOnClosed
    <2> QED
      BY <2>1, <2>2 DEF IndInv, TypeOK, ControlType
  <1> USE DEF IndInv, TypeOK, PcType, SendOnClosed, IncomingSends, OutgoingSends, Panic,
          CallClose, Crash
  <1>3. PcType'
    BY DEF Labels, ReaderLabels, ProcLabels, AppLabels, ControlInv
  <1>4. ControlInv'
    BY DEF ControlInv, ControlType
  <1>5. LockInv'
    BY DEF LockInv, DataType, SafeSend, TeardownInv
  <1>6. TeardownInv'
    BY DEF TeardownInv, LockInv, DataType
  <1>7. StartInv'
    BY DEF StartInv, LockInv, ControlInv
  <1>8. ReopenInv'
    BY DEF ReopenInv, Reopened, LockInv
  <1>9. HandshakeInv' /\ SafeSend' /\ PumpExitShutsDown'
    BY DEF HandshakeInv, SafeSend, PumpExitShutsDown, TeardownInv, LockInv, ControlInv
  <1> QED
    BY <1>1, <1>2, <1>3, <1>4, <1>5, <1>6, <1>7, <1>8, <1>9

(* Every step preserves the invariant. *)
LEMMA NextIndInv == IndInv /\ [Next]_vars => IndInv'
  <1> SUFFICES ASSUME IndInv, [Next]_vars PROVE IndInv'
    OBVIOUS
  <1>1. CASE ReadPump
    BY <1>1, ReadPumpStartStep, ReadPumpStep
  <1>2. CASE ProcessMessages
    <2>1. CASE SendConnectionError
      <3>1. "connErrSend" \in RHolding /\ "connection_error" \in ServerFrames
        BY DEF ServerFrames
      <3> QED
        BY <2>1, <3>1, ErrorCheckStep, ErrorSendStep DEF SendConnectionError
    <2>2. CASE SendOperationErrors
      <3>1. "opErrSend" \in RHolding /\ "error" \in ServerFrames
        BY DEF ServerFrames
      <3> QED
        BY <2>2, <3>1, ErrorCheckStep, ErrorSendStep DEF SendOperationErrors
    <2> QED
      BY <1>2, <2>1, <2>2, SelectStep, WorkStep, HandshakeStep, GqlStartStep, RecoverStep
         DEF ProcessMessages
  <1>3. CASE \E a \in Apps : App(a)
    BY <1>3, AppStep
  <1>4. ASSUME NEW t \in Threads, Close(t) \/ SendOnClosed(t)
        PROVE  IndInv'
    BY <1>4, CloseAlreadyClosedStep, CloseBeginStep, CloseHandlersStep, CloseOutgoingStep,
       CloseIncomingStep, CloseWebsocketStep, SendOnClosedStep DEF Close
  <1>5. CASE UNCHANGED vars
    BY <1>5 DEF vars, IndInv, TypeOK, DataType, ChannelType, PcType, ControlType,
       ControlInv, LockInv, TeardownInv, StartInv, ReopenInv, Reopened, HandshakeInv,
       SafeSend, PumpExitShutsDown
  <1> QED
    BY <1>1, <1>2, <1>3, <1>4, <1>5 DEF Next

(* IndInv holds in every reachable state. *)
THEOREM IndInvariant == Spec => []IndInv
  BY InitIndInv, NextIndInv, PTL DEF Spec

(* The goroutines stay inside their code and the channels inside their
   capacity, whatever the capacity is. *)
THEOREM TypeCorrect == Spec => []TypeOK
  <1>1. IndInv => TypeOK
    BY DEF IndInv
  <1> QED
    BY <1>1, IndInvariant, PTL

(* sendConnectionError and sendOperationErrors never send on a closed channel. *)
THEOREM SafeSendAlways == Spec => []SafeSend
  <1>1. IndInv => SafeSend
    BY DEF IndInv
  <1> QED
    BY <1>1, IndInvariant, PTL

(* The close handlers run at most once and no channel is closed twice by
   close(), for any number of goroutines that call it. *)
THEOREM ClosedOnce == Spec => []CloseOnce
  <1>1. IndInv => CloseOnce
    BY DEF IndInv, CloseOnce, TeardownInv
  <1> QED
    BY <1>1, IndInvariant, PTL

(* No subscription comes before an accepted connection_init. *)
THEOREM HandshakeFirst == Spec => []NoSubscriptionBeforeInit
  <1>1. IndInv => NoSubscriptionBeforeInit
    BY DEF IndInv, HandshakeInv, NoSubscriptionBeforeInit
  <1> QED
    BY <1>1, IndInvariant, PTL

(* A pump that has returned has signalled shutdown. *)
THEOREM PumpExit == Spec => []PumpExitShutsDown
  <1>1. IndInv => PumpExitShutsDown
    BY DEF IndInv
  <1> QED
    BY <1>1, IndInvariant, PTL

(* The channels and the websocket are closed under the lock, in state Closed. *)
THEOREM TeardownLocked == Spec => TeardownUnderLock
  <1> DEFINE A == <<outClosed, inClosed, wsOpen>>' # <<outClosed, inClosed, wsOpen>>
                    => /\ state = "closed" /\ state' = "closed"
                       /\ writer \in Threads /\ readers = {}
  <1>1. IndInv /\ [Next]_vars => [A]_vars
    <2> SUFFICES ASSUME IndInv, Next PROVE A
      BY DEF vars
    <2> USE DEF IndInv, LockInv
    <2>1. CASE ReadPump
      BY <2>1 DEF ReadPump, ReadPumpStart, ReadPumpLoop, ReadMessage, ReadCloseFrame,
         ReadGone, ReadError, ReadPanics, PushMessage, PushEOF, SendIncoming
    <2>2. CASE ProcessMessages
      BY <2>2 DEF ProcessMessages, RecvShutdown, RecvIncoming, RecvIncomingNil, RecvOutgoing,
         RecvOutgoingNil, PingFailed, WriteFrame, ConnectionInit, SetEstablished, SendAck,
         SendConnectionError, SendOperationErrors, SendErrorLocked, SendErrorUnlock,
         SendEOF, ConnectionTerminate, Start, GqlStart, SubscriptionStart, Stop, Unknown,
         Recover, RecoverEOF, SendIncoming, SendOutgoing
    <2>3. ASSUME NEW a \in Apps, App(a) PROVE A
      BY <2>3 DEF App, AppCall, AppCloseCheck, AppWriteControl, SendData, SendErrorCheck,
         SendError, SendOutgoing
    <2>4. ASSUME NEW t \in Threads, Close(t) \/ SendOnClosed(t) PROVE A
      BY <2>4 DEF Close, CloseAlreadyClosed, CloseBegin, CloseHandlers, CloseOutgoing,
         CloseIncoming, CloseWebsocket, SendOnClosed
    <2> QED
      BY <2>1, <2>2, <2>3, <2>4 DEF Next
  <1> QED
    BY <1>1, IndInvariant, PTL DEF Spec, TeardownUnderLock

(* A connection implements Lifecycle: torn down once and in order, with
   subscriptions on accepted connections only. *)
THEOREM Refinement == Spec => ImplementsLifecycle
  <1>1. Init => L!LInit
    BY DEF Init, L!LInit
  <1>2. IndInv /\ [Next]_vars => [L!LNext]_(L!lifecycleVars)
    <2> SUFFICES ASSUME IndInv, [Next]_vars
                 PROVE  L!LNext \/ UNCHANGED L!lifecycleVars
      OBVIOUS
    <2> DEFINE Same == UNCHANGED <<shutdown, notified, outClosed, inClosed, wsOpen,
                                   accepted, Subscriptions>>
    <2>0. Same => UNCHANGED L!lifecycleVars
      BY DEF L!lifecycleVars, L!teardown
    <2>1. ReadPump => Same
      BY DEF ReadPump, ReadPumpStart, ReadPumpLoop, ReadMessage, ReadCloseFrame,
         ReadGone, ReadError, ReadPanics, PushMessage, PushEOF, SendIncoming
    <2>2. CASE ProcessMessages
      <3>1. CASE ConnectionInit
        BY <3>1 DEF ConnectionInit, L!LNext, L!Accept, L!lifecycleVars, L!teardown
      <3>2. CASE GqlStart
        <4>1. accepted
          BY <3>2 DEF IndInv, HandshakeInv, GqlStart
        <4>2. msg[Proc] \in ClientMessages
          BY <3>2 DEF IndInv, ControlInv, GqlStart
        <4>3. msg[Proc].id \in IDs
          BY <4>2 DEF ClientMessages
        <4> QED
          BY <3>2, <4>1, <4>3 DEF GqlStart, L!LNext, L!Subscribe, L!lifecycleVars,
             L!teardown
      <3>3. ProcessMessages => Same \/ ConnectionInit \/ GqlStart
        BY DEF ProcessMessages, RecvShutdown, RecvIncoming, RecvIncomingNil,
           RecvOutgoing, RecvOutgoingNil, PingFailed, WriteFrame, SetEstablished, SendAck,
           SendConnectionError, SendOperationErrors, SendErrorLocked, SendErrorUnlock,
           SendEOF, ConnectionTerminate, Start, SubscriptionStart, Stop, Unknown,
           Recover, RecoverEOF, SendIncoming, SendOutgoing
      <3> QED
        BY <2>0, <2>2, <3>1, <3>2, <3>3
    <2>3. ASSUME NEW a \in Apps, App(a)
          PROVE  Same
      BY <2>3 DEF App, AppCall, AppCloseCheck, AppWriteControl, SendData, SendErrorCheck,
         SendError, SendOutgoing
    <2>4. ASSUME NEW t \in Threads, Close(t) \/ SendOnClosed(t)
          PROVE  L!LNext \/ UNCHANGED L!lifecycleVars
      <3>1. CASE CloseBegin(t)
        <4>1. CASE shutdown
          <5>1. Same
            BY <3>1, <4>1 DEF IndInv, TypeOK, ChannelType, CloseBegin
          <5> QED
            BY <2>0, <5>1
        <4>2. CASE ~shutdown
          BY <3>1, <4>2 DEF CloseBegin, L!LNext, L!TearDown, L!Signal
        <4> QED
          BY <4>1, <4>2
      <3>2. CASE CloseHandlers(t)
        BY <3>2 DEF IndInv, TeardownInv, CloseHandlers, L!LNext, L!TearDown, L!Notify
      <3>3. CASE CloseOutgoing(t)
        BY <3>3 DEF IndInv, TeardownInv, CloseOutgoing, L!LNext, L!TearDown, L!CloseOut
      <3>4. CASE CloseIncoming(t)
        BY <3>4 DEF IndInv, TeardownInv, CloseIncoming, L!LNext, L!TearDown, L!CloseIn
      <3>5. CASE CloseWebsocket(t)
        BY <3>5 DEF IndInv, TeardownInv, CloseWebsocket, L!LNext, L!TearDown, L!CloseWs
      <3>6. CloseAlreadyClosed(t) \/ SendOnClosed(t) => Same
        BY DEF CloseAlreadyClosed, SendOnClosed
      <3> QED
        BY <2>0, <2>4, <3>1, <3>2, <3>3, <3>4, <3>5, <3>6 DEF Close
    <2>5. UNCHANGED vars => Same
      BY DEF vars
    <2> QED
      BY <2>0, <2>1, <2>2, <2>3, <2>4, <2>5 DEF Next
  <1> QED
    BY <1>1, <1>2, IndInvariant, PTL DEF Spec, ImplementsLifecycle, L!LSpec
=============================================================================

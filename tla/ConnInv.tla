------------------------------ MODULE ConnInv ------------------------------
(***************************************************************************)
(* The inductive invariant of Conn: why its safety properties hold.        *)
(***************************************************************************)
EXTENDS Conn

(* The labels at which a goroutine is inside close() and holds stateMutex. *)
Holding == {"handlers", "closeOut", "closeIn", "closeWs"}

(* The labels at which processMessages holds stateMutex for reading. *)
RHolding == {"connErrSend", "opErrSend"}

(* A pump has a message in hand where it uses one; each call site of close()
   belongs to one kind of goroutine; a deferred close() is the last thing a
   pump does, but for recover(). *)
ControlInv ==
  /\ pc[Reader] = "push" => msg[Reader] \in Traffic
  /\ pc[Proc] \in {"process", "gqlStart"} => msg[Proc] \in Traffic
  /\ site[Reader] \in {"none", "closeHandler", "defer"}
  /\ site[Proc] \in {"none", "stop", "defer"}
  /\ \A a \in Apps : site[a] \in {"none", "Close"}
  /\ \A t \in Threads :
       site[t] = "defer" => pc[t] \in CloseLabels \cup {"recover", "recoverEOF", "done", Dead}

(* stateMutex: one writer or readers, and who they are. *)
LockInv ==
  /\ \A t \in Threads : pc[t] \in Holding => writer = t
  /\ writer # NoThread => /\ pc[writer] \in Holding \cup {Dead}
                          /\ readers = {}
                          /\ state = "closed"
  /\ pc[Proc] \in RHolding => readers = {Proc}

(* How far the teardown is, seen from the goroutine that runs it and from what
   it has left behind. *)
TeardownInv ==
  /\ ~shutdown => notified = 0 /\ state # "closed" /\ pc[Proc] \notin {"recover", "recoverEOF"}
  /\ notified = 0 => ~outClosed
  /\ ~outClosed => ~inClosed
  /\ ~inClosed => wsOpen
  /\ \A t \in Threads :
       /\ pc[t] = "handlers" => shutdown /\ notified = 0
       /\ pc[t] = "closeOut" => notified = 1 /\ ~outClosed
       /\ pc[t] = "closeIn"  => outClosed /\ ~inClosed
       /\ pc[t] = "closeWs"  => inClosed /\ wsOpen
  /\ writer = NoThread => (outClosed => inClosed)
  /\ notified <= 1

(* Until readPump has set the state, no message has reached processMessages. *)
StartInv ==
  pc[Reader] = "init" =>
    /\ incoming = << >>
    /\ pc[Proc] \in {"select", "lock", "recover", "done", Dead} \cup Holding
    /\ pc[Proc] = "recover" => state = "closed"

(* A setState that comes after close() can bring the state back from Closed,
   on closed channels.  processMessages has then no message to process and is
   on its way out. *)
Reopened == outClosed /\ writer = NoThread /\ state # "closed"

ReopenInv ==
  Reopened =>
    /\ pc[Proc] \in {"select", "ack", "lock", "recover", "recoverEOF", "done", Dead}
    /\ pc[Proc] = "select" => incoming = << >>

(* The handshake comes before everything that needs it. *)
HandshakeInv ==
  /\ state = "established" => accepted
  /\ pc[Proc] \in {"setState", "gqlStart"} => accepted
  /\ Subscriptions # {} => accepted

(* The inductive invariant. *)
IndInv ==
  /\ TypeOK /\ ControlInv /\ LockInv /\ TeardownInv
  /\ StartInv /\ ReopenInv /\ HandshakeInv
  /\ SafeSend /\ PumpExitShutsDown
=============================================================================

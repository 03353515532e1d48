-------------------------------- MODULE Redis --------------------------------
(***************************************************************************)
(* The redis subscription handler (redis/handler.go) and its readers       *)
(* (redis/reader.go), one goroutine per started subscription.              *)
(*                                                                         *)
(* The connection is seen through what it promises to its handlers: starts *)
(* and stops come from processMessages, one at a time; the close handlers  *)
(* run once, in any goroutine and also while a start is under way; then    *)
(* the outgoing channel is closed.  System checks that Conn keeps to it.   *)
(***************************************************************************)
EXTENDS Naturals

CONSTANTS
  Readers,     \* the subscriptionRedisReaders that may be started (a bound)
  IDs,         \* subscription ids
  NoReader,    \* no entry in the table
  Limit,       \* SUBSCRIBE errors in a row that are tolerated (3 in readLoop)
  Faults       \* what may fail: "dial", "subscribe", "receive", "control"

ASSUME RedisAssumption ==
  /\ NoReader \notin Readers
  /\ Limit \in Nat
  /\ Faults \subseteq {"dial", "subscribe", "receive", "control"}

VARIABLES
  conn,       \* the connection: open, closing (the close handlers run), closed
  starting,   \* the id of the start that processMessages is serving, or None
  table,      \* redisSubscriptionHandler.subscriptions
  rpc,        \* where each reader goroutine is
  rstate,     \* subscriptionRedisReader._state
  pubSub,     \* the field pubSubConn: nil, the current connection, an old one
  open,       \* the connection that readLoop has dialled is open
  errors,     \* subscriptionErrors; all values above Limit are one
  cpc,        \* where each caller of reader.close() is
  target,     \* the reader it closes
  todo,       \* the ids that HandleWebsocketClose has still to visit
  crashed     \* a reader goroutine has panicked, and the process has ended

env    == <<conn, starting>>
reader == <<rpc, rstate, pubSub, open, errors>>
caller == <<cpc, target, todo>>
vars   == <<env, table, reader, caller, crashed>>

None    == "none"
Proc    == "processMessages"     \* calls HandleSubscriptionStop
Closer  == "closer"              \* the goroutine in Conn.close(): HandleWebsocketClose
Callers == {Proc, Closer}

ReaderLabels == {"none", "new", "outer", "dial", "subscribe", "publish", "inner", "load",
                 "receive", "deliver", "giveUp", "closing", "leave", "done"}
CallerLabels == {"idle", "call", "range", "check", "set", "load", "close", "nil", "panicked"}

Init ==
  /\ conn = "open" /\ starting = None
  /\ table = [id \in IDs |-> NoReader]
  /\ rpc = [r \in Readers |-> "none"] /\ rstate = [r \in Readers |-> "unknown"]
  /\ pubSub = [r \in Readers |-> "nil"] /\ open = [r \in Readers |-> FALSE]
  /\ errors = [r \in Readers |-> 0]
  /\ cpc = [c \in Callers |-> "idle"] /\ target = [c \in Callers |-> NoReader]
  /\ todo = {} /\ crashed = FALSE

GoTo(r, label)     == rpc' = [rpc EXCEPT ![r] = label]
CallerAt(c, label) == cpc' = [cpc EXCEPT ![c] = label]

(***************************************************************************)
(* The handler, called by the connection.                                  *)
(***************************************************************************)
(* processMessages serves a start whose query is valid. *)
StartMessage(id) ==
  /\ starting = None /\ cpc[Proc] = "idle"
  /\ starting' = id
  /\ UNCHANGED <<conn, table, reader, caller, crashed>>

(* HandleSubscriptionStart stores a new reader and starts its goroutine; an
   entry with the same id is replaced. *)
HandleSubscriptionStart ==
  /\ starting \in IDs /\ starting' = None
  /\ \E r \in Readers :
       /\ rpc[r] = "none"
       /\ GoTo(r, "new")
       /\ table' = [table EXCEPT ![starting] = r]
  /\ UNCHANGED <<conn, rstate, pubSub, open, errors, caller, crashed>>

(* It returns before: a field is not found or cannot be subscribed to. *)
StartFails ==
  /\ starting \in IDs /\ starting' = None
  /\ UNCHANGED <<conn, table, reader, caller, crashed>>

(* Variant: a missing entry is not noticed. *)
HandleSubscriptionStopUnchecked(id) ==
  /\ starting = None /\ cpc[Proc] = "idle"
  /\ target' = [target EXCEPT ![Proc] = table[id]]
  /\ CallerAt(Proc, "check")
  /\ UNCHANGED <<env, table, reader, todo, crashed>>

(* HandleSubscriptionStop loads the reader and calls its close(); the entry
   stays in the table. *)
HandleSubscriptionStop(id) ==
  /\ starting = None /\ cpc[Proc] = "idle"
  /\ table[id] # NoReader
  /\ target' = [target EXCEPT ![Proc] = table[id]]
  /\ CallerAt(Proc, "check")
  /\ UNCHANGED <<env, table, reader, todo, crashed>>

(* Conn.close() has begun and will call HandleWebsocketClose. *)
BeginClose ==
  /\ conn = "open" /\ conn' = "closing"
  /\ CallerAt(Closer, "call")
  /\ UNCHANGED <<starting, table, rstate, pubSub, open, errors, target, todo, crashed>>

ConnCloses == BeginClose /\ UNCHANGED rpc

(* HandleWebsocketClose: subscriptions.Range takes the keys at its first step
   and loads each value when its turn comes. *)
HandleWebsocketClose ==
  /\ cpc[Closer] = "call"
  /\ CallerAt(Closer, "range")
  /\ todo' = {id \in IDs : table[id] # NoReader}
  /\ UNCHANGED <<env, table, reader, target, crashed>>

RangeNext ==
  /\ cpc[Closer] = "range"
  /\ \E id \in todo :
       /\ todo' = todo \ {id}
       /\ target' = [target EXCEPT ![Closer] = table[id]]
  /\ CallerAt(Closer, "check")
  /\ UNCHANGED <<env, table, reader, crashed>>

RangeDone ==
  /\ cpc[Closer] = "range" /\ todo = {}
  /\ CallerAt(Closer, "idle")
  /\ UNCHANGED <<env, table, reader, target, todo, crashed>>

(* The handlers have returned and Conn.close() closes the outgoing channel. *)
ConnClosed ==
  /\ conn = "closing" /\ cpc[Closer] = "idle"
  /\ conn' = "closed"
  /\ UNCHANGED <<starting, table, reader, caller, crashed>>

(* A panic of HandleWebsocketClose ends the process, unless close() was called
   by processMessages, which recovers. *)
CloserCrashes ==
  /\ cpc[Closer] = "panicked"
  /\ crashed' = TRUE
  /\ UNCHANGED <<env, table, reader, caller>>

Handler ==
  \/ \E id \in IDs : StartMessage(id) \/ HandleSubscriptionStop(id)
  \/ HandleSubscriptionStart \/ StartFails
  \/ ConnCloses \/ HandleWebsocketClose \/ RangeNext \/ RangeDone
  \/ ConnClosed \/ CloserCrashes

(***************************************************************************)
(* subscriptionRedisReader.close().                                        *)
(***************************************************************************)
(* A caller comes back from close(); Closer goes on with the next reader. *)
CallerReturns(c) == CallerAt(c, IF c = Closer THEN "range" ELSE "idle")

CloseCheck(c) ==
  /\ cpc[c] = "check"
  /\ IF rstate[target[c]] = "closed" THEN CallerReturns(c) ELSE CallerAt(c, "set")
  /\ UNCHANGED <<env, table, reader, target, todo, crashed>>

CloseSetState(c) ==
  /\ cpc[c] = "set"
  /\ rstate' = [rstate EXCEPT ![target[c]] = "closed"]
  /\ CallerAt(c, "load")
  /\ UNCHANGED <<env, table, rpc, pubSub, open, errors, target, todo, crashed>>

CloseLoad(c) ==
  /\ cpc[c] = "load"
  /\ IF pubSub[target[c]] = "nil" THEN CallerReturns(c) ELSE CallerAt(c, "close")
  /\ UNCHANGED <<env, table, reader, target, todo, crashed>>

(* Variant: close() forgets the connection the reader is blocked on. *)
ClosePubSubSkipped(c) ==
  /\ cpc[c] = "close"
  /\ CallerAt(c, "nil")
  /\ UNCHANGED <<env, table, reader, target, todo, crashed>>

(* The field is loaded again; nil is dereferenced. *)
ClosePubSub(c) ==
  LET r == target[c] IN
  /\ cpc[c] = "close"
  /\ CallerAt(c, IF pubSub[r] = "nil" THEN "panicked" ELSE "nil")
  /\ open' = [open EXCEPT ![r] = @ /\ pubSub[r] # "current"]
  /\ UNCHANGED <<env, table, rpc, rstate, pubSub, errors, target, todo, crashed>>

(* Variant: close() waits for the reader's goroutine. *)
CloseJoins(c) ==
  /\ cpc[c] = "nil"
  /\ rpc[target[c]] = "done"
  /\ pubSub' = [pubSub EXCEPT ![target[c]] = "nil"]
  /\ CallerReturns(c)
  /\ UNCHANGED <<env, table, rpc, rstate, open, errors, target, todo, crashed>>

CloseNil(c) ==
  /\ cpc[c] = "nil"
  /\ pubSub' = [pubSub EXCEPT ![target[c]] = "nil"]
  /\ CallerReturns(c)
  /\ UNCHANGED <<env, table, rpc, rstate, open, errors, target, todo, crashed>>

CloseReader(c) ==
  CloseCheck(c) \/ CloseSetState(c) \/ CloseLoad(c) \/ ClosePubSub(c) \/ CloseNil(c)

(***************************************************************************)
(* The goroutine of a reader: readPump, readLoop, readIteration.           *)
(***************************************************************************)
ReaderCrash == crashed' = TRUE /\ UNCHANGED rpc

SetRunning(r) ==
  /\ rpc[r] = "new"
  /\ rstate' = [rstate EXCEPT ![r] = "running"]
  /\ GoTo(r, "outer")
  /\ UNCHANGED <<env, table, pubSub, open, errors, caller, crashed>>

(* Variant: readPump does not look at the state. *)
CheckStateForever(r) ==
  /\ \/ rpc[r] = "outer" /\ GoTo(r, "dial")
     \/ rpc[r] = "inner" /\ GoTo(r, IF rstate[r] = "closed" THEN "leave" ELSE "load")
  /\ UNCHANGED <<env, table, rstate, pubSub, open, errors, caller, crashed>>

(* The conditions of the loops of readPump and of readLoop. *)
CheckState(r) ==
  /\ \/ rpc[r] = "outer" /\ GoTo(r, IF rstate[r] = "closed" THEN "done" ELSE "dial")
     \/ rpc[r] = "inner" /\ GoTo(r, IF rstate[r] = "closed" THEN "leave" ELSE "load")
  /\ UNCHANGED <<env, table, rstate, pubSub, open, errors, caller, crashed>>

(* A connection whose Err() is set counts as a failed Dial: readLoop returns before
   its deferred Close, and redigo has closed such a connection itself. *)
Dial(r) ==
  /\ rpc[r] = "dial"
  /\ \/ open' = [open EXCEPT ![r] = TRUE] /\ GoTo(r, "subscribe")
     \/ "dial" \in Faults /\ GoTo(r, "outer") /\ UNCHANGED open
  /\ UNCHANGED <<env, table, rstate, pubSub, errors, caller, crashed>>

(* SUBSCRIBE is written; the counter is reset by a success. *)
Subscribe(r) ==
  /\ rpc[r] = "subscribe"
  /\ \/ errors' = [errors EXCEPT ![r] = 0] /\ GoTo(r, "publish")
     \/ /\ "subscribe" \in Faults
        /\ errors' = [errors EXCEPT ![r] = IF @ > Limit THEN @ ELSE @ + 1]
        /\ GoTo(r, IF errors[r] >= Limit THEN "giveUp" ELSE "leave")
  /\ UNCHANGED <<env, table, rstate, pubSub, open, caller, crashed>>

(* The field is set for close() to find. *)
Publish(r) ==
  /\ rpc[r] = "publish"
  /\ pubSub' = [pubSub EXCEPT ![r] = "current"]
  /\ GoTo(r, "inner")
  /\ UNCHANGED <<env, table, rstate, open, errors, caller, crashed>>

(* reader.pubSubConn.Receive() loads the field without a lock. *)
LoadPubSub(r) ==
  /\ rpc[r] = "load"
  /\ IF pubSub[r] = "nil" THEN ReaderCrash ELSE GoTo(r, "receive") /\ UNCHANGED crashed
  /\ UNCHANGED <<env, table, rstate, pubSub, open, errors, caller>>

(* A message is executed and its result encoded.  Nothing is sent, and the loop
   goes on, if it cannot be encoded or what came is no message: a confirmation,
   a pong. *)
Receive(r) ==
  /\ rpc[r] = "receive"
  /\ \/ open[r] /\ GoTo(r, "deliver")
     \/ open[r] /\ GoTo(r, "inner")
     \/ (~open[r] \/ "receive" \in Faults) /\ GoTo(r, "leave")
  /\ UNCHANGED <<env, table, rstate, pubSub, open, errors, caller, crashed>>

(* Subscription.SendData puts the encoded result into the outgoing channel. *)
Deliver(r) ==
  /\ rpc[r] = "deliver"
  /\ \/ conn # "closed" /\ GoTo(r, "inner") /\ UNCHANGED crashed
     \/ conn = "closed" /\ ReaderCrash
  /\ UNCHANGED <<env, table, rstate, pubSub, open, errors, caller>>

(* The reader calls Conn.Close() and drops its error: the close frame cannot be
   written, or another goroutine has closed the connection.  It panics when the
   other one has, and a late connection_init has set Established again. *)
GiveUp(r) ==
  /\ rpc[r] = "giveUp"
  /\ \/ BeginClose /\ GoTo(r, "closing")
     \/ /\ conn = "closed" \/ cpc[Closer] = "panicked" \/ "control" \in Faults
        /\ GoTo(r, "leave")
        /\ UNCHANGED <<env, table, rstate, pubSub, open, errors, caller, crashed>>
     \/ /\ conn = "closed" \/ cpc[Closer] = "panicked"
        /\ ReaderCrash
        /\ UNCHANGED <<env, table, rstate, pubSub, open, errors, caller>>

(* Conn.close() returns to the reader, or a panic of HandleWebsocketClose
   unwinds it. *)
GaveUp(r) ==
  /\ rpc[r] = "closing"
  /\ \/ conn = "closed" /\ GoTo(r, "leave") /\ UNCHANGED crashed
     \/ cpc[Closer] = "panicked" /\ ReaderCrash
  /\ UNCHANGED <<env, table, rstate, pubSub, open, errors, caller>>

(* Variant: readLoop returns without its deferred Close. *)
LeaveLoopNoDefer(r) ==
  /\ rpc[r] = "leave"
  /\ GoTo(r, "outer")
  /\ UNCHANGED <<env, table, rstate, pubSub, open, errors, caller, crashed>>

(* readLoop returns and closes its connection. *)
LeaveLoop(r) ==
  /\ rpc[r] = "leave"
  /\ open' = [open EXCEPT ![r] = FALSE]
  /\ pubSub' = [pubSub EXCEPT ![r] = IF @ = "current" THEN "old" ELSE @]
  /\ GoTo(r, "outer")
  /\ UNCHANGED <<env, table, rstate, errors, caller, crashed>>

ReadPump(r) ==
  \/ SetRunning(r) \/ CheckState(r) \/ Dial(r) \/ Subscribe(r) \/ Publish(r)
  \/ LoadPubSub(r) \/ Receive(r) \/ Deliver(r) \/ GiveUp(r) \/ GaveUp(r) \/ LeaveLoop(r)

Next ==
  /\ ~crashed
  /\ \/ Handler
     \/ \E c \in Callers : CloseReader(c)
     \/ \E r \in Readers : ReadPump(r)

Spec == Init /\ [][Next]_vars

(***************************************************************************)
(* Fairness: Go runs every goroutine that can run.  Nothing is promised of *)
(* redis: a Receive need not return while its connection is open, and a    *)
(* Dial or SUBSCRIBE returns, one way or the other.  Nothing is promised   *)
(* of a SendData whose channel may be full either, until close() closes    *)
(* the channel, nor of a Conn.Close(), which may wait for stateMutex for   *)
(* ever, until somebody else has closed the connection.  Whoever is inside *)
(* Conn.close() has the lock and runs.                                     *)
(***************************************************************************)
ReaderRuns(r) ==
  /\ ~crashed
  /\ rpc[r] = "receive" => ~open[r]
  /\ rpc[r] \in {"deliver", "giveUp"} => conn = "closed"
  /\ ReadPump(r)

CallerRuns(c) == ~crashed /\ CloseReader(c)

CloserRuns ==
  ~crashed /\ (HandleWebsocketClose \/ RangeNext \/ RangeDone \/ ConnClosed)

Fairness ==
  /\ \A r \in Readers : WF_vars(ReaderRuns(r))
  /\ \A c \in Callers : WF_vars(CallerRuns(c))
  /\ WF_vars(CloserRuns)

FairSpec == Spec /\ Fairness

(***************************************************************************)
(* Properties.                                                             *)
(***************************************************************************)
(* The type invariant; a caller of close() always has a reader in hand. *)
TypeOK ==
  /\ conn \in {"open", "closing", "closed"} /\ starting \in IDs \cup {None}
  /\ table \in [IDs -> Readers \cup {NoReader}]
  /\ rpc \in [Readers -> ReaderLabels]
  /\ rstate \in [Readers -> {"unknown", "running", "closed"}]
  /\ pubSub \in [Readers -> {"nil", "current", "old"}]
  /\ open \in [Readers -> BOOLEAN] /\ errors \in [Readers -> 0 .. Limit + 1]
  /\ cpc \in [Callers -> CallerLabels] /\ target \in [Callers -> Readers \cup {NoReader}]
  /\ \A c \in Callers : cpc[c] \in {"check", "set", "load", "close", "nil"} => target[c] \in Readers
  /\ todo \subseteq IDs /\ crashed \in BOOLEAN

(* No lost wake-up: a reader closed between the state check of its loop and
   Receive blocks on a connection that the goroutine in close() is still going to
   close, as long as the field pubSubConn refers to it. *)
ClosedReaderIsWoken ==
  \A r \in Readers :
    rstate[r] = "closed" /\ rpc[r] = "receive" /\ open[r] /\ pubSub[r] = "current"
      => \E c \in Callers : target[c] = r /\ cpc[c] \in {"load", "close"}

(* Retries leak no redis connection: however readLoop ends, its connection is
   closed before the next Dial, and once the reader has ended none is open. *)
OneConnection ==
  \A r \in Readers : rpc[r] \in {"none", "new", "outer", "dial", "done"} => ~open[r]

(* The reader blocks on a connection that the field does not refer to. *)
Stranded(r) == rpc[r] = "receive" /\ open[r] /\ pubSub[r] = "nil"

(* A reader closed after its goroutine began ends, also when it was blocked in
   Receive or is retrying, unless it is stranded, or waits in SendData or in
   Conn.Close() for the connection, or the process has ended. *)
ClosedReaderEnds ==
  \A r \in Readers :
    rstate[r] = "closed" /\ rpc[r] \notin {"none", "new"}
      ~> rpc[r] \in {"done", "deliver", "giveUp"} \/ Stranded(r) \/ crashed

Stored(r) == \E id \in IDs : table[id] = r

(* A reader that gives up and gets to close the connection ends with it: the
   handler that Conn.close() calls in its goroutine closes this same reader
   without waiting for it, and readPump does not retry on the closed connection.
   Only a reader replaced in the table by a start with its id is not found. *)
GaveUpReaderEnds ==
  \A r \in Readers : rpc[r] = "closing" ~> rpc[r] = "done" \/ ~Stored(r) \/ crashed

(***************************************************************************)
(* Claims of the comments that the code does not keep.                     *)
(***************************************************************************)
(* handler.go:93, "HandleWebsocketClose captures when the websocket is closed.
   Hence, closing the subscriptionRedisReader as well": once it has returned, a
   reader that was stored ends. *)
CloseStopsReaders ==
  \A r \in Readers : conn = "closed" /\ rpc[r] # "none" ~> rpc[r] \in {"done", "deliver"} \/ crashed

(* handler.go:81, "HandleSubscriptionStop stops the subscriptionRedisReader": the
   stop of a reader that is blocked in Receive wakes it. *)
StopWakesReader ==
  \A r \in Readers : ~(Stranded(r) /\ rstate[r] = "closed")

(* handler.go:81, "HandleSubscriptionStop stops the subscriptionRedisReader using
   the subscription id stored in the handler": every reader that runs can be
   found under an id. *)
RunningReadersAreStored ==
  \A r \in Readers : rpc[r] \notin {"none", "done"} => Stored(r)

(* reader.go:94, "If we get more than 3 subscriptionErrors in a row, we close the
   connection": a reader that gives up closes it, or finds it closed. *)
GiveUpCloses ==
  \A r \in Readers : rpc[r] = "giveUp" ~> conn # "open" \/ crashed

(* handlers.go:14, a SystemRecoverHandler "will be called when any panic happens
   while interacting with the client": no goroutine without a recover panics. *)
NoReaderCrash == ~crashed
=============================================================================

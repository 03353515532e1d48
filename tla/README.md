# Verification of go-graphqlws

TLA+ modules, TLC configurations and TLAPS proofs for `go-graphqlws`, a Go
library that serves GraphQL subscriptions over the `graphql-ws` websocket
subprotocol. All line numbers are those of `src/`; `PROJECT.json` maps each
definition to the lines it models.

## 1. The system

| Component | State | Operations | Interacts with |
|---|---|---|---|
| Connection (`connection.go`) | `_state` under `stateMutex`, channels `incomingMessages` and `outgoingMessages` (10 each), `shutdown`, the gorilla socket, `Subscriptions`, `Handlers` under `handlersMutex` | goroutines `readPump` and `processMessages`; `close`, `recover`; exported `Close`, `SendData`, `SendError`, `AddHandler`, `RemoveHandler` | the peer through gorilla; handlers as callbacks, in either goroutine; the application's goroutines |
| Handlers (`handlers.go`, `errors.go`) | the list `Conn.Handlers` | one optional interface per event; `HandlerError` stops the propagation or prevents the default | called by the connection, may call it back |
| Keep-alive (`connection.go`, `config.go`) | ping ticker, read and write deadlines | ping from `processMessages`, `pongHandler` from `readPump` | socket, pong handlers |
| Subscription (`subscription.go`, `ast.go`) | id, query, document, field names | `ValidateSubscription`, `SendData`, `MatchesField`, `SubscriptionFieldNamesFromDocument` | `gqlStart`, the redis reader |
| Subscriber (`subscriber.go`) | list of topics | `Subscribe`, `SubscriberSubscribe` | the `Subscribe` functions of schema fields |
| Redis reader (`redis/reader.go`) | `_state` under a mutex, `pubSubConn`, `subscriptionErrors` | goroutine `readPump` with `readLoop` and `readIteration`; `close` | redis; `Conn.SendData`, `Conn.Close` |
| Redis handler (`redis/handler.go`) | table of readers by subscription id | start, stop and websocket-close callbacks | starts and closes readers |
| HTTP handler, upgrader (`http_handler.go`, `upgrader.go`) | configuration | upgrades a request, checks the subprotocol, calls `NewConn` | hands the `Conn` to the application, which then adds handlers |

What is hard here:

- **Teardown.** `close()` is called from five places by three kinds of
  goroutines. It signals shutdown, calls the handlers, sleeps 10 ms in the hope
  that everybody has noticed, and closes both channels and the socket. Any
  sender that has not noticed panics.
- **A state that is overwritten.** `setState` ignores the old state, so a
  closed connection may become Initializing or Established again.
- **A goroutine that sends to itself.** `processMessages` is the only receiver
  of both channels and sends to both, partly with the read lock held.
- **Random choice.** `select` picks any ready branch, so an EOF overtakes what
  was queued before it and closed channels yield `nil`.
- **Panics.** Only `processMessages` recovers. Its deferred calls run `close()`
  before `recover()`.

What makes each part correct: the teardown happens once, in order, and ends
both goroutines; no send meets a closed channel; nobody waits for ever; the
handshake comes before subscriptions; every answer reaches the client; every
reader of a subscription is closed with it; names and topics are collected
without loss or repetition. `PROJECT.json` lists the hazards line by line.

## 2. Modules

| Module | Contents |
|---|---|
| `Conn` | one connection: both pumps, the application's calls, `close()`, panics; its properties; fairness |
| `Lifecycle` | abstract specification: what a connection promises about teardown and handshake |
| `ConnInv` | the inductive invariant of `Conn` |
| `ConnClaims` | what comments of the repository say of a connection and TLC refutes |
| `ConnProofs` | theorems and proofs about `Conn` |
| `Redis` | the redis handler and its readers against a connection known by its promises |
| `System` | `Conn` composed with `Redis`: the readers are its application, the redis handler is its handler |
| `Handlers` | the http handler up to `NewConn`, the list of handlers, the dispatch loops |
| `Fields` | from the document of a start to field names, topics and the reader |
| `KeepAlive` | ping ticker, pongs and read deadline in discrete time |
| `RedisProofs`, `HandlersProofs`, `FieldsProofs`, `KeepAliveProofs` | theorems and proofs about these modules, each with its inductive invariant |
| `SystemProofs` | the proof that `System` implements `Redis` |
| `MC...` | traffic, roles, schema and symmetry for the TLC runs |

### `Conn` and the code

`pc[t]` names the shared access that goroutine `t` makes next; a step is one
such access (channel operation, critical section of `stateMutex`, socket call,
round of handlers) with the local computation around it.

| Variables | Code |
|---|---|
| `state`, `writer`, `readers` | `Conn._state` and the holders of `stateMutex` over several steps |
| `shutdown`, `incoming`/`inClosed`, `outgoing`/`outClosed` | the channels: contents, and whether they are closed |
| `wsOpen`, `wsWritable` | `conn.Close()` not yet called; gorilla's sticky write error not set |
| `site`, `panicking` | where the current call of `close()` returns to; whether the stack is being unwound |
| `msg` | the message a pump has in hand |
| `Subscriptions` | the keys of `Conn.Subscriptions` |
| `accepted`, `notified`, `written` | history, for the properties only: a `connection_init` passed its handlers; how often the close handlers were called; watched kinds of frames that were written |

Modelling decisions:

- A critical section with no blocking operation is one step guarded by
  `CanLock` or `CanRLock`. `close()` (write lock) and the two `send...Error`
  functions (read lock) hold the lock over several steps.
- A send on a closed channel panics, also in a goroutine that was blocked
  (`SendOnClosed`); a receive from a closed, drained channel yields nil, which
  `processIncomeMessage` dereferences (`RecvIncomingNil`) and
  `processOutgoingMessage` writes as `null` (`RecvOutgoingNil`); closing
  `shutdown` again panics (`CloseBegin`).
- A panic in a pump runs its deferred `close()`. Then `processMessages`
  recovers and `readPump` ends the process (every `pc` becomes `dead`), as does
  a panic in an application goroutine, in `HandlePanic`, or in the last send of
  `recover()`.
- Each round of handlers has one outcome. For `connection_init`: `ok`, a
  `HandlerError` without flags (`fatal`), another `error`, a `panic`. For the
  close handlers: `ok`, `error`, `panic`. For all others the code drops or logs
  the errors, so `ok` or `panic`.
- gorilla: a failed write and a close frame that was sent make later writes
  fail; the close handler's `nil` makes `ReadJSON` return a `CloseError`, an
  error of it is returned as it is. That error may come from a close handler or
  from `conn.Close()` (`CloseWebsocket`), after which `readPump` sends its EOF on
  the closed channel. The JSON `null` sets the pointer given to
  `ReadJSON` to nil, which the logging of line 484 dereferences (`ReadPanics`).
- A `start` payload is `ok`, `invalid` (refused by `ValidateSubscription`, the
  parser or the validator: logged only), or does not unmarshal; a `stop`
  payload is `ok`, does not unmarshal (panic), or is `empty` (`close()`).
- The pause of 10 ms in `close()` is no guarantee and is not modelled: every
  interleaving that it makes unlikely remains possible.

### `Redis` and the code

`rpc[r]` names the next shared access of reader `r`'s goroutine, `cpc[c]` that of
a goroutine `c` inside `subscriptionRedisReader.close()`: `processMessages` (a
stop) or the one that runs `Conn.close()`. The state, the field `pubSubConn` and
the redis connection are accessed in steps of their own, since the code guards
only the state by a mutex and each access of it separately.

| Variables | Code |
|---|---|
| `table` | `redisSubscriptionHandler.subscriptions` (a `sync.Map`) |
| `rstate`, `errors` | `_state`, `subscriptionErrors` of a reader |
| `pubSub`, `open` | the field `pubSubConn` (nil, the connection of the current `readLoop`, an older one); whether the current connection is open |
| `todo`, `target` | the ids `Range` has still to visit; the reader a caller of `close()` has in hand |
| `conn`, `starting` | what the handler sees of its connection: open, running the close handlers, outgoing channel closed; the start being served |
| `crashed` | a goroutine without `recover` has panicked |

- `close()` is five accesses: state check, state write, the load of the field,
  the close and the write of nil, each of which another caller or the reader may
  come between. The field is loaded once for the nil check and once for the call.
- redis is the environment: `Dial` and `SUBSCRIBE` may fail (`Faults`), `Receive`
  may return a message, a confirmation or an error, or block as long as its
  connection is open. A message whose result `json.Marshal` refuses is not sent and
  counts as a confirmation. A connection whose `Err()` is set counts as a failed
  `Dial`: `readLoop` returns before it has deferred `Close` (lines 75-78), which
  leaks nothing because redigo has closed such a connection itself.
- `Limit` is the 3 of `readLoop`; larger counts are one value.
- `Conn.Close()` called by a reader that gives up either begins the teardown or
  returns (the close frame failed, somebody else closed); it panics on a
  connection that was reopened after its teardown (see `Conn`).

### `System`

`System` extends `Conn` and instantiates `Redis` with the readers as `Conn`'s
application goroutines. `Redis`'s `conn` is *defined* from `shutdown` and
`outClosed`, so nothing is assumed of the connection; the property
`ImplementsRedis` says that the composition is a behaviour of `Redis`. This
discharges what `Redis` takes for granted: starts and stops come one at a time,
the close handlers run at most once, the channel is closed after they returned.
`HandleSubscriptionStop` and `HandleWebsocketClose` are several steps inside one
step of `Conn` (`gqlStop`, the round of close handlers); the rest of the system
goes on meanwhile. `ReaderFollows` brings a reader back from `SendData` or
`Close` when its goroutine returns in `Conn`.

### `Handlers`

`array` and `len` are the slice `Conn.Handlers`, whose array `NewConn` allocates
with room for three. `AddHandler` loads the length and stores in two steps under
`handlersMutex`; `RemoveHandler` stores the tail of the list as one value
(`Junk`). A dispatch fixes the length when it begins (`range` evaluates the slice
once) and reads one entry per step, without the mutex except for
`connection_init`. `Verdict` has the rules of all loops: which results end one
and with which outcome. The events belong to the goroutines that dispatch them: the
two pumps, and for the close handlers also a goroutine of the application in
`Close` (`Caller`). `calls` is history, kept for the events in `Recorded` only.

### `Fields` and `KeepAlive`

`Fields` takes a document as a sequence of definitions with an operation and a
sequence of selections. `gqlStart` refuses a subscription without id or query and
one whose query the parser or the validator refuses (`sub.valid`, a choice of the
environment). The functions of `ast.go` are operators; a selection that
is no field leaves an empty name, as in the code. `MatchesSelected` counts the
fields selected directly, not those behind a fragment; `EverySubscribableStarts`
shows what becomes of a fragment. The loop of
`HandleSubscriptionStart` over the names is stepwise: a name without a `Subscribe`
ends it (`FieldNotFound`), each topic that a field's `Subscribe` asks for is a step
(`SubscriberSubscribe`), and `FieldSubscribed` goes on to the next name. `KeepAlive` counts ticks: the ticker at
nine tenths of `PongWait` in integer arithmetic, the deadline that `pongHandler`
sets, a client that answers within `Lag` ticks until it falls silent. Nothing sets
a deadline before the first pong.

Definitions commented as *variant* are the code with a plausible mistake in one
place. They are used in no specification; substituted for the definition that
follows them they break the property `PROJECT.json` names, which shows that the
property depends on the code being as it is.

## 3. Runs

| Run | Checks | Shows |
|---|---|---|
| `conn` | `TypeOK`, `IndInv`, `SafeSend`, `CloseOnce`, `NoSubscriptionBeforeInit`, `PumpExitShutsDown`, `TeardownUnderLock`, `ImplementsLifecycle` | safety in every interleaving with an application goroutine (1.6 million states) |
| `conn_live` | `ShutdownEndsPumps` | a connection that begins to close ends both goroutines (110,000 states) |
| `redis` | `TypeOK`, `ClosedReaderIsWoken`, `OneConnection` | two readers, two ids, all faults: no wake-up is lost while the field names the connection, retries leak no connection (2.5 million states) |
| `redis_live` | `ClosedReaderEnds`, `GaveUpReaderEnds` | a closed reader ends; so does one that gives up and gets to close the connection, without waiting for itself (9,000 states) |
| `system` | `ImplementsRedis`, `TeardownEnds` | `Conn` keeps what `Redis` assumes; `close()` waits for no other goroutine (360,000 states) |
| `handlers` | `TypeOK`, `NoHandlerLost`, `InitAsksEveryHandler` | concurrent additions lose nothing, and the mutex makes `connection_init` ask exactly the handlers of the list, each once (160,000 states) |
| `fields` | `MatchesSelected`, `TopicsAreExact` | names and topics against their reference definitions, for all documents of the bounds (147,000 states) |
| `keepalive` | `ResponsiveClientStays`, `SilentClientEnds` | the margin of a tenth suffices, and a silent client is noticed |
| `conn_panic` | `NoUnrecoveredPanic` | **violated**: `readPump` sends on the closed `incomingMessages` and the process ends |
| `conn_close` | `CloseFinishes` | **violated**: `Close` waits for a lock that is never released |
| `redis_close` | `CloseStopsReaders` | **violated**: a reader closed before its goroutine has run sets Running again, and one stored after `Range` has passed is never closed |
| `handlers_remove` | `ListIsRegistered` | **violated**: `RemoveHandler` drops the handlers behind the removed one |

The violated properties are statements of the repository's own comments, quoted
under `findings`. To run one: `tlc -config MCConn.cfg MCConn`.

Further comments that the code does not keep are stated beside the properties;
each has a configuration that shows its trace.

| Claim | Configuration | What happens |
|---|---|---|
| `NoUnrecoveredPanic` | `MCConnSend` | a `SendError` of the application sends on the channel that was closed after its state check |
| `ClosedIsFinal` | `MCConnReopen` | `setState` overwrites Closed |
| `NoNullFrame` | `MCConnNull` | the nil of the closed channel is written to the client |
| `InitAnswered` | `MCConnInit` | the EOF overtakes the `connection_error` |
| `ReinitializationForbidden` | `MCConnReinit` | a second `connection_init` is accepted |
| `TerminateTerminates` | `MCConnTerminate` | `processMessages` waits for room in the channel only it drains |
| `StopWakesReader` | `MCRedisStop` | a late nil of `close()` hides the reader's connection from the next stop |
| `RunningReadersAreStored` | `MCRedisReplaced` | a start with an id in use loses the first reader |
| `NoReaderCrash` | `MCRedisCrash` | a reader dereferences the nil field, or sends on the closed channel |
| `GiveUpCloses` | `MCRedisGiveUp` | the close frame of `Conn.Close` cannot be written, and the connection stays open |
| `NoReaderLeftBehind` | `MCSystemLate` | a start served while the close handlers run stores its reader after `Range` |
| `InitSeesAllHandlers` | `MCHandlersLate` | a `connection_init` is accepted before the handlers are added |
| `StartErrorsRefuse` | `MCHandlersStart` | errors of the `ConnectionStartHandler`s are dropped |
| `StopPropagationStops` | `MCHandlersStop` | `gqlStop` ignores what its handlers return |
| `EverySubscribableStarts` | `MCFieldsFragment` | a fragment at the top of a subscription gets no reader |
| `PingsWhenQuiet` | `KeepAliveQuiet` | the ticker does not look at the traffic |

**Bounds.** `Conn`: `Cap = 1` instead of 10 makes a full channel frequent, and
full or not full is all that the capacity decides; the refuted claims use `Cap = 2`
where the trace needs two messages in a channel, and TLAPS proves the safety
properties for every capacity. One application goroutine can call every method in
any order and is enough to race with both pumps; `conn_close` uses two, since one
must keep the outgoing channel full while the other closes. One operation id
suffices because no action compares ids. The client may send any message of the
traffic at any time and for ever: nothing bounds the length of a behaviour.
`Watched` limits the history `written` to the frames a property asks for.

`Redis`: `Readers` bounds the starts of a connection. Two readers and two ids give
a table in which `Range` has several entries, a replaced reader, and a stop of one
reader beside the close of both; readers touch no state of each other. `Limit = 0`
(1 in `redis_live`, so that the counter is also reset) reaches the limit with few
retries. `redis_live` has one reader, since its properties speak of one, and every
fault; its reader is never replaced in the table, which is the case that
`GaveUpReaderEnds` excepts and `MCRedisReplaced` shows.
`System` has one reader and one id: the composition adds the connection's side.
Two readers and two ids are interchangeable in `redis`, hence the symmetry; the
liveness runs use none.

`Handlers`: two goroutines are what a race of `AddHandler` needs; two handlers give
every pair of results of a handler and its successor. The array is full with both
in it. Goroutines, and handlers with the same roles, are interchangeable. `Fields`: two definitions with two selections give every pair of kinds of
definitions and of repeated, missing, broken and fragment selections. `KeepAlive`:
25 ticks make the rounding of nine tenths visible (22, a margin of 3), and `Lag` is
the largest delay within it.

Deadlock is not checked: a connection that is closed, a started document and a
timed-out client have nothing left to do, and goroutines that block for ever are
the subject of the liveness properties.

**Fairness.** `Conn` (`FairSpec`): the Go scheduler runs every runnable goroutine;
channel and mutex waiters are queued, so a goroutine whose operation becomes
possible again and again does proceed: strong fairness per goroutine. `select` is
pseudo-random, so a shutdown branch that is ready again and again is taken. Go's
`RWMutex` lets no new reader in while a writer waits, so nothing is promised to a
goroutine at an `RLock` while another one waits for `Lock`. Nothing is promised of
the peer: no message ever has to arrive. A read ends once the socket was closed on
this side. Handlers are assumed to return. `ShutdownEndsPumps` is checked for close
handlers that succeed (with a failing one `close()` stops halfway and `readPump`
may wait in the socket for ever) and allows the process to die of a panic, which
`conn_panic` shows to happen.

`Redis`: weak fairness of each reader, of each caller of `close()` and of the
goroutine in `Conn.close()`, with three exceptions, where a goroutine may wait for
ever. A `Receive` on an open connection need not return. A `SendData` need not
while the channel is open, since it may be full. And a `Conn.Close()` need not
reach `close()`, since it may wait for `stateMutex` for ever (`conn_close`); only
once the channel is closed does it return, because whoever holds the read lock then
panics out of its send and releases it. A reader that has begun `close()` holds the
lock, and all it calls there are steps that no other goroutine can disable.
`System`: weak fairness only of the goroutine inside `Conn.close()`, which holds the
lock. `KeepAlive`: time passes and what is due happens.

`ClosedReaderEnds` excepts what the code leaves open: a reader closed before its
goroutine ran (`redis_close`), one whose field was overwritten with nil
(`Stranded`), and one that waits in `SendData` for a channel nobody drains or in
`Conn.Close()` for the lock. `GaveUpReaderEnds` takes up the last one from the point
where it has the lock. That giving up closes the connection at all, as the comment
of `reader.go:94` says, is not kept (`GiveUpCloses`): `Conn.Close()` returns the
error of a close frame that cannot be written and closes nothing.

## 4. Proofs

Every invariant that a passing run checks is also a theorem, for every value of
the constants that the modules' assumptions allow. So are the action property
`TeardownUnderLock` and both refinements.

### `ConnProofs`

`ConnProofs` proves, for every set of application goroutines, ids and messages,
every capacity above zero and every set of handler outcomes and network events
(`ConnAssumption`):

| Theorem | States |
|---|---|
| `IndInvariant` | `Spec => []IndInv` |
| `TypeCorrect` | `Spec => []TypeOK` |
| `SafeSendAlways` | `Spec => []SafeSend` |
| `ClosedOnce` | `Spec => []CloseOnce` |
| `HandshakeFirst` | `Spec => []NoSubscriptionBeforeInit` |
| `PumpExit` | `Spec => []PumpExitShutsDown` |
| `TeardownLocked` | `Spec => TeardownUnderLock` |
| `Refinement` | `Spec => L!LSpec` (`ImplementsLifecycle`) |

The argument. None of the properties is inductive. `CloseOnce` would be easy if
Closed were final, but `setState` can undo it; it holds because `shutdown` is
never undone: whoever enters `close()` again dies of closing `shutdown` twice
before it reaches a handler or a channel. `TeardownInv` states this as a chain
(shutdown, notified, outgoing, incoming, socket), linked to the label of the
goroutine at work, and `LockInv` makes that goroutine unique by tying `writer`
to the labels inside `close()`. `SafeSend` is the delicate one: a connection may
be reopened on closed channels, and the state check of `sendOperationErrors`
would then pass. `ReopenInv` shows why this does not happen: after a reopening
`processMessages` has no message in hand and none in its channel, and is on its
way out; `StartInv` covers the case in which the state is overwritten by
`readPump`'s first step. `ControlInv` says which goroutine calls `close()` from
where, and `HandshakeInv` carries the acceptance of the handshake to
`addSubscription`.

The proof has a lemma per group of actions, each with one step per action.
`Quiet` describes a step that changes nothing but the channels' contents and the
place of one goroutine outside the critical sections, and `QuietStep` gives most
of the invariant for all such steps at once. `PumpPanic`, `CallCloseType`,
`CrashStep` and `UnwindType` do the same for panics, calls of `close()` and the
end of the process.

### `RedisProofs`

For every set of readers and ids, every limit of `SUBSCRIBE` errors and every set
of faults (`RedisAssumption`):

| Theorem | States |
|---|---|
| `TypeCorrect` | `Spec => []TypeOK` |
| `NoConnectionLeak` | `Spec => []OneConnection` |
| `NoLostWakeUp` | `Spec => []ClosedReaderIsWoken` |

`ClosedReaderIsWoken` speaks of a reader in `Receive`. It becomes inductive as
`WakeInv` by speaking of the step before as well: the reader has passed its state
check, and whoever has set the state since is still on the way to the connection
the field names. `CloserInv` adds that `HandleWebsocketClose` runs once and visits
readers only.

### `SystemProofs`

| Theorem | States |
|---|---|
| `SystemImplementsRedis` | `SSpec => ImplementsRedis`, that is `R!Spec` |
| `SystemKeepsIndInv` | `SSpec => [](IndInv /\ SafeSend /\ CloseOnce)` |
| `SystemReadersSafe` | `SSpec => [](R!TypeOK /\ R!OneConnection /\ R!ClosedReaderIsWoken)` |

A step of `System` maps to a step of `Redis` only where the connection and the
redis code that its goroutines run fit together. `LinkInv` says how: a start is
handed over exactly while `processMessages` is at the subscription handlers
(`StartLink`); a stop is being served while `processMessages` is inside a reader's
`close()` (`StopLink`); a reader's goroutine is in `SendData` or `Close` exactly
when `readLoop` called it (`ReaderLink`); the channel is closed after
`HandleWebsocketClose` has returned, and `close()` leaves its critical section
with the channel closed or by a panic (`CloseLink`); a crashed reader has ended
everything (`CrashLink`). The proof first shows that `IndInv` is kept, because
most steps of `System` are steps of `Conn` and the others are quiet, then
`LinkInv`, then one refinement lemma per group of steps. The third theorem
instantiates `RedisProofs` and follows from the first.

`SystemAssumption` is what the composition adds to the assumptions of its parts.
`"control"` is among `Faults` since the close frame of `Conn.Close` may always
fail; `CloseResults` has no error, since the redis handler's
`HandleWebsocketClose` returns nil or panics.

### `HandlersProofs`

For every set of goroutines, handlers, roles and results (`HandlersAssumption`: the
handlers fit into the array, and the names of goroutines and handlers are not
those of the pumps):

| Theorem | States |
|---|---|
| `TypeCorrect` | `Spec => []TypeOK` |
| `NoAddedHandlerIsLost` | `Spec => []NoHandlerLost` |
| `InitAsksAll` | `Spec => []InitAsksEveryHandler` |

`AddingInv` ties an append under way to the mutex and to the length it has loaded,
which is the length the list still has. `RoomInv` counts: the entries, the handlers
to come and the one being appended fit into the array, so no index leaves it.
`ListInv` keeps the entries distinct and apart from what was removed or is still to
come. `InitLoopInv` says of a running loop of `connection_init` that it holds the
mutex, that the length it ranges over is the list's, and that its calls are those
of the entries it has passed (`Asked`). `RemoveHandler` cuts the list short, which
loses handlers (`handlers_remove`), but keeps all of this.

### `FieldsProofs`

For every schema whose fields ask for sequences of topics and for documents of
every size (`FieldsAssumption`):

| Theorem | States |
|---|---|
| `MatchesSelectedAlways` | `Spec => []MatchesSelected` |
| `TopicsExactAlways` | `Spec => []TopicsAreExact` |

The first is about what the loops of `ast.go` compute, by induction on the part of
a sequence that they have passed. The library's induction theorems take the
predicate as an operator, which the provers cannot instantiate. Here induction is
a fact about sets (`UpTo`, from the least element of a set of numbers), and a loop
has values because its rounds can be appended one by one (`Iterate`).
`DefinitionsWithOperation` and `FlattenElements` then give the elements of a
filtered and of a flattened sequence, and `FieldNamesOfDocument` puts them
together. The second theorem needs `TopicsInv`: the topics so far are those of the
names that were passed and of the part of the current field that was passed.

### `KeepAliveProofs`

`ResponsiveStays` is `Spec => []ResponsiveClientStays` for every `PongWait` of at
least two ticks (below that the period is zero and `NewTicker` panics) and every
`Lag` below what the ticker leaves of it (`KeepAliveAssumption`). A ping that waits
was sent by the last shot of the ticker (`OnePing`), and the deadline is behind the
next shot by more than the client needs (`Margin`).

### Only model-checked

The liveness properties (`ShutdownEndsPumps`, `ClosedReaderEnds`,
`GaveUpReaderEnds`, `TeardownEnds`, `SilentClientEnds`), since the provers do not handle fairness; and
the refuted claims, which are traces.

## 5. Not modelled

- Handlers that call methods of their own connection from a pump's goroutine
  (a `Close` or an `AddHandler` inside a handler). The application's calls come
  from other goroutines.
- Lists of more handlers than the array of `NewConn` holds: `append` would then
  copy the array, and a loop that has begun would go on over the old one.
- Durations outside `KeepAlive`: write deadlines, the pause in `close()`. A
  timeout is an event that may happen.
- The errors of `HandlePanic`, which nobody uses, and the branch of
  `processOutgoingMessage` for an EOF (lines 683-688): no EOF is ever put into
  `outgoingMessages`.
- A `Config` with a nil `WriteTimeout` or a `PongWait` below two nanoseconds, which
  panic; the factories of `config.go` are setters without control flow.
- The panics of `NewHttpHandler` for a missing upgrader or schema, which come at
  start-up, and the fixed list of subprotocols of the upgrader.
- Parsing, validating and executing GraphQL (`graphql-go`), JSON encoding, logging,
  error texts. A refused query is a payload class, an executed one a message.
- The examples: demonstration programs.

## 6. Plan

1. *Done*: `Conn`, `Lifecycle`, `ConnInv`, `ConnClaims`, `ConnProofs`.
2. *Done*: `Redis`, `System`, `Handlers`, `Fields`, `KeepAlive`.
3. *Done*: `RedisProofs`, `SystemProofs`, `HandlersProofs`, `FieldsProofs`,
   `KeepAliveProofs`.
4. The safety part of the liveness arguments as invariants with proofs: what
   `TeardownEnds` needs is that no step of another goroutine disables the next
   step of the one inside `close()`.

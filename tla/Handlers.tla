------------------------------ MODULE Handlers ------------------------------
(***************************************************************************)
(* The handlers of a connection: how the http handler hands a new          *)
(* connection, whose pumps run already, to the function that adds them;    *)
(* the list Conn.Handlers (a slice over one array, changed in place); and  *)
(* the loops over it that dispatch an event, each with its own rules for   *)
(* what a handler returns.                                                 *)
(*                                                                         *)
(* Only the registry and the dispatch of connection_init take              *)
(* handlersMutex.  The list has at most as many entries as the array that  *)
(* NewConn allocates (MaxHandlers, 3 there): append never reallocates.     *)
(***************************************************************************)
EXTENDS Naturals, Sequences, FiniteSets

CONSTANTS
  Users,         \* goroutines that add and remove handlers (the http handler is one)
  Hs,            \* the handlers
  Roles,         \* the events each of them handles
  MaxHandlers,   \* capacity of the array
  Results,       \* what a handler may return
  Recorded,      \* the events whose calls are recorded in calls
  Removes        \* RemoveHandler is used

Proc   == "processMessages"
Reader == "readPump"
Caller == "Close"     \* the goroutine of the application in Conn.Close()
Dispatchers == {Proc, Reader, Caller}
NoOne  == "none"
Junk   == "slice"     \* the slice that RemoveHandler stores as if it were a handler

(* The interfaces of handlers.go that a loop of connection.go looks for. *)
EventsOf == [t \in Dispatchers |->
  CASE t = Proc   -> {"init", "terminate", "start", "subStart", "stop", "subStop", "close", "panic"}
    [] t = Reader -> {"pong", "close"}
    [] t = Caller -> {"close"}]
Events == UNION {EventsOf[t] : t \in Dispatchers}

(* nil, another error, or a HandlerError with its two flags: none, prevented,
   stopped, both. *)
AllResults     == {"nil", "error", "none", "prevented", "stopped", "both"}
Stopped(res)   == res \in {"stopped", "both"}
Prevented(res) == res \in {"prevented", "both"}

(* HandleConnectionStart returns a list of errors, empty or not. *)
ResultsOf(e) == IF e = "start" THEN Results \cap {"nil", "error"} ELSE Results

ASSUME HandlersAssumption ==
  /\ Hs \cap {Junk, NoOne} = {} /\ IsFiniteSet(Hs)
  /\ Users \cap {Proc, Reader, Caller, NoOne} = {}
  /\ Roles \in [Hs -> SUBSET Events]
  /\ MaxHandlers \in Nat /\ Cardinality(Hs) <= MaxHandlers
  /\ Results \subseteq AllResults
  /\ "init" \in Recorded /\ Recorded \subseteq Events

VARIABLES
  http,       \* the request: new, upgraded, refused, conn (the pumps run), closed
  mutex,      \* who holds handlersMutex
  array, len, \* Conn.Handlers
  toAdd,      \* the handlers not added yet
  adding,     \* per user, the handler being appended and the length it has loaded
  removed,    \* the handlers given to RemoveHandler
  loop,       \* per goroutine that dispatches, its loop over the handlers
  calls       \* history: the handlers called by a loop of a recorded event, with their results

registry == <<mutex, array, len, toAdd, adding, removed>>
dispatch == <<loop, calls>>
vars     == <<http, registry, dispatch>>

NotAdding  == [h |-> NoOne, at |-> 0]
NoLoop     == [event |-> "none", i |-> 0, n |-> 0, errs |-> FALSE, verdict |-> "none"]
List       == {array[k] : k \in 1 .. len}
Started    == http \in {"conn", "closed"}
Running(t) == loop[t].verdict = "next"

Init ==
  /\ http = "new" /\ mutex = NoOne
  /\ array = [k \in 1 .. MaxHandlers |-> Junk] /\ len = 0
  /\ toAdd = Hs /\ adding = [u \in Users |-> NotAdding] /\ removed = {}
  /\ loop = [t \in Dispatchers |-> NoLoop] /\ calls = [t \in Dispatchers |-> << >>]

(***************************************************************************)
(* NewHttpHandler.                                                         *)
(***************************************************************************)
(* The upgrade fails, or the client has not asked for the subprotocol
   graphql-ws: the websocket is closed and the error is handed over. *)
Refuse ==
  /\ http \in {"new", "upgraded"} /\ http' = "refused"
  /\ UNCHANGED <<registry, dispatch>>

Upgrade ==
  /\ http = "new" /\ http' = "upgraded"
  /\ UNCHANGED <<registry, dispatch>>

(* NewConn starts both pumps, then the function of the application is called. *)
NewConn ==
  /\ http = "upgraded" /\ http' = "conn"
  /\ UNCHANGED <<registry, dispatch>>

(***************************************************************************)
(* AddHandler and RemoveHandler.                                           *)
(***************************************************************************)
(* Variant: AddHandler without the lock. *)
AddHandlerUnlocked(u) ==
  /\ Started /\ adding[u] = NotAdding
  /\ \E h \in toAdd : /\ adding' = [adding EXCEPT ![u] = [h |-> h, at |-> len + 1]]
                      /\ toAdd' = toAdd \ {h}
  /\ UNCHANGED <<http, mutex, array, len, removed, dispatch>>

AddHandler(u) ==
  /\ Started /\ adding[u] = NotAdding
  /\ mutex = NoOne /\ mutex' = u
  /\ \E h \in toAdd : /\ adding' = [adding EXCEPT ![u] = [h |-> h, at |-> len + 1]]
                      /\ toAdd' = toAdd \ {h}
  /\ UNCHANGED <<http, array, len, removed, dispatch>>

(* append has stored the handler and the list is written back. *)
HandlerAdded(u) ==
  /\ adding[u] # NotAdding
  /\ array' = [array EXCEPT ![adding[u].at] = adding[u].h]
  /\ len' = adding[u].at
  /\ adding' = [adding EXCEPT ![u] = NotAdding]
  /\ mutex' = IF mutex = u THEN NoOne ELSE mutex
  /\ UNCHANGED <<http, toAdd, removed, dispatch>>

(* append(hs[:i], hs[i+1:]) stores the rest of the list as one entry. *)
RemoveHandler(u) ==
  /\ Removes /\ adding[u] = NotAdding /\ mutex = NoOne
  /\ \E h \in Hs \ (toAdd \cup removed) :
       /\ removed' = removed \cup {h}
       /\ IF h \in List
            THEN LET i == CHOOSE k \in 1 .. len : array[k] = h
                 IN  array' = [array EXCEPT ![i] = Junk] /\ len' = i
            ELSE UNCHANGED <<array, len>>
  /\ UNCHANGED <<http, mutex, toAdd, adding, dispatch>>

(***************************************************************************)
(* The loops over c.Handlers.                                              *)
(***************************************************************************)
(* Variant: a loop that goes one entry too far. *)
BeginDispatchTooFar(t) ==
  /\ Started /\ ~Running(t)
  /\ \E e \in EventsOf[t] :
       /\ IF e = "close" THEN http = "conn" /\ http' = "closed" ELSE UNCHANGED http
       /\ IF e = "init" THEN mutex = NoOne /\ mutex' = t ELSE UNCHANGED mutex
       /\ loop' = [loop EXCEPT ![t] = [NoLoop EXCEPT !.event = e, !.n = len + 1, !.verdict = "next"]]
  /\ calls' = [calls EXCEPT ![t] = << >>]
  /\ UNCHANGED <<array, len, toAdd, adding, removed>>

(* range evaluates the slice once; connection_init holds handlersMutex; close()
   comes to its handlers once. *)
BeginDispatch(t) ==
  /\ Started /\ ~Running(t)
  /\ \E e \in EventsOf[t] :
       /\ IF e = "close" THEN http = "conn" /\ http' = "closed" ELSE UNCHANGED http
       /\ IF e = "init" THEN mutex = NoOne /\ mutex' = t ELSE UNCHANGED mutex
       /\ loop' = [loop EXCEPT ![t] = [NoLoop EXCEPT !.event = e, !.n = len, !.verdict = "next"]]
  /\ calls' = [calls EXCEPT ![t] = << >>]
  /\ UNCHANGED <<array, len, toAdd, adding, removed>>

(* Variant: a HandlerError without flags does not refuse the connection. *)
VerdictLenient(e, res) ==
  CASE e = "init" /\ Stopped(res)                                   -> "break"
    [] e = "init" /\ res = "error"                                  -> "fail"
    [] e \in {"terminate", "subStart", "subStop", "close", "panic"}
         /\ Stopped(res)                                            -> "break"
    [] e = "close" /\ res = "error"                                 -> "fail"
    [] e = "pong" /\ res # "nil"                                    -> "fail"
    [] OTHER                                                        -> "next"

(* How each loop goes on; ConnectionStartHandlers and ConnectionStopHandlers
   are all called whatever they return. *)
Verdict(e, res) ==
  CASE e = "init" /\ Stopped(res)                                   -> "break"
    [] e = "init" /\ res # "nil" /\ ~Prevented(res) /\ ~Stopped(res) -> "fail"
    [] e \in {"terminate", "subStart", "subStop", "close", "panic"}
         /\ Stopped(res)                                            -> "break"
    [] e = "close" /\ res = "error"                                 -> "fail"
    [] e = "pong" /\ res # "nil"                                    -> "fail"
    [] OTHER                                                        -> "next"

(* The loop is over: its verdict, and the lock of connection_init. *)
Leave(t, verdict, errs) ==
  /\ loop' = [loop EXCEPT ![t].verdict = verdict, ![t].errs = errs]
  /\ mutex' = IF mutex = t THEN NoOne ELSE mutex

(* Whether gqlStart has errors: it appends new ones only to those it has. *)
Aggregate(errs, res) == errs \/ (errs /\ res = "error")

(* The next entry is read from the array; one without the event's interface is
   skipped. *)
CallHandler(t) ==
  LET k == loop[t].i + 1
      e == loop[t].event
      h == array[k]
  IN
  /\ Running(t) /\ loop[t].i < loop[t].n
  /\ IF h \in Hs /\ e \in Roles[h]
       THEN \E res \in ResultsOf(e) :
              LET errs == Aggregate(loop[t].errs, res) IN
              /\ calls' = IF e \in Recorded
                            THEN [calls EXCEPT ![t] = Append(@, [h |-> h, res |-> res])]
                            ELSE calls
              /\ IF Verdict(e, res) = "next"
                   THEN /\ loop' = [loop EXCEPT ![t].i = k, ![t].errs = errs]
                        /\ UNCHANGED mutex
                   ELSE Leave(t, Verdict(e, res), errs)
       ELSE loop' = [loop EXCEPT ![t].i = k] /\ UNCHANGED <<mutex, calls>>
  /\ UNCHANGED <<http, array, len, toAdd, adding, removed>>

(* A start with errors is refused; every other event goes on. *)
EndDispatch(t) ==
  /\ Running(t) /\ loop[t].i = loop[t].n
  /\ Leave(t, IF loop[t].errs THEN "fail" ELSE "break", loop[t].errs)
  /\ UNCHANGED <<http, array, len, toAdd, adding, removed, calls>>

Next ==
  \/ Refuse \/ Upgrade \/ NewConn
  \/ \E u \in Users : AddHandler(u) \/ HandlerAdded(u) \/ RemoveHandler(u)
  \/ \E t \in Dispatchers : BeginDispatch(t) \/ CallHandler(t) \/ EndDispatch(t)

Spec == Init /\ [][Next]_vars

(***************************************************************************)
(* Properties.                                                             *)
(***************************************************************************)
(* The type invariant; a loop never reads outside the array. *)
TypeOK ==
  /\ http \in {"new", "upgraded", "refused", "conn", "closed"} /\ mutex \in Users \cup Dispatchers \cup {NoOne}
  /\ array \in [1 .. MaxHandlers -> Hs \cup {Junk}] /\ len \in 0 .. MaxHandlers
  /\ toAdd \subseteq Hs /\ removed \subseteq Hs
  /\ adding \in [Users -> {NotAdding} \cup [h : Hs, at : 1 .. MaxHandlers]]
  /\ \A t \in Dispatchers : loop[t].i <= loop[t].n /\ loop[t].n <= MaxHandlers

Registered == Hs \ (toAdd \cup removed \cup {adding[u].h : u \in Users})

(* No handler is lost to a race: whatever the order of AddHandler calls, the list
   holds every handler that was added until RemoveHandler is used, and never one
   that was removed. *)
NoHandlerLost ==
  /\ List \cap Hs \subseteq Registered
  /\ removed = {} => Registered \subseteq List

(* When the loop of connection_init comes to its end, the handlers it has asked
   are the ConnectionInitHandlers of the list as it is now, each once, and all
   agreed or prevented the refusal: handlersMutex keeps AddHandler and
   RemoveHandler out, and no other result lets the loop go on. *)
InitAsksEveryHandler ==
  LET l == loop[Proc]
      c == calls[Proc]
  IN  l.event = "init" /\ Running(Proc) /\ l.i = l.n =>
        /\ {c[k].h : k \in 1 .. Len(c)} = {h \in List \cap Hs : "init" \in Roles[h]}
        /\ \A j, k \in 1 .. Len(c) : c[j].h = c[k].h => j = k
        /\ \A k \in 1 .. Len(c) : c[k].res \in {"nil", "prevented"}

(***************************************************************************)
(* Claims of the documentation that the code does not keep.                *)
(***************************************************************************)
(* connection.go:99, "RemoveHandler removes a Handler from the connection":
   whatever the order of AddHandler and RemoveHandler calls, the handlers that
   were added and not removed are those of the list. *)
ListIsRegistered == List \cap Hs = Registered

(* README.md:30, "At this point, when the connection is already established, you
   should add all handlers responsible for dealing with all events": a
   connection_init is not accepted before the handlers are added. *)
InitSeesAllHandlers ==
  loop[Proc].event = "init" /\ loop[Proc].verdict = "break"
    => \A h \in toAdd : "init" \notin Roles[h]

(* connection.go:326, "If any error has happened ... send it to the client": a
   start one of whose ConnectionStartHandlers returned an error is refused. *)
StartErrorsRefuse ==
  loop[Proc].event = "start" /\ loop[Proc].verdict = "break"
    => \A k \in 1 .. Len(calls[Proc]) : calls[Proc][k].res = "nil"

(* errors.go:48, "StopPropagation set a flag for not executing the subsequent
   handlers of an event": after a handler that stopped it none is called. *)
StopPropagationStops ==
  \A t \in Dispatchers : \A k \in 1 .. Len(calls[t]) - 1 : ~Stopped(calls[t][k].res)
=============================================================================

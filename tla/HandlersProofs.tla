--------------------------- MODULE HandlersProofs ---------------------------
(***************************************************************************)
(* Proofs of the safety properties of Handlers, for every number of        *)
(* goroutines, handlers and roles, and for every result of a handler.      *)
(***************************************************************************)
EXTENDS Handlers, FiniteSetTheorems, TLAPS

USE HandlersAssumption
USE DEF Proc, Reader, Caller, Dispatchers, NoOne, Junk, NotAdding, Running

Call == [h : Hs, res : AllResults]

LoopType ==
  [event : Events \cup {"none"}, i : 0 .. MaxHandlers, n : 0 .. MaxHandlers, errs : BOOLEAN,
   verdict : {"none", "next", "break", "fail"}]

(* The types of the loops, which TypeOK leaves open. *)
DispatchType ==
  /\ loop \in [Dispatchers -> LoopType]
  /\ calls \in [Dispatchers -> Seq(Call)]

(* Whoever appends to the list holds handlersMutex, has loaded the length that the
   list still has, and appends a handler that is nowhere else. *)
AddingInv ==
  \A u \in Users : adding[u] # NotAdding =>
    /\ mutex = u
    /\ adding[u].at = len + 1
    /\ adding[u].h \in Hs \ (toAdd \cup removed)
    /\ \A k \in 1 .. len : array[k] # adding[u].h

(* The array has room for the handlers still to come. *)
RoomInv == len + Cardinality(toAdd) + (IF mutex \in Users THEN 1 ELSE 0) <= MaxHandlers

(* The list holds handlers that were added and not removed, each once. *)
ListInv ==
  /\ toAdd \cap removed = {}
  /\ \A k \in 1 .. len : array[k] \in Hs => array[k] \notin toAdd \cup removed
  /\ \A j, k \in 1 .. len : array[j] = array[k] /\ array[j] \in Hs => j = k
  /\ removed = {} =>
       \A h \in Hs \ toAdd : \/ \E k \in 1 .. len : array[k] = h
                             \/ \E u \in Users : adding[u].h = h

(* The calls c are those of the ConnectionInitHandlers among the first i entries
   of the array a, each once, and none of them refused. *)
Asked(c, a, i) ==
  /\ \A k \in 1 .. Len(c) :
       /\ c[k].res \in {"nil", "prevented"} /\ "init" \in Roles[c[k].h]
       /\ \E j \in 1 .. i : a[j] = c[k].h
  /\ \A j \in 1 .. i :
       a[j] \in Hs /\ "init" \in Roles[a[j]] => \E k \in 1 .. Len(c) : c[k].h = a[j]
  /\ \A j, k \in 1 .. Len(c) : c[j].h = c[k].h => j = k

(* The loop of connection_init holds the lock over the list it has loaded, and has
   called the ConnectionInitHandlers of the entries it has passed. *)
InitLoopInv ==
  loop[Proc].event = "init" /\ loop[Proc].verdict = "next" =>
    mutex = Proc /\ loop[Proc].n = len /\ Asked(calls[Proc], array, loop[Proc].i)

Inv == TypeOK /\ DispatchType /\ AddingInv /\ RoomInv /\ ListInv /\ InitLoopInv

(* A pump that has run no loop. *)
LEMMA NoLoopType ==
  NoLoop \in LoopType /\ NoLoop.i = 0 /\ NoLoop.n = 0 /\ NoLoop.event = "none"
  <1>1. 0 \in 0 .. MaxHandlers
    OBVIOUS
  <1>2. NoLoop \in LoopType
    BY <1>1, Zenon DEF NoLoop, LoopType
  <1>3. NoLoop.i = 0 /\ NoLoop.n = 0 /\ NoLoop.event = "none"
    BY DEF NoLoop
  <1> QED
    BY <1>2, <1>3

(* The initial states satisfy the invariant. *)
LEMMA InitInv == Init => Inv
  <1> SUFFICES ASSUME Init PROVE Inv
    OBVIOUS
  <1>1. TypeOK
    BY NoLoopType DEF Init, TypeOK
  <1>2. DispatchType
    BY NoLoopType DEF Init, DispatchType
  <1>3. AddingInv /\ ListInv /\ InitLoopInv
    BY NoLoopType DEF Init, AddingInv, ListInv, InitLoopInv
  <1>4. RoomInv
    <2>1. Cardinality(Hs) \in Nat
      BY FS_CardinalityType
    <2> QED
      BY <2>1 DEF Init, RoomInv
  <1> QED
    BY <1>1, <1>2, <1>3, <1>4 DEF Inv

(* The http handler touches no list. *)
LEMMA HttpInv ==
  ASSUME Inv, Refuse \/ Upgrade \/ NewConn
  PROVE  Inv'
  <1>1. http' \in {"refused", "upgraded", "conn"} /\ UNCHANGED <<registry, dispatch>>
    BY DEF Refuse, Upgrade, NewConn
  <1>2. TypeOK'
    BY <1>1 DEF Inv, TypeOK, registry, dispatch
  <1>3. DispatchType' /\ AddingInv' /\ RoomInv'
    BY <1>1 DEF Inv, DispatchType, AddingInv, RoomInv, registry, dispatch
  <1>4. ListInv' /\ InitLoopInv'
    BY <1>1 DEF Inv, ListInv, InitLoopInv, registry, dispatch
  <1> QED
    BY <1>2, <1>3, <1>4 DEF Inv

(* AddHandler loads the length under the lock. *)
LEMMA AddHandlerInv ==
  ASSUME Inv, NEW u \in Users, AddHandler(u)
  PROVE  Inv'
  <1>1. PICK h \in toAdd : /\ adding' = [adding EXCEPT ![u] = [h |-> h, at |-> len + 1]]
                           /\ toAdd' = toAdd \ {h}
    BY DEF AddHandler
  <1>2. /\ adding[u] = NotAdding /\ mutex = NoOne /\ mutex' = u
        /\ UNCHANGED <<http, array, len, removed, loop, calls>>
    BY DEF AddHandler, dispatch
  <1>3. h \in Hs /\ toAdd \subseteq Hs /\ len \in Nat
    BY DEF Inv, TypeOK
  <1>4. RoomInv' /\ len + 1 <= MaxHandlers
    <2>1. IsFiniteSet(toAdd)
      BY <1>3, FS_Subset
    <2>2. /\ Cardinality(toAdd) \in Nat
          /\ Cardinality(toAdd \ {h}) = Cardinality(toAdd) - 1
          /\ Cardinality(toAdd \ {h}) \in Nat
      <3>1. Cardinality(toAdd) \in Nat
        BY <2>1, FS_CardinalityType
      <3>2. IsFiniteSet(toAdd \ {h}) /\ Cardinality(toAdd \ {h}) = Cardinality(toAdd) - 1
        BY <2>1, FS_RemoveElement
      <3> QED
        BY <3>1, <3>2, FS_CardinalityType
    <2> QED
      BY <1>1, <1>2, <1>3, <2>2 DEF Inv, RoomInv
  <1>5. TypeOK'
    BY <1>1, <1>2, <1>3, <1>4 DEF Inv, TypeOK
  <1>6. \A v \in Users : v # u => adding'[v] = NotAdding
    BY <1>1, <1>2 DEF Inv, TypeOK, AddingInv
  <1>7. adding'[u] = [h |-> h, at |-> len + 1]
    BY <1>1 DEF Inv, TypeOK
  <1>8. \A k \in 1 .. len : array[k] # h
    BY <1>3 DEF Inv, ListInv
  <1>9. AddingInv'
    <2>1. h \notin removed
      BY <1>3 DEF Inv, ListInv
    <2> QED
      BY <1>1, <1>2, <1>3, <1>6, <1>7, <1>8, <2>1 DEF AddingInv
  <1>10. ListInv'
    BY <1>1, <1>2, <1>6, <1>7 DEF Inv, ListInv
  <1>11. DispatchType' /\ InitLoopInv'
    BY <1>2 DEF Inv, DispatchType, InitLoopInv
  <1> QED
    BY <1>4, <1>5, <1>9, <1>10, <1>11 DEF Inv

(* The append is written back under the same lock. *)
LEMMA HandlerAddedInv ==
  ASSUME Inv, NEW u \in Users, HandlerAdded(u)
  PROVE  Inv'
  <1> DEFINE h == adding[u].h
  <1>1. /\ mutex = u /\ mutex' = NoOne /\ adding[u].at = len + 1 /\ len' = len + 1
        /\ array' = [array EXCEPT ![len + 1] = h]
        /\ adding' = [adding EXCEPT ![u] = NotAdding]
        /\ UNCHANGED <<http, toAdd, removed, loop, calls>>
    BY DEF Inv, AddingInv, HandlerAdded, dispatch
  <1>2. /\ h \in Hs \ (toAdd \cup removed) /\ \A k \in 1 .. len : array[k] # h
        /\ len \in Nat /\ len + 1 \in 1 .. MaxHandlers
    BY DEF Inv, TypeOK, AddingInv, HandlerAdded
  <1>3. \A v \in Users : adding'[v] = NotAdding /\ (v # u => adding[v] = NotAdding)
    BY <1>1 DEF Inv, TypeOK, AddingInv
  <1>4. /\ array' \in [1 .. MaxHandlers -> Hs \cup {Junk}]
        /\ array'[len + 1] = h /\ \A k \in 1 .. len : array'[k] = array[k]
    BY <1>1, <1>2 DEF Inv, TypeOK
  <1> HIDE DEF h
  <1>5. TypeOK'
    BY <1>1, <1>2, <1>4 DEF Inv, TypeOK
  <1>6. AddingInv'
    BY <1>3 DEF AddingInv
  <1>7. RoomInv'
    <2>1. Cardinality(toAdd) \in Nat
      BY FS_Subset, FS_CardinalityType DEF Inv, TypeOK
    <2> QED
      BY <1>1, <1>2, <2>1 DEF Inv, RoomInv
  <1>8. ListInv'
    <2>1. \A k \in 1 .. len + 1 : array'[k] = IF k = len + 1 THEN h ELSE array[k]
      BY <1>2, <1>4
    <2>2. \A k \in 1 .. len' : array'[k] \in Hs => array'[k] \notin (toAdd \cup removed)'
      BY <1>1, <1>2, <2>1 DEF Inv, ListInv
    <2>3. \A j, k \in 1 .. len' : array'[j] = array'[k] /\ array'[j] \in Hs => j = k
      BY <1>1, <1>2, <2>1 DEF Inv, ListInv
    <2>4. removed = {} => \A g \in Hs \ toAdd : \E k \in 1 .. len + 1 : array'[k] = g
      <3> SUFFICES ASSUME removed = {}, NEW g \in Hs \ toAdd
                   PROVE  \E k \in 1 .. len + 1 : array'[k] = g
        OBVIOUS
      <3>1. CASE \E k \in 1 .. len : array[k] = g
        BY <1>2, <2>1, <3>1
      <3>2. CASE \E v \in Users : adding[v].h = g
        BY <1>2, <1>3, <1>4, <3>2 DEF h
      <3> QED
        BY <3>1, <3>2 DEF Inv, ListInv
    <2> QED
      BY <1>1, <2>2, <2>3, <2>4 DEF Inv, ListInv
  <1>9. DispatchType' /\ InitLoopInv'
    BY <1>1 DEF Inv, DispatchType, InitLoopInv
  <1> QED
    BY <1>5, <1>6, <1>7, <1>8, <1>9 DEF Inv

(* RemoveHandler cuts the list at the handler it removes. *)
LEMMA RemoveHandlerInv ==
  ASSUME Inv, NEW u \in Users, RemoveHandler(u)
  PROVE  Inv'
  <1>1. /\ mutex = NoOne /\ UNCHANGED <<http, mutex, toAdd, adding, loop, calls>>
        /\ \A v \in Users : adding[v] = NotAdding
    BY DEF Inv, AddingInv, RemoveHandler, dispatch
  <1>2. PICK h \in Hs \ (toAdd \cup removed) :
          /\ removed' = removed \cup {h}
          /\ IF h \in List
               THEN LET i == CHOOSE k \in 1 .. len : array[k] = h
                    IN  array' = [array EXCEPT ![i] = Junk] /\ len' = i
               ELSE UNCHANGED <<array, len>>
    BY DEF RemoveHandler
  <1>3. len \in 0 .. MaxHandlers /\ array \in [1 .. MaxHandlers -> Hs \cup {Junk}]
    BY DEF Inv, TypeOK
  <1>4. /\ len' \in 0 .. len /\ array' \in [1 .. MaxHandlers -> Hs \cup {Junk}]
        /\ \A k \in 1 .. len' : array'[k] \in Hs => array'[k] = array[k] /\ array[k] # h
    <2>1. CASE h \in List
      <3> DEFINE i == CHOOSE k \in 1 .. len : array[k] = h
      <3>1. i \in 1 .. len /\ array[i] = h
        BY <2>1 DEF List
      <3>2. array' = [array EXCEPT ![i] = Junk] /\ len' = i
        BY <1>2, <2>1
      <3> HIDE DEF i
      <3> QED
        BY <1>2, <1>3, <3>1, <3>2 DEF Inv, ListInv
    <2>2. CASE h \notin List
      BY <1>2, <1>3, <2>2 DEF List
    <2> QED
      BY <2>1, <2>2
  <1>5. TypeOK'
    BY <1>1, <1>2, <1>3, <1>4 DEF Inv, TypeOK
  <1>6. AddingInv'
    BY <1>1 DEF AddingInv
  <1>7. RoomInv'
    <2>1. Cardinality(toAdd) \in Nat
      BY FS_Subset, FS_CardinalityType DEF Inv, TypeOK
    <2> QED
      BY <1>1, <1>3, <1>4, <2>1 DEF Inv, RoomInv
  <1>8. ListInv'
    BY <1>1, <1>2, <1>3, <1>4 DEF Inv, ListInv
  <1>9. DispatchType' /\ InitLoopInv'
    BY <1>1 DEF Inv, DispatchType, InitLoopInv
  <1> QED
    BY <1>5, <1>6, <1>7, <1>8, <1>9 DEF Inv

(* A step of a loop leaves the list alone, and takes or releases the lock. *)
LEMMA LoopStep ==
  ASSUME Inv, UNCHANGED <<array, len, toAdd, adding, removed>>,
         \/ mutex' = mutex
         \/ mutex = NoOne /\ mutex' \in Dispatchers
         \/ mutex \in Dispatchers /\ mutex' = NoOne
  PROVE  AddingInv' /\ RoomInv' /\ ListInv' /\ mutex' \in Users \cup Dispatchers \cup {NoOne}
  <1>1. AddingInv'
    BY DEF Inv, AddingInv
  <1>2. RoomInv'
    BY DEF Inv, RoomInv
  <1>3. ListInv'
    BY DEF Inv, ListInv
  <1> QED
    BY <1>1, <1>2, <1>3 DEF Inv, TypeOK

(* The parts of Inv about the loops, after a step of the loop of t. *)
LEMMA LoopTypes ==
  ASSUME Inv, NEW t \in Dispatchers, NEW l \in LoopType, l.i <= l.n,
         loop' = [loop EXCEPT ![t] = l]
  PROVE  /\ loop' \in [Dispatchers -> LoopType]
         /\ loop'[t] = l /\ \A p \in Dispatchers : p # t => loop'[p] = loop[p]
         /\ \A p \in Dispatchers : loop'[p].i <= loop'[p].n /\ loop'[p].n <= MaxHandlers
  <1>1. loop \in [Dispatchers -> LoopType]
    BY DEF Inv, DispatchType
  <1>2. /\ loop' \in [Dispatchers -> LoopType]
        /\ loop'[t] = l /\ \A p \in Dispatchers : p # t => loop'[p] = loop[p]
    BY <1>1
  <1>3. l.n <= MaxHandlers
    BY DEF LoopType
  <1>4. \A p \in Dispatchers : loop[p].i <= loop[p].n /\ loop[p].n <= MaxHandlers
    BY DEF Inv, TypeOK
  <1> QED
    BY <1>2, <1>3, <1>4

(* What the updates of a loop's record keep and change. *)
LEMMA BeginRecord ==
  ASSUME NEW E, NEW S, NEW V, NEW l \in [event : E, i : S, n : S, errs : BOOLEAN, verdict : V],
         NEW e \in E, NEW m \in S, NEW v \in V
  PROVE  LET r == [l EXCEPT !.event = e, !.n = m, !.verdict = v]
         IN  /\ r \in [event : E, i : S, n : S, errs : BOOLEAN, verdict : V]
             /\ r.event = e /\ r.i = l.i /\ r.n = m /\ r.verdict = v
  OBVIOUS

LEMMA AdvanceRecord ==
  ASSUME NEW E, NEW S, NEW V, NEW l \in [event : E, i : S, n : S, errs : BOOLEAN, verdict : V],
         NEW k \in S, NEW b \in BOOLEAN
  PROVE  LET r == [l EXCEPT !.i = k, !.errs = b]
         IN  /\ r \in [event : E, i : S, n : S, errs : BOOLEAN, verdict : V]
             /\ r.event = l.event /\ r.i = k /\ r.n = l.n /\ r.verdict = l.verdict
  OBVIOUS

LEMMA SkipRecord ==
  ASSUME NEW E, NEW S, NEW V, NEW l \in [event : E, i : S, n : S, errs : BOOLEAN, verdict : V],
         NEW k \in S
  PROVE  LET r == [l EXCEPT !.i = k]
         IN  /\ r \in [event : E, i : S, n : S, errs : BOOLEAN, verdict : V]
             /\ r.event = l.event /\ r.i = k /\ r.n = l.n /\ r.verdict = l.verdict
  OBVIOUS

LEMMA LeaveRecord ==
  ASSUME NEW E, NEW S, NEW V, NEW l \in [event : E, i : S, n : S, errs : BOOLEAN, verdict : V],
         NEW v \in V, NEW b \in BOOLEAN
  PROVE  LET r == [l EXCEPT !.verdict = v, !.errs = b]
         IN  /\ r \in [event : E, i : S, n : S, errs : BOOLEAN, verdict : V]
             /\ r.event = l.event /\ r.i = l.i /\ r.n = l.n /\ r.verdict = v
  OBVIOUS

(* An update of two fields of one loop is an update of the loop. *)
LEMMA TwoFields ==
  ASSUME NEW D, NEW T, NEW f \in [D -> T], NEW t \in D, NEW k, NEW v, NEW b
  PROVE  /\ [f EXCEPT ![t].i = k, ![t].errs = b] = [f EXCEPT ![t] = [f[t] EXCEPT !.i = k, !.errs = b]]
         /\ [f EXCEPT ![t].verdict = v, ![t].errs = b]
              = [f EXCEPT ![t] = [f[t] EXCEPT !.verdict = v, !.errs = b]]
         /\ [f EXCEPT ![t].i = k] = [f EXCEPT ![t] = [f[t] EXCEPT !.i = k]]
  OBVIOUS

(* A loop begins. *)
LEMMA BeginDispatchInv ==
  ASSUME Inv, NEW t \in Dispatchers, BeginDispatch(t)
  PROVE  Inv'
  <1>1. PICK e \in EventsOf[t] :
          /\ IF e = "close" THEN http = "conn" /\ http' = "closed" ELSE UNCHANGED http
          /\ IF e = "init" THEN mutex = NoOne /\ mutex' = t ELSE UNCHANGED mutex
          /\ loop' = [loop EXCEPT ![t] = [NoLoop EXCEPT !.event = e, !.n = len, !.verdict = "next"]]
    BY DEF BeginDispatch
  <1>2. calls' = [calls EXCEPT ![t] = << >>] /\ UNCHANGED <<array, len, toAdd, adding, removed>>
    BY DEF BeginDispatch
  <1> DEFINE l == [NoLoop EXCEPT !.event = e, !.n = len, !.verdict = "next"]
  <1>3. e \in Events /\ (e = "init" => t = Proc)
    BY DEF Events, EventsOf
  <1>4. len \in 0 .. MaxHandlers
    BY DEF Inv, TypeOK
  <1>5. AddingInv' /\ RoomInv' /\ ListInv' /\ mutex' \in Users \cup Dispatchers \cup {NoOne}
    BY <1>1, <1>2, LoopStep
  <1>6. l \in LoopType /\ l.event = e /\ l.i = 0 /\ l.n = len /\ l.i <= l.n
    <2>1. /\ e \in Events \cup {"none"} /\ len \in 0 .. MaxHandlers
          /\ "next" \in {"none", "next", "break", "fail"}
      BY <1>3, <1>4
    <2>2. l \in LoopType /\ l.event = e /\ l.i = NoLoop.i /\ l.n = len
      BY <2>1, NoLoopType, BeginRecord, Zenon DEF LoopType
    <2> HIDE DEF l
    <2> QED
      BY <2>2, <1>4, NoLoopType
  <1>0. loop' = [loop EXCEPT ![t] = l]
    BY <1>1
  <1> HIDE DEF l
  <1>7. TypeOK'
    BY <1>0, <1>1, <1>2, <1>4, <1>5, <1>6, LoopTypes DEF Inv, TypeOK
  <1>8. calls' \in [Dispatchers -> Seq(Call)] /\ calls'[t] = << >> /\ \A p \in Dispatchers : p # t => calls'[p] = calls[p]
    BY <1>2 DEF Inv, DispatchType
  <1>9. DispatchType'
    BY <1>0, <1>6, <1>8, LoopTypes DEF DispatchType
  <1>10. InitLoopInv'
    <2>1. CASE t = Proc
      <3>1. loop'[Proc] = l /\ calls'[Proc] = << >>
        BY <1>0, <1>6, <1>8, <2>1, LoopTypes
      <3>2. l.event = "init" => mutex' = Proc /\ l.n = len'
        BY <1>1, <1>2, <1>6, <2>1
      <3>3. Asked(<< >>, array', 0)
        BY DEF Asked
      <3> QED
        BY <1>6, <3>1, <3>2, <3>3 DEF InitLoopInv
    <2>2. CASE t # Proc
      <3>1. loop'[Proc] = loop[Proc] /\ calls'[Proc] = calls[Proc] /\ mutex' = mutex
        BY <1>0, <1>1, <1>3, <1>6, <1>8, <2>2, LoopTypes
      <3> QED
        BY <1>2, <3>1 DEF Inv, InitLoopInv
    <2> QED
      BY <2>1, <2>2
  <1> QED
    BY <1>5, <1>7, <1>9, <1>10 DEF Inv

(* What follows from Inv at a running loop. *)
LEMMA LoopFacts ==
  ASSUME Inv, NEW t \in Dispatchers
  PROVE  /\ loop \in [Dispatchers -> LoopType] /\ loop[t] \in LoopType /\ calls \in [Dispatchers -> Seq(Call)]
         /\ loop[t].i \in 0 .. MaxHandlers /\ loop[t].n \in 0 .. MaxHandlers
         /\ loop[t].i <= loop[t].n /\ loop[t].event \in Events \cup {"none"}
  <1>1. loop \in [Dispatchers -> LoopType] /\ calls \in [Dispatchers -> Seq(Call)]
    BY DEF Inv, DispatchType
  <1>2. loop[t] \in LoopType
    BY <1>1
  <1>3. /\ loop[t].i \in 0 .. MaxHandlers /\ loop[t].n \in 0 .. MaxHandlers
        /\ loop[t].event \in Events \cup {"none"}
    BY <1>2 DEF LoopType
  <1> QED
    BY <1>1, <1>2, <1>3 DEF Inv, TypeOK

LEMMA ErrsType ==
  ASSUME Inv, NEW t \in Dispatchers
  PROVE  loop[t].errs \in BOOLEAN
  <1>1. loop[t] \in LoopType
    BY LoopFacts
  <1> QED
    BY <1>1, Zenon DEF LoopType

(* A loop that ends releases the lock if it has it. *)
LEMMA LeaveInv ==
  ASSUME Inv, NEW t \in Dispatchers, NEW v \in {"break", "fail"}, NEW b \in BOOLEAN, Leave(t, v, b),
         calls' \in [Dispatchers -> Seq(Call)], \A p \in Dispatchers : p # t => calls'[p] = calls[p],
         UNCHANGED <<http, array, len, toAdd, adding, removed>>
  PROVE  Inv'
  <1> DEFINE l == [loop[t] EXCEPT !.verdict = v, !.errs = b]
  <1>1. loop' = [loop EXCEPT ![t].verdict = v, ![t].errs = b] /\ mutex' = IF mutex = t THEN NoOne ELSE mutex
    BY Zenon DEF Leave
  <1>2. loop' = [loop EXCEPT ![t] = l]
    BY <1>1, LoopFacts, TwoFields, Zenon
  <1>3. l \in LoopType /\ l.i = loop[t].i /\ l.n = loop[t].n /\ l.verdict = v
    <2>1. v \in {"none", "next", "break", "fail"} /\ loop[t] \in LoopType
      BY LoopFacts
    <2> QED
      BY <2>1, LeaveRecord, Zenon DEF LoopType
  <1> HIDE DEF l
  <1>4. l.i <= l.n
    BY <1>3, LoopFacts
  <1>5. /\ loop' \in [Dispatchers -> LoopType]
        /\ loop'[t] = l /\ \A p \in Dispatchers : p # t => loop'[p] = loop[p]
        /\ \A p \in Dispatchers : loop'[p].i <= loop'[p].n /\ loop'[p].n <= MaxHandlers
    BY <1>2, <1>3, <1>4, LoopTypes
  <1>6. AddingInv' /\ RoomInv' /\ ListInv' /\ mutex' \in Users \cup Dispatchers \cup {NoOne}
    BY <1>1, LoopStep
  <1>7. TypeOK' /\ DispatchType'
    BY <1>5, <1>6 DEF Inv, TypeOK, DispatchType
  <1>8. InitLoopInv'
    <2>1. CASE t = Proc
      BY <1>3, <1>5, <2>1 DEF InitLoopInv
    <2>2. CASE t # Proc
      <3>1. loop'[Proc] = loop[Proc] /\ calls'[Proc] = calls[Proc] /\ (mutex = Proc => mutex' = Proc)
        BY <1>1, <1>5, <2>2
      <3> QED
        BY <3>1 DEF Inv, InitLoopInv
    <2> QED
      BY <2>1, <2>2
  <1> QED
    BY <1>6, <1>7, <1>8 DEF Inv

(* An entry that is no ConnectionInitHandler is passed without a call. *)
LEMMA AskedSkip ==
  ASSUME NEW c \in Seq(Call), NEW a, NEW i \in Nat, Asked(c, a, i),
         ~(a[i + 1] \in Hs /\ "init" \in Roles[a[i + 1]])
  PROVE  Asked(c, a, i + 1)
  <1>1. 1 .. i \subseteq 1 .. i + 1 /\ \A j \in 1 .. i + 1 : j \in 1 .. i \/ j = i + 1
    OBVIOUS
  <1>2. \A k \in 1 .. Len(c) :
          /\ c[k].res \in {"nil", "prevented"} /\ "init" \in Roles[c[k].h]
          /\ \E j \in 1 .. i + 1 : a[j] = c[k].h
    BY <1>1, Zenon DEF Asked
  <1>3. \A j \in 1 .. i + 1 :
          a[j] \in Hs /\ "init" \in Roles[a[j]] => \E k \in 1 .. Len(c) : c[k].h = a[j]
    BY <1>1, Zenon DEF Asked
  <1> QED
    BY <1>2, <1>3, Zenon DEF Asked

(* A ConnectionInitHandler is called at its entry and, the entries being distinct,
   was not called before. *)
LEMMA AskedCall ==
  ASSUME NEW c \in Seq(Call), NEW a, NEW i \in Nat, NEW n \in Nat, i + 1 <= n, Asked(c, a, i),
         \A j, k \in 1 .. n : a[j] = a[k] /\ a[j] \in Hs => j = k,
         a[i + 1] \in Hs, "init" \in Roles[a[i + 1]], NEW res \in {"nil", "prevented"}
  PROVE  Asked(Append(c, [h |-> a[i + 1], res |-> res]), a, i + 1)
  <1> DEFINE x == [h |-> a[i + 1], res |-> res]
             d == Append(c, x)
  <1>1. x.h = a[i + 1] /\ x.res = res
    OBVIOUS
  <1>2. 1 .. i \subseteq 1 .. i + 1 /\ i + 1 \in 1 .. i + 1 /\ \A j \in 1 .. i + 1 : j \in 1 .. i \/ j = i + 1
    OBVIOUS
  <1>3. x \in Call
    BY DEF Call, AllResults
  <1> HIDE DEF x
  <1>4. /\ Len(d) = Len(c) + 1 /\ Len(c) \in Nat
        /\ \A k \in 1 .. Len(c) : d[k] = c[k]
        /\ d[Len(c) + 1] = x
    BY <1>3
  <1> HIDE DEF d
  <1>5. /\ 1 .. Len(c) \subseteq 1 .. Len(d) /\ Len(c) + 1 \in 1 .. Len(d)
        /\ \A k \in 1 .. Len(d) : k \in 1 .. Len(c) \/ k = Len(c) + 1
    BY <1>4
  <1>6. \A k \in 1 .. Len(c) : c[k].h # a[i + 1]
    <2> SUFFICES ASSUME NEW k \in 1 .. Len(c), c[k].h = a[i + 1] PROVE FALSE
      OBVIOUS
    <2>0. \E j \in 1 .. i : a[j] = c[k].h
      BY Zenon DEF Asked
    <2>1. PICK j \in 1 .. i : a[j] = a[i + 1]
      BY <2>0
    <2>2. j \in 1 .. n /\ i + 1 \in 1 .. n /\ j # i + 1
      OBVIOUS
    <2> QED
      BY <2>1, <2>2
  <1>7. ASSUME NEW k \in 1 .. Len(d)
        PROVE  /\ d[k].res \in {"nil", "prevented"} /\ "init" \in Roles[d[k].h]
               /\ \E j \in 1 .. i + 1 : a[j] = d[k].h
    <2>1. CASE k \in 1 .. Len(c)
      <3>1. d[k] = c[k]
        BY <1>4, <2>1
      <3>2. /\ c[k].res \in {"nil", "prevented"} /\ "init" \in Roles[c[k].h]
            /\ \E j \in 1 .. i : a[j] = c[k].h
        BY <2>1, Zenon DEF Asked
      <3> QED
        BY <1>2, <3>1, <3>2, Zenon
    <2>2. CASE k = Len(c) + 1
      BY <1>1, <1>2, <1>4, <2>2, Zenon
    <2> QED
      BY <1>5, <2>1, <2>2
  <1>8. ASSUME NEW j \in 1 .. i + 1, a[j] \in Hs, "init" \in Roles[a[j]]
        PROVE  \E k \in 1 .. Len(d) : d[k].h = a[j]
    <2>1. CASE j \in 1 .. i
      <3>1. PICK k \in 1 .. Len(c) : c[k].h = a[j]
        BY <1>8, <2>1, Zenon DEF Asked
      <3> QED
        BY <1>4, <1>5, <3>1, Zenon
    <2>2. CASE j = i + 1
      BY <1>1, <1>4, <1>5, <2>2, Zenon
    <2> QED
      BY <1>2, <2>1, <2>2
  <1>9. ASSUME NEW j \in 1 .. Len(d), NEW k \in 1 .. Len(d), d[j].h = d[k].h
        PROVE  j = k
    <2>1. CASE j \in 1 .. Len(c) /\ k \in 1 .. Len(c)
      <3>1. c[j].h = c[k].h
        BY <1>4, <1>9, <2>1
      <3> QED
        BY <2>1, <3>1, Zenon DEF Asked
    <2>2. CASE j = Len(c) + 1 /\ k \in 1 .. Len(c)
      BY <1>1, <1>4, <1>6, <1>9, <2>2, Zenon
    <2>3. CASE j \in 1 .. Len(c) /\ k = Len(c) + 1
      BY <1>1, <1>4, <1>6, <1>9, <2>3, Zenon
    <2> QED
      BY <1>5, <2>1, <2>2, <2>3
  <1>10. Asked(d, a, i + 1)
    BY <1>7, <1>8, <1>9, Zenon DEF Asked
  <1> QED
    BY <1>10, Zenon DEF d, x

(* A loop that goes on has passed one more entry; the loop of connection_init has
   called it exactly if it is a ConnectionInitHandler. *)
LEMMA AdvanceInv ==
  ASSUME Inv, NEW t \in Dispatchers, NEW l \in LoopType, loop' = [loop EXCEPT ![t] = l],
         loop[t].i < loop[t].n, l.i = loop[t].i + 1, l.n = loop[t].n,
         l.event = loop[t].event, l.verdict = loop[t].verdict,
         calls' \in [Dispatchers -> Seq(Call)], \A p \in Dispatchers : p # t => calls'[p] = calls[p],
         UNCHANGED <<http, mutex, array, len, toAdd, adding, removed>>,
         l.event = "init" =>
           \/ /\ array[l.i] \in Hs /\ "init" \in Roles[array[l.i]]
              /\ \E res \in {"nil", "prevented"} :
                   calls'[t] = Append(calls[t], [h |-> array[l.i], res |-> res])
           \/ ~(array[l.i] \in Hs /\ "init" \in Roles[array[l.i]]) /\ calls'[t] = calls[t]
  PROVE  Inv'
  <1>0. loop[t].i \in 0 .. MaxHandlers /\ loop[t].n \in 0 .. MaxHandlers /\ MaxHandlers \in Nat
    BY LoopFacts, HandlersAssumption DEF HandlersAssumption
  <1>1. l.i <= l.n /\ loop[t].i \in Nat /\ l.i \in 1 .. MaxHandlers
    BY <1>0
  <1>2. /\ loop' \in [Dispatchers -> LoopType]
        /\ loop'[t] = l /\ \A p \in Dispatchers : p # t => loop'[p] = loop[p]
        /\ \A p \in Dispatchers : loop'[p].i <= loop'[p].n /\ loop'[p].n <= MaxHandlers
    BY <1>1, LoopTypes
  <1>3. AddingInv' /\ RoomInv' /\ ListInv' /\ mutex' \in Users \cup Dispatchers \cup {NoOne}
    BY LoopStep
  <1>4. TypeOK' /\ DispatchType'
    BY <1>2, <1>3 DEF Inv, TypeOK, DispatchType
  <1>5. InitLoopInv'
    <2>1. CASE t # Proc
      BY <1>2, <2>1 DEF Inv, InitLoopInv
    <2>2. CASE t = Proc /\ ~(l.event = "init" /\ l.verdict = "next")
      BY <1>2, <2>2 DEF InitLoopInv
    <2>3. CASE t = Proc /\ l.event = "init" /\ l.verdict = "next"
      <3>1. mutex = Proc /\ loop[t].n = len /\ Asked(calls[t], array, loop[t].i)
        BY <2>3 DEF Inv, InitLoopInv
      <3>2. calls[t] \in Seq(Call) /\ loop[t].i \in Nat /\ loop[t].i + 1 <= len
        BY <1>1, <3>1, LoopFacts
      <3>3. /\ len \in Nat
            /\ \A j, k \in 1 .. len : array[j] = array[k] /\ array[j] \in Hs => j = k
        BY DEF Inv, TypeOK, ListInv
      <3>4. Asked(calls'[t], array, loop[t].i + 1)
        <4> DEFINE c == calls[t]
                   i == loop[t].i
        <4>0. c \in Seq(Call) /\ Asked(c, array, i) /\ l.i = i + 1
          BY <3>1, <3>2
        <4> HIDE DEF c, i
        <4>1. CASE ~(array[l.i] \in Hs /\ "init" \in Roles[array[l.i]]) /\ calls'[t] = calls[t]
          BY <3>2, <4>0, <4>1, AskedSkip, Zenon DEF c, i
        <4>2. CASE /\ array[l.i] \in Hs /\ "init" \in Roles[array[l.i]]
                   /\ \E res \in {"nil", "prevented"} :
                        calls'[t] = Append(calls[t], [h |-> array[l.i], res |-> res])
          <5>1. PICK res \in {"nil", "prevented"} :
                  calls'[t] = Append(c, [h |-> array[i + 1], res |-> res])
            BY <4>0, <4>2 DEF c
          <5>2. i \in Nat /\ i + 1 <= len /\ array[i + 1] \in Hs /\ "init" \in Roles[array[i + 1]]
            BY <3>2, <4>0, <4>2 DEF i
          <5>3. Asked(Append(c, [h |-> array[i + 1], res |-> res]), array, i + 1)
            BY <3>3, <4>0, <5>2, AskedCall, Zenon
          <5> QED
            BY <5>1, <5>3, Zenon DEF i
        <4> QED
          BY <2>3, <4>1, <4>2
      <3> QED
        BY <1>2, <2>3, <3>1, <3>4 DEF InitLoopInv
    <2> QED
      BY <2>1, <2>2, <2>3
  <1> QED
    BY <1>3, <1>4, <1>5 DEF Inv

(* What a handler's result means for its loop. *)
LEMMA VerdictType ==
  ASSUME NEW e, NEW res \in AllResults
  PROVE  /\ Verdict(e, res) \in {"next", "break", "fail"}
         /\ Verdict("init", res) = "next" => res \in {"nil", "prevented"}
  BY DEF Verdict, AllResults, Stopped, Prevented

(* A loop passes an entry, which it calls, leaves after or skips. *)
LEMMA CallHandlerInv ==
  ASSUME Inv, NEW t \in Dispatchers, CallHandler(t)
  PROVE  Inv'
  <1> DEFINE k == loop[t].i + 1
             e == loop[t].event
             h == array[k]
  <1>1. /\ loop[t].i < loop[t].n /\ UNCHANGED <<http, array, len, toAdd, adding, removed>>
        /\ k \in 0 .. MaxHandlers /\ loop[t] \in LoopType
        /\ calls \in [Dispatchers -> Seq(Call)] /\ loop \in [Dispatchers -> LoopType]
    BY LoopFacts DEF CallHandler
  <1>2. CASE h \in Hs /\ e \in Roles[h]
    <2>1. PICK res \in ResultsOf(e) :
            /\ calls' = IF e \in Recorded
                          THEN [calls EXCEPT ![t] = Append(@, [h |-> h, res |-> res])]
                          ELSE calls
            /\ IF Verdict(e, res) = "next"
                 THEN /\ loop' = [loop EXCEPT ![t].i = k, ![t].errs = Aggregate(loop[t].errs, res)]
                      /\ UNCHANGED mutex
                 ELSE Leave(t, Verdict(e, res), Aggregate(loop[t].errs, res))
      BY <1>2, Zenon DEF CallHandler
    <2> DEFINE b == Aggregate(loop[t].errs, res)
    <2>2. b \in BOOLEAN
      BY ErrsType, Zenon DEF Aggregate
    <2>3. res \in AllResults
      BY DEF ResultsOf
    <2>4. [h |-> h, res |-> res] \in Call
      BY <1>2, <2>3 DEF Call
    <2>5. /\ calls' \in [Dispatchers -> Seq(Call)]
          /\ e = "init" => calls'[t] = Append(calls[t], [h |-> h, res |-> res])
          /\ \A p \in Dispatchers : p # t => calls'[p] = calls[p]
      BY <1>1, <2>1, <2>4, HandlersAssumption
    <2>6. CASE Verdict(e, res) = "next"
      <3> DEFINE l == [loop[t] EXCEPT !.i = k, !.errs = b]
      <3>1. loop' = [loop EXCEPT ![t].i = k, ![t].errs = b] /\ UNCHANGED mutex
        BY <2>1, <2>6, Zenon
      <3>2. loop' = [loop EXCEPT ![t] = l]
        BY <1>1, <3>1, TwoFields, Zenon
      <3>3. l \in LoopType /\ l.i = k /\ l.n = loop[t].n /\ l.event = e /\ l.verdict = loop[t].verdict
        BY <1>1, <2>2, AdvanceRecord, Zenon DEF LoopType
      <3> HIDE DEF l
      <3>4. l.event = "init" =>
              /\ array[l.i] \in Hs /\ "init" \in Roles[array[l.i]]
              /\ \E r \in {"nil", "prevented"} :
                   calls'[t] = Append(calls[t], [h |-> array[l.i], res |-> r])
        BY <1>2, <2>3, <2>5, <2>6, <3>3, VerdictType
      <3> QED
        BY <1>1, <2>5, <3>1, <3>2, <3>3, <3>4, AdvanceInv
    <2>7. CASE Verdict(e, res) # "next"
      <3>1. Verdict(e, res) \in {"break", "fail"}
        BY <2>3, <2>7, VerdictType
      <3>2. Leave(t, Verdict(e, res), b)
        BY <2>1, <2>7, Zenon
      <3> QED
        BY <1>1, <2>2, <2>5, <3>1, <3>2, LeaveInv, Zenon
    <2> QED
      BY <2>6, <2>7
  <1>3. CASE ~(h \in Hs /\ e \in Roles[h])
    <2> DEFINE l == [loop[t] EXCEPT !.i = k]
    <2>1. loop' = [loop EXCEPT ![t].i = k] /\ UNCHANGED <<mutex, calls>>
      BY <1>3, Zenon DEF CallHandler
    <2>2. loop' = [loop EXCEPT ![t] = l]
      BY <1>1, <2>1, TwoFields, Zenon
    <2>3. l \in LoopType /\ l.i = k /\ l.n = loop[t].n /\ l.event = e /\ l.verdict = loop[t].verdict
      BY <1>1, SkipRecord, Zenon DEF LoopType
    <2> HIDE DEF l
    <2>4. l.event = "init" =>
            ~(array[l.i] \in Hs /\ "init" \in Roles[array[l.i]]) /\ calls'[t] = calls[t]
      BY <1>3, <2>1, <2>3
    <2>5. calls' \in [Dispatchers -> Seq(Call)] /\ \A p \in Dispatchers : p # t => calls'[p] = calls[p]
      BY <1>1, <2>1
    <2> QED
      BY <1>1, <2>1, <2>2, <2>3, <2>4, <2>5, AdvanceInv
  <1> QED
    BY <1>2, <1>3

(* A loop that has passed its last entry. *)
LEMMA EndDispatchInv ==
  ASSUME Inv, NEW t \in Dispatchers, EndDispatch(t)
  PROVE  Inv'
  <1> DEFINE v == IF loop[t].errs THEN "fail" ELSE "break"
  <1>1. Leave(t, v, loop[t].errs) /\ UNCHANGED <<http, array, len, toAdd, adding, removed, calls>>
    BY Zenon DEF EndDispatch
  <1>2. v \in {"break", "fail"}
    OBVIOUS
  <1>3. calls' \in [Dispatchers -> Seq(Call)] /\ \A p \in Dispatchers : p # t => calls'[p] = calls[p]
    BY <1>1, LoopFacts
  <1>4. UNCHANGED <<http, array, len, toAdd, adding, removed>>
    BY <1>1
  <1> HIDE DEF v
  <1> QED
    BY <1>1, <1>2, <1>3, <1>4, ErrsType, LeaveInv, Zenon

(* Every step keeps the invariant. *)
LEMMA NextInv ==
  ASSUME Inv, [Next]_vars
  PROVE  Inv'
  <1>1. CASE Refuse \/ Upgrade \/ NewConn
    BY <1>1, HttpInv
  <1>2. ASSUME NEW u \in Users, AddHandler(u) PROVE Inv'
    BY <1>2, AddHandlerInv
  <1>3. ASSUME NEW u \in Users, HandlerAdded(u) PROVE Inv'
    BY <1>3, HandlerAddedInv
  <1>4. ASSUME NEW u \in Users, RemoveHandler(u) PROVE Inv'
    BY <1>4, RemoveHandlerInv
  <1>5. ASSUME NEW t \in Dispatchers, BeginDispatch(t) PROVE Inv'
    BY <1>5, BeginDispatchInv
  <1>6. ASSUME NEW t \in Dispatchers, CallHandler(t) PROVE Inv'
    BY <1>6, CallHandlerInv
  <1>7. ASSUME NEW t \in Dispatchers, EndDispatch(t) PROVE Inv'
    BY <1>7, EndDispatchInv
  <1>8. CASE UNCHANGED vars
    <2>1. UNCHANGED <<http, mutex, array, len, toAdd, adding, removed, loop, calls>>
      BY <1>8 DEF vars, registry, dispatch
    <2>2. TypeOK' /\ DispatchType'
      BY <2>1 DEF Inv, TypeOK, DispatchType
    <2>3. AddingInv' /\ RoomInv' /\ ListInv'
      BY <2>1, LoopStep
    <2>4. InitLoopInv'
      BY <2>1 DEF Inv, InitLoopInv
    <2> QED
      BY <2>2, <2>3, <2>4 DEF Inv
  <1> QED
    BY <1>1, <1>2, <1>3, <1>4, <1>5, <1>6, <1>7, <1>8, Zenon DEF Next

(* The invariant holds throughout. *)
LEMMA InvAlways == Spec => []Inv
  <1>1. Init => Inv
    BY InitInv
  <1>2. Inv /\ [Next]_vars => Inv'
    BY NextInv
  <1> QED
    BY <1>1, <1>2, PTL DEF Spec

(* The list and the handlers being added are all the registered handlers. *)
LEMMA InvNoHandlerLost == Inv => NoHandlerLost
  <1> SUFFICES ASSUME Inv PROVE NoHandlerLost
    OBVIOUS
  <1>1. List \cap Hs \subseteq Registered
    <2> SUFFICES ASSUME NEW k \in 1 .. len, array[k] \in Hs PROVE array[k] \in Registered
      BY DEF List
    <2>1. array[k] \notin toAdd \cup removed
      BY DEF Inv, ListInv
    <2>2. \A u \in Users : adding[u].h # array[k]
      BY DEF Inv, TypeOK, AddingInv
    <2> QED
      BY <2>1, <2>2 DEF Registered
  <1>2. ASSUME removed = {}, NEW h \in Registered PROVE h \in List
    <2>1. h \in Hs \ toAdd /\ \A u \in Users : adding[u].h # h
      BY DEF Registered
    <2> QED
      BY <1>2, <2>1 DEF Inv, ListInv, List
  <1> QED
    BY <1>1, <1>2 DEF NoHandlerLost

(* A loop of connection_init that is through has asked every entry of the list. *)
LEMMA InvInitAsks == Inv => InitAsksEveryHandler
  <1> DEFINE c == calls[Proc]
  <1> SUFFICES ASSUME Inv, loop[Proc].event = "init", Running(Proc), loop[Proc].i = loop[Proc].n
               PROVE  /\ {c[k].h : k \in 1 .. Len(c)} = {h \in List \cap Hs : "init" \in Roles[h]}
                      /\ \A j, k \in 1 .. Len(c) : c[j].h = c[k].h => j = k
                      /\ \A k \in 1 .. Len(c) : c[k].res \in {"nil", "prevented"}
    BY DEF InitAsksEveryHandler
  <1>1. Asked(c, array, len)
    BY DEF Inv, InitLoopInv
  <1>2. \A k \in 1 .. Len(c) : c[k].h \in Hs
    <2>1. c \in Seq(Call)
      BY LoopFacts
    <2> HIDE DEF c
    <2>2. \A k \in 1 .. Len(c) : c[k] \in Call
      BY <2>1
    <2>3. \A x \in Call : x.h \in Hs
      BY DEF Call
    <2> QED
      BY <2>2, <2>3
  <1> HIDE DEF c
  <1>3. ASSUME NEW k \in 1 .. Len(c) PROVE c[k].h \in List /\ "init" \in Roles[c[k].h]
    <2>1. "init" \in Roles[c[k].h] /\ \E j \in 1 .. len : array[j] = c[k].h
      BY <1>1, Zenon DEF Asked
    <2> QED
      BY <2>1 DEF List
  <1>4. ASSUME NEW h \in List \cap Hs, "init" \in Roles[h] PROVE \E k \in 1 .. Len(c) : c[k].h = h
    <2>1. PICK j \in 1 .. len : array[j] = h
      BY DEF List
    <2> QED
      BY <1>1, <1>4, <2>1, Zenon DEF Asked
  <1>5. {c[k].h : k \in 1 .. Len(c)} = {h \in List \cap Hs : "init" \in Roles[h]}
    BY <1>2, <1>3, <1>4
  <1> QED
    BY <1>1, <1>5, Zenon DEF Asked

(* The handlers keep their types whatever the application's handlers return: no
   loop and no append reads or writes outside the array that NewConn allocates. *)
THEOREM TypeCorrect == Spec => []TypeOK
  <1>1. Inv => TypeOK
    BY DEF Inv
  <1> QED
    BY <1>1, InvAlways, PTL

(* No AddHandler is lost to another one, and no removed handler stays in the list:
   handlersMutex is held from the load of the length to its write-back. *)
THEOREM NoAddedHandlerIsLost == Spec => []NoHandlerLost
  BY InvAlways, InvNoHandlerLost, PTL

(* A connection_init that goes through its handlers to the end has asked each of
   those in the list once, and none refused. *)
THEOREM InitAsksAll == Spec => []InitAsksEveryHandler
  BY InvAlways, InvInitAsks, PTL
=============================================================================

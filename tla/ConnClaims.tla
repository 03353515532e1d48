----------------------------- MODULE ConnClaims -----------------------------
(***************************************************************************)
(* What the comments of the repository say of a connection and TLC refutes *)
(* (one configuration each).                                               *)
(***************************************************************************)
EXTENDS Conn

(* Every panic met while serving a client reaches the SystemRecoverHandlers;
   none ends the process (handlers.go, SystemRecoverHandler).  readPump has no
   recover, and its send of an EOF may meet a closed channel. *)
NoUnrecoveredPanic == ~Crashed

(* The state, guarded by a RWMutex "to ensure that no race conditions happen"
   (setState), never leaves Closed. *)
ClosedIsFinal == [][state = "closed" => state' = "closed"]_vars

(* What is received from the closed outgoing channel is recognised ("!ok: The
   outgoingMessages channel was closed", processOutgoingMessage) and not written
   to the client as a message. *)
NoNullFrame == "null" \notin written

(* A connection_init is answered by an ack or by a connection_error (GQLConnectionInit)
   before processMessages ends.  Stated for a client that only sends
   connection_init, on a connection nobody else closes. *)
InitAnswered ==
  pc[Proc] = "done" => written \cap {"connection_ack", "connection_error"} # {}

(* A second connection_init is refused (ErrReinitializationForbidden "is
   triggered when a gqlConnectionInit is received twice"). *)
ReinitializationForbidden ==
  [][accepted /\ Processing("connection_init") => pc'[Proc] # "setState"]_vars

(* A connection_terminate ends the connection (GQLConnectionTerminate): the EOF
   that processMessages sends itself ends processMessages. *)
TerminateTerminates == pc[Proc] = "eof" ~> pc[Proc] \in {"done", Dead}

(* "Close finishes the connection": a call of Close comes back. *)
CloseFinishes == \A a \in Apps : pc[a] = "Close" ~> pc[a] \in {"idle", Dead}
=============================================================================

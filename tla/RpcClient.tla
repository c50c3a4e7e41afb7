------------------------------ MODULE RpcClient ------------------------------
(***************************************************************************)
(* The wallet's JSON-RPC client (src/src/core/rpc.mjs): one shared socket, *)
(* requests that wait for their quota and for the connection, replies and  *)
(* streams matched to the socket they were written on, and the outcome     *)
(* each caller is given.                                                   *)
(*                                                                         *)
(* A member of Requests is a caller, with one request at a time.  Its      *)
(* record says where request() stands, the socket it waits for or was      *)
(* written on, and what its promise settled with; a broadcast stays        *)
(* "settled" until its caller goes on, and a stream whose consumer gave up *)
(* stays in "stream" with its result until it has drained.  `aborted' are  *)
(* the live requests whose signal, their own or the client's, has fired;   *)
(* `node' is what the server did with the bytes of a broadcast.            *)
(*                                                                         *)
(* Time is abstract: a timer may fire whenever the code has it running.    *)
(* The quota windows and the cooldowns the server asks for only delay a    *)
(* request, so they have no variables: pacing may take any time.           *)
(***************************************************************************)
EXTENDS Naturals, FiniteSets

CONSTANTS
  Requests,     \* callers of request()
  Method,       \* [Requests -> Methods]
  Sockets,      \* connections that may exist at once (a bound)
  MaxQueued,    \* 32 in the code
  MaxPending,   \* 12 in the code
  None

Methods == {"read", "stream", "broadcast"}

ASSUME ClientAssumption ==
  /\ Method \in [Requests -> Methods]
  /\ None \notin Sockets
  /\ IsFiniteSet(Requests) /\ {MaxQueued, MaxPending} \subseteq Nat \ {0}

VARIABLES
  requests,            \* queuedRequests, pending, streams and their promises
  aborted,             \* requests whose signal has fired while they wait or are sent
  node,                \* the server's side of each request
  sockets,             \* state of each net.Socket
  socket, connecting,  \* the fields of these names
  closed

clientVars == <<requests, sockets, socket, connecting, closed>>

Stages == {"idle", "pacing", "connecting", "pending", "stream", "settled"}
Results == {"none", "ok", "rejected", "failed", "notSent", "unknown"}
Request == [stage : Stages, on : Sockets \cup {None}, result : Results]
Fates == {"none", "wire", "accepted", "refused"}

Idle == [stage |-> "idle", on |-> None, result |-> "none"]

ClientTyped ==
  /\ requests \in [Requests -> Request] /\ aborted \subseteq Requests
  /\ node \in [Requests -> Fates]
  /\ sockets \in [Sockets -> {"unused", "connecting", "open", "destroyed"}]
  /\ socket \in Sockets \cup {None} /\ connecting \in Sockets \cup {None}
  /\ closed \in BOOLEAN

ClientInit ==
  /\ requests = [r \in Requests |-> Idle]
  /\ aborted = {} /\ node = [r \in Requests |-> "none"]
  /\ sockets = [s \in Sockets |-> "unused"] /\ socket = None /\ connecting = None
  /\ closed = FALSE

-----------------------------------------------------------------------------
Waiting(r) == requests[r].stage \in {"pacing", "connecting"}
Sent(r)    == requests[r].stage \in {"pending", "stream"}
\* pending and streams, abandoned streams included.
InFlight   == {r \in Requests : Sent(r)}
\* queuedRequests: request() has not returned.
Queued     == {r \in Requests : (Waiting(r) \/ Sent(r)) /\ requests[r].result = "none"}
Usable     == socket # None /\ sockets[socket] = "open"

Settled(r, result) ==
  IF Method[r] = "broadcast" THEN [stage |-> "settled", on |-> None, result |-> result] ELSE Idle
Settle(r, result)  == requests' = [requests EXCEPT ![r] = Settled(r, result)]

\* What a lost request settles with.
lossError(r, reason) == IF Method[r] = "broadcast" THEN "unknown" ELSE reason

\* failAll: the requests in R are given up, with `reason' unless their outcome
\* is unknown; the consumer of an abandoned stream has its result already.
failAll(R, reason) ==
  [r \in Requests |->
     IF r \notin R THEN requests[r]
     ELSE Settled(r, IF requests[r].result # "none" THEN requests[r].result
                     ELSE lossError(r, reason))]

\* Faulty variant: a closing socket fails only what waits on the current one.
ownersCurrent(s) == {r \in InFlight : requests[r].on = s /\ socket = s}

owners(s) == {r \in InFlight : requests[r].on = s}
waiters(s) == {r \in Requests : requests[r].stage = "connecting" /\ requests[r].on = s}

\* The signals of some requests fire; those of settled requests are forgotten.
Signal(fired) ==
  aborted' = {r \in aborted \cup fired : requests'[r].stage \notin {"idle", "settled"}}

-----------------------------------------------------------------------------
(* A request, up to its transmission.                                      *)

\* request(): refused, cancelled beforehand, or queued behind its quota.
request(r) ==
  /\ requests[r].stage = "idle"
  /\ requests' = [requests EXCEPT ![r] =
       IF r \in aborted \/ closed THEN Settled(r, "notSent")
       ELSE IF Cardinality(Queued) >= MaxQueued THEN Settled(r, "failed")
       ELSE [@ EXCEPT !.stage = "pacing"]]
  /\ UNCHANGED <<sockets, socket, connecting, closed>>

\* Faulty variant: a socket that still connects is not shared.
connectAnew(s) ==
  IF Usable THEN s = socket /\ UNCHANGED <<sockets, socket, connecting>>
  ELSE /\ sockets[s] = "unused"
       /\ sockets' = [sockets EXCEPT ![s] = "connecting"]
       /\ socket' = s /\ connecting' = s

\* connect(): the socket a request will use, opened if there is none.
connect(s) ==
  IF Usable THEN s = socket /\ UNCHANGED <<sockets, socket, connecting>>
  ELSE IF connecting # None THEN s = connecting /\ UNCHANGED <<sockets, socket, connecting>>
  ELSE /\ sockets[s] = "unused"
       /\ sockets' = [sockets EXCEPT ![s] = "connecting"]
       /\ socket' = s /\ connecting' = s

\* pace: a place in the quota window is found, and the connection is asked for.
pace(r) ==
  /\ requests[r].stage = "pacing" /\ r \notin aborted
  /\ \E s \in Sockets :
       /\ connect(s)
       /\ requests' = [requests EXCEPT ![r].stage = "connecting", ![r].on = s]
  /\ UNCHANGED closed

\* pace: too many quota windows are being tracked.
paceFails(r) ==
  /\ requests[r].stage = "pacing" /\ r \notin aborted /\ Settle(r, "failed")
  /\ UNCHANGED <<sockets, socket, connecting, closed>>

\* Faulty variant: a cancelled request counts as unsent wherever it stands.
cancelledAnywhere(r) ==
  /\ Waiting(r) \/ (Sent(r) /\ requests[r].result = "none")
  /\ r \in aborted
  /\ Settle(r, "notSent")
  /\ UNCHANGED <<sockets, socket, connecting, closed>>

\* The signal fires before the transmission: notSent.
cancelled(r) ==
  /\ Waiting(r) /\ r \in aborted
  /\ Settle(r, "notSent")
  /\ UNCHANGED <<sockets, socket, connecting, closed>>

\* Faulty variant: the limit of requests in flight was tested before the wait.
MayWriteFull(r) == Usable /\ socket = requests[r].on

\* The tests between the connection and the write.
MayWrite(r) ==
  /\ Usable /\ socket = requests[r].on
  /\ Cardinality(InFlight) < MaxPending

\* The connection was made, and request() goes on to write.
write(r) ==
  /\ requests[r].stage = "connecting" /\ r \notin aborted
  /\ sockets[requests[r].on] # "connecting"
  /\ IF MayWrite(r)
     THEN /\ requests' = [requests EXCEPT ![r].stage = "pending"]
          /\ node' = [node EXCEPT ![r] = "wire"]
     ELSE Settle(r, "failed") /\ UNCHANGED node
  /\ UNCHANGED <<sockets, socket, connecting, closed>>

-----------------------------------------------------------------------------
(* Events of the sockets.  Whoever waits for a connection goes on in the   *)
(* turn that settles it, so the close event finds no waiters.  The         *)
(* identity of a socket that has closed is used again.                     *)

connected(s) ==
  /\ sockets[s] = "connecting"
  /\ connecting' = IF connecting = s THEN None ELSE connecting
  /\ IF closed \/ socket # s
     THEN /\ sockets' = [sockets EXCEPT ![s] = "destroyed"]
          /\ requests' = [r \in Requests |->
                            IF r \in waiters(s) THEN Settled(r, "failed") ELSE requests[r]]
     ELSE sockets' = [sockets EXCEPT ![s] = "open"] /\ UNCHANGED requests
  /\ UNCHANGED <<socket, closed>>

\* An error or the connection timer, before the connection is made.
connectFails(s) ==
  /\ sockets[s] = "connecting"
  /\ connecting' = IF connecting = s THEN None ELSE connecting
  /\ sockets' = [sockets EXCEPT ![s] = "destroyed"]
  /\ requests' = [r \in Requests |->
                    IF r \in waiters(s) THEN Settled(r, "failed") ELSE requests[r]]
  /\ UNCHANGED <<socket, closed>>

\* Faulty variant: the timer of a request is not set again for its stream.
breaksPending(s) ==
  /\ sockets[s] = "open" /\ \E r \in owners(s) : requests[r].stage = "pending"
  /\ requests' = failAll(owners(s), "failed")
  /\ sockets' = [sockets EXCEPT ![s] = "destroyed"]
  /\ UNCHANGED <<socket, connecting, closed>>

\* An invalid frame, an incomplete or endless stream, a failed write, or the
\* timer of a request: everything on the socket fails and it is destroyed.
breaks(s) ==
  /\ sockets[s] = "open" /\ owners(s) # {}
  /\ requests' = failAll(owners(s), "failed")
  /\ sockets' = [sockets EXCEPT ![s] = "destroyed"]
  /\ UNCHANGED <<socket, connecting, closed>>

\* The server hangs up or the network fails: the socket is destroyed, and its
\* close event is to come.
drops(s) ==
  /\ sockets[s] = "open" /\ sockets' = [sockets EXCEPT ![s] = "destroyed"]
  /\ UNCHANGED <<requests, socket, connecting, closed>>

\* The close event.
closes(s) ==
  /\ sockets[s] = "destroyed" /\ waiters(s) = {}
  /\ requests' = failAll(owners(s), "failed")
  /\ sockets' = [sockets EXCEPT ![s] = "unused"]
  /\ socket' = IF socket = s THEN None ELSE socket
  /\ UNCHANGED <<connecting, closed>>

-----------------------------------------------------------------------------
(* Frames of the server.                                                   *)

\* The server reads a request; only broadcasts have an effect.
process(r) ==
  /\ node[r] = "wire" /\ Method[r] = "broadcast"
  /\ \E fate \in {"accepted", "refused"} : node' = [node EXCEPT ![r] = fate]
  /\ UNCHANGED clientVars

Readable(r) == Sent(r) /\ requests[r].on = socket /\ Usable

\* What a reply may say: a known rejection is given for refused bytes only, but
\* any other error may follow an acceptance as well.
Answers(r) ==
  IF Method[r] # "broadcast" THEN {"ok", "failed"}
  ELSE IF node[r] = "accepted" THEN {"ok", "failed"}
  ELSE IF node[r] = "refused" THEN {"rejected", "failed"}
  ELSE {"failed"}

\* receive of a reply.
reply(r) ==
  /\ requests[r].stage = "pending" /\ Readable(r)
  /\ \E answer \in Answers(r) :
       /\ requests' = [requests EXCEPT ![r] =
            IF answer = "ok" /\ Method[r] = "stream" THEN [@ EXCEPT !.stage = "stream"]
            ELSE Settled(r, answer)]
  /\ UNCHANGED <<sockets, socket, connecting, closed>>

\* receive of a chunk whose consumer has been cancelled: it is told so, while
\* the stream drains.
abandoned(r) ==
  /\ requests[r].stage = "stream" /\ requests[r].result = "none" /\ Readable(r)
  /\ r \in aborted
  /\ requests' = [requests EXCEPT ![r].result = "failed"]
  /\ UNCHANGED <<sockets, socket, connecting, closed>>

\* receive of a complete stream's end.
streamEnd(r) ==
  /\ requests[r].stage = "stream" /\ Readable(r)
  /\ Settle(r, IF requests[r].result = "none" THEN "ok" ELSE requests[r].result)
  /\ UNCHANGED <<sockets, socket, connecting, closed>>

-----------------------------------------------------------------------------
\* close(): every signal fires, everything on the wire is given up.
close ==
  /\ closed' = TRUE
  /\ requests' = failAll(InFlight, "failed") /\ Signal(Requests)
  /\ sockets' = IF socket = None THEN sockets
                ELSE [sockets EXCEPT ![socket] = "destroyed"]
  /\ socket' = None /\ UNCHANGED connecting

\* A new client takes the place of the closed one, whose socket may still be
\* about to close; its waiting requests have been told.
construct ==
  /\ closed /\ closed' = FALSE
  /\ \A r \in aborted : ~Waiting(r)
  /\ connecting' = None /\ UNCHANGED <<requests, sockets, socket>>
=============================================================================

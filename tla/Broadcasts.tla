----------------------------- MODULE Broadcasts -----------------------------
(***************************************************************************)
(* The wallet's broadcasts over its RPC client: Automatic Claims and       *)
(* payments reserve their outpoints, send, and decide what an answer, a    *)
(* cancellation or a lost connection means, while the wallet is locked and *)
(* unlocked, its configuration is saved and its connection breaks          *)
(* (src/src/core/wallet-service.mjs, with src/src/core/rpc.mjs).           *)
(*                                                                         *)
(* A broadcast is identified with its caller of request().  The security   *)
(* epoch is only compared with an earlier value: `stale' are the flying    *)
(* broadcasts whose epoch passed, `past' those of an earlier session, or   *)
(* of none.  Nothing is promised of these once the wallet is locked:       *)
(* `node' forgets them.                                                    *)
(***************************************************************************)
EXTENDS RpcClient

CONSTANTS
  Claims, Payments,   \* broadcasts: sendrawtransaction requests
  Keys, Target        \* outpoints, and the one each broadcast spends

Broadcasts == Claims \cup Payments

ASSUME WalletAssumption ==
  /\ Claims \cap Payments = {}
  /\ Broadcasts = {r \in Requests : Method[r] = "broadcast"}
  /\ Target \in [Broadcasts -> Keys]

VARIABLES
  reserved,       \* outpoints that must not be spent again
  session,        \* the wallet is unlocked
  enabled,        \* engine.enabled
  attempts,       \* what became of each broadcast
  stale, past,
  closing         \* the lock or configuration change that waits for the engine

walletVars == <<reserved, session, enabled, attempts, stale, past, closing>>
vars == <<clientVars, aborted, node, walletVars>>

Typed ==
  /\ ClientTyped
  /\ reserved \subseteq Keys /\ session \in BOOLEAN /\ enabled \in BOOLEAN
  /\ attempts \in [Broadcasts -> {"none", "flying", "held", "confirmed"}]
  /\ stale \subseteq Broadcasts /\ past \subseteq stale
  /\ closing \in {"no", "lock", "config"}

\* request() admits at most 32 callers and writes at most 12 requests whatever
\* awaits lie between its tests and its effects (rpc.mjs:308, 317).
RpcLimits == Cardinality(Queued) <= MaxQueued /\ Cardinality(InFlight) <= MaxPending

\* Types and bounds of the client and of the wallet.
TypeOK == Typed /\ RpcLimits

Init ==
  /\ ClientInit
  /\ reserved = {} /\ session = FALSE /\ enabled = FALSE
  /\ attempts = [a \in Broadcasts |-> "none"] /\ stale = Broadcasts /\ past = Broadcasts
  /\ closing = "no"

Flying == {a \in Broadcasts : attempts[a] = "flying"}

-----------------------------------------------------------------------------
(* Broadcasts.                                                             *)

\* From the check of the reservation to the first await of request(), for the next
\* transaction of the caller.
Broadcast(a) ==
  /\ request(a)
  /\ reserved' = reserved \cup {Target[a]}
  /\ attempts' = [attempts EXCEPT ![a] = "flying"]
  /\ stale' = stale \ {a} /\ past' = past \ {a} /\ node' = [node EXCEPT ![a] = "none"]
  /\ UNCHANGED <<aborted, session, enabled, closing>>

Eligible(a) == session /\ enabled /\ Target[a] \notin reserved

submitAutomaticClaim(a) ==
  /\ a \in Claims /\ Eligible(a)
  /\ Broadcast(a)

\* A review selects outpoints that are not reserved, for one payment at a time,
\* and is withdrawn whenever the epoch moves; a payment has no signal.
confirmSend(p) ==
  /\ p \in Payments /\ session /\ ~closed /\ Target[p] \notin reserved
  /\ Broadcast(p)

\* stop() closes the dispatch gate and aborts the claims.
stops == enabled' = FALSE /\ Signal(Flying \cap Claims)

\* Nothing was sent, or the node is known to have refused it.
Releasable(a) ==
  requests[a].result \in {"notSent", "rejected"} /\ a \in Claims /\ a \notin stale

\* request() has settled, and submitAutomaticClaim or confirmSend goes on.
broadcastSettles(a) ==
  /\ a \in Flying /\ requests[a].stage = "settled"
  /\ LET result == requests[a].result IN
     /\ requests' = [requests EXCEPT ![a] = Idle]
     /\ attempts' = [attempts EXCEPT ![a] =
                       IF a \in past \/ Releasable(a) THEN "none"
                       ELSE IF result = "ok" THEN "confirmed" ELSE "held"]
     /\ reserved' = IF Releasable(a) THEN reserved \ {Target[a]} ELSE reserved
     /\ IF a \in Claims \ stale /\ result \notin {"ok", "notSent", "rejected"}
        THEN stops ELSE UNCHANGED enabled /\ Signal({})
  /\ UNCHANGED <<node, sockets, socket, connecting, closed, session, stale, past, closing>>

-----------------------------------------------------------------------------
(* Other users of the client, and its own steps.                           *)

\* A refresh, a discovery or a preparation calls request().
otherRequest(r) ==
  /\ r \notin Broadcasts /\ request(r)
  /\ UNCHANGED <<aborted, node, walletVars>>

\* Their signal fires, or a stream's consumer finds itself out of date.
otherAborts(r) ==
  /\ r \notin Broadcasts \cup aborted /\ (Waiting(r) \/ Sent(r))
  /\ aborted' = aborted \cup {r}
  /\ UNCHANGED <<clientVars, node, walletVars>>

\* A step of the client alone.
Alone == Signal({}) /\ UNCHANGED <<node, walletVars>>

ClientStep ==
  /\ \/ \E r \in Requests : pace(r) \/ paceFails(r) \/ cancelled(r) \/ reply(r) \/ abandoned(r) \/ streamEnd(r)
     \/ \E s \in Sockets : connected(s) \/ connectFails(s) \/ breaks(s) \/ drops(s)
  /\ Alone

Write(r) == write(r) /\ Signal({}) /\ UNCHANGED walletVars
Process(r) == process(r) /\ UNCHANGED <<aborted, walletVars>>

\* The close event; 'disconnected' stops the claims.
Disconnects(s) ==
  /\ closes(s)
  /\ IF socket = s THEN stops ELSE UNCHANGED enabled /\ Signal({})
  /\ UNCHANGED <<node, reserved, session, attempts, stale, past, closing>>

-----------------------------------------------------------------------------
(* The wallet.                                                             *)

\* A lock that still waits will return without a new client.
unlock ==
  /\ ~session /\ session' = TRUE /\ closing # "config"
  /\ closing' = "no"
  /\ UNCHANGED <<clientVars, aborted, node, reserved, enabled, attempts, stale, past>>

\* setClaims, once the old tasks have ended and the network was reached.
startClaims ==
  /\ session /\ ~closed /\ ~enabled /\ closing = "no" /\ Flying \cap Claims = {}
  /\ enabled' = TRUE
  /\ UNCHANGED <<clientVars, aborted, node, reserved, session, attempts, stale, past, closing>>

stopClaims ==
  /\ enabled
  /\ UNCHANGED <<clientVars, node, reserved, session, attempts, stale, past, closing>>
  /\ stops

\* Faulty variant: locking does not move the security epoch.
lockKeepsEpoch ==
  /\ session' = FALSE /\ reserved' = {} /\ enabled' = FALSE
  /\ attempts' = [a \in Broadcasts |-> IF a \in Flying THEN "flying" ELSE "none"]
  /\ past' = Broadcasts /\ closing' = "lock"
  /\ close /\ node' = [r \in Requests |-> "none"]
  /\ UNCHANGED stale

\* lock() forgets the reservations with the session.
lock ==
  /\ session' = FALSE /\ reserved' = {} /\ enabled' = FALSE
  /\ attempts' = [a \in Broadcasts |-> IF a \in Flying THEN "flying" ELSE "none"]
  /\ stale' = Broadcasts /\ past' = Broadcasts /\ closing' = "lock"
  /\ close /\ node' = [r \in Requests |-> "none"]

\* A new configuration keeps the reservations, and replaces the client.
saveConfig ==
  /\ closing = "no"
  /\ enabled' = FALSE
  /\ stale' = stale \cup Flying /\ closing' = "config"
  /\ close
  /\ UNCHANGED <<node, reserved, session, attempts, past>>

\* engine.stop() has returned: its claims have ended.
reconnect ==
  /\ closing # "no" /\ Flying \cap Claims = {}
  /\ closing' = "no" /\ construct
  /\ UNCHANGED <<aborted, node, reserved, session, enabled, attempts, stale, past>>

Next ==
  \/ \E a \in Broadcasts : submitAutomaticClaim(a) \/ confirmSend(a) \/ broadcastSettles(a)
  \/ \E r \in Requests : otherRequest(r) \/ otherAborts(r) \/ Write(r) \/ Process(r)
  \/ ClientStep
  \/ \E s \in Sockets : Disconnects(s)
  \/ unlock \/ startClaims \/ stopClaims \/ lock
  \/ saveConfig \/ reconnect

Spec == Init /\ [][Next]_vars

\* The event loop runs ready continuations; delays, connection attempts and the
\* timers of requests and streams end, and destroyed sockets close.  The bound
\* on sockets may disable a request that leaves pace again and again (SF).
\* Servers owe nothing, users neither.
FairSpec ==
  /\ Spec
  /\ \A r \in Requests :
       /\ SF_vars(pace(r) /\ Alone)
       /\ WF_vars(cancelled(r) /\ Alone) /\ WF_vars(Write(r))
  /\ \A s \in Sockets :
       /\ WF_vars((connected(s) \/ connectFails(s)) /\ Alone)
       /\ WF_vars(breaks(s) /\ Alone)
       /\ WF_vars(Disconnects(s))

-----------------------------------------------------------------------------
(* Properties.                                                             *)

\* No request waits for an answer on a socket that has closed, and none waits
\* for a connection that has failed: the close event of a socket rejects the
\* requests it owns (rpc.mjs:149-158), however sockets overlap.
NoneStranded ==
  \A r \in Requests :
    /\ Sent(r) => sockets[requests[r].on] \in {"open", "destroyed"}
    /\ requests[r].stage = "connecting" => sockets[requests[r].on] # "unused"

\* The client uses one connection at a time: whatever still lives is the current
\* socket, and an old one has been destroyed (rpc.mjs:95-163, 356-359).
OneConnection ==
  \A s \in Sockets : sockets[s] \in {"connecting", "open"} => s = socket

Current == Broadcasts \ past

Once == INSTANCE BroadcastOnce WITH
  held   <- {Target[a] : a \in {b \in Current : attempts[b] # "none"}},
  landed <- {Target[a] : a \in {b \in Current : node[b] = "accepted"}},
  told   <- {Target[a] : a \in {b \in Current : attempts[b] = "confirmed"}}

\* Claims and payments keep the promise of BroadcastOnce: an outpoint is given up
\* only when its transaction can no longer land, whatever cancellations, lost
\* replies and reconnections do to it (wallet-service.mjs:740-782, rpc.mjs:321-340).
OnceSpec == Once!Spec

\* Every call of request() settles, whatever the server and the connection do:
\* its place in the queue of 32 is given back.  A stream goes through all the
\* stages of a broadcast and more; checking streams alone halves the run.
Settles ==
  \A r \in Requests \ Broadcasts :
    requests[r].stage # "idle" ~> requests[r].stage = "idle" \/ requests[r].result # "none"
=============================================================================

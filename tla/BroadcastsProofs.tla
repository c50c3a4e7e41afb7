-------------------------- MODULE BroadcastsProofs --------------------------
(***************************************************************************)
(* Proofs about Broadcasts: its types, its limits, the fate of the sockets *)
(* and, for every number of callers, sockets and outpoints, that it        *)
(* implements BroadcastOnce.                                               *)
(***************************************************************************)
EXTENDS Broadcasts, FiniteSetTheorems, TLAPS

\* What the stage of a broadcast, its fate at the node and what became of it have
\* to do with each other.
Coupled(a) ==
  /\ requests[a].stage # "stream"
  /\ requests[a].stage # "settled" => requests[a].result = "none"
  /\ attempts[a] = "flying" <=> requests[a].stage # "idle"
Fated(a) ==
  /\ node[a] \in {"wire", "accepted"} => attempts[a] # "none"
  /\ requests[a].stage \in {"pacing", "connecting"} => node[a] = "none"
  /\ requests[a].stage = "settled" =>
       /\ requests[a].result = "notSent" => node[a] = "none"
       /\ requests[a].result = "rejected" => node[a] = "refused"
       /\ requests[a].result = "ok" => node[a] = "accepted"
  /\ attempts[a] = "confirmed" => node[a] = "accepted"
Guarded(a) == attempts[a] # "none" => Target[a] \in reserved
Apart == \A a, b \in Broadcasts \ past :
           a # b /\ attempts[a] # "none" /\ attempts[b] # "none" => Target[a] # Target[b]

Inv ==
  /\ Typed /\ \A a \in Broadcasts : Coupled(a)
  /\ \A a \in Broadcasts \ past : Fated(a) /\ Guarded(a)
  /\ Apart

-----------------------------------------------------------------------------
(* Types.                                                                  *)

LEMMA BroadcastFacts ==
  ASSUME NEW a \in Broadcasts
  PROVE  a \in Requests /\ Method[a] = "broadcast" /\ Target[a] \in Keys
BY WalletAssumption

\* What a promise settles with is a record of its request.
LEMMA SettledTyped ==
  ASSUME NEW r \in Requests, NEW result \in Results
  PROVE  Settled(r, result) \in Request
BY DEF Settled, Idle, Request, Stages, Results

LEMMA FailAllTyped ==
  ASSUME Typed, NEW R
  PROVE  failAll(R, "failed") \in [Requests -> Request]
<1>1. ASSUME NEW r \in Requests
      PROVE  (IF r \notin R THEN requests[r]
              ELSE Settled(r, IF requests[r].result # "none" THEN requests[r].result
                              ELSE lossError(r, "failed"))) \in Request
  <2>1. requests[r] \in Request /\ requests[r].result \in Results
    BY DEF Typed, ClientTyped, Request
  <2>2. lossError(r, "failed") \in Results
    BY DEF lossError, Results
  <2>. QED BY <2>1, <2>2, SettledTyped
<1>. QED BY <1>1 DEF failAll

\* The steps of the client alone.
LEMMA ClientStepTyped ==
  ASSUME Typed, ClientStep
  PROVE  Typed'
<1>. USE DEF Typed, ClientTyped
<1>0. ASSUME requests' \in [Requests -> Request],
             sockets' \in [Sockets -> {"unused", "connecting", "open", "destroyed"}],
             socket' \in Sockets \cup {None}, connecting' \in Sockets \cup {None},
             UNCHANGED closed
      PROVE  Typed'
  BY <1>0 DEF ClientStep, Alone, Signal, walletVars
<1>1. ASSUME NEW r \in Requests, NEW result \in Results, Settle(r, result)
      PROVE  requests' \in [Requests -> Request]
  BY <1>1, SettledTyped DEF Settle
<1>2. ASSUME NEW S \in SUBSET Requests
      PROVE  [r \in Requests |-> IF r \in S THEN Settled(r, "failed") ELSE requests[r]]
               \in [Requests -> Request]
  BY SettledTyped DEF Results
<1>3. ASSUME NEW r \in Requests, pace(r) PROVE Typed'
  <2>1. PICK s \in Sockets :
          /\ connect(s)
          /\ requests' = [requests EXCEPT ![r].stage = "connecting", ![r].on = s]
    BY <1>3 DEF pace
  <2>2. requests' \in [Requests -> Request]
    BY <2>1 DEF Request, Stages
  <2>. QED BY <1>0, <1>3, <2>1, <2>2 DEF pace, connect
<1>4. ASSUME NEW r \in Requests, paceFails(r) \/ cancelled(r) PROVE Typed'
  BY <1>0, <1>1, <1>4 DEF paceFails, cancelled, Results
<1>5. ASSUME NEW r \in Requests, reply(r) PROVE Typed'
  <2>1. PICK answer \in Answers(r) :
          requests' = [requests EXCEPT ![r] =
            IF answer = "ok" /\ Method[r] = "stream" THEN [@ EXCEPT !.stage = "stream"]
            ELSE Settled(r, answer)]
    BY <1>5 DEF reply
  <2>2. answer \in Results
    BY DEF Answers, Results
  <2>3. [requests[r] EXCEPT !.stage = "stream"] \in Request
    BY DEF Request, Stages
  <2>4. requests' \in [Requests -> Request]
    BY <2>1, <2>2, <2>3, SettledTyped
  <2>. QED BY <1>0, <1>5, <2>4 DEF reply
<1>6. ASSUME NEW r \in Requests, abandoned(r) PROVE Typed'
  <2>1. requests' \in [Requests -> Request]
    BY <1>6 DEF abandoned, Request, Results
  <2>. QED BY <1>0, <1>6, <2>1 DEF abandoned
<1>7. ASSUME NEW r \in Requests, streamEnd(r) PROVE Typed'
  <2>1. (IF requests[r].result = "none" THEN "ok" ELSE requests[r].result) \in Results
    BY DEF Request, Results
  <2>. QED BY <1>0, <1>1, <1>7, <2>1 DEF streamEnd
<1>8. ASSUME NEW s \in Sockets, connected(s) \/ connectFails(s) PROVE Typed'
  <2>1. requests' \in [Requests -> Request]
    BY <1>2, <1>8 DEF connected, connectFails, waiters
  <2>. QED BY <1>0, <1>8, <2>1 DEF connected, connectFails
<1>9. ASSUME NEW s \in Sockets, breaks(s) \/ drops(s) PROVE Typed'
  <2>1. requests' \in [Requests -> Request]
    BY <1>9, FailAllTyped DEF breaks, drops
  <2>. QED BY <1>0, <1>9, <2>1 DEF breaks, drops
<1>. QED BY <1>3, <1>4, <1>5, <1>6, <1>7, <1>8, <1>9 DEF ClientStep

\* Every step keeps the types.
LEMMA RequestTyped ==
  ASSUME Typed, NEW r \in Requests, request(r)
  PROVE  requests' \in [Requests -> Request]
<1>1. [requests[r] EXCEPT !.stage = "pacing"] \in Request
  BY DEF Typed, ClientTyped, Request, Stages
<1>2. Settled(r, "notSent") \in Request /\ Settled(r, "failed") \in Request
  BY SettledTyped DEF Results
<1>. QED BY <1>1, <1>2 DEF request, Typed, ClientTyped

LEMMA BroadcastTyped ==
  ASSUME Typed, NEW a \in Broadcasts, Broadcast(a)
  PROVE  Typed'
<1>1. requests' \in [Requests -> Request]
  BY RequestTyped, BroadcastFacts DEF Broadcast
<1>2. UNCHANGED <<sockets, socket, connecting, closed, aborted, session, enabled, closing>>
  BY DEF Broadcast, request
<1>3. node' \in [Requests -> Fates] /\ reserved' \subseteq Keys
  BY BroadcastFacts DEF Broadcast, Typed, ClientTyped, Fates
<1>4. attempts' \in [Broadcasts -> {"none", "flying", "held", "confirmed"}]
  BY DEF Broadcast, Typed
<1>5. stale' \subseteq Broadcasts /\ past' \subseteq stale'
  BY DEF Broadcast, Typed
<1>. QED BY <1>1, <1>2, <1>3, <1>4, <1>5 DEF Typed, ClientTyped

LEMMA SignalTyped ==
  ASSUME aborted \subseteq Requests, NEW fired \in SUBSET Requests, Signal(fired)
  PROVE  aborted' \subseteq Requests
BY DEF Signal

LEMMA StopsTyped ==
  ASSUME Typed, stops
  PROVE  aborted' \subseteq Requests /\ enabled' = FALSE
<1>1. Flying \cap Claims \subseteq Requests
  BY BroadcastFacts DEF Flying
<1>. QED BY <1>1, SignalTyped DEF stops, Typed, ClientTyped

LEMMA NextTyped ==
  ASSUME Typed, [Next]_vars
  PROVE  Typed'
<1>1. CASE ClientStep
  BY <1>1, ClientStepTyped
<1>2. ASSUME NEW a \in Broadcasts, submitAutomaticClaim(a) \/ confirmSend(a) PROVE Typed'
  BY <1>2, BroadcastTyped DEF submitAutomaticClaim, confirmSend
<1>3. ASSUME NEW a \in Broadcasts, broadcastSettles(a) PROVE Typed'
  <2>1. requests' \in [Requests -> Request]
    BY <1>3 DEF broadcastSettles, Typed, ClientTyped, Idle, Request, Stages, Results
  <2>2. aborted' \subseteq Requests /\ enabled' \in BOOLEAN
    BY <1>3, StopsTyped, SignalTyped DEF broadcastSettles, Typed, ClientTyped
  <2>3. /\ UNCHANGED <<node, sockets, socket, connecting, closed, session, stale, past, closing>>
        /\ attempts' \in [Broadcasts -> {"none", "flying", "held", "confirmed"}]
        /\ reserved' \subseteq Keys
    BY <1>3 DEF broadcastSettles, Typed
  <2>. QED BY <2>1, <2>2, <2>3 DEF Typed, ClientTyped
<1>4. ASSUME NEW r \in Requests, otherRequest(r) PROVE Typed'
  <2>1. requests' \in [Requests -> Request]
    BY <1>4, RequestTyped DEF otherRequest
  <2>. QED BY <1>4, <2>1 DEF otherRequest, request, Typed, ClientTyped, walletVars
<1>5. ASSUME NEW r \in Requests, otherAborts(r) PROVE Typed'
  BY <1>5 DEF otherAborts, Typed, ClientTyped, clientVars, walletVars
<1>6. ASSUME NEW r \in Requests, Write(r) PROVE Typed'
  <2>1. [requests[r] EXCEPT !.stage = "pending"] \in Request
    BY DEF Typed, ClientTyped, Request, Stages
  <2>2. Settled(r, "failed") \in Request
    BY SettledTyped DEF Results
  <2>3. requests' \in [Requests -> Request] /\ node' \in [Requests -> Fates]
    BY <1>6, <2>1, <2>2 DEF Write, write, Settle, Typed, ClientTyped, Fates
  <2>4. aborted' \subseteq Requests
    BY <1>6, SignalTyped DEF Write, Typed, ClientTyped
  <2>. QED BY <1>6, <2>3, <2>4 DEF Write, write, Typed, ClientTyped, walletVars
<1>7. ASSUME NEW r \in Requests, Process(r) PROVE Typed'
  <2>1. node' \in [Requests -> Fates]
    BY <1>7 DEF Process, process, Typed, ClientTyped, Fates
  <2>. QED BY <1>7, <2>1 DEF Process, process, Typed, ClientTyped, clientVars, walletVars
<1>8. ASSUME NEW s \in Sockets, Disconnects(s) PROVE Typed'
  <2>1. requests' \in [Requests -> Request]
    BY <1>8, FailAllTyped DEF Disconnects, closes
  <2>2. aborted' \subseteq Requests /\ enabled' \in BOOLEAN
    BY <1>8, StopsTyped, SignalTyped DEF Disconnects, Typed, ClientTyped
  <2>. QED BY <1>8, <2>1, <2>2 DEF Disconnects, closes, Typed, ClientTyped
<1>9. CASE unlock \/ startClaims \/ reconnect
  BY <1>9 DEF unlock, startClaims, reconnect, construct, Typed, ClientTyped, clientVars
<1>10. CASE stopClaims
  BY <1>10, StopsTyped DEF stopClaims, Typed, ClientTyped, clientVars
<1>11. ASSUME close
       PROVE  /\ requests' \in [Requests -> Request] /\ aborted' \subseteq Requests
              /\ sockets' \in [Sockets -> {"unused", "connecting", "open", "destroyed"}]
              /\ socket' \in Sockets \cup {None} /\ connecting' \in Sockets \cup {None}
              /\ closed' \in BOOLEAN
  BY <1>11, FailAllTyped, SignalTyped DEF close, Typed, ClientTyped
<1>12. CASE lock
  <2>1. node' \in [Requests -> Fates]
    BY <1>12 DEF lock, Fates
  <2>. QED BY <1>11, <1>12, <2>1 DEF lock, Flying, Typed, ClientTyped
<1>13. CASE saveConfig
  BY <1>11, <1>13 DEF saveConfig, Flying, Typed, ClientTyped
<1>14. CASE UNCHANGED vars
  BY <1>14 DEF vars, clientVars, walletVars, Typed, ClientTyped
<1>. QED
  BY <1>1, <1>2, <1>3, <1>4, <1>5, <1>6, <1>7, <1>8, <1>9, <1>10, <1>12, <1>13, <1>14 DEF Next

LEMMA InitTyped == ASSUME Init PROVE Typed
<1>1. Idle \in Request
  BY DEF Idle, Request, Stages, Results
<1>2. ClientTyped
  BY <1>1 DEF Init, ClientInit, ClientTyped, Fates
<1>. QED BY <1>2 DEF Init, Typed

-----------------------------------------------------------------------------
(* What may become of a broadcast.                                         *)

\* A step of the client, a transmission apart, as one broadcast sees it.
Progress(a) ==
  \/ requests'[a] = requests[a]
  \/ /\ requests[a].stage \in {"pacing", "connecting"}
     /\ \/ /\ requests'[a].stage = "connecting"
           /\ requests'[a].result = requests[a].result
        \/ requests'[a].stage = "settled" /\ requests'[a].result \in {"notSent", "failed"}
  \/ /\ requests[a].stage = "pending" /\ requests'[a].stage = "settled"
     /\ \/ requests'[a].result \in {"failed", "unknown"}
        \/ requests'[a].result = "rejected" /\ node[a] = "refused"
        \/ requests'[a].result = "ok" /\ node[a] = "accepted"

\* An event that gives up requests in flight leaves none of them in doubt.
LEMMA FailAllProgress ==
  ASSUME Typed, NEW a \in Broadcasts, Coupled(a), NEW R \in SUBSET InFlight,
         requests' = failAll(R, "failed")
  PROVE  Progress(a)
<1>1. CASE a \in R
  <2>1. requests[a].stage = "pending" /\ requests[a].result = "none"
    BY <1>1 DEF InFlight, Sent, Coupled
  <2>2. requests'[a] = Settled(a, lossError(a, "failed"))
    BY <2>1, <1>1, BroadcastFacts DEF failAll
  <2>. QED BY <2>1, <2>2, BroadcastFacts DEF Settled, lossError, Progress
<1>2. CASE a \notin R
  BY <1>2, BroadcastFacts DEF failAll, Progress
<1>. QED BY <1>1, <1>2

LEMMA ClientStepProgress ==
  ASSUME Typed, NEW a \in Broadcasts, Coupled(a), ClientStep
  PROVE  Progress(a)
<1>0. /\ a \in Requests /\ Method[a] = "broadcast"
      /\ requests \in [Requests -> Request]
      /\ \A result : Settled(a, result).stage = "settled" /\ Settled(a, result).result = result
  BY BroadcastFacts DEF Typed, ClientTyped, Settled
<1>1. ASSUME NEW r \in Requests, pace(r) PROVE Progress(a)
  BY <1>0, <1>1 DEF pace, Progress, Request
<1>2. ASSUME NEW r \in Requests, paceFails(r) \/ cancelled(r) PROVE Progress(a)
  BY <1>0, <1>2 DEF paceFails, cancelled, Settle, Waiting, Progress
<1>3. ASSUME NEW r \in Requests, reply(r) PROVE Progress(a)
  <2>1. CASE r = a
    BY <1>0, <1>3, <2>1 DEF reply, Answers, Progress
  <2>2. CASE r # a
    BY <1>0, <1>3, <2>2 DEF reply, Progress
  <2>. QED BY <2>1, <2>2
<1>4. ASSUME NEW r \in Requests, abandoned(r) \/ streamEnd(r) PROVE Progress(a)
  BY <1>0, <1>4 DEF abandoned, streamEnd, Settle, Coupled, Progress
<1>5. ASSUME NEW s \in Sockets, connected(s) \/ connectFails(s) PROVE Progress(a)
  BY <1>0, <1>5 DEF connected, connectFails, waiters, Progress
<1>6. ASSUME NEW s \in Sockets, breaks(s) \/ drops(s) PROVE Progress(a)
  <2>1. CASE breaks(s)
    BY <2>1, FailAllProgress DEF breaks, owners
  <2>2. CASE drops(s)
    BY <2>2 DEF drops, Progress
  <2>. QED BY <1>6, <2>1, <2>2
<1>. QED BY <1>1, <1>2, <1>3, <1>4, <1>5, <1>6 DEF ClientStep

\* Progress keeps what couples the client, the wallet and the node.
LEMMA ProgressKeeps ==
  ASSUME NEW a \in Broadcasts, Coupled(a), Progress(a), attempts'[a] = attempts[a]
  PROVE  /\ Coupled(a)'
         /\ Fated(a) /\ node'[a] = node[a] => Fated(a)'
BY DEF Coupled, Progress, Fated

\* A call of request() either waits for its quota or has settled unsent.
LEMMA RequestCouples ==
  ASSUME Typed, NEW a \in Broadcasts, request(a)
  PROVE  /\ requests[a].stage = "idle"
         /\ \A r \in Requests : r # a => requests'[r] = requests[r]
         /\ \/ requests'[a].stage = "pacing" /\ requests'[a].result = requests[a].result
            \/ requests'[a].stage = "settled" /\ requests'[a].result \in {"notSent", "failed"}
<1>1. /\ a \in Requests /\ requests \in [Requests -> Request]
      /\ \A result : Settled(a, result).stage = "settled" /\ Settled(a, result).result = result
  BY BroadcastFacts DEF Typed, ClientTyped, Settled
<1>. QED BY <1>1 DEF request, Request

\* Every step keeps the couplings, and what is true of the broadcasts of the session.
LEMMA InvInductive ==
  ASSUME Inv, [Next]_vars
  PROVE  Inv'
<1>. USE DEF Inv
<1>0. Typed'
  BY NextTyped
<1>a. /\ requests \in [Requests -> Request] /\ node \in [Requests -> Fates]
      /\ attempts \in [Broadcasts -> {"none", "flying", "held", "confirmed"}]
      /\ past \subseteq stale /\ Broadcasts \subseteq Requests
  BY WalletAssumption DEF Typed, ClientTyped
<1>b. ASSUME NEW a \in Broadcasts, requests'[a] = requests[a], attempts'[a] = attempts[a]
      PROVE  Coupled(a)' /\ (Fated(a) /\ node'[a] = node[a] => Fated(a)')
  BY <1>b DEF Coupled, Fated
<1>c. ASSUME \A a \in Broadcasts : Progress(a),
             UNCHANGED <<attempts, node, past, reserved>>
      PROVE  Inv'
  BY <1>0, <1>c, ProgressKeeps DEF Guarded, Apart
<1>1. CASE ClientStep
  BY <1>1, <1>c, ClientStepProgress DEF ClientStep, Alone, walletVars
<1>2. ASSUME NEW b \in Broadcasts, submitAutomaticClaim(b) \/ confirmSend(b) PROVE Inv'
  <2>1. Broadcast(b) /\ Target[b] \notin reserved
    BY <1>2 DEF submitAutomaticClaim, confirmSend, Eligible
  <2>2. /\ request(b) /\ reserved' = reserved \cup {Target[b]}
        /\ attempts' = [attempts EXCEPT ![b] = "flying"]
        /\ past' = past \ {b} /\ node' = [node EXCEPT ![b] = "none"]
    BY <2>1 DEF Broadcast
  <2>3. ASSUME NEW a \in Broadcasts PROVE Coupled(a)'
    <3>1. CASE a = b
      BY <1>a, <2>2, <3>1, RequestCouples DEF Coupled
    <3>2. CASE a # b
      BY <1>a, <1>b, <2>2, <3>2, RequestCouples
    <3>. QED BY <3>1, <3>2
  <2>4. ASSUME NEW a \in Broadcasts \ past' PROVE Fated(a)' /\ Guarded(a)'
    <3>1. CASE a = b
      BY <1>a, <2>2, <3>1, RequestCouples DEF Fated, Guarded
    <3>2. CASE a # b
      <4>1. Fated(a) /\ Guarded(a)
        BY <2>2, <2>4, <3>2
      <4>2. requests'[a] = requests[a] /\ attempts'[a] = attempts[a] /\ node'[a] = node[a]
        BY <1>a, <2>2, <3>2, RequestCouples
      <4>. QED BY <1>b, <2>2, <4>1, <4>2 DEF Guarded
    <3>. QED BY <3>1, <3>2
  <2>5. Apart'
    <3>1. ASSUME NEW a \in Broadcasts \ past', a # b, attempts'[a] # "none"
          PROVE  Target[a] # Target[b]
      BY <1>a, <2>1, <2>2, <3>1 DEF Guarded
    <3>. QED BY <1>a, <2>2, <3>1 DEF Apart
  <2>. QED BY <1>0, <2>3, <2>4, <2>5
<1>3. ASSUME NEW b \in Broadcasts, broadcastSettles(b) PROVE Inv'
  <2>1. /\ attempts[b] = "flying" /\ requests[b].stage = "settled"
        /\ requests' = [requests EXCEPT ![b] = Idle]
        /\ attempts' = [attempts EXCEPT ![b] =
                          IF b \in past \/ Releasable(b) THEN "none"
                          ELSE IF requests[b].result = "ok" THEN "confirmed" ELSE "held"]
        /\ reserved' = IF Releasable(b) THEN reserved \ {Target[b]} ELSE reserved
        /\ UNCHANGED <<node, past>>
    BY <1>3 DEF broadcastSettles, Flying
  <2>2. ASSUME NEW a \in Broadcasts PROVE Coupled(a)'
    <3>1. CASE a = b
      BY <1>a, <2>1, <3>1 DEF Coupled, Idle
    <3>2. CASE a # b
      BY <1>a, <1>b, <2>1, <3>2
    <3>. QED BY <3>1, <3>2
  <2>3. ASSUME NEW a \in Broadcasts \ past' PROVE Fated(a)' /\ Guarded(a)'
    <3>1. Fated(a) /\ Guarded(a)
      BY <2>1, <2>3
    <3>2. CASE a = b
      <4>1. requests'[b].stage = "idle" /\ node'[b] = node[b]
        BY <1>a, <2>1 DEF Idle
      <4>2. CASE Releasable(b)
        <5>1. node[b] \notin {"wire", "accepted"}
          BY <2>1, <3>1, <3>2, <4>2 DEF Releasable, Fated
        <5>2. attempts'[b] = "none"
          BY <1>a, <2>1, <4>2
        <5>. QED BY <3>2, <4>1, <5>1, <5>2 DEF Fated, Guarded
      <4>3. CASE ~Releasable(b)
        <5>1. /\ attempts'[b] \in {"confirmed", "held"} /\ reserved' = reserved
              /\ attempts'[b] = "confirmed" => requests[b].result = "ok"
          BY <1>a, <2>1, <2>3, <3>2, <4>3
        <5>. QED BY <2>1, <3>1, <3>2, <4>1, <5>1 DEF Fated, Guarded
      <4>. QED BY <4>2, <4>3
    <3>3. CASE a # b
      <4>1. requests'[a] = requests[a] /\ attempts'[a] = attempts[a] /\ node'[a] = node[a]
        BY <1>a, <2>1, <3>3
      <4>2. Releasable(b) /\ attempts[a] # "none" => Target[a] # Target[b]
        BY <1>a, <2>1, <2>3, <3>3 DEF Apart, Releasable
      <4>. QED BY <1>b, <2>1, <3>1, <4>1, <4>2 DEF Guarded
    <3>. QED BY <3>2, <3>3
  <2>4. Apart'
    BY <1>a, <2>1 DEF Apart
  <2>. QED BY <1>0, <2>2, <2>3, <2>4
<1>4. ASSUME NEW r \in Requests, otherRequest(r) PROVE Inv'
  <2>1. \A a \in Broadcasts : requests'[a] = requests[a]
    BY <1>a, <1>4 DEF otherRequest, request
  <2>. QED BY <1>c, <1>4, <2>1 DEF otherRequest, walletVars, Progress
<1>5. CASE unlock \/ startClaims \/ stopClaims \/ reconnect \/ UNCHANGED vars
           \/ \E r \in Requests : otherAborts(r)
  <2>1. UNCHANGED <<requests, attempts, node, past, reserved>>
    BY <1>5 DEF unlock, startClaims, stopClaims, reconnect, construct, otherAborts,
                vars, clientVars, walletVars
  <2>. QED BY <1>c, <2>1 DEF Progress
<1>6. ASSUME NEW r \in Requests, Write(r) PROVE Inv'
  <2>1. UNCHANGED <<attempts, past, reserved>>
    BY <1>6 DEF Write, walletVars
  <2>2. ASSUME NEW a \in Broadcasts PROVE Coupled(a)' /\ (Fated(a) => Fated(a)')
    <3>0. /\ requests[r].stage = "connecting"
          /\ \/ /\ requests' = [requests EXCEPT ![r].stage = "pending"]
                /\ node' = [node EXCEPT ![r] = "wire"]
             \/ requests' = [requests EXCEPT ![r] = Settled(r, "failed")] /\ UNCHANGED node
      BY <1>6 DEF Write, write, Settle
    <3>1. CASE r = a
      <4>1. requests[a].stage = "connecting" /\ attempts'[a] = "flying" /\ a \in Requests
        BY <2>1, <3>0, <3>1, <1>a DEF Coupled
      <4>2. \/ /\ requests'[a].stage = "pending" /\ requests'[a].result = requests[a].result
               /\ node'[a] = "wire"
            \/ /\ requests'[a].stage = "settled" /\ requests'[a].result = "failed"
               /\ node'[a] = node[a]
        BY <1>a, <3>0, <3>1, BroadcastFacts DEF Request, Settled
      <4>. QED BY <2>1, <4>1, <4>2 DEF Coupled, Fated
    <3>2. CASE r # a
      <4>1. requests'[a] = requests[a] /\ node'[a] = node[a]
        BY <1>a, <3>0, <3>2
      <4>. QED BY <1>b, <2>1, <4>1
    <3>. QED BY <3>1, <3>2
  <2>. QED BY <1>0, <2>1, <2>2 DEF Guarded, Apart
<1>7. ASSUME NEW r \in Requests, Process(r) PROVE Inv'
  <2>1. /\ UNCHANGED <<requests, attempts, past, reserved>> /\ node[r] = "wire"
        /\ \E fate \in {"accepted", "refused"} : node' = [node EXCEPT ![r] = fate]
    BY <1>7 DEF Process, process, clientVars, walletVars
  <2>2. ASSUME NEW a \in Broadcasts, Fated(a) PROVE Fated(a)'
    <3>1. CASE r = a
      BY <1>a, <2>1, <2>2, <3>1 DEF Fated
    <3>2. CASE r # a
      BY <1>a, <2>1, <2>2, <3>2 DEF Fated
    <3>. QED BY <3>1, <3>2
  <2>. QED BY <1>0, <1>b, <2>1, <2>2 DEF Guarded, Apart
<1>8. ASSUME NEW s \in Sockets, Disconnects(s) PROVE Inv'
  <2>1. requests' = failAll(owners(s), "failed") /\ UNCHANGED <<attempts, node, past, reserved>>
    BY <1>8 DEF Disconnects, closes
  <2>. QED BY <1>c, <2>1, FailAllProgress DEF owners
<1>9. CASE lock
  <2>1. /\ requests' = failAll(InFlight, "failed") /\ past' = Broadcasts
        /\ attempts' = [a \in Broadcasts |-> IF a \in Flying THEN "flying" ELSE "none"]
    BY <1>9 DEF lock, close
  <2>2. ASSUME NEW a \in Broadcasts PROVE Coupled(a)'
    <3>1. Progress(a)
      BY <2>1, FailAllProgress
    <3>. QED BY <2>1, <3>1 DEF Flying, Coupled, Progress
  <2>. QED BY <1>0, <2>1, <2>2 DEF Apart
<1>10. CASE saveConfig
  BY <1>c, <1>10, FailAllProgress DEF saveConfig, close
<1>. QED
  BY <1>1, <1>2, <1>3, <1>4, <1>5, <1>6, <1>7, <1>8, <1>9, <1>10 DEF Next

LEMMA InvInit == ASSUME Init PROVE Inv
BY InitTyped, WalletAssumption DEF Init, ClientInit, Inv, Idle, Coupled, Apart

LEMMA InvAlways == Spec => []Inv
<1>1. Init => Inv
  BY InvInit
<1>2. Inv /\ [Next]_vars => Inv'
  BY InvInductive
<1>. QED BY <1>1, <1>2, PTL DEF Spec

-----------------------------------------------------------------------------
(* Broadcasts implements BroadcastOnce.                                    *)

Held   == {Target[a] : a \in {b \in Current : attempts[b] # "none"}}
Landed == {Target[a] : a \in {b \in Current : node[b] = "accepted"}}
Told   == {Target[a] : a \in {b \in Current : attempts[b] = "confirmed"}}

LEMMA InitOnce == ASSUME Init PROVE Once!Init
BY DEF Init, Current, Once!Init

\* Most steps are none of the abstract system's.
LEMMA Stutters ==
  ASSUME UNCHANGED past,
         \A a \in Broadcasts \ past :
           /\ attempts'[a] = attempts[a]
           /\ node'[a] = "accepted" <=> node[a] = "accepted"
  PROVE  UNCHANGED <<Held, Landed, Told>>
BY DEF Held, Landed, Told, Current

\* A claim or a payment begins: its outpoint is nobody else's.
LEMMA Begins ==
  ASSUME Inv, NEW b \in Broadcasts, Broadcast(b), Target[b] \notin reserved
  PROVE  /\ Target[b] \notin Held /\ Held' = Held \cup {Target[b]}
         /\ UNCHANGED <<Landed, Told>>
<1>1. /\ attempts \in [Broadcasts -> {"none", "flying", "held", "confirmed"}]
      /\ node \in [Requests -> Fates] /\ Broadcasts \subseteq Requests
  BY WalletAssumption DEF Inv, Typed, ClientTyped
<1>2. \A a \in Current : attempts[a] # "none" => a # b /\ Target[a] # Target[b]
  BY DEF Inv, Guarded, Current
<1>3. \A a \in Current : node[a] = "accepted" \/ attempts[a] = "confirmed" => a # b
  BY <1>2 DEF Inv, Fated, Current
<1>4. Current' = Current \cup {b}
  BY DEF Broadcast, Current
<1>5. /\ attempts'[b] = "flying" /\ node'[b] = "none"
      /\ \A a \in Broadcasts \ {b} : attempts'[a] = attempts[a] /\ node'[a] = node[a]
  BY <1>1 DEF Broadcast
<1>6. Held' = Held \cup {Target[b]}
  BY <1>2, <1>4, <1>5 DEF Held, Current
<1>7. Landed' = Landed
  BY <1>3, <1>4, <1>5 DEF Landed, Current
<1>8. Told' = Told
  BY <1>3, <1>4, <1>5 DEF Told, Current
<1>. QED BY <1>2, <1>6, <1>7, <1>8 DEF Held

\* The node accepts what is still held.
LEMMA Lands ==
  ASSUME Inv, NEW b \in Broadcasts \ past, Process(b), node'[b] = "accepted"
  PROVE  /\ Target[b] \in Held \ Landed /\ Landed' = Landed \cup {Target[b]}
         /\ UNCHANGED <<Held, Told>>
<1>1. /\ node[b] = "wire" /\ UNCHANGED <<attempts, past>>
      /\ \A a \in Broadcasts \ {b} : node'[a] = node[a]
  BY WalletAssumption DEF Process, process, walletVars, Inv, Typed, ClientTyped
<1>2. attempts[b] # "none"
  BY <1>1 DEF Inv, Fated
<1>3. \A a \in Current : node[a] = "accepted" => a # b /\ Target[a] # Target[b]
  <2>1. SUFFICES ASSUME NEW a \in Current, node[a] = "accepted"
                 PROVE  a # b /\ Target[a] # Target[b]
    OBVIOUS
  <2>2. attempts[a] # "none" /\ a # b
    BY <1>1, <2>1 DEF Inv, Fated, Current
  <2>. QED BY <1>2, <2>2 DEF Inv, Apart, Current
<1>4. Current' = Current /\ b \in Current
  BY <1>1 DEF Current
<1>5. Landed' = Landed \cup {Target[b]}
  BY <1>1, <1>4 DEF Landed, Current
<1>6. UNCHANGED <<Held, Told>>
  BY <1>1, <1>4 DEF Held, Told
<1>. QED BY <1>2, <1>3, <1>4, <1>5, <1>6 DEF Held, Landed

\* A caller is told: its outpoint is released only if it cannot land, and success
\* is told only of what has landed.
LEMMA Ends ==
  ASSUME Inv, NEW b \in Broadcasts, broadcastSettles(b)
  PROVE  \/ UNCHANGED <<Held, Landed, Told>>
         \/ /\ Target[b] \in Held \ Landed /\ Held' = Held \ {Target[b]}
            /\ UNCHANGED <<Landed, Told>>
         \/ /\ Target[b] \in Landed /\ Told' = Told \cup {Target[b]}
            /\ UNCHANGED <<Held, Landed>>
<1>1. /\ attempts[b] = "flying" /\ requests[b].stage = "settled"
      /\ UNCHANGED <<node, past>> /\ Current' = Current
      /\ \A a \in Broadcasts \ {b} : attempts'[a] = attempts[a]
      /\ attempts'[b] = IF b \in past \/ Releasable(b) THEN "none"
                        ELSE IF requests[b].result = "ok" THEN "confirmed" ELSE "held"
  BY DEF broadcastSettles, Flying, Inv, Typed, Current
<1>2. CASE b \in past
  BY <1>1, <1>2, Stutters
<1>3. CASE b \notin past /\ Releasable(b)
  <2>1. attempts'[b] = "none" /\ b \in Current
    BY <1>1, <1>3 DEF Current
  <2>2. node[b] # "accepted"
    BY <1>1, <1>3 DEF Inv, Fated, Releasable
  <2>3. \A a \in Current : a # b /\ attempts[a] # "none" => Target[a] # Target[b]
    BY <1>1, <1>3 DEF Inv, Apart, Current
  <2>4. \A a \in Current : node[a] = "accepted" => a # b /\ attempts[a] # "none"
    BY <2>2 DEF Inv, Fated, Current
  <2>5. Target[b] \in Held \ Landed
    BY <1>1, <2>1, <2>3, <2>4 DEF Held, Landed
  <2>6. Held' = Held \ {Target[b]}
    BY <1>1, <2>1, <2>3 DEF Held, Current
  <2>7. Landed' = Landed
    BY <1>1 DEF Landed
  <2>8. Told' = Told
    BY <1>1, <2>1 DEF Told, Current
  <2>. QED BY <2>5, <2>6, <2>7, <2>8
<1>4. CASE b \notin past /\ ~Releasable(b) /\ requests[b].result = "ok"
  <2>1. attempts'[b] = "confirmed" /\ b \in Current /\ node[b] = "accepted"
    BY <1>1, <1>4 DEF Current, Inv, Fated
  <2>2. Told' = Told \cup {Target[b]}
    BY <1>1, <2>1 DEF Told, Current
  <2>3. Held' = Held
    BY <1>1, <2>1 DEF Held, Current
  <2>. QED BY <1>1, <2>1, <2>2, <2>3 DEF Landed
<1>5. CASE b \notin past /\ ~Releasable(b) /\ requests[b].result # "ok"
  <2>1. attempts'[b] = "held" /\ b \in Current
    BY <1>1, <1>5 DEF Current
  <2>2. Held' = Held /\ Told' = Told
    BY <1>1, <2>1 DEF Held, Told, Current
  <2>. QED BY <1>1, <2>2 DEF Landed
<1>. QED BY <1>2, <1>3, <1>4, <1>5

\* Every step is one of the abstract system, or none.
LEMMA StepOnce ==
  ASSUME Inv, [Next]_vars
  PROVE  [Once!Next]_(Once!vars)
<1>. DEFINE Abstract ==
       \/ UNCHANGED <<Held, Landed, Told>>
       \/ \E k \in Keys :
            \/ k \notin Held /\ Held' = Held \cup {k} /\ UNCHANGED <<Landed, Told>>
            \/ k \in Held \ Landed /\ Landed' = Landed \cup {k} /\ UNCHANGED <<Held, Told>>
            \/ k \in Held \ Landed /\ Held' = Held \ {k} /\ UNCHANGED <<Landed, Told>>
            \/ k \in Landed /\ Told' = Told \cup {k} /\ UNCHANGED <<Held, Landed>>
       \/ Held' = {} /\ Landed' = {} /\ Told' = {}
<1>0. SUFFICES Abstract
  BY DEF Held, Landed, Told, Once!Next, Once!vars, Once!Begin, Once!Land, Once!Release,
         Once!Confirm, Once!Reopen
<1>1. ASSUME UNCHANGED <<attempts, node, past>> PROVE Abstract
  BY <1>1, Stutters
<1>2. ASSUME NEW b \in Broadcasts, submitAutomaticClaim(b) \/ confirmSend(b) PROVE Abstract
  <2>1. Broadcast(b) /\ Target[b] \notin reserved
    BY <1>2 DEF submitAutomaticClaim, confirmSend, Eligible
  <2>. QED BY <2>1, Begins, BroadcastFacts
<1>3. ASSUME NEW b \in Broadcasts, broadcastSettles(b) PROVE Abstract
  BY <1>3, Ends, BroadcastFacts
<1>4. ASSUME NEW r \in Requests, Process(r) PROVE Abstract
  <2>1. CASE r \in Broadcasts \ past /\ node'[r] = "accepted"
    BY <1>4, <2>1, Lands, BroadcastFacts
  <2>2. CASE ~(r \in Broadcasts \ past /\ node'[r] = "accepted")
    <3>1. /\ UNCHANGED <<attempts, past>> /\ node[r] = "wire"
          /\ \A a \in Broadcasts \ {r} : node'[a] = node[a]
      BY <1>4, WalletAssumption DEF Process, process, walletVars, Inv, Typed, ClientTyped
    <3>. QED BY <2>2, <3>1, Stutters
  <2>. QED BY <2>1, <2>2
<1>5. ASSUME NEW r \in Requests, Write(r) PROVE Abstract
  <2>1. /\ UNCHANGED <<attempts, past>> /\ requests[r].stage = "connecting"
        /\ node' = [node EXCEPT ![r] = "wire"] \/ UNCHANGED node
    BY <1>5 DEF Write, write, walletVars
  <2>2. \A a \in Broadcasts \ past : node'[a] = "accepted" <=> node[a] = "accepted"
    BY <2>1, WalletAssumption DEF Inv, Fated, Typed, ClientTyped
  <2>. QED BY <2>1, <2>2, Stutters
<1>6. CASE lock
  <2>1. Current' = {}
    BY <1>6 DEF lock, Current
  <2>. QED BY <2>1 DEF Held, Landed, Told
<1>7. CASE \/ ClientStep \/ unlock \/ startClaims \/ stopClaims \/ reconnect \/ saveConfig
           \/ UNCHANGED vars \/ \E s \in Sockets : Disconnects(s)
           \/ \E r \in Requests : otherAborts(r) \/ otherRequest(r)
  BY <1>1, <1>7 DEF ClientStep, Alone, unlock, startClaims, stopClaims, reconnect,
       saveConfig, Disconnects, otherAborts, otherRequest, vars, walletVars
<1>. QED BY <1>2, <1>3, <1>4, <1>5, <1>6, <1>7 DEF Next

\* Claims and payments keep the promise of BroadcastOnce, for every number of
\* callers, outpoints and sockets: an outpoint is given up only when its
\* transaction can no longer land (wallet-service.mjs:740-782, rpc.mjs:321-340).
THEOREM BroadcastsOnce == Spec => OnceSpec
<1>1. Init => Once!Init
  BY InitOnce
<1>2. Inv /\ [Next]_vars => [Once!Next]_(Once!vars)
  BY StepOnce
<1>. QED BY <1>1, <1>2, InvAlways, PTL DEF Spec, OnceSpec, Once!Spec

-----------------------------------------------------------------------------
(* Limits.                                                                 *)

\* Only a call of request() joins the queue, and only a transmission the requests
\* in flight.
LEMMA Admission ==
  ASSUME Typed, [Next]_vars
  PROVE  /\ \/ Queued' \subseteq Queued
            \/ \E r \in Requests : Queued' \subseteq Queued \cup {r}
                                   /\ Cardinality(Queued) < MaxQueued
         /\ \/ InFlight' \subseteq InFlight
            \/ \E r \in Requests : InFlight' \subseteq InFlight \cup {r}
                                   /\ Cardinality(InFlight) < MaxPending
<1>. DEFINE Goal == /\ \/ Queued' \subseteq Queued
                       \/ \E r \in Requests : Queued' \subseteq Queued \cup {r}
                                              /\ Cardinality(Queued) < MaxQueued
                    /\ \/ InFlight' \subseteq InFlight
                       \/ \E r \in Requests : InFlight' \subseteq InFlight \cup {r}
                                              /\ Cardinality(InFlight) < MaxPending
<1>0. requests \in [Requests -> Request]
  BY DEF Typed, ClientTyped
<1>s. ASSUME NEW r \in Requests, NEW result
      PROVE  Settled(r, result).stage \in {"idle", "settled"}
  BY DEF Settled, Idle
<1>a. ASSUME NEW S \in SUBSET Requests,
             \A r \in Requests \ S : requests'[r] = requests[r],
             \A r \in S : requests'[r].stage \in {"idle", "settled"}
      PROVE  Goal
  BY <1>a DEF Queued, InFlight, Waiting, Sent
<1>o. ASSUME NEW r \in Requests,
             \A q \in Requests \ {r} : requests'[q] = requests[q],
             requests'[r].stage \in {"idle", "settled"}
      PROVE  Goal
  <2>1. {r} \in SUBSET Requests
    OBVIOUS
  <2>. QED BY <1>a, <1>o, <2>1
<1>b. ASSUME NEW r \in Requests, request(r) PROVE Goal
  <2>1. CASE requests' = [requests EXCEPT ![r] = [@ EXCEPT !.stage = "pacing"]]
             /\ Cardinality(Queued) < MaxQueued
    <3>1. \A q \in Requests \ {r} : requests'[q] = requests[q]
      BY <1>0, <2>1
    <3>2. requests'[r].stage = "pacing"
      BY <1>0, <2>1 DEF Request
    <3>3. InFlight' \subseteq InFlight
      BY <3>1, <3>2 DEF InFlight, Sent
    <3>4. Queued' \subseteq Queued \cup {r}
      BY <3>1 DEF Queued, Waiting, Sent
    <3>. QED BY <2>1, <3>3, <3>4
  <2>2. CASE \E result : requests' = [requests EXCEPT ![r] = Settled(r, result)]
    <3>1. \A q \in Requests \ {r} : requests'[q] = requests[q]
      BY <1>0, <2>2
    <3>2. requests'[r].stage \in {"idle", "settled"}
      BY <1>0, <1>s, <2>2
    <3>. QED BY <1>o, <3>1, <3>2
  <2>3. Queued \subseteq Requests /\ IsFiniteSet(Requests) /\ MaxQueued \in Nat
    BY ClientAssumption DEF Queued
  <2>4. Cardinality(Queued) \in Nat
    BY <2>3, FS_Subset, FS_CardinalityType
  <2>5. CASE r \in aborted \/ closed
    BY <1>b, <2>2, <2>5 DEF request
  <2>6. CASE ~(r \in aborted \/ closed) /\ Cardinality(Queued) >= MaxQueued
    BY <1>b, <2>2, <2>6 DEF request
  <2>7. CASE ~(r \in aborted \/ closed) /\ ~(Cardinality(Queued) >= MaxQueued)
    BY <1>b, <2>1, <2>3, <2>4, <2>7 DEF request
  <2>. QED BY <2>5, <2>6, <2>7
<1>c. ASSUME NEW r \in Requests, NEW result, Settle(r, result) PROVE Goal
  <2>1. /\ \A q \in Requests \ {r} : requests'[q] = requests[q]
        /\ requests'[r] = Settled(r, result)
    BY <1>0, <1>c DEF Settle
  <2>. QED BY <1>o, <1>s, <2>1
<1>d. ASSUME NEW R, requests' = failAll(R, "failed") PROVE Goal
  <2>1. \A r \in Requests : requests'[r] = requests[r] \/ requests'[r].stage \in {"idle", "settled"}
    BY <1>d, <1>s DEF failAll
  <2>2. PICK S \in SUBSET Requests : S = {r \in Requests : requests'[r] # requests[r]}
    OBVIOUS
  <2>. QED BY <1>a, <2>1, <2>2
<1>1. CASE ClientStep
  <2>1. ASSUME NEW r \in Requests, pace(r) PROVE Goal
    <3>1. requests[r].stage = "pacing" /\ requests'[r].stage = "connecting"
          /\ requests'[r].result = requests[r].result
      BY <1>0, <2>1 DEF pace, Request
    <3>2. \A q \in Requests \ {r} : requests'[q] = requests[q]
      BY <1>0, <2>1 DEF pace
    <3>. QED BY <3>1, <3>2 DEF Queued, InFlight, Waiting, Sent
  <2>2. ASSUME NEW r \in Requests, paceFails(r) \/ cancelled(r) \/ streamEnd(r) PROVE Goal
    BY <1>c, <2>2 DEF paceFails, cancelled, streamEnd
  <2>3. ASSUME NEW r \in Requests, reply(r) PROVE Goal
    <3>1. requests[r].stage = "pending"
          /\ (\/ requests'[r].stage = "stream" /\ requests'[r].result = requests[r].result
              \/ requests'[r].stage \in {"idle", "settled"})
      BY <1>0, <1>s, <2>3 DEF reply, Request
    <3>2. \A q \in Requests \ {r} : requests'[q] = requests[q]
      BY <1>0, <2>3 DEF reply
    <3>. QED BY <3>1, <3>2 DEF Queued, InFlight, Waiting, Sent
  <2>4. ASSUME NEW r \in Requests, abandoned(r) PROVE Goal
    <3>1. requests'[r].stage = requests[r].stage /\ requests'[r].result = "failed"
      BY <1>0, <2>4 DEF abandoned, Request
    <3>2. \A q \in Requests \ {r} : requests'[q] = requests[q]
      BY <1>0, <2>4 DEF abandoned
    <3>. QED BY <3>1, <3>2 DEF Queued, InFlight, Waiting, Sent
  <2>5. ASSUME NEW s \in Sockets, connected(s) \/ connectFails(s) PROVE Goal
    <3>1. \A r \in Requests : \/ requests'[r] = requests[r]
                              \/ requests'[r].stage \in {"idle", "settled"}
      BY <2>5, <1>s DEF connected, connectFails
    <3>2. PICK S \in SUBSET Requests : S = {r \in Requests : requests'[r] # requests[r]}
      OBVIOUS
    <3>. QED BY <1>a, <3>1, <3>2
  <2>6. ASSUME NEW s \in Sockets, breaks(s) PROVE Goal
    BY <1>d, <2>6 DEF breaks
  <2>7. ASSUME NEW s \in Sockets, drops(s) PROVE Goal
    BY <2>7 DEF drops, Queued, InFlight, Waiting, Sent
  <2>. QED BY <1>1, <2>1, <2>2, <2>3, <2>4, <2>5, <2>6, <2>7 DEF ClientStep
<1>2. ASSUME NEW r \in Requests, Write(r) PROVE Goal
  <2>1. CASE MayWrite(r)
    <3>1. requests[r].stage = "connecting" /\ requests'[r].stage = "pending"
          /\ requests'[r].result = requests[r].result
      BY <1>0, <1>2, <2>1 DEF Write, write, Request
    <3>2. \A q \in Requests \ {r} : requests'[q] = requests[q]
      BY <1>0, <1>2, <2>1 DEF Write, write
    <3>. QED BY <2>1, <3>1, <3>2 DEF MayWrite, Queued, InFlight, Waiting, Sent
  <2>2. CASE ~MayWrite(r)
    BY <1>2, <1>c, <2>2 DEF Write, write
  <2>. QED BY <2>1, <2>2
<1>3. ASSUME NEW a \in Broadcasts, submitAutomaticClaim(a) \/ confirmSend(a) PROVE Goal
  BY <1>3, <1>b, BroadcastFacts DEF submitAutomaticClaim, confirmSend, Broadcast
<1>4. ASSUME NEW r \in Requests, otherRequest(r) PROVE Goal
  BY <1>4, <1>b DEF otherRequest
<1>5. ASSUME NEW a \in Broadcasts, broadcastSettles(a) PROVE Goal
  <2>1. /\ a \in Requests /\ requests'[a].stage = "idle"
        /\ \A q \in Requests \ {a} : requests'[q] = requests[q]
    BY <1>5, <1>0, BroadcastFacts DEF broadcastSettles, Idle
  <2>. QED BY <1>o, <2>1
<1>6. CASE (\E s \in Sockets : Disconnects(s)) \/ lock \/ saveConfig
  BY <1>6, <1>d DEF Disconnects, closes, lock, saveConfig, close
<1>7. CASE \/ unlock \/ startClaims \/ stopClaims \/ reconnect \/ UNCHANGED vars
           \/ \E r \in Requests : otherAborts(r) \/ Process(r)
  <2>1. UNCHANGED requests
    BY <1>7 DEF unlock, startClaims, stopClaims, reconnect, construct, otherAborts, Process,
                process, vars, clientVars
  <2>. QED BY <2>1 DEF Queued, InFlight, Waiting, Sent
<1>. QED BY <1>1, <1>2, <1>3, <1>4, <1>5, <1>6, <1>7 DEF Next

\* A subset of a set that may take one more element keeps its bound.
LEMMA Bounded ==
  ASSUME NEW n \in Nat, NEW S \in SUBSET Requests, NEW T,
         Cardinality(S) <= n,
         \/ T \subseteq S
         \/ \E r \in Requests : T \subseteq S \cup {r} /\ Cardinality(S) < n
  PROVE  Cardinality(T) <= n
<1>1. IsFiniteSet(S) /\ Cardinality(S) \in Nat
  BY ClientAssumption, FS_Subset, FS_CardinalityType
<1>2. CASE T \subseteq S
  BY <1>1, <1>2, FS_Subset, FS_CardinalityType
<1>3. CASE \E r \in Requests : T \subseteq S \cup {r} /\ Cardinality(S) < n
  <2>1. PICK r \in Requests : T \subseteq S \cup {r} /\ Cardinality(S) < n
    BY <1>3
  <2>2. IsFiniteSet(S \cup {r}) /\ Cardinality(S \cup {r}) <= Cardinality(S) + 1
    <3>1. CASE r \in S
      <4>1. S \cup {r} = S
        BY <3>1
      <4>. QED BY <1>1, <4>1
    <3>2. CASE r \notin S
      BY <1>1, <3>2, FS_AddElement
    <3>. QED BY <3>1, <3>2
  <2>3. Cardinality(T) <= Cardinality(S \cup {r}) /\ Cardinality(S \cup {r}) \in Nat
        /\ Cardinality(T) \in Nat
    BY <2>1, <2>2, FS_Subset, FS_CardinalityType
  <2>. QED BY <1>1, <2>1, <2>2, <2>3
<1>. QED BY <1>2, <1>3

\* The types of the client and the wallet, and the limits of the client: tests that
\* lie before an await still hold at the write (rpc.mjs:308, 317).
THEOREM BroadcastsTypes == Spec => []TypeOK
<1>1. Init => RpcLimits
  <2>1. ASSUME Init PROVE Queued = {} /\ InFlight = {}
    BY <2>1 DEF Init, ClientInit, Idle, Queued, InFlight, Waiting, Sent
  <2>. QED BY <2>1, ClientAssumption, FS_EmptySet DEF RpcLimits
<1>2. ASSUME Typed, RpcLimits, [Next]_vars PROVE RpcLimits'
  <2>1. Queued \in SUBSET Requests /\ InFlight \in SUBSET Requests
    BY DEF Queued, InFlight
  <2>2. MaxQueued \in Nat /\ MaxPending \in Nat
    BY ClientAssumption
  <2>3. Cardinality(Queued') <= MaxQueued
    BY <1>2, <2>1, <2>2, Admission, Bounded DEF RpcLimits
  <2>4. Cardinality(InFlight') <= MaxPending
    BY <1>2, <2>1, <2>2, Admission, Bounded DEF RpcLimits
  <2>. QED BY <2>3, <2>4 DEF RpcLimits
<1>3. Inv => Typed
  BY DEF Inv
<1>. QED BY <1>1, <1>2, <1>3, InvAlways, PTL DEF Spec, TypeOK

-----------------------------------------------------------------------------
(* Sockets.                                                                *)

\* A request stands on a socket that can still answer it or fail it; once the
\* client has closed, whatever waits has been told.
Placed(r) ==
  /\ Sent(r) => /\ requests[r].on \in Sockets
                /\ sockets[requests[r].on] \in {"open", "destroyed"}
  /\ requests[r].stage = "connecting" => /\ requests[r].on \in Sockets
                                         /\ sockets[requests[r].on] # "unused"
  /\ closed /\ Waiting(r) => r \in aborted

\* The fields of the client name the one socket that lives.
Pointed ==
  /\ OneConnection
  /\ \A s \in Sockets : sockets[s] = "connecting" => connecting = s
  /\ ~closed /\ connecting # None => sockets[connecting] = "connecting"
  /\ closed => \A s \in Sockets : sockets[s] # "connecting"

SocketInv == Typed /\ Pointed /\ \A r \in Requests : Placed(r)

\* What steps other than the transmission of a request do to it.
Moved(r) ==
  \/ requests'[r].stage \in {"idle", "settled"}
  \/ requests'[r].stage = "pacing" /\ ~closed
  \/ requests'[r].stage = requests[r].stage /\ requests'[r].on = requests[r].on
  \/ Sent(r) /\ Sent(r)' /\ requests'[r].on = requests[r].on

\* No socket is forgotten.
Lasting ==
  \A s \in Sockets :
    /\ sockets[s] \in {"open", "destroyed"} => sockets'[s] \in {"open", "destroyed"}
    /\ sockets[s] # "unused" => sockets'[s] # "unused"

Signalled(r) == r \in aborted => r \in aborted' \/ requests'[r].stage \in {"idle", "settled"}

LEMMA StaysPlaced ==
  ASSUME NEW r \in Requests, Placed(r), Moved(r), Lasting, Signalled(r), closed' => closed
  PROVE  Placed(r)'
BY DEF Placed, Moved, Lasting, Signalled, Sent, Waiting

LEMMA SettledQuiet ==
  ASSUME NEW r \in Requests, NEW result
  PROVE  Settled(r, result).stage \in {"idle", "settled"}
BY DEF Settled, Idle

\* A signal is remembered as long as its request.
LEMMA SignalKeeps ==
  ASSUME NEW fired, Signal(fired), NEW r \in Requests
  PROVE  Signalled(r)
BY DEF Signal, Signalled

LEMMA RequestMoves ==
  ASSUME Typed, NEW a \in Requests, request(a), NEW r \in Requests
  PROVE  Moved(r) /\ UNCHANGED <<sockets, socket, connecting, closed>>
<1>1. requests \in [Requests -> Request]
  BY DEF Typed, ClientTyped
<1>2. CASE r = a
  <2>1. \/ \E result : requests'[a] = Settled(a, result)
        \/ ~closed /\ requests'[a] = [requests[a] EXCEPT !.stage = "pacing"]
    BY <1>1 DEF request
  <2>2. CASE \E result : requests'[a] = Settled(a, result)
    BY <1>2, <2>2, SettledQuiet DEF Moved, request
  <2>3. CASE ~closed /\ requests'[a] = [requests[a] EXCEPT !.stage = "pacing"]
    <3>1. requests'[a].stage = "pacing"
      BY <1>1, <2>3 DEF Request
    <3>. QED BY <1>2, <2>3, <3>1 DEF Moved, request
  <2>. QED BY <2>1, <2>2, <2>3 DEF request
<1>3. CASE r # a
  BY <1>1, <1>3 DEF request, Moved
<1>. QED BY <1>2, <1>3

LEMMA SocketInvInductive ==
  ASSUME SocketInv, [Next]_vars
  PROVE  SocketInv'
<1>. USE DEF SocketInv
<1>0. Typed'
  BY NextTyped
<1>a. /\ requests \in [Requests -> Request]
      /\ sockets \in [Sockets -> {"unused", "connecting", "open", "destroyed"}]
      /\ socket \in Sockets \cup {None} /\ connecting \in Sockets \cup {None}
      /\ None \notin Sockets
  BY ClientAssumption DEF Typed, ClientTyped
<1>u. ASSUME UNCHANGED <<sockets, socket, connecting>>, closed' => closed,
             \/ closed' = closed \/ connecting' = None,
             \A r \in Requests : Moved(r) /\ Signalled(r)
      PROVE  SocketInv'
  <2>1. Pointed' /\ Lasting
    BY <1>u DEF Pointed, OneConnection, Lasting
  <2>. QED BY <1>0, <1>u, <2>1, StaysPlaced
<1>e. ASSUME NEW fired, Signal(fired), NEW r \in Requests, NEW result, Settle(r, result),
             UNCHANGED <<sockets, socket, connecting, closed>>
      PROVE  SocketInv'
  <2>1. \A q \in Requests : Moved(q)
    BY <1>a, <1>e, SettledQuiet DEF Settle, Moved
  <2>. QED BY <1>e, <1>u, <2>1, SignalKeeps
<1>1. CASE ClientStep
  <2>0. Signal({}) /\ \A r \in Requests : Signalled(r)
    BY <1>1, SignalKeeps DEF ClientStep, Alone
  <2>1. ASSUME NEW r \in Requests, pace(r) PROVE SocketInv'
    <3>1. PICK s \in Sockets :
            /\ connect(s)
            /\ requests' = [requests EXCEPT ![r].stage = "connecting", ![r].on = s]
      BY <2>1 DEF pace
    <3>2. ~closed /\ ~closed'
      BY <2>1 DEF pace, Placed, Waiting
    <3>3. Pointed' /\ Lasting /\ sockets'[s] # "unused"
      <4>1. CASE Usable
        BY <1>a, <3>1, <3>2, <4>1 DEF connect, Usable, Pointed, OneConnection, Lasting
      <4>2. CASE ~Usable /\ connecting # None
        BY <1>a, <3>1, <3>2, <4>2 DEF connect, Pointed, OneConnection, Lasting
      <4>3. CASE ~Usable /\ connecting = None
        <5>1. \A q \in Sockets : sockets[q] \notin {"connecting", "open"}
          BY <1>a, <4>3 DEF Pointed, OneConnection, Usable
        <5>2. /\ sockets[s] = "unused" /\ sockets' = [sockets EXCEPT ![s] = "connecting"]
              /\ socket' = s /\ connecting' = s
          BY <3>1, <4>3 DEF connect
        <5>. QED BY <1>a, <3>2, <5>1, <5>2 DEF Pointed, OneConnection, Lasting
      <4>. QED BY <4>1, <4>2, <4>3
    <3>4. ASSUME NEW q \in Requests PROVE Placed(q)'
      <4>1. CASE q = r
        <5>1. requests'[r].stage = "connecting" /\ requests'[r].on = s
          BY <1>a, <3>1 DEF Request
        <5>. QED BY <3>2, <3>3, <4>1, <5>1 DEF Placed, Sent
      <4>2. CASE q # r
        <5>1. Moved(q)
          BY <1>a, <3>1, <4>2 DEF Moved
        <5>. QED BY <2>0, <3>2, <3>3, <5>1, StaysPlaced
      <4>. QED BY <4>1, <4>2
    <3>. QED BY <1>0, <3>3, <3>4
  <2>2. ASSUME NEW r \in Requests, paceFails(r) \/ cancelled(r) \/ streamEnd(r) PROVE SocketInv'
    BY <1>e, <2>0, <2>2 DEF paceFails, cancelled, streamEnd
  <2>3. ASSUME NEW r \in Requests, reply(r) \/ abandoned(r) PROVE SocketInv'
    <3>1. \A q \in Requests \ {r} : Moved(q)
      BY <1>a, <2>3 DEF reply, abandoned, Moved
    <3>2. Moved(r)
      <4>1. CASE abandoned(r)
        BY <1>a, <4>1 DEF abandoned, Moved, Request
      <4>2. CASE reply(r)
        <5>1. PICK answer \in Answers(r) : requests' = [requests EXCEPT ![r] =
                IF answer = "ok" /\ Method[r] = "stream" THEN [@ EXCEPT !.stage = "stream"]
                ELSE Settled(r, answer)]
          BY <4>2 DEF reply
        <5>2. CASE answer = "ok" /\ Method[r] = "stream"
          <6>1. requests'[r] = [requests[r] EXCEPT !.stage = "stream"]
            BY <1>a, <5>1, <5>2
          <6>2. requests'[r].stage = "stream" /\ requests'[r].on = requests[r].on
            BY <1>a, <6>1 DEF Request
          <6>. QED BY <4>2, <6>2 DEF Moved, Sent, reply
        <5>3. CASE ~(answer = "ok" /\ Method[r] = "stream")
          BY <1>a, <5>1, <5>3, SettledQuiet DEF Moved
        <5>. QED BY <5>2, <5>3
      <4>. QED BY <2>3, <4>1, <4>2
    <3>. QED BY <1>u, <2>0, <2>3, <3>1, <3>2 DEF reply, abandoned
  <2>4. ASSUME NEW s \in Sockets, connected(s) \/ connectFails(s) PROVE SocketInv'
    <3>1. \A q \in Requests : Moved(q)
      BY <1>a, <2>4, SettledQuiet DEF connected, connectFails, Moved
    <3>2. \/ sockets' = [sockets EXCEPT ![s] = "destroyed"]
          \/ sockets' = [sockets EXCEPT ![s] = "open"] /\ socket = s
      BY <2>4 DEF connected, connectFails
    <3>3. /\ sockets[s] = "connecting" /\ connecting = s /\ connecting' = None
          /\ UNCHANGED <<socket, closed>>
      BY <1>a, <2>4 DEF connected, connectFails, Pointed
    <3>4. Pointed'
      BY <1>a, <3>2, <3>3 DEF Pointed, OneConnection
    <3>5. Lasting
      BY <1>a, <3>2, <3>3 DEF Lasting
    <3>. QED BY <1>0, <2>0, <3>1, <3>3, <3>4, <3>5, StaysPlaced
  <2>5. ASSUME NEW s \in Sockets, breaks(s) \/ drops(s) PROVE SocketInv'
    <3>1. \A q \in Requests : Moved(q)
      BY <1>a, <2>5, SettledQuiet DEF breaks, drops, failAll, Moved
    <3>2. /\ sockets[s] = "open" /\ sockets' = [sockets EXCEPT ![s] = "destroyed"]
          /\ UNCHANGED <<socket, connecting, closed>>
      BY <2>5 DEF breaks, drops
    <3>3. Pointed' /\ Lasting
      BY <1>a, <3>2 DEF Pointed, OneConnection, Lasting
    <3>. QED BY <1>0, <2>0, <3>1, <3>2, <3>3, StaysPlaced
  <2>. QED BY <1>1, <2>1, <2>2, <2>3, <2>4, <2>5 DEF ClientStep
<1>2. ASSUME NEW r \in Requests, Write(r) PROVE SocketInv'
  <2>1. CASE MayWrite(r)
    <3>1. /\ requests' = [requests EXCEPT ![r].stage = "pending"]
          /\ UNCHANGED <<sockets, socket, connecting, closed>>
      BY <1>2, <2>1 DEF Write, write
    <3>2. Pointed' /\ Lasting
      BY <3>1 DEF Pointed, OneConnection, Lasting
    <3>3. Placed(r)'
      <4>1. requests'[r].stage = "pending" /\ requests'[r].on = socket
        BY <1>a, <2>1, <3>1 DEF Request, MayWrite
      <4>. QED BY <1>a, <2>1, <3>1, <4>1 DEF Placed, Waiting, MayWrite, Usable
    <3>4. ASSUME NEW q \in Requests \ {r} PROVE Placed(q)'
      <4>1. Moved(q) /\ Signalled(q)
        BY <1>2, <1>a, <3>1, SignalKeeps DEF Moved, Write
      <4>. QED BY <3>1, <3>2, <4>1, StaysPlaced
    <3>. QED BY <1>0, <3>2, <3>3, <3>4
  <2>2. CASE ~MayWrite(r)
    BY <1>2, <1>e, <2>2 DEF Write, write
  <2>. QED BY <2>1, <2>2
<1>3. ASSUME NEW a \in Requests, request(a), UNCHANGED aborted PROVE SocketInv'
  <2>1. \A r \in Requests : Moved(r) /\ Signalled(r)
    BY <1>3, RequestMoves DEF Signalled
  <2>. QED BY <1>3, <1>u, <2>1, RequestMoves
<1>4. ASSUME NEW a \in Broadcasts, broadcastSettles(a) PROVE SocketInv'
  <2>1. \A q \in Requests : Moved(q)
    BY <1>4, <1>a, BroadcastFacts DEF broadcastSettles, Moved, Idle
  <2>2. \A q \in Requests : Signalled(q)
    BY <1>4, SignalKeeps DEF broadcastSettles, stops
  <2>. QED BY <1>4, <1>u, <2>1, <2>2 DEF broadcastSettles
<1>5. ASSUME NEW s \in Sockets, Disconnects(s) PROVE SocketInv'
  <2>1. /\ waiters(s) = {} /\ requests' = failAll(owners(s), "failed")
        /\ sockets[s] = "destroyed" /\ sockets' = [sockets EXCEPT ![s] = "unused"]
        /\ socket' = IF socket = s THEN None ELSE socket
        /\ UNCHANGED <<connecting, closed>>
    BY <1>5 DEF Disconnects, closes
  <2>2. Pointed'
    BY <1>a, <2>1 DEF Pointed, OneConnection
  <2>3. ASSUME NEW q \in Requests PROVE Placed(q)'
    <3>1. Signalled(q)
      BY <1>5, SignalKeeps DEF Disconnects, stops
    <3>2. CASE q \in owners(s)
      <4>1. requests'[q].stage \in {"idle", "settled"}
        BY <2>1, <3>2, SettledQuiet DEF failAll
      <4>. QED BY <4>1 DEF Placed, Sent, Waiting
    <3>3. CASE q \notin owners(s)
      <4>1. requests'[q] = requests[q] /\ q \notin waiters(s)
        BY <2>1, <3>3 DEF failAll
      <4>2. Sent(q) \/ requests[q].stage = "connecting" => requests[q].on # s
        BY <3>3, <4>1 DEF owners, InFlight, waiters
      <4>. QED BY <1>a, <2>1, <3>1, <4>1, <4>2 DEF Placed, Sent, Waiting, Signalled
    <3>. QED BY <3>2, <3>3
  <2>. QED BY <1>0, <2>2, <2>3
<1>6. CASE lock \/ saveConfig
  <2>1. close
    BY <1>6 DEF lock, saveConfig
  <2>2. /\ closed' = TRUE /\ requests' = failAll(InFlight, "failed") /\ Signal(Requests)
        /\ sockets' = IF socket = None THEN sockets
                      ELSE [sockets EXCEPT ![socket] = "destroyed"]
        /\ socket' = None /\ UNCHANGED connecting
    BY <2>1 DEF close
  <2>3. /\ \A s \in Sockets : sockets'[s] \notin {"connecting", "open"}
        /\ \A s \in Sockets : sockets[s] # "unused" => sockets'[s] # "unused"
    BY <1>a, <2>2 DEF Pointed, OneConnection
  <2>4. Pointed'
    BY <2>2, <2>3 DEF Pointed, OneConnection
  <2>5. ASSUME NEW q \in Requests PROVE Placed(q)'
    <3>1. CASE q \in InFlight
      <4>1. requests'[q].stage \in {"idle", "settled"}
        BY <2>2, <3>1, SettledQuiet DEF failAll
      <4>. QED BY <4>1 DEF Placed, Sent, Waiting
    <3>2. CASE q \notin InFlight
      <4>1. requests'[q] = requests[q] /\ ~Sent(q)
        BY <2>2, <3>2 DEF failAll, InFlight
      <4>. QED BY <2>2, <2>3, <4>1 DEF Placed, Sent, Waiting, Signal
    <3>. QED BY <3>1, <3>2
  <2>. QED BY <1>0, <2>4, <2>5
<1>7. CASE reconnect
  <2>1. /\ UNCHANGED <<requests, sockets, socket, aborted>> /\ closed' = FALSE
        /\ connecting' = None /\ closed /\ \A r \in aborted : ~Waiting(r)
    BY <1>7 DEF reconnect, construct
  <2>2. ASSUME NEW s \in Sockets PROVE sockets[s] # "connecting"
    BY <1>a, <2>1 DEF Pointed
  <2>. QED BY <1>0, <2>1, <2>2 DEF Pointed, OneConnection, Placed, Sent, Waiting
<1>8. CASE \/ unlock \/ startClaims \/ stopClaims \/ UNCHANGED vars
           \/ \E r \in Requests : otherAborts(r) \/ Process(r)
  <2>1. UNCHANGED <<requests, sockets, socket, connecting, closed>>
    BY <1>8 DEF unlock, startClaims, stopClaims, vars, clientVars, otherAborts, Process, process
  <2>2. \A q \in Requests : Signalled(q)
    <3>1. CASE stopClaims
      BY <3>1, SignalKeeps DEF stopClaims, stops
    <3>2. CASE ~stopClaims
      BY <1>8, <3>2 DEF unlock, startClaims, vars, clientVars, otherAborts, Process, Signalled
    <3>. QED BY <3>1, <3>2
  <2>. QED BY <1>u, <2>1, <2>2 DEF Moved
<1>. QED
  BY <1>1, <1>2, <1>3, <1>4, <1>5, <1>6, <1>7, <1>8, BroadcastFacts
  DEF Next, submitAutomaticClaim, confirmSend, Broadcast, otherRequest

LEMMA SocketInvAlways == Spec => []SocketInv
<1>1. ASSUME Init PROVE SocketInv
  <2>1. Typed
    BY <1>1, InitTyped
  <2>. QED BY <1>1, <2>1
       DEF Init, ClientInit, Idle, SocketInv, Pointed, OneConnection, Placed, Sent, Waiting
<1>2. SocketInv /\ [Next]_vars => SocketInv'
  BY SocketInvInductive
<1>. QED BY <1>1, <1>2, PTL DEF Spec

\* No request is left on a socket that will never tell it anything
\* (rpc.mjs:149-158), for every number of callers and sockets.
THEOREM BroadcastsNoneStranded == Spec => []NoneStranded
<1>1. SocketInv => NoneStranded
  BY DEF SocketInv, Placed, NoneStranded
<1>. QED BY <1>1, SocketInvAlways, PTL

\* Only the current socket lives (rpc.mjs:95-163, 356-359).
THEOREM BroadcastsOneConnection == Spec => []OneConnection
<1>1. SocketInv => OneConnection
  BY DEF SocketInv, Pointed
<1>. QED BY <1>1, SocketInvAlways, PTL
=============================================================================

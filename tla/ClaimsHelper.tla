----------------------------- MODULE ClaimsHelper -----------------------------
(***************************************************************************)
(* The wallet's side of the claims helper, ConnectionPool                  *)
(* (src/src/core/claim-pool.mjs), composed with the helper process: the    *)
(* requests of the claims engine, their cancellations, the frames that     *)
(* answer them, deadlines, crashes, shutdown and the next process.         *)
(*                                                                         *)
(* `counts' is the engine's record of successful connections, which        *)
(* outlives the process.                                                   *)
(***************************************************************************)
EXTENDS ClaimsService

CONSTANT MaxRequests   \* open at once: 512 in the pool, Concurrency + DnsLimit in the engine

\* None is no report of a capture.
ASSUME PoolAssumption ==
  /\ MaxRequests \in Nat \ {0}
  /\ None \notin [captured : BOOLEAN, count : 0..MaxCount]

VARIABLES
  pool,       \* "none", "starting", "ready", "failed" or "closing"
  requests,   \* the requests of the pool
  aborted,    \* those whose signal has fired
  counts      \* engine.successCounts

poolVars == <<pool, requests, aborted, counts>>
vars == <<process, serviceVars, commands, frames, poolVars>>

Unasked == [open |-> FALSE, started |-> FALSE, base |-> 0, capture |-> None]
Open == {j \in Jobs : requests[j].open}

\* Types of the helper and of the pool.
TypeOK ==
  /\ ServiceTyped
  /\ pool \in {"none", "starting", "ready", "failed", "closing"}
  /\ requests \in [Jobs -> [open : BOOLEAN, started : BOOLEAN, base : 0..MaxCount,
                            capture : [captured : BOOLEAN, count : 0..MaxCount] \cup {None}]]
  /\ aborted \subseteq Open /\ counts \in [Bounties -> 0..MaxCount]

Init ==
  /\ ServiceInit /\ process = "gone" /\ commands = <<>> /\ frames = <<>>
  /\ pool = "none" /\ requests = [j \in Jobs |-> Unasked] /\ aborted = {}
  /\ counts = [b \in Bounties |-> 0]

Listening == pool \in {"starting", "ready"}

-----------------------------------------------------------------------------
(* Settling requests.                                                      *)

\* Faulty variant: the listener of the signal is not removed.
finishListens(S) ==
  /\ requests' = [j \in Jobs |-> IF j \in S THEN Unasked ELSE requests[j]]
  /\ UNCHANGED aborted

\* finish, for the requests in S.
finish(S) ==
  /\ requests' = [j \in Jobs |-> IF j \in S THEN Unasked ELSE requests[j]]
  /\ aborted' = aborted \ S

\* fail: every request is rejected and the process is killed.
fail ==
  /\ pool' = "failed" /\ finish(Jobs)
  /\ process' = IF process = "gone" THEN "gone" ELSE "dead"
  /\ Ends /\ commands' = <<>> /\ frames' = <<>>

-----------------------------------------------------------------------------
(* Calls of the engine.                                                    *)

start ==
  /\ pool = "none" /\ process = "gone"
  /\ pool' = "starting" /\ process' = "up"
  /\ frames' = <<[type |-> "ready", id |-> None]>>
  /\ UNCHANGED <<serviceVars, commands, requests, aborted, counts>>

Traces(j) ==
  \/ jobs[j].stage # "none"
  \/ \E i \in DOMAIN commands : commands[i].id = j
  \/ \E i \in DOMAIN frames : frames[i].id = j

\* request(): resolve() or attempt(), which carries the engine's count.
request(j) ==
  /\ pool = "ready" /\ Cardinality(Open) < MaxRequests
  /\ j \notin Open /\ ~Traces(j)
  /\ Len(commands) < MaxPipe
  /\ LET n == IF j \in Attempts THEN counts[Bounty[j]] ELSE 0
     IN  /\ requests' = [requests EXCEPT ![j] = [Unasked EXCEPT !.open = TRUE, !.base = n]]
         /\ commands' = Append(commands, [type |-> "request", id |-> j, count |-> n])
  /\ UNCHANGED <<process, serviceVars, frames, pool, aborted, counts>>

\* request.abort: the helper is told, and the request stays until it answers.
abort(j) ==
  /\ pool = "ready" /\ j \in Open \ aborted /\ Len(commands) < MaxPipe
  /\ aborted' = aborted \cup {j}
  /\ commands' = Append(commands, [type |-> "cancel", id |-> j, count |-> 0])
  /\ UNCHANGED <<process, serviceVars, frames, pool, requests, counts>>

\* close(): the helper is told to shut down and is killed when it does not;
\* nothing it does meanwhile is looked at.
close ==
  /\ Listening \/ pool = "failed"
  /\ pool' = IF process = "gone" THEN "none" ELSE "closing"
  /\ process' = IF process = "gone" THEN "gone" ELSE "dead"
  /\ Ends /\ commands' = <<>> /\ frames' = <<>>
  /\ UNCHANGED <<requests, aborted, counts>>

-----------------------------------------------------------------------------
(* Frames of the helper.                                                   *)

\* What receive asks of a capture or a final frame of an attempt.
FieldsFit(f, q) ==
  /\ f.started = q.started /\ (f.captured => f.started)
  /\ LET least == q.base + (IF f.captured THEN 1 ELSE 0)
     IN  f.count >= IF least > MaxCount THEN MaxCount ELSE least

\* receive throws for any other frame.
Fits(f) ==
  IF f.type = "ready" THEN pool = "starting"
  ELSE /\ f.id \in Open
       /\ LET q == requests[f.id] IN
          CASE f.type = "resolved" -> f.id \in Resolves
            [] f.type = "started"  -> f.id \in Attempts /\ ~q.started /\ q.capture = None
            [] f.type = "capture"  ->
                 f.id \in Attempts /\ FieldsFit(f.fields, q) /\ q.started /\ q.capture = None
            [] f.type = "attempt"  ->
                 /\ f.id \in Attempts /\ FieldsFit(f.fields, q)
                 /\ q.started => q.capture # None
                 /\ q.capture # None =>
                      q.capture = [captured |-> f.fields.captured, count |-> f.fields.count]
                 /\ f.proof => f.fields.captured /\ ~f.cancelled
            [] OTHER -> FALSE

\* observe: frames of several workers may come in any order.
Observed(f) ==
  [counts EXCEPT ![Bounty[f.id]] =
     IF f.fields.captured /\ f.fields.count > @ THEN f.fields.count ELSE @]

Take(f) ==
  /\ IF f.type \in {"resolved", "attempt"} THEN finish({f.id})
     ELSE /\ requests' = CASE f.type = "ready"   -> requests
                           [] f.type = "started" -> [requests EXCEPT ![f.id].started = TRUE]
                           [] f.type = "capture" ->
                                [requests EXCEPT ![f.id].capture =
                                   [captured |-> f.fields.captured, count |-> f.fields.count]]
          /\ UNCHANGED aborted
  /\ counts' = IF f.type = "capture" THEN Observed(f) ELSE counts
  /\ pool' = "ready" /\ frames' = Tail(frames)
  /\ UNCHANGED <<process, serviceVars, commands>>

receive ==
  /\ Listening /\ frames # <<>>
  /\ IF Fits(Head(frames)) THEN Take(Head(frames)) ELSE fail /\ UNCHANGED counts

-----------------------------------------------------------------------------
(* Deadlines and the end of the process.                                   *)

\* A request has taken 45 seconds, or the start 15: the helper is given up.
deadline ==
  /\ pool = "starting" \/ (pool = "ready" /\ Open # {})
  /\ fail /\ UNCHANGED counts

\* The process dies; what it wrote can still be read.
crash ==
  /\ process = "up" /\ process' = "dead"
  /\ Ends /\ UNCHANGED <<commands, frames, poolVars>>

\* The close event of the process, after the end of its output.
closed ==
  /\ process = "dead" /\ frames = <<>> /\ process' = "gone"
  /\ IF pool = "closing" THEN pool' = "none" /\ finish(Jobs)
     ELSE IF Listening THEN pool' = "failed" /\ finish(Jobs)
     ELSE UNCHANGED <<pool, requests, aborted>>
  /\ commands' = <<>> /\ UNCHANGED <<serviceVars, frames, counts>>

\* Nobody reads the input of a dead process.
inputFails ==
  /\ Listening /\ process = "dead" /\ commands # <<>>
  /\ fail /\ UNCHANGED counts

Service ==
  \/ accept \/ cancel
  \/ \E j \in Jobs : schedule(j) \/ Thread(j)
  \/ \E d \in Domains : expires(d)

Next ==
  \/ Service /\ UNCHANGED poolVars
  \/ \E j \in Jobs : request(j) \/ abort(j)
  \/ start \/ receive \/ close
  \/ deadline \/ crash \/ closed \/ inputFails

Spec == Init /\ [][Next]_vars

-----------------------------------------------------------------------------
(* Properties.                                                             *)

\* The scheduler's books are exact: the queue holds each waiting job once, and
\* the slots in use are those of the jobs that run, however commands, ends and
\* withdrawals interleave (claims_service.py:184-213, 342-358).
BooksKept ==
  /\ Len(pending) = Cardinality({j \in Live : jobs[j].stage = "queued"})
  /\ \A j \in Live : jobs[j].stage = "queued" => \E i \in DOMAIN pending : pending[i] = j
  /\ \A kind \in DOMAIN active :
       active[kind] = Cardinality(Running(kind)) /\ active[kind] <= Limit[kind]

\* The pool never refuses what the helper sends: whatever is cancelled, captured or
\* concluded at once, every frame fits the request it is for (claim-pool.mjs:104-147).
\* A misfit would end all claims.
FramesFit == Listening /\ frames # <<>> => Fits(Head(frames))

\* The i-th frame reports a capture for bounty b.
Captures(i, b) ==
  frames[i].type = "capture" /\ frames[i].fields.captured /\ Bounty[frames[i].id] = b

OneMore(n) == IF n < MaxCount THEN n + 1 ELSE MaxCount

\* n is the count of bounty b that the pool has read before the i-th frame.
Known(i, b, n) ==
  LET earlier == {k \in 1..(i - 1) : Captures(k, b)} IN
  IF earlier = {} THEN n = counts[b]
  ELSE \E k \in earlier : (\A l \in earlier : l <= k) /\ n = frames[k].fields.count

\* The captures of a bounty are reported in the order they are counted, each
\* one more than the one before, though several threads report them
\* (claims_service.py:296-309).
CapturesInOrder ==
  \A b \in Bounties, i \in DOMAIN frames : Listening /\ Captures(i, b) =>
    \E n \in 0..MaxCount : Known(i, b, n) /\ frames[i].fields.count = OneMore(n)

\* A bounty is given up in time: only connections that were open when it had
\* enough of them may still be counted (claims_service.py:240-266).
BudgetKept == \A b \in Bounties : successes[b] <= Enough + Concurrency

Asked    == {commands[i].id : i \in {k \in DOMAIN commands : commands[k].type = "request"}}
Working  == {j \in Live : jobs[j].stage # "leaving"}
Answered == {frames[i].id : i \in {k \in DOMAIN frames :
                                     frames[k].type \in {"resolved", "attempt"}}}

\* No request is lost or answered twice, whenever it is cancelled: while the
\* helper lives, each open request has its command, its job or its answer on the
\* way, and nothing else is (claims_service.py:342-358, 201-213).  Its slot of
\* the pool would be lost until the deadline ends all claims.
Carried ==
  Listening /\ process = "up" =>
    /\ Open = Asked \cup Working \cup Answered
    /\ Asked \cap Working = {} /\ Asked \cap Answered = {} /\ Working \cap Answered = {}
=============================================================================

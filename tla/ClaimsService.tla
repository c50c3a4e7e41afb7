---------------------------- MODULE ClaimsService ----------------------------
(***************************************************************************)
(* The claims helper, one process with many threads                        *)
(* (src/helpers/claims_service.py): a thread reads commands, a scheduler   *)
(* starts queued jobs while a slot of their kind is free, and the threads  *)
(* of an executor resolve domains and capture connections, each reporting  *)
(* its own progress to one pipe.                                           *)
(*                                                                         *)
(* A job of Jobs is identified with the request it serves; an identifier   *)
(* is used again once nothing is left of the earlier request.  Time is     *)
(* abstract: resolutions expire and connections end whenever they may, the *)
(* pacing of starts only delays, and a remembered failure of a resolution  *)
(* is not told from another failure.  A thread that finds the pipe full    *)
(* waits.  Nobody looks at the helper once it was told to shut down, so    *)
(* its own close() is not modelled.                                        *)
(***************************************************************************)
EXTENDS Naturals, Sequences, FiniteSets

CONSTANTS
  Attempts, Resolves,   \* identifiers of the two kinds of jobs
  Bounties, Bounty,     \* Bounty \in [Attempts -> Bounties]
  Domains, Domain,      \* Domain \in [Jobs -> Domains]
  Concurrency,          \* connections at once
  DnsLimit,             \* 2 in the code
  MaxJobs,              \* MAX_PENDING, 512 in the code
  Enough,               \* successes after which a bounty needs no more
  MaxCount,             \* MAX_UINT64
  MaxPipe,              \* messages in a pipe (a bound)
  None

Jobs == Attempts \cup Resolves

ASSUME ServiceAssumption ==
  /\ Attempts \cap Resolves = {} /\ IsFiniteSet(Jobs)
  /\ Bounty \in [Attempts -> Bounties] /\ Domain \in [Jobs -> Domains]
  /\ {Concurrency, DnsLimit, MaxJobs, Enough, MaxCount, MaxPipe} \subseteq Nat \ {0}
  /\ None \notin Nat \cup Jobs

VARIABLES
  process,     \* "up", "dead" until it is reaped, "gone"
  jobs,        \* state of each Job
  cancelled,   \* the jobs whose control is cancelled
  pending,     \* queued jobs, in order
  active,      \* active_tls and active_dns
  dns,         \* the domains known to have public endpoints
  successes,   \* budget.successes
  commands,    \* the pipe to the helper
  frames       \* the pipe from the helper

serviceVars == <<jobs, cancelled, pending, active, dns, successes>>

Stages == {"none", "queued", "running", "resolving", "starting", "open", "verifying",
           "concluding", "leaving"}
NoJob == [stage |-> "none", started |-> FALSE, captured |-> FALSE, count |-> None,
          proof |-> FALSE]

Kind(j) == IF j \in Attempts THEN "attempt" ELSE "resolve"
Limit == [attempt |-> Concurrency, resolve |-> DnsLimit]

Live == {j \in Jobs : jobs[j].stage # "none"}
Running(kind) == {j \in Live : Kind(j) = kind /\ jobs[j].stage # "queued"}

ServiceTyped ==
  /\ process \in {"up", "dead", "gone"}
  /\ jobs \in [Jobs -> [stage : Stages, started : BOOLEAN, captured : BOOLEAN,
                        count : 0..MaxCount \cup {None}, proof : BOOLEAN]]
  /\ cancelled \subseteq Live
  /\ dns \subseteq Domains
  /\ successes \in [Bounties -> 0..MaxCount]
  /\ Len(commands) <= MaxPipe /\ Len(frames) <= MaxPipe

\* A new process; its budgets are empty.
Fresh(js, cs, ps, as, ds, ss) ==
  /\ js = [j \in Jobs |-> NoJob] /\ cs = {} /\ ps = <<>>
  /\ as = [attempt |-> 0, resolve |-> 0]
  /\ ds = {} /\ ss = [b \in Bounties |-> 0]

ServiceInit == Fresh(jobs, cancelled, pending, active, dns, successes)

\* The process ends, and nobody will look at its state.
Ends == Fresh(jobs', cancelled', pending', active', dns', successes')

-----------------------------------------------------------------------------
Emit(frame) == Len(frames) < MaxPipe /\ frames' = Append(frames, frame)

Advance(j, stage) == jobs' = [jobs EXCEPT ![j].stage = stage]

\* Faulty variant: a bounty is given up one success too late.
ExhaustedLate(b) == successes[b] = MaxCount \/ successes[b] > Enough + 1

Exhausted(b) == successes[b] = MaxCount \/ successes[b] > Enough

\* Faulty variant: the count is read again for every frame.
FieldsNow(j, job) ==
  [started |-> job.started, captured |-> job.captured, count |-> successes[Bounty[j]]]

\* _fields: the count is the one of the capture, if there was one.
Fields(j, job) ==
  [started |-> job.started, captured |-> job.captured,
   count |-> IF job.count = None THEN successes[Bounty[j]] ELSE job.count]

Started(j)      == [type |-> "started", id |-> j]
Resolved(j, ok) == [type |-> "resolved", id |-> j, ok |-> ok]
Capture(j, job) == [type |-> "capture", id |-> j, fields |-> Fields(j, job)]
Attempt(j, job, proof) ==
  [type |-> "attempt", id |-> j, fields |-> Fields(j, job),
   cancelled |-> j \in cancelled, proof |-> proof]

\* The frame that concludes a job cancelled before it ran.
Withdrawn(j) ==
  IF j \in Attempts THEN Attempt(j, jobs[j], FALSE) ELSE Resolved(j, FALSE)

-----------------------------------------------------------------------------
(* The thread that reads commands.                                         *)

\* command: a resolution or an attempt is queued; a helper with too many jobs
\* gives up.
accept ==
  /\ process = "up" /\ commands # <<>> /\ Head(commands).type = "request"
  /\ commands' = Tail(commands)
  /\ LET j == Head(commands).id
         n == Head(commands).count
     IN  IF Cardinality(Live) >= MaxJobs
         THEN /\ process' = "dead" /\ Ends /\ Emit([type |-> "error", id |-> None])
         ELSE /\ jobs' = [jobs EXCEPT ![j].stage = "queued"]
              /\ pending' = Append(pending, j)
              /\ successes' = IF j \in Attempts /\ n > successes[Bounty[j]]
                              THEN [successes EXCEPT ![Bounty[j]] = n] ELSE successes
              /\ UNCHANGED <<process, cancelled, active, dns, frames>>

\* pending.remove: the queue without the first occurrence of the job.
Without(j) ==
  LET found(i) == \E k \in 1..i : pending[k] = j
      n == Len(pending)
  IN  [i \in 1..(IF found(n) THEN n - 1 ELSE n) |-> pending[IF found(i) THEN i + 1 ELSE i]]

\* Faulty variant: a cancelled job stays in the queue.
cancelKeepsPending ==
  /\ process = "up" /\ commands # <<>> /\ Head(commands).type = "cancel"
  /\ commands' = Tail(commands)
  /\ LET j == Head(commands).id
     IN  IF jobs[j].stage = "queued"
         THEN jobs' = [jobs EXCEPT ![j] = NoJob] /\ Emit(Withdrawn(j)) /\ UNCHANGED cancelled
         ELSE cancelled' = cancelled \cup ({j} \cap Live) /\ UNCHANGED <<jobs, frames>>
  /\ UNCHANGED <<process, pending, active, dns, successes>>

\* Faulty variant: a job that began to run meanwhile is withdrawn as well.
cancelRunning ==
  /\ process = "up" /\ commands # <<>> /\ Head(commands).type = "cancel"
  /\ commands' = Tail(commands)
  /\ LET j == Head(commands).id
     IN  /\ cancelled' = cancelled \cup ({j} \cap Live) /\ pending' = Without(j)
         /\ IF jobs[j].stage = "queued" THEN jobs' = [jobs EXCEPT ![j] = NoJob] ELSE UNCHANGED jobs
         /\ IF j \in Live THEN Emit(Withdrawn(j)) ELSE UNCHANGED frames
  /\ UNCHANGED <<process, active, dns, successes>>

\* _cancel: a queued job is withdrawn and concluded at once; a running one
\* finds out by itself.
cancel ==
  /\ process = "up" /\ commands # <<>> /\ Head(commands).type = "cancel"
  /\ commands' = Tail(commands)
  /\ LET j == Head(commands).id
     IN  IF jobs[j].stage = "queued"
         THEN /\ jobs' = [jobs EXCEPT ![j] = NoJob] /\ pending' = Without(j)
              /\ Emit(Withdrawn(j)) /\ UNCHANGED cancelled
         ELSE /\ cancelled' = cancelled \cup ({j} \cap Live)
              /\ UNCHANGED <<jobs, pending, frames>>
  /\ UNCHANGED <<process, active, dns, successes>>

-----------------------------------------------------------------------------
(* The scheduler and the ends of the jobs.                                 *)

Free(j) == active[Kind(j)] < Limit[Kind(j)]

\* _schedule: the first queued job whose kind has a free slot.
schedule(j) ==
  /\ process = "up"
  /\ \E i \in DOMAIN pending :
       /\ pending[i] = j /\ Free(j)
       /\ \A k \in 1..(i - 1) : ~Free(pending[k])
  /\ pending' = Without(j) /\ Advance(j, "running")
  /\ active' = [active EXCEPT ![Kind(j)] = @ + 1]
  /\ UNCHANGED <<process, cancelled, dns, successes, commands, frames>>

\* _run, its finally block: after the final frame has been written.
leave(j) ==
  /\ jobs[j].stage = "leaving"
  /\ jobs' = [jobs EXCEPT ![j] = NoJob] /\ cancelled' = cancelled \ {j}
  /\ active' = [active EXCEPT ![Kind(j)] = @ - 1]
  /\ UNCHANGED <<process, pending, dns, successes, commands, frames>>

-----------------------------------------------------------------------------
(* A thread that resolves a domain.                                        *)

\* _resolve, up to the system's resolver.
lookUp(j) ==
  /\ jobs[j].stage = "running" /\ j \in Resolves
  /\ IF j \in cancelled \/ Domain[j] \in dns
     THEN Advance(j, "leaving") /\ Emit(Resolved(j, j \notin cancelled))
     ELSE Advance(j, "resolving") /\ UNCHANGED frames
  /\ UNCHANGED <<process, cancelled, pending, active, dns, successes, commands>>

resolved(j) ==
  /\ jobs[j].stage = "resolving" /\ Advance(j, "leaving")
  /\ \E found \in SUBSET {Domain[j]} :
       /\ dns' = (dns \ {Domain[j]}) \cup found
       /\ Emit(Resolved(j, found # {} /\ j \notin cancelled))
  /\ UNCHANGED <<process, cancelled, pending, active, successes, commands>>

\* Sixty seconds have passed, or the cache was full.
expires(d) ==
  /\ d \in dns /\ dns' = dns \ {d}
  /\ UNCHANGED <<process, jobs, cancelled, pending, active, successes, commands, frames>>

-----------------------------------------------------------------------------
(* A thread that attempts a capture.                                       *)

AttemptStep(j) == UNCHANGED <<process, cancelled, pending, active, dns, commands>>

\* _attempt and _before_start: it needs a resolved domain, and then waits for
\* its turn to start.  The wait ends whenever it may, for started tests again
\* what can change meanwhile; the socket may fail.
begin(j) ==
  /\ jobs[j].stage = "running" /\ j \in Attempts
  /\ \/ /\ j \notin cancelled /\ Domain[j] \in dns /\ ~Exhausted(Bounty[j])
        /\ Advance(j, "starting")
     \/ Advance(j, "concluding")
  /\ UNCHANGED <<successes, frames>> /\ AttemptStep(j)

\* _started, at the actual start of the socket; no other thread looks at
\* job.started before its frame is out.
started(j) ==
  /\ jobs[j].stage = "starting"
  /\ IF j \in cancelled \/ Exhausted(Bounty[j])
     THEN Advance(j, "concluding") /\ UNCHANGED frames
     ELSE /\ jobs' = [jobs EXCEPT ![j].stage = "open", ![j].started = TRUE]
          /\ Emit(Started(j))
  /\ UNCHANGED successes /\ AttemptStep(j)

Counted(b) == IF successes[b] < MaxCount THEN successes[b] + 1 ELSE MaxCount

\* Faulty variant: the count is taken before the lock that orders the frames.
captureUnlocked(j) ==
  \/ /\ jobs[j].stage = "open"
     /\ successes' = [successes EXCEPT ![Bounty[j]] = Counted(Bounty[j])]
     /\ jobs' = [jobs EXCEPT ![j].stage = "counted", ![j].captured = TRUE,
                             ![j].count = Counted(Bounty[j])]
     /\ UNCHANGED frames /\ AttemptStep(j)
  \/ /\ jobs[j].stage = "counted"
     /\ Advance(j, "verifying") /\ Emit(Capture(j, jobs[j]))
     /\ UNCHANGED successes /\ AttemptStep(j)

\* The connection ends, with or without a capture, and under capture_lock it is
\* counted and reported.
capture(j) ==
  /\ jobs[j].stage = "open"
  /\ \E captured \in BOOLEAN :
       LET n   == IF captured THEN Counted(Bounty[j]) ELSE successes[Bounty[j]]
           job == [jobs[j] EXCEPT !.captured = captured, !.count = n,
                                  !.stage = IF captured THEN "verifying" ELSE "concluding"]
       IN  /\ successes' = [successes EXCEPT ![Bounty[j]] = n]
           /\ jobs' = [jobs EXCEPT ![j] = job]
           /\ Emit(Capture(j, job))
  /\ AttemptStep(j)

\* The proof meets its target and verifies, or does not.
verify(j) ==
  /\ jobs[j].stage = "verifying"
  /\ \E proof \in BOOLEAN :
       /\ proof => j \notin cancelled
       /\ jobs' = [jobs EXCEPT ![j].stage = "concluding", ![j].proof = proof]
  /\ UNCHANGED <<successes, frames>> /\ AttemptStep(j)

\* The end of _attempt: a cancelled attempt returns no proof.
conclude(j) ==
  /\ jobs[j].stage = "concluding" /\ Advance(j, "leaving")
  /\ Emit(Attempt(j, jobs[j], jobs[j].proof /\ j \notin cancelled))
  /\ UNCHANGED successes /\ AttemptStep(j)

Thread(j) ==
  \/ lookUp(j) \/ resolved(j) \/ leave(j)
  \/ begin(j) \/ started(j) \/ capture(j) \/ verify(j) \/ conclude(j)
=============================================================================

---------------------------- MODULE ClaimsEngine ----------------------------
(***************************************************************************)
(* The Automatic Claims engine (src/src/core/claims-engine.mjs): one       *)
(* coordinator that hands queued bounties to four kinds of asynchronous    *)
(* work (preparation, DNS, TLS capture, submission), and the calls of the  *)
(* wallet that start, stop, suspend and re-catalogue it.                   *)
(*                                                                         *)
(* A bounty is its outpoint, a member of Keys.  A job object is the queue  *)
(* entry of its key; a task whose job has left the queue is an orphan,     *)
(* which is what `this.queue.get(key) !== job` tests.  A task's `current`  *)
(* says its generation is the engine's, `aborted` that its AbortController *)
(* has fired, `conn` that it holds a connection token.                     *)
(*                                                                         *)
(* JavaScript runs to completion: the coordinator's synchronous loop is    *)
(* the steps with coordinator in Looping, which nothing else interleaves.  *)
(* Deadlines are the set `cooling` of keys whose due time is ahead.        *)
(***************************************************************************)
EXTENDS Naturals, FiniteSets

CONSTANTS
  Keys,            \* outpoints the catalogue may list
  Domains,         \* public domains of the bounties
  DomainOf,        \* [Keys -> Domains]
  TaskIds,         \* identities of tasks that may be live at once (a bound)
  Concurrency,     \* options.concurrency
  MaxSubmitting,   \* 4 in the code
  MaxPreparing,    \* 4 in the code
  MaxResolving,    \* 2 in the code
  MaxProposals,    \* 256 in the code
  MaxQueue,        \* maxQueue, at most 20000 in the code
  Calls            \* calls and events the environment may raise (a bound)

ASSUME EngineAssumption ==
  /\ DomainOf \in [Keys -> Domains]
  /\ IsFiniteSet(Keys) /\ IsFiniteSet(TaskIds)
  /\ {Concurrency, MaxSubmitting, MaxPreparing, MaxResolving,
      MaxProposals, MaxQueue} \subseteq Nat \ {0}

VARIABLES
  queued, retired, winners, prepared, parked, spent,   \* queue and job flags
  completed, proposals, proofs, cooling, overBudget,   \* maps kept per key
  entries, groups, gates, dirty,                       \* the scheduler's index
  dns, resolving, waitingDns,                          \* DNS results and slots
  enabled, paused, stopping, haltReason, pool,         \* lifecycle
  coordinator, wake, awaitingStart,                    \* the pump
  tasks, warning

jobVars   == <<queued, retired, winners, prepared, parked, spent>>
keyVars   == <<completed, proposals, proofs, cooling, overBudget>>
schedVars == <<entries, groups, gates, dirty>>
dnsVars   == <<dns, resolving, waitingDns>>
runVars   == <<enabled, paused, stopping, haltReason, pool>>
pumpVars  == <<coordinator, wake, awaitingStart>>
vars == <<jobVars, keyVars, schedVars, dnsVars, runVars, pumpVars, tasks, warning>>

Pcs == {"prepare", "dns", "connect", "tls", "captured", "failed", "submit", "pause"}
Task == [id : TaskIds, pc : Pcs, key : Keys, conn : BOOLEAN,
         orphan : BOOLEAN, aborted : BOOLEAN, current : BOOLEAN]
Looping == {"retry", "loop"}

JobsTyped ==
  /\ queued \subseteq Keys
  /\ retired \subseteq queued /\ winners \subseteq queued /\ prepared \subseteq queued
  /\ parked \subseteq queued /\ spent \subseteq queued
MapsTyped ==
  /\ completed \subseteq Keys /\ proposals \subseteq Keys /\ proofs \subseteq Keys
  /\ cooling \subseteq Keys /\ overBudget \subseteq Keys /\ entries \subseteq Keys
  /\ groups \subseteq Domains /\ gates \subseteq Domains
  /\ resolving \subseteq Domains /\ waitingDns \subseteq Domains
  /\ dns \in [Domains -> {"none", "ok", "bad"}]
FlagsTyped ==
  /\ dirty \in BOOLEAN /\ enabled \in BOOLEAN /\ paused \in BOOLEAN
  /\ stopping \in BOOLEAN /\ pool \in BOOLEAN
  /\ wake \in BOOLEAN /\ awaitingStart \in BOOLEAN
  /\ haltReason \in {"none", "stop", "fatal"}
  /\ coordinator \in {"idle", "starting", "stale"} \cup Looping
  /\ warning \in {"none", "retry", "fatal", "unknown"}
TasksTyped == tasks \subseteq Task
\* A retired bounty has left the scheduler's index, where it would still lead its
\* domain.
IndexTyped == entries \cap retired = {}
TypeOK == JobsTyped /\ MapsTyped /\ FlagsTyped /\ TasksTyped /\ IndexTyped

Init ==
  /\ queued = {} /\ retired = {} /\ winners = {} /\ prepared = {} /\ parked = {}
  /\ spent = {} /\ completed = {} /\ proposals = {} /\ proofs = {} /\ cooling = {}
  /\ overBudget = {} /\ entries = {} /\ groups = {} /\ gates = {} /\ dirty = TRUE
  /\ dns = [d \in Domains |-> "none"] /\ resolving = {} /\ waitingDns = {}
  /\ enabled = FALSE /\ paused = FALSE /\ stopping = FALSE /\ haltReason = "none"
  /\ pool = FALSE /\ coordinator = "idle" /\ wake = FALSE /\ awaitingStart = FALSE
  /\ tasks = {} /\ warning = "none"

-----------------------------------------------------------------------------
(* What the code reads off its maps of live work.                          *)

hasActive(k) == \E t \in tasks : t.key = k
Preparing    == {t \in tasks : t.pc = "prepare"}
Connections  == {t \in tasks : t.conn}
Submitting   == {t \in tasks : t.pc = "submit"}
Own(k)       == {t \in tasks : t.key = k /\ ~t.orphan}

eligible == queued \ (retired \cup winners \cup spent)
ready(k) == k \in eligible \ parked /\ Own(k) \cap Preparing = {}

\* dispatch's `valid`, whose session test is implied: lock() stops the engine
\* in the turn that drops the session.
Valid(t) == t.current /\ ~t.aborted /\ ~t.orphan /\ enabled /\ ~paused

Abort(ts, S)  == {IF t \in S THEN [t EXCEPT !.aborted = TRUE] ELSE t : t \in ts}
Orphan(ts, K) == {IF t.key \in K THEN [t EXCEPT !.orphan = TRUE] ELSE t : t \in ts}
Stale(ts)     == {[t EXCEPT !.aborted = TRUE, !.current = FALSE] : t \in ts}
To(t, pc)     == (tasks \ {t}) \cup {[t EXCEPT !.pc = pc]}

NewTask(pc, k, conn) ==
  \E i \in TaskIds \ {t.id : t \in tasks} :
    tasks' = tasks \cup {[id |-> i, pc |-> pc, key |-> k, conn |-> conn,
                          orphan |-> FALSE, aborted |-> FALSE, current |-> TRUE]}

\* The keys in K leave the queue, with the flags of their job objects.  `parked'
\* holds the waiters that are still queued: remove and enqueue delete a waiter,
\* the other exits leave it to releasePreparationSlot, which skips it.
Dequeue(K) ==
  /\ queued' = queued \ K   /\ retired' = retired \ K /\ winners' = winners \ K
  /\ prepared' = prepared \ K /\ parked' = parked \ K /\ spent' = spent \ K

\* Waiters a freed slot releases, in the order they came: up to and including
\* the first that can start.
Freed(P, startable) ==
  IF P \cap startable = {} THEN {P}
  ELSE {R \in SUBSET P : \E w \in P : R \cap startable = {w}}

-----------------------------------------------------------------------------
(* kick, halt and fatal, shared by the handlers.  kick reads the state the *)
(* handler leaves.                                                         *)

Kick ==
  IF enabled' /\ ~paused' /\ ~stopping'
  THEN IF coordinator = "idle" THEN coordinator' = "starting" /\ UNCHANGED wake
                               ELSE wake' = TRUE /\ UNCHANGED coordinator
  ELSE UNCHANGED <<coordinator, wake>>

CoordinatorReturns ==
  /\ wake' = FALSE
  /\ coordinator' = IF wake /\ enabled /\ ~paused /\ ~stopping THEN "starting" ELSE "idle"

Halt(reason, ts) ==
  /\ stopping' = TRUE
  /\ haltReason' = IF haltReason = "fatal" THEN "fatal" ELSE reason
  /\ UNCHANGED wake
  /\ IF stopping
     THEN tasks' = ts /\ UNCHANGED <<awaitingStart, pool, coordinator>>
     ELSE /\ tasks' = Stale(ts)
          /\ awaitingStart' = FALSE /\ pool' = FALSE
          /\ coordinator' = IF coordinator = "idle" THEN "idle" ELSE "stale"

fatal(unknown, ts) ==
  IF ~enabled /\ haltReason = "fatal" /\ ~unknown
  THEN tasks' = ts /\ UNCHANGED <<runVars, pumpVars, warning>>
  ELSE /\ enabled' = FALSE /\ UNCHANGED paused
       /\ warning' = IF unknown THEN "unknown" ELSE "fatal"
       /\ Halt("fatal", ts)

\* Faulty variant: a retry notice replaces any warning.
RetryingAlways == "retry"

\* jobError's notification, which never hides a fatal one.
Retrying == IF haltReason = "fatal" THEN warning ELSE "retry"

\* track's finally: the settled task is forgotten and a retired job whose last
\* task it was leaves the queue.
Gone(t) == {k \in retired : k = t.key /\ ~t.orphan /\ \A u \in tasks \ {t} : u.key # k}
Forget(t) == tasks' = tasks \ {t} /\ UNCHANGED runVars /\ Kick

-----------------------------------------------------------------------------
(* Calls of the wallet.                                                    *)

start ==
  /\ ~stopping
  /\ enabled' = TRUE /\ warning' = "none"
  /\ UNCHANGED <<jobVars, keyVars, schedVars, dnsVars, paused, stopping, haltReason,
                 pool, awaitingStart, tasks>>
  /\ Kick

stop ==
  /\ "stop" \in Calls
  /\ enabled' = FALSE /\ paused' = FALSE /\ Halt("stop", tasks)
  /\ UNCHANGED <<jobVars, keyVars, schedVars, dnsVars, warning>>

suspend ==
  /\ "suspend" \in Calls
  /\ ~(paused /\ tasks = {} /\ coordinator = "idle" /\ ~pool)
  /\ paused' = TRUE /\ UNCHANGED enabled /\ Halt("stop", tasks)
  /\ UNCHANGED <<jobVars, keyVars, schedVars, dnsVars, warning>>

resume ==
  /\ paused' = FALSE /\ dirty' = TRUE
  /\ UNCHANGED <<jobVars, keyVars, entries, groups, gates, dnsVars, enabled, stopping,
                 haltReason, pool, awaitingStart, tasks, warning>>
  /\ Kick

\* Faulty variant: halt waits for the coordinator alone.
haltedEarly ==
  /\ stopping /\ coordinator = "idle"
  /\ stopping' = FALSE /\ haltReason' = "none" /\ dirty' = TRUE
  /\ dns' = [d \in Domains |-> "none"] /\ gates' = {} /\ parked' = {} /\ waitingDns' = {}
  /\ UNCHANGED <<queued, retired, winners, prepared, spent, keyVars, entries, groups,
                 resolving, enabled, paused, pool, pumpVars, tasks, warning>>

\* halt's finally: every task and the coordinator have settled.
halted ==
  /\ stopping /\ tasks = {} /\ coordinator = "idle"
  /\ stopping' = FALSE /\ haltReason' = "none" /\ dirty' = TRUE
  /\ dns' = [d \in Domains |-> "none"] /\ gates' = {} /\ parked' = {} /\ waitingDns' = {}
  /\ UNCHANGED <<queued, retired, winners, prepared, spent, keyVars, entries, groups,
                 resolving, enabled, paused, pool, pumpVars, tasks, warning>>

\* The five-second refresh timer (which also marks the index stale) and the
\* one-shot timer that schedule() arms.
timer ==
  /\ enabled /\ ~paused
  /\ dirty' \in {dirty, TRUE}
  /\ UNCHANGED <<jobVars, keyVars, entries, groups, gates, dnsVars, runVars,
                 awaitingStart, tasks, warning>>
  /\ Kick

onFailure ==
  /\ "crash" \in Calls
  /\ enabled /\ ~paused /\ (pool \/ coordinator = "starting")
  /\ fatal(FALSE, tasks)
  /\ UNCHANGED <<jobVars, keyVars, schedVars, dnsVars>>

\* Tasks after the keys in K are removed: their jobs are unavailable, and every
\* controller that can reach one is aborted.
Removed(K) ==
  Orphan(Abort(tasks, {t \in tasks : t.key \in K /\
                         (t.conn \/ (~t.orphan /\ t.pc \in {"prepare", "submit"}))}), K)

remove(k) ==
  /\ "remove" \in Calls
  /\ k \in queued \cup proofs \cup {t.key : t \in tasks}
  /\ Dequeue({k}) /\ proofs' = proofs \ {k} /\ entries' = entries \ {k}
  /\ tasks' = Removed({k})
  /\ UNCHANGED <<completed, proposals, cooling, overBudget, groups, gates, dirty,
                 dnsVars, runVars, awaitingStart, warning>>
  /\ Kick

\* Faulty variant: a bounty that leaves the window stays in the index.
retireKeepsEntry(k) ==
  /\ "retire" \in Calls
  /\ k \in queued \ retired
  /\ UNCHANGED entries
  /\ proofs' = IF Own(k) \cap Submitting = {} THEN proofs \ {k} ELSE proofs
  /\ tasks' = Abort(tasks, {t \in Own(k) : t.pc = "connect"})
  /\ IF hasActive(k) THEN retired' = retired \cup {k}
                          /\ UNCHANGED <<queued, winners, prepared, parked, spent>>
                     ELSE Dequeue({k})
  /\ UNCHANGED <<completed, proposals, cooling, overBudget, groups, gates, dirty,
                 dnsVars, runVars, awaitingStart, warning>>
  /\ Kick

retire(k) ==
  /\ "retire" \in Calls
  /\ k \in queued \ retired
  /\ entries' = entries \ {k}
  /\ proofs' = IF Own(k) \cap Submitting = {} THEN proofs \ {k} ELSE proofs
  /\ tasks' = Abort(tasks, {t \in Own(k) : t.pc = "connect"})
  /\ IF hasActive(k) THEN retired' = retired \cup {k}
                          /\ UNCHANGED <<queued, winners, prepared, parked, spent>>
                     ELSE Dequeue({k})
  /\ UNCHANGED <<completed, proposals, cooling, overBudget, groups, gates, dirty,
                 dnsVars, runVars, awaitingStart, warning>>
  /\ Kick

\* Faulty variant: a rebuild of the selection forgets the verified proofs too.
clearDropsProofs(preserve) ==
  /\ (IF preserve THEN "reset" ELSE "clear") \in Calls
  /\ Dequeue(Keys) /\ completed' = {} /\ waitingDns' = {}
  /\ tasks' = Orphan(Abort(tasks, tasks), Keys)
  /\ entries' = {} /\ groups' = {} /\ dirty' = TRUE /\ proofs' = {}
  /\ IF preserve THEN UNCHANGED <<proposals, overBudget, gates>>
     ELSE proposals' = {} /\ overBudget' = {} /\ gates' = {}
  /\ UNCHANGED <<cooling, dns, resolving, runVars, pumpVars, warning>>

clear(preserve) ==
  /\ (IF preserve THEN "reset" ELSE "clear") \in Calls
  /\ Dequeue(Keys) /\ completed' = {} /\ waitingDns' = {}
  /\ tasks' = Orphan(Abort(tasks, tasks), Keys)
  /\ entries' = {} /\ groups' = {} /\ dirty' = TRUE
  /\ IF preserve THEN UNCHANGED <<proposals, proofs, overBudget, gates>>
     ELSE proposals' = {} /\ proofs' = {} /\ overBudget' = {} /\ gates' = {}
  /\ UNCHANGED <<cooling, dns, resolving, runVars, pumpVars, warning>>

\* Faulty variant: a key is re-admitted while work of its old job is in flight.
AdmissibleWhileLive(rows, stay, proof, over) ==
  {k \in rows : k \notin stay \cup completed /\ (k \in proof \/ k \notin over)}

\* enqueue: the rows that become fresh jobs, a kept proof even beyond its budget.
Admissible(rows, stay, proof, over) ==
  {k \in rows : k \notin stay \cup completed /\ ~hasActive(k) /\ (k \in proof \/ k \notin over)}

\* Faulty variant: only running and delayed jobs keep their place.
ProtectedIdle(stay, proof) == {k \in stay : hasActive(k) \/ k \in cooling}

\* Jobs no newcomer displaces, and the places that are left.
Protected(stay, proof) == {k \in stay : hasActive(k) \/ k \in proof \cup cooling}
Room(kept) == IF MaxQueue > Cardinality(kept) THEN MaxQueue - Cardinality(kept) ELSE 0

\* The turn that publishes a discovery (wallet-service's syncBountiesInternal):
\* remove what is not available, retainCatalog, enqueue the rest, resume.
\* `listed` are the outpoints of the window, `available` the claimable ones.
publish(listed, available) ==
  LET live == {t.key : t \in tasks}
      gone == Keys \ (available \cup ((retired \cap live) \ listed))
      keep == listed \cup live
      domains == {DomainOf[k] : k \in listed \cup (live \cap queued) \cup {t.key : t \in Connections}}
      stay == queued \ gone
      proof == (proofs \ gone) \cap keep
      over == overBudget \cap keep
      protected == Protected(stay, proof)
      fresh == Admissible(available, stay, proof, over)
      candidates == fresh \cup (stay \ (protected \cup retired \cup winners \cup over))
      room == Room(protected)
  IN
  /\ enabled /\ ("catalog" \in Calls \/ available = Keys)
  /\ \E selected \in IF fresh = {} THEN {stay \ protected} ELSE SUBSET candidates :
       /\ fresh # {} =>
            /\ Cardinality(selected) = room \/ (selected = candidates /\ Cardinality(selected) < room)
            /\ candidates \cap proof \subseteq selected \/ selected \subseteq proof
       /\ LET new == selected \cap fresh
              old == stay \cap (protected \cup selected)
          IN /\ queued' = old \cup new
             /\ retired' = retired \cap old
             /\ winners' = (winners \cap old) \cup (new \cap proof)
             /\ prepared' = (prepared \cap old) \cup (new \cap proposals)
             /\ parked' = parked \cap old
             /\ spent' = (old \cup new) \cap over
             /\ cooling' = cooling \ (new \ proof)
  /\ proofs' = proof /\ proposals' = proposals \cap keep /\ overBudget' = over
  /\ waitingDns' = waitingDns \cap domains
  /\ dns' = [d \in Domains |-> IF d \in domains THEN dns[d] ELSE "none"]
  /\ tasks' = Removed(gone)
  /\ entries' = entries \ gone /\ dirty' = TRUE /\ paused' = FALSE
  /\ UNCHANGED <<completed, groups, gates, resolving, enabled, stopping, haltReason,
                 pool, awaitingStart, warning>>
  /\ Kick

\* Time: a retry's due time or a DNS result's expiry passes.
due(k) ==
  /\ k \in cooling /\ cooling' = cooling \ {k}
  /\ UNCHANGED <<jobVars, completed, proposals, proofs, overBudget, schedVars, dnsVars,
                 runVars, pumpVars, tasks, warning>>

expires(d) ==
  /\ "expiry" \in Calls
  /\ dns[d] # "none" /\ dns' = [dns EXCEPT ![d] = "none"]
  /\ UNCHANGED <<jobVars, keyVars, schedVars, resolving, waitingDns, runVars, pumpVars,
                 tasks, warning>>

-----------------------------------------------------------------------------
(* The coordinator.                                                        *)

pumpBegins ==
  /\ coordinator = "starting"
  /\ coordinator' = "retry" /\ pool' = TRUE
  /\ UNCHANGED <<jobVars, keyVars, schedVars, dnsVars, enabled, paused, stopping,
                 haltReason, wake, awaitingStart, tasks, warning>>

\* Faulty variant: closing the pool leaves a pump waiting for its start.
pumpStaleWaits ==
  /\ coordinator = "stale" /\ ~stopping /\ CoordinatorReturns
  /\ UNCHANGED <<jobVars, keyVars, schedVars, dnsVars, runVars, awaitingStart, tasks, warning>>

pumpStale ==
  /\ coordinator = "stale" /\ CoordinatorReturns
  /\ UNCHANGED <<jobVars, keyVars, schedVars, dnsVars, runVars, awaitingStart, tasks, warning>>

\* Faulty variants: a proof in submission is submitted again; a retry asks
\* eligible(job), which a winner is not.
RetriableTwice == (proofs \cap queued) \ (retired \cup cooling)
RetriableEligible ==
  {k \in (proofs \cap eligible) \ cooling : Own(k) \cap Submitting = {}}

Retriable == {k \in (proofs \cap queued) \ (retired \cup cooling) : Own(k) \cap Submitting = {}}

retrySubmission(k) ==
  /\ coordinator = "retry" /\ Cardinality(Submitting) < MaxSubmitting
  /\ k \in Retriable
  /\ NewTask("submit", k, FALSE)
  /\ UNCHANGED <<jobVars, keyVars, schedVars, dnsVars, runVars, pumpVars, warning>>

retriesDone ==
  /\ coordinator = "retry"
  /\ Cardinality(Submitting) >= MaxSubmitting \/ Retriable = {}
  /\ coordinator' = "loop"
  /\ UNCHANGED <<jobVars, keyVars, schedVars, dnsVars, runVars, wake, awaitingStart, tasks, warning>>

Full == awaitingStart \/ Cardinality(Connections) >= Concurrency

\* ClaimScheduler.rebuild: gates are remembered only for domains of the queue.
rebuild ==
  /\ coordinator = "loop" /\ ~Full /\ dirty
  /\ dirty' = FALSE /\ entries' = eligible
  /\ groups' = {DomainOf[k] : k \in eligible}
  /\ gates' = gates \cap {DomainOf[k] : k \in queued}
  /\ UNCHANGED <<jobVars, keyVars, dnsVars, runVars, pumpVars, tasks, warning>>

Selectable(k) ==
  /\ k \in entries /\ ready(k) /\ k \notin cooling
  /\ DomainOf[k] \notin gates /\ dns[DomainOf[k]] # "bad"

\* One turn of the pump's loop picks any job the scheduler may select.
Picks(k) == coordinator = "loop" /\ ~Full /\ ~dirty /\ Selectable(k)

\* setDomainReady: a domain without a group keeps the gate it has.
CloseGate(d) == gates' = IF d \in groups THEN gates \cup {d} ELSE gates

prepareJob(k) ==
  /\ Picks(k) /\ k \notin prepared /\ Cardinality(Preparing) < MaxPreparing
  /\ NewTask("prepare", k, FALSE)
  /\ UNCHANGED <<jobVars, keyVars, schedVars, dnsVars, runVars, pumpVars, warning>>

parkPrepare(k) ==
  /\ Picks(k) /\ k \notin prepared /\ Cardinality(Preparing) >= MaxPreparing
  /\ parked' = parked \cup {k}
  /\ UNCHANGED <<queued, retired, winners, prepared, spent, keyVars, schedVars, dnsVars,
                 runVars, pumpVars, tasks, warning>>

resolveJob(k) ==
  /\ Picks(k) /\ k \in prepared /\ dns[DomainOf[k]] = "none"
  /\ Cardinality(resolving) < MaxResolving
  /\ resolving' = resolving \cup {DomainOf[k]} /\ CloseGate(DomainOf[k])
  /\ NewTask("dns", k, FALSE)
  /\ UNCHANGED <<jobVars, keyVars, entries, groups, dirty, dns, waitingDns, runVars,
                 pumpVars, warning>>

parkDns(k) ==
  /\ Picks(k) /\ k \in prepared /\ dns[DomainOf[k]] = "none"
  /\ Cardinality(resolving) >= MaxResolving
  /\ waitingDns' = waitingDns \cup {DomainOf[k]} /\ CloseGate(DomainOf[k])
  /\ UNCHANGED <<jobVars, keyVars, entries, groups, dirty, dns, resolving, runVars,
                 pumpVars, tasks, warning>>

dispatch(k) ==
  /\ Picks(k) /\ k \in prepared /\ dns[DomainOf[k]] = "ok"
  /\ NewTask("connect", k, TRUE)
  /\ awaitingStart' = TRUE /\ CoordinatorReturns
  /\ UNCHANGED <<jobVars, keyVars, schedVars, dnsVars, runVars, warning>>

pumpWaits ==
  /\ coordinator = "loop"
  /\ Full \/ (~dirty /\ \A k \in Keys : ~Selectable(k))
  /\ CoordinatorReturns
  /\ UNCHANGED <<jobVars, keyVars, schedVars, dnsVars, runVars, awaitingStart, tasks, warning>>

-----------------------------------------------------------------------------
(* Preparation settles.                                                    *)

\* prepareJob's finally: the job returns to the index, and a parked job is
\* released to the freed slot.
PrepareEnds(t) ==
  LET k == t.key
      idle == queued \ (retired \cup winners \cup spent')
  IN
  /\ entries' = IF k \in idle /\ ~t.orphan THEN entries ELSE entries \ {k}
  /\ \E R \in Freed(parked, (entries' \cap idle) \ cooling') :
       parked' = (parked \ R) \ Gone(t)
  /\ queued' = queued \ Gone(t) /\ retired' = retired \ Gone(t)
  /\ winners' = winners \ Gone(t)
  /\ Forget(t)
  /\ UNCHANGED <<completed, proofs, overBudget, groups, gates, dnsVars, awaitingStart>>

MayPrepare(t) == t.pc = "prepare" /\ Valid(t) /\ t.key \notin retired

\* Faulty variants: the oldest idle proposal goes whatever it proves; the cache
\* is bounded one entry too late.
EvictableIdle(k) == ~hasActive(k)
NoRoomLate(k) == k \notin proposals /\ Cardinality(proposals) > MaxProposals

\* cachePrepared: an idle proposal makes room, and its job forgets it.
Evictable(k) == ~hasActive(k) /\ k \notin proofs \cup winners
NoRoom(k) == k \notin proposals /\ Cardinality(proposals) >= MaxProposals

prepareSucceeds(t) ==
  LET k == t.key IN
  /\ MayPrepare(t)
  /\ \E old \in IF NoRoom(k) THEN {{o} : o \in {p \in proposals : Evictable(p)}} ELSE {{}} :
       /\ proposals' = (proposals \ old) \cup {k}
       /\ prepared' = ((prepared \ old) \cup {k}) \ Gone(t)
  /\ spent' = IF k \in overBudget THEN spent \cup {k} ELSE spent \ {k}
  /\ dirty' \in {dirty, TRUE}
  /\ UNCHANGED <<cooling, warning>>
  /\ PrepareEnds(t)

\* An RPC or validation error, or every proposal slot held by live work.
prepareFails(t) ==
  /\ t.pc = "prepare"
  /\ cooling' = IF t.orphan THEN cooling ELSE cooling \cup {t.key}
  /\ warning' = Retrying
  /\ prepared' = prepared \ Gone(t) /\ spent' = spent \ Gone(t)
  /\ UNCHANGED <<proposals, dirty>>
  /\ PrepareEnds(t)

prepareCancelled(t) ==
  /\ t.pc = "prepare" /\ ~MayPrepare(t)
  /\ prepared' = prepared \ Gone(t) /\ spent' = spent \ Gone(t)
  /\ UNCHANGED <<proposals, cooling, dirty, warning>>
  /\ PrepareEnds(t)

-----------------------------------------------------------------------------
(* DNS settles.                                                            *)

\* resolveJob's finally and releaseDnsSlot, whose released domains forget
\* their gates.
DnsEnds(t, opened) ==
  LET d == DomainOf[t.key]
      free == {e \in groups : \E k \in entries \ cooling : DomainOf[k] = e /\ ready(k)}
  IN
  /\ resolving' = resolving \ {d}
  /\ \E R \in Freed(waitingDns, waitingDns \cap free) :
       /\ waitingDns' = waitingDns \ R
       /\ gates' = ((IF opened /\ d \in groups THEN gates \ {d} ELSE gates) \ R)
  /\ Dequeue(Gone(t)) /\ Forget(t)
  /\ UNCHANGED <<keyVars, entries, groups, dirty, awaitingStart, warning>>

dnsSettles(t) ==
  LET live == ~t.aborted /\ t.current IN
  /\ t.pc = "dns"
  /\ dns' \in IF live THEN {[dns EXCEPT ![DomainOf[t.key]] = r] : r \in {"ok", "bad"}} ELSE {dns}
  /\ DnsEnds(t, live)

-----------------------------------------------------------------------------
(* TLS captures.                                                           *)

\* Events of a request whose task stays alive.
onStarted(t) ==
  /\ t.pc = "connect"
  /\ tasks' = To(t, "tls") /\ awaitingStart' = FALSE
  /\ warning' = IF t.current /\ enabled /\ ~paused THEN "none" ELSE warning
  /\ UNCHANGED <<jobVars, keyVars, schedVars, dnsVars, runVars>>
  /\ Kick

observe(t) ==
  LET k == t.key IN
  /\ t.pc = "tls"
  /\ \/ tasks' = To(t, "failed") /\ UNCHANGED <<spent, entries, overBudget>>
     \/ /\ tasks' = To(t, "captured")
        /\ overBudget' \in {overBudget} \cup
             (IF "budget" \in Calls THEN {overBudget \cup {k}} ELSE {})
        /\ IF k \in overBudget' THEN entries' = entries \ {k} ELSE UNCHANGED entries
        /\ IF k \in overBudget' /\ ~t.orphan
           THEN spent' = spent \cup {k} ELSE UNCHANGED spent
  /\ UNCHANGED <<queued, retired, winners, prepared, parked, completed, proposals, proofs,
                 cooling, groups, gates, dirty, dnsVars, runVars, pumpVars, warning>>

\* Faulty variant: a request that never started keeps the start gate.
CaptureEndsGateKept(t) == UNCHANGED awaitingStart /\ Forget(t)

\* A capture's task ends; `connecting' requests give the start gate back.
CaptureEnds(t) ==
  /\ awaitingStart' = IF t.pc = "connect" THEN FALSE ELSE awaitingStart
  /\ Forget(t)

captureCancelled(t) ==
  /\ t.conn /\ ~Valid(t)
  /\ t.pc \in {"connect", "captured", "failed"} \/ (t.pc = "tls" /\ ~t.current)
  /\ Dequeue(Gone(t)) /\ CaptureEnds(t)
  /\ UNCHANGED <<keyVars, schedVars, dnsVars, warning>>

budgetBlocked(t) ==
  /\ t.pc = "connect" /\ Valid(t)
  /\ queued' = queued \ Gone(t) /\ retired' = retired \ Gone(t)
  /\ winners' = winners \ Gone(t) /\ prepared' = prepared \ Gone(t)
  /\ parked' = parked \ Gone(t) /\ spent' = (spent \cup {t.key}) \ Gone(t)
  /\ entries' = entries \ {t.key}
  /\ CaptureEnds(t)
  /\ UNCHANGED <<keyVars, groups, gates, dirty, dnsVars, warning>>

\* Not started, within budget: the helper no longer has the domain's address.
notStarted(t) ==
  /\ t.pc = "connect" /\ Valid(t)
  /\ dns' = [dns EXCEPT ![DomainOf[t.key]] = "none"]
  /\ Dequeue(Gone(t)) /\ CaptureEnds(t)
  /\ UNCHANGED <<keyVars, schedVars, resolving, waitingDns, warning>>

\* A hash that misses the target, a proof that fails verification (reported as
\* a retry), or a sibling of the winner.
missed(t) ==
  /\ t.pc = "captured" /\ Valid(t)
  /\ warning' \in {warning, Retrying}
  /\ Dequeue(Gone(t)) /\ CaptureEnds(t)
  /\ UNCHANGED <<keyVars, schedVars, dnsVars>>

failed(t) ==
  /\ t.pc = "failed" /\ Valid(t)
  /\ tasks' = To(t, "pause") /\ warning' = Retrying
  /\ UNCHANGED <<jobVars, keyVars, schedVars, dnsVars, runVars, pumpVars>>

pauseEnds(t) ==
  /\ t.pc = "pause"
  /\ Dequeue(Gone(t)) /\ CaptureEnds(t)
  /\ UNCHANGED <<keyVars, schedVars, dnsVars, warning>>

\* The first verified proof of a job: its siblings are cancelled and it is
\* submitted in the same task, unless every submission slot is taken.
proved(t) ==
  LET k == t.key
      rest == Abort(tasks \ {t}, {u \in Own(k) \ {t} : u.conn})
  IN
  /\ t.pc = "captured" /\ Valid(t) /\ k \notin winners
  /\ proofs' = proofs \cup {k} /\ entries' = entries \ {k}
  /\ IF Cardinality(Submitting) < MaxSubmitting
     THEN /\ tasks' = rest \cup {[t EXCEPT !.pc = "submit"]}
          /\ winners' = winners \cup {k}
          /\ UNCHANGED <<queued, retired, prepared, parked, spent, runVars, pumpVars>>
     ELSE /\ queued' = queued \ Gone(t) /\ retired' = retired \ Gone(t)
          /\ winners' = (winners \cup {k}) \ Gone(t) /\ prepared' = prepared \ Gone(t)
          /\ parked' = parked \ Gone(t) /\ spent' = spent \ Gone(t)
          /\ tasks' = rest /\ UNCHANGED <<runVars, awaitingStart>> /\ Kick
  /\ UNCHANGED <<completed, proposals, cooling, overBudget, groups, gates, dirty,
                 dnsVars, warning>>

-----------------------------------------------------------------------------
(* Submission settles.                                                     *)

submitSucceeds(t) ==
  LET k == t.key IN
  /\ t.pc = "submit"
  /\ IF Cardinality(completed \cup {k}) > MaxQueue
     THEN \E old \in completed : completed' = (completed \cup {k}) \ {old}
     ELSE completed' = completed \cup {k}
  /\ Dequeue({k}) /\ proposals' = proposals \ {k} /\ proofs' = proofs \ {k}
  /\ tasks' = Orphan(tasks \ {t}, {k}) /\ UNCHANGED runVars /\ Kick
  /\ warning' = IF enabled /\ t.current THEN "none" ELSE warning
  /\ UNCHANGED <<cooling, overBudget, schedVars, dnsVars, awaitingStart>>

\* Faulty variant: every failed submission gives its proof up.
GiveUpAlways(t) == proofs \ {t.key}

\* A submission without a broadcast: a job that left discovery meanwhile gives
\* its proof up.
GiveUp(t) == IF t.orphan \/ t.key \in retired THEN proofs \ {t.key} ELSE proofs

submitRejected(t) ==
  /\ t.pc = "submit"
  /\ proofs' = GiveUp(t)
  /\ cooling' = IF t.orphan THEN cooling ELSE cooling \cup {t.key}
  /\ warning' = Retrying
  /\ Dequeue(Gone(t)) /\ Forget(t)
  /\ UNCHANGED <<completed, proposals, overBudget, schedVars, dnsVars, awaitingStart>>

submitCancelled(t) ==
  /\ t.pc = "submit" /\ t.aborted
  /\ proofs' = GiveUp(t)
  /\ Dequeue(Gone(t)) /\ Forget(t)
  /\ UNCHANGED <<completed, proposals, cooling, overBudget, schedVars, dnsVars,
                 awaitingStart, warning>>

\* The broadcast may have reached the network: everything stops.
submitUnknown(t) ==
  /\ t.pc = "submit"
  /\ fatal(TRUE, tasks \ {t})
  /\ Dequeue(Gone(t))
  /\ UNCHANGED <<keyVars, schedVars, dnsVars>>

-----------------------------------------------------------------------------
settles(t) ==
  \/ prepareSucceeds(t) \/ prepareFails(t) \/ prepareCancelled(t)
  \/ dnsSettles(t)
  \/ onStarted(t) \/ observe(t) \/ captureCancelled(t) \/ budgetBlocked(t)
  \/ notStarted(t) \/ missed(t) \/ failed(t) \/ pauseEnds(t) \/ proved(t)
  \/ submitSucceeds(t) \/ submitRejected(t) \/ submitCancelled(t) \/ submitUnknown(t)

pump ==
  \/ pumpBegins \/ pumpStale \/ retriesDone \/ rebuild \/ pumpWaits
  \/ \E k \in Keys : \/ retrySubmission(k) \/ prepareJob(k) \/ parkPrepare(k)
                     \/ resolveJob(k) \/ parkDns(k) \/ dispatch(k)

wallet ==
  \/ start \/ stop \/ suspend \/ resume
  \/ \E k \in Keys : remove(k) \/ retire(k)
  \/ \E p \in BOOLEAN : clear(p)
  \/ \E listed \in SUBSET Keys : \E available \in SUBSET listed : publish(listed, available)

\* Between two macrotasks anything may run; inside the pump's loop only the pump.
Next ==
  \/ pump
  \/ /\ coordinator \notin Looping
     /\ \/ wallet \/ halted \/ timer \/ onFailure
        \/ \E k \in Keys : due(k)
        \/ \E d \in Domains : expires(d)
        \/ \E t \in tasks : settles(t)

Spec == Init /\ [][Next]_vars

-----------------------------------------------------------------------------
(* Fairness.  A task settles: the helper has a 45 s deadline per request,  *)
(* the RPC client one per call, and an aborted request is answered.  The   *)
(* event loop reaches every ready callback, but never inside the pump's    *)
(* loop, so a callback is enabled again and again rather than always (SF). *)
(* The refresh timer fires every five seconds.                             *)

Callback(A) == coordinator \notin Looping /\ A
Settles(i) == Callback(\E t \in tasks : t.id = i /\ settles(t))

Fairness ==
  /\ WF_vars(pump)
  /\ SF_vars(Callback(halted)) /\ SF_vars(Callback(timer))
  /\ \A i \in TaskIds : SF_vars(Settles(i))
  /\ \A k \in Keys : SF_vars(retrySubmission(k)) /\ SF_vars(Callback(due(k)))

FairSpec == Spec /\ Fairness

-----------------------------------------------------------------------------
(* Safety.                                                                 *)

\* Every kind of work stays within its limit, whichever handlers and calls
\* interleave: fresh winners and retries share MaxSubmitting, lookups count by
\* domain, the caches never outgrow theirs.
WithinLimits ==
  /\ Cardinality(Submitting) <= MaxSubmitting
  /\ Cardinality(Preparing) <= MaxPreparing
  /\ Cardinality(resolving) <= MaxResolving
  /\ Cardinality(Connections) <= Concurrency
  /\ Cardinality(proposals) <= MaxProposals
  /\ Cardinality(queued) <= MaxQueue

\* The engine waits for one TCP start at a time, and exactly while a connection
\* of this generation has neither started nor settled.
OneStartAwaited ==
  /\ awaitingStart <=> \E t \in tasks : t.pc = "connect" /\ t.current
  /\ \A t, u \in tasks : t.pc = "connect" /\ u.pc = "connect" => t = u

\* Work of an earlier generation exists only while the engine halts, and then
\* all of it has been cancelled: a restarted engine never meets it.
NoStaleWork ==
  /\ \A t \in tasks : t.current <=> ~stopping
  /\ stopping => (\A t \in tasks : t.aborted) /\ ~pool /\ ~awaitingStart
  /\ coordinator # "idle" => (coordinator = "stale" <=> stopping)

\* A job object that left its key is never live beside its successor, and a live
\* job is never dropped from under its tasks: the maps indexed by key, which old
\* tasks still write, belong to one job.
OneJobPerKey == \A t \in tasks : t.orphan <=> t.key \notin queued

\* One submission of a bounty at a time, however many captures won it.
OneSubmission == \A t, u \in Submitting : t.key = u.key => t = u

\* A verified proof always finds the transaction it proves.
ProofsKeepProposals == proofs \cup prepared \subseteq proposals

\* A queued job stopped connecting because it won exactly when its proof is
\* still there to be submitted.
WinnersKeepProofs == winners \ retired \subseteq proofs /\ proofs \cap queued \subseteq winners

\* After an unknown broadcast outcome no submission begins and no retry notice
\* hides it until the user starts claims again.
UnknownOutcomeStops ==
  [][warning = "unknown" =>
       /\ warning' = "unknown" \/ start
       /\ {t.id : t \in {u \in tasks' : u.pc = "submit"}} \subseteq {t.id : t \in Submitting}]_vars

\* A verified proof is given up only by a settled submission, a wallet call, or
\* the end of a retired job: never by a retry, an eviction or a restart.
ProofGivenUp(k) ==
  \/ remove(k) \/ retire(k) \/ clear(FALSE)
  \/ \E listed, available \in SUBSET Keys : k \notin available /\ publish(listed, available)
  \/ \E t \in Submitting : t.key = k /\ t \notin tasks'
ProofsSurvive == [][\A k \in proofs \ proofs' : ProofGivenUp(k)]_vars

\* A bounty that waits with a verified proof keeps its place in the queue until it
\* leaves the window, even beyond its capture budget and whatever the catalogue
\* brings; one that lost it to a rescan of the selection gets it back before any
\* newcomer.
ProofsKeepPlaces ==
  [][\A k \in proofs \cap proofs' :
       /\ k \in queued \ retired => k \in queued' \/ clear(TRUE)
       /\ k \notin queued \cup queued' /\ ~hasActive(k) /\ ~(queued' \ queued \subseteq proofs) =>
            ~\E listed, available \in SUBSET Keys : k \in available /\ publish(listed, available)]_vars

-----------------------------------------------------------------------------
(* Liveness.                                                               *)

\* Halting drains: stop and suspend always finish.
Drains == stopping ~> ~stopping

\* A verified proof waiting for a slot or a retry is submitted, unless it is
\* given up or claims stop.
ProofsSubmitted ==
  \A k \in Keys : (k \in proofs /\ k \in queued \ retired) ~>
    \/ k \notin proofs \/ k \notin queued \ retired \/ ~enabled \/ paused
    \/ \E t \in Submitting : t.key = k

\* A candidate behind a closed domain gate does not stay stuck.  Another queued
\* bounty that is no candidate itself (out of budget, say) keeps a domain tracked
\* by rebuild, and its gate remembered, while its group is gone.
BehindGate(k) == enabled /\ ~paused /\ k \in entries /\ ready(k) /\ DomainOf[k] \in gates
GatesReopen == \A k \in Keys : BehindGate(k) ~> ~BehindGate(k)

\* A verified proof that finds no submission slot free stays queued for one.
ExcessProofsQueued ==
  [][\A k \in proofs' \ proofs :
       k \in queued' \ retired' \/ \E t \in tasks' : t.pc = "submit" /\ t.key = k]_vars
=============================================================================

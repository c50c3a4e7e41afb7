--------------------------- MODULE ClaimScheduler ---------------------------
(***************************************************************************)
(* Which bounty gets the next connection (src/src/core/claim-scheduler.mjs *)
(* and the order of src/src/core/claim-priority.mjs), and the calls the    *)
(* claims engine makes on it.                                              *)
(*                                                                         *)
(* Bounties and domains are numbers, in the order of their outpoints and   *)
(* names; a policy is a domain with a mask of signature algorithms.  The   *)
(* Fenwick trees and heaps are the sets and orders they index.  Deadlines  *)
(* are the sets `delayed' (jobs) and "later" (gates) of those still ahead. *)
(* A job's priority and its factor times priority are one number.          *)
(***************************************************************************)
EXTENDS Naturals, FiniteSets

CONSTANTS
  Keys, Domains, Policies,
  DomainOf, PolicyOf,         \* the domain and the policy of a bounty
  Rankings, Rates,            \* priorities and connection rates that may be observed
  MinReturn,                  \* MIN_EXPECTED_RETURN
  Delayable, Closable,        \* bounties that may be delayed, domains to be resolved (bounds)
  None

ASSUME SchedulerAssumption ==
  /\ Keys \subseteq Nat /\ Domains \subseteq Nat /\ IsFiniteSet(Keys) /\ IsFiniteSet(Domains)
  /\ DomainOf \in [Keys -> Domains] /\ PolicyOf \in [Keys -> Policies]
  /\ \A j, k \in Keys : PolicyOf[j] = PolicyOf[k] => DomainOf[j] = DomainOf[k]
  /\ Rankings \subseteq [Keys -> Nat] /\ Rankings # {}
  /\ Rates \subseteq [Policies -> Nat] /\ Rates # {}
  /\ MinReturn \in Nat /\ Delayable \subseteq Keys /\ Closable \subseteq Domains /\ None \notin Nat

VARIABLES
  jobs, delayed, dirty,                    \* the engine's
  entries, groups, priority, rate,         \* the snapshot of the last rebuild
  allowed, active, waitingJobs,            \* readiness of entries
  gates, domainGates, waitingDomains,      \* gates of groups, and the remembered ones
  economic,                                \* the leader of each group that can start
  domainAfter, cursors, preferReward,      \* where the rotation stands
  selection

engineVars   == <<jobs, delayed, dirty>>
snapshotVars == <<entries, groups, priority, rate>>
entryVars    == <<allowed, active, waitingJobs>>
gateVars     == <<gates, domainGates, waitingDomains>>
turnVars     == <<domainAfter, cursors, preferReward>>
vars == <<engineVars, snapshotVars, entryVars, gateVars, economic, turnVars,
          selection>>

Init ==
  /\ jobs = [k \in Keys |-> "absent"] /\ delayed = {} /\ dirty = TRUE
  /\ entries = {} /\ groups = {} /\ priority \in Rankings /\ rate \in Rates
  /\ allowed = {} /\ active = {} /\ waitingJobs = {}
  /\ gates = [d \in Domains |-> "open"] /\ domainGates = [d \in Domains |-> None]
  /\ waitingDomains = {} /\ economic = [d \in Domains |-> None]
  /\ domainAfter = None /\ cursors = [d \in Domains |-> None] /\ preferReward = FALSE
  /\ selection = None

-----------------------------------------------------------------------------
(* Orders.                                                                 *)

\* compareClaimPriority, of ranks.
Precedes(a, b) == a[1] > b[1] \/ (a[1] = b[1] /\ a[2] < b[2])
Rank(k) == <<priority[k], k>>
First(K) == CHOOSE k \in K : \A j \in K \ {k} : Precedes(Rank(k), Rank(j))

\* domainPriority, by which the domains compete, and isWorthAttempting.
Score(k) == priority[k] * rate[PolicyOf[k]]
IsWorthAttempting(k) == Score(k) >= MinReturn
Outranks(j, k) == Score(j) > Score(k) \/ (Score(j) = Score(k) /\ Precedes(Rank(j), Rank(k)))
Richest(K) == CHOOSE k \in K : \A j \in K \ {k} : Outranks(k, j)

In(K, d) == {k \in K : DomainOf[k] = d}

\* The candidate of each mask is its first ready entry; the leader is the best one.
Candidates(K) == {First({j \in K : PolicyOf[j] = PolicyOf[k]}) : k \in K}

Leader(K, d) == IF In(K, d) = {} THEN None ELSE Richest(Candidates(In(K, d)))

-----------------------------------------------------------------------------
(* The index.                                                              *)

\* refreshGroup, of the domains D; a gate whose deadline is ahead is shut.
refreshGroup(D) ==
  economic' = [d \in Domains |->
    IF d \notin D THEN economic[d]
    ELSE IF gates'[d] = "open" THEN Leader(active', d) ELSE None]

\* Faulty variant: a group is not refreshed when an entry of it stops being ready.
setActiveStale(K) == active' = K /\ refreshGroup({DomainOf[k] : k \in K \ active})

\* setActive, of several entries.
setActive(K) ==
  active' = K /\ refreshGroup({DomainOf[k] : k \in (K \ active) \cup (active \ K)})

\* setReady, of an entry whose deadline is not ahead unless it is late.
setReady(k, ready, late) ==
  IF k \notin entries THEN UNCHANGED <<entryVars, economic>>
  ELSE /\ allowed' = IF ready THEN allowed \cup {k} ELSE allowed \ {k}
       /\ waitingJobs' = IF ready /\ late THEN waitingJobs \cup {k} ELSE waitingJobs \ {k}
       /\ setActive(IF ready /\ ~late THEN active \cup {k} ELSE active \ {k})

\* remove
remove(k) ==
  /\ UNCHANGED <<groups, priority, rate, gateVars>>
  /\ entries' = entries \ {k} /\ setReady(k, FALSE, FALSE)

\* setDomainReady, after the gates of D were forgotten.
setDomainReady(d, gate, forgotten) ==
  /\ domainGates' = [e \in Domains |-> IF e = d /\ d \in groups THEN gate
                                       ELSE IF e \in forgotten THEN None ELSE domainGates[e]]
  /\ IF d \in groups
     THEN /\ gates' = [gates EXCEPT ![d] = gate]
          /\ waitingDomains' = IF gate = "later" THEN waitingDomains \cup {d}
                                                 ELSE waitingDomains \ {d}
          /\ UNCHANGED active /\ refreshGroup({d})
     ELSE UNCHANGED <<gates, waitingDomains, active, economic>>
  /\ UNCHANGED <<allowed, waitingJobs>>

\* clear
clear(preserve) ==
  /\ entries' = {} /\ groups' = {} /\ economic' = [d \in Domains |-> None]
  /\ allowed' = {} /\ active' = {} /\ waitingJobs' = {} /\ waitingDomains' = {}
  /\ UNCHANGED <<priority, rate, gates>>
  /\ IF preserve THEN UNCHANGED <<domainGates, turnVars>>
     ELSE /\ domainGates' = [d \in Domains |-> None] /\ cursors' = [d \in Domains |-> None]
          /\ domainAfter' = None /\ preferReward' = FALSE

\* rebuild, when something has changed since the last selection.
rebuild ==
  LET listed(K) == {DomainOf[k] : k \in K}
      tracked   == listed({k \in Keys : jobs[k] # "absent"})
  IN  /\ priority' \in Rankings /\ rate' \in Rates
      /\ entries' = {k \in Keys : jobs[k] \in {"unready", "ready"} /\ IsWorthAttempting(k)'}
      /\ groups' = listed(entries')
      /\ allowed' = {k \in entries' : jobs[k] = "ready"}
      /\ active' = allowed' \ delayed /\ waitingJobs' = allowed' \cap delayed
      /\ cursors' = [d \in Domains |-> IF d \in tracked THEN cursors[d] ELSE None]
      /\ domainGates' = [d \in Domains |-> IF d \in tracked THEN domainGates[d] ELSE None]
      /\ gates' = [d \in Domains |-> IF domainGates'[d] = None THEN "open" ELSE domainGates'[d]]
      /\ waitingDomains' = {d \in groups' : gates'[d] = "later"}
      /\ economic' = [d \in Domains |-> IF gates'[d] = "open" THEN Leader(active, d)' ELSE None]

-----------------------------------------------------------------------------
(* Turns.                                                                  *)

\* Faulty variant: a turn leaves the rotation at the domain where it was.
commitSameDomain ==
  /\ cursors' = [cursors EXCEPT ![DomainOf[selection.key]] = selection.rank]
  /\ UNCHANGED domainAfter /\ preferReward' = ~selection.economic

\* commit: the turn is over.
commit ==
  /\ cursors' = [cursors EXCEPT ![DomainOf[selection.key]] = selection.rank]
  /\ domainAfter' = IF selection.economic THEN domainAfter ELSE DomainOf[selection.key]
  /\ preferReward' = ~selection.economic

\* promote: deadlines that have passed.
promote ==
  LET dueJobs    == waitingJobs \ delayed
      dueDomains == {d \in waitingDomains : gates[d] = "open"}
  IN  /\ waitingJobs' = waitingJobs \ dueJobs /\ waitingDomains' = waitingDomains \ dueDomains
      /\ active' = active \cup dueJobs
      /\ UNCHANGED <<snapshotVars, allowed, gates, domainGates, cursors>>
      /\ refreshGroup(dueDomains \cup {DomainOf[k] : k \in dueJobs})

\* The first after the last one, in a cycle.
NextDomain(D) ==
  LET after == {d \in D : domainAfter # None /\ d > domainAfter}
      from == IF after = {} THEN D ELSE after
  IN  CHOOSE d \in from : \A e \in from : d <= e
NextIn(d) ==
  LET after == {k \in In(active, d) : cursors[d] # None /\ Precedes(cursors[d], Rank(k))}
  IN  First(IF after = {} THEN In(active, d) ELSE after)

\* next, once due deadlines are promoted: a turn by name, or one by economic priority.
Selected ==
  LET open == {d \in Domains : economic[d] # None}
      d    == IF preferReward THEN DomainOf[Richest({economic[e] : e \in open})]
                              ELSE NextDomain(open)
      k    == NextIn(d)
  IN  IF open = {} THEN None
      ELSE [key |-> k, rank |-> Rank(k), economic |-> preferReward, valid |-> TRUE]

\* nextReady of the engine: a bounty is selected and nothing is consumed yet.
nextReady ==
  /\ selection = None /\ UNCHANGED <<domainAfter, preferReward>>
  /\ IF dirty THEN rebuild ELSE promote
  /\ dirty' = FALSE /\ selection' = Selected'
  /\ UNCHANGED <<jobs, delayed>>

-----------------------------------------------------------------------------
(* What the engine does with a selection.                                  *)

\* Its connection starts.
onStarted ==
  /\ selection # None /\ selection' = None
  /\ IF selection.valid THEN commit ELSE UNCHANGED turnVars
  /\ UNCHANGED <<engineVars, snapshotVars, entryVars, gateVars, economic>>

\* Its attempt ends, before its connection.
unstarted ==
  /\ selection # None /\ selection' = None
  /\ UNCHANGED <<engineVars, snapshotVars, entryVars, gateVars, economic, turnVars>>

\* The bounty has to be prepared, or to wait for that.
prepareJob ==
  /\ selection # None /\ jobs[selection.key] = "ready" /\ selection' = None
  /\ jobs' = [jobs EXCEPT ![selection.key] = "unready"]
  /\ UNCHANGED <<delayed, dirty, snapshotVars, gateVars, turnVars>>
  /\ setReady(selection.key, FALSE, FALSE)

\* Its domain has to be resolved, or to wait for that, or is known not to be.
resolveJob(gate) ==
  /\ selection # None /\ DomainOf[selection.key] \in Closable /\ selection' = None
  /\ setDomainReady(DomainOf[selection.key], gate, {})
  /\ UNCHANGED <<engineVars, snapshotVars, turnVars>>

\* A preparation ends, a failed one with a delay, or a waiting job may have one.
prepared(k, late) ==
  /\ jobs[k] = "unready" /\ jobs' = [jobs EXCEPT ![k] = "ready"]
  /\ late => k \in Delayable
  /\ delayed' = IF late THEN delayed \cup {k} ELSE delayed
  /\ \/ UNCHANGED <<snapshotVars, gateVars>> /\ setReady(k, TRUE, k \in delayed')
     \/ remove(k)
  /\ dirty' \in {dirty, TRUE}
  /\ UNCHANGED <<turnVars, selection>>

\* A domain was resolved, or not, or its turn has come.
resolved(d, gate, forgotten) ==
  /\ domainGates[d] = "closed"
  /\ setDomainReady(d, gate, forgotten)
  /\ UNCHANGED <<engineVars, snapshotVars, turnVars, selection>>

\* A job is queued; a job is retired, has won or is removed.
enqueue(k) ==
  /\ jobs[k] = "absent" /\ jobs' = [jobs EXCEPT ![k] = "ready"] /\ dirty' = TRUE
  /\ delayed' \in {delayed \ {k}, delayed \cup ({k} \cap Delayable)}
  /\ UNCHANGED <<snapshotVars, entryVars, gateVars, economic, turnVars, selection>>

leave(k, status) ==
  /\ jobs[k] \notin {"absent", status} /\ jobs' = [jobs EXCEPT ![k] = status] /\ remove(k)
  /\ UNCHANGED <<delayed, dirty, turnVars, selection>>

\* The five-second refresh; time passes.
refresh ==
  /\ dirty' = TRUE
  /\ UNCHANGED <<jobs, delayed, snapshotVars, entryVars, gateVars, economic, turnVars, selection>>

elapse ==
  /\ \/ \E k \in delayed : delayed' = delayed \ {k} /\ UNCHANGED <<gates, domainGates>>
     \/ \E d \in Domains :
          /\ "later" \in {gates[d], domainGates[d]} /\ UNCHANGED delayed
          /\ gates' = IF gates[d] = "later" THEN [gates EXCEPT ![d] = "open"] ELSE gates
          /\ domainGates' = IF domainGates[d] = "later" THEN [domainGates EXCEPT ![d] = "open"]
                                                        ELSE domainGates
  /\ UNCHANGED <<jobs, dirty, snapshotVars, entryVars, waitingDomains, economic, turnVars, selection>>

\* The engine is cleared, for a new snapshot or for another wallet or network.
engineClear(preserve) ==
  /\ jobs' = [k \in Keys |-> "absent"] /\ delayed' = {} /\ dirty' = TRUE /\ clear(preserve)
  /\ selection' = IF selection # None /\ ~preserve THEN [selection EXCEPT !.valid = FALSE]
                                                   ELSE selection

\* The engine has stopped: no gate is remembered, and no job waits.
halted ==
  /\ selection = None /\ dirty' = TRUE
  /\ jobs' = [k \in Keys |-> IF jobs[k] = "unready" THEN "ready" ELSE jobs[k]]
  /\ domainGates' = [d \in Domains |-> None]
  /\ UNCHANGED <<delayed, snapshotVars, entryVars, gates, waitingDomains, economic, turnVars, selection>>

Next ==
  \/ nextReady \/ onStarted \/ unstarted \/ prepareJob \/ refresh \/ elapse \/ halted
  \/ \E gate \in {"closed", "later"} : resolveJob(gate)
  \/ \E k \in Keys : \/ enqueue(k) \/ leave(k, "absent") \/ leave(k, "barred")
                     \/ \E late \in BOOLEAN : prepared(k, late)
  \/ \E d \in Domains : \E gate \in {"open", "later"}, forgotten \in {{}, {d}} :
       resolved(d, gate, forgotten)
  \/ \E preserve \in BOOLEAN : engineClear(preserve)

Spec == Init /\ [][Next]_vars

\* The coordinator selects again whenever it is woken; the helper starts attempts.
FairSpec == Spec /\ WF_vars(nextReady) /\ SF_vars(onStarted)

-----------------------------------------------------------------------------
(* Properties.                                                             *)

Open(d) == d \in groups /\ gates[d] = "open"
Ready(k) == k \in allowed \ delayed /\ Open(DomainOf[k])

\* The index, kept up by small changes, is what a rebuild would make of the entries:
\* nobody that is ready is lost, nobody else can be selected, and the domain with
\* the best bounty leads (claim-scheduler.mjs:177-237).
Indexed ==
  /\ active \subseteq allowed \ delayed /\ allowed \subseteq entries
  /\ waitingJobs \subseteq allowed /\ allowed \subseteq active \cup waitingJobs
  /\ {d \in groups : gates[d] = "later"} \subseteq waitingDomains
  /\ \A d \in Domains :
       LET ready == In(active, d) IN
       /\ economic[d] # None =>
            /\ Open(d) /\ economic[d] \in ready
            /\ \A k \in ready \ {economic[d]} : Outranks(economic[d], k)
       /\ economic[d] = None => ready = {} \/ ~Open(d) \/ d \in waitingDomains

\* Attempts of a bounty start.
Starts(k) == onStarted /\ selection.key = k

\* No bounty monopolizes the connections: one that stays ready gets its turns, however
\* the other bounties and their domains change, once the priorities are settled
\* (README.md:25).
Served ==
  <>[][UNCHANGED priority]_vars =>
    \A k \in Keys : <>[]Ready(k) => []<><<Starts(k)>>_vars
=============================================================================

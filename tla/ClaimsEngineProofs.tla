------------------------- MODULE ClaimsEngineProofs -------------------------
(***************************************************************************)
(* Proofs about ClaimsEngine, for any finite sets of bounties and tasks and *)
(* any limits.  The inductive invariant is Coherent /\ Kept /\ UnknownHeld: *)
(* types need OneJobPerKey (a handler writes flags through a job object it  *)
(* holds, which is the queued one exactly when the task is no orphan), the  *)
(* start gate needs NoStaleWork (the coordinator runs only where every task *)
(* is current), and submissions need what each task relies on.              *)
(***************************************************************************)
EXTENDS ClaimsEngine, TLAPS

USE DEF jobVars, keyVars, schedVars, dnsVars, runVars, pumpVars, vars

\* Every flag stays a flag of a queued job: a handler that sets one through its
\* job object checks first that the job is still the queue's.
LEMMA JobsStep ==
  ASSUME TypeOK, OneJobPerKey, [Next]_vars PROVE JobsTyped'
<1> USE DEF TypeOK
<1>1. CASE UNCHANGED jobVars
  BY <1>1 DEF JobsTyped
<1>2. CASE start \/ stop \/ suspend \/ resume \/ timer \/ onFailure
  BY <1>1, <1>2 DEF start, stop, suspend, resume, timer, onFailure
<1>3. CASE halted
  BY <1>3 DEF halted, JobsTyped
<1>4. ASSUME NEW k \in Keys, remove(k) \/ retire(k) PROVE JobsTyped'
  BY <1>4 DEF remove, retire, Dequeue, JobsTyped
<1>5. ASSUME NEW p \in BOOLEAN, clear(p) PROVE JobsTyped'
  BY <1>5 DEF clear, Dequeue, JobsTyped
<1>6. ASSUME NEW listed \in SUBSET Keys, NEW available \in SUBSET listed,
             publish(listed, available)
      PROVE  JobsTyped'
  BY <1>6 DEF publish, Admissible, JobsTyped
<1>7. ASSUME NEW k \in Keys, due(k) PROVE JobsTyped'
  BY <1>1, <1>7 DEF due
<1>8. ASSUME NEW d \in Domains, expires(d) PROVE JobsTyped'
  BY <1>1, <1>8 DEF expires
<1>9. CASE pumpBegins \/ pumpStale \/ retriesDone \/ rebuild \/ pumpWaits
  BY <1>1, <1>9 DEF pumpBegins, pumpStale, retriesDone, rebuild, pumpWaits
<1>10. ASSUME NEW k \in Keys, retrySubmission(k) \/ prepareJob(k) \/ resolveJob(k)
                               \/ parkDns(k) \/ dispatch(k)
       PROVE  JobsTyped'
  BY <1>1, <1>10 DEF retrySubmission, prepareJob, resolveJob, parkDns, dispatch
<1>11. ASSUME NEW k \in Keys, parkPrepare(k) PROVE JobsTyped'
  BY <1>11 DEF parkPrepare, Picks, Selectable, ready, eligible, JobsTyped
<1>12. ASSUME NEW t \in tasks, prepareSucceeds(t) PROVE JobsTyped'
  BY <1>12 DEF prepareSucceeds, PrepareEnds, MayPrepare, Valid, Gone, JobsTyped, OneJobPerKey
<1>13. ASSUME NEW t \in tasks, prepareFails(t) \/ prepareCancelled(t) PROVE JobsTyped'
  BY <1>13 DEF prepareFails, prepareCancelled, PrepareEnds, JobsTyped
<1>14. ASSUME NEW t \in tasks, dnsSettles(t) \/ captureCancelled(t) \/ notStarted(t) \/ missed(t)
               \/ pauseEnds(t) \/ submitSucceeds(t) \/ submitRejected(t)
               \/ submitCancelled(t) \/ submitUnknown(t)
       PROVE JobsTyped'
  BY <1>14 DEF dnsSettles, DnsEnds, captureCancelled, notStarted, missed, pauseEnds,
       submitSucceeds, submitRejected, submitCancelled, submitUnknown, Dequeue, JobsTyped
<1>15. ASSUME NEW t \in tasks, onStarted(t) \/ failed(t) PROVE JobsTyped'
  BY <1>1, <1>15 DEF onStarted, failed
<1>16. ASSUME NEW t \in tasks, observe(t) \/ budgetBlocked(t) \/ proved(t) PROVE JobsTyped'
  BY <1>16 DEF observe, budgetBlocked, proved, Valid, JobsTyped, OneJobPerKey
<1> QED
  BY <1>1, <1>2, <1>3, <1>4, <1>5, <1>6, <1>7, <1>8, <1>9, <1>10, <1>11, <1>12, <1>13, <1>14,
     <1>15, <1>16 DEF Next, wallet, pump, settles

\* The maps kept per key and per domain stay within their keys.
LEMMA MapsStep ==
  ASSUME TypeOK, [Next]_vars PROVE MapsTyped'
<1> USE DEF TypeOK
<1>1. ASSUME UNCHANGED <<keyVars, entries, groups, gates, dnsVars>> PROVE MapsTyped'
  BY <1>1 DEF MapsTyped
<1>2. CASE UNCHANGED vars \/ start \/ stop \/ suspend \/ resume \/ timer \/ onFailure
  BY <1>1, <1>2 DEF start, stop, suspend, resume, timer, onFailure
<1>3. CASE halted
  BY <1>3 DEF halted, MapsTyped
<1>4. ASSUME NEW k \in Keys, remove(k) \/ retire(k) PROVE MapsTyped'
  BY <1>4 DEF remove, retire, MapsTyped
<1>5. ASSUME NEW p \in BOOLEAN, clear(p) PROVE MapsTyped'
  BY <1>5 DEF clear, MapsTyped
<1>6. ASSUME NEW listed \in SUBSET Keys, NEW available \in SUBSET listed,
             publish(listed, available)
      PROVE  MapsTyped'
  BY <1>6 DEF publish, MapsTyped
<1>7. ASSUME NEW k \in Keys, due(k) PROVE MapsTyped'
  BY <1>7 DEF due, MapsTyped
<1>8. ASSUME NEW d \in Domains, expires(d) PROVE MapsTyped'
  BY <1>8 DEF expires, MapsTyped
<1>9. CASE pumpBegins \/ pumpStale \/ retriesDone \/ pumpWaits
  BY <1>1, <1>9 DEF pumpBegins, pumpStale, retriesDone, pumpWaits
<1>10. CASE rebuild
  BY <1>10, EngineAssumption DEF rebuild, eligible, MapsTyped, JobsTyped
<1>11. ASSUME NEW k \in Keys,
              retrySubmission(k) \/ prepareJob(k) \/ parkPrepare(k) \/ dispatch(k)
       PROVE  MapsTyped'
  BY <1>1, <1>11 DEF retrySubmission, prepareJob, parkPrepare, dispatch
<1>12. ASSUME NEW k \in Keys, resolveJob(k) \/ parkDns(k) PROVE MapsTyped'
  BY <1>12, EngineAssumption DEF resolveJob, parkDns, CloseGate, MapsTyped
<1>13. ASSUME NEW t \in tasks, prepareSucceeds(t) \/ prepareFails(t) \/ prepareCancelled(t)
       PROVE  MapsTyped'
  BY <1>13 DEF prepareSucceeds, prepareFails, prepareCancelled, PrepareEnds,
       MapsTyped, JobsTyped, TasksTyped, Task
<1>14. ASSUME NEW t \in tasks, dnsSettles(t) PROVE MapsTyped'
  <2>1. DomainOf[t.key] \in Domains
    BY EngineAssumption DEF TasksTyped, Task
  <2> QED
    BY <1>14, <2>1 DEF dnsSettles, DnsEnds, MapsTyped
<1>15. ASSUME NEW t \in tasks, onStarted(t) \/ captureCancelled(t) \/ missed(t) \/ failed(t)
                               \/ pauseEnds(t) \/ submitUnknown(t)
       PROVE  MapsTyped'
  BY <1>1, <1>15 DEF onStarted, captureCancelled, missed, failed, pauseEnds, submitUnknown
<1>16. ASSUME NEW t \in tasks, notStarted(t) PROVE MapsTyped'
  BY <1>16 DEF notStarted, MapsTyped
<1>17. ASSUME NEW t \in tasks, observe(t) \/ budgetBlocked(t) \/ proved(t) \/ submitSucceeds(t)
                               \/ submitRejected(t) \/ submitCancelled(t)
       PROVE  MapsTyped'
  BY <1>17 DEF observe, budgetBlocked, proved, submitSucceeds, submitRejected,
       submitCancelled, GiveUp, MapsTyped, TasksTyped, Task
<1> QED
  BY <1>2, <1>3, <1>4, <1>5, <1>6, <1>7, <1>8, <1>9, <1>10, <1>11, <1>12, <1>13, <1>14, <1>15,
     <1>16, <1>17 DEF Next, wallet, pump, settles

\* A retired bounty has left the scheduler's index and does not come back.
LEMMA IndexStep ==
  ASSUME TypeOK, [Next]_vars PROVE IndexTyped'
<1> USE DEF TypeOK, IndexTyped
<1>1. ASSUME UNCHANGED <<entries, retired>> PROVE IndexTyped'
  BY <1>1
<1>2. CASE UNCHANGED vars \/ start \/ stop \/ suspend \/ resume \/ timer \/ onFailure \/ halted
  BY <1>1, <1>2 DEF start, stop, suspend, resume, timer, onFailure, halted
<1>3. ASSUME NEW k \in Keys, remove(k) \/ retire(k) PROVE IndexTyped'
  BY <1>3 DEF remove, retire, Dequeue
<1>4. ASSUME NEW p \in BOOLEAN, clear(p) PROVE IndexTyped'
  BY <1>4 DEF clear
<1>5. ASSUME NEW listed \in SUBSET Keys, NEW available \in SUBSET listed,
             publish(listed, available)
      PROVE  IndexTyped'
  BY <1>5 DEF publish
<1>6. ASSUME NEW k \in Keys, due(k) PROVE IndexTyped'
  BY <1>1, <1>6 DEF due
<1>7. ASSUME NEW d \in Domains, expires(d) PROVE IndexTyped'
  BY <1>1, <1>7 DEF expires
<1>8. CASE pumpBegins \/ pumpStale \/ retriesDone \/ pumpWaits
  BY <1>1, <1>8 DEF pumpBegins, pumpStale, retriesDone, pumpWaits
<1>9. CASE rebuild
  BY <1>9 DEF rebuild, eligible
<1>10. ASSUME NEW k \in Keys, retrySubmission(k) \/ prepareJob(k) \/ parkPrepare(k)
                               \/ resolveJob(k) \/ parkDns(k) \/ dispatch(k)
       PROVE  IndexTyped'
  BY <1>1, <1>10 DEF retrySubmission, prepareJob, parkPrepare, resolveJob, parkDns, dispatch
<1>11. ASSUME NEW t \in tasks, prepareSucceeds(t) \/ prepareFails(t) \/ prepareCancelled(t)
       PROVE  IndexTyped'
  BY <1>11 DEF prepareSucceeds, prepareFails, prepareCancelled, PrepareEnds
<1>12. ASSUME NEW t \in tasks, dnsSettles(t) \/ captureCancelled(t) \/ notStarted(t) \/ missed(t)
               \/ pauseEnds(t) \/ submitSucceeds(t) \/ submitRejected(t)
               \/ submitCancelled(t) \/ submitUnknown(t)
       PROVE IndexTyped'
  BY <1>12 DEF dnsSettles, DnsEnds, captureCancelled, notStarted, missed, pauseEnds,
       submitSucceeds, submitRejected, submitCancelled, submitUnknown, Dequeue
<1>13. ASSUME NEW t \in tasks, onStarted(t) \/ failed(t) PROVE IndexTyped'
  BY <1>1, <1>13 DEF onStarted, failed
<1>14. ASSUME NEW t \in tasks, observe(t) \/ budgetBlocked(t) \/ proved(t) PROVE IndexTyped'
  BY <1>14 DEF observe, budgetBlocked, proved
<1> QED
  BY <1>2, <1>3, <1>4, <1>5, <1>6, <1>7, <1>8, <1>9, <1>10, <1>11, <1>12, <1>13, <1>14
     DEF Next, wallet, pump, settles

\* What kick may do to the pump.
LEMMA KickTyped ==
  ASSUME FlagsTyped, Kick
  PROVE  wake' \in BOOLEAN /\ coordinator' \in {"idle", "starting", "stale"} \cup Looping
  BY DEF Kick, FlagsTyped

\* What halt may do to the lifecycle.
LEMMA HaltTyped ==
  ASSUME FlagsTyped, NEW reason \in {"stop", "fatal"}, NEW ts, Halt(reason, ts)
  PROVE  /\ stopping' \in BOOLEAN /\ pool' \in BOOLEAN
         /\ wake' \in BOOLEAN /\ awaitingStart' \in BOOLEAN
         /\ haltReason' \in {"none", "stop", "fatal"}
         /\ coordinator' \in {"idle", "starting", "stale"} \cup Looping
  BY DEF Halt, FlagsTyped

\* fatal keeps the lifecycle's flags in their range.
LEMMA FatalTyped ==
  ASSUME FlagsTyped, NEW unknown \in BOOLEAN, NEW ts, fatal(unknown, ts), UNCHANGED dirty
  PROVE  FlagsTyped'
<1>1. CASE ~enabled /\ haltReason = "fatal" /\ ~unknown
  BY <1>1 DEF fatal, FlagsTyped
<1>2. CASE ~(~enabled /\ haltReason = "fatal" /\ ~unknown)
  BY <1>2, HaltTyped DEF fatal, FlagsTyped
<1> QED BY <1>1, <1>2

\* What a returning coordinator leaves behind.
LEMMA ReturnTyped ==
  ASSUME FlagsTyped, CoordinatorReturns
  PROVE  wake' \in BOOLEAN /\ coordinator' \in {"idle", "starting", "stale"} \cup Looping
  BY DEF CoordinatorReturns, FlagsTyped

\* The lifecycle's flags keep their range.
LEMMA FlagsStep ==
  ASSUME TypeOK, [Next]_vars PROVE FlagsTyped'
<1>0. FlagsTyped
  BY DEF TypeOK
<1> USE <1>0 DEF FlagsTyped
<1>1. CASE UNCHANGED vars \/ halted
  BY <1>1 DEF halted
<1>2. ASSUME Kick, UNCHANGED <<enabled, stopping, pool, haltReason, awaitingStart>>,
             paused' \in BOOLEAN, dirty' \in BOOLEAN,
             warning' \in {"none", "retry", "fatal", "unknown"}
      PROVE  FlagsTyped'
  BY <1>2, KickTyped
<1>3. CASE start
  BY <1>3, KickTyped DEF start
<1>4. CASE resume \/ timer
  BY <1>4, <1>2 DEF resume, timer
<1>5. CASE stop \/ suspend
  BY <1>5, HaltTyped DEF stop, suspend
<1>6. CASE onFailure
  BY <1>6, FatalTyped DEF onFailure
<1>7. ASSUME NEW k \in Keys, remove(k) \/ retire(k) PROVE FlagsTyped'
  BY <1>2, <1>7 DEF remove, retire
<1>8. ASSUME NEW k \in Keys, due(k) PROVE FlagsTyped'
  BY <1>8 DEF due
<1>9. ASSUME NEW p \in BOOLEAN, clear(p) PROVE FlagsTyped'
  BY <1>9 DEF clear
<1>10. ASSUME NEW listed \in SUBSET Keys, NEW available \in SUBSET listed,
              publish(listed, available)
       PROVE  FlagsTyped'
  BY <1>2, <1>10 DEF publish
<1>11. ASSUME NEW d \in Domains, expires(d) PROVE FlagsTyped'
  BY <1>11 DEF expires
<1>12. CASE pumpBegins \/ retriesDone \/ rebuild
  BY <1>12 DEF pumpBegins, retriesDone, rebuild, Looping
<1>13. CASE pumpStale \/ pumpWaits
  BY <1>13, ReturnTyped DEF pumpStale, pumpWaits
<1>14. ASSUME NEW k \in Keys, retrySubmission(k) \/ prepareJob(k) \/ parkPrepare(k)
                              \/ resolveJob(k) \/ parkDns(k)
       PROVE  FlagsTyped'
  <2>1. CASE retrySubmission(k) \/ prepareJob(k)
    BY <2>1 DEF retrySubmission, prepareJob
  <2>2. CASE parkPrepare(k)
    BY <2>2 DEF parkPrepare
  <2>3. CASE resolveJob(k) \/ parkDns(k)
    BY <2>3 DEF resolveJob, parkDns
  <2> QED
    BY <1>14, <2>1, <2>2, <2>3
<1>15. ASSUME NEW k \in Keys, dispatch(k) PROVE FlagsTyped'
  BY <1>15, ReturnTyped DEF dispatch
<1>16. Retrying \in {"none", "retry", "fatal", "unknown"}
  BY DEF Retrying
<1>17. ASSUME NEW t \in tasks, Forget(t), dirty' \in BOOLEAN, UNCHANGED awaitingStart,
              warning' \in {"none", "retry", "fatal", "unknown"}
       PROVE  FlagsTyped'
  BY <1>2, <1>17 DEF Forget
<1>18. ASSUME NEW t \in tasks, prepareSucceeds(t) \/ prepareFails(t) \/ prepareCancelled(t)
       PROVE  FlagsTyped'
  BY <1>16, <1>17, <1>18 DEF prepareSucceeds, prepareFails, prepareCancelled, PrepareEnds
<1>19. ASSUME NEW t \in tasks, dnsSettles(t) \/ submitRejected(t) \/ submitCancelled(t)
       PROVE  FlagsTyped'
  BY <1>16, <1>17, <1>19 DEF dnsSettles, DnsEnds, submitRejected, submitCancelled
<1>20. ASSUME NEW t \in tasks, submitSucceeds(t) PROVE FlagsTyped'
  BY <1>2, <1>20 DEF submitSucceeds
<1>21. ASSUME NEW t \in tasks, submitUnknown(t) PROVE FlagsTyped'
  BY <1>21, FatalTyped DEF submitUnknown
<1>22. ASSUME NEW t \in tasks, onStarted(t) PROVE FlagsTyped'
  BY <1>22, KickTyped DEF onStarted
<1>23. ASSUME NEW t \in tasks, observe(t) \/ failed(t) PROVE FlagsTyped'
  BY <1>16, <1>23 DEF observe, failed
<1>24. ASSUME NEW t \in tasks, proved(t) PROVE FlagsTyped'
  BY <1>24, KickTyped DEF proved
<1>25. ASSUME NEW t \in tasks, CaptureEnds(t), UNCHANGED dirty,
              warning' \in {"none", "retry", "fatal", "unknown"}
       PROVE  FlagsTyped'
  BY <1>25, KickTyped DEF CaptureEnds, Forget
<1>26. ASSUME NEW t \in tasks, captureCancelled(t) \/ budgetBlocked(t) \/ notStarted(t)
                               \/ missed(t) \/ pauseEnds(t)
       PROVE  FlagsTyped'
  BY <1>16, <1>25, <1>26 DEF captureCancelled, budgetBlocked, notStarted, missed, pauseEnds
<1> QED
  BY <1>1, <1>3, <1>4, <1>5, <1>6, <1>7, <1>8, <1>9, <1>10, <1>11, <1>12, <1>13, <1>14, <1>15,
     <1>18, <1>19, <1>20, <1>21, <1>22, <1>23, <1>24, <1>26 DEF Next, wallet, pump, settles

\* Aborting tasks changes nothing else of them.
LEMMA AbortFacts ==
  ASSUME NEW ts, ts \subseteq Task, NEW S
  PROVE  /\ Abort(ts, S) \subseteq Task
         /\ \A u \in Abort(ts, S) : \E t \in ts :
              /\ u.id = t.id /\ u.pc = t.pc /\ u.key = t.key /\ u.conn = t.conn
              /\ u.orphan = t.orphan /\ u.current = t.current /\ (t.aborted => u.aborted)
  BY DEF Abort, Task

\* Orphaning a key's tasks changes nothing else of them.
LEMMA OrphanFacts ==
  ASSUME NEW ts, ts \subseteq Task, NEW K
  PROVE  /\ Orphan(ts, K) \subseteq Task
         /\ \A u \in Orphan(ts, K) : \E t \in ts :
              /\ u.id = t.id /\ u.pc = t.pc /\ u.key = t.key /\ u.conn = t.conn
              /\ u.aborted = t.aborted /\ u.current = t.current
              /\ u.orphan <=> t.orphan \/ t.key \in K
  BY DEF Orphan, Task

\* A halt aborts every task and leaves none of this generation.
LEMMA StaleFacts ==
  ASSUME NEW ts, ts \subseteq Task
  PROVE  /\ Stale(ts) \subseteq Task
         /\ \A u \in Stale(ts) : u.aborted /\ ~u.current
         /\ \A u \in Stale(ts) : \E t \in ts :
              /\ u.id = t.id /\ u.pc = t.pc /\ u.key = t.key /\ u.conn = t.conn
              /\ u.orphan = t.orphan
<1>1. ASSUME NEW t \in ts PROVE [t EXCEPT !.aborted = TRUE, !.current = FALSE] \in Task
  BY <1>1 DEF Task
<1> QED
  BY <1>1 DEF Stale, Task

\* The tasks of removed keys are orphans, whether or not they could be aborted.
LEMMA RemovedFacts ==
  ASSUME TasksTyped, NEW K
  PROVE  /\ Removed(K) \subseteq Task
         /\ \A u \in Removed(K) : \E t \in tasks :
              /\ u.id = t.id /\ u.pc = t.pc /\ u.key = t.key /\ u.conn = t.conn
              /\ u.current = t.current /\ (t.aborted => u.aborted)
              /\ u.orphan <=> t.orphan \/ t.key \in K
<1> DEFINE S == {t \in tasks : t.key \in K /\
                   (t.conn \/ (~t.orphan /\ t.pc \in {"prepare", "submit"}))}
<1>1. Removed(K) = Orphan(Abort(tasks, S), K)
  BY DEF Removed
<1> HIDE DEF S
<1>2. /\ Abort(tasks, S) \subseteq Task
      /\ \A u \in Abort(tasks, S) : \E t \in tasks :
           /\ u.id = t.id /\ u.pc = t.pc /\ u.key = t.key /\ u.conn = t.conn
           /\ u.orphan = t.orphan /\ u.current = t.current /\ (t.aborted => u.aborted)
  BY AbortFacts DEF TasksTyped
<1>3. /\ Orphan(Abort(tasks, S), K) \subseteq Task
      /\ \A u \in Orphan(Abort(tasks, S), K) : \E t \in Abort(tasks, S) :
           /\ u.id = t.id /\ u.pc = t.pc /\ u.key = t.key /\ u.conn = t.conn
           /\ u.aborted = t.aborted /\ u.current = t.current
           /\ u.orphan <=> t.orphan \/ t.key \in K
  BY <1>2, OrphanFacts
<1> QED
  BY <1>1, <1>2, <1>3

\* A new task is a task.
LEMMA NewTaskTyped ==
  ASSUME TasksTyped, NEW pc \in Pcs, NEW k \in Keys, NEW conn \in BOOLEAN, NewTask(pc, k, conn)
  PROVE  TasksTyped'
<1>1. PICK i \in TaskIds :
        tasks' = tasks \cup {[id |-> i, pc |-> pc, key |-> k, conn |-> conn,
                              orphan |-> FALSE, aborted |-> FALSE, current |-> TRUE]}
  BY DEF NewTask
<1>2. [id |-> i, pc |-> pc, key |-> k, conn |-> conn,
       orphan |-> FALSE, aborted |-> FALSE, current |-> TRUE] \in Task
  BY DEF Task
<1> QED
  BY <1>1, <1>2 DEF TasksTyped

\* A new task is current and belongs to the queued job it was made for.
LEMMA NewTaskFields ==
  ASSUME NEW pc, NEW k, NEW conn, NewTask(pc, k, conn)
  PROVE  \E new : /\ tasks' = tasks \cup {new}
                  /\ new.pc = pc /\ new.key = k /\ new.current /\ ~new.orphan
<1>1. PICK i \in TaskIds :
        tasks' = tasks \cup {[id |-> i, pc |-> pc, key |-> k, conn |-> conn,
                              orphan |-> FALSE, aborted |-> FALSE, current |-> TRUE]}
  BY DEF NewTask
<1> DEFINE new == [id |-> i, pc |-> pc, key |-> k, conn |-> conn,
                   orphan |-> FALSE, aborted |-> FALSE, current |-> TRUE]
<1>2. new.pc = pc /\ new.key = k /\ new.current /\ ~new.orphan
  OBVIOUS
<1>3. tasks' = tasks \cup {new}
  BY <1>1
<1> HIDE DEF new
<1> QED
  BY <1>2, <1>3

\* A halt rewrites tasks into tasks.
LEMMA HaltTasks ==
  ASSUME NEW ts, ts \subseteq Task, NEW reason, Halt(reason, ts)
  PROVE  TasksTyped'
  BY StaleFacts DEF Halt, TasksTyped

\* Every step leaves tasks that are tasks.
LEMMA TasksStep ==
  ASSUME TypeOK, [Next]_vars PROVE TasksTyped'
<1>0. TasksTyped
  BY DEF TypeOK
<1> USE <1>0 DEF TasksTyped
<1>1. CASE UNCHANGED tasks
  BY <1>1
<1>2. CASE start \/ resume \/ halted \/ timer \/ pumpBegins \/ pumpStale \/ retriesDone
           \/ rebuild \/ pumpWaits
  BY <1>1, <1>2 DEF start, resume, halted, timer, pumpBegins, pumpStale, retriesDone, rebuild,
       pumpWaits
<1>3. CASE stop \/ suspend
  BY <1>3, HaltTasks DEF stop, suspend
<1>4. CASE onFailure
  BY <1>4, HaltTasks DEF onFailure, fatal
<1>5. ASSUME NEW k \in Keys, remove(k) PROVE TasksTyped'
  BY <1>5, RemovedFacts DEF remove
<1>6. ASSUME NEW k \in Keys, retire(k) PROVE TasksTyped'
  BY <1>6, AbortFacts DEF retire
<1>7. ASSUME NEW p \in BOOLEAN, clear(p) PROVE TasksTyped'
  <2>1. Abort(tasks, tasks) \subseteq Task
    BY AbortFacts
  <2> QED
    BY <1>7, <2>1, OrphanFacts DEF clear
<1>8. ASSUME NEW listed \in SUBSET Keys, NEW available \in SUBSET listed,
             publish(listed, available)
      PROVE  TasksTyped'
  BY <1>8, RemovedFacts DEF publish
<1>9. ASSUME NEW k \in Keys, due(k) \/ parkPrepare(k) \/ parkDns(k) PROVE TasksTyped'
  BY <1>1, <1>9 DEF due, parkPrepare, parkDns
<1>10. ASSUME NEW d \in Domains, expires(d) PROVE TasksTyped'
  BY <1>10 DEF expires
<1>11. ASSUME NEW k \in Keys, retrySubmission(k) \/ prepareJob(k) \/ resolveJob(k) \/ dispatch(k)
       PROVE  TasksTyped'
  BY <1>11, NewTaskTyped DEF retrySubmission, prepareJob, resolveJob, dispatch, Pcs
<1>12. ASSUME NEW t \in tasks, prepareSucceeds(t) \/ prepareFails(t) \/ prepareCancelled(t)
       PROVE  TasksTyped'
  BY <1>12 DEF prepareSucceeds, prepareFails, prepareCancelled, PrepareEnds, Forget
<1>13. ASSUME NEW t \in tasks, dnsSettles(t) \/ submitRejected(t) \/ submitCancelled(t)
       PROVE  TasksTyped'
  BY <1>13 DEF dnsSettles, DnsEnds, submitRejected, submitCancelled, Forget
<1>14. ASSUME NEW t \in tasks, captureCancelled(t) \/ budgetBlocked(t) \/ notStarted(t)
                               \/ missed(t) \/ pauseEnds(t)
       PROVE  TasksTyped'
  BY <1>14 DEF captureCancelled, budgetBlocked, notStarted, missed, pauseEnds, CaptureEnds, Forget
<1>15. ASSUME NEW t \in tasks, onStarted(t) \/ observe(t) \/ failed(t) PROVE TasksTyped'
  BY <1>15 DEF onStarted, observe, failed, To, Task, Pcs
<1>16. ASSUME NEW t \in tasks, proved(t) PROVE TasksTyped'
  <2> DEFINE rest == Abort(tasks \ {t}, {u \in Own(t.key) \ {t} : u.conn})
  <2>1. rest \subseteq Task
    BY AbortFacts
  <2>2. [t EXCEPT !.pc = "submit"] \in Task
    BY DEF Task, Pcs
  <2> QED
    BY <1>16, <2>1, <2>2 DEF proved
<1>17. ASSUME NEW t \in tasks, submitSucceeds(t) PROVE TasksTyped'
  BY <1>17, OrphanFacts DEF submitSucceeds
<1>18. ASSUME NEW t \in tasks, submitUnknown(t) PROVE TasksTyped'
  BY <1>18, HaltTasks DEF submitUnknown, fatal
<1> QED
  BY <1>1, <1>2, <1>3, <1>4, <1>5, <1>6, <1>7, <1>8, <1>9, <1>10, <1>11, <1>12, <1>13, <1>14,
     <1>15, <1>16, <1>17, <1>18 DEF Next, wallet, pump, settles

\* OneJobPerKey is inductive: a key leaves the queue with its tasks orphaned or
\* settled, and enters it only without tasks.
LEMMA OneJobPerKeyStep ==
  ASSUME TypeOK, OneJobPerKey, [Next]_vars PROVE OneJobPerKey'
<1>0. TasksTyped
  BY DEF TypeOK
<1> USE <1>0 DEF OneJobPerKey, TasksTyped
<1>1. CASE UNCHANGED <<tasks, queued>>
  BY <1>1
<1>2. CASE start \/ resume \/ halted \/ timer \/ pumpBegins \/ pumpStale \/ retriesDone
           \/ rebuild \/ pumpWaits
  BY <1>1, <1>2 DEF start, resume, halted, timer, pumpBegins, pumpStale, retriesDone, rebuild,
       pumpWaits
<1>3. ASSUME NEW ts, ts \subseteq tasks, NEW reason, Halt(reason, ts),
             \A t \in ts : t.orphan <=> t.key \notin queued'
      PROVE  OneJobPerKey'
  BY <1>3, StaleFacts DEF Halt
<1>4. CASE stop \/ suspend
  BY <1>3, <1>4 DEF stop, suspend
<1>5. CASE onFailure
  BY <1>3, <1>5 DEF onFailure, fatal
<1>6. ASSUME NEW k \in Keys, remove(k) PROVE OneJobPerKey'
  BY <1>6, RemovedFacts DEF remove, Dequeue
<1>7. ASSUME NEW k \in Keys, retire(k) PROVE OneJobPerKey'
  <2> DEFINE S == {t \in Own(k) : t.pc = "connect"}
  <2>1. \A u \in Abort(tasks, S) : \E t \in tasks : u.key = t.key /\ u.orphan = t.orphan
    BY AbortFacts
  <2> QED
    BY <1>7, <2>1 DEF retire, Dequeue, hasActive
<1>8. ASSUME NEW p \in BOOLEAN, clear(p) PROVE OneJobPerKey'
  BY <1>8, AbortFacts, OrphanFacts DEF clear, Dequeue, Task
<1>9. ASSUME NEW listed \in SUBSET Keys, NEW available \in SUBSET listed,
             publish(listed, available)
      PROVE  OneJobPerKey'
  <2> DEFINE live == {t.key : t \in tasks}
             gone == Keys \ (available \cup ((retired \cap live) \ listed))
             stay == queued \ gone
  <2>1. \A t \in tasks : t.key \in queued' <=> t.key \in stay
    BY <1>9 DEF publish, Protected, Admissible, hasActive
  <2>2. \A t \in tasks : t.key \in Keys
    BY DEF Task
  <2>3. tasks' = Removed(gone)
    BY <1>9 DEF publish
  <2> HIDE DEF gone
  <2>4. ASSUME NEW u \in tasks' PROVE u.orphan <=> u.key \notin queued'
    BY <2>1, <2>2, <2>3, <2>4, RemovedFacts
  <2> QED
    BY <2>4
<1>10. ASSUME NEW k \in Keys, due(k) \/ parkPrepare(k) \/ parkDns(k) PROVE OneJobPerKey'
  BY <1>1, <1>10 DEF due, parkPrepare, parkDns
<1>11. ASSUME NEW d \in Domains, expires(d) PROVE OneJobPerKey'
  BY <1>11 DEF expires
<1>12. ASSUME NEW k \in queued, NEW pc, NEW conn, NewTask(pc, k, conn), UNCHANGED queued
       PROVE  OneJobPerKey'
  BY <1>12 DEF NewTask
<1>13. ASSUME NEW k \in Keys, retrySubmission(k) \/ prepareJob(k) \/ resolveJob(k) \/ dispatch(k)
       PROVE  OneJobPerKey'
  BY <1>12, <1>13 DEF retrySubmission, Retriable, prepareJob, resolveJob, dispatch, Picks,
       Selectable, ready, eligible
<1>14. ASSUME NEW t \in tasks, tasks' = tasks \ {t}, queued' = queued \ Gone(t)
       PROVE  OneJobPerKey'
  BY <1>14 DEF Gone
<1>15. ASSUME NEW t \in tasks, prepareSucceeds(t) \/ prepareFails(t) \/ prepareCancelled(t)
       PROVE  OneJobPerKey'
  BY <1>14, <1>15 DEF prepareSucceeds, prepareFails, prepareCancelled, PrepareEnds, Forget
<1>16. ASSUME NEW t \in tasks, dnsSettles(t) \/ submitRejected(t) \/ submitCancelled(t)
       PROVE  OneJobPerKey'
  BY <1>14, <1>16 DEF dnsSettles, DnsEnds, submitRejected, submitCancelled, Forget, Dequeue
<1>17. ASSUME NEW t \in tasks, captureCancelled(t) \/ budgetBlocked(t) \/ notStarted(t)
                               \/ missed(t) \/ pauseEnds(t)
       PROVE  OneJobPerKey'
  BY <1>14, <1>17 DEF captureCancelled, budgetBlocked, notStarted, missed, pauseEnds,
       CaptureEnds, Forget, Dequeue
<1>18. ASSUME NEW t \in tasks, onStarted(t) \/ observe(t) \/ failed(t) PROVE OneJobPerKey'
  BY <1>18 DEF onStarted, observe, failed, To, Task
<1>19. ASSUME NEW t \in tasks, proved(t) PROVE OneJobPerKey'
  <2> DEFINE rest == Abort(tasks \ {t}, {u \in Own(t.key) \ {t} : u.conn})
             won == [t EXCEPT !.pc = "submit"]
  <2>1. \A u \in rest : \E v \in tasks \ {t} : u.key = v.key /\ u.orphan = v.orphan
    BY AbortFacts
  <2>2. won.key = t.key /\ won.orphan = t.orphan
    BY DEF Task
  <2>3. \/ tasks' = rest /\ queued' = queued \ Gone(t)
        \/ tasks' = rest \cup {won} /\ queued' = queued
    BY <1>19 DEF proved
  <2> HIDE DEF rest, won
  <2>4. CASE tasks' = rest /\ queued' = queued \ Gone(t)
    BY <2>1, <2>4 DEF Gone
  <2>5. CASE tasks' = rest \cup {won} /\ queued' = queued
    BY <2>1, <2>2, <2>5
  <2> QED
    BY <2>3, <2>4, <2>5
<1>20. ASSUME NEW t \in tasks, submitSucceeds(t) PROVE OneJobPerKey'
  BY <1>20, OrphanFacts DEF submitSucceeds, Dequeue
<1>21. ASSUME NEW t \in tasks, submitUnknown(t) PROVE OneJobPerKey'
  <2>1. \A u \in tasks \ {t} : u.orphan <=> u.key \notin queued'
    BY <1>21 DEF submitUnknown, Dequeue, Gone
  <2>2. Halt("fatal", tasks \ {t})
    BY <1>21 DEF submitUnknown, fatal
  <2> QED
    BY <1>3, <2>1, <2>2
<1> QED
  BY <1>1, <1>2, <1>4, <1>5, <1>6, <1>7, <1>8, <1>9, <1>10, <1>11, <1>13, <1>15, <1>16, <1>17,
     <1>18, <1>19, <1>20, <1>21 DEF Next, wallet, pump, settles

\* kick starts a coordinator only in an engine that is not halting.
LEMMA KickRespectsHalt ==
  ASSUME TypeOK, NoStaleWork, Kick, UNCHANGED stopping
  PROVE  coordinator' # "idle" => (coordinator' = "stale" <=> stopping')
  BY DEF Kick, NoStaleWork, TypeOK, FlagsTyped

\* Halting cancels what is live, and a second halt changes nothing.
LEMMA HaltLeavesNoneFresh ==
  ASSUME TypeOK, NoStaleWork, NEW ts \in SUBSET tasks, NEW reason, Halt(reason, ts)
  PROVE  NoStaleWork'
<1>1. ts \subseteq Task
  BY DEF TypeOK, TasksTyped
<1>2. CASE stopping
  BY <1>2 DEF Halt, NoStaleWork
<1>3. CASE ~stopping
  BY <1>1, <1>3, StaleFacts DEF Halt, NoStaleWork
<1> QED BY <1>2, <1>3

\* NoStaleWork is inductive: tasks start only from a running coordinator.
LEMMA NoStaleWorkStep ==
  ASSUME TypeOK, NoStaleWork, [Next]_vars PROVE NoStaleWork'
<1>0. TasksTyped /\ FlagsTyped
  BY DEF TypeOK
<1>1. CASE UNCHANGED vars
  BY <1>1 DEF NoStaleWork
<1>2. ASSUME UNCHANGED <<stopping, pool>>,
             stopping => ~awaitingStart',
             coordinator' # "idle" => (coordinator' = "stale" <=> stopping),
             \A u \in tasks' : \E t \in tasks : u.current = t.current /\ (t.aborted => u.aborted)
      PROVE  NoStaleWork'
  BY <1>2 DEF NoStaleWork
<1>3. ASSUME UNCHANGED <<stopping, pool>>, Kick, awaitingStart' => awaitingStart,
             \A u \in tasks' : \E t \in tasks : u.current = t.current /\ (t.aborted => u.aborted)
      PROVE  NoStaleWork'
  <2>1. coordinator' # "idle" => (coordinator' = "stale" <=> stopping)
    BY <1>3, KickRespectsHalt
  <2>2. stopping => ~awaitingStart'
    BY <1>3 DEF NoStaleWork
  <2> QED
    BY <1>2, <1>3, <2>1, <2>2
<1>4. CASE start \/ resume \/ timer
  <2>1. UNCHANGED <<stopping, pool, awaitingStart, tasks>> /\ Kick
    BY <1>4 DEF start, resume, timer
  <2> QED
    BY <1>3, <2>1
<1>5. CASE halted
  BY <1>5 DEF halted, NoStaleWork
<1>6. CASE stop \/ suspend
  BY <1>6, HaltLeavesNoneFresh DEF stop, suspend
<1>7. CASE onFailure
  BY <1>7, HaltLeavesNoneFresh DEF onFailure, fatal, NoStaleWork
<1>8. ASSUME NEW k \in Keys, remove(k) PROVE NoStaleWork'
  BY <1>0, <1>3, <1>8, RemovedFacts DEF remove
<1>9. ASSUME NEW k \in Keys, retire(k) PROVE NoStaleWork'
  <2> DEFINE S == {t \in Own(k) : t.pc = "connect"}
  <2>1. \A u \in Abort(tasks, S) : \E t \in tasks :
          u.current = t.current /\ (t.aborted => u.aborted)
    BY <1>0, AbortFacts DEF TasksTyped
  <2> QED
    BY <1>3, <1>9, <2>1 DEF retire
<1>10. ASSUME NEW p \in BOOLEAN, clear(p) PROVE NoStaleWork'
  <2>1. /\ Abort(tasks, tasks) \subseteq Task
        /\ \A u \in Abort(tasks, tasks) : \E t \in tasks :
             u.current = t.current /\ (t.aborted => u.aborted)
    BY <1>0, AbortFacts DEF TasksTyped
  <2>2. \A u \in tasks' : \E t \in Abort(tasks, tasks) :
          u.current = t.current /\ u.aborted = t.aborted
    BY <1>10, <2>1, OrphanFacts DEF clear
  <2> QED
    BY <1>2, <1>10, <2>1, <2>2 DEF clear, NoStaleWork
<1>11. ASSUME NEW listed \in SUBSET Keys, NEW available \in SUBSET listed,
              publish(listed, available)
       PROVE  NoStaleWork'
  <2>1. PICK gone : tasks' = Removed(gone)
    BY <1>11 DEF publish
  <2>2. Kick /\ UNCHANGED <<stopping, pool, awaitingStart>>
    BY <1>11 DEF publish
  <2> QED
    BY <1>0, <1>3, <2>1, <2>2, RemovedFacts
<1>12. ASSUME NEW k \in Keys, due(k) \/ parkPrepare(k) \/ parkDns(k) PROVE NoStaleWork'
  BY <1>12 DEF due, parkPrepare, parkDns, NoStaleWork
<1>13. ASSUME NEW d \in Domains, expires(d) PROVE NoStaleWork'
  BY <1>13 DEF expires, NoStaleWork
<1>14. CASE pumpBegins \/ retriesDone \/ rebuild
  BY <1>14 DEF pumpBegins, retriesDone, rebuild, NoStaleWork
<1>15. CASE pumpStale \/ pumpWaits
  BY <1>15, <1>0 DEF pumpStale, pumpWaits, CoordinatorReturns, NoStaleWork, FlagsTyped
<1>16. ASSUME NEW pc, NEW k, NEW conn, NewTask(pc, k, conn), coordinator \in Looping,
              UNCHANGED <<stopping, pool>>,
              coordinator' # "idle" => coordinator' # "stale"
       PROVE  NoStaleWork'
  BY <1>16, <1>0 DEF NewTask, NoStaleWork, Looping, FlagsTyped
<1>17. ASSUME NEW k \in Keys, retrySubmission(k) \/ prepareJob(k) \/ resolveJob(k) \/ dispatch(k)
       PROVE  NoStaleWork'
  BY <1>16, <1>17 DEF retrySubmission, prepareJob, resolveJob, dispatch, Picks, Looping,
       CoordinatorReturns
<1>18. ASSUME NEW t \in tasks, prepareSucceeds(t) \/ prepareFails(t) \/ prepareCancelled(t)
       PROVE  NoStaleWork'
  BY <1>3, <1>18 DEF prepareSucceeds, prepareFails, prepareCancelled, PrepareEnds, Forget
<1>19. ASSUME NEW t \in tasks, dnsSettles(t) \/ submitRejected(t) \/ submitCancelled(t)
       PROVE  NoStaleWork'
  BY <1>3, <1>19 DEF dnsSettles, DnsEnds, submitRejected, submitCancelled, Forget
<1>20. ASSUME NEW t \in tasks, captureCancelled(t) \/ budgetBlocked(t) \/ notStarted(t)
                               \/ missed(t) \/ pauseEnds(t)
       PROVE  NoStaleWork'
  BY <1>3, <1>20 DEF captureCancelled, budgetBlocked, notStarted, missed, pauseEnds,
       CaptureEnds, Forget
<1>21. ASSUME NEW t \in tasks, NEW pc \in Pcs
       PROVE  \A u \in To(t, pc) : \E v \in tasks :
                u.current = v.current /\ (v.aborted => u.aborted)
  BY <1>0, <1>21 DEF To, TasksTyped, Task
<1>22. ASSUME NEW t \in tasks, onStarted(t) PROVE NoStaleWork'
  BY <1>3, <1>21, <1>22 DEF onStarted, Pcs
<1>23. ASSUME NEW t \in tasks, observe(t) \/ failed(t) PROVE NoStaleWork'
  BY <1>2, <1>21, <1>23 DEF observe, failed, Pcs, NoStaleWork
<1>24. ASSUME NEW t \in tasks, proved(t) PROVE NoStaleWork'
  <2> DEFINE rest == Abort(tasks \ {t}, {u \in Own(t.key) \ {t} : u.conn})
             won == [t EXCEPT !.pc = "submit"]
  <2>1. \A u \in rest : \E v \in tasks : u.current = v.current /\ (v.aborted => u.aborted)
    BY <1>0, AbortFacts DEF TasksTyped
  <2>2. won.current = t.current /\ won.aborted = t.aborted
    BY <1>0 DEF TasksTyped, Task
  <2>3. \/ tasks' = rest /\ Kick /\ UNCHANGED <<stopping, pool, awaitingStart>>
        \/ tasks' = rest \cup {won} /\ UNCHANGED <<stopping, pool, awaitingStart, coordinator>>
    BY <1>24 DEF proved
  <2> HIDE DEF rest, won
  <2> QED
    BY <1>2, <1>3, <2>1, <2>2, <2>3 DEF NoStaleWork
<1>25. ASSUME NEW t \in tasks, submitSucceeds(t) PROVE NoStaleWork'
  <2>1. tasks \ {t} \subseteq Task
    BY <1>0 DEF TasksTyped
  <2>2. \A u \in tasks' : \E v \in tasks : u.current = v.current /\ (v.aborted => u.aborted)
    BY <1>25, <2>1, OrphanFacts DEF submitSucceeds
  <2> QED
    BY <1>3, <1>25, <2>2 DEF submitSucceeds
<1>26. ASSUME NEW t \in tasks, submitUnknown(t) PROVE NoStaleWork'
  BY <1>26, HaltLeavesNoneFresh DEF submitUnknown, fatal
<1> QED
  BY <1>1, <1>4, <1>5, <1>6, <1>7, <1>8, <1>9, <1>10, <1>11, <1>12, <1>13, <1>14, <1>15, <1>17,
     <1>18, <1>19, <1>20, <1>22, <1>23, <1>24, <1>25, <1>26 DEF Next, wallet, pump, settles

\* At most one task in a position, in a set of tasks: for any key, or for each.
Single(ts, pc)   == \A t, u \in ts : t.pc = pc /\ u.pc = pc => t = u
OnePerKey(ts, pc) == \A t, u \in ts : t.pc = pc /\ u.pc = pc /\ t.key = u.key => t = u
Waiting(ts) == \E t \in ts : t.pc = "connect" /\ t.current

\* Aborting multiplies no task and leaves the awaited start as it is.
LEMMA AbortKeeps ==
  ASSUME NEW ts, ts \subseteq Task, NEW S, NEW pc
  PROVE  /\ Single(ts, pc) => Single(Abort(ts, S), pc)
         /\ OnePerKey(ts, pc) => OnePerKey(Abort(ts, S), pc)
         /\ Waiting(Abort(ts, S)) <=> Waiting(ts)
<1> DEFINE g(t) == IF t \in S THEN [t EXCEPT !.aborted = TRUE] ELSE t
<1>1. Abort(ts, S) = {g(t) : t \in ts}
  BY DEF Abort
<1>2. \A t \in ts : g(t).pc = t.pc /\ g(t).key = t.key /\ g(t).current = t.current
  BY DEF Task
<1> HIDE DEF g
<1> QED
  BY <1>1, <1>2 DEF Single, OnePerKey, Waiting

\* Orphaning multiplies no task and leaves the awaited start as it is.
LEMMA OrphanKeeps ==
  ASSUME NEW ts, ts \subseteq Task, NEW K, NEW pc
  PROVE  /\ Single(ts, pc) => Single(Orphan(ts, K), pc)
         /\ OnePerKey(ts, pc) => OnePerKey(Orphan(ts, K), pc)
         /\ Waiting(Orphan(ts, K)) <=> Waiting(ts)
<1> DEFINE g(t) == IF t.key \in K THEN [t EXCEPT !.orphan = TRUE] ELSE t
<1>1. Orphan(ts, K) = {g(t) : t \in ts}
  BY DEF Orphan
<1>2. \A t \in ts : g(t).pc = t.pc /\ g(t).key = t.key /\ g(t).current = t.current
  BY DEF Task
<1> HIDE DEF g
<1> QED
  BY <1>1, <1>2 DEF Single, OnePerKey, Waiting

\* A halt multiplies no task and awaits no start.
LEMMA StaleKeeps ==
  ASSUME NEW ts, ts \subseteq Task, NEW pc
  PROVE  /\ Single(ts, pc) => Single(Stale(ts), pc)
         /\ OnePerKey(ts, pc) => OnePerKey(Stale(ts), pc)
         /\ ~Waiting(Stale(ts))
<1> DEFINE g(t) == [t EXCEPT !.aborted = TRUE, !.current = FALSE]
<1>1. Stale(ts) = {g(t) : t \in ts}
  BY DEF Stale
<1>2. \A t \in ts : g(t).pc = t.pc /\ g(t).key = t.key /\ ~g(t).current
  BY DEF Task
<1> HIDE DEF g
<1> QED
  BY <1>1, <1>2 DEF Single, OnePerKey, Waiting

\* A removal multiplies no task and leaves the awaited start as it is.
LEMMA RemovedKeeps ==
  ASSUME TasksTyped, NEW K, NEW pc
  PROVE  /\ Single(tasks, pc) => Single(Removed(K), pc)
         /\ OnePerKey(tasks, pc) => OnePerKey(Removed(K), pc)
         /\ Waiting(Removed(K)) <=> Waiting(tasks)
<1> DEFINE S == {t \in tasks : t.key \in K /\
                   (t.conn \/ (~t.orphan /\ t.pc \in {"prepare", "submit"}))}
<1>1. Removed(K) = Orphan(Abort(tasks, S), K)
  BY DEF Removed
<1> HIDE DEF S
<1>2. Abort(tasks, S) \subseteq Task
  BY AbortFacts DEF TasksTyped
<1> QED
  BY <1>1, <1>2, AbortKeeps, OrphanKeeps DEF TasksTyped

\* OneStartAwaited is inductive, beside NoStaleWork.
LEMMA OneStartAwaitedStep ==
  ASSUME TypeOK, NoStaleWork, OneStartAwaited, [Next]_vars PROVE OneStartAwaited'
<1>0. tasks \subseteq Task /\ TasksTyped
  BY DEF TypeOK, TasksTyped
<1>1. (awaitingStart <=> Waiting(tasks)) /\ Single(tasks, "connect")
  BY DEF OneStartAwaited, Waiting, Single
<1>2. ASSUME awaitingStart' <=> Waiting(tasks'), Single(tasks', "connect")
      PROVE  OneStartAwaited'
  BY <1>2 DEF OneStartAwaited, Waiting, Single
<1>3. CASE UNCHANGED <<tasks, awaitingStart>>
  BY <1>3 DEF OneStartAwaited
<1>4. CASE start \/ resume \/ halted \/ timer \/ pumpBegins \/ pumpStale \/ retriesDone
           \/ rebuild \/ pumpWaits
  BY <1>3, <1>4 DEF start, resume, halted, timer, pumpBegins, pumpStale, retriesDone, rebuild,
       pumpWaits
<1>5. ASSUME NEW ts \in SUBSET tasks, NEW reason, Halt(reason, ts),
             \A t \in tasks \ ts : t.pc # "connect"
      PROVE  OneStartAwaited'
  <2>1. Single(ts, "connect") /\ (Waiting(ts) <=> Waiting(tasks))
    BY <1>1, <1>5 DEF Single, Waiting
  <2>2. CASE stopping
    BY <1>1, <1>2, <1>5, <2>1, <2>2 DEF Halt
  <2>3. CASE ~stopping
    BY <1>0, <1>2, <1>5, <2>1, <2>3, StaleKeeps DEF Halt
  <2> QED
    BY <2>2, <2>3
<1>6. CASE stop \/ suspend
  BY <1>5, <1>6 DEF stop, suspend
<1>7. CASE onFailure
  BY <1>3, <1>5, <1>7 DEF onFailure, fatal
<1>8. ASSUME NEW k \in Keys, remove(k) PROVE OneStartAwaited'
  BY <1>0, <1>1, <1>2, <1>8, RemovedKeeps DEF remove
<1>9. ASSUME NEW k \in Keys, retire(k) PROVE OneStartAwaited'
  BY <1>0, <1>1, <1>2, <1>9, AbortKeeps DEF retire
<1>10. ASSUME NEW p \in BOOLEAN, clear(p) PROVE OneStartAwaited'
  <2>1. Abort(tasks, tasks) \subseteq Task
    BY <1>0, AbortFacts
  <2>2. tasks' = Orphan(Abort(tasks, tasks), Keys) /\ UNCHANGED awaitingStart
    BY <1>10 DEF clear
  <2> QED
    BY <1>0, <1>1, <1>2, <2>1, <2>2, AbortKeeps, OrphanKeeps
<1>11. ASSUME NEW listed \in SUBSET Keys, NEW available \in SUBSET listed,
              publish(listed, available)
       PROVE  OneStartAwaited'
  <2>1. PICK gone : tasks' = Removed(gone) /\ UNCHANGED awaitingStart
    BY <1>11 DEF publish
  <2> QED
    BY <1>0, <1>1, <1>2, <2>1, RemovedKeeps
<1>12. ASSUME NEW k \in Keys, due(k) \/ parkPrepare(k) \/ parkDns(k) PROVE OneStartAwaited'
  BY <1>3, <1>12 DEF due, parkPrepare, parkDns
<1>13. ASSUME NEW d \in Domains, expires(d) PROVE OneStartAwaited'
  BY <1>3, <1>13 DEF expires
<1>14. ASSUME NEW k, NEW pc, pc # "connect", NEW conn, NewTask(pc, k, conn),
              UNCHANGED awaitingStart
       PROVE  OneStartAwaited'
  BY <1>14 DEF NewTask, OneStartAwaited
<1>15. ASSUME NEW k \in Keys, retrySubmission(k) \/ prepareJob(k) \/ resolveJob(k)
       PROVE  OneStartAwaited'
  BY <1>14, <1>15 DEF retrySubmission, prepareJob, resolveJob
\* Nobody is connecting when the coordinator dispatches: it runs only in an
\* engine that does not halt, where every task is current.
<1>16. ASSUME NEW k \in Keys, dispatch(k) PROVE OneStartAwaited'
  <2>1. ~awaitingStart /\ \A t \in tasks : t.current
    BY <1>16 DEF dispatch, Picks, Full, NoStaleWork, Looping
  <2>2. \A t \in tasks : t.pc # "connect"
    BY <1>1, <2>1 DEF Waiting
  <2>3. PICK new : tasks' = tasks \cup {new} /\ new.pc = "connect" /\ new.current
    BY <1>16, NewTaskFields DEF dispatch
  <2>4. awaitingStart'
    BY <1>16 DEF dispatch
  <2> QED
    BY <2>2, <2>3, <2>4 DEF OneStartAwaited
<1>17. ASSUME NEW t \in tasks, t.pc # "connect", tasks' = tasks \ {t}, UNCHANGED awaitingStart
       PROVE  OneStartAwaited'
  BY <1>17 DEF OneStartAwaited
<1>18. ASSUME NEW t \in tasks, prepareSucceeds(t) \/ prepareFails(t) \/ prepareCancelled(t)
       PROVE  OneStartAwaited'
  BY <1>17, <1>18 DEF prepareSucceeds, prepareFails, prepareCancelled, MayPrepare, PrepareEnds,
       Forget
<1>19. ASSUME NEW t \in tasks, dnsSettles(t) \/ submitRejected(t) \/ submitCancelled(t)
       PROVE  OneStartAwaited'
  BY <1>17, <1>19 DEF dnsSettles, DnsEnds, submitRejected, submitCancelled, Forget
<1>20. ASSUME NEW t \in tasks, CaptureEnds(t) PROVE OneStartAwaited'
  BY <1>1, <1>2, <1>20 DEF CaptureEnds, Forget, Single, Waiting
<1>21. ASSUME NEW t \in tasks, captureCancelled(t) \/ budgetBlocked(t) \/ notStarted(t)
                               \/ missed(t) \/ pauseEnds(t)
       PROVE  OneStartAwaited'
  BY <1>20, <1>21 DEF captureCancelled, budgetBlocked, notStarted, missed, pauseEnds
<1>22. ASSUME NEW t \in tasks, NEW pc \in Pcs, pc # "connect", tasks' = To(t, pc),
              awaitingStart' = IF t.pc = "connect" THEN FALSE ELSE awaitingStart
       PROVE  OneStartAwaited'
  <2>1. [t EXCEPT !.pc = pc].pc = pc
    BY <1>0 DEF Task
  <2> QED
    BY <1>1, <1>2, <1>22, <2>1 DEF To, Single, Waiting
<1>23. ASSUME NEW t \in tasks, onStarted(t) \/ observe(t) \/ failed(t) PROVE OneStartAwaited'
  BY <1>22, <1>23 DEF onStarted, observe, failed, Pcs
<1>24. ASSUME NEW t \in tasks, proved(t) PROVE OneStartAwaited'
  <2> DEFINE rest == Abort(tasks \ {t}, {u \in Own(t.key) \ {t} : u.conn})
             won == [t EXCEPT !.pc = "submit"]
  <2>1. Single(tasks \ {t}, "connect") /\ (Waiting(tasks \ {t}) <=> Waiting(tasks))
    BY <1>1, <1>24 DEF proved, Single, Waiting
  <2>2. Single(rest, "connect") /\ (Waiting(rest) <=> Waiting(tasks))
    BY <1>0, <2>1, AbortKeeps
  <2>3. won.pc = "submit"
    BY <1>0 DEF Task
  <2>4. (tasks' = rest \/ tasks' = rest \cup {won}) /\ UNCHANGED awaitingStart
    BY <1>24 DEF proved
  <2> HIDE DEF rest, won
  <2> QED
    BY <1>1, <1>2, <2>2, <2>3, <2>4 DEF Single, Waiting
<1>25. ASSUME NEW t \in tasks, submitSucceeds(t) PROVE OneStartAwaited'
  <2>1. Single(tasks \ {t}, "connect") /\ (Waiting(tasks \ {t}) <=> Waiting(tasks))
    BY <1>1, <1>25 DEF submitSucceeds, Single, Waiting
  <2>2. tasks' = Orphan(tasks \ {t}, {t.key}) /\ UNCHANGED awaitingStart
    BY <1>25 DEF submitSucceeds
  <2> QED
    BY <1>0, <1>1, <1>2, <2>1, <2>2, OrphanKeeps
<1>26. ASSUME NEW t \in tasks, submitUnknown(t) PROVE OneStartAwaited'
  BY <1>5, <1>26 DEF submitUnknown, fatal
<1> QED
  BY <1>3, <1>4, <1>6, <1>7, <1>8, <1>9, <1>10, <1>11, <1>12, <1>13, <1>15, <1>16, <1>18, <1>19,
     <1>21, <1>23, <1>24, <1>25, <1>26 DEF Next, wallet, pump, settles

\* What the engine's bookkeeping keeps together, and is inductive.
Coherent == TypeOK /\ OneJobPerKey /\ NoStaleWork /\ OneStartAwaited

\* The first half of the invariant is inductive by itself.
LEMMA CoherentStep == Coherent /\ [Next]_vars => Coherent'
  BY JobsStep, MapsStep, IndexStep, FlagsStep, TasksStep, OneJobPerKeyStep, NoStaleWorkStep,
     OneStartAwaitedStep DEF Coherent, TypeOK

\* What a task may rely on: a capture on the transaction its job prepared, a
\* submission on the win that started it.
Capturing == {"connect", "tls", "captured", "failed", "pause"}
CapturersPrepared == \A t \in tasks : t.pc \in Capturing /\ ~t.orphan => t.key \in prepared
SubmittersWon == \A t \in tasks : t.pc = "submit" /\ ~t.orphan => t.key \in winners
Relied == CapturersPrepared /\ SubmittersWon

\* The proofs the engine keeps, and the submissions that spend them.
Kept == Relied /\ ProofsKeepProposals /\ WinnersKeepProofs /\ OneSubmission

\* A capture's proposal and a submission's win outlive it while its job is queued.
LEMMA ReliedStep ==
  ASSUME Coherent, Kept, [Next]_vars PROVE Relied'
<1>0. /\ tasks \subseteq Task /\ TasksTyped /\ JobsTyped /\ OneJobPerKey /\ OneJobPerKey'
      /\ CapturersPrepared /\ SubmittersWon
  BY CoherentStep DEF Coherent, TypeOK, TasksTyped, Kept, Relied
\* A task of a job that stays queued keeps what it relies on.
<1>1. ASSUME \A u \in tasks' : \E t \in tasks :
               u.pc = t.pc /\ u.key = t.key /\ (t.orphan => u.orphan),
             prepared \cap queued' \subseteq prepared', winners \cap queued' \subseteq winners'
      PROVE  Relied'
  BY <1>0, <1>1 DEF Relied, CapturersPrepared, SubmittersWon, OneJobPerKey
<1>2. ASSUME UNCHANGED tasks,
             prepared \cap queued' \subseteq prepared', winners \cap queued' \subseteq winners'
      PROVE  Relied'
  BY <1>1, <1>2
<1>3. CASE UNCHANGED vars \/ start \/ resume \/ halted \/ timer \/ pumpBegins \/ pumpStale
           \/ retriesDone \/ rebuild \/ pumpWaits
  BY <1>2, <1>3 DEF start, resume, halted, timer, pumpBegins, pumpStale, retriesDone, rebuild,
       pumpWaits
<1>4. ASSUME NEW ts \in SUBSET tasks, NEW reason, Halt(reason, ts),
             prepared \cap queued' \subseteq prepared', winners \cap queued' \subseteq winners'
      PROVE  Relied'
  <2>1. \A u \in tasks' : \E t \in tasks : u.pc = t.pc /\ u.key = t.key /\ (t.orphan => u.orphan)
    BY <1>0, <1>4, StaleFacts DEF Halt
  <2> QED
    BY <1>1, <1>4, <2>1
<1>5. CASE stop \/ suspend
  BY <1>4, <1>5 DEF stop, suspend
<1>6. CASE onFailure
  BY <1>2, <1>4, <1>6 DEF onFailure, fatal
<1>7. ASSUME NEW k \in Keys, remove(k) PROVE Relied'
  <2>1. \A u \in tasks' : \E t \in tasks : u.pc = t.pc /\ u.key = t.key /\ (t.orphan => u.orphan)
    BY <1>0, <1>7, RemovedFacts DEF remove
  <2> QED
    BY <1>1, <1>7, <2>1 DEF remove, Dequeue
<1>8. ASSUME NEW k \in Keys, retire(k) PROVE Relied'
  <2> DEFINE S == {t \in Own(k) : t.pc = "connect"}
  <2>1. \A u \in Abort(tasks, S) : \E t \in tasks :
          u.pc = t.pc /\ u.key = t.key /\ (t.orphan => u.orphan)
    BY <1>0, AbortFacts
  <2> QED
    BY <1>1, <1>8, <2>1 DEF retire, Dequeue
<1>9. ASSUME NEW p \in BOOLEAN, clear(p) PROVE Relied'
  <2>1. \A u \in tasks' : u.orphan
    BY <1>0, <1>9, CoherentStep DEF clear, Dequeue, Coherent, TypeOK, JobsTyped, OneJobPerKey
  <2> QED
    BY <2>1 DEF Relied, CapturersPrepared, SubmittersWon
<1>10. ASSUME NEW listed \in SUBSET Keys, NEW available \in SUBSET listed,
              publish(listed, available)
       PROVE  Relied'
  <2>1. PICK gone : tasks' = Removed(gone)
    BY <1>10 DEF publish
  <2>2. \A u \in tasks' : \E t \in tasks : u.pc = t.pc /\ u.key = t.key /\ (t.orphan => u.orphan)
    BY <1>0, <2>1, RemovedFacts
  <2>3. prepared \cap queued' \subseteq prepared' /\ winners \cap queued' \subseteq winners'
    BY <1>0, <1>10 DEF publish, Admissible, JobsTyped
  <2> QED
    BY <1>1, <2>2, <2>3
<1>11. ASSUME NEW k \in Keys, due(k) \/ parkPrepare(k) \/ parkDns(k) PROVE Relied'
  BY <1>2, <1>11 DEF due, parkPrepare, parkDns
<1>12. ASSUME NEW d \in Domains, expires(d) PROVE Relied'
  BY <1>2, <1>12 DEF expires
<1>13. ASSUME NEW k, NEW pc, NEW conn, NewTask(pc, k, conn), UNCHANGED <<prepared, winners>>,
              pc \in Capturing => k \in prepared, pc = "submit" => k \in winners
       PROVE  Relied'
  <2>1. PICK new : /\ tasks' = tasks \cup {new}
                   /\ new.pc = pc /\ new.key = k /\ new.current /\ ~new.orphan
    BY <1>13, NewTaskFields
  <2> QED
    BY <1>0, <1>13, <2>1 DEF Relied, CapturersPrepared, SubmittersWon
<1>14. ASSUME NEW k \in Keys, retrySubmission(k) \/ prepareJob(k) \/ resolveJob(k) \/ dispatch(k)
       PROVE  Relied'
  <2>1. CASE retrySubmission(k)
    BY <1>13, <2>1 DEF retrySubmission, Retriable, Kept, WinnersKeepProofs, Capturing
  <2>2. CASE prepareJob(k) \/ resolveJob(k)
    BY <1>13, <2>2 DEF prepareJob, resolveJob, Capturing
  <2>3. CASE dispatch(k)
    BY <1>13, <2>3 DEF dispatch
  <2> QED
    BY <1>14, <2>1, <2>2, <2>3
\* An evicted proposal belongs to no live task.
<1>15. ASSUME NEW t \in tasks, prepareSucceeds(t) PROVE Relied'
  <2>1. tasks' = tasks \ {t} /\ winners \cap queued' \subseteq winners'
    BY <1>15 DEF prepareSucceeds, PrepareEnds, Forget
  <2>2. \A u \in tasks' : u.key \in prepared \cap queued' => u.key \in prepared'
    BY <1>15, <2>1 DEF prepareSucceeds, PrepareEnds, Evictable, hasActive
  <2> QED
    BY <1>0, <2>1, <2>2 DEF Relied, CapturersPrepared, SubmittersWon, OneJobPerKey
<1>16. ASSUME NEW t \in tasks, prepareFails(t) \/ prepareCancelled(t) PROVE Relied'
  BY <1>1, <1>16 DEF prepareFails, prepareCancelled, PrepareEnds, Forget
<1>17. ASSUME NEW t \in tasks, dnsSettles(t) \/ submitRejected(t) \/ submitCancelled(t)
       PROVE  Relied'
  BY <1>1, <1>17 DEF dnsSettles, DnsEnds, submitRejected, submitCancelled, Forget, Dequeue
<1>18. ASSUME NEW t \in tasks, captureCancelled(t) \/ budgetBlocked(t) \/ notStarted(t)
                               \/ missed(t) \/ pauseEnds(t)
       PROVE  Relied'
  BY <1>1, <1>18 DEF captureCancelled, budgetBlocked, notStarted, missed, pauseEnds,
       CaptureEnds, Forget, Dequeue
<1>19. ASSUME NEW t \in tasks, t.pc \in Capturing, NEW pc \in Capturing, tasks' = To(t, pc),
              UNCHANGED <<prepared, winners>>
       PROVE  Relied'
  <2> DEFINE moved == [t EXCEPT !.pc = pc]
  <2>1. moved.pc = pc /\ moved.key = t.key /\ moved.orphan = t.orphan
    BY <1>0 DEF Task
  <2>2. tasks' = (tasks \ {t}) \cup {moved}
    BY <1>19 DEF To
  <2> HIDE DEF moved
  <2> QED
    BY <1>0, <1>19, <2>1, <2>2 DEF Relied, CapturersPrepared, SubmittersWon, Capturing
<1>20. ASSUME NEW t \in tasks, onStarted(t) \/ observe(t) \/ failed(t) PROVE Relied'
  BY <1>19, <1>20 DEF onStarted, observe, failed, Capturing
<1>21. ASSUME NEW t \in tasks, proved(t) PROVE Relied'
  <2> DEFINE rest == Abort(tasks \ {t}, {u \in Own(t.key) \ {t} : u.conn})
             won == [t EXCEPT !.pc = "submit"]
  <2>1. \A u \in rest : \E v \in tasks : u.pc = v.pc /\ u.key = v.key /\ (v.orphan => u.orphan)
    BY <1>0, AbortFacts
  <2>2. won.pc = "submit" /\ won.key = t.key
    BY <1>0 DEF Task
  <2>3. \/ /\ tasks' = rest
           /\ prepared \cap queued' \subseteq prepared' /\ winners \cap queued' \subseteq winners'
        \/ /\ tasks' = rest \cup {won}
           /\ prepared' = prepared /\ winners' = winners \cup {t.key}
    BY <1>21 DEF proved
  <2> HIDE DEF rest, won
  <2> QED
    BY <1>0, <1>1, <2>1, <2>2, <2>3 DEF Relied, CapturersPrepared, SubmittersWon, Capturing
<1>22. ASSUME NEW t \in tasks, submitSucceeds(t) PROVE Relied'
  <2>1. \A u \in tasks' : \E v \in tasks : u.pc = v.pc /\ u.key = v.key /\ (v.orphan => u.orphan)
    BY <1>0, <1>22, OrphanFacts DEF submitSucceeds
  <2> QED
    BY <1>1, <1>22, <2>1 DEF submitSucceeds, Dequeue
<1>23. ASSUME NEW t \in tasks, submitUnknown(t) PROVE Relied'
  <2>1. Halt("fatal", tasks \ {t})
    BY <1>23 DEF submitUnknown, fatal
  <2> QED
    BY <1>4, <1>23, <2>1 DEF submitUnknown, Dequeue
<1> QED
  BY <1>3, <1>5, <1>6, <1>7, <1>8, <1>9, <1>10, <1>11, <1>12, <1>14, <1>15, <1>16, <1>17, <1>18,
     <1>20, <1>21, <1>22, <1>23 DEF Next, wallet, pump, settles

\* ProofsKeepProposals and WinnersKeepProofs relate the same variables.
LEMMA ProofsKeptStep ==
  ASSUME Coherent, Kept, [Next]_vars PROVE ProofsKeepProposals' /\ WinnersKeepProofs'
<1> DEFINE Goal == ProofsKeepProposals /\ WinnersKeepProofs
<1>0. TypeOK /\ JobsTyped /\ tasks \subseteq Task /\ OneJobPerKey /\ CapturersPrepared
  BY DEF Coherent, TypeOK, TasksTyped, Kept, Relied
<1> USE DEF Kept, ProofsKeepProposals, WinnersKeepProofs
<1>1. ASSUME UNCHANGED <<queued, retired, winners, prepared, proofs, proposals>> PROVE Goal'
  BY <1>1
<1>2. CASE UNCHANGED vars \/ start \/ stop \/ suspend \/ resume \/ halted \/ timer \/ onFailure
           \/ pumpBegins \/ pumpStale \/ retriesDone \/ rebuild \/ pumpWaits
  BY <1>1, <1>2 DEF start, stop, suspend, resume, halted, timer, onFailure, pumpBegins, pumpStale,
       retriesDone, rebuild, pumpWaits
<1>3. ASSUME NEW k \in Keys, remove(k) PROVE Goal'
  BY <1>3 DEF remove, Dequeue
<1>4. ASSUME NEW k \in Keys, retire(k) PROVE Goal'
  BY <1>4 DEF retire, Dequeue
<1>5. ASSUME NEW p \in BOOLEAN, clear(p) PROVE Goal'
  BY <1>0, <1>5 DEF clear, Dequeue, JobsTyped
<1>6. ASSUME NEW listed \in SUBSET Keys, NEW available \in SUBSET listed,
             publish(listed, available)
      PROVE  Goal'
  BY <1>0, <1>6 DEF publish, Admissible, JobsTyped
<1>7. ASSUME NEW k \in Keys, due(k) \/ parkPrepare(k) \/ parkDns(k) \/ retrySubmission(k)
                             \/ prepareJob(k) \/ resolveJob(k) \/ dispatch(k)
      PROVE  Goal'
  BY <1>1, <1>7 DEF due, parkPrepare, parkDns, retrySubmission, prepareJob, resolveJob, dispatch
<1>8. ASSUME NEW d \in Domains, expires(d) PROVE Goal'
  BY <1>1, <1>8 DEF expires
<1>9. ASSUME NEW t \in tasks, prepareSucceeds(t) PROVE Goal'
  BY <1>9 DEF prepareSucceeds, PrepareEnds, Evictable, MayPrepare, Valid, Gone
<1>10. ASSUME NEW t \in tasks, prepareFails(t) \/ prepareCancelled(t) PROVE Goal'
  BY <1>10 DEF prepareFails, prepareCancelled, PrepareEnds
<1>11. ASSUME NEW t \in tasks, dnsSettles(t) \/ captureCancelled(t) \/ notStarted(t)
                               \/ missed(t) \/ pauseEnds(t) \/ submitUnknown(t)
       PROVE  Goal'
  BY <1>11 DEF dnsSettles, DnsEnds, captureCancelled, notStarted, missed, pauseEnds,
       submitUnknown, Dequeue
<1>12. ASSUME NEW t \in tasks, budgetBlocked(t) PROVE Goal'
  BY <1>12 DEF budgetBlocked
<1>13. ASSUME NEW t \in tasks, onStarted(t) \/ observe(t) \/ failed(t) PROVE Goal'
  BY <1>1, <1>13 DEF onStarted, observe, failed
\* The capture that proved worked on its job's proposal.
<1>14. ASSUME NEW t \in tasks, proved(t) PROVE Goal'
  <2>1. t.key \in prepared
    BY <1>0, <1>14 DEF proved, Valid, CapturersPrepared, Capturing
  <2> QED
    BY <1>14, <2>1 DEF proved
<1>15. ASSUME NEW t \in tasks, submitSucceeds(t) PROVE Goal'
  BY <1>15 DEF submitSucceeds, Dequeue
\* A proof is given up by an orphan, whose key is not queued, or by a retired job.
<1>16. ASSUME NEW t \in tasks, submitRejected(t) \/ submitCancelled(t) PROVE Goal'
  BY <1>0, <1>16 DEF submitRejected, submitCancelled, GiveUp, Dequeue, OneJobPerKey, JobsTyped
<1> QED
  BY <1>2, <1>3, <1>4, <1>5, <1>6, <1>7, <1>8, <1>9, <1>10, <1>11, <1>12, <1>13, <1>14, <1>15,
     <1>16 DEF Next, wallet, pump, settles

\* OneSubmission is inductive: retries and fresh winners see every submission of
\* the key, and a second capture of a won job does not submit.
LEMMA OneSubmissionStep ==
  ASSUME Coherent, Kept, [Next]_vars PROVE OneSubmission'
<1>0. /\ tasks \subseteq Task /\ TasksTyped /\ JobsTyped /\ OneJobPerKey /\ SubmittersWon
      /\ OnePerKey(tasks, "submit")
  BY DEF Coherent, TypeOK, TasksTyped, Kept, Relied, OneSubmission, Submitting, OnePerKey
<1>1. ASSUME OnePerKey(tasks', "submit") PROVE OneSubmission'
  BY <1>1 DEF OneSubmission, Submitting, OnePerKey
<1>2. ASSUME tasks' \subseteq tasks PROVE OneSubmission'
  BY <1>0, <1>1, <1>2 DEF OnePerKey
<1>3. CASE UNCHANGED vars \/ start \/ resume \/ halted \/ timer \/ pumpBegins \/ pumpStale
           \/ retriesDone \/ rebuild \/ pumpWaits
  BY <1>2, <1>3 DEF start, resume, halted, timer, pumpBegins, pumpStale, retriesDone, rebuild,
       pumpWaits
<1>4. ASSUME NEW ts \in SUBSET tasks, NEW reason, Halt(reason, ts) PROVE OneSubmission'
  <2>1. OnePerKey(ts, "submit") /\ ts \subseteq Task
    BY <1>0, <1>4 DEF OnePerKey
  <2> QED
    BY <1>1, <1>4, <2>1, StaleKeeps DEF Halt
<1>5. CASE stop \/ suspend
  BY <1>4, <1>5 DEF stop, suspend
<1>6. CASE onFailure
  BY <1>2, <1>4, <1>6 DEF onFailure, fatal
<1>7. ASSUME NEW k \in Keys, remove(k) PROVE OneSubmission'
  BY <1>0, <1>1, <1>7, RemovedKeeps DEF remove
<1>8. ASSUME NEW k \in Keys, retire(k) PROVE OneSubmission'
  BY <1>0, <1>1, <1>8, AbortKeeps DEF retire
<1>9. ASSUME NEW p \in BOOLEAN, clear(p) PROVE OneSubmission'
  <2>1. Abort(tasks, tasks) \subseteq Task
    BY <1>0, AbortFacts
  <2>2. tasks' = Orphan(Abort(tasks, tasks), Keys)
    BY <1>9 DEF clear
  <2> QED
    BY <1>0, <1>1, <2>1, <2>2, AbortKeeps, OrphanKeeps
<1>10. ASSUME NEW listed \in SUBSET Keys, NEW available \in SUBSET listed,
              publish(listed, available)
       PROVE  OneSubmission'
  <2>1. PICK gone : tasks' = Removed(gone)
    BY <1>10 DEF publish
  <2> QED
    BY <1>0, <1>1, <2>1, RemovedKeeps
<1>11. ASSUME NEW k \in Keys, due(k) \/ parkPrepare(k) \/ parkDns(k) PROVE OneSubmission'
  BY <1>2, <1>11 DEF due, parkPrepare, parkDns
<1>12. ASSUME NEW d \in Domains, expires(d) PROVE OneSubmission'
  BY <1>2, <1>12 DEF expires
<1>13. ASSUME NEW k \in Keys, prepareJob(k) \/ resolveJob(k) \/ dispatch(k) PROVE OneSubmission'
  <2>1. PICK new : tasks' = tasks \cup {new} /\ new.pc \in {"prepare", "dns", "connect"}
    BY <1>13, NewTaskFields DEF prepareJob, resolveJob, dispatch
  <2> QED
    BY <1>0, <1>1, <2>1 DEF OnePerKey
\* A retried job is queued, so every task of its key is its own, and none submits.
<1>14. ASSUME NEW k \in Keys, retrySubmission(k) PROVE OneSubmission'
  <2>1. PICK new : /\ tasks' = tasks \cup {new}
                   /\ new.pc = "submit" /\ new.key = k /\ new.current /\ ~new.orphan
    <3>1. NewTask("submit", k, FALSE)
      BY <1>14 DEF retrySubmission
    <3>2. ASSUME NEW conn, NewTask("submit", k, conn)
          PROVE  \E new : /\ tasks' = tasks \cup {new}
                          /\ new.pc = "submit" /\ new.key = k /\ new.current /\ ~new.orphan
      BY <3>2, NewTaskFields
    <3> QED
      BY <3>1, <3>2, Zenon
  <2>2. \A t \in tasks : t.key = k => t.pc # "submit"
    BY <1>0, <1>14 DEF retrySubmission, Retriable, Own, Submitting, OneJobPerKey
  <2> QED
    BY <1>0, <1>1, <2>1, <2>2 DEF OnePerKey
<1>15. ASSUME NEW t \in tasks, prepareSucceeds(t) \/ prepareFails(t) \/ prepareCancelled(t)
       PROVE  OneSubmission'
  BY <1>2, <1>15 DEF prepareSucceeds, prepareFails, prepareCancelled, PrepareEnds, Forget
<1>16. ASSUME NEW t \in tasks, dnsSettles(t) \/ submitRejected(t) \/ submitCancelled(t)
       PROVE  OneSubmission'
  BY <1>2, <1>16 DEF dnsSettles, DnsEnds, submitRejected, submitCancelled, Forget
<1>17. ASSUME NEW t \in tasks, captureCancelled(t) \/ budgetBlocked(t) \/ notStarted(t)
                               \/ missed(t) \/ pauseEnds(t)
       PROVE  OneSubmission'
  BY <1>2, <1>17 DEF captureCancelled, budgetBlocked, notStarted, missed, pauseEnds,
       CaptureEnds, Forget
<1>18. ASSUME NEW t \in tasks, NEW pc, pc # "submit", tasks' = To(t, pc) PROVE OneSubmission'
  <2> DEFINE moved == [t EXCEPT !.pc = pc]
  <2>1. moved.pc = pc
    BY <1>0 DEF Task
  <2>2. tasks' = (tasks \ {t}) \cup {moved}
    BY <1>18 DEF To
  <2> HIDE DEF moved
  <2> QED
    BY <1>0, <1>1, <1>18, <2>1, <2>2 DEF OnePerKey
<1>19. ASSUME NEW t \in tasks, onStarted(t) \/ observe(t) \/ failed(t) PROVE OneSubmission'
  BY <1>18, <1>19 DEF onStarted, observe, failed
\* A first winner has no submission beside it: a submission of its job would
\* have won before.
<1>20. ASSUME NEW t \in tasks, proved(t) PROVE OneSubmission'
  <2> DEFINE rest == Abort(tasks \ {t}, {u \in Own(t.key) \ {t} : u.conn})
             won == [t EXCEPT !.pc = "submit"]
  <2>1. \A u \in tasks : u.key = t.key => u.pc # "submit"
    BY <1>0, <1>20 DEF proved, Valid, OneJobPerKey, SubmittersWon
  <2>2. OnePerKey(rest, "submit")
    <3>1. OnePerKey(tasks \ {t}, "submit") /\ tasks \ {t} \subseteq Task
      BY <1>0 DEF OnePerKey
    <3> QED
      BY <3>1, AbortKeeps
  <2>3. \A u \in rest : u.key = t.key => u.pc # "submit"
    BY <1>0, <2>1, AbortFacts
  <2>4. won.key = t.key
    BY <1>0 DEF Task
  <2>5. tasks' = rest \/ tasks' = rest \cup {won}
    BY <1>20 DEF proved
  <2> HIDE DEF rest, won
  <2> QED
    BY <1>1, <2>2, <2>3, <2>4, <2>5 DEF OnePerKey
<1>21. ASSUME NEW t \in tasks, submitSucceeds(t) PROVE OneSubmission'
  <2>1. OnePerKey(tasks \ {t}, "submit")
    BY <1>0 DEF OnePerKey
  <2>2. tasks' = Orphan(tasks \ {t}, {t.key})
    BY <1>21 DEF submitSucceeds
  <2> QED
    BY <1>0, <1>1, <2>1, <2>2, OrphanKeeps
<1>22. ASSUME NEW t \in tasks, submitUnknown(t) PROVE OneSubmission'
  BY <1>4, <1>22 DEF submitUnknown, fatal
<1> QED
  BY <1>3, <1>5, <1>6, <1>7, <1>8, <1>9, <1>10, <1>11, <1>12, <1>13, <1>14, <1>15, <1>16, <1>17,
     <1>19, <1>20, <1>21, <1>22 DEF Next, wallet, pump, settles

\* After an unknown outcome no claim runs: nothing is enabled, the coordinator
\* is idle or has returned, and what still settles does so under a fatal halt.
UnknownHeld ==
  warning = "unknown" =>
    ~enabled /\ coordinator \in {"idle", "stale"}
    /\ (tasks = {} \/ (stopping /\ haltReason = "fatal"))

Submits(ts) == {t.id : t \in {u \in ts : u.pc = "submit"}}

\* UnknownHeld is inductive, and under it no step submits or hides the warning.
LEMMA UnknownStep ==
  ASSUME Coherent, UnknownHeld, [Next]_vars
  PROVE  /\ UnknownHeld'
         /\ warning = "unknown" =>
              (warning' = "unknown" \/ start) /\ Submits(tasks') \subseteq Submits(tasks)
<1> DEFINE Goal == /\ UnknownHeld'
                   /\ warning = "unknown" =>
                        /\ warning' = "unknown" \/ start
                        /\ Submits(tasks') \subseteq Submits(tasks)
<1>0. tasks \subseteq Task /\ TasksTyped /\ FlagsTyped /\ NoStaleWork
  BY DEF Coherent, TypeOK, TasksTyped
\* Steps that notify nothing and only rewrite, move or forget tasks.
<1>1. ASSUME warning' = "unknown" => warning = "unknown",
             warning = "unknown" =>
               /\ warning' = "unknown" /\ UNCHANGED <<enabled, stopping, haltReason, coordinator>>
               /\ \A u \in tasks' : \E t \in tasks : u.id = t.id /\ u.pc = t.pc
      PROVE  Goal
  BY <1>1 DEF UnknownHeld, Submits
<1>2. ASSUME Kick, UNCHANGED <<enabled, stopping, haltReason>>,
             warning' = "unknown" => warning = "unknown",
             warning = "unknown" => warning' = "unknown",
             \A u \in tasks' : \E t \in tasks : u.id = t.id /\ u.pc = t.pc
      PROVE  Goal
  BY <1>1, <1>2 DEF Kick, UnknownHeld
<1>3. CASE UNCHANGED vars
  BY <1>1, <1>3
<1>4. CASE start
  BY <1>4 DEF start, UnknownHeld, Submits
<1>5. CASE resume \/ timer
  BY <1>2, <1>5 DEF resume, timer
<1>6. CASE halted
  BY <1>6 DEF halted, UnknownHeld, Submits
<1>7. CASE stop \/ suspend
  <2>1. Halt("stop", tasks) /\ (enabled' = enabled \/ ~enabled') /\ UNCHANGED warning
    BY <1>7 DEF stop, suspend
  <2>2. \A u \in tasks' : \E t \in tasks : u.id = t.id /\ u.pc = t.pc
    BY <1>0, <2>1, StaleFacts DEF Halt
  <2>3. UnknownHeld'
    BY <1>0, <2>1, <2>2 DEF Halt, UnknownHeld, NoStaleWork
  <2> QED
    BY <2>1, <2>2, <2>3 DEF Submits
<1>8. CASE onFailure
  BY <1>8 DEF onFailure, fatal, UnknownHeld
<1>9. ASSUME NEW k \in Keys, remove(k) PROVE Goal
  BY <1>0, <1>2, <1>9, RemovedFacts DEF remove
<1>10. ASSUME NEW k \in Keys, retire(k) PROVE Goal
  BY <1>0, <1>2, <1>10, AbortFacts DEF retire
<1>11. ASSUME NEW p \in BOOLEAN, clear(p) PROVE Goal
  <2>1. /\ Abort(tasks, tasks) \subseteq Task
        /\ \A u \in Abort(tasks, tasks) : \E t \in tasks : u.id = t.id /\ u.pc = t.pc
    BY <1>0, AbortFacts
  <2>2. \A u \in tasks' : \E t \in Abort(tasks, tasks) : u.id = t.id /\ u.pc = t.pc
    BY <1>11, <2>1, OrphanFacts DEF clear
  <2> QED
    BY <1>1, <1>11, <2>1, <2>2 DEF clear
<1>12. ASSUME NEW listed \in SUBSET Keys, NEW available \in SUBSET listed,
              publish(listed, available)
       PROVE  Goal
  BY <1>12 DEF publish, UnknownHeld
<1>13. ASSUME NEW k \in Keys, due(k) PROVE Goal
  BY <1>1, <1>13 DEF due
<1>14. ASSUME NEW d \in Domains, expires(d) PROVE Goal
  BY <1>1, <1>14 DEF expires
<1>15. CASE pumpStale
  BY <1>15 DEF pumpStale, CoordinatorReturns, UnknownHeld, Submits
\* Every other step of the coordinator finds a warning that is not unknown.
<1>16. ASSUME coordinator \notin {"idle", "stale"}, UNCHANGED warning PROVE Goal
  BY <1>16 DEF UnknownHeld
<1>17. CASE pumpBegins \/ retriesDone \/ rebuild \/ pumpWaits
  BY <1>16, <1>17 DEF pumpBegins, retriesDone, rebuild, pumpWaits
<1>18. ASSUME NEW k \in Keys, retrySubmission(k) \/ prepareJob(k) \/ parkPrepare(k)
                              \/ resolveJob(k) \/ parkDns(k) \/ dispatch(k)
       PROVE  Goal
  BY <1>16, <1>18 DEF retrySubmission, prepareJob, parkPrepare, resolveJob, parkDns, dispatch, Picks
\* A settling task meets an unknown outcome only under a fatal halt.
<1>19. ASSUME NEW t \in tasks PROVE warning = "unknown" => Retrying = "unknown"
  BY <1>19 DEF UnknownHeld, Retrying
<1>20. (Retrying = "unknown" => warning = "unknown") /\ "none" # "unknown"
  BY DEF Retrying
<1>21. ASSUME NEW t \in tasks, prepareSucceeds(t) \/ prepareFails(t) \/ prepareCancelled(t)
       PROVE  Goal
  BY <1>2, <1>19, <1>20, <1>21 DEF prepareSucceeds, prepareFails, prepareCancelled, PrepareEnds,
       Forget
<1>22. ASSUME NEW t \in tasks, dnsSettles(t) \/ submitRejected(t) \/ submitCancelled(t)
       PROVE  Goal
  BY <1>2, <1>19, <1>20, <1>22 DEF dnsSettles, DnsEnds, submitRejected, submitCancelled, Forget
<1>23. ASSUME NEW t \in tasks, captureCancelled(t) \/ budgetBlocked(t) \/ notStarted(t)
                               \/ missed(t) \/ pauseEnds(t)
       PROVE  Goal
  BY <1>2, <1>19, <1>20, <1>23 DEF captureCancelled, budgetBlocked, notStarted, missed, pauseEnds,
       CaptureEnds, Forget
<1>24. ASSUME NEW t \in tasks, NEW pc \in Pcs \ {"submit"}, tasks' = To(t, pc),
              UNCHANGED <<enabled, stopping, haltReason>>, Kick \/ UNCHANGED coordinator,
              warning' = "unknown" <=> warning = "unknown"
       PROVE  Goal
  <2>1. [t EXCEPT !.pc = pc].pc = pc
    BY <1>0 DEF Task
  <2>2. Submits(tasks') \subseteq Submits(tasks)
    BY <1>24, <2>1 DEF To, Submits
  <2> QED
    BY <1>24, <2>2 DEF UnknownHeld, Kick
<1>25. ASSUME NEW t \in tasks, onStarted(t) PROVE Goal
  BY <1>0, <1>24, <1>25 DEF onStarted, Pcs, UnknownHeld
<1>26. ASSUME NEW t \in tasks, observe(t) \/ failed(t) PROVE Goal
  BY <1>19, <1>20, <1>24, <1>26 DEF observe, failed, Pcs
<1>27. ASSUME NEW t \in tasks, proved(t) PROVE Goal
  BY <1>27 DEF proved, Valid, UnknownHeld
<1>28. ASSUME NEW t \in tasks, submitSucceeds(t) PROVE Goal
  <2>1. \A u \in tasks' : \E v \in tasks : u.id = v.id /\ u.pc = v.pc
    BY <1>0, <1>28, OrphanFacts DEF submitSucceeds
  <2>2. warning' = "unknown" <=> warning = "unknown"
    BY <1>28 DEF submitSucceeds, UnknownHeld
  <2> QED
    BY <1>2, <1>28, <2>1, <2>2 DEF submitSucceeds
<1>29. ASSUME NEW t \in tasks, submitUnknown(t) PROVE Goal
  <2>1. Halt("fatal", tasks \ {t}) /\ ~enabled' /\ warning' = "unknown"
    BY <1>29 DEF submitUnknown, fatal
  <2>2. \A u \in tasks' : \E v \in tasks : u.id = v.id /\ u.pc = v.pc
    BY <1>0, <2>1, StaleFacts DEF Halt
  <2>3. UnknownHeld'
    BY <1>0, <2>1 DEF Halt, UnknownHeld, NoStaleWork
  <2> QED
    BY <2>1, <2>2, <2>3 DEF Submits
<1> QED
  BY <1>3, <1>4, <1>5, <1>6, <1>7, <1>8, <1>9, <1>10, <1>11, <1>12, <1>13, <1>14, <1>15, <1>17,
     <1>18, <1>21, <1>22, <1>23, <1>25, <1>26, <1>27, <1>28, <1>29 DEF Next, wallet, pump, settles

-----------------------------------------------------------------------------
(* The theorems.                                                           *)

\* The constructor's state satisfies the invariant.
LEMMA InitHolds == Init => Coherent /\ Kept /\ UnknownHeld
  BY DEF Init, Coherent, TypeOK, JobsTyped, MapsTyped, IndexTyped, FlagsTyped, TasksTyped,
     OneJobPerKey, NoStaleWork, OneStartAwaited, Kept, Relied, CapturersPrepared, SubmittersWon,
     ProofsKeepProposals, WinnersKeepProofs, OneSubmission, Submitting, UnknownHeld

\* The invariant is inductive.
LEMMA EngineStep ==
  Coherent /\ Kept /\ UnknownHeld /\ [Next]_vars => (Coherent /\ Kept /\ UnknownHeld)'
<1> SUFFICES ASSUME Coherent, Kept, UnknownHeld, [Next]_vars
             PROVE  Coherent' /\ Kept' /\ UnknownHeld'
  OBVIOUS
<1>1. Coherent'
  BY CoherentStep
<1>2. Kept'
  BY ReliedStep, ProofsKeptStep, OneSubmissionStep DEF Kept
<1>3. UnknownHeld'
  BY UnknownStep
<1> QED
  BY <1>1, <1>2, <1>3

\* The inductive invariant of the engine.
THEOREM EngineInv == Spec => [](Coherent /\ Kept /\ UnknownHeld)
  BY InitHolds, EngineStep, PTL DEF Spec

\* The state variables keep the sets they are read as, however calls interleave
\* with settling tasks: every job flag belongs to a queued job, and the scheduler's index
\* holds no retired one.
THEOREM TypeCorrect == Spec => []TypeOK
<1>1. Coherent => TypeOK
  BY DEF Coherent
<1> QED
  BY EngineInv, <1>1, PTL

\* A task has left the queue exactly when its key has: nothing re-admits a key
\* while work of its old job is in flight (enqueue's hasActive, track's finally).
THEOREM JobsNeverCollide == Spec => []OneJobPerKey
<1>1. Coherent => OneJobPerKey
  BY DEF Coherent
<1> QED
  BY EngineInv, <1>1, PTL

\* Work of an earlier generation exists only during a halt, and is cancelled.
THEOREM HaltsCancelAll == Spec => []NoStaleWork
<1>1. Coherent => NoStaleWork
  BY DEF Coherent
<1> QED
  BY EngineInv, <1>1, PTL

\* The start gate is shut exactly while one request has not started.
THEOREM OneStartAtATime == Spec => []OneStartAwaited
<1>1. Coherent => OneStartAwaited
  BY DEF Coherent
<1> QED
  BY EngineInv, <1>1, PTL

\* No bounty is submitted twice at once.
THEOREM SubmittedOnce == Spec => []OneSubmission
<1>1. Kept => OneSubmission
  BY DEF Kept
<1> QED
  BY EngineInv, <1>1, PTL

\* Every verified proof and every prepared job finds its transaction.
THEOREM ProposalsKept == Spec => []ProofsKeepProposals
<1>1. Kept => ProofsKeepProposals
  BY DEF Kept
<1> QED
  BY EngineInv, <1>1, PTL

\* A job marked as won can still be submitted.
THEOREM ProofsKept == Spec => []WinnersKeepProofs
<1>1. Kept => WinnersKeepProofs
  BY DEF Kept
<1> QED
  BY EngineInv, <1>1, PTL

\* After an unknown broadcast outcome nothing is submitted and nothing hides the
\* warning until claims are started again.
THEOREM UnknownStopsClaims == Spec => UnknownOutcomeStops
<1>1. Coherent /\ UnknownHeld /\ [Next]_vars =>
        [warning = "unknown" =>
           /\ warning' = "unknown" \/ start
           /\ {t.id : t \in {u \in tasks' : u.pc = "submit"}}
                \subseteq {t.id : t \in Submitting}]_vars
  BY UnknownStep DEF Submits, Submitting
<1> QED
  BY EngineInv, <1>1, PTL DEF Spec, UnknownOutcomeStops
=============================================================================

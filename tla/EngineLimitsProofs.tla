-------------------------- MODULE EngineLimitsProofs --------------------------
(***************************************************************************)
(* Proofs about ClaimsEngine: whatever handlers and calls interleave, each *)
(* kind of work stays within its limit.  The limits are tested by the      *)
(* coordinator (or, for a winner, by its own capture) in the turn that     *)
(* adds the task; every other step has to be shown to add none.            *)
(***************************************************************************)
EXTENDS ClaimsEngineProofs, FunctionTheorems, FiniteSetTheorems

Held(ts, pc) == {t \in ts : t.pc = pc}
Linked(ts)   == {t \in ts : t.conn}

\* A finite set of tasks T uses no more of any limit than S.
Under(T, S) ==
  /\ IsFiniteSet(T)
  /\ Cardinality(Held(T, "submit")) <= Cardinality(Held(S, "submit"))
  /\ Cardinality(Held(T, "prepare")) <= Cardinality(Held(S, "prepare"))
  /\ Cardinality(Linked(T)) <= Cardinality(Linked(S))

\* Tasks within the limits.
Fit(ts) ==
  /\ IsFiniteSet(ts)
  /\ Cardinality(Held(ts, "submit")) <= MaxSubmitting
  /\ Cardinality(Held(ts, "prepare")) <= MaxPreparing
  /\ Cardinality(Linked(ts)) <= Concurrency

-----------------------------------------------------------------------------
(* Sets of tasks.                                                          *)

\* An image has at most as many elements.
LEMMA Images ==
  ASSUME NEW S, IsFiniteSet(S), NEW f, NEW T, T \subseteq {f[t] : t \in S}
  PROVE  IsFiniteSet(T) /\ Cardinality(T) <= Cardinality(S)
<1>. DEFINE g == [t \in S |-> f[t]]
            R == {f[t] : t \in S}
<1>1. g \in Surjection(S, R)
  BY DEF Surjection
<1>2. IsFiniteSet(R) /\ Cardinality(R) <= Cardinality(S)
  BY <1>1, FS_Surjection
<1>3. IsFiniteSet(T) /\ Cardinality(T) <= Cardinality(R)
  BY <1>2, FS_Subset
<1>. QED BY <1>2, <1>3, FS_CardinalityType

LEMMA Parts ==
  ASSUME NEW ts, IsFiniteSet(ts)
  PROVE  /\ \A pc : IsFiniteSet(Held(ts, pc)) /\ Cardinality(Held(ts, pc)) \in Nat
         /\ IsFiniteSet(Linked(ts)) /\ Cardinality(Linked(ts)) \in Nat
<1>1. \A pc : IsFiniteSet(Held(ts, pc))
  BY FS_Subset DEF Held
<1>2. IsFiniteSet(Linked(ts))
  BY FS_Subset DEF Linked
<1>. QED BY <1>1, <1>2, FS_CardinalityType

\* Rewriting tasks without touching their place or their connection adds none.
LEMMA UnderImage ==
  ASSUME NEW S, IsFiniteSet(S), NEW f, NEW T, T \subseteq {f[t] : t \in S},
         \A t \in S : f[t].pc = t.pc /\ f[t].conn = t.conn
  PROVE  Under(T, S)
<1>1. \A pc : Held(T, pc) \subseteq {f[t] : t \in Held(S, pc)}
  BY DEF Held
<1>2. Linked(T) \subseteq {f[t] : t \in Linked(S)}
  BY DEF Linked
<1>3. \A pc : Cardinality(Held(T, pc)) <= Cardinality(Held(S, pc))
  BY <1>1, Images, Parts
<1>4. Cardinality(Linked(T)) <= Cardinality(Linked(S))
  BY <1>2, Images, Parts
<1>5. IsFiniteSet(T)
  BY Images
<1>. QED BY <1>3, <1>4, <1>5 DEF Under

LEMMA UnderSubset ==
  ASSUME NEW S, IsFiniteSet(S), NEW T, T \subseteq S
  PROVE  Under(T, S)
<1>. DEFINE f == [t \in S |-> t]
<1>1. T \subseteq {f[t] : t \in S} /\ \A t \in S : f[t].pc = t.pc /\ f[t].conn = t.conn
  OBVIOUS
<1>. HIDE DEF f
<1>. QED BY <1>1, UnderImage

LEMMA UnderUnder ==
  ASSUME NEW R, NEW S, NEW T, IsFiniteSet(R), Under(S, R), Under(T, S)
  PROVE  Under(T, R)
<1>1. IsFiniteSet(S) /\ IsFiniteSet(T)
  BY DEF Under
<1>2. /\ Cardinality(Held(R, "submit")) \in Nat /\ Cardinality(Held(S, "submit")) \in Nat
      /\ Cardinality(Held(T, "submit")) \in Nat
      /\ Cardinality(Held(R, "prepare")) \in Nat /\ Cardinality(Held(S, "prepare")) \in Nat
      /\ Cardinality(Held(T, "prepare")) \in Nat
      /\ Cardinality(Linked(R)) \in Nat /\ Cardinality(Linked(S)) \in Nat
      /\ Cardinality(Linked(T)) \in Nat
  BY <1>1, Parts
<1>. QED BY <1>2 DEF Under

LEMMA UnderFits ==
  ASSUME NEW S, NEW T, Fit(S), Under(T, S)
  PROVE  Fit(T)
<1>1. IsFiniteSet(S) /\ IsFiniteSet(T)
  BY DEF Fit, Under
<1>2. /\ Cardinality(Held(S, "submit")) \in Nat /\ Cardinality(Held(T, "submit")) \in Nat
      /\ Cardinality(Held(S, "prepare")) \in Nat /\ Cardinality(Held(T, "prepare")) \in Nat
      /\ Cardinality(Linked(S)) \in Nat /\ Cardinality(Linked(T)) \in Nat
  BY <1>1, Parts
<1>3. MaxSubmitting \in Nat /\ MaxPreparing \in Nat /\ Concurrency \in Nat
  BY EngineAssumption
<1>. QED BY <1>1, <1>2, <1>3 DEF Fit, Under

\* Aborting, orphaning and halting rewrite tasks.
LEMMA UnderAbort ==
  ASSUME NEW ts, ts \subseteq Task, IsFiniteSet(ts), NEW S
  PROVE  Under(Abort(ts, S), ts)
<1>. DEFINE f == [t \in ts |-> IF t \in S THEN [t EXCEPT !.aborted = TRUE] ELSE t]
<1>1. Abort(ts, S) \subseteq {f[t] : t \in ts}
  BY DEF Abort
<1>2. \A t \in ts : f[t].pc = t.pc /\ f[t].conn = t.conn
  BY DEF Task
<1>. HIDE DEF f
<1>. QED BY <1>1, <1>2, UnderImage

LEMMA UnderOrphan ==
  ASSUME NEW ts, ts \subseteq Task, IsFiniteSet(ts), NEW K
  PROVE  Under(Orphan(ts, K), ts)
<1>. DEFINE f == [t \in ts |-> IF t.key \in K THEN [t EXCEPT !.orphan = TRUE] ELSE t]
<1>1. Orphan(ts, K) \subseteq {f[t] : t \in ts}
  BY DEF Orphan
<1>2. \A t \in ts : f[t].pc = t.pc /\ f[t].conn = t.conn
  BY DEF Task
<1>. HIDE DEF f
<1>. QED BY <1>1, <1>2, UnderImage

LEMMA UnderStale ==
  ASSUME NEW ts, ts \subseteq Task, IsFiniteSet(ts)
  PROVE  Under(Stale(ts), ts)
<1>. DEFINE f == [t \in ts |-> [t EXCEPT !.aborted = TRUE, !.current = FALSE]]
<1>1. Stale(ts) \subseteq {f[t] : t \in ts}
  BY DEF Stale
<1>2. \A t \in ts : f[t].pc = t.pc /\ f[t].conn = t.conn
  BY DEF Task
<1>. HIDE DEF f
<1>. QED BY <1>1, <1>2, UnderImage

LEMMA UnderRemoved ==
  ASSUME tasks \subseteq Task, IsFiniteSet(tasks), NEW K
  PROVE  Under(Removed(K), tasks)
<1>. DEFINE S == {t \in tasks : t.key \in K /\
                    (t.conn \/ (~t.orphan /\ t.pc \in {"prepare", "submit"}))}
<1>1. Removed(K) = Orphan(Abort(tasks, S), K)
  BY DEF Removed
<1>. HIDE DEF S
<1>2. Abort(tasks, S) \subseteq Task /\ Under(Abort(tasks, S), tasks)
  BY AbortFacts, UnderAbort
<1>3. Under(Removed(K), Abort(tasks, S))
  BY <1>1, <1>2, UnderOrphan DEF Under
<1>. QED BY <1>2, <1>3, UnderUnder

\* A task that moves to a place without a limit.
LEMMA UnderTo ==
  ASSUME tasks \subseteq Task, IsFiniteSet(tasks), NEW t \in tasks,
         NEW pc, pc \notin {"submit", "prepare"}
  PROVE  Under(To(t, pc), tasks)
<1>. DEFINE x == [t EXCEPT !.pc = pc]
            f == [u \in tasks |-> IF u = t THEN x ELSE u]
<1>1. To(t, pc) = (tasks \ {t}) \cup {x}
  BY DEF To
<1>2. x.pc = pc /\ x.conn = t.conn
  BY DEF Task
<1>. HIDE DEF x
<1>3. To(t, pc) \subseteq {f[u] : u \in tasks} /\ \A u \in tasks : f[u].conn = u.conn
  BY <1>1, <1>2
<1>. HIDE DEF f
<1>4. Linked(To(t, pc)) \subseteq {f[u] : u \in Linked(tasks)}
  BY <1>3 DEF Linked
<1>5. /\ IsFiniteSet(To(t, pc))
      /\ Cardinality(Linked(To(t, pc))) <= Cardinality(Linked(tasks))
  BY <1>3, <1>4, Images, Parts
<1>6. \A q \in {"submit", "prepare"} : Held(To(t, pc), q) \subseteq Held(tasks, q)
  BY <1>1, <1>2 DEF Held
<1>7. \A q \in {"submit", "prepare"} : Cardinality(Held(To(t, pc), q)) <= Cardinality(Held(tasks, q))
  BY <1>6, Parts, FS_Subset
<1>. QED BY <1>5, <1>7 DEF Under

\* A task is added where there is room for it.
LEMMA FitAdd ==
  ASSUME NEW ts, Fit(ts), NEW x,
         x.pc = "submit" => Cardinality(Held(ts, "submit")) < MaxSubmitting,
         x.pc = "prepare" => Cardinality(Held(ts, "prepare")) < MaxPreparing,
         x.conn => Cardinality(Linked(ts)) < Concurrency
  PROVE  Fit(ts \cup {x})
<1>1. IsFiniteSet(ts) /\ IsFiniteSet(ts \cup {x})
  BY FS_AddElement DEF Fit
<1>2. MaxSubmitting \in Nat /\ MaxPreparing \in Nat /\ Concurrency \in Nat
  BY EngineAssumption
<1>3. ASSUME NEW q, NEW m \in Nat, Cardinality(Held(ts, q)) <= m,
             x.pc = q => Cardinality(Held(ts, q)) < m
      PROVE  Cardinality(Held(ts \cup {x}, q)) <= m
  <2>1. IsFiniteSet(Held(ts, q)) /\ Cardinality(Held(ts, q)) \in Nat
    BY <1>1, Parts
  <2>2. CASE x.pc = q
    <3>1. Held(ts \cup {x}, q) = Held(ts, q) \cup {x}
      BY <2>2 DEF Held
    <3>2. \/ Cardinality(Held(ts, q) \cup {x}) = Cardinality(Held(ts, q))
          \/ Cardinality(Held(ts, q) \cup {x}) = Cardinality(Held(ts, q)) + 1
      BY <2>1, FS_AddElement
    <3>. QED BY <1>3, <2>1, <2>2, <3>1, <3>2
  <2>3. CASE x.pc # q
    <3>1. Held(ts \cup {x}, q) = Held(ts, q)
      BY <2>3 DEF Held
    <3>. QED BY <1>3, <3>1
  <2>. QED BY <2>2, <2>3
<1>4. Cardinality(Linked(ts \cup {x})) <= Concurrency
  <2>1. IsFiniteSet(Linked(ts)) /\ Cardinality(Linked(ts)) \in Nat
    BY <1>1, Parts
  <2>2. CASE x.conn
    <3>1. Linked(ts \cup {x}) = Linked(ts) \cup {x}
      BY <2>2 DEF Linked
    <3>2. \/ Cardinality(Linked(ts) \cup {x}) = Cardinality(Linked(ts))
          \/ Cardinality(Linked(ts) \cup {x}) = Cardinality(Linked(ts)) + 1
      BY <2>1, FS_AddElement
    <3>. QED BY <1>2, <2>1, <2>2, <3>1, <3>2
  <2>3. CASE ~x.conn
    <3>1. Linked(ts \cup {x}) = Linked(ts)
      BY <2>3 DEF Linked
    <3>. QED BY <3>1 DEF Fit
  <2>. QED BY <2>2, <2>3
<1>5. Cardinality(Held(ts \cup {x}, "submit")) <= MaxSubmitting
  BY <1>2, <1>3 DEF Fit
<1>6. Cardinality(Held(ts \cup {x}, "prepare")) <= MaxPreparing
  BY <1>2, <1>3 DEF Fit
<1>. QED BY <1>1, <1>4, <1>5, <1>6 DEF Fit

-----------------------------------------------------------------------------
(* Tasks.                                                                  *)

LEMMA FitSubset ==
  ASSUME NEW ts, Fit(ts), NEW T, T \subseteq ts
  PROVE  Fit(T)
BY UnderSubset, UnderFits DEF Fit

LEMMA FitHalt ==
  ASSUME NEW ts, ts \subseteq Task, Fit(ts), NEW reason, Halt(reason, ts)
  PROVE  Fit(tasks')
<1>1. tasks' = ts \/ tasks' = Stale(ts)
  BY DEF Halt
<1>. QED BY <1>1, UnderStale, UnderFits DEF Fit

LEMMA FitFatal ==
  ASSUME NEW ts, ts \subseteq Task, Fit(ts), NEW unknown, fatal(unknown, ts)
  PROVE  Fit(tasks')
BY FitHalt DEF fatal

LEMMA FitNew ==
  ASSUME Fit(tasks), NEW pc, NEW k, NEW conn, NewTask(pc, k, conn),
         pc = "submit" => Cardinality(Submitting) < MaxSubmitting,
         pc = "prepare" => Cardinality(Preparing) < MaxPreparing,
         conn => Cardinality(Connections) < Concurrency
  PROVE  Fit(tasks')
<1>1. PICK i \in TaskIds :
        tasks' = tasks \cup {[id |-> i, pc |-> pc, key |-> k, conn |-> conn,
                              orphan |-> FALSE, aborted |-> FALSE, current |-> TRUE]}
  BY DEF NewTask
<1>2. /\ Submitting = Held(tasks, "submit") /\ Preparing = Held(tasks, "prepare")
      /\ Connections = Linked(tasks)
  BY DEF Submitting, Preparing, Connections, Held, Linked
<1>. DEFINE x == [id |-> i, pc |-> pc, key |-> k, conn |-> conn,
                  orphan |-> FALSE, aborted |-> FALSE, current |-> TRUE]
<1>3. x.pc = pc /\ x.conn = conn /\ tasks' = tasks \cup {x}
  BY <1>1
<1>. HIDE DEF x
<1>. QED BY <1>2, <1>3, FitAdd

\* The first verified proof submits in its own task, if a slot is free.
LEMMA FitProved ==
  ASSUME tasks \subseteq Task, Fit(tasks), NEW t \in tasks, proved(t)
  PROVE  Fit(tasks')
<1>. DEFINE others == tasks \ {t}
            rest == Abort(others, {u \in Own(t.key) \ {t} : u.conn})
            x == [t EXCEPT !.pc = "submit"]
<1>1. /\ Under(others, tasks) /\ others \subseteq Task /\ IsFiniteSet(others)
      /\ IsFiniteSet(tasks)
  BY UnderSubset DEF Fit, Under
<1>2. Under(rest, others)
  BY <1>1, UnderAbort
<1>3. Fit(rest)
  BY <1>1, <1>2, UnderFits
<1>4. \/ tasks' = rest
      \/ tasks' = rest \cup {x} /\ Cardinality(Held(tasks, "submit")) < MaxSubmitting
  BY DEF proved, Submitting, Held
<1>5. x.pc = "submit" /\ x.conn = t.conn
  BY DEF Task
<1>6. /\ IsFiniteSet(rest) /\ MaxSubmitting \in Nat /\ Concurrency \in Nat
  BY <1>3, EngineAssumption DEF Fit
<1>. HIDE DEF rest, x
<1>7. ASSUME Cardinality(Held(tasks, "submit")) < MaxSubmitting
      PROVE  Cardinality(Held(rest, "submit")) < MaxSubmitting
  <2>1. /\ Cardinality(Held(rest, "submit")) \in Nat /\ Cardinality(Held(others, "submit")) \in Nat
        /\ Cardinality(Held(tasks, "submit")) \in Nat
    BY <1>1, <1>6, Parts
  <2>. QED BY <1>1, <1>2, <1>6, <1>7, <2>1 DEF Under
<1>8. ASSUME t.conn PROVE Cardinality(Linked(rest)) < Concurrency
  <2>1. Linked(others) = Linked(tasks) \ {t} /\ t \in Linked(tasks)
    BY <1>8 DEF Linked
  <2>2. IsFiniteSet(Linked(tasks)) /\ Cardinality(Linked(tasks)) \in Nat
        /\ Cardinality(Linked(rest)) \in Nat
    BY <1>1, <1>6, Parts
  <2>3. Cardinality(Linked(others)) = Cardinality(Linked(tasks)) - 1
    BY <2>1, <2>2, FS_RemoveElement
  <2>. QED BY <1>2, <1>6, <2>2, <2>3 DEF Under, Fit
<1>. QED BY <1>3, <1>4, <1>5, <1>7, <1>8, FitAdd

LEMMA FitStep ==
  ASSUME TypeOK, Fit(tasks), [Next]_vars
  PROVE  Fit(tasks')
<1>0. tasks \subseteq Task /\ IsFiniteSet(tasks)
  BY DEF TypeOK, TasksTyped, Fit
<1>1. CASE UNCHANGED vars \/ start \/ resume \/ halted \/ timer \/ pumpBegins \/ pumpStale
           \/ retriesDone \/ rebuild \/ pumpWaits
  BY <1>1 DEF vars, start, resume, halted, timer, pumpBegins, pumpStale, retriesDone, rebuild, pumpWaits
<1>2. CASE stop \/ suspend
  BY <1>0, <1>2, FitHalt DEF stop, suspend
<1>3. CASE onFailure
  BY <1>0, <1>3, FitFatal DEF onFailure
<1>4. ASSUME NEW k \in Keys, remove(k) PROVE Fit(tasks')
  BY <1>0, <1>4, UnderRemoved, UnderFits DEF remove
<1>5. ASSUME NEW k \in Keys, retire(k) PROVE Fit(tasks')
  BY <1>0, <1>5, UnderAbort, UnderFits DEF retire
<1>6. ASSUME NEW p \in BOOLEAN, clear(p) PROVE Fit(tasks')
  <2>1. Abort(tasks, tasks) \subseteq Task /\ Fit(Abort(tasks, tasks))
    BY <1>0, AbortFacts, UnderAbort, UnderFits
  <2>2. Under(Orphan(Abort(tasks, tasks), Keys), Abort(tasks, tasks))
    BY <2>1, UnderOrphan DEF Fit
  <2>. QED BY <1>6, <2>1, <2>2, UnderFits DEF clear
<1>7. ASSUME NEW listed \in SUBSET Keys, NEW available \in SUBSET listed,
             publish(listed, available)
      PROVE  Fit(tasks')
  <2>1. PICK K : tasks' = Removed(K)
    BY <1>7 DEF publish
  <2>. QED BY <1>0, <2>1, UnderRemoved, UnderFits
<1>8. ASSUME NEW k \in Keys, due(k) \/ parkPrepare(k) \/ parkDns(k) PROVE Fit(tasks')
  BY <1>8 DEF due, parkPrepare, parkDns
<1>9. ASSUME NEW d \in Domains, expires(d) PROVE Fit(tasks')
  BY <1>9 DEF expires
<1>10. ASSUME NEW k \in Keys, retrySubmission(k) \/ prepareJob(k) \/ resolveJob(k) PROVE Fit(tasks')
  BY <1>10, FitNew DEF retrySubmission, prepareJob, resolveJob
<1>11. ASSUME NEW k \in Keys, dispatch(k) PROVE Fit(tasks')
  <2>1. Cardinality(Connections) < Concurrency
    <3>1. Cardinality(Connections) \in Nat /\ Concurrency \in Nat
      BY <1>0, Parts, EngineAssumption DEF Connections, Linked
    <3>2. ~(Cardinality(Connections) >= Concurrency)
      BY <1>11 DEF dispatch, Picks, Full
    <3>. QED BY <3>1, <3>2
  <2>. QED BY <1>11, <2>1, FitNew DEF dispatch
<1>12. ASSUME NEW t \in tasks, prepareSucceeds(t) \/ prepareFails(t) \/ prepareCancelled(t)
       PROVE  Fit(tasks')
  BY <1>12, FitSubset DEF prepareSucceeds, prepareFails, prepareCancelled, PrepareEnds, Forget
<1>13. ASSUME NEW t \in tasks, dnsSettles(t) \/ submitRejected(t) \/ submitCancelled(t)
       PROVE  Fit(tasks')
  BY <1>13, FitSubset DEF dnsSettles, DnsEnds, submitRejected, submitCancelled, Forget
<1>14. ASSUME NEW t \in tasks, captureCancelled(t) \/ budgetBlocked(t) \/ notStarted(t)
                               \/ missed(t) \/ pauseEnds(t)
       PROVE  Fit(tasks')
  BY <1>14, FitSubset
     DEF captureCancelled, budgetBlocked, notStarted, missed, pauseEnds, CaptureEnds, Forget
<1>15. ASSUME NEW t \in tasks, onStarted(t) \/ observe(t) \/ failed(t) PROVE Fit(tasks')
  <2>1. PICK pc \in {"tls", "failed", "captured", "pause"} : tasks' = To(t, pc)
    BY <1>15 DEF onStarted, observe, failed
  <2>2. pc \notin {"submit", "prepare"}
    BY <2>1
  <2>3. Under(To(t, pc), tasks)
    BY <1>0, <2>2, UnderTo
  <2>. QED BY <2>1, <2>3, UnderFits
<1>16. ASSUME NEW t \in tasks, proved(t) PROVE Fit(tasks')
  BY <1>0, <1>16, FitProved
<1>17. ASSUME NEW t \in tasks, submitSucceeds(t) PROVE Fit(tasks')
  <2>1. Fit(tasks \ {t}) /\ tasks \ {t} \subseteq Task
    BY <1>0, FitSubset
  <2>2. Under(Orphan(tasks \ {t}, {t.key}), tasks \ {t})
    BY <2>1, UnderOrphan DEF Fit
  <2>. QED BY <1>17, <2>1, <2>2, UnderFits DEF submitSucceeds
<1>18. ASSUME NEW t \in tasks, submitUnknown(t) PROVE Fit(tasks')
  <2>1. Fit(tasks \ {t}) /\ tasks \ {t} \subseteq Task
    BY <1>0, FitSubset
  <2>. QED BY <1>18, <2>1, FitFatal DEF submitUnknown
<1>. QED
  BY <1>1, <1>2, <1>3, <1>4, <1>5, <1>6, <1>7, <1>8, <1>9, <1>10, <1>11, <1>12, <1>13, <1>14,
     <1>15, <1>16, <1>17, <1>18 DEF Next, wallet, pump, settles

-----------------------------------------------------------------------------
(* DNS slots, prepared transactions and the queue.                         *)

Stocked ==
  /\ IsFiniteSet(resolving) /\ Cardinality(resolving) <= MaxResolving
  /\ Cardinality(proposals) <= MaxProposals
  /\ Cardinality(queued) <= MaxQueue

LEMMA Shrinks ==
  ASSUME NEW S, IsFiniteSet(S), NEW m \in Nat, Cardinality(S) <= m, NEW T, T \subseteq S
  PROVE  IsFiniteSet(T) /\ Cardinality(T) <= m
<1>1. IsFiniteSet(T) /\ Cardinality(T) <= Cardinality(S)
  BY FS_Subset
<1>2. Cardinality(S) \in Nat /\ Cardinality(T) \in Nat
  BY <1>1, FS_CardinalityType
<1>. QED BY <1>1, <1>2

LEMMA KeysFinite ==
  ASSUME NEW K, K \subseteq Keys
  PROVE  IsFiniteSet(K) /\ Cardinality(K) \in Nat
<1>1. IsFiniteSet(K)
  BY FS_Subset, EngineAssumption
<1>. QED BY <1>1, FS_CardinalityType

\* Only resolveJob takes a DNS slot.
LEMMA ResolvingStep ==
  ASSUME TypeOK, Stocked, [Next]_vars
  PROVE  IsFiniteSet(resolving') /\ Cardinality(resolving') <= MaxResolving
<1>0. IsFiniteSet(resolving) /\ Cardinality(resolving) \in Nat /\ MaxResolving \in Nat
  BY FS_CardinalityType, EngineAssumption DEF Stocked
<1>1. CASE resolving' \subseteq resolving
  BY <1>0, <1>1, Shrinks DEF Stocked
<1>2. CASE UNCHANGED vars \/ start \/ stop \/ suspend \/ resume \/ halted \/ timer \/ onFailure
           \/ (\E p \in BOOLEAN : clear(p)) \/ (\E k \in Keys : due(k) \/ remove(k) \/ retire(k))
           \/ \E d \in Domains : expires(d)
  BY <1>1, <1>2
     DEF vars, dnsVars, start, stop, suspend, resume, remove, retire, clear, halted, timer, onFailure,
         due, expires
<1>3. ASSUME NEW listed \in SUBSET Keys, NEW available \in SUBSET listed, publish(listed, available)
      PROVE  IsFiniteSet(resolving') /\ Cardinality(resolving') <= MaxResolving
  <2>1. resolving' \subseteq resolving
    BY <1>3 DEF publish
  <2>. QED BY <1>1, <2>1
<1>4. CASE pumpBegins \/ pumpStale \/ retriesDone \/ rebuild \/ pumpWaits
           \/ \E k \in Keys : retrySubmission(k) \/ prepareJob(k) \/ parkPrepare(k)
                               \/ parkDns(k) \/ dispatch(k)
  BY <1>1, <1>4
     DEF dnsVars, pumpBegins, pumpStale, retriesDone, rebuild, pumpWaits, retrySubmission, prepareJob,
         parkPrepare, parkDns, dispatch
<1>5. ASSUME NEW k \in Keys, resolveJob(k)
      PROVE  IsFiniteSet(resolving') /\ Cardinality(resolving') <= MaxResolving
  <2>1. resolving' = resolving \cup {DomainOf[k]} /\ Cardinality(resolving) < MaxResolving
    BY <1>5 DEF resolveJob
  <2>2. /\ IsFiniteSet(resolving')
        /\ \/ Cardinality(resolving') = Cardinality(resolving)
           \/ Cardinality(resolving') = Cardinality(resolving) + 1
    BY <1>0, <2>1, FS_AddElement
  <2>. QED BY <1>0, <2>1, <2>2
<1>6. ASSUME NEW t \in tasks, settles(t)
      PROVE  IsFiniteSet(resolving') /\ Cardinality(resolving') <= MaxResolving
  <2>1. resolving' \subseteq resolving
    BY <1>6
       DEF dnsVars, settles, prepareSucceeds, prepareFails, prepareCancelled, PrepareEnds, dnsSettles,
           DnsEnds, onStarted, observe, captureCancelled, budgetBlocked, notStarted, missed, failed,
           pauseEnds, proved, submitSucceeds, submitRejected, submitCancelled, submitUnknown
  <2>. QED BY <1>1, <2>1
<1>. QED BY <1>2, <1>3, <1>4, <1>5, <1>6 DEF Next, pump, wallet

\* A transaction enters the full cache only where an idle one leaves it.
LEMMA ProposalsStep ==
  ASSUME TypeOK, Stocked, [Next]_vars
  PROVE  Cardinality(proposals') <= MaxProposals
<1>0. /\ IsFiniteSet(proposals) /\ Cardinality(proposals) \in Nat /\ MaxProposals \in Nat
  BY KeysFinite, EngineAssumption DEF TypeOK, MapsTyped
<1>1. CASE proposals' \subseteq proposals
  BY <1>0, <1>1, Shrinks DEF Stocked
<1>2. CASE UNCHANGED vars \/ start \/ stop \/ suspend \/ resume \/ halted \/ timer \/ onFailure
           \/ (\E p \in BOOLEAN : clear(p)) \/ (\E k \in Keys : due(k) \/ remove(k) \/ retire(k))
           \/ \E d \in Domains : expires(d)
  BY <1>1, <1>2
     DEF vars, keyVars, start, stop, suspend, resume, remove, retire, clear, halted, timer, onFailure,
         due, expires
<1>3. ASSUME NEW listed \in SUBSET Keys, NEW available \in SUBSET listed, publish(listed, available)
      PROVE  Cardinality(proposals') <= MaxProposals
  <2>1. proposals' \subseteq proposals
    BY <1>3 DEF publish
  <2>. QED BY <1>1, <2>1
<1>4. CASE pump
  BY <1>1, <1>4
     DEF pump, keyVars, pumpBegins, pumpStale, retriesDone, rebuild, pumpWaits, retrySubmission,
         prepareJob, parkPrepare, resolveJob, parkDns, dispatch
<1>5. ASSUME NEW t \in tasks, prepareSucceeds(t)
      PROVE  Cardinality(proposals') <= MaxProposals
  <2>. DEFINE k == t.key
  <2>1. CASE NoRoom(k)
    <3>1. PICK o \in proposals : proposals' = (proposals \ {o}) \cup {k}
      BY <1>5, <2>1 DEF prepareSucceeds
    <3>2. /\ IsFiniteSet(proposals \ {o})
          /\ Cardinality(proposals \ {o}) = Cardinality(proposals) - 1
      BY <1>0, FS_RemoveElement
    <3>3. \/ Cardinality(proposals') = Cardinality(proposals) - 1
          \/ Cardinality(proposals') = Cardinality(proposals)
      <4>1. \/ Cardinality(proposals') = Cardinality(proposals \ {o})
            \/ Cardinality(proposals') = Cardinality(proposals \ {o}) + 1
        BY <3>1, <3>2, FS_AddElement
      <4>. QED BY <1>0, <3>2, <4>1
    <3>. QED BY <1>0, <3>3 DEF Stocked
  <2>2. CASE ~NoRoom(k)
    <3>1. proposals' = proposals \cup {k}
      BY <1>5, <2>2 DEF prepareSucceeds
    <3>2. k \in proposals \/ Cardinality(proposals) < MaxProposals
      BY <1>0, <2>2 DEF NoRoom
    <3>3. Cardinality(proposals') = IF k \in proposals THEN Cardinality(proposals)
                                                       ELSE Cardinality(proposals) + 1
      BY <1>0, <3>1, FS_AddElement
    <3>. QED BY <1>0, <3>2, <3>3 DEF Stocked
  <2>. QED BY <2>1, <2>2
<1>6. ASSUME NEW t \in tasks, settles(t), ~prepareSucceeds(t)
      PROVE  Cardinality(proposals') <= MaxProposals
  <2>1. proposals' \subseteq proposals
    BY <1>6
       DEF keyVars, settles, prepareFails, prepareCancelled, dnsSettles, DnsEnds, onStarted, observe,
           captureCancelled, budgetBlocked, notStarted, missed, failed, pauseEnds, proved,
           submitSucceeds, submitRejected, submitCancelled, submitUnknown
  <2>. QED BY <1>1, <2>1
<1>. QED BY <1>2, <1>3, <1>4, <1>5, <1>6 DEF Next, wallet

\* A publication fills the room that the protected jobs leave.
LEMMA PublishFits ==
  ASSUME TypeOK, Stocked, NEW listed \in SUBSET Keys, NEW available \in SUBSET listed,
         publish(listed, available)
  PROVE  Cardinality(queued') <= MaxQueue
<1>1. PICK S, F, P, X \in SUBSET Keys :
        /\ S \subseteq queued /\ P \subseteq S /\ queued' = (S \cap (P \cup X)) \cup (X \cap F)
        /\ F = {} => X \subseteq S
        /\ F # {} => Cardinality(X) = Room(P) \/ Cardinality(X) < Room(P)
  <2>. DEFINE live == {t.key : t \in tasks}
              gone == Keys \ (available \cup ((retired \cap live) \ listed))
              keep == listed \cup live
              stay == queued \ gone
              proof == (proofs \ gone) \cap keep
              over == overBudget \cap keep
              protected == Protected(stay, proof)
              fresh == Admissible(available, stay, proof, over)
              candidates == fresh \cup (stay \ (protected \cup retired \cup winners \cup over))
              room == Room(protected)
  <2>1. /\ stay \subseteq queued /\ fresh \subseteq Keys /\ protected \subseteq stay
        /\ stay \subseteq Keys
    BY DEF Admissible, Protected, TypeOK, JobsTyped
  <2>2. PICK selected \in IF fresh = {} THEN {stay \ protected} ELSE SUBSET candidates :
          /\ queued' = (stay \cap (protected \cup selected)) \cup (selected \cap fresh)
          /\ fresh # {} =>
               Cardinality(selected) = room \/ (selected = candidates /\ Cardinality(selected) < room)
    BY DEF publish
  <2>. HIDE DEF stay, protected, fresh
  <2>3. selected \subseteq Keys /\ (fresh = {} => selected \subseteq stay)
    BY <2>1, <2>2
  <2>. QED BY <2>1, <2>2, <2>3
<1>2. /\ Cardinality(queued) \in Nat /\ IsFiniteSet(queued) /\ Cardinality(queued) <= MaxQueue
      /\ MaxQueue \in Nat /\ queued \subseteq Keys
  BY KeysFinite, EngineAssumption DEF Stocked, TypeOK, JobsTyped
<1>3. CASE queued' \subseteq queued
  BY <1>2, <1>3, Shrinks
<1>4. CASE ~(queued' \subseteq queued)
  <2>1. F # {} /\ X # {} /\ queued' \subseteq P \cup X
    BY <1>1, <1>4
  <2>2. /\ IsFiniteSet(P) /\ IsFiniteSet(X) /\ IsFiniteSet(P \cup X)
        /\ Cardinality(P) \in Nat /\ Cardinality(X) \in Nat
        /\ Cardinality(P \cup X) \in Nat
        /\ Cardinality(P \cap X) \in Nat
    BY <1>1, <1>2, KeysFinite
  <2>3. Cardinality(X) # 0
    BY <2>1, <2>2, FS_EmptySet
  <2>4. Cardinality(X) + Cardinality(P) <= MaxQueue
    BY <1>1, <1>2, <2>1, <2>2, <2>3 DEF Room
  <2>5. Cardinality(P \cup X)
          = Cardinality(P) + Cardinality(X) - Cardinality(P \cap X)
    BY <2>2, FS_Union
  <2>6. Cardinality(P \cup X) <= MaxQueue
    BY <1>2, <2>2, <2>4, <2>5
  <2>. QED BY <1>2, <2>1, <2>2, <2>6, Shrinks
<1>. QED BY <1>3, <1>4

LEMMA QueuedStep ==
  ASSUME TypeOK, Stocked, [Next]_vars
  PROVE  Cardinality(queued') <= MaxQueue
<1>0. /\ IsFiniteSet(queued) /\ Cardinality(queued) \in Nat /\ MaxQueue \in Nat
  BY KeysFinite, EngineAssumption DEF TypeOK, JobsTyped
<1>1. CASE queued' \subseteq queued
  BY <1>0, <1>1, Shrinks DEF Stocked
<1>2. ASSUME NEW listed \in SUBSET Keys, NEW available \in SUBSET listed, publish(listed, available)
      PROVE  Cardinality(queued') <= MaxQueue
  BY <1>2, PublishFits
<1>3. CASE UNCHANGED vars \/ start \/ stop \/ suspend \/ resume \/ halted \/ timer \/ onFailure
           \/ (\E p \in BOOLEAN : clear(p)) \/ (\E k \in Keys : due(k) \/ remove(k) \/ retire(k))
           \/ \E d \in Domains : expires(d)
  BY <1>1, <1>3
     DEF vars, jobVars, start, stop, suspend, resume, remove, retire, clear, halted, timer, onFailure,
         due, expires, Dequeue
<1>4. CASE pump
  BY <1>1, <1>4
     DEF pump, jobVars, pumpBegins, pumpStale, retriesDone, rebuild, pumpWaits, retrySubmission,
         prepareJob, parkPrepare, resolveJob, parkDns, dispatch
<1>5. ASSUME NEW t \in tasks, settles(t)
      PROVE  Cardinality(queued') <= MaxQueue
  <2>1. queued' \subseteq queued
    BY <1>5
       DEF jobVars, settles, prepareSucceeds, prepareFails, prepareCancelled, PrepareEnds, dnsSettles,
           DnsEnds, onStarted, observe, captureCancelled, budgetBlocked, notStarted, missed, failed,
           pauseEnds, proved, submitSucceeds, submitRejected, submitCancelled, submitUnknown, Dequeue
  <2>. QED BY <1>1, <2>1
<1>. QED BY <1>2, <1>3, <1>4, <1>5 DEF Next, wallet

-----------------------------------------------------------------------------
(* The theorem.                                                            *)

LEMMA LimitsHold == Spec => [](Fit(tasks) /\ Stocked)
<1>1. Init => Fit(tasks) /\ Stocked
  <2>. SUFFICES ASSUME Init PROVE Fit(tasks) /\ Stocked
    OBVIOUS
  <2>1. /\ tasks = {} /\ resolving = {} /\ proposals = {} /\ queued = {}
        /\ Held(tasks, "submit") = {} /\ Held(tasks, "prepare") = {} /\ Linked(tasks) = {}
    BY DEF Init, Held, Linked
  <2>2. /\ {Concurrency, MaxSubmitting, MaxPreparing, MaxResolving, MaxProposals, MaxQueue} \subseteq Nat
    BY EngineAssumption
  <2>. QED BY <2>1, <2>2, FS_EmptySet DEF Fit, Stocked
<1>2. Coherent /\ (Fit(tasks) /\ Stocked) /\ [Next]_vars => (Fit(tasks) /\ Stocked)'
  BY FitStep, ResolvingStep, ProposalsStep, QueuedStep DEF Coherent, Stocked
<1>. QED BY <1>1, <1>2, EngineInv, PTL DEF Spec

\* Connections, preparations, DNS lookups, submissions, prepared transactions and
\* queued jobs stay within their limits, for any limits and any interleaving of
\* the coordinator, the captures that submit in their own task and the calls of
\* the wallet (pump, dispatch and cachePrepared of claims-engine.mjs).
THEOREM LimitsKept == Spec => []WithinLimits
<1>1. Fit(tasks) /\ Stocked => WithinLimits
  BY DEF Fit, Stocked, Held, Linked, WithinLimits, Submitting, Preparing, Connections
<1>. QED BY <1>1, LimitsHold, PTL
=============================================================================

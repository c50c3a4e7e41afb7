------------------------- MODULE EnginePlacesProofs -------------------------
(***************************************************************************)
(* Proofs about ClaimsEngine: a verified proof is never lost on the way to *)
(* its submission, nor the place of its bounty in the queue.  Both are     *)
(* properties of steps, so the proofs go through the actions that write    *)
(* the proofs or the queue.                                                *)
(***************************************************************************)
EXTENDS ClaimsEngineProofs

\* A bounty that has been claimed is neither queued nor has a proof left.
ClaimedOnce == completed \cap (queued \cup proofs) = {}

Inv == Coherent /\ Kept /\ UnknownHeld /\ ClaimedOnce

-----------------------------------------------------------------------------
(* What a step does to the proofs and to the queue.                        *)

\* Steps that no submission, capture or call of the wallet makes.
LEMMA QuietSteps ==
  ASSUME \/ UNCHANGED vars \/ pump \/ halted \/ timer \/ onFailure
         \/ start \/ stop \/ suspend \/ resume
         \/ \E k \in Keys : due(k)
         \/ \E d \in Domains : expires(d)
         \/ \E t \in tasks : onStarted(t) \/ observe(t) \/ failed(t)
  PROVE  UNCHANGED <<queued, proofs, completed>>
BY DEF vars, jobVars, keyVars, start, stop, suspend, resume, halted, timer, onFailure, due,
   expires, pump, pumpBegins, pumpStale, retriesDone, rebuild, pumpWaits, retrySubmission, prepareJob,
   parkPrepare, resolveJob, parkDns, dispatch, onStarted, observe, failed

\* A task that ends takes at most its retired job along.
LEMMA EndingSteps ==
  ASSUME NEW t \in tasks,
         \/ prepareSucceeds(t) \/ prepareFails(t) \/ prepareCancelled(t) \/ dnsSettles(t)
         \/ captureCancelled(t) \/ budgetBlocked(t) \/ notStarted(t) \/ missed(t) \/ pauseEnds(t)
         \/ submitUnknown(t)
  PROVE  queued' = queued \ Gone(t) /\ UNCHANGED <<proofs, completed>>
BY DEF Dequeue, keyVars, prepareSucceeds, prepareFails, prepareCancelled, PrepareEnds, dnsSettles,
   DnsEnds, captureCancelled, budgetBlocked, notStarted, missed, pauseEnds, submitUnknown

LEMMA ProvedSteps ==
  ASSUME NEW t \in tasks, proved(t)
  PROVE  /\ proofs' = proofs \cup {t.key} /\ ~t.orphan /\ UNCHANGED completed
         /\ queued' = queued \ Gone(t) \/ queued' = queued
BY DEF proved, Valid

\* A submission that ends without a broadcast.
LEMMA RejectedSteps ==
  ASSUME NEW t \in tasks, submitRejected(t) \/ submitCancelled(t)
  PROVE  /\ t \in Submitting /\ t \notin tasks'
         /\ proofs \ {t.key} \subseteq proofs' /\ proofs' \subseteq proofs
         /\ queued' = queued \ Gone(t) /\ UNCHANGED completed
BY DEF submitRejected, submitCancelled, GiveUp, Dequeue, Forget, Submitting

LEMMA SucceededSteps ==
  ASSUME Inv, NEW t \in tasks, submitSucceeds(t)
  PROVE  /\ t \in Submitting /\ t \notin tasks'
         /\ proofs' = proofs \ {t.key} /\ queued' = queued \ {t.key}
         /\ completed' \subseteq completed \cup {t.key}
<1>1. /\ t \in Submitting /\ proofs' = proofs \ {t.key} /\ queued' = queued \ {t.key}
      /\ completed' \subseteq completed \cup {t.key}
      /\ tasks' = Orphan(tasks \ {t}, {t.key})
  BY DEF submitSucceeds, Submitting, Dequeue
<1>2. ASSUME t \in tasks' PROVE FALSE
  <2>1. PICK u \in tasks \ {t} : t = IF u.key \in {t.key} THEN [u EXCEPT !.orphan = TRUE] ELSE u
    BY <1>1, <1>2 DEF Orphan
  <2>2. u \in Task
    BY DEF Inv, Coherent, TypeOK, TasksTyped
  <2>3. u.pc = t.pc /\ u.key = t.key
    BY <2>1, <2>2 DEF Task
  <2>. QED BY <1>1, <2>1, <2>3 DEF Inv, Kept, OneSubmission, Submitting
<1>. QED BY <1>1, <1>2

LEMMA RemoveSteps ==
  ASSUME NEW k, remove(k)
  PROVE  proofs' = proofs \ {k} /\ queued' = queued \ {k} /\ UNCHANGED completed
BY DEF remove, Dequeue

\* A retired bounty with no work in flight, thus no submission, leaves at once.
LEMMA RetireSteps ==
  ASSUME NEW k, retire(k)
  PROVE  /\ proofs \ {k} \subseteq proofs' /\ proofs' \subseteq proofs /\ UNCHANGED completed
         /\ queued' = queued \/ (queued' = queued \ {k} /\ k \notin proofs')
<1>1. CASE hasActive(k)
  BY <1>1 DEF retire
<1>2. CASE ~hasActive(k)
  <2>1. Own(k) = {}
    BY <1>2 DEF hasActive, Own
  <2>2. proofs' = proofs \ {k}
    BY <2>1 DEF retire
  <2>. QED BY <1>2, <2>2 DEF retire, Dequeue
<1>. QED BY <1>1, <1>2

LEMMA ClearSteps ==
  ASSUME TypeOK, NEW p \in BOOLEAN, clear(p)
  PROVE  queued' = {} /\ completed' = {} /\ (IF p THEN UNCHANGED proofs ELSE proofs' = {})
BY DEF clear, Dequeue, TypeOK, JobsTyped

\* A catalogue protects the queued proofs, and lets proofs go before newcomers.
LEMMA PublishSteps ==
  ASSUME NEW listed \in SUBSET Keys, NEW available \in SUBSET Keys, publish(listed, available)
  PROVE  /\ proofs' \subseteq proofs /\ UNCHANGED completed
         /\ \A k \in proofs \ proofs' : k \in Keys => k \notin available \/ k \notin listed
         /\ queued' \subseteq queued \cup (Keys \ completed)
         /\ \A k \in proofs' : k \in queued => k \in queued'
         /\ \A k \in proofs' :
              k \in available \ completed /\ k \notin queued \cup queued' /\ ~hasActive(k)
                => queued' \ queued \subseteq proofs
<1>. DEFINE live == {t.key : t \in tasks}
            gone == Keys \ (available \cup ((retired \cap live) \ listed))
            keep == listed \cup live
            stay == queued \ gone
            proof == (proofs \ gone) \cap keep
            over == overBudget \cap keep
            protected == Protected(stay, proof)
            fresh == Admissible(available, stay, proof, over)
            candidates == fresh \cup (stay \ (protected \cup retired \cup winners \cup over))
<1>1. /\ proofs' = proof /\ UNCHANGED completed
      /\ \E selected \in IF fresh = {} THEN {stay \ protected} ELSE SUBSET candidates :
           /\ fresh # {} => candidates \cap proof \subseteq selected \/ selected \subseteq proof
           /\ queued' = (stay \cap (protected \cup selected)) \cup (selected \cap fresh)
  BY DEF publish
<1>2. PICK selected \in IF fresh = {} THEN {stay \ protected} ELSE SUBSET candidates :
           /\ fresh # {} => candidates \cap proof \subseteq selected \/ selected \subseteq proof
           /\ queued' = (stay \cap (protected \cup selected)) \cup (selected \cap fresh)
  BY <1>1
<1>3. /\ proof \subseteq proofs /\ stay \subseteq queued
      /\ \A k \in stay \cap proof : k \in protected
      /\ \A k \in fresh : k \in available /\ k \notin completed
      /\ \A k \in available : k \notin stay \cup completed /\ ~hasActive(k) /\ k \in proof => k \in fresh
      /\ \A k \in proof : k \in queued => k \in stay
      /\ \A k \in proofs \ proof : k \in Keys => k \notin available \/ k \notin listed
  BY DEF Protected, Admissible
<1>. HIDE DEF live, gone, keep, stay, proof, over, protected, fresh
<1>4. queued' \subseteq queued \cup fresh
  BY <1>2, <1>3
<1>5. \A k \in proof : k \in queued => k \in queued'
  BY <1>2, <1>3
<1>6. ASSUME NEW k \in proof, k \in available \ completed, k \notin queued \cup queued', ~hasActive(k)
      PROVE  queued' \ queued \subseteq proofs
  <2>1. k \in fresh
    BY <1>3, <1>6
  <2>2. k \notin selected
    BY <1>2, <1>6, <2>1
  <2>3. selected \subseteq proof
    BY <1>2, <2>1, <2>2
  <2>. QED BY <1>2, <1>3, <2>3
<1>. QED BY <1>1, <1>3, <1>4, <1>5, <1>6

-----------------------------------------------------------------------------
(* The invariant.                                                          *)

\* The actions, by what they do to proofs and queue.
LEMMA Steps ==
  ASSUME [Next]_vars
  PROVE  \/ UNCHANGED <<queued, proofs, completed>>
         \/ \E k \in Keys : remove(k) \/ retire(k)
         \/ \E p \in BOOLEAN : clear(p)
         \/ \E listed \in SUBSET Keys : \E available \in SUBSET listed : publish(listed, available)
         \/ \E t \in tasks : queued' = queued \ Gone(t) /\ UNCHANGED <<proofs, completed>>
         \/ \E t \in tasks : proved(t) \/ submitSucceeds(t) \/ submitRejected(t) \/ submitCancelled(t)
<1>1. CASE UNCHANGED vars \/ pump
  BY <1>1, QuietSteps
<1>2. CASE wallet
  BY <1>2, QuietSteps DEF wallet
<1>3. CASE \/ halted \/ timer \/ onFailure
           \/ \E k \in Keys : due(k)
           \/ \E d \in Domains : expires(d)
  BY <1>3, QuietSteps
<1>4. ASSUME NEW t \in tasks, settles(t)
      PROVE  \/ UNCHANGED <<queued, proofs, completed>>
             \/ queued' = queued \ Gone(t) /\ UNCHANGED <<proofs, completed>>
             \/ proved(t) \/ submitSucceeds(t) \/ submitRejected(t) \/ submitCancelled(t)
  <2>1. CASE onStarted(t) \/ observe(t) \/ failed(t)
    BY <2>1, QuietSteps
  <2>. QED BY <1>4, <2>1, EndingSteps DEF settles
<1>. QED BY <1>1, <1>2, <1>3, <1>4 DEF Next

LEMMA ClaimedOnceStep ==
  ASSUME Inv, [Next]_vars
  PROVE  ClaimedOnce'
<1>. USE DEF ClaimedOnce
<1>0. ClaimedOnce /\ TypeOK
  BY DEF Inv, Coherent
<1>1. ASSUME NEW k \in Keys, remove(k) \/ retire(k) PROVE ClaimedOnce'
  BY <1>0, <1>1, RemoveSteps, RetireSteps
<1>2. ASSUME NEW p \in BOOLEAN, clear(p) PROVE ClaimedOnce'
  BY <1>0, <1>2, ClearSteps
<1>3. ASSUME NEW listed \in SUBSET Keys, NEW available \in SUBSET listed,
             publish(listed, available)
      PROVE  ClaimedOnce'
  BY <1>0, <1>3, PublishSteps
<1>4. ASSUME NEW t \in tasks, proved(t) PROVE ClaimedOnce'
  <2>1. t.key \in queued /\ ~t.orphan
    BY <1>4, ProvedSteps DEF Inv, Coherent, OneJobPerKey
  <2>. QED BY <1>0, <1>4, <2>1, ProvedSteps
<1>5. ASSUME NEW t \in tasks, submitSucceeds(t) PROVE ClaimedOnce'
  BY <1>0, <1>5, SucceededSteps
<1>6. ASSUME NEW t \in tasks, submitRejected(t) \/ submitCancelled(t) PROVE ClaimedOnce'
  BY <1>0, <1>6, RejectedSteps
<1>. QED BY <1>0, <1>1, <1>2, <1>3, <1>4, <1>5, <1>6, Steps

LEMMA InvHolds == Spec => []Inv
<1>1. Init => Inv
  BY InitHolds DEF Inv, ClaimedOnce, Init
<1>2. Inv /\ [Next]_vars => Inv'
  BY EngineStep, ClaimedOnceStep DEF Inv
<1>. QED BY <1>1, <1>2, PTL DEF Spec

-----------------------------------------------------------------------------
(* The theorems.                                                           *)

\* Only a settled submission, a wallet call or a catalogue without the bounty
\* takes a proof away.
LEMMA SurviveStep ==
  ASSUME Inv, [Next]_vars, NEW k \in proofs \ proofs'
  PROVE  ProofGivenUp(k)
<1>0. k \in Keys
  BY DEF Inv, Coherent, TypeOK, MapsTyped
<1>1. ASSUME NEW j \in Keys, remove(j) \/ retire(j) PROVE ProofGivenUp(k)
  BY <1>1, RemoveSteps, RetireSteps DEF ProofGivenUp
<1>2. ASSUME NEW p \in BOOLEAN, clear(p) PROVE ProofGivenUp(k)
  BY <1>2, ClearSteps DEF ProofGivenUp, Inv, Coherent
<1>3. ASSUME NEW listed \in SUBSET Keys, NEW available \in SUBSET listed,
             publish(listed, available)
      PROVE  ProofGivenUp(k)
  BY <1>0, <1>3, PublishSteps DEF ProofGivenUp
<1>4. ASSUME NEW t \in tasks, submitSucceeds(t) \/ submitRejected(t) \/ submitCancelled(t)
      PROVE  ProofGivenUp(k)
  <2>1. t \in Submitting /\ t.key = k /\ t \notin tasks'
    BY <1>4, SucceededSteps, RejectedSteps
  <2>. QED BY <2>1 DEF ProofGivenUp
<1>5. ~\E t \in tasks : proved(t)
  BY ProvedSteps
<1>. QED BY <1>1, <1>2, <1>3, <1>4, <1>5, Steps

\* A proof that stays keeps its bounty in the queue, or has it back first.
LEMMA PlacesStep ==
  ASSUME Inv, [Next]_vars, NEW k \in proofs \cap proofs'
  PROVE  /\ k \in queued \ retired => k \in queued' \/ clear(TRUE)
         /\ k \notin queued \cup queued' /\ ~hasActive(k) /\ ~(queued' \ queued \subseteq proofs) =>
              ~\E listed, available \in SUBSET Keys : k \in available /\ publish(listed, available)
<1>1. ASSUME NEW listed \in SUBSET Keys, NEW available \in SUBSET Keys, publish(listed, available),
             k \in available, k \notin queued \cup queued', ~hasActive(k)
      PROVE  queued' \ queued \subseteq proofs
  <2>1. k \notin completed
    BY DEF Inv, ClaimedOnce
  <2>. QED BY <1>1, <2>1, PublishSteps
<1>2. ASSUME k \in queued \ retired PROVE k \in queued' \/ clear(TRUE)
  <2>. DEFINE Goal == k \in queued' \/ clear(TRUE)
  <2>1. \A t \in tasks : k \notin Gone(t)
    BY <1>2 DEF Gone
  <2>2. ASSUME NEW j \in Keys, remove(j) \/ retire(j) PROVE Goal
    BY <1>2, <2>2, RemoveSteps, RetireSteps
  <2>3. ASSUME NEW p \in BOOLEAN, clear(p) PROVE Goal
    BY <2>3, ClearSteps DEF Inv, Coherent
  <2>4. ASSUME NEW listed \in SUBSET Keys, NEW available \in SUBSET listed,
               publish(listed, available)
        PROVE  Goal
    BY <1>2, <2>4, PublishSteps
  <2>5. ASSUME NEW t \in tasks, proved(t) \/ submitRejected(t) \/ submitCancelled(t) PROVE Goal
    BY <1>2, <2>1, <2>5, ProvedSteps, RejectedSteps
  <2>6. ASSUME NEW t \in tasks, submitSucceeds(t) PROVE Goal
    BY <1>2, <2>6, SucceededSteps
  <2>. QED BY <1>2, <2>1, <2>2, <2>3, <2>4, <2>5, <2>6, Steps
<1>. QED BY <1>1, <1>2

\* A verified proof is given up only by a settled submission, a wallet call, or
\* the end of a retired job (claims-engine.mjs:534-573).
THEOREM ProofsOutlive == Spec => ProofsSurvive
<1>1. Inv /\ [Next]_vars => [\A k \in proofs \ proofs' : ProofGivenUp(k)]_vars
  BY SurviveStep
<1>. QED BY <1>1, InvHolds, PTL DEF Spec, ProofsSurvive

\* A bounty with a verified proof keeps its place in the queue, or has it back
\* before any newcomer (claims-engine.mjs:200-208).
THEOREM PlacesOutlive == Spec => ProofsKeepPlaces
<1>. DEFINE Place(k) ==
  /\ k \in queued \ retired => k \in queued' \/ clear(TRUE)
  /\ k \notin queued \cup queued' /\ ~hasActive(k) /\ ~(queued' \ queued \subseteq proofs) =>
       ~\E listed, available \in SUBSET Keys : k \in available /\ publish(listed, available)
<1>1. Inv /\ [Next]_vars => [\A k \in proofs \cap proofs' : Place(k)]_vars
  BY PlacesStep
<1>. QED BY <1>1, InvHolds, PTL DEF Spec, ProofsKeepPlaces
=============================================================================

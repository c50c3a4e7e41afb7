------------------------ MODULE ClaimSchedulerProofs ------------------------
(***************************************************************************)
(* Proof that the index of ClaimScheduler, which is kept up by small       *)
(* changes, is always what a rebuild would make of the entries, for every  *)
(* set of bounties, domains, policies, priorities and rates.               *)
(***************************************************************************)
EXTENDS ClaimScheduler, FiniteSetTheorems, WellFoundedInduction, TLAPS

-----------------------------------------------------------------------------
(* Leaders, as functions of the priorities p and the rates r.              *)

ScoreIn(p, r, k) == p[k] * r[PolicyOf[k]]
Before(p, j, k) == Precedes(<<p[j], j>>, <<p[k], k>>)
OutranksIn(p, r, j, k) ==
  \/ ScoreIn(p, r, j) > ScoreIn(p, r, k)
  \/ ScoreIn(p, r, j) = ScoreIn(p, r, k) /\ Before(p, j, k)
FirstIn(p, K) == CHOOSE k \in K : \A j \in K \ {k} : Before(p, k, j)
RichestIn(p, r, K) == CHOOSE k \in K : \A j \in K \ {k} : OutranksIn(p, r, k, j)
CandidatesIn(p, K) == {FirstIn(p, {j \in K : PolicyOf[j] = PolicyOf[k]}) : k \in K}
LeaderIn(p, r, K, d) ==
  IF In(K, d) = {} THEN None ELSE RichestIn(p, r, CandidatesIn(p, In(K, d)))

\* What is asked of the leader e of the domain d, among the bounties K.
Leads(p, r, K, d, e) ==
  IF In(K, d) = {} THEN e = None
  ELSE e \in In(K, d) /\ \A k \in In(K, d) \ {e} : OutranksIn(p, r, e, k)

LEMMA FirstDef == \A K : First(K) = FirstIn(priority, K)
BY DEF First, FirstIn, Rank, Before

LEMMA CandidatesDef == \A K : Candidates(K) = CandidatesIn(priority, K)
BY FirstDef DEF Candidates, CandidatesIn

LEMMA RichestDef == \A K : Richest(K) = RichestIn(priority, rate, K)
BY DEF Richest, RichestIn, Outranks, OutranksIn, Score, ScoreIn, Rank, Before

LEMMA LeaderDef == \A K, d : Leader(K, d) = LeaderIn(priority, rate, K, d)
BY CandidatesDef, RichestDef DEF Leader, LeaderIn

LEMMA ActiveLeaderDef == \A d : Leader(active, d) = LeaderIn(priority, rate, active, d)
BY LeaderDef

LEMMA ActiveLeader == \A d : Leader(active, d)' = LeaderIn(priority', rate', active', d)
<1>1. (\A d : Leader(active, d) = LeaderIn(priority, rate, active, d))'
  BY ActiveLeaderDef, PTL
<1>. QED BY <1>1

LEMMA OutranksDef ==
  /\ \A j, k : Outranks(j, k) = OutranksIn(priority, rate, j, k)
  /\ \A j, k : Outranks(j, k)' = OutranksIn(priority', rate', j, k)
BY DEF Outranks, OutranksIn, Score, ScoreIn, Rank, Before

LEMMA Least ==
  ASSUME NEW T \in SUBSET Nat, T # {}
  PROVE  \E x \in T : \A y \in T : x <= y
<1>. DEFINE R == {p \in Nat \X Nat : p[1] < p[2]}
<1>1. OpToRel(<, Nat) = R
  BY DEF OpToRel
<1>2. IsWellFoundedOn(R, Nat)
  BY <1>1, NatLessThanWellFounded
<1>3. \A x, y \in Nat : y < x => <<y, x>> \in R
  OBVIOUS
<1>. HIDE DEF R
<1>4. PICK x \in T : \A y \in T : ~(<<y, x>> \in R)
  BY <1>2, WFMin
<1>5. ASSUME NEW y \in T
      PROVE  x <= y
  <2>1. x \in Nat /\ y \in Nat
    OBVIOUS
  <2>2. ~(<<y, x>> \in R)
    BY <1>4
  <2>3. ~(y < x)
    BY <1>3, <2>1, <2>2
  <2>. QED BY <2>1, <2>3
<1>. QED BY <1>5

\* A finite set has an element that every other one comes after.
LEMMA Highest ==
  ASSUME NEW S, IsFiniteSet(S), S # {}, NEW R,
         \A x, y \in S : x # y => <<x, y>> \in R \/ <<y, x>> \in R,
         \A x \in S : ~(<<x, x>> \in R),
         \A x, y, z \in S : <<x, y>> \in R /\ <<y, z>> \in R => <<x, z>> \in R
  PROVE  \E x \in S : \A y \in S \ {x} : <<x, y>> \in R
<1>. DEFINE above(x) == {y \in S : <<y, x>> \in R}
            T == {Cardinality(above(x)) : x \in S}
<1>0. \A x \in S : \A y : y \in above(x) <=> y \in S /\ <<y, x>> \in R
  OBVIOUS
<1>1. \A x \in S : IsFiniteSet(above(x)) /\ Cardinality(above(x)) \in Nat
  BY FS_Subset, FS_CardinalityType
<1>. HIDE DEF above
<1>2. T \in SUBSET Nat /\ T # {}
  BY <1>1
<1>3. PICK x \in S : \A y \in S : Cardinality(above(x)) <= Cardinality(above(y))
  <2>1. PICK n \in T : \A m \in T : n <= m
    BY <1>2, Least
  <2>. QED BY <2>1
<1>4. ASSUME NEW y \in S, <<y, x>> \in R
      PROVE  FALSE
  <2>1. above(y) \subseteq above(x) /\ y \in above(x) /\ y \notin above(y)
    BY <1>0, <1>4
  <2>2. Cardinality(above(y)) < Cardinality(above(x))
    <3>1. Cardinality(above(y)) <= Cardinality(above(x))
          /\ (Cardinality(above(y)) = Cardinality(above(x)) => above(y) = above(x))
      BY <1>1, <2>1, FS_Subset
    <3>. QED BY <1>1, <2>1, <3>1
  <2>3. Cardinality(above(x)) <= Cardinality(above(y))
    BY <1>3
  <2>. QED BY <1>1, <2>2, <2>3
<1>. QED BY <1>3, <1>4

-----------------------------------------------------------------------------
(* A leader outranks every other bounty of its domain.                     *)

LEMMA FirstIsFirst ==
  ASSUME NEW p \in [Keys -> Nat], NEW K \in SUBSET Keys, K # {}
  PROVE  FirstIn(p, K) \in K /\ \A j \in K \ {FirstIn(p, K)} : Before(p, FirstIn(p, K), j)
<1>. DEFINE R == {e \in Keys \X Keys : Before(p, e[1], e[2])}
<1>1. \A j, k \in Keys : <<j, k>> \in R <=> p[j] > p[k] \/ (p[j] = p[k] /\ j < k)
  BY DEF Before, Precedes
<1>2. \A k \in Keys : k \in Nat /\ p[k] \in Nat
  BY SchedulerAssumption
<1>3. IsFiniteSet(K)
  BY SchedulerAssumption, FS_Subset
<1>. HIDE DEF R
<1>4. \E k \in K : \A j \in K \ {k} : <<k, j>> \in R
  <2>1. \A j, k \in K : j # k => <<j, k>> \in R \/ <<k, j>> \in R
    BY <1>1, <1>2
  <2>2. \A k \in K : ~(<<k, k>> \in R)
    BY <1>1, <1>2
  <2>3. \A j, k, l \in K : <<j, k>> \in R /\ <<k, l>> \in R => <<j, l>> \in R
    BY <1>1, <1>2
  <2>. QED BY <1>3, <2>1, <2>2, <2>3, Highest
<1>5. \E k \in K : \A j \in K \ {k} : Before(p, k, j)
  BY <1>4 DEF R
<1>. QED BY <1>5 DEF FirstIn

LEMMA OutranksOrder ==
  ASSUME NEW p \in [Keys -> Nat], NEW r \in [Policies -> Nat]
  PROVE  /\ \A j, k \in Keys : j # k => OutranksIn(p, r, j, k) \/ OutranksIn(p, r, k, j)
         /\ \A k \in Keys : ~OutranksIn(p, r, k, k)
         /\ \A j, k, l \in Keys :
              OutranksIn(p, r, j, k) /\ OutranksIn(p, r, k, l) => OutranksIn(p, r, j, l)
<1>1. \A k \in Keys : k \in Nat /\ p[k] \in Nat /\ ScoreIn(p, r, k) \in Nat
  <2>1. \A k \in Keys : k \in Nat /\ p[k] \in Nat /\ r[PolicyOf[k]] \in Nat
    BY SchedulerAssumption
  <2>2. \A a, b \in Nat : a * b \in Nat
    OBVIOUS
  <2>. QED BY <2>1, <2>2 DEF ScoreIn
<1>2. \A j, k : OutranksIn(p, r, j, k) <=>
                  \/ ScoreIn(p, r, j) > ScoreIn(p, r, k)
                  \/ /\ ScoreIn(p, r, j) = ScoreIn(p, r, k)
                     /\ p[j] > p[k] \/ (p[j] = p[k] /\ j < k)
  BY DEF OutranksIn, Before, Precedes
<1>. QED BY <1>1, <1>2

\* Among bounties of one policy, the one of the highest priority outranks the others.
LEMMA FirstOutranks ==
  ASSUME NEW p \in [Keys -> Nat], NEW r \in [Policies -> Nat], NEW j \in Keys, NEW k \in Keys,
         PolicyOf[j] = PolicyOf[k], Before(p, j, k)
  PROVE  OutranksIn(p, r, j, k)
<1>1. p[j] \in Nat /\ p[k] \in Nat /\ r[PolicyOf[k]] \in Nat /\ p[j] >= p[k]
  BY SchedulerAssumption DEF Before, Precedes
<1>2. \A a, b, c \in Nat : a >= b => a * c >= b * c /\ a * c \in Nat /\ b * c \in Nat
  OBVIOUS
<1>3. ScoreIn(p, r, j) >= ScoreIn(p, r, k) /\ ScoreIn(p, r, j) \in Nat /\ ScoreIn(p, r, k) \in Nat
  BY <1>1, <1>2 DEF ScoreIn
<1>. QED BY <1>3 DEF OutranksIn

LEMMA LeaderLeads ==
  ASSUME NEW p \in [Keys -> Nat], NEW r \in [Policies -> Nat], NEW K \in SUBSET Keys, NEW d
  PROVE  Leads(p, r, K, d, LeaderIn(p, r, K, d))
<1>. DEFINE M == In(K, d)
            C == CandidatesIn(p, M)
            same(k) == {j \in M : PolicyOf[j] = PolicyOf[k]}
            R == {e \in Keys \X Keys : OutranksIn(p, r, e[1], e[2])}
<1>1. CASE M = {}
  BY <1>1 DEF Leads, LeaderIn
<1>2. CASE M # {}
  <2>0. M \subseteq Keys
    BY DEF In
  <2>1. \A k \in M : FirstIn(p, same(k)) \in same(k)
                     /\ \A j \in same(k) \ {FirstIn(p, same(k))} : Before(p, FirstIn(p, same(k)), j)
    <3>1. \A k \in M : same(k) \in SUBSET Keys /\ same(k) # {}
      BY <2>0
    <3>. HIDE DEF same
    <3>. QED BY <3>1, FirstIsFirst
  <2>2. C = {FirstIn(p, same(k)) : k \in M}
    BY DEF CandidatesIn
  <2>3. C \subseteq M /\ C # {}
    <3>1. \A k \in M : FirstIn(p, same(k)) \in M
      BY <2>1
    <3>. HIDE DEF same, M, C
    <3>. QED BY <1>2, <2>2, <3>1
  <2>4. \A k \in M : \E c \in C : c = k \/ OutranksIn(p, r, c, k)
    <3>. TAKE k \in M
    <3>1. FirstIn(p, same(k)) \in C
      BY <2>2
    <3>2. FirstIn(p, same(k)) = k \/ OutranksIn(p, r, FirstIn(p, same(k)), k)
      <4>. DEFINE c == FirstIn(p, same(k))
      <4>1. c \in Keys /\ k \in Keys /\ PolicyOf[c] = PolicyOf[k]
        BY <2>0, <2>1
      <4>2. c = k \/ Before(p, c, k)
        BY <2>1
      <4>. QED BY <4>1, <4>2, FirstOutranks
    <3>. QED BY <3>1, <3>2
  <2>5. \E c \in C : \A j \in C \ {c} : OutranksIn(p, r, c, j)
    <3>1. IsFiniteSet(C)
      BY <2>0, <2>3, SchedulerAssumption, FS_Subset
    <3>2. \A j, k \in Keys : <<j, k>> \in R <=> OutranksIn(p, r, j, k)
      OBVIOUS
    <3>. HIDE DEF R, C, M
    <3>3. /\ \A j, k \in C : j # k => <<j, k>> \in R \/ <<k, j>> \in R
          /\ \A k \in C : ~(<<k, k>> \in R)
          /\ \A j, k, l \in C : <<j, k>> \in R /\ <<k, l>> \in R => <<j, l>> \in R
      BY <2>0, <2>3, <3>2, OutranksOrder
    <3>4. \E c \in C : \A j \in C \ {c} : <<c, j>> \in R
      BY <2>3, <3>1, <3>3, Highest
    <3>. QED BY <2>0, <2>3, <3>2, <3>4
  <2>. DEFINE e == RichestIn(p, r, C)
  <2>6. e \in C /\ \A j \in C \ {e} : OutranksIn(p, r, e, j)
    BY <2>5 DEF RichestIn
  <2>7. LeaderIn(p, r, K, d) = e
    BY <1>2 DEF LeaderIn
  <2>8. \A k \in M \ {e} : OutranksIn(p, r, e, k)
    <3>. HIDE DEF e, C, M
    <3>. QED BY <2>0, <2>3, <2>4, <2>6, OutranksOrder
  <2>. QED BY <1>2, <2>3, <2>6, <2>7, <2>8 DEF Leads
<1>. QED BY <1>1, <1>2

-----------------------------------------------------------------------------
(* The inductive invariant.                                                *)

Typed ==
  /\ jobs \in [Keys -> {"absent", "unready", "ready", "barred"}] /\ entries \subseteq Keys
  /\ priority \in Rankings /\ rate \in Rates
  /\ gates \in [Domains -> {"open", "closed", "later"}]
  /\ domainGates \in [Domains -> {"open", "closed", "later", None}]
  /\ economic \in [Domains -> Keys \cup {None}]

\* Only ready jobs are allowed, and every entry belongs to a group.
Listed ==
  /\ \A k \in allowed : jobs[k] = "ready"
  /\ \A k \in entries : DomainOf[k] \in groups

\* Where entries and gates wait.
Sorted ==
  /\ active \subseteq allowed \ delayed /\ allowed \subseteq entries
  /\ waitingJobs \subseteq allowed /\ allowed \subseteq active \cup waitingJobs
  /\ {d \in groups : gates[d] = "later"} \subseteq waitingDomains

Led ==
  \A d \in Domains :
    /\ economic[d] # None => Open(d) /\ Leads(priority, rate, active, d, economic[d])
    /\ economic[d] = None => In(active, d) = {} \/ ~Open(d) \/ d \in waitingDomains

Inv == Typed /\ Listed /\ Sorted /\ Led

LEMMA NoneIsNoKey == None \notin Keys
BY SchedulerAssumption

LEMMA LedIndexed ==
  ASSUME Typed, Sorted, Led
  PROVE  Indexed
<1>1. ASSUME NEW d \in Domains, economic[d] # None
      PROVE  /\ Open(d) /\ economic[d] \in In(active, d)
             /\ \A k \in In(active, d) \ {economic[d]} : Outranks(economic[d], k)
  BY <1>1, OutranksDef DEF Led, Leads
<1>. QED BY <1>1 DEF Indexed, Led, Sorted

\* A refreshed domain has its leader again; the others must not have changed.
LEMMA Refreshed ==
  ASSUME Typed, Led, NEW D, refreshGroup(D), UNCHANGED <<priority, rate>>,
         active' \subseteq entries', entries' \subseteq Keys,
         \A k \in entries' : DomainOf[k] \in groups',
         \A d \in Domains \ D :
           /\ In(active', d) = In(active, d) /\ gates'[d] = gates[d]
           /\ d \in groups' <=> d \in groups
           /\ d \in waitingDomains' <=> d \in waitingDomains
  PROVE  economic' \in [Domains -> Keys \cup {None}] /\ Led'
<1>. DEFINE e(d) == IF d \notin D THEN economic[d]
                    ELSE IF gates'[d] = "open" THEN Leader(active', d) ELSE None
            open(d) == d \in groups' /\ gates'[d] = "open"
            led(d) ==
              /\ economic'[d] # None =>
                   open(d) /\ Leads(priority', rate', active', d, economic'[d])
              /\ economic'[d] = None =>
                   In(active', d) = {} \/ ~open(d) \/ d \in waitingDomains'
<1>1. economic' = [d \in Domains |-> e(d)]
  BY DEF refreshGroup
<1>2. \A d : Leads(priority', rate', active', d, Leader(active', d))
  <2>1. priority \in [Keys -> Nat] /\ rate \in [Policies -> Nat] /\ active' \in SUBSET Keys
    BY SchedulerAssumption DEF Typed
  <2>. QED BY <2>1, LeaderLeads, LeaderDef
<1>3. \A d \in Domains : e(d) \in Keys \cup {None}
  BY <1>2 DEF Typed, Leads, In
<1>4. ASSUME NEW d \in Domains \ D
      PROVE  led(d)
  <2>1. economic'[d] = economic[d]
    BY <1>1
  <2>. QED BY <2>1 DEF Led, Leads, Open
<1>5. ASSUME NEW d \in Domains, d \in D
      PROVE  led(d)
  <2>1. CASE gates'[d] = "open"
    <3>1. economic'[d] = Leader(active', d)
      BY <1>1, <1>5, <2>1
    <3>2. In(active', d) # {} => d \in groups'
      BY DEF In
    <3>3. In(active', d) # {} => economic'[d] # None
      BY <1>2, <3>1, NoneIsNoKey DEF Leads, In
    <3>4. In(active', d) = {} => economic'[d] = None
      BY <1>2, <3>1 DEF Leads
    <3>. QED BY <1>2, <2>1, <3>1, <3>2, <3>3, <3>4
  <2>2. CASE gates'[d] # "open"
    BY <1>1, <1>5, <2>2
  <2>. QED BY <2>1, <2>2
<1>6. Led'
  BY <1>4, <1>5 DEF Led, Open
<1>. QED BY <1>1, <1>3, <1>6

-----------------------------------------------------------------------------
(* Each step preserves it.                                                 *)

\* setReady of an entry, and remove.
LEMMA SetReadyKeeps ==
  ASSUME Inv, NEW k \in Keys, NEW ready \in BOOLEAN, NEW late \in BOOLEAN,
         entries' = entries \/ (entries' = entries \ {k} /\ ~ready),
         setReady(k, ready, late), UNCHANGED <<groups, priority, rate, gateVars>>,
         jobs' \in [Keys -> {"absent", "unready", "ready", "barred"}],
         \A j \in Keys \ {k} : jobs'[j] = jobs[j], ready => jobs'[k] = "ready",
         delayed' \subseteq delayed \cup {k}, ready /\ ~late => k \notin delayed'
  PROVE  Inv'
<1>1. CASE k \notin entries
  <2>1. entries' = entries /\ UNCHANGED <<entryVars, economic>> /\ k \notin allowed
    BY <1>1 DEF setReady, Inv, Sorted
  <2>2. Typed' /\ Listed'
    BY <2>1 DEF Inv, Typed, Listed, Sorted, gateVars, entryVars
  <2>3. Sorted'
    BY <2>1 DEF Inv, Sorted, gateVars, entryVars
  <2>4. Led'
    BY <2>1 DEF Inv, Led, Leads, Open, In, OutranksIn, ScoreIn, Before, gateVars, entryVars
  <2>. QED BY <2>2, <2>3, <2>4 DEF Inv
<1>2. CASE k \in entries
  <2>. DEFINE K == IF ready /\ ~late THEN active \cup {k} ELSE active \ {k}
              D == {DomainOf[j] : j \in (K \ active) \cup (active \ K)}
  <2>1. /\ active' = K /\ refreshGroup(D)
        /\ allowed' = IF ready THEN allowed \cup {k} ELSE allowed \ {k}
        /\ waitingJobs' = IF ready /\ late THEN waitingJobs \cup {k} ELSE waitingJobs \ {k}
    BY <1>2 DEF setReady, setActive
  <2>2. Sorted'
    BY <1>2, <2>1 DEF Inv, Sorted, gateVars
  <2>3. Listed'
    BY <1>2, <2>1 DEF Inv, Listed, Sorted, Typed
  <2>4. \A d \in Domains \ D : In(active', d) = In(active, d)
    <3>1. \A j \in (K \ active) \cup (active \ K) : DomainOf[j] \in D
      OBVIOUS
    <3>. HIDE DEF K, D
    <3>. QED BY <2>1, <3>1 DEF In
  <2>5. economic' \in [Domains -> Keys \cup {None}] /\ Led'
    <3>1. /\ active' \subseteq entries' /\ entries' \subseteq Keys
          /\ \A j \in entries' : DomainOf[j] \in groups'
      BY <2>2, <2>3 DEF Inv, Sorted, Listed, Typed
    <3>. HIDE DEF K, D
    <3>. QED BY <2>1, <2>4, <3>1, Refreshed DEF Inv, gateVars
  <2>6. Typed'
    BY <2>5 DEF Inv, Typed, gateVars
  <2>. QED BY <2>2, <2>3, <2>5, <2>6 DEF Inv
<1>. QED BY <1>1, <1>2

LEMMA SetDomainReadyKeeps ==
  ASSUME Inv, NEW d \in Domains, NEW gate \in {"open", "closed", "later"}, NEW forgotten,
         setDomainReady(d, gate, forgotten), UNCHANGED <<jobs, delayed, snapshotVars>>
  PROVE  Inv'
<1>1. domainGates' \in [Domains -> {"open", "closed", "later", None}]
  BY DEF setDomainReady, Inv, Typed
<1>2. CASE d \in groups
  <2>1. /\ gates' = [gates EXCEPT ![d] = gate] /\ UNCHANGED active /\ refreshGroup({d})
        /\ waitingDomains' = IF gate = "later" THEN waitingDomains \cup {d}
                                               ELSE waitingDomains \ {d}
        /\ UNCHANGED <<allowed, waitingJobs>>
    BY <1>2 DEF setDomainReady
  <2>2. Sorted' /\ Listed'
    BY <2>1 DEF Inv, Typed, Sorted, Listed, snapshotVars
  <2>3. economic' \in [Domains -> Keys \cup {None}] /\ Led'
    <3>1. \A e \in Domains \ {d} :
            gates'[e] = gates[e] /\ (e \in waitingDomains' <=> e \in waitingDomains)
      BY <2>1 DEF Inv, Typed
    <3>2. /\ active' \subseteq entries' /\ entries' \subseteq Keys
          /\ \A j \in entries' : DomainOf[j] \in groups'
      BY <2>1, <2>2 DEF Inv, Sorted, Listed, Typed, snapshotVars
    <3>. QED BY <2>1, <3>1, <3>2, Refreshed DEF Inv, snapshotVars
  <2>. QED BY <1>1, <2>1, <2>2, <2>3 DEF Inv, Typed, snapshotVars
<1>3. CASE d \notin groups
  <2>1. UNCHANGED <<gates, waitingDomains, entryVars, economic>>
    BY <1>3 DEF setDomainReady, entryVars
  <2>. QED
    BY <1>1, <2>1
       DEF Inv, Typed, Listed, Sorted, Led, Leads, Open, In, OutranksIn, ScoreIn, Before,
           snapshotVars, entryVars
<1>. QED BY <1>2, <1>3

\* Steps that leave the index alone.
LEMMA IdleKeeps ==
  ASSUME Inv, UNCHANGED <<snapshotVars, entryVars, gates, waitingDomains, economic>>,
         jobs' \in [Keys -> {"absent", "unready", "ready", "barred"}],
         \A k \in Keys : jobs[k] = "ready" => jobs'[k] = "ready",
         delayed' \subseteq delayed \cup {k \in Keys : jobs[k] # "ready"},
         domainGates' \in [Domains -> {"open", "closed", "later", None}]
  PROVE  Inv'
<1>1. Typed' /\ Listed'
  BY DEF Inv, Typed, Listed, Sorted, snapshotVars, entryVars
<1>2. Sorted'
  BY DEF Inv, Typed, Listed, Sorted, snapshotVars, entryVars
<1>3. Led'
  BY DEF Inv, Led, Leads, Open, In, OutranksIn, ScoreIn, Before, snapshotVars, entryVars
<1>. QED BY <1>1, <1>2, <1>3 DEF Inv

LEMMA RebuildKeeps ==
  ASSUME Inv, rebuild, UNCHANGED <<jobs, delayed>>
  PROVE  Inv'
<1>1. /\ priority' \in Rankings /\ rate' \in Rates /\ entries' \subseteq Keys
      /\ groups' = {DomainOf[k] : k \in entries'}
      /\ allowed' = {k \in entries' : jobs[k] = "ready"}
      /\ active' = allowed' \ delayed /\ waitingJobs' = allowed' \cap delayed
      /\ waitingDomains' = {d \in groups' : gates'[d] = "later"}
  BY DEF rebuild
<1>2. /\ domainGates' \in [Domains -> {"open", "closed", "later", None}]
      /\ gates' = [d \in Domains |-> IF domainGates'[d] = None THEN "open" ELSE domainGates'[d]]
  BY DEF rebuild, Inv, Typed
<1>3. gates' \in [Domains -> {"open", "closed", "later"}]
  BY <1>2
<1>4. economic' = [d \in Domains |-> IF gates'[d] = "open"
                                   THEN LeaderIn(priority', rate', active', d) ELSE None]
  BY ActiveLeader DEF rebuild
<1>5. \A d : Leads(priority', rate', active', d, LeaderIn(priority', rate', active', d))
  <2>1. priority' \in [Keys -> Nat] /\ rate' \in [Policies -> Nat] /\ active' \in SUBSET Keys
    BY <1>1, SchedulerAssumption
  <2>. QED BY <2>1, LeaderLeads
<1>6. Sorted' /\ Listed'
  BY <1>1 DEF Sorted, Listed
<1>7. Typed'
  <2>1. \A d : LeaderIn(priority', rate', active', d) \in Keys \cup {None}
    BY <1>1, <1>5 DEF Leads, In
  <2>. QED BY <1>1, <1>2, <1>3, <1>4, <2>1 DEF Inv, Typed
<1>8. Led'
  <2>1. ASSUME NEW d \in Domains
        PROVE  /\ economic'[d] # None =>
                    /\ d \in groups' /\ gates'[d] = "open"
                    /\ Leads(priority', rate', active', d, economic'[d])
               /\ economic'[d] = None => In(active', d) = {} \/ gates'[d] # "open"
    <3>1. In(active', d) # {} => d \in groups'
      BY <1>1 DEF In
    <3>2. LeaderIn(priority', rate', active', d) = None <=> In(active', d) = {}
      BY <1>1, <1>5, NoneIsNoKey DEF Leads, In
    <3>. QED BY <1>4, <1>5, <3>1, <3>2
  <2>. QED BY <2>1 DEF Led, Open
<1>. QED BY <1>6, <1>7, <1>8 DEF Inv

LEMMA PromoteKeeps ==
  ASSUME Inv, promote, UNCHANGED <<jobs, delayed>>
  PROVE  Inv'
<1>. DEFINE J == waitingJobs \ delayed
            W == {d \in waitingDomains : gates[d] = "open"}
            D == W \cup {DomainOf[k] : k \in J}
<1>1. /\ active' = active \cup J /\ waitingJobs' = waitingJobs \ J
      /\ waitingDomains' = waitingDomains \ W
      /\ refreshGroup(D) /\ UNCHANGED <<snapshotVars, allowed, gates, domainGates>>
  BY DEF promote
<1>2. Sorted' /\ Listed'
  BY <1>1 DEF Inv, Sorted, Listed, snapshotVars
<1>3. \A d \in Domains \ D :
        In(active', d) = In(active, d) /\ (d \in waitingDomains' <=> d \in waitingDomains)
  <2>1. \A k \in J : DomainOf[k] \in D
    OBVIOUS
  <2>2. W \subseteq D
    OBVIOUS
  <2>. HIDE DEF J, W, D
  <2>. QED BY <1>1, <2>1, <2>2 DEF In
<1>4. economic' \in [Domains -> Keys \cup {None}] /\ Led'
  <2>1. /\ active' \subseteq entries' /\ entries' \subseteq Keys
        /\ \A k \in entries' : DomainOf[k] \in groups'
    BY <1>1, <1>2 DEF Inv, Sorted, Listed, Typed, snapshotVars
  <2>. HIDE DEF J, W, D
  <2>. QED BY <1>1, <1>3, <2>1, Refreshed DEF Inv, snapshotVars
<1>5. Typed'
  BY <1>1, <1>4 DEF Inv, Typed, snapshotVars
<1>. QED BY <1>2, <1>4, <1>5 DEF Inv

LEMMA ClearKeeps ==
  ASSUME Inv, NEW preserve \in BOOLEAN, engineClear(preserve)
  PROVE  Inv'
<1>1. /\ jobs' = [k \in Keys |-> "absent"] /\ entries' = {} /\ groups' = {}
      /\ economic' = [d \in Domains |-> None] /\ allowed' = {} /\ active' = {} /\ waitingJobs' = {}
      /\ UNCHANGED <<priority, rate, gates>>
      /\ domainGates' \in [Domains -> {"open", "closed", "later", None}]
  BY DEF engineClear, clear, Inv, Typed
<1>2. \A d : In(active', d) = {}
  BY <1>1 DEF In
<1>. QED BY <1>1, <1>2 DEF Inv, Typed, Listed, Sorted, Led, Open, In

LEMMA ElapseKeeps ==
  ASSUME Inv, elapse
  PROVE  Inv'
<1>1. CASE \E k \in delayed : delayed' = delayed \ {k} /\ UNCHANGED <<gates, domainGates>>
  BY <1>1, IdleKeeps DEF elapse, Inv, Typed
<1>2. ASSUME NEW d \in Domains, UNCHANGED delayed,
             gates' = IF gates[d] = "later" THEN [gates EXCEPT ![d] = "open"] ELSE gates,
             domainGates' = IF domainGates[d] = "later" THEN [domainGates EXCEPT ![d] = "open"]
                                                        ELSE domainGates
      PROVE  Inv'
  <2>1. UNCHANGED <<jobs, snapshotVars, entryVars, waitingDomains, economic>>
    BY DEF elapse
  <2>2. /\ gates' \in [Domains -> {"open", "closed", "later"}]
        /\ domainGates' \in [Domains -> {"open", "closed", "later", None}]
        /\ \A e \in Domains : gates'[e] = gates[e] \/ (gates[e] = "later" /\ gates'[e] = "open")
    BY <1>2 DEF Inv, Typed
  <2>3. Typed' /\ Listed'
    BY <2>1, <2>2 DEF Inv, Typed, Listed, snapshotVars, entryVars
  <2>4. {e \in groups : gates'[e] = "later"} \subseteq waitingDomains
    <3>1. \A e \in groups : gates'[e] = "later" => gates[e] = "later"
      BY <1>2 DEF Inv, Typed
    <3>. QED BY <3>1 DEF Inv, Sorted
  <2>5. Sorted'
    BY <1>2, <2>1, <2>4 DEF Inv, Sorted, snapshotVars, entryVars
  <2>6. Led'
    <3>1. \A e \in Domains : e \in groups /\ gates[e] = "later" => e \in waitingDomains
      BY DEF Inv, Sorted
    <3>. QED
      BY <2>1, <2>2, <3>1
         DEF Inv, Led, Leads, Open, In, OutranksIn, ScoreIn, Before, snapshotVars, entryVars
  <2>. QED BY <2>3, <2>5, <2>6 DEF Inv
<1>. QED BY <1>1, <1>2 DEF elapse

LEMMA InvStep ==
  ASSUME Inv, [Next]_vars
  PROVE  Inv'
<1>1. CASE UNCHANGED vars
  BY <1>1, IdleKeeps DEF vars, engineVars, gateVars, Inv, Typed
<1>2. CASE nextReady
  BY <1>2, RebuildKeeps, PromoteKeeps DEF nextReady
<1>3. CASE onStarted \/ unstarted \/ refresh
  BY <1>3, IdleKeeps DEF onStarted, unstarted, refresh, engineVars, gateVars, Inv, Typed
<1>4. CASE prepareJob
  <2>. DEFINE k == selection.key
  <2>1. /\ jobs[k] = "ready" /\ jobs' = [jobs EXCEPT ![k] = "unready"]
        /\ UNCHANGED <<delayed, snapshotVars, gateVars>> /\ setReady(k, FALSE, FALSE)
    BY <1>4 DEF prepareJob
  <2>2. CASE k \in Keys
    <3>1. /\ jobs' \in [Keys -> {"absent", "unready", "ready", "barred"}]
          /\ \A j \in Keys \ {k} : jobs'[j] = jobs[j]
      BY <2>1, <2>2 DEF Inv, Typed
    <3>. QED BY <2>1, <2>2, <3>1, SetReadyKeeps DEF snapshotVars
  <2>3. CASE k \notin Keys
    <3>1. k \notin entries /\ jobs' = jobs
      BY <2>1, <2>3 DEF Inv, Typed
    <3>. QED BY <2>1, <3>1, IdleKeeps DEF setReady, gateVars, Inv, Typed
  <2>. QED BY <2>2, <2>3
<1>5. CASE elapse
  BY <1>5, ElapseKeeps
<1>6. CASE halted
  BY <1>6, IdleKeeps DEF halted, Inv, Typed
<1>7. ASSUME NEW gate \in {"closed", "later"}, resolveJob(gate)
      PROVE  Inv'
  <2>1. DomainOf[selection.key] \in Domains
    BY <1>7, SchedulerAssumption DEF resolveJob
  <2>. QED BY <1>7, <2>1, SetDomainReadyKeeps DEF resolveJob, engineVars
<1>8. ASSUME NEW k \in Keys, enqueue(k)
      PROVE  Inv'
  BY <1>8, IdleKeeps DEF enqueue, gateVars, Inv, Typed
<1>9. ASSUME NEW k \in Keys, NEW status \in {"absent", "barred"}, leave(k, status)
      PROVE  Inv'
  BY <1>9, SetReadyKeeps DEF leave, remove, Inv, Typed
<1>10. ASSUME NEW k \in Keys, NEW late \in BOOLEAN, prepared(k, late)
       PROVE  Inv'
  <2>1. /\ jobs' = [jobs EXCEPT ![k] = "ready"]
        /\ delayed' = IF late THEN delayed \cup {k} ELSE delayed
    BY <1>10 DEF prepared
  <2>2. CASE UNCHANGED <<snapshotVars, gateVars>> /\ setReady(k, TRUE, k \in delayed')
    <3>1. (k \in delayed') \in BOOLEAN
      OBVIOUS
    <3>. QED BY <2>1, <2>2, <3>1, SetReadyKeeps DEF snapshotVars, Inv, Typed
  <2>3. CASE remove(k)
    BY <2>1, <2>3, SetReadyKeeps DEF remove, Inv, Typed
  <2>. QED BY <1>10, <2>2, <2>3 DEF prepared
<1>11. ASSUME NEW d \in Domains, NEW gate \in {"open", "later"}, NEW forgotten \in {{}, {d}},
              resolved(d, gate, forgotten)
       PROVE  Inv'
  BY <1>11, SetDomainReadyKeeps DEF resolved, engineVars
<1>12. ASSUME NEW preserve \in BOOLEAN, engineClear(preserve)
       PROVE  Inv'
  BY <1>12, ClearKeeps
<1>. QED
  BY <1>1, <1>2, <1>3, <1>4, <1>5, <1>6, <1>7, <1>8, <1>9, <1>10, <1>11, <1>12 DEF Next

\* The index is always what a rebuild would make of the entries: however priorities,
\* rates, preparations, delays, gates, removals and clears interleave, no ready
\* bounty is lost, and the leader of a domain outranks every ready bounty of it
\* (claim-scheduler.mjs:177-237).
THEOREM IndexKept == Spec => []Indexed
<1>1. Init => Inv
  BY DEF Init, Inv, Typed, Listed, Sorted, Led, In, Open
<1>2. Inv /\ [Next]_vars => Inv'
  BY InvStep
<1>3. Inv => Indexed
  BY LedIndexed DEF Inv
<1>. QED BY <1>1, <1>2, <1>3, PTL DEF Spec
=============================================================================
